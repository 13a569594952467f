------------------------------- MODULE MCLink -------------------------------
(***************************************************************************)
(* TLC instances of Link: an answer longer than the driver's buffer, so    *)
(* that a message is left part-way out, and messages that fill it exactly. *)
(***************************************************************************)
EXTENDS Link

MCChunks == [ready |-> 2, heartbeat |-> 1, answer |-> 5, input |-> 1]
=============================================================================
