----------------------------- MODULE MCReceive -----------------------------
(***************************************************************************)
(* TLC instance of Receive: two single messages, one of them of two        *)
(* packets; two split messages of one opcode and the same announced        *)
(* length, in two and in three fragments; one of another opcode; one       *)
(* larger than the device accepts.  Either host may tear a fragment.       *)
(***************************************************************************)
EXTENDS Receive

MCMail == {
  [op |-> "values", parts |-> <<1>>],
  [op |-> "values", parts |-> <<2>>],
  [op |-> "field", parts |-> <<2, 1>>],
  [op |-> "field", parts |-> <<1, 1, 1>>],
  [op |-> "begin", parts |-> <<1, 1>>],
  [op |-> "field", parts |-> <<1, 2, 1>>]}
=============================================================================
