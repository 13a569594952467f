------------------------------- MODULE MCBoot -------------------------------
(* TLC instances of Boot: one image that works, one that may not. *)
EXTENDS Boot

CONSTANTS good, bad, none

MCImages == {good, bad}
MCSound == {good}
=============================================================================
