------------------------------- MODULE MCClock -------------------------------
(* TLC instances of Clock: every run uses it with the constants of its cfg. *)
EXTENDS Clock
=============================================================================
