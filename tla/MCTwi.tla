------------------------------- MODULE MCTwi -------------------------------
(* TLC instances of TwiBus: every run uses it with the constants of its cfg. *)
EXTENDS TwiBus
=============================================================================
