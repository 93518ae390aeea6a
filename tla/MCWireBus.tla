------------------------------ MODULE MCWireBus ------------------------------
(* TLC instances of WireBus: every run uses it with the constants of its cfg. *)
EXTENDS WireBus
=============================================================================
