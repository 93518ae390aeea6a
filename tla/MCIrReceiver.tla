----------------------------- MODULE MCIrReceiver -----------------------------
(* TLC instances of IrReceiver: every run uses it with the constants of its cfg. *)
EXTENDS IrReceiver
=============================================================================
