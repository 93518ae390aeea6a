---------------------------- MODULE MCEasyTransfer ----------------------------
(* The TLC instance of EasyTransfer: bytes of 3 bits, structs of 2 bytes.  No  *)
(* struct holds a first header byte or has it as its checksum.                 *)
EXTENDS EasyTransfer, Bitwise
MCByte == 0 .. 7
MCXor(a, b) == a ^^ b
MCStructs == {<<1, 3>>, <<4, 5>>}
=============================================================================
