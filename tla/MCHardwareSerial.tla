-------------------------- MODULE MCHardwareSerial --------------------------
(* TLC instances of HardwareSerial. *)
EXTENDS HardwareSerial, TLC

CONSTANTS b1, b2

\* Bytes are never compared with one another, so they are interchangeable.
ByteSymmetry == Permutations({b1, b2})
=============================================================================
