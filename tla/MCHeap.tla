-------------------------------- MODULE MCHeap --------------------------------
(***************************************************************************)
(* The TLC instance of Heap: bytes, with two to a word as on the AVR, and  *)
(* a heap of two dozen.  malloc() is asked for lengths that fit and for    *)
(* those at the wrap; realloc() for no length below a word and for none at *)
(* the wrap, for which Tiled does not hold (see the README).               *)
(***************************************************************************)
EXTENDS Heap
MCMallocLengths == 0 .. 9 \cup {30, 31}
MCReallocLengths == 2 .. 29
=============================================================================
