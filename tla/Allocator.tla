------------------------------ MODULE Allocator ------------------------------
(***************************************************************************)
(* What malloc(), free() and realloc() promise to a sketch, without a free *)
(* list or a break: blocks of memory that share no byte.  A call changes   *)
(* no block but its own; one that fails changes none and is a stuttering   *)
(* step here.  Heap implements it.                                         *)
(***************************************************************************)
EXTENDS Naturals

CONSTANTS Lowest, Highest,   \* the addresses of the heap
          Overhead,          \* bytes of a block in front of the sketch's data
          Lengths            \* how many bytes are asked for

VARIABLE blocks              \* the sketch's blocks: an address and a size

Block == [at : Lowest .. Highest, sz : 0 .. Highest - Lowest]

Behind(b) == b.at + Overhead + b.sz

Apart(b, c) == Behind(b) <= c.at \/ Behind(c) <= b.at

\* May b be a block of len bytes or more beside the others?
Fits(b, len, others) == /\ b \in Block /\ b.sz >= len /\ Behind(b) <= Highest
                        /\ \A c \in others : Apart(b, c)

AllocInit == blocks = {}

\* A new block.
Alloc(len) == \E b \in blocks' : /\ Fits(b, len, blocks)
                                 /\ blocks' = blocks \cup {b}

\* The sketch gives a block back.
Release(b) == blocks' = blocks \ {b}

\* A block grows or shrinks in its place or moves, and then to where its data can
\* be copied: the new block shares no byte with the old one.
Resize(b, len) == \E c \in blocks' : /\ Fits(c, len, blocks \ {b})
                                     /\ c.at = b.at \/ Apart(b, c)
                                     /\ blocks' = (blocks \ {b}) \cup {c}

AllocNext == \/ \E len \in Lengths : Alloc(len)
             \/ \E b \in blocks : Release(b)
             \/ \E b \in blocks, len \in Lengths : Resize(b, len)

AllocSpec == AllocInit /\ [][AllocNext]_blocks
=============================================================================
