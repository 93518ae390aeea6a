--------------------------------- MODULE Heap ---------------------------------
(***************************************************************************)
(* malloc(), free() and realloc() of the core's library                    *)
(* (cores/ebot_8/avr-libc/malloc.c and realloc.c), on which String and     *)
(* operator new are built.  A chunk is a size field followed by that many  *)
(* bytes; chunks lie one behind the other from the start of the heap to    *)
(* __brkval, and those that are free are linked through their own bytes.   *)
(*                                                                         *)
(* The calls are not reentrant and the sketch is the only caller: a call   *)
(* is one step.  Addresses and lengths are modulo Wrap.  To the sketch the *)
(* heap is an Allocator.                                                   *)
(***************************************************************************)
EXTENDS Naturals, Sequences, SequencesExt

CONSTANTS HeapStart,       \* __malloc_heap_start
          HeapEnd,         \* __malloc_heap_end, or the stack less the margin
          Word,            \* sizeof(size_t) and of a pointer
          Wrap,            \* addresses are modulo Wrap (2^16)
          MallocLengths,   \* lengths asked of malloc()
          ReallocLengths   \* lengths asked of realloc()

\* The heap lies behind the registers and the program's data.
ASSUME HeapAssumption ==
  /\ HeapStart \in Nat /\ HeapEnd \in Nat /\ Word \in Nat \ {0} /\ Wrap \in Nat
  /\ Word <= HeapStart /\ HeapStart < HeapEnd /\ HeapEnd < Wrap
  /\ MallocLengths \subseteq 0 .. Wrap - 1 /\ ReallocLengths \subseteq 0 .. Wrap - 1

VARIABLES brk,      \* __brkval, 0 before the first malloc()
          flp,      \* __flp: the free list, entries [at, sz] as they are linked
          used      \* the sketch's blocks: chunks [at, sz]

vars == <<brk, flp, used>>

EntrySize == 2 * Word                 \* sizeof(struct __freelist)
Chunk(at, sz) == [at |-> at, sz |-> sz]
EndOf(c) == c.at + Word + c.sz        \* the address behind a chunk

\* What malloc() and free() leave: the break, the list, the block handed out.
Heap(b, list, block) == [brk |-> b, flp |-> list, block |-> block]

Init == brk = 0 /\ flp = <<>> /\ used = {}

-----------------------------------------------------------------------------
(* malloc *)

\* The least length is that of the pointer an entry of the free list needs.
AtLeast(len) == IF len < Word THEN Word ELSE len

Exact(n) == {k \in DOMAIN flp : flp[k].sz = n}
Larger(n) == {k \in DOMAIN flp : flp[k].sz > n}

\* The first of the smallest entries that are larger than n.
Closest(n) == Min({k \in Larger(n) : \A j \in Larger(n) : flp[k].sz <= flp[j].sz})

TakeEntry(k) == Heap(brk, RemoveAt(flp, k), flp[k])

\* Mutant: the upper part's size field is not taken off the entry.
SplitEntryNoField(k, n) ==
  Heap(brk, [flp EXCEPT ![k].sz = @ - n], Chunk(flp[k].at + flp[k].sz - n, n))

\* The upper part of entry k becomes a block of n bytes, the rest stays.
SplitEntry(k, n) ==
  Heap(brk, [flp EXCEPT ![k].sz = @ - n - Word], Chunk(flp[k].at + flp[k].sz - n, n))

Brk == IF brk = 0 THEN HeapStart ELSE brk

\* Is there room for n bytes behind the last chunk?  n + Word may wrap.
RoomAtTop(n) == /\ HeapEnd > Brk /\ HeapEnd - Brk >= n
                /\ HeapEnd - Brk >= (n + Word) % Wrap

Found(n) == Exact(n) # {} \/ Larger(n) # {} \/ RoomAtTop(n)

\* An exact entry, or else the closest one, split if the rest can hold an entry,
\* or else the top of the heap.
Obtain(n) ==
  IF Exact(n) # {} THEN TakeEntry(Min(Exact(n)))
  ELSE IF Larger(n) = {} THEN Heap(Brk + n + Word, flp, Chunk(Brk, n))
  ELSE IF flp[Closest(n)].sz - n < EntrySize THEN TakeEntry(Closest(n))
  ELSE SplitEntry(Closest(n), n)

Malloc(len) ==
  LET n == AtLeast(len)
      h == Obtain(n)
  IN IF Found(n)
     THEN brk' = h.brk /\ flp' = h.flp /\ used' = used \cup {h.block}
     ELSE brk' = Brk /\ UNCHANGED <<flp, used>>

-----------------------------------------------------------------------------
(* free *)

\* Where c belongs in the list: before the first entry behind it.
Place(list, c) ==
  IF \E k \in DOMAIN list : list[k].at >= c.at
  THEN Min({k \in DOMAIN list : list[k].at >= c.at}) ELSE Len(list) + 1

\* c and the list from p on, joined if they touch.
JoinUpper(list, p, c) ==
  IF p <= Len(list) /\ EndOf(c) = list[p].at
  THEN <<Chunk(c.at, c.sz + list[p].sz + Word)>> \o SubSeq(list, p + 1, Len(list))
  ELSE <<c>> \o SubSeq(list, p, Len(list))

\* Mutant: a lower neighbour is not joined.
JoinLowerNever(list, p, upper) == SubSeq(list, 1, p - 1) \o upper

\* The list before p and upper, which begins with the chunk freed, joined if
\* they touch.
JoinLower(list, p, upper) ==
  LET lower == list[p - 1] IN
    IF EndOf(lower) = Head(upper).at
    THEN SubSeq(list, 1, p - 2)
           \o <<Chunk(lower.at, lower.sz + Head(upper).sz + Word)>> \o Tail(upper)
    ELSE SubSeq(list, 1, p - 1) \o upper

\* A list whose last entry has become the topmost chunk gives it back.
LowerBrk(b, list) ==
  IF EndOf(Last(list)) = b THEN Heap(Last(list).at, Front(list), Last(list))
                           ELSE Heap(b, list, Last(list))

\* The heap with break b and the list after chunk c is freed.  A new head of the
\* list has an entry behind it, and the break stays.
Freed(b, list, c) ==
  LET p == Place(list, c)
      upper == JoinUpper(list, p, c)
  IN IF list # <<>> /\ p = 1 THEN Heap(b, upper, c)
     ELSE IF list = <<>> THEN LowerBrk(b, <<c>>)
     ELSE LowerBrk(b, JoinLower(list, p, upper))

Free(c) ==
  LET h == Freed(brk, flp, c) IN
    brk' = h.brk /\ flp' = h.flp /\ used' = used \ {c}

-----------------------------------------------------------------------------
(* realloc of block c to len bytes; what it refuses and what stays as it is *)
(* changes nothing *)

\* The block's data are at c.at + Word; does their end wrap?
WrapsAround(c, len) == (c.at + Word + len) % Wrap < c.at

\* A block shrinks only if the rest can be a chunk that holds an entry.
Shrink(c, len) ==
  LET h == Freed(brk, flp, Chunk(c.at + Word + len, c.sz - len - Word)) IN
    /\ len <= c.sz /\ c.sz > EntrySize /\ len <= c.sz - EntrySize
    /\ brk' = h.brk /\ flp' = h.flp
    /\ used' = (used \ {c}) \cup {Chunk(c.at, len)}

\* Mutant: its size is not tested.
BehindAnySize(c, len) == {k \in DOMAIN flp : flp[k].at = EndOf(c)}

\* The entry right behind the block, if it is large enough.
Behind(c, len) == {k \in DOMAIN flp : flp[k].at = EndOf(c) /\ flp[k].sz + Word >= len - c.sz}

\* The block grows into it and leaves the rest, or takes it whole.
GrowInto(c, len) ==
  \E k \in Behind(c, len) :
    /\ len > c.sz
    /\ IF flp[k].sz + Word - (len - c.sz) > EntrySize
       THEN /\ flp' = [flp EXCEPT ![k] = Chunk(c.at + Word + len, @.sz - (len - c.sz))]
            /\ used' = (used \ {c}) \cup {Chunk(c.at, len)}
       ELSE /\ flp' = RemoveAt(flp, k)
            /\ used' = (used \ {c}) \cup {Chunk(c.at, c.sz + flp[k].sz + Word)}
    /\ UNCHANGED brk

\* Is it the topmost block, and no entry large enough to move it to?
OnTop(c, len) == brk = EndOf(c) /\ \A k \in DOMAIN flp : flp[k].sz < len

GrowTop(c, len) ==
  /\ len > c.sz /\ Behind(c, len) = {} /\ OnTop(c, len)
  /\ (c.at + Word + len) % Wrap < HeapEnd
  /\ brk' = (c.at + Word + len) % Wrap
  /\ used' = (used \ {c}) \cup {Chunk(c.at, len)}
  /\ UNCHANGED flp

\* Otherwise the data are copied to a new block and the old one is freed.
Move(c, len) ==
  LET n == AtLeast(len)
      h == Obtain(n)
      f == Freed(h.brk, h.flp, c)
  IN /\ len > c.sz /\ Behind(c, len) = {} /\ ~OnTop(c, len) /\ Found(n)
     /\ brk' = f.brk /\ flp' = f.flp
     /\ used' = (used \ {c}) \cup {h.block}

Realloc(c, len) ==
  /\ ~WrapsAround(c, len)
  /\ Shrink(c, len) \/ GrowInto(c, len) \/ GrowTop(c, len) \/ Move(c, len)

Next == \/ \E len \in MallocLengths : Malloc(len)
        \/ \E c \in used : Free(c)
        \/ \E c \in used, len \in ReallocLengths : Realloc(c, len)

Spec == Init /\ [][Next]_vars
-----------------------------------------------------------------------------
(* Properties *)

FreeChunks == {flp[k] : k \in DOMAIN flp}
Chunks == used \cup FreeChunks

\* Blocks and free chunks fill the heap without a hole and without overlap, each
\* large enough for an entry of the free list: no sequence of malloc(), free()
\* and realloc() makes two blocks share a byte or loses one.
Tiled ==
  /\ brk = 0 => Chunks = {}
  /\ \A c \in Chunks : /\ c.sz >= Word /\ c.at >= HeapStart /\ EndOf(c) <= brk
                       /\ EndOf(c) = brk \/ \E d \in Chunks : d.at = EndOf(c)
                       /\ \A d \in Chunks \ {c} : EndOf(c) <= d.at \/ EndOf(d) <= c.at
  /\ brk > HeapStart => \E c \in Chunks : c.at = HeapStart
  /\ brk <= HeapEnd /\ used \cap FreeChunks = {}

\* The list is in order of addresses, neighbours are joined, and the topmost
\* chunk is never free: when every block is freed the whole heap is back.
GivenBack ==
  /\ \A k \in 1 .. Len(flp) - 1 : EndOf(flp[k]) < flp[k + 1].at
  /\ flp # <<>> => EndOf(Last(flp)) < brk
  /\ used = {} => brk \in {0, HeapStart}

\* The sketch's blocks as those of the abstract allocator.
Abstract == INSTANCE Allocator
              WITH Lowest <- HeapStart, Highest <- HeapEnd, Overhead <- Word,
                   Lengths <- MallocLengths \cup ReallocLengths, blocks <- used

\* Each call does for its argument what the allocator promises, or changes no
\* block: malloc() and realloc() give at least the bytes asked for, apart from
\* every other block, realloc() never moves a block onto itself, and no call
\* touches a block that is not its own.
CallsHonoured ==
  [][/\ \A len \in MallocLengths : Malloc(len) => Abstract!Alloc(len) \/ UNCHANGED used
     /\ \A c \in used : Free(c) => Abstract!Release(c)
     /\ \A c \in used, len \in ReallocLengths : Realloc(c, len) => Abstract!Resize(c, len)]_vars

\* A sequence of calls is one of the abstract allocator.
ImplementsAllocator == Abstract!AllocSpec
=============================================================================
