------------------------------- MODULE SdVolume -------------------------------
(***************************************************************************)
(* The volume of a memory card (libraries/Ebot/utility/SdVolume.cpp): one  *)
(* block of the card is kept in memory, changed there and written back     *)
(* before another takes its place; the file allocation table and its       *)
(* mirror are reached through it.                                          *)
(*                                                                         *)
(* Everything runs in the sketch's call, so an operation is an operator    *)
(* on the state s of the call: card, buf, num, dirty, mirror and start are *)
(* the static fields of SdVolume; ok turns FALSE where the code returns    *)
(* false, and every operator leaves a call that is not ok as it is; Then   *)
(* is the code's `if (!...) return false'.  val is a result.               *)
(*                                                                         *)
(* The card answers fuse more accesses (Never: all of them) and then none  *)
(* in this call; late says whether the first write that fails is stored.   *)
(* A failed read leaves the buffer alone: Sd2Card::readData() gives up     *)
(* before the first byte is transferred.                                   *)
(***************************************************************************)
EXTENDS Integers

CONSTANTS ClusterCount,       \* clusters of the volume, numbered from 2
          BlocksPerCluster,
          FatCount,           \* 1, or 2 with a mirror
          Slots               \* entries of a block: FAT, directory, or units of data

ASSUME VolumeAssumption ==
  /\ ClusterCount \in Nat \ {0} /\ BlocksPerCluster \in Nat \ {0}
  /\ FatCount \in {1, 2} /\ Slots \in Nat \ {0}

LastCluster == ClusterCount + 1
Clusters == 2 .. LastCluster
EOC == LastCluster + 1                    \* 0xFFF8 and above: the end of a chain
IsEOC(c) == c > LastCluster

\* Block numbers as init() lays them out: boot block, FATs, root, data.
BlocksPerFat == (LastCluster \div Slots) + 1
FatStart == 1
RootDirStart == FatStart + FatCount * BlocksPerFat
DataStart == RootDirStart + 1             \* a root directory of one block
Blocks == 0 .. DataStart + ClusterCount * BlocksPerCluster - 1
None == -1                                \* 0XFFFFFFFF, not a block of the card
Never == -1

FatBlock(c) == FatStart + (c \div Slots)
ClusterStartBlock(c) == DataStart + (c - 2) * BlocksPerCluster

Fail(s) == [s EXCEPT !.ok = FALSE]
Blow(s) == [s EXCEPT !.ok = FALSE, !.blown = TRUE]
Then(s, Op(_)) == IF s.ok THEN Op(s) ELSE s
Burn(s) == IF s.fuse = Never THEN s ELSE [s EXCEPT !.fuse = @ - 1]

-----------------------------------------------------------------------------
(* The card *)

\* The caller takes what was read from s.card[b].
ReadBlock(s, b) ==
  IF ~s.ok THEN s
  ELSE IF b \notin Blocks THEN Fail(s)
  ELSE IF s.fuse = 0 THEN Blow(s)
  ELSE Burn(s)

\* Block 0 is protected.
WriteBlock(s, b, data) ==
  IF ~s.ok THEN s
  ELSE IF b \notin Blocks \ {0} THEN Fail(s)
  ELSE IF s.fuse = 0 THEN [Blow(s) EXCEPT !.card[b] = IF s.late /\ ~s.blown THEN data ELSE @]
  ELSE [Burn(s) EXCEPT !.card[b] = data]

-----------------------------------------------------------------------------
(* The block in memory *)

WriteMirror(s) == IF s.mirror = 0 THEN s ELSE WriteBlock(s, s.mirror, s.buf)

CacheFlush(s) ==
  IF ~s.dirty THEN s
  ELSE Then(WriteMirror(WriteBlock(s, s.num, s.buf)),
            LAMBDA r : [r EXCEPT !.mirror = 0, !.dirty = FALSE])

\* Mutant: the buffer is taken for another block without writing it back.
CacheRawBlockNoFlush(s, b, forWrite) ==
  IF s.num = b THEN [s EXCEPT !.dirty = @ \/ (s.ok /\ forWrite)]
  ELSE Then(ReadBlock(s, b),
            LAMBDA r : [r EXCEPT !.buf = r.card[b], !.num = b, !.dirty = forWrite])

CacheRawBlock(s, b, forWrite) ==
  IF s.num = b THEN [s EXCEPT !.dirty = @ \/ (s.ok /\ forWrite)]
  ELSE Then(ReadBlock(CacheFlush(s), b),
            LAMBDA r : [r EXCEPT !.buf = r.card[b], !.num = b, !.dirty = @ \/ forWrite])

\* An assignment through a pointer into the buffer.
Poke(s, slot, v) == IF s.ok THEN [s EXCEPT !.buf[slot] = v, !.dirty = TRUE] ELSE s

\* The blocks as the calls see them: the card under the block in memory.
View(s) == IF s.num \in Blocks THEN [s.card EXCEPT ![s.num] = s.buf] ELSE s.card

-----------------------------------------------------------------------------
(* The allocation table *)

FatGet(s, c) ==
  IF c > LastCluster THEN Fail(s)
  ELSE Then(CacheRawBlock(s, FatBlock(c), FALSE),
            LAMBDA r : [r EXCEPT !.val = r.buf[c % Slots]])

\* Mutant: only the first table is written.
FatPutNoMirror(s, c, v) ==
  IF c \notin Clusters THEN Fail(s)
  ELSE Poke(CacheRawBlock(s, FatBlock(c), FALSE), c % Slots, v)

FatPut(s, c, v) ==
  IF c \notin Clusters THEN Fail(s)
  ELSE Then(Poke(CacheRawBlock(s, FatBlock(c), FALSE), c % Slots, v),
            LAMBDA r : IF FatCount = 1 THEN r
                       ELSE [r EXCEPT !.mirror = FatBlock(c) + BlocksPerFat])

\* One turn of the search a for count free clusters in a row, bgn .. end: g is the
\* state after the entry of end was read.
Judge(a, g, bgn, end, count) ==
  IF ~g.ok THEN [a EXCEPT !.s = g]
  ELSE IF g.val # 0 THEN [a EXCEPT !.s = g, !.bgn = end + 1, !.end = end + 1]
  ELSE IF end - bgn + 1 = count THEN [s |-> g, bgn |-> bgn, end |-> end, found |-> TRUE]
  ELSE [a EXCEPT !.s = g, !.bgn = bgn, !.end = end + 1]

SearchStep(a, count) ==
  LET wrap == a.end > LastCluster
      end == IF wrap THEN 2 ELSE a.end
  IN  IF a.found \/ ~a.s.ok THEN a
      ELSE Judge(a, FatGet(a.s, end), IF wrap THEN 2 ELSE a.bgn, end, count)

\* The search visits every cluster at most once.
Search(s, count, from) ==
  LET turn[n \in 0 .. ClusterCount] ==
        IF n = 0 THEN [s |-> s, bgn |-> from, end |-> from, found |-> FALSE]
                 ELSE SearchStep(turn[n - 1], count)
  IN  turn[ClusterCount]

\* Entries end - 1 down to bgn point to the one after them.
Link(s, bgn, end) ==
  LET linked[k \in 0 .. end - bgn] ==
        IF k = 0 THEN s ELSE FatPut(linked[k - 1], end - k, end - k + 1)
  IN  linked[end - bgn]

LinkAfter(s, cur, first) == IF cur = 0 THEN s ELSE FatPut(s, cur, first)

\* The clusters the search a found become a chain behind cur, or a new one.
Claim(a, count, cur) ==
  IF ~a.s.ok \/ ~a.found THEN Fail(a.s)
  ELSE Then(LinkAfter(Link(FatPut(a.s, a.end, EOC), a.bgn, a.end), cur, a.bgn),
            LAMBDA r : [r EXCEPT !.val = a.bgn,
                          !.start = IF cur = 0 /\ count = 1 THEN a.bgn + 1 ELSE @])

\* Returns in val the first of count clusters, chained behind cur unless it is 0.
AllocContiguous(s, count, cur) ==
  Claim(Search(s, count, IF cur # 0 THEN cur + 1 ELSE s.start), count, cur)

\* A chain that runs into a free entry stops at the put of cluster 0, which fails.
FreeStep(s) == IF IsEOC(s.val) THEN s ELSE FatPut(FatGet(s, s.val), s.val, 0)

\* Mutant: the next search starts at the first entry of the table, not of the clusters.
FreeChainFromZero(s, first) ==
  LET freed[k \in 0 .. ClusterCount + 1] ==
        IF k = 0 THEN [s EXCEPT !.start = 0, !.val = first] ELSE FreeStep(freed[k - 1])
  IN  freed[ClusterCount + 1]

FreeChain(s, first) ==
  LET freed[k \in 0 .. ClusterCount + 1] ==
        IF k = 0 THEN [s EXCEPT !.start = 2, !.val = first] ELSE FreeStep(freed[k - 1])
  IN  freed[ClusterCount + 1]
=============================================================================
