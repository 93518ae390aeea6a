----------------------------- MODULE SdHandleProofs -----------------------------
(***************************************************************************)
(* The volume of a memory card, and the calls that work through the handle *)
(* of an open file: seekSet(), read(), write() and sync().                 *)
(*                                                                         *)
(* A step of a call is described by what it does to the volume as it is    *)
(* seen through the cache (Seen) and to what lies on the card (Main):      *)
(* Keeps, Leads, Alters, Rests.  Live says what holds of the table, the    *)
(* directory and the chains of the files, and Inside is the invariant in   *)
(* the midst of a call on one file: every operation of SdVolume and SdFile *)
(* leads from a state with Inside to one with it, or says how the chain of *)
(* that file changed.  The other files keep their chains because only free *)
(* entries and entries of this file change (Within).                       *)
(***************************************************************************)
EXTENDS SdFile, FiniteSetTheorems, SequenceTheorems, WellFoundedInduction, TLAPS

-----------------------------------------------------------------------------
(* Recursion over the natural numbers, one step at a time *)

\* A set that holds 0 and with k also k + 1 holds everything up to n.
LEMMA UpTo ==
  ASSUME NEW n \in Nat, NEW A, 0 \in A, \A k \in 1 .. n : k - 1 \in A => k \in A
  PROVE  \A k \in 0 .. n : k \in A
<1> DEFINE S == {k \in 0 .. n : k \notin A}
<1> SUFFICES ASSUME S # {} PROVE FALSE
  OBVIOUS
<1> DEFINE R == OpToRel(<, Nat)
<1>1. IsWellFoundedOn(R, Nat)
  BY NatLessThanWellFounded
<1>2. PICK x \in S : \A y \in S : <<y, x>> \notin R
  <2>1. S \subseteq Nat
    OBVIOUS
  <2> HIDE DEF R, S
  <2> QED BY <1>1, <2>1, WFMin
<1>3. x # 0 /\ x \in 1 .. n /\ x - 1 \in 0 .. n
  OBVIOUS
<1>4. x - 1 \in S
  BY <1>3
<1>5. <<x - 1, x>> \in R
  <2>1. x - 1 \in Nat /\ x \in Nat /\ x - 1 < x
    BY <1>3
  <2> QED BY <2>1, Zenon DEF OpToRel
<1> QED BY <1>2, <1>4, <1>5

\* A function defined step by step from a, step k leading from S[k - 1] to S[k].
Steps(n, S, g) == \A k \in 1 .. n : \A x \in S[k - 1] : g[k][x] \in S[k]
Stepped(n, S, a, g) ==
  \E f : /\ f = [k \in 0 .. n |-> IF k = 0 THEN a ELSE g[k][f[k - 1]]]
         /\ \A k \in 0 .. n : f[k] \in S[k]

\* A function so defined exists, and its values lie in the sets S.
LEMMA Recursion ==
  ASSUME NEW n \in Nat, NEW S, NEW a \in S[0], NEW g, Steps(n, S, g)
  PROVE  Stepped(n, S, a, g)
<1> USE DEF Steps, Stepped
<1> DEFINE Upto(m) == \E f : /\ f = [k \in 0 .. m |-> IF k = 0 THEN a ELSE g[k][f[k - 1]]]
                             /\ \A k \in 0 .. m : f[k] \in S[k]
           A == {m \in 0 .. n : Upto(m)}
<1>1. Upto(0)
  <2> DEFINE f == [k \in 0 .. 0 |-> a]
  <2>1. f = [k \in 0 .. 0 |-> IF k = 0 THEN a ELSE g[k][f[k - 1]]]
    OBVIOUS
  <2>2. \A k \in 0 .. 0 : f[k] \in S[k]
    OBVIOUS
  <2> QED BY <2>1, <2>2
<1>2. ASSUME NEW m \in 1 .. n, Upto(m - 1) PROVE Upto(m)
  <2>1. PICK f : /\ f = [k \in 0 .. m - 1 |-> IF k = 0 THEN a ELSE g[k][f[k - 1]]]
                 /\ \A k \in 0 .. m - 1 : f[k] \in S[k]
    BY <1>2
  <2> DEFINE h == [k \in 0 .. m |-> IF k = m THEN g[m][f[m - 1]] ELSE f[k]]
  <2>2. \A k \in 0 .. m : h[k] = IF k = 0 THEN a ELSE g[k][h[k - 1]]
    <3> SUFFICES ASSUME NEW k \in 0 .. m PROVE h[k] = IF k = 0 THEN a ELSE g[k][h[k - 1]]
      OBVIOUS
    <3>1. CASE k = 0
      <4>1. f[0] = a
        BY <2>1
      <4> QED BY <3>1, <4>1
    <3>2. CASE k \in 1 .. m - 1
      <4>1. f[k] = g[k][f[k - 1]]
        BY <2>1, <3>2
      <4> QED BY <3>2, <4>1
    <3>3. CASE k = m
      BY <3>3
    <3> QED BY <3>1, <3>2, <3>3
  <2>3. h = [k \in 0 .. m |-> IF k = 0 THEN a ELSE g[k][h[k - 1]]]
    <3> HIDE DEF h
    <3>1. h = [k \in 0 .. m |-> h[k]]
      BY DEF h
    <3> QED BY <2>2, <3>1
  <2>4. \A k \in 0 .. m : h[k] \in S[k]
    <3>1. f[m - 1] \in S[m - 1]
      BY <2>1
    <3>2. g[m][f[m - 1]] \in S[m]
      BY <3>1
    <3> QED BY <2>1, <3>2
  <2> HIDE DEF h
  <2> QED BY <2>3, <2>4
<1> HIDE DEF Upto
<1>3. \A k \in 0 .. n : k \in A
  <2>1. 0 \in A
    BY <1>1
  <2>2. \A k \in 1 .. n : k - 1 \in A => k \in A
    BY <1>2
  <2> HIDE DEF A
  <2> QED BY <2>1, <2>2, UpTo
<1>4. Upto(n)
  BY <1>3
<1> QED BY <1>4 DEF Upto

-----------------------------------------------------------------------------
(* The volume *)

FatBlocks == FatStart .. FatStart + BlocksPerFat - 1
Mirrors == IF FatCount = 2 THEN FatStart + BlocksPerFat .. FatStart + 2 * BlocksPerFat - 1 ELSE {}
DataBlocks == DataStart .. DataStart + ClusterCount * BlocksPerCluster - 1
SlotNumbers == 0 .. Slots - 1
Numbers == Blocks \cup BehindVolume \cup {None}

DirEntry == [name : Names \cup {"free", "deleted"}, first : Nat, size : Nat]
Block == [SlotNumbers -> Int \cup DirEntry]
Handle == [open : {TRUE}, flags : SUBSET Flags, name : Names, dirty : BOOLEAN,
           cur : Nat, pos : Nat, first : Nat, size : Nat, slot : SlotNumbers]

State == [card : [Blocks -> Block], buf : Block, num : Numbers, dirty : BOOLEAN, mirror : Nat,
          start : Nat, ok : BOOLEAN, blown : BOOLEAN, fuse : Int, late : BOOLEAN, val : Nat,
          h : Handle \cup {Closed}, left : Int, got : Seq(Int \cup DirEntry)]

LEMMA Products == ASSUME NEW a \in Nat, NEW b \in Nat, NEW m \in Nat, a < b
                  PROVE  a * m + m <= b * m /\ a * m \in Nat /\ b * m \in Nat
<1>1. PICK d \in Nat : b = a + 1 + d
  <2>1. b - a - 1 \in Nat /\ b = a + 1 + (b - a - 1)
    OBVIOUS
  <2> QED BY <2>1
<1>2. b * m = a * m + m + d * m
  BY <1>1
<1>3. d * m \in Nat /\ a * m \in Nat
  OBVIOUS
<1> QED BY <1>2, <1>3

\* The entry of a cluster: its block, and its place in the block.
LEMMA EntryPlace ==
  ASSUME NEW c \in 0 .. LastCluster
  PROVE  /\ c \div Slots \in Nat /\ c % Slots \in SlotNumbers
         /\ c = Slots * (c \div Slots) + (c % Slots)
         /\ c \div Slots <= LastCluster \div Slots
<1>1. Slots \in Nat /\ Slots > 0 /\ c \in Nat /\ LastCluster \in Nat /\ c <= LastCluster
  BY VolumeAssumption DEF LastCluster
<1>2. \A x \in Nat : /\ x \div Slots \in Int /\ x % Slots \in 0 .. Slots - 1
                     /\ x = Slots * (x \div Slots) + (x % Slots)
  BY <1>1, Z3
<1>3. \A x \in Nat : x \div Slots >= 0
  BY <1>1, Z3
<1>4. c \div Slots <= LastCluster \div Slots
  BY <1>1, Z3
<1> QED BY <1>1, <1>2, <1>3, <1>4 DEF SlotNumbers

\* The parts of the volume: boot block, tables, root directory, data.
LEMMA Layout ==
  /\ BlocksPerFat \in Nat /\ BlocksPerFat > 0 /\ RootDirStart \in Nat
  /\ RootDirStart = 1 + FatCount * BlocksPerFat /\ DataStart = RootDirStart + 1
  /\ ClusterCount * BlocksPerCluster \in Nat /\ ClusterCount * BlocksPerCluster > 0
  /\ Blocks = {0} \cup FatBlocks \cup Mirrors \cup {RootDirStart} \cup DataBlocks
  /\ Blocks \subseteq Nat
  /\ 0 \notin FatBlocks \cup Mirrors \cup {RootDirStart} \cup DataBlocks
  /\ RootDirStart \notin FatBlocks \cup Mirrors \cup DataBlocks
  /\ FatBlocks \cap (Mirrors \cup DataBlocks) = {} /\ Mirrors \cap DataBlocks = {}
  /\ \A c \in 0 .. LastCluster : FatBlock(c) \in FatBlocks
  /\ FatCount = 2 => \A b \in FatBlocks : b + BlocksPerFat \in Mirrors
<1>1. BlocksPerFat \in Nat /\ BlocksPerFat > 0
  <2>1. LastCluster \in 0 .. LastCluster
    BY VolumeAssumption DEF LastCluster
  <2> QED BY <2>1, EntryPlace DEF BlocksPerFat
<1>2. ClusterCount * BlocksPerCluster \in Nat /\ ClusterCount * BlocksPerCluster > 0
  <2>1. 0 * BlocksPerCluster + BlocksPerCluster <= ClusterCount * BlocksPerCluster
    BY Products, VolumeAssumption
  <2> QED BY <2>1, VolumeAssumption
<1> DEFINE n == ClusterCount * BlocksPerCluster
<1>3. n \in Nat /\ n > 0
  BY <1>2
<1>4. Blocks = 0 .. DataStart + n - 1 /\ DataBlocks = DataStart .. DataStart + n - 1
  BY DEF Blocks, DataBlocks
<1>5. \A c \in 0 .. LastCluster : FatBlock(c) \in FatBlocks
  <2> SUFFICES ASSUME NEW c \in 0 .. LastCluster PROVE FatBlock(c) \in FatBlocks
    OBVIOUS
  <2>1. PICK q \in Nat, m \in Nat : q = c \div Slots /\ m = LastCluster \div Slots /\ q <= m
    <3>1. 0 \in Nat /\ LastCluster \in 0 .. LastCluster
      BY VolumeAssumption DEF LastCluster
    <3> QED BY <3>1, EntryPlace
  <2>2. BlocksPerFat = m + 1 /\ FatBlock(c) = 1 + q
    BY <2>1 DEF BlocksPerFat, FatBlock, FatStart
  <2> QED BY <2>1, <2>2 DEF FatBlocks, FatStart
<1> HIDE DEF n
<1>6. CASE FatCount = 1
  <2>1. RootDirStart = 1 + BlocksPerFat /\ DataStart = 2 + BlocksPerFat /\ Mirrors = {}
    BY <1>1, <1>6 DEF RootDirStart, DataStart, Mirrors, FatStart
  <2> QED BY <1>1, <1>2, <1>3, <1>4, <1>5, <1>6, <2>1 DEF FatBlocks, FatStart
<1>7. CASE FatCount = 2
  <2>1. RootDirStart = 1 + 2 * BlocksPerFat /\ DataStart = 2 + 2 * BlocksPerFat
    BY <1>1, <1>7 DEF RootDirStart, DataStart, FatStart
  <2>2. Mirrors = 1 + BlocksPerFat .. 2 * BlocksPerFat /\ FatBlocks = 1 .. BlocksPerFat
    BY <1>1, <1>7 DEF Mirrors, FatBlocks, FatStart
  <2> QED BY <1>1, <1>2, <1>3, <1>4, <1>5, <1>7, <2>1, <2>2
<1> QED BY <1>6, <1>7, VolumeAssumption

\* Two clusters have their entries in two places.
LEMMA Places ==
  ASSUME NEW c \in 0 .. LastCluster, NEW d \in 0 .. LastCluster,
         FatBlock(c) = FatBlock(d), c % Slots = d % Slots
  PROVE  c = d
<1>1. c \div Slots = d \div Slots
  BY EntryPlace DEF FatBlock, FatStart
<1> QED BY <1>1, EntryPlace

\* The blocks of a cluster are data blocks; those of EOC are behind the volume.
LEMMA ClusterBlocks ==
  ASSUME NEW k \in 0 .. BlocksPerCluster - 1
  PROVE  /\ \A c \in Clusters : ClusterStartBlock(c) + k \in DataBlocks
         /\ ClusterStartBlock(EOC) + k \in BehindVolume
<1>1. BlocksPerCluster \in Nat /\ ClusterCount \in Nat /\ DataStart \in Nat
  BY VolumeAssumption, Layout
<1>2. ASSUME NEW c \in Clusters PROVE ClusterStartBlock(c) + k \in DataBlocks
  <2>1. c - 2 \in Nat /\ c - 2 < ClusterCount
    BY <1>1 DEF Clusters, LastCluster
  <2>2. PICK m \in Nat : m = c - 2
    BY <2>1
  <2>3. m * BlocksPerCluster + BlocksPerCluster <= ClusterCount * BlocksPerCluster /\ m * BlocksPerCluster \in Nat
    BY <1>1, <2>1, <2>2, Products
  <2>4. ClusterStartBlock(c) = DataStart + m * BlocksPerCluster
    BY <2>2 DEF ClusterStartBlock
  <2> QED BY <1>1, <2>3, <2>4, Layout DEF DataBlocks
<1>3. ClusterStartBlock(EOC) + k \in BehindVolume
  <2>1. ClusterStartBlock(EOC) = DataStart + ClusterCount * BlocksPerCluster
    BY <1>1 DEF ClusterStartBlock, EOC, LastCluster
  <2>2. ClusterStartBlock(EOC + 1) = DataStart + (ClusterCount + 1) * BlocksPerCluster
    BY <1>1 DEF ClusterStartBlock, EOC, LastCluster
  <2>3. (ClusterCount + 1) * BlocksPerCluster = ClusterCount * BlocksPerCluster + BlocksPerCluster
    BY <1>1
  <2> QED BY <1>1, <2>1, <2>2, <2>3, Layout DEF BehindVolume
<1> QED BY <1>2, <1>3

-----------------------------------------------------------------------------
(* The cache of one block: what is on the card and what is seen through it *)

\* What the calls see but the mirror, which nothing reads.
Main(blocks) == [b \in Blocks \ Mirrors |-> blocks[b]]

\* The first table holds clusters, 0 and EOC, the root directory entries of files.
Typed(blocks) ==
  /\ \A b \in FatBlocks : \A i \in SlotNumbers : blocks[b][i] \in 0 .. EOC
  /\ \A i \in SlotNumbers : blocks[RootDirStart][i] \in DirEntry

\* The block in memory, and how it stands to the card.
Coherent(s) ==
  /\ s.num \in Numbers \ Mirrors
  /\ ~s.dirty => s.mirror = 0 /\ (s.num \in Blocks => s.buf = s.card[s.num])
  /\ s.mirror # 0 => FatCount = 2 /\ s.num \in FatBlocks /\ s.mirror = s.num + BlocksPerFat
  /\ FatCount = 2 /\ s.dirty /\ s.num \in FatBlocks => s.mirror # 0
  /\ Typed(s.card) /\ Typed(View(s))

Sound(s) == s \in State /\ Coherent(s)

\* The tables differ at most where the block in memory waits to be written.
Twin(s) == FatCount = 2 => \A b \in FatBlocks : \/ s.card[b] = s.card[b + BlocksPerFat]
                                                \/ s.dirty /\ s.num = b

\* The cache cannot be written back: no call through it comes to another block.
Stuck(s) == s.dirty /\ s.num \notin Blocks \ {0}

\* A call that failed has failed, and a cache that can be written back stays so.
GoesOn(s, r) == (r.ok => s.ok) /\ (s.blown => r.blown) /\ (~Stuck(s) => ~Stuck(r))

\* Unless the cache is stuck only the card can fail.
Certain(s, r) == s.ok /\ ~Stuck(s) => r.ok \/ r.blown

\* The step from s to r leads to the contents m; before the last block changed the
\* rest of them was on the card.
Leads(s, r, m) ==
  /\ Sound(r) /\ (Twin(s) => Twin(r)) /\ GoesOn(s, r)
  /\ Main(View(r)) = m
  /\ Main(r.card) \in {Main(s.card), Main(View(s))}
  /\ r.h = s.h /\ r.left = s.left /\ r.got = s.got /\ r.start = s.start

\* Nothing but the place of the blocks changes, and the result.
Keeps(s, r) == Leads(s, r, Main(View(s)))

\* To keep what is seen is reflexive ...
LEMMA KeepsSame == ASSUME NEW s, Sound(s) PROVE Keeps(s, s)
BY DEF Keeps, Leads, GoesOn

\* ... and transitive.
LEMMA KeepsTwice == ASSUME NEW s, NEW r, NEW q, Keeps(s, r), Keeps(r, q) PROVE Keeps(s, q)
BY DEF Keeps, Leads, GoesOn

\* What an access to the card leaves alone: the cache, and the call.
Apart(s, r) ==
  /\ r.buf = s.buf /\ r.num = s.num /\ r.dirty = s.dirty /\ r.mirror = s.mirror
  /\ r.h = s.h /\ r.left = s.left /\ r.got = s.got /\ r.start = s.start /\ r.val = s.val

\* A block is written to the card, or the power fails before.
LEMMA WriteFacts ==
  ASSUME NEW s \in State, NEW b \in Numbers, NEW data \in Block, NEW r, r = WriteBlock(s, b, data)
  PROVE  /\ r \in State
         /\ Apart(s, r)
         /\ r.card = s.card \/ (b \in Blocks \ {0} /\ r.card = [s.card EXCEPT ![b] = data])
         /\ (r.ok => s.ok) /\ (s.blown => r.blown)
         /\ r.ok => b \in Blocks \ {0} /\ r.card = [s.card EXCEPT ![b] = data]
         /\ s.ok /\ b \in Blocks \ {0} => r.ok \/ r.blown
<1> USE DEF WriteBlock, Fail, Blow, Burn, State, Apart
<1>1. CASE ~s.ok
  BY <1>1
<1>2. CASE s.ok /\ b \notin Blocks \ {0}
  BY <1>2
<1>3. CASE s.ok /\ b \in Blocks \ {0} /\ s.fuse = 0
  <2>1. [s.card EXCEPT ![b] = IF s.late /\ ~s.blown THEN data ELSE @]
          \in {s.card, [s.card EXCEPT ![b] = data]}
    BY <1>3
  <2> QED BY <1>3, <2>1
<1>4. CASE s.ok /\ b \in Blocks \ {0} /\ s.fuse # 0
  <2>1. [s.card EXCEPT ![b] = data] \in [Blocks -> Block]
    BY <1>4
  <2>2. CASE s.fuse = Never
    <3>1. r = [s EXCEPT !.card = [s.card EXCEPT ![b] = data]]
      BY <1>4, <2>2
    <3> QED BY <1>4, <2>1, <3>1
  <2>3. CASE s.fuse # Never
    <3>1. r = [s EXCEPT !.fuse = s.fuse - 1, !.card = [s.card EXCEPT ![b] = data]] /\ s.fuse - 1 \in Int
      BY <1>4, <2>3
    <3> QED BY <1>4, <2>1, <3>1
  <2> QED BY <2>2, <2>3
<1> QED BY <1>1, <1>2, <1>3, <1>4

\* A block is read from the card.
LEMMA ReadFacts ==
  ASSUME NEW s \in State, NEW b \in Numbers, NEW r, r = ReadBlock(s, b)
  PROVE  /\ r \in State
         /\ r.card = s.card /\ Apart(s, r)
         /\ (r.ok => s.ok /\ b \in Blocks) /\ (s.blown => r.blown)
         /\ s.ok /\ b \in Blocks => r.ok \/ r.blown
<1> USE DEF ReadBlock, Fail, Blow, Burn, State, Apart
<1>1. CASE ~s.ok
  BY <1>1
<1>2. CASE s.ok /\ b \notin Blocks
  BY <1>2
<1>3. CASE s.ok /\ b \in Blocks /\ s.fuse = 0
  BY <1>3
<1>4. CASE s.ok /\ b \in Blocks /\ s.fuse # 0 /\ s.fuse = Never
  BY <1>4
<1>5. CASE s.ok /\ b \in Blocks /\ s.fuse # 0 /\ s.fuse # Never
  <2>1. r = [s EXCEPT !.fuse = s.fuse - 1] /\ s.fuse - 1 \in Int
    BY <1>5
  <2> QED BY <1>5, <2>1
<1> QED BY <1>1, <1>2, <1>3, <1>4, <1>5

LEMMA WriteApart ==
  ASSUME NEW s \in State, NEW b \in Numbers, NEW data \in Block
  PROVE  WriteBlock(s, b, data) \in State /\ Apart(s, WriteBlock(s, b, data))
BY WriteFacts

\* The card after some of it was overwritten with what was in memory anyway.
LEMMA MainFacts ==
  ASSUME NEW s, Sound(s)
  PROVE  /\ s.num \in Blocks => View(s) = [s.card EXCEPT ![s.num] = s.buf]
         /\ s.num \notin Blocks => View(s) = s.card
         /\ View(s) \in [Blocks -> Block]
         /\ ~s.dirty => View(s) = s.card
BY DEF Sound, Coherent, View, State

LEMMA MainOver ==
  ASSUME NEW card \in [Blocks -> Block], NEW b \in Mirrors, NEW data
  PROVE  Main([card EXCEPT ![b] = data]) = Main(card)
BY DEF Main

\* cacheFlush() changes nothing that the calls see.
LEMMA FlushKeeps ==
  ASSUME NEW s, Sound(s), NEW r, r = CacheFlush(s)
  PROVE  /\ Keeps(s, r) /\ Certain(s, r) /\ r.val = s.val /\ r.num = s.num /\ r.buf = s.buf
         /\ s.ok \/ r = s
         /\ r.ok => ~r.dirty /\ Main(r.card) = Main(View(s))
<1> USE DEF Sound
<1>1. CASE ~s.dirty
  BY <1>1, KeepsSame, MainFacts DEF CacheFlush, Coherent, Certain
<1>2. CASE s.dirty /\ ~s.ok
  <2>1. WriteBlock(s, s.num, s.buf) = s
    BY <1>2 DEF WriteBlock
  <2>2. WriteMirror(s) = s
    BY <1>2 DEF WriteMirror, WriteBlock
  <2>3. r = s
    BY <1>2, <2>1, <2>2 DEF CacheFlush, Then
  <2> QED BY <1>2, <2>3, KeepsSame DEF Certain
<1>3. CASE s.dirty /\ s.ok /\ s.num \notin Blocks \ {0}
  <2> DEFINE w == WriteBlock(s, s.num, s.buf)
  <2>1. w = [s EXCEPT !.ok = FALSE]
    BY <1>3 DEF WriteBlock, Fail
  <2>2. WriteMirror(w) = w
    BY <2>1 DEF WriteMirror, WriteBlock, State
  <2>3. r = [s EXCEPT !.ok = FALSE]
    BY <1>3, <2>1, <2>2 DEF CacheFlush, Then, State
  <2>4. r \in State /\ r.card = s.card /\ r.buf = s.buf /\ r.num = s.num /\ r.dirty = s.dirty
        /\ r.mirror = s.mirror /\ ~r.ok /\ r.blown = s.blown
        /\ r.h = s.h /\ r.left = s.left /\ r.got = s.got /\ r.start = s.start /\ r.val = s.val
    BY <2>3 DEF State
  <2>5. View(r) = View(s)
    BY <2>4 DEF View
  <2> QED BY <1>3, <2>4, <2>5 DEF Keeps, Leads, GoesOn, Certain, Coherent, Twin, Stuck
<1>4. CASE s.dirty /\ s.ok /\ s.num \in Blocks \ {0}
  <2> DEFINE w == WriteBlock(s, s.num, s.buf)
             m == WriteMirror(w)
  <2>0. s.num \in Numbers /\ s.buf \in Block /\ s.num \in Blocks /\ s.num \notin Mirrors
    BY <1>4 DEF State, Coherent
  <2>1. /\ w \in State
        /\ w.buf = s.buf /\ w.num = s.num /\ w.dirty = s.dirty /\ w.mirror = s.mirror
        /\ w.h = s.h /\ w.left = s.left /\ w.got = s.got /\ w.start = s.start /\ w.val = s.val
        /\ w.card = s.card \/ w.card = [s.card EXCEPT ![s.num] = s.buf]
        /\ (w.ok => w.card = [s.card EXCEPT ![s.num] = s.buf])
        /\ w.ok \/ w.blown
        /\ (s.blown => w.blown)
    <3>1. w = WriteBlock(s, s.num, s.buf)
      OBVIOUS
    <3>2. s \in State /\ s.num \in Numbers /\ s.buf \in Block
      BY <2>0
    <3> HIDE DEF w
    <3>3. w \in State /\ Apart(s, w)
      BY <3>1, <3>2, WriteApart
    <3>4. /\ w.card = s.card \/ (s.num \in Blocks \ {0} /\ w.card = [s.card EXCEPT ![s.num] = s.buf])
          /\ (s.blown => w.blown)
          /\ w.ok => s.num \in Blocks \ {0} /\ w.card = [s.card EXCEPT ![s.num] = s.buf]
          /\ s.ok /\ s.num \in Blocks \ {0} => w.ok \/ w.blown
      BY <3>1, <3>2, WriteFacts
    <3> QED BY <1>4, <3>3, <3>4 DEF Apart
  <2> HIDE DEF w
  <2>2. View(s) = [s.card EXCEPT ![s.num] = s.buf]
    BY <2>0, MainFacts
  <2>3. /\ m \in State
        /\ m.buf = s.buf /\ m.num = s.num /\ m.dirty = s.dirty /\ m.mirror = s.mirror
        /\ m.h = s.h /\ m.left = s.left /\ m.got = s.got /\ m.start = s.start /\ m.val = s.val
        /\ \/ m.card = w.card
           \/ w.ok /\ s.mirror # 0 /\ m.card = [w.card EXCEPT ![s.mirror] = s.buf]
        /\ m.ok /\ s.mirror # 0 => m.card = [w.card EXCEPT ![s.mirror] = s.buf]
        /\ m.ok => w.ok
        /\ m.ok \/ m.blown
        /\ (s.blown => m.blown)
    <3>1. CASE s.mirror = 0
      BY <3>1, <2>1 DEF WriteMirror
    <3>2. CASE s.mirror # 0 /\ ~w.ok
      BY <3>2, <2>1 DEF WriteMirror, WriteBlock
    <3>3. CASE s.mirror # 0 /\ w.ok
      <4>1. s.mirror \in Blocks \ {0} /\ s.mirror \in Numbers
        BY <3>3, Layout DEF Coherent, Numbers
      <4>2. m = WriteBlock(w, s.mirror, s.buf)
        BY <3>3, <2>1 DEF WriteMirror
      <4> HIDE DEF m
      <4>3. m \in State /\ Apart(w, m)
        BY <2>0, <2>1, <4>1, <4>2, WriteApart
      <4> QED BY <2>0, <2>1, <3>3, <4>1, <4>2, <4>3, WriteFacts DEF Apart
    <3> QED BY <3>1, <3>2, <3>3
  <2>4. Main(m.card) \in {Main(s.card), Main(View(s))} /\ (m.ok => Main(m.card) = Main(View(s)))
    <3>1. s.mirror # 0 => s.mirror \in Mirrors
      BY Layout DEF Coherent
    <3>2. m.card = w.card \/ (s.mirror # 0 /\ m.card = [w.card EXCEPT ![s.mirror] = s.buf])
      BY <2>3
    <3>3. w.card \in [Blocks -> Block]
      BY <2>1 DEF State
    <3>4. Main(m.card) = Main(w.card)
      BY <3>1, <3>2, <3>3, MainOver
    <3> QED BY <2>1, <2>2, <2>3, <3>4
  <2>5. [m.card EXCEPT ![s.num] = s.buf] \in [Blocks -> Block]
        /\ Main([m.card EXCEPT ![s.num] = s.buf]) = Main(View(s))
    <3>1. m.card \in [Blocks -> Block] /\ s.card \in [Blocks -> Block]
      BY <2>3 DEF State
    <3>2. \A b \in Blocks \ Mirrors : m.card[b] = s.card[b] \/ m.card[b] = View(s)[b]
      <4>1. \A b \in Blocks \ Mirrors : Main(m.card)[b] = m.card[b] /\ Main(s.card)[b] = s.card[b]
                                        /\ Main(View(s))[b] = View(s)[b]
        BY DEF Main
      <4> QED BY <4>1, <2>4
    <3>3. \A b \in Blocks \ Mirrors : b # s.num => m.card[b] = s.card[b] /\ View(s)[b] = s.card[b]
      BY <2>2, <3>1, <3>2
    <3> QED BY <2>0, <2>2, <3>1, <3>3 DEF Main
  <2>6. Typed(m.card)
    <3>1. \A b \in FatBlocks \cup {RootDirStart} : m.card[b] = s.card[b] \/ m.card[b] = View(s)[b]
      <4>1. \A b \in FatBlocks \cup {RootDirStart} : b \in Blocks \ Mirrors
        BY Layout
      <4>2. \A b \in Blocks \ Mirrors : Main(m.card)[b] = m.card[b] /\ Main(s.card)[b] = s.card[b]
                                        /\ Main(View(s))[b] = View(s)[b]
        BY DEF Main
      <4> QED BY <4>1, <4>2, <2>4
    <3> QED BY <3>1 DEF Typed, Coherent
  <2>7. CASE ~m.ok
    <3>1. r = m
      BY <1>4, <2>7 DEF CacheFlush, Then, w
    <3>2. View(m) = [m.card EXCEPT ![s.num] = s.buf]
      BY <2>0, <2>3 DEF View
    <3>3. Typed(View(m))
      <4>1. \A b \in FatBlocks \cup {RootDirStart} : Main(View(m))[b] = View(m)[b] /\ Main(View(s))[b] = View(s)[b]
        BY Layout DEF Main
      <4>2. \A b \in FatBlocks \cup {RootDirStart} : View(m)[b] = View(s)[b]
        BY <3>2, <2>5, <4>1
      <4> QED BY <4>2 DEF Typed, Coherent
    <3>4. Coherent(m)
      BY <1>4, <2>3, <2>6, <3>3 DEF Coherent
    <3>5. Twin(s) => Twin(m)
      <4> SUFFICES ASSUME Twin(s), FatCount = 2, NEW b \in FatBlocks, s.num # b
                   PROVE  m.card[b] = m.card[b + BlocksPerFat]
        BY <1>4, <2>3 DEF Twin
      <4>1. b \in Blocks /\ b + BlocksPerFat \in Mirrors /\ b + BlocksPerFat \in Blocks /\ b \notin Mirrors
        BY Layout
      <4>2. s.card[b] = s.card[b + BlocksPerFat]
        BY DEF Twin
      <4>3. s.mirror # 0 => s.mirror # b + BlocksPerFat /\ s.mirror # b /\ s.mirror \in Mirrors
        BY <4>1, Layout DEF Coherent, FatBlocks
      <4>4. s.num # b + BlocksPerFat
        BY <2>0, <4>1
      <4>5. w.card[b] = s.card[b] /\ w.card[b + BlocksPerFat] = s.card[b + BlocksPerFat]
        BY <2>1, <4>1, <4>4 DEF State
      <4>6. m.card[b] = w.card[b] /\ m.card[b + BlocksPerFat] = w.card[b + BlocksPerFat]
        BY <2>3, <2>1, <4>1, <4>3 DEF State
      <4> QED BY <4>2, <4>5, <4>6
    <3>6. GoesOn(s, m)
      BY <1>4, <2>3, <2>7 DEF GoesOn, Stuck
    <3> HIDE DEF m
    <3> QED BY <1>4, <2>3, <2>4, <2>5, <2>7, <3>1, <3>2, <3>4, <3>5, <3>6 DEF Keeps, Leads, Certain
  <2>8. CASE m.ok
    <3>1. r = [m EXCEPT !.mirror = 0, !.dirty = FALSE]
      BY <1>4, <2>8 DEF CacheFlush, Then, w
    <3> HIDE DEF m
    <3>2. /\ r \in State
          /\ r.buf = s.buf /\ r.num = s.num /\ r.dirty = FALSE /\ r.mirror = 0 /\ r.card = m.card
          /\ r.h = s.h /\ r.left = s.left /\ r.got = s.got /\ r.start = s.start /\ r.val = s.val
          /\ r.ok /\ (s.blown => r.blown)
      <4>0. m \in State
        BY <2>3
      <4>1. r \in State
        <5> DEFINE x == [m EXCEPT !.mirror = 0]
        <5>1. x \in State
          BY <4>0 DEF State
        <5>2. [x EXCEPT !.dirty = FALSE] \in State
          <6> HIDE DEF x
          <6> QED BY <5>1 DEF State
        <5>3. r = [x EXCEPT !.dirty = FALSE]
          BY <4>0, <3>1 DEF State
        <5> QED BY <5>2, <5>3
      <4>2. r.dirty = FALSE /\ r.mirror = 0
        BY <2>3, <3>1 DEF State
      <4>3. /\ r.buf = m.buf /\ r.num = m.num /\ r.card = m.card /\ r.ok = m.ok /\ r.blown = m.blown
            /\ r.h = m.h /\ r.left = m.left /\ r.got = m.got /\ r.start = m.start /\ r.val = m.val
        BY <2>3, <3>1 DEF State
      <4> QED BY <2>3, <2>8, <4>1, <4>2, <4>3
    <3>3. r.card[s.num] = s.buf
      <4>1. w.card = [s.card EXCEPT ![s.num] = s.buf]
        BY <2>1, <2>3, <2>8
      <4>2. w.card[s.num] = s.buf
        BY <4>1, <2>0 DEF State
      <4>3. s.mirror # 0 => s.mirror # s.num
        BY Layout, <2>0 DEF Coherent
      <4> QED BY <2>0, <2>1, <2>3, <3>2, <4>2, <4>3 DEF State
    <3>4. View(r) = r.card
      BY <2>0, <3>2, <3>3 DEF View, State
    <3>5. Typed(View(r))
      BY <2>6, <3>2, <3>4
    <3>6. Coherent(r)
      BY <2>0, <2>6, <3>2, <3>3, <3>5 DEF Coherent
    <3>7. Twin(s) => Twin(r)
      <4> SUFFICES ASSUME Twin(s), FatCount = 2, NEW b \in FatBlocks
                   PROVE  m.card[b] = m.card[b + BlocksPerFat]
        BY <3>2 DEF Twin
      <4>1. b \in Blocks /\ b + BlocksPerFat \in Mirrors /\ b + BlocksPerFat \in Blocks /\ b \notin Mirrors
        BY Layout
      <4>2. s.num # b + BlocksPerFat
        BY <2>0, <4>1
      <4>3. w.card = [s.card EXCEPT ![s.num] = s.buf] /\ w.card \in [Blocks -> Block]
        BY <2>1, <2>3, <2>8 DEF State
      <4>4. CASE s.num # b
        <5>1. s.card[b] = s.card[b + BlocksPerFat]
          BY <4>4 DEF Twin
        <5>2. s.mirror # 0 => s.mirror # b + BlocksPerFat /\ s.mirror # b /\ s.mirror \in Mirrors
          BY <4>1, <4>4, Layout DEF Coherent, FatBlocks
        <5>3. w.card[b] = s.card[b] /\ w.card[b + BlocksPerFat] = s.card[b + BlocksPerFat]
          BY <4>3, <4>1, <4>2, <4>4 DEF State
        <5>4. m.card[b] = w.card[b] /\ m.card[b + BlocksPerFat] = w.card[b + BlocksPerFat]
          BY <2>3, <4>3, <4>1, <5>2 DEF State
        <5> QED BY <5>1, <5>3, <5>4
      <4>5. CASE s.num = b
        <5>1. s.mirror = b + BlocksPerFat /\ s.mirror # 0
          BY <1>4, <4>5 DEF Coherent
        <5>2. m.card = [w.card EXCEPT ![b + BlocksPerFat] = s.buf]
          BY <2>3, <2>8, <5>1
        <5>3. b # b + BlocksPerFat
          BY <4>1
        <5> QED BY <3>2, <3>3, <4>1, <4>3, <4>5, <5>2, <5>3
      <4> QED BY <4>4, <4>5
    <3>8. GoesOn(s, r)
      BY <1>4, <3>2 DEF GoesOn, Stuck
    <3> QED BY <1>4, <2>4, <2>8, <3>2, <3>4, <3>6, <3>7, <3>8 DEF Keeps, Leads, Certain
  <2> QED BY <2>7, <2>8
<1> QED BY <1>1, <1>2, <1>3, <1>4

-----------------------------------------------------------------------------
(* The allocation table and the directory, as the calls see them *)

\* What the calls see: the allocation table and the root directory.
Seen(s) == Main(View(s))
Table(m) == [c \in 0 .. LastCluster |-> m[FatBlock(c)][c % Slots]]
Root(m) == m[RootDirStart]

\* cacheRawBlock() changes nothing that the calls see, and shows the block.
LEMMA RawKeeps ==
  ASSUME NEW s, Sound(s), NEW b \in Blocks \ ({0} \cup Mirrors), NEW forWrite \in BOOLEAN,
         forWrite => b \notin FatBlocks, NEW r, r = CacheRawBlock(s, b, forWrite)
  PROVE  /\ Keeps(s, r) /\ Certain(s, r) /\ r.val = s.val
         /\ r.ok => r.num = b /\ r.buf = Seen(s)[b] /\ (forWrite => r.dirty)
         /\ s.ok \/ r = s
<1> USE DEF Sound
<1>0. Seen(s)[b] = View(s)[b]
  BY DEF Main, Seen
<1>1. CASE s.num = b
  <2> DEFINE d == s.dirty \/ (s.ok /\ forWrite)
  <2>1. r = [s EXCEPT !.dirty = d]
    BY <1>1 DEF CacheRawBlock
  <2>2. d \in BOOLEAN
    OBVIOUS
  <2> HIDE DEF d
  <2>3. /\ r \in State /\ r.card = s.card /\ r.buf = s.buf /\ r.num = s.num /\ r.dirty = d
        /\ r.mirror = s.mirror /\ r.ok = s.ok /\ r.blown = s.blown
        /\ r.h = s.h /\ r.left = s.left /\ r.got = s.got /\ r.start = s.start /\ r.val = s.val
    BY <2>1, <2>2 DEF State
  <2>4. View(r) = View(s) /\ View(s)[b] = s.buf
    BY <1>1, <2>3, MainFacts DEF View, State
  <2>5. Coherent(r) /\ (Twin(s) => Twin(r))
    <3>1. (s.dirty => d) /\ (d /\ ~s.dirty => b \notin FatBlocks /\ s.ok /\ forWrite)
      BY DEF d
    <3>2. Typed(View(r)) /\ Typed(r.card)
      BY <2>3, <2>4 DEF Coherent
    <3> QED BY <1>1, <2>3, <3>1, <3>2 DEF Coherent, Twin
  <2>6. s.ok /\ forWrite => d
    BY DEF d
  <2>7. ~s.ok => r = s
    BY <1>1 DEF CacheRawBlock, State
  <2> QED BY <1>0, <1>1, <2>3, <2>4, <2>5, <2>6, <2>7 DEF Keeps, Leads, GoesOn, Certain, Stuck
<1>2. CASE s.num # b /\ ~CacheFlush(s).ok
  <2>1. ReadBlock(CacheFlush(s), b) = CacheFlush(s)
    BY <1>2 DEF ReadBlock
  <2>2. r = CacheFlush(s)
    BY <1>2, <2>1 DEF CacheRawBlock, Then
  <2> QED BY <1>2, <2>2, FlushKeeps
<1>3. CASE s.num # b /\ CacheFlush(s).ok
  <2> DEFINE g == CacheFlush(s)
             q == ReadBlock(g, b)
  <2>1. Keeps(s, g) /\ Certain(s, g) /\ g.val = s.val /\ g.num = s.num /\ g.ok /\ ~g.dirty
        /\ Main(g.card) = Seen(s)
    BY <1>3, FlushKeeps DEF Seen
  <2> HIDE DEF g
  <2>2. g \in State /\ Coherent(g) /\ b \in Numbers /\ b \in Blocks /\ View(g) = g.card
    BY <2>1, MainFacts DEF Keeps, Leads, Numbers
  <2>3. q \in State /\ q.card = g.card /\ Apart(g, q)
    BY <2>2, ReadFacts
  <2>4. (g.blown => q.blown) /\ (q.ok \/ q.blown)
    BY <2>1, <2>2, ReadFacts
  <2> HIDE DEF q
  <2>5. View(q) = View(g)
    BY <2>3 DEF View, Apart
  <2>6. Coherent(q) /\ (Twin(g) => Twin(q))
    BY <2>2, <2>3, <2>5 DEF Coherent, Twin, Apart
  <2>7. Keeps(g, q) /\ q.val = g.val
    BY <2>1, <2>2, <2>3, <2>4, <2>5, <2>6 DEF Keeps, Leads, GoesOn, Stuck, Apart
  <2>8. Keeps(s, q) /\ q.val = s.val
    BY <2>1, <2>7, KeepsTwice
  <2>9. s.ok
    BY <2>1 DEF Keeps, Leads, GoesOn
  <2>10. CASE ~q.ok
    <3>1. r = q
      BY <1>3, <2>10 DEF CacheRawBlock, Then, g, q
    <3> QED BY <2>4, <2>8, <2>9, <2>10, <3>1 DEF Certain
  <2>11. CASE q.ok
    <3>1. r = [q EXCEPT !.buf = q.card[b], !.num = b, !.dirty = q.dirty \/ forWrite]
      BY <1>3, <2>11 DEF CacheRawBlock, Then, g, q
    <3>2. q.card[b] \in Block /\ q.dirty = FALSE /\ q.mirror = 0 /\ q.card[b] = Seen(s)[b]
      <4>1. q.card[b] \in Block
        BY <2>2, <2>3 DEF State
      <4>2. q.dirty = FALSE
        BY <2>1, <2>2, <2>3 DEF Apart, State
      <4>3. q.mirror = 0
        BY <2>6, <4>2 DEF Coherent
      <4>4. Main(g.card)[b] = g.card[b]
        BY DEF Main
      <4> QED BY <2>1, <2>3, <4>1, <4>2, <4>3, <4>4
    <3>3. r \in State
      <4> DEFINE x == [q EXCEPT !.buf = q.card[b]]
                 y == [x EXCEPT !.num = b]
      <4>1. x \in State /\ x.dirty = q.dirty
        BY <2>3, <3>2 DEF State
      <4>2. y \in State
        <5> HIDE DEF x
        <5> QED BY <2>2, <4>1 DEF State
      <4>3. [y EXCEPT !.dirty = forWrite] \in State
        <5> HIDE DEF y
        <5> QED BY <4>2 DEF State
      <4>4. r = [y EXCEPT !.dirty = forWrite]
        BY <2>3, <3>1, <3>2 DEF State
      <4> QED BY <4>3, <4>4
    <3>4. /\ r.card = q.card /\ r.buf = q.card[b] /\ r.num = b /\ r.dirty = forWrite
          /\ r.mirror = 0 /\ r.ok /\ r.blown = q.blown
          /\ r.h = q.h /\ r.left = q.left /\ r.got = q.got /\ r.start = q.start /\ r.val = q.val
      BY <2>3, <2>11, <3>1, <3>2 DEF State
    <3>5. View(r) = q.card /\ View(q) = q.card
      <4>1. View(q) = q.card
        BY <2>2, <2>3, <2>5
      <4>2. q.card \in [Blocks -> Block] /\ b \in Blocks
        BY <2>3 DEF State
      <4>3. [q.card EXCEPT ![b] = q.card[b]] = q.card
        BY <4>2
      <4> QED BY <2>2, <3>4, <4>1, <4>3 DEF View
    <3>6. Coherent(r) /\ (Twin(q) => Twin(r))
      BY <2>2, <2>6, <3>2, <3>4, <3>5 DEF Coherent, Twin
    <3>7. Keeps(q, r)
      BY <2>2, <2>6, <2>11, <3>2, <3>3, <3>4, <3>5, <3>6 DEF Keeps, Leads, GoesOn, Stuck
    <3>8. Keeps(s, r)
      BY <2>8, <3>7, KeepsTwice
    <3> QED BY <2>8, <2>9, <3>2, <3>4, <3>8 DEF Certain
  <2> QED BY <2>10, <2>11
<1> QED BY <1>1, <1>2, <1>3

\* An assignment to the table, with its mirror noted, or to the root directory.
Poked(s, slot, v) ==
  [s EXCEPT !.buf[slot] = v, !.dirty = TRUE,
            !.mirror = IF FatCount = 2 /\ s.num \in FatBlocks THEN s.num + BlocksPerFat ELSE @]
Assigned(m, b, slot, v) == [m EXCEPT ![b] = [@ EXCEPT ![slot] = v]]

\* An assignment in the cache is seen at once.
LEMMA PokeLeads ==
  ASSUME NEW s, Sound(s), s.num \in FatBlocks \/ s.num = RootDirStart, NEW slot \in SlotNumbers,
         NEW v, s.num \in FatBlocks => v \in 0 .. EOC, s.num = RootDirStart => v \in DirEntry,
         NEW r, r = Poked(s, slot, v)
  PROVE  /\ Leads(s, r, Assigned(Seen(s), s.num, slot, v))
         /\ r.card = s.card /\ r.num = s.num /\ r.ok = s.ok /\ r.blown = s.blown /\ r.val = s.val
         /\ ~Stuck(r)
<1> USE DEF Sound, Poked, Assigned
<1> DEFINE m == IF FatCount = 2 /\ s.num \in FatBlocks THEN s.num + BlocksPerFat ELSE s.mirror
           buf == [s.buf EXCEPT ![slot] = v]
<1>1. s.num \in Blocks \ {0} /\ s.num \notin Mirrors /\ s.num \in Nat
  BY Layout
<1>2. m \in Nat
  BY <1>1, Layout DEF State
<1>3. buf \in Block
  <2>1. v \in Int \cup DirEntry
    BY Layout, VolumeAssumption DEF EOC, LastCluster
  <2> QED BY <2>1 DEF State, Block
<1>4. r = [s EXCEPT !.buf = buf, !.dirty = TRUE, !.mirror = m]
  OBVIOUS
<1> HIDE DEF m
<1>5. r \in State
  <2> DEFINE x == [s EXCEPT !.buf = buf]
             y == [x EXCEPT !.dirty = TRUE]
  <2> HIDE DEF buf
  <2>1. x \in State
    BY <1>3 DEF State
  <2>2. y \in State
    <3> HIDE DEF x
    <3> QED BY <2>1 DEF State
  <2>3. [y EXCEPT !.mirror = m] \in State
    <3> HIDE DEF y
    <3> QED BY <1>2, <2>2 DEF State
  <2>4. r = [y EXCEPT !.mirror = m]
    BY <1>4 DEF State
  <2> QED BY <2>3, <2>4
<1>6. /\ r.card = s.card /\ r.buf = buf /\ r.num = s.num /\ r.dirty = TRUE /\ r.mirror = m
      /\ r.ok = s.ok /\ r.blown = s.blown
      /\ r.h = s.h /\ r.left = s.left /\ r.got = s.got /\ r.start = s.start /\ r.val = s.val
  <2> HIDE DEF buf
  <2> QED BY <1>4 DEF State
<1>7. View(r) = [s.card EXCEPT ![s.num] = buf] /\ View(s) = [s.card EXCEPT ![s.num] = s.buf]
  BY <1>1, <1>6 DEF View
<1>8. View(s)[s.num] = s.buf /\ View(r) = [View(s) EXCEPT ![s.num] = [@ EXCEPT ![slot] = v]]
  BY <1>1, <1>7 DEF State
<1>9. Main(View(r)) = [Main(View(s)) EXCEPT ![s.num] = [@ EXCEPT ![slot] = v]]
  <2>1. View(s) \in [Blocks -> Block]
    BY MainFacts
  <2> QED BY <1>1, <1>8, <2>1 DEF Main
<1>10. Typed(View(r))
  <2>1. \A b \in Blocks : View(r)[b] = IF b = s.num THEN buf ELSE View(s)[b]
    BY <1>8, MainFacts
  <2>2. FatBlocks \subseteq Blocks /\ RootDirStart \in Blocks /\ RootDirStart \notin FatBlocks
    BY Layout
  <2>3. \A i \in SlotNumbers : buf[i] = IF i = slot THEN v ELSE View(s)[s.num][i]
    BY <1>8 DEF State, Block
  <2>4. ASSUME NEW b \in FatBlocks, NEW i \in SlotNumbers PROVE View(r)[b][i] \in 0 .. EOC
    <3>1. View(s)[b][i] \in 0 .. EOC
      BY DEF Coherent, Typed
    <3> HIDE DEF buf
    <3> QED BY <2>1, <2>2, <2>3, <3>1
  <2>5. ASSUME NEW i \in SlotNumbers PROVE View(r)[RootDirStart][i] \in DirEntry
    <3>1. View(s)[RootDirStart][i] \in DirEntry
      BY DEF Coherent, Typed
    <3> HIDE DEF buf
    <3> QED BY <2>1, <2>2, <2>3, <3>1
  <2> QED BY <2>4, <2>5 DEF Typed
<1>11. Coherent(r)
  <2>1. s.num \notin FatBlocks => s.mirror = 0
    BY DEF Coherent
  <2>2. FatCount = 2 /\ s.num \in FatBlocks => m # 0
    BY <1>1, Layout DEF m
  <2>3. m # 0 => FatCount = 2 /\ s.num \in FatBlocks /\ m = s.num + BlocksPerFat
    BY <2>1 DEF m, Coherent
  <2>4. Typed(r.card)
    BY <1>6 DEF Coherent
  <2> QED BY <1>6, <1>10, <2>2, <2>3, <2>4 DEF Coherent
<1>12. Twin(s) => Twin(r)
  BY <1>6 DEF Twin
<1> QED BY <1>1, <1>5, <1>6, <1>9, <1>11, <1>12 DEF Leads, GoesOn, Stuck, Seen

SameCache(s, r) == /\ r.card = s.card /\ r.buf = s.buf /\ r.num = s.num
                   /\ r.dirty = s.dirty /\ r.mirror = s.mirror

\* What changes neither the card nor the cache leaves both sound.
LEMMA SameSound ==
  ASSUME NEW s, Sound(s), NEW r \in State, SameCache(s, r)
  PROVE  /\ Sound(r) /\ View(r) = View(s) /\ Seen(r) = Seen(s) /\ Main(r.card) = Main(s.card)
         /\ (Twin(s) => Twin(r)) /\ (Stuck(r) => Stuck(s))
<1>1. View(r) = View(s)
  BY DEF View, SameCache
<1> QED BY <1>1 DEF Sound, Coherent, Twin, Stuck, SameCache, Seen

\* A call that fails of itself.
LEMMA FailKeeps ==
  ASSUME NEW s, Sound(s)
  PROVE  /\ Keeps(s, Fail(s)) /\ ~Fail(s).ok /\ SameCache(s, Fail(s)) /\ Fail(s).val = s.val
         /\ Fail(s).blown = s.blown
<1> DEFINE r == Fail(s)
<1>1. /\ r \in State /\ SameCache(s, r) /\ ~r.ok /\ r.blown = s.blown
      /\ r.h = s.h /\ r.left = s.left /\ r.got = s.got /\ r.start = s.start /\ r.val = s.val
  BY DEF Fail, State, SameCache, Sound
<1> HIDE DEF r
<1>2. Keeps(s, r)
  BY <1>1, SameSound DEF Keeps, Leads, GoesOn, Seen
<1> QED BY <1>1, <1>2 DEF r

\* The result is set.
LEMMA ValKeeps ==
  ASSUME NEW s, Sound(s), NEW v \in Nat, NEW r, r = [s EXCEPT !.val = v]
  PROVE  Keeps(s, r) /\ SameCache(s, r) /\ r.ok = s.ok /\ r.blown = s.blown /\ r.val = v
<1>1. /\ r \in State /\ SameCache(s, r) /\ r.ok = s.ok /\ r.blown = s.blown
      /\ r.h = s.h /\ r.left = s.left /\ r.got = s.got /\ r.start = s.start /\ r.val = v
  BY DEF State, SameCache, Sound
<1> QED BY <1>1, SameSound DEF Keeps, Leads, GoesOn, Seen

\* Every entry of the table is a cluster, 0 or the end marker.
LEMMA TableTyped ==
  ASSUME NEW s, Sound(s), NEW c \in 0 .. LastCluster
  PROVE  /\ Table(Seen(s))[c] \in 0 .. EOC /\ Table(Main(s.card))[c] \in 0 .. EOC
         /\ Table(Seen(s))[c] = Seen(s)[FatBlock(c)][c % Slots]
<1>1. FatBlock(c) \in FatBlocks /\ FatBlock(c) \in Blocks \ Mirrors /\ c % Slots \in SlotNumbers
  BY Layout, EntryPlace
<1>2. Seen(s)[FatBlock(c)] = View(s)[FatBlock(c)] /\ Main(s.card)[FatBlock(c)] = s.card[FatBlock(c)]
  BY <1>1 DEF Seen, Main
<1>3. /\ Table(Seen(s))[c] = Seen(s)[FatBlock(c)][c % Slots]
      /\ Table(Main(s.card))[c] = Main(s.card)[FatBlock(c)][c % Slots]
  BY DEF Table
<1>4. View(s)[FatBlock(c)][c % Slots] \in 0 .. EOC /\ s.card[FatBlock(c)][c % Slots] \in 0 .. EOC
  BY <1>1 DEF Sound, Coherent, Typed
<1> QED BY <1>2, <1>3, <1>4

\* A block to read, ...
LEMMA RawRead ==
  ASSUME NEW s, Sound(s), NEW b \in Blocks \ ({0} \cup Mirrors)
  PROVE  /\ Keeps(s, CacheRawBlock(s, b, FALSE)) /\ Certain(s, CacheRawBlock(s, b, FALSE))
         /\ CacheRawBlock(s, b, FALSE).val = s.val
         /\ CacheRawBlock(s, b, FALSE).ok => /\ CacheRawBlock(s, b, FALSE).num = b
                                             /\ CacheRawBlock(s, b, FALSE).buf = Seen(s)[b]
<1>1. \A w \in BOOLEAN : (w => b \notin FatBlocks) =>
        /\ Keeps(s, CacheRawBlock(s, b, w)) /\ Certain(s, CacheRawBlock(s, b, w))
        /\ CacheRawBlock(s, b, w).val = s.val
        /\ CacheRawBlock(s, b, w).ok => /\ CacheRawBlock(s, b, w).num = b
                                        /\ CacheRawBlock(s, b, w).buf = Seen(s)[b]
  <2> TAKE w \in BOOLEAN
  <2> HAVE w => b \notin FatBlocks
  <2> QED BY RawKeeps
<1> QED BY <1>1, Zenon

\* ... and one to write.
LEMMA RawWrite ==
  ASSUME NEW s, Sound(s), NEW b \in Blocks \ ({0} \cup Mirrors), b \notin FatBlocks
  PROVE  /\ Keeps(s, CacheRawBlock(s, b, TRUE)) /\ Certain(s, CacheRawBlock(s, b, TRUE))
         /\ CacheRawBlock(s, b, TRUE).val = s.val
         /\ CacheRawBlock(s, b, TRUE).ok => /\ CacheRawBlock(s, b, TRUE).num = b
                                            /\ CacheRawBlock(s, b, TRUE).buf = Seen(s)[b]
                                            /\ CacheRawBlock(s, b, TRUE).dirty
<1>1. \A w \in BOOLEAN : (w => b \notin FatBlocks) =>
        /\ Keeps(s, CacheRawBlock(s, b, w)) /\ Certain(s, CacheRawBlock(s, b, w))
        /\ CacheRawBlock(s, b, w).val = s.val
        /\ CacheRawBlock(s, b, w).ok => /\ CacheRawBlock(s, b, w).num = b
                                        /\ CacheRawBlock(s, b, w).buf = Seen(s)[b]
                                        /\ (w => CacheRawBlock(s, b, w).dirty)
  <2> TAKE w \in BOOLEAN
  <2> HAVE w => b \notin FatBlocks
  <2> QED BY RawKeeps
<1> QED BY <1>1, Zenon

\* fatGet() reads the entry seen.
LEMMA FatGetKeeps ==
  ASSUME NEW s, Sound(s), NEW c \in 0 .. LastCluster, NEW r, r = FatGet(s, c)
  PROVE  /\ Keeps(s, r) /\ Certain(s, r)
         /\ r.ok => r.val = Table(Seen(s))[c] /\ r.num = FatBlock(c)
<1> DEFINE g == CacheRawBlock(s, FatBlock(c), FALSE)
<1>1. FatBlock(c) \in Blocks \ ({0} \cup Mirrors) /\ c % Slots \in SlotNumbers /\ ~(c > LastCluster)
  <2>1. ~(c > LastCluster)
    BY VolumeAssumption DEF LastCluster
  <2> QED BY <2>1, Layout, EntryPlace
<1>2. /\ Keeps(s, g) /\ Certain(s, g)
      /\ g.ok => g.num = FatBlock(c) /\ g.buf = Seen(s)[FatBlock(c)]
  BY <1>1, RawRead
<1>3. r = IF g.ok THEN [g EXCEPT !.val = g.buf[c % Slots]] ELSE g
  BY <1>1 DEF FatGet, Then
<1> HIDE DEF g
<1>4. CASE ~g.ok
  BY <1>2, <1>3, <1>4
<1>5. CASE g.ok
  <2>1. g.buf[c % Slots] = Table(Seen(s))[c] /\ Table(Seen(s))[c] \in Nat
    BY <1>2, <1>5, TableTyped, VolumeAssumption DEF EOC, LastCluster
  <2>2. Sound(g)
    BY <1>2 DEF Keeps, Leads
  <2>3. Keeps(g, r) /\ SameCache(g, r) /\ r.ok = g.ok /\ r.blown = g.blown /\ r.val = Table(Seen(s))[c]
    <3> PICK v \in Nat : v = Table(Seen(s))[c] /\ v = g.buf[c % Slots]
      BY <2>1
    <3>1. r = [g EXCEPT !.val = v]
      BY <1>3, <1>5
    <3>2. Keeps(g, r) /\ SameCache(g, r) /\ r.ok = g.ok /\ r.blown = g.blown /\ r.val = v
      BY <2>2, <3>1, ValKeeps
    <3> QED BY <3>2
  <2>4. Keeps(s, r)
    BY <1>2, <2>3, KeepsTwice
  <2> QED BY <1>2, <1>5, <2>3, <2>4 DEF Certain, SameCache
<1> QED BY <1>4, <1>5

\* Behind the last cluster there is no entry.
LEMMA FatGetPast ==
  ASSUME NEW s, Sound(s), NEW c \in Nat, c > LastCluster
  PROVE  Keeps(s, FatGet(s, c)) /\ ~FatGet(s, c).ok /\ FatGet(s, c).blown = s.blown
BY FailKeeps DEF FatGet

Put(m, c, v) == [m EXCEPT ![FatBlock(c)] = [@ EXCEPT ![c % Slots] = v]]

\* One entry of the table is replaced.
LEMMA PutFacts ==
  ASSUME NEW s, Sound(s), NEW c \in 0 .. LastCluster, NEW v
  PROVE  /\ Table(Put(Seen(s), c, v)) = [Table(Seen(s)) EXCEPT ![c] = v]
         /\ Root(Put(Seen(s), c, v)) = Root(Seen(s))
         /\ \A b \in DataBlocks : Put(Seen(s), c, v)[b] = Seen(s)[b]
<1> DEFINE m == Seen(s)
<1>1. FatBlock(c) \in FatBlocks /\ FatBlock(c) \in Blocks \ Mirrors /\ c % Slots \in SlotNumbers
  BY Layout, EntryPlace
<1>2. m = [b \in Blocks \ Mirrors |-> View(s)[b]]
  BY DEF Seen, Main
<1>3. \A b \in Blocks \ Mirrors : m[b] = View(s)[b] /\ m[b] \in Block
  BY <1>2, MainFacts
<1> HIDE DEF m
<1>4. \A d \in 0 .. LastCluster : Put(m, c, v)[FatBlock(d)][d % Slots] = IF d = c THEN v ELSE m[FatBlock(d)][d % Slots]
  <2> SUFFICES ASSUME NEW d \in 0 .. LastCluster
               PROVE  Put(m, c, v)[FatBlock(d)][d % Slots] = IF d = c THEN v ELSE m[FatBlock(d)][d % Slots]
    OBVIOUS
  <2>1. FatBlock(d) \in Blocks \ Mirrors /\ d % Slots \in SlotNumbers
    BY Layout, EntryPlace
  <2>2. Put(m, c, v)[FatBlock(d)] = IF FatBlock(d) = FatBlock(c) THEN [m[FatBlock(c)] EXCEPT ![c % Slots] = v]
                                    ELSE m[FatBlock(d)]
    BY <1>1, <1>2, <2>1 DEF Put
  <2>3. m[FatBlock(c)] \in [SlotNumbers -> Int \cup DirEntry]
    BY <1>1, <1>3 DEF Block
  <2>4. d # c => FatBlock(d) # FatBlock(c) \/ d % Slots # c % Slots
    BY Places
  <2> QED BY <1>1, <2>1, <2>2, <2>3, <2>4
<1>5. Table(Put(m, c, v)) = [Table(m) EXCEPT ![c] = v]
  BY <1>4 DEF Table
<1>6. RootDirStart \in Blocks \ Mirrors /\ RootDirStart # FatBlock(c)
      /\ \A b \in DataBlocks : b \in Blocks \ Mirrors /\ b # FatBlock(c)
  BY <1>1, Layout
<1> QED BY <1>1, <1>2, <1>5, <1>6 DEF Root, Put, m

\* fatPut() changes that entry and no other, or fails and changes nothing.
LEMMA FatPutLeads ==
  ASSUME NEW s, Sound(s), NEW c \in Clusters, NEW v \in 0 .. EOC, NEW r, r = FatPut(s, c, v)
  PROVE  /\ r.ok => Leads(s, r, Put(Seen(s), c, v)) /\ r.num = FatBlock(c)
         /\ ~r.ok => Keeps(s, r)
         /\ Certain(s, r) /\ r.val = s.val
         /\ s.ok /\ s.num = FatBlock(c) => r.ok /\ r.card = s.card /\ r.blown = s.blown
<1> DEFINE g == CacheRawBlock(s, FatBlock(c), FALSE)
<1>1. FatBlock(c) \in Blocks \ ({0} \cup Mirrors) /\ FatBlock(c) \in FatBlocks
      /\ c % Slots \in SlotNumbers /\ c \in 0 .. LastCluster /\ FatBlock(c) # RootDirStart
  BY Layout, EntryPlace DEF Clusters
<1>2. /\ Keeps(s, g) /\ Certain(s, g) /\ g.val = s.val
      /\ g.ok => g.num = FatBlock(c) /\ g.buf = Seen(s)[FatBlock(c)]
  BY <1>1, RawRead
<1>3. ASSUME s.ok, s.num = FatBlock(c) PROVE g = s
  <2>1. g = [s EXCEPT !.dirty = s.dirty \/ (s.ok /\ FALSE)] /\ s \in State
    BY <1>3 DEF CacheRawBlock, Sound
  <2>2. s.dirty \in BOOLEAN
    BY <2>1 DEF State
  <2>3. (s.dirty \/ (s.ok /\ FALSE)) = s.dirty
    BY <2>2
  <2>4. g = [s EXCEPT !.dirty = s.dirty]
    BY <2>1, <2>3
  <2> QED BY <2>1, <2>4 DEF State
<1>4. r = IF ~g.ok THEN g ELSE [g EXCEPT !.buf[c % Slots] = v, !.dirty = TRUE,
                                   !.mirror = IF FatCount = 2 /\ g.num \in FatBlocks
                                              THEN g.num + BlocksPerFat ELSE @]
  <2> DEFINE p == Poke(g, c % Slots, v)
  <2>1. r = IF p.ok THEN IF FatCount = 1 THEN p ELSE [p EXCEPT !.mirror = FatBlock(c) + BlocksPerFat] ELSE p
    BY DEF FatPut, Then
  <2>2. g \in State
    BY <1>2 DEF Keeps, Leads, Sound
  <2> HIDE DEF g
  <2>3. CASE ~g.ok
    BY <2>1, <2>3 DEF Poke
  <2>4. CASE g.ok
    <3>1. p = [g EXCEPT !.buf[c % Slots] = v, !.dirty = TRUE] /\ p.ok
      BY <2>2, <2>4 DEF Poke, State
    <3>2. CASE FatCount = 1
      <4>1. r = p
        BY <2>1, <3>1, <3>2
      <4>2. p = [g EXCEPT !.buf[c % Slots] = v, !.dirty = TRUE, !.mirror = g.mirror]
        BY <2>2, <3>1 DEF State
      <4> QED BY <2>4, <3>2, <4>1, <4>2
    <3>3. CASE FatCount = 2
      <4>1. r = [p EXCEPT !.mirror = FatBlock(c) + BlocksPerFat]
        BY <2>1, <3>1, <3>3
      <4>2. g.num = FatBlock(c) /\ g.num \in FatBlocks
        BY <1>1, <1>2, <2>4
      <4> QED BY <2>2, <2>4, <3>1, <3>3, <4>1, <4>2 DEF State
    <3> QED BY <3>2, <3>3, VolumeAssumption
  <2> QED BY <2>3, <2>4
<1> HIDE DEF g
<1>5. CASE ~g.ok
  <2>1. r = g
    BY <1>4, <1>5
  <2> QED BY <1>2, <1>3, <1>5, <2>1
<1>6. CASE g.ok
  <2>1. g.num = FatBlock(c) /\ Sound(g) /\ Seen(g) = Seen(s)
    BY <1>2, <1>6 DEF Keeps, Leads, Seen
  <2>2. r = [g EXCEPT !.buf[c % Slots] = v, !.dirty = TRUE,
                      !.mirror = IF FatCount = 2 /\ g.num \in FatBlocks THEN g.num + BlocksPerFat ELSE @]
    BY <1>4, <1>6
  <2>3. /\ Leads(g, r, [Seen(g) EXCEPT ![g.num] = [@ EXCEPT ![c % Slots] = v]])
        /\ r.card = g.card /\ r.num = g.num /\ r.ok = g.ok /\ r.blown = g.blown /\ r.val = g.val
    <3>1. g.num \in FatBlocks \cup {RootDirStart} /\ g.num # RootDirStart
      BY <1>1, <2>1
    <3>2. PICK i \in SlotNumbers : i = c % Slots
      BY <1>1
    <3>3. PICK w : w = v /\ w \in 0 .. EOC
      OBVIOUS
    <3>4. r = Poked(g, i, w)
      BY <2>2, <3>2, <3>3 DEF Poked
    <3>5. /\ Leads(g, r, Assigned(Seen(g), g.num, i, w))
          /\ r.card = g.card /\ r.num = g.num /\ r.ok = g.ok /\ r.blown = g.blown /\ r.val = g.val
      BY <2>1, <3>1, <3>3, <3>4, PokeLeads
    <3> QED BY <3>2, <3>3, <3>5 DEF Assigned
  <2>4. Leads(s, r, Put(Seen(s), c, v))
    <3>1. [Seen(g) EXCEPT ![g.num] = [@ EXCEPT ![c % Slots] = v]] = Put(Seen(s), c, v)
      BY <2>1 DEF Put
    <3> QED BY <1>2, <2>1, <2>3, <3>1 DEF Keeps, Leads, GoesOn
  <2> QED BY <1>2, <1>3, <1>6, <2>1, <2>3, <2>4 DEF Certain
<1> QED BY <1>5, <1>6

-----------------------------------------------------------------------------
(* Files: their entries, their handles, their chains *)

Tables == [0 .. LastCluster -> 0 .. EOC]
Roots == [SlotNumbers -> DirEntry]

EntryIn(root, f) == LET mine == {i \in SlotNumbers : root[i].name = f}
                    IN  IF mine = {} THEN Free ELSE root[CHOOSE i \in mine : TRUE]

RootOk(root) ==
  /\ root \in Roots
  /\ \A i \in SlotNumbers : root[i].first \in {0} \cup Clusters /\ root[i].size <= MaxSize
  /\ \A i, j \in SlotNumbers : root[i].name = root[j].name /\ root[i].name \in Names => i = j
  /\ \A i, j \in SlotNumbers : i < j /\ root[i].name = "free" => root[j].name = "free"

\* c is the chain from first.
Linked(t, first, c) ==
  /\ first = IF c = <<>> THEN 0 ELSE c[1]
  /\ \A i \in 1 .. Len(c) : t[c[i]] = IF i < Len(c) THEN c[i + 1] ELSE EOC

\* The entry of an open file.
Entered(h, e) == /\ e.name = h.name
                 /\ e.first \in {0, h.first} /\ e.size <= h.size /\ (e.first = 0 => e.size = 0)
                 /\ ~h.dirty => e.first = h.first /\ e.size = h.size

Nth(pos) == ((pos - 1) \div ClusterUnits) + 1
Ran(c) == {c[i] : i \in 1 .. Len(c)}

\* The place of the position in the chain.
Stands(h, c, exact) ==
  /\ h.cur \in {0, EOC} \cup Ran(c)
  /\ h.cur = 0 => h.pos = 0
  /\ c = <<>> => h.cur = 0
  /\ exact => IF h.pos = 0 THEN h.cur = 0 ELSE Nth(h.pos) \in 1 .. Len(c) /\ h.cur = c[Nth(h.pos)]

FirstIn(root, f, h) == IF h.open THEN h.first ELSE EntryIn(root, f).first
SizeIn(root, f, h) == IF h.open THEN h.size ELSE EntryIn(root, f).size

FileOk(t, root, f, h, c, long, exact, full) ==
  /\ Linked(t, FirstIn(root, f, h), c)
  /\ SizeIn(root, f, h) > 0 => c # <<>>
  /\ long => SizeIn(root, f, h) <= Len(c) * ClusterUnits
  /\ full /\ SizeIn(root, f, h) = 0 /\ (h.open => h.cur = 0) => c = <<>>
  /\ h.open => Entered(h, root[h.slot]) /\ Stands(h, c, exact)

Disjoint(live, ch) ==
  \A f, g \in live : \A i \in 1 .. Len(ch[f]), j \in 1 .. Len(ch[g]) :
    ch[f][i] = ch[g][j] => f = g /\ i = j

Handles == Handle \cup {Closed}

Live(t, root, fl, ch, live, long, exact, full) ==
  /\ t \in Tables /\ RootOk(root) /\ ch \in [live -> Seq(Clusters)] /\ fl \in [Names -> Handles]
  /\ \A f \in live : FileOk(t, root, f, fl[f], ch[f], f \in long, f \in exact, full)
  /\ Disjoint(live, ch)
  /\ full => \A c \in Clusters : t[c] # 0 => \E f \in live : c \in Ran(ch[f])

HandleOk(f, h) ==
  h.open => /\ h \in Handle /\ h.name = f /\ h.cur <= EOC /\ h.first \in {0} \cup Clusters
            /\ h.size <= MaxSize

-----------------------------------------------------------------------------
\* The entry of a name is the only one with it.
LEMMA EntryFacts ==
  ASSUME NEW root, RootOk(root), NEW f \in Names
  PROVE  /\ \A i \in SlotNumbers : root[i].name = f => EntryIn(root, f) = root[i]
         /\ (\A i \in SlotNumbers : root[i].name # f) => EntryIn(root, f) = Free
         /\ EntryIn(root, f).first \in {0} \cup Clusters /\ EntryIn(root, f).size \in 0 .. MaxSize
<1> DEFINE mine == {i \in SlotNumbers : root[i].name = f}
<1>1. EntryIn(root, f) = IF mine = {} THEN Free ELSE root[CHOOSE i \in mine : TRUE]
  BY DEF EntryIn
<1>2. mine # {} => (CHOOSE i \in mine : TRUE) \in mine
  OBVIOUS
<1>3. \A i, j \in mine : i = j
  BY DEF RootOk
<1>4. \A i \in SlotNumbers : root[i].first \in {0} \cup Clusters /\ root[i].size \in 0 .. MaxSize
  <2> SUFFICES ASSUME NEW i \in SlotNumbers
               PROVE  root[i].first \in {0} \cup Clusters /\ root[i].size \in 0 .. MaxSize
    OBVIOUS
  <2>1. root[i] \in DirEntry
    BY DEF RootOk, Roots
  <2>2. root[i].size \in Nat
    BY <2>1 DEF DirEntry
  <2> QED BY <2>2, FileAssumption DEF RootOk
<1>5. Free.first = 0 /\ Free.size = 0 /\ 0 \in 0 .. MaxSize
  BY FileAssumption DEF Free
<1> HIDE DEF mine
<1>6. CASE mine = {}
  <2>1. EntryIn(root, f) = Free
    BY <1>1, <1>6
  <2>2. \A i \in SlotNumbers : root[i].name # f
    BY <1>6 DEF mine
  <2> QED BY <1>5, <2>1, <2>2
<1>7. CASE mine # {}
  <2> PICK i \in mine : i = CHOOSE j \in mine : TRUE
    BY <1>2, <1>7
  <2>1. EntryIn(root, f) = root[i] /\ i \in SlotNumbers /\ root[i].name = f
    BY <1>1, <1>7 DEF mine
  <2>2. \A j \in SlotNumbers : root[j].name = f => j = i
    BY <1>3, <2>1 DEF mine
  <2> QED BY <1>4, <2>1, <2>2
<1> QED BY <1>6, <1>7

\* The clusters of a chain are in use.
LEMMA UsedInChain ==
  ASSUME NEW t, NEW first, NEW c \in Seq(Clusters), Linked(t, first, c)
  PROVE  \A a \in Ran(c) : t[a] # 0 /\ a \in Clusters
<1>1. EOC # 0
  BY VolumeAssumption DEF EOC, LastCluster
<1>2. \A i \in 1 .. Len(c) : c[i] \in Clusters /\ c[i] # 0
  <2>1. \A a \in Clusters : a # 0
    BY DEF Clusters
  <2> QED BY <2>1
<1>3. \A i \in 1 .. Len(c) : i < Len(c) => i + 1 \in 1 .. Len(c)
  OBVIOUS
<1> QED BY <1>1, <1>2, <1>3 DEF Linked, Ran

\* What is in another place of the table and of the directory changes nothing for a file.
LEMMA FileKept ==
  ASSUME NEW t, NEW root, NEW f, NEW h, NEW c, NEW long, NEW exact, NEW full,
         FileOk(t, root, f, h, c, long, exact, full), NEW u, NEW dir,
         \A a \in Ran(c) : u[a] = t[a], EntryIn(dir, f) = EntryIn(root, f),
         h.open => dir[h.slot] = root[h.slot]
  PROVE  FileOk(u, dir, f, h, c, long, exact, full)
<1>1. Linked(u, FirstIn(root, f, h), c)
  BY DEF FileOk, Linked, Ran
<1>2. FirstIn(dir, f, h) = FirstIn(root, f, h) /\ SizeIn(dir, f, h) = SizeIn(root, f, h)
  BY DEF FirstIn, SizeIn
<1> QED BY <1>1, <1>2 DEF FileOk

\* A file of which less is said.
LEMMA FileLess ==
  ASSUME NEW t, NEW root, NEW f, NEW h, NEW c, NEW long, NEW exact, NEW full,
         FileOk(t, root, f, h, c, long, exact, full), NEW lo, NEW ex, NEW fu,
         lo => long, ex => exact, fu => full
  PROVE  FileOk(t, root, f, h, c, lo, ex, fu)
BY DEF FileOk, Stands

\* The table changes in free entries and in those of D.
Within(t, u, D) == \A a \in 0 .. LastCluster : u[a] # t[a] => t[a] = 0 \/ a \in D
Once(c) == \A i, j \in 1 .. Len(c) : c[i] = c[j] => i = j

\* A call on f changes entries of f and free ones: the other files stay as they are.
LEMMA LiveStep ==
  ASSUME NEW t, NEW root, NEW fl, NEW ch, NEW live, NEW long, NEW exact, NEW full,
         Live(t, root, fl, ch, live, long, exact, full),
         NEW f \in live, live \subseteq Names,
         NEW u \in Tables, NEW dir, RootOk(dir), NEW h \in Handles, NEW c \in Seq(Clusters),
         NEW lo, lo \subseteq long \cup {f}, NEW ex, ex \subseteq exact \cup {f}, NEW fu, fu => full,
         \A g \in live \ {f} : /\ EntryIn(dir, g) = EntryIn(root, g)
                               /\ fl[g].open => dir[fl[g].slot] = root[fl[g].slot],
         Within(t, u, Ran(ch[f])),
         Once(c), \A a \in Ran(c) : a \in Ran(ch[f]) \/ t[a] = 0,
         FileOk(u, dir, f, h, c, f \in lo, f \in ex, fu),
         fu => \A a \in Clusters : u[a] # 0 => a \in Ran(c) \/ (t[a] # 0 /\ a \notin Ran(ch[f]))
  PROVE  Live(u, dir, [fl EXCEPT ![f] = h], [ch EXCEPT ![f] = c], live, lo, ex, fu)
<1> DEFINE gl == [fl EXCEPT ![f] = h]
           dh == [ch EXCEPT ![f] = c]
<1>1. gl \in [Names -> Handles] /\ dh \in [live -> Seq(Clusters)]
      /\ gl[f] = h /\ dh[f] = c /\ \A g \in live \ {f} : gl[g] = fl[g] /\ dh[g] = ch[g]
  BY DEF Live
<1> HIDE DEF gl, dh
<1>2. \A g \in live : \A a \in Ran(ch[g]) : t[a] # 0 /\ a \in Clusters
  <2> SUFFICES ASSUME NEW g \in live PROVE \A a \in Ran(ch[g]) : t[a] # 0 /\ a \in Clusters
    OBVIOUS
  <2>1. ch[g] \in Seq(Clusters) /\ Linked(t, FirstIn(root, g, fl[g]), ch[g])
    BY DEF Live, FileOk
  <2> QED BY <2>1, UsedInChain
<1>3. \A g \in live \ {f} : \A a \in Ran(ch[g]) : a \notin Ran(ch[f])
  BY DEF Live, Disjoint, Ran
<1>4. \A g \in live \ {f} : \A a \in Ran(ch[g]) : u[a] = t[a] /\ a \notin Ran(c)
  <2>1. Clusters \subseteq 0 .. LastCluster
    BY DEF Clusters
  <2> QED BY <1>2, <1>3, <2>1 DEF Within
<1>5. ASSUME NEW g \in live PROVE FileOk(u, dir, g, gl[g], dh[g], g \in lo, g \in ex, fu)
  <2>1. CASE g = f
    BY <1>1, <2>1
  <2>2. CASE g # f
    <3>1. FileOk(t, root, g, fl[g], ch[g], g \in long, g \in exact, full)
      BY DEF Live
    <3>2. FileOk(u, dir, g, fl[g], ch[g], g \in long, g \in exact, full)
      BY <1>4, <2>2, <3>1, FileKept
    <3>3. FileOk(u, dir, g, fl[g], ch[g], g \in lo, g \in ex, fu)
      BY <2>2, <3>2 DEF FileOk, Stands
    <3> QED BY <1>1, <2>2, <3>3
  <2> QED BY <2>1, <2>2
<1>6. Disjoint(live, dh)
  <2> SUFFICES ASSUME NEW g1 \in live, NEW g2 \in live, NEW i \in 1 .. Len(dh[g1]), NEW j \in 1 .. Len(dh[g2]),
                      dh[g1][i] = dh[g2][j]
               PROVE  g1 = g2 /\ i = j
    BY DEF Disjoint
  <2>1. CASE g1 = f /\ g2 = f
    BY <1>1, <2>1 DEF Once
  <2>2. CASE g1 = f /\ g2 # f
    <3>1. dh[g1][i] \in Ran(c) /\ dh[g2][j] \in Ran(ch[g2])
      BY <1>1, <2>2 DEF Ran
    <3> QED BY <1>4, <2>2, <3>1
  <2>3. CASE g1 # f /\ g2 = f
    <3>1. dh[g2][j] \in Ran(c) /\ dh[g1][i] \in Ran(ch[g1])
      BY <1>1, <2>3 DEF Ran
    <3> QED BY <1>4, <2>3, <3>1
  <2>4. CASE g1 # f /\ g2 # f
    BY <1>1, <2>4 DEF Live, Disjoint
  <2> QED BY <2>1, <2>2, <2>3, <2>4
<1>7. ASSUME fu, NEW a \in Clusters, u[a] # 0 PROVE \E g \in live : a \in Ran(dh[g])
  <2>1. CASE a \in Ran(c)
    BY <1>1, <2>1
  <2>2. CASE t[a] # 0 /\ a \notin Ran(ch[f])
    <3>1. PICK g \in live : a \in Ran(ch[g])
      BY <1>7, <2>2 DEF Live
    <3> QED BY <1>1, <2>2, <3>1
  <2> QED BY <1>7, <2>1, <2>2
<1> QED BY <1>1, <1>5, <1>6, <1>7 DEF Live, gl, dh

\* The files but f stay as they are, with no cluster of D.
Spared(f, D, root, dir, fl, gl, ch, live, li) ==
  /\ live \subseteq Names /\ li = live \ {f} /\ gl \in [Names -> Handles] /\ RootOk(dir)
  /\ \A g \in li : /\ EntryIn(dir, g) = EntryIn(root, g) /\ gl[g] = fl[g] /\ Ran(ch[g]) \cap D = {}
                   /\ fl[g].open => dir[fl[g].slot] = root[fl[g].slot]
\* The same for a file that is not to be relied upon during the call.
LEMMA LiveOthers ==
  ASSUME NEW t, NEW root, NEW fl, NEW ch, NEW live, NEW long, NEW exact, NEW full,
         Live(t, root, fl, ch, live, long, exact, full),
         NEW f, NEW D, NEW u, u \in Tables, NEW dir, NEW gl, NEW li,
         Spared(f, D, root, dir, fl, gl, ch, live, li), Within(t, u, D)
  PROVE  \E dh : Live(u, dir, gl, dh, li, long, exact, FALSE)
<1> DEFINE dh == [g \in li |-> ch[g]]
<1>1. gl \in [Names -> Handles] /\ dh \in [li -> Seq(Clusters)] /\ RootOk(dir) /\ li \subseteq live
      /\ \A g \in li : gl[g] = fl[g] /\ dh[g] = ch[g]
  BY DEF Live, Spared
<1> HIDE DEF dh
<1>2. \A g \in li : \A a \in Ran(ch[g]) : u[a] = t[a]
  <2> SUFFICES ASSUME NEW g \in li PROVE \A a \in Ran(ch[g]) : u[a] = t[a]
    OBVIOUS
  <2>1. ch[g] \in Seq(Clusters) /\ Linked(t, FirstIn(root, g, fl[g]), ch[g])
    BY <1>1 DEF Live, FileOk
  <2>2. \A a \in Ran(ch[g]) : t[a] # 0 /\ a \in Clusters
    BY <2>1, UsedInChain
  <2>3. Clusters \subseteq 0 .. LastCluster
    BY DEF Clusters
  <2>4. Ran(ch[g]) \cap D = {}
    BY DEF Spared
  <2> QED BY <2>2, <2>3, <2>4 DEF Within
<1>3. ASSUME NEW g \in li PROVE FileOk(u, dir, g, gl[g], dh[g], g \in long, g \in exact, FALSE)
  <2>1. FileOk(t, root, g, fl[g], ch[g], g \in long, g \in exact, full)
    BY <1>1 DEF Live
  <2>2. FileOk(u, dir, g, fl[g], ch[g], g \in long, g \in exact, full)
    BY <1>2, <2>1, FileKept DEF Spared
  <2>3. FileOk(u, dir, g, fl[g], ch[g], g \in long, g \in exact, FALSE)
    BY <2>2 DEF FileOk, Stands
  <2> QED BY <1>1, <2>3
<1>4. Disjoint(li, dh)
  BY <1>1 DEF Live, Disjoint
<1>5. Live(u, dir, gl, dh, li, long, exact, FALSE)
  BY <1>1, <1>3, <1>4 DEF Live
<1> QED BY <1>5

-----------------------------------------------------------------------------
(* What a call may change of the table *)

\* What the card holds after the step from s to r: what it held, or what was seen
\* with free entries, and those of D, altered.
CardAlters(s, r, D) ==
  \/ Root(Main(r.card)) = Root(Main(s.card)) /\ Table(Main(r.card)) = Table(Main(s.card))
  \/ Root(Main(r.card)) = Root(Seen(s)) /\ Within(Table(Seen(s)), Table(Main(r.card)), D)

\* Where a search for free clusters may start.
Startable == 2 .. LastCluster + 1

\* The step from s to r leaves the directory alone, and all of the table but free
\* entries and those of D.
Alters(s, r, D) ==
  /\ Sound(r) /\ (Twin(s) => Twin(r)) /\ GoesOn(s, r)
  /\ r.h = s.h /\ r.left = s.left /\ r.got = s.got
  /\ s.start \in Startable => r.start \in Startable
  /\ Root(Seen(r)) = Root(Seen(s)) /\ Within(Table(Seen(s)), Table(Seen(r)), D)
  /\ CardAlters(s, r, D)

LEMMA KeepsAlters ==
  ASSUME NEW s, NEW r, Keeps(s, r), NEW D
  PROVE  Alters(s, r, D) /\ Seen(r) = Seen(s)
BY DEF Keeps, Leads, Alters, CardAlters, Within, Seen

LEMMA AltersTwice ==
  ASSUME NEW s, NEW r, NEW q, NEW D, Alters(s, r, D), Alters(r, q, D)
  PROVE  Alters(s, q, D)
<1>1. Within(Table(Seen(s)), Table(Seen(q)), D)
  BY DEF Alters, Within
<1>2. CardAlters(s, q, D)
  <2>1. CASE Root(Main(q.card)) = Root(Main(r.card)) /\ Table(Main(q.card)) = Table(Main(r.card))
    BY <2>1 DEF Alters, CardAlters
  <2>2. CASE Root(Main(q.card)) = Root(Seen(r)) /\ Within(Table(Seen(r)), Table(Main(q.card)), D)
    <3>1. Within(Table(Seen(s)), Table(Main(q.card)), D)
      BY <2>2 DEF Alters, Within
    <3> QED BY <2>2, <3>1 DEF Alters, CardAlters
  <2> QED BY <2>1, <2>2 DEF Alters, CardAlters
<1>3. GoesOn(s, q)
  BY DEF Alters, GoesOn
<1> QED BY <1>1, <1>2, <1>3 DEF Alters

\* More may be altered.
LEMMA AltersMore ==
  ASSUME NEW s, NEW r, NEW D, NEW F, Alters(s, r, D), D \subseteq F
  PROVE  Alters(s, r, F)
BY DEF Alters, CardAlters, Within

LEMMA TablesTyped ==
  ASSUME NEW s, Sound(s)
  PROVE  Table(Seen(s)) \in Tables /\ Table(Main(s.card)) \in Tables
<1>1. Table(Seen(s)) = [c \in 0 .. LastCluster |-> Table(Seen(s))[c]]
      /\ Table(Main(s.card)) = [c \in 0 .. LastCluster |-> Table(Main(s.card))[c]]
  BY DEF Table
<1> QED BY <1>1, TableTyped DEF Tables

LEMMA FatPutAlters ==
  ASSUME NEW s, Sound(s), NEW c \in Clusters, NEW v \in 0 .. EOC, NEW D,
         c \in D \/ Table(Seen(s))[c] = 0, NEW r, r = FatPut(s, c, v)
  PROVE  /\ Alters(s, r, D) /\ Certain(s, r) /\ r.val = s.val /\ r.start = s.start
         /\ r.ok => Table(Seen(r)) = [Table(Seen(s)) EXCEPT ![c] = v]
         /\ ~r.ok => Keeps(s, r)
         /\ Main(r.card) \in {Main(s.card), Seen(s)}
<1>1. c \in 0 .. LastCluster
  BY DEF Clusters
<1>2. CASE ~r.ok
  <2>1. Keeps(s, r) /\ Certain(s, r) /\ r.val = s.val
    BY <1>2, FatPutLeads
  <2>2. Alters(s, r, D)
    BY <2>1, KeepsAlters
  <2> QED BY <1>2, <2>1, <2>2 DEF Keeps, Leads, Seen
<1>3. CASE r.ok
  <2>1. Leads(s, r, Put(Seen(s), c, v)) /\ Certain(s, r) /\ r.val = s.val
    BY <1>3, FatPutLeads
  <2>2. /\ Table(Seen(r)) = [Table(Seen(s)) EXCEPT ![c] = v]
        /\ Root(Seen(r)) = Root(Seen(s))
    BY <1>1, <2>1, PutFacts DEF Leads, Seen
  <2>3. Within(Table(Seen(s)), Table(Seen(r)), D)
    <3>1. Table(Seen(s)) \in Tables
      BY TablesTyped
    <3> QED BY <1>1, <2>2, <3>1 DEF Within, Tables
  <2>4. Main(r.card) \in {Main(s.card), Seen(s)} /\ Within(Table(Seen(s)), Table(Seen(s)), D)
    BY <2>1 DEF Leads, Seen, Within
  <2>5. Alters(s, r, D)
    BY <2>1, <2>2, <2>3, <2>4 DEF Alters, CardAlters, Leads
  <2> QED BY <1>3, <2>1, <2>2, <2>4, <2>5 DEF Leads
<1> QED BY <1>2, <1>3

-----------------------------------------------------------------------------
(* allocContiguous() and addCluster() *)

Vacant(t, bgn, end) == \A c \in bgn .. end : t[c] = 0
Reach(bgn, end) == 2 <= bgn /\ bgn <= end /\ end <= LastCluster + 1

\* The states of the search for count free clusters that started in s.
Searches(s, count) ==
  {a \in [s : State, bgn : Nat, end : Nat, found : BOOLEAN] :
     /\ Keeps(s, a.s) /\ Reach(a.bgn, a.end)
     /\ a.found => /\ a.s.ok /\ a.end <= LastCluster /\ a.end - a.bgn + 1 = count
                   /\ Vacant(Table(Seen(s)), a.bgn, a.end)
     /\ ~a.found => Vacant(Table(Seen(s)), a.bgn, a.end - 1)}

LEMMA SearchStepFacts ==
  ASSUME NEW s, Sound(s), NEW count \in Nat, NEW a \in Searches(s, count)
  PROVE  SearchStep(a, count) \in Searches(s, count)
<1> DEFINE wrap == a.end > LastCluster
           end == IF wrap THEN 2 ELSE a.end
           bgn == IF wrap THEN 2 ELSE a.bgn
           g == FatGet(a.s, end)
           r == SearchStep(a, count)
<1>0. LastCluster \in Nat /\ LastCluster >= 2
  BY VolumeAssumption DEF LastCluster
<1>1. /\ a \in [s : State, bgn : Nat, end : Nat, found : BOOLEAN]
      /\ Keeps(s, a.s) /\ Reach(a.bgn, a.end)
      /\ ~a.found => Vacant(Table(Seen(s)), a.bgn, a.end - 1)
  BY DEF Searches
<1>2. CASE a.found \/ ~a.s.ok
  BY <1>2 DEF SearchStep
<1>3. CASE ~a.found /\ a.s.ok
  <2>1. /\ end \in Nat /\ bgn \in Nat /\ 2 <= bgn /\ bgn <= end /\ end <= LastCluster
        /\ \A c \in bgn .. end - 1 : Table(Seen(s))[c] = 0
    BY <1>0, <1>1, <1>3 DEF Vacant, Reach
  <2>2. r = Judge(a, g, bgn, end, count)
    BY <1>3 DEF SearchStep
  <2> SUFFICES r \in Searches(s, count)
    OBVIOUS
  <2> HIDE DEF end, bgn, r
  <2>3. Sound(a.s) /\ Seen(a.s) = Seen(s) /\ end \in 0 .. LastCluster
    BY <1>0, <1>1, <2>1 DEF Keeps, Leads, Seen
  <2>4. Keeps(a.s, g) /\ (g.ok => g.val = Table(Seen(s))[end])
    BY <2>3, FatGetKeeps
  <2> HIDE DEF g
  <2>5. Keeps(s, g)
    BY <1>1, <2>4, KeepsTwice
  <2>6. g \in State
    BY <2>5 DEF Keeps, Leads, Sound
  <2>7. CASE ~g.ok
    <3>1. r = [a EXCEPT !.s = g]
      BY <2>2, <2>7 DEF Judge
    <3>2. r.s = g /\ r.bgn = a.bgn /\ r.end = a.end /\ r.found = FALSE
      BY <1>1, <1>3, <3>1
    <3>3. r \in [s : State, bgn : Nat, end : Nat, found : BOOLEAN]
      BY <1>1, <2>6, <3>1
    <3> QED BY <1>1, <1>3, <2>5, <3>2, <3>3 DEF Searches
  <2>8. CASE g.ok /\ g.val # 0
    <3>0. PICK e \in Nat : e = end + 1
      BY <2>1
    <3>1. r = [a EXCEPT !.s = g, !.bgn = e, !.end = e]
      BY <2>2, <2>8, <3>0 DEF Judge
    <3>2. r.s = g /\ r.bgn = e /\ r.end = e /\ r.found = FALSE
      BY <1>1, <1>3, <3>1
    <3>3. r \in [s : State, bgn : Nat, end : Nat, found : BOOLEAN]
      BY <1>1, <2>6, <3>0, <3>1
    <3>4. Reach(e, e) /\ Vacant(Table(Seen(s)), e, e - 1)
      BY <1>0, <2>1, <3>0 DEF Reach, Vacant
    <3> QED BY <2>5, <3>2, <3>3, <3>4 DEF Searches
  <2>9. CASE g.ok /\ g.val = 0 /\ end - bgn + 1 = count
    <3>1. r = [s |-> g, bgn |-> bgn, end |-> end, found |-> TRUE]
      BY <2>2, <2>9 DEF Judge
    <3>2. Vacant(Table(Seen(s)), bgn, end)
      BY <2>1, <2>4, <2>9 DEF Vacant
    <3>3. r.s = g /\ r.bgn = bgn /\ r.end = end /\ r.found = TRUE
          /\ r \in [s : State, bgn : Nat, end : Nat, found : BOOLEAN]
      BY <2>1, <2>6, <3>1
    <3>4. Reach(bgn, end)
      BY <1>0, <2>1 DEF Reach
    <3> QED BY <2>1, <2>5, <2>9, <3>2, <3>3, <3>4 DEF Searches
  <2>10. CASE g.ok /\ g.val = 0 /\ end - bgn + 1 # count
    <3>0. PICK e \in Nat : e = end + 1
      BY <2>1
    <3>1. r = [a EXCEPT !.s = g, !.bgn = bgn, !.end = e]
      BY <2>2, <2>10, <3>0 DEF Judge
    <3>2. \A c \in bgn .. end : Table(Seen(s))[c] = 0
      BY <2>1, <2>4, <2>10
    <3>3. r.s = g /\ r.bgn = bgn /\ r.end = e /\ r.found = FALSE
      BY <1>1, <1>3, <3>1
    <3>4. r \in [s : State, bgn : Nat, end : Nat, found : BOOLEAN]
      BY <1>1, <2>1, <2>6, <3>0, <3>1
    <3>5. Vacant(Table(Seen(s)), bgn, e - 1) /\ Reach(bgn, e)
      BY <1>0, <2>1, <3>0, <3>2 DEF Reach, Vacant
    <3> QED BY <2>5, <3>2, <3>3, <3>4, <3>5 DEF Searches
  <2> QED BY <2>7, <2>8, <2>9, <2>10
<1> QED BY <1>1, <1>2, <1>3

\* The search of allocContiguous() finds clusters that are free.
LEMMA SearchFacts ==
  ASSUME NEW s, Sound(s), NEW count \in Nat, NEW from \in 2 .. LastCluster + 1
  PROVE  Search(s, count, from) \in Searches(s, count)
<1> DEFINE a0 == [s |-> s, bgn |-> from, end |-> from, found |-> FALSE]
           S == [k \in Nat |-> Searches(s, count)]
           g == [k \in Nat |-> [a \in Searches(s, count) |-> SearchStep(a, count)]]
           turn == CHOOSE w : w = [n \in 0 .. ClusterCount |-> IF n = 0 THEN a0 ELSE SearchStep(w[n - 1], count)]
<1>1. Search(s, count, from) = turn[ClusterCount]
  BY DEF Search
<1>2. a0 \in S[0]
  <2>1. a0 \in [s : State, bgn : Nat, end : Nat, found : BOOLEAN]
    BY VolumeAssumption DEF Sound, LastCluster
  <2>2. Keeps(s, s)
    BY KeepsSame
  <2>3. from \in Int /\ a0.s = s /\ a0.bgn = from /\ a0.end = from /\ a0.found = FALSE
    OBVIOUS
  <2>4. Reach(from, from) /\ Vacant(Table(Seen(s)), from, from - 1)
    BY <2>3 DEF Reach, Vacant
  <2> QED BY <2>1, <2>2, <2>3, <2>4 DEF Searches
<1>3. \A k \in 1 .. ClusterCount : \A x \in S[k - 1] : g[k][x] \in S[k]
  BY SearchStepFacts
<1>y. Steps(ClusterCount, S, g)
  BY <1>3 DEF Steps
<1>x. \A k \in 1 .. ClusterCount : \A x \in S[k - 1] : g[k][x] = SearchStep(x, count)
  OBVIOUS
<1>4. ClusterCount \in Nat
  BY VolumeAssumption
<1> HIDE DEF a0, S, g
<1>5. PICK f : /\ f = [k \in 0 .. ClusterCount |-> IF k = 0 THEN a0 ELSE g[k][f[k - 1]]]
               /\ \A k \in 0 .. ClusterCount : f[k] \in S[k]
  <2>1. Stepped(ClusterCount, S, a0, g)
    BY <1>2, <1>y, <1>4, Recursion
  <2> QED BY <2>1 DEF Stepped
<1>6. f = [n \in 0 .. ClusterCount |-> IF n = 0 THEN a0 ELSE SearchStep(f[n - 1], count)]
  <2>1. \A k \in 0 .. ClusterCount : (IF k = 0 THEN a0 ELSE g[k][f[k - 1]]) = IF k = 0 THEN a0 ELSE SearchStep(f[k - 1], count)
    <3> SUFFICES ASSUME NEW k \in 1 .. ClusterCount PROVE g[k][f[k - 1]] = SearchStep(f[k - 1], count)
      OBVIOUS
    <3>1. f[k - 1] \in S[k - 1]
      <4>1. k - 1 \in 0 .. ClusterCount
        BY <1>4
      <4> QED BY <1>5, <4>1
    <3> QED BY <1>x, <3>1
  <2> QED BY <1>5, <2>1
<1>7. turn = [n \in 0 .. ClusterCount |-> IF n = 0 THEN a0 ELSE SearchStep(turn[n - 1], count)]
  BY <1>6
<1> HIDE DEF turn
<1>8. turn[0] \in Searches(s, count)
  BY <1>2, <1>4, <1>7 DEF S
<1>9. \A k \in 1 .. ClusterCount : turn[k - 1] \in Searches(s, count) => turn[k] \in Searches(s, count)
  <2> SUFFICES ASSUME NEW k \in 1 .. ClusterCount, turn[k - 1] \in Searches(s, count)
               PROVE  turn[k] \in Searches(s, count)
    OBVIOUS
  <2>1. turn[k] = SearchStep(turn[k - 1], count)
    BY <1>4, <1>7
  <2> QED BY <2>1, SearchStepFacts
<1>10. \A k \in 0 .. ClusterCount : k \in {j \in 0 .. ClusterCount : turn[j] \in Searches(s, count)}
  <2> DEFINE A == {j \in 0 .. ClusterCount : turn[j] \in Searches(s, count)}
  <2>1. 0 \in A /\ \A k \in 1 .. ClusterCount : k - 1 \in A => k \in A
    BY <1>4, <1>8, <1>9
  <2> HIDE DEF A
  <2>2. \A k \in 0 .. ClusterCount : k \in A
    BY <1>4, <2>1, UpTo
  <2> QED BY <2>2 DEF A
<1> QED BY <1>1, <1>4, <1>10

\* The table t with the entries from .. end made a chain.
Chained(t, from, end) ==
  [a \in 0 .. LastCluster |-> IF a \in from .. end - 1 THEN a + 1 ELSE IF a = end THEN EOC ELSE t[a]]

\* The states of the linking of free entries that started in b, down to from.
Links(b, from, end) ==
  {q \in State : /\ Alters(b, q, {})
                 /\ q.ok => Table(Seen(q)) = Chained(Table(Seen(b)), from, end)}

LEMMA LinkStep ==
  ASSUME NEW b, Sound(b), NEW from \in Clusters, NEW end \in Clusters, from < end,
         Table(Seen(b))[from] = 0, NEW q \in Links(b, from + 1, end)
  PROVE  FatPut(q, from, from + 1) \in Links(b, from, end)
<1> DEFINE r == FatPut(q, from, from + 1)
<1>1. Alters(b, q, {}) /\ (q.ok => Table(Seen(q)) = Chained(Table(Seen(b)), from + 1, end))
  BY DEF Links
<1>2. Sound(q)
  BY <1>1 DEF Alters
<1>3. PICK v \in 0 .. EOC : v = from + 1
  BY VolumeAssumption DEF Clusters, EOC, LastCluster
<1>4. r = FatPut(q, from, v)
  BY <1>3
<1>5. from \in 0 .. LastCluster /\ end \in 0 .. LastCluster
  BY DEF Clusters
<1> HIDE DEF r
<1>6. CASE ~q.ok
  <2>1. Keeps(q, r) /\ ~r.ok
    <3>1. ~r.ok => Keeps(q, r)
      BY <1>2, <1>4, FatPutLeads
    <3>2. r.ok => GoesOn(q, r)
      BY <1>2, <1>4, FatPutLeads DEF Leads
    <3> QED BY <1>6, <3>1, <3>2 DEF GoesOn
  <2>2. Alters(b, r, {})
    BY <1>1, <2>1, KeepsAlters, AltersTwice
  <2> QED BY <2>1, <2>2 DEF Links, Alters, Sound, r
<1>7. CASE q.ok
  <2>1. Table(Seen(q))[from] = 0
    BY <1>1, <1>5, <1>7 DEF Chained, Clusters
  <2>2. Alters(q, r, {}) /\ (r.ok => Table(Seen(r)) = [Table(Seen(q)) EXCEPT ![from] = v])
    BY <1>2, <1>4, <2>1, FatPutAlters
  <2>3. Alters(b, r, {})
    BY <1>1, <2>2, AltersTwice
  <2>4. [Chained(Table(Seen(b)), from + 1, end) EXCEPT ![from] = v] = Chained(Table(Seen(b)), from, end)
    <3> DEFINE x == Chained(Table(Seen(b)), from + 1, end)
               y == Chained(Table(Seen(b)), from, end)
    <3>1. /\ x = [a \in 0 .. LastCluster |-> x[a]] /\ y = [a \in 0 .. LastCluster |-> y[a]]
      BY DEF Chained
    <3>2. ASSUME NEW a \in 0 .. LastCluster PROVE y[a] = IF a = from THEN v ELSE x[a]
      BY <1>3, <1>5 DEF Chained, Clusters
    <3> HIDE DEF x, y
    <3>3. [x EXCEPT ![from] = v] = y
      BY <3>1, <3>2
    <3> QED BY <3>3 DEF x, y
  <2>5. r.ok => Table(Seen(r)) = Chained(Table(Seen(b)), from, end)
    BY <1>1, <1>7, <2>2, <2>4
  <2> QED BY <2>3, <2>5 DEF Links, Alters, Sound, r
<1> QED BY <1>6, <1>7

\* The clusters found become a chain.
LEMMA LinkFacts ==
  ASSUME NEW b, Sound(b), NEW bgn \in Clusters, NEW end \in Clusters, bgn <= end,
         Vacant(Table(Seen(b)), bgn, end), NEW s \in Links(b, end, end)
  PROVE  Link(s, bgn, end) \in Links(b, bgn, end)
<1> DEFINE n == end - bgn
           S == [k \in 0 .. n |-> Links(b, end - k, end)]
           g == [k \in 1 .. n |-> [q \in S[k - 1] |-> FatPut(q, end - k, end - k + 1)]]
           linked == CHOOSE w : w = [k \in 0 .. n |-> IF k = 0 THEN s ELSE FatPut(w[k - 1], end - k, end - k + 1)]
<1>1. Link(s, bgn, end) = linked[n]
  BY DEF Link
<1>2. n \in Nat /\ S[0] = Links(b, end, end) /\ S[n] = Links(b, bgn, end)
  BY DEF Clusters
<1>3. ASSUME NEW k \in 1 .. n, NEW q \in S[k - 1] PROVE FatPut(q, end - k, end - k + 1) \in S[k]
  <2>1. PICK from \in Clusters : from = end - k /\ from < end /\ from \in bgn .. end
    <3>1. LastCluster \in Nat
      BY VolumeAssumption DEF LastCluster
    <3>2. end - k \in Clusters /\ end - k < end /\ end - k \in bgn .. end
      BY <3>1 DEF Clusters
    <3> QED BY <3>2
  <2>2. Table(Seen(b))[from] = 0
    BY <2>1 DEF Vacant
  <2>3. S[k - 1] = Links(b, from + 1, end) /\ S[k] = Links(b, from, end)
    <3>1. end - (k - 1) = from + 1 /\ k - 1 \in 0 .. n /\ k \in 0 .. n
      BY <2>1 DEF Clusters
    <3> QED BY <2>1, <3>1
  <2> HIDE DEF S
  <2>4. FatPut(q, from, from + 1) \in Links(b, from, end)
    BY <2>1, <2>2, <2>3, LinkStep
  <2> QED BY <2>1, <2>3, <2>4
<1>4. Steps(n, S, g)
  <2> SUFFICES ASSUME NEW k \in 1 .. n, NEW q \in S[k - 1] PROVE g[k][q] \in S[k]
    BY DEF Steps
  <2> HIDE DEF S, n
  <2> QED BY <1>3
<1>5. \A k \in 1 .. n : \A q \in S[k - 1] : g[k][q] = FatPut(q, end - k, end - k + 1)
  <2> HIDE DEF S, n
  <2> QED OBVIOUS
<1>6. s \in S[0]
  BY <1>2
<1> HIDE DEF S, g, n
<1>7. PICK f : /\ f = [k \in 0 .. n |-> IF k = 0 THEN s ELSE g[k][f[k - 1]]]
               /\ \A k \in 0 .. n : f[k] \in S[k]
  <2>1. Stepped(n, S, s, g)
    BY <1>2, <1>4, <1>6, Recursion
  <2> QED BY <2>1 DEF Stepped
<1>8. f = [k \in 0 .. n |-> IF k = 0 THEN s ELSE FatPut(f[k - 1], end - k, end - k + 1)]
  <2>1. ASSUME NEW k \in 1 .. n PROVE g[k][f[k - 1]] = FatPut(f[k - 1], end - k, end - k + 1)
    <3>1. f[k - 1] \in S[k - 1]
      BY <1>2, <1>7
    <3> QED BY <1>5, <3>1
  <2>2. \A k \in 0 .. n : (IF k = 0 THEN s ELSE g[k][f[k - 1]])
                          = IF k = 0 THEN s ELSE FatPut(f[k - 1], end - k, end - k + 1)
    BY <2>1
  <2> QED BY <1>7, <2>2
<1>9. linked = [k \in 0 .. n |-> IF k = 0 THEN s ELSE FatPut(linked[k - 1], end - k, end - k + 1)]
  BY <1>8
<1> HIDE DEF linked
<1>10. \A k \in 0 .. n : k \in {j \in 0 .. n : linked[j] \in S[j]}
  <2> DEFINE A == {j \in 0 .. n : linked[j] \in S[j]}
  <2>1. 0 \in A
    BY <1>2, <1>6, <1>9
  <2>2. \A k \in 1 .. n : k - 1 \in A => k \in A
    <3> SUFFICES ASSUME NEW k \in 1 .. n, linked[k - 1] \in S[k - 1] PROVE linked[k] \in S[k]
      BY <1>2
    <3>1. linked[k] = FatPut(linked[k - 1], end - k, end - k + 1)
      BY <1>2, <1>9
    <3> QED BY <1>3, <3>1
  <2> HIDE DEF A
  <2>3. \A k \in 0 .. n : k \in A
    BY <1>2, <2>1, <2>2, UpTo
  <2> QED BY <2>3 DEF A
<1> QED BY <1>1, <1>2, <1>10

\* Results and the place of the next search are set.
LEMMA FieldsAlter ==
  ASSUME NEW s, Sound(s), NEW r \in State, SameCache(s, r), r.ok = s.ok, r.blown = s.blown,
         r.h = s.h, r.left = s.left, r.got = s.got,
         s.start \in Startable => r.start \in Startable, NEW D
  PROVE  Alters(s, r, D) /\ Seen(r) = Seen(s) /\ Main(r.card) = Main(s.card)
<1>1. /\ Sound(r) /\ Seen(r) = Seen(s) /\ Main(r.card) = Main(s.card)
      /\ (Twin(s) => Twin(r)) /\ (Stuck(r) => Stuck(s))
  BY SameSound
<1>2. GoesOn(s, r)
  BY <1>1 DEF GoesOn
<1>3. Within(Table(Seen(s)), Table(Seen(r)), D) /\ CardAlters(s, r, D)
  BY <1>1 DEF Within, CardAlters
<1> QED BY <1>1, <1>2, <1>3 DEF Alters

Restarted(s, v, p) == [s EXCEPT !.val = v, !.start = p]

\* v and p are what a call begins its search with.
MayRestart(s, v, p) ==
  Sound(s) /\ v \in Nat /\ p \in Nat /\ (s.start \in Startable => p \in Startable)

LEMMA StartOver ==
  ASSUME NEW s, NEW v, NEW p, MayRestart(s, v, p), NEW r, r = Restarted(s, v, p), NEW D
  PROVE  /\ Alters(s, r, D) /\ Seen(r) = Seen(s) /\ Main(r.card) = Main(s.card)
         /\ r.ok = s.ok /\ r.blown = s.blown /\ r.val = v /\ r.start = p /\ SameCache(s, r)
<1> USE DEF Restarted, MayRestart
<1> DEFINE x == [s EXCEPT !.val = v]
<1>1. x \in State
  BY DEF State, Sound
<1>2. r = [x EXCEPT !.start = p]
  BY DEF State, Sound
<1>3. r \in State
  <2> HIDE DEF x
  <2> QED BY <1>1, <1>2 DEF State
<1>4. /\ SameCache(s, r) /\ r.ok = s.ok /\ r.blown = s.blown
      /\ r.h = s.h /\ r.left = s.left /\ r.got = s.got /\ r.val = v /\ r.start = p
  BY DEF State, Sound, SameCache
<1> QED BY <1>3, <1>4, FieldsAlter

\* The table with the free entries bgn .. end made a chain behind cur.
Claimed(t, bgn, end, cur) ==
  IF cur = 0 THEN Chained(t, bgn, end) ELSE [Chained(t, bgn, end) EXCEPT ![cur] = bgn]

LEMMA CardAltersLast ==
  ASSUME NEW s, NEW q, NEW r, NEW D, Alters(s, q, D), Main(r.card) \in {Main(q.card), Seen(q)}
  PROVE  CardAlters(s, r, D)
BY DEF Alters, CardAlters

\* allocContiguous() appends free clusters to the chain, or changes no cluster in use.
LEMMA AllocFacts ==
  ASSUME NEW s, Sound(s), s.start \in Startable, NEW count \in Nat \ {0},
         NEW cur \in {0} \cup Clusters, cur # 0 => Table(Seen(s))[cur] # 0,
         NEW r, r = AllocContiguous(s, count, cur)
  PROVE  /\ Alters(s, r, {cur}) /\ CardAlters(s, r, {})
         /\ ~r.ok => Alters(s, r, {})
         /\ r.ok => \E end \in Clusters :
                      /\ r.val \in Clusters /\ r.val <= end /\ end - r.val + 1 = count
                      /\ Vacant(Table(Seen(s)), r.val, end)
                      /\ Table(Seen(r)) = Claimed(Table(Seen(s)), r.val, end, cur)
<1> DEFINE from == IF cur # 0 THEN cur + 1 ELSE s.start
           a == Search(s, count, from)
           t == Table(Seen(s))
<1>1. a \in Searches(s, count)
  <2>1. from \in 2 .. LastCluster + 1
    BY VolumeAssumption DEF Clusters, LastCluster, Startable
  <2> QED BY <2>1, SearchFacts
<1>2. r = Claim(a, count, cur)
  BY DEF AllocContiguous
<1> HIDE DEF a
<1>3. Keeps(s, a.s) /\ Sound(a.s) /\ Seen(a.s) = Seen(s)
  BY <1>1 DEF Searches, Keeps, Leads, Seen
<1>4. CASE ~a.s.ok \/ ~a.found
  <2>1. r = Fail(a.s)
    BY <1>2, <1>4 DEF Claim
  <2>2. Keeps(a.s, r) /\ ~r.ok
    BY <1>3, <2>1, FailKeeps
  <2>3. Keeps(s, r)
    BY <1>3, <2>2, KeepsTwice
  <2>4. Alters(s, r, {cur}) /\ Alters(s, r, {})
    BY <2>3, KeepsAlters
  <2> QED BY <2>2, <2>4 DEF Alters
<1>5. CASE a.s.ok /\ a.found
  <2> DEFINE bgn == a.bgn
             end == a.end
             p == FatPut(a.s, end, EOC)
             l == Link(p, bgn, end)
             m == LinkAfter(l, cur, bgn)
             start == IF cur = 0 /\ count = 1 THEN bgn + 1 ELSE m.start
  <2>1. bgn \in Clusters /\ end \in Clusters /\ bgn <= end /\ end - bgn + 1 = count /\ Vacant(t, bgn, end)
    <3>1. /\ bgn \in Nat /\ end \in Nat /\ 2 <= bgn /\ bgn <= end /\ end <= LastCluster
          /\ end - bgn + 1 = count /\ Vacant(t, bgn, end)
      BY <1>1, <1>5 DEF Searches, Reach
    <3>2. LastCluster \in Nat
      BY VolumeAssumption DEF LastCluster
    <3> HIDE DEF bgn, end, t
    <3> QED BY <3>1, <3>2 DEF Clusters
  <2>2. r = IF m.ok THEN [m EXCEPT !.val = bgn, !.start = start] ELSE m
    <3>1. r = IF m.ok THEN [m EXCEPT !.val = bgn, !.start = IF cur = 0 /\ count = 1 THEN bgn + 1 ELSE @] ELSE m
      BY <1>2, <1>5 DEF Claim, Then
    <3> QED BY <3>1
  <2> HIDE DEF bgn, end
  <2>3. t[end] = 0 /\ end \in 0 .. LastCluster /\ t \in Tables /\ EOC \in 0 .. EOC
    BY <2>1, TablesTyped, VolumeAssumption DEF Vacant, Clusters, EOC, LastCluster
  <2>4. p \in Links(s, end, end)
    <3>1. Alters(a.s, p, {}) /\ (p.ok => Table(Seen(p)) = [t EXCEPT ![end] = EOC])
      BY <1>3, <2>1, <2>3, FatPutAlters
    <3>2. Alters(s, a.s, {})
      BY <1>3, KeepsAlters
    <3>3. Alters(s, p, {})
      BY <3>1, <3>2, AltersTwice
    <3>4. [t EXCEPT ![end] = EOC] = Chained(t, end, end)
      <4>1. \A x \in 0 .. LastCluster : Chained(t, end, end)[x] = IF x = end THEN EOC ELSE t[x]
        BY <2>1, <2>3 DEF Chained, Clusters
      <4>2. Chained(t, end, end) = [x \in 0 .. LastCluster |-> Chained(t, end, end)[x]]
        BY DEF Chained
      <4> HIDE DEF t
      <4> QED BY <2>3, <4>1, <4>2 DEF Tables
    <3> QED BY <3>1, <3>3, <3>4 DEF Links, Alters, Sound
  <2> HIDE DEF p
  <2>5. l \in Links(s, bgn, end)
    BY <2>1, <2>4, LinkFacts
  <2> HIDE DEF l
  <2>6. Alters(s, l, {}) /\ (l.ok => Table(Seen(l)) = Chained(t, bgn, end)) /\ Sound(l)
    BY <2>5 DEF Links, Alters
  <2>7. /\ Alters(s, m, {cur}) /\ Main(m.card) \in {Main(l.card), Seen(l)}
        /\ ~m.ok => Alters(s, m, {})
        /\ m.ok => Table(Seen(m)) = Claimed(t, bgn, end, cur)
    <3>1. CASE cur = 0
      <4>1. m = l
        BY <3>1 DEF LinkAfter
      <4> QED BY <2>6, <3>1, <4>1, AltersMore DEF Claimed
    <3>2. CASE cur # 0
      <4>1. m = FatPut(l, cur, bgn) /\ cur \in Clusters /\ bgn \in 0 .. EOC
        BY <2>1, <3>2, VolumeAssumption DEF LinkAfter, Clusters, EOC, LastCluster
      <4> HIDE DEF m
      <4>2. /\ Alters(l, m, {cur}) /\ Main(m.card) \in {Main(l.card), Seen(l)}
            /\ m.ok => Table(Seen(m)) = [Table(Seen(l)) EXCEPT ![cur] = bgn]
            /\ ~m.ok => Keeps(l, m)
        BY <2>6, <4>1, FatPutAlters
      <4>3. Alters(s, l, {cur})
        BY <2>6, AltersMore
      <4>4. Alters(s, m, {cur})
        BY <4>2, <4>3, AltersTwice
      <4>5. ASSUME ~m.ok PROVE Alters(s, m, {})
        <5>1. Alters(l, m, {})
          BY <4>2, <4>5, KeepsAlters
        <5> QED BY <2>6, <5>1, AltersTwice
      <4>6. m.ok => l.ok
        BY <4>4, <4>2 DEF Alters, GoesOn
      <4> QED BY <2>6, <3>2, <4>2, <4>4, <4>5, <4>6 DEF Claimed
    <3> QED BY <3>1, <3>2
  <2>8. CardAlters(s, m, {})
    BY <2>6, <2>7, CardAltersLast
  <2>9. CASE ~m.ok
    BY <2>2, <2>7, <2>8, <2>9
  <2>10. CASE m.ok
    <3> HIDE DEF m
    <3>1. Sound(m) /\ m.start \in Startable
      BY <2>7 DEF Alters
    <3>2. bgn \in Nat /\ start \in Nat /\ start \in Startable
      BY <2>1, <3>1, VolumeAssumption DEF Clusters, LastCluster, Startable
    <3> HIDE DEF start
    <3>3. r = Restarted(m, bgn, start)
      BY <2>2, <2>10 DEF Restarted
    <3>4. /\ Alters(m, r, {cur}) /\ Seen(r) = Seen(m) /\ Main(r.card) = Main(m.card)
          /\ r.ok = m.ok /\ r.val = bgn
      <4>1. MayRestart(m, bgn, start) /\ r = Restarted(m, bgn, start)
        BY <3>1, <3>2, <3>3 DEF MayRestart
      <4>2. PICK last : last = {cur}
        OBVIOUS
      <4>3. /\ Alters(m, r, last) /\ Seen(r) = Seen(m) /\ Main(r.card) = Main(m.card)
            /\ r.ok = m.ok /\ r.val = bgn
        BY ONLY <4>1, StartOver
      <4> QED BY <4>2, <4>3
    <3>5. Alters(s, r, {cur})
      BY <2>7, <3>4, AltersTwice
    <3>6. CardAlters(s, r, {})
      BY <2>8, <3>4 DEF CardAlters
    <3> QED BY <2>1, <2>7, <2>10, <3>4, <3>5, <3>6
  <2> QED BY <2>9, <2>10
<1> QED BY <1>4, <1>5

-----------------------------------------------------------------------------
(* freeChain() *)

\* The table and the directory are as they were, and what the card holds is near them.
Rests(s, r) == Alters(s, r, {}) /\ Seen(r) = Seen(s)

LEMMA RestsTwice ==
  ASSUME NEW s, NEW r, NEW q, Rests(s, r), Rests(r, q)
  PROVE  Rests(s, q)
BY AltersTwice DEF Rests

LEMMA KeepsRests == ASSUME NEW s, NEW r, Keeps(s, r) PROVE Rests(s, r)
BY KeepsAlters DEF Rests

\* A cache that cannot be written back lets no entry be read.
LEMMA StuckGet ==
  ASSUME NEW s, Sound(s), Stuck(s), NEW c \in 0 .. LastCluster
  PROVE  ~FatGet(s, c).ok
<1>1. FatBlock(c) \in Blocks \ {0} /\ ~(c > LastCluster)
  <2>1. ~(c > LastCluster)
    BY VolumeAssumption DEF LastCluster
  <2> QED BY <2>1, Layout
<1>2. s.num # FatBlock(c) /\ s.dirty
  BY <1>1 DEF Stuck
<1>3. ~CacheFlush(s).ok
  <2> DEFINE w == WriteBlock(s, s.num, s.buf)
  <2>1. ~w.ok
    BY DEF WriteBlock, Fail, Stuck, Sound, State
  <2>2. ~WriteMirror(w).ok
    <3> HIDE DEF w
    <3> QED BY <2>1 DEF WriteMirror, WriteBlock
  <2> QED BY <1>2, <2>2 DEF CacheFlush, Then
<1>4. ~CacheRawBlock(s, FatBlock(c), FALSE).ok
  BY <1>2, <1>3 DEF CacheRawBlock, ReadBlock, Then
<1> QED BY <1>1, <1>4 DEF FatGet, Then

\* After an access to the table the cache is not stuck.
LEMMA ReadyAfterGet ==
  ASSUME NEW s, Sound(s), NEW c \in 0 .. LastCluster, FatGet(s, c).ok
  PROVE  ~Stuck(FatGet(s, c))
<1>1. FatGet(s, c).num = FatBlock(c)
  BY FatGetKeeps
<1> QED BY <1>1, Layout DEF Stuck

\* A call that has failed goes nowhere.
LEMMA FreeStepFailed ==
  ASSUME NEW s, Sound(s), ~s.ok
  PROVE  Keeps(s, FreeStep(s)) /\ ~FreeStep(s).ok
<1> DEFINE c == s.val
           g == FatGet(s, c)
           p == FatPut(g, c, 0)
<1>1. c \in Nat
  BY DEF Sound, State
<1>2. FreeStep(s) = IF c > LastCluster THEN s ELSE p
  BY DEF FreeStep, IsEOC
<1>3. CASE c > LastCluster
  BY <1>2, <1>3, KeepsSame
<1>4. CASE ~(c > LastCluster)
  <2>1. c \in 0 .. LastCluster
    BY <1>1, <1>4, VolumeAssumption DEF LastCluster
  <2> HIDE DEF c
  <2>2. Keeps(s, g)
    BY <2>1, FatGetKeeps
  <2>3. Sound(g) /\ ~g.ok
    BY <2>2 DEF Keeps, Leads, GoesOn
  <2> HIDE DEF g
  <2>4. CASE c \notin Clusters
    <3>1. p = Fail(g)
      BY <2>4 DEF FatPut
    <3>2. Keeps(g, p) /\ ~p.ok
      BY <2>3, <3>1, FailKeeps
    <3> QED BY <1>2, <1>4, <2>2, <3>2, KeepsTwice
  <2>5. CASE c \in Clusters
    <3> PICK v \in 0 .. EOC : v = 0
      BY VolumeAssumption DEF EOC, LastCluster
    <3>1. p = FatPut(g, c, v)
      OBVIOUS
    <3> HIDE DEF p
    <3>2. ~p.ok => Keeps(g, p)
      BY <2>3, <2>5, <3>1, FatPutLeads
    <3>3. p.ok => GoesOn(g, p)
      BY <2>3, <2>5, <3>1, FatPutLeads DEF Leads
    <3>4. Keeps(g, p) /\ ~p.ok
      BY <2>3, <3>2, <3>3 DEF GoesOn
    <3> QED BY <1>2, <1>4, <2>2, <3>4, KeepsTwice
  <2> QED BY <2>4, <2>5
<1> QED BY <1>3, <1>4

-----------------------------------------------------------------------------
\* The table with the first k clusters of the chain d freed.
Freed(t, d, k) == [a \in 0 .. LastCluster |-> IF \E i \in 1 .. Len(d) : i <= k /\ d[i] = a THEN 0 ELSE t[a]]
\* What follows the first k clusters of d.
After(d, k) == IF k < Len(d) THEN d[k + 1] ELSE EOC

\* The states of the freeing of d that started in s, after k steps.
Frees(s, d, k) ==
  {q \in State : /\ Alters(s, q, Ran(d)) /\ Certain(s, q)
                 /\ q.ok => q.val = After(d, k) /\ Table(Seen(q)) = Freed(Table(Seen(s)), d, k)
                 /\ Stuck(s) => Rests(s, q) /\ (k = 0 => Stuck(q)) /\ (k # 0 => ~q.ok)}

LEMMA FreeStepFacts ==
  ASSUME NEW s, Sound(s), NEW first, NEW d \in Seq(Clusters), d # <<>>,
         Linked(Table(Seen(s)), first, d), Once(d), NEW k \in Nat, NEW q \in Frees(s, d, k)
  PROVE  FreeStep(q) \in Frees(s, d, k + 1)
<1> DEFINE t == Table(Seen(s))
           r == FreeStep(q)
<1>0. Len(d) \in Nat /\ k + 1 # 0
  OBVIOUS
<1>1. /\ Alters(s, q, Ran(d)) /\ Certain(s, q) /\ Sound(q)
      /\ q.ok => q.val = After(d, k) /\ Table(Seen(q)) = Freed(t, d, k)
      /\ Stuck(s) => Rests(s, q) /\ (k = 0 => Stuck(q)) /\ (k # 0 => ~q.ok)
  BY DEF Frees, Alters
<1>2. CASE ~q.ok
  <2>1. Keeps(q, r) /\ ~r.ok
    BY <1>1, <1>2, FreeStepFailed
  <2> HIDE DEF r
  <2>2. Alters(s, r, Ran(d))
    BY <1>1, <2>1, KeepsAlters, AltersTwice
  <2>3. Certain(s, r)
    BY <1>1, <1>2, <2>1 DEF Certain, Keeps, Leads, GoesOn
  <2>4. Stuck(s) => Rests(s, r)
    BY <1>1, <2>1, KeepsRests, RestsTwice
  <2> QED BY <1>0, <2>1, <2>2, <2>3, <2>4 DEF Frees, Alters, Sound, r
<1>3. CASE q.ok /\ ~(k < Len(d))
  <2>1. q.val = EOC
    BY <1>1, <1>3 DEF After
  <2>2. r = q
    BY <2>1, VolumeAssumption DEF FreeStep, IsEOC, EOC, LastCluster
  <2>3. After(d, k + 1) = After(d, k)
    BY <1>0, <1>3 DEF After
  <2>4. Freed(t, d, k + 1) = Freed(t, d, k)
    BY <1>0, <1>3 DEF Freed
  <2>5. Stuck(s) => ~q.ok
    <3>1. k # 0
      BY <1>0, <1>3
    <3> QED BY <1>1, <3>1
  <2> QED BY <1>0, <1>1, <1>3, <2>2, <2>3, <2>4, <2>5 DEF Frees
<1>4. CASE q.ok /\ k < Len(d)
  <2> DEFINE c == q.val
             g == FatGet(q, c)
             p == FatPut(g, c, 0)
  <2>1. c = d[k + 1] /\ k + 1 \in 1 .. Len(d) /\ c \in Clusters /\ c \in Ran(d)
    <3>1. c = d[k + 1] /\ k + 1 \in 1 .. Len(d)
      BY <1>0, <1>1, <1>4 DEF After
    <3> QED BY <3>1 DEF Ran
  <2>2. c \in 0 .. LastCluster /\ ~(c > LastCluster)
    BY <2>1, VolumeAssumption DEF Clusters, LastCluster
  <2>3. r = p
    BY <2>2 DEF FreeStep, IsEOC
  <2>4. Table(Seen(q))[c] = After(d, k + 1)
    <3>1. t[c] = After(d, k + 1)
      BY <1>0, <2>1 DEF Linked, After
    <3>2. \A i \in 1 .. Len(d) : i <= k => d[i] # c
      BY <2>1 DEF Once
    <3>3. Freed(t, d, k)[c] = t[c]
      BY <2>2, <3>2 DEF Freed
    <3> QED BY <1>1, <1>4, <3>1, <3>3
  <2> HIDE DEF c, r
  <2>5. Keeps(q, g) /\ Certain(q, g) /\ (g.ok => g.val = After(d, k + 1))
    BY <1>1, <2>2, <2>4, FatGetKeeps
  <2>6. Stuck(q) => ~g.ok
    BY <1>1, <2>2, StuckGet
  <2> HIDE DEF g
  <2>7. Sound(g) /\ Seen(g) = Seen(q)
    BY <2>5, KeepsAlters DEF Alters
  <2>8. /\ Alters(g, p, Ran(d)) /\ Certain(g, p) /\ p.val = g.val
        /\ p.ok => Table(Seen(p)) = [Table(Seen(g)) EXCEPT ![c] = 0]
        /\ ~p.ok => Keeps(g, p)
    <3> PICK v \in 0 .. EOC : v = 0
      BY VolumeAssumption DEF EOC, LastCluster
    <3>1. p = FatPut(g, c, v)
      OBVIOUS
    <3> HIDE DEF p
    <3> QED BY <2>1, <2>7, <3>1, FatPutAlters
  <2> HIDE DEF p
  <2>9. Alters(s, p, Ran(d))
    BY <1>1, <2>5, <2>8, KeepsAlters, AltersTwice
  <2>10. p.ok => g.ok
    BY <2>8 DEF Alters, GoesOn
  <2>11. p.ok => Table(Seen(p)) = Freed(t, d, k + 1)
    <3> SUFFICES ASSUME p.ok PROVE [Freed(t, d, k) EXCEPT ![c] = 0] = Freed(t, d, k + 1)
      BY <1>1, <1>4, <2>7, <2>8
    <3>1. \A a \in 0 .. LastCluster : Freed(t, d, k + 1)[a] = IF a = c THEN 0 ELSE Freed(t, d, k)[a]
      <4> SUFFICES ASSUME NEW a \in 0 .. LastCluster
                   PROVE  Freed(t, d, k + 1)[a] = IF a = c THEN 0 ELSE Freed(t, d, k)[a]
        OBVIOUS
      <4>1. (\E i \in 1 .. Len(d) : i <= k + 1 /\ d[i] = a) <=> (a = c \/ \E i \in 1 .. Len(d) : i <= k /\ d[i] = a)
        BY <2>1
      <4> QED BY <4>1 DEF Freed
    <3>2. /\ Freed(t, d, k + 1) = [a \in 0 .. LastCluster |-> Freed(t, d, k + 1)[a]]
          /\ Freed(t, d, k) = [a \in 0 .. LastCluster |-> Freed(t, d, k)[a]]
      BY DEF Freed
    <3> QED BY <3>1, <3>2
  <2>12. Certain(s, p)
    <3>1. ~Stuck(s) => ~Stuck(q)
      BY <1>1 DEF Alters, GoesOn
    <3>2. ~Stuck(q) => ~Stuck(g)
      BY <2>5 DEF Keeps, Leads, GoesOn
    <3>3. g.blown => p.blown
      BY <2>8 DEF Alters, GoesOn
    <3>4. ~p.ok /\ ~g.ok => p.blown \/ ~g.blown
      BY <3>3
    <3> QED BY <1>4, <2>5, <2>8, <3>1, <3>2, <3>3 DEF Certain
  <2>13. Stuck(s) => Rests(s, p) /\ ~p.ok
    <3> SUFFICES ASSUME Stuck(s) PROVE Rests(s, p) /\ ~p.ok
      OBVIOUS
    <3>1. Rests(s, q) /\ Stuck(q)
      BY <1>1, <1>4
    <3>2. ~p.ok
      BY <2>6, <2>10, <3>1
    <3>3. Keeps(q, p)
      BY <2>5, <2>8, <3>2, KeepsTwice
    <3> QED BY <3>1, <3>2, <3>3, KeepsRests, RestsTwice
  <2> QED BY <1>0, <2>3, <2>5, <2>8, <2>9, <2>10, <2>11, <2>12, <2>13 DEF Frees, Alters, Sound, r
<1> QED BY <1>2, <1>3, <1>4

\* What is left of the table when a chain is freed.
Without(t, d) == [a \in 0 .. LastCluster |-> IF a \in Ran(d) THEN 0 ELSE t[a]]

\* freeChain() frees the clusters of the chain, one after the other; an interruption leaves the rest.
LEMMA FreeFacts ==
  ASSUME NEW s, Sound(s), NEW first \in Clusters, NEW d \in Seq(Clusters), d # <<>>,
         Linked(Table(Seen(s)), first, d), Once(d), Len(d) <= ClusterCount,
         NEW r, r = FreeChain(s, first)
  PROVE  /\ Alters(s, r, Ran(d)) /\ Certain(s, r)
         /\ r.ok => Table(Seen(r)) = Without(Table(Seen(s)), d)
         /\ Stuck(s) => Rests(s, r) /\ ~r.ok
<1> DEFINE t == Table(Seen(s))
           n == ClusterCount + 1
           a0 == [s EXCEPT !.start = 2, !.val = first]
           S == [k \in 0 .. n |-> Frees(s, d, k)]
           g == [k \in 1 .. n |-> [q \in S[k - 1] |-> FreeStep(q)]]
           freed == CHOOSE w : w = [k \in 0 .. n |-> IF k = 0 THEN a0 ELSE FreeStep(w[k - 1])]
<1>1. r = freed[n]
  BY DEF FreeChain
<1>2. n \in Nat /\ S[0] = Frees(s, d, 0) /\ S[n] = Frees(s, d, n) /\ Len(d) \in Nat /\ Len(d) < n
  BY VolumeAssumption
<1>3. a0 \in S[0]
  <2>1. a0 = Restarted(s, first, 2)
    BY DEF Restarted, Sound, State
  <2>0. PICK p : p = 2 /\ p \in Nat /\ p \in Startable
    BY VolumeAssumption DEF Startable, LastCluster
  <2>2. first \in Nat /\ a0 = Restarted(s, first, p)
    BY <2>0, <2>1 DEF Clusters
  <2> HIDE DEF a0, S
  <2>4. /\ Alters(s, a0, {}) /\ Seen(a0) = Seen(s)
        /\ a0.ok = s.ok /\ a0.blown = s.blown /\ a0.val = first /\ SameCache(s, a0)
    <3>1. PICK none, x : none = {} /\ x = a0
      OBVIOUS
    <3>2. MayRestart(s, first, p) /\ x = Restarted(s, first, p)
      BY <2>0, <2>2, <3>1 DEF MayRestart
    <3>3. /\ Alters(s, x, none) /\ Seen(x) = Seen(s)
          /\ x.ok = s.ok /\ x.blown = s.blown /\ x.val = first /\ SameCache(s, x)
      BY ONLY <3>2, StartOver
    <3> QED BY <3>1, <3>3
  <2>3. /\ Alters(s, a0, Ran(d)) /\ Seen(a0) = Seen(s)
        /\ a0.ok = s.ok /\ a0.blown = s.blown /\ a0.val = first /\ SameCache(s, a0)
    BY <2>4, AltersMore
  <2>5. a0.val = After(d, 0)
    <3>1. d[1] = first /\ 0 < Len(d)
      BY DEF Linked
    <3> QED BY <2>3, <3>1 DEF After
  <2>6. Table(Seen(a0)) = Freed(t, d, 0)
    <3>1. t \in Tables
      BY TablesTyped
    <3>2. t = [a \in 0 .. LastCluster |-> t[a]]
      BY <3>1 DEF Tables
    <3> HIDE DEF t
    <3>3. Freed(t, d, 0) = [a \in 0 .. LastCluster |-> t[a]]
      BY DEF Freed
    <3> QED BY <2>3, <3>2, <3>3 DEF t
  <2>7. Stuck(s) => Stuck(a0)
    BY <2>3 DEF SameCache, Stuck
  <2> QED BY <1>2, <2>3, <2>4, <2>5, <2>6, <2>7 DEF Frees, Alters, Sound, Certain, Rests
<1>4. ASSUME NEW k \in 1 .. n, NEW q \in S[k - 1] PROVE FreeStep(q) \in S[k]
  <2>1. k - 1 \in Nat /\ k - 1 \in 0 .. n /\ k \in 0 .. n /\ (k - 1) + 1 = k
    BY <1>2
  <2>2. q \in Frees(s, d, k - 1)
    BY <2>1
  <2>3. FreeStep(q) \in Frees(s, d, (k - 1) + 1)
    BY <2>1, <2>2, FreeStepFacts
  <2> QED BY <2>1, <2>3
<1>5. Steps(n, S, g)
  <2> SUFFICES ASSUME NEW k \in 1 .. n, NEW q \in S[k - 1] PROVE g[k][q] \in S[k]
    BY DEF Steps
  <2> HIDE DEF S, n
  <2> QED BY <1>4
<1>6. \A k \in 1 .. n : \A q \in S[k - 1] : g[k][q] = FreeStep(q)
  <2> HIDE DEF S, n
  <2> QED OBVIOUS
<1> HIDE DEF S, g, n, a0
<1>7. PICK f : /\ f = [k \in 0 .. n |-> IF k = 0 THEN a0 ELSE g[k][f[k - 1]]]
               /\ \A k \in 0 .. n : f[k] \in S[k]
  <2>1. Stepped(n, S, a0, g)
    BY <1>2, <1>3, <1>5, Recursion
  <2> QED BY <2>1 DEF Stepped
<1>8. f = [k \in 0 .. n |-> IF k = 0 THEN a0 ELSE FreeStep(f[k - 1])]
  <2>1. ASSUME NEW k \in 1 .. n PROVE g[k][f[k - 1]] = FreeStep(f[k - 1])
    <3>1. f[k - 1] \in S[k - 1]
      BY <1>2, <1>7
    <3> QED BY <1>6, <3>1
  <2>2. \A k \in 0 .. n : (IF k = 0 THEN a0 ELSE g[k][f[k - 1]]) = IF k = 0 THEN a0 ELSE FreeStep(f[k - 1])
    BY <2>1
  <2> QED BY <1>7, <2>2
<1>9. freed = [k \in 0 .. n |-> IF k = 0 THEN a0 ELSE FreeStep(freed[k - 1])]
  BY <1>8
<1> HIDE DEF freed
<1>10. \A k \in 0 .. n : k \in {j \in 0 .. n : freed[j] \in S[j]}
  <2> DEFINE A == {j \in 0 .. n : freed[j] \in S[j]}
  <2>1. 0 \in A
    BY <1>2, <1>3, <1>9
  <2>2. \A k \in 1 .. n : k - 1 \in A => k \in A
    <3> SUFFICES ASSUME NEW k \in 1 .. n, freed[k - 1] \in S[k - 1] PROVE freed[k] \in S[k]
      BY <1>2
    <3>1. freed[k] = FreeStep(freed[k - 1])
      BY <1>2, <1>9
    <3> QED BY <1>4, <3>1
  <2> HIDE DEF A
  <2>3. \A k \in 0 .. n : k \in A
    BY <1>2, <2>1, <2>2, UpTo
  <2> QED BY <2>3 DEF A
<1>11. r \in Frees(s, d, n)
  BY <1>1, <1>2, <1>10
<1>12. Freed(t, d, n) = Without(t, d)
  <2>1. \A a \in 0 .. LastCluster : (\E i \in 1 .. Len(d) : i <= n /\ d[i] = a) <=> a \in Ran(d)
    BY <1>2 DEF Ran
  <2> HIDE DEF t
  <2> QED BY <2>1 DEF Freed, Without
<1>13. n # 0
  BY <1>2
<1> QED BY <1>11, <1>12, <1>13 DEF Frees

-----------------------------------------------------------------------------
(* Chains that grow and shrink *)

\* A chain without repetition is as long as it has clusters, and no longer than the volume.
LEMMA ChainSize ==
  ASSUME NEW c \in Seq(Clusters), Once(c)
  PROVE  Cardinality(Ran(c)) = Len(c) /\ Len(c) <= ClusterCount
<1>1. Len(c) \in Nat /\ \A i \in 1 .. Len(c) : c[i] \in Clusters
  OBVIOUS
<1>2. ExistsBijection(1 .. Len(c), Ran(c))
  <2> DEFINE f == [i \in 1 .. Len(c) |-> c[i]]
  <2>1. f \in [1 .. Len(c) -> Ran(c)]
    BY DEF Ran
  <2>2. \A a \in Ran(c) : \E i \in 1 .. Len(c) : f[i] = a
    BY DEF Ran
  <2>3. \A i, j \in 1 .. Len(c) : f[i] = f[j] => i = j
    BY DEF Once
  <2> HIDE DEF f
  <2>4. f \in Bijection(1 .. Len(c), Ran(c))
    BY <2>1, <2>2, <2>3 DEF Bijection, Injection, Surjection, IsInjective
  <2> QED BY <2>4 DEF ExistsBijection
<1>3. Cardinality(Ran(c)) = Len(c)
  BY <1>1, <1>2, FS_CountingElements
<1>4. IsFiniteSet(Clusters) /\ Cardinality(Clusters) = ClusterCount
  <2>1. LastCluster \in Int /\ 2 \in Int /\ LastCluster >= 2 /\ LastCluster - 2 + 1 = ClusterCount
    BY VolumeAssumption DEF LastCluster
  <2>2. IsFiniteSet(2 .. LastCluster) /\ Cardinality(2 .. LastCluster) = LastCluster - 2 + 1
    BY <2>1, FS_Interval
  <2> QED BY <2>1, <2>2 DEF Clusters
<1>5. Ran(c) \in SUBSET Clusters
  BY <1>1 DEF Ran
<1>6. Cardinality(Ran(c)) <= Cardinality(Clusters)
  BY <1>4, <1>5, FS_Subset
<1> QED BY <1>3, <1>4, <1>6

\* The end of a chain.
Last0(c) == IF c = <<>> THEN 0 ELSE c[Len(c)]
\* A chain, and the clusters bgn .. end behind it.
Longer(c, bgn, end) ==
  [i \in 1 .. Len(c) + (end - bgn + 1) |-> IF i <= Len(c) THEN c[i] ELSE bgn + (i - Len(c) - 1)]

\* A chain to which free clusters were appended is a chain.
LEMMA LongerChain ==
  ASSUME NEW t \in Tables, NEW first, NEW c \in Seq(Clusters), Linked(t, first, c), Once(c),
         NEW bgn \in Clusters, NEW end \in Clusters, bgn <= end, Vacant(t, bgn, end),
         NEW u, u = Claimed(t, bgn, end, Last0(c)), NEW e, e = Longer(c, bgn, end)
  PROVE  /\ u \in Tables /\ e \in Seq(Clusters) /\ Len(e) = Len(c) + (end - bgn + 1)
         /\ Linked(u, IF c = <<>> THEN bgn ELSE first, e) /\ Once(e)
         /\ Within(t, u, Ran(c))
         /\ \A a \in Ran(e) : a \in Ran(c) \/ t[a] = 0
         /\ \A i \in 1 .. Len(c) : e[i] = c[i]
         /\ e[Len(c) + 1] = bgn
         /\ \A a \in Clusters : u[a] # 0 => a \in Ran(e) \/ (t[a] # 0 /\ a \notin Ran(c))
<1> DEFINE n == Len(c)
           k == end - bgn + 1
<1>1. /\ LastCluster \in Nat /\ EOC = LastCluster + 1 /\ n \in Nat /\ k \in Nat /\ k >= 1
      /\ bgn \in 2 .. LastCluster /\ end \in 2 .. LastCluster
  BY VolumeAssumption DEF LastCluster, EOC, Clusters
<1>2. \A i \in 1 .. n : c[i] \in 2 .. LastCluster /\ t[c[i]] # 0 /\ c[i] \notin bgn .. end
  <2>1. \A a \in Ran(c) : t[a] # 0 /\ a \in Clusters
    BY UsedInChain
  <2> QED BY <2>1 DEF Ran, Vacant, Clusters
<1>3. e \in Seq(Clusters) /\ Len(e) = n + k
  <2>1. \A i \in 1 .. n + k : (IF i <= n THEN c[i] ELSE bgn + (i - n - 1)) \in Clusters
    BY <1>1, <1>2 DEF Clusters
  <2>2. n + k \in Nat
    BY <1>1
  <2> QED BY <2>1, <2>2 DEF Longer
<1>4. \A i \in 1 .. n + k : e[i] = IF i <= n THEN c[i] ELSE bgn + (i - n - 1)
  BY DEF Longer
<1> HIDE DEF k
<1>5. \A i \in n + 1 .. n + k : e[i] = bgn + (i - n - 1) /\ e[i] \in bgn .. end
  BY <1>1, <1>4 DEF k
<1>6. \A a \in bgn .. end : \E i \in n + 1 .. n + k : e[i] = a
  <2> SUFFICES ASSUME NEW a \in bgn .. end PROVE \E i \in n + 1 .. n + k : e[i] = a
    OBVIOUS
  <2>1. a - bgn + n + 1 \in n + 1 .. n + k /\ bgn + ((a - bgn + n + 1) - n - 1) = a
    BY <1>1 DEF k
  <2> QED BY <1>5, <2>1
<1>7. \A a \in 0 .. LastCluster :
        u[a] = IF Last0(c) # 0 /\ a = Last0(c) THEN bgn
               ELSE IF a \in bgn .. end - 1 THEN a + 1 ELSE IF a = end THEN EOC ELSE t[a]
  <2>1. Last0(c) # 0 => Last0(c) \in 0 .. LastCluster
    BY <1>1, <1>2 DEF Last0
  <2> QED BY <2>1 DEF Claimed, Chained
<1>8. u \in Tables
  <2>1. \A a \in 0 .. LastCluster : u[a] \in 0 .. EOC
    <3>1. \A a \in 0 .. LastCluster : t[a] \in 0 .. EOC
      BY DEF Tables
    <3> QED BY <1>1, <1>7, <3>1
  <2>2. u = [a \in 0 .. LastCluster |-> u[a]]
    BY DEF Claimed, Chained
  <2> QED BY <2>1, <2>2 DEF Tables
<1>9. Last0(c) = IF n = 0 THEN 0 ELSE c[n]
  BY DEF Last0
<1>10. n # 0 => n \in 1 .. n /\ c[n] \in Ran(c) /\ c[n] # 0
  BY <1>1, <1>2 DEF Ran
<1>11. Once(e)
  <2> SUFFICES ASSUME NEW i \in 1 .. n + k, NEW j \in 1 .. n + k, e[i] = e[j] PROVE i = j
    BY <1>3 DEF Once
  <2>1. CASE i <= n /\ j <= n
    BY <1>4, <2>1 DEF Once
  <2>2. CASE i <= n /\ ~(j <= n)
    BY <1>1, <1>2, <1>4, <1>5, <2>2
  <2>3. CASE ~(i <= n) /\ j <= n
    BY <1>1, <1>2, <1>4, <1>5, <2>3
  <2>4. CASE ~(i <= n) /\ ~(j <= n)
    BY <1>1, <1>5, <2>4
  <2> QED BY <2>1, <2>2, <2>3, <2>4
<1>12. Linked(u, IF c = <<>> THEN bgn ELSE first, e)
  <2>1. (IF c = <<>> THEN bgn ELSE first) = e[1] /\ e # <<>>
    <3>1. CASE c = <<>>
      BY <1>1, <1>3, <1>5, <3>1
    <3>2. CASE c # <<>>
      BY <1>1, <1>3, <1>4, <3>2 DEF Linked
    <3> QED BY <3>1, <3>2
  <2>2. ASSUME NEW i \in 1 .. n + k PROVE u[e[i]] = IF i < n + k THEN e[i + 1] ELSE EOC
    <3>1. CASE i < n
      <4>1. e[i] = c[i] /\ e[i + 1] = c[i + 1] /\ c[i] # c[n]
        BY <1>1, <1>4, <3>1 DEF Once
      <4>2. t[c[i]] = c[i + 1]
        BY <1>1, <3>1 DEF Linked
      <4>3. c[i] \in 0 .. LastCluster /\ c[i] \notin bgn .. end
        BY <1>1, <1>2, <3>1
      <4> QED BY <1>1, <1>7, <1>9, <3>1, <4>1, <4>2, <4>3
    <3>2. CASE i = n
      <4>1. e[i] = c[n] /\ e[i + 1] = bgn /\ Last0(c) = c[n] /\ Last0(c) # 0 /\ c[n] \in 0 .. LastCluster
        BY <1>1, <1>2, <1>4, <1>5, <1>9, <1>10, <3>2
      <4> QED BY <1>1, <1>7, <3>2, <4>1
    <3>3. CASE i > n
      <4>1. e[i] = bgn + (i - n - 1) /\ e[i] \in bgn .. end /\ e[i] \in 0 .. LastCluster
        BY <1>1, <1>5, <3>3
      <4>2. e[i] # Last0(c) \/ Last0(c) = 0
        BY <1>2, <1>9, <1>10, <4>1
      <4>3. ASSUME i < n + k PROVE e[i + 1] = e[i] + 1 /\ e[i] \in bgn .. end - 1
        <5>1. i + 1 \in n + 1 .. n + k
          BY <1>1, <3>3, <4>3
        <5>2. e[i + 1] = bgn + ((i + 1) - n - 1) /\ e[i + 1] \in bgn .. end
          BY <1>5, <5>1
        <5> QED BY <1>1, <4>1, <5>2
      <4>4. ~(i < n + k) => e[i] = end
        BY <1>1, <1>5, <3>3 DEF k
      <4> QED BY <1>1, <1>7, <4>1, <4>2, <4>3, <4>4
    <3> QED BY <1>1, <3>1, <3>2, <3>3
  <2> QED BY <1>3, <2>1, <2>2 DEF Linked
<1>13. Within(t, u, Ran(c))
  <2>1. \A a \in bgn .. end : t[a] = 0
    BY DEF Vacant
  <2>2. \A a \in bgn .. end - 1 : a \in bgn .. end
    BY <1>1
  <2>3. end \in bgn .. end
    BY <1>1
  <2> QED BY <1>7, <1>9, <1>10, <2>1, <2>2, <2>3 DEF Within
<1>14. \A a \in Ran(e) : a \in Ran(c) \/ t[a] = 0
  BY <1>3, <1>4, <1>5 DEF Ran, Vacant
<1>15. ASSUME NEW a \in Clusters, u[a] # 0 PROVE a \in Ran(e) \/ (t[a] # 0 /\ a \notin Ran(c))
  <2>1. CASE a \in Ran(c)
    <3>1. a \in Ran(e)
      BY <1>1, <1>3, <1>4, <2>1 DEF Ran
    <3> QED BY <3>1
  <2>2. CASE a \in bgn .. end
    <3>1. a \in Ran(e)
      BY <1>1, <1>3, <1>6, <2>2 DEF Ran
    <3> QED BY <3>1
  <2>3. CASE a \notin Ran(c) /\ a \notin bgn .. end
    <3>1. u[a] = t[a]
      BY <1>7, <1>9, <1>10, <2>3 DEF Clusters
    <3> QED BY <1>15, <2>3, <3>1
  <2> QED BY <2>1, <2>2, <2>3
<1>16. /\ \A i \in 1 .. n : e[i] = c[i]
       /\ e[n + 1] = bgn
  BY <1>1, <1>4, <1>5
<1> QED BY <1>3, <1>8, <1>11, <1>12, <1>13, <1>14, <1>15, <1>16 DEF k

-----------------------------------------------------------------------------
(* The state of the volume inside a call on one file *)

\* The first n clusters of a chain, and the others.
Head1(c, n) == [i \in 1 .. n |-> c[i]]
Tail1(c, n) == [i \in 1 .. Len(c) - n |-> c[n + i]]

\* What follows a place of a chain is a chain.
LEMMA TailChain ==
  ASSUME NEW t, NEW first, NEW c \in Seq(Clusters), Linked(t, first, c), Once(c),
         NEW n \in 0 .. Len(c) - 1, NEW d, d = Tail1(c, n)
  PROVE  /\ d \in Seq(Clusters) /\ Len(d) = Len(c) - n /\ d # <<>>
         /\ Linked(t, c[n + 1], d) /\ Once(d) /\ Ran(d) \subseteq Ran(c)
         /\ \A i \in 1 .. n : c[i] \notin Ran(d)
         /\ \A a \in Ran(c) : a \in Ran(d) \/ a \in Ran(Head1(c, n))
<1>1. Len(c) \in Nat /\ Len(c) - n \in Nat /\ Len(c) - n >= 1 /\ n \in Nat
  OBVIOUS
<1>2. d \in Seq(Clusters) /\ Len(d) = Len(c) - n /\ \A i \in 1 .. Len(c) - n : d[i] = c[n + i] /\ n + i \in 1 .. Len(c)
  <2>1. \A i \in 1 .. Len(c) - n : n + i \in 1 .. Len(c) /\ c[n + i] \in Clusters
    BY <1>1
  <2> QED BY <1>1, <2>1 DEF Tail1
<1>3. Linked(t, c[n + 1], d)
  <2>1. d # <<>> /\ d[1] = c[n + 1]
    BY <1>1, <1>2
  <2>2. ASSUME NEW i \in 1 .. Len(d) PROVE t[d[i]] = IF i < Len(d) THEN d[i + 1] ELSE EOC
    <3>1. n + i \in 1 .. Len(c) /\ d[i] = c[n + i] /\ (i < Len(d) => n + i < Len(c) /\ d[i + 1] = c[(n + i) + 1])
      BY <1>1, <1>2
    <3>2. ~(i < Len(d)) => ~(n + i < Len(c))
      BY <1>1, <1>2
    <3> QED BY <3>1, <3>2 DEF Linked
  <2> QED BY <2>1, <2>2 DEF Linked
<1>4. Once(d)
  <2> SUFFICES ASSUME NEW i \in 1 .. Len(d), NEW j \in 1 .. Len(d), d[i] = d[j] PROVE i = j
    BY DEF Once
  <2>1. n + i = n + j
    BY <1>2 DEF Once
  <2> QED BY <1>1, <2>1
<1>5. Ran(d) \subseteq Ran(c)
  BY <1>2 DEF Ran
<1>6. ASSUME NEW i \in 1 .. n PROVE c[i] \notin Ran(d)
  <2> SUFFICES ASSUME NEW j \in 1 .. Len(d), c[i] = d[j] PROVE FALSE
    BY DEF Ran
  <2>1. i = n + j
    BY <1>1, <1>2 DEF Once
  <2> QED BY <1>1, <2>1
<1>7. ASSUME NEW j \in 1 .. Len(c) PROVE c[j] \in Ran(d) \/ c[j] \in Ran(Head1(c, n))
  <2>1. CASE j <= n
    <3>1. Len(Head1(c, n)) = n /\ Head1(c, n)[j] = c[j] /\ j \in 1 .. n
      BY <1>1, <2>1 DEF Head1
    <3> QED BY <3>1 DEF Ran
  <2>2. CASE ~(j <= n)
    <3>1. j - n \in 1 .. Len(d) /\ d[j - n] = c[j]
      BY <1>1, <1>2, <2>2
    <3> QED BY <3>1 DEF Ran
  <2> QED BY <2>1, <2>2
<1>8. \A a \in Ran(c) : a \in Ran(d) \/ a \in Ran(Head1(c, n))
  <2> DEFINE A == Ran(d) \cup Ran(Head1(c, n))
  <2>1. \A j \in 1 .. Len(c) : c[j] \in A
    BY <1>7
  <2> HIDE DEF A
  <2>2. \A a \in Ran(c) : a \in A
    BY <2>1 DEF Ran
  <2> QED BY <2>2 DEF A
<1>9. d # <<>>
  BY <1>1, <1>2
<1> QED BY <1>2, <1>3, <1>4, <1>5, <1>6, <1>8, <1>9

\* A chain cut behind its cluster n, the rest freed.
Cut1(t, c, n) == [Without(t, Tail1(c, n)) EXCEPT ![c[n]] = EOC]

\* What precedes a place of a chain, ended there, is a chain.
LEMMA HeadChain ==
  ASSUME NEW t \in Tables, NEW first, NEW c \in Seq(Clusters), Linked(t, first, c), Once(c),
         NEW n \in 1 .. Len(c) - 1, NEW u, u = Cut1(t, c, n), NEW e, e = Head1(c, n)
  PROVE  /\ u \in Tables /\ e \in Seq(Clusters) /\ Len(e) = n /\ e # <<>>
         /\ Linked(u, first, e) /\ Once(e) /\ Within(t, u, Ran(c)) /\ Ran(e) \subseteq Ran(c)
         /\ \A i \in 1 .. n : e[i] = c[i]
         /\ \A a \in Clusters : u[a] # 0 => a \in Ran(e) \/ (t[a] # 0 /\ a \notin Ran(c))
<1> DEFINE d == Tail1(c, n)
<1>1. /\ LastCluster \in Nat /\ EOC = LastCluster + 1 /\ n \in Nat /\ Len(c) \in Nat
      /\ n \in 0 .. Len(c) - 1 /\ n \in 1 .. Len(c)
  BY VolumeAssumption DEF LastCluster, EOC
<1>2. \A i \in 1 .. Len(c) : c[i] \in Clusters /\ c[i] \in 0 .. LastCluster /\ c[i] \in Ran(c)
  <2>1. \A i \in 1 .. Len(c) : c[i] \in Clusters
    OBVIOUS
  <2>2. \A a \in Clusters : a \in 0 .. LastCluster
    BY DEF Clusters
  <2>3. \A i \in 1 .. Len(c) : c[i] \in Ran(c)
    BY DEF Ran
  <2> QED BY <2>1, <2>2, <2>3
<1>3. /\ Ran(d) \subseteq Ran(c) /\ \A i \in 1 .. n : c[i] \notin Ran(d)
      /\ \A a \in Ran(c) : a \in Ran(d) \/ a \in Ran(e)
  BY <1>1, TailChain
<1> HIDE DEF d
<1>4. /\ u = [a \in 0 .. LastCluster |-> u[a]]
      /\ \A a \in 0 .. LastCluster : u[a] = IF a = c[n] THEN EOC ELSE IF a \in Ran(d) THEN 0 ELSE t[a]
  BY <1>1, <1>2 DEF Cut1, Without, d
<1>5. u \in Tables
  <2>1. \A a \in 0 .. LastCluster : u[a] \in 0 .. EOC
    <3>1. \A a \in 0 .. LastCluster : t[a] \in 0 .. EOC
      BY DEF Tables
    <3> QED BY <1>1, <1>4, <3>1
  <2> QED BY <1>4, <2>1 DEF Tables
<1>6. e \in Seq(Clusters) /\ Len(e) = n /\ e # <<>> /\ \A i \in 1 .. n : e[i] = c[i] /\ i \in 1 .. Len(c)
  <2>1. \A i \in 1 .. n : c[i] \in Clusters /\ i \in 1 .. Len(c)
    BY <1>1, <1>2
  <2>2. e \in Seq(Clusters) /\ Len(e) = n /\ \A i \in 1 .. n : e[i] = c[i]
    BY <1>1, <2>1 DEF Head1
  <2>3. e # <<>>
    BY <2>2
  <2> QED BY <2>1, <2>2, <2>3
<1>7. Once(e) /\ Ran(e) \subseteq Ran(c)
  BY <1>6 DEF Once, Ran
<1>8. Linked(u, first, e)
  <2>1. first = e[1]
    BY <1>1, <1>6 DEF Linked
  <2>2. ASSUME NEW i \in 1 .. n PROVE u[e[i]] = IF i < n THEN e[i + 1] ELSE EOC
    <3>1. e[i] = c[i] /\ c[i] \notin Ran(d) /\ c[i] \in 0 .. LastCluster /\ i \in 1 .. Len(c)
      BY <1>2, <1>3, <1>6
    <3>2. CASE i = n
      BY <1>4, <3>1, <3>2
    <3>3. CASE i < n
      <4>1. c[i] # c[n]
        BY <1>1, <3>1, <3>3 DEF Once
      <4>2. t[c[i]] = c[i + 1] /\ e[i + 1] = c[i + 1]
        BY <1>1, <1>6, <3>1, <3>3 DEF Linked
      <4> QED BY <1>4, <3>1, <3>3, <4>1, <4>2
    <3> QED BY <3>2, <3>3
  <2> QED BY <1>6, <2>1, <2>2 DEF Linked
<1>9. Within(t, u, Ran(c))
  BY <1>1, <1>2, <1>3, <1>4 DEF Within
<1>10. ASSUME NEW a \in Clusters, u[a] # 0 PROVE a \in Ran(e) \/ (t[a] # 0 /\ a \notin Ran(c))
  <2>1. a \in 0 .. LastCluster
    BY DEF Clusters
  <2>2. CASE a = c[n]
    <3>1. e[n] = a /\ n \in 1 .. Len(e)
      BY <1>1, <1>6, <2>2
    <3> QED BY <3>1 DEF Ran
  <2>3. CASE a # c[n]
    <3>1. a \notin Ran(d) /\ u[a] = t[a]
      BY <1>4, <1>10, <2>1, <2>3
    <3> QED BY <1>3, <1>10, <3>1
  <2> QED BY <2>2, <2>3
<1> QED BY <1>5, <1>6, <1>7, <1>8, <1>9, <1>10

\* The whole chain freed.
LEMMA NoChain ==
  ASSUME NEW t \in Tables, NEW c \in Seq(Clusters), NEW u, u = Without(t, c)
  PROVE  /\ u \in Tables /\ Linked(u, 0, <<>>) /\ Within(t, u, Ran(c))
         /\ \A a \in Clusters : u[a] # 0 => t[a] # 0 /\ a \notin Ran(c)
<1>1. /\ u = [a \in 0 .. LastCluster |-> u[a]]
      /\ \A a \in 0 .. LastCluster : u[a] = IF a \in Ran(c) THEN 0 ELSE t[a]
  BY DEF Without
<1>2. 0 \in 0 .. EOC
  BY VolumeAssumption DEF EOC, LastCluster
<1>3. \A a \in 0 .. LastCluster : u[a] \in 0 .. EOC
  BY <1>1, <1>2 DEF Tables
<1>4. u \in Tables
  BY <1>1, <1>3 DEF Tables
<1>5. Clusters \subseteq 0 .. LastCluster
  BY DEF Clusters
<1> QED BY <1>1, <1>4, <1>5 DEF Linked, Within

Contexts == [f : Names, file : [Names -> Handles], live : SUBSET Names, long : SUBSET Names,
             exact : SUBSET Names, full : BOOLEAN, twin : BOOLEAN]

AllClosed == [g \in Names |-> Closed]

\* The open handles during a call on f, whose handle is h.
Among(x, h) == [x.file EXCEPT ![x.f] = h]

\* When the call has failed less is said of its file.
Trusted(s, x) == IF s.ok THEN x.exact ELSE x.exact \ {x.f}

Sight(s, x) == \E ch : Live(Table(Seen(s)), Root(Seen(s)), Among(x, s.h), ch,
                            x.live, x.long, Trusted(s, x), x.full /\ s.ok)
Stored(s, x) == \E ch : Live(Table(Main(s.card)), Root(Main(s.card)), AllClosed, ch,
                             x.live, x.long, {}, FALSE)
\* The entries on the card are not ahead of those seen.
Lags(s, x) == \A g \in x.live : EntryIn(Root(Main(s.card)), g).size <= EntryIn(Root(Seen(s)), g).size

\* A state of a call.
Inside(s, x) ==
  /\ x \in Contexts /\ Sound(s) /\ s.start \in Startable
  /\ HandleOk(x.f, s.h) /\ (\A g \in Names : HandleOk(g, x.file[g]))
  /\ (x.full => x.f \in x.live) /\ x.exact \subseteq x.long
  /\ Sight(s, x) /\ Stored(s, x) /\ Lags(s, x)
  /\ x.twin => Twin(s)

\* The directory and the table stay as they are.
Serves(s, r) ==
  /\ Sound(r) /\ (Twin(s) => Twin(r)) /\ (r.ok => s.ok) /\ (s.blown => r.blown)
  /\ s.start \in Startable => r.start \in Startable
  /\ Root(Seen(r)) = Root(Seen(s)) /\ Table(Seen(r)) = Table(Seen(s)) /\ CardAlters(s, r, {})

LEMMA ServesTwice == ASSUME NEW s, NEW r, NEW q, Serves(s, r), Serves(r, q) PROVE Serves(s, q)
<1>1. CardAlters(s, q, {})
  BY DEF Serves, CardAlters
<1> QED BY <1>1 DEF Serves

LEMMA RestsServes == ASSUME NEW s, NEW r, Rests(s, r) PROVE Serves(s, r)
BY DEF Rests, Alters, GoesOn, Serves

LEMMA KeepsServes == ASSUME NEW s, NEW r, Keeps(s, r) PROVE Serves(s, r)
BY KeepsRests, RestsServes

LEMMA SameServes ==
  ASSUME NEW s, Sound(s), NEW r \in State, SameCache(s, r), r.ok => s.ok, s.blown => r.blown, r.start = s.start
  PROVE  Serves(s, r) /\ Seen(r) = Seen(s)
<1>1. /\ Sound(r) /\ Seen(r) = Seen(s) /\ Main(r.card) = Main(s.card) /\ (Twin(s) => Twin(r))
  BY SameSound
<1> QED BY <1>1 DEF Serves, CardAlters

\* The handle is changed, ...
Holding(s, h) == [s EXCEPT !.h = h]

LEMMA HoldingServes ==
  ASSUME NEW s, Sound(s), NEW h \in Handles, NEW r, r = Holding(s, h)
  PROVE  /\ Serves(s, r) /\ Seen(r) = Seen(s) /\ SameCache(s, r)
         /\ r.h = h /\ r.ok = s.ok /\ r.blown = s.blown /\ r.val = s.val /\ r.start = s.start
         /\ r.left = s.left /\ r.got = s.got
<1>1. /\ r \in State /\ SameCache(s, r)
      /\ r.h = h /\ r.ok = s.ok /\ r.blown = s.blown /\ r.val = s.val /\ r.start = s.start
      /\ r.left = s.left /\ r.got = s.got
  BY DEF Holding, SameCache, State, Sound, Handles
<1> QED BY <1>1, SameServes

\* ... or what is left of the call.
Leaving(s, n) == [s EXCEPT !.left = n]

LEMMA LeavingServes ==
  ASSUME NEW s, Sound(s), NEW n \in Int, NEW r, r = Leaving(s, n)
  PROVE  /\ Serves(s, r) /\ Seen(r) = Seen(s) /\ SameCache(s, r)
         /\ r.h = s.h /\ r.ok = s.ok /\ r.blown = s.blown /\ r.val = s.val /\ r.start = s.start
         /\ r.left = n /\ r.got = s.got
<1>1. /\ r \in State /\ SameCache(s, r)
      /\ r.h = s.h /\ r.ok = s.ok /\ r.blown = s.blown /\ r.val = s.val /\ r.start = s.start
      /\ r.left = n /\ r.got = s.got
  BY DEF Leaving, SameCache, State, Sound
<1> QED BY <1>1, SameServes

\* A file as it is seen when its handle is closed.
ShutChain(root, f, h, c) == IF h.open /\ EntryIn(root, f).first = 0 THEN <<>> ELSE c

LEMMA FileShut ==
  ASSUME NEW t, NEW root, RootOk(root), NEW f \in Names, NEW h, HandleOk(f, h), NEW c \in Seq(Clusters),
         NEW long, NEW exact, NEW full, FileOk(t, root, f, h, c, long, exact, full),
         NEW e, e = ShutChain(root, f, h, c), NEW ex, NEW fu,
         fu => full /\ (h.open => ~h.dirty /\ (h.size = 0 => h.cur = 0))
  PROVE  /\ e \in Seq(Clusters) /\ Ran(e) \subseteq Ran(c) /\ (e = c \/ e = <<>>)
         /\ FileOk(t, root, f, Closed, e, long, ex, fu)
         /\ h.open /\ ~h.dirty => e = c
<1>0. ~Closed.open
  BY DEF Closed
<1>1. CASE ~h.open
  <2>1. e = c
    BY <1>1 DEF ShutChain
  <2> QED BY <1>0, <1>1, <2>1 DEF FileOk, FirstIn, SizeIn
<1>2. CASE h.open
  <2> DEFINE d == EntryIn(root, f)
  <2>1. h.slot \in SlotNumbers /\ h.name = f /\ h.size \in Nat /\ h.first \in {0} \cup Clusters
    BY <1>2 DEF HandleOk, Handle
  <2>2. Entered(h, root[h.slot]) /\ root[h.slot].name = f
    BY <1>2, <2>1 DEF FileOk, Entered
  <2>3. d = root[h.slot] /\ d.size \in 0 .. MaxSize
    BY <2>1, <2>2, EntryFacts
  <2>4. /\ d.first \in {0, h.first} /\ d.size <= h.size /\ (d.first = 0 => d.size = 0)
        /\ ~h.dirty => d.first = h.first /\ d.size = h.size
    BY <2>2, <2>3 DEF Entered
  <2> HIDE DEF d
  <2>5. /\ Linked(t, h.first, c) /\ (h.size > 0 => c # <<>>)
        /\ long => h.size <= Len(c) * ClusterUnits
        /\ full /\ h.size = 0 /\ h.cur = 0 => c = <<>>
    BY <1>2 DEF FileOk, FirstIn, SizeIn
  <2>6. d.first = FirstIn(root, f, Closed) /\ d.size = SizeIn(root, f, Closed)
    BY <1>0 DEF FirstIn, SizeIn, d
  <2>7. h.first = 0 <=> c = <<>>
    <3>1. c # <<>> => c[1] \in Clusters
      OBVIOUS
    <3>2. 0 \notin Clusters
      BY DEF Clusters
    <3> QED BY <2>5, <3>1, <3>2 DEF Linked
  <2>8. CASE d.first = 0
    <3>1. e = <<>> /\ d.size = 0
      BY <1>2, <2>4, <2>8 DEF ShutChain, d
    <3>2. Linked(t, 0, <<>>) /\ Ran(<<>>) = {} /\ <<>> \in Seq(Clusters)
      BY DEF Linked, Ran
    <3>3. Len(<<>>) * ClusterUnits = 0
      BY VolumeAssumption DEF ClusterUnits
    <3>4. FileOk(t, root, f, Closed, e, long, ex, fu)
      BY <1>0, <2>6, <2>8, <3>1, <3>2, <3>3 DEF FileOk
    <3>6. ~h.dirty => e = c
      BY <2>4, <2>7, <2>8, <3>1
    <3> QED BY <3>1, <3>2, <3>4, <3>6
  <2>9. CASE d.first # 0
    <3>1. e = c /\ d.first = h.first
      BY <2>4, <2>9 DEF ShutChain, d
    <3>2. c # <<>>
      BY <2>7, <2>9, <3>1
    <3>3. long => d.size <= Len(c) * ClusterUnits
      <4>1. Len(c) * ClusterUnits \in Int
        BY VolumeAssumption DEF ClusterUnits
      <4> QED BY <2>1, <2>3, <2>4, <2>5, <4>1
    <3>4. FileOk(t, root, f, Closed, e, long, ex, fu)
      BY <1>0, <1>2, <2>4, <2>5, <2>6, <3>1, <3>2, <3>3 DEF FileOk
    <3> QED BY <3>1, <3>4
  <2> QED BY <2>8, <2>9
<1> QED BY <1>1, <1>2

\* The files as they are seen when all handles are closed.
LEMMA Shut ==
  ASSUME NEW t, NEW root, NEW fl, NEW ch, NEW live, NEW long, NEW exact, NEW full,
         Live(t, root, fl, ch, live, long, exact, full), live \subseteq Names,
         \A g \in live : HandleOk(g, fl[g])
  PROVE  \E dh : /\ Live(t, root, AllClosed, dh, live, long, {}, FALSE)
                 /\ \A g \in live : Ran(dh[g]) \subseteq Ran(ch[g])
<1> DEFINE dh == [g \in live |-> ShutChain(root, g, fl[g], ch[g])]
<1>1. \A g \in live : /\ dh[g] \in Seq(Clusters) /\ Ran(dh[g]) \subseteq Ran(ch[g])
                      /\ (dh[g] = ch[g] \/ dh[g] = <<>>)
                      /\ FileOk(t, root, g, Closed, dh[g], g \in long, g \in {}, FALSE)
  <2> SUFFICES ASSUME NEW g \in live
               PROVE  /\ dh[g] \in Seq(Clusters) /\ Ran(dh[g]) \subseteq Ran(ch[g])
                      /\ (dh[g] = ch[g] \/ dh[g] = <<>>)
                      /\ FileOk(t, root, g, Closed, dh[g], g \in long, g \in {}, FALSE)
    OBVIOUS
  <2>1. RootOk(root) /\ ch[g] \in Seq(Clusters) /\ g \in Names
        /\ FileOk(t, root, g, fl[g], ch[g], g \in long, g \in exact, full)
    BY DEF Live
  <2>2. dh[g] = ShutChain(root, g, fl[g], ch[g])
    OBVIOUS
  <2> HIDE DEF dh
  <2>3. PICK lg, eg, e, c, h, xg, fu : /\ lg = (g \in long) /\ eg = (g \in exact) /\ e = dh[g] /\ c = ch[g]
                                   /\ h = fl[g] /\ xg = (g \in {}) /\ fu = FALSE
    OBVIOUS
  <2>4. /\ e \in Seq(Clusters) /\ Ran(e) \subseteq Ran(c) /\ (e = c \/ e = <<>>)
        /\ FileOk(t, root, g, Closed, e, lg, xg, fu)
    <3>1. HandleOk(g, h) /\ FileOk(t, root, g, h, c, lg, eg, full) /\ c \in Seq(Clusters) /\ RootOk(root)
      BY <2>1, <2>3
    <3>2. e = ShutChain(root, g, h, c) /\ g \in Names
      BY <2>1, <2>2, <2>3
    <3>3. fu => full /\ (h.open => ~h.dirty /\ (h.size = 0 => h.cur = 0))
      BY <2>3
    <3> QED BY ONLY <3>1, <3>2, <3>3, FileShut
  <2> QED BY <2>3, <2>4
<1>2. dh \in [live -> Seq(Clusters)]
  BY <1>1
<1> HIDE DEF dh
<1>3. Disjoint(live, dh)
  <2> SUFFICES ASSUME NEW g1 \in live, NEW g2 \in live, NEW i \in 1 .. Len(dh[g1]), NEW j \in 1 .. Len(dh[g2]),
                      dh[g1][i] = dh[g2][j]
               PROVE  g1 = g2 /\ i = j
    BY DEF Disjoint
  <2>0. Len(<<>>) = 0
    OBVIOUS
  <2>1. dh[g1] = ch[g1] /\ dh[g2] = ch[g2]
    <3>1. dh[g1] # <<>> /\ dh[g2] # <<>>
      BY <2>0
    <3> QED BY <1>1, <3>1
  <2> QED BY <2>1 DEF Live, Disjoint
<1>4. AllClosed \in [Names -> Handles] /\ \A g \in live : AllClosed[g] = Closed
  BY DEF AllClosed, Handles
<1>5. Live(t, root, AllClosed, dh, live, long, {}, FALSE)
  BY <1>1, <1>2, <1>3, <1>4 DEF Live
<1> QED BY <1>1, <1>5

\* Where free entries of the table alone change nothing changes for the files.
LEMMA LiveFree ==
  ASSUME NEW t, NEW root, NEW fl, NEW ch, NEW live, NEW long, NEW exact, NEW full,
         Live(t, root, fl, ch, live, long, exact, full), NEW u \in Tables, Within(t, u, {})
  PROVE  Live(u, root, fl, ch, live, long, exact, FALSE)
<1>1. ASSUME NEW g \in live PROVE FileOk(u, root, g, fl[g], ch[g], g \in long, g \in exact, FALSE)
  <2>1. ch[g] \in Seq(Clusters) /\ FileOk(t, root, g, fl[g], ch[g], g \in long, g \in exact, full)
    BY DEF Live
  <2>2. \A a \in Ran(ch[g]) : t[a] # 0 /\ a \in Clusters
    BY <2>1, UsedInChain DEF FileOk
  <2>3. Clusters \subseteq 0 .. LastCluster
    BY DEF Clusters
  <2>4. \A a \in Ran(ch[g]) : u[a] = t[a]
    BY <2>2, <2>3 DEF Within
  <2>5. FileOk(u, root, g, fl[g], ch[g], g \in long, g \in exact, full)
    BY <2>1, <2>4, FileKept
  <2> QED BY <2>5 DEF FileOk
<1> QED BY <1>1 DEF Live

\* The file of the call, with its chain.
OfFile(s, x, c) ==
  /\ c \in Seq(Clusters) /\ Once(c)
  /\ FileOk(Table(Seen(s)), Root(Seen(s)), x.f, s.h, c, x.f \in x.long, x.f \in Trusted(s, x), x.full /\ s.ok)

\* Another handle of one file.
LEMMA LiveHandle ==
  ASSUME NEW t, NEW root, NEW fl, NEW ch, NEW live, NEW long, NEW exact, NEW full,
         Live(t, root, fl, ch, live, long, exact, full),
         NEW f \in Names, NEW h \in Handles, NEW gl, gl \in [Names -> Handles],
         gl[f] = h, \A g \in Names \ {f} : gl[g] = fl[g], live \subseteq Names,
         NEW ex, ex \subseteq exact \cup {f}, NEW fu, fu => full,
         f \in live => FileOk(t, root, f, h, ch[f], f \in long, f \in ex, fu)
  PROVE  Live(t, root, gl, ch, live, long, ex, fu)
<1>1. ASSUME NEW g \in live PROVE FileOk(t, root, g, gl[g], ch[g], g \in long, g \in ex, fu)
  <2>1. CASE g = f
    BY <2>1
  <2>2. CASE g # f
    <3>1. FileOk(t, root, g, fl[g], ch[g], g \in long, g \in exact, full) /\ gl[g] = fl[g]
      BY <2>2 DEF Live
    <3>2. g \in ex => g \in exact
      BY <2>2
    <3> QED BY <3>1, <3>2 DEF FileOk, Stands
  <2> QED BY <2>1, <2>2
<1>2. fu => \A c \in Clusters : t[c] # 0 => \E g \in live : c \in Ran(ch[g])
  BY DEF Live
<1> QED BY <1>1, <1>2 DEF Live

LEMMA AmongFacts ==
  ASSUME NEW x \in Contexts, NEW h \in Handles
  PROVE  /\ Among(x, h) \in [Names -> Handles] /\ Among(x, h)[x.f] = h
         /\ \A g \in Names \ {x.f} : Among(x, h)[g] = x.file[g]
         /\ \A k \in Handles : [Among(x, h) EXCEPT ![x.f] = k] = Among(x, k)
BY DEF Among, Contexts

LEMMA StoredKept ==
  ASSUME NEW s, NEW x, Inside(s, x), NEW r, Sound(r), CardAlters(s, r, {})
  PROVE  Stored(r, x)
<1>1. CASE Root(Main(r.card)) = Root(Main(s.card)) /\ Table(Main(r.card)) = Table(Main(s.card))
  BY <1>1 DEF Inside, Stored
<1>2. CASE Root(Main(r.card)) = Root(Seen(s)) /\ Within(Table(Seen(s)), Table(Main(r.card)), {})
  <2> DEFINE fl == Among(x, s.h)
  <2>1. PICK ch : Live(Table(Seen(s)), Root(Seen(s)), fl, ch, x.live, x.long, Trusted(s, x), x.full /\ s.ok)
    BY DEF Inside, Sight
  <2>2. x.live \subseteq Names /\ \A g \in x.live : HandleOk(g, fl[g])
    <3>1. x \in Contexts /\ s.h \in Handles /\ x.live \subseteq Names /\ x.f \in Names
      BY DEF Inside, Sound, State, Handles, Contexts
    <3>2. fl[x.f] = s.h /\ \A g \in Names \ {x.f} : fl[g] = x.file[g]
      BY <3>1, AmongFacts
    <3> QED BY <3>1, <3>2 DEF Inside
  <2> HIDE DEF fl
  <2>3. PICK ex, fu, t, root, u : /\ ex = Trusted(s, x) /\ fu = (x.full /\ s.ok) /\ t = Table(Seen(s))
                                  /\ root = Root(Seen(s)) /\ u = Table(Main(r.card))
    OBVIOUS
  <2>4. Live(t, root, fl, ch, x.live, x.long, ex, fu)
    BY <2>1, <2>3
  <2>5. PICK dh : Live(t, root, AllClosed, dh, x.live, x.long, {}, FALSE)
    BY ONLY <2>2, <2>4, Shut
  <2>6. u \in Tables /\ Within(t, u, {})
    BY <1>2, <2>3, TablesTyped
  <2>7. \A e, w : e = {} /\ w = FALSE => Live(u, root, AllClosed, dh, x.live, x.long, e, FALSE)
    <3> SUFFICES ASSUME NEW e, NEW w, e = {}, w = FALSE
                 PROVE  Live(u, root, AllClosed, dh, x.live, x.long, e, FALSE)
      OBVIOUS
    <3>1. Live(t, root, AllClosed, dh, x.live, x.long, e, w)
      BY <2>5
    <3> QED BY ONLY <2>6, <3>1, LiveFree
  <2>8. Live(u, root, AllClosed, dh, x.live, x.long, {}, FALSE)
    BY <2>7
  <2> QED BY <1>2, <2>3, <2>8 DEF Stored
<1> QED BY <1>1, <1>2 DEF CardAlters

LEMMA LagsKept ==
  ASSUME NEW s, NEW x, Inside(s, x), NEW r, NEW D, CardAlters(s, r, D), Root(Seen(r)) = Root(Seen(s))
  PROVE  Lags(r, x)
<1>1. CASE Root(Main(r.card)) = Root(Main(s.card))
  BY <1>1 DEF Inside, Lags
<1>2. CASE Root(Main(r.card)) = Root(Seen(s))
  <2>1. RootOk(Root(Seen(s))) /\ x.live \subseteq Names
    BY DEF Inside, Sight, Live, Contexts
  <2>2. \A g \in x.live : EntryIn(Root(Seen(s)), g).size \in 0 .. MaxSize
    BY <2>1, EntryFacts
  <2> QED BY <1>2, <2>2 DEF Lags
<1> QED BY <1>1, <1>2 DEF CardAlters

\* A step that leaves the directory and the table alone, and the file of the call in order.
LEMMA InsideServes ==
  ASSUME NEW s, NEW x, Inside(s, x), NEW r, Serves(s, r), HandleOk(x.f, r.h),
         x.f \in x.live => \A c : OfFile(s, x, c) => OfFile(r, x, c)
  PROVE  Inside(r, x)
<1>1. Stored(r, x) /\ Lags(r, x)
  BY StoredKept, LagsKept DEF Serves
<1>2. Sight(r, x)
  <2>1. PICK ch : Live(Table(Seen(s)), Root(Seen(s)), Among(x, s.h), ch, x.live, x.long, Trusted(s, x), x.full /\ s.ok)
    BY DEF Inside, Sight
  <2>2. x \in Contexts /\ s.h \in Handles /\ r.h \in Handles /\ x.live \subseteq Names /\ x.f \in Names
    BY DEF Inside, Sound, State, Handles, Contexts, Serves
  <2> PICK ex, fu, t, root, xe, xf : /\ ex = Trusted(s, x) /\ fu = (x.full /\ s.ok) /\ t = Table(Seen(s))
                                     /\ root = Root(Seen(s)) /\ xe = Trusted(r, x) /\ xf = (x.full /\ r.ok)
    OBVIOUS
  <2> PICK fl, gl : fl = Among(x, s.h) /\ gl = Among(x, r.h)
    OBVIOUS
  <2>3. /\ gl \in [Names -> Handles] /\ gl[x.f] = r.h /\ \A g \in Names \ {x.f} : gl[g] = fl[g]
    BY <2>2, AmongFacts
  <2>4. Live(t, root, fl, ch, x.live, x.long, ex, fu)
    BY <2>1
  <2>5. xe \subseteq ex \cup {x.f} /\ (xf => fu)
    BY DEF Trusted, Serves
  <2>6. x.f \in x.live => FileOk(t, root, x.f, r.h, ch[x.f], x.f \in x.long, x.f \in xe, xf)
    <3> SUFFICES ASSUME x.f \in x.live PROVE FileOk(t, root, x.f, r.h, ch[x.f], x.f \in x.long, x.f \in xe, xf)
      OBVIOUS
    <3>1. ch[x.f] \in Seq(Clusters) /\ Once(ch[x.f])
          /\ FileOk(t, root, x.f, fl[x.f], ch[x.f], x.f \in x.long, x.f \in ex, fu)
      BY <2>4 DEF Live, Disjoint, Once
    <3>2. fl[x.f] = s.h
      BY <2>2, AmongFacts
    <3>3. OfFile(s, x, ch[x.f])
      BY <3>1, <3>2 DEF OfFile
    <3>4. OfFile(r, x, ch[x.f])
      BY <3>3
    <3> QED BY <3>4 DEF OfFile, Serves
  <2>7. Live(t, root, gl, ch, x.live, x.long, xe, xf)
    BY ONLY <2>2, <2>3, <2>4, <2>5, <2>6, LiveHandle
  <2> QED BY <2>7 DEF Sight, Serves
<1> QED BY <1>1, <1>2 DEF Inside, Serves

\* The handle stays as it is.
LEMMA InsideSame ==
  ASSUME NEW s, NEW x, Inside(s, x), NEW r, Serves(s, r), r.h = s.h
  PROVE  Inside(r, x)
<1>1. \A c : OfFile(s, x, c) => OfFile(r, x, c)
  <2> SUFFICES ASSUME NEW c, OfFile(s, x, c) PROVE OfFile(r, x, c)
    OBVIOUS
  <2> PICK ex, fu, t, root, xe, xf, lo : /\ ex = (x.f \in Trusted(s, x)) /\ fu = (x.full /\ s.ok)
                                     /\ t = Table(Seen(s)) /\ lo = (x.f \in x.long)
                                     /\ root = Root(Seen(s)) /\ xe = (x.f \in Trusted(r, x)) /\ xf = (x.full /\ r.ok)
    OBVIOUS
  <2>1. FileOk(t, root, x.f, s.h, c, lo, ex, fu) /\ (xe => ex) /\ (xf => fu) /\ (lo => lo)
    BY DEF OfFile, Trusted, Serves
  <2>2. FileOk(t, root, x.f, s.h, c, lo, xe, xf)
    BY ONLY <2>1, FileLess
  <2> QED BY <2>2 DEF OfFile, Serves
<1> QED BY <1>1, InsideServes DEF Inside

\* The chain of the file of the call.
LEMMA InsideChain ==
  ASSUME NEW s, NEW x, Inside(s, x), x.f \in x.live
  PROVE  \E c : OfFile(s, x, c) /\ Len(c) <= ClusterCount
<1>1. PICK ch : Live(Table(Seen(s)), Root(Seen(s)), Among(x, s.h), ch, x.live, x.long, Trusted(s, x), x.full /\ s.ok)
  BY DEF Inside, Sight
<1>2. ch[x.f] \in Seq(Clusters) /\ Once(ch[x.f])
  BY <1>1 DEF Live, Disjoint, Once
<1>3. Among(x, s.h)[x.f] = s.h
  BY AmongFacts DEF Inside, Sound, State, Handles
<1>4. OfFile(s, x, ch[x.f])
  BY <1>1, <1>2, <1>3 DEF Live, OfFile
<1>5. Len(ch[x.f]) <= ClusterCount
  BY <1>2, ChainSize
<1> QED BY <1>4, <1>5

-----------------------------------------------------------------------------
(* Positions and the clusters of a chain *)

LEMMA Units == ClusterUnits \in Nat /\ ClusterUnits > 0
<1>1. 0 * BlocksPerCluster + BlocksPerCluster <= Slots * BlocksPerCluster /\ Slots * BlocksPerCluster \in Nat
  BY Products, VolumeAssumption
<1> QED BY <1>1, VolumeAssumption DEF ClusterUnits

\* The cluster of a position in its chain.
LEMMA NthFacts ==
  ASSUME NEW pos \in Nat \ {0}
  PROVE  /\ Nth(pos) \in Nat \ {0} /\ Nth(pos) <= pos
         /\ (Nth(pos) - 1) * ClusterUnits < pos /\ pos <= Nth(pos) * ClusterUnits
         /\ Nth(pos) - 1 = (pos - 1) \div ClusterUnits
<1> PICK m \in Nat : m = ClusterUnits /\ m > 0
  BY Units
<1> PICK q : q = (pos - 1) \div m
  OBVIOUS
<1>1. q \in Nat /\ q * m <= pos - 1 /\ pos - 1 < q * m + m
  <2>1. \A a \in Nat : a \div m \in Nat /\ m * (a \div m) <= a /\ a < m * (a \div m) + m
    BY Z3
  <2>2. m * q = q * m
    <3>1. q \in Nat
      BY <2>1
    <3> QED BY <3>1
  <2> QED BY <2>1, <2>2
<1>2. Nth(pos) = q + 1
  BY DEF Nth
<1>3. q <= pos - 1
  <2>1. q * m = q + q * (m - 1)
    BY <1>1
  <2>2. q * (m - 1) \in Nat
    <3>1. \A a, b \in Nat : a * b \in Nat
      OBVIOUS
    <3> QED BY <1>1, <3>1
  <2> QED BY <1>1, <2>1, <2>2
<1>4. (q + 1) * m = q * m + m
  BY <1>1
<1> QED BY <1>1, <1>2, <1>3, <1>4

LEMMA NthFits ==
  ASSUME NEW pos \in Nat \ {0}, NEW n \in Nat
  PROVE  pos <= n * ClusterUnits <=> Nth(pos) <= n
<1>1. ClusterUnits \in Nat /\ n * ClusterUnits \in Nat
  <2>1. \A a, b \in Nat : a * b \in Nat
    OBVIOUS
  <2> QED BY Units, <2>1
<1> PICK k \in Nat : k = Nth(pos) /\ k # 0 /\ (k - 1) * ClusterUnits < pos /\ pos <= k * ClusterUnits
                     /\ k * ClusterUnits \in Nat
  <2>1. \A a, b \in Nat : a * b \in Nat
    OBVIOUS
  <2> QED BY NthFacts, <2>1, Units
<1>2. CASE n < k
  <2>1. n = k - 1 \/ n < k - 1
    BY <1>2
  <2>2. k - 1 \in Nat
    OBVIOUS
  <2>3. n < k - 1 => n * ClusterUnits + ClusterUnits <= (k - 1) * ClusterUnits /\ (k - 1) * ClusterUnits \in Nat
    BY <1>1, <2>2, Products
  <2>4. (k - 1) * ClusterUnits \in Int
    BY <1>1, <2>2
  <2>5. n * ClusterUnits < pos
    BY <1>1, <2>1, <2>3, <2>4
  <2> QED BY <1>1, <1>2, <2>5
<1>3. CASE k <= n
  <2>1. k = n \/ k < n
    BY <1>3
  <2>2. k < n => k * ClusterUnits + ClusterUnits <= n * ClusterUnits
    BY <1>1, Products
  <2> QED BY <1>1, <1>3, <2>1, <2>2
<1> QED BY <1>2, <1>3

-----------------------------------------------------------------------------
(* seekSet() *)

\* All that is seen stays, but the handle may change.
Near(s, r) == Serves(s, r) /\ Seen(r) = Seen(s) /\ GoesOn(s, r) /\ r.left = s.left /\ r.got = s.got

LEMMA NearTwice == ASSUME NEW s, NEW r, NEW q, Near(s, r), Near(r, q) PROVE Near(s, q)
BY ServesTwice DEF Near, GoesOn

LEMMA KeepsNear == ASSUME NEW s, NEW r, Keeps(s, r) PROVE Near(s, r) /\ r.h = s.h
BY KeepsServes DEF Near, Keeps, Leads, Seen

LEMMA CertainTwice ==
  ASSUME NEW s, NEW r, NEW q, Certain(s, r), GoesOn(s, r), Certain(r, q), GoesOn(r, q)
  PROVE  Certain(s, q)
BY DEF Certain, GoesOn

Turned(h, cur, pos) == [h EXCEPT !.cur = cur, !.pos = pos]

LEMMA HandleTypes ==
  ASSUME NEW h \in Handle
  PROVE  /\ h.open = TRUE /\ h.flags \in SUBSET Flags /\ h.name \in Names /\ h.dirty \in BOOLEAN
         /\ h.cur \in Nat /\ h.pos \in Nat /\ h.first \in Nat /\ h.size \in Nat /\ h.slot \in SlotNumbers
BY DEF Handle

\* k is the handle h at another place.
Moved(h, cur, pos, k) ==
  /\ k \in Handle /\ k.cur = cur /\ k.pos = pos
  /\ k.first = h.first /\ k.size = h.size /\ k.slot = h.slot /\ k.name = h.name
  /\ k.dirty = h.dirty /\ k.flags = h.flags

LEMMA TurnedFacts ==
  ASSUME NEW h \in Handle, NEW cur, cur \in Nat, NEW pos, pos \in Nat, NEW k, k = Turned(h, cur, pos)
  PROVE  Moved(h, cur, pos, k)
<1>1. k = [open |-> h.open, flags |-> h.flags, name |-> h.name, dirty |-> h.dirty, cur |-> cur,
           pos |-> pos, first |-> h.first, size |-> h.size, slot |-> h.slot]
  BY DEF Turned, Handle
<1>2. /\ k.cur = cur /\ k.pos = pos
      /\ k.first = h.first /\ k.size = h.size /\ k.slot = h.slot /\ k.name = h.name
      /\ k.dirty = h.dirty /\ k.flags = h.flags
  BY <1>1
<1>3. k \in Handle
  BY <1>1, HandleTypes DEF Handle
<1> QED BY <1>2, <1>3 DEF Moved

LEMMA TurnedTwice ==
  ASSUME NEW h \in Handle, NEW cur, cur \in Nat, NEW pos, pos \in Nat, NEW c, c \in Nat, NEW p, p \in Nat
  PROVE  Turned(Turned(h, cur, pos), c, p) = Turned(h, c, p)
BY DEF Turned, Handle

LEMMA TurnedSame == ASSUME NEW h \in Handle PROVE Turned(h, h.cur, h.pos) = h
BY DEF Turned, Handle

LEMMA HoldingNear ==
  ASSUME NEW s, Sound(s), NEW h \in Handles, NEW r, r = Holding(s, h)
  PROVE  Near(s, r) /\ Certain(s, r) /\ r.h = h /\ r.ok = s.ok /\ r.blown = s.blown /\ r.val = s.val
         /\ r.start = s.start /\ SameCache(s, r)
<1>1. /\ Serves(s, r) /\ Seen(r) = Seen(s) /\ SameCache(s, r)
      /\ r.h = h /\ r.ok = s.ok /\ r.blown = s.blown /\ r.val = s.val /\ r.start = s.start
      /\ r.left = s.left /\ r.got = s.got
  BY HoldingServes
<1>2. Stuck(r) <=> Stuck(s)
  BY <1>1 DEF Stuck, SameCache
<1> QED BY <1>1, <1>2 DEF Near, GoesOn, Certain

LEMMA FollowFacts ==
  ASSUME NEW q, Sound(q), NEW first, NEW c \in Seq(Clusters), Linked(Table(Seen(q)), first, c),
         q.h \in Handle, q.h.cur \in {EOC} \cup Ran(c), NEW r, r = Follow(q)
  PROVE  /\ Near(q, r)
         /\ \E cur \in {EOC} \cup Ran(c) : r.h = Turned(q.h, cur, q.h.pos)
         /\ \A i \in 1 .. Len(c) : q.h.cur = c[i] =>
              Certain(q, r) /\ (r.ok => r.h.cur = IF i < Len(c) THEN c[i + 1] ELSE EOC)
<1>0. /\ \A i \in 1 .. Len(c) : c[i] \in Clusters /\ c[i] \in Ran(c) /\ c[i] # EOC /\ c[i] \in 0 .. LastCluster
      /\ \A a \in Ran(c) : \E i \in 1 .. Len(c) : a = c[i]
  <2>1. \A a \in Clusters : a # EOC /\ a \in 0 .. LastCluster
    BY VolumeAssumption DEF Clusters, EOC, LastCluster
  <2>2. \A i \in 1 .. Len(c) : c[i] \in Clusters
    OBVIOUS
  <2> QED BY <2>1, <2>2 DEF Ran
<1> DEFINE cur == q.h.cur
           g == FatGet(q, cur)
<1>1. cur \in Nat /\ q.h.pos \in Nat /\ EOC \in Nat /\ EOC > LastCluster
  <2>1. EOC \in Nat /\ EOC > LastCluster
    BY VolumeAssumption DEF EOC, LastCluster
  <2>2. cur \in Nat /\ q.h.pos \in Nat
    BY HandleTypes
  <2> QED BY <2>1, <2>2
<1>2. r = IF g.ok THEN [g EXCEPT !.h.cur = g.val] ELSE g
  BY DEF Follow, Then
<1> HIDE DEF cur
<1>3. Turned(q.h, cur, q.h.pos) = q.h
  BY TurnedSame DEF cur
<1>4. CASE cur = EOC
  <2>1. Keeps(q, g) /\ ~g.ok
    BY <1>1, <1>4, FatGetPast
  <2>2. r = g /\ Near(q, r) /\ r.h = q.h
    BY <1>2, <2>1, KeepsNear
  <2> QED BY <1>0, <1>3, <1>4, <2>2 DEF cur
<1>5. CASE cur # EOC
  <2>1. PICK i \in 1 .. Len(c) : cur = c[i]
    BY <1>0, <1>5 DEF cur
  <2> DEFINE next == IF i < Len(c) THEN c[i + 1] ELSE EOC
  <2>2. next = Table(Seen(q))[cur] /\ next \in {EOC} \cup Ran(c) /\ next \in Nat
    <3>1. i < Len(c) => i + 1 \in 1 .. Len(c)
      OBVIOUS
    <3>2. \A a \in Clusters : a \in Nat
      BY DEF Clusters
    <3> QED BY <1>0, <1>1, <2>1, <3>1, <3>2 DEF Linked
  <2> HIDE DEF next
  <2>3. Keeps(q, g) /\ Certain(q, g) /\ (g.ok => g.val = next)
    BY <1>0, <2>1, <2>2, FatGetKeeps
  <2> HIDE DEF g
  <2>4. Near(q, g) /\ g.h = q.h /\ Sound(g)
    BY <2>3, KeepsNear DEF Keeps, Leads
  <2>5. CASE ~g.ok
    BY <1>2, <1>3, <1>0, <2>1, <2>3, <2>4, <2>5
  <2>6. CASE g.ok
    <3>1. r = Holding(g, Turned(q.h, next, q.h.pos))
      <4>1. g \in State /\ g.h \in Handle
        BY <2>4 DEF Sound
      <4>2. r = [g EXCEPT !.h = [g.h EXCEPT !.cur = next]]
        BY <1>2, <2>3, <2>6, <4>1 DEF State, Handle
      <4>3. [g.h EXCEPT !.cur = next] = Turned(g.h, next, g.h.pos)
        BY <4>1 DEF Turned, Handle
      <4> QED BY <2>4, <4>2, <4>3 DEF Holding
    <3> DEFINE k == Turned(q.h, next, q.h.pos)
    <3>2. k \in Handles /\ k.cur = next
      <4>0. next \in Nat /\ q.h.pos \in Nat /\ q.h \in Handle /\ k = Turned(q.h, next, q.h.pos)
        BY <1>1, <2>2
      <4>1. k \in Handle /\ k.cur = next
        <5>1. Moved(q.h, next, q.h.pos, k)
          BY <4>0, TurnedFacts
        <5> QED BY <5>1 DEF Moved
      <4> QED BY <4>1 DEF Handles
    <3> HIDE DEF k
    <3>3. r = Holding(g, k)
      BY <3>1 DEF k
    <3>4. Near(g, r) /\ Certain(g, r) /\ r.h = k
      BY <2>4, <3>2, <3>3, HoldingNear
    <3>5. Near(q, r)
      BY <2>4, <3>4, NearTwice
    <3>6. Certain(q, r)
      BY <2>3, <2>4, <3>4, CertainTwice DEF Near
    <3>7. \A j \in 1 .. Len(c) : cur = c[j] => next = IF j < Len(c) THEN c[j + 1] ELSE EOC
      <4>1. \A j \in 1 .. Len(c) : cur = c[j] => Table(Seen(q))[cur] = IF j < Len(c) THEN c[j + 1] ELSE EOC
        BY DEF Linked
      <4> QED BY <2>2, <4>1
    <3> QED BY <2>2, <3>2, <3>4, <3>5, <3>6, <3>7 DEF cur, k
  <2> QED BY <2>5, <2>6
<1> QED BY <1>4, <1>5

-----------------------------------------------------------------------------
\* The states of a move along the chain c that stood at its cluster j if sure, after k hops.
Hops(s, c, sure, j, k) ==
  {q \in State : /\ Near(s, q)
                 /\ \E cur \in {EOC} \cup Ran(c) : q.h = Turned(s.h, cur, s.h.pos)
                 /\ sure /\ j + k <= Len(c) => Certain(s, q) /\ (q.ok => q.h.cur = c[j + k])}

LEMMA HopFacts ==
  ASSUME NEW s, Sound(s), s.h \in Handle, NEW first, NEW c \in Seq(Clusters),
         Linked(Table(Seen(s)), first, c), NEW sure, NEW j \in Nat \ {0}, NEW k \in Nat \ {0},
         NEW q \in Hops(s, c, sure, j, k - 1)
  PROVE  Follow(q) \in Hops(s, c, sure, j, k)
<1> DEFINE r == Follow(q)
<1>1. /\ Near(s, q) /\ q \in State
      /\ sure /\ j + (k - 1) <= Len(c) => Certain(s, q) /\ (q.ok => q.h.cur = c[j + (k - 1)])
  BY DEF Hops
<1>2. PICK cur \in {EOC} \cup Ran(c) : q.h = Turned(s.h, cur, s.h.pos)
  BY DEF Hops
<1>3. cur \in Nat /\ s.h.pos \in Nat /\ Sound(q) /\ Seen(q) = Seen(s) /\ Len(c) \in Nat
  <2>1. EOC \in Nat /\ Clusters \subseteq Nat
    BY VolumeAssumption DEF EOC, LastCluster, Clusters
  <2>2. Ran(c) \subseteq Clusters
    BY DEF Ran
  <2>3. s.h.pos \in Nat
    BY HandleTypes
  <2>4. cur \in Nat
    BY <2>1, <2>2
  <2> QED BY <1>1, <2>3, <2>4 DEF Near, Serves
<1>4. q.h \in Handle /\ q.h.cur = cur /\ q.h.pos = s.h.pos
  <2>1. s.h \in Handle /\ cur \in Nat /\ s.h.pos \in Nat
    BY <1>3
  <2>2. Moved(s.h, cur, s.h.pos, q.h)
    BY <1>2, <2>1, TurnedFacts
  <2> QED BY <2>2 DEF Moved
<1>5. /\ Near(q, r)
      /\ \E a \in {EOC} \cup Ran(c) : r.h = Turned(q.h, a, q.h.pos)
      /\ \A i \in 1 .. Len(c) : q.h.cur = c[i] =>
           Certain(q, r) /\ (r.ok => r.h.cur = IF i < Len(c) THEN c[i + 1] ELSE EOC)
  <2> HIDE DEF r
  <2>1. r = Follow(q)
    BY DEF r
  <2> QED BY <1>2, <1>3, <1>4, <2>1, FollowFacts
<1> HIDE DEF r
<1>6. Near(s, r) /\ r \in State
  BY <1>1, <1>5, NearTwice DEF Near, Serves, Sound
<1>7. \E a \in {EOC} \cup Ran(c) : r.h = Turned(s.h, a, s.h.pos)
  <2>1. PICK a \in {EOC} \cup Ran(c) : r.h = Turned(q.h, a, q.h.pos)
    BY <1>5
  <2>2. a \in Nat
    <3>1. EOC \in Nat /\ Clusters \subseteq Nat
      BY VolumeAssumption DEF EOC, LastCluster, Clusters
    <3>2. Ran(c) \subseteq Clusters
      BY DEF Ran
    <3> QED BY <3>1, <3>2
  <2>3. r.h = Turned(s.h, a, s.h.pos)
    BY <1>2, <1>3, <1>4, <2>1, <2>2, TurnedTwice
  <2> QED BY <2>3
<1>8. ASSUME sure, j + k <= Len(c) PROVE Certain(s, r) /\ (r.ok => r.h.cur = c[j + k])
  <2>1. Certain(s, q) /\ (q.ok => q.h.cur = c[j + (k - 1)])
    BY <1>1, <1>3, <1>8
  <2>2. CASE q.ok
    <3>1. j + (k - 1) \in 1 .. Len(c) /\ j + (k - 1) < Len(c) /\ (j + (k - 1)) + 1 = j + k
      BY <1>3, <1>8
    <3>2. Certain(q, r) /\ (r.ok => r.h.cur = c[j + k])
      BY <1>5, <2>1, <2>2, <3>1
    <3>3. Certain(s, r)
      BY <1>1, <1>5, <2>1, <3>2, CertainTwice DEF Near
    <3> QED BY <3>2, <3>3
  <2>3. CASE ~q.ok
    BY <1>5, <2>1, <2>3 DEF Near, GoesOn, Certain
  <2> QED BY <2>2, <2>3
<1> QED BY <1>6, <1>7, <1>8 DEF Hops, r

HopsOf(a, n) == CHOOSE w : w = [k \in 0 .. n |-> IF k = 0 THEN a ELSE Follow(w[k - 1])]

LEMMA HopLoop ==
  ASSUME NEW s, Sound(s), s.h \in Handle, NEW first, NEW c \in Seq(Clusters),
         Linked(Table(Seen(s)), first, c), NEW sure, NEW j \in Nat \ {0},
         NEW a \in Hops(s, c, sure, j, 0), NEW n \in Nat
  PROVE  \A k \in 0 .. n : HopsOf(a, n)[k] \in Hops(s, c, sure, j, k)
<1> DEFINE S == [k \in 0 .. n |-> Hops(s, c, sure, j, k)]
           g == [k \in 1 .. n |-> [q \in S[k - 1] |-> Follow(q)]]
           hop == HopsOf(a, n)
<1>1. a \in S[0]
  OBVIOUS
<1>2. \A k \in 1 .. n : k - 1 \in 0 .. n /\ k \in Nat \ {0} /\ k \in 0 .. n
  OBVIOUS
<1>3. \A k \in 1 .. n : \A q \in S[k - 1] : Follow(q) \in S[k]
  <2> SUFFICES ASSUME NEW k \in 1 .. n, NEW q \in S[k - 1] PROVE Follow(q) \in S[k]
    OBVIOUS
  <2>1. S[k - 1] = Hops(s, c, sure, j, k - 1) /\ S[k] = Hops(s, c, sure, j, k)
    BY <1>2
  <2>2. k \in Nat \ {0} /\ q \in Hops(s, c, sure, j, k - 1)
    BY <1>2, <2>1
  <2>3. Follow(q) \in Hops(s, c, sure, j, k)
    BY <2>2, HopFacts
  <2> QED BY <2>1, <2>3
<1>4. \A k \in 1 .. n : \A q \in S[k - 1] : g[k][q] = Follow(q)
  OBVIOUS
<1>5. Steps(n, S, g)
  BY <1>3, <1>4 DEF Steps
<1>6. \A k \in 0 .. n : S[k] = Hops(s, c, sure, j, k)
  OBVIOUS
<1> HIDE DEF S, g
<1>7. PICK f : /\ f = [k \in 0 .. n |-> IF k = 0 THEN a ELSE g[k][f[k - 1]]]
               /\ \A k \in 0 .. n : f[k] \in S[k]
  <2>1. Stepped(n, S, a, g)
    BY <1>1, <1>5, Recursion
  <2> QED BY <2>1 DEF Stepped
<1>8. f = [k \in 0 .. n |-> IF k = 0 THEN a ELSE Follow(f[k - 1])]
  <2>1. ASSUME NEW k \in 1 .. n PROVE g[k][f[k - 1]] = Follow(f[k - 1])
    <3>1. f[k - 1] \in S[k - 1]
      BY <1>2, <1>7
    <3> QED BY <1>4, <3>1
  <2>2. \A k \in 0 .. n : (IF k = 0 THEN a ELSE g[k][f[k - 1]]) = IF k = 0 THEN a ELSE Follow(f[k - 1])
    BY <2>1
  <2> QED BY <1>7, <2>2
<1>9. hop = [k \in 0 .. n |-> IF k = 0 THEN a ELSE Follow(hop[k - 1])]
  BY <1>8 DEF HopsOf
<1> HIDE DEF hop
<1>10. \A k \in 0 .. n : hop[k] \in S[k]
  <2> DEFINE A == {k \in 0 .. n : hop[k] \in S[k]}
  <2>1. 0 \in A
    BY <1>1, <1>9
  <2>2. \A k \in 1 .. n : k - 1 \in A => k \in A
    <3> SUFFICES ASSUME NEW k \in 1 .. n, hop[k - 1] \in S[k - 1] PROVE hop[k] \in S[k]
      BY <1>2
    <3>1. hop[k] = Follow(hop[k - 1])
      BY <1>2, <1>9
    <3> QED BY <1>3, <3>1
  <2> HIDE DEF A
  <2>3. \A k \in 0 .. n : k \in A
    BY <2>1, <2>2, UpTo
  <2> QED BY <2>3 DEF A
<1> QED BY <1>6, <1>10 DEF hop

\* The handle after a move of h, in the chain c.
Ends(s, r, f, c) ==
  /\ HandleOk(f, r.h) /\ r.h \in Handle /\ Stands(r.h, c, FALSE)
  /\ \E cur, p \in Nat : r.h = Turned(s.h, cur, p)

LEMMA TurnedEnds ==
  ASSUME NEW s, NEW f, s.h \in Handle, HandleOk(f, s.h), NEW c \in Seq(Clusters),
         NEW cur, cur \in {0, EOC} \cup Ran(c), NEW p, p \in Nat, cur = 0 => p = 0, c = <<>> => cur = 0,
         NEW r, r.h = Turned(s.h, cur, p)
  PROVE  Ends(s, r, f, c)
<1>1. \A a \in Clusters \cup {0, EOC} : a \in Nat /\ a <= EOC
  BY VolumeAssumption DEF EOC, LastCluster, Clusters
<1>2. Ran(c) \subseteq Clusters
  BY DEF Ran
<1>3. cur \in Nat /\ cur <= EOC
  <2>1. cur \in Clusters \cup {0, EOC}
    BY <1>2
  <2> QED BY <1>1, <2>1
<1>4. Moved(s.h, cur, p, r.h)
  BY <1>3, TurnedFacts
<1>5. HandleOk(f, r.h)
  <2>1. s.h.name = f /\ s.h.first \in {0} \cup Clusters /\ s.h.size <= MaxSize
    BY HandleTypes DEF HandleOk
  <2> QED BY <1>3, <1>4, <2>1 DEF HandleOk, Moved
<1>6. Stands(r.h, c, FALSE)
  BY <1>4 DEF Moved, Stands
<1> QED BY <1>3, <1>4, <1>5, <1>6 DEF Ends, Moved

\* Whether the move to pos follows the chain from its start again, and where it begins.
Again(s, pos) == s.h.pos = 0 \/ (pos - 1) \div ClusterUnits < (s.h.pos - 1) \div ClusterUnits
Restart(s, pos) == IF Again(s, pos) THEN [s EXCEPT !.h.cur = s.h.first] ELSE s
Reposition(r, pos) == IF r.ok THEN [r EXCEPT !.h.pos = pos] ELSE r

LEMMA SeekShape ==
  ASSUME NEW s, NEW pos, ~(pos > s.h.size), pos # 0
  PROVE  SeekSet(s, pos) =
           Reposition(HopsOf(Restart(s, pos), MaxSize)[IF Again(s, pos) THEN (pos - 1) \div ClusterUnits
                          ELSE (pos - 1) \div ClusterUnits - (s.h.pos - 1) \div ClusterUnits], pos)
BY DEF SeekSet, HopsOf, Restart, Reposition, Then, Again

\* The state of a move of s to pos along the chain c before the position is set.
Arrives(s, c, exact, pos) ==
  \E q, sure : \E j \in Nat \ {0}, k \in Nat :
     /\ q \in Hops(s, c, sure, j, k) /\ j + k = Nth(pos)
     /\ exact \/ s.h.pos = 0 => sure
     /\ SeekSet(s, pos) = Reposition(q, pos)

\* The move along the chain, to a position behind the first cluster's start.
LEMMA SeekHops ==
  ASSUME NEW s, Sound(s), NEW f, HandleOk(f, s.h), s.h \in Handle, NEW c \in Seq(Clusters),
         Linked(Table(Seen(s)), s.h.first, c), s.h.size > 0 => c # <<>>,
         NEW exact, Stands(s.h, c, exact), NEW pos, pos \in Nat \ {0}, pos <= s.h.size
  PROVE  Arrives(s, c, exact, pos)
<1>0. s.h.size \in Nat /\ s.h.pos \in Nat /\ s.h.size <= MaxSize /\ MaxSize \in Nat /\ s.h.cur \in Nat
  BY HandleTypes, FileAssumption DEF HandleOk
<1>1. ~(pos > s.h.size) /\ pos # 0 /\ pos \in Nat
  BY <1>0
<1> PICK n : n \in Nat /\ n = (pos - 1) \div ClusterUnits /\ Nth(pos) = n + 1 /\ n < pos
  <2>1. Nth(pos) \in Nat \ {0} /\ Nth(pos) <= pos /\ Nth(pos) - 1 = (pos - 1) \div ClusterUnits
    BY NthFacts
  <2> QED BY <2>1
<1>2. n \in 0 .. MaxSize /\ n \in Nat /\ Nth(pos) = n + 1
  BY <1>0, <1>1
<1> PICK a : a = Restart(s, pos)
  OBVIOUS
<1>6. SeekSet(s, pos) =
        Reposition(HopsOf(a, MaxSize)[IF Again(s, pos) THEN n ELSE n - (s.h.pos - 1) \div ClusterUnits], pos)
  BY <1>1, SeekShape
<1>3. c # <<>> /\ s.h.first = c[1] /\ s.h.first \in Ran(c) /\ s.h.first \in Nat
  <2>1. c # <<>> /\ s.h.first = c[1] /\ 1 \in 1 .. Len(c)
    BY <1>0, <1>1 DEF Linked
  <2>2. s.h.first \in Nat
    BY HandleTypes
  <2> QED BY <2>1, <2>2 DEF Ran
<1>4. CASE Again(s, pos)
  <2> PICK sure, first, j : sure = TRUE /\ first = s.h.first /\ j = 1
    OBVIOUS
  <2> DEFINE k == Turned(s.h, s.h.first, s.h.pos)
  <2>1. a = Holding(s, k)
    <3>1. s \in State
      BY DEF Sound
    <3> QED BY <1>4, <3>1 DEF Restart, Holding, Turned, State, Handle
  <2>2. Moved(s.h, s.h.first, s.h.pos, k)
    BY <1>0, <1>3, TurnedFacts
  <2>3. k \in Handles /\ k.cur = s.h.first
    BY <2>2 DEF Moved, Handles
  <2> HIDE DEF k
  <2>4. Near(s, a) /\ Certain(s, a) /\ a.h = k
    BY <2>1, <2>3, HoldingNear
  <2>5. a \in Hops(s, c, sure, j, 0)
    <3>1. a \in State
      BY <2>4 DEF Near, Serves, Sound
    <3>2. \E cur \in {EOC} \cup Ran(c) : a.h = Turned(s.h, cur, s.h.pos)
      BY <1>3, <2>4 DEF k
    <3>3. a.h.cur = c[j + 0]
      BY <1>3, <2>3, <2>4
    <3> QED BY <2>4, <3>1, <3>2, <3>3 DEF Hops
  <2>6. j \in Nat \ {0} /\ MaxSize \in Nat /\ Linked(Table(Seen(s)), first, c)
    BY <1>0
  <2>7. Sound(s) /\ s.h \in Handle /\ c \in Seq(Clusters)
    OBVIOUS
  <2>8. \A i \in 0 .. MaxSize : HopsOf(a, MaxSize)[i] \in Hops(s, c, sure, j, i)
    BY ONLY <2>5, <2>6, <2>7, HopLoop
  <2>9. HopsOf(a, MaxSize)[n] \in Hops(s, c, sure, j, n) /\ j + n = Nth(pos)
    <3>1. j = 1
      OBVIOUS
    <3>2. j + n = Nth(pos)
      BY ONLY <1>2, <3>1
    <3> QED BY <1>2, <2>8, <3>2
  <2>10. SeekSet(s, pos) = Reposition(HopsOf(a, MaxSize)[n], pos)
    BY <1>4, <1>6
  <2> QED BY <1>2, <2>6, <2>9, <2>10 DEF Arrives
<1>5. CASE ~Again(s, pos)
  <2>1. s.h.pos \in Nat \ {0}
    BY <1>0, <1>5 DEF Again
  <2> PICK m : m \in Nat /\ m = (s.h.pos - 1) \div ClusterUnits /\ Nth(s.h.pos) = m + 1 /\ m <= n
    <3>1. Nth(s.h.pos) \in Nat \ {0} /\ Nth(s.h.pos) - 1 = (s.h.pos - 1) \div ClusterUnits
      BY <2>1, NthFacts
    <3> QED BY <1>2, <1>5, <3>1 DEF Again
  <2> PICK first, j : first = s.h.first /\ j = m + 1
    OBVIOUS
  <2>3. s.h.cur \in {EOC} \cup Ran(c)
    BY <2>1 DEF Stands
  <2>4. s \in Hops(s, c, exact, j, 0)
    <3>1. s \in State
      BY DEF Sound
    <3>2. Near(s, s) /\ Certain(s, s)
      BY KeepsSame, KeepsNear DEF Certain
    <3>3. \E cur \in {EOC} \cup Ran(c) : s.h = Turned(s.h, cur, s.h.pos)
      BY <2>3, TurnedSame
    <3>4. exact => s.h.cur = c[j + 0]
      BY <2>1 DEF Stands
    <3> QED BY <3>1, <3>2, <3>3, <3>4 DEF Hops
  <2>5. j \in Nat \ {0} /\ MaxSize \in Nat /\ Linked(Table(Seen(s)), first, c)
    BY <1>0
  <2>6. Sound(s) /\ s.h \in Handle /\ c \in Seq(Clusters)
    OBVIOUS
  <2>7. \A i \in 0 .. MaxSize : HopsOf(s, MaxSize)[i] \in Hops(s, c, exact, j, i)
    BY ONLY <2>4, <2>5, <2>6, HopLoop
  <2>8. m \in Nat /\ m <= n /\ j = m + 1
    OBVIOUS
  <2>9. n - m \in 0 .. MaxSize /\ n - m \in Nat /\ j + (n - m) = Nth(pos)
    BY ONLY <1>2, <2>5, <2>8
  <2>10. HopsOf(s, MaxSize)[n - m] \in Hops(s, c, exact, j, n - m)
    BY <2>7, <2>9
  <2>11. a = s
    BY <1>5 DEF Restart
  <2>12. SeekSet(s, pos) = Reposition(HopsOf(s, MaxSize)[n - m], pos)
    BY <1>5, <1>6, <2>11
  <2> QED BY <2>1, <2>5, <2>9, <2>10, <2>12 DEF Arrives
<1> QED BY <1>4, <1>5

\* What the position and the chain are after SeekSet(s, pos).
Sought(s, r, f, c, exact, pos) ==
  /\ Near(s, r) /\ Ends(s, r, f, c)
  /\ r.ok => r.h.pos = pos /\ pos <= s.h.size
  /\ s.h.size <= Len(c) * ClusterUnits /\ (exact \/ s.h.pos = 0 \/ pos = 0) =>
       (r.ok => Stands(r.h, c, TRUE)) /\ (pos <= s.h.size => Certain(s, r))

\* seekSet() moves the handle and changes nothing else; it comes to the cluster of the position.
LEMMA SeekFacts ==
  ASSUME NEW s, Sound(s), NEW f, HandleOk(f, s.h), s.h \in Handle, NEW c \in Seq(Clusters),
         Linked(Table(Seen(s)), s.h.first, c), s.h.size > 0 => c # <<>>,
         NEW exact, Stands(s.h, c, exact), NEW pos, pos \in Nat, NEW r, r = SeekSet(s, pos)
  PROVE  Sought(s, r, f, c, exact, pos)
<1>0. /\ s.h.size \in Nat /\ s.h.pos \in Nat /\ s.h.size <= MaxSize /\ s.h.cur \in Nat
      /\ s \in State
  BY HandleTypes DEF HandleOk, Sound
<1>1. CASE pos > s.h.size
  <2>1. r = Fail(s)
    BY <1>1 DEF SeekSet
  <2>2. Keeps(s, r) /\ ~r.ok
    BY <2>1, FailKeeps
  <2>3. Near(s, r) /\ r.h = s.h
    BY <2>2, KeepsNear
  <2>4. Ends(s, r, f, c)
    <3>1. r.h = Turned(s.h, s.h.cur, s.h.pos)
      BY <2>3, TurnedSame
    <3>2. Stands(r.h, c, FALSE)
      BY <2>3 DEF Stands
    <3> QED BY <1>0, <2>3, <3>1, <3>2 DEF Ends
  <2>5. ~(pos <= s.h.size)
    BY <1>0, <1>1
  <2>6. pos # 0
    BY <1>0, <1>1
  <2> QED BY <2>2, <2>3, <2>4, <2>5, <2>6 DEF Sought
<1>2. CASE ~(pos > s.h.size) /\ pos = 0
  <2> DEFINE k == Turned(s.h, 0, 0)
  <2>1. r = Holding(s, k)
    BY <1>0, <1>2 DEF SeekSet, Holding, Turned, State, Handle
  <2>2. Moved(s.h, 0, 0, k)
    BY TurnedFacts
  <2> HIDE DEF k
  <2>3. k \in Handles /\ k.cur = 0 /\ k.pos = 0
    BY <2>2 DEF Moved, Handles
  <2>4. Near(s, r) /\ Certain(s, r) /\ r.h = k
    BY <2>1, <2>3, HoldingNear
  <2>5. Ends(s, r, f, c)
    <3>1. HandleOk(f, k) /\ k \in Handle
      <4>1. s.h.name = f /\ s.h.first \in {0} \cup Clusters /\ s.h.size <= MaxSize
        BY HandleTypes DEF HandleOk
      <4>2. 0 <= EOC
        BY VolumeAssumption DEF EOC, LastCluster
      <4> QED BY <2>2, <4>1, <4>2 DEF HandleOk, Moved
    <3>2. Stands(k, c, FALSE)
      BY <2>3 DEF Stands
    <3>3. \E cur, p \in Nat : k = Turned(s.h, cur, p)
      BY DEF k
    <3> QED BY <2>4, <3>1, <3>2, <3>3 DEF Ends
  <2>6. Stands(r.h, c, TRUE)
    BY <2>3, <2>4 DEF Stands
  <2>7. r.h.pos = pos /\ pos <= s.h.size
    BY <1>0, <1>2, <2>3, <2>4
  <2> QED BY <2>4, <2>5, <2>6, <2>7 DEF Sought
<1>3. CASE ~(pos > s.h.size) /\ pos # 0
  <2>0. pos \in Nat \ {0} /\ pos <= s.h.size /\ c # <<>>
    BY <1>0, <1>3
  <2>1. Arrives(s, c, exact, pos)
    BY <2>0, SeekHops
  <2>2. PICK q, sure : \E j \in Nat \ {0}, k \in Nat :
           /\ q \in Hops(s, c, sure, j, k) /\ j + k = Nth(pos)
           /\ exact \/ s.h.pos = 0 => sure
           /\ SeekSet(s, pos) = Reposition(q, pos)
    BY <2>1 DEF Arrives
  <2>3. r = IF q.ok THEN [q EXCEPT !.h.pos = pos] ELSE q
    BY <2>2 DEF Reposition
  <2>4. /\ q \in State /\ Near(s, q) /\ Sound(q)
        /\ sure /\ Nth(pos) <= Len(c) => Certain(s, q) /\ (q.ok => q.h.cur = c[Nth(pos)])
    BY <2>2 DEF Hops, Near, Serves
  <2>5. PICK cur : cur \in {EOC} \cup Ran(c) /\ q.h = Turned(s.h, cur, s.h.pos)
    BY <2>2 DEF Hops
  <2>6. cur \in Nat /\ cur # 0
    <3>1. EOC \in Nat /\ EOC # 0 /\ \A a \in Clusters : a \in Nat /\ a # 0
      BY VolumeAssumption DEF EOC, LastCluster, Clusters
    <3>2. Ran(c) \subseteq Clusters
      BY DEF Ran
    <3> QED BY <2>5, <3>1, <3>2
  <2>7. Moved(s.h, cur, s.h.pos, q.h)
    BY <1>0, <2>5, <2>6, TurnedFacts
  <2>8. s.h.size <= Len(c) * ClusterUnits => Nth(pos) <= Len(c)
    <3>1. pos <= Len(c) * ClusterUnits => Nth(pos) <= Len(c)
      BY <2>0, NthFits
    <3>2. Len(c) * ClusterUnits \in Nat
      BY Units
    <3> QED BY <1>0, <2>0, <3>1, <3>2
  <2>9. CASE ~q.ok
    <3>1. r = q
      BY <2>3, <2>9
    <3>2. Ends(s, r, f, c)
      <4>1. r.h = Turned(s.h, cur, s.h.pos) /\ s.h.pos \in Nat
        BY <1>0, <2>5, <3>1
      <4>2. cur \in {0, EOC} \cup Ran(c) /\ (cur = 0 => s.h.pos = 0) /\ (c = <<>> => cur = 0)
        BY <2>0, <2>5, <2>6
      <4>3. s.h \in Handle /\ HandleOk(f, s.h) /\ c \in Seq(Clusters) /\ s.h.pos \in Nat
        BY <1>0, <2>0
      <4> QED BY ONLY <4>1, <4>2, <4>3, TurnedEnds
    <3> QED BY <2>0, <2>2, <2>4, <2>8, <2>9, <3>1, <3>2 DEF Sought
  <2>10. CASE q.ok
    <3> DEFINE h == Turned(s.h, cur, pos)
    <3>1. r = Holding(q, h)
      <4>1. q.h \in Handle
        BY <2>7 DEF Moved
      <4>2. r = [q EXCEPT !.h = [q.h EXCEPT !.pos = pos]]
        BY <2>3, <2>4, <2>10, <4>1 DEF State, Handle
      <4>3. [q.h EXCEPT !.pos = pos] = h
        BY <2>5 DEF Turned, Handle
      <4> QED BY <4>2, <4>3 DEF Holding
    <3>2. Moved(s.h, cur, pos, h)
      BY <2>0, <2>6, TurnedFacts
    <3> HIDE DEF h
    <3>3. h \in Handles /\ h.cur = cur /\ h.pos = pos
      BY <3>2 DEF Moved, Handles
    <3>4. Near(q, r) /\ Certain(q, r) /\ r.h = h /\ r.ok = q.ok /\ r.blown = q.blown
      BY <2>4, <3>1, <3>3, HoldingNear
    <3>5. Near(s, r)
      BY <2>4, <3>4, NearTwice
    <3>6. Ends(s, r, f, c)
      <4>1. r.h = Turned(s.h, cur, pos)
        BY <3>4 DEF h
      <4>2. cur \in {0, EOC} \cup Ran(c) /\ (cur = 0 => pos = 0) /\ (c = <<>> => cur = 0)
        BY <2>0, <2>5, <2>6
      <4>3. s.h \in Handle /\ HandleOk(f, s.h) /\ c \in Seq(Clusters) /\ pos \in Nat
        BY <1>0, <2>0
      <4> QED BY ONLY <4>1, <4>2, <4>3, TurnedEnds
    <3>7. sure /\ Nth(pos) <= Len(c) => Stands(r.h, c, TRUE) /\ Certain(s, r)
      <4> SUFFICES ASSUME sure, Nth(pos) <= Len(c) PROVE Stands(r.h, c, TRUE) /\ Certain(s, r)
        OBVIOUS
      <4>1. q.h.cur = c[Nth(pos)] /\ q.h.cur = cur
        BY <2>4, <2>7, <2>10 DEF Moved
      <4>2. Nth(pos) \in 1 .. Len(c)
        <5>1. Nth(pos) \in Nat \ {0} /\ Len(c) \in Nat
          BY <2>0, NthFacts
        <5> QED BY <5>1
      <4>3. Stands(r.h, c, TRUE)
        BY <2>0, <2>5, <2>6, <3>3, <3>4, <4>1, <4>2 DEF Stands
      <4> QED BY <2>4, <3>4, <4>3 DEF Certain
    <3> QED BY <2>0, <2>2, <2>8, <3>3, <3>4, <3>5, <3>6, <3>7 DEF Sought
  <2> QED BY <2>9, <2>10
<1> QED BY <1>1, <1>2, <1>3

\* A handle that has only moved.
Carried(h, k) == \E cur, p \in Nat : Moved(h, cur, p, k)

LEMMA CarriedFacts ==
  ASSUME NEW h, NEW k, Carried(h, k)
  PROVE  /\ k \in Handle /\ k.open /\ k.first = h.first /\ k.size = h.size /\ k.slot = h.slot
         /\ k.name = h.name /\ k.dirty = h.dirty /\ k.flags = h.flags
BY HandleTypes DEF Carried, Moved

\* The file of the call is open.
LEMMA OpenChain ==
  ASSUME NEW s, NEW x, Inside(s, x), NEW c, OfFile(s, x, c), s.h.open
  PROVE  /\ s.h \in Handle /\ HandleOk(x.f, s.h) /\ Sound(s) /\ c \in Seq(Clusters)
         /\ Linked(Table(Seen(s)), s.h.first, c) /\ (s.h.size > 0 => c # <<>>)
         /\ (x.f \in x.long => s.h.size <= Len(c) * ClusterUnits)
         /\ (x.full /\ s.ok /\ s.h.size = 0 /\ s.h.cur = 0 => c = <<>>)
         /\ Entered(s.h, Root(Seen(s))[s.h.slot]) /\ Stands(s.h, c, x.f \in Trusted(s, x))
BY DEF OfFile, FileOk, FirstIn, SizeIn, Inside, HandleOk

\* The handle of an empty file is at its start.
Settled(s, x) == x.full /\ s.ok /\ s.h.size = 0 => s.h.cur = 0

LEMMA CarriedFile ==
  ASSUME NEW s, NEW x, Inside(s, x), NEW c, OfFile(s, x, c), s.h.open,
         NEW r, Serves(s, r), Carried(s.h, r.h), Settled(s, x) \/ r.h.cur # 0,
         Stands(r.h, c, FALSE), x.f \in Trusted(r, x) => Stands(r.h, c, TRUE)
  PROVE  OfFile(r, x, c)
<1> PICK f, h, k, t, root : /\ f = x.f /\ h = s.h /\ k = r.h /\ t = Table(Seen(s)) /\ root = Root(Seen(s))
  OBVIOUS
<1>1. /\ k.open /\ k.first = h.first /\ k.size = h.size /\ k.slot = h.slot
      /\ k.name = h.name /\ k.dirty = h.dirty
  BY CarriedFacts
<1>2. /\ Linked(t, h.first, c) /\ (h.size > 0 => c # <<>>)
      /\ (f \in x.long => h.size <= Len(c) * ClusterUnits)
      /\ (x.full /\ s.ok /\ h.size = 0 /\ k.cur = 0 => c = <<>>)
      /\ Entered(h, root[h.slot])
  BY OpenChain DEF Settled
<1>3. Entered(k, root[k.slot])
  BY <1>1, <1>2 DEF Entered
<1>4. Stands(k, c, f \in Trusted(r, x))
  BY DEF Stands
<1>5. Table(Seen(r)) = t /\ Root(Seen(r)) = root /\ (r.ok => s.ok)
  BY DEF Serves
<1>6. FileOk(t, root, f, k, c, f \in x.long, f \in Trusted(r, x), x.full /\ r.ok)
  BY <1>1, <1>2, <1>3, <1>4, <1>5 DEF FileOk, FirstIn, SizeIn
<1> QED BY <1>5, <1>6 DEF OfFile

\* What a move of the handle does to a call.
Roams(s, r, x, pos) ==
  /\ Inside(r, x) /\ Near(s, r) /\ Carried(s.h, r.h)
  /\ r.ok => r.h.pos = pos /\ pos <= s.h.size
  /\ x.f \in x.long /\ (x.f \in Trusted(s, x) \/ s.h.pos = 0 \/ pos = 0) /\ pos <= s.h.size => Certain(s, r)

\* seekSet() keeps the invariant of a call.
LEMMA InsideSeek ==
  ASSUME NEW s, NEW x, Inside(s, x), x.f \in x.live, s.h.open, Settled(s, x),
         NEW pos, pos \in Nat, NEW r, r = SeekSet(s, pos)
  PROVE  Roams(s, r, x, pos)
<1>1. ASSUME NEW c, OfFile(s, x, c)
      PROVE  Sought(s, r, x.f, c, x.f \in Trusted(s, x), pos)
  <2> PICK exact, f : exact = (x.f \in Trusted(s, x)) /\ f = x.f
    OBVIOUS
  <2>1. /\ Sound(s) /\ HandleOk(f, s.h) /\ s.h \in Handle /\ c \in Seq(Clusters)
        /\ Linked(Table(Seen(s)), s.h.first, c) /\ (s.h.size > 0 => c # <<>>)
        /\ Stands(s.h, c, exact)
    BY <1>1, OpenChain
  <2>2. pos \in Nat /\ r = SeekSet(s, pos)
    OBVIOUS
  <2>3. Sought(s, r, f, c, exact, pos)
    BY ONLY <2>1, <2>2, SeekFacts
  <2> QED BY <2>3
<1> PICK c : OfFile(s, x, c)
  BY InsideChain
<1>2. Near(s, r) /\ Ends(s, r, x.f, c) /\ (r.ok => r.h.pos = pos /\ pos <= s.h.size)
  BY <1>1 DEF Sought
<1>3. s.h \in Handle
  BY OpenChain
<1>4. Carried(s.h, r.h)
  <2>1. PICK cur \in Nat, p \in Nat : r.h = Turned(s.h, cur, p)
    BY <1>2 DEF Ends
  <2>2. Moved(s.h, cur, p, r.h)
    BY <1>3, <2>1, TurnedFacts
  <2> QED BY <2>2 DEF Carried
<1>5. ASSUME NEW d, OfFile(s, x, d) PROVE OfFile(r, x, d)
  <2>1. Sought(s, r, x.f, d, x.f \in Trusted(s, x), pos)
    BY <1>1, <1>5
  <2>2. Stands(r.h, d, FALSE)
    BY <2>1 DEF Sought, Ends
  <2>3. ASSUME x.f \in Trusted(r, x) PROVE Stands(r.h, d, TRUE)
    <3>1. r.ok /\ s.ok /\ x.f \in x.exact /\ x.f \in x.long
      BY <1>2, <2>3 DEF Trusted, Near, GoesOn, Inside
    <3>2. x.f \in Trusted(s, x) /\ s.h.size <= Len(d) * ClusterUnits
      BY <1>5, <3>1, OpenChain DEF Trusted
    <3> QED BY <2>1, <3>1, <3>2 DEF Sought
  <2> QED BY <1>2, <1>4, <1>5, <2>2, <2>3, CarriedFile DEF Near
<1>6. Inside(r, x)
  BY <1>2, <1>5, InsideServes DEF Near, Ends
<1>7. ASSUME x.f \in x.long, x.f \in Trusted(s, x) \/ s.h.pos = 0 \/ pos = 0, pos <= s.h.size
      PROVE  Certain(s, r)
  <2>1. s.h.size <= Len(c) * ClusterUnits
    BY <1>7, OpenChain
  <2> QED BY <1>1, <1>7, <2>1 DEF Sought
<1> QED BY <1>2, <1>4, <1>6, <1>7 DEF Roams

-----------------------------------------------------------------------------
(* Data blocks *)

\* Where neither the table nor the directory is: blocks of data, those a position at
\* the end of a chain stands for, and none.
Loose == DataBlocks \cup BehindVolume \cup {None}

LEMMA LooseFacts ==
  /\ Loose \subseteq Numbers \ Mirrors /\ Loose \cap FatBlocks = {} /\ RootDirStart \notin Loose /\ 0 \notin Loose
  /\ Loose \cap Blocks = DataBlocks /\ DataBlocks \subseteq Blocks
<1>1. BehindVolume \cap Blocks = {}
  <2>1. ClusterStartBlock(EOC) = DataStart + ClusterCount * BlocksPerCluster
    BY VolumeAssumption DEF ClusterStartBlock, EOC, LastCluster
  <2>2. PICK n \in Nat : n = ClusterCount * BlocksPerCluster /\ DataStart \in Nat
    BY Layout
  <2>3. Blocks = 0 .. DataStart + n - 1
    BY <2>2 DEF Blocks
  <2>4. \A b \in BehindVolume : b \in Int /\ b >= DataStart + n
    BY <2>1, <2>2 DEF BehindVolume
  <2> QED BY <2>2, <2>3, <2>4
<1>2. None \notin Blocks
  BY Layout DEF None
<1>3. /\ FatBlocks \subseteq Blocks /\ Mirrors \subseteq Blocks /\ RootDirStart \in Blocks /\ 0 \in Blocks
      /\ DataBlocks \subseteq Blocks /\ 0 \notin DataBlocks /\ RootDirStart \notin DataBlocks
      /\ FatBlocks \cap DataBlocks = {} /\ Mirrors \cap DataBlocks = {}
  BY Layout
<1> QED BY <1>1, <1>2, <1>3 DEF Loose, Numbers

\* The cache is at the data, before and after the step.
LEMMA LooseServes ==
  ASSUME NEW s, Sound(s), s.num \in Loose \/ ~s.dirty, NEW r \in State, r.num \in Loose, r.mirror = s.mirror,
         r.ok => s.ok, s.blown => r.blown, r.start = s.start,
         \A b \in Blocks \ DataBlocks : r.card[b] = s.card[b],
         ~r.dirty /\ r.num \in Blocks => r.buf = r.card[r.num]
  PROVE  Serves(s, r)
<1>1. s.mirror = 0 /\ r.mirror = 0
  BY LooseFacts DEF Sound, Coherent
<1>2. /\ View(s) \in [Blocks -> Block] /\ View(r) \in [Blocks -> Block]
      /\ \A b \in Blocks \ DataBlocks : View(s)[b] = s.card[b] /\ View(r)[b] = s.card[b]
  <2>1. s \in State
    BY DEF Sound
  <2>2. \A b \in Blocks \ DataBlocks : View(s)[b] = s.card[b]
    <3>1. CASE ~s.dirty
      BY <3>1, MainFacts
    <3>2. CASE s.num \in Loose
      BY <2>1, <3>2, LooseFacts DEF View, State
    <3> QED BY <3>1, <3>2
  <2>3. \A b \in Blocks \ DataBlocks : View(r)[b] = r.card[b]
    BY LooseFacts DEF View, State
  <2>4. View(s) \in [Blocks -> Block] /\ View(r) \in [Blocks -> Block]
    BY <2>1 DEF View, State
  <2> QED BY <2>2, <2>3, <2>4
<1>3. /\ FatBlocks \subseteq Blocks \ DataBlocks /\ RootDirStart \in Blocks \ DataBlocks
      /\ FatBlocks \cap Mirrors = {} /\ RootDirStart \notin Mirrors
      /\ \A c \in 0 .. LastCluster : FatBlock(c) \in FatBlocks
      /\ FatCount = 2 => \A b \in FatBlocks : b + BlocksPerFat \in Blocks \ DataBlocks
  BY Layout
<1>4. Typed(s.card) /\ Typed(View(s))
  BY DEF Sound, Coherent
<1>5. Typed(r.card) /\ Typed(View(r))
  BY <1>2, <1>3, <1>4 DEF Typed
<1>6. Coherent(r)
  BY <1>1, <1>5, LooseFacts DEF Coherent
<1>7. /\ Root(Seen(r)) = Root(Seen(s)) /\ Table(Seen(r)) = Table(Seen(s))
      /\ Root(Main(r.card)) = Root(Main(s.card)) /\ Table(Main(r.card)) = Table(Main(s.card))
  BY <1>2, <1>3 DEF Root, Table, Seen, Main
<1>8. Twin(s) => Twin(r)
  BY <1>3, LooseFacts DEF Twin
<1> QED BY <1>6, <1>7, <1>8 DEF Serves, Sound, CardAlters

\* A block of data is stored on the card; it is not the one in memory.
LEMMA StoreServes ==
  ASSUME NEW s, Sound(s), NEW b \in Loose, s.num # b, NEW data \in Block, NEW r, r = WriteBlock(s, b, data)
  PROVE  /\ Serves(s, r) /\ r.h = s.h /\ r.left = s.left /\ r.got = s.got
         /\ r.ok => b \in Blocks
<1>1. s \in State /\ b \in Numbers
  BY LooseFacts DEF Sound
<1>2. /\ r \in State /\ Apart(s, r)
      /\ r.card = s.card \/ (b \in Blocks \ {0} /\ r.card = [s.card EXCEPT ![b] = data])
      /\ (r.ok => s.ok) /\ (s.blown => r.blown) /\ (r.ok => b \in Blocks \ {0})
  BY <1>1, WriteFacts
<1>3. /\ r.num = s.num /\ r.buf = s.buf /\ r.dirty = s.dirty /\ r.mirror = s.mirror
      /\ r.h = s.h /\ r.left = s.left /\ r.got = s.got /\ r.start = s.start
  BY <1>2 DEF Apart
<1>4. /\ \A a \in Blocks \ DataBlocks : r.card[a] = s.card[a]
      /\ r.num \in Blocks => r.card[r.num] = s.card[r.num]
  BY <1>1, <1>2, <1>3, LooseFacts DEF State
<1>5. /\ View(s) \in [Blocks -> Block] /\ View(r) \in [Blocks -> Block]
      /\ \A a \in Blocks \ DataBlocks : View(r)[a] = View(s)[a]
  <2>1. \A a \in Blocks : /\ View(s)[a] = IF a = s.num THEN s.buf ELSE s.card[a]
                          /\ View(r)[a] = IF a = s.num THEN s.buf ELSE r.card[a]
    BY <1>1, <1>2, <1>3 DEF View, State
  <2>2. View(s) \in [Blocks -> Block] /\ View(r) \in [Blocks -> Block]
    BY <1>1, <1>2 DEF View, State
  <2> QED BY <1>4, <2>1, <2>2
<1>6. /\ FatBlocks \subseteq Blocks \ DataBlocks /\ RootDirStart \in Blocks \ DataBlocks
      /\ FatBlocks \cap Mirrors = {} /\ RootDirStart \notin Mirrors
      /\ \A c \in 0 .. LastCluster : FatBlock(c) \in FatBlocks
      /\ FatCount = 2 => \A a \in FatBlocks : a + BlocksPerFat \in Blocks \ DataBlocks
  BY Layout
<1>7. Typed(s.card) /\ Typed(View(s))
  BY DEF Sound, Coherent
<1>8. Typed(r.card) /\ Typed(View(r))
  BY <1>4, <1>5, <1>6, <1>7 DEF Typed
<1>9. Coherent(r)
  BY <1>3, <1>4, <1>8 DEF Sound, Coherent
<1>10. /\ Root(Seen(r)) = Root(Seen(s)) /\ Table(Seen(r)) = Table(Seen(s))
       /\ Root(Main(r.card)) = Root(Main(s.card)) /\ Table(Main(r.card)) = Table(Main(s.card))
  BY <1>4, <1>5, <1>6 DEF Root, Table, Seen, Main
<1>11. Twin(s) => Twin(r)
  BY <1>3, <1>4, <1>6 DEF Twin
<1> QED BY <1>2, <1>3, <1>9, <1>10, <1>11 DEF Serves, Sound, CardAlters

LEMMA DivFacts ==
  ASSUME NEW p \in Nat, NEW d \in Nat \ {0}
  PROVE  /\ p \div d \in Nat /\ p % d \in 0 .. d - 1 /\ p = d * (p \div d) + (p % d)
<1>1. d \in Nat /\ d > 0
  OBVIOUS
<1>2. p \div d \in Int /\ p % d \in 0 .. d - 1 /\ p = d * (p \div d) + (p % d)
  BY <1>1, Z3
<1>3. p \div d >= 0
  BY <1>1, Z3
<1> QED BY <1>2, <1>3

\* The turn of a read or write at pos with left units to go: the block in its cluster,
\* the place in the block, and the cluster its units are in.
Turns(s, n) ==
  /\ Offset(s) \in SlotNumbers /\ BlockOfCluster(s) \in 0 .. BlocksPerCluster - 1
  /\ n \in 1 .. Slots /\ n <= s.left /\ Offset(s) + n <= Slots
  /\ n = Slots => Offset(s) = 0
  /\ AtCluster(s) /\ s.h.pos > 0 => Nth(s.h.pos + n) = Nth(s.h.pos) + 1
  /\ AtCluster(s) /\ s.h.pos = 0 => Nth(s.h.pos + n) = 1
  /\ ~AtCluster(s) => s.h.pos > 0 /\ Nth(s.h.pos + n) = Nth(s.h.pos)

LEMMA NthIs ==
  ASSUME NEW m \in Nat, NEW p \in Nat \ {0}, m * ClusterUnits < p, p <= (m + 1) * ClusterUnits
  PROVE  Nth(p) = m + 1
<1>1. Nth(p) <= m + 1
  <2>1. m + 1 \in Nat
    OBVIOUS
  <2> QED BY <2>1, NthFits
<1>2. ~(Nth(p) <= m)
  <2>1. ~(p <= m * ClusterUnits)
    BY Units
  <2> QED BY <2>1, NthFits
<1>3. Nth(p) \in Nat \ {0}
  BY NthFacts
<1> QED BY <1>1, <1>2, <1>3

LEMMA TurnFacts ==
  ASSUME NEW s, s.h.pos \in Nat, s.left \in Nat \ {0}
  PROVE  Turns(s, InBlock(s))
<1> PICK p, o, q, b, m, n, l, S, B :
      /\ p = s.h.pos /\ o = p % Slots /\ q = p \div Slots /\ b = q % BlocksPerCluster
      /\ m = q \div BlocksPerCluster /\ n = InBlock(s) /\ l = s.left
      /\ S = Slots /\ B = BlocksPerCluster
  OBVIOUS
<1>1. S \in Nat \ {0} /\ B \in Nat \ {0}
  BY VolumeAssumption
<1>2. p \in Nat /\ q \in Nat /\ o \in 0 .. S - 1 /\ p = S * q + o
  BY <1>1, DivFacts
<1>3. m \in Nat /\ b \in 0 .. B - 1 /\ q = B * m + b
  BY <1>1, <1>2, DivFacts
<1>4. n = IF S - o < l THEN S - o ELSE l
  BY DEF InBlock, Least, Offset
<1>5. n \in 1 .. S /\ n <= l /\ o + n <= S /\ (n = S => o = 0)
  <2>1. l \in Nat \ {0}
    OBVIOUS
  <2> QED BY ONLY <1>1, <1>2, <1>4, <2>1
<1>6. Offset(s) = o /\ BlockOfCluster(s) = b /\ ClusterUnits = S * B
  BY DEF Offset, BlockOfCluster, ClusterUnits
<1>7. PICK c, e : c = S * B /\ e = S * b /\ c \in Nat /\ e \in Nat
  <2>1. S \in Nat /\ B \in Nat /\ b \in Nat /\ 0 < S
    BY <1>1, <1>3
  <2>2. S * B \in Nat /\ S * b \in Nat
    BY <2>1, Products
  <2> QED BY <2>2
<1>23. c \in Nat /\ e \in Nat
  BY <1>7
<1>8. S * q = m * c + e
  <2>1. S * (B * m + b) = S * (B * m) + S * b
    BY <1>1, <1>3
  <2>2. S * (B * m) = m * (S * B)
    BY <1>1, <1>3
  <2> QED BY <1>3, <1>7, <2>1, <2>2
<1>9. e + S <= c /\ (b = 0 => e = 0) /\ (e = 0 => b = 0)
  <2>1. b \in Nat /\ B \in Nat /\ S \in Nat /\ b < B
    BY <1>1, <1>3
  <2>2. b * S + S <= B * S
    BY <2>1, Products
  <2>3. b * S = e /\ B * S = c
    BY <1>7, <2>1
  <2>4. b = 0 => e = 0
    BY <1>7, <2>1
  <2>5. ASSUME b # 0 PROVE e # 0
    <3>1. 0 * S + S <= b * S
      BY <2>1, <2>5, Products
    <3> QED BY <1>1, <2>3, <3>1
  <2> QED BY <2>2, <2>3, <2>4, <2>5
<1>10. PICK w : w = m * c /\ w \in Nat
  <2>1. m < m + 1 /\ m \in Nat /\ m + 1 \in Nat
    BY <1>3
  <2>2. m * c \in Nat
    BY <1>23, <2>1, Products
  <2> QED BY <2>2
<1>24. w \in Nat
  BY <1>10
<1>25. c > 0
  BY ONLY <1>1, <1>9, <1>23
<1>11. p = w + e + o
  BY <1>2, <1>8, <1>10
<1>12. (m + 1) * c = w + c
  BY <1>3, <1>7, <1>10
<1>13. w < p + n /\ p + n <= w + c /\ p + n \in Nat \ {0}
  BY ONLY <1>1, <1>2, <1>5, <1>7, <1>9, <1>10, <1>11
<1>14. Nth(p + n) = m + 1
  <2>1. m * ClusterUnits < p + n /\ p + n <= (m + 1) * ClusterUnits
    BY <1>6, <1>7, <1>10, <1>12, <1>13
  <2>2. PICK z : z = p + n /\ z \in Nat \ {0}
    BY <1>13
  <2>3. m * ClusterUnits < z /\ z <= (m + 1) * ClusterUnits /\ m \in Nat /\ z \in Nat \ {0}
    BY <1>3, <2>1, <2>2
  <2>4. Nth(z) = m + 1
    BY ONLY <2>3, NthIs
  <2> QED BY <2>2, <2>4
<1>15. AtCluster(s) <=> o = 0 /\ e = 0
  BY <1>6, <1>9 DEF AtCluster
<1>16. ASSUME ~AtCluster(s) PROVE p > 0 /\ Nth(p) = m + 1
  <2>1. p > w /\ p <= w + c /\ p \in Nat \ {0}
    BY ONLY <1>1, <1>2, <1>7, <1>9, <1>10, <1>11, <1>15, <1>16
  <2>2. m * ClusterUnits < p /\ p <= (m + 1) * ClusterUnits /\ m \in Nat /\ p \in Nat \ {0}
    BY <1>3, <1>6, <1>7, <1>10, <1>12, <2>1
  <2>3. Nth(p) = m + 1
    BY ONLY <2>2, NthIs
  <2> QED BY <2>1, <2>3
<1>17. ASSUME AtCluster(s), p > 0 PROVE Nth(p) = m
  <2>1. p = w
    BY ONLY <1>11, <1>15, <1>17, <1>23, <1>24
  <2>2. m # 0
    <3>1. m = 0 => m * c = 0
      BY <1>23
    <3> QED BY ONLY <1>10, <1>17, <2>1, <3>1
  <2> PICK k : k = m - 1 /\ k \in Nat /\ m = k + 1
    BY <1>3, <2>2
  <2>3. w = k * c + c /\ k * c \in Nat
    BY <1>7, <1>10
  <2>4. k * c < p /\ p <= (k + 1) * c
    <3>1. (k + 1) * c = k * c + c
      BY <1>23
    <3> PICK z : z = k * c
      OBVIOUS
    <3>2. w = z + c /\ z \in Nat /\ (k + 1) * c = z + c
      BY <2>3, <3>1
    <3>3. z < p /\ p <= z + c
      BY ONLY <1>23, <1>24, <1>25, <2>1, <3>2
    <3> QED BY <3>2, <3>3
  <2>5. k * ClusterUnits < p /\ p <= (k + 1) * ClusterUnits /\ k \in Nat /\ p \in Nat \ {0}
    BY <1>2, <1>6, <1>7, <1>17, <2>4
  <2>6. Nth(p) = k + 1
    BY ONLY <2>5, NthIs
  <2> QED BY <2>6
<1>18. ASSUME AtCluster(s), p = 0 PROVE m + 1 = 1
  <2>1. w = 0 /\ c > 0
    BY ONLY <1>11, <1>15, <1>18, <1>23, <1>24, <1>25
  <2>2. ASSUME m # 0 PROVE FALSE
    <3>1. 0 \in Nat /\ m \in Nat /\ 0 < m
      BY <1>3, <2>2
    <3>2. 0 * c + c <= m * c
      BY <1>23, <3>1, Products
    <3>3. 0 * c = 0
      BY <1>23
    <3> QED BY ONLY <1>10, <1>23, <2>1, <3>2, <3>3
  <2> QED BY <2>2
<1>19. Offset(s) \in SlotNumbers /\ BlockOfCluster(s) \in 0 .. BlocksPerCluster - 1
       /\ n \in 1 .. Slots /\ n <= s.left /\ Offset(s) + n <= Slots /\ (n = Slots => Offset(s) = 0)
  BY <1>2, <1>3, <1>5, <1>6 DEF SlotNumbers
<1>20. AtCluster(s) /\ p > 0 => Nth(p + n) = Nth(p) + 1
  BY <1>14, <1>17
<1>21. AtCluster(s) /\ p = 0 => Nth(p + n) = 1
  BY <1>14, <1>18
<1>22. ~AtCluster(s) => p > 0 /\ Nth(p + n) = Nth(p)
  BY <1>14, <1>16
<1> QED BY <1>19, <1>20, <1>21, <1>22 DEF Turns

\* The block of a position is a block of data, or behind the volume.
LEMMA BlockFacts ==
  ASSUME NEW s, BlockOfCluster(s) \in 0 .. BlocksPerCluster - 1, s.h.cur \in Clusters \cup {EOC}
  PROVE  BlockAt(s) \in Loose /\ BlockAt(s) # None /\ (s.h.cur = EOC => BlockAt(s) \notin Blocks)
<1> PICK k \in 0 .. BlocksPerCluster - 1 : k = BlockOfCluster(s)
  OBVIOUS
<1>1. /\ \A c \in Clusters : ClusterStartBlock(c) + k \in DataBlocks
      /\ ClusterStartBlock(EOC) + k \in BehindVolume
  BY ClusterBlocks
<1>2. None \notin DataBlocks /\ DataBlocks \subseteq Blocks
  BY Layout DEF None
<1>3. ClusterStartBlock(EOC) + k \notin Blocks /\ ClusterStartBlock(EOC) + k # None
  <2>1. ClusterStartBlock(EOC) = DataStart + ClusterCount * BlocksPerCluster
    BY VolumeAssumption DEF ClusterStartBlock, EOC, LastCluster
  <2>2. PICK n \in Nat : n = ClusterCount * BlocksPerCluster /\ DataStart \in Nat
    BY Layout
  <2>3. Blocks = 0 .. DataStart + n - 1
    BY <2>2 DEF Blocks
  <2>4. k \in Nat
    OBVIOUS
  <2> QED BY <2>1, <2>2, <2>3, <2>4 DEF None
<1> QED BY <1>1, <1>2, <1>3 DEF BlockAt, Loose

\* Nothing that a call keeps but the cache changes.
Steady(s, r) == Serves(s, r) /\ r.h = s.h /\ r.left = s.left /\ r.got = s.got

LEMMA SteadyTwice == ASSUME NEW s, NEW r, NEW q, Steady(s, r), Steady(r, q) PROVE Steady(s, q)
BY ServesTwice DEF Steady

LEMMA KeepsSteady == ASSUME NEW s, NEW r, Keeps(s, r) PROVE Steady(s, r)
BY KeepsServes DEF Keeps, Leads, Steady

LEMMA ReadServes ==
  ASSUME NEW s, Sound(s), NEW b \in Numbers, NEW r, r = ReadBlock(s, b)
  PROVE  Steady(s, r) /\ (r.ok => b \in Blocks)
<1>1. s \in State
  BY DEF Sound
<1>2. /\ r \in State /\ r.card = s.card /\ Apart(s, r)
      /\ (r.ok => s.ok /\ b \in Blocks) /\ (s.blown => r.blown)
  BY <1>1, ReadFacts
<1>3. SameCache(s, r) /\ r.h = s.h /\ r.left = s.left /\ r.got = s.got /\ r.start = s.start
  BY <1>2 DEF Apart, SameCache
<1> QED BY <1>2, <1>3, SameServes DEF Steady

\* A block of data is brought into memory.
LEMMA RawLoose ==
  ASSUME NEW s, Sound(s), NEW b, b \in Loose, b # None, NEW w, w \in BOOLEAN, NEW r, r = CacheRawBlock(s, b, w)
  PROVE  Steady(s, r) /\ (r.ok => r.num = b /\ (w => r.dirty))
<1>0. s \in State
  BY DEF Sound
<1>1. CASE b \in Blocks
  <2>1. b \in Blocks \ ({0} \cup Mirrors) /\ b \notin FatBlocks
    BY <1>1, LooseFacts
  <2>2. Keeps(s, r) /\ (r.ok => r.num = b /\ (w => r.dirty))
    BY <2>1, RawKeeps
  <2> QED BY <2>2, KeepsSteady
<1>2. CASE b \notin Blocks /\ s.num = b
  <2>1. PICK d \in BOOLEAN : d = (s.dirty \/ (s.ok /\ w))
    OBVIOUS
  <2>2. r = [s EXCEPT !.dirty = d]
    BY <1>2, <2>1 DEF CacheRawBlock
  <2>3. /\ r \in State /\ r.num = s.num /\ r.mirror = s.mirror /\ r.card = s.card /\ r.ok = s.ok
        /\ r.blown = s.blown /\ r.start = s.start /\ r.h = s.h /\ r.left = s.left /\ r.got = s.got
        /\ r.dirty = d
    BY <1>0, <2>2 DEF State
  <2>4. Serves(s, r)
    BY <1>2, <2>3, LooseServes
  <2> QED BY <1>2, <2>1, <2>3, <2>4 DEF Steady
<1>3. CASE b \notin Blocks /\ s.num # b
  <2> PICK g : g = CacheFlush(s)
    OBVIOUS
  <2> PICK q : q = ReadBlock(g, b)
    OBVIOUS
  <2>1. Keeps(s, g)
    BY FlushKeeps
  <2>2. Sound(g) /\ Steady(s, g)
    BY <2>1, KeepsSteady DEF Keeps, Leads
  <2>3. Steady(g, q) /\ ~q.ok
    BY <1>3, <2>2, LooseFacts, ReadServes
  <2>4. r = q
    BY <1>3, <2>3 DEF CacheRawBlock, Then
  <2> QED BY <2>2, <2>3, <2>4, SteadyTwice
<1> QED BY <1>1, <1>2, <1>3

\* What a turn leaves behind that went well: n units further.
Stepping(s, r, n) ==
  Moved(s.h, s.h.cur, s.h.pos + n, r.h) /\ r.left = s.left - n

LEMMA AdvanceFacts ==
  ASSUME NEW s, Sound(s), s.h \in Handle, s.left \in Nat \ {0}, NEW r, r = Advance(s)
  PROVE  Serves(s, r) /\ Stepping(s, r, InBlock(s)) /\ r.ok = s.ok /\ r.blown = s.blown
<1> PICK n : n = InBlock(s)
  OBVIOUS
<1>1. s.h.pos \in Nat /\ s.h.cur \in Nat /\ s \in State
  BY HandleTypes DEF Sound
<1>2. n \in Nat /\ n <= s.left
  BY <1>1, TurnFacts, VolumeAssumption DEF Turns
<1> PICK p, l : p = s.h.pos + n /\ l = s.left - n
  OBVIOUS
<1>3. p \in Nat /\ l \in Int
  BY <1>1, <1>2
<1> PICK k : k = Turned(s.h, s.h.cur, p)
  OBVIOUS
<1>4. Moved(s.h, s.h.cur, p, k)
  BY <1>1, <1>3, TurnedFacts
<1>5. k \in Handle
  BY <1>4 DEF Moved
<1>6. r = [s EXCEPT !.h = k, !.left = l]
  <2>1. [s.h EXCEPT !.pos = p] = k
    BY <1>1 DEF Turned, Handle
  <2>2. r = [s EXCEPT !.h = [s.h EXCEPT !.pos = p], !.left = l]
    BY <1>1 DEF Advance, State, Handle
  <2> QED BY <2>1, <2>2
<1>7. /\ r \in State /\ SameCache(s, r) /\ r.h = k /\ r.left = l /\ r.ok = s.ok
      /\ r.blown = s.blown /\ r.start = s.start
  <2>1. [s EXCEPT !.h = k] \in State
    BY <1>1, <1>5 DEF State
  <2>2. r = [[s EXCEPT !.h = k] EXCEPT !.left = l]
    BY <1>6
  <2>3. r \in State
    <3> PICK z : z = [s EXCEPT !.h = k]
      OBVIOUS
    <3> QED BY <1>3, <2>1, <2>2 DEF State
  <2> QED BY <1>1, <1>6, <2>3 DEF State, SameCache
<1>8. Serves(s, r)
  BY <1>7, SameServes
<1> QED BY <1>4, <1>7, <1>8 DEF Stepping

LEMMA TakeFacts ==
  ASSUME NEW s, Sound(s), s.h \in Handle, s.left \in Nat \ {0}, NEW data \in Block, NEW r, r = Take(s, data)
  PROVE  Serves(s, r) /\ r.h = s.h /\ r.left = s.left /\ r.ok = s.ok /\ r.blown = s.blown
<1> PICK n, o : n = InBlock(s) /\ o = Offset(s)
  OBVIOUS
<1>1. s.h.pos \in Nat /\ s \in State
  BY HandleTypes DEF Sound
<1>2. n \in 1 .. Slots /\ o \in SlotNumbers /\ o + n <= Slots
  BY <1>1, TurnFacts DEF Turns
<1>3. \A i \in 1 .. n : o + i - 1 \in SlotNumbers /\ data[o + i - 1] \in Int \cup DirEntry
  <2>1. \A i \in 1 .. n : o + i - 1 \in SlotNumbers
    BY <1>2, VolumeAssumption DEF SlotNumbers
  <2> QED BY <2>1 DEF Block
<1> PICK e : e = [i \in 1 .. n |-> data[o + i - 1]]
  OBVIOUS
<1>4. e \in Seq(Int \cup DirEntry)
  BY <1>2, <1>3, VolumeAssumption
<1> PICK g : g = s.got \o e
  OBVIOUS
<1>5. g \in Seq(Int \cup DirEntry)
  <2>1. s.got \in Seq(Int \cup DirEntry)
    BY <1>1 DEF State
  <2> QED BY <1>4, <2>1
<1>6. r = [s EXCEPT !.got = g]
  BY DEF Take
<1>7. /\ r \in State /\ SameCache(s, r) /\ r.h = s.h /\ r.left = s.left /\ r.ok = s.ok
      /\ r.blown = s.blown /\ r.start = s.start
  BY <1>1, <1>5, <1>6 DEF State, SameCache
<1> QED BY <1>7, SameServes

\* A turn of n units, or one that failed, at a block of data.
Turning(s, r) ==
  /\ Serves(s, r) /\ (r.ok => Stepping(s, r, InBlock(s)))
  /\ ~r.ok => r.h = s.h /\ r.left = s.left

LEMMA TakeAdvance ==
  ASSUME NEW s, NEW q, Steady(s, q), s.h \in Handle, s.left \in Nat \ {0},
         NEW data \in Block, NEW r, r = Advance(Take(q, data))
  PROVE  Serves(s, r) /\ Stepping(s, r, InBlock(s)) /\ r.ok = q.ok
<1> PICK t : t = Take(q, data)
  OBVIOUS
<1>1. Sound(q) /\ q.h = s.h /\ q.left = s.left /\ Serves(s, q)
  BY DEF Steady, Serves
<1>2. Serves(q, t) /\ t.h = s.h /\ t.left = s.left /\ t.ok = q.ok
  BY <1>1, TakeFacts
<1>3. Sound(t) /\ InBlock(t) = InBlock(s)
  BY <1>2 DEF Serves, InBlock, Offset
<1>4. Serves(t, r) /\ Stepping(t, r, InBlock(t)) /\ r.ok = t.ok
  BY <1>2, <1>3, AdvanceFacts
<1>5. Serves(s, r)
  BY <1>1, <1>2, <1>4, ServesTwice
<1> QED BY <1>2, <1>3, <1>4, <1>5 DEF Stepping

LEMMA LoadFacts ==
  ASSUME NEW s, Sound(s), s.h \in Handle, s.left \in Nat \ {0}, s.h.cur \in Clusters \cup {EOC},
         NEW r, r = Load(s)
  PROVE  Turning(s, r)
<1> PICK b : b = BlockAt(s)
  OBVIOUS
<1>1. s.h.pos \in Nat
  BY HandleTypes
<1>2. b \in Loose /\ b # None /\ b \in Numbers
  BY <1>1, TurnFacts, BlockFacts, LooseFacts DEF Turns
<1>3. CASE InBlock(s) = Slots /\ b # s.num
  <2> PICK q : q = ReadBlock(s, b)
    OBVIOUS
  <2>1. Steady(s, q) /\ (q.ok => b \in Blocks)
    BY <1>2, ReadServes
  <2>2. q.h = s.h /\ q.left = s.left /\ q \in State /\ BlockAt(q) = b
    BY <2>1 DEF Steady, Serves, Sound, BlockAt, BlockOfCluster
  <2>3. r = IF q.ok THEN Advance(Take(q, q.card[b])) ELSE q
    BY <1>3, <2>2 DEF Load, Then
  <2>4. CASE q.ok
    <3> PICK data : data = q.card[b]
      OBVIOUS
    <3>1. data \in Block
      BY <2>1, <2>2, <2>4 DEF State
    <3>2. r = Advance(Take(q, data))
      BY <2>3, <2>4
    <3>3. Serves(s, r) /\ Stepping(s, r, InBlock(s)) /\ r.ok = q.ok
      BY <2>1, <3>1, <3>2, TakeAdvance
    <3> QED BY <2>4, <3>3 DEF Turning
  <2>5. CASE ~q.ok
    BY <2>1, <2>3, <2>5 DEF Turning, Steady
  <2> QED BY <2>4, <2>5
<1>4. CASE ~(InBlock(s) = Slots /\ b # s.num)
  <2> PICK w, q : w = FALSE /\ q = CacheRawBlock(s, b, w)
    OBVIOUS
  <2>0. w \in BOOLEAN /\ q = CacheRawBlock(s, b, w)
    OBVIOUS
  <2>1. Steady(s, q)
    BY <1>2, <2>0, RawLoose
  <2>2. q \in State
    BY <2>1 DEF Steady, Serves, Sound
  <2>3. r = IF q.ok THEN Advance(Take(q, q.buf)) ELSE q
    BY <1>4 DEF Load, Then
  <2>4. CASE q.ok
    <3> PICK data : data = q.buf
      OBVIOUS
    <3>1. data \in Block
      BY <2>2 DEF State
    <3>2. r = Advance(Take(q, data))
      BY <2>3, <2>4
    <3>3. Serves(s, r) /\ Stepping(s, r, InBlock(s)) /\ r.ok = q.ok
      BY <2>1, <3>1, <3>2, TakeAdvance
    <3> QED BY <2>4, <3>3 DEF Turning
  <2>5. CASE ~q.ok
    BY <2>1, <2>3, <2>5 DEF Turning, Steady
  <2> QED BY <2>4, <2>5
<1> QED BY <1>3, <1>4

LEMMA SteadyAdvance ==
  ASSUME NEW s, NEW q, Steady(s, q), s.h \in Handle, s.left \in Nat \ {0}, NEW r, r = Advance(q)
  PROVE  Serves(s, r) /\ Stepping(s, r, InBlock(s)) /\ r.ok = q.ok
<1>1. Sound(q) /\ q.h = s.h /\ q.left = s.left /\ Serves(s, q) /\ InBlock(q) = InBlock(s)
  BY DEF Steady, Serves, InBlock, Offset
<1>2. Serves(q, r) /\ Stepping(q, r, InBlock(q)) /\ r.ok = q.ok
  BY <1>1, AdvanceFacts
<1>3. Serves(s, r)
  BY <1>1, <1>2, ServesTwice
<1> QED BY <1>1, <1>2, <1>3 DEF Stepping

\* The block in memory is given up.
Loosed(s, b) == [s EXCEPT !.num = IF @ = b THEN None ELSE @]

LEMMA WholeFacts ==
  ASSUME NEW s, Sound(s), NEW v, v \in Int, BlockAt(s) \in Loose, BlockAt(s) # None, NEW r, r = WholeBlock(s, v)
  PROVE  Steady(s, r)
<1> PICK b, data, q : b = BlockAt(s) /\ data = [i \in SlotNumbers |-> v] /\ q = Loosed(s, b)
  OBVIOUS
<1>1. r = WriteBlock(q, b, data)
  BY DEF WholeBlock, Loosed, SlotNumbers
<1>2. data \in Block
  BY DEF Block
<1>3. s \in State
  BY DEF Sound
<1>4. Steady(s, q) /\ q.num # b
  <2>1. CASE s.num = b
    <3>1. q = [s EXCEPT !.num = None]
      BY <2>1 DEF Loosed
    <3>2. None \in Loose /\ None \in Numbers /\ None \notin Blocks
      BY Layout DEF Loose, None, Numbers
    <3>3. /\ q \in State /\ q.num = None /\ q.mirror = s.mirror /\ q.card = s.card /\ q.ok = s.ok
          /\ q.blown = s.blown /\ q.start = s.start /\ q.h = s.h /\ q.left = s.left /\ q.got = s.got
      BY <1>3, <3>1, <3>2 DEF State
    <3>4. Serves(s, q)
      BY <2>1, <3>2, <3>3, LooseServes
    <3> QED BY <3>3, <3>4 DEF Steady
  <2>2. CASE s.num # b
    <3>1. q = s
      BY <1>3, <2>2 DEF Loosed, State
    <3> QED BY <2>2, <3>1, KeepsSame, KeepsSteady
  <2> QED BY <2>1, <2>2
<1>5. Sound(q)
  BY <1>4 DEF Steady, Serves
<1>6. Steady(q, r)
  BY <1>1, <1>2, <1>4, <1>5, StoreServes DEF Steady
<1> QED BY <1>4, <1>6, SteadyTwice

LEMMA ForPartFacts ==
  ASSUME NEW s, Sound(s), BlockAt(s) \in Loose, BlockAt(s) # None, NEW r, r = BlockForPart(s)
  PROVE  Steady(s, r) /\ (r.ok => r.num \in Loose /\ r.dirty)
<1> PICK b : b = BlockAt(s)
  OBVIOUS
<1>1. CASE Offset(s) = 0 /\ s.h.pos >= s.h.size
  <2> PICK g : g = CacheFlush(s)
    OBVIOUS
  <2>1. Keeps(s, g) /\ (g.ok => ~g.dirty)
    BY FlushKeeps
  <2>2. Steady(s, g) /\ Sound(g) /\ g \in State
    BY <2>1, KeepsSteady DEF Keeps, Leads, Sound
  <2>3. g.h = s.h
    BY <2>2 DEF Steady
  <2>4. BlockAt(g) = b
    BY <2>3 DEF BlockAt, BlockOfCluster
  <2>5. r = IF g.ok THEN [g EXCEPT !.num = b, !.dirty = TRUE] ELSE g
    BY <1>1, <2>4 DEF BlockForPart, Then
  <2>6. CASE g.ok
    <3>1. b \in Numbers /\ r = [g EXCEPT !.num = b, !.dirty = TRUE]
      BY <2>5, <2>6, LooseFacts
    <3>2. r \in State
      <4>1. [g EXCEPT !.num = b] \in State
        BY <2>2, <3>1 DEF State
      <4>2. PICK z : z = [g EXCEPT !.num = b]
        OBVIOUS
      <4>3. r = [z EXCEPT !.dirty = TRUE] /\ z \in State
        BY <3>1, <4>1, <4>2
      <4> QED BY <4>3 DEF State
    <3>3. /\ r.num = b /\ r.mirror = g.mirror /\ r.card = g.card /\ r.ok = g.ok /\ r.dirty
          /\ r.blown = g.blown /\ r.start = g.start /\ r.h = g.h /\ r.left = g.left /\ r.got = g.got
      BY <2>2, <3>1 DEF State
    <3>4. Serves(g, r)
      BY <2>1, <2>2, <2>6, <3>2, <3>3, LooseServes
    <3> QED BY <2>2, <3>3, <3>4, SteadyTwice DEF Steady
  <2>7. CASE ~g.ok
    BY <2>2, <2>5, <2>7
  <2> QED BY <2>6, <2>7
<1>2. CASE ~(Offset(s) = 0 /\ s.h.pos >= s.h.size)
  <2> PICK w, q : w = TRUE /\ q = CacheRawBlock(s, b, w)
    OBVIOUS
  <2>1. r = q
    BY <1>2 DEF BlockForPart
  <2>2. w \in BOOLEAN /\ w /\ b \in Loose /\ b # None /\ q = CacheRawBlock(s, b, w)
    OBVIOUS
  <2>3. Steady(s, q)
    BY <2>2, RawLoose
  <2>0. Sound(s)
    OBVIOUS
  <2>4. q.ok => q.num = b
    BY ONLY <2>0, <2>2, RawLoose
  <2>5. q.ok => (w => q.dirty)
    BY <2>2, RawLoose
  <2> QED BY <2>1, <2>2, <2>3, <2>4, <2>5
<1> QED BY <1>1, <1>2

LEMMA PartFacts ==
  ASSUME NEW s, Sound(s), NEW v, v \in Int, BlockAt(s) \in Loose, BlockAt(s) # None, NEW r, r = PartOfBlock(s, v)
  PROVE  Steady(s, r)
<1> PICK q : q = BlockForPart(s)
  OBVIOUS
<1>1. Steady(s, q) /\ (q.ok => q.num \in Loose /\ q.dirty)
  BY ForPartFacts
<1>2. Sound(q) /\ q \in State
  BY <1>1 DEF Steady, Serves, Sound
<1> PICK buf : buf = [i \in SlotNumbers |-> IF i \in Offset(s) .. Offset(s) + InBlock(s) - 1 THEN v ELSE q.buf[i]]
  OBVIOUS
<1>3. r = IF q.ok THEN [q EXCEPT !.buf = buf] ELSE q
  BY <1>2 DEF PartOfBlock, Then, SlotNumbers, State
<1>4. CASE ~q.ok
  BY <1>1, <1>3, <1>4
<1>5. CASE q.ok
  <2>1. buf \in Block
    <3>1. \A i \in SlotNumbers : q.buf[i] \in Int \cup DirEntry
      BY <1>2 DEF State, Block
    <3> QED BY <3>1 DEF Block
  <2>2. /\ r \in State /\ r.num = q.num /\ r.mirror = q.mirror /\ r.card = q.card /\ r.ok = q.ok
        /\ r.dirty = q.dirty
        /\ r.blown = q.blown /\ r.start = q.start /\ r.h = q.h /\ r.left = q.left /\ r.got = q.got
    BY <1>2, <1>3, <1>5, <2>1 DEF State
  <2>3. Serves(q, r)
    BY <1>1, <1>2, <1>5, <2>2, LooseServes
  <2> QED BY <1>1, <2>2, <2>3, SteadyTwice DEF Steady
<1> QED BY <1>4, <1>5

LEMMA StoreFacts ==
  ASSUME NEW s, Sound(s), s.h \in Handle, s.left \in Nat \ {0}, s.h.cur \in Clusters \cup {EOC},
         NEW v, v \in Int, NEW r, r = Store(s, v)
  PROVE  Turning(s, r)
<1>1. s.h.pos \in Nat
  BY HandleTypes
<1>2. BlockAt(s) \in Loose /\ BlockAt(s) # None
  BY <1>1, TurnFacts, BlockFacts DEF Turns
<1> PICK q : q = IF InBlock(s) = Slots THEN WholeBlock(s, v) ELSE PartOfBlock(s, v)
  OBVIOUS
<1>3. Steady(s, q)
  <2>1. CASE InBlock(s) = Slots
    BY <1>2, <2>1, WholeFacts
  <2>2. CASE InBlock(s) # Slots
    BY <1>2, <2>2, PartFacts
  <2> QED BY <2>1, <2>2
<1>4. r = IF q.ok THEN Advance(q) ELSE q
  BY DEF Store, Then
<1>5. CASE q.ok
  <2>1. r = Advance(q)
    BY <1>4, <1>5
  <2>2. Serves(s, r) /\ Stepping(s, r, InBlock(s)) /\ r.ok = q.ok
    BY <1>3, <2>1, SteadyAdvance
  <2> QED BY <1>5, <2>2 DEF Turning
<1>6. CASE ~q.ok
  BY <1>3, <1>4, <1>6 DEF Turning, Steady
<1> QED BY <1>5, <1>6

-----------------------------------------------------------------------------
(* read() *)

\* The cluster of the next n units is at hand in m, when the chain is that long.
Reaches(s, m, c, exact, n) ==
  /\ Near(s, m) /\ (\E cur \in {EOC} \cup Ran(c) : m.h = Turned(s.h, cur, s.h.pos))
  /\ exact /\ m.ok /\ Nth(s.h.pos + n) <= Len(c) => m.h.cur = c[Nth(s.h.pos + n)]

\* Within a cluster nothing is to be looked up, ...
LEMMA ReachSame ==
  ASSUME NEW s, Sound(s), s.h \in Handle, NEW c \in Seq(Clusters), c # <<>>, NEW exact, Stands(s.h, c, exact),
         NEW n, Turns(s, n), ~AtCluster(s)
  PROVE  Reaches(s, s, c, exact, n)
<1>1. s.h.pos > 0 /\ Nth(s.h.pos + n) = Nth(s.h.pos) /\ s.h.pos \in Nat
  BY HandleTypes DEF Turns
<1>2. s.h.cur \in {EOC} \cup Ran(c)
  BY <1>1 DEF Stands
<1>3. \E cur \in {EOC} \cup Ran(c) : s.h = Turned(s.h, cur, s.h.pos)
  BY <1>2, TurnedSame
<1>4. Near(s, s)
  BY KeepsSame, KeepsNear
<1>5. exact => s.h.cur = c[Nth(s.h.pos)]
  BY <1>1 DEF Stands
<1> QED BY <1>1, <1>3, <1>4, <1>5 DEF Reaches

\* ... and at the start of the file its first cluster is known.
LEMMA ReachFirst ==
  ASSUME NEW s, Sound(s), s.h \in Handle, NEW c \in Seq(Clusters), c # <<>>, NEW exact,
         Linked(Table(Seen(s)), s.h.first, c), NEW n, Turns(s, n), AtCluster(s), s.h.pos = 0,
         NEW m, m = Holding(s, Turned(s.h, s.h.first, s.h.pos))
  PROVE  Reaches(s, m, c, exact, n)
<1>0. s.h.first \in Nat /\ s.h.pos \in Nat
  BY HandleTypes
<1>1. s.h.first = c[1] /\ 1 \in 1 .. Len(c) /\ c[1] \in Ran(c)
  BY DEF Linked, Ran
<1> PICK k : k = Turned(s.h, s.h.first, s.h.pos)
  OBVIOUS
<1>2. Moved(s.h, s.h.first, s.h.pos, k)
  BY <1>0, TurnedFacts
<1>3. k \in Handles /\ k.cur = s.h.first /\ m = Holding(s, k)
  BY <1>2 DEF Moved, Handles
<1>4. Near(s, m) /\ m.h = k
  BY <1>3, HoldingNear
<1>5. Nth(s.h.pos + n) = 1
  BY DEF Turns
<1> QED BY <1>1, <1>3, <1>4, <1>5 DEF Reaches

\* The cluster to read.
LEMMA ReadReaches ==
  ASSUME NEW s, Sound(s), s.h \in Handle, NEW c \in Seq(Clusters), c # <<>>, NEW exact, Stands(s.h, c, exact),
         Linked(Table(Seen(s)), s.h.first, c), NEW n, Turns(s, n), NEW m, m = ClusterForRead(s)
  PROVE  Reaches(s, m, c, exact, n)
<1>1. CASE ~AtCluster(s)
  BY <1>1, ReachSame DEF ClusterForRead
<1>2. CASE AtCluster(s) /\ s.h.pos = 0
  <2>1. m = Holding(s, Turned(s.h, s.h.first, s.h.pos))
    BY <1>2 DEF ClusterForRead, Sound, Holding, Turned, State, Handle
  <2> QED BY <1>2, <2>1, ReachFirst
<1>3. CASE AtCluster(s) /\ s.h.pos # 0
  <2>0. s.h.pos \in Nat \ {0}
    BY <1>3, HandleTypes
  <2>1. s.h.pos \in Nat \ {0} /\ Nth(s.h.pos + n) = Nth(s.h.pos) + 1
    BY <1>3, <2>0 DEF Turns
  <2>2. s.h.cur \in {EOC} \cup Ran(c)
    BY <2>1 DEF Stands
  <2>3. m = Follow(s)
    BY <1>3 DEF ClusterForRead
  <2> PICK first : first = s.h.first
    OBVIOUS
  <2>4. /\ Near(s, m) /\ (\E cur \in {EOC} \cup Ran(c) : m.h = Turned(s.h, cur, s.h.pos))
        /\ \A i \in 1 .. Len(c) : s.h.cur = c[i] => (m.ok => m.h.cur = IF i < Len(c) THEN c[i + 1] ELSE EOC)
    BY <2>2, <2>3, FollowFacts
  <2>5. ASSUME exact, m.ok, Nth(s.h.pos) + 1 <= Len(c) PROVE m.h.cur = c[Nth(s.h.pos) + 1]
    <3> PICK i : i = Nth(s.h.pos)
      OBVIOUS
    <3>1. i \in 1 .. Len(c) /\ s.h.cur = c[i]
      BY <2>1, <2>5 DEF Stands
    <3>2. i < Len(c)
      BY <2>5, <3>1
    <3> QED BY <2>4, <2>5, <3>1, <3>2
  <2> QED BY <2>1, <2>4, <2>5 DEF Reaches
<1> QED BY <1>1, <1>2, <1>3

LEMMA ClusterNumbers ==
  \A a \in Clusters \cup {EOC} : a \in Nat \ {0} /\ a <= EOC /\ (a \in Clusters <=> a # EOC)
BY VolumeAssumption DEF Clusters, EOC, LastCluster

LEMMA RanFacts ==
  ASSUME NEW c \in Seq(Clusters)
  PROVE  \A a \in {EOC} \cup Ran(c) : a \in Clusters \cup {EOC} /\ a \in Nat /\ a # 0
<1>1. Ran(c) \subseteq Clusters
  BY DEF Ran
<1> QED BY <1>1, ClusterNumbers

LEMMA CarriedSame == ASSUME NEW h \in Handle PROVE Carried(h, h)
<1>1. Moved(h, h.cur, h.pos, h) /\ h.cur \in Nat /\ h.pos \in Nat
  BY HandleTypes DEF Moved
<1> QED BY <1>1 DEF Carried

LEMMA CarriedTwice == ASSUME NEW h, NEW k, NEW l, Carried(h, k), Carried(k, l) PROVE Carried(h, l)
BY DEF Carried, Moved

\* A turn of n units in the chain c has been made, or has failed.
Took(s, r, c, exact, n) ==
  /\ Serves(s, r)
  /\ \E cur \in {EOC} \cup Ran(c) : \E p \in Nat :
       Moved(s.h, cur, p, r.h) /\ (r.ok => p = s.h.pos + n) /\ (~r.ok => p = s.h.pos)
  /\ (r.ok => r.left = s.left - n) /\ (~r.ok => r.left = s.left)
  /\ exact /\ r.ok /\ Nth(s.h.pos + n) <= Len(c) => r.h.cur = c[Nth(s.h.pos + n)]

LEMMA TookTurn ==
  ASSUME NEW s, s.h \in Handle, NEW c \in Seq(Clusters), NEW exact, NEW n, n \in Nat,
         NEW m, Reaches(s, m, c, exact, n), NEW r, m.ok => Turning(m, r) /\ InBlock(m) = n, ~m.ok => r = m
  PROVE  Took(s, r, c, exact, n)
<1>0. s.h.pos \in Nat /\ \A a \in {EOC} \cup Ran(c) : a \in Nat
  BY HandleTypes, RanFacts
<1> PICK cur \in {EOC} \cup Ran(c) : m.h = Turned(s.h, cur, s.h.pos)
  BY DEF Reaches
<1>1. Moved(s.h, cur, s.h.pos, m.h)
  BY <1>0, TurnedFacts
<1>2. Serves(s, m) /\ m.left = s.left
  BY DEF Reaches, Near
<1>3. CASE ~m.ok
  BY <1>0, <1>1, <1>2, <1>3 DEF Took
<1>4. CASE m.ok
  <2>1. Serves(m, r) /\ (r.ok => Stepping(m, r, n)) /\ (~r.ok => r.h = m.h /\ r.left = m.left)
    BY <1>4 DEF Turning
  <2>2. Serves(s, r)
    BY <1>2, <2>1, ServesTwice
  <2>3. CASE r.ok
    <3>1. Moved(m.h, m.h.cur, m.h.pos + n, r.h) /\ r.left = s.left - n
      BY <1>2, <2>1, <2>3 DEF Stepping
    <3>2. m.h.cur = cur /\ m.h.pos = s.h.pos
      BY <1>1 DEF Moved
    <3> PICK p : p = s.h.pos + n /\ p \in Nat
      BY <1>0
    <3>3. Moved(s.h, cur, p, r.h)
      BY <1>1, <3>1, <3>2 DEF Moved
    <3>4. exact /\ Nth(s.h.pos + n) <= Len(c) => r.h.cur = c[Nth(s.h.pos + n)]
      BY <1>4, <3>2, <3>3 DEF Reaches, Moved
    <3> QED BY <2>2, <2>3, <3>1, <3>3, <3>4 DEF Took
  <2>4. CASE ~r.ok
    BY <1>0, <1>1, <1>2, <2>1, <2>2, <2>4 DEF Took
  <2> QED BY <2>3, <2>4
<1> QED BY <1>3, <1>4

\* The file of the call after a turn.
LEMMA TookFile ==
  ASSUME NEW s, NEW x, Inside(s, x), NEW c, OfFile(s, x, c), s.h.open, c # <<>>,
         NEW n, n \in Nat \ {0}, NEW r, Took(s, r, c, x.f \in Trusted(s, x), n),
         x.f \in Trusted(s, x) => s.h.pos + n <= Len(c) * ClusterUnits
  PROVE  OfFile(r, x, c) /\ Carried(s.h, r.h)
<1> PICK cur \in {EOC} \cup Ran(c), p \in Nat :
      Moved(s.h, cur, p, r.h) /\ (r.ok => p = s.h.pos + n)
  BY DEF Took
<1>0. s.h.pos \in Nat /\ cur \in Nat /\ cur # 0 /\ c \in Seq(Clusters)
  BY OpenChain, HandleTypes, RanFacts
<1>1. Carried(s.h, r.h)
  BY <1>0 DEF Carried
<1>2. r.h.cur = cur /\ r.h.pos = p
  BY DEF Moved
<1>3. Stands(r.h, c, FALSE)
  BY <1>0, <1>2 DEF Stands
<1>4. ASSUME x.f \in Trusted(r, x) PROVE Stands(r.h, c, TRUE)
  <2>1. r.ok /\ s.ok /\ x.f \in Trusted(s, x)
    BY <1>4 DEF Trusted, Took, Serves
  <2>2. s.h.pos + n \in Nat \ {0} /\ Len(c) \in Nat
    BY <1>0
  <2>3. Nth(s.h.pos + n) \in Nat \ {0} /\ Nth(s.h.pos + n) <= Len(c)
    BY <2>1, <2>2, NthFacts, NthFits
  <2>4. r.h.cur = c[Nth(s.h.pos + n)] /\ r.h.pos = s.h.pos + n
    BY <1>2, <2>1, <2>3 DEF Took
  <2> QED BY <1>3, <2>2, <2>3, <2>4 DEF Stands
<1> QED BY <1>0, <1>1, <1>2, <1>3, <1>4, CarriedFile DEF Took

\* A call on a file that is there; it is where it should be as long as no call failed.
Plain(x) == x.f \in x.live /\ (x.full => x.f \in x.exact)
\* A read under way: what is left of it lies in the file, if the position is sure.
Fares(s, x) ==
  /\ Inside(s, x) /\ s.h.open /\ s.left \in Nat
  /\ s.left > 0 /\ s.h.pos = 0 => s.h.size > 0
  /\ x.f \in Trusted(s, x) => s.h.pos + s.left <= s.h.size

\* The chain of a file of which something is left.
LEMMA NotEmpty ==
  ASSUME NEW s, NEW x, Inside(s, x), s.h.open, NEW c, OfFile(s, x, c), s.h.pos = 0 => s.h.size > 0
  PROVE  c # <<>>
<1>1. s.h \in Handle /\ Stands(s.h, c, x.f \in Trusted(s, x)) /\ (s.h.size > 0 => c # <<>>)
  BY OpenChain
<1> QED BY <1>1 DEF Stands

LEMMA ReadTook ==
  ASSUME NEW s, NEW x, Plain(x), Fares(s, x), s.ok, s.left # 0, NEW n, n = InBlock(s), NEW c, OfFile(s, x, c),
         NEW r, r = ReadTurn(s)
  PROVE  /\ n \in Nat \ {0} /\ n <= s.left /\ c # <<>>
         /\ Took(s, r, c, x.f \in Trusted(s, x), n)
<1> PICK ex, m : ex = (x.f \in Trusted(s, x)) /\ m = ClusterForRead(s)
  OBVIOUS
<1>0. Inside(s, x) /\ s.h.open /\ s.left \in Nat \ {0}
  BY DEF Fares
<1>1. /\ Sound(s) /\ s.h \in Handle /\ c \in Seq(Clusters) /\ Linked(Table(Seen(s)), s.h.first, c)
      /\ Stands(s.h, c, ex)
  BY <1>0, OpenChain
<1>2. c # <<>>
  <2>1. s.h.pos = 0 => s.h.size > 0
    BY <1>0 DEF Fares
  <2> QED BY <1>0, <2>1, NotEmpty
<1>3. Turns(s, n) /\ s.h.pos \in Nat
  BY <1>0, <1>1, HandleTypes, TurnFacts
<1>4. n \in Nat \ {0} /\ n <= s.left
  BY <1>3, VolumeAssumption DEF Turns
<1>5. Reaches(s, m, c, ex, n)
  BY <1>1, <1>2, <1>3, ReadReaches
<1>6. m.left = s.left /\ Sound(m)
  BY <1>5 DEF Reaches, Near, Serves
<1> PICK cur \in {EOC} \cup Ran(c) : m.h = Turned(s.h, cur, s.h.pos)
  BY <1>5 DEF Reaches
<1>7. cur \in Nat /\ cur \in Clusters \cup {EOC}
  BY <1>1, RanFacts
<1>8. Moved(s.h, cur, s.h.pos, m.h)
  BY <1>1, <1>3, <1>7, TurnedFacts
<1>9. InBlock(m) = n
  BY <1>6, <1>8 DEF InBlock, Offset, Moved
<1>10. r = IF m.ok THEN Load(m) ELSE m
  BY <1>0 DEF ReadTurn, Then
<1>11. m.ok => Turning(m, r)
  BY <1>0, <1>6, <1>7, <1>8, <1>10, LoadFacts DEF Moved
<1>12. Took(s, r, c, ex, n)
  <2>1. n \in Nat /\ (m.ok => Turning(m, r) /\ InBlock(m) = n) /\ (~m.ok => r = m)
    BY <1>4, <1>9, <1>10, <1>11
  <2> QED BY ONLY <1>1, <1>5, <2>1, TookTurn
<1> QED BY <1>2, <1>4, <1>12

LEMMA ReadTurnFacts ==
  ASSUME NEW s, NEW x, Plain(x), Fares(s, x), NEW r, r = ReadTurn(s)
  PROVE  Fares(r, x) /\ Carried(s.h, r.h)
<1>0. Inside(s, x) /\ s.h.open /\ s.left \in Nat /\ x.f \in x.live
  BY DEF Fares, Plain
<1> PICK c : OfFile(s, x, c)
  BY <1>0, InsideChain
<1>1. s.h \in Handle
  BY <1>0, OpenChain
<1>2. CASE ~s.ok \/ s.left = 0
  BY <1>1, <1>2, CarriedSame DEF ReadTurn
<1>3. CASE s.ok /\ s.left # 0
  <2> PICK n : n = InBlock(s)
    OBVIOUS
  <2>1. ASSUME NEW d, OfFile(s, x, d)
        PROVE  /\ n \in Nat \ {0} /\ n <= s.left /\ Took(s, r, d, x.f \in Trusted(s, x), n)
               /\ OfFile(r, x, d) /\ Carried(s.h, r.h)
    <3>1. n \in Nat \ {0} /\ n <= s.left /\ d # <<>> /\ Took(s, r, d, x.f \in Trusted(s, x), n)
      BY <1>3, <2>1, ReadTook
    <3>2. ASSUME x.f \in Trusted(s, x) PROVE s.h.pos + n <= Len(d) * ClusterUnits
      <4>1. s.h.pos + s.left <= s.h.size /\ x.f \in x.long
        BY <1>0, <3>2 DEF Fares, Trusted, Inside
      <4>2. s.h.size <= Len(d) * ClusterUnits /\ d \in Seq(Clusters) /\ s.h.pos \in Nat /\ s.h.size \in Nat
        BY <1>0, <2>1, <4>1, OpenChain, HandleTypes
      <4> PICK z : z = Len(d) * ClusterUnits
        OBVIOUS
      <4>3. z \in Nat
        BY <4>2, Units
      <4>4. s.h.size <= z
        BY <4>2
      <4>5. s.h.pos + n <= z
        BY ONLY <1>0, <3>1, <4>1, <4>2, <4>3, <4>4
      <4> QED BY <4>5
    <3>4. OfFile(r, x, d) /\ Carried(s.h, r.h)
      BY <1>0, <2>1, <3>1, <3>2, TookFile
    <3> QED BY <3>1, <3>4
  <2>2. Took(s, r, c, x.f \in Trusted(s, x), n) /\ Carried(s.h, r.h) /\ n \in Nat \ {0} /\ n <= s.left
    BY <2>1
  <2> PICK cur \in {EOC} \cup Ran(c), p \in Nat :
        Moved(s.h, cur, p, r.h) /\ (r.ok => p = s.h.pos + n) /\ (~r.ok => p = s.h.pos)
    BY <2>2 DEF Took
  <2>3. HandleOk(x.f, r.h) /\ r.h.open
    <3>1. c \in Seq(Clusters) /\ HandleOk(x.f, s.h)
      BY <1>0, OpenChain
    <3>2. cur <= EOC
      BY <3>1, RanFacts, ClusterNumbers
    <3> QED BY <1>0, <3>1, <3>2 DEF HandleOk, Moved, Handle
  <2>4. Inside(r, x)
    BY <1>0, <2>1, <2>2, <2>3, InsideServes DEF Took
  <2>5. /\ r.h.size = s.h.size /\ r.h.pos = p /\ s.h.pos \in Nat /\ s.h.size \in Nat
        /\ (r.ok => r.left = s.left - n) /\ (~r.ok => r.left = s.left)
    BY <1>1, <2>2, HandleTypes DEF Took, Moved
  <2>6. r.left \in Nat /\ (r.left > 0 /\ r.h.pos = 0 => r.h.size > 0)
    BY <1>0, <2>2, <2>5 DEF Fares
  <2>7. ASSUME x.f \in Trusted(r, x) PROVE r.h.pos + r.left <= r.h.size
    <3>1. r.ok /\ x.f \in Trusted(s, x)
      BY <1>3, <2>7 DEF Trusted
    <3> QED BY <1>0, <2>2, <2>5, <3>1 DEF Fares
  <2> QED BY <2>2, <2>3, <2>4, <2>6, <2>7 DEF Fares
<1> QED BY <1>2, <1>3

TurnsOf(a, n) == CHOOSE w : w = [k \in 0 .. n |-> IF k = 0 THEN a ELSE ReadTurn(w[k - 1])]
\* The states of a read that started in s.
Readings(s, x) == {q \in State : Fares(q, x) /\ Carried(s.h, q.h)}

\* The loop of read() keeps the handle at its place in the chain.
LEMMA ReadLoop ==
  ASSUME NEW s, NEW x, Plain(x), NEW n \in Nat, NEW a \in Readings(s, x)
  PROVE  \A k \in 0 .. n : TurnsOf(a, n)[k] \in Readings(s, x)
<1> PICK Q : Q = Readings(s, x)
  OBVIOUS
<1>1. a \in Q /\ \A q \in Q : ReadTurn(q) \in Q
  <2> SUFFICES ASSUME NEW q \in Q PROVE ReadTurn(q) \in Q
    OBVIOUS
  <2>1. Fares(q, x) /\ Carried(s.h, q.h)
    BY DEF Readings
  <2> PICK r : r = ReadTurn(q)
    OBVIOUS
  <2>2. Fares(r, x) /\ Carried(q.h, r.h)
    BY <2>1, ReadTurnFacts
  <2>3. r \in State /\ Carried(s.h, r.h)
    BY <2>1, <2>2, CarriedTwice DEF Fares, Inside, Sound
  <2> QED BY <2>2, <2>3 DEF Readings
<1> DEFINE S == [k \in 0 .. n |-> Q]
           g == [k \in 1 .. n |-> [q \in Q |-> ReadTurn(q)]]
           turn == TurnsOf(a, n)
<1>2. \A k \in 0 .. n : S[k] = Q
  OBVIOUS
<1>3. \A k \in 1 .. n : k - 1 \in 0 .. n /\ k \in 0 .. n
  OBVIOUS
<1>4. \A k \in 1 .. n : \A q \in Q : g[k][q] = ReadTurn(q)
  OBVIOUS
<1> HIDE DEF S, g
<1>5. Steps(n, S, g) /\ a \in S[0]
  BY <1>1, <1>2, <1>3, <1>4 DEF Steps
<1>6. PICK f : /\ f = [k \in 0 .. n |-> IF k = 0 THEN a ELSE g[k][f[k - 1]]]
               /\ \A k \in 0 .. n : f[k] \in S[k]
  <2>1. Stepped(n, S, a, g)
    BY <1>5, Recursion
  <2> QED BY <2>1 DEF Stepped
<1>7. f = [k \in 0 .. n |-> IF k = 0 THEN a ELSE ReadTurn(f[k - 1])]
  <2>1. ASSUME NEW k \in 1 .. n PROVE g[k][f[k - 1]] = ReadTurn(f[k - 1])
    BY <1>2, <1>3, <1>4, <1>6
  <2>2. \A k \in 0 .. n : (IF k = 0 THEN a ELSE g[k][f[k - 1]]) = IF k = 0 THEN a ELSE ReadTurn(f[k - 1])
    BY <2>1
  <2> QED BY <1>6, <2>2
<1>8. turn = [k \in 0 .. n |-> IF k = 0 THEN a ELSE ReadTurn(turn[k - 1])]
  BY <1>7 DEF TurnsOf
<1> HIDE DEF turn
<1>9. \A k \in 0 .. n : turn[k] \in Q
  <2> DEFINE A == {k \in 0 .. n : turn[k] \in Q}
  <2>1. 0 \in A
    BY <1>1, <1>8
  <2>2. \A k \in 1 .. n : k - 1 \in A => k \in A
    <3> SUFFICES ASSUME NEW k \in 1 .. n, turn[k - 1] \in Q PROVE turn[k] \in Q
      BY <1>3
    <3>1. turn[k] = ReadTurn(turn[k - 1])
      BY <1>3, <1>8
    <3> QED BY <1>1, <3>1
  <2> HIDE DEF A
  <2>3. \A k \in 0 .. n : k \in A
    BY <2>1, <2>2, UpTo
  <2> QED BY <2>3 DEF A
<1> QED BY <1>9 DEF turn

\* How much is read.
Most(h, n) == IF h.pos > h.size THEN n ELSE Least(n, h.size - h.pos)
LEMMA ReadShape ==
  ASSUME NEW s, NEW n
  PROVE  Read(s, n) = IF "READ" \in s.h.flags THEN TurnsOf(Leaving(s, Most(s.h, n)), n)[Most(s.h, n)] ELSE Fail(s)
BY DEF Read, TurnsOf, Leaving, Most

\* The position lies in the file.
Fit(s, x) == x.f \in Trusted(s, x) => s.h.pos <= s.h.size

LEMMA FitSettled ==
  ASSUME NEW s, NEW x, Plain(x), Inside(s, x), s.h.open, Fit(s, x)
  PROVE  Settled(s, x)
<1> SUFFICES ASSUME x.full, s.ok, s.h.size = 0 PROVE s.h.cur = 0
  BY DEF Settled
<1> PICK c : OfFile(s, x, c)
  BY InsideChain DEF Plain
<1>1. x.f \in Trusted(s, x)
  BY DEF Plain, Trusted
<1>2. s.h \in Handle /\ Stands(s.h, c, x.f \in Trusted(s, x))
  BY OpenChain
<1>3. s.h.pos = 0
  <2>1. s.h.pos <= 0
    BY <1>1 DEF Fit
  <2>2. s.h.pos \in Nat
    BY <1>2, HandleTypes
  <2> QED BY <2>1, <2>2
<1> QED BY <1>1, <1>2, <1>3 DEF Stands

\* read() leaves everything in order.
LEMMA InsideRead ==
  ASSUME NEW s, NEW x, Plain(x), Inside(s, x), s.h.open, Fit(s, x), NEW n, n \in Nat, NEW r, r = Read(s, n)
  PROVE  Inside(r, x) /\ Carried(s.h, r.h) /\ Fit(r, x)
<1> PICK c : OfFile(s, x, c)
  BY InsideChain DEF Plain
<1>1. s.h \in Handle /\ Sound(s)
  BY OpenChain
<1>2. CASE "READ" \notin s.h.flags
  <2>1. r = Fail(s)
    BY <1>2, ReadShape
  <2>2. Keeps(s, r) /\ ~r.ok
    BY <1>1, <2>1, FailKeeps
  <2>3. Serves(s, r) /\ r.h = s.h
    BY <2>2, KeepsServes DEF Keeps, Leads
  <2> QED BY <1>1, <2>2, <2>3, InsideSame, CarriedSame DEF Fit, Trusted
<1>3. CASE "READ" \in s.h.flags
  <2> PICK m : m = Most(s.h, n)
    OBVIOUS
  <2>1. s.h.pos \in Nat /\ s.h.size \in Nat
    BY <1>1, HandleTypes
  <2>2. /\ m \in Nat /\ m <= n /\ (m > 0 /\ s.h.pos = 0 => s.h.size > 0)
        /\ s.h.pos <= s.h.size => s.h.pos + m <= s.h.size
    BY <2>1 DEF Most, Least
  <2> PICK a : a = Leaving(s, m)
    OBVIOUS
  <2>3. m \in Int
    BY <2>2
  <2>4. Serves(s, a) /\ a.h = s.h /\ a.ok = s.ok /\ a.left = m
    BY <1>1, <2>3, LeavingServes
  <2>5. Inside(a, x)
    BY <2>4, InsideSame
  <2>6. Fares(a, x) /\ Carried(s.h, a.h) /\ a \in State
    BY <1>1, <2>2, <2>4, <2>5, CarriedSame DEF Fares, Fit, Trusted, Inside, Sound
  <2>7. \A k \in 0 .. n : TurnsOf(a, n)[k] \in Readings(s, x)
    BY <2>6, ReadLoop DEF Readings
  <2>8. r = TurnsOf(a, n)[m] /\ m \in 0 .. n
    BY <1>3, <2>2, ReadShape
  <2>9. Fares(r, x) /\ Carried(s.h, r.h)
    BY <2>7, <2>8 DEF Readings
  <2>10. ASSUME x.f \in Trusted(r, x) PROVE r.h.pos <= r.h.size
    <3>1. r.h.pos + r.left <= r.h.size /\ r.left \in Nat
      BY <2>9, <2>10 DEF Fares
    <3>2. r.h.pos \in Nat /\ r.h.size \in Nat
      BY <2>9, CarriedFacts, HandleTypes
    <3> QED BY <3>1, <3>2
  <2> QED BY <2>9, <2>10 DEF Fares, Fit
<1> QED BY <1>2, <1>3

-----------------------------------------------------------------------------
(* sync(): the directory entry is written *)

Entering(root, slot, v) == [root EXCEPT ![slot] = v]

\* An assignment to an entry of the directory in memory.
LEMMA RootPoke ==
  ASSUME NEW q, Sound(q), q.num = RootDirStart, NEW slot, slot \in SlotNumbers, NEW v, v \in DirEntry,
         NEW p, p = Poked(q, slot, v)
  PROVE  /\ Sound(p) /\ (Twin(q) => Twin(p)) /\ ~Stuck(p)
         /\ Root(Seen(p)) = Entering(Root(Seen(q)), slot, v) /\ Table(Seen(p)) = Table(Seen(q))
         /\ p.card = q.card /\ p.num = q.num /\ p.ok = q.ok /\ p.blown = q.blown
         /\ p.h = q.h /\ p.left = q.left /\ p.got = q.got /\ p.start = q.start
<1>1. q.num \notin FatBlocks /\ RootDirStart \in Blocks \ Mirrors
  BY Layout
<1> PICK m : m = Assigned(Seen(q), RootDirStart, slot, v)
  OBVIOUS
<1>2. Leads(q, p, Assigned(Seen(q), q.num, slot, v)) /\ p.card = q.card /\ p.num = q.num /\ p.ok = q.ok
      /\ p.blown = q.blown /\ ~Stuck(p)
  BY <1>1, PokeLeads
<1>3. Leads(q, p, m)
  BY <1>2
<1>4. Seen(p) = m
  BY <1>3 DEF Leads, Seen
<1>5. Root(m) = Entering(Root(Seen(q)), slot, v)
  BY <1>1 DEF Assigned, Entering, Root, Seen, Main
<1>6. Table(m) = Table(Seen(q))
  <2>1. \A a \in 0 .. LastCluster : FatBlock(a) # RootDirStart
    BY Layout
  <2>2. \A b \in Blocks \ Mirrors : b # RootDirStart => m[b] = Seen(q)[b]
    BY DEF Assigned, Seen, Main
  <2>3. \A a \in 0 .. LastCluster : FatBlock(a) \in Blocks \ Mirrors
    BY Layout
  <2>4. \A a \in 0 .. LastCluster : m[FatBlock(a)] = Seen(q)[FatBlock(a)]
    BY <2>1, <2>2, <2>3
  <2> QED BY <2>4 DEF Table
<1> QED BY <1>2, <1>3, <1>4, <1>5, <1>6 DEF Leads

\* A call that changes the entry of its file, and perhaps its handle.
LEMMA InsideRoot ==
  ASSUME NEW q, NEW x, Inside(q, x), x.f \in x.live, q.num = RootDirStart,
         NEW slot, slot \in SlotNumbers, NEW v, v \in DirEntry,
         NEW k, k \in Handles, HandleOk(x.f, k), NEW r, r = Holding(Poked(q, slot, v), k),
         NEW dir, dir = Entering(Root(Seen(q)), slot, v), RootOk(dir),
         \A g \in x.live \ {x.f} : /\ EntryIn(dir, g) = EntryIn(Root(Seen(q)), g)
                                   /\ x.file[g].open => x.file[g].slot # slot,
         EntryIn(Root(Seen(q)), x.f).size <= EntryIn(dir, x.f).size,
         \A c : OfFile(q, x, c) => FileOk(Table(Seen(q)), dir, x.f, k, c, x.f \in x.long,
                                          x.f \in Trusted(q, x), x.full /\ q.ok)
  PROVE  Inside(r, x) /\ r.h = k /\ r.ok = q.ok /\ r.blown = q.blown /\ ~Stuck(r) /\ Main(r.card) = Main(q.card)
         /\ r.left = q.left /\ r.got = q.got
<1> PICK p : p = Poked(q, slot, v)
  OBVIOUS
<1>0. Sound(q) /\ q.h \in Handles /\ x \in Contexts /\ x.f \in Names /\ x.live \subseteq Names
      /\ x.file \in [Names -> Handles]
  BY DEF Inside, Sound, State, Handles, Contexts
<1>1. /\ Sound(p) /\ (Twin(q) => Twin(p)) /\ ~Stuck(p)
      /\ Root(Seen(p)) = dir /\ Table(Seen(p)) = Table(Seen(q))
      /\ p.card = q.card /\ p.ok = q.ok /\ p.blown = q.blown /\ p.start = q.start
      /\ p.left = q.left /\ p.got = q.got
  BY <1>0, RootPoke
<1>2. /\ Serves(p, r) /\ Seen(r) = Seen(p) /\ SameCache(p, r)
      /\ r.h = k /\ r.ok = p.ok /\ r.blown = p.blown /\ r.start = p.start
      /\ r.left = p.left /\ r.got = p.got
  BY <1>1, HoldingServes
<1>3. /\ Sound(r) /\ (Twin(q) => Twin(r)) /\ Root(Seen(r)) = dir /\ Table(Seen(r)) = Table(Seen(q))
      /\ r.card = q.card /\ r.ok = q.ok
  BY <1>1, <1>2 DEF Serves, SameCache
<1>4. ~Stuck(r)
  BY <1>1, <1>2 DEF Stuck, SameCache
<1>5. Stored(r, x)
  BY <1>3 DEF Inside, Stored
<1>6. Lags(r, x)
  <2> SUFFICES ASSUME NEW g \in x.live
               PROVE  EntryIn(Root(Main(r.card)), g).size <= EntryIn(Root(Seen(r)), g).size
    BY DEF Lags
  <2>1. EntryIn(Root(Main(q.card)), g).size <= EntryIn(Root(Seen(q)), g).size
    BY DEF Inside, Lags
  <2>2. RootOk(Root(Seen(q))) /\ RootOk(Root(Main(q.card)))
    BY DEF Inside, Sight, Stored, Live
  <2>3. /\ EntryIn(Root(Main(q.card)), g).size \in 0 .. MaxSize /\ EntryIn(Root(Seen(q)), g).size \in 0 .. MaxSize
        /\ EntryIn(dir, g).size \in 0 .. MaxSize
    BY <1>0, <2>2, EntryFacts
  <2>4. EntryIn(Root(Seen(q)), g).size <= EntryIn(dir, g).size
    BY <1>0, <2>3
  <2> QED BY <1>3, <2>1, <2>3, <2>4, FileAssumption
<1>7. Sight(r, x)
  <2> PICK ex, fu, t, root, fl : /\ ex = Trusted(q, x) /\ fu = (x.full /\ q.ok) /\ t = Table(Seen(q))
                                 /\ root = Root(Seen(q)) /\ fl = Among(x, q.h)
    OBVIOUS
  <2>1. PICK ch : Live(t, root, fl, ch, x.live, x.long, ex, fu)
    BY DEF Inside, Sight
  <2> PICK c : c = ch[x.f]
    OBVIOUS
  <2>2. c \in Seq(Clusters) /\ Once(c)
    BY <2>1 DEF Live, Disjoint, Once
  <2>3. fl[x.f] = q.h /\ (\A g \in Names \ {x.f} : fl[g] = x.file[g]) /\ [fl EXCEPT ![x.f] = k] = Among(x, k)
    BY <1>0, AmongFacts
  <2>4. OfFile(q, x, c)
    BY <2>1, <2>2, <2>3 DEF Live, OfFile
  <2>5. FileOk(t, dir, x.f, k, c, x.f \in x.long, x.f \in ex, fu)
    BY <2>4
  <2>6. \A g \in x.live \ {x.f} : /\ EntryIn(dir, g) = EntryIn(root, g)
                                  /\ fl[g].open => dir[fl[g].slot] = root[fl[g].slot]
    <3> SUFFICES ASSUME NEW g \in x.live \ {x.f}, fl[g].open PROVE dir[fl[g].slot] = root[fl[g].slot]
      OBVIOUS
    <3>1. x.file[g].open /\ fl[g] = x.file[g] /\ x.file[g].slot # slot
      BY <1>0, <2>3
    <3> QED BY <3>1 DEF Entering
  <2>7. t \in Tables /\ Within(t, t, Ran(ch[x.f]))
    BY <2>1 DEF Live, Within
  <2>8. fu => \A a \in Clusters : t[a] # 0 => a \in Ran(c) \/ (t[a] # 0 /\ a \notin Ran(ch[x.f]))
    OBVIOUS
  <2>9. \A a \in Ran(c) : a \in Ran(ch[x.f]) \/ t[a] = 0
    OBVIOUS
  <2>10. x.long \subseteq x.long \cup {x.f} /\ ex \subseteq ex \cup {x.f} /\ (fu => fu)
    OBVIOUS
  <2> PICK hl, dh, lo : hl = [fl EXCEPT ![x.f] = k] /\ dh = [ch EXCEPT ![x.f] = c] /\ lo = x.long
    OBVIOUS
  <2>11. RootOk(dir) /\ x.f \in x.live /\ x.live \subseteq Names /\ k \in Handles
    BY <1>0
  <2>12. Live(t, dir, [fl EXCEPT ![x.f] = k], [ch EXCEPT ![x.f] = c], x.live, x.long, ex, fu)
    BY ONLY <2>1, <2>2, <2>5, <2>6, <2>7, <2>8, <2>9, <2>10, <2>11, LiveStep
  <2>13. Live(t, dir, Among(x, k), dh, x.live, x.long, ex, fu)
    BY <2>3, <2>12
  <2>14. Trusted(r, x) = ex
    BY <1>3 DEF Trusted
  <2> QED BY <1>2, <1>3, <2>13, <2>14 DEF Sight
<1>8. Inside(r, x)
  BY <1>1, <1>2, <1>3, <1>5, <1>6, <1>7 DEF Inside
<1> QED BY <1>1, <1>2, <1>3, <1>4, <1>8

\* The directory with another entry.
LEMMA EnteringFacts ==
  ASSUME NEW root, RootOk(root), NEW slot, slot \in SlotNumbers, NEW v, v \in DirEntry,
         v.first \in {0} \cup Clusters, v.size <= MaxSize, v.name # "free",
         v.name \in Names => \A i \in SlotNumbers \ {slot} : root[i].name # v.name,
         \A i \in SlotNumbers : i < slot => root[i].name # "free",
         NEW dir, dir = Entering(root, slot, v)
  PROVE  /\ RootOk(dir) /\ dir[slot] = v /\ (\A i \in SlotNumbers \ {slot} : dir[i] = root[i])
         /\ \A g \in Names : g # v.name /\ g # root[slot].name => EntryIn(dir, g) = EntryIn(root, g)
         /\ v.name \in Names => EntryIn(dir, v.name) = v
         /\ \A g \in Names : g = root[slot].name /\ g # v.name => EntryIn(dir, g) = Free
<1>1. dir \in Roots /\ dir[slot] = v /\ \A i \in SlotNumbers \ {slot} : dir[i] = root[i]
  BY DEF RootOk, Roots, Entering
<1>2. \A i \in SlotNumbers : dir[i].first \in {0} \cup Clusters /\ dir[i].size <= MaxSize
  BY <1>1 DEF RootOk
<1>3. \A i, j \in SlotNumbers : dir[i].name = dir[j].name /\ dir[i].name \in Names => i = j
  BY <1>1 DEF RootOk
<1>4. ASSUME NEW i \in SlotNumbers, NEW j \in SlotNumbers, i < j, dir[i].name = "free" PROVE dir[j].name = "free"
  <2>1. i # slot /\ dir[i] = root[i]
    BY <1>1, <1>4
  <2>2. j # slot
    BY <1>4, <2>1
  <2>3. dir[j] = root[j]
    BY <1>1, <2>2
  <2> QED BY <1>4, <2>1, <2>3 DEF RootOk
<1>5. RootOk(dir)
  BY <1>1, <1>2, <1>3, <1>4 DEF RootOk
<1>6. ASSUME NEW g \in Names, g # v.name, g # root[slot].name PROVE EntryIn(dir, g) = EntryIn(root, g)
  <2>1. CASE \E i \in SlotNumbers : root[i].name = g
    <3> PICK i \in SlotNumbers : root[i].name = g
      BY <2>1
    <3>1. i # slot /\ dir[i] = root[i]
      BY <1>1, <1>6
    <3> QED BY <1>5, <3>1, EntryFacts
  <2>2. CASE ~\E i \in SlotNumbers : root[i].name = g
    <3>1. (\A i \in SlotNumbers : root[i].name # g) /\ \A i \in SlotNumbers : dir[i].name # g
      BY <1>1, <1>6, <2>2
    <3> QED BY <1>5, <3>1, EntryFacts
  <2> QED BY <2>1, <2>2
<1>7. v.name \in Names => EntryIn(dir, v.name) = v
  BY <1>1, <1>5, EntryFacts
<1>8. ASSUME NEW g \in Names, g = root[slot].name, g # v.name PROVE EntryIn(dir, g) = Free
  <2>1. \A i \in SlotNumbers : dir[i].name # g
    BY <1>1, <1>8 DEF RootOk
  <2> QED BY <1>5, <2>1, EntryFacts
<1> QED BY <1>1, <1>5, <1>6, <1>7, <1>8

\* The handle after its entry is stored.
Clean(h) == [h EXCEPT !.dirty = FALSE]
LikeH(h, k) == /\ k \in Handle /\ k.cur = h.cur /\ k.pos = h.pos /\ k.first = h.first /\ k.size = h.size
               /\ k.slot = h.slot /\ k.name = h.name /\ k.flags = h.flags
LEMMA CleanFacts ==
  ASSUME NEW h \in Handle, NEW k, k = Clean(h)
  PROVE  LikeH(h, k) /\ ~k.dirty
BY DEF Clean, LikeH, Handle

\* The other open files have their entries elsewhere.
LEMMA OtherSlots ==
  ASSUME NEW s, NEW x, Inside(s, x), x.f \in x.live, NEW slot, slot \in SlotNumbers, Root(Seen(s))[slot].name \notin Names \ {x.f}
  PROVE  \A g \in x.live \ {x.f} : x.file[g].open => x.file[g].slot # slot
<1> SUFFICES ASSUME NEW g \in x.live \ {x.f}, x.file[g].open PROVE x.file[g].slot # slot
  OBVIOUS
<1>1. PICK ch : Live(Table(Seen(s)), Root(Seen(s)), Among(x, s.h), ch, x.live, x.long, Trusted(s, x), x.full /\ s.ok)
  BY DEF Inside, Sight
<1>2. g \in Names /\ Among(x, s.h)[g] = x.file[g]
  BY AmongFacts DEF Inside, Sound, State, Handles, Contexts
<1>3. Entered(x.file[g], Root(Seen(s))[x.file[g].slot])
  BY <1>1, <1>2 DEF Live, FileOk
<1>4. x.file[g].name = g
  BY <1>2 DEF Inside, HandleOk
<1> QED BY <1>2, <1>3, <1>4 DEF Entered

LEMMA PokeRoot ==
  ASSUME NEW q, q \in State, q.ok, q.num = RootDirStart, NEW slot, NEW v
  PROVE  Poke(q, slot, v) = Poked(q, slot, v)
<1>1. RootDirStart \notin FatBlocks
  BY Layout
<1> PICK p : p = [q EXCEPT !.buf[slot] = v, !.dirty = TRUE]
  OBVIOUS
<1>2. p = [q EXCEPT !.buf[slot] = v, !.dirty = TRUE, !.mirror = q.mirror]
  BY DEF State
<1>4. Poked(q, slot, v) = p
  BY <1>1, <1>2 DEF Poked
<1> QED BY <1>4 DEF Poke

\* What storing an entry and the cache does to a call.
Writes(s, r, x) ==
  /\ Inside(r, x) /\ GoesOn(s, r) /\ Certain(s, r) /\ LikeH(s.h, r.h)
  /\ r.left = s.left /\ r.got = s.got /\ (~s.h.dirty => ~r.h.dirty) /\ (r.ok => ~r.h.dirty)

LEMMA LikeSame == ASSUME NEW h \in Handle PROVE LikeH(h, h)
BY DEF LikeH

\* The entry of the file of the call can be stored.
LEMMA EntryStored ==
  ASSUME NEW q, NEW x, Inside(q, x), x.f \in x.live, q.h.open, q.num = RootDirStart, q.ok,
         NEW r, r = Holding(Poked(q, q.h.slot, Entry(q.h)), Clean(q.h))
  PROVE  Inside(r, x) /\ LikeH(q.h, r.h) /\ ~r.h.dirty /\ r.ok /\ r.blown = q.blown /\ ~Stuck(r)
         /\ r.left = q.left /\ r.got = q.got
<1> PICK c : OfFile(q, x, c)
  BY InsideChain
<1> PICK root, h, slot, v, k : /\ root = Root(Seen(q)) /\ h = q.h /\ slot = h.slot /\ v = Entry(h) /\ k = Clean(h)
  OBVIOUS
<1>1. h \in Handle /\ HandleOk(x.f, h) /\ Entered(h, root[slot]) /\ slot \in SlotNumbers
  BY OpenChain, HandleTypes
<1>2. LikeH(h, k) /\ ~k.dirty
  BY <1>1, CleanFacts
<1>3. /\ v.name = x.f /\ v.first = h.first /\ v.size = h.size /\ v \in DirEntry
      /\ v.first \in {0} \cup Clusters /\ v.size <= MaxSize /\ x.f \in Names
  BY <1>1, HandleTypes DEF HandleOk, Entry, DirEntry
<1>4. RootOk(root)
  BY DEF Inside, Sight, Live
<1>5. root[slot].name = x.f /\ root[slot].size <= h.size
  BY <1>1, <1>3 DEF Entered, HandleOk
<1>6. x.f # "free" /\ x.f # "deleted"
  BY <1>3, FileAssumption
<1>7. \A i \in SlotNumbers \ {slot} : root[i].name # v.name
  BY <1>1, <1>3, <1>4, <1>5 DEF RootOk
<1>8. \A i \in SlotNumbers : i < slot => root[i].name # "free"
  BY <1>1, <1>4, <1>5, <1>6 DEF RootOk
<1> PICK dir : dir = Entering(root, slot, v)
  OBVIOUS
<1>9. RootOk(dir) /\ dir[slot] = v /\ EntryIn(dir, x.f) = v
      /\ \A g \in Names : g # x.f => EntryIn(dir, g) = EntryIn(root, g)
  BY <1>1, <1>3, <1>4, <1>5, <1>6, <1>7, <1>8, EnteringFacts
<1>10. \A g \in x.live \ {x.f} : EntryIn(dir, g) = EntryIn(root, g) /\ (x.file[g].open => x.file[g].slot # slot)
  <2>1. \A g \in x.live \ {x.f} : x.file[g].open => x.file[g].slot # slot
    BY <1>1, <1>5, OtherSlots
  <2>2. x.live \subseteq Names
    BY DEF Inside, Contexts
  <2> QED BY <1>9, <2>1, <2>2
<1>11. EntryIn(root, x.f).size <= EntryIn(dir, x.f).size
  BY <1>1, <1>3, <1>4, <1>5, <1>9, EntryFacts
<1>12. k \in Handles /\ HandleOk(x.f, k)
  BY <1>1, <1>2 DEF LikeH, Handles, HandleOk
<1>13. \A d : OfFile(q, x, d) => FileOk(Table(Seen(q)), dir, x.f, k, d, x.f \in x.long, x.f \in Trusted(q, x), x.full /\ q.ok)
  <2> SUFFICES ASSUME NEW d, OfFile(q, x, d)
               PROVE FileOk(Table(Seen(q)), dir, x.f, k, d, x.f \in x.long, x.f \in Trusted(q, x), x.full /\ q.ok)
    OBVIOUS
  <2> PICK t, lo, ex, fu : t = Table(Seen(q)) /\ lo = (x.f \in x.long) /\ ex = (x.f \in Trusted(q, x)) /\ fu = (x.full /\ q.ok)
    OBVIOUS
  <2>1. FileOk(t, root, x.f, h, d, lo, ex, fu) /\ h.open = TRUE /\ k.open = TRUE
    BY <1>1, <1>2, HandleTypes DEF OfFile, LikeH
  <2>3. h.first = 0 => h.size = 0
    <3>1. h.size > 0 => d # <<>> /\ h.first = d[1]
      BY <2>1 DEF FileOk, SizeIn, FirstIn, Linked
    <3>2. d \in Seq(Clusters)
      BY DEF OfFile
    <3>3. d # <<>> => d[1] \in Clusters
      BY <3>2
    <3>4. d # <<>> => d[1] # 0
      BY <3>3, ClusterNumbers
    <3>5. h.size \in Nat
      BY <1>1, HandleTypes
    <3> QED BY <3>1, <3>4, <3>5
  <2>2. Entered(k, dir[k.slot])
    <3>1. k.slot = slot /\ k.first = h.first /\ k.size = h.size /\ k.name = h.name /\ h.size \in Nat
      BY <1>1, <1>2, HandleTypes DEF LikeH
    <3>2. v.name = h.name /\ dir[slot] = v
      BY <1>9 DEF Entry
    <3> QED BY <1>3, <2>3, <3>1, <3>2 DEF Entered
  <2>4. FileOk(t, dir, x.f, k, d, lo, ex, fu)
    BY <2>1, <2>2, <1>2 DEF FileOk, FirstIn, SizeIn, Stands, LikeH
  <2> QED BY <2>4
<1>14. Inside(r, x) /\ r.h = k /\ r.ok = q.ok /\ r.blown = q.blown /\ ~Stuck(r) /\ r.left = q.left /\ r.got = q.got
  <2>1. r = Holding(Poked(q, slot, v), k) /\ dir = Entering(Root(Seen(q)), slot, v)
    OBVIOUS
  <2>2. \A g \in x.live \ {x.f} : /\ EntryIn(dir, g) = EntryIn(Root(Seen(q)), g)
                                  /\ x.file[g].open => x.file[g].slot # slot
    BY <1>10
  <2>3. EntryIn(Root(Seen(q)), x.f).size <= EntryIn(dir, x.f).size
    BY <1>11
  <2>4. Inside(q, x) /\ x.f \in x.live /\ q.num = RootDirStart /\ slot \in SlotNumbers /\ v \in DirEntry /\ RootOk(dir)
    BY <1>1, <1>3, <1>9
  <2> QED BY ONLY <1>12, <1>13, <2>1, <2>2, <2>3, <2>4, InsideRoot
<1> QED BY <1>2, <1>14

LEMMA UpdateShape ==
  ASSUME NEW s, NEW q, q = CacheRawBlock(s, RootDirStart, TRUE), q.ok => q \in State /\ q.num = RootDirStart, q.h = s.h,
         NEW r, r = UpdateEntry(s), s.ok, s.h.dirty
  PROVE  r = IF q.ok THEN Holding(Poked(q, q.h.slot, Entry(q.h)), Clean(q.h)) ELSE q
<1>1. CASE q.ok
  <2> PICK slot, v, p : slot = q.h.slot /\ v = Entry(q.h) /\ p = Poked(q, slot, v)
    OBVIOUS
  <2>0. q \in State /\ q.ok /\ q.num = RootDirStart
    BY <1>1
  <2>1. Poke(q, slot, v) = p
    BY ONLY <2>0, PokeRoot, p = Poked(q, slot, v)
  <2>2. p.ok /\ p.h = q.h
    BY <1>1 DEF Poked, State
  <2>3. r = [p EXCEPT !.h.dirty = FALSE]
    BY <2>1, <2>2 DEF UpdateEntry, Then
  <2> QED BY <1>1, <2>2, <2>3 DEF Holding, Clean
<1>2. CASE ~q.ok
  BY <1>2 DEF UpdateEntry, Poke, Then
<1> QED BY <1>1, <1>2

\* The entry of an open file is brought up to date, ...
LEMMA UpdateFacts ==
  ASSUME NEW s, NEW x, Inside(s, x), x.f \in x.live, s.h.open, NEW r, r = UpdateEntry(s)
  PROVE  Writes(s, r, x)
<1> PICK c : OfFile(s, x, c)
  BY InsideChain
<1>1. Sound(s) /\ s.h \in Handle /\ s.h.dirty \in BOOLEAN
  BY OpenChain, HandleTypes
<1>2. CASE ~s.ok \/ ~s.h.dirty
  BY <1>1, <1>2, LikeSame DEF UpdateEntry, Writes, GoesOn, Certain
<1>3. CASE s.ok /\ s.h.dirty
  <2> PICK q : q = CacheRawBlock(s, RootDirStart, TRUE)
    OBVIOUS
  <2>1. Keeps(s, q) /\ Certain(s, q) /\ (q.ok => q.num = RootDirStart)
    <3>1. RootDirStart \in Blocks \ ({0} \cup Mirrors) /\ RootDirStart \notin FatBlocks
      BY Layout
    <3> QED BY <1>1, <3>1, RawWrite
  <2>2. Serves(s, q) /\ q.h = s.h /\ q.left = s.left /\ q.got = s.got /\ GoesOn(s, q) /\ q \in State
    BY <2>1, KeepsServes DEF Keeps, Leads, Sound
  <2>3. Inside(q, x)
    BY <2>2, InsideSame
  <2>4. r = IF q.ok THEN Holding(Poked(q, q.h.slot, Entry(q.h)), Clean(q.h)) ELSE q
    BY <1>3, <2>1, <2>2, UpdateShape
  <2>5. CASE ~q.ok
    BY <1>1, <1>3, <2>1, <2>2, <2>3, <2>4, <2>5, LikeSame DEF Writes
  <2>6. CASE q.ok
    <3>1. q.h.open /\ q.num = RootDirStart /\ r = Holding(Poked(q, q.h.slot, Entry(q.h)), Clean(q.h))
      BY <2>1, <2>2, <2>4, <2>6
    <3>0. Inside(q, x) /\ x.f \in x.live /\ q.ok
      BY <2>3, <2>6
    <3>2. Inside(r, x) /\ LikeH(q.h, r.h) /\ ~r.h.dirty /\ r.ok /\ r.blown = q.blown /\ ~Stuck(r)
          /\ r.left = q.left /\ r.got = q.got
      BY ONLY <3>0, <3>1, EntryStored
    <3> QED BY <1>3, <2>2, <3>2 DEF Writes, GoesOn, Certain
  <2> QED BY <2>5, <2>6
<1> QED BY <1>2, <1>3

\* ... and what is in memory written to the card.
LEMMA SyncFacts ==
  ASSUME NEW s, NEW x, Inside(s, x), x.f \in x.live, s.h.open, NEW r, r = Sync(s)
  PROVE  Writes(s, r, x) /\ (r.ok => ~r.dirty /\ Main(r.card) = Seen(r))
<1> PICK u : u = UpdateEntry(s)
  OBVIOUS
<1>1. Writes(s, u, x)
  BY UpdateFacts
<1>2. Sound(u) /\ r = CacheFlush(u) /\ Inside(u, x)
  BY <1>1 DEF Writes, Inside, Sync
<1>3. Keeps(u, r) /\ Certain(u, r) /\ (r.ok => ~r.dirty /\ Main(r.card) = Main(View(u)))
  BY <1>2, FlushKeeps
<1>4. Serves(u, r) /\ r.h = u.h /\ r.left = u.left /\ r.got = u.got /\ GoesOn(u, r) /\ Seen(r) = Main(View(u))
  BY <1>3, KeepsServes DEF Keeps, Leads, Seen
<1>5. Inside(r, x)
  BY <1>2, <1>4, InsideSame
<1>6. Certain(s, r) /\ GoesOn(s, r)
  BY <1>1, <1>3, <1>4, CertainTwice DEF Writes, GoesOn
<1> QED BY <1>1, <1>3, <1>4, <1>5, <1>6 DEF Writes, GoesOn

-----------------------------------------------------------------------------
(* write(): the chain grows, then the size *)

\* Less is said of the files.
Fewer(live, long, exact, full, li, lo, ex, fu) ==
  li \subseteq live /\ lo \subseteq long /\ ex \subseteq exact /\ (fu => full /\ li = live)
LEMMA LiveLess ==
  ASSUME NEW t, NEW root, NEW fl, NEW ch, NEW live, NEW long, NEW exact, NEW full,
         Live(t, root, fl, ch, live, long, exact, full),
         NEW li, NEW lo, NEW ex, NEW fu, Fewer(live, long, exact, full, li, lo, ex, fu)
  PROVE  \E dh : Live(t, root, fl, dh, li, lo, ex, fu)
<1> PICK dh : dh = [g \in li |-> ch[g]]
  OBVIOUS
<1>0. li \subseteq live /\ lo \subseteq long /\ ex \subseteq exact /\ (fu => full /\ li = live)
  BY DEF Fewer
<1>1. dh \in [li -> Seq(Clusters)] /\ \A g \in li : dh[g] = ch[g]
  BY <1>0 DEF Live
<1>2. ASSUME NEW g \in li PROVE FileOk(t, root, g, fl[g], dh[g], g \in lo, g \in ex, fu)
  <2> PICK a, b, c, d : a = (g \in long) /\ b = (g \in exact) /\ c = (g \in lo) /\ d = (g \in ex)
    OBVIOUS
  <2>1. FileOk(t, root, g, fl[g], ch[g], a, b, full) /\ (c => a) /\ (d => b) /\ (fu => full)
    BY <1>0 DEF Live
  <2>2. FileOk(t, root, g, fl[g], ch[g], c, d, fu)
    BY ONLY <2>1, FileLess
  <2> QED BY <1>1, <2>2
<1>3. Disjoint(li, dh)
  BY <1>0, <1>1 DEF Live, Disjoint
<1>4. fu => \A c \in Clusters : t[c] # 0 => \E g \in li : c \in Ran(dh[g])
  BY <1>0, <1>1 DEF Live
<1> QED BY <1>1, <1>2, <1>3, <1>4 DEF Live

\* y says no more than x.
Less(x, y) ==
  /\ y \in Contexts /\ y.f = x.f /\ y.file = x.file
  /\ y.live \subseteq x.live /\ y.long \subseteq x.long /\ y.exact \subseteq x.exact /\ y.exact \subseteq y.long
  /\ y.full => x.full /\ y.live = x.live
  /\ y.twin => x.twin

LEMMA InsideLess ==
  ASSUME NEW s, NEW x, Inside(s, x), NEW y, Less(x, y)
  PROVE  Inside(s, y)
<1>1. Sight(s, y)
  <2> PICK ex, fu, t, root, fl, xe, xf : /\ ex = Trusted(s, x) /\ fu = (x.full /\ s.ok) /\ t = Table(Seen(s))
                                         /\ root = Root(Seen(s)) /\ fl = Among(x, s.h)
                                         /\ xe = Trusted(s, y) /\ xf = (y.full /\ s.ok)
    OBVIOUS
  <2>1. PICK ch : Live(t, root, fl, ch, x.live, x.long, ex, fu)
    BY DEF Inside, Sight
  <2>2. Fewer(x.live, x.long, ex, fu, y.live, y.long, xe, xf)
    BY DEF Trusted, Less, Fewer
  <2>3. \E dh : Live(t, root, fl, dh, y.live, y.long, xe, xf)
    BY ONLY <2>1, <2>2, LiveLess
  <2>4. fl = Among(y, s.h)
    BY DEF Less, Among
  <2> QED BY <2>3, <2>4 DEF Sight
<1>2. Stored(s, y)
  <2> PICK ex, fu, t, root : /\ ex = {} /\ fu = FALSE /\ t = Table(Main(s.card)) /\ root = Root(Main(s.card))
    OBVIOUS
  <2>1. PICK ch : Live(t, root, AllClosed, ch, x.live, x.long, {}, FALSE)
    BY DEF Inside, Stored
  <2>2. Live(t, root, AllClosed, ch, x.live, x.long, ex, fu)
    BY <2>1
  <2>3. Fewer(x.live, x.long, ex, fu, y.live, y.long, ex, fu)
    BY DEF Less, Fewer
  <2>4. \E dh : Live(t, root, AllClosed, dh, y.live, y.long, ex, fu)
    BY ONLY <2>2, <2>3, LiveLess
  <2>5. \E dh : Live(t, root, AllClosed, dh, y.live, y.long, {}, FALSE)
    BY <2>4
  <2> QED BY <2>5 DEF Stored
<1>3. Lags(s, y)
  BY DEF Inside, Lags, Less
<1> QED BY <1>1, <1>2, <1>3 DEF Inside, Less

\* x says more than y of the file of the call.
More(x, y) ==
  /\ x \in Contexts /\ y.f = x.f /\ y.file = x.file /\ y.live = x.live
  /\ x.long \subseteq y.long \cup {x.f} /\ x.exact \subseteq y.exact \cup {x.f} /\ x.exact \subseteq x.long
  /\ (x.full => y.full) /\ (x.twin => y.twin) /\ x.f \in x.live

LEMMA InsideMore ==
  ASSUME NEW s, NEW y, Inside(s, y), NEW x, More(x, y), Stored(s, x),
         \A c : OfFile(s, y, c) => OfFile(s, x, c)
  PROVE  Inside(s, x)
<1>1. Sight(s, x)
  <2> PICK ex, fu, t, root, fl, xe, xf : /\ ex = Trusted(s, y) /\ fu = (y.full /\ s.ok) /\ t = Table(Seen(s))
                                         /\ root = Root(Seen(s)) /\ fl = Among(y, s.h)
                                         /\ xe = Trusted(s, x) /\ xf = (x.full /\ s.ok)
    OBVIOUS
  <2>1. PICK ch : Live(t, root, fl, ch, y.live, y.long, ex, fu)
    BY DEF Inside, Sight
  <2>2. xe \subseteq ex \cup {x.f} /\ (xf => fu) /\ x.f \in x.live /\ y.live = x.live /\ x.long \subseteq y.long \cup {x.f}
    BY DEF Trusted, More
  <2>3. x.f \in Names /\ s.h \in Handles /\ fl = Among(x, s.h) /\ fl[x.f] = s.h
    BY AmongFacts DEF Inside, Sound, State, Handles, Contexts, More, Among
  <2> PICK c : c = ch[x.f]
    OBVIOUS
  <2>4. c \in Seq(Clusters) /\ Once(c) /\ FileOk(t, root, x.f, s.h, c, x.f \in y.long, x.f \in ex, fu)
    BY <2>1, <2>2, <2>3 DEF Live, Disjoint, Once
  <2>5. OfFile(s, y, c)
    BY <2>4 DEF OfFile, More
  <2>6. FileOk(t, root, x.f, s.h, c, x.f \in x.long, x.f \in xe, xf)
    BY <2>5 DEF OfFile
  <2>7. ASSUME NEW g \in x.live PROVE FileOk(t, root, g, fl[g], ch[g], g \in x.long, g \in xe, xf)
    <3>1. CASE g = x.f
      BY <2>3, <2>6, <3>1
    <3>2. CASE g # x.f
      <4> PICK la, ea, lb, eb : la = (g \in y.long) /\ ea = (g \in ex) /\ lb = (g \in x.long) /\ eb = (g \in xe)
        OBVIOUS
      <4>1. FileOk(t, root, g, fl[g], ch[g], la, ea, fu) /\ (lb => la) /\ (eb => ea) /\ (xf => fu)
        BY <2>1, <2>2, <3>2 DEF Live
      <4>2. FileOk(t, root, g, fl[g], ch[g], lb, eb, xf)
        BY ONLY <4>1, FileLess
      <4> QED BY <4>2
    <3> QED BY <3>1, <3>2
  <2>8. Live(t, root, fl, ch, x.live, x.long, xe, xf)
    BY <2>1, <2>2, <2>7 DEF Live
  <2> QED BY <2>3, <2>8 DEF Sight
<1> QED BY <1>1 DEF Inside, Lags, More

\* A call that failed after it altered free entries of the table.
LEMMA InsideFailed ==
  ASSUME NEW s, NEW x, Inside(s, x), NEW r, Alters(s, r, {}), ~r.ok
  PROVE  Inside(r, x)
<1>0. Sound(r) /\ (Twin(s) => Twin(r)) /\ r.h = s.h /\ r.start \in Startable /\ CardAlters(s, r, {})
      /\ Root(Seen(r)) = Root(Seen(s)) /\ Within(Table(Seen(s)), Table(Seen(r)), {})
  BY DEF Alters, Inside
<1>1. Stored(r, x) /\ Lags(r, x)
  BY <1>0, StoredKept, LagsKept
<1>2. Sight(r, x)
  <2> PICK ex, fu, t, root, fl, xe, xf, u : /\ ex = Trusted(s, x) /\ fu = (x.full /\ s.ok) /\ t = Table(Seen(s))
                                         /\ root = Root(Seen(s)) /\ fl = Among(x, s.h)
                                         /\ xe = Trusted(r, x) /\ xf = (x.full /\ r.ok) /\ u = Table(Seen(r))
    OBVIOUS
  <2>1. PICK ch : Live(t, root, fl, ch, x.live, x.long, ex, fu)
    BY DEF Inside, Sight
  <2>2. u \in Tables /\ Within(t, u, {})
    BY <1>0, TablesTyped
  <2>3. Live(u, root, fl, ch, x.live, x.long, ex, FALSE)
    BY ONLY <2>1, <2>2, LiveFree
  <2> PICK no : no = FALSE
    OBVIOUS
  <2>4. Live(u, root, fl, ch, x.live, x.long, ex, no)
    BY <2>3
  <2>5. Fewer(x.live, x.long, ex, no, x.live, x.long, xe, xf)
    BY <1>0 DEF Trusted, Fewer
  <2>6. \E dh : Live(u, root, fl, dh, x.live, x.long, xe, xf)
    BY ONLY <2>4, <2>5, LiveLess
  <2> QED BY <1>0, <2>6 DEF Sight
<1> QED BY <1>0, <1>1, <1>2 DEF Inside

\* There is one chain from a cluster.
LEMMA ChainUnique ==
  ASSUME NEW t, NEW first, NEW c \in Seq(Clusters), NEW d \in Seq(Clusters), Linked(t, first, c), Linked(t, first, d)
  PROVE  c = d
<1> PICK n : n \in Nat /\ n = Len(c)
  OBVIOUS
<1>0. /\ \A i \in 1 .. Len(c) : c[i] \in Clusters /\ c[i] # EOC /\ c[i] # 0
      /\ \A i \in 1 .. Len(d) : d[i] \in Clusters /\ d[i] # EOC /\ d[i] # 0
  BY ClusterNumbers
<1>1. first = (IF c = <<>> THEN 0 ELSE c[1]) /\ first = IF d = <<>> THEN 0 ELSE d[1]
  BY DEF Linked
<1>2. /\ \A i \in 1 .. Len(c) : t[c[i]] = IF i < Len(c) THEN c[i + 1] ELSE EOC
      /\ \A i \in 1 .. Len(d) : t[d[i]] = IF i < Len(d) THEN d[i + 1] ELSE EOC
  BY DEF Linked
<1>3. c = <<>> => d = <<>>
  BY <1>0, <1>1
<1> DEFINE A == {k \in 0 .. n : k = 0 \/ (k <= Len(d) /\ c[k] = d[k])}
<1>4. 0 \in A
  OBVIOUS
<1>5. ASSUME NEW k \in 1 .. n, k - 1 \in A PROVE k \in A
  <2>1. CASE k = 1
    <3>1. c # <<>> /\ first = c[1] /\ c[1] # 0
      BY <1>0, <1>1, <2>1
    <3>2. d # <<>> /\ first = d[1]
      BY <1>1, <3>1
    <3>3. 1 <= Len(d)
      BY <3>2
    <3>4. c[k] = d[k] /\ k <= Len(d)
      BY <2>1, <3>1, <3>2, <3>3
    <3> QED BY <3>4
  <2>2. CASE k # 1
    <3> PICK j : j = k - 1 /\ j \in 1 .. Len(c) /\ j \in 1 .. Len(d) /\ c[j] = d[j] /\ j < Len(c) /\ k = j + 1
      BY <1>5, <2>2
    <3>1. t[c[j]] = c[j + 1] /\ c[j + 1] \in Clusters /\ c[j + 1] # EOC
      BY <1>0, <1>2
    <3>2. j < Len(d) /\ t[d[j]] = d[j + 1]
      BY <1>2, <3>1
    <3> QED BY <3>1, <3>2
  <2> QED BY <2>1, <2>2
<1> HIDE DEF A
<1>6. \A k \in 0 .. n : k \in A
  BY <1>4, <1>5, UpTo
<1>7. \A k \in 1 .. Len(c) : k <= Len(d) /\ c[k] = d[k]
  BY <1>6 DEF A
<1>8. Len(c) = Len(d)
  <2>1. CASE c = <<>>
    BY <1>3, <2>1
  <2>2. CASE c # <<>>
    <3>1. Len(c) \in 1 .. Len(c) /\ Len(c) \in 1 .. Len(d) /\ c[Len(c)] = d[Len(c)]
      BY <1>7, <2>2
    <3>2. t[c[Len(c)]] = EOC
      BY <1>2, <3>1
    <3>3. ASSUME Len(c) < Len(d) PROVE FALSE
      <4>1. t[d[Len(c)]] = d[Len(c) + 1] /\ Len(c) + 1 \in 1 .. Len(d)
        BY <1>2, <3>1, <3>3
      <4> QED BY <1>0, <3>1, <3>2, <4>1
    <3> QED BY <3>1, <3>3
  <2> QED BY <2>1, <2>2
<1> QED BY <1>7, <1>8

\* The chain of the file of a call is one.
LEMMA OneChain ==
  ASSUME NEW s, NEW x, NEW c, NEW d, OfFile(s, x, c), OfFile(s, x, d)
  PROVE  c = d
BY ChainUnique DEF OfFile, FileOk

\* e is the chain c with count clusters more, from bgn on.
Grows(c, e, bgn, count) ==
  /\ e \in Seq(Clusters) /\ Len(e) = Len(c) + count /\ (\A i \in 1 .. Len(c) : e[i] = c[i]) /\ e[Len(c) + 1] = bgn
\* k is a handle h of a file that has grown so.
Grown(h, k, c, bgn, count, long, root) ==
  /\ k \in Handle /\ k.first = (IF c = <<>> THEN bgn ELSE h.first) /\ Entered(k, root[k.slot])
  /\ k.cur = bgn \/ (k.cur = 0 /\ k.pos = 0 /\ k.size > 0)
  /\ long => k.size <= (Len(c) + count) * ClusterUnits

\* The chain after an allocation.
LEMMA AllocChain ==
  ASSUME NEW s, Sound(s), s.start \in Startable, NEW first, NEW c \in Seq(Clusters), Linked(Table(Seen(s)), first, c),
         Once(c), NEW count \in Nat \ {0}, NEW q, q = AllocContiguous(s, count, Last0(c)),
         NEW t, t = Table(Seen(s)), NEW u, u = Table(Seen(q))
  PROVE  /\ Alters(s, q, Ran(c)) /\ CardAlters(s, q, {})
         /\ ~q.ok => Alters(s, q, {})
         /\ q.ok => \E e : /\ Grows(c, e, q.val, count) /\ q.val \in Clusters /\ Once(e)
                           /\ Linked(u, IF c = <<>> THEN q.val ELSE first, e)
                           /\ u \in Tables /\ Within(t, u, Ran(c)) /\ \A a \in Ran(e) : a \in Ran(c) \/ t[a] = 0
                           /\ \A a \in Clusters : u[a] # 0 => a \in Ran(e) \/ (t[a] # 0 /\ a \notin Ran(c))
<1> PICK cur : cur = Last0(c)
  OBVIOUS
<1>1. cur = 0 \/ cur \in Ran(c)
  BY DEF Last0, Ran
<1>2. Ran(c) \subseteq Clusters /\ (\A a \in Ran(c) : t[a] # 0)
  BY UsedInChain DEF Ran
<1>3. cur \in {0} \cup Clusters /\ (cur # 0 => Table(Seen(s))[cur] # 0) /\ q = AllocContiguous(s, count, cur)
  BY <1>1, <1>2
<1>4. /\ Alters(s, q, {cur}) /\ CardAlters(s, q, {})
      /\ ~q.ok => Alters(s, q, {})
      /\ q.ok => \E end \in Clusters :
                   /\ q.val \in Clusters /\ q.val <= end /\ end - q.val + 1 = count
                   /\ Vacant(Table(Seen(s)), q.val, end)
                   /\ Table(Seen(q)) = Claimed(Table(Seen(s)), q.val, end, cur)
  BY <1>3, AllocFacts
<1>5. t \in Tables
  BY TablesTyped
<1>6. ASSUME q.ok
      PROVE  \E e : /\ Grows(c, e, q.val, count) /\ q.val \in Clusters /\ Once(e)
                    /\ Linked(u, IF c = <<>> THEN q.val ELSE first, e)
                    /\ u \in Tables /\ Within(t, u, Ran(c)) /\ \A a \in Ran(e) : a \in Ran(c) \/ t[a] = 0
                    /\ \A a \in Clusters : u[a] # 0 => a \in Ran(e) \/ (t[a] # 0 /\ a \notin Ran(c))
  <2> PICK end \in Clusters : /\ q.val \in Clusters /\ q.val <= end /\ end - q.val + 1 = count
                              /\ Vacant(t, q.val, end) /\ u = Claimed(t, q.val, end, Last0(c))
    BY <1>4, <1>6
  <2> PICK e, bgn : e = Longer(c, bgn, end) /\ bgn = q.val
    OBVIOUS
  <2>1. /\ bgn \in Clusters /\ end \in Clusters /\ bgn <= end /\ Vacant(t, bgn, end) /\ u = Claimed(t, bgn, end, Last0(c))
        /\ t \in Tables /\ c \in Seq(Clusters) /\ Linked(t, first, c) /\ Once(c) /\ e = Longer(c, bgn, end)
    BY <1>5
  <2>2. /\ u \in Tables /\ e \in Seq(Clusters) /\ Len(e) = Len(c) + (end - bgn + 1)
        /\ Linked(u, IF c = <<>> THEN bgn ELSE first, e) /\ Once(e)
        /\ Within(t, u, Ran(c))
        /\ \A a \in Ran(e) : a \in Ran(c) \/ t[a] = 0
        /\ \A i \in 1 .. Len(c) : e[i] = c[i]
        /\ e[Len(c) + 1] = bgn
        /\ \A a \in Clusters : u[a] # 0 => a \in Ran(e) \/ (t[a] # 0 /\ a \notin Ran(c))
    BY ONLY <2>1, LongerChain
  <2>3. Len(e) = Len(c) + count
    BY <2>2
  <2> QED BY <2>1, <2>2, <2>3 DEF Grows
<1>7. Alters(s, q, Ran(c))
  <2>1. CASE cur = 0
    <3>1. Root(Seen(q)) = Root(Seen(s)) /\ Within(Table(Seen(s)), Table(Seen(q)), Ran(c))
      <4>1. CASE q.ok
        BY <1>4, <1>6, <4>1 DEF Alters
      <4>2. CASE ~q.ok
        BY <1>4, <4>2 DEF Alters, Within
      <4> QED BY <4>1, <4>2
    <3>2. CardAlters(s, q, Ran(c))
      BY <1>4 DEF CardAlters, Within
    <3> QED BY <1>4, <3>1, <3>2 DEF Alters
  <2>2. CASE cur # 0
    <3>1. {cur} \subseteq Ran(c)
      BY <1>1, <2>2
    <3> QED BY <1>4, <3>1, AltersMore
  <2> QED BY <2>1, <2>2
<1> QED BY <1>4, <1>6, <1>7

LEMMA InsideGrown ==
  ASSUME NEW s, NEW y, Inside(s, y), y.f \in y.live, y.f \notin y.exact, s.h.open, NEW c, OfFile(s, y, c),
         NEW count, count \in Nat \ {0}, NEW q, q = AllocContiguous(s, count, Last0(c)), q.ok,
         NEW k, HandleOk(y.f, k), Grown(s.h, k, c, q.val, count, y.f \in y.long, Root(Seen(s))),
         NEW r, r = Holding(q, k)
  PROVE  /\ Inside(r, y) /\ r.ok /\ r.h = k /\ r.left = s.left /\ r.got = s.got
         /\ \E e : Grows(c, e, q.val, count) /\ OfFile(r, y, e)
<1> PICK t, u, root, h, f : t = Table(Seen(s)) /\ u = Table(Seen(q)) /\ root = Root(Seen(s)) /\ h = s.h /\ f = y.f
  OBVIOUS
<1>1. /\ h \in Handle /\ Sound(s) /\ c \in Seq(Clusters) /\ Linked(t, h.first, c)
      /\ (f \in y.long => h.size <= Len(c) * ClusterUnits)
  BY OpenChain
<1>2. Once(c) /\ s.start \in Startable
  BY DEF OfFile, Inside
<1>3. /\ Alters(s, q, Ran(c)) /\ CardAlters(s, q, {})
      /\ q.ok => \E e : /\ Grows(c, e, q.val, count) /\ q.val \in Clusters /\ Once(e)
                        /\ Linked(u, IF c = <<>> THEN q.val ELSE h.first, e)
                        /\ u \in Tables /\ Within(t, u, Ran(c)) /\ \A a \in Ran(e) : a \in Ran(c) \/ t[a] = 0
                        /\ \A a \in Clusters : u[a] # 0 => a \in Ran(e) \/ (t[a] # 0 /\ a \notin Ran(c))
  <2> PICK first : first = h.first
    OBVIOUS
  <2>1. Sound(s) /\ s.start \in Startable /\ c \in Seq(Clusters) /\ Linked(Table(Seen(s)), first, c)
        /\ Once(c) /\ count \in Nat \ {0} /\ q = AllocContiguous(s, count, Last0(c)) /\ t = Table(Seen(s)) /\ u = Table(Seen(q))
    BY <1>1, <1>2
  <2>2. /\ Alters(s, q, Ran(c)) /\ CardAlters(s, q, {})
        /\ q.ok => \E e : /\ Grows(c, e, q.val, count) /\ q.val \in Clusters /\ Once(e)
                          /\ Linked(u, IF c = <<>> THEN q.val ELSE first, e)
                          /\ u \in Tables /\ Within(t, u, Ran(c)) /\ \A a \in Ran(e) : a \in Ran(c) \/ t[a] = 0
                          /\ \A a \in Clusters : u[a] # 0 => a \in Ran(e) \/ (t[a] # 0 /\ a \notin Ran(c))
    BY ONLY <2>1, AllocChain
  <2> QED BY <2>2
<1> PICK e : /\ Grows(c, e, q.val, count) /\ q.val \in Clusters /\ Once(e)
             /\ Linked(u, IF c = <<>> THEN q.val ELSE h.first, e)
             /\ u \in Tables /\ Within(t, u, Ran(c)) /\ \A a \in Ran(e) : a \in Ran(c) \/ t[a] = 0
             /\ \A a \in Clusters : u[a] # 0 => a \in Ran(e) \/ (t[a] # 0 /\ a \notin Ran(c))
  BY <1>3
<1>4. /\ Sound(q) /\ (Twin(s) => Twin(q)) /\ (q.ok => s.ok) /\ q.h = s.h /\ q.start \in Startable /\ Root(Seen(q)) = root
      /\ q.left = s.left /\ q.got = s.got
  BY <1>2, <1>3 DEF Alters, GoesOn
<1>5. k \in Handles /\ k \in Handle /\ k.open = TRUE
  BY HandleTypes DEF Grown, Handles
<1>6. /\ Serves(q, r) /\ Seen(r) = Seen(q) /\ SameCache(q, r)
      /\ r.h = k /\ r.ok = q.ok /\ r.blown = q.blown /\ r.start = q.start
      /\ r.left = q.left /\ r.got = q.got
  <2>1. Sound(q) /\ k \in Handles /\ r = Holding(q, k)
    BY <1>4, <1>5
  <2> QED BY ONLY <2>1, HoldingServes
<1>7. Table(Seen(r)) = u /\ Root(Seen(r)) = root /\ Sound(r) /\ (Twin(s) => Twin(r)) /\ r.start \in Startable
  BY <1>4, <1>6 DEF Serves
<1>8. Stored(r, y) /\ Lags(r, y)
  <2>1. CardAlters(s, r, {})
    BY <1>3, <1>6 DEF CardAlters, SameCache
  <2> QED BY <1>7, <2>1, StoredKept, LagsKept
<1> PICK ex, fu, lo, fl, xe, xf : /\ ex = Trusted(s, y) /\ fu = (y.full /\ s.ok) /\ lo = y.long
                                  /\ fl = Among(y, s.h) /\ xe = Trusted(r, y) /\ xf = (y.full /\ r.ok)
  OBVIOUS
<1>9. FileOk(u, root, f, k, e, f \in lo, f \in xe, xf)
  <2>1. Linked(u, FirstIn(root, f, k), e) /\ SizeIn(root, f, k) = k.size
    BY <1>5 DEF FirstIn, SizeIn, Grown
  <2>2. Len(e) = Len(c) + count /\ e # <<>> /\ Len(e) \in Nat
    BY <1>1 DEF Grows
  <2>3. f \in lo => k.size <= Len(e) * ClusterUnits
    BY <2>2 DEF Grown
  <2>4. k.size = 0 => k.cur # 0
    <3>1. q.val # 0
      BY ClusterNumbers
    <3>2. k.size \in Nat
      BY <1>5, HandleTypes
    <3> QED BY <3>1, <3>2 DEF Grown
  <2>5. f \notin xe
    BY DEF Trusted
  <2>6. Stands(k, e, FALSE)
    <3>1. q.val \in Ran(e)
      <4>1. Len(c) + 1 \in 1 .. Len(e) /\ e[Len(c) + 1] = q.val
        BY <1>1 DEF Grows
      <4> QED BY <4>1 DEF Ran
    <3> QED BY <2>2, <3>1, ClusterNumbers DEF Stands, Grown
  <2>7. Entered(k, root[k.slot])
    BY DEF Grown
  <2>8. Stands(k, e, f \in xe)
    BY <2>5, <2>6 DEF Stands
  <2>9. xf /\ SizeIn(root, f, k) = 0 /\ (k.open => k.cur = 0) => e = <<>>
    BY <1>5, <2>1, <2>4
  <2>10. SizeIn(root, f, k) > 0 => e # <<>>
    BY <2>2
  <2>11. f \in lo => SizeIn(root, f, k) <= Len(e) * ClusterUnits
    BY <2>1, <2>3
  <2>12. k.open => Entered(k, root[k.slot]) /\ Stands(k, e, f \in xe)
    BY <2>7, <2>8
  <2>13. Linked(u, FirstIn(root, f, k), e)
    BY <2>1
  <2> QED BY ONLY <2>9, <2>10, <2>11, <2>12, <2>13 DEF FileOk
<1>10. OfFile(r, y, e)
  BY <1>6, <1>7, <1>9 DEF OfFile, Grows
<1>11. Sight(r, y)
  <2>1. PICK ch : Live(t, root, fl, ch, y.live, lo, ex, fu)
    BY DEF Inside, Sight
  <2>2. f \in Names /\ y.live \subseteq Names /\ f \in y.live /\ fl[f] = h /\ [fl EXCEPT ![f] = k] = Among(y, k)
    BY <1>1, <1>5, AmongFacts DEF Inside, Contexts, Handles
  <2>3. OfFile(s, y, ch[f])
    BY <2>1, <2>2 DEF Live, OfFile, Disjoint, Once
  <2>4. ch[f] = c
    BY <2>3, OneChain
  <2>5. RootOk(root)
    BY <2>1 DEF Live
  <2>6. \A g \in y.live \ {f} : EntryIn(root, g) = EntryIn(root, g) /\ (fl[g].open => root[fl[g].slot] = root[fl[g].slot])
    OBVIOUS
  <2>7. Within(t, u, Ran(ch[f])) /\ \A a \in Ran(e) : a \in Ran(ch[f]) \/ t[a] = 0
    BY <2>4
  <2>8. xf => \A a \in Clusters : u[a] # 0 => a \in Ran(e) \/ (t[a] # 0 /\ a \notin Ran(ch[f]))
    BY <2>4
  <2>9. lo \subseteq lo \cup {f} /\ xe \subseteq ex \cup {f} /\ (xf => fu)
    BY <1>4, <1>6 DEF Trusted
  <2>10. e \in Seq(Clusters) /\ Once(e) /\ u \in Tables
    BY DEF Grows
  <2>11. Live(u, root, [fl EXCEPT ![f] = k], [ch EXCEPT ![f] = e], y.live, lo, xe, xf)
    BY ONLY <1>5, <1>9, <2>1, <2>2, <2>5, <2>6, <2>7, <2>8, <2>9, <2>10, LiveStep
  <2> PICK dh : dh = [ch EXCEPT ![f] = e]
    OBVIOUS
  <2>12. Live(u, root, Among(y, k), dh, y.live, lo, xe, xf)
    BY <2>2, <2>11
  <2> QED BY <1>6, <1>7, <2>12 DEF Sight
<1>12. Inside(r, y)
  BY <1>6, <1>7, <1>8, <1>11 DEF Inside
<1> QED BY <1>4, <1>6, <1>10, <1>12

\* Nothing is said of the place of the file of the call.
Eased(x) == [x EXCEPT !.exact = @ \ {x.f}]
LEMMA EasedFacts ==
  ASSUME NEW x, x \in Contexts, x.exact \subseteq x.long, NEW y, y = Eased(x)
  PROVE  /\ Less(x, y) /\ (x.f \in x.live => More(x, y))
         /\ y.f = x.f /\ y.file = x.file /\ y.live = x.live /\ y.long = x.long /\ y.full = x.full /\ y.twin = x.twin
         /\ y.f \notin y.exact /\ y.exact = x.exact \ {x.f}
BY DEF Eased, Less, More, Contexts

LEMMA EasedInside ==
  ASSUME NEW s, NEW x, Inside(s, x), NEW y, y = Eased(x)
  PROVE  Inside(s, y) /\ \A c : OfFile(s, x, c) => OfFile(s, y, c)
<1>1. /\ Less(x, y) /\ y.f = x.f /\ y.long = x.long /\ y.full = x.full /\ y.f \notin y.exact
  BY EasedFacts DEF Inside
<1>2. ASSUME NEW c, OfFile(s, x, c) PROVE OfFile(s, y, c)
  <2> PICK t, root, lo, ex, xe, fu : /\ t = Table(Seen(s)) /\ root = Root(Seen(s)) /\ lo = (x.f \in x.long)
                                     /\ ex = (x.f \in Trusted(s, x)) /\ xe = (y.f \in Trusted(s, y)) /\ fu = (x.full /\ s.ok)
    OBVIOUS
  <2>1. FileOk(t, root, x.f, s.h, c, lo, ex, fu) /\ (lo => lo) /\ (xe => ex) /\ (fu => fu)
    BY <1>1, <1>2 DEF OfFile, Trusted
  <2>2. FileOk(t, root, x.f, s.h, c, lo, xe, fu)
    BY ONLY <2>1, FileLess
  <2> QED BY <1>1, <1>2, <2>2 DEF OfFile
<1> QED BY <1>1, <1>2, InsideLess

\* The next n units can be written, if the call has not failed.
Ready(s, m, x, n) ==
  /\ Inside(m, Eased(x)) /\ m.h.open /\ m.left = s.left /\ m.got = s.got /\ (m.ok => s.ok)
  /\ m.h.pos = s.h.pos /\ m.h.size = s.h.size /\ m.h.flags = s.h.flags
  /\ m.ok => \A e : OfFile(m, Eased(x), e) =>
               /\ e # <<>> /\ m.h.cur \in {EOC} \cup Ran(e)
               /\ x.f \in Trusted(s, x) => Nth(s.h.pos + n) \in 1 .. Len(e) /\ m.h.cur = e[Nth(s.h.pos + n)]

\* The chain is long enough.
LEMMA ReachReady ==
  ASSUME NEW s, NEW x, Inside(s, x), s.h.open, x.f \in x.live, NEW c, OfFile(s, x, c), c # <<>>, NEW n, n \in Nat \ {0},
         NEW m, Reaches(s, m, c, x.f \in Trusted(s, x), n),
         m.ok /\ x.f \in Trusted(s, x) => Nth(s.h.pos + n) <= Len(c)
  PROVE  Ready(s, m, x, n)
<1> PICK y : y = Eased(x)
  OBVIOUS
<1>1. Inside(s, y) /\ OfFile(s, y, c) /\ y.f = x.f /\ y.f \notin y.exact /\ y.live = x.live
  BY EasedInside, EasedFacts DEF Inside
<1>2. s.h \in Handle /\ HandleOk(x.f, s.h) /\ c \in Seq(Clusters) /\ s.h.pos \in Nat
  BY OpenChain, HandleTypes
<1> PICK cur \in {EOC} \cup Ran(c) : m.h = Turned(s.h, cur, s.h.pos)
  BY DEF Reaches
<1>3. cur \in Clusters \cup {EOC} /\ cur \in Nat /\ cur # 0 /\ cur <= EOC
  BY <1>2, RanFacts, ClusterNumbers
<1>4. Moved(s.h, cur, s.h.pos, m.h)
  BY <1>2, <1>3, TurnedFacts
<1>5. Carried(s.h, m.h) /\ m.h.open /\ m.h.pos = s.h.pos /\ m.h.size = s.h.size /\ m.h.flags = s.h.flags /\ m.h.cur = cur
  BY <1>2, <1>3, <1>4, HandleTypes DEF Carried, Moved
<1>6. HandleOk(x.f, m.h)
  BY <1>2, <1>3, <1>4 DEF HandleOk, Moved, Handle
<1>7. Serves(s, m) /\ m.left = s.left /\ m.got = s.got
  BY DEF Reaches, Near
<1>8. Stands(m.h, c, FALSE)
  BY <1>3, <1>5 DEF Stands
<1>9. OfFile(m, y, c)
  BY <1>1, <1>3, <1>5, <1>7, <1>8, CarriedFile DEF Trusted
<1>10. Inside(m, y)
  <2>1. \A d : OfFile(s, y, d) => OfFile(m, y, d)
    BY <1>1, <1>9, OneChain
  <2> QED BY <1>1, <1>6, <1>7, <2>1, InsideServes
<1>11. ASSUME m.ok, NEW e, OfFile(m, y, e)
       PROVE  /\ e # <<>> /\ m.h.cur \in {EOC} \cup Ran(e)
              /\ x.f \in Trusted(s, x) => Nth(s.h.pos + n) \in 1 .. Len(e) /\ m.h.cur = e[Nth(s.h.pos + n)]
  <2>1. e = c
    BY <1>9, <1>11, OneChain
  <2>2. ASSUME x.f \in Trusted(s, x) PROVE Nth(s.h.pos + n) \in 1 .. Len(c) /\ m.h.cur = c[Nth(s.h.pos + n)]
    <3>1. s.h.pos + n \in Nat \ {0}
      BY <1>2
    <3>2. Nth(s.h.pos + n) \in Nat \ {0} /\ Nth(s.h.pos + n) <= Len(c)
      BY <1>11, <2>2, <3>1, NthFacts
    <3>3. Nth(s.h.pos + n) \in 1 .. Len(c)
      BY <1>2, <3>2
    <3> QED BY <1>11, <2>2, <3>2, <3>3 DEF Reaches
  <2> QED BY <1>5, <2>1, <2>2
<1> QED BY <1>5, <1>7, <1>10, <1>11 DEF Ready, Serves

\* A handle whose file has got the cluster v.
Joined(h, v) == IF h.first # 0 THEN [h EXCEPT !.cur = v] ELSE [h EXCEPT !.cur = v, !.first = v, !.dirty = TRUE]
LEMMA JoinedFacts ==
  ASSUME NEW h \in Handle, NEW v, v \in Nat, NEW k, k = Joined(h, v)
  PROVE  /\ k \in Handle /\ k.cur = v /\ k.pos = h.pos /\ k.size = h.size /\ k.flags = h.flags
         /\ k.name = h.name /\ k.slot = h.slot /\ k.first = (IF h.first = 0 THEN v ELSE h.first)
         /\ (h.first = 0 => k.dirty) /\ (h.first # 0 => k.dirty = h.dirty)
<1>1. CASE h.first = 0
  BY <1>1 DEF Joined, Handle
<1>2. CASE h.first # 0
  BY <1>2 DEF Joined, Handle
<1> QED BY <1>1, <1>2

\* A cluster is added to the file of the call.
Added(s, m, y, c) ==
  /\ Inside(m, y) /\ m.h.open /\ m.left = s.left /\ m.got = s.got /\ (m.ok => s.ok)
  /\ m.h.pos = s.h.pos /\ m.h.size = s.h.size /\ m.h.flags = s.h.flags
  /\ m.ok => \E e : Grows(c, e, m.h.cur, 1) /\ OfFile(m, y, e)

LEMMA MoreUnits ==
  ASSUME NEW a \in Nat, NEW b \in Nat \ {0}, NEW z, z <= a * ClusterUnits, z \in Nat
  PROVE  z <= (a + b) * ClusterUnits
<1> PICK m, d : m = ClusterUnits /\ d = a + b /\ m \in Nat /\ d \in Nat /\ a < d
  BY Units
<1>1. a * m + m <= d * m /\ a * m \in Nat /\ d * m \in Nat
  BY Products
<1> PICK p, q : p = a * m /\ q = d * m
  OBVIOUS
<1>2. z <= p /\ p + m <= q /\ p \in Nat /\ q \in Nat /\ m \in Nat
  BY <1>1
<1>3. z <= q
  BY ONLY <1>2, z \in Nat
<1> QED BY <1>3

\* addCluster() lengthens the chain of the file by one free cluster.
LEMMA AddFacts ==
  ASSUME NEW s, NEW y, Inside(s, y), y.f \in y.live, y.f \notin y.exact, s.h.open, NEW c, OfFile(s, y, c),
         s.h.cur = Last0(c), NEW m, m = AddCluster(s)
  PROVE  Added(s, m, y, c)
<1> PICK q : q = AllocContiguous(s, 1, Last0(c))
  OBVIOUS
<1>1. /\ s.h \in Handle /\ HandleOk(y.f, s.h) /\ Sound(s) /\ c \in Seq(Clusters) /\ Linked(Table(Seen(s)), s.h.first, c)
      /\ (y.f \in y.long => s.h.size <= Len(c) * ClusterUnits)
      /\ Entered(s.h, Root(Seen(s))[s.h.slot])
  BY OpenChain
<1>2. Once(c) /\ s.start \in Startable
  BY DEF OfFile, Inside
<1> PICK first, one, t, u : first = s.h.first /\ one = 1 /\ t = Table(Seen(s)) /\ u = Table(Seen(q))
  OBVIOUS
<1>3. Sound(s) /\ s.start \in Startable /\ c \in Seq(Clusters) /\ Linked(Table(Seen(s)), first, c)
      /\ Once(c) /\ one \in Nat \ {0} /\ q = AllocContiguous(s, one, Last0(c)) /\ t = Table(Seen(s)) /\ u = Table(Seen(q))
  BY <1>1, <1>2
<1>4. /\ Alters(s, q, Ran(c)) /\ (~q.ok => Alters(s, q, {}))
      /\ q.ok => \E e : Grows(c, e, q.val, one) /\ q.val \in Clusters
  BY ONLY <1>3, AllocChain
<1>5. q.h = s.h /\ q.left = s.left /\ q.got = s.got /\ (q.ok => s.ok)
  BY <1>4 DEF Alters, GoesOn
<1>6. CASE ~q.ok
  <2>1. m = q
    BY <1>6 DEF AddCluster, Then
  <2>2. Inside(m, y)
    BY <1>4, <1>6, <2>1, InsideFailed
  <2> QED BY <1>5, <1>6, <2>1, <2>2 DEF Added
<1>7. CASE q.ok
  <2> PICK v, k : v = q.val /\ k = Joined(s.h, v)
    OBVIOUS
  <2>1. m = Holding(q, k)
    BY <1>5, <1>7 DEF AddCluster, Then, Holding, Joined
  <2>2. v \in Clusters /\ v \in Nat /\ v <= EOC /\ v # 0
    BY <1>4, <1>7, ClusterNumbers
  <2>3. /\ k \in Handle /\ k.cur = v /\ k.pos = s.h.pos /\ k.size = s.h.size /\ k.flags = s.h.flags
        /\ k.name = s.h.name /\ k.slot = s.h.slot /\ k.first = (IF s.h.first = 0 THEN v ELSE s.h.first)
        /\ (s.h.first = 0 => k.dirty) /\ (s.h.first # 0 => k.dirty = s.h.dirty)
    BY <1>1, <2>2, JoinedFacts
  <2>4. HandleOk(y.f, k)
    BY <1>1, <2>2, <2>3, HandleTypes DEF HandleOk
  <2>5. c = <<>> <=> s.h.first = 0
    <3>1. c # <<>> => c[1] \in Clusters
      BY <1>1
    <3> QED BY <1>1, <3>1, ClusterNumbers DEF Linked
  <2>6. k.first = IF c = <<>> THEN v ELSE s.h.first
    BY <2>3, <2>5
  <2>7. Entered(k, Root(Seen(s))[k.slot])
    BY <1>1, <2>3 DEF Entered
  <2>8. y.f \in y.long => k.size <= (Len(c) + one) * ClusterUnits
    <3> SUFFICES ASSUME y.f \in y.long PROVE k.size <= (Len(c) + one) * ClusterUnits
      OBVIOUS
    <3> PICK z, a : z = k.size /\ a = Len(c)
      OBVIOUS
    <3>2. k.size \in Nat
      BY <2>3, HandleTypes
    <3>3. Len(c) \in Nat
      BY <1>1
    <3>0. z \in Nat /\ a \in Nat /\ one \in Nat \ {0}
      BY <1>3, <3>2, <3>3
    <3>1. z \in Nat /\ a \in Nat /\ one \in Nat \ {0} /\ z <= a * ClusterUnits
      BY <1>1, <2>3, <3>0
    <3>4. z <= (a + one) * ClusterUnits
      BY ONLY <3>1, MoreUnits
    <3> QED BY <3>4
  <2>9. Grown(s.h, k, c, q.val, one, y.f \in y.long, Root(Seen(s)))
    BY <2>3, <2>6, <2>7, <2>8 DEF Grown
  <2>10. /\ Inside(m, y) /\ m.ok /\ m.h = k /\ m.left = s.left /\ m.got = s.got
         /\ \E e : Grows(c, e, q.val, one) /\ OfFile(m, y, e)
    BY <1>3, <1>7, <2>1, <2>4, <2>9, InsideGrown
  <2> QED BY <1>5, <1>7, <2>3, <2>10, HandleTypes DEF Added
<1> QED BY <1>6, <1>7

LEMMA AddReady ==
  ASSUME NEW s, NEW x, NEW c \in Seq(Clusters), NEW n, NEW g, g.h = s.h, g.left = s.left, g.got = s.got, g.ok => s.ok,
         NEW m, Added(g, m, Eased(x), c), x.f \in Trusted(s, x) => Nth(s.h.pos + n) = Len(c) + 1
  PROVE  Ready(s, m, x, n)
<1>1. /\ Inside(m, Eased(x)) /\ m.h.open /\ m.left = s.left /\ m.got = s.got /\ (m.ok => s.ok)
      /\ m.h.pos = s.h.pos /\ m.h.size = s.h.size /\ m.h.flags = s.h.flags
  BY DEF Added
<1>2. ASSUME m.ok, NEW e, OfFile(m, Eased(x), e)
      PROVE  /\ e # <<>> /\ m.h.cur \in {EOC} \cup Ran(e)
             /\ x.f \in Trusted(s, x) => Nth(s.h.pos + n) \in 1 .. Len(e) /\ m.h.cur = e[Nth(s.h.pos + n)]
  <2>1. Grows(c, e, m.h.cur, 1)
    BY <1>2, OneChain DEF Added
  <2>2. Len(c) + 1 \in 1 .. Len(e) /\ e[Len(c) + 1] = m.h.cur /\ e # <<>>
    BY <2>1 DEF Grows
  <2> QED BY <2>2 DEF Ran
<1> QED BY <1>1, <1>2 DEF Ready

\* Behind its last cluster the table ends the chain.
LEMMA AtEnd ==
  ASSUME NEW t, NEW first, NEW c \in Seq(Clusters), Linked(t, first, c), NEW cur \in Ran(c)
  PROVE  \E i \in 1 .. Len(c) : /\ cur = c[i] /\ (t[cur] = EOC <=> i = Len(c)) /\ (i # Len(c) => t[cur] = c[i + 1])
                                /\ t[cur] \in Clusters \cup {EOC} /\ (t[cur] > LastCluster <=> t[cur] = EOC)
<1> PICK i \in 1 .. Len(c) : cur = c[i]
  BY DEF Ran
<1>1. t[cur] = IF i < Len(c) THEN c[i + 1] ELSE EOC
  BY DEF Linked
<1>2. i < Len(c) => c[i + 1] \in Clusters /\ c[i + 1] # EOC
  BY ClusterNumbers
<1>3. \A a \in Clusters \cup {EOC} : a > LastCluster <=> a = EOC
  BY VolumeAssumption DEF Clusters, EOC, LastCluster
<1> QED BY <1>1, <1>2, <1>3

\* write() moves on to the next cluster, or adds one.
LEMMA NextReady ==
  ASSUME NEW s, NEW x, Inside(s, x), x.f \in x.live, s.h.open, NEW n, Turns(s, n), n \in Nat \ {0}, AtCluster(s), s.h.cur # 0,
         NEW m, m = ClusterForWrite(s), s.ok
  PROVE  Ready(s, m, x, n)
<1> PICK c : OfFile(s, x, c)
  BY InsideChain
<1> PICK ex, t, h, cur : ex = (x.f \in Trusted(s, x)) /\ t = Table(Seen(s)) /\ h = s.h /\ cur = h.cur
  OBVIOUS
<1>1. /\ h \in Handle /\ HandleOk(x.f, h) /\ Sound(s) /\ c \in Seq(Clusters) /\ Linked(t, h.first, c)
      /\ Stands(h, c, ex) /\ h.pos \in Nat
  BY OpenChain, HandleTypes
<1>2. cur \in {EOC} \cup Ran(c)
  BY <1>1 DEF Stands
<1>3. c # <<>> /\ cur \in Clusters \cup {EOC} /\ cur \in Nat
  BY <1>1, <1>2, RanFacts DEF Stands
<1> PICK y : y = Eased(x)
  OBVIOUS
<1>4. Inside(s, y) /\ OfFile(s, y, c) /\ y.f = x.f /\ y.live = x.live /\ y.f \notin y.exact
  BY EasedInside, EasedFacts DEF Inside
<1> PICK g : g = FatGet(s, cur)
  OBVIOUS
<1>5. m = IF ~g.ok THEN g ELSE IF IsEOC(g.val) THEN AddCluster(g) ELSE [g EXCEPT !.h.cur = g.val]
  BY DEF ClusterForWrite, Then
<1>6. Keeps(s, g)
  <2>1. CASE cur = EOC
    BY <1>1, <1>3, <2>1, FatGetPast, VolumeAssumption DEF EOC, LastCluster
  <2>2. CASE cur \in Clusters
    <3>1. cur \in 0 .. LastCluster
      BY <2>2, VolumeAssumption DEF Clusters
    <3> QED BY <1>1, <3>1, FatGetKeeps
  <2> QED BY <1>3, <2>1, <2>2
<1>7. Near(s, g) /\ g.h = h /\ g.left = s.left /\ g.got = s.got /\ Serves(s, g) /\ Sound(g) /\ (g.ok => s.ok)
  BY <1>6, KeepsNear DEF Near, Serves
<1>8. Inside(g, y) /\ Inside(g, x)
  BY <1>4, <1>7, InsideSame
<1>9. CASE ~g.ok
  <2>1. m = g
    BY <1>5, <1>9
  <2> QED BY <1>7, <1>8, <1>9, <2>1 DEF Ready
<1>10. CASE g.ok
  <2>1. cur \in Ran(c)
    <3>1. EOC \in Nat /\ EOC > LastCluster
      BY VolumeAssumption DEF EOC, LastCluster
    <3>2. cur # EOC
      BY <1>1, <1>10, <3>1, FatGetPast
    <3> QED BY <1>2, <3>2
  <2>2. g.val = t[cur]
    <3>1. cur \in Clusters
      BY <1>1, <2>1 DEF Ran
    <3>2. cur \in 0 .. LastCluster
      BY <3>1, VolumeAssumption DEF Clusters
    <3> QED BY <1>1, <1>10, <3>2, FatGetKeeps
  <2> PICK first : first = h.first
    OBVIOUS
  <2> PICK i \in 1 .. Len(c) : /\ cur = c[i] /\ (t[cur] = EOC <=> i = Len(c)) /\ (i # Len(c) => t[cur] = c[i + 1])
                               /\ t[cur] \in Clusters \cup {EOC} /\ (t[cur] > LastCluster <=> t[cur] = EOC)
    <3>1. c \in Seq(Clusters) /\ Linked(t, first, c) /\ cur \in Ran(c)
      BY <1>1, <2>1
    <3> QED BY ONLY <3>1, AtEnd
  <2>3. ex /\ h.pos > 0 => i = Nth(h.pos) /\ Nth(h.pos + n) = i + 1
    <3> SUFFICES ASSUME ex, h.pos > 0 PROVE i = Nth(h.pos) /\ Nth(h.pos + n) = i + 1
      OBVIOUS
    <3>1. Nth(h.pos) \in 1 .. Len(c) /\ c[Nth(h.pos)] = c[i]
      BY <1>1 DEF Stands
    <3>2. Once(c)
      BY DEF OfFile
    <3>3. i = Nth(h.pos)
      BY <3>1, <3>2 DEF Once
    <3>4. Nth(h.pos + n) = Nth(h.pos) + 1
      BY DEF Turns
    <3> QED BY <3>3, <3>4
  <2>4. ex => h.pos > 0
    BY <1>1 DEF Stands
  <2>5. CASE IsEOC(g.val)
    <3>1. i = Len(c) /\ cur = Last0(c)
      BY <1>3, <2>2, <2>5 DEF IsEOC, Last0
    <3>2. OfFile(g, y, c)
      <4>1. Seen(g) = Seen(s) /\ (y.full /\ s.ok) = (y.full /\ g.ok)
        BY <1>6, <1>10 DEF Keeps, Leads, Seen
      <4> QED BY <1>4, <1>7, <4>1 DEF OfFile, Trusted
    <3>3. m = AddCluster(g) /\ g.h.cur = Last0(c) /\ g.h.open
      BY <1>5, <1>7, <1>10, <2>5, <3>1
    <3>4. Added(g, m, y, c)
      BY <1>4, <1>8, <3>2, <3>3, AddFacts
    <3>5. ex => Nth(h.pos + n) = Len(c) + 1
      BY <2>3, <2>4, <3>1
    <3> QED BY <1>1, <1>7, <3>4, <3>5, AddReady
  <2>6. CASE ~IsEOC(g.val)
    <3>1. i # Len(c) /\ t[cur] = c[i + 1] /\ i + 1 \in 1 .. Len(c)
      BY <2>2, <2>6 DEF IsEOC
    <3> PICK v, k : v = g.val /\ k = Turned(h, v, h.pos)
      OBVIOUS
    <3>2. v = c[i + 1] /\ v \in Ran(c) /\ v \in Nat
      BY <2>2, <3>1, <1>1, RanFacts DEF Ran
    <3>3. m = Holding(g, k)
      <4>1. m = [g EXCEPT !.h.cur = v]
        BY <1>5, <1>10, <2>6
      <4>2. g \in State /\ g.h = h
        BY <1>7 DEF Sound
      <4>3. [h EXCEPT !.cur = v] = k
        BY <1>1, HandleTypes DEF Turned, Handle
      <4>4. m = [g EXCEPT !.h = [g.h EXCEPT !.cur = v]]
        BY <4>1, <4>2 DEF State
      <4> QED BY <4>2, <4>3, <4>4 DEF Holding
    <3>4. Moved(h, v, h.pos, k)
      BY <1>1, <3>2, TurnedFacts
    <3>5. k \in Handles
      BY <3>4 DEF Moved, Handles
    <3>6. Near(g, m) /\ m.h = k /\ m.ok
      BY <1>7, <1>10, <3>3, <3>5, HoldingNear
    <3>7. Near(s, m)
      BY <1>7, <3>6, NearTwice
    <3>8. ex => Nth(h.pos + n) = i + 1
      BY <2>3, <2>4
    <3>9. Reaches(s, m, c, ex, n)
      BY <3>2, <3>4, <3>6, <3>7, <3>8 DEF Reaches, Moved
    <3>10. m.ok /\ ex => Nth(s.h.pos + n) <= Len(c)
      BY <3>1, <3>8
    <3> QED BY <1>3, <3>9, <3>10, ReachReady
  <2> QED BY <2>5, <2>6
<1> QED BY <1>9, <1>10

\* The cluster to write.
LEMMA WriteReady ==
  ASSUME NEW s, NEW x, Inside(s, x), x.f \in x.live, s.h.open, NEW n, Turns(s, n), n \in Nat \ {0},
         NEW m, m = ClusterForWrite(s), s.ok
  PROVE  Ready(s, m, x, n)
<1> PICK c : OfFile(s, x, c)
  BY InsideChain
<1> PICK ex : ex = (x.f \in Trusted(s, x))
  OBVIOUS
<1>1. /\ s.h \in Handle /\ HandleOk(x.f, s.h) /\ Sound(s) /\ c \in Seq(Clusters) /\ Linked(Table(Seen(s)), s.h.first, c)
      /\ Stands(s.h, c, ex) /\ s.h.pos \in Nat /\ s.h.first \in Nat
  BY OpenChain, HandleTypes
<1>2. CASE ~AtCluster(s)
  <2>1. s.h.pos > 0 /\ Nth(s.h.pos + n) = Nth(s.h.pos)
    BY <1>2 DEF Turns
  <2>2. c # <<>>
    BY <1>1, <2>1 DEF Stands
  <2>3. Reaches(s, s, c, ex, n)
    BY <1>1, <1>2, <2>2, ReachSame
  <2>4. ex => Nth(s.h.pos + n) <= Len(c)
    BY <1>1, <2>1 DEF Stands
  <2>5. m = s
    BY <1>2 DEF ClusterForWrite
  <2> QED BY <2>2, <2>3, <2>4, <2>5, ReachReady
<1>3. CASE AtCluster(s) /\ s.h.cur # 0
  BY <1>3, NextReady
<1>4. CASE AtCluster(s) /\ s.h.cur = 0
  <2>1. s.h.pos = 0 /\ Nth(s.h.pos + n) = 1
    BY <1>1, <1>4 DEF Stands, Turns
  <2>2. CASE s.h.first = 0
    <3>1. c = <<>>
      <4> SUFFICES ASSUME c # <<>> PROVE FALSE
        OBVIOUS
      <4>1. c[1] \in Clusters
        BY <1>1
      <4>2. c[1] = 0
        BY <1>1, <2>2 DEF Linked
      <4> QED BY <4>1, <4>2 DEF Clusters
    <3>2. m = AddCluster(s) /\ s.h.cur = Last0(c)
      BY <1>4, <2>2, <3>1 DEF ClusterForWrite, Last0
    <3> PICK y : y = Eased(x)
      OBVIOUS
    <3>3. Inside(s, y) /\ OfFile(s, y, c) /\ y.f \in y.live /\ y.f \notin y.exact
      BY EasedInside, EasedFacts DEF Inside
    <3>4. Added(s, m, y, c)
      BY <3>2, <3>3, AddFacts
    <3>5. ex => Nth(s.h.pos + n) = Len(c) + 1
      BY <2>1, <3>1
    <3> QED BY <1>1, <3>4, <3>5, AddReady
  <2>3. CASE s.h.first # 0
    <3>1. c # <<>> /\ 1 <= Len(c)
      BY <1>1, <2>3 DEF Linked
    <3> PICK k : k = Turned(s.h, s.h.first, s.h.pos)
      OBVIOUS
    <3>2. m = Holding(s, k)
      <4>1. m = [s EXCEPT !.h.cur = s.h.first]
        BY <1>4, <2>3 DEF ClusterForWrite
      <4>2. [s.h EXCEPT !.cur = s.h.first] = k
        BY <1>1 DEF Turned, Handle
      <4>3. m = [s EXCEPT !.h = [s.h EXCEPT !.cur = s.h.first]]
        BY <1>1, <4>1 DEF State, Sound
      <4> QED BY <4>2, <4>3 DEF Holding
    <3>3. Reaches(s, m, c, ex, n)
      BY <1>1, <1>4, <2>1, <3>1, <3>2, ReachFirst
    <3> QED BY <2>1, <3>1, <3>3, ReachReady
  <2> QED BY <2>2, <2>3
<1> QED BY <1>2, <1>3, <1>4

\* More is said again of the place of the file.
LEMMA Uneased ==
  ASSUME NEW r, NEW x, x \in Contexts, x.exact \subseteq x.long, x.f \in x.live, NEW y, y = Eased(x), Inside(r, y),
         x.f \in Trusted(r, x) => \A c : OfFile(r, y, c) => Stands(r.h, c, TRUE)
  PROVE  Inside(r, x)
<1>1. /\ More(x, y) /\ y.f = x.f /\ y.file = x.file /\ y.live = x.live /\ y.long = x.long /\ y.full = x.full /\ y.twin = x.twin
      /\ y.f \notin y.exact
  BY EasedFacts
<1>2. Stored(r, x)
  BY <1>1 DEF Inside, Stored
<1>3. ASSUME NEW c, OfFile(r, y, c) PROVE OfFile(r, x, c)
  <2>1. x.f \in Trusted(r, x) => Stands(r.h, c, TRUE)
    BY <1>3
  <2>2. x.f \in Trusted(r, x) \/ (x.f \in Trusted(r, x)) = (y.f \in Trusted(r, y))
    BY <1>1 DEF Trusted
  <2>3. CASE x.f \notin Trusted(r, x)
    BY <1>1, <1>3, <2>3 DEF OfFile, Trusted
  <2>4. CASE x.f \in Trusted(r, x)
    BY <1>1, <1>3, <2>1, <2>4 DEF OfFile, FileOk
  <2> QED BY <2>3, <2>4
<1> QED BY <1>1, <1>2, <1>3, InsideMore

\* A write under way: the file is open, and the position and what is left of the
\* write come to the same place.
Puts(s, r, x) ==
  /\ Inside(r, x) /\ r.h.open /\ r.left \in Nat /\ r.h.pos + r.left = s.h.pos + s.left
  /\ r.h.size = s.h.size /\ r.h.flags = s.h.flags /\ (r.ok => s.ok)

\* The cluster is at hand: a block is written.
LEMMA StoreReady ==
  ASSUME NEW s, NEW x, Inside(s, x), x.f \in x.live, s.ok, s.h \in Handle, NEW n, n \in Nat \ {0}, n = InBlock(s), n <= s.left, s.left \in Nat,
         NEW m, Ready(s, m, x, n), m.ok, NEW v, v \in Int, NEW r, r = Store(m, v)
  PROVE  Puts(s, r, x)
<1> PICK y : y = Eased(x)
  OBVIOUS
<1>1. /\ y.f = x.f /\ y.f \notin y.exact /\ y.live = x.live /\ x \in Contexts /\ x.exact \subseteq x.long
  BY EasedFacts DEF Inside
<1>2. /\ Inside(m, y) /\ m.h.open /\ m.left = s.left /\ m.h.pos = s.h.pos /\ m.h.size = s.h.size /\ m.h.flags = s.h.flags
  BY DEF Ready
<1> PICK c : OfFile(m, y, c)
  BY <1>1, <1>2, InsideChain
<1>3. /\ c # <<>> /\ m.h.cur \in {EOC} \cup Ran(c)
      /\ x.f \in Trusted(s, x) => Nth(s.h.pos + n) \in 1 .. Len(c) /\ m.h.cur = c[Nth(s.h.pos + n)]
  BY DEF Ready
<1>4. /\ m.h \in Handle /\ HandleOk(x.f, m.h) /\ Sound(m) /\ c \in Seq(Clusters) /\ m.h.pos \in Nat
  BY <1>1, <1>2, OpenChain, HandleTypes
<1>5. m.h.cur \in Clusters \cup {EOC} /\ m.h.cur \in Nat /\ m.h.cur # 0 /\ m.h.cur <= EOC
  BY <1>3, <1>4, RanFacts, ClusterNumbers
<1>6. InBlock(m) = n
  BY <1>2 DEF InBlock, Offset
<1>7. Turning(m, r)
  <2>1. m.left \in Nat \ {0}
    BY <1>2
  <2> QED BY <1>4, <1>5, <2>1, StoreFacts
<1>8. CASE ~r.ok
  <2>1. Serves(m, r) /\ r.h = m.h /\ r.left = m.left
    BY <1>7, <1>8 DEF Turning
  <2>2. Inside(r, y)
    BY <1>2, <2>1, InsideSame
  <2>3. x.f \notin Trusted(r, x)
    BY <1>8 DEF Trusted
  <2>4. Inside(r, x)
    BY <1>1, <2>2, <2>3, Uneased
  <2> QED BY <1>2, <1>8, <2>1, <2>4 DEF Puts
<1>9. CASE r.ok
  <2> PICK cur, p : cur = m.h.cur /\ p = m.h.pos + n
    OBVIOUS
  <2>1. Serves(m, r) /\ Moved(m.h, cur, p, r.h) /\ r.left = m.left - n
    BY <1>6, <1>7, <1>9 DEF Turning, Stepping
  <2>2. cur \in Nat /\ p \in Nat /\ p > 0
    BY <1>4, <1>5
  <2>3. /\ Carried(m.h, r.h) /\ r.h.open /\ r.h.size = m.h.size /\ r.h.flags = m.h.flags /\ r.h.cur = cur /\ r.h.pos = p
    BY <2>1, <2>2, HandleTypes DEF Carried, Moved
  <2>4. HandleOk(y.f, r.h)
    BY <1>1, <1>4, <1>5, <2>1 DEF HandleOk, Moved, Handle
  <2>5. Stands(r.h, c, FALSE)
    BY <1>3, <1>5, <2>3 DEF Stands
  <2>6. OfFile(r, y, c)
    BY <1>1, <1>2, <1>5, <2>1, <2>3, <2>5, CarriedFile DEF Trusted
  <2>7. Inside(r, y)
    <3>1. \A d : OfFile(m, y, d) => OfFile(r, y, d)
      BY <2>6, OneChain
    <3> QED BY <1>2, <2>1, <2>4, <3>1, InsideServes
  <2>8. ASSUME x.f \in Trusted(r, x), NEW d, OfFile(r, y, d) PROVE Stands(r.h, d, TRUE)
    <3>1. d = c
      BY <2>6, <2>8, OneChain
    <3>2. x.f \in Trusted(s, x)
      BY <2>8, <1>9 DEF Trusted
    <3>3. p = s.h.pos + n
      BY <1>2
    <3>4. Nth(p) \in 1 .. Len(c) /\ cur = c[Nth(p)]
      BY <1>3, <3>2, <3>3
    <3> QED BY <1>3, <2>2, <2>3, <2>5, <3>1, <3>4 DEF Stands
  <2>9. Inside(r, x)
    BY <1>1, <2>7, <2>8, Uneased
  <2>10. r.left \in Nat /\ r.h.pos + r.left = s.h.pos + s.left
    <3>1. s.h.pos \in Nat
      BY HandleTypes
    <3> QED BY <1>2, <2>1, <2>3, <3>1
  <2> QED BY <1>2, <2>3, <2>9, <2>10 DEF Puts
<1> QED BY <1>8, <1>9

\* A turn of write().
LEMMA WriteTurnFacts ==
  ASSUME NEW s, NEW x, Inside(s, x), x.f \in x.live, s.h.open, s.left \in Nat, NEW v, v \in Int, NEW r, r = WriteTurn(s, v)
  PROVE  Puts(s, r, x)
<1>1. s.h \in Handle
  BY InsideChain, OpenChain
<1>2. CASE ~s.ok \/ s.left = 0
  <2>1. r = s
    BY <1>2 DEF WriteTurn
  <2> QED BY <2>1 DEF Puts
<1>3. CASE s.ok /\ s.left # 0
  <2> PICK n : n = InBlock(s)
    OBVIOUS
  <2>1. Turns(s, n)
    BY <1>1, <1>3, TurnFacts, HandleTypes
  <2>2. n \in Nat \ {0} /\ n <= s.left
    BY <2>1, VolumeAssumption DEF Turns
  <2> PICK m : m = ClusterForWrite(s)
    OBVIOUS
  <2>3. Ready(s, m, x, n)
    BY <1>3, <2>1, <2>2, WriteReady
  <2>4. r = IF m.ok THEN Store(m, v) ELSE m
    BY <1>3 DEF WriteTurn, Then
  <2>5. CASE m.ok
    <3>1. r = Store(m, v)
      BY <2>4, <2>5
    <3> QED BY <1>1, <1>3, <2>2, <2>3, <2>5, <3>1, StoreReady
  <2>6. CASE ~m.ok
    <3>1. r = m
      BY <2>4, <2>6
    <3> PICK y : y = Eased(x)
      OBVIOUS
    <3>2. Inside(r, y) /\ x.f \notin Trusted(r, x)
      BY <2>3, <2>6, <3>1 DEF Ready, Trusted
    <3>3. Inside(r, x)
      BY <3>2, Uneased DEF Inside
    <3> QED BY <1>3, <2>3, <2>6, <3>1, <3>3 DEF Ready, Puts
  <2> QED BY <2>5, <2>6
<1> QED BY <1>2, <1>3

LEMMA PutsTwice ==
  ASSUME NEW s, NEW r, NEW q, NEW x, Puts(s, r, x), Puts(r, q, x)
  PROVE  Puts(s, q, x)
BY DEF Puts

WritesOf(a, n, v) == CHOOSE w : w = [k \in 0 .. n |-> IF k = 0 THEN a ELSE WriteTurn(w[k - 1], v)]
\* The states of a write that started in s.
Writings(s, x) == {q \in State : Puts(s, q, x)}

\* The loop of write() appends clusters only at the end of the chain.
LEMMA WriteLoop ==
  ASSUME NEW s, NEW x, x.f \in x.live, NEW n \in Nat, NEW v, v \in Int, NEW a \in Writings(s, x)
  PROVE  \A k \in 0 .. n : WritesOf(a, n, v)[k] \in Writings(s, x)
<1> PICK Q : Q = Writings(s, x)
  OBVIOUS
<1>1. a \in Q /\ \A q \in Q : WriteTurn(q, v) \in Q
  <2> SUFFICES ASSUME NEW q \in Q PROVE WriteTurn(q, v) \in Q
    OBVIOUS
  <2>1. Puts(s, q, x)
    BY DEF Writings
  <2> PICK r : r = WriteTurn(q, v)
    OBVIOUS
  <2>2. Puts(q, r, x)
    <3>1. Inside(q, x) /\ q.h.open /\ q.left \in Nat
      BY <2>1 DEF Puts
    <3> QED BY <3>1, WriteTurnFacts
  <2>3. r \in State /\ Puts(s, r, x)
    BY <2>1, <2>2, PutsTwice DEF Puts, Inside, Sound
  <2> QED BY <2>3 DEF Writings
<1> DEFINE S == [k \in 0 .. n |-> Q]
           g == [k \in 1 .. n |-> [q \in Q |-> WriteTurn(q, v)]]
           turn == WritesOf(a, n, v)
<1>2. \A k \in 0 .. n : S[k] = Q
  OBVIOUS
<1>3. \A k \in 1 .. n : k - 1 \in 0 .. n /\ k \in 0 .. n
  OBVIOUS
<1>4. \A k \in 1 .. n : \A q \in Q : g[k][q] = WriteTurn(q, v)
  OBVIOUS
<1> HIDE DEF S, g
<1>5. Steps(n, S, g) /\ a \in S[0]
  BY <1>1, <1>2, <1>3, <1>4 DEF Steps
<1>6. PICK f : /\ f = [k \in 0 .. n |-> IF k = 0 THEN a ELSE g[k][f[k - 1]]]
               /\ \A k \in 0 .. n : f[k] \in S[k]
  <2>1. Stepped(n, S, a, g)
    BY <1>5, Recursion
  <2> QED BY <2>1 DEF Stepped
<1>7. f = [k \in 0 .. n |-> IF k = 0 THEN a ELSE WriteTurn(f[k - 1], v)]
  <2>1. ASSUME NEW k \in 1 .. n PROVE g[k][f[k - 1]] = WriteTurn(f[k - 1], v)
    BY <1>2, <1>3, <1>4, <1>6
  <2>2. \A k \in 0 .. n : (IF k = 0 THEN a ELSE g[k][f[k - 1]]) = IF k = 0 THEN a ELSE WriteTurn(f[k - 1], v)
    BY <2>1
  <2> QED BY <1>6, <2>2
<1>8. turn = [k \in 0 .. n |-> IF k = 0 THEN a ELSE WriteTurn(turn[k - 1], v)]
  BY <1>7 DEF WritesOf
<1> HIDE DEF turn
<1>9. \A k \in 0 .. n : turn[k] \in Q
  <2> DEFINE A == {k \in 0 .. n : turn[k] \in Q}
  <2>1. 0 \in A
    BY <1>1, <1>8
  <2>2. \A k \in 1 .. n : k - 1 \in A => k \in A
    <3> SUFFICES ASSUME NEW k \in 1 .. n, turn[k - 1] \in Q PROVE turn[k] \in Q
      BY <1>3
    <3>1. turn[k] = WriteTurn(turn[k - 1], v)
      BY <1>3, <1>8
    <3> QED BY <1>1, <3>1
  <2> HIDE DEF A
  <2>3. \A k \in 0 .. n : k \in A
    BY <2>1, <2>2, UpTo
  <2> QED BY <2>3 DEF A
<1> QED BY <1>9 DEF turn

\* The size after a write behind the end of the file.
Sized(h) == [h EXCEPT !.size = h.pos, !.dirty = TRUE]
LEMMA SizedFacts ==
  ASSUME NEW h \in Handle, NEW k, k = Sized(h)
  PROVE  /\ k \in Handle /\ k.cur = h.cur /\ k.pos = h.pos /\ k.size = h.pos /\ k.flags = h.flags /\ k.open
         /\ k.name = h.name /\ k.slot = h.slot /\ k.first = h.first /\ k.dirty = TRUE
BY DEF Sized, Handle

\* The size of the handle follows what was written.
LEMMA InsideGrow ==
  ASSUME NEW s, NEW x, Inside(s, x), Plain(x), x.f \in x.long => x.f \in x.exact, s.h.open, s.ok, s.h.pos <= MaxSize,
         NEW r, r = Grow(s)
  PROVE  Inside(r, x) /\ r.h.open /\ r.ok /\ r.h.pos <= r.h.size /\ r.h.flags = s.h.flags
<1> PICK c : OfFile(s, x, c)
  BY InsideChain DEF Plain
<1> PICK h : h = s.h
  OBVIOUS
<1>1. /\ h \in Handle /\ HandleOk(x.f, h) /\ Sound(s) /\ c \in Seq(Clusters) /\ Linked(Table(Seen(s)), h.first, c)
      /\ Stands(h, c, x.f \in Trusted(s, x)) /\ h.pos \in Nat /\ h.size \in Nat /\ Entered(h, Root(Seen(s))[h.slot])
  BY OpenChain, HandleTypes
<1>2. CASE h.pos <= h.size
  <2>1. r = s
    BY <1>1, <1>2 DEF Grow
  <2> QED BY <1>2, <2>1
<1>3. CASE h.pos > h.size
  <2> PICK k : k = Sized(h)
    OBVIOUS
  <2>1. /\ k \in Handle /\ k.cur = h.cur /\ k.pos = h.pos /\ k.size = h.pos /\ k.flags = h.flags /\ k.open
        /\ k.name = h.name /\ k.slot = h.slot /\ k.first = h.first /\ k.dirty = TRUE
    BY <1>1, SizedFacts
  <2>2. r = Holding(s, k)
    <3>1. r = [s EXCEPT !.h.size = s.h.pos, !.h.dirty = TRUE]
      BY <1>3 DEF Grow
    <3>2. s \in State
      BY <1>1 DEF Sound
    <3>3. r = [s EXCEPT !.h = [s.h EXCEPT !.size = s.h.pos, !.dirty = TRUE]]
      BY <3>1, <3>2 DEF State
    <3> QED BY <3>3 DEF Holding, Sized
  <2>3. k \in Handles
    BY <2>1 DEF Handles
  <2>4. Serves(s, r) /\ Seen(r) = Seen(s) /\ r.h = k /\ r.ok = s.ok
    <3>1. Sound(s)
      BY <1>1
    <3> QED BY ONLY <2>2, <2>3, <3>1, HoldingServes
  <2>5. HandleOk(x.f, k)
    BY <1>1, <2>1 DEF HandleOk
  <2>6. c # <<>>
    BY <1>1, <1>3 DEF Stands
  <2>7. Entered(k, Root(Seen(s))[k.slot])
    <3> PICK e : e = Root(Seen(s))[h.slot]
      OBVIOUS
    <3>1. e.size \in Nat
      BY <1>1 DEF Inside, Sight, Live, RootOk, Roots, DirEntry, Handle
    <3>2. Entered(h, e) /\ h.pos >= e.size
      BY <1>1, <1>3, <3>1 DEF Entered
    <3> QED BY <2>1, <3>1, <3>2 DEF Entered
  <2>8. Stands(k, c, x.f \in Trusted(s, x))
    BY <1>1, <2>1 DEF Stands
  <2>9. ASSUME x.f \in x.long PROVE k.size <= Len(c) * ClusterUnits
    <3>1. x.f \in Trusted(s, x)
      BY <2>9 DEF Trusted
    <3>2. Nth(h.pos) \in 1 .. Len(c)
      BY <1>1, <1>3, <3>1 DEF Stands
    <3>3. Len(c) \in Nat /\ h.pos \in Nat \ {0} /\ Nth(h.pos) <= Len(c)
      BY <1>1, <1>3, <3>2
    <3> QED BY <2>1, <3>3, NthFits
  <2>10. OfFile(r, x, c)
    <3>1. Trusted(r, x) = Trusted(s, x) /\ (x.full /\ r.ok) = (x.full /\ s.ok)
      BY <2>4 DEF Trusted
    <3>2. FirstIn(Root(Seen(s)), x.f, k) = h.first /\ SizeIn(Root(Seen(s)), x.f, k) = k.size
      BY <2>1 DEF FirstIn, SizeIn
    <3>3. k.size > 0
      BY <1>1, <1>3, <2>1
    <3>4. FileOk(Table(Seen(s)), Root(Seen(s)), x.f, k, c, x.f \in x.long, x.f \in Trusted(s, x), x.full /\ s.ok)
      BY <1>1, <2>6, <2>7, <2>8, <2>9, <3>2, <3>3 DEF FileOk
    <3> QED BY <1>1, <2>4, <3>1, <3>4 DEF OfFile
  <2>11. Inside(r, x)
    <3>1. \A d : OfFile(s, x, d) => OfFile(r, x, d)
      BY <2>10, OneChain
    <3>2. HandleOk(x.f, r.h)
      BY <2>4, <2>5
    <3> QED BY <2>4, <3>1, <3>2, InsideServes
  <2> QED BY <1>1, <2>1, <2>4, <2>11
<1> QED BY <1>1, <1>2, <1>3

\* Where write() writes.
Placed(s) == IF "APPEND" \in s.h.flags /\ s.h.pos # s.h.size THEN SeekSet(s, s.h.size) ELSE s
Target(h) == IF "APPEND" \in h.flags THEN h.size ELSE h.pos
Finished(w, flags) == IF ~w.ok THEN w ELSE IF "SYNC" \in flags THEN Sync(Grow(w)) ELSE Grow(w)
LEMMA WriteShape ==
  ASSUME NEW s, NEW n, NEW v
  PROVE  Write(s, n, v) = IF "WRITE" \notin s.h.flags THEN Fail(s)
                          ELSE Finished(WritesOf(Leaving(Placed(s), n), n, v)[n], s.h.flags)
<1> DEFINE t == WritesOf(Leaving(Placed(s), n), n, v)
<1>1. Write(s, n, v) = IF "WRITE" \notin s.h.flags THEN Fail(s)
                       ELSE Then(t[n], LAMBDA w : IF "SYNC" \in s.h.flags THEN Sync(Grow(w)) ELSE Grow(w))
  BY DEF Write, WritesOf, Leaving, Placed
<1> HIDE DEF t
<1>2. Then(t[n], LAMBDA w : IF "SYNC" \in s.h.flags THEN Sync(Grow(w)) ELSE Grow(w)) = Finished(t[n], s.h.flags)
  BY DEF Then, Finished
<1> QED BY <1>1, <1>2 DEF t

LEMMA PlacedFacts ==
  ASSUME NEW s, NEW x, Plain(x), Inside(s, x), s.h.open, Fit(s, x), NEW p, p = Placed(s)
  PROVE  Inside(p, x) /\ p.h.open /\ (p.ok => p.h.pos = Target(s.h)) /\ p.h.size = s.h.size /\ p.h.flags = s.h.flags
<1>1. s.h \in Handle
  BY InsideChain, OpenChain DEF Plain
<1>2. CASE "APPEND" \in s.h.flags /\ s.h.pos # s.h.size
  <2> PICK pos : pos = s.h.size
    OBVIOUS
  <2>1. p = SeekSet(s, pos) /\ pos \in Nat /\ Settled(s, x) /\ x.f \in x.live
    BY <1>1, <1>2, HandleTypes, FitSettled DEF Placed, Plain
  <2>2. Roams(s, p, x, pos)
    BY <2>1, InsideSeek
  <2> QED BY <1>2, <2>2, CarriedFacts DEF Roams, Target
<1>3. CASE ~("APPEND" \in s.h.flags /\ s.h.pos # s.h.size)
  BY <1>3 DEF Placed, Target
<1> QED BY <1>2, <1>3

\* write() leaves everything in order.
LEMMA InsideWrite ==
  ASSUME NEW s, NEW x, Plain(x), Inside(s, x), x.f \in x.long => x.f \in x.exact, s.h.open, Fit(s, x),
         NEW n, n \in Nat, NEW v, v \in Int, Target(s.h) + n <= MaxSize, NEW r, r = Write(s, n, v)
  PROVE  Inside(r, x) /\ r.h.open /\ Fit(r, x)
<1>1. s.h \in Handle /\ Sound(s) /\ x.f \in x.live
  BY InsideChain, OpenChain DEF Plain
<1>2. CASE "WRITE" \notin s.h.flags
  <2>1. r = Fail(s)
    BY <1>2, WriteShape
  <2>2. Keeps(s, r) /\ ~r.ok
    BY <1>1, <2>1, FailKeeps
  <2>3. Serves(s, r) /\ r.h = s.h
    BY <2>2, KeepsServes DEF Keeps, Leads
  <2> QED BY <1>1, <2>2, <2>3, InsideSame DEF Fit, Trusted
<1>3. CASE "WRITE" \in s.h.flags
  <2> PICK p : p = Placed(s)
    OBVIOUS
  <2>1. Inside(p, x) /\ p.h.open /\ (p.ok => p.h.pos = Target(s.h)) /\ p.h.size = s.h.size /\ p.h.flags = s.h.flags
    BY PlacedFacts
  <2> PICK a : a = Leaving(p, n)
    OBVIOUS
  <2>2. Sound(p) /\ n \in Int
    BY <2>1 DEF Inside
  <2>3. Serves(p, a) /\ a.h = p.h /\ a.ok = p.ok /\ a.left = n
    BY <2>2, LeavingServes
  <2>4. Inside(a, x)
    BY <2>1, <2>3, InsideSame
  <2>5. a \in Writings(a, x)
    BY <2>1, <2>3, <2>4 DEF Writings, Puts, Inside, Sound
  <2> PICK w : w = WritesOf(a, n, v)[n]
    OBVIOUS
  <2>6. Puts(a, w, x)
    <3>1. \A k \in 0 .. n : WritesOf(a, n, v)[k] \in Writings(a, x)
      BY <1>1, <2>5, WriteLoop
    <3> QED BY <3>1 DEF Writings
  <2>7. Inside(w, x) /\ w.h.open /\ (w.ok => w.h.pos <= MaxSize)
    <3>1. w.h \in Handle
      BY <1>1, <2>6, InsideChain, OpenChain DEF Puts
    <3>2. w.h.pos \in Nat /\ w.left \in Nat /\ w.h.pos + w.left = a.h.pos + n /\ (w.ok => a.ok)
      BY <2>3, <2>6, <3>1, HandleTypes DEF Puts
    <3>3. w.ok => a.h.pos + n <= MaxSize
      BY <2>1, <2>3, <3>2
    <3>4. MaxSize \in Nat /\ Target(s.h) \in Nat
      BY <1>1, HandleTypes, FileAssumption DEF Target
    <3> QED BY <2>1, <2>3, <2>6, <3>2, <3>3, <3>4 DEF Puts
  <2>8. r = Finished(w, s.h.flags)
    BY <1>3, WriteShape
  <2>9. CASE ~w.ok
    <3>1. r = w
      BY <2>8, <2>9 DEF Finished
    <3> QED BY <2>7, <2>9, <3>1 DEF Fit, Trusted
  <2>10. CASE w.ok
    <3> PICK g : g = Grow(w)
      OBVIOUS
    <3>1. Inside(g, x) /\ g.h.open /\ g.h.pos <= g.h.size
      BY <2>7, <2>10, InsideGrow
    <3>2. CASE "SYNC" \notin s.h.flags
      <4>1. r = g
        BY <2>8, <2>10, <3>2 DEF Finished
      <4> QED BY <3>1, <4>1 DEF Fit
    <3>3. CASE "SYNC" \in s.h.flags
      <4>1. r = Sync(g)
        BY <2>8, <2>10, <3>3 DEF Finished
      <4>2. Writes(g, r, x)
        BY <1>1, <3>1, <4>1, SyncFacts
      <4> QED BY <3>1, <4>2, HandleTypes DEF Writes, LikeH, Fit
    <3> QED BY <3>2, <3>3
  <2> QED BY <2>9, <2>10
<1> QED BY <1>2, <1>3
=============================================================================
