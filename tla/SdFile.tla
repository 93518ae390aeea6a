-------------------------------- MODULE SdFile --------------------------------
(***************************************************************************)
(* The files of a memory card (libraries/Ebot/utility/SdFile.cpp and       *)
(* SD.cpp, File.cpp over it): the handles of open files, the directory,    *)
(* and the chains of clusters, through the one cached block of SdVolume.   *)
(*                                                                         *)
(* A call of the sketch is one step: nothing else runs on the card's       *)
(* fields.  In a call one access to the card may fail, or the power may go *)
(* before it; a restart finds what the card then holds.  Positions and     *)
(* sizes count units, Slots to a block; a write stores one value, its own  *)
(* number, in all its units.  Names are short and in the root directory; a *)
(* file is open through one handle at a time.                              *)
(***************************************************************************)
EXTENDS SdVolume, Sequences, FiniteSets

CONSTANTS Names,        \* file names
          Modes,        \* sets of open flags
          Lengths,      \* lengths of reads, writes and contiguous files
          Positions,    \* positions sought, and lengths truncated to
          MaxSize,      \* bound: units of a file
          MaxCalls,     \* bound: calls of the sketch
          MaxFaults,    \* bound: accesses that fail, and losses of power
          MaxAccess     \* bound: accesses of a call before one fails

Flags == {"READ", "WRITE", "APPEND", "SYNC", "CREAT", "EXCL", "TRUNC"}
ASSUME FileAssumption ==
  /\ Names \cap {"free", "deleted"} = {}
  /\ Modes \subseteq SUBSET Flags /\ Lengths \subseteq Nat \ {0} /\ Positions \subseteq Nat
  /\ MaxSize \in Nat /\ MaxCalls \in Nat /\ MaxFaults \in Nat /\ MaxAccess \in Nat

VARIABLES vol,      \* static fields of SdVolume, and the card
          file,     \* the open handle of each name, or Closed
          \* The rest records what happened, for the properties.
          calls,    \* calls made: the value of the next write
          want,     \* content each file should have
          saved,    \* content as last synced; Unsure where written over since
          astray,   \* files whose content is not promised: a call on them failed
          muddled,  \* files written or truncated while their content was not promised
          failed,   \* some call failed, or the power did
          powered,  \* the power never failed
          torn,     \* files whose truncation or removal was interrupted
          faults,   \* accesses failed and powers lost
          broken    \* promises broken: "read", "sync"

ghosts == <<calls, want, saved, astray, muddled, failed, powered, torn, faults, broken>>
vars == <<vol, file, ghosts>>

Unsure == -1
Free == [name |-> "free", first |-> 0, size |-> 0]
Closed == [open |-> FALSE]
ClusterUnits == Slots * BlocksPerCluster
Least(a, b) == IF a < b THEN a ELSE b

\* The state of a call on handle h.
Begin(h, fuse, late) ==
  [card |-> vol.card, buf |-> vol.buf, num |-> vol.num, dirty |-> vol.dirty,
   mirror |-> vol.mirror, start |-> vol.start,
   ok |-> TRUE, blown |-> FALSE, fuse |-> fuse, late |-> late, val |-> 0,
   h |-> h, left |-> 0, got |-> <<>>]

\* After SdVolume::init(), which leaves the boot block in the buffer.
Mount(card) == [card |-> card, buf |-> card[0], num |-> 0, dirty |-> FALSE,
                mirror |-> 0, start |-> 2]

\* A formatted card with no file.
Blank == [b \in Blocks |->
            [i \in 0 .. Slots - 1 |->
               IF b = RootDirStart THEN Free
               ELSE IF b \in {FatStart, FatStart + (FatCount - 1) * BlocksPerFat} /\ i < 2
                    THEN EOC ELSE 0]]

Init == /\ vol = Mount(Blank)
        /\ file = [f \in Names |-> Closed]
        /\ calls = 1 /\ faults = 0
        /\ want = [f \in Names |-> <<>>] /\ saved = [f \in Names |-> <<>>]
        /\ astray = {} /\ muddled = {} /\ torn = {} /\ broken = {}
        /\ failed = FALSE /\ powered = TRUE

-----------------------------------------------------------------------------
(* Position in the chain *)

\* Follow the chain by one cluster.
Follow(s) == Then(FatGet(s, s.h.cur), LAMBDA g : [g EXCEPT !.h.cur = g.val])

\* Far enough back the chain is followed from its first cluster again.
SeekSet(s, pos) ==
  LET new == (pos - 1) \div ClusterUnits
      old == (s.h.pos - 1) \div ClusterUnits
      again == s.h.pos = 0 \/ new < old
      hop[k \in 0 .. MaxSize] ==
        IF k = 0 THEN IF again THEN [s EXCEPT !.h.cur = s.h.first] ELSE s
                 ELSE Follow(hop[k - 1])
  IN  IF pos > s.h.size THEN Fail(s)
      ELSE IF pos = 0 THEN [s EXCEPT !.h.cur = 0, !.h.pos = 0]
      ELSE Then(hop[IF again THEN new ELSE new - old], LAMBDA r : [r EXCEPT !.h.pos = pos])

Offset(s) == s.h.pos % Slots
BlockOfCluster(s) == (s.h.pos \div Slots) % BlocksPerCluster
AtCluster(s) == Offset(s) = 0 /\ BlockOfCluster(s) = 0
BlockAt(s) == ClusterStartBlock(s.h.cur) + BlockOfCluster(s)
InBlock(s) == Least(Slots - Offset(s), s.left)     \* units of this turn
Advance(s) == [s EXCEPT !.h.pos = @ + InBlock(s), !.left = @ - InBlock(s)]

-----------------------------------------------------------------------------
(* Directory entry *)

Entry(h) == [name |-> h.name, first |-> h.first, size |-> h.size]

UpdateEntry(s) ==
  IF ~s.ok \/ ~s.h.dirty THEN s
  ELSE Then(Poke(CacheRawBlock(s, RootDirStart, TRUE), s.h.slot, Entry(s.h)),
            LAMBDA r : [r EXCEPT !.h.dirty = FALSE])

Sync(s) == CacheFlush(UpdateEntry(s))

-----------------------------------------------------------------------------
(* write() *)

AddCluster(s) ==
  Then(AllocContiguous(s, 1, s.h.cur),
       LAMBDA r : IF r.h.first # 0 THEN [r EXCEPT !.h.cur = r.val]
                  ELSE [r EXCEPT !.h.cur = r.val, !.h.first = r.val, !.h.dirty = TRUE])

\* The cluster the next unit goes to.
ClusterForWrite(s) ==
  IF ~AtCluster(s) THEN s
  ELSE IF s.h.cur # 0
       THEN Then(FatGet(s, s.h.cur),
                 LAMBDA g : IF IsEOC(g.val) THEN AddCluster(g) ELSE [g EXCEPT !.h.cur = g.val])
  ELSE IF s.h.first = 0 THEN AddCluster(s) ELSE [s EXCEPT !.h.cur = s.h.first]

WholeBlock(s, v) ==
  WriteBlock([s EXCEPT !.num = IF @ = BlockAt(s) THEN None ELSE @],
             BlockAt(s), [i \in 0 .. Slots - 1 |-> v])

\* A block that starts behind the end of the file is not read.
BlockForPart(s) ==
  IF Offset(s) = 0 /\ s.h.pos >= s.h.size
  THEN Then(CacheFlush(s), LAMBDA r : [r EXCEPT !.num = BlockAt(s), !.dirty = TRUE])
  ELSE CacheRawBlock(s, BlockAt(s), TRUE)

PartOfBlock(s, v) ==
  Then(BlockForPart(s),
       LAMBDA r : [r EXCEPT !.buf = [i \in 0 .. Slots - 1 |->
                     IF i \in Offset(s) .. Offset(s) + InBlock(s) - 1 THEN v ELSE @[i]]])

Store(s, v) == Then(IF InBlock(s) = Slots THEN WholeBlock(s, v) ELSE PartOfBlock(s, v), Advance)

WriteTurn(s, v) ==
  IF ~s.ok \/ s.left = 0 THEN s ELSE Then(ClusterForWrite(s), LAMBDA c : Store(c, v))

Grow(s) == IF s.h.pos > s.h.size THEN [s EXCEPT !.h.size = s.h.pos, !.h.dirty = TRUE] ELSE s

Write(s, n, v) ==
  LET h == s.h
      placed == IF "APPEND" \in h.flags /\ h.pos # h.size THEN SeekSet(s, h.size) ELSE s
      turn[k \in 0 .. n] == IF k = 0 THEN [placed EXCEPT !.left = n]
                                     ELSE WriteTurn(turn[k - 1], v)
  IN  IF "WRITE" \notin h.flags THEN Fail(s)
      ELSE Then(turn[n], LAMBDA w : IF "SYNC" \in h.flags THEN Sync(Grow(w)) ELSE Grow(w))

-----------------------------------------------------------------------------
(* read() *)

Take(s, b) == [s EXCEPT !.got = @ \o [i \in 1 .. InBlock(s) |-> b[Offset(s) + i - 1]]]

ClusterForRead(s) ==
  IF ~AtCluster(s) THEN s
  ELSE IF s.h.pos = 0 THEN [s EXCEPT !.h.cur = s.h.first] ELSE Follow(s)

\* Mutant: a whole block comes from the card also when the cache holds a newer one.
LoadPastCache(s) ==
  IF InBlock(s) = Slots
  THEN Then(ReadBlock(s, BlockAt(s)), LAMBDA r : Advance(Take(r, r.card[BlockAt(r)])))
  ELSE Then(CacheRawBlock(s, BlockAt(s), FALSE), LAMBDA r : Advance(Take(r, r.buf)))

Load(s) ==
  IF InBlock(s) = Slots /\ BlockAt(s) # s.num
  THEN Then(ReadBlock(s, BlockAt(s)), LAMBDA r : Advance(Take(r, r.card[BlockAt(r)])))
  ELSE Then(CacheRawBlock(s, BlockAt(s), FALSE), LAMBDA r : Advance(Take(r, r.buf)))

ReadTurn(s) == IF ~s.ok \/ s.left = 0 THEN s ELSE Then(ClusterForRead(s), Load)

\* The difference of size and position is unsigned: past the end all n are read.
Read(s, n) ==
  LET h == s.h
      most == IF h.pos > h.size THEN n ELSE Least(n, h.size - h.pos)
      turn[k \in 0 .. n] == IF k = 0 THEN [s EXCEPT !.left = most] ELSE ReadTurn(turn[k - 1])
  IN  IF "READ" \in h.flags THEN turn[most] ELSE Fail(s)

-----------------------------------------------------------------------------
(* truncate(), remove(), open() *)

FreeAll(s) == Then(FreeChain(s, s.h.first), LAMBDA r : [r EXCEPT !.h.first = 0])

\* Mutant: the chain is freed behind the cut, but the cut is not marked as its end.
CutAtOpenEnded(s, length) ==
  IF length = 0 THEN FreeAll(s)
  ELSE Then(FatGet(s, s.h.cur),
            LAMBDA g : IF IsEOC(g.val) THEN g ELSE FreeChain(g, g.val))

\* Everything behind the position is freed, and the position becomes the end.
CutAt(s, length) ==
  IF length = 0 THEN FreeAll(s)
  ELSE Then(FatGet(s, s.h.cur),
            LAMBDA g : IF IsEOC(g.val) THEN g
                       ELSE FatPut(FreeChain(g, g.val), s.h.cur, EOC))

Shorten(s, length) ==
  Then(CutAt(s, length),
       LAMBDA r : Sync([r EXCEPT !.h.size = length, !.h.dirty = TRUE]))

Truncate(s, length) ==
  IF ~s.ok \/ "WRITE" \notin s.h.flags \/ length > s.h.size THEN Fail(s)
  ELSE IF s.h.size = 0 THEN s
  ELSE Then(Then(SeekSet(s, length), LAMBDA r : Shorten(r, length)),
            LAMBDA r : SeekSet(r, Least(s.h.pos, length)))

\* Once its entry is marked the handle is closed, whether the mark is written or not.
Remove(s) ==
  Then(CacheRawBlock(Truncate(s, 0), RootDirStart, TRUE),
       LAMBDA r : CacheFlush([Poke(r, s.h.slot, [r.buf[s.h.slot] EXCEPT !.name = "deleted"])
                                EXCEPT !.h = Closed]))

Opened(s, e, slot, mode) ==
  [s EXCEPT !.h = [open |-> TRUE, flags |-> mode, name |-> e.name, dirty |-> FALSE,
                   cur |-> 0, pos |-> 0, first |-> e.first, size |-> e.size, slot |-> slot]]

OpenCachedEntry(s, slot, mode) ==
  IF "TRUNC" \in mode THEN Truncate(Opened(s, s.buf[slot], slot, mode), 0)
                      ELSE Opened(s, s.buf[slot], slot, mode)

\* The search stops at the first entry never used; a new file takes the first
\* entry that is free or deleted.
FindEntry(s, f, mode) ==
  LET Is(n) == {i \in 0 .. Slots - 1 : s.buf[i].name = n}
      First(S) == CHOOSE i \in S : \A j \in S : i <= j
      found == {i \in Is(f) : \A j \in Is("free") : i < j}
      room == Is("free") \cup Is("deleted")
  IN  IF found # {}
      THEN IF {"CREAT", "EXCL"} \subseteq mode THEN Fail(s)
           ELSE OpenCachedEntry(s, First(found), mode)
      ELSE IF ~({"CREAT", "WRITE"} \subseteq mode) \/ room = {} THEN Fail(s)
      ELSE Then(CacheFlush(Poke(s, First(room), [Free EXCEPT !.name = f])),
                LAMBDA r : OpenCachedEntry(r, First(room), mode))

OpenEntry(s, f, mode) ==
  Then(CacheRawBlock(s, RootDirStart, FALSE), LAMBDA r : FindEntry(r, f, mode))

\* SDClass::open() moves to the end of a file opened for writing and does not
\* look whether that failed.
ToEnd(s, mode) ==
  IF ~s.ok THEN [s EXCEPT !.h = Closed]
  ELSE IF mode \cap {"APPEND", "WRITE"} = {} THEN s
  ELSE [SeekSet(s, s.h.size) EXCEPT !.ok = TRUE]

Open(s, f, mode) == ToEnd(OpenEntry(s, f, mode), mode)

\* With no room for the clusters the new file is removed again.
Contiguous(s, a, size) ==
  IF ~s.ok THEN [s EXCEPT !.h = Closed]
  ELSE IF ~a.ok THEN [Remove([a EXCEPT !.ok = TRUE]) EXCEPT !.ok = FALSE]
  ELSE Sync([a EXCEPT !.h.first = a.val, !.h.size = size, !.h.dirty = TRUE])

CreateContiguous(s, f, size) ==
  LET r == OpenEntry(s, f, {"READ", "WRITE", "CREAT", "EXCL"})
  IN  Contiguous(r, AllocContiguous(r, ((size - 1) \div ClusterUnits) + 1, r.h.first), size)

-----------------------------------------------------------------------------
(* What is in the blocks of the card, or of its View *)

FatEntry(blocks, c) == blocks[FatBlock(c)][c % Slots]

\* Cluster i of the chain from first; 0 behind its end.
ClusterAt(blocks, first, i) ==
  LET at[k \in 0 .. i] ==
        IF k = 0 THEN first
        ELSE IF at[k - 1] \in Clusters THEN FatEntry(blocks, at[k - 1]) ELSE 0
  IN  at[i]

UnitAt(blocks, first, i) ==
  LET c == ClusterAt(blocks, first, i \div ClusterUnits)
      b == ClusterStartBlock(c) + ((i \div Slots) % BlocksPerCluster)
  IN  IF c \in Clusters THEN blocks[b][i % Slots] ELSE Unsure

Content(blocks, first, size) == [i \in 1 .. size |-> UnitAt(blocks, first, i - 1)]

\* The directory entry of f.
EntryOf(blocks, f) ==
  LET mine == {i \in 0 .. Slots - 1 : blocks[RootDirStart][i].name = f}
  IN  IF mine = {} THEN Free ELSE blocks[RootDirStart][CHOOSE i \in mine : TRUE]

Matches(promised, units) ==
  /\ Len(promised) <= Len(units)
  /\ \A i \in 1 .. Len(promised) : promised[i] \in {Unsure, units[i]}

-----------------------------------------------------------------------------
(* The calls of the sketch *)

Calm == [fuse |-> Never, late |-> FALSE]
Accidents == IF faults >= MaxFaults THEN {Calm}
             ELSE {Calm} \cup [fuse : 0 .. MaxAccess, late : BOOLEAN]
Do(h, a) == Begin(h, a.fuse, a.late)

\* Whether the call can say that it went well.
Good(r) == r.ok /\ ~r.blown

\* The call on f returns with the state r.  When it fails nothing is promised of
\* f until it is opened anew.
Return(f, r, anew, content) ==
  /\ vol' = [x \in DOMAIN vol |-> r[x]]
  /\ file' = [file EXCEPT ![f] = r.h]
  /\ want' = [want EXCEPT ![f] = content]
  /\ astray' = IF ~Good(r) THEN astray \cup {f} ELSE IF anew THEN astray \ {f} ELSE astray
  /\ UNCHANGED powered

\* The power is lost at the access that fails, and the sketch starts again.
PowerLoss(r) ==
  /\ r.blown
  /\ vol' = Mount(r.card)
  /\ file' = [g \in Names |-> Closed]
  /\ astray' = Names
  /\ powered' = FALSE
  /\ UNCHANGED want

\* content is what f should hold after the call, kept what is surely on the card.
End(f, r, a, anew, content, kept) ==
  /\ a = Calm \/ r.blown
  /\ Return(f, r, anew, content) \/ PowerLoss(r)
  /\ saved' = [saved EXCEPT ![f] = kept]
  /\ calls' = calls + 1
  /\ failed' = (failed \/ ~Good(r))
  /\ faults' = faults + (IF r.blown THEN 1 ELSE 0)

\* When nothing was promised, what is there becomes what should be there.
OpenCall(f, mode, a) ==
  LET r == Open(Do(Closed, a), f, mode)
      cut == "TRUNC" \in mode
  IN  /\ ~file[f].open
      /\ End(f, r, a, TRUE,
             IF cut THEN <<>>
             ELSE IF r.ok /\ f \in astray THEN Content(View(r), r.h.first, r.h.size)
             ELSE want[f],
             IF cut THEN <<>> ELSE saved[f])
      /\ torn' = torn \cup (IF cut /\ r.blown THEN {f} ELSE {})
      /\ muddled' = muddled \ (IF cut /\ Good(r) THEN {f} ELSE {})
      /\ UNCHANGED broken

CreateCall(f, size, a) ==
  LET r == CreateContiguous(Do(Closed, a), f, size)
      anything == [i \in 1 .. size |-> Unsure]
  IN  /\ ~file[f].open /\ EntryOf(View(vol), f) = Free /\ size <= MaxSize
      /\ End(f, r, a, TRUE, anything, IF Good(r) THEN anything ELSE saved[f])
      /\ UNCHANGED <<torn, muddled, broken>>

WriteCall(f, n, a) ==
  LET h == file[f]
      r == Write(Do(h, a), n, calls)
      at == IF "APPEND" \in h.flags THEN h.size ELSE h.pos
      written == at + 1 .. at + n
      new == [i \in 1 .. IF at + n > h.size THEN at + n ELSE h.size |->
                IF i \in written THEN calls ELSE want[f][i]]
      left == [i \in 1 .. Len(saved[f]) |->
                 IF i \in written \/ f \in astray THEN Unsure ELSE saved[f][i]]
      sure == Good(r) /\ f \notin astray
  IN  /\ h.open /\ "WRITE" \in h.flags /\ at + n <= MaxSize
      /\ End(f, r, a, FALSE, IF sure THEN new ELSE want[f],
             IF sure /\ "SYNC" \in h.flags THEN new ELSE left)
      /\ muddled' = muddled \cup ({f} \cap astray)
      /\ UNCHANGED <<torn, broken>>

ReadCall(f, n, a) ==
  LET h == file[f]
      r == Read(Do(h, a), n)
      due == SubSeq(want[f], h.pos + 1, Least(h.pos + n, Len(want[f])))
      wrong == r.ok /\ f \notin astray /\ ~(Len(due) = Len(r.got) /\ Matches(due, r.got))
  IN  /\ h.open /\ "READ" \in h.flags
      /\ End(f, r, a, FALSE, want[f], saved[f])
      /\ broken' = broken \cup (IF wrong THEN {"read"} ELSE {})
      /\ UNCHANGED <<torn, muddled>>

SeekCall(f, pos, a) ==
  /\ file[f].open /\ pos <= file[f].size
  /\ End(f, SeekSet(Do(file[f], a), pos), a, FALSE, want[f], saved[f])
  /\ UNCHANGED <<torn, muddled, broken>>

\* sync(), or File::close(), which gives up the handle whether sync() worked or not.
SyncCall(f, closing, a) ==
  LET s == Sync(Do(file[f], a))
      r == IF closing THEN [s EXCEPT !.h = Closed] ELSE s
  IN  /\ file[f].open
      /\ End(f, r, a, FALSE, want[f],
             IF Good(r) /\ f \notin astray THEN want[f] ELSE saved[f])
      /\ broken' = broken \cup (IF ~r.ok /\ ~r.blown THEN {"sync"} ELSE {})
      /\ UNCHANGED <<torn, muddled>>

TruncateCall(f, length, a) ==
  LET r == Truncate(Do(file[f], a), length)
      Cut(content) == SubSeq(content, 1, Least(length, Len(content)))
  IN  /\ file[f].open /\ "WRITE" \in file[f].flags /\ length <= file[f].size
      /\ End(f, r, a, FALSE, Cut(want[f]),
             IF Good(r) /\ f \notin astray THEN Cut(want[f]) ELSE Cut(saved[f]))
      /\ torn' = torn \cup (IF r.blown THEN {f} ELSE {})
      /\ muddled' = muddled \cup ({f} \cap astray)
      /\ UNCHANGED broken

RemoveCall(f, a) ==
  LET o == OpenEntry(Do(Closed, a), f, {"WRITE"})
      r == [Remove(o) EXCEPT !.h = Closed]
  IN  /\ ~file[f].open /\ EntryOf(View(vol), f) # Free
      /\ End(f, r, a, TRUE, <<>>, <<>>)
      /\ torn' = torn \cup (IF r.blown THEN {f} ELSE {})
      /\ muddled' = muddled \ (IF Good(r) THEN {f} ELSE {})
      /\ UNCHANGED broken

\* The sketch keeps its hands off a file whose truncation was interrupted: the
\* directory may still name clusters that are free, or another file's by then.
Next ==
  /\ calls <= MaxCalls
  /\ \E f \in Names \ torn, a \in Accidents :
       \/ \E mode \in Modes : OpenCall(f, mode, a)
       \/ \E n \in Lengths : \/ CreateCall(f, n, a)
                             \/ WriteCall(f, n, a)
                             \/ ReadCall(f, n, a)
       \/ \E pos \in Positions : \/ SeekCall(f, pos, a)
                                 \/ TruncateCall(f, pos, a)
       \/ \E closing \in BOOLEAN : SyncCall(f, closing, a)
       \/ RemoveCall(f, a)

Spec == Init /\ [][Next]_vars

-----------------------------------------------------------------------------
(* Properties *)

\* The blocks a handle reaches that stands at the end of its chain.
BehindVolume == ClusterStartBlock(EOC) .. ClusterStartBlock(EOC + 1) - 1

TypeOK ==
  /\ vol.num \in Blocks \cup BehindVolume \cup {None} /\ vol.start \in 2 .. LastCluster + 1
  /\ vol.dirty \in BOOLEAN /\ vol.mirror \in {0} \cup Blocks
  /\ \A f \in Names : file[f].open =>
       /\ file[f].pos \in Nat /\ file[f].size \in 0 .. MaxSize
       /\ file[f].cur \in 0 .. EOC /\ file[f].first \in {0} \cup Clusters
       /\ file[f].slot \in 0 .. Slots - 1 /\ file[f].flags \subseteq Flags

\* What a file held when sync(), close() or truncate() last returned true is on
\* the card at every moment, through failures and losses of power: later calls
\* disturb it only where write() was asked to write over it, or remove() or
\* truncate() of this file was interrupted, or write() or truncate() was called on
\* a handle left astray by a call that had failed.
SyncedOnCard ==
  \A f \in Names \ (torn \cup muddled) :
    LET e == EntryOf(vol.card, f)
    IN  Matches(saved[f], Content(vol.card, e.first, e.size))

\* read() returns what write() put there, whichever of it is still in the cache,
\* as long as no call on the file failed since it was opened.
ReadsTrue == "read" \notin broken

FirstOf(f) == IF file[f].open THEN file[f].first ELSE EntryOf(View(vol), f).first
SizeOf(f) == IF file[f].open THEN file[f].size ELSE EntryOf(View(vol), f).size
ChainOf(f) == {ClusterAt(View(vol), FirstOf(f), i) : i \in 0 .. ClusterCount - 1} \cap Clusters

\* No cluster is in two files, and every chain ends, even when calls fail half-way;
\* it is long enough for its file unless that was written or truncated through a
\* handle that a failed call had left astray; and as long as no call failed, every
\* cluster in use is in the chain of a file.
ClustersOwned ==
  /\ \A f \in Names \ torn :
       /\ FirstOf(f) # 0 => \E i \in 1 .. ClusterCount :
                              IsEOC(ClusterAt(View(vol), FirstOf(f), i))
       /\ f \notin muddled => Cardinality(ChainOf(f)) * ClusterUnits >= SizeOf(f)
       /\ \A g \in Names \ (torn \cup {f}) : ChainOf(f) \cap ChainOf(g) = {}
  /\ ~failed => {c \in Clusters : FatEntry(View(vol), c) # 0} = UNION {ChainOf(f) : f \in Names}

\* Whenever nothing waits to be written the two allocation tables are equal, even
\* when a write of one of them failed: a later flush writes both again.  A loss
\* of power between the two writes does tell them apart.
MirrorAgrees ==
  powered /\ ~vol.dirty /\ FatCount = 2 =>
    \A k \in 0 .. BlocksPerFat - 1 :
      vol.card[FatStart + k] = vol.card[FatStart + BlocksPerFat + k]

\* sync() of an open file fails only when the card does: its comment says
\* "Reasons for failure include a call to sync() before a file has been opened or
\* an I/O error", and the first is excluded here.
SyncFailsOnlyOnError == "sync" \notin broken
=============================================================================
