------------------------------ MODULE SdFileProofs ------------------------------
(***************************************************************************)
(* The files of a memory card for every size of card, cluster, block and   *)
(* file, for any files, and with any number of accesses that fail: types,  *)
(* equal tables, and no cluster in two files.                              *)
(*                                                                         *)
(* The calls that shorten chains or change the directory, truncate(),      *)
(* remove(), open() and createContiguous(), are proved to keep Inside of   *)
(* SdHandleProofs.  IInv, the inductive invariant, holds between two calls *)
(* and speaks of the volume twice: as it is seen through the cache, and as *)
(* it lies on the card.  Enter leads from it into a call, and Leaves       *)
(* brings a call that succeeded, failed or lost its power back to it.      *)
(***************************************************************************)
EXTENDS SdHandleProofs

-----------------------------------------------------------------------------
(* truncate(): the chain is cut *)

\* The directory changes in the entry of f, in slot.
Beside(f, slot, root, dir) ==
  /\ RootOk(dir) /\ \A i \in SlotNumbers \ {slot} : dir[i] = root[i]
  /\ \A g \in Names \ {f} : EntryIn(dir, g) = EntryIn(root, g)
LEMMA BesideTwice ==
  ASSUME NEW f, NEW slot, NEW a, NEW b, NEW d, Beside(f, slot, a, b), Beside(f, slot, b, d)
  PROVE  Beside(f, slot, a, d)
BY DEF Beside
LEMMA BesideSame == ASSUME NEW f, NEW slot, NEW root, RootOk(root) PROVE Beside(f, slot, root, root)
BY DEF Beside

\* z says as much as x of the other files.
Above(x, z) ==
  /\ z \in Contexts /\ z.f = x.f /\ z.file = x.file /\ z.live = x.live /\ x.f \in x.live
  /\ z.long \subseteq x.long \cup {x.f} /\ z.exact \subseteq x.exact \cup {x.f} /\ z.exact \subseteq z.long
  /\ (z.full => x.full) /\ (z.twin => x.twin)

\* When the card holds what is seen.
LEMMA Even ==
  ASSUME NEW r, NEW x, x \in Contexts, \A g \in Names : HandleOk(g, x.file[g]), HandleOk(x.f, r.h), r.h \in Handles,
         Sight(r, x), Main(r.card) = Seen(r)
  PROVE  Stored(r, x) /\ Lags(r, x)
<1> PICK ex, fu, t, root, fl : /\ ex = Trusted(r, x) /\ fu = (x.full /\ r.ok) /\ t = Table(Seen(r))
                               /\ root = Root(Seen(r)) /\ fl = Among(x, r.h)
  OBVIOUS
<1>1. PICK ch : Live(t, root, fl, ch, x.live, x.long, ex, fu)
  BY DEF Sight
<1>2. x.live \subseteq Names /\ \A g \in x.live : HandleOk(g, fl[g])
  <2>1. fl[x.f] = r.h /\ (\A g \in Names \ {x.f} : fl[g] = x.file[g]) /\ x.live \subseteq Names
    BY AmongFacts DEF Contexts
  <2> QED BY <2>1
<1> PICK li, lo : li = x.live /\ lo = x.long
  OBVIOUS
<1>3. \E dh : Live(t, root, AllClosed, dh, li, lo, {}, FALSE)
  <2>1. Live(t, root, fl, ch, li, lo, ex, fu) /\ li \subseteq Names /\ (\A g \in li : HandleOk(g, fl[g]))
    BY <1>1, <1>2
  <2> QED BY ONLY <2>1, Shut
<1>4. Stored(r, x)
  BY <1>3 DEF Stored
<1>5. Lags(r, x)
  <2> SUFFICES ASSUME NEW g \in x.live PROVE EntryIn(root, g).size <= EntryIn(root, g).size
    BY DEF Lags
  <2>1. RootOk(root) /\ g \in Names
    BY <1>1, <1>2 DEF Live
  <2>2. EntryIn(root, g).size \in 0 .. MaxSize
    BY <2>1, EntryFacts
  <2> QED BY <2>2, FileAssumption
<1> QED BY <1>4, <1>5

\* A call that changed the chain and the entry of its file, and wrote both to the card.
LEMMA InsideAnew ==
  ASSUME NEW s, NEW x, Inside(s, x), NEW z, Above(x, z), NEW c, OfFile(s, x, c),
         NEW r, Sound(r), Twin(s) => Twin(r), r.ok => s.ok, r.start \in Startable, HandleOk(x.f, r.h), Main(r.card) = Seen(r),
         NEW slot, \A g \in x.live \ {x.f} : x.file[g].open => x.file[g].slot \in SlotNumbers \ {slot},
         Beside(x.f, slot, Root(Seen(s)), Root(Seen(r))), Within(Table(Seen(s)), Table(Seen(r)), Ran(c)),
         NEW e, e \in Seq(Clusters), Once(e), \A a \in Ran(e) : a \in Ran(c) \/ Table(Seen(s))[a] = 0,
         z.full /\ r.ok => \A a \in Clusters : Table(Seen(r))[a] # 0 => a \in Ran(e) \/ (Table(Seen(s))[a] # 0 /\ a \notin Ran(c)),
         FileOk(Table(Seen(r)), Root(Seen(r)), x.f, r.h, e, x.f \in z.long, x.f \in Trusted(r, z), z.full /\ r.ok)
  PROVE  Inside(r, z)
<1> PICK f, k : f = x.f /\ k = r.h
  OBVIOUS
<1>0. Sound(s) /\ s.h \in Handles /\ x \in Contexts /\ f \in Names /\ x.live \subseteq Names /\ f \in x.live
      /\ x.file \in [Names -> Handles] /\ k \in Handles
  BY DEF Inside, Sound, State, Handles, Contexts, Above
<1>1. Sight(r, z)
  <2> PICK ex, fu, t, root, fl, xe, xf, u, dir, lo :
        /\ ex = Trusted(s, x) /\ fu = (x.full /\ s.ok) /\ t = Table(Seen(s)) /\ root = Root(Seen(s)) /\ fl = Among(x, s.h)
        /\ xe = Trusted(r, z) /\ xf = (z.full /\ r.ok) /\ u = Table(Seen(r)) /\ dir = Root(Seen(r)) /\ lo = z.long
    OBVIOUS
  <2>1. PICK ch : Live(t, root, fl, ch, x.live, x.long, ex, fu)
    BY DEF Inside, Sight
  <2>3. fl[f] = s.h /\ (\A g \in Names \ {f} : fl[g] = x.file[g]) /\ [fl EXCEPT ![f] = k] = Among(x, k)
    <3>1. fl[f] = s.h /\ (\A g \in Names \ {f} : fl[g] = x.file[g])
      BY <1>0, AmongFacts
    <3>2. \A l \in Handles : [fl EXCEPT ![f] = l] = Among(x, l)
      BY <1>0, AmongFacts
    <3> QED BY <1>0, <3>1, <3>2
  <2>4. OfFile(s, x, ch[f])
    BY <1>0, <2>1, <2>3 DEF Live, OfFile, Disjoint, Once
  <2>5. ch[f] = c
    BY <2>4, OneChain
  <2>6. \A g \in x.live \ {f} : /\ EntryIn(dir, g) = EntryIn(root, g)
                                /\ fl[g].open => dir[fl[g].slot] = root[fl[g].slot]
    <3>1. \A g \in x.live \ {f} : fl[g] = x.file[g] /\ g \in Names \ {f}
      BY <1>0, <2>3
    <3> QED BY <3>1 DEF Beside
  <2>7. u \in Tables /\ RootOk(dir)
    BY TablesTyped DEF Beside
  <2>8. Within(t, u, Ran(ch[f])) /\ \A a \in Ran(e) : a \in Ran(ch[f]) \/ t[a] = 0
    BY <2>5
  <2>9. xf => \A a \in Clusters : u[a] # 0 => a \in Ran(e) \/ (t[a] # 0 /\ a \notin Ran(ch[f]))
    BY <2>5
  <2>10. lo \subseteq x.long \cup {f} /\ xe \subseteq ex \cup {f} /\ (xf => fu)
    BY DEF Above, Trusted
  <2>11. FileOk(u, dir, f, k, e, f \in lo, f \in xe, xf)
    OBVIOUS
  <2>12. e \in Seq(Clusters) /\ Once(e)
    OBVIOUS
  <2>13. Live(u, dir, [fl EXCEPT ![f] = k], [ch EXCEPT ![f] = e], x.live, lo, xe, xf)
    BY ONLY <1>0, <2>1, <2>6, <2>7, <2>8, <2>9, <2>10, <2>11, <2>12, LiveStep
  <2> PICK dh : dh = [ch EXCEPT ![f] = e]
    OBVIOUS
  <2>14. Live(u, dir, Among(x, k), dh, x.live, lo, xe, xf)
    BY <2>3, <2>13
  <2>15. Among(x, k) = Among(z, k) /\ z.live = x.live
    BY DEF Among, Above
  <2> QED BY <2>14, <2>15 DEF Sight
<1>2. \A g \in Names : HandleOk(g, z.file[g])
  BY DEF Inside, Above
<1>3. Stored(r, z) /\ Lags(r, z)
  <2>1. z \in Contexts /\ HandleOk(z.f, r.h) /\ r.h \in Handles
    BY <1>0 DEF Above
  <2> QED BY <1>1, <1>2, <2>1, Even
<1> QED BY <1>1, <1>2, <1>3 DEF Inside, Above

\* Nothing more is said of the file of the call: its truncation was interrupted.
Dropped(x) == [x EXCEPT !.live = @ \ {x.f}, !.full = FALSE]
LEMMA DroppedFacts ==
  ASSUME NEW x, x \in Contexts, x.exact \subseteq x.long, NEW y, y = Dropped(x)
  PROVE  /\ Less(x, y) /\ y.f = x.f /\ y.file = x.file /\ y.live = x.live \ {x.f} /\ y.long = x.long
         /\ y.exact = x.exact /\ y.full = FALSE /\ y.twin = x.twin
<1>1. y \in Contexts /\ y.f = x.f /\ y.file = x.file /\ y.live = x.live \ {x.f} /\ y.long = x.long
      /\ y.exact = x.exact /\ y.full = FALSE /\ y.twin = x.twin
  BY DEF Contexts, Dropped
<1> QED BY <1>1 DEF Less

\* What the card holds: what it held, or what was seen with entries of D, free ones
\* and the file's own entry altered.
CardWithin(s, r, D, f, slot) ==
  \/ Root(Main(r.card)) = Root(Main(s.card)) /\ Table(Main(r.card)) = Table(Main(s.card))
  \/ /\ Beside(f, slot, Root(Seen(s)), Root(Main(r.card)))
     /\ Within(Table(Seen(s)), Table(Main(r.card)), D)

\* A call stopped half-way, the chain and the entry of its file in any state.
LEMMA InsideDropped ==
  ASSUME NEW s, NEW x, Inside(s, x), x.f \in x.live, NEW c, OfFile(s, x, c),
         NEW r, Sound(r), Twin(s) => Twin(r), r.ok => s.ok, r.start \in Startable, HandleOk(x.f, r.h),
         NEW slot, \A g \in x.live \ {x.f} : x.file[g].open => x.file[g].slot \in SlotNumbers \ {slot},
         Beside(x.f, slot, Root(Seen(s)), Root(Seen(r))), Within(Table(Seen(s)), Table(Seen(r)), Ran(c)),
         CardWithin(s, r, Ran(c), x.f, slot)
  PROVE  Inside(r, Dropped(x))
<1> PICK y : y = Dropped(x)
  OBVIOUS
<1> PICK f, k, D : f = x.f /\ k = r.h /\ D = Ran(c)
  OBVIOUS
<1>0. /\ Sound(s) /\ s.h \in Handles /\ x \in Contexts /\ f \in Names /\ x.live \subseteq Names /\ f \in x.live
      /\ x.file \in [Names -> Handles] /\ k \in Handles /\ x.exact \subseteq x.long
      /\ \A g \in Names : HandleOk(g, x.file[g])
  BY DEF Inside, Sound, State, Handles, Contexts
<1>1. /\ Less(x, y) /\ y.f = f /\ y.file = x.file /\ y.live = x.live \ {f} /\ y.long = x.long
      /\ y.exact = x.exact /\ y.full = FALSE /\ y.twin = x.twin
  BY <1>0, DroppedFacts
<1> PICK ex, fu, t, root, fl, xe, xf, u, dir, lo, li :
      /\ ex = Trusted(s, x) /\ fu = (x.full /\ s.ok) /\ t = Table(Seen(s)) /\ root = Root(Seen(s)) /\ fl = Among(x, s.h)
      /\ xe = Trusted(r, y) /\ xf = (y.full /\ r.ok) /\ u = Table(Seen(r)) /\ dir = Root(Seen(r)) /\ lo = x.long /\ li = y.live
  OBVIOUS
<1>2. PICK ch : Live(t, root, fl, ch, x.live, lo, ex, fu)
  BY DEF Inside, Sight
<1>3. fl[f] = s.h /\ (\A g \in Names \ {f} : fl[g] = x.file[g]) /\ [fl EXCEPT ![f] = k] = Among(x, k)
  <2>1. fl[f] = s.h /\ (\A g \in Names \ {f} : fl[g] = x.file[g])
    BY <1>0, AmongFacts
  <2>2. \A l \in Handles : [fl EXCEPT ![f] = l] = Among(x, l)
    BY <1>0, AmongFacts
  <2> QED BY <1>0, <2>1, <2>2
<1>4. ch[f] = c
  <2>1. OfFile(s, x, ch[f])
    BY <1>0, <1>2, <1>3 DEF Live, OfFile, Disjoint, Once
  <2> QED BY <2>1, OneChain
<1>5. \A g \in x.live \ {f} : Ran(ch[g]) \cap D = {}
  <2> SUFFICES ASSUME NEW g \in x.live \ {f}, NEW a, a \in Ran(ch[g]), a \in Ran(c) PROVE FALSE
    OBVIOUS
  <2>1. PICK i \in 1 .. Len(ch[g]) : a = ch[g][i]
    BY DEF Ran
  <2>2. PICK j \in 1 .. Len(ch[f]) : a = ch[f][j]
    BY <1>4 DEF Ran
  <2>3. Disjoint(x.live, ch) /\ ch[g][i] = ch[f][j] /\ g \in x.live /\ f \in x.live
    BY <1>0, <1>2, <2>1, <2>2 DEF Live
  <2>4. g = f
    BY <2>3 DEF Disjoint
  <2> QED BY <2>4
<1> PICK gl, no : gl = [fl EXCEPT ![f] = k] /\ no = FALSE
  OBVIOUS
<1>6. ASSUME NEW w \in Tables, NEW d, Beside(f, slot, root, d), Within(t, w, D)
      PROVE  \E dh : Live(w, d, gl, dh, li, lo, ex, no)
  <2>1. \A g \in x.live \ {f} : fl[g] = x.file[g] /\ gl[g] = fl[g] /\ g \in Names \ {f}
    BY <1>0, <1>3 DEF Among
  <2>2. gl \in [Names -> Handles]
    BY <1>0, <1>3, AmongFacts
  <2> PICK al : al = x.live
    OBVIOUS
  <2>3. Spared(f, D, root, d, fl, gl, ch, al, li)
    BY <1>0, <1>1, <1>5, <1>6, <2>1, <2>2 DEF Beside, Spared
  <2>4. Within(t, w, D) /\ w \in Tables /\ Live(t, root, fl, ch, al, lo, ex, fu)
    BY <1>2, <1>6
  <2>5. \E dh : Live(w, d, gl, dh, li, lo, ex, FALSE)
    BY ONLY <2>3, <2>4, LiveOthers
  <2> QED BY <2>5
<1>7. Sight(r, y)
  <2>1. u \in Tables
    BY TablesTyped
  <2>2. PICK dh : Live(u, dir, gl, dh, li, lo, ex, no)
    BY <1>6, <2>1
  <2>3. Fewer(li, lo, ex, no, li, lo, xe, xf)
    BY <1>1 DEF Trusted, Fewer
  <2>4. \E eh : Live(u, dir, gl, eh, li, lo, xe, xf)
    BY ONLY <2>2, <2>3, LiveLess
  <2>5. gl = Among(y, k)
    BY <1>1, <1>3 DEF Among
  <2> QED BY <1>1, <2>4, <2>5 DEF Sight
<1>8. Stored(r, y)
  <2>1. CASE Root(Main(r.card)) = Root(Main(s.card)) /\ Table(Main(r.card)) = Table(Main(s.card))
    <3>1. Stored(s, y)
      BY <1>1, InsideLess DEF Inside
    <3> QED BY <2>1, <3>1 DEF Stored
  <2>2. CASE Beside(f, slot, root, Root(Main(r.card))) /\ Within(t, Table(Main(r.card)), D)
    <3> PICK w, d : w = Table(Main(r.card)) /\ d = Root(Main(r.card))
      OBVIOUS
    <3>1. w \in Tables
      BY TablesTyped
    <3>2. PICK dh : Live(w, d, gl, dh, li, lo, ex, no)
      BY <1>6, <2>2, <3>1
    <3>3. li \subseteq Names /\ \A g \in li : HandleOk(g, gl[g])
      <4>1. \A g \in li : gl[g] = x.file[g]
        BY <1>0, <1>1, <1>3 DEF Among
      <4> QED BY <1>0, <1>1, <4>1
    <3>4. \E eh : Live(w, d, AllClosed, eh, li, lo, {}, FALSE)
      BY ONLY <3>2, <3>3, Shut
    <3> QED BY <1>1, <3>4 DEF Stored
  <2> QED BY <2>1, <2>2 DEF CardWithin
<1>9. Lags(r, y)
  <2> SUFFICES ASSUME NEW g \in x.live \ {f}
               PROVE  EntryIn(Root(Main(r.card)), g).size <= EntryIn(Root(Seen(r)), g).size
    BY <1>1 DEF Lags
  <2>1. EntryIn(Root(Seen(r)), g) = EntryIn(Root(Seen(s)), g) /\ g \in Names
    BY <1>0 DEF Beside
  <2>2. CASE Root(Main(r.card)) = Root(Main(s.card))
    BY <2>1, <2>2 DEF Inside, Lags
  <2>3. CASE Beside(f, slot, root, Root(Main(r.card)))
    <3>1. EntryIn(Root(Main(r.card)), g) = EntryIn(root, g) /\ RootOk(root)
      BY <1>0, <1>2, <2>3 DEF Beside, Live
    <3>2. EntryIn(root, g).size \in 0 .. MaxSize
      BY <2>1, <3>1, EntryFacts
    <3> QED BY <2>1, <3>1, <3>2, FileAssumption
  <2> QED BY <2>2, <2>3 DEF CardWithin
<1> QED BY <1>0, <1>1, <1>7, <1>8, <1>9 DEF Inside, Less

\* What is on the card after what was seen of s went there, or nothing did.
Landed(s, r) == Main(r.card) \in {Main(s.card), Seen(s)}
\* An assignment to the directory that was written to the card, or failed to be.
Stamped(s, r, slot, v, k) ==
  /\ Sound(r) /\ (Twin(s) => Twin(r)) /\ GoesOn(s, r) /\ Certain(s, r)
  /\ r.start = s.start /\ r.left = s.left /\ r.got = s.got /\ Table(Seen(r)) = Table(Seen(s))
  /\ r.h \in {s.h, k} /\ Root(Seen(r)) \in {Root(Seen(s)), Entering(Root(Seen(s)), slot, v)}
  /\ Main(r.card) = Main(s.card)
     \/ (Table(Main(r.card)) = Table(Seen(s)) /\ Root(Main(r.card)) \in {Root(Seen(s)), Entering(Root(Seen(s)), slot, v)})
  /\ r.ok => /\ r.h = k /\ Root(Seen(r)) = Entering(Root(Seen(s)), slot, v)
             /\ ~r.dirty /\ Main(r.card) = Seen(r)

\* The flush after the assignment.
LEMMA StampFlush ==
  ASSUME NEW s, Sound(s), NEW q, Keeps(s, q), q.ok, q.num = RootDirStart,
         NEW slot, slot \in SlotNumbers, NEW v, v \in DirEntry, NEW k, k \in Handles,
         NEW p, p = Holding(Poked(q, slot, v), k), NEW r, r = CacheFlush(p)
  PROVE  Stamped(s, r, slot, v, k)
<1> PICK u : u = Poked(q, slot, v)
  OBVIOUS
<1>1. /\ Sound(q) /\ (Twin(s) => Twin(q)) /\ GoesOn(s, q) /\ Seen(q) = Seen(s) /\ Landed(s, q)
      /\ q.h = s.h /\ q.start = s.start /\ q.left = s.left /\ q.got = s.got /\ s.ok
  BY DEF Keeps, Leads, Seen, Landed, GoesOn
<1>2. /\ Sound(u) /\ (Twin(q) => Twin(u)) /\ ~Stuck(u)
      /\ Root(Seen(u)) = Entering(Root(Seen(q)), slot, v) /\ Table(Seen(u)) = Table(Seen(q))
      /\ u.card = q.card /\ u.num = q.num /\ u.ok = q.ok /\ u.blown = q.blown
      /\ u.h = q.h /\ u.left = q.left /\ u.got = q.got /\ u.start = q.start
  <2>1. Sound(q) /\ q.num = RootDirStart /\ slot \in SlotNumbers /\ v \in DirEntry /\ u = Poked(q, slot, v)
    BY <1>1
  <2> QED BY ONLY <2>1, RootPoke
<1>3. /\ Serves(u, p) /\ Seen(p) = Seen(u) /\ SameCache(u, p)
      /\ p.h = k /\ p.ok = u.ok /\ p.blown = u.blown /\ p.start = u.start /\ p.left = u.left /\ p.got = u.got
  <2>1. Sound(u) /\ k \in Handles /\ p = Holding(u, k)
    BY <1>2
  <2> QED BY ONLY <2>1, HoldingServes
<1>4. Sound(p) /\ ~Stuck(p) /\ (Twin(s) => Twin(p)) /\ p.ok
  BY <1>1, <1>2, <1>3 DEF Serves, SameCache, Stuck
<1>5. Keeps(p, r) /\ Certain(p, r) /\ (r.ok => ~r.dirty /\ Main(r.card) = Seen(p))
  BY <1>4, FlushKeeps DEF Seen
<1>6. /\ Sound(r) /\ (Twin(p) => Twin(r)) /\ GoesOn(p, r) /\ Seen(r) = Seen(p) /\ Main(r.card) \in {Main(p.card), Seen(p)}
      /\ r.h = p.h /\ r.start = p.start /\ r.left = p.left /\ r.got = p.got
  BY <1>5 DEF Keeps, Leads, Seen
<1>7. GoesOn(s, r) /\ Certain(s, r)
  BY <1>1, <1>2, <1>3, <1>4, <1>5, <1>6 DEF GoesOn, Certain
<1>8. Table(Seen(r)) = Table(Seen(s)) /\ Root(Seen(r)) = Entering(Root(Seen(s)), slot, v)
  BY <1>1, <1>2, <1>3, <1>6
<1>9. Main(p.card) = Main(q.card)
  BY <1>2, <1>3 DEF SameCache
<1>10. Main(r.card) = Main(s.card)
       \/ (Table(Main(r.card)) = Table(Seen(s)) /\ Root(Main(r.card)) \in {Root(Seen(s)), Entering(Root(Seen(s)), slot, v)})
  BY <1>1, <1>6, <1>8, <1>9 DEF Landed
<1> QED BY <1>1, <1>2, <1>3, <1>4, <1>5, <1>6, <1>7, <1>8, <1>10 DEF Stamped

\* The block of the directory could not be brought into memory.
LEMMA StampFailed ==
  ASSUME NEW s, Sound(s), NEW r, Keeps(s, r), Certain(s, r), ~r.ok, NEW slot, NEW v, NEW k
  PROVE  Stamped(s, r, slot, v, k)
BY DEF Keeps, Leads, Seen, Stamped

\* sync() of a handle whose entry is out of date.
LEMMA SyncStamps ==
  ASSUME NEW s, Sound(s), s.h \in Handle, s.h.dirty, Entry(s.h) \in DirEntry, s.ok, NEW r, r = Sync(s)
  PROVE  Stamped(s, r, s.h.slot, Entry(s.h), Clean(s.h))
<1> PICK q : q = CacheRawBlock(s, RootDirStart, TRUE)
  OBVIOUS
<1>1. Keeps(s, q) /\ Certain(s, q) /\ (q.ok => q.num = RootDirStart)
  <2>1. RootDirStart \in Blocks \ ({0} \cup Mirrors) /\ RootDirStart \notin FatBlocks
    BY Layout
  <2> QED BY <2>1, RawWrite
<1>2. q \in State /\ q.h = s.h
  BY <1>1 DEF Keeps, Leads, Sound
<1> PICK u : u = UpdateEntry(s)
  OBVIOUS
<1>3. u = IF q.ok THEN Holding(Poked(q, q.h.slot, Entry(q.h)), Clean(q.h)) ELSE q
  BY <1>1, <1>2, UpdateShape
<1>4. r = CacheFlush(u)
  BY DEF Sync
<1>5. CASE q.ok
  <2> PICK slot, v, k : slot = s.h.slot /\ v = Entry(s.h) /\ k = Clean(s.h)
    OBVIOUS
  <2>1. slot \in SlotNumbers /\ v \in DirEntry /\ k \in Handles /\ Sound(s) /\ Keeps(s, q) /\ q.ok /\ q.num = RootDirStart
    BY <1>1, <1>5, HandleTypes, CleanFacts DEF LikeH, Handles
  <2>2. u = Holding(Poked(q, slot, v), k) /\ r = CacheFlush(u)
    BY <1>2, <1>3, <1>4, <1>5
  <2>3. Stamped(s, r, slot, v, k)
    BY ONLY <2>1, <2>2, StampFlush
  <2> QED BY <2>3
<1>6. CASE ~q.ok
  <2>1. u = q /\ Sound(q)
    BY <1>1, <1>3, <1>6 DEF Keeps, Leads
  <2>2. r = q
    BY <1>4, <1>6, <2>1, FlushKeeps
  <2> QED BY <1>1, <1>6, <2>2, StampFailed
<1> QED BY <1>5, <1>6

\* A handle whose chain is freed.
NoFirst(h) == [h EXCEPT !.first = 0]
\* A cut of the chain c under way, or failed.
Cutting(s, q, c) ==
  /\ Sound(q) /\ (Twin(s) => Twin(q)) /\ GoesOn(s, q) /\ q.left = s.left /\ q.got = s.got
  /\ s.start \in Startable => q.start \in Startable
  /\ Root(Seen(q)) = Root(Seen(s)) /\ Within(Table(Seen(s)), Table(Seen(q)), Ran(c)) /\ CardAlters(s, q, Ran(c))
  /\ q.h \in {s.h, NoFirst(s.h)}
  /\ ~q.ok /\ ~q.blown => Serves(s, q) /\ q.h = s.h
\* A cut that left the chain e to the handle k.
CutDone(s, q, c, e, k) ==
  /\ q.h = k /\ ~Stuck(q) /\ e \in Seq(Clusters) /\ Once(e) /\ Ran(e) \subseteq Ran(c)
  /\ Linked(Table(Seen(q)), k.first, e)
  /\ \A a \in Clusters : Table(Seen(q))[a] # 0 => a \in Ran(e) \/ (Table(Seen(s))[a] # 0 /\ a \notin Ran(c))

LEMMA AltersCutting ==
  ASSUME NEW s, NEW q, NEW c, Alters(s, q, Ran(c)), ~q.ok /\ ~q.blown => Serves(s, q)
  PROVE  Cutting(s, q, c)
BY DEF Alters, Cutting

\* The whole chain is freed.
LEMMA CutAll ==
  ASSUME NEW s, Sound(s), s.ok, s.h \in Handle, NEW c \in Seq(Clusters), c # <<>>, Once(c), Len(c) <= ClusterCount,
         Linked(Table(Seen(s)), s.h.first, c), NEW q, q = FreeAll(s)
  PROVE  Cutting(s, q, c) /\ (q.ok => CutDone(s, q, c, <<>>, NoFirst(s.h)))
<1> PICK first, a, k : first = s.h.first /\ a = FreeChain(s, first) /\ k = NoFirst(s.h)
  OBVIOUS
<1>1. first \in Clusters /\ Linked(Table(Seen(s)), first, c)
  <2>1. 1 \in 1 .. Len(c) /\ c[1] \in Clusters
    OBVIOUS
  <2> QED BY <2>1 DEF Linked
<1>2. /\ Alters(s, a, Ran(c)) /\ Certain(s, a)
      /\ a.ok => Table(Seen(a)) = Without(Table(Seen(s)), c)
      /\ Stuck(s) => Rests(s, a) /\ ~a.ok
  BY <1>1, FreeFacts
<1>3. q = IF a.ok THEN Holding(a, k) ELSE a
  <2>1. a \in State /\ a.h = s.h
    BY <1>2 DEF Alters, Sound
  <2>2. a.ok => [a EXCEPT !.h.first = 0] = Holding(a, k)
    BY <2>1 DEF Holding, NoFirst, State
  <2> QED BY <2>2 DEF FreeAll, Then
<1>4. CASE ~a.ok
  <2>1. q = a
    BY <1>3, <1>4
  <2>2. ~a.blown => Serves(s, a)
    BY <1>2, <1>4, RestsServes DEF Certain
  <2> QED BY <1>2, <1>4, <2>1, <2>2, AltersCutting
<1>5. CASE a.ok
  <2>1. k \in Handles /\ k.first = 0
    BY DEF NoFirst, Handle, Handles
  <2>2. Sound(a) /\ q = Holding(a, k)
    BY <1>2, <1>3, <1>5 DEF Alters
  <2>3. /\ Serves(a, q) /\ Seen(q) = Seen(a) /\ SameCache(a, q)
        /\ q.h = k /\ q.ok = a.ok /\ q.blown = a.blown /\ q.val = a.val /\ q.start = a.start
        /\ q.left = a.left /\ q.got = a.got
    BY ONLY <2>1, <2>2, HoldingServes
  <2>4. ~Stuck(a) /\ ~Stuck(q) /\ ~Stuck(s)
    BY <1>2, <1>5, <2>3 DEF Alters, GoesOn, SameCache, Stuck
  <2> PICK t, u : t = Table(Seen(s)) /\ u = Table(Seen(q))
    OBVIOUS
  <2>5. t \in Tables /\ u = Without(t, c)
    BY <1>2, <1>5, <2>3, TablesTyped
  <2>6. /\ Linked(u, 0, <<>>) /\ Within(t, u, Ran(c))
        /\ \A b \in Clusters : u[b] # 0 => t[b] # 0 /\ b \notin Ran(c)
    BY <2>5, NoChain
  <2>7. Cutting(s, q, c)
    <3>1. CardAlters(s, q, Ran(c))
      BY <1>2, <2>3 DEF Alters, CardAlters, SameCache
    <3>2. GoesOn(s, q)
      BY <1>2, <1>5, <2>3, <2>4 DEF Alters, GoesOn
    <3> QED BY <1>2, <1>5, <2>3, <2>6, <3>1, <3>2 DEF Alters, Cutting, Serves
  <2>8. CutDone(s, q, c, <<>>, k)
    <3>1. Once(<<>>) /\ Ran(<<>>) = {} /\ <<>> \in Seq(Clusters)
      BY DEF Once, Ran
    <3> QED BY <2>1, <2>3, <2>4, <2>6, <3>1 DEF CutDone
  <2> QED BY <2>7, <2>8
<1> QED BY <1>4, <1>5

\* e is the chain c up to the cluster cur.
HeadOf(c, e, cur) == Len(e) \in 1 .. Len(c) /\ (\A i \in 1 .. Len(e) : e[i] = c[i]) /\ cur = c[Len(e)]

\* A table entry could not be read.
LEMMA GetFailed ==
  ASSUME NEW s, NEW q, Keeps(s, q), NEW c
  PROVE  Cutting(s, q, c)
BY KeepsAlters, KeepsServes, AltersCutting

\* The chain behind the cluster i of c is freed, and i marked as its end.
LEMMA CutTail ==
  ASSUME NEW s, Sound(s), s.ok, s.h \in Handle, NEW c \in Seq(Clusters), Once(c), Len(c) <= ClusterCount,
         NEW first, Linked(Table(Seen(s)), first, c), NEW i, i \in 1 .. Len(c) - 1, NEW g, g = FatGet(s, c[i]), g.ok,
         NEW q, q = FatPut(FreeChain(g, c[i + 1]), c[i], EOC), first = s.h.first
  PROVE  Cutting(s, q, c) /\ (q.ok => CutDone(s, q, c, Head1(c, i), s.h) /\ HeadOf(c, Head1(c, i), c[i]))
<1> PICK t, cur, next, d, b, e, v : /\ t = Table(Seen(s)) /\ cur = c[i] /\ next = c[i + 1] /\ d = Tail1(c, i)
                                    /\ b = FreeChain(g, next) /\ e = Head1(c, i) /\ v = EOC
  OBVIOUS
<1>1. cur \in Clusters /\ next \in Clusters /\ cur \in 0 .. LastCluster /\ v \in 0 .. EOC /\ cur \in Ran(c)
  <2>1. cur \in Clusters /\ next \in Clusters
    OBVIOUS
  <2>2. v \in 0 .. EOC /\ Clusters \subseteq 0 .. LastCluster
    BY VolumeAssumption DEF EOC, LastCluster, Clusters
  <2>3. cur \in Ran(c)
    BY DEF Ran
  <2> QED BY <2>1, <2>2, <2>3
<1>2. Keeps(s, g) /\ ~Stuck(g)
  BY <1>1, FatGetKeeps, ReadyAfterGet
<1>3. /\ Alters(s, g, Ran(c)) /\ Seen(g) = Seen(s) /\ Sound(g) /\ g.h = s.h /\ GoesOn(s, g)
  BY <1>2, KeepsAlters DEF Keeps, Leads
<1>4. /\ d \in Seq(Clusters) /\ Len(d) = Len(c) - i /\ d # <<>>
      /\ Linked(t, next, d) /\ Once(d) /\ Ran(d) \subseteq Ran(c)
  <2>1. i \in 0 .. Len(c) - 1 /\ c \in Seq(Clusters) /\ Linked(t, first, c) /\ Once(c) /\ d = Tail1(c, i) /\ next = c[i + 1]
    OBVIOUS
  <2>2. /\ d \in Seq(Clusters) /\ Len(d) = Len(c) - i /\ d # <<>>
        /\ Linked(t, c[i + 1], d) /\ Once(d) /\ Ran(d) \subseteq Ran(c)
    BY ONLY <2>1, TailChain
  <2> QED BY <2>1, <2>2
<1>5. /\ Alters(g, b, Ran(d)) /\ Certain(g, b)
      /\ b.ok => Table(Seen(b)) = Without(t, d)
  <2>1. Len(d) <= ClusterCount /\ Linked(Table(Seen(g)), next, d)
    BY <1>3, <1>4, VolumeAssumption
  <2> QED BY <1>1, <1>3, <1>4, <2>1, FreeFacts
<1>6. Alters(s, b, Ran(c)) /\ Sound(b)
  <2> PICK D : D = Ran(c)
    OBVIOUS
  <2>1. Alters(g, b, D)
    BY <1>4, <1>5, AltersMore
  <2>2. Alters(s, g, D)
    BY <1>3
  <2>3. Alters(s, b, D)
    BY ONLY <2>1, <2>2, AltersTwice
  <2> QED BY <2>3 DEF Alters
<1>7. /\ Alters(b, q, Ran(c)) /\ Certain(b, q)
      /\ q.ok => Table(Seen(q)) = [Table(Seen(b)) EXCEPT ![cur] = v]
  <2> PICK D : D = Ran(c)
    OBVIOUS
  <2>1. Sound(b) /\ cur \in Clusters /\ v \in 0 .. EOC /\ (cur \in D \/ Table(Seen(b))[cur] = 0) /\ q = FatPut(b, cur, v)
    BY <1>1, <1>6
  <2>2. /\ Alters(b, q, D) /\ Certain(b, q)
        /\ q.ok => Table(Seen(q)) = [Table(Seen(b)) EXCEPT ![cur] = v]
    BY ONLY <2>1, FatPutAlters
  <2> QED BY <2>2
<1>8. Alters(s, q, Ran(c))
  BY <1>6, <1>7, AltersTwice
<1>9. (q.ok => b.ok /\ ~Stuck(q)) /\ (~q.ok => q.blown)
  BY <1>2, <1>5, <1>7 DEF Certain, Alters, GoesOn
<1>10. Cutting(s, q, c)
  BY <1>8, <1>9, AltersCutting
<1>11. ASSUME q.ok PROVE CutDone(s, q, c, e, s.h) /\ HeadOf(c, e, cur)
  <2> PICK u : u = Table(Seen(q))
    OBVIOUS
  <2>1. u = [Without(t, d) EXCEPT ![cur] = v]
    BY <1>5, <1>7, <1>9, <1>11
  <2>2. u = Cut1(t, c, i)
    BY <2>1 DEF Cut1
  <2>3. t \in Tables /\ c \in Seq(Clusters) /\ Linked(t, first, c) /\ Once(c) /\ i \in 1 .. Len(c) - 1 /\ e = Head1(c, i)
    BY TablesTyped
  <2>4. /\ u \in Tables /\ e \in Seq(Clusters) /\ Len(e) = i /\ e # <<>>
        /\ Linked(u, first, e) /\ Once(e) /\ Within(t, u, Ran(c)) /\ Ran(e) \subseteq Ran(c)
        /\ \A j \in 1 .. i : e[j] = c[j]
        /\ \A a \in Clusters : u[a] # 0 => a \in Ran(e) \/ (t[a] # 0 /\ a \notin Ran(c))
    BY ONLY <2>2, <2>3, HeadChain
  <2>5. HeadOf(c, e, cur)
    BY <2>4 DEF HeadOf
  <2>6. q.h = s.h
    BY <1>8 DEF Alters
  <2> QED BY <1>9, <1>11, <2>4, <2>5, <2>6 DEF CutDone
<1> QED BY <1>10, <1>11

\* Everything behind the current cluster is freed.
LEMMA CutBehind ==
  ASSUME NEW s, Sound(s), s.ok, s.h \in Handle, NEW c \in Seq(Clusters), Once(c), Len(c) <= ClusterCount,
         Linked(Table(Seen(s)), s.h.first, c), s.h.cur \in {EOC} \cup Ran(c), NEW length, length # 0,
         NEW q, q = CutAt(s, length)
  PROVE  Cutting(s, q, c) /\ (q.ok => \E e : CutDone(s, q, c, e, s.h) /\ HeadOf(c, e, s.h.cur))
<1> PICK t, cur, g, first : t = Table(Seen(s)) /\ cur = s.h.cur /\ g = FatGet(s, cur) /\ first = s.h.first
  OBVIOUS
<1>1. Keeps(s, g) /\ (g.ok => cur \in Ran(c) /\ g.val = t[cur] /\ ~Stuck(g))
  <2>1. CASE cur = EOC
    <3>1. cur \in Nat /\ cur > LastCluster
      BY <2>1, VolumeAssumption DEF EOC, LastCluster
    <3> QED BY <3>1, FatGetPast
  <2>2. CASE cur \in Ran(c)
    <3>1. cur \in Clusters
      BY <2>2 DEF Ran
    <3>2. cur \in 0 .. LastCluster
      BY <3>1, VolumeAssumption DEF Clusters
    <3> QED BY <2>2, <3>2, FatGetKeeps, ReadyAfterGet
  <2> QED BY <2>1, <2>2
<1>2. q = IF ~g.ok THEN g ELSE IF IsEOC(g.val) THEN g ELSE FatPut(FreeChain(g, g.val), g.h.cur, EOC)
  <2>1. g.h = s.h
    BY <1>1 DEF Keeps, Leads
  <2> QED BY <2>1 DEF CutAt, Then
<1>3. CASE ~g.ok
  BY <1>1, <1>2, <1>3, GetFailed
<1>4. CASE g.ok
  <2> PICK i \in 1 .. Len(c) : /\ cur = c[i] /\ (t[cur] = EOC <=> i = Len(c)) /\ (i # Len(c) => t[cur] = c[i + 1])
                               /\ t[cur] \in Clusters \cup {EOC} /\ (t[cur] > LastCluster <=> t[cur] = EOC)
    <3>1. c \in Seq(Clusters) /\ Linked(t, first, c) /\ cur \in Ran(c)
      BY <1>1, <1>4
    <3> QED BY ONLY <3>1, AtEnd
  <2>1. CASE IsEOC(g.val)
    <3>1. q = g /\ i = Len(c)
      BY <1>1, <1>2, <1>4, <2>1 DEF IsEOC
    <3>2. Cutting(s, q, c)
      BY <1>1, <3>1, GetFailed
    <3>3. HeadOf(c, c, cur)
      BY <3>1 DEF HeadOf
    <3>4. Seen(q) = Seen(s) /\ q.h = s.h
      BY <1>1, <3>1 DEF Keeps, Leads, Seen
    <3>5. CutDone(s, q, c, c, s.h)
      BY <1>1, <1>4, <3>1, <3>4 DEF CutDone
    <3> QED BY <3>2, <3>3, <3>5
  <2>2. CASE ~IsEOC(g.val)
    <3>1. i \in 1 .. Len(c) - 1 /\ g.val = c[i + 1]
      BY <1>1, <1>4, <2>2 DEF IsEOC
    <3>2. g.h = s.h
      BY <1>1 DEF Keeps, Leads
    <3>3. q = FatPut(FreeChain(g, c[i + 1]), c[i], EOC) /\ g = FatGet(s, c[i])
      BY <1>2, <1>4, <2>2, <3>1, <3>2
    <3>4. Cutting(s, q, c) /\ (q.ok => CutDone(s, q, c, Head1(c, i), s.h) /\ HeadOf(c, Head1(c, i), c[i]))
      <4>1. Linked(Table(Seen(s)), first, c) /\ first = s.h.first
        OBVIOUS
      <4> QED BY <1>4, <3>1, <3>3, <4>1, CutTail
    <3> QED BY <3>4
  <2> QED BY <2>1, <2>2
<1> QED BY <1>3, <1>4

\* The entry of f is replaced, or marked as deleted.
LEMMA BesideEntry ==
  ASSUME NEW root, RootOk(root), NEW slot, slot \in SlotNumbers, NEW f, f \in Names, root[slot].name = f,
         NEW v, v \in DirEntry, v.name \in {f, "deleted"}, v.first \in {0} \cup Clusters, v.size <= MaxSize,
         NEW dir, dir = Entering(root, slot, v)
  PROVE  /\ Beside(f, slot, root, dir) /\ dir[slot] = v
         /\ v.name = f => EntryIn(dir, f) = v
         /\ v.name = "deleted" => EntryIn(dir, f) = Free
<1>1. "deleted" \notin Names /\ "free" \notin Names
  BY FileAssumption
<1>2. v.name # "free" /\ f # "deleted"
  BY <1>1
<1>3. v.name \in Names => \A i \in SlotNumbers \ {slot} : root[i].name # v.name
  BY <1>1 DEF RootOk
<1>4. \A i \in SlotNumbers : i < slot => root[i].name # "free"
  BY <1>1 DEF RootOk
<1>5. /\ RootOk(dir) /\ dir[slot] = v /\ (\A i \in SlotNumbers \ {slot} : dir[i] = root[i])
      /\ \A g \in Names : g # v.name /\ g # root[slot].name => EntryIn(dir, g) = EntryIn(root, g)
      /\ v.name \in Names => EntryIn(dir, v.name) = v
      /\ \A g \in Names : g = root[slot].name /\ g # v.name => EntryIn(dir, g) = Free
  BY <1>2, <1>3, <1>4, EnteringFacts
<1> QED BY <1>1, <1>2, <1>5 DEF Beside

\* A handle whose file was cut to length units.
Shortened(h, length) == [h EXCEPT !.size = length, !.dirty = TRUE]
LEMMA ShortenedFacts ==
  ASSUME NEW h \in Handle, NEW length, length \in Nat, NEW k, k = Shortened(h, length)
  PROVE  /\ k \in Handle /\ k.cur = h.cur /\ k.pos = h.pos /\ k.first = h.first /\ k.size = length
         /\ k.slot = h.slot /\ k.name = h.name /\ k.flags = h.flags /\ k.dirty
BY DEF Shortened, Handle
LEMMA NoFirstFacts ==
  ASSUME NEW h \in Handle, NEW k, k = NoFirst(h)
  PROVE  /\ k \in Handle /\ k.cur = h.cur /\ k.pos = h.pos /\ k.first = 0 /\ k.size = h.size
         /\ k.slot = h.slot /\ k.name = h.name /\ k.flags = h.flags /\ k.dirty = h.dirty
BY DEF NoFirst, Handle

LEMMA ShortenShape ==
  ASSUME NEW s, s.ok, NEW length, NEW q, q = CutAt(s, length), q \in State
  PROVE  Shorten(s, length) = IF q.ok THEN Sync(Holding(q, Shortened(q.h, length))) ELSE q
<1> PICK k : k = Shortened(q.h, length)
  OBVIOUS
<1>1. [q EXCEPT !.h.size = length, !.h.dirty = TRUE] = [q EXCEPT !.h = k]
  BY DEF State, Shortened
<1> QED BY <1>1 DEF Shorten, Then, Holding

\* The file of the call can be cut to length units: the position is there.
Cuttable(s, x, c, length) ==
  /\ Inside(s, x) /\ x.f \in x.live /\ s.h.open /\ s.ok /\ OfFile(s, x, c) /\ c # <<>> /\ Len(c) <= ClusterCount
  /\ length \in Nat /\ length <= s.h.size /\ s.h.pos = length
  /\ s.h.cur = 0 <=> length = 0
\* The handle after the cut of the chain.
LikeCut(h, k) == /\ k \in Handle /\ k.cur = h.cur /\ k.pos = h.pos /\ k.size = h.size /\ k.slot = h.slot
                 /\ k.name = h.name /\ k.flags = h.flags /\ k.first \in {0, h.first}
\* The chain that is left.
Left(c, e, cur, length) == IF length = 0 THEN e = <<>> ELSE HeadOf(c, e, cur)
\* The chain is cut at the place of the handle.
LEMMA CutFacts ==
  ASSUME NEW s, NEW x, NEW c, NEW length, Cuttable(s, x, c, length), NEW q, q = CutAt(s, length)
  PROVE  /\ Cutting(s, q, c) /\ LikeCut(s.h, q.h)
         /\ q.ok => \E e : CutDone(s, q, c, e, q.h) /\ Left(c, e, s.h.cur, length)
<1>1. /\ s.h \in Handle /\ Sound(s) /\ s.ok /\ c \in Seq(Clusters) /\ Once(c) /\ c # <<>> /\ Len(c) <= ClusterCount
      /\ Linked(Table(Seen(s)), s.h.first, c) /\ Stands(s.h, c, x.f \in Trusted(s, x))
  BY OpenChain DEF Cuttable, OfFile
<1>2. CASE length = 0
  <2>1. q = FreeAll(s)
    BY <1>2 DEF CutAt
  <2>2. Cutting(s, q, c) /\ (q.ok => CutDone(s, q, c, <<>>, NoFirst(s.h)))
    BY <1>1, <2>1, CutAll
  <2>3. \A h \in {s.h, NoFirst(s.h)} : LikeCut(s.h, h)
    BY <1>1, NoFirstFacts DEF LikeCut
  <2>4. LikeCut(s.h, q.h)
    BY <2>2, <2>3 DEF Cutting
  <2>5. q.ok => q.h = NoFirst(s.h)
    BY <2>2 DEF CutDone
  <2> QED BY <1>2, <2>2, <2>4, <2>5 DEF Left
<1>3. CASE length # 0
  <2>1. s.h.cur \in {EOC} \cup Ran(c)
    BY <1>1, <1>3 DEF Stands, Cuttable
  <2>2. Cutting(s, q, c) /\ (q.ok => \E e : CutDone(s, q, c, e, s.h) /\ HeadOf(c, e, s.h.cur))
    BY <1>1, <1>3, <2>1, CutBehind
  <2>3. \A h \in {s.h, NoFirst(s.h)} : LikeCut(s.h, h)
    BY <1>1, NoFirstFacts DEF LikeCut
  <2>4. LikeCut(s.h, q.h)
    BY <2>2, <2>3 DEF Cutting
  <2>5. q.ok => \E e : CutDone(s, q, c, e, q.h) /\ HeadOf(c, e, s.h.cur)
    BY <2>2 DEF CutDone
  <2> QED BY <1>3, <2>2, <2>4, <2>5 DEF Left
<1> QED BY <1>2, <1>3

\* What a call on a handle does to the files when it stops half-way, whatever it did.
Halved(s, r, x, c) ==
  /\ Sound(r) /\ (Twin(s) => Twin(r)) /\ (r.ok => s.ok) /\ r.start \in Startable /\ HandleOk(x.f, r.h)
  /\ Beside(x.f, s.h.slot, Root(Seen(s)), Root(Seen(r))) /\ Within(Table(Seen(s)), Table(Seen(r)), Ran(c))
  /\ CardWithin(s, r, Ran(c), x.f, s.h.slot)
LEMMA HalvedDropped ==
  ASSUME NEW s, NEW x, Inside(s, x), x.f \in x.live, s.h.open, NEW c, OfFile(s, x, c), NEW r, Halved(s, r, x, c)
  PROVE  /\ Inside(r, Dropped(x))
         /\ \A g \in x.live \ {x.f} : x.file[g].open => x.file[g].slot \in SlotNumbers \ {s.h.slot}
<1> PICK slot : slot = s.h.slot
  OBVIOUS
<1>1. slot \in SlotNumbers /\ Root(Seen(s))[slot].name = x.f
  BY OpenChain DEF HandleOk, Handle, Entered
<1>2. \A g \in x.live \ {x.f} : x.file[g].open => x.file[g].slot # slot
  BY <1>1, OtherSlots
<1>3. \A g \in x.live \ {x.f} : x.file[g].open => x.file[g].slot \in SlotNumbers \ {slot}
  BY <1>2 DEF Inside, HandleOk, Handle, Contexts
<1>4. /\ Inside(s, x) /\ x.f \in x.live /\ OfFile(s, x, c)
      /\ Sound(r) /\ (Twin(s) => Twin(r)) /\ (r.ok => s.ok) /\ r.start \in Startable /\ HandleOk(x.f, r.h)
      /\ Beside(x.f, slot, Root(Seen(s)), Root(Seen(r))) /\ Within(Table(Seen(s)), Table(Seen(r)), Ran(c))
      /\ CardWithin(s, r, Ran(c), x.f, slot)
  BY DEF Halved
<1>5. Inside(r, Dropped(x))
  BY ONLY <1>3, <1>4, InsideDropped
<1> QED BY <1>3, <1>5

LEMMA CuttingHalved ==
  ASSUME NEW s, NEW x, NEW c, NEW length, Cuttable(s, x, c, length), NEW q, Cutting(s, q, c), LikeCut(s.h, q.h)
  PROVE  Halved(s, q, x, c)
<1>1. HandleOk(x.f, q.h)
  BY DEF Cuttable, Inside, HandleOk, LikeCut
<1>2. RootOk(Root(Seen(s))) /\ s.start \in Startable
  BY DEF Cuttable, Inside, Sight, Live
<1>3. Beside(x.f, s.h.slot, Root(Seen(s)), Root(Seen(q)))
  BY <1>2, BesideSame DEF Cutting
<1>4. CardWithin(s, q, Ran(c), x.f, s.h.slot)
  <2>1. Beside(x.f, s.h.slot, Root(Seen(s)), Root(Seen(s)))
    BY <1>2, BesideSame
  <2> QED BY <2>1 DEF Cutting, CardAlters, CardWithin
<1>5. q.ok => s.ok
  BY DEF Cuttable
<1> QED BY <1>1, <1>2, <1>3, <1>4, <1>5 DEF Cutting, Halved

\* The same cache, in a call that holds another handle.
Beneath(q, p) == /\ Sound(p) /\ (Twin(q) => Twin(p)) /\ (p.ok => q.ok) /\ p.start = q.start
                 /\ Seen(p) = Seen(q) /\ Main(p.card) = Main(q.card)
\* Then the entry of the file is stored, or fails to be.
LEMMA HalvedStamp ==
  ASSUME NEW s, NEW x, x.f \in Names, NEW c, NEW q, Halved(s, q, x, c), NEW slot, slot = s.h.slot, slot \in SlotNumbers,
         Root(Seen(q))[slot].name = x.f, NEW p, Beneath(q, p), HandleOk(x.f, p.h), NEW k, HandleOk(x.f, k),
         NEW v, v \in DirEntry, v.name \in {x.f, "deleted"}, v.first \in {0} \cup Clusters, v.size <= MaxSize,
         NEW r, Stamped(p, r, slot, v, k)
  PROVE  Halved(s, r, x, c)
<1> PICK f, root, here, dir : f = x.f /\ root = Root(Seen(s)) /\ here = Root(Seen(q)) /\ dir = Entering(here, slot, v)
  OBVIOUS
<1>1. RootOk(here) /\ Beside(f, slot, root, here)
  BY DEF Halved, Beside
<1>2. Beside(f, slot, here, dir)
  BY <1>1, BesideEntry
<1>3. Beside(f, slot, root, dir)
  BY <1>1, <1>2, BesideTwice
<1>4. Root(Seen(p)) = here /\ Table(Seen(p)) = Table(Seen(q))
  BY DEF Beneath
<1>5. Beside(f, slot, root, Root(Seen(r))) /\ Table(Seen(r)) = Table(Seen(q))
  BY <1>1, <1>3, <1>4 DEF Stamped
<1>6. HandleOk(x.f, r.h)
  BY DEF Stamped
<1>7. CardWithin(s, r, Ran(c), f, slot)
  <2>1. CASE Main(r.card) = Main(p.card)
    BY <2>1 DEF Beneath, Halved, CardWithin
  <2>2. CASE Table(Main(r.card)) = Table(Seen(p)) /\ Root(Main(r.card)) \in {Root(Seen(p)), Entering(Root(Seen(p)), slot, v)}
    <3>1. Beside(f, slot, root, Root(Main(r.card)))
      BY <1>1, <1>3, <1>4, <2>2
    <3>2. Within(Table(Seen(s)), Table(Main(r.card)), Ran(c))
      BY <1>4, <2>2 DEF Halved
    <3> QED BY <3>1, <3>2 DEF CardWithin
  <2> QED BY <2>1, <2>2 DEF Stamped
<1>8. Sound(r) /\ (Twin(s) => Twin(r)) /\ (r.ok => s.ok) /\ r.start \in Startable
  BY DEF Halved, Stamped, Beneath, GoesOn
<1> QED BY <1>5, <1>6, <1>7, <1>8 DEF Halved

\* The file after its chain and its entry were shortened.
LEMMA ShortFile ==
  ASSUME NEW h \in Handle, NEW c \in Seq(Clusters), Once(c), c # <<>>, NEW exact, Stands(h, c, exact),
         NEW length \in Nat, h.pos = length, h.cur = 0 <=> length = 0,
         NEW k, LikeCut(h, k) \/ (k \in Handle /\ k.cur = h.cur /\ k.pos = h.pos), k.open, k.size = length,
         NEW e \in Seq(Clusters), Left(c, e, h.cur, length), NEW u, Linked(u, k.first, e),
         NEW dir, dir[k.slot] = Entry(k), NEW f, NEW lo, NEW ex, NEW fu,
         lo => length = 0 \/ exact, ex => lo
  PROVE  FileOk(u, dir, f, k, e, lo, ex, fu)
<1>1. k \in Handle /\ k.cur = h.cur /\ k.pos = length
  BY DEF LikeCut
<1>2. FirstIn(dir, f, k) = k.first /\ SizeIn(dir, f, k) = length
  BY DEF FirstIn, SizeIn
<1>3. CASE length = 0
  <2>1. e = <<>> /\ k.cur = 0 /\ k.pos = 0 /\ k.first = 0
    BY <1>1, <1>3 DEF Left, Linked
  <2>2. Entered(k, dir[k.slot])
    BY <1>3, <2>1 DEF Entry, Entered
  <2>3. Stands(k, e, ex)
    BY <2>1 DEF Stands
  <2>4. 0 <= Len(e) * ClusterUnits
    BY <2>1, Units
  <2> QED BY <1>2, <1>3, <2>1, <2>2, <2>3, <2>4 DEF FileOk
<1>4. CASE length # 0
  <2>1. /\ Len(e) \in 1 .. Len(c) /\ (\A i \in 1 .. Len(e) : e[i] = c[i]) /\ h.cur = c[Len(e)]
    BY <1>4 DEF Left, HeadOf
  <2>2. e # <<>> /\ h.cur = e[Len(e)] /\ h.cur \in Ran(e) /\ Len(e) \in 1 .. Len(e)
    BY <2>1 DEF Ran
  <2>3. exact => Nth(length) = Len(e)
    <3>1. exact => Nth(length) \in 1 .. Len(c) /\ c[Nth(length)] = c[Len(e)]
      BY <1>4, <2>1 DEF Stands
    <3> QED BY <2>1, <3>1 DEF Once
  <2>4. exact => length <= Len(e) * ClusterUnits
    BY <1>4, <2>3, NthFacts
  <2>5. e[1] \in Clusters /\ k.first = e[1]
    BY <2>2 DEF Linked
  <2>6. k.first # 0
    BY <2>5 DEF Clusters
  <2>7. Entered(k, dir[k.slot])
    <3>1. k.size <= k.size
      BY <1>2
    <3> QED BY <2>6, <3>1 DEF Entry, Entered
  <2>8. Stands(k, e, ex)
    BY <1>1, <1>4, <2>2, <2>3 DEF Stands
  <2> QED BY <1>2, <1>4, <2>2, <2>4, <2>5, <2>7, <2>8 DEF FileOk
<1> QED BY <1>3, <1>4

LEMMA HalvedAnew ==
  ASSUME NEW s, NEW x, Inside(s, x), x.f \in x.live, s.h.open, NEW c, OfFile(s, x, c), NEW r, Halved(s, r, x, c),
         NEW z, Above(x, z), Main(r.card) = Seen(r), NEW e, e \in Seq(Clusters), Once(e), Ran(e) \subseteq Ran(c),
         z.full /\ r.ok => \A a \in Clusters : Table(Seen(r))[a] # 0 => a \in Ran(e) \/ (Table(Seen(s))[a] # 0 /\ a \notin Ran(c)),
         FileOk(Table(Seen(r)), Root(Seen(r)), x.f, r.h, e, x.f \in z.long, x.f \in Trusted(r, z), z.full /\ r.ok)
  PROVE  Inside(r, z)
<1> PICK slot : slot = s.h.slot
  OBVIOUS
<1>1. \A g \in x.live \ {x.f} : x.file[g].open => x.file[g].slot \in SlotNumbers \ {slot}
  BY HalvedDropped
<1>2. /\ Sound(r) /\ (Twin(s) => Twin(r)) /\ (r.ok => s.ok) /\ r.start \in Startable /\ HandleOk(x.f, r.h)
      /\ Beside(x.f, slot, Root(Seen(s)), Root(Seen(r))) /\ Within(Table(Seen(s)), Table(Seen(r)), Ran(c))
  BY DEF Halved
<1>3. \A a \in Ran(e) : a \in Ran(c) \/ Table(Seen(s))[a] = 0
  OBVIOUS
<1>4. /\ Inside(s, x) /\ Above(x, z) /\ OfFile(s, x, c) /\ Main(r.card) = Seen(r) /\ e \in Seq(Clusters) /\ Once(e)
      /\ (z.full /\ r.ok => \A a \in Clusters : Table(Seen(r))[a] # 0 => a \in Ran(e) \/ (Table(Seen(s))[a] # 0 /\ a \notin Ran(c)))
      /\ FileOk(Table(Seen(r)), Root(Seen(r)), x.f, r.h, e, x.f \in z.long, x.f \in Trusted(r, z), z.full /\ r.ok)
  OBVIOUS
<1> QED BY ONLY <1>1, <1>2, <1>3, <1>4, InsideAnew

\* What truncate() and remove() lead to: z when they succeed, x when they fail of
\* themselves, and nothing known of the file when they are interrupted.
Outcome(r, x, z) ==
  (r.ok => Inside(r, z)) /\ (~r.ok /\ ~r.blown => Inside(r, x)) /\ Inside(r, Dropped(x))
\* The handle of a file that has length units, and stands there.
Cut2(s, r, length) ==
  /\ r.h.open /\ (r.ok => s.ok)
  /\ r.ok => r.h.size = length /\ r.h.pos = length /\ r.h.cur = s.h.cur /\ r.h.slot = s.h.slot
LEMMA CutFailed ==
  ASSUME NEW s, NEW x, NEW c, NEW length, Cuttable(s, x, c, length), NEW z, NEW q, Cutting(s, q, c), LikeCut(s.h, q.h), ~q.ok
  PROVE  Outcome(q, x, z) /\ Cut2(s, q, length)
<1>1. Inside(q, Dropped(x))
  BY CuttingHalved, HalvedDropped DEF Cuttable
<1>2. ~q.blown => Inside(q, x)
  BY InsideSame DEF Cutting, Cuttable
<1>3. q.h.open
  BY DEF LikeCut, Handle
<1> QED BY <1>1, <1>2, <1>3 DEF Outcome, Cut2

\* truncate() keeps the invariant of a call.
LEMMA InsideShorten ==
  ASSUME NEW s, NEW x, NEW c, NEW length, Cuttable(s, x, c, length), NEW z, Above(x, z),
         length = 0 \/ (x.f \in z.long => x.f \in x.exact), NEW r, r = Shorten(s, length)
  PROVE  Outcome(r, x, z) /\ Cut2(s, r, length)
<1> PICK q : q = CutAt(s, length)
  OBVIOUS
<1>1. Cutting(s, q, c) /\ LikeCut(s.h, q.h) /\ (q.ok => \E e : CutDone(s, q, c, e, q.h) /\ Left(c, e, s.h.cur, length))
  BY CutFacts
<1>2. /\ Inside(s, x) /\ x.f \in x.live /\ s.h.open /\ s.ok /\ OfFile(s, x, c) /\ c # <<>> /\ length \in Nat
      /\ length <= s.h.size /\ s.h.pos = length /\ (s.h.cur = 0 <=> length = 0) /\ x.f \in Names
  BY DEF Cuttable, Inside, Contexts
<1>3. r = IF q.ok THEN Sync(Holding(q, Shortened(q.h, length))) ELSE q
  <2>1. q \in State
    BY <1>1 DEF Cutting, Sound
  <2> QED BY <1>2, <2>1, ShortenShape
<1>4. CASE ~q.ok
  BY <1>1, <1>3, <1>4, CutFailed
<1>5. CASE q.ok
  <2> PICK k, p, slot, v, m : k = Shortened(q.h, length) /\ p = Holding(q, k) /\ slot = s.h.slot /\ v = Entry(k) /\ m = Clean(k)
    OBVIOUS
  <2>1. r = Sync(p)
    BY <1>3, <1>5
  <2>2. /\ k \in Handle /\ k.cur = s.h.cur /\ k.pos = s.h.pos /\ k.first \in {0, s.h.first} /\ k.first = q.h.first
        /\ k.size = length /\ k.slot = s.h.slot /\ k.name = s.h.name /\ k.flags = s.h.flags /\ k.dirty
    BY <1>1, <1>2, ShortenedFacts DEF LikeCut
  <2>3. m \in Handle /\ LikeH(k, m) /\ ~m.dirty
    <3>1. k \in Handle /\ m = Clean(k)
      BY <2>2
    <3>2. LikeH(k, m) /\ ~m.dirty
      BY ONLY <3>1, CleanFacts
    <3> QED BY <3>2 DEF LikeH
  <2>4. s.h \in Handle /\ HandleOk(x.f, s.h) /\ Stands(s.h, c, x.f \in x.exact) /\ Entered(s.h, Root(Seen(s))[slot])
    BY <1>2, OpenChain DEF Trusted
  <2>5. HandleOk(x.f, k) /\ HandleOk(x.f, m)
    <3>1. /\ s.h.name = x.f /\ s.h.cur <= EOC /\ s.h.first \in {0} \cup Clusters /\ s.h.size <= MaxSize /\ s.h.size \in Nat
      BY <1>2, <2>4 DEF HandleOk, Handle
    <3>2. k.name = x.f /\ k.cur <= EOC /\ k.first \in {0} \cup Clusters
      BY <2>2, <3>1
    <3>3. k.size <= MaxSize
      BY <1>2, <2>2, <3>1, FileAssumption
    <3>4. HandleOk(x.f, k)
      BY <2>2, <3>2, <3>3 DEF HandleOk
    <3> QED BY <2>3, <3>2, <3>3, <3>4 DEF HandleOk, LikeH
  <2>6. v \in DirEntry /\ v.name = x.f /\ v.first = k.first /\ v.size = length /\ v.first \in {0} \cup Clusters /\ v.size <= MaxSize
    <3>1. v = [name |-> k.name, first |-> k.first, size |-> k.size]
      BY DEF Entry
    <3>2. k.name = x.f /\ k.first \in Nat
      BY <2>2, <2>4 DEF HandleOk, Handle
    <3>3. k.first \in {0} \cup Clusters /\ k.size <= MaxSize
      BY <2>2, <2>5 DEF HandleOk, Handle
    <3> QED BY <1>2, <2>2, <3>1, <3>2, <3>3 DEF DirEntry
  <2>7. Sound(q) /\ q \in State /\ Root(Seen(q)) = Root(Seen(s))
    BY <1>1 DEF Cutting, Sound
  <2>8. /\ Serves(q, p) /\ Seen(p) = Seen(q) /\ SameCache(q, p) /\ p.h = k /\ p.ok /\ p.blown = q.blown /\ p.start = q.start
    <3>1. k \in Handles /\ Sound(q) /\ p = Holding(q, k)
      BY <2>2, <2>7 DEF Handles
    <3>2. /\ Serves(q, p) /\ Seen(p) = Seen(q) /\ SameCache(q, p) /\ p.h = k /\ p.ok = q.ok /\ p.blown = q.blown /\ p.start = q.start
      BY ONLY <3>1, HoldingServes
    <3> QED BY <1>5, <3>2
  <2>9. Sound(p) /\ Beneath(q, p)
    BY <1>5, <2>8 DEF Serves, Beneath, SameCache
  <2>10. Stamped(p, r, slot, v, m)
    <3>1. Sound(p) /\ p.h \in Handle /\ p.h.dirty /\ p.h.slot = slot /\ Entry(p.h) = v /\ Clean(p.h) = m /\ p.ok
      BY <2>2, <2>8, <2>9
    <3> QED BY <2>1, <2>6, <3>1, SyncStamps
  <2>11. Halved(s, q, x, c)
    BY <1>1, CuttingHalved
  <2>12. slot \in SlotNumbers /\ Root(Seen(q))[slot].name = x.f
    BY <2>4, <2>7 DEF HandleOk, Handle, Entered
  <2>13. Halved(s, r, x, c)
    <3>1. HandleOk(x.f, p.h)
      BY <2>5, <2>8
    <3>2. /\ x.f \in Names /\ Halved(s, q, x, c) /\ slot = s.h.slot /\ slot \in SlotNumbers /\ Root(Seen(q))[slot].name = x.f
          /\ Beneath(q, p) /\ HandleOk(x.f, m) /\ v \in DirEntry /\ v.name \in {x.f, "deleted"}
          /\ v.first \in {0} \cup Clusters /\ v.size <= MaxSize /\ Stamped(p, r, slot, v, m)
      BY <1>2, <2>5, <2>6, <2>9, <2>10, <2>11, <2>12
    <3> QED BY ONLY <3>1, <3>2, HalvedStamp
  <2>14. Inside(r, Dropped(x))
    BY <1>2, <2>13, HalvedDropped
  <2>15. ~Stuck(p) /\ (r.ok \/ r.blown)
    <3> PICK e : CutDone(s, q, c, e, q.h)
      BY <1>1, <1>5
    <3>1. ~Stuck(p)
      BY <2>8 DEF CutDone, SameCache, Stuck
    <3> QED BY <2>8, <2>10, <3>1 DEF Stamped, Certain
  <2>16. r.h.open /\ (r.ok => r.h = m)
    <3>1. k.open /\ m.open
      BY <2>2, <2>3 DEF Handle
    <3> QED BY <2>8, <2>10, <3>1 DEF Stamped
  <2>17. r.ok => Inside(r, z)
    <3> SUFFICES ASSUME r.ok PROVE Inside(r, z)
      OBVIOUS
    <3> PICK e : CutDone(s, q, c, e, q.h) /\ Left(c, e, s.h.cur, length)
      BY <1>1, <1>5
    <3>1. /\ e \in Seq(Clusters) /\ Once(e) /\ Ran(e) \subseteq Ran(c) /\ Linked(Table(Seen(q)), k.first, e)
          /\ \A a \in Clusters : Table(Seen(q))[a] # 0 => a \in Ran(e) \/ (Table(Seen(s))[a] # 0 /\ a \notin Ran(c))
      BY <2>2 DEF CutDone
    <3>2. Table(Seen(r)) = Table(Seen(q)) /\ Main(r.card) = Seen(r) /\ r.h = m
      BY <2>8, <2>10 DEF Stamped
    <3>3. Root(Seen(r))[slot] = v
      <4>1. Root(Seen(r)) = Entering(Root(Seen(q)), slot, v)
        BY <2>8, <2>10 DEF Stamped
      <4>2. Root(Seen(q)) \in Roots
        BY <2>7, <1>2 DEF Inside, Sight, Live, RootOk
      <4> QED BY <2>12, <4>1, <4>2 DEF Entering, Roots
    <3> PICK u, dir, f, lo, ex, fu, exact : /\ u = Table(Seen(r)) /\ dir = Root(Seen(r)) /\ f = x.f /\ lo = (x.f \in z.long)
                                 /\ ex = (x.f \in Trusted(r, z)) /\ fu = (z.full /\ r.ok) /\ exact = (x.f \in x.exact)
      OBVIOUS
    <3>4. FileOk(u, dir, f, m, e, lo, ex, fu)
      <4>1. lo => length = 0 \/ exact
        OBVIOUS
      <4>2. ex => lo
        BY DEF Above, Trusted
      <4>3. m.open /\ m.size = length /\ m.cur = s.h.cur /\ m.pos = s.h.pos /\ m.slot = slot /\ m.first = k.first
        BY <2>2, <2>3 DEF LikeH, Handle
      <4>4. dir[m.slot] = Entry(m)
        BY <2>3, <3>3, <4>3 DEF LikeH, Entry
      <4>5. Linked(u, m.first, e)
        BY <3>1, <3>2, <4>3
      <4>6. s.h \in Handle /\ c \in Seq(Clusters) /\ Once(c) /\ c # <<>> /\ Stands(s.h, c, exact)
        BY <1>2, <2>4 DEF OfFile
      <4> PICK h : h = s.h
        OBVIOUS
      <4>7. /\ h \in Handle /\ c \in Seq(Clusters) /\ Once(c) /\ c # <<>> /\ Stands(h, c, exact) /\ length \in Nat
            /\ h.pos = length /\ (h.cur = 0 <=> length = 0) /\ m \in Handle /\ m.cur = h.cur /\ m.pos = h.pos
            /\ m.open /\ m.size = length /\ e \in Seq(Clusters) /\ Left(c, e, h.cur, length)
        BY <1>2, <2>3, <3>1, <4>3, <4>6
      <4> QED BY ONLY <4>1, <4>2, <4>4, <4>5, <4>7, ShortFile
    <3>5. FileOk(Table(Seen(r)), Root(Seen(r)), x.f, r.h, e, x.f \in z.long, x.f \in Trusted(r, z), z.full /\ r.ok)
      BY <3>2, <3>4
    <3>6. z.full /\ r.ok => \A a \in Clusters : Table(Seen(r))[a] # 0 => a \in Ran(e) \/ (Table(Seen(s))[a] # 0 /\ a \notin Ran(c))
      BY <3>1, <3>2
    <3>7. /\ Inside(s, x) /\ x.f \in x.live /\ s.h.open /\ OfFile(s, x, c) /\ Halved(s, r, x, c)
          /\ Above(x, z) /\ Main(r.card) = Seen(r) /\ e \in Seq(Clusters) /\ Once(e) /\ Ran(e) \subseteq Ran(c)
      BY <1>2, <2>13, <3>1, <3>2
    <3> QED BY ONLY <3>5, <3>6, <3>7, HalvedAnew
  <2>18. Cut2(s, r, length)
    BY <1>2, <2>2, <2>3, <2>16 DEF Cut2, LikeH
  <2> QED BY <2>14, <2>15, <2>17, <2>18 DEF Outcome
<1> QED BY <1>4, <1>5

LEMMA SeekZero ==
  ASSUME NEW s, s \in State, s.h \in Handle, NEW m, m = SeekSet(s, 0)
  PROVE  m.ok = s.ok /\ m.h.cur = 0 /\ m.h.pos = 0
<1>0. s.h.size \in Nat /\ s.h.cur \in Nat /\ s.h.pos \in Nat
  BY HandleTypes
<1> PICK pos : pos = 0
  OBVIOUS
<1>1. ~(pos > s.h.size) /\ pos = 0 /\ m = SeekSet(s, pos)
  BY <1>0
<1>2. m = Holding(s, Turned(s.h, 0, 0))
  BY <1>0, <1>1 DEF SeekSet, Holding, Turned, State, Handle
<1>3. Moved(s.h, 0, 0, Turned(s.h, 0, 0))
  BY TurnedFacts
<1> QED BY <1>2, <1>3 DEF Holding, State, Moved

\* The position is brought to the length.
LEMMA SeekCuttable ==
  ASSUME NEW s, NEW x, Plain(x), Inside(s, x), s.h.open, Fit(s, x), s.h.size # 0,
         NEW length, length \in Nat, length <= s.h.size, NEW m, m = SeekSet(s, length)
  PROVE  /\ Inside(m, x) /\ m.h.open /\ (m.ok => s.ok) /\ m.h.slot = s.h.slot
         /\ m.ok => \E c : Cuttable(m, x, c, length)
<1>1. Roams(s, m, x, length)
  BY FitSettled, InsideSeek DEF Plain
<1>2. /\ Inside(m, x) /\ m.h \in Handle /\ m.h.open /\ m.h.size = s.h.size /\ m.h.slot = s.h.slot /\ (m.ok => s.ok)
      /\ (m.ok => m.h.pos = length)
  BY <1>1, CarriedFacts DEF Roams, Near, GoesOn
<1>3. ASSUME m.ok PROVE \E c : Cuttable(m, x, c, length)
  <2> PICK c : OfFile(m, x, c) /\ Len(c) <= ClusterCount
    BY <1>2, InsideChain DEF Plain
  <2>1. (m.h.size > 0 => c # <<>>) /\ Stands(m.h, c, x.f \in Trusted(m, x))
    BY <1>2, OpenChain
  <2>2. m.h.size > 0
    <3>1. m.h.size \in Nat /\ m.h.size # 0
      BY <1>2 DEF Handle
    <3> QED BY <3>1
  <2>3. m.h.cur = 0 => length = 0
    BY <1>2, <1>3, <2>1 DEF Stands
  <2>4. length = 0 => m.h.cur = 0
    <3>1. s \in State /\ s.h \in Handle
      BY OpenChain, InsideChain DEF Inside, Sound, Plain
    <3> QED BY <3>1, SeekZero
  <2> QED BY <1>2, <1>3, <2>1, <2>2, <2>3, <2>4 DEF Cuttable, Plain
<1> QED BY <1>2, <1>3

Sequel(s, length, pos) == Then(Shorten(s, length), LAMBDA r : SeekSet(r, pos))
LEMMA TruncateShape ==
  ASSUME NEW s, NEW length, NEW m, m = SeekSet(s, length)
  PROVE  \/ Truncate(s, length) = Fail(s)
         \/ s.ok /\ s.h.size = 0 /\ ~(length > s.h.size) /\ Truncate(s, length) = s
         \/ /\ s.ok /\ s.h.size # 0 /\ ~(length > s.h.size)
            /\ Truncate(s, length) = IF m.ok THEN Sequel(m, length, Least(s.h.pos, length)) ELSE m
BY DEF Truncate, Then, Sequel

\* z says of the file of the call at least what x says.
Beyond(x, z) == Above(x, z) /\ Less(z, x) /\ Plain(z) /\ Plain(x) /\ x.exact \subseteq x.long
LEMMA DroppedInside ==
  ASSUME NEW s, NEW x, Inside(s, x)
  PROVE  Inside(s, Dropped(x))
<1>1. Less(x, Dropped(x))
  BY DroppedFacts DEF Inside
<1> QED BY <1>1, InsideLess

\* After the file was cut the handle moves to the position.
LEMMA SequelFacts ==
  ASSUME NEW x, NEW z, Beyond(x, z), NEW m, NEW c, NEW length, Cuttable(m, x, c, length),
         length = 0 \/ (x.f \in z.long => x.f \in x.exact),
         NEW pos, pos \in Nat, pos <= length, NEW r, r = Sequel(m, length, pos)
  PROVE  /\ Outcome(r, x, z) /\ r.h.open /\ (r.ok => m.ok)
         /\ r.ok => r.h.size = length /\ r.h.pos <= length /\ r.h.slot = m.h.slot
<1> PICK n : n = Shorten(m, length)
  OBVIOUS
<1>1. Outcome(n, x, z) /\ Cut2(m, n, length)
  BY InsideShorten DEF Beyond
<1>2. r = IF n.ok THEN SeekSet(n, pos) ELSE n
  BY DEF Sequel, Then
<1>3. CASE ~n.ok
  BY <1>1, <1>2, <1>3 DEF Cut2
<1>4. CASE n.ok
  <2>1. Inside(n, z) /\ z.f = x.f /\ z.f \in z.live /\ n.h.open /\ n.h.size = length /\ n.h.pos = length
        /\ n.h.slot = m.h.slot /\ m.ok /\ length \in Nat
    BY <1>1, <1>4 DEF Outcome, Cut2, Beyond, Plain, Above, Cuttable
  <2>2. Settled(n, z)
    BY <2>1, <1>1, <1>4 DEF Settled, Cut2, Cuttable
  <2>3. Roams(n, r, z, pos)
    BY <1>2, <1>4, <2>1, <2>2, InsideSeek
  <2>4. Serves(n, r) /\ r.h.open /\ r.h.size = length /\ r.h.slot = m.h.slot /\ Inside(r, z) /\ (r.ok => r.h.pos = pos)
    BY <2>1, <2>3, CarriedFacts DEF Roams, Near
  <2>5. Inside(r, x)
    BY <2>4, InsideLess DEF Beyond
  <2>6. Inside(r, Dropped(x))
    BY <2>5, DroppedInside
  <2> QED BY <2>1, <2>4, <2>5, <2>6 DEF Outcome
<1> QED BY <1>3, <1>4

\* truncate() leaves everything in order, ...
LEMMA InsideTruncate ==
  ASSUME NEW s, NEW x, NEW z, Beyond(x, z), Inside(s, x), s.h.open, Fit(s, x),
         NEW length, length \in Nat, length = 0 \/ (x.f \in z.long => x.f \in x.exact),
         s.ok /\ s.h.size = 0 => Inside(s, z) /\ s.h.pos = 0, NEW r, r = Truncate(s, length)
  PROVE  /\ Outcome(r, x, z) /\ r.h.open /\ (r.ok => s.ok)
         /\ r.ok => r.h.size = length /\ r.h.pos <= length /\ r.h.slot = s.h.slot
<1> PICK m, pos : m = SeekSet(s, length) /\ pos = Least(s.h.pos, length)
  OBVIOUS
<1>0. s.h \in Handle /\ s.h.size \in Nat /\ s.h.pos \in Nat /\ Sound(s) /\ pos \in Nat /\ pos <= length
  <2>1. s.h \in Handle /\ Sound(s)
    BY OpenChain, InsideChain DEF Beyond, Plain
  <2>2. s.h.size \in Nat /\ s.h.pos \in Nat
    BY <2>1, HandleTypes
  <2> QED BY <2>1, <2>2 DEF Least
<1>1. \/ r = Fail(s)
      \/ s.ok /\ s.h.size = 0 /\ ~(length > s.h.size) /\ r = s
      \/ /\ s.ok /\ s.h.size # 0 /\ ~(length > s.h.size)
         /\ r = IF m.ok THEN Sequel(m, length, pos) ELSE m
  BY TruncateShape
<1>2. CASE r = Fail(s)
  <2>1. Keeps(s, r) /\ ~r.ok
    BY <1>0, <1>2, FailKeeps
  <2>2. Serves(s, r) /\ r.h = s.h
    BY <2>1, KeepsServes DEF Keeps, Leads
  <2>3. Outcome(r, x, z)
    BY <2>1, <2>2, InsideSame, DroppedInside DEF Outcome
  <2> QED BY <2>1, <2>2, <2>3
<1>3. CASE s.ok /\ s.h.size = 0 /\ r = s /\ length = 0
  <2>1. Outcome(r, x, z)
    BY <1>3, DroppedInside DEF Outcome
  <2> QED BY <1>3, <2>1
<1>4. CASE s.ok /\ s.h.size # 0 /\ ~(length > s.h.size) /\ r = IF m.ok THEN Sequel(m, length, pos) ELSE m
  <2>1. length <= s.h.size
    BY <1>0, <1>4
  <2>2. /\ Inside(m, x) /\ m.h.open /\ (m.ok => s.ok) /\ m.h.slot = s.h.slot
        /\ m.ok => \E c : Cuttable(m, x, c, length)
    BY <1>4, <2>1, SeekCuttable DEF Beyond
  <2>3. CASE ~m.ok
    BY <1>4, <2>2, <2>3, DroppedInside DEF Outcome
  <2>4. CASE m.ok
    <3> PICK c : Cuttable(m, x, c, length)
      BY <2>2, <2>4
    <3>1. r = Sequel(m, length, pos)
      BY <1>4, <2>4
    <3>2. /\ Outcome(r, x, z) /\ r.h.open /\ (r.ok => m.ok)
          /\ r.ok => r.h.size = length /\ r.h.pos <= length /\ r.h.slot = m.h.slot
      BY <1>0, <3>1, SequelFacts
    <3> QED BY <2>2, <3>2
  <2> QED BY <2>3, <2>4
<1>5. s.h.size = 0 /\ ~(length > s.h.size) => length = 0
  BY <1>0
<1> QED BY <1>1, <1>2, <1>3, <1>4, <1>5

-----------------------------------------------------------------------------
(* remove() *)

\* A handle is given up.
LEMMA InsideClosing ==
  ASSUME NEW r, NEW x, Inside(r, x),
         x.full /\ r.ok /\ r.h.open => ~r.h.dirty /\ (r.h.size = 0 => r.h.cur = 0), NEW q, q = Holding(r, Closed)
  PROVE  Inside(q, x) /\ q.h = Closed /\ q.ok = r.ok /\ q.blown = r.blown /\ q.start = r.start /\ SameCache(r, q)
<1>1. /\ Serves(r, q) /\ Seen(q) = Seen(r) /\ SameCache(r, q) /\ q.h = Closed /\ q.ok = r.ok /\ q.blown = r.blown /\ q.start = r.start
  <2>1. Sound(r) /\ Closed \in Handles
    BY DEF Inside, Handles
  <2> PICK h : h = Closed
    OBVIOUS
  <2>2. Sound(r) /\ h \in Handles /\ q = Holding(r, h)
    BY <2>1
  <2>3. /\ Serves(r, q) /\ Seen(q) = Seen(r) /\ SameCache(r, q) /\ q.h = h /\ q.ok = r.ok /\ q.blown = r.blown /\ q.start = r.start
    BY ONLY <2>2, HoldingServes
  <2> QED BY <2>3
<1>2. HandleOk(x.f, q.h) /\ ~q.h.open
  BY <1>1 DEF HandleOk, Closed
<1>3. CASE x.f \notin x.live
  BY <1>1, <1>2, <1>3, InsideServes
<1>4. CASE x.f \in x.live /\ r.h.open
  <2> PICK f, t, root, fl, ex, fu, h : /\ f = x.f /\ t = Table(Seen(r)) /\ root = Root(Seen(r)) /\ fl = Among(x, r.h)
                                   /\ ex = Trusted(r, x) /\ fu = (x.full /\ r.ok) /\ h = r.h
    OBVIOUS
  <2> PICK ch : Live(t, root, fl, ch, x.live, x.long, ex, fu)
    BY DEF Inside, Sight
  <2> PICK c, e : c = ch[f] /\ e = ShutChain(root, f, h, c)
    OBVIOUS
  <2>1. /\ f \in Names /\ x.live \subseteq Names /\ f \in x.live /\ x \in Contexts /\ HandleOk(f, h) /\ h \in Handles
        /\ fl[f] = h /\ fl \in [Names -> Handles]
    <3>1. f \in Names /\ x.live \subseteq Names /\ f \in x.live /\ x \in Contexts /\ HandleOk(f, h) /\ h \in Handles
      BY <1>4 DEF Inside, Contexts, Sound, State, Handles
    <3> QED BY <3>1, AmongFacts
  <2>2. /\ RootOk(root) /\ c \in Seq(Clusters) /\ Once(c) /\ FileOk(t, root, f, h, c, f \in x.long, f \in ex, fu) /\ t \in Tables
    BY <2>1 DEF Live, Disjoint, Once
  <2> PICK lo, xe, w : lo = (f \in x.long) /\ xe = (f \in ex) /\ w = fu
    OBVIOUS
  <2>3. w => fu /\ (h.open => ~h.dirty /\ (h.size = 0 => h.cur = 0))
    OBVIOUS
  <2>4. /\ e \in Seq(Clusters) /\ Ran(e) \subseteq Ran(c) /\ (e = c \/ e = <<>>)
        /\ FileOk(t, root, f, Closed, e, lo, xe, fu) /\ (h.open /\ ~h.dirty => e = c)
    <3>1. /\ RootOk(root) /\ f \in Names /\ HandleOk(f, h) /\ c \in Seq(Clusters) /\ FileOk(t, root, f, h, c, lo, xe, fu)
          /\ e = ShutChain(root, f, h, c)
      BY <2>1, <2>2
    <3>2. /\ e \in Seq(Clusters) /\ Ran(e) \subseteq Ran(c) /\ (e = c \/ e = <<>>)
          /\ FileOk(t, root, f, Closed, e, lo, xe, w) /\ (h.open /\ ~h.dirty => e = c)
      BY ONLY <2>3, <3>1, FileShut
    <3> QED BY <3>2
  <2>5. /\ Once(e) /\ \A a \in Ran(e) : a \in Ran(c) \/ t[a] = 0
    <3>1. Once(<<>>)
      BY DEF Once
    <3> QED BY <2>2, <2>4, <3>1
  <2>6. fu => h.open /\ ~h.dirty /\ \A a \in Clusters : t[a] # 0 => a \in Ran(e) \/ (t[a] # 0 /\ a \notin Ran(c))
    BY <1>4, <2>3, <2>4
  <2>7. Within(t, t, Ran(c))
    BY DEF Within
  <2> PICK gl, dh, k, li, lg : gl = [fl EXCEPT ![f] = k] /\ dh = [ch EXCEPT ![f] = e] /\ k = Closed /\ li = x.live /\ lg = x.long
    OBVIOUS
  <2>8. /\ Live(t, root, fl, ch, li, lg, ex, fu) /\ f \in li /\ li \subseteq Names /\ t \in Tables /\ RootOk(root) /\ k \in Handles
        /\ e \in Seq(Clusters) /\ lg \subseteq lg \cup {f} /\ ex \subseteq ex \cup {f} /\ (fu => fu) /\ Within(t, t, Ran(ch[f]))
        /\ \A g \in li \ {f} : EntryIn(root, g) = EntryIn(root, g) /\ (fl[g].open => root[fl[g].slot] = root[fl[g].slot])
    BY <1>4, <2>1, <2>2, <2>4, <2>7 DEF Handles
  <2>9. /\ Once(e) /\ (\A a \in Ran(e) : a \in Ran(ch[f]) \/ t[a] = 0) /\ FileOk(t, root, f, k, e, f \in lg, f \in ex, fu)
        /\ (fu => \A a \in Clusters : t[a] # 0 => a \in Ran(e) \/ (t[a] # 0 /\ a \notin Ran(ch[f])))
    BY <2>4, <2>5, <2>6
  <2>10. Live(t, root, [fl EXCEPT ![f] = k], [ch EXCEPT ![f] = e], li, lg, ex, fu)
    BY ONLY <2>8, <2>9, LiveStep
  <2>11. [fl EXCEPT ![f] = k] = Among(x, k)
    <3>1. \A l \in Handles : [Among(x, h) EXCEPT ![x.f] = l] = Among(x, l)
      BY <2>1, AmongFacts
    <3> QED BY <2>8, <3>1
  <2>12. Sight(q, x)
    <3>1. Table(Seen(q)) = t /\ Root(Seen(q)) = root /\ q.h = k /\ Trusted(q, x) = ex /\ (x.full /\ q.ok <=> fu)
      BY <1>1 DEF Trusted
    <3>2. (x.full /\ q.ok) = fu
      BY <1>1
    <3> QED BY <2>10, <2>11, <3>1, <3>2 DEF Sight
  <2>13. Stored(q, x) /\ Lags(q, x)
    BY <1>1, StoredKept, LagsKept DEF Serves
  <2> QED BY <1>1, <1>2, <2>12, <2>13 DEF Inside, Serves
<1>5. CASE ~r.h.open
  <2>1. r.h = Closed
    BY <1>5 DEF Inside, Sound, State, Handle
  <2> QED BY <1>1, <2>1, InsideSame
<1> QED BY <1>1, <1>3, <1>4, <1>5

Deleted(e) == [e EXCEPT !.name = "deleted"]
\* A file of no units is removed: its entry is marked, and the handle given up.
Marking(t, slot) ==
  Then(CacheRawBlock(t, RootDirStart, TRUE),
       LAMBDA r : CacheFlush([Poke(r, slot, [r.buf[slot] EXCEPT !.name = "deleted"]) EXCEPT !.h = Closed]))
LEMMA MarkingShape ==
  ASSUME NEW t, NEW q, q = CacheRawBlock(t, RootDirStart, TRUE), q.ok => q \in State /\ q.num = RootDirStart, NEW slot
  PROVE  Marking(t, slot) = IF q.ok THEN CacheFlush(Holding(Poked(q, slot, Deleted(q.buf[slot])), Closed)) ELSE q
<1>1. CASE q.ok
  <2>1. Poke(q, slot, Deleted(q.buf[slot])) = Poked(q, slot, Deleted(q.buf[slot]))
    BY <1>1, PokeRoot
  <2> QED BY <1>1, <2>1 DEF Marking, Then, Holding, Deleted
<1>2. CASE ~q.ok
  BY <1>2 DEF Marking, Then
<1> QED BY <1>1, <1>2

LEMMA DeletedFacts ==
  ASSUME NEW e \in DirEntry
  PROVE  /\ Deleted(e) \in DirEntry /\ Deleted(e).name = "deleted" /\ Deleted(e).first = e.first /\ Deleted(e).size = e.size
BY DEF Deleted, DirEntry

\* Nothing is left of a file whose entry is free.
LEMMA NoFile ==
  ASSUME NEW u, NEW dir, NEW f, EntryIn(dir, f) = Free, NEW lo, NEW ex, NEW fu
  PROVE  FileOk(u, dir, f, Closed, <<>>, lo, ex, fu)
BY Units DEF FileOk, FirstIn, SizeIn, Closed, Free, Linked

\* What is known when the mark is on the card.
Gone(t, r, x) == Outcome(r, x, x) /\ (r.ok => r.h = Closed) /\ (r.ok => t.ok)
\* remove() marks the entry deleted.
LEMMA MarkingFacts ==
  ASSUME NEW t, NEW x, Inside(t, x), Plain(x), t.ok, t.h.open, t.h.size = 0, Fit(t, x),
         NEW slot, slot = t.h.slot, NEW r, r = Marking(t, slot)
  PROVE  Gone(t, r, x)
<1> PICK q : q = CacheRawBlock(t, RootDirStart, TRUE)
  OBVIOUS
<1> PICK c : OfFile(t, x, c) /\ Len(c) <= ClusterCount
  BY InsideChain DEF Plain
<1>1. /\ Keeps(t, q) /\ Certain(t, q) /\ (q.ok => q.num = RootDirStart /\ q.buf = Root(Seen(t)))
  <2>1. RootDirStart \in Blocks \ ({0} \cup Mirrors) /\ RootDirStart \notin FatBlocks /\ Sound(t)
    BY Layout DEF Inside
  <2>2. Keeps(t, q) /\ Certain(t, q) /\ (q.ok => q.num = RootDirStart /\ q.buf = Seen(t)[RootDirStart])
    <3>1. /\ Keeps(t, CacheRawBlock(t, RootDirStart, TRUE)) /\ Certain(t, CacheRawBlock(t, RootDirStart, TRUE))
          /\ CacheRawBlock(t, RootDirStart, TRUE).ok => /\ CacheRawBlock(t, RootDirStart, TRUE).num = RootDirStart
                                                        /\ CacheRawBlock(t, RootDirStart, TRUE).buf = Seen(t)[RootDirStart]
      BY ONLY <2>1, RawWrite
    <3> QED BY <3>1
  <2> QED BY <2>2 DEF Root
<1>2. q \in State /\ q.h = t.h /\ Sound(q)
  BY <1>1 DEF Keeps, Leads, Sound
<1>3. r = IF q.ok THEN CacheFlush(Holding(Poked(q, slot, Deleted(q.buf[slot])), Closed)) ELSE q
  <2>1. q = CacheRawBlock(t, RootDirStart, TRUE) /\ (q.ok => q \in State /\ q.num = RootDirStart)
    BY <1>1, <1>2
  <2>2. Marking(t, slot) = IF q.ok THEN CacheFlush(Holding(Poked(q, slot, Deleted(q.buf[slot])), Closed)) ELSE q
    BY ONLY <2>1, MarkingShape
  <2> QED BY <2>2
<1>4. CASE ~q.ok
  <2>1. Inside(r, x)
    BY <1>1, <1>2, <1>3, <1>4, KeepsServes, InsideSame
  <2> QED BY <1>3, <1>4, <2>1, DroppedInside DEF Outcome, Gone
<1>5. CASE q.ok
  <2> PICK v, p, k, o, root : v = Deleted(q.buf[slot]) /\ k = Closed /\ o = Poked(q, slot, v) /\ p = Holding(o, k) /\ root = Root(Seen(t))
    OBVIOUS
  <2>1. /\ x.f \in Names /\ x.f \in x.live /\ slot \in SlotNumbers /\ root[slot].name = x.f /\ RootOk(root) /\ HandleOk(x.f, t.h)
        /\ t.h \in Handle /\ (x.full /\ t.h.cur = 0 => c = <<>>) /\ t.start \in Startable
    <3>1. x.f \in Names /\ x.f \in x.live /\ RootOk(root) /\ t.start \in Startable
      BY DEF Inside, Contexts, Plain, Sight, Live
    <3>2. /\ HandleOk(x.f, t.h) /\ t.h \in Handle /\ (x.full /\ t.ok /\ t.h.size = 0 /\ t.h.cur = 0 => c = <<>>)
          /\ Entered(t.h, root[slot])
      BY OpenChain
    <3> QED BY <3>1, <3>2 DEF HandleOk, Handle, Entered
  <2>2. root[slot] \in DirEntry /\ root[slot].first \in {0} \cup Clusters /\ root[slot].size <= MaxSize /\ q.buf[slot] = root[slot]
    BY <1>1, <1>5, <2>1 DEF RootOk, Roots
  <2>3. v \in DirEntry /\ v.name = "deleted" /\ v.first \in {0} \cup Clusters /\ v.size <= MaxSize
    BY <2>2, DeletedFacts
  <2>4. k \in Handles /\ HandleOk(x.f, k) /\ r = CacheFlush(p)
    BY <1>3, <1>5 DEF Handles, HandleOk, Closed
  <2>5. Stamped(t, r, slot, v, k)
    <3>1. Sound(t) /\ Keeps(t, q) /\ q.ok /\ q.num = RootDirStart /\ slot \in SlotNumbers /\ v \in DirEntry /\ k \in Handles
      BY <1>1, <1>5, <2>1, <2>3, <2>4 DEF Inside
    <3>2. p = Holding(Poked(q, slot, v), k) /\ r = CacheFlush(p)
      BY <2>4
    <3> QED BY ONLY <3>1, <3>2, StampFlush
  <2>6. r.ok \/ r.blown
    <3>1. Sound(o) /\ ~Stuck(o) /\ o.ok
      <4>1. Sound(q) /\ q.num = RootDirStart /\ slot \in SlotNumbers /\ v \in DirEntry /\ o = Poked(q, slot, v)
        BY <1>1, <1>2, <1>5, <2>1, <2>3
      <4>2. Sound(o) /\ ~Stuck(o) /\ o.ok = q.ok
        BY ONLY <4>1, RootPoke
      <4> QED BY <1>5, <4>2
    <3>2. Sound(p) /\ SameCache(o, p) /\ p.ok
      <4>1. Serves(o, p) /\ SameCache(o, p) /\ p.ok = o.ok
        <5>1. Sound(o) /\ k \in Handles /\ p = Holding(o, k)
          BY <2>4, <3>1
        <5> QED BY ONLY <5>1, HoldingServes
      <4> QED BY <3>1, <4>1 DEF Serves
    <3>3. ~Stuck(p) /\ Certain(p, r)
      BY <2>4, <3>1, <3>2, FlushKeeps DEF SameCache, Stuck
    <3> QED BY <3>2, <3>3 DEF Certain
  <2>7. Halved(t, t, x, c)
    <3>1. Beside(x.f, slot, root, root) /\ Within(Table(Seen(t)), Table(Seen(t)), Ran(c))
      BY <2>1, BesideSame DEF Within
    <3>2. Sound(t)
      BY DEF Inside
    <3> QED BY <2>1, <3>1, <3>2 DEF Halved, CardWithin
  <2>8. Halved(t, r, x, c)
    <3>1. Beneath(t, t)
      BY DEF Beneath, Inside
    <3>2. /\ x.f \in Names /\ Halved(t, t, x, c) /\ slot = t.h.slot /\ slot \in SlotNumbers /\ Root(Seen(t))[slot].name = x.f
          /\ Beneath(t, t) /\ HandleOk(x.f, t.h) /\ HandleOk(x.f, k) /\ v \in DirEntry /\ v.name \in {x.f, "deleted"}
          /\ v.first \in {0} \cup Clusters /\ v.size <= MaxSize /\ Stamped(t, r, slot, v, k)
      BY <2>1, <2>3, <2>4, <2>5, <2>7, <3>1
    <3> QED BY ONLY <3>2, HalvedStamp
  <2>9. Inside(r, Dropped(x))
    BY <2>1, <2>8, HalvedDropped
  <2>10. r.ok => Inside(r, x)
    <3> SUFFICES ASSUME r.ok PROVE Inside(r, x)
      OBVIOUS
    <3>1. /\ r.h = k /\ Root(Seen(r)) = Entering(root, slot, v) /\ Main(r.card) = Seen(r) /\ Table(Seen(r)) = Table(Seen(t))
      BY <2>5 DEF Stamped
    <3>2. EntryIn(Root(Seen(r)), x.f) = Free
      <4> PICK dir, f : dir = Entering(root, slot, v) /\ f = x.f
        OBVIOUS
      <4>1. /\ RootOk(root) /\ slot \in SlotNumbers /\ f \in Names /\ root[slot].name = f /\ v \in DirEntry /\ v.name \in {f, "deleted"}
            /\ v.first \in {0} \cup Clusters /\ v.size <= MaxSize /\ dir = Entering(root, slot, v) /\ v.name = "deleted"
        BY <2>1, <2>3
      <4>2. EntryIn(dir, f) = Free
        BY ONLY <4>1, BesideEntry
      <4> QED BY <3>1, <4>2
    <3> PICK e, u, dir, f, lo, ex, fu : /\ e = <<>> /\ u = Table(Seen(r)) /\ dir = Root(Seen(r)) /\ f = x.f /\ lo = (x.f \in x.long)
                                 /\ ex = (x.f \in Trusted(r, x)) /\ fu = (x.full /\ r.ok)
      OBVIOUS
    <3>3. FileOk(u, dir, f, k, e, lo, ex, fu)
      <4>1. EntryIn(dir, f) = Free
        BY <3>2
      <4>2. FileOk(u, dir, f, Closed, <<>>, lo, ex, fu)
        BY ONLY <4>1, NoFile
      <4> QED BY <4>2
    <3>4. FileOk(Table(Seen(r)), Root(Seen(r)), x.f, r.h, e, x.f \in x.long, x.f \in Trusted(r, x), x.full /\ r.ok)
      BY <3>1, <3>3
    <3>5. x.full /\ r.ok => \A a \in Clusters : Table(Seen(r))[a] # 0 => a \in Ran(e) \/ (Table(Seen(t))[a] # 0 /\ a \notin Ran(c))
      <4>1. x.full => t.h.cur = 0
        BY FitSettled DEF Settled
      <4>2. x.full => Ran(c) = {}
        BY <2>1, <4>1 DEF Ran
      <4> QED BY <3>1, <4>2
    <3>6. e \in Seq(Clusters) /\ Once(e) /\ Ran(e) \subseteq Ran(c)
      BY DEF Once, Ran
    <3>7. Above(x, x)
      BY <2>1 DEF Above, Inside
    <3>8. /\ Inside(t, x) /\ x.f \in x.live /\ t.h.open /\ OfFile(t, x, c) /\ Halved(t, r, x, c) /\ Main(r.card) = Seen(r)
      BY <2>1, <2>8, <3>1
    <3> QED BY ONLY <3>4, <3>5, <3>6, <3>7, <3>8, HalvedAnew
  <2>11. r.ok => r.h = k
    BY <2>5 DEF Stamped
  <2> QED BY <2>6, <2>9, <2>10, <2>11 DEF Outcome, Gone
<1> QED BY <1>4, <1>5

\* A call that has failed marks nothing.
LEMMA MarkingFailed ==
  ASSUME NEW t, Sound(t), ~t.ok, NEW slot
  PROVE  Marking(t, slot) = t
<1> PICK b, w, q : b = RootDirStart /\ w = TRUE /\ q = CacheRawBlock(t, b, w)
  OBVIOUS
<1>1. /\ Sound(t) /\ b \in Blocks \ ({0} \cup Mirrors) /\ w \in BOOLEAN /\ (w => b \notin FatBlocks)
      /\ q = CacheRawBlock(t, b, w)
  BY Layout
<1>2. t.ok \/ q = t
  BY ONLY <1>1, RawKeeps
<1> QED BY <1>2 DEF Marking, Then

LEMMA DroppedLess ==
  ASSUME NEW x, NEW z, Beyond(x, z)
  PROVE  Less(Dropped(z), Dropped(x))
<1>1. z \in Contexts /\ z.exact \subseteq z.long /\ x \in Contexts /\ x.exact \subseteq x.long /\ Less(z, x)
  BY DEF Beyond, Above, Less
<1> PICK a, b : a = Dropped(z) /\ b = Dropped(x)
  OBVIOUS
<1>2. /\ Less(z, a) /\ a.f = z.f /\ a.file = z.file /\ a.live = z.live \ {z.f} /\ a.long = z.long
      /\ a.exact = z.exact /\ a.full = FALSE /\ a.twin = z.twin
  BY <1>1, DroppedFacts
<1>3. /\ Less(x, b) /\ b.f = x.f /\ b.file = x.file /\ b.live = x.live \ {x.f} /\ b.long = x.long
      /\ b.exact = x.exact /\ b.full = FALSE /\ b.twin = x.twin
  BY <1>1, DroppedFacts
<1> QED BY <1>1, <1>2, <1>3 DEF Less

LEMMA OutcomeLess ==
  ASSUME NEW x, NEW z, Beyond(x, z), NEW r, Outcome(r, z, z)
  PROVE  Outcome(r, x, z)
<1>1. ~r.ok /\ ~r.blown => Inside(r, x)
  BY InsideLess DEF Outcome, Beyond
<1>2. Inside(r, Dropped(x))
  BY DroppedLess, InsideLess DEF Outcome
<1> QED BY <1>1, <1>2 DEF Outcome

LEMMA OutcomeClosing ==
  ASSUME NEW x, NEW z, Beyond(x, z), NEW q, Outcome(q, x, z), q.ok => ~q.h.open, NEW r, r = Holding(q, Closed)
  PROVE  Outcome(r, x, z) /\ r.h = Closed /\ r.ok = q.ok /\ r.blown = q.blown
<1>1. Dropped(x).full = FALSE
  BY DEF Dropped, Beyond, Less, Contexts
<1>2. Inside(r, Dropped(x)) /\ r.h = Closed /\ r.ok = q.ok /\ r.blown = q.blown
  BY <1>1, InsideClosing DEF Outcome
<1>3. q.ok => Inside(r, z)
  BY InsideClosing DEF Outcome
<1>4. ~q.ok /\ ~q.blown => Inside(r, x)
  BY InsideClosing DEF Outcome
<1> QED BY <1>2, <1>3, <1>4 DEF Outcome

\* remove(), and the handle given up in any case: what is known of the rest.
LEMMA InsideRemove ==
  ASSUME NEW s, NEW x, NEW z, Beyond(x, z), Inside(s, x), s.h.open, Fit(s, x),
         s.ok /\ s.h.size = 0 => Inside(s, z) /\ s.h.pos = 0,
         NEW q, q = Remove(s), NEW r, r = Holding(q, Closed)
  PROVE  Outcome(r, x, z) /\ r.h = Closed /\ r.ok = q.ok /\ r.blown = q.blown /\ (r.ok => s.ok)
<1> PICK t, slot, n : t = Truncate(s, 0) /\ slot = s.h.slot /\ n = 0
  OBVIOUS
<1>1. /\ Outcome(t, x, z) /\ t.h.open /\ (t.ok => s.ok)
      /\ t.ok => t.h.size = 0 /\ t.h.pos <= 0 /\ t.h.slot = slot
  <2>1. /\ Beyond(x, z) /\ Inside(s, x) /\ s.h.open /\ Fit(s, x) /\ n \in Nat /\ (n = 0 \/ (x.f \in z.long => x.f \in x.exact))
        /\ (s.ok /\ s.h.size = 0 => Inside(s, z) /\ s.h.pos = 0) /\ t = Truncate(s, n)
    OBVIOUS
  <2>2. /\ Outcome(t, x, z) /\ t.h.open /\ (t.ok => s.ok)
        /\ t.ok => t.h.size = n /\ t.h.pos <= n /\ t.h.slot = s.h.slot
    BY ONLY <2>1, InsideTruncate
  <2> QED BY <2>2
<1>2. q = Marking(t, slot)
  BY DEF Remove, Marking
<1>3. Outcome(q, x, z) /\ (q.ok => q.h = Closed /\ s.ok)
  <2>1. CASE ~t.ok
    <3>1. q = t
      BY <1>1, <1>2, <2>1, MarkingFailed DEF Outcome, Inside
    <3> QED BY <1>1, <2>1, <3>1
  <2>2. CASE t.ok
    <3>1. /\ Inside(t, z) /\ Plain(z) /\ t.h.size = 0 /\ t.h.pos <= 0
      BY <1>1, <2>2 DEF Outcome, Beyond
    <3>2. Fit(t, z)
      BY <3>1 DEF Fit
    <3>3. /\ Inside(t, z) /\ Plain(z) /\ t.ok /\ t.h.open /\ t.h.size = 0 /\ Fit(t, z) /\ slot = t.h.slot /\ q = Marking(t, slot)
      BY <1>1, <1>2, <2>2, <3>1, <3>2
    <3>4. Gone(t, q, z)
      BY ONLY <3>3, MarkingFacts
    <3> QED BY <1>1, <3>4, OutcomeLess DEF Gone
  <2> QED BY <2>1, <2>2
<1>4. q.ok => ~q.h.open
  BY <1>3 DEF Closed
<1> QED BY <1>3, <1>4, OutcomeClosing

-----------------------------------------------------------------------------
(* open() *)

\* The directory is in memory.
AtRoot(q) == q.ok /\ q.num = RootDirStart /\ q.buf = Root(Seen(q)) /\ q.h = Closed
NewHandle(e, slot, mode) ==
  [open |-> TRUE, flags |-> mode, name |-> e.name, dirty |-> FALSE,
   cur |-> 0, pos |-> 0, first |-> e.first, size |-> e.size, slot |-> slot]
LEMMA NewHandleFacts ==
  ASSUME NEW e \in DirEntry, e.name \in Names, e.first \in {0} \cup Clusters, e.size <= MaxSize, NEW slot \in SlotNumbers,
         NEW mode, mode \subseteq Flags, NEW k, k = NewHandle(e, slot, mode)
  PROVE  /\ k \in Handle /\ HandleOk(e.name, k) /\ k.open /\ k.flags = mode /\ k.name = e.name /\ ~k.dirty
         /\ k.cur = 0 /\ k.pos = 0 /\ k.first = e.first /\ k.size = e.size /\ k.slot = slot
<1>1. k.open /\ k.flags = mode /\ k.name = e.name /\ ~k.dirty /\ k.cur = 0 /\ k.pos = 0 /\ k.first = e.first /\ k.size = e.size /\ k.slot = slot
  BY DEF NewHandle
<1>2. k \in Handle
  <2>1. e.first \in Nat /\ e.size \in Nat
    BY DEF DirEntry
  <2> QED BY <2>1 DEF NewHandle, Handle
<1>3. 0 <= EOC
  BY VolumeAssumption DEF EOC, LastCluster
<1> QED BY <1>1, <1>2, <1>3 DEF HandleOk

\* The file as it is seen through a new handle.
Opens(t, root, f, slot, c, long, exact, full, mode, k) ==
  /\ RootOk(root) /\ f \in Names /\ slot \in SlotNumbers /\ root[slot].name = f /\ c \in Seq(Clusters)
  /\ FileOk(t, root, f, Closed, c, long, exact, full) /\ mode \subseteq Flags /\ k = NewHandle(root[slot], slot, mode)
LEMMA FileOpened ==
  ASSUME NEW t, NEW root, NEW f, NEW slot, NEW c, NEW long, NEW exact, NEW full, NEW mode, NEW k,
         Opens(t, root, f, slot, c, long, exact, full, mode, k)
  PROVE  /\ k \in Handle /\ HandleOk(f, k) /\ k.open /\ k.pos = 0 /\ k.cur = 0 /\ k.size = root[slot].size /\ ~k.dirty /\ k.flags = mode
         /\ FileOk(t, root, f, k, c, long, exact, full)
<1>0. /\ RootOk(root) /\ f \in Names /\ slot \in SlotNumbers /\ root[slot].name = f /\ c \in Seq(Clusters)
      /\ FileOk(t, root, f, Closed, c, long, exact, full) /\ mode \subseteq Flags /\ k = NewHandle(root[slot], slot, mode)
  BY DEF Opens
<1> PICK e : e = root[slot]
  OBVIOUS
<1>1. e \in DirEntry /\ e.name = f /\ e.first \in {0} \cup Clusters /\ e.size <= MaxSize
  BY <1>0 DEF RootOk, Roots
<1>2. /\ k \in Handle /\ HandleOk(f, k) /\ k.open /\ k.flags = mode /\ k.name = f /\ ~k.dirty
      /\ k.cur = 0 /\ k.pos = 0 /\ k.first = e.first /\ k.size = e.size /\ k.slot = slot
  <2>1. e \in DirEntry /\ e.name \in Names /\ e.first \in {0} \cup Clusters /\ e.size <= MaxSize /\ slot \in SlotNumbers /\ mode \subseteq Flags
        /\ k = NewHandle(e, slot, mode)
    BY <1>0, <1>1
  <2>2. /\ k \in Handle /\ HandleOk(e.name, k) /\ k.open /\ k.flags = mode /\ k.name = e.name /\ ~k.dirty
        /\ k.cur = 0 /\ k.pos = 0 /\ k.first = e.first /\ k.size = e.size /\ k.slot = slot
    BY ONLY <2>1, NewHandleFacts
  <2> QED BY <1>1, <2>2
<1>3. EntryIn(root, f) = e
  BY <1>0, EntryFacts
<1>4. ~Closed.open
  BY DEF Closed
<1>5. /\ Linked(t, e.first, c) /\ (e.size > 0 => c # <<>>) /\ (long => e.size <= Len(c) * ClusterUnits)
      /\ (full /\ e.size = 0 => c = <<>>)
  BY <1>0, <1>3, <1>4 DEF FileOk, FirstIn, SizeIn
<1>6. e.first = 0 => e.size = 0
  <2>1. e.first = 0 => c = <<>>
    <3>1. c # <<>> => c[1] \in Clusters
      BY <1>0
    <3> QED BY <1>5, <3>1 DEF Linked, Clusters
  <2>2. e.size \in Nat
    BY <1>1 DEF DirEntry
  <2> QED BY <1>5, <2>1, <2>2
<1>7. Entered(k, root[k.slot])
  <2>1. e.size <= e.size
    BY <1>1 DEF DirEntry
  <2> QED BY <1>1, <1>2, <1>6, <2>1 DEF Entered
<1>8. Stands(k, c, exact)
  BY <1>2 DEF Stands
<1> QED BY <1>2, <1>5, <1>7, <1>8 DEF FileOk, FirstIn, SizeIn

\* A file opened: nothing else has changed.
Fresh(q, o, y, mode) ==
  /\ Inside(o, y) /\ o.ok /\ o.blown = q.blown /\ ~Stuck(o) /\ o.h.open /\ o.h.pos = 0 /\ o.h.cur = 0 /\ ~o.h.dirty /\ o.h.flags = mode
LEMMA CachedOpened ==
  ASSUME NEW q, NEW y, Inside(q, y), Plain(y), AtRoot(q), NEW slot, slot \in SlotNumbers, q.buf[slot].name = y.f,
         NEW mode, mode \subseteq Flags, NEW o, o = Opened(q, q.buf[slot], slot, mode)
  PROVE  Fresh(q, o, y, mode)
<1> PICK k, root, t, f : k = NewHandle(q.buf[slot], slot, mode) /\ root = Root(Seen(q)) /\ t = Table(Seen(q)) /\ f = y.f
  OBVIOUS
<1>1. o = Holding(q, k)
  BY DEF Opened, Holding, NewHandle
<1>2. root[slot] = q.buf[slot] /\ root[slot].name = f /\ RootOk(root) /\ f \in Names /\ f \in y.live /\ Sound(q)
  BY DEF AtRoot, Inside, Sight, Live, Contexts, Plain
<1> PICK c0 : OfFile(q, y, c0) /\ Len(c0) <= ClusterCount
  BY InsideChain DEF Plain
<1>3. ASSUME NEW c, OfFile(q, y, c)
      PROVE  /\ k \in Handle /\ HandleOk(f, k) /\ k.open /\ k.pos = 0 /\ k.cur = 0 /\ k.size = root[slot].size /\ ~k.dirty /\ k.flags = mode
             /\ FileOk(t, root, f, k, c, y.f \in y.long, y.f \in Trusted(q, y), y.full /\ q.ok)
  <2> PICK long, exact, full : long = (y.f \in y.long) /\ exact = (y.f \in Trusted(q, y)) /\ full = (y.full /\ q.ok)
    OBVIOUS
  <2>1. Opens(t, root, f, slot, c, long, exact, full, mode, k)
    BY <1>2, <1>3 DEF OfFile, AtRoot, Opens
  <2>2. /\ k \in Handle /\ HandleOk(f, k) /\ k.open /\ k.pos = 0 /\ k.cur = 0 /\ k.size = root[slot].size /\ ~k.dirty /\ k.flags = mode
        /\ FileOk(t, root, f, k, c, long, exact, full)
    BY ONLY <2>1, FileOpened
  <2> QED BY <2>2
<1>4. k \in Handles /\ HandleOk(f, k) /\ k.open /\ k.pos = 0 /\ k.cur = 0 /\ ~k.dirty /\ k.flags = mode
  BY <1>3 DEF Handles
<1>5. Serves(q, o) /\ Seen(o) = Seen(q) /\ SameCache(q, o) /\ o.h = k /\ o.ok = q.ok /\ o.blown = q.blown
  <2>1. Sound(q) /\ k \in Handles /\ o = Holding(q, k)
    BY <1>1, <1>2, <1>4
  <2> QED BY ONLY <2>1, HoldingServes
<1>6. Inside(o, y)
  <2>1. HandleOk(y.f, o.h)
    BY <1>4, <1>5
  <2>2. \A c : OfFile(q, y, c) => OfFile(o, y, c)
    <3> SUFFICES ASSUME NEW c, OfFile(q, y, c) PROVE OfFile(o, y, c)
      OBVIOUS
    <3>1. FileOk(t, root, f, k, c, y.f \in y.long, y.f \in Trusted(q, y), y.full /\ q.ok)
      BY <1>3
    <3>2. Trusted(o, y) = Trusted(q, y) /\ Table(Seen(o)) = t /\ Root(Seen(o)) = root
      BY <1>5 DEF Trusted
    <3> QED BY <1>5, <3>1, <3>2 DEF OfFile
  <2> QED BY <1>5, <2>1, <2>2, InsideServes
<1>7. ~Stuck(o)
  <2>1. RootDirStart \in Blocks \ {0}
    BY Layout
  <2> QED BY <1>5, <2>1 DEF AtRoot, SameCache, Stuck
<1> QED BY <1>4, <1>5, <1>6, <1>7 DEF Fresh, AtRoot

\* All that is promised of a file is promised of that of the call.
Whole(x) == [x EXCEPT !.long = @ \cup {x.f}, !.exact = @ \cup {x.f}]
LEMMA WholeBeyond ==
  ASSUME NEW x, x \in Contexts, x.exact \subseteq x.long, Plain(x), NEW z, z = Whole(x)
  PROVE  /\ Beyond(x, z) /\ More(z, x) /\ z.long = x.long \cup {x.f} /\ z.exact = x.exact \cup {x.f}
         /\ z.f = x.f /\ z.file = x.file /\ z.live = x.live /\ z.full = x.full /\ z.twin = x.twin
<1>1. /\ z.long = x.long \cup {x.f} /\ z.exact = x.exact \cup {x.f} /\ z.f = x.f /\ z.file = x.file
      /\ z.live = x.live /\ z.full = x.full /\ z.twin = x.twin /\ x.f \in Names
  BY DEF Whole, Contexts
<1>2. z \in Contexts
  <2>1. z.long \in SUBSET Names /\ z.exact \in SUBSET Names
    BY <1>1 DEF Contexts
  <2>2. z = [f |-> z.f, file |-> z.file, live |-> z.live, long |-> z.long, exact |-> z.exact, full |-> z.full, twin |-> z.twin]
    BY DEF Whole, Contexts
  <2> QED BY <1>1, <2>1, <2>2 DEF Contexts
<1> QED BY <1>1, <1>2 DEF Beyond, Above, Less, More, Plain

LEMMA WholeEmpty ==
  ASSUME NEW s, NEW x, Inside(s, x), Plain(x), s.h.open, s.h.size = 0, s.h.pos = 0, s.h.cur = 0, NEW z, z = Whole(x)
  PROVE  Inside(s, z)
<1>0. x \in Contexts /\ x.exact \subseteq x.long /\ x.f \in x.live /\ x.f \in Names
  BY DEF Inside, Plain, Contexts
<1>1. /\ More(z, x) /\ z.long = x.long \cup {x.f} /\ z.exact = x.exact \cup {x.f} /\ z.f = x.f /\ z.live = x.live /\ z.full = x.full
  BY <1>0, WholeBeyond
<1> PICK c0 : OfFile(s, x, c0) /\ Len(c0) <= ClusterCount
  BY <1>0, InsideChain
<1>2. EntryIn(Root(Seen(s)), x.f).size = 0
  <2>1. HandleOk(x.f, s.h) /\ Entered(s.h, Root(Seen(s))[s.h.slot]) /\ s.h.slot \in SlotNumbers
    BY <1>0, OpenChain DEF Handle
  <2>2. RootOk(Root(Seen(s)))
    BY DEF Inside, Sight, Live
  <2>3. Root(Seen(s))[s.h.slot].name = x.f /\ Root(Seen(s))[s.h.slot].size <= 0
    BY <2>1 DEF Entered, HandleOk
  <2>4. EntryIn(Root(Seen(s)), x.f) = Root(Seen(s))[s.h.slot] /\ EntryIn(Root(Seen(s)), x.f).size \in 0 .. MaxSize
    BY <1>0, <2>1, <2>2, <2>3, EntryFacts
  <2> QED BY <2>3, <2>4, FileAssumption
<1>3. Stored(s, z)
  <2> PICK t, root, lg : t = Table(Main(s.card)) /\ root = Root(Main(s.card)) /\ lg = x.long
    OBVIOUS
  <2> PICK ch : Live(t, root, AllClosed, ch, x.live, lg, {}, FALSE)
    BY DEF Inside, Stored
  <2>1. EntryIn(root, x.f).size = 0
    <3>1. EntryIn(root, x.f).size <= 0
      BY <1>0, <1>2 DEF Inside, Lags
    <3>2. EntryIn(root, x.f).size \in 0 .. MaxSize
      BY <1>0, EntryFacts DEF Live
    <3> QED BY <3>1, <3>2, FileAssumption
  <2>2. ~AllClosed[x.f].open /\ AllClosed[x.f] = Closed
    BY <1>0 DEF AllClosed, Closed
  <2>3. \A g \in x.live : FileOk(t, root, g, AllClosed[g], ch[g], g \in z.long, g \in {}, FALSE)
    <3> SUFFICES ASSUME NEW g \in x.live PROVE FileOk(t, root, g, AllClosed[g], ch[g], g \in z.long, g \in {}, FALSE)
      OBVIOUS
    <3>1. FileOk(t, root, g, AllClosed[g], ch[g], g \in lg, g \in {}, FALSE)
      BY DEF Live
    <3>2. CASE g # x.f
      <4>1. g \in z.long => g \in lg
        BY <1>1, <3>2
      <4> QED BY <3>1, <4>1 DEF FileOk
    <3>3. CASE g = x.f
      <4>1. 0 <= Len(ch[g]) * ClusterUnits
        <5>1. ch[g] \in Seq(Clusters)
          BY DEF Live
        <5>2. Len(ch[g]) \in Nat /\ ClusterUnits \in Nat /\ \A a, b \in Nat : 0 <= a * b
          BY <5>1, Units
        <5> QED BY <5>2
      <4>2. SizeIn(root, g, AllClosed[g]) = 0
        BY <2>1, <2>2, <3>3 DEF SizeIn
      <4> QED BY <3>1, <4>1, <4>2 DEF FileOk
    <3> QED BY <3>2, <3>3
  <2>4. Live(t, root, AllClosed, ch, x.live, z.long, {}, FALSE)
    BY <2>3 DEF Live
  <2> QED BY <1>1, <2>4 DEF Stored
<1>4. \A c : OfFile(s, x, c) => OfFile(s, z, c)
  <2> SUFFICES ASSUME NEW c, OfFile(s, x, c) PROVE OfFile(s, z, c)
    OBVIOUS
  <2>1. 0 <= Len(c) * ClusterUnits
    <3>1. Len(c) \in Nat /\ ClusterUnits \in Nat /\ \A a, b \in Nat : 0 <= a * b
      BY Units DEF OfFile
    <3> QED BY <3>1
  <2>2. SizeIn(Root(Seen(s)), x.f, s.h) = 0
    BY DEF SizeIn
  <2>3. Stands(s.h, c, x.f \in Trusted(s, x)) => Stands(s.h, c, x.f \in Trusted(s, z))
    BY DEF Stands
  <2> QED BY <1>1, <2>1, <2>2, <2>3 DEF OfFile, FileOk
<1> QED BY <1>1, <1>3, <1>4, InsideMore

\* A place in the directory for a new file.
Room(root, slot, f) ==
  /\ slot \in SlotNumbers /\ root[slot].name \in {"free", "deleted"}
  /\ \A i \in SlotNumbers : root[i].name # f /\ (i < slot => root[i].name # "free")
NewEntry(f) == [Free EXCEPT !.name = f]
LEMMA NewEntryFacts ==
  ASSUME NEW f \in Names
  PROVE  NewEntry(f) \in DirEntry /\ NewEntry(f).name = f /\ NewEntry(f).first = 0 /\ NewEntry(f).size = 0
BY DEF NewEntry, Free, DirEntry
LEMMA CreatedEntry ==
  ASSUME NEW q, NEW y, Inside(q, y), Plain(y), AtRoot(q), NEW slot, Room(q.buf, slot, y.f),
         NEW v, v = NewEntry(y.f), NEW p, p = Poked(q, slot, v)
  PROVE  /\ Inside(p, y) /\ p.h = Closed /\ p.ok /\ p.blown = q.blown /\ p.num = RootDirStart /\ Root(Seen(p))[slot] = v /\ Sound(p)
<1> PICK root, dir, f, k, t : root = Root(Seen(q)) /\ dir = Entering(root, slot, v) /\ f = y.f /\ k = Closed /\ t = Table(Seen(q))
  OBVIOUS
<1>1. /\ RootOk(root) /\ f \in Names /\ f \in y.live /\ Sound(q) /\ q.ok /\ q.num = RootDirStart /\ q.h = Closed /\ Room(root, slot, f)
  BY DEF AtRoot, Inside, Sight, Live, Contexts, Plain
<1>2. v \in DirEntry /\ v.name = f /\ v.first = 0 /\ v.size = 0
  BY <1>1, NewEntryFacts
<1>3. /\ RootOk(dir) /\ dir[slot] = v /\ \A g \in Names : g # f => EntryIn(dir, g) = EntryIn(root, g)
      /\ EntryIn(dir, f) = v
  <2>1. /\ RootOk(root) /\ slot \in SlotNumbers /\ v \in DirEntry /\ v.first \in {0} \cup Clusters /\ v.size <= MaxSize /\ v.name # "free"
        /\ (v.name \in Names => \A i \in SlotNumbers \ {slot} : root[i].name # v.name)
        /\ (\A i \in SlotNumbers : i < slot => root[i].name # "free") /\ dir = Entering(root, slot, v)
    BY <1>1, <1>2, FileAssumption DEF Room
  <2>2. /\ RootOk(dir) /\ dir[slot] = v
        /\ \A g \in Names : g # v.name /\ g # root[slot].name => EntryIn(dir, g) = EntryIn(root, g)
        /\ (v.name \in Names => EntryIn(dir, v.name) = v)
    BY ONLY <2>1, EnteringFacts
  <2>3. root[slot].name \notin Names
    BY <1>1, FileAssumption DEF Room
  <2> QED BY <1>1, <1>2, <2>2, <2>3
<1>4. EntryIn(root, f) = Free
  BY <1>1, EntryFacts DEF Room
<1>5. \A g \in y.live \ {f} : EntryIn(dir, g) = EntryIn(root, g) /\ (y.file[g].open => y.file[g].slot # slot)
  <2>1. root[slot].name \notin Names \ {f} /\ slot \in SlotNumbers
    BY <1>1, FileAssumption DEF Room
  <2>2. \A g \in y.live \ {f} : y.file[g].open => y.file[g].slot # slot
    BY <1>1, <2>1, OtherSlots
  <2>3. y.live \subseteq Names
    BY DEF Inside, Contexts
  <2> QED BY <1>3, <2>2, <2>3
<1>6. k \in Handles /\ HandleOk(f, k)
  BY DEF Handles, HandleOk, Closed
<1>7. EntryIn(root, f).size <= EntryIn(dir, f).size
  BY <1>2, <1>3, <1>4 DEF Free
<1>8. \A c : OfFile(q, y, c) => FileOk(t, dir, f, k, c, f \in y.long, f \in Trusted(q, y), y.full /\ q.ok)
  <2>1. FirstIn(dir, f, Closed) = FirstIn(root, f, Closed) /\ SizeIn(dir, f, Closed) = SizeIn(root, f, Closed) /\ ~Closed.open
    BY <1>2, <1>3, <1>4 DEF FirstIn, SizeIn, Closed, Free
  <2> QED BY <1>1, <2>1 DEF OfFile, FileOk
<1> PICK r : r = Holding(p, k)
  OBVIOUS
<1>9. Inside(r, y) /\ r.h = k /\ r.ok = q.ok /\ r.blown = q.blown
  <2>1. r = Holding(Poked(q, slot, v), k) /\ dir = Entering(Root(Seen(q)), slot, v)
    OBVIOUS
  <2>2. \A g \in y.live \ {y.f} : /\ EntryIn(dir, g) = EntryIn(Root(Seen(q)), g)
                                  /\ y.file[g].open => y.file[g].slot # slot
    BY <1>5
  <2>3. EntryIn(Root(Seen(q)), y.f).size <= EntryIn(dir, y.f).size
    BY <1>7
  <2>4. Inside(q, y) /\ y.f \in y.live /\ q.num = RootDirStart /\ slot \in SlotNumbers /\ v \in DirEntry /\ RootOk(dir)
    BY <1>1, <1>2, <1>3 DEF Room
  <2>5. \A c : OfFile(q, y, c) => FileOk(Table(Seen(q)), dir, y.f, k, c, y.f \in y.long, y.f \in Trusted(q, y), y.full /\ q.ok)
    BY <1>8
  <2>6. k \in Handles /\ HandleOk(y.f, k)
    BY <1>6
  <2>7. Inside(r, y) /\ r.h = k /\ r.ok = q.ok /\ r.blown = q.blown
    BY ONLY <2>1, <2>2, <2>3, <2>4, <2>5, <2>6, InsideRoot
  <2> QED BY <2>7
<1>10. Sound(p) /\ p.h = Closed /\ p.num = RootDirStart /\ Root(Seen(p)) = dir
  <2>1. Sound(q) /\ q.num = RootDirStart /\ slot \in SlotNumbers /\ v \in DirEntry /\ p = Poked(q, slot, v)
    BY <1>1, <1>2 DEF Room
  <2>2. Sound(p) /\ p.h = q.h /\ p.num = q.num /\ Root(Seen(p)) = Entering(Root(Seen(q)), slot, v)
    BY ONLY <2>1, RootPoke
  <2> QED BY <1>1, <2>2
<1>11. r = p
  <2>1. p \in State /\ p.h = k
    BY <1>10 DEF Sound
  <2> QED BY <2>1 DEF Holding, State
<1> QED BY <1>1, <1>3, <1>9, <1>10, <1>11

\* A new file is entered in the directory.
LEMMA Created ==
  ASSUME NEW q, NEW y, Inside(q, y), Plain(y), AtRoot(q), NEW slot, Room(q.buf, slot, y.f),
         NEW r, r = CacheFlush(Poke(q, slot, NewEntry(y.f)))
  PROVE  /\ Inside(r, y) /\ r.h = Closed /\ (r.ok => AtRoot(r) /\ r.buf[slot] = NewEntry(y.f) /\ slot \in SlotNumbers)
<1> PICK v, p : v = NewEntry(y.f) /\ p = Poked(q, slot, v)
  OBVIOUS
<1>1. Inside(p, y) /\ p.h = Closed /\ p.num = RootDirStart /\ Root(Seen(p))[slot] = v /\ Sound(p)
  BY CreatedEntry
<1>2. r = CacheFlush(p)
  <2>1. q \in State /\ q.ok /\ q.num = RootDirStart
    BY DEF AtRoot, Inside, Sound
  <2>2. Poke(q, slot, v) = Poked(q, slot, v)
    BY <2>1, PokeRoot
  <2> QED BY <2>2
<1>3. Keeps(p, r) /\ r.num = p.num
  BY <1>1, <1>2, FlushKeeps
<1>4. Inside(r, y) /\ r.h = Closed /\ Seen(r) = Seen(p) /\ Sound(r)
  BY <1>1, <1>3, KeepsServes, InsideSame DEF Keeps, Leads, Seen
<1>5. r.buf = Root(Seen(r))
  <2>1. r.num = RootDirStart /\ RootDirStart \in Blocks \ Mirrors
    BY <1>1, <1>3, Layout
  <2>2. View(r) = [r.card EXCEPT ![r.num] = r.buf] /\ r.card \in [Blocks -> Block]
    BY <1>4, <2>1, MainFacts DEF Sound, State
  <2> QED BY <2>1, <2>2 DEF Root, Seen, Main
<1>6. slot \in SlotNumbers
  BY DEF Room
<1> QED BY <1>1, <1>3, <1>4, <1>5, <1>6 DEF AtRoot

FirstOfSet(S) == CHOOSE i \in S : \A j \in S : i <= j
LEMMA FirstFacts ==
  ASSUME NEW S, S \subseteq SlotNumbers, S # {}, NEW i, i = FirstOfSet(S)
  PROVE  i \in S /\ \A j \in S : i <= j
<1>1. \E m \in S : \A j \in S : m <= j
  <2> SUFFICES ASSUME \A m \in S : ~\A j \in S : m <= j PROVE FALSE
    OBVIOUS
  <2> DEFINE A == {k \in 0 .. Slots : \A j \in S : k <= j}
  <2>1. \A j \in S : j \in 0 .. Slots - 1
    BY DEF SlotNumbers
  <2>2. Slots \in Nat
    BY VolumeAssumption
  <2>3. 0 \in A
    BY <2>1, <2>2
  <2>4. ASSUME NEW k \in 1 .. Slots, k - 1 \in A PROVE k \in A
    <3>1. \A j \in S : k - 1 <= j
      BY <2>4
    <3>2. k - 1 \notin S
      BY <3>1
    <3>3. \A j \in S : j \in Int /\ j # k - 1 /\ k - 1 <= j
      BY <2>1, <3>1, <3>2
    <3>4. \A j \in S : k <= j
      BY <2>2, <3>3
    <3> QED BY <2>2, <3>4
  <2> HIDE DEF A
  <2>5. \A k \in 0 .. Slots : k \in A
    BY <2>2, <2>3, <2>4, UpTo
  <2>6. \A j \in S : Slots <= j
    BY <2>2, <2>5 DEF A
  <2> QED BY <2>1, <2>2, <2>6
<1> QED BY <1>1 DEF FirstOfSet

OpenNew(q, slot, f, mode) ==
  Then(CacheFlush(Poke(q, slot, NewEntry(f))), LAMBDA p : OpenCachedEntry(p, slot, mode))
\* What the search in the directory comes to.
Finding(q, r, f, mode) ==
  \/ r = Fail(q)
  \/ \E slot \in SlotNumbers : /\ q.buf[slot].name = f /\ ~({"CREAT", "EXCL"} \subseteq mode)
                               /\ r = OpenCachedEntry(q, slot, mode)
  \/ \E slot : /\ Room(q.buf, slot, f) /\ "WRITE" \in mode
               /\ r = OpenNew(q, slot, f, mode)
\* open() finds the entry, or a place for a new one.
LEMMA FindFacts ==
  ASSUME NEW q, RootOk(q.buf), NEW f \in Names, NEW mode, NEW r, r = FindEntry(q, f, mode)
  PROVE  Finding(q, r, f, mode)
<1> DEFINE Is(n) == {i \in 0 .. Slots - 1 : q.buf[i].name = n}
           found == {i \in Is(f) : \A j \in Is("free") : i < j}
           room == Is("free") \cup Is("deleted")
<1>1. r = IF found # {}
          THEN IF {"CREAT", "EXCL"} \subseteq mode THEN Fail(q) ELSE OpenCachedEntry(q, FirstOfSet(found), mode)
          ELSE IF ~({"CREAT", "WRITE"} \subseteq mode) \/ room = {} THEN Fail(q)
          ELSE OpenNew(q, FirstOfSet(room), f, mode)
  BY DEF FindEntry, FirstOfSet, NewEntry, OpenNew
<1>2. f # "free" /\ f # "deleted"
  BY FileAssumption
<1>3. CASE found # {}
  <2>1. FirstOfSet(found) \in found
    BY <1>3, FirstFacts DEF SlotNumbers
  <2>2. FirstOfSet(found) \in SlotNumbers /\ q.buf[FirstOfSet(found)].name = f
    BY <2>1 DEF SlotNumbers
  <2> HIDE DEF found, room
  <2> QED BY <1>1, <1>3, <2>2 DEF Finding
<1>4. CASE found = {} /\ room # {}
  <2> PICK slot : slot = FirstOfSet(room)
    OBVIOUS
  <2>1. slot \in room /\ \A j \in room : slot <= j
    BY <1>4, FirstFacts DEF SlotNumbers
  <2>2. slot \in SlotNumbers /\ q.buf[slot].name \in {"free", "deleted"}
    BY <2>1 DEF SlotNumbers
  <2>3. \A i \in SlotNumbers : q.buf[i].name # f
    <3> SUFFICES ASSUME NEW i \in SlotNumbers, q.buf[i].name = f PROVE FALSE
      OBVIOUS
    <3>1. PICK j \in SlotNumbers : q.buf[j].name = "free" /\ ~(i < j)
      BY <1>4 DEF SlotNumbers
    <3>2. i # j
      BY <1>2, <3>1
    <3>3. j < i
      BY <3>1, <3>2 DEF SlotNumbers
    <3> QED BY <1>2, <3>1, <3>3 DEF RootOk
  <2>4. \A i \in SlotNumbers : i < slot => q.buf[i].name # "free"
    <3> SUFFICES ASSUME NEW i \in SlotNumbers, i < slot, q.buf[i].name = "free" PROVE FALSE
      OBVIOUS
    <3>1. slot <= i
      BY <2>1 DEF SlotNumbers
    <3> QED BY <2>2, <3>1 DEF SlotNumbers
  <2>5. Room(q.buf, slot, f)
    BY <2>2, <2>3, <2>4 DEF Room
  <2>6. r = Fail(q) \/ ("WRITE" \in mode /\ r = OpenNew(q, slot, f, mode))
    BY <1>1, <1>4
  <2> QED BY <2>5, <2>6 DEF Finding
<1>5. CASE found = {} /\ room = {}
  BY <1>1, <1>5 DEF Finding
<1> QED BY <1>3, <1>4, <1>5

\* What is known of the files when the call on f succeeds.
Aim(y, mode) == IF "TRUNC" \in mode THEN Whole(y) ELSE y
\* The file of the call is open, or is not and nothing was changed but by a truncation.
Unlocks(r, y, mode) ==
  /\ Inside(r, Dropped(y)) /\ (~r.ok /\ ~r.blown => Inside(r, y)) /\ ("TRUNC" \notin mode => Inside(r, y))
  /\ r.ok => Inside(r, Aim(y, mode)) /\ r.h.open
  /\ r.ok /\ "TRUNC" \notin mode => r.h.pos = 0 /\ r.h.cur = 0 /\ ~r.h.dirty /\ ~Stuck(r)
  /\ r.ok /\ "TRUNC" \in mode => r.h.size = 0 /\ r.h.pos <= 0
LEMMA FreshUnlocks ==
  ASSUME NEW q, NEW o, NEW y, NEW mode, Fresh(q, o, y, mode), "TRUNC" \notin mode
  PROVE  Unlocks(o, y, mode)
BY DroppedInside DEF Fresh, Unlocks, Aim

LEMMA ShutUnlocks ==
  ASSUME NEW r, NEW y, NEW mode, Inside(r, y), ~r.ok
  PROVE  Unlocks(r, y, mode)
BY DroppedInside DEF Unlocks

LEMMA CachedFacts ==
  ASSUME NEW q, NEW y, Inside(q, y), Plain(y), AtRoot(q), NEW slot, slot \in SlotNumbers, q.buf[slot].name = y.f,
         NEW mode, mode \subseteq Flags, NEW r, r = OpenCachedEntry(q, slot, mode)
  PROVE  Unlocks(r, y, mode) /\ ("TRUNC" \notin mode => r = Opened(q, q.buf[slot], slot, mode))
<1> PICK o : o = Opened(q, q.buf[slot], slot, mode)
  OBVIOUS
<1>1. Fresh(q, o, y, mode)
  BY CachedOpened
<1>2. CASE "TRUNC" \notin mode
  BY <1>1, <1>2, FreshUnlocks DEF OpenCachedEntry
<1>3. CASE "TRUNC" \in mode
  <2> PICK z, n : z = Whole(y) /\ n = 0
    OBVIOUS
  <2>1. r = Truncate(o, n)
    BY <1>3 DEF OpenCachedEntry
  <2>2. Inside(o, y) /\ o.h.open /\ o.h.pos = 0 /\ o.h.cur = 0 /\ y \in Contexts /\ y.exact \subseteq y.long
    BY <1>1 DEF Fresh, Inside
  <2>3. Beyond(y, z)
    BY <2>2, WholeBeyond
  <2>4. o.h.size = 0 => Inside(o, z) /\ o.h.pos = 0
    BY <2>2, WholeEmpty
  <2>5. Fit(o, y)
    <3>1. o.h \in Handle
      BY <2>2, OpenChain, InsideChain DEF Plain
    <3>2. o.h.size \in Nat
      BY <3>1, HandleTypes
    <3> QED BY <2>2, <3>2 DEF Fit
  <2>6. /\ Outcome(r, y, z) /\ r.h.open /\ (r.ok => o.ok)
        /\ r.ok => r.h.size = n /\ r.h.pos <= n /\ r.h.slot = o.h.slot
    <3>1. n \in Nat /\ (n = 0 \/ (y.f \in z.long => y.f \in y.exact))
      OBVIOUS
    <3>2. o.ok /\ o.h.size = 0 => Inside(o, z) /\ o.h.pos = 0
      BY <2>4
    <3> QED BY ONLY <2>1, <2>2, <2>3, <2>5, <3>1, <3>2, InsideTruncate
  <2> QED BY <1>3, <2>6 DEF Outcome, Unlocks, Aim
<1> QED BY <1>2, <1>3

\* A new file has no clusters.
Empty(r, mode) == r.ok /\ {"CREAT", "EXCL"} \subseteq mode /\ "TRUNC" \notin mode => r.h.first = 0 /\ r.h.size = 0
\* A new entry is written at once.
LEMMA NewFacts ==
  ASSUME NEW q, NEW y, Inside(q, y), Plain(y), AtRoot(q), NEW slot, Room(q.buf, slot, y.f),
         NEW mode, mode \subseteq Flags, NEW r, r = OpenNew(q, slot, y.f, mode)
  PROVE  Unlocks(r, y, mode) /\ Empty(r, mode)
<1> PICK p : p = CacheFlush(Poke(q, slot, NewEntry(y.f)))
  OBVIOUS
<1>1. /\ Inside(p, y) /\ p.h = Closed /\ (p.ok => AtRoot(p) /\ p.buf[slot] = NewEntry(y.f) /\ slot \in SlotNumbers)
  BY Created
<1>2. r = IF p.ok THEN OpenCachedEntry(p, slot, mode) ELSE p
  BY DEF OpenNew, Then
<1>3. CASE ~p.ok
  BY <1>1, <1>2, <1>3, ShutUnlocks DEF Empty
<1>4. CASE p.ok
  <2>1. NewEntry(y.f).name = y.f /\ NewEntry(y.f).first = 0 /\ NewEntry(y.f).size = 0
    BY NewEntryFacts DEF Inside, Contexts
  <2>2. Unlocks(r, y, mode) /\ ("TRUNC" \notin mode => r = Opened(p, p.buf[slot], slot, mode))
    BY <1>1, <1>2, <1>4, <2>1, CachedFacts
  <2>3. "TRUNC" \notin mode => r.h.first = 0 /\ r.h.size = 0
    <3>1. p \in State
      BY <1>1 DEF Inside, Sound
    <3> QED BY <1>1, <1>4, <2>1, <2>2, <3>1 DEF Opened, State
  <2> QED BY <2>2, <2>3 DEF Empty
<1> QED BY <1>3, <1>4

LEMMA OpenEntryFacts ==
  ASSUME NEW s, NEW y, Inside(s, y), Plain(y), s.h = Closed, NEW mode, mode \subseteq Flags, NEW r, r = OpenEntry(s, y.f, mode)
  PROVE  Unlocks(r, y, mode) /\ Empty(r, mode)
<1> PICK q, f : q = CacheRawBlock(s, RootDirStart, FALSE) /\ f = y.f
  OBVIOUS
<1>1. /\ Keeps(s, q) /\ (q.ok => q.num = RootDirStart /\ q.buf = Seen(s)[RootDirStart])
  <2> PICK b : b = RootDirStart
    OBVIOUS
  <2>1. Sound(s) /\ b \in Blocks \ ({0} \cup Mirrors)
    BY Layout DEF Inside
  <2>2. /\ Keeps(s, CacheRawBlock(s, b, FALSE))
        /\ CacheRawBlock(s, b, FALSE).ok => /\ CacheRawBlock(s, b, FALSE).num = b
                                            /\ CacheRawBlock(s, b, FALSE).buf = Seen(s)[b]
    BY ONLY <2>1, RawRead
  <2> QED BY <2>2
<1>2. Inside(q, y) /\ q.h = Closed /\ Seen(q) = Seen(s)
  BY <1>1, KeepsServes, InsideSame DEF Keeps, Leads, Seen
<1>3. r = IF q.ok THEN FindEntry(q, f, mode) ELSE q
  BY DEF OpenEntry, Then
<1>4. CASE ~q.ok
  BY <1>2, <1>3, <1>4, ShutUnlocks DEF Empty
<1>5. CASE q.ok
  <2>1. AtRoot(q)
    BY <1>1, <1>2, <1>5 DEF AtRoot, Root
  <2>2. RootOk(q.buf) /\ f \in Names /\ Sound(q)
    BY <1>2, <2>1 DEF AtRoot, Inside, Sight, Live, Contexts
  <2>3. Finding(q, r, f, mode)
    BY <1>3, <1>5, <2>2, FindFacts
  <2>4. CASE r = Fail(q)
    <3>1. Keeps(q, r) /\ ~r.ok
      BY <2>2, <2>4, FailKeeps
    <3>2. Inside(r, y)
      BY <1>2, <3>1, KeepsServes, InsideSame DEF Keeps, Leads
    <3> QED BY <3>1, <3>2, ShutUnlocks DEF Empty
  <2>5. ASSUME NEW slot \in SlotNumbers, q.buf[slot].name = f, ~({"CREAT", "EXCL"} \subseteq mode), r = OpenCachedEntry(q, slot, mode)
        PROVE  Unlocks(r, y, mode) /\ Empty(r, mode)
    BY <1>2, <2>1, <2>5, CachedFacts DEF Empty
  <2>6. ASSUME NEW slot, Room(q.buf, slot, f), r = OpenNew(q, slot, f, mode)
        PROVE  Unlocks(r, y, mode) /\ Empty(r, mode)
    BY <1>2, <2>1, <2>6, NewFacts
  <2> QED BY <2>3, <2>4, <2>5, <2>6 DEF Finding
<1> QED BY <1>4, <1>5

\* After a call on f that did not go well.
Dull(x) == [x EXCEPT !.exact = @ \ {x.f}, !.full = FALSE]
LEMMA DullFacts ==
  ASSUME NEW x, x \in Contexts, x.exact \subseteq x.long, NEW y, y = Dull(x)
  PROVE  /\ Less(x, y) /\ y.f = x.f /\ y.file = x.file /\ y.live = x.live /\ y.long = x.long
         /\ y.exact = x.exact \ {x.f} /\ y.full = FALSE /\ y.twin = x.twin
<1>1. /\ y.f = x.f /\ y.file = x.file /\ y.live = x.live /\ y.long = x.long
      /\ y.exact = x.exact \ {x.f} /\ y.full = FALSE /\ y.twin = x.twin
  BY DEF Dull, Contexts
<1>2. y \in Contexts
  <2>1. y = [f |-> y.f, file |-> y.file, live |-> y.live, long |-> y.long, exact |-> y.exact, full |-> y.full, twin |-> y.twin]
    BY DEF Dull, Contexts
  <2> QED BY <1>1, <2>1 DEF Contexts
<1> QED BY <1>1, <1>2 DEF Less
LEMMA DullInside ==
  ASSUME NEW s, NEW x, Inside(s, x)
  PROVE  Inside(s, Dull(x)) /\ Inside(s, Dull(Dropped(x)))
<1>1. ASSUME NEW y, Inside(s, y) PROVE Inside(s, Dull(y))
  <2>1. Less(y, Dull(y))
    BY <1>1, DullFacts DEF Inside
  <2> QED BY <1>1, <2>1, InsideLess
<1> QED BY <1>1, DroppedInside

\* A failure is not reported.
Okayed(m) == [m EXCEPT !.ok = TRUE]
LEMMA OkayedInside ==
  ASSUME NEW m, NEW x, Inside(m, x), x.f \notin x.exact, ~x.full, NEW r, r = Okayed(m)
  PROVE  Inside(r, x) /\ r.ok /\ r.blown = m.blown /\ r.h = m.h /\ SameCache(m, r) /\ r.start = m.start
<1>1. /\ r \in State /\ Sound(m) /\ SameCache(m, r) /\ r.h = m.h /\ r.ok /\ r.blown = m.blown /\ r.start = m.start
  BY DEF Okayed, State, Inside, Sound, SameCache
<1>2. Sound(r) /\ Seen(r) = Seen(m) /\ Main(r.card) = Main(m.card) /\ (Twin(m) => Twin(r))
  BY <1>1, SameSound
<1>3. Trusted(r, x) = Trusted(m, x) /\ x.full = FALSE
  BY DEF Trusted, Inside, Contexts
<1>4. Sight(r, x)
  BY <1>1, <1>2, <1>3 DEF Inside, Sight
<1>5. Stored(r, x) /\ Lags(r, x)
  BY <1>2 DEF Inside, Stored, Lags
<1> QED BY <1>1, <1>2, <1>4, <1>5 DEF Inside

LEMMA AimFacts ==
  ASSUME NEW y, y \in Contexts, y.exact \subseteq y.long, Plain(y), NEW mode, NEW x, x = Aim(y, mode)
  PROVE  Plain(x) /\ x.f = y.f /\ x \in Contexts /\ x.exact \subseteq x.long /\ Less(x, y) /\ x.f \in x.live
<1>1. CASE "TRUNC" \in mode
  <2>1. Beyond(y, x)
    BY <1>1, WholeBeyond DEF Aim
  <2> QED BY <2>1 DEF Beyond, Above, Less, Plain
<1>2. CASE "TRUNC" \notin mode
  BY <1>2 DEF Aim, Less, Plain
<1> QED BY <1>1, <1>2

\* What SDClass::open() leaves.
Entrance(r, y, mode) ==
  /\ Good(r) => Inside(r, Aim(y, mode)) /\ (r.h.open => Fit(r, Aim(y, mode)))
  /\ ~Good(r) /\ ("TRUNC" \notin mode \/ ~r.blown) => Inside(r, Dull(y))
  /\ Inside(r, Dull(Dropped(y)))

LEMMA AimEntrance ==
  ASSUME NEW r, NEW y, y \in Contexts, y.exact \subseteq y.long, Plain(y), NEW mode, Inside(r, Aim(y, mode)), r.h.pos <= r.h.size, r.ok
  PROVE  Entrance(r, y, mode)
<1>1. Inside(r, y)
  BY AimFacts, InsideLess
<1>2. Fit(r, Aim(y, mode))
  BY DEF Fit
<1> QED BY <1>1, <1>2, DullInside DEF Entrance

LEMMA ToEndShape ==
  ASSUME NEW s, NEW mode, s.ok
  PROVE  ToEnd(s, mode) = s \/ ToEnd(s, mode) = Okayed(SeekSet(s, s.h.size))
BY DEF ToEnd, Okayed

\* The move to the end of the file, whether it succeeds or not.
LEMMA EndEntrance ==
  ASSUME NEW s, NEW y, y \in Contexts, y.exact \subseteq y.long, Plain(y), NEW mode, Unlocks(s, y, mode), s.ok,
         NEW r, r = Okayed(SeekSet(s, s.h.size))
  PROVE  Entrance(r, y, mode)
<1> PICK x, m, n : x = Aim(y, mode) /\ m = SeekSet(s, n) /\ n = s.h.size
  OBVIOUS
<1>1. Plain(x) /\ x.f = y.f /\ x.f \in x.live /\ Less(x, y) /\ Inside(s, x) /\ s.h.open
  BY AimFacts DEF Unlocks
<1>2. s.h \in Handle /\ n \in Nat /\ s \in State
  <2>1. s.h \in Handle
    BY <1>1, OpenChain, InsideChain
  <2> QED BY <1>1, <2>1, HandleTypes DEF Inside, Sound
<1>3. Settled(s, x)
  <2>1. s.h.pos <= s.h.size
    BY <1>2 DEF Unlocks
  <2>2. Fit(s, x)
    BY <2>1 DEF Fit
  <2> QED BY <1>1, <2>2, FitSettled
<1>4. Roams(s, m, x, n)
  BY <1>1, <1>2, <1>3, InsideSeek
<1>5. Inside(m, x) /\ (m.ok => m.h.pos = n) /\ m.h.size = n /\ m \in State /\ r = Okayed(m)
  <2>1. Carried(s.h, m.h) /\ Inside(m, x) /\ (m.ok => m.h.pos = n)
    BY <1>4 DEF Roams
  <2> QED BY <2>1, CarriedFacts DEF Inside, Sound
<1>6. CASE m.ok
  <2>1. r = m
    <3>1. m.ok = TRUE
      BY <1>5, <1>6 DEF State
    <3>2. r = [m EXCEPT !.ok = TRUE]
      BY <1>5 DEF Okayed
    <3>3. m \in State
      BY <1>5
    <3> QED BY ONLY <3>1, <3>2, <3>3 DEF State
  <2>2. m.h.pos <= m.h.size
    BY <1>2, <1>5, <1>6
  <2> QED BY <1>5, <1>6, <2>1, <2>2, AimEntrance
<1>7. CASE ~m.ok
  <2>1. "TRUNC" \notin mode
    <3> SUFFICES ASSUME "TRUNC" \in mode PROVE FALSE
      OBVIOUS
    <3>1. n = 0
      BY DEF Unlocks
    <3> QED BY <1>2, <1>7, <3>1, SeekZero
  <2>2. x = y /\ Inside(m, y)
    BY <1>5, <2>1 DEF Aim
  <2>3. Inside(r, Dull(y)) /\ Inside(r, Dull(Dropped(y))) /\ r.blown = m.blown
    <3>1. Inside(m, Dull(y)) /\ Inside(m, Dull(Dropped(y)))
      BY <2>2, DullInside
    <3>2. Dull(y).f \notin Dull(y).exact /\ ~Dull(y).full
      BY DullFacts
    <3>3. Dull(Dropped(y)).f \notin Dull(Dropped(y)).exact /\ ~Dull(Dropped(y)).full
      <4> PICK w : w = Dropped(y)
        OBVIOUS
      <4>1. w \in Contexts /\ w.exact \subseteq w.long
        BY DroppedFacts DEF Less
      <4>2. Dull(w).f \notin Dull(w).exact /\ ~Dull(w).full
        BY ONLY <4>1, DullFacts
      <4> QED BY <4>2
    <3> QED BY <1>5, <3>1, <3>2, <3>3, OkayedInside
  <2>4. CASE y.f \in y.long
    <3>1. ~Stuck(s) /\ s.h.pos = 0
      BY <2>1 DEF Unlocks
    <3>2. n <= s.h.size
      BY <1>2
    <3>3. Certain(s, m)
      BY <1>4, <2>2, <2>4, <3>1, <3>2 DEF Roams
    <3>4. m.blown
      BY <1>7, <3>1, <3>3 DEF Certain
    <3> QED BY <2>1, <2>3, <3>4 DEF Entrance, Good
  <2>5. CASE y.f \notin y.long
    <3>1. y.f \notin y.exact /\ ~y.full
      BY <2>5 DEF Plain
    <3>2. Inside(r, y)
      BY <1>5, <2>2, <3>1, OkayedInside
    <3>3. Fit(r, y)
      BY <3>1 DEF Fit, Trusted
    <3>4. Aim(y, mode) = y
      BY <2>1 DEF Aim
    <3> QED BY <2>1, <2>3, <3>2, <3>3, <3>4 DEF Entrance
  <2> QED BY <2>4, <2>5
<1> QED BY <1>6, <1>7

\* open()
LEMMA InsideOpen ==
  ASSUME NEW s, NEW y, Inside(s, y), Plain(y), s.h = Closed, NEW mode, mode \subseteq Flags, NEW r, r = Open(s, y.f, mode)
  PROVE  Entrance(r, y, mode)
<1> PICK o : o = OpenEntry(s, y.f, mode)
  OBVIOUS
<1>1. Unlocks(o, y, mode) /\ y \in Contexts /\ y.exact \subseteq y.long
  BY OpenEntryFacts DEF Inside
<1>2. r = ToEnd(o, mode)
  BY DEF Open
<1>3. CASE ~o.ok
  <2>1. r = Holding(o, Closed)
    BY <1>2, <1>3 DEF ToEnd, Holding
  <2>2. Inside(r, Dropped(y)) /\ ~r.ok /\ r.blown = o.blown
    BY <1>1, <1>3, <2>1, InsideClosing DEF Unlocks
  <2>3. "TRUNC" \notin mode \/ ~r.blown => Inside(r, y)
    BY <1>1, <1>3, <2>1, <2>2, InsideClosing DEF Unlocks
  <2>4. Inside(r, Dull(Dropped(y)))
    BY <2>2, DullInside
  <2>5. "TRUNC" \notin mode \/ ~r.blown => Inside(r, Dull(y))
    BY <2>3, DullInside
  <2> QED BY <2>2, <2>4, <2>5 DEF Entrance, Good
<1>4. CASE o.ok
  <2>1. r = o \/ r = Okayed(SeekSet(o, o.h.size))
    BY <1>2, <1>4, ToEndShape
  <2>2. Inside(o, Aim(y, mode)) /\ o.h.pos <= o.h.size
    <3>1. Inside(o, Aim(y, mode)) /\ o.h.open
      BY <1>1, <1>4 DEF Unlocks
    <3>2. o.h \in Handle
      BY <3>1 DEF Inside, HandleOk
    <3>3. o.h.size \in Nat
      BY <3>2, HandleTypes
    <3> QED BY <1>1, <1>4, <3>1, <3>3 DEF Unlocks
  <2> QED BY <1>1, <1>4, <2>1, <2>2, AimEntrance, EndEntrance
<1> QED BY <1>3, <1>4

-----------------------------------------------------------------------------
(* Between two calls: the inductive invariant *)

\* A call that has not begun: what the volume holds between two calls.
Idle == Begin(Closed, Never, FALSE)
Fields == {"card", "buf", "num", "dirty", "mirror", "start"}
\* What is promised of the files when to are torn, mu muddled and as astray, no
\* call failed unless fa, and the power never unless ~po.
Promise(f, fl, to, mu, as, fa, po) ==
  [f |-> f, file |-> fl, live |-> Names \ to, long |-> Names \ (to \cup mu),
   exact |-> Names \ (to \cup mu \cup as), full |-> ~fa, twin |-> po]

GhostsOk ==
  /\ torn \subseteq Names /\ muddled \subseteq Names /\ astray \subseteq Names
  /\ failed \in BOOLEAN /\ powered \in BOOLEAN /\ calls \in Nat
  /\ ~failed => torn = {} /\ muddled = {} /\ astray = {}

\* Between two calls, in the state q of the volume.
Rest(q, fl, live, long, exact, full, twin) ==
  /\ Sound(q) /\ q.start \in Startable
  /\ fl \in [Names -> Handles] /\ (\A g \in Names : HandleOk(g, fl[g]))
  /\ \E ch : Live(Table(Seen(q)), Root(Seen(q)), fl, ch, live, long, exact, full)
  /\ \E ch : Live(Table(Main(q.card)), Root(Main(q.card)), AllClosed, ch, live, long, {}, FALSE)
  /\ \A g \in live : EntryIn(Root(Main(q.card)), g).size <= EntryIn(Root(Seen(q)), g).size
  /\ twin => Twin(q)
  /\ \A g \in exact : fl[g].open => fl[g].pos <= fl[g].size

IInv ==
  /\ DOMAIN vol = Fields /\ GhostsOk
  /\ Rest(Idle, file, Names \ torn, Names \ (torn \cup muddled), Names \ (torn \cup muddled \cup astray), ~failed, powered)

\* A file that is not open has no handle.
LEMMA NoHandle ==
  ASSUME NEW h \in Handles, ~h.open
  PROVE  h = Closed
BY DEF Handles, Handle

LEMMA BeginState ==
  ASSUME Idle \in State, NEW h \in Handles, NEW fuse \in Int, NEW late \in BOOLEAN, NEW s, s = Begin(h, fuse, late)
  PROVE  s \in State
BY DEF Begin, Idle, State, Handles

\* A call begins.
LEMMA Enter ==
  ASSUME IInv, NEW f \in Names \ torn, NEW fuse \in Int, NEW late \in BOOLEAN, NEW s, s = Begin(file[f], fuse, late),
         NEW x, x = Promise(f, file, torn, muddled, astray, failed, powered)
  PROVE  Inside(s, x) /\ (s.h.open => Fit(s, x)) /\ s.h = file[f] /\ s.ok /\ ~s.blown
<1> PICK q : q = Idle
  OBVIOUS
<1>1. Rest(q, file, x.live, x.long, x.exact, x.full, x.twin) /\ x \in Contexts /\ x.f = f /\ x.file = file /\ f \in x.live /\ x.exact \subseteq x.long
  <2>1. /\ file \in [Names -> Handles] /\ torn \in SUBSET Names /\ failed \in BOOLEAN /\ powered \in BOOLEAN
    BY DEF IInv, GhostsOk, Rest
  <2>2. /\ x \in Contexts /\ x.f = f /\ x.file = file /\ x.live = Names \ torn /\ x.long = Names \ (torn \cup muddled)
        /\ x.exact = Names \ (torn \cup muddled \cup astray) /\ x.full = (~failed) /\ x.twin = powered /\ x.exact \subseteq x.long
    <3> PICK fl, to, mu, as, fa, po : fl = file /\ to = torn /\ mu = muddled /\ as = astray /\ fa = failed /\ po = powered
      OBVIOUS
    <3>1. /\ f \in Names /\ fl \in [Names -> Handles] /\ to \in SUBSET Names /\ fa \in BOOLEAN /\ po \in BOOLEAN
          /\ x = Promise(f, fl, to, mu, as, fa, po)
      BY <2>1
    <3>2. /\ x \in Contexts /\ x.f = f /\ x.file = fl /\ x.live = Names \ to /\ x.long = Names \ (to \cup mu)
          /\ x.exact = Names \ (to \cup mu \cup as) /\ x.full = (~fa) /\ x.twin = po /\ x.exact \subseteq x.long
      BY <3>1 DEF Promise, Contexts
    <3> QED BY <3>2
  <2>3. Rest(q, file, Names \ torn, Names \ (torn \cup muddled), Names \ (torn \cup muddled \cup astray), ~failed, powered)
    BY DEF IInv
  <2> QED BY <2>2, <2>3
<1>2. SameCache(q, s) /\ q.start = s.start /\ s.ok = TRUE /\ s.blown = FALSE /\ s.h = file[f]

  <2>2. /\ q.card = vol.card /\ q.buf = vol.buf /\ q.num = vol.num /\ q.dirty = vol.dirty /\ q.mirror = vol.mirror
        /\ q.start = vol.start
    BY DEF Idle, Begin
  <2>3. /\ s.card = vol.card /\ s.buf = vol.buf /\ s.num = vol.num /\ s.dirty = vol.dirty /\ s.mirror = vol.mirror
        /\ s.start = vol.start /\ s.ok = TRUE /\ s.blown = FALSE /\ s.h = file[f]
    BY DEF Begin
  <2> QED BY <2>2, <2>3 DEF SameCache
<1>3. s \in State
  <2>1. q \in State /\ file[f] \in Handles
    BY <1>1 DEF Rest, Sound
  <2> QED BY <2>1, BeginState
<1>4. Sound(s) /\ Seen(s) = Seen(q) /\ Main(s.card) = Main(q.card) /\ (Twin(q) => Twin(s))
  <2>1. Sound(q)
    BY <1>1 DEF Rest
  <2> QED BY ONLY <2>1, <1>2, <1>3, SameSound
<1>5. Among(x, s.h) = file
  BY <1>1, <1>2 DEF Among, Rest
<1>6. Trusted(s, x) = x.exact
  BY <1>2 DEF Trusted
<1>7. Sight(s, x)
  <2>1. (x.full /\ s.ok) = x.full
    BY <1>1, <1>2 DEF Contexts
  <2> QED BY <1>1, <1>4, <1>5, <1>6, <2>1 DEF Sight, Rest
<1>8. Stored(s, x)
  BY <1>1, <1>4 DEF Stored, Rest
<1>9. Lags(s, x)
  BY <1>1, <1>4 DEF Lags, Rest
<1>10. Inside(s, x)
  BY <1>1, <1>2, <1>4, <1>7, <1>8, <1>9 DEF Inside, Rest
<1>11. s.h.open => Fit(s, x)
  <2>1. x.f \in x.exact /\ file[f].open => file[f].pos <= file[f].size
    BY <1>1 DEF Rest
  <2> QED BY <1>1, <1>2, <1>6, <2>1 DEF Fit
<1> QED BY <1>2, <1>10, <1>11

-----------------------------------------------------------------------------
(* A call ends, fails, or is interrupted *)

\* What a call on f leaves when it returns, ...
LEMMA Settles ==
  ASSUME NEW r, NEW w, Inside(r, w), r.ok \/ (w.f \notin w.exact /\ ~w.full), w.f \in w.exact /\ r.h.open => r.h.pos <= r.h.size,
         \A g \in w.exact \ {w.f} : w.file[g].open => w.file[g].pos <= w.file[g].size,
         NEW q, q \in State, SameCache(r, q), q.start = r.start, NEW fl, fl = Among(w, r.h)
  PROVE  Rest(q, fl, w.live, w.long, w.exact, w.full, w.twin)
<1>1. /\ w \in Contexts /\ Sound(r) /\ r.start \in Startable /\ HandleOk(w.f, r.h) /\ (\A g \in Names : HandleOk(g, w.file[g]))
      /\ Sight(r, w) /\ Stored(r, w) /\ Lags(r, w) /\ (w.twin => Twin(r)) /\ w.exact \subseteq w.long
  BY DEF Inside
<1>2. Sound(q) /\ Seen(q) = Seen(r) /\ Main(q.card) = Main(r.card) /\ (Twin(r) => Twin(q))
  BY ONLY <1>1, SameSound, q \in State, SameCache(r, q)
<1>3. r.h \in Handles
  BY <1>1 DEF Sound, State, Handles
<1>4. fl \in [Names -> Handles] /\ fl[w.f] = r.h /\ \A g \in Names \ {w.f} : fl[g] = w.file[g]
  BY <1>1, <1>3, AmongFacts
<1>5. \A g \in Names : HandleOk(g, fl[g])
  BY <1>1, <1>4
<1>6. Trusted(r, w) = w.exact /\ (w.full /\ r.ok) = w.full
  <2>1. w.full \in BOOLEAN /\ r.ok \in BOOLEAN
    BY <1>1 DEF Contexts, Sound, State
  <2>2. Trusted(r, w) = w.exact
    BY DEF Trusted
  <2>3. (w.full /\ r.ok) = w.full
    BY <2>1
  <2> QED BY <2>2, <2>3
<1>7. \E ch : Live(Table(Seen(q)), Root(Seen(q)), fl, ch, w.live, w.long, w.exact, w.full)
  BY <1>1, <1>2, <1>6 DEF Sight
<1>8. \E ch : Live(Table(Main(q.card)), Root(Main(q.card)), AllClosed, ch, w.live, w.long, {}, FALSE)
  BY <1>1, <1>2 DEF Stored
<1>9. \A g \in w.live : EntryIn(Root(Main(q.card)), g).size <= EntryIn(Root(Seen(q)), g).size
  BY <1>1, <1>2 DEF Lags
<1>10. \A g \in w.exact : fl[g].open => fl[g].pos <= fl[g].size
  <2> TAKE g \in w.exact
  <2>1. g \in Names
    BY <1>1 DEF Contexts
  <2>2. CASE g = w.f
    BY <1>4, <2>2
  <2>3. CASE g # w.f
    BY <1>4, <2>1, <2>3
  <2> QED BY <2>2, <2>3
<1> QED BY <1>1, <1>2, <1>4, <1>5, <1>7, <1>8, <1>9, <1>10 DEF Rest

\* The state after a restart.
Fresh1(r, q) ==
  /\ q \in State /\ q.card = r.card /\ q.buf = r.card[0] /\ q.num = 0 /\ ~q.dirty /\ q.mirror = 0 /\ q.start \in Startable

\* ... and when the power is lost.
LEMMA Restarts ==
  ASSUME NEW r, NEW w, Inside(r, w), NEW q, Fresh1(r, q)
  PROVE  Rest(q, AllClosed, w.live, w.long, {}, FALSE, FALSE)
<1>1. w \in Contexts /\ Sound(r) /\ Stored(r, w)
  BY DEF Inside
<1>2. q \in State /\ q.card = r.card /\ q.buf = q.card[0] /\ q.num = 0 /\ ~q.dirty /\ q.mirror = 0 /\ q.start \in Startable
  BY DEF Fresh1
<1>3. View(q) = q.card
  <2>1. 0 \in Blocks /\ q.card \in [Blocks -> Block]
    BY <1>2, Layout DEF State
  <2>2. View(q) = [q.card EXCEPT ![0] = q.card[0]]
    BY <1>2, <2>1 DEF View
  <2> QED BY <2>1, <2>2
<1>4. Sound(q)
  <2>1. Typed(q.card) /\ Typed(View(q))
    BY <1>1, <1>2, <1>3 DEF Sound, Coherent
  <2>2. q.num \in Numbers \ Mirrors
    BY <1>2, Layout DEF State
  <2>3. q.num \notin FatBlocks
    BY <1>2, Layout
  <2> QED BY <1>2, <2>1, <2>2, <2>3 DEF Sound, Coherent
<1>5. Seen(q) = Main(q.card) /\ Main(q.card) = Main(r.card)
  BY <1>2, <1>3 DEF Seen
<1>6. AllClosed \in [Names -> Handles] /\ \A g \in Names : HandleOk(g, AllClosed[g]) /\ ~AllClosed[g].open
  BY DEF AllClosed, Handles, HandleOk, Closed
<1>7. \E ch : Live(Table(Main(q.card)), Root(Main(q.card)), AllClosed, ch, w.live, w.long, {}, FALSE)
  BY <1>1, <1>5 DEF Stored
<1>8. \A g \in w.live : EntryIn(Root(Main(q.card)), g).size <= EntryIn(Root(Seen(q)), g).size
  <2> TAKE g \in w.live
  <2>1. g \in Names /\ RootOk(Root(Seen(q)))
    BY <1>1, <1>5, <1>7 DEF Live, Contexts
  <2>2. EntryIn(Root(Seen(q)), g).size \in 0 .. MaxSize
    BY <2>1, EntryFacts
  <2> QED BY <1>5, <2>2, FileAssumption
<1> QED BY <1>2, <1>4, <1>5, <1>6, <1>7, <1>8 DEF Rest

\* The files of which the last call failed, after a call on f that ended in r.
Failing(f, r, anew) == IF ~Good(r) THEN astray \cup {f} ELSE IF anew THEN astray \ {f} ELSE astray

\* What is promised when the call on f has ended in r.
Promised(f, r, anew, to, mu) == Promise(f, file, to, mu, Failing(f, r, anew), failed \/ ~Good(r), powered)

\* The call on f ends in r: to are then torn, mu muddled.
Concludes(f, r, anew, to, mu) ==
  /\ torn \subseteq to /\ to \subseteq torn \cup {f} /\ (Good(r) => to = torn)
  /\ mu \subseteq muddled \cup ({f} \cap astray) /\ muddled \subseteq mu \cup {f}
  /\ Inside(r, Promised(f, r, anew, to, mu))
  /\ Good(r) /\ r.h.open => Fit(r, Promised(f, r, anew, to, mu))

\* What is no longer promised after a call that failed.
LEMMA LostGhosts ==
  ASSUME GhostsOk, NEW f \in Names, NEW r, NEW anew, NEW to, NEW mu, Concludes(f, r, anew, to, mu), NEW as, as = Failing(f, r, anew),
         NEW fa, fa = (failed \/ ~Good(r))
  PROVE  /\ to \subseteq Names /\ mu \subseteq Names /\ as \subseteq Names /\ fa \in BOOLEAN
         /\ ~fa => to = {} /\ mu = {} /\ as = {}
         /\ Names \ (to \cup mu \cup as) \subseteq (Names \ (torn \cup muddled \cup astray)) \cup {f}
         /\ ~Good(r) => f \in as
BY DEF GhostsOk, Concludes, Failing

LEMMA PromisedFacts ==
  ASSUME IInv, NEW f \in Names, NEW r, NEW anew, NEW to, NEW mu, to \subseteq Names, NEW w, w = Promised(f, r, anew, to, mu)
  PROVE  /\ w \in Contexts /\ w.f = f /\ w.file = file /\ w.live = Names \ to /\ w.long = Names \ (to \cup mu)
         /\ w.exact = Names \ (to \cup mu \cup Failing(f, r, anew)) /\ w.full = (~(failed \/ ~Good(r))) /\ w.twin = powered
         /\ w.exact \subseteq w.long
<1>1. file \in [Names -> Handles] /\ failed \in BOOLEAN /\ powered \in BOOLEAN
  BY DEF IInv, GhostsOk, Rest
<1> QED BY <1>1 DEF Promised, Promise, Contexts

\* The state in which a call leaves the volume is one between two calls.
LEMMA Leaves ==
  ASSUME IInv, NEW f \in Names, NEW r, NEW anew, NEW to, NEW mu, Concludes(f, r, anew, to, mu),
         NEW a, NEW content, NEW kept, End(f, r, a, anew, content, kept), torn' = to, muddled' = mu
  PROVE  IInv'
<1> PICK as, fa : as = Failing(f, r, anew) /\ fa = (failed \/ ~Good(r))
  OBVIOUS
<1> PICK w : w = Promised(f, r, anew, to, mu)
  OBVIOUS
<1>1. GhostsOk
  BY DEF IInv
<1>2. /\ to \subseteq Names /\ mu \subseteq Names /\ as \subseteq Names /\ fa \in BOOLEAN
      /\ ~fa => to = {} /\ mu = {} /\ as = {}
      /\ Names \ (to \cup mu \cup as) \subseteq (Names \ (torn \cup muddled \cup astray)) \cup {f}
      /\ ~Good(r) => f \in as
  BY <1>1, LostGhosts
<1>3. Inside(r, w) /\ (Good(r) /\ r.h.open => Fit(r, w))
  BY DEF Concludes
<1>4. /\ w \in Contexts /\ w.f = f /\ w.file = file /\ w.live = Names \ to /\ w.long = Names \ (to \cup mu)
      /\ w.exact = Names \ (to \cup mu \cup as) /\ w.full = (~fa) /\ w.twin = powered
  <2>1. file \in [Names -> Handles] /\ failed \in BOOLEAN /\ powered \in BOOLEAN
    BY DEF IInv, GhostsOk, Rest
  <2> QED BY <1>2, <2>1 DEF Promised, Promise, Contexts
<1>5. failed' = fa /\ calls' \in Nat /\ torn' = to /\ muddled' = mu
  BY <1>1 DEF End, GhostsOk
<1>6. r \in State
  BY <1>3 DEF Inside, Sound
<1> PICK q : q = Idle'
  OBVIOUS
<1>7. CASE Return(f, r, anew, content)
  <2>1. astray' = as /\ powered' = powered /\ file' = [file EXCEPT ![f] = r.h] /\ vol' = [x \in DOMAIN vol |-> r[x]]
    BY <1>7 DEF Return, Failing
  <2>2. DOMAIN vol = Fields
    BY DEF IInv
  <2>3. DOMAIN vol' = Fields
    BY <2>1, <2>2
  <2>4. /\ vol'.card = r.card /\ vol'.buf = r.buf /\ vol'.num = r.num /\ vol'.dirty = r.dirty /\ vol'.mirror = r.mirror
        /\ vol'.start = r.start
    BY <2>1, <2>2 DEF Fields
  <2>5. SameCache(r, q) /\ q.start = r.start
    BY <2>4 DEF Idle, Begin, SameCache
  <2>6. q \in State
    BY <2>4, <1>6 DEF Idle, Begin, State, Never
  <2>7. file' = Among(w, r.h)
    BY <2>1, <1>4 DEF Among
  <2>8. r.ok \/ (w.f \notin w.exact /\ ~w.full)
    BY <1>2, <1>4 DEF Good
  <2>9. w.f \in w.exact /\ r.h.open => r.h.pos <= r.h.size
    <3> HAVE w.f \in w.exact /\ r.h.open
    <3>1. Good(r)
      BY <1>2, <1>4
    <3>2. Fit(r, w) /\ r.ok
      BY <1>3, <3>1 DEF Good
    <3> QED BY <3>2 DEF Fit, Trusted
  <2>10. \A g \in w.exact \ {w.f} : w.file[g].open => w.file[g].pos <= w.file[g].size
    <3>1. \A g \in Names \ (torn \cup muddled \cup astray) : file[g].open => file[g].pos <= file[g].size
      BY DEF IInv, Rest
    <3> QED BY <1>2, <1>4, <3>1
  <2>11. Rest(q, file', w.live, w.long, w.exact, w.full, w.twin)
    <3> PICK fl : fl = file'
      OBVIOUS
    <3>1. fl = Among(w, r.h)
      BY <2>7
    <3>2. Rest(q, fl, w.live, w.long, w.exact, w.full, w.twin)
      BY <1>3, <2>5, <2>6, <2>8, <2>9, <2>10, <3>1, Settles
    <3> QED BY <3>2
  <2>12. GhostsOk'
    BY <1>1, <1>2, <1>5, <2>1 DEF GhostsOk
  <2> QED BY <1>4, <1>5, <2>1, <2>3, <2>11, <2>12 DEF IInv
<1>8. CASE PowerLoss(r)
  <2>1. astray' = Names /\ powered' = FALSE /\ file' = AllClosed /\ vol' = Mount(r.card) /\ r.blown
    BY <1>8 DEF PowerLoss, AllClosed
  <2>2. DOMAIN vol' = Fields
    BY <2>1 DEF Mount, Fields
  <2>3. Fresh1(r, q)
    <3>1. /\ q.card = r.card /\ q.buf = r.card[0] /\ q.num = 0 /\ q.dirty = FALSE /\ q.mirror = 0 /\ q.start = 2
      BY <2>1 DEF Idle, Begin, Mount
    <3>2. 2 \in Startable
      BY VolumeAssumption DEF Startable, LastCluster
    <3>3. q \in State
      <4>1. r.card \in [Blocks -> Block] /\ 0 \in Blocks /\ 0 \in Numbers
        BY <1>6, Layout DEF State, Numbers
      <4> QED BY <2>1, <4>1 DEF Idle, Begin, Mount, State, Never
    <3> QED BY <3>1, <3>2, <3>3 DEF Fresh1
  <2>4. Rest(q, AllClosed, w.live, w.long, {}, FALSE, FALSE)
    BY <1>3, <2>3, Restarts
  <2>5. fa = TRUE
    BY <2>1 DEF Good
  <2>6. GhostsOk'
    BY <1>1, <1>2, <1>5, <2>1, <2>5 DEF GhostsOk
  <2>7. Names \ (to \cup mu \cup Names) = {}
    OBVIOUS
  <2>8. Rest(Idle', file', Names \ torn', Names \ (torn' \cup muddled'), Names \ (torn' \cup muddled' \cup astray'), ~failed', powered')
    BY <1>4, <1>5, <2>1, <2>4, <2>5, <2>7
  <2> QED BY <2>2, <2>6, <2>8 DEF IInv
<1> QED BY <1>7, <1>8 DEF End

\* What is promised during a call on f that makes mu muddled.
Context(f, mu) == Promise(f, file, torn, mu, astray, failed, powered)
\* The files muddled by a call on f.
Muddling(f, mu) == muddled \subseteq mu /\ mu \subseteq muddled \cup ({f} \cap astray)

LEMMA ContextFacts ==
  ASSUME IInv, NEW f \in Names \ torn, NEW mu, Muddling(f, mu), NEW x, x = Context(f, mu)
  PROVE  /\ x \in Contexts /\ x.f = f /\ x.file = file /\ x.live = Names \ torn /\ x.long = Names \ (torn \cup mu)
         /\ x.exact = Names \ (torn \cup mu \cup astray) /\ x.full = (~failed) /\ x.twin = powered
         /\ x.exact \subseteq x.long /\ x.f \in x.live /\ Plain(x)
<1>1. file \in [Names -> Handles] /\ failed \in BOOLEAN /\ powered \in BOOLEAN /\ GhostsOk
  BY DEF IInv, GhostsOk, Rest
<1>2. /\ x \in Contexts /\ x.f = f /\ x.file = file /\ x.live = Names \ torn /\ x.long = Names \ (torn \cup mu)
      /\ x.exact = Names \ (torn \cup mu \cup astray) /\ x.full = (~failed) /\ x.twin = powered
  BY <1>1 DEF Context, Promise, Contexts
<1>3. x.full => x.f \in x.exact
  BY <1>1, <1>2 DEF GhostsOk, Muddling
<1> QED BY <1>2, <1>3 DEF Plain

LEMMA EnterContext ==
  ASSUME IInv, NEW f \in Names \ torn, NEW fuse \in Int, NEW late \in BOOLEAN, NEW s, s = Begin(file[f], fuse, late),
         NEW mu, Muddling(f, mu), NEW x, x = Context(f, mu)
  PROVE  Inside(s, x) /\ (s.h.open => Fit(s, x)) /\ s.h = file[f] /\ s.ok /\ ~s.blown
<1> PICK y : y = Promise(f, file, torn, muddled, astray, failed, powered)
  OBVIOUS
<1>1. Inside(s, y) /\ (s.h.open => Fit(s, y)) /\ s.h = file[f] /\ s.ok /\ ~s.blown
  BY Enter
<1>2. /\ y \in Contexts /\ y.f = f /\ y.file = file /\ y.live = Names \ torn /\ y.long = Names \ (torn \cup muddled)
      /\ y.exact = Names \ (torn \cup muddled \cup astray) /\ y.full = (~failed) /\ y.twin = powered
  <2>1. Muddling(f, muddled) /\ y = Context(f, muddled)
    BY DEF Muddling, Context
  <2> QED BY <2>1, ContextFacts
<1>3. /\ x \in Contexts /\ x.f = f /\ x.file = file /\ x.live = Names \ torn /\ x.long = Names \ (torn \cup mu)
      /\ x.exact = Names \ (torn \cup mu \cup astray) /\ x.full = (~failed) /\ x.twin = powered /\ x.exact \subseteq x.long
  BY ContextFacts
<1>4. Less(y, x)
  BY <1>2, <1>3 DEF Less, Muddling
<1>5. Inside(s, x)
  BY <1>1, <1>4, InsideLess
<1>6. s.h.open => Fit(s, x)
  BY <1>1, <1>2, <1>3 DEF Fit, Trusted, Muddling
<1> QED BY <1>1, <1>5, <1>6

\* A call on f that failed: less is promised.
LEMMA ConcludesFailed ==
  ASSUME IInv, NEW f \in Names \ torn, NEW mu, Muddling(f, mu), NEW x, x = Context(f, mu), NEW r, ~Good(r), Inside(r, x), NEW anew
  PROVE  Concludes(f, r, anew, torn, mu)
<1> PICK w : w = Promised(f, r, anew, torn, mu)
  OBVIOUS
<1>1. /\ x \in Contexts /\ x.f = f /\ x.file = file /\ x.live = Names \ torn /\ x.long = Names \ (torn \cup mu)
      /\ x.exact = Names \ (torn \cup mu \cup astray) /\ x.twin = powered /\ x.exact \subseteq x.long
  BY ContextFacts
<1>2. /\ w \in Contexts /\ w.f = f /\ w.file = file /\ w.live = Names \ torn /\ w.long = Names \ (torn \cup mu)
      /\ w.exact = Names \ (torn \cup mu \cup Failing(f, r, anew)) /\ w.full = (~(failed \/ ~Good(r))) /\ w.twin = powered
      /\ w.exact \subseteq w.long
  <2>1. torn \subseteq Names
    BY DEF IInv, GhostsOk
  <2> QED BY <2>1, PromisedFacts
<1>3. Less(x, w)
  BY <1>1, <1>2 DEF Less, Failing
<1>4. Inside(r, w)
  BY <1>3, InsideLess
<1> QED BY <1>4 DEF Concludes, Muddling

\* A call on f after which as much is promised as before it.
LEMMA Concludes1 ==
  ASSUME IInv, NEW f \in Names \ torn, NEW mu, Muddling(f, mu), NEW x, x = Context(f, mu), NEW r, Inside(r, x), r.h.open => Fit(r, x)
  PROVE  Concludes(f, r, FALSE, torn, mu)
<1>1. CASE ~Good(r)
  BY <1>1, ConcludesFailed
<1>2. CASE Good(r)
  <2>1. failed \in BOOLEAN
    BY DEF IInv, GhostsOk
  <2>2. (failed \/ ~Good(r)) = failed
    BY <1>2, <2>1
  <2>3. Promised(f, r, FALSE, torn, mu) = x
    BY <1>2, <2>2 DEF Promised, Context, Failing
  <2> QED BY <2>3 DEF Concludes, Muddling
<1> QED BY <1>1, <1>2

-----------------------------------------------------------------------------
(* One lemma for each call *)

LEMMA AccidentFacts ==
  ASSUME NEW a \in Accidents
  PROVE  a.fuse \in Int /\ a.late \in BOOLEAN
<1>1. a = Calm \/ a \in [fuse : 0 .. MaxAccess, late : BOOLEAN]
  BY DEF Accidents
<1>2. CASE a = Calm
  BY <1>2 DEF Calm, Never
<1>3. CASE a \in [fuse : 0 .. MaxAccess, late : BOOLEAN]
  <2>1. a.fuse \in 0 .. MaxAccess /\ a.late \in BOOLEAN
    BY <1>3
  <2> QED BY <2>1, FileAssumption
<1> QED BY <1>1, <1>2, <1>3

LEMMA DoFacts ==
  ASSUME IInv, NEW f \in Names \ torn, NEW a \in Accidents, NEW s, s = Do(file[f], a), NEW mu, Muddling(f, mu), NEW x, x = Context(f, mu)
  PROVE  Inside(s, x) /\ (s.h.open => Fit(s, x)) /\ s.h = file[f] /\ s.ok /\ ~s.blown
<1> PICK fuse, late : fuse = a.fuse /\ late = a.late
  OBVIOUS
<1>1. fuse \in Int /\ late \in BOOLEAN /\ s = Begin(file[f], fuse, late)
  BY AccidentFacts DEF Do
<1> QED BY <1>1, EnterContext

\* read()
LEMMA ReadStep ==
  ASSUME IInv, NEW f \in Names \ torn, NEW a \in Accidents, NEW n \in Lengths, ReadCall(f, n, a)
  PROVE  IInv'
<1> PICK s : s = Do(file[f], a)
  OBVIOUS
<1> PICK r, content, kept : r = Read(s, n) /\ content = want[f] /\ kept = saved[f]
  OBVIOUS
<1> PICK x : x = Context(f, muddled)
  OBVIOUS
<1>1. s.h.open /\ End(f, r, a, FALSE, content, kept) /\ torn' = torn /\ muddled' = muddled /\ Muddling(f, muddled)
  <2>1. s.h = file[f]
    BY DEF Do, Begin
  <2> QED BY <2>1 DEF ReadCall, Muddling
<1>2. Inside(s, x) /\ Fit(s, x) /\ Plain(x)
  BY <1>1, DoFacts, ContextFacts
<1>3. Inside(r, x) /\ Fit(r, x)
  <2>1. n \in Nat
    BY FileAssumption
  <2> QED BY <1>1, <1>2, <2>1, InsideRead
<1>4. Concludes(f, r, FALSE, torn, muddled)
  BY <1>1, <1>3, Concludes1
<1> QED BY <1>1, <1>4, Leaves

\* seekSet()
LEMMA SeekStep ==
  ASSUME IInv, NEW f \in Names \ torn, NEW a \in Accidents, NEW pos \in Positions, SeekCall(f, pos, a)
  PROVE  IInv'
<1> PICK s : s = Do(file[f], a)
  OBVIOUS
<1> PICK r, content, kept : r = SeekSet(s, pos) /\ content = want[f] /\ kept = saved[f]
  OBVIOUS
<1> PICK x : x = Context(f, muddled)
  OBVIOUS
<1>1. s.h.open /\ End(f, r, a, FALSE, content, kept) /\ torn' = torn /\ muddled' = muddled /\ Muddling(f, muddled)
  <2>1. s.h = file[f]
    BY DEF Do, Begin
  <2> QED BY <2>1 DEF SeekCall, Muddling
<1>2. Inside(s, x) /\ Fit(s, x) /\ Plain(x) /\ x.f \in x.live /\ s.ok
  BY <1>1, DoFacts, ContextFacts
<1>3. Inside(r, x) /\ Fit(r, x)
  <2>1. pos \in Nat
    BY FileAssumption
  <2>2. Settled(s, x)
    BY <1>1, <1>2, FitSettled
  <2>3. Roams(s, r, x, pos)
    BY <1>1, <1>2, <2>1, <2>2, InsideSeek
  <2>4. r.h.size = s.h.size
    BY <2>3, CarriedFacts DEF Roams
  <2>5. x.f \in Trusted(r, x) => r.ok \/ x.f \notin x.exact
    BY DEF Trusted
  <2>6. CASE r.ok
    BY <2>3, <2>4, <2>6 DEF Roams, Fit
  <2>7. CASE ~r.ok
    BY <2>3, <2>7 DEF Roams, Fit, Trusted
  <2> QED BY <2>6, <2>7
<1>4. Concludes(f, r, FALSE, torn, muddled)
  BY <1>1, <1>3, Concludes1
<1> QED BY <1>1, <1>4, Leaves

\* write()
LEMMA WriteStep ==
  ASSUME IInv, NEW f \in Names \ torn, NEW a \in Accidents, NEW n \in Lengths, WriteCall(f, n, a)
  PROVE  IInv'
<1> PICK s, v : s = Do(file[f], a) /\ v = calls
  OBVIOUS
<1> PICK r : r = Write(s, n, v)
  OBVIOUS
<1> PICK mu : mu = muddled \cup ({f} \cap astray)
  OBVIOUS
<1> PICK x : x = Context(f, mu)
  OBVIOUS
<1>1. s.h.open /\ torn' = torn /\ muddled' = mu /\ Muddling(f, mu) /\ Target(s.h) + n <= MaxSize
  <2>1. s.h = file[f]
    BY DEF Do, Begin
  <2> QED BY <2>1 DEF WriteCall, Muddling, Target
<1>2. \E content, kept : End(f, r, a, FALSE, content, kept)
  BY DEF WriteCall
<1>3. Inside(s, x) /\ Fit(s, x) /\ Plain(x)
  BY <1>1, DoFacts, ContextFacts
<1>4. x.f \in x.long => x.f \in x.exact
  <2>1. x.f = f /\ x.long = Names \ (torn \cup mu) /\ x.exact = Names \ (torn \cup mu \cup astray)
    <3>1. IInv /\ f \in Names \ torn /\ x = Context(f, mu) /\ Muddling(f, mu)
      BY <1>1
    <3> QED BY ONLY <3>1, ContextFacts
  <2> QED BY <1>1, <2>1 DEF Muddling
<1>5. Inside(r, x) /\ Fit(r, x)
  <2>1. n \in Nat /\ v \in Int
    BY FileAssumption DEF IInv, GhostsOk
  <2> QED BY <1>1, <1>3, <1>4, <2>1, InsideWrite
<1>6. Concludes(f, r, FALSE, torn, mu)
  BY <1>1, <1>5, Concludes1
<1> QED BY <1>1, <1>2, <1>6, Leaves

\* sync() and close()
LEMMA SyncStep ==
  ASSUME IInv, NEW f \in Names \ torn, NEW a \in Accidents, NEW closing \in BOOLEAN, SyncCall(f, closing, a)
  PROVE  IInv'
<1> PICK s, q, x : s = Do(file[f], a) /\ q = Sync(s) /\ x = Context(f, muddled)
  OBVIOUS
<1> PICK r : r = IF closing THEN Holding(q, Closed) ELSE q
  OBVIOUS
<1>1. s.h.open /\ torn' = torn /\ muddled' = muddled /\ Muddling(f, muddled)
  <2>1. s.h = file[f]
    BY DEF Do, Begin
  <2> QED BY <2>1 DEF SyncCall, Muddling
<1>2. \E content, kept : End(f, r, a, FALSE, content, kept)
  BY DEF SyncCall, Holding
<1>3. Inside(s, x) /\ Fit(s, x) /\ Plain(x) /\ x.f \in x.live /\ s.ok
  BY <1>1, DoFacts, ContextFacts
<1>4. Writes(s, q, x)
  BY <1>1, <1>3, SyncFacts
<1>5. Inside(q, x) /\ LikeH(s.h, q.h) /\ (q.ok => ~q.h.dirty)
  BY <1>4 DEF Writes
<1>6. Fit(q, x)
  BY <1>3, <1>5 DEF Fit, Trusted, LikeH
<1>7. Inside(r, x) /\ (r.h.open => Fit(r, x))
  <2>1. CASE ~closing
    BY <1>5, <1>6, <2>1
  <2>2. CASE closing
    <3>1. Settled(s, x)
      BY <1>1, <1>3, FitSettled
    <3>2. x.full /\ q.ok /\ q.h.open => ~q.h.dirty /\ (q.h.size = 0 => q.h.cur = 0)
      BY <1>3, <1>5, <3>1 DEF Settled, LikeH
    <3>3. Inside(r, x) /\ r.h = Closed
      BY <1>5, <2>2, <3>2, InsideClosing
    <3> QED BY <3>3 DEF Closed
  <2> QED BY <2>1, <2>2
<1>8. Concludes(f, r, FALSE, torn, muddled)
  BY <1>1, <1>7, Concludes1
<1> QED BY <1>1, <1>2, <1>8, Leaves

\* A truncation or a removal of f was interrupted.
LEMMA ConcludesTorn ==
  ASSUME IInv, NEW f \in Names \ torn, NEW x, x \in Contexts, x.exact \subseteq x.long, x.f = f, x.file = file, x.live = Names \ torn,
         NEW mu, Muddling(f, mu), Names \ (torn \cup mu) \subseteq x.long, Names \ (torn \cup mu \cup astray \cup {f}) \subseteq x.exact,
         x.twin = powered, NEW r, ~Good(r), Inside(r, Dropped(x)),
         NEW anew, NEW to, to = torn \cup {f}
  PROVE  Concludes(f, r, anew, to, mu)
<1> PICK w, y : w = Promised(f, r, anew, to, mu) /\ y = Dropped(x)
  OBVIOUS
<1>1. /\ y \in Contexts /\ y.f = f /\ y.file = file /\ y.live = (Names \ torn) \ {f} /\ y.long = x.long /\ y.exact = x.exact /\ y.twin = powered
  <2>1. x \in Contexts /\ x.exact \subseteq x.long /\ y = Dropped(x)
    OBVIOUS
  <2>2. /\ Less(x, y) /\ y.f = x.f /\ y.file = x.file /\ y.live = x.live \ {x.f} /\ y.long = x.long
        /\ y.exact = x.exact /\ y.twin = x.twin
    BY ONLY <2>1, DroppedFacts
  <2> QED BY <2>2 DEF Less
<1>2. /\ w \in Contexts /\ w.f = f /\ w.file = file /\ w.live = Names \ to /\ w.long = Names \ (to \cup mu)
      /\ w.exact = Names \ (to \cup mu \cup Failing(f, r, anew)) /\ w.full = (~(failed \/ ~Good(r))) /\ w.twin = powered
      /\ w.exact \subseteq w.long
  <2>1. to \subseteq Names
    BY DEF IInv, GhostsOk
  <2> QED BY <2>1, PromisedFacts
<1>3. Failing(f, r, anew) = astray \cup {f}
  BY DEF Failing
<1>4. Less(y, w)
  BY <1>1, <1>2, <1>3 DEF Less
<1>5. Inside(r, w)
  BY <1>4, InsideLess
<1> QED BY <1>5 DEF Concludes, Muddling

\* truncate()
LEMMA TruncateStep ==
  ASSUME IInv, NEW f \in Names \ torn, NEW a \in Accidents, NEW length \in Positions, TruncateCall(f, length, a)
  PROVE  IInv'
<1> PICK s, mu : s = Do(file[f], a) /\ mu = muddled \cup ({f} \cap astray)
  OBVIOUS
<1> PICK r, x : r = Truncate(s, length) /\ x = Context(f, mu)
  OBVIOUS
<1> PICK to : to = torn \cup (IF r.blown THEN {f} ELSE {})
  OBVIOUS
<1>1. s.h.open /\ torn' = to /\ muddled' = mu /\ Muddling(f, mu)
  <2>1. s.h = file[f]
    BY DEF Do, Begin
  <2> QED BY <2>1 DEF TruncateCall, Muddling
<1>2. \E content, kept : End(f, r, a, FALSE, content, kept)
  BY DEF TruncateCall
<1>3. Inside(s, x) /\ Fit(s, x) /\ Plain(x) /\ s.ok /\ length \in Nat
  BY <1>1, DoFacts, ContextFacts, FileAssumption
<1>4. /\ x \in Contexts /\ x.f = f /\ x.file = file /\ x.live = Names \ torn /\ x.long = Names \ (torn \cup mu)
      /\ x.exact = Names \ (torn \cup mu \cup astray) /\ x.full = (~failed) /\ x.twin = powered
      /\ x.exact \subseteq x.long /\ x.f \in x.live
  <2>1. IInv /\ f \in Names \ torn /\ x = Context(f, mu) /\ Muddling(f, mu)
    BY <1>1
  <2> QED BY ONLY <2>1, ContextFacts
<1>5. x.f \in x.long => x.f \in x.exact
  BY <1>1, <1>4 DEF Muddling
<1>6. (~r.blown => Inside(r, x) /\ Fit(r, x)) /\ Inside(r, Dropped(x))
  <2>1. CASE s.h.size = 0
    <3>1. r = s \/ r = Fail(s)
      BY <1>3, <2>1, TruncateShape
    <3>2. Keeps(s, r) /\ r.h = s.h
      BY <1>3, <3>1, FailKeeps, KeepsSame DEF Inside, Leads, Keeps
    <3>3. Inside(r, x)
      BY <1>3, <3>2, KeepsServes, InsideSame
    <3>4. Fit(r, x)
      BY <1>3, <3>2 DEF Fit, Trusted
    <3> QED BY <3>3, <3>4, DroppedInside
  <2>2. CASE s.h.size # 0
    <3>1. Beyond(x, x)
      BY <1>3, <1>4 DEF Beyond, Above, Less
    <3>2. /\ Outcome(r, x, x)
          /\ r.ok => r.h.size = length /\ r.h.pos <= length
      BY <1>1, <1>3, <1>5, <2>2, <3>1, InsideTruncate
    <3>3. ~r.blown => Inside(r, x)
      BY <3>2 DEF Outcome
    <3>4. Fit(r, x)
      BY <3>2 DEF Fit, Trusted
    <3> QED BY <3>2, <3>3, <3>4 DEF Outcome
  <2> QED BY <2>1, <2>2
<1>7. Concludes(f, r, FALSE, to, mu)
  <2>1. CASE r.blown
    <3>1. ~Good(r) /\ to = torn \cup {f}
      BY <2>1 DEF Good
    <3>2. Names \ (torn \cup mu) \subseteq x.long /\ Names \ (torn \cup mu \cup astray \cup {f}) \subseteq x.exact
      BY <1>4
    <3> QED BY <1>1, <1>4, <1>6, <3>1, <3>2, ConcludesTorn
  <2>2. CASE ~r.blown
    <3>1. to = torn
      BY <2>2
    <3> QED BY <1>1, <1>6, <2>2, <3>1, Concludes1
  <2> QED BY <2>1, <2>2
<1> QED BY <1>1, <1>2, <1>7, Leaves

\* A file without clusters is removed: nothing is lost, even when that is interrupted.
LEMMA UnmadeEntry ==
  ASSUME NEW q, NEW x, Inside(q, x), x.f \in x.live, q.h.open, q.h.size = 0, NEW c, c = <<>>, OfFile(q, x, c), q.num = RootDirStart, q.ok,
         NEW slot, slot = q.h.slot, NEW v, v = Deleted(Root(Seen(q))[slot]), NEW k, k = Closed, NEW p, p = Holding(Poked(q, slot, v), k)
  PROVE  Inside(p, x) /\ Sound(p) /\ p.h = Closed
<1> PICK dir, root, f : dir = Entering(Root(Seen(q)), slot, v) /\ root = Root(Seen(q)) /\ f = x.f
  OBVIOUS
<1>1. /\ q.h \in Handle /\ HandleOk(f, q.h) /\ Entered(q.h, root[slot]) /\ Sound(q)
  BY OpenChain
<1>2. f \in Names /\ RootOk(root) /\ slot \in SlotNumbers
  BY <1>1, HandleTypes DEF Inside, Contexts, Sight, Live, Handle
<1>3. /\ root[slot].name = f /\ root[slot] \in DirEntry /\ root[slot].first \in {0} \cup Clusters /\ root[slot].size <= MaxSize
      /\ root[slot].size <= 0
  BY <1>1, <1>2 DEF HandleOk, Entered, RootOk, Roots
<1>4. v \in DirEntry /\ v.name = "deleted" /\ v.first \in {0} \cup Clusters /\ v.size <= MaxSize
  BY <1>3, DeletedFacts
<1>5. Beside(f, slot, root, dir) /\ EntryIn(dir, f) = Free
  <2>1. /\ RootOk(root) /\ slot \in SlotNumbers /\ f \in Names /\ root[slot].name = f /\ v \in DirEntry /\ v.name \in {f, "deleted"}
        /\ v.first \in {0} \cup Clusters /\ v.size <= MaxSize /\ dir = Entering(root, slot, v) /\ v.name = "deleted"
    BY <1>2, <1>3, <1>4
  <2> QED BY ONLY <2>1, BesideEntry
<1>6. \A g \in x.live \ {x.f} : /\ EntryIn(dir, g) = EntryIn(Root(Seen(q)), g)
                                /\ x.file[g].open => x.file[g].slot # slot
  <2>1. x.live \subseteq Names
    BY DEF Inside, Contexts
  <2>2. Inside(q, x) /\ x.f \in x.live /\ slot \in SlotNumbers /\ Root(Seen(q))[slot].name \notin Names \ {x.f}
    BY <1>2, <1>3
  <2>3. \A g \in x.live \ {x.f} : x.file[g].open => x.file[g].slot # slot
    BY ONLY <2>2, OtherSlots
  <2> QED BY <1>5, <2>1, <2>3 DEF Beside
<1>7. EntryIn(Root(Seen(q)), x.f).size <= EntryIn(dir, x.f).size
  <2>1. EntryIn(root, f) = root[slot]
    BY <1>2, <1>3, EntryFacts
  <2> QED BY <1>3, <1>5, <2>1 DEF Free
<1>8. \A d : OfFile(q, x, d) => FileOk(Table(Seen(q)), dir, x.f, k, d, x.f \in x.long, x.f \in Trusted(q, x), x.full /\ q.ok)
  <2> SUFFICES ASSUME NEW d, OfFile(q, x, d)
               PROVE  FileOk(Table(Seen(q)), dir, x.f, k, d, x.f \in x.long, x.f \in Trusted(q, x), x.full /\ q.ok)
    OBVIOUS
  <2>1. OfFile(q, x, c)
    OBVIOUS
  <2>2. d = c
    BY ONLY <2>1, OfFile(q, x, d), OneChain
  <2> PICK u, lo, ex, fu : u = Table(Seen(q)) /\ lo = (x.f \in x.long) /\ ex = (x.f \in Trusted(q, x)) /\ fu = (x.full /\ q.ok)
    OBVIOUS
  <2>3. EntryIn(dir, f) = Free
    BY <1>5
  <2>4. FileOk(u, dir, f, Closed, <<>>, lo, ex, fu)
    BY ONLY <2>3, NoFile
  <2> QED BY <2>2, <2>4
<1>9. k \in Handles /\ HandleOk(x.f, k)
  BY DEF Handles, HandleOk, Closed
<1>10. /\ Inside(q, x) /\ x.f \in x.live /\ q.num = RootDirStart /\ slot \in SlotNumbers /\ v \in DirEntry
       /\ p = Holding(Poked(q, slot, v), k) /\ dir = Entering(Root(Seen(q)), slot, v) /\ RootOk(dir)
  BY <1>2, <1>4, <1>5 DEF Beside
<1>11. Inside(p, x) /\ p.h = k
  <2>1. Inside(p, x) /\ p.h = k /\ p.ok = q.ok /\ p.blown = q.blown /\ ~Stuck(p) /\ Main(p.card) = Main(q.card)
        /\ p.left = q.left /\ p.got = q.got
    BY ONLY <1>6, <1>7, <1>8, <1>9, <1>10, InsideRoot
  <2> QED BY <2>1
<1> QED BY <1>11 DEF Inside

LEMMA Unmade ==
  ASSUME NEW t, NEW x, Inside(t, x), x.f \in x.live, t.h.open, t.h.size = 0, NEW c, c = <<>>, OfFile(t, x, c), NEW r, r = Marking(t, t.h.slot)
  PROVE  Inside(r, x)
<1> PICK q, slot : q = CacheRawBlock(t, RootDirStart, TRUE) /\ slot = t.h.slot
  OBVIOUS
<1>0. Sound(t)
  BY DEF Inside
<1>1. CASE ~t.ok
  <2>1. r = t
    BY <1>0, <1>1, MarkingFailed
  <2> QED BY <2>1
<1>2. CASE t.ok
  <2>1. Keeps(t, q) /\ (q.ok => q.num = RootDirStart /\ q.buf = Root(Seen(t)))
    <3>1. RootDirStart \in Blocks \ ({0} \cup Mirrors) /\ RootDirStart \notin FatBlocks /\ Sound(t)
      BY <1>0, Layout
    <3>2. /\ Keeps(t, CacheRawBlock(t, RootDirStart, TRUE)) /\ Certain(t, CacheRawBlock(t, RootDirStart, TRUE))
          /\ CacheRawBlock(t, RootDirStart, TRUE).ok => /\ CacheRawBlock(t, RootDirStart, TRUE).num = RootDirStart
                                                        /\ CacheRawBlock(t, RootDirStart, TRUE).buf = Seen(t)[RootDirStart]
      BY ONLY <3>1, RawWrite
    <3> QED BY <3>2 DEF Root
  <2>2. q \in State /\ q.h = t.h /\ Sound(q) /\ Seen(q) = Seen(t)
    BY <2>1 DEF Keeps, Leads, Sound, Seen
  <2>3. Inside(q, x)
    BY <2>1, <2>2, KeepsServes, InsideSame
  <2>4. r = IF q.ok THEN CacheFlush(Holding(Poked(q, slot, Deleted(q.buf[slot])), Closed)) ELSE q
    <3>1. q = CacheRawBlock(t, RootDirStart, TRUE) /\ (q.ok => q \in State /\ q.num = RootDirStart)
      BY <2>1, <2>2
    <3>2. Marking(t, slot) = IF q.ok THEN CacheFlush(Holding(Poked(q, slot, Deleted(q.buf[slot])), Closed)) ELSE q
      BY ONLY <3>1, MarkingShape
    <3> QED BY <3>2
  <2>5. CASE ~q.ok
    BY <2>3, <2>4, <2>5
  <2>6. CASE q.ok
    <3> PICK v, k, p : v = Deleted(q.buf[slot]) /\ k = Closed /\ p = Holding(Poked(q, slot, v), k)
      OBVIOUS
    <3>1. OfFile(q, x, c)
      <4>1. Trusted(q, x) = Trusted(t, x) /\ (x.full /\ q.ok <=> x.full /\ t.ok)
        BY <1>2, <2>6 DEF Trusted
      <4> QED BY <2>2, <4>1, <1>2, <2>6 DEF OfFile
    <3>2. /\ Inside(q, x) /\ x.f \in x.live /\ q.h.open /\ q.h.size = 0 /\ q.num = RootDirStart /\ q.ok
          /\ slot = q.h.slot /\ v = Deleted(Root(Seen(q))[slot]) /\ k = Closed /\ p = Holding(Poked(q, slot, v), k)
      BY <2>1, <2>2, <2>3, <2>6
    <3>3. Inside(p, x) /\ Sound(p)
      BY ONLY <3>1, <3>2, c = <<>>, UnmadeEntry
    <3>4. Keeps(p, r)
      BY <2>4, <2>6, <3>3, FlushKeeps
    <3>5. Serves(p, r) /\ r.h = p.h
      BY <3>4, KeepsServes DEF Keeps, Leads
    <3> QED BY <3>3, <3>5, InsideSame
  <2> QED BY <2>5, <2>6
<1> QED BY <1>1, <1>2

\* What is promised during a call that opens f.
Opening(f) == Promise(f, file, torn, muddled, astray \ {f}, failed, powered)

LEMMA OpeningFacts ==
  ASSUME IInv, NEW f \in Names \ torn, NEW y, y = Opening(f)
  PROVE  /\ y \in Contexts /\ y.f = f /\ y.file = file /\ y.live = Names \ torn /\ y.long = Names \ (torn \cup muddled)
         /\ y.exact = Names \ (torn \cup muddled \cup (astray \ {f})) /\ y.full = (~failed) /\ y.twin = powered
         /\ y.exact \subseteq y.long /\ y.f \in y.live /\ Plain(y)
<1>1. file \in [Names -> Handles] /\ failed \in BOOLEAN /\ powered \in BOOLEAN /\ GhostsOk
  BY DEF IInv, GhostsOk, Rest
<1>2. /\ y \in Contexts /\ y.f = f /\ y.file = file /\ y.live = Names \ torn /\ y.long = Names \ (torn \cup muddled)
      /\ y.exact = Names \ (torn \cup muddled \cup (astray \ {f})) /\ y.full = (~failed) /\ y.twin = powered
  BY <1>1 DEF Opening, Promise, Contexts
<1>3. y.full => y.f \in y.exact
  BY <1>1, <1>2 DEF GhostsOk
<1> QED BY <1>2, <1>3 DEF Plain

\* Of the place of a file that is not open everything is known.
LEMMA EnterOpening ==
  ASSUME IInv, NEW f \in Names \ torn, ~file[f].open, NEW a \in Accidents, NEW s, s = Do(Closed, a), NEW y, y = Opening(f)
  PROVE  Inside(s, y) /\ s.h = Closed /\ s.ok /\ ~s.blown
<1> PICK x : x = Context(f, muddled)
  OBVIOUS
<1>0. Muddling(f, muddled)
  BY DEF Muddling
<1>1. file[f] = Closed
  <2>1. file[f] \in Handles
    BY DEF IInv, Rest
  <2> QED BY <2>1, NoHandle
<1>2. Inside(s, x) /\ s.h = Closed /\ s.ok /\ ~s.blown
  <2>1. IInv /\ f \in Names \ torn /\ a \in Accidents /\ s = Do(file[f], a) /\ Muddling(f, muddled) /\ x = Context(f, muddled)
    BY <1>0, <1>1
  <2>2. Inside(s, x) /\ s.h = file[f] /\ s.ok /\ ~s.blown
    BY ONLY <2>1, DoFacts
  <2> QED BY <1>1, <2>2
<1>3. /\ x \in Contexts /\ x.f = f /\ x.file = file /\ x.live = Names \ torn /\ x.long = Names \ (torn \cup muddled)
      /\ x.exact = Names \ (torn \cup muddled \cup astray) /\ x.full = (~failed) /\ x.twin = powered
  BY <1>0, ContextFacts
<1>4. /\ y \in Contexts /\ y.f = f /\ y.file = file /\ y.live = Names \ torn /\ y.long = Names \ (torn \cup muddled)
      /\ y.exact = Names \ (torn \cup muddled \cup (astray \ {f})) /\ y.full = (~failed) /\ y.twin = powered
      /\ y.exact \subseteq y.long /\ y.f \in y.live
  BY OpeningFacts
<1>5. More(y, x)
  BY <1>3, <1>4 DEF More
<1>6. Stored(s, y)
  BY <1>2, <1>3, <1>4 DEF Inside, Stored
<1>7. \A c : OfFile(s, x, c) => OfFile(s, y, c)
  BY <1>2, <1>3, <1>4 DEF OfFile, FileOk, Closed
<1>8. Inside(s, y)
  <2>1. Inside(s, x)
    BY <1>2
  <2> QED BY ONLY <2>1, <1>5, <1>6, <1>7, InsideMore
<1> QED BY <1>2, <1>8

\* A call that opens f, or removes it, comes to its end.
LEMMA ConcludesOpening ==
  ASSUME IInv, NEW f \in Names \ torn, NEW y, y = Opening(f), NEW mode, NEW r, Entrance(r, y, mode),
         NEW to, to = torn \cup (IF "TRUNC" \in mode /\ r.blown THEN {f} ELSE {}),
         NEW mu, mu = muddled \ (IF "TRUNC" \in mode /\ Good(r) THEN {f} ELSE {})
  PROVE  Concludes(f, r, TRUE, to, mu)
<1> PICK anew : anew = TRUE
  OBVIOUS
<1> PICK w, x : w = Promised(f, r, anew, to, mu) /\ x = Aim(y, mode)
  OBVIOUS
<1>1. /\ y \in Contexts /\ y.f = f /\ y.file = file /\ y.live = Names \ torn /\ y.long = Names \ (torn \cup muddled)
      /\ y.exact = Names \ (torn \cup muddled \cup (astray \ {f})) /\ y.full = (~failed) /\ y.twin = powered
      /\ y.exact \subseteq y.long /\ y.f \in y.live /\ Plain(y)
  BY OpeningFacts
<1>2. /\ w \in Contexts /\ w.f = f /\ w.file = file /\ w.live = Names \ to /\ w.long = Names \ (to \cup mu)
      /\ w.exact = Names \ (to \cup mu \cup Failing(f, r, anew)) /\ w.full = (~(failed \/ ~Good(r))) /\ w.twin = powered
      /\ w.exact \subseteq w.long
  <2>1. to \subseteq Names
    BY DEF IInv, GhostsOk
  <2>2. IInv /\ f \in Names /\ to \subseteq Names /\ w = Promised(f, r, anew, to, mu)
    BY <2>1
  <2> QED BY ONLY <2>2, PromisedFacts
<1>3. /\ torn \subseteq to /\ to \subseteq torn \cup {f} /\ (Good(r) => to = torn)
      /\ mu \subseteq muddled \cup ({f} \cap astray) /\ muddled \subseteq mu \cup {f}
  BY DEF Good
<1>4. CASE Good(r)
  <2>1. Inside(r, x) /\ (r.h.open => Fit(r, x))
    BY <1>4 DEF Entrance
  <2>2. Failing(f, r, anew) = astray \ {f} /\ to = torn
    BY <1>3, <1>4 DEF Failing
  <2>3. x \in Contexts /\ x.f = y.f /\ x.file = y.file /\ x.live = y.live /\ x.full = y.full /\ x.twin = y.twin
    <3>1. CASE "TRUNC" \in mode
      <4>1. y \in Contexts /\ y.exact \subseteq y.long /\ Plain(y) /\ x = Whole(y)
        BY <1>1, <3>1 DEF Aim
      <4>2. /\ Beyond(y, x) /\ x.f = y.f /\ x.file = y.file /\ x.live = y.live /\ x.full = y.full /\ x.twin = y.twin
        BY ONLY <4>1, WholeBeyond
      <4> QED BY <4>2 DEF Beyond, Above
    <3>2. CASE "TRUNC" \notin mode
      BY <1>1, <3>2 DEF Aim
    <3> QED BY <3>1, <3>2
  <2>4. x.long = w.long /\ x.exact = w.exact
    <3>1. CASE "TRUNC" \in mode
      <4>1. x.long = y.long \cup {y.f} /\ x.exact = y.exact \cup {y.f}
        <5>1. y \in Contexts /\ y.exact \subseteq y.long /\ Plain(y) /\ x = Whole(y)
          BY <1>1, <3>1 DEF Aim
        <5>2. x.long = y.long \cup {y.f} /\ x.exact = y.exact \cup {y.f}
          BY ONLY <5>1, WholeBeyond
        <5> QED BY <5>2
      <4>2. mu = muddled \ {f}
        BY <1>4, <3>1
      <4>3. /\ w.long = Names \ (torn \cup mu) /\ w.exact = Names \ (torn \cup mu \cup (astray \ {f}))
            /\ y.long = Names \ (torn \cup muddled) /\ y.exact = Names \ (torn \cup muddled \cup (astray \ {f})) /\ y.f = f
        BY <1>1, <1>2, <2>2
      <4> QED BY ONLY <4>1, <4>2, <4>3, f \in Names \ torn
    <3>2. CASE "TRUNC" \notin mode
      <4>1. x = y /\ mu = muddled
        BY <3>2 DEF Aim
      <4> QED BY <1>1, <1>2, <2>2, <4>1
    <3> QED BY <3>1, <3>2
  <2>5. w.full = x.full
    BY <1>1, <1>2, <1>4, <2>3
  <2>6. Less(x, w)
    <3>1. /\ w \in Contexts /\ w.f = x.f /\ w.file = x.file /\ w.live = x.live /\ w.twin = x.twin /\ w.exact \subseteq w.long
      BY <1>1, <1>2, <2>2, <2>3
    <3> QED BY <2>4, <2>5, <3>1 DEF Less
  <2>7. Inside(r, w)
    BY <2>1, <2>6, InsideLess
  <2>8. r.h.open => Fit(r, w)
    BY <1>1, <1>2, <2>1, <2>3, <2>4 DEF Fit, Trusted
  <2> QED BY <1>3, <2>7, <2>8 DEF Concludes
<1>5. CASE ~Good(r)
  <2>1. Failing(f, r, anew) = astray \cup {f} /\ w.full = FALSE /\ mu = muddled
    BY <1>2, <1>5 DEF Failing
  <2>2. CASE "TRUNC" \notin mode \/ ~r.blown
    <3> PICK z : z = Dull(y)
      OBVIOUS
    <3>1. Inside(r, z)
      BY <1>5, <2>2 DEF Entrance
    <3>2. /\ z.f = y.f /\ z.file = y.file /\ z.live = y.live /\ z.long = y.long
          /\ z.exact = y.exact \ {y.f} /\ z.twin = y.twin
      BY <1>1, DullFacts
    <3>3. to = torn
      BY <2>2
    <3>4. Less(z, w)
      BY <1>1, <1>2, <2>1, <3>2, <3>3 DEF Less
    <3> QED BY <1>3, <1>5, <3>1, <3>4, InsideLess DEF Concludes
  <2>3. CASE "TRUNC" \in mode /\ r.blown
    <3> PICK d, z : d = Dropped(y) /\ z = Dull(d)
      OBVIOUS
    <3>1. Inside(r, z)
      BY DEF Entrance
    <3>2. /\ Less(y, d) /\ d.f = y.f /\ d.file = y.file /\ d.live = y.live \ {y.f} /\ d.long = y.long
          /\ d.exact = y.exact /\ d.twin = y.twin
      BY <1>1, DroppedFacts
    <3>3. d \in Contexts /\ d.exact \subseteq d.long
      BY <3>2 DEF Less
    <3>4. /\ z.f = d.f /\ z.file = d.file /\ z.live = d.live /\ z.long = d.long
          /\ z.exact = d.exact \ {d.f} /\ z.twin = d.twin
      BY ONLY <3>3, z = Dull(d), DullFacts
    <3>5. to = torn \cup {f}
      BY <2>3
    <3>6. Less(z, w)
      <4>1. /\ w \in Contexts /\ w.f = z.f /\ w.file = z.file /\ w.twin = z.twin /\ w.exact \subseteq w.long /\ w.full = FALSE
        <5>1. w \in Contexts /\ w.f = f /\ w.file = file /\ w.twin = powered /\ w.exact \subseteq w.long /\ w.full = FALSE
          BY <1>2, <2>1
        <5>2. z.f = f /\ z.file = file /\ z.twin = powered
          BY <1>1, <3>2, <3>4
        <5> QED BY <5>1, <5>2
      <4>2. /\ z.live = (Names \ torn) \ {f} /\ z.long = Names \ (torn \cup muddled)
            /\ z.exact = (Names \ (torn \cup muddled \cup (astray \ {f}))) \ {f}
        BY <1>1, <3>2, <3>4
      <4>3. w.live \subseteq z.live /\ w.long \subseteq z.long /\ w.exact \subseteq z.exact
        BY <1>2, <2>1, <3>5, <4>2
      <4> QED BY <4>1, <4>3 DEF Less
    <3> QED BY <1>3, <1>5, <3>1, <3>6, InsideLess DEF Concludes
  <2> QED BY <2>2, <2>3
<1> QED BY <1>4, <1>5

\* open()
LEMMA OpenStep ==
  ASSUME IInv, NEW f \in Names \ torn, NEW a \in Accidents, NEW mode \in Modes, OpenCall(f, mode, a)
  PROVE  IInv'
<1> PICK s, y : s = Do(Closed, a) /\ y = Opening(f)
  OBVIOUS
<1> PICK r : r = Open(s, f, mode)
  OBVIOUS
<1> PICK to, mu : /\ to = torn \cup (IF "TRUNC" \in mode /\ r.blown THEN {f} ELSE {})
                  /\ mu = muddled \ (IF "TRUNC" \in mode /\ Good(r) THEN {f} ELSE {})
  OBVIOUS
<1> PICK anew : anew = TRUE
  OBVIOUS
<1>1. ~file[f].open /\ torn' = to /\ muddled' = mu
  BY DEF OpenCall
<1>2. \E content, kept : End(f, r, a, anew, content, kept)
  BY DEF OpenCall
<1>3. Inside(s, y) /\ s.h = Closed /\ y.f = f /\ Plain(y)
  BY <1>1, EnterOpening, OpeningFacts
<1>4. Entrance(r, y, mode)
  <2>1. mode \subseteq Flags
    BY FileAssumption
  <2>2. r = Open(s, y.f, mode)
    BY <1>3
  <2> QED BY ONLY <1>3, <2>1, <2>2, InsideOpen
<1>5. Concludes(f, r, anew, to, mu)
  BY <1>4, ConcludesOpening
<1> QED BY <1>1, <1>2, <1>5, Leaves

\* A call that left the files as they were, and the handle closed.
LEMMA EntranceKept ==
  ASSUME NEW r, NEW y, Inside(r, y), ~Good(r), NEW mode
  PROVE  Entrance(r, y, mode)
BY DullInside DEF Entrance

LEMMA RemoveShape ==
  ASSUME NEW s, NEW t, t = Truncate(s, 0), NEW slot, slot = s.h.slot
  PROVE  Remove(s) = Marking(t, slot)
BY DEF Remove, Marking

\* remove() of a file that was found
LEMMA InsideRemoval ==
  ASSUME NEW s, NEW y, Inside(s, y), Plain(y), s.h = Closed, NEW o, o = OpenEntry(s, y.f, {"WRITE"}),
         NEW r, r = Holding(Remove(o), Closed), NEW mode, mode = {"TRUNC"}
  PROVE  Entrance(r, y, mode)
<1> PICK m, q : m = {"WRITE"} /\ q = Remove(o)
  OBVIOUS
<1>1. Unlocks(o, y, m)
  <2>1. Inside(s, y) /\ Plain(y) /\ s.h = Closed /\ m \subseteq Flags /\ o = OpenEntry(s, y.f, m)
    BY DEF Flags
  <2> QED BY ONLY <2>1, OpenEntryFacts
<1>2. Inside(o, y)
  BY <1>1 DEF Unlocks
<1>3. CASE o.ok
  <2>1. o.h.open /\ o.h.pos = 0 /\ o.h.cur = 0
    BY <1>1, <1>3 DEF Unlocks
  <2> PICK z : z = Whole(y)
    OBVIOUS
  <2>2. Beyond(y, z)
    <3>1. y \in Contexts /\ y.exact \subseteq y.long /\ Plain(y) /\ z = Whole(y)
      BY <1>2 DEF Inside
    <3> QED BY ONLY <3>1, WholeBeyond
  <2>3. o.h.size = 0 => Inside(o, z)
    <3>1. Inside(o, y) /\ Plain(y) /\ o.h.open /\ o.h.pos = 0 /\ o.h.cur = 0 /\ z = Whole(y)
      BY <1>2, <2>1
    <3> QED BY ONLY <3>1, WholeEmpty
  <2>4. Fit(o, y)
    <3>1. o.h \in Handle
      BY <1>2, <2>1, InsideChain, OpenChain DEF Plain
    <3>2. o.h.size \in Nat
      BY <3>1 DEF Handle
    <3> QED BY <2>1, <3>2 DEF Fit
  <2>5. Outcome(r, y, z) /\ r.h = Closed
    <3>1. Beyond(y, z) /\ Inside(o, y) /\ o.h.open /\ Fit(o, y) /\ (o.ok /\ o.h.size = 0 => Inside(o, z) /\ o.h.pos = 0)
          /\ q = Remove(o) /\ r = Holding(q, Closed)
      BY <1>2, <2>1, <2>2, <2>3, <2>4
    <3> QED BY ONLY <3>1, InsideRemove
  <2>6. Good(r) => Inside(r, Aim(y, mode)) /\ ~r.h.open
    BY <2>5 DEF Outcome, Good, Aim, Closed
  <2>7. ~Good(r) /\ ~r.blown => Inside(r, Dull(y))
    BY <2>5, DullInside DEF Outcome, Good
  <2>8. Inside(r, Dull(Dropped(y)))
    BY <2>5, DullInside DEF Outcome
  <2> QED BY <2>6, <2>7, <2>8 DEF Entrance
<1>4. CASE ~o.ok
  <2>1. q = Fail(o)
    <3> PICK slot, t : slot = o.h.slot /\ t = Fail(o)
      OBVIOUS
    <3>1. Truncate(o, 0) = t
      BY <1>4 DEF Truncate
    <3>2. q = Marking(t, slot)
      <4> PICK u : u = Truncate(o, 0)
        OBVIOUS
      <4>1. q = Marking(u, slot)
        BY RemoveShape
      <4> QED BY <3>1, <4>1
    <3>3. Sound(t) /\ ~t.ok
      BY <1>2, FailKeeps DEF Inside, Keeps, Leads
    <3> QED BY <3>2, <3>3, MarkingFailed
  <2>2. Keeps(o, q) /\ ~q.ok
    BY <1>2, <2>1, FailKeeps DEF Inside
  <2>3. Inside(q, y)
    BY <1>2, <2>2, KeepsServes, InsideSame DEF Keeps, Leads
  <2>4. Inside(r, y) /\ r.ok = q.ok
    BY <2>2, <2>3, InsideClosing
  <2> QED BY <2>2, <2>4, EntranceKept DEF Good
<1> QED BY <1>3, <1>4

\* remove()
LEMMA RemoveStep ==
  ASSUME IInv, NEW f \in Names \ torn, NEW a \in Accidents, RemoveCall(f, a)
  PROVE  IInv'
<1> PICK s, y, mode : s = Do(Closed, a) /\ y = Opening(f) /\ mode = {"TRUNC"}
  OBVIOUS
<1> PICK o : o = OpenEntry(s, f, {"WRITE"})
  OBVIOUS
<1> PICK r : r = Holding(Remove(o), Closed)
  OBVIOUS
<1> PICK to, mu : /\ to = torn \cup (IF "TRUNC" \in mode /\ r.blown THEN {f} ELSE {})
                  /\ mu = muddled \ (IF "TRUNC" \in mode /\ Good(r) THEN {f} ELSE {})
  OBVIOUS
<1> PICK anew : anew = TRUE
  OBVIOUS
<1>1. ~file[f].open /\ torn' = to /\ muddled' = mu
  BY DEF RemoveCall, Holding
<1>2. \E content, kept : End(f, r, a, anew, content, kept)
  BY DEF RemoveCall, Holding
<1>3. Inside(s, y) /\ s.h = Closed /\ y.f = f /\ Plain(y)
  BY <1>1, EnterOpening, OpeningFacts
<1>4. Entrance(r, y, mode)
  BY <1>3, InsideRemoval
<1>5. Concludes(f, r, anew, to, mu)
  BY <1>4, ConcludesOpening
<1> QED BY <1>1, <1>2, <1>5, Leaves

\* The handle of a new file of size units, from the cluster first on.
Filled(h, first, size) == [h EXCEPT !.first = first, !.size = size, !.dirty = TRUE]

Unok(q) == [q EXCEPT !.ok = FALSE]
LEMMA ContiguousShape ==
  ASSUME NEW s, NEW a, NEW size, a \in State, a.h \in Handle
  PROVE  Contiguous(s, a, size) = IF ~s.ok THEN Holding(s, Closed)
                                  ELSE IF ~a.ok THEN Unok(Remove(Okayed(a)))
                                  ELSE Sync(Holding(a, Filled(a.h, a.val, size)))
<1>1. [a EXCEPT !.h.first = a.val, !.h.size = size, !.h.dirty = TRUE] = [a EXCEPT !.h = [a.h EXCEPT !.first = a.val, !.size = size, !.dirty = TRUE]]
  BY DEF State, Handle
<1> QED BY <1>1 DEF Contiguous, Holding, Unok, Okayed, Filled

\* The number of clusters of a contiguous file.
Count(size) == ((size - 1) \div ClusterUnits) + 1
LEMMA CountFacts ==
  ASSUME NEW size \in Nat \ {0}
  PROVE  Count(size) \in Nat \ {0} /\ size <= Count(size) * ClusterUnits
<1> PICK u, d, n : u = ClusterUnits /\ n = size - 1 /\ d = n \div u
  OBVIOUS
<1>1. u \in Nat /\ u > 0 /\ n \in Nat
  BY Units
<1>2. d \in Nat /\ n < (d + 1) * u
  BY <1>1
<1>3. Count(size) = d + 1
  BY DEF Count
<1> QED BY <1>2, <1>3, <1>1

\* A new file: it has no clusters yet.
Bare(s, y) ==
  /\ Inside(s, y) /\ Plain(y) /\ s.ok /\ s.h.open /\ s.h.pos = 0 /\ s.h.cur = 0 /\ ~s.h.dirty /\ s.h.first = 0 /\ s.h.size = 0

\* The chain of createContiguous().
LEMMA BareChain ==
  ASSUME NEW s, NEW y, Bare(s, y)
  PROVE  \E c : /\ c = <<>> /\ c \in Seq(Clusters) /\ Once(c) /\ OfFile(s, y, c) /\ Linked(Table(Seen(s)), s.h.first, c)
                /\ s.h \in Handle /\ HandleOk(y.f, s.h) /\ Sound(s) /\ s.start \in Startable
                /\ Entered(s.h, Root(Seen(s))[s.h.slot])
<1> PICK c : OfFile(s, y, c)
  BY InsideChain DEF Bare, Plain
<1>1. /\ s.h \in Handle /\ HandleOk(y.f, s.h) /\ Sound(s) /\ c \in Seq(Clusters)
      /\ Linked(Table(Seen(s)), s.h.first, c) /\ Entered(s.h, Root(Seen(s))[s.h.slot])
  BY OpenChain DEF Bare
<1>2. c = <<>>
  <2> SUFFICES ASSUME c # <<>> PROVE FALSE
    OBVIOUS
  <2>1. 1 \in 1 .. Len(c)
    BY <1>1
  <2>2. c[1] \in Clusters /\ c[1] = 0
    BY <1>1, <2>1 DEF Linked, Bare
  <2> QED BY <2>2 DEF Clusters
<1> QED BY <1>1, <1>2 DEF OfFile, Bare, Inside

\* Its clusters are allocated, and its entry is stored.
LEMMA MadeWhole ==
  ASSUME NEW s, NEW y, Bare(s, y), NEW size, size \in Nat \ {0}, size <= MaxSize,
         NEW a, a = AllocContiguous(s, Count(size), s.h.first), a.ok,
         NEW k, k = Filled(a.h, a.val, size), NEW m, m = Holding(a, k)
  PROVE  Inside(m, y) /\ m.h.open /\ m.ok /\ m.h.pos = 0
<1> PICK c : /\ c = <<>> /\ c \in Seq(Clusters) /\ Once(c) /\ OfFile(s, y, c) /\ Linked(Table(Seen(s)), s.h.first, c)
             /\ s.h \in Handle /\ HandleOk(y.f, s.h) /\ Sound(s) /\ s.start \in Startable
             /\ Entered(s.h, Root(Seen(s))[s.h.slot])
  BY BareChain
<1> PICK n, t, u, x, root, first : n = Count(size) /\ t = Table(Seen(s)) /\ u = Table(Seen(a)) /\ x = Eased(y) /\ root = Root(Seen(s)) /\ first = s.h.first
  OBVIOUS
<1>1. n \in Nat \ {0} /\ size <= n * ClusterUnits
  BY CountFacts
<1>2. Last0(c) = 0 /\ s.h.first = 0
  BY DEF Last0, Bare
<1>3. a = AllocContiguous(s, n, Last0(c))
  BY <1>2
<1>4. /\ Alters(s, a, Ran(c)) /\ a.val \in Clusters
  <2>1. /\ Sound(s) /\ s.start \in Startable /\ c \in Seq(Clusters) /\ Linked(Table(Seen(s)), first, c) /\ Once(c) /\ n \in Nat \ {0}
        /\ a = AllocContiguous(s, n, Last0(c)) /\ t = Table(Seen(s)) /\ u = Table(Seen(a))
    BY <1>1, <1>3
  <2>2. /\ Alters(s, a, Ran(c))
        /\ a.ok => \E e : Grows(c, e, a.val, n) /\ a.val \in Clusters
    BY ONLY <2>1, AllocChain
  <2> QED BY <2>2
<1>5. a.h = s.h /\ a.val \in Nat
  BY <1>4 DEF Alters, Clusters
<1>6. /\ k \in Handle /\ k.cur = 0 /\ k.pos = 0 /\ k.first = a.val /\ k.size = size
      /\ k.slot = s.h.slot /\ k.name = s.h.name /\ k.flags = s.h.flags /\ k.dirty
  <2> PICK h, fst : h = s.h /\ fst = a.val
    OBVIOUS
  <2>1. h \in Handle /\ fst \in Nat /\ size \in Nat /\ k = Filled(h, fst, size)
    BY <1>5
  <2>2. /\ k \in Handle /\ k.cur = h.cur /\ k.pos = h.pos /\ k.first = fst /\ k.size = size
        /\ k.slot = h.slot /\ k.name = h.name /\ k.flags = h.flags /\ k.dirty
    BY <2>1 DEF Filled, Handle
  <2> QED BY <2>2 DEF Bare
<1>7. Entered(k, root[k.slot])
  <2>1. root[s.h.slot].name = s.h.name /\ root[s.h.slot].first = 0 /\ root[s.h.slot].size = 0
    BY DEF Entered, Bare
  <2> QED BY <1>6, <2>1 DEF Entered
<1>8. Grown(s.h, k, c, a.val, n, x.f \in x.long, root)
  <2>1. Len(c) + n = n
    BY <1>1
  <2>2. k.size <= (Len(c) + n) * ClusterUnits
    BY <1>1, <1>6, <2>1
  <2>3. k.size > 0
    BY <1>6
  <2> QED BY <1>6, <1>7, <2>2, <2>3 DEF Grown
<1>9. HandleOk(y.f, k)
  <2>1. s.h.name = y.f /\ k.cur <= EOC
    <3>1. s.h.open /\ s.h.cur <= EOC /\ s.h.cur = 0
      BY HandleTypes DEF HandleOk, Bare
    <3> QED BY <1>6, <3>1 DEF HandleOk
  <2> QED BY <1>4, <1>6, <2>1 DEF HandleOk
<1>10. /\ Inside(s, x) /\ OfFile(s, x, c) /\ x.f = y.f /\ x.f \in x.live /\ x.f \notin x.exact /\ y \in Contexts /\ y.exact \subseteq y.long
       /\ y.f \in y.live
  BY EasedInside, EasedFacts DEF Bare, Plain, Inside
<1>11. Inside(m, x) /\ m.ok /\ m.h = k
  <2>1. /\ Inside(s, x) /\ x.f \in x.live /\ x.f \notin x.exact /\ s.h.open /\ OfFile(s, x, c) /\ n \in Nat \ {0}
        /\ a = AllocContiguous(s, n, Last0(c)) /\ a.ok /\ HandleOk(x.f, k) /\ Grown(s.h, k, c, a.val, n, x.f \in x.long, Root(Seen(s)))
        /\ m = Holding(a, k)
    BY <1>1, <1>3, <1>8, <1>9, <1>10 DEF Bare
  <2>2. Inside(m, x) /\ m.ok /\ m.h = k /\ m.left = s.left /\ m.got = s.got /\ \E e : Grows(c, e, a.val, n) /\ OfFile(m, x, e)
    BY ONLY <2>1, InsideGrown
  <2> QED BY <2>2
<1>12. \A e : OfFile(m, x, e) => Stands(m.h, e, TRUE)
  <2> SUFFICES ASSUME NEW e, OfFile(m, x, e) PROVE Stands(m.h, e, TRUE)
    OBVIOUS
  <2>1. m.h.open /\ m.h.pos = 0 /\ m.h.cur = 0
    BY <1>6, <1>11, HandleTypes
  <2> QED BY <2>1 DEF Stands
<1>13. Inside(m, y)
  BY <1>10, <1>11, <1>12, Uneased
<1> QED BY <1>6, <1>11, <1>13, HandleTypes

LEMMA UnokInside ==
  ASSUME NEW q, NEW x, Inside(q, x), NEW r, r = Unok(q)
  PROVE  Inside(r, x) /\ ~r.ok /\ r.h = q.h
<1>1. r = Fail(q)
  BY DEF Unok, Fail
<1>2. Keeps(q, r) /\ ~r.ok
  BY <1>1, FailKeeps DEF Inside
<1> QED BY <1>2, KeepsServes, InsideSame DEF Keeps, Leads

\* There is no room for them, and the file is removed again.
LEMMA MadeNone ==
  ASSUME NEW s, NEW y, Bare(s, y), NEW n, n \in Nat \ {0},
         NEW a, a = AllocContiguous(s, n, s.h.first), ~a.ok, NEW r, r = Unok(Remove(Okayed(a)))
  PROVE  Inside(r, Dull(y)) /\ ~r.ok
<1> PICK c : /\ c = <<>> /\ c \in Seq(Clusters) /\ Once(c) /\ OfFile(s, y, c) /\ Linked(Table(Seen(s)), s.h.first, c)
             /\ s.h \in Handle /\ HandleOk(y.f, s.h) /\ Sound(s) /\ s.start \in Startable
             /\ Entered(s.h, Root(Seen(s))[s.h.slot])
  BY BareChain
<1> PICK x, b, q, z, t, u, first : x = Dull(y) /\ b = Okayed(a) /\ q = Remove(b) /\ z = Truncate(b, 0) /\ t = Table(Seen(s)) /\ u = Table(Seen(a)) /\ first = s.h.first
  OBVIOUS
<1>1. a = AllocContiguous(s, n, Last0(c))
  BY DEF Last0, Bare
<1>2. Alters(s, a, {})
  <2>1. /\ Sound(s) /\ s.start \in Startable /\ c \in Seq(Clusters) /\ Linked(Table(Seen(s)), first, c) /\ Once(c) /\ n \in Nat \ {0}
        /\ a = AllocContiguous(s, n, Last0(c)) /\ t = Table(Seen(s)) /\ u = Table(Seen(a))
    BY <1>1
  <2>2. ~a.ok => Alters(s, a, {})
    BY ONLY <2>1, AllocChain
  <2> QED BY <2>2
<1>3. Inside(a, y) /\ a.h = s.h
  BY <1>2, InsideFailed DEF Bare, Alters
<1>4. /\ Inside(a, x) /\ x.f = y.f /\ x.f \notin x.exact /\ ~x.full /\ x.f \in x.live
  <2>1. y \in Contexts /\ y.exact \subseteq y.long /\ Plain(y)
    BY DEF Bare, Inside
  <2> QED BY <1>3, <2>1, DullInside, DullFacts DEF Plain
<1>5. Inside(b, x) /\ b.ok /\ b.h = a.h
  <2>1. Inside(a, x) /\ x.f \notin x.exact /\ ~x.full /\ b = Okayed(a)
    BY <1>4
  <2>2. Inside(b, x) /\ b.ok /\ b.h = a.h
    BY ONLY <2>1, OkayedInside
  <2> QED BY <2>2
<1>6. b.h.open /\ b.h.size = 0 /\ b.h.first = 0
  BY <1>3, <1>5 DEF Bare
<1>7. z = b \/ z = Fail(b)
  BY <1>6, TruncateShape
<1>8. Inside(z, x) /\ z.h = b.h
  <2>1. Keeps(b, z)
    BY <1>5, <1>7, FailKeeps, KeepsSame DEF Inside
  <2> QED BY <1>5, <2>1, KeepsServes, InsideSame DEF Keeps, Leads
<1>9. \E e : e = <<>> /\ OfFile(z, x, e)
  <2> PICK e : OfFile(z, x, e)
    BY <1>4, <1>8, InsideChain
  <2>1. e \in Seq(Clusters) /\ Linked(Table(Seen(z)), z.h.first, e)
    BY <1>6, <1>8, OpenChain
  <2>2. e = <<>>
    <3> SUFFICES ASSUME e # <<>> PROVE FALSE
      OBVIOUS
    <3>1. 1 \in 1 .. Len(e)
      BY <2>1
    <3>2. e[1] \in Clusters /\ e[1] = 0
      BY <1>6, <1>8, <2>1, <3>1 DEF Linked
    <3> QED BY <3>2 DEF Clusters
  <2> QED BY <2>2
<1>10. q = Marking(z, z.h.slot)
  BY <1>8, RemoveShape
<1>11. Inside(q, x)
  <2> PICK e : e = <<>> /\ OfFile(z, x, e)
    BY <1>9
  <2>1. Inside(z, x) /\ x.f \in x.live /\ z.h.open /\ z.h.size = 0 /\ e = <<>> /\ OfFile(z, x, e) /\ q = Marking(z, z.h.slot)
    BY <1>4, <1>6, <1>8, <1>10
  <2> QED BY ONLY <2>1, Unmade
<1> QED BY <1>11, UnokInside

LEMMA AllocHandle ==
  ASSUME NEW s, NEW y, Bare(s, y), NEW n, n \in Nat \ {0}, NEW a, a = AllocContiguous(s, n, s.h.first)
  PROVE  a.h = s.h /\ a \in State
<1> PICK c : /\ c = <<>> /\ c \in Seq(Clusters) /\ Once(c) /\ OfFile(s, y, c) /\ Linked(Table(Seen(s)), s.h.first, c)
             /\ s.h \in Handle /\ HandleOk(y.f, s.h) /\ Sound(s) /\ s.start \in Startable
             /\ Entered(s.h, Root(Seen(s))[s.h.slot])
  BY BareChain
<1> PICK t, u, first : t = Table(Seen(s)) /\ u = Table(Seen(a)) /\ first = s.h.first
  OBVIOUS
<1>1. a = AllocContiguous(s, n, Last0(c))
  BY DEF Last0, Bare
<1>2. /\ Sound(s) /\ s.start \in Startable /\ c \in Seq(Clusters) /\ Linked(Table(Seen(s)), first, c) /\ Once(c) /\ n \in Nat \ {0}
      /\ a = AllocContiguous(s, n, Last0(c)) /\ t = Table(Seen(s)) /\ u = Table(Seen(a))
  BY <1>1
<1>3. Alters(s, a, Ran(c))
  BY ONLY <1>2, AllocChain
<1> QED BY <1>3 DEF Alters, Sound

\* createContiguous()
LEMMA InsideContiguous ==
  ASSUME NEW s, NEW y, Inside(s, y), Plain(y), s.h = Closed, NEW size, size \in Nat \ {0}, size <= MaxSize,
         NEW r, r = CreateContiguous(s, y.f, size), NEW mode, mode = {}
  PROVE  Entrance(r, y, mode)
<1> PICK m : m = {"READ", "WRITE", "CREAT", "EXCL"}
  OBVIOUS
<1> PICK o, n : o = OpenEntry(s, y.f, m) /\ n = Count(size)
  OBVIOUS
<1> PICK a : a = AllocContiguous(o, n, o.h.first)
  OBVIOUS
<1>1. Unlocks(o, y, m) /\ Empty(o, m)
  <2>1. Inside(s, y) /\ Plain(y) /\ s.h = Closed /\ m \subseteq Flags /\ o = OpenEntry(s, y.f, m)
    BY DEF Flags
  <2> QED BY ONLY <2>1, OpenEntryFacts
<1>2. Inside(o, y)
  BY <1>1 DEF Unlocks
<1>3. r = Contiguous(o, a, size)
  BY DEF CreateContiguous, Count
<1>4. CASE ~o.ok
  <2>1. r = Holding(o, Closed)
    BY <1>3, <1>4 DEF Contiguous, Holding
  <2>2. Inside(r, y) /\ r.ok = o.ok
    BY <1>2, <1>4, <2>1, InsideClosing
  <2> QED BY <1>4, <2>2, EntranceKept DEF Good
<1>5. CASE o.ok
  <2>1. Bare(o, y)
    BY <1>1, <1>2, <1>5 DEF Unlocks, Empty, Bare
  <2>2. n \in Nat \ {0}
    BY CountFacts
  <2>3. a.h = o.h /\ a \in State /\ o.h \in Handle
    BY <2>1, <2>2, AllocHandle, BareChain
  <2>4. r = IF ~a.ok THEN Unok(Remove(Okayed(a))) ELSE Sync(Holding(a, Filled(a.h, a.val, size)))
    BY <1>3, <1>5, <2>3, ContiguousShape
  <2>5. CASE ~a.ok
    <3>1. Inside(r, Dull(y)) /\ ~r.ok
      BY <2>1, <2>2, <2>4, <2>5, MadeNone
    <3>2. Inside(r, Dull(Dropped(y)))
      <4> PICK x, d, z, v : x = Dull(y) /\ d = Dropped(x) /\ z = Dropped(y) /\ v = Dull(z)
        OBVIOUS
      <4>1. y \in Contexts /\ y.exact \subseteq y.long
        BY <1>2 DEF Inside
      <4>2. Inside(r, d)
        BY <3>1, DroppedInside
      <4>3. v = d
        BY <4>1 DEF Dull, Dropped, Contexts
      <4> QED BY <4>2, <4>3
    <3>3. ~Good(r)
      BY <3>1 DEF Good
    <3> QED BY <3>1, <3>2, <3>3 DEF Entrance
  <2>6. CASE a.ok
    <3> PICK k, p : k = Filled(a.h, a.val, size) /\ p = Holding(a, k)
      OBVIOUS
    <3>1. Inside(p, y) /\ p.h.open /\ p.ok /\ p.h.pos = 0
      <4>1. /\ Bare(o, y) /\ size \in Nat \ {0} /\ size <= MaxSize /\ a = AllocContiguous(o, Count(size), o.h.first) /\ a.ok
            /\ k = Filled(a.h, a.val, size) /\ p = Holding(a, k)
        BY <2>1, <2>6
      <4> QED BY ONLY <4>1, MadeWhole
    <3>2. r = Sync(p) /\ y.f \in y.live
      BY <2>4, <2>6 DEF Plain
    <3>3. Writes(p, r, y)
      BY <3>1, <3>2, SyncFacts
    <3>4. Inside(r, y) /\ r.h.pos = 0 /\ r.h \in Handle
      BY <3>1, <3>3 DEF Writes, LikeH
    <3>5. Fit(r, y)
      <4>1. r.h.size \in Nat
        BY <3>4, HandleTypes
      <4> QED BY <3>4, <4>1 DEF Fit
    <3>6. Aim(y, mode) = y
      BY DEF Aim
    <3> QED BY <3>4, <3>5, <3>6, DullInside DEF Entrance
  <2> QED BY <2>5, <2>6
<1> QED BY <1>4, <1>5

\* createContiguous().
LEMMA CreateStep ==
  ASSUME IInv, NEW f \in Names \ torn, NEW a \in Accidents, NEW size \in Lengths, CreateCall(f, size, a)
  PROVE  IInv'
<1> PICK s, y, mode : s = Do(Closed, a) /\ y = Opening(f) /\ mode = {}
  OBVIOUS
<1> PICK r : r = CreateContiguous(s, f, size)
  OBVIOUS
<1> PICK to, mu : /\ to = torn \cup (IF "TRUNC" \in mode /\ r.blown THEN {f} ELSE {})
                  /\ mu = muddled \ (IF "TRUNC" \in mode /\ Good(r) THEN {f} ELSE {})
  OBVIOUS
<1> PICK anew : anew = TRUE
  OBVIOUS
<1>1. ~file[f].open /\ torn' = to /\ muddled' = mu /\ size <= MaxSize
  BY DEF CreateCall
<1>2. \E content, kept : End(f, r, a, anew, content, kept)
  BY DEF CreateCall
<1>3. Inside(s, y) /\ s.h = Closed /\ y.f = f /\ Plain(y)
  BY <1>1, EnterOpening, OpeningFacts
<1>4. Entrance(r, y, mode)
  <2>1. size \in Nat \ {0} /\ size <= MaxSize /\ r = CreateContiguous(s, y.f, size)
    BY <1>1, <1>3, FileAssumption
  <2> QED BY <1>3, <2>1, InsideContiguous
<1>5. Concludes(f, r, anew, to, mu)
  BY <1>4, ConcludesOpening
<1> QED BY <1>1, <1>2, <1>5, Leaves

-----------------------------------------------------------------------------
(* The specification *)

\* A formatted card, with no file.
LEMMA BlankFacts ==
  /\ Blank \in [Blocks -> Block] /\ Typed(Blank)
  /\ Root(Main(Blank)) = [i \in SlotNumbers |-> Free]
  /\ \A c \in Clusters : Table(Main(Blank))[c] = 0
  /\ FatCount = 2 => \A b \in FatBlocks : Blank[b] = Blank[b + BlocksPerFat]
<1>1. /\ RootDirStart \in Blocks \ (FatBlocks \cup Mirrors) /\ FatBlocks \subseteq Blocks \ (Mirrors \cup {RootDirStart}) /\ Mirrors \subseteq Blocks
      /\ RootDirStart \notin {FatStart, FatStart + (FatCount - 1) * BlocksPerFat}
  <2>1. RootDirStart \notin FatBlocks \cup Mirrors /\ FatBlocks \cap Mirrors = {} /\ Blocks = {0} \cup FatBlocks \cup Mirrors \cup {RootDirStart} \cup DataBlocks
    BY Layout
  <2>2. BlocksPerFat \in Nat /\ BlocksPerFat > 0 /\ RootDirStart = 1 + FatCount * BlocksPerFat /\ FatCount \in {1, 2}
    BY Layout, VolumeAssumption
  <2>3. RootDirStart \notin {FatStart, FatStart + (FatCount - 1) * BlocksPerFat}
    <3>1. CASE FatCount = 1
      BY <2>2, <3>1 DEF FatStart
    <3>2. CASE FatCount = 2
      BY <2>2, <3>2 DEF FatStart
    <3> QED BY <2>2, <3>1, <3>2
  <2> QED BY <2>1, <2>3
<1>2. Free \in DirEntry /\ EOC \in Int /\ EOC \in 0 .. EOC /\ 0 \in 0 .. EOC
  BY VolumeAssumption DEF Free, DirEntry, EOC, LastCluster
<1>3. \A b \in Blocks : Blank[b] = [i \in SlotNumbers |-> IF b = RootDirStart THEN Free
               ELSE IF b \in {FatStart, FatStart + (FatCount - 1) * BlocksPerFat} /\ i < 2 THEN EOC ELSE 0]
  BY DEF Blank, SlotNumbers
<1>4. Blank \in [Blocks -> Block]
  <2>1. \A b \in Blocks : Blank[b] \in Block
    <3> SUFFICES ASSUME NEW b \in Blocks PROVE Blank[b] \in Block
      OBVIOUS
    <3> PICK p : p = (b = RootDirStart)
      OBVIOUS
    <3> PICK q : q = (b \in {FatStart, FatStart + (FatCount - 1) * BlocksPerFat})
      OBVIOUS
    <3> PICK e : e = Int \cup DirEntry
      OBVIOUS
    <3>1. Free \in e /\ EOC \in e /\ 0 \in e
      BY <1>2
    <3>2. Blank[b] = [i \in SlotNumbers |-> IF b = RootDirStart THEN Free
               ELSE IF b \in {FatStart, FatStart + (FatCount - 1) * BlocksPerFat} /\ i < 2 THEN EOC ELSE 0]
      BY <1>3
    <3>3. [i \in SlotNumbers |-> IF b = RootDirStart THEN Free
               ELSE IF b \in {FatStart, FatStart + (FatCount - 1) * BlocksPerFat} /\ i < 2 THEN EOC ELSE 0] \in [SlotNumbers -> e]
      BY ONLY <3>1
    <3> QED BY <3>2, <3>3 DEF Block
  <2> QED BY <2>1 DEF Blank
<1>5. Typed(Blank)
  <2>1. \A b \in FatBlocks : \A i \in SlotNumbers : Blank[b][i] \in 0 .. EOC
    <3> SUFFICES ASSUME NEW b \in FatBlocks, NEW i \in SlotNumbers PROVE Blank[b][i] \in 0 .. EOC
      OBVIOUS
    <3>1. b \in Blocks /\ b # RootDirStart
      BY <1>1
    <3>2. Blank[b][i] = EOC \/ Blank[b][i] = 0
      BY <1>3, <3>1
    <3> QED BY <1>2, <3>2
  <2>2. \A i \in SlotNumbers : Blank[RootDirStart][i] \in DirEntry
    BY <1>1, <1>2, <1>3
  <2> QED BY <2>1, <2>2 DEF Typed
<1>6. Root(Main(Blank)) = [i \in SlotNumbers |-> Free]
  <2>1. Blank[RootDirStart] = [i \in SlotNumbers |-> Free]
    BY <1>1, <1>3
  <2> QED BY <1>1, <2>1 DEF Root, Main
<1>7. \A c \in Clusters : Table(Main(Blank))[c] = 0
  <2> SUFFICES ASSUME NEW c \in Clusters PROVE Table(Main(Blank))[c] = 0
    OBVIOUS
  <2>1. c \in 0 .. LastCluster /\ c >= 2 /\ c \in Nat
    BY VolumeAssumption DEF Clusters, LastCluster
  <2>2. FatBlock(c) \in FatBlocks /\ c % Slots \in SlotNumbers /\ c = Slots * (c \div Slots) + (c % Slots) /\ c \div Slots \in Nat
    BY <2>1, Layout, EntryPlace
  <2>3. Table(Main(Blank))[c] = Blank[FatBlock(c)][c % Slots]
    BY <1>1, <2>1, <2>2 DEF Table, Main
  <2>4. ~(FatBlock(c) \in {FatStart, FatStart + (FatCount - 1) * BlocksPerFat} /\ c % Slots < 2)
    <3> SUFFICES ASSUME FatBlock(c) \in {FatStart, FatStart + (FatCount - 1) * BlocksPerFat}, c % Slots < 2 PROVE FALSE
      OBVIOUS
    <3>1. FatBlock(c) = FatStart
      <4>1. FatCount = 1 \/ FatCount = 2
        BY VolumeAssumption
      <4>2. CASE FatCount = 1
        <5>1. (FatCount - 1) * BlocksPerFat = 0
          BY <4>2, Layout
        <5> QED BY <5>1 DEF FatStart
      <4>3. CASE FatCount = 2
        <5>1. (FatCount - 1) * BlocksPerFat = BlocksPerFat
          BY <4>3, Layout
        <5>2. FatStart + BlocksPerFat \notin FatBlocks
          BY Layout DEF FatBlocks, FatStart
        <5> QED BY <2>2, <5>1, <5>2
      <4> QED BY <4>1, <4>2, <4>3
    <3>2. c \div Slots = 0
      BY <2>2, <3>1 DEF FatBlock, FatStart
    <3>3. Slots * (c \div Slots) = 0
      BY <3>2, VolumeAssumption
    <3> PICK m, p : m = c % Slots /\ p = Slots * (c \div Slots)
      OBVIOUS
    <3>4. c = p + m /\ p = 0 /\ m < 2 /\ c >= 2 /\ m \in Nat
      BY <2>1, <2>2, <3>3 DEF SlotNumbers
    <3> QED BY ONLY <3>4
  <2> PICK b, i : b = FatBlock(c) /\ i = c % Slots
    OBVIOUS
  <2>5. b \in Blocks /\ b # RootDirStart /\ i \in SlotNumbers
    BY <1>1, <2>2
  <2>6. Blank[b][i] = 0
    BY <1>3, <2>4, <2>5
  <2> QED BY <2>3, <2>6
<1>8. FatCount = 2 => \A b \in FatBlocks : Blank[b] = Blank[b + BlocksPerFat]
  <2> SUFFICES ASSUME FatCount = 2, NEW b \in FatBlocks PROVE Blank[b] = Blank[b + BlocksPerFat]
    OBVIOUS
  <2>1. b + BlocksPerFat \in Mirrors /\ BlocksPerFat \in Nat /\ BlocksPerFat > 0 /\ (FatCount - 1) * BlocksPerFat = BlocksPerFat
    BY Layout
  <2>2. b \in Blocks /\ b + BlocksPerFat \in Blocks /\ b # RootDirStart /\ b + BlocksPerFat # RootDirStart
    BY <1>1, <2>1
  <2>3. b \in Int /\ FatStart <= b /\ b < FatStart + BlocksPerFat /\ FatStart = 1
    BY <2>1 DEF FatBlocks, FatStart
  <2>4. b \in {FatStart, FatStart + (FatCount - 1) * BlocksPerFat} <=> b = FatStart
    BY <2>1, <2>3
  <2>5. b + BlocksPerFat \in {FatStart, FatStart + (FatCount - 1) * BlocksPerFat} <=> b = FatStart
    BY <2>1, <2>3
  <2> QED BY <1>3, <2>2, <2>4, <2>5
<1> QED BY <1>4, <1>5, <1>6, <1>7, <1>8

\* A directory without files.
LEMMA NoFiles ==
  ASSUME NEW root, root = [i \in SlotNumbers |-> Free]
  PROVE  RootOk(root) /\ \A f \in Names : EntryIn(root, f) = Free
<1>1. Free.name = "free" /\ Free.first = 0 /\ Free.size = 0 /\ Free \in DirEntry
  BY DEF Free, DirEntry
<1>2. \A i \in SlotNumbers : root[i] = Free
  OBVIOUS
<1>3. RootOk(root)
  <2>1. root \in Roots
    BY <1>1 DEF Roots
  <2>2. \A i \in SlotNumbers : root[i].first \in {0} \cup Clusters /\ root[i].size <= MaxSize
    BY <1>1, <1>2, FileAssumption
  <2>3. \A i \in SlotNumbers : root[i].name \notin Names /\ root[i].name = "free"
    BY <1>1, <1>2, FileAssumption
  <2> QED BY <2>1, <2>2, <2>3 DEF RootOk
<1>4. \A f \in Names : EntryIn(root, f) = Free
  <2>1. \A f \in Names : \A i \in SlotNumbers : root[i].name # f
    BY <1>1, <1>2, FileAssumption
  <2> QED BY <1>3, <2>1, EntryFacts
<1> QED BY <1>3, <1>4

LEMMA NothingLives ==
  ASSUME NEW t \in Tables, NEW root, root = [i \in SlotNumbers |-> Free], NEW long, NEW exact, NEW full, \A c \in Clusters : t[c] = 0
  PROVE  \E ch : Live(t, root, AllClosed, ch, Names, long, exact, full)
<1> PICK ch : ch = [f \in Names |-> <<>>]
  OBVIOUS
<1>1. RootOk(root) /\ \A f \in Names : EntryIn(root, f) = Free
  BY NoFiles
<1>2. ch \in [Names -> Seq(Clusters)] /\ AllClosed \in [Names -> Handles] /\ \A f \in Names : ch[f] = <<>> /\ AllClosed[f] = Closed
  BY DEF AllClosed, Handles
<1>3. ASSUME NEW f \in Names PROVE FileOk(t, root, f, AllClosed[f], ch[f], f \in long, f \in exact, full)
  <2> PICK lo, ex : lo = (f \in long) /\ ex = (f \in exact)
    OBVIOUS
  <2>1. EntryIn(root, f) = Free
    BY <1>1
  <2>2. FileOk(t, root, f, Closed, <<>>, lo, ex, full)
    BY ONLY <2>1, NoFile
  <2> QED BY <1>2, <2>2
<1>4. Disjoint(Names, ch)
  BY <1>2 DEF Disjoint
<1>5. full => \A c \in Clusters : t[c] # 0 => \E f \in Names : c \in Ran(ch[f])
  OBVIOUS
<1> QED BY <1>1, <1>2, <1>3, <1>4, <1>5 DEF Live

\* The invariant holds of a formatted card that was just mounted.
LEMMA InitInv == Init => IInv
<1> SUFFICES ASSUME Init PROVE IInv
  OBVIOUS
<1> PICK q : q = Idle
  OBVIOUS
<1>1. vol = Mount(Blank) /\ file = AllClosed /\ calls = 1 /\ astray = {} /\ muddled = {} /\ torn = {} /\ failed = FALSE /\ powered = TRUE
  BY DEF Init, AllClosed
<1>2. DOMAIN vol = Fields
  BY <1>1 DEF Mount, Fields
<1>3. GhostsOk
  BY <1>1 DEF GhostsOk
<1>4. q.card = Blank /\ q.buf = Blank[0] /\ q.num = 0 /\ q.dirty = FALSE /\ q.mirror = 0 /\ q.start = 2
  BY <1>1 DEF Idle, Begin, Mount
<1>5. q \in State
  <2>1. 0 \in Blocks /\ Blank[0] \in Block /\ Blank \in [Blocks -> Block]
    BY Layout, BlankFacts
  <2> QED BY <1>1, <2>1 DEF Idle, Begin, Mount, State, Numbers, Never
<1>6. View(q) = Blank
  <2>1. 0 \in Blocks /\ Blank \in [Blocks -> Block]
    BY Layout, BlankFacts
  <2>2. View(q) = [Blank EXCEPT ![0] = Blank[0]]
    BY <1>4, <2>1 DEF View
  <2> QED BY <2>1, <2>2
<1>7. Sound(q)
  <2>1. q.num \in Numbers \ Mirrors /\ q.num \notin FatBlocks
    BY <1>4, Layout DEF Numbers
  <2> QED BY <1>4, <1>5, <1>6, <2>1, BlankFacts DEF Sound, Coherent
<1>8. Twin(q)
  BY <1>4, BlankFacts DEF Twin
<1> PICK t, root : t = Table(Main(Blank)) /\ root = Root(Main(Blank))
  OBVIOUS
<1>9. Table(Seen(q)) = t /\ Root(Seen(q)) = root /\ Table(Main(q.card)) = t /\ Root(Main(q.card)) = root
  BY <1>4, <1>6 DEF Seen
<1>10. t \in Tables /\ root = [i \in SlotNumbers |-> Free] /\ \A c \in Clusters : t[c] = 0
  BY <1>7, <1>9, TablesTyped, BlankFacts
<1>11. \A long, exact, full : \E ch : Live(t, root, AllClosed, ch, Names, long, exact, full)
  BY <1>10, NothingLives
<1>12. \A g \in Names : EntryIn(root, g).size <= EntryIn(root, g).size
  BY <1>10, NoFiles DEF Free
<1>13. AllClosed \in [Names -> Handles] /\ \A g \in Names : HandleOk(g, AllClosed[g]) /\ ~AllClosed[g].open
  BY DEF AllClosed, Handles, HandleOk, Closed
<1>14. q.start \in Startable
  BY <1>4, VolumeAssumption DEF Startable, LastCluster
<1>15. Rest(q, AllClosed, Names, Names, Names, TRUE, TRUE)
  BY <1>7, <1>8, <1>9, <1>11, <1>12, <1>13, <1>14 DEF Rest
<1>16. Names \ torn = Names /\ Names \ (torn \cup muddled) = Names /\ Names \ (torn \cup muddled \cup astray) = Names /\ ~failed = TRUE /\ powered = TRUE
  BY <1>1
<1>17. Rest(Idle, file, Names \ torn, Names \ (torn \cup muddled), Names \ (torn \cup muddled \cup astray), ~failed, powered)
  BY <1>1, <1>15, <1>16
<1> QED BY <1>2, <1>3, <1>17 DEF IInv

\* Every call keeps the inductive invariant, whatever fails in it.
LEMMA NextInv == IInv /\ [Next]_vars => IInv'
<1> SUFFICES ASSUME IInv, [Next]_vars PROVE IInv'
  OBVIOUS
<1>1. CASE Next
  <2> PICK f \in Names \ torn, a \in Accidents :
        \/ \E mode \in Modes : OpenCall(f, mode, a)
        \/ \E n \in Lengths : CreateCall(f, n, a) \/ WriteCall(f, n, a) \/ ReadCall(f, n, a)
        \/ \E pos \in Positions : SeekCall(f, pos, a) \/ TruncateCall(f, pos, a)
        \/ \E closing \in BOOLEAN : SyncCall(f, closing, a)
        \/ RemoveCall(f, a)
    BY <1>1 DEF Next
  <2>1. CASE \E mode \in Modes : OpenCall(f, mode, a)
    BY <2>1, OpenStep
  <2>2. CASE \E n \in Lengths : CreateCall(f, n, a)
    BY <2>2, CreateStep
  <2>3. CASE \E n \in Lengths : WriteCall(f, n, a)
    BY <2>3, WriteStep
  <2>4. CASE \E n \in Lengths : ReadCall(f, n, a)
    BY <2>4, ReadStep
  <2>5. CASE \E pos \in Positions : SeekCall(f, pos, a)
    BY <2>5, SeekStep
  <2>6. CASE \E pos \in Positions : TruncateCall(f, pos, a)
    BY <2>6, TruncateStep
  <2>7. CASE \E closing \in BOOLEAN : SyncCall(f, closing, a)
    BY <2>7, SyncStep
  <2>8. CASE RemoveCall(f, a)
    BY <2>8, RemoveStep
  <2> QED BY <2>1, <2>2, <2>3, <2>4, <2>5, <2>6, <2>7, <2>8
<1>2. CASE UNCHANGED vars
  BY <1>2 DEF vars, ghosts, IInv, GhostsOk, Idle, Begin
<1> QED BY <1>1, <1>2

\* Whatever calls are made, and wherever the card fails or the power is lost, the
\* volume is between two calls as IInv says: the chains of the files it promises
\* end, are apart and long enough, both as the cache shows them and on the card,
\* and the handles stand where they belong.
THEOREM InductiveInvariant == Spec => []IInv
<1>1. Init => IInv
  BY InitInv
<1>2. IInv /\ [Next]_vars => IInv'
  BY NextInv
<1> QED BY <1>1, <1>2, PTL DEF Spec

\* The types are part of the invariant.
LEMMA Types == IInv => TypeOK
<1> SUFFICES ASSUME IInv PROVE TypeOK
  OBVIOUS
<1> PICK q : q = Idle
  OBVIOUS
<1>1. Sound(q) /\ q.start \in Startable /\ (\A g \in Names : HandleOk(g, file[g]))
  BY DEF IInv, Rest
<1>2. vol.num = q.num /\ vol.start = q.start /\ vol.dirty = q.dirty /\ vol.mirror = q.mirror
  BY DEF Idle, Begin
<1>3. q.num \in Blocks \cup BehindVolume \cup {None} /\ q.start \in 2 .. LastCluster + 1 /\ q.dirty \in BOOLEAN
  BY <1>1 DEF Sound, State, Numbers, Startable
<1>4. q.mirror \in {0} \cup Blocks
  BY <1>1, Layout DEF Sound, Coherent
<1>5. ASSUME NEW f \in Names, file[f].open
      PROVE  /\ file[f].pos \in Nat /\ file[f].size \in 0 .. MaxSize
             /\ file[f].cur \in 0 .. EOC /\ file[f].first \in {0} \cup Clusters
             /\ file[f].slot \in 0 .. Slots - 1 /\ file[f].flags \subseteq Flags
  <2>1. file[f] \in Handle /\ file[f].cur <= EOC /\ file[f].first \in {0} \cup Clusters /\ file[f].size <= MaxSize
    BY <1>1, <1>5 DEF HandleOk
  <2>2. file[f].pos \in Nat /\ file[f].size \in Nat /\ file[f].cur \in Nat /\ file[f].slot \in SlotNumbers /\ file[f].flags \in SUBSET Flags
    BY <2>1, HandleTypes
  <2> QED BY <2>1, <2>2, FileAssumption, VolumeAssumption DEF SlotNumbers, EOC, LastCluster
<1> QED BY <1>2, <1>3, <1>4, <1>5 DEF TypeOK

\* The state of the volume and of its handles keeps its types: no handle comes to a
\* cluster number outside the table, nor the cache to a mirror block behind it.
THEOREM TypesHold == Spec => []TypeOK
BY InductiveInvariant, Types, PTL

\* The tables agree unless the block in memory waits to be written.
LEMMA Mirrored == IInv => MirrorAgrees
<1> SUFFICES ASSUME IInv, powered, ~vol.dirty, FatCount = 2, NEW k \in 0 .. BlocksPerFat - 1
             PROVE  vol.card[FatStart + k] = vol.card[FatStart + BlocksPerFat + k]
  BY DEF MirrorAgrees
<1> PICK q, b : q = Idle /\ b = FatStart + k
  OBVIOUS
<1>1. Twin(q) /\ q.card = vol.card /\ q.dirty = vol.dirty
  BY DEF IInv, Rest, Idle, Begin
<1>2. b \in FatBlocks /\ b + BlocksPerFat = FatStart + BlocksPerFat + k
  BY Layout DEF FatBlocks, FatStart
<1> QED BY <1>1, <1>2 DEF Twin

\* The second allocation table equals the first one on the card whenever the cache
\* has nothing to write and the power was never lost, although a call that failed
\* may have written one of them only.
THEOREM MirrorAgreesHolds == Spec => []MirrorAgrees
BY InductiveInvariant, Mirrored, PTL

\* Cluster k of a chain, as ClusterAt counts: the end marker behind the last one, 0 further on.
Stop(c, k) == IF k < Len(c) THEN c[k + 1] ELSE IF k = Len(c) /\ c # <<>> THEN EOC ELSE 0

\* Counting along a chain comes to its clusters.
LEMMA WalkChain ==
  ASSUME NEW m, NEW t, NEW first, NEW c \in Seq(Clusters), Linked(t, first, c),
         \A a \in Ran(c) : FatEntry(m, a) = t[a], NEW i \in Nat
  PROVE  ClusterAt(m, first, i) = Stop(c, i)
<1> DEFINE next(k, x) == IF k = 0 THEN first ELSE IF x \in Clusters THEN FatEntry(m, x) ELSE 0
<1>1. Len(c) \in Nat /\ (c = <<>> <=> Len(c) = 0) /\ \A k \in 1 .. Len(c) : c[k] \in Clusters
  OBVIOUS
<1>2. EOC \notin Clusters /\ 0 \notin Clusters
  BY VolumeAssumption DEF EOC, Clusters, LastCluster
<1>3. \A k \in 0 .. i : Stop(c, k) = next(k, Stop(c, k - 1))
  <2> SUFFICES ASSUME NEW k \in 0 .. i PROVE Stop(c, k) = next(k, Stop(c, k - 1))
    OBVIOUS
  <2>1. CASE k = 0
    BY <1>1, <2>1 DEF Stop, Linked
  <2>2. CASE k # 0 /\ k <= Len(c)
    <3>1. k \in 1 .. Len(c) /\ k - 1 < Len(c) /\ k - 1 + 1 = k /\ c[k] \in Clusters
      BY <1>1, <2>2
    <3>2. Stop(c, k - 1) = c[k]
      BY <3>1 DEF Stop
    <3>3. next(k, c[k]) = t[c[k]]
      BY <2>2, <3>1 DEF Ran
    <3>4. t[c[k]] = IF k < Len(c) THEN c[k + 1] ELSE EOC
      BY <3>1 DEF Linked
    <3>5. Stop(c, k) = IF k < Len(c) THEN c[k + 1] ELSE EOC
      BY <1>1, <2>2, <3>1 DEF Stop
    <3> HIDE DEF next
    <3> QED BY <3>2, <3>3, <3>4, <3>5
  <2>3. CASE k # 0 /\ k > Len(c)
    <3>1. Stop(c, k) = 0
      BY <1>1, <2>3 DEF Stop
    <3>2. Stop(c, k - 1) \in {EOC, 0}
      BY <1>1, <2>3 DEF Stop
    <3> QED BY <1>2, <2>3, <3>1, <3>2
  <2> QED BY <1>1, <2>1, <2>2, <2>3
<1> DEFINE at == CHOOSE g : g = [k \in 0 .. i |-> IF k = 0 THEN first ELSE IF g[k - 1] \in Clusters THEN FatEntry(m, g[k - 1]) ELSE 0]
<1>4. ClusterAt(m, first, i) = at[i]
  BY DEF ClusterAt
<1>5. PICK w : w = [k \in 0 .. i |-> Stop(c, k)]
  OBVIOUS
<1>6. \A k \in 0 .. i : w[k] = IF k = 0 THEN first ELSE IF w[k - 1] \in Clusters THEN FatEntry(m, w[k - 1]) ELSE 0
  <2>1. \A k \in 0 .. i : w[k] = Stop(c, k) /\ (k # 0 => w[k - 1] = Stop(c, k - 1))
    BY <1>5
  <2> QED BY <1>3, <2>1
<1>7. w = [k \in 0 .. i |-> IF k = 0 THEN first ELSE IF w[k - 1] \in Clusters THEN FatEntry(m, w[k - 1]) ELSE 0]
  <2>1. w = [k \in 0 .. i |-> w[k]]
    BY <1>5
  <2> QED BY <1>6, <2>1
<1>8. at = [k \in 0 .. i |-> IF k = 0 THEN first ELSE IF at[k - 1] \in Clusters THEN FatEntry(m, at[k - 1]) ELSE 0]
  BY <1>7, Zenon
<1> PICK g : g = at
  OBVIOUS
<1> DEFINE A == {k \in 0 .. i : g[k] = Stop(c, k)}
<1>9. g = [k \in 0 .. i |-> IF k = 0 THEN first ELSE IF g[k - 1] \in Clusters THEN FatEntry(m, g[k - 1]) ELSE 0]
  BY <1>8
<1> HIDE DEF at
<1>10. 0 \in A
  <2>1. g[0] = first
    BY <1>9
  <2> QED BY <1>3, <2>1
<1>11. ASSUME NEW k \in 1 .. i, k - 1 \in A PROVE k \in A
  <2>1. k \in 0 .. i /\ k # 0
    OBVIOUS
  <2>3. g[k] = next(k, g[k - 1])
    BY ONLY <1>9, <2>1
  <2>2. g[k - 1] = Stop(c, k - 1) /\ k \in 0 .. i
    BY <1>11
  <2> HIDE DEF next
  <2> QED BY <1>3, <2>2, <2>3
<1>12. i \in A
  <2> HIDE DEF A
  <2>1. \A k \in 1 .. i : k - 1 \in A => k \in A
    BY <1>11
  <2>2. \A k \in 0 .. i : k \in A
    BY <1>10, <2>1, UpTo
  <2> QED BY <2>2
<1> QED BY <1>4, <1>12

\* What the counting of the clusters finds is the chain.
LEMMA CountedChain ==
  ASSUME NEW m, NEW t, NEW first, NEW c \in Seq(Clusters), Linked(t, first, c), Once(c),
         \A a \in Clusters : FatEntry(m, a) = t[a]
  PROVE  /\ {ClusterAt(m, first, i) : i \in 0 .. ClusterCount - 1} \cap Clusters = Ran(c)
         /\ first # 0 => \E i \in 1 .. ClusterCount : IsEOC(ClusterAt(m, first, i))
<1>1. Len(c) \in Nat /\ (c = <<>> <=> Len(c) = 0) /\ (\A k \in 1 .. Len(c) : c[k] \in Clusters) /\ Len(c) <= ClusterCount
  BY ChainSize
<1>2. EOC \notin Clusters /\ 0 \notin Clusters /\ IsEOC(EOC) /\ ClusterCount \in Nat
  BY VolumeAssumption DEF EOC, Clusters, LastCluster, IsEOC
<1>3. \A i \in Nat : ClusterAt(m, first, i) = Stop(c, i)
  <2>1. \A a \in Ran(c) : FatEntry(m, a) = t[a]
    BY <1>1 DEF Ran
  <2> QED BY <2>1, WalkChain
<1>4. ASSUME NEW a \in Ran(c) PROVE a \in {ClusterAt(m, first, i) : i \in 0 .. ClusterCount - 1} \cap Clusters
  <2> PICK k \in 1 .. Len(c) : a = c[k]
    BY DEF Ran
  <2>1. k - 1 \in 0 .. ClusterCount - 1 /\ k - 1 < Len(c) /\ k - 1 + 1 = k
    BY <1>1, <1>2
  <2>2. ClusterAt(m, first, k - 1) = a
    BY <1>3, <2>1 DEF Stop
  <2> QED BY <1>1, <2>1, <2>2
<1>5. ASSUME NEW i \in 0 .. ClusterCount - 1, ClusterAt(m, first, i) \in Clusters PROVE ClusterAt(m, first, i) \in Ran(c)
  <2>1. Stop(c, i) \in Clusters /\ i \in Nat
    BY <1>2, <1>3, <1>5
  <2>2. i < Len(c) /\ Stop(c, i) = c[i + 1] /\ i + 1 \in 1 .. Len(c)
    BY <1>1, <1>2, <2>1 DEF Stop
  <2> QED BY <1>3, <2>1, <2>2 DEF Ran
<1>6. first # 0 => \E i \in 1 .. ClusterCount : IsEOC(ClusterAt(m, first, i))
  <2> SUFFICES ASSUME first # 0 PROVE IsEOC(ClusterAt(m, first, Len(c))) /\ Len(c) \in 1 .. ClusterCount
    OBVIOUS
  <2>1. c # <<>>
    BY DEF Linked
  <2>2. Stop(c, Len(c)) = EOC
    BY <1>1, <2>1 DEF Stop
  <2> QED BY <1>1, <1>2, <1>3, <2>1, <2>2
<1> QED BY <1>4, <1>5, <1>6

\* The blocks as the cache shows them between two calls.
LEMMA IdleView ==
  ASSUME NEW q, q = Idle, Sound(q), NEW m, m = View(vol)
  PROVE  /\ \A a \in Clusters : FatEntry(m, a) = Table(Seen(q))[a]
         /\ \A f \in Names : EntryOf(m, f) = EntryIn(Root(Seen(q)), f)
<1>1. m = View(q)
  BY DEF View, Idle, Begin
<1>2. \A a \in Clusters : FatEntry(m, a) = Table(Seen(q))[a]
  <2> SUFFICES ASSUME NEW a \in Clusters PROVE FatEntry(m, a) = Table(Seen(q))[a]
    OBVIOUS
  <2>1. a \in 0 .. LastCluster
    BY VolumeAssumption DEF Clusters, LastCluster
  <2>2. FatBlock(a) \in Blocks \ Mirrors
    BY <2>1, Layout
  <2> QED BY <1>1, <2>1, <2>2, TableTyped DEF FatEntry, Seen, Main
<1> PICK root : root = Root(Seen(q))
  OBVIOUS
<1>3. m[RootDirStart] = root
  BY <1>1, Layout DEF Root, Seen, Main
<1>4. ASSUME NEW f \in Names PROVE EntryOf(m, f) = EntryIn(root, f)
  BY <1>3 DEF EntryOf, EntryIn, SlotNumbers
<1> QED BY <1>2, <1>4

\* The chain of a file is the one that the invariant speaks of.
LEMMA OwnedChain ==
  ASSUME IInv, NEW q, q = Idle, NEW ch,
         Live(Table(Seen(q)), Root(Seen(q)), file, ch, Names \ torn, Names \ (torn \cup muddled),
              Names \ (torn \cup muddled \cup astray), ~failed),
         NEW f \in Names \ torn
  PROVE  /\ ChainOf(f) = Ran(ch[f]) /\ ch[f] \in Seq(Clusters) /\ Once(ch[f])
         /\ FirstOf(f) # 0 => \E i \in 1 .. ClusterCount : IsEOC(ClusterAt(View(vol), FirstOf(f), i))
         /\ f \notin muddled => SizeOf(f) <= Len(ch[f]) * ClusterUnits
<1> PICK t, root, m, c, first : t = Table(Seen(q)) /\ root = Root(Seen(q)) /\ m = View(vol) /\ c = ch[f] /\ first = FirstOf(f)
  OBVIOUS
<1>1. Sound(q)
  BY DEF IInv, Rest
<1>2. (\A a \in Clusters : FatEntry(m, a) = t[a]) /\ EntryOf(m, f) = EntryIn(root, f)
  BY <1>1, IdleView
<1>3. first = FirstIn(root, f, file[f]) /\ SizeOf(f) = SizeIn(root, f, file[f])
  BY <1>2 DEF FirstOf, SizeOf, FirstIn, SizeIn
<1>4. c \in Seq(Clusters) /\ Once(c) /\ \E lo, ex, fu : FileOk(t, root, f, file[f], c, lo, ex, fu) /\ (f \notin muddled => lo)
  <2>1. c \in Seq(Clusters) /\ Once(c)
    BY DEF Live, Disjoint, Once
  <2>2. FileOk(t, root, f, file[f], c, f \in Names \ (torn \cup muddled), f \in Names \ (torn \cup muddled \cup astray), ~failed)
    BY DEF Live
  <2> QED BY <2>1, <2>2
<1>5. Linked(t, first, c) /\ (f \notin muddled => SizeOf(f) <= Len(c) * ClusterUnits)
  BY <1>3, <1>4 DEF FileOk
<1>6. /\ {ClusterAt(m, first, i) : i \in 0 .. ClusterCount - 1} \cap Clusters = Ran(c)
      /\ first # 0 => \E i \in 1 .. ClusterCount : IsEOC(ClusterAt(m, first, i))
  <2>1. c \in Seq(Clusters) /\ Once(c) /\ Linked(t, first, c) /\ \A a \in Clusters : FatEntry(m, a) = t[a]
    BY <1>2, <1>4, <1>5
  <2> QED BY ONLY <2>1, CountedChain
<1>7. ChainOf(f) = Ran(c)
  BY <1>6 DEF ChainOf
<1> QED BY <1>4, <1>5, <1>6, <1>7

\* The chains that the property counts are those of the invariant.
LEMMA Owned == IInv => ClustersOwned
<1> SUFFICES ASSUME IInv PROVE ClustersOwned
  OBVIOUS
<1> PICK q : q = Idle
  OBVIOUS
<1>1. PICK ch : Live(Table(Seen(q)), Root(Seen(q)), file, ch, Names \ torn, Names \ (torn \cup muddled),
                     Names \ (torn \cup muddled \cup astray), ~failed)
  BY DEF IInv, Rest
<1>2. \A f \in Names \ torn :
         /\ ChainOf(f) = Ran(ch[f]) /\ ch[f] \in Seq(Clusters) /\ Once(ch[f])
         /\ FirstOf(f) # 0 => \E i \in 1 .. ClusterCount : IsEOC(ClusterAt(View(vol), FirstOf(f), i))
         /\ f \notin muddled => SizeOf(f) <= Len(ch[f]) * ClusterUnits
  BY <1>1, OwnedChain
<1>3. ASSUME NEW f \in Names \ torn, f \notin muddled PROVE Cardinality(ChainOf(f)) * ClusterUnits >= SizeOf(f)
  <2>1. Cardinality(ChainOf(f)) = Len(ch[f]) /\ Len(ch[f]) \in Nat
    BY <1>2, ChainSize
  <2>2. SizeOf(f) <= Len(ch[f]) * ClusterUnits
    BY <1>2, <1>3
  <2> QED BY <2>1, <2>2
<1>4. ASSUME NEW f \in Names \ torn, NEW g \in Names \ (torn \cup {f}) PROVE ChainOf(f) \cap ChainOf(g) = {}
  <2>1. Disjoint(Names \ torn, ch)
    BY <1>1 DEF Live
  <2>2. ChainOf(f) = Ran(ch[f]) /\ ChainOf(g) = Ran(ch[g]) /\ f # g
    BY <1>2
  <2> QED BY <2>1, <2>2 DEF Disjoint, Ran
<1>5. ASSUME ~failed PROVE {c \in Clusters : FatEntry(View(vol), c) # 0} = UNION {ChainOf(f) : f \in Names}
  <2>1. torn = {} /\ Sound(q)
    BY <1>5 DEF IInv, GhostsOk, Rest
  <2> PICK t, m : t = Table(Seen(q)) /\ m = View(vol)
    OBVIOUS
  <2>2. \A a \in Clusters : FatEntry(m, a) = t[a]
    BY <2>1, IdleView
  <2>3. \A a \in Clusters : t[a] # 0 => \E f \in Names : a \in Ran(ch[f])
    BY <1>1, <1>5, <2>1 DEF Live
  <2>4. ASSUME NEW f \in Names PROVE \A a \in Ran(ch[f]) : t[a] # 0 /\ a \in Clusters
    <3>1. FileOk(t, Root(Seen(q)), f, file[f], ch[f], f \in Names \ (torn \cup muddled), f \in Names \ (torn \cup muddled \cup astray), ~failed)
      BY <1>1, <2>1 DEF Live
    <3>2. Linked(t, FirstIn(Root(Seen(q)), f, file[f]), ch[f]) /\ ch[f] \in Seq(Clusters)
      BY <1>2, <2>1, <3>1 DEF FileOk
    <3> QED BY <3>2, UsedInChain
  <2>5. \A f \in Names : ChainOf(f) = Ran(ch[f])
    BY <1>2, <2>1
  <2> QED BY <2>2, <2>3, <2>4, <2>5
<1> QED BY <1>2, <1>3, <1>4, <1>5 DEF ClustersOwned

\* No cluster is in two files and every chain ends, long enough for its file, even
\* when calls fail half-way; as long as none failed no cluster is lost.
THEOREM ClustersOwnedHolds == Spec => []ClustersOwned
BY InductiveInvariant, Owned, PTL
=============================================================================
