------------------------------ MODULE HeapProofs ------------------------------
(***************************************************************************)
(* The heap for every size of it, of a word and of an address: the chunks  *)
(* tile it, free memory is joined and given back, and the sketch's blocks  *)
(* are those of the abstract allocator.                                    *)
(*                                                                         *)
(* The proofs look at the heap in two ways.  Fill sees a set of chunks     *)
(* that lie one behind the other; what the calls do to it is to divide a   *)
(* chunk, join two neighbours, and lower or raise the top.  Ordered sees   *)
(* the free list as a sequence; what they do to it is to take an entry     *)
(* out, replace one, or put one in place of a stretch.  Sound is the       *)
(* inductive invariant and ties the two together.                          *)
(***************************************************************************)
EXTENDS Heap, SequenceTheorems, WellFoundedInduction, TLAPS

-----------------------------------------------------------------------------
(* Chunks that fill the heap *)

\* A set of numbers has a least one.
LEMMA MinFacts == ASSUME NEW S, S \subseteq Nat, S # {}
                  PROVE  Min(S) \in S /\ \A y \in S : Min(S) <= y
<1> DEFINE R == OpToRel(<, Nat)
<1>1. IsWellFoundedOn(R, Nat)
  BY NatLessThanWellFounded
<1>2. PICK x \in S : \A y \in S : <<y, x>> \notin R
  <2> HIDE DEF R
  <2> QED BY <1>1, WFMin
<1>3. \A y \in S : ~(y < x)
  <2> SUFFICES ASSUME NEW y \in S, y < x PROVE FALSE
    OBVIOUS
  <2>1. y \in Nat /\ x \in Nat
    OBVIOUS
  <2>2. <<y, x>> \in R
    BY <2>1, Zenon DEF OpToRel
  <2> QED BY <1>2, <2>2, Zenon
<1>4. \A y \in S : x <= y
  BY <1>3
<1> QED BY <1>4 DEF Min

\* What is proved of chunks needs no bound on their addresses.
AnyChunk == [at : Nat, sz : Nat]
Apart(c, d) == EndOf(c) <= d.at \/ EndOf(d) <= c.at

\* The chunks C fill the heap up to top.
Fill(C, top) == /\ C \subseteq AnyChunk
                /\ \A c \in C : c.sz >= Word /\ c.at >= HeapStart /\ EndOf(c) <= top
                /\ \A c \in C : EndOf(c) = top \/ \E d \in C : d.at = EndOf(c)
                /\ \A c, d \in C : c = d \/ Apart(c, d)
                /\ top > HeapStart => \E c \in C : c.at = HeapStart

LEMMA ChunkFacts ==
  /\ \A a, s \in Nat : Chunk(a, s) \in AnyChunk
  /\ \A a, s : Chunk(a, s).at = a /\ Chunk(a, s).sz = s /\ EndOf(Chunk(a, s)) = a + Word + s
  /\ \A c \in AnyChunk : /\ c.at \in Nat /\ c.sz \in Nat /\ EndOf(c) = c.at + Word + c.sz
                         /\ EndOf(c) \in Nat /\ c.at < EndOf(c)
BY HeapAssumption DEF AnyChunk, Chunk, EndOf

\* Two chunks that begin or end at the same place are one.
LEMMA Unique ==
  ASSUME NEW C, NEW top, Fill(C, top), NEW c \in C, NEW d \in C
  PROVE  /\ c.at = d.at => c = d
         /\ EndOf(c) = EndOf(d) => c = d
<1>1. c \in AnyChunk /\ d \in AnyChunk
  BY DEF Fill
<1>2. c = d \/ Apart(c, d)
  BY DEF Fill
<1>3. /\ c.at \in Nat /\ EndOf(c) \in Nat /\ c.at < EndOf(c)
      /\ d.at \in Nat /\ EndOf(d) \in Nat /\ d.at < EndOf(d)
  BY <1>1, ChunkFacts
<1> QED BY <1>2, <1>3 DEF Apart

\* A chunk divided leaves the heap filled.
LEMMA Divide ==
  ASSUME NEW C, NEW top \in Nat, Fill(C, top), NEW c \in C,
         NEW lower \in AnyChunk, NEW upper \in AnyChunk,
         lower.at = c.at, EndOf(lower) = upper.at, EndOf(upper) = EndOf(c),
         lower.sz >= Word, upper.sz >= Word
  PROVE  /\ Fill((C \ {c}) \cup {lower, upper}, top)
         /\ lower \notin C \ {c} /\ upper \notin C \ {c} /\ lower # upper
<1> DEFINE D == (C \ {c}) \cup {lower, upper}
<1>1. c \in AnyChunk /\ C \subseteq AnyChunk /\ c.at >= HeapStart /\ EndOf(c) <= top
  BY DEF Fill
<1>2. /\ c.at \in Nat /\ EndOf(c) \in Nat /\ lower.at \in Nat /\ EndOf(lower) \in Nat
      /\ upper.at \in Nat /\ EndOf(upper) \in Nat /\ lower.at < EndOf(lower) /\ upper.at < EndOf(upper)
      /\ HeapStart \in Nat
  BY <1>1, ChunkFacts, HeapAssumption
<1>3. \A d \in C \ {c} : Apart(d, c) /\ d.at \in Nat /\ EndOf(d) \in Nat /\ d.at < EndOf(d)
  BY <1>1, ChunkFacts DEF Fill, Apart
<1>4. \A d \in C \ {c} : Apart(d, lower) /\ Apart(lower, d) /\ Apart(d, upper) /\ Apart(upper, d)
  BY <1>2, <1>3 DEF Apart
<1>5. Apart(lower, upper) /\ Apart(upper, lower) /\ lower # upper
  BY <1>2 DEF Apart
<1>6. lower \notin C \ {c} /\ upper \notin C \ {c}
  BY <1>2, <1>4 DEF Apart
<1>7. D \subseteq AnyChunk
  BY <1>1
<1>8. \A x \in D : x.sz >= Word /\ x.at >= HeapStart /\ EndOf(x) <= top
  BY <1>1, <1>2 DEF Fill
<1>9. \A x \in D : EndOf(x) = top \/ \E y \in D : y.at = EndOf(x)
  <2>1. ASSUME NEW x \in C, EndOf(x) # top PROVE \E y \in D : y.at = EndOf(x)
    <3>1. PICK y \in C : y.at = EndOf(x)
      BY <2>1 DEF Fill
    <3>2. CASE y = c
      BY <3>1, <3>2
    <3> QED BY <3>1, <3>2
  <2> QED BY <2>1
<1>10. \A x, y \in D : x = y \/ Apart(x, y)
  <2>1. \A x, y \in C : x = y \/ Apart(x, y)
    BY DEF Fill
  <2> QED BY <1>4, <1>5, <2>1
<1>11. top > HeapStart => \E x \in D : x.at = HeapStart
  BY DEF Fill
<1>12. Fill(D, top)
  BY <1>7, <1>8, <1>9, <1>10, <1>11 DEF Fill
<1> QED BY <1>5, <1>6, <1>12

\* So do two neighbours joined.
LEMMA Join ==
  ASSUME NEW C, NEW top \in Nat, Fill(C, top), NEW lower \in C, NEW upper \in C,
         EndOf(lower) = upper.at,
         NEW c \in AnyChunk, c.at = lower.at, EndOf(c) = EndOf(upper)
  PROVE  /\ Fill((C \ {lower, upper}) \cup {c}, top)
         /\ c \notin C \ {lower, upper} /\ c.sz >= Word
<1> DEFINE D == (C \ {lower, upper}) \cup {c}
<1>1. /\ C \subseteq AnyChunk /\ lower.at >= HeapStart /\ EndOf(upper) <= top
      /\ lower.sz >= Word /\ upper.sz >= Word
  BY DEF Fill
<1>2. /\ c.at \in Nat /\ EndOf(c) \in Nat /\ lower.at \in Nat /\ EndOf(lower) \in Nat
      /\ upper.at \in Nat /\ EndOf(upper) \in Nat /\ lower.at < EndOf(lower) /\ upper.at < EndOf(upper)
      /\ HeapStart \in Nat
  BY <1>1, ChunkFacts, HeapAssumption
<1>3. \A d \in C \ {lower, upper} : Apart(d, lower) /\ Apart(d, upper)
                                    /\ d.at \in Nat /\ EndOf(d) \in Nat /\ d.at < EndOf(d)
  BY <1>1, ChunkFacts DEF Fill, Apart
<1>4. \A d \in C \ {lower, upper} : Apart(d, c) /\ Apart(c, d)
  BY <1>2, <1>3 DEF Apart
<1>5. c \notin C \ {lower, upper}
  BY <1>2, <1>4 DEF Apart
<1>6. c.sz >= Word
  <2>1. c.sz \in Nat /\ lower.sz \in Nat /\ upper.sz \in Nat /\ Word \in Nat
    BY <1>1, ChunkFacts, HeapAssumption
  <2>2. EndOf(c) = c.at + Word + c.sz /\ EndOf(lower) = lower.at + Word + lower.sz
        /\ EndOf(upper) = upper.at + Word + upper.sz
    BY DEF EndOf
  <2> QED BY <1>1, <1>2, <2>1, <2>2
<1>7. \A x \in D : x.sz >= Word /\ x.at >= HeapStart /\ EndOf(x) <= top
  BY <1>1, <1>6 DEF Fill
<1>8. \A x \in D : EndOf(x) = top \/ \E y \in D : y.at = EndOf(x)
  <2>1. ASSUME NEW x \in C \ {lower}, EndOf(x) # top PROVE \E y \in D : y.at = EndOf(x)
    <3>1. PICK y \in C : y.at = EndOf(x)
      BY <2>1 DEF Fill
    <3>2. y # upper
      BY <2>1, <3>1, Unique
    <3>3. CASE y = lower
      BY <3>1, <3>3
    <3> QED BY <3>1, <3>2, <3>3
  <2>2. upper # lower
    BY <1>2
  <2> QED BY <2>1, <2>2
<1>9. \A x, y \in D : x = y \/ Apart(x, y)
  <2>1. \A x, y \in C : x = y \/ Apart(x, y)
    BY DEF Fill
  <2> QED BY <1>4, <2>1
<1>10. top > HeapStart => \E x \in D : x.at = HeapStart
  <2> SUFFICES ASSUME top > HeapStart PROVE \E x \in D : x.at = HeapStart
    OBVIOUS
  <2>1. PICK x \in C : x.at = HeapStart
    BY DEF Fill
  <2>2. x # upper
    BY <1>1, <1>2, <2>1
  <2> QED BY <2>1, <2>2
<1>11. Fill(D, top)
  BY <1>1, <1>7, <1>8, <1>9, <1>10 DEF Fill
<1> QED BY <1>5, <1>6, <1>11

\* The topmost chunk given back lowers the top.
LEMMA Lower ==
  ASSUME NEW C, NEW top \in Nat, Fill(C, top), NEW c \in C, EndOf(c) = top
  PROVE  /\ Fill(C \ {c}, c.at) /\ c.at >= HeapStart /\ c.at < top
         /\ \A d \in C \ {c} : EndOf(d) <= c.at
<1> DEFINE D == C \ {c}
<1>1. C \subseteq AnyChunk /\ c.at >= HeapStart /\ HeapStart \in Nat
  BY HeapAssumption DEF Fill
<1>2. \A d \in C : d.at \in Nat /\ EndOf(d) \in Nat /\ d.at < EndOf(d) /\ EndOf(d) <= top
  BY <1>1, ChunkFacts DEF Fill
<1>3. \A d \in D : EndOf(d) <= c.at
  <2> TAKE d \in D
  <2>1. Apart(c, d)
    BY DEF Fill
  <2> QED BY <1>2, <2>1 DEF Apart
<1>4. \A d \in D : EndOf(d) = c.at \/ \E e \in D : e.at = EndOf(d)
  BY <1>2, <1>3 DEF Fill
<1>5. c.at > HeapStart => \E d \in D : d.at = HeapStart
  <2> SUFFICES ASSUME c.at > HeapStart PROVE \E d \in D : d.at = HeapStart
    OBVIOUS
  <2>1. top > HeapStart
    BY <1>1, <1>2
  <2> QED BY <1>1, <1>2, <2>1 DEF Fill
<1>6. Fill(D, c.at)
  BY <1>1, <1>3, <1>4, <1>5 DEF Fill
<1> QED BY <1>1, <1>2, <1>3, <1>6

\* A chunk added at the top raises it.
LEMMA Raise ==
  ASSUME NEW C, NEW top \in Nat, top >= HeapStart, Fill(C, top),
         NEW c \in AnyChunk, c.at = top, c.sz >= Word
  PROVE  Fill(C \cup {c}, EndOf(c)) /\ c \notin C
<1> DEFINE D == C \cup {c}
<1>1. C \subseteq AnyChunk /\ HeapStart \in Nat /\ EndOf(c) \in Nat /\ top < EndOf(c)
  BY ChunkFacts, HeapAssumption DEF Fill
<1>2. \A d \in C : d.at \in Nat /\ EndOf(d) \in Nat /\ d.at < EndOf(d) /\ EndOf(d) <= top
  BY <1>1, ChunkFacts DEF Fill
<1>3. \A d \in D : d.sz >= Word /\ d.at >= HeapStart /\ EndOf(d) <= EndOf(c)
  BY <1>1, <1>2 DEF Fill
<1>4. \A d \in D : EndOf(d) = EndOf(c) \/ \E e \in D : e.at = EndOf(d)
  BY DEF Fill
<1>5. \A d, e \in D : d = e \/ Apart(d, e)
  BY <1>2 DEF Fill, Apart
<1>6. \E d \in D : d.at = HeapStart
  BY <1>1 DEF Fill
<1> QED BY <1>1, <1>2, <1>3, <1>4, <1>5, <1>6 DEF Fill

-----------------------------------------------------------------------------
(* The free list *)

\* In order of addresses, and no entry touches the next.
Ordered(list) == /\ list \in Seq(AnyChunk)
                 /\ \A j, k \in 1 .. Len(list) : j < k => EndOf(list[j]) < list[k].at

Entries(list) == {list[k] : k \in 1 .. Len(list)}

\* The entries up to a and from b on.
Outer(list, a, b) == {list[k] : k \in 1 .. a} \cup {list[k] : k \in b .. Len(list)}

\* No chunk is in an ordered list twice.
LEMMA EntryFacts ==
  ASSUME NEW list, Ordered(list)
  PROVE  /\ Len(list) \in Nat /\ DOMAIN list = 1 .. Len(list)
         /\ \A k \in 1 .. Len(list) : list[k] \in AnyChunk
         /\ \A j, k \in 1 .. Len(list) : list[j] = list[k] => j = k
<1>1. list \in Seq(AnyChunk)
  BY DEF Ordered
<1>2. Len(list) \in Nat /\ DOMAIN list = 1 .. Len(list) /\ \A k \in 1 .. Len(list) : list[k] \in AnyChunk
  BY <1>1, LenProperties
<1>3. ASSUME NEW j \in 1 .. Len(list), NEW k \in 1 .. Len(list), j < k PROVE list[j] # list[k]
  <2>1. EndOf(list[j]) < list[k].at /\ list[k].at < EndOf(list[k])
    BY <1>2, <1>3, ChunkFacts DEF Ordered
  <2>2. EndOf(list[j]) \in Nat /\ list[k].at \in Nat /\ EndOf(list[k]) \in Nat
    BY <1>2, ChunkFacts
  <2> QED BY <2>1, <2>2
<1>4. ASSUME NEW j \in 1 .. Len(list), NEW k \in 1 .. Len(list), list[j] = list[k] PROVE j = k
  <2>1. j < k \/ k < j \/ j = k
    BY <1>2
  <2> QED BY <1>3, <1>4, <2>1
<1> QED BY <1>2, <1>4

\* What the outer entries are when no entry, one, or one more is left out.
LEMMA OuterFacts ==
  ASSUME NEW list, Ordered(list)
  PROVE  /\ \A p \in 1 .. Len(list) + 1 : Outer(list, p - 1, p) = Entries(list)
         /\ \A p \in 1 .. Len(list) : Outer(list, p - 1, p + 1) = Entries(list) \ {list[p]}
         /\ \A p \in 2 .. Len(list) + 1, b \in 1 .. Len(list) + 1 :
              b >= p => Outer(list, p - 2, b) = Outer(list, p - 1, b) \ {list[p - 1]}
         /\ \A a \in 0 .. Len(list), b \in 1 .. Len(list) + 1 : Outer(list, a, b) \subseteq Entries(list)
<1>1. Len(list) \in Nat
  BY EntryFacts
<1>2. \A j, k \in 1 .. Len(list) : list[j] = list[k] => j = k
  BY EntryFacts
<1>3. ASSUME NEW p \in 1 .. Len(list) + 1 PROVE Outer(list, p - 1, p) = Entries(list)
  <2>1. 1 .. Len(list) = (1 .. p - 1) \cup (p .. Len(list))
    BY <1>1
  <2> QED BY <2>1 DEF Outer, Entries
<1>4. ASSUME NEW p \in 1 .. Len(list) PROVE Outer(list, p - 1, p + 1) = Entries(list) \ {list[p]}
  <2>1. (1 .. Len(list)) \ {p} = (1 .. p - 1) \cup (p + 1 .. Len(list))
    BY <1>1
  <2>2. Entries(list) \ {list[p]} = {list[k] : k \in (1 .. Len(list)) \ {p}}
    BY <1>2 DEF Entries
  <2> QED BY <2>1, <2>2 DEF Outer
<1>5. ASSUME NEW p \in 2 .. Len(list) + 1, NEW b \in 1 .. Len(list) + 1, b >= p
      PROVE  Outer(list, p - 2, b) = Outer(list, p - 1, b) \ {list[p - 1]}
  <2>1. /\ 1 .. p - 2 = (1 .. p - 1) \ {p - 1} /\ p - 1 \notin b .. Len(list)
        /\ 1 .. p - 1 \subseteq 1 .. Len(list) /\ b .. Len(list) \subseteq 1 .. Len(list)
        /\ p - 1 \in 1 .. Len(list)
    BY <1>1, <1>5
  <2>2. {list[k] : k \in 1 .. p - 2} = {list[k] : k \in 1 .. p - 1} \ {list[p - 1]}
    BY <1>2, <2>1
  <2>3. list[p - 1] \notin {list[k] : k \in b .. Len(list)}
    BY <1>2, <2>1
  <2> QED BY <2>2, <2>3 DEF Outer
<1>6. ASSUME NEW a \in 0 .. Len(list), NEW b \in 1 .. Len(list) + 1
      PROVE  Outer(list, a, b) \subseteq Entries(list)
  <2>1. 1 .. a \subseteq 1 .. Len(list) /\ b .. Len(list) \subseteq 1 .. Len(list)
    BY <1>1
  <2> QED BY <2>1 DEF Outer, Entries
<1> QED BY <1>3, <1>4, <1>5, <1>6

\* A chunk in the place of the entries between a and b.
LEMMA Splice ==
  ASSUME NEW list, Ordered(list), NEW a \in 0 .. Len(list), NEW b \in 1 .. Len(list) + 1, a < b,
         NEW c \in AnyChunk,
         a > 0 => EndOf(list[a]) < c.at, b <= Len(list) => EndOf(c) < list[b].at
  PROVE  LET new == SubSeq(list, 1, a) \o (<<c>> \o SubSeq(list, b, Len(list)))
         IN  /\ Ordered(new) /\ Entries(new) = Outer(list, a, b) \cup {c} /\ new # <<>>
             /\ Last(new) = IF b <= Len(list) THEN Last(list) ELSE c
<1> DEFINE below == SubSeq(list, 1, a)
           above == SubSeq(list, b, Len(list))
           new == below \o (<<c>> \o above)
           n == Len(list)
<1>1. n \in Nat /\ (\A k \in 1 .. n : list[k] \in AnyChunk) /\ list \in Seq(AnyChunk)
  BY EntryFacts DEF Ordered
<1>2. /\ below \in Seq(AnyChunk) /\ Len(below) = a /\ \A i \in 1 .. a : below[i] = list[i]
  <2>1. /\ below \in Seq(AnyChunk) /\ Len(below) = (IF 1 <= a THEN a - 1 + 1 ELSE 0)
        /\ \A i \in 1 .. a - 1 + 1 : below[i] = list[1 + i - 1]
    <3>1. \A i \in 1 .. a : list[i] \in AnyChunk
      BY <1>1
    <3> QED BY <3>1, <1>1, SubSeqProperties
  <2>2. a - 1 + 1 = a /\ \A i \in 1 .. a : 1 + i - 1 = i
    BY <1>1
  <2> QED BY <2>1, <2>2
<1>3. /\ above \in Seq(AnyChunk) /\ Len(above) = n - b + 1
      /\ \A i \in 1 .. n - b + 1 : above[i] = list[b + i - 1]
  <2>1. \A i \in b .. n : list[i] \in AnyChunk
    BY <1>1
  <2>2. /\ above \in Seq(AnyChunk) /\ Len(above) = (IF b <= n THEN n - b + 1 ELSE 0)
        /\ \A i \in 1 .. n - b + 1 : above[i] = list[b + i - 1]
    BY <2>1, <1>1, SubSeqProperties
  <2> QED BY <1>1, <2>2
<1> DEFINE single == <<c>>
           rest == single \o above
<1>4. single \in Seq(AnyChunk) /\ Len(single) = 1 /\ single[1] = c
  OBVIOUS
<1> HIDE DEF below, above, single
<1>5. /\ rest \in Seq(AnyChunk) /\ Len(rest) = 1 + Len(above)
      /\ \A i \in 1 .. 1 + Len(above) : rest[i] = IF i <= 1 THEN single[i] ELSE above[i - 1]
  <2>1. /\ rest \in Seq(AnyChunk) /\ Len(rest) = Len(single) + Len(above)
        /\ \A i \in 1 .. Len(single) + Len(above) :
             rest[i] = IF i <= Len(single) THEN single[i] ELSE above[i - Len(single)]
    BY <1>3, <1>4, ConcatProperties
  <2> QED BY <1>4, <2>1
<1> HIDE DEF rest, new
<1>6. /\ new \in Seq(AnyChunk) /\ Len(new) = a + Len(rest)
      /\ \A i \in 1 .. a + Len(rest) : new[i] = IF i <= a THEN below[i] ELSE rest[i - a]
  <2>1. new = below \o rest
    BY DEF new, rest, single
  <2>2. /\ below \o rest \in Seq(AnyChunk) /\ Len(below \o rest) = Len(below) + Len(rest)
        /\ \A i \in 1 .. Len(below) + Len(rest) :
             (below \o rest)[i] = IF i <= Len(below) THEN below[i] ELSE rest[i - Len(below)]
    BY <1>2, <1>5, ConcatProperties
  <2> QED BY <1>2, <2>1, <2>2
<1>7. Len(new) = a + (n - b + 1) + 1
  BY <1>1, <1>3, <1>5, <1>6
<1> DEFINE m == a + (n - b + 1) + 1
<1>8. \A i \in 1 .. a : new[i] = list[i]
  <2> TAKE i \in 1 .. a
  <2>1. i \in 1 .. a + Len(rest) /\ i <= a
    BY <1>1, <1>3, <1>5
  <2> QED BY <1>2, <1>6, <2>1
<1>9. new[a + 1] = c
  <2>1. a + 1 \in 1 .. a + Len(rest) /\ ~(a + 1 <= a) /\ a + 1 - a = 1 /\ 1 \in 1 .. 1 + Len(above)
    BY <1>1, <1>3, <1>5
  <2>2. new[a + 1] = rest[1]
    BY <1>6, <2>1
  <2>3. rest[1] = single[1]
    BY <1>5, <2>1
  <2> QED BY <1>4, <2>2, <2>3
<1>10. \A i \in a + 2 .. m : new[i] = list[b + i - a - 2]
  <2> TAKE i \in a + 2 .. m
  <2>1. /\ i \in 1 .. a + Len(rest) /\ ~(i <= a) /\ i - a \in 1 .. 1 + Len(above) /\ ~(i - a <= 1)
        /\ i - a - 1 \in 1 .. n - b + 1 /\ b + (i - a - 1) - 1 = b + i - a - 2
    BY <1>1, <1>3, <1>5
  <2>2. new[i] = rest[i - a] /\ rest[i - a] = above[i - a - 1]
    BY <1>5, <1>6, <2>1
  <2>3. above[i - a - 1] = list[b + (i - a - 1) - 1]
    BY <1>3, <2>1
  <2> QED BY <2>1, <2>2, <2>3
<1>11. Ordered(new)
  <2>1. \A j, k \in 1 .. n : j < k => EndOf(list[j]) < list[k].at
    BY DEF Ordered
  <2>2. \A k \in 1 .. n : EndOf(list[k]) \in Nat /\ list[k].at \in Nat /\ list[k].at < EndOf(list[k])
    BY <1>1, ChunkFacts
  <2>3. EndOf(c) \in Nat /\ c.at \in Nat /\ c.at < EndOf(c)
    BY ChunkFacts
  <2>4. \A k \in 1 .. a : EndOf(list[k]) < c.at
    <3> TAKE k \in 1 .. a
    <3>1. a \in 1 .. n /\ k \in 1 .. n /\ a > 0
      BY <1>1
    <3>2. k = a \/ EndOf(list[k]) < list[a].at
      BY <2>1, <3>1
    <3> QED BY <2>2, <2>3, <3>1, <3>2
  <2>5. \A k \in b .. n : EndOf(c) < list[k].at
    <3> TAKE k \in b .. n
    <3>1. b \in 1 .. n /\ k \in 1 .. n /\ b <= n
      BY <1>1
    <3>2. k = b \/ EndOf(list[b]) < list[k].at
      BY <2>1, <3>1
    <3> QED BY <2>2, <2>3, <3>1, <3>2
  <2>6. ASSUME NEW i \in 1 .. m, NEW j \in 1 .. m, i < j PROVE EndOf(new[i]) < new[j].at
    <3>1. CASE j <= a
      <4>1. i \in 1 .. a /\ j \in 1 .. a /\ i \in 1 .. n /\ j \in 1 .. n
        BY <1>1, <2>6, <3>1
      <4> QED BY <1>8, <2>1, <2>6, <4>1
    <3>2. CASE i <= a /\ j = a + 1
      BY <1>8, <1>9, <2>4, <3>2
    <3>3. CASE i <= a /\ j > a + 1
      <4>1. j \in a + 2 .. m /\ b + j - a - 2 \in 1 .. n /\ i < b + j - a - 2 /\ i \in 1 .. n /\ i \in 1 .. a
        BY <1>1, <3>3
      <4> QED BY <1>8, <1>10, <2>1, <4>1
    <3>4. CASE i = a + 1
      <4>1. j \in a + 2 .. m /\ b + j - a - 2 \in b .. n
        BY <1>1, <2>6, <3>4
      <4> QED BY <1>9, <1>10, <2>5, <3>4, <4>1
    <3>5. CASE i > a + 1
      <4>1. /\ i \in a + 2 .. m /\ j \in a + 2 .. m /\ b + j - a - 2 \in 1 .. n
            /\ b + i - a - 2 \in 1 .. n /\ b + i - a - 2 < b + j - a - 2
        BY <1>1, <2>6, <3>5
      <4> QED BY <1>10, <2>1, <4>1
    <3> QED BY <1>1, <2>6, <3>1, <3>2, <3>3, <3>4, <3>5
  <2> QED BY <1>6, <1>7, <2>6 DEF Ordered, new
<1>12. Entries(new) = Outer(list, a, b) \cup {c}
  <2>1. ASSUME NEW i \in 1 .. m PROVE new[i] \in Outer(list, a, b) \cup {c}
    <3>1. CASE i <= a
      BY <1>8, <3>1 DEF Outer
    <3>2. CASE i = a + 1
      BY <1>9, <3>2
    <3>3. CASE i > a + 1
      <4>1. i \in a + 2 .. m /\ b + i - a - 2 \in b .. n
        BY <1>1, <3>3
      <4> QED BY <1>10, <4>1 DEF Outer
    <3> QED BY <1>1, <3>1, <3>2, <3>3
  <2>2. ASSUME NEW k \in 1 .. a PROVE \E i \in 1 .. m : new[i] = list[k]
    <3>1. k \in 1 .. m
      BY <1>1
    <3> QED BY <1>8, <3>1
  <2>3. ASSUME NEW k \in b .. n PROVE \E i \in 1 .. m : new[i] = list[k]
    <3>1. /\ k - b + a + 2 \in a + 2 .. m /\ k - b + a + 2 \in 1 .. m
          /\ b + (k - b + a + 2) - a - 2 = k
      BY <1>1
    <3>2. new[k - b + a + 2] = list[b + (k - b + a + 2) - a - 2]
      BY <1>10, <3>1
    <3> QED BY <3>1, <3>2
  <2>4. \E i \in 1 .. m : new[i] = c
    <3>1. a + 1 \in 1 .. m
      BY <1>1
    <3> QED BY <1>9, <3>1
  <2>5. Entries(new) = {new[i] : i \in 1 .. m}
    BY <1>7 DEF Entries, new
  <2>6. Entries(new) \subseteq Outer(list, a, b) \cup {c}
    BY <2>1, <2>5
  <2>7. Outer(list, a, b) \cup {c} \subseteq Entries(new)
    BY <2>2, <2>3, <2>4, <2>5 DEF Outer
  <2> QED BY <2>6, <2>7
<1>13. Len(new) = m /\ m \in Nat \ {0}
  BY <1>1, <1>7 DEF new
<1>14. new # <<>>
  BY <1>13
<1>15. Last(new) = IF b <= Len(list) THEN Last(list) ELSE c
  <2>1. CASE b <= n
    <3>1. m \in a + 2 .. m /\ b + m - a - 2 = n
      BY <1>1, <2>1
    <3> QED BY <1>10, <1>13, <2>1, <3>1 DEF Last
  <2>2. CASE ~(b <= n)
    <3>1. m = a + 1
      BY <1>1, <2>2
    <3> QED BY <1>9, <1>13, <2>2, <3>1 DEF Last
  <2> QED BY <2>1, <2>2
<1> QED BY <1>11, <1>12, <1>14, <1>15 DEF new, below, above

\* An entry taken out.
LEMMA Cut ==
  ASSUME NEW list, Ordered(list), NEW k \in 1 .. Len(list)
  PROVE  Ordered(RemoveAt(list, k)) /\ Entries(RemoveAt(list, k)) = Entries(list) \ {list[k]}
<1> DEFINE below == SubSeq(list, 1, k - 1)
           above == SubSeq(list, k + 1, Len(list))
           new == RemoveAt(list, k)
           n == Len(list)
<1>1. n \in Nat /\ (\A i \in 1 .. n : list[i] \in AnyChunk)
      /\ \A i, j \in 1 .. n : list[i] = list[j] => i = j
  BY EntryFacts
<1>2. /\ below \in Seq(AnyChunk) /\ Len(below) = k - 1
      /\ \A i \in 1 .. k - 1 : below[i] = list[i]
  <2>1. \A i \in 1 .. k - 1 : list[i] \in AnyChunk
    BY <1>1
  <2>2. /\ below \in Seq(AnyChunk) /\ Len(below) = (IF 1 <= k - 1 THEN k - 1 - 1 + 1 ELSE 0)
        /\ \A i \in 1 .. k - 1 - 1 + 1 : below[i] = list[1 + i - 1]
    BY <2>1, <1>1, SubSeqProperties
  <2>3. k - 1 - 1 + 1 = k - 1 /\ \A i \in 1 .. k - 1 : 1 + i - 1 = i
    BY <1>1
  <2> QED BY <1>1, <2>2, <2>3
<1>3. /\ above \in Seq(AnyChunk) /\ Len(above) = n - k
      /\ \A i \in 1 .. n - k : above[i] = list[k + i]
  <2>1. \A i \in k + 1 .. n : list[i] \in AnyChunk
    BY <1>1
  <2>2. /\ above \in Seq(AnyChunk) /\ Len(above) = (IF k + 1 <= n THEN n - (k + 1) + 1 ELSE 0)
        /\ \A i \in 1 .. n - (k + 1) + 1 : above[i] = list[k + 1 + i - 1]
    BY <2>1, <1>1, SubSeqProperties
  <2>3. /\ n - (k + 1) + 1 = n - k /\ (IF k + 1 <= n THEN n - (k + 1) + 1 ELSE 0) = n - k
        /\ \A i \in 1 .. n - k : k + 1 + i - 1 = k + i
    BY <1>1
  <2>4. \A i \in 1 .. n - k : above[i] = list[k + i]
    BY <2>2, <2>3
  <2> QED BY <2>2, <2>3, <2>4
<1>4. new = below \o above
  BY DEF RemoveAt
<1> HIDE DEF below, above, new
<1>5. /\ new \in Seq(AnyChunk) /\ Len(new) = n - 1
      /\ \A i \in 1 .. n - 1 : new[i] = IF i < k THEN list[i] ELSE list[i + 1]
  <2>1. /\ new \in Seq(AnyChunk) /\ Len(new) = Len(below) + Len(above)
        /\ \A i \in 1 .. Len(below) + Len(above) :
             new[i] = IF i <= Len(below) THEN below[i] ELSE above[i - Len(below)]
    BY <1>2, <1>3, <1>4, ConcatProperties
  <2>2. Len(below) + Len(above) = n - 1
    BY <1>1, <1>2, <1>3
  <2>3. ASSUME NEW i \in 1 .. n - 1 PROVE new[i] = IF i < k THEN list[i] ELSE list[i + 1]
    <3>1. CASE i < k
      <4>1. i \in 1 .. k - 1 /\ i <= Len(below)
        BY <1>1, <1>2, <3>1
      <4> QED BY <1>2, <2>1, <2>2, <3>1, <4>1
    <3>2. CASE ~(i < k)
      <4>1. i - (k - 1) \in 1 .. n - k /\ ~(i <= Len(below)) /\ k + (i - (k - 1)) = i + 1
        BY <1>1, <1>2, <3>2
      <4>2. new[i] = above[i - (k - 1)]
        BY <1>2, <2>1, <2>2, <4>1
      <4>3. above[i - (k - 1)] = list[k + (i - (k - 1))]
        BY <1>3, <4>1
      <4> QED BY <3>2, <4>1, <4>2, <4>3
    <3> QED BY <3>1, <3>2
  <2> QED BY <2>1, <2>2, <2>3
<1>6. Ordered(new)
  <2>1. \A i, j \in 1 .. n : i < j => EndOf(list[i]) < list[j].at
    BY DEF Ordered
  <2>2. ASSUME NEW i \in 1 .. n - 1, NEW j \in 1 .. n - 1, i < j PROVE EndOf(new[i]) < new[j].at
    <3>1. PICK i1 \in 1 .. n : new[i] = list[i1] /\ i1 = IF i < k THEN i ELSE i + 1
      BY <1>1, <1>5
    <3>2. PICK j1 \in 1 .. n : new[j] = list[j1] /\ j1 = IF j < k THEN j ELSE j + 1
      BY <1>1, <1>5
    <3>3. i1 < j1
      BY <1>1, <2>2, <3>1, <3>2
    <3> QED BY <2>1, <3>1, <3>2, <3>3
  <2> QED BY <1>5, <2>2 DEF Ordered
<1>7. Entries(new) = Entries(list) \ {list[k]}
  <2>1. ASSUME NEW i \in 1 .. n - 1 PROVE new[i] \in Entries(list) \ {list[k]}
    <3>1. PICK j \in 1 .. n : new[i] = list[j] /\ j = IF i < k THEN i ELSE i + 1
      BY <1>1, <1>5
    <3>2. j # k
      BY <1>1, <3>1
    <3> QED BY <1>1, <3>1, <3>2 DEF Entries
  <2>2. ASSUME NEW j \in 1 .. n, j # k PROVE \E i \in 1 .. n - 1 : new[i] = list[j]
    <3>1. PICK i \in 1 .. n - 1 : i = IF j < k THEN j ELSE j - 1
      BY <1>1, <2>2
    <3>2. (IF i < k THEN i ELSE i + 1) = j
      BY <1>1, <2>2, <3>1
    <3> QED BY <1>5, <3>1, <3>2
  <2>3. Entries(new) = {new[i] : i \in 1 .. n - 1}
    BY <1>5 DEF Entries
  <2>4. Entries(new) \subseteq Entries(list) \ {list[k]}
    BY <2>1, <2>3
  <2>5. Entries(list) \ {list[k]} \subseteq Entries(new)
    BY <2>2, <2>3 DEF Entries
  <2> QED BY <2>4, <2>5
<1> QED BY <1>6, <1>7 DEF new

\* The list without its last entry.
LEMMA FrontIsCut ==
  ASSUME NEW list, Ordered(list), list # <<>>
  PROVE  /\ Len(list) \in Nat \ {0} /\ Last(list) = list[Len(list)]
         /\ Front(list) = RemoveAt(list, Len(list))
<1>1. list \in Seq(AnyChunk) /\ Len(list) \in Nat \ {0} /\ \A i \in 1 .. Len(list) : list[i] \in AnyChunk
  BY EmptySeq, EntryFacts DEF Ordered
<1>2. SubSeq(list, Len(list) + 1, Len(list)) = <<>>
  BY <1>1, SubSeqEmpty
<1>3. SubSeq(list, 1, Len(list) - 1) \in Seq(AnyChunk)
  BY <1>1, SubSeqProperties
<1>4. SubSeq(list, 1, Len(list) - 1) \o <<>> = SubSeq(list, 1, Len(list) - 1)
  BY <1>3, ConcatEmptySeq
<1> QED BY <1>1, <1>2, <1>4 DEF Front, RemoveAt, Last

\* An entry that shrinks.
LEMMA Replace ==
  ASSUME NEW list, Ordered(list), NEW k \in 1 .. Len(list), NEW c \in AnyChunk,
         list[k].at <= c.at, EndOf(c) <= EndOf(list[k])
  PROVE  /\ Ordered([list EXCEPT ![k] = c])
         /\ Entries([list EXCEPT ![k] = c]) = (Entries(list) \ {list[k]}) \cup {c}
<1> DEFINE new == [list EXCEPT ![k] = c]
<1>1. /\ Len(list) \in Nat /\ list \in Seq(AnyChunk)
      /\ \A i, j \in 1 .. Len(list) : list[i] = list[j] => i = j
      /\ \A i \in 1 .. Len(list) : list[i] \in AnyChunk
  BY EntryFacts DEF Ordered
<1>2. /\ new \in Seq(AnyChunk) /\ Len(new) = Len(list)
      /\ \A i \in 1 .. Len(list) : new[i] = IF i = k THEN c ELSE list[i]
  BY <1>1, ExceptSeq
<1> HIDE DEF new
<1>3. ASSUME NEW i \in 1 .. Len(list), NEW j \in 1 .. Len(list), i < j
      PROVE  EndOf(new[i]) < new[j].at
  <2>1. EndOf(list[i]) < list[j].at
    BY <1>3 DEF Ordered
  <2>2. new[i] \in AnyChunk /\ new[j] \in AnyChunk
    BY <1>1, <1>2
  <2>3. /\ new[j].at \in Nat /\ list[j].at \in Nat
        /\ EndOf(new[i]) \in Nat /\ EndOf(list[i]) \in Nat
    BY <1>1, <2>2, ChunkFacts
  <2>4. list[j].at <= new[j].at
    BY <1>2, <2>3
  <2>5. EndOf(new[i]) <= EndOf(list[i])
    BY <1>2, <2>3
  <2> QED BY <2>1, <2>3, <2>4, <2>5
<1>4. Ordered(new)
  BY <1>2, <1>3 DEF Ordered
<1>5. Entries(new) \subseteq (Entries(list) \ {list[k]}) \cup {c}
  BY <1>1, <1>2 DEF Entries
<1>6. (Entries(list) \ {list[k]}) \cup {c} \subseteq Entries(new)
  <2>1. ASSUME NEW i \in 1 .. Len(list), i # k PROVE list[i] \in Entries(new)
    BY <1>2, <2>1 DEF Entries
  <2>2. c \in Entries(new)
    BY <1>2 DEF Entries
  <2> QED BY <2>1, <2>2 DEF Entries
<1> QED BY <1>4, <1>5, <1>6 DEF new

-----------------------------------------------------------------------------
(* free *)

\* A heap up to top with these blocks and this list of free chunks.
Sound(top, list, blocks) ==
  /\ Ordered(list) /\ blocks \cap Entries(list) = {}
  /\ Fill(blocks \cup Entries(list), top)
  /\ \A e \in Entries(list) : EndOf(e) # top
  /\ top \in HeapStart .. HeapEnd

\* The place of a block in the list is between the entries below and those above.
LEMMA PlaceFacts ==
  ASSUME NEW top, NEW list, NEW blocks, Sound(top, list, blocks), NEW c \in blocks
  PROVE  /\ Place(list, c) \in 1 .. Len(list) + 1
         /\ \A k \in 1 .. Place(list, c) - 1 : EndOf(list[k]) <= c.at
         /\ \A k \in Place(list, c) .. Len(list) : EndOf(c) <= list[k].at
<1> DEFINE S == {k \in DOMAIN list : list[k].at >= c.at}
           p == Place(list, c)
<1>1. /\ Len(list) \in Nat /\ DOMAIN list = 1 .. Len(list)
      /\ \A k \in 1 .. Len(list) : list[k] \in AnyChunk
      /\ \A j, k \in 1 .. Len(list) : j < k => EndOf(list[j]) < list[k].at
  BY EntryFacts DEF Sound, Ordered
<1>2. c \in AnyChunk
  BY DEF Sound, Fill
<1>3. \A k \in 1 .. Len(list) : /\ list[k].at \in Nat /\ EndOf(list[k]) \in Nat
                                /\ list[k].at < EndOf(list[k])
  BY <1>1, ChunkFacts
<1>4. c.at \in Nat /\ EndOf(c) \in Nat /\ c.at < EndOf(c)
  BY <1>2, ChunkFacts
<1>5. \A k \in 1 .. Len(list) : EndOf(list[k]) <= c.at \/ EndOf(c) <= list[k].at
  <2> TAKE k \in 1 .. Len(list)
  <2>1. list[k] \in Entries(list)
    BY DEF Entries
  <2>2. list[k] # c
    BY <2>1 DEF Sound
  <2> QED BY <2>1, <2>2 DEF Sound, Fill, Apart
<1>6. p \in 1 .. Len(list) + 1 /\ \A k \in 1 .. Len(list) : k < p <=> list[k].at < c.at
  <2>1. CASE S = {}
    <3>1. p = Len(list) + 1
      BY <2>1 DEF Place
    <3> QED BY <1>1, <1>3, <1>4, <2>1, <3>1
  <2>2. CASE S # {}
    <3>1. p = Min(S) /\ S \subseteq Nat
      BY <1>1, <2>2 DEF Place
    <3>2. p \in S /\ \A k \in S : p <= k
      BY <2>2, <3>1, MinFacts
    <3>3. p \in 1 .. Len(list) /\ list[p].at >= c.at
      BY <1>1, <3>2
    <3>4. ASSUME NEW k \in 1 .. Len(list), k < p PROVE list[k].at < c.at
      <4>1. k \notin S
        BY <3>2, <3>3, <3>4
      <4> QED BY <1>1, <1>3, <1>4, <4>1
    <3>5. ASSUME NEW k \in 1 .. Len(list), ~(k < p) PROVE ~(list[k].at < c.at)
      <4>1. k = p \/ EndOf(list[p]) < list[k].at
        BY <1>1, <3>3, <3>5
      <4> QED BY <1>3, <1>4, <3>3, <4>1
    <3> QED BY <1>1, <3>3, <3>4, <3>5
  <2> QED BY <2>1, <2>2
<1> HIDE DEF p
<1>7. \A k \in 1 .. p - 1 : EndOf(list[k]) <= c.at
  <2> TAKE k \in 1 .. p - 1
  <2>1. k \in 1 .. Len(list) /\ k < p
    BY <1>1, <1>6
  <2>2. list[k].at < c.at
    BY <1>6, <2>1
  <2> QED BY <1>3, <1>4, <1>5, <2>1, <2>2
<1>8. \A k \in p .. Len(list) : EndOf(c) <= list[k].at
  <2> TAKE k \in p .. Len(list)
  <2>1. k \in 1 .. Len(list) /\ ~(k < p)
    BY <1>1, <1>6
  <2>2. ~(list[k].at < c.at)
    BY <1>6, <2>1
  <2> QED BY <1>3, <1>4, <1>5, <2>1, <2>2
<1> QED BY <1>6, <1>7, <1>8 DEF p

\* Two chunks that touch, joined.
LEMMA Both ==
  ASSUME NEW lower \in AnyChunk, NEW upper \in AnyChunk, EndOf(lower) = upper.at
  PROVE  /\ Chunk(lower.at, lower.sz + upper.sz + Word) \in AnyChunk
         /\ Chunk(lower.at, lower.sz + upper.sz + Word).at = lower.at
         /\ EndOf(Chunk(lower.at, lower.sz + upper.sz + Word)) = EndOf(upper)
<1>1. lower.at \in Nat /\ lower.sz \in Nat /\ upper.at \in Nat /\ upper.sz \in Nat /\ Word \in Nat
  BY ChunkFacts, HeapAssumption
<1> QED BY <1>1 DEF AnyChunk, Chunk, EndOf

\* The chunks but block c and the entries between a and b.
Rest(list, blocks, c, a, b) == (blocks \ {c}) \cup Outer(list, a, b)

\* The block freed, or what it makes with the entry right above it.
LEMMA Upper ==
  ASSUME NEW top, NEW list, NEW blocks, Sound(top, list, blocks), NEW c \in blocks,
         NEW p, p = Place(list, c)
  PROVE  \E b \in 1 .. Len(list) + 1, x \in AnyChunk :
           /\ b >= p /\ (p <= Len(list) /\ b > Len(list) => EndOf(x) # top)
           /\ JoinUpper(list, p, c) = <<x>> \o SubSeq(list, b, Len(list))
           /\ x.at = c.at /\ (b <= Len(list) => EndOf(x) < list[b].at)
           /\ x \notin Rest(list, blocks, c, p - 1, b)
           /\ Fill(Rest(list, blocks, c, p - 1, b) \cup {x}, top)
<1>1. /\ p \in 1 .. Len(list) + 1 /\ \A k \in p .. Len(list) : EndOf(c) <= list[k].at
  BY PlaceFacts
<1>2. /\ Len(list) \in Nat /\ \A k \in 1 .. Len(list) : list[k] \in AnyChunk /\ list[k] \in Entries(list)
      /\ \A j, k \in 1 .. Len(list) : j < k => EndOf(list[j]) < list[k].at
  BY EntryFacts DEF Sound, Ordered, Entries
<1>3. /\ Fill(blocks \cup Entries(list), top) /\ c \in AnyChunk /\ blocks \cap Entries(list) = {}
      /\ top \in Nat /\ Ordered(list) /\ \A k \in 1 .. Len(list) : EndOf(list[k]) # top
  BY <1>2, HeapAssumption DEF Sound, Fill
<1>4. c.at \in Nat /\ EndOf(c) \in Nat /\ \A k \in 1 .. Len(list) : list[k].at \in Nat
  BY <1>2, <1>3, ChunkFacts
<1>5. CASE p <= Len(list) /\ EndOf(c) = list[p].at
  <2> DEFINE x == Chunk(c.at, c.sz + list[p].sz + Word)
             rest == Rest(list, blocks, c, p - 1, p + 1)
  <2>1. p \in 1 .. Len(list) /\ p + 1 \in 1 .. Len(list) + 1 /\ p + 1 >= p
    BY <1>1, <1>2, <1>5
  <2>2. x \in AnyChunk /\ x.at = c.at /\ EndOf(x) = EndOf(list[p])
    BY <1>2, <1>3, <1>5, <2>1, Both
  <2>3. JoinUpper(list, p, c) = <<x>> \o SubSeq(list, p + 1, Len(list))
    BY <1>5 DEF JoinUpper
  <2> HIDE DEF x
  <2>4. p + 1 <= Len(list) => EndOf(x) < list[p + 1].at
    BY <1>2, <2>1, <2>2
  <2>5. rest = (blocks \cup Entries(list)) \ {c, list[p]}
    <3>1. Outer(list, p - 1, p + 1) = Entries(list) \ {list[p]}
      BY <1>3, <2>1, OuterFacts
    <3> QED BY <1>2, <1>3, <2>1, <3>1 DEF Rest
  <2>6. Fill(rest \cup {x}, top) /\ x \notin rest
    BY <1>2, <1>3, <1>5, <2>1, <2>2, <2>5, Join
  <2>7. EndOf(x) # top
    BY <1>3, <2>1, <2>2
  <2> QED BY <2>1, <2>2, <2>3, <2>4, <2>6, <2>7
<1>6. CASE ~(p <= Len(list) /\ EndOf(c) = list[p].at)
  <2> DEFINE rest == Rest(list, blocks, c, p - 1, p)
  <2>1. JoinUpper(list, p, c) = <<c>> \o SubSeq(list, p, Len(list))
    BY <1>6 DEF JoinUpper
  <2>2. p <= Len(list) => EndOf(c) < list[p].at
    BY <1>1, <1>2, <1>4, <1>6
  <2>3. rest \cup {c} = blocks \cup Entries(list) /\ c \notin rest
    <3>1. Outer(list, p - 1, p) = Entries(list)
      BY <1>1, <1>3, OuterFacts
    <3> QED BY <1>3, <3>1 DEF Rest
  <2>4. ~(p <= Len(list) /\ p > Len(list))
    BY <1>1, <1>2
  <2>5. Fill(rest \cup {c}, top)
    BY <1>3, <2>3
  <2>6. p >= p
    BY <1>1, <1>2
  <2> QED BY <1>1, <1>3, <2>1, <2>2, <2>3, <2>4, <2>5, <2>6
<1> QED BY <1>5, <1>6

\* What JoinUpper() puts first, and what it puts behind.
LEMMA FirstAndRest ==
  ASSUME NEW x \in AnyChunk, NEW s \in Seq(AnyChunk)
  PROVE  Head(<<x>> \o s) = x /\ Tail(<<x>> \o s) = s
<1> DEFINE single == <<x>>
           t == single \o s
<1>1. single \in Seq(AnyChunk) /\ Len(single) = 1 /\ single[1] = x
  OBVIOUS
<1> HIDE DEF single
<1>2. Len(s) \in Nat
  BY LenProperties
<1>3. /\ t \in Seq(AnyChunk) /\ Len(t) = Len(single) + Len(s)
      /\ \A i \in 1 .. Len(single) + Len(s) :
           t[i] = IF i <= Len(single) THEN single[i] ELSE s[i - Len(single)]
  BY <1>1, ConcatProperties
<1> HIDE DEF t
<1>4. t # <<>> /\ Head(t) = t[1] /\ t[1] = x
  <2>1. Len(t) = 1 + Len(s)
    BY <1>1, <1>3
  <2>2. t # <<>>
    BY <1>2, <2>1
  <2>3. t[1] = x
    BY <1>1, <1>2, <1>3
  <2> QED BY <1>3, <2>2, <2>3
<1>5. /\ Tail(t) \in Seq(AnyChunk) /\ Len(Tail(t)) = Len(t) - 1
      /\ \A i \in 1 .. Len(Tail(t)) : Tail(t)[i] = t[i + 1]
  BY <1>3, <1>4, HeadTailProperties
<1>6. Len(Tail(t)) = Len(s)
  BY <1>1, <1>2, <1>3, <1>5
<1>7. \A i \in 1 .. Len(s) : Tail(t)[i] = s[i]
  <2> TAKE i \in 1 .. Len(s)
  <2>1. i + 1 \in 1 .. Len(single) + Len(s) /\ ~(i + 1 <= Len(single)) /\ i + 1 - Len(single) = i
    BY <1>1, <1>2
  <2> QED BY <1>3, <1>5, <1>6, <2>1
<1>8. Tail(t) = s
  BY <1>5, <1>6, <1>7, SeqEqual
<1> QED BY <1>4, <1>8 DEF t, single

LEMMA Associative ==
  ASSUME NEW r \in Seq(AnyChunk), NEW x \in AnyChunk, NEW t \in Seq(AnyChunk)
  PROVE  r \o <<x>> \o t = r \o (<<x>> \o t)
<1> DEFINE s == <<x>>
<1>1. s \in Seq(AnyChunk)
  OBVIOUS
<1> HIDE DEF s
<1>2. (r \o s) \o t = r \o (s \o t)
  BY <1>1, ConcatAssociative
<1> QED BY <1>2 DEF s

\* A heap filled by the list new and the blocks but c, whose last entry is not
\* topmost if c went below entry p.
Placed(top, list, blocks, c, p, new) ==
  /\ Ordered(new) /\ new # <<>> /\ (blocks \ {c}) \cap Entries(new) = {}
  /\ Fill((blocks \ {c}) \cup Entries(new), top)
  /\ p <= Len(list) => EndOf(Last(new)) # top

\* The list after a chunk is put in its place and joined with its neighbours.
LEMMA Joined ==
  ASSUME NEW top, NEW list, NEW blocks, Sound(top, list, blocks), NEW c \in blocks,
         NEW p, p = Place(list, c), NEW upper, upper = JoinUpper(list, p, c),
         NEW new, p = 1 => new = upper, p # 1 => new = JoinLower(list, p, upper)
  PROVE  Placed(top, list, blocks, c, p, new)
<1>1. /\ p \in 1 .. Len(list) + 1 /\ \A k \in 1 .. p - 1 : EndOf(list[k]) <= c.at
  BY PlaceFacts
<1>2. /\ Len(list) \in Nat /\ \A k \in 1 .. Len(list) : list[k] \in AnyChunk /\ list[k] \in Entries(list)
      /\ \A j, k \in 1 .. Len(list) : j < k => EndOf(list[j]) < list[k].at
  BY EntryFacts DEF Sound, Ordered, Entries
<1>3. /\ Fill(blocks \cup Entries(list), top) /\ c \in AnyChunk /\ blocks \cap Entries(list) = {}
      /\ top \in Nat /\ Ordered(list) /\ list \in Seq(AnyChunk)
      /\ \A k \in 1 .. Len(list) : EndOf(list[k]) # top
  BY <1>2, HeapAssumption DEF Sound, Fill, Ordered
<1>4. PICK b \in 1 .. Len(list) + 1, x \in AnyChunk :
        /\ b >= p /\ (p <= Len(list) /\ b > Len(list) => EndOf(x) # top)
        /\ upper = <<x>> \o SubSeq(list, b, Len(list))
        /\ x.at = c.at /\ (b <= Len(list) => EndOf(x) < list[b].at)
        /\ x \notin Rest(list, blocks, c, p - 1, b)
        /\ Fill(Rest(list, blocks, c, p - 1, b) \cup {x}, top)
  BY Upper
<1>5. /\ c.at \in Nat /\ x.at \in Nat /\ EndOf(x) \in Nat /\ x.at < EndOf(x)
      /\ \A k \in 1 .. Len(list) : list[k].at \in Nat /\ EndOf(list[k]) \in Nat /\ list[k].at < EndOf(list[k])
  BY <1>2, <1>3, ChunkFacts
<1>6. SubSeq(list, b, Len(list)) \in Seq(AnyChunk)
  <2>1. \A i \in b .. Len(list) : list[i] \in AnyChunk
    BY <1>2
  <2> QED BY <1>2, <2>1, SubSeqProperties
\* A list with chunk y after a entries, and the entries from b on, will do.
<1>7. ASSUME NEW a \in 0 .. p - 1, NEW y \in AnyChunk,
             new = SubSeq(list, 1, a) \o (<<y>> \o SubSeq(list, b, Len(list))),
             a > 0 => EndOf(list[a]) < y.at, EndOf(y) = EndOf(x),
             y \notin Rest(list, blocks, c, a, b),
             Fill(Rest(list, blocks, c, a, b) \cup {y}, top)
      PROVE  Placed(top, list, blocks, c, p, new)
  <2>1. a \in 0 .. Len(list) /\ a < b
    BY <1>1, <1>2, <1>4
  <2>2. /\ Ordered(new) /\ Entries(new) = Outer(list, a, b) \cup {y} /\ new # <<>>
        /\ Last(new) = IF b <= Len(list) THEN Last(list) ELSE y
    <3>1. b <= Len(list) => EndOf(y) < list[b].at
      BY <1>4, <1>7
    <3>2. LET r == SubSeq(list, 1, a) \o (<<y>> \o SubSeq(list, b, Len(list)))
          IN  /\ Ordered(r) /\ Entries(r) = Outer(list, a, b) \cup {y} /\ r # <<>>
              /\ Last(r) = IF b <= Len(list) THEN Last(list) ELSE y
      BY <1>3, <1>7, <2>1, <3>1, Splice
    <3> QED BY <1>7, <3>2
  <2>3. Outer(list, a, b) \subseteq Entries(list)
    BY <1>3, <2>1, OuterFacts
  <2>4. (blocks \ {c}) \cap Entries(new) = {}
    BY <1>3, <1>7, <2>2, <2>3 DEF Rest
  <2>5. (blocks \ {c}) \cup Entries(new) = Rest(list, blocks, c, a, b) \cup {y}
    BY <2>2 DEF Rest
  <2>6. ASSUME p <= Len(list) PROVE EndOf(Last(new)) # top
    <3>1. CASE b <= Len(list)
      BY <1>2, <1>3, <2>2, <3>1 DEF Last
    <3>2. CASE ~(b <= Len(list))
      BY <1>2, <1>4, <1>7, <2>2, <2>6, <3>2
    <3> QED BY <3>1, <3>2
  <2> QED BY <1>7, <2>2, <2>4, <2>5, <2>6 DEF Placed
<1>8. CASE p = 1
  <2>1. new = upper /\ p - 1 = 0
    BY <1>8
  <2>2. SubSeq(list, 1, 0) = <<>> /\ upper \in Seq(AnyChunk)
    BY <1>4, <1>6, SubSeqEmpty, ConcatProperties
  <2>3. new = SubSeq(list, 1, 0) \o (<<x>> \o SubSeq(list, b, Len(list)))
    BY <1>4, <2>1, <2>2, ConcatEmptySeq
  <2>4. 0 \in 0 .. p - 1 /\ ~(0 > 0)
    BY <1>1
  <2> QED BY <1>4, <1>7, <2>1, <2>3, <2>4
<1>9. CASE p # 1
  <2> DEFINE lower == list[p - 1]
             rest == Rest(list, blocks, c, p - 1, b)
  <2>1. p - 1 \in 1 .. Len(list) /\ p \in 2 .. Len(list) + 1 /\ p - 2 \in 0 .. p - 1 /\ p - 1 > 0
    BY <1>1, <1>2, <1>9
  <2>2. Head(upper) = x /\ Tail(upper) = SubSeq(list, b, Len(list))
    BY <1>4, <1>6, FirstAndRest
  <2>3. /\ lower \in AnyChunk /\ lower \in Entries(list) /\ EndOf(lower) <= c.at
        /\ lower.at \in Nat /\ EndOf(lower) \in Nat
    BY <1>1, <1>2, <1>5, <2>1, SMTT(30)
  <2>4. lower \in Outer(list, p - 1, b)
    BY <2>1 DEF Outer
  <2> HIDE DEF lower
  <2>5. CASE EndOf(lower) = Head(upper).at
    <3> DEFINE y == Chunk(lower.at, lower.sz + x.sz + Word)
    <3>1. y \in AnyChunk /\ y.at = lower.at /\ EndOf(y) = EndOf(x)
      BY <2>2, <2>3, <2>5, Both
    <3>2. new = SubSeq(list, 1, p - 2) \o <<y>> \o SubSeq(list, b, Len(list))
      BY <1>9, <2>2, <2>5 DEF JoinLower, lower
    <3> HIDE DEF y
    <3>3. SubSeq(list, 1, p - 2) \in Seq(AnyChunk)
      <4>1. \A i \in 1 .. p - 2 : list[i] \in AnyChunk
        BY <1>2, <2>1
      <4> QED BY <2>1, <4>1, SubSeqProperties
    <3>4. new = SubSeq(list, 1, p - 2) \o (<<y>> \o SubSeq(list, b, Len(list)))
      <4>1. SubSeq(list, 1, p - 2) \o <<y>> \o SubSeq(list, b, Len(list))
              = SubSeq(list, 1, p - 2) \o (<<y>> \o SubSeq(list, b, Len(list)))
        BY <1>6, <3>1, <3>3, Associative
      <4> QED BY <3>2, <4>1
    <3>5. p - 2 > 0 => EndOf(list[p - 2]) < y.at
      BY <1>2, <2>1, <3>1 DEF lower
    <3>6. Rest(list, blocks, c, p - 2, b) = rest \ {lower}
      <4>1. Outer(list, p - 2, b) = Outer(list, p - 1, b) \ {lower}
        BY <1>3, <1>4, <2>1, OuterFacts DEF lower
      <4>2. lower \notin blocks
        BY <1>3, <2>3
      <4> QED BY <4>1, <4>2 DEF Rest
    <3>7. rest \ {lower} = (rest \cup {x}) \ {lower, x}
      BY <1>4
    <3>8. lower \in rest \cup {x} /\ x \in rest \cup {x} /\ EndOf(lower) = x.at
      BY <2>2, <2>4, <2>5 DEF Rest
    <3> HIDE DEF rest
    <3>9. Fill(rest \cup {x}, top)
      BY <1>4 DEF rest
    <3>10. /\ Fill(((rest \cup {x}) \ {lower, x}) \cup {y}, top)
           /\ y \notin (rest \cup {x}) \ {lower, x}
      BY <1>3, <3>1, <3>8, <3>9, Join, SMTT(30)
    <3>11. Fill(Rest(list, blocks, c, p - 2, b) \cup {y}, top) /\ y \notin Rest(list, blocks, c, p - 2, b)
      BY <3>6, <3>7, <3>10
    <3> QED BY <1>7, <2>1, <3>1, <3>4, <3>5, <3>11
  <2>6. CASE ~(EndOf(lower) = Head(upper).at)
    <3>1. new = SubSeq(list, 1, p - 1) \o (<<x>> \o SubSeq(list, b, Len(list)))
      BY <1>4, <1>9, <2>6 DEF JoinLower, lower
    <3>2. EndOf(list[p - 1]) < x.at
      BY <1>4, <1>5, <2>2, <2>3, <2>6, SMTT(30) DEF lower
    <3>3. p - 1 \in 0 .. p - 1
      BY <2>1
    <3> QED BY <1>4, <1>7, <3>1, <3>2, <3>3
  <2> QED BY <2>5, <2>6
<1> QED BY <1>8, <1>9

\* A last entry that has become the topmost chunk goes.
LEMMA LowerBrkSound ==
  ASSUME NEW top \in HeapStart .. HeapEnd, NEW list, NEW blocks,
         Ordered(list), list # <<>>, blocks \cap Entries(list) = {},
         Fill(blocks \cup Entries(list), top)
  PROVE  Sound(LowerBrk(top, list).brk, LowerBrk(top, list).flp, blocks)
<1> DEFINE n == Len(list)
           last == list[n]
<1>1. n \in Nat \ {0} /\ Last(list) = last /\ Front(list) = RemoveAt(list, n)
  BY FrontIsCut
<1>2. /\ \A k \in 1 .. n : list[k] \in AnyChunk
      /\ \A j, k \in 1 .. n : j < k => EndOf(list[j]) < list[k].at
  BY EntryFacts DEF Ordered
<1>3. last \in AnyChunk /\ last \in Entries(list) /\ top \in Nat /\ n \in 1 .. n
  BY <1>1, <1>2, HeapAssumption DEF Entries
<1>4. \A e \in Entries(list) \ {last} : EndOf(e) < last.at
  <2> TAKE e \in Entries(list) \ {last}
  <2>1. PICK k \in 1 .. n : e = list[k]
    BY DEF Entries
  <2>2. k < n
    BY <1>1, <2>1
  <2> QED BY <1>2, <1>3, <2>1, <2>2
<1>5. EndOf(last) <= top /\ last.at \in Nat /\ EndOf(last) \in Nat /\ last.at < EndOf(last)
  BY <1>3, ChunkFacts DEF Fill
<1> HIDE DEF last, n
<1>6. CASE EndOf(last) = top
  <2> DEFINE new == RemoveAt(list, n)
  <2>1. LowerBrk(top, list).brk = last.at /\ LowerBrk(top, list).flp = new
    BY <1>1, <1>6 DEF LowerBrk, Heap
  <2>2. Ordered(new) /\ Entries(new) = Entries(list) \ {last}
    BY <1>3, Cut DEF last, n
  <2>3. Fill((blocks \cup Entries(list)) \ {last}, last.at) /\ last.at >= HeapStart /\ last.at < top
    BY <1>3, <1>6, Lower
  <2>4. (blocks \cup Entries(list)) \ {last} = blocks \cup Entries(new)
    BY <1>3, <2>2
  <2>5. \A e \in Entries(new) : EndOf(e) # last.at
    <3> TAKE e \in Entries(new)
    <3>1. EndOf(e) < last.at /\ e \in AnyChunk
      BY <1>4, <2>2 DEF Fill
    <3>2. EndOf(e) \in Nat
      BY <3>1, ChunkFacts
    <3> QED BY <1>5, <3>1, <3>2
  <2>6. last.at \in HeapStart .. HeapEnd
    BY <1>5, <2>3, HeapAssumption
  <2>7. blocks \cap Entries(new) = {}
    BY <2>2
  <2> HIDE DEF new
  <2> QED BY <2>1, <2>2, <2>3, <2>4, <2>5, <2>6, <2>7 DEF Sound
<1>7. CASE EndOf(last) # top
  <2>1. LowerBrk(top, list).brk = top /\ LowerBrk(top, list).flp = list
    BY <1>1, <1>7 DEF LowerBrk, Heap
  <2>2. \A e \in Entries(list) : EndOf(e) # top
    <3> TAKE e \in Entries(list)
    <3>1. e = last \/ EndOf(e) < last.at
      BY <1>4
    <3>2. e \in AnyChunk
      BY DEF Fill
    <3>3. EndOf(e) \in Nat
      BY <3>2, ChunkFacts
    <3> QED BY <1>3, <1>5, <1>7, <3>1, <3>3
  <2> QED BY <2>1, <2>2 DEF Sound
<1> QED BY <1>6, <1>7

\* A block freed leaves the heap sound, without it.
LEMMA FreedSound ==
  ASSUME NEW top, NEW list, NEW blocks, Sound(top, list, blocks), NEW c \in blocks
  PROVE  Sound(Freed(top, list, c).brk, Freed(top, list, c).flp, blocks \ {c})
<1>1. PICK p : p = Place(list, c)
  OBVIOUS
<1>2. PICK upper : upper = JoinUpper(list, p, c)
  OBVIOUS
<1>3. PICK new : new = IF p = 1 THEN upper ELSE JoinLower(list, p, upper)
  OBVIOUS
<1>4. /\ Ordered(new) /\ new # <<>> /\ (blocks \ {c}) \cap Entries(new) = {}
      /\ Fill((blocks \ {c}) \cup Entries(new), top)
      /\ p <= Len(list) => EndOf(Last(new)) # top
  <2>1. (p = 1 => new = upper) /\ (p # 1 => new = JoinLower(list, p, upper))
    BY <1>3
  <2>2. Placed(top, list, blocks, c, p, new)
    BY <1>1, <1>2, <2>1, Joined
  <2> QED BY <2>2 DEF Placed
<1>5. p \in 1 .. Len(list) + 1 /\ Len(list) \in Nat /\ top \in HeapStart .. HeapEnd /\ list \in Seq(AnyChunk)
  BY <1>1, PlaceFacts, EntryFacts DEF Sound, Ordered
<1>6. Sound(LowerBrk(top, new).brk, LowerBrk(top, new).flp, blocks \ {c})
  BY <1>4, <1>5, LowerBrkSound
<1>7. CASE list # <<>> /\ p = 1
  <2>1. p <= Len(list)
    BY <1>5, <1>7, EmptySeq
  <2>2. LowerBrk(top, new).brk = top /\ LowerBrk(top, new).flp = new
    BY <1>4, <2>1 DEF LowerBrk, Heap
  <2>3. Freed(top, list, c).brk = top /\ Freed(top, list, c).flp = new
    BY <1>1, <1>2, <1>3, <1>7 DEF Freed, Heap
  <2> QED BY <1>6, <2>2, <2>3
<1>8. CASE list = <<>>
  <2>1. Len(list) = 0 /\ p = 1 /\ ~(p <= Len(list))
    BY <1>5, <1>8
  <2>2. SubSeq(list, p, Len(list)) = <<>>
    BY <2>1, SubSeqEmpty
  <2>3. c \in AnyChunk
    BY DEF Sound, Fill
  <2>4. <<c>> \in Seq(AnyChunk)
    BY <2>3
  <2>5. <<c>> \o <<>> = <<c>>
    BY <2>4, ConcatEmptySeq
  <2>6. new = <<c>>
    BY <1>2, <1>3, <2>1, <2>2, <2>5 DEF JoinUpper
  <2>7. Freed(top, list, c) = LowerBrk(top, <<c>>)
    BY <1>8 DEF Freed
  <2> QED BY <1>6, <2>6, <2>7
<1>9. CASE list # <<>> /\ p # 1
  <2>1. Freed(top, list, c) = LowerBrk(top, new)
    BY <1>1, <1>2, <1>3, <1>9 DEF Freed
  <2> QED BY <1>6, <2>1
<1> QED BY <1>7, <1>8, <1>9

-----------------------------------------------------------------------------
(* malloc *)

\* The inductive invariant.
Inv == Sound(Brk, flp, used)

\* The facts of the heap's parts that the steps use.
LEMMA InvFacts ==
  ASSUME Inv
  PROVE  /\ Ordered(flp) /\ used \cap Entries(flp) = {} /\ Fill(used \cup Entries(flp), Brk)
         /\ Brk \in HeapStart .. HeapEnd /\ Brk \in Nat
         /\ Len(flp) \in Nat /\ DOMAIN flp = 1 .. Len(flp)
         /\ \A k \in 1 .. Len(flp) : /\ flp[k] \in AnyChunk /\ flp[k] \in Entries(flp)
                                     /\ EndOf(flp[k]) # Brk
         /\ \A c \in used : c \in AnyChunk
         /\ used \cup Entries(flp) # {} => brk = Brk
<1>1. /\ Ordered(flp) /\ used \cap Entries(flp) = {} /\ Fill(used \cup Entries(flp), Brk)
      /\ Brk \in HeapStart .. HeapEnd /\ Brk \in Nat /\ \A e \in Entries(flp) : EndOf(e) # Brk
  BY HeapAssumption DEF Inv, Sound
<1>2. /\ Len(flp) \in Nat /\ DOMAIN flp = 1 .. Len(flp)
      /\ \A k \in 1 .. Len(flp) : flp[k] \in AnyChunk /\ flp[k] \in Entries(flp)
  BY <1>1, EntryFacts DEF Entries
<1>3. used \cup Entries(flp) # {} => brk = Brk
  <2> SUFFICES ASSUME NEW c \in used \cup Entries(flp) PROVE brk = Brk
    OBVIOUS
  <2>1. c \in AnyChunk /\ c.at >= HeapStart /\ EndOf(c) <= Brk
    BY <1>1 DEF Fill
  <2>2. c.at \in Nat /\ EndOf(c) \in Nat /\ c.at < EndOf(c)
    BY <2>1, ChunkFacts
  <2>3. Brk # HeapStart
    BY <1>1, <2>1, <2>2, HeapAssumption
  <2> QED BY <2>3 DEF Brk
<1>4. \A c \in used : c \in AnyChunk
  BY <1>1 DEF Fill
<1> QED BY <1>1, <1>2, <1>3, <1>4

\* The closest entry is one of those that are larger.
LEMMA ClosestFacts ==
  ASSUME Inv, NEW n \in Nat, Larger(n) # {}
  PROVE  Closest(n) \in Larger(n)
<1> DEFINE sizes == {flp[k].sz : k \in Larger(n)}
           S == {k \in Larger(n) : \A j \in Larger(n) : flp[k].sz <= flp[j].sz}
<1>1. Larger(n) \subseteq 1 .. Len(flp) /\ Larger(n) \subseteq Nat
  BY InvFacts DEF Larger
<1>2. \A k \in Larger(n) : flp[k].sz \in Nat
  BY <1>1, InvFacts, ChunkFacts
<1>3. sizes \subseteq Nat /\ sizes # {}
  BY <1>2
<1> HIDE DEF sizes
<1>4. Min(sizes) \in sizes /\ \A s \in sizes : Min(sizes) <= s
  BY <1>3, MinFacts
<1>5. S # {} /\ S \subseteq Nat
  <2>1. PICK m \in Larger(n) : flp[m].sz = Min(sizes)
    BY <1>4 DEF sizes
  <2>2. \A j \in Larger(n) : flp[j].sz \in sizes
    BY DEF sizes
  <2>3. m \in S
    BY <1>4, <2>1, <2>2
  <2> QED BY <1>1, <2>3
<1>6. Min(S) \in S
  <2> HIDE DEF S
  <2> QED BY <1>5, MinFacts
<1> QED BY <1>6 DEF Closest

\* What malloc() hands out is a new block, wherever it comes from, and large enough.
Handed(h, n) == /\ Sound(h.brk, h.flp, used \cup {h.block}) /\ h.block \notin used
                /\ h.block.sz >= n

\* The three ways to find a block: an entry taken whole, a part of one, the top.
LEMMA TakeSound ==
  ASSUME Inv, NEW n \in Nat, NEW k \in 1 .. Len(flp), flp[k].sz >= n
  PROVE  Handed(TakeEntry(k), n)
<1> DEFINE c == flp[k]
           new == RemoveAt(flp, k)
<1>1. TakeEntry(k).brk = brk /\ TakeEntry(k).flp = new /\ TakeEntry(k).block = c
  BY DEF TakeEntry, Heap
<1>2. c \in Entries(flp) /\ brk = Brk
  BY InvFacts
<1>3. Ordered(new) /\ Entries(new) = Entries(flp) \ {c}
  BY InvFacts, Cut
<1> HIDE DEF c, new
<1>4. (used \cup {c}) \cup Entries(new) = used \cup Entries(flp) /\ c \notin used
      /\ (used \cup {c}) \cap Entries(new) = {}
  BY <1>2, <1>3, InvFacts
<1>5. \A e \in Entries(new) : EndOf(e) # Brk
  BY <1>3 DEF Inv, Sound
<1>6. Sound(Brk, new, used \cup {c})
  BY <1>3, <1>4, <1>5, InvFacts DEF Sound
<1>7. c.sz >= n
  BY DEF c
<1> QED BY <1>1, <1>2, <1>4, <1>6, <1>7 DEF Handed

LEMMA SplitSound ==
  ASSUME Inv, NEW n \in Nat, n >= Word, NEW k \in Larger(n), ~(flp[k].sz - n < EntrySize)
  PROVE  Handed(SplitEntry(k, n), n)
<1> DEFINE c == flp[k]
           lower == Chunk(c.at, c.sz - n - Word)
           upper == Chunk(c.at + c.sz - n, n)
           new == [flp EXCEPT ![k] = lower]
<1>1. /\ k \in 1 .. Len(flp) /\ c.sz > n /\ c \in AnyChunk /\ c \in Entries(flp)
      /\ EndOf(c) # Brk
  BY InvFacts DEF Larger
<1>2. c.at \in Nat /\ c.sz \in Nat /\ Word \in Nat /\ Word > 0 /\ c.sz - n >= 2 * Word
  <2>1. c.at \in Nat /\ c.sz \in Nat /\ Word \in Nat /\ Word > 0
    <3>1. c \in [at : Nat, sz : Nat]
      BY <1>1 DEF AnyChunk
    <3> QED BY <3>1, HeapAssumption
  <2>2. ~(c.sz - n < 2 * Word)
    BY DEF EntrySize
  <2> QED BY <2>1, <2>2
<1>3. c.sz - n - Word \in Nat /\ c.at + c.sz - n \in Nat /\ c.sz - n - Word >= Word
  BY <1>2
<1>4. [c EXCEPT !.sz = c.sz - n - Word] = lower
  BY <1>1, <1>2, <1>3 DEF AnyChunk, Chunk
<1>5. [flp EXCEPT ![k].sz = @ - n - Word] = new
  BY <1>1, <1>4, InvFacts
<1>6. SplitEntry(k, n).brk = brk /\ SplitEntry(k, n).flp = new /\ SplitEntry(k, n).block = upper
  BY <1>5 DEF SplitEntry, Heap
<1>7. /\ lower \in AnyChunk /\ upper \in AnyChunk /\ lower.at = c.at /\ lower.sz >= Word
      /\ upper.sz >= Word /\ EndOf(lower) = upper.at /\ EndOf(upper) = EndOf(c)
      /\ EndOf(lower) < EndOf(c)
  <2>1. lower \in AnyChunk /\ upper \in AnyChunk
    BY <1>2, <1>3, ChunkFacts
  <2>2. lower.at = c.at /\ lower.sz = c.sz - n - Word /\ upper.at = c.at + c.sz - n /\ upper.sz = n
    BY ChunkFacts
  <2>3. EndOf(lower) = c.at + Word + (c.sz - n - Word) /\ EndOf(upper) = c.at + c.sz - n + Word + n
        /\ EndOf(c) = c.at + Word + c.sz
    BY <2>2 DEF EndOf
  <2> QED BY <1>2, <1>3, <2>1, <2>2, <2>3
<1> HIDE DEF c, lower, upper, new
<1>8. c \in used \cup Entries(flp) /\ c \notin used /\ brk = Brk
  BY <1>1, InvFacts
<1>9. /\ Fill(((used \cup Entries(flp)) \ {c}) \cup {lower, upper}, Brk)
      /\ lower \notin (used \cup Entries(flp)) \ {c}
      /\ upper \notin (used \cup Entries(flp)) \ {c} /\ lower # upper
  <2>1. Fill(used \cup Entries(flp), Brk) /\ Brk \in Nat
    BY InvFacts
  <2> QED BY <1>7, <1>8, <2>1, Divide
<1>10. Ordered(new) /\ Entries(new) = (Entries(flp) \ {c}) \cup {lower}
  <2>1. c.at <= lower.at /\ EndOf(lower) <= EndOf(c)
    <3>1. EndOf(lower) \in Nat /\ EndOf(c) \in Nat
      BY <1>1, <1>7, ChunkFacts
    <3> QED BY <1>2, <1>7, <3>1
  <2>2. Ordered(flp) /\ flp[k].at <= lower.at /\ EndOf(lower) <= EndOf(flp[k])
    BY <2>1, InvFacts DEF c
  <2>3. Ordered(new) /\ Entries(new) = (Entries(flp) \ {flp[k]}) \cup {lower}
    <3>1. k \in 1 .. Len(flp) /\ lower \in AnyChunk
      BY <1>1, <1>7
    <3>2. /\ Ordered([flp EXCEPT ![k] = lower])
          /\ Entries([flp EXCEPT ![k] = lower]) = (Entries(flp) \ {flp[k]}) \cup {lower}
      BY <2>2, <3>1, Replace
    <3> QED BY <3>2 DEF new
  <2> QED BY <2>3 DEF c
<1>11. /\ (used \cup {upper}) \cup Entries(new) = ((used \cup Entries(flp)) \ {c}) \cup {lower, upper}
       /\ (used \cup {upper}) \cap Entries(new) = {} /\ upper \notin used
  BY <1>8, <1>9, <1>10, InvFacts
<1>12. \A e \in Entries(new) : EndOf(e) # Brk
  <2>1. EndOf(lower) # Brk
    <3>1. EndOf(c) <= Brk /\ EndOf(c) \in Nat /\ EndOf(lower) \in Nat
      BY <1>1, <1>7, <1>8, InvFacts, ChunkFacts DEF Fill
    <3> QED BY <1>7, <3>1, InvFacts
  <2> QED BY <1>10, <2>1 DEF Inv, Sound
<1>13. Sound(Brk, new, used \cup {upper})
  BY <1>9, <1>10, <1>11, <1>12, InvFacts DEF Sound
<1>14. upper.sz >= n
  BY ChunkFacts DEF upper
<1> QED BY <1>6, <1>8, <1>11, <1>13, <1>14 DEF Handed

LEMMA TopSound ==
  ASSUME Inv, NEW n \in Nat, n >= Word, n < Wrap, RoomAtTop(n)
  PROVE  Handed(Heap(Brk + n + Word, flp, Chunk(Brk, n)), n)
<1> DEFINE c == Chunk(Brk, n)
           top == Brk + n + Word
<1>1. /\ Brk \in Nat /\ Brk >= HeapStart /\ HeapEnd \in Nat /\ HeapStart \in Nat
      /\ Word \in Nat /\ Word > 0 /\ Word <= HeapStart /\ Wrap \in Nat /\ HeapEnd < Wrap
  BY InvFacts, HeapAssumption
<1>2. HeapEnd > Brk /\ HeapEnd - Brk >= n /\ HeapEnd - Brk >= (n + Word) % Wrap
  BY DEF RoomAtTop
<1>3. n + Word \in Nat /\ n + Word < Wrap
  BY <1>1, <1>2
<1>4. (n + Word) % Wrap = n + Word
  <2>1. PICK m \in Nat : m = n + Word
    BY <1>3
  <2>2. m % Wrap = m
    BY <1>1, <1>3, <2>1
  <2> QED BY <2>1, <2>2
<1>5. top <= HeapEnd /\ top \in Nat /\ top > Brk
  BY <1>1, <1>2, <1>4
<1>6. c \in AnyChunk /\ c.at = Brk /\ c.sz = n /\ EndOf(c) = top
  <2>1. c \in AnyChunk /\ c.at = Brk /\ c.sz = n /\ EndOf(c) = Brk + Word + n
    BY <1>1, ChunkFacts
  <2> QED BY <1>1, <2>1
<1> HIDE DEF c, top
<1>7. Fill((used \cup Entries(flp)) \cup {c}, top) /\ c \notin used \cup Entries(flp)
  BY <1>1, <1>6, InvFacts, Raise
<1>8. (used \cup {c}) \cup Entries(flp) = (used \cup Entries(flp)) \cup {c}
      /\ (used \cup {c}) \cap Entries(flp) = {}
  BY <1>7, InvFacts
<1>9. \A e \in Entries(flp) : EndOf(e) # top
  <2> TAKE e \in Entries(flp)
  <2>1. EndOf(e) <= Brk /\ e \in AnyChunk
    BY InvFacts DEF Fill
  <2>2. EndOf(e) \in Nat
    BY <2>1, ChunkFacts
  <2> QED BY <1>1, <1>5, <2>1, <2>2
<1>10. top \in HeapStart .. HeapEnd
  BY <1>1, <1>5
<1>11. Sound(top, flp, used \cup {c})
  BY <1>7, <1>8, <1>9, <1>10, InvFacts DEF Sound
<1> QED BY <1>6, <1>7, <1>11 DEF Handed, Heap, c, top

LEMMA ObtainSound ==
  ASSUME Inv, NEW n \in Nat, n >= Word, n < Wrap, Found(n)
  PROVE  Handed(Obtain(n), n)
<1>1. CASE Exact(n) # {}
  <2>1. Exact(n) \subseteq 1 .. Len(flp) /\ Exact(n) \subseteq Nat
    BY InvFacts DEF Exact
  <2>2. Min(Exact(n)) \in Exact(n)
    BY <1>1, <2>1, MinFacts
  <2>3. Min(Exact(n)) \in 1 .. Len(flp) /\ flp[Min(Exact(n))].sz >= n
    BY <2>1, <2>2 DEF Exact
  <2> QED BY <1>1, <2>3, TakeSound DEF Obtain
<1>2. CASE Exact(n) = {} /\ Larger(n) # {}
  <2>1. Closest(n) \in Larger(n) /\ Closest(n) \in 1 .. Len(flp) /\ flp[Closest(n)].sz >= n
    <3>1. Closest(n) \in Larger(n)
      BY <1>2, ClosestFacts
    <3>2. Closest(n) \in 1 .. Len(flp) /\ flp[Closest(n)].sz > n
      BY <3>1, InvFacts DEF Larger
    <3>3. flp[Closest(n)].sz \in Nat
      BY <3>2, InvFacts, ChunkFacts
    <3> QED BY <3>1, <3>2, <3>3
  <2>2. CASE flp[Closest(n)].sz - n < EntrySize
    BY <1>2, <2>1, <2>2, TakeSound DEF Obtain
  <2>3. CASE ~(flp[Closest(n)].sz - n < EntrySize)
    BY <1>2, <2>1, <2>3, SplitSound DEF Obtain
  <2> QED BY <2>2, <2>3
<1>3. CASE Exact(n) = {} /\ Larger(n) = {}
  BY <1>3, TopSound DEF Obtain, Found
<1> QED BY <1>1, <1>2, <1>3

-----------------------------------------------------------------------------
(* The steps *)

\* From the first call on the break is not 0.
LEMMA NextInv == ASSUME Sound(brk', flp', used') PROVE Inv'
<1>1. brk' # 0
  BY HeapAssumption DEF Sound
<1> QED BY <1>1 DEF Inv, Brk

LEMMA AtLeastFacts == \A len \in 0 .. Wrap - 1 : AtLeast(len) \in Nat /\ AtLeast(len) >= Word /\ AtLeast(len) < Wrap
BY HeapAssumption DEF AtLeast

LEMMA MallocKeeps == ASSUME Inv, NEW len \in MallocLengths, Malloc(len) PROVE Inv'
<1>1. PICK n \in Nat : n = AtLeast(len) /\ n >= Word /\ n < Wrap
  BY AtLeastFacts, HeapAssumption
<1>2. CASE Found(n)
  <2>1. Sound(Obtain(n).brk, Obtain(n).flp, used \cup {Obtain(n).block})
    BY <1>1, <1>2, ObtainSound DEF Handed
  <2>2. brk' = Obtain(n).brk /\ flp' = Obtain(n).flp /\ used' = used \cup {Obtain(n).block}
    BY <1>1, <1>2 DEF Malloc
  <2> QED BY <2>1, <2>2, NextInv
<1>3. CASE ~Found(n)
  <2>1. brk' = Brk /\ flp' = flp /\ used' = used
    BY <1>1, <1>3 DEF Malloc
  <2> QED BY <2>1, NextInv DEF Inv
<1> QED BY <1>2, <1>3

LEMMA FreeKeeps == ASSUME Inv, NEW c \in used, Free(c) PROVE Inv'
<1>1. brk = Brk
  BY InvFacts
<1>2. Sound(Freed(brk, flp, c).brk, Freed(brk, flp, c).flp, used \ {c})
  BY <1>1, FreedSound DEF Inv
<1> QED BY <1>2, NextInv DEF Free

\* The lengths for which realloc() keeps the heap: not too small for an entry of
\* the free list, and not so large that the end of the block wraps unnoticed.
ReallocSane == ReallocLengths \subseteq Word .. Wrap - Word - 1

\* What realloc() has tested, and that the end of the new block does not wrap.
LEMMA ReallocFacts ==
  ASSUME Inv, ReallocSane, NEW c \in used, NEW len \in ReallocLengths, ~WrapsAround(c, len)
  PROVE  /\ c.at \in Nat /\ c.sz \in Nat /\ Word \in Nat /\ Word > 0 /\ len \in Nat /\ len >= Word /\ len < Wrap
         /\ brk = Brk /\ c \in AnyChunk /\ c \in used \cup Entries(flp) /\ c \notin Entries(flp)
         /\ (c.at + Word + len) % Wrap = c.at + Word + len
         /\ Chunk(c.at, len) \in AnyChunk /\ Chunk(c.at, len).at = c.at /\ Chunk(c.at, len).sz = len
         /\ EndOf(Chunk(c.at, len)) = c.at + Word + len /\ EndOf(c) = c.at + Word + c.sz
<1>1. /\ brk = Brk /\ c \in AnyChunk /\ c \notin Entries(flp) /\ Fill(used \cup Entries(flp), Brk)
      /\ Brk \in HeapStart .. HeapEnd
  BY InvFacts
<1>2. /\ Word \in Nat /\ Word > 0 /\ Wrap \in Nat /\ HeapEnd \in Nat /\ HeapEnd < Wrap /\ Brk <= HeapEnd
      /\ Brk \in Nat
  BY <1>1, HeapAssumption
<1>3. len \in Nat /\ len >= Word /\ len + Word < Wrap
  BY <1>2 DEF ReallocSane
<1>4. c.at \in Nat /\ c.sz \in Nat
  BY <1>1 DEF AnyChunk
<1>5. c.at < Wrap
  <2>1. EndOf(c) <= Brk /\ EndOf(c) = c.at + Word + c.sz
    BY <1>1 DEF Fill, EndOf
  <2> QED BY <1>2, <1>4, <2>1
<1>6. PICK e \in Nat : e = c.at + Word + len
  BY <1>2, <1>3, <1>4
<1>7. ~(e % Wrap < c.at)
  BY <1>6 DEF WrapsAround
<1>8. e < Wrap
  <2> SUFFICES ASSUME e >= Wrap PROVE FALSE
    BY <1>2, <1>6
  <2>1. PICK r \in Nat : r = e - Wrap /\ r < c.at /\ r < Wrap
    BY <1>2, <1>3, <1>4, <1>5, <1>6
  <2>2. e % Wrap = r
    BY <1>2, <1>6, <2>1
  <2> QED BY <1>7, <2>1, <2>2
<1>9. e % Wrap = e
  BY <1>2, <1>8
<1>10. /\ Chunk(c.at, len) \in AnyChunk /\ Chunk(c.at, len).at = c.at /\ Chunk(c.at, len).sz = len
       /\ EndOf(Chunk(c.at, len)) = c.at + Word + len
  BY <1>3, <1>4, ChunkFacts
<1>11. EndOf(c) = c.at + Word + c.sz
  BY DEF EndOf
<1> QED BY <1>1, <1>2, <1>3, <1>4, <1>6, <1>9, <1>10, <1>11

LEMMA ShrinkKeeps ==
  ASSUME Inv, ReallocSane, NEW c \in used, NEW len \in ReallocLengths, ~WrapsAround(c, len),
         Shrink(c, len)
  PROVE  Inv'
<1>1. PICK lower : lower = Chunk(c.at, len)
  OBVIOUS
<1>2. PICK upper : upper = Chunk(c.at + Word + len, c.sz - len - Word)
  OBVIOUS
<1>3. /\ c.at \in Nat /\ c.sz \in Nat /\ Word \in Nat /\ Word > 0 /\ len \in Nat /\ len >= Word
      /\ brk = Brk /\ c \in AnyChunk /\ c \in used \cup Entries(flp) /\ c \notin Entries(flp)
      /\ lower \in AnyChunk /\ lower.at = c.at /\ lower.sz = len
      /\ EndOf(lower) = c.at + Word + len /\ EndOf(c) = c.at + Word + c.sz
  BY <1>1, ReallocFacts
<1>4. c.sz > 2 * Word /\ len <= c.sz - 2 * Word
  BY DEF Shrink, EntrySize
<1>5. c.sz - len - Word \in Nat /\ c.at + Word + len \in Nat /\ c.sz - len - Word >= Word
  BY <1>3, <1>4
<1>6. /\ upper \in AnyChunk /\ upper.at = c.at + Word + len /\ upper.sz = c.sz - len - Word
      /\ EndOf(upper) = c.at + Word + len + Word + (c.sz - len - Word)
  <2>1. PICK at \in Nat, sz \in Nat : at = c.at + Word + len /\ sz = c.sz - len - Word
    BY <1>5
  <2>2. upper = Chunk(at, sz)
    BY <1>2, <2>1
  <2>3. upper \in AnyChunk /\ upper.at = at /\ upper.sz = sz /\ EndOf(upper) = at + Word + sz
    BY <2>2, ChunkFacts
  <2> QED BY <2>1, <2>3
<1>7. EndOf(upper) = EndOf(c) /\ EndOf(lower) = upper.at
  BY <1>3, <1>5, <1>6
<1>8. /\ Fill(((used \cup Entries(flp)) \ {c}) \cup {lower, upper}, Brk)
      /\ lower \notin (used \cup Entries(flp)) \ {c}
      /\ upper \notin (used \cup Entries(flp)) \ {c} /\ lower # upper
  <2>1. Fill(used \cup Entries(flp), Brk) /\ Brk \in Nat
    BY InvFacts
  <2>2. lower.sz >= Word /\ upper.sz >= Word
    BY <1>3, <1>5, <1>6
  <2>3. c \in used \cup Entries(flp) /\ lower \in AnyChunk /\ upper \in AnyChunk /\ lower.at = c.at
    BY <1>3, <1>6
  <2> QED BY <1>7, <2>1, <2>2, <2>3, Divide, SMTT(30)
<1>9. PICK blocks : blocks = (used \ {c}) \cup {lower, upper}
  OBVIOUS
<1>10. /\ blocks \cup Entries(flp) = ((used \cup Entries(flp)) \ {c}) \cup {lower, upper}
       /\ blocks \cap Entries(flp) = {} /\ blocks \ {upper} = (used \ {c}) \cup {lower} /\ upper \in blocks
  BY <1>3, <1>8, <1>9, InvFacts
<1>11. Sound(Brk, flp, blocks)
  BY <1>8, <1>10 DEF Inv, Sound
<1>12. Sound(Freed(Brk, flp, upper).brk, Freed(Brk, flp, upper).flp, blocks \ {upper})
  BY <1>10, <1>11, FreedSound
<1>13. /\ brk' = Freed(Brk, flp, upper).brk /\ flp' = Freed(Brk, flp, upper).flp
       /\ used' = blocks \ {upper}
  BY <1>1, <1>2, <1>3, <1>10 DEF Shrink
<1> QED BY <1>12, <1>13, NextInv

LEMMA GrowIntoKeeps ==
  ASSUME Inv, ReallocSane, NEW c \in used, NEW len \in ReallocLengths, ~WrapsAround(c, len),
         GrowInto(c, len)
  PROVE  Inv'
<1>1. PICK k \in Behind(c, len) :
        /\ len > c.sz
        /\ IF flp[k].sz + Word - (len - c.sz) > EntrySize
           THEN /\ flp' = [flp EXCEPT ![k] = Chunk(c.at + Word + len, @.sz - (len - c.sz))]
                /\ used' = (used \ {c}) \cup {Chunk(c.at, len)}
           ELSE /\ flp' = RemoveAt(flp, k)
                /\ used' = (used \ {c}) \cup {Chunk(c.at, c.sz + flp[k].sz + Word)}
        /\ UNCHANGED brk
  BY DEF GrowInto
<1>2. PICK d : d = flp[k]
  OBVIOUS
<1>3. PICK all : all = Chunk(c.at, c.sz + d.sz + Word)
  OBVIOUS
<1>4. /\ c.at \in Nat /\ c.sz \in Nat /\ Word \in Nat /\ Word > 0 /\ len \in Nat /\ len >= Word
      /\ brk = Brk /\ c \in AnyChunk /\ c \in used \cup Entries(flp) /\ c \notin Entries(flp)
      /\ EndOf(c) = c.at + Word + c.sz
  BY ReallocFacts
<1>5. /\ k \in 1 .. Len(flp) /\ d.at = EndOf(c) /\ d.sz + Word >= len - c.sz
      /\ d \in AnyChunk /\ d \in Entries(flp) /\ EndOf(d) # Brk /\ d \notin used
  BY <1>2, InvFacts DEF Behind
<1>6. d.at \in Nat /\ d.sz \in Nat /\ EndOf(d) = d.at + Word + d.sz /\ EndOf(d) \in Nat
  <2>1. d.at \in Nat /\ d.sz \in Nat /\ EndOf(d) = d.at + Word + d.sz
    BY <1>5 DEF AnyChunk, EndOf
  <2> QED BY <1>4, <2>1
<1>7. all \in AnyChunk /\ all.at = c.at /\ EndOf(all) = EndOf(d)
  BY <1>3, <1>4, <1>5, Both
<1>8. Fill(used \cup Entries(flp), Brk) /\ Brk \in Nat /\ Ordered(flp) /\ used \cap Entries(flp) = {}
  BY InvFacts
<1>9. PICK joined : joined = ((used \cup Entries(flp)) \ {c, d}) \cup {all}
  OBVIOUS
<1>10. Fill(joined, Brk) /\ all \notin (used \cup Entries(flp)) \ {c, d} /\ all \in joined
  <2>1. d \in used \cup Entries(flp)
    BY <1>5
  <2> QED BY <1>4, <1>5, <1>7, <1>8, <1>9, <2>1, Join
<1>11. CASE d.sz + Word - (len - c.sz) > EntrySize
  <2>1. PICK lower : lower = Chunk(c.at, len)
    OBVIOUS
  <2>2. PICK upper : upper = Chunk(c.at + Word + len, d.sz - (len - c.sz))
    OBVIOUS
  <2>3. d.sz - (len - c.sz) \in Nat /\ d.sz - (len - c.sz) >= Word /\ c.at + Word + len \in Nat
    BY <1>1, <1>4, <1>6, <1>11 DEF EntrySize
  <2>4. /\ lower \in AnyChunk /\ lower.at = c.at /\ lower.sz = len /\ EndOf(lower) = c.at + Word + len
        /\ upper \in AnyChunk /\ upper.at = c.at + Word + len /\ upper.sz = d.sz - (len - c.sz)
        /\ EndOf(upper) = c.at + Word + len + Word + (d.sz - (len - c.sz))
    <3>1. /\ lower \in AnyChunk /\ lower.at = c.at /\ lower.sz = len
          /\ EndOf(lower) = c.at + Word + len
      BY <2>1, ReallocFacts
    <3>2. PICK at \in Nat, sz \in Nat : at = c.at + Word + len /\ sz = d.sz - (len - c.sz)
      BY <2>3
    <3>3. upper = Chunk(at, sz)
      BY <2>2, <3>2
    <3>4. upper \in AnyChunk /\ upper.at = at /\ upper.sz = sz /\ EndOf(upper) = at + Word + sz
      BY <3>3, ChunkFacts
    <3> QED BY <3>1, <3>2, <3>4
  <2>5. EndOf(lower) = upper.at /\ EndOf(upper) = EndOf(d) /\ d.at <= upper.at
    <3>1. len > c.sz /\ d.at = EndOf(c)
      BY <1>1, <1>5
    <3>2. EndOf(lower) = upper.at
      BY <2>4
    <3>3. EndOf(upper) = EndOf(d)
      BY <1>4, <1>6, <2>3, <2>4, <3>1
    <3>4. d.at <= upper.at
      BY <1>4, <2>4, <3>1
    <3> QED BY <3>2, <3>3, <3>4
  <2>6. /\ Fill((joined \ {all}) \cup {lower, upper}, Brk)
        /\ lower \notin joined \ {all} /\ upper \notin joined \ {all} /\ lower # upper
    BY <1>4, <1>7, <1>8, <1>10, <2>3, <2>4, <2>5, Divide
  <2>7. flp' = [flp EXCEPT ![k] = upper] /\ used' = (used \ {c}) \cup {lower} /\ brk' = Brk
    BY <1>1, <1>2, <1>4, <1>5, <1>11, <2>1, <2>2, InvFacts
  <2>8. Ordered(flp') /\ Entries(flp') = (Entries(flp) \ {d}) \cup {upper}
    <3>1. flp[k].at <= upper.at /\ EndOf(upper) <= EndOf(flp[k])
      BY <1>2, <1>5, <1>6, <2>5
    <3>2. /\ Ordered([flp EXCEPT ![k] = upper])
          /\ Entries([flp EXCEPT ![k] = upper]) = (Entries(flp) \ {flp[k]}) \cup {upper}
      <4>1. k \in 1 .. Len(flp) /\ Ordered(flp) /\ upper \in AnyChunk
        BY <1>5, <1>8, <2>4
      <4> QED BY <3>1, <4>1, Replace
    <3> QED BY <1>2, <2>7, <3>2
  <2>9. joined \ {all} = (used \ {c}) \cup (Entries(flp) \ {d})
    BY <1>4, <1>5, <1>8, <1>9, <1>10
  <2>10. used' \cup Entries(flp') = (joined \ {all}) \cup {lower, upper} /\ used' \cap Entries(flp') = {}
    <3>1. used' = (used \ {c}) \cup {lower} /\ Entries(flp') = (Entries(flp) \ {d}) \cup {upper}
      BY <2>7, <2>8
    <3>2. used \cap Entries(flp) = {}
      BY <1>8
    <3>3. lower \notin joined \ {all} /\ upper \notin joined \ {all} /\ lower # upper
      BY <2>6
    <3> QED BY <2>9, <3>1, <3>2, <3>3
  <2>11. \A e \in Entries(flp') : EndOf(e) # Brk
    BY <1>5, <2>5, <2>8 DEF Inv, Sound
  <2>12. Sound(brk', flp', used')
    BY <2>6, <2>7, <2>8, <2>10, <2>11, InvFacts DEF Sound
  <2> QED BY <2>12, NextInv
<1>12. CASE ~(d.sz + Word - (len - c.sz) > EntrySize)
  <2>1. flp' = RemoveAt(flp, k) /\ used' = (used \ {c}) \cup {all} /\ brk' = Brk
    BY <1>1, <1>2, <1>3, <1>4, <1>12
  <2>2. Ordered(flp') /\ Entries(flp') = Entries(flp) \ {d}
    BY <1>2, <1>5, <1>8, <2>1, Cut
  <2>3. used' \cup Entries(flp') = joined /\ used' \cap Entries(flp') = {}
    BY <1>4, <1>5, <1>8, <1>9, <1>10, <2>1, <2>2
  <2>4. \A e \in Entries(flp') : EndOf(e) # Brk
    BY <2>2 DEF Inv, Sound
  <2>5. Sound(brk', flp', used')
    BY <1>10, <2>1, <2>2, <2>3, <2>4, InvFacts DEF Sound
  <2> QED BY <2>5, NextInv
<1> QED BY <1>11, <1>12

LEMMA GrowTopKeeps ==
  ASSUME Inv, ReallocSane, NEW c \in used, NEW len \in ReallocLengths, ~WrapsAround(c, len),
         GrowTop(c, len)
  PROVE  Inv'
<1>1. PICK new : new = Chunk(c.at, len)
  OBVIOUS
<1>2. /\ c.at \in Nat /\ Word \in Nat /\ Word > 0 /\ len \in Nat /\ len >= Word /\ brk = Brk
      /\ c \in used \cup Entries(flp) /\ c \notin Entries(flp)
      /\ (c.at + Word + len) % Wrap = c.at + Word + len
      /\ new \in AnyChunk /\ new.at = c.at /\ new.sz = len /\ EndOf(new) = c.at + Word + len
  BY <1>1, ReallocFacts
<1>3. /\ brk = EndOf(c) /\ c.at + Word + len < HeapEnd /\ brk' = c.at + Word + len
      /\ used' = (used \ {c}) \cup {new} /\ flp' = flp
  BY <1>1, <1>2 DEF GrowTop, OnTop
<1>4. PICK others : others = (used \cup Entries(flp)) \ {c}
  OBVIOUS
<1>5. Fill(others, c.at) /\ c.at >= HeapStart /\ \A d \in others : EndOf(d) <= c.at
  <2>1. Fill(used \cup Entries(flp), Brk) /\ Brk \in Nat /\ EndOf(c) = Brk
    BY <1>2, <1>3, InvFacts
  <2> QED BY <1>2, <1>4, <2>1, Lower
<1>6. Fill(others \cup {new}, EndOf(new)) /\ new \notin others
  BY <1>2, <1>5, Raise
<1>7. /\ used' \cup Entries(flp') = others \cup {new} /\ used' \cap Entries(flp') = {}
  <2>1. used \cap Entries(flp) = {}
    BY InvFacts
  <2> QED BY <1>2, <1>3, <1>4, <1>6, <2>1
<1>8. \A e \in Entries(flp') : EndOf(e) # brk'
  <2> TAKE e \in Entries(flp')
  <2>1. e \in others /\ e \in AnyChunk
    BY <1>2, <1>3, <1>4, InvFacts DEF Fill
  <2>2. EndOf(e) <= c.at /\ EndOf(e) \in Nat
    BY <1>5, <2>1, ChunkFacts
  <2> QED BY <1>2, <1>3, <2>2
<1>9. brk' \in HeapStart .. HeapEnd
  BY <1>2, <1>3, <1>5, HeapAssumption
<1>10. Sound(brk', flp', used')
  BY <1>2, <1>3, <1>6, <1>7, <1>8, <1>9, InvFacts DEF Sound
<1> QED BY <1>10, NextInv

LEMMA MoveKeeps ==
  ASSUME Inv, ReallocSane, NEW c \in used, NEW len \in ReallocLengths, ~WrapsAround(c, len),
         Move(c, len)
  PROVE  Inv'
<1>1. len \in 0 .. Wrap - 1
  <2>1. len \in Nat /\ len < Wrap
    BY ReallocFacts
  <2> QED BY <2>1, HeapAssumption
<1>2. PICK n \in Nat : n = AtLeast(len) /\ n >= Word /\ n < Wrap
  BY <1>1, AtLeastFacts
<1>3. PICK h : h = Obtain(n)
  OBVIOUS
<1>4. Found(n)
  BY <1>2 DEF Move
<1>5. Sound(h.brk, h.flp, used \cup {h.block}) /\ h.block \notin used
  BY <1>2, <1>3, <1>4, ObtainSound DEF Handed
<1>6. Sound(Freed(h.brk, h.flp, c).brk, Freed(h.brk, h.flp, c).flp, (used \cup {h.block}) \ {c})
  BY <1>5, FreedSound
<1>7. (used \cup {h.block}) \ {c} = (used \ {c}) \cup {h.block}
  BY <1>5
<1>8. /\ brk' = Freed(h.brk, h.flp, c).brk /\ flp' = Freed(h.brk, h.flp, c).flp
      /\ used' = (used \ {c}) \cup {h.block}
  BY <1>2, <1>3 DEF Move
<1> QED BY <1>6, <1>7, <1>8, NextInv

LEMMA InitInv == Init => Inv
<1> SUFFICES ASSUME Init PROVE Inv
  OBVIOUS
<1>1. brk = 0 /\ flp = <<>> /\ used = {} /\ Brk = HeapStart
  BY DEF Init, Brk
<1>2. flp \in Seq(AnyChunk) /\ Len(flp) = 0
  BY <1>1, EmptySeq
<1>3. Ordered(flp) /\ Entries(flp) = {}
  BY <1>2 DEF Ordered, Entries
<1>4. Fill(used \cup Entries(flp), Brk)
  BY <1>1, <1>3, HeapAssumption DEF Fill
<1> QED BY <1>1, <1>3, <1>4, HeapAssumption DEF Inv, Sound

LEMMA Inductive == ASSUME ReallocSane PROVE Inv /\ [Next]_vars => Inv'
<1> SUFFICES ASSUME Inv, [Next]_vars PROVE Inv'
  OBVIOUS
<1>1. CASE \E len \in MallocLengths : Malloc(len)
  BY <1>1, MallocKeeps
<1>2. CASE \E c \in used : Free(c)
  BY <1>2, FreeKeeps
<1>3. ASSUME NEW c \in used, NEW len \in ReallocLengths, Realloc(c, len) PROVE Inv'
  BY <1>3, ShrinkKeeps, GrowIntoKeeps, GrowTopKeeps, MoveKeeps DEF Realloc
<1>4. CASE UNCHANGED vars
  BY <1>4 DEF vars, Inv, Sound, Brk
<1> QED BY <1>1, <1>2, <1>3, <1>4 DEF Next

\* Blocks and free chunks fill the heap without overlap, whatever the sizes of the
\* heap and of a word, for realloc() lengths that leave room for an entry of the
\* free list and do not wrap.
THEOREM HeapTiled == ASSUME ReallocSane PROVE Spec => []Tiled
<1>1. ASSUME Inv PROVE Tiled
  <2>1. FreeChunks = Entries(flp) /\ Chunks = used \cup Entries(flp)
    BY <1>1, InvFacts DEF FreeChunks, Entries, Chunks
  <2>2. Fill(Chunks, Brk) /\ Chunks \subseteq AnyChunk
    BY <1>1, <2>1, InvFacts DEF Fill
  <2>3. Chunks # {} => brk = Brk
    BY <1>1, <2>1, InvFacts
  <2>4. brk = 0 => Chunks = {}
    BY <2>3, HeapAssumption DEF Brk
  <2>5. ASSUME NEW c \in Chunks
        PROVE  /\ c.sz >= Word /\ c.at >= HeapStart /\ EndOf(c) <= brk
               /\ EndOf(c) = brk \/ \E d \in Chunks : d.at = EndOf(c)
               /\ \A d \in Chunks \ {c} : EndOf(c) <= d.at \/ EndOf(d) <= c.at
    BY <2>2, <2>3 DEF Fill, Apart
  <2>6. brk > HeapStart => \E c \in Chunks : c.at = HeapStart
    <3>1. brk > HeapStart => brk = Brk
      BY HeapAssumption DEF Brk
    <3> QED BY <2>2, <3>1 DEF Fill
  <2>7. brk <= HeapEnd
    BY <1>1, InvFacts, HeapAssumption DEF Brk
  <2>8. used \cap FreeChunks = {}
    BY <1>1, <2>1, InvFacts
  <2> QED BY <2>4, <2>5, <2>6, <2>7, <2>8 DEF Tiled
<1> QED BY InitInv, Inductive, <1>1, PTL DEF Spec

\* The free list is in order and joined, the topmost chunk is never free, and the
\* whole heap is back when every block is freed.
THEOREM HeapGivenBack == ASSUME ReallocSane PROVE Spec => []GivenBack
<1>1. ASSUME Inv PROVE GivenBack
  <2>1. /\ Ordered(flp) /\ Fill(used \cup Entries(flp), Brk) /\ Len(flp) \in Nat
        /\ Brk \in HeapStart .. HeapEnd /\ Brk \in Nat
        /\ \A k \in 1 .. Len(flp) : /\ flp[k] \in AnyChunk /\ flp[k] \in Entries(flp)
                                    /\ EndOf(flp[k]) # Brk
    BY <1>1, InvFacts
  <2>2. \A k \in 1 .. Len(flp) - 1 : EndOf(flp[k]) < flp[k + 1].at
    <3> TAKE k \in 1 .. Len(flp) - 1
    <3>1. k \in 1 .. Len(flp) /\ k + 1 \in 1 .. Len(flp) /\ k < k + 1
      BY <2>1
    <3> QED BY <2>1, <3>1 DEF Ordered
  <2>3. ASSUME flp # <<>>
        PROVE  Len(flp) \in 1 .. Len(flp) /\ EndOf(Last(flp)) < brk
    <3>1. Len(flp) \in 1 .. Len(flp) /\ Last(flp) = flp[Len(flp)]
      BY <2>1, <2>3, FrontIsCut
    <3>2. Last(flp) \in AnyChunk /\ Last(flp) \in Entries(flp) /\ EndOf(Last(flp)) # Brk
      BY <2>1, <3>1
    <3>3. EndOf(Last(flp)) <= Brk /\ EndOf(Last(flp)) \in Nat /\ brk = Brk
      BY <1>1, <2>1, <3>2, ChunkFacts, InvFacts DEF Fill
    <3> QED BY <2>1, <3>1, <3>2, <3>3
  <2>4. ASSUME used = {} PROVE brk \in {0, HeapStart}
    <3> SUFFICES ASSUME Brk # HeapStart PROVE FALSE
      BY DEF Brk
    <3>1. PICK c \in Entries(flp) : c.at = HeapStart
      BY <2>1, <2>4, HeapAssumption DEF Fill
    <3>2. flp # <<>>
      BY <3>1, <2>1, EmptySeq DEF Entries
    <3>3. PICK last \in Entries(flp) : last = flp[Len(flp)] /\ EndOf(last) # Brk
      BY <2>1, <2>3, <3>2
    <3>4. PICK d \in Entries(flp) : d.at = EndOf(last)
      BY <2>1, <2>4, <3>3 DEF Fill
    <3>5. PICK k \in 1 .. Len(flp) : d = flp[k]
      BY DEF Entries
    <3>6. /\ d.at \in Nat /\ EndOf(d) \in Nat /\ d.at < EndOf(d) /\ last.at \in Nat /\ EndOf(last) \in Nat
          /\ last.at < EndOf(last)
      BY <2>1, <2>3, <3>2, <3>3, <3>5, ChunkFacts
    <3>7. CASE k = Len(flp)
      BY <3>3, <3>4, <3>5, <3>6, <3>7
    <3>8. CASE k < Len(flp)
      <4>1. EndOf(d) < last.at
        BY <2>1, <2>3, <3>2, <3>3, <3>5, <3>8 DEF Ordered
      <4> QED BY <3>4, <3>6, <4>1
    <3> QED BY <2>1, <3>7, <3>8
  <2> QED BY <2>2, <2>3, <2>4 DEF GivenBack
<1> QED BY InitInv, Inductive, <1>1, PTL DEF Spec
-----------------------------------------------------------------------------
(* The abstract allocator *)

\* A block of a sound heap is one the abstract allocator may give.
LEMMA BlockFits ==
  ASSUME NEW top, NEW list, NEW blocks, Sound(top, list, blocks), NEW b \in blocks,
         NEW len, b.sz >= len
  PROVE  Abstract!Fits(b, len, blocks \ {b})
<1>1. /\ b \in AnyChunk /\ b.at >= HeapStart /\ EndOf(b) <= top /\ top \in HeapStart .. HeapEnd
      /\ \A c \in blocks : b = c \/ Apart(b, c)
  BY DEF Sound, Fill
<1>2. /\ b.at \in Nat /\ b.sz \in Nat /\ EndOf(b) = b.at + Word + b.sz
      /\ HeapStart \in Nat /\ HeapEnd \in Nat /\ Word \in Nat
  BY <1>1, ChunkFacts, HeapAssumption
<1>3. b.at + Word + b.sz <= HeapEnd
  BY <1>1, <1>2
<1>4. b.at \in HeapStart .. HeapEnd /\ b.sz \in 0 .. HeapEnd - HeapStart
  BY <1>1, <1>2, <1>3
<1>5. b \in Abstract!Block
  BY <1>1, <1>4 DEF Abstract!Block, AnyChunk
<1>6. \A c \in blocks \ {b} : Abstract!Apart(b, c)
  BY <1>1 DEF Abstract!Apart, Abstract!Behind, Apart, EndOf
<1> QED BY <1>3, <1>5, <1>6 DEF Abstract!Fits, Abstract!Behind

LEMMA MallocHonoured ==
  ASSUME Inv, NEW len \in MallocLengths, Malloc(len)
  PROVE  Abstract!Alloc(len) \/ UNCHANGED used
<1>1. PICK n \in Nat : n = AtLeast(len) /\ n >= Word /\ n < Wrap
  BY AtLeastFacts, HeapAssumption
<1>2. CASE Found(n)
  <2>1. PICK h : h = Obtain(n)
    OBVIOUS
  <2>2. Sound(h.brk, h.flp, used \cup {h.block}) /\ h.block \notin used /\ h.block.sz >= n
    BY <1>1, <1>2, <2>1, ObtainSound DEF Handed
  <2>3. h.block.sz >= len
    <3>1. n >= len /\ len \in Nat
      BY <1>1, HeapAssumption DEF AtLeast
    <3>2. h.block.sz \in Nat
      BY <2>2 DEF Sound, Fill, AnyChunk
    <3> QED BY <2>2, <3>1, <3>2
  <2>4. Abstract!Fits(h.block, len, (used \cup {h.block}) \ {h.block})
    BY <2>2, <2>3, BlockFits
  <2>5. (used \cup {h.block}) \ {h.block} = used
    BY <2>2
  <2>6. used' = used \cup {h.block}
    BY <1>1, <1>2, <2>1 DEF Malloc
  <2> QED BY <2>4, <2>5, <2>6 DEF Abstract!Alloc
<1>3. CASE ~Found(n)
  BY <1>1, <1>3 DEF Malloc
<1> QED BY <1>2, <1>3

\* A block resized in its place.
LEMMA InPlace ==
  ASSUME Inv, Inv', NEW c \in used, NEW len, NEW b, b.at = c.at, b.sz >= len,
         used' = (used \ {c}) \cup {b}
  PROVE  Abstract!Resize(c, len)
<1>1. b \notin used \ {c}
  <2>1. Fill(used \cup Entries(flp), Brk)
    BY InvFacts
  <2> QED BY <2>1, Unique
<1>2. Sound(Brk', flp', used')
  BY DEF Inv
<1>3. Abstract!Fits(b, len, used' \ {b})
  BY <1>2, BlockFits
<1>4. used' \ {b} = used \ {c}
  BY <1>1
<1> QED BY <1>3, <1>4 DEF Abstract!Resize

LEMMA ReallocHonoured ==
  ASSUME Inv, ReallocSane, NEW c \in used, NEW len \in ReallocLengths, Realloc(c, len)
  PROVE  Abstract!Resize(c, len)
<1>1. Inv' /\ ~WrapsAround(c, len)
  BY ShrinkKeeps, GrowIntoKeeps, GrowTopKeeps, MoveKeeps DEF Realloc
<1>2. c.at \in Nat /\ c.sz \in Nat /\ Word \in Nat /\ len \in Nat /\ len < Wrap
  BY <1>1, ReallocFacts
<1>3. Chunk(c.at, len).at = c.at /\ Chunk(c.at, len).sz >= len
  BY <1>2 DEF Chunk
<1>4. CASE Shrink(c, len)
  BY <1>1, <1>3, <1>4, InPlace DEF Shrink
<1>5. CASE GrowInto(c, len)
  <2>1. PICK k \in Behind(c, len) :
          \/ used' = (used \ {c}) \cup {Chunk(c.at, len)}
          \/ used' = (used \ {c}) \cup {Chunk(c.at, c.sz + flp[k].sz + Word)}
    BY <1>5 DEF GrowInto
  <2>2. flp[k].sz + Word >= len - c.sz /\ flp[k].sz \in Nat
    BY InvFacts, ChunkFacts DEF Behind
  <2>3. /\ Chunk(c.at, c.sz + flp[k].sz + Word).at = c.at
        /\ Chunk(c.at, c.sz + flp[k].sz + Word).sz >= len
    BY <1>2, <2>2 DEF Chunk
  <2>4. CASE used' = (used \ {c}) \cup {Chunk(c.at, len)}
    BY <1>1, <1>3, <2>4, InPlace
  <2>5. CASE used' = (used \ {c}) \cup {Chunk(c.at, c.sz + flp[k].sz + Word)}
    BY <1>1, <2>3, <2>5, InPlace
  <2> QED BY <2>1, <2>4, <2>5
<1>6. CASE GrowTop(c, len)
  BY <1>1, <1>3, <1>6, InPlace DEF GrowTop
<1>7. CASE Move(c, len)
  <2>1. PICK n \in Nat : n = AtLeast(len) /\ n >= Word /\ n < Wrap /\ n >= len
    <3>1. len \in 0 .. Wrap - 1
      BY <1>2, HeapAssumption
    <3>2. AtLeast(len) >= len
      BY <1>2 DEF AtLeast
    <3> QED BY <3>1, <3>2, AtLeastFacts
  <2>2. PICK h : h = Obtain(n)
    OBVIOUS
  <2>3. PICK b : b = h.block
    OBVIOUS
  <2>4. Found(n) /\ used' = (used \ {c}) \cup {b}
    BY <1>7, <2>1, <2>2, <2>3 DEF Move
  <2>5. Sound(h.brk, h.flp, used \cup {b}) /\ b \notin used /\ b.sz >= n
    BY <2>1, <2>2, <2>3, <2>4, ObtainSound DEF Handed
  <2>6. b.sz >= len
    <3>1. b.sz \in Nat
      BY <2>5 DEF Sound, Fill, AnyChunk
    <3> QED BY <1>2, <2>1, <2>5, <3>1
  <2>7. Sound(Brk', flp', used')
    BY <1>1 DEF Inv
  <2>8. used' \ {b} = used \ {c} /\ b \in used'
    BY <2>4, <2>5
  <2>9. Abstract!Fits(b, len, used \ {c})
    BY <2>6, <2>7, <2>8, BlockFits
  \* The old block is still there when the new one is obtained.
  <2>10. Abstract!Apart(c, b)
    BY <2>5 DEF Sound, Fill, Apart, EndOf, Abstract!Apart, Abstract!Behind
  <2> QED BY <2>4, <2>8, <2>9, <2>10 DEF Abstract!Resize
<1> QED BY <1>4, <1>5, <1>6, <1>7 DEF Realloc

\* Each call of malloc(), free() and realloc() does for its argument what the
\* abstract allocator promises, or changes no block.
THEOREM Honoured == ASSUME ReallocSane PROVE Spec => CallsHonoured
<1>1. ASSUME Inv, [Next]_vars
      PROVE  /\ \A len \in MallocLengths : Malloc(len) => Abstract!Alloc(len) \/ UNCHANGED used
             /\ \A c \in used : Free(c) => Abstract!Release(c)
             /\ \A c \in used, len \in ReallocLengths : Realloc(c, len) => Abstract!Resize(c, len)
  <2>1. \A c \in used : Free(c) => Abstract!Release(c)
    BY DEF Free, Abstract!Release
  <2> QED BY <1>1, <2>1, MallocHonoured, ReallocHonoured
<1> QED BY InitInv, Inductive, <1>1, PTL DEF Spec, CallsHonoured

\* The sketch's blocks behave as those of the abstract allocator: they share no
\* byte, and every call of the library is one step of it or changes no block.
THEOREM Implementation == ASSUME ReallocSane PROVE Spec => ImplementsAllocator
<1>1. Init => Abstract!AllocInit
  BY DEF Init, Abstract!AllocInit
<1>2. Inv /\ [Next]_vars => [Abstract!AllocNext]_used
  <2> SUFFICES ASSUME Inv, [Next]_vars PROVE [Abstract!AllocNext]_used
    OBVIOUS
  <2>1. CASE \E len \in MallocLengths : Malloc(len)
    BY <2>1, MallocHonoured DEF Abstract!AllocNext
  <2>2. CASE \E c \in used : Free(c)
    BY <2>2 DEF Free, Abstract!Release, Abstract!AllocNext
  <2>3. ASSUME NEW c \in used, NEW len \in ReallocLengths, Realloc(c, len)
        PROVE  Abstract!AllocNext
    BY <2>3, ReallocHonoured DEF Abstract!AllocNext
  <2>4. CASE UNCHANGED vars
    BY <2>4 DEF vars
  <2> QED BY <2>1, <2>2, <2>3, <2>4 DEF Next
<1> QED BY InitInv, Inductive, <1>1, <1>2, PTL DEF Spec, ImplementsAllocator, Abstract!AllocSpec
=============================================================================
