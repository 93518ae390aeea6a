------------------------ MODULE HardwareSerialProofs ------------------------
(***************************************************************************)
(* For every buffer size and every way an index splits into two halves:    *)
(* the port never corrupts, repeats or reorders a byte.                    *)
(***************************************************************************)
EXTENDS HardwareSerial, SequenceTheorems, TLAPS

\* A value transferred in one piece is not torn.
LEMMA MixSame == ASSUME NEW x \in Nat PROVE Mix(x, x) = x
BY BaseAssumption DEF Mix

LEMMA TornSame == ASSUME NEW x \in Nat PROVE Torn(x, x) = {x}
BY MixSame DEF Torn

\* A torn index is still a natural number.
LEMMA TornNat == ASSUME NEW x \in Nat, NEW y \in Nat, NEW z \in Torn(x, y)
                 PROVE z \in Nat
<1>1. ASSUME NEW a \in Nat, NEW b \in Nat PROVE Mix(a, b) \in Nat
  <2>1. a \div Base \in Nat /\ b % Base \in Nat
    BY BaseAssumption
  <2>2. (a \div Base) * Base \in Nat
    BY <2>1, BaseAssumption
  <2> QED BY <2>1, <2>2 DEF Mix
<1> QED BY <1>1 DEF Torn

\* Advancing the head over a free cell adds one to the distance.
LEMMA HeadStep ==
  ASSUME NEW h \in Index, NEW t \in Index, Succ(h) # t
  PROVE  /\ Succ(h) \in Index
         /\ Dist(Succ(h), t) = Dist(h, t) + 1
         /\ Slot(t, Dist(h, t)) = h
         /\ Dist(h, t) + 1 < Size
BY SizeAssumption DEF Index, Succ, Dist, Slot

\* Advancing the tail over a filled cell takes one from the distance.
LEMMA TailStep ==
  ASSUME NEW h \in Index, NEW t \in Index, h # t
  PROVE  /\ Succ(t) \in Index
         /\ Dist(h, Succ(t)) = Dist(h, t) - 1
         /\ Dist(h, t) > 0
         /\ \A k \in 1 .. Dist(h, t) - 1 : Slot(Succ(t), k - 1) = Slot(t, k)
BY SizeAssumption DEF Index, Succ, Dist, Slot

\* Distances and cells stay in range; only the empty ring has distance zero,
\* and the head is not one of the filled cells.
LEMMA RingFacts ==
  ASSUME NEW h \in Index, NEW t \in Index
  PROVE  /\ Dist(h, t) \in 0 .. Size - 1
         /\ Dist(h, t) = 0 <=> h = t
         /\ Succ(h) = t <=> Dist(h, t) = Size - 1
         /\ Succ(h) \in Index
         /\ Slot(t, 0) = t
         /\ \A k \in 1 .. Dist(h, t) : Slot(t, k - 1) \in Index /\ Slot(t, k - 1) # h
BY SizeAssumption DEF Index, Succ, Dist, Slot
-----------------------------------------------------------------------------
\* What the proof carries from state to state.
IInv == TypeOK /\ RxRing /\ RxInOrder /\ TxRing /\ TxInOrder

LEMMA InitIInv == Init => IInv
BY SizeAssumption DEF Init, IInv, TypeOK, Labels, Index, RxRing, RxInOrder, TxRing,
   TxInOrder, Begins, Holds, Dist, Slot, Taken, Sent, RxTailNow, TxHeadNow

\* Steps of the sketch that leave both rings and the transmitter alone.
LEMMA QuietStep ==
  ASSUME IInv,
         UNCHANGED <<rxVars, txVars, lineVars>>,
         open' \in BOOLEAN, udrie' \in BOOLEAN, transmitting' \in BOOLEAN,
         gap' = FALSE, pc' \in Labels, seen' \in Nat,
         i' \in Index, c' \in Byte \cup {NoByte},
         pc # "read_tail2", pc' # "read_tail2",
         pc # "write_head2", pc' # "write_head2", 
         pc' \in {"read", "peek"} => seen' = rxHead,
         pc' \in {"read_c", "peek_c", "read_tail"} => rxHead # rxTail,
         pc' = "read_tail" => i' = Succ(rxTail) /\ c' = rxBuf[rxTail],
         pc' \in {"write", "write_wait", "write_put", "write_head"}
           => i' = Succ(txHead) /\ c' \in Byte,
         pc' = "write_wait" => seen' = txTail,
         pc' \in {"write_put", "write_head"} => Succ(txHead) # txTail,
         pc' = "write_head" => txBuf[txHead] = c'
  PROVE  IInv'
<1> USE DEF IInv, rxVars, txVars, lineVars
<1>1. TypeOK'
  BY DEF TypeOK
<1>2. RxRing' /\ RxInOrder'
  BY DEF RxRing, RxInOrder, Holds, Begins, Taken, RxTailNow
<1>3. TxRing' /\ TxInOrder'
  BY DEF TxRing, TxInOrder, Holds, Begins, Sent, TxHeadNow
<1> QED BY <1>1, <1>2, <1>3
\* Every quiet step of the sketch is one.
LEMMA QuietSketch ==
  ASSUME IInv,
         \/ \E withConfig \in BOOLEAN : Begin(withConfig)
         \/ \E op \in Calls : LoadHead(op) \/ StartWaiting(op)
         \/ Available \/ CompareHead \/ Peek \/ ReadByte
         \/ \E b \in Byte : Write(b)
         \/ LoadTail \/ WriteWait \/ WriteUdrie
         \/ FlushDone \/ EndWait \/ EndOff
  PROVE  IInv'
<1> USE SizeAssumption
<1>0. /\ rxHead \in Nat /\ txTail \in Nat /\ 0 \in Index
      /\ Torn(rxHead, rxHead) = {rxHead} /\ Torn(txTail, txTail) = {txTail}
  BY TornSame DEF IInv, TypeOK, Index
<1>1. CASE \E withConfig \in BOOLEAN : Begin(withConfig)
  BY <1>0, <1>1, QuietStep DEF IInv, TypeOK, Begin, Call, Return, Labels
<1>2. CASE \E op \in Calls : LoadHead(op)
  BY <1>0, <1>2, QuietStep DEF IInv, TypeOK, LoadHead, Call, Goto, Labels
<1>3. CASE \E op \in Calls : StartWaiting(op)
  BY <1>0, <1>3, QuietStep DEF IInv, TypeOK, StartWaiting, Call, Goto, Labels
<1>4. CASE Available
  <2>1. /\ pc = "available" /\ pc' = "loop" /\ seen' = 0 /\ i' = 0
        /\ c' = NoByte /\ gap' = FALSE
        /\ UNCHANGED <<rxVars, txVars, lineVars, open, udrie, transmitting>>
    BY <1>4 DEF Available, Return
  <2> QED BY <1>0, <2>1, QuietStep DEF IInv, TypeOK, Labels
<1>5. CASE CompareHead
  <2>1. seen = rxHead \/ rxHead # rxTail
    BY <1>5 DEF CompareHead, IInv, RxRing
  <2>2. /\ pc \in {"read", "peek"} /\ gap' = FALSE /\ seen' = 0
        /\ UNCHANGED <<rxVars, txVars, lineVars, open, udrie, transmitting>>
    BY <1>5 DEF CompareHead, Return, Goto
  <2>3. \/ pc' = "loop" /\ i' = 0 /\ c' = NoByte
        \/ pc' \in {"read_c", "peek_c"} /\ rxHead # rxTail /\ UNCHANGED <<i, c>>
    BY <1>0, <1>5, <2>1 DEF CompareHead, Return, Goto
  <2> QED BY <1>0, <2>2, <2>3, QuietStep DEF IInv, TypeOK, Labels
<1>6. CASE Peek
  BY <1>0, <1>6, QuietStep DEF IInv, TypeOK, Peek, Return, Labels
<1>7. CASE ReadByte
  <2>1. rxTail \in Index /\ rxHead # rxTail
    BY <1>7 DEF ReadByte, IInv, RxRing, Holds, RxTailNow
  <2>2. Succ(rxTail) \in Index /\ rxBuf[rxTail] \in Byte \cup {NoByte}
    BY <2>1, RingFacts DEF IInv, TypeOK
  <2> QED BY <1>7, <2>1, <2>2, QuietStep DEF IInv, TypeOK, ReadByte, Goto, Labels
<1>8. CASE \E b \in Byte : Write(b)
  <2>1. txHead \in Index
    BY <1>8 DEF Write, Call, IInv, TxRing, Holds, TxHeadNow
  <2>2. Succ(txHead) \in Index
    BY <2>1, RingFacts
  <2> QED BY <1>8, <2>2, QuietStep DEF IInv, TypeOK, Write, Call, Goto, Labels
<1>9. CASE LoadTail
  BY <1>0, <1>9, QuietStep DEF IInv, TypeOK, TxRing, LoadTail, Goto, Labels
<1>10. CASE WriteWait
  <2>1. seen = txTail \/ Succ(txHead) # txTail
    BY <1>10 DEF WriteWait, IInv, TxRing
  <2>2. i = Succ(txHead) /\ c \in Byte
    BY <1>10 DEF WriteWait, IInv, TxRing
  <2>3. /\ pc = "write_wait" /\ gap' = FALSE
        /\ UNCHANGED <<rxVars, txVars, lineVars, i, c, open, udrie, transmitting>>
        /\ seen' = 0
    BY <1>10 DEF WriteWait, Goto
  <2>4. pc' = "write" \/ (pc' = "write_put" /\ Succ(txHead) # txTail)
    BY <1>0, <1>10, <2>1, <2>2 DEF WriteWait, Goto
  <2> QED BY <2>2, <2>3, <2>4, QuietStep DEF IInv, TypeOK, Labels
<1>11. CASE WriteUdrie
  BY <1>0, <1>11, QuietStep DEF IInv, TypeOK, WriteUdrie, Goto, Labels
<1>12. CASE FlushDone
  BY <1>0, <1>12, QuietStep DEF IInv, TypeOK, FlushDone, Return, Labels
<1>13. CASE EndWait
  BY <1>0, <1>13, QuietStep DEF IInv, TypeOK, EndWait, Goto, Labels
<1>14. CASE EndOff
  BY <1>0, <1>14, QuietStep DEF IInv, TypeOK, EndOff, Goto, Labels
<1> QED BY <1>1, <1>2, <1>3, <1>4, <1>5, <1>6, <1>7, <1>8, <1>9, <1>10, <1>11,
           <1>12, <1>13, <1>14

\* How the bytes in the transmitter count.
LEMMA SentFacts ==
  ASSUME IInv
  PROVE  /\ Sent \in Nat /\ Len(txWire) \in Nat
         /\ shift # NoByte => Len(txWire) + 1 \in 1 .. Sent
         /\ udr # NoByte => Sent \in 1 .. Sent
<1>1. Len(txWire) \in Nat
  BY DEF IInv, TypeOK
<1>2. CASE shift = NoByte /\ udr = NoByte
  BY <1>1, <1>2 DEF Sent
<1>3. CASE shift # NoByte /\ udr = NoByte
  BY <1>1, <1>3 DEF Sent
<1>4. CASE shift = NoByte /\ udr # NoByte
  BY <1>1, <1>4 DEF Sent
<1>5. CASE shift # NoByte /\ udr # NoByte
  BY <1>1, <1>5 DEF Sent
<1> QED BY <1>2, <1>3, <1>4, <1>5

\* The steps of the sketch that move an index, fill a cell, clear TXC or end
\* a call on a ring.
LEMMA RingSketch ==
  ASSUME IInv,
         \/ ReadTail \/ ReadTail2 \/ EndClear
         \/ WritePut \/ WriteHead \/ WriteHead2 \/ WriteTxc
  PROVE  IInv'
<1> USE SizeAssumption, ByteAssumption
<1>0. /\ rxHead \in Index /\ RxTailNow \in Index /\ TxHeadNow \in Index /\ txTail \in Index
      /\ 0 \in Index /\ i \in Nat
  BY DEF IInv, TypeOK, RxRing, TxRing, Holds, Index
<1>1. CASE ReadTail
  <2>1. /\ pc = "read_tail" /\ pc' = "read_tail2" /\ gap' = FALSE
        /\ rxTail' \in Torn(rxTail, i)
        /\ UNCHANGED <<rxBuf, rxHead, rxLog, rxRead, lostAt, txVars, lineVars,
                       seen, i, c, open, udrie, transmitting>>
    BY <1>1 DEF ReadTail, Goto
  <2>2. rxTail \in Index /\ rxHead # rxTail /\ i = Succ(rxTail) /\ c = rxBuf[rxTail]
    BY <1>0, <2>1 DEF IInv, RxRing, RxTailNow
  <2>3. rxTail' \in Nat
    BY <2>1, <2>2, TornNat DEF IInv, TypeOK, Index
  <2>4. TypeOK'
    BY <2>1, <2>3 DEF IInv, TypeOK, Labels, txVars, lineVars
  <2>5. /\ i \in Index /\ Dist(rxHead, i) = Dist(rxHead, rxTail) - 1
        /\ Dist(rxHead, rxTail) \in 1 .. Size - 1
        /\ Slot(rxTail, 0) = rxTail
        /\ \A k \in 1 .. Dist(rxHead, i) : Slot(i, k - 1) = Slot(rxTail, k)
    BY <1>0, <2>2, TailStep, RingFacts
  <2>6. /\ Taken' = Taken + 1 /\ Taken \in Nat /\ RxTailNow' = i /\ RxTailNow = rxTail
    BY <2>1 DEF Taken, RxTailNow, IInv, TypeOK
  <2>7. /\ Dist(rxHead, rxTail) = Len(rxLog) - Taken
        /\ \A k \in 1 .. Dist(rxHead, rxTail) : rxBuf[Slot(rxTail, k - 1)] = rxLog[Taken + k]
    BY <2>6 DEF IInv, RxRing, Holds
  <2>8. RxRing'
    <3>1. /\ rxHead' = rxHead /\ rxBuf' = rxBuf /\ rxLog' = rxLog /\ i' = i /\ c' = c
          /\ Len(rxLog) \in Nat
      BY <2>1 DEF IInv, TypeOK
    <3>2. c = rxLog[Taken + 1] /\ Taken + 1 <= Len(rxLog)
      BY <2>2, <2>5, <2>6, <2>7, <3>1
    <3>3. ASSUME NEW k \in 1 .. Dist(rxHead, i)
          PROVE  rxBuf[Slot(i, k - 1)] = rxLog[Taken + 1 + k]
      <4>1. k + 1 \in 1 .. Dist(rxHead, rxTail) /\ Slot(i, k - 1) = Slot(rxTail, (k + 1) - 1)
        BY <2>5
      <4>2. rxBuf[Slot(rxTail, (k + 1) - 1)] = rxLog[Taken + (k + 1)]
        BY <2>7, <4>1
      <4>3. Taken + (k + 1) = Taken + 1 + k
        BY <2>6, <4>1
      <4> QED BY <4>1, <4>2, <4>3
    <3>4. Holds(rxBuf, rxHead, i, rxLog, Taken + 1)
      BY <1>0, <2>5, <2>6, <2>7, <3>1, <3>3 DEF Holds
    <3> QED BY <2>1, <2>5, <2>6, <3>1, <3>2, <3>4 DEF RxRing
  <2>10. RxInOrder'
    BY <2>1 DEF IInv, RxInOrder, Begins
  <2>9. TxRing' /\ TxInOrder'
    BY <2>1 DEF IInv, TxRing, TxInOrder, Holds, Begins, Sent, TxHeadNow, txVars, lineVars
  <2> QED BY <2>4, <2>8, <2>9, <2>10 DEF IInv
<1>2. CASE ReadTail2
  <2>1. /\ pc = "read_tail2" /\ pc' = "loop" /\ gap' = FALSE
        /\ rxTail' = i /\ rxRead' = Append(rxRead, c)
        /\ seen' = 0 /\ i' = 0 /\ c' = NoByte
        /\ UNCHANGED <<rxBuf, rxHead, rxLog, lostAt, txVars, lineVars,
                       open, udrie, transmitting>>
    BY <1>2 DEF ReadTail2, Return
  <2>2. /\ Taken = Len(rxRead) + 1 /\ Taken <= Len(rxLog) /\ c = rxLog[Taken]
    BY <2>1 DEF Taken, IInv, RxRing
  <2>3. c \in Byte /\ 0 \in Index
    BY <2>2 DEF IInv, TypeOK, Index
  <2>4. TypeOK'
    <3>1. rxRead' \in Seq(Byte)
      BY <2>1, <2>3 DEF IInv, TypeOK
    <3> QED BY <1>0, <2>1, <3>1 DEF IInv, TypeOK, Labels, txVars, lineVars
  <2>5. RxTailNow = i /\ RxTailNow' = i /\ Taken' = Taken
    BY <2>1, <2>2, <2>3 DEF RxTailNow, Taken, IInv, TypeOK
  <2>6. RxRing'
    BY <2>1, <2>5 DEF IInv, RxRing, Holds
  <2>7. RxInOrder'
    BY <2>1, <2>2, <2>3 DEF IInv, TypeOK, RxInOrder, Begins
  <2>8. TxRing' /\ TxInOrder'
    BY <2>1 DEF IInv, TxRing, TxInOrder, Holds, Begins, Sent, TxHeadNow, txVars, lineVars
  <2> QED BY <2>4, <2>6, <2>7, <2>8 DEF IInv
<1>3. CASE EndClear
  <2>1. /\ pc = "end_clear" /\ pc' = "loop" /\ gap' = FALSE
        /\ rxHead' = rxTail /\ rxLog' = rxRead
        /\ seen' = 0 /\ i' = 0 /\ c' = NoByte
        /\ UNCHANGED <<rxBuf, rxTail, rxRead, lostAt, txVars, lineVars,
                       open, udrie, transmitting>>
    BY <1>3 DEF EndClear, Return
  <2>2. rxTail \in Index /\ 0 \in Index
    BY <1>0, <2>1 DEF RxTailNow, Index
  <2>3. TypeOK'
    BY <2>1, <2>2 DEF IInv, TypeOK, Labels, txVars, lineVars
  <2>4. RxTailNow' = rxTail /\ Taken' = Len(rxRead) /\ Dist(rxTail, rxTail) = 0
    BY <2>1, <2>2 DEF RxTailNow, Taken, Dist, IInv, TypeOK, Index
  <2>5. RxRing' /\ RxInOrder'
    BY <2>1, <2>2, <2>4 DEF IInv, TypeOK, RxRing, RxInOrder, Holds, Begins
  <2>6. TxRing' /\ TxInOrder'
    BY <2>1 DEF IInv, TxRing, TxInOrder, Holds, Begins, Sent, TxHeadNow, txVars, lineVars
  <2> QED BY <2>3, <2>5, <2>6 DEF IInv
<1>4. CASE WritePut
  <2>1. /\ pc = "write_put" /\ pc' = "write_head" /\ gap' = FALSE
        /\ txBuf' = [txBuf EXCEPT ![txHead] = c]
        /\ UNCHANGED <<rxVars, txHead, txTail, txLog, lineVars, seen, i, c,
                       open, udrie, transmitting>>
    BY <1>4 DEF WritePut, Goto
  <2>2. i = Succ(txHead) /\ c \in Byte /\ Succ(txHead) # txTail
    BY <2>1 DEF IInv, TxRing
  <2>3. TxHeadNow = txHead /\ TxHeadNow' = txHead /\ Sent' = Sent /\ txHead \in Index
    BY <1>0, <2>1 DEF TxHeadNow, Sent, lineVars
  <2>4. TypeOK'
    BY <2>1, <2>2 DEF IInv, TypeOK, Labels, rxVars, lineVars
  <2>5. \A k \in 1 .. Dist(txHead, txTail) : Slot(txTail, k - 1) # txHead /\ Slot(txTail, k - 1) \in Index
    BY <1>0, <2>3, RingFacts
  <2>6. \A k \in 1 .. Dist(txHead, txTail) : txBuf'[Slot(txTail, k - 1)] = txLog[Sent + k]
    BY <2>1, <2>3, <2>5 DEF IInv, TypeOK, TxRing, Holds
  <2>7. TxRing' /\ TxInOrder'
    BY <1>0, <2>1, <2>2, <2>3, <2>6 DEF IInv, TypeOK, TxRing, TxInOrder, Holds, Begins, lineVars
  <2>8. RxRing' /\ RxInOrder'
    BY <2>1 DEF IInv, RxRing, RxInOrder, Holds, Begins, Taken, RxTailNow, rxVars
  <2> QED BY <2>4, <2>7, <2>8 DEF IInv
<1>5. CASE WriteHead
  <2>1. /\ pc = "write_head" /\ pc' = "write_head2" /\ gap' = FALSE
        /\ txHead' \in Torn(txHead, i) /\ txLog' = Append(txLog, c)
        /\ UNCHANGED <<rxVars, txBuf, txTail, lineVars, seen, i, c,
                       open, udrie, transmitting>>
    BY <1>5 DEF WriteHead, Goto
  <2>2. i = Succ(txHead) /\ c \in Byte /\ Succ(txHead) # txTail /\ txBuf[txHead] = c
    BY <2>1 DEF IInv, TxRing
  <2>3. TxHeadNow = txHead /\ TxHeadNow' = i /\ Sent' = Sent /\ txHead \in Index
    BY <1>0, <2>1 DEF TxHeadNow, Sent, lineVars
  <2>13. Sent \in Nat
    BY SentFacts
  <2>4. txHead' \in Nat
    BY <2>1, <2>3, TornNat DEF IInv, TypeOK, Index
  <2>5. TypeOK'
    <3>1. txLog' \in Seq(Byte)
      BY <2>1, <2>2 DEF IInv, TypeOK
    <3> QED BY <2>1, <2>4, <3>1 DEF IInv, TypeOK, Labels, rxVars, lineVars
  <2>6. /\ i \in Index /\ Dist(i, txTail) = Dist(txHead, txTail) + 1
        /\ Slot(txTail, Dist(txHead, txTail)) = txHead /\ Dist(txHead, txTail) \in Nat
    BY <1>0, <2>2, <2>3, HeadStep, RingFacts
  <2>7. /\ Dist(txHead, txTail) = Len(txLog) - Sent
        /\ \A k \in 1 .. Dist(txHead, txTail) : txBuf[Slot(txTail, k - 1)] = txLog[Sent + k]
    BY <2>3 DEF IInv, TxRing, Holds
  <2>8. /\ Len(txLog') = Len(txLog) + 1 /\ txLog'[Len(txLog) + 1] = c
        /\ \A k \in 1 .. Len(txLog) : txLog'[k] = txLog[k]
    BY <2>1, <2>2 DEF IInv, TypeOK
  <2>9. \A k \in 1 .. Dist(i, txTail) : txBuf[Slot(txTail, k - 1)] = txLog'[Sent + k]
    <3>1. Len(txLog) \in Nat
      BY DEF IInv, TypeOK
    <3> TAKE k \in 1 .. Dist(i, txTail)
    <3>2. CASE k = Dist(i, txTail)
      BY <2>2, <2>6, <2>7, <2>8, <2>13, <3>1, <3>2
    <3>3. CASE k # Dist(i, txTail)
      <4>1. k \in 1 .. Dist(txHead, txTail) /\ Sent + k \in 1 .. Len(txLog)
        BY <2>6, <2>7, <2>13, <3>1, <3>3
      <4> QED BY <2>7, <2>8, <4>1
    <3> QED BY <3>2, <3>3
  <2>10. TxRing'
    <3>1. Len(txLog) \in Nat /\ Len(txWire) \in Nat /\ Sent <= Len(txLog)
      BY <2>6, <2>7, <2>13 DEF IInv, TypeOK
    <3>2. Holds(txBuf, i, txTail, txLog', Sent)
      BY <1>0, <2>6, <2>7, <2>8, <2>9, <2>13, <3>1 DEF Holds
    <3>3. /\ shift # NoByte => shift = txLog'[Len(txWire) + 1]
          /\ udr # NoByte => udr = txLog'[Sent]
      <4>1. /\ shift # NoByte => shift = txLog[Len(txWire) + 1] /\ Len(txWire) + 1 \in 1 .. Sent
            /\ udr # NoByte => udr = txLog[Sent] /\ Sent \in 1 .. Sent
        BY SentFacts DEF IInv, TxRing
      <4> QED BY <2>8, <2>13, <3>1, <4>1
    <3>4. i # txTail
      BY <1>0, <2>6, RingFacts
    <3>5. UNCHANGED <<txBuf, txTail, shift, udr, txWire, i, c>>
      BY <2>1 DEF lineVars
    <3> QED BY <2>1, <2>3, <3>2, <3>3, <3>4, <3>5 DEF TxRing
  <2>11. TxInOrder'
    BY <2>1, <2>8 DEF IInv, TypeOK, TxInOrder, Begins, lineVars
  <2>12. RxRing' /\ RxInOrder'
    BY <2>1 DEF IInv, RxRing, RxInOrder, Holds, Begins, Taken, RxTailNow, rxVars
  <2> QED BY <2>5, <2>10, <2>11, <2>12 DEF IInv
<1>6. CASE WriteHead2
  <2>1. /\ pc = "write_head2" /\ pc' = "write_udrie" /\ gap' = FALSE /\ txHead' = i
        /\ UNCHANGED <<rxVars, txBuf, txTail, txLog, lineVars, seen, i, c,
                       open, udrie, transmitting>>
    BY <1>6 DEF WriteHead2, Goto
  <2>2. TxHeadNow = i /\ TxHeadNow' = i /\ Sent' = Sent
    BY <2>1 DEF TxHeadNow, Sent, lineVars
  <2>3. TypeOK'
    BY <1>0, <2>1 DEF IInv, TypeOK, Labels, rxVars, lineVars
  <2>4. TxRing' /\ TxInOrder'
    BY <2>1, <2>2 DEF IInv, TxRing, TxInOrder, Holds, Begins, lineVars
  <2>5. RxRing' /\ RxInOrder'
    BY <2>1 DEF IInv, RxRing, RxInOrder, Holds, Begins, Taken, RxTailNow, rxVars
  <2> QED BY <2>3, <2>4, <2>5 DEF IInv
<1>7. CASE WriteTxc
  <2>1. /\ pc = "write_txc" /\ pc' = "loop" /\ gap' = FALSE
        /\ seen' = 0 /\ i' = 0 /\ c' = NoByte
        /\ transmitting' = TRUE /\ txc' = FALSE
        /\ UNCHANGED <<rxVars, txVars, udr, shift, txWire, open, udrie>>
    BY <1>7 DEF WriteTxc, Return
  <2>2. TypeOK'
    BY <1>0, <2>1 DEF IInv, TypeOK, Labels, rxVars, txVars
  <2>3. TxRing' /\ TxInOrder'
    BY <2>1 DEF IInv, TxRing, TxInOrder, Holds, Begins, Sent, TxHeadNow, txVars
  <2>4. RxRing' /\ RxInOrder'
    BY <2>1 DEF IInv, RxRing, RxInOrder, Holds, Begins, Taken, RxTailNow, rxVars
  <2> QED BY <2>2, <2>3, <2>4 DEF IInv
<1> QED BY <1>1, <1>2, <1>3, <1>4, <1>5, <1>6, <1>7
LEMMA StutterStep == ASSUME IInv, UNCHANGED vars PROVE IInv'
<1>1. TypeOK'
  BY DEF vars, rxVars, txVars, lineVars, mainVars, IInv, TypeOK
<1>2. RxRing' /\ RxInOrder'
  BY DEF vars, rxVars, mainVars, IInv, RxRing, RxInOrder, Holds, Begins, Taken, RxTailNow
<1>3. TxRing' /\ TxInOrder'
  BY DEF vars, txVars, lineVars, mainVars, IInv, TxRing, TxInOrder, Holds, Begins, Sent, TxHeadNow
<1> QED BY <1>1, <1>2, <1>3 DEF IInv

\* A handler that leaves the transmit side alone.
LEMMA TxUndisturbed ==
  ASSUME IInv, Interrupt, UNCHANGED <<txVars, lineVars, mainVars>>
  PROVE  TxRing' /\ TxInOrder'
<1>1. UNCHANGED <<pc, seen, i, c, txBuf, txHead, txTail, txLog, shift, udr, txWire>>
  BY DEF txVars, lineVars, mainVars
<1>2. ~gap /\ (pc = "write_head2" => gap')
  BY DEF Interrupt, Adjacent
<1> QED BY <1>1, <1>2 DEF IInv, TxRing, TxInOrder, Holds, Begins, Sent, TxHeadNow

\* A handler that leaves the receive side alone.
LEMMA RxUndisturbed ==
  ASSUME IInv, Interrupt, UNCHANGED <<rxVars, mainVars>>
  PROVE  RxRing' /\ RxInOrder'
<1>1. UNCHANGED <<pc, seen, i, c, rxBuf, rxHead, rxTail, rxLog, rxRead>>
  BY DEF rxVars, mainVars
<1>2. ~gap /\ (pc = "read_tail2" => gap')
  BY DEF Interrupt, Adjacent
<1> QED BY <1>1, <1>2 DEF IInv, RxRing, RxInOrder, Holds, Begins, Taken, RxTailNow

\* The receive handler stores only behind the bytes the sketch has not taken,
\* even when it compares with a torn tail: a handler that stores is the only
\* one of its gap, and the byte the sketch is taking left a second free cell.
LEMMA RxIsrStep == ASSUME IInv, RxIsr PROVE IInv'
<1> USE SizeAssumption, ByteAssumption
<1>1. /\ Interrupt /\ UNCHANGED <<txVars, lineVars, mainVars, open, udrie, transmitting>>
      /\ gap' \in BOOLEAN
  BY DEF RxIsr, Interrupt, Adjacent
<1>2. TxRing' /\ TxInOrder'
  BY <1>1, TxUndisturbed
<1>3. rxHead \in Index /\ RxTailNow \in Index
  BY DEF IInv, RxRing, Holds
<1>4. CASE \E b \in Byte : RxStore(b)
  <2> PICK b \in Byte : RxStore(b)
    BY <1>4
  <2>1. /\ Succ(rxHead) # rxTail
        /\ rxBuf' = [rxBuf EXCEPT ![rxHead] = b] /\ rxHead' = Succ(rxHead)
        /\ rxLog' = Append(rxLog, b)
        /\ UNCHANGED <<rxTail, rxRead, lostAt>>
    BY DEF RxStore, RxFull
  <2>2. Succ(rxHead) # RxTailNow
    <3>1. CASE pc = "read_tail2"
      <4>1. Dist(rxHead, i) < Size - 1 /\ RxTailNow = i
        BY <1>1, <3>1 DEF Interrupt, IInv, RxRing, RxTailNow
      <4> QED BY <1>3, <4>1, RingFacts
    <3>2. CASE pc # "read_tail2"
      BY <2>1, <3>2 DEF RxTailNow
    <3> QED BY <3>1, <3>2
  <2>3. /\ Succ(rxHead) \in Index
        /\ Dist(Succ(rxHead), RxTailNow) = Dist(rxHead, RxTailNow) + 1
        /\ Slot(RxTailNow, Dist(rxHead, RxTailNow)) = rxHead
        /\ Dist(rxHead, RxTailNow) \in Nat
        /\ \A k \in 1 .. Dist(rxHead, RxTailNow) :
             Slot(RxTailNow, k - 1) \in Index /\ Slot(RxTailNow, k - 1) # rxHead
    BY <1>3, <2>2, HeadStep, RingFacts
  <2>4. UNCHANGED <<pc, seen, i, c, ret>>
    BY <1>1 DEF mainVars
  <2>5. /\ Len(rxLog) \in Nat /\ rxLog' \in Seq(Byte) /\ Len(rxLog') = Len(rxLog) + 1
        /\ rxLog'[Len(rxLog) + 1] = b
        /\ \A k \in 1 .. Len(rxLog) : rxLog'[k] = rxLog[k]
    BY <2>1 DEF IInv, TypeOK
  <2>6. /\ rxBuf' \in [Index -> Byte \cup {NoByte}] /\ rxBuf'[rxHead] = b
        /\ \A x \in Index \ {rxHead} : rxBuf'[x] = rxBuf[x]
    BY <1>3, <2>1 DEF IInv, TypeOK
  <2>7. TypeOK'
    BY <1>1, <2>1, <2>3, <2>4, <2>5, <2>6 DEF IInv, TypeOK, txVars, lineVars
  <2>8. RxTailNow' = RxTailNow /\ Taken' = Taken /\ Taken \in Nat
    BY <2>1, <2>4 DEF RxTailNow, Taken, IInv, TypeOK
  <2>9. /\ Dist(rxHead, RxTailNow) = Len(rxLog) - Taken
        /\ \A k \in 1 .. Dist(rxHead, RxTailNow) : rxBuf[Slot(RxTailNow, k - 1)] = rxLog[Taken + k]
    BY DEF IInv, RxRing, Holds
  <2>10. ASSUME NEW k \in 1 .. Dist(Succ(rxHead), RxTailNow)
         PROVE  rxBuf'[Slot(RxTailNow, k - 1)] = rxLog'[Taken + k]
    <3>1. CASE k = Dist(Succ(rxHead), RxTailNow)
      BY <2>3, <2>5, <2>6, <2>8, <2>9, <3>1
    <3>2. CASE k # Dist(Succ(rxHead), RxTailNow)
      <4>1. k \in 1 .. Dist(rxHead, RxTailNow) /\ Taken + k \in 1 .. Len(rxLog)
        BY <2>3, <2>5, <2>8, <2>9, <3>2
      <4> QED BY <2>3, <2>5, <2>6, <2>9, <4>1
    <3> QED BY <3>1, <3>2
  <2>11. Holds(rxBuf', rxHead', RxTailNow, rxLog', Taken)
    <3>1. Dist(Succ(rxHead), RxTailNow) = Len(rxLog') - Taken
      BY <2>3, <2>5, <2>8, <2>9
    <3>2. rxHead' = Succ(rxHead) /\ Succ(rxHead) \in Index /\ RxTailNow \in Index
      BY <1>3, <2>1, <2>3
    <3> QED BY <2>10, <3>1, <3>2, Zenon DEF Holds
  <2>12. rxHead' # RxTailNow
    <3>1. Dist(Succ(rxHead), RxTailNow) # 0
      BY <2>3
    <3>2. Succ(rxHead) # RxTailNow
      BY <1>3, <2>3, <3>1, RingFacts
    <3> QED BY <2>1, <3>2
  <2>13. /\ pc \in {"read_c", "peek_c", "read_tail", "read", "peek"} => rxHead' # rxTail
         /\ pc \in {"read", "peek", "read_tail2"} => gap'
    BY <1>1, <2>12 DEF RxTailNow, Interrupt, Adjacent
  <2>14. pc = "read_tail" => i = Succ(rxTail) /\ c = rxBuf'[rxTail]
    <3> SUFFICES ASSUME pc = "read_tail"
                 PROVE  i = Succ(rxTail) /\ c = rxBuf'[rxTail]
      OBVIOUS
    <3>1. rxHead # rxTail /\ rxTail = RxTailNow /\ i = Succ(rxTail) /\ c = rxBuf[rxTail]
      BY DEF IInv, RxRing, RxTailNow
    <3> QED BY <1>3, <2>6, <3>1
  <2>15. pc = "read_tail2" => Taken <= Len(rxLog') /\ c = rxLog'[Taken]
    <3> SUFFICES ASSUME pc = "read_tail2"
                 PROVE  Taken <= Len(rxLog') /\ c = rxLog'[Taken]
      OBVIOUS
    <3>1. Taken <= Len(rxLog) /\ c = rxLog[Taken] /\ Taken > 0
      BY DEF IInv, TypeOK, RxRing, Taken
    <3> QED BY <2>5, <2>8, <3>1
  <2>16. RxRing'
    BY <2>1, <2>4, <2>8, <2>11, <2>13, <2>14, <2>15 DEF RxRing
  <2>17. RxInOrder'
    BY <2>1, <2>5 DEF IInv, TypeOK, RxInOrder, Begins
  <2> QED BY <1>2, <2>7, <2>16, <2>17 DEF IInv
<1>5. CASE UNCHANGED <<rxBuf, rxHead, rxTail, rxLog, rxRead>>
  <2>1. UNCHANGED <<pc, seen, i, c>> /\ ~gap /\ (pc = "read_tail2" => gap')
    BY <1>1 DEF mainVars, Interrupt, Adjacent
  <2>2. RxRing' /\ RxInOrder'
    BY <1>5, <2>1 DEF IInv, RxRing, RxInOrder, Holds, Begins, Taken, RxTailNow
  <2>3. TypeOK'
    BY <1>1, <1>5, <2>1 DEF IInv, TypeOK, txVars, lineVars
  <2> QED BY <1>2, <2>2, <2>3 DEF IInv
<1> QED BY <1>4, <1>5 DEF RxIsr, RxDrop, rxVars
LEMMA UdreStopStep == ASSUME IInv, UdreStop PROVE IInv'
<1>1. /\ Interrupt /\ udrie' = FALSE /\ gap' \in BOOLEAN
      /\ UNCHANGED <<rxVars, txVars, lineVars, mainVars, open, transmitting>>
  BY DEF UdreStop, Interrupt, Adjacent
<1>2. TypeOK'
  BY <1>1 DEF IInv, TypeOK, rxVars, txVars, lineVars, mainVars
<1> QED BY <1>1, <1>2, TxUndisturbed, RxUndisturbed DEF IInv

\* The transmit handler sends only cells that were filled, even when it
\* compares with a torn head: the sketch filled the cell first, and the handler
\* is the only one of its gap.
LEMMA UdreSendStep == ASSUME IInv, UdreSend PROVE IInv'
<1> USE SizeAssumption, ByteAssumption
<1>1. /\ Interrupt /\ udr = NoByte /\ txHead # txTail
      /\ udr' = txBuf[txTail] /\ txTail' = Succ(txTail) /\ gap' \in BOOLEAN
      /\ UNCHANGED <<rxVars, txBuf, txHead, txLog, shift, txc, txWire, mainVars,
                     open, udrie, transmitting>>
  BY DEF UdreSend, Interrupt, Adjacent
<1>2. RxRing' /\ RxInOrder'
  BY <1>1, RxUndisturbed
<1>3. TxHeadNow \in Index /\ txTail \in Index
  BY DEF IInv, TxRing, Holds
<1>4. TxHeadNow # txTail
  BY <1>1 DEF TxHeadNow, Interrupt, IInv, TxRing
<1>5. /\ Succ(txTail) \in Index
      /\ Dist(TxHeadNow, Succ(txTail)) = Dist(TxHeadNow, txTail) - 1
      /\ Dist(TxHeadNow, txTail) \in 1 .. Size - 1
      /\ Slot(txTail, 0) = txTail
      /\ \A k \in 1 .. Dist(TxHeadNow, txTail) - 1 : Slot(Succ(txTail), k - 1) = Slot(txTail, k)
  BY <1>3, <1>4, TailStep, RingFacts
<1>6. /\ Sent \in Nat /\ Sent' = Sent + 1 /\ Len(txLog) \in Nat
  <2>1. udr' # NoByte
    <3>1. 1 \in 1 .. Dist(TxHeadNow, txTail)
      BY <1>5
    <3>2. txBuf[Slot(txTail, 1 - 1)] = txLog[Sent + 1] /\ Dist(TxHeadNow, txTail) = Len(txLog) - Sent
      BY <3>1 DEF IInv, TxRing, Holds
    <3>3. Sent \in Nat /\ Len(txLog) \in Nat /\ txLog \in Seq(Byte)
      BY SentFacts DEF IInv, TypeOK
    <3>4. txLog[Sent + 1] \in Byte
      BY <1>5, <3>2, <3>3
    <3> QED BY <1>1, <1>5, <3>2, <3>4
  <2> QED BY <1>1, <2>1, SentFacts DEF Sent, IInv, TypeOK
<1>7. /\ Dist(TxHeadNow, txTail) = Len(txLog) - Sent
      /\ \A k \in 1 .. Dist(TxHeadNow, txTail) : txBuf[Slot(txTail, k - 1)] = txLog[Sent + k]
  BY DEF IInv, TxRing, Holds
<1>8. udr' = txLog[Sent + 1] /\ Sent + 1 \in 1 .. Len(txLog)
  <2>1. 1 \in 1 .. Dist(TxHeadNow, txTail)
    BY <1>5
  <2> QED BY <1>1, <1>5, <1>6, <1>7, <2>1
<1>9. UNCHANGED <<pc, seen, i, c, ret>>
  BY <1>1 DEF mainVars
<1>10. TypeOK'
  <2>1. udr' \in Byte \cup {NoByte}
    BY <1>8 DEF IInv, TypeOK
  <2> QED BY <1>1, <1>5, <1>9, <2>1 DEF IInv, TypeOK, rxVars
<1>11. TxHeadNow' = TxHeadNow
  BY <1>1, <1>9 DEF TxHeadNow
<1>12. ASSUME NEW k \in 1 .. Dist(TxHeadNow, Succ(txTail))
       PROVE  txBuf[Slot(Succ(txTail), k - 1)] = txLog[Sent + 1 + k]
  <2>1. k + 1 \in 1 .. Dist(TxHeadNow, txTail) /\ Slot(Succ(txTail), k - 1) = Slot(txTail, (k + 1) - 1)
    BY <1>5
  <2>2. txBuf[Slot(txTail, (k + 1) - 1)] = txLog[Sent + (k + 1)]
    BY <1>7, <2>1
  <2>3. Sent + (k + 1) = Sent + 1 + k
    BY <1>6, <2>1
  <2> QED BY <2>1, <2>2, <2>3
<1>13. Holds(txBuf, TxHeadNow, Succ(txTail), txLog, Sent + 1)
  BY <1>3, <1>5, <1>6, <1>7, <1>12 DEF Holds
<1>14. Succ(TxHeadNow) # Succ(txTail)
  BY <1>3, <1>5, RingFacts
<1>15. /\ pc = "write_wait" => gap' /\ Succ(txHead) # txTail'
       /\ pc \in {"write_put", "write_head"} => Succ(txHead) # txTail'
       /\ pc = "write_head2" => gap'
  BY <1>1, <1>14 DEF TxHeadNow, Interrupt, Adjacent
<1>16. TxRing'
  BY <1>1, <1>6, <1>8, <1>9, <1>11, <1>13, <1>15 DEF IInv, TxRing
<1>17. TxInOrder'
  BY <1>1 DEF IInv, TxInOrder, Begins
<1> QED BY <1>2, <1>10, <1>16, <1>17 DEF IInv

LEMMA TransmitterStep == ASSUME IInv, LoadShift \/ ShiftOut PROVE IInv'
<1> USE ByteAssumption
<1>1. UNCHANGED <<rxVars, txVars, mainVars, open, udrie, transmitting, gap>>
      /\ txc' \in BOOLEAN /\ udr' = NoByte
  BY DEF LoadShift, ShiftOut, IInv, TypeOK
<1>2. RxRing' /\ RxInOrder'
  BY <1>1 DEF IInv, RxRing, RxInOrder, Holds, Begins, Taken, RxTailNow, rxVars, mainVars
<1>3. /\ Len(txWire) \in Nat /\ Sent \in Nat
      /\ shift # NoByte => shift = txLog[Len(txWire) + 1]
      /\ udr # NoByte => udr = txLog[Sent]
      /\ Dist(TxHeadNow, txTail) \in Nat /\ Dist(TxHeadNow, txTail) = Len(txLog) - Sent
  <2>1. TxHeadNow \in Index /\ txTail \in Index
    BY DEF IInv, TxRing, Holds
  <2>2. Dist(TxHeadNow, txTail) \in 0 .. Size - 1
    BY <2>1, RingFacts
  <2>3. Dist(TxHeadNow, txTail) \in Nat
    BY <2>2, SizeAssumption
  <2> QED BY <2>3, SentFacts DEF IInv, TxRing, Holds
<1>4. CASE LoadShift
  <2>1. shift = NoByte /\ udr # NoByte /\ shift' = udr /\ txWire' = txWire
    BY <1>4 DEF LoadShift
  <2>2. Sent = Len(txWire) + 1 /\ Sent' = Sent
    BY <1>1, <1>3, <2>1 DEF Sent
  <2>3. TypeOK'
    BY <1>1, <2>1 DEF IInv, TypeOK, rxVars, txVars, mainVars
  <2>4. TxRing' /\ TxInOrder'
    BY <1>1, <1>3, <2>1, <2>2 DEF IInv, TxRing, TxInOrder, Holds, Begins, TxHeadNow, txVars, mainVars
  <2> QED BY <1>2, <2>3, <2>4 DEF IInv
<1>5. CASE ShiftOut
  <2>1. shift # NoByte /\ shift' = udr /\ txWire' = Append(txWire, shift)
    BY <1>5 DEF ShiftOut
  <2>2. shift \in Byte /\ txWire' \in Seq(Byte) /\ Len(txWire') = Len(txWire) + 1
        /\ txWire'[Len(txWire) + 1] = shift
        /\ \A k \in 1 .. Len(txWire) : txWire'[k] = txWire[k]
    BY <2>1 DEF IInv, TypeOK
  <2>3. Sent' = Sent
    BY <1>1, <1>3, <2>1, <2>2 DEF Sent
  <2>4. udr # NoByte => Sent = Len(txWire') + 1
    BY <1>3, <2>1, <2>2 DEF Sent
  <2>5. TypeOK'
    BY <1>1, <2>1, <2>2 DEF IInv, TypeOK, rxVars, txVars, mainVars
  <2>6. TxRing'
    BY <1>1, <1>3, <2>1, <2>3, <2>4 DEF IInv, TxRing, Holds, TxHeadNow, txVars, mainVars
  <2>7. Len(txWire) + 1 \in 1 .. Sent /\ Len(txLog) \in Nat /\ Sent <= Len(txLog)
    BY <1>3, <2>1, SentFacts DEF IInv, TypeOK
  <2>8. TxInOrder'
    BY <1>1, <1>3, <2>1, <2>2, <2>7 DEF IInv, TxInOrder, Begins, txVars
  <2> QED BY <1>2, <2>5, <2>6, <2>8 DEF IInv
<1> QED BY <1>4, <1>5

LEMMA NextIInv == IInv /\ [Next]_vars => IInv'
<1> SUFFICES ASSUME IInv, [Next]_vars PROVE IInv'
  OBVIOUS
<1>1. CASE Sketch
  <2>1. CASE FlushSpin
    BY <2>1, StutterStep DEF FlushSpin
  <2>2. CASE ReadTail \/ ReadTail2 \/ EndClear \/ WritePut \/ WriteHead \/ WriteHead2 \/ WriteTxc
    BY <2>2, RingSketch
  <2> QED BY <1>1, <2>1, <2>2, QuietSketch, Zenon DEF Sketch
<1>2. CASE Hardware
  BY <1>2, RxIsrStep, UdreStopStep, UdreSendStep, TransmitterStep, Zenon DEF Hardware
<1>3. CASE UNCHANGED vars
  BY <1>3, StutterStep
<1> QED BY <1>1, <1>2, <1>3 DEF Next

THEOREM Invariance == Spec => []IInv
<1>1. Init => IInv
  BY InitIInv
<1>2. IInv /\ [Next]_vars => IInv'
  BY NextIInv
<1> QED BY <1>1, <1>2, PTL DEF Spec

\* Every variable keeps its type in every behaviour, torn indices included.
THEOREM TypeCorrect == Spec => []TypeOK
BY Invariance, PTL DEF IInv

\* read() never corrupts, repeats or reorders a byte, whatever the size of the
\* buffer and whichever half of an index is transferred first.
THEOREM ReadInOrder == Spec => []RxInOrder
BY Invariance, PTL DEF IInv

\* The transmitter sends what write() was given and nothing else.
THEOREM WriteInOrder == Spec => []TxInOrder
BY Invariance, PTL DEF IInv

\* Neither direction of the port corrupts, repeats or reorders a byte.
THEOREM InOrder == Spec => []BytesInOrder
<1>1. RxInOrder /\ TxInOrder => BytesInOrder
  BY DEF BytesInOrder
<1> QED BY <1>1, ReadInOrder, WriteInOrder, PTL

-----------------------------------------------------------------------------
(* The port implements the two queues *)

\* What is left of a log behind its first n bytes.
Rest(log, n) == [k \in 1 .. Len(log) - n |-> log[n + k]]

LEMMA RestFacts ==
  ASSUME NEW log \in Seq(Byte), NEW n \in Nat, n <= Len(log)
  PROVE  /\ Rest(log, n) \in Seq(Byte)
         /\ Len(Rest(log, n)) = Len(log) - n
         /\ \A k \in 1 .. Len(log) - n : Rest(log, n)[k] = log[n + k]
<1>1. Len(log) \in Nat /\ Len(log) - n \in Nat
  OBVIOUS
<1>2. \A k \in 1 .. Len(log) - n : n + k \in 1 .. Len(log) /\ log[n + k] \in Byte
  BY <1>1
<1>3. Rest(log, n) \in [1 .. Len(log) - n -> Byte]
  BY <1>2 DEF Rest
<1>4. Rest(log, n) \in Seq(Byte) /\ Len(Rest(log, n)) = Len(log) - n
  BY <1>1, <1>3
<1> QED BY <1>4 DEF Rest

\* A ring that holds the bytes of a log behind the first n is that queue.
LEMMA PendingRest ==
  ASSUME NEW buf, NEW h \in Index, NEW t \in Index, NEW log \in Seq(Byte), NEW n \in Nat,
         Holds(buf, h, t, log, n)
  PROVE  Pending(buf, h, t) = Rest(log, n) /\ Len(log) - n \in 0 .. Size - 1
<1>1. Dist(h, t) \in 0 .. Size - 1
  BY RingFacts
<1>2. Dist(h, t) = Len(log) - n
  BY DEF Holds
<1>3. Pending(buf, h, t) = Rest(log, n)
  BY <1>2 DEF Holds, Pending, Rest
<1> QED BY <1>1, <1>2, <1>3

\* Logging a byte adds it to the queue, ...
LEMMA RestGrows ==
  ASSUME NEW log \in Seq(Byte), NEW n \in Nat, n <= Len(log), NEW b \in Byte
  PROVE  Rest(Append(log, b), n) = Append(Rest(log, n), b)
<1> DEFINE a == Append(log, b)
           s == Rest(a, n)
           r == Rest(log, n)
           t == Append(r, b)
<1>1. /\ a \in Seq(Byte) /\ Len(a) = Len(log) + 1
      /\ \A k \in 1 .. Len(log) : a[k] = log[k]
      /\ a[Len(log) + 1] = b /\ Len(log) \in Nat
  OBVIOUS
<1> HIDE DEF a
<1>2. /\ s \in Seq(Byte) /\ Len(s) = Len(log) + 1 - n
      /\ \A k \in 1 .. Len(log) + 1 - n : s[k] = a[n + k]
  <2>1. n <= Len(a)
    BY <1>1
  <2>2. /\ s \in Seq(Byte) /\ Len(s) = Len(a) - n
        /\ \A k \in 1 .. Len(a) - n : s[k] = a[n + k]
    BY <1>1, <2>1, RestFacts
  <2> QED BY <1>1, <2>2
<1>3. /\ r \in Seq(Byte) /\ Len(r) = Len(log) - n
      /\ \A k \in 1 .. Len(log) - n : r[k] = log[n + k]
  BY RestFacts
<1> HIDE DEF r
<1>4. /\ t \in Seq(Byte) /\ Len(t) = Len(r) + 1 /\ t[Len(r) + 1] = b
      /\ \A k \in 1 .. Len(r) : t[k] = r[k]
  BY <1>3, AppendProperties
<1> HIDE DEF s, t
<1>5. ASSUME NEW k \in 1 .. Len(s) PROVE s[k] = t[k]
  <2>1. CASE k = Len(r) + 1
    BY <1>1, <1>2, <1>3, <1>4, <2>1
  <2>2. CASE k # Len(r) + 1
    <3>1. k \in 1 .. Len(r) /\ k \in 1 .. Len(log) - n /\ n + k \in 1 .. Len(log)
          /\ k \in 1 .. Len(log) + 1 - n
      BY <1>1, <1>2, <1>3, <2>2
    <3> QED BY <1>1, <1>2, <1>3, <1>4, <3>1
  <2> QED BY <2>1, <2>2
<1>6. Len(s) = Len(t)
  BY <1>1, <1>2, <1>3, <1>4
<1>7. s = t
  BY <1>2, <1>4, <1>5, <1>6, SeqEqual
<1> QED BY <1>7 DEF s, t, r, a

\* ... and taking one removes the oldest.
LEMMA RestShrinks ==
  ASSUME NEW log \in Seq(Byte), NEW n \in Nat, n < Len(log)
  PROVE  Rest(log, n) # <<>> /\ Rest(log, n + 1) = Tail(Rest(log, n))
<1> DEFINE r == Rest(log, n)
           s == Rest(log, n + 1)
           t == Tail(r)
<1>1. /\ r \in Seq(Byte) /\ Len(r) = Len(log) - n
      /\ \A k \in 1 .. Len(log) - n : r[k] = log[n + k]
  BY RestFacts
<1>2. /\ s \in Seq(Byte) /\ Len(s) = Len(log) - (n + 1)
      /\ \A k \in 1 .. Len(log) - (n + 1) : s[k] = log[n + 1 + k]
  BY RestFacts
<1>3. Len(log) \in Nat
  OBVIOUS
<1> HIDE DEF r, s
<1>4. r # <<>>
  BY <1>1, <1>3
<1>5. /\ t \in Seq(Byte) /\ Len(t) = Len(r) - 1
      /\ \A k \in 1 .. Len(t) : t[k] = r[k + 1]
  BY <1>1, <1>4, HeadTailProperties
<1> HIDE DEF t
<1>6. Len(s) = Len(t)
  BY <1>1, <1>2, <1>3, <1>5
<1>7. ASSUME NEW k \in 1 .. Len(s) PROVE s[k] = t[k]
  <2>1. s[k] = log[n + 1 + k] /\ t[k] = r[k + 1] /\ k + 1 \in 1 .. Len(log) - n
    BY <1>1, <1>2, <1>3, <1>5, <1>6
  <2>2. r[k + 1] = log[n + (k + 1)] /\ n + (k + 1) = n + 1 + k
    BY <1>1, <2>1
  <2> QED BY <2>1, <2>2
<1>8. s = t
  BY <1>2, <1>5, <1>6, <1>7, SeqEqual
<1> QED BY <1>4, <1>8 DEF r, s, t

RxQueue == Pending(rxBuf, rxHead, RxTailNow)
TxQueue == Pending(txBuf, TxHeadNow, txTail)

\* The queues are what is left of the two logs.
QueuesAreLogs ==
  /\ RxQueue = Rest(rxLog, Taken) /\ TxQueue = Rest(txLog, Sent)
  /\ Taken \in Nat /\ Sent \in Nat
  /\ rxLog \in Seq(Byte) /\ txLog \in Seq(Byte)
  /\ Len(rxLog) - Taken \in 0 .. Size - 1 /\ Len(txLog) - Sent \in 0 .. Size - 1

LEMMA Queues == IInv => QueuesAreLogs
<1> SUFFICES ASSUME IInv PROVE QueuesAreLogs
  OBVIOUS
<1>1. rxLog \in Seq(Byte) /\ txLog \in Seq(Byte) /\ Taken \in Nat /\ Sent \in Nat
  BY SentFacts DEF IInv, TypeOK, Taken
<1>2. Holds(rxBuf, rxHead, RxTailNow, rxLog, Taken) /\ Holds(txBuf, TxHeadNow, txTail, txLog, Sent)
  BY DEF IInv, RxRing, TxRing
<1>3. /\ rxHead \in Index /\ RxTailNow \in Index /\ TxHeadNow \in Index /\ txTail \in Index
  BY <1>2 DEF Holds
<1> QED BY <1>1, <1>2, <1>3, PendingRest DEF RxQueue, TxQueue, QueuesAreLogs

\* A queue that still fits its ring when a byte is logged had room for it.
LEMMA QueueGrows ==
  ASSUME NEW l \in Seq(Byte), NEW n \in Nat, NEW b \in Byte,
         Len(l) - n \in 0 .. Size - 1, Len(Append(l, b)) - n \in 0 .. Size - 1
  PROVE  Len(Rest(l, n)) < Size - 1 /\ Rest(Append(l, b), n) = Append(Rest(l, n), b)
<1>1. Len(l) \in Nat /\ n <= Len(l)
  BY SizeAssumption
<1>2. Rest(Append(l, b), n) = Append(Rest(l, n), b)
  BY <1>1, RestGrows
<1>3. Len(Rest(l, n)) = Len(l) - n /\ Len(Append(l, b)) = Len(l) + 1
  BY <1>1, RestFacts
<1> QED BY <1>1, <1>2, <1>3, SizeAssumption

\* A byte is taken from its queue, and the queue of a log taken whole is empty.
LEMMA QueueShrinks ==
  ASSUME NEW l \in Seq(Byte), NEW n \in Nat, Len(l) - n \in 0 .. Size - 1
  PROVE  /\ Len(l) - (n + 1) \in 0 .. Size - 1
              => Rest(l, n) # <<>> /\ Rest(l, n + 1) = Tail(Rest(l, n))
         /\ n = Len(l) => Rest(l, n) = <<>>
<1>1. Len(l) \in Nat /\ n <= Len(l)
  BY SizeAssumption
<1>2. ASSUME Len(l) - (n + 1) \in 0 .. Size - 1
      PROVE  Rest(l, n) # <<>> /\ Rest(l, n + 1) = Tail(Rest(l, n))
  BY <1>1, <1>2, RestShrinks
<1>3. ASSUME n = Len(l) PROVE Rest(l, n) = <<>>
  <2>1. Rest(l, n) \in Seq(Byte) /\ Len(Rest(l, n)) = 0
    BY <1>1, <1>3, RestFacts
  <2> QED BY <2>1
<1> QED BY <1>2, <1>3

LEMMA InitFifo == Init => Fifo!FifoInit
<1> SUFFICES ASSUME Init PROVE Fifo!FifoInit
  OBVIOUS
<1>1. Dist(0, 0) = 0 /\ RxTailNow = 0 /\ TxHeadNow = 0
  BY DEF Dist, Init, RxTailNow, TxHeadNow
<1>2. RxQueue = <<>> /\ TxQueue = <<>>
  BY <1>1 DEF Init, RxQueue, TxQueue, Pending
<1> QED BY <1>2 DEF Fifo!FifoInit, RxQueue, TxQueue

\* Every step of the port is a step of the queues, or leaves them alone.
LEMMA StepFifo ==
  ASSUME IInv, IInv', QueuesAreLogs, QueuesAreLogs', [Next]_vars
  PROVE  [Fifo!FifoNext]_(Fifo!fifoVars)
<1> DEFINE RxStays == UNCHANGED <<rxLog, Taken>>
           TxStays == UNCHANGED <<txLog, Sent>>
<1>1. /\ RxStays => RxQueue' = RxQueue
      /\ TxStays => TxQueue' = TxQueue
  BY DEF QueuesAreLogs
<1>2. CASE RxStays /\ TxStays
  BY <1>1, <1>2 DEF Fifo!fifoVars, RxQueue, TxQueue
<1>3. CASE TxStays /\ \E b \in Byte : Taken' = Taken /\ rxLog' = Append(rxLog, b)
  <2>1. PICK b \in Byte : Taken' = Taken /\ rxLog' = Append(rxLog, b)
    BY <1>3
  <2>4. /\ rxLog \in Seq(Byte) /\ rxLog' \in Seq(Byte) /\ Taken \in Nat /\ Taken' \in Nat
        /\ Len(rxLog) - Taken \in 0 .. Size - 1 /\ Len(rxLog') - Taken' \in 0 .. Size - 1
        /\ RxQueue = Rest(rxLog, Taken) /\ RxQueue' = Rest(rxLog', Taken')
    BY DEF QueuesAreLogs
  <2>2. Len(RxQueue) < Size - 1 /\ RxQueue' = Append(RxQueue, b)
    BY <2>1, <2>4, QueueGrows
  <2>3. Fifo!Receive(b)
    BY <1>1, <1>3, <2>2 DEF Fifo!Receive, RxQueue, TxQueue
  <2> QED BY <2>3 DEF Fifo!FifoNext
<1>4. CASE TxStays /\ rxLog' = rxLog /\ Taken' = Taken + 1
  <2>1. RxQueue # <<>> /\ RxQueue' = Tail(RxQueue)
    BY <1>4, QueueShrinks DEF QueuesAreLogs
  <2>2. Fifo!Deliver
    BY <1>1, <1>4, <2>1 DEF Fifo!Deliver, RxQueue, TxQueue
  <2> QED BY <2>2 DEF Fifo!FifoNext
<1>5. CASE TxStays /\ Taken' = Len(rxLog')
  <2>1. RxQueue' = <<>>
    BY <1>5, QueueShrinks DEF QueuesAreLogs
  <2>2. Fifo!Discard
    BY <1>1, <1>5, <2>1 DEF Fifo!Discard, RxQueue, TxQueue
  <2> QED BY <2>2 DEF Fifo!FifoNext
<1>6. CASE RxStays /\ \E b \in Byte : Sent' = Sent /\ txLog' = Append(txLog, b)
  <2>1. PICK b \in Byte : Sent' = Sent /\ txLog' = Append(txLog, b)
    BY <1>6
  <2>4. /\ txLog \in Seq(Byte) /\ txLog' \in Seq(Byte) /\ Sent \in Nat /\ Sent' \in Nat
        /\ Len(txLog) - Sent \in 0 .. Size - 1 /\ Len(txLog') - Sent' \in 0 .. Size - 1
        /\ TxQueue = Rest(txLog, Sent) /\ TxQueue' = Rest(txLog', Sent')
    BY DEF QueuesAreLogs
  <2>2. Len(TxQueue) < Size - 1 /\ TxQueue' = Append(TxQueue, b)
    BY <2>1, <2>4, QueueGrows
  <2>3. Fifo!Queue(b)
    BY <1>1, <1>6, <2>2 DEF Fifo!Queue, RxQueue, TxQueue
  <2> QED BY <2>3 DEF Fifo!FifoNext
<1>7. CASE RxStays /\ txLog' = txLog /\ Sent' = Sent + 1
  <2>1. TxQueue # <<>> /\ TxQueue' = Tail(TxQueue)
    BY <1>7, QueueShrinks DEF QueuesAreLogs
  <2>2. Fifo!Send
    BY <1>1, <1>7, <2>1 DEF Fifo!Send, RxQueue, TxQueue
  <2> QED BY <2>2 DEF Fifo!FifoNext
<1>8. CASE Sketch
  <2>1. CASE ReadTail
    <3>1. pc = "read_tail" /\ pc' = "read_tail2" /\ rxLog' = rxLog /\ rxRead' = rxRead
          /\ UNCHANGED <<txLog, txWire, shift, udr>>
      BY <2>1 DEF ReadTail, Goto, txVars, lineVars
    <3>2. Taken' = Taken + 1 /\ TxStays
      BY <3>1 DEF Taken, Sent, IInv, TypeOK
    <3> QED BY <1>4, <3>1, <3>2
  <2>2. CASE ReadTail2
    <3>1. /\ pc = "read_tail2" /\ pc' = "loop" /\ rxLog' = rxLog /\ rxRead' = Append(rxRead, c)
          /\ UNCHANGED <<txLog, txWire, shift, udr>>
      BY <2>2 DEF ReadTail2, Return, txVars, lineVars
    <3>2. Len(rxRead') = Len(rxRead) + 1 /\ Len(rxRead) \in Nat
      BY <3>1 DEF IInv, TypeOK
    <3>3. RxStays /\ TxStays
      BY <3>1, <3>2 DEF Taken, Sent
    <3> QED BY <1>2, <3>3
  <2>3. CASE EndClear
    <3>1. /\ pc' = "loop" /\ rxLog' = rxRead /\ rxRead' = rxRead
          /\ UNCHANGED <<txLog, txWire, shift, udr>>
      BY <2>3 DEF EndClear, Return, txVars, lineVars
    <3>2. Taken' = Len(rxLog') /\ TxStays
      BY <3>1 DEF Taken, Sent, IInv, TypeOK
    <3> QED BY <1>5, <3>2
  <2>4. CASE WriteHead
    <3>1. /\ pc = "write_head" /\ pc' = "write_head2" /\ txLog' = Append(txLog, c)
          /\ UNCHANGED <<rxLog, rxRead, txWire, shift, udr>>
      BY <2>4 DEF WriteHead, Goto, rxVars, lineVars
    <3>2. c \in Byte
      BY <3>1 DEF IInv, TxRing
    <3>3. RxStays /\ Sent' = Sent
      BY <3>1 DEF Taken, Sent
    <3> QED BY <1>6, <3>1, <3>2, <3>3
  <2>5. CASE UNCHANGED <<rxLog, rxRead, txLog, txWire, shift, udr>>
             /\ pc # "read_tail2" /\ pc' # "read_tail2"
    <3>1. RxStays /\ TxStays
      BY <2>5 DEF Taken, Sent
    <3> QED BY <1>2, <3>1
  <2>6. CASE FlushSpin
    <3>1. RxStays /\ TxStays
      BY <2>6 DEF FlushSpin, vars, rxVars, txVars, lineVars, mainVars, Taken, Sent
    <3> QED BY <1>2, <3>1
  <2>7. CASE (\E withConfig \in BOOLEAN : Begin(withConfig))
             \/ (\E op \in Calls : LoadHead(op) \/ StartWaiting(op))
    BY <2>5, <2>7 DEF Begin, LoadHead, StartWaiting, Call, Return, Goto, rxVars, txVars, lineVars
  <2>8. CASE Available \/ CompareHead \/ Peek \/ ReadByte
    BY <2>5, <2>8 DEF Available, CompareHead, Peek, ReadByte, Return, Goto, rxVars, txVars, lineVars
  <2>9. CASE (\E b \in Byte : Write(b)) \/ LoadTail \/ WriteWait \/ WritePut
    BY <2>5, <2>9 DEF Write, LoadTail, WriteWait, WritePut, Call, Goto, rxVars, txVars, lineVars
  <2>10. CASE WriteHead2 \/ WriteUdrie \/ WriteTxc
    BY <2>5, <2>10 DEF WriteHead2, WriteUdrie, WriteTxc, Return, Goto, rxVars, txVars, lineVars
  <2>11. CASE FlushDone \/ EndWait \/ EndOff
    BY <2>5, <2>11 DEF FlushDone, EndWait, EndOff, Return, Goto, rxVars, txVars, lineVars
  <2> QED BY <1>8, <2>1, <2>2, <2>3, <2>4, <2>6, <2>7, <2>8, <2>9, <2>10, <2>11, Zenon DEF Sketch
<1>9. CASE RxIsr
  <2>1. UNCHANGED <<pc, rxRead, txLog, txWire, shift, udr>>
    BY <1>9 DEF RxIsr, RxStore, RxDrop, rxVars, txVars, lineVars, mainVars
  <2>2. Taken' = Taken /\ TxStays
    BY <2>1 DEF Taken, Sent
  <2>3. rxLog' = rxLog \/ \E b \in Byte : rxLog' = Append(rxLog, b)
    BY <1>9 DEF RxIsr, RxStore, RxDrop, rxVars
  <2> QED BY <1>2, <1>3, <2>2, <2>3
<1>10. CASE UdreSend
  <2>1. /\ udr = NoByte /\ udr' = txBuf[txTail] /\ txHead # txTail /\ Interrupt
        /\ UNCHANGED <<pc, i, txHead, rxLog, rxRead, txLog>> /\ txTail' = Succ(txTail)
    BY <1>10 DEF UdreSend, rxVars, mainVars
  <2>2. TxHeadNow # txTail /\ TxHeadNow' = TxHeadNow
    BY <2>1 DEF TxHeadNow, Interrupt, IInv, TxRing
  <2>4. /\ TxHeadNow \in Index /\ txTail \in Index
        /\ Dist(TxHeadNow, txTail) = Len(txLog) - Sent
        /\ Dist(TxHeadNow', txTail') = Len(txLog') - Sent'
    BY DEF IInv, TxRing, Holds
  <2>5. Dist(TxHeadNow, Succ(txTail)) = Dist(TxHeadNow, txTail) - 1
    BY <2>2, <2>4, TailStep
  <2>6. Sent' = Sent + 1
    BY <2>1, <2>2, <2>4, <2>5 DEF QueuesAreLogs
  <2>3. Sent' = Sent + 1 /\ RxStays
    BY <2>1, <2>6 DEF Taken
  <2> QED BY <1>7, <2>1, <2>3
<1>11. CASE UdreStop
  <2>1. UNCHANGED <<pc, rxLog, rxRead, txLog, txWire, shift, udr>>
    BY <1>11 DEF UdreStop, rxVars, txVars, lineVars, mainVars
  <2>2. RxStays /\ TxStays
    BY <2>1 DEF Taken, Sent
  <2> QED BY <1>2, <2>2
<1>12. CASE LoadShift \/ ShiftOut
  <2>1. /\ UNCHANGED <<pc, rxLog, rxRead, txLog>> /\ udr' = NoByte
        /\ \/ udr # NoByte /\ shift = NoByte /\ shift' = udr /\ txWire' = txWire
           \/ shift # NoByte /\ shift' = udr /\ txWire' = Append(txWire, shift)
    BY <1>12 DEF LoadShift, ShiftOut, rxVars, txVars, mainVars
  <2>2. /\ Len(txWire) \in Nat
        /\ shift # NoByte => Len(Append(txWire, shift)) = Len(txWire) + 1
    <3>1. txWire \in Seq(Byte) /\ shift \in Byte \cup {NoByte}
      BY DEF IInv, TypeOK
    <3>2. Len(txWire) \in Nat
      BY <3>1
    <3>3. ASSUME shift # NoByte PROVE Len(Append(txWire, shift)) = Len(txWire) + 1
      <4>1. shift \in Byte
        BY <3>1, <3>3
      <4> QED BY <3>1, <4>1
    <3> QED BY <3>2, <3>3
  <2>3. Sent' = Sent
    <3>1. CASE udr # NoByte /\ shift = NoByte /\ shift' = udr /\ txWire' = txWire
      BY <2>1, <2>2, <3>1 DEF Sent
    <3>2. CASE shift # NoByte /\ shift' = udr /\ txWire' = Append(txWire, shift)
      <4>1. Len(txWire') = Len(txWire) + 1
        BY <2>2, <3>2
      <4> QED BY <2>1, <2>2, <3>2, <4>1 DEF Sent
    <3> QED BY <2>1, <3>1, <3>2
  <2>4. RxStays /\ TxStays
    BY <2>1, <2>3 DEF Taken
  <2> QED BY <1>2, <2>4
<1>13. CASE UNCHANGED vars
  <2>1. RxStays /\ TxStays
    BY <1>13 DEF vars, rxVars, txVars, lineVars, mainVars, Taken, Sent
  <2> QED BY <1>2, <2>1
<1> QED BY <1>8, <1>9, <1>10, <1>11, <1>12, <1>13 DEF Next, Hardware

\* The two rings implement the two bounded queues of SerialFifo: whatever index is
\* torn, the port stores, delivers, queues and sends like a queue of Size - 1 bytes.
THEOREM Implementation == Spec => ImplementsFifo
<1>1. IInv /\ [Next]_vars /\ IInv' => [Fifo!FifoNext]_(Fifo!fifoVars)
  <2>1. IInv => QueuesAreLogs
    BY Queues
  <2>2. IInv' => QueuesAreLogs'
    BY <2>1, PTL
  <2> QED BY <2>1, <2>2, StepFifo
<1> QED BY <1>1, InitFifo, Invariance, PTL DEF Spec, ImplementsFifo, Fifo!FifoSpec

-----------------------------------------------------------------------------
(* Indices of one byte *)

\* An index below Base has no high half, so a transfer moves it at once.
LEMMA OneHalf ==
  ASSUME Size <= Base, NEW x \in Index, NEW y \in Index, NEW z \in Torn(x, y)
  PROVE  z = x \/ z = y
<1>1. ASSUME NEW a \in Index, NEW b \in Index PROVE Mix(a, b) = b
  <2>1. a \in Nat /\ b \in Nat /\ a < Base /\ b < Base
    BY <1>1, SizeAssumption, BaseAssumption DEF Index
  <2>2. a \div Base = 0 /\ b % Base = b
    BY <2>1, BaseAssumption
  <2>3. 0 * Base = 0
    BY BaseAssumption
  <2> QED BY <2>1, <2>2, <2>3 DEF Mix
<1> QED BY <1>1 DEF Torn

\* The tail in memory is the one before the byte being read, or the one after it.
WholeTail == pc = "read_tail2" => rxTail \in Index /\ (rxTail = i \/ Succ(rxTail) = i)

DropInv == WholeTail /\ DropOnlyWhenFull

LEMMA InitDrop == Init => DropInv
BY DEF Init, DropInv, WholeTail, DropOnlyWhenFull

\* A handler that finds no room finds Size - 1 bytes: it is the only one of its gap,
\* and while the sketch stores the tail the ring has a free cell already.
LEMMA DropStep ==
  ASSUME IInv, DropInv, RxDrop, Interrupt
  PROVE  DropOnlyWhenFull'
<1>1. rxHead \in Index /\ RxTailNow \in Index /\ Dist(rxHead, RxTailNow) = Len(rxLog) - Taken
  BY DEF IInv, RxRing, Holds
<1>2. Len(rxLog) \in Nat /\ Len(rxRead) \in Nat
  BY DEF IInv, TypeOK
<1>3. Succ(rxHead) = rxTail /\ lostAt' = lostAt \cup {Len(rxLog) - Len(rxRead)} /\ ~gap
  BY DEF RxDrop, RxFull, Interrupt
<1>4. CASE pc # "read_tail2"
  <2>1. RxTailNow = rxTail /\ Taken = Len(rxRead)
    BY <1>2, <1>4 DEF RxTailNow, Taken
  <2>2. Dist(rxHead, rxTail) = Size - 1
    BY <1>1, <1>3, <2>1, RingFacts
  <2> QED BY <1>1, <1>2, <1>3, <2>1, <2>2 DEF DropInv, DropOnlyWhenFull
<1>5. CASE pc = "read_tail2"
  <2>1. RxTailNow = i /\ Taken = Len(rxRead) + 1 /\ Dist(rxHead, i) < Size - 1
    BY <1>3, <1>5 DEF RxTailNow, Taken, IInv, RxRing
  <2>2. rxTail # i
    BY <1>1, <1>3, <2>1, RingFacts, SizeAssumption
  <2>3. rxTail \in Index /\ Succ(rxTail) = i
    BY <1>5, <2>2 DEF DropInv, WholeTail
  <2>4. Dist(rxHead, rxTail) = Size - 1 /\ rxHead # rxTail
    BY <1>1, <1>3, <2>3, RingFacts, SizeAssumption
  <2>5. Dist(rxHead, i) = Dist(rxHead, rxTail) - 1
    BY <1>1, <2>3, <2>4, TailStep
  <2>6. Len(rxLog) - Len(rxRead) = Size - 1
    BY <1>1, <1>2, <2>1, <2>4, <2>5, SizeAssumption
  <2> QED BY <1>3, <2>6 DEF DropInv, DropOnlyWhenFull
<1> QED BY <1>4, <1>5

LEMMA NextDrop ==
  ASSUME Size <= Base, IInv, DropInv, [Next]_vars
  PROVE  DropInv'
<1>1. CASE ReadTail
  <2>1. pc = "read_tail" /\ rxTail' \in Torn(rxTail, i) /\ i' = i /\ lostAt' = lostAt
    BY <1>1 DEF ReadTail
  <2>2. i = Succ(rxTail) /\ i \in Index /\ rxTail \in Index
    BY <2>1 DEF IInv, TypeOK, RxRing, Holds, RxTailNow
  <2>3. rxTail' = rxTail \/ rxTail' = i
    BY <2>1, <2>2, OneHalf
  <2> QED BY <2>1, <2>2, <2>3 DEF DropInv, WholeTail, DropOnlyWhenFull
<1>2. CASE Sketch /\ ~ReadTail
  <2>1. lostAt' = lostAt /\ (pc' # "read_tail2" \/ UNCHANGED <<pc, rxTail, i>>)
    <3>1. CASE \E withConfig \in BOOLEAN : Begin(withConfig)
      BY <3>1 DEF Begin, Return, rxVars
    <3>2. CASE \E op \in Calls : LoadHead(op) \/ StartWaiting(op)
      BY <3>2 DEF LoadHead, StartWaiting, Goto, rxVars
    <3>3. CASE Available \/ CompareHead \/ Peek \/ ReadByte \/ ReadTail2
      BY <3>3 DEF Available, CompareHead, Peek, ReadByte, ReadTail2, Return, Goto, rxVars
    <3>4. CASE (\E b \in Byte : Write(b)) \/ LoadTail \/ WriteWait \/ WritePut
      BY <3>4 DEF Write, LoadTail, WriteWait, WritePut, Goto, rxVars
    <3>5. CASE WriteHead \/ WriteHead2 \/ WriteUdrie \/ WriteTxc
      BY <3>5 DEF WriteHead, WriteHead2, WriteUdrie, WriteTxc, Return, Goto, rxVars
    <3>6. CASE FlushDone \/ EndWait \/ EndOff \/ EndClear
      BY <3>6 DEF FlushDone, EndWait, EndOff, EndClear, Return, Goto, rxVars
    <3>7. CASE FlushSpin
      BY <3>7 DEF FlushSpin, vars, rxVars, mainVars
    <3> QED BY <1>2, <3>1, <3>2, <3>3, <3>4, <3>5, <3>6, <3>7, Zenon DEF Sketch
  <2> QED BY <2>1 DEF DropInv, WholeTail, DropOnlyWhenFull
<1>3. CASE RxIsr
  <2>1. UNCHANGED <<pc, i, rxTail>> /\ Interrupt
    BY <1>3 DEF RxIsr, RxStore, RxDrop, rxVars, mainVars
  <2>2. lostAt' = lostAt \/ RxDrop
    BY <1>3 DEF RxIsr, RxStore, rxVars
  <2>3. DropOnlyWhenFull'
    BY <2>1, <2>2, DropStep DEF DropInv, DropOnlyWhenFull
  <2> QED BY <2>1, <2>3 DEF DropInv, WholeTail
<1>4. CASE UdreStop \/ UdreSend \/ LoadShift \/ ShiftOut \/ UNCHANGED vars
  <2>1. UNCHANGED <<pc, i, rxTail, lostAt>>
    BY <1>4 DEF UdreStop, UdreSend, LoadShift, ShiftOut, vars, rxVars, mainVars
  <2> QED BY <2>1 DEF DropInv, WholeTail, DropOnlyWhenFull
<1> QED BY <1>1, <1>2, <1>3, <1>4 DEF Next, Hardware

\* With indices of one byte (ebot_4) a received byte is dropped only when the
\* buffer holds Size - 1 bytes, as the comment in store_char() says.
THEOREM NoEarlyDrop == ASSUME Size <= Base PROVE Spec => []DropOnlyWhenFull
<1>1. IInv /\ DropInv /\ [Next]_vars => DropInv'
  BY NextDrop
<1>2. DropInv => DropOnlyWhenFull
  BY DEF DropInv
<1> QED BY <1>1, <1>2, InitDrop, Invariance, PTL DEF Spec

-----------------------------------------------------------------------------
(* What the calls see *)

\* A remainder is known from any quotient.
LEMMA Remainder ==
  ASSUME NEW N \in Nat, N > 0, NEW x \in Nat, NEW q \in Nat, NEW r \in Nat,
         x = N * q + r, r < N
  PROVE  x % N = r
OBVIOUS

\* The expression of available() is the distance from tail to head.
LEMMA CountIsDist ==
  ASSUME NEW h \in Index, NEW t \in Index
  PROVE  Count(h, t) = Dist(h, t)
<1>1. h \in Nat /\ t \in Nat /\ h < Size /\ t < Size /\ Size \in Nat
  BY SizeAssumption DEF Index
<1>2. CASE h >= t
  <2>1. Size + h - t = Size * 1 + (h - t) /\ h - t \in Nat /\ h - t < Size
    BY <1>1, <1>2
  <2>2. (Size + h - t) % Size = h - t
    BY <1>1, <2>1, Remainder
  <2> QED BY <1>2, <2>2 DEF Count, Dist
<1>3. CASE h < t
  <2>1. Size + h - t = Size * 0 + (Size + h - t) /\ Size + h - t \in Nat /\ Size + h - t < Size
    BY <1>1, <1>3
  <2>2. (Size + h - t) % Size = Size + h - t
    BY <1>1, <2>1, Remainder
  <2> QED BY <1>1, <1>3, <2>2 DEF Count, Dist
<1> QED BY <1>1, <1>2, <1>3

LEMMA DistNat ==
  ASSUME NEW h \in Index, NEW t \in Index
  PROVE  Dist(h, t) \in Nat /\ Dist(h, t) >= 0
<1>1. Dist(h, t) \in 0 .. Size - 1
  BY RingFacts
<1> QED BY <1>1, SizeAssumption

\* Between the two halves of a load the head is still the one seen, or a handler has
\* stored one byte in a free cell.
SeenInv ==
  /\ pc \in {"available", "read", "peek"} => seen \in Index
  /\ pc = "available" => \/ seen = rxHead
                         \/ gap /\ rxHead = Succ(seen) /\ Succ(seen) # rxTail

LEMMA InitSeen == Init => SeenInv
BY DEF Init, SeenInv

LEMMA NextSeen ==
  ASSUME IInv, SeenInv, [Next]_vars
  PROVE  SeenInv'
<1>1. CASE Sketch
  <2>1. \/ pc' \notin {"available", "read", "peek"}
        \/ pc' \in {"available", "read", "peek"} /\ seen' = rxHead /\ rxHead' = rxHead
        \/ UNCHANGED vars
    <3>1. CASE \E withConfig \in BOOLEAN : Begin(withConfig)
      BY <3>1 DEF Begin, Return
    <3>2. CASE \E op \in Calls : LoadHead(op)
      BY <3>2 DEF LoadHead, Goto, rxVars
    <3>3. CASE \E op \in Calls : StartWaiting(op)
      BY <3>3 DEF StartWaiting, Goto
    <3>4. CASE Available \/ CompareHead \/ Peek \/ ReadByte \/ ReadTail \/ ReadTail2
      BY <3>4 DEF Available, CompareHead, Peek, ReadByte, ReadTail, ReadTail2, Return, Goto
    <3>5. CASE (\E b \in Byte : Write(b)) \/ LoadTail \/ WriteWait \/ WritePut
      BY <3>5 DEF Write, LoadTail, WriteWait, WritePut, Goto
    <3>6. CASE WriteHead \/ WriteHead2 \/ WriteUdrie \/ WriteTxc
      BY <3>6 DEF WriteHead, WriteHead2, WriteUdrie, WriteTxc, Return, Goto
    <3>7. CASE FlushDone \/ FlushSpin \/ EndWait \/ EndOff \/ EndClear
      BY <3>7 DEF FlushDone, FlushSpin, EndWait, EndOff, EndClear, Return, Goto
    <3> QED BY <1>1, <3>1, <3>2, <3>3, <3>4, <3>5, <3>6, <3>7, Zenon DEF Sketch
  <2>2. rxHead \in Index
    BY DEF IInv, TypeOK
  <2>3. CASE UNCHANGED vars
    BY <2>3 DEF SeenInv, vars, rxVars, mainVars
  <2> QED BY <2>1, <2>2, <2>3 DEF SeenInv
<1>2. CASE RxIsr
  <2>1. UNCHANGED <<pc, seen, rxTail>> /\ ~gap /\ gap' = Adjacent
    BY <1>2 DEF RxIsr, Interrupt, RxStore, RxDrop, rxVars, mainVars
  <2>2. rxHead' = rxHead \/ (~RxFull /\ rxHead' = Succ(rxHead))
    BY <1>2 DEF RxIsr, RxStore, RxDrop, rxVars
  <2> QED BY <2>1, <2>2 DEF SeenInv, Adjacent, RxFull
<1>3. CASE UdreStop \/ UdreSend
  <2>1. UNCHANGED <<pc, seen, rxHead, rxTail>> /\ ~gap
    BY <1>3 DEF UdreStop, UdreSend, Interrupt, rxVars, mainVars
  <2> QED BY <2>1 DEF SeenInv
<1>4. CASE LoadShift \/ ShiftOut \/ UNCHANGED vars
  <2>1. UNCHANGED <<pc, seen, rxHead, rxTail, gap>>
    BY <1>4 DEF LoadShift, ShiftOut, vars, rxVars, mainVars
  <2> QED BY <2>1 DEF SeenInv
<1> QED BY <1>1, <1>2, <1>3, <1>4 DEF Next, Hardware

\* The three returns the property speaks of are these steps of the sketch.
LEMMA ReturnSteps ==
  ASSUME [Next]_vars, pc' = "loop"
  PROVE  /\ pc = "available" => Available
         /\ pc \in {"read", "peek"} => CompareHead
         /\ pc = "peek_c" => Peek
<1>1. CASE Sketch
  <2>1. CASE \E withConfig \in BOOLEAN : Begin(withConfig)
    BY <2>1 DEF Begin, Call
  <2>2. CASE \E op \in Calls : LoadHead(op) \/ StartWaiting(op)
    BY <2>2 DEF LoadHead, StartWaiting, Call
  <2>3. CASE ReadByte \/ ReadTail \/ ReadTail2 \/ (\E b \in Byte : Write(b)) \/ LoadTail
    BY <2>3 DEF ReadByte, ReadTail, ReadTail2, Write, Call, LoadTail
  <2>4. CASE WriteWait \/ WritePut \/ WriteHead \/ WriteHead2 \/ WriteUdrie \/ WriteTxc
    BY <2>4 DEF WriteWait, WritePut, WriteHead, WriteHead2, WriteUdrie, WriteTxc
  <2>5. CASE FlushDone \/ FlushSpin \/ EndWait \/ EndOff \/ EndClear
    BY <2>5 DEF FlushDone, FlushSpin, EndWait, EndOff, EndClear
  <2>6. CASE Available
    BY <2>6 DEF Available
  <2>7. CASE CompareHead
    BY <2>7 DEF CompareHead
  <2>8. CASE Peek
    BY <2>8 DEF Peek
  <2> QED BY <1>1, <2>1, <2>2, <2>3, <2>4, <2>5, <2>6, <2>7, <2>8, Zenon DEF Sketch
<1>2. CASE Hardware \/ UNCHANGED vars
  <2>1. pc' = pc
    BY <1>2 DEF Hardware, RxIsr, UdreStop, UdreSend, LoadShift, ShiftOut, vars, mainVars
  <2> QED BY <2>1
<1> QED BY <1>1, <1>2 DEF Next

\* With indices of one byte (ebot_4) the calls see what the receive handler has
\* stored: available() counts bytes that are there, read() and peek() find an empty
\* buffer only if it was, and peek() returns the byte that read() will.
THEOREM StoredSeen == ASSUME Size <= Base PROVE Spec => StoredIsSeen
<1>1. ASSUME IInv, SeenInv, [Next]_vars, pc = "available", pc' = "loop"
      PROVE  ret' \in Count(seen, rxTail) .. Count(rxHead, rxTail)
  <2>1. Available
    BY <1>1, ReturnSteps
  <2>2. PICK h \in Torn(seen, rxHead) : ret' = Count(h, rxTail)
    BY <2>1 DEF Available, Return
  <2>3. seen \in Index /\ rxHead \in Index /\ rxTail \in Index
    BY <1>1 DEF SeenInv, IInv, TypeOK, RxRing, Holds, RxTailNow
  <2>4. h = seen \/ h = rxHead
    BY <2>3, OneHalf
  <2>5. /\ Count(seen, rxTail) = Dist(seen, rxTail) /\ Count(rxHead, rxTail) = Dist(rxHead, rxTail)
        /\ Dist(seen, rxTail) \in Nat /\ Dist(rxHead, rxTail) \in Nat
    BY <2>3, CountIsDist, DistNat
  <2>6. seen = rxHead \/ Dist(rxHead, rxTail) = Dist(seen, rxTail) + 1
    BY <1>1, <2>3, HeadStep DEF SeenInv
  <2> QED BY <2>2, <2>4, <2>5, <2>6
<1>2. ASSUME IInv, SeenInv, [Next]_vars, pc \in {"read", "peek"}, pc' = "loop"
      PROVE  seen = rxTail
  <2>1. CompareHead
    BY <1>2, ReturnSteps
  <2>2. PICK h \in Torn(seen, rxHead) : h = rxTail
    BY <1>2, <2>1 DEF CompareHead, Goto
  <2>3. h = seen \/ h = rxHead
    BY <1>2, OneHalf DEF SeenInv, IInv, TypeOK
  <2>4. seen = rxHead \/ rxHead # rxTail
    BY <1>2 DEF IInv, RxRing
  <2> QED BY <2>2, <2>3, <2>4
<1>3. ASSUME IInv, [Next]_vars, pc = "peek_c", pc' = "loop"
      PROVE  ret' = rxLog[Len(rxRead) + 1]
  <2>1. ret' = rxBuf[rxTail]
    BY <1>3, ReturnSteps DEF Peek, Return
  <2>2. /\ rxHead \in Index /\ rxTail \in Index /\ rxHead # rxTail
        /\ \A k \in 1 .. Dist(rxHead, rxTail) : rxBuf[Slot(rxTail, k - 1)] = rxLog[Taken + k]
    BY <1>3 DEF IInv, RxRing, Holds, RxTailNow
  <2>3. Dist(rxHead, rxTail) \in Nat /\ Dist(rxHead, rxTail) > 0 /\ Slot(rxTail, 0) = rxTail
    BY <2>2, RingFacts, DistNat, TailStep
  <2>4. rxBuf[Slot(rxTail, 1 - 1)] = rxLog[Taken + 1]
    BY <2>2, <2>3
  <2>5. Taken = Len(rxRead)
    BY <1>3 DEF Taken, IInv, TypeOK
  <2> QED BY <2>1, <2>3, <2>4, <2>5
<1>4. /\ IInv /\ SeenInv /\ [Next]_vars => SeenInv'
      /\ IInv /\ SeenInv /\ [Next]_vars =>
           [/\ pc = "available" /\ pc' = "loop"
                => ret' \in Count(seen, rxTail) .. Count(rxHead, rxTail)
            /\ pc \in {"read", "peek"} /\ pc' = "loop" => seen = rxTail
            /\ pc = "peek_c" /\ pc' = "loop" => ret' = rxLog[Len(rxRead) + 1]]_vars
  BY <1>1, <1>2, <1>3, NextSeen
<1> QED BY <1>4, InitSeen, Invariance, PTL DEF Spec, StoredIsSeen

-----------------------------------------------------------------------------
(* How long the waiting calls wait *)

\* While the bytes of the ring are on their way the transmit interrupt is on, unless
\* write() is about to turn it on; TXC stands for an idle transmitter, unless write()
\* is about to clear it.
DrainInv ==
  /\ pc = "end_wait" => seen \in Index /\ (seen = txTail \/ seen # txHead)
  /\ pc = "end_off" => txHead = txTail
  /\ ~open => pc \in {"loop", "end_clear"} /\ txHead = txTail
  /\ txHead # txTail => udrie \/ pc \in {"write_head2", "write_udrie"}
  /\ txc => \/ Len(txWire) = Len(txLog)
            \/ pc \in {"write_head2", "write_udrie", "write_txc"}

LEMMA InitDrain == Init => DrainInv
BY DEF Init, DrainInv

LEMMA DrainSketch ==
  ASSUME Size <= Base, ~Reopen, IInv, DrainInv, Sketch
  PROVE  DrainInv'
<1> USE DEF DrainInv, rxVars, txVars, lineVars
<1>1. CASE \E withConfig \in BOOLEAN : Begin(withConfig)
  BY <1>1 DEF Begin, Call, Return
<1>2. CASE \E op \in Calls : LoadHead(op)
  BY <1>2 DEF LoadHead, Call, Goto
<1>3. CASE \E op \in Calls : StartWaiting(op)
  BY <1>3 DEF StartWaiting, Call, Goto
<1>4. CASE Available \/ CompareHead \/ Peek \/ ReadByte
  BY <1>4 DEF Available, CompareHead, Peek, ReadByte, Return, Goto
<1>5. CASE ReadTail \/ ReadTail2
  BY <1>5 DEF ReadTail, ReadTail2, Return, Goto
<1>6. CASE \E b \in Byte : Write(b)
  BY <1>6 DEF Write, Call, Goto
<1>7. CASE LoadTail
  BY <1>7 DEF LoadTail, Goto, IInv, TypeOK
<1>8. CASE WriteWait \/ WritePut
  BY <1>8 DEF WriteWait, WritePut, Goto
<1>9. CASE WriteHead \/ WriteHead2 \/ WriteUdrie \/ WriteTxc
  BY <1>9 DEF WriteHead, WriteHead2, WriteUdrie, WriteTxc, Return, Goto
<1>10. CASE FlushDone
  BY <1>10 DEF FlushDone, Return
<1>11. CASE FlushSpin
  BY <1>11 DEF FlushSpin, vars, mainVars
<1>12. CASE EndWait
  <2>1. PICK t \in Torn(seen, txTail) : pc' = IF txHead # t THEN "end" ELSE "end_off"
    BY <1>12 DEF EndWait, Goto
  <2>2. t = seen \/ t = txTail
    BY <1>12, OneHalf DEF EndWait, IInv, TypeOK
  <2>3. /\ pc = "end_wait"
        /\ UNCHANGED <<txHead, txTail, txLog, txWire, txc, open, udrie>>
    BY <1>12 DEF EndWait
  <2> QED BY <2>1, <2>2, <2>3
<1>13. CASE EndOff \/ EndClear
  BY <1>13 DEF EndOff, EndClear, Return, Goto
<1> QED BY <1>1, <1>2, <1>3, <1>4, <1>5, <1>6, <1>7, <1>8, <1>9, <1>10, <1>11, <1>12, <1>13,
           Zenon DEF Sketch

LEMMA DrainHardware ==
  ASSUME PromptIsr, IInv, DrainInv, Hardware \/ UNCHANGED vars
  PROVE  DrainInv'
<1>1. CASE RxIsr \/ UNCHANGED vars
  <2>1. UNCHANGED <<pc, seen, txHead, txTail, txLog, txWire, txc, open, udrie>>
    BY <1>1 DEF RxIsr, vars, txVars, lineVars, mainVars
  <2> QED BY <2>1 DEF DrainInv
<1>2. CASE UdreStop
  BY <1>2 DEF UdreStop, DrainInv, txVars, lineVars, mainVars
<1>3. CASE UdreSend
  BY <1>3 DEF UdreSend, DrainInv, mainVars
<1>4. CASE LoadShift
  BY <1>4 DEF LoadShift, DrainInv, txVars, mainVars
<1>5. CASE ShiftOut
  <2>1. /\ UNCHANGED <<pc, seen, txHead, txTail, txLog, open, udrie>>
        /\ txWire' = Append(txWire, shift) /\ txc' = (txc \/ udr = NoByte)
        /\ shift # NoByte /\ (udr = NoByte => ~udrie)
    BY <1>5 DEF ShiftOut, txVars, mainVars
  <2>2. Len(txWire) \in Nat /\ Len(txLog) \in Nat /\ Len(txWire') = Len(txWire) + 1
    BY <2>1 DEF IInv, TypeOK
  <2>3. CASE pc \in {"write_head2", "write_udrie", "write_txc"}
    BY <2>1, <2>3 DEF DrainInv
  <2>4. CASE pc \notin {"write_head2", "write_udrie", "write_txc"}
    <3>1. /\ txHead \in Index /\ txTail \in Index
          /\ Dist(txHead, txTail) = Len(txLog) - Sent
      BY <2>4 DEF IInv, TxRing, Holds, TxHeadNow
    <3>2. /\ Dist(txHead, txTail) \in Nat /\ Dist(txHead, txTail) >= 0
          /\ Dist(txHead, txTail) = 0 <=> txHead = txTail
      BY <3>1, RingFacts, DistNat
    <3>3. Sent = Len(txWire) + 1 + (IF udr = NoByte THEN 0 ELSE 1)
      BY <2>1 DEF Sent
    <3>4. ~txc
      BY <2>2, <2>4, <3>1, <3>2, <3>3 DEF DrainInv
    <3>5. udr = NoByte => Len(txWire') = Len(txLog)
      BY <2>1, <2>2, <2>4, <3>1, <3>2, <3>3 DEF DrainInv
    <3> QED BY <2>1, <2>4, <3>4, <3>5 DEF DrainInv
  <2> QED BY <2>3, <2>4
<1> QED BY <1>1, <1>2, <1>3, <1>4, <1>5 DEF Hardware

\* The steps with which flush() returns and end() stops waiting.
LEMMA WaitSteps ==
  ASSUME [Next]_vars
  PROVE  /\ pc = "flush" /\ pc' = "loop" => FlushDone
         /\ pc = "end_wait" /\ pc' = "end_off" => EndWait
<1>1. CASE Sketch
  <2>1. CASE \E withConfig \in BOOLEAN : Begin(withConfig)
    BY <2>1 DEF Begin, Call
  <2>2. CASE \E op \in Calls : LoadHead(op) \/ StartWaiting(op)
    BY <2>2 DEF LoadHead, StartWaiting, Call
  <2>3. CASE Available \/ CompareHead \/ Peek \/ ReadByte \/ ReadTail \/ ReadTail2
    BY <2>3 DEF Available, CompareHead, Peek, ReadByte, ReadTail, ReadTail2
  <2>4. CASE (\E b \in Byte : Write(b)) \/ LoadTail \/ WriteWait \/ WritePut
    BY <2>4 DEF Write, Call, LoadTail, WriteWait, WritePut
  <2>5. CASE WriteHead \/ WriteHead2 \/ WriteUdrie \/ WriteTxc \/ EndOff \/ EndClear
    BY <2>5 DEF WriteHead, WriteHead2, WriteUdrie, WriteTxc, EndOff, EndClear
  <2>6. CASE FlushDone
    BY <2>6 DEF FlushDone
  <2>7. CASE FlushSpin
    BY <2>7 DEF FlushSpin, vars, mainVars
  <2>8. CASE EndWait
    BY <2>8 DEF EndWait
  <2> QED BY <1>1, <2>1, <2>2, <2>3, <2>4, <2>5, <2>6, <2>7, <2>8, Zenon DEF Sketch
<1>2. CASE Hardware \/ UNCHANGED vars
  <2>1. pc' = pc
    BY <1>2 DEF Hardware, RxIsr, UdreStop, UdreSend, LoadShift, ShiftOut, vars, mainVars
  <2> QED BY <2>1
<1> QED BY <1>1, <1>2 DEF Next

\* With indices of one byte, a UDRE interrupt served within a byte time and no begin()
\* on an open port, flush() returns only after the last byte has left the transmitter
\* and end() stops it only when the buffer is empty.
THEOREM WaitsLongEnough ==
  ASSUME Size <= Base, PromptIsr, ~Reopen
  PROVE  Spec => Drained
<1>1. IInv /\ DrainInv /\ [Next]_vars => DrainInv'
  BY DrainSketch, DrainHardware DEF Next
<1>2. ASSUME IInv, DrainInv, [Next]_vars
      PROVE  /\ pc = "flush" /\ pc' = "loop" /\ transmitting => Len(txWire) = Len(txLog)
             /\ pc = "end_wait" /\ pc' = "end_off" => txHead = txTail
  <2>1. ASSUME pc = "flush", pc' = "loop", transmitting PROVE Len(txWire) = Len(txLog)
    BY <1>2, <2>1, WaitSteps DEF FlushDone, DrainInv
  <2>2. ASSUME pc = "end_wait", pc' = "end_off" PROVE txHead = txTail
    <3>1. PICK t \in Torn(seen, txTail) : pc' = IF txHead # t THEN "end" ELSE "end_off"
      BY <1>2, <2>2, WaitSteps DEF EndWait, Goto
    <3>2. t = seen \/ t = txTail
      BY <1>2, <2>2, OneHalf DEF DrainInv, IInv, TypeOK
    <3> QED BY <1>2, <2>2, <3>1, <3>2 DEF DrainInv
  <2> QED BY <2>1, <2>2
<1>3. IInv /\ DrainInv /\ [Next]_vars =>
        [/\ pc = "flush" /\ pc' = "loop" /\ transmitting => Len(txWire) = Len(txLog)
         /\ pc = "end_wait" /\ pc' = "end_off" => txHead = txTail]_vars
  BY <1>2
<1> QED BY <1>1, <1>3, InitDrain, Invariance, PTL DEF Spec, Drained
=============================================================================
