----------------------------- MODULE WireProofs -----------------------------
(***************************************************************************)
(* For every buffer length.  Of the library over any driver: what          *)
(* endTransmission() sends is what write() accepted unless a request came  *)
(* in between, and read() returns the bytes that are due, wherever the     *)
(* handler's services fall.  And of its composition with module Twi: that  *)
(* driver gives the library what it assumes of one, so that the            *)
(* composition is one of its implementations, and bytes get from the       *)
(* sketch to the slave and back unchanged.                                 *)
(***************************************************************************)
EXTENDS WireBus, SequenceTheorems, TLAPS

\* A word is a sequence of bytes that fits the buffer, ...
LEMMA WordFacts == ASSUME NEW d \in Words
                   PROVE  d \in Seq(Byte) /\ Len(d) \in 0 .. Size
<1>1. PICK n \in 0 .. Size : d \in [1 .. n -> Byte]
  BY DEF Words, Word
<1>2. n \in Nat
  BY WireAssumption
<1> QED BY <1>1, <1>2

LEMMA EmptyWord == <<>> \in Words
<1>1. 0 \in 0 .. Size /\ <<>> \in [1 .. 0 -> Byte]
  BY WireAssumption
<1> QED BY <1>1 DEF Words, Word

\* ... copying it leaves a buffer whose first cells are the word.
LEMMA CopyFacts == ASSUME NEW buffer \in [Cell -> Byte], NEW d \in Seq(Byte), Len(d) \in 0 .. Size
                   PROVE  /\ Copy(buffer, d) \in [Cell -> Byte]
                          /\ \A k \in 1 .. Len(d) : Copy(buffer, d)[k - 1] = d[k]
BY WireAssumption DEF Copy, Cell

\* What is left of a sequence behind its first i elements.
LEMMA RestFacts == ASSUME NEW d \in Seq(Byte), NEW i \in 0 .. Len(d)
                   PROVE  LET r == SubSeq(d, i + 1, Len(d))
                          IN  /\ r \in Seq(Byte) /\ Len(r) = Len(d) - i
                              /\ \A k \in 1 .. Len(d) - i : r[k] = d[i + k]
<1> DEFINE r == SubSeq(d, i + 1, Len(d))
<1>1. /\ Len(d) \in Nat /\ i \in Nat /\ i <= Len(d)
      /\ \A k \in i + 1 .. Len(d) : d[k] \in Byte
  OBVIOUS
<1>2. /\ r \in Seq(Byte)
      /\ Len(r) = IF i + 1 <= Len(d) THEN Len(d) - (i + 1) + 1 ELSE 0
      /\ \A k \in 1 .. Len(d) - (i + 1) + 1 : r[k] = d[i + 1 + k - 1]
  BY <1>1, SubSeqProperties
<1> HIDE DEF r
<1>3. Len(r) = Len(d) - i /\ \A k \in 1 .. Len(d) - i : r[k] = d[i + k]
  BY <1>1, <1>2
<1> QED BY <1>2, <1>3 DEF r
-----------------------------------------------------------------------------
(* The transmission *)

\* The two copies of the length agree, and what the steps of write() and
\* endTransmission() have in hand belongs to a transmission.
TxShape ==
  /\ txIndex = txLength
  /\ pc \in {"store", "advance", "ending", "ended"} => transmitting
  /\ pc = "store" => txIndex <= Size
  /\ pc = "ending" => count <= Size
  /\ pc = "copying" => count <= Len(reply)

\* Without a request the buffer holds the bytes accepted, and the one write() has
\* stored behind them.
TxHolds ==
  transmitting /\ ~killed =>
    /\ Len(written) = txLength
    /\ txLength <= Size
    /\ \A k \in 1 .. txLength : txBuffer[k - 1] = written[k]
    /\ pc = "store" => txLength < Size
    /\ pc = "advance" => index = txIndex /\ index < Size /\ txBuffer[index] = byte
    /\ pc = "ending" => count = txLength

RxShape == rxIndex <= rxLength

TxInv == TypeOK /\ TxShape /\ TxHolds /\ RxShape

LEMMA InitTx == Init => TxInv
BY WireAssumption, EmptyWord DEF Init, TxInv, TypeOK, TxShape, TxHolds, RxShape, Cell

LEMMA NextTx == ASSUME TxInv, [Next]_vars PROVE TxInv'
<1> USE WireAssumption
<1> USE DEF TxInv, TxShape, TxHolds, RxShape, TypeOK, rxVars, txVars, writeVars, driverVars
<1>1. CASE BeginTransmission
  <2>1. TypeOK'
    <3>1. <<>> \in Seq(Byte) /\ 0 \in 0 .. Size
      BY EmptySeq
    <3>2. transmitting' \in BOOLEAN /\ killed' \in BOOLEAN
      BY <1>1, Zenon DEF BeginTransmission
    <3> QED BY <1>1, <3>1, <3>2 DEF BeginTransmission
  <2>2. TxHolds'
    BY <1>1, EmptySeq DEF BeginTransmission
  <2> QED BY <1>1, <2>1, <2>2 DEF BeginTransmission
<1>2. ASSUME NEW b \in Byte, Write(b) PROVE TxInv'
  BY <1>2 DEF Write
<1>3. CASE WriteStore
  <2>1. txIndex \in 0 .. Size /\ txBuffer' \in [Cell -> Byte]
    BY <1>3 DEF WriteStore
  <2>2. ASSUME transmitting, ~killed
        PROVE  /\ txBuffer'[txIndex] = byte
               /\ \A k \in 1 .. txLength : txBuffer'[k - 1] = written[k]
    BY <1>3, <2>2 DEF WriteStore, Cell
  <2> QED BY <1>3, <2>1, <2>2 DEF WriteStore
<1>4. CASE WriteAdvance
  <2>1. /\ written' \in Seq(Byte) /\ Len(written') = Len(written) + 1
        /\ \A k \in 1 .. Len(written) : written'[k] = written[k]
        /\ written'[Len(written) + 1] = byte
    BY <1>4 DEF WriteAdvance
  <2>2. ASSUME transmitting, ~killed
        PROVE  \A k \in 1 .. txLength' : txBuffer'[k - 1] = written'[k]
    BY <1>4, <2>1, <2>2 DEF WriteAdvance
  <2> QED BY <1>4, <2>1, <2>2 DEF WriteAdvance
<1>5. CASE EndTransmission
  BY <1>5 DEF EndTransmission
<1>6. CASE DriverTakes
  <2>1. Cells(txBuffer, count) \in Seq(Byte)
    BY <1>6 DEF DriverTakes, Cells, Cell
  <2> QED BY <1>6, <2>1 DEF DriverTakes
<1>7. CASE TransmissionOver
  <2>1. TypeOK'
    <3>1. <<>> \in Seq(Byte) /\ 0 \in 0 .. Size
      BY EmptySeq
    <3>2. transmitting' \in BOOLEAN /\ killed' \in BOOLEAN
      BY <1>7, Zenon DEF TransmissionOver
    <3> QED BY <1>7, <3>1, <3>2 DEF TransmissionOver
  <2> QED BY <1>7, <2>1 DEF TransmissionOver
<1>8. CASE RequestFrom
  BY <1>8 DEF RequestFrom
<1>9. ASSUME NEW d \in Words, DriverGives(d) PROVE TxInv'
  <2>1. d \in Seq(Byte) /\ Len(d) \in 0 .. Size
    BY WordFacts
  <2> QED BY <1>9, <2>1 DEF DriverGives
<1>10. CASE CopyByte
  <2>1. reply \in Seq(Byte) /\ Len(reply) \in 0 .. Size
    BY WordFacts
  <2>2. count \in 0 .. Size - 1 /\ count + 1 \in 1 .. Len(reply)
    BY <1>10, <2>1 DEF CopyByte
  <2>3. reply[count + 1] \in Byte
    BY <2>1, <2>2
  <2>4. rxBuffer' \in [Cell -> Byte]
    BY <1>10, <2>3 DEF CopyByte
  <2> QED BY <1>10, <2>1, <2>2, <2>4 DEF CopyByte
<1>11. CASE ResetIterator
  <2>1. reply \in Seq(Byte) /\ Len(reply) \in 0 .. Size /\ <<>> \in Words
    BY WordFacts, EmptyWord
  <2> QED BY <1>11, <2>1 DEF ResetIterator
<1>12. CASE Read
  BY <1>12 DEF Read
<1>13. ASSUME NEW d \in Words, OnReceive(d) PROVE TxInv'
  <2>1. d \in Seq(Byte) /\ Len(d) \in 0 .. Size /\ Copy(rxBuffer, d) \in [Cell -> Byte]
    BY WordFacts, CopyFacts
  <2>2. CASE rxIndex < rxLength
    BY <1>13, <2>2 DEF OnReceive
  <2>3. CASE ~(rxIndex < rxLength)
    <3>1. /\ rxBuffer' = Copy(rxBuffer, d) /\ rxLength' = Len(d) /\ rxIndex' \in 0 .. Len(d)
          /\ due' = SubSeq(d, rxIndex' + 1, Len(d))
          /\ UNCHANGED <<pc, txVars, writeVars, driverVars>>
      BY <1>13, <2>3 DEF OnReceive, Deliver
    <3>2. due' \in Seq(Byte)
      BY <2>1, <3>1, RestFacts
    <3>3. rxIndex' \in 0 .. Size /\ rxLength' \in 0 .. Size /\ rxIndex' <= rxLength'
      BY <2>1, <3>1
    <3>4. TypeOK'
      BY <2>1, <3>1, <3>2, <3>3
    <3> QED BY <3>1, <3>3, <3>4
  <2> QED BY <2>2, <2>3
<1>14. ASSUME NEW r \in Words, OnRequest(r) PROVE TxInv'
  <2> DEFINE n == IF transmitting THEN Len(r) ELSE 0
  <2>1. r \in Seq(Byte) /\ n \in 0 .. Size /\ n <= Len(r)
    BY WordFacts
  <2>2. SubSeq(r, 1, n) \in Seq(Byte) /\ Len(SubSeq(r, 1, n)) = n
    BY <2>1
  <2>3. Copy(txBuffer, SubSeq(r, 1, n)) \in [Cell -> Byte]
    BY <2>1, <2>2, CopyFacts
  <2>4. /\ txIndex' = n /\ txLength' = n /\ killed' = TRUE
        /\ txBuffer' = Copy(txBuffer, SubSeq(r, 1, n))
        /\ UNCHANGED <<pc, transmitting, rxVars, writeVars, driverVars>>
    BY <1>14 DEF OnRequest
  <2> HIDE DEF n
  <2> QED BY <2>1, <2>3, <2>4
<1>15. CASE UNCHANGED vars
  BY <1>15 DEF vars
<1> QED BY <1>1, <1>2, <1>3, <1>4, <1>5, <1>6, <1>7, <1>8, <1>9, <1>10, <1>11, <1>12,
           <1>13, <1>14, <1>15 DEF Next, Sketch

\* The buffers, indices and lengths stay in range: no service of the handler makes
\* write() or read() leave its buffer.
THEOREM TypeCorrect == Spec => []TypeOK
<1>1. TxInv => TypeOK
  BY DEF TxInv
<1> QED BY <1>1, InitTx, NextTx, PTL DEF Spec

LEMMA TakesWritten == ASSUME TxInv, DriverTakes, ~killed PROVE sent' = written
<1>1. /\ written \in Seq(Byte) /\ Len(written) = count /\ count \in Nat
      /\ \A k \in 1 .. count : txBuffer[k - 1] = written[k]
      /\ sent' = [k \in 1 .. count |-> txBuffer[k - 1]]
  BY DEF TxInv, TxShape, TxHolds, TypeOK, DriverTakes, Cells
<1> QED BY <1>1

\* What the driver takes in endTransmission() is what write() accepted, byte for
\* byte, unless a request came since beginTransmission().
THEOREM Intact == Spec => TransmissionIntact
<1>1. ASSUME TxInv, [Next]_vars
      PROVE  [DriverTakes /\ ~killed => sent' = written]_vars
  BY <1>1, TakesWritten
<1> QED BY <1>1, InitTx, NextTx, PTL DEF Spec, TransmissionIntact
-----------------------------------------------------------------------------
(* The reception *)

\* The bytes due are the unread part of the buffer, and between the two halves
\* of requestFrom() what the driver has just given, of which the first count bytes
\* are in the buffer.
RxHolds ==
  IF pc = "copying"
  THEN /\ due = reply
       /\ \A k \in 1 .. count : rxBuffer[k - 1] = reply[k]
  ELSE /\ Len(due) = rxLength - rxIndex
       /\ \A k \in 1 .. Len(due) : rxBuffer[rxIndex + k - 1] = due[k]

RxInv == TxInv /\ RxHolds

LEMMA InitRx == Init => RxInv
BY InitTx, WireAssumption DEF Init, RxInv, RxHolds

\* Here no reception ends between a reading and the return of requestFrom().
LEMMA NextRx == ASSUME QuickReset, RxInv, [Next]_vars PROVE RxInv'
<1>0. TxInv /\ TxInv' /\ RxHolds
  BY NextTx DEF RxInv
<1> SUFFICES RxHolds'
  BY <1>0 DEF RxInv
<1>1. ASSUME UNCHANGED <<rxBuffer, rxIndex, rxLength, due>>, pc # "copying", pc' # "copying"
      PROVE  RxHolds'
  BY <1>0, <1>1 DEF RxHolds
<1>2. ASSUME NEW d \in Words, DriverGives(d) PROVE RxHolds'
  BY <1>2 DEF DriverGives, RxHolds
<1>3. CASE CopyByte
  <2>1. /\ reply \in Seq(Byte) /\ rxBuffer \in [Cell -> Byte] /\ count \in 0 .. Size - 1
    <3>1. reply \in Seq(Byte) /\ Len(reply) \in 0 .. Size
      BY <1>0, WordFacts DEF TxInv, TypeOK
    <3> QED BY <1>0, <1>3, <3>1, WireAssumption DEF CopyByte, TxInv, TypeOK
  <2>2. /\ pc = "copying" /\ pc' = pc /\ count' = count + 1 /\ due' = reply /\ reply' = reply
        /\ rxBuffer' = [rxBuffer EXCEPT ![count] = reply[count + 1]]
        /\ \A k \in 1 .. count : rxBuffer[k - 1] = reply[k]
    BY <1>0, <1>3 DEF CopyByte, RxHolds
  <2>3. ASSUME NEW k \in 1 .. count + 1 PROVE rxBuffer'[k - 1] = reply[k]
    <3>1. k - 1 \in Cell /\ count \in Cell
      BY <2>1, WireAssumption DEF Cell
    <3>2. CASE k = count + 1
      BY <2>1, <2>2, <3>1, <3>2
    <3>3. CASE k # count + 1
      <4>1. k \in 1 .. count /\ k - 1 # count
        BY <2>1, <3>3
      <4> QED BY <2>1, <2>2, <3>1, <4>1
    <3> QED BY <3>2, <3>3
  <2> QED BY <2>2, <2>3 DEF RxHolds
<1>4. CASE ResetIterator
  <2>1. /\ pc' # "copying" /\ rxIndex' = 0 /\ rxLength' = count /\ due' = due /\ rxBuffer' = rxBuffer
        /\ Len(due) = count /\ \A k \in 1 .. count : rxBuffer[k - 1] = due[k]
    BY <1>0, <1>4 DEF ResetIterator, RxHolds
  <2>2. count \in Nat
    BY <1>0 DEF TxInv, TypeOK
  <2>3. Len(due') = rxLength' - rxIndex'
    BY <2>1, <2>2
  <2>4. \A k \in 1 .. Len(due') : rxBuffer'[rxIndex' + k - 1] = due'[k]
    BY <2>1, <2>2
  <2> QED BY <2>1, <2>3, <2>4 DEF RxHolds
<1>5. CASE Read
  <2>1. /\ due \in Seq(Byte) /\ Len(due) = rxLength - rxIndex /\ Len(due) > 0
        /\ rxIndex \in Nat /\ rxLength \in Nat /\ pc = "idle" /\ pc' = "idle"
        /\ rxIndex' = rxIndex + 1 /\ rxLength' = rxLength /\ rxBuffer' = rxBuffer
        /\ due' = SubSeq(due, 2, Len(due))
        /\ \A k \in 1 .. Len(due) : rxBuffer[rxIndex + k - 1] = due[k]
    BY <1>0, <1>5 DEF Read, RxHolds, TxInv, TypeOK
  <2>2. Len(due') = Len(due) - 1 /\ \A k \in 1 .. Len(due) - 1 : due'[k] = due[k + 1]
    BY <2>1
  <2>3. ASSUME NEW k \in 1 .. Len(due')
        PROVE  rxBuffer'[rxIndex' + k - 1] = due'[k]
    <3>0. Len(due) \in Nat /\ k \in 1 .. Len(due) - 1
      BY <2>1, <2>2
    <3>1. k + 1 \in 1 .. Len(due) /\ rxIndex' + k - 1 = rxIndex + (k + 1) - 1
      BY ONLY <2>1, <3>0
    <3> QED BY <2>1, <2>2, <3>1
  <2> QED BY <2>1, <2>2, <2>3 DEF RxHolds
<1>6. ASSUME NEW d \in Words, OnReceive(d) PROVE RxHolds'
  <2>1. CASE rxIndex < rxLength
    BY <1>0, <1>1, <1>6, <2>1 DEF OnReceive, rxVars
  <2>2. CASE ~(rxIndex < rxLength)
    <3>1. /\ d \in Seq(Byte) /\ Len(d) \in 0 .. Size /\ pc # "copying" /\ pc' = pc
          /\ rxBuffer' = Copy(rxBuffer, d) /\ rxLength' = Len(d) /\ rxIndex' \in 0 .. Len(d)
          /\ due' = SubSeq(d, rxIndex' + 1, Len(d))
      BY <1>6, <2>2, WordFacts DEF OnReceive, Deliver
    <3>2. \A k \in 1 .. Len(d) : rxBuffer'[k - 1] = d[k]
      <4>1. rxBuffer \in [Cell -> Byte]
        BY <1>0 DEF TxInv, TypeOK
      <4> QED BY <3>1, <4>1, CopyFacts
    <3>3. Len(due') = Len(d) - rxIndex' /\ \A k \in 1 .. Len(due') : due'[k] = d[rxIndex' + k]
      BY <3>1, RestFacts
    <3>4. ASSUME NEW k \in 1 .. Len(due')
          PROVE  rxBuffer'[rxIndex' + k - 1] = due'[k]
      <4>0. Len(d) \in Nat /\ rxIndex' \in 0 .. Len(d) /\ k \in 1 .. Len(d) - rxIndex'
        BY <3>1, <3>3
      <4>1. rxIndex' + k \in 1 .. Len(d)
        <5>1. \A n \in Nat : \A j \in 0 .. n : \A m \in 1 .. n - j : j + m \in 1 .. n
          OBVIOUS
        <5> QED BY <4>0, <5>1
      <4>2. rxBuffer'[(rxIndex' + k) - 1] = d[rxIndex' + k]
        BY <3>2, <4>1
      <4>3. due'[k] = d[rxIndex' + k] /\ rxIndex' + k - 1 = (rxIndex' + k) - 1
        BY <3>3, <4>0
      <4> QED BY <4>2, <4>3
    <3> QED BY <3>1, <3>3, <3>4 DEF RxHolds
  <2> QED BY <2>1, <2>2
<1>7. CASE UNCHANGED vars
  BY <1>0, <1>7 DEF vars, rxVars, driverVars, RxHolds
<1>8. CASE \/ BeginTransmission \/ WriteStore \/ WriteAdvance
           \/ EndTransmission \/ DriverTakes \/ TransmissionOver \/ RequestFrom
  BY <1>1, <1>8 DEF BeginTransmission, WriteStore, WriteAdvance, EndTransmission,
     DriverTakes, TransmissionOver, RequestFrom, rxVars
<1>9. ASSUME NEW b \in Byte, Write(b) PROVE RxHolds'
  BY <1>1, <1>9 DEF Write, rxVars
<1>10. ASSUME NEW r \in Words, OnRequest(r) PROVE RxHolds'
  BY <1>0, <1>10 DEF OnRequest, rxVars, driverVars, RxHolds
<1> QED BY <1>2, <1>3, <1>4, <1>5, <1>6, <1>7, <1>8, <1>9, <1>10 DEF Next, Sketch

\* read() returns exactly the bytes due, in order, and nothing but a reading or a
\* new requestFrom() takes unread bytes away.
THEOREM ReadsDue == ASSUME QuickReset PROVE Spec => ReadReturnsDue
<1>1. ASSUME RxInv, [Next]_vars
      PROVE  [/\ Read => due # <<>> /\ rxBuffer[rxIndex] = due[1]
              /\ rxIndex < rxLength => \/ due' = due \/ pc = "requesting"
                                       \/ Read /\ due' = SubSeq(due, 2, Len(due))]_vars
  <2>1. ASSUME Read PROVE due # <<>> /\ rxBuffer[rxIndex] = due[1]
    BY <1>1, <2>1 DEF RxInv, TxInv, TypeOK, RxHolds, Read
  <2>2. ASSUME rxIndex < rxLength, UNCHANGED vars \/ Next
        PROVE  \/ due' = due \/ pc = "requesting"
               \/ Read /\ due' = SubSeq(due, 2, Len(due))
    BY <2>2 DEF Next, Sketch, BeginTransmission, Write, WriteStore, WriteAdvance,
       EndTransmission, DriverTakes, TransmissionOver, RequestFrom, DriverGives,
       CopyByte, ResetIterator, Read, OnReceive, OnRequest, vars, rxVars
  <2> QED BY <1>1, <2>1, <2>2
<1>2. Init => RxInv
  BY InitRx
<1>3. RxInv /\ [Next]_vars => RxInv'
  BY NextRx
<1> QED BY <1>1, <1>2, <1>3, PTL DEF Spec, ReadReturnsDue

-----------------------------------------------------------------------------
(* The library over the driver *)

F == INSTANCE TwiProofs WITH
       txBuffer <- twi_txBuffer, txIndex <- twi_txIndex, txLength <- twi_txLength,
       rxBuffer <- twi_rxBuffer, rxIndex <- twi_rxIndex, pc <- twi_pc, sent <- replied,
       OtherMaster <- TRUE, BusErrors <- TRUE, Prompt <- TRUE, LongCallback <- FALSE,
       ReadLengths <- Quantities, WriteLengths <- 0 .. Size,
       Roles <- {}, MaxHeard <- 0, MaxListened <- 0, role <- "caller"

\* The steps of the driver are those the lemmas of TwiProofs speak of.
LEMMA SketchSteps ==
  /\ T!SeeReady \/ T!Claim \/ T!StartRead \/ T!WriteDone \/ T!ReadDone => F!SketchStep
  /\ \A d \in Seq(Byte) : Len(d) <= Size /\ T!CallWriteTo(d) => F!SketchStep
  /\ \A d \in Seq(Byte) : Len(d) = Len(data) /\ T!StartWriteOf(d) => F!SketchStep /\ F!StartWriteOf(d)
  /\ \A n \in Quantities : T!CallReadFrom(n) => F!SketchStep
<1> USE DEF F!SketchStep, T!NotSlave, F!NotSlave, T!DriverOnly, F!DriverOnly, T!KeepMaster, F!KeepMaster,
        T!masterVars, F!masterVars, T!slaveTxVars, F!slaveTxVars, T!slaveRxVars, F!slaveRxVars,
        T!sketchVars, F!sketchVars, T!busVars, F!busVars, T!slaveHistory, F!slaveHistory,
        T!Begin, F!Begin, T!Return, F!Return, T!Copy, F!Copy, T!Cell, F!Cell
<1>1. T!SeeReady => F!SeeReady
  BY DEF T!SeeReady, F!SeeReady
<1>2. T!Claim => F!Claim
  BY DEF T!Claim, F!Claim
<1>3. T!StartRead => F!StartRead
  BY DEF T!StartRead, F!StartRead
<1>4. T!WriteDone => F!WriteDone
  BY DEF T!WriteDone, F!WriteDone
<1>5. T!ReadDone => F!ReadDone
  BY DEF T!ReadDone, F!ReadDone
<1>6. ASSUME NEW d \in Seq(Byte), T!CallWriteTo(d) PROVE F!CallWriteTo(d)
  BY <1>6 DEF T!CallWriteTo, F!CallWriteTo
<1>7. ASSUME NEW d \in Seq(Byte), T!StartWriteOf(d) PROVE F!StartWriteOf(d)
  BY <1>7 DEF T!StartWriteOf, F!StartWriteOf
<1>8. ASSUME NEW n \in Quantities, T!CallReadFrom(n) PROVE F!CallReadFrom(n)
  BY <1>8 DEF T!CallReadFrom, F!CallReadFrom
<1> QED BY <1>1, <1>2, <1>3, <1>4, <1>5, <1>6, <1>7, <1>8

LEMMA BusSteps ==
  /\ T!MasterIsr => F!MasterIsr
  /\ T!BusError => F!BusError
  /\ T!SrSlaAck \/ T!StDataAck \/ T!StEnd \/ T!SrStop => F!SlaveStep
  /\ T!SrStop => F!SrStop
  /\ \A b \in Byte : T!SrDataAck(b) => F!SlaveStep
  /\ \A r \in Seq(Byte) : T!StSlaAck(r) => F!SlaveStep
<1> USE DEF F!SlaveStep, F!SlaveIsr, T!MasterIsr, F!MasterIsr, T!NotSlave, F!NotSlave,
        T!MasterOnly, F!MasterOnly, T!SlaveOnly, F!SlaveOnly, T!Addressed, F!Addressed,
        T!masterVars, F!masterVars, T!slaveTxVars, F!slaveTxVars, T!slaveRxVars, F!slaveRxVars,
        T!sketchVars, F!sketchVars, T!slaveHistory, F!slaveHistory,
        T!Reply, F!Reply, T!ToReady, F!ToReady, T!Cell, F!Cell
<1>1. T!Start => F!Start
  BY DEF T!Start, F!Start
<1>2. T!MtAck => F!MtAck
  BY DEF T!MtAck, F!MtAck
<1>3. T!MtNack => F!MtNack
  BY DEF T!MtNack, F!MtNack
<1>4. T!ArbLost => F!ArbLost
  BY DEF T!ArbLost, F!ArbLost
<1>5. T!MrSlaAck => F!MrSlaAck
  BY DEF T!MrSlaAck, F!MrSlaAck
<1>6. T!MrSlaNack => F!MrSlaNack
  BY DEF T!MrSlaNack, F!MrSlaNack
<1>7. ASSUME NEW b \in Byte PROVE T!MrDataAck(b) => F!MrDataAck(b)
  BY DEF T!MrDataAck, F!MrDataAck
<1>8. ASSUME NEW b \in Byte PROVE T!MrDataNack(b) => F!MrDataNack(b)
  BY DEF T!MrDataNack, F!MrDataNack
<1>9. T!BusError => F!BusError
  BY DEF T!BusError, F!BusError
<1>10. T!SrSlaAck => F!SrSlaAck
  BY DEF T!SrSlaAck, F!SrSlaAck
<1>11. T!StDataAck => F!StDataAck
  BY DEF T!StDataAck, F!StDataAck, T!SendByte, F!SendByte
<1>12. T!StEnd => F!StEnd
  BY DEF T!StEnd, F!StEnd
<1>13. T!SrStop => F!SrStop
  BY DEF T!SrStop, F!SrStop
<1>14. ASSUME NEW b \in Byte PROVE T!SrDataAck(b) => F!SrDataAck(b)
  BY DEF T!SrDataAck, F!SrDataAck
<1>15. ASSUME NEW r \in Seq(Byte) PROVE T!StSlaAck(r) => F!StSlaAck(r)
  BY DEF T!StSlaAck, F!StSlaAck, T!Answer, F!Answer, T!Refused, F!Refused, T!Copy, F!Copy,
     T!SendByte, F!SendByte
<1>16. T!MasterIsr => F!MasterIsr
  BY <1>1, <1>2, <1>3, <1>4, <1>5, <1>6, <1>7, <1>8
<1> QED BY <1>9, <1>10, <1>11, <1>12, <1>13, <1>14, <1>15, <1>16
-----------------------------------------------------------------------------

\* The sketch is in the driver while endTransmission() or requestFrom() waits for
\* it, and what the driver sends is what it took from the library's buffer.
InStep ==
  /\ pc = "ending" => twi_pc \in {"w_ready", "w_claim", "w_start"} /\ Len(data) = count
  /\ pc = "ended" => \/ twi_pc = "idle"
                     \/ /\ twi_pc = "w_wait" /\ F!Sends(sent)
                        /\ ~killed => sent = written
  /\ pc = "requesting" => twi_pc \in {"r_ready", "r_claim", "r_start", "r_wait"}
  /\ pc \notin {"ending", "ended", "requesting"} => twi_pc = "idle"

DriverInv == /\ F!Master /\ F!RxTrue /\ F!TxTrue
             /\ twi_state = "READY" => hw = "free"

BusInv == /\ TxInv /\ DriverInv
          /\ IF composed THEN InStep ELSE twi_pc = "idle"

LEMMA DriverConstants ==
  /\ Zero \in Byte /\ Size \in Nat /\ Size > 0 /\ Values \in Nat /\ Values > Size
  /\ Quantities \subseteq Nat /\ 0 .. Size \subseteq Nat /\ 0 \notin Quantities
BY WireAssumption, BoundAssumption

LEMMA InitBus == BusInit => BusInv
<1> SUFFICES ASSUME BusInit PROVE BusInv
  OBVIOUS
<1> USE DriverConstants DEF BusInit, T!TwiInit
<1>1. TxInv /\ InStep
  BY InitTx DEF Init, InStep, T!TwiInit
<1>2. F!MasterTypes
  BY EmptySeq DEF F!MasterTypes, T!Cell, F!Cell
<1>3. F!Signals /\ F!Aligned /\ F!Blamed /\ F!Reads
  BY DEF F!Signals, F!Aligned, F!Blamed, F!Reads, F!Waiting
<1>4. F!RxTrue /\ F!TxTrue
  BY EmptySeq DEF F!RxTrue, F!TxTrue, T!Cell, F!Cell
<1> QED BY <1>1, <1>2, <1>3, <1>4 DEF BusInv, DriverInv, F!Master

LEMMA CellsFacts ==
  ASSUME NEW buffer \in [Cell -> Byte], NEW n \in 0 .. Size
  PROVE  Cells(buffer, n) \in Seq(Byte) /\ Len(Cells(buffer, n)) = n /\ Cells(buffer, n) \in Words
<1>1. Cells(buffer, n) \in [1 .. n -> Byte]
  BY WireAssumption DEF Cells, Cell
<1>2. n \in Nat
  BY WireAssumption
<1> QED BY <1>1, <1>2 DEF Words, Word

LEMMA WordIsSeq == ASSUME NEW r \in Words PROVE r \in Seq(Byte) /\ <<>> \in Seq(Byte)
BY WordFacts, EmptySeq

\* A step leaves the driver alone or is one of its steps.
LEMMA DriverSteps ==
  ASSUME BusInv, BusNext
  PROVE  UNCHANGED driverAndBus \/ F!SketchStep \/ F!MasterIsr \/ F!BusError \/ F!SlaveStep
<1>1. CASE ~composed
  BY <1>1 DEF BusNext
<1>2. ASSUME composed, CallsWriteTo
      PROVE  UNCHANGED driverAndBus \/ F!SketchStep
  <2>1. CASE txLength > Size
    BY <1>2, <2>1 DEF CallsWriteTo
  <2>2. CASE ~(txLength > Size)
    <3>1. txLength \in 0 .. Size /\ txBuffer \in [Cell -> Byte]
      BY <2>2, WireAssumption DEF BusInv, TxInv, TypeOK
    <3>2. PICK d \in Seq(Byte) : d = Cells(txBuffer, txLength) /\ Len(d) <= Size
      BY <3>1, CellsFacts, WireAssumption
    <3> QED BY <1>2, <2>2, <3>2, SketchSteps DEF CallsWriteTo
  <2> QED BY <2>1, <2>2
<1>3. ASSUME CallsReadFrom PROVE F!SketchStep
  BY <1>3, SketchSteps DEF CallsReadFrom
<1>4. ASSUME NEW r \in Words, Replies(r) PROVE F!SlaveStep
  <2>1. PICK a \in Seq(Byte) : a = IF transmitting THEN <<>> ELSE r
    BY WordIsSeq
  <2> QED BY <1>4, <2>1, BusSteps DEF Replies
<1>5. ASSUME composed, CopiesTxBuffer PROVE F!SketchStep
  <2>1. pc = "ending" /\ count \in 0 .. Size /\ Len(data) = count /\ txBuffer \in [Cell -> Byte]
    BY <1>5, WireAssumption DEF CopiesTxBuffer, DriverTakes, BusInv, InStep, TxInv, TxShape, TypeOK
  <2>2. PICK d \in Seq(Byte) : d = Cells(txBuffer, count) /\ Len(d) = Len(data)
    BY <2>1, CellsFacts
  <2> QED BY <1>5, <2>2, SketchSteps DEF CopiesTxBuffer
<1>6. ASSUME ReturnsCode \/ ReturnsBytes PROVE UNCHANGED driverAndBus \/ F!SketchStep
  BY <1>6, SketchSteps DEF ReturnsCode, ReturnsBytes
<1>7. ASSUME Receives \/ T!SrSlaAck PROVE F!SlaveStep
  BY <1>7, BusSteps DEF Receives
<1>8. ASSUME Inside PROVE F!SketchStep \/ F!MasterIsr \/ F!BusError \/ F!SlaveStep
  BY <1>8, SketchSteps, BusSteps DEF Inside
<1> QED BY <1>1, <1>2, <1>3, <1>4, <1>5, <1>6, <1>7, <1>8 DEF BusNext, Begins, GoesOn, Local

\* What the driver hands to the library is a word.
LEMMA DriverWords ==
  ASSUME BusInv PROVE T!BytesRead \in Words /\ (T!SrStop => T!Received \in Words)
<1>1. T!BytesRead \in Words
  <2>1. PICK n \in 0 .. Size : n = IF masterIndex < length THEN masterIndex ELSE length
    BY DriverConstants DEF BusInv, DriverInv, F!Master, F!MasterTypes
  <2>2. masterBuffer \in [Cell -> Byte]
    BY DEF BusInv, DriverInv, F!Master, F!MasterTypes, F!Cell, Cell
  <2>3. Cells(masterBuffer, n) \in Words
    BY <2>2, CellsFacts
  <2> QED BY <2>1, <2>3 DEF T!BytesRead, T!Cells, Cells
<1>2. T!Received \in Words
  <2>1. twi_rxBuffer \in [Cell -> Byte] /\ twi_rxIndex \in 0 .. Size
    BY DEF BusInv, DriverInv, F!RxTrue, F!Cell, Cell
  <2> QED BY <2>1, CellsFacts DEF T!Received, T!Cells, Cells
<1> QED BY <1>1, <1>2

\* Every step is one of the library on its abstract driver, or none of its.
LEMMA WireStep == ASSUME BusInv, [BusNext]_allVars PROVE [Next]_vars
<1>1. ASSUME NEW r \in Words, Replies(r) PROVE Next
  BY <1>1 DEF Replies, Next
<1>2. ASSUME Receives PROVE Next
  BY <1>2, DriverWords DEF Receives, Next
<1>3. ASSUME ReturnsBytes PROVE Next
  BY <1>3, DriverWords DEF ReturnsBytes, Next, Sketch
<1>4. ASSUME CallsWriteTo \/ CallsReadFrom \/ CopiesTxBuffer \/ ReturnsCode PROVE Next
  BY <1>4 DEF CallsWriteTo, CallsReadFrom, CopiesTxBuffer, ReturnsCode, Next, Sketch
<1>5. ASSUME Local PROVE Next
  BY <1>5 DEF Local, Next, Sketch
<1>6. ASSUME Inside PROVE UNCHANGED vars
  BY <1>6 DEF Inside
<1> QED BY <1>1, <1>2, <1>3, <1>4, <1>5, <1>6 DEF BusNext, Begins, GoesOn, allVars

LEMMA NextDriver == ASSUME BusInv, [BusNext]_allVars PROVE DriverInv'
<1> USE DriverConstants
<1>1. CASE UNCHANGED driverAndBus
  BY <1>1 DEF driverAndBus, BusInv, DriverInv, F!Master, F!MasterTypes, F!Signals, F!Aligned, F!Blamed,
     F!Reads, F!RxTrue, F!TxTrue, F!Replying, F!Waiting, F!Holds
<1>2. CASE F!SketchStep \/ F!MasterIsr \/ F!BusError \/ F!SlaveStep
  <2>1. F!SlaveStep => F!Intervenes
    BY F!SlaveIntervenes DEF BusInv, DriverInv
  <2>2. F!Master'
    <3>1. CASE F!SketchStep
      BY <3>1, F!MasterSketch DEF BusInv, DriverInv
    <3>2. CASE F!MasterIsr \/ F!BusError
      BY <3>2, F!MasterIsrKeeps DEF BusInv, DriverInv
    <3>3. CASE F!SlaveStep
      BY <2>1, <3>3, F!SlaveKeeps DEF BusInv, DriverInv
    <3> QED BY <1>2, <3>1, <3>2, <3>3
  <2>3. F!RxTrue'
    BY <1>2, F!RxKeeps DEF BusInv, DriverInv
  <2>4. F!TxTrue'
    BY <1>2, F!TxKeeps DEF BusInv, DriverInv
  <2>5. twi_state' = "READY" => hw' = "free"
    <3>1. F!SrStop => F!SrStop /\ hw' = "free"
      BY DEF F!SrStop
    <3> QED BY <1>2, <3>1, F!ReadyIsFree DEF BusInv, DriverInv, F!SlaveStep
  <2> QED BY <2>2, <2>3, <2>4, <2>5 DEF DriverInv
<1> QED BY <1>1, <1>2, DriverSteps DEF allVars

LEMMA NextInStep == ASSUME BusInv, [BusNext]_allVars, composed PROVE InStep'
<1> USE DEF InStep, driverVars, txVars, writeVars
<1>1. TxInv /\ InStep /\ F!Master
  BY DEF BusInv, DriverInv
<1>2. ASSUME UNCHANGED driverAndBus, UNCHANGED <<pc, count, sent, written, killed>>
      PROVE  InStep'
  BY <1>1, <1>2 DEF driverAndBus, F!Sends, F!Holds
<1>3. ASSUME Local PROVE InStep'
  <2>1. pc \notin {"ending", "ended", "requesting"} /\ pc' \notin {"ending", "ended", "requesting"}
        /\ twi_pc' = twi_pc
    BY <1>3 DEF Local, BeginTransmission, Write, WriteStore, WriteAdvance, CopyByte,
       ResetIterator, Read, driverAndBus
  <2> QED BY <1>1, <2>1
<1>4. ASSUME CallsWriteTo PROVE InStep'
  <2>1. CASE txLength > Size
    BY <1>1, <1>4, <2>1 DEF CallsWriteTo, EndTransmission, driverAndBus
  <2>2. CASE ~(txLength > Size)
    <3>1. txLength \in 0 .. Size /\ txBuffer \in [Cell -> Byte]
      BY <1>1, <2>2, WireAssumption DEF TxInv, TypeOK
    <3>2. Len(Cells(txBuffer, txLength)) = txLength
      BY <3>1, CellsFacts
    <3>3. pc' = "ending" /\ count' = txLength
      BY <1>4, <2>2 DEF CallsWriteTo, EndTransmission
    <3>4. twi_pc' = "w_ready" /\ data' = Cells(txBuffer, txLength)
      BY <1>4, <2>2 DEF CallsWriteTo, T!CallWriteTo
    <3> QED BY <3>2, <3>3, <3>4
  <2> QED BY <2>1, <2>2
<1>5. ASSUME CallsReadFrom PROVE InStep'
  BY <1>5 DEF CallsReadFrom, RequestFrom, T!CallReadFrom
<1>6. ASSUME CopiesTxBuffer PROVE InStep'
  <2>1. pc = "ending" /\ count \in 0 .. Size /\ Len(data) = count /\ txBuffer \in [Cell -> Byte]
    BY <1>1, <1>6, WireAssumption DEF CopiesTxBuffer, DriverTakes, TxInv, TxShape, TypeOK
  <2>2. PICK d \in Seq(Byte) : d = Cells(txBuffer, count) /\ Len(d) = Len(data)
    BY <2>1, CellsFacts
  <2>3. sent' = d /\ pc' = "ended" /\ killed' = killed /\ written' = written
    BY <1>6, <2>2 DEF CopiesTxBuffer, DriverTakes
  <2>4. F!StartWriteOf(d)
    BY <1>6, <2>2, SketchSteps DEF CopiesTxBuffer
  <2>5. F!Sends(d)'
    BY <1>1, <2>2, <2>4, F!SendsBegins, DriverConstants
  <2>6. F!Sends(sent)'
    BY <2>3, <2>5 DEF F!Sends
  <2>7. twi_pc' = "w_wait"
    BY <2>4 DEF F!StartWriteOf
  <2>8. ~killed => sent' = written
    BY <1>1, <1>6, TakesWritten DEF CopiesTxBuffer
  <2> QED BY <2>3, <2>6, <2>7, <2>8
<1>7. ASSUME ReturnsCode PROVE InStep'
  BY <1>1, <1>7 DEF ReturnsCode, TransmissionOver, T!WriteDone, T!Return, driverAndBus
<1>8. ASSUME ReturnsBytes PROVE InStep'
  BY <1>1, <1>8 DEF ReturnsBytes, DriverGives, T!ReadDone, T!Return
<1>9. ASSUME F!SlaveStep \/ F!MasterIsr \/ F!BusError,
             UNCHANGED <<pc, count, sent, written>>, killed => killed'
      PROVE  InStep'
  <2>1. twi_pc' = twi_pc /\ data' = data /\ (F!SlaveStep => F!Intervenes)
    <3>1. ASSUME F!SlaveStep PROVE F!Intervenes
      BY <3>1, F!SlaveIntervenes, DriverConstants DEF BusInv, DriverInv
    <3> QED BY <1>9, <3>1 DEF F!Intervenes, F!sketchVars, F!MasterIsr, F!MasterOnly, F!Start, F!MtAck,
         F!MtNack, F!ArbLost, F!MrSlaAck, F!MrDataAck, F!MrDataNack, F!MrSlaNack, F!BusError
  <2>2. PICK d : d = sent
    OBVIOUS
  <2>3. F!Sends(sent) => F!Sends(sent)'
    <3>1. F!Sends(d) => F!Sends(d)'
      BY <1>1, <1>9, <2>1, F!SendsKeeps, DriverConstants
    <3> QED BY <1>9, <2>2, <3>1 DEF F!Sends
  <2> QED BY <1>1, <1>9, <2>1, <2>3
<1>10. ASSUME NEW r \in Words, Replies(r) PROVE InStep'
  <2>1. UNCHANGED <<pc, count, sent, written>> /\ killed'
    BY <1>10 DEF Replies, OnRequest
  <2>2. PICK a \in Seq(Byte) : a = IF transmitting THEN <<>> ELSE r
    BY WordIsSeq
  <2> QED BY <1>9, <1>10, <2>1, <2>2, BusSteps DEF Replies
<1>11. ASSUME Receives PROVE InStep'
  BY <1>9, <1>11, BusSteps DEF Receives, OnReceive
<1>12. ASSUME Inside PROVE InStep'
  <2>1. UNCHANGED <<pc, count, sent, written, killed>>
    BY <1>12 DEF Inside, vars
  <2>2. CASE T!SeeReady \/ T!Claim \/ T!StartRead
    BY <1>1, <2>1, <2>2 DEF T!SeeReady, T!Claim, T!StartRead, T!Begin
  <2>3. CASE T!MasterIsr \/ T!StDataAck \/ T!StEnd \/ T!BusError \/ \E b \in Byte : T!SrDataAck(b)
    BY <1>9, <2>1, <2>3, BusSteps
  <2> QED BY <1>12, <2>2, <2>3 DEF Inside
<1>13. ASSUME T!SrSlaAck, UNCHANGED vars PROVE InStep'
  BY <1>9, <1>13, BusSteps DEF vars
<1>14. CASE UNCHANGED allVars
  BY <1>2, <1>14 DEF allVars, vars
<1> QED BY <1>3, <1>4, <1>5, <1>6, <1>7, <1>8, <1>10, <1>11, <1>12, <1>13, <1>14
        DEF BusNext, Begins, GoesOn

LEMMA NextBus == ASSUME BusInv, [BusNext]_allVars PROVE BusInv'
<1>1. TxInv'
  BY WireStep, NextTx DEF BusInv
<1>2. DriverInv'
  BY NextDriver
<1>3. composed' = composed
  BY DEF BusNext, allVars
<1>4. CASE composed
  BY <1>1, <1>2, <1>3, <1>4, NextInStep DEF BusInv
<1>5. CASE ~composed
  <2>1. twi_pc' = twi_pc
    BY <1>5 DEF BusNext, allVars, driverAndBus
  <2> QED BY <1>1, <1>2, <1>3, <1>5, <2>1 DEF BusInv
<1> QED BY <1>4, <1>5

\* Over the driver of Twi the library behaves as it does over a driver of which
\* only the calls are known: the driver takes the bytes from txBuffer once, and
\* what it returns and delivers fits the buffers.
THEOREM BusImplementsWire == BusSpec => Spec
<1>1. BusInit => Init
  BY DEF BusInit
<1> QED BY <1>1, InitBus, NextBus, WireStep, PTL DEF BusSpec, Spec

\* So its promises hold over the driver of Twi as well.
THEOREM BusKeepsWire ==
  ASSUME QuickReset PROVE BusSpec => []TypeOK /\ TransmissionIntact /\ ReadReturnsDue
BY BusImplementsWire, TypeCorrect, Intact, ReadsDue, PTL

\* A result of 0 means that the slave acknowledged what was taken, which is what
\* write() accepted unless a request came; requestFrom() leaves what came.
THEOREM BytesCross == BusSpec => AcrossTheBus
<1>1. ASSUME BusInv
      PROVE  [/\ ReturnsCode /\ twi_pc = "w_wait" /\ T!Code = 0 /\ fate # "ADDRESSED" =>
                   acked = sent /\ (~killed => acked = written)
              /\ ReturnsBytes => due' = got]_allVars
  <2>1. ASSUME ReturnsCode, twi_pc = "w_wait", T!Code = 0, fate # "ADDRESSED"
        PROVE  acked = sent /\ (~killed => acked = written)
    <3>1. pc = "ended" /\ twi_state # "MTX"
      BY <2>1 DEF ReturnsCode, TransmissionOver, T!WriteDone
    <3>2. F!Sends(sent) /\ (~killed => sent = written)
      BY <1>1, <2>1, <3>1 DEF BusInv, InStep
    <3>3. PICK d : d = sent
      OBVIOUS
    <3>4. F!Code = 0
      BY <2>1 DEF T!Code, F!Code
    <3>5. acked = d
      BY <1>1, <2>1, <3>1, <3>2, <3>3, <3>4, F!CodeFacts, DriverConstants DEF BusInv, DriverInv
    <3> QED BY <3>2, <3>3, <3>5
  <2>2. ASSUME ReturnsBytes PROVE due' = got
    <3>1. twi_pc = "r_wait" /\ due' = T!BytesRead
      BY <2>2 DEF ReturnsBytes, T!ReadDone, DriverGives
    <3>2. F!BytesRead = got
      BY <1>1, <3>1, F!BytesFacts, DriverConstants DEF BusInv, DriverInv
    <3> QED BY <3>1, <3>2 DEF T!BytesRead, F!BytesRead, T!Cells, F!Cells
  <2> QED BY <2>1, <2>2
<1> QED BY <1>1, InitBus, NextBus, PTL DEF BusSpec, AcrossTheBus
=============================================================================
