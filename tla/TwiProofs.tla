------------------------------ MODULE TwiProofs ------------------------------
(***************************************************************************)
(* For every buffer length, every set of lengths and however long another  *)
(* master's sessions are: what the driver promises of both directions.     *)
(***************************************************************************)
EXTENDS TwiBus, SequenceTheorems, TLAPS

-----------------------------------------------------------------------------
(* What every step of the driver keeps, whoever calls it *)

Errors == {"MT_SLA_NACK", "MT_DATA_NACK", "ARB_LOST", "BUS_ERROR"}

\* The first n elements of s are in the first n cells of the buffer.
Holds(buffer, s, n) == \A k \in 1 .. n : buffer[k - 1] = s[k]

\* The variables of the master and of the sketch have their types; the length of
\* a buffer bounds what is in it.
MasterTypes ==
  /\ twi_state \in {"READY", "MRX", "MTX", "SRX", "STX"}
  /\ twi_error \in {"none"} \cup Errors
  /\ masterBuffer \in [Cell -> Byte] /\ masterIndex \in 0 .. Size
  /\ masterLength \in 0 .. Size
  /\ pc \in {"idle", "w_ready", "r_ready", "w_claim", "r_claim",
             "w_start", "r_start", "w_wait", "r_wait"}
  /\ data \in Seq(Byte) /\ Len(data) \in 0 .. Size /\ length \in 0 .. Size
  /\ pc \in {"r_ready", "r_claim", "r_start", "r_wait"} => length > 0
  /\ hw \in {"free", "mt_sla", "mt_data", "mr_sla", "mr_data", "sr", "st"}
  /\ tdata \in Byte
  /\ acked \in Seq(Byte) /\ got \in Seq(Byte)
  /\ fate \in {"none", "done", "ADDRESSED", "MR_SLA_NACK"} \cup Errors

Signals == twsta \in BOOLEAN /\ twea \in BOOLEAN

Waiting == pc \in {"w_wait", "r_wait"}

\* The sketch, the driver's state and the bus agree on whose transaction is on:
\* from the ready check to the START request nothing is, a transaction of ours is
\* requested or on the bus, or it has ended and has a fate.
Aligned ==
  /\ pc \in {"w_claim", "r_claim"} => twi_state = "READY"
  /\ pc = "w_start" => twi_state = "MTX"
  /\ pc = "r_start" => twi_state = "MRX"
  /\ pc \in {"w_claim", "r_claim", "w_start", "r_start"} => hw = "free" /\ ~twsta
  /\ twi_state = "MTX" => \/ pc = "w_start"
                          \/ /\ pc = "w_wait" /\ slarw = "W" /\ fate = "none"
                             /\ IF twsta THEN hw = "free" ELSE hw \in {"mt_sla", "mt_data"}
  /\ twi_state = "MRX" => \/ pc = "r_start"
                          \/ /\ pc = "r_wait" /\ slarw = "R" /\ fate = "none"
                             /\ IF twsta THEN hw = "free" ELSE hw \in {"mr_sla", "mr_data"}
  /\ twi_state \notin {"MTX", "MRX"} => /\ ~twsta /\ hw \in {"free", "sr", "st"}
                                        /\ Waiting => fate # "none"

\* The error kept is the fate of the transaction.
Blamed == /\ Waiting => IF twi_error = "none" THEN fate \notin Errors ELSE fate = twi_error
          /\ pc = "w_wait" => fate # "MR_SLA_NACK"

\* The bytes acknowledged are the first of d, the byte on the wire is the next.
Sends(d) ==
  pc = "w_wait" =>
    /\ d \in Seq(Byte) /\ masterLength = Len(d) /\ Holds(masterBuffer, d, Len(d))
    /\ Len(acked) <= Len(d) /\ \A k \in 1 .. Len(acked) : acked[k] = d[k]
    /\ twsta \/ hw = "mt_sla" => masterIndex = 0 /\ acked = <<>>
    /\ hw = "mt_data" => /\ masterIndex = Len(acked) + 1 /\ masterIndex <= Len(d)
                         /\ tdata = d[masterIndex]
    /\ fate = "done" => acked = d

\* The bytes that came are the first in the buffer; the coming one will be
\* answered with NACK exactly if it is the last.
Reads ==
  pc = "r_wait" =>
    /\ masterLength + 1 = length
    /\ Len(got) = masterIndex /\ masterIndex <= length
    /\ Holds(masterBuffer, got, masterIndex)
    /\ twsta \/ hw = "mr_sla" => masterIndex = 0
    /\ hw = "mr_data" => masterIndex <= masterLength /\ (twea <=> masterIndex < masterLength)
    /\ fate = "done" => masterIndex = length

Master == MasterTypes /\ Signals /\ Aligned /\ Blamed /\ Reads

\* What the other master has sent is in the buffer as far as it fits.
RxTrue ==
  /\ rxBuffer \in [Cell -> Byte] /\ rxIndex \in 0 .. Size /\ heard \in Seq(Byte)
  /\ hw = "sr" => /\ rxIndex = IF Len(heard) < Size THEN Len(heard) ELSE Size
                  /\ Holds(rxBuffer, heard, rxIndex)

\* The reply is in the buffer and its first bytes went out, ...
Replying ==
  /\ txLength = Len(answer) /\ txIndex = Len(sent) /\ txIndex \in 1 .. txLength
  /\ Holds(txBuffer, answer, txLength)
  /\ \A k \in 1 .. txIndex : sent[k] = answer[k]
  /\ twea => txIndex < txLength

\* ... unless the address of the session was missed.
TxTrue ==
  /\ txBuffer \in [Cell -> Byte] /\ txLength \in 0 .. Size /\ txIndex \in 0 .. Values - 1
  /\ answer \in Seq(Byte) /\ sent \in Seq(Byte)
  /\ hw = "st" => (LongCallback /\ answer = <<>> /\ sent = <<>>) \/ Replying

-----------------------------------------------------------------------------
(* The master's side *)

\* The result of a comparison in a flag.
LEMMA FlagFacts == ASSUME NEW a \in Nat, NEW b \in Nat, NEW t, t = (a < b)
                   PROVE  t \in BOOLEAN /\ (t <=> a < b)
<1>1. t \in BOOLEAN
  OBVIOUS
<1>2. t <=> a < b
  OBVIOUS
<1> QED BY <1>1, <1>2

LEMMA CopyFacts == ASSUME NEW buffer \in [Cell -> Byte], NEW d \in Seq(Byte), Len(d) \in 0 .. Size
                   PROVE  Copy(buffer, d) \in [Cell -> Byte] /\ Holds(Copy(buffer, d), d, Len(d))
BY TwiAssumption DEF Copy, Cell, Holds

LEMMA AnswerFacts == ASSUME NEW r \in Seq(Byte)
                     PROVE  Answer(r) \in Seq(Byte) /\ Len(Answer(r)) \in 1 .. Size
BY TwiAssumption DEF Answer, Refused

\* What sending a byte does.
LEMMA SendByteFacts ==
  ASSUME NEW b \in [Cell -> Byte], NEW n \in 0 .. Size, NEW k \in 0 .. Values - 1, SendByte(b, n, k)
  PROVE  /\ tdata' \in Byte /\ txIndex' \in 0 .. Values - 1
         /\ twsta' = FALSE /\ twea' \in BOOLEAN /\ (twea' <=> txIndex' < n)
         /\ k < Size => tdata' = b[k] /\ txIndex' = k + 1
<1>1. PICK j \in Nat : j = k + 1
  BY TwiAssumption
<1>2. txIndex' = j % Values /\ twsta' = FALSE /\ twea' = (txIndex' < n)
  BY <1>1 DEF SendByte, Reply
<1>3. j % Values \in 0 .. Values - 1
  BY <1>1, TwiAssumption
<1>4. ASSUME k < Size PROVE tdata' = b[k] /\ txIndex' = k + 1
  <2>1. j < Values
    BY <1>1, <1>4, TwiAssumption
  <2>2. j % Values = j
    BY <1>1, <2>1, TwiAssumption
  <2>3. k \in Cell
    BY <1>4, TwiAssumption DEF Cell
  <2> QED BY <1>1, <1>2, <2>2, <2>3 DEF SendByte
<1>5. tdata' \in Byte
  BY DEF SendByte
<1>6. twea' \in BOOLEAN /\ (twea' <=> txIndex' < n)
  BY <1>2, <1>3, FlagFacts, TwiAssumption
<1> QED BY <1>2, <1>3, <1>4, <1>5, <1>6

\* The steps of a sketch; what a write copies is any array of that length.
SketchStep == \/ \E d \in Seq(Byte) : Len(d) <= Size /\ CallWriteTo(d)
              \/ \E n \in ReadLengths : CallReadFrom(n)
              \/ SeeReady \/ Claim \/ StartRead
              \/ \E d \in Seq(Byte) : Len(d) = Len(data) /\ StartWriteOf(d)
              \/ WriteDone \/ ReadDone

\* The steps of the handler when another master addresses the device.
SlaveStep == SlaveIsr \/ SrStop \/ SrDataNack \/ \E r \in Seq(Byte) : StSlaAck(r)

LEMMA MasterSketch ==
  ASSUME Master, 0 \notin ReadLengths, pc # "idle" /\ twi_state = "READY" => hw = "free",
         SketchStep
  PROVE  Master'
<1> USE DEF NotSlave, DriverOnly, KeepMaster, masterVars, sketchVars, busVars, Begin, Return, Waiting, Errors
<1>1. ASSUME NEW d \in Seq(Byte), Len(d) <= Size, CallWriteTo(d) PROVE Master'
  <2>1. MasterTypes'
    BY <1>1 DEF CallWriteTo, Master, MasterTypes
  <2>2. Aligned'
    BY <1>1 DEF CallWriteTo, Master, MasterTypes, Aligned
  <2>3. Blamed'
    BY <1>1 DEF CallWriteTo, Master, MasterTypes, Aligned, Blamed
  <2>4. Reads'
    BY <1>1 DEF CallWriteTo, Master, MasterTypes, Aligned, Reads
  <2>5. Signals'
    BY <1>1 DEF CallWriteTo, Master, Signals
  <2> QED BY <2>1, <2>2, <2>3, <2>4, <2>5 DEF Master
<1>2. ASSUME NEW n \in ReadLengths, CallReadFrom(n) PROVE Master'
  <2>1. MasterTypes'
    BY <1>2, TwiAssumption DEF CallReadFrom, Master, MasterTypes
  <2>2. Aligned'
    BY <1>2, TwiAssumption DEF CallReadFrom, Master, MasterTypes, Aligned
  <2>3. Blamed'
    BY <1>2, TwiAssumption DEF CallReadFrom, Master, MasterTypes, Aligned, Blamed
  <2>4. Reads'
    BY <1>2, TwiAssumption DEF CallReadFrom, Master, MasterTypes, Aligned, Reads
  <2>5. Signals'
    BY <1>2 DEF CallReadFrom, Master, Signals
  <2> QED BY <2>1, <2>2, <2>3, <2>4, <2>5 DEF Master
<1>3. CASE SeeReady
  <2>1. MasterTypes'
    BY <1>3 DEF SeeReady, Master, MasterTypes
  <2>2. Aligned'
    BY <1>3 DEF SeeReady, Master, MasterTypes, Aligned
  <2>3. Blamed'
    BY <1>3 DEF SeeReady, Master, MasterTypes, Aligned, Blamed
  <2>4. Reads'
    BY <1>3 DEF SeeReady, Master, MasterTypes, Aligned, Reads
  <2>5. Signals'
    BY <1>3 DEF SeeReady, Master, Signals
  <2> QED BY <2>1, <2>2, <2>3, <2>4, <2>5 DEF Master
<1>4. CASE Claim
  <2>1. MasterTypes'
    BY <1>4 DEF Claim, Master, MasterTypes
  <2>2. Aligned'
    BY <1>4 DEF Claim, Master, MasterTypes, Aligned
  <2>3. Blamed'
    BY <1>4 DEF Claim, Master, MasterTypes, Aligned, Blamed
  <2>4. Reads'
    BY <1>4 DEF Claim, Master, MasterTypes, Aligned, Reads
  <2>5. Signals'
    BY <1>4 DEF Claim, Master, Signals
  <2> QED BY <2>1, <2>2, <2>3, <2>4, <2>5 DEF Master
<1>5. CASE StartRead
  <2>1. MasterTypes'
    <3>1. (length + Values - 1) % Values = length - 1
      <4>1. PICK n \in 1 .. Size : n = length
        BY <1>5, TwiAssumption DEF StartRead, Master, MasterTypes
      <4>2. n + Values - 1 = Values * 1 + (n - 1)
        BY <4>1, TwiAssumption
      <4>3. (n + Values - 1) % Values = n - 1
        BY <4>1, <4>2, TwiAssumption
      <4> QED BY <4>1, <4>3
    <3>2. /\ masterIndex' = 0 /\ masterLength' = length - 1 /\ acked' = <<>> /\ got' = <<>>
          /\ twi_error' = "none" /\ fate' = "none" /\ pc = "r_start" /\ pc' = "r_wait"
      BY <1>5, <3>1 DEF StartRead
    <3>3. UNCHANGED <<twi_state, masterBuffer, data, length, hw, tdata>>
      BY <1>5 DEF StartRead
    <3> QED BY <3>2, <3>3, EmptySeq, TwiAssumption DEF Master, MasterTypes
  <2>2. Aligned'
    BY <1>5, TwiAssumption DEF StartRead, Master, MasterTypes, Aligned
  <2>3. Blamed'
    BY <1>5, TwiAssumption DEF StartRead, Master, MasterTypes, Aligned, Blamed
  <2>4. Reads'
    BY <1>5, TwiAssumption DEF StartRead, Master, MasterTypes, Aligned, Reads, Holds
  <2>5. Signals'
    BY <1>5 DEF StartRead, Master, Signals
  <2> QED BY <2>1, <2>2, <2>3, <2>4, <2>5 DEF Master
<1>6. ASSUME NEW d \in Seq(Byte), Len(d) = Len(data), StartWriteOf(d) PROVE Master'
  <2>1. MasterTypes'
    <3>1. /\ masterIndex' = 0 /\ masterLength' = Len(data) /\ acked' = <<>> /\ got' = <<>>
          /\ twi_error' = "none" /\ fate' = "none" /\ pc' = "w_wait"
      BY <1>6 DEF StartWriteOf
    <3>2. masterBuffer' \in [Cell -> Byte]
      BY <1>6, CopyFacts DEF StartWriteOf, Master, MasterTypes
    <3>3. UNCHANGED <<twi_state, data, length, hw, tdata>>
      BY <1>6 DEF StartWriteOf
    <3> QED BY <3>1, <3>2, <3>3, EmptySeq, TwiAssumption DEF Master, MasterTypes
  <2>2. Aligned'
    BY <1>6 DEF StartWriteOf, Copy, Cell, Master, MasterTypes, Aligned
  <2>3. Blamed'
    BY <1>6 DEF StartWriteOf, Copy, Cell, Master, MasterTypes, Aligned, Blamed
  <2>4. Reads'
    BY <1>6 DEF StartWriteOf, Copy, Cell, Master, MasterTypes, Aligned, Reads
  <2>5. Signals'
    BY <1>6 DEF StartWriteOf, Master, Signals
  <2> QED BY <2>1, <2>2, <2>3, <2>4, <2>5 DEF Master
<1>7. CASE WriteDone
  <2>1. MasterTypes'
    <3>1. /\ acked' = <<>> /\ got' = <<>> /\ data' = <<>>
          /\ fate' = "none" /\ length' = 0 /\ pc' = "idle"
      BY <1>7 DEF WriteDone
    <3>2. UNCHANGED <<twi_state, twi_error, masterVars, hw, tdata>>
      BY <1>7 DEF WriteDone
    <3> QED BY <3>1, <3>2, EmptySeq, TwiAssumption DEF Master, MasterTypes
  <2>2. Aligned'
    BY <1>7 DEF WriteDone, Master, MasterTypes, Aligned
  <2>3. Blamed'
    BY <1>7 DEF WriteDone, Master, MasterTypes, Aligned, Blamed
  <2>4. Reads'
    BY <1>7 DEF WriteDone, Master, MasterTypes, Aligned, Reads
  <2>5. Signals'
    BY <1>7 DEF WriteDone, Master, Signals
  <2> QED BY <2>1, <2>2, <2>3, <2>4, <2>5 DEF Master
<1>8. CASE ReadDone
  <2>1. MasterTypes'
    <3>1. /\ acked' = <<>> /\ got' = <<>> /\ data' = <<>>
          /\ fate' = "none" /\ length' = 0 /\ pc' = "idle"
      BY <1>8 DEF ReadDone
    <3>2. UNCHANGED <<twi_state, twi_error, masterVars, hw, tdata>>
      BY <1>8 DEF ReadDone
    <3> QED BY <3>1, <3>2, EmptySeq, TwiAssumption DEF Master, MasterTypes
  <2>2. Aligned'
    BY <1>8 DEF ReadDone, Master, MasterTypes, Aligned
  <2>3. Blamed'
    BY <1>8 DEF ReadDone, Master, MasterTypes, Aligned, Blamed
  <2>4. Reads'
    BY <1>8 DEF ReadDone, Master, MasterTypes, Aligned, Reads
  <2>5. Signals'
    BY <1>8 DEF ReadDone, Master, Signals
  <2> QED BY <2>1, <2>2, <2>3, <2>4, <2>5 DEF Master
<1> QED BY <1>1, <1>2, <1>3, <1>4, <1>5, <1>6, <1>7, <1>8 DEF SketchStep

\* A step that ends the transaction on the bus, its fate recorded.
Ends(f) ==
  /\ fate' = f /\ f # "none" /\ f # "done"
  /\ twi_error' = IF f \in Errors THEN f ELSE twi_error
  /\ hw # "free" /\ ToReady
  /\ UNCHANGED <<masterVars, sketchVars, acked, got>>

LEMMA EndKeeps ==
  ASSUME Master, NEW f \in {"MR_SLA_NACK"} \cup Errors, Ends(f),
         f = "MR_SLA_NACK" => hw = "mr_sla", tdata' = tdata
  PROVE  Master'
<1> USE DEF masterVars, sketchVars, Reply, ToReady, Waiting, Errors
<1>1. MasterTypes'
  BY TwiAssumption DEF Ends, Master, MasterTypes
<1>2. Aligned'
  BY TwiAssumption DEF Ends, Master, MasterTypes, Aligned
<1>3. Blamed'
  BY TwiAssumption DEF Ends, Master, MasterTypes, Aligned, Blamed
<1>4. Reads'
  BY TwiAssumption DEF Ends, Master, MasterTypes, Aligned, Reads
<1>5. Signals'
  BY DEF Ends, Master, Signals
<1> QED BY <1>1, <1>2, <1>3, <1>4, <1>5 DEF Master

\* One more byte has come, the last one exactly if it was answered with NACK.
LEMMA ReadsOn ==
  ASSUME Master, NEW b \in Byte, hw = "mr_data", twsta' = FALSE,
         masterBuffer' = [k \in Cell |-> IF k = masterIndex THEN b ELSE masterBuffer[k]],
         masterIndex' = masterIndex + 1, got' = Append(got, b),
         UNCHANGED <<pc, length, masterLength>>,
         \/ /\ twea /\ hw' = "mr_data" /\ fate' = fate
            /\ twea' <=> masterIndex' < masterLength
         \/ ~twea /\ hw' = "free"
  PROVE  Reads'
<1>1. /\ pc = "r_wait" /\ fate = "none"
      /\ masterLength + 1 = length /\ Len(got) = masterIndex /\ masterIndex <= masterLength
      /\ Holds(masterBuffer, got, masterIndex) /\ (twea <=> masterIndex < masterLength)
  BY DEF Master, MasterTypes, Aligned, Reads
<1>2. /\ masterIndex \in Nat /\ masterLength \in Nat /\ length \in 0 .. Size /\ got \in Seq(Byte)
      /\ masterIndex \in Cell /\ masterBuffer \in [Cell -> Byte]
  BY <1>1, TwiAssumption DEF Master, MasterTypes, Cell
<1>3. Len(got') = masterIndex' /\ masterIndex' <= length
  BY <1>1, <1>2, TwiAssumption
<1>4. ASSUME NEW k \in 1 .. masterIndex' PROVE masterBuffer'[k - 1] = got'[k]
  <2>1. CASE k = masterIndex'
    BY <1>1, <1>2, <2>1
  <2>2. CASE k # masterIndex'
    <3>1. k \in 1 .. masterIndex /\ k - 1 \in Cell /\ k - 1 # masterIndex
      BY <1>2, <2>2, TwiAssumption DEF Cell
    <3>2. masterBuffer'[k - 1] = masterBuffer[k - 1] /\ got'[k] = got[k]
      BY <1>1, <1>2, <3>1
    <3> QED BY <1>1, <3>1, <3>2 DEF Holds
  <2> QED BY <2>1, <2>2
<1>5. hw' = "mr_data" => masterIndex' <= masterLength /\ (twea' <=> masterIndex' < masterLength)
  BY <1>1, <1>2
<1>6. fate' = "done" => masterIndex' = length
  BY <1>1, <1>2, TwiAssumption
<1> QED BY <1>1, <1>3, <1>4, <1>5, <1>6 DEF Reads, Holds

LEMMA MasterIsrKeeps ==
  ASSUME Master, MasterIsr \/ BusError PROVE Master'
<1> USE DEF NotSlave, MasterOnly, masterVars, sketchVars, busVars, Reply, ToReady, Waiting, Errors
<1>1. CASE Start
  <2>1. MasterTypes'
    BY <1>1 DEF Start, Master, MasterTypes
  <2>2. Aligned'
    BY <1>1 DEF Start, Master, MasterTypes, Aligned
  <2>3. Blamed'
    BY <1>1 DEF Start, Master, MasterTypes, Aligned, Blamed
  <2>4. Reads'
    BY <1>1 DEF Start, Master, MasterTypes, Aligned, Reads
  <2>5. Signals'
    BY <1>1 DEF Start, Master, Signals
  <2> QED BY <2>1, <2>2, <2>3, <2>4, <2>5 DEF Master
<1>2. CASE MtAck
  <2>1. MasterTypes'
    BY <1>2, TwiAssumption DEF MtAck, Master, MasterTypes, Aligned, Cell
  <2>2. Aligned'
    BY <1>2, TwiAssumption DEF MtAck, Master, MasterTypes, Aligned
  <2>3. Blamed'
    BY <1>2, TwiAssumption DEF MtAck, Master, MasterTypes, Aligned, Blamed
  <2>4. Reads'
    BY <1>2, TwiAssumption DEF MtAck, Master, MasterTypes, Aligned, Reads
  <2>5. Signals'
    BY <1>2 DEF MtAck, Master, Signals
  <2> QED BY <2>1, <2>2, <2>3, <2>4, <2>5 DEF Master
<1>3. CASE MtNack \/ ArbLost \/ MrSlaNack \/ BusError
  <2>1. PICK f \in {"MR_SLA_NACK"} \cup Errors : f = fate'
    BY <1>3 DEF MtNack, ArbLost, MrSlaNack, BusError
  <2>2. Ends(f) /\ tdata' = tdata /\ (f = "MR_SLA_NACK" => hw = "mr_sla")
    <3>1. CASE MtNack
      BY <2>1, <3>1 DEF MtNack, Ends
    <3>2. CASE ArbLost
      BY <2>1, <3>2 DEF ArbLost, Ends
    <3>3. CASE MrSlaNack
      BY <2>1, <3>3 DEF MrSlaNack, Ends
    <3>4. CASE BusError
      BY <2>1, <3>4 DEF BusError, Ends
    <3> QED BY <1>3, <3>1, <3>2, <3>3, <3>4
  <2> QED BY <2>1, <2>2, EndKeeps
<1>4. CASE MrSlaAck
  <2>6. twea' \in BOOLEAN /\ (twea' <=> masterIndex < masterLength)
    <3>1. masterIndex \in Nat /\ masterLength \in Nat /\ twea' = (masterIndex < masterLength)
      BY <1>4, TwiAssumption DEF MrSlaAck, Master, MasterTypes
    <3> QED BY <3>1, FlagFacts
  <2>1. MasterTypes'
    BY <1>4 DEF MrSlaAck, Master, MasterTypes
  <2>2. Aligned'
    BY <1>4 DEF MrSlaAck, Master, MasterTypes, Aligned
  <2>3. Blamed'
    BY <1>4 DEF MrSlaAck, Master, MasterTypes, Aligned, Blamed
  <2>4. Reads'
    <3>1. UNCHANGED <<pc, masterVars, length, got, twi_state, fate>> /\ twsta' = FALSE /\ hw' = "mr_data"
      BY <1>4 DEF MrSlaAck
    <3> QED BY <1>4, <2>6, <3>1 DEF MrSlaAck, Master, MasterTypes, Reads
  <2>5. Signals'
    BY <1>4, <2>6 DEF MrSlaAck, Signals
  <2> QED BY <2>1, <2>2, <2>3, <2>4, <2>5 DEF Master
<1>5. ASSUME NEW b \in Byte, MrDataAck(b) PROVE Master'
  <2>6. twea' \in BOOLEAN /\ (twea' <=> masterIndex' < masterLength)
    <3>1. masterIndex' \in Nat /\ masterLength \in Nat /\ twea' = (masterIndex' < masterLength)
      BY <1>5, TwiAssumption DEF MrDataAck, Master, MasterTypes
    <3> QED BY <3>1, FlagFacts
  <2>1. MasterTypes'
    BY <1>5, TwiAssumption DEF MrDataAck, Cell, Master, MasterTypes, Aligned, Reads
  <2>2. Aligned'
    BY <1>5, TwiAssumption DEF MrDataAck, Cell, Master, MasterTypes, Aligned
  <2>3. Blamed'
    BY <1>5, TwiAssumption DEF MrDataAck, Cell, Master, MasterTypes, Aligned, Blamed
  <2>4. Reads'
    BY <1>5, <2>6, ReadsOn DEF MrDataAck
  <2>5. Signals'
    BY <1>5, <2>6 DEF MrDataAck, Signals
  <2> QED BY <2>1, <2>2, <2>3, <2>4, <2>5 DEF Master
<1>6. ASSUME NEW b \in Byte, MrDataNack(b) PROVE Master'
  <2>1. MasterTypes'
    BY <1>6, TwiAssumption DEF MrDataNack, Cell, Master, MasterTypes, Aligned, Reads
  <2>2. Aligned'
    BY <1>6, TwiAssumption DEF MrDataNack, Cell, Master, MasterTypes, Aligned
  <2>3. Blamed'
    BY <1>6, TwiAssumption DEF MrDataNack, Cell, Master, MasterTypes, Aligned, Blamed
  <2>4. Reads'
    BY <1>6, ReadsOn DEF MrDataNack
  <2>5. Signals'
    BY <1>6 DEF MrDataNack, Master, Signals
  <2> QED BY <2>1, <2>2, <2>3, <2>4, <2>5 DEF Master
<1> QED BY <1>1, <1>2, <1>3, <1>4, <1>5, <1>6 DEF MasterIsr

\* What a step of the slave does to the master.
Intervenes ==
  /\ pc \notin {"w_claim", "r_claim", "w_start", "r_start"}
  /\ twsta' = FALSE /\ hw' \in {"free", "sr", "st"} /\ twi_state' \in {"READY", "SRX", "STX"}
  /\ Waiting => fate' = IF fate = "none" THEN "ADDRESSED" ELSE fate
  /\ fate' \in {fate, "ADDRESSED"} /\ twea' \in BOOLEAN /\ tdata' \in Byte
  /\ UNCHANGED <<twi_error, slarw, masterVars, sketchVars, acked, got>>

LEMMA SlaveIntervenes ==
  ASSUME Master, TxTrue, Prompt, SlaveStep
  PROVE  Intervenes
<1> USE DEF Intervenes, Master, MasterTypes, Aligned, SlaveOnly, Reply, ToReady, Waiting
<1>1. CASE SrSlaAck
  BY <1>1 DEF SrSlaAck, Addressed
<1>2. CASE StDataAck
  <2>1. tdata' \in Byte /\ twsta' = FALSE /\ twea' \in BOOLEAN
    BY <1>2, SendByteFacts DEF StDataAck, TxTrue
  <2> QED BY <1>2, <2>1 DEF StDataAck
<1>3. CASE StEnd
  BY <1>3 DEF StEnd
<1>4. ASSUME NEW b \in Byte, SrDataAck(b) PROVE Intervenes
  BY <1>4 DEF SrDataAck
<1>5. CASE SrStop
  BY <1>5 DEF SrStop
<1>6. CASE SrDataNack
  BY <1>6 DEF SrDataNack
<1>7. ASSUME NEW r \in Seq(Byte), StSlaAck(r) PROVE Intervenes
  <2>1. /\ txBuffer' \in [Cell -> Byte] /\ txLength' \in 0 .. Size
    <3>1. PICK a \in Seq(Byte) : a = Answer(r) /\ Len(a) \in 1 .. Size
      BY AnswerFacts
    <3>2. txBuffer' = Copy(txBuffer, a) /\ txLength' = Len(a) /\ txBuffer \in [Cell -> Byte]
      BY <1>7, <3>1 DEF StSlaAck, TxTrue
    <3> QED BY <3>1, <3>2, CopyFacts, TwiAssumption
  <2>2. tdata' \in Byte /\ twsta' = FALSE /\ twea' \in BOOLEAN
    <3>1. PICK b \in [Cell -> Byte], n \in 0 .. Size : b = txBuffer' /\ n = txLength'
      BY <2>1
    <3>2. SendByte(b, n, 0) /\ 0 \in 0 .. Values - 1
      BY <1>7, <3>1, TwiAssumption DEF StSlaAck, SendByte
    <3> QED BY <3>2, SendByteFacts
  <2> QED BY <1>7, <2>2 DEF StSlaAck, Addressed
<1> QED BY <1>1, <1>2, <1>3, <1>4, <1>5, <1>6, <1>7 DEF SlaveStep, SlaveIsr

LEMMA SlaveKeeps ==
  ASSUME Master, Intervenes PROVE Master'
<1> USE DEF masterVars, sketchVars, Waiting, Errors
<1>1. MasterTypes'
  BY TwiAssumption DEF Intervenes, Master, MasterTypes
<1>2. Aligned'
  BY TwiAssumption DEF Intervenes, Master, MasterTypes, Aligned
<1>3. Blamed'
  BY TwiAssumption DEF Intervenes, Master, MasterTypes, Aligned, Blamed
<1>4. Reads'
  BY TwiAssumption DEF Intervenes, Master, MasterTypes, Aligned, Reads, Holds
<1>5. Signals'
  BY DEF Intervenes, Signals
<1> QED BY <1>1, <1>2, <1>3, <1>4, <1>5 DEF Master
-----------------------------------------------------------------------------
(* What is sent *)

LEMMA SendsBegins ==
  ASSUME Master, NEW d \in Seq(Byte), Len(d) = Len(data), StartWriteOf(d)
  PROVE  Sends(d)'
<1>1. /\ masterIndex' = 0 /\ masterLength' = Len(d) /\ acked' = <<>> /\ fate' = "none"
      /\ hw' = "free"
  BY DEF StartWriteOf, Begin, Master, Aligned
<1>2. Holds(masterBuffer', d, Len(d))
  BY CopyFacts DEF StartWriteOf, Master, MasterTypes
<1> QED BY <1>1, <1>2 DEF Sends, Holds

\* One more byte is acknowledged, or all have been.
LEMMA SendsOn ==
  ASSUME Master, NEW d, Sends(d), MtAck PROVE Sends(d)'
<1> USE DEF MasterOnly, masterVars, sketchVars, Reply, ToReady
<1>1. pc = "w_wait" /\ fate = "none" /\ ~twsta
  BY DEF MtAck, Master, MasterTypes, Aligned
<1>2. /\ d \in Seq(Byte) /\ masterLength = Len(d) /\ Holds(masterBuffer, d, Len(d))
      /\ Len(acked) <= Len(d) /\ \A k \in 1 .. Len(acked) : acked[k] = d[k]
      /\ hw = "mt_sla" => masterIndex = 0 /\ acked = <<>>
      /\ hw = "mt_data" => /\ masterIndex = Len(acked) + 1 /\ masterIndex <= Len(d)
                           /\ tdata = d[masterIndex]
  BY <1>1 DEF Sends
<1>3. acked \in Seq(Byte) /\ Len(acked) \in Nat /\ masterIndex \in Nat /\ tdata \in Byte
  BY TwiAssumption DEF Master, MasterTypes
<1>4. /\ acked' \in Seq(Byte) /\ Len(acked') = masterIndex /\ masterIndex <= Len(d)
      /\ \A k \in 1 .. Len(acked') : acked'[k] = d[k]
  <2>1. CASE hw = "mt_sla"
    BY <1>2, <1>3, <2>1 DEF MtAck
  <2>2. CASE hw = "mt_data"
    <3>1. acked' = Append(acked, tdata)
      BY <2>2 DEF MtAck
    <3> QED BY <1>2, <1>3, <2>2, <3>1
  <2> QED BY <2>1, <2>2 DEF MtAck
<1>5. CASE masterIndex < masterLength
  <2>1. /\ tdata' = masterBuffer[masterIndex] /\ masterIndex' = masterIndex + 1
        /\ hw' = "mt_data" /\ twsta' = FALSE /\ fate' = fate
    BY <1>2, <1>3, <1>5 DEF MtAck
  <2>2. UNCHANGED <<masterBuffer, masterLength, pc>>
    BY DEF MtAck
  <2>3. tdata' = d[masterIndex']
    <3>1. masterIndex' \in 1 .. Len(d) /\ masterIndex' - 1 = masterIndex
      BY <1>2, <1>3, <1>5, <2>1
    <3> QED BY <1>2, <2>1, <3>1 DEF Holds
  <2> QED BY <1>1, <1>2, <1>3, <1>4, <1>5, <2>1, <2>2, <2>3 DEF Sends, Holds
<1>6. CASE masterIndex >= masterLength
  <2>1. fate' = "done" /\ hw' = "free" /\ twsta' = FALSE
    BY <1>2, <1>3, <1>6 DEF MtAck
  <2>2. UNCHANGED <<masterBuffer, masterLength, pc>>
    BY DEF MtAck
  <2>3. Len(acked') = Len(d) /\ acked' = d
    BY <1>2, <1>3, <1>4, <1>6
  <2> QED BY <1>2, <1>4, <2>1, <2>2, <2>3 DEF Sends, Holds
<1> QED BY <1>2, <1>3, <1>5, <1>6

LEMMA SendsKeeps ==
  ASSUME Master, NEW d, Sends(d), MasterIsr \/ BusError \/ Intervenes
  PROVE  Sends(d)'
<1> USE DEF NotSlave, MasterOnly, masterVars, sketchVars, Reply, ToReady
<1>1. CASE Start
  BY <1>1 DEF Start, Sends, Holds, Master, Aligned
<1>2. CASE MtAck
  BY <1>2, SendsOn
<1>3. CASE MtNack
  BY <1>3 DEF MtNack, Sends, Holds
<1>4. CASE ArbLost
  BY <1>4 DEF ArbLost, Sends, Holds
<1>5. CASE BusError
  BY <1>5 DEF BusError, Sends, Holds
<1>6. CASE \/ MrSlaAck \/ MrSlaNack \/ \E b \in Byte : MrDataAck(b) \/ MrDataNack(b)
  <2>1. hw \in {"mr_sla", "mr_data"} /\ pc' = pc
    BY <1>6 DEF MrSlaAck, MrSlaNack, MrDataAck, MrDataNack
  <2>2. pc # "w_wait"
    BY <2>1 DEF Master, MasterTypes, Aligned
  <2> QED BY <2>1, <2>2 DEF Sends
<1>7. CASE Intervenes
  BY <1>7 DEF Intervenes, Sends, Holds, Master, Aligned, Waiting
<1> QED BY <1>1, <1>2, <1>3, <1>4, <1>5, <1>6, <1>7 DEF MasterIsr
-----------------------------------------------------------------------------
(* The slave's side *)

\* The sketch and the master's events leave the slave's variables alone; they end
\* no session but by a bus error, and begin none.
LEMMA MasterSteps ==
  ASSUME SketchStep \/ MasterIsr \/ BusError
  PROVE  NotSlave /\ (hw' = hw \/ hw' \notin {"sr", "st"})
<1> USE DEF DriverOnly, busVars, MasterOnly, Reply, ToReady
<1>1. ASSUME SketchStep PROVE NotSlave /\ hw' = hw
  BY <1>1 DEF SketchStep, CallWriteTo, CallReadFrom, SeeReady, Claim, StartRead, StartWriteOf,
     Begin, WriteDone, ReadDone
<1>2. ASSUME MasterIsr \/ BusError PROVE NotSlave /\ (hw' = hw \/ hw' \notin {"sr", "st"})
  BY <1>2 DEF MasterIsr, Start, MtAck, MtNack, ArbLost, MrSlaAck, MrDataAck, MrDataNack,
     MrSlaNack, BusError
<1> QED BY <1>1, <1>2

LEMMA RxKeeps ==
  ASSUME RxTrue, SketchStep \/ MasterIsr \/ BusError \/ SlaveStep
  PROVE  RxTrue'
<1> USE DEF slaveRxVars, slaveHistory, Reply, ToReady
<1>1. CASE SketchStep \/ MasterIsr \/ BusError
  BY <1>1, MasterSteps DEF NotSlave, RxTrue, Holds
<1>2. CASE SrSlaAck
  <2>1. rxIndex' = 0 /\ heard' = <<>> /\ rxBuffer' = rxBuffer
    BY <1>2 DEF SrSlaAck
  <2> QED BY <2>1, EmptySeq, TwiAssumption DEF RxTrue, Holds
<1>3. ASSUME NEW b \in Byte, SrDataAck(b) PROVE RxTrue'
  <2>1. /\ heard' = Append(heard, b) /\ hw' = hw /\ hw = "sr"
        /\ rxIndex < Size => rxBuffer' = [rxBuffer EXCEPT ![rxIndex] = b] /\ rxIndex' = rxIndex + 1
        /\ rxIndex >= Size => rxBuffer' = rxBuffer /\ rxIndex' = rxIndex
    BY <1>3, TwiAssumption DEF SrDataAck, RxTrue
  <2>2. heard' \in Seq(Byte) /\ Len(heard') = Len(heard) + 1
    BY <2>1 DEF RxTrue
  <2>3. CASE rxIndex < Size
    <3>1. rxIndex = Len(heard) /\ rxIndex \in Nat
      BY <2>1, <2>3, TwiAssumption DEF RxTrue
    <3>2. rxIndex \in Cell /\ rxIndex' = Len(heard')
      BY <2>1, <2>2, <2>3, <3>1, TwiAssumption DEF Cell
    <3>3. rxBuffer' \in [Cell -> Byte]
      BY <2>1, <2>3, <3>2 DEF RxTrue
    <3>4. ASSUME NEW k \in 1 .. rxIndex' PROVE rxBuffer'[k - 1] = heard'[k]
      <4>1. CASE k = rxIndex'
        <5>1. k - 1 = rxIndex /\ k = Len(heard) + 1
          BY <2>1, <2>3, <3>1, <4>1
        <5>2. rxBuffer'[rxIndex] = b /\ heard'[Len(heard) + 1] = b
          BY <2>1, <2>3, <3>2 DEF RxTrue
        <5> QED BY <5>1, <5>2
      <4>2. CASE k # rxIndex'
        <5>1. k \in 1 .. rxIndex /\ k - 1 # rxIndex /\ k - 1 \in Cell
          BY <2>1, <2>3, <3>1, <4>2, TwiAssumption DEF Cell
        <5>2. rxBuffer'[k - 1] = rxBuffer[k - 1]
          BY <2>1, <2>3, <5>1 DEF RxTrue
        <5>3. heard'[k] = heard[k]
          BY <2>1, <3>1, <5>1 DEF RxTrue
        <5> QED BY <2>1, <5>1, <5>2, <5>3 DEF RxTrue, Holds
      <4> QED BY <4>1, <4>2
    <3>5. rxIndex' \in 0 .. Size /\ rxIndex' = IF Len(heard') < Size THEN Len(heard') ELSE Size
      BY <2>1, <2>2, <2>3, <3>1, <3>2, TwiAssumption
    <3> QED BY <2>2, <3>3, <3>4, <3>5 DEF RxTrue, Holds
  <2>4. CASE rxIndex >= Size
    <3>1. rxIndex = Size /\ Len(heard) >= Size
      BY <2>1, <2>4, TwiAssumption DEF RxTrue
    <3> QED BY <2>1, <2>2, <2>4, <3>1, TwiAssumption DEF RxTrue, Holds
  <2> QED BY <2>3, <2>4, TwiAssumption DEF RxTrue
<1>4. CASE SrDataNack
  BY <1>4, EmptySeq DEF SrDataNack, RxTrue
<1>5. CASE SrStop
  <2>1. rxIndex' = 0 /\ heard' = <<>>
    BY <1>5 DEF SrStop
  <2>2. rxBuffer' \in [Cell -> Byte]
    BY <1>5, TwiAssumption DEF SrStop, RxTrue
  <2> QED BY <2>1, <2>2, EmptySeq, TwiAssumption DEF RxTrue, Holds
<1>6. CASE StDataAck \/ StEnd
  BY <1>6 DEF StDataAck, StEnd, RxTrue
<1>7. ASSUME NEW r \in Seq(Byte), StSlaAck(r) PROVE RxTrue'
  BY <1>7 DEF StSlaAck, RxTrue
<1> QED BY <1>1, <1>2, <1>3, <1>4, <1>5, <1>6, <1>7 DEF SlaveStep, SlaveIsr

LEMMA TxKeeps ==
  ASSUME Master, TxTrue, SketchStep \/ MasterIsr \/ BusError \/ SlaveStep
  PROVE  TxTrue'
<1> USE DEF slaveTxVars, slaveHistory, Reply, ToReady
<1>1. CASE SketchStep \/ MasterIsr \/ BusError
  <2>1. NotSlave /\ (hw' = hw \/ hw' \notin {"sr", "st"})
    BY <1>1, MasterSteps
  <2>2. ASSUME hw' = "st" PROVE hw = "st" /\ twea' = twea
    <3>1. hw = "st"
      BY <2>1, <2>2
    <3>2. SketchStep
      BY <1>1, <2>2, <3>1 DEF MasterIsr, Start, MtAck, MtNack, ArbLost, MrSlaAck, MrDataAck,
         MrDataNack, MrSlaNack, BusError
    <3>3. pc \notin {"w_start", "r_start"}
      BY <3>1 DEF Master, Aligned
    <3> QED BY <3>1, <3>2, <3>3 DEF SketchStep, DriverOnly, busVars, CallWriteTo, CallReadFrom,
            SeeReady, Claim, StartRead, StartWriteOf, WriteDone, ReadDone
  <2> QED BY <2>1, <2>2 DEF NotSlave, TxTrue, Replying, Holds
<1>2. CASE SrSlaAck
  BY <1>2 DEF SrSlaAck, TxTrue
<1>3. ASSUME NEW b \in Byte, SrDataAck(b) PROVE TxTrue'
  BY <1>3 DEF SrDataAck, TxTrue
<1>4. CASE SrDataNack
  BY <1>4 DEF SrDataNack, TxTrue
<1>5. CASE SrStop
  BY <1>5, EmptySeq DEF SrStop, TxTrue
<1>6. CASE StDataAck
  <2>1. /\ tdata' \in Byte /\ txIndex' \in 0 .. Values - 1 /\ twea' \in BOOLEAN
        /\ twea' <=> txIndex' < txLength
        /\ txIndex < Size => tdata' = txBuffer[txIndex] /\ txIndex' = txIndex + 1
    BY <1>6, SendByteFacts DEF StDataAck, TxTrue
  <2>2. UNCHANGED <<hw, txBuffer, txLength, answer>> /\ hw = "st" /\ twea
    BY <1>6 DEF StDataAck
  <2>3. CASE answer = <<>>
    BY <1>6, <2>1, <2>2, <2>3 DEF StDataAck, TxTrue, Replying
  <2>4. CASE answer # <<>>
    <3>1. sent' = Append(sent, tdata')
      BY <1>6, <2>4 DEF StDataAck
    <3>2. Replying /\ txIndex < txLength
      BY <2>2, <2>4 DEF TxTrue, Replying
    <3>3. /\ txLength \in 0 .. Size /\ txIndex \in 1 .. txLength - 1 /\ txIndex \in Nat
          /\ txLength = Len(answer) /\ txIndex = Len(sent)
      BY <3>2, TwiAssumption DEF TxTrue, Replying
    <3>4. /\ tdata' = txBuffer[txIndex] /\ txIndex' = txIndex + 1
      BY <2>1, <3>3, TwiAssumption
    <3>5. tdata' = answer[txIndex']
      <4>1. txIndex' \in 1 .. txLength /\ txIndex' - 1 = txIndex
        BY <3>3, <3>4, TwiAssumption
      <4> QED BY <3>2, <3>4, <4>1 DEF Replying, Holds
    <3>6. sent' \in Seq(Byte) /\ Len(sent') = txIndex'
      BY <2>1, <3>1, <3>3, <3>4 DEF TxTrue
    <3>7. \A k \in 1 .. txIndex' : sent'[k] = answer[k]
      BY <3>1, <3>2, <3>3, <3>4, <3>5 DEF Replying, TxTrue
    <3>8. Replying'
      <4>1. txIndex' \in 1 .. txLength
        BY <3>3, <3>4, TwiAssumption
      <4> QED BY <2>1, <2>2, <3>2, <3>6, <3>7, <4>1 DEF Replying, Holds
    <3> QED BY <2>1, <2>2, <3>6, <3>8 DEF TxTrue
  <2> QED BY <2>3, <2>4
<1>7. CASE StEnd
  BY <1>7, EmptySeq DEF StEnd, TxTrue
<1>8. ASSUME NEW r \in Seq(Byte), StSlaAck(r) PROVE TxTrue'
  <2>1. PICK a \in Seq(Byte) : a = Answer(r) /\ Len(a) \in 1 .. Size
    BY AnswerFacts
  <2>2. PICK b \in [Cell -> Byte], n \in 1 .. Size : /\ b = Copy(txBuffer, a) /\ n = Len(a)
                                                   /\ Holds(b, a, n)
    <3>1. Len(a) \in 0 .. Size /\ txBuffer \in [Cell -> Byte]
      BY <2>1, TwiAssumption DEF TxTrue
    <3>2. Copy(txBuffer, a) \in [Cell -> Byte] /\ Holds(Copy(txBuffer, a), a, Len(a))
      BY <3>1, CopyFacts
    <3> QED BY <2>1, <3>2
  <2>3. /\ txBuffer' = b /\ txLength' = n /\ answer' = a /\ sent' = <<tdata'>> /\ hw' = "st"
    BY <1>8, <2>1, <2>2 DEF StSlaAck
  <2>4. SendByte(b, n, 0) /\ 0 \in 0 .. Values - 1 /\ n \in 0 .. Size
    BY <1>8, <2>3, TwiAssumption DEF StSlaAck
  <2>5. /\ tdata' \in Byte /\ tdata' = b[0] /\ txIndex' = 1 /\ (twea' <=> txIndex' < n)
    <3>1. PICK k \in 0 .. Values - 1 : k = 0
      BY <2>4
    <3>2. SendByte(b, n, k) /\ k < Size
      BY <2>4, <3>1, TwiAssumption
    <3>3. tdata' \in Byte /\ tdata' = b[k] /\ txIndex' = k + 1 /\ (twea' <=> txIndex' < n)
      BY <2>4, <3>2, SendByteFacts
    <3> QED BY <3>1, <3>3
  <2>6. tdata' = a[1]
    BY <2>2, <2>5 DEF Holds
  <2>7. Replying'
    BY <2>2, <2>3, <2>5, <2>6 DEF Replying, Holds
  <2> QED BY <2>1, <2>2, <2>3, <2>5, <2>7, TwiAssumption DEF TxTrue
<1> QED BY <1>1, <1>2, <1>3, <1>4, <1>5, <1>6, <1>7, <1>8 DEF SlaveStep, SlaveIsr
-----------------------------------------------------------------------------

\* If no callback outlasts the next address, READY means that the bus is free.
LEMMA ReadyIsFree ==
  ASSUME Master, twi_state = "READY" => hw = "free",
         \/ SketchStep \/ MasterIsr \/ BusError \/ SlaveIsr \/ SrDataNack
         \/ \E r \in Seq(Byte) : StSlaAck(r)
         \/ SrStop /\ hw' = "free"
  PROVE  twi_state' = "READY" => hw' = "free"
<1> SUFFICES ASSUME twi_state' = "READY" PROVE hw' = "free"
  OBVIOUS
<1> USE DEF Master, MasterTypes, Aligned, Reply, ToReady
<1>1. CASE SketchStep
  BY <1>1 DEF SketchStep, CallWriteTo, CallReadFrom, SeeReady, Claim, StartRead,
     StartWriteOf, Begin, WriteDone, ReadDone, DriverOnly, busVars
<1>2. CASE MasterIsr \/ BusError
  BY <1>2 DEF MasterIsr, Start, MtAck, MtNack, ArbLost, MrSlaAck, MrDataAck, MrDataNack,
     MrSlaNack, BusError
<1>3. CASE SlaveIsr \/ SrDataNack \/ \E r \in Seq(Byte) : StSlaAck(r)
  BY <1>3 DEF SlaveIsr, SrSlaAck, SrDataAck, SrDataNack, StSlaAck, StDataAck, StEnd
<1> QED BY <1>1, <1>2, <1>3

\* A call returns once the driver has left its state: a write with the code of
\* what became of d, ...
LEMMA CodeFacts ==
  ASSUME Master, NEW d, Sends(d), pc = "w_wait", twi_state # "MTX"
  PROVE  /\ Code = 0 /\ fate # "ADDRESSED" => acked = d /\ fate = "done"
         /\ Code = 2 => fate = "MT_SLA_NACK"
         /\ Code = 3 => fate = "MT_DATA_NACK"
         /\ Code = 4 => fate \in {"ARB_LOST", "BUS_ERROR"}
<1>1. /\ twi_error \in {"none"} \cup Errors
      /\ fate \in {"none", "done", "ADDRESSED", "MR_SLA_NACK"} \cup Errors
      /\ fate # "none" /\ fate # "MR_SLA_NACK"
      /\ IF twi_error = "none" THEN fate \notin Errors ELSE fate = twi_error
  BY DEF Master, MasterTypes, Aligned, Blamed, Waiting
<1>2. /\ twi_error = "none" => Code = 0
      /\ twi_error = "MT_SLA_NACK" => Code = 2
      /\ twi_error = "MT_DATA_NACK" => Code = 3
      /\ twi_error \in {"ARB_LOST", "BUS_ERROR"} => Code = 4
  BY DEF Code
<1>3. CASE twi_error = "none"
  <2>1. fate \in {"done", "ADDRESSED"}
    BY <1>1, <1>3 DEF Errors
  <2>2. fate = "done" => acked = d
    BY DEF Sends
  <2> QED BY <1>2, <1>3, <2>1, <2>2
<1>4. CASE twi_error # "none"
  BY <1>1, <1>2, <1>4 DEF Errors
<1> QED BY <1>3, <1>4

\* ... a read with the bytes that came.
LEMMA BytesFacts ==
  ASSUME Master, pc = "r_wait"
  PROVE  BytesRead = got /\ (fate = "done" => Len(BytesRead) = length)
<1>1. /\ masterIndex \in Nat /\ length \in Nat /\ got \in Seq(Byte)
      /\ Len(got) = masterIndex /\ masterIndex <= length
      /\ \A k \in 1 .. masterIndex : masterBuffer[k - 1] = got[k]
      /\ fate = "done" => masterIndex = length
  BY TwiAssumption DEF Master, MasterTypes, Reads, Holds
<1>2. BytesRead = [k \in 1 .. masterIndex |-> masterBuffer[k - 1]]
  BY <1>1 DEF BytesRead, Cells
<1>3. got = [k \in 1 .. masterIndex |-> got[k]]
  BY <1>1
<1> QED BY <1>1, <1>2, <1>3

-----------------------------------------------------------------------------
(* The driver used directly *)

\* twi_readFrom stores past its buffer when it is asked for no byte, which the
\* sketch does not do here.
ReadsSomething == 0 \notin ReadLengths

\* A listener calls nothing; for a caller no session begins unseen, and READY
\* means that the bus is free.
Attentive ==
  /\ role \in {"caller", "listener"}
  /\ role = "listener" => pc = "idle"
  /\ role = "caller" => /\ twi_state = "READY" => hw = "free"
                        /\ hw = "st" => Replying
                        /\ txIndex <= Size

Inv == Master /\ Sends(data) /\ RxTrue /\ TxTrue /\ Attentive

LEMMA InitInv == BusInit => Inv
<1> SUFFICES ASSUME BusInit PROVE Inv
  OBVIOUS
<1> USE TwiAssumption DEF BusInit, TwiInit
<1>1. MasterTypes
  BY EmptySeq DEF MasterTypes
<1>2. Signals /\ Aligned /\ Blamed /\ Reads /\ Sends(data)
  BY DEF Signals, Aligned, Blamed, Reads, Sends, Waiting
<1>3. RxTrue /\ TxTrue
  BY EmptySeq DEF RxTrue, TxTrue
<1>4. Attentive
  BY BusAssumption DEF Attentive
<1> QED BY <1>1, <1>2, <1>3, <1>4 DEF Inv, Master

\* An event of the bus is one of the master or of the slave, ...
LEMMA EventKinds == ASSUME Isr PROVE MasterIsr \/ BusError \/ SlaveStep
<1>1. ASSUME NEW n \in 0 .. Size + 1, NEW r \in Word(n), StSlaAck(r)
      PROVE  SlaveStep
  <2>1. r \in Seq(Byte)
    BY TwiAssumption DEF Word
  <2> QED BY <1>1, <2>1 DEF SlaveStep
<1> QED BY <1>1 DEF Isr, SlaveStep

\* ... the rest are steps of the sketch.
LEMMA CallKinds == ASSUME Inv, Calls \/ Driver PROVE SketchStep
<1>1. ASSUME NEW n \in WriteLengths, NEW d \in Word(n), CallWriteTo(d)
      PROVE  SketchStep
  <2>1. n \in Nat /\ d \in Seq(Byte)
    BY TwiAssumption DEF Word
  <2> QED BY <1>1, <2>1 DEF SketchStep, CallWriteTo
<1>2. ASSUME Calls PROVE SketchStep
  BY <1>1, <1>2 DEF Calls, SketchStep
<1>3. ASSUME Driver PROVE SketchStep
  BY <1>3 DEF Driver, SketchStep, StartWrite, Inv, Master, MasterTypes
<1> QED BY <1>2, <1>3

\* For a caller the driver is READY only when the bus is free.
LEMMA CallerReady == ASSUME Inv, TwiNext, role = "caller", twi_state' = "READY" PROVE hw' = "free"
<1>1. ASSUME NEW n \in 0 .. Size + 1, NEW r \in Word(n), StSlaAck(r)
      PROVE  \E s \in Seq(Byte) : StSlaAck(s)
  <2>1. r \in Seq(Byte)
    BY TwiAssumption DEF Word
  <2> QED BY <1>1, <2>1
<1>2. Isr => \/ MasterIsr \/ BusError \/ SlaveIsr \/ SrDataNack
             \/ \E r \in Seq(Byte) : StSlaAck(r)
             \/ SrStop /\ hw' = "free"
  BY <1>1 DEF Isr
<1> QED BY <1>2, CallKinds, ReadyIsFree DEF TwiNext, Inv, Attentive

\* No session begins unseen by a caller.
LEMMA CallerReplies == ASSUME Inv, TwiNext, role = "caller", hw' = "st" PROVE answer' # <<>>
<1>1. ASSUME hw = "st", answer' = answer PROVE answer' # <<>>
  <2>1. Replying /\ answer \in Seq(Byte)
    BY <1>1 DEF Inv, Attentive, TxTrue
  <2> QED BY <1>1, <2>1, TwiAssumption DEF Replying, TxTrue
<1>2. CASE SketchStep \/ MasterIsr \/ BusError
  BY <1>1, <1>2, MasterSteps DEF NotSlave, slaveHistory
<1>3. CASE Isr /\ ~MasterIsr /\ ~BusError
  <2>1. \/ \E n \in 0 .. Size + 1 : \E r \in Word(n) : StSlaAck(r)
        \/ StDataAck
    BY <1>3 DEF Isr, SlaveIsr, SrSlaAck, SrDataAck, SrDataNack, SrStop, StEnd, ToReady
  <2>2. ASSUME NEW n \in 0 .. Size + 1, NEW r \in Word(n), StSlaAck(r) PROVE answer' # <<>>
    BY <2>2 DEF StSlaAck, Answer, Refused
  <2>3. ASSUME StDataAck PROVE answer' # <<>>
    BY <1>1, <2>3 DEF StDataAck
  <2> QED BY <2>1, <2>2, <2>3
<1> QED BY <1>2, <1>3, CallKinds DEF TwiNext

\* A call returns only once the driver has left its state.
LEMMA ReturnFacts ==
  ASSUME Inv, TwiNext, Waiting, pc' = "idle"
  PROVE  twi_state \notin {"MTX", "MRX"}
<1>1. MasterIsr \/ BusError \/ SlaveStep => pc' = pc
  BY DEF MasterIsr, Start, MtAck, MtNack, ArbLost, MrSlaAck, MrDataAck, MrDataNack, MrSlaNack,
     BusError, MasterOnly, SlaveStep, SlaveIsr, SrSlaAck, SrDataAck, SrDataNack, SrStop, StSlaAck,
     StDataAck, StEnd, SlaveOnly, sketchVars
<1>2. WriteDone \/ ReadDone
  BY <1>1, EventKinds DEF TwiNext, Waiting, Calls, CallWriteTo, CallReadFrom, Driver, SeeReady, Claim,
     StartRead, StartWrite, StartWriteOf
<1> QED BY <1>2 DEF WriteDone, ReadDone, Waiting, Inv, Master, MasterTypes, Aligned

LEMMA NextInv == ASSUME Prompt, ReadsSomething, Inv, [TwiNext]_busAll PROVE Inv'
<1>1. CASE UNCHANGED busAll
  <2> USE <1>1 DEF busAll, twiVars, masterVars, slaveTxVars, slaveRxVars, sketchVars, busVars,
          twiHistory, slaveHistory
  <2>1. Master'
    BY DEF Inv, Master, MasterTypes, Signals, Aligned, Blamed, Reads, Waiting, Holds
  <2>2. Sends(data)'
    BY DEF Inv, Sends, Waiting, Holds
  <2>3. (RxTrue /\ TxTrue)'
    BY DEF Inv, RxTrue, TxTrue, Replying, Holds
  <2>4. Attentive'
    BY DEF Inv, Attentive, Replying
  <2> QED BY <2>1, <2>2, <2>3, <2>4 DEF Inv
<1>2. CASE TwiNext
  <2>1. SketchStep \/ MasterIsr \/ BusError \/ SlaveStep
    BY <1>2, CallKinds, EventKinds DEF TwiNext
  <2>2. pc # "idle" /\ twi_state = "READY" => hw = "free"
    BY DEF Inv, Attentive
  <2>3. ASSUME SlaveStep PROVE Intervenes
    BY <2>3, SlaveIntervenes DEF Inv
  <2>4. Master'
    BY <2>1, <2>2, <2>3, MasterSketch, MasterIsrKeeps, SlaveKeeps DEF Inv, ReadsSomething
  <2>5. Sends(data)'
    <3>1. PICK d \in Seq(Byte) : d = data
      BY DEF Inv, Master, MasterTypes
    <3>2. Sends(d) /\ Master
      BY <3>1 DEF Inv
    <3>3. CASE MasterIsr \/ BusError \/ SlaveStep
      <4>1. data' = data
        BY <2>3, <3>3 DEF MasterIsr, Start, MtAck, MtNack, ArbLost, MrSlaAck, MrDataAck, MrDataNack,
           MrSlaNack, BusError, Intervenes, MasterOnly, sketchVars
      <4>2. Sends(d)'
        BY <2>3, <3>2, <3>3, SendsKeeps
      <4> QED BY <3>1, <4>1, <4>2 DEF Sends
    <3>4. CASE StartWrite
      <4>1. data' = data /\ StartWriteOf(d) /\ Len(d) = Len(data)
        BY <3>1, <3>4 DEF StartWrite, StartWriteOf, Begin
      <4>2. Sends(d)'
        BY <3>2, <4>1, SendsBegins
      <4> QED BY <3>1, <4>1, <4>2 DEF Sends
    <3>5. CASE pc' # "w_wait"
      BY <3>5 DEF Sends
    <3>6. Calls \/ Driver => pc' # "w_wait" \/ StartWrite
      BY DEF Calls, CallWriteTo, CallReadFrom, Driver, SeeReady, Claim, StartRead, WriteDone,
         ReadDone, Return
    <3> QED BY <1>2, <3>3, <3>4, <3>5, <3>6, EventKinds DEF TwiNext
  <2>6. RxTrue' /\ TxTrue'
    BY <2>1, RxKeeps, TxKeeps DEF Inv
  <2>7. Attentive'
    <3>1. role' = role /\ role \in {"caller", "listener"}
      BY <1>2 DEF TwiNext, Inv, Attentive
    <3>2. role = "listener" => pc' = "idle"
      BY <1>2, <2>3, EventKinds DEF Inv, Attentive, TwiNext, Calls, Driver, SeeReady, Claim, StartRead,
         StartWrite, StartWriteOf, WriteDone, ReadDone, MasterIsr, Start, MtAck, MtNack, ArbLost,
         MrSlaAck, MrDataAck, MrDataNack, MrSlaNack, BusError, Intervenes, MasterOnly, sketchVars
    <3>3. role = "caller" /\ twi_state' = "READY" => hw' = "free"
      BY <1>2, CallerReady
    <3>4. ASSUME role = "caller", hw' = "st" PROVE Replying'
      BY <1>2, <2>6, <3>4, CallerReplies DEF TxTrue
    <3>5. ASSUME role = "caller" PROVE txIndex' <= Size
      <4>1. CASE hw' = "st"
        <5>1. Replying' /\ TxTrue'
          BY <2>6, <3>4, <3>5, <4>1
        <5> QED BY <5>1, TwiAssumption DEF Replying, TxTrue
      <4>2. CASE hw' # "st"
        <5>1. txIndex' = txIndex
          BY <1>2, <2>1, <4>2, MasterSteps DEF NotSlave, slaveTxVars, SlaveStep, SlaveIsr, SrSlaAck,
             SrDataAck, SrDataNack, SrStop, StSlaAck, StDataAck, StEnd
        <5> QED BY <3>5, <5>1 DEF Inv, Attentive
      <4> QED BY <4>1, <4>2
    <3> QED BY <3>1, <3>2, <3>3, <3>4, <3>5 DEF Attentive
  <2> QED BY <2>4, <2>5, <2>6, <2>7 DEF Inv
<1> QED BY <1>1, <1>2

LEMMA Invariance == ASSUME Prompt, ReadsSomething PROVE TwiSpec => []Inv
<1>1. Inv /\ [TwiNext]_busAll => Inv'
  BY NextInv
<1> QED BY <1>1, InitInv, PTL DEF TwiSpec
-----------------------------------------------------------------------------

\* No buffer of the driver is ever indexed outside its cells, except by a session
\* whose address was missed.
THEOREM TypeCorrect == ASSUME Prompt, ReadsSomething PROVE TwiSpec => []TwiTypeOK
<1>1. Inv => TwiTypeOK
  BY TwiAssumption DEF Inv, Master, MasterTypes, Signals, Errors, RxTrue, TxTrue, Attentive, TwiTypeOK
<1> QED BY <1>1, Invariance, PTL

\* The result of twi_writeTo names what happened on the bus.
THEOREM CodesTrue == ASSUME Prompt, ReadsSomething PROVE TwiSpec => CodesAreTrue
<1>1. ASSUME Inv, [TwiNext]_busAll
      PROVE  [Returns("w_wait") =>
               /\ Code = 0 /\ fate # "ADDRESSED" => acked = data /\ fate = "done"
               /\ Code = 2 => fate = "MT_SLA_NACK"
               /\ Code = 3 => fate = "MT_DATA_NACK"
               /\ Code = 4 => fate \in {"ARB_LOST", "BUS_ERROR"}]_twiVars
  <2>1. ASSUME Returns("w_wait"), TwiNext
        PROVE  /\ Code = 0 /\ fate # "ADDRESSED" => acked = data /\ fate = "done"
               /\ Code = 2 => fate = "MT_SLA_NACK"
               /\ Code = 3 => fate = "MT_DATA_NACK"
               /\ Code = 4 => fate \in {"ARB_LOST", "BUS_ERROR"}
    <3>1. pc = "w_wait" /\ twi_state # "MTX"
      BY <1>1, <2>1, ReturnFacts DEF Returns, Waiting
    <3>2. PICK d : d = data
      OBVIOUS
    <3> QED BY <1>1, <3>1, <3>2, CodeFacts DEF Inv
  <2> QED BY <1>1, <2>1 DEF busAll
<1> QED BY <1>1, Invariance, PTL DEF TwiSpec, CodesAreTrue

\* twi_readFrom returns the bytes of its own transaction, all of them.
THEOREM ReadsTrue == ASSUME Prompt, ReadsSomething PROVE TwiSpec => ReadMeansGot
<1>1. ASSUME Inv, [TwiNext]_busAll
      PROVE  [Returns("r_wait") => /\ BytesRead = got
                                   /\ fate = "done" => Len(BytesRead) = length]_twiVars
  <2>1. ASSUME Returns("r_wait"), TwiNext
        PROVE  BytesRead = got /\ (fate = "done" => Len(BytesRead) = length)
    BY <1>1, <2>1, BytesFacts DEF Returns, Inv
  <2> QED BY <1>1, <2>1 DEF busAll
<1> QED BY <1>1, Invariance, PTL DEF TwiSpec, ReadMeansGot

\* The byte asked for last, and no other, is answered with NACK.
THEOREM LastIsNacked == ASSUME Prompt, ReadsSomething PROVE TwiSpec => NackOnLast
<1>1. ASSUME Inv, [TwiNext]_busAll
      PROVE  [hw = "mr_data" /\ got' # got => (twea <=> Len(got') < length)]_twiVars
  <2>1. ASSUME hw = "mr_data", got' # got, TwiNext PROVE twea <=> Len(got') < length
    <3>1. pc = "r_wait" /\ twi_state = "MRX"
      BY <1>1, <2>1 DEF Inv, Master, MasterTypes, Aligned
    <3>2. /\ masterIndex \in Nat /\ masterLength \in Nat /\ got \in Seq(Byte)
          /\ masterLength + 1 = length /\ Len(got) = masterIndex
          /\ twea <=> masterIndex < masterLength
      BY <1>1, <2>1, <3>1, TwiAssumption DEF Inv, Master, MasterTypes, Reads
    <3>3. \E b \in Byte : got' = Append(got, b)
      BY <2>1, <3>1, EventKinds DEF TwiNext, Calls, CallWriteTo, CallReadFrom, Driver, SeeReady, Claim, StartRead,
         StartWrite, StartWriteOf, WriteDone, ReadDone, KeepMaster,
         MasterIsr, Start, MtAck, MtNack, ArbLost, MrSlaAck, MrDataAck, MrDataNack, MrSlaNack,
         BusError, SlaveStep, SlaveIsr, SrSlaAck, SrDataAck, SrDataNack, SrStop, StSlaAck,
         StDataAck, StEnd, SlaveOnly
    <3>4. Len(got') = masterIndex + 1
      BY <3>2, <3>3
    <3> QED BY <3>2, <3>4
  <2> QED BY <1>1, <2>1 DEF busAll
<1> QED BY <1>1, Invariance, PTL DEF TwiSpec, NackOnLast

LEMMA FirstElements ==
  ASSUME NEW s \in Seq(Byte), NEW n \in 0 .. Len(s)
  PROVE  SubSeq(s, 1, n) = [k \in 1 .. n |-> s[k]]
OBVIOUS

\* The receive callback gets what the other master sent, ...
THEOREM CallbackTrue == TwiSpec => CallbackGetsHeard
<1>1. ASSUME RxTrue, [TwiNext]_busAll
      PROVE  [SrStop => Received = SubSeq(heard, 1, IF Len(heard) < Size THEN Len(heard) ELSE Size)]_twiVars
  <2>1. ASSUME SrStop
        PROVE  Received = SubSeq(heard, 1, IF Len(heard) < Size THEN Len(heard) ELSE Size)
    <3>1. /\ rxIndex \in Nat /\ heard \in Seq(Byte) /\ rxIndex <= Len(heard)
          /\ rxIndex = IF Len(heard) < Size THEN Len(heard) ELSE Size
          /\ \A k \in 1 .. rxIndex : rxBuffer[k - 1] = heard[k]
      BY <1>1, <2>1, TwiAssumption DEF SrStop, RxTrue, Holds
    <3>2. SubSeq(heard, 1, rxIndex) = [k \in 1 .. rxIndex |-> heard[k]]
      BY <3>1, FirstElements
    <3>3. Received = [k \in 1 .. rxIndex |-> rxBuffer[k - 1]]
      BY DEF Received, Cells
    <3> QED BY <3>1, <3>2, <3>3
  <2> QED BY <2>1
<1>2. BusInit => RxTrue
  BY EmptySeq, TwiAssumption DEF BusInit, TwiInit, RxTrue
<1>3. ASSUME RxTrue, [TwiNext]_busAll PROVE RxTrue'
  <2>1. CASE Calls \/ Driver
    BY <1>3, <2>1 DEF Calls, CallWriteTo, CallReadFrom, Driver, SeeReady, Claim, StartRead, StartWrite,
       StartWriteOf, Begin, WriteDone, ReadDone, NotSlave, slaveRxVars, slaveHistory, DriverOnly,
       busVars, RxTrue, Holds
  <2>2. CASE Isr
    BY <1>3, <2>2, EventKinds, RxKeeps
  <2>3. CASE UNCHANGED busAll
    BY <1>3, <2>3 DEF busAll, twiVars, slaveRxVars, busVars, twiHistory, slaveHistory, RxTrue, Holds
  <2> QED BY <1>3, <2>1, <2>2, <2>3 DEF TwiNext
<1> QED BY <1>1, <1>2, <1>3, PTL DEF TwiSpec, CallbackGetsHeard

\* ... and the other master reads the reply of the transmit callback.
THEOREM AnswerSent == ASSUME Prompt, ReadsSomething PROVE TwiSpec => SentIsAnswer
<1>1. ASSUME Inv, [TwiNext]_busAll
      PROVE  [hw = "st" /\ hw' = "free" =>
                Len(sent) <= Len(answer) /\ sent = SubSeq(answer, 1, Len(sent))]_twiVars
  <2>1. ASSUME hw = "st", hw' = "free"
        PROVE  Len(sent) <= Len(answer) /\ sent = SubSeq(answer, 1, Len(sent))
    <3>1. sent \in Seq(Byte) /\ answer \in Seq(Byte)
      BY <1>1 DEF Inv, TxTrue
    <3>2. Len(sent) <= Len(answer) /\ \A k \in 1 .. Len(sent) : sent[k] = answer[k]
      BY <1>1, <2>1, <3>1, TwiAssumption DEF Inv, TxTrue, Replying
    <3>3. SubSeq(answer, 1, Len(sent)) = [k \in 1 .. Len(sent) |-> answer[k]]
      BY <3>1, <3>2, FirstElements
    <3>4. sent = [k \in 1 .. Len(sent) |-> sent[k]]
      BY <3>1
    <3> QED BY <3>2, <3>3, <3>4
  <2> QED BY <2>1
<1> QED BY <1>1, Invariance, PTL DEF TwiSpec, SentIsAnswer
=============================================================================
