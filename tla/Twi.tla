-------------------------------- MODULE Twi --------------------------------
(***************************************************************************)
(* The two-wire driver (libraries/twi/twi.c): the blocking calls           *)
(* twi_readFrom and twi_writeTo of the sketch, the interrupt handler that  *)
(* moves a transaction on at every bus event, and the bus around them.     *)
(*                                                                         *)
(* An interrupt is taken before the next instruction of the sketch, so one *)
(* action is a bus event together with the handler's case for it.  The     *)
(* hardware accepts a START request (TWSTA) when the bus is free, and any  *)
(* handler that writes TWCR meanwhile withdraws the request.               *)
(***************************************************************************)
EXTENDS Naturals, Sequences

CONSTANTS Byte,           \* data bytes
          Zero,           \* the byte 0x00, the initial value of every cell
          Size,           \* TWI_BUFFER_LENGTH
          Values,         \* number of values of a uint8_t
          ReadLengths,    \* lengths the sketch reads
          WriteLengths,   \* lengths the sketch writes
          OtherMaster,    \* is there another master on the bus?
          BusErrors,      \* do illegal START and STOP conditions happen?
          Prompt,         \* does nobody address the device from the ready check of
                          \* a call to its START request?
          LongCallback    \* can a receive callback outlast the next address?

ASSUME TwiAssumption == /\ Zero \in Byte
                        /\ Size \in Nat /\ Size > 0
                        /\ Values \in Nat /\ Values > Size
                        /\ ReadLengths \subseteq Nat /\ WriteLengths \subseteq Nat

VARIABLES
  twi_state,              \* "READY", "MRX", "MTX", "SRX", "STX"
  twi_error,              \* 0xFF is "none"
  slarw,                  \* "R" or "W": the direction bit of twi_slarw
  masterBuffer, masterIndex, masterLength,
  txBuffer, txIndex, txLength,
  rxBuffer, rxIndex,
  pc,                     \* the sketch: where it is in twi_writeTo or twi_readFrom
  data, length,           \* its argument: the data to write, the length to read
  hw,                     \* what the hardware does: the next status depends on it
  twsta, twea,            \* START requested; acknowledge enabled
  tdata,                  \* the data byte in TWDR
  acked,                  \* history: bytes the slave acknowledged in this transaction
  got,                    \* history: bytes the slave sent in this transaction
  fate,                   \* history: how this transaction ended on the bus
  heard,                  \* history: bytes acknowledged to the other master
  answer, sent            \* history: the reply of the callback and the bytes sent
                          \* of it; empty in a session whose address was missed

masterVars == <<masterBuffer, masterIndex, masterLength>>
slaveTxVars == <<txBuffer, txIndex, txLength>>
slaveRxVars == <<rxBuffer, rxIndex>>
sketchVars == <<pc, data, length>>
busVars == <<hw, twsta, twea, tdata>>
slaveHistory == <<heard, answer, sent>>
twiHistory == <<acked, got, fate, slaveHistory>>
twiVars == <<twi_state, twi_error, slarw, masterVars, slaveTxVars, slaveRxVars,
             sketchVars, busVars, twiHistory>>

Cell == 0 .. Size - 1
Word(n) == [1 .. n -> Byte]   \* the byte sequences of length n
Cells(buffer, n) == [k \in 1 .. n |-> buffer[k - 1]]
Copy(buffer, d) == [k \in Cell |-> IF k < Len(d) THEN d[k + 1] ELSE buffer[k]]

TwiInit ==   \* after twi_init()
  /\ twi_state = "READY" /\ twi_error = "none" /\ slarw = "W"
  /\ masterBuffer = [k \in Cell |-> Zero] /\ masterIndex = 0 /\ masterLength = 0
  /\ txBuffer = [k \in Cell |-> Zero] /\ txIndex = 0 /\ txLength = 0
  /\ rxBuffer = [k \in Cell |-> Zero] /\ rxIndex = 0
  /\ pc = "idle" /\ data = <<>> /\ length = 0
  /\ hw = "free" /\ twsta = FALSE /\ twea = TRUE /\ tdata = Zero
  /\ acked = <<>> /\ got = <<>> /\ fate = "none"
  /\ heard = <<>> /\ answer = <<>> /\ sent = <<>>

-----------------------------------------------------------------------------
(* The sketch: twi_writeTo(address, d, length, 1) and twi_readFrom *)

DriverOnly == UNCHANGED <<twi_error, slarw, masterVars, busVars>>
KeepMaster == UNCHANGED <<acked, got, fate>>
NotSlave == UNCHANGED <<slaveTxVars, slaveRxVars, slaveHistory>>

\* A longer d is refused: 1 is returned and nothing changes.
CallWriteTo(d) ==
  /\ pc = "idle" /\ Len(d) <= Size
  /\ pc' = "w_ready" /\ data' = d
  /\ NotSlave /\ DriverOnly /\ KeepMaster /\ UNCHANGED <<twi_state, length>>

\* A greater n is refused: 0 is returned and nothing changes.
CallReadFrom(n) ==
  /\ pc = "idle" /\ n <= Size
  /\ pc' = "r_ready" /\ length' = n
  /\ NotSlave /\ DriverOnly /\ KeepMaster /\ UNCHANGED <<twi_state, data>>

\* while (TWI_READY != twi_state) ;
SeeReady ==
  /\ twi_state = "READY"
  /\ \/ pc = "w_ready" /\ pc' = "w_claim"
     \/ pc = "r_ready" /\ pc' = "r_claim"
  /\ NotSlave /\ DriverOnly /\ KeepMaster /\ UNCHANGED <<twi_state, data, length>>

Claim ==
  /\ \/ pc = "w_claim" /\ pc' = "w_start" /\ twi_state' = "MTX"
     \/ pc = "r_claim" /\ pc' = "r_start" /\ twi_state' = "MRX"
  /\ NotSlave /\ DriverOnly /\ KeepMaster /\ UNCHANGED <<data, length>>

\* A transaction is set up with last as twi_masterBufferLength, up to the
\* write of TWCR; nothing before that write depends on an interrupt.
Begin(rw, last) ==
  /\ twi_error' = "none" /\ slarw' = rw
  /\ masterIndex' = 0 /\ masterLength' = last
  /\ twsta' = TRUE /\ twea' = TRUE
  /\ acked' = <<>> /\ got' = <<>> /\ fate' = "none"
  /\ NotSlave /\ UNCHANGED <<twi_state, data, length, hw, tdata>>

\* Mutant: the length is not reduced by one.
StartReadFullLength ==
  /\ pc = "r_start" /\ pc' = "r_wait"
  /\ Begin("R", length) /\ UNCHANGED masterBuffer

\* Mutant: one too many is subtracted.
StartReadNoWrap ==
  /\ pc = "r_start" /\ pc' = "r_wait"
  /\ Begin("R", length - 2) /\ UNCHANGED masterBuffer

\* length - 1 in a uint8_t: for a length of zero it wraps.
StartRead ==
  /\ pc = "r_start" /\ pc' = "r_wait"
  /\ Begin("R", (length + Values - 1) % Values) /\ UNCHANGED masterBuffer

\* twi_writeTo when the caller's array holds d at the time of the copy.
StartWriteOf(d) ==
  /\ pc = "w_start" /\ pc' = "w_wait"
  /\ masterBuffer' = Copy(masterBuffer, d)
  /\ Begin("W", Len(data))

StartWrite == StartWriteOf(data)

\* The result of twi_writeTo.
Code == CASE twi_error = "none"         -> 0
          [] twi_error = "MT_SLA_NACK"  -> 2
          [] twi_error = "MT_DATA_NACK" -> 3
          [] OTHER                      -> 4

\* The call returns; its locals and the history of its transaction end.
Return == /\ pc' = "idle" /\ data' = <<>> /\ length' = 0
          /\ acked' = <<>> /\ got' = <<>> /\ fate' = "none"

\* twi_state and then twi_error are read: once the state has left MTX it does
\* not return, so a change between the reads is one before both.
WriteDone ==
  /\ pc = "w_wait" /\ twi_state # "MTX"
  /\ Return /\ NotSlave /\ DriverOnly /\ UNCHANGED twi_state

\* Mutant: the length asked for is copied.
BytesReadAll == Cells(masterBuffer, length)

\* The result of twi_readFrom: min(length, index) bytes.
BytesRead == Cells(masterBuffer, IF masterIndex < length THEN masterIndex ELSE length)

ReadDone ==
  /\ pc = "r_wait" /\ twi_state # "MRX"
  /\ Return /\ NotSlave /\ DriverOnly /\ UNCHANGED twi_state

Driver == SeeReady \/ Claim \/ StartRead \/ StartWrite \/ WriteDone \/ ReadDone
-----------------------------------------------------------------------------
(* TWI_vect: one action per status, with the bus event that raises it *)

\* twi_reply(ack): writing TWCR also withdraws a START request.
Reply(ack) == twsta' = FALSE /\ twea' = ack

\* twi_stop() and twi_releaseBus().
ToReady == Reply(TRUE) /\ hw' = "free" /\ twi_state' = "READY"

MasterOnly == NotSlave /\ UNCHANGED <<slarw, sketchVars>>

\* TW_START: the address goes out.
Start ==
  /\ hw = "free" /\ twsta
  /\ hw' = IF slarw = "W" THEN "mt_sla" ELSE "mr_sla"
  /\ Reply(TRUE)
  /\ MasterOnly /\ UNCHANGED <<twi_state, twi_error, masterVars, tdata, acked, got, fate>>

\* TW_MT_SLA_ACK, TW_MT_DATA_ACK: the next byte, or the end.
MtAck ==
  /\ hw \in {"mt_sla", "mt_data"}
  /\ acked' = IF hw = "mt_data" THEN Append(acked, tdata) ELSE acked
  /\ \/ /\ masterIndex < masterLength
        /\ tdata' = masterBuffer[masterIndex] /\ masterIndex' = masterIndex + 1
        /\ hw' = "mt_data" /\ Reply(TRUE)
        /\ UNCHANGED <<twi_state, fate>>
     \/ /\ masterIndex >= masterLength
        /\ ToReady /\ fate' = "done"
        /\ UNCHANGED <<tdata, masterIndex>>
  /\ MasterOnly /\ UNCHANGED <<twi_error, masterBuffer, masterLength, got>>

\* Mutant: the NACK is not recorded.
MtNackSilent ==
  /\ hw \in {"mt_sla", "mt_data"}
  /\ fate' = IF hw = "mt_sla" THEN "MT_SLA_NACK" ELSE "MT_DATA_NACK"
  /\ ToReady
  /\ MasterOnly /\ UNCHANGED <<twi_error, masterVars, tdata, acked, got>>

\* Mutant: the bus is released without going back to READY.
MtNackStuck ==
  /\ hw \in {"mt_sla", "mt_data"}
  /\ fate' = IF hw = "mt_sla" THEN "MT_SLA_NACK" ELSE "MT_DATA_NACK"
  /\ twi_error' = fate'
  /\ Reply(TRUE) /\ hw' = "free"
  /\ MasterOnly /\ UNCHANGED <<twi_state, masterVars, tdata, acked, got>>

\* TW_MT_SLA_NACK, TW_MT_DATA_NACK.
MtNack ==
  /\ hw \in {"mt_sla", "mt_data"}
  /\ fate' = IF hw = "mt_sla" THEN "MT_SLA_NACK" ELSE "MT_DATA_NACK"
  /\ twi_error' = fate'
  /\ ToReady
  /\ MasterOnly /\ UNCHANGED <<masterVars, tdata, acked, got>>

\* TW_MT_ARB_LOST and TW_MR_ARB_LOST, the same status.
ArbLost ==
  /\ OtherMaster
  /\ hw \in {"mt_sla", "mt_data", "mr_sla"} \/ (hw = "mr_data" /\ ~twea)
  /\ fate' = "ARB_LOST" /\ twi_error' = "ARB_LOST"
  /\ ToReady
  /\ MasterOnly /\ UNCHANGED <<masterVars, tdata, acked, got>>

\* TW_MR_SLA_ACK: acknowledge the coming byte if more are expected after it.
MrSlaAck ==
  /\ hw = "mr_sla"
  /\ hw' = "mr_data" /\ Reply(masterIndex < masterLength)
  /\ MasterOnly /\ UNCHANGED <<twi_state, twi_error, masterVars, tdata, acked, got, fate>>

\* TW_MR_DATA_ACK, which falls through to the case above.
MrDataAck(b) ==
  /\ hw = "mr_data" /\ twea
  /\ masterBuffer' = [k \in Cell |-> IF k = masterIndex THEN b ELSE masterBuffer[k]]
  /\ masterIndex' = masterIndex + 1
  /\ got' = Append(got, b)
  /\ UNCHANGED hw /\ Reply(masterIndex' < masterLength)
  /\ MasterOnly /\ UNCHANGED <<twi_state, twi_error, masterLength, tdata, acked, fate>>

\* TW_MR_DATA_NACK: the last byte.
MrDataNack(b) ==
  /\ hw = "mr_data" /\ ~twea
  /\ masterBuffer' = [k \in Cell |-> IF k = masterIndex THEN b ELSE masterBuffer[k]]
  /\ masterIndex' = masterIndex + 1
  /\ got' = Append(got, b) /\ fate' = "done"
  /\ ToReady
  /\ MasterOnly /\ UNCHANGED <<twi_error, masterLength, tdata, acked>>

\* TW_MR_SLA_NACK.
MrSlaNack ==
  /\ hw = "mr_sla"
  /\ fate' = "MR_SLA_NACK"
  /\ ToReady
  /\ MasterOnly /\ UNCHANGED <<twi_error, masterVars, tdata, acked, got>>

SlaveOnly == UNCHANGED <<twi_error, slarw, masterVars, sketchVars, acked, got>>

\* The other master addresses this device: on a free bus, also while a START is
\* still requested, or by winning the arbitration during the address.
Addressed == /\ OtherMaster /\ twea
             /\ Prompt => pc \notin {"w_claim", "r_claim", "w_start", "r_start"}
             /\ hw \in {"free", "mt_sla", "mr_sla"}
             /\ fate' = IF hw = "free" /\ ~twsta THEN fate ELSE "ADDRESSED"

\* Mutant: the index of the last session is kept.
SrSlaAckKeepsIndex ==
  /\ Addressed
  /\ hw' = "sr" /\ twi_state' = "SRX" /\ Reply(TRUE)
  /\ heard' = <<>>
  /\ SlaveOnly /\ UNCHANGED <<slaveTxVars, slaveRxVars, tdata, answer, sent>>

\* TW_SR_SLA_ACK and TW_SR_ARB_LOST_SLA_ACK.
SrSlaAck ==
  /\ Addressed
  /\ hw' = "sr" /\ twi_state' = "SRX" /\ rxIndex' = 0 /\ Reply(TRUE)
  /\ heard' = <<>>
  /\ SlaveOnly /\ UNCHANGED <<slaveTxVars, rxBuffer, tdata, answer, sent>>

\* Mutant: one byte too many is stored.
SrDataAckOneMore(b) ==
  /\ hw = "sr" /\ twea
  /\ heard' = Append(heard, b)
  /\ \/ /\ rxIndex <= Size
        /\ rxBuffer' = [k \in Cell |-> IF k = rxIndex THEN b ELSE rxBuffer[k]]
        /\ rxIndex' = rxIndex + 1
        /\ Reply(TRUE)
     \/ rxIndex > Size /\ Reply(FALSE) /\ UNCHANGED slaveRxVars
  /\ SlaveOnly
  /\ UNCHANGED <<twi_state, slaveTxVars, hw, tdata, fate, answer, sent>>

\* TW_SR_DATA_ACK: the byte was acknowledged already; the reply is for the next.
SrDataAck(b) ==
  /\ hw = "sr" /\ twea
  /\ heard' = Append(heard, b)
  /\ \/ /\ rxIndex < Size
        /\ rxBuffer' = [rxBuffer EXCEPT ![rxIndex] = b] /\ rxIndex' = rxIndex + 1
        /\ Reply(TRUE)
     \/ rxIndex >= Size /\ Reply(FALSE) /\ UNCHANGED slaveRxVars
  /\ SlaveOnly
  /\ UNCHANGED <<twi_state, slaveTxVars, hw, tdata, fate, answer, sent>>

\* TW_SR_DATA_NACK: without TWEA the device is no longer addressed and does
\* not answer its address any more.
SrDataNack ==
  /\ hw = "sr" /\ ~twea
  /\ hw' = "free" /\ Reply(FALSE) /\ heard' = <<>>
  /\ SlaveOnly
  /\ UNCHANGED <<twi_state, slaveTxVars, slaveRxVars, tdata, fate, answer, sent>>

\* The bytes the receive callback gets.
Received == Cells(rxBuffer, rxIndex)

\* TW_SR_STOP, but for what the callback does with Received.  twi_stop has made
\* the device addressable before the callback; if it is addressed again until
\* the callback ends, twi_releaseBus clears that interrupt unhandled.
SrStop ==
  /\ hw = "sr"
  /\ rxBuffer' = [k \in Cell |-> IF k = rxIndex THEN Zero ELSE rxBuffer[k]]
  /\ rxIndex' = 0
  /\ Reply(TRUE) /\ twi_state' = "READY"
  /\ heard' = <<>>
  /\ \/ hw' = "free" /\ UNCHANGED <<answer, sent>>
     \/ LongCallback /\ hw' = "sr" /\ UNCHANGED <<answer, sent>>
     \/ LongCallback /\ hw' = "st" /\ answer' = <<>> /\ sent' = <<>>
  /\ SlaveOnly /\ UNCHANGED <<slaveTxVars, tdata, fate>>

\* Mutant: one byte more than the reply has is offered.
SendByteOneMore(txb, n, k) ==
  /\ tdata' \in IF k \in Cell THEN {txb[k]} ELSE Byte
  /\ txIndex' = (k + 1) % Values
  /\ Reply(txIndex' <= n)

\* TW_ST_DATA_ACK with buffer txb of length n: the byte at index k goes out,
\* any byte if k is past the buffer.
SendByte(txb, n, k) ==
  /\ tdata' \in IF k \in Cell THEN {txb[k]} ELSE Byte
  /\ txIndex' = (k + 1) % Values
  /\ Reply(txIndex' < n)

\* What the slave sends when the callback hands r to twi_transmit: an r that is
\* empty (no call) or too long is refused and one zero byte goes out.
Refused(r) == r = <<>> \/ Len(r) > Size
Answer(r) == IF Refused(r) THEN <<Zero>> ELSE r

\* Mutant: the index of the last session is kept.
StSlaAckKeepsIndex(r) ==
  /\ Addressed
  /\ hw' = "st" /\ twi_state' = "STX"
  /\ txBuffer' = Copy(txBuffer, Answer(r)) /\ txLength' = Len(Answer(r))
  /\ SendByte(txBuffer', txLength', txIndex)
  /\ answer' = Answer(r) /\ sent' = <<tdata'>>
  /\ SlaveOnly /\ UNCHANGED <<slaveRxVars, heard>>

\* TW_ST_SLA_ACK and TW_ST_ARB_LOST_SLA_ACK.
StSlaAck(r) ==
  /\ Addressed
  /\ hw' = "st" /\ twi_state' = "STX"
  /\ txBuffer' = Copy(txBuffer, Answer(r)) /\ txLength' = Len(Answer(r))
  /\ SendByte(txBuffer', txLength', 0)
  /\ answer' = Answer(r) /\ sent' = <<tdata'>>
  /\ SlaveOnly /\ UNCHANGED <<slaveRxVars, heard>>

StDataAck ==
  /\ hw = "st" /\ twea
  /\ SendByte(txBuffer, txLength, txIndex)
  /\ sent' = IF answer = <<>> THEN sent ELSE Append(sent, tdata')
  /\ SlaveOnly
  /\ UNCHANGED <<twi_state, txBuffer, txLength, slaveRxVars, hw, fate, heard, answer>>

\* TW_ST_DATA_NACK, TW_ST_LAST_DATA.
StEnd ==
  /\ hw = "st"
  /\ ToReady /\ answer' = <<>> /\ sent' = <<>>
  /\ SlaveOnly /\ UNCHANGED <<slaveTxVars, slaveRxVars, tdata, fate, heard>>

\* TW_BUS_ERROR.
BusError ==
  /\ BusErrors /\ hw # "free"
  /\ twi_error' = "BUS_ERROR"
  /\ fate' = "BUS_ERROR"
  /\ ToReady
  /\ NotSlave /\ UNCHANGED <<slarw, masterVars, sketchVars, tdata, acked, got>>

MasterIsr == \/ Start \/ MtAck \/ MtNack \/ ArbLost
             \/ MrSlaAck \/ MrSlaNack
             \/ \E b \in Byte : MrDataAck(b) \/ MrDataNack(b)
SlaveIsr == \/ SrSlaAck \/ StDataAck \/ StEnd
            \/ \E b \in Byte : SrDataAck(b)
=============================================================================
