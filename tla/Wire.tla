-------------------------------- MODULE Wire --------------------------------
(***************************************************************************)
(* The Wire library (libraries/Wire/Wire.cpp): beginTransmission, write,   *)
(* endTransmission, requestFrom and read of the sketch, interleaved with   *)
(* onReceiveService and onRequestService, which the two-wire interrupt     *)
(* handler calls when another master addresses the device and which use    *)
(* the same two buffers.  Both user callbacks are registered.              *)
(*                                                                         *)
(* Of the driver below (module Twi) only its calls are seen here: it takes *)
(* the bytes from txBuffer some time after twi_writeTo is called, and      *)
(* twi_readFrom returns any bytes up to the length asked for.              *)
(***************************************************************************)
EXTENDS Naturals, Sequences

CONSTANTS Byte,        \* data bytes
          Zero,        \* the initial value of every cell
          Size,        \* BUFFER_LENGTH, equal to TWI_BUFFER_LENGTH
          QuickReset,  \* does no reception end between a reading and requestFrom's return?
          MaxWritten   \* bound: write() calls in one transmission

ASSUME WireAssumption == /\ Zero \in Byte
                         /\ Size \in Nat /\ Size > 0
                         /\ MaxWritten \in Nat

VARIABLES
  pc,                               \* where the sketch is
  rxBuffer, rxIndex, rxLength,      \* TwoWire::rxBuffer ...
  txBuffer, txIndex, txLength,      \* TwoWire::txBuffer ...
  transmitting,
  byte, index,         \* write(): the byte, and txBufferIndex as loaded
  count,               \* twi_writeTo(): its length; twi_readFrom(): bytes copied
  reply,               \* twi_readFrom(): the bytes that came, still to be copied
  written,             \* history: bytes accepted since beginTransmission
  killed,              \* history: has a request come since beginTransmission?
  sent,                \* history: what the driver took for the bus
  due                  \* history: bytes read() has to return

rxVars == <<rxBuffer, rxIndex, rxLength, due>>
txVars == <<txBuffer, txIndex, txLength, transmitting, killed>>
writeVars == <<byte, index, written>>
driverVars == <<count, reply, sent>>
vars == <<pc, rxVars, txVars, writeVars, driverVars>>

Cell == 0 .. Size - 1
Word(n) == [1 .. n -> Byte]
Words == UNION {Word(n) : n \in 0 .. Size}
Cells(buffer, n) == [k \in 1 .. n |-> buffer[k - 1]]
Copy(buffer, d) == [k \in Cell |-> IF k < Len(d) THEN d[k + 1] ELSE buffer[k]]

Init ==
  /\ pc = "idle"
  /\ rxBuffer = [k \in Cell |-> Zero] /\ rxIndex = 0 /\ rxLength = 0
  /\ txBuffer = [k \in Cell |-> Zero] /\ txIndex = 0 /\ txLength = 0
  /\ transmitting = FALSE /\ byte = Zero /\ index = 0 /\ count = 0
  /\ written = <<>> /\ killed = FALSE /\ sent = <<>> /\ due = <<>>
  /\ reply = <<>>

-----------------------------------------------------------------------------
(* The sketch *)

BeginTransmission ==
  /\ pc = "idle"
  /\ transmitting' = TRUE /\ txIndex' = 0 /\ txLength' = 0
  /\ written' = <<>> /\ killed' = FALSE
  /\ UNCHANGED <<pc, rxVars, txBuffer, byte, index, driverVars>>

\* Mutant: the length is not tested.
WriteUnchecked(b) ==
  /\ pc = "idle" /\ transmitting /\ Len(written) < MaxWritten
  /\ pc' = "store" /\ byte' = b
  /\ UNCHANGED <<rxVars, txVars, index, written, driverVars>>

\* write(b) after beginTransmission: with a full buffer 0 is returned and
\* nothing changes, otherwise ...
Write(b) ==
  /\ pc = "idle" /\ transmitting /\ Len(written) < MaxWritten
  /\ txLength < Size
  /\ pc' = "store" /\ byte' = b
  /\ UNCHANGED <<rxVars, txVars, index, written, driverVars>>

\* ... the index is loaded and the byte stored (outside txBuffer if the index
\* has become Size), ...
WriteStore ==
  /\ pc = "store" /\ pc' = "advance"
  /\ index' = txIndex
  /\ txBuffer' = [k \in Cell |-> IF k = txIndex THEN byte ELSE txBuffer[k]]
  /\ UNCHANGED <<rxVars, txIndex, txLength, transmitting, killed, byte, written, driverVars>>

\* Mutant: the length is left behind.
WriteAdvanceIndex ==
  /\ pc = "advance" /\ pc' = "idle"
  /\ txIndex' = index + 1
  /\ written' = Append(written, byte) /\ byte' = Zero /\ index' = 0
  /\ UNCHANGED <<rxVars, txBuffer, txLength, transmitting, killed, driverVars>>

\* ... and the loaded index plus one becomes index and length.
WriteAdvance ==
  /\ pc = "advance" /\ pc' = "idle"
  /\ txIndex' = index + 1 /\ txLength' = index + 1
  /\ written' = Append(written, byte) /\ byte' = Zero /\ index' = 0
  /\ UNCHANGED <<rxVars, txBuffer, transmitting, killed, driverVars>>

\* endTransmission calls twi_writeTo, which refuses a length past its buffer.
EndTransmission ==
  /\ pc = "idle" /\ transmitting
  /\ count' = txLength
  /\ pc' = IF txLength > Size THEN "ended" ELSE "ending"
  /\ UNCHANGED <<rxVars, txVars, writeVars, reply, sent>>

\* Later, the bus being free, the driver copies from txBuffer itself.
DriverTakes ==
  /\ pc = "ending" /\ pc' = "ended"
  /\ sent' = Cells(txBuffer, count)
  /\ UNCHANGED <<rxVars, txVars, writeVars, count, reply>>

TransmissionOver ==
  /\ pc = "ended" /\ pc' = "idle"
  /\ txIndex' = 0 /\ txLength' = 0 /\ transmitting' = FALSE
  /\ count' = 0 /\ sent' = <<>> /\ written' = <<>> /\ killed' = FALSE
  /\ UNCHANGED <<rxVars, txBuffer, byte, index, reply>>

\* requestFrom: the quantity is clamped to the buffer, so that twi_readFrom
\* never refuses it.
RequestFrom ==
  /\ pc = "idle" /\ pc' = "requesting"
  /\ UNCHANGED <<rxVars, txVars, writeVars, driverVars>>

\* The transaction is over: twi_readFrom has the bytes d in the driver's buffer
\* and will copy them to rxBuffer, which requestFrom passed to it, ...
DriverGives(d) ==
  /\ pc = "requesting" /\ pc' = "copying"
  /\ reply' = d /\ count' = 0 /\ due' = d
  /\ UNCHANGED <<rxBuffer, rxIndex, rxLength, txVars, writeVars, sent>>

\* ... byte by byte, with interrupts on.
CopyByte ==
  /\ pc = "copying" /\ count < Len(reply)
  /\ rxBuffer' = [rxBuffer EXCEPT ![count] = reply[count + 1]]
  /\ count' = count + 1
  /\ UNCHANGED <<pc, rxIndex, rxLength, due, reply, txVars, writeVars, sent>>

\* Then twi_readFrom returns the length and requestFrom sets the iterator.
ResetIterator ==
  /\ pc = "copying" /\ count = Len(reply) /\ pc' = "idle"
  /\ rxIndex' = 0 /\ rxLength' = count /\ count' = 0 /\ reply' = <<>>
  /\ UNCHANGED <<rxBuffer, due, txVars, writeVars, sent>>

\* read(): with nothing left -1 is returned and nothing changes.  One step, for
\* while bytes are left onReceiveService keeps away.
Read ==
  /\ pc = "idle" /\ rxIndex < rxLength
  /\ rxIndex' = rxIndex + 1 /\ due' = SubSeq(due, 2, Len(due))
  /\ UNCHANGED <<pc, rxBuffer, rxLength, txVars, writeVars, driverVars>>
-----------------------------------------------------------------------------
(* What the interrupt handler calls, between any two steps of the sketch *)

\* The reception d becomes the bytes to read, the callback reads some of them.
Deliver(d, from) ==
  /\ rxBuffer' = Copy(rxBuffer, d) /\ rxLength' = Len(d)
  /\ rxIndex' \in from .. Len(d)
  /\ due' = SubSeq(d, rxIndex' + 1, Len(d))

OnReceiveKeepsIndex(d) ==
  /\ QuickReset => pc # "copying"
  /\ IF rxIndex < rxLength THEN UNCHANGED rxVars
     ELSE /\ rxBuffer' = Copy(rxBuffer, d) /\ rxLength' = Len(d)
          /\ rxIndex' = rxIndex /\ due' = d
  /\ UNCHANGED <<pc, txVars, writeVars, driverVars>>

\* onReceiveService: while bytes are unread a reception is dropped.
OnReceive(d) ==
  /\ QuickReset => pc # "copying"
  /\ IF rxIndex < rxLength THEN UNCHANGED rxVars ELSE Deliver(d, 0)
  /\ UNCHANGED <<pc, txVars, writeVars, driverVars>>

\* onRequestService resets the transmit iterator; the callback writes r, which
\* lands in txBuffer if the sketch is transmitting and else goes to the driver.
OnRequest(r) ==
  LET n == IF transmitting THEN Len(r) ELSE 0 IN
    /\ txIndex' = n /\ txLength' = n
    /\ txBuffer' = Copy(txBuffer, SubSeq(r, 1, n))
    /\ killed' = TRUE
    /\ UNCHANGED <<pc, transmitting, rxVars, writeVars, driverVars>>

Sketch == \/ BeginTransmission \/ WriteStore \/ WriteAdvance
          \/ EndTransmission \/ DriverTakes \/ TransmissionOver
          \/ RequestFrom \/ CopyByte \/ ResetIterator \/ Read
          \/ \E b \in Byte : Write(b)
          \/ \E d \in Words : DriverGives(d)

Next == Sketch \/ \E d \in Words : OnReceive(d) \/ OnRequest(d)

Spec == Init /\ [][Next]_vars
-----------------------------------------------------------------------------
(* Properties *)

TypeOK ==
  /\ pc \in {"idle", "store", "advance", "ending", "ended", "requesting", "copying"}
  /\ rxBuffer \in [Cell -> Byte] /\ rxIndex \in 0 .. Size /\ rxLength \in 0 .. Size
  /\ txBuffer \in [Cell -> Byte] /\ txIndex \in 0 .. Size + 1 /\ txLength \in 0 .. Size + 1
  /\ transmitting \in BOOLEAN /\ killed \in BOOLEAN
  /\ byte \in Byte /\ index \in 0 .. Size /\ count \in 0 .. Size + 1
  /\ written \in Seq(Byte) /\ sent \in Seq(Byte) /\ due \in Seq(Byte)
  /\ reply \in Words

\* What endTransmission hands to the bus is what write() accepted, unless a
\* request came in between: that kills the transmission, says onRequestService.
TransmissionIntact == [][DriverTakes /\ ~killed => sent' = written]_vars

\* read() returns the bytes of the last requestFrom or of the last reception
\* that was not dropped, in order, whatever else happens on the bus; unread bytes
\* stay until they are read or a requestFrom replaces them.
ReadReturnsDue ==
  [][/\ Read => due # <<>> /\ rxBuffer[rxIndex] = due[1]
     /\ rxIndex < rxLength => \/ due' = due \/ pc = "requesting"
                              \/ Read /\ due' = SubSeq(due, 2, Len(due))]_vars
=============================================================================
