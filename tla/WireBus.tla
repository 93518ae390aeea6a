------------------------------- MODULE WireBus -------------------------------
(***************************************************************************)
(* The Wire library on its driver and the bus: every call that Wire makes  *)
(* of twi.c, and every call that the handler makes of Wire, is one step of *)
(* both modules.  The driver's arrays are twi_rxBuffer and twi_txBuffer,   *)
(* apart from Wire's own.  Or, with no bound on what happens, Wire alone   *)
(* on a driver that may do anything its calls allow.                       *)
(***************************************************************************)
EXTENDS Wire

CONSTANTS Values,           \* as in Twi
          Quantities,       \* what requestFrom() asks for
          MaxSession,       \* bound: bytes of a session of the other master
          MaxTransactions   \* bound: calls to the driver and sessions of the other master

ASSUME BoundAssumption == /\ Values \in Nat /\ Values > Size
                          /\ Quantities \subseteq 1 .. Size
                          /\ MaxSession \in 1 .. Size   \* module Twi does longer ones
                          /\ MaxTransactions \in Nat

VARIABLES
  twi_state, twi_error, slarw, masterBuffer, masterIndex, masterLength,
  twi_txBuffer, twi_txIndex, twi_txLength, twi_rxBuffer, twi_rxIndex,
  twi_pc, data, length, hw, twsta, twea, tdata,
  acked, got, fate, heard, answer, replied,
  composed,       \* is the driver there?  It never changes
  transactions    \* begun so far

driverAndBus == <<twi_state, twi_error, slarw, masterBuffer, masterIndex, masterLength,
                  twi_txBuffer, twi_txIndex, twi_txLength, twi_rxBuffer, twi_rxIndex,
                  twi_pc, data, length, hw, twsta, twea, tdata,
                  acked, got, fate, heard, answer, replied>>
allVars == <<vars, driverAndBus, composed, transactions>>

T == INSTANCE Twi WITH
       txBuffer <- twi_txBuffer, txIndex <- twi_txIndex, txLength <- twi_txLength,
       rxBuffer <- twi_rxBuffer, rxIndex <- twi_rxIndex, pc <- twi_pc, sent <- replied,
       OtherMaster <- TRUE, BusErrors <- TRUE, Prompt <- TRUE, LongCallback <- FALSE,
       ReadLengths <- Quantities, WriteLengths <- 0 .. Size

BusInit == Init /\ T!TwiInit /\ composed \in BOOLEAN /\ transactions = 0

-----------------------------------------------------------------------------
(* The sketch *)

\* The steps of Wire that call nothing.
Local == /\ \/ BeginTransmission \/ WriteStore \/ WriteAdvance \/ CopyByte
            \/ ResetIterator \/ Read
            \/ \E b \in Byte : Write(b)
         /\ UNCHANGED driverAndBus

\* Mutant: the whole buffer is offered.
CallsWriteToWhole ==
  /\ EndTransmission
  /\ IF txLength > Size THEN UNCHANGED driverAndBus ELSE T!CallWriteTo(Cells(txBuffer, Size))

\* A length past its buffer is refused by twi_writeTo before it does anything.
CallsWriteTo ==
  /\ EndTransmission
  /\ IF txLength > Size THEN UNCHANGED driverAndBus ELSE T!CallWriteTo(Cells(txBuffer, txLength))

CallsReadFrom == RequestFrom /\ \E n \in Quantities : T!CallReadFrom(n)

\* twi_writeTo waits with a pointer to txBuffer and reads it when the bus is free.
CopiesTxBuffer == DriverTakes /\ T!StartWriteOf(Cells(txBuffer, count))

ReturnsCode == /\ TransmissionOver
               /\ IF twi_pc = "idle" THEN UNCHANGED driverAndBus ELSE T!WriteDone

ReturnsBytes == DriverGives(T!BytesRead) /\ T!ReadDone

-----------------------------------------------------------------------------
(* The handler *)

\* twi_onSlaveReceive is onReceiveService, ...
Receives == T!SrStop /\ OnReceive(T!Received)

\* ... twi_onSlaveTransmit is onRequestService: write() of its callback reaches
\* twi_transmit only if the sketch is not in a transmission.
Replies(r) == T!StSlaAck(IF transmitting THEN <<>> ELSE r) /\ OnRequest(r)

Inside == /\ \/ T!SeeReady \/ T!Claim \/ T!StartRead
             \/ T!MasterIsr \/ T!StDataAck \/ T!StEnd \/ T!BusError
             \/ \E b \in Byte : T!SrDataAck(b)
          /\ Len(heard') <= MaxSession /\ Len(replied') <= MaxSession
          /\ UNCHANGED vars

\* What begins a transaction on the bus, and the rest.
Begins == \/ CallsWriteTo \/ CallsReadFrom
          \/ \E r \in Words : Replies(r)
          \/ T!SrSlaAck /\ UNCHANGED vars

GoesOn == Local \/ CopiesTxBuffer \/ ReturnsCode \/ ReturnsBytes \/ Receives \/ Inside

BusNext == /\ \/ /\ composed /\ Begins
                 /\ transactions < MaxTransactions /\ transactions' = transactions + 1
              \/ composed /\ GoesOn /\ UNCHANGED transactions
              \/ ~composed /\ Next /\ UNCHANGED <<driverAndBus, transactions>>
           /\ UNCHANGED composed

BusSpec == BusInit /\ [][BusNext]_allVars

-----------------------------------------------------------------------------
(* Properties *)

\* From the sketch to the bus and back: if endTransmission() returns 0 and the
\* device was not addressed meanwhile, the slave has acknowledged what write()
\* accepted, unless a request killed it; and requestFrom() leaves to read() what
\* the slave sent.
AcrossTheBus ==
  [][/\ ReturnsCode /\ twi_pc = "w_wait" /\ T!Code = 0 /\ fate # "ADDRESSED" =>
          acked = sent /\ (~killed => acked = written)
     /\ ReturnsBytes => due' = got]_allVars
=============================================================================
