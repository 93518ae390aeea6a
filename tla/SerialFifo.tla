----------------------------- MODULE SerialFifo -----------------------------
(***************************************************************************)
(* What a serial port promises to a sketch, without indices, registers or  *)
(* interrupts: two bounded first-in first-out queues of bytes.  Bytes that *)
(* arrive while there is no room are lost, so an arrival that is not       *)
(* stored is a stuttering step here.  HardwareSerial implements it.        *)
(***************************************************************************)
EXTENDS Naturals, Sequences

CONSTANTS Byte,      \* the bytes that travel on the line
          Capacity   \* how many bytes each queue holds

VARIABLES rxq,       \* received and not yet read
          txq        \* written and not yet handed to the transmitter

fifoVars == <<rxq, txq>>

FifoTypeOK == rxq \in Seq(Byte) /\ txq \in Seq(Byte)

FifoInit == rxq = <<>> /\ txq = <<>>

\* A byte of the line is stored behind the bytes received before it.
Receive(b) == /\ Len(rxq) < Capacity
              /\ rxq' = Append(rxq, b)
              /\ UNCHANGED txq

\* The sketch takes the oldest byte received.
Deliver == /\ rxq # <<>>
           /\ rxq' = Tail(rxq)
           /\ UNCHANGED txq

\* Closing the port throws the unread bytes away.
Discard == rxq' = <<>> /\ UNCHANGED txq

\* The sketch queues a byte behind the bytes it wrote before.
Queue(b) == /\ Len(txq) < Capacity
            /\ txq' = Append(txq, b)
            /\ UNCHANGED rxq

\* The transmitter takes the oldest byte queued.
Send == /\ txq # <<>>
        /\ txq' = Tail(txq)
        /\ UNCHANGED rxq

FifoNext == \/ \E b \in Byte : Receive(b) \/ Queue(b)
            \/ Deliver \/ Discard \/ Send

FifoSpec == FifoInit /\ [][FifoNext]_fifoVars
=============================================================================
