--------------------------- MODULE HardwareSerial ---------------------------
(***************************************************************************)
(* The interrupt-driven serial port of the ebot_8 and ebot_4 cores:        *)
(* HardwareSerial.cpp's receive and transmit ring buffers, shared by the   *)
(* sketch's calls and by the two interrupt handlers of the USART.          *)
(*                                                                         *)
(* head and tail are `volatile unsigned int': 16 bits on an 8-bit machine, *)
(* so the sketch loads and stores each in two instructions and a handler   *)
(* may run between them.  Base is the number of values of one half (256);  *)
(* with Size > Base (1048, ebot_8) an index may be torn, with Size <= Base *)
(* (64, ebot_4) its high half is always zero and it never is.              *)
(*                                                                         *)
(* The AVR runs one instruction of the sketch after every handler, so at   *)
(* most one handler comes between two adjacent instructions: `gap'.        *)
(***************************************************************************)
EXTENDS Integers, Sequences

CONSTANTS Byte,       \* the bytes that travel on the line
          NoByte,     \* an empty register, or a cell never written
          Size,       \* SERIAL_BUFFER_SIZE
          Base,       \* values of one half of an index
          Calls,      \* the operations the sketch calls
          Reopen,     \* does the sketch call begin() on an open port?
          PromptIsr,  \* is a pending UDRE interrupt served within a byte time?
          MaxRx,      \* bound: bytes stored by the receive handler
          MaxTx       \* bound: bytes written by the sketch

ASSUME SizeAssumption == Size \in Nat /\ Size > 1
ASSUME BaseAssumption == Base \in Nat /\ Base > 0
ASSUME ByteAssumption == NoByte \notin Byte

VARIABLES
  rxBuf, rxHead, rxTail,   \* rx_buffer: cells and the two indices in memory
  txBuf, txHead, txTail,   \* tx_buffer
  open,                    \* RXEN, TXEN and RXCIE are set
  udrie,                   \* UDRIE: interrupt while the data register is empty
  udr, shift,              \* the transmit data register and shift register
  txc,                     \* TXC flag
  transmitting,            \* HardwareSerial::transmitting
  pc,                      \* where the sketch is
  seen,                    \* an index as it was when its first half was loaded
  i, c,                    \* the locals i and c of the running call
  ret,                     \* what the last call returned
  gap,                     \* a handler ran since the last adjacent instruction
  rxLog, rxRead,           \* history: bytes stored, bytes returned by read()
  lostAt,                  \* history: fill of the buffer at each dropped byte
  txLog, txWire            \* history: bytes written, bytes sent on the line

rxVars   == <<rxBuf, rxHead, rxTail, rxLog, rxRead, lostAt>>
txVars   == <<txBuf, txHead, txTail, txLog>>
lineVars == <<udr, shift, txc, txWire>>
mainVars == <<pc, seen, i, c, ret>>
vars == <<rxVars, txVars, lineVars, mainVars, open, udrie, transmitting, gap>>

-----------------------------------------------------------------------------
(* Indices *)

Index == 0 .. Size - 1

\* (x + 1) % SERIAL_BUFFER_SIZE
Succ(x) == IF x + 1 = Size THEN 0 ELSE x + 1

\* The high half of a with the low half of b.
Mix(a, b) == ((a \div Base) * Base) + (b % Base)

\* What a transfer in two halves can yield when one half belongs to a and the
\* other to b, in whichever order the halves are transferred.
Torn(a, b) == {Mix(a, b), Mix(b, a)}

\* The number of bytes between tail t and head h: the expression of available().
Count(h, t) == (Size + h - t) % Size

\* The cell k places behind index t.
Slot(t, k) == IF t + k < Size THEN t + k ELSE t + k - Size

-----------------------------------------------------------------------------
Init ==
  /\ rxBuf = [x \in Index |-> NoByte] /\ rxHead = 0 /\ rxTail = 0
  /\ txBuf = [x \in Index |-> NoByte] /\ txHead = 0 /\ txTail = 0
  /\ open = FALSE /\ udrie = FALSE /\ transmitting = FALSE
  /\ udr = NoByte /\ shift = NoByte /\ txc = FALSE
  /\ pc = "loop" /\ seen = 0 /\ i = 0 /\ c = NoByte /\ ret = 0 /\ gap = FALSE
  /\ rxLog = <<>> /\ rxRead = <<>> /\ lostAt = {}
  /\ txLog = <<>> /\ txWire = <<>>

-----------------------------------------------------------------------------
(* The sketch *)

\* The call returns value v.
Return(v) == /\ pc' = "loop" /\ seen' = 0 /\ i' = 0 /\ c' = NoByte /\ ret' = v
             /\ gap' = FALSE

\* The call goes on at label l.
Goto(l) == pc' = l /\ gap' = FALSE /\ UNCHANGED ret

Call(op) == pc = "loop" /\ op \in Calls

\* Both overloads leave the buffers as they are and write the baud rate and
\* UCSRA, which clears no TXC; begin(baud, config) leaves `transmitting' alone.
Begin(withConfig) ==
  /\ Call("begin")
  /\ ~open \/ Reopen
  /\ open' = TRUE /\ udrie' = FALSE
  /\ transmitting' = (withConfig /\ transmitting)
  /\ Return(0)
  /\ UNCHANGED <<rxVars, txVars, lineVars>>

\* read(), peek() and available() start by loading rx_buffer.head: first half.
LoadHead(op) ==
  /\ op \in {"read", "peek", "available"}
  /\ Call(op)
  /\ open
  /\ Goto(op)
  /\ seen' = rxHead
  /\ UNCHANGED <<rxVars, txVars, lineVars, i, c, open, udrie, transmitting>>

\* Second half of the load; available() returns the difference.
Available ==
  /\ pc = "available"
  /\ \E h \in Torn(seen, rxHead) : Return(Count(h, rxTail))
  /\ UNCHANGED <<rxVars, txVars, lineVars, open, udrie, transmitting>>

\* Mutant: a buffer that holds one byte counts as empty.
CompareHeadOffByOne ==
  /\ pc \in {"read", "peek"}
  /\ \E h \in Torn(seen, rxHead) :
       \/ h \in {rxTail, Succ(rxTail)} /\ Return(-1)
       \/ h \notin {rxTail, Succ(rxTail)}
          /\ Goto(IF pc = "read" THEN "read_c" ELSE "peek_c") /\ seen' = 0 /\ UNCHANGED <<i, c>>
  /\ UNCHANGED <<rxVars, txVars, lineVars, open, udrie, transmitting>>

\* Second half of the load, and the comparison with the tail.
CompareHead ==
  /\ pc \in {"read", "peek"}
  /\ \E h \in Torn(seen, rxHead) :
       \/ h = rxTail /\ Return(-1)
       \/ h # rxTail /\ Goto(IF pc = "read" THEN "read_c" ELSE "peek_c") /\ seen' = 0 /\ UNCHANGED <<i, c>>
  /\ UNCHANGED <<rxVars, txVars, lineVars, open, udrie, transmitting>>

Peek ==
  /\ pc = "peek_c"
  /\ Return(rxBuf[rxTail])
  /\ UNCHANGED <<rxVars, txVars, lineVars, open, udrie, transmitting>>

\* Mutant: the byte is taken from the cell after the tail.
ReadNextCell ==
  /\ pc = "read_c"
  /\ Goto("read_tail")
  /\ c' = rxBuf[Succ(rxTail)] /\ i' = Succ(rxTail)
  /\ UNCHANGED <<rxVars, txVars, lineVars, seen, open, udrie, transmitting>>

\* read() takes the byte, then stores the new tail in two halves.
ReadByte ==
  /\ pc = "read_c"
  /\ Goto("read_tail")
  /\ c' = rxBuf[rxTail] /\ i' = Succ(rxTail)
  /\ UNCHANGED <<rxVars, txVars, lineVars, seen, open, udrie, transmitting>>

ReadTail ==
  /\ pc = "read_tail"
  /\ Goto("read_tail2")
  /\ rxTail' \in Torn(rxTail, i)
  /\ UNCHANGED <<rxBuf, rxHead, rxLog, rxRead, lostAt, txVars, lineVars,
                 seen, i, c, open, udrie, transmitting>>

ReadTail2 ==
  /\ pc = "read_tail2"
  /\ rxTail' = i
  /\ rxRead' = Append(rxRead, c)
  /\ Return(c)
  /\ UNCHANGED <<rxBuf, rxHead, rxLog, lostAt, txVars, lineVars,
                 open, udrie, transmitting>>

Write(b) ==
  /\ Call("write")
  /\ open
  /\ Len(txLog) < MaxTx
  /\ Goto("write")
  /\ c' = b /\ i' = Succ(txHead)
  /\ UNCHANGED <<rxVars, txVars, lineVars, seen, open, udrie, transmitting>>

\* Both waiting loops load tx_buffer.tail in two halves and compare it.
LoadTail ==
  /\ pc \in {"write", "end"}
  /\ Goto(IF pc = "write" THEN "write_wait" ELSE "end_wait")
  /\ seen' = txTail
  /\ UNCHANGED <<rxVars, txVars, lineVars, i, c, open, udrie, transmitting>>

\* Mutant: `if' for `while': write() looks at the tail once.
WriteWaitOnce ==
  /\ pc = "write_wait"
  /\ Goto("write_put")
  /\ seen' = 0
  /\ UNCHANGED <<rxVars, txVars, lineVars, i, c, open, udrie, transmitting>>

\* while (i == _tx_buffer->tail) ;
WriteWait ==
  /\ pc = "write_wait"
  /\ \E t \in Torn(seen, txTail) : Goto(IF i = t THEN "write" ELSE "write_put")
  /\ seen' = 0
  /\ UNCHANGED <<rxVars, txVars, lineVars, i, c, open, udrie, transmitting>>

WritePut ==
  /\ pc = "write_put"
  /\ Goto("write_head")
  /\ txBuf' = [txBuf EXCEPT ![txHead] = c]
  /\ UNCHANGED <<rxVars, txHead, txTail, txLog, lineVars, seen, i, c,
                 open, udrie, transmitting>>

WriteHead ==
  /\ pc = "write_head"
  /\ Goto("write_head2")
  /\ txHead' \in Torn(txHead, i)
  /\ txLog' = Append(txLog, c)
  /\ UNCHANGED <<rxVars, txBuf, txTail, lineVars, seen, i, c,
                 open, udrie, transmitting>>

WriteHead2 ==
  /\ pc = "write_head2"
  /\ Goto("write_udrie")
  /\ txHead' = i
  /\ UNCHANGED <<rxVars, txBuf, txTail, txLog, lineVars, seen, i, c,
                 open, udrie, transmitting>>

\* Mutant: the transmit interrupt is not turned on.
WriteNoUdrie ==
  /\ pc = "write_udrie"
  /\ Goto("write_txc")
  /\ UNCHANGED <<rxVars, txVars, lineVars, seen, i, c, open, udrie, transmitting>>

WriteUdrie ==
  /\ pc = "write_udrie"
  /\ Goto("write_txc")
  /\ udrie' = TRUE
  /\ UNCHANGED <<rxVars, txVars, lineVars, seen, i, c, open, transmitting>>

\* Mutant: the TXC of an earlier byte is left standing.
WriteKeepTxc ==
  /\ pc = "write_txc"
  /\ transmitting' = TRUE
  /\ Return(1)
  /\ UNCHANGED <<rxVars, txVars, lineVars, open, udrie>>

\* transmitting = true; then writing a one to TXC clears it.
WriteTxc ==
  /\ pc = "write_txc"
  /\ transmitting' = TRUE /\ txc' = FALSE
  /\ Return(1)
  /\ UNCHANGED <<rxVars, txVars, udr, shift, txWire, open, udrie>>

StartWaiting(op) ==
  /\ op \in {"flush", "end"}
  /\ Call(op)
  /\ open
  /\ Goto(op)
  /\ UNCHANGED <<rxVars, txVars, lineVars, seen, i, c, open, udrie, transmitting>>

FlushDone ==
  /\ pc = "flush"
  /\ ~transmitting \/ txc
  /\ transmitting' = FALSE
  /\ Return(0)
  /\ UNCHANGED <<rxVars, txVars, lineVars, open, udrie>>

\* while (transmitting && ! TXC) ;
FlushSpin ==
  /\ pc = "flush"
  /\ transmitting /\ ~txc
  /\ UNCHANGED vars

\* while (_tx_buffer->head != _tx_buffer->tail) ;
EndWait ==
  /\ pc = "end_wait"
  /\ \E t \in Torn(seen, txTail) : Goto(IF txHead # t THEN "end" ELSE "end_off")
  /\ seen' = 0
  /\ UNCHANGED <<rxVars, txVars, lineVars, i, c, open, udrie, transmitting>>

\* The four enable bits are cleared, then the received bytes are forgotten.
EndOff ==
  /\ pc = "end_off"
  /\ Goto("end_clear")
  /\ open' = FALSE /\ udrie' = FALSE
  /\ UNCHANGED <<rxVars, txVars, lineVars, seen, i, c, transmitting>>

EndClear ==
  /\ pc = "end_clear"
  /\ rxHead' = rxTail /\ rxLog' = rxRead
  /\ Return(0)
  /\ UNCHANGED <<rxBuf, rxTail, rxRead, lostAt, txVars, lineVars,
                 open, udrie, transmitting>>

Sketch ==
  \/ \E withConfig \in BOOLEAN : Begin(withConfig)
  \/ \E op \in Calls : LoadHead(op) \/ StartWaiting(op)
  \/ Available \/ CompareHead \/ Peek \/ ReadByte \/ ReadTail \/ ReadTail2
  \/ \E b \in Byte : Write(b)
  \/ LoadTail \/ WriteWait \/ WritePut \/ WriteHead \/ WriteHead2
  \/ WriteUdrie \/ WriteTxc
  \/ FlushDone \/ FlushSpin
  \/ EndWait \/ EndOff \/ EndClear

-----------------------------------------------------------------------------
(* The interrupt handlers and the USART *)

\* The next instruction of the sketch follows the last one immediately.
Adjacent == pc \in {"available", "read", "peek", "read_tail2",
                    "write_wait", "write_head2", "end_wait"}

\* A handler may start: none ran yet in this gap.
Interrupt == ~gap /\ gap' = Adjacent

\* Mutant: one cell too many is kept free.
RxFullEarly == rxTail \in {Succ(rxHead), Succ(Succ(rxHead))}

\* store_char() compares with the tail in memory, torn or not.
RxFull == Succ(rxHead) = rxTail

RxStore(b) ==
  /\ ~RxFull
  /\ rxBuf' = [rxBuf EXCEPT ![rxHead] = b]
  /\ rxHead' = Succ(rxHead)
  /\ rxLog' = Append(rxLog, b)
  /\ UNCHANGED <<rxTail, rxRead, lostAt>>

RxDrop ==
  /\ RxFull
  /\ lostAt' = lostAt \cup {Len(rxLog) - Len(rxRead)}
  /\ UNCHANGED <<rxBuf, rxHead, rxTail, rxLog, rxRead>>

\* USART_RX_vect: a byte with a parity error is read and thrown away.
RxIsr ==
  /\ open
  /\ Interrupt
  /\ \/ Len(rxLog) < MaxRx /\ \E b \in Byte : RxStore(b)
     \/ RxDrop
     \/ UNCHANGED rxVars
  /\ UNCHANGED <<txVars, lineVars, mainVars, open, udrie, transmitting>>

\* USART_UDRE_vect with a buffer it sees empty: no more interrupts.
UdreStop ==
  /\ udrie /\ udr = NoByte
  /\ Interrupt
  /\ txHead = txTail
  /\ udrie' = FALSE
  /\ UNCHANGED <<rxVars, txVars, lineVars, mainVars, open, transmitting>>

\* USART_UDRE_vect otherwise: the oldest byte goes to UDR.
UdreSend ==
  /\ udrie /\ udr = NoByte
  /\ Interrupt
  /\ txHead # txTail
  /\ udr' = txBuf[txTail] /\ txTail' = Succ(txTail)
  /\ UNCHANGED <<rxVars, txBuf, txHead, txLog, shift, txc, txWire, mainVars,
                 open, udrie, transmitting>>

\* The transmitter moves UDR to an idle shift register at once.
LoadShift ==
  /\ udr # NoByte /\ shift = NoByte
  /\ shift' = udr /\ udr' = NoByte
  /\ UNCHANGED <<rxVars, txVars, txc, txWire, mainVars, open, udrie,
                 transmitting, gap>>

\* The last bit leaves: the next byte follows, or TXC is set if there is none.
ShiftOut ==
  /\ shift # NoByte
  /\ PromptIsr => ~(udrie /\ udr = NoByte)
  /\ txWire' = Append(txWire, shift)
  /\ shift' = udr /\ udr' = NoByte
  /\ txc' = (txc \/ udr = NoByte)
  /\ UNCHANGED <<rxVars, txVars, mainVars, open, udrie, transmitting, gap>>

Hardware == RxIsr \/ UdreStop \/ UdreSend \/ LoadShift \/ ShiftOut

Next == Sketch \/ Hardware

Spec == Init /\ [][Next]_vars

\* The sketch runs, the transmitter shifts, and a pending UDRE interrupt is
\* served even if other handlers keep taking their turn between instructions.
Fairness == /\ WF_vars(Sketch)
            /\ WF_vars(LoadShift) /\ WF_vars(ShiftOut)
            /\ SF_vars(UdreStop) /\ SF_vars(UdreSend)

FairSpec == Spec /\ Fairness

-----------------------------------------------------------------------------
(* Properties *)

Labels == {"loop", "available", "read", "read_c", "read_tail", "read_tail2",
           "peek", "peek_c", "write", "write_wait", "write_put", "write_head",
           "write_head2", "write_udrie", "write_txc", "flush",
           "end", "end_wait", "end_off", "end_clear"}

\* An index in memory may be torn, and is then any sum of two halves.
TypeOK ==
  /\ rxBuf \in [Index -> Byte \cup {NoByte}] /\ rxHead \in Index /\ rxTail \in Nat
  /\ txBuf \in [Index -> Byte \cup {NoByte}] /\ txHead \in Nat /\ txTail \in Index
  /\ open \in BOOLEAN /\ udrie \in BOOLEAN /\ transmitting \in BOOLEAN
  /\ udr \in Byte \cup {NoByte} /\ shift \in Byte \cup {NoByte} /\ txc \in BOOLEAN
  /\ pc \in Labels /\ seen \in Nat /\ i \in Index /\ c \in Byte \cup {NoByte}
  /\ gap \in BOOLEAN
  /\ rxLog \in Seq(Byte) /\ rxRead \in Seq(Byte)
  /\ txLog \in Seq(Byte) /\ txWire \in Seq(Byte)

\* Sequence s begins with sequence p.
Begins(p, s) == /\ Len(p) <= Len(s)
                /\ \A k \in 1 .. Len(p) : p[k] = s[k]

\* read() returns the bytes store_char() stored, each once and in the order
\* they were stored, however its two-instruction index transfers interleave
\* with the receive handler.
RxInOrder == Begins(rxRead, rxLog)

\* What leaves the transmitter is what write() was given: no byte is lost,
\* repeated or reordered, and no cell is sent before it is written.
TxInOrder == Begins(txWire, txLog)

\* Both at once: no byte is corrupted, repeated or reordered in either direction.
BytesInOrder == RxInOrder /\ TxInOrder

\* A byte is dropped only when the receive buffer holds Size - 1 bytes, as the
\* comment in store_char() says.
DropOnlyWhenFull == lostAt \subseteq {Size - 1}

\* The calls see what the handler has stored: available() returns a number of
\* bytes that were there between its call and its return, read() and peek()
\* return -1 only if the buffer was empty when they began, and peek() otherwise
\* returns the byte the next read() will return.
StoredIsSeen ==
  [][/\ pc = "available" /\ pc' = "loop"
          => ret' \in Count(seen, rxTail) .. Count(rxHead, rxTail)
     /\ pc \in {"read", "peek"} /\ pc' = "loop" => seen = rxTail
     /\ pc = "peek_c" /\ pc' = "loop" => ret' = rxLog[Len(rxRead) + 1]]_vars

\* The waiting calls wait long enough: flush() that finds `transmitting' set
\* returns only after every byte written has left the transmitter (begin()
\* resets it, whatever is on its way), and end() stops the transmitter only
\* after the buffer has been handed to it.
Drained ==
  [][/\ pc = "flush" /\ pc' = "loop" /\ transmitting => Len(txWire) = Len(txLog)
     /\ pc = "end_wait" /\ pc' = "end_off" => txHead = txTail]_vars

\* Every write(), read() and end() returns, the waiting ones because the UDRE
\* handler makes room.
CallsReturn == pc \notin {"loop", "flush"} ~> pc = "loop"

\* Every byte written is sent in the end.
WrittenIsSent == \A n \in 1 .. MaxTx : Len(txLog) >= n ~> Len(txWire) >= n

-----------------------------------------------------------------------------
(* What the rings hold, and the port as two queues *)

\* The index the sketch is storing, or else the index in memory.
RxTailNow == IF pc = "read_tail2" THEN i ELSE rxTail
TxHeadNow == IF pc = "write_head2" THEN i ELSE txHead

\* The number of cells from tail t to head h.
Dist(h, t) == IF h >= t THEN h - t ELSE Size + h - t

\* How many bytes left the rings: those read() returned or is about to, and
\* those in or through the transmitter.
Taken == Len(rxRead) + (IF pc = "read_tail2" THEN 1 ELSE 0)
Sent == Len(txWire) + (IF shift = NoByte THEN 0 ELSE 1) + (IF udr = NoByte THEN 0 ELSE 1)

\* The cells from tail t on hold the bytes of log after the first n.
Holds(buf, h, t, log, n) ==
  /\ h \in Index /\ t \in Index
  /\ Dist(h, t) = Len(log) - n
  /\ \A k \in 1 .. Dist(h, t) : buf[Slot(t, k - 1)] = log[n + k]

\* The receive ring at every instruction of the sketch.  Where a load or a
\* store is half done, what is known depends on whether a handler ran.
RxRing ==
  /\ Holds(rxBuf, rxHead, RxTailNow, rxLog, Taken)
  /\ pc \in {"read_c", "peek_c", "read_tail"} => rxHead # rxTail
  /\ pc = "read_tail" => i = Succ(rxTail) /\ c = rxBuf[rxTail]
  /\ pc = "read_tail2" => /\ Taken <= Len(rxLog)
                          /\ c = rxLog[Taken]
                          /\ (~gap => Dist(rxHead, i) < Size - 1)
  /\ pc \in {"read", "peek"} => seen = rxHead \/ (gap /\ rxHead # rxTail)

\* The transmit ring and the transmitter at every instruction of the sketch.
TxRing ==
  /\ Holds(txBuf, TxHeadNow, txTail, txLog, Sent)
  /\ pc \in {"write", "write_wait", "write_put", "write_head"}
       => i = Succ(txHead) /\ c \in Byte
  /\ pc = "write_wait" => seen = txTail \/ (gap /\ Succ(txHead) # txTail)
  /\ pc \in {"write_put", "write_head"} => Succ(txHead) # txTail
  /\ pc = "write_head" => txBuf[txHead] = c
  /\ pc = "write_head2" => (~gap => i # txTail)
  /\ shift # NoByte => shift = txLog[Len(txWire) + 1]
  /\ udr # NoByte => udr = txLog[Sent]

Pending(buf, h, t) == [k \in 1 .. Dist(h, t) |-> buf[Slot(t, k - 1)]]

Fifo == INSTANCE SerialFifo
          WITH Capacity <- Size - 1,
               rxq <- Pending(rxBuf, rxHead, RxTailNow),
               txq <- Pending(txBuf, TxHeadNow, txTail)

\* The two rings implement the two queues of SerialFifo.
ImplementsFifo == Fifo!FifoSpec
=============================================================================
