----------------------------- MODULE EasyTransfer -----------------------------
(***************************************************************************)
(* EasyTransfer (libraries/Ebot/EasyTransfer.cpp) carries a struct from    *)
(* one robot to another over a serial line: two header bytes, the size,    *)
(* the struct, the exclusive or of size and struct.  The receiver parses   *)
(* whatever has arrived each time receiveData() is called.                 *)
(*                                                                         *)
(* It is composed with the two serial ports it uses, each seen as the      *)
(* queues of SerialFifo, which HardwareSerial implements.  The wire between *)
(* them delivers in order and may lose or change MaxFaults bytes; a byte   *)
(* dropped by a full receive buffer is a lost one.  Bytes arrive between   *)
(* any two reads of the receiver.                                          *)
(***************************************************************************)
EXTENDS Naturals, Sequences, SequencesExt

CONSTANTS Byte,         \* what the line can carry
          ByteXor(_, _), \* the exclusive or of two bytes
          Header1,      \* 0x06
          Header2,      \* 0x85
          Size,         \* size of the struct
          Structs,      \* the structs that are sent
          Capacity,     \* what the buffers of the two serial ports hold
          MaxFaults,    \* bound: bytes lost or changed
          MaxPending    \* bound: structs on their way

VARIABLES
  sending,          \* what sendData() still has to write
  line,             \* the transmit buffer of the sender's serial port
  arrived,          \* the receive buffer of the receiver's serial port
  stage,            \* where receiveData() is
  rx_len, rx_array_inx, rx_buffer,   \* EasyTransfer's members
  address,          \* the receiver's struct
  faults,           \* bytes lost or changed so far
  pending           \* history: structs sent, from the last one received on

parseVars == <<rx_len, rx_array_inx, rx_buffer>>
transferVars == <<sending, line, arrived, stage, parseVars, address, faults, pending>>

\* The sender's and the receiver's port; each uses one of its two queues.
Out == INSTANCE SerialFifo WITH rxq <- <<>>, txq <- line
In == INSTANCE SerialFifo WITH rxq <- arrived, txq <- <<>>

Cell == 0 .. Size
CheckSum(data) == FoldLeft(ByteXor, Size, data)
Packet(data) == <<Header1, Header2, Size>> \o data \o <<CheckSum(data)>>

\* The exclusive or of bytes is a byte.
ASSUME TransferAssumption == /\ {0, Header1, Header2, Size} \subseteq Byte
                             /\ Byte \subseteq Nat /\ Header1 # Header2
                             /\ Size \in Nat \ {0} /\ Capacity \in Nat /\ Capacity >= 3
                             /\ Structs \subseteq [1 .. Size -> Byte]
                             /\ \A data \in Structs : CheckSum(data) \in Byte
                             /\ MaxFaults \in Nat /\ MaxPending \in Nat

TransferInit ==
  /\ sending = <<>> /\ Out!FifoInit /\ In!FifoInit /\ stage = "idle"
  /\ rx_len = 0 /\ rx_array_inx = 0 /\ rx_buffer = [k \in Cell |-> 0]
  /\ address = <<>> /\ faults = 0 /\ pending = <<>>

-----------------------------------------------------------------------------
(* The sender and the line *)

\* sendData() composes its frame byte by byte ...
SendData(data) ==
  /\ sending = <<>> /\ Len(pending) < MaxPending
  /\ sending' = Packet(data) /\ pending' = Append(pending, data)
  /\ UNCHANGED <<line, arrived, stage, parseVars, address, faults>>

\* ... and each write() waits for room in the transmit buffer.
WriteByte ==
  /\ sending # <<>>
  /\ Out!Queue(Head(sending)) /\ sending' = Tail(sending)
  /\ UNCHANGED <<arrived, stage, parseVars, address, faults, pending>>

\* A byte leaves the one port and is received by the other, ...
Arrive ==
  /\ Out!Send /\ In!Receive(Head(line))
  /\ UNCHANGED <<sending, stage, parseVars, address, faults, pending>>

\* ... or gets lost, on the wire or because the receive buffer is full, ...
Lose ==
  /\ Out!Send /\ faults < MaxFaults
  /\ faults' = faults + 1
  /\ UNCHANGED <<sending, arrived, stage, parseVars, address, pending>>

\* ... or arrives as another.
Change(b) ==
  /\ Out!Send /\ faults < MaxFaults /\ b # Head(line)
  /\ In!Receive(b) /\ faults' = faults + 1
  /\ UNCHANGED <<sending, stage, parseVars, address, pending>>

-----------------------------------------------------------------------------
(* receiveData() *)

\* With the header found in an earlier call the struct is read, otherwise the
\* header is searched if 3 bytes are there; else the call returns at once.
Call ==
  /\ stage = "idle"
  /\ \/ rx_len # 0 /\ arrived # <<>> /\ stage' = "data"
     \/ rx_len = 0 /\ Len(arrived) >= 3 /\ stage' = "scan"
  /\ UNCHANGED <<sending, line, arrived, parseVars, address, faults, pending>>

\* Mutant: one byte more is dropped.
TrashOneMore ==
  /\ stage = "scan" /\ Head(arrived) # Header1
  /\ In!Deliver
  /\ stage' = IF Len(arrived) <= 2 THEN "idle" ELSE "scan"
  /\ UNCHANGED <<sending, line, parseVars, address, faults, pending>>

\* A byte before the header is dropped; with fewer than 3 left it returns.
Trash ==
  /\ stage = "scan" /\ Head(arrived) # Header1
  /\ In!Deliver
  /\ stage' = IF Len(arrived) <= 3 THEN "idle" ELSE "scan"
  /\ UNCHANGED <<sending, line, parseVars, address, faults, pending>>

FoundFirst ==
  /\ stage = "scan" /\ Head(arrived) = Header1
  /\ In!Deliver /\ stage' = "second"
  /\ UNCHANGED <<sending, line, parseVars, address, faults, pending>>

FoundSecond ==
  /\ stage = "second" /\ Head(arrived) = Header2
  /\ In!Deliver /\ stage' = "size"
  /\ UNCHANGED <<sending, line, parseVars, address, faults, pending>>

\* The third byte is the size, which must be the own one.
FoundSize ==
  /\ stage = "size"
  /\ In!Deliver
  /\ IF Head(arrived) = Size THEN rx_len' = Size /\ stage' = "data"
                             ELSE rx_len' = 0 /\ stage' = "idle"
  /\ UNCHANGED <<sending, line, rx_array_inx, rx_buffer, address, faults, pending>>

\* Any other byte there is dropped, even a first header byte.
NoSecond ==
  /\ stage = "second" /\ Head(arrived) # Header2
  /\ In!Deliver /\ stage' = "idle"
  /\ UNCHANGED <<sending, line, parseVars, address, faults, pending>>

\* Struct and checksum are stored as they come, ...
Store ==
  /\ stage = "data" /\ arrived # <<>> /\ rx_array_inx <= rx_len
  /\ rx_buffer' = [rx_buffer EXCEPT ![rx_array_inx] = Head(arrived)]
  /\ rx_array_inx' = rx_array_inx + 1 /\ In!Deliver
  /\ UNCHANGED <<sending, line, stage, rx_len, address, faults, pending>>

\* ... over as many calls as it takes.
Incomplete ==
  /\ stage = "data" /\ arrived = <<>> /\ rx_array_inx <= rx_len
  /\ stage' = "idle"
  /\ UNCHANGED <<sending, line, arrived, parseVars, address, faults, pending>>

Got == [k \in 1 .. Size |-> rx_buffer[k - 1]]
Whole == stage = "data" /\ rx_array_inx = rx_len + 1
Restart == rx_len' = 0 /\ rx_array_inx' = 0 /\ stage' = "idle"

\* The structs sent after the first one equal to data.
After(data, queue) ==
  IF \E k \in DOMAIN queue : queue[k] = data
  THEN SubSeq(queue, 1 + Min({k \in DOMAIN queue : queue[k] = data}), Len(queue))
  ELSE queue

\* Mutant: the checksum is not compared.
AcceptAny ==
  /\ Whole /\ Restart
  /\ address' = Got /\ pending' = After(Got, pending)
  /\ UNCHANGED <<sending, line, arrived, rx_buffer, faults>>

\* With the right checksum the struct is copied and true returned.
Accept ==
  /\ Whole /\ CheckSum(Got) = rx_buffer[Size] /\ Restart
  /\ address' = Got /\ pending' = After(Got, pending)
  /\ UNCHANGED <<sending, line, arrived, rx_buffer, faults>>

\* Mutant: the index is left behind.
RejectKeepsIndex ==
  /\ Whole /\ CheckSum(Got) # rx_buffer[Size]
  /\ rx_len' = 0 /\ stage' = "idle"
  /\ UNCHANGED <<sending, line, arrived, rx_array_inx, rx_buffer, address, faults, pending>>

\* With a wrong one it is dropped.
Reject ==
  /\ Whole /\ CheckSum(Got) # rx_buffer[Size] /\ Restart
  /\ UNCHANGED <<sending, line, arrived, rx_buffer, address, faults, pending>>

ReceiveData == \/ Call \/ Trash \/ FoundFirst \/ FoundSecond \/ FoundSize \/ NoSecond
               \/ Store \/ Incomplete \/ Accept \/ Reject

Line == Arrive \/ Lose \/ \E b \in Byte : Change(b)

Sender == WriteByte \/ \E data \in Structs : SendData(data)

TransferNext == ReceiveData \/ Line \/ Sender

TransferSpec == TransferInit /\ [][TransferNext]_transferVars

\* Both sketches send and call receiveData() in their loops, the line delivers.
FairTransferSpec == /\ TransferSpec /\ WF_transferVars(ReceiveData) /\ WF_transferVars(Arrive)
                    /\ WF_transferVars(Sender)
-----------------------------------------------------------------------------
(* Properties *)

\* Every variable has its type, and no read finds the receive buffer empty (it
\* would return -1): the counts tested before are enough for what is read after.
TransferTypeOK ==
  /\ sending \in Seq(Byte) /\ Out!FifoTypeOK /\ In!FifoTypeOK
  /\ Len(line) <= Capacity /\ Len(arrived) <= Capacity
  /\ stage \in {"idle", "scan", "second", "size", "data"}
  /\ rx_len \in {0, Size} /\ rx_array_inx \in 0 .. Size + 1
  /\ rx_buffer \in [Cell -> Byte] /\ address \in Seq(Byte)
  /\ faults \in 0 .. MaxFaults /\ Len(pending) <= MaxPending
  /\ stage = "scan" => Len(arrived) >= 3
  /\ stage = "second" => Len(arrived) >= 2
  /\ stage = "size" => arrived # <<>>

\* Nothing is accepted that was not sent, and nothing twice or out of order, even
\* when a byte was lost or changed: the size and the checksum show it.  While no
\* byte is lost or changed no struct is lost either.
SentInOrder ==
  [][Accept => \E k \in DOMAIN pending : pending[k] = Got /\ (faults = 0 => k = 1)]_transferVars

\* After the last fault the receiver finds a header again and goes on receiving,
\* for structs without header bytes whose checksum is not a header byte either.
KeepsReceiving == []<><<Accept>>_transferVars
=============================================================================
