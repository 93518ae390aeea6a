---------------------------- MODULE ReceiverProofs ----------------------------
(***************************************************************************)
(* The two receivers of commands from another robot or a remote control,   *)
(* which share no state.                                                   *)
(*                                                                         *)
(* EasyTransfer for every struct size, every set of structs, buffers of    *)
(* any capacity and any number of faults: no read of receiveData() finds   *)
(* the receive buffer empty, and up to the first byte lost or changed it   *)
(* accepts the structs in the order in which they were sent, and drops     *)
(* none of them, whatever bytes they hold.                                 *)
(*                                                                         *)
(* IR for every buffer length, gap, timer width and bit length: the        *)
(* recorder follows the line, what decode() gets is what was on it, a key  *)
(* is reported once, and a command fits its bits.                          *)
(***************************************************************************)
EXTENDS EasyTransfer, IrReceiver, SequenceTheorems, WellFoundedInduction, TLAPS

-----------------------------------------------------------------------------
(* EasyTransfer *)

\* TransferTypeOK, and what the code has of its members at each of its steps.
TransferTypes ==
  /\ TransferTypeOK /\ pending \in Seq(Structs)
  /\ stage \in {"scan", "second", "size"} => rx_len = 0
  /\ stage = "data" => rx_len = Size
  /\ rx_len = 0 => rx_array_inx = 0

FrameLength == Size + 4

\* A set of numbers has a least one.
LEMMA MinFacts == ASSUME NEW S, S \subseteq Nat, S # {}
                  PROVE  Min(S) \in S /\ \A y \in S : Min(S) <= y
<1> DEFINE R == OpToRel(<, Nat)
<1>1. IsWellFoundedOn(R, Nat)
  BY NatLessThanWellFounded
<1>2. PICK x \in S : \A y \in S : <<y, x>> \notin R
  <2> HIDE DEF R
  <2> QED BY <1>1, WFMin
<1>3. \A y \in S : ~(y < x)
  <2> SUFFICES ASSUME NEW y \in S, y < x PROVE FALSE
    OBVIOUS
  <2>1. y \in Nat /\ x \in Nat
    OBVIOUS
  <2>2. <<y, x>> \in R
    BY <2>1, Zenon DEF OpToRel
  <2> QED BY <1>2, <2>2, Zenon
<1>4. \A y \in S : x <= y
  BY <1>3
<1> QED BY <1>4 DEF Min

LEMMA FrameFacts ==
  ASSUME NEW data \in Structs
  PROVE  /\ Packet(data) \in Seq(Byte) /\ Len(Packet(data)) = FrameLength
         /\ Packet(data)[1] = Header1 /\ Packet(data)[2] = Header2 /\ Packet(data)[3] = Size
         /\ \A k \in 1 .. Size : Packet(data)[3 + k] = data[k]
         /\ Packet(data)[FrameLength] = CheckSum(data)
<1>1. /\ Size \in Nat /\ data \in [1 .. Size -> Byte] /\ CheckSum(data) \in Byte
      /\ Header1 \in Byte /\ Header2 \in Byte /\ Size \in Byte
  BY TransferAssumption
<1>2. data \in Seq(Byte) /\ Len(data) = Size
  BY <1>1
<1> DEFINE h == <<Header1, Header2, Size>>
<1>3. h \in Seq(Byte)
  BY <1>1
<1>4. Len(h) = 3 /\ h[1] = Header1 /\ h[2] = Header2 /\ h[3] = Size
  OBVIOUS
<1> HIDE DEF h
<1>5. PICK c \in Byte : c = CheckSum(data)
  BY <1>1
<1>6. PICK hd \in Seq(Byte) : hd = h \o data
  BY <1>2, <1>3, ConcatProperties
<1>7. /\ Len(hd) = 3 + Size
      /\ \A k \in 1 .. 3 + Size : hd[k] = IF k <= 3 THEN h[k] ELSE data[k - 3]
  <2>1. /\ Len(hd) = Len(h) + Len(data)
        /\ \A k \in 1 .. Len(h) + Len(data) :
             hd[k] = IF k <= Len(h) THEN h[k] ELSE data[k - Len(h)]
    BY <1>2, <1>3, <1>6, ConcatProperties
  <2> QED BY <1>1, <1>2, <1>4, <2>1
<1>8. Packet(data) = hd \o <<c>>
  BY <1>5, <1>6 DEF Packet, h
<1>9. /\ hd \o <<c>> \in Seq(Byte) /\ Len(hd \o <<c>>) = Size + 4
      /\ \A k \in 1 .. Size + 4 : (hd \o <<c>>)[k] = IF k <= 3 + Size THEN hd[k] ELSE c
  BY <1>1, <1>7
<1>10. \A k \in 1 .. Size : (hd \o <<c>>)[3 + k] = data[k]
  BY <1>1, <1>7, <1>9
<1>11. (hd \o <<c>>)[1] = Header1 /\ (hd \o <<c>>)[2] = Header2 /\ (hd \o <<c>>)[3] = Size
  BY <1>1, <1>4, <1>7, <1>9
<1>12. (hd \o <<c>>)[Size + 4] = c
  BY <1>1, <1>9
<1> QED BY <1>5, <1>8, <1>9, <1>10, <1>11, <1>12 DEF FrameLength

\* The structs sent after the first one equal to data, if that is the first of all.
LEMMA AfterFacts ==
  ASSUME NEW queue \in Seq(Structs), NEW data
  PROVE  /\ After(data, queue) \in Seq(Structs) /\ Len(After(data, queue)) <= Len(queue)
         /\ queue # <<>> /\ queue[1] = data => After(data, queue) = Tail(queue)
<1> DEFINE S == {k \in DOMAIN queue : queue[k] = data}
<1>1. CASE S = {}
  <2>1. After(data, queue) = queue
    BY <1>1 DEF After
  <2>2. queue # <<>> => 1 \in DOMAIN queue
    BY EmptySeq
  <2> QED BY <1>1, <2>1, <2>2
<1>2. CASE S # {}
  <2>1. S \subseteq Nat /\ S \subseteq 1 .. Len(queue) /\ Len(queue) \in Nat
    OBVIOUS
  <2>2. PICK m \in S : m = Min(S) /\ \A y \in S : m <= y
    BY <1>2, <2>1, MinFacts
  <2>3. After(data, queue) = SubSeq(queue, 1 + m, Len(queue))
    BY <1>2, <2>2 DEF After
  <2>4. /\ SubSeq(queue, 1 + m, Len(queue)) \in Seq(Structs)
        /\ Len(SubSeq(queue, 1 + m, Len(queue))) = Len(queue) - m
    BY <2>1
  <2>5. ASSUME queue # <<>>, queue[1] = data PROVE After(data, queue) = Tail(queue)
    <3>1. 1 \in S
      BY <2>5, <2>1
    <3>2. m = 1
      BY <2>1, <2>2, <3>1
    <3>3. Tail(queue) = SubSeq(queue, 2, Len(queue))
      BY <2>5
    <3> QED BY <2>3, <3>2, <3>3
  <2> QED BY <2>1, <2>3, <2>4, <2>5
<1> QED BY <1>1, <1>2

-----------------------------------------------------------------------------
(* TransferTypes *)

LEMMA TailFacts ==
  ASSUME NEW S, NEW s \in Seq(S), s # <<>>
  PROVE  /\ Head(s) \in S /\ Head(s) = s[1] /\ Tail(s) \in Seq(S)
         /\ Len(s) \in Nat /\ Len(s) >= 1 /\ Len(Tail(s)) = Len(s) - 1
         /\ \A k \in 1 .. Len(s) - 1 : Tail(s)[k] = s[k + 1]
BY EmptySeq

LEMMA AppendFacts ==
  ASSUME NEW S, NEW s \in Seq(S), NEW e \in S
  PROVE  /\ Append(s, e) \in Seq(S) /\ Len(s) \in Nat /\ Len(Append(s, e)) = Len(s) + 1
         /\ \A k \in 1 .. Len(s) : Append(s, e)[k] = s[k]
         /\ Append(s, e)[Len(s) + 1] = e
OBVIOUS

LEMMA InitTypes == TransferInit => TransferTypes
BY TransferAssumption, EmptySeq
   DEF TransferInit, TransferTypes, TransferTypeOK, Out!FifoInit, In!FifoInit, Out!FifoTypeOK, In!FifoTypeOK, Cell

\* What is put in and taken out of the receive buffer keeps its type.
LEMMA DeliverFacts ==
  ASSUME TransferTypes, In!Deliver
  PROVE  /\ arrived # <<>> /\ Head(arrived) \in Byte /\ arrived' = Tail(arrived)
         /\ arrived' \in Seq(Byte) /\ Len(arrived) \in Nat /\ Len(arrived') \in Nat
         /\ Len(arrived') = Len(arrived) - 1
BY TailFacts DEF TransferTypes, TransferTypeOK, In!FifoTypeOK, In!Deliver

LEMMA SenderTypes ==
  ASSUME TransferTypes, Sender PROVE TransferTypes'
<1> USE DEF TransferTypes, TransferTypeOK, Out!FifoTypeOK, In!FifoTypeOK, Cell, parseVars
<1>1. ASSUME NEW data \in Structs, SendData(data) PROVE TransferTypes'
  <2>1. Packet(data) \in Seq(Byte)
    BY FrameFacts
  <2>2. pending' \in Seq(Structs) /\ Len(pending') <= MaxPending
    BY <1>1, AppendFacts, TransferAssumption DEF SendData
  <2> QED BY <1>1, <2>1, <2>2 DEF SendData
<1>2. ASSUME WriteByte PROVE TransferTypes'
  <2>1. Head(sending) \in Byte /\ sending' \in Seq(Byte)
    BY <1>2, TailFacts DEF WriteByte
  <2>2. line' \in Seq(Byte) /\ Len(line') <= Capacity
    BY <1>2, <2>1, AppendFacts, TransferAssumption DEF WriteByte, Out!Queue
  <2> QED BY <1>2, <2>1, <2>2 DEF WriteByte, Out!Queue
<1> QED BY <1>1, <1>2 DEF Sender

LEMMA LineTypes ==
  ASSUME TransferTypes, Line PROVE TransferTypes'
<1> USE DEF TransferTypes, TransferTypeOK, Out!FifoTypeOK, In!FifoTypeOK, Cell, parseVars
<1>1. line # <<>> /\ line' = Tail(line)
  BY DEF Line, Arrive, Lose, Change, Out!Send
<1>2. Head(line) \in Byte /\ line' \in Seq(Byte) /\ Len(line') <= Capacity
  BY <1>1, TailFacts, TransferAssumption
<1>3. \/ arrived' = arrived
      \/ \E b \in Byte : In!Receive(b)
  BY <1>2 DEF Line, Arrive, Lose, Change
<1>4. arrived' \in Seq(Byte) /\ Len(arrived') <= Capacity /\ Len(arrived') >= Len(arrived)
  <2>1. Len(arrived) \in Nat /\ Capacity \in Nat
    BY TransferAssumption
  <2>2. ASSUME NEW b \in Byte, In!Receive(b)
        PROVE  /\ arrived' \in Seq(Byte) /\ Len(arrived') = Len(arrived) + 1
               /\ Len(arrived) < Capacity
    BY <2>2, AppendFacts DEF In!Receive
  <2> QED BY <1>3, <2>1, <2>2
<1>5. faults' \in 0 .. MaxFaults
  <2>1. faults \in 0 .. MaxFaults /\ MaxFaults \in Nat
    BY TransferAssumption
  <2>2. faults' = faults \/ (faults < MaxFaults /\ faults' = faults + 1)
    BY DEF Line, Arrive, Lose, Change
  <2> QED BY ONLY <2>1, <2>2
<1>6. UNCHANGED <<sending, stage, parseVars, address, pending>>
  BY DEF Line, Arrive, Lose, Change
<1>7. arrived # <<>> => arrived' # <<>>
  BY <1>3, AppendFacts, EmptySeq DEF In!Receive
<1>8. UNCHANGED <<rx_len, rx_array_inx, rx_buffer>>
  BY <1>6
<1>9. Len(arrived) \in Nat /\ Len(arrived') \in Nat
  BY <1>4
<1>10. /\ stage' = "scan" => Len(arrived') >= 3
       /\ stage' = "second" => Len(arrived') >= 2
       /\ stage' = "size" => arrived' # <<>>
  BY <1>4, <1>6, <1>7, <1>9
<1> QED BY <1>2, <1>4, <1>5, <1>6, <1>8, <1>10

LEMMA ReceiveTypes ==
  ASSUME TransferTypes, ReceiveData PROVE TransferTypes'
<1>0. Size \in Nat \ {0} /\ Capacity \in Nat /\ MaxPending \in Nat
  BY TransferAssumption
<1> USE <1>0 DEF TransferTypes, TransferTypeOK, Out!FifoTypeOK, In!FifoTypeOK, parseVars
<1>1. CASE Call
  BY <1>1, EmptySeq DEF Call
<1>2. CASE Trash
  BY <1>2, DeliverFacts DEF Trash
<1>3. CASE FoundFirst
  <2>1. Len(arrived) >= 3 /\ arrived' \in Seq(Byte) /\ Len(arrived) \in Nat /\ Len(arrived') = Len(arrived) - 1
    BY <1>3, DeliverFacts DEF FoundFirst
  <2>2. Len(arrived') >= 2 /\ Len(arrived') <= Capacity
    BY <2>1
  <2> QED BY <1>3, <2>1, <2>2 DEF FoundFirst, In!Deliver
<1>4. CASE FoundSecond
  <2>1. arrived' # <<>>
    BY <1>4, DeliverFacts, EmptySeq DEF FoundSecond
  <2> QED BY <1>4, <2>1, DeliverFacts DEF FoundSecond
<1>5. CASE NoSecond
  <2>1. arrived' \in Seq(Byte) /\ Len(arrived') <= Capacity
    BY <1>5, DeliverFacts DEF NoSecond
  <2> QED BY <1>5, <2>1 DEF NoSecond, In!Deliver
<1>6. CASE FoundSize
  <2>1. arrived' \in Seq(Byte) /\ Len(arrived') <= Capacity
    BY <1>6, DeliverFacts DEF FoundSize
  <2> QED BY <1>6, <2>1 DEF FoundSize, In!Deliver
<1>7. CASE Store
  <2>1. rx_array_inx \in Cell
    BY <1>7 DEF Store, Cell
  <2>2. rx_buffer' \in [Cell -> Byte]
    BY <1>7, <2>1, DeliverFacts DEF Store
  <2> QED BY <1>7, <2>1, <2>2, DeliverFacts DEF Store, Cell
<1>8. CASE Incomplete
  BY <1>8 DEF Incomplete
<1>9. CASE Accept \/ Reject
  <2>1. Got \in [1 .. Size -> Byte]
    BY DEF Got, Cell
  <2>2. Got \in Seq(Byte)
    BY <2>1
  <2>3. After(Got, pending) \in Seq(Structs) /\ Len(After(Got, pending)) <= MaxPending
    BY AfterFacts
  <2> QED BY <1>9, <2>2, <2>3 DEF Accept, Reject, Restart
<1> QED BY <1>1, <1>2, <1>3, <1>4, <1>5, <1>6, <1>7, <1>8, <1>9 DEF ReceiveData

LEMMA NextTypes == TransferTypes /\ [TransferNext]_transferVars => TransferTypes'
<1> SUFFICES ASSUME TransferTypes, [TransferNext]_transferVars PROVE TransferTypes'
  OBVIOUS
<1>1. CASE UNCHANGED transferVars
  BY <1>1 DEF transferVars, parseVars, TransferTypes, TransferTypeOK, Out!FifoTypeOK, In!FifoTypeOK
<1> QED BY <1>1, SenderTypes, LineTypes, ReceiveTypes DEF TransferNext

\* Every variable keeps its type, and no read of receiveData() finds the receive
\* buffer empty.
THEOREM TransferTypeCorrect == TransferSpec => []TransferTypeOK
<1>1. TransferTypes => TransferTypeOK
  BY DEF TransferTypes
<1> QED BY InitTypes, NextTypes, <1>1, PTL DEF TransferSpec

-----------------------------------------------------------------------------
(* What is on its way *)

\* A byte taken from the front of t and put behind s.
LEMMA MoveByte ==
  ASSUME NEW S, NEW s \in Seq(S), NEW t \in Seq(S), t # <<>>
  PROVE  Append(s, Head(t)) \o Tail(t) = s \o t
<1> DEFINE a == Append(s, Head(t))
           u == Tail(t)
<1>1. /\ a \in Seq(S) /\ u \in Seq(S) /\ Len(s) \in Nat /\ Len(t) \in Nat
      /\ Len(a) = Len(s) + 1 /\ Len(u) = Len(t) - 1
      /\ \A k \in 1 .. Len(s) : a[k] = s[k]
      /\ a[Len(s) + 1] = t[1]
      /\ \A k \in 1 .. Len(t) - 1 : u[k] = t[k + 1]
  BY TailFacts, AppendFacts
<1> HIDE DEF a, u
<1>2. /\ a \o u \in Seq(S) /\ s \o t \in Seq(S)
      /\ Len(a \o u) = Len(a) + Len(u) /\ Len(s \o t) = Len(s) + Len(t)
      /\ \A k \in 1 .. Len(a) + Len(u) : (a \o u)[k] = IF k <= Len(a) THEN a[k] ELSE u[k - Len(a)]
      /\ \A k \in 1 .. Len(s) + Len(t) : (s \o t)[k] = IF k <= Len(s) THEN s[k] ELSE t[k - Len(s)]
  <2>1. a \in Seq(S) /\ u \in Seq(S)
    BY <1>1
  <2>2. /\ a \o u \in Seq(S) /\ Len(a \o u) = Len(a) + Len(u)
        /\ \A k \in 1 .. Len(a) + Len(u) : (a \o u)[k] = IF k <= Len(a) THEN a[k] ELSE u[k - Len(a)]
    BY ONLY <2>1, ConcatProperties
  <2>3. /\ s \o t \in Seq(S) /\ Len(s \o t) = Len(s) + Len(t)
        /\ \A k \in 1 .. Len(s) + Len(t) : (s \o t)[k] = IF k <= Len(s) THEN s[k] ELSE t[k - Len(s)]
    BY ConcatProperties
  <2> QED BY ONLY <2>2, <2>3
<1>3. ASSUME NEW k \in 1 .. Len(s) + Len(t) PROVE (a \o u)[k] = (s \o t)[k]
  <2>1. CASE k <= Len(s)
    BY <1>1, <1>2, <2>1
  <2>2. CASE k = Len(s) + 1
    BY <1>1, <1>2, <2>2
  <2>3. CASE k > Len(s) + 1
    <3>1. k - Len(a) \in 1 .. Len(t) - 1 /\ k - Len(a) + 1 = k - Len(s)
      BY <1>1, <2>3
    <3>2. (a \o u)[k] = u[k - Len(a)] /\ (s \o t)[k] = t[k - Len(s)]
      BY <1>1, <1>2, <2>3
    <3> QED BY <1>1, <3>1, <3>2
  <2> QED BY <1>1, <2>1, <2>2, <2>3
<1>4. Len(a) + Len(u) = Len(s) + Len(t)
  BY <1>1
<1>5. a \o u = s \o t
  <2>1. Len(a \o u) = Len(s \o t) /\ Len(a \o u) = Len(s) + Len(t)
    BY <1>2, <1>4
  <2> QED BY <1>2, <1>3, <2>1, SeqEqual
<1> QED BY <1>5 DEF a, u

\* The first byte of a sequence is that of its first part.
LEMMA FirstPart ==
  ASSUME NEW S, NEW s \in Seq(S), NEW t \in Seq(S), s # <<>>
  PROVE  s \o t # <<>> /\ Head(s \o t) = Head(s) /\ Tail(s \o t) = Tail(s) \o t
<1>1. /\ s \o t \in Seq(S) /\ Len(s \o t) = Len(s) + Len(t)
      /\ \A k \in 1 .. Len(s) + Len(t) : (s \o t)[k] = IF k <= Len(s) THEN s[k] ELSE t[k - Len(s)]
  BY ConcatProperties
<1>2. Len(s) \in Nat /\ Len(t) \in Nat /\ Len(s) >= 1
  BY TailFacts
<1>3. PICK c \in Seq(S) : c = s \o t
  BY <1>1
<1>4. c # <<>> /\ Head(c) = c[1] /\ Head(s) = s[1] /\ c[1] = s[1] /\ Tail(c) \in Seq(S)
  BY <1>1, <1>2, <1>3, TailFacts
<1>5. PICK u \in Seq(S) : u = Tail(s)
  BY TailFacts
<1>6. /\ Len(Tail(c)) = Len(s) + Len(t) - 1 /\ Len(u) = Len(s) - 1
      /\ \A k \in 1 .. Len(s) + Len(t) - 1 : Tail(c)[k] = c[k + 1]
      /\ \A k \in 1 .. Len(s) - 1 : u[k] = s[k + 1]
  BY <1>1, <1>2, <1>3, <1>4, <1>5, TailFacts
<1>7. /\ u \o t \in Seq(S) /\ Len(u \o t) = Len(u) + Len(t)
      /\ \A k \in 1 .. Len(u) + Len(t) : (u \o t)[k] = IF k <= Len(u) THEN u[k] ELSE t[k - Len(u)]
  BY <1>5, ConcatProperties
<1>8. ASSUME NEW k \in 1 .. Len(s) + Len(t) - 1 PROVE Tail(c)[k] = (u \o t)[k]
  <2>1. k + 1 \in 1 .. Len(s) + Len(t) /\ Tail(c)[k] = c[k + 1] /\ k \in Nat
    BY <1>2, <1>6
  <2>2. CASE k <= Len(s) - 1
    BY <1>1, <1>2, <1>3, <1>6, <1>7, <2>1, <2>2
  <2>3. CASE k > Len(s) - 1
    <3>1. (u \o t)[k] = t[k - Len(u)] /\ c[k + 1] = t[k + 1 - Len(s)]
      BY <1>1, <1>2, <1>3, <1>6, <1>7, <2>1, <2>3
    <3>2. k - Len(u) = k + 1 - Len(s)
      BY <1>2, <1>6, <2>1
    <3>3. t[k - Len(u)] = t[k + 1 - Len(s)]
      BY ONLY <3>2
    <3> QED BY ONLY <2>1, <3>1, <3>3
  <2>4. k <= Len(s) - 1 \/ k > Len(s) - 1
    BY <1>2, <2>1
  <2> QED BY ONLY <2>2, <2>3, <2>4
<1>9. Len(Tail(c)) = Len(u \o t)
  BY <1>2, <1>6, <1>7
<1>10. Tail(c) = u \o t
  BY <1>4, <1>6, <1>7, <1>8, <1>9, SeqEqual
<1> QED BY <1>3, <1>4, <1>5, <1>10

\* The bytes of n frames.
Frames(n) == FrameLength * n

LEMMA FrameLengthType == FrameLength \in Nat /\ FrameLength >= 5
BY TransferAssumption DEF FrameLength

LEMMA FramesFacts ==
  /\ Frames(0) = 0
  /\ \A n \in Nat : Frames(n) \in Nat /\ Frames(n + 1) = Frames(n) + FrameLength
BY FrameLengthType DEF Frames

LEMMA FramesBelow ==
  ASSUME NEW q \in Nat, NEW n \in Nat, q < n
  PROVE  Frames(q) + FrameLength <= Frames(n)
<1>1. PICK L \in Nat : L = FrameLength /\ L >= 5
  BY FrameLengthType
<1>2. PICK d \in Nat : n = q + 1 + d
  <2>1. n - q - 1 \in Nat /\ n = q + 1 + (n - q - 1)
    OBVIOUS
  <2> QED BY <2>1
<1>3. L * n = L * q + L + L * d /\ L * d \in Nat /\ L * q \in Nat
  BY <1>1, <1>2
<1> QED BY <1>1, <1>3 DEF Frames

\* Where byte r of the frame behind the first a bytes is, when n bytes are gone and L left.
LEMMA InsideFrames ==
  ASSUME NEW a \in Nat, NEW b \in Nat, NEW F \in Nat, NEW r \in Nat, NEW n \in Nat, NEW L \in Nat,
         a + F <= b, r <= F, a + r > n, L + n = b
  PROVE  a + r - n \in 1 .. L
OBVIOUS

\* coming is what is left of the frames of queue, when n bytes of the first are gone.
Left(coming, queue, n) ==
  /\ Len(coming) + n = Frames(Len(queue))
  /\ \A q \in 0 .. Len(queue) - 1, r \in 1 .. FrameLength :
       Frames(q) + r > n => coming[Frames(q) + r - n] = Packet(queue[q + 1])[r]

LEMMA NextByte ==
  ASSUME NEW coming \in Seq(Byte), NEW queue \in Seq(Structs), NEW n \in 0 .. FrameLength - 1,
         Left(coming, queue, n), coming # <<>>
  PROVE  /\ queue # <<>> /\ queue[1] \in Structs
         /\ Head(coming) = Packet(queue[1])[n + 1]
         /\ Left(Tail(coming), queue, n + 1)
<1>1. n \in Nat /\ n < FrameLength /\ Len(queue) \in Nat /\ FrameLength \in Nat
  BY FrameLengthType
<1>2. /\ Head(coming) = coming[1] /\ Tail(coming) \in Seq(Byte) /\ Len(coming) \in Nat
      /\ Len(coming) >= 1 /\ Len(Tail(coming)) = Len(coming) - 1
      /\ \A k \in 1 .. Len(coming) - 1 : Tail(coming)[k] = coming[k + 1]
  BY TailFacts
<1>3. Len(coming) + n = Frames(Len(queue))
  BY DEF Left
<1>4. Len(queue) >= 1
  <2>1. CASE Len(queue) = 0
    <3>1. Frames(Len(queue)) = 0
      BY <2>1, FramesFacts
    <3> QED BY <1>1, <1>2, <1>3, <3>1
  <2> QED BY <1>1, <2>1
<1>5. queue # <<>> /\ queue[1] \in Structs
  BY <1>4
<1>6. Head(coming) = Packet(queue[1])[n + 1]
  <2> DEFINE none == Frames(0)
  <2>0. none = 0
    BY FramesFacts
  <2> HIDE DEF none
  <2>1. /\ 0 \in 0 .. Len(queue) - 1 /\ n + 1 \in 1 .. FrameLength
        /\ none + (n + 1) > n /\ none + (n + 1) - n = 1
    BY <1>1, <1>4, <2>0
  <2> USE DEF none
  <2>2. coming[Frames(0) + (n + 1) - n] = Packet(queue[0 + 1])[n + 1]
    BY <2>1 DEF Left
  <2> QED BY <1>2, <2>1, <2>2
<1>7. ASSUME NEW q \in 0 .. Len(queue) - 1, NEW r \in 1 .. FrameLength, Frames(q) + r > n + 1
      PROVE  Tail(coming)[Frames(q) + r - (n + 1)] = Packet(queue[q + 1])[r]
  <2>1. /\ q \in Nat /\ q < Len(queue) /\ r \in Nat /\ r <= FrameLength
        /\ Frames(q) \in Nat /\ Frames(Len(queue)) \in Nat
    <3>1. q \in Nat /\ q < Len(queue) /\ r \in Nat /\ r <= FrameLength
      BY <1>1
    <3> QED BY <1>1, <3>1, FramesFacts
  <2>2. Frames(q) + FrameLength <= Frames(Len(queue))
    BY <1>1, <2>1, FramesBelow
  <2>3. coming[Frames(q) + r - n] = Packet(queue[q + 1])[r]
    BY <1>1, <1>7, <2>1 DEF Left
  <2>4. /\ Frames(q) + r - (n + 1) \in 1 .. Len(coming) - 1
        /\ Frames(q) + r - (n + 1) + 1 = Frames(q) + r - n
    <3>1. Len(coming) - 1 \in Nat /\ (Len(coming) - 1) + (n + 1) = Frames(Len(queue)) /\ n + 1 \in Nat
      BY <1>1, <1>2, <1>3
    <3>2. Frames(q) + r - (n + 1) \in 1 .. Len(coming) - 1
      BY <1>1, <1>7, <2>1, <2>2, <3>1, InsideFrames
    <3> QED BY <1>1, <2>1, <3>2
  <2> QED BY <1>2, <2>3, <2>4
<1>8. Len(Tail(coming)) + (n + 1) = Frames(Len(queue))
  BY <1>1, <1>2, <1>3
<1> QED BY <1>5, <1>6, <1>7, <1>8 DEF Left

LEMMA NextFrame ==
  ASSUME NEW coming \in Seq(Byte), NEW queue \in Seq(Structs), queue # <<>>,
         Left(coming, queue, FrameLength)
  PROVE  Left(coming, Tail(queue), 0)
<1>1. /\ Tail(queue) \in Seq(Structs) /\ Len(queue) \in Nat /\ Len(queue) >= 1
      /\ Len(Tail(queue)) = Len(queue) - 1
      /\ \A k \in 1 .. Len(queue) - 1 : Tail(queue)[k] = queue[k + 1]
  BY TailFacts
<1>2. /\ Len(coming) \in Nat /\ FrameLength \in Nat
      /\ Len(coming) + FrameLength = Frames(Len(queue))
  BY FrameLengthType DEF Left
<1>3. Len(coming) + 0 = Frames(Len(Tail(queue)))
  <2>0. Len(queue) - 1 \in Nat
    BY <1>1
  <2>1. PICK m \in Nat : m = Len(queue) - 1
    BY <2>0
  <2>2. Frames(m) \in Nat /\ Frames(m + 1) = Frames(m) + FrameLength
    BY FramesFacts
  <2>3. Len(queue) = m + 1
    BY <1>1, <2>1
  <2> QED BY <1>1, <1>2, <2>1, <2>2, <2>3
<1>4. ASSUME NEW q \in 0 .. Len(queue) - 2, NEW r \in 1 .. FrameLength
      PROVE  coming[Frames(q) + r - 0] = Packet(Tail(queue)[q + 1])[r]
  <2>1. q \in Nat /\ q + 1 \in 0 .. Len(queue) - 1 /\ q + 1 \in 1 .. Len(queue) - 1
    BY <1>1
  <2>2. Tail(queue)[q + 1] = queue[q + 1 + 1]
    BY <1>1, <2>1
  <2>3. Frames(q) \in Nat /\ Frames(q + 1) = Frames(q) + FrameLength
    BY <2>1, FramesFacts
  <2>4. /\ r \in Nat /\ Frames(q + 1) + r > FrameLength
        /\ Frames(q + 1) + r - FrameLength = Frames(q) + r - 0
    BY <1>2, <2>3
  <2>5. coming[Frames(q + 1) + r - FrameLength] = Packet(queue[q + 1 + 1])[r]
    BY <2>1, <2>4 DEF Left
  <2> QED BY <2>2, <2>4, <2>5
<1>5. Len(Tail(queue)) - 1 = Len(queue) - 2
  BY <1>1
<1> QED BY <1>3, <1>4, <1>5 DEF Left

LEMMA AnotherFrame ==
  ASSUME NEW coming \in Seq(Byte), NEW queue \in Seq(Structs), NEW n \in Nat, NEW data \in Structs,
         Left(coming, queue, n)
  PROVE  Left(coming \o Packet(data), Append(queue, data), n)
<1>1. /\ Append(queue, data) \in Seq(Structs) /\ Len(queue) \in Nat
      /\ Len(Append(queue, data)) = Len(queue) + 1
      /\ \A k \in 1 .. Len(queue) : Append(queue, data)[k] = queue[k]
      /\ Append(queue, data)[Len(queue) + 1] = data
  BY AppendFacts
<1>2. PICK f \in Seq(Byte) : f = Packet(data) /\ Len(f) = FrameLength
  BY FrameFacts
<1>3. Len(coming) \in Nat /\ FrameLength \in Nat
  BY FrameLengthType
<1>4. /\ Len(coming \o f) = Len(coming) + FrameLength
      /\ \A k \in 1 .. Len(coming) + FrameLength :
           (coming \o f)[k] = IF k <= Len(coming) THEN coming[k] ELSE f[k - Len(coming)]
  BY <1>2, ConcatProperties
<1>5. /\ Frames(Len(queue)) \in Nat /\ Frames(Len(queue) + 1) = Frames(Len(queue)) + FrameLength
      /\ Len(coming) + n = Frames(Len(queue))
  BY <1>1, FramesFacts DEF Left
<1>6. ASSUME NEW q \in 0 .. Len(queue), NEW r \in 1 .. FrameLength, Frames(q) + r > n
      PROVE  (coming \o f)[Frames(q) + r - n] = Packet(Append(queue, data)[q + 1])[r]
  <2>1. q \in Nat /\ r \in Nat /\ r >= 1 /\ r <= FrameLength /\ Frames(q) \in Nat
    BY <1>1, <1>3, FramesFacts
  <2>2. CASE q < Len(queue)
    <3>1. Frames(q) + FrameLength <= Frames(Len(queue))
      BY <1>1, <2>1, <2>2, FramesBelow
    <3>2. Frames(q) + r - n \in 1 .. Len(coming)
      BY <1>3, <1>5, <1>6, <2>1, <3>1, InsideFrames
    <3>3. coming[Frames(q) + r - n] = Packet(queue[q + 1])[r]
      <4>1. q \in 0 .. Len(queue) - 1
        BY <1>1, <2>1, <2>2
      <4> QED BY <1>6, <4>1 DEF Left
    <3>4. (coming \o f)[Frames(q) + r - n] = coming[Frames(q) + r - n]
      BY <1>3, <1>4, <3>2
    <3>5. Append(queue, data)[q + 1] = queue[q + 1]
      BY <1>1, <2>1, <2>2
    <3> QED BY <3>3, <3>4, <3>5
  <2>3. CASE q = Len(queue)
    <3>1. Frames(q) + r - n = Len(coming) + r
      BY <1>3, <1>5, <2>1, <2>3
    <3>2. (coming \o f)[Len(coming) + r] = f[Len(coming) + r - Len(coming)]
      BY <1>3, <1>4, <2>1
    <3>3. Len(coming) + r - Len(coming) = r
      BY <1>3, <2>1
    <3>4. (coming \o f)[Frames(q) + r - n] = f[r]
      BY ONLY <3>1, <3>2, <3>3
    <3>5. Append(queue, data)[q + 1] = data
      BY <1>1, <2>3
    <3> QED BY ONLY <1>2, <3>4, <3>5
  <2>4. q < Len(queue) \/ q = Len(queue)
    BY <1>1, <2>1
  <2> QED BY ONLY <2>2, <2>3, <2>4
<1>7. Len(coming \o f) + n = Frames(Len(queue) + 1)
  BY <1>3, <1>4, <1>5
<1>8. Len(Append(queue, data)) - 1 = Len(queue)
  BY <1>1
<1>9. Len(coming \o Packet(data)) + n = Frames(Len(Append(queue, data)))
  BY <1>1, <1>2, <1>7
<1> QED BY ONLY <1>2, <1>6, <1>8, <1>9 DEF Left

-----------------------------------------------------------------------------
(* The faultless line *)

\* The bytes between the two robots, and how many bytes of the first frame that
\* is not received yet the receiver has taken from them.
Coming == arrived \o (line \o sending)
Consumed == IF rx_len # 0 THEN 3 + rx_array_inx
            ELSE IF stage = "size" THEN 2 ELSE IF stage = "second" THEN 1 ELSE 0

\* The rest of the frames not received is on its way, and rx_buffer has what of
\* the first one came before.
InStep ==
  faults = 0 =>
    /\ Left(Coming, pending, Consumed)
    /\ rx_len # 0 =>
         \A k \in 0 .. rx_array_inx - 1 : rx_buffer[k] = Packet(pending[1])[4 + k]

Synced == TransferTypes /\ InStep

LEMMA InitSynced == TransferInit => Synced
<1> SUFFICES ASSUME TransferInit PROVE Synced
  OBVIOUS
<1>1. TransferTypes /\ rx_len = 0 /\ Consumed = 0 /\ pending = <<>> /\ Len(pending) = 0
  BY InitTypes DEF TransferInit, Consumed
<1>2. Coming = <<>>
  BY DEF Coming, TransferInit, Out!FifoInit, In!FifoInit
<1>3. Left(<<>>, <<>>, 0)
  BY FramesFacts DEF Left
<1> QED BY <1>1, <1>2, <1>3 DEF Synced, InStep

LEMMA ComingType ==
  ASSUME TransferTypes
  PROVE  /\ arrived \in Seq(Byte) /\ line \in Seq(Byte) /\ sending \in Seq(Byte)
         /\ line \o sending \in Seq(Byte) /\ Coming \in Seq(Byte)
         /\ Consumed \in Nat /\ pending \in Seq(Structs)
BY ConcatProperties, TransferAssumption
   DEF TransferTypes, TransferTypeOK, Out!FifoTypeOK, In!FifoTypeOK, Coming, Consumed

\* With a part of a frame received there is one on its way.
LEMMA FirstPending ==
  ASSUME TransferTypes, Left(Coming, pending, Consumed), Consumed > 0
  PROVE  pending # <<>> /\ pending[1] \in Structs
<1>1. Len(Coming) \in Nat /\ Consumed \in Nat /\ Len(pending) \in Nat
  BY ComingType
<1>2. Frames(Len(pending)) # 0
  BY <1>1 DEF Left
<1>3. Len(pending) # 0
  BY <1>2, FramesFacts
<1> QED BY <1>1, <1>3, ComingType

\* A byte moves on towards the receiver.
LEMMA MovedSynced ==
  ASSUME Synced, WriteByte \/ Arrive
  PROVE  InStep'
<1>1. Coming' = Coming
  <2>1. CASE WriteByte
    <3>1. line' = Append(line, Head(sending)) /\ sending' = Tail(sending) /\ arrived' = arrived
      BY <2>1 DEF WriteByte, Out!Queue
    <3>2. line' \o sending' = line \o sending
      BY <2>1, <3>1, ComingType, MoveByte DEF WriteByte, Synced
    <3> QED BY <3>1, <3>2 DEF Coming
  <2>2. CASE Arrive
    <3>1. /\ arrived' = Append(arrived, Head(line)) /\ line' = Tail(line) /\ line # <<>>
          /\ sending' = sending
      BY <2>2 DEF Arrive, Out!Send, In!Receive
    <3>2. /\ line \o sending # <<>> /\ Head(line \o sending) = Head(line)
          /\ Tail(line \o sending) = Tail(line) \o sending
      BY <3>1, ComingType, FirstPart DEF Synced
    <3>3. Append(arrived, Head(line \o sending)) \o Tail(line \o sending) = Coming
      BY <3>2, ComingType, MoveByte DEF Synced, Coming
    <3> QED BY <3>1, <3>2, <3>3 DEF Coming
  <2> QED BY <2>1, <2>2
<1>2. UNCHANGED <<stage, rx_len, rx_array_inx, rx_buffer, faults, pending>>
  BY DEF WriteByte, Arrive, parseVars
<1> QED BY <1>1, <1>2 DEF Synced, InStep, Consumed

\* A frame is sent behind those on their way.
LEMMA SentSynced ==
  ASSUME Synced, NEW data \in Structs, SendData(data)
  PROVE  InStep'
<1>1. /\ sending = <<>> /\ sending' = Packet(data) /\ pending' = Append(pending, data)
      /\ UNCHANGED <<line, arrived, stage, rx_len, rx_array_inx, rx_buffer, faults>>
  BY DEF SendData, parseVars
<1>2. Coming = arrived \o line
  BY <1>1, ComingType, ConcatEmptySeq DEF Synced, Coming
<1>3. Coming' = Coming \o Packet(data)
  <2>1. PICK f \in Seq(Byte) : f = Packet(data)
    BY FrameFacts
  <2>2. (arrived \o line) \o f = arrived \o (line \o f)
    <3>1. arrived \in Seq(Byte) /\ line \in Seq(Byte)
      BY ComingType DEF Synced
    <3> QED BY <3>1, ConcatAssociative
  <2>3. Coming' = arrived \o (line \o f)
    BY <1>1, <2>1 DEF Coming
  <2> QED BY <1>2, <2>1, <2>2, <2>3
<1>4. Consumed' = Consumed
  BY <1>1 DEF Consumed
<1>5. ASSUME faults = 0 PROVE Left(Coming', pending', Consumed')
  <2>1. Left(Coming, pending, Consumed)
    BY <1>5 DEF Synced, InStep
  <2>2. Left(Coming \o Packet(data), Append(pending, data), Consumed)
    BY <2>1, ComingType, AnotherFrame DEF Synced
  <2> QED BY <1>1, <1>3, <1>4, <2>2
<1>6. ASSUME faults = 0, rx_len # 0 PROVE pending'[1] = pending[1]
  <2>1. Consumed > 0 /\ Left(Coming, pending, Consumed)
    BY <1>6, TransferAssumption DEF Consumed, Synced, InStep, TransferTypes, TransferTypeOK
  <2>2. pending # <<>>
    BY <2>1, FirstPending DEF Synced
  <2> QED BY <1>1, <2>2, ComingType, AppendFacts, EmptySeq DEF Synced
<1> QED BY <1>1, <1>5, <1>6 DEF Synced, InStep

\* The receiver takes a byte: it is the next one of the first frame.
LEMMA TakenFacts ==
  ASSUME Synced, In!Deliver, UNCHANGED <<line, sending>>, faults = 0, Consumed < FrameLength
  PROVE  /\ pending # <<>> /\ pending[1] \in Structs
         /\ Head(arrived) = Packet(pending[1])[Consumed + 1]
         /\ Left(Coming', pending, Consumed + 1)
<1>1. arrived # <<>> /\ arrived' = Tail(arrived)
  BY DEF In!Deliver
<1>2. /\ Coming # <<>> /\ Head(Coming) = Head(arrived)
      /\ Tail(Coming) = Tail(arrived) \o (line \o sending)
  BY <1>1, ComingType, FirstPart DEF Synced, Coming
<1>3. Coming' = Tail(Coming)
  BY <1>1, <1>2 DEF Coming
<1>4. Consumed \in 0 .. FrameLength - 1
  BY ComingType, FrameLengthType DEF Synced
<1>5. Left(Coming, pending, Consumed)
  BY DEF Synced, InStep
<1> QED BY <1>2, <1>3, <1>4, <1>5, ComingType, NextByte DEF Synced

\* On a faultless line the receiver finds a header where it looks for one.
LEMMA ScanSynced ==
  ASSUME Synced, Trash \/ FoundFirst \/ FoundSecond \/ NoSecond \/ FoundSize
  PROVE  /\ InStep'
         /\ faults = 0 => ~Trash /\ ~NoSecond /\ rx_len' \in {rx_len, Size}
                          /\ (FoundSize => rx_len' = Size)
<1>1. /\ In!Deliver /\ UNCHANGED <<line, sending, pending, faults, rx_array_inx, rx_buffer>>
      /\ rx_len = 0 /\ rx_array_inx = 0
  BY DEF Trash, FoundFirst, FoundSecond, NoSecond, FoundSize, parseVars, Synced, TransferTypes
<1> SUFFICES ASSUME faults = 0
             PROVE  /\ ~Trash /\ ~NoSecond /\ (FoundSize => rx_len' = Size)
                    /\ rx_len' \in {rx_len, Size}
                    /\ Consumed' = Consumed + 1 /\ Left(Coming', pending, Consumed + 1)
  BY <1>1 DEF InStep
<1>2. /\ Trash \/ FoundFirst => Consumed = 0
      /\ FoundSecond \/ NoSecond => Consumed = 1
      /\ FoundSize => Consumed = 2
  BY <1>1 DEF Consumed, Trash, FoundFirst, FoundSecond, NoSecond, FoundSize
<1>3. /\ pending[1] \in Structs /\ Head(arrived) = Packet(pending[1])[Consumed + 1]
      /\ Left(Coming', pending, Consumed + 1)
  BY <1>1, <1>2, TakenFacts, FrameLengthType
<1>4. /\ Trash \/ FoundFirst => Head(arrived) = Header1
      /\ FoundSecond \/ NoSecond => Head(arrived) = Header2
      /\ FoundSize => Head(arrived) = Size
  BY <1>2, <1>3, FrameFacts
<1>5. ~Trash /\ ~NoSecond
  BY <1>4 DEF Trash, NoSecond
<1>6. CASE FoundFirst
  BY <1>1, <1>2, <1>3, <1>5, <1>6 DEF FoundFirst, FoundSize, Consumed, parseVars
<1>7. CASE FoundSecond
  BY <1>1, <1>2, <1>3, <1>5, <1>7 DEF FoundSecond, FoundSize, Consumed, parseVars
<1>8. CASE FoundSize
  <2>1. rx_len' = Size /\ Size # 0
    BY <1>4, <1>8, TransferAssumption DEF FoundSize
  <2> QED BY <1>1, <1>2, <1>3, <1>5, <1>8, <2>1 DEF Consumed
<1> QED BY <1>5, <1>6, <1>7, <1>8

\* On a faultless line what is stored is what the first frame holds there.
LEMMA StoreSynced == ASSUME Synced, Store PROVE InStep'
<1> SUFFICES ASSUME faults = 0 PROVE InStep'
  BY DEF InStep, Store
<1>1. /\ In!Deliver /\ UNCHANGED <<line, sending, pending, faults, rx_len>>
      /\ rx_len = Size /\ Size \in Nat \ {0} /\ rx_array_inx \in 0 .. Size
      /\ rx_array_inx' = rx_array_inx + 1
      /\ rx_buffer' = [rx_buffer EXCEPT ![rx_array_inx] = Head(arrived)]
      /\ rx_buffer \in [Cell -> Byte]
  BY TransferAssumption DEF Store, Synced, TransferTypes, TransferTypeOK
<1>2. Consumed = 3 + rx_array_inx /\ Consumed' = 4 + rx_array_inx
  BY <1>1 DEF Consumed
<1>3. Consumed < FrameLength /\ Consumed' = Consumed + 1 /\ Consumed + 1 = 4 + rx_array_inx
  BY <1>1, <1>2 DEF FrameLength
<1>4. /\ Head(arrived) = Packet(pending[1])[4 + rx_array_inx]
      /\ Left(Coming', pending, Consumed')
  <2>1. /\ Head(arrived) = Packet(pending[1])[Consumed + 1]
        /\ Left(Coming', pending, Consumed + 1)
    BY <1>1, <1>3, TakenFacts
  <2> QED BY <1>3, <2>1
<1>5. ASSUME NEW k \in 0 .. rx_array_inx PROVE rx_buffer'[k] = Packet(pending[1])[4 + k]
  <2>1. k \in Cell /\ rx_array_inx \in Cell
    BY <1>1 DEF Cell
  <2>2. CASE k = rx_array_inx
    BY <1>1, <1>4, <2>1, <2>2
  <2>3. CASE k # rx_array_inx
    <3>1. k \in 0 .. rx_array_inx - 1
      BY <1>1, <2>3
    <3>2. rx_buffer[k] = Packet(pending[1])[4 + k]
      BY <1>1, <3>1 DEF Synced, InStep
    <3> QED BY <1>1, <2>1, <2>3, <3>2
  <2> QED BY <2>2, <2>3
<1>6. rx_array_inx' - 1 = rx_array_inx
  BY <1>1
<1> QED BY <1>1, <1>4, <1>5, <1>6 DEF InStep

\* On a faultless line a whole struct is the first one sent, with its checksum.
LEMMA WholeFacts ==
  ASSUME Synced, Whole, faults = 0
  PROVE  /\ pending # <<>> /\ Got = pending[1] /\ rx_buffer[Size] = CheckSum(Got)
         /\ Left(Coming, pending, FrameLength)
<1>1. rx_len = Size /\ rx_array_inx = Size + 1 /\ Size \in Nat \ {0}
  BY TransferAssumption DEF Whole, Synced, TransferTypes
<1>2. Consumed = FrameLength /\ Consumed > 0 /\ Left(Coming, pending, Consumed)
  BY <1>1 DEF Consumed, FrameLength, Synced, InStep
<1>3. pending # <<>> /\ pending[1] \in Structs
  BY <1>2, FirstPending DEF Synced
<1>4. \A k \in 0 .. Size : rx_buffer[k] = Packet(pending[1])[4 + k]
  <2>1. rx_array_inx - 1 = Size
    BY <1>1
  <2> QED BY <1>1, <2>1 DEF Synced, InStep
<1>5. PICK data \in Structs : data = pending[1]
  BY <1>3
<1>6. /\ \A k \in 1 .. Size : Packet(data)[3 + k] = data[k]
      /\ Packet(data)[FrameLength] = CheckSum(data)
      /\ data \in [1 .. Size -> Byte]
  BY FrameFacts, TransferAssumption
<1>7. ASSUME NEW k \in 1 .. Size PROVE rx_buffer[k - 1] = data[k]
  <2>1. k - 1 \in 0 .. Size /\ 4 + (k - 1) = 3 + k
    BY <1>1
  <2>2. rx_buffer[k - 1] = Packet(data)[4 + (k - 1)]
    BY <1>4, <1>5, <2>1
  <2> QED BY <1>6, <2>1, <2>2
<1>8. Got = data
  BY <1>6, <1>7 DEF Got
<1>9. rx_buffer[Size] = CheckSum(data)
  <2>1. Size \in 0 .. Size /\ 4 + Size = FrameLength
    BY <1>1 DEF FrameLength
  <2> QED BY <1>4, <1>5, <1>6, <2>1
<1> QED BY <1>2, <1>3, <1>5, <1>8, <1>9

LEMMA AcceptSynced == ASSUME Synced, Accept \/ Reject PROVE InStep'
<1> SUFFICES ASSUME faults = 0 PROVE InStep'
  BY DEF InStep, Accept, Reject
<1>1. /\ pending # <<>> /\ Got = pending[1] /\ rx_buffer[Size] = CheckSum(Got)
      /\ Left(Coming, pending, FrameLength)
  BY WholeFacts DEF Accept, Reject
<1>2. /\ Restart /\ pending' = After(Got, pending)
      /\ UNCHANGED <<sending, line, arrived, faults>>
  BY <1>1 DEF Accept, Reject
<1>3. pending' = Tail(pending)
  BY <1>1, <1>2, ComingType, AfterFacts DEF Synced
<1>4. Left(Coming, Tail(pending), 0)
  BY <1>1, ComingType, NextFrame DEF Synced
<1>5. Coming' = Coming /\ Consumed' = 0 /\ rx_len' = 0
  BY <1>2 DEF Coming, Consumed, Restart
<1> QED BY <1>3, <1>4, <1>5 DEF InStep

\* A call that begins, or ends without more bytes, takes none.
LEMMA CallSynced == ASSUME Synced, Call \/ Incomplete \/ UNCHANGED transferVars PROVE InStep'
<1>1. UNCHANGED <<sending, line, arrived, rx_len, rx_array_inx, rx_buffer, faults, pending>>
  BY DEF Call, Incomplete, transferVars, parseVars
<1>2. Consumed' = Consumed
  BY <1>1 DEF Call, Incomplete, transferVars, Consumed, Synced, TransferTypes
<1>3. Coming' = Coming
  BY <1>1 DEF Coming
<1> QED BY <1>1, <1>2, <1>3 DEF Synced, InStep

LEMMA NextSynced == Synced /\ [TransferNext]_transferVars => Synced'
<1> SUFFICES ASSUME Synced, [TransferNext]_transferVars PROVE Synced'
  OBVIOUS
<1>1. TransferTypes'
  BY NextTypes DEF Synced
<1>2. CASE WriteByte \/ Arrive
  BY <1>1, <1>2, MovedSynced DEF Synced
<1>3. CASE \E data \in Structs : SendData(data)
  BY <1>1, <1>3, SentSynced DEF Synced
<1>4. CASE Lose \/ \E b \in Byte : Change(b)
  <2>1. faults' = faults + 1 /\ faults \in Nat
    BY <1>4, TransferAssumption DEF Lose, Change, Synced, TransferTypes, TransferTypeOK
  <2> QED BY <1>1, <2>1 DEF Synced, InStep
<1>5. CASE Trash \/ FoundFirst \/ FoundSecond \/ NoSecond \/ FoundSize
  BY <1>1, <1>5, ScanSynced DEF Synced
<1>6. CASE Store
  BY <1>1, <1>6, StoreSynced DEF Synced
<1>7. CASE Accept \/ Reject
  BY <1>1, <1>7, AcceptSynced DEF Synced
<1>8. CASE Call \/ Incomplete \/ UNCHANGED transferVars
  BY <1>1, <1>8, CallSynced DEF Synced
<1> QED BY <1>2, <1>3, <1>4, <1>5, <1>6, <1>7, <1>8
        DEF TransferNext, ReceiveData, Line, Sender

-----------------------------------------------------------------------------
(* Theorems *)

\* Up to the first byte lost or changed receiveData() drops no byte and rejects no
\* struct, and what it accepts is the next struct sent, whatever bytes it holds.
Faultless ==
  [][faults = 0 => /\ ~Trash /\ ~NoSecond /\ ~Reject /\ (FoundSize => rx_len' = Size)
                   /\ Accept => pending # <<>> /\ Got = pending[1]]_transferVars

THEOREM FaultlessLine == TransferSpec => Faultless
<1>1. ASSUME Synced, faults = 0
      PROVE  /\ ~Trash /\ ~NoSecond /\ ~Reject /\ (FoundSize => rx_len' = Size)
             /\ Accept => pending # <<>> /\ Got = pending[1]
  <2>1. ~Trash /\ ~NoSecond /\ (FoundSize => rx_len' = Size)
    BY <1>1, ScanSynced
  <2>2. ~Reject
    BY <1>1, WholeFacts DEF Reject
  <2>3. Accept => pending # <<>> /\ Got = pending[1]
    BY <1>1, WholeFacts DEF Accept
  <2> QED BY <2>1, <2>2, <2>3
<1> QED BY InitSynced, NextSynced, <1>1, PTL DEF TransferSpec, Faultless

\* On a line without faults every struct is received, once and in order.
THEOREM InOrder ==
  ASSUME MaxFaults = 0
  PROVE  TransferSpec => SentInOrder
<1>1. ASSUME Synced, Accept
      PROVE  \E k \in DOMAIN pending : pending[k] = Got /\ (faults = 0 => k = 1)
  <2>1. faults = 0
    BY <1>1 DEF Synced, TransferTypes, TransferTypeOK
  <2>2. pending # <<>> /\ pending[1] = Got
    BY <1>1, <2>1, WholeFacts DEF Accept
  <2>3. 1 \in DOMAIN pending
    BY <1>1, <2>2, ComingType, EmptySeq DEF Synced
  <2> QED BY <2>2, <2>3
<1> QED BY InitSynced, NextSynced, <1>1, PTL DEF TransferSpec, SentInOrder

-----------------------------------------------------------------------------
(* The infrared receiver *)

\* The variables of the recorder, of the line and of the steps of the sketch.
Types ==
  /\ rcvstate \in {"off", "idle", "mark", "space", "stop"} /\ timer \in Ticks
  /\ rawbuf \in [0 .. RawBuf - 1 -> Ticks] /\ rawlen \in 0 .. RawBuf
  /\ pc \in {"off", "enable", "idle", "test", "decoded", "resume", "clear", "compare"}
  /\ level \in {Mark, Space} /\ run \in Nat /\ heard \in Seq(Nat) /\ ticks \in Nat

\* Where the sketch may be in which state of the recorder.
Stages ==
  /\ pc \in {"off", "enable"} => /\ rcvstate = "off" /\ rawlen = 0
                                 /\ ~torn => timer = 0 /\ level = Space /\ run = 0
  /\ pc \notin {"off", "enable"} => rcvstate # "off"
  /\ pc \in {"decoded", "resume"} => rcvstate = "stop"
  /\ pc = "clear" /\ ~torn => rcvstate = "idle"

\* Outside a recording the timer does not run ahead of the silence.
Behind == IF level = Mark THEN timer = 0 ELSE run >= Gap + 2 \/ timer <= run

\* The timer and the run of the line go together, unless ticks before the end of
\* enable() have upset them, until the first mark.
Follows ==
  /\ rcvstate = "mark" => level = Mark /\ (~torn => run = (timer + 1) % Wrap)
  /\ rcvstate = "space" => level = Space /\ run = timer + 1 /\ timer <= Gap
  /\ rcvstate \in {"mark", "space"} /\ rawlen >= RawBuf => timer = 0
  /\ rcvstate = "stop" \/ (rcvstate = "idle" /\ ~(torn /\ rawlen = 0)) => Behind

\* The recording is that of the line, and empty before its first mark.
Recording == /\ RecordsLine
             /\ ~torn /\ rcvstate = "idle" /\ pc # "clear" => rawlen = 0

Inv == Types /\ Stages /\ Follows /\ Recording

LEMMA TimerFacts == ASSUME NEW x \in Ticks
                    PROVE  /\ (x + 1) % Wrap \in Ticks
                           /\ IF x + 1 < Wrap THEN (x + 1) % Wrap = x + 1 ELSE (x + 1) % Wrap = 0
<1>1. Wrap \in Nat /\ Wrap > 1 /\ x \in Nat /\ x + 1 <= Wrap
  BY IrAssumption DEF Ticks
<1>2. PICK y \in Nat : y = x + 1
  BY <1>1
<1>3. y % Wrap \in 0 .. Wrap - 1
  BY <1>1, <1>2
<1>4. CASE y < Wrap
  <2>1. y % Wrap = y
    BY <1>1, <1>2, <1>4
  <2> QED BY <1>2, <1>3, <1>4, <2>1 DEF Ticks
<1>5. CASE y = Wrap
  <2>1. Wrap % Wrap = 0
    BY <1>1
  <2> QED BY <1>2, <1>3, <1>5, <2>1 DEF Ticks
<1> QED BY <1>1, <1>2, <1>4, <1>5

LEMMA LessOfTwo == ASSUME NEW a \in Nat, NEW b \in Nat
                  PROVE  Min({a, b}) = IF a < b THEN a ELSE b
<1>1. PICK m \in {a, b} : m = (IF a < b THEN a ELSE b)
  OBVIOUS
<1>2. \A y \in {a, b} : m <= y
  BY <1>1
<1>3. \A x \in {a, b} : (\A y \in {a, b} : x <= y) => x = m
  BY <1>2
<1> QED BY <1>1, <1>2, <1>3 DEF Min

LEMMA InitInv == Init => Inv
<1> SUFFICES ASSUME Init PROVE Inv
  OBVIOUS
<1>1. Types
  BY IrAssumption, EmptySeq DEF Init, Types, Ticks, Mark, Space
<1>2. Stages /\ Follows /\ Recording
  BY DEF Init, Stages, Follows, Recording, RecordsLine
<1> QED BY <1>1, <1>2 DEF Inv

\* The steps of the sketch but those of resume() leave the recorder alone.
LEMMA SketchSteps ==
  ASSUME Sketch
  PROVE  \/ ResumeState \/ ResumeLength
         \/ /\ UNCHANGED <<irparams, lineVars, torn>>
            /\ pc = "off" /\ pc' = "enable"
         \/ /\ UNCHANGED <<irparams, lineVars, torn>>
            /\ pc \notin {"off", "enable", "clear"} /\ pc' \notin {"off", "enable", "clear"}
            /\ pc' \in {"decoded", "resume"} => pc = "decoded" \/ (pc = "test" /\ rcvstate = "stop")
            /\ pc' \in {"idle", "test", "decoded", "resume", "compare"}
BY DEF Sketch, Enable, NotReady, DecodeSRC, ButtonReturns, TakeKey, OtherKey, DecodeLength, KeyPressed

\* What a tick does to the line, whatever the recorder makes of it.
LEMMA SampleFacts ==
  ASSUME Types, NEW irdata \in {Mark, Space}, Sample(irdata)
  PROVE  /\ level' = irdata /\ pc' = pc /\ ticks' \in Nat
         /\ ~torn' => ~torn /\ pc \notin {"enable", "clear"}
         /\ run' \in Nat /\ heard' \in Seq(Nat)
         /\ irdata # level => run' = 1
         /\ irdata = Mark /\ level = Mark => run' = (run + 1) % Wrap
         /\ irdata = Space /\ level = Space => run' = IF run < Gap + 2 THEN run + 1 ELSE Gap + 2
<1>1. /\ level' = irdata /\ pc' = pc /\ ticks' \in Nat
      /\ ~torn' => ~torn /\ pc \notin {"enable", "clear"}
  <2>1. torn' = (torn \/ pc \in {"enable", "clear"})
    BY DEF Sample
  <2>2. ~torn' => ~torn /\ pc \notin {"enable", "clear"}
    BY <2>1, Zenon
  <2>3. level' = irdata /\ pc' = pc /\ ticks' \in Nat
    <3>1. ticks' = IF InWindow THEN ticks + 1 ELSE ticks
      BY DEF Sample
    <3>2. ticks \in Nat
      BY DEF Types
    <3> QED BY <3>1, <3>2 DEF Sample
  <2> QED BY <2>2, <2>3
<1>2. heard' \in Seq(Nat)
  <2>1. heard' = <<>> \/ heard' = heard \/ heard' = Append(heard, run)
    BY DEF Sample
  <2>2. heard \in Seq(Nat) /\ run \in Nat
    BY DEF Types
  <2>3. Append(heard, run) \in Seq(Nat)
    BY <2>2, AppendProperties
  <2> QED BY <2>1, <2>2, <2>3, EmptySeq
<1>3. irdata # level => run' = 1
  BY DEF Sample
<1>4. irdata = Mark /\ level = Mark => run' = (run + 1) % Wrap /\ run' \in Nat
  <2> SUFFICES ASSUME irdata = Mark, level = Mark PROVE run' = (run + 1) % Wrap /\ run' \in Nat
    OBVIOUS
  <2>1. run' = (run + 1) % Wrap
    BY DEF Sample, Mark, Space
  <2>2. PICK n \in Nat : n = run + 1
    BY DEF Types
  <2>3. n % Wrap \in 0 .. Wrap - 1
    BY IrAssumption
  <2> QED BY <2>1, <2>2, <2>3
<1>5. irdata = Space /\ level = Space => run' = IF run < Gap + 2 THEN run + 1 ELSE Gap + 2
  <2> SUFFICES ASSUME irdata = Space, level = Space
               PROVE  run' = IF run < Gap + 2 THEN run + 1 ELSE Gap + 2
    OBVIOUS
  <2>1. run' = Min({run + 1, Gap + 2})
    BY DEF Sample, Mark, Space
  <2>2. run + 1 \in Nat /\ Gap + 2 \in Nat /\ run \in Nat /\ Gap \in Nat
    BY IrAssumption DEF Types
  <2>3. Min({run + 1, Gap + 2}) = IF run + 1 < Gap + 2 THEN run + 1 ELSE Gap + 2
    BY <2>2, LessOfTwo
  <2> QED BY <2>1, <2>2, <2>3
<1>6. run' \in Nat
  BY <1>3, <1>4, <1>5, IrAssumption DEF Types
<1> QED BY <1>1, <1>2, <1>3, <1>4, <1>5, <1>6

\* Behind survives a sample that advances the timer, or clears it at a mark.
LEMMA BehindKept ==
  ASSUME Types, Behind, NEW irdata \in {Mark, Space}, Sample(irdata),
         IF irdata = Mark THEN timer' = 0 ELSE timer' = (timer + 1) % Wrap
  PROVE  Behind'
<1>1. PICK t \in Ticks : t = (timer + 1) % Wrap /\ t <= timer + 1
  BY TimerFacts, IrAssumption DEF Types, Ticks
<1>2. level' = irdata
  BY SampleFacts
<1>3. CASE irdata = Mark
  BY <1>2, <1>3 DEF Behind
<1>4. CASE irdata = Space /\ level = Mark
  <2>1. run' = 1 /\ timer = 0
    BY <1>4, SampleFacts DEF Behind, Mark, Space
  <2> QED BY <1>1, <1>2, <1>4, <2>1 DEF Behind, Mark, Space, Ticks
<1>5. CASE irdata = Space /\ level = Space
  <2>1. run' = IF run < Gap + 2 THEN run + 1 ELSE Gap + 2
    BY <1>5, SampleFacts
  <2>2. timer' = t /\ level' = Space /\ level # Mark
    BY <1>1, <1>2, <1>5 DEF Mark, Space
  <2>3. run >= Gap + 2 \/ timer <= run
    BY <2>2 DEF Behind
  <2>4. t \in Nat /\ timer \in Nat /\ run \in Nat /\ Gap \in Nat
    BY <1>1, IrAssumption DEF Types, Ticks
  <2>5. run' >= Gap + 2 \/ timer' <= run'
    BY <1>1, <2>1, <2>2, <2>3, <2>4
  <2> QED BY <2>2, <2>5 DEF Behind, Mark, Space
<1> QED BY <1>3, <1>4, <1>5 DEF Types

\* The five cases of the interrupt's switch.
LEMMA OffKeeps ==
  ASSUME Inv, NEW irdata \in {Mark, Space}, Sample(irdata),
         TickOff(irdata, (timer + 1) % Wrap)
  PROVE  Inv'
<1>1. Types /\ Stages /\ Follows
  BY DEF Inv
<1>2. PICK t \in Ticks : t = (timer + 1) % Wrap
  BY <1>1, TimerFacts DEF Types
<1>3. rcvstate = "off" /\ pc = "enable" /\ timer' = t /\ UNCHANGED <<rcvstate, rawbuf, rawlen>>
  BY <1>1, <1>2 DEF TickOff, Stages
<1>4. pc' = pc /\ level' = irdata /\ run' \in Nat /\ heard' \in Seq(Nat) /\ ticks' \in Nat
      /\ (~torn' => pc # "enable")
  BY <1>1, SampleFacts
<1>5. Types'
  BY <1>1, <1>3, <1>4 DEF Types
<1>6. Stages'
  BY <1>1, <1>3, <1>4 DEF Stages
<1>7. Follows' /\ Recording'
  BY <1>3 DEF Follows, Recording, RecordsLine
<1> QED BY <1>5, <1>6, <1>7 DEF Inv

LEMMA IdleKeeps ==
  ASSUME Inv, NEW irdata \in {Mark, Space}, Sample(irdata),
         TickIdle(irdata, (timer + 1) % Wrap)
  PROVE  Inv'
<1>1. Types /\ Stages /\ Follows /\ Recording
  BY DEF Inv
<1>2. PICK t \in Ticks : t = (timer + 1) % Wrap /\ t <= timer + 1
  BY <1>1, TimerFacts, IrAssumption DEF Types, Ticks
<1>3. /\ pc' = pc /\ level' = irdata /\ run' \in Nat /\ heard' \in Seq(Nat) /\ ticks' \in Nat
      /\ ~torn' => ~torn /\ pc \notin {"enable", "clear"}
  BY <1>1, SampleFacts
<1>4. rcvstate = "idle" /\ rawlen < RawBuf /\ pc \notin {"off", "enable", "decoded", "resume"}
  BY <1>1 DEF TickIdle, Stages
<1>5. CASE irdata = Mark /\ t >= Gap
  <2>1. /\ rawbuf' = [rawbuf EXCEPT ![0] = t] /\ rawlen' = 1
        /\ timer' = 0 /\ rcvstate' = "mark"
    BY <1>2, <1>5, IrAssumption DEF TickIdle, Ticks, Mark, Space
  <2>2. Types'
    BY <1>1, <1>2, <1>3, <2>1, IrAssumption DEF Types, Ticks
  <2>3. Stages'
    BY <1>3, <1>4, <2>1 DEF Stages
  <2>4. ~torn' => level # Mark
    <3> SUFFICES ASSUME ~torn', level = Mark PROVE FALSE
      OBVIOUS
    <3>1. timer = 0
      BY <1>1, <1>3, <1>4 DEF Follows, Behind
    <3> QED BY <1>2, <1>5, <3>1, IrAssumption DEF Ticks
  <2>5. ~torn' => run' = (timer' + 1) % Wrap
    <3> SUFFICES ASSUME ~torn' PROVE run' = (timer' + 1) % Wrap
      OBVIOUS
    <3>1. run' = 1
      BY <1>1, <1>5, <2>4, SampleFacts
    <3>2. 0 \in Ticks /\ 0 + 1 < Wrap
      BY IrAssumption DEF Ticks
    <3>3. (0 + 1) % Wrap = 1
      BY <3>2, TimerFacts
    <3> QED BY <2>1, <3>1, <3>3
  <2>6. Follows'
    BY <1>3, <1>5, <2>1, <2>5, IrAssumption DEF Follows
  <2>7. heard' = <<>>
    BY <1>4, <2>1 DEF Sample
  <2>8. Recording'
    BY <2>1, <2>7 DEF Recording, RecordsLine
  <2> QED BY <2>2, <2>3, <2>6, <2>8 DEF Inv
<1>6. CASE ~(irdata = Mark /\ t >= Gap)
  <2>1. UNCHANGED <<rcvstate, rawbuf, rawlen>> /\ timer' = IF irdata = Mark THEN 0 ELSE t
    BY <1>2, <1>6, IrAssumption DEF TickIdle, Ticks, Mark, Space
  <2>2. Types'
    BY <1>1, <1>2, <1>3, <2>1, IrAssumption DEF Types, Ticks
  <2>3. Stages'
    BY <1>3, <1>4, <2>1 DEF Stages
  <2>4. Follows'
    <3>1. ~(torn /\ rawlen = 0) => Behind'
      BY <1>1, <1>2, <1>4, <2>1, BehindKept DEF Follows
    <3>2. ~(torn' /\ rawlen' = 0) => ~(torn /\ rawlen = 0)
      BY <1>3, <2>1 DEF Sample
    <3> QED BY <1>4, <2>1, <3>1, <3>2 DEF Follows
  <2>5. Recording'
    BY <1>1, <1>3, <1>4, <2>1 DEF Recording, RecordsLine
  <2> QED BY <2>2, <2>3, <2>4, <2>5 DEF Inv
<1> QED BY <1>5, <1>6

\* A run that ends is recorded as long as it was.
LEMMA RecordKeeps ==
  ASSUME Inv, NEW irdata \in {Mark, Space}, Sample(irdata), irdata # level,
         rcvstate \in {"mark", "space"}, rawlen < RawBuf,
         NEW t \in Ticks, NEW next \in {"mark", "space"}, Record(t, next),
         ~torn => run = t
  PROVE  Types' /\ Recording'
<1>1. Types /\ Stages /\ Follows /\ Recording
  BY DEF Inv
<1>2. /\ pc' = pc /\ level' = irdata /\ run' \in Nat /\ heard' \in Seq(Nat) /\ ticks' \in Nat
      /\ ~torn' => ~torn
  BY <1>1, SampleFacts
<1>3. /\ rawbuf' = [rawbuf EXCEPT ![rawlen] = t] /\ rawlen' = rawlen + 1
      /\ timer' = 0 /\ rcvstate' = next
  BY DEF Record
<1>4. Types'
  BY <1>1, <1>2, <1>3, IrAssumption DEF Types, Ticks
<1>5. ASSUME ~torn'
      PROVE  rawlen' = Len(heard') + 1 /\ \A k \in DOMAIN heard' : rawbuf'[k] = heard'[k]
  <2>1. rawlen = Len(heard) + 1 /\ \A k \in DOMAIN heard : rawbuf[k] = heard[k]
    BY <1>1, <1>2, <1>5 DEF Recording, RecordsLine
  <2>2. heard \in Seq(Nat) /\ Len(heard) \in Nat /\ run \in Nat
    BY <1>1, LenProperties DEF Types
  <2>3. Len(heard) < RawBuf - 1
    BY <2>1, <2>2, IrAssumption
  <2>4. heard' = Append(heard, run)
    BY <2>3 DEF Sample
  <2>5. /\ Len(heard') = Len(heard) + 1 /\ heard'[Len(heard) + 1] = run
        /\ \A k \in 1 .. Len(heard) : heard'[k] = heard[k]
    BY <2>2, <2>4, AppendProperties
  <2>6. DOMAIN heard' = 1 .. Len(heard) + 1 /\ DOMAIN heard = 1 .. Len(heard)
    BY <1>2, <2>2, <2>5, LenProperties
  <2>7. ASSUME NEW k \in DOMAIN heard' PROVE rawbuf'[k] = heard'[k]
    <3>1. CASE k = Len(heard) + 1
      <4>1. rawbuf'[k] = t
        BY <1>1, <1>3, <2>1, <3>1, IrAssumption DEF Types
      <4> QED BY <1>2, <1>5, <2>5, <3>1, <4>1
    <3>2. CASE k # Len(heard) + 1
      <4>1. k \in 1 .. Len(heard) /\ k \in 0 .. RawBuf - 1 /\ k # rawlen
        BY <2>1, <2>2, <2>3, <2>6, <2>7, <3>2, IrAssumption
      <4>2. rawbuf'[k] = rawbuf[k]
        BY <1>1, <1>3, <4>1 DEF Types
      <4> QED BY <2>1, <2>5, <2>6, <4>1, <4>2
    <3> QED BY <3>1, <3>2
  <2> QED BY <1>3, <2>1, <2>2, <2>5, <2>7
<1>6. Recording'
  BY <1>3, <1>5 DEF Recording, RecordsLine
<1> QED BY <1>4, <1>6

LEMMA MarkKeeps ==
  ASSUME Inv, NEW irdata \in {Mark, Space}, Sample(irdata),
         TickMark(irdata, (timer + 1) % Wrap)
  PROVE  Inv'
<1>1. Types /\ Stages /\ Follows /\ Recording
  BY DEF Inv
<1>2. PICK t \in Ticks : t = (timer + 1) % Wrap
  BY <1>1, TimerFacts DEF Types
<1>3. /\ pc' = pc /\ level' = irdata /\ run' \in Nat /\ heard' \in Seq(Nat) /\ ticks' \in Nat
      /\ ~torn' => ~torn /\ pc \notin {"enable", "clear"}
  BY <1>1, SampleFacts
<1>4. /\ rcvstate = "mark" /\ rawlen < RawBuf /\ level = Mark
      /\ pc \notin {"off", "enable", "decoded", "resume"} /\ (~torn => run = t)
  BY <1>1, <1>2 DEF TickMark, Stages, Follows
<1>5. CASE irdata = Space
  <2>1. Record(t, "space") /\ irdata # level
    BY <1>2, <1>4, <1>5 DEF TickMark, Mark, Space
  <2>2. Types' /\ Recording'
    BY <1>2, <1>4, <2>1, RecordKeeps
  <2>3. rcvstate' = "space" /\ timer' = 0 /\ run' = 1 /\ level' = Space
    BY <1>1, <1>3, <1>5, <2>1, SampleFacts DEF Record
  <2>4. Stages'
    BY <1>3, <1>4, <2>3 DEF Stages
  <2>5. Follows'
    BY <2>3, IrAssumption DEF Follows
  <2> QED BY <2>2, <2>4, <2>5 DEF Inv
<1>6. CASE irdata = Mark
  <2>1. timer' = t /\ UNCHANGED <<rcvstate, rawbuf, rawlen>>
    BY <1>2, <1>6 DEF TickMark, Mark, Space
  <2>2. Types'
    BY <1>1, <1>2, <1>3, <2>1 DEF Types
  <2>3. Stages'
    BY <1>3, <1>4, <2>1 DEF Stages
  <2>4. run' = (run + 1) % Wrap
    BY <1>1, <1>4, <1>6, SampleFacts
  <2>5. Follows'
    BY <1>1, <1>3, <1>4, <1>6, <2>1, <2>4, IrAssumption DEF Follows, Types
  <2>6. heard' = heard
    BY <1>4, <1>6 DEF Sample, Mark, Space
  <2>7. Recording'
    BY <1>1, <1>3, <1>4, <2>1, <2>6 DEF Recording, RecordsLine
  <2> QED BY <2>2, <2>3, <2>5, <2>7 DEF Inv
<1> QED BY <1>5, <1>6

LEMMA SpaceKeeps ==
  ASSUME Inv, NEW irdata \in {Mark, Space}, Sample(irdata),
         TickSpace(irdata, (timer + 1) % Wrap)
  PROVE  Inv'
<1>1. Types /\ Stages /\ Follows /\ Recording
  BY DEF Inv
<1>2. PICK t \in Ticks : t = (timer + 1) % Wrap
  BY <1>1, TimerFacts DEF Types
<1>3. /\ pc' = pc /\ level' = irdata /\ run' \in Nat /\ heard' \in Seq(Nat) /\ ticks' \in Nat
      /\ ~torn' => ~torn /\ pc \notin {"enable", "clear"}
  BY <1>1, SampleFacts
<1>4. /\ rcvstate = "space" /\ rawlen < RawBuf /\ level = Space
      /\ pc \notin {"off", "enable", "decoded", "resume"} /\ run = timer + 1 /\ timer <= Gap
  BY <1>1, <1>2 DEF TickSpace, Stages, Follows
<1>5. t = timer + 1 /\ t \in Nat
  <2>1. timer + 1 < Wrap /\ timer \in Ticks
    BY <1>1, <1>4, IrAssumption DEF Types, Ticks
  <2> QED BY <1>2, <2>1, TimerFacts DEF Ticks
<1>6. CASE irdata = Mark
  <2>1. Record(t, "mark") /\ irdata # level
    BY <1>2, <1>4, <1>6 DEF TickSpace, Mark, Space
  <2>2. Types' /\ Recording'
    BY <1>2, <1>4, <1>5, <2>1, RecordKeeps
  <2>3. rcvstate' = "mark" /\ timer' = 0 /\ run' = 1 /\ level' = Mark
    BY <1>1, <1>3, <1>6, <2>1, SampleFacts DEF Record
  <2>4. Stages'
    BY <1>3, <1>4, <2>3 DEF Stages
  <2>5. (0 + 1) % Wrap = 1
    <3>1. 0 \in Ticks /\ 0 + 1 < Wrap
      BY IrAssumption DEF Ticks
    <3> QED BY <3>1, TimerFacts
  <2>6. Follows'
    BY <2>3, <2>5 DEF Follows
  <2> QED BY <2>2, <2>4, <2>6 DEF Inv
<1>7. CASE irdata = Space
  <2>1. /\ timer' = t /\ UNCHANGED <<rawbuf, rawlen>>
        /\ rcvstate' = IF t > Gap THEN "stop" ELSE "space"
    BY <1>2, <1>7 DEF TickSpace, Mark, Space
  <2>2. Types'
    BY <1>1, <1>2, <1>3, <2>1 DEF Types
  <2>3. Stages'
    BY <1>3, <1>4, <2>1 DEF Stages
  <2>4. run' = (IF run < Gap + 2 THEN run + 1 ELSE Gap + 2) /\ level' = Space
    BY <1>1, <1>3, <1>4, <1>7, SampleFacts
  <2>5. timer' = t /\ t = run /\ run \in Nat /\ Gap \in Nat
    BY <1>1, <1>4, <1>5, <2>1, IrAssumption DEF Types
  <2>6. ASSUME t > Gap PROVE Follows'
    <3>1. rcvstate' = "stop"
      BY <2>1, <2>6
    <3>2. run' >= Gap + 2 \/ timer' <= run'
      BY <2>4, <2>5
    <3> QED BY <2>4, <3>1, <3>2 DEF Follows, Behind, Mark, Space
  <2>7. ASSUME ~(t > Gap) PROVE Follows'
    <3>1. rcvstate' = "space" /\ rawlen' < RawBuf
      BY <1>4, <2>1, <2>7
    <3>2. run' = timer' + 1 /\ timer' <= Gap
      BY <2>4, <2>5, <2>7
    <3>3. ~(rawlen' >= RawBuf)
      BY <1>1, <3>1, <2>1, IrAssumption DEF Types
    <3> QED BY <2>4, <3>1, <3>2, <3>3 DEF Follows
  <2>8. Follows'
    BY <2>6, <2>7
  <2>9. heard' = heard
    BY <1>4, <1>7 DEF Sample, Mark, Space
  <2>10. Recording'
    BY <1>1, <1>3, <1>4, <2>1, <2>9 DEF Recording, RecordsLine
  <2> QED BY <2>2, <2>3, <2>8, <2>10 DEF Inv
<1> QED BY <1>6, <1>7

LEMMA StopKeeps ==
  ASSUME Inv, NEW irdata \in {Mark, Space}, Sample(irdata),
         TickStop(irdata, (timer + 1) % Wrap)
  PROVE  Inv'
<1>1. Types /\ Stages /\ Follows /\ Recording
  BY DEF Inv
<1>2. PICK t \in Ticks : t = (timer + 1) % Wrap
  BY <1>1, TimerFacts DEF Types
<1>3. /\ pc' = pc /\ level' = irdata /\ run' \in Nat /\ heard' \in Seq(Nat) /\ ticks' \in Nat
      /\ ~torn' => ~torn /\ pc \notin {"enable", "clear"}
  BY <1>1, SampleFacts
<1>4. /\ rcvstate' = "stop" /\ UNCHANGED <<rawbuf, rawlen>>
      /\ timer' = IF irdata = Mark THEN 0 ELSE t
      /\ rcvstate = "stop" \/ rawlen >= RawBuf
  BY <1>2 DEF TickStop
<1>5. rawlen \in Nat /\ RawBuf \in Nat /\ RawBuf > 3
  BY <1>1, IrAssumption DEF Types
<1>6. rcvstate # "off" /\ pc \notin {"off", "enable"}
  BY <1>1, <1>4, <1>5 DEF Stages
<1>7. Types'
  BY <1>1, <1>2, <1>3, <1>4, IrAssumption DEF Types, Ticks
<1>8. Stages'
  BY <1>3, <1>4, <1>6 DEF Stages
<1>9. Behind
  <2>1. CASE rcvstate = "stop" \/ rcvstate = "idle"
    BY <1>1, <1>4, <1>5, <2>1 DEF Follows
  <2>2. CASE rcvstate = "mark"
    BY <1>1, <1>4, <2>2 DEF Follows, Behind
  <2>3. CASE rcvstate = "space"
    <3>1. timer = 0 /\ level = Space /\ run = timer + 1
      BY <1>1, <1>4, <2>3 DEF Follows
    <3> QED BY <3>1 DEF Behind, Mark, Space
  <2> QED BY <1>1, <1>6, <2>1, <2>2, <2>3 DEF Types
<1>10. Follows'
  BY <1>1, <1>2, <1>4, <1>9, BehindKept DEF Follows
<1>11. Recording'
  <2> SUFFICES ASSUME ~torn'
               PROVE  rawlen' = Len(heard') + 1 /\ \A k \in DOMAIN heard' : rawbuf'[k] = heard'[k]
    BY <1>4 DEF Recording, RecordsLine
  <2>1. ~torn /\ pc # "clear"
    BY <1>3
  <2>2. rcvstate # "idle"
    BY <1>1, <1>4, <1>5, <2>1 DEF Recording
  <2>3. rawlen = Len(heard) + 1 /\ \A k \in DOMAIN heard : rawbuf[k] = heard[k]
    BY <1>1, <1>6, <2>1, <2>2 DEF Recording, RecordsLine, Types
  <2>4. Len(heard) \in Nat
    BY <1>1, LenProperties DEF Types
  <2>5. rcvstate = "stop" \/ ~(Len(heard) < RawBuf - 1)
    BY <1>4, <1>5, <2>3, <2>4
  <2>6. heard' = heard
    BY <1>4, <2>2, <2>5 DEF Sample
  <2> QED BY <1>4, <2>3, <2>6
<1> QED BY <1>7, <1>8, <1>10, <1>11 DEF Inv

LEMMA TickKeeps == Inv /\ Tick => Inv'
<1> SUFFICES ASSUME Inv, Tick PROVE Inv'
  OBVIOUS
<1>1. PICK irdata \in {Mark, Space} :
        LET t == (timer + 1) % Wrap
        IN  /\ \/ TickOff(irdata, t) \/ TickIdle(irdata, t) \/ TickMark(irdata, t)
               \/ TickSpace(irdata, t) \/ TickStop(irdata, t)
            /\ Sample(irdata)
  BY DEF Tick
<1> QED BY <1>1, OffKeeps, IdleKeeps, MarkKeeps, SpaceKeeps, StopKeeps

\* resume() comes after a finished recording, or at the end of enable().
LEMMA ResumeKeeps == Inv /\ (ResumeState \/ ResumeLength) => Inv'
<1> SUFFICES ASSUME Inv, ResumeState \/ ResumeLength PROVE Inv'
  OBVIOUS
<1>1. Types /\ Stages /\ Follows /\ Recording
  BY DEF Inv
<1>2. CASE ResumeState
  <2>1. /\ pc \in {"enable", "resume"} /\ pc' = "clear" /\ rcvstate' = "idle" /\ ticks' = 0
        /\ heard' = <<>> /\ UNCHANGED <<timer, rawbuf, rawlen, level, run>>
    BY <1>2 DEF ResumeState
  <2>2. torn' = (torn /\ pc = "enable")
    BY <1>2 DEF ResumeState
  <2>3. Types'
    BY <1>1, <2>1, EmptySeq DEF Types
  <2>4. Stages'
    BY <2>1 DEF Stages
  <2>5. CASE pc = "enable"
    <3>1. rawlen = 0 /\ (~torn => Behind)
      BY <1>1, <2>5, IrAssumption DEF Stages, Behind, Mark, Space
    <3>2. ~(torn' /\ rawlen' = 0) => ~torn
      BY <2>1, <2>2, <2>5, <3>1
    <3>3. Behind => Behind'
      BY <2>1 DEF Behind
    <3>4. Follows'
      BY <2>1, <3>1, <3>2, <3>3 DEF Follows
    <3> QED BY <2>1, <2>3, <2>4, <3>4 DEF Inv, Recording, RecordsLine
  <2>6. CASE pc = "resume"
    <3>1. Behind
      BY <1>1, <2>6 DEF Stages, Follows
    <3>2. Follows'
      BY <2>1, <3>1 DEF Follows, Behind
    <3> QED BY <2>1, <2>3, <2>4, <3>2 DEF Inv, Recording, RecordsLine
  <2> QED BY <2>1, <2>5, <2>6
<1>3. CASE ResumeLength
  <2>1. /\ pc = "clear" /\ pc' \in {"compare", "idle"} /\ rawlen' = 0 /\ ticks' = 0
        /\ UNCHANGED <<rcvstate, timer, rawbuf, lineVars, torn>>
    BY <1>3 DEF ResumeLength
  <2>2. Types'
    BY <1>1, <2>1, IrAssumption DEF Types, lineVars
  <2>3. Stages'
    BY <1>1, <2>1 DEF Stages
  <2>4. Follows'
    <3>1. ~torn => rcvstate = "idle"
      BY <1>1, <2>1 DEF Stages
    <3>2. Behind => Behind'
      BY <2>1 DEF Behind, lineVars
    <3>3. ~(0 >= RawBuf)
      BY IrAssumption
    <3> QED BY <1>1, <2>1, <3>1, <3>2, <3>3 DEF Follows, lineVars
  <2>5. Recording'
    BY <1>1, <2>1 DEF Recording, RecordsLine, Stages
  <2> QED BY <2>2, <2>3, <2>4, <2>5 DEF Inv
<1> QED BY <1>2, <1>3

LEMMA Inductive == Inv /\ [Next]_vars => Inv'
<1> SUFFICES ASSUME Inv, [Next]_vars PROVE Inv'
  OBVIOUS
<1>1. Types /\ Stages /\ Follows /\ Recording
  BY DEF Inv
<1>2. ASSUME UNCHANGED <<irparams, lineVars, torn>>,
             ticks' \in Nat,
             \/ UNCHANGED pc
             \/ pc = "off" /\ pc' = "enable"
             \/ /\ pc \notin {"off", "enable", "clear"} /\ pc' \notin {"off", "enable", "clear"}
                /\ pc' \in {"decoded", "resume"} => pc = "decoded" \/ (pc = "test" /\ rcvstate = "stop")
                /\ pc' \in {"idle", "test", "decoded", "resume", "compare"}
      PROVE  Inv'
  <2>1. Types'
    BY <1>1, <1>2 DEF Types, irparams, lineVars
  <2>2. Stages'
    BY <1>1, <1>2 DEF Stages, irparams, lineVars
  <2>3. Follows'
    BY <1>1, <1>2 DEF Follows, Behind, irparams, lineVars
  <2>4. Recording'
    BY <1>1, <1>2 DEF Recording, RecordsLine, Stages, irparams, lineVars
  <2> QED BY <2>1, <2>2, <2>3, <2>4 DEF Inv
<1>3. CASE Tick
  BY <1>3, TickKeeps
<1>4. CASE Sketch
  <2>1. CASE ResumeState \/ ResumeLength
    BY <2>1, ResumeKeeps
  <2>2. CASE ~(ResumeState \/ ResumeLength)
    <3>1. ticks' = ticks \/ ticks' = 0
      BY <1>4 DEF Sketch, Enable, ResumeState, ResumeLength, NotReady, DecodeSRC, ButtonReturns,
                  TakeKey, OtherKey, DecodeLength, KeyPressed
    <3>2. ticks' \in Nat
      BY <1>1, <3>1 DEF Types
    <3> QED BY <1>2, <1>4, <2>2, <3>2, SketchSteps
  <2> QED BY <2>1, <2>2
<1>5. CASE UNCHANGED vars
  BY <1>1, <1>2, <1>5 DEF vars, sketchVars, Types
<1> QED BY <1>3, <1>4, <1>5 DEF Next

LEMMA Invariant == Spec => []Inv
<1> QED BY InitInv, Inductive, PTL DEF Spec

\* The recording is the line's, run by run, until resume() starts over.
THEOREM Recorded == Spec => []RecordsLine
<1>1. Inv => RecordsLine
  BY DEF Inv, Recording
<1> QED BY Invariant, <1>1, PTL

\* The recorder follows the line, and a transmission is ready one gap after it.
THEOREM Ready == Spec => []ReadyInTime
<1>1. ASSUME Inv PROVE ReadyInTime
  <2>1. rcvstate = "mark" => level = Mark
    BY <1>1 DEF Inv, Follows
  <2>2. rcvstate = "space" => level = Space /\ run = timer + 1 /\ timer <= Gap
    BY <1>1 DEF Inv, Follows
  <2>3. timer \in Nat /\ Gap \in Nat
    BY <1>1, IrAssumption DEF Inv, Types, Ticks
  <2> QED BY <2>1, <2>2, <2>3 DEF ReadyInTime, Silence
<1> QED BY Invariant, <1>1, PTL

\* A recording begins after a gap, whenever resume() was called.
THEOREM BeginsAfterGap == Spec => GapFirst
<1>1. ASSUME Inv, [Next]_vars, rcvstate = "idle", rcvstate' = "mark", ~torn
      PROVE  Silence >= Gap - 1
  <2>1. Types /\ Behind
    BY <1>1 DEF Inv, Follows
  <2>2. Tick
    BY <1>1, SketchSteps DEF Next, ResumeState, ResumeLength, vars, irparams
  <2>3. PICK t \in Ticks : t = (timer + 1) % Wrap /\ t <= timer + 1
    BY <2>1, TimerFacts, IrAssumption DEF Types, Ticks
  <2>4. t >= Gap
    BY <1>1, <2>2, <2>3 DEF Tick, TickOff, TickIdle, TickMark, TickSpace, TickStop
  <2>5. timer \in Nat /\ run \in Nat /\ Gap \in Nat /\ Gap > 1 /\ t \in Nat
    BY <2>1, <2>3, IrAssumption DEF Types, Ticks
  <2>6. timer >= Gap - 1 /\ timer # 0
    BY <2>3, <2>4, <2>5
  <2>7. level # Mark /\ (run >= Gap + 2 \/ timer <= run)
    BY <2>1, <2>6 DEF Behind
  <2>8. level = Space
    BY <2>1, <2>7 DEF Types
  <2> QED BY <2>5, <2>6, <2>7, <2>8 DEF Silence
<1>2. Inv /\ [Next]_vars => [rcvstate = "idle" /\ rcvstate' = "mark" /\ ~torn => Silence >= Gap - 1]_vars
  BY <1>1
<1> QED BY Invariant, <1>2, PTL DEF Spec, GapFirst

\* What decode() reads of an entry is what was on the line.
LEMMA SameBits ==
  ASSUME NEW entry, NEW fed, NEW n \in Nat, \A k \in 1 .. n - 1 : entry[k] = fed[k]
  PROVE  Frame(Bits(entry, n)) = Frame(Bits(fed, n))
<1>1. CASE n <= 4
  BY <1>1 DEF Bits
<1>2. CASE ~(n <= 4)
  <2>1. \A i \in 1 .. n - 4 : entry[i + 1] = fed[i + 1]
    <3> TAKE i \in 1 .. n - 4
    <3>1. i + 1 \in 1 .. n - 1
      BY <1>2
    <3> QED BY <3>1
  <2>2. [i \in 1 .. n - 4 |-> [j \in 1 .. BitCount(entry[i + 1]) |-> (i + 1) % 2]]
          = [i \in 1 .. n - 4 |-> [j \in 1 .. BitCount(fed[i + 1]) |-> (i + 1) % 2]]
    BY <2>1
  <2> QED BY <1>2, <2>2 DEF Bits
<1> QED BY <1>1, <1>2

\* decode() copies the length of the recording it will find finished.
Copied == pc = "test" /\ (ticks = 0 \/ rcvstate = "stop") => length = rawlen

LEMMA CopiedStep == ASSUME MaxTicks <= 1
                    PROVE  Inv /\ Copied /\ [Next]_vars => Copied'
<1> SUFFICES ASSUME Inv, Copied, [Next]_vars PROVE Copied'
  OBVIOUS
<1>1. CASE Tick
  <2> SUFFICES ASSUME pc' = "test", ticks' = 0 \/ rcvstate' = "stop" PROVE length' = rawlen'
    BY DEF Copied
  <2>1. PICK irdata \in {Mark, Space} :
          LET t == (timer + 1) % Wrap
          IN  /\ InWindow => ticks < MaxTicks
              /\ \/ TickOff(irdata, t) \/ TickIdle(irdata, t) \/ TickMark(irdata, t)
                 \/ TickSpace(irdata, t) \/ TickStop(irdata, t)
              /\ Sample(irdata)
    BY <1>1 DEF Tick
  <2>2. pc = "test" /\ InWindow /\ ticks' = ticks + 1 /\ length' = length
    BY <2>1 DEF Sample, InWindow
  <2>3. ticks = 0 /\ ticks' # 0
    BY <2>1, <2>2, IrAssumption DEF Inv, Types
  <2>4. rcvstate' = "stop" => rawlen' = rawlen
    <3>1. irdata = Mark \/ irdata = Space
      OBVIOUS
    <3> QED BY <2>1, <3>1 DEF TickOff, TickIdle, TickMark, TickSpace, TickStop, Record
  <2> QED BY <2>2, <2>3, <2>4 DEF Copied
<1>2. CASE Sketch
  <2>1. CASE \E who \in {"ir_rc", "button"} : DecodeLength(who)
    BY <2>1 DEF DecodeLength, Copied, irparams
  <2>2. CASE ~\E who \in {"ir_rc", "button"} : DecodeLength(who)
    <3>1. pc' # "test"
      BY <1>2, <2>2 DEF Sketch, Enable, ResumeState, ResumeLength, NotReady, DecodeSRC, ButtonReturns,
                  TakeKey, OtherKey, KeyPressed
    <3> QED BY <3>1 DEF Copied
  <2> QED BY <2>1, <2>2
<1>3. CASE UNCHANGED vars
  BY <1>3 DEF Copied, vars, irparams, sketchVars
<1> QED BY <1>1, <1>2, <1>3 DEF Next

\* If at most one tick comes between decode()'s two reads, it decodes what was
\* on the line.
THEOREM Decoded == ASSUME MaxTicks <= 1 PROVE Spec => DecodedIsHeard
<1>1. Init => Copied
  BY DEF Init, Copied
<1>2. ASSUME Inv, Copied, DecodeSRC, ~torn
      PROVE  result' = Frame(Bits(heard, Len(heard) + 1))
  <2>1. pc = "test" /\ rcvstate = "stop" /\ result' = Frame(Bits(rawbuf, length))
    BY <1>2 DEF DecodeSRC
  <2>2. length = rawlen
    BY <1>2, <2>1 DEF Copied
  <2>3. rawlen = Len(heard) + 1 /\ \A k \in DOMAIN heard : rawbuf[k] = heard[k]
    BY <1>2, <2>1 DEF Inv, Recording, RecordsLine
  <2>4. heard \in Seq(Nat)
    BY <1>2 DEF Inv, Types
  <2>5. PICK n \in Nat : n = Len(heard) + 1 /\ DOMAIN heard = 1 .. n - 1
    BY <2>4, LenProperties
  <2>6. \A k \in 1 .. n - 1 : rawbuf[k] = heard[k]
    BY <2>3, <2>5
  <2>7. Frame(Bits(rawbuf, n)) = Frame(Bits(heard, n))
    BY <2>6, SameBits
  <2> QED BY <2>1, <2>2, <2>3, <2>5, <2>7
<1>3. Inv /\ Copied => [DecodeSRC /\ ~torn => result' = Frame(Bits(heard, Len(heard) + 1))]_vars
  BY <1>2
<1> QED BY Invariant, CopiedStep, <1>1, <1>3, PTL DEF Spec, DecodedIsHeard

\* A finished recording is new until ir_rc() has taken it, and a key it keeps is
\* that of the frame it took last.
Kept == /\ rcvstate = "stop" => unread \/ (pc = "resume" /\ caller = "ir_rc")
        /\ \A key \in Key \ {0} : remote_cu_key = key => news = <<key, TRUE>>

LEMMA KeptStep == Inv /\ Kept /\ [Next]_vars => Kept'
<1> SUFFICES ASSUME Inv, Kept, [Next]_vars PROVE Kept'
  OBVIOUS
<1>1. KeyIdle \notin Key
  BY DEF Key, KeyIdle
<1>2. CASE Tick
  <2>1. /\ unread' = (unread \/ (rcvstate # "stop" /\ rcvstate' = "stop"))
        /\ UNCHANGED <<pc, caller, remote_cu_key, news>>
    BY <1>2 DEF Tick, Sample
  <2>2. rcvstate' = "stop" => unread' \/ (pc' = "resume" /\ caller' = "ir_rc")
    BY <2>1, Zenon DEF Kept
  <2> QED BY <2>1, <2>2 DEF Kept
<1>3. CASE TakeKey
  <2>1. pc = "decoded" /\ caller = "ir_rc" /\ pc' = "resume" /\ caller' = caller
    BY <1>3 DEF TakeKey
  <2>2. unread
    BY <2>1 DEF Inv, Stages, Kept
  <2>3. news' = <<result.command, Ours>>
    BY <1>3, <2>2 DEF TakeKey
  <2>4. ASSUME NEW key \in Key \ {0}, remote_cu_key' = key PROVE news' = <<key, TRUE>>
    <3>1. PICK mine \in OnChannel(result.address) :
             remote_cu_key' = IF mine THEN result.command ELSE KeyIdle
      BY <1>3 DEF TakeKey
    <3>2. mine /\ result.command = key
      BY <1>1, <2>4, <3>1
    <3>3. Ours = TRUE
      BY <3>2 DEF OnChannel, Ours
    <3> QED BY <2>3, <3>2, <3>3
  <2> QED BY <2>1, <2>4 DEF Kept
<1>4. CASE \E key \in Key \ {0} : KeyPressed(key)
  BY <1>1, <1>4 DEF KeyPressed, Kept, irparams
<1>5. CASE ResumeState
  BY <1>5 DEF ResumeState, Kept
<1>6. CASE Sketch /\ ~TakeKey /\ ~(\E key \in Key \ {0} : KeyPressed(key)) /\ ~ResumeState
  <2>1. UNCHANGED <<rcvstate, unread, news, remote_cu_key>> /\ pc # "resume"
    BY <1>6 DEF Sketch, Enable, ResumeLength, NotReady, DecodeSRC, ButtonReturns, OtherKey,
                DecodeLength, irparams
  <2> QED BY <2>1 DEF Kept
<1>7. CASE UNCHANGED vars
  BY <1>7 DEF Kept, vars, irparams, sketchVars
<1> QED BY <1>2, <1>3, <1>4, <1>5, <1>6, <1>7 DEF Next

\* ir_rc() reports a key once for a transmission, and only one for its channel.
THEOREM Once == Spec => OncePerFrame
<1>1. Init => Kept
  BY DEF Init, Kept
<1>2. Inv /\ Kept /\ [Next]_vars
        => [\A key \in Key \ {0} : KeyPressed(key) => news = <<key, TRUE>>]_vars
  BY DEF KeyPressed, Kept
<1> QED BY Invariant, KeptStep, <1>1, <1>2, PTL DEF Spec, OncePerFrame

-----------------------------------------------------------------------------
(* Recursion over the natural numbers, one step at a time *)

\* A set that holds 0 and with k also k + 1 holds everything up to n.
LEMMA UpTo ==
  ASSUME NEW n \in Nat, NEW A, 0 \in A, \A k \in 1 .. n : k - 1 \in A => k \in A
  PROVE  \A k \in 0 .. n : k \in A
<1> DEFINE S == {k \in 0 .. n : k \notin A}
<1> SUFFICES ASSUME S # {} PROVE FALSE
  OBVIOUS
<1> DEFINE R == OpToRel(<, Nat)
<1>1. IsWellFoundedOn(R, Nat)
  BY NatLessThanWellFounded
<1>2. PICK x \in S : \A y \in S : <<y, x>> \notin R
  <2>1. S \subseteq Nat
    OBVIOUS
  <2> HIDE DEF R, S
  <2> QED BY <1>1, <2>1, WFMin
<1>3. x # 0 /\ x \in 1 .. n /\ x - 1 \in 0 .. n
  OBVIOUS
<1>4. x - 1 \in S
  BY <1>3
<1>5. <<x - 1, x>> \in R
  <2>1. x - 1 \in Nat /\ x \in Nat /\ x - 1 < x
    BY <1>3
  <2> QED BY <2>1, Zenon DEF OpToRel
<1> QED BY <1>2, <1>4, <1>5

\* A function defined step by step from a, step k leading from S[k - 1] to S[k].
Steps(n, S, g) == \A k \in 1 .. n : \A x \in S[k - 1] : g[k][x] \in S[k]
Stepped(n, S, a, g) ==
  \E f : /\ f = [k \in 0 .. n |-> IF k = 0 THEN a ELSE g[k][f[k - 1]]]
         /\ \A k \in 0 .. n : f[k] \in S[k]

\* A function so defined exists, and its values lie in the sets S.
LEMMA Recursion ==
  ASSUME NEW n \in Nat, NEW S, NEW a \in S[0], NEW g, Steps(n, S, g)
  PROVE  Stepped(n, S, a, g)
<1> USE DEF Steps, Stepped
<1> DEFINE Upto(m) == \E f : /\ f = [k \in 0 .. m |-> IF k = 0 THEN a ELSE g[k][f[k - 1]]]
                             /\ \A k \in 0 .. m : f[k] \in S[k]
           A == {m \in 0 .. n : Upto(m)}
<1>1. Upto(0)
  <2> DEFINE f == [k \in 0 .. 0 |-> a]
  <2>1. f = [k \in 0 .. 0 |-> IF k = 0 THEN a ELSE g[k][f[k - 1]]]
    OBVIOUS
  <2>2. \A k \in 0 .. 0 : f[k] \in S[k]
    OBVIOUS
  <2> QED BY <2>1, <2>2
<1>2. ASSUME NEW m \in 1 .. n, Upto(m - 1) PROVE Upto(m)
  <2>1. PICK f : /\ f = [k \in 0 .. m - 1 |-> IF k = 0 THEN a ELSE g[k][f[k - 1]]]
                 /\ \A k \in 0 .. m - 1 : f[k] \in S[k]
    BY <1>2
  <2> DEFINE h == [k \in 0 .. m |-> IF k = m THEN g[m][f[m - 1]] ELSE f[k]]
  <2>2. \A k \in 0 .. m : h[k] = IF k = 0 THEN a ELSE g[k][h[k - 1]]
    <3> SUFFICES ASSUME NEW k \in 0 .. m PROVE h[k] = IF k = 0 THEN a ELSE g[k][h[k - 1]]
      OBVIOUS
    <3>1. CASE k = 0
      <4>1. f[0] = a
        BY <2>1
      <4> QED BY <3>1, <4>1
    <3>2. CASE k \in 1 .. m - 1
      <4>1. f[k] = g[k][f[k - 1]]
        BY <2>1, <3>2
      <4> QED BY <3>2, <4>1
    <3>3. CASE k = m
      BY <3>3
    <3> QED BY <3>1, <3>2, <3>3
  <2>3. h = [k \in 0 .. m |-> IF k = 0 THEN a ELSE g[k][h[k - 1]]]
    <3> HIDE DEF h
    <3>1. h = [k \in 0 .. m |-> h[k]]
      BY DEF h
    <3> QED BY <2>2, <3>1
  <2>4. \A k \in 0 .. m : h[k] \in S[k]
    <3>1. f[m - 1] \in S[m - 1]
      BY <2>1
    <3>2. g[m][f[m - 1]] \in S[m]
      BY <3>1
    <3> QED BY <2>1, <3>2
  <2> HIDE DEF h
  <2> QED BY <2>3, <2>4
<1> HIDE DEF Upto
<1>3. \A k \in 0 .. n : k \in A
  <2>1. 0 \in A
    BY <1>1
  <2>2. \A k \in 1 .. n : k - 1 \in A => k \in A
    BY <1>2
  <2> HIDE DEF A
  <2> QED BY <2>1, <2>2, UpTo
<1>4. Upto(n)
  BY <1>3
<1> QED BY <1>4 DEF Upto

\* The powers of two the receiver uses are positive, each twice the one before.
PowerOk == \A k \in 0 .. CommandBits : /\ Power[k] \in Nat \ {0}
                                       /\ k > 0 => Power[k] = 2 * Power[k - 1]

\* The powers of two are what they should be, as far as they are defined.
LEMMA PowerFacts == PowerOk /\ Power[0] = 1
<1> DEFINE n == CommandBits
           S == [k \in 0 .. n |-> Nat \ {0}]
           g == [k \in 1 .. n |-> [x \in S[k - 1] |-> 2 * x]]
<1>1. n \in Nat
  BY IrAssumption
<1>2. Steps(n, S, g)
  <2> SUFFICES ASSUME NEW k \in 1 .. n, NEW x \in S[k - 1] PROVE g[k][x] \in S[k]
    BY DEF Steps
  <2>1. k - 1 \in 0 .. n /\ k \in 0 .. n
    BY <1>1
  <2>2. x \in Nat \ {0} /\ S[k] = Nat \ {0}
    BY <2>1
  <2>3. 2 * x \in Nat \ {0}
    BY <2>2
  <2> QED BY <2>2, <2>3
<1>3. PICK a : a = 1 /\ a \in S[0]
  BY <1>1
<1>4. \A k \in 1 .. n : \A x \in Nat \ {0} : g[k][x] = 2 * x
  <2> SUFFICES ASSUME NEW k \in 1 .. n PROVE \A x \in Nat \ {0} : g[k][x] = 2 * x
    OBVIOUS
  <2>1. S[k - 1] = Nat \ {0}
    BY <1>1
  <2> QED BY <2>1
<1>5. \A k \in 0 .. n : S[k] = Nat \ {0}
  OBVIOUS
<1> HIDE DEF S, g, n
<1>6. Stepped(n, S, a, g)
  BY ONLY <1>1, <1>2, <1>3, Recursion
<1>7. PICK f : /\ f = [k \in 0 .. n |-> IF k = 0 THEN a ELSE g[k][f[k - 1]]]
               /\ \A k \in 0 .. n : f[k] \in S[k]
  BY <1>6 DEF Stepped
<1>8. /\ f = [k \in 0 .. n |-> IF k = 0 THEN a ELSE g[k][f[k - 1]]]
      /\ \A k \in 0 .. n : f[k] \in Nat \ {0}
  BY <1>5, <1>7
<1>9. \A k \in 0 .. n : (IF k = 0 THEN a ELSE g[k][f[k - 1]]) = IF k = 0 THEN 1 ELSE 2 * f[k - 1]
  <2> SUFFICES ASSUME NEW k \in 1 .. n PROVE g[k][f[k - 1]] = 2 * f[k - 1]
    BY <1>1, <1>3
  <2>1. k - 1 \in 0 .. n
    BY <1>1
  <2> QED BY <1>4, <1>8, <2>1
<1>10. f = [k \in 0 .. n |-> IF k = 0 THEN 1 ELSE 2 * f[k - 1]]
  BY <1>8, <1>9
<1>11. Power = [k \in 0 .. n |-> IF k = 0 THEN 1 ELSE 2 * Power[k - 1]]
  BY <1>10 DEF Power, n
<1> HIDE DEF Power
<1> DEFINE A == {k \in 0 .. n : Power[k] \in Nat \ {0}}
<1>12. 0 \in A /\ Power[0] = 1
  BY <1>1, <1>11
<1>13. \A k \in 1 .. n : k - 1 \in A => k \in A
  <2> SUFFICES ASSUME NEW k \in 1 .. n, Power[k - 1] \in Nat \ {0} PROVE Power[k] \in Nat \ {0}
    BY <1>1
  <2>1. Power[k] = 2 * Power[k - 1]
    BY <1>1, <1>11
  <2> QED BY <2>1
<1> HIDE DEF A
<1>14. \A k \in 0 .. n : k \in A
  BY <1>1, <1>12, <1>13, UpTo
<1>15. \A k \in 0 .. n : k > 0 => Power[k] = 2 * Power[k - 1]
  BY <1>1, <1>11
<1> QED BY <1>12, <1>14, <1>15 DEF A, n, PowerOk

\* The value of n bits, one after the other.
Valued(bits, value) == value = [k \in 0 .. Len(bits) |-> IF k = 0 THEN 0 ELSE 2 * value[k - 1] + bits[k]]

\* One more bit doubles the value of those before it.
LEMMA ValuedFacts ==
  ASSUME NEW bits, NEW value, Valued(bits, value), NEW k \in 1 .. Len(bits), Len(bits) \in Nat
  PROVE  value[k] = 2 * value[k - 1] + bits[k]
<1>1. k \in 0 .. Len(bits) /\ k # 0
  OBVIOUS
<1> QED BY <1>1 DEF Valued

\* The number that bits stand for is their value, a natural number after each bit.
LEMMA NumberIs ==
  ASSUME NEW bits \in Seq({0, 1})
  PROVE  \E value : /\ Valued(bits, value) /\ Number(bits) = value[Len(bits)]
                    /\ \A k \in 0 .. Len(bits) : value[k] \in Nat
<1> DEFINE n == Len(bits)
           S == [k \in 0 .. n |-> Nat]
           g == [k \in 1 .. n |-> [x \in S[k - 1] |-> 2 * x + bits[k]]]
<1>1. n \in Nat /\ \A k \in 1 .. n : bits[k] \in {0, 1}
  OBVIOUS
<1>2. Steps(n, S, g)
  <2> SUFFICES ASSUME NEW k \in 1 .. n, NEW x \in S[k - 1] PROVE g[k][x] \in S[k]
    BY DEF Steps
  <2>1. k - 1 \in 0 .. n /\ k \in 0 .. n /\ bits[k] \in Nat
    BY <1>1
  <2>2. x \in Nat /\ S[k] = Nat
    BY <2>1
  <2> QED BY <2>1, <2>2
<1>3. PICK a : a = 0 /\ a \in S[0]
  BY <1>1
<1>4. \A k \in 1 .. n : \A x \in Nat : g[k][x] = 2 * x + bits[k]
  <2> SUFFICES ASSUME NEW k \in 1 .. n PROVE \A x \in Nat : g[k][x] = 2 * x + bits[k]
    OBVIOUS
  <2>1. S[k - 1] = Nat
    BY <1>1
  <2> QED BY <2>1
<1>5. \A k \in 0 .. n : S[k] = Nat
  OBVIOUS
<1> HIDE DEF S, g, n
<1>6. Stepped(n, S, a, g)
  BY ONLY <1>1, <1>2, <1>3, Recursion
<1>7. PICK f : /\ f = [k \in 0 .. n |-> IF k = 0 THEN a ELSE g[k][f[k - 1]]]
               /\ \A k \in 0 .. n : f[k] \in S[k]
  BY <1>6 DEF Stepped
<1>8. \A k \in 0 .. n : f[k] \in Nat
  BY <1>5, <1>7
<1>9. \A k \in 0 .. n : (IF k = 0 THEN a ELSE g[k][f[k - 1]]) = IF k = 0 THEN 0 ELSE 2 * f[k - 1] + bits[k]
  <2> SUFFICES ASSUME NEW k \in 1 .. n PROVE g[k][f[k - 1]] = 2 * f[k - 1] + bits[k]
    BY <1>1, <1>3
  <2>1. k - 1 \in 0 .. n
    BY <1>1
  <2> QED BY <1>4, <1>8, <2>1
<1>10. Valued(bits, f)
  BY <1>7, <1>9 DEF Valued, n
<1> DEFINE v == CHOOSE w : w = [k \in 0 .. Len(bits) |-> IF k = 0 THEN 0 ELSE 2 * w[k - 1] + bits[k]]
<1>11. Valued(bits, v)
  BY <1>10 DEF Valued
<1>12. Number(bits) = v[n]
  BY DEF Number, n
<1> HIDE DEF v
<1> DEFINE A == {k \in 0 .. n : v[k] \in Nat}
<1>13. 0 \in A
  BY <1>1, <1>11 DEF Valued, n
<1>14. \A k \in 1 .. n : k - 1 \in A => k \in A
  <2> SUFFICES ASSUME NEW k \in 1 .. n, v[k - 1] \in Nat PROVE v[k] \in Nat
    BY <1>1
  <2>1. v[k] = 2 * v[k - 1] + bits[k] /\ bits[k] \in Nat
    BY <1>1, <1>11, ValuedFacts DEF n
  <2> QED BY <2>1
<1> HIDE DEF A
<1>15. \A k \in 0 .. n : k \in A
  BY <1>1, <1>13, <1>14, UpTo
<1> QED BY <1>11, <1>12, <1>15 DEF A, n

\* A number of few bits is less than their power of two.
LEMMA NumberBelow ==
  ASSUME NEW bits \in Seq({0, 1}), Len(bits) <= CommandBits
  PROVE  Number(bits) \in Key
<1>1. PICK value : /\ Valued(bits, value) /\ Number(bits) = value[Len(bits)]
                   /\ \A k \in 0 .. Len(bits) : value[k] \in Nat
  BY NumberIs
<1> DEFINE n == Len(bits)
           A == {k \in 0 .. n : value[k] < Power[k]}
<1>2. n \in Nat /\ CommandBits \in Nat /\ \A k \in 1 .. n : bits[k] \in {0, 1}
  BY IrAssumption
<1> HIDE DEF Power
<1>3. 0 \in A
  BY <1>1, <1>2, PowerFacts DEF Valued
<1>4. \A k \in 1 .. n : k - 1 \in A => k \in A
  <2> SUFFICES ASSUME NEW k \in 1 .. n, value[k - 1] < Power[k - 1] PROVE value[k] < Power[k]
    BY <1>2
  <2>1. k - 1 \in 0 .. n /\ k \in 0 .. CommandBits /\ k - 1 \in 0 .. CommandBits /\ k > 0 /\ bits[k] \in {0, 1}
    BY <1>2
  <2>2. value[k] = 2 * value[k - 1] + bits[k] /\ value[k - 1] \in Nat
    BY <1>1, <1>2, <2>1, ValuedFacts
  <2>3. Power[k] = 2 * Power[k - 1] /\ Power[k - 1] \in Nat
    BY <2>1, PowerFacts DEF PowerOk
  <2> QED BY <2>1, <2>2, <2>3
<1> HIDE DEF A
<1>5. n \in A
  <2>1. \A k \in 0 .. n : k \in A
    BY <1>2, <1>3, <1>4, UpTo
  <2> QED BY <1>2, <2>1
<1>6. Power[n] <= Power[CommandBits]
  <2> DEFINE B == {k \in 0 .. CommandBits - n : Power[n] <= Power[n + k]}
  <2>1. 0 \in B
    <3>1. n \in 0 .. CommandBits
      BY <1>2
    <3>2. Power[n] \in Nat
      BY <3>1, PowerFacts DEF PowerOk
    <3>3. Power[n + 0] = Power[n]
      BY <1>2
    <3> QED BY <1>2, <3>2, <3>3
  <2>2. \A k \in 1 .. CommandBits - n : k - 1 \in B => k \in B
    <3> SUFFICES ASSUME NEW k \in 1 .. CommandBits - n, Power[n] <= Power[n + (k - 1)] PROVE Power[n] <= Power[n + k]
      BY <1>2
    <3>1. PICK j : j = n + k /\ j \in 0 .. CommandBits /\ j > 0 /\ n + (k - 1) = j - 1 /\ j - 1 \in 0 .. CommandBits /\ n \in 0 .. CommandBits
      BY <1>2
    <3>2. Power[j] = 2 * Power[j - 1] /\ Power[j - 1] \in Nat /\ Power[n] \in Nat
      BY <3>1, PowerFacts DEF PowerOk
    <3> QED BY <3>1, <3>2
  <2>3. CommandBits - n \in Nat /\ n + (CommandBits - n) = CommandBits
    BY <1>2
  <2> HIDE DEF B
  <2>4. CommandBits - n \in B
    <3>1. PICK m \in Nat : m = CommandBits - n
      BY <2>3
    <3>2. \A k \in 0 .. m : k \in B
      BY <2>1, <2>2, <3>1, UpTo
    <3> QED BY <3>1, <3>2
  <2> QED BY <2>3, <2>4 DEF B
<1>7. value[n] < Power[CommandBits] /\ value[n] \in Nat /\ Power[CommandBits] \in Nat
  <2>1. n \in 0 .. n /\ n \in 0 .. CommandBits /\ CommandBits \in 0 .. CommandBits
    BY <1>2
  <2>2. value[n] \in Nat /\ Power[n] \in Nat /\ Power[CommandBits] \in Nat /\ value[n] < Power[n]
    BY <1>1, <1>5, <2>1, PowerFacts DEF A, PowerOk
  <2> QED BY <1>6, <2>2
<1> QED BY <1>1, <1>7 DEF Key, KeyIdle

\* Stretches of bits one behind the other are bits.
LEMMA FlatBits ==
  ASSUME NEW T, NEW seqs \in Seq(Seq(T)), Len(seqs) > 0
  PROVE  FlattenSeq(seqs) \in Seq(T)
<1> DEFINE n == Len(seqs) - 1
           S == [k \in 0 .. n |-> Seq(T)]
           g == [k \in 1 .. n |-> [x \in S[k - 1] |-> x \o seqs[k + 1]]]
<1>1. n \in Nat /\ n + 1 = Len(seqs) /\ \A k \in 1 .. n + 1 : seqs[k] \in Seq(T)
  OBVIOUS
<1>2. Steps(n, S, g)
  <2> SUFFICES ASSUME NEW k \in 1 .. n, NEW x \in S[k - 1] PROVE g[k][x] \in S[k]
    BY DEF Steps
  <2>1. k - 1 \in 0 .. n /\ k \in 0 .. n /\ k + 1 \in 1 .. n + 1
    BY <1>1
  <2>2. x \in Seq(T) /\ S[k] = Seq(T) /\ seqs[k + 1] \in Seq(T)
    BY <1>1, <2>1
  <2>3. x \o seqs[k + 1] \in Seq(T)
    BY <2>2, ConcatProperties
  <2>4. g[k][x] = x \o seqs[k + 1]
    OBVIOUS
  <2> QED BY <2>2, <2>3, <2>4
<1>3. PICK a : a = seqs[1] /\ a \in S[0]
  <2>1. 0 \in 0 .. n /\ 1 \in 1 .. n + 1
    BY <1>1
  <2> QED BY <1>1, <2>1
<1>4. \A k \in 1 .. n : \A x \in Seq(T) : g[k][x] = x \o seqs[k + 1]
  <2> SUFFICES ASSUME NEW k \in 1 .. n PROVE \A x \in Seq(T) : g[k][x] = x \o seqs[k + 1]
    OBVIOUS
  <2>1. k - 1 \in 0 .. n
    BY <1>1
  <2>2. S[k - 1] = Seq(T)
    BY <2>1
  <2> QED BY <2>2
<1>5. \A k \in 0 .. n : S[k] = Seq(T)
  OBVIOUS
<1> HIDE DEF S, g, n
<1>6. Stepped(n, S, a, g)
  BY ONLY <1>1, <1>2, <1>3, Recursion
<1>7. PICK f : /\ f = [k \in 0 .. n |-> IF k = 0 THEN a ELSE g[k][f[k - 1]]]
               /\ \A k \in 0 .. n : f[k] \in S[k]
  BY <1>6 DEF Stepped
<1>8. \A k \in 0 .. n : f[k] \in Seq(T)
  BY <1>5, <1>7
<1> DEFINE Flat(w) == w = [i \in 1 .. Len(seqs) |-> IF i = 1 THEN seqs[i] ELSE w[i - 1] \o seqs[i]]
<1>9. \E w : Flat(w)
  <2> DEFINE w == [i \in 1 .. Len(seqs) |-> f[i - 1]]
  <2>1. ASSUME NEW i \in 1 .. Len(seqs) PROVE f[i - 1] = IF i = 1 THEN seqs[i] ELSE w[i - 1] \o seqs[i]
    <3>1. i - 1 \in 0 .. n /\ (i = 1 => i - 1 = 0) /\ (i # 1 => i - 1 \in 1 .. n /\ i - 1 \in 1 .. Len(seqs) /\ (i - 1) - 1 \in 0 .. n /\ (i - 1) + 1 = i)
      BY <1>1
    <3>2. CASE i = 1
      <4>1. f[0] = a
        BY <1>1, <1>7
      <4> QED BY <1>3, <3>1, <3>2, <4>1
    <3>3. CASE i # 1
      <4>1. PICK k : k = i - 1 /\ k \in 1 .. n /\ k # 0 /\ k - 1 \in 0 .. n /\ k \in 1 .. Len(seqs) /\ k + 1 = i
        BY <3>1, <3>3
      <4>2. f[k] = g[k][f[k - 1]]
        BY <1>7, <4>1
      <4>3. f[k] = f[k - 1] \o seqs[k + 1]
        BY <1>4, <1>8, <4>1, <4>2
      <4>4. w[k] = f[k - 1]
        BY <4>1
      <4> QED BY <3>3, <4>1, <4>3, <4>4
    <3> QED BY <3>2, <3>3
  <2>2. w = [i \in 1 .. Len(seqs) |-> IF i = 1 THEN seqs[i] ELSE w[i - 1] \o seqs[i]]
    BY <2>1
  <2> HIDE DEF w
  <2> QED BY <2>2
<1> DEFINE flat == CHOOSE w : Flat(w)
<1>10. Flat(flat)
  BY <1>9
<1>11. FlattenSeq(seqs) = flat[Len(seqs)]
  BY DEF FlattenSeq
<1> HIDE DEF flat
<1> DEFINE A == {k \in 0 .. n : flat[k + 1] \in Seq(T)}
<1>12. 0 \in A
  <2>1. 1 \in 1 .. Len(seqs) /\ 0 \in 0 .. n /\ 0 + 1 = 1
    BY <1>1
  <2>2. flat[1] = seqs[1]
    BY <1>10, <2>1
  <2> QED BY <1>1, <2>1, <2>2
<1>13. \A k \in 1 .. n : k - 1 \in A => k \in A
  <2> SUFFICES ASSUME NEW k \in 1 .. n, flat[(k - 1) + 1] \in Seq(T) PROVE flat[k + 1] \in Seq(T)
    BY <1>1
  <2>1. PICK i : i = k + 1 /\ i \in 1 .. Len(seqs) /\ i # 1 /\ i - 1 = (k - 1) + 1
    BY <1>1
  <2>2. flat[i] = flat[i - 1] \o seqs[i] /\ seqs[i] \in Seq(T)
    BY <1>1, <1>10, <2>1
  <2> QED BY <2>1, <2>2, ConcatProperties
<1> HIDE DEF A
<1>14. n \in A
  <2>1. \A k \in 0 .. n : k \in A
    BY <1>1, <1>12, <1>13, UpTo
  <2> QED BY <1>1, <2>1
<1> QED BY <1>1, <1>11, <1>14 DEF A

\* What decode() takes from the entries of a recording is bits.
LEMMA BitsTyped ==
  ASSUME NEW entry, NEW n \in Nat, \A k \in 0 .. n - 1 : entry[k] \in Nat
  PROVE  Bits(entry, n) \in Seq({0, 1})
<1>1. CASE n <= 4
  BY <1>1, EmptySeq DEF Bits
<1>2. CASE ~(n <= 4)
  <2> DEFINE runs == [i \in 1 .. n - 4 |-> [j \in 1 .. BitCount(entry[i + 1]) |-> (i + 1) % 2]]
  <2>1. ASSUME NEW i \in 1 .. n - 4 PROVE runs[i] \in Seq({0, 1})
    <3>1. PICK k \in Nat : k = i + 1 /\ k \in 0 .. n - 1
      OBVIOUS
    <3>2. k % 2 \in {0, 1}
      BY <3>1
    <3>3. PICK t \in Nat : t = entry[i + 1]
      BY <3>1
    <3>4. t \div BitTicks \in Nat
      BY <3>3, IrAssumption
    <3>5. PICK m : m = BitCount(entry[i + 1]) /\ m \in Nat
      BY <3>3, <3>4 DEF BitCount
    <3>6. runs[i] = [j \in 1 .. m |-> k % 2]
      BY <3>1, <3>5
    <3> QED BY <3>2, <3>5, <3>6
  <2>2. n - 4 \in Nat /\ n - 4 > 0
    BY <1>2
  <2>3. runs \in Seq(Seq({0, 1})) /\ Len(runs) = n - 4
    <3>1. PICK m \in Nat : m = n - 4
      BY <2>2
    <3>2. runs = [i \in 1 .. m |-> runs[i]] /\ \A i \in 1 .. m : runs[i] \in Seq({0, 1})
      BY <2>1, <3>1
    <3> HIDE DEF runs
    <3> QED BY <3>1, <3>2
  <2>4. Bits(entry, n) = FlattenSeq(runs)
    BY <1>2 DEF Bits
  <2> HIDE DEF runs
  <2> QED BY <2>2, <2>3, <2>4, FlatBits
<1> QED BY <1>1, <1>2

\* A stretch of a sequence has its elements.
LEMMA PartOfBits ==
  ASSUME NEW T, NEW bits \in Seq(T), NEW a \in Nat, a > 0, NEW b \in Nat, b <= Len(bits)
  PROVE  SubSeq(bits, a, b) \in Seq(T) /\ (a = 1 => Len(SubSeq(bits, a, b)) = b)
<1>1. \A i \in a .. b : bits[i] \in T
  OBVIOUS
<1> QED BY <1>1, SubSeqProperties

\* What it makes of them is a key and an address.
LEMMA FrameTyped ==
  ASSUME NEW bits \in Seq({0, 1})
  PROVE  Frame(bits).command \in Key /\ Frame(bits).address \in Nat
<1>1. Len(bits) \in Nat /\ CommandBits \in Nat
  BY IrAssumption
<1>2. PICK m \in Nat : m = Min({CommandBits, Len(bits)}) /\ m <= Len(bits) /\ m <= CommandBits
  BY <1>1, LessOfTwo
<1>3. Number(SubSeq(bits, 1, m)) \in Key
  <2>1. PICK T : T = {0, 1}
    OBVIOUS
  <2>2. PICK one : one = 1
    OBVIOUS
  <2>3. bits \in Seq(T) /\ one \in Nat /\ one > 0 /\ one = 1 /\ m \in Nat /\ m <= Len(bits)
    BY <1>2, <2>1, <2>2
  <2>4. SubSeq(bits, one, m) \in Seq(T) /\ Len(SubSeq(bits, one, m)) = m
    BY ONLY <2>3, PartOfBits
  <2>5. PICK b : b = SubSeq(bits, 1, m) /\ b \in Seq({0, 1}) /\ Len(b) = m
    BY <2>1, <2>2, <2>4
  <2> QED BY <1>2, <2>5, NumberBelow
<1>4. Number(SubSeq(bits, CommandBits + 1, Len(bits))) \in Nat
  <2>1. PICK a \in Nat : a = CommandBits + 1 /\ a > 0
    BY <1>1
  <2>2. PICK T : T = {0, 1}
    OBVIOUS
  <2>3. PICK last : last = Len(bits)
    OBVIOUS
  <2>4. bits \in Seq(T) /\ a \in Nat /\ a > 0 /\ last \in Nat /\ last <= Len(bits)
    BY <1>1, <2>1, <2>2, <2>3
  <2>5. SubSeq(bits, a, last) \in Seq(T)
    BY ONLY <2>4, PartOfBits
  <2>6. PICK b : b = SubSeq(bits, a, Len(bits)) /\ b \in Seq({0, 1})
    BY <2>2, <2>3, <2>5
  <2>7. PICK value : Number(b) = value[Len(b)] /\ \A k \in 0 .. Len(b) : value[k] \in Nat
    BY <2>6, NumberIs
  <2>8. Len(b) \in 0 .. Len(b)
    BY <2>6
  <2> QED BY <2>1, <2>6, <2>7, <2>8
<1> QED BY <1>2, <1>3, <1>4 DEF Frame

\* The other variables of the sketch and of the line.
MoreTypes ==
  /\ caller \in {"ir_rc", "button", "none"} /\ length \in 0 .. RawBuf
  /\ result.command \in Key /\ result.address \in Nat
  /\ remote_cu_key \in Key \cup {KeyIdle} /\ ticks \in 0 .. MaxTicks
  /\ level = Mark => run \in Ticks
  /\ run \in Ticks \cup 0 .. Gap + 2
  /\ heard \in Seq(Ticks) /\ torn \in BOOLEAN /\ unread \in BOOLEAN
  /\ news = <<>> \/ news \in Key \X BOOLEAN

\* A tick keeps them: the run of a mark is counted like the timer.
LEMMA TickTypes ==
  ASSUME Inv, MoreTypes, Tick
  PROVE  MoreTypes'
<1>1. PICK irdata \in {Mark, Space} :
        LET t == (timer + 1) % Wrap
        IN  /\ InWindow => ticks < MaxTicks
            /\ \/ TickOff(irdata, t) \/ TickIdle(irdata, t) \/ TickMark(irdata, t)
               \/ TickSpace(irdata, t) \/ TickStop(irdata, t)
            /\ Sample(irdata)
  BY DEF Tick
<1>2. UNCHANGED <<caller, length, result, remote_cu_key, news>>
  BY <1>1 DEF Sample
<1>3. ticks' \in 0 .. MaxTicks
  <2>1. ticks' = IF InWindow THEN ticks + 1 ELSE ticks
    BY <1>1 DEF Sample
  <2>2. InWindow => ticks < MaxTicks
    BY <1>1
  <2>3. ticks \in 0 .. MaxTicks /\ MaxTicks \in Nat
    BY IrAssumption DEF MoreTypes
  <2> QED BY <2>1, <2>2, <2>3
<1>4. torn' \in BOOLEAN /\ unread' \in BOOLEAN
  BY <1>1 DEF Sample
<1>5. /\ level' = Mark => run' \in Ticks
      /\ run' \in Ticks \cup 0 .. Gap + 2
  <2>1. /\ level' = irdata
        /\ irdata # level => run' = 1
        /\ irdata = Mark /\ level = Mark => run' = (run + 1) % Wrap
        /\ irdata = Space /\ level = Space => run' = IF run < Gap + 2 THEN run + 1 ELSE Gap + 2
    BY <1>1, SampleFacts DEF Inv
  <2>2. 1 \in Ticks /\ Gap \in Nat
    BY IrAssumption DEF Ticks
  <2>3. level = Mark => (run + 1) % Wrap \in Ticks
    BY TimerFacts DEF MoreTypes
  <2>4. run \in Nat
    BY DEF Inv, Types
  <2> QED BY <2>1, <2>2, <2>3, <2>4 DEF Inv, Types, Mark, Space
<1>6. heard' \in Seq(Ticks)
  <2>1. heard' = <<>> \/ heard' = heard \/ (rcvstate \in {"mark", "space"} /\ heard' = Append(heard, run))
    BY <1>1 DEF Sample
  <2>2. rcvstate \in {"mark", "space"} => run \in Ticks
    BY IrAssumption DEF Inv, Follows, MoreTypes, Types, Ticks
  <2>3. run \in Ticks => Append(heard, run) \in Seq(Ticks)
    BY AppendProperties DEF MoreTypes
  <2> QED BY <2>1, <2>2, <2>3, EmptySeq DEF MoreTypes
<1> QED BY <1>2, <1>3, <1>4, <1>5, <1>6 DEF MoreTypes

\* So does the sketch: what decode() makes of a recording is a key and an address.
LEMMA SketchTypes ==
  ASSUME Inv, MoreTypes, Sketch
  PROVE  MoreTypes'
<1>1. 0 \in Key /\ KeyIdle \in Nat
  <2>1. CommandBits \in 0 .. CommandBits
    BY IrAssumption
  <2>2. Power[CommandBits] \in Nat \ {0}
    BY <2>1, PowerFacts DEF PowerOk
  <2> QED BY <2>2 DEF Key, KeyIdle
<1>2. 0 \in 0 .. MaxTicks /\ 0 \in 0 .. RawBuf /\ rawlen \in 0 .. RawBuf
  BY IrAssumption DEF Inv, Types
<1>3. NoFrame.command \in Key /\ NoFrame.address \in Nat
  BY <1>1 DEF NoFrame
<1>4. CASE DecodeSRC
  <2>1. PICK bits : bits = Bits(rawbuf, length) /\ bits \in Seq({0, 1})
    <3>1. length \in Nat /\ \A k \in 0 .. length - 1 : rawbuf[k] \in Nat
      BY IrAssumption DEF Inv, Types, MoreTypes, Ticks
    <3> QED BY <3>1, BitsTyped
  <2>2. result' = Frame(bits)
    BY <1>4, <2>1 DEF DecodeSRC
  <2>3. result'.command \in Key /\ result'.address \in Nat
    BY <2>1, <2>2, FrameTyped
  <2> QED BY <1>2, <1>4, <2>3 DEF DecodeSRC, MoreTypes, lineVars
<1>5. CASE TakeKey
  <2>1. remote_cu_key' \in Key \cup {KeyIdle}
    BY <1>5 DEF TakeKey, MoreTypes
  <2>2. news' = <<>> \/ news' = <<result.command, Ours>>
    BY <1>5 DEF TakeKey
  <2>3. Ours \in BOOLEAN
    BY DEF Ours
  <2>4. news' = <<>> \/ news' \in Key \X BOOLEAN
    BY <2>2, <2>3 DEF MoreTypes
  <2> QED BY <1>3, <1>5, <2>1, <2>4 DEF TakeKey, MoreTypes, lineVars
<1>6. CASE ~DecodeSRC /\ ~TakeKey /\ ~ResumeState
  <2>1. /\ caller' \in {"ir_rc", "button", "none"} /\ length' \in 0 .. RawBuf
        /\ result' = result \/ result' = NoFrame
        /\ remote_cu_key' \in {remote_cu_key, KeyIdle} /\ ticks' \in {ticks, 0}
        /\ UNCHANGED <<level, run, heard, torn, unread>> /\ news' \in {news, <<>>}
    BY <1>2, <1>6 DEF Sketch, Enable, ResumeLength, NotReady, ButtonReturns, OtherKey, DecodeLength,
                      KeyPressed, MoreTypes, lineVars, irparams
  <2> QED BY <1>2, <1>3, <2>1 DEF MoreTypes
<1>7. CASE ResumeState
  <2>1. torn' \in BOOLEAN
    BY <1>7 DEF ResumeState
  <2> QED BY <1>2, <1>7, <2>1, EmptySeq DEF ResumeState, MoreTypes
<1> QED BY <1>4, <1>5, <1>6, <1>7

\* Every variable keeps its type, through any line and any use of the calls; a
\* command never outgrows its bits, and no entry is stored behind the buffer.
THEOREM TypeCorrect == Spec => []TypeOK
<1>1. Init => MoreTypes
  <2> SUFFICES ASSUME Init PROVE MoreTypes
    OBVIOUS
  <2>1. CommandBits \in 0 .. CommandBits
    BY IrAssumption
  <2>2. Power[CommandBits] \in Nat \ {0}
    BY <2>1, PowerFacts DEF PowerOk
  <2>3. 0 \in Key
    BY <2>2 DEF Key, KeyIdle
  <2>4. heard \in Seq(Ticks)
    BY EmptySeq DEF Init
  <2>5. run = 0 /\ level = 1 /\ length = 0 /\ ticks = 0 /\ remote_cu_key = 0 /\ news = <<>>
    BY DEF Init, Space
  <2>6. result.command = 0 /\ result.address = 0
    BY DEF Init, NoFrame
  <2>7. caller = "none" /\ torn = FALSE /\ unread = FALSE
    BY DEF Init
  <2>8. Gap \in Nat /\ RawBuf \in Nat /\ MaxTicks \in Nat
    BY IrAssumption
  <2>9. caller \in {"ir_rc", "button", "none"} /\ torn \in BOOLEAN /\ unread \in BOOLEAN
    BY ZenonT(30), <2>7
  <2>10. length \in 0 .. RawBuf /\ ticks \in 0 .. MaxTicks /\ run \in 0 .. Gap + 2 /\ level # Mark
    BY <2>5, <2>8 DEF Mark
  <2>11. result.command \in Key /\ result.address \in Nat /\ remote_cu_key \in Key \cup {KeyIdle}
    BY <2>3, <2>5, <2>6
  <2>12. news = <<>>
    BY <2>5
  <2> QED BY <2>4, <2>9, <2>10, <2>11, <2>12 DEF MoreTypes
<1>2. Inv /\ MoreTypes /\ [Next]_vars => MoreTypes'
  <2>1. ASSUME MoreTypes, UNCHANGED vars PROVE MoreTypes'
    BY <2>1 DEF MoreTypes, vars, irparams, lineVars, sketchVars
  <2> QED BY <2>1, TickTypes, SketchTypes DEF Next
<1>3. Inv /\ MoreTypes => TypeOK
  BY DEF Inv, Types, MoreTypes, TypeOK
<1> QED BY Invariant, <1>1, <1>2, <1>3, PTL DEF Spec
=============================================================================
