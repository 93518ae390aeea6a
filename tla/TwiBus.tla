------------------------------- MODULE TwiBus -------------------------------
(***************************************************************************)
(* The two-wire driver used directly: a sketch that calls twi_writeTo and  *)
(* twi_readFrom, and slave callbacks that reply anything.  Or, to keep the *)
(* state space small, a sketch that only answers, with longer sessions of  *)
(* the other master and callbacks that may outlast the next address.       *)
(***************************************************************************)
EXTENDS Twi

CONSTANTS Roles,        \* which of "caller" and "listener" the sketch may be
          MaxHeard,     \* bound: bytes the other master sends in a transaction,
                        \* one less than it reads, to a caller
          MaxListened   \* and to a listener

ASSUME BusAssumption == /\ Roles \subseteq {"caller", "listener"}
                        /\ MaxHeard \in Nat /\ MaxListened \in Nat

VARIABLE role           \* what the sketch is; it never changes

busAll == <<twiVars, role>>

Bound == IF role = "caller" THEN MaxHeard ELSE MaxListened

Calls == /\ role = "caller"
         /\ \/ \E n \in WriteLengths : \E d \in Word(n) : CallWriteTo(d)
            \/ \E n \in ReadLengths : CallReadFrom(n)

Isr == /\ \/ MasterIsr \/ SlaveIsr \/ BusError
          \/ SrStop /\ (role = "caller" => hw' = "free")
          \/ SrDataNack /\ Len(heard) < Bound
          \/ \E n \in 0 .. Size + 1 : \E r \in Word(n) : StSlaAck(r)
       /\ Len(heard') <= Bound /\ Len(sent') <= Bound + 1

BusInit == TwiInit /\ role \in Roles

TwiNext == (Calls \/ Driver \/ Isr) /\ UNCHANGED role

TwiSpec == BusInit /\ [][TwiNext]_busAll

GoesOn == hw # "free" /\ Isr

\* The sketch runs; it polls often enough to see READY between two sessions of
\* the other master; and a transaction that has begun goes on: neither the
\* addressed device nor the other master holds the bus for ever.
TwiFair == /\ TwiSpec
           /\ WF_twiVars(Driver) /\ SF_twiVars(SeeReady)
           /\ WF_twiVars(Start)
           /\ WF_twiVars(GoesOn)

-----------------------------------------------------------------------------
(* Properties *)

\* Every variable has its type, and the interrupt handler has never indexed a
\* buffer outside its Size cells; but in a session whose address was missed it
\* sends on from where the last one stopped, and past the buffer.
TwiTypeOK ==
  /\ twi_state \in {"READY", "MRX", "MTX", "SRX", "STX"}
  /\ twi_error \in {"none", "MT_SLA_NACK", "MT_DATA_NACK", "ARB_LOST", "BUS_ERROR"}
  /\ masterBuffer \in [Cell -> Byte] /\ masterIndex \in 0 .. Size
  /\ masterLength \in 0 .. Values - 1
  /\ txBuffer \in [Cell -> Byte] /\ txIndex \in 0 .. (IF role = "listener" THEN Values - 1 ELSE Size)
  /\ txLength \in 0 .. Size
  /\ rxBuffer \in [Cell -> Byte] /\ rxIndex \in 0 .. Size
  /\ hw \in {"free", "mt_sla", "mt_data", "mr_sla", "mr_data", "sr", "st"}
  /\ twsta \in BOOLEAN /\ twea \in BOOLEAN /\ tdata \in Byte

Returns(from) == pc = from /\ pc' = "idle"

\* twi_writeTo returns 0 only if the slave acknowledged every byte, as its
\* header comment says.
ZeroMeansSent ==
  [][Returns("w_wait") /\ Code = 0 => acked = data /\ fate = "done"]_twiVars

\* The code twi_writeTo returns names what happened to this transaction on the
\* bus; 0 means that every byte was acknowledged, but for a call that was ended
\* by the device being addressed.
CodesAreTrue ==
  [][Returns("w_wait") =>
       /\ Code = 0 /\ fate # "ADDRESSED" => acked = data /\ fate = "done"
       /\ Code = 2 => fate = "MT_SLA_NACK"
       /\ Code = 3 => fate = "MT_DATA_NACK"
       /\ Code = 4 => fate \in {"ARB_LOST", "BUS_ERROR"}]_twiVars

\* twi_readFrom returns exactly the bytes that came in its own transaction, in
\* order, and all that were asked for if the transaction was not cut short.
ReadMeansGot ==
  [][Returns("r_wait") => BytesRead = got /\ (fate = "done" => Len(BytesRead) = length)]_twiVars

\* A read ends on the wire with the byte the sketch asked for last: that byte
\* and no earlier one is answered with NACK, and no further byte is clocked in.
NackOnLast ==
  [][hw = "mr_data" /\ got' # got => (twea <=> Len(got') < length)]_twiVars

\* The receive callback gets the first Size bytes of what the other master sent
\* in this transaction.
CallbackGetsHeard ==
  [][SrStop => Received = SubSeq(heard, 1, IF Len(heard) < Size THEN Len(heard) ELSE Size)]_twiVars

\* What the other master reads is the reply of the callback from its first
\* byte on (in a session whose address event the handler saw).
SentIsAnswer ==
  [][hw = "st" /\ hw' = "free" =>
       Len(sent) <= Len(answer) /\ sent = SubSeq(answer, 1, Len(sent))]_twiVars

\* Every call returns.
CallsReturn == pc # "idle" ~> pc = "idle"
=============================================================================
