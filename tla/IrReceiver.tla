------------------------------ MODULE IrReceiver ------------------------------
(***************************************************************************)
(* The infrared receiver (libraries/IR/IR.cpp): the timer interrupt        *)
(* samples the detector every 50 us and records how long marks and spaces  *)
(* last; decode() turns a finished recording into a command and an         *)
(* address, resume() starts over.  They are called by button() and by      *)
(* ir_rc() of the Ebot library (libraries/Ebot/Ebot.cpp).                  *)
(*                                                                         *)
(* A tick may come between any two steps of the sketch.  resume() makes    *)
(* two stores, decode() reads the length before the state: the steps are   *)
(* kept apart, and a few instructions last at most MaxTicks ticks.         *)
(***************************************************************************)
EXTENDS Naturals, Sequences, SequencesExt

CONSTANTS RawBuf,       \* RAWBUF: cells of the recording
          Gap,          \* GAP_TICKS: the shortest gap between transmissions
          Wrap,         \* the timer counts modulo Wrap (2^16)
          BitTicks,     \* ticks of one bit
          CommandBits,  \* the first bits are the command, the others the address
          Table,        \* entries of channels[]; behind it any value is read
          Mine,         \* the addresses whose channel is the one selected
          MaxTicks,     \* ticks within resume(), or between decode()'s two reads
          MaxMark       \* bound: ticks of one mark

ASSUME IrAssumption == /\ RawBuf \in Nat /\ RawBuf > 3
                       /\ Gap \in Nat /\ Gap > 1
                       /\ Wrap \in Nat /\ Wrap > Gap + 1
                       /\ BitTicks \in Nat /\ BitTicks > 0
                       /\ CommandBits \in Nat /\ Table \in Nat
                       /\ MaxTicks \in Nat /\ MaxMark \in Nat

VARIABLES
  rcvstate, timer, rawbuf, rawlen,  \* irparams
  pc,               \* where the sketch is
  caller,           \* who called decode(): "ir_rc", "button" or "none"
  length,           \* results.rawlen, copied by decode()
  result,           \* results.value and results.channel
  remote_cu_key,    \* the key ir_rc() keeps, KeyIdle if none
  ticks,            \* ticks since resume() or decode() began
  level, run,       \* the line: the last sample, ticks since it changed, modulo
                    \* Wrap for a mark and up to Gap + 2 for a space
  heard,            \* history: the runs of the line since the recording began
  torn,             \* history: did a tick come between resume()'s two stores,
                    \* or in enable() before them?
  unread,           \* history: is the recording one ir_rc() has not taken?
  news              \* history: <<command, ours>> of the frame ir_rc() took and did not
                    \* report yet: was its address one of ours, or out of the table?

irparams == <<rcvstate, timer, rawbuf, rawlen>>
lineVars == <<level, run, heard>>
sketchVars == <<pc, caller, length, result, remote_cu_key, unread, news>>
vars == <<irparams, sketchVars, ticks, lineVars, torn>>

Mark == 0       \* the detector is active low
Space == 1
Ticks == 0 .. Wrap - 1
Power[k \in 0 .. CommandBits] == IF k = 0 THEN 1 ELSE 2 * Power[k - 1]
KeyIdle == Power[CommandBits]   \* KEY_IDLE: no command of CommandBits bits
Silence == IF level = Space THEN run ELSE 0   \* samples without a mark
NoFrame == [command |-> 0, address |-> 0]

\* Does the sketch execute one of the short windows of MaxTicks ticks?
InWindow == pc \in {"enable", "test", "clear"}

Init ==
  /\ rcvstate = "off" /\ timer = 0 /\ rawlen = 0
  /\ rawbuf = [k \in 0 .. RawBuf - 1 |-> 0]
  /\ pc = "off" /\ caller = "none" /\ length = 0 /\ result = NoFrame
  /\ remote_cu_key = 0 /\ ticks = 0
  /\ level = Space /\ run = 0 /\ heard = <<>>
  /\ torn = FALSE /\ unread = FALSE /\ news = <<>>

-----------------------------------------------------------------------------
(* The timer interrupt *)

\* The line shows irdata at this tick; a run that ends is appended to heard
\* while the recording goes on, up to those that fit after its first entry.
Sample(irdata) ==
  /\ level' = irdata
  /\ run' = CASE irdata # level -> 1
              [] irdata = level /\ level = Mark -> (run + 1) % Wrap
              [] irdata = level /\ level = Space -> Min({run + 1, Gap + 2})
  /\ heard' = CASE rcvstate = "idle" /\ rcvstate' = "mark" -> <<>>
                [] rcvstate \in {"mark", "space"} /\ irdata # level /\ Len(heard) < RawBuf - 1
                     -> Append(heard, run)
                [] OTHER -> heard
  /\ ticks' = IF InWindow THEN ticks + 1 ELSE ticks
  /\ torn' = (torn \/ pc \in {"enable", "clear"})
  /\ unread' = (unread \/ (rcvstate # "stop" /\ rcvstate' = "stop"))
  /\ UNCHANGED <<pc, caller, length, result, remote_cu_key, news>>

\* rawbuf[rawlen++] = timer; timer = 0
Record(t, next) ==
  /\ rawbuf' = [rawbuf EXCEPT ![rawlen] = t] /\ rawlen' = rawlen + 1
  /\ timer' = 0 /\ rcvstate' = next

\* A mark within the gap restarts it, a mark after it starts a recording whose
\* first entry is the gap.
TickIdle(irdata, t) ==
  /\ rcvstate = "idle" /\ rawlen < RawBuf
  /\ \/ /\ irdata = Mark /\ t < Gap
        /\ timer' = 0 /\ UNCHANGED <<rcvstate, rawbuf, rawlen>>
     \/ /\ irdata = Mark /\ t >= Gap
        /\ rawbuf' = [rawbuf EXCEPT ![0] = t] /\ rawlen' = 1
        /\ timer' = 0 /\ rcvstate' = "mark"
     \/ /\ irdata = Space
        /\ timer' = t /\ UNCHANGED <<rcvstate, rawbuf, rawlen>>

TickMark(irdata, t) ==
  /\ rcvstate = "mark" /\ rawlen < RawBuf
  /\ IF irdata = Space THEN Record(t, "space")
     ELSE timer' = t /\ UNCHANGED <<rcvstate, rawbuf, rawlen>>

\* Mutants: a space never ends the recording; the timer is not reset; the end
\* of the buffer is not noticed.
TickSpaceForever(irdata, t) ==
  /\ rcvstate = "space" /\ rawlen < RawBuf
  /\ IF irdata = Mark THEN Record(t, "mark")
     ELSE timer' = t /\ UNCHANGED <<rcvstate, rawbuf, rawlen>>

TickSpaceKeepsTimer(irdata, t) ==
  /\ rcvstate = "space" /\ rawlen < RawBuf
  /\ \/ /\ irdata = Mark
        /\ rawbuf' = [rawbuf EXCEPT ![rawlen] = t] /\ rawlen' = rawlen + 1
        /\ timer' = t /\ rcvstate' = "mark"
     \/ /\ irdata = Space
        /\ timer' = t /\ rcvstate' = IF t > Gap THEN "stop" ELSE "space"
        /\ UNCHANGED <<rawbuf, rawlen>>

TickSpacePastEnd(irdata, t) ==
  /\ rcvstate = "space"
  /\ \/ irdata = Mark /\ Record(t, "mark")
     \/ /\ irdata = Space
        /\ timer' = t /\ rcvstate' = IF t > Gap THEN "stop" ELSE "space"
        /\ UNCHANGED <<rawbuf, rawlen>>

\* A space longer than the gap ends the recording; its counting goes on.
TickSpace(irdata, t) ==
  /\ rcvstate = "space" /\ rawlen < RawBuf
  /\ \/ irdata = Mark /\ Record(t, "mark")
     \/ /\ irdata = Space
        /\ timer' = t /\ rcvstate' = IF t > Gap THEN "stop" ELSE "space"
        /\ UNCHANGED <<rawbuf, rawlen>>

\* Mutant: marks in the gap are not noticed.
TickStopKeepsCounting(irdata, t) ==
  /\ rcvstate = "stop" \/ rawlen >= RawBuf
  /\ rcvstate' = "stop" /\ timer' = t
  /\ UNCHANGED <<rawbuf, rawlen>>

\* In stop, or when the buffer is full whatever the state, the gap is measured.
TickStop(irdata, t) ==
  /\ rcvstate = "stop" \/ rawlen >= RawBuf
  /\ rcvstate' = "stop"
  /\ timer' = (IF irdata = Mark THEN 0 ELSE t)
  /\ UNCHANGED <<rawbuf, rawlen>>

\* Before enable() has set the state, no case of the switch applies.
TickOff(irdata, t) ==
  /\ rcvstate = "off" /\ pc # "off"
  /\ timer' = t /\ UNCHANGED <<rcvstate, rawbuf, rawlen>>

Tick == \E irdata \in {Mark, Space} :
  LET t == (timer + 1) % Wrap IN
    /\ InWindow => ticks < MaxTicks
    /\ irdata = Mark /\ level = Mark => run < MaxMark
    /\ \/ TickOff(irdata, t) \/ TickIdle(irdata, t) \/ TickMark(irdata, t)
       \/ TickSpace(irdata, t) \/ TickStop(irdata, t)
    /\ Sample(irdata)

-----------------------------------------------------------------------------
(* The sketch *)

\* enable(): interrupts are on before the state is set.
Enable ==
  /\ pc = "off" /\ pc' = "enable"
  /\ UNCHANGED <<irparams, caller, length, result, remote_cu_key, unread, news, ticks, lineVars, torn>>

\* resume(), and the end of enable(): the state is set, then ...
ResumeState ==
  /\ pc \in {"enable", "resume"} /\ pc' = "clear"
  /\ rcvstate' = "idle" /\ ticks' = 0 /\ torn' = (torn /\ pc = "enable")
  /\ heard' = <<>>
  /\ UNCHANGED <<timer, rawbuf, rawlen, caller, length, result, remote_cu_key,
                 unread, news, level, run>>

\* ... the length.
ResumeLength ==
  /\ pc = "clear" /\ pc' = (IF caller = "ir_rc" THEN "compare" ELSE "idle")
  /\ rawlen' = 0 /\ ticks' = 0 /\ caller' = "none"
  /\ UNCHANGED <<rcvstate, timer, rawbuf, length, result, remote_cu_key,
                 unread, news, lineVars, torn>>

\* ir_rc() and button() call decode(), which copies the length, ...
DecodeLength(who) ==
  /\ pc = "idle" /\ pc' = "test" /\ caller' = who
  /\ length' = rawlen /\ ticks' = 0
  /\ UNCHANGED <<irparams, result, remote_cu_key, unread, news, lineVars, torn>>

\* ... returns if the recording is not finished ...
NotReady ==
  /\ pc = "test" /\ rcvstate # "stop"
  /\ pc' = (IF caller = "ir_rc" THEN "compare" ELSE "idle")
  /\ length' = 0 /\ ticks' = 0 /\ caller' = "none"
  /\ UNCHANGED <<irparams, result, remote_cu_key, unread, news, lineVars, torn>>

\* (int)(rawbuf[i] / 8 + .5), at least 1
BitCount(t) == IF t \div BitTicks = 0 THEN 1 ELSE t \div BitTicks

\* The entries from 2 to n - 3 are runs of bits: ones at odd entries, marks.
Bits(entry, n) ==
  IF n <= 4 THEN <<>>
  ELSE FlattenSeq([i \in 1 .. n - 4 |-> [j \in 1 .. BitCount(entry[i + 1]) |-> (i + 1) % 2]])

Number(bits) ==
  LET value[k \in 0 .. Len(bits)] == IF k = 0 THEN 0 ELSE 2 * value[k - 1] + bits[k]
  IN  value[Len(bits)]

Frame(bits) == [command |-> Number(SubSeq(bits, 1, Min({CommandBits, Len(bits)}))),
                address |-> Number(SubSeq(bits, CommandBits + 1, Len(bits)))]

\* Mutant: a finished recording is not waited for.
DecodeAnyState ==
  /\ pc = "test" /\ pc' = "decoded"
  /\ result' = Frame(Bits(rawbuf, length)) /\ length' = 0 /\ ticks' = 0
  /\ UNCHANGED <<irparams, caller, remote_cu_key, unread, news, lineVars, torn>>

\* ... and otherwise decodes what is in the buffer.
DecodeSRC ==
  /\ pc = "test" /\ rcvstate = "stop"
  /\ pc' = "decoded" /\ length' = 0 /\ ticks' = 0
  /\ result' = Frame(Bits(rawbuf, length))
  /\ UNCHANGED <<irparams, caller, remote_cu_key, unread, news, lineVars, torn>>

\* button() returns the command if the channel is right; the sketch may ask for
\* it again or call resume() first.
ButtonReturns ==
  /\ pc = "decoded" /\ caller = "button"
  /\ \/ pc' = "idle" /\ caller' = "none"
     \/ pc' = "resume" /\ UNCHANGED caller
  /\ result' = NoFrame
  /\ UNCHANGED <<irparams, length, remote_cu_key, unread, news, ticks, lineVars, torn>>

\* Is it the channel selected?
OnChannel(address) == IF address < Table THEN {address \in Mine} ELSE BOOLEAN

Ours == result.address < Table => result.address \in Mine

\* Mutant: a frame for another channel leaves the old key.
TakeKeyKeepsOld ==
  /\ pc = "decoded" /\ caller = "ir_rc" /\ pc' = "resume"
  /\ \E mine \in OnChannel(result.address) :
       remote_cu_key' = IF mine THEN result.command ELSE remote_cu_key
  /\ news' = (IF unread THEN <<result.command, Ours>> ELSE <<>>) /\ unread' = FALSE
  /\ result' = NoFrame
  /\ UNCHANGED <<irparams, caller, length, ticks, lineVars, torn>>

\* ir_rc() keeps the key of a frame for its channel, and resumes.
TakeKey ==
  /\ pc = "decoded" /\ caller = "ir_rc" /\ pc' = "resume"
  /\ \E mine \in OnChannel(result.address) :
       remote_cu_key' = IF mine THEN result.command ELSE KeyIdle
  /\ news' = (IF unread THEN <<result.command, Ours>> ELSE <<>>) /\ unread' = FALSE
  /\ result' = NoFrame
  /\ UNCHANGED <<irparams, caller, length, ticks, lineVars, torn>>

\* It answers true, once, when the key asked for is the one kept.
KeyPressed(key) ==
  /\ pc = "compare" /\ remote_cu_key = key /\ pc' = "idle"
  /\ remote_cu_key' = KeyIdle /\ news' = <<>>
  /\ UNCHANGED <<irparams, caller, length, result, unread, ticks, lineVars, torn>>

OtherKey ==
  /\ pc = "compare" /\ pc' = "idle"
  /\ UNCHANGED <<irparams, caller, length, result, remote_cu_key, unread, news, ticks, lineVars, torn>>

\* The keys asked for have nonzero commands.
Key == 0 .. KeyIdle - 1

Sketch == \/ Enable \/ ResumeState \/ ResumeLength \/ NotReady \/ DecodeSRC
          \/ ButtonReturns \/ TakeKey \/ OtherKey
          \/ \E who \in {"ir_rc", "button"} : DecodeLength(who)
          \/ \E key \in Key \ {0} : KeyPressed(key)

Next == Tick \/ Sketch

Spec == Init /\ [][Next]_vars
-----------------------------------------------------------------------------
(* Properties *)

TypeOK ==
  /\ rcvstate \in {"off", "idle", "mark", "space", "stop"} /\ timer \in Ticks
  /\ rawbuf \in [0 .. RawBuf - 1 -> Ticks] /\ rawlen \in 0 .. RawBuf
  /\ pc \in {"off", "enable", "idle", "test", "decoded", "resume", "clear", "compare"}
  /\ caller \in {"ir_rc", "button", "none"} /\ length \in 0 .. RawBuf
  /\ result.command \in Key /\ result.address \in Nat
  /\ remote_cu_key \in Key \cup {KeyIdle} /\ ticks \in 0 .. MaxTicks
  /\ level \in {Mark, Space} /\ run \in Ticks \cup 0 .. Gap + 2
  /\ heard \in Seq(Ticks) /\ torn \in BOOLEAN /\ unread \in BOOLEAN
  /\ news = <<>> \/ news \in Key \X BOOLEAN

\* From its first mark until resume() the recording holds the runs of the line,
\* one for one, marks at odd entries: nothing is lost, split or overwritten,
\* neither while it grows nor while decode() reads it.  Only a tick between
\* resume()'s two stores can shift it.
RecordsLine ==
  ~torn /\ rcvstate \in {"mark", "space", "stop"} =>
    rawlen = Len(heard) + 1 /\ \A k \in DOMAIN heard : rawbuf[k] = heard[k]

\* decode() reports what was on the line, though it copies the length before it
\* looks at the state: in one tick a recording cannot both grow and end.
DecodedIsHeard ==
  [][DecodeSRC /\ ~torn => result' = Frame(Bits(heard, Len(heard) + 1))]_vars

\* A recording begins only after a gap, also when resume() is called in the
\* middle of a transmission that did not fit or came while the sketch was busy.
GapFirst == [][rcvstate = "idle" /\ rcvstate' = "mark" /\ ~torn => Silence >= Gap - 1]_vars

\* The recorder follows the line, and a transmission is ready as soon as the
\* line has been silent for the gap.
ReadyInTime == /\ rcvstate = "mark" => level = Mark
               /\ rcvstate = "space" => level = Space /\ Silence <= Gap + 1

\* ir_rc() answers true once for a transmission at most, for the key of the last
\* one, and only if that was for this channel (or named none of the table).
OncePerFrame ==
  [][\A key \in Key \ {0} : KeyPressed(key) =>
       news = <<key, TRUE>>]_vars
=============================================================================
