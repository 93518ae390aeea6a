-------------------------------- MODULE Clock --------------------------------
(***************************************************************************)
(* The time base of the core (cores/ebot_8/wiring.c): timer 0 counts on    *)
(* its own and sets a flag when it overflows, the overflow handler keeps   *)
(* timer0_overflow_count, timer0_millis and timer0_fract, and millis(),    *)
(* micros() and delay() read them.                                         *)
(*                                                                         *)
(* The timer may tick between any two steps of the sketch.  An overflow is *)
(* handled before the timer comes to its last count again (else micros()   *)
(* takes it for one to come), and the few instructions micros() spends     *)
(* with interrupts off take less than two ticks: the guards of Tick.       *)
(***************************************************************************)
EXTENDS Naturals

CONSTANTS Top,        \* the timer counts modulo Top (256)
          TickUs,     \* microseconds of a tick (4)
          MillisInc,  \* MILLIS_INC, whole milliseconds of an overflow
          FractInc,   \* FRACT_INC, the rest in units of Unit microseconds
          FractMax,   \* FRACT_MAX, units of a millisecond
          Unit,       \* 8
          Wrap,       \* the counters and micros() are modulo Wrap (2^32)
          Wrap16,     \* delay() reads micros() modulo Wrap16 (2^16)
          Base,       \* millis() is read in two halves, modulo Base
          MaxDelay,   \* bound: the longest delay() asked for
          MaxLag      \* assumption: ticks between two turns of delay()'s loop

Ms == FractMax * Unit

ASSUME ClockAssumption ==
  /\ {Top, TickUs, MillisInc, FractInc, FractMax, Unit, Wrap, Wrap16, Base, MaxDelay, MaxLag} \subseteq Nat
  /\ Top > 2 /\ FractInc < FractMax /\ MillisInc + 1 < Wrap
  /\ Top * TickUs = (MillisInc * FractMax + FractInc) * Unit
  /\ Base > 0 /\ Wrap % Base = 0 /\ Wrap16 > 0 /\ Wrap % Wrap16 = 0
  /\ Ms + MaxLag * TickUs < Wrap16

VARIABLES
  tcnt, tov,        \* TCNT0, and TOV0: has it overflowed since the handler ran?
  timer0_overflow_count, timer0_millis, timer0_fract,
  enabled,          \* the I flag of SREG
  pc,               \* where the sketch is
  caller,           \* who called micros(): "sketch", "start" or "loop" of delay()
  oldSREG, m, t,    \* locals of micros() and millis()
  ms, start,        \* delay(): its argument, counted down, and the last mark
  window,           \* ticks since micros() turned interrupts off
  lag,              \* ticks since delay() last read the timer
  now,              \* history: microseconds so far, modulo Wrap
  due,              \* history: units since the first overflow, modulo Wrap * FractMax
  readAt,           \* history: now, when micros() read the timer
  asked, elapsed    \* history: delay()'s argument, microseconds since its first reading

counters == <<timer0_overflow_count, timer0_millis, timer0_fract>>
localVars == <<caller, oldSREG, m, t>>
delayVars == <<ms, start, asked>>
timeVars == <<tcnt, tov, now, due>>
vars == <<timeVars, counters, enabled, pc, localVars, delayVars, window, lag, readAt, elapsed>>

Init ==
  /\ tcnt = 0 /\ tov = FALSE
  /\ timer0_overflow_count = 0 /\ timer0_millis = 0 /\ timer0_fract = 0
  /\ enabled = TRUE /\ pc = "idle" /\ caller = "sketch"
  /\ oldSREG = TRUE /\ m = 0 /\ t = 0 /\ ms = 0 /\ start = 0
  /\ window = 0 /\ lag = 0 /\ now = 0 /\ due = 0 /\ readAt = 0
  /\ asked = 0 /\ elapsed = 0

InMicros == pc \in {"count", "timer", "flag"}
InDelay == asked > 0

-----------------------------------------------------------------------------
(* The timer and its handler *)

Tick ==
  /\ tcnt = Top - 2 => ~tov
  /\ InMicros => window = 0
  /\ InDelay => lag < MaxLag
  /\ tcnt' = (tcnt + 1) % Top /\ tov' = (tov \/ tcnt = Top - 1)
  /\ now' = (now + TickUs) % Wrap
  /\ due' = IF tcnt = Top - 1
            THEN (due + MillisInc * FractMax + FractInc) % (Wrap * FractMax) ELSE due
  /\ window' = IF InMicros THEN 1 ELSE 0
  /\ lag' = IF InDelay THEN lag + 1 ELSE 0
  /\ elapsed' = IF InDelay /\ elapsed <= MaxDelay * Ms THEN elapsed + TickUs ELSE elapsed
  /\ UNCHANGED <<counters, enabled, pc, localVars, delayVars, readAt>>

\* Mutants: a full millisecond of fractions is not carried; is carried late.
OverflowNoCarry ==
  LET f == timer0_fract + FractInc IN
    /\ tov /\ enabled /\ tov' = FALSE
    /\ timer0_fract' = IF f >= FractMax THEN f - FractMax ELSE f
    /\ timer0_millis' = (timer0_millis + MillisInc) % Wrap
    /\ timer0_overflow_count' = (timer0_overflow_count + 1) % Wrap
    /\ UNCHANGED <<tcnt, now, due, enabled, pc, localVars, delayVars, window, lag, readAt, elapsed>>

OverflowCarriesLate ==
  LET f == timer0_fract + FractInc IN
    /\ tov /\ enabled /\ tov' = FALSE
    /\ timer0_fract' = IF f > FractMax THEN f - FractMax ELSE f
    /\ timer0_millis' = (timer0_millis + MillisInc + IF f > FractMax THEN 1 ELSE 0) % Wrap
    /\ timer0_overflow_count' = (timer0_overflow_count + 1) % Wrap
    /\ UNCHANGED <<tcnt, now, due, enabled, pc, localVars, delayVars, window, lag, readAt, elapsed>>

\* TIMER0_OVF_vect runs when interrupts are on; that clears the flag.
Overflow ==
  LET f == timer0_fract + FractInc IN
    /\ tov /\ enabled /\ tov' = FALSE
    /\ timer0_fract' = IF f >= FractMax THEN f - FractMax ELSE f
    /\ timer0_millis' = (timer0_millis + MillisInc + IF f >= FractMax THEN 1 ELSE 0) % Wrap
    /\ timer0_overflow_count' = (timer0_overflow_count + 1) % Wrap
    /\ UNCHANGED <<tcnt, now, due, enabled, pc, localVars, delayVars, window, lag, readAt, elapsed>>

-----------------------------------------------------------------------------
(* The sketch *)

\* noInterrupts() and interrupts() of the sketch
Switch ==
  /\ pc = "idle" /\ enabled' = ~enabled
  /\ UNCHANGED <<timeVars, counters, pc, localVars, delayVars, window, lag, readAt, elapsed>>

\* millis() turns interrupts off, reads its counter in parts ...
CallMillis ==
  /\ pc = "idle" /\ pc' = "low"
  /\ oldSREG' = enabled /\ enabled' = FALSE
  /\ UNCHANGED <<timeVars, counters, caller, m, t, delayVars, window, lag, readAt, elapsed>>

ReadLow ==
  /\ pc = "low" /\ pc' = "high"
  /\ m' = timer0_millis % Base
  /\ UNCHANGED <<timeVars, counters, enabled, caller, oldSREG, t, delayVars, window, lag, readAt, elapsed>>

ReadHigh ==
  /\ pc = "high" /\ pc' = "millis"
  /\ m' = m + ((timer0_millis \div Base) * Base)
  /\ UNCHANGED <<timeVars, counters, enabled, caller, oldSREG, t, delayVars, window, lag, readAt, elapsed>>

\* ... and restores the flag.
MillisReturns ==
  /\ pc = "millis" /\ pc' = "idle"
  /\ enabled' = oldSREG /\ oldSREG' = TRUE /\ m' = 0
  /\ UNCHANGED <<timeVars, counters, caller, t, delayVars, window, lag, readAt, elapsed>>

\* micros() and delay() begin with interrupts turned off; a delay() with them
\* off could not end.
CallMicros ==
  /\ pc = "idle" /\ pc' = "count" /\ caller' = "sketch"
  /\ oldSREG' = enabled /\ enabled' = FALSE /\ window' = 0
  /\ UNCHANGED <<timeVars, counters, m, t, delayVars, lag, readAt, elapsed>>

CallDelay(n) ==
  /\ pc = "idle" /\ enabled /\ pc' = "count" /\ caller' = "start"
  /\ ms' = n
  /\ oldSREG' = enabled /\ enabled' = FALSE /\ window' = 0
  /\ UNCHANGED <<timeVars, counters, m, t, start, asked, lag, readAt, elapsed>>

\* The overflows are read, then the timer, then the flag: an overflow the handler
\* has not counted is added unless the timer was read just before it.
ReadCount ==
  /\ pc = "count" /\ pc' = "timer"
  /\ m' = timer0_overflow_count
  /\ UNCHANGED <<timeVars, counters, enabled, caller, oldSREG, t, delayVars, window, lag, readAt, elapsed>>

ReadTimer ==
  /\ pc = "timer" /\ pc' = "flag"
  /\ t' = tcnt /\ readAt' = now
  /\ lag' = 0 /\ elapsed' = IF caller = "start" THEN 0 ELSE elapsed
  /\ asked' = IF caller = "start" THEN ms ELSE asked
  /\ UNCHANGED <<timeVars, counters, enabled, caller, oldSREG, m, ms, start, window>>

\* Mutant: the last tick before the overflow is not excepted.
TestFlagAlways ==
  /\ pc = "flag" /\ pc' = "micros"
  /\ m' = IF tov THEN (m + 1) % Wrap ELSE m
  /\ enabled' = oldSREG /\ oldSREG' = TRUE /\ window' = 0
  /\ UNCHANGED <<timeVars, counters, caller, t, delayVars, lag, readAt, elapsed>>

TestFlag ==
  /\ pc = "flag" /\ pc' = "micros"
  /\ m' = IF tov /\ t < Top - 1 THEN (m + 1) % Wrap ELSE m
  /\ enabled' = oldSREG /\ oldSREG' = TRUE /\ window' = 0
  /\ UNCHANGED <<timeVars, counters, caller, t, delayVars, lag, readAt, elapsed>>

Micros == ((((m * Top) % Wrap) + t) * TickUs) % Wrap

MicrosReturns ==
  /\ pc = "micros" /\ caller = "sketch" /\ pc' = "idle"
  /\ m' = 0 /\ t' = 0 /\ readAt' = 0
  /\ UNCHANGED <<timeVars, counters, enabled, caller, oldSREG, delayVars, window, lag, elapsed>>

\* delay() keeps the low bits of its first reading and reads again, ...
DelayStarts ==
  /\ pc = "micros" /\ caller = "start"
  /\ start' = Micros % Wrap16
  /\ pc' = "turn" /\ m' = 0 /\ t' = 0 /\ readAt' = 0
  /\ UNCHANGED <<timeVars, counters, enabled, caller, oldSREG, ms, asked, window, lag, elapsed>>

DelayTurn ==
  /\ pc = "turn" /\ ms > 0
  /\ pc' = "count" /\ caller' = "loop"
  /\ oldSREG' = enabled /\ enabled' = FALSE /\ window' = 0
  /\ UNCHANGED <<timeVars, counters, m, t, delayVars, lag, readAt, elapsed>>

\* Mutants: the mark stays; the difference is not taken modulo.
DelayKeepsMark ==
  /\ pc = "micros" /\ caller = "loop" /\ pc' = "turn"
  /\ IF ((Micros % Wrap16) + Wrap16 - start) % Wrap16 >= Ms
     THEN ms' = ms - 1 /\ UNCHANGED start ELSE UNCHANGED <<ms, start>>
  /\ m' = 0 /\ t' = 0 /\ readAt' = 0
  /\ UNCHANGED <<timeVars, counters, enabled, caller, oldSREG, asked, window, lag, elapsed>>

DelayNoWrap ==
  /\ pc = "micros" /\ caller = "loop" /\ pc' = "turn"
  /\ IF (Micros % Wrap16) >= start + Ms
     THEN ms' = ms - 1 /\ start' = (start + Ms) % Wrap16
     ELSE UNCHANGED <<ms, start>>
  /\ m' = 0 /\ t' = 0 /\ readAt' = 0
  /\ UNCHANGED <<timeVars, counters, enabled, caller, oldSREG, asked, window, lag, elapsed>>

\* ... and counts a millisecond when one has passed since the last mark.
DelayCounts ==
  /\ pc = "micros" /\ caller = "loop" /\ pc' = "turn"
  /\ IF ((Micros % Wrap16) + Wrap16 - start) % Wrap16 >= Ms
     THEN ms' = ms - 1 /\ start' = (start + Ms) % Wrap16
     ELSE UNCHANGED <<ms, start>>
  /\ m' = 0 /\ t' = 0 /\ readAt' = 0
  /\ UNCHANGED <<timeVars, counters, enabled, caller, oldSREG, asked, window, lag, elapsed>>

DelayReturns ==
  /\ pc = "turn" /\ ms = 0 /\ pc' = "idle"
  /\ caller' = "sketch" /\ start' = 0 /\ asked' = 0 /\ elapsed' = 0 /\ lag' = 0
  /\ UNCHANGED <<timeVars, counters, enabled, oldSREG, m, t, ms, window, readAt>>

Calls == CallMillis \/ CallMicros \/ \E n \in 0 .. MaxDelay : CallDelay(n)

Step == \/ ReadLow \/ ReadHigh \/ MillisReturns
        \/ ReadCount \/ ReadTimer \/ TestFlag \/ MicrosReturns
        \/ DelayStarts \/ DelayTurn \/ DelayCounts \/ DelayReturns

Next == Tick \/ Overflow \/ Switch \/ Calls \/ Step

\* The timer runs, a call that has begun goes on, and a pending overflow is
\* handled, also if interrupts are turned off and on all the time.
Spec == /\ Init /\ [][Next]_vars
        /\ WF_vars(Tick) /\ SF_vars(Overflow) /\ WF_vars(Step)
-----------------------------------------------------------------------------
(* Properties *)

TypeOK ==
  /\ tcnt \in 0 .. Top - 1 /\ tov \in BOOLEAN
  /\ timer0_overflow_count \in 0 .. Wrap - 1 /\ timer0_millis \in 0 .. Wrap - 1
  /\ timer0_fract \in 0 .. FractMax - 1
  /\ enabled \in BOOLEAN /\ oldSREG \in BOOLEAN
  /\ pc \in {"idle", "low", "high", "millis", "count", "timer", "flag", "micros", "turn"}
  /\ caller \in {"sketch", "start", "loop"}
  /\ m \in 0 .. Wrap - 1 /\ t \in 0 .. Top - 1
  /\ ms \in 0 .. MaxDelay /\ start \in 0 .. Wrap16 - 1 /\ asked \in 0 .. MaxDelay
  /\ window \in 0 .. 1 /\ lag \in 0 .. MaxLag /\ elapsed \in Nat
  /\ now \in 0 .. Wrap - 1 /\ due \in 0 .. Wrap * FractMax - 1 /\ readAt \in 0 .. Wrap - 1

\* The milliseconds and their fraction never drift from the overflows of the
\* timer, also across the wrap of the counter; an overflow that is not handled
\* yet is all that can be missing.
NoDrift ==
  ((timer0_millis * FractMax) + timer0_fract
     + IF tov THEN (MillisInc * FractMax) + FractInc ELSE 0) % (Wrap * FractMax) = due

\* micros() returns the time at which it read the timer, wherever the overflow
\* and its handler fall, so that it never runs backwards; and millis() returns
\* one value of the counter, not parts of two.
ReadingsTrue == [][/\ InMicros /\ pc' = "micros" => Micros' = readAt
                   /\ MillisReturns => m = timer0_millis]_vars

\* delay(n) returns when n milliseconds have passed or later, ...
DelayNotShort == [][DelayReturns => elapsed >= asked * Ms]_vars

\* ... and it returns, as every call does.
CallsReturn == pc # "idle" ~> pc = "idle"
=============================================================================
