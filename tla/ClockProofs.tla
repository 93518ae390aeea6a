----------------------------- MODULE ClockProofs -----------------------------
(***************************************************************************)
(* For every timer length, prescaler and counter width: the milliseconds   *)
(* do not drift, and micros() and millis() return a time that was.         *)
(***************************************************************************)
EXTENDS Clock, Integers, TLAPS

-----------------------------------------------------------------------------
(* Arithmetic modulo N *)

LEMMA DivMod == ASSUME NEW N \in Nat, N > 0, NEW x \in Nat
                PROVE  \E q \in Nat, r \in 0 .. N - 1 : x = N * q + r /\ x % N = r
<1>1. x % N \in Nat /\ x % N < N
  OBVIOUS
<1>2. x \div N \in Nat
  OBVIOUS
<1>3. x = N * (x \div N) + (x % N)
  OBVIOUS
<1> QED BY <1>1, <1>2, <1>3

\* Quotient and remainder are the only ones.
LEMMA Unique == ASSUME NEW N \in Nat, N > 0, NEW x \in Nat, NEW q \in Nat, NEW r \in Nat,
                       x = N * q + r, r < N
                PROVE  x % N = r
OBVIOUS

LEMMA Multiple == ASSUME NEW N \in Nat, N > 0, NEW x \in Nat, NEW q \in Nat
                  PROVE  (x + N * q) % N = x % N
<1>1. PICK d \in Nat, r \in 0 .. N - 1 : x = N * d + r /\ x % N = r
  BY DivMod
<1>2. x + N * q = N * (d + q) + r
  BY <1>1
<1>3. x + N * q \in Nat /\ d + q \in Nat
  BY <1>1
<1>4. r \in Nat /\ r < N
  BY <1>1
<1>5. (x + N * q) % N = r
  BY <1>2, <1>3, <1>4, Unique
<1> QED BY <1>1, <1>5

\* A remainder may be taken before a sum or a product is.
LEMMA InsideSum == ASSUME NEW N \in Nat, N > 0, NEW x \in Nat, NEW y \in Nat
                   PROVE  ((x % N) + y) % N = (x + y) % N
<1>1. PICK d \in Nat, r \in 0 .. N - 1 : x = N * d + r /\ x % N = r
  BY DivMod
<1>2. x + y = (r + y) + N * d /\ r + y \in Nat
  BY <1>1
<1>3. ((r + y) + N * d) % N = (r + y) % N
  BY <1>2, Multiple
<1> QED BY <1>1, <1>2, <1>3

LEMMA Scaled == ASSUME NEW N \in Nat, N > 0, NEW F \in Nat, F > 0, NEW x \in Nat, NEW y \in Nat
                PROVE  ((x % N) * F + y) % (N * F) = (x * F + y) % (N * F)
<1>1. PICK d \in Nat, r \in 0 .. N - 1 : x = N * d + r /\ x % N = r
  BY DivMod
<1>2. x * F + y = (r * F + y) + (N * F) * d
  BY <1>1
<1>3. r * F + y \in Nat /\ N * F \in Nat /\ N * F > 0
  BY <1>1
<1>4. ((r * F + y) + (N * F) * d) % (N * F) = (r * F + y) % (N * F)
  BY <1>3, Multiple
<1> QED BY <1>1, <1>2, <1>4
-----------------------------------------------------------------------------
(* What the proof carries from state to state *)

K == MillisInc * FractMax + FractInc       \* units of an overflow
D == Wrap * FractMax                       \* the milliseconds wrap after these
Pending == IF tov THEN 1 ELSE 0

\* Interrupts are off from the call until the flag is restored, so the handler
\* keeps away from what is being read.
Quiet == pc \in {"low", "high", "millis", "count", "timer", "flag"} => ~enabled

\* The timer does not come to its last count with an overflow pending.
InTime == tcnt = Top - 1 => ~tov

\* What the sketch has read so far is still there.
Locals ==
  /\ pc = "high" => m = timer0_millis % Base
  /\ pc = "millis" => m = timer0_millis
  /\ pc \in {"timer", "flag"} => m = timer0_overflow_count
  /\ pc \in {"count", "timer", "flag", "micros"} /\ caller = "loop" => ms > 0

Drift == ((timer0_millis * FractMax) + timer0_fract + IF tov THEN K ELSE 0) % D = due

Time(count, ticks) == ((count * Top + ticks) * TickUs) % Wrap

\* The overflows counted and pending, and the timer, tell the time.
Now == Time(timer0_overflow_count + Pending, tcnt) = now

\* So do the readings of micros() together with what it adds for the flag: an
\* overflow behind its reading comes with the timer at its last count.
Read == pc = "flag" =>
          /\ window = 0 => t = tcnt
          /\ readAt = Time(m + (IF tov /\ t < Top - 1 THEN 1 ELSE 0), t)

IInv == TypeOK /\ Quiet /\ InTime /\ Locals /\ Drift /\ Now /\ Read

LEMMA ConstantTypes ==
  /\ Top \in Nat /\ Top > 2 /\ TickUs \in Nat /\ MillisInc \in Nat /\ FractInc \in Nat
  /\ FractMax \in Nat /\ FractInc < FractMax /\ Unit \in Nat /\ Wrap \in Nat /\ Wrap > 0
  /\ Wrap16 \in Nat /\ Wrap16 > 0 /\ Base \in Nat /\ Base > 0 /\ MaxDelay \in Nat
  /\ MaxLag \in Nat /\ Ms \in Nat /\ K \in Nat /\ D \in Nat /\ D > 0
  /\ MillisInc + 1 < Wrap
<1>1. /\ Top \in Nat /\ TickUs \in Nat /\ MillisInc \in Nat /\ FractInc \in Nat
      /\ FractMax \in Nat /\ Unit \in Nat /\ Wrap \in Nat
      /\ Wrap16 \in Nat /\ Base \in Nat /\ MaxDelay \in Nat /\ MaxLag \in Nat
  BY ClockAssumption
<1>2. /\ Top > 2 /\ FractInc < FractMax /\ MillisInc + 1 < Wrap
      /\ Base > 0 /\ Wrap16 > 0
  BY ClockAssumption
<1>3. Wrap > 0 /\ FractMax > 0
  BY <1>1, <1>2
<1>4. Ms \in Nat /\ K \in Nat
  BY <1>1 DEF Ms, K
<1>5. D \in Nat /\ D > 0
  BY <1>1, <1>3 DEF D
<1> QED BY <1>1, <1>2, <1>3, <1>4, <1>5

\* A remainder is in range.
LEMMA Range == ASSUME NEW x \in Nat, NEW N \in Nat, N > 0
               PROVE  x % N \in 0 .. N - 1 /\ x % N <= x
<1>1. x % N \in 0 .. N - 1
  OBVIOUS
<1>2. PICK q \in Nat, r \in 0 .. N - 1 : x = N * q + r /\ x % N = r
  BY DivMod
<1>3. N * q >= 0
  BY <1>2
<1> QED BY <1>1, <1>2, <1>3

\* Time forgets multiples of Wrap in the overflows ...
LEMMA TimeWrap == ASSUME NEW c \in Nat, NEW n \in Nat
                  PROVE  Time(c % Wrap, n) = Time(c, n)
<1> USE ConstantTypes
<1>1. PICK d \in Nat, r \in 0 .. Wrap - 1 : c = Wrap * d + r /\ c % Wrap = r
  BY DivMod
<1> DEFINE x == (r * Top + n) * TickUs
           q == (d * Top) * TickUs
<1>2. x \in Nat /\ q \in Nat
  BY <1>1
<1>3. (c * Top + n) * TickUs = x + Wrap * q
  BY <1>1
<1> HIDE DEF q
<1>4. (x + Wrap * q) % Wrap = x % Wrap
  BY <1>2, Multiple
<1> QED BY <1>1, <1>3, <1>4 DEF Time

\* ... and in their product with Top, where micros() drops them.
LEMMA TimeInner == ASSUME NEW c \in Nat, NEW n \in Nat
                   PROVE  ((((c * Top) % Wrap) + n) * TickUs) % Wrap = Time(c, n)
<1> USE ConstantTypes
<1>1. c * Top \in Nat
  OBVIOUS
<1>2. PICK d \in Nat, r \in 0 .. Wrap - 1 : c * Top = Wrap * d + r /\ (c * Top) % Wrap = r
  BY <1>1, DivMod
<1> DEFINE x == (r + n) * TickUs
           q == d * TickUs
<1>3. x \in Nat /\ q \in Nat
  BY <1>2
<1>4. (c * Top + n) * TickUs = x + Wrap * q
  BY <1>2
<1> HIDE DEF q
<1>5. (x + Wrap * q) % Wrap = x % Wrap
  BY <1>3, Multiple
<1> QED BY <1>2, <1>4, <1>5 DEF Time

LEMMA InitClock == Init => IInv
<1> SUFFICES ASSUME Init PROVE IInv
  OBVIOUS
<1> USE ConstantTypes
<1>1. TypeOK
  <2>1. 0 \in 0 .. D - 1 /\ 0 \in 0 .. FractMax - 1
    OBVIOUS
  <2>2. enabled \in BOOLEAN /\ oldSREG \in BOOLEAN /\ tov \in BOOLEAN
    BY Zenon DEF Init
  <2> QED BY <2>1, <2>2 DEF Init, TypeOK, D
<1>2. Quiet /\ InTime /\ Locals /\ Read
  BY DEF Init, Quiet, InTime, Locals, Read
<1>3. 0 % D = 0 /\ 0 % Wrap = 0
  OBVIOUS
<1>4. 0 * FractMax + 0 + 0 = 0 /\ ((0 + 0) * Top + 0) * TickUs = 0
  OBVIOUS
<1>5. Drift /\ Now
  BY <1>3, <1>4 DEF Init, Drift, Now, Time, Pending
<1> QED BY <1>1, <1>2, <1>5 DEF IInv
-----------------------------------------------------------------------------
(* The timer *)

LEMMA TickStep == ASSUME IInv, Tick PROVE IInv'
<1> USE ConstantTypes
<1>1. /\ tcnt \in 0 .. Top - 1 /\ tov \in BOOLEAN /\ window \in 0 .. 1 /\ lag \in 0 .. MaxLag
      /\ elapsed \in Nat /\ now \in Nat /\ due \in Nat /\ timer0_overflow_count \in Nat
      /\ timer0_millis \in Nat /\ timer0_fract \in Nat /\ m \in Nat /\ t \in 0 .. Top - 1
  BY DEF IInv, TypeOK
<1>2. tcnt' = IF tcnt = Top - 1 THEN 0 ELSE tcnt + 1
  <2>1. tcnt = Top - 1 => tcnt + 1 = Top * 1 + 0
    BY <1>1
  <2>2. tcnt # Top - 1 => tcnt + 1 = Top * 0 + (tcnt + 1) /\ tcnt + 1 < Top
    BY <1>1
  <2>3. tcnt' = (tcnt + 1) % Top
    BY DEF Tick
  <2>4. CASE tcnt = Top - 1
    BY <1>1, <2>1, <2>3, <2>4, Unique
  <2>5. CASE tcnt # Top - 1
    BY <1>1, <2>2, <2>3, <2>5, Unique
  <2> QED BY <2>4, <2>5
<1>3. /\ tov' = (tov \/ tcnt = Top - 1) /\ now' = (now + TickUs) % Wrap
      /\ UNCHANGED <<counters, enabled, pc, localVars, delayVars, readAt>>
  BY DEF Tick
<1>4. TypeOK'
  <2>1. now' \in 0 .. Wrap - 1
    BY <1>1, <1>3, Range
  <2>2. due' \in 0 .. D - 1
    BY <1>1, Range DEF Tick, IInv, TypeOK, K, D
  <2>3. window' \in 0 .. 1 /\ lag' \in 0 .. MaxLag /\ elapsed' \in Nat
    BY <1>1 DEF Tick
  <2>4. tcnt' \in 0 .. Top - 1 /\ tov' \in BOOLEAN
    BY <1>1, <1>2, <1>3
  <2> QED BY <1>3, <2>1, <2>2, <2>3, <2>4
          DEF IInv, TypeOK, D, counters, localVars, delayVars
<1>5. Quiet' /\ Locals'
  BY <1>3 DEF IInv, Quiet, Locals, counters, localVars, delayVars
<1>6. InTime'
  BY <1>1, <1>2, <1>3 DEF IInv, InTime, Tick
<1>7. tcnt = Top - 1 => ~tov
  BY DEF IInv, InTime
<1>8. Drift'
  <2> DEFINE x == timer0_millis * FractMax + timer0_fract + IF tov THEN K ELSE 0
  <2>1. x \in Nat /\ x % D = due
    BY <1>1 DEF IInv, Drift
  <2>2. CASE tcnt = Top - 1
    <3>1. due' = (due + K) % D /\ tov' = TRUE
      <4>1. due' = (due + MillisInc * FractMax + FractInc) % D /\ tov' = TRUE
        BY <1>3, <2>2 DEF Tick, D
      <4>2. due + MillisInc * FractMax + FractInc = due + (MillisInc * FractMax + FractInc)
        BY <1>1
      <4> QED BY <4>1, <4>2 DEF K
    <3>2. (x + K) % D = (due + K) % D
      BY <2>1, InsideSum, ZenonT(60)
    <3>3. timer0_millis * FractMax + timer0_fract + K = x + K
      BY <1>1, <1>7, <2>2
    <3> QED BY <1>3, <3>1, <3>2, <3>3 DEF Drift, counters
  <2>3. CASE tcnt # Top - 1
    BY <1>3, <2>3 DEF IInv, Drift, Tick, counters
  <2> QED BY <2>2, <2>3
<1>9. Now'
  <2> DEFINE x == ((timer0_overflow_count + Pending) * Top + tcnt) * TickUs
             y == ((timer0_overflow_count + Pending') * Top + tcnt') * TickUs
  <2>1. Pending \in Nat /\ Pending' \in Nat /\ tcnt' \in Nat
    BY <1>1, <1>2 DEF Pending
  <2>2. x \in Nat /\ x % Wrap = now
    BY <1>1, <2>1 DEF IInv, Now, Time
  <2>3. (timer0_overflow_count + Pending') * Top + tcnt'
          = ((timer0_overflow_count + Pending) * Top + tcnt) + 1
    <3>1. CASE tcnt = Top - 1
      <4>1. Pending = 0 /\ Pending' = 1 /\ tcnt' = 0
        BY <1>2, <1>3, <1>7, <3>1 DEF Pending
      <4> QED BY <1>1, <3>1, <4>1
    <3>2. CASE tcnt # Top - 1
      <4>1. Pending' = Pending /\ tcnt' = tcnt + 1
        BY <1>1, <1>2, <1>3, <3>2 DEF Pending
      <4> QED BY <1>1, <2>1, <4>1
    <3> QED BY <3>1, <3>2
  <2>4. y = x + TickUs
    <3>1. \A a \in Nat : (a + 1) * TickUs = a * TickUs + TickUs
      OBVIOUS
    <3>2. (timer0_overflow_count + Pending) * Top + tcnt \in Nat
      BY <1>1, <2>1
    <3> QED BY <2>3, <3>1, <3>2
  <2>5. (x + TickUs) % Wrap = (now + TickUs) % Wrap
    BY <2>2, InsideSum, ZenonT(60)
  <2> QED BY <1>3, <2>4, <2>5 DEF Now, Time, counters
<1>10. Read'
  <2>1. SUFFICES ASSUME pc = "flag"
                 PROVE  /\ window' = 0 => t' = tcnt'
                        /\ readAt' = Time(m + (IF tov' /\ t < Top - 1 THEN 1 ELSE 0), t)
    BY <1>3 DEF Read, localVars, Time
  <2>2. window = 0 /\ window' = 1
    BY <2>1 DEF Tick, InMicros
  <2>3. t = tcnt /\ readAt = Time(m + (IF tov /\ t < Top - 1 THEN 1 ELSE 0), t)
    BY <2>1, <2>2 DEF IInv, Read
  <2>4. (tov' /\ t < Top - 1) = (tov /\ t < Top - 1)
    BY <1>1, <1>3, <2>3
  <2> QED BY <1>3, <2>2, <2>3, <2>4
<1> QED BY <1>4, <1>5, <1>6, <1>8, <1>9, <1>10 DEF IInv

\* The handler adds what was pending.
LEMMA OverflowStep == ASSUME IInv, Overflow PROVE IInv'
<1> USE ConstantTypes
<1> DEFINE f == timer0_fract + FractInc
           carry == IF f >= FractMax THEN 1 ELSE 0
           ms1 == timer0_millis + MillisInc + carry
           f1 == f - carry * FractMax
<1>1. /\ timer0_overflow_count \in Nat /\ timer0_millis \in Nat
      /\ timer0_fract \in 0 .. FractMax - 1 /\ tcnt \in Nat
  BY DEF IInv, TypeOK
<1>2. /\ tov = TRUE /\ enabled = TRUE /\ tov' = FALSE
  BY Zenon DEF Overflow, IInv, TypeOK
<1>3. /\ timer0_fract' = f1 /\ timer0_millis' = ms1 % Wrap
      /\ timer0_overflow_count' = (timer0_overflow_count + 1) % Wrap
      /\ UNCHANGED <<tcnt, now, due, enabled, pc, localVars, delayVars, window, lag, readAt, elapsed>>
  BY <1>1 DEF Overflow
<1>4. ms1 \in Nat /\ f1 \in 0 .. FractMax - 1
  BY <1>1
<1>5. ms1 * FractMax + f1 = timer0_millis * FractMax + timer0_fract + K
  <2>1. CASE carry = 0
    BY <1>1, <2>1 DEF K
  <2>2. CASE carry = 1
    BY <1>1, <2>2 DEF K
  <2> QED BY <2>1, <2>2
<1> HIDE DEF ms1, f1
<1>6. TypeOK'
  <2>1. timer0_millis' \in 0 .. Wrap - 1 /\ timer0_overflow_count' \in 0 .. Wrap - 1
    BY <1>1, <1>3, <1>4, Range
  <2> QED BY <1>2, <1>3, <1>4, <2>1 DEF IInv, TypeOK, localVars, delayVars
<1>7. Drift'
  <2>1. (timer0_millis * FractMax + timer0_fract + K) % D = due
    BY <1>2 DEF IInv, Drift
  <2>2. ((ms1 % Wrap) * FractMax + f1) % D = (ms1 * FractMax + f1) % D
    <3>1. FractMax > 0
      OBVIOUS
    <3>2. \A x \in Nat, y \in Nat :
             ((x % Wrap) * FractMax + y) % (Wrap * FractMax) = (x * FractMax + y) % (Wrap * FractMax)
      BY <3>1, Scaled
    <3>3. f1 \in Nat
      BY <1>4
    <3> QED BY <1>4, <3>2, <3>3 DEF D
  <2>3. (ms1 % Wrap) * FractMax + f1 + 0 = (ms1 % Wrap) * FractMax + f1
    BY <1>4
  <2> QED BY <1>2, <1>3, <1>5, <2>1, <2>2, <2>3 DEF Drift
<1>8. Now'
  <2>1. Time(timer0_overflow_count + 1, tcnt) = now
    BY <1>2 DEF IInv, Now, Pending
  <2>2. timer0_overflow_count + 1 \in Nat
    BY <1>1
  <2>5. Time(timer0_overflow_count', tcnt) = now
    BY <1>1, <1>3, <2>1, <2>2, TimeWrap
  <2>6. timer0_overflow_count' + Pending' = timer0_overflow_count'
    BY <1>1, <1>2, <1>3 DEF Pending
  <2> QED BY <1>3, <2>5, <2>6 DEF Now, Time
<1>9. Quiet' /\ InTime' /\ Locals' /\ Read'
  <2>1. pc \notin {"low", "high", "millis", "count", "timer", "flag"}
    BY <1>2 DEF IInv, Quiet
  <2>2. pc' = pc /\ caller' = caller /\ ms' = ms
    BY <1>3 DEF localVars, delayVars
  <2> QED BY <1>2, <2>1, <2>2 DEF IInv, Quiet, InTime, Locals, Read
<1> QED BY <1>6, <1>7, <1>8, <1>9 DEF IInv
-----------------------------------------------------------------------------
(* The sketch *)

\* A step of the sketch leaves the timer and the counters alone.
LEMMA SketchStep ==
  ASSUME IInv, UNCHANGED <<timeVars, counters>>, TypeOK', Quiet', Locals', Read'
  PROVE  IInv'
<1>1. InTime' /\ Drift' /\ Now'
  BY DEF IInv, InTime, Drift, Now, Time, Pending, timeVars, counters
<1> QED BY <1>1 DEF IInv

\* A reading of micros() is in range.
LEMMA MicrosType == ASSUME m \in Nat, t \in Nat PROVE Micros \in 0 .. Wrap - 1
<1> USE ConstantTypes
<1>1. (m * Top) % Wrap \in Nat
  <2>1. m * Top \in Nat
    OBVIOUS
  <2> QED BY <2>1, Range
<1>2. (((m * Top) % Wrap) + t) * TickUs \in Nat
  BY <1>1
<1> QED BY <1>2, Range DEF Micros

LEMMA MillisSteps == ASSUME IInv, CallMillis \/ ReadLow \/ ReadHigh \/ MillisReturns
                     PROVE  IInv'
<1> USE ConstantTypes DEF localVars, delayVars
<1>0. /\ timer0_millis \in 0 .. Wrap - 1 /\ m \in 0 .. Wrap - 1
      /\ enabled \in BOOLEAN /\ oldSREG \in BOOLEAN
  BY DEF IInv, TypeOK
<1>1. CASE CallMillis
  <2>1. enabled' = FALSE /\ oldSREG' \in BOOLEAN
    BY <1>0, <1>1 DEF CallMillis
  <2>2. TypeOK'
    BY <1>1, <2>1 DEF IInv, TypeOK, CallMillis, timeVars, counters
  <2>3. Quiet' /\ Locals' /\ Read'
    BY <1>1 DEF CallMillis, Quiet, Locals, Read
  <2> QED BY <1>1, <2>2, <2>3, SketchStep DEF CallMillis
<1>2. CASE ReadLow
  <2>1. timer0_millis % Base \in 0 .. Wrap - 1
    BY <1>0, Range
  <2>2. TypeOK'
    BY <1>2, <2>1 DEF IInv, TypeOK, ReadLow, timeVars, counters
  <2>3. Quiet' /\ Locals' /\ Read'
    BY <1>2 DEF IInv, ReadLow, Quiet, Locals, Read, counters
  <2> QED BY <1>2, <2>2, <2>3, SketchStep DEF ReadLow
<1>3. CASE ReadHigh
  <2>1. timer0_millis = Base * (timer0_millis \div Base) + (timer0_millis % Base)
    BY <1>0
  <2>2. timer0_millis \div Base \in Nat /\ timer0_millis % Base \in Nat
    BY <1>0
  <2>3. m' = timer0_millis
    BY <1>3, <2>1, <2>2 DEF IInv, Locals, ReadHigh
  <2>4. TypeOK'
    BY <1>0, <1>3, <2>3 DEF IInv, TypeOK, ReadHigh, timeVars, counters
  <2>5. Quiet' /\ Locals' /\ Read'
    BY <1>3, <2>3 DEF IInv, ReadHigh, Quiet, Locals, Read, counters
  <2> QED BY <1>3, <2>4, <2>5, SketchStep DEF ReadHigh
<1>4. CASE MillisReturns
  <2>1. enabled' \in BOOLEAN /\ oldSREG' \in BOOLEAN
    BY <1>0, <1>4 DEF MillisReturns
  <2>2. TypeOK'
    BY <1>4, <2>1 DEF IInv, TypeOK, MillisReturns, timeVars, counters
  <2>3. Quiet' /\ Locals' /\ Read'
    BY <1>4 DEF IInv, MillisReturns, Quiet, Locals, Read
  <2> QED BY <1>4, <2>2, <2>3, SketchStep DEF MillisReturns
<1> QED BY <1>1, <1>2, <1>3, <1>4

LEMMA MicrosSteps ==
  ASSUME IInv,
         \/ CallMicros \/ \E n \in 0 .. MaxDelay : CallDelay(n)
         \/ ReadCount \/ ReadTimer \/ TestFlag \/ MicrosReturns
  PROVE  IInv'
<1> USE ConstantTypes DEF localVars, delayVars
<1>0. /\ timer0_overflow_count \in 0 .. Wrap - 1 /\ m \in 0 .. Wrap - 1
      /\ t \in 0 .. Top - 1 /\ tcnt \in 0 .. Top - 1 /\ ms \in 0 .. MaxDelay
      /\ enabled \in BOOLEAN /\ oldSREG \in BOOLEAN /\ tov \in BOOLEAN
  BY DEF IInv, TypeOK
<1>1. CASE CallMicros
  <2>1. enabled' = FALSE /\ oldSREG' \in BOOLEAN
    BY <1>0, <1>1 DEF CallMicros
  <2>2. TypeOK'
    <3>1. /\ pc' = "count" /\ caller' = "sketch" /\ window' = 0 /\ ms' \in 0 .. MaxDelay
          /\ UNCHANGED <<timeVars, counters, m, t, delayVars, lag, readAt, elapsed>>
      BY <1>0, <1>1 DEF CallMicros
    <3>2. enabled' \in BOOLEAN
      BY <2>1
    <3> QED BY <2>1, <3>1, <3>2 DEF IInv, TypeOK, timeVars, counters
  <2>3. Quiet' /\ Locals' /\ Read'
    BY <1>1 DEF CallMicros, Quiet, Locals, Read
  <2> QED BY <1>1, <2>2, <2>3, SketchStep DEF CallMicros
<1>2. ASSUME NEW n \in 0 .. MaxDelay, CallDelay(n) PROVE IInv'
  <2>1. enabled' = FALSE /\ oldSREG' \in BOOLEAN
    BY <1>0, <1>2 DEF CallDelay
  <2>2. TypeOK'
    <3>1. /\ pc' = "count" /\ caller' = "start" /\ window' = 0 /\ ms' \in 0 .. MaxDelay
          /\ UNCHANGED <<timeVars, counters, m, t, start, asked, lag, readAt, elapsed>>
      BY <1>0, <1>2 DEF CallDelay
    <3>2. enabled' \in BOOLEAN
      BY <2>1
    <3> QED BY <2>1, <3>1, <3>2 DEF IInv, TypeOK, timeVars, counters
  <2>3. Quiet' /\ Locals' /\ Read'
    BY <1>2 DEF CallDelay, Quiet, Locals, Read
  <2> QED BY <1>2, <2>2, <2>3, SketchStep DEF CallDelay
<1>3. CASE ReadCount
  <2>1. TypeOK'
    BY <1>0, <1>3 DEF IInv, TypeOK, ReadCount, timeVars, counters
  <2>2. Quiet' /\ Locals' /\ Read'
    BY <1>3 DEF IInv, ReadCount, Quiet, Locals, Read, counters
  <2> QED BY <1>3, <2>1, <2>2, SketchStep DEF ReadCount
<1>4. CASE ReadTimer
  <2>1. TypeOK'
    BY <1>0, <1>4 DEF IInv, TypeOK, ReadTimer, timeVars, counters
  <2>2. Quiet' /\ Locals'
    BY <1>4 DEF IInv, ReadTimer, Quiet, Locals, counters
  <2>3. Read'
    <3>1. /\ m' = timer0_overflow_count /\ t' = tcnt /\ tcnt' = tcnt /\ tov' = tov
          /\ readAt' = now
      BY <1>4 DEF IInv, Locals, ReadTimer, timeVars
    <3>2. (IF tov /\ tcnt < Top - 1 THEN 1 ELSE 0) = Pending
      BY <1>0 DEF IInv, InTime, Pending
    <3>3. readAt' = Time(timer0_overflow_count + Pending, tcnt)
      BY <3>1 DEF IInv, Now
    <3> QED BY <3>1, <3>2, <3>3 DEF Read, Time
  <2> QED BY <1>4, <2>1, <2>2, <2>3, SketchStep DEF ReadTimer
<1>5. CASE TestFlag
  <2>1. (m + 1) % Wrap \in 0 .. Wrap - 1
    BY <1>0, Range
  <2>2. enabled' \in BOOLEAN /\ oldSREG' \in BOOLEAN
    BY <1>0, <1>5 DEF TestFlag
  <2>3. TypeOK'
    BY <1>0, <1>5, <2>1, <2>2 DEF IInv, TypeOK, TestFlag, timeVars, counters
  <2>4. Quiet' /\ Locals' /\ Read'
    BY <1>5 DEF IInv, TestFlag, Quiet, Locals, Read
  <2> QED BY <1>5, <2>3, <2>4, SketchStep DEF TestFlag
<1>6. CASE MicrosReturns
  <2>1. TypeOK'
    BY <1>6 DEF IInv, TypeOK, MicrosReturns, timeVars, counters
  <2>2. Quiet' /\ Locals' /\ Read'
    BY <1>6 DEF IInv, MicrosReturns, Quiet, Locals, Read
  <2> QED BY <1>6, <2>1, <2>2, SketchStep DEF MicrosReturns
<1> QED BY <1>1, <1>2, <1>3, <1>4, <1>5, <1>6

LEMMA DelaySteps ==
  ASSUME IInv, DelayStarts \/ DelayTurn \/ DelayCounts \/ DelayReturns \/ Switch
  PROVE  IInv'
<1> USE ConstantTypes DEF localVars, delayVars
<1>0. /\ m \in Nat /\ t \in Nat /\ ms \in 0 .. MaxDelay /\ start \in 0 .. Wrap16 - 1
      /\ enabled \in BOOLEAN /\ oldSREG \in BOOLEAN
  BY DEF IInv, TypeOK
<1>1. CASE DelayStarts
  <2>1. Micros % Wrap16 \in 0 .. Wrap16 - 1
    BY <1>0, MicrosType, Range
  <2>2. TypeOK'
    BY <1>1, <2>1 DEF IInv, TypeOK, DelayStarts, timeVars, counters
  <2>3. Quiet' /\ Locals' /\ Read'
    BY <1>1 DEF IInv, DelayStarts, Quiet, Locals, Read
  <2> QED BY <1>1, <2>2, <2>3, SketchStep DEF DelayStarts
<1>2. CASE DelayTurn
  <2>1. enabled' = FALSE /\ oldSREG' \in BOOLEAN
    BY <1>0, <1>2 DEF DelayTurn
  <2>2. TypeOK'
    <3>1. /\ pc' = "count" /\ caller' = "loop" /\ window' = 0 /\ ms' \in 0 .. MaxDelay
          /\ UNCHANGED <<timeVars, counters, m, t, delayVars, lag, readAt, elapsed>>
      BY <1>0, <1>2 DEF DelayTurn
    <3>2. enabled' \in BOOLEAN
      BY <2>1
    <3> QED BY <2>1, <3>1, <3>2 DEF IInv, TypeOK, timeVars, counters
  <2>3. Quiet' /\ Locals' /\ Read'
    BY <1>0, <1>2 DEF DelayTurn, Quiet, Locals, Read
  <2> QED BY <1>2, <2>2, <2>3, SketchStep DEF DelayTurn
<1>3. CASE DelayCounts
  <2>1. (start + Ms) % Wrap16 \in 0 .. Wrap16 - 1
    BY <1>0, Range
  <2>2. ms > 0
    BY <1>3 DEF IInv, Locals, DelayCounts
  <2>3. /\ ms' \in 0 .. MaxDelay /\ start' \in 0 .. Wrap16 - 1 /\ m' = 0 /\ t' = 0
        /\ readAt' = 0 /\ pc' = "turn"
        /\ UNCHANGED <<timeVars, counters, enabled, caller, oldSREG, asked, window, lag, elapsed>>
    BY <1>0, <1>3, <2>1, <2>2 DEF DelayCounts
  <2>4. TypeOK'
    BY <2>3 DEF IInv, TypeOK, timeVars, counters
  <2>5. Quiet' /\ Locals' /\ Read'
    BY <2>3 DEF Quiet, Locals, Read
  <2> QED BY <2>3, <2>4, <2>5, SketchStep
<1>4. CASE DelayReturns
  <2>1. TypeOK'
    BY <1>4 DEF IInv, TypeOK, DelayReturns, timeVars, counters
  <2>2. Quiet' /\ Locals' /\ Read'
    BY <1>4 DEF IInv, DelayReturns, Quiet, Locals, Read
  <2> QED BY <1>4, <2>1, <2>2, SketchStep DEF DelayReturns
<1>5. CASE Switch
  <2>1. enabled' \in BOOLEAN
    BY <1>0, <1>5 DEF Switch
  <2>2. TypeOK'
    BY <1>5, <2>1 DEF IInv, TypeOK, Switch, timeVars, counters
  <2>3. Quiet' /\ Locals' /\ Read'
    BY <1>5 DEF Switch, Quiet, Locals, Read
  <2> QED BY <1>5, <2>2, <2>3, SketchStep DEF Switch
<1> QED BY <1>1, <1>2, <1>3, <1>4, <1>5

LEMMA NextClock == IInv /\ [Next]_vars => IInv'
<1> SUFFICES ASSUME IInv, [Next]_vars PROVE IInv'
  OBVIOUS
<1>1. CASE UNCHANGED vars
  BY <1>1 DEF vars, timeVars, counters, localVars, delayVars, IInv, TypeOK, Quiet, InTime,
     Locals, Drift, Now, Read, Time, Pending
<1>2. CASE Next
  BY <1>2, TickStep, OverflowStep, MillisSteps, MicrosSteps, DelaySteps DEF Next, Calls, Step
<1> QED BY <1>1, <1>2
-----------------------------------------------------------------------------
(* What follows *)

\* Every variable of the time base and of a call under way stays in range.
THEOREM TypeCorrect == Spec => []TypeOK
<1>1. IInv => TypeOK
  BY DEF IInv
<1> QED BY <1>1, InitClock, NextClock, PTL DEF Spec

\* millis() counts the overflows of the timer without drift for every prescaler and
\* timer length: what the handler keeps and what is pending add up to them.
THEOREM MillisExact == Spec => []NoDrift
<1>1. IInv => NoDrift
  BY DEF IInv, Drift, NoDrift, K, D
<1> QED BY <1>1, InitClock, NextClock, PTL DEF Spec

\* micros() returns the time at which it read the timer.
LEMMA FlagStep == ASSUME IInv, TestFlag PROVE Micros' = readAt
<1> USE ConstantTypes
<1> DEFINE b == IF tov /\ t < Top - 1 THEN 1 ELSE 0
<1>1. m \in Nat /\ t \in Nat /\ m < Wrap /\ b \in 0 .. 1
  BY DEF IInv, TypeOK
<1>2. m' = (m + b) % Wrap /\ t' = t /\ readAt = Time(m + b, t)
  <2>1. m' = (IF tov /\ t < Top - 1 THEN (m + 1) % Wrap ELSE m) /\ t' = t
    BY DEF TestFlag
  <2>2. m = Wrap * 0 + m /\ m + 0 = m
    BY <1>1
  <2>3. m % Wrap = m
    BY <1>1, <2>2, Unique
  <2>4. readAt = Time(m + b, t)
    BY DEF IInv, Read, TestFlag
  <2> QED BY <2>1, <2>2, <2>3, <2>4
<1> HIDE DEF b
<1>3. m + b \in Nat /\ m' \in Nat
  BY <1>1, <1>2, Range, ConstantTypes
<1>4. Micros' = Time(m', t)
  BY <1>1, <1>2, <1>3, TimeInner DEF Micros
<1> QED BY <1>1, <1>2, <1>3, <1>4, TimeWrap

\* micros() returns the very time at which it read the timer, wherever the overflow
\* falls between its three readings; millis() returns one value of its counter.
THEOREM ReadingsExact == Spec => ReadingsTrue
<1>1. ASSUME IInv, [Next]_vars
      PROVE  [/\ InMicros /\ pc' = "micros" => Micros' = readAt
              /\ MillisReturns => m = timer0_millis]_vars
  <2> USE ConstantTypes
  <2>1. ASSUME MillisReturns PROVE m = timer0_millis
    BY <1>1, <2>1 DEF IInv, Locals, MillisReturns
  <2>2. ASSUME TestFlag PROVE Micros' = readAt
    BY <1>1, <2>2, FlagStep
  <2>3. ASSUME Next, InMicros, pc' = "micros" PROVE TestFlag
    BY <2>3 DEF Next, Calls, Step, Tick, Overflow, Switch, CallMillis, CallMicros, CallDelay,
       ReadLow, ReadHigh, MillisReturns, ReadCount, ReadTimer, MicrosReturns, DelayStarts,
       DelayTurn, DelayCounts, DelayReturns, InMicros
  <2> QED BY <1>1, <2>1, <2>2, <2>3
<1> QED BY <1>1, InitClock, NextClock, PTL DEF Spec, ReadingsTrue

-----------------------------------------------------------------------------
(* delay() *)

\* The low bits of a reading are those of the time.
LEMMA LowBits == ASSUME NEW x \in Nat PROVE (x % Wrap) % Wrap16 = x % Wrap16
<1> USE ConstantTypes
<1>1. PICK d \in Nat, r \in 0 .. Wrap - 1 : x = Wrap * d + r /\ x % Wrap = r
  BY DivMod
<1>2. PICK e \in Nat, z \in 0 .. Wrap16 - 1 : Wrap = Wrap16 * e + z /\ Wrap % Wrap16 = z
  BY DivMod
<1>3. Wrap = Wrap16 * e
  BY <1>2, ClockAssumption
<1>4. PICK q \in Nat : q = e * d
  OBVIOUS
<1>6. x = r + Wrap16 * q /\ r \in Nat
  BY <1>1, <1>3, <1>4
<1>5. (r + Wrap16 * q) % Wrap16 = r % Wrap16
  BY <1>4, <1>6, Multiple
<1> QED BY <1>1, <1>5, <1>6

\* A 16-bit difference is the true one, or less.
LEMMA Difference ==
  ASSUME NEW s \in 0 .. Wrap16 - 1, NEW x \in Nat, NEW l \in Nat,
         (s + x) % Wrap16 = l % Wrap16
  PROVE  ((l % Wrap16) + Wrap16 - s) % Wrap16 <= x
<1>0. Wrap16 \in Nat /\ Wrap16 > 0
  BY ConstantTypes
<1>1. PICK c \in Nat : c = Wrap16 - s
  BY <1>0
<1>2. PICK a \in Nat : a = s + x
  BY <1>0
<1>3. ((l % Wrap16) + c) % Wrap16 = (l + c) % Wrap16
  BY <1>0, InsideSum
<1>4. (a + c) % Wrap16 = (l + c) % Wrap16
  <2>1. a % Wrap16 = l % Wrap16
    BY <1>2
  <2>2. ((a % Wrap16) + c) % Wrap16 = (a + c) % Wrap16
    BY <1>0, InsideSum
  <2> QED BY <1>3, <2>1, <2>2
<1>5. a + c = x + Wrap16 * 1
  BY <1>0, <1>1, <1>2
<1>6. (x + Wrap16 * 1) % Wrap16 = x % Wrap16
  BY <1>0, Multiple
<1>7. x % Wrap16 <= x /\ l % Wrap16 \in Nat
  BY <1>0, Range
<1>8. (l % Wrap16) + Wrap16 - s = (l % Wrap16) + c
  BY <1>0, <1>1, <1>7
<1> QED BY <1>3, <1>4, <1>5, <1>6, <1>7, <1>8

\* Between the test of the flag and the use of the reading.
Exact == pc = "micros" => Micros = readAt

Saturated == elapsed > MaxDelay * Ms

\* The timer was last read at `last'.
Since(last) == now = (last + lag * TickUs) % Wrap

\* delay() has made its first reading, ...
AtStart ==
  /\ pc \in {"flag", "micros"} /\ caller = "start" /\ ms = asked
  /\ Saturated \/ (elapsed = lag * TickUs /\ Since(readAt))

\* ... or is in its loop: `extra' microseconds had passed since the last mark when
\* the timer was last read.
Marks(last, extra) ==
  /\ Since(last)
  /\ elapsed = (asked - ms) * Ms + extra + lag * TickUs
  /\ (start + extra) % Wrap16 = last % Wrap16
  /\ pc \in {"flag", "micros"} => last = readAt

InLoop ==
  /\ pc = "turn" \/ (caller = "loop" /\ pc \in {"count", "timer", "flag", "micros"})
  /\ ms <= asked
  /\ Saturated \/ \E last \in 0 .. Wrap - 1, extra \in Nat : Marks(last, extra)

DelayInv == Exact /\ (asked = 0 \/ AtStart \/ InLoop)

LEMMA InitDelay == Init => DelayInv
BY DEF Init, DelayInv, Exact

\* A tick moves the time, the lag and what has elapsed together.
LEMMA DelayTick == ASSUME IInv, DelayInv, Tick PROVE DelayInv'
<1> USE ConstantTypes
<1>1. /\ UNCHANGED <<pc, caller, ms, start, asked, m, t, readAt>> /\ now' = (now + TickUs) % Wrap
      /\ asked > 0 => lag' = lag + 1
      /\ asked > 0 /\ elapsed <= MaxDelay * Ms => elapsed' = elapsed + TickUs
      /\ Saturated => elapsed' = elapsed
  BY DEF Tick, InDelay, localVars, delayVars, Saturated, IInv, TypeOK
<1>2. Exact' /\ (Saturated => Saturated')
  BY <1>1 DEF DelayInv, Exact, Micros, Saturated
<1>3. lag \in Nat /\ lag * TickUs \in Nat /\ (lag + 1) * TickUs = lag * TickUs + TickUs
      /\ elapsed \in Nat /\ asked \in Nat /\ ms \in Nat /\ readAt \in 0 .. Wrap - 1
  BY DEF IInv, TypeOK
<1>4. ASSUME NEW last \in 0 .. Wrap - 1, Since(last), asked > 0
      PROVE  Since(last)'
  <2>1. PICK g \in Nat : g = lag * TickUs
    BY <1>3
  <2>2. last + g \in Nat
    OBVIOUS
  <2>3. (((last + g) % Wrap) + TickUs) % Wrap = (last + g + TickUs) % Wrap
    BY <2>2, InsideSum, ZenonT(60)
  <2> QED BY <1>1, <1>3, <1>4, <2>1, <2>3 DEF Since
<1>5. CASE asked = 0
  BY <1>1, <1>2, <1>5 DEF DelayInv
<1>6. CASE asked > 0 /\ AtStart
  <2>1. Saturated' \/ (elapsed' = lag' * TickUs /\ Since(readAt)')
    BY <1>1, <1>2, <1>3, <1>4, <1>6 DEF AtStart, Saturated
  <2> QED BY <1>1, <1>2, <1>6, <2>1 DEF DelayInv, AtStart, Since
<1>7. CASE asked > 0 /\ InLoop
  <2>1. CASE Saturated
    BY <1>1, <1>2, <1>7, <2>1 DEF DelayInv, InLoop
  <2>2. CASE ~Saturated
    <3>1. PICK last \in 0 .. Wrap - 1, extra \in Nat : Marks(last, extra)
      BY <1>7, <2>2 DEF InLoop
    <3>2. Since(last)'
      BY <1>4, <1>7, <3>1 DEF Marks
    <3>3. elapsed <= MaxDelay * Ms
      BY <1>3, <2>2 DEF Saturated
    <3>4. (asked - ms) * Ms \in Int
      BY <1>3
    <3>5. elapsed' = (asked' - ms') * Ms + extra + lag' * TickUs
      BY <1>1, <1>3, <1>7, <3>1, <3>3, <3>4 DEF Marks
    <3>6. Marks(last, extra)'
      BY <1>1, <3>1, <3>2, <3>5 DEF Marks, Since
    <3> QED BY <1>1, <1>2, <1>7, <3>6 DEF DelayInv, InLoop
  <2> QED BY <2>1, <2>2
<1> QED BY <1>3, <1>5, <1>6, <1>7 DEF DelayInv

\* The timer is read: what had elapsed since the last reading is now behind it.
LEMMA DelayReads == ASSUME IInv, DelayInv, ReadTimer PROVE DelayInv'
<1> USE ConstantTypes
<1>1. /\ pc = "timer" /\ pc' = "flag" /\ readAt' = now /\ lag' = 0
      /\ UNCHANGED <<now, caller, ms, start>>
      /\ elapsed' = (IF caller = "start" THEN 0 ELSE elapsed)
      /\ asked' = (IF caller = "start" THEN ms ELSE asked)
  BY DEF ReadTimer, timeVars
<1>2. lag \in Nat /\ lag * TickUs \in Nat /\ now \in 0 .. Wrap - 1 /\ 0 * TickUs = 0
      /\ elapsed \in Nat /\ asked \in Nat /\ ms \in Nat /\ start \in 0 .. Wrap16 - 1
  BY DEF IInv, TypeOK
<1>3. now % Wrap = now
  <2>1. now = Wrap * 0 + now
    BY <1>2
  <2> QED BY <1>2, <2>1, Unique
<1>4. Since(now)'
  BY <1>1, <1>2, <1>3 DEF Since
<1>5. Exact'
  BY <1>1 DEF Exact
<1>6. CASE caller = "start"
  <2>1. elapsed' = lag' * TickUs /\ Since(readAt)' /\ ms' = asked'
    BY <1>1, <1>2, <1>3, <1>6 DEF Since
  <2> QED BY <1>1, <1>5, <1>6, <2>1 DEF DelayInv, AtStart
<1>7. CASE caller # "start" /\ asked = 0
  BY <1>1, <1>5, <1>7 DEF DelayInv
<1>8. CASE caller # "start" /\ asked > 0
  <2>1. InLoop
    BY <1>1, <1>2, <1>8 DEF DelayInv, AtStart
  <2>2. CASE Saturated
    BY <1>1, <1>5, <1>8, <2>1, <2>2 DEF DelayInv, InLoop, Saturated
  <2>3. CASE ~Saturated
    <3>1. PICK last \in 0 .. Wrap - 1, extra \in Nat : Marks(last, extra)
      BY <2>1, <2>3 DEF InLoop
    <3>10. PICK g \in Nat : g = lag * TickUs
      BY <1>2
    <3>11. PICK n \in 0 .. Wrap - 1 : n = now
      BY <1>2
    <3>2. /\ now = (last + g) % Wrap /\ elapsed = (asked - ms) * Ms + extra + g
          /\ (start + extra) % Wrap16 = last % Wrap16 /\ g \in Nat
      BY <1>2, <3>1, <3>10 DEF Marks, Since
    <3>3. (start + extra + g) % Wrap16 = (last + g) % Wrap16
      <4>1. PICK a \in Nat : a = start + extra
        BY <1>2
      <4>2. a % Wrap16 = last % Wrap16
        BY <3>2, <4>1
      <4>3. last \in Nat
        OBVIOUS
      <4>4. ((a % Wrap16) + g) % Wrap16 = (a + g) % Wrap16
        BY InsideSum
      <4>5. ((last % Wrap16) + g) % Wrap16 = (last + g) % Wrap16
        BY <4>3, InsideSum
      <4> QED BY <4>1, <4>2, <4>4, <4>5
    <3>4. (last + g) % Wrap16 = now % Wrap16
      BY <3>2, LowBits
    <3>5. extra + g \in Nat /\ start + (extra + g) = start + extra + g
      BY <1>2, <3>2
    <3>6. (asked - ms) * Ms \in Int
      BY <1>2
    <3>7. elapsed' = (asked' - ms') * Ms + (extra + g) + lag' * TickUs
      BY <1>1, <1>2, <1>8, <3>2, <3>6
    <3>8. (start' + (extra + g)) % Wrap16 = n % Wrap16
      BY <1>1, <3>3, <3>4, <3>5, <3>11
    <3>9. Marks(n, extra + g)'
      BY <1>1, <1>4, <3>7, <3>8, <3>11 DEF Marks, Since
    <3>12. ms' <= asked' /\ caller' = "loop" /\ pc' = "flag"
      BY <1>1, <1>8, <2>1 DEF InLoop
    <3> QED BY <1>5, <3>5, <3>9, <3>12 DEF DelayInv, InLoop
  <2> QED BY <2>2, <2>3
<1> QED BY <1>2, <1>6, <1>7, <1>8

\* The first reading becomes the first mark.
LEMMA DelayMarks == ASSUME IInv, DelayInv, DelayStarts PROVE DelayInv'
<1> USE ConstantTypes
<1>1. /\ pc = "micros" /\ caller = "start" /\ pc' = "turn" /\ start' = Micros % Wrap16
      /\ UNCHANGED <<now, ms, asked, lag, elapsed>>
  BY DEF DelayStarts, timeVars
<1>2. lag \in Nat /\ lag * TickUs \in Nat /\ readAt \in 0 .. Wrap - 1 /\ Micros = readAt
      /\ elapsed \in Nat /\ asked \in Nat /\ ms \in Nat
  BY <1>1 DEF IInv, TypeOK, DelayInv, Exact
<1>3. Exact'
  BY <1>1 DEF Exact
<1>4. CASE asked = 0
  BY <1>1, <1>3, <1>4 DEF DelayInv
<1>5. CASE asked > 0
  <2>1. AtStart
    BY <1>1, <1>5 DEF DelayInv, InLoop
  <2>2. CASE Saturated
    BY <1>1, <1>2, <1>3, <2>1, <2>2 DEF DelayInv, AtStart, InLoop, Saturated
  <2>3. CASE ~Saturated
    <3>1. elapsed = lag * TickUs /\ Since(readAt) /\ ms = asked
      BY <2>1, <2>3 DEF AtStart
    <3>2. ((readAt % Wrap16) + 0) % Wrap16 = (readAt + 0) % Wrap16
      BY <1>2, InsideSum
    <3>3. readAt % Wrap16 \in Nat /\ readAt + 0 = readAt
      BY <1>2, Range
    <3>4. (start' + 0) % Wrap16 = readAt % Wrap16
      BY <1>1, <1>2, <3>2, <3>3
    <3>5. elapsed' = (asked' - ms') * Ms + 0 + lag' * TickUs
      BY <1>1, <1>2, <3>1
    <3>6. (start' + 0) % Wrap16 = readAt % Wrap16 /\ Since(readAt)
      BY <3>1, <3>4
    <3>7. PICK r \in 0 .. Wrap - 1 : r = readAt
      BY <1>2
    <3>8. Marks(r, 0)'
      BY <1>1, <3>5, <3>6, <3>7 DEF Marks, Since
    <3> QED BY <1>1, <1>2, <1>3, <3>1, <3>8 DEF DelayInv, InLoop
  <2> QED BY <2>2, <2>3
<1> QED BY <1>2, <1>4, <1>5

\* A millisecond is counted only when one has passed since the last mark.
LEMMA DelayCountsOne == ASSUME IInv, DelayInv, DelayCounts PROVE DelayInv'
<1> USE ConstantTypes
<1> DEFINE difference == ((Micros % Wrap16) + Wrap16 - start) % Wrap16
<1>1. /\ pc = "micros" /\ caller = "loop" /\ pc' = "turn"
      /\ UNCHANGED <<now, asked, lag, elapsed>>
      /\ \/ difference >= Ms /\ ms' = ms - 1 /\ start' = (start + Ms) % Wrap16
         \/ UNCHANGED <<ms, start>>
  BY DEF DelayCounts, timeVars
<1>2. lag * TickUs \in Nat /\ readAt \in 0 .. Wrap - 1 /\ Micros = readAt
      /\ elapsed \in Nat /\ asked \in Nat /\ ms \in Nat /\ start \in 0 .. Wrap16 - 1
  BY <1>1 DEF IInv, TypeOK, DelayInv, Exact
<1>3. Exact'
  BY <1>1 DEF Exact
<1>4. CASE asked = 0
  BY <1>1, <1>3, <1>4 DEF DelayInv
<1>5. CASE asked > 0
  <2>1. InLoop
    BY <1>1, <1>5 DEF DelayInv, AtStart
  <2>2. ms' <= asked'
    BY <1>1, <1>2, <2>1 DEF InLoop
  <2>3. CASE Saturated
    BY <1>1, <1>3, <2>2, <2>3 DEF DelayInv, InLoop, Saturated
  <2>4. CASE ~Saturated
    <3>1. PICK last \in 0 .. Wrap - 1, extra \in Nat : Marks(last, extra)
      BY <2>1, <2>4 DEF InLoop
    <3>2. /\ Since(last) /\ elapsed = (asked - ms) * Ms + extra + lag * TickUs
          /\ (start + extra) % Wrap16 = last % Wrap16 /\ last = readAt
      BY <1>1, <3>1 DEF Marks
    <3>3. CASE UNCHANGED <<ms, start>>
      <4>1. Marks(last, extra)'
        BY <1>1, <3>2, <3>3 DEF Marks, Since
      <4> QED BY <1>1, <1>3, <2>2, <4>1 DEF DelayInv, InLoop
    <3>4. CASE difference >= Ms /\ ms' = ms - 1 /\ start' = (start + Ms) % Wrap16
      <4>1. PICK s \in 0 .. Wrap16 - 1 : s = start
        BY <1>2
      <4>2. ((last % Wrap16) + Wrap16 - s) % Wrap16 <= extra
        BY <3>2, <4>1, Difference
      <4>3. difference <= extra
        BY <1>2, <3>2, <4>1, <4>2
      <4>4. difference \in Int
        BY <1>2
      <4>5. extra - Ms \in Nat
        BY <3>4, <4>3, <4>4
      <4>6. PICK a \in Nat, rest \in Nat : a = s + Ms /\ rest = extra - Ms
        BY <4>5
      <4>7. ((a % Wrap16) + rest) % Wrap16 = (a + rest) % Wrap16
        BY InsideSum
      <4>8. (start' + rest) % Wrap16 = last % Wrap16
        BY <3>2, <3>4, <4>1, <4>6, <4>7
      <4>9. elapsed' = (asked' - ms') * Ms + rest + lag' * TickUs
        <5>1. (asked - (ms - 1)) * Ms = (asked - ms) * Ms + Ms /\ (asked - ms) * Ms \in Int
          BY <1>2
        <5> QED BY <1>1, <1>2, <3>2, <3>4, <4>6, <5>1
      <4>10. Marks(last, rest)'
        BY <1>1, <3>2, <4>8, <4>9 DEF Marks, Since
      <4> QED BY <1>1, <1>3, <2>2, <4>10 DEF DelayInv, InLoop
    <3> QED BY <1>1, <3>3, <3>4
  <2> QED BY <2>3, <2>4
<1> QED BY <1>2, <1>4, <1>5

\* The other steps: those of the loop keep the marks, the rest happen outside it.
LEMMA DelayFlag == ASSUME IInv, DelayInv, TestFlag PROVE DelayInv'
<1>1. /\ pc = "flag" /\ pc' = "micros"
      /\ UNCHANGED <<now, caller, ms, start, asked, lag, elapsed, readAt>>
  BY DEF TestFlag, timeVars, delayVars
<1>2. Exact'
  BY <1>1, FlagStep DEF Exact
<1>3. AtStart => AtStart'
  BY <1>1 DEF AtStart, Saturated, Since
<1>4. ASSUME NEW last \in 0 .. Wrap - 1, NEW extra \in Nat, Marks(last, extra), pc = "flag"
      PROVE  Marks(last, extra)'
  BY <1>1, <1>4 DEF Marks, Since
<1>5. InLoop => InLoop'
  BY <1>1, <1>4 DEF InLoop, Saturated
<1> QED BY <1>1, <1>2, <1>3, <1>5 DEF DelayInv

LEMMA DelayTurns == ASSUME IInv, DelayInv, DelayTurn \/ ReadCount PROVE DelayInv'
<1>1. /\ pc \in {"turn", "count"} /\ pc' \in {"count", "timer"}
      /\ pc = "turn" => caller' = "loop"
      /\ pc = "count" => caller' = caller
      /\ UNCHANGED <<now, ms, start, asked, lag, elapsed, readAt>>
  BY DEF DelayTurn, ReadCount, timeVars, delayVars
<1>2. Exact' /\ ~AtStart
  BY <1>1 DEF Exact, AtStart
<1>3. ASSUME NEW last \in 0 .. Wrap - 1, NEW extra \in Nat, Marks(last, extra)
      PROVE  Marks(last, extra)'
  BY <1>1, <1>3 DEF Marks, Since
<1>4. InLoop => InLoop'
  BY <1>1, <1>3 DEF InLoop, Saturated
<1> QED BY <1>1, <1>2, <1>4 DEF DelayInv

LEMMA DelayElsewhere ==
  ASSUME IInv, DelayInv,
         \/ Switch \/ Calls \/ ReadLow \/ ReadHigh \/ MillisReturns \/ MicrosReturns
         \/ DelayReturns
  PROVE  DelayInv'
<1>1. pc' # "micros"
  BY DEF Switch, Calls, CallMillis, CallMicros, CallDelay, ReadLow, ReadHigh, MillisReturns,
     MicrosReturns, DelayReturns
<1>2. asked' = 0
  <2>1. CASE DelayReturns
    BY <2>1 DEF DelayReturns
  <2>2. CASE ~DelayReturns
    <3>1. /\ pc \in {"idle", "low", "high", "millis"} \/ (pc = "micros" /\ caller = "sketch")
          /\ asked' = asked
      BY <2>2 DEF Switch, Calls, CallMillis, CallMicros, CallDelay, ReadLow, ReadHigh,
         MillisReturns, MicrosReturns, delayVars
    <3> QED BY <3>1 DEF DelayInv, AtStart, InLoop
  <2> QED BY <2>1, <2>2
<1> QED BY <1>1, <1>2 DEF DelayInv, Exact

LEMMA DelayUntouched ==
  ASSUME DelayInv,
         UNCHANGED <<pc, caller, m, t, ms, start, asked, now, lag, elapsed, readAt>>
  PROVE  DelayInv'
<1>1. ASSUME NEW last \in 0 .. Wrap - 1, NEW extra \in Nat, Marks(last, extra)
      PROVE  Marks(last, extra)'
  BY <1>1 DEF Marks, Since
<1>2. Exact' /\ (AtStart => AtStart')
  BY DEF DelayInv, Exact, Micros, AtStart, Saturated, Since
<1>3. InLoop => InLoop'
  BY <1>1 DEF InLoop, Saturated
<1> QED BY <1>2, <1>3 DEF DelayInv

LEMMA NextDelay == IInv /\ DelayInv /\ [Next]_vars => DelayInv'
<1> SUFFICES ASSUME IInv, DelayInv, [Next]_vars PROVE DelayInv'
  OBVIOUS
<1>1. CASE Tick
  BY <1>1, DelayTick
<1>2. CASE Overflow
  BY <1>2, DelayUntouched DEF Overflow, localVars, delayVars
<1>3. CASE ReadTimer
  BY <1>3, DelayReads
<1>4. CASE TestFlag
  BY <1>4, DelayFlag
<1>5. CASE DelayStarts
  BY <1>5, DelayMarks
<1>6. CASE DelayTurn \/ ReadCount
  BY <1>6, DelayTurns
<1>7. CASE DelayCounts
  BY <1>7, DelayCountsOne
<1>8. CASE \/ Switch \/ Calls \/ ReadLow \/ ReadHigh \/ MillisReturns \/ MicrosReturns
           \/ DelayReturns
  BY <1>8, DelayElsewhere
<1>9. CASE UNCHANGED vars
  BY <1>9, DelayUntouched DEF vars, timeVars, localVars, delayVars
<1> QED BY <1>1, <1>2, <1>3, <1>4, <1>5, <1>6, <1>7, <1>8, <1>9 DEF Next, Step

\* delay(n) never returns before n milliseconds have passed, although it compares
\* the low 16 bits of micros() only and the sketch may be late for every turn.
THEOREM DelayEnough == Spec => DelayNotShort
<1>1. ASSUME IInv, DelayInv, DelayReturns PROVE elapsed >= asked * Ms
  <2> USE ConstantTypes
  <2>1. pc = "turn" /\ ms = 0
    BY <1>1 DEF DelayReturns
  <2>2. lag * TickUs \in Nat /\ elapsed \in Nat /\ asked \in 0 .. MaxDelay
        /\ asked * Ms \in Nat /\ (MaxDelay - asked) * Ms >= 0
        /\ MaxDelay * Ms = (MaxDelay - asked) * Ms + asked * Ms
    BY <1>1 DEF IInv, TypeOK
  <2>3. CASE asked = 0
    BY <2>2, <2>3
  <2>4. CASE asked > 0
    <3>1. InLoop
      BY <1>1, <2>1, <2>4 DEF DelayInv, AtStart
    <3>2. CASE Saturated
      BY <2>2, <3>2 DEF Saturated
    <3>3. CASE ~Saturated
      <4>1. PICK last \in 0 .. Wrap - 1, extra \in Nat : Marks(last, extra)
        BY <3>1, <3>3 DEF InLoop
      <4>2. elapsed = asked * Ms + extra + lag * TickUs
        BY <2>1, <2>2, <4>1 DEF Marks
      <4> QED BY <2>2, <4>2
    <3> QED BY <3>2, <3>3
  <2> QED BY <2>2, <2>3, <2>4
<1>2. IInv /\ DelayInv /\ [Next]_vars => [DelayReturns => elapsed >= asked * Ms]_vars
  BY <1>1
<1> QED BY <1>2, InitClock, NextClock, InitDelay, NextDelay, PTL DEF Spec, DelayNotShort
=============================================================================
