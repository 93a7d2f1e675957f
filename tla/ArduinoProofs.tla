---------------------------- MODULE ArduinoProofs ---------------------------
(***************************************************************************)
(* Theorems about the two parts of the Arduino library: WiringTime, for    *)
(* every clock, compare value and call, and ArduinoPins, for every set of  *)
(* pins, every sketch and every precision of the PWM.                      *)
(***************************************************************************)
EXTENDS WiringTime, ArduinoPins, FiniteSetTheorems, TLAPS

-----------------------------------------------------------------------------
(* WiringTime.                                                             *)

(* Arithmetic.                                                             *)
LEMMA DivMod ==
  ASSUME NEW a \in Nat, NEW n \in Nat \ {0}
  PROVE  /\ a \div n \in Nat /\ a % n \in 0..(n - 1)
         /\ a = (a \div n) * n + (a % n)
  OBVIOUS

LEMMA DivPlus ==
  ASSUME NEW a \in Nat, NEW n \in Nat \ {0}
  PROVE  (a + n) \div n = (a \div n) + 1
  OBVIOUS

LEMMA Distributes ==
  ASSUME NEW x \in Int, NEW y \in Int, NEW z \in Int
  PROVE  (x + y) * z = x * z + y * z /\ x * z \in Int
  OBVIOUS

LEMMA Cancels ==
  ASSUME NEW x \in Nat, NEW y \in Nat, NEW z \in Nat \ {0}, x * z < y * z
  PROVE  x < y
  OBVIOUS

LEMMA LessUnchanged ==
  ASSUME NEW n \in Nat \ {0}, NEW a \in 0..(n - 1)
  PROVE  a % n = a
  OBVIOUS

(* What the handler leaves out of the time of one compare match.           *)
Dropped == (MicrosPerCompare % PerMilli) % FractUnit

LEMMA Fractions ==
  /\ MicrosPerCompare \in Nat /\ MILLIS_INC \in Nat /\ FRACT_INC \in Nat
  /\ FRACT_MAX \in Nat \ {0} /\ FRACT_INC < FRACT_MAX
  /\ Dropped \in 0..(FractUnit - 1)
  /\ MicrosPerCompare = MILLIS_INC * PerMilli + FRACT_INC * FractUnit + Dropped
  /\ PerMilli = FRACT_MAX * FractUnit
<1>1. /\ Compare \in Nat /\ PerMicro \in Nat \ {0} /\ PerMilli \in Nat \ {0}
      /\ FractUnit \in Nat \ {0} /\ FRACT_MAX > 0 /\ PerMilli % FractUnit = 0
  BY ClockAssumption
<1>2. MicrosPerCompare \in Nat
  BY <1>1, DivMod DEF MicrosPerCompare
<1> DEFINE rest == MicrosPerCompare % PerMilli
<1>3. /\ MILLIS_INC \in Nat /\ rest \in 0..(PerMilli - 1)
      /\ MicrosPerCompare = MILLIS_INC * PerMilli + rest
  BY <1>1, <1>2, DivMod DEF MILLIS_INC
<1>4. rest \in Nat /\ rest < PerMilli
  BY <1>1, <1>3
<1> HIDE DEF rest
<1>5. /\ rest \div FractUnit \in Nat /\ rest % FractUnit \in 0..(FractUnit - 1)
      /\ rest = (rest \div FractUnit) * FractUnit + (rest % FractUnit)
  BY <1>1, <1>4, DivMod
<1>6. FRACT_INC = rest \div FractUnit /\ Dropped = rest % FractUnit
  BY DEF FRACT_INC, Dropped, rest
<1>7. /\ FRACT_MAX \in Nat
      /\ PerMilli = FRACT_MAX * FractUnit + (PerMilli % FractUnit)
  BY <1>1, DivMod DEF FRACT_MAX
<1>8. PerMilli = FRACT_MAX * FractUnit
  BY <1>1, <1>7
<1>9. FRACT_INC * FractUnit < FRACT_MAX * FractUnit
  BY <1>1, <1>4, <1>5, <1>6, <1>8
<1> QED
  BY <1>1, <1>2, <1>3, <1>5, <1>6, <1>7, <1>8, <1>9, Cancels

-----------------------------------------------------------------------------
(* The timer restarts every Compare cycles, and the two counters lag behind*)
(* its restarts by what the handler drops of each.                         *)

Shown == millis * PerMilli + fract * FractUnit

Lag == Matches * MicrosPerCompare - Shown

Timer == now \in Nat /\ tira \in 0..now /\ match \in BOOLEAN

Counters == millis \in Nat /\ fract \in Nat

Honest == fract < FRACT_MAX /\ 0 <= Lag /\ Lag <= Matches * (FractUnit - 1)

ClockInv == Timer /\ Counters /\ Honest

LEMMA MatchesCounted == ASSUME Timer PROVE Matches \in Int
<1> DEFINE d == now - tira
<1>1. d \in Nat
  BY DEF Timer
<1> HIDE DEF d
<1>2. d \div Compare \in Nat
  BY <1>1, DivMod, ClockAssumption
<1> QED
  BY <1>2 DEF Matches, Timer, d

(* One more match handled makes the lag larger by what the handler drops.  *)
LEMMA OneMore ==
  ASSUME NEW k \in Int, NEW s \in Int, NEW t \in Int,
         0 <= k * MicrosPerCompare - s,
         k * MicrosPerCompare - s <= k * (FractUnit - 1),
         t = s + MicrosPerCompare - Dropped
  PROVE  /\ 0 <= (k + 1) * MicrosPerCompare - t
         /\ (k + 1) * MicrosPerCompare - t <= (k + 1) * (FractUnit - 1)
<1> DEFINE w == MicrosPerCompare
           u == FractUnit - 1
           d == Dropped
           kw == k * w
           ku == k * u
<1>1. w \in Int /\ u \in Int /\ d \in Int /\ 0 <= d /\ d <= u
  BY Fractions, ClockAssumption
<1>2. 0 <= kw - s /\ kw - s <= ku /\ t = s + w - d
  OBVIOUS
<1> HIDE DEF w, u, d
<1>3. (k + 1) * w = kw + w /\ (k + 1) * u = ku + u /\ kw \in Int /\ ku \in Int
  BY <1>1, Distributes
<1> HIDE DEF kw, ku
<1>4. 0 <= (kw + w) - t /\ (kw + w) - t <= ku + u
  BY <1>1, <1>2, <1>3
<1> QED
  BY <1>3, <1>4 DEF w, u

(* The handler adds a whole match less what it drops, with and without a   *)
(* carry into the milliseconds.                                            *)
LEMMA HandlerAdds ==
  ASSUME Counters, fract < FRACT_MAX, ISR_TA_CMP
  PROVE  /\ millis' \in Nat /\ fract' \in Nat /\ fract' < FRACT_MAX
         /\ Shown' = Shown + MicrosPerCompare - Dropped
<1> DEFINE a == MILLIS_INC * PerMilli
           b == FRACT_INC * FractUnit
           x == millis * PerMilli
           y == fract * FractUnit
           f == fract + FRACT_INC
<1>1. /\ MILLIS_INC \in Nat /\ FRACT_INC \in Nat /\ FRACT_MAX \in Nat \ {0}
      /\ FRACT_INC < FRACT_MAX /\ MicrosPerCompare = a + b + Dropped
      /\ PerMilli = FRACT_MAX * FractUnit /\ Dropped \in Int
      /\ PerMilli \in Nat /\ FractUnit \in Nat /\ FractMod \in Nat \ {0}
      /\ FRACT_MAX + FRACT_INC <= FractMod /\ MicrosPerCompare \in Nat
  BY Fractions, ClockAssumption
<1>2. millis \in Nat /\ fract \in Nat
  BY DEF Counters
<1>3. f \in 0..(FractMod - 1)
  BY <1>1, <1>2
<1>4. (fract + FRACT_INC) % FractMod = f
  BY <1>1, <1>3, LessUnchanged
<1>5. a \in Int /\ b \in Int /\ x \in Int /\ y \in Int
  BY <1>1, <1>2, Distributes
<1>6. (millis + MILLIS_INC) * PerMilli = x + a /\ f * FractUnit = y + b
  BY <1>1, <1>2, Distributes
<1>7. Shown = x + y
  BY DEF Shown
<1>8. CASE f >= FRACT_MAX
  <2>1. fract' = f - FRACT_MAX /\ millis' = millis + MILLIS_INC + 1
    BY <1>4, <1>8 DEF ISR_TA_CMP
  <2>2. millis' * PerMilli = x + a + PerMilli
    BY <1>1, <1>2, <1>5, <1>6, <2>1, Distributes
  <2>3. (f - FRACT_MAX) * FractUnit + FRACT_MAX * FractUnit = f * FractUnit
        /\ (f - FRACT_MAX) * FractUnit \in Int
    <3>1. f - FRACT_MAX \in Int /\ FRACT_MAX \in Int /\ FractUnit \in Int
          /\ (f - FRACT_MAX) + FRACT_MAX = f
      BY <1>1, <1>2
    <3> DEFINE g == f - FRACT_MAX
    <3>2. g \in Int /\ g + FRACT_MAX = f
      BY <3>1
    <3> HIDE DEF g
    <3>3. (g + FRACT_MAX) * FractUnit = g * FractUnit + FRACT_MAX * FractUnit
          /\ g * FractUnit \in Int
      BY <3>1, <3>2, Distributes
    <3> QED
      BY <3>2, <3>3 DEF g
  <2>4. fract' * FractUnit + PerMilli = y + b /\ fract' * FractUnit \in Int
    BY <1>1, <1>6, <2>1, <2>3
  <2>5. Shown' = millis' * PerMilli + fract' * FractUnit
    BY DEF Shown
  <2> HIDE DEF a, b, x, y, f
  <2>6. Shown' = Shown + MicrosPerCompare - Dropped
    BY <1>1, <1>5, <1>7, <2>2, <2>4, <2>5
  <2> QED
    BY <1>1, <1>2, <1>8, <2>1, <2>6 DEF f
<1>9. CASE ~(f >= FRACT_MAX)
  <2>1. fract' = f /\ millis' = millis + MILLIS_INC
    BY <1>4, <1>9 DEF ISR_TA_CMP
  <2>2. Shown' = (x + a) + (y + b)
    BY <1>6, <2>1 DEF Shown
  <2>3. fract' \in Nat /\ millis' \in Nat /\ fract' < FRACT_MAX
    BY <1>1, <1>2, <1>9, <2>1
  <2> HIDE DEF a, b, x, y, f
  <2> QED
    BY <1>1, <1>5, <1>7, <2>2, <2>3
<1> QED
  BY <1>8, <1>9

LEMMA CycleKeepsClock == ClockInv /\ Cycle => ClockInv'
<1> SUFFICES ASSUME ClockInv, Cycle PROVE ClockInv'
  OBVIOUS
<1>1. Timer /\ Counters /\ Honest
  BY DEF ClockInv
<1>2. Timer' /\ Counters'
  <2>1. now \in Nat /\ tira \in 0..now /\ match \in BOOLEAN
    BY <1>1 DEF Timer
  <2>2. now' = now + 1
    BY DEF Cycle
  <2>3. \/ tira' = 0 /\ match' = TRUE
        \/ tira' = tira + 1 /\ match' = match
    BY DEF Cycle
  <2>4. millis' = millis /\ fract' = fract
    BY DEF Cycle
  <2>5. now' \in Nat /\ tira' \in 0..now'
    BY <2>1, <2>2, <2>3
  <2>6. match' \in BOOLEAN
    BY <2>1, <2>3
  <2> QED
    BY <1>1, <2>4, <2>5, <2>6 DEF Timer, Counters
<1>3. Matches' = Matches
  <2> DEFINE d == now - tira
  <2>1. d \in Nat /\ Compare \in Nat \ {0}
    BY <1>1, ClockAssumption DEF Timer
  <2>2. CASE tira + 1 = Compare
    <3>1. ~match /\ match' /\ now' - tira' = d + Compare
      BY <1>1, <2>1, <2>2 DEF Cycle, Timer
    <3> HIDE DEF d
    <3>2. (d + Compare) \div Compare = (d \div Compare) + 1 /\ d \div Compare \in Nat
      BY <2>1, DivPlus, DivMod
    <3> QED
      BY <3>1, <3>2 DEF Matches, d
  <2>3. CASE tira + 1 # Compare
    <3>1. match' = match /\ now' - tira' = now - tira
      BY <1>1, <2>3 DEF Cycle, Timer
    <3> QED
      BY <3>1 DEF Matches
  <2> QED
    BY <2>2, <2>3
<1>4. millis' = millis /\ fract' = fract
  BY DEF Cycle
<1>5. Lag' = Lag
  BY <1>3, <1>4 DEF Lag, Shown
<1>6. Honest'
  BY <1>1, <1>3, <1>4, <1>5 DEF Honest
<1> QED
  BY <1>2, <1>6 DEF ClockInv

LEMMA HandlerKeepsClock == ClockInv /\ ISR_TA_CMP => ClockInv'
<1> SUFFICES ASSUME ClockInv, ISR_TA_CMP PROVE ClockInv'
  OBVIOUS
<1>1. Timer /\ Counters /\ Honest
  BY DEF ClockInv
<1>2. match /\ ~match' /\ match' \in BOOLEAN /\ now' = now /\ tira' = tira
  BY DEF ISR_TA_CMP, Preempted
<1>3. Timer'
  BY <1>1, <1>2 DEF Timer
<1>4. /\ millis' \in Nat /\ fract' \in Nat /\ fract' < FRACT_MAX
      /\ Shown' = Shown + MicrosPerCompare - Dropped
  BY <1>1, HandlerAdds DEF Honest
<1>5. Matches \in Int
  BY <1>1, MatchesCounted
<1>6. Matches' = Matches + 1
  <2> DEFINE q == (now - tira) \div Compare
  <2>1. q \in Int
    <3> DEFINE d == now - tira
    <3>1. d \in Nat
      BY <1>1 DEF Timer
    <3> HIDE DEF d
    <3>2. d \div Compare \in Nat
      BY <3>1, DivMod, ClockAssumption
    <3> QED
      BY <3>2 DEF d
  <2>2. Matches' = q - 0 /\ Matches = q - 1
    BY <1>2 DEF Matches
  <2> HIDE DEF q
  <2> QED
    BY <2>1, <2>2
<1>7. /\ 0 <= Matches * MicrosPerCompare - Shown
      /\ Matches * MicrosPerCompare - Shown <= Matches * (FractUnit - 1)
  BY <1>1 DEF Honest, Lag
<1>8. Shown \in Int /\ Shown' \in Int
  <2>1. millis \in Int /\ fract \in Int /\ PerMilli \in Int /\ FractUnit \in Int
        /\ MicrosPerCompare \in Int /\ Dropped \in Int
    BY <1>1, Fractions, ClockAssumption DEF Counters
  <2>2. Shown \in Int
    BY <2>1, Distributes DEF Shown
  <2> QED
    BY <1>4, <2>1, <2>2
<1>9. /\ 0 <= (Matches + 1) * MicrosPerCompare - Shown'
      /\ (Matches + 1) * MicrosPerCompare - Shown' <= (Matches + 1) * (FractUnit - 1)
  BY <1>4, <1>5, <1>7, <1>8, OneMore
<1>10. Honest'
  BY <1>4, <1>6, <1>9 DEF Honest, Lag
<1> QED
  BY <1>3, <1>4, <1>10 DEF ClockInv, Counters

LEMMA ThreadKeepsClock == ThreadStep => UNCHANGED clock
  BY DEF ThreadStep, Step, Mask, ReadCount, ReadTimer, Call, Begin,
         MillisecondOver, MicrosecondsOver, NotYetOver, Return

LEMMA StillClock == ClockInv /\ UNCHANGED clock => ClockInv'
<1> SUFFICES ASSUME ClockInv, UNCHANGED clock PROVE ClockInv'
  OBVIOUS
<1>1. now' = now /\ tira' = tira /\ match' = match /\ millis' = millis /\ fract' = fract
  BY DEF clock
<1>2. Matches' = Matches /\ Lag' = Lag
  BY <1>1 DEF Matches, Lag, Shown
<1> QED
  BY <1>1, <1>2 DEF ClockInv, Timer, Counters, Honest

LEMMA InitClock == Init => ClockInv
<1> SUFFICES ASSUME Init PROVE ClockInv
  OBVIOUS
<1>1. now = 0 /\ tira = 0 /\ match = FALSE /\ millis = 0 /\ fract = 0
  BY DEF Init
<1>2. 0 \div Compare = 0
  BY ClockAssumption
<1>3. Matches = 0
  BY <1>1, <1>2 DEF Matches
<1>4. Shown = 0
  BY <1>1, ClockAssumption DEF Shown
<1>5. Lag = 0 /\ Matches * (FractUnit - 1) = 0
  BY <1>3, <1>4, Fractions, ClockAssumption DEF Lag
<1>6. 0 < FRACT_MAX
  BY Fractions
<1>7. Honest
  BY <1>1, <1>5, <1>6 DEF Honest
<1>8. now \in Nat /\ tira \in 0..now /\ Counters
  BY <1>1 DEF Counters
<1>9. match \in BOOLEAN
  BY <1>1
<1> QED
  BY <1>7, <1>8, <1>9 DEF ClockInv, Timer

(* timerA_millis and timerA_fract never run ahead of the compare matches   *)
(* they count and lag by less than a step of the fraction for each, for    *)
(* every compare value, resolution and sequence of calls: the carry of the *)
(* fraction loses nothing (wiring.c:49).                                   *)
THEOREM MillisNeverAhead == Spec => []MillisHonest
<1>1. Init => ClockInv
  BY InitClock
<1>2. ClockInv /\ [Next]_vars => ClockInv'
  <2> SUFFICES ASSUME ClockInv, [Next]_vars PROVE ClockInv'
    OBVIOUS
  <2>1. CASE Cycle
    BY <2>1, CycleKeepsClock
  <2>2. CASE ISR_TA_CMP
    BY <2>2, HandlerKeepsClock
  <2>3. CASE ThreadStep
    BY <2>3, ThreadKeepsClock, StillClock
  <2>4. CASE UNCHANGED vars
    BY <2>4, StillClock DEF vars
  <2> QED
    BY <2>1, <2>2, <2>3, <2>4 DEF Next
<1>3. ClockInv => MillisHonest
  BY DEF ClockInv, Honest, MillisHonest, Lag, Shown
<1> QED
  BY <1>1, <1>2, <1>3, PTL DEF Spec

-----------------------------------------------------------------------------
(* The waits.  A reading that is not torn is the time since Base, the last *)
(* wrap of the cycle count before the call, in whole microseconds.         *)

LEMMA DivUnique ==
  ASSUME NEW q \in Nat, NEW n \in Nat \ {0}, NEW s \in 0..(n - 1)
  PROVE  (q * n + s) % n = s /\ (q * n + s) \div n = q
  OBVIOUS

LEMMA ModPlus ==
  ASSUME NEW x \in Nat, NEW n \in Nat \ {0}, NEW c \in 0..n
  PROVE  ((x % n) + c) % n = (x + c) % n
<1> DEFINE q == x \div n
           r == x % n
<1>1. q \in Nat /\ r \in 0..(n - 1) /\ x = q * n + r
  BY DivMod
<1> HIDE DEF q, r
<1>2. CASE r + c < n
  <2>1. x + c = q * n + (r + c)
    BY <1>1
  <2>2. r + c \in 0..(n - 1)
    BY <1>1, <1>2
  <2>3. (x + c) % n = r + c
    BY <1>1, <2>1, <2>2, DivUnique
  <2>4. (r + c) % n = r + c
    BY <2>2, LessUnchanged
  <2> QED
    BY <2>3, <2>4 DEF r
<1>3. CASE r + c >= n
  <2>1. (q + 1) * n = q * n + n
    BY <1>1
  <2>2. x + c = (q + 1) * n + (r + c - n) /\ r + c = 1 * n + (r + c - n)
    BY <1>1, <2>1
  <2>3. r + c - n \in 0..(n - 1)
    BY <1>1, <1>3
  <2>4. (x + c) % n = r + c - n
    BY <1>1, <2>2, <2>3, DivUnique, q + 1 \in Nat
  <2>5. (r + c) % n = r + c - n
    BY <1>1, <2>2, <2>3, DivUnique, 1 \in Nat
  <2> QED
    BY <2>4, <2>5 DEF r
<1> QED
  BY <1>1, <1>2, <1>3 DEF r

LEMMA Units ==
  /\ Compare \in Nat \ {0} /\ CycleMod \in Nat \ {0} /\ PerMicro \in Nat \ {0}
  /\ PerMilli \in Nat \ {0} /\ Compare <= CycleMod
<1>1. Compare \in Nat \ {0} /\ CycleMod \in Nat \ {0} /\ CycleMod % Compare = 0
      /\ PerMicro \in Nat \ {0} /\ PerMilli \in Nat \ {0}
  BY ClockAssumption
<1>2. CASE CycleMod < Compare
  BY <1>1, <1>2, LessUnchanged, CycleMod \in 0..(Compare - 1)
<1> QED
  BY <1>1, <1>2

Uncounted == IF match THEN Compare ELSE 0

CountIsTime ==
  /\ now \in Nat /\ tira \in 0..(Compare - 1) /\ tira <= now
  /\ match \in BOOLEAN /\ Uncounted <= now - tira /\ count \in Nat
  /\ count = (now - tira - Uncounted) % CycleMod

Base == (began \div CycleMod) * CycleMod

(* What was read last is over; a reading s was made after the call began;  *)
(* what delay has taken off start by counting milliseconds.                *)
Past     == read * PerMicro <= now - Base
Since(s) == began - Base < (s + 1) * PerMicro
Credit   == IF wait.op = "delay" THEN (left - wait.time) * PerMilli ELSE 0

(* What a call that has read no torn time knows.                           *)
Knows ==
  /\ pc \in {"look", "return"} \/ start # -1 => Past
  /\ start = -1 => left = wait.time /\ (pc = "look" => Since(read))
  /\ start # -1 => start <= read /\ Since(start + Credit)
  /\ pc = "return" => start # -1 /\ IF wait.op = "delay" THEN left = 0
                                    ELSE read - start >= wait.time

Reader ==
  /\ pc \in {"idle", "mask", "count", "timer", "look", "return"}
  /\ pc \in {"count", "timer"} => masked
  /\ pc = "timer" => m = count
  /\ torn \in BOOLEAN /\ read \in Nat /\ start \in Nat \union {-1} /\ left \in Int
  /\ pc # "idle" => wait \in Waits /\ began \in Nat /\ began <= now
  /\ pc # "idle" /\ ~torn => Knows

WaitInv == CountIsTime /\ Reader

LEMMA BaseFacts ==
  ASSUME began \in Nat
  PROVE  Base \in Nat /\ Base <= began
  BY Units, DivMod DEF Base

LEMMA CyclePasses ==
  ASSUME WaitInv, Cycle
  PROVE  WaitInv'
<1> USE Units
<1>1. now' = now + 1 /\ UNCHANGED <<count, thread>>
  BY DEF Cycle
<1>2. CountIsTime'
  <2>1. CASE tira + 1 = Compare
    <3>1. ~match /\ tira' = 0 /\ match' = TRUE
      BY <2>1 DEF Cycle
    <3>2. Uncounted = 0 /\ Uncounted' = Compare
      BY <3>1 DEF Uncounted
    <3>3. now' - tira' - Uncounted' = now - tira - Uncounted
      BY <1>1, <2>1, <3>1, <3>2 DEF WaitInv, CountIsTime
    <3> QED
      BY <1>1, <2>1, <3>1, <3>2, <3>3 DEF WaitInv, CountIsTime
  <2>2. CASE tira + 1 # Compare
    <3>1. tira' = tira + 1 /\ match' = match /\ Uncounted' = Uncounted
      BY <2>2 DEF Cycle, Uncounted
    <3>2. now' - tira' = now - tira /\ tira' \in 0..(Compare - 1)
      BY <1>1, <2>2, <3>1 DEF WaitInv, CountIsTime
    <3> QED
      BY <1>1, <3>1, <3>2 DEF WaitInv, CountIsTime
  <2> QED
    BY <2>1, <2>2
<1>3. Reader'
  <2>1. began \in Nat => Base \in Nat /\ Base' = Base
    BY <1>1, BaseFacts DEF Base, thread
  <2>2. pc # "idle" /\ Knows => Knows'
    <3>1. SUFFICES ASSUME pc # "idle", Knows PROVE Knows'
      OBVIOUS
    <3>2. read * PerMicro \in Int /\ now \in Nat /\ Base \in Nat
      BY <2>1, <3>1 DEF WaitInv, Reader, CountIsTime
    <3>3. UNCHANGED <<pc, wait, read, left, start, began, Base>>
      BY <1>1, <2>1, <3>1 DEF WaitInv, Reader, thread
    <3>4. Past => Past'
      BY <1>1, <3>2, <3>3 DEF Past
    <3>5. Credit' = Credit /\ \A s : Since(s)' = Since(s)
      BY <3>3 DEF Credit, Since
    <3> QED
      BY <3>1, <3>3, <3>4, <3>5 DEF Knows
  <2> QED
    BY <1>1, <2>2 DEF WaitInv, Reader, CountIsTime, thread
<1> QED
  BY <1>2, <1>3 DEF WaitInv

LEMMA HandlerCounts ==
  ASSUME WaitInv, ISR_TA_CMP
  PROVE  WaitInv'
<1> USE Units
<1>1. /\ match /\ ~masked /\ match' = FALSE
      /\ count' = (count + Compare) % CycleMod
      /\ UNCHANGED <<now, tira, thread>>
  BY DEF ISR_TA_CMP, Preempted
<1>2. CountIsTime'
  <2> DEFINE x == now - tira - Compare
  <2>1. x \in Nat /\ count = x % CycleMod /\ x + Compare = now - tira
    BY <1>1 DEF WaitInv, CountIsTime, Uncounted
  <2>2. count' = (now - tira) % CycleMod
    BY <1>1, <2>1, ModPlus, Compare \in 0..CycleMod
  <2>3. now - tira \in Nat
    BY DEF WaitInv, CountIsTime
  <2>4. count' \in Nat
    BY <2>2, <2>3, DivMod
  <2>5. Uncounted' = 0 /\ now' - tira' - 0 = now - tira
    BY <1>1, <2>3 DEF Uncounted
  <2>6. count' = (now' - tira' - Uncounted')  % CycleMod
    BY <2>2, <2>5
  <2>7. now' \in Nat /\ tira' \in 0..(Compare - 1) /\ tira' <= now'
    BY <1>1 DEF WaitInv, CountIsTime
  <2> QED
    <3>1. Uncounted' <= now' - tira'
      BY <1>1, <2>3, <2>5
    <3>2. match' \in BOOLEAN
      BY <1>1
    <3> QED
      BY <2>4, <2>6, <2>7, <3>1, <3>2 DEF CountIsTime
<1>3. pc \notin {"count", "timer"}
  BY <1>1 DEF WaitInv, Reader
<1>4. Knows => Knows'
  BY <1>1 DEF Knows, Past, Since, Credit, Base, thread
<1>5. Reader'
  BY <1>1, <1>3, <1>4 DEF WaitInv, Reader, thread
<1> QED
  BY <1>2, <1>5 DEF WaitInv

(* A reading with no match pending is the time.                            *)
LEMMA ReadingIsTime ==
  ASSUME CountIsTime, ~match, m = count
  PROVE  Micros(m + tira) = (now % CycleMod) \div PerMicro
<1>1. m = (now - tira) % CycleMod /\ now - tira \in Nat /\ tira \in 0..CycleMod
  BY Units DEF CountIsTime, Uncounted
<1>2. (m + tira) % CycleMod = (now - tira + tira) % CycleMod
  BY <1>1, Units, ModPlus
<1>3. now - tira + tira = now
  BY DEF CountIsTime
<1> QED
  BY <1>2, <1>3 DEF Micros

LEMMA CountStands == CountIsTime /\ UNCHANGED clock => CountIsTime'
<1> SUFFICES ASSUME CountIsTime, UNCHANGED clock PROVE CountIsTime'
  OBVIOUS
<1>1. now' = now /\ tira' = tira /\ match' = match /\ count' = count
  BY DEF clock
<1>2. Uncounted' = Uncounted
  BY <1>1 DEF Uncounted
<1> QED
  BY <1>1, <1>2 DEF CountIsTime

(* What is known stays known while the thread reads the clock.             *)
LEMMA StillKnown ==
  ASSUME Knows, UNCHANGED <<now, wait, read, left, start, began>>,
         pc' \notin {"look", "return"}
  PROVE  Knows'
<1>1. Past' = Past /\ Credit' = Credit /\ \A s : Since(s)' = Since(s)
  BY DEF Past, Credit, Since, Base
<1> QED
  BY <1>1 DEF Knows

LEMMA StartReading ==
  ASSUME WaitInv, Mask \/ ReadCount
  PROVE  WaitInv'
<1>1. /\ UNCHANGED <<clock, wait, read, left, start, began, torn>>
      /\ pc \in {"mask", "count"}
      /\ (pc' = "count" /\ masked') \/ (pc' = "timer" /\ m' = count /\ masked' = masked)
      /\ pc = "count" => masked' = masked
  BY DEF Mask, ReadCount, Step
<1>2. CountIsTime'
  BY <1>1, CountStands DEF WaitInv
<1>3. Knows => Knows'
  BY <1>1, StillKnown DEF clock
<1>4. pc' = "count" \/ pc' = "timer"
  BY <1>1
<1>5. pc' \in {"count", "timer"} => masked'
  <2>1. CASE Mask
    BY <2>1 DEF Mask
  <2>2. CASE ReadCount
    BY <2>2, <1>1 DEF ReadCount, Step, WaitInv, Reader
  <2> QED
    BY <2>1, <2>2
<1>6. pc' = "timer" => m' = count'
  BY <1>1 DEF clock
<1>7. Reader'
  BY <1>1, <1>3, <1>4, <1>5, <1>6 DEF WaitInv, Reader, clock
<1> QED
  BY <1>2, <1>7 DEF WaitInv

LEMMA DivBounds ==
  ASSUME NEW a \in Nat, NEW n \in Nat \ {0}
  PROVE  (a \div n) * n <= a /\ a < (a \div n + 1) * n
<1> DEFINE q == a \div n
           r == a % n
<1>1. q \in Nat /\ r \in 0..(n - 1) /\ a = q * n + r
  BY DivMod
<1> HIDE DEF q, r
<1>2. (q + 1) * n = q * n + 1 * n /\ q * n \in Int
  BY <1>1, Distributes
<1>3. q * n <= a /\ a < (q + 1) * n
  BY <1>1, <1>2
<1> QED
  BY <1>3 DEF q

LEMMA LessAndOne ==
  ASSUME NEW s \in Nat, NEW x \in Nat, NEW y \in Nat, s <= x,
         x * PerMicro < (y + 1) * PerMicro
  PROVE  s <= y
<1>1. x < y + 1
  BY Units, Cancels, y + 1 \in Nat
<1> QED
  BY <1>1

LEMMA EndReading ==
  ASSUME WaitInv, ReadTimer
  PROVE  WaitInv'
<1> USE Units
<1>1. /\ pc = "timer" /\ pc' = "look" /\ masked' = FALSE /\ read' = Micros(m + tira)
      /\ torn' = (torn \/ match \/ now \div CycleMod # began \div CycleMod)
      /\ UNCHANGED <<clock, wait, m, left, start, began>>
  BY DEF ReadTimer, Step
<1>2. CountIsTime'
  BY <1>1, CountStands DEF WaitInv
<1>3. /\ m = count /\ m \in Nat /\ tira \in Nat /\ began \in Nat /\ began <= now
      /\ now \in Nat
  BY <1>1 DEF WaitInv, Reader, CountIsTime
<1>4. read' \in Nat
  <2>1. m + tira \in Nat
    BY <1>3
  <2>2. (m + tira) % CycleMod \in Nat
    BY <2>1, DivMod
  <2> QED
    BY <1>1, <2>2, DivMod DEF Micros
<1>5. ASSUME ~torn' PROVE Knows'
  <2>1. ~torn /\ ~match /\ now \div CycleMod = began \div CycleMod
    BY <1>1, <1>5
  <2>2. Knows
    BY <1>1, <2>1 DEF WaitInv, Reader
  <2> DEFINE t == now % CycleMod
  <2>3. t \in Nat /\ now = Base + t /\ Base \in Nat
    <3> DEFINE g == (now \div CycleMod) * CycleMod
    <3>1. now = g + t /\ t \in 0..(CycleMod - 1)
      BY <1>3, DivMod
    <3>2. g = Base /\ Base \in Nat
      BY <1>3, <2>1, BaseFacts DEF Base
    <3> HIDE DEF g, t
    <3> QED
      BY <3>1, <3>2
  <2>4. read' = t \div PerMicro
    BY <1>1, <1>3, <2>1, ReadingIsTime DEF WaitInv
  <2> HIDE DEF t
  <2>5. read' * PerMicro <= t /\ t < (read' + 1) * PerMicro
    BY <2>3, <2>4, DivBounds
  <2>6. Base' = Base /\ now' = now /\ began' = began
    BY <1>1 DEF Base, clock
  <2>7. Past'
    BY <2>3, <2>5, <2>6 DEF Past
  <2>8. Since(read)'
    <3>1. (read' + 1) * PerMicro \in Int
      BY <1>4
    <3> QED
      BY <1>3, <2>3, <2>5, <2>6, <3>1 DEF Since
  <2>9. ASSUME start # -1 PROVE start <= read'
    <3>1. start \in Nat /\ read \in Nat /\ start <= read /\ read * PerMicro <= now - Base
      BY <2>2, <2>9 DEF Knows, Past, WaitInv, Reader
    <3>2. read * PerMicro \in Int /\ (read' + 1) * PerMicro \in Int
      BY <1>4, <3>1
    <3>3. read * PerMicro < (read' + 1) * PerMicro
      <4> DEFINE a == read * PerMicro
                 b == (read' + 1) * PerMicro
      <4>1. a \in Int /\ b \in Int /\ a <= now - Base /\ t < b
        BY <2>5, <3>1, <3>2
      <4> HIDE DEF a, b
      <4>2. a < b
        BY <1>3, <2>3, <4>1
      <4> QED
        BY <4>2 DEF a, b
    <3>4. start \in Nat /\ read \in Nat /\ start <= read
      BY <3>1
    <3> QED
      BY <1>4, <3>3, <3>4, LessAndOne
  <2>10. Credit' = Credit /\ \A s : Since(s)' = Since(s)
    BY <1>1, <2>6 DEF Credit, Since
  <2> QED
    BY <1>1, <2>2, <2>7, <2>8, <2>9, <2>10 DEF Knows
<1>6. torn' \in BOOLEAN
  BY <1>1 DEF WaitInv, Reader
<1>7. Reader'
  BY <1>1, <1>4, <1>5, <1>6 DEF WaitInv, Reader, clock
<1> QED
  BY <1>2, <1>7 DEF WaitInv

LEMMA CallStarts ==
  ASSUME WaitInv, Call
  PROVE  WaitInv'
<1>1. /\ pc' = "mask" /\ wait' \in Waits /\ left' = wait'.time /\ start' = -1
      /\ began' = now /\ torn' = FALSE /\ UNCHANGED <<clock, read>>
  BY DEF Call, Step
<1>2. CountIsTime'
  BY <1>1, CountStands DEF WaitInv
<1>3. left' \in Int /\ began' \in Nat /\ began' <= now'
  BY <1>1, ClockAssumption DEF WaitInv, CountIsTime, clock
<1>4. Knows'
  BY <1>1 DEF Knows
<1>5. torn' \in BOOLEAN
  BY <1>1
<1>6. Reader'
  BY <1>1, <1>3, <1>4, <1>5 DEF WaitInv, Reader
<1> QED
  BY <1>2, <1>6 DEF WaitInv

(* The looks at a reading.                                                 *)
Look == Begin \/ MillisecondOver \/ MicrosecondsOver \/ NotYetOver

LEMMA LookKnows ==
  ASSUME WaitInv, Look, ~torn
  PROVE  Knows'
<1>1. pc = "look" /\ UNCHANGED <<clock, wait, read, began, torn>>
  BY DEF Look, Begin, MillisecondOver, MicrosecondsOver, NotYetOver, Step
<1>2. /\ Knows /\ wait \in Waits /\ read \in Nat /\ start \in Nat \union {-1}
      /\ left \in Int
  BY <1>1 DEF WaitInv, Reader
<1>3. /\ wait.op \in {"delay", "delayMicroseconds"} /\ wait.time \in Nat
      /\ PerMilli \in Nat
  BY <1>2, ClockAssumption
<1>4. Past' = Past /\ Past /\ \A s : Since(s)' = Since(s)
  BY <1>1, <1>2 DEF Past, Since, Base, Knows, clock
<1>5. CASE Begin
  <2>1. /\ start = -1 /\ start' = read /\ left' = left
        /\ pc' = IF wait.op = "delay" /\ left = 0 THEN "return" ELSE "mask"
    BY <1>5 DEF Begin
  <2>2. Since(read) /\ left = wait.time
    BY <1>1, <1>2, <2>1 DEF Knows
  <2>3. Credit' = 0
    BY <1>1, <1>3, <2>1, <2>2 DEF Credit
  <2>4. start' + Credit' = read
    BY <1>2, <2>1, <2>3
  <2>5. start' # -1 /\ start' <= read' /\ Since(start + Credit)'
    BY <1>1, <1>2, <1>4, <2>1, <2>2, <2>4 DEF Since
  <2> QED
    BY <1>1, <1>4, <2>1, <2>5 DEF Knows
<1>6. CASE MillisecondOver
  <2>1. /\ start # -1 /\ wait.op = "delay" /\ left' = left - 1
        /\ start' = start + PerMilli /\ Reached(start, PerMilli)
        /\ pc' = IF left' = 0 THEN "return" ELSE "mask"
    BY <1>6 DEF MillisecondOver
  <2>2. start \in Nat /\ start <= read /\ Since(start + Credit)
    BY <1>2, <2>1 DEF Knows
  <2>3. start' <= read /\ start' \in Nat
    BY <1>2, <1>3, <2>1, <2>2 DEF Reached
  <2>4. start' + Credit' = start + Credit
    <3>1. (left - wait.time) * PerMilli = (left' - wait.time + 1) * PerMilli
      BY <1>2, <1>3, <2>1
    <3>2. left' - wait.time \in Int
      BY <1>2, <1>3, <2>1
    <3> DEFINE d == left' - wait.time
    <3>3. (d + 1) * PerMilli = d * PerMilli + 1 * PerMilli /\ d * PerMilli \in Int
      BY <1>3, <3>2, Distributes
    <3>4. Credit = (left - wait.time) * PerMilli /\ Credit' = d * PerMilli
      BY <1>1, <2>1 DEF Credit
    <3> HIDE DEF d
    <3>5. Credit = Credit' + PerMilli /\ Credit' \in Int
      BY <1>3, <3>1, <3>3, <3>4 DEF d
    <3> QED
      BY <1>3, <2>1, <2>2, <3>5
  <2>5. Since(start + Credit)'
    BY <1>4, <2>2, <2>4, <1>1 DEF Since, Base, clock
  <2>6. start' # -1 /\ start' <= read'
    BY <1>1, <2>3
  <2> QED
    BY <1>1, <1>4, <2>1, <2>5, <2>6 DEF Knows
<1>7. CASE MicrosecondsOver
  <2>1. /\ start # -1 /\ wait.op = "delayMicroseconds" /\ UNCHANGED <<left, start>>
        /\ Reached(start, wait.time) /\ pc' = "return"
    BY <1>7 DEF MicrosecondsOver
  <2>2. start \in Nat /\ start <= read /\ Since(start + Credit)
    BY <1>2, <2>1 DEF Knows
  <2>3. read - start >= wait.time
    BY <1>2, <2>1, <2>2 DEF Reached
  <2>4. Credit' = Credit
    BY <1>1, <2>1 DEF Credit
  <2>5. Since(start + Credit)'
    BY <1>1, <2>1, <2>2, <2>4 DEF Since, Base, clock
  <2>6. wait'.op # "delay" /\ read' - start' >= wait'.time /\ start' <= read'
    BY <1>1, <2>1, <2>2, <2>3
  <2> QED
    BY <1>1, <1>4, <2>1, <2>5, <2>6 DEF Knows
<1>8. CASE NotYetOver
  <2>1. start # -1 /\ UNCHANGED <<left, start>> /\ pc' = "mask"
    BY <1>8 DEF NotYetOver
  <2> QED
    BY <1>1, <1>2, <2>1, StillKnown DEF clock
<1> QED
  BY <1>5, <1>6, <1>7, <1>8 DEF Look

LEMMA LookKeeps ==
  ASSUME WaitInv, Look
  PROVE  WaitInv'
<1>1. /\ pc = "look" /\ pc' \in {"mask", "return"}
      /\ UNCHANGED <<clock, masked, wait, read, began, torn>>
  BY DEF Look, Begin, MillisecondOver, MicrosecondsOver, NotYetOver, Step
<1>2. CountIsTime'
  BY <1>1, CountStands DEF WaitInv
<1>3. start' \in Nat \union {-1} /\ left' \in Int
  BY Units DEF Look, Begin, MillisecondOver, MicrosecondsOver, NotYetOver,
               WaitInv, Reader
<1>4. ~torn' => Knows'
  BY <1>1, LookKnows
<1>5. pc' \notin {"count", "timer"}
  BY <1>1
<1>6. Reader'
  BY <1>1, <1>3, <1>4, <1>5 DEF WaitInv, Reader, clock
<1> QED
  BY <1>2, <1>6 DEF WaitInv

LEMMA ReturnKeeps ==
  ASSUME WaitInv, Return
  PROVE  WaitInv'
<1>1. /\ pc' = "idle" /\ left' = 0 /\ start' = 0 /\ torn' = FALSE /\ read' = 0
      /\ UNCHANGED clock
  BY DEF Return, Step
<1>2. CountIsTime'
  BY <1>1, CountStands DEF WaitInv
<1>3. torn' \in BOOLEAN
  BY <1>1
<1>4. Reader'
  BY <1>1, <1>3 DEF Reader
<1> QED
  BY <1>2, <1>4 DEF WaitInv

LEMMA StillWaits == WaitInv /\ UNCHANGED vars => WaitInv'
<1> SUFFICES ASSUME WaitInv, UNCHANGED vars PROVE WaitInv'
  OBVIOUS
<1>1. UNCHANGED clock /\ UNCHANGED thread
  BY DEF vars
<1>2. CountIsTime'
  BY <1>1, CountStands DEF WaitInv
<1>3. Knows' = Knows
  BY <1>1 DEF clock, thread, Knows, Past, Since, Credit, Base
<1>4. Reader'
  BY <1>1, <1>3 DEF WaitInv, Reader, clock, thread
<1> QED
  BY <1>2, <1>4 DEF WaitInv

LEMMA InitWaits == Init => WaitInv
<1> SUFFICES ASSUME Init PROVE WaitInv
  OBVIOUS
<1>1. /\ now = 0 /\ tira = 0 /\ count = 0 /\ match = FALSE
      /\ pc = "idle" /\ start = 0 /\ left = 0 /\ read = 0 /\ torn = FALSE
  BY DEF Init
<1>2. 0 % CycleMod = 0 /\ 0 \in 0..(Compare - 1)
  BY Units
<1>3. Uncounted = 0
  BY <1>1 DEF Uncounted
<1>4. match \in BOOLEAN
  BY <1>1
<1>5. torn \in BOOLEAN
  BY <1>1
<1>6. CountIsTime
  BY <1>1, <1>2, <1>3, <1>4 DEF CountIsTime
<1>7. Reader
  BY <1>1, <1>5 DEF Reader
<1> QED
  BY <1>6, <1>7 DEF WaitInv

(* What a call that returns knows is that it has lasted.                   *)
LEMMA LastedEnough == WaitInv => DelayInTime
<1> SUFFICES ASSUME WaitInv, pc = "return", ~torn PROVE now - began > Promised
  BY DEF DelayInTime, Kept
<1>1. /\ Knows /\ wait \in Waits /\ began \in Nat /\ read \in Nat /\ now \in Nat
      /\ start \in Nat \union {-1} /\ left \in Int
  BY DEF WaitInv, Reader, CountIsTime
<1>2. /\ wait.op \in {"delay", "delayMicroseconds"} /\ wait.time \in Nat
      /\ PerMilli \in Nat /\ PerMicro \in Nat
  BY <1>1, ClockAssumption
<1>3. start \in Nat /\ start <= read /\ Since(start + Credit) /\ Past
  BY <1>1 DEF Knows
<1> DEFINE due == IF wait.op = "delay" THEN wait.time * PerMilli ELSE wait.time
<1>4. due \in Nat /\ start + Credit <= read - due /\ Credit \in Int
  <2>1. CASE wait.op = "delay"
    <3>1. left = 0
      BY <1>1, <2>1 DEF Knows
    <3>2. wait.time * PerMilli \in Nat
      BY <1>2
    <3>3. (0 - wait.time) * PerMilli = 0 - wait.time * PerMilli
      BY <1>2
    <3>4. Credit = 0 - wait.time * PerMilli
      BY <2>1, <3>1, <3>3 DEF Credit
    <3> HIDE DEF Credit
    <3> QED
      BY <1>1, <1>3, <2>1, <3>2, <3>4
  <2>2. CASE wait.op # "delay"
    <3>1. read - start >= wait.time
      BY <1>1, <2>2 DEF Knows
    <3> QED
      BY <1>1, <1>2, <1>3, <2>2, <3>1 DEF Credit
  <2> QED
    BY <2>1, <2>2
<1>5. Promised = due * PerMicro - PerMicro
  <2>1. wait.time * PerMicro * PerMilli = wait.time * PerMilli * PerMicro
    BY <1>2
  <2>2. wait.time * PerMicro * 1 = wait.time * PerMicro
    BY <1>2
  <2> QED
    BY <2>1, <2>2 DEF Promised
<1> HIDE DEF due
<1>6. due * PerMicro \in Int /\ read * PerMicro \in Int /\ Base \in Nat
  BY <1>1, <1>2, <1>4, BaseFacts
<1>7. (start + Credit + 1) * PerMicro <= (read - due + 1) * PerMicro
      /\ (start + Credit + 1) * PerMicro \in Int
  <2> DEFINE a == start + Credit + 1
             b == read - due + 1
  <2>1. a \in Int /\ b \in Int /\ a <= b
    BY <1>1, <1>3, <1>4
  <2> HIDE DEF a, b
  <2>2. a * PerMicro <= b * PerMicro /\ a * PerMicro \in Int
    BY <1>2, <2>1
  <2> QED
    BY <2>2 DEF a, b
<1>8. (read - due + 1) * PerMicro = read * PerMicro - due * PerMicro + PerMicro
  BY <1>1, <1>2, <1>4
<1>9. began - Base < read * PerMicro - due * PerMicro + PerMicro
  <2>1. began - Base < (start + Credit + 1) * PerMicro
    BY <1>3 DEF Since
  <2> DEFINE a == (start + Credit + 1) * PerMicro
  <2>2. began - Base < a /\ a \in Int
        /\ a <= read * PerMicro - due * PerMicro + PerMicro
    BY <1>7, <1>8, <2>1
  <2> HIDE DEF a
  <2> QED
    BY <1>1, <1>2, <1>6, <2>2
<1>10. read * PerMicro <= now - Base
  BY <1>3 DEF Past
<1> QED
  BY <1>1, <1>2, <1>5, <1>6, <1>9, <1>10

(* For every clock and every sequence of calls: a delay or                 *)
(* delayMicroseconds none of whose readings was torn, by a match whose     *)
(* handler was held off or by a wrap of the cycle count, lasts all the     *)
(* time it was asked for, whatever handlers ran between its looks          *)
(* (wiring.c:82, 97).                                                      *)
THEOREM DelaysAreInTime == Spec => []DelayInTime
<1>1. Init => WaitInv
  BY InitWaits
<1>2. WaitInv /\ [Next]_vars => WaitInv'
  <2> SUFFICES ASSUME WaitInv, [Next]_vars PROVE WaitInv'
    OBVIOUS
  <2>1. CASE Cycle
    BY <2>1, CyclePasses
  <2>2. CASE ISR_TA_CMP
    BY <2>2, HandlerCounts
  <2>3. CASE Mask \/ ReadCount
    BY <2>3, StartReading
  <2>4. CASE ReadTimer
    BY <2>4, EndReading
  <2>5. CASE Call
    BY <2>5, CallStarts
  <2>6. CASE Look
    BY <2>6, LookKeeps
  <2>7. CASE Return
    BY <2>7, ReturnKeeps
  <2>8. CASE UNCHANGED vars
    BY <2>8, StillWaits
  <2> QED
    BY <2>1, <2>2, <2>3, <2>4, <2>5, <2>6, <2>7, <2>8 DEF Next, ThreadStep, Look
<1>3. WaitInv => DelayInTime
  BY LastedEnough
<1> QED
  BY <1>1, <1>2, <1>3, PTL DEF Spec

-----------------------------------------------------------------------------
(* ArduinoPins.                                                            *)

Levels == [Pin -> {LOW, HIGH}]

PC == {"idle", "direction", "test", "clear", "enable", "count", "recount",
       "handlers", "rewrite", "value", "mask", "load", "store", "unmask",
       "function", "inten", "disable", "forget"}

Typed ==
  /\ PADOUT \in Levels /\ written \in [Pin -> {-1, LOW, HIGH}]
  /\ seen \in [out : Levels, count : Int, ier : SUBSET Handlers]
  /\ enabled \subseteq Pin /\ value \in [Pin -> Nat] /\ PWM_count \in Nat
  /\ PWM_global_en \in Int /\ IER \subseteq Handlers
  /\ ie \in BOOLEAN /\ place \in PC /\ call \in sketch \cup {NoCall}
  /\ sketch \in Sketches

(* Where the sketch is tells which call it is in.                          *)
Located ==
  /\ place # "idle" => call \in sketch
  /\ place \in {"enable", "value"} => Starting
  /\ place \in {"test", "clear", "mask", "load", "store", "unmask"} =>
       ~Starting /\ call.op # "attachInterrupt"
  /\ place \in {"count", "recount"} => call.op # "attachInterrupt"
  /\ place = "direction" => call.op # "attachInterrupt"
  /\ place \in {"function", "inten"} => call.op = "attachInterrupt"

(* A pin under PWM has no written level and has been given its value       *)
(* before the period, and a pin that is being written is not under PWM.    *)
Apart ==
  /\ settled \subseteq enabled
  /\ \A p \in enabled : written[p] = -1
  /\ place \in Counting /\ ~Starting /\ call.op # "attachInterrupt" =>
       call.pin \notin enabled
  /\ place \in {"mask", "load", "store", "unmask"} => call.pin \notin enabled

(* Between the load and the store of digitalWrite nobody else runs.        *)
Atomic ==
  /\ place \in {"load", "store", "unmask"} => ie = FALSE
  /\ place = "store" => seen.out = PADOUT

Pins == Typed /\ Located /\ Apart /\ Atomic

-----------------------------------------------------------------------------
LEMMA SketchCall ==
  ASSUME sketch \in Sketches, NEW c \in sketch
  PROVE  /\ c.pin \in Pin /\ c.val \in Nat
         /\ c.op \in {"digitalWrite", "analogWrite", "digitalRead", "pinMode",
                      "attachInterrupt", "detachInterrupt"}
  BY PinsAssumption DEF Full

LEMMA QuotientNat ==
  ASSUME NEW a \in Nat, NEW b \in Nat \ {0}
  PROVE  a \div b \in Nat
  OBVIOUS

LEMMA CountWraps ==
  ASSUME NEW a \in Int
  PROVE  /\ a % CountMod \in 0..(CountMod - 1)
         /\ a \in 0..(CountMod - 1) => a % CountMod = a
<1>1. CountMod \in Nat \ {0}
  <2>1. Cardinality(Pin) \in Nat
    BY PinsAssumption, FS_CardinalityType
  <2> QED
    BY <2>1, PinsAssumption
<1> QED
  BY <1>1

LEMMA PinsInitially == PinsInit => Pins
<1> SUFFICES ASSUME PinsInit PROVE Pins
  OBVIOUS
<1>1. Typed
  BY PinsAssumption
     DEF PinsInit, Typed, Levels, PC, LOW, HIGH, NothingSeen, Handlers
<1> QED
  BY <1>1 DEF PinsInit, Pins, Located, Apart, Atomic, Counting

(* One lemma per kind of step; the handlers first.                         *)
LEMMA PinsEdge == Pins /\ Edge => Pins'
  BY DEF Pins, Typed, Located, Apart, Atomic, Starting, Edge, flow, ghosts

(* What an interrupt function changes.                                     *)
LEMMA WriteLedIs ==
  ASSUME Pins, NEW level \in {LOW, HIGH}, WriteLed(level)
  PROVE  /\ PADOUT' = [PADOUT EXCEPT ![Led] = level] /\ PADOUT' \in Levels
         /\ written' = [written EXCEPT ![Led] = level]
         /\ written' \in [Pin -> {-1, LOW, HIGH}]
         /\ enabled' = enabled \ {Led} /\ settled' = settled \ {Led}
         /\ PWM_global_en' \in Int /\ IER' \subseteq IER
         /\ Led \notin enabled => UNCHANGED <<IER, PWM_global_en>>
<1>1. (PWM_global_en - 1) % CountMod \in Int
  <2>1. PWM_global_en - 1 \in Int
    BY DEF Pins, Typed
  <2> QED
    BY <2>1, CountWraps
<1> QED
  BY <1>1, PinsAssumption DEF WriteLed, Pins, Typed, Levels, LOW, HIGH

LEMMA PinsGpio == Pins /\ ISR_GPIO => Pins'
<1> SUFFICES ASSUME Pins, ISR_GPIO PROVE Pins'
  OBVIOUS
<1> USE DEF Pins, flow
<1>1. ie = TRUE /\ UNCHANGED <<value, PWM_count, ie, sketch, call, place, seen>>
  BY DEF ISR_GPIO
<1>2. CASE UNCHANGED <<PADOUT, IER, enabled, PWM_global_en, ghosts>>
  BY <1>1, <1>2 DEF Typed, Located, Apart, Atomic, Starting, ghosts
<1>3. CASE \E level \in {LOW, HIGH} : WriteLed(level)
  <2>1. PICK level \in {LOW, HIGH} : WriteLed(level)
    BY <1>3
  <2>2. Typed'
    BY <1>1, <2>1, WriteLedIs DEF Typed
  <2>3. Located'
    BY <1>1 DEF Located, Starting
  <2>4. Apart'
    BY <1>1, <2>1, WriteLedIs DEF Apart, Typed, Starting
  <2>5. Atomic'
    BY <1>1 DEF Atomic
  <2> QED
    BY <2>2, <2>3, <2>4, <2>5
<1> QED
  BY <1>2, <1>3 DEF ISR_GPIO

LEMMA PinsTimer == Pins /\ ISR_TB_CMP => Pins'
<1> SUFFICES ASSUME Pins, ISR_TB_CMP PROVE Pins'
  OBVIOUS
<1> USE PinsAssumption DEF Pins, ISR_TB_CMP, flow
<1>1. Typed'
  BY DEF Typed, Levels, LOW, HIGH
<1>2. Located'
  BY DEF Located, Starting
<1>3. Apart'
  BY DEF Apart, Starting
<1>4. Atomic'
  BY DEF Atomic, Typed
<1> QED
  BY <1>1, <1>2, <1>3, <1>4

LEMMA PinsCall == Pins /\ CallPin => Pins'
<1> SUFFICES ASSUME Pins, CallPin PROVE Pins'
  OBVIOUS
<1> USE DEF Pins, CallPin, FirstStep, irq, ghosts
<1>1. call' \in sketch /\ place' \in {"test", "direction", "function", "disable"}
      /\ (place' = "test" => call'.op \in {"digitalWrite", "digitalRead"})
      /\ (place' = "direction" => call'.op \in {"analogWrite", "pinMode"})
      /\ (place' = "function" => call'.op = "attachInterrupt")
  BY SketchCall DEF Typed
<1>2. Typed'
  BY <1>1 DEF Typed, Levels, PC
<1>3. Located'
  BY <1>1 DEF Located, Starting
<1>4. Apart' /\ Atomic'
  BY <1>1 DEF Apart, Atomic, Counting
<1> QED
  BY <1>2, <1>3, <1>4

(* The program is in a call of its own whenever it takes a step in one.    *)
LEMMA InCall ==
  ASSUME Pins, place # "idle"
  PROVE  call \in sketch /\ call.pin \in Pin /\ call.val \in Nat
  BY SketchCall DEF Pins, Typed, Located

LEMMA Nothing == NothingSeen \in [out : Levels, count : Int, ier : SUBSET Handlers]
  BY DEF NothingSeen, Levels, LOW

(* The count in range, after the store of one more or one less.            *)
LEMMA StoredCount ==
  ASSUME Pins, StoreCount
  PROVE  PWM_global_en' \in Int
<1>1. seen.count + (IF Starting THEN 1 ELSE -1) \in Int
  BY DEF Pins, Typed
<1> QED
  BY <1>1, CountWraps DEF StoreCount

LEMMA PinsSketch == Pins /\ SketchStep => Pins'
<1> SUFFICES ASSUME Pins, SketchStep PROVE Pins'
  OBVIOUS
<1> USE InCall, Nothing, PinsAssumption
        DEF Pins, Typed, Located, Apart, Atomic, Counting, PC,
            LOW, HIGH, At, Goto, Done, irq, flow, ghosts, Handlers
<1>1. CASE SetDirection
  BY <1>1 DEF SetDirection, Starting
<1>2. CASE TestEnabled
  BY <1>2 DEF TestEnabled, TurnedOff, Starting
<1>3. CASE ClearEnabled
  BY <1>3 DEF ClearEnabled, Starting
<1>4. CASE Enable
  <2>1. Typed' /\ Atomic'
    BY <1>4 DEF Enable, Starting
  <2>2. Starting /\ Starting' /\ call.op = "analogWrite"
    BY <1>4 DEF Enable, Starting
  <2>3. Located'
    BY <1>4, <2>2 DEF Enable
  <2>4. Apart'
    BY <1>4, <2>2 DEF Enable
  <2> QED
    BY <2>1, <2>3, <2>4
<1>5. CASE LoadCount
  BY <1>5 DEF LoadCount, Starting
<1>6. CASE StoreCount
  <2>1. PWM_global_en' \in Int
    BY <1>6, StoredCount
  <2> QED
    BY <1>6, <2>1 DEF StoreCount, TurnedOff, Starting
<1>7. CASE LoadIER
  BY <1>7 DEF LoadIER, Starting
<1>8. CASE StoreIER
  BY <1>8 DEF StoreIER, TurnedOff, Starting
<1>9. CASE SetValue
  BY <1>9, QuotientNat DEF SetValue, Starting
<1>10. CASE MaskInterrupts
  BY <1>10 DEF MaskInterrupts, Starting
<1>11. CASE Load
  BY <1>11 DEF Load, Starting
<1>12. CASE Store
  BY <1>12 DEF Store, Starting, Levels
<1>13. CASE Unmask
  BY <1>13 DEF Unmask, Starting
<1>14. CASE SetFunction
  BY <1>14 DEF SetFunction, Starting
<1>15. CASE EnableInput
  BY <1>15 DEF EnableInput, Starting
<1>16. CASE DisableInput
  BY <1>16 DEF DisableInput, Starting
<1>17. CASE ForgetFunction
  BY <1>17 DEF ForgetFunction, Starting
<1>18. CASE CallPin
  BY <1>18, PinsCall
<1> QED
  BY <1>1, <1>2, <1>3, <1>4, <1>5, <1>6, <1>7, <1>8, <1>9, <1>10, <1>11, <1>12,
     <1>13, <1>14, <1>15, <1>16, <1>17, <1>18 DEF SketchStep

THEOREM PinsInvariant == PinsSpec => []Pins
<1>1. Pins /\ [PinsNext]_pinVars => Pins'
  <2>1. Pins /\ UNCHANGED pinVars => Pins'
    BY DEF pinVars, irq, flow, ghosts, Pins, Typed, Located, Apart, Atomic, Starting
  <2> QED
    BY <2>1, PinsSketch, PinsEdge, PinsGpio, PinsTimer DEF PinsNext
<1> QED
  BY PinsInitially, <1>1, PTL DEF PinsSpec

-----------------------------------------------------------------------------
(* The written levels.                                                     *)

(* A written level and the register only change together, and the store of *)
(* digitalWrite puts back what it loaded for every other pin: LevelsKept   *)
(* is kept by each step that starts with Pins.                             *)
LEMMA LevelsSketch == Pins /\ LevelsKept /\ SketchStep => LevelsKept'
<1> SUFFICES ASSUME Pins, LevelsKept, SketchStep PROVE LevelsKept'
  OBVIOUS
<1>1. CASE Enable
  BY <1>1, InCall DEF Enable, LevelsKept, Pins, Typed, At
<1>2. CASE Store
  BY <1>2, InCall, PinsAssumption
     DEF Store, LevelsKept, Pins, Typed, Atomic, Levels, At, LOW, HIGH
<1>3. CASE ~Enable /\ ~Store
  <2>1. UNCHANGED <<PADOUT, written>>
    BY <1>3 DEF SketchStep, CallPin, SetDirection, TestEnabled, ClearEnabled,
         LoadCount, StoreCount, LoadIER, StoreIER, SetValue, MaskInterrupts,
         Load, Unmask, SetFunction, EnableInput, DisableInput, ForgetFunction,
         ghosts
  <2> QED
    BY <2>1 DEF LevelsKept
<1> QED
  BY <1>1, <1>2, <1>3

LEMMA LevelsHandlers ==
  Pins /\ LevelsKept /\ (Edge \/ ISR_GPIO \/ ISR_TB_CMP) => LevelsKept'
<1> SUFFICES ASSUME Pins, LevelsKept, Edge \/ ISR_GPIO \/ ISR_TB_CMP
    PROVE LevelsKept'
  OBVIOUS
<1> USE PinsAssumption DEF Pins, Typed, Levels, LevelsKept, flow, ghosts
<1>1. CASE Edge
  BY <1>1 DEF Edge
<1>2. CASE ISR_GPIO
  <2>1. CASE UNCHANGED <<PADOUT, written>>
    BY <2>1
  <2>2. CASE \E level \in {LOW, HIGH} : WriteLed(level)
    BY <2>2, WriteLedIs
  <2> QED
    BY <1>2, <2>1, <2>2 DEF ISR_GPIO
<1>3. CASE ISR_TB_CMP
  BY <1>3 DEF ISR_TB_CMP, Apart
<1> QED
  BY <1>1, <1>2, <1>3

(* A pin keeps the level written to it last (wiring_digital.c:85), for     *)
(* every set of pins and every sketch, one that puts the pin of the        *)
(* interrupt function under PWM included: ISR_TB_CMP and the interrupt     *)
(* function, which share the register, never come between the load and the *)
(* store of digitalWrite, and no pin that was written is under PWM.        *)
THEOREM WrittenLevelsKept == PinsSpec => []LevelsKept
<1>1. PinsInit => LevelsKept
  BY DEF PinsInit, LevelsKept
<1>2. Pins /\ LevelsKept /\ [PinsNext]_pinVars => LevelsKept'
  <2>1. LevelsKept /\ UNCHANGED pinVars => LevelsKept'
    BY DEF pinVars, ghosts, LevelsKept
  <2> QED
    BY <2>1, LevelsSketch, LevelsHandlers DEF PinsNext
<1> QED
  BY <1>1, <1>2, PinsInvariant, PTL DEF PinsSpec

-----------------------------------------------------------------------------
(* The pulses.                                                             *)

LEMMA PulsesSketch == Pins /\ PulseWidth /\ SketchStep => PulseWidth'
<1> SUFFICES ASSUME Pins, PulseWidth, SketchStep PROVE PulseWidth'
  OBVIOUS
<1>1. UNCHANGED PWM_count /\ settled' \subseteq settled
  BY DEF SketchStep, CallPin, SetDirection, TestEnabled, ClearEnabled, Enable,
       LoadCount, StoreCount, LoadIER, StoreIER, SetValue, MaskInterrupts,
       Load, Store, Unmask, SetFunction, EnableInput, DisableInput,
       ForgetFunction, ghosts
<1>2. CASE SetValue
  <2>1. UNCHANGED PADOUT /\ settled' = settled \ {call.pin}
    BY <1>2 DEF SetValue
  <2>2. \A p \in Pin \ {call.pin} : value'[p] = value[p]
    BY <1>2, InCall DEF SetValue, Pins, Typed, At
  <2>3. settled' \subseteq Pin \ {call.pin}
    BY <2>1 DEF Pins, Typed, Apart
  <2> QED
    BY <1>1, <2>1, <2>2, <2>3 DEF PulseWidth
<1>3. CASE Store
  <2>1. call.pin \notin enabled /\ seen.out = PADOUT /\ call.pin \in Pin
    BY <1>3, InCall DEF Store, At, Pins, Apart, Atomic
  <2>2. UNCHANGED value /\ \A p \in Pin \ {call.pin} : PADOUT'[p] = PADOUT[p]
    BY <1>3, <2>1 DEF Store, Pins, Typed, Levels
  <2>3. settled' \subseteq Pin \ {call.pin}
    BY <1>1, <2>1 DEF Pins, Typed, Apart
  <2> QED
    BY <1>1, <2>2, <2>3 DEF PulseWidth
<1>4. CASE ~SetValue /\ ~Store
  <2>1. UNCHANGED <<PADOUT, value>>
    BY <1>4 DEF SketchStep, CallPin, SetDirection, TestEnabled, ClearEnabled,
         Enable, LoadCount, StoreCount, LoadIER, StoreIER, MaskInterrupts,
         Load, Unmask, SetFunction, EnableInput, DisableInput, ForgetFunction
  <2> QED
    BY <1>1, <2>1 DEF PulseWidth
<1> QED
  BY <1>2, <1>3, <1>4

LEMMA PulsesHandlers ==
  Pins /\ PulseWidth /\ (Edge \/ ISR_GPIO \/ ISR_TB_CMP) => PulseWidth'
<1> SUFFICES ASSUME Pins, PulseWidth, Edge \/ ISR_GPIO \/ ISR_TB_CMP
    PROVE PulseWidth'
  OBVIOUS
<1> USE PinsAssumption DEF Pins, Typed, Levels, PulseWidth, flow, ghosts
<1>1. CASE Edge
  BY <1>1 DEF Edge
<1>2. CASE ISR_GPIO
  <2>0. UNCHANGED <<value, PWM_count>>
    BY <1>2 DEF ISR_GPIO
  <2>1. CASE UNCHANGED <<PADOUT, settled>>
    BY <2>0, <2>1
  <2>2. CASE \E level \in {LOW, HIGH} : WriteLed(level)
    <3>1. /\ settled' = settled \ {Led}
          /\ \A p \in Pin \ {Led} : PADOUT'[p] = PADOUT[p]
      BY <2>2, WriteLedIs
    <3>2. settled' \subseteq Pin \ {Led}
      BY <3>1 DEF Apart
    <3> QED
      BY <2>0, <3>1, <3>2
  <2> QED
    BY <1>2, <2>1, <2>2 DEF ISR_GPIO
<1>3. CASE ISR_TB_CMP
  <2>1. UNCHANGED value
    BY <1>3 DEF ISR_TB_CMP
  <2>2. ASSUME NEW p \in settled'
        PROVE  (PADOUT'[p] = HIGH) <=> (PWM_count' <= value'[p])
    <3>1. p \in Pin /\ p \in enabled /\ value[p] \in Nat /\ value'[p] = value[p]
      BY <1>3, <2>1, <2>2 DEF ISR_TB_CMP, Apart
    <3>2. CASE PWM_count = PWM_MAX_COUNT
      BY <3>1, <3>2, <1>3 DEF ISR_TB_CMP
    <3>3. CASE PWM_count # PWM_MAX_COUNT
      <4>1. p \in settled /\ PWM_count' = PWM_count + 1
        BY <3>3, <1>3, <2>2 DEF ISR_TB_CMP
      <4>2. PADOUT'[p] = IF value[p] = PWM_count THEN LOW ELSE PADOUT[p]
        BY <3>1, <3>3, <1>3 DEF ISR_TB_CMP
      <4> QED
        BY <3>1, <4>1, <4>2 DEF LOW, HIGH
    <3> QED
      BY <3>2, <3>3
  <2> QED
    BY <2>2
<1> QED
  BY <1>1, <1>2, <1>3

(* Every pulse has the width asked for (wiring_analog.c:66), for every set *)
(* of pins, precision and sketch: a pin loses its place among those that   *)
(* are settled before anyone but ISR_TB_CMP writes it.                     *)
THEOREM PulsesKeepTheirWidth == PinsSpec => []PulseWidth
<1>1. PinsInit => PulseWidth
  BY DEF PinsInit, PulseWidth
<1>2. Pins /\ PulseWidth /\ [PinsNext]_pinVars => PulseWidth'
  <2>1. PulseWidth /\ UNCHANGED pinVars => PulseWidth'
    BY DEF pinVars, ghosts, PulseWidth
  <2> QED
    BY <2>1, PulsesSketch, PulsesHandlers DEF PinsNext
<1> QED
  BY <1>1, <1>2, PinsInvariant, PTL DEF PinsSpec
-----------------------------------------------------------------------------
(* The handler of the pulses.                                              *)

(* PWM_global_en counts the pins under PWM, one too few or one too many    *)
(* only while analogWrite or turnOffPWM is between the flag and the count; *)
(* what was loaded is still there when it is stored.                       *)
Counted ==
  /\ PWM_global_en = Cardinality(enabled)
       + (IF place \in {"count", "recount"} THEN IF Starting THEN -1 ELSE 1 ELSE 0)
  /\ place = "recount" => seen.count = PWM_global_en
  /\ place = "rewrite" => seen.ier = IER

(* The interrupt function finds no pin to turn off, the flag turnOffPWM    *)
(* tested is still set when it is cleared, and the last pin is gone when   *)
(* turnOffPWM goes for the handler.                                        *)
Alone ==
  /\ Led \notin enabled
  /\ place = "clear" => call.pin \in enabled
  /\ place \in {"handlers", "rewrite"} /\ ~Starting /\ call.op # "attachInterrupt"
     => enabled = {}

Served == Counted /\ Alone /\ PwmOn

LEMMA EnabledCount ==
  ASSUME Pins, NEW p \in Pin
  PROVE  /\ Cardinality(enabled) \in 0..(CountMod - 1)
         /\ Cardinality(enabled) = 0 <=> enabled = {}
         /\ Cardinality(enabled \cup {p}) =
              IF p \in enabled THEN Cardinality(enabled)
                               ELSE Cardinality(enabled) + 1
         /\ Cardinality(enabled \ {p}) =
              IF p \in enabled THEN Cardinality(enabled) - 1
                               ELSE Cardinality(enabled)
<1>1. /\ IsFiniteSet(enabled) /\ Cardinality(enabled) \in Nat
      /\ Cardinality(enabled) <= Cardinality(Pin) /\ Cardinality(Pin) \in Nat
  BY PinsAssumption, FS_Subset, FS_CardinalityType DEF Pins, Typed
<1>2. Cardinality(enabled) \in 0..(CountMod - 1)
  BY <1>1, PinsAssumption
<1>3. Cardinality(enabled) = 0 <=> enabled = {}
  BY <1>1, FS_EmptySet
<1>4. /\ Cardinality(enabled \cup {p}) =
           IF p \in enabled THEN Cardinality(enabled)
                            ELSE Cardinality(enabled) + 1
      /\ Cardinality(enabled \ {p}) =
           IF p \in enabled THEN Cardinality(enabled) - 1
                            ELSE Cardinality(enabled)
  BY <1>1, FS_AddElement, FS_RemoveElement
<1> QED
  BY <1>2, <1>3, <1>4

LEMMA ServedInit == PinsInit => Served
  BY FS_EmptySet DEF PinsInit, Served, Counted, Alone, PwmOn, NoCall, Starting

LEMMA ServedSketch == LedIsDigital /\ Pins /\ Served /\ SketchStep => Served'
<1> SUFFICES ASSUME LedIsDigital, Pins, Served, SketchStep PROVE Served'
  OBVIOUS
<1>0. place = "enable" => call.pin # Led /\ Starting
  BY DEF LedIsDigital, Starting, Pins, Located
<1> USE DEF Served, Counted, Alone, PwmOn, Counting, At, Goto, Done, irq, ghosts
<1>1. CASE CallPin
  <2>1. place' \in {"test", "direction", "function", "disable"}
    BY <1>1, SketchCall DEF CallPin, FirstStep, Pins, Typed
  <2>2. UNCHANGED <<PWM_global_en, enabled, IER, seen>> /\ place = "idle"
    BY <1>1 DEF CallPin
  <2> QED
    BY <2>1, <2>2
<1>2. CASE SetDirection
  BY <1>2 DEF SetDirection, Starting, NoCall, Pins, Located
<1>3. CASE TestEnabled
  BY <1>3 DEF TestEnabled, TurnedOff, Starting, NoCall
<1>4. CASE ClearEnabled
  <2>1. /\ place = "clear" /\ place' = "count" /\ ~Starting /\ ~Starting'
        /\ call.pin \in enabled /\ call.pin \in Pin
        /\ enabled' = enabled \ {call.pin}
        /\ UNCHANGED <<PWM_global_en, IER, seen, call>>
    BY <1>4, InCall DEF ClearEnabled, Pins, Located, Starting
  <2>2. ASSUME NEW p \in Pin, p \in enabled
        PROVE  Cardinality(enabled \ {p}) = Cardinality(enabled) - 1
               /\ Cardinality(enabled) \in Int
    BY <2>2, EnabledCount
  <2> QED
    BY <2>1, <2>2
<1>5. CASE Enable
  <2>1. /\ place = "enable" /\ Starting /\ Starting' /\ call.pin # Led
        /\ call.pin \in Pin /\ enabled' = enabled \cup {call.pin}
        /\ place' = IF call.pin \in enabled THEN "value" ELSE "count"
        /\ UNCHANGED <<PWM_global_en, IER, seen, call>>
    BY <1>0, <1>5, InCall DEF Enable, Starting
  <2>2. /\ Cardinality(enabled) \in Int
        /\ Cardinality(enabled') =
             IF call.pin \in enabled THEN Cardinality(enabled)
                                     ELSE Cardinality(enabled) + 1
    <3>1. PICK p \in Pin : p = call.pin
      BY <2>1
    <3>2. Cardinality(enabled) \in 0..(CountMod - 1)
      BY EnabledCount
    <3>3. Cardinality(enabled \cup {p}) =
            IF p \in enabled THEN Cardinality(enabled)
                             ELSE Cardinality(enabled) + 1
      BY EnabledCount
    <3> QED
      BY <2>1, <3>1, <3>2, <3>3
  <2>3. call.pin \in enabled => enabled' = enabled
    BY <2>1
  <2> QED
    BY <2>1, <2>2, <2>3
<1>6. CASE LoadCount
  BY <1>6 DEF LoadCount, Starting
<1>7. CASE StoreCount
  <2>1. /\ place = "recount" /\ UNCHANGED <<enabled, IER>>
        /\ PWM_global_en' = (seen.count + (IF Starting THEN 1 ELSE -1)) % CountMod
        /\ IF Starting \/ PWM_global_en' = 0 THEN Goto("handlers") ELSE TurnedOff
    BY <1>7 DEF StoreCount
  <2>2. /\ Cardinality(enabled) \in 0..(CountMod - 1)
        /\ Cardinality(enabled) = 0 <=> enabled = {}
    BY PinsAssumption, EnabledCount
  <2>3. seen.count + (IF Starting THEN 1 ELSE -1) = Cardinality(enabled)
    BY <2>1, <2>2
  <2>4. PWM_global_en' = Cardinality(enabled)
    BY <2>1, <2>2, <2>3, CountWraps
  <2>5. place' \in {"handlers", "idle", "mask"} /\ (Starting => place' = "handlers")
        /\ (place' = "handlers" => UNCHANGED call)
    BY <2>1 DEF TurnedOff
  <2>6. Counted'
    BY <2>1, <2>2, <2>4, <2>5
  <2>7. place' = "handlers" /\ ~Starting => enabled = {}
    BY <2>1, <2>2, <2>4, <2>5 DEF TurnedOff
  <2>8. Alone' /\ PwmOn'
    BY <2>1, <2>5, <2>7 DEF Starting
  <2> QED
    BY <2>6, <2>8
<1>8. CASE LoadIER
  BY <1>8 DEF LoadIER, Starting
<1>9. CASE StoreIER
  BY <1>9 DEF StoreIER, TurnedOff, Starting, NoCall
<1>10. CASE SetValue
  BY <1>10 DEF SetValue, Starting, NoCall
<1>11. CASE MaskInterrupts \/ Load \/ Store \/ Unmask
  BY <1>11 DEF MaskInterrupts, Load, Store, Unmask, Starting, NoCall
<1>12. CASE SetFunction \/ EnableInput \/ DisableInput \/ ForgetFunction
  BY <1>12 DEF SetFunction, EnableInput, DisableInput, ForgetFunction, Starting,
       NoCall, Pins, Located
<1> QED
  BY <1>1, <1>2, <1>3, <1>4, <1>5, <1>6, <1>7, <1>8, <1>9, <1>10, <1>11, <1>12
     DEF SketchStep

LEMMA ServedHandlers ==
  Pins /\ Served /\ (Edge \/ ISR_GPIO \/ ISR_TB_CMP) => Served'
<1> SUFFICES ASSUME Pins, Served, Edge \/ ISR_GPIO \/ ISR_TB_CMP PROVE Served'
  OBVIOUS
<1>1. UNCHANGED <<enabled, PWM_global_en, IER, flow>>
  <2>1. CASE Edge \/ ISR_TB_CMP
    BY <2>1 DEF Edge, ISR_TB_CMP
  <2>2. CASE ISR_GPIO
    <3>1. UNCHANGED <<enabled, PWM_global_en, IER>>
      <4>1. CASE \E level \in {LOW, HIGH} : WriteLed(level)
        BY <4>1, WriteLedIs DEF Served, Alone
      <4> QED
        BY <2>2, <4>1 DEF ISR_GPIO
    <3> QED
      BY <2>2, <3>1 DEF ISR_GPIO
  <2> QED
    BY <2>1, <2>2
<1> QED
  BY <1>1 DEF Served, Counted, Alone, PwmOn, Starting, flow

LEMMA SketchStays == PinsNext => UNCHANGED sketch
  BY DEF PinsNext, SketchStep, CallPin, SetDirection, TestEnabled, ClearEnabled,
     Enable, LoadCount, StoreCount, LoadIER, StoreIER, SetValue, MaskInterrupts,
     Load, Store, Unmask, SetFunction, EnableInput, DisableInput,
     ForgetFunction, Edge, ISR_GPIO, ISR_TB_CMP, TurnedOff, Goto, Done, flow

(* The handler of the pulses stays enabled as long as a pin is under PWM   *)
(* (wiring_analog.c:56-58, wiring_digital.c:64-68), for every set of pins  *)
(* and in every program that keeps the pin of its interrupt function out   *)
(* of the PWM.  Nothing in the library asks this of a program; without it  *)
(* both turnOffPWM, of the sketch and of the interrupt function, may see   *)
(* the flag.                                                               *)
THEOREM PwmStaysServed == PinsSpec => []PwmServed
<1> DEFINE Guarded == LedIsDigital => Served
<1>1. PinsInit => Guarded
  BY ServedInit
<1>2. Pins /\ Guarded /\ [PinsNext]_pinVars => Guarded'
  <2> SUFFICES ASSUME Pins, Guarded, [PinsNext]_pinVars, LedIsDigital'
               PROVE  Served'
    OBVIOUS
  <2>1. LedIsDigital
    BY SketchStays DEF LedIsDigital, pinVars, flow
  <2>2. Served /\ UNCHANGED pinVars => Served'
    BY DEF pinVars, flow, Served, Counted, Alone, PwmOn, Starting
  <2> QED
    BY <2>1, <2>2, ServedSketch, ServedHandlers DEF PinsNext
<1>3. Guarded => PwmServed
  BY DEF Served, PwmServed
<1> QED
  BY <1>1, <1>2, <1>3, PinsInvariant, PTL DEF PinsSpec
=============================================================================
