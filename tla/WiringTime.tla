------------------------------ MODULE WiringTime ----------------------------
(***************************************************************************)
(* The clock of the Arduino library (wiring.c): timer A counts cycles and  *)
(* restarts when it reaches its compare value, the handler counts those    *)
(* restarts and adds up milliseconds, and micros, delay and                *)
(* delayMicroseconds read the two.                                         *)
(***************************************************************************)
EXTENDS Integers

CONSTANTS
  Compare,       (* TOCRA: cycles from one compare match to the next;      *)
                 (* 131072 in the program                                  *)
  CycleMod,      (* values of an unsigned int: 2^32, a multiple of Compare *)
  PerMicro,      (* cycles of a microsecond: 200                           *)
  PerMilli,      (* microseconds of a millisecond: 1000                    *)
  FractUnit,     (* microseconds of a step of timerA_fract: 8              *)
  FractMod,      (* values of an unsigned char: 2^8                        *)
  Waits,         (* the calls: [op, time], in microseconds or milliseconds *)
  MaxNow         (* bound on the cycles a behaviour lasts                  *)

MicrosPerCompare == Compare \div PerMicro
MILLIS_INC       == MicrosPerCompare \div PerMilli
FRACT_INC        == (MicrosPerCompare % PerMilli) \div FractUnit
FRACT_MAX        == PerMilli \div FractUnit

ASSUME ClockAssumption ==
  /\ {Compare, CycleMod, PerMicro, PerMilli, FractUnit, FractMod} \subseteq Nat \ {0}
  /\ CycleMod % Compare = 0 /\ PerMilli % FractUnit = 0 /\ FRACT_MAX > 0
  /\ FRACT_MAX + FRACT_INC <= FractMod
  /\ Waits \subseteq [op : {"delay", "delayMicroseconds"}, time : Nat]
  /\ MaxNow \in Nat

VARIABLES
  now,           (* cycles since init, counted without end                 *)
  tira,          (* timer A                                                *)
  match,         (* the compare match whose handler is still to run        *)
  count,         (* timerA_cmp_count, as shifted: its value in cycles      *)
  millis,        (* timerA_millis                                          *)
  fract,         (* timerA_fract                                           *)
  masked,        (* interrupts are disabled                                *)
  pc,            (* where the thread is: in micros, or between two reads   *)
  wait,          (* the call it is in                                      *)
  m,             (* micros: the count it read                              *)
  read,          (* what micros returned last                              *)
  left,          (* delay: ms                                              *)
  start,         (* delay: start, delayMicroseconds: startMicros           *)
  began,         (* measures: the cycle the call began in                  *)
  torn           (* measures: a reading of micros was not the time         *)

clock  == <<now, tira, match, count, millis, fract>>
thread == <<masked, pc, wait, m, read, left, start, began, torn>>
vars   == <<clock, thread>>

NoWait == [op |-> "none", time |-> 0]

Init ==
  /\ now = 0 /\ tira = 0 /\ match = FALSE
  /\ count = 0 /\ millis = 0 /\ fract = 0
  /\ masked = FALSE /\ pc = "idle" /\ wait = NoWait
  /\ m = 0 /\ read = 0 /\ left = 0 /\ start = 0 /\ began = 0 /\ torn = FALSE

-----------------------------------------------------------------------------
(* The timer, and its handler, which runs as soon as it may.               *)

Preempted == match /\ ~masked

(* Interrupts are never off for as long as from one match to the next.     *)
Cycle ==
  /\ now < MaxNow /\ ~Preempted
  /\ ~(match /\ tira + 1 = Compare)
  /\ now' = now + 1
  /\ IF tira + 1 = Compare THEN tira' = 0 /\ match' = TRUE
                           ELSE tira' = tira + 1 /\ UNCHANGED match
  /\ UNCHANGED <<count, millis, fract, thread>>

(* Mutant: what is over a millisecond is thrown away with it.              *)
ISR_TA_CMP_Restart ==
  /\ Preempted
  /\ match' = FALSE
  /\ count' = (count + Compare) % CycleMod
  /\ LET f == (fract + FRACT_INC) % FractMod
     IN IF f >= FRACT_MAX
        THEN fract' = 0 /\ millis' = millis + MILLIS_INC + 1
        ELSE fract' = f /\ millis' = millis + MILLIS_INC
  /\ UNCHANGED <<now, tira, thread>>

ISR_TA_CMP ==
  /\ Preempted
  /\ match' = FALSE
  /\ count' = (count + Compare) % CycleMod
  /\ LET f == (fract + FRACT_INC) % FractMod
     IN IF f >= FRACT_MAX
        THEN fract' = f - FRACT_MAX /\ millis' = millis + MILLIS_INC + 1
        ELSE fract' = f /\ millis' = millis + MILLIS_INC
  /\ UNCHANGED <<now, tira, thread>>

-----------------------------------------------------------------------------
(* micros: the count, then the timer, with interrupts disabled.            *)

Step(from) == pc = from /\ ~Preempted /\ UNCHANGED clock

Mask ==
  /\ Step("mask")
  /\ masked' = TRUE /\ pc' = "count"
  /\ UNCHANGED <<wait, m, read, left, start, began, torn>>

ReadCount ==
  /\ Step("count")
  /\ m' = count /\ pc' = "timer"
  /\ UNCHANGED <<masked, wait, read, left, start, began, torn>>

(* Whole microseconds of the cycle count, itself a number of 32 bits.      *)
Micros(cycles) == (cycles % CycleMod) \div PerMicro

ReadTimer ==
  /\ Step("timer")
  /\ read' = Micros(m + tira)
  /\ torn' = (torn \/ match \/ now \div CycleMod # began \div CycleMod)
  /\ masked' = FALSE /\ pc' = "look"
  /\ UNCHANGED <<wait, m, left, start, began>>

-----------------------------------------------------------------------------
(* The waits.  start is -1 until the call has read it.                     *)

Call ==
  /\ Step("idle")
  /\ wait' \in Waits
  /\ left' = wait'.time /\ start' = -1
  /\ began' = now /\ torn' = FALSE
  /\ pc' = "mask"
  /\ UNCHANGED <<masked, m, read>>

(* A difference of unsigned ints, at least as large as what is waited for: *)
(* what is less than start is as good as a whole round ahead of it.        *)
Reached(from, micros) == read < from \/ read - from >= micros

Begin ==
  /\ Step("look") /\ start = -1
  /\ start' = read
  /\ pc' = IF wait.op = "delay" /\ left = 0 THEN "return" ELSE "mask"
  /\ UNCHANGED <<masked, wait, m, read, left, began, torn>>

(* Mutant: start stays, so that one millisecond counts for all of them.    *)
MillisecondOverStartStays ==
  /\ Step("look") /\ start # -1 /\ wait.op = "delay"
  /\ Reached(start, PerMilli)
  /\ left' = left - 1
  /\ pc' = IF left' = 0 THEN "return" ELSE "mask"
  /\ UNCHANGED <<masked, wait, m, read, start, began, torn>>

(* delay: a millisecond is over.                                           *)
MillisecondOver ==
  /\ Step("look") /\ start # -1 /\ wait.op = "delay"
  /\ Reached(start, PerMilli)
  /\ left' = left - 1 /\ start' = start + PerMilli
  /\ pc' = IF left' = 0 THEN "return" ELSE "mask"
  /\ UNCHANGED <<masked, wait, m, read, began, torn>>

MicrosecondsOver ==
  /\ Step("look") /\ start # -1 /\ wait.op = "delayMicroseconds"
  /\ Reached(start, wait.time)
  /\ pc' = "return"
  /\ UNCHANGED <<masked, wait, m, read, left, start, began, torn>>

NotYetOver ==
  /\ Step("look") /\ start # -1
  /\ ~Reached(start, IF wait.op = "delay" THEN PerMilli ELSE wait.time)
  /\ pc' = "mask"
  /\ UNCHANGED <<masked, wait, m, read, left, start, began, torn>>

Return ==
  /\ Step("return")
  /\ pc' = "idle" /\ wait' = NoWait
  /\ left' = 0 /\ start' = 0 /\ began' = 0 /\ torn' = FALSE /\ m' = 0 /\ read' = 0
  /\ UNCHANGED masked

ThreadStep ==
  \/ Mask \/ ReadCount \/ ReadTimer \/ Call \/ Begin \/ MillisecondOver
  \/ MicrosecondsOver \/ NotYetOver \/ Return

Next == Cycle \/ ISR_TA_CMP \/ ThreadStep

Spec == Init /\ [][Next]_vars

-----------------------------------------------------------------------------
(* The cycles a call promises to last, less the part of a microsecond the  *)
(* reading cuts off.                                                       *)
Promised ==
  wait.time * PerMicro * (IF wait.op = "delay" THEN PerMilli ELSE 1) - PerMicro

Kept == pc = "return" => now - began > Promised

(* delay and delayMicroseconds return early for two reasons only: the      *)
(* cycle count wrapped under them, or the timer restarted in the few       *)
(* cycles in which micros holds interrupts off, so that it added the new   *)
(* timer to the old count.  Nothing else (a late look, a handler between   *)
(* two looks, start moved on millisecond by millisecond) makes them lose   *)
(* time (wiring.c:82, 97).                                                 *)
DelayInTime == Kept \/ torn

(* timerA_millis and timerA_fract together never run ahead of the compare  *)
(* matches they count, and lag behind them by less than a step of the      *)
(* fraction for each (7 us of 655 in the program).                         *)
Matches == (now - tira) \div Compare - (IF match THEN 1 ELSE 0)

MillisHonest ==
  LET shown == millis * PerMilli + fract * FractUnit
      lag   == Matches * MicrosPerCompare - shown
  IN fract < FRACT_MAX /\ 0 <= lag /\ lag <= Matches * (FractUnit - 1)

(* wiring.c:97 says of the argument of delay "in milisecond".              *)
DelayKept == Kept
=============================================================================
