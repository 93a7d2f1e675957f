---------------------------- MODULE FreeRtosTasks ---------------------------
(***************************************************************************)
(* tasks.c of the FreeRTOS kernel as it is configured here: preemption     *)
(* with time slicing, no vTaskSuspend (so that portMAX_DELAY is a delay    *)
(* like any other), no mutexes, no hooks.  The lists and counters of the   *)
(* kernel are one record; each operator is what a function of the kernel   *)
(* makes of it.  The modules that use this one keep pxCurrentTCB and       *)
(* uxSchedulerSuspended as variables of their own.                         *)
(*                                                                         *)
(*   ready      pxReadyTasksLists          top        uxTopReadyPriority   *)
(*   delayed    *pxDelayedTaskList         overflow   its sibling          *)
(*   wake       the value of xGenericListItem while it is in one of the    *)
(*              two, 0 otherwise                                           *)
(*   event      the event lists            pending    xPendingReadyList    *)
(*   next       xNextTaskUnblockTime       tick       xTickCount           *)
(*   overflows  xNumOfOverflows            pended     uxPendedTicks        *)
(*   yield      xYieldPending                                              *)
(***************************************************************************)
EXTENDS FreeRtosList, Integers

CONSTANTS
  Task,
  Idle,          (* the idle task, which never blocks; it is alone at its  *)
                 (* priority, so that it never yields by itself            *)
  Priority,      (* of each task; that of the idle task is 0               *)
  EventList,     (* the names of the event lists                           *)
  TickMod,       (* values of xTickCount: 2^16 in the program              *)
  OverflowMod,   (* values of xNumOfOverflows: 2^8                         *)
  PendedMod      (* values of uxPendedTicks: 2^8                           *)

ASSUME KernelAssumption ==
  /\ IsFiniteSet(Task) /\ Idle \in Task
  /\ Priority \in [Task -> Nat] /\ Priority[Idle] = 0
  /\ \A t \in Task \ {Idle} : Priority[t] > 0
  /\ TickMod \in Nat \ {0, 1} /\ {OverflowMod, PendedMod} \subseteq Nat \ {0}

MaxDelay == TickMod - 1                                 (* portMAX_DELAY   *)
Ticks    == 0..MaxDelay

(* The event item sorts by configMAX_PRIORITIES - uxPriority.              *)
TopPriority == Max({Priority[t] : t \in Task})
EventValue  == [t \in Task |-> TopPriority - Priority[t]]

(* prvAddTaskToReadyList                                                   *)
AddToReady(k, t) ==
  [k EXCEPT !.top = Max({@, Priority[t]}),
            !.ready[Priority[t]] = InsertEnd(@, t)]

(* uxListRemove of the generic item and of the event item, from whichever  *)
(* list holds them.                                                        *)
RemoveGeneric(k, t) ==
  [k EXCEPT !.ready[Priority[t]] = ListRemove(@, t),
            !.delayed = RemoveFirst(@, t),
            !.overflow = RemoveFirst(@, t), !.wake[t] = 0]

RemoveEvent(k, t) ==
  [k EXCEPT !.event = [e \in EventList |-> RemoveFirst(@[e], t)],
            !.pending = RemoveFirst(@, t)]

Unblock(k, t) == AddToReady(RemoveEvent(RemoveGeneric(k, t), t), t)

ReadyTasks(k) == {t \in Task : Contains(k.ready[Priority[t]].items, t)}

(* The state vTaskStartScheduler leaves when the tasks were created in the *)
(* given order, the idle task last, and the task it starts: the last one   *)
(* created of the highest priority.                                        *)
KernelInit(order) ==
  FoldLeft(AddToReady,
           [ready |-> [p \in 0..TopPriority |-> EmptyList], top |-> 0,
            delayed |-> <<>>, overflow |-> <<>>, wake |-> [t \in Task |-> 0],
            event |-> [e \in EventList |-> <<>>], pending |-> <<>>,
            next |-> MaxDelay, tick |-> 0, overflows |-> 0, pended |-> 0,
            yield |-> FALSE],
           Append(order, Idle))

CreationOrders == SetToSeqs(Task \ {Idle})

FirstTask(order) ==
  LET created == Append(order, Idle)
  IN created[SelectLastInSeq(created, LAMBDA t : Priority[t] = TopPriority)]

-----------------------------------------------------------------------------
(* Blocking.                                                               *)

(* Mutant: the new head of the list does not set xNextTaskUnblockTime.     *)
AddToDelayedKeepNext(k, t, wakeTime) ==
  LET wake == [k.wake EXCEPT ![t] = wakeTime]
  IN IF wakeTime < k.tick
     THEN [k EXCEPT !.wake = wake,
                    !.overflow = InsertSorted(@, t, wake)]
     ELSE [k EXCEPT !.wake = wake,
                    !.delayed = InsertSorted(@, t, wake)]

(* prvAddCurrentTaskToDelayedList, t being removed from its ready list     *)
AddToDelayed(k, t, wakeTime) ==
  LET wake == [k.wake EXCEPT ![t] = wakeTime]
  IN IF wakeTime < k.tick
     THEN [k EXCEPT !.wake = wake,
                    !.overflow = InsertSorted(@, t, wake)]
     ELSE [k EXCEPT !.wake = wake,
                    !.delayed = InsertSorted(@, t, wake),
                    !.next = IF wakeTime < @ THEN wakeTime ELSE @]

Delay(k, t, ticks) ==
  AddToDelayed(RemoveGeneric(k, t), t, (k.tick + ticks) % TickMod)

(* vTaskPlaceOnEventList                                                   *)
PlaceOnEventList(k, t, e, ticks) ==
  Delay([k EXCEPT !.event[e] = InsertSorted(@, t, EventValue)], t, ticks)

(* Mutant: nothing tells the tick that a switch is due.                    *)
RemoveFromEventListUnmarked(k, e, cur, suspended) ==
  LET t   == Head(k.event[e])
      off == RemoveEvent(k, t)
  IN IF suspended THEN [off EXCEPT !.pending = Append(@, t)]
     ELSE AddToReady(RemoveGeneric(off, t), t)

(* xTaskRemoveFromEventList, and what it returns                           *)
RemoveFromEventList(k, e, cur, suspended) ==
  LET t    == Head(k.event[e])
      off  == RemoveEvent(k, t)
      held == IF suspended THEN [off EXCEPT !.pending = Append(@, t)]
              ELSE AddToReady(RemoveGeneric(off, t), t)
  IN [held EXCEPT !.yield = @ \/ Priority[t] > Priority[cur]]

Outranks(k, e, cur) ==
  k.event[e] # <<>> /\ Priority[Head(k.event[e])] > Priority[cur]

(* Most callers look first whether anyone waits.                           *)
WakeOne(k, e, cur, suspended) ==
  IF k.event[e] = <<>> THEN k
  ELSE RemoveFromEventList(k, e, cur, suspended)

-----------------------------------------------------------------------------
(* Time.                                                                   *)

(* prvResetNextTaskUnblockTime                                             *)
ResetNextUnblock(k) ==
  [k EXCEPT !.next = IF k.delayed = <<>> THEN MaxDelay
                     ELSE k.wake[Head(k.delayed)]]

(* taskSWITCH_DELAYED_LISTS                                                *)
SwitchDelayedLists(k) ==
  ResetNextUnblock([k EXCEPT !.delayed = k.overflow, !.overflow = k.delayed,
                             !.overflows = (@ + 1) % OverflowMod])

(* The head of the delayed list, up to the first task not yet due.         *)
Expired(k) ==
  LET later == SelectInSeq(k.delayed, LAMBDA t : k.wake[t] > k.tick)
  IN IF later = 0 THEN k.delayed ELSE SubSeq(k.delayed, 1, later - 1)

(* xTaskIncrementTick, the scheduler not being suspended ...               *)
IncrementTick(k) ==
  LET now == [k EXCEPT !.tick = (@ + 1) % TickMod]
      cut == IF now.tick = 0 THEN SwitchDelayedLists(now) ELSE now
  IN IF cut.tick < cut.next THEN cut
     ELSE ResetNextUnblock(FoldLeft(Unblock, cut, Expired(cut)))

(* ... and whether it asks for a switch.                                   *)
SwitchRequired(k, cur) ==
  LET then == IncrementTick(k)
  IN \/ \E t \in ReadyTasks(then) \ ReadyTasks(k) :
          Priority[t] >= Priority[cur]
     \/ Len(then.ready[Priority[cur]].items) > 1
     \/ k.yield

(* The time since a time-out was set, as the program finds it: the two     *)
(* counts are shorter than an int and subtracted as such, so that the      *)
(* difference is below 0 when the count has wrapped in between.            *)
Elapsed(k, from) == k.tick - from.tick

(* Mutant: the time is compared with the entry time in the wrong order.    *)
TimedOutOnOverflow(k, from, ticks) ==
  \/ k.overflows # from.overflows
  \/ Elapsed(k, from) >= ticks

(* vTaskSetTimeOutState, xTaskCheckForTimeOut and the time it leaves, which *)
(* has the width of the counter again                                      *)
TimeOut(k) == [overflows |-> k.overflows, tick |-> k.tick]

TimedOut(k, from, ticks) ==
  \/ k.overflows # from.overflows /\ k.tick >= from.tick
  \/ Elapsed(k, from) >= ticks

TimeLeft(k, from, ticks) == (ticks - Elapsed(k, from)) % TickMod

(* vTaskDelayUntil: is the wake time still to come?                        *)
ShouldDelay(previous, wakeTime, now) ==
  IF now < previous THEN wakeTime < previous /\ wakeTime > now
                    ELSE wakeTime < previous \/ wakeTime > now

-----------------------------------------------------------------------------
(* Scheduling.                                                             *)

(* vTaskSwitchContext, the scheduler not being suspended: what is left of  *)
(* the kernel's state, and the task chosen.                                *)
Highest(k) == Max({p \in 0..k.top : k.ready[p].items # <<>>})

SwitchContext(k) ==
  [k EXCEPT !.top = Highest(k), !.ready[Highest(k)] = Advance(@),
            !.yield = FALSE]

Chosen(k) ==
  LET list == SwitchContext(k).ready[Highest(k)] IN list.items[list.index]

(* Mutant: the ticks that were held back count as one.                     *)
ReleaseOneTick(k, cur) ==
  IF k.pended = 0 THEN k
  ELSE [IncrementTick(k) EXCEPT !.yield = SwitchRequired(k, cur), !.pended = 0]

(* xTaskResumeAll when it ends the suspension, up to its yield             *)
ReleasePending(k, cur) ==
  FoldLeft(LAMBDA s, t :
             [Unblock(s, t) EXCEPT !.yield = @ \/ Priority[t] >= Priority[cur]],
           k, k.pending)

ReleaseTicks(k, cur) ==
  [FoldLeft(LAMBDA s, i :
              [IncrementTick(s) EXCEPT !.yield = SwitchRequired(s, cur)],
            k, [i \in 1..k.pended |-> i])
   EXCEPT !.pended = 0]

ResumeAll(k, cur) == ReleaseTicks(ReleasePending(k, cur), cur)

-----------------------------------------------------------------------------
(* What the lists of the kernel must look like between two steps.          *)

Distinct(s) == Len(s) = Cardinality(ToSet(s))

Sorted(s, key) == \A i \in 1..(Len(s) - 1) : key[s[i]] <= key[s[i + 1]]

(* Every task that lives is in one list by its generic item, and every     *)
(* task in one by its event item at most; the lists are in order and no    *)
(* walk stands beyond its end.                                             *)
ListsConsistent(k, alive) ==
  /\ \A p \in 0..TopPriority :
       /\ Distinct(k.ready[p].items) /\ k.ready[p].index <= Len(k.ready[p].items)
       /\ k.ready[p].items # <<>> => p <= k.top
  /\ Distinct(k.delayed) /\ Sorted(k.delayed, k.wake)
  /\ Distinct(k.overflow) /\ Sorted(k.overflow, k.wake)
  /\ LET lists == <<ReadyTasks(k), ToSet(k.delayed), ToSet(k.overflow)>>
     IN /\ UNION ToSet(lists) = alive
        /\ \A i, j \in 1..3 : i # j => lists[i] \cap lists[j] = {}
  /\ Distinct(k.pending)
  /\ \A e \in EventList :
       /\ Distinct(k.event[e]) /\ Sorted(k.event[e], EventValue)
       /\ ToSet(k.event[e]) \cap ToSet(k.pending) = {}

(* No sleeper is forgotten: those of this round are still to come, or due  *)
(* for some, and then the next tick wakes them; the next look at the list  *)
(* is not after the first of them; those of the next round wait for the    *)
(* wrap.                                                                   *)
NoOverdueSleeper(k, due) ==
  /\ \A t \in ToSet(k.delayed) :
       /\ k.next <= k.wake[t]
       /\ \/ k.tick < k.wake[t]
          \/ t \in due /\ k.tick = k.wake[t] /\ k.tick < MaxDelay
  /\ \A t \in ToSet(k.overflow) : k.wake[t] < k.tick
=============================================================================
