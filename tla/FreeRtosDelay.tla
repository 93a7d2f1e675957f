---------------------------- MODULE FreeRtosDelay ---------------------------
(***************************************************************************)
(* The calls of tasks.c by which tasks wait for time and for each other    *)
(* without a queue: vTaskDelay, vTaskDelayUntil, ulTaskNotifyTake, the     *)
(* calls that give a notification, vTaskDelete with the cleaning up of the *)
(* idle task, and a suspension of the scheduler by the application.        *)
(* Critical sections are single actions; ticks and handlers come between.  *)
(***************************************************************************)
EXTENDS FreeRtosTasks, Integers

CONSTANTS
  Applications,  (* the calls the tasks and the handlers of a program make *)
  MaxPended,     (* bound on the ticks while the scheduler is suspended    *)
  MaxNotified    (* bound on a notification count                          *)

ASSUME DelayAssumption ==
  /\ EventList = {}
  /\ \A a \in Applications :
       /\ a.asks \subseteq [task : Task \ {Idle}, ticks : Ticks,
                            op : {"delay", "until", "take", "takeAll",
                                  "suspend"}]
                           \cup [task : Task \ {Idle}, op : {"give", "delete"},
                                 to : Task \ {Idle}]
       /\ a.given \subseteq Task \ {Idle}
  /\ {MaxPended, MaxNotified} \subseteq Nat

VARIABLES
  app,           (* the application                                        *)
  kernel, cur, suspended,
  at,            (* of each task: where it is in a call, "run" outside     *)
  ask,           (* of each task: the call it is in                        *)
  notified,      (* ulNotifiedValue                                        *)
  notify,        (* eNotifyState                                           *)
  last,          (* *pxPreviousWakeTime of a periodic task                 *)
  terminated,    (* xTasksWaitingTermination                               *)
  deleted,       (* uxTasksDeleted                                         *)
  freed,         (* the tasks whose memory was given back                  *)
  owed,          (* measures: of a delay or a wait for a notification, the *)
                 (* ticks still to come until its time is over             *)
  ahead          (* measures: of a periodic task, the ticks from now to    *)
                 (* the time in last                                       *)

measures == <<owed, ahead>>
calls == <<at, ask, notified, notify, last, measures>>
dead  == <<terminated, deleted, freed>>
vars  == <<app, kernel, cur, suspended, calls, dead>>

(* The time of a periodic task that was a whole round of the tick count    *)
(* late cannot be told any more.                                           *)
Lost == -TickMod

NoAsk == [task |-> Idle, op |-> "none", ticks |-> 0]

Init ==
  /\ app \in Applications
  /\ \E order \in CreationOrders :
       kernel = KernelInit(order) /\ cur = FirstTask(order)
  /\ suspended = 0
  /\ at = [t \in Task |-> "run"] /\ ask = [t \in Task |-> NoAsk]
  /\ notified = [t \in Task |-> 0] /\ notify = [t \in Task |-> "not waiting"]
  /\ last = [t \in Task |-> 0]
  /\ owed = [t \in Task |-> 0] /\ ahead = [t \in Task |-> 0]
  /\ terminated = <<>> /\ deleted = 0 /\ freed = {}

Dead(t) == t \in freed \/ Contains(terminated, t)

-----------------------------------------------------------------------------
Switch(k)   == kernel' = SwitchContext(k) /\ cur' = Chosen(k)
Continue(k) == kernel' = k /\ UNCHANGED cur

At(pc)   == at[cur] = pc
Goto(pc) == at' = [at EXCEPT ![cur] = pc]

Periodic(t) == \E a \in app.asks : a.task = t /\ a.op = "until"

Asks(op) == At("run") /\ \E a \in app.asks :
              a.task = cur /\ a.op = op /\ ask' = [ask EXCEPT ![cur] = a]

Return ==
  /\ at' = [at EXCEPT ![cur] = "run"]
  /\ ask' = [ask EXCEPT ![cur] = NoAsk]
  /\ owed' = [owed EXCEPT ![cur] = 0]
  /\ UNCHANGED ahead

-----------------------------------------------------------------------------
(* vTaskDelay and vTaskDelayUntil; the application's own suspension is the *)
(* same with nothing done in it.                                           *)

SuspendAll ==
  /\ \/ Asks("delay") \/ Asks("until") \/ Asks("suspend")
  /\ ask'[cur].ticks > 0 \/ ask'[cur].op = "suspend"
  /\ suspended' = suspended + 1
  /\ owed' = IF ask'[cur].op = "delay"
             THEN [owed EXCEPT ![cur] = ask'[cur].ticks] ELSE owed
  /\ Goto("suspended")
  /\ UNCHANGED <<kernel, cur, notified, notify, last, ahead, dead>>

(* A delay of no time only yields.                                         *)
DelayNone ==
  /\ Asks("delay") /\ ask'[cur].ticks = 0
  /\ Goto("yield")
  /\ UNCHANGED <<kernel, cur, suspended, notified, notify, last, measures, dead>>

DelayBody ==
  /\ At("suspended") /\ ask[cur].op = "delay"
  /\ Continue(Delay(kernel, cur, ask[cur].ticks))
  /\ Goto("resume")
  /\ UNCHANGED <<suspended, ask, notified, notify, last, measures, dead>>

DelayUntilBody ==
  LET wakeTime == (last[cur] + ask[cur].ticks) % TickMod
  IN /\ At("suspended") /\ ask[cur].op = "until"
     /\ last' = [last EXCEPT ![cur] = wakeTime]
     /\ Continue(IF ShouldDelay(last[cur], wakeTime, kernel.tick)
                 THEN AddToDelayed(RemoveGeneric(kernel, cur), cur, wakeTime)
                 ELSE kernel)
     /\ ahead' = [ahead EXCEPT ![cur] = IF @ = Lost THEN @
                                        ELSE @ + ask[cur].ticks]
     /\ Goto("resume")
     /\ UNCHANGED <<suspended, ask, notified, notify, owed, dead>>

(* The calls that follow such a suspension with a yield.                   *)
Resume ==
  LET k == ResumeAll(kernel, cur)
  IN /\ \/ At("resume")
        \/ At("suspended") /\ ask[cur].op = "suspend"
     /\ suspended' = suspended - 1
     /\ IF k.yield THEN Switch(k) ELSE Continue(k)
     /\ IF k.yield \/ ask[cur].op = "suspend"
        THEN Goto("return") ELSE Goto("yield")
     /\ UNCHANGED <<ask, notified, notify, last, measures, dead>>

Yield ==
  /\ At("yield")
  /\ Switch(kernel)
  /\ Goto("return")
  /\ UNCHANGED <<suspended, ask, notified, notify, last, measures, dead>>

Finish ==
  /\ At("return")
  /\ Return
  /\ UNCHANGED <<kernel, cur, suspended, notified, notify, last, dead>>

-----------------------------------------------------------------------------
(* Notifications.                                                          *)

(* ulTaskNotifyTake, first critical section: it yields within it ...       *)
Take ==
  /\ Asks("take") \/ Asks("takeAll")
  /\ LET ticks == ask'[cur].ticks
     IN IF notified[cur] # 0
        THEN Continue(kernel) /\ UNCHANGED <<notify, owed>>
        ELSE /\ notify' = [notify EXCEPT ![cur] = "waiting"]
             /\ IF ticks = 0
                THEN Continue(kernel) /\ UNCHANGED owed
                ELSE /\ Switch(Delay(kernel, cur, ticks))
                     /\ owed' = [owed EXCEPT ![cur] = ticks]
  /\ Goto("taken")
  /\ UNCHANGED <<suspended, notified, last, ahead, dead>>

(* ... and the second.                                                     *)
Taken ==
  /\ At("taken")
  /\ notified' = [notified EXCEPT ![cur] =
                    IF @ = 0 \/ ask[cur].op = "takeAll" THEN 0 ELSE @ - 1]
  /\ notify' = [notify EXCEPT ![cur] = "not waiting"]
  /\ Return
  /\ UNCHANGED <<kernel, cur, suspended, last, dead>>

Notified(t) ==
  /\ notified[t] < MaxNotified
  /\ notified' = [notified EXCEPT ![t] = @ + 1]
  /\ notify' = [notify EXCEPT ![t] = "notified"]

(* Mutant: the task is not taken out of the list it slept in.              *)
GiveToSleeper ==
  /\ Asks("give")
  /\ LET t == ask'[cur].to
     IN /\ ~Dead(t) /\ Notified(t)
        /\ IF notify[t] # "waiting" THEN Continue(kernel)
           ELSE IF Priority[t] > Priority[cur] THEN Switch(AddToReady(kernel, t))
           ELSE Continue(AddToReady(kernel, t))
  /\ Goto("return")
  /\ UNCHANGED <<suspended, last, measures, dead>>

(* xTaskGenericNotify with eIncrement (xTaskNotifyGive)                    *)
Give ==
  /\ Asks("give")
  /\ LET t    == ask'[cur].to
         free == AddToReady(RemoveGeneric(kernel, t), t)
     IN /\ ~Dead(t) /\ Notified(t)
        /\ IF notify[t] # "waiting" THEN Continue(kernel)
           ELSE IF Priority[t] > Priority[cur] THEN Switch(free)
           ELSE Continue(free)
  /\ Goto("return")
  /\ UNCHANGED <<suspended, last, measures, dead>>

(* Mutant: nobody is woken while the scheduler is suspended.               *)
GiveFromISRSuspendedLost ==
  \E t \in app.given :
    /\ ~Dead(t) /\ Notified(t)
    /\ Continue(IF notify[t] # "waiting" \/ suspended # 0 THEN kernel
                ELSE AddToReady(RemoveGeneric(kernel, t), t))
    /\ UNCHANGED <<suspended, at, ask, last, measures, dead>>

(* vTaskNotifyGiveFromISR: whether a yield is required is told the handler *)
(* alone.                                                                  *)
GiveFromISR ==
  \E t \in app.given :
    /\ ~Dead(t) /\ Notified(t)
    /\ Continue(IF notify[t] # "waiting" THEN kernel
                ELSE IF suspended = 0
                     THEN AddToReady(RemoveGeneric(kernel, t), t)
                     ELSE [kernel EXCEPT !.pending = Append(@, t)])
    /\ UNCHANGED <<suspended, at, ask, last, measures, dead>>

-----------------------------------------------------------------------------
(* vTaskDelete, and what the idle task does about it.                      *)

(* Mutant: a task that sleeps is left in its delayed list.                 *)
DeleteReadyOnly ==
  /\ Asks("delete")
  /\ LET t == ask'[cur].to
     IN /\ ~Dead(t)
        /\ Continue([kernel EXCEPT !.ready[Priority[t]] = ListRemove(@, t)])
        /\ terminated' = Append(terminated, t)
        /\ deleted' = deleted + 1
        /\ Goto(IF t = cur THEN "yield" ELSE "deleted")
  /\ UNCHANGED <<suspended, notified, notify, last, measures, freed>>

Delete ==
  /\ Asks("delete")
  /\ LET t == ask'[cur].to
     IN /\ ~Dead(t)
        /\ Continue(RemoveEvent(RemoveGeneric(kernel, t), t))
        /\ terminated' = Append(terminated, t)
        /\ deleted' = deleted + 1
        /\ Goto(IF t = cur THEN "yield" ELSE "deleted")
  /\ UNCHANGED <<suspended, notified, notify, last, measures, freed>>

AfterDelete ==
  /\ At("deleted")
  /\ Continue(ResetNextUnblock(kernel))
  /\ Goto("return")
  /\ UNCHANGED <<suspended, ask, notified, notify, last, measures, dead>>

(* prvCheckTasksWaitingTermination                                         *)
IdleLook ==
  /\ cur = Idle /\ At("run") /\ deleted > 0
  /\ suspended' = suspended + 1
  /\ Goto("looking")
  /\ UNCHANGED <<kernel, cur, ask, notified, notify, last, measures, dead>>

IdleLooked ==
  LET k == ResumeAll(kernel, cur)
  IN /\ At("looking")
     /\ suspended' = suspended - 1
     /\ IF k.yield THEN Switch(k) ELSE Continue(k)
     /\ Goto(IF terminated = <<>> THEN "run" ELSE "reap")
     /\ UNCHANGED <<ask, notified, notify, last, measures, dead>>

IdleReap ==
  /\ At("reap")
  /\ freed' = freed \cup {Head(terminated)}
  /\ terminated' = Tail(terminated)
  /\ deleted' = deleted - 1
  /\ Goto("run")
  /\ UNCHANGED <<kernel, cur, suspended, ask, notified, notify, last, measures>>

-----------------------------------------------------------------------------
(* The tick.                                                               *)

Limited(t) == ask[t].op \in {"delay", "take", "takeAll"}

Age ==
  /\ owed' = [t \in Task |-> IF Limited(t) /\ owed[t] > -MaxPended
                             THEN owed[t] - 1 ELSE owed[t]]
  /\ ahead' = [t \in Task |-> IF Periodic(t) /\ ahead[t] > Lost
                              THEN ahead[t] - 1 ELSE ahead[t]]

Tick ==
  /\ Age
  /\ IF suspended # 0
     THEN /\ kernel.pended < MaxPended
          /\ Continue([kernel EXCEPT !.pended = (@ + 1) % PendedMod])
     ELSE IF SwitchRequired(kernel, cur)
          THEN Switch(IncrementTick(kernel))
          ELSE Continue(IncrementTick(kernel))
  /\ UNCHANGED <<suspended, at, ask, notified, notify, last, dead>>

TaskStep ==
  \/ DelayBody \/ DelayUntilBody \/ Resume \/ Yield \/ Finish \/ Taken
  \/ AfterDelete \/ IdleLook \/ IdleLooked \/ IdleReap

Next ==
  /\ \/ SuspendAll \/ DelayNone \/ Take \/ Give \/ Delete \/ TaskStep
     \/ GiveFromISR \/ Tick
  /\ UNCHANGED app

(* A task goes on with a call when the processor is its own, and the timer *)
(* keeps ticking: weak fairness of TaskStep and of Tick, written out over  *)
(* the states that enable them.  What the application does outside its     *)
(* calls is its own.                                                       *)
MayStep == at[cur] # "run" \/ (cur = Idle /\ deleted > 0)
MayTick == suspended = 0 \/ kernel.pended < MaxPended

Fairness ==
  /\ []<>~MayStep \/ []<><<TaskStep>>_vars
  /\ []<>~MayTick \/ []<><<Tick>>_vars

Spec     == Init /\ [][Next]_vars
FairSpec == Spec /\ Fairness

-----------------------------------------------------------------------------
Asleep(t) == Contains(kernel.delayed, t) \/ Contains(kernel.overflow, t)

(* The ticks the kernel still counts for a sleeper, those it has yet to    *)
(* take in being passed already.                                           *)
Remaining(t) ==
  (IF Contains(kernel.delayed, t) THEN 0 ELSE TickMod)
  + kernel.wake[t] - kernel.tick - kernel.pended

(* The state of the kernel, the calls and the notifications keeps its      *)
(* type, and a task is in exactly one list of the kernel until it is       *)
(* deleted.                                                                *)
TypeOK ==
  /\ cur \in Task /\ suspended \in {0, 1}
  /\ at \in [Task -> {"run", "suspended", "resume", "yield", "return", "taken",
                      "deleted", "looking", "reap"}]
  /\ notified \in [Task -> 0..MaxNotified]
  /\ notify \in [Task -> {"not waiting", "waiting", "notified"}]
  /\ last \in [Task -> Ticks] /\ freed \subseteq Task
  /\ owed \in [Task -> Int] /\ ahead \in [Task -> Int]
  /\ ListsConsistent(kernel, {t \in Task : ~Dead(t)})

(* The ticks until the time a task sleeps for; the wake time of a periodic *)
(* task that was a whole round late is anything.                           *)
Due(t) == IF ask[t].op = "until" THEN ahead[t] ELSE owed[t]

Late(t) == ask[t].op = "until" /\ ahead[t] = Lost

(* vTaskDelay and ulTaskNotifyTake are relative to the tick they were      *)
(* called in, vTaskDelayUntil to the time the task should have run last: a *)
(* sleeper is woken exactly at that tick, whatever was held back by a      *)
(* suspension or wrapped in the meantime, and one that is not asleep and   *)
(* has not been notified was due already (tasks.c:840, 930, 1722).         *)
InTime ==
  /\ \A t \in Task :
       Asleep(t) =>
         /\ Remaining(t) + kernel.pended > 0
         /\ Late(t) \/ Due(t) = Remaining(t)
  /\ \A t \in Task :
       /\ \/ ask[t].op \in {"delay", "until"} /\ at[t] \in {"resume", "yield", "return"}
          \/ notify[t] = "waiting"
       /\ ~Asleep(t) /\ ~Dead(t)
       => Due(t) <= 0

(* A task does not sleep on a notification it already has: the test and    *)
(* the sleep are one critical section, and a handler that comes while the  *)
(* scheduler is suspended leaves the task in the pending list (tasks.c:    *)
(* 3914, 4413).                                                            *)
NoLostNotification ==
  \A t \in Task :
    ask[t].op \in {"take", "takeAll"} /\ Asleep(t) /\ notified[t] # 0 =>
      Contains(kernel.pending, t)

(* What vTaskDelete hands to the idle task never runs again: it is in no   *)
(* list of the kernel when its memory goes, it runs at most up to its own  *)
(* yield, and the count the idle task trusts is the length of the list it  *)
(* takes the head of (tasks.c:3042).                                       *)
DeadStayDead ==
  /\ deleted = Len(terminated)
  /\ cur \notin freed /\ (Dead(cur) => at[cur] = "yield")
  /\ \A t \in Task : Dead(t) => t \notin ReadyTasks(kernel) /\ ~Asleep(t)
                                 /\ ~Contains(kernel.pending, t)
  /\ at[Idle] = "reap" => terminated # <<>>

(* A comment of the kernel (tasks.c:4428) on a handler that notifies a     *)
(* task of higher priority: "so a yield is required".  A ready task that   *)
(* outranks the running one has a switch pending for it.                   *)
YieldRequired ==
  suspended = 0 /\ at[cur] # "yield" =>
    \/ kernel.yield
    \/ \A t \in ReadyTasks(kernel) : Priority[t] <= Priority[cur]

(* A task that sleeps runs again if no other outranks it: its time comes,  *)
(* and time slicing shares the processor among equals, even those that     *)
(* never call the kernel.                                                  *)
SleeperRunsAgain ==
  \A t \in {u \in Task : Priority[u] = TopPriority} :
    Asleep(t) ~> Dead(t) \/ (cur = t /\ ~Asleep(t))
=============================================================================
