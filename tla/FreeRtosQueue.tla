---------------------------- MODULE FreeRtosQueue ---------------------------
(***************************************************************************)
(* queue.c of the FreeRTOS kernel: tasks that send to, receive from, peek  *)
(* at and reset one queue, with a time-out, and interrupt handlers that    *)
(* send and receive, on the scheduler of FreeRtosTasks.  A call is cut     *)
(* where interrupts are enabled: every critical section is one action, and *)
(* between two of them a tick or another interrupt may come and, while the *)
(* scheduler runs, another task.                                           *)
(***************************************************************************)
EXTENDS FreeRtosTasks, Integers

CONSTANTS
  NoItem,
  Applications,  (* what the tasks and handlers of a program do with the   *)
                 (* queue                                                  *)
  MaxPended,     (* bound on the ticks while the scheduler is suspended    *)
  MaxLock        (* bound on the items handlers move while it is locked:   *)
                 (* the two counts have eight bits and a sign              *)

Op == {"back", "front", "overwrite", "receive", "peek", "reset"}

(* An application: the length of the queue and the items that go through   *)
(* it, the calls its tasks make (ticks being the xTicksToWait they pass)   *)
(* and those its handlers make.                                            *)
ASSUME QueueAssumption ==
  /\ EventList = {"send", "receive"}
  /\ \A a \in Applications :
       /\ a.length \in Nat \ {0} /\ NoItem \notin a.items
       /\ a.asks \subseteq [task : Task \ {Idle}, op : Op, ticks : Ticks]
       /\ a.isr \subseteq {"back", "front", "overwrite", "receive"}
  /\ MaxPended \in 0..(PendedMod - 1) /\ MaxLock \in 0..127

VARIABLES
  app,           (* the application                                        *)
  queue,         (* Queue_t; a slot is a multiple of uxItemSize            *)
  kernel,        (* the lists of tasks.c                                   *)
  cur,           (* pxCurrentTCB                                           *)
  suspended,     (* uxSchedulerSuspended                                   *)
  call,          (* of each task: the call it is in                        *)
  got            (* the item handed out last                               *)

vars == <<app, queue, kernel, cur, suspended, call, got>>

UNLOCKED == -1   (* queueUNLOCKED; 0 is queueLOCKED_UNMODIFIED             *)

(* ticks is xTicksToWait, set xEntryTimeSet, from xTimeOut; seen is the    *)
(* value vTaskSuspendAll has loaded, after what follows the unlocking.     *)
(* owed only measures: of the ticks the caller gave, those that have not   *)
(* come yet since the call first found that it had to wait.                *)
NoCall == [at |-> "none", op |-> "none", item |-> NoItem, ticks |-> 0,
           set |-> FALSE, from |-> [overflows |-> 0, tick |-> 0],
           after |-> "none", seen |-> 0, owed |-> 0]

Started(op, item, ticks) ==
  [NoCall EXCEPT !.at = "try", !.op = op, !.item = item, !.ticks = ticks,
                 !.owed = ticks]

Sends(op) == op \in {"back", "front", "overwrite"}

(* xQueueGenericReset on a new queue                                       *)
Emptied(length, buffer) ==
  [length |-> length, buffer |-> buffer, count |-> 0, writeTo |-> 0,
   readFrom |-> length - 1, rxLock |-> UNLOCKED, txLock |-> UNLOCKED,
   cleared |-> FALSE]

Init ==
  /\ app \in Applications
  /\ queue = Emptied(app.length, [i \in 0..(app.length - 1) |-> NoItem])
  /\ \E order \in CreationOrders :
       kernel = KernelInit(order) /\ cur = FirstTask(order)
  /\ suspended = 0
  /\ call = [t \in Task |-> NoCall]
  /\ got = NoItem

-----------------------------------------------------------------------------
(* The storage.                                                            *)

Up(q, i)   == IF i + 1 >= q.length THEN 0 ELSE i + 1
Down(q, i) == IF i = 0 THEN q.length - 1 ELSE i - 1

(* Mutant: sending to the front forgets where it wraps.                    *)
CopyDataToQueueNoWrap(q, item, op) ==
  IF op = "back"
  THEN [q EXCEPT !.buffer[q.writeTo] = item, !.writeTo = Up(q, @),
                 !.count = @ + 1]
  ELSE [q EXCEPT !.buffer[q.readFrom] = item,
                 !.readFrom = IF @ = 0 THEN 0 ELSE @ - 1,
                 !.count = IF op = "overwrite" /\ @ > 0 THEN @ ELSE @ + 1]

(* prvCopyDataToQueue                                                      *)
CopyDataToQueue(q, item, op) ==
  IF op = "back"
  THEN [q EXCEPT !.buffer[q.writeTo] = item, !.writeTo = Up(q, @),
                 !.count = @ + 1]
  ELSE [q EXCEPT !.buffer[q.readFrom] = item, !.readFrom = Down(q, @),
                 !.count = IF op = "overwrite" /\ @ > 0 THEN @ ELSE @ + 1]

(* prvCopyDataFromQueue: the item it copies.  Only a receive lets the read *)
(* position and the count go with it.                                      *)
NextItem(q) == q.buffer[Up(q, q.readFrom)]

Removed(q) == [q EXCEPT !.readFrom = Up(q, @), !.count = @ - 1]

(* May the call go ahead?                                                  *)
Possible(q, op) ==
  IF Sends(op) THEN q.count < q.length \/ op = "overwrite" ELSE q.count > 0

(* Mutant: a peek moves the read position on like a receive.               *)
ServedPeekMoves(q, op, item) ==
  IF Sends(op) THEN CopyDataToQueue(q, item, op)
  ELSE IF op = "receive" THEN Removed(q)
       ELSE [q EXCEPT !.readFrom = Up(q, @)]

(* The queue after the call, and the tasks to look at: a peek leaves the   *)
(* item to the next receiver.                                              *)
Served(q, op, item) ==
  IF Sends(op) THEN CopyDataToQueue(q, item, op)
  ELSE IF op = "receive" THEN Removed(q) ELSE q

Waiters(op) == IF op = "receive" THEN "send" ELSE "receive"

WaitsOn(op) == IF Sends(op) THEN "send" ELSE "receive"

-----------------------------------------------------------------------------
(* The processor.                                                          *)

(* Mutant: the context is switched whatever the scheduler's state.         *)
RescheduleAnyway(k, held) == kernel' = SwitchContext(k) /\ cur' = Chosen(k)

(* vTaskSwitchContext; held: the scheduler is suspended                    *)
Reschedule(k, held) ==
  IF held THEN kernel' = [k EXCEPT !.yield = TRUE] /\ UNCHANGED cur
          ELSE kernel' = SwitchContext(k) /\ cur' = Chosen(k)

Continue(k) == kernel' = k /\ UNCHANGED cur

(* The critical section of a call that wakes the head of an event list and *)
(* yields to it if it outranks the caller.                                 *)
WakeAndYield(e) ==
  LET woken == WakeOne(kernel, e, cur, suspended # 0)
  IN IF Outranks(kernel, e, cur) THEN Reschedule(woken, suspended # 0)
     ELSE Continue(woken)

At(pc)   == call[cur].at = pc
Goto(pc) == call' = [call EXCEPT ![cur].at = pc]

-----------------------------------------------------------------------------
(* The calls of a task: xQueueGenericSend and xQueueGenericReceive.        *)

Call ==
  /\ At("none")
  /\ \E ask \in app.asks :
       /\ ask.task = cur /\ ask.op # "reset"
       /\ ask.op = "overwrite" => queue.length = 1
       /\ \E item \in IF Sends(ask.op) THEN app.items ELSE {NoItem} :
            call' = [call EXCEPT ![cur] = Started(ask.op, item, ask.ticks)]
  /\ UNCHANGED <<queue, kernel, cur, suspended, got>>

(* xQueueReset                                                             *)
Reset ==
  /\ At("none")
  /\ \E ask \in app.asks : ask.task = cur /\ ask.op = "reset"
  /\ queue' = [Emptied(queue.length, queue.buffer) EXCEPT !.cleared = TRUE]
  /\ WakeAndYield("send")
  /\ UNCHANGED <<suspended, call, got>>

Succeed ==
  LET op == call[cur].op
  IN /\ At("try") /\ Possible(queue, op)
     /\ queue' = Served(queue, op, call[cur].item)
     /\ got' = IF Sends(op) THEN got ELSE NextItem(queue)
     /\ WakeAndYield(Waiters(op))
     /\ call' = [call EXCEPT ![cur] = NoCall]
     /\ UNCHANGED suspended

(* No time to wait for: errQUEUE_FULL or errQUEUE_EMPTY.                   *)
FailAtOnce ==
  /\ At("try") /\ ~Possible(queue, call[cur].op) /\ call[cur].ticks = 0
  /\ call' = [call EXCEPT ![cur] = NoCall]
  /\ UNCHANGED <<queue, kernel, cur, suspended, got>>

PrepareToWait ==
  /\ At("try") /\ ~Possible(queue, call[cur].op) /\ call[cur].ticks # 0
  /\ call' = [call EXCEPT ![cur].at = "suspend", ![cur].set = TRUE,
                          ![cur].from = IF call[cur].set THEN @
                                        ELSE TimeOut(kernel)]
  /\ UNCHANGED <<queue, kernel, cur, suspended, got>>

(* vTaskSuspendAll is ++uxSchedulerSuspended outside a critical section: a *)
(* load and a store.                                                       *)
LoadSuspended ==
  /\ At("suspend")
  /\ call' = [call EXCEPT ![cur].at = "store", ![cur].seen = suspended]
  /\ UNCHANGED <<queue, kernel, cur, suspended, got>>

StoreSuspended ==
  /\ At("store")
  /\ suspended' = call[cur].seen + 1
  /\ call' = [call EXCEPT ![cur].at = "lock", ![cur].seen = 0]
  /\ UNCHANGED <<queue, kernel, cur, got>>

(* prvLockQueue                                                            *)
Lock ==
  /\ At("lock")
  /\ queue' = [queue EXCEPT !.rxLock = IF @ = UNLOCKED THEN 0 ELSE @,
                            !.txLock = IF @ = UNLOCKED THEN 0 ELSE @]
  /\ Goto("expire")
  /\ UNCHANGED <<kernel, cur, suspended, got>>

(* xTaskCheckForTimeOut: when the count has wrapped since, a wait is not   *)
(* over whatever the time, and what is left is taken modulo its width.     *)
Expire ==
  LET c == call[cur]
  IN /\ At("expire") /\ TimedOut(kernel, c.from, c.ticks)
     /\ call' = [call EXCEPT ![cur].at = "unlockTx", ![cur].after = "fail"]
     /\ UNCHANGED <<queue, kernel, cur, suspended, got>>

NotYetExpired ==
  LET c == call[cur]
  IN /\ At("expire") /\ ~TimedOut(kernel, c.from, c.ticks)
     /\ call' = [call EXCEPT ![cur].at = "test", ![cur].from = TimeOut(kernel),
                             ![cur].ticks = TimeLeft(kernel, c.from, @)]
     /\ UNCHANGED <<queue, kernel, cur, suspended, got>>

(* prvIsQueueFull or prvIsQueueEmpty                                       *)
TestAgain ==
  /\ At("test")
  /\ call' = IF (IF Sends(call[cur].op) THEN queue.count = queue.length
                                        ELSE queue.count = 0)
             THEN [call EXCEPT ![cur].at = "place"]
             ELSE [call EXCEPT ![cur].at = "unlockTx", ![cur].after = "retry"]
  /\ UNCHANGED <<queue, kernel, cur, suspended, got>>

(* vTaskPlaceOnEventList: interrupts are enabled, but no handler touches   *)
(* these lists while the scheduler is suspended and the queue locked.      *)
Place ==
  /\ At("place")
  /\ kernel' = PlaceOnEventList(kernel, cur, WaitsOn(call[cur].op),
                                call[cur].ticks)
  /\ call' = [call EXCEPT ![cur].at = "unlockTx", ![cur].after = "block"]
  /\ UNCHANGED <<queue, cur, suspended, got>>

(* prvUnlockQueue, one lock: every item moved while it was locked wakes a  *)
(* task, as long as there is one.                                          *)
WakeForEach(n, e) ==
  FoldLeft(LAMBDA k, i : WakeOne(k, e, cur, suspended # 0), kernel,
           [i \in 1..n |-> i])

(* Mutant: the items that handlers sent meanwhile are forgotten.           *)
UnlockTxQuietly ==
  /\ At("unlockTx")
  /\ queue' = [queue EXCEPT !.txLock = UNLOCKED]
  /\ Goto("unlockRx")
  /\ UNCHANGED <<kernel, cur, suspended, got>>

UnlockTx ==
  /\ At("unlockTx")
  /\ kernel' = WakeForEach(queue.txLock, "receive")
  /\ queue' = [queue EXCEPT !.txLock = UNLOCKED]
  /\ Goto("unlockRx")
  /\ UNCHANGED <<cur, suspended, got>>

UnlockRx ==
  /\ At("unlockRx")
  /\ kernel' = WakeForEach(queue.rxLock, "send")
  /\ queue' = [queue EXCEPT !.rxLock = UNLOCKED]
  /\ Goto("resume")
  /\ UNCHANGED <<cur, suspended, got>>

(* xTaskResumeAll: a switch that is due is made within it; a task that is  *)
(* to block and was not switched out yields next.                          *)
AfterResume(yielded) ==
  CASE call[cur].after = "fail" -> NoCall
    [] call[cur].after = "block" /\ ~yielded -> [call[cur] EXCEPT !.at = "yield"]
    [] OTHER -> [call[cur] EXCEPT !.at = "try"]

Resume ==
  LET k == ResumeAll(kernel, cur)
  IN /\ At("resume")
     /\ suspended' = suspended - 1
     /\ IF k.yield THEN Reschedule(k, suspended' # 0) ELSE Continue(k)
     /\ call' = [call EXCEPT ![cur] = AfterResume(k.yield)]
     /\ UNCHANGED <<queue, got>>

(* portYIELD_WITHIN_API                                                    *)
Yield ==
  /\ At("yield")
  /\ Goto("try")
  /\ Reschedule(kernel, suspended # 0)
  /\ UNCHANGED <<queue, suspended, got>>

TaskStep ==
  \/ Succeed \/ FailAtOnce \/ PrepareToWait \/ LoadSuspended \/ StoreSuspended
  \/ Lock \/ Expire \/ NotYetExpired \/ TestAgain \/ Place \/ UnlockTx
  \/ UnlockRx \/ Resume \/ Yield

-----------------------------------------------------------------------------
(* Interrupts.  This port has no portYIELD_FROM_ISR: a handler returns to  *)
(* the task it interrupted.                                                *)

Age(c) == IF c.set /\ c.owed > 0 THEN [c EXCEPT !.owed = @ - 1] ELSE c

(* vPortYieldFromTick                                                      *)
Tick ==
  /\ UNCHANGED <<queue, suspended, got>>
  /\ call' = [t \in Task |-> Age(call[t])]
  /\ IF suspended # 0
     THEN LET held == [kernel EXCEPT !.pended = (@ + 1) % PendedMod]
          IN /\ kernel.pended < MaxPended
             /\ IF kernel.yield THEN Reschedule(held, TRUE) ELSE Continue(held)
     ELSE IF SwitchRequired(kernel, cur)
          THEN Reschedule(IncrementTick(kernel), FALSE)
          ELSE Continue(IncrementTick(kernel))

(* xQueueGenericSendFromISR and xQueueReceiveFromISR: a locked queue keeps *)
(* its event lists, and counts.                                            *)
IsrSend ==
  \E item \in app.items, op \in app.isr \ {"receive"} :
    /\ op = "overwrite" => queue.length = 1
    /\ Possible(queue, op)
    /\ queue.txLock < MaxLock
    /\ LET q == CopyDataToQueue(queue, item, op)
       IN IF queue.txLock = UNLOCKED
          THEN queue' = q /\ Continue(WakeOne(kernel, "receive", cur,
                                              suspended # 0))
          ELSE queue' = [q EXCEPT !.txLock = @ + 1] /\ Continue(kernel)
    /\ UNCHANGED <<suspended, call, got>>

IsrReceive ==
  /\ "receive" \in app.isr /\ queue.count > 0
  /\ queue.rxLock < MaxLock
  /\ got' = NextItem(queue)
  /\ IF queue.rxLock = UNLOCKED
     THEN queue' = Removed(queue) /\ Continue(WakeOne(kernel, "send", cur,
                                                      suspended # 0))
     ELSE queue' = [Removed(queue) EXCEPT !.rxLock = @ + 1]
          /\ Continue(kernel)
  /\ UNCHANGED <<suspended, call>>

Next ==
  (Call \/ Reset \/ TaskStep \/ Tick \/ IsrSend \/ IsrReceive) /\ UNCHANGED app

Spec == Init /\ [][Next]_vars

-----------------------------------------------------------------------------
(* The steps between vTaskSuspendAll and xTaskResumeAll.                   *)
InSuspension(t) ==
  call[t].at \in {"lock", "expire", "test", "place", "unlockTx", "unlockRx",
                  "resume"}

CallType ==
  [at : {"none", "try", "suspend", "store", "lock", "expire", "test", "place",
         "unlockTx", "unlockRx", "resume", "yield"},
   op : Op \cup {"none"}, item : app.items \cup {NoItem}, ticks : Ticks,
   set : BOOLEAN, from : [overflows : 0..(OverflowMod - 1), tick : Ticks],
   after : {"none", "fail", "block", "retry"}, seen : Nat, owed : Ticks]

(* The ring: both positions stay inside, and the one determines the other  *)
(* by the number of items between them.                                    *)
Wrapped(q, i) == IF i < q.length THEN i
                 ELSE IF i < 2 * q.length THEN i - q.length
                      ELSE i - 2 * q.length

RingOK(q) ==
  /\ q.length \in Nat \ {0} /\ q.count \in 0..q.length
  /\ q.readFrom \in 0..(q.length - 1) /\ q.writeTo \in 0..(q.length - 1)
  /\ q.writeTo = Wrapped(q, q.readFrom + 1 + q.count)

(* The state of the queue, the kernel and the calls keeps its type, the    *)
(* two ring positions agree with the count, every task is in exactly one   *)
(* of the kernel's lists by its generic item, and those are sorted.        *)
TypeOK ==
  /\ RingOK(queue) /\ queue.length = app.length
  /\ queue.buffer \in [0..(queue.length - 1) -> app.items \cup {NoItem}]
  /\ {queue.rxLock, queue.txLock} \subseteq UNLOCKED..MaxLock
  /\ cur \in Task /\ suspended \in Nat
  /\ call \in [Task -> CallType] /\ got \in app.items \cup {NoItem}
  /\ ListsConsistent(kernel, Task)

(* vTaskSuspendAll increments a counter without a critical section, yet no *)
(* two tasks are ever inside a suspension together, the counter is right   *)
(* and the task inside is the one that runs (tasks.c:1640, queue.c:760).   *)
SuspensionExclusive ==
  /\ suspended \in {0, 1}
  /\ \A t \in Task : InSuspension(t) => suspended = 1 /\ cur = t
  /\ suspended = 1 => InSuspension(cur)

(* xTaskIncrementTick looks at the delayed list only when the count has    *)
(* reached xNextTaskUnblockTime, and swaps the two lists when it wraps: no *)
(* task is left asleep past the time it was put to sleep for.  One whose   *)
(* wait was over when xTaskCheckForTimeOut left it no ticks and let it     *)
(* wait on (tasks.c:2624) is put into the list at its very time: the next  *)
(* tick wakes it.                                                          *)
NobodyOversleeps == NoOverdueSleeper(kernel, {t \in Task : call[t].ticks = 0})

(* A task that waits for the queue while it could go on has been overtaken *)
(* by as many woken tasks as there are items (or free slots): whatever     *)
(* handlers and tasks did while it was on its way to the event list, no    *)
(* item comes without waking someone (queue.c:1935).                       *)
Woken(e) == {t \in Task : /\ call[t].after = "block"
                          /\ WaitsOn(call[t].op) = e
                          /\ ~Contains(kernel.event[e], t)}

NoLostWakeup ==
  /\ queue.txLock = UNLOCKED /\ kernel.event["receive"] # <<>> =>
       queue.count <= Cardinality(Woken("receive"))
  /\ queue.rxLock = UNLOCKED /\ kernel.event["send"] # <<>>
       /\ ~queue.cleared =>
       queue.length - queue.count <= Cardinality(Woken("send"))

(* A call that had to wait gives up only when at least the ticks it was    *)
(* given have come, whatever wrapped in the meantime: neither when         *)
(* xTaskCheckForTimeOut says so nor when it has left no ticks to wait for  *)
(* (tasks.c:2613, 2624).                                                   *)
NeverTooEarly ==
  \A t \in Task :
    call[t].after = "fail" \/ (call[t].set /\ call[t].ticks = 0) =>
      call[t].owed = 0

(* xTicksToWait is "The maximum amount of time the task should block"      *)
(* (queue.h:749): no task is put to sleep for longer than the ticks that   *)
(* remain of it.                                                           *)
BlocksNoLonger ==
  \A e \in EventList, t \in Task :
    Contains(kernel.event[e], t) =>
      (kernel.wake[t] - kernel.tick) % TickMod <= call[t].owed + kernel.pended

(* A ready task that outranks the running one has a switch pending for it, *)
(* unless the scheduler is suspended: the next tick makes it.              *)
Outranked ==
  \E t \in ReadyTasks(kernel) : Priority[t] > Priority[cur]

SwitchPending == suspended = 0 /\ Outranked => kernel.yield

(* What the queue promises its users.                                      *)
Contents ==
  [i \in 1..queue.count |->
     queue.buffer[(queue.readFrom + i) % queue.length]]

Promise == INSTANCE BoundedQueue WITH items <- app.items,
                                      length <- queue.length,
                                      contents <- Contents

KeepsPromise == Promise!QueueSpec
=============================================================================
