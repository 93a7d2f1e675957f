------------------------- MODULE FreeRtosDelayProofs ------------------------
(***************************************************************************)
(* The delays, the notifications and the deletion, for every program of    *)
(* them: every task of a program is where its call has taken it, the lists *)
(* of the kernel hold exactly the tasks that live, and what a sleeper has  *)
(* left to sleep in the kernel's own counting (Left) is what it is due in  *)
(* the ticks that really came.                                             *)
(***************************************************************************)
EXTENDS FreeRtosDelay, FreeRtosTasksProofs

-----------------------------------------------------------------------------
(* The invariant.                                                          *)

Places == {"run", "suspended", "resume", "yield", "return", "taken",
           "deleted", "looking", "reap"}

AskOK(a, t) == a = NoAsk \/ (a \in app.asks /\ a.task = t /\ t # Idle)

(* Where a task is, by the call it is in.                                  *)
Place(p, a, t) ==
  /\ p \in {"run", "looking", "reap"} <=> a = NoAsk
  /\ p \in {"looking", "reap"} => t = Idle
  /\ p = "suspended" => /\ a.op \in {"delay", "until", "suspend"}
                        /\ a.op # "suspend" => a.ticks > 0
  /\ p = "resume" => a.op \in {"delay", "until"}
  /\ p = "yield" => a.op \in {"delay", "until", "delete"}
  /\ p = "return" => a.op \in {"delay", "until", "suspend", "give", "delete"}
  /\ p = "deleted" => a.op = "delete"
  /\ p = "taken" <=> a.op \in {"take", "takeAll"}

InCall ==
  /\ at \in [Task -> Places] /\ DOMAIN ask = Task
  /\ \A t \in Task : AskOK(ask[t], t) /\ Place(at[t], ask[t], t)

Data ==
  /\ notified \in [Task -> 0..MaxNotified]
  /\ notify \in [Task -> {"not waiting", "waiting", "notified"}]
  /\ last \in [Task -> Ticks] /\ owed \in [Task -> Int] /\ ahead \in [Task -> Int]

Typed ==
  /\ app \in Applications /\ cur \in Task /\ suspended \in {0, 1} /\ InCall
  /\ Data /\ terminated \in Seq(Task) /\ freed \subseteq Task

(* The lists of the kernel hold the tasks that live; the idle task is one  *)
(* of them and always ready.                                               *)
Alive == {t \in Task : ~Dead(t)}

Housed(k, alive) ==
  /\ Lists(k) /\ Placed(k, alive) /\ NoOverdueSleeper(k, {})
  /\ Idle \in ReadyTasks(k) /\ ToSet(k.pending) \subseteq alive

(* A task is not ready while it runs only on its way to the switch.        *)
Awake == cur \in ReadyTasks(kernel) \/ at[cur] \in {"resume", "yield"}

(* The scheduler is suspended by the running task alone, and nothing is    *)
(* held back outside a suspension.                                         *)
Holding == {"suspended", "resume", "looking"}

Exclusive ==
  /\ \A t \in Task : at[t] \in Holding => suspended = 1 /\ cur = t
  /\ suspended = 1 => at[cur] \in Holding
  /\ suspended = 0 => kernel.pended = 0 /\ ToSet(kernel.pending) = {}

Buried ==
  /\ deleted = Len(terminated) /\ cur \notin freed
  /\ Dead(cur) => at[cur] = "yield"
  /\ at[Idle] = "reap" => terminated # <<>>

Noticed ==
  /\ \A t \in Task :
       /\ notify[t] = "waiting" => at[t] = "taken" /\ notified[t] = 0
       /\ at[t] = "taken" /\ t \in Sleepers(kernel) /\ notify[t] # "waiting"
          => t \in ToSet(kernel.pending)
  /\ \A t \in ToSet(kernel.pending) : at[t] = "taken" /\ notify[t] = "notified"

Sound == /\ Typed /\ Housed(kernel, Alive) /\ Awake
         /\ Exclusive /\ Buried /\ Noticed

-----------------------------------------------------------------------------
(* The kernel.                                                             *)

(* A step that leaves every task where it is, and the time too.            *)
Quiet(k, r) ==
  /\ ReadyTasks(r) = ReadyTasks(k) /\ Sleepers(r) = Sleepers(k) /\ r.wake = k.wake
  /\ ToSet(r.pending) = ToSet(k.pending) /\ SameClock(k, r)

LEMMA QuietTogether ==
  ASSUME NEW k, NEW q, NEW r, Quiet(k, q), Quiet(q, r)
  PROVE  Quiet(k, r)
  BY DEF Quiet, SameClock

LEMMA SwitchIs ==
  ASSUME NEW k, NEW alive, Housed(k, alive), Switch(k)
  PROVE  Housed(kernel', alive) /\ Quiet(k, kernel') /\ cur' \in ReadyTasks(kernel')
<1>1. SameLists(k, SwitchContext(k)) /\ Chosen(k) \in ReadyTasks(k)
  BY SwitchContextIs DEF Housed
<1>2. SameLists(k, kernel') /\ cur' \in ReadyTasks(k)
  BY <1>1 DEF Switch
<1>3. /\ Sleepers(kernel') = Sleepers(k) /\ Placed(kernel', alive)
      /\ NoOverdueSleeper(kernel', {})
  BY <1>2, SameListsKeep DEF Housed
<1> QED
  BY <1>2, <1>3 DEF Housed, Quiet, SameLists

LEMMA ContinueIs ==
  ASSUME NEW k, NEW alive, Housed(k, alive), Continue(k)
  PROVE  Housed(kernel', alive) /\ Quiet(k, kernel') /\ cur' = cur
  BY DEF Continue, Housed, Quiet, SameClock

LEMMA GoesOn ==
  ASSUME NEW k, NEW alive, Housed(k, alive), Switch(k) \/ Continue(k)
  PROVE  /\ Housed(kernel', alive) /\ Quiet(k, kernel')
         /\ cur' = cur \/ cur' \in ReadyTasks(kernel')
  BY SwitchIs, ContinueIs

(* The tasks of X become ready.                                            *)
Released(k, r, X) ==
  /\ ReadyTasks(r) = ReadyTasks(k) \cup X /\ Sleepers(r) = Sleepers(k) \ X
  /\ \A t \in Sleepers(r) : r.wake[t] = k.wake[t]
  /\ ToSet(r.pending) = ToSet(k.pending) \ X

LEMMA RousedHouse ==
  ASSUME NEW k, NEW alive \in SUBSET Task, Housed(k, alive), NEW r,
         NoOverdueSleeper(r, {}), NEW X \in SUBSET alive, Roused(k, r, X)
  PROVE  Housed(r, alive) /\ Released(k, r, X)
<1>1. Placed(r, alive)
  BY RousedPlaced DEF Housed
<1>2. Sleepers(r) \subseteq Task
  BY <1>1 DEF Placed
<1> QED
  BY <1>1, <1>2 DEF Housed, Released, Roused

LEMMA QuietReleased ==
  ASSUME NEW k, NEW q, NEW r, NEW X, Released(k, q, X), Quiet(q, r)
  PROVE  Released(k, r, X)
  BY DEF Released, Quiet

(* A task is taken from the list it is in and made ready.                  *)
LEMMA FreeIs ==
  ASSUME NEW k, NEW alive \in SUBSET Task, Housed(k, alive), NEW t \in alive,
         t \notin ToSet(k.pending)
  PROVE  LET r == AddToReady(RemoveGeneric(k, t), t)
         IN Housed(r, alive) /\ Released(k, r, {t}) /\ SameClock(k, r)
<1> DEFINE q == RemoveGeneric(k, t)
           r == AddToReady(q, t)
<1>1. /\ Lists(q) /\ ReadyTasks(q) = ReadyTasks(k) \ {t}
      /\ ToSet(q.delayed) = ToSet(k.delayed) \ {t}
      /\ ToSet(q.overflow) = ToSet(k.overflow) \ {t}
      /\ q.wake = [k.wake EXCEPT ![t] = 0]
      /\ q.event = k.event /\ q.pending = k.pending
      /\ q.next = k.next /\ SameClock(k, q)
  BY RemoveGenericIs DEF Housed
<1> HIDE DEF q
<1>2. /\ Lists(r) /\ ReadyTasks(r) = ReadyTasks(q) \cup {t}
      /\ r.delayed = q.delayed /\ r.overflow = q.overflow /\ r.wake = q.wake
      /\ r.event = q.event /\ r.pending = q.pending
      /\ r.next = q.next /\ SameClock(q, r)
  BY <1>1, AddToReadyIs
<1> HIDE DEF r
<1>3. k.wake \in [Task -> Ticks]
  BY KernelFields DEF Housed, Lists
<1>4. Freed(k, r, {t})
  <2>1. ToSet(r.pending) = ToSet(k.pending) \ {t}
    BY <1>1, <1>2
  <2>2. \A e \in EventList : ToSet(r.event[e]) = ToSet(k.event[e]) \ {t}
    BY DelayAssumption
  <2>3. r.wake = [u \in Task |-> IF u \in {t} THEN 0 ELSE k.wake[u]]
    BY <1>1, <1>2, <1>3
  <2> QED
    BY <1>1, <1>2, <2>1, <2>2, <2>3 DEF Freed, SameClock
<1>5. Roused(k, r, {t}) /\ NoOverdueSleeper(r, {})
  BY <1>4, FreedRoused, FreedOverdue DEF Housed
<1>6. SameClock(k, r)
  BY <1>4 DEF Freed
<1> QED
  BY <1>5, <1>6, RousedHouse DEF q, r

(* A ready task goes to sleep.                                             *)
Sleeps(k, r, t, w) ==
  /\ ReadyTasks(r) = ReadyTasks(k) \ {t} /\ Sleepers(r) = Sleepers(k) \cup {t}
  /\ r.wake = [k.wake EXCEPT ![t] = w]
  /\ r.pending = k.pending /\ SameClock(k, r)

LEMMA DelayHouse ==
  ASSUME NEW k, NEW alive, Housed(k, alive), NEW t \in ReadyTasks(k) \ {Idle},
         NEW ticks \in Ticks \ {0}
  PROVE  LET r == Delay(k, t, ticks)
         IN Housed(r, alive) /\ Sleeps(k, r, t, (k.tick + ticks) % TickMod)
<1> DEFINE r == Delay(k, t, ticks)
<1>1. MaySleep(k, t, ticks, {}, alive)
  BY DEF MaySleep, Housed
<1>2. Blocked(k, r, t, ticks, {}, alive)
  BY <1>1, DelayIs
<1> HIDE DEF r
<1>3. Housed(r, alive) /\ Sleeps(k, r, t, (k.tick + ticks) % TickMod)
  BY <1>2 DEF Blocked, Housed, Sleeps
<1> QED
  BY <1>3 DEF r

LEMMA UntilHouse ==
  ASSUME NEW k, NEW alive, Housed(k, alive), NEW t \in ReadyTasks(k) \ {Idle},
         NEW w \in Ticks \ {k.tick}
  PROVE  LET r == AddToDelayed(RemoveGeneric(k, t), t, w)
         IN Housed(r, alive) /\ Sleeps(k, r, t, w)
<1> DEFINE q == RemoveGeneric(k, t)
           r == AddToDelayed(q, t, w)
<1>0. t \in Task /\ t \notin Sleepers(k) /\ k.wake \in [Task -> Ticks]
  BY KernelFields DEF Housed, Placed, ReadyTasks, Lists
<1>1. /\ Lists(q) /\ ReadyTasks(q) = ReadyTasks(k) \ {t}
      /\ ToSet(q.delayed) = ToSet(k.delayed) \ {t}
      /\ ToSet(q.overflow) = ToSet(k.overflow) \ {t}
      /\ q.wake = [k.wake EXCEPT ![t] = 0]
      /\ q.event = k.event /\ q.pending = k.pending
      /\ q.next = k.next /\ SameClock(k, q)
  BY <1>0, RemoveGenericIs DEF Housed
<1> HIDE DEF q
<1>2. NoOverdueSleeper(q, {}) /\ Sleepers(q) = Sleepers(k)
      /\ ToSet(q.delayed) \cap ToSet(q.overflow) = {} /\ w # q.tick
  BY <1>0, <1>1 DEF Housed, NoOverdueSleeper, Sleepers, Placed, SameClock
<1>3. /\ Lists(r) /\ ReadyTasks(r) = ReadyTasks(q)
      /\ Sleepers(r) = Sleepers(q) \cup {t}
      /\ ToSet(r.delayed) \cap ToSet(r.overflow) = {}
      /\ r.wake = [q.wake EXCEPT ![t] = w]
      /\ r.pending = q.pending /\ SameClock(q, r) /\ NoOverdueSleeper(r, {})
  BY <1>0, <1>1, <1>2, AddToDelayedIs
<1> HIDE DEF r
<1>4. Placed(r, alive) /\ r.wake = [k.wake EXCEPT ![t] = w]
  BY <1>0, <1>1, <1>2, <1>3 DEF Placed, Housed
<1>5. Housed(r, alive) /\ Sleeps(k, r, t, w)
  BY <1>1, <1>2, <1>3, <1>4 DEF Housed, Sleeps, SameClock
<1> QED
  BY <1>5 DEF q, r

(* A task is taken out of every list.                                      *)
Dropped(k, r, t) ==
  /\ ReadyTasks(r) = ReadyTasks(k) \ {t} /\ Sleepers(r) = Sleepers(k) \ {t}
  /\ \A u \in Sleepers(r) : r.wake[u] = k.wake[u]
  /\ ToSet(r.pending) = ToSet(k.pending) \ {t} /\ SameClock(k, r)

LEMMA DropIs ==
  ASSUME NEW k, NEW alive \in SUBSET Task, Housed(k, alive),
         NEW t \in alive \ {Idle}
  PROVE  LET r == RemoveEvent(RemoveGeneric(k, t), t)
         IN Housed(r, alive \ {t}) /\ Dropped(k, r, t)
<1> DEFINE q == RemoveGeneric(k, t)
           r == RemoveEvent(q, t)
<1>0. k.wake \in [Task -> Ticks] /\ t \in Task
  BY KernelFields DEF Housed, Lists
<1>1. /\ Lists(q) /\ ReadyTasks(q) = ReadyTasks(k) \ {t}
      /\ ToSet(q.delayed) = ToSet(k.delayed) \ {t}
      /\ ToSet(q.overflow) = ToSet(k.overflow) \ {t}
      /\ q.wake = [k.wake EXCEPT ![t] = 0]
      /\ q.event = k.event /\ q.pending = k.pending
      /\ q.next = k.next /\ SameClock(k, q)
  BY <1>0, RemoveGenericIs DEF Housed
<1> HIDE DEF q
<1>2. /\ Lists(r) /\ ReadyTasks(r) = ReadyTasks(q)
      /\ r.delayed = q.delayed /\ r.overflow = q.overflow /\ r.wake = q.wake
      /\ ToSet(r.pending) = ToSet(q.pending) \ {t}
      /\ r.next = q.next /\ SameClock(q, r)
  BY <1>0, <1>1, RemoveEventIs
<1> HIDE DEF r
<1>3. Sleepers(r) = Sleepers(k) \ {t} /\ ReadyTasks(r) = ReadyTasks(k) \ {t}
  BY <1>1, <1>2 DEF Sleepers
<1>4. Sleepers(k) \subseteq Task
  BY DEF Housed, Placed
<1>5. \A u \in Sleepers(r) : r.wake[u] = k.wake[u]
  BY <1>0, <1>1, <1>2, <1>3, <1>4
<1>6. Placed(r, alive \ {t})
  BY <1>1, <1>2, <1>3 DEF Housed, Placed
<1>7. NoOverdueSleeper(r, {})
  <2>1. r.tick = k.tick /\ r.next = k.next
    BY <1>1, <1>2 DEF SameClock
  <2>2. ASSUME NEW u \in ToSet(r.delayed)
        PROVE  r.tick < r.wake[u] /\ r.next <= r.wake[u]
    <3>1. u \in ToSet(k.delayed) /\ u \in Sleepers(r)
      BY <1>1, <1>2, <2>2 DEF Sleepers
    <3> QED
      BY <1>5, <2>1, <3>1 DEF Housed, NoOverdueSleeper
  <2>3. ASSUME NEW u \in ToSet(r.overflow)
        PROVE  r.wake[u] < r.tick
    <3>1. u \in ToSet(k.overflow) /\ u \in Sleepers(r)
      BY <1>1, <1>2, <2>3 DEF Sleepers
    <3> QED
      BY <1>5, <2>1, <3>1 DEF Housed, NoOverdueSleeper
  <2> QED
    BY <2>2, <2>3 DEF NoOverdueSleeper
<1>8. Housed(r, alive \ {t}) /\ Dropped(k, r, t)
  BY <1>1, <1>2, <1>3, <1>5, <1>6, <1>7 DEF Housed, Dropped, SameClock
<1> QED
  BY <1>8 DEF q, r

(* A handler that comes during a suspension leaves the task it wakes in    *)
(* the pending list.                                                       *)
Pends(k, r, t) ==
  /\ ReadyTasks(r) = ReadyTasks(k) /\ Sleepers(r) = Sleepers(k) /\ r.wake = k.wake
  /\ ToSet(r.pending) = ToSet(k.pending) \cup {t} /\ SameClock(k, r)

LEMMA PendIs ==
  ASSUME NEW k, NEW alive \in SUBSET Task, Housed(k, alive), NEW t \in alive,
         t \notin ToSet(k.pending)
  PROVE  LET r == [k EXCEPT !.pending = Append(@, t)]
         IN Housed(r, alive) /\ Pends(k, r, t)
<1> DEFINE r == [k EXCEPT !.pending = Append(@, t)]
<1>1. k \in Kernels /\ k.pending \in Seq(Task) /\ Once(k.pending) /\ t \in Task
  BY KernelFields DEF Housed, Lists
<1>2. /\ Append(k.pending, t) \in Seq(Task) /\ Once(Append(k.pending, t))
      /\ ToSet(Append(k.pending, t)) = ToSet(k.pending) \cup {t}
  BY <1>1, AppendIs
<1>3. /\ r \in Kernels /\ r.ready = k.ready /\ r.top = k.top
      /\ r.delayed = k.delayed /\ r.overflow = k.overflow
      /\ r.wake = k.wake /\ r.event = k.event /\ r.pending = Append(k.pending, t)
      /\ r.next = k.next /\ r.yield = k.yield /\ SameClock(k, r)
  BY <1>1, <1>2 DEF Kernels, SameClock
<1> HIDE DEF r
<1>4. ReadyOK(r) /\ ReadyTasks(r) = ReadyTasks(k) /\ Sleepers(r) = Sleepers(k)
  BY <1>1, <1>3 DEF ReadyOK, ReadyTasks, Housed, Lists, Sleepers
<1>5. Lists(r) /\ NoOverdueSleeper(r, {})
  BY <1>1, <1>2, <1>3, <1>4 DEF Lists, Housed, NoOverdueSleeper, SameClock
<1>6. Placed(r, alive)
  BY <1>3, <1>4 DEF Housed, Placed
<1>7. Housed(r, alive) /\ Pends(k, r, t)
  BY <1>2, <1>3, <1>4, <1>5, <1>6 DEF Housed, Pends
<1> QED
  BY <1>7 DEF r

(* The time of the next look at the delayed list is set anew.              *)
LEMMA ResetIs ==
  ASSUME NEW k, NEW alive, Housed(k, alive)
  PROVE  LET r == ResetNextUnblock(k) IN Housed(r, alive) /\ Quiet(k, r)
<1> DEFINE r == ResetNextUnblock(k)
<1>1. /\ Lists(r) /\ ReadyTasks(r) = ReadyTasks(k)
      /\ r.delayed = k.delayed /\ r.overflow = k.overflow
      /\ r.pending = k.pending /\ r.wake = k.wake /\ SameClock(k, r)
      /\ \A t \in ToSet(k.delayed) : r.next <= k.wake[t]
  BY ResetNextUnblockIs DEF Housed
<1> HIDE DEF r
<1>2. NoOverdueSleeper(r, {}) /\ Placed(r, alive) /\ Sleepers(r) = Sleepers(k)
  BY <1>1 DEF NoOverdueSleeper, Housed, Placed, Sleepers, SameClock
<1>3. Housed(r, alive) /\ Quiet(k, r)
  BY <1>1, <1>2 DEF Housed, Quiet
<1> QED
  BY <1>3 DEF r

(* A tick that comes during a suspension is counted.                       *)
LEMMA HoldIs ==
  ASSUME NEW k, NEW alive, Housed(k, alive)
  PROVE  LET r == [k EXCEPT !.pended = (@ + 1) % PendedMod]
         IN /\ Housed(r, alive)
            /\ ReadyTasks(r) = ReadyTasks(k) /\ Sleepers(r) = Sleepers(k)
            /\ r.wake = k.wake /\ r.pending = k.pending /\ r.tick = k.tick
            /\ r.pended = (k.pended + 1) % PendedMod
            /\ k.pended + 1 < PendedMod => r.pended = k.pended + 1
<1> DEFINE r == [k EXCEPT !.pended = (@ + 1) % PendedMod]
<1>1. k \in Kernels /\ k.pended \in 0..(PendedMod - 1) /\ PendedMod \in Nat \ {0}
  BY KernelFields, Constants DEF Housed, Lists
<1>2. (k.pended + 1) % PendedMod \in 0..(PendedMod - 1)
      /\ (k.pended + 1 < PendedMod => (k.pended + 1) % PendedMod = k.pended + 1)
  BY <1>1
<1>3. /\ r \in Kernels /\ r.ready = k.ready /\ r.top = k.top
      /\ r.delayed = k.delayed /\ r.overflow = k.overflow
      /\ r.wake = k.wake /\ r.event = k.event /\ r.pending = k.pending
      /\ r.next = k.next /\ r.yield = k.yield /\ r.tick = k.tick
      /\ r.pended = (k.pended + 1) % PendedMod
  BY <1>1, <1>2 DEF Kernels
<1> HIDE DEF r
<1>4. ReadyOK(r) /\ ReadyTasks(r) = ReadyTasks(k) /\ Sleepers(r) = Sleepers(k)
  BY <1>1, <1>3 DEF ReadyOK, ReadyTasks, Housed, Lists, Sleepers
<1>5. Lists(r) /\ NoOverdueSleeper(r, {}) /\ Placed(r, alive)
  BY <1>1, <1>3, <1>4 DEF Lists, Housed, NoOverdueSleeper, Placed
<1>6. Housed(r, alive)
  BY <1>3, <1>4, <1>5 DEF Housed
<1> QED
  BY <1>2, <1>3, <1>4, <1>6 DEF r

(* A tick that comes at another time wakes those whose turn it is, as the  *)
(* end of a suspension does with the ticks that were held back.            *)
LEMMA TickHouse ==
  ASSUME NEW k, NEW alive \in SUBSET Task, Housed(k, alive)
  PROVE  LET r == IncrementTick(k)
         IN /\ Housed(r, alive) /\ Ticked(k, r)
            /\ \E X \in SUBSET Sleepers(k) : Released(k, r, X) /\ InTurn(k, r, X, 1)
<1> DEFINE r == IncrementTick(k)
           none == {}
<1>1. Lists(k) /\ NoOverdueSleeper(k, {}) /\ Sleepers(k) \subseteq alive
  BY DEF Housed, Placed
<1>2. NoOverdueSleeper(r, {}) /\ Ticked(k, r)
      /\ \E X \in SUBSET Sleepers(k) :
           Roused(k, r, X) /\ \A t \in X : k.wake[t] = r.tick
  <2>1. NoOverdueSleeper(k, none)
    BY <1>1
  <2> HIDE DEF none
  <2>2. NoOverdueSleeper(r, none) /\ Ticked(k, r)
        /\ \E X \in SUBSET Sleepers(k) :
             Roused(k, r, X) /\ \A t \in X : k.wake[t] = r.tick \/ t \in none
    BY <1>1, <2>1, IncrementTickIs
  <2> QED
    BY <2>2 DEF none
<1> HIDE DEF r
<1>3. PICK X \in SUBSET Sleepers(k) :
        Roused(k, r, X) /\ \A t \in X : k.wake[t] = r.tick
  BY <1>2
<1>4. InTurn(k, r, X, 1)
  BY <1>1, <1>2, <1>3, TickInTurn
<1>5. Housed(r, alive) /\ Released(k, r, X)
  BY <1>1, <1>2, <1>3, RousedHouse
<1>6. \E Y \in SUBSET Sleepers(k) : Released(k, r, Y) /\ InTurn(k, r, Y, 1)
  BY <1>4, <1>5
<1>7. Housed(r, alive) /\ Ticked(k, r)
  BY <1>2, <1>5
<1> QED
  BY <1>6, <1>7 DEF r

LEMMA ResumeHouse ==
  ASSUME NEW k, NEW alive \in SUBSET Task, Housed(k, alive), NEW c \in Task
  PROVE  LET r == ResumeAll(k, c)
         IN /\ Housed(r, alive) /\ r.pended = 0
            /\ r.tick = (k.tick + k.pended) % TickMod
            /\ \E X \in SUBSET Sleepers(k) :
                 Released(k, r, X \cup ToSet(k.pending)) /\ InTurn(k, r, X, k.pended)
<1> DEFINE r == ResumeAll(k, c)
<1>1. Lists(k) /\ NoOverdueSleeper(k, {}) /\ Sleepers(k) \subseteq alive
      /\ ToSet(k.pending) \subseteq alive
  BY DEF Housed, Placed
<1>2. /\ NoOverdueSleeper(r, {}) /\ r.pended = 0 /\ After(r, TimeOut(k), k.pended)
      /\ \E X \in SUBSET Sleepers(k) :
           Roused(k, r, X \cup ToSet(k.pending)) /\ InTurn(k, r, X, k.pended)
  BY <1>1, ReleasedIs
<1> HIDE DEF r
<1>3. PICK X \in SUBSET Sleepers(k) :
        Roused(k, r, X \cup ToSet(k.pending)) /\ InTurn(k, r, X, k.pended)
  BY <1>2
<1>4. X \cup ToSet(k.pending) \in SUBSET alive
  BY <1>1, <1>3
<1>5. Housed(r, alive) /\ Released(k, r, X \cup ToSet(k.pending))
  BY <1>2, <1>3, <1>4, RousedHouse
<1>6. r.tick = (k.tick + k.pended) % TickMod
  BY <1>2 DEF After, TimeOut
<1>7. \E Y \in SUBSET Sleepers(k) :
        Released(k, r, Y \cup ToSet(k.pending)) /\ InTurn(k, r, Y, k.pended)
  BY <1>3, <1>5
<1>8. Housed(r, alive) /\ r.pended = 0
  BY <1>2, <1>5
<1> QED
  BY <1>6, <1>7, <1>8 DEF r

-----------------------------------------------------------------------------
(* The running task and its call.                                          *)

LEMMA AskIs ==
  ASSUME app \in Applications, NEW a \in app.asks
  PROVE  /\ a.task \in Task \ {Idle}
         /\ a.op \in {"delay", "until", "take", "takeAll", "suspend", "give", "delete"}
         /\ a.op \in {"give", "delete"} => a.to \in Task \ {Idle}
         /\ a.op \notin {"give", "delete"} => a.ticks \in Ticks
<1>1. a \in [task : Task \ {Idle}, ticks : Ticks,
             op : {"delay", "until", "take", "takeAll", "suspend"}]
            \cup [task : Task \ {Idle}, op : {"give", "delete"}, to : Task \ {Idle}]
  BY DelayAssumption
<1> QED
  BY <1>1

(* What the invariant says of the task that runs.                          *)
Running ==
  /\ cur \in Task /\ Alive \in SUBSET Task /\ Idle \in Alive
  /\ ReadyTasks(kernel) \subseteq Alive /\ Sleepers(kernel) \subseteq Alive
  /\ ReadyTasks(kernel) \cap Sleepers(kernel) = {}
  /\ ToSet(kernel.pending) \subseteq Alive
  /\ at[cur] \notin {"resume", "yield"} => cur \in ReadyTasks(kernel)
  /\ at[cur] \notin Holding =>
       /\ suspended = 0 /\ \A t \in Task : at[t] \notin Holding
       /\ kernel.pended = 0 /\ ToSet(kernel.pending) = {}
  /\ at[cur] \in Holding => suspended = 1
  /\ \A t \in Task \ {cur} : at[t] \notin Holding
  /\ Lists(kernel) /\ kernel.tick \in Ticks /\ kernel.pended \in Nat

LEMMA RunningIs == Sound => Running
<1> SUFFICES ASSUME Sound PROVE Running
  OBVIOUS
<1>1. kernel.tick \in Ticks /\ kernel.pended \in Nat /\ Lists(kernel)
  BY KernelFields, Constants DEF Sound, Housed, Lists
<1>2. Alive \in SUBSET Task /\ Idle \in Alive /\ ReadyTasks(kernel) \subseteq Alive
      /\ Sleepers(kernel) \subseteq Alive /\ ToSet(kernel.pending) \subseteq Alive
      /\ ReadyTasks(kernel) \cap Sleepers(kernel) = {}
  BY DEF Sound, Housed, Placed, Alive
<1>3. cur \in Task /\ suspended \in {0, 1}
  BY DEF Sound, Typed
<1> QED
  BY <1>1, <1>2, <1>3 DEF Running, Sound, Awake, Exclusive, Holding

(* A step of a task changes its own call.                                  *)
Own(t) ==
  /\ UNCHANGED app /\ at' \in [Task -> Places] /\ DOMAIN ask' = Task
  /\ \A u \in Task \ {t} : at'[u] = at[u] /\ ask'[u] = ask[u]

LEMMA OwnCallIs ==
  ASSUME InCall, NEW t \in Task, Own(t), AskOK(ask'[t], t), Place(at'[t], ask'[t], t)
  PROVE  InCall'
<1>1. ASSUME NEW u \in Task
      PROVE  AskOK(ask'[u], u) /\ Place(at'[u], ask'[u], u)
  BY <1>1 DEF InCall, Own
<1> QED
  BY <1>1 DEF InCall, Own, AskOK

LEMMA GotoOwn ==
  ASSUME InCall, cur \in Task, NEW p \in Places, Goto(p), UNCHANGED <<app, ask>>
  PROVE  Own(cur) /\ at'[cur] = p /\ ask'[cur] = ask[cur]
  BY DEF InCall, Own, Goto

LEMMA AskOwn ==
  ASSUME InCall, app \in Applications, cur \in Task, NEW op, Asks(op),
         NEW p \in Places, Goto(p), UNCHANGED app
  PROVE  /\ Own(cur) /\ at[cur] = "run" /\ ask[cur] = NoAsk /\ at'[cur] = p
         /\ ask'[cur] \in app.asks /\ ask'[cur].task = cur /\ ask'[cur].op = op
         /\ AskOK(ask'[cur], cur) /\ cur # Idle
<1>1. PICK a \in app.asks : a.task = cur /\ a.op = op /\ ask' = [ask EXCEPT ![cur] = a]
  BY DEF Asks
<1>2. DOMAIN ask = Task /\ at \in [Task -> Places] /\ Place(at[cur], ask[cur], cur)
  BY DEF InCall
<1>3. ask'[cur] = a /\ DOMAIN ask' = Task /\ \A u \in Task \ {cur} : ask'[u] = ask[u]
  BY <1>1, <1>2
<1>4. at' \in [Task -> Places] /\ at'[cur] = p /\ \A u \in Task \ {cur} : at'[u] = at[u]
  BY <1>2 DEF Goto
<1>5. at[cur] = "run" /\ ask[cur] = NoAsk
  BY <1>2 DEF Asks, At, Place
<1>6. cur # Idle
  BY <1>1, AskIs
<1>7. AskOK(ask'[cur], cur)
  BY <1>1, <1>3, <1>6 DEF AskOK
<1> QED
  BY <1>1, <1>3, <1>4, <1>5, <1>6, <1>7 DEF Own

LEMMA ReturnOwn ==
  ASSUME InCall, cur \in Task, Return, UNCHANGED app
  PROVE  Own(cur) /\ at'[cur] = "run" /\ ask'[cur] = NoAsk
         /\ AskOK(ask'[cur], cur) /\ Place(at'[cur], ask'[cur], cur)
<1>1. DOMAIN ask = Task /\ at \in [Task -> Places] /\ "run" \in Places
  BY DEF InCall, Places
<1>2. /\ at' \in [Task -> Places] /\ at'[cur] = "run"
      /\ \A u \in Task \ {cur} : at'[u] = at[u]
  BY <1>1 DEF Return
<1>3. /\ DOMAIN ask' = Task /\ ask'[cur] = NoAsk
      /\ \A u \in Task \ {cur} : ask'[u] = ask[u]
  BY <1>1 DEF Return
<1>4. NoAsk.op = "none"
  BY DEF NoAsk
<1>5. AskOK(ask'[cur], cur) /\ Place(at'[cur], ask'[cur], cur)
  BY <1>2, <1>3, <1>4 DEF AskOK, Place
<1> QED
  BY <1>2, <1>3, <1>5 DEF Own

LEMMA ExclusiveFree ==
  ASSUME Running, Own(cur), at[cur] \notin Holding, at'[cur] \notin Holding,
         UNCHANGED suspended, kernel'.pended = kernel.pended,
         ToSet(kernel'.pending) \subseteq ToSet(kernel.pending),
         cur' \in Task
  PROVE  Exclusive'
<1>1. \A t \in Task : at'[t] \notin Holding
  BY DEF Running, Own
<1> QED
  BY <1>1 DEF Running, Exclusive, Holding

LEMMA ExclusiveHeld ==
  ASSUME Running, Own(cur), at'[cur] \in Holding, suspended' = 1, UNCHANGED cur
  PROVE  Exclusive'
  BY DEF Running, Own, Exclusive, Holding

LEMMA BuriedKept ==
  ASSUME Sound, UNCHANGED dead, Housed(kernel', Alive'),
         cur' \in ReadyTasks(kernel') \/ (cur' = cur /\ at[cur] # "yield"),
         at'[Idle] = "reap" => terminated # <<>>
  PROVE  Buried'
<1>1. cur' \in ReadyTasks(kernel') => ~Dead(cur)'
  BY DEF Housed, Placed, Alive
<1>2. cur' = cur /\ at[cur] # "yield" => ~Dead(cur)'
  BY DEF Sound, Buried, dead, Dead
<1>4. ~Dead(cur)' => cur' \notin freed'
  BY DEF Dead
<1>3. deleted' = Len(terminated') /\ terminated' = terminated
  BY DEF Sound, Buried, dead
<1> QED
  BY <1>1, <1>2, <1>3, <1>4 DEF Buried

LEMMA AliveKept == UNCHANGED dead => Alive' = Alive
  BY DEF dead, Alive, Dead

LEMMA NoticedKept ==
  ASSUME Noticed, Running, UNCHANGED <<notify, notified>>,
         \A t \in Task : at[t] = "taken" <=> at'[t] = "taken",
         ToSet(kernel'.pending) \subseteq ToSet(kernel.pending),
         \A t \in Task : at[t] = "taken" /\ t \in Sleepers(kernel') =>
           /\ t \in Sleepers(kernel)
           /\ t \in ToSet(kernel.pending) => t \in ToSet(kernel'.pending)
  PROVE  Noticed'
  BY DEF Noticed, Running

LEMMA ChangedAt ==
  ASSUME NEW S, NEW f \in [Task -> S], NEW t, NEW v \in S
  PROVE  [f EXCEPT ![t] = v] \in [Task -> S]
  OBVIOUS

-----------------------------------------------------------------------------
(* Each step of the running task keeps the invariant.                      *)

LEMMA SoundOwn ==
  ASSUME Sound, Own(cur), AskOK(ask'[cur], cur), Place(at'[cur], ask'[cur], cur),
         suspended' \in {0, 1}, UNCHANGED dead, Data', Housed(kernel', Alive),
         \/ cur' \in ReadyTasks(kernel')
         \/ cur' = cur /\ at[cur] # "yield" /\ at'[cur] \in {"resume", "yield"},
         at'[cur] = "reap" => terminated # <<>>, Exclusive', Noticed'
  PROVE  Sound'
<1>1. Running /\ InCall
  BY RunningIs DEF Sound, Typed
<1>2. InCall'
  BY <1>1, OwnCallIs DEF Running
<1>3. Housed(kernel', Alive')
  BY AliveKept
<1>4. cur' \in Task
  BY <1>1 DEF Running, ReadyTasks
<1>5. Typed'
  BY <1>2, <1>4 DEF Sound, Typed, Own, dead
<1>6. Awake'
  BY DEF Awake
<1>7. at'[Idle] = "reap" => terminated # <<>>
  BY <1>1 DEF Running, Own, Sound, Buried
<1>8. Buried'
  BY <1>3, <1>7, BuriedKept
<1> QED
  BY <1>3, <1>5, <1>6, <1>8 DEF Sound

LEMMA SoundSuspend ==
  ASSUME Sound, SuspendAll, UNCHANGED app
  PROVE  Sound'
<1>1. Running /\ InCall /\ app \in Applications /\ cur \in Task /\ Noticed /\ Data
  BY RunningIs DEF Sound, Typed
<1>2. PICK op \in {"delay", "until", "suspend"} : Asks(op)
  BY DEF SuspendAll
<1>3. Goto("suspended") /\ "suspended" \in Places
  BY DEF SuspendAll, Places
<1>4. /\ Own(cur) /\ at[cur] = "run" /\ ask[cur] = NoAsk /\ at'[cur] = "suspended"
      /\ ask'[cur] \in app.asks /\ ask'[cur].op = op /\ AskOK(ask'[cur], cur)
  BY <1>1, <1>2, <1>3, AskOwn
<1>5. Place(at'[cur], ask'[cur], cur)
  BY <1>2, <1>4 DEF Place, NoAsk, SuspendAll
<1>6. cur \in ReadyTasks(kernel) /\ suspended = 0
  BY <1>1, <1>4 DEF Running, Holding
<1>7. UNCHANGED <<kernel, cur, dead, notified, notify>> /\ suspended' = 1
  BY <1>6 DEF SuspendAll
<1>8. Data'
  <2>1. ask'[cur].op = "delay" => ask'[cur].ticks \in Int
    BY <1>1, <1>4, AskIs, Constants
  <2> QED
    BY <1>1, <1>7, <2>1 DEF Data, SuspendAll
<1>9. Exclusive'
  BY <1>1, <1>4, <1>7, ExclusiveHeld DEF Holding
<1>10. Noticed'
  BY <1>1, <1>4, <1>7, NoticedKept DEF Own
<1>11. Housed(kernel', Alive) /\ cur' \in ReadyTasks(kernel')
  BY <1>6, <1>7 DEF Sound
<1> QED
  BY <1>4, <1>5, <1>7, <1>8, <1>9, <1>10, <1>11, SoundOwn

LEMMA SoundDelayNone ==
  ASSUME Sound, DelayNone, UNCHANGED app
  PROVE  Sound'
<1>1. Running /\ InCall /\ app \in Applications /\ cur \in Task /\ Noticed /\ Data
  BY RunningIs DEF Sound, Typed
<1>3. Asks("delay") /\ Goto("yield") /\ "yield" \in Places
  BY DEF DelayNone, Places
<1>4. /\ Own(cur) /\ at[cur] = "run" /\ at'[cur] = "yield"
      /\ ask'[cur].op = "delay" /\ AskOK(ask'[cur], cur)
  BY <1>1, <1>3, AskOwn
<1>5. Place(at'[cur], ask'[cur], cur)
  BY <1>4 DEF Place, NoAsk
<1>6. UNCHANGED <<kernel, cur, suspended, dead, notified, notify, last, owed, ahead>>
  BY DEF DelayNone, measures
<1>7. cur \in ReadyTasks(kernel) /\ suspended = 0
  BY <1>1, <1>4 DEF Running, Holding
<1>8. Exclusive'
  BY <1>1, <1>4, <1>6, ExclusiveFree DEF Holding
<1>9. Noticed'
  BY <1>1, <1>4, <1>6, NoticedKept DEF Own
<1>10. Housed(kernel', Alive) /\ cur' \in ReadyTasks(kernel') /\ Data'
  BY <1>1, <1>6, <1>7 DEF Sound, Data
<1> QED
  BY <1>4, <1>5, <1>6, <1>7, <1>8, <1>9, <1>10, SoundOwn

(* The body of a delay: the task is asleep from here on.                   *)
LEMMA BodyIs ==
  ASSUME Sound, At("suspended"), ask[cur].op \in {"delay", "until"}
  PROVE  /\ Running /\ InCall /\ at[cur] = "suspended" /\ suspended = 1
         /\ cur \in ReadyTasks(kernel) \ {Idle} /\ ask[cur].ticks \in Ticks \ {0}
         /\ ask[cur] \in app.asks /\ ask[cur].task = cur
<1>1. Running /\ InCall /\ app \in Applications /\ at[cur] = "suspended"
  BY RunningIs DEF Sound, Typed, At
<1>2. suspended = 1 /\ cur \in ReadyTasks(kernel) /\ cur \in Task
  BY <1>1 DEF Running, Holding
<1>3. Place(at[cur], ask[cur], cur) /\ AskOK(ask[cur], cur)
  BY <1>1, <1>2 DEF InCall
<1>4. ask[cur] \in app.asks /\ ask[cur].task = cur /\ cur # Idle /\ ask[cur].ticks > 0
  BY <1>1, <1>3 DEF Place, AskOK, NoAsk
<1>5. ask[cur].ticks \in Ticks
  BY <1>1, <1>4, AskIs
<1>6. ask[cur].ticks \in Ticks \ {0}
  BY <1>4, <1>5, Constants
<1> QED
  BY <1>1, <1>2, <1>4, <1>6

LEMMA BodySound ==
  ASSUME Sound, At("suspended"), ask[cur].op \in {"delay", "until"}, Goto("resume"),
         UNCHANGED <<app, ask, cur, suspended, notify, notified, dead>>, Data',
         Housed(kernel', Alive), Sleepers(kernel') \subseteq Sleepers(kernel) \cup {cur},
         kernel'.pending = kernel.pending
  PROVE  Sound'
<1>1. Running /\ InCall /\ at[cur] = "suspended" /\ suspended = 1
  BY BodyIs
<1>2. "resume" \in Places /\ cur \in Task /\ Noticed
  BY <1>1 DEF Places, Running, Sound
<1>3. Own(cur) /\ at'[cur] = "resume" /\ ask'[cur] = ask[cur]
  BY <1>1, <1>2, GotoOwn
<1>4. AskOK(ask'[cur], cur) /\ Place(at'[cur], ask'[cur], cur)
  <2>1. AskOK(ask[cur], cur) /\ Place("suspended", ask[cur], cur)
    BY <1>1, <1>2 DEF InCall
  <2> QED
    BY <1>3, <2>1 DEF Place
<1>5. Exclusive'
  BY <1>1, <1>3, ExclusiveHeld DEF Holding
<1>6. Noticed'
  BY <1>1, <1>2, <1>3, NoticedKept DEF Own
<1>7. suspended' \in {0, 1} /\ cur' = cur /\ at[cur] # "yield"
      /\ (at'[cur] = "reap" => terminated # <<>>)
  BY <1>1, <1>3
<1> QED
  BY <1>3, <1>4, <1>5, <1>6, <1>7, SoundOwn

LEMMA SoundDelayBody ==
  ASSUME Sound, DelayBody, UNCHANGED app
  PROVE  Sound'
<1>1. /\ At("suspended") /\ ask[cur].op \in {"delay", "until"} /\ Goto("resume")
      /\ UNCHANGED <<ask, cur, suspended, notify, notified, dead, last, owed, ahead>>
      /\ kernel' = Delay(kernel, cur, ask[cur].ticks)
  BY DEF DelayBody, Continue, measures
<1>2. Housed(kernel, Alive) /\ Data
  BY DEF Sound, Typed
<1>3. cur \in ReadyTasks(kernel) \ {Idle} /\ ask[cur].ticks \in Ticks \ {0}
  BY <1>1, BodyIs
<1>4. Housed(kernel', Alive) /\
      Sleeps(kernel, kernel', cur, (kernel.tick + ask[cur].ticks) % TickMod)
  BY <1>1, <1>2, <1>3, DelayHouse
<1>5. Data'
  BY <1>1, <1>2 DEF Data
<1>6. Sleepers(kernel') \subseteq Sleepers(kernel) \cup {cur}
      /\ kernel'.pending = kernel.pending
  BY <1>4 DEF Sleeps
<1> QED
  BY <1>1, <1>4, <1>5, <1>6, BodySound

LEMMA UntilIs ==
  ASSUME Sound, DelayUntilBody
  PROVE  LET w     == (last[cur] + ask[cur].ticks) % TickMod
             delay == ShouldDelay(last[cur], w, kernel.tick)
         IN /\ w \in Ticks /\ Housed(kernel', Alive)
            /\ delay => Sleeps(kernel, kernel', cur, w)
            /\ ~delay => kernel' = kernel
<1> DEFINE w == (last[cur] + ask[cur].ticks) % TickMod
           delay == ShouldDelay(last[cur], w, kernel.tick)
<1>1. /\ At("suspended") /\ ask[cur].op \in {"delay", "until"}
      /\ kernel' = IF delay THEN AddToDelayed(RemoveGeneric(kernel, cur), cur, w)
                            ELSE kernel
  BY DEF DelayUntilBody, Continue
<1>2. /\ Running /\ cur \in ReadyTasks(kernel) \ {Idle}
      /\ ask[cur].ticks \in Ticks \ {0}
  BY <1>1, BodyIs
<1>3. last[cur] \in Ticks /\ kernel.tick \in Ticks /\ Housed(kernel, Alive)
  BY <1>2 DEF Sound, Typed, Data, Running
<1>4. w \in Ticks
  BY <1>2, <1>3, WakeTimeIs
<1>5. delay => w # kernel.tick
  <2> HIDE DEF w
  <2>1. last[cur] \in Int /\ kernel.tick \in Int /\ w \in Int
    BY <1>3, <1>4, Constants
  <2> QED
    BY <2>1 DEF ShouldDelay
<1> HIDE DEF w
<1>6. CASE delay
  <2>1. kernel' = AddToDelayed(RemoveGeneric(kernel, cur), cur, w)
    BY <1>1, <1>6
  <2>2. w \in Ticks \ {kernel.tick}
    BY <1>4, <1>5, <1>6
  <2>3. Housed(kernel', Alive) /\ Sleeps(kernel, kernel', cur, w)
    BY <1>2, <1>3, <2>1, <2>2, UntilHouse
  <2> QED
    BY <1>4, <1>6, <2>3 DEF w
<1>7. CASE ~delay
  BY <1>1, <1>3, <1>4, <1>7 DEF w
<1> QED
  BY <1>6, <1>7

LEMMA SoundUntilBody ==
  ASSUME Sound, DelayUntilBody, UNCHANGED app
  PROVE  Sound'
<1> DEFINE w == (last[cur] + ask[cur].ticks) % TickMod
           delay == ShouldDelay(last[cur], w, kernel.tick)
<1>1. /\ At("suspended") /\ ask[cur].op \in {"delay", "until"} /\ Goto("resume")
      /\ UNCHANGED <<ask, cur, suspended, notify, notified, dead, owed>>
      /\ last' = [last EXCEPT ![cur] = w]
      /\ ahead' = [ahead EXCEPT ![cur] = IF @ = Lost THEN @ ELSE @ + ask[cur].ticks]
  BY DEF DelayUntilBody, Continue
<1>2. /\ w \in Ticks /\ Housed(kernel', Alive)
      /\ delay => Sleeps(kernel, kernel', cur, w)
      /\ ~delay => kernel' = kernel
  BY UntilIs
<1> HIDE DEF w, delay
<1>3. Data
  BY DEF Sound, Typed
<1>4. cur \in Task /\ ask[cur].ticks \in Int
  BY <1>1, BodyIs, Constants DEF Running
<1>5. Data'
  <2>1. ahead \in [Task -> Int]
    BY <1>3 DEF Data
  <2>2. ahead[cur] \in Int
    BY <1>4, <2>1
  <2>3. ahead[cur] + ask[cur].ticks \in Int
    BY <1>4, <2>2
  <2>4. ahead' \in [Task -> Int]
    BY <1>1, <2>1, <2>2, <2>3
  <2> QED
    BY <1>1, <1>2, <1>3, <2>4 DEF Data
<1>6. Sleepers(kernel') \subseteq Sleepers(kernel) \cup {cur}
      /\ kernel'.pending = kernel.pending
  BY <1>2 DEF Sleeps
<1> QED
  BY <1>1, <1>2, <1>5, <1>6, BodySound

(* The end of a suspension, in a call or of the idle task.                 *)
Ended(X) ==
  /\ Released(kernel, kernel', X \cup ToSet(kernel.pending))
  /\ InTurn(kernel, kernel', X, kernel.pended)

LEMMA EndsIs ==
  ASSUME Sound, NEW k, k = ResumeAll(kernel, cur),
         IF k.yield THEN Switch(k) ELSE Continue(k)
  PROVE  /\ Housed(kernel', Alive) /\ kernel'.pended = 0 /\ ToSet(kernel'.pending) = {}
         /\ kernel'.tick = (kernel.tick + kernel.pended) % TickMod
         /\ \E X \in SUBSET Sleepers(kernel) : Ended(X)
         /\ cur \in ReadyTasks(kernel) \/ k.yield => cur' \in ReadyTasks(kernel')
         /\ ~k.yield => cur' = cur
<1>1. Running /\ Housed(kernel, Alive)
  BY RunningIs DEF Sound
<1>2. /\ Housed(k, Alive) /\ k.pended = 0
      /\ k.tick = (kernel.tick + kernel.pended) % TickMod
      /\ \E X \in SUBSET Sleepers(kernel) :
           /\ Released(kernel, k, X \cup ToSet(kernel.pending))
           /\ InTurn(kernel, k, X, kernel.pended)
  BY <1>1, ResumeHouse DEF Running
<1>3. PICK X \in SUBSET Sleepers(kernel) :
           /\ Released(kernel, k, X \cup ToSet(kernel.pending))
           /\ InTurn(kernel, k, X, kernel.pended)
  BY <1>2
<1>4. /\ Housed(kernel', Alive) /\ Quiet(k, kernel')
      /\ k.yield => cur' \in ReadyTasks(kernel')
      /\ ~k.yield => cur' = cur
  BY <1>2, SwitchIs, ContinueIs
<1>5. Released(kernel, kernel', X \cup ToSet(kernel.pending))
  BY <1>3, <1>4, QuietReleased
<1>6. InTurn(kernel, kernel', X, kernel.pended)
  <2>1. Sleepers(kernel') = Sleepers(k)
        /\ \A t \in Sleepers(k) : Left(kernel', t) = Left(k, t)
    BY <1>4 DEF Quiet, SameClock, Left
  <2> QED
    BY <1>3, <2>1 DEF InTurn
<1>7. \E Y \in SUBSET Sleepers(kernel) : Ended(Y)
  BY <1>5, <1>6 DEF Ended
<1>8. ToSet(kernel'.pending) = {} /\ ReadyTasks(kernel) \subseteq ReadyTasks(kernel')
  BY <1>5 DEF Released
<1>9. kernel'.pended = 0 /\ kernel'.tick = (kernel.tick + kernel.pended) % TickMod
  BY <1>2, <1>4 DEF Quiet, SameClock
<1> QED
  BY <1>4, <1>7, <1>8, <1>9

LEMMA EndsSound ==
  ASSUME Running, Noticed, Own(cur), at[cur] # "taken", at'[cur] # "taken",
         at'[cur] \notin Holding, suspended' = 0, UNCHANGED <<notify, notified>>,
         kernel'.pended = 0, ToSet(kernel'.pending) = {}, cur' \in Task,
         NEW X \in SUBSET Sleepers(kernel), Ended(X)
  PROVE  Exclusive' /\ Noticed'
<1>1. \A t \in Task : at'[t] \notin Holding
  BY DEF Running, Own
<1>2. Exclusive'
  BY <1>1 DEF Exclusive
<1>3. \A t \in Sleepers(kernel') : t \in Sleepers(kernel) /\ t \notin ToSet(kernel.pending)
  BY DEF Ended, Released
<1>4. \A t \in Task : at[t] = "taken" <=> at'[t] = "taken"
  BY DEF Own
<1>5. Noticed'
  BY <1>3, <1>4, NoticedKept
<1> QED
  BY <1>2, <1>5

LEMMA ResumeFrom ==
  ASSUME Sound, Resume
  PROVE  LET k == ResumeAll(kernel, cur)
         IN /\ Running /\ InCall /\ at[cur] \in {"resume", "suspended"}
            /\ at[cur] = "suspended" => ask[cur].op = "suspend"
            /\ at[cur] = "resume" => ask[cur].op \in {"delay", "until"}
            /\ ask[cur] \in app.asks /\ AskOK(ask[cur], cur)
            /\ IF k.yield THEN Switch(k) ELSE Continue(k)
            /\ IF k.yield \/ ask[cur].op = "suspend" THEN Goto("return")
                                                     ELSE Goto("yield")
            /\ UNCHANGED <<ask, notify, notified, dead, last, owed, ahead>>
            /\ suspended = 1 /\ suspended' = 0
<1>1. Running /\ InCall /\ at[cur] \in {"resume", "suspended"} /\ cur \in Task
      /\ (at[cur] = "suspended" => ask[cur].op = "suspend")
  BY RunningIs DEF Sound, Typed, Resume, At
<1>2. Place(at[cur], ask[cur], cur) /\ AskOK(ask[cur], cur)
  BY <1>1 DEF InCall
<1>3. (at[cur] = "resume" => ask[cur].op \in {"delay", "until"}) /\ ask[cur] \in app.asks
  BY <1>1, <1>2 DEF Place, AskOK
<1>4. suspended = 1 /\ suspended' = 0
  BY <1>1 DEF Running, Holding, Resume
<1> QED
  BY <1>1, <1>2, <1>3, <1>4 DEF Resume, measures

LEMMA SoundResume ==
  ASSUME Sound, Resume, UNCHANGED app
  PROVE  Sound'
<1> DEFINE k == ResumeAll(kernel, cur)
<1>1. /\ Running /\ InCall /\ at[cur] \in {"resume", "suspended"}
      /\ at[cur] = "suspended" => ask[cur].op = "suspend"
      /\ at[cur] = "resume" => ask[cur].op \in {"delay", "until"}
      /\ ask[cur] \in app.asks /\ AskOK(ask[cur], cur)
      /\ IF k.yield THEN Switch(k) ELSE Continue(k)
      /\ IF k.yield \/ ask[cur].op = "suspend" THEN Goto("return") ELSE Goto("yield")
      /\ UNCHANGED <<ask, notify, notified, dead, last, owed, ahead>>
      /\ suspended = 1 /\ suspended' = 0
  BY ResumeFrom
<1>2. /\ Housed(kernel', Alive) /\ kernel'.pended = 0 /\ ToSet(kernel'.pending) = {}
      /\ \E X \in SUBSET Sleepers(kernel) : Ended(X)
      /\ cur \in ReadyTasks(kernel) \/ k.yield => cur' \in ReadyTasks(kernel')
      /\ ~k.yield => cur' = cur
  BY <1>1, EndsIs
<1> HIDE DEF k
<1>3. PICK X \in SUBSET Sleepers(kernel) : Ended(X)
  BY <1>2
<1>4. cur \in Task /\ cur' \in Task /\ {"return", "yield"} \subseteq Places
      /\ Data /\ Noticed
  BY <1>1, <1>2 DEF Running, ReadyTasks, Places, Sound, Typed
<1>5. PICK p \in {"return", "yield"} : Goto(p) /\ (p = "yield" => ~k.yield /\ ask[cur].op # "suspend")
  BY <1>1
<1>6. Own(cur) /\ at'[cur] = p /\ ask'[cur] = ask[cur]
  BY <1>1, <1>4, <1>5, GotoOwn
<1>7. AskOK(ask'[cur], cur) /\ Place(at'[cur], ask'[cur], cur)
  <2>1. ask[cur].op \in {"delay", "until", "suspend"} /\ ask[cur] # NoAsk
    BY <1>1 DEF NoAsk
  <2> QED
    BY <1>1, <1>5, <1>6, <2>1 DEF Place
<1>8. Exclusive' /\ Noticed'
  BY <1>1, <1>2, <1>3, <1>4, <1>5, <1>6, EndsSound DEF Holding
<1>9. cur' \in ReadyTasks(kernel') \/ (cur' = cur /\ at'[cur] \in {"resume", "yield"})
  <2>1. CASE k.yield \/ cur \in ReadyTasks(kernel)
    BY <1>2, <2>1
  <2>2. CASE ~k.yield /\ cur \notin ReadyTasks(kernel)
    <3>1. at[cur] = "resume" /\ ask[cur].op # "suspend"
      BY <1>1, <2>2 DEF Running
    <3>2. at'[cur] = "yield"
      BY <1>1, <1>4, <2>2, <3>1 DEF Goto, InCall
    <3> QED
      BY <1>2, <2>2, <3>2
  <2> QED
    BY <2>1, <2>2
<1>10. Data' /\ at[cur] # "yield" /\ (at'[cur] = "reap" => terminated # <<>>)
  BY <1>1, <1>4, <1>5, <1>6 DEF Data
<1> QED
  BY <1>1, <1>2, <1>6, <1>7, <1>8, <1>9, <1>10, SoundOwn

LEMMA SoundYield ==
  ASSUME Sound, Yield, UNCHANGED app
  PROVE  Sound'
<1>1. Running /\ InCall /\ cur \in Task /\ Noticed /\ Data /\ Housed(kernel, Alive)
  BY RunningIs DEF Sound, Typed
<1>2. /\ at[cur] = "yield" /\ Switch(kernel) /\ Goto("return") /\ "return" \in Places
      /\ UNCHANGED <<suspended, ask, notify, notified, dead, last, owed, ahead>>
  BY DEF Yield, At, measures, Places
<1>3. Housed(kernel', Alive) /\ Quiet(kernel, kernel') /\ cur' \in ReadyTasks(kernel')
  BY <1>1, <1>2, SwitchIs
<1>4. Own(cur) /\ at'[cur] = "return" /\ ask'[cur] = ask[cur]
  BY <1>1, <1>2, GotoOwn
<1>5. AskOK(ask'[cur], cur) /\ Place(at'[cur], ask'[cur], cur)
  <2>1. Place("yield", ask[cur], cur) /\ AskOK(ask[cur], cur)
    BY <1>1, <1>2 DEF InCall
  <2> QED
    BY <1>4, <2>1 DEF Place
<1>6. Exclusive' /\ Noticed'
  <2>1. cur' \in Task
    BY <1>3 DEF ReadyTasks
  <2>2. Exclusive'
    BY <1>1, <1>2, <1>3, <1>4, <2>1, ExclusiveFree DEF Holding, Quiet, SameClock
  <2>3. Noticed'
    BY <1>1, <1>2, <1>3, <1>4, NoticedKept DEF Quiet, Own
  <2> QED
    BY <2>2, <2>3
<1>7. Data' /\ suspended' \in {0, 1}
  BY <1>1, <1>2 DEF Data, Sound, Typed
<1> QED
  BY <1>2, <1>3, <1>4, <1>5, <1>6, <1>7, SoundOwn

LEMMA SoundFinish ==
  ASSUME Sound, Finish, UNCHANGED app
  PROVE  Sound'
<1>1. Running /\ InCall /\ cur \in Task /\ Noticed /\ Data /\ Housed(kernel, Alive)
  BY RunningIs DEF Sound, Typed
<1>2. /\ at[cur] = "return" /\ Return
      /\ UNCHANGED <<kernel, cur, suspended, notify, notified, dead, last, ahead>>
  BY DEF Finish, At, Return
<1>3. /\ Own(cur) /\ at'[cur] = "run" /\ AskOK(ask'[cur], cur)
      /\ Place(at'[cur], ask'[cur], cur)
  BY <1>1, <1>2, ReturnOwn DEF Finish
<1>4. cur' \in ReadyTasks(kernel') /\ Housed(kernel', Alive)
  BY <1>1, <1>2 DEF Running
<1>5. Exclusive'
  BY <1>1, <1>2, <1>3, ExclusiveFree DEF Holding
<1>6. Noticed'
  BY <1>1, <1>2, <1>3, NoticedKept DEF Own
<1>7. Data' /\ suspended' \in {0, 1}
  <2>1. owed \in [Task -> Int]
    BY <1>1 DEF Data
  <2>2. owed' = [owed EXCEPT ![cur] = 0]
    BY <1>2 DEF Return
  <2>3. 0 \in Int
    OBVIOUS
  <2>4. owed' \in [Task -> Int]
    BY <2>1, <2>2, <2>3, ChangedAt
  <2> QED
    BY <1>1, <1>2, <2>4 DEF Data, Sound, Typed
<1> QED
  BY <1>2, <1>3, <1>4, <1>5, <1>6, <1>7, SoundOwn

(* The first critical section of a take: the task sleeps only on a count   *)
(* of nothing.                                                             *)
LEMMA TakeIs ==
  ASSUME Sound, Take, UNCHANGED app
  PROVE  /\ Running /\ InCall /\ Own(cur) /\ at[cur] = "run" /\ ask[cur] = NoAsk
         /\ at'[cur] = "taken" /\ ask'[cur] \in app.asks /\ ask'[cur].task = cur
         /\ ask'[cur].op \in {"take", "takeAll"} /\ ask'[cur].ticks \in Ticks
         /\ AskOK(ask'[cur], cur)
         /\ cur \in ReadyTasks(kernel) \ {Idle} /\ suspended = 0
<1>1. Running /\ InCall /\ app \in Applications /\ cur \in Task
  BY RunningIs DEF Sound, Typed
<1>2. PICK op \in {"take", "takeAll"} : Asks(op)
  BY DEF Take
<1>3. Goto("taken") /\ "taken" \in Places
  BY DEF Take, Places
<1>4. /\ Own(cur) /\ at[cur] = "run" /\ ask[cur] = NoAsk /\ at'[cur] = "taken"
      /\ ask'[cur] \in app.asks /\ ask'[cur].task = cur /\ ask'[cur].op = op
      /\ AskOK(ask'[cur], cur) /\ cur # Idle
  BY <1>1, <1>2, <1>3, AskOwn
<1>5. ask'[cur].ticks \in Ticks
  BY <1>1, <1>2, <1>4, AskIs
<1>6. cur \in ReadyTasks(kernel) /\ suspended = 0
  BY <1>1, <1>4 DEF Running, Holding
<1> QED
  BY <1>1, <1>2, <1>4, <1>5, <1>6

(* ... in one of two ways: it goes on, or it sleeps and another goes on.   *)
Sleepless == Continue(kernel) /\ UNCHANGED owed

TakeSleeps(ticks) ==
  /\ ticks # 0 /\ notified[cur] = 0
  /\ notify' = [notify EXCEPT ![cur] = "waiting"]
  /\ owed' = [owed EXCEPT ![cur] = ticks]
  /\ Switch(Delay(kernel, cur, ticks))

LEMMA TakeWays ==
  ASSUME Take
  PROVE  /\ Sleepless \/ TakeSleeps(ask'[cur].ticks)
         /\ \/ UNCHANGED notify
            \/ notify' = [notify EXCEPT ![cur] = "waiting"] /\ notified[cur] = 0
         /\ UNCHANGED <<suspended, notified, last, ahead, dead>>
  BY DEF Take, Sleepless, TakeSleeps

LEMMA TakeHouse ==
  ASSUME Sound, Take, UNCHANGED app, TakeSleeps(ask'[cur].ticks)
  PROVE  LET w == (kernel.tick + ask'[cur].ticks) % TickMod
         IN /\ Housed(kernel', Alive) /\ cur' \in ReadyTasks(kernel')
            /\ ReadyTasks(kernel') = ReadyTasks(kernel) \ {cur}
            /\ Sleepers(kernel') = Sleepers(kernel) \cup {cur}
            /\ kernel'.wake = [kernel.wake EXCEPT ![cur] = w]
            /\ ToSet(kernel'.pending) = ToSet(kernel.pending) /\ SameClock(kernel, kernel')
<1> DEFINE ticks == ask'[cur].ticks
           w == (kernel.tick + ticks) % TickMod
           q == Delay(kernel, cur, ticks)
<1>1. Housed(kernel, Alive) /\ cur \in ReadyTasks(kernel) \ {Idle} /\ ticks \in Ticks
  BY TakeIs DEF Sound
<1>2. ticks # 0 /\ Switch(q)
  BY DEF TakeSleeps
<1>3. Housed(q, Alive) /\ Sleeps(kernel, q, cur, w)
  BY <1>1, <1>2, DelayHouse
<1> HIDE DEF w, q
<1>4. Housed(kernel', Alive) /\ Quiet(q, kernel') /\ cur' \in ReadyTasks(kernel')
  BY <1>2, <1>3, SwitchIs
<1>5. /\ ReadyTasks(kernel') = ReadyTasks(kernel) \ {cur}
      /\ Sleepers(kernel') = Sleepers(kernel) \cup {cur}
      /\ kernel'.wake = [kernel.wake EXCEPT ![cur] = w]
      /\ ToSet(kernel'.pending) = ToSet(kernel.pending) /\ SameClock(kernel, kernel')
  BY <1>3, <1>4 DEF Sleeps, Quiet, SameClock
<1> QED
  BY <1>4, <1>5 DEF w

LEMMA SoundTake ==
  ASSUME Sound, Take, UNCHANGED app
  PROVE  Sound'
<1> DEFINE ticks == ask'[cur].ticks
<1>1. /\ Running /\ InCall /\ Own(cur) /\ at[cur] = "run" /\ ask[cur] = NoAsk
      /\ at'[cur] = "taken" /\ ask'[cur].op \in {"take", "takeAll"}
      /\ ticks \in Ticks /\ AskOK(ask'[cur], cur)
      /\ cur \in ReadyTasks(kernel) \ {Idle} /\ suspended = 0
  BY TakeIs
<1>2. /\ Sleepless \/ TakeSleeps(ticks)
      /\ \/ UNCHANGED notify
         \/ notify' = [notify EXCEPT ![cur] = "waiting"] /\ notified[cur] = 0
      /\ UNCHANGED <<suspended, notified, last, ahead, dead>>
  BY TakeWays
<1>3. Noticed /\ Data /\ Housed(kernel, Alive) /\ cur \in Task
  BY <1>1 DEF Sound, Typed, Running
<1>4. Place(at'[cur], ask'[cur], cur)
  BY <1>1 DEF Place, NoAsk
<1>5. /\ Housed(kernel', Alive) /\ cur' \in ReadyTasks(kernel')
      /\ SameClock(kernel, kernel') /\ ToSet(kernel'.pending) = ToSet(kernel.pending)
      /\ Sleepers(kernel') \subseteq Sleepers(kernel) \cup {cur}
      /\ cur \in Sleepers(kernel') => notify'[cur] = "waiting"
  <2>1. CASE Sleepless
    BY <1>1, <1>3, <2>1, ContinueIs DEF Sleepless, Quiet, Running
  <2>2. CASE TakeSleeps(ticks)
    <3>1. notify'[cur] = "waiting"
      BY <1>3, <2>2 DEF TakeSleeps, Data
    <3> QED
      BY <2>2, <3>1, TakeHouse
  <2> QED
    BY <1>2, <2>1, <2>2
<1>6. Data'
  <2>0. owed \in [Task -> Int]
    BY <1>3 DEF Data
  <2>00. ticks \in Int
    BY <1>1, Constants
  <2>1. owed' \in [Task -> Int]
    <3> HIDE DEF ticks
    <3>1. owed' = owed \/ owed' = [owed EXCEPT ![cur] = ticks]
      BY <1>2 DEF Sleepless, TakeSleeps
    <3> QED
      BY <2>0, <2>00, <3>1
  <2>2. notify' \in [Task -> {"not waiting", "waiting", "notified"}]
    BY <1>2, <1>3 DEF Data
  <2> QED
    BY <1>2, <1>3, <2>1, <2>2 DEF Data
<1>7. cur' \in Task
  BY <1>5 DEF ReadyTasks
<1>8. Exclusive'
  BY <1>1, <1>2, <1>5, <1>7, ExclusiveFree DEF Holding, SameClock
<1>9. Noticed'
  <2>1. ToSet(kernel.pending) = {}
    BY <1>1 DEF Running, Holding
  <2>2. ASSUME NEW t \in Task
        PROVE  /\ notify'[t] = "waiting" => at'[t] = "taken" /\ notified'[t] = 0
               /\ at'[t] = "taken" /\ t \in Sleepers(kernel') /\ notify'[t] # "waiting"
                  => t \in ToSet(kernel'.pending)
    <3>1. CASE t = cur
      <4>1. notify[cur] # "waiting"
        BY <1>1, <1>3 DEF Noticed
      <4> QED
        BY <1>1, <1>2, <1>3, <1>5, <3>1, <4>1 DEF Data
    <3>2. CASE t # cur
      <4>1. notify'[t] = notify[t] /\ notified'[t] = notified[t] /\ at'[t] = at[t]
        BY <1>1, <1>2, <1>3, <3>2 DEF Own, Data
      <4> QED
        BY <1>3, <1>5, <2>1, <3>2, <4>1 DEF Noticed
    <3> QED
      BY <3>1, <3>2
  <2> QED
    BY <1>5, <2>1, <2>2 DEF Noticed
<1>10. suspended' \in {0, 1} /\ (at'[cur] = "reap" => terminated # <<>>)
  BY <1>1, <1>2
<1> QED
  BY <1>1, <1>2, <1>4, <1>5, <1>6, <1>8, <1>9, <1>10, SoundOwn

LEMMA SoundTaken ==
  ASSUME Sound, Taken, UNCHANGED app
  PROVE  Sound'
<1>1. Running /\ InCall /\ cur \in Task /\ Noticed /\ Data /\ Housed(kernel, Alive)
  BY RunningIs DEF Sound, Typed
<1>2. /\ at[cur] = "taken" /\ Return
      /\ UNCHANGED <<kernel, cur, suspended, dead, last, ahead>>
      /\ notified' = [notified EXCEPT ![cur] =
                        IF @ = 0 \/ ask[cur].op = "takeAll" THEN 0 ELSE @ - 1]
      /\ notify' = [notify EXCEPT ![cur] = "not waiting"]
  BY DEF Taken, At, Return
<1>3. /\ Own(cur) /\ at'[cur] = "run" /\ AskOK(ask'[cur], cur)
      /\ Place(at'[cur], ask'[cur], cur)
  BY <1>1, <1>2, ReturnOwn DEF Taken
<1>4. cur \in ReadyTasks(kernel) /\ suspended = 0
  BY <1>1, <1>2 DEF Running, Holding
<1>5. Exclusive'
  BY <1>1, <1>2, <1>3, ExclusiveFree DEF Holding
<1>6. notified \in [Task -> 0..MaxNotified] /\ notify \in [Task -> {"not waiting", "waiting", "notified"}]
  BY <1>1 DEF Data
<1>7. Noticed'
  <2>1. ToSet(kernel'.pending) = {}
    BY <1>1, <1>2 DEF Running, Holding
  <2>2. ASSUME NEW t \in Task \ {cur}
        PROVE  notify'[t] = notify[t] /\ notified'[t] = notified[t] /\ at'[t] = at[t]
    BY <1>2, <1>3, <1>6 DEF Own
  <2>3. notify'[cur] # "waiting" /\ at'[cur] # "taken"
    BY <1>1, <1>2, <1>3, <1>6
  <2> QED
    BY <1>1, <1>2, <2>1, <2>2, <2>3 DEF Noticed
<1>8. Data'
  <2>1. /\ owed \in [Task -> Int] /\ 0 \in Int
        /\ owed' = [owed EXCEPT ![cur] = 0]
    <3>1. owed \in [Task -> Int]
      BY <1>1 DEF Data
    <3>2. owed' = [owed EXCEPT ![cur] = 0]
      BY <1>2 DEF Return
    <3>3. 0 \in Int
      OBVIOUS
    <3> QED
      BY <3>1, <3>2, <3>3
  <2>2. owed' \in [Task -> Int]
    BY <2>1, ChangedAt
  <2>3. MaxNotified \in Nat
    BY DelayAssumption
  <2>4. ASSUME NEW n \in 0..MaxNotified
        PROVE  (IF n = 0 \/ ask[cur].op = "takeAll" THEN 0 ELSE n - 1) \in 0..MaxNotified
    BY <2>3, <2>4
  <2>5. notified' \in [Task -> 0..MaxNotified]
    BY <1>1, <1>2, <1>6, <2>4, ChangedAt
  <2>6. notify' \in [Task -> {"not waiting", "waiting", "notified"}]
    BY <1>2, <1>6
  <2> QED
    BY <1>1, <1>2, <2>2, <2>5, <2>6 DEF Data
<1>9. /\ suspended' \in {0, 1} /\ cur' \in ReadyTasks(kernel') /\ Housed(kernel', Alive)
      /\ at'[cur] # "reap"
  BY <1>1, <1>2, <1>3, <1>4
<1> QED
  BY <1>2, <1>3, <1>5, <1>7, <1>8, <1>9, SoundOwn

(* A notification is counted, and the task that waited for it woken.       *)
NotifiedOnly(t) ==
  /\ notified \in [Task -> 0..MaxNotified]
  /\ notified' \in [Task -> 0..MaxNotified]
  /\ notify' = [notify EXCEPT ![t] = "notified"] /\ notify'[t] = "notified"
  /\ notify' \in [Task -> {"not waiting", "waiting", "notified"}]
  /\ \A u \in Task \ {t} : notified'[u] = notified[u] /\ notify'[u] = notify[u]

LEMMA NotifiedIs ==
  ASSUME Data, NEW t \in Task, Notified(t)
  PROVE  NotifiedOnly(t)
<1>1. notified \in [Task -> 0..MaxNotified]
  BY DEF Data
<1>2. notify \in [Task -> {"not waiting", "waiting", "notified"}]
  BY DEF Data
<1>3. MaxNotified \in Nat /\ notified[t] < MaxNotified
  BY DelayAssumption DEF Notified
<1>4. notified[t] + 1 \in 0..MaxNotified
  BY <1>1, <1>3
<1>5. notified' = [notified EXCEPT ![t] = notified[t] + 1]
  BY DEF Notified
<1>6. notified' \in [Task -> 0..MaxNotified]
  BY <1>1, <1>4, <1>5, ChangedAt
<1>7. notify' = [notify EXCEPT ![t] = "notified"]
  BY DEF Notified
<1>8. notify' \in [Task -> {"not waiting", "waiting", "notified"}] /\ notify'[t] = "notified"
  BY <1>2, <1>7
<1>9. \A u \in Task \ {t} : notified'[u] = notified[u] /\ notify'[u] = notify[u]
  BY <1>1, <1>2, <1>5, <1>7
<1> QED
  BY <1>1, <1>6, <1>7, <1>8, <1>9 DEF NotifiedOnly

LEMMA QuietIsReleased ==
  ASSUME NEW k, NEW r, Quiet(k, r)
  PROVE  Released(k, r, {})
  BY DEF Quiet, Released

LEMMA WokenIs ==
  ASSUME Sound, NEW t \in Alive, notify[t] = "waiting",
         NEW free, free = AddToReady(RemoveGeneric(kernel, t), t)
  PROVE  /\ Housed(free, Alive) /\ Released(kernel, free, {t}) /\ SameClock(kernel, free)
         /\ t \notin ToSet(kernel.pending)
<1>1. t \notin ToSet(kernel.pending)
  BY DEF Sound, Noticed
<1>2. Housed(kernel, Alive) /\ Alive \in SUBSET Task
  BY RunningIs DEF Sound, Running
<1> QED
  BY <1>1, <1>2, FreeIs

(* Where a notification leaves the task it is for.                         *)
Given(t) ==
  \/ /\ notify[t] # "waiting" /\ Sleepers(kernel') = Sleepers(kernel)
     /\ ToSet(kernel'.pending) = ToSet(kernel.pending)
  \/ /\ notify[t] = "waiting" /\ Sleepers(kernel') = Sleepers(kernel) \ {t}
     /\ ToSet(kernel'.pending) = ToSet(kernel.pending) \ {t}
  \/ /\ notify[t] = "waiting" /\ Sleepers(kernel') = Sleepers(kernel)
     /\ ToSet(kernel'.pending) = ToSet(kernel.pending) \cup {t}

LEMMA NoticedGive ==
  ASSUME Noticed, Running, NEW t \in Task, NotifiedOnly(t), Given(t),
         \A u \in Task : at[u] = "taken" <=> at'[u] = "taken"
  PROVE  Noticed'
<1>1. notify[t] = "waiting" => at[t] = "taken"
  BY DEF Noticed
<1>2. ASSUME NEW u \in Task
      PROVE  /\ notify'[u] = "waiting" => at'[u] = "taken" /\ notified'[u] = 0
             /\ at'[u] = "taken" /\ u \in Sleepers(kernel') /\ notify'[u] # "waiting"
                => u \in ToSet(kernel'.pending)
  <2>1. CASE u = t
    BY <2>1 DEF NotifiedOnly, Noticed, Given
  <2>2. CASE u # t
    BY <2>2 DEF NotifiedOnly, Noticed, Given
  <2> QED
    BY <2>1, <2>2
<1>3. ASSUME NEW u \in ToSet(kernel'.pending)
      PROVE  at'[u] = "taken" /\ notify'[u] = "notified"
  <2>1. ToSet(kernel.pending) \subseteq Task
    BY DEF Running
  <2>2. CASE u = t
    BY <1>1, <1>3, <2>2 DEF NotifiedOnly, Noticed, Given
  <2>3. CASE u # t
    BY <1>3, <2>1, <2>3 DEF NotifiedOnly, Noticed, Given
  <2> QED
    BY <2>2, <2>3
<1> QED
  BY <1>2, <1>3 DEF Noticed

LEMMA GiveIs ==
  ASSUME Sound, Give, UNCHANGED app
  PROVE  LET t == ask'[cur].to
         IN /\ Running /\ InCall /\ Own(cur) /\ at[cur] = "run" /\ ask[cur] = NoAsk
            /\ at'[cur] = "return" /\ ask'[cur] \in app.asks /\ ask'[cur].op = "give"
            /\ AskOK(ask'[cur], cur) /\ t \in Alive /\ NotifiedOnly(t)
            /\ Housed(kernel', Alive) /\ SameClock(kernel, kernel') /\ Given(t)
            /\ IF notify[t] = "waiting" THEN Released(kernel, kernel', {t})
                                        ELSE Released(kernel, kernel', {})
            /\ cur' \in ReadyTasks(kernel')
            /\ UNCHANGED <<suspended, last, owed, ahead, dead>>
<1> DEFINE t == ask'[cur].to
           free == AddToReady(RemoveGeneric(kernel, t), t)
<1>1. Running /\ InCall /\ app \in Applications /\ cur \in Task /\ Data
      /\ Housed(kernel, Alive)
  BY RunningIs DEF Sound, Typed
<1>2. /\ Asks("give") /\ Goto("return") /\ "return" \in Places
      /\ ~Dead(t) /\ Notified(t)
      /\ IF notify[t] # "waiting" THEN Continue(kernel)
         ELSE Switch(free) \/ Continue(free)
      /\ UNCHANGED <<suspended, last, owed, ahead, dead>>
  BY DEF Give, Places, measures
<1>3. /\ Own(cur) /\ at[cur] = "run" /\ ask[cur] = NoAsk /\ at'[cur] = "return"
      /\ ask'[cur] \in app.asks /\ ask'[cur].op = "give" /\ AskOK(ask'[cur], cur)
  BY <1>1, <1>2, AskOwn
<1>4. t \in Task
  BY <1>1, <1>3, AskIs
<1>5. cur \in ReadyTasks(kernel)
  BY <1>1, <1>3 DEF Running
<1> HIDE DEF t, free
<1>6. t \in Alive /\ NotifiedOnly(t)
  BY <1>1, <1>2, <1>4, NotifiedIs DEF Alive
<1>7. CASE notify[t] # "waiting"
  <2>1. Housed(kernel', Alive) /\ Quiet(kernel, kernel') /\ cur' = cur
    BY <1>1, <1>2, <1>7, ContinueIs
  <2>2. Released(kernel, kernel', {})
    BY <2>1, QuietIsReleased
  <2>3. Given(t) /\ SameClock(kernel, kernel') /\ cur' \in ReadyTasks(kernel')
    BY <1>5, <1>7, <2>1 DEF Given, Quiet
  <2> QED
    BY <1>1, <1>2, <1>3, <1>6, <1>7, <2>1, <2>2, <2>3 DEF t
<1>8. CASE notify[t] = "waiting"
  <2>1. Housed(free, Alive) /\ Released(kernel, free, {t}) /\ SameClock(kernel, free)
    BY <1>6, <1>8, WokenIs DEF free
  <2>2. /\ Housed(kernel', Alive) /\ Quiet(free, kernel')
        /\ cur' = cur \/ cur' \in ReadyTasks(kernel')
    BY <1>2, <1>8, <2>1, GoesOn
  <2>3. Released(kernel, kernel', {t})
    BY <2>1, <2>2, QuietReleased
  <2>4. Given(t) /\ SameClock(kernel, kernel') /\ cur' \in ReadyTasks(kernel')
    BY <1>5, <1>8, <2>1, <2>2, <2>3 DEF Given, Quiet, Released, SameClock
  <2> QED
    BY <1>1, <1>2, <1>3, <1>6, <1>8, <2>2, <2>3, <2>4 DEF t
<1> QED
  BY <1>7, <1>8

LEMMA SoundGive ==
  ASSUME Sound, Give, UNCHANGED app
  PROVE  Sound'
<1> DEFINE t == ask'[cur].to
<1>1. /\ Running /\ Own(cur) /\ at[cur] = "run"
      /\ at'[cur] = "return" /\ ask'[cur] \in app.asks /\ ask'[cur].op = "give"
      /\ AskOK(ask'[cur], cur) /\ t \in Alive /\ NotifiedOnly(t)
      /\ Housed(kernel', Alive) /\ SameClock(kernel, kernel') /\ Given(t)
      /\ Released(kernel, kernel', {t}) \/ Released(kernel, kernel', {})
      /\ cur' \in ReadyTasks(kernel')
      /\ UNCHANGED <<suspended, last, owed, ahead, dead>>
  BY GiveIs
<1> HIDE DEF t
<1>2. Place(at'[cur], ask'[cur], cur)
  BY <1>1 DEF Place, NoAsk
<1>3. t \in Task /\ cur' \in Task /\ cur \in Task
  BY <1>1 DEF Running, ReadyTasks
<1>4. Noticed' /\ ToSet(kernel'.pending) \subseteq ToSet(kernel.pending)
  <2>1. \A u \in Task : at[u] = "taken" <=> at'[u] = "taken"
    BY <1>1 DEF Own
  <2> QED
    BY <1>1, <1>3, <2>1, NoticedGive DEF Sound, Released
<1>5. Exclusive'
  BY <1>1, <1>3, <1>4, ExclusiveFree DEF Holding, SameClock
<1>6. Data'
  BY <1>1 DEF Sound, Typed, Data, NotifiedOnly
<1>7. suspended' \in {0, 1} /\ at'[cur] # "reap"
  BY <1>1 DEF Sound, Typed
<1> QED
  BY <1>1, <1>2, <1>4, <1>5, <1>6, <1>7, SoundOwn

(* A handler gives a notification, which during a suspension leaves the    *)
(* task where it sleeps.                                                   *)
IsrGave(t) ==
  /\ t \in Alive /\ NotifiedOnly(t) /\ Housed(kernel', Alive) /\ Given(t)
  /\ SameClock(kernel, kernel')
  /\ UNCHANGED <<cur, suspended, at, ask, last, owed, ahead, dead>>
  /\ \/ notify[t] # "waiting" /\ Released(kernel, kernel', {})
     \/ notify[t] = "waiting" /\ Released(kernel, kernel', {t})
     \/ notify[t] = "waiting" /\ suspended # 0 /\ Pends(kernel, kernel', t)

LEMMA GiveFromISRIs ==
  ASSUME Sound, GiveFromISR, UNCHANGED app
  PROVE  \E t \in Alive : IsrGave(t)
<1>1. Running /\ app \in Applications /\ Data /\ Housed(kernel, Alive) /\ suspended \in {0, 1}
  BY RunningIs DEF Sound, Typed
<1>2. PICK t \in app.given :
        /\ ~Dead(t) /\ Notified(t)
        /\ Continue(IF notify[t] # "waiting" THEN kernel
                    ELSE IF suspended = 0
                         THEN AddToReady(RemoveGeneric(kernel, t), t)
                         ELSE [kernel EXCEPT !.pending = Append(@, t)])
        /\ UNCHANGED <<suspended, at, ask, last, owed, ahead, dead>>
  BY DEF GiveFromISR, measures
<1>3. t \in Task
  BY <1>1, DelayAssumption
<1>4. t \in Alive /\ NotifiedOnly(t) /\ Alive \in SUBSET Task
  BY <1>1, <1>2, <1>3, NotifiedIs DEF Alive
<1>5. CASE notify[t] # "waiting"
  <2>1. Housed(kernel', Alive) /\ Quiet(kernel, kernel') /\ cur' = cur
    BY <1>1, <1>2, <1>5, ContinueIs
  <2>2. Released(kernel, kernel', {})
    BY <2>1, QuietIsReleased
  <2> QED
    BY <1>2, <1>4, <1>5, <2>1, <2>2 DEF IsrGave, Given, Quiet
<1>6. CASE notify[t] = "waiting" /\ suspended = 0
  <2> DEFINE free == AddToReady(RemoveGeneric(kernel, t), t)
  <2>1. Housed(free, Alive) /\ Released(kernel, free, {t}) /\ SameClock(kernel, free)
    BY <1>4, <1>6, WokenIs
  <2>2. Continue(free)
    BY <1>2, <1>6
  <2> HIDE DEF free
  <2>3. Housed(kernel', Alive) /\ Quiet(free, kernel') /\ cur' = cur
    BY <2>1, <2>2, ContinueIs
  <2>4. Released(kernel, kernel', {t}) /\ SameClock(kernel, kernel')
    BY <2>1, <2>3, QuietReleased DEF Quiet, SameClock
  <2> QED
    BY <1>2, <1>4, <1>6, <2>3, <2>4 DEF IsrGave, Given, Released
<1>7. CASE notify[t] = "waiting" /\ suspended # 0
  <2> DEFINE held == [kernel EXCEPT !.pending = Append(@, t)]
  <2>1. t \notin ToSet(kernel.pending)
    BY <1>4, <1>7, WokenIs
  <2>2. Housed(held, Alive) /\ Pends(kernel, held, t)
    BY <1>1, <1>4, <2>1, PendIs
  <2>3. Continue(held)
    BY <1>2, <1>7
  <2> HIDE DEF held
  <2>4. kernel' = held /\ cur' = cur
    BY <2>3 DEF Continue
  <2> QED
    BY <1>2, <1>4, <1>7, <2>2, <2>4 DEF IsrGave, Given, Pends
<1> QED
  BY <1>4, <1>5, <1>6, <1>7

LEMMA SoundGiveFromISR ==
  ASSUME Sound, GiveFromISR, UNCHANGED app
  PROVE  Sound'
<1>1. PICK t \in Alive : IsrGave(t)
  BY GiveFromISRIs
<1>2. Running /\ Alive' = Alive /\ t \in Task
  BY <1>1, RunningIs, AliveKept DEF IsrGave, Alive
<1>3. Noticed'
  BY <1>1, <1>2, NoticedGive DEF IsrGave, Sound
<1>4. Typed'
  <2>1. InCall'
    BY <1>1 DEF IsrGave, Sound, Typed, InCall, AskOK
  <2>2. Data'
    BY <1>1 DEF IsrGave, Sound, Typed, Data, NotifiedOnly
  <2> QED
    BY <1>1, <2>1, <2>2 DEF IsrGave, Sound, Typed, dead
<1>5. Housed(kernel', Alive')
  BY <1>1, <1>2 DEF IsrGave
<1>6. Awake'
  <2>1. ReadyTasks(kernel) \subseteq ReadyTasks(kernel')
    BY <1>1 DEF IsrGave, Released, Pends
  <2> QED
    BY <1>1, <2>1 DEF IsrGave, Sound, Awake
<1>7. Exclusive'
  <2>1. kernel'.pended = kernel.pended
        /\ (suspended = 0 => ToSet(kernel'.pending) \subseteq ToSet(kernel.pending))
    BY <1>1 DEF IsrGave, SameClock, Released
  <2> QED
    BY <1>1, <2>1 DEF IsrGave, Sound, Exclusive
<1>8. Buried'
  BY <1>1 DEF IsrGave, Sound, Buried, dead, Dead
<1> QED
  BY <1>3, <1>4, <1>5, <1>6, <1>7, <1>8 DEF Sound

LEMMA Buries ==
  ASSUME terminated \in Seq(Task), NEW t \in Task,
         terminated' = Append(terminated, t), UNCHANGED freed
  PROVE  /\ Alive' = Alive \ {t} /\ terminated' \in Seq(Task)
         /\ Len(terminated') = Len(terminated) + 1 /\ terminated' # <<>>
<1>1. \A u : Contains(terminated', u) <=> Contains(terminated, u) \/ u = t
  BY DEF Contains
<1> QED
  BY <1>1 DEF Alive, Dead

LEMMA Reaps ==
  ASSUME terminated \in Seq(Task), terminated # <<>>, terminated' = Tail(terminated),
         freed' = freed \cup {Head(terminated)}
  PROVE  /\ Alive' = Alive /\ terminated' \in Seq(Task) /\ Head(terminated) \in Task
         /\ Len(terminated') = Len(terminated) - 1
<1>1. /\ Len(terminated) \in Nat \ {0} /\ terminated' \in Seq(Task)
      /\ Len(terminated') = Len(terminated) - 1 /\ Head(terminated) = terminated[1]
      /\ \A i \in 1..Len(terminated') : terminated'[i] = terminated[i + 1]
  OBVIOUS
<1>2. ASSUME NEW u, Contains(terminated, u), u # Head(terminated)
      PROVE  Contains(terminated', u)
  <2>1. PICK i \in 1..Len(terminated) : terminated[i] = u
    BY <1>2 DEF Contains
  <2>2. i # 1 /\ i - 1 \in 1..Len(terminated') /\ terminated'[i - 1] = u
    BY <1>1, <1>2, <2>1
  <2> QED
    BY <2>2 DEF Contains
<1>3. ASSUME NEW u, Contains(terminated', u)
      PROVE  Contains(terminated, u)
  <2>1. PICK i \in 1..Len(terminated') : terminated'[i] = u
    BY <1>3 DEF Contains
  <2>2. i + 1 \in 1..Len(terminated) /\ terminated[i + 1] = u
    BY <1>1, <2>1
  <2> QED
    BY <2>2 DEF Contains
<1>4. Contains(terminated, Head(terminated)) /\ Head(terminated) \in Task
  BY <1>1 DEF Contains
<1>5. \A u : Dead(u)' <=> Dead(u)
  BY <1>2, <1>3, <1>4 DEF Dead
<1> QED
  BY <1>1, <1>4, <1>5 DEF Alive

LEMMA DeleteIs ==
  ASSUME Sound, Delete, UNCHANGED app
  PROVE  LET t == ask'[cur].to
         IN /\ Running /\ InCall /\ Own(cur) /\ at[cur] = "run" /\ ask[cur] = NoAsk
            /\ at'[cur] = IF t = cur THEN "yield" ELSE "deleted"
            /\ ask'[cur] \in app.asks /\ ask'[cur].op = "delete"
            /\ AskOK(ask'[cur], cur) /\ t \in Alive \ {Idle}
            /\ Alive' = Alive \ {t} /\ Housed(kernel', Alive')
            /\ Dropped(kernel, kernel', t)
            /\ terminated' \in Seq(Task) /\ deleted' = Len(terminated')
            /\ terminated' # <<>>
            /\ UNCHANGED <<cur, suspended, notified, notify, last, owed, ahead, freed>>
<1> DEFINE t == ask'[cur].to
<1>1. Running /\ InCall /\ app \in Applications /\ cur \in Task
      /\ Housed(kernel, Alive) /\ terminated \in Seq(Task) /\ deleted = Len(terminated)
  BY RunningIs DEF Sound, Typed, Buried
<1>2. PICK p \in {"yield", "deleted"} :
        p = (IF t = cur THEN "yield" ELSE "deleted") /\ Goto(p)
  BY DEF Delete
<1>3. /\ Asks("delete") /\ p \in Places /\ ~Dead(t)
      /\ Continue(RemoveEvent(RemoveGeneric(kernel, t), t))
      /\ terminated' = Append(terminated, t) /\ deleted' = deleted + 1
      /\ UNCHANGED <<suspended, notified, notify, last, owed, ahead, freed>>
  BY DEF Delete, Places, measures
<1>4. /\ Own(cur) /\ at[cur] = "run" /\ ask[cur] = NoAsk /\ at'[cur] = p
      /\ ask'[cur] \in app.asks /\ ask'[cur].op = "delete" /\ AskOK(ask'[cur], cur)
  BY <1>1, <1>2, <1>3, AskOwn
<1>5. t \in Task \ {Idle}
  BY <1>1, <1>4, AskIs
<1> HIDE DEF t
<1>6. t \in Alive \ {Idle} /\ Alive \in SUBSET Task
  BY <1>3, <1>5 DEF Alive
<1>7. /\ Alive' = Alive \ {t} /\ terminated' \in Seq(Task)
      /\ Len(terminated') = Len(terminated) + 1 /\ terminated' # <<>>
  BY <1>1, <1>3, <1>5, Buries
<1>8. Housed(kernel', Alive') /\ Dropped(kernel, kernel', t) /\ cur' = cur
  BY <1>1, <1>3, <1>6, <1>7, DropIs DEF Continue
<1> QED
  BY <1>1, <1>2, <1>3, <1>4, <1>6, <1>7, <1>8 DEF t

LEMMA SoundDelete ==
  ASSUME Sound, Delete, UNCHANGED app
  PROVE  Sound'
<1> DEFINE t == ask'[cur].to
<1>1. /\ Running /\ InCall /\ Own(cur) /\ at[cur] = "run" /\ ask[cur] = NoAsk
      /\ at'[cur] = IF t = cur THEN "yield" ELSE "deleted"
      /\ ask'[cur] \in app.asks /\ ask'[cur].op = "delete"
      /\ AskOK(ask'[cur], cur) /\ t \in Alive \ {Idle}
      /\ Alive' = Alive \ {t} /\ Housed(kernel', Alive')
      /\ Dropped(kernel, kernel', t)
      /\ terminated' \in Seq(Task) /\ deleted' = Len(terminated')
      /\ terminated' # <<>>
      /\ UNCHANGED <<cur, suspended, notified, notify, last, owed, ahead, freed>>
  BY DeleteIs
<1> HIDE DEF t
<1>2. Place(at'[cur], ask'[cur], cur) /\ at'[cur] \notin Holding /\ at'[cur] # "taken"
  BY <1>1 DEF Place, NoAsk, Holding
<1>3. cur \in Task /\ cur \in ReadyTasks(kernel) /\ cur \in Alive
  BY <1>1 DEF Running
<1>4. InCall'
  BY <1>1, <1>2, <1>3, OwnCallIs
<1>5. Typed'
  <2>1. Data'
    BY <1>1 DEF Sound, Typed, Data
  <2> QED
    BY <1>1, <1>4, <2>1 DEF Sound, Typed, Own
<1>6. Awake'
  BY <1>1, <1>3 DEF Awake, Dropped
<1>7. Exclusive'
  BY <1>1, <1>2, <1>3, ExclusiveFree DEF Holding, Dropped, SameClock
<1>8. Buried'
  <2>1. Dead(cur)' => at'[cur'] = "yield"
    <3>1. cur' = cur
      BY <1>1
    <3>2. at'[cur] # "yield" => cur \in Alive'
      BY <1>1, <1>3
    <3> QED
      BY <3>1, <3>2 DEF Alive
  <2>2. cur' \notin freed'
    BY <1>1 DEF Sound, Buried
  <2> QED
    BY <1>1, <2>1, <2>2 DEF Buried
<1>9. Noticed'
  <2>1. \A u \in Task : at[u] = "taken" <=> at'[u] = "taken"
    BY <1>1, <1>2 DEF Own
  <2>2. ToSet(kernel.pending) = {}
    BY <1>1 DEF Running, Holding
  <2> QED
    BY <1>1, <2>1, <2>2, NoticedKept DEF Dropped, Sound
<1> QED
  BY <1>1, <1>5, <1>6, <1>7, <1>8, <1>9 DEF Sound

LEMMA SoundAfterDelete ==
  ASSUME Sound, AfterDelete, UNCHANGED app
  PROVE  Sound'
<1>1. Running /\ InCall /\ cur \in Task /\ Noticed /\ Data /\ Housed(kernel, Alive)
  BY RunningIs DEF Sound, Typed
<1>2. /\ at[cur] = "deleted" /\ kernel' = ResetNextUnblock(kernel) /\ Goto("return")
      /\ "return" \in Places
      /\ UNCHANGED <<cur, suspended, ask, notify, notified, dead, last, owed, ahead>>
  BY DEF AfterDelete, At, Continue, measures, Places
<1>3. Housed(kernel', Alive) /\ Quiet(kernel, kernel')
  BY <1>1, <1>2, ResetIs
<1>4. Own(cur) /\ at'[cur] = "return" /\ ask'[cur] = ask[cur]
  BY <1>1, <1>2, GotoOwn
<1>5. AskOK(ask'[cur], cur) /\ Place(at'[cur], ask'[cur], cur)
  <2>1. Place("deleted", ask[cur], cur) /\ AskOK(ask[cur], cur)
    BY <1>1, <1>2 DEF InCall
  <2> QED
    BY <1>4, <2>1 DEF Place
<1>6. cur' \in ReadyTasks(kernel')
  BY <1>1, <1>2, <1>3 DEF Running, Quiet
<1>7. Exclusive'
  BY <1>1, <1>2, <1>3, <1>4, ExclusiveFree DEF Holding, Quiet, SameClock
<1>8. Noticed'
  BY <1>1, <1>2, <1>3, <1>4, NoticedKept DEF Quiet, Own
<1>9. Data' /\ suspended' \in {0, 1}
  BY <1>1, <1>2 DEF Data, Sound, Typed
<1> QED
  BY <1>2, <1>3, <1>4, <1>5, <1>6, <1>7, <1>8, <1>9, SoundOwn

(* The idle task.                                                          *)
LEMMA SoundIdleLook ==
  ASSUME Sound, IdleLook, UNCHANGED app
  PROVE  Sound'
<1>1. Running /\ InCall /\ cur \in Task /\ Noticed /\ Data /\ Housed(kernel, Alive)
  BY RunningIs DEF Sound, Typed
<1>2. /\ cur = Idle /\ at[cur] = "run" /\ Goto("looking") /\ "looking" \in Places
      /\ UNCHANGED <<kernel, cur, ask, notify, notified, dead, last, owed, ahead>>
      /\ suspended' = suspended + 1
  BY DEF IdleLook, At, measures, Places
<1>3. cur \in ReadyTasks(kernel) /\ suspended' = 1
  BY <1>1, <1>2 DEF Running, Holding
<1>4. Own(cur) /\ at'[cur] = "looking" /\ ask'[cur] = ask[cur]
  BY <1>1, <1>2, GotoOwn
<1>5. AskOK(ask'[cur], cur) /\ Place(at'[cur], ask'[cur], cur)
  <2>1. Place("run", ask[cur], cur) /\ AskOK(ask[cur], cur)
    BY <1>1, <1>2 DEF InCall
  <2> QED
    BY <1>2, <1>4, <2>1 DEF Place, NoAsk
<1>6. Exclusive'
  BY <1>1, <1>2, <1>3, <1>4, ExclusiveHeld DEF Holding
<1>7. Noticed'
  BY <1>1, <1>2, <1>4, NoticedKept DEF Own
<1>8. Data' /\ cur' \in ReadyTasks(kernel') /\ Housed(kernel', Alive)
  BY <1>1, <1>2, <1>3 DEF Data
<1> QED
  BY <1>2, <1>3, <1>4, <1>5, <1>6, <1>7, <1>8, SoundOwn

LEMMA IdleLookedIs ==
  ASSUME Sound, IdleLooked, UNCHANGED app
  PROVE  LET k == ResumeAll(kernel, cur)
         IN /\ Running /\ InCall /\ at[cur] = "looking"
            /\ ask[cur] = NoAsk /\ cur = Idle
            /\ Own(cur) /\ ask'[cur] = ask[cur]
            /\ at'[cur] = IF terminated = <<>> THEN "run" ELSE "reap"
            /\ IF k.yield THEN Switch(k) ELSE Continue(k)
            /\ UNCHANGED <<ask, notify, notified, dead, last, owed, ahead>>
            /\ suspended' = 0
<1>1. Running /\ InCall /\ cur \in Task /\ at[cur] = "looking"
  BY RunningIs DEF Sound, Typed, IdleLooked, At
<1>2. PICK p \in {"run", "reap"} :
        p = (IF terminated = <<>> THEN "run" ELSE "reap") /\ Goto(p)
  BY DEF IdleLooked
<1>3. Place("looking", ask[cur], cur) /\ p \in Places
  BY <1>1 DEF InCall, Places
<1>4. ask[cur] = NoAsk /\ cur = Idle
  BY <1>3 DEF Place
<1>5. UNCHANGED <<ask, notify, notified, dead, last, owed, ahead>>
  BY DEF IdleLooked, measures
<1>6. Own(cur) /\ at'[cur] = p /\ ask'[cur] = ask[cur]
  BY <1>1, <1>2, <1>3, <1>5, GotoOwn
<1>7. suspended' = 0
  BY <1>1 DEF Running, Holding, IdleLooked
<1> QED
  BY <1>1, <1>2, <1>4, <1>5, <1>6, <1>7 DEF IdleLooked

LEMMA SoundIdleLooked ==
  ASSUME Sound, IdleLooked, UNCHANGED app
  PROVE  Sound'
<1> DEFINE k == ResumeAll(kernel, cur)
<1>1. /\ Running /\ InCall /\ at[cur] = "looking"
      /\ ask[cur] = NoAsk /\ cur = Idle
      /\ Own(cur) /\ ask'[cur] = ask[cur]
      /\ at'[cur] = IF terminated = <<>> THEN "run" ELSE "reap"
      /\ IF k.yield THEN Switch(k) ELSE Continue(k)
      /\ UNCHANGED <<ask, notify, notified, dead, last, owed, ahead>>
      /\ suspended' = 0
  BY IdleLookedIs
<1>2. /\ Housed(kernel', Alive) /\ kernel'.pended = 0 /\ ToSet(kernel'.pending) = {}
      /\ \E X \in SUBSET Sleepers(kernel) : Ended(X)
      /\ cur \in ReadyTasks(kernel) => cur' \in ReadyTasks(kernel')
  BY <1>1, EndsIs
<1> HIDE DEF k
<1>3. PICK X \in SUBSET Sleepers(kernel) : Ended(X)
  BY <1>2
<1>4. cur' \in ReadyTasks(kernel')
  BY <1>1, <1>2 DEF Running
<1>5. cur' \in Task /\ Noticed /\ Data
  BY <1>4 DEF ReadyTasks, Sound, Typed
<1>6. Exclusive' /\ Noticed'
  BY <1>1, <1>2, <1>3, <1>5, EndsSound DEF Holding
<1>7. AskOK(ask'[cur], cur) /\ Place(at'[cur], ask'[cur], cur)
  BY <1>1 DEF AskOK, Place, NoAsk
<1>8. Data' /\ suspended' \in {0, 1} /\ (at'[cur] = "reap" => terminated # <<>>)
  BY <1>1, <1>5 DEF Data
<1> QED
  BY <1>1, <1>2, <1>4, <1>6, <1>7, <1>8, SoundOwn

LEMMA IdleReapIs ==
  ASSUME Sound, IdleReap, UNCHANGED app
  PROVE  /\ Running /\ at[cur] = "reap" /\ ask[cur] = NoAsk /\ cur = Idle
         /\ Own(cur) /\ ask'[cur] = ask[cur] /\ at'[cur] = "run"
         /\ UNCHANGED <<kernel, cur, suspended, notified, notify, last, owed, ahead>>
         /\ Alive' = Alive /\ terminated' \in Seq(Task) /\ deleted' = Len(terminated')
         /\ freed' \subseteq Task
<1>1. Running /\ InCall /\ cur \in Task /\ at[cur] = "reap"
  BY RunningIs DEF Sound, Typed, IdleReap, At
<1>2. Goto("run") /\ "run" \in Places /\ UNCHANGED ask
      /\ UNCHANGED <<kernel, cur, suspended, notified, notify, last, owed, ahead>>
  BY DEF IdleReap, Places, measures
<1>3. Own(cur) /\ ask'[cur] = ask[cur] /\ at'[cur] = "run"
  BY <1>1, <1>2, GotoOwn
<1>4. ask[cur] = NoAsk /\ cur = Idle
  BY <1>1 DEF InCall, Place
<1>5. terminated # <<>> /\ terminated \in Seq(Task) /\ deleted = Len(terminated)
      /\ freed \subseteq Task
  BY <1>1, <1>4 DEF Sound, Buried, Typed
<1>6. /\ Alive' = Alive /\ terminated' \in Seq(Task) /\ Head(terminated) \in Task
      /\ Len(terminated') = Len(terminated) - 1
  BY <1>5, Reaps DEF IdleReap
<1>7. deleted' = Len(terminated') /\ freed' \subseteq Task
  BY <1>5, <1>6 DEF IdleReap
<1> QED
  BY <1>1, <1>2, <1>3, <1>4, <1>6, <1>7

LEMMA SoundIdleReap ==
  ASSUME Sound, IdleReap, UNCHANGED app
  PROVE  Sound'
<1>1. /\ Running /\ at[cur] = "reap" /\ ask[cur] = NoAsk /\ cur = Idle
      /\ Own(cur) /\ ask'[cur] = ask[cur] /\ at'[cur] = "run"
      /\ UNCHANGED <<kernel, cur, suspended, notified, notify, last, owed, ahead>>
      /\ Alive' = Alive /\ terminated' \in Seq(Task) /\ deleted' = Len(terminated')
      /\ freed' \subseteq Task
  BY IdleReapIs
<1>2. AskOK(ask'[cur], cur) /\ Place(at'[cur], ask'[cur], cur)
  BY <1>1 DEF AskOK, Place, NoAsk
<1>3. cur \in Task /\ InCall /\ cur \in ReadyTasks(kernel) /\ cur \in Alive
  BY <1>1 DEF Running, Sound, Typed
<1>4. Typed'
  <2>1. InCall'
    BY <1>1, <1>2, <1>3, OwnCallIs
  <2>2. Data'
    BY <1>1 DEF Sound, Typed, Data
  <2> QED
    BY <1>1, <2>1, <2>2 DEF Sound, Typed, Own
<1>5. Housed(kernel', Alive') /\ Awake'
  BY <1>1, <1>3 DEF Sound, Awake
<1>6. Exclusive'
  BY <1>1, <1>3, ExclusiveFree DEF Holding
<1>7. Buried'
  <2>1. ~Dead(cur)' /\ cur' \notin freed'
    BY <1>1, <1>3 DEF Alive, Dead
  <2> QED
    BY <1>1, <2>1 DEF Buried
<1>8. Noticed'
  BY <1>1, NoticedKept DEF Own, Sound
<1> QED
  BY <1>4, <1>5, <1>6, <1>7, <1>8 DEF Sound

-----------------------------------------------------------------------------
(* The tick, and the whole.                                                *)

Woke(X) == Released(kernel, kernel', X) /\ InTurn(kernel, kernel', X, 1)

LEMMA TickFree ==
  ASSUME Sound, Tick, UNCHANGED app, suspended = 0
  PROVE  /\ Housed(kernel', Alive) /\ kernel'.tick = (kernel.tick + 1) % TickMod
         /\ kernel'.pended = kernel.pended
         /\ \E X \in SUBSET Sleepers(kernel) : Woke(X)
         /\ cur' = cur \/ cur' \in ReadyTasks(kernel')
<1> DEFINE k == IncrementTick(kernel)
<1>1. Housed(kernel, Alive) /\ Alive \in SUBSET Task
  BY RunningIs DEF Sound, Running
<1>2. /\ Housed(k, Alive) /\ Ticked(kernel, k)
      /\ \E X \in SUBSET Sleepers(kernel) :
           Released(kernel, k, X) /\ InTurn(kernel, k, X, 1)
  BY <1>1, TickHouse
<1>3. Switch(k) \/ Continue(k)
  BY DEF Tick
<1> HIDE DEF k
<1>4. /\ Housed(kernel', Alive) /\ Quiet(k, kernel')
      /\ cur' = cur \/ cur' \in ReadyTasks(kernel')
  BY <1>2, <1>3, GoesOn
<1>5. PICK X \in SUBSET Sleepers(kernel) :
           Released(kernel, k, X) /\ InTurn(kernel, k, X, 1)
  BY <1>2
<1>6. Released(kernel, kernel', X)
  BY <1>4, <1>5, QuietReleased
<1>7. InTurn(kernel, kernel', X, 1)
  <2>1. Sleepers(kernel') = Sleepers(k)
        /\ \A t \in Sleepers(k) : Left(kernel', t) = Left(k, t)
    BY <1>4 DEF Quiet, SameClock, Left
  <2> QED
    BY <1>5, <2>1 DEF InTurn
<1>8. \E Y \in SUBSET Sleepers(kernel) : Woke(Y)
  BY <1>6, <1>7 DEF Woke
<1>9. kernel'.tick = (kernel.tick + 1) % TickMod /\ kernel'.pended = kernel.pended
  BY <1>2, <1>4 DEF Ticked, Quiet, SameClock
<1> QED
  BY <1>4, <1>8, <1>9

(* A tick during a suspension moves nobody.                                *)
TickHeld ==
  /\ Housed(kernel', Alive) /\ cur' = cur
  /\ ReadyTasks(kernel') = ReadyTasks(kernel) /\ Sleepers(kernel') = Sleepers(kernel)
  /\ kernel'.wake = kernel.wake /\ kernel'.pending = kernel.pending
  /\ kernel'.tick = kernel.tick
  /\ kernel.pended < MaxPended
  /\ kernel.pended + 1 < PendedMod => kernel'.pended = kernel.pended + 1

LEMMA TickHeldIs ==
  ASSUME Sound, Tick, suspended # 0
  PROVE  TickHeld
<1> DEFINE k == [kernel EXCEPT !.pended = (@ + 1) % PendedMod]
<1>1. Housed(kernel, Alive)
  BY DEF Sound
<1>2. /\ Housed(k, Alive)
      /\ ReadyTasks(k) = ReadyTasks(kernel) /\ Sleepers(k) = Sleepers(kernel)
      /\ k.wake = kernel.wake /\ k.pending = kernel.pending /\ k.tick = kernel.tick
      /\ kernel.pended + 1 < PendedMod => k.pended = kernel.pended + 1
  BY <1>1, HoldIs
<1>3. kernel' = k /\ cur' = cur /\ kernel.pended < MaxPended
  BY DEF Tick, Continue
<1> QED
  BY <1>2, <1>3 DEF TickHeld

LEMMA SoundTick ==
  ASSUME Sound, Tick, UNCHANGED app
  PROVE  Sound'
<1>1. Running /\ Noticed /\ Data /\ InCall /\ cur \in Task
  BY RunningIs DEF Sound, Typed
<1>2. UNCHANGED <<app, suspended, at, ask, notified, notify, last, dead>>
  BY DEF Tick
<1>3. /\ Housed(kernel', Alive) /\ ReadyTasks(kernel) \subseteq ReadyTasks(kernel')
      /\ Sleepers(kernel') \subseteq Sleepers(kernel)
      /\ ToSet(kernel'.pending) \subseteq ToSet(kernel.pending)
      /\ suspended = 0 => kernel'.pended = kernel.pended
      /\ suspended # 0 => ToSet(kernel'.pending) = ToSet(kernel.pending) /\ cur' = cur
      /\ cur' = cur \/ cur' \in ReadyTasks(kernel')
  <2>1. CASE suspended = 0
    <3>1. PICK X \in SUBSET Sleepers(kernel) : Woke(X)
      BY <2>1, TickFree
    <3> QED
      BY <2>1, <3>1, TickFree DEF Woke, Released
  <2>2. CASE suspended # 0
    BY <2>2, TickHeldIs DEF TickHeld
  <2> QED
    BY <2>1, <2>2
<1>4. Alive' = Alive
  BY <1>2, AliveKept
<1>5. Typed'
  <2>1. owed \in [Task -> Int]
    BY <1>1 DEF Data
  <2>2. \A t \in Task : owed[t] \in Int /\ owed[t] - 1 \in Int
    BY <2>1
  <2>3. owed' \in [Task -> Int]
    BY <2>2 DEF Tick, Age
  <2>4. ahead \in [Task -> Int]
    BY <1>1 DEF Data
  <2>5. \A t \in Task : ahead[t] \in Int /\ ahead[t] - 1 \in Int
    BY <2>4
  <2>6. ahead' \in [Task -> Int]
    BY <2>5 DEF Tick, Age
  <2>7. Data'
    BY <1>1, <1>2, <2>3, <2>6 DEF Data
  <2>8. InCall'
    BY <1>1, <1>2 DEF InCall, AskOK
  <2>9. cur' \in Task
    BY <1>1, <1>3 DEF ReadyTasks
  <2> QED
    BY <1>2, <2>7, <2>8, <2>9 DEF Sound, Typed, dead
<1>6. Awake'
  BY <1>2, <1>3 DEF Awake, Sound
<1>7. Exclusive'
  <2>1. CASE suspended = 0
    BY <1>2, <1>3, <2>1 DEF Exclusive, Sound
  <2>2. CASE suspended # 0
    BY <1>2, <1>3, <2>2 DEF Exclusive, Sound
  <2> QED
    BY <2>1, <2>2
<1>8. Buried'
  <2>1. cur' = cur => (Dead(cur)' <=> Dead(cur)) /\ at'[cur'] = at[cur]
    BY <1>2 DEF Dead, dead
  <2>2. cur' \in ReadyTasks(kernel') => ~Dead(cur)' /\ cur' \notin freed'
    BY <1>3, <1>4 DEF Housed, Placed, Alive, Dead
  <2> QED
    BY <1>2, <1>3, <2>1, <2>2 DEF Buried, Sound, dead
<1>9. Noticed'
  <2>1. ASSUME NEW t \in Task, t \in Sleepers(kernel'), t \in ToSet(kernel.pending)
        PROVE  t \in ToSet(kernel'.pending)
    <3>1. suspended # 0
      BY <2>1 DEF Sound, Exclusive
    <3> QED
      BY <1>3, <2>1, <3>1
  <2> QED
    BY <1>1, <1>2, <1>3, <2>1, NoticedKept
<1> QED
  BY <1>3, <1>4, <1>5, <1>6, <1>7, <1>8, <1>9 DEF Sound

LEMMA SoundInit == Init => Sound
<1> SUFFICES ASSUME Init PROVE Sound
  OBVIOUS
<1>1. PICK order \in CreationOrders : kernel = KernelInit(order) /\ cur = FirstTask(order)
  BY DEF Init
<1>2. JustStarted(kernel, Task) /\ cur \in Task
  BY <1>1, KernelInitIs, FirstTaskIs
<1>3. /\ Lists(kernel) /\ ReadyTasks(kernel) = Task /\ Sleepers(kernel) = {}
      /\ ToSet(kernel.delayed) = {} /\ ToSet(kernel.overflow) = {}
      /\ ToSet(kernel.pending) = {} /\ kernel.pended = 0 /\ kernel.tick = 0
  <2>1. <<>> \in Seq(Task)
    OBVIOUS
  <2>2. ToSet(<<>>) = {}
    BY <2>1, ToSetIs
  <2> QED
    BY <1>2, <2>2 DEF JustStarted, Sleepers
<1>4. Alive = Task /\ terminated \in Seq(Task)
  <2>0. <<>> \in Seq(Task)
    OBVIOUS
  <2>1. terminated = <<>> /\ terminated \in Seq(Task) /\ freed = {}
    BY <2>0 DEF Init
  <2>2. \A t : ~Contains(terminated, t)
    BY <2>1, ToSetIs
  <2> QED
    BY <2>1, <2>2 DEF Alive, Dead
<1>6. Housed(kernel, Alive)
  BY <1>3, <1>4, Constants DEF Housed, Placed, NoOverdueSleeper
<1>7. /\ suspended = 0 /\ at = [t \in Task |-> "run"] /\ ask = [t \in Task |-> NoAsk]
      /\ notified = [t \in Task |-> 0] /\ notify = [t \in Task |-> "not waiting"]
      /\ last = [t \in Task |-> 0] /\ owed = [t \in Task |-> 0]
      /\ ahead = [t \in Task |-> 0] /\ terminated = <<>> /\ deleted = 0 /\ freed = {}
      /\ app \in Applications
  BY DEF Init
<1>8. InCall
  BY <1>7 DEF InCall, AskOK, Place, Places, NoAsk
<1>9. Data
  <2>1. 0 \in Int /\ 0 \in Ticks /\ 0 \in 0..MaxNotified
    BY Constants, DelayAssumption
  <2> QED
    BY <1>7, <2>1 DEF Data
<1>10. Typed
  BY <1>2, <1>4, <1>7, <1>8, <1>9 DEF Typed
<1>11. Awake /\ Exclusive
  <2>1. \A t \in Task : at[t] = "run" /\ at[t] \notin Holding
    BY <1>7 DEF Holding
  <2>2. Awake
    BY <1>2, <1>3 DEF Awake
  <2>3. cur \in Task /\ suspended = 0
    BY <1>2, <1>7
  <2> QED
    BY <1>3, <2>1, <2>2, <2>3 DEF Exclusive
<1>12. Buried
  <2>1. ~Dead(cur) /\ cur \notin freed
    BY <1>2, <1>4 DEF Alive, Dead
  <2> QED
    BY <1>7, <2>1, Constants DEF Buried
<1>13. Noticed
  BY <1>3, <1>7 DEF Noticed
<1> QED
  BY <1>6, <1>10, <1>11, <1>12, <1>13 DEF Sound

LEMMA SoundStep == Sound /\ [Next]_vars => Sound'
<1> SUFFICES ASSUME Sound, [Next]_vars PROVE Sound'
  OBVIOUS
<1>1. CASE UNCHANGED vars
  BY <1>1 DEF vars, calls, dead, measures, Sound, Typed, InCall, AskOK, Data, Alive, Dead,
              Awake, Exclusive, Buried, Noticed
<1>2. CASE Next
  <2>0. UNCHANGED app
    BY <1>2 DEF Next
  <2>1. CASE SuspendAll
    BY <2>0, <2>1, SoundSuspend
  <2>2. CASE DelayNone
    BY <2>0, <2>2, SoundDelayNone
  <2>3. CASE Take
    BY <2>0, <2>3, SoundTake
  <2>4. CASE Give
    BY <2>0, <2>4, SoundGive
  <2>5. CASE Delete
    BY <2>0, <2>5, SoundDelete
  <2>6. CASE GiveFromISR
    BY <2>0, <2>6, SoundGiveFromISR
  <2>7. CASE Tick
    BY <2>0, <2>7, SoundTick
  <2>8. CASE DelayBody
    BY <2>0, <2>8, SoundDelayBody
  <2>9. CASE DelayUntilBody
    BY <2>0, <2>9, SoundUntilBody
  <2>10. CASE Resume
    BY <2>0, <2>10, SoundResume
  <2>11. CASE Yield
    BY <2>0, <2>11, SoundYield
  <2>12. CASE Finish
    BY <2>0, <2>12, SoundFinish
  <2>13. CASE Taken
    BY <2>0, <2>13, SoundTaken
  <2>14. CASE AfterDelete
    BY <2>0, <2>14, SoundAfterDelete
  <2>15. CASE IdleLook
    BY <2>0, <2>15, SoundIdleLook
  <2>16. CASE IdleLooked
    BY <2>0, <2>16, SoundIdleLooked
  <2>17. CASE IdleReap
    BY <2>0, <2>17, SoundIdleReap
  <2> QED
    BY <1>2, <2>1, <2>2, <2>3, <2>4, <2>5, <2>6, <2>7, <2>8, <2>9, <2>10, <2>11, <2>12,
       <2>13, <2>14, <2>15, <2>16, <2>17 DEF Next, TaskStep
<1> QED
  BY <1>1, <1>2

LEMMA SoundAlways == Spec => []Sound
<1> QED
  BY SoundInit, SoundStep, PTL DEF Spec

-----------------------------------------------------------------------------
(* What the invariant says.                                                *)

LEMMA AsleepIs ==
  ASSUME Sound, NEW t
  PROVE  /\ Asleep(t) <=> t \in Sleepers(kernel)
         /\ Contains(kernel.delayed, t) <=> t \in ToSet(kernel.delayed)
         /\ Contains(kernel.pending, t) <=> t \in ToSet(kernel.pending)
<1>1. /\ kernel.delayed \in Seq(Task) /\ kernel.overflow \in Seq(Task)
      /\ kernel.pending \in Seq(Task)
  BY KernelFields DEF Sound, Housed, Lists
<1> QED
  BY <1>1, ToSetIs DEF Asleep, Sleepers

(* The state keeps its type and every task that lives is in exactly one    *)
(* list of the kernel, in order, whatever tasks of the program delay,      *)
(* notify and delete each other and whenever a tick or a handler comes     *)
(* (tasks.c:840, 930, 3042, 3914, 4413).                                   *)
THEOREM DelayTypeCorrect == Spec => []TypeOK
<1>1. Sound => TypeOK
  <2> SUFFICES ASSUME Sound PROVE TypeOK
    OBVIOUS
  <2>1. ListsConsistent(kernel, Alive)
    BY ListsAreConsistent, DelayAssumption DEF Sound, Housed
  <2>2. ListsConsistent(kernel, {t \in Task : ~Dead(t)})
    BY <2>1 DEF Alive
  <2> QED
    BY <2>2 DEF Sound, Typed, InCall, Data, Places, TypeOK
<1> QED
  BY <1>1, SoundAlways, PTL

(* No task sleeps on a notification that it already has: it tests and goes *)
(* to sleep in one critical section, who gives one finds it asleep, and    *)
(* what comes during a suspension waits in the pending list (tasks.c:3914, *)
(* 4413).                                                                  *)
THEOREM NoNotificationIsLost == Spec => []NoLostNotification
<1>1. Sound => NoLostNotification
  <2> SUFFICES ASSUME Sound, NEW t \in Task, ask[t].op \in {"take", "takeAll"},
                      Asleep(t), notified[t] # 0
               PROVE  Contains(kernel.pending, t)
    BY DEF NoLostNotification
  <2>1. Place(at[t], ask[t], t)
    BY DEF Sound, Typed, InCall
  <2>2. at[t] = "taken" /\ t \in Sleepers(kernel)
    BY <2>1, AsleepIs DEF Place
  <2>3. t \in ToSet(kernel.pending)
    BY <2>2 DEF Sound, Noticed
  <2> QED
    BY <2>3, AsleepIs
<1> QED
  BY <1>1, SoundAlways, PTL

(* A deleted task is in no list of the kernel, does not run beyond its own *)
(* yield, and the idle task never takes the head of an empty list (tasks.c:*)
(* 3042).                                                                  *)
THEOREM TheDeadStayDead == Spec => []DeadStayDead
<1>1. Sound => DeadStayDead
  <2> SUFFICES ASSUME Sound PROVE DeadStayDead
    OBVIOUS
  <2>1. ASSUME NEW t \in Task, Dead(t)
        PROVE  t \notin ReadyTasks(kernel) /\ ~Asleep(t) /\ ~Contains(kernel.pending, t)
    <3>1. t \notin Alive
      BY <2>1 DEF Alive
    <3>2. /\ t \notin ReadyTasks(kernel) /\ t \notin Sleepers(kernel)
          /\ t \notin ToSet(kernel.pending)
      BY <3>1, RunningIs DEF Running
    <3> QED
      BY <3>2, AsleepIs
  <2>2. cur \notin freed
    BY DEF Sound, Buried
  <2> QED
    BY <2>1, <2>2 DEF Sound, Buried, DeadStayDead
<1> QED
  BY <1>1, SoundAlways, PTL

-----------------------------------------------------------------------------
(* The clock.  A sleeper is due when the kernel, which has the ticks that  *)
(* were held back still to count, is done with it; one that was woken was  *)
(* due already; a delay that has not gone to sleep yet has its time before *)
(* it; and the time in last stands as far from the kernel's count as ahead *)
(* says.                                                                   *)

Sleeping(t) ==
  t \in Sleepers(kernel) =>
    /\ ask[t].op \in {"delay", "until", "take", "takeAll"}
    /\ Late(t) \/ Due(t) + kernel.pended = Left(kernel, t)

Waking(t) ==
  /\ \/ ask[t].op = "delay" /\ at[t] # "suspended"
     \/ ask[t].op = "until"
     \/ notify[t] = "waiting"
  /\ t \in Alive \ Sleepers(kernel) /\ ~Late(t)
  => Due(t) + kernel.pended <= 0

Starting(t) ==
  /\ at[t] = "suspended" /\ ask[t].op = "delay" =>
       owed[t] + kernel.pended = ask[t].ticks
  /\ ask[t] = NoAsk => owed[t] = 0

Periods(t) ==
  Periodic(t) /\ ahead[t] # Lost /\ t \in Alive =>
    LET d == ahead[t] + kernel.pended
    IN /\ ahead[t] > Lost
       /\ last[t] - kernel.tick - d \in {-TickMod, 0, TickMod}
       /\ (ask[t].op = "until" /\ t \in Sleepers(kernel)) \/ d <= 0

Timed(t) == Sleeping(t) /\ Waking(t) /\ Starting(t) /\ Periods(t)

Clock == kernel.pended <= MaxPended /\ \A t \in Task : Timed(t)

LEMMA NumbersAre ==
  ASSUME Sound, NEW t \in Task
  PROVE  /\ owed[t] \in Int /\ ahead[t] \in Int /\ last[t] \in 0..(TickMod - 1)
         /\ kernel.tick \in 0..(TickMod - 1) /\ kernel.pended \in Nat
         /\ kernel.wake[t] \in 0..(TickMod - 1)
         /\ TickMod \in Nat \ {0, 1} /\ Lost = -TickMod /\ Lost \in Int
         /\ t \in Sleepers(kernel) => Left(kernel, t) \in 1..(TickMod - 1)
<1>1. owed \in [Task -> Int] /\ ahead \in [Task -> Int] /\ last \in [Task -> Ticks]
  BY DEF Sound, Typed, Data
<1>2. kernel.wake \in [Task -> Ticks] /\ kernel.tick \in Ticks
      /\ kernel.pended \in 0..(PendedMod - 1)
  BY KernelFields DEF Sound, Housed, Lists
<1>3. Ticks = 0..(TickMod - 1) /\ TickMod \in Nat \ {0, 1} /\ PendedMod \in Nat \ {0}
  BY Constants
<1>4. Lost = -TickMod
  BY DEF Lost
<1>5. owed[t] \in Int
  BY <1>1
<1>6. ahead[t] \in Int
  BY <1>1
<1>7. last[t] \in Ticks /\ kernel.wake[t] \in Ticks
  BY <1>1, <1>2
<1>8. kernel.pended \in Nat /\ Lost \in Int
  BY <1>2, <1>3, <1>4
<1>9. t \in Sleepers(kernel) => Left(kernel, t) \in 1..(TickMod - 1)
  BY LeftIs DEF Sound, Housed
<1> QED
  BY <1>2, <1>3, <1>4, <1>5, <1>6, <1>7, <1>8, <1>9

(* The ticks from one time to another, around the counter.                 *)
LEMMA LeftToWake ==
  ASSUME NEW now \in Ticks, NEW n \in Ticks \ {0}, NEW w, w = (now + n) % TickMod
  PROVE  (IF w > now THEN w - now ELSE w - now + TickMod) = n
<1>1. TickMod \in Nat \ {0} /\ now \in 0..(TickMod - 1) /\ n \in 1..(TickMod - 1)
  BY Constants
<1>2. now \in 0..TickMod - 1 /\ n \in 0..TickMod - 1
  BY <1>1
<1>3. w = IF now + n < TickMod THEN now + n ELSE now + n - TickMod
  BY <1>1, <1>2, WrapOnce
<1> QED
  BY <1>1, <1>3

(* The distance of two times stays what it is, modulo a round.             *)
LEMMA DistanceKept ==
  ASSUME NEW now \in 0..(TickMod - 1), NEW e \in Nat,
         NEW then, then = (now + e) % TickMod,
         NEW p \in 0..(TickMod - 1), NEW a \in Int, -TickMod < a, a < TickMod,
         p - now - (a + e) \in {-TickMod, 0, TickMod}
  PROVE  p - then - a \in {-TickMod, 0, TickMod}
<1> DEFINE q == (now + e) \div TickMod
<1>1. TickMod \in Nat \ {0} /\ now + e \in Nat
  BY Constants
<1>2. q \in Nat /\ then \in 0..(TickMod - 1) /\ now + e = TickMod * q + then
  BY <1>1
<1> HIDE DEF q
<1>3. PICK m \in {-1, 0, 1} : p - now - (a + e) = TickMod * m
  BY <1>1
<1>4. p - then - a = TickMod * m + TickMod * q
  <2> DEFINE x == TickMod * m  y == TickMod * q
  <2>1. x \in Int /\ y \in Int
    BY <1>1, <1>2
  <2>2. p - now - (a + e) = x /\ now + e = y + then
    BY <1>2, <1>3
  <2> HIDE DEF x, y
  <2>3. p - then - a = x + y
    BY <2>1, <2>2, <1>1, <1>2
  <2> QED
    BY <2>3 DEF x, y
<1>5. m + q \in Int /\ TickMod * m + TickMod * q = TickMod * (m + q)
  BY <1>1, <1>2
<1>6. -2 * TickMod < p - then - a /\ p - then - a < 2 * TickMod
  BY <1>1, <1>2
<1>7. ASSUME NEW z \in Int, z >= 2
      PROVE  TickMod * z >= 2 * TickMod
  BY <1>1, <1>7
<1>8. ASSUME NEW z \in Int, z <= -2
      PROVE  TickMod * z <= -2 * TickMod
  BY <1>1, <1>8
<1>9. m + q \in {-1, 0, 1}
  <2> DEFINE z == m + q
  <2>1. z \in Int /\ p - then - a = TickMod * z
    BY <1>4, <1>5
  <2> HIDE DEF z
  <2>2. TickMod * z \in Int
    BY <2>1, <1>1
  <2>3. ~(z >= 2)
    BY <2>1, <2>2, <1>1, <1>6, <1>7
  <2>4. ~(z <= -2)
    BY <2>1, <2>2, <1>1, <1>6, <1>8
  <2>5. z \in {-1, 0, 1}
    BY <2>1, <2>3, <2>4
  <2> QED
    BY <2>5 DEF z
<1> QED
  BY <1>1, <1>4, <1>5, <1>9

(* Who is not disturbed: nothing that the clock knows of the task changes  *)
(* and no tick comes.                                                      *)
LEMMA TimedKept ==
  ASSUME NEW t \in Task, Timed(t), SameClock(kernel, kernel'),
         UNCHANGED app, ask'[t] = ask[t], owed'[t] = owed[t], ahead'[t] = ahead[t],
         last'[t] = last[t], t \in Sleepers(kernel') <=> t \in Sleepers(kernel),
         t \in Sleepers(kernel) => kernel'.wake[t] = kernel.wake[t],
         t \in Alive' => t \in Alive, at'[t] = "suspended" <=> at[t] = "suspended",
         notify'[t] = "waiting" => notify[t] = "waiting"
  PROVE  Timed(t)'
<1>1. Late(t)' = Late(t) /\ Due(t)' = Due(t) /\ Periodic(t)' = Periodic(t)
  BY DEF Late, Due, Periodic
<1>2. kernel'.tick = kernel.tick /\ kernel'.pended = kernel.pended
  BY DEF SameClock
<1>3. t \in Sleepers(kernel) => Left(kernel', t) = Left(kernel, t)
  BY <1>2 DEF Left
<1>4. Sleeping(t)'
  BY <1>1, <1>2, <1>3 DEF Timed, Sleeping
<1>5. Waking(t)'
  BY <1>1, <1>2 DEF Timed, Waking
<1>6. Starting(t)'
  BY <1>2 DEF Timed, Starting
<1>7. Periods(t)'
  BY <1>1, <1>2 DEF Timed, Periods
<1> QED
  BY <1>4, <1>5, <1>6, <1>7 DEF Timed

(* Who is ready, in a call that does not wait, owes nothing.               *)
LEMMA TimedReady ==
  ASSUME NEW t \in Task, Timed(t), SameClock(kernel, kernel'),
         UNCHANGED app, ahead'[t] = ahead[t], last'[t] = last[t],
         t \notin Sleepers(kernel) \/ ask[t].op # "until", t \notin Sleepers(kernel'),
         t \in Alive' => t \in Alive, at'[t] # "suspended",
         ask'[t].op \notin {"delay", "until"}, notify'[t] # "waiting",
         ask'[t] = NoAsk => owed'[t] = 0
  PROVE  Timed(t)'
<1>1. Periodic(t)' = Periodic(t) /\ kernel'.tick = kernel.tick
      /\ kernel'.pended = kernel.pended
  BY DEF Periodic, SameClock
<1>2. Sleeping(t)' /\ Waking(t)' /\ Starting(t)'
  BY DEF Sleeping, Waking, Starting
<1>3. Periods(t)'
  BY <1>1 DEF Timed, Periods
<1> QED
  BY <1>2, <1>3 DEF Timed

LEMMA ClockFrom ==
  ASSUME Clock, kernel'.pended = kernel.pended \/ kernel'.pended <= MaxPended,
         \A t \in Task : Timed(t)'
  PROVE  Clock'
  BY DEF Clock

-----------------------------------------------------------------------------
(* The steps that take no time.                                            *)

LEMMA NotWaiting ==
  ASSUME Sound, NEW t \in Task, at[t] # "taken"
  PROVE  notify[t] # "waiting"
  BY DEF Sound, Noticed

LEMMA OthersTimed ==
  ASSUME Clock, Own(cur), SameClock(kernel, kernel'), NEW t \in Task, t # cur,
         owed'[t] = owed[t], ahead'[t] = ahead[t], last'[t] = last[t],
         notify'[t] = "waiting" => notify[t] = "waiting",
         t \in Alive' => t \in Alive, t \in Sleepers(kernel') <=> t \in Sleepers(kernel),
         t \in Sleepers(kernel) => kernel'.wake[t] = kernel.wake[t]
  PROVE  Timed(t)'
<1>1. Timed(t) /\ at'[t] = at[t] /\ ask'[t] = ask[t] /\ UNCHANGED app
  BY DEF Clock, Own
<1> QED
  BY <1>1, TimedKept

(* A step that leaves the times alone.                                     *)
Still == UNCHANGED <<notify, last, owed, ahead>> /\ Alive' = Alive

LEMMA StillTimed ==
  ASSUME Clock, Quiet(kernel, kernel'), Still, UNCHANGED <<app, ask>>, NEW t \in Task,
         at'[t] = "suspended" <=> at[t] = "suspended"
  PROVE  Timed(t)'
  BY TimedKept DEF Clock, Quiet, Still

LEMMA StillClock ==
  ASSUME Sound, Clock, Quiet(kernel, kernel'), Still, UNCHANGED <<app, ask>>, Own(cur),
         at[cur] # "suspended", at'[cur] # "suspended"
  PROVE  Clock'
<1>1. ASSUME NEW t \in Task PROVE Timed(t)'
  <2>1. at'[t] = "suspended" <=> at[t] = "suspended"
    BY DEF Own
  <2> QED
    BY <2>1, StillTimed
<1>2. kernel'.pended = kernel.pended
  BY DEF Quiet, SameClock
<1> QED
  BY <1>1, <1>2, ClockFrom

(* The scheduler is suspended: a delay has all its time before it, and a   *)
(* task comes to wait for its next time only when the last one is over.    *)
LEMMA ClockSuspend ==
  ASSUME Sound, Clock, SuspendAll, UNCHANGED app
  PROVE  Clock'
<1>1. Running /\ InCall /\ app \in Applications /\ cur \in Task /\ Data
  BY RunningIs DEF Sound, Typed
<1>2. PICK op \in {"delay", "until", "suspend"} : Asks(op)
  BY DEF SuspendAll
<1>3. Goto("suspended") /\ "suspended" \in Places
  BY DEF SuspendAll, Places
<1>4. /\ Own(cur) /\ at[cur] = "run" /\ ask[cur] = NoAsk /\ at'[cur] = "suspended"
      /\ ask'[cur] \in app.asks /\ ask'[cur].task = cur /\ ask'[cur].op = op
  BY <1>1, <1>2, <1>3, AskOwn
<1>5. cur \in ReadyTasks(kernel) /\ kernel.pended = 0 /\ cur \notin Sleepers(kernel)
  BY <1>1, <1>4 DEF Running, Holding
<1>6. /\ UNCHANGED <<kernel, notify, last, ahead>> /\ Alive' = Alive
      /\ owed' = IF ask'[cur].op = "delay"
                 THEN [owed EXCEPT ![cur] = ask'[cur].ticks] ELSE owed
  BY AliveKept DEF SuspendAll
<1>7. owed'[cur] = IF op = "delay" THEN ask'[cur].ticks ELSE owed[cur]
  BY <1>1, <1>4, <1>6 DEF Data
<1>8. \A t \in Task \ {cur} : owed'[t] = owed[t]
  BY <1>1, <1>6 DEF Data
<1>9. Timed(cur) /\ notify[cur] # "waiting"
  BY <1>1, <1>4, NotWaiting DEF Clock
<1>10. ASSUME NEW t \in Task PROVE Timed(t)'
  <2>1. CASE t = cur
    <3>1. ask'[t].op = op /\ ask[t].op = "none" /\ ask'[t] # NoAsk /\ UNCHANGED app
      BY <1>2, <1>4, <2>1 DEF NoAsk, Own
    <3>2. Sleeping(t)'
      BY <1>5, <1>6, <2>1 DEF Sleeping
    <3>3. Starting(t)'
      <4>1. op = "delay" => owed'[t] = ask'[t].ticks /\ ask'[t].ticks \in Int
        BY <1>1, <1>4, <1>7, <2>1, <3>1, AskIs, Constants
      <4> QED
        BY <1>5, <1>6, <3>1, <4>1 DEF Starting
    <3>4. Periods(t)'
      BY <1>5, <1>6, <1>9, <2>1, <3>1 DEF Timed, Periods, Periodic
    <3>5. Waking(t)'
      <4>1. op = "until" => Periodic(t)'
        BY <1>4, <2>1, <3>1 DEF Periodic
      <4>2. op = "until" /\ t \in Alive' /\ ahead'[t] # Lost => ahead'[t] + kernel'.pended <= 0
        BY <1>5, <1>6, <2>1, <3>4, <4>1 DEF Periods
      <4> QED
        BY <1>4, <1>6, <1>9, <2>1, <3>1, <4>2 DEF Waking, Due, Late
    <3> QED
      BY <3>2, <3>3, <3>4, <3>5 DEF Timed
  <2>2. CASE t # cur
    BY <1>4, <1>6, <1>8, <2>2, OthersTimed DEF SameClock
  <2> QED
    BY <2>1, <2>2
<1> QED
  BY <1>6, <1>10, ClockFrom

LEMMA ClockDelayNone ==
  ASSUME Sound, Clock, DelayNone, UNCHANGED app
  PROVE  Clock'
<1>1. Running /\ InCall /\ app \in Applications /\ cur \in Task
  BY RunningIs DEF Sound, Typed
<1>2. Asks("delay") /\ Goto("yield") /\ "yield" \in Places
  BY DEF DelayNone, Places
<1>3. /\ Own(cur) /\ at[cur] = "run" /\ ask[cur] = NoAsk /\ at'[cur] = "yield"
      /\ ask'[cur].op = "delay"
  BY <1>1, <1>2, AskOwn
<1>4. kernel.pended = 0 /\ cur \notin Sleepers(kernel)
  BY <1>1, <1>3 DEF Running, Holding
<1>5. UNCHANGED <<kernel, notify, last, owed, ahead>> /\ Alive' = Alive
  BY AliveKept DEF DelayNone, measures
<1>6. Timed(cur) /\ notify[cur] # "waiting"
  BY <1>1, <1>3, NotWaiting DEF Clock
<1>7. ASSUME NEW t \in Task PROVE Timed(t)'
  <2>1. CASE t = cur
    <3>1. ask'[t].op = "delay" /\ ask[t].op = "none" /\ ask'[t] # NoAsk /\ UNCHANGED app
      BY <1>3, <2>1 DEF NoAsk, Own
    <3>2. owed'[t] = 0
      BY <1>3, <1>5, <1>6, <2>1 DEF Timed, Starting
    <3>3. Sleeping(t)' /\ Waking(t)' /\ Starting(t)'
      BY <1>3, <1>4, <1>5, <2>1, <3>1, <3>2 DEF Sleeping, Waking, Starting, Due
    <3>4. Periods(t)'
      BY <1>4, <1>5, <1>6, <2>1, <3>1 DEF Timed, Periods, Periodic
    <3> QED
      BY <3>3, <3>4 DEF Timed
  <2>2. CASE t # cur
    BY <1>3, <1>5, <2>2, OthersTimed DEF SameClock
  <2> QED
    BY <2>1, <2>2
<1> QED
  BY <1>5, <1>7, ClockFrom

(* The delay itself: the kernel counts the ticks that are owed, from the   *)
(* tick that it has reached.                                               *)
LEMMA ClockDelayBody ==
  ASSUME Sound, Clock, DelayBody, UNCHANGED app
  PROVE  Clock'
<1> DEFINE ticks == ask[cur].ticks
<1>1. /\ At("suspended") /\ ask[cur].op = "delay" /\ Goto("resume")
      /\ UNCHANGED <<ask, notify, last, owed, ahead>> /\ Alive' = Alive
      /\ kernel' = Delay(kernel, cur, ticks)
  BY AliveKept DEF DelayBody, Continue, measures
<1>2. /\ Running /\ InCall /\ at[cur] = "suspended"
      /\ cur \in ReadyTasks(kernel) \ {Idle} /\ ticks \in Ticks \ {0} /\ cur \in Task
  BY <1>1, BodyIs DEF Running
<1>3. Sleeps(kernel, kernel', cur, (kernel.tick + ticks) % TickMod)
  BY <1>1, <1>2, DelayHouse DEF Sound
<1> HIDE DEF ticks
<1>4. kernel.wake \in [Task -> Ticks] /\ kernel.tick \in Ticks /\ cur \notin Sleepers(kernel)
  BY <1>2, KernelFields DEF Running, Lists
<1>5. Own(cur) /\ at'[cur] = "resume"
  BY <1>1, <1>2, GotoOwn DEF Places
<1>6. /\ SameClock(kernel, kernel') /\ kernel'.pended = kernel.pended
      /\ kernel'.tick = kernel.tick /\ Sleepers(kernel') = Sleepers(kernel) \cup {cur}
      /\ kernel'.wake[cur] = (kernel.tick + ticks) % TickMod
      /\ \A t \in Task \ {cur} : kernel'.wake[t] = kernel.wake[t]
  BY <1>2, <1>3, <1>4 DEF Sleeps, SameClock
<1>7. Left(kernel', cur) = ticks
  BY <1>2, <1>4, <1>6, LeftToWake DEF Left
<1>8. Timed(cur)
  BY <1>2 DEF Clock
<1>9. ASSUME NEW t \in Task PROVE Timed(t)'
  <2>1. CASE t = cur
    <3>1. owed'[t] + kernel'.pended = ticks
      BY <1>1, <1>2, <1>6, <1>8, <2>1 DEF Timed, Starting, ticks
    <3>2. ask'[t].op = "delay" /\ ask'[t] # NoAsk /\ ask'[t] = ask[t] /\ UNCHANGED app
      BY <1>1, <2>1 DEF NoAsk
    <3>3. Sleeping(t)' /\ Waking(t)' /\ Starting(t)'
      BY <1>5, <1>6, <1>7, <2>1, <3>1, <3>2 DEF Sleeping, Waking, Starting, Due
    <3>4. Periods(t)'
      BY <1>1, <1>4, <1>6, <1>8, <2>1, <3>2 DEF Timed, Periods, Periodic
    <3> QED
      BY <3>3, <3>4 DEF Timed
  <2>2. CASE t # cur
    BY <1>1, <1>5, <1>6, <2>2, OthersTimed
  <2> QED
    BY <2>1, <2>2
<1> QED
  BY <1>6, <1>9, ClockFrom

(* The time a periodic task is to wake at lies as far ahead as the count   *)
(* says, and the task sleeps exactly when that is ahead at all.            *)
LEMMA NextPeriod ==
  ASSUME NEW previous \in Ticks, NEW now \in Ticks, NEW inc \in Ticks \ {0},
         NEW d \in Int, -TickMod < d, d <= 0,
         previous - now - d \in {-TickMod, 0, TickMod},
         NEW w, w = (previous + inc) % TickMod
  PROVE  /\ ShouldDelay(previous, w, now) <=> d + inc > 0
         /\ w - now - (d + inc) \in {-TickMod, 0, TickMod}
         /\ d + inc > 0 => (IF w > now THEN w - now ELSE w - now + TickMod) = d + inc
<1> DEFINE e == -d
<1>1. /\ TickMod \in Nat \ {0, 1} /\ Ticks = 0..(TickMod - 1)
      /\ previous \in 0..TickMod - 1 /\ now \in 0..TickMod - 1 /\ inc \in 0..TickMod - 1
  BY Constants
<1>2. e \in 0..TickMod - 1 /\ e \in Ticks
  BY <1>1
<1>3. now = IF previous + e < TickMod THEN previous + e ELSE previous + e - TickMod
  BY <1>1
<1>4. (previous + e) % TickMod = now
  BY <1>1, <1>2, <1>3, WrapOnce
<1>5. ShouldDelay(previous, w, now) <=> e < inc
  BY <1>2, <1>4, PeriodsAreExact
<1>6. w = IF previous + inc < TickMod THEN previous + inc ELSE previous + inc - TickMod
  BY <1>1, WrapOnce
<1>7. ShouldDelay(previous, w, now) <=> d + inc > 0
  BY <1>1, <1>5
<1>8. w - now - (d + inc) \in {-TickMod, 0, TickMod}
  BY <1>1, <1>3, <1>6
<1>9. d + inc > 0 => (IF w > now THEN w - now ELSE w - now + TickMod) = d + inc
  BY <1>1, <1>3, <1>6
<1> QED
  BY <1>7, <1>8, <1>9

LEMMA ClockUntilBody ==
  ASSUME Sound, Clock, DelayUntilBody, UNCHANGED app
  PROVE  Clock'
<1> DEFINE inc   == ask[cur].ticks
           w     == (last[cur] + inc) % TickMod
           delay == ShouldDelay(last[cur], w, kernel.tick)
           d     == ahead[cur] + kernel.pended
<1>1. /\ At("suspended") /\ ask[cur].op = "until" /\ Goto("resume")
      /\ UNCHANGED <<ask, notify, owed>> /\ Alive' = Alive
      /\ last' = [last EXCEPT ![cur] = w]
      /\ ahead' = [ahead EXCEPT ![cur] = IF @ = Lost THEN @ ELSE @ + inc]
  BY AliveKept DEF DelayUntilBody, Continue
<1>2. /\ Running /\ InCall /\ at[cur] = "suspended" /\ cur \in ReadyTasks(kernel)
      /\ inc \in Ticks \ {0} /\ cur \in Task /\ ask[cur] \in app.asks /\ ask[cur].task = cur
  BY <1>1, BodyIs DEF Running
<1>3. w \in Ticks /\ (delay => Sleeps(kernel, kernel', cur, w)) /\ (~delay => kernel' = kernel)
  BY UntilIs
<1>4. /\ kernel.wake \in [Task -> Ticks] /\ kernel.tick \in Ticks
      /\ cur \notin Sleepers(kernel) /\ cur \in Alive
  BY <1>2, KernelFields DEF Running, Lists
<1>5. Own(cur) /\ at'[cur] = "resume"
  BY <1>1, <1>2, GotoOwn DEF Places
<1> HIDE DEF inc, w, delay
<1>6. /\ SameClock(kernel, kernel') /\ kernel'.pended = kernel.pended
      /\ kernel'.tick = kernel.tick
      /\ Sleepers(kernel') = IF delay THEN Sleepers(kernel) \cup {cur} ELSE Sleepers(kernel)
      /\ delay => kernel'.wake[cur] = w
      /\ \A t \in Task \ {cur} : kernel'.wake[t] = kernel.wake[t]
  BY <1>2, <1>3, <1>4 DEF Sleeps, SameClock
<1>7. /\ ahead'[cur] = IF ahead[cur] = Lost THEN Lost ELSE ahead[cur] + inc
      /\ last'[cur] = w /\ last[cur] \in Ticks
      /\ \A t \in Task \ {cur} : ahead'[t] = ahead[t] /\ last'[t] = last[t]
  <2>1. ahead \in [Task -> Int] /\ last \in [Task -> Ticks]
    BY DEF Sound, Typed, Data
  <2> QED
    BY <1>1, <1>2, <2>1
<1>8. /\ ahead[cur] \in Int /\ kernel.pended \in Nat /\ TickMod \in Nat \ {0, 1}
      /\ Lost = -TickMod /\ inc \in 1..(TickMod - 1)
  BY <1>2, NumbersAre, Constants
<1>9. Timed(cur) /\ Periodic(cur) /\ notify[cur] # "waiting"
  BY <1>1, <1>2, NotWaiting DEF Clock, Periodic
<1>10. ASSUME ahead[cur] # Lost
       PROVE  /\ ahead'[cur] = ahead[cur] + inc /\ ahead'[cur] > Lost
              /\ delay <=> d + inc > 0
              /\ w - kernel.tick - (d + inc) \in {-TickMod, 0, TickMod}
              /\ delay => Left(kernel', cur) = d + inc
  <2>1. ahead[cur] > Lost /\ d <= 0 /\ last[cur] - kernel.tick - d \in {-TickMod, 0, TickMod}
    BY <1>4, <1>9, <1>10 DEF Timed, Periods
  <2>2. d \in Int /\ -TickMod < d
    BY <1>8, <2>1
  <2>3. ahead'[cur] = ahead[cur] + inc /\ ahead'[cur] > Lost
    BY <1>7, <1>8, <1>10, <2>1
  <2> HIDE DEF d
  <2>4. /\ delay <=> d + inc > 0
        /\ w - kernel.tick - (d + inc) \in {-TickMod, 0, TickMod}
        /\ d + inc > 0 => (IF w > kernel.tick THEN w - kernel.tick
                                              ELSE w - kernel.tick + TickMod) = d + inc
    BY <1>2, <1>4, <1>7, <2>1, <2>2, NextPeriod DEF delay, w
  <2> QED
    BY <1>6, <2>3, <2>4 DEF Left
<1>11. ASSUME ahead[cur] # Lost
       PROVE  ahead'[cur] + kernel'.pended = d + inc
  BY <1>6, <1>8, <1>10, <1>11
<1>12. d + inc \in Int
  BY <1>8
<1> HIDE DEF d
<1>13. ASSUME ahead[cur] # Lost
       PROVE  /\ ahead'[cur] + kernel'.pended = d + inc /\ ahead'[cur] > Lost
              /\ cur \in Sleepers(kernel') => d + inc > 0 /\ Left(kernel', cur) = d + inc
              /\ cur \notin Sleepers(kernel') => ~(d + inc > 0)
              /\ last'[cur] - kernel'.tick - (d + inc) \in {-TickMod, 0, TickMod}
  BY <1>4, <1>6, <1>7, <1>10, <1>11, <1>13
<1>14. ASSUME NEW t \in Task PROVE Timed(t)'
  <2>1. CASE t = cur
    <3>1. /\ ask'[t].op = "until" /\ ask'[t] # NoAsk /\ ask'[t] = ask[t] /\ UNCHANGED app
          /\ at'[t] = "resume" /\ notify'[t] # "waiting"
      BY <1>1, <1>5, <1>9, <2>1 DEF NoAsk, Own
    <3>2. CASE ahead[t] = Lost
      BY <1>7, <2>1, <3>1, <3>2
      DEF Timed, Sleeping, Waking, Starting, Periods, Due, Late
    <3>3. CASE ahead[t] # Lost
      <4>1. /\ ahead'[t] + kernel'.pended = d + inc /\ ahead'[t] > Lost
            /\ t \in Sleepers(kernel') => d + inc > 0 /\ Left(kernel', t) = d + inc
            /\ t \notin Sleepers(kernel') => ~(d + inc > 0)
            /\ last'[t] - kernel'.tick - (d + inc) \in {-TickMod, 0, TickMod}
        BY <1>13, <2>1, <3>3
      <4>2. Sleeping(t)' /\ Waking(t)' /\ Starting(t)'
        BY <1>12, <3>1, <4>1 DEF Sleeping, Waking, Starting, Due
      <4>3. Periods(t)'
        BY <1>12, <3>1, <4>1 DEF Periods
      <4> QED
        BY <4>2, <4>3 DEF Timed
    <3> QED
      BY <3>2, <3>3
  <2>2. CASE t # cur
    BY <1>1, <1>5, <1>6, <1>7, <2>2, OthersTimed
  <2> QED
    BY <2>1, <2>2
<1> QED
  BY <1>6, <1>14, ClockFrom

LEMMA ClockYield ==
  ASSUME Sound, Clock, Yield, UNCHANGED app
  PROVE  Clock'
<1>1. Running /\ InCall /\ cur \in Task /\ Housed(kernel, Alive)
  BY RunningIs DEF Sound, Typed
<1>2. /\ at[cur] = "yield" /\ Switch(kernel) /\ Goto("return") /\ "return" \in Places
      /\ UNCHANGED ask /\ Still
  BY AliveKept DEF Yield, At, measures, Places, Still
<1>3. Quiet(kernel, kernel')
  BY <1>1, <1>2, SwitchIs
<1>4. Own(cur) /\ at'[cur] = "return"
  BY <1>1, <1>2, GotoOwn
<1> QED
  BY <1>2, <1>3, <1>4, StillClock

LEMMA ClockAfterDelete ==
  ASSUME Sound, Clock, AfterDelete, UNCHANGED app
  PROVE  Clock'
<1>1. Running /\ InCall /\ cur \in Task /\ Housed(kernel, Alive)
  BY RunningIs DEF Sound, Typed
<1>2. /\ at[cur] = "deleted" /\ kernel' = ResetNextUnblock(kernel) /\ Goto("return")
      /\ "return" \in Places /\ UNCHANGED ask /\ Still
  BY AliveKept DEF AfterDelete, At, Continue, measures, Places, Still
<1>3. Quiet(kernel, kernel')
  BY <1>1, <1>2, ResetIs
<1>4. Own(cur) /\ at'[cur] = "return"
  BY <1>1, <1>2, GotoOwn
<1> QED
  BY <1>2, <1>3, <1>4, StillClock

LEMMA ClockIdleLook ==
  ASSUME Sound, Clock, IdleLook, UNCHANGED app
  PROVE  Clock'
<1>1. InCall /\ cur \in Task
  BY DEF Sound, Typed
<1>2. /\ at[cur] = "run" /\ Goto("looking") /\ "looking" \in Places
      /\ UNCHANGED <<kernel, ask>> /\ Still
  BY AliveKept DEF IdleLook, At, measures, Places, Still
<1>3. Own(cur) /\ at'[cur] = "looking" /\ Quiet(kernel, kernel')
  BY <1>1, <1>2, GotoOwn DEF Quiet, SameClock
<1> QED
  BY <1>2, <1>3, StillClock

LEMMA ClockIdleReap ==
  ASSUME Sound, Clock, IdleReap, UNCHANGED app
  PROVE  Clock'
<1>1. /\ at[cur] = "reap" /\ at'[cur] = "run" /\ Own(cur) /\ UNCHANGED <<kernel, ask>>
      /\ Still
  BY IdleReapIs DEF Still, IdleReap
<1>2. Quiet(kernel, kernel')
  BY <1>1 DEF Quiet, SameClock
<1> QED
  BY <1>1, <1>2, StillClock

(* A call returns: the task is ready and owes nothing.                     *)
LEMMA ReturnClock ==
  ASSUME Sound, Clock, Return, UNCHANGED <<app, kernel, last>>, Alive' = Alive,
         cur \in ReadyTasks(kernel), notify'[cur] # "waiting",
         \A t \in Task \ {cur} : notify'[t] = notify[t]
  PROVE  Clock'
<1>1. Running /\ InCall /\ cur \in Task /\ Data
  BY RunningIs DEF Sound, Typed
<1>2. Own(cur) /\ at'[cur] = "run" /\ ask'[cur] = NoAsk
  BY <1>1, ReturnOwn
<1>3. /\ owed'[cur] = 0 /\ UNCHANGED ahead
      /\ \A t \in Task \ {cur} : owed'[t] = owed[t]
  BY <1>1 DEF Return, Data
<1>4. cur \notin Sleepers(kernel)
  BY <1>1 DEF Running
<1>5. ASSUME NEW t \in Task PROVE Timed(t)'
  <2>1. CASE t = cur
    <3>1. Timed(t) /\ SameClock(kernel, kernel') /\ t \notin Sleepers(kernel)
          /\ t \notin Sleepers(kernel')
      BY <1>4, <2>1 DEF Clock, SameClock
    <3>2. ask'[t].op \notin {"delay", "until"} /\ at'[t] # "suspended" /\ owed'[t] = 0
          /\ notify'[t] # "waiting"
      BY <1>2, <1>3, <2>1 DEF NoAsk
    <3> QED
      BY <1>3, <3>1, <3>2, TimedReady
  <2>2. CASE t # cur
    BY <1>2, <1>3, <2>2, OthersTimed DEF SameClock
  <2> QED
    BY <2>1, <2>2
<1> QED
  BY <1>5, ClockFrom

LEMMA ClockFinish ==
  ASSUME Sound, Clock, Finish, UNCHANGED app
  PROVE  Clock'
<1>1. /\ at[cur] = "return" /\ Return /\ UNCHANGED <<kernel, last, notify>>
      /\ Alive' = Alive
  BY AliveKept DEF Finish, At
<1>2. cur \in ReadyTasks(kernel) /\ cur \in Task
  BY <1>1, RunningIs DEF Running
<1>3. notify'[cur] # "waiting"
  BY <1>1, <1>2, NotWaiting
<1> QED
  BY <1>1, <1>2, <1>3, ReturnClock

LEMMA ClockTaken ==
  ASSUME Sound, Clock, Taken, UNCHANGED app
  PROVE  Clock'
<1>1. /\ at[cur] = "taken" /\ Return /\ UNCHANGED <<kernel, last>> /\ Alive' = Alive
      /\ notify' = [notify EXCEPT ![cur] = "not waiting"]
  BY AliveKept DEF Taken, At
<1>2. cur \in ReadyTasks(kernel) /\ cur \in Task
  BY <1>1, RunningIs DEF Running
<1>3. notify'[cur] # "waiting" /\ \A t \in Task \ {cur} : notify'[t] = notify[t]
  BY <1>1, <1>2 DEF Sound, Typed, Data
<1> QED
  BY <1>1, <1>2, <1>3, ReturnClock

(* A task goes to sleep for a notification: nothing is owed before, and    *)
(* its ticks when it sleeps.                                               *)
LEMMA ClockTake ==
  ASSUME Sound, Clock, Take, UNCHANGED app
  PROVE  Clock'
<1> DEFINE ticks == ask'[cur].ticks
<1>1. /\ Running /\ InCall /\ Own(cur) /\ at[cur] = "run" /\ ask[cur] = NoAsk
      /\ at'[cur] = "taken" /\ ask'[cur].op \in {"take", "takeAll"}
      /\ ticks \in Ticks /\ cur \in ReadyTasks(kernel) /\ suspended = 0
  BY TakeIs
<1>2. /\ Sleepless \/ TakeSleeps(ticks)
      /\ UNCHANGED notify \/ notify' = [notify EXCEPT ![cur] = "waiting"]
      /\ UNCHANGED <<last, ahead>> /\ Alive' = Alive
  BY TakeWays, AliveKept
<1>3. cur \in Task /\ Data /\ kernel.pended = 0 /\ cur \notin Sleepers(kernel)
      /\ Housed(kernel, Alive) /\ kernel.wake \in [Task -> Ticks] /\ kernel.tick \in Ticks
  BY <1>1, KernelFields DEF Sound, Typed, Running, Holding, Lists
<1>4. \A t \in Task \ {cur} : notify'[t] = notify[t]
  BY <1>2, <1>3 DEF Data
<1>5. Timed(cur) /\ owed[cur] = 0
  BY <1>1, <1>3 DEF Clock, Timed, Starting
<1>6. /\ SameClock(kernel, kernel')
      /\ \A t \in Task \ {cur} :
           /\ owed'[t] = owed[t] /\ kernel'.wake[t] = kernel.wake[t]
           /\ t \in Sleepers(kernel') <=> t \in Sleepers(kernel)
      /\ \/ cur \notin Sleepers(kernel') /\ owed'[cur] = 0
         \/ cur \in Sleepers(kernel') /\ owed'[cur] = ticks /\ Left(kernel', cur) = ticks
  <2>1. CASE Sleepless
    <3>1. Quiet(kernel, kernel')
      BY <1>3, <2>1, ContinueIs DEF Sleepless
    <3> QED
      BY <1>3, <1>5, <2>1, <3>1 DEF Sleepless, Quiet
  <2>2. CASE TakeSleeps(ticks)
    <3>1. ticks \in Ticks \ {0} /\ owed' = [owed EXCEPT ![cur] = ticks]
      BY <1>1, <2>2 DEF TakeSleeps
    <3>2. /\ Sleepers(kernel') = Sleepers(kernel) \cup {cur} /\ SameClock(kernel, kernel')
          /\ kernel'.wake = [kernel.wake EXCEPT ![cur] = (kernel.tick + ticks) % TickMod]
      BY <2>2, TakeHouse
    <3> HIDE DEF ticks
    <3>3. kernel'.wake[cur] = (kernel.tick + ticks) % TickMod /\ kernel'.tick = kernel.tick
      BY <1>3, <3>2 DEF SameClock
    <3>4. Left(kernel', cur) = ticks
      BY <1>3, <3>1, <3>3, LeftToWake DEF Left
    <3> QED
      BY <1>3, <3>1, <3>2, <3>4 DEF Data
  <2> QED
    BY <1>2, <2>1, <2>2
<1>7. ticks \in Int /\ kernel'.pended = 0 /\ kernel'.tick = kernel.tick
  BY <1>1, <1>3, <1>6, Constants DEF SameClock
<1> HIDE DEF ticks
<1>8. ASSUME NEW t \in Task PROVE Timed(t)'
  <2>1. CASE t = cur
    <3>1. /\ ask'[t].op \in {"take", "takeAll"} /\ ask'[t] # NoAsk /\ UNCHANGED app
          /\ at'[t] = "taken"
      BY <1>1, <2>1 DEF NoAsk, Own
    <3>2. Sleeping(t)' /\ Waking(t)' /\ Starting(t)'
      BY <1>6, <1>7, <2>1, <3>1 DEF Sleeping, Waking, Starting, Due
    <3>3. Periods(t)'
      BY <1>2, <1>3, <1>5, <1>7, <2>1, <3>1 DEF Timed, Periods, Periodic
    <3> QED
      BY <3>2, <3>3 DEF Timed
  <2>2. CASE t # cur
    BY <1>1, <1>2, <1>4, <1>6, <2>2, OthersTimed
  <2> QED
    BY <2>1, <2>2
<1> QED
  BY <1>3, <1>7, <1>8, ClockFrom

(* A notification wakes its task, which is in a call without a period, or  *)
(* leaves it where it sleeps until the suspension ends.                    *)
LEMMA WokenTimed ==
  ASSUME Sound, Clock, NEW t \in Task, notify[t] = "waiting", NotifiedOnly(t),
         Released(kernel, kernel', {t}), SameClock(kernel, kernel'),
         UNCHANGED app, ask'[t] = ask[t], at'[t] = at[t], ahead'[t] = ahead[t],
         last'[t] = last[t], Alive' = Alive
  PROVE  Timed(t)'
<1>1. at[t] = "taken" /\ Place(at[t], ask[t], t)
  BY DEF Sound, Noticed, Typed, InCall
<1>2. ask[t].op \in {"take", "takeAll"} /\ ask[t] # NoAsk
  BY <1>1 DEF Place, NoAsk
<1>3. notify'[t] # "waiting" /\ t \notin Sleepers(kernel')
  BY DEF NotifiedOnly, Released
<1> QED
  BY <1>1, <1>2, <1>3, TimedReady DEF Clock

LEMMA ClockGive ==
  ASSUME Sound, Clock, Give, UNCHANGED app
  PROVE  Clock'
<1> DEFINE g == ask'[cur].to
<1>1. /\ Running /\ Own(cur) /\ at[cur] = "run" /\ ask[cur] = NoAsk
      /\ at'[cur] = "return" /\ ask'[cur].op = "give"
      /\ g \in Alive /\ NotifiedOnly(g) /\ SameClock(kernel, kernel')
      /\ IF notify[g] = "waiting" THEN Released(kernel, kernel', {g})
                                  ELSE Released(kernel, kernel', {})
      /\ UNCHANGED <<last, owed, ahead>> /\ Alive' = Alive
  BY GiveIs, AliveKept
<1> HIDE DEF g
<1>2. cur \in Task /\ g \in Task /\ cur \notin Sleepers(kernel)
  BY <1>1 DEF Running, Holding
<1>3. notify[cur] # "waiting" /\ notify'[cur] # "waiting"
  BY <1>1, <1>2, NotWaiting DEF NotifiedOnly
<1>4. /\ Sleepers(kernel') \subseteq Sleepers(kernel)
      /\ \A t \in Sleepers(kernel') : kernel'.wake[t] = kernel.wake[t]
      /\ \A t \in Task \ {g} : t \in Sleepers(kernel') <=> t \in Sleepers(kernel)
      /\ notify[g] # "waiting" => Sleepers(kernel') = Sleepers(kernel)
  BY <1>1 DEF Released
<1>5. ASSUME NEW t \in Task PROVE Timed(t)'
  <2>1. CASE t = cur
    <3>1. ask'[t].op \notin {"delay", "until"} /\ ask'[t] # NoAsk /\ at'[t] # "suspended"
      BY <1>1, <2>1 DEF NoAsk
    <3>2. Timed(t) /\ t \notin Sleepers(kernel') /\ t \notin Sleepers(kernel)
      BY <1>2, <1>4, <2>1 DEF Clock
    <3> QED
      BY <1>1, <1>3, <2>1, <3>1, <3>2, TimedReady
  <2>2. CASE t # cur /\ t = g /\ notify[g] = "waiting"
    BY <1>1, <2>2, WokenTimed DEF Own
  <2>3. CASE t # cur /\ (t # g \/ notify[g] # "waiting")
    <3>1. t \in Sleepers(kernel') <=> t \in Sleepers(kernel)
      BY <1>4, <2>3
    <3>2. notify'[t] = "waiting" => notify[t] = "waiting"
      BY <1>1, <2>3 DEF NotifiedOnly
    <3> QED
      BY <1>1, <1>4, <2>3, <3>1, <3>2, OthersTimed
  <2> QED
    BY <2>1, <2>2, <2>3
<1>6. kernel'.pended = kernel.pended
  BY <1>1 DEF SameClock
<1> QED
  BY <1>5, <1>6, ClockFrom

LEMMA ClockGiveFromISR ==
  ASSUME Sound, Clock, GiveFromISR, UNCHANGED app
  PROVE  Clock'
<1>1. PICK g \in Alive : IsrGave(g)
  BY GiveFromISRIs
<1>2. /\ g \in Task /\ NotifiedOnly(g) /\ SameClock(kernel, kernel') /\ Alive' = Alive
      /\ UNCHANGED <<at, ask, last, owed, ahead>>
      /\ \/ notify[g] # "waiting" /\ Released(kernel, kernel', {})
         \/ notify[g] = "waiting" /\ Released(kernel, kernel', {g})
         \/ Pends(kernel, kernel', g)
  BY <1>1, AliveKept DEF IsrGave, Alive
<1>3. ASSUME NEW t \in Task PROVE Timed(t)'
  <2>1. CASE t = g /\ notify[g] = "waiting" /\ Released(kernel, kernel', {g})
    BY <1>2, <2>1, WokenTimed
  <2>2. CASE ~(t = g /\ notify[g] = "waiting" /\ Released(kernel, kernel', {g}))
    <3>1. /\ t \in Sleepers(kernel') <=> t \in Sleepers(kernel)
          /\ t \in Sleepers(kernel) => kernel'.wake[t] = kernel.wake[t]
      BY <1>2, <2>2 DEF Released, Pends
    <3>2. notify'[t] = "waiting" => notify[t] = "waiting"
      BY <1>2 DEF NotifiedOnly
    <3>3. Timed(t)
      BY DEF Clock
    <3> QED
      BY <1>2, <3>1, <3>2, <3>3, TimedKept
  <2> QED
    BY <2>1, <2>2
<1>4. kernel'.pended = kernel.pended
  BY <1>2 DEF SameClock
<1> QED
  BY <1>3, <1>4, ClockFrom

(* Who is deleted waits for nothing any more.                              *)
LEMMA ClockDelete ==
  ASSUME Sound, Clock, Delete, UNCHANGED app
  PROVE  Clock'
<1> DEFINE g == ask'[cur].to
<1>1. /\ Running /\ Own(cur) /\ at[cur] = "run" /\ ask[cur] = NoAsk
      /\ at'[cur] = IF g = cur THEN "yield" ELSE "deleted"
      /\ ask'[cur].op = "delete" /\ g \in Alive \ {Idle} /\ Alive' = Alive \ {g}
      /\ Dropped(kernel, kernel', g)
      /\ UNCHANGED <<notify, last, owed, ahead>>
  BY DeleteIs
<1> HIDE DEF g
<1>2. cur \in Task /\ cur \notin Sleepers(kernel) /\ notify[cur] # "waiting"
  BY <1>1, NotWaiting DEF Running
<1>3. \A t \in Task : at[t] \notin Holding
  BY <1>1 DEF Running, Holding
<1>4. /\ SameClock(kernel, kernel')
      /\ Sleepers(kernel') = Sleepers(kernel) \ {g}
      /\ \A t \in Sleepers(kernel') : kernel'.wake[t] = kernel.wake[t]
  BY <1>1 DEF Dropped
<1>5. ASSUME NEW t \in Task PROVE Timed(t)'
  <2>0. Timed(t)
    BY DEF Clock
  <2>1. CASE t = cur
    <3>1. ask'[t].op \notin {"delay", "until"} /\ ask'[t] # NoAsk /\ at'[t] # "suspended"
      BY <1>1, <2>1 DEF NoAsk
    <3>2. t \notin Sleepers(kernel') /\ t \notin Sleepers(kernel)
          /\ notify'[t] # "waiting"
      BY <1>1, <1>2, <1>4, <2>1
    <3> QED
      BY <1>1, <1>4, <2>0, <2>1, <3>1, <3>2, TimedReady DEF Own
  <2>2. CASE t # cur /\ t = g
    <3>1. t \notin Alive' /\ t \notin Sleepers(kernel')
      BY <1>1, <1>4, <2>2
    <3>2. at'[t] # "suspended" /\ ask'[t] = ask[t] /\ owed'[t] = owed[t]
      BY <1>1, <1>3, <2>2 DEF Own, Holding
    <3>3. ask[t] = NoAsk => owed[t] = 0
      BY <2>0 DEF Timed, Starting
    <3> QED
      BY <3>1, <3>2, <3>3 DEF Timed, Sleeping, Waking, Starting, Periods
  <2>3. CASE t # cur /\ t # g
    BY <1>1, <1>4, <2>3, OthersTimed
  <2> QED
    BY <2>1, <2>2, <2>3
<1>6. kernel'.pended = kernel.pended
  BY <1>4 DEF SameClock
<1> QED
  BY <1>5, <1>6, ClockFrom

-----------------------------------------------------------------------------
(* The steps that take time.                                               *)

LEMMA UntilPeriodic ==
  ASSUME Sound, NEW t \in Task
  PROVE  /\ ask[t].op = "until" => Periodic(t)
         /\ ask[t].op \in {"delay", "take", "takeAll"} <=> Limited(t)
         /\ notify[t] = "waiting" => ask[t].op \in {"take", "takeAll"}
         /\ ask[t] = NoAsk => ~Limited(t)
         /\ t \in ToSet(kernel.pending) =>
              /\ notify[t] # "waiting"
              /\ ask[t].op \in {"take", "takeAll"}
<1>1. AskOK(ask[t], t) /\ Place(at[t], ask[t], t)
  BY DEF Sound, Typed, InCall
<1>2. ask[t].op = "until" => Periodic(t)
  BY <1>1 DEF AskOK, NoAsk, Periodic
<1>3. at[t] = "taken" => ask[t].op \in {"take", "takeAll"}
  BY <1>1 DEF Place
<1> QED
  BY <1>2, <1>3 DEF Limited, Sound, Noticed, NoAsk

(* A suspension ends: what was held back is taken in, and who had no more  *)
(* than that left is woken.                                                *)
LEMMA EndedTimed ==
  ASSUME Sound, Clock, NEW X \in SUBSET Sleepers(kernel), Ended(X),
         kernel'.pended = 0, kernel'.tick = (kernel.tick + kernel.pended) % TickMod,
         Still, UNCHANGED <<app, ask>>, NEW t \in Task, at'[t] # "suspended",
         ask[t].op = "delay" => at[t] # "suspended"
  PROVE  Timed(t)'
<1>1. /\ owed[t] \in Int /\ ahead[t] \in Int /\ last[t] \in 0..(TickMod - 1)
      /\ kernel.tick \in 0..(TickMod - 1) /\ kernel.pended \in Nat
      /\ TickMod \in Nat \ {0, 1} /\ Lost = -TickMod
      /\ t \in Sleepers(kernel) => Left(kernel, t) \in 1..(TickMod - 1)
  BY NumbersAre
<1>2. Timed(t)
  BY DEF Clock
<1>3. /\ owed'[t] = owed[t] /\ ahead'[t] = ahead[t] /\ last'[t] = last[t]
      /\ notify'[t] = notify[t] /\ ask'[t] = ask[t] /\ Alive' = Alive
      /\ Late(t)' = Late(t) /\ Due(t)' = Due(t) /\ Periodic(t)' = Periodic(t)
  BY DEF Still, Late, Due, Periodic
<1>4. /\ t \in Sleepers(kernel') => t \in Sleepers(kernel)
                                    /\ Left(kernel', t) = Left(kernel, t) - kernel.pended
      /\ t \in Sleepers(kernel) \ Sleepers(kernel') => t \in X \/ t \in ToSet(kernel.pending)
      /\ t \in X => t \in Sleepers(kernel) /\ Left(kernel, t) <= kernel.pended
  BY DEF Ended, Released, InTurn
<1>5. Due(t) \in Int
  BY <1>1 DEF Due
<1>6. Sleeping(t)'
  <2>1. SUFFICES ASSUME t \in Sleepers(kernel'), ~Late(t)
                 PROVE  ask[t].op \in {"delay", "until", "take", "takeAll"}
                        /\ Due(t) = Left(kernel', t)
    BY <1>2, <1>3, <1>4, <1>5 DEF Timed, Sleeping
  <2>2. Due(t) + kernel.pended = Left(kernel, t)
        /\ ask[t].op \in {"delay", "until", "take", "takeAll"}
    BY <1>2, <1>4, <2>1 DEF Timed, Sleeping
  <2> QED
    BY <1>1, <1>4, <1>5, <2>1, <2>2
<1>7. ASSUME t \in X, ~Late(t)
      PROVE  Due(t) <= 0
  BY <1>1, <1>2, <1>4, <1>5, <1>7 DEF Timed, Sleeping
<1>8. Waking(t)'
  <2>1. SUFFICES ASSUME ask[t].op \in {"delay", "until"} \/ notify[t] = "waiting",
                        t \in Alive \ Sleepers(kernel'), ~Late(t)
                 PROVE  Due(t) <= 0
    BY <1>3, <1>5 DEF Waking
  <2>2. CASE t \in Sleepers(kernel)
    <3>1. t \in X
      BY <1>4, <2>1, <2>2, UntilPeriodic
    <3> QED
      BY <1>7, <2>1, <3>1
  <2>3. CASE t \notin Sleepers(kernel)
    <3>1. Due(t) + kernel.pended <= 0
      BY <1>2, <2>1, <2>3 DEF Timed, Waking
    <3> QED
      BY <1>1, <1>5, <3>1
  <2> QED
    BY <2>2, <2>3
<1>9. Starting(t)'
  BY <1>2, <1>3 DEF Timed, Starting
<1>10. Periods(t)'
  <2>1. SUFFICES ASSUME Periodic(t), ahead[t] # Lost, t \in Alive
                 PROVE  /\ ahead[t] > Lost
                        /\ last[t] - kernel'.tick - ahead[t] \in {-TickMod, 0, TickMod}
                        /\ (ask[t].op = "until" /\ t \in Sleepers(kernel')) \/ ahead[t] <= 0
    BY <1>1, <1>3 DEF Periods
  <2>2. /\ ahead[t] > Lost
        /\ last[t] - kernel.tick - (ahead[t] + kernel.pended) \in {-TickMod, 0, TickMod}
        /\ \/ ask[t].op = "until" /\ t \in Sleepers(kernel)
           \/ ahead[t] + kernel.pended <= 0
    BY <1>2, <2>1 DEF Timed, Periods
  <2>3. ~Late(t)
    BY <2>1 DEF Late
  <2>4. ask[t].op = "until" => Due(t) = ahead[t]
    BY DEF Due
  <2>5. ahead[t] < TickMod
    BY <1>1, <1>2, <2>2, <2>3, <2>4 DEF Timed, Sleeping
  <2>6. last[t] - kernel'.tick - ahead[t] \in {-TickMod, 0, TickMod}
    BY <1>1, <2>2, <2>5, DistanceKept
  <2>7. (ask[t].op = "until" /\ t \in Sleepers(kernel')) \/ ahead[t] <= 0
    <3>1. CASE ask[t].op = "until" /\ t \in Sleepers(kernel) \ Sleepers(kernel')
      BY <1>4, <1>7, <2>3, <2>4, <3>1, UntilPeriodic
    <3>2. CASE ahead[t] + kernel.pended <= 0
      BY <1>1, <3>2
    <3> QED
      BY <2>2, <3>1, <3>2
  <2> QED
    BY <2>2, <2>6, <2>7
<1> QED
  BY <1>6, <1>8, <1>9, <1>10 DEF Timed

LEMMA EndedClock ==
  ASSUME Sound, Clock, NEW X \in SUBSET Sleepers(kernel), Ended(X),
         kernel'.pended = 0, kernel'.tick = (kernel.tick + kernel.pended) % TickMod,
         Still, UNCHANGED <<app, ask>>, Own(cur), at'[cur] # "suspended",
         at[cur] = "suspended" => ask[cur].op = "suspend"
  PROVE  Clock'
<1>1. ASSUME NEW t \in Task PROVE Timed(t)'
  <2>1. t # cur => at[t] # "suspended" /\ at'[t] # "suspended"
    BY RunningIs DEF Running, Holding, Own
  <2>2. at'[t] # "suspended" /\ (ask[t].op = "delay" => at[t] # "suspended")
    BY <2>1
  <2> QED
    BY <2>2, EndedTimed
<1>2. kernel'.pended <= MaxPended
  BY DelayAssumption
<1> QED
  BY <1>1, <1>2, ClockFrom

LEMMA ClockResume ==
  ASSUME Sound, Clock, Resume, UNCHANGED app
  PROVE  Clock'
<1> DEFINE k == ResumeAll(kernel, cur)
<1>1. /\ Running /\ InCall
      /\ at[cur] = "suspended" => ask[cur].op = "suspend"
      /\ IF k.yield THEN Switch(k) ELSE Continue(k)
      /\ Goto("return") \/ Goto("yield")
      /\ UNCHANGED ask /\ Still
  BY ResumeFrom, AliveKept DEF Still
<1>2. /\ kernel'.pended = 0 /\ kernel'.tick = (kernel.tick + kernel.pended) % TickMod
      /\ \E X \in SUBSET Sleepers(kernel) : Ended(X)
  BY <1>1, EndsIs
<1> HIDE DEF k
<1>3. Own(cur) /\ at'[cur] # "suspended"
  BY <1>1, GotoOwn DEF Running, Places
<1> QED
  BY <1>1, <1>2, <1>3, EndedClock

LEMMA ClockIdleLooked ==
  ASSUME Sound, Clock, IdleLooked, UNCHANGED app
  PROVE  Clock'
<1> DEFINE k == ResumeAll(kernel, cur)
<1>1. /\ at[cur] = "looking" /\ Own(cur) /\ at'[cur] # "suspended"
      /\ IF k.yield THEN Switch(k) ELSE Continue(k)
      /\ UNCHANGED ask /\ Still
  BY IdleLookedIs, AliveKept DEF Still
<1>2. /\ kernel'.pended = 0 /\ kernel'.tick = (kernel.tick + kernel.pended) % TickMod
      /\ \E X \in SUBSET Sleepers(kernel) : Ended(X)
  BY <1>1, EndsIs
<1> QED
  BY <1>1, <1>2, EndedClock

LEMMA AgedIs ==
  ASSUME Sound, Age, NEW t \in Task
  PROVE  /\ owed'[t] = IF Limited(t) /\ owed[t] > -MaxPended THEN owed[t] - 1 ELSE owed[t]
         /\ ahead'[t] = IF Periodic(t) /\ ahead[t] > Lost THEN ahead[t] - 1 ELSE ahead[t]
  BY DEF Age

(* What a tick leaves alone.                                               *)
LEMMA TickLeaves ==
  ASSUME Sound, Tick, UNCHANGED app, NEW t \in Task
  PROVE  /\ UNCHANGED <<at, ask, notify, last, suspended>> /\ Alive' = Alive /\ Age
         /\ Periodic(t)' = Periodic(t) /\ Limited(t)' = Limited(t)
  BY AliveKept DEF Tick, Periodic, Limited

(* A tick that is counted at once: everybody is one tick nearer.           *)
LEMMA FreeTimed ==
  ASSUME Sound, Clock, Tick, UNCHANGED app, suspended = 0,
         kernel'.tick = (kernel.tick + 1) % TickMod, kernel'.pended = kernel.pended,
         NEW X \in SUBSET Sleepers(kernel), Woke(X), NEW t \in Task
  PROVE  Timed(t)'
<1>1. /\ owed[t] \in Int /\ ahead[t] \in Int /\ last[t] \in 0..(TickMod - 1)
      /\ kernel.tick \in 0..(TickMod - 1)
      /\ TickMod \in Nat \ {0, 1} /\ Lost = -TickMod
      /\ t \in Sleepers(kernel) => Left(kernel, t) \in 1..(TickMod - 1)
  BY NumbersAre
<1>2. Timed(t) /\ MaxPended \in Nat
  BY DelayAssumption DEF Clock
<1>3. kernel.pended = 0 /\ kernel'.pended = 0
  BY DEF Sound, Exclusive
<1>4. /\ UNCHANGED <<at, ask, notify, last>> /\ Alive' = Alive
      /\ Periodic(t)' = Periodic(t)
      /\ owed'[t] = IF Limited(t) /\ owed[t] > -MaxPended THEN owed[t] - 1 ELSE owed[t]
      /\ ahead'[t] = IF Periodic(t) /\ ahead[t] > Lost THEN ahead[t] - 1 ELSE ahead[t]
  BY TickLeaves, AgedIs
<1>5. /\ t \in Sleepers(kernel') => t \in Sleepers(kernel)
                                    /\ Left(kernel', t) = Left(kernel, t) - 1
      /\ t \in Sleepers(kernel) \ Sleepers(kernel') => t \in X
      /\ t \in X => t \in Sleepers(kernel) /\ Left(kernel, t) <= 1
  BY DEF Woke, Released, InTurn
<1>6. Late(t) => Late(t)'
  BY <1>1, <1>4 DEF Late
<1>7. ASSUME t \in Sleepers(kernel), ~Late(t)
      PROVE  Due(t) = Left(kernel, t) /\ Due(t)' = Due(t) - 1
  <2>1. Due(t) = Left(kernel, t) /\ ask[t].op \in {"delay", "until", "take", "takeAll"}
    BY <1>1, <1>2, <1>3, <1>7 DEF Timed, Sleeping, Due
  <2>2. CASE ask[t].op = "until"
    <3>1. Periodic(t) /\ ahead[t] = Left(kernel, t)
      BY <2>1, <2>2, UntilPeriodic DEF Due
    <3>2. ahead'[t] = ahead[t] - 1
      BY <1>1, <1>4, <1>7, <3>1
    <3> QED
      BY <1>4, <2>1, <2>2, <3>2 DEF Due
  <2>3. CASE ask[t].op # "until"
    <3>1. Limited(t) /\ owed[t] = Left(kernel, t)
      BY <2>1, <2>3 DEF Due, Limited
    <3>2. owed'[t] = owed[t] - 1
      BY <1>1, <1>2, <1>4, <1>7, <3>1
    <3> QED
      BY <1>4, <2>1, <2>3, <3>2 DEF Due
  <2> QED
    BY <2>2, <2>3
<1>8. Due(t) \in Int /\ Due(t)' \in Int /\ Due(t)' <= Due(t)
  BY <1>1, <1>4 DEF Due
<1>9. Sleeping(t)'
  <2>1. SUFFICES ASSUME t \in Sleepers(kernel'), ~Late(t)
                 PROVE  ask[t].op \in {"delay", "until", "take", "takeAll"}
                        /\ Due(t)' + kernel'.pended = Left(kernel', t)
    BY <1>2, <1>4, <1>5, <1>6 DEF Timed, Sleeping
  <2>2. Due(t) = Left(kernel, t) /\ Due(t)' = Due(t) - 1
    BY <1>5, <1>7, <2>1
  <2> QED
    BY <1>2, <1>3, <1>5, <1>8, <2>1, <2>2 DEF Timed, Sleeping
<1>10. ASSUME t \in X, ~Late(t)
       PROVE  Due(t)' <= 0
  BY <1>1, <1>5, <1>7, <1>8, <1>10
<1>11. Waking(t)'
  <2>1. SUFFICES ASSUME (ask[t].op = "delay" /\ at[t] # "suspended")
                        \/ ask[t].op = "until" \/ notify[t] = "waiting",
                        t \in Alive \ Sleepers(kernel'), ~Late(t)
                 PROVE  Due(t)' + kernel'.pended <= 0
    BY <1>4, <1>6 DEF Waking
  <2>2. CASE t \in Sleepers(kernel)
    BY <1>3, <1>5, <1>8, <1>10, <2>1, <2>2
  <2>3. CASE t \notin Sleepers(kernel)
    <3>1. Due(t) + kernel.pended <= 0
      BY <1>2, <2>1, <2>3 DEF Timed, Waking
    <3> QED
      BY <1>3, <1>8, <3>1
  <2> QED
    BY <2>2, <2>3
<1>12. Starting(t)'
  <2>1. at[t] # "suspended"
    BY DEF Sound, Exclusive, Holding
  <2> QED
    BY <1>2, <1>4, <2>1, UntilPeriodic DEF Timed, Starting
<1>13. Periods(t)'
  <2>1. SUFFICES ASSUME Periodic(t), ahead'[t] # Lost, t \in Alive
                 PROVE  /\ ahead'[t] > Lost
                        /\ last[t] - kernel'.tick - ahead'[t] \in {-TickMod, 0, TickMod}
                        /\ (ask[t].op = "until" /\ t \in Sleepers(kernel')) \/ ahead'[t] <= 0
    BY <1>1, <1>3, <1>4 DEF Periods
  <2>2. ahead[t] # Lost
    BY <1>1, <1>4, <2>1
  <2>3. /\ ahead[t] > Lost
        /\ last[t] - kernel.tick - ahead[t] \in {-TickMod, 0, TickMod}
        /\ (ask[t].op = "until" /\ t \in Sleepers(kernel)) \/ ahead[t] <= 0
    BY <1>1, <1>2, <1>3, <2>1, <2>2 DEF Timed, Periods
  <2>4. ahead'[t] = ahead[t] - 1 /\ ahead'[t] > Lost
    BY <1>1, <1>4, <2>1, <2>3
  <2>5. ~Late(t) /\ (ask[t].op = "until" => Due(t) = ahead[t] /\ Due(t)' = ahead'[t])
    BY <1>4, <2>2 DEF Late, Due
  <2>6. ahead[t] <= TickMod
    BY <1>1, <1>7, <2>3, <2>5
  <2>7. last[t] - kernel'.tick - ahead'[t] \in {-TickMod, 0, TickMod}
    <3>1. ahead'[t] \in Int /\ -TickMod < ahead'[t] /\ ahead'[t] < TickMod
      BY <1>1, <2>4, <2>6
    <3>2. last[t] - kernel.tick - (ahead'[t] + 1) \in {-TickMod, 0, TickMod}
      BY <1>1, <2>3, <2>4
    <3> QED
      BY <1>1, <3>1, <3>2, DistanceKept
  <2>8. (ask[t].op = "until" /\ t \in Sleepers(kernel')) \/ ahead'[t] <= 0
    <3>1. CASE ask[t].op = "until" /\ t \in Sleepers(kernel) \ Sleepers(kernel')
      BY <1>5, <1>10, <2>5, <3>1
    <3>2. CASE ahead[t] <= 0
      BY <1>1, <2>4, <3>2
    <3> QED
      BY <2>3, <3>1, <3>2
  <2> QED
    BY <2>4, <2>7, <2>8
<1> QED
  BY <1>9, <1>11, <1>12, <1>13 DEF Timed

(* A tick that is held back: the kernel knows of it and has not counted it *)
(* yet.                                                                    *)
LEMMA HeldTimed ==
  ASSUME Sound, Clock, MaxPended < PendedMod, Tick, UNCHANGED app, suspended # 0,
         NEW t \in Task
  PROVE  Timed(t)' /\ kernel'.pended <= MaxPended
<1>1. /\ owed[t] \in Int /\ ahead[t] \in Int /\ kernel.pended \in Nat
      /\ TickMod \in Nat \ {0, 1} /\ Lost = -TickMod
      /\ t \in Sleepers(kernel) => Left(kernel, t) \in 1..(TickMod - 1)
  BY NumbersAre
<1>2. Timed(t) /\ MaxPended \in Nat /\ PendedMod \in Nat
  BY DelayAssumption, Constants DEF Clock
<1>3. /\ Sleepers(kernel') = Sleepers(kernel) /\ kernel'.tick = kernel.tick
      /\ kernel.pended < MaxPended /\ kernel'.pended = kernel.pended + 1
      /\ Left(kernel', t) = Left(kernel, t)
  <2>1. TickHeld
    BY TickHeldIs
  <2> QED
    BY <1>1, <1>2, <2>1 DEF TickHeld, Left
<1>4. /\ UNCHANGED <<at, ask, notify, last>> /\ Alive' = Alive
      /\ Periodic(t)' = Periodic(t)
      /\ owed'[t] = IF Limited(t) /\ owed[t] > -MaxPended THEN owed[t] - 1 ELSE owed[t]
      /\ ahead'[t] = IF Periodic(t) /\ ahead[t] > Lost THEN ahead[t] - 1 ELSE ahead[t]
  BY TickLeaves, AgedIs
<1>5. Late(t) => Late(t)'
  BY <1>1, <1>4 DEF Late
<1>6. ASSUME Limited(t), owed[t] + kernel.pended > 0
      PROVE  owed'[t] + kernel'.pended = owed[t] + kernel.pended
  BY <1>1, <1>2, <1>3, <1>4, <1>6
<1>7. ASSUME Periodic(t), ahead[t] # Lost, t \in Alive
      PROVE  ahead[t] > Lost /\ ahead'[t] + kernel'.pended = ahead[t] + kernel.pended
  <2>1. ahead[t] > Lost
    BY <1>2, <1>7 DEF Timed, Periods
  <2> QED
    BY <1>1, <1>3, <1>4, <1>7, <2>1
<1>8. ASSUME ask[t].op = "until", ~Late(t), t \in Alive
      PROVE  Due(t)' + kernel'.pended = Due(t) + kernel.pended
  BY <1>4, <1>7, <1>8, UntilPeriodic DEF Due, Late
<1>9. ASSUME Limited(t)
      PROVE  Due(t) = owed[t] /\ Due(t)' = owed'[t]
  BY <1>4, <1>9 DEF Due, Limited
<1>10. Sleeping(t)'
  <2>1. SUFFICES ASSUME t \in Sleepers(kernel), ~Late(t)
                 PROVE  ask[t].op \in {"delay", "until", "take", "takeAll"}
                        /\ Due(t)' + kernel'.pended = Left(kernel, t)
    BY <1>2, <1>3, <1>4, <1>5 DEF Timed, Sleeping
  <2>2. /\ Due(t) + kernel.pended = Left(kernel, t) /\ t \in Alive
        /\ ask[t].op \in {"delay", "until", "take", "takeAll"}
    BY <1>2, <2>1, RunningIs DEF Timed, Sleeping, Running
  <2>3. CASE Limited(t)
    BY <1>1, <1>6, <1>9, <2>1, <2>2, <2>3
  <2>4. CASE ask[t].op = "until"
    BY <1>8, <2>1, <2>2, <2>4
  <2> QED
    BY <2>2, <2>3, <2>4 DEF Limited
<1>11. Waking(t)'
  <2>1. SUFFICES ASSUME (ask[t].op = "delay" /\ at[t] # "suspended")
                        \/ ask[t].op = "until" \/ notify[t] = "waiting",
                        t \in Alive \ Sleepers(kernel), ~Late(t)
                 PROVE  Due(t)' + kernel'.pended <= 0
    BY <1>3, <1>4, <1>5 DEF Waking
  <2>2. Due(t) + kernel.pended <= 0
    BY <1>2, <2>1 DEF Timed, Waking
  <2>3. CASE ask[t].op = "until"
    BY <1>8, <2>1, <2>2, <2>3
  <2>4. CASE Limited(t)
    <3>1. owed[t] + kernel.pended <= 0
      BY <1>9, <2>2, <2>4
    <3>2. owed'[t] + kernel'.pended <= 0
      BY <1>1, <1>2, <1>3, <1>4, <2>4, <3>1
    <3> QED
      BY <1>9, <2>4, <3>2
  <2> QED
    BY <2>1, <2>3, <2>4, UntilPeriodic
<1>12. Starting(t)'
  <2>1. ASSUME at[t] = "suspended", ask[t].op = "delay"
        PROVE  owed'[t] + kernel'.pended = ask[t].ticks
    <3>1. owed[t] + kernel.pended = ask[t].ticks /\ Limited(t)
      BY <1>2, <2>1 DEF Timed, Starting, Limited
    <3>2. ask[t].ticks > 0
      BY <2>1 DEF Sound, Typed, InCall, Place
    <3> QED
      BY <1>6, <3>1, <3>2
  <2>2. ask[t] = NoAsk => owed'[t] = 0
    BY <1>2, <1>4, UntilPeriodic DEF Timed, Starting
  <2> QED
    BY <1>4, <2>1, <2>2 DEF Starting
<1>13. Periods(t)'
  <2>1. SUFFICES ASSUME Periodic(t), ahead'[t] # Lost, t \in Alive
                 PROVE  LET d == ahead'[t] + kernel'.pended
                        IN /\ ahead'[t] > Lost
                           /\ last[t] - kernel.tick - d \in {-TickMod, 0, TickMod}
                           /\ (ask[t].op = "until" /\ t \in Sleepers(kernel)) \/ d <= 0
    BY <1>3, <1>4 DEF Periods
  <2>2. ahead[t] # Lost
    BY <1>1, <1>4, <2>1
  <2>3. ahead[t] > Lost /\ ahead'[t] + kernel'.pended = ahead[t] + kernel.pended
    BY <1>7, <2>1, <2>2
  <2>4. ahead'[t] > Lost
    BY <1>1, <1>4, <2>1, <2>3
  <2> QED
    BY <1>2, <2>1, <2>2, <2>3, <2>4 DEF Timed, Periods
<1>14. kernel'.pended <= MaxPended
  BY <1>1, <1>2, <1>3
<1> QED
  BY <1>10, <1>11, <1>12, <1>13, <1>14 DEF Timed

LEMMA ClockOverTick ==
  ASSUME Sound, Clock, MaxPended < PendedMod, Tick, UNCHANGED app
  PROVE  Clock'
<1>1. CASE suspended = 0
  <2>1. /\ kernel'.tick = (kernel.tick + 1) % TickMod /\ kernel'.pended = kernel.pended
        /\ \E X \in SUBSET Sleepers(kernel) : Woke(X)
    BY <1>1, TickFree
  <2>2. \A t \in Task : Timed(t)'
    BY <1>1, <2>1, FreeTimed
  <2> QED
    BY <2>1, <2>2, ClockFrom
<1>2. CASE suspended # 0
  <2>1. \A t \in Task : Timed(t)' /\ kernel'.pended <= MaxPended
    BY <1>2, HeldTimed
  <2>2. Idle \in Task
    BY Constants
  <2> QED
    BY <2>1, <2>2, ClockFrom
<1> QED
  BY <1>1, <1>2

LEMMA ClockInit == Init => Clock
<1> SUFFICES ASSUME Init PROVE Clock
  OBVIOUS
<1>1. Sound
  BY SoundInit
<1>2. PICK order \in CreationOrders : kernel = KernelInit(order) /\ cur = FirstTask(order)
  BY DEF Init
<1>3. Sleepers(kernel) = {} /\ kernel.pended = 0 /\ kernel.tick = 0
  <2>1. ToSet(<<>>) = {}
    <3>1. <<>> \in Seq(Task)
      OBVIOUS
    <3> QED
      BY <3>1, ToSetIs
  <2> QED
    BY <1>2, <2>1, KernelInitIs DEF JustStarted, Sleepers
<1>4. ASSUME NEW t \in Task PROVE Timed(t)
  <2>0. /\ at[t] = "run" /\ ask[t] = NoAsk /\ notify[t] = "not waiting" /\ last[t] = 0
        /\ owed[t] = 0 /\ ahead[t] = 0
    BY DEF Init
  <2>1. /\ at[t] = "run" /\ ask[t] = NoAsk /\ notify[t] # "waiting" /\ last[t] = 0
        /\ owed[t] = 0 /\ ahead[t] = 0
    BY <2>0
  <2>2. ask[t].op = "none"
    BY <2>1 DEF NoAsk
  <2>3. TickMod \in Nat \ {0, 1} /\ Lost = -TickMod
    BY <1>1, NumbersAre
  <2>4. Sleeping(t) /\ Waking(t) /\ Starting(t)
    BY <1>3, <2>1, <2>2 DEF Sleeping, Waking, Starting
  <2>5. Periods(t)
    BY <1>3, <2>1, <2>3 DEF Periods
  <2> QED
    BY <2>4, <2>5 DEF Timed
<1> QED
  BY <1>3, <1>4, DelayAssumption DEF Clock

LEMMA ClockStep ==
  ASSUME Sound, Clock, MaxPended < PendedMod, [Next]_vars
  PROVE  Clock'
<1>1. CASE UNCHANGED vars
  BY <1>1 DEF vars, calls, dead, measures, Clock, Timed, Sleeping, Waking, Starting, Periods,
              Late, Due, Periodic, Alive, Dead
<1>2. CASE Next
  <2>0. UNCHANGED app
    BY <1>2 DEF Next
  <2>1. CASE SuspendAll
    BY <2>0, <2>1, ClockSuspend
  <2>2. CASE DelayNone
    BY <2>0, <2>2, ClockDelayNone
  <2>3. CASE Take
    BY <2>0, <2>3, ClockTake
  <2>4. CASE Give
    BY <2>0, <2>4, ClockGive
  <2>5. CASE Delete
    BY <2>0, <2>5, ClockDelete
  <2>6. CASE GiveFromISR
    BY <2>0, <2>6, ClockGiveFromISR
  <2>7. CASE Tick
    BY <2>0, <2>7, ClockOverTick
  <2>8. CASE DelayBody
    BY <2>0, <2>8, ClockDelayBody
  <2>9. CASE DelayUntilBody
    BY <2>0, <2>9, ClockUntilBody
  <2>10. CASE Resume
    BY <2>0, <2>10, ClockResume
  <2>11. CASE Yield
    BY <2>0, <2>11, ClockYield
  <2>12. CASE Finish
    BY <2>0, <2>12, ClockFinish
  <2>13. CASE Taken
    BY <2>0, <2>13, ClockTaken
  <2>14. CASE AfterDelete
    BY <2>0, <2>14, ClockAfterDelete
  <2>15. CASE IdleLook
    BY <2>0, <2>15, ClockIdleLook
  <2>16. CASE IdleLooked
    BY <2>0, <2>16, ClockIdleLooked
  <2>17. CASE IdleReap
    BY <2>0, <2>17, ClockIdleReap
  <2> QED
    BY <1>2, <2>1, <2>2, <2>3, <2>4, <2>5, <2>6, <2>7, <2>8, <2>9, <2>10, <2>11, <2>12,
       <2>13, <2>14, <2>15, <2>16, <2>17 DEF Next, TaskStep
<1> QED
  BY <1>1, <1>2

(* A sleeper is woken at exactly the tick it asked for, and one that is    *)
(* not asleep and was not notified was due already, however many ticks     *)
(* were held back by a suspension and wherever the tick count wrapped; as  *)
(* long as no suspension holds back more ticks than the eight bits of      *)
(* uxPendedTicks can count (tasks.c:840, 930, 1722).                       *)
THEOREM WakesInTime ==
  ASSUME MaxPended < PendedMod
  PROVE  Spec => []InTime
<1>1. Sound /\ Clock => InTime
  <2> SUFFICES ASSUME Sound, Clock PROVE InTime
    OBVIOUS
  <2>1. ASSUME NEW t \in Task, Asleep(t)
        PROVE  /\ Remaining(t) + kernel.pended > 0
               /\ Late(t) \/ Due(t) = Remaining(t)
    <3>1. t \in Sleepers(kernel)
      BY <2>1, AsleepIs
    <3>2. /\ owed[t] \in Int /\ ahead[t] \in Int /\ kernel.pended \in Nat
          /\ kernel.tick \in 0..(TickMod - 1) /\ kernel.wake[t] \in 0..(TickMod - 1)
          /\ TickMod \in Nat \ {0, 1} /\ Left(kernel, t) \in 1..(TickMod - 1)
      BY <3>1, NumbersAre
    <3>3. Remaining(t) = Left(kernel, t) - kernel.pended
      <4>1. /\ t \in ToSet(kernel.delayed) => Left(kernel, t) = kernel.wake[t] - kernel.tick
            /\ t \in ToSet(kernel.overflow) =>
                 Left(kernel, t) = kernel.wake[t] - kernel.tick + TickMod
            /\ t \in ToSet(kernel.delayed) \cup ToSet(kernel.overflow)
        BY <3>1, LeftIs DEF Sound, Housed, Sleepers
      <4>2. Contains(kernel.delayed, t) <=> t \in ToSet(kernel.delayed)
        BY AsleepIs
      <4> QED
        BY <3>2, <4>1, <4>2 DEF Remaining
    <3>4. Late(t) \/ Due(t) + kernel.pended = Left(kernel, t)
      BY <3>1 DEF Clock, Timed, Sleeping
    <3>5. Due(t) \in Int
      BY <3>2 DEF Due
    <3> QED
      BY <3>2, <3>3, <3>4, <3>5
  <2>2. ASSUME NEW t \in Task,
               \/ ask[t].op \in {"delay", "until"} /\ at[t] \in {"resume", "yield", "return"}
               \/ notify[t] = "waiting",
               ~Asleep(t), ~Dead(t)
        PROVE  Due(t) <= 0
    <3>1. t \in Alive \ Sleepers(kernel)
      BY <2>2, AsleepIs DEF Alive
    <3>2. /\ owed[t] \in Int /\ ahead[t] \in Int /\ kernel.pended \in Nat
          /\ TickMod \in Nat /\ Lost = -TickMod
      BY NumbersAre
    <3>3. Due(t) \in Int
      BY <3>2 DEF Due
    <3>4. CASE Late(t)
      BY <3>2, <3>4 DEF Late, Due
    <3>5. CASE ~Late(t)
      <4>1. Due(t) + kernel.pended <= 0
        BY <2>2, <3>1, <3>5 DEF Clock, Timed, Waking
      <4> QED
        BY <3>2, <3>3, <4>1
    <3> QED
      BY <3>4, <3>5
  <2> QED
    BY <2>1, <2>2 DEF InTime
<1>2. Sound /\ Clock /\ [Next]_vars => (Sound /\ Clock)'
  BY SoundStep, ClockStep
<1>3. Init => Sound /\ Clock
  BY SoundInit, ClockInit
<1> QED
  BY <1>1, <1>2, <1>3, PTL DEF Spec

=============================================================================
