------------------------ MODULE FreeRtosQueueProofs ------------------------
(***************************************************************************)
(* Theorems about FreeRtosQueue, and about the comparisons of times that   *)
(* it shares with FreeRtosDelay, for every set of tasks and programs and   *)
(* every queue, tick counter and bound.  They rest on one inductive        *)
(* invariant, Correct: the suspension is exclusive (Exclusive), the ring   *)
(* holds what its positions say (RingInv), the kernel's lists are in order *)
(* and fit the calls and the locks (Sound), what a caller is still owed    *)
(* has not come since it took the time (Timely), and every task that waits *)
(* while it could go on is paid for by a woken one or by a mark on a lock  *)
(* (Covered).                                                              *)
(***************************************************************************)
EXTENDS FreeRtosQueue, FreeRtosTasksProofs

CallFields == {"at", "op", "item", "ticks", "set", "from", "after", "seen", "owed"}

(* The state of the calls, as far as it does not depend on the kernel.     *)
Shape ==
  /\ DOMAIN call = Task
  /\ \A t \in Task : DOMAIN call[t] = CallFields

LEMMA ShapeInit == Init => Shape
  BY DEF Init, Shape, NoCall, CallFields

Step == Call \/ Reset \/ TaskStep \/ Tick \/ IsrSend \/ IsrReceive

LEMMA ShapeStep == Shape /\ Step => Shape'
<1> SUFFICES ASSUME Shape, Step PROVE Shape'
  OBVIOUS
<1> USE DEF Shape
<1>1. DOMAIN NoCall = CallFields
  BY DEF NoCall, CallFields
<1>2. CASE Call
  BY <1>2, <1>1 DEF Call, Started
<1>3. CASE Reset
  BY <1>3 DEF Reset
<1>4. CASE TaskStep
  BY <1>4, <1>1 DEF TaskStep, Succeed, FailAtOnce, PrepareToWait,
     LoadSuspended,
     StoreSuspended, Lock, Expire, NotYetExpired, TestAgain, Place, UnlockTx,
     UnlockRx, Resume, AfterResume, Yield, Goto
<1>5. CASE Tick
  BY <1>5 DEF Tick, Age
<1>6. CASE IsrSend \/ IsrReceive
  BY <1>6 DEF IsrSend, IsrReceive
<1> QED
  BY <1>2, <1>3, <1>4, <1>5, <1>6 DEF Step

-----------------------------------------------------------------------------
(* Suspension.  A task that has loaded the counter may be preempted before *)
(* it stores it, but then no other task is inside a suspension when it     *)
(* runs again: what it has loaded is 0.                                    *)
LoadedIsZero == \A t \in Task : call[t].at = "store" => call[t].seen = 0

Exclusive == Shape /\ SuspensionExclusive /\ LoadedIsZero

LEMMA ExclusiveInit == Init => Exclusive
  BY ShapeInit
     DEF Init, Exclusive, SuspensionExclusive, LoadedIsZero, InSuspension,
         NoCall

(* A step that leaves the processor to the same task, or finds nobody in a *)
(* suspension.                                                             *)
LEMMA ExclusiveKept ==
  ASSUME Exclusive, Shape', cur \in Task, UNCHANGED suspended,
         suspended = 1 => UNCHANGED cur,
         \A t \in Task : /\ InSuspension(t)' <=> InSuspension(t)
                         /\ call'[t].at = "store" => call'[t].seen = 0
  PROVE  Exclusive'
  BY DEF Exclusive, SuspensionExclusive, LoadedIsZero, InSuspension

LEMMA ExclusiveTask == Exclusive /\ cur \in Task /\ TaskStep => Exclusive'
<1> SUFFICES ASSUME Exclusive, cur \in Task, TaskStep PROVE Exclusive'
  OBVIOUS
<1>0. Shape'
  BY ShapeStep DEF Exclusive, Step
<1>1. /\ Shape /\ (suspended = 1 <=> InSuspension(cur)) /\ LoadedIsZero
      /\ suspended \in {0, 1}
      /\ \A t \in Task : InSuspension(t) => cur = t
  BY DEF Exclusive, SuspensionExclusive, LoadedIsZero
<1> USE <1>0, <1>1, ExclusiveKept DEF At, InSuspension, LoadedIsZero, Shape, CallFields
<1>2. CASE Succeed
  <2>1. ~InSuspension(cur)
    BY <1>2 DEF Succeed
  <2> QED
    BY <1>2, <2>1 DEF Succeed, NoCall
<1>3. CASE FailAtOnce
  <2>1. UNCHANGED <<suspended, cur>>
    BY <1>3 DEF FailAtOnce
  <2>2. \A t \in Task : /\ InSuspension(t)' <=> InSuspension(t)
                        /\ call'[t].at = "store" => call'[t].seen = 0
    BY <1>3 DEF FailAtOnce, NoCall
  <2> QED
    BY <2>1, <2>2
<1>4. CASE PrepareToWait
  BY <1>4 DEF PrepareToWait
<1>5. CASE LoadSuspended
  BY <1>5 DEF LoadSuspended
<1>6. CASE StoreSuspended
  <2>1. suspended' = 1 /\ UNCHANGED cur
    BY <1>6 DEF StoreSuspended, Exclusive, LoadedIsZero
  <2>2. \A t \in Task : InSuspension(t)' => t = cur
    BY <1>6 DEF StoreSuspended
  <2>3. InSuspension(cur)' /\ LoadedIsZero'
    BY <1>6 DEF StoreSuspended, Exclusive, LoadedIsZero
  <2> QED
    BY <2>1, <2>2, <2>3 DEF Exclusive, SuspensionExclusive
<1>7. CASE Lock \/ Expire \/ NotYetExpired \/ TestAgain \/ Place \/ UnlockTx
           \/ UnlockRx
  BY <1>7 DEF Lock, Expire, NotYetExpired, TestAgain, Place, UnlockTx,
     UnlockRx,
              Goto
<1>8. CASE Resume
  <2>1. /\ suspended' = 0
        /\ call'[cur].at \in {"none", "yield", "try"}
        /\ \A t \in Task \ {cur} : call'[t] = call[t]
    BY <1>8 DEF Resume, AfterResume, NoCall
  <2> QED
    BY <2>1 DEF Exclusive, SuspensionExclusive
<1>9. CASE Yield
  BY <1>9 DEF Yield, Goto
<1> QED
  BY <1>2, <1>3, <1>4, <1>5, <1>6, <1>7, <1>8, <1>9 DEF TaskStep

LEMMA ExclusiveOther ==
  /\ Exclusive /\ cur \in Task /\ (Call \/ Reset \/ Tick \/ IsrSend \/ IsrReceive)
  => Exclusive'
<1> SUFFICES ASSUME Exclusive, cur \in Task,
                    Call \/ Reset \/ Tick \/ IsrSend \/ IsrReceive
    PROVE Exclusive'
  OBVIOUS
<1>0. Shape'
  BY ShapeStep DEF Exclusive, Step
<1>1. /\ Shape /\ (suspended = 1 <=> InSuspension(cur)) /\ LoadedIsZero
      /\ suspended \in {0, 1}
  BY DEF Exclusive, SuspensionExclusive, LoadedIsZero
<1> USE <1>0, <1>1, ExclusiveKept DEF At, InSuspension, LoadedIsZero, Shape, CallFields
<1>2. CASE Call
  <2>1. UNCHANGED <<suspended, cur>> /\ call[cur].at = "none"
    BY <1>2 DEF Call
  <2>2. PICK ask \in app.asks :
          \E item \in IF Sends(ask.op) THEN app.items ELSE {NoItem} :
            call' = [call EXCEPT ![cur] = Started(ask.op, item, ask.ticks)]
    BY <1>2 DEF Call
  <2>3. PICK item : call' = [call EXCEPT ![cur] = Started(ask.op, item, ask.ticks)]
    BY <2>2
  <2>4. /\ call'[cur].at = "try"
        /\ \A t \in Task \ {cur} : call'[t] = call[t]
    BY <2>3 DEF Started, NoCall
  <2> QED
    BY <2>1, <2>4
<1>3. CASE Reset
  BY <1>3 DEF Reset
<1>4. CASE Tick
  <2>1. UNCHANGED suspended /\ (suspended = 1 => UNCHANGED cur)
    BY <1>4 DEF Tick, Reschedule, Continue
  <2>2. \A t \in Task : call'[t].at = call[t].at /\ call'[t].seen = call[t].seen
    BY <1>4 DEF Tick, Age
  <2> QED
    BY <2>1, <2>2
<1>5. CASE IsrSend \/ IsrReceive
  BY <1>5 DEF IsrSend, IsrReceive, Continue
<1> QED
  BY <1>2, <1>3, <1>4, <1>5

-----------------------------------------------------------------------------
(* The ring.                                                               *)

(* The state of a queue whose ring positions agree.                        *)
QueueOf(length, items) ==
  [length : {length}, buffer : [0..(length - 1) -> items \cup {NoItem}],
   count : 0..length, writeTo : 0..(length - 1), readFrom : 0..(length - 1),
   rxLock : Int, txLock : Int, cleared : BOOLEAN]

Agree(q) == q.writeTo = Wrapped(q, q.readFrom + 1 + q.count)

IsRing(length, items, q) == q \in QueueOf(length, items) /\ Agree(q)

LEMMA Fields ==
  ASSUME NEW length \in Nat \ {0}, NEW items, NEW q \in QueueOf(length, items)
  PROVE  /\ q.length = length /\ q.count \in 0..length
         /\ q.writeTo \in 0..(length - 1) /\ q.readFrom \in 0..(length - 1)
         /\ q.buffer \in [0..(length - 1) -> items \cup {NoItem}]
  BY DEF QueueOf

(* The slot of the i-th item, and what the queue holds.                    *)
Slot(q, i) == IF q.readFrom + i < q.length THEN q.readFrom + i
                                          ELSE q.readFrom + i - q.length

Held(q) == [i \in 1..q.count |-> q.buffer[Slot(q, i)]]

LEMMA HeldSeq ==
  ASSUME NEW length \in Nat \ {0}, NEW items, NEW q \in QueueOf(length, items)
  PROVE  /\ Held(q) \in Seq(items \cup {NoItem}) /\ Len(Held(q)) = q.count
         /\ \A i \in 1..q.count : /\ Slot(q, i) \in 0..(length - 1)
                                  /\ Held(q)[i] = q.buffer[Slot(q, i)]
<1>1. \A i \in 1..q.count : Slot(q, i) \in 0..(length - 1)
  BY Fields DEF Slot
<1>2. q.count \in Nat /\ \A i \in 1..q.count : q.buffer[Slot(q, i)] \in items \cup {NoItem}
  BY <1>1, Fields
<1> QED
  BY <1>1, <1>2 DEF Held

LEMMA SentToBack ==
  ASSUME NEW length \in Nat \ {0}, NEW items, NEW item \in items, NEW q,
         IsRing(length, items, q), q.count < q.length
  PROVE  LET r == CopyDataToQueue(q, item, "back")
         IN IsRing(length, items, r) /\ Held(r) = Append(Held(q), item)
<1> DEFINE r == CopyDataToQueue(q, item, "back")
<1>0. /\ q \in QueueOf(length, items)
      /\ q.buffer \in [0..(length - 1) -> items \cup {NoItem}]
  BY Fields DEF IsRing
<1>1. /\ q.length = length
      /\ q.count \in 0..(length - 1) /\ q.readFrom \in 0..(length - 1)
      /\ q.writeTo \in 0..(length - 1)
  BY Fields DEF IsRing
<1>2. q.writeTo = Slot(q, q.count + 1)
  BY <1>1 DEF IsRing, Agree, Wrapped, Slot
<1>3. Up(q, q.writeTo) \in 0..(length - 1) /\ q.count + 1 \in 0..length
  BY <1>1 DEF Up
<1>b. [q.buffer EXCEPT ![q.writeTo] = item]
        \in [0..(length - 1) -> items \cup {NoItem}]
  BY <1>0
<1>4. r = [q EXCEPT !.buffer = [q.buffer EXCEPT ![q.writeTo] = item],
                    !.writeTo = Up(q, q.writeTo), !.count = q.count + 1]
  BY <1>0 DEF CopyDataToQueue, QueueOf
<1>5. /\ r.count = q.count + 1
      /\ r.readFrom = q.readFrom /\ r.length = length
      /\ r.writeTo = Up(q, q.writeTo)
  BY <1>0, <1>1, <1>4 DEF QueueOf
<1>c. r \in QueueOf(length, items)
  BY <1>0, <1>3, <1>b, <1>4 DEF QueueOf
<1>g. r.buffer = [q.buffer EXCEPT ![q.writeTo] = item]
  BY <1>0, <1>4 DEF QueueOf
<1> HIDE DEF r
<1>6. Agree(r)
  BY <1>1, <1>2, <1>5 DEF Agree, Wrapped, Slot, Up
<1>7. /\ \A i \in 1..q.count : Slot(r, i) = Slot(q, i) /\ Slot(q, i) # q.writeTo
      /\ Slot(r, q.count + 1) = q.writeTo
  BY <1>1, <1>2, <1>5 DEF Slot
<1>e. /\ Held(q) \in Seq(items \cup {NoItem}) /\ Len(Held(q)) = q.count
      /\ item \in items \cup {NoItem}
  BY <1>0, HeldSeq
<1>f. /\ Held(r) \in Seq(items \cup {NoItem}) /\ Len(Held(r)) = r.count
      /\ \A i \in 1..r.count : Held(r)[i] = r.buffer[Slot(r, i)]
  BY <1>c, HeldSeq
<1>8. /\ Held(r) \in Seq(items \cup {NoItem}) /\ Len(Held(r)) = q.count + 1
      /\ Append(Held(q), item) \in Seq(items \cup {NoItem})
      /\ Len(Append(Held(q), item)) = q.count + 1
  BY <1>5, <1>e, <1>f, AppendProperties
<1>d. /\ \A i \in 1..q.count : Append(Held(q), item)[i] = Held(q)[i]
      /\ Append(Held(q), item)[q.count + 1] = item
  BY <1>e, AppendProperties
<1>9. ASSUME NEW i \in 1..(q.count + 1)
      PROVE  Held(r)[i] = Append(Held(q), item)[i]
  <2>1. Held(r)[i] = r.buffer[Slot(r, i)]
    BY <1>5, <1>f
  <2>2. CASE i = q.count + 1
    <3>1. r.buffer[q.writeTo] = item
      BY <1>0, <1>1, <1>g
    <3> QED
      BY <2>1, <2>2, <3>1, <1>d, <1>7
  <2>3. CASE i # q.count + 1
    <3>0. i \in 1..q.count
      BY <2>3, <1>1
    <3>1. Held(q)[i] = q.buffer[Slot(q, i)] /\ Slot(q, i) \in 0..(length - 1)
      BY <3>0, <1>0, HeldSeq
    <3>2. r.buffer[Slot(q, i)] = q.buffer[Slot(q, i)]
      BY <3>0, <3>1, <1>0, <1>7, <1>g
    <3> QED
      BY <2>1, <3>0, <3>1, <3>2, <1>d, <1>7
  <2> QED
    BY <2>2, <2>3
<1>10. Held(r) = Append(Held(q), item)
  BY <1>8, <1>9, SeqEqual
<1> QED
  BY <1>c, <1>6, <1>10 DEF r, IsRing

LEMMA SentToFront ==
  ASSUME NEW length \in Nat \ {0}, NEW items, NEW item \in items, NEW q,
         IsRing(length, items, q), q.count < q.length,
         NEW op \in {"front", "overwrite"}, op = "overwrite" => q.count = 0
  PROVE  LET r == CopyDataToQueue(q, item, op)
         IN IsRing(length, items, r) /\ Held(r) = <<item>> \o Held(q)
<1> DEFINE r == CopyDataToQueue(q, item, op)
           s == <<item>> \o Held(q)
<1>0. /\ q \in QueueOf(length, items)
      /\ q.buffer \in [0..(length - 1) -> items \cup {NoItem}]
  BY Fields DEF IsRing
<1>1. /\ q.length = length
      /\ q.count \in 0..(length - 1) /\ q.readFrom \in 0..(length - 1)
      /\ q.writeTo \in 0..(length - 1)
  BY Fields DEF IsRing
<1>2. Down(q, q.readFrom) \in 0..(length - 1) /\ q.count + 1 \in 0..length
  BY <1>1 DEF Down
<1>b. [q.buffer EXCEPT ![q.readFrom] = item]
        \in [0..(length - 1) -> items \cup {NoItem}]
  BY <1>0
<1>3. r = [q EXCEPT !.buffer = [q.buffer EXCEPT ![q.readFrom] = item],
                    !.readFrom = Down(q, q.readFrom), !.count = q.count + 1]
  <2>1. op # "back" /\ ~(op = "overwrite" /\ q.count > 0)
    BY <1>1
  <2> QED
    BY <2>1, <1>0 DEF CopyDataToQueue, QueueOf
<1>4. /\ r.count = q.count + 1
      /\ r.readFrom = Down(q, q.readFrom) /\ r.length = length
      /\ r.writeTo = q.writeTo
  BY <1>0, <1>1, <1>3 DEF QueueOf
<1>c. r \in QueueOf(length, items)
  BY <1>0, <1>2, <1>b, <1>3 DEF QueueOf
<1>g. r.buffer = [q.buffer EXCEPT ![q.readFrom] = item]
  BY <1>0, <1>3 DEF QueueOf
<1>5. /\ s \in Seq(items \cup {NoItem}) /\ Len(s) = q.count + 1
      /\ \A i \in 1..(q.count + 1) :
           s[i] = IF i = 1 THEN item ELSE Held(q)[i - 1]
  <2>1. /\ <<item>> \in Seq(items \cup {NoItem}) /\ Len(<<item>>) = 1
        /\ <<item>>[1] = item /\ q.count \in Nat
    BY <1>1
  <2>2. Held(q) \in Seq(items \cup {NoItem}) /\ Len(Held(q)) = q.count
    BY <1>0, HeldSeq
  <2>3. /\ s \in Seq(items \cup {NoItem}) /\ Len(s) = 1 + q.count
        /\ \A i \in 1..(1 + q.count) :
             s[i] = IF i <= 1 THEN <<item>>[i] ELSE Held(q)[i - 1]
    BY <2>1, <2>2, ConcatProperties
  <2> QED
    BY <2>1, <2>3
<1> HIDE DEF r, s
<1>6. Agree(r)
  BY <1>1, <1>4 DEF IsRing, Agree, Wrapped, Down
<1>7. /\ Slot(r, 1) = q.readFrom
      /\ \A i \in 1..q.count : /\ Slot(r, i + 1) = Slot(q, i)
                               /\ Slot(q, i) # q.readFrom
  BY <1>1, <1>4 DEF Slot, Down
<1>f. /\ Held(r) \in Seq(items \cup {NoItem}) /\ Len(Held(r)) = r.count
      /\ \A i \in 1..r.count : Held(r)[i] = r.buffer[Slot(r, i)]
  BY <1>c, HeldSeq
<1>8. Held(r) \in Seq(items \cup {NoItem}) /\ Len(Held(r)) = q.count + 1
  BY <1>4, <1>f
<1>9. ASSUME NEW i \in 1..(q.count + 1)
      PROVE  Held(r)[i] = s[i]
  <2>1. Held(r)[i] = r.buffer[Slot(r, i)]
    BY <1>4, <1>f
  <2>2. CASE i = 1
    <3>1. r.buffer[q.readFrom] = item
      BY <1>0, <1>1, <1>g
    <3> QED
      BY <2>1, <2>2, <3>1, <1>5, <1>7
  <2>3. CASE i # 1
    <3>1. i - 1 \in 1..q.count /\ (i - 1) + 1 = i
      BY <2>3, <1>1
    <3>2. /\ Held(q)[i - 1] = q.buffer[Slot(q, i - 1)]
          /\ Slot(q, i - 1) \in 0..(length - 1)
      BY <3>1, <1>0, HeldSeq
    <3>3. Slot(r, i) = Slot(q, i - 1) /\ Slot(q, i - 1) # q.readFrom
      BY <3>1, <1>7
    <3>4. r.buffer[Slot(q, i - 1)] = q.buffer[Slot(q, i - 1)]
      BY <3>2, <3>3, <1>0, <1>g
    <3> QED
      BY <2>1, <2>3, <3>2, <3>3, <3>4, <1>5
  <2> QED
    BY <2>2, <2>3
<1>10. Held(r) = s
  BY <1>5, <1>8, <1>9, SeqEqual
<1> QED
  BY <1>c, <1>6, <1>10 DEF r, s, IsRing

LEMMA Overwritten ==
  ASSUME NEW items, NEW item \in items, NEW q, IsRing(1, items, q)
  PROVE  LET r == CopyDataToQueue(q, item, "overwrite")
         IN IsRing(1, items, r) /\ Held(r) = <<item>>
<1> DEFINE r == CopyDataToQueue(q, item, "overwrite")
<1>0. /\ q \in QueueOf(1, items)
      /\ q.buffer \in [0..(1 - 1) -> items \cup {NoItem}]
  <2>1. 1 \in Nat \ {0}
    OBVIOUS
  <2> QED
    BY <2>1, Fields DEF IsRing
<1>1. /\ q.length = 1 /\ q.count \in {0, 1}
      /\ q.readFrom = 0 /\ q.writeTo = 0
  <2>1. 1 \in Nat \ {0} /\ 0..(1 - 1) = {0} /\ 0..1 = {0, 1}
    OBVIOUS
  <2> QED
    BY <2>1, Fields DEF IsRing
<1>2. /\ [q.buffer EXCEPT ![0] = item] \in [0..(1 - 1) -> items \cup {NoItem}]
      /\ [q.buffer EXCEPT ![0] = item][0] = item
  BY <1>0
<1>3. r = [q EXCEPT !.buffer = [q.buffer EXCEPT ![0] = item],
                    !.readFrom = 0, !.count = 1]
  <2>1. Down(q, q.readFrom) = 0
    BY <1>1 DEF Down
  <2>2. (IF q.count > 0 THEN q.count ELSE q.count + 1) = 1
    BY <1>1
  <2>3. r = [q EXCEPT !.buffer = [q.buffer EXCEPT ![q.readFrom] = item],
                      !.readFrom = Down(q, q.readFrom),
                      !.count = IF q.count > 0 THEN q.count ELSE q.count + 1]
    BY <1>0 DEF CopyDataToQueue, QueueOf
  <2> QED
    BY <2>1, <2>2, <2>3, <1>1
<1>4. r.count = 1 /\ r.readFrom = 0 /\ r.length = 1 /\ r.writeTo = 0
  BY <1>0, <1>1, <1>3 DEF QueueOf
<1>c. r \in QueueOf(1, items) /\ r.buffer[0] = item
  <2>1. 1 \in 0..1 /\ 0 \in 0..(1 - 1)
    OBVIOUS
  <2> QED
    BY <2>1, <1>0, <1>2, <1>3 DEF QueueOf
<1> HIDE DEF r
<1>5. Agree(r)
  BY <1>4 DEF Agree, Wrapped
<1>6. Slot(r, 1) = 0
  BY <1>4 DEF Slot
<1>7. /\ Held(r) \in Seq(items \cup {NoItem}) /\ Len(Held(r)) = 1
      /\ Held(r)[1] = item
  <2>1. 1 \in Nat \ {0}
    OBVIOUS
  <2>2. /\ Held(r) \in Seq(items \cup {NoItem}) /\ Len(Held(r)) = r.count
        /\ \A i \in 1..r.count : Held(r)[i] = r.buffer[Slot(r, i)]
    BY <2>1, <1>c, HeldSeq
  <2> QED
    BY <2>2, <1>4, <1>6, <1>c
<1>8. /\ <<item>> \in Seq(items \cup {NoItem}) /\ Len(<<item>>) = 1
      /\ <<item>>[1] = item
  OBVIOUS
<1>9. Held(r) = <<item>>
  BY <1>7, <1>8, SeqEqual
<1> QED
  BY <1>c, <1>5, <1>9 DEF r, IsRing

LEMMA TakenOut ==
  ASSUME NEW length \in Nat \ {0}, NEW items, NEW q,
         IsRing(length, items, q), q.count > 0
  PROVE  /\ IsRing(length, items, Removed(q)) /\ Held(q) # <<>>
         /\ NextItem(q) = Head(Held(q)) /\ NextItem(q) \in items \cup {NoItem}
         /\ Held(Removed(q)) = Tail(Held(q))
<1> DEFINE r == Removed(q)
<1>0. /\ q \in QueueOf(length, items)
      /\ q.buffer \in [0..(length - 1) -> items \cup {NoItem}]
  BY Fields DEF IsRing
<1>1. /\ q.length = length
      /\ q.count \in 1..length /\ q.readFrom \in 0..(length - 1)
      /\ q.writeTo \in 0..(length - 1)
  BY Fields DEF IsRing
<1>2. Up(q, q.readFrom) \in 0..(length - 1) /\ q.count - 1 \in 0..length
  BY <1>1 DEF Up
<1>3. r = [q EXCEPT !.readFrom = Up(q, q.readFrom), !.count = q.count - 1]
  BY <1>0 DEF Removed, QueueOf
<1>4. /\ r.count = q.count - 1
      /\ r.readFrom = Up(q, q.readFrom) /\ r.length = length
      /\ r.writeTo = q.writeTo
  BY <1>0, <1>1, <1>3 DEF QueueOf
<1>c. r \in QueueOf(length, items) /\ r.buffer = q.buffer
  BY <1>0, <1>2, <1>3 DEF QueueOf
<1> HIDE DEF r
<1>5. Agree(r)
  BY <1>1, <1>4 DEF IsRing, Agree, Wrapped, Up
<1>6. /\ Slot(q, 1) = Up(q, q.readFrom)
      /\ \A i \in 1..(q.count - 1) : Slot(r, i) = Slot(q, i + 1)
  BY <1>1, <1>4 DEF Slot, Up
<1>7. /\ Held(q) \in Seq(items \cup {NoItem}) /\ Len(Held(q)) = q.count
      /\ \A i \in 1..q.count : Held(q)[i] = q.buffer[Slot(q, i)]
  BY <1>0, HeldSeq
<1>8. /\ Held(q)[1] = NextItem(q) /\ NextItem(q) \in items \cup {NoItem}
  BY <1>0, <1>1, <1>2, <1>6, <1>7 DEF NextItem
<1>9. Held(q) # <<>> /\ Head(Held(q)) = NextItem(q)
  BY <1>1, <1>7, <1>8
<1>10. /\ Tail(Held(q)) \in Seq(items \cup {NoItem})
       /\ Len(Tail(Held(q))) = q.count - 1
       /\ \A i \in 1..(q.count - 1) : Tail(Held(q))[i] = Held(q)[i + 1]
  BY <1>7, <1>9, HeadTailProperties
<1>11. /\ Held(r) \in Seq(items \cup {NoItem}) /\ Len(Held(r)) = q.count - 1
       /\ \A i \in 1..(q.count - 1) : Held(r)[i] = q.buffer[Slot(r, i)]
  <2>1. /\ Held(r) \in Seq(items \cup {NoItem}) /\ Len(Held(r)) = r.count
        /\ \A i \in 1..r.count : Held(r)[i] = r.buffer[Slot(r, i)]
    BY <1>c, HeldSeq
  <2> QED
    BY <2>1, <1>4, <1>c
<1>12. \A i \in 1..(q.count - 1) : Held(r)[i] = Tail(Held(q))[i]
  <2>1. ASSUME NEW i \in 1..(q.count - 1)
        PROVE  Held(r)[i] = Tail(Held(q))[i]
    <3>1. i + 1 \in 1..q.count
      BY <1>1
    <3>2. Held(q)[i + 1] = q.buffer[Slot(q, i + 1)]
      BY <3>1, <1>7
    <3> QED
      BY <3>2, <1>6, <1>10, <1>11
  <2> QED
    BY <2>1
<1>13. Held(r) = Tail(Held(q))
  BY <1>10, <1>11, <1>12, SeqEqual
<1> QED
  BY <1>c, <1>5, <1>8, <1>9, <1>13 DEF r, IsRing

(* The two lock counters are no part of what the queue holds.              *)
Relocked(q, r) ==
  \E rx, tx \in Int : \/ r = [q EXCEPT !.rxLock = rx]
                      \/ r = [q EXCEPT !.txLock = tx]
                      \/ r = [q EXCEPT !.rxLock = rx, !.txLock = tx]

LEMMA Locked ==
  ASSUME NEW length \in Nat \ {0}, NEW items, NEW q, IsRing(length, items, q),
         NEW r, Relocked(q, r)
  PROVE  IsRing(length, items, r) /\ Held(r) = Held(q)
<1>1. /\ r \in QueueOf(length, items)
      /\ r.count = q.count /\ r.readFrom = q.readFrom /\ r.length = q.length
      /\ r.writeTo = q.writeTo /\ r.buffer = q.buffer
  BY DEF IsRing, QueueOf, Relocked
<1>2. Agree(r) /\ Held(r) = Held(q)
  BY <1>1 DEF IsRing, Agree, Wrapped, Held, Slot
<1> QED
  BY <1>1, <1>2 DEF IsRing

(* What may happen to a queue and to the item handed out last.             *)
Move(items, q, r, g, h) ==
  \/ Held(r) = Held(q) /\ h = g
  \/ Held(r) = <<>> /\ h = g
  \/ /\ \E i \in items :
          \/ q.count < q.length /\ Held(r) = Append(Held(q), i)
          \/ q.count < q.length /\ Held(r) = <<i>> \o Held(q)
          \/ q.length = 1 /\ Held(r) = <<i>>
     /\ h = g
  \/ /\ q.count > 0 /\ h = NextItem(q)
     /\ Held(r) = Held(q) \/ Held(r) = Tail(Held(q))

LEMMA SendMoves ==
  ASSUME NEW length \in Nat \ {0}, NEW items, NEW item \in items, NEW q,
         IsRing(length, items, q), NEW op \in {"back", "front", "overwrite"},
         Possible(q, op), op = "overwrite" => q.length = 1, NEW g
  PROVE  LET r == CopyDataToQueue(q, item, op)
         IN IsRing(length, items, r) /\ Move(items, q, r, g, g)
<1>1. q.length = length
  BY Fields DEF IsRing
<1>2. CASE op = "back"
  BY <1>2, SentToBack DEF Possible, Sends, Move
<1>3. CASE op = "front"
  <2>1. q.count < q.length /\ op \in {"front", "overwrite"} /\ op # "overwrite"
    BY <1>3 DEF Possible, Sends
  <2>2. /\ IsRing(length, items, CopyDataToQueue(q, item, op))
        /\ Held(CopyDataToQueue(q, item, op)) = <<item>> \o Held(q)
    BY <2>1, SentToFront
  <2> QED
    BY <2>1, <2>2 DEF Move
<1>4. CASE op = "overwrite"
  <2>1. length = 1 /\ q.length = 1
    BY <1>1, <1>4
  <2> QED
    BY <2>1, <1>4, Overwritten DEF Move
<1> QED
  BY <1>2, <1>3, <1>4

LEMMA ReceiveMoves ==
  ASSUME NEW length \in Nat \ {0}, NEW items, NEW q, IsRing(length, items, q),
         q.count > 0, NEW g
  PROVE  /\ IsRing(length, items, Removed(q))
         /\ Move(items, q, Removed(q), g, NextItem(q))
         /\ Move(items, q, q, g, NextItem(q))
<1>1. /\ IsRing(length, items, Removed(q))
      /\ Held(Removed(q)) = Tail(Held(q))
  BY TakenOut
<1> QED
  BY <1>1 DEF Move

LEMMA EmptyRing ==
  ASSUME NEW length \in Nat \ {0}, NEW items, NEW c \in BOOLEAN,
         NEW buffer \in [0..(length - 1) -> items \cup {NoItem}]
  PROVE  LET r == [length |-> length, buffer |-> buffer, count |-> 0,
                   writeTo |-> 0, readFrom |-> length - 1,
                   rxLock |-> UNLOCKED, txLock |-> UNLOCKED, cleared |-> c]
         IN IsRing(length, items, r) /\ Held(r) = <<>>
<1> DEFINE r == [length |-> length, buffer |-> buffer, count |-> 0,
                 writeTo |-> 0, readFrom |-> length - 1,
                 rxLock |-> UNLOCKED, txLock |-> UNLOCKED, cleared |-> c]
<1>1. UNLOCKED \in Int
  BY DEF UNLOCKED
<1>2. r.count = 0 /\ r.writeTo = 0 /\ r.readFrom = length - 1 /\ r.length = length
  BY <1>1
<1>3. 0 \in 0..length /\ 0 \in 0..(length - 1) /\ length - 1 \in 0..(length - 1)
  OBVIOUS
<1>4. r \in QueueOf(length, items)
  BY <1>1, <1>3 DEF QueueOf
<1> HIDE DEF r
<1>5. Agree(r)
  BY <1>2 DEF Agree, Wrapped
<1>6. Held(r) = <<>>
  <2>1. Held(r) \in Seq(items \cup {NoItem}) /\ Len(Held(r)) = 0
    BY <1>2, <1>4, HeldSeq
  <2> QED
    BY <2>1, EmptySeq
<1> QED
  BY <1>4, <1>5, <1>6 DEF IsRing, r

-----------------------------------------------------------------------------
(* The queue keeps its promise.                                            *)

(* A task that is in a call has a call of the program's.                   *)
CallsOK ==
  \A t \in Task : call[t].at # "none" =>
    /\ call[t].op \in Op \ {"reset"}
    /\ Sends(call[t].op) => call[t].item \in app.items
    /\ call[t].op = "overwrite" => app.length = 1

RingInv ==
  /\ app \in Applications /\ IsRing(app.length, app.items, queue)
  /\ Shape /\ CallsOK

LEMMA Lengths ==
  ASSUME NEW a \in Applications
  PROVE  a.length \in Nat \ {0} /\ NoItem \notin a.items
  BY QueueAssumption

LEMMA RingInit == Init => RingInv /\ Held(queue) = <<>>
<1> SUFFICES ASSUME Init PROVE RingInv /\ Held(queue) = <<>>
  OBVIOUS
<1> DEFINE buffer == [i \in 0..(app.length - 1) |-> NoItem]
<1>1. app \in Applications /\ Shape /\ CallsOK
  BY ShapeInit DEF Init, CallsOK, NoCall
<1>2. buffer \in [0..(app.length - 1) -> app.items \cup {NoItem}]
  OBVIOUS
<1>3. queue = Emptied(app.length, buffer)
  BY DEF Init
<1> HIDE DEF buffer
<1> QED
  BY <1>1, <1>2, <1>3, EmptyRing, Lengths DEF RingInv, Emptied

LEMMA CallsKept ==
  RingInv /\ cur \in Task /\ Step /\ UNCHANGED app => CallsOK'
<1> SUFFICES ASSUME RingInv, cur \in Task, Step, UNCHANGED app PROVE CallsOK'
  OBVIOUS
<1>0. /\ Shape /\ CallsOK /\ app \in Applications /\ NoCall.at = "none"
      /\ queue.length = app.length
  BY Lengths, Fields DEF RingInv, IsRing, NoCall
<1> USE <1>0 DEF At, CallsOK, Shape, CallFields
<1>1. CASE Call
  <2>1. PICK ask \in app.asks :
          /\ ask.op # "reset"
          /\ ask.op = "overwrite" => queue.length = 1
          /\ \E item \in IF Sends(ask.op) THEN app.items ELSE {NoItem} :
               call' = [call EXCEPT ![cur] = Started(ask.op, item, ask.ticks)]
    BY <1>1 DEF Call
  <2>2. PICK item \in IF Sends(ask.op) THEN app.items ELSE {NoItem} :
          call' = [call EXCEPT ![cur] = Started(ask.op, item, ask.ticks)]
    BY <2>1
  <2>3. ask.op \in Op
    BY QueueAssumption
  <2>4. /\ call'[cur].op = ask.op /\ call'[cur].item = item
        /\ \A t \in Task \ {cur} : call'[t] = call[t]
    BY <2>2 DEF Started, NoCall
  <2>5. Sends(ask.op) => item \in app.items
    BY <2>2
  <2> QED
    BY <2>1, <2>3, <2>4, <2>5
<1>2. CASE Reset
  BY <1>2 DEF Reset
<1>3. CASE Succeed \/ FailAtOnce
  BY <1>3 DEF Succeed, FailAtOnce
<1>4. CASE PrepareToWait \/ LoadSuspended \/ StoreSuspended \/ Lock \/ Expire
           \/ NotYetExpired \/ TestAgain \/ Place \/ UnlockTx \/ UnlockRx \/ Yield
  <2>1. /\ call[cur].at # "none" /\ call'[cur].op = call[cur].op
        /\ call'[cur].item = call[cur].item
        /\ \A t \in Task \ {cur} : call'[t] = call[t]
    BY <1>4 DEF PrepareToWait, LoadSuspended, StoreSuspended, Lock, Expire,
       NotYetExpired, TestAgain, Place, UnlockTx, UnlockRx, Yield, Goto
  <2> QED
    BY <2>1
<1>5. CASE Resume
  <2>1. /\ call[cur].at # "none" /\ \A t \in Task \ {cur} : call'[t] = call[t]
        /\ \/ call'[cur].at = "none"
           \/ call'[cur].op = call[cur].op /\ call'[cur].item = call[cur].item
    BY <1>5 DEF Resume, AfterResume
  <2> QED
    BY <2>1
<1>6. CASE Tick
  <2>1. \A t \in Task : /\ call'[t].at = call[t].at /\ call'[t].op = call[t].op
                        /\ call'[t].item = call[t].item
    BY <1>6 DEF Tick, Age
  <2> QED
    BY <2>1
<1>7. CASE IsrSend \/ IsrReceive
  BY <1>7 DEF IsrSend, IsrReceive
<1> QED
  BY <1>1, <1>2, <1>3, <1>4, <1>5, <1>6, <1>7 DEF Step, TaskStep

Moves == /\ IsRing(app.length, app.items, queue')
         /\ Move(app.items, queue, queue', got, got')

LEMMA QueueMoves == RingInv /\ cur \in Task /\ Step => Moves
<1> SUFFICES ASSUME RingInv, cur \in Task, Step PROVE Moves
  OBVIOUS
<1>0. /\ app.length \in Nat \ {0} /\ IsRing(app.length, app.items, queue)
      /\ queue \in QueueOf(app.length, app.items) /\ queue.length = app.length
      /\ queue.rxLock \in Int /\ queue.txLock \in Int
  <2>1. app.length \in Nat \ {0} /\ queue \in QueueOf(app.length, app.items)
    BY Lengths DEF RingInv, IsRing
  <2> QED
    BY <2>1 DEF RingInv, QueueOf
<1>1. ASSUME UNCHANGED got, Relocked(queue, queue') PROVE Moves
  BY <1>0, <1>1, Locked DEF Moves, Move
<1>2. CASE UNCHANGED <<queue, got>>
  BY <1>0, <1>2 DEF Moves, Move
<1>3. CASE Reset
  <2>1. queue' = [length |-> app.length, buffer |-> queue.buffer, count |-> 0,
                  writeTo |-> 0, readFrom |-> app.length - 1,
                  rxLock |-> UNLOCKED, txLock |-> UNLOCKED, cleared |-> TRUE]
        /\ UNCHANGED got
    BY <1>0, <1>3 DEF Reset, Emptied
  <2> QED
    BY <2>1, <1>0, Fields, EmptyRing DEF Moves, Move
<1>4. CASE Succeed
  <2>1. /\ call[cur].op \in Op \ {"reset"} /\ Possible(queue, call[cur].op)
        /\ Sends(call[cur].op) => call[cur].item \in app.items
        /\ call[cur].op = "overwrite" => queue.length = 1
        /\ queue' = Served(queue, call[cur].op, call[cur].item)
        /\ got' = IF Sends(call[cur].op) THEN got ELSE NextItem(queue)
    BY <1>0, <1>4 DEF Succeed, At, RingInv, CallsOK
  <2>2. CASE Sends(call[cur].op)
    BY <1>0, <2>1, <2>2, SendMoves DEF Served, Sends, Moves
  <2>3. CASE call[cur].op \in {"receive", "peek"}
    <3>1. queue.count > 0 /\ got' = NextItem(queue)
          /\ queue' \in {queue, Removed(queue)}
      BY <2>1, <2>3 DEF Served, Sends, Possible
    <3> QED
      BY <1>0, <3>1, ReceiveMoves DEF Moves
  <2> QED
    BY <2>1, <2>2, <2>3 DEF Op, Sends
<1>5. CASE Lock \/ UnlockTx \/ UnlockRx
  <2>1. UNLOCKED \in Int
    BY DEF UNLOCKED
  <2>2. Relocked(queue, queue') /\ UNCHANGED got
    <3>1. CASE Lock
      <4>1. /\ (IF queue.rxLock = UNLOCKED THEN 0 ELSE queue.rxLock) \in Int
            /\ (IF queue.txLock = UNLOCKED THEN 0 ELSE queue.txLock) \in Int
        BY <1>0
      <4> QED
        BY <3>1, <4>1 DEF Lock, Relocked
    <3>2. CASE UnlockTx
      BY <2>1, <3>2 DEF UnlockTx, Relocked
    <3>3. CASE UnlockRx
      BY <2>1, <3>3 DEF UnlockRx, Relocked
    <3> QED
      BY <1>5, <3>1, <3>2, <3>3
  <2> QED
    BY <1>1, <2>2
<1>6. CASE IsrSend
  <2>1. PICK item \in app.items, op \in app.isr \ {"receive"} :
          /\ op = "overwrite" => queue.length = 1
          /\ Possible(queue, op)
          /\ LET q == CopyDataToQueue(queue, item, op)
             IN queue' = q \/ queue' = [q EXCEPT !.txLock = @ + 1]
    BY <1>6 DEF IsrSend
  <2> DEFINE q == CopyDataToQueue(queue, item, op)
  <2>2. op \in {"back", "front", "overwrite"}
    BY QueueAssumption DEF RingInv
  <2>3. IsRing(app.length, app.items, q) /\ Move(app.items, queue, q, got, got)
    BY <1>0, <2>1, <2>2, SendMoves
  <2> HIDE DEF q
  <2>4. CASE queue' = [q EXCEPT !.txLock = @ + 1]
    <3>1. q.txLock + 1 \in Int /\ 0 \in Int
      BY <2>3 DEF IsRing, QueueOf
    <3>2. Relocked(q, queue')
      BY <2>4, <3>1 DEF Relocked
    <3>3. IsRing(app.length, app.items, queue') /\ Held(queue') = Held(q)
      BY <1>0, <2>3, <3>2, Locked
    <3> QED
      BY <1>6, <2>3, <3>3 DEF IsrSend, Moves, Move
  <2> QED
    BY <1>6, <2>1, <2>3, <2>4 DEF IsrSend, Moves, q
<1>7. CASE IsrReceive
  <2> DEFINE q == Removed(queue)
  <2>1. /\ IsRing(app.length, app.items, q) /\ got' = NextItem(queue)
        /\ Move(app.items, queue, q, got, got')
        /\ queue' = q \/ queue' = [q EXCEPT !.rxLock = @ + 1]
    BY <1>0, <1>7, ReceiveMoves DEF IsrReceive
  <2> HIDE DEF q
  <2>2. CASE queue' = [q EXCEPT !.rxLock = @ + 1]
    <3>1. q.rxLock + 1 \in Int /\ 0 \in Int
      BY <2>1 DEF IsRing, QueueOf
    <3>2. Relocked(q, queue')
      BY <2>2, <3>1 DEF Relocked
    <3>3. IsRing(app.length, app.items, queue') /\ Held(queue') = Held(q)
      BY <1>0, <2>1, <3>2, Locked
    <3> QED
      BY <2>1, <3>3 DEF Moves, Move
  <2> QED
    BY <2>1, <2>2 DEF Moves
<1>8. CASE Call \/ FailAtOnce \/ PrepareToWait \/ LoadSuspended \/ StoreSuspended
           \/ Expire \/ NotYetExpired \/ TestAgain \/ Place \/ Resume \/ Yield \/ Tick
  BY <1>2, <1>8 DEF Call, FailAtOnce, PrepareToWait, LoadSuspended,
     StoreSuspended, Expire, NotYetExpired, TestAgain, Place, Resume, Yield, Tick
<1> QED
  BY <1>3, <1>4, <1>5, <1>6, <1>7, <1>8 DEF Step, TaskStep

LEMMA ModOnce ==
  ASSUME NEW n \in Nat \ {0}, NEW f \in 0..(n - 1), NEW i \in 1..n
  PROVE  (f + i) % n = IF f + i < n THEN f + i ELSE f + i - n
  OBVIOUS

(* The refinement mapping reads the items the ring positions delimit.      *)
LEMMA Mapping ==
  ASSUME NEW length \in Nat \ {0}, NEW items, NEW q, IsRing(length, items, q)
  PROVE  Held(q) = [i \in 1..q.count |->
                      q.buffer[(q.readFrom + i) % q.length]]
<1>1. q.length = length /\ q.count \in 0..length /\ q.readFrom \in 0..(length - 1)
  BY Fields DEF IsRing
<1>2. \A i \in 1..q.count : (q.readFrom + i) % q.length = Slot(q, i)
  <2>1. ASSUME NEW i \in 1..q.count
        PROVE  (q.readFrom + i) % q.length = Slot(q, i)
    <3>1. i \in 1..length
      BY <1>1
    <3> QED
      BY <1>1, <3>1, ModOnce DEF Slot
  <2> QED
    BY <2>1
<1> QED
  BY <1>2 DEF Held

LEMMA MovesRefine ==
  RingInv /\ Moves /\ UNCHANGED app
  => [Promise!QueueNext]_<<app.items, queue.length, Contents, got>>
<1> SUFFICES ASSUME RingInv, Moves, UNCHANGED app
    PROVE [Promise!QueueNext]_<<app.items, queue.length, Contents, got>>
  OBVIOUS
<1>0. /\ app.length \in Nat \ {0}
      /\ IsRing(app.length, app.items, queue)
      /\ IsRing(app.length, app.items, queue')
  BY Lengths DEF RingInv, Moves
<1>1. /\ Contents = Held(queue) /\ Contents' = Held(queue')
      /\ queue.length = app.length /\ queue'.length = app.length
      /\ Len(Held(queue)) = queue.count
  BY <1>0, Mapping, Fields, HeldSeq DEF Contents, IsRing
<1> QED
  BY <1>0, <1>1, TakenOut
     DEF Moves, Move, Promise!QueueNext, Promise!SendToBack,
         Promise!SendToFront,
         Promise!Overwrite, Promise!Peek, Promise!Receive, Promise!Clear,
         Promise!HasRoom

-----------------------------------------------------------------------------
(* Times.                                                                  *)

LEMMA LessUnchanged ==
  ASSUME NEW n \in Nat \ {0}, NEW a \in 0..(n - 1)
  PROVE  a % n = a
  OBVIOUS

(* Less than a round of the counter later, what the two counts say of the  *)
(* time since: whether the count has wrapped, and where it is.             *)
LEMMA Since ==
  ASSUME NEW k, NEW from, from.tick \in Ticks, NEW e \in Nat, e < TickMod,
         from.overflows \in 0..(OverflowMod - 1), After(k, from, e)
  PROVE  \/ k.tick = from.tick + e /\ k.overflows = from.overflows
         \/ k.tick = from.tick + e - TickMod
<1>1. /\ TickMod \in Nat \ {0} /\ OverflowMod \in Nat \ {0}
      /\ from.tick \in 0..(TickMod - 1) /\ e \in 0..(TickMod - 1)
  BY KernelAssumption DEF Ticks, MaxDelay
<1>2. /\ k.tick = IF from.tick + e < TickMod THEN from.tick + e
                  ELSE from.tick + e - TickMod
      /\ (from.tick + e) \div TickMod = IF from.tick + e < TickMod THEN 0 ELSE 1
  BY <1>1, WrapOnce DEF After
<1>3. from.tick + e < TickMod => k.overflows = from.overflows
  <2>1. from.overflows % OverflowMod = from.overflows
    BY <1>1, LessUnchanged
  <2> QED
    BY <1>2, <2>1 DEF After
<1> QED
  BY <1>2, <1>3

LEMMA RoundMore ==
  ASSUME NEW n \in Nat \ {0}, NEW x \in Int, 0 <= x + n, x < n
  PROVE  (x + n) % n = x % n
<1>1. CASE x < 0
  BY <1>1
<1>2. CASE x >= 0
  <2>1. (x + n) % n = x
    BY <1>2
  <2> QED
    BY <1>2, <2>1
<1> QED
  BY <1>1, <1>2

(* xTaskCheckForTimeOut (tasks.c:2590), for counters of any width.  It     *)
(* never says that a time is over that is not.  Less than a round of the   *)
(* counter after the wait began it says so exactly when it is, as long as  *)
(* the count has not wrapped; once it has, it never does, and the time it  *)
(* leaves is what is left modulo the width of the counter: none when the   *)
(* time is just over, nearly a round when it has been for longer.          *)
THEOREM TimeOutUpToTheWrap ==
  ASSUME NEW ticks \in Ticks, NEW e \in Nat, NEW k, NEW from,
         from.tick \in Ticks, from.overflows \in 0..(OverflowMod - 1),
         After(k, from, e)
  PROVE  /\ TimedOut(k, from, ticks) => e >= ticks
         /\ e < TickMod =>
              /\ k.tick >= from.tick => (TimedOut(k, from, ticks) <=> e >= ticks)
              /\ k.tick < from.tick => ~TimedOut(k, from, ticks)
              /\ TimeLeft(k, from, ticks) = (ticks - e) % TickMod
<1>1. /\ TickMod \in Nat \ {0} /\ OverflowMod \in Nat \ {0}
      /\ ticks \in 0..(TickMod - 1) /\ from.tick \in 0..(TickMod - 1)
  BY KernelAssumption DEF Ticks, MaxDelay
<1>2. CASE e >= TickMod
  BY <1>1, <1>2
<1>3. CASE e < TickMod
  <2>1. CASE k.tick = from.tick + e /\ k.overflows = from.overflows
    <3>1. Elapsed(k, from) = e
      BY <1>1, <2>1 DEF Elapsed
    <3> QED
      BY <1>1, <1>3, <2>1, <3>1 DEF TimedOut, TimeLeft
  <2>2. CASE k.tick = from.tick + e - TickMod
    <3>1. Elapsed(k, from) = e - TickMod
      BY <1>1, <2>2 DEF Elapsed
    <3>2. ~TimedOut(k, from, ticks) /\ k.tick < from.tick
      BY <1>1, <1>3, <2>2, <3>1 DEF TimedOut
    <3>3. TimeLeft(k, from, ticks) = (ticks - e) % TickMod
      <4>1. /\ ticks - (e - TickMod) = (ticks - e) + TickMod /\ ticks - e \in Int
            /\ 0 <= (ticks - e) + TickMod /\ ticks - e < TickMod
        BY <1>1, <1>3
      <4> QED
        BY <1>1, <3>1, <4>1, RoundMore DEF TimeLeft
    <3> QED
      BY <1>1, <2>2, <3>2, <3>3
  <2> QED
    BY <1>3, <2>1, <2>2, Since
<1> QED
  BY <1>1, <1>2, <1>3

(* When the program waits on, what it leaves has the width of the counter, *)
(* and is nothing only after the count has wrapped.                        *)
LEMMA LeftWhenWaiting ==
  ASSUME NEW k, k.tick \in Ticks, NEW from, from.tick \in Ticks,
         NEW ticks \in Ticks, ~TimedOut(k, from, ticks)
  PROVE  /\ TimeLeft(k, from, ticks) \in Ticks
         /\ TimeLeft(k, from, ticks) = 0 => k.tick < MaxDelay
<1>1. /\ TickMod \in Nat \ {0} /\ ticks \in 0..(TickMod - 1)
      /\ from.tick \in 0..(TickMod - 1) /\ k.tick \in 0..(TickMod - 1)
      /\ Ticks = 0..(TickMod - 1) /\ MaxDelay = TickMod - 1
  BY Constants DEF MaxDelay
<1> DEFINE x == ticks - (k.tick - from.tick)
<1>2. x \in Int /\ x > 0
  BY <1>1 DEF TimedOut, Elapsed
<1>3. TimeLeft(k, from, ticks) = x % TickMod
  BY DEF TimeLeft, Elapsed
<1>4. k.tick = MaxDelay => x <= ticks
  BY <1>1
<1> HIDE DEF x
<1>5. x % TickMod \in 0..(TickMod - 1)
  BY <1>1, <1>2
<1>6. ASSUME x <= ticks PROVE x % TickMod # 0
  <2>1. x \in 0..(TickMod - 1)
    BY <1>1, <1>2, <1>6
  <2> QED
    BY <1>1, <1>2, <2>1, LessUnchanged
<1> QED
  BY <1>1, <1>3, <1>4, <1>5, <1>6

-----------------------------------------------------------------------------
(* The kernel, the calls and the locks between two steps.                  *)

(* The kernel between two steps, some tasks being due at once.             *)
Fit(k, due) ==
  /\ Lists(k) /\ Placed(k, Task) /\ Waits(k) /\ NoOverdueSleeper(k, due)
  /\ Idle \in ReadyTasks(k)

(* The calls that have no ticks to wait for, or none left.                 *)
Due == {t \in Task : call[t].ticks = 0}

(* A task is asleep while it runs only on its way to the switch.           *)
Awake ==
  \/ cur \in ReadyTasks(kernel)
  \/ At("yield")
  \/ /\ call[cur].at \in {"unlockTx", "unlockRx", "resume"}
     /\ call[cur].after = "block"

Blocking == {"unlockTx", "unlockRx", "resume", "yield", "try"}

Blocks(c, e) == c.after = "block" /\ WaitsOn(c.op) = e /\ c.at \in Blocking

(* A call that goes to sleep with no ticks left has seen the count wrap.   *)
Placeable(k, c) ==
  c.at \in {"test", "place"} /\ c.ticks = 0 => k.tick < MaxDelay

CallsMatch ==
  /\ call[Idle].at = "none"
  /\ \A e \in EventList : \A t \in ToSet(kernel.event[e]) : Blocks(call[t], e)
  /\ Placeable(kernel, call[cur])

LocksMatch ==
  /\ queue.txLock \in UNLOCKED..MaxLock /\ queue.rxLock \in UNLOCKED..MaxLock
  /\ queue.txLock # UNLOCKED <=> call[cur].at \in {"expire", "test", "place", "unlockTx"}
  /\ queue.rxLock # UNLOCKED <=>
       call[cur].at \in {"expire", "test", "place", "unlockTx", "unlockRx"}
  /\ suspended = 0 => kernel.pended = 0

Sound ==
  /\ Fit(kernel, Due) /\ cur \in Task /\ SwitchDue(kernel, cur) /\ Awake
  /\ call \in [Task -> CallType] /\ got \in app.items \cup {NoItem}
  /\ CallsMatch /\ LocksMatch

(* What a caller is still owed has not come since it took the time.        *)
InTime(k, c, e) ==
  After(k, c.from, e) /\ (c.owed = 0 \/ c.owed + e + k.pended <= c.ticks)

Punctual(k, c) ==
  /\ c.at \notin {"none", "try"} => c.set
  /\ c.after = "fail" => c.owed = 0
  /\ IF c.set THEN \E e \in Nat : InTime(k, c, e) ELSE c.owed = c.ticks

Timely == \A t \in Task : Punctual(kernel, call[t])

(* What there is for the tasks that wait: items, or free slots.            *)
Avail(e) == IF e = "receive" THEN queue.count ELSE queue.length - queue.count
Marked(e) == LET n == IF e = "receive" THEN queue.txLock ELSE queue.rxLock
             IN IF n = UNLOCKED THEN 0 ELSE n

Overtaken(e) == {t \in Task : /\ Blocks(call[t], e)
                              /\ t \notin ToSet(kernel.event[e])}

Covers(e) ==
  ToSet(kernel.event[e]) # {} /\ (e = "send" => ~queue.cleared)
  => Avail(e) <= Cardinality(Overtaken(e)) + Marked(e)

Covered ==
  /\ \A e \in EventList : Covers(e)
  /\ At("place") => Avail(WaitsOn(call[cur].op)) <= Marked(WaitsOn(call[cur].op))

LEMMA MarkYield ==
  ASSUME NEW k, Lists(k), NEW y \in BOOLEAN
  PROVE  /\ SameLists(k, [k EXCEPT !.yield = y])
         /\ [k EXCEPT !.yield = y].yield = y
<1> DEFINE r == [k EXCEPT !.yield = y]
<1>1. k \in Kernels /\ ReadyOK(k)
  BY DEF Lists
<1>2. /\ r \in Kernels /\ r.ready = k.ready /\ r.top = k.top
      /\ r.delayed = k.delayed /\ r.overflow = k.overflow
      /\ r.wake = k.wake /\ r.event = k.event /\ r.pending = k.pending
      /\ r.next = k.next /\ r.yield = y /\ SameClock(k, r)
  BY <1>1 DEF Kernels, SameClock
<1> HIDE DEF r
<1>3. ReadyOK(r) /\ ReadyTasks(r) = ReadyTasks(k)
  BY <1>1, <1>2 DEF ReadyOK, ReadyTasks
<1> QED
  BY <1>2, <1>3 DEF SameLists, Lists, r

LEMMA FitKept ==
  ASSUME NEW k, Fit(k, Due), NEW r, SameLists(k, r)
  PROVE  Fit(r, Due)
  BY SameListsKeep DEF Fit, SameLists

LEMMA RescheduleIs ==
  ASSUME NEW k, Fit(k, Due), cur \in Task, NEW held \in BOOLEAN, Reschedule(k, held)
  PROVE  /\ SameLists(k, kernel') /\ Fit(kernel', Due) /\ SwitchDue(kernel', cur')
         /\ cur' \in Task
         /\ IF held THEN cur' = cur ELSE cur' \in ReadyTasks(kernel')
<1>1. Lists(k) /\ ReadyTasks(k) # {}
  BY DEF Fit
<1>2. CASE held
  <2>1. kernel' = [k EXCEPT !.yield = TRUE] /\ cur' = cur
    BY <1>2 DEF Reschedule
  <2>2. SameLists(k, kernel') /\ kernel'.yield
    BY <1>1, <2>1, MarkYield
  <2> QED
    BY <1>2, <2>1, <2>2, FitKept DEF SwitchDue
<1>3. CASE ~held
  <2>1. kernel' = SwitchContext(k) /\ cur' = Chosen(k)
    BY <1>3 DEF Reschedule
  <2>2. /\ SameLists(k, kernel') /\ cur' \in ReadyTasks(k)
        /\ \A t \in ReadyTasks(k) : Priority[t] <= Priority[cur']
    BY <1>1, <2>1, SwitchContextIs
  <2>3. ReadyTasks(kernel') = ReadyTasks(k) /\ ReadyTasks(k) \subseteq Task
    BY <2>2 DEF SameLists, ReadyTasks
  <2>4. \A t \in ReadyTasks(kernel') : ~(Priority[t] > Priority[cur'])
    <3>1. \A t \in Task : Priority[t] \in Nat
      BY Constants
    <3> QED
      BY <2>2, <2>3, <3>1
  <2> QED
    BY <1>3, <2>2, <2>3, <2>4, FitKept DEF SwitchDue
<1> QED
  BY <1>2, <1>3

(* At least n of the tasks on an event list are woken, or all of them.     *)
Lets(k, r, e, n) ==
  \E X \in SUBSET ToSet(k.event[e]) :
    /\ \A f \in EventList : ToSet(r.event[f]) = ToSet(k.event[f]) \ X
    /\ ToSet(r.event[e]) = {} \/ Cardinality(X) >= n

(* What waking tasks of an event list makes of the kernel.                 *)
Wakes(k, r, e, n) ==
  /\ Fit(r, Due) /\ SwitchDue(r, cur) /\ SameClock(k, r)
  /\ ReadyTasks(k) \subseteq ReadyTasks(r) /\ Lets(k, r, e, n)

LEMMA WakesNobody ==
  ASSUME NEW k, Fit(k, Due), SwitchDue(k, cur), NEW e \in EventList
  PROVE  Wakes(k, k, e, 0)
<1>1. Cardinality({}) = 0
  BY FS_EmptySet
<1> QED
  BY <1>1 DEF Wakes, Lets, SameClock

LEMMA WakesOne ==
  ASSUME NEW k, Fit(k, Due), SwitchDue(k, cur), NEW e \in EventList, NEW held \in BOOLEAN,
         cur \in Task
  PROVE  Wakes(k, WakeOne(k, e, cur, held), e, 1)
<1> DEFINE r == WakeOne(k, e, cur, held)
<1>1. /\ Lists(r) /\ NoOverdueSleeper(r, Due) /\ SameClock(k, r)
      /\ Waits(r) /\ Placed(r, Task)
      /\ IF k.event[e] = <<>> THEN r = k ELSE Took(k, r, e, cur, held)
  BY WakeOneIs DEF Fit
<1> HIDE DEF r
<1>2. CASE k.event[e] = <<>>
  <2>1. ToSet(k.event[e]) = {}
    <3>1. k.event[e] \in Seq(Task)
      BY KernelFields DEF Fit, Lists
    <3> QED
      BY <1>2, <3>1, ToSetIs
  <2>2. r = k
    BY <1>1, <1>2
  <2> QED
    BY <1>1, <2>1, <2>2 DEF Wakes, Lets, r
<1>3. CASE k.event[e] # <<>>
  <2> DEFINE t == Head(k.event[e])
  <2>1. Took(k, r, e, cur, held)
    BY <1>1, <1>3
  <2>2. /\ t \in ToSet(k.event[e])
        /\ \A f \in EventList : ToSet(r.event[f]) = ToSet(k.event[f]) \ {t}
        /\ r.yield = (k.yield \/ Priority[t] > Priority[cur])
    BY <2>1 DEF Took
  <2>3. ReadyTasks(r) = ReadyTasks(k) \/ ReadyTasks(r) = ReadyTasks(k) \cup {t}
    BY <2>1 DEF Took, Roused
  <2> HIDE DEF t
  <2>4. Cardinality({t}) = 1
    BY FS_Singleton
  <2>5. Lets(k, r, e, 1)
    BY <2>2, <2>4 DEF Lets
  <2>6. SwitchDue(r, cur)
    <3>1. ASSUME NEW x \in ReadyTasks(r), Priority[x] > Priority[cur] PROVE r.yield
      <4>1. CASE x \in ReadyTasks(k)
        BY <2>2, <3>1, <4>1 DEF SwitchDue
      <4>2. CASE x = t
        BY <2>2, <3>1, <4>2
      <4> QED
        BY <2>3, <4>1, <4>2
    <3> QED
      BY <3>1 DEF SwitchDue
  <2>7. Fit(r, Due) /\ ReadyTasks(k) \subseteq ReadyTasks(r)
    BY <1>1, <2>3 DEF Fit
  <2> QED
    BY <1>1, <2>5, <2>6, <2>7 DEF Wakes, r
<1> QED
  BY <1>2, <1>3

LEMMA WakesMore ==
  ASSUME NEW k, Fit(k, Due), NEW q, NEW r, NEW e \in EventList, NEW n \in Nat,
         Wakes(k, q, e, n), Wakes(q, r, e, 1)
  PROVE  Wakes(k, r, e, n + 1)
<1>1. PICK X \in SUBSET ToSet(k.event[e]) :
        /\ \A f \in EventList : ToSet(q.event[f]) = ToSet(k.event[f]) \ X
        /\ ToSet(q.event[e]) = {} \/ Cardinality(X) >= n
  BY DEF Wakes, Lets
<1>2. PICK Y \in SUBSET ToSet(q.event[e]) :
        /\ \A f \in EventList : ToSet(r.event[f]) = ToSet(q.event[f]) \ Y
        /\ ToSet(r.event[e]) = {} \/ Cardinality(Y) >= 1
  BY DEF Wakes, Lets
<1>3. X \cup Y \in SUBSET ToSet(k.event[e]) /\ X \cap Y = {}
      /\ \A f \in EventList : ToSet(r.event[f]) = ToSet(k.event[f]) \ (X \cup Y)
  BY <1>1, <1>2
<1>4. ToSet(k.event[e]) \subseteq Task /\ IsFiniteSet(Task)
  <2>1. k.event[e] \in Seq(Task)
    BY KernelFields DEF Fit, Lists
  <2> QED
    BY <2>1, ToSetIs, KernelAssumption
<1>5. IsFiniteSet(X) /\ IsFiniteSet(Y)
  BY <1>3, <1>4, FS_Subset
<1>6. /\ Cardinality(X \cup Y) = Cardinality(X) + Cardinality(Y) - Cardinality(X \cap Y)
      /\ Cardinality(X) \in Nat /\ Cardinality(Y) \in Nat /\ Cardinality({}) = 0
  BY <1>5, FS_Union, FS_CardinalityType, FS_EmptySet
<1>7. ToSet(r.event[e]) = {} \/ Cardinality(X \cup Y) >= n + 1
  <2>1. Cardinality(X \cup Y) = Cardinality(X) + Cardinality(Y)
    <3>1. Cardinality(X \cap Y) = 0
      BY <1>3, <1>6
    <3> QED
      BY <1>6, <3>1
  <2>2. CASE ToSet(q.event[e]) = {}
    BY <1>2, <2>2
  <2>3. CASE Cardinality(X) >= n
    BY <1>2, <1>6, <2>1, <2>3
  <2> QED
    BY <1>1, <2>2, <2>3
<1>8. Lets(k, r, e, n + 1)
  BY <1>3, <1>7 DEF Lets
<1> QED
  BY <1>8 DEF Wakes, SameClock

(* One lock counter's worth of wake-ups is a chain of them.                *)
LEMMA WakeForEachFold ==
  ASSUME NEW K, kernel \in K, NEW e, NEW n \in Nat,
         \A k \in K : WakeOne(k, e, cur, suspended # 0) \in K
  PROVE  Leads(kernel, n, K,
               [p \in K \X (1..n) |-> WakeOne(p[1], e, cur, suspended # 0)],
               WakeForEach(n, e))
<1> DEFINE seq == [i \in 1..n |-> i]
           Op1(k) == WakeOne(k, e, cur, suspended # 0)
           F == [p \in K \X (1..n) |-> Op1(p[1])]
           Iter(g) == g = [s \in SUBSET DOMAIN seq |->
                             IF s = {} THEN kernel ELSE Op1(g[s \ {Max(s)}])]
           iter == CHOOSE g : Iter(g)
<1>0. DOMAIN seq = 1..n
  OBVIOUS
<1>1. F \in [K \X (1..n) -> K]
  BY <1>0
<1>2. ASSUME NEW g, NEW s \in SUBSET (1..n), s # {}, g[s \ {Max(s)}] \in K
      PROVE  F[<<g[s \ {Max(s)}], Max(s)>>] = Op1(g[s \ {Max(s)}])
  <2>1. Max(s) \in 1..n
    BY <1>0, <1>2, TopOf
  <2> QED
    BY <1>2, <2>1
<1>3. PICK g \in [SUBSET (1..n) -> K] : Folded(g, n, kernel, F)
  <2> HIDE DEF F, Op1
  <2> QED
    BY <1>0, <1>1, Folding
<1>4. Iter(g)
  <2>1. \A s \in SUBSET (1..n) : s # {} => g[s \ {Max(s)}] \in K
    OBVIOUS
  <2> QED
    BY <1>0, <1>2, <1>3, <2>1 DEF Folded
<1>5. Iter(iter)
  BY <1>4
<1>6. WakeForEach(n, e) = iter[1..n]
  BY <1>0 DEF WakeForEach, FoldLeft, MapThenFoldSet
<1> HIDE DEF F, iter
<1>7. Chained(iter, n, K, F)
  BY <1>0, <1>2, <1>5 DEF Chained
<1>8. iter[{}] = kernel
  BY <1>5
<1>9. Leads(kernel, n, K, F, iter[1..n])
  BY <1>0, <1>1, <1>7, <1>8, FoldChain
<1> QED
  BY <1>6, <1>9 DEF F

LEMMA WakeForEachIs ==
  ASSUME Fit(kernel, Due), SwitchDue(kernel, cur), cur \in Task,
         NEW e \in EventList, NEW n \in Nat
  PROVE  Wakes(kernel, WakeForEach(n, e), e, n)
<1> DEFINE held == suspended # 0
           K == {q \in Kernels : Fit(q, Due) /\ SwitchDue(q, cur)}
           F == [p \in K \X (1..n) |-> WakeOne(p[1], e, cur, held)]
           I == {p \in (0..n) \X K : Wakes(kernel, p[2], e, p[1])}
           r == WakeForEach(n, e)
<1>0. kernel \in K
  BY DEF Fit, Lists
<1>1. ASSUME NEW q \in K
      PROVE  WakeOne(q, e, cur, held) \in K /\ Wakes(q, WakeOne(q, e, cur, held), e, 1)
  <2>1. held \in BOOLEAN
    OBVIOUS
  <2> HIDE DEF held
  <2>2. Wakes(q, WakeOne(q, e, cur, held), e, 1)
    BY <2>1, WakesOne
  <2> QED
    BY <2>2 DEF Wakes, Fit, Lists
<1>3. Leads(kernel, n, K, F, r)
  <2>1. \A q \in K : WakeOne(q, e, cur, held) \in K
    BY <1>1
  <2> HIDE DEF K
  <2> QED
    BY <1>0, <2>1, WakeForEachFold
<1>4. F \in [K \X (1..n) -> K]
  BY <1>1
<1>5. <<0, kernel>> \in I
  <2>1. Wakes(kernel, kernel, e, 0)
    BY WakesNobody
  <2> HIDE DEF K
  <2> QED
    BY <1>0, <2>1
<1>6. ASSUME NEW i \in 1..n, NEW q \in K, <<i - 1, q>> \in I
      PROVE  <<i, F[<<q, i>>]>> \in I
  <2>1. Wakes(kernel, q, e, i - 1) /\ F[<<q, i>>] = WakeOne(q, e, cur, held)
        /\ WakeOne(q, e, cur, held) \in K /\ Wakes(q, WakeOne(q, e, cur, held), e, 1)
    BY <1>1, <1>6
  <2>2. i - 1 \in Nat /\ i \in 0..n /\ i - 1 + 1 = i
    OBVIOUS
  <2>3. Wakes(kernel, WakeOne(q, e, cur, held), e, i)
    <3> HIDE DEF held
    <3>1. Wakes(kernel, WakeOne(q, e, cur, held), e, i - 1 + 1)
      BY <2>1, <2>2, WakesMore
    <3> QED
      BY <2>2, <3>1
  <2> HIDE DEF K, F, held
  <2> QED
    BY <2>1, <2>2, <2>3
<1>7. r \in K /\ <<n, r>> \in I
  <2>1. Inductive(I, n, K, F)
    BY <1>6 DEF Inductive
  <2> HIDE DEF K, F, I, r
  <2> QED
    BY <1>0, <1>3, <1>4, <1>5, <2>1, Unfolding
<1> QED
  BY <1>7

(* What every step leaves of the processor: another task runs only when    *)
(* the scheduler is not suspended, and then a ready one.                   *)
Runs ==
  /\ Fit(kernel', Due) /\ cur' \in Task /\ SwitchDue(kernel', cur')
  /\ cur' = cur \/ (suspended' = 0 /\ cur' \in ReadyTasks(kernel'))

Thinner(k, r) ==
  \E X \in SUBSET Task : \A e \in EventList : ToSet(r.event[e]) = ToSet(k.event[e]) \ X

LEMMA SameEvents ==
  ASSUME NEW k, NEW r, r.event = k.event
  PROVE  Thinner(k, r)
<1>1. {} \in SUBSET Task /\ \A e \in EventList : ToSet(r.event[e]) = ToSet(k.event[e]) \ {}
  OBVIOUS
<1> QED
  BY <1>1 DEF Thinner

LEMMA FitFacts ==
  ASSUME NEW k, Fit(k, Due)
  PROVE  /\ Lists(k) /\ ReadyTasks(k) \subseteq Task /\ k.tick \in Ticks
         /\ k.overflows \in 0..(OverflowMod - 1) /\ k.pended \in 0..(PendedMod - 1)
         /\ Sleepers(k) \subseteq Task
         /\ \A e \in EventList : /\ ToSet(k.event[e]) \subseteq Sleepers(k)
                                 /\ ToSet(k.event[e]) \cap ReadyTasks(k) = {}
  BY KernelFields DEF Fit, Lists, ReadyTasks, Placed, Waits

LEMMA WakeAndYieldIs ==
  ASSUME Fit(kernel, Due), SwitchDue(kernel, cur), cur \in ReadyTasks(kernel),
         suspended = 0, UNCHANGED suspended, NEW e \in EventList, WakeAndYield(e)
  PROVE  /\ Runs /\ cur' \in ReadyTasks(kernel') /\ SameClock(kernel, kernel')
         /\ Lets(kernel, kernel', e, 1)
<1> DEFINE woken == WakeOne(kernel, e, cur, FALSE)
<1>0. cur \in Task /\ (suspended # 0) = FALSE
  BY FitFacts
<1>1. Wakes(kernel, woken, e, 1)
  BY <1>0, WakesOne
<1>2. Reschedule(woken, FALSE) \/ Continue(woken)
  BY <1>0 DEF WakeAndYield
<1> HIDE DEF woken
<1>3. CASE Continue(woken)
  BY <1>0, <1>1, <1>3 DEF Continue, Wakes, Runs
<1>4. CASE Reschedule(woken, FALSE)
  <2>1. SameLists(woken, kernel') /\ Fit(kernel', Due) /\ SwitchDue(kernel', cur')
        /\ cur' \in Task /\ cur' \in ReadyTasks(kernel')
    BY <1>0, <1>1, <1>4, RescheduleIs DEF Wakes
  <2>2. kernel'.event = woken.event /\ SameClock(woken, kernel')
    BY <2>1 DEF SameLists
  <2>3. Lets(kernel, kernel', e, 1)
    BY <1>1, <2>2 DEF Wakes, Lets
  <2> QED
    BY <1>1, <2>1, <2>2, <2>3 DEF Runs, Wakes, SameClock
<1> QED
  BY <1>2, <1>3, <1>4

(* A tick leaves the clock of the kernel one on, or one more to make up.   *)
Passed(k, r) == \/ suspended = 0 /\ Ticked(k, r)
                \/ /\ suspended # 0 /\ k.pended < MaxPended
                   /\ r.tick = k.tick /\ r.overflows = k.overflows
                   /\ r.pended = k.pended + 1

LEMMA HoldTick ==
  ASSUME NEW k, Fit(k, Due), k.pended < MaxPended
  PROVE  LET r == [k EXCEPT !.pended = (@ + 1) % PendedMod]
         IN /\ Fit(r, Due) /\ ReadyTasks(r) = ReadyTasks(k) /\ r.event = k.event
            /\ r.tick = k.tick /\ r.overflows = k.overflows
            /\ r.pended = k.pended + 1 /\ r.yield = k.yield
<1> DEFINE r == [k EXCEPT !.pended = (@ + 1) % PendedMod]
<1>1. k \in Kernels /\ k.pended \in 0..(PendedMod - 1) /\ Lists(k)
  BY KernelFields DEF Fit, Lists
<1>2. k.pended + 1 \in 0..(PendedMod - 1) /\ PendedMod \in Nat \ {0}
      /\ MaxPended \in 0..(PendedMod - 1)
  BY <1>1, Constants, QueueAssumption
<1>3. (k.pended + 1) % PendedMod = k.pended + 1
  BY <1>2
<1>4. r = [k EXCEPT !.pended = k.pended + 1]
  BY <1>3
<1>5. /\ r \in Kernels /\ r.ready = k.ready /\ r.top = k.top
      /\ r.delayed = k.delayed /\ r.overflow = k.overflow
      /\ r.wake = k.wake /\ r.event = k.event /\ r.pending = k.pending
      /\ r.next = k.next /\ r.yield = k.yield /\ r.tick = k.tick
      /\ r.overflows = k.overflows /\ r.pended = k.pended + 1
  BY <1>1, <1>2, <1>4 DEF Kernels
<1> HIDE DEF r
<1>6. ReadyOK(r) /\ ReadyTasks(r) = ReadyTasks(k) /\ Sleepers(r) = Sleepers(k)
  BY <1>1, <1>5 DEF ReadyOK, ReadyTasks, Lists, Sleepers
<1>7. Lists(r) /\ NoOverdueSleeper(r, Due)
  BY <1>1, <1>5, <1>6 DEF Lists, Fit, NoOverdueSleeper
<1>8. Placed(r, Task) /\ Waits(r)
  BY <1>5, <1>6 DEF Fit, Placed, Waits
<1> QED
  BY <1>5, <1>6, <1>7, <1>8 DEF Fit, r

LEMMA FitRoused ==
  ASSUME NEW k, Fit(k, Due), NEW r, NoOverdueSleeper(r, Due),
         NEW X \in SUBSET Sleepers(k), Roused(k, r, X)
  PROVE  Fit(r, Due) /\ ReadyTasks(k) \subseteq ReadyTasks(r) /\ Thinner(k, r)
<1>1. X \subseteq Task
  BY FitFacts
<1>2. Placed(r, Task) /\ Waits(r)
  BY <1>1, RousedPlaced DEF Fit
<1>3. Thinner(k, r)
  BY <1>1 DEF Thinner, Roused
<1> QED
  BY <1>2, <1>3 DEF Fit, Roused

LEMMA TickIs ==
  ASSUME Fit(kernel, Due), SwitchDue(kernel, cur), cur \in Task, Tick
  PROVE  /\ Runs /\ Thinner(kernel, kernel') /\ Passed(kernel, kernel')
         /\ cur \in ReadyTasks(kernel) => cur' \in ReadyTasks(kernel')
<1>0. UNCHANGED suspended
  BY DEF Tick
<1>1. CASE suspended # 0
  <2> DEFINE held == [kernel EXCEPT !.pended = (@ + 1) % PendedMod]
  <2>1. kernel.pended < MaxPended /\ (Reschedule(held, TRUE) \/ Continue(held))
    BY <1>1 DEF Tick
  <2>2. /\ Fit(held, Due) /\ ReadyTasks(held) = ReadyTasks(kernel)
        /\ held.event = kernel.event
        /\ held.tick = kernel.tick /\ held.overflows = kernel.overflows
        /\ held.pended = kernel.pended + 1 /\ held.yield = kernel.yield
    BY <2>1, HoldTick
  <2> HIDE DEF held
  <2>3. SwitchDue(held, cur)
    BY <2>2 DEF SwitchDue
  <2>4. /\ Fit(kernel', Due) /\ SwitchDue(kernel', cur') /\ cur' = cur
        /\ kernel'.event = held.event /\ SameClock(held, kernel')
        /\ ReadyTasks(kernel') = ReadyTasks(held)
    <3>1. CASE Continue(held)
      BY <2>2, <2>3, <3>1 DEF Continue, SameClock
    <3>2. CASE Reschedule(held, TRUE)
      BY <2>2, <3>2, RescheduleIs DEF SameLists
    <3> QED
      BY <2>1, <3>1, <3>2
  <2>5. Thinner(kernel, kernel')
    BY <2>2, <2>4, SameEvents
  <2> QED
    BY <1>1, <2>1, <2>2, <2>4, <2>5 DEF Runs, Passed, SameClock
<1>2. CASE suspended = 0
  <2> DEFINE r == IncrementTick(kernel)
  <2>1. IF SwitchRequired(kernel, cur) THEN Reschedule(r, FALSE) ELSE Continue(r)
    BY <1>2 DEF Tick
  <2>2. NoOverdueSleeper(r, Due) /\ Ticked(kernel, r) /\ r.yield = kernel.yield
        /\ \E X \in SUBSET Sleepers(kernel) : Roused(kernel, r, X)
    BY IncrementTickIs DEF Fit
  <2>3. ~SwitchRequired(kernel, cur) => SwitchDue(r, cur)
    BY SwitchRequiredIs DEF SwitchDue, Fit
  <2> HIDE DEF r
  <2>4. Fit(r, Due) /\ ReadyTasks(kernel) \subseteq ReadyTasks(r) /\ Thinner(kernel, r)
    BY <2>2, FitRoused
  <2>5. CASE ~SwitchRequired(kernel, cur)
    BY <1>2, <2>1, <2>2, <2>3, <2>4, <2>5 DEF Continue, Runs, Passed
  <2>6. CASE SwitchRequired(kernel, cur)
    <3>1. /\ SameLists(r, kernel') /\ Fit(kernel', Due) /\ SwitchDue(kernel', cur')
          /\ cur' \in Task /\ cur' \in ReadyTasks(kernel')
      BY <2>1, <2>4, <2>6, RescheduleIs
    <3>2. Ticked(kernel, kernel') /\ Thinner(kernel, kernel')
      BY <2>2, <2>4, <3>1 DEF SameLists, SameClock, Ticked, Thinner
    <3> QED
      BY <1>0, <1>2, <3>1, <3>2 DEF Runs, Passed
  <2> QED
    BY <2>5, <2>6
<1> QED
  BY <1>1, <1>2

LEMMA ResumeIs ==
  ASSUME Fit(kernel, Due), SwitchDue(kernel, cur), cur \in Task, suspended' = 0,
         NEW k, k = ResumeAll(kernel, cur),
         IF k.yield THEN Reschedule(k, suspended' # 0) ELSE Continue(k)
  PROVE  /\ Runs /\ Thinner(kernel, kernel') /\ kernel'.pended = 0
         /\ After(kernel', TimeOut(kernel), kernel.pended)
         /\ cur \in ReadyTasks(kernel) \/ k.yield => cur' \in ReadyTasks(kernel')
         /\ ~k.yield => cur' = cur
<1>1. /\ Lists(k) /\ NoOverdueSleeper(k, Due) /\ Waits(k) /\ k.pended = 0
      /\ After(k, TimeOut(kernel), kernel.pended) /\ SwitchDue(k, cur)
      /\ \E X \in SUBSET Sleepers(kernel) : Roused(kernel, k, X)
  BY ResumeAllIs DEF Fit
<1>2. Fit(k, Due) /\ ReadyTasks(kernel) \subseteq ReadyTasks(k) /\ Thinner(kernel, k)
  BY <1>1, FitRoused
<1>3. CASE ~k.yield
  BY <1>1, <1>2, <1>3 DEF Continue, Runs
<1>4. CASE k.yield
  <2>0. Reschedule(k, FALSE)
    <3>1. (suspended' # 0) = FALSE
      OBVIOUS
    <3> QED
      BY <1>4, <3>1
  <2>1. /\ SameLists(k, kernel') /\ Fit(kernel', Due) /\ SwitchDue(kernel', cur')
        /\ cur' \in Task /\ cur' \in ReadyTasks(kernel')
    BY <1>2, <2>0, RescheduleIs
  <2>2. kernel'.pended = 0 /\ After(kernel', TimeOut(kernel), kernel.pended)
        /\ Thinner(kernel, kernel')
    BY <1>1, <1>2, <2>1 DEF SameLists, SameClock, After, Thinner
  <2> QED
    BY <1>4, <2>1, <2>2 DEF Runs
<1> QED
  BY <1>3, <1>4

LEMMA YieldIs ==
  ASSUME Fit(kernel, Due), cur \in Task, suspended = 0, UNCHANGED suspended,
         Reschedule(kernel, suspended # 0)
  PROVE  /\ Runs /\ cur' \in ReadyTasks(kernel') /\ SameClock(kernel, kernel')
         /\ kernel'.event = kernel.event
<1>1. Reschedule(kernel, FALSE)
  <2>1. (suspended # 0) = FALSE
    OBVIOUS
  <2> QED
    BY <2>1
<1> QED
  BY <1>1, RescheduleIs DEF Runs, SameLists

(* The task is placed, and from here on asleep while it runs.              *)
Placing(k, r, t, f) ==
  /\ SameClock(k, r)
  /\ \A e \in EventList : ToSet(r.event[e]) =
       ToSet(k.event[e]) \cup (IF e = f THEN {t} ELSE {})

LEMMA PlaceIs ==
  ASSUME Fit(kernel, Due), SwitchDue(kernel, cur), cur \in ReadyTasks(kernel) \ {Idle},
         NEW e \in EventList, NEW ticks \in Ticks,
         ticks # 0 \/ (cur \in Due /\ kernel.tick < MaxDelay),
         kernel' = PlaceOnEventList(kernel, cur, e, ticks), UNCHANGED <<cur, suspended>>
  PROVE  Runs /\ Placing(kernel, kernel', cur, e)
<1>1. /\ Lists(kernel') /\ ReadyTasks(kernel') = ReadyTasks(kernel) \ {cur}
      /\ Placed(kernel', Task) /\ Waits(kernel') /\ NoOverdueSleeper(kernel', Due)
      /\ \A f \in EventList : ToSet(kernel'.event[f]) =
           ToSet(kernel.event[f]) \cup (IF f = e THEN {cur} ELSE {})
      /\ kernel'.yield = kernel.yield /\ SameClock(kernel, kernel')
  <2>1. MaySleep(kernel, cur, ticks, Due, Task) /\ Waits(kernel)
    BY DEF MaySleep, Fit
  <2> QED
    BY <2>1, PlaceOnEventListIs
<1>2. Fit(kernel', Due) /\ SwitchDue(kernel', cur') /\ cur' \in Task
  BY <1>1, FitFacts DEF Fit, SwitchDue
<1> QED
  BY <1>1, <1>2 DEF Runs, Placing

-----------------------------------------------------------------------------
(* The running task and its call.                                          *)

Inv == Exclusive /\ RingInv /\ Sound

(* What the running task's place in its call says of the processor.        *)
Context ==
  /\ app \in Applications /\ cur \in Task
  /\ suspended \in {0, 1} /\ (suspended = 1 <=> InSuspension(cur))
  /\ call \in [Task -> CallType] /\ call[cur] \in CallType
  /\ (cur = Idle => At("none"))
  /\ \/ At("yield") \/ call[cur].at \in {"unlockTx", "unlockRx", "resume"}
     \/ cur \in ReadyTasks(kernel)
  /\ app.length \in Nat \ {0} /\ IsRing(app.length, app.items, queue)
  /\ queue.length = app.length /\ queue.count \in 0..queue.length
  /\ kernel.tick \in Ticks /\ kernel.overflows \in 0..(OverflowMod - 1)
  /\ kernel.pended \in 0..(PendedMod - 1)

LEMMA InContext == Inv => Context
<1> SUFFICES ASSUME Inv PROVE Context
  OBVIOUS
<1>1. /\ cur \in Task /\ suspended \in {0, 1} /\ (suspended = 1 <=> InSuspension(cur))
      /\ call \in [Task -> CallType]
  BY DEF Inv, Exclusive, SuspensionExclusive, Sound
<1>2. cur = Idle => At("none")
  BY DEF Inv, Sound, CallsMatch, At
<1>3. \/ At("yield") \/ call[cur].at \in {"unlockTx", "unlockRx", "resume"}
      \/ cur \in ReadyTasks(kernel)
  BY DEF Inv, Sound, Awake
<1>4. /\ app \in Applications /\ app.length \in Nat \ {0}
      /\ IsRing(app.length, app.items, queue)
  BY Lengths DEF Inv, RingInv
<1>5. queue.length = app.length /\ queue.count \in 0..queue.length
  BY <1>4, Fields DEF IsRing
<1>6. kernel.tick \in Ticks /\ kernel.overflows \in 0..(OverflowMod - 1)
      /\ kernel.pended \in 0..(PendedMod - 1)
  BY FitFacts DEF Inv, Sound
<1> QED
  BY <1>1, <1>2, <1>3, <1>4, <1>5, <1>6 DEF Context

CallPlaces == {"none", "try", "suspend", "store", "lock", "expire", "test", "place",
               "unlockTx", "unlockRx", "resume", "yield"}

LEMMA CallParts ==
  ASSUME NEW c \in CallType
  PROVE  /\ c.at \in CallPlaces /\ c.op \in Op \cup {"none"}
         /\ c.item \in app.items \cup {NoItem} /\ c.ticks \in Ticks /\ c.set \in BOOLEAN
         /\ c.from \in [overflows : 0..(OverflowMod - 1), tick : Ticks]
         /\ c.after \in {"none", "fail", "block", "retry"} /\ c.seen \in Nat
         /\ c.owed \in Ticks
  BY DEF CallType, CallPlaces

(* Only the running task's call changes.                                   *)
OwnCall == /\ call' \in [Task -> CallType]
           /\ \A t \in Task \ {cur} : call'[t] = call[t]

LEMMA OwnCallIs ==
  ASSUME Context, NEW c \in CallType, call' = [call EXCEPT ![cur] = c]
  PROVE  OwnCall /\ call'[cur] = c
  BY DEF Context, OwnCall

LEMMA NoCallTyped == NoCall \in CallType
<1>1. 0 \in Ticks /\ 0 \in 0..(OverflowMod - 1)
  BY Constants
<1> QED
  BY <1>1 DEF NoCall, CallType

LEMMA TimeOutTyped ==
  ASSUME Context
  PROVE  TimeOut(kernel) \in [overflows : 0..(OverflowMod - 1), tick : Ticks]
  BY DEF Context, TimeOut

(* The next call of the running task, action by action.                    *)
LEMMA CallIs ==
  ASSUME Context, Call
  PROVE  /\ OwnCall /\ UNCHANGED <<queue, kernel, cur, suspended, got>>
         /\ At("none") /\ cur # Idle
         /\ \E op \in Op, item \in app.items \cup {NoItem}, ticks \in Ticks :
              call'[cur] = Started(op, item, ticks)
<1>1. PICK ask \in app.asks :
        /\ ask.task = cur
        /\ \E item \in IF Sends(ask.op) THEN app.items ELSE {NoItem} :
             call' = [call EXCEPT ![cur] = Started(ask.op, item, ask.ticks)]
  BY DEF Call
<1>2. PICK item \in IF Sends(ask.op) THEN app.items ELSE {NoItem} :
        call' = [call EXCEPT ![cur] = Started(ask.op, item, ask.ticks)]
  BY <1>1
<1>3. ask \in [task : Task \ {Idle}, op : Op, ticks : Ticks]
      /\ item \in app.items \cup {NoItem}
  <2>1. app \in Applications => app.asks \subseteq [task : Task \ {Idle}, op : Op, ticks : Ticks]
    BY QueueAssumption
  <2>2. app \in Applications
    BY DEF Context
  <2> QED
    BY <1>2, <2>1, <2>2
<1>4. ask.op \in Op /\ ask.ticks \in Ticks /\ ask.task # Idle
  BY <1>3
<1>5. Started(ask.op, item, ask.ticks) \in CallType
  BY <1>3, <1>4, NoCallTyped DEF Started, CallType, Op
<1>6. OwnCall /\ call'[cur] = Started(ask.op, item, ask.ticks)
  BY <1>2, <1>5, OwnCallIs
<1> QED
  BY <1>1, <1>3, <1>4, <1>6 DEF Call

LEMMA Onward ==
  ASSUME Context, call[cur].at # "none", NEW a \in CallPlaces,
         call' = [call EXCEPT ![cur].at = a]
  PROVE  /\ OwnCall /\ call'[cur] = [call[cur] EXCEPT !.at = a]
         /\ call'[cur].at = a
<1>1. [call[cur] EXCEPT !.at = a] \in CallType
  BY DEF Context, CallType, CallPlaces
<1>2. call' = [call EXCEPT ![cur] = [call[cur] EXCEPT !.at = a]]
  OBVIOUS
<1>3. OwnCall /\ call'[cur] = [call[cur] EXCEPT !.at = a]
  BY <1>1, <1>2, OwnCallIs
<1>4. [call[cur] EXCEPT !.at = a].at = a
  BY DEF Context, CallType
<1> QED
  BY <1>3, <1>4

LEMMA OnwardAfter ==
  ASSUME Context, NEW a \in CallPlaces,
         NEW r \in {"none", "fail", "block", "retry"},
         call' = [call EXCEPT ![cur].at = a, ![cur].after = r]
  PROVE  OwnCall /\ call'[cur] = [call[cur] EXCEPT !.at = a, !.after = r]
<1>1. [call[cur] EXCEPT !.at = a, !.after = r] \in CallType
  BY DEF Context, CallType, CallPlaces
<1>2. call' = [call EXCEPT ![cur] = [call[cur] EXCEPT !.at = a, !.after = r]]
  BY DEF Context
<1> QED
  BY <1>1, <1>2, OwnCallIs

LEMMA PrepareToWaitIs ==
  ASSUME Context, PrepareToWait
  PROVE  /\ OwnCall /\ UNCHANGED <<queue, kernel, cur, suspended, got>>
         /\ call'[cur] = [call[cur] EXCEPT !.at = "suspend", !.set = TRUE,
                            !.from = IF call[cur].set THEN @ ELSE TimeOut(kernel)]
<1> DEFINE f == IF call[cur].set THEN call[cur].from ELSE TimeOut(kernel)
           c == [call[cur] EXCEPT !.at = "suspend", !.set = TRUE, !.from = f]
<1>1. f \in [overflows : 0..(OverflowMod - 1), tick : Ticks]
  BY TimeOutTyped, CallParts DEF Context
<1>2. c \in CallType
  <2> HIDE DEF f
  <2> QED
    BY <1>1 DEF Context, CallType
<1>3. call' = [call EXCEPT ![cur] = c]
  BY DEF PrepareToWait, Context
<1>4. OwnCall /\ call'[cur] = c
  <2> HIDE DEF c
  <2> QED
    BY <1>2, <1>3, OwnCallIs
<1> QED
  BY <1>4 DEF PrepareToWait

LEMMA LoadIs ==
  ASSUME Context, LoadSuspended
  PROVE  /\ OwnCall /\ UNCHANGED <<queue, kernel, cur, suspended, got>>
         /\ call'[cur] = [call[cur] EXCEPT !.at = "store", !.seen = suspended]
<1>1. [call[cur] EXCEPT !.at = "store", !.seen = suspended] \in CallType
  <2>1. suspended \in Nat /\ call[cur] \in CallType
    BY DEF Context
  <2> QED
    BY <2>1 DEF CallType
<1>2. call' = [call EXCEPT ![cur] = [call[cur] EXCEPT !.at = "store", !.seen = suspended]]
  BY DEF LoadSuspended, Context
<1> QED
  BY <1>1, <1>2, OwnCallIs DEF LoadSuspended

LEMMA StoreIs ==
  ASSUME Context, StoreSuspended
  PROVE  /\ OwnCall /\ UNCHANGED <<queue, kernel, cur, got>>
         /\ call'[cur] = [call[cur] EXCEPT !.at = "lock", !.seen = 0]
<1>1. [call[cur] EXCEPT !.at = "lock", !.seen = 0] \in CallType
  BY DEF Context, CallType
<1>2. call' = [call EXCEPT ![cur] = [call[cur] EXCEPT !.at = "lock", !.seen = 0]]
  BY DEF StoreSuspended, Context
<1> QED
  BY <1>1, <1>2, OwnCallIs DEF StoreSuspended

LEMMA NotYetExpiredIs ==
  ASSUME Context, NotYetExpired
  PROVE  LET left == TimeLeft(kernel, call[cur].from, call[cur].ticks)
         IN /\ OwnCall /\ UNCHANGED <<queue, kernel, cur, suspended, got>>
            /\ left \in Ticks /\ (left = 0 => kernel.tick < MaxDelay)
            /\ call'[cur] = [call[cur] EXCEPT !.at = "test", !.from = TimeOut(kernel),
                                              !.ticks = left]
<1> DEFINE left == TimeLeft(kernel, call[cur].from, call[cur].ticks)
           c == [call[cur] EXCEPT !.at = "test", !.from = TimeOut(kernel),
                                  !.ticks = left]
<1>1. call[cur] \in CallType /\ call[cur].ticks \in Ticks /\ call[cur].from.tick \in Ticks
      /\ kernel.tick \in Ticks
  BY CallParts DEF Context
<1>2. ~TimedOut(kernel, call[cur].from, call[cur].ticks)
  BY DEF NotYetExpired
<1>3. left \in Ticks /\ (left = 0 => kernel.tick < MaxDelay)
  BY <1>1, <1>2, LeftWhenWaiting
<1>4. call' = [call EXCEPT ![cur] = c]
  BY DEF NotYetExpired, Context
<1> HIDE DEF left
<1>5. c \in CallType
  BY <1>1, <1>3, TimeOutTyped DEF CallType
<1>6. OwnCall /\ call'[cur] = c
  <2> HIDE DEF c
  <2> QED
    BY <1>4, <1>5, OwnCallIs
<1> QED
  BY <1>3, <1>6 DEF NotYetExpired, left

LEMMA AgedIs ==
  ASSUME Context, Tick, NEW t \in Task
  PROVE  /\ call' \in [Task -> CallType]
         /\ call'[t] = Age(call[t])
         /\ call'[t].at = call[t].at /\ call'[t].op = call[t].op
         /\ call'[t].after = call[t].after /\ call'[t].ticks = call[t].ticks
         /\ call'[t].set = call[t].set /\ call'[t].from = call[t].from
         /\ call'[t].owed = IF call[t].set /\ call[t].owed > 0 THEN call[t].owed - 1
                                                               ELSE call[t].owed
<1>1. ASSUME NEW x \in Task PROVE Age(call[x]) \in CallType
  <2>1. call[x] \in CallType
    BY DEF Context
  <2>2. call[x].owed \in Ticks
    BY <2>1, CallParts
  <2>3. call[x].owed > 0 => call[x].owed - 1 \in Ticks
    BY <2>2, Constants
  <2> QED
    BY <2>1, <2>3 DEF Age, CallType
<1>2. call' = [x \in Task |-> Age(call[x])]
  BY DEF Tick
<1> QED
  BY <1>1, <1>2 DEF Age, Context, CallType

-----------------------------------------------------------------------------
(* The steps that leave the kernel alone keep the invariant.               *)

LEMMA NotSuspended ==
  ASSUME Inv, ~InSuspension(cur)
  PROVE  suspended = 0 /\ queue.txLock = UNLOCKED /\ queue.rxLock = UNLOCKED
         /\ kernel.pended = 0
  BY InContext DEF Inv, Sound, LocksMatch, Context, InSuspension

LEMMA UnlockedInRange == UNLOCKED \in UNLOCKED..MaxLock /\ 0 \in UNLOCKED..MaxLock
                         /\ UNLOCKED # 0 /\ MaxLock \in Nat
  BY QueueAssumption DEF UNLOCKED

LEMMA LocksFree ==
  ASSUME Exclusive', cur' \in Task, suspended' = 0, queue'.txLock = UNLOCKED,
         queue'.rxLock = UNLOCKED, kernel'.pended = 0
  PROVE  LocksMatch'
<1>1. ~InSuspension(cur)'
  BY DEF Exclusive, SuspensionExclusive
<1> QED
  BY <1>1, UnlockedInRange DEF LocksMatch, InSuspension

LEMMA ExclusiveStays ==
  ASSUME Inv, Step
  PROVE  Exclusive'
  BY ExclusiveTask, ExclusiveOther DEF Inv, Sound, Step

(* Who waits stays on his way, and the calls that change leave no one      *)
(* behind on a list.                                                       *)
LEMMA CallsStay ==
  ASSUME Inv, OwnCall, Thinner(kernel, kernel'),
         cur = Idle => call'[cur].at = "none",
         Placeable(kernel', call'[cur']),
         \/ cur \in ReadyTasks(kernel)
         \/ /\ call'[cur].op = call[cur].op /\ call'[cur].after = call[cur].after
            /\ call'[cur].at \in Blocking
  PROVE  CallsMatch'
<1>1. CallsMatch /\ Fit(kernel, Due) /\ Idle \in Task
  BY Constants DEF Inv, Sound
<1>2. \A e \in EventList : ToSet(kernel'.event[e]) \subseteq ToSet(kernel.event[e])
  BY DEF Thinner
<1>3. ASSUME NEW e \in EventList, NEW t \in ToSet(kernel'.event[e])
      PROVE  Blocks(call'[t], e)
  <2>1. t \in ToSet(kernel.event[e]) /\ Blocks(call[t], e)
    BY <1>1, <1>2, <1>3 DEF CallsMatch
  <2>2. t \in Task /\ t \notin ReadyTasks(kernel)
    BY <1>1, <2>1, FitFacts
  <2>3. CASE t # cur
    BY <2>1, <2>2, <2>3 DEF OwnCall
  <2>4. CASE t = cur
    BY <2>1, <2>2, <2>4 DEF Blocks
  <2> QED
    BY <2>3, <2>4
<1>4. call'[Idle].at = "none"
  BY <1>1 DEF OwnCall, CallsMatch
<1> QED
  BY <1>3, <1>4 DEF CallsMatch

(* Outside a suspension nobody is about to be placed.                      *)
LEMMA NobodyPlaces ==
  ASSUME Exclusive', cur' \in Task, suspended' = 0
  PROVE  Placeable(kernel', call'[cur'])
BY DEF Exclusive, SuspensionExclusive, InSuspension, Placeable

(* A call that was due stays so, unless it is of a task that is awake.     *)
LEMMA DueStays ==
  ASSUME NEW k, Fit(k, Due), \A t \in Due : t \in Due' \/ t \in ReadyTasks(k)
  PROVE  Fit(k, Due')
<1>1. NoOverdueSleeper(k, Due) /\ ReadyTasks(k) \cap Sleepers(k) = {}
  BY DEF Fit, Placed
<1>2. \A t \in ToSet(k.delayed) : t \notin ReadyTasks(k)
  BY <1>1 DEF Sleepers
<1>3. NoOverdueSleeper(k, Due')
  BY <1>1, <1>2 DEF NoOverdueSleeper
<1> QED
  BY <1>3 DEF Fit

(* A step of the running task that moves nothing but its own call.         *)
LEMMA OwnStep ==
  ASSUME Inv, OwnCall, UNCHANGED <<app, kernel, cur, got>>,
         cur \in ReadyTasks(kernel), cur # Idle,
         Placeable(kernel, call'[cur]), LocksMatch'
  PROVE  Sound'
<1>1. Sound /\ CallType' = CallType
  BY DEF Inv, CallType
<1>2. Thinner(kernel, kernel')
  BY SameEvents
<1>3. CallsMatch'
  BY <1>2, CallsStay
<1>4. Fit(kernel, Due)'
  <2>1. \A t \in Due : t \in Due' \/ t \in ReadyTasks(kernel)
    BY DEF Due, OwnCall
  <2> QED
    BY <1>1, <2>1, DueStays DEF Sound
<1> QED
  BY <1>1, <1>3, <1>4 DEF Sound, Awake, OwnCall

LEMMA SoundFree ==
  ASSUME Inv, UNCHANGED app, Call \/ FailAtOnce \/ PrepareToWait \/ LoadSuspended
  PROVE  Sound'
<1>0. Context /\ Exclusive'
  BY InContext, ExclusiveStays DEF Step, TaskStep
<1>1. /\ UNCHANGED <<queue, kernel, cur, suspended, got>> /\ OwnCall /\ cur # Idle
      /\ call[cur].at \in {"none", "try", "suspend"}
      /\ call'[cur].at \in {"none", "try", "suspend", "store"}
  <2>1. CASE Call
    <3>1. OwnCall /\ UNCHANGED <<queue, kernel, cur, suspended, got>>
          /\ At("none") /\ cur # Idle
          /\ \E op \in Op, item \in app.items \cup {NoItem}, ticks \in Ticks :
               call'[cur] = Started(op, item, ticks)
      BY <1>0, <2>1, CallIs
    <3>2. call'[cur].at = "try"
      BY <3>1 DEF Started, NoCall
    <3> QED
      BY <3>1, <3>2 DEF At
  <2>2. CASE FailAtOnce
    <3>1. OwnCall /\ call'[cur] = NoCall
      BY <1>0, <2>2, OwnCallIs, NoCallTyped DEF FailAtOnce
    <3> QED
      BY <1>0, <2>2, <3>1 DEF FailAtOnce, NoCall, At, Context
  <2>3. CASE PrepareToWait
    <3>1. /\ OwnCall /\ UNCHANGED <<queue, kernel, cur, suspended, got>>
          /\ call'[cur] = [call[cur] EXCEPT !.at = "suspend", !.set = TRUE,
                            !.from = IF call[cur].set THEN @ ELSE TimeOut(kernel)]
      BY <1>0, <2>3, PrepareToWaitIs
    <3>2. call'[cur].at = "suspend"
      BY <1>0, <3>1 DEF Context, CallType
    <3> QED
      BY <1>0, <2>3, <3>1, <3>2 DEF PrepareToWait, At, Context
  <2>4. CASE LoadSuspended
    <3>1. /\ OwnCall /\ UNCHANGED <<queue, kernel, cur, suspended, got>>
          /\ call'[cur] = [call[cur] EXCEPT !.at = "store", !.seen = suspended]
      BY <1>0, <2>4, LoadIs
    <3>2. call'[cur].at = "store"
      BY <1>0, <3>1 DEF Context, CallType
    <3> QED
      BY <1>0, <2>4, <3>1, <3>2 DEF LoadSuspended, At, Context
  <2> QED
    BY <2>1, <2>2, <2>3, <2>4
<1>2. suspended' = 0 /\ queue'.txLock = UNLOCKED /\ queue'.rxLock = UNLOCKED
      /\ kernel'.pended = 0
  BY <1>1, NotSuspended DEF InSuspension
<1>3. LocksMatch'
  BY <1>0, <1>1, <1>2, LocksFree DEF Context
<1>4. cur \in ReadyTasks(kernel) /\ Placeable(kernel, call'[cur])
  BY <1>0, <1>1 DEF Context, At, Placeable
<1> QED
  BY <1>1, <1>3, <1>4, OwnStep

LEMMA SoundStore ==
  ASSUME Inv, UNCHANGED app, StoreSuspended
  PROVE  Sound'
<1>0. Context /\ At("store")
  BY InContext DEF StoreSuspended
<1>1. /\ OwnCall /\ UNCHANGED <<queue, kernel, cur, got>>
      /\ call'[cur] = [call[cur] EXCEPT !.at = "lock", !.seen = 0]
  BY <1>0, StoreIs
<1>2. call'[cur].at = "lock"
  BY <1>0, <1>1 DEF Context, CallType
<1>3. suspended' = 1
  BY <1>0 DEF StoreSuspended, Inv, Exclusive, LoadedIsZero, Context, At
<1>4. queue'.txLock = UNLOCKED /\ queue'.rxLock = UNLOCKED
  BY <1>0, <1>1, NotSuspended DEF InSuspension, At
<1>5. LocksMatch'
  BY <1>1, <1>2, <1>3, <1>4, UnlockedInRange DEF LocksMatch
<1>6. cur \in ReadyTasks(kernel) /\ cur # Idle /\ Placeable(kernel, call'[cur])
  BY <1>0, <1>2 DEF Context, At, Placeable
<1> QED
  BY <1>1, <1>5, <1>6, OwnStep

LEMMA SoundLock ==
  ASSUME Inv, UNCHANGED app, Lock
  PROVE  Sound'
<1>0. Context /\ At("lock") /\ UNCHANGED <<kernel, cur, suspended, got>>
      /\ suspended = 1
  BY InContext DEF Lock, Context, At, InSuspension
<1>1. OwnCall /\ call'[cur].at = "expire"
  BY <1>0, Onward DEF Lock, Goto, At, CallPlaces
<1>2. queue.txLock = UNLOCKED /\ queue.rxLock = UNLOCKED
  BY <1>0 DEF Inv, Sound, LocksMatch, At
<1>3. queue'.txLock = 0 /\ queue'.rxLock = 0
  <2>1. queue \in QueueOf(app.length, app.items)
    BY <1>0 DEF Context, IsRing
  <2>2. queue' = [queue EXCEPT !.rxLock = 0, !.txLock = 0]
    BY <1>2 DEF Lock
  <2> QED
    BY <2>1, <2>2 DEF QueueOf
<1>4. LocksMatch'
  BY <1>0, <1>1, <1>3, UnlockedInRange DEF LocksMatch
<1>5. cur \in ReadyTasks(kernel) /\ cur # Idle /\ Placeable(kernel, call'[cur])
  BY <1>0, <1>1 DEF Context, At, Placeable
<1> QED
  BY <1>0, <1>1, <1>4, <1>5, OwnStep

LEMMA TestAgainIs ==
  ASSUME Context, TestAgain
  PROVE  /\ OwnCall /\ UNCHANGED <<queue, kernel, cur, suspended, got>>
         /\ call'[cur].op = call[cur].op /\ call'[cur].ticks = call[cur].ticks
         /\ call'[cur].set = call[cur].set /\ call'[cur].from = call[cur].from
         /\ call'[cur].owed = call[cur].owed
         /\ \/ /\ IF Sends(call[cur].op) THEN queue.count = queue.length
                                         ELSE queue.count = 0
               /\ call'[cur].at = "place" /\ call'[cur].after = call[cur].after
            \/ call'[cur].at = "unlockTx" /\ call'[cur].after = "retry"
<1>0. call[cur] \in CallType /\ call[cur].at # "none"
  BY DEF Context, TestAgain, At
<1>1. CASE IF Sends(call[cur].op) THEN queue.count = queue.length ELSE queue.count = 0
  <2>1. call' = [call EXCEPT ![cur].at = "place"]
    BY <1>1 DEF TestAgain
  <2>2. OwnCall /\ call'[cur] = [call[cur] EXCEPT !.at = "place"]
    BY <1>0, <2>1, Onward DEF CallPlaces
  <2> QED
    BY <1>0, <1>1, <2>2 DEF CallType, TestAgain
<1>2. CASE ~(IF Sends(call[cur].op) THEN queue.count = queue.length ELSE queue.count = 0)
  <2>1. call' = [call EXCEPT ![cur].at = "unlockTx", ![cur].after = "retry"]
    BY <1>2 DEF TestAgain
  <2>2. OwnCall /\ call'[cur] = [call[cur] EXCEPT !.at = "unlockTx", !.after = "retry"]
    BY <2>1, OnwardAfter DEF CallPlaces
  <2>3. /\ call'[cur].op = call[cur].op /\ call'[cur].ticks = call[cur].ticks
        /\ call'[cur].set = call[cur].set /\ call'[cur].from = call[cur].from
        /\ call'[cur].owed = call[cur].owed
        /\ call'[cur].at = "unlockTx" /\ call'[cur].after = "retry"
    BY <1>0, <2>2 DEF CallType
  <2> QED
    BY <2>2, <2>3 DEF TestAgain
<1> QED
  BY <1>1, <1>2

LEMMA ExpireIs ==
  ASSUME Context, Expire
  PROVE  /\ OwnCall /\ UNCHANGED <<queue, kernel, cur, suspended, got>>
         /\ call'[cur] = [call[cur] EXCEPT !.at = "unlockTx", !.after = "fail"]
         /\ call'[cur].at = "unlockTx" /\ call'[cur].after = "fail"
<1>1. call' = [call EXCEPT ![cur].at = "unlockTx", ![cur].after = "fail"]
  BY DEF Expire
<1>2. OwnCall /\ call'[cur] = [call[cur] EXCEPT !.at = "unlockTx", !.after = "fail"]
  BY <1>1, OnwardAfter DEF CallPlaces
<1> QED
  BY <1>2 DEF Context, CallType, Expire

LEMMA SoundHeld ==
  ASSUME Inv, UNCHANGED app, Expire \/ NotYetExpired \/ TestAgain
  PROVE  Sound'
<1>0. Context
  BY InContext
<1>1. /\ UNCHANGED <<queue, kernel, cur, suspended, got>> /\ OwnCall
      /\ call[cur].at \in {"expire", "test"}
      /\ call'[cur].at \in {"unlockTx", "test", "place"}
      /\ Placeable(kernel, call'[cur])
  <2>1. CASE Expire
    BY <1>0, <2>1, ExpireIs DEF Expire, At, Placeable
  <2>2. CASE NotYetExpired
    <3> DEFINE left == TimeLeft(kernel, call[cur].from, call[cur].ticks)
    <3>1. /\ OwnCall /\ UNCHANGED <<queue, kernel, cur, suspended, got>>
          /\ left \in Ticks /\ (left = 0 => kernel.tick < MaxDelay)
          /\ call'[cur] = [call[cur] EXCEPT !.at = "test", !.from = TimeOut(kernel),
                                            !.ticks = left]
      BY <1>0, <2>2, NotYetExpiredIs
    <3> HIDE DEF left
    <3>2. call'[cur].at = "test" /\ call'[cur].ticks = left
      BY <1>0, <3>1 DEF Context, CallType
    <3> QED
      BY <2>2, <3>1, <3>2 DEF NotYetExpired, At, Placeable
  <2>3. CASE TestAgain
    <3>1. Placeable(kernel, call[cur])
      BY DEF Inv, Sound, CallsMatch
    <3> QED
      BY <1>0, <2>3, <3>1, TestAgainIs DEF TestAgain, At, Placeable
  <2> QED
    BY <2>1, <2>2, <2>3
<1>2. LocksMatch'
  BY <1>1 DEF Inv, Sound, LocksMatch
<1>3. cur \in ReadyTasks(kernel) /\ cur # Idle
  BY <1>0, <1>1 DEF Context, At
<1> QED
  BY <1>1, <1>2, <1>3, OwnStep

-----------------------------------------------------------------------------
(* The steps that move tasks between the lists.                            *)

LEMMA SoundAgain ==
  ASSUME Inv, Runs, call' \in [Task -> CallType], UNCHANGED app,
         Due \subseteq Due',
         got' \in app.items \cup {NoItem}, CallsMatch', LocksMatch', Awake'
  PROVE  Sound'
<1>1. CallType' = CallType
  BY DEF CallType
<1>2. Fit(kernel, Due)'
  BY DueStays DEF Runs
<1> QED
  BY <1>1, <1>2 DEF Sound, Runs

(* A call that moves on, or ends, is due if it was.                        *)
LEMMA StillDue ==
  ASSUME OwnCall, call'[cur].ticks \in {0, call[cur].ticks}
  PROVE  Due \subseteq Due'
BY DEF Due, OwnCall

LEMMA GotTyped == Inv => got \in app.items \cup {NoItem}
  BY DEF Inv, Sound

LEMMA SoundPlace ==
  ASSUME Inv, UNCHANGED app, Place
  PROVE  /\ Sound' /\ OwnCall
         /\ call'[cur] = [call[cur] EXCEPT !.at = "unlockTx", !.after = "block"]
         /\ Placing(kernel, kernel', cur, WaitsOn(call[cur].op))
<1> DEFINE e == WaitsOn(call[cur].op)
<1>0. Context /\ At("place") /\ UNCHANGED <<queue, cur, suspended, got>>
      /\ Fit(kernel, Due) /\ SwitchDue(kernel, cur) /\ CallsMatch /\ LocksMatch
  BY InContext DEF Place, Inv, Sound
<1>1. cur \in ReadyTasks(kernel) \ {Idle} /\ e \in EventList
      /\ call[cur].ticks \in Ticks /\ cur \in Task
  <2>2. e \in EventList
    BY QueueAssumption DEF WaitsOn
  <2> QED
    BY <1>0, <2>2, CallParts DEF Context, At
<1>2. kernel' = PlaceOnEventList(kernel, cur, e, call[cur].ticks)
  BY DEF Place
<1> HIDE DEF e
<1>3. Runs /\ Placing(kernel, kernel', cur, e)
  <2> DEFINE n == call[cur].ticks
  <2>1. n # 0 \/ (cur \in Due /\ kernel.tick < MaxDelay)
    BY <1>0, <1>1 DEF CallsMatch, Placeable, At, Context, Due
  <2>2. n \in Ticks /\ kernel' = PlaceOnEventList(kernel, cur, e, n)
    BY <1>1, <1>2
  <2> HIDE DEF n
  <2> QED
    BY <1>0, <1>1, <2>1, <2>2, PlaceIs
<1>4. OwnCall /\ call'[cur] = [call[cur] EXCEPT !.at = "unlockTx", !.after = "block"]
  <2>1. call' = [call EXCEPT ![cur].at = "unlockTx", ![cur].after = "block"]
    BY DEF Place
  <2> QED
    BY <1>0, <2>1, OnwardAfter DEF CallPlaces
<1>5. /\ call'[cur].at = "unlockTx" /\ call'[cur].after = "block"
      /\ call'[cur].op = call[cur].op /\ call'[cur].ticks = call[cur].ticks
  BY <1>0, <1>4 DEF Context, CallType
<1>6. Blocks(call'[cur], e)
  BY <1>5 DEF Blocks, Blocking, e
<1>7. CallsMatch'
  <2>1. ASSUME NEW f \in EventList, NEW t \in ToSet(kernel'.event[f])
        PROVE  Blocks(call'[t], f)
    <3>1. CASE t = cur /\ f = e
      BY <1>6, <3>1
    <3>2. CASE ~(t = cur /\ f = e)
      <4>1. t \in ToSet(kernel.event[f])
        BY <1>3, <3>2, <2>1 DEF Placing
      <4>2. Blocks(call[t], f) /\ t \in Task /\ t # cur
        BY <1>0, <1>1, <4>1, FitFacts DEF CallsMatch
      <4> QED
        BY <1>4, <4>2 DEF OwnCall
    <3> QED
      BY <3>1, <3>2
  <2>2. call'[Idle].at = "none"
    BY <1>0, <1>1, <1>4, Constants DEF OwnCall, CallsMatch
  <2>3. Placeable(kernel', call'[cur'])
    BY <1>0, <1>5 DEF Placeable
  <2> QED
    BY <2>1, <2>2, <2>3 DEF CallsMatch
<1>8. LocksMatch'
  <2>1. kernel'.pended = kernel.pended
    BY <1>3 DEF Placing, SameClock
  <2> QED
    BY <1>0, <1>5, <2>1 DEF LocksMatch, At
<1>9. Awake'
  BY <1>0, <1>5 DEF Awake
<1>10. Sound'
  BY <1>0, <1>3, <1>4, <1>5, <1>7, <1>8, <1>9, StillDue, SoundAgain, GotTyped DEF OwnCall
<1> QED
  BY <1>3, <1>4, <1>10 DEF e

LEMMA LetsThin ==
  ASSUME NEW k, Fit(k, Due), NEW r, NEW e \in EventList, NEW n, Lets(k, r, e, n)
  PROVE  Thinner(k, r)
<1>1. ToSet(k.event[e]) \subseteq Task
  BY FitFacts
<1> QED
  BY <1>1 DEF Lets, Thinner

(* One lock is released: how the two actions differ is only in the list.   *)
LEMMA SoundUnlock ==
  ASSUME Inv, UNCHANGED <<app, cur, suspended, got>>, NEW n \in Nat, NEW e \in EventList,
         kernel' = WakeForEach(n, e), call[cur].at \in {"unlockTx", "unlockRx"},
         NEW a \in {"unlockRx", "resume"}, Goto(a), LocksMatch'
  PROVE  /\ Sound' /\ OwnCall /\ call'[cur] = [call[cur] EXCEPT !.at = a]
         /\ SameClock(kernel, kernel') /\ Lets(kernel, kernel', e, n)
<1>0. Context /\ Fit(kernel, Due) /\ SwitchDue(kernel, cur) /\ cur \in Task /\ Awake
  BY InContext DEF Inv, Sound
<1>1. Wakes(kernel, kernel', e, n)
  BY <1>0, WakeForEachIs
<1>2. OwnCall /\ call'[cur] = [call[cur] EXCEPT !.at = a] /\ call'[cur].at = a
  BY <1>0, Onward DEF Goto, CallPlaces
<1>3. /\ call'[cur].op = call[cur].op /\ call'[cur].after = call[cur].after
      /\ call'[cur].ticks = call[cur].ticks
  BY <1>0, <1>2 DEF Context, CallType
<1>4. Runs /\ Thinner(kernel, kernel')
  BY <1>0, <1>1, LetsThin DEF Wakes, Runs
<1>5. CallsMatch'
  <2>1. call'[cur].at \in Blocking /\ Placeable(kernel', call'[cur'])
    BY <1>2 DEF Blocking, Placeable
  <2>2. cur # Idle
    BY <1>0 DEF Context, At
  <2> QED
    BY <1>2, <1>3, <1>4, <2>1, <2>2, CallsStay
<1>6. Awake'
  BY <1>0, <1>1, <1>2, <1>3 DEF Awake, Wakes, At
<1>7. Sound'
  BY <1>2, <1>3, <1>4, <1>5, <1>6, StillDue, SoundAgain, GotTyped DEF OwnCall
<1> QED
  BY <1>1, <1>2, <1>7 DEF Wakes

LEMMA UnlockTxIs ==
  ASSUME Inv, UNCHANGED app, UnlockTx
  PROVE  /\ Sound' /\ OwnCall /\ call'[cur] = [call[cur] EXCEPT !.at = "unlockRx"]
         /\ queue.txLock \in Nat /\ Lets(kernel, kernel', "receive", queue.txLock)
         /\ SameClock(kernel, kernel')
         /\ queue'.txLock = UNLOCKED /\ queue'.rxLock = queue.rxLock
         /\ queue'.count = queue.count /\ queue'.length = queue.length
         /\ queue'.cleared = queue.cleared
<1>0. Context /\ LocksMatch /\ At("unlockTx") /\ "receive" \in EventList /\ suspended = 1
  BY InContext, QueueAssumption
     DEF Inv, Sound, UnlockTx, Context, At, InSuspension
<1>1. queue.txLock \in Nat
  <2>1. queue.txLock \in UNLOCKED..MaxLock /\ queue.txLock # UNLOCKED
    BY <1>0 DEF LocksMatch, At
  <2> QED
    BY <2>1 DEF UNLOCKED
<1>2. /\ queue'.txLock = UNLOCKED /\ queue'.rxLock = queue.rxLock
      /\ queue'.count = queue.count /\ queue'.length = queue.length
      /\ queue'.cleared = queue.cleared
  <2>1. queue \in QueueOf(app.length, app.items)
    BY <1>0 DEF Context, IsRing
  <2> QED
    BY <2>1 DEF QueueOf, UnlockTx
<1>3. call'[cur].at = "unlockRx"
  BY <1>0, Onward DEF UnlockTx, Goto, At, CallPlaces
<1>4. LocksMatch'
  BY <1>0, <1>2, <1>3, UnlockedInRange DEF LocksMatch, At, UnlockTx
<1>5. /\ kernel' = WakeForEach(queue.txLock, "receive")
      /\ UNCHANGED <<app, cur, suspended, got>> /\ Goto("unlockRx")
      /\ call[cur].at \in {"unlockTx", "unlockRx"}
  BY DEF UnlockTx, At
<1> QED
  BY <1>0, <1>1, <1>2, <1>4, <1>5, SoundUnlock

LEMMA UnlockRxIs ==
  ASSUME Inv, UNCHANGED app, UnlockRx
  PROVE  /\ Sound' /\ OwnCall /\ call'[cur] = [call[cur] EXCEPT !.at = "resume"]
         /\ queue.rxLock \in Nat /\ Lets(kernel, kernel', "send", queue.rxLock)
         /\ SameClock(kernel, kernel')
         /\ queue'.rxLock = UNLOCKED /\ queue'.txLock = queue.txLock
         /\ queue'.count = queue.count /\ queue'.length = queue.length
         /\ queue'.cleared = queue.cleared
<1>0. Context /\ LocksMatch /\ At("unlockRx") /\ "send" \in EventList /\ suspended = 1
  BY InContext, QueueAssumption
     DEF Inv, Sound, UnlockRx, Context, At, InSuspension
<1>1. queue.rxLock \in Nat
  <2>1. queue.rxLock \in UNLOCKED..MaxLock /\ queue.rxLock # UNLOCKED
    BY <1>0 DEF LocksMatch, At
  <2> QED
    BY <2>1 DEF UNLOCKED
<1>2. /\ queue'.rxLock = UNLOCKED /\ queue'.txLock = queue.txLock
      /\ queue'.count = queue.count /\ queue'.length = queue.length
      /\ queue'.cleared = queue.cleared
  <2>1. queue \in QueueOf(app.length, app.items)
    BY <1>0 DEF Context, IsRing
  <2> QED
    BY <2>1 DEF QueueOf, UnlockRx
<1>3. call'[cur].at = "resume"
  BY <1>0, Onward DEF UnlockRx, Goto, At, CallPlaces
<1>4. LocksMatch'
  BY <1>0, <1>2, <1>3, UnlockedInRange DEF LocksMatch, At, UnlockRx
<1>5. /\ kernel' = WakeForEach(queue.rxLock, "send")
      /\ UNCHANGED <<app, cur, suspended, got>> /\ Goto("resume")
      /\ call[cur].at \in {"unlockTx", "unlockRx"}
  BY DEF UnlockRx, At
<1> QED
  BY <1>0, <1>1, <1>2, <1>4, <1>5, SoundUnlock

LEMMA AfterResumeIs ==
  ASSUME Context, NEW y \in BOOLEAN
  PROVE  LET c == AfterResume(y)
         IN /\ c \in CallType
            /\ call[cur].after = "fail" => c = NoCall
            /\ call[cur].after # "fail" =>
                 /\ c = [call[cur] EXCEPT !.at = c.at]
                 /\ c.op = call[cur].op /\ c.after = call[cur].after
                 /\ c.ticks = call[cur].ticks
                 /\ c.at \in {"yield", "try"}
            /\ call[cur].after = "block" /\ ~y => c.at = "yield"
<1>0. call[cur] \in CallType
  BY DEF Context
<1>1. CASE call[cur].after = "fail"
  BY <1>1, NoCallTyped DEF AfterResume
<1>2. CASE call[cur].after # "fail"
  <2>1. PICK a \in {"yield", "try"} :
          /\ AfterResume(y) = [call[cur] EXCEPT !.at = a]
          /\ call[cur].after = "block" /\ ~y => a = "yield"
    <3>1. CASE call[cur].after = "block" /\ ~y
      BY <3>1 DEF AfterResume
    <3>2. CASE ~(call[cur].after = "block" /\ ~y)
      BY <1>2, <3>2 DEF AfterResume
    <3> QED
      BY <3>1, <3>2
  <2> QED
    BY <1>0, <1>2, <2>1 DEF CallType
<1> QED
  BY <1>1, <1>2

LEMMA SoundResume ==
  ASSUME Inv, UNCHANGED app, Resume
  PROVE  /\ Sound' /\ OwnCall /\ suspended' = 0
         /\ Thinner(kernel, kernel') /\ kernel'.pended = 0
         /\ After(kernel', TimeOut(kernel), kernel.pended)
         /\ \E y \in BOOLEAN : call'[cur] = AfterResume(y)
<1> DEFINE k == ResumeAll(kernel, cur)
           y == k.yield
<1>0. Context /\ Exclusive' /\ Fit(kernel, Due) /\ SwitchDue(kernel, cur) /\ cur \in Task
      /\ Awake /\ LocksMatch
  BY InContext, ExclusiveStays DEF Inv, Sound, Step, TaskStep
<1>1. At("resume") /\ suspended' = 0 /\ UNCHANGED <<queue, got>>
  BY <1>0 DEF Resume, Context, At, InSuspension
<1>2. IF y THEN Reschedule(k, suspended' # 0) ELSE Continue(k)
  BY DEF Resume
<1>3. call' = [call EXCEPT ![cur] = AfterResume(y)]
  BY DEF Resume
<1>4. y \in BOOLEAN
  <2>1. Lists(k)
    BY <1>0, ResumeAllIs DEF Fit
  <2> HIDE DEF k
  <2> QED
    BY <2>1, KernelFields DEF Lists
<1> HIDE DEF k
<1>5. /\ Runs /\ Thinner(kernel, kernel') /\ kernel'.pended = 0
      /\ After(kernel', TimeOut(kernel), kernel.pended)
      /\ cur \in ReadyTasks(kernel) \/ y => cur' \in ReadyTasks(kernel')
      /\ ~y => cur' = cur
  BY <1>0, <1>1, <1>2, ResumeIs DEF k
<1> HIDE DEF y
<1>6. /\ AfterResume(y) \in CallType
      /\ call[cur].after = "fail" => AfterResume(y) = NoCall
      /\ call[cur].after # "fail" =>
           /\ AfterResume(y).op = call[cur].op /\ AfterResume(y).after = call[cur].after
           /\ AfterResume(y).ticks = call[cur].ticks
           /\ AfterResume(y).at \in {"yield", "try"}
      /\ call[cur].after = "block" /\ ~y => AfterResume(y).at = "yield"
  BY <1>0, <1>4, AfterResumeIs
<1>7. OwnCall /\ call'[cur] = AfterResume(y)
  BY <1>0, <1>3, <1>6, OwnCallIs
<1>8. cur \in ReadyTasks(kernel) \/ call[cur].after = "block"
  BY <1>0, <1>1 DEF Awake, At
<1>9. Awake'
  <2>1. CASE cur \in ReadyTasks(kernel) \/ y
    BY <1>5, <2>1 DEF Awake
  <2>2. CASE ~(cur \in ReadyTasks(kernel) \/ y)
    BY <1>5, <1>6, <1>7, <1>8, <2>2 DEF Awake, At
  <2> QED
    BY <2>1, <2>2
<1>10. CallsMatch'
  <2>1. cur # Idle
    BY <1>0, <1>1 DEF Context, At
  <2>2. Placeable(kernel', call'[cur'])
    BY <1>0, <1>1, <1>5, NobodyPlaces DEF Runs
  <2>3. \/ cur \in ReadyTasks(kernel)
        \/ /\ call'[cur].op = call[cur].op /\ call'[cur].after = call[cur].after
           /\ call'[cur].at \in Blocking
    BY <1>6, <1>7, <1>8 DEF Blocking
  <2> QED
    BY <1>5, <1>7, <2>1, <2>2, <2>3, CallsStay
<1>11. LocksMatch'
  <2>1. queue.txLock = UNLOCKED /\ queue.rxLock = UNLOCKED
    BY <1>0, <1>1 DEF LocksMatch, At
  <2> QED
    BY <1>0, <1>1, <1>5, <2>1, LocksFree DEF Runs
<1>12. Sound'
  <2>1. Due \subseteq Due'
    BY <1>6, <1>7, StillDue DEF NoCall
  <2> QED
    BY <1>1, <1>5, <1>7, <1>9, <1>10, <1>11, <2>1, SoundAgain, GotTyped DEF OwnCall
<1> QED
  BY <1>1, <1>4, <1>5, <1>7, <1>12

LEMMA SoundYield ==
  ASSUME Inv, UNCHANGED app, Yield
  PROVE  /\ Sound' /\ OwnCall /\ call'[cur] = [call[cur] EXCEPT !.at = "try"]
         /\ SameClock(kernel, kernel') /\ kernel'.event = kernel.event
<1>0. Context /\ Exclusive' /\ Fit(kernel, Due) /\ cur \in Task
  BY InContext, ExclusiveStays DEF Inv, Sound, Step, TaskStep
<1>1. At("yield") /\ UNCHANGED <<queue, suspended, got>>
      /\ Reschedule(kernel, suspended # 0)
  BY DEF Yield
<1>2. suspended = 0 /\ queue.txLock = UNLOCKED /\ queue.rxLock = UNLOCKED
      /\ kernel.pended = 0
  BY <1>1, NotSuspended DEF At, InSuspension
<1>3. /\ Runs /\ cur' \in ReadyTasks(kernel') /\ SameClock(kernel, kernel')
      /\ kernel'.event = kernel.event
  BY <1>0, <1>1, <1>2, YieldIs
<1>4. /\ OwnCall /\ call'[cur] = [call[cur] EXCEPT !.at = "try"]
      /\ call'[cur].at = "try"
  BY <1>0, <1>1, Onward DEF Yield, Goto, At, CallPlaces
<1>5. /\ call'[cur].op = call[cur].op /\ call'[cur].after = call[cur].after
      /\ call'[cur].ticks = call[cur].ticks
  BY <1>0, <1>4 DEF Context, CallType
<1>6. CallsMatch'
  <2>0. Placeable(kernel', call'[cur'])
    BY <1>0, <1>1, <1>2, <1>3, NobodyPlaces DEF Runs
  <2>1. cur # Idle /\ Thinner(kernel, kernel') /\ call'[cur].at \in Blocking
    BY <1>0, <1>1, <1>3, <1>4, SameEvents DEF Context, At, Blocking
  <2> QED
    BY <1>4, <1>5, <2>0, <2>1, CallsStay
<1>7. LocksMatch'
  BY <1>0, <1>1, <1>2, <1>3, LocksFree DEF SameClock, Runs
<1>8. Sound'
  BY <1>1, <1>3, <1>4, <1>5, <1>6, <1>7, StillDue, SoundAgain, GotTyped DEF Awake, OwnCall
<1> QED
  BY <1>3, <1>4, <1>8

LEMMA SoundTick ==
  ASSUME Inv, UNCHANGED app, Tick
  PROVE  /\ Sound' /\ Thinner(kernel, kernel') /\ Passed(kernel, kernel')
         /\ (suspended # 0 => UNCHANGED cur)
<1>0. Context /\ Exclusive' /\ Fit(kernel, Due) /\ SwitchDue(kernel, cur) /\ cur \in Task
      /\ Awake /\ LocksMatch /\ CallsMatch
  BY InContext, ExclusiveStays DEF Inv, Sound, Step
<1>1. /\ Runs /\ Thinner(kernel, kernel') /\ Passed(kernel, kernel')
      /\ cur \in ReadyTasks(kernel) => cur' \in ReadyTasks(kernel')
  BY <1>0, TickIs
<1>2. UNCHANGED <<queue, suspended, got>>
  BY DEF Tick
<1>3. call' \in [Task -> CallType]
  BY <1>0, AgedIs
<1>4. \A t \in Task : /\ call'[t].at = call[t].at /\ call'[t].op = call[t].op
                      /\ call'[t].after = call[t].after /\ call'[t].ticks = call[t].ticks
  BY <1>0, AgedIs
<1>5. CallsMatch'
  <2>1. ASSUME NEW e \in EventList, NEW t \in ToSet(kernel'.event[e])
        PROVE  Blocks(call'[t], e)
    <3>1. t \in ToSet(kernel.event[e])
      BY <1>1, <2>1 DEF Thinner
    <3>2. Blocks(call[t], e) /\ t \in Task
      BY <1>0, <3>1, FitFacts DEF CallsMatch
    <3> QED
      BY <1>4, <3>2 DEF Blocks
  <2>2. Placeable(kernel', call'[cur'])
    <3>1. CASE suspended' = 0
      BY <1>0, <1>1, <3>1, NobodyPlaces DEF Runs
    <3>2. CASE suspended' # 0
      <4>1. cur' = cur /\ kernel'.tick = kernel.tick
        BY <1>1, <1>2, <3>2 DEF Runs, Passed
      <4> QED
        BY <1>0, <1>4, <4>1 DEF CallsMatch, Placeable
    <3> QED
      BY <3>1, <3>2
  <2> QED
    BY <1>0, <1>4, <2>1, <2>2, Constants DEF CallsMatch
<1>6. Awake' /\ Due \subseteq Due'
  BY <1>0, <1>1, <1>4 DEF Awake, Runs, At, Due
<1>7. CASE suspended # 0
  <2>1. cur' = cur
    BY <1>1, <1>2, <1>7 DEF Runs
  <2>2. LocksMatch'
    BY <1>0, <1>2, <1>4, <1>7, <2>1 DEF LocksMatch
  <2> QED
    BY <1>1, <1>2, <1>3, <1>5, <1>6, <2>1, <2>2, SoundAgain, GotTyped
<1>8. CASE suspended = 0
  <2>1. queue.txLock = UNLOCKED /\ queue.rxLock = UNLOCKED /\ kernel.pended = 0
    BY <1>0, <1>8, NotSuspended DEF Context
  <2>2. kernel'.pended = 0
    BY <1>1, <1>8, <2>1 DEF Passed, Ticked
  <2>3. LocksMatch'
    BY <1>0, <1>1, <1>2, <1>8, <2>1, <2>2, LocksFree DEF Runs
  <2> QED
    BY <1>1, <1>2, <1>3, <1>5, <1>6, <1>8, <2>3, SoundAgain, GotTyped
<1> QED
  BY <1>7, <1>8

-----------------------------------------------------------------------------
(* The handlers.                                                           *)

(* What sending and receiving leave of the rest of the queue.              *)
Rest(q, r) == /\ r.txLock = q.txLock /\ r.rxLock = q.rxLock
              /\ r.length = q.length /\ r.cleared = q.cleared

LEMMA CopyKeeps ==
  ASSUME NEW length \in Nat \ {0}, NEW items, NEW q \in QueueOf(length, items), NEW item,
         NEW op
  PROVE  LET r == CopyDataToQueue(q, item, op)
         IN /\ Rest(q, r)
            /\ r.count = IF op = "overwrite" /\ q.count > 0 THEN q.count ELSE q.count + 1
  BY DEF CopyDataToQueue, QueueOf, Rest

LEMMA RemovedKeeps ==
  ASSUME NEW length \in Nat \ {0}, NEW items, NEW q \in QueueOf(length, items)
  PROVE  Rest(q, Removed(q)) /\ Removed(q).count = q.count - 1
  BY DEF Removed, QueueOf, Rest

LEMMA QueueTyped == Context => queue \in QueueOf(app.length, app.items)
  BY DEF Context, IsRing

(* A handler wakes at most one task, or is counted by the lock.            *)
Handled(n, m, e) ==
  \/ n = UNLOCKED /\ m = n /\ Lets(kernel, kernel', e, 1)
  \/ n # UNLOCKED /\ m = n + 1 /\ m <= MaxLock /\ kernel'.event = kernel.event

LEMMA IsrKernel ==
  ASSUME Inv, UNCHANGED <<app, suspended, call>>, NEW e \in EventList,
         \/ Continue(WakeOne(kernel, e, cur, suspended # 0))
         \/ Continue(kernel),
         got' \in app.items \cup {NoItem}, LocksMatch'
  PROVE  /\ Sound' /\ cur' = cur /\ SameClock(kernel, kernel')
         /\ Continue(WakeOne(kernel, e, cur, suspended # 0))
            => Lets(kernel, kernel', e, 1)
<1> DEFINE held == suspended # 0
<1>0. Context /\ Fit(kernel, Due) /\ SwitchDue(kernel, cur) /\ cur \in Task
      /\ Awake /\ CallsMatch /\ call \in [Task -> CallType] /\ held \in BOOLEAN
  BY InContext DEF Inv, Sound
<1>1. \A k \in {kernel, WakeOne(kernel, e, cur, held)} :
        /\ Fit(k, Due) /\ SwitchDue(k, cur) /\ SameClock(kernel, k) /\ Thinner(kernel, k)
        /\ ReadyTasks(kernel) \subseteq ReadyTasks(k)
        /\ k = WakeOne(kernel, e, cur, held) => Lets(kernel, k, e, 1)
  <2> HIDE DEF held
  <2>1. Wakes(kernel, WakeOne(kernel, e, cur, held), e, 1)
    BY <1>0, WakesOne
  <2>2. Thinner(kernel, WakeOne(kernel, e, cur, held))
    BY <1>0, <2>1, LetsThin DEF Wakes
  <2>3. Thinner(kernel, kernel) /\ SameClock(kernel, kernel)
    BY SameEvents DEF SameClock
  <2> QED
    BY <1>0, <2>1, <2>2, <2>3 DEF Wakes
<1>2. kernel' \in {kernel, WakeOne(kernel, e, cur, held)} /\ cur' = cur
  BY DEF Continue
<1>3. Continue(WakeOne(kernel, e, cur, held)) => kernel' = WakeOne(kernel, e, cur, held)
  BY DEF Continue
<1> HIDE DEF held
<1>4. /\ Fit(kernel', Due) /\ SwitchDue(kernel', cur) /\ SameClock(kernel, kernel')
      /\ Thinner(kernel, kernel') /\ ReadyTasks(kernel) \subseteq ReadyTasks(kernel')
      /\ kernel' = WakeOne(kernel, e, cur, held) => Lets(kernel, kernel', e, 1)
  BY <1>1, <1>2
<1>5. CallsMatch'
  <2>1. ASSUME NEW f \in EventList, NEW t \in ToSet(kernel'.event[f])
        PROVE  Blocks(call'[t], f)
    <3>1. t \in ToSet(kernel.event[f])
      BY <1>4, <2>1 DEF Thinner
    <3> QED
      BY <1>0, <3>1 DEF CallsMatch
  <2>2. Placeable(kernel', call'[cur'])
    BY <1>0, <1>2, <1>4 DEF CallsMatch, Placeable, SameClock
  <2> QED
    BY <1>0, <2>1, <2>2 DEF CallsMatch
<1>6. Awake' /\ Runs /\ Due \subseteq Due'
  BY <1>0, <1>2, <1>4 DEF Awake, Runs, At, Due
<1>7. Sound'
  BY <1>0, <1>5, <1>6, SoundAgain
<1> QED
  BY <1>2, <1>3, <1>4, <1>7 DEF held

LEMMA IsrSendIs ==
  ASSUME Inv, UNCHANGED app, IsrSend
  PROVE  /\ Sound' /\ UNCHANGED <<cur, suspended, call>> /\ SameClock(kernel, kernel')
         /\ Handled(queue.txLock, queue'.txLock, "receive")
         /\ queue'.rxLock = queue.rxLock /\ queue'.length = queue.length
         /\ queue'.cleared = queue.cleared
         /\ queue'.count \in {queue.count, queue.count + 1}
         /\ Thinner(kernel, kernel')
<1>0. /\ Context /\ queue \in QueueOf(app.length, app.items) /\ app.length \in Nat \ {0}
      /\ LocksMatch /\ "receive" \in EventList /\ UNCHANGED <<suspended, call, got>>
      /\ Fit(kernel, Due)
  BY InContext, QueueTyped, QueueAssumption DEF Inv, Sound, IsrSend, Context
<1>1. PICK item \in app.items, op \in app.isr \ {"receive"} :
        /\ queue.txLock < MaxLock
        /\ LET q == CopyDataToQueue(queue, item, op)
           IN IF queue.txLock = UNLOCKED
              THEN queue' = q /\ Continue(WakeOne(kernel, "receive", cur, suspended # 0))
              ELSE queue' = [q EXCEPT !.txLock = @ + 1] /\ Continue(kernel)
  BY DEF IsrSend
<1> DEFINE q == CopyDataToQueue(queue, item, op)
<1>2. Rest(queue, q) /\ q.count \in {queue.count, queue.count + 1}
  BY <1>0, CopyKeeps
<1>3. /\ queue.txLock \in UNLOCKED..MaxLock /\ queue.rxLock \in UNLOCKED..MaxLock
      /\ MaxLock \in Nat
  BY <1>0, UnlockedInRange DEF LocksMatch
<1>4. /\ IF queue.txLock = UNLOCKED
         THEN queue' = q /\ Continue(WakeOne(kernel, "receive", cur, suspended # 0))
         ELSE queue' = [q EXCEPT !.txLock = queue.txLock + 1] /\ Continue(kernel)
      /\ DOMAIN q = DOMAIN queue
  BY <1>1, <1>2 DEF Rest, CopyDataToQueue
<1> HIDE DEF q
<1>5. /\ queue'.rxLock = queue.rxLock /\ queue'.length = queue.length
      /\ queue'.cleared = queue.cleared /\ queue'.count = q.count
      /\ queue'.txLock = IF queue.txLock = UNLOCKED THEN UNLOCKED ELSE queue.txLock + 1
  BY <1>0, <1>2, <1>4 DEF QueueOf, Rest
<1>6. queue'.txLock \in UNLOCKED..MaxLock
      /\ (queue'.txLock # UNLOCKED <=> queue.txLock # UNLOCKED)
  BY <1>1, <1>3, <1>5 DEF UNLOCKED
<1>7. UNCHANGED cur /\ kernel'.pended = kernel.pended
  <2>1. \/ Continue(WakeOne(kernel, "receive", cur, suspended # 0))
        \/ Continue(kernel)
    BY <1>4
  <2>2. SameClock(kernel, WakeOne(kernel, "receive", cur, suspended # 0))
    <3>1. (suspended # 0) \in BOOLEAN
      OBVIOUS
    <3> QED
      BY <1>0, <3>1, WakesOne DEF Inv, Sound, Wakes
  <2> QED
    BY <2>1, <2>2 DEF Continue, SameClock
<1>8. LocksMatch'
  BY <1>0, <1>3, <1>5, <1>6, <1>7 DEF LocksMatch
<1>9. /\ Sound' /\ SameClock(kernel, kernel')
      /\ Continue(WakeOne(kernel, "receive", cur, suspended # 0))
         => Lets(kernel, kernel', "receive", 1)
  BY <1>0, <1>4, <1>8, IsrKernel, GotTyped
<1>10. Handled(queue.txLock, queue'.txLock, "receive")
  BY <1>3, <1>4, <1>5, <1>6, <1>9 DEF Handled, Continue
<1>11. Thinner(kernel, kernel')
  BY <1>0, <1>10, LetsThin, SameEvents DEF Handled
<1> QED
  BY <1>0, <1>2, <1>5, <1>7, <1>9, <1>10, <1>11

LEMMA IsrReceiveIs ==
  ASSUME Inv, UNCHANGED app, IsrReceive
  PROVE  /\ Sound' /\ UNCHANGED <<cur, suspended, call>> /\ SameClock(kernel, kernel')
         /\ Handled(queue.rxLock, queue'.rxLock, "send")
         /\ queue'.txLock = queue.txLock /\ queue'.length = queue.length
         /\ queue'.cleared = queue.cleared /\ queue'.count = queue.count - 1
         /\ Thinner(kernel, kernel')
<1>0. /\ Context /\ queue \in QueueOf(app.length, app.items) /\ app.length \in Nat \ {0}
      /\ LocksMatch /\ "send" \in EventList /\ UNCHANGED <<suspended, call>>
      /\ Fit(kernel, Due)
  BY InContext, QueueTyped, QueueAssumption DEF Inv, Sound, IsrReceive, Context
<1> DEFINE q == Removed(queue)
<1>2. Rest(queue, q) /\ q.count = queue.count - 1
  BY <1>0, RemovedKeeps
<1>3. /\ queue.txLock \in UNLOCKED..MaxLock /\ queue.rxLock \in UNLOCKED..MaxLock
      /\ MaxLock \in Nat /\ queue.rxLock < MaxLock
  BY <1>0, UnlockedInRange DEF LocksMatch, IsrReceive
<1>4. /\ IF queue.rxLock = UNLOCKED
         THEN queue' = q /\ Continue(WakeOne(kernel, "send", cur, suspended # 0))
         ELSE queue' = [q EXCEPT !.rxLock = queue.rxLock + 1] /\ Continue(kernel)
      /\ DOMAIN q = DOMAIN queue
  BY <1>2 DEF Rest, Removed, IsrReceive
<1>g. got' \in app.items \cup {NoItem}
  BY <1>0, TakenOut DEF IsrReceive, Context
<1> HIDE DEF q
<1>5. /\ queue'.txLock = queue.txLock /\ queue'.length = queue.length
      /\ queue'.cleared = queue.cleared /\ queue'.count = q.count
      /\ queue'.rxLock = IF queue.rxLock = UNLOCKED THEN UNLOCKED ELSE queue.rxLock + 1
  BY <1>0, <1>2, <1>4 DEF QueueOf, Rest
<1>6. queue'.rxLock \in UNLOCKED..MaxLock
      /\ (queue'.rxLock # UNLOCKED <=> queue.rxLock # UNLOCKED)
  BY <1>3, <1>5 DEF UNLOCKED
<1>7. UNCHANGED cur /\ kernel'.pended = kernel.pended
  <2>1. \/ Continue(WakeOne(kernel, "send", cur, suspended # 0))
        \/ Continue(kernel)
    BY <1>4
  <2>2. SameClock(kernel, WakeOne(kernel, "send", cur, suspended # 0))
    <3>1. (suspended # 0) \in BOOLEAN
      OBVIOUS
    <3> QED
      BY <1>0, <3>1, WakesOne DEF Inv, Sound, Wakes
  <2> QED
    BY <2>1, <2>2 DEF Continue, SameClock
<1>8. LocksMatch'
  BY <1>0, <1>3, <1>5, <1>6, <1>7 DEF LocksMatch
<1>9. /\ Sound' /\ SameClock(kernel, kernel')
      /\ Continue(WakeOne(kernel, "send", cur, suspended # 0))
         => Lets(kernel, kernel', "send", 1)
  BY <1>0, <1>4, <1>8, <1>g, IsrKernel
<1>10. Handled(queue.rxLock, queue'.rxLock, "send")
  BY <1>3, <1>4, <1>5, <1>6, <1>9 DEF Handled, Continue
<1>11. Thinner(kernel, kernel')
  BY <1>0, <1>10, LetsThin, SameEvents DEF Handled
<1> QED
  BY <1>0, <1>2, <1>5, <1>7, <1>9, <1>10, <1>11

-----------------------------------------------------------------------------
(* The calls that go ahead.                                                *)

LEMMA SucceedIs ==
  ASSUME Inv, UNCHANGED app, Succeed
  PROVE  LET op == call[cur].op
         IN /\ Sound' /\ suspended = 0 /\ op \in Op \ {"reset"} /\ Possible(queue, op)
            /\ op = "overwrite" => queue.length = 1
            /\ OwnCall /\ call'[cur] = NoCall /\ SameClock(kernel, kernel')
            /\ Waiters(op) \in EventList /\ Lets(kernel, kernel', Waiters(op), 1)
            /\ Rest(queue, queue') /\ queue' = Served(queue, op, call[cur].item)
<1> DEFINE op == call[cur].op
           e == Waiters(op)
<1>0. /\ Context /\ Exclusive' /\ queue \in QueueOf(app.length, app.items)
      /\ Fit(kernel, Due) /\ SwitchDue(kernel, cur) /\ cur \in Task
      /\ app.length \in Nat \ {0}
  BY InContext, ExclusiveStays, QueueTyped DEF Inv, Sound, Step, TaskStep,
     Context
<1>1. /\ At("try") /\ UNCHANGED suspended /\ Possible(queue, op)
      /\ queue' = Served(queue, op, call[cur].item)
      /\ got' = IF Sends(op) THEN got ELSE NextItem(queue)
      /\ WakeAndYield(e) /\ call' = [call EXCEPT ![cur] = NoCall]
  BY DEF Succeed
<1>2. e \in EventList
  BY QueueAssumption DEF Waiters
<1>3. op \in Op \ {"reset"} /\ (op = "overwrite" => queue.length = 1)
  BY <1>0, <1>1 DEF Inv, RingInv, CallsOK, At, Context
<1>4. suspended = 0 /\ queue.txLock = UNLOCKED /\ queue.rxLock = UNLOCKED
      /\ kernel.pended = 0
  BY <1>1, NotSuspended DEF At, InSuspension
<1>5. cur \in ReadyTasks(kernel)
  BY <1>0, <1>1 DEF Context, At
<1> HIDE DEF e, op
<1>6. /\ Runs /\ cur' \in ReadyTasks(kernel') /\ SameClock(kernel, kernel')
      /\ Lets(kernel, kernel', e, 1)
  BY <1>0, <1>1, <1>2, <1>4, <1>5, WakeAndYieldIs
<1>7. OwnCall /\ call'[cur] = NoCall
  BY <1>0, <1>1, NoCallTyped, OwnCallIs
<1>8. CallsMatch'
  <2>1. Placeable(kernel', call'[cur'])
    BY <1>0, <1>1, <1>4, <1>6, NobodyPlaces DEF Runs
  <2> QED
    BY <1>0, <1>2, <1>5, <1>6, <1>7, <2>1, LetsThin, CallsStay DEF NoCall
<1>9. Rest(queue, queue')
  <2>1. Rest(queue, CopyDataToQueue(queue, call[cur].item, op))
        /\ Rest(queue, Removed(queue)) /\ Rest(queue, queue)
    BY <1>0, CopyKeeps, RemovedKeeps DEF Rest
  <2> QED
    BY <1>1, <2>1 DEF Served
<1>10. LocksMatch'
  BY <1>0, <1>1, <1>4, <1>6, <1>9, LocksFree DEF Runs, SameClock, Rest
<1>11. got' \in app.items \cup {NoItem}
  <2>1. ~Sends(op) => NextItem(queue) \in app.items \cup {NoItem}
    BY <1>0, <1>1, TakenOut DEF Possible, Context
  <2> QED
    BY <1>1, <2>1, GotTyped
<1>12. Sound'
  <2>1. Due \subseteq Due'
    BY <1>7, StillDue DEF NoCall
  <2> QED
    BY <1>1, <1>6, <1>7, <1>8, <1>10, <1>11, <2>1, SoundAgain DEF Awake, OwnCall
<1> QED
  BY <1>1, <1>2, <1>3, <1>4, <1>6, <1>7, <1>9, <1>12 DEF e, op

LEMMA ResetIs ==
  ASSUME Inv, UNCHANGED app, Reset
  PROVE  /\ Sound' /\ suspended = 0 /\ UNCHANGED call
         /\ SameClock(kernel, kernel') /\ Lets(kernel, kernel', "send", 1)
         /\ queue'.length = queue.length /\ queue'.count = 0 /\ queue'.cleared
<1>0. /\ Context /\ Exclusive' /\ queue \in QueueOf(app.length, app.items)
      /\ Fit(kernel, Due) /\ SwitchDue(kernel, cur) /\ cur \in Task /\ "send" \in EventList
      /\ call \in [Task -> CallType] /\ Idle \in Task
      /\ CallsMatch
  BY InContext, ExclusiveStays, QueueTyped, QueueAssumption, Constants
     DEF Inv, Sound, Step, Context
<1>1. /\ At("none") /\ UNCHANGED <<suspended, call, got>> /\ WakeAndYield("send")
      /\ queue' = [Emptied(queue.length, queue.buffer) EXCEPT !.cleared = TRUE]
  BY DEF Reset
<1>2. /\ queue'.length = queue.length /\ queue'.count = 0 /\ queue'.cleared
      /\ queue'.txLock = UNLOCKED /\ queue'.rxLock = UNLOCKED
  BY <1>1 DEF Emptied
<1>3. suspended = 0 /\ kernel.pended = 0 /\ cur \in ReadyTasks(kernel)
  BY <1>0, <1>1, NotSuspended DEF At, InSuspension, Context
<1>4. /\ Runs /\ cur' \in ReadyTasks(kernel') /\ SameClock(kernel, kernel')
      /\ Lets(kernel, kernel', "send", 1)
  BY <1>0, <1>1, <1>3, WakeAndYieldIs
<1>5. CallsMatch'
  <2>1. Thinner(kernel, kernel')
    BY <1>0, <1>4, LetsThin
  <2>2. ASSUME NEW f \in EventList, NEW t \in ToSet(kernel'.event[f])
        PROVE  Blocks(call'[t], f)
    BY <1>0, <1>1, <2>1, <2>2 DEF CallsMatch, Thinner
  <2>3. Placeable(kernel', call'[cur'])
    BY <1>0, <1>1, <1>3, <1>4, NobodyPlaces DEF Runs
  <2> QED
    BY <1>0, <1>1, <2>2, <2>3 DEF CallsMatch
<1>6. LocksMatch'
  BY <1>0, <1>1, <1>2, <1>3, <1>4, LocksFree DEF Runs, SameClock
<1>7. Sound'
  <2>1. Due \subseteq Due'
    BY <1>1 DEF Due
  <2> QED
    BY <1>0, <1>1, <1>4, <1>5, <1>6, <2>1, SoundAgain, GotTyped DEF Awake
<1> QED
  BY <1>1, <1>2, <1>3, <1>4, <1>7

LEMMA SoundStep ==
  ASSUME Inv, Step, UNCHANGED app
  PROVE  Inv'
<1>1. Sound'
  BY SoundFree, SoundStore, SoundLock, SoundHeld, SoundPlace, UnlockTxIs,
     UnlockRxIs,
     SoundResume, SoundYield, SoundTick, IsrSendIs, IsrReceiveIs, SucceedIs, ResetIs
     DEF Step, TaskStep
<1>2. Exclusive'
  BY ExclusiveStays
<1>3. RingInv'
  <2>1. RingInv /\ cur \in Task
    BY DEF Inv, Sound
  <2> QED
    BY <2>1, CallsKept, QueueMoves, ShapeStep DEF RingInv, Moves
<1> QED
  BY <1>1, <1>2, <1>3 DEF Inv

LEMMA SoundInit == Init => Inv
<1> SUFFICES ASSUME Init PROVE Inv
  OBVIOUS
<1>1. Exclusive /\ RingInv
  BY ExclusiveInit, RingInit
<1>2. PICK order \in CreationOrders : kernel = KernelInit(order) /\ cur = FirstTask(order)
  BY DEF Init
<1>3. /\ JustStarted(kernel, Task) /\ cur \in Task
      /\ Priority[cur] = TopPriority
  BY <1>2, KernelInitIs, FirstTaskIs
<1>4. /\ Sleepers(kernel) = {} /\ ToSet(kernel.pending) = {}
      /\ \A e \in EventList : ToSet(kernel.event[e]) = {}
  <2>1. ToSet(<<>>) = {}
    BY DEF ToSet
  <2> QED
    BY <1>3, <2>1 DEF JustStarted, Sleepers
<1>5. Fit(kernel, Due) /\ ReadyTasks(kernel) = Task
  <2>1. ToSet(kernel.delayed) = {} /\ ToSet(kernel.overflow) = {}
    BY <1>4 DEF Sleepers
  <2> QED
    BY <1>3, <1>4, <2>1, Constants
       DEF Fit, JustStarted, Placed, Waits, NoOverdueSleeper
<1>6. SwitchDue(kernel, cur)
  BY <1>3, <1>5, Constants DEF SwitchDue
<1>7. call = [t \in Task |-> NoCall] /\ got = NoItem /\ suspended = 0
      /\ queue.txLock = UNLOCKED /\ queue.rxLock = UNLOCKED
  BY DEF Init, Emptied
<1>8. CallsMatch
  BY <1>3, <1>4, <1>7, Constants DEF CallsMatch, NoCall, Placeable
<1>9. LocksMatch
  BY <1>3, <1>7, UnlockedInRange DEF LocksMatch, NoCall, JustStarted
<1> QED
  BY <1>1, <1>3, <1>5, <1>6, <1>7, <1>8, <1>9, NoCallTyped DEF Inv, Sound,
     Awake

-----------------------------------------------------------------------------
(* The times of the calls.                                                 *)

LEMMA PunctualSame ==
  ASSUME NEW k, NEW r, SameClock(k, r), NEW c, Punctual(k, c)
  PROVE  Punctual(r, c)
  BY DEF Punctual, InTime, After, SameClock

(* A call that moves on keeps its time.                                    *)
LEMMA PunctualMoved ==
  ASSUME NEW k, NEW c, Punctual(k, c), NEW d,
         d.set = c.set, d.from = c.from, d.ticks = c.ticks, d.owed = c.owed,
         d.after = "fail" => c.owed = 0,
         d.at \in {"none", "try"} \/ c.set
  PROVE  Punctual(k, d)
  BY DEF Punctual, InTime

LEMMA PunctualNone ==
  ASSUME NEW k
  PROVE  Punctual(k, NoCall)
  BY DEF Punctual, NoCall

LEMMA TimelyOwn ==
  ASSUME Timely, OwnCall, SameClock(kernel, kernel'), Punctual(kernel, call'[cur])
  PROVE  Timely'
<1>1. \A t \in Task : Punctual(kernel, call'[t])
  BY DEF Timely, OwnCall
<1> QED
  BY <1>1, PunctualSame DEF Timely

(* The steps that leave the call's time alone.                             *)
LEMMA TimelyOnward ==
  ASSUME Context, Timely, OwnCall, SameClock(kernel, kernel'),
         call[cur].at \notin {"none", "try"},
         call'[cur].set = call[cur].set, call'[cur].from = call[cur].from,
         call'[cur].ticks = call[cur].ticks, call'[cur].owed = call[cur].owed,
         call'[cur].after \in {call[cur].after, "block", "retry"}
  PROVE  Timely'
<1>1. Punctual(kernel, call[cur])
  BY DEF Timely, Context
<1>2. call[cur].set /\ (call'[cur].after = "fail" => call[cur].owed = 0)
  BY <1>1 DEF Punctual
<1>3. Punctual(kernel, call'[cur])
  BY <1>1, <1>2, PunctualMoved
<1> QED
  BY <1>3, TimelyOwn

LEMMA SameClockSame == UNCHANGED kernel => SameClock(kernel, kernel')
  BY DEF SameClock

LEMMA TimelyStart ==
  ASSUME Inv, Timely, UNCHANGED app, Call \/ FailAtOnce \/ Succeed
  PROVE  Timely'
<1>0. Context
  BY InContext
<1>1. CASE Call
  <2>1. OwnCall /\ UNCHANGED kernel
        /\ \E op \in Op, item \in app.items \cup {NoItem}, ticks \in Ticks :
             call'[cur] = Started(op, item, ticks)
    BY <1>0, <1>1, CallIs
  <2>2. Punctual(kernel, call'[cur])
    BY <2>1 DEF Punctual, Started, NoCall
  <2> QED
    BY <2>1, <2>2, TimelyOwn, SameClockSame
<1>2. CASE FailAtOnce
  <2>1. OwnCall /\ call'[cur] = NoCall /\ UNCHANGED kernel
    BY <1>0, <1>2, OwnCallIs, NoCallTyped DEF FailAtOnce
  <2> QED
    BY <2>1, TimelyOwn, SameClockSame, PunctualNone
<1>3. CASE Succeed
  BY <1>3, SucceedIs, TimelyOwn, PunctualNone
<1> QED
  BY <1>1, <1>2, <1>3

LEMMA TimelyPrepare ==
  ASSUME Inv, Timely, UNCHANGED app, PrepareToWait
  PROVE  Timely'
<1> DEFINE c == call[cur]
           d == call'[cur]
<1>0. Context /\ c \in CallType /\ At("try") /\ kernel.pended = 0 /\ Fit(kernel, Due)
  BY InContext, NotSuspended DEF PrepareToWait, At, InSuspension, Context,
     Inv, Sound
<1>1. /\ OwnCall /\ UNCHANGED kernel
      /\ d = [c EXCEPT !.at = "suspend", !.set = TRUE,
                       !.from = IF c.set THEN @ ELSE TimeOut(kernel)]
  BY <1>0, PrepareToWaitIs
<1>2. /\ d.set /\ d.from = (IF c.set THEN c.from ELSE TimeOut(kernel))
      /\ d.after = c.after /\ d.owed = c.owed /\ d.ticks = c.ticks
  BY <1>0, <1>1 DEF CallType
<1>3. Punctual(kernel, c)
  BY <1>0 DEF Timely, Context
<1>4. \E e \in Nat : InTime(kernel, d, e)
  <2>1. CASE c.set
    BY <1>2, <1>3, <2>1 DEF Punctual, InTime
  <2>2. CASE ~c.set
    <3>1. After(kernel, TimeOut(kernel), 0)
      BY <1>0, AfterNothing, FitFacts
    <3>2. c.owed = c.ticks
      BY <1>3, <2>2 DEF Punctual
    <3>3. c.owed \in Nat
      BY <1>0, CallParts, Constants
    <3>4. InTime(kernel, d, 0)
      BY <1>0, <1>2, <2>2, <3>1, <3>2, <3>3 DEF InTime
    <3> QED
      BY <3>4
  <2> QED
    BY <2>1, <2>2
<1>5. d.after = "fail" => d.owed = 0
  BY <1>2, <1>3 DEF Punctual
<1>6. Punctual(kernel, d)
  BY <1>2, <1>4, <1>5 DEF Punctual
<1> QED
  BY <1>1, <1>6, TimelyOwn, SameClockSame

(* A call that gives up has waited long enough.                            *)
LEMMA TimelyExpire ==
  ASSUME Inv, Timely, UNCHANGED app, Expire
  PROVE  Timely'
<1> DEFINE c == call[cur]
           d == call'[cur]
<1>0. Context /\ c \in CallType /\ At("expire") /\ TimedOut(kernel, c.from, c.ticks)
  BY InContext DEF Expire, Context
<1>1. /\ OwnCall /\ UNCHANGED kernel
      /\ d = [c EXCEPT !.at = "unlockTx", !.after = "fail"]
  BY <1>0, ExpireIs
<1>2. d.set = c.set /\ d.from = c.from /\ d.owed = c.owed /\ d.ticks = c.ticks
  BY <1>0, <1>1 DEF CallType
<1>3. Punctual(kernel, c)
  BY <1>0 DEF Timely, Context
<1>4. c.set /\ \E e \in Nat : InTime(kernel, c, e)
  BY <1>0, <1>3 DEF Punctual, At
<1>5. PICK e \in Nat : InTime(kernel, c, e)
  BY <1>4
<1>6. c.ticks \in Ticks /\ c.from.tick \in Ticks /\ c.from.overflows \in 0..(OverflowMod - 1)
      /\ c.owed \in Nat /\ c.ticks \in Nat /\ kernel.pended \in Nat
  BY <1>0, CallParts, Constants DEF Context
<1> HIDE DEF c, d
<1>7. e >= c.ticks
  BY <1>0, <1>5, <1>6, TimeOutUpToTheWrap DEF InTime
<1>8. c.owed = 0
  BY <1>5, <1>6, <1>7 DEF InTime
<1>9. Punctual(kernel, d)
  BY <1>2, <1>3, <1>4, <1>8, PunctualMoved
<1> QED
  BY <1>1, <1>9, TimelyOwn, SameClockSame DEF d

LEMMA TimelyNotYet ==
  ASSUME Inv, Timely, UNCHANGED app, NotYetExpired
  PROVE  Timely'
<1> DEFINE c == call[cur]
           d == call'[cur]
           left == TimeLeft(kernel, c.from, c.ticks)
<1>0. Context /\ c \in CallType /\ At("expire") /\ Fit(kernel, Due)
  BY InContext DEF NotYetExpired, Context, Inv, Sound
<1>1. Punctual(kernel, c)
  BY <1>0 DEF Timely, Context
<1>2. c.set /\ \E e \in Nat : InTime(kernel, c, e)
  BY <1>0, <1>1 DEF Punctual, At
<1>3. PICK e \in Nat : InTime(kernel, c, e)
  BY <1>2
<1>4. /\ OwnCall /\ UNCHANGED kernel
      /\ d = [c EXCEPT !.at = "test", !.from = TimeOut(kernel), !.ticks = left]
  BY <1>0, NotYetExpiredIs
<1>5. /\ c.from.tick \in Ticks /\ c.from.overflows \in 0..(OverflowMod - 1)
      /\ c.owed \in Nat /\ c.ticks \in Ticks /\ kernel.pended \in Nat
  BY <1>0, CallParts, Constants DEF Context
<1>6. c.owed = 0 \/ c.owed + kernel.pended <= left
  <2>1. CASE c.owed # 0
    <3>1. /\ TickMod \in Nat \ {0} /\ c.ticks \in 0..(TickMod - 1)
      BY <1>5, Constants
    <3>2. c.owed + e + kernel.pended <= c.ticks
      BY <1>3, <2>1 DEF InTime
    <3> HIDE DEF c
    <3>3. e < TickMod /\ c.ticks - e \in 0..(TickMod - 1)
      BY <1>5, <2>1, <3>1, <3>2
    <3>4. left = (c.ticks - e) % TickMod
      BY <1>3, <1>5, <3>3, TimeOutUpToTheWrap DEF InTime
    <3>5. left = c.ticks - e
      BY <3>1, <3>3, <3>4, LessUnchanged
    <3> QED
      BY <1>5, <3>1, <3>2, <3>5
  <2> QED
    BY <2>1
<1> HIDE DEF left
<1>7. /\ d.set = c.set /\ d.from = TimeOut(kernel) /\ d.owed = c.owed /\ d.ticks = left
      /\ d.after = c.after
  BY <1>0, <1>4 DEF CallType
<1> HIDE DEF c, d
<1>8. InTime(kernel, d, 0)
  <2>1. After(kernel, TimeOut(kernel), 0)
    BY <1>0, AfterNothing, FitFacts
  <2> QED
    BY <1>5, <1>6, <1>7, <2>1 DEF InTime
<1>9. Punctual(kernel, d)
  <2>1. 0 \in Nat
    OBVIOUS
  <2> QED
    BY <1>1, <1>2, <1>7, <1>8, <2>1 DEF Punctual
<1> QED
  BY <1>4, <1>9, TimelyOwn, SameClockSame DEF d

LEMMA TimelyTick ==
  ASSUME Inv, Timely, UNCHANGED app, Tick
  PROVE  Timely'
<1>0. Context /\ Passed(kernel, kernel') /\ Fit(kernel, Due)
  BY InContext, SoundTick DEF Inv, Sound
<1>1. ASSUME NEW t \in Task PROVE Punctual(kernel', call'[t])
  <2> DEFINE c == call[t]
             d == call'[t]
  <2>1. /\ d.at = c.at /\ d.after = c.after /\ d.ticks = c.ticks
        /\ d.set = c.set /\ d.from = c.from
        /\ d.owed = IF c.set /\ c.owed > 0 THEN c.owed - 1 ELSE c.owed
    BY <1>0, AgedIs
  <2>2. c \in CallType /\ Punctual(kernel, c)
    BY <1>0 DEF Context, Timely
  <2>3. c.from.tick \in Nat /\ c.from.overflows \in Nat /\ c.owed \in Nat /\ c.ticks \in Nat
    BY <2>2, CallParts, Constants
  <2> HIDE DEF c, d
  <2>4. CASE ~c.set
    <3>1. ~d.set /\ d.owed = c.owed
      BY <2>1, <2>4
    <3>2. /\ c.at \in {"none", "try"} /\ c.owed = c.ticks
          /\ c.after = "fail" => c.owed = 0
      BY <2>2, <2>4 DEF Punctual
    <3> QED
      BY <2>1, <3>1, <3>2 DEF Punctual, d
  <2>5. CASE c.set
    <3>1. PICK e \in Nat : InTime(kernel, c, e)
      BY <2>2, <2>5 DEF Punctual
    <3>2. kernel.pended \in Nat /\ Lists(kernel)
      BY <1>0, FitFacts
    <3>3. \E f \in Nat : InTime(kernel', d, f)
      <4>1. CASE suspended = 0 /\ Ticked(kernel, kernel')
        <5>1. After(kernel', c.from, e + 1)
          BY <2>3, <3>1, <3>2, <4>1, AfterTick DEF InTime
        <5>2. kernel'.pended = kernel.pended
          BY <4>1 DEF Ticked
        <5>3. e + 1 \in Nat /\ InTime(kernel', d, e + 1)
          BY <2>1, <2>3, <2>5, <3>1, <3>2, <5>1, <5>2 DEF InTime
        <5> QED
          BY <5>3
      <4>2. CASE /\ kernel'.tick = kernel.tick /\ kernel'.overflows = kernel.overflows
                 /\ kernel'.pended = kernel.pended + 1
        <5>1. After(kernel', c.from, e)
          BY <3>1, <4>2 DEF InTime, After
        <5>2. InTime(kernel', d, e)
          BY <2>1, <2>3, <2>5, <3>1, <3>2, <4>2, <5>1 DEF InTime
        <5> QED
          BY <5>2
      <4> QED
        BY <1>0, <4>1, <4>2 DEF Passed
    <3>4. d.after = "fail" => d.owed = 0
      BY <2>1, <2>2 DEF Punctual
    <3>5. d.set
      BY <2>1, <2>5
    <3> QED
      BY <3>3, <3>4, <3>5 DEF Punctual, d
  <2> QED
    BY <2>4, <2>5
<1> QED
  BY <1>1 DEF Timely

LEMMA TimelyResume ==
  ASSUME Inv, Timely, UNCHANGED app, Resume
  PROVE  Timely'
<1> DEFINE p == kernel.pended
<1>0. /\ Context /\ OwnCall /\ kernel'.pended = 0 /\ After(kernel', TimeOut(kernel), p)
      /\ \E y \in BOOLEAN : call'[cur] = AfterResume(y)
      /\ p \in Nat /\ kernel.tick \in Ticks /\ kernel.overflows \in 0..(OverflowMod - 1)
  BY InContext, SoundResume DEF Context
<1> HIDE DEF p
<1>1. ASSUME NEW c \in CallType, Punctual(kernel, c) PROVE Punctual(kernel', c)
  <2>1. CASE ~c.set
    BY <1>1, <2>1 DEF Punctual
  <2>2. CASE c.set
    <3>1. PICK e \in Nat : InTime(kernel, c, e)
      BY <1>1, <2>2 DEF Punctual
    <3>2. c.from.tick \in Nat /\ c.from.overflows \in Nat /\ c.owed \in Nat /\ c.ticks \in Nat
      BY <1>1, CallParts, Constants
    <3>3. After(kernel', c.from, e + p)
      BY <1>0, <3>1, <3>2, AfterBoth DEF InTime
    <3>4. e + p \in Nat /\ InTime(kernel', c, e + p)
      BY <1>0, <3>1, <3>2, <3>3 DEF InTime, p
    <3> QED
      BY <1>1, <2>2, <3>4 DEF Punctual
  <2> QED
    BY <2>1, <2>2
<1>2. Punctual(kernel, call'[cur])
  <2>1. PICK y \in BOOLEAN : call'[cur] = AfterResume(y)
    BY <1>0
  <2>2. CASE call[cur].after = "fail"
    BY <1>0, <2>1, <2>2, AfterResumeIs, PunctualNone
  <2>3. CASE call[cur].after # "fail"
    <3>1. /\ call'[cur] = [call[cur] EXCEPT !.at = call'[cur].at]
          /\ call'[cur].at \in {"yield", "try"} /\ call'[cur].after = call[cur].after
      BY <1>0, <2>1, <2>3, AfterResumeIs
    <3>2. /\ call'[cur].set = call[cur].set /\ call'[cur].from = call[cur].from
          /\ call'[cur].owed = call[cur].owed /\ call'[cur].ticks = call[cur].ticks
      BY <1>0, <3>1 DEF Context, CallType
    <3>3. Punctual(kernel, call[cur]) /\ call[cur].set
      BY <1>0 DEF Timely, Context, Resume, At, Punctual
    <3> QED
      BY <2>3, <3>1, <3>2, <3>3, PunctualMoved
  <2> QED
    BY <2>2, <2>3
<1>3. \A t \in Task : call'[t] \in CallType /\ Punctual(kernel, call'[t])
  BY <1>0, <1>2 DEF Timely, OwnCall
<1> QED
  BY <1>1, <1>3 DEF Timely

LEMMA TimelyStep ==
  ASSUME Inv, Timely, Step, UNCHANGED app
  PROVE  Timely'
<1>0. Context /\ call[cur] \in CallType
  BY InContext DEF Context
<1>1. CASE LoadSuspended
  <2>1. /\ OwnCall /\ UNCHANGED kernel
        /\ call'[cur] = [call[cur] EXCEPT !.at = "store", !.seen = suspended]
    BY <1>0, <1>1, LoadIs
  <2>2. /\ call'[cur].set = call[cur].set /\ call'[cur].from = call[cur].from
        /\ call'[cur].ticks = call[cur].ticks /\ call'[cur].owed = call[cur].owed
        /\ call'[cur].after \in {call[cur].after, "block"}
    BY <1>0, <2>1 DEF CallType
  <2> QED
    BY <1>0, <1>1, <2>1, <2>2, TimelyOnward, SameClockSame DEF LoadSuspended,
       At
<1>2. CASE StoreSuspended
  <2>1. /\ OwnCall /\ UNCHANGED kernel
        /\ call'[cur] = [call[cur] EXCEPT !.at = "lock", !.seen = 0]
    BY <1>0, <1>2, StoreIs
  <2>2. /\ call'[cur].set = call[cur].set /\ call'[cur].from = call[cur].from
        /\ call'[cur].ticks = call[cur].ticks /\ call'[cur].owed = call[cur].owed
        /\ call'[cur].after \in {call[cur].after, "block"}
    BY <1>0, <2>1 DEF CallType
  <2> QED
    BY <1>0, <1>2, <2>1, <2>2, TimelyOnward, SameClockSame
       DEF StoreSuspended, At
<1>3. CASE Lock
  <2>1. /\ OwnCall /\ UNCHANGED kernel
        /\ call'[cur] = [call[cur] EXCEPT !.at = "expire"]
    BY <1>0, <1>3, Onward DEF Lock, Goto, At, CallPlaces
  <2> QED
    BY <1>0, <1>3, <2>1, TimelyOnward, SameClockSame DEF CallType, Lock, At
<1>4. CASE TestAgain
  BY <1>0, <1>4, TestAgainIs, TimelyOnward, SameClockSame DEF TestAgain, At
<1>5. CASE Place
  <2>1. /\ OwnCall /\ SameClock(kernel, kernel')
        /\ call'[cur] = [call[cur] EXCEPT !.at = "unlockTx", !.after = "block"]
    BY <1>5, SoundPlace DEF Placing
  <2>2. /\ call'[cur].set = call[cur].set /\ call'[cur].from = call[cur].from
        /\ call'[cur].ticks = call[cur].ticks /\ call'[cur].owed = call[cur].owed
        /\ call'[cur].after \in {call[cur].after, "block"}
    BY <1>0, <2>1 DEF CallType
  <2> QED
    BY <1>0, <1>5, <2>1, <2>2, TimelyOnward DEF Place, At
<1>6. CASE UnlockTx
  <2>1. /\ OwnCall /\ SameClock(kernel, kernel')
        /\ call'[cur] = [call[cur] EXCEPT !.at = "unlockRx"]
    BY <1>6, UnlockTxIs
  <2> QED
    BY <1>0, <1>6, <2>1, TimelyOnward DEF CallType, UnlockTx, At
<1>7. CASE UnlockRx
  <2>1. /\ OwnCall /\ SameClock(kernel, kernel')
        /\ call'[cur] = [call[cur] EXCEPT !.at = "resume"]
    BY <1>7, UnlockRxIs
  <2> QED
    BY <1>0, <1>7, <2>1, TimelyOnward DEF CallType, UnlockRx, At
<1>8. CASE Yield
  <2>1. /\ OwnCall /\ SameClock(kernel, kernel')
        /\ call'[cur] = [call[cur] EXCEPT !.at = "try"]
    BY <1>8, SoundYield
  <2> QED
    BY <1>0, <1>8, <2>1, TimelyOnward DEF CallType, Yield, At
<1>9. CASE Reset \/ IsrSend \/ IsrReceive
  <2>1. SameClock(kernel, kernel') /\ UNCHANGED call
    BY <1>9, ResetIs, IsrSendIs, IsrReceiveIs
  <2> QED
    BY <2>1, PunctualSame DEF Timely
<1> QED
  BY <1>1, <1>2, <1>3, <1>4, <1>5, <1>6, <1>7, <1>8, <1>9, TimelyStart,
     TimelyPrepare, TimelyExpire, TimelyNotYet, TimelyTick, TimelyResume
     DEF Step, TaskStep

LEMMA TimelyInit == Init => Timely
  BY PunctualNone DEF Init, Timely

-----------------------------------------------------------------------------
(* Who is paid for.                                                        *)

LEMMA Exchange ==
  ASSUME NEW O \in SUBSET Task, NEW P \in SUBSET Task, NEW X \in SUBSET Task,
         NEW L \in SUBSET Task, X \cap O = {}, (O \ L) \cup X \subseteq P
  PROVE  /\ Cardinality(O) \in Nat /\ Cardinality(P) \in Nat
         /\ Cardinality(X) \in Nat /\ Cardinality(L) \in Nat
         /\ Cardinality(P) >= Cardinality(O) + Cardinality(X) - Cardinality(L)
<1>1. /\ IsFiniteSet(O) /\ IsFiniteSet(P) /\ IsFiniteSet(X) /\ IsFiniteSet(L)
      /\ IsFiniteSet(O \ L) /\ IsFiniteSet(O \cap L)
  BY KernelAssumption, FS_Subset
<1>2. /\ Cardinality(O) \in Nat /\ Cardinality(P) \in Nat
      /\ Cardinality(X) \in Nat /\ Cardinality(L) \in Nat
      /\ Cardinality(O \ L) \in Nat /\ Cardinality(O \cap L) \in Nat
      /\ Cardinality({}) = 0
  BY <1>1, FS_CardinalityType, FS_EmptySet
<1>3. Cardinality(O \ L) = Cardinality(O) - Cardinality(O \cap L)
  BY <1>1, FS_Difference
<1>4. Cardinality(O \cap L) <= Cardinality(L)
  <2>1. O \cap L \subseteq L
    OBVIOUS
  <2> QED
    BY <1>1, <2>1, FS_Subset
<1>5. Cardinality((O \ L) \cup X) = Cardinality(O \ L) + Cardinality(X)
  <2>1. (O \ L) \cap X = {}
    OBVIOUS
  <2>2. Cardinality((O \ L) \cup X)
        = Cardinality(O \ L) + Cardinality(X) - Cardinality((O \ L) \cap X)
    BY <1>1, FS_Union
  <2>3. Cardinality((O \ L) \cap X) = 0
    BY <1>2, <2>1
  <2> QED
    BY <1>2, <2>2, <2>3
<1>6. Cardinality((O \ L) \cup X) <= Cardinality(P)
  BY <1>1, FS_Subset
<1> QED
  BY <1>2, <1>3, <1>4, <1>5, <1>6

(* At least n leave the list e, or all of them.                            *)
LetsAt(e, n) ==
  \E X \in SUBSET ToSet(kernel.event[e]) :
    /\ ToSet(kernel'.event[e]) = ToSet(kernel.event[e]) \ X
    /\ ToSet(kernel'.event[e]) = {} \/ Cardinality(X) >= n

LEMMA LetsHere ==
  ASSUME NEW e \in EventList, NEW n, Lets(kernel, kernel', e, n)
  PROVE  LetsAt(e, n)
  BY DEF Lets, LetsAt

LEMMA ThinHere ==
  ASSUME Fit(kernel, Due), NEW e \in EventList,
         ToSet(kernel'.event[e]) \subseteq ToSet(kernel.event[e])
  PROVE  LetsAt(e, 0)
<1> DEFINE X == ToSet(kernel.event[e]) \ ToSet(kernel'.event[e])
<1>1. X \in SUBSET ToSet(kernel.event[e])
      /\ ToSet(kernel'.event[e]) = ToSet(kernel.event[e]) \ X
  OBVIOUS
<1>2. Cardinality(X) >= 0
  <2>1. IsFiniteSet(X)
    BY FitFacts, KernelAssumption, FS_Subset
  <2> HIDE DEF X
  <2> QED
    BY <2>1, FS_CardinalityType
<1> HIDE DEF X
<1> QED
  BY <1>1, <1>2 DEF LetsAt

LEMMA ThinnerHere ==
  ASSUME Fit(kernel, Due), NEW e \in EventList, Thinner(kernel, kernel')
  PROVE  LetsAt(e, 0)
  BY ThinHere DEF Thinner

(* Whoever is woken has overtaken those that still wait.  l counts the     *)
(* running task, where it leaves those who have.                           *)
LEMMA CoversOn ==
  ASSUME Inv, Covered, NEW e \in EventList, NEW n \in Nat, LetsAt(e, n),
         NEW L \in SUBSET {cur},
         L = {} \/ cur \in ReadyTasks(kernel),
         \A t \in Task \ L : Blocks(call[t], e) => Blocks(call'[t], e),
         e = "send" => (queue.cleared => queue'.cleared),
         Avail(e) \in Int, Marked(e) \in Int, Avail(e)' \in Int, Marked(e)' \in Int,
         Avail(e)' - Marked(e)' + Cardinality(L) <= Avail(e) - Marked(e) + n
  PROVE  Covers(e)'
<1> SUFFICES ASSUME ToSet(kernel'.event[e]) # {}, e = "send" => ~queue'.cleared
    PROVE  Avail(e)' <= Cardinality(Overtaken(e)') + Marked(e)'
  BY DEF Covers
<1>0. Fit(kernel, Due) /\ CallsMatch /\ Covers(e) /\ cur \in Task
  BY DEF Inv, Sound, Covered
<1>1. PICK X \in SUBSET ToSet(kernel.event[e]) :
        /\ ToSet(kernel'.event[e]) = ToSet(kernel.event[e]) \ X
        /\ Cardinality(X) >= n
  BY DEF LetsAt
<1>2. ToSet(kernel.event[e]) \subseteq Task \ ReadyTasks(kernel)
  BY <1>0, FitFacts
<1>3. Avail(e) <= Cardinality(Overtaken(e)) + Marked(e)
  BY <1>0, <1>1 DEF Covers
<1>4. X \subseteq Overtaken(e)'
  <2>1. ASSUME NEW t \in X PROVE t \in Overtaken(e)'
    <3>1. t \in Task \ L /\ Blocks(call[t], e)
      BY <1>0, <1>1, <1>2 DEF CallsMatch
    <3> QED
      BY <1>1, <3>1 DEF Overtaken
  <2> QED
    BY <2>1
<1>5. Overtaken(e) \ L \subseteq Overtaken(e)'
  BY <1>1 DEF Overtaken
<1>6. /\ Overtaken(e) \in SUBSET Task /\ Overtaken(e)' \in SUBSET Task
      /\ X \in SUBSET Task /\ L \in SUBSET Task /\ X \cap Overtaken(e) = {}
  BY <1>0, <1>1, <1>2 DEF Overtaken
<1>7. /\ Cardinality(Overtaken(e)) \in Nat /\ Cardinality(Overtaken(e)') \in Nat
      /\ Cardinality(X) \in Nat /\ Cardinality(L) \in Nat
      /\ Cardinality(Overtaken(e)') >=
           Cardinality(Overtaken(e)) + Cardinality(X) - Cardinality(L)
  BY <1>4, <1>5, <1>6, Exchange
<1> QED
  BY <1>1, <1>3, <1>7

LEMMA CoversNone ==
  ASSUME NEW e, Avail(e)' <= Marked(e)', Avail(e)' \in Int, Marked(e)' \in Int
  PROVE  Covers(e)'
<1>1. Overtaken(e)' \in SUBSET Task
  BY DEF Overtaken
<1>2. Cardinality(Overtaken(e)') \in Nat
  BY <1>1, KernelAssumption, FS_Subset, FS_CardinalityType
<1> QED
  BY <1>2 DEF Covers

LEMMA Amounts ==
  ASSUME Inv, NEW e \in EventList
  PROVE  /\ e \in {"send", "receive"}
         /\ Avail(e) \in Nat /\ Marked(e) \in Nat
         /\ queue.length \in Nat \ {0} /\ queue.count \in 0..queue.length
         /\ Avail("send") = queue.length - queue.count /\ Avail("receive") = queue.count
<1>1. /\ queue.length \in Nat \ {0} /\ queue.count \in 0..queue.length
      /\ queue.txLock \in UNLOCKED..MaxLock /\ queue.rxLock \in UNLOCKED..MaxLock
  BY InContext DEF Context, Inv, Sound, LocksMatch
<1>2. Marked(e) \in Nat
  BY <1>1, UnlockedInRange DEF Marked, UNLOCKED
<1>3. e \in {"send", "receive"}
  BY QueueAssumption
<1> QED
  BY <1>1, <1>2, <1>3 DEF Avail

LEMMA CardLeavers ==
  ASSUME NEW x
  PROVE  Cardinality({x}) = 1 /\ Cardinality({}) = 0
  BY FS_Singleton, FS_EmptySet

LEMMA AmountsNext ==
  ASSUME Inv', NEW e \in EventList
  PROVE  /\ Avail(e)' \in Nat /\ Marked(e)' \in Nat
         /\ queue'.length \in Nat \ {0} /\ queue'.count \in 0..queue'.length
<1>0. app' \in Applications /\ IsRing(app'.length, app'.items, queue')
  BY DEF Inv, RingInv
<1>1. /\ queue'.length \in Nat \ {0} /\ queue'.count \in 0..queue'.length
  BY <1>0, Lengths, Fields DEF IsRing
<1>2. queue'.txLock \in UNLOCKED..MaxLock /\ queue'.rxLock \in UNLOCKED..MaxLock
  BY DEF Inv, Sound, LocksMatch
<1>3. Marked(e)' \in Nat
  BY <1>2, UnlockedInRange DEF Marked, UNLOCKED
<1>4. Avail(e)' \in Nat
  BY <1>1 DEF Avail
<1> QED
  BY <1>1, <1>3, <1>4

LEMMA NotPlacing ==
  ASSUME Inv', suspended' = 0
  PROVE  ~At("place")'
  BY DEF Inv, Exclusive, SuspensionExclusive, InSuspension, At, Sound

(* The amounts, the marks and the tasks on their way are the same.         *)
Quiet(e) == /\ Avail(e)' = Avail(e) /\ Marked(e)' = Marked(e)
            /\ queue'.cleared = queue.cleared
            /\ \A t \in Task : Blocks(call[t], e) => Blocks(call'[t], e)

LEMMA CoversQuiet ==
  ASSUME Inv, Inv', Covered, NEW e \in EventList, Quiet(e), LetsAt(e, 0)
  PROVE  Covers(e)'
<1>1. {} \in SUBSET {cur} /\ Cardinality({}) = 0 /\ 0 \in Nat
  BY CardLeavers
<1>2. /\ Avail(e) \in Int /\ Marked(e) \in Int /\ Avail(e)' \in Int /\ Marked(e)' \in Int
  BY Amounts, AmountsNext
<1>3. Avail(e)' - Marked(e)' + Cardinality({}) <= Avail(e) - Marked(e) + 0
  BY <1>1, <1>2 DEF Quiet
<1> QED
  BY <1>1, <1>2, <1>3, CoversOn DEF Quiet

LEMMA QuietHere ==
  ASSUME NEW e, queue'.count = queue.count, queue'.length = queue.length,
         queue'.cleared = queue.cleared, Marked(e)' = Marked(e),
         \A t \in Task : Blocks(call[t], e) => Blocks(call'[t], e)
  PROVE  Quiet(e)
  BY DEF Quiet, Avail

LEMMA MarkedSame ==
  ASSUME NEW e, queue'.txLock = queue.txLock, queue'.rxLock = queue.rxLock
  PROVE  Marked(e)' = Marked(e)
  BY DEF Marked

(* The running task's step, when it was on its way nowhere or stays on it. *)
LEMMA BlocksKept ==
  ASSUME Context, OwnCall,
         \/ call[cur].at \notin Blocking
         \/ call[cur].after # "block"
         \/ /\ call'[cur].op = call[cur].op /\ call'[cur].after = call[cur].after
            /\ call'[cur].at \in Blocking
  PROVE  \A e \in EventList, t \in Task : Blocks(call[t], e) => Blocks(call'[t], e)
  BY DEF OwnCall, Blocks

LEMMA ClearedKept ==
  ASSUME Context
  PROVE  \A a, b \in Int : /\ [queue EXCEPT !.rxLock = a, !.txLock = b].cleared = queue.cleared
                           /\ [queue EXCEPT !.rxLock = a, !.txLock = b].count = queue.count
                           /\ [queue EXCEPT !.rxLock = a, !.txLock = b].length = queue.length
                           /\ [queue EXCEPT !.rxLock = a, !.txLock = b].rxLock = a
                           /\ [queue EXCEPT !.rxLock = a, !.txLock = b].txLock = b
  BY QueueTyped DEF QueueOf

(* The steps that leave the queue and the event lists alone, or only let   *)
(* tasks go.                                                               *)
LEMMA CoveredOwn ==
  ASSUME Inv, Inv', Covered, UNCHANGED app,
         \/ Call \/ LoadSuspended \/ StoreSuspended \/ Lock \/ Expire
         \/ NotYetExpired \/ Resume \/ Yield
  PROVE  Covered'
<1>0. Context /\ Fit(kernel, Due) /\ LocksMatch /\ call[cur] \in CallType
  BY InContext DEF Inv, Sound, Context
<1>1. /\ OwnCall /\ Thinner(kernel, kernel')
      /\ \/ call[cur].at \notin Blocking
         \/ call[cur].after # "block"
         \/ /\ call'[cur].op = call[cur].op /\ call'[cur].after = call[cur].after
            /\ call'[cur].at \in Blocking
      /\ suspended' = 0 \/ (cur' = cur /\ call'[cur].at # "place")
  <2>1. CASE Call
    BY <1>0, <2>1, CallIs, SameEvents, NotSuspended DEF Blocking, At,
       InSuspension
  <2>2. CASE LoadSuspended
    <3>1. At("suspend")
      BY <2>2 DEF LoadSuspended
    <3> QED
      BY <1>0, <2>2, <3>1, LoadIs, SameEvents, NotSuspended DEF Blocking, At,
         InSuspension
  <2>3. CASE StoreSuspended
    <3>1. At("store")
      BY <2>3 DEF StoreSuspended
    <3>2. /\ OwnCall /\ UNCHANGED <<queue, kernel, cur, got>>
          /\ call'[cur] = [call[cur] EXCEPT !.at = "lock", !.seen = 0]
      BY <1>0, <2>3, StoreIs
    <3>3. call'[cur].at = "lock"
      BY <1>0, <3>2 DEF CallType
    <3> QED
      BY <3>1, <3>2, <3>3, SameEvents DEF Blocking, At
  <2>4. CASE Lock
    <3>1. OwnCall /\ call'[cur].at = "expire" /\ call[cur].at = "lock"
          /\ UNCHANGED <<cur, kernel>>
      BY <1>0, <2>4, Onward DEF Lock, Goto, At, CallPlaces
    <3> QED
      BY <3>1, SameEvents DEF Blocking
  <2>5. CASE Expire
    <3>1. call[cur].at = "expire"
      BY <2>5 DEF Expire, At
    <3> QED
      BY <1>0, <2>5, <3>1, ExpireIs, SameEvents DEF Blocking
  <2>6. CASE NotYetExpired
    <3>1. call[cur].at = "expire"
      BY <2>6 DEF NotYetExpired, At
    <3> DEFINE left == TimeLeft(kernel, call[cur].from, call[cur].ticks)
    <3>2. /\ OwnCall /\ UNCHANGED <<queue, kernel, cur, suspended, got>>
          /\ call'[cur] = [call[cur] EXCEPT !.at = "test", !.from = TimeOut(kernel),
                                            !.ticks = left]
      BY <1>0, <2>6, NotYetExpiredIs
    <3> HIDE DEF left
    <3>3. call'[cur].at = "test"
      BY <1>0, <3>2 DEF CallType
    <3> QED
      BY <3>1, <3>2, <3>3, SameEvents DEF Blocking
  <2>7. CASE Resume
    <3>1. OwnCall /\ suspended' = 0 /\ Thinner(kernel, kernel')
          /\ \E y \in BOOLEAN : call'[cur] = AfterResume(y)
      BY <2>7, SoundResume
    <3>2. \/ call[cur].after # "block"
          \/ /\ call'[cur].op = call[cur].op /\ call'[cur].after = call[cur].after
             /\ call'[cur].at \in Blocking
      BY <1>0, <3>1, AfterResumeIs DEF Blocking
    <3> QED
      BY <3>1, <3>2
  <2>8. CASE Yield
    <3>1. OwnCall /\ call'[cur] = [call[cur] EXCEPT !.at = "try"]
          /\ kernel'.event = kernel.event
      BY <2>8, SoundYield
    <3>2. /\ call'[cur].op = call[cur].op /\ call'[cur].after = call[cur].after
          /\ call'[cur].at \in Blocking
      BY <1>0, <3>1 DEF CallType, Blocking
    <3>3. suspended' = 0
      BY <2>8, NotSuspended DEF Yield, At, InSuspension
    <3> QED
      BY <3>1, <3>2, <3>3, SameEvents
  <2> QED
    BY <2>1, <2>2, <2>3, <2>4, <2>5, <2>6, <2>7, <2>8
<1>2. /\ queue'.count = queue.count /\ queue'.length = queue.length
      /\ queue'.cleared = queue.cleared
      /\ \A e \in EventList : Marked(e)' = Marked(e)
  <2>1. CASE UNCHANGED queue
    BY <2>1, MarkedSame
  <2>2. CASE Lock
    <3>1. queue.txLock = UNLOCKED /\ queue.rxLock = UNLOCKED
      BY <1>0, <2>2 DEF LocksMatch, Lock, At
    <3>2. queue' = [queue EXCEPT !.rxLock = 0, !.txLock = 0]
      BY <2>2, <3>1 DEF Lock
    <3>3. queue'.txLock = 0 /\ queue'.rxLock = 0 /\ queue'.count = queue.count
          /\ queue'.length = queue.length /\ queue'.cleared = queue.cleared
      <4>1. 0 \in Int
        OBVIOUS
      <4> QED
        BY <1>0, <3>2, <4>1, ClearedKept
    <3> QED
      BY <3>1, <3>3 DEF Marked
  <2> QED
    BY <2>1, <2>2 DEF Call, LoadSuspended, StoreSuspended, Expire,
       NotYetExpired,
       Resume, Yield
<1>3. ASSUME NEW e \in EventList PROVE Covers(e)'
  <2>1. Quiet(e)
    BY <1>0, <1>1, <1>2, BlocksKept, QuietHere
  <2> QED
    BY <1>0, <1>1, <2>1, ThinnerHere, CoversQuiet
<1>4. ~At("place")'
  <2>1. CASE suspended' = 0
    BY <2>1, NotPlacing
  <2>2. CASE cur' = cur /\ call'[cur].at # "place"
    BY <2>2 DEF At
  <2> QED
    BY <1>1, <2>1, <2>2
<1> QED
  BY <1>3, <1>4 DEF Covered

LEMMA CoveredTest ==
  ASSUME Inv, Inv', Covered, UNCHANGED app, TestAgain
  PROVE  Covered'
<1>0. Context /\ Fit(kernel, Due)
  BY InContext DEF Inv, Sound
<1>1. /\ OwnCall /\ UNCHANGED <<queue, kernel, cur>> /\ call[cur].at = "test"
      /\ call'[cur].op = call[cur].op
      /\ \/ IF Sends(call[cur].op) THEN queue.count = queue.length ELSE queue.count = 0
         \/ call'[cur].at = "unlockTx"
  BY <1>0, TestAgainIs DEF TestAgain, At
<1>2. ASSUME NEW e \in EventList PROVE Covers(e)'
  <2>1. Thinner(kernel, kernel') /\ Marked(e)' = Marked(e)
    BY <1>1, SameEvents, MarkedSame
  <2>2. Quiet(e)
    BY <1>0, <1>1, <2>1, BlocksKept, QuietHere DEF Blocking
  <2> QED
    BY <1>0, <2>1, <2>2, ThinnerHere, CoversQuiet
<1>3. At("place")' => Avail(WaitsOn(call[cur].op))' <= Marked(WaitsOn(call[cur].op))'
  <2>1. SUFFICES ASSUME At("place")', NEW e \in EventList, e = WaitsOn(call[cur].op)
                 PROVE  Avail(e)' <= Marked(e)'
    <3>1. WaitsOn(call[cur].op) \in EventList
      BY QueueAssumption DEF WaitsOn
    <3>2. WaitsOn(call[cur].op)' = WaitsOn(call[cur].op)
      BY <1>1 DEF WaitsOn, Sends
    <3> QED
      BY <2>1, <3>1, <3>2
  <2>2. IF Sends(call[cur].op) THEN queue.count = queue.length ELSE queue.count = 0
    BY <1>1, <2>1 DEF At
  <2>3. Avail(e) = 0
    <3>1. queue.count \in Nat /\ queue.length \in Nat
      BY <2>1, Amounts
    <3> QED
      BY <2>1, <2>2, <3>1 DEF Avail, WaitsOn
  <2>4. Marked(e)' \in Nat /\ Avail(e)' = Avail(e)
    BY <1>1, <2>1, AmountsNext DEF Avail
  <2> QED
    BY <2>3, <2>4
<1> QED
  BY <1>1, <1>2, <1>3 DEF Covered

LEMMA CoveredPlace ==
  ASSUME Inv, Inv', Covered, UNCHANGED app, Place
  PROVE  Covered'
<1> DEFINE e == WaitsOn(call[cur].op)
<1>0. Context /\ Fit(kernel, Due) /\ At("place") /\ UNCHANGED <<queue, cur>>
  BY InContext DEF Place, Inv, Sound
<1>1. /\ OwnCall /\ Placing(kernel, kernel', cur, e)
      /\ call'[cur] = [call[cur] EXCEPT !.at = "unlockTx", !.after = "block"]
  BY SoundPlace
<1>2. Avail(e) <= Marked(e)
  BY <1>0 DEF Covered
<1> HIDE DEF e
<1>3. ASSUME NEW f \in EventList PROVE Covers(f)'
  <2>1. Marked(f)' = Marked(f) /\ Avail(f)' = Avail(f) /\ Avail(f)' \in Int
        /\ Marked(f)' \in Int
    BY <1>0, AmountsNext, MarkedSame DEF Avail
  <2>2. CASE f = e
    BY <1>2, <2>1, <2>2, CoversNone
  <2>3. CASE f # e
    <3>1. LetsAt(f, 0)
      BY <1>0, <1>1, <2>3, ThinHere DEF Placing
    <3>2. Quiet(f)
      BY <1>0, <1>1, <2>1, BlocksKept, QuietHere DEF Blocking, At
    <3> QED
      BY <3>1, <3>2, CoversQuiet
  <2> QED
    BY <2>2, <2>3
<1>4. ~At("place")'
  BY <1>0, <1>1 DEF Context, CallType, At
<1> QED
  BY <1>3, <1>4 DEF Covered

(* Whoever an item was put aside for while the queue was locked is woken.  *)
LEMMA CoveredUnlock ==
  ASSUME Inv, Inv', Covered, UNCHANGED cur, OwnCall, NEW a \in {"unlockRx", "resume"},
         call[cur].at \in Blocking, call'[cur] = [call[cur] EXCEPT !.at = a],
         queue'.count = queue.count, queue'.length = queue.length,
         queue'.cleared = queue.cleared,
         NEW e \in EventList, Lets(kernel, kernel', e, Marked(e)), Marked(e)' = 0,
         \A f \in EventList \ {e} : Marked(f)' = Marked(f)
  PROVE  Covered'
<1>0. Context /\ Fit(kernel, Due) /\ call[cur] \in CallType
  BY InContext DEF Inv, Sound, Context
<1>1. /\ call'[cur].at \in Blocking /\ call'[cur].at # "place"
      /\ call'[cur].op = call[cur].op /\ call'[cur].after = call[cur].after
  BY <1>0 DEF CallType, Blocking
<1>2. \A f \in EventList, t \in Task : Blocks(call[t], f) => Blocks(call'[t], f)
  BY <1>0, <1>1, BlocksKept
<1>3. ASSUME NEW f \in EventList PROVE Covers(f)'
  <2>1. CASE f = e
    <3>1. Marked(e) \in Nat /\ Avail(e) \in Nat /\ Avail(e)' = Avail(e)
      BY Amounts DEF Avail
    <3>2. LetsAt(e, Marked(e)) /\ {} \in SUBSET {cur} /\ Cardinality({}) = 0
      BY LetsHere, CardLeavers
    <3>3. Avail(e)' - Marked(e)' + Cardinality({}) <= Avail(e) - Marked(e) + Marked(e)
      BY <3>1, <3>2
    <3> QED
      BY <1>2, <2>1, <3>1, <3>2, <3>3, CoversOn
  <2>2. CASE f # e
    <3>1. LetsAt(f, 0)
      BY <1>0, LetsThin, ThinnerHere
    <3>2. Quiet(f)
      BY <1>2, <2>2, QuietHere
    <3> QED
      BY <3>1, <3>2, CoversQuiet
  <2> QED
    BY <2>1, <2>2
<1>4. ~At("place")'
  BY <1>1 DEF At
<1> QED
  BY <1>3, <1>4 DEF Covered

LEMMA CoveredUnlocks ==
  ASSUME Inv, Inv', Covered, UNCHANGED app, UnlockTx \/ UnlockRx
  PROVE  Covered'
<1>0. EventList = {"send", "receive"}
  BY QueueAssumption
<1>1. CASE UnlockTx
  <2>1. /\ OwnCall /\ call'[cur] = [call[cur] EXCEPT !.at = "unlockRx"]
        /\ queue.txLock \in Nat /\ Lets(kernel, kernel', "receive", queue.txLock)
        /\ queue'.txLock = UNLOCKED /\ queue'.rxLock = queue.rxLock
        /\ queue'.count = queue.count /\ queue'.length = queue.length
        /\ queue'.cleared = queue.cleared
    BY <1>1, UnlockTxIs
  <2>2. cur' = cur /\ call[cur].at \in Blocking
    BY <1>1 DEF UnlockTx, At, Blocking
  <2>3. Marked("receive") = queue.txLock
    <3>1. queue.txLock # UNLOCKED
      BY <2>1 DEF UNLOCKED
    <3> QED
      BY <3>1 DEF Marked
  <2>4. Marked("receive")' = 0 /\ \A f \in EventList \ {"receive"} : Marked(f)' = Marked(f)
    BY <2>1 DEF Marked
  <2> QED
    BY <1>0, <2>1, <2>2, <2>3, <2>4, CoveredUnlock
<1>2. CASE UnlockRx
  <2>1. /\ OwnCall /\ call'[cur] = [call[cur] EXCEPT !.at = "resume"]
        /\ queue.rxLock \in Nat /\ Lets(kernel, kernel', "send", queue.rxLock)
        /\ queue'.rxLock = UNLOCKED /\ queue'.txLock = queue.txLock
        /\ queue'.count = queue.count /\ queue'.length = queue.length
        /\ queue'.cleared = queue.cleared
    BY <1>2, UnlockRxIs
  <2>2. cur' = cur /\ call[cur].at \in Blocking
    BY <1>2 DEF UnlockRx, At, Blocking
  <2>3. Marked("send") = queue.rxLock
    <3>1. queue.rxLock # UNLOCKED
      BY <2>1 DEF UNLOCKED
    <3> QED
      BY <3>1 DEF Marked
  <2>4. Marked("send")' = 0 /\ \A f \in EventList \ {"send"} : Marked(f)' = Marked(f)
    BY <1>0, <2>1 DEF Marked
  <2> QED
    BY <1>0, <2>1, <2>2, <2>3, <2>4, CoveredUnlock
<1> QED
  BY <1>1, <1>2

LEMMA CoveredTick ==
  ASSUME Inv, Inv', Covered, UNCHANGED app, Tick
  PROVE  Covered'
<1>0. Context /\ Fit(kernel, Due) /\ Thinner(kernel, kernel')
      /\ (suspended # 0 => UNCHANGED cur) /\ UNCHANGED <<queue, suspended>>
  BY InContext, SoundTick DEF Tick, Inv, Sound
<1>1. \A t \in Task : /\ call'[t].at = call[t].at /\ call'[t].op = call[t].op
                      /\ call'[t].after = call[t].after
  BY <1>0, AgedIs
<1>2. ASSUME NEW e \in EventList PROVE Covers(e)'
  <2>1. Quiet(e)
    BY <1>0, <1>1, QuietHere, MarkedSame DEF Blocks
  <2> QED
    BY <1>0, <2>1, ThinnerHere, CoversQuiet
<1>3. At("place")' => Avail(WaitsOn(call[cur].op))' <= Marked(WaitsOn(call[cur].op))'
  <2>1. CASE suspended = 0
    BY <1>0, <2>1, NotPlacing
  <2>2. CASE suspended # 0
    <3>1. /\ cur' = cur /\ call'[cur].at = call[cur].at /\ call'[cur].op = call[cur].op
      BY <1>0, <1>1, <2>2 DEF Context
    <3>2. \A e \in EventList : Marked(e)' = Marked(e) /\ Avail(e)' = Avail(e)
      BY <1>0, MarkedSame DEF Avail
    <3>3. WaitsOn(call[cur].op) \in EventList
      BY QueueAssumption DEF WaitsOn
    <3>4. WaitsOn(call[cur].op)' = WaitsOn(call[cur].op)
      BY <3>1 DEF WaitsOn, Sends
    <3> QED
      BY <3>1, <3>2, <3>3, <3>4 DEF Covered, At
  <2> QED
    BY <2>1, <2>2
<1> QED
  BY <1>2, <1>3 DEF Covered

(* A handler changes the amount for the tasks on e by no more than one,    *)
(* and wakes one of them or has the lock remember it; those on f are not   *)
(* better off for it.                                                      *)
LEMMA CoveredHandler ==
  ASSUME Inv, Inv', Covered, UNCHANGED <<cur, call>>, Thinner(kernel, kernel'),
         queue'.cleared = queue.cleared, NEW e \in EventList, NEW f \in EventList,
         \A g \in EventList : g = e \/ g = f,
         NEW n \in Int, NEW m \in Int, Handled(n, m, e), n >= UNLOCKED,
         Marked(e) = IF n = UNLOCKED THEN 0 ELSE n,
         Marked(e)' = IF m = UNLOCKED THEN 0 ELSE m,
         At("place") => n # UNLOCKED,
         Avail(e)' <= Avail(e) + 1,
         f = e \/ (Avail(f)' <= Avail(f) /\ Marked(f)' = Marked(f))
  PROVE  Covered'
<1>0. Context /\ Fit(kernel, Due) /\ {} \in SUBSET {cur} /\ Cardinality({}) = 0
      /\ 0 \in Nat /\ 1 \in Nat
  BY InContext, CardLeavers DEF Inv, Sound
<1>1. \A g \in EventList : /\ Marked(g) \in Nat /\ Marked(g)' \in Nat
                           /\ Avail(g) \in Nat /\ Avail(g)' \in Nat
  BY Amounts, AmountsNext
<1>2. \A g \in EventList : LetsAt(g, 0)
  BY <1>0, ThinnerHere
<1>3. \A g \in EventList, t \in Task : Blocks(call[t], g) => Blocks(call'[t], g)
  OBVIOUS
<1>4. \/ n = UNLOCKED /\ Marked(e)' = Marked(e) /\ LetsAt(e, 1)
      \/ n # UNLOCKED /\ Marked(e)' = Marked(e) + 1
  <2>1. CASE n = UNLOCKED /\ m = n /\ Lets(kernel, kernel', e, 1)
    BY <2>1, LetsHere
  <2>2. CASE n # UNLOCKED /\ m = n + 1
    BY <2>2 DEF UNLOCKED
  <2> QED
    BY <2>1, <2>2 DEF Handled
<1>5. Covers(e)'
  <2>1. CASE n = UNLOCKED /\ Marked(e)' = Marked(e) /\ LetsAt(e, 1)
    <3>1. Avail(e)' - Marked(e)' + Cardinality({}) <= Avail(e) - Marked(e) + 1
      BY <1>0, <1>1, <2>1
    <3> QED
      BY <1>0, <1>1, <1>3, <2>1, <3>1, CoversOn
  <2>2. CASE n # UNLOCKED /\ Marked(e)' = Marked(e) + 1
    <3>1. Avail(e)' - Marked(e)' + Cardinality({}) <= Avail(e) - Marked(e) + 0
      BY <1>0, <1>1, <2>2
    <3> QED
      BY <1>0, <1>1, <1>2, <1>3, <3>1, CoversOn
  <2> QED
    BY <1>4, <2>1, <2>2
<1>6. Covers(f)'
  <2>1. CASE f = e
    BY <1>5, <2>1
  <2>2. CASE f # e
    <3>1. Avail(f)' - Marked(f)' + Cardinality({}) <= Avail(f) - Marked(f) + 0
      BY <1>0, <1>1, <2>2
    <3> QED
      BY <1>0, <1>1, <1>2, <1>3, <3>1, CoversOn
  <2> QED
    BY <2>1, <2>2
<1>7. At("place")' => Avail(WaitsOn(call[cur].op))' <= Marked(WaitsOn(call[cur].op))'
  <2>1. SUFFICES ASSUME At("place")', NEW g \in EventList, g = WaitsOn(call[cur].op)
                 PROVE  Avail(g)' <= Marked(g)'
    <3>1. WaitsOn(call[cur].op) \in EventList
      BY QueueAssumption DEF WaitsOn
    <3>2. WaitsOn(call[cur].op)' = WaitsOn(call[cur].op)
      OBVIOUS
    <3> QED
      BY <2>1, <3>1, <3>2
  <2>2. At("place") /\ Avail(g) <= Marked(g)
    BY <2>1 DEF At, Covered
  <2>3. CASE g = e
    BY <1>1, <1>4, <2>2, <2>3
  <2>4. CASE g # e
    BY <1>1, <2>2, <2>4
  <2> QED
    BY <2>3, <2>4
<1> QED
  BY <1>5, <1>6, <1>7 DEF Covered

LEMMA LocksTyped ==
  ASSUME Inv
  PROVE  /\ queue.txLock \in Int /\ queue.txLock >= UNLOCKED
         /\ queue.rxLock \in Int /\ queue.rxLock >= UNLOCKED
         /\ At("place") => queue.txLock # UNLOCKED /\ queue.rxLock # UNLOCKED
<1>1. /\ queue.txLock \in UNLOCKED..MaxLock /\ queue.rxLock \in UNLOCKED..MaxLock
      /\ MaxLock \in Nat
  BY UnlockedInRange DEF Inv, Sound, LocksMatch
<1> QED
  BY <1>1 DEF Inv, Sound, LocksMatch, At, UNLOCKED

LEMMA CoveredIsr ==
  ASSUME Inv, Inv', Covered, UNCHANGED app, IsrSend \/ IsrReceive
  PROVE  Covered'
<1>0. /\ EventList = {"send", "receive"} /\ "send" \in EventList /\ "receive" \in EventList
      /\ queue.count \in Int /\ queue.length \in Int
  <2>1. /\ EventList = {"send", "receive"} /\ "send" \in EventList /\ "receive" \in EventList
    BY QueueAssumption
  <2>2. queue.length \in Nat \ {0} /\ queue.count \in 0..queue.length
    BY <2>1, Amounts
  <2> QED
    BY <2>1, <2>2
<1>1. CASE IsrSend
  <2>1. /\ UNCHANGED <<cur, call>> /\ Handled(queue.txLock, queue'.txLock, "receive")
        /\ queue'.rxLock = queue.rxLock /\ queue'.length = queue.length
        /\ queue'.cleared = queue.cleared
        /\ queue'.count \in {queue.count, queue.count + 1}
        /\ Thinner(kernel, kernel')
    BY <1>1, IsrSendIs
  <2>2. /\ queue.txLock \in Int /\ queue.txLock >= UNLOCKED /\ queue'.txLock \in Int
        /\ At("place") => queue.txLock # UNLOCKED
    BY LocksTyped, <2>1 DEF Handled
  <2>3. /\ Marked("receive") = IF queue.txLock = UNLOCKED THEN 0 ELSE queue.txLock
        /\ Marked("receive")' = IF queue'.txLock = UNLOCKED THEN 0 ELSE queue'.txLock
        /\ Marked("send")' = Marked("send")
    BY <2>1 DEF Marked
  <2>4. Avail("receive")' <= Avail("receive") + 1 /\ Avail("send")' <= Avail("send")
    BY <1>0, <2>1 DEF Avail
  <2> QED
    BY <1>0, <2>1, <2>2, <2>3, <2>4, CoveredHandler
<1>2. CASE IsrReceive
  <2>1. /\ UNCHANGED <<cur, call>> /\ Handled(queue.rxLock, queue'.rxLock, "send")
        /\ queue'.txLock = queue.txLock /\ queue'.length = queue.length
        /\ queue'.cleared = queue.cleared /\ queue'.count = queue.count - 1
        /\ Thinner(kernel, kernel')
    BY <1>2, IsrReceiveIs
  <2>2. /\ queue.rxLock \in Int /\ queue.rxLock >= UNLOCKED /\ queue'.rxLock \in Int
        /\ At("place") => queue.rxLock # UNLOCKED
    BY LocksTyped, <2>1 DEF Handled
  <2>3. /\ Marked("send") = IF queue.rxLock = UNLOCKED THEN 0 ELSE queue.rxLock
        /\ Marked("send")' = IF queue'.rxLock = UNLOCKED THEN 0 ELSE queue'.rxLock
        /\ Marked("receive")' = Marked("receive")
    BY <2>1 DEF Marked
  <2>4. Avail("send")' <= Avail("send") + 1 /\ Avail("receive")' <= Avail("receive")
    BY <1>0, <2>1 DEF Avail
  <2> QED
    BY <1>0, <2>1, <2>2, <2>3, <2>4, CoveredHandler
<1> QED
  BY <1>1, <1>2

LEMMA CoveredFail ==
  ASSUME Inv, Inv', Covered, UNCHANGED app, FailAtOnce \/ PrepareToWait
  PROVE  Covered'
<1>0. /\ Context /\ Fit(kernel, Due) /\ At("try") /\ ~Possible(queue, call[cur].op)
      /\ UNCHANGED <<queue, kernel, cur, suspended>>
  BY InContext DEF FailAtOnce, PrepareToWait, Inv, Sound
<1>1. OwnCall
  BY <1>0, OwnCallIs, NoCallTyped, PrepareToWaitIs DEF FailAtOnce
<1>2. suspended' = 0
  BY <1>0, NotSuspended DEF At, InSuspension
<1>3. ASSUME NEW e \in EventList PROVE Covers(e)'
  <2>1. Marked(e)' = Marked(e) /\ Avail(e)' = Avail(e) /\ Avail(e)' \in Nat
        /\ Marked(e)' \in Nat
    BY <1>0, AmountsNext, MarkedSame DEF Avail
  <2>2. CASE e = WaitsOn(call[cur].op)
    <3>1. queue.count \in 0..queue.length /\ queue.length \in Nat
      BY Amounts
    <3>2. Avail(e) <= 0
      BY <1>0, <2>2, <3>1 DEF Possible, Avail, WaitsOn
    <3>3. Avail(e)' <= Marked(e)' /\ Avail(e)' \in Int /\ Marked(e)' \in Int
      BY <2>1, <3>2
    <3> QED
      BY <3>3, CoversNone
  <2>3. CASE e # WaitsOn(call[cur].op)
    <3>1. \A t \in Task : Blocks(call[t], e) => Blocks(call'[t], e)
      BY <1>1, <2>3 DEF Blocks, OwnCall
    <3>2. Quiet(e)
      BY <1>0, <2>1, <3>1, QuietHere
    <3>3. LetsAt(e, 0)
      BY <1>0, SameEvents, ThinnerHere
    <3> QED
      BY <3>2, <3>3, CoversQuiet
  <2> QED
    BY <2>2, <2>3
<1> QED
  BY <1>2, <1>3, NotPlacing DEF Covered

(* The amounts after a call has gone ahead.                                *)
LEMMA ServedAmounts ==
  ASSUME Inv, Inv', UNCHANGED app, Succeed, NEW e \in EventList, call[cur].op # "overwrite"
  PROVE  LET op == call[cur].op
         IN /\ op = "peek" => Avail(e)' = Avail(e)
            /\ e = WaitsOn(op) /\ op # "peek" => Avail(e)' = Avail(e) - 1
            /\ e # WaitsOn(op) => Avail(e)' <= Avail(e) + 1
<1> DEFINE op == call[cur].op
<1>0. Context /\ queue \in QueueOf(app.length, app.items) /\ app.length \in Nat \ {0}
  BY InContext, QueueTyped DEF Context
<1>1. /\ op \in {"back", "front", "receive", "peek"}
      /\ queue'.length = queue.length /\ queue' = Served(queue, op, call[cur].item)
  BY SucceedIs DEF Rest, Op
<1>2. queue.count \in Int /\ queue.length \in Int /\ e \in {"send", "receive"}
  <2>1. queue.count \in 0..queue.length /\ queue.length \in Nat /\ e \in {"send", "receive"}
    BY Amounts
  <2> QED
    BY <2>1
<1>3. queue'.count = IF Sends(op) THEN queue.count + 1
                     ELSE IF op = "receive" THEN queue.count - 1 ELSE queue.count
  BY <1>0, <1>1, CopyKeeps, RemovedKeeps DEF Served, Sends
<1> HIDE DEF op
<1>4. CASE Sends(op)
  BY <1>1, <1>2, <1>3, <1>4 DEF Avail, WaitsOn, Sends, op
<1>5. CASE ~Sends(op)
  BY <1>1, <1>2, <1>3, <1>5 DEF Avail, WaitsOn, Sends, op
<1> QED
  BY <1>4, <1>5

LEMMA CoveredSucceed ==
  ASSUME Inv, Inv', Covered, UNCHANGED app, Succeed
  PROVE  Covered'
<1> DEFINE op == call[cur].op
<1>0. /\ Context /\ Fit(kernel, Due) /\ cur \in ReadyTasks(kernel) /\ EventList = {"send", "receive"}
      /\ Cardinality({cur}) = 1 /\ Cardinality({}) = 0 /\ 0 \in Nat /\ 1 \in Nat
      /\ {cur} \in SUBSET {cur} /\ {} \in SUBSET {cur}
  BY InContext, CardLeavers, QueueAssumption DEF Inv, Sound, Succeed, At,
     Context
<1>1. /\ suspended = 0 /\ op \in Op \ {"reset"} /\ (op = "overwrite" => queue.length = 1)
      /\ OwnCall /\ Waiters(op) \in EventList /\ Lets(kernel, kernel', Waiters(op), 1)
      /\ Rest(queue, queue') /\ queue' = Served(queue, op, call[cur].item)
  BY SucceedIs
<1>2. suspended' = 0 /\ queue.txLock = UNLOCKED /\ queue.rxLock = UNLOCKED
  <2>1. At("try") /\ UNCHANGED suspended
    BY DEF Succeed
  <2> QED
    BY <2>1, NotSuspended DEF At, InSuspension
<1>3. ASSUME NEW e \in EventList PROVE Covers(e)'
  <2>0. /\ Marked(e) = 0 /\ Marked(e)' = 0 /\ Avail(e) \in Nat /\ Avail(e)' \in Nat
        /\ e = "send" => (queue.cleared => queue'.cleared)
    BY <1>1, <1>2, Amounts, AmountsNext DEF Marked, Rest
  <2>1. LetsAt(Waiters(op), 1) /\ \A f \in EventList : LetsAt(f, 0)
    BY <1>0, <1>1, LetsHere, LetsThin, ThinnerHere
  <2>2. \A t \in Task \ {cur} : Blocks(call[t], e) => Blocks(call'[t], e)
    BY <1>1 DEF OwnCall
  <2>3. CASE op = "overwrite" /\ e = "send"
    <3>1. queue'.count >= 1 /\ queue'.length = 1
      <4>1. queue \in QueueOf(app.length, app.items) /\ app.length \in Nat \ {0}
        BY <1>0, QueueTyped DEF Context
      <4>2. queue'.count = IF queue.count > 0 THEN queue.count ELSE queue.count + 1
        BY <1>1, <2>3, <4>1, CopyKeeps DEF Served, Sends
      <4>3. queue.count \in Nat
        <5>1. queue.count \in 0..queue.length /\ queue.length \in Nat
          BY Amounts
        <5> QED
          BY <5>1
      <4> QED
        BY <1>1, <2>3, <4>2, <4>3 DEF Rest
    <3>2. queue'.count \in Int
      <4>1. queue'.count \in 0..queue'.length /\ queue'.length \in Nat
        BY AmountsNext
      <4> QED
        BY <4>1
    <3>3. Avail(e)' <= Marked(e)'
      BY <2>0, <2>3, <3>1, <3>2 DEF Avail
    <3>4. Avail(e)' \in Int /\ Marked(e)' \in Int
      BY <2>0
    <3> QED
      BY <3>3, <3>4, CoversNone
  <2>4. CASE op = "overwrite" /\ e # "send"
    <3>1. e = "receive" /\ Waiters(op) = e /\ WaitsOn(op) # e
      BY <1>0, <2>4 DEF Waiters, WaitsOn, Sends
    <3>2. Avail(e)' <= Avail(e) + 1
      <4>1. queue \in QueueOf(app.length, app.items) /\ app.length \in Nat \ {0}
        BY <1>0, QueueTyped DEF Context
      <4>2. queue'.count = IF queue.count > 0 THEN queue.count ELSE queue.count + 1
        BY <1>1, <2>4, <4>1, CopyKeeps DEF Served, Sends
      <4> QED
        BY <2>0, <3>1, <4>2 DEF Avail
    <3>3. \A t \in Task : Blocks(call[t], e) => Blocks(call'[t], e)
      BY <2>2, <3>1 DEF Blocks
    <3>4. Avail(e)' - Marked(e)' + Cardinality({}) <= Avail(e) - Marked(e) + 1
      BY <1>0, <2>0, <3>2
    <3> QED
      BY <1>0, <2>0, <2>1, <3>1, <3>3, <3>4, CoversOn
  <2>5. CASE op # "overwrite" /\ e = WaitsOn(op)
    <3>1. PICK n \in {0, 1} : LetsAt(e, n) /\ Avail(e)' + 1 <= Avail(e) + n
      <4>1. CASE op = "peek"
        <5>1. Waiters(op) = e /\ Avail(e)' = Avail(e)
          BY <2>5, <4>1, ServedAmounts DEF Waiters, WaitsOn, Sends
        <5> QED
          BY <2>0, <2>1, <5>1
      <4>2. CASE op # "peek"
        <5>1. Avail(e)' = Avail(e) - 1
          BY <2>5, <4>2, ServedAmounts
        <5> QED
          BY <2>0, <2>1, <5>1
      <4> QED
        BY <4>1, <4>2
    <3>2. n \in Nat /\ Avail(e)' - Marked(e)' + Cardinality({cur}) <= Avail(e) - Marked(e) + n
      BY <1>0, <2>0, <3>1
    <3> QED
      BY <1>0, <2>0, <2>2, <3>1, <3>2, CoversOn
  <2>6. CASE op # "overwrite" /\ e # WaitsOn(op)
    <3>1. PICK n \in {0, 1} : LetsAt(e, n) /\ Avail(e)' <= Avail(e) + n
      <4>1. CASE op = "peek"
        <5>1. Avail(e)' = Avail(e)
          BY <2>6, <4>1, ServedAmounts
        <5> QED
          BY <2>0, <2>1, <5>1
      <4>2. CASE op # "peek"
        <5>1. Waiters(op) = e
          BY <1>0, <1>1, <2>6, <4>2 DEF Waiters, WaitsOn, Sends, Op
        <5>2. Avail(e)' <= Avail(e) + 1
          BY <2>6, ServedAmounts
        <5> QED
          BY <2>1, <5>1, <5>2
      <4> QED
        BY <4>1, <4>2
    <3>2. \A t \in Task : Blocks(call[t], e) => Blocks(call'[t], e)
      BY <2>2, <2>6 DEF Blocks
    <3>3. n \in Nat /\ Avail(e)' - Marked(e)' + Cardinality({}) <= Avail(e) - Marked(e) + n
      BY <1>0, <2>0, <3>1
    <3> QED
      BY <1>0, <2>0, <3>1, <3>2, <3>3, CoversOn
  <2> QED
    BY <2>3, <2>4, <2>5, <2>6
<1> QED
  BY <1>2, <1>3, NotPlacing DEF Covered

LEMMA CoveredReset ==
  ASSUME Inv, Inv', Covered, UNCHANGED app, Reset
  PROVE  Covered'
<1>1. suspended = 0 /\ queue'.count = 0 /\ queue'.cleared /\ UNCHANGED suspended
  BY ResetIs DEF Reset
<1>2. ASSUME NEW e \in EventList PROVE Covers(e)'
  <2>1. CASE e = "send"
    BY <1>1, <2>1 DEF Covers
  <2>2. CASE e = "receive"
    <3>1. Avail(e)' = 0 /\ Marked(e)' \in Nat
      BY <1>1, <2>2, AmountsNext DEF Avail
    <3>2. Avail(e)' <= Marked(e)' /\ Avail(e)' \in Int /\ Marked(e)' \in Int
      BY <3>1
    <3> QED
      BY <3>2, CoversNone
  <2> QED
    BY <2>1, <2>2, QueueAssumption
<1> QED
  BY <1>1, <1>2, NotPlacing DEF Covered

LEMMA CoveredStep ==
  ASSUME Inv, Inv', Timely, Covered, Step, UNCHANGED app
  PROVE  Covered'
BY CoveredOwn, CoveredTest, CoveredPlace, CoveredUnlocks, CoveredTick,
   CoveredIsr,
   CoveredFail, CoveredSucceed, CoveredReset DEF Step, TaskStep

LEMMA CoveredInit == Init => Covered
<1> SUFFICES ASSUME Init PROVE Covered
  OBVIOUS
<1>1. PICK order \in CreationOrders : kernel = KernelInit(order) /\ cur = FirstTask(order)
  BY DEF Init
<1>2. \A e \in EventList : ToSet(kernel.event[e]) = {}
  <2>1. ToSet(<<>>) = {}
    BY DEF ToSet
  <2> QED
    BY <1>1, <2>1, KernelInitIs DEF JustStarted
<1>3. cur \in Task /\ call = [t \in Task |-> NoCall]
  BY <1>1, FirstTaskIs DEF Init
<1> QED
  BY <1>2, <1>3 DEF Covered, Covers, At, NoCall

-----------------------------------------------------------------------------
(* The theorems.                                                           *)

(* What every reachable state satisfies.                                   *)
Correct == Inv /\ Timely /\ Covered

LEMMA CorrectStep == Correct /\ [Next]_vars => Correct'
<1>1. ASSUME Correct, Next PROVE Correct'
  BY <1>1, SoundStep, TimelyStep, CoveredStep DEF Correct, Next, Step
<1>2. ASSUME Correct, UNCHANGED vars PROVE Correct'
  <2>1. UNCHANGED <<app, queue, kernel, cur, suspended, call, got>>
    BY <1>2 DEF vars
  <2>2. Exclusive' /\ RingInv'
    BY <1>2, <2>1 DEF Correct, Inv, Exclusive, Shape, SuspensionExclusive,
       LoadedIsZero,
       InSuspension, RingInv, CallsOK
  <2>3. Sound'
    <3>1. CallsMatch' /\ LocksMatch' /\ Awake'
      BY <1>2, <2>1 DEF Correct, Inv, Sound, CallsMatch, LocksMatch, Awake, At
    <3>2. CallType' = CallType
      BY <2>1 DEF CallType
    <3> QED
      <4>1. Due' = Due
        BY <2>1 DEF Due
      <4> QED
        BY <1>2, <2>1, <3>1, <3>2, <4>1 DEF Correct, Inv, Sound
  <2>4. Timely'
    BY <1>2, <2>1 DEF Correct, Timely
  <2>5. Covered'
    BY <1>2, <2>1
       DEF Correct, Covered, Covers, Avail, Marked, Overtaken, At
  <2> QED
    BY <2>2, <2>3, <2>4, <2>5 DEF Correct, Inv
<1> QED
  BY <1>1, <1>2

LEMMA CorrectAlways == Spec => []Correct
<1>1. Init => Correct
  BY SoundInit, TimelyInit, CoveredInit DEF Correct
<1> QED
  BY <1>1, CorrectStep, PTL DEF Spec

(* The state of the queue, the kernel and the calls keeps its type: the two*)
(* ring positions agree with the count, every task is in exactly one of the*)
(* kernel's lists, none is in a list twice and the lists that are walked by*)
(* their head are sorted (tasks.c, list.c).                                *)
THEOREM QueueTypeCorrect == Spec => []TypeOK
<1>1. ASSUME Inv PROVE TypeOK
  <2>1. /\ Context /\ Sound /\ LocksMatch /\ Fit(kernel, Due)
    BY <1>1, InContext DEF Inv, Sound
  <2>2. /\ queue.readFrom \in 0..(queue.length - 1) /\ queue.writeTo \in 0..(queue.length - 1)
        /\ queue.buffer \in [0..(queue.length - 1) -> app.items \cup {NoItem}]
    BY <2>1, Fields DEF Context, IsRing
  <2>3. RingOK(queue)
    BY <2>1, <2>2 DEF Context, IsRing, Agree, RingOK
  <2>4. ListsConsistent(kernel, Task)
    <3>1. \A e \in EventList : ToSet(kernel.event[e]) \cap ToSet(kernel.pending) = {}
      BY <2>1 DEF Fit, Waits
    <3> QED
      BY <2>1, <3>1, ListsAreConsistent DEF Fit
  <2> QED
    BY <2>1, <2>2, <2>3, <2>4 DEF Context, Sound, LocksMatch, TypeOK
<1>2. Correct => TypeOK
  BY <1>1 DEF Correct
<1> QED
  BY <1>2, CorrectAlways, PTL

(* No two tasks are ever inside a suspension together and the counter is   *)
(* right, although vTaskSuspendAll increments it outside a critical        *)
(* section (tasks.c:1640), for every set of tasks, program and bound.      *)
THEOREM OneSuspensionAtATime == Spec => []SuspensionExclusive
<1>1. Correct => SuspensionExclusive
  BY DEF Correct, Inv, Exclusive
<1> QED
  BY <1>1, CorrectAlways, PTL

(* xTaskIncrementTick looks at the delayed list only when the count has    *)
(* reached xNextTaskUnblockTime and swaps the two lists when it wraps      *)
(* (tasks.c:1940): no task is left asleep past its time, whatever the      *)
(* widths of the counters.  One that xTaskCheckForTimeOut left no ticks    *)
(* after the wrap, and let wait on, sleeps until the next tick.            *)
THEOREM NobodySleepsPast == Spec => []NobodyOversleeps
<1>1. Correct => NobodyOversleeps
  BY DEF Correct, Inv, Sound, Fit, Due, NobodyOversleeps
<1> QED
  BY <1>1, CorrectAlways, PTL

(* A ready task that outranks the running one has a switch pending for it  *)
(* unless the scheduler is suspended, although no handler of this port     *)
(* makes one (queue.c:1158).                                               *)
THEOREM SwitchIsPending == Spec => []SwitchPending
<1>1. Correct => SwitchPending
  BY DEF Correct, Inv, Sound, SwitchDue, SwitchPending, Outranked
<1> QED
  BY <1>1, CorrectAlways, PTL

(* A call gives up only when the ticks it was given have come, whatever    *)
(* wrapped in the meantime and however often it had to start again: the    *)
(* signed difference of tasks.c:2621 may make it wait on, but neither says *)
(* that its time is over nor leaves it no ticks before it is.              *)
THEOREM GivesUpInTime == Spec => []NeverTooEarly
<1>1. ASSUME Correct, NEW t \in Task,
             call[t].after = "fail" \/ (call[t].set /\ call[t].ticks = 0)
      PROVE  call[t].owed = 0
  <2>1. Punctual(kernel, call[t]) /\ call[t] \in CallType
    BY <1>1 DEF Correct, Timely, Inv, Sound
  <2>2. CASE call[t].after = "fail"
    BY <2>1, <2>2 DEF Punctual
  <2>3. CASE call[t].set /\ call[t].ticks = 0
    <3>1. PICK e \in Nat : InTime(kernel, call[t], e)
      BY <2>1, <2>3 DEF Punctual
    <3>2. call[t].owed \in Nat /\ kernel.pended \in Nat
      BY <1>1, <2>1, CallParts, FitFacts, Constants DEF Correct, Inv, Sound
    <3> QED
      BY <2>3, <3>1, <3>2 DEF InTime
  <2> QED
    BY <1>1, <2>2, <2>3
<1>2. Correct => NeverTooEarly
  BY <1>1 DEF NeverTooEarly
<1> QED
  BY <1>2, CorrectAlways, PTL

(* A list that is not empty, without a mark on its lock.                   *)
LEMMA WokenEnough ==
  ASSUME Inv, Covered, NEW e \in EventList, kernel.event[e] # <<>>,
         e = "send" => ~queue.cleared, Marked(e) = 0
  PROVE  Avail(e) <= Cardinality(Woken(e))
<1>1. kernel.event[e] \in Seq(Task)
  BY KernelFields DEF Inv, Sound, Fit, Lists
<1>2. /\ ToSet(kernel.event[e]) # {}
      /\ \A t \in Task : Contains(kernel.event[e], t) <=> t \in ToSet(kernel.event[e])
  BY <1>1, ToSetIs
<1>3. Avail(e) <= Cardinality(Overtaken(e)) + Marked(e)
  BY <1>2 DEF Covered, Covers
<1>4. Overtaken(e) \subseteq Woken(e) /\ Woken(e) \subseteq Task
  BY <1>2 DEF Overtaken, Woken, Blocks
<1>5. /\ Cardinality(Overtaken(e)) \in Nat /\ Cardinality(Woken(e)) \in Nat
      /\ Cardinality(Overtaken(e)) <= Cardinality(Woken(e))
  <2>1. IsFiniteSet(Woken(e))
    BY <1>4, KernelAssumption, FS_Subset
  <2> QED
    BY <1>4, <2>1, FS_Subset, FS_CardinalityType
<1>6. Avail(e) \in Nat
  BY Amounts
<1> QED
  BY <1>3, <1>5, <1>6

(* A task that waits for the queue while it could go on has been overtaken *)
(* by as many woken tasks as there are items or free slots: no item that   *)
(* handlers or tasks move while it is on its way to the event list goes by *)
(* without waking someone (queue.c:1935).                                  *)
THEOREM NoWakeupIsLost == Spec => []NoLostWakeup
<1>1. ASSUME Inv, Covered PROVE NoLostWakeup
  <2>0. "send" \in EventList /\ "receive" \in EventList
    BY QueueAssumption
  <2>1. ASSUME queue.txLock = UNLOCKED, kernel.event["receive"] # <<>>
        PROVE  queue.count <= Cardinality(Woken("receive"))
    <3>1. Marked("receive") = 0
      BY <2>1 DEF Marked
    <3>2. Avail("receive") <= Cardinality(Woken("receive"))
      BY <1>1, <2>0, <2>1, <3>1, WokenEnough
    <3> QED
      BY <3>2 DEF Avail
  <2>2. ASSUME queue.rxLock = UNLOCKED, kernel.event["send"] # <<>>, ~queue.cleared
        PROVE  queue.length - queue.count <= Cardinality(Woken("send"))
    <3>1. Marked("send") = 0
      BY <2>2 DEF Marked
    <3>2. Avail("send") <= Cardinality(Woken("send"))
      BY <1>1, <2>0, <2>2, <3>1, WokenEnough
    <3> QED
      BY <3>2 DEF Avail
  <2> QED
    BY <2>1, <2>2 DEF NoLostWakeup
<1>2. Correct => NoLostWakeup
  BY <1>1 DEF Correct
<1> QED
  BY <1>2, CorrectAlways, PTL

(* The ring with its two positions, its locks and its handlers implements  *)
(* the bounded queue of BoundedQueue (queue.c:1785), for every program,    *)
(* every length and every set of items: whatever runs between any two      *)
(* steps.                                                                  *)
THEOREM QueueKeepsPromise == Spec => KeepsPromise
<1>1. Init => Promise!QueueInit
  <2>1. SUFFICES ASSUME Init PROVE Promise!QueueInit
    OBVIOUS
  <2>2. RingInv /\ Held(queue) = <<>>
    BY <2>1, RingInit
  <2>3. Contents = Held(queue) /\ queue.length = app.length
    BY <2>2, Lengths, Mapping, Fields DEF RingInv, IsRing, Contents
  <2> QED
    BY <2>1, <2>2, <2>3, Lengths DEF Init, Promise!QueueInit
<1>2. Correct /\ [Next]_vars
      => [Promise!QueueNext]_<<app.items, queue.length, Contents, got>>
  <2>1. CASE UNCHANGED vars
    BY <2>1 DEF vars, Contents
  <2>2. ASSUME Correct, Next PROVE RingInv /\ Moves /\ UNCHANGED app
    BY <2>2, QueueMoves DEF Correct, Inv, Sound, Next, Step
  <2> QED
    BY <2>1, <2>2, MovesRefine
<1> QED
  BY <1>1, <1>2, CorrectAlways, PTL
     DEF Spec, KeepsPromise, Promise!QueueSpec, Promise!qvars
=============================================================================
