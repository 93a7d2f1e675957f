-------------------------- MODULE MCFreeRtosDelay ---------------------------
EXTENDS FreeRtosDelay

MCTask     == {"high", "low", "idle"}
MCPriority == [high |-> 2, low |-> 1, idle |-> 0]

Ask(task, op, ticks) == [task |-> task, op |-> op, ticks |-> ticks]
AskTo(task, op, to)  == [task |-> task, op |-> op, to |-> to]

(* A periodic task over one that delays itself and holds the scheduler.    *)
Periods ==
  [asks |-> {Ask("high", "until", 2), Ask("low", "delay", 1),
             Ask("low", "delay", 3), Ask("low", "suspend", 0)},
   given |-> {}]

(* The task of lower priority is the periodic one, and is held up.         *)
HeldUp ==
  [asks |-> {Ask("low", "until", 1), Ask("low", "until", 3),
             Ask("high", "delay", 2), Ask("high", "delay", 0)},
   given |-> {}]

(* Notifications from tasks and handlers, with and without a time limit.   *)
Notifications ==
  [asks |-> {Ask("high", "take", 3), Ask("high", "takeAll", 2),
             Ask("low", "take", 0), Ask("low", "suspend", 0),
             AskTo("low", "give", "high"), AskTo("high", "give", "low")},
   given |-> {"high", "low"}]

(* Tasks that delete each other and themselves, asleep or awake.           *)
Deletions ==
  [asks |-> {Ask("high", "delay", 2), Ask("low", "delay", 1),
             AskTo("low", "delete", "high"), AskTo("low", "delete", "low"),
             AskTo("high", "delete", "low"), AskTo("high", "delete", "high"),
             Ask("high", "take", 1)},
   given |-> {"high"}]

(* A task whose period runs on through its other calls.                    *)
Mixed ==
  [asks |-> {Ask("high", "until", 3), Ask("high", "delay", 1),
             Ask("high", "take", 2), Ask("low", "suspend", 0)},
   given |-> {"high"}]

MCApplications == {Periods, HeldUp, Notifications, Deletions, Mixed}

NotifiedOnly == {Notifications}

(* One task waits without suspending anything, the other suspends.         *)
HoldsLong ==
  {[asks |-> {Ask("high", "take", 3), Ask("low", "suspend", 0)},
    given |-> {}]}

(* Two tasks of the same priority, one of which may never call the kernel. *)
Equals == [high |-> 1, low |-> 1, idle |-> 0]

Sharing ==
  {[asks |-> {Ask("high", "delay", 2), Ask("low", "suspend", 0)},
    given |-> {}],
   [asks |-> {Ask("high", "until", 2), Ask("low", "delay", 1),
              AskTo("low", "delete", "low")}, given |-> {}]}
=============================================================================
