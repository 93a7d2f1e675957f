-------------------------- MODULE MCFreeRtosQueue ---------------------------
EXTENDS FreeRtosQueue

MCTask      == {"high", "low", "idle"}
MCPriority  == [high |-> 2, low |-> 1, idle |-> 0]
MCEventList == {"send", "receive"}

Ask(task, op, ticks) == [task |-> task, op |-> op, ticks |-> ticks]

(* Two readers wait side by side for what handlers send; one only looks.   *)
Readers(length) ==
  [length |-> length, items |-> {"a"}, isr |-> {"back"},
   asks |-> {Ask("high", "peek", 1), Ask("low", "receive", 1)}]

(* Two senders wait for room.                                              *)
Senders(length) ==
  [length |-> length, items |-> {"a"}, isr |-> {"receive"},
   asks |-> {Ask("high", "back", 1), Ask("low", "back", 1)}]

(* One task that waits up to the longest time; a mailbox handlers write.   *)
Patient ==
  [length |-> 1, items |-> {"a"}, isr |-> {"overwrite", "receive"},
   asks |-> {Ask("high", "receive", 2), Ask("high", "back", 2),
             Ask("low", "back", 0), Ask("low", "receive", 0)}]

(* A queue that is reset whenever, under tasks that wait for room or not.  *)
Cleared ==
  [length |-> 2, items |-> {"a"}, isr |-> {"back"},
   asks |-> {Ask("high", "back", 1), Ask("low", "reset", 0),
             Ask("low", "receive", 0)}]

(* Items that differ, sent and read from both ends; only one task ever     *)
(* runs, as it never waits.                                                *)
Stream ==
  [length |-> 2, items |-> {"a", "b"}, isr |-> {"back", "receive"},
   asks |-> {Ask("high", op, 0) : op \in {"front", "back", "receive", "peek"}}]

MCApplications == {Readers(1), Senders(1), Patient, Cleared, Stream}
=============================================================================
