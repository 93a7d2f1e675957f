---------------------------- MODULE BoundedQueue ----------------------------
(***************************************************************************)
(* What a queue of the kernel promises to those who use it: items come out *)
(* in the order they were queued, those sent to the front first, each once *)
(* and unchanged; never more than length of them are held.                 *)
(***************************************************************************)
EXTENDS Naturals, Sequences

CONSTANT NoItem

VARIABLES
  items,       (* what may be queued                                       *)
  length,
  contents,
  got         (* the item handed out last, to whomever                     *)

qvars == <<items, length, contents, got>>

QueueInit ==
  /\ NoItem \notin items /\ length \in Nat \ {0}
  /\ contents = <<>> /\ got = NoItem

HasRoom == Len(contents) < length

SendToBack(i)  == HasRoom /\ contents' = Append(contents, i) /\ UNCHANGED got
SendToFront(i) == HasRoom /\ contents' = <<i>> \o contents /\ UNCHANGED got
Overwrite(i)   == length = 1 /\ contents' = <<i>> /\ UNCHANGED got
Peek           == contents # <<>> /\ got' = Head(contents) /\ UNCHANGED contents
Receive        == contents # <<>> /\ got' = Head(contents)
                  /\ contents' = Tail(contents)
Clear          == contents' = <<>> /\ UNCHANGED got

QueueNext ==
  /\ \/ \E i \in items : SendToBack(i) \/ SendToFront(i) \/ Overwrite(i)
     \/ Peek \/ Receive \/ Clear
  /\ UNCHANGED <<items, length>>

QueueSpec == QueueInit /\ [][QueueNext]_qvars
=============================================================================
