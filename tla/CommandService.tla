--------------------------- MODULE CommandService ---------------------------
(***************************************************************************)
(* What emmc_send_serial_command promises its caller, without interrupts,  *)
(* registers or callbacks: one command at a time, which the card accepts   *)
(* or does not, and a result that agrees with what the card did.           *)
(***************************************************************************)

CONSTANTS
  Failure,      (* the results that report a failed command                *)
  Refusal       (* the results of a command that was never sent            *)

VARIABLES
  call,         (* is a call in progress?                                  *)
  verdict,      (* what became of its command on the card's side; "doubt"  *)
                (* is a failure the caller is told of by the                *)
                (* bus-corruption flag                                      *)
  result        (* what the last finished call returned                    *)

serviceVars == <<call, verdict, result>>

Pending == "none"

Init == call = "free" /\ verdict = Pending /\ result = Pending

(* A call on a card that is not enumerated.                                *)
Refuse ==
  /\ call = "free"
  /\ verdict' = Pending
  /\ result' \in Refusal
  /\ UNCHANGED call

Open ==
  /\ call = "free"
  /\ call' = "open"
  /\ verdict' = Pending
  /\ result' = Pending

(* The card's side of the command becomes known ...                        *)
Settle ==
  /\ call = "open"
  /\ verdict = Pending
  /\ verdict' \in {"ok", "err"}
  /\ UNCHANGED <<call, result>>

(* ... and a failure may be moved to the bus-corruption flag.              *)
Doubt ==
  /\ call = "open"
  /\ verdict = "err"
  /\ verdict' = "doubt"
  /\ UNCHANGED <<call, result>>

(* The CMD55 of an application command is over, whatever became of it.     *)
PrefixDone ==
  /\ call = "open"
  /\ verdict' = Pending
  /\ UNCHANGED <<call, result>>

(* The call returns; what it returns agrees with the verdict.              *)
Close ==
  /\ call = "open"
  /\ call' = "free"
  /\ \/ verdict \in {"ok", "doubt"}  /\ result' = "OK"
     \/ verdict \in {"err", "doubt"} /\ result' \in Failure
     \/ verdict = Pending            /\ result' \in Refusal
  /\ UNCHANGED verdict

Next == Refuse \/ Open \/ Settle \/ Doubt \/ PrefixDone \/ Close

Spec == Init /\ [][Next]_serviceVars
=============================================================================
