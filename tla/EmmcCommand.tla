----------------------------- MODULE EmmcCommand -----------------------------
(***************************************************************************)
(* The command engine of the eMMC/SD driver: the thread that runs          *)
(* emmc_send_serial_command, the interrupt handler ISR_EMMC, and the       *)
(* current_task structure and interrupt_already_done flag they share.  The *)
(* handler preempts the thread between any two of its steps and is not     *)
(* preempted by it; the controller of EmmcHost moves between all of them.  *)
(***************************************************************************)
EXTENDS EmmcHost

CONSTANTS
  Commands,     (* the commands the caller may issue                       *)
  Idmac,        (* the_ip_status.idmac_enabled                             *)
  MaxPoll       (* poll demands granted since power-up: 3 in the code      *)

Command == {"CMD0", "CMD3", "CMD7", "CMD8", "CMD10", "CMD13", "CMD17",
            "CMD24", "CMD55", "ACMD6", "ACMD51"}

ASSUME CommandAssumption ==
  /\ Commands \subseteq Command
  /\ Idmac \in BOOLEAN
  /\ MaxPoll \in Nat

VARIABLES
  pc,           (* where the thread is                                     *)
  cmd,          (* the command of the innermost emmc_send_serial_command   *)
  outer,        (* the ACMD whose preprocessing sends that command, if any *)
  enum_status,  (* the_card_info[slot].enum_status                         *)
  current_task, (* the fields of current_task both sides use               *)
  interrupt_already_done,
  poll_demand_count,
  isr,          (* where ISR_EMMC is; "off" when it does not run           *)
  seen,         (* retval2: the error_status the thread read               *)
  retval        (* what the last finished call returned                    *)

driverVars == <<pc, cmd, outer, enum_status, current_task,
                interrupt_already_done, poll_demand_count, isr, seen, retval>>
threadVars == <<pc, cmd, outer, enum_status, seen, retval>>
vars == <<hostVars, driverVars>>

None == "none"

(* What the postprocessing callback of a command does with an interrupt;   *)
(* "missing" is a command without an entry in the_callback_table.          *)
Callback == {"no_response", "short", "r1", "r1_r6", "r1b", "read", "write"}
PostCallback(c) ==
  CASE c = "CMD0"                        -> "no_response"
    [] c \in {"CMD8", "CMD55"}           -> "short"
    [] c \in {"CMD13", "ACMD6"}          -> "r1"
    [] c = "CMD3"                        -> "r1_r6"
    [] c = "CMD7"                        -> "r1b"
    [] c \in {"CMD17", "ACMD51"}         -> "read"
    [] c = "CMD24"                       -> "write"
    [] OTHER                             -> "missing"

R1Command   == Command \ {"CMD0", "CMD8", "CMD55"}
DataCommand == {"CMD17", "CMD24", "ACMD51"}
AppCommand  == {"ACMD6", "ACMD51"}       (* preprocessing sends CMD55      *)

Error == {"ERRRESPTIMEOUT", "ERRENDBITERR", "ERROVERREAD", "ERRDCRC", "ERRR1",
          "ERRIDMACFBE", "ERRIDMACDU", "ERRIDMACCBE"}
TaskStatus == {"ABSENT", "STARTED", "READDAT", "WRITEDAT", "COMMAND_DONE",
               "POLLD"}
Task == [cmd_status             : TaskStatus,
         error_status           : Error \union {None},
         bus_corruption_occured : BOOLEAN,
         postproc_callback      : Callback \union {None},
         idma_mode_on           : BOOLEAN]

Init ==
  /\ HostInit
  /\ pc = "idle" /\ cmd = None /\ outer = None
  /\ enum_status \in {None, "ERRCARDNOTCONN"}
  /\ current_task = [cmd_status |-> "ABSENT", error_status |-> None,
                     bus_corruption_occured |-> FALSE,
                     postproc_callback |-> None, idma_mode_on |-> FALSE]
  /\ interrupt_already_done = FALSE
  /\ poll_demand_count = 0
  /\ isr = "off" /\ seen = None /\ retval = None

-----------------------------------------------------------------------------
(* The thread.  It moves only while the handler does not run.              *)

At(here) == pc = here /\ isr = "off"

(* emmc_enumerate_the_card opens and closes the enum_status gate around    *)
(* the commands it sends.                                                  *)
SetEnumStatus ==
  /\ At("idle")
  /\ enum_status' = IF enum_status = None THEN "ERRCARDNOTCONN" ELSE None
  /\ UNCHANGED <<hostVars, pc, cmd, outer, current_task,
                 interrupt_already_done, poll_demand_count, isr, seen, retval>>

(* emmc_send_serial_command up to the disabled interrupt.  A call on a     *)
(* card that is not enumerated returns at once.  emmc_read_write_bytes     *)
(* turns the DMA mode on before it sends a data command, and nothing turns *)
(* it off again.                                                           *)
Send(c) ==
  /\ At("idle")
  /\ cmd' = c
  /\ seen' = None
  /\ IF enum_status # None
     THEN /\ retval' = enum_status
          /\ UNCHANGED <<pc, int_enable, current_task>>
     ELSE /\ retval' = None
          /\ pc' = "form"
          /\ int_enable' = FALSE
          /\ current_task' = [current_task EXCEPT
                !.idma_mode_on = @ \/ (Idmac /\ c \in DataCommand)]
  /\ UNCHANGED <<outer, enum_status, interrupt_already_done,
                 poll_demand_count, isr, behindGate>>

(* emmc_form_n_send_cmd for a command that has no callbacks.               *)
NotSupported ==
  /\ At("form")
  /\ PostCallback(cmd) = "missing"
  /\ pc' = "idle"
  /\ retval' = "ERRNOTSUPPORTED"
  /\ int_enable' = TRUE
  /\ UNCHANGED <<cmd, outer, enum_status, current_task,
                 interrupt_already_done, poll_demand_count, isr, seen,
                 behindGate>>

(* Mutant: the missing callback goes unnoticed.                            *)
PreprocessUnchecked ==
  /\ At("form")
  /\ pc' = "task"
  /\ int_enable' = FALSE
  /\ UNCHANGED <<cmd, outer, enum_status, current_task, retval, seen, isr,
                 interrupt_already_done, poll_demand_count, behindGate>>

(* The preprocessing callback: that of an application command calls        *)
(* emmc_send_serial_command itself, for the CMD55 that must come first.    *)
Preprocess ==
  /\ At("form")
  /\ PostCallback(cmd) # "missing"
  /\ IF cmd \in AppCommand
     THEN outer' = cmd /\ cmd' = "CMD55" /\ UNCHANGED pc
     ELSE pc' = "task" /\ UNCHANGED <<outer, cmd>>
  /\ int_enable' = FALSE
  /\ UNCHANGED <<enum_status, current_task, interrupt_already_done,
                 poll_demand_count, isr, seen, retval, behindGate>>

(* emmc_cmd_to_host: emmc_set_current_task_status.                         *)
SetCurrentTask ==
  /\ At("task")
  /\ pc' = "exec"
  /\ current_task' = [current_task EXCEPT
        !.cmd_status = "STARTED", !.error_status = None,
        !.bus_corruption_occured = FALSE,
        !.postproc_callback = PostCallback(cmd)]
  /\ UNCHANGED <<hostVars, cmd, outer, enum_status, interrupt_already_done,
                 poll_demand_count, isr, seen, retval>>

(* emmc_execute_command writes the command register ...                    *)
Execute ==
  /\ At("exec")
  /\ pc' = "poll"
  /\ LoadCommand
  /\ UNCHANGED <<cmd, outer, enum_status, current_task, seen, retval,
                 interrupt_already_done, poll_demand_count, isr, rintsts,
                 idsts, int_enable, resp, with_data, failed, suspended>>

(* ... polls until the controller has taken it, and the caller enables the *)
(* interrupt.                                                              *)
Polled ==
  /\ At("poll")
  /\ ~start_bit
  /\ pc' = "wait"
  /\ int_enable' = TRUE
  /\ UNCHANGED <<cmd, outer, enum_status, current_task, seen, retval,
                 interrupt_already_done, poll_demand_count, isr, behindGate>>

(* Mutant: the flag is not cleared.                                        *)
WakeKeepsFlag ==
  /\ At("wait")
  /\ interrupt_already_done
  /\ pc' = "check"
  /\ UNCHANGED <<hostVars, cmd, outer, enum_status, current_task, seen, retval,
                 interrupt_already_done, poll_demand_count, isr>>

(* plat_reenable_upon_interrupt_timeout.                                   *)
Wake ==
  /\ At("wait")
  /\ interrupt_already_done
  /\ interrupt_already_done' = FALSE
  /\ pc' = "check"
  /\ UNCHANGED <<hostVars, cmd, outer, enum_status, current_task,
                 poll_demand_count, isr, seen, retval>>

(* Mutant: after its CMD55 an application command is formed once more.     *)
ReturnReforms(value) ==
  IF outer = None
  THEN pc' = "idle" /\ retval' = value /\ UNCHANGED <<cmd, outer>>
  ELSE pc' = "form" /\ cmd' = outer /\ outer' = None /\ UNCHANGED retval

(* A call that ends gives its value to the caller; for the CMD55 of an     *)
(* application command that is its preprocessing, which ignores it.        *)
Return(value) ==
  IF outer = None
  THEN pc' = "idle" /\ retval' = value /\ UNCHANGED <<cmd, outer>>
  ELSE pc' = "task" /\ cmd' = outer /\ outer' = None /\ UNCHANGED retval

(* Mutant: the error status is not looked at.                              *)
CheckStatusBlind ==
  /\ At("check")
  /\ Return("OK")
  /\ UNCHANGED <<hostVars, enum_status, current_task, interrupt_already_done,
                 poll_demand_count, isr, seen>>

(* emmc_last_com_status ...                                                *)
CheckStatus ==
  /\ At("check")
  /\ seen' = current_task.error_status
  /\ IF current_task.error_status = None
     THEN Return("OK")
     ELSE pc' = "remove" /\ UNCHANGED <<cmd, outer, retval>>
  /\ UNCHANGED <<hostVars, enum_status, current_task, interrupt_already_done,
                 poll_demand_count, isr>>

(* ... and emmc_remove_command when it reported an error.                  *)
RemoveCommand ==
  /\ At("remove")
  /\ current_task' = [current_task EXCEPT !.cmd_status = "ABSENT"]
  /\ Return(seen)
  /\ UNCHANGED <<hostVars, enum_status, interrupt_already_done,
                 poll_demand_count, isr, seen>>

Thread ==
  \/ SetEnumStatus \/ (\E c \in Commands : Send(c))
  \/ NotSupported \/ Preprocess \/ SetCurrentTask \/ Execute
  \/ Polled \/ Wake \/ CheckStatus \/ RemoveCommand

-----------------------------------------------------------------------------
(* ISR_EMMC.  It runs with the processor's interrupts off, so the thread   *)
(* stands still until it ends; the controller does not.                    *)

IsrKept == <<pc, cmd, outer, enum_status, seen, retval, int_enable, resp>>

(* Mutant: a response timeout is no error.                                 *)
ErrorOfLenient(bits, otherwise) ==
  CASE "DCRC" \in bits -> "ERRDCRC"
    [] "FRUN" \in bits /\ "DCRC" \notin bits -> "ERROVERREAD"
    [] "EBE" \in bits /\ bits \intersect {"DCRC", "FRUN"} = {}
         -> "ERRENDBITERR"
    [] OTHER -> otherwise

(* emmc_handle_standard_rinsts: the last test that matches wins.           *)
ErrorOf(bits, otherwise) ==
  CASE "DCRC" \in bits -> "ERRDCRC"
    [] "FRUN" \in bits /\ "DCRC" \notin bits -> "ERROVERREAD"
    [] "EBE"  \in bits /\ bits \intersect {"DCRC", "FRUN"} = {}
         -> "ERRENDBITERR"
    [] "RTO"  \in bits /\ bits \intersect DataError = {} -> "ERRRESPTIMEOUT"
    [] OTHER -> otherwise

StandardRinsts(task, bits) ==
  [task EXCEPT !.cmd_status   = IF "CMD_DONE" \in bits THEN "COMMAND_DONE"
                                                       ELSE @,
               !.error_status = ErrorOf(bits, @)]

(* emmc_check_r1_resp on the response register, with the detail of which   *)
(* of the card-status bits is set left out.                                *)
R1Error == IF resp = "bad" THEN "ERRR1" ELSE None

R1Response(task, bits) ==
  LET t == StandardRinsts(task, bits)
  IN  IF t.error_status # None THEN t
                               ELSE [t EXCEPT !.error_status = R1Error]

(* Some errors of a data command are kept for emmc_bus_corruption_present  *)
(* instead of being reported.                                              *)
AsCorruption(task, masked) ==
  IF task.error_status \in masked
  THEN [task EXCEPT !.bus_corruption_occured = TRUE, !.error_status = None]
  ELSE task

(* The part of a postprocessing callback that works on the value of        *)
(* RINTSTS read first.                                                     *)
PostProcess(task, bits) ==
  LET callback == task.postproc_callback
      standard == StandardRinsts(task, bits)
      r1       == R1Response(task, bits)
      read     == AsCorruption(r1, {"ERRDCRC"})
  IN CASE callback = "short"          -> standard
       [] callback \in {"r1", "r1b"}  -> r1
       [] callback = "no_response"    ->
            IF standard.error_status = None THEN standard
            ELSE [standard EXCEPT !.cmd_status = "ABSENT"]
       [] callback = "r1_r6"          ->
            [AsCorruption(standard, Error) EXCEPT !.error_status = R1Error]
       [] callback = "write"          -> AsCorruption(r1, {"ERRENDBITERR"})
       [] callback = "read"           ->
            IF read.error_status = None /\ read.cmd_status # "POLLD"
            THEN [read EXCEPT !.cmd_status = "READDAT"] ELSE read
       [] OTHER                       -> task

(* An interrupt nobody waits for is thrown away.                           *)
IsrDiscard ==
  /\ isr = "off" /\ Interrupt
  /\ current_task.cmd_status = "ABSENT"
  /\ rintsts' = {} /\ idsts' = {}
  /\ UNCHANGED <<IsrKept, lines, answer, moved, current_task, isr,
                 interrupt_already_done, poll_demand_count>>

IsrPostProcess ==
  /\ isr = "off" /\ Interrupt
  /\ current_task.cmd_status # "ABSENT"
  /\ current_task' = PostProcess(current_task, rintsts)
  /\ isr' = CASE current_task.postproc_callback \in {"read", "write"} -> "data"
              [] current_task.postproc_callback = "r1b"               -> "busy"
              [] OTHER                                                -> "tail"
  /\ UNCHANGED <<IsrKept, lines, answer, moved, rintsts, idsts,
                 interrupt_already_done, poll_demand_count>>

(* r1b_response_postproc waits inside the handler for the card to release  *)
(* the data line.                                                          *)
IsrBusy ==
  /\ isr = "busy"
  /\ isr' = "tail"
  /\ UNCHANGED <<IsrKept, lines, answer, moved, rintsts, idsts, current_task,
                 interrupt_already_done, poll_demand_count>>

(* The part of a data callback that reads the interrupt registers again.   *)
(* In DMA mode it takes any interrupt for the end of the transfer.         *)
DmaCallback(task) ==
  IF task.cmd_status = "POLLD"
  THEN [task EXCEPT !.error_status = None, !.cmd_status = "STARTED"]
  ELSE [task EXCEPT !.cmd_status = "COMMAND_DONE"]

(* Mutant: the first interrupt of a read in slave mode ends it.            *)
IsrReadDataAtOnce ==
  /\ isr = "data" /\ current_task.postproc_callback = "read"
  /\ isr' = "tail"
  /\ current_task' = [current_task EXCEPT !.cmd_status = "COMMAND_DONE"]
  /\ UNCHANGED <<IsrKept, lines, answer, moved, rintsts, idsts,
                 interrupt_already_done, poll_demand_count>>

IsrReadData ==
  /\ isr = "data" /\ current_task.postproc_callback = "read"
  /\ isr' = "tail"
  /\ LET task == current_task
     IN IF task.idma_mode_on
        THEN /\ current_task' = DmaCallback(task)
             /\ idsts' = IF "NI" \in idsts THEN {} ELSE idsts
        ELSE /\ current_task' =
                  IF /\ task.cmd_status = "READDAT"
                     /\ "DAT_OVER" \in rintsts
                     /\ task.error_status = None
                  THEN [task EXCEPT !.cmd_status = "COMMAND_DONE"] ELSE task
             /\ UNCHANGED idsts
  /\ UNCHANGED <<IsrKept, lines, answer, moved, rintsts,
                 interrupt_already_done, poll_demand_count>>

IsrWriteData ==
  /\ isr = "data" /\ current_task.postproc_callback = "write"
  /\ isr' = "tail"
  /\ LET task == current_task
     IN CASE task.error_status # None -> UNCHANGED <<current_task, idsts>>
          [] task.error_status = None /\ task.idma_mode_on ->
               /\ current_task' = DmaCallback(task)
               /\ idsts' = idsts \ {"NI"}
          [] OTHER ->
               /\ current_task' = [task EXCEPT !.cmd_status =
                    IF "DAT_OVER" \in rintsts THEN "COMMAND_DONE"
                                              ELSE "WRITEDAT"]
               /\ UNCHANGED idsts
  /\ UNCHANGED <<IsrKept, lines, answer, moved, rintsts,
                 interrupt_already_done, poll_demand_count>>

(* Mutants: only an error wakes the thread; only a finished command does.  *)
ConcludeOnError(task) ==
  /\ interrupt_already_done' =
       (interrupt_already_done \/ task.error_status # None)
  /\ current_task' = IF task.cmd_status = "COMMAND_DONE"
                     THEN [task EXCEPT !.cmd_status = "ABSENT"] ELSE task
  /\ rintsts' = {} /\ isr' = "off"
ConcludeOnDone(task) ==
  LET finished == task.cmd_status = "COMMAND_DONE"
  IN /\ interrupt_already_done' = (interrupt_already_done \/ finished)
     /\ current_task' = IF finished
                        THEN [task EXCEPT !.cmd_status = "ABSENT"] ELSE task
     /\ rintsts' = {} /\ isr' = "off"

(* The end of ISR_EMMC: an error or a finished command wakes the thread, a *)
(* finished command is taken off, and every bit of RINTSTS is cleared,     *)
(* those raised since the handler last looked at it included.              *)
Conclude(task) ==
  LET finished == task.cmd_status = "COMMAND_DONE"
  IN /\ interrupt_already_done' =
          (interrupt_already_done \/ finished \/ task.error_status # None)
     /\ current_task' = IF finished
                        THEN [task EXCEPT !.cmd_status = "ABSENT"] ELSE task
     /\ rintsts' = {}
     /\ isr' = "off"

Unavailable == current_task.idma_mode_on /\ "DU" \in idsts

(* emmc_handle_standard_idsts without a missing descriptor.  Clearing one  *)
(* bit of IDSTS by read-modify-write clears all of them.                   *)
IsrEnd ==
  /\ isr = "tail" /\ ~Unavailable
  /\ LET task == current_task
         bad  == task.idma_mode_on /\ idsts \intersect {"FBE", "CES"} # {}
         code == IF "CES" \in idsts THEN "ERRIDMACCBE" ELSE "ERRIDMACFBE"
         t    == IF bad THEN [task EXCEPT !.error_status = code] ELSE task
     IN /\ Conclude(t)
        /\ idsts' = IF \/ bad
                       \/ t.error_status # None /\ t.cmd_status = "COMMAND_DONE"
                    THEN {} ELSE idsts
  /\ UNCHANGED <<IsrKept, lines, answer, moved, poll_demand_count>>

(* A missing descriptor: the DMA is told to look again ...                 *)
CesAfter(task) == IF "CES" \in idsts
                  THEN [task EXCEPT !.error_status = "ERRIDMACCBE"] ELSE task
IsrPollDemand ==
  /\ isr = "tail" /\ Unavailable
  /\ poll_demand_count < MaxPoll
  /\ poll_demand_count' = poll_demand_count + 1
  /\ Conclude(CesAfter([current_task EXCEPT !.error_status = None,
                                            !.cmd_status = "POLLD"]))
  /\ idsts' = {} /\ suspended' = FALSE
  /\ UNCHANGED <<IsrKept, start_bit, cmd_path, with_data, failed, data_path,
                 answer, moved>>

(* ... or, the poll demands being used up, the controller is reset.        *)
IsrDmaReset ==
  /\ isr = "tail" /\ Unavailable
  /\ poll_demand_count >= MaxPoll
  /\ Conclude(CesAfter([current_task EXCEPT !.error_status = "ERRIDMACDU",
                                            !.cmd_status = "STARTED"]))
  /\ idsts' = {} /\ suspended' = FALSE
  /\ start_bit' = FALSE /\ failed' = FALSE
  /\ cmd_path' = "idle" /\ data_path' = "idle"
  /\ UNCHANGED <<IsrKept, with_data, poll_demand_count, answer, moved>>

Handler ==
  \/ IsrDiscard \/ IsrPostProcess \/ IsrBusy \/ IsrReadData \/ IsrWriteData
  \/ IsrEnd \/ IsrPollDemand \/ IsrDmaReset

-----------------------------------------------------------------------------
Quiet == isr = "off"
Dma   == current_task.idma_mode_on

Controller ==
  /\ \/ Accept(cmd \in DataCommand)
     \/ RaiseResponseError(Quiet)
     \/ \E o \in {"clean", "bad", "timeout"} : EndCommand(Quiet, o, cmd \in R1Command)
     \/ RequestData(Quiet, Dma)
     \/ \E e \in DataError : RaiseDataError(Quiet, e)
     \/ \E es \in {{}} \union {{e} : e \in DataError} : EndData(Quiet, Dma, es)
     \/ BusError(Quiet, Dma)
     \/ DescriptorUnavailable(Quiet, Dma)
  /\ UNCHANGED driverVars

Next == Thread \/ Handler \/ Controller

Spec == Init /\ [][Next]_vars

(* The processor executes: neither the thread nor the handler is left      *)
(* standing at an enabled step, but the caller need not call.              *)
CallSteps == NotSupported \/ Preprocess \/ SetCurrentTask \/ Execute \/ Polled
             \/ Wake \/ CheckStatus \/ RemoveCommand
ProcessorFairness == WF_vars(CallSteps) /\ WF_vars(Handler)

(* The controller takes a command it can take, answers it, and ends a      *)
(* transfer.                                                               *)
Takes   == Accept(cmd \in DataCommand) /\ UNCHANGED driverVars
Answers == (\E o \in {"clean", "bad", "timeout"} : EndCommand(Quiet, o, cmd \in R1Command))
           /\ UNCHANGED driverVars
Moves   == (\E es \in {{}} \union {{e} : e \in DataError} :
              EndData(Quiet, Dma, es)) /\ UNCHANGED driverVars
ControllerFairness == WF_vars(Takes) /\ SF_vars(Answers) /\ SF_vars(Moves)

FairSpec == Spec /\ ProcessorFairness /\ ControllerFairness

-----------------------------------------------------------------------------
TypeOK ==
  /\ HostTypeOK
  /\ pc \in {"idle", "form", "task", "exec", "poll", "wait", "check", "remove"}
  /\ isr \in {"off", "data", "busy", "tail"}
  /\ cmd \in Commands \union {"CMD55", None}
  /\ outer \in (AppCommand \intersect Commands) \union {None}
  /\ pc = "task" => PostCallback(cmd) # "missing"
  /\ enum_status \in {None, "ERRCARDNOTCONN"}
  /\ current_task \in Task
  /\ interrupt_already_done \in BOOLEAN
  /\ poll_demand_count \in 0..MaxPoll
  /\ seen \in Error \union {None}
  /\ retval \in Error \union {None, "OK", "ERRCARDNOTCONN", "ERRNOTSUPPORTED"}

(* A call of emmc_send_serial_command that returned success had its own    *)
(* command answered: it was not woken by an interrupt of another one.      *)
(* CMD3 hides a missing answer behind the bus-corruption flag.             *)
SuccessMeansAnswered ==
  retval = "OK" => \/ answer = "ok"
                   \/ current_task.bus_corruption_occured

(* A data command that returned success moved its data, or says that the   *)
(* bus corrupted it.                                                       *)
SuccessMeansMoved ==
  retval = "OK" /\ cmd \in DataCommand =>
    \/ moved = "ok"
    \/ current_task.bus_corruption_occured

(* No wake-up is left over when a command is about to be sent: a stale     *)
(* interrupt_already_done would end the next wait at once.                 *)
NoStaleWakeup ==
  pc \in {"idle", "form", "task", "exec"} => ~interrupt_already_done

(* Once a call has returned the handler has no command to attribute an     *)
(* interrupt to: it discards what still arrives.                           *)
NothingInFlightWhenIdle == pc = "idle" => current_task.cmd_status = "ABSENT"

(* "Now this thread gets blocked till we receive an interrupt or timeouts" *)
WaitEnds == (pc = "wait") ~> (pc # "wait")

(* A wait ends only after the command it waits for was answered.          *)
WakeNeedsAnswer ==
  [][pc = "wait" /\ pc' = "check" => answer # "none"]_vars

(* A task that is over has woken its thread, or is about to: whatever the  *)
(* handler saw last, a thread that has not yet passed its wait finds       *)
(* interrupt_already_done set.                                             *)
Over == current_task.cmd_status = "ABSENT" \/ current_task.error_status # None
NoLostWakeup ==
  pc \in {"exec", "poll", "wait"} /\ isr = "off" /\ Over
    => interrupt_already_done

(* Every call returns.                                                     *)
CallReturns == (pc # "idle") ~> (pc = "idle")

-----------------------------------------------------------------------------
(* The caller's view.  A data command is settled when its data has moved   *)
(* too, and between the reset of the controller's history by the next      *)
(* command and that command's answer nothing is known.                     *)
Known ==
  CASE pc \in {"form", "task", "exec"} -> None
    [] pc = "idle" /\ retval \in {None, "ERRNOTSUPPORTED", "ERRCARDNOTCONN"}
         -> None
    [] OTHER ->
         CASE answer = "err" \/ moved = "err" ->
                IF current_task.bus_corruption_occured THEN "doubt" ELSE "err"
           [] answer # "err" /\ moved = "none" /\ cmd \in DataCommand -> None
           [] OTHER -> answer

Service == INSTANCE CommandService WITH
  Failure <- Error,
  Refusal <- {"ERRCARDNOTCONN", "ERRNOTSUPPORTED"},
  call    <- IF pc = "idle" THEN "free" ELSE "open",
  verdict <- Known,
  result  <- retval

(* The driver implements CommandService: at most one command is open, and  *)
(* what its call returns agrees with what the card did.                    *)
ServiceRefined == Service!Spec
=============================================================================
