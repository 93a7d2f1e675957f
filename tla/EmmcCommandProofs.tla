------------------------- MODULE EmmcCommandProofs -------------------------
(***************************************************************************)
(* Theorems about EmmcCommand for every set of commands.  The first two    *)
(* hold with and without the DMA and whatever the controller may do; those *)
(* after Orderly assume it of the controller and the driver, and the two   *)
(* about moved data and about CommandService assume Punctual as well.      *)
(***************************************************************************)
EXTENDS EmmcCommand, TLAPS

-----------------------------------------------------------------------------
(* The operators the handler is built from stay within Task.               *)

LEMMA ErrorOfType ==
  ASSUME NEW bits, NEW e \in Error \union {None}
  PROVE  ErrorOf(bits, e) \in Error \union {None}
  BY DEF ErrorOf, Error

LEMMA StandardRinstsType ==
  ASSUME NEW t \in Task, NEW bits
  PROVE  StandardRinsts(t, bits) \in Task
<1>1. ErrorOf(bits, t.error_status) \in Error \union {None}
  BY ErrorOfType DEF Task
<1> QED
  BY <1>1 DEF StandardRinsts, Task, TaskStatus

LEMMA R1ResponseType ==
  ASSUME NEW t \in Task, NEW bits
  PROVE  R1Response(t, bits) \in Task
<1>1. StandardRinsts(t, bits) \in Task
  BY StandardRinstsType
<1>2. R1Error \in Error \union {None}
  BY DEF R1Error, Error
<1> QED
  BY <1>1, <1>2 DEF R1Response, Task

LEMMA AsCorruptionType ==
  ASSUME NEW t \in Task, NEW masked
  PROVE  AsCorruption(t, masked) \in Task
  BY DEF AsCorruption, Task

LEMMA PostProcessType ==
  ASSUME NEW t \in Task, NEW bits
  PROVE  PostProcess(t, bits) \in Task
<1> DEFINE standard == StandardRinsts(t, bits)
           r1       == R1Response(t, bits)
           read     == AsCorruption(r1, {"ERRDCRC"})
<1>1. standard \in Task /\ r1 \in Task
  BY StandardRinstsType, R1ResponseType
<1>2. read \in Task
  BY <1>1, AsCorruptionType
<1>3. AsCorruption(r1, {"ERRENDBITERR"}) \in Task
  BY <1>1, AsCorruptionType
<1>4. [AsCorruption(standard, Error) EXCEPT !.error_status = R1Error] \in Task
  <2>1. AsCorruption(standard, Error) \in Task
    BY <1>1, AsCorruptionType
  <2> QED
    BY <2>1 DEF R1Error, Task, Error
<1>5. [standard EXCEPT !.cmd_status = "ABSENT"] \in Task
  BY <1>1 DEF Task, TaskStatus
<1>6. [read EXCEPT !.cmd_status = "READDAT"] \in Task
  BY <1>2 DEF Task, TaskStatus
<1> HIDE DEF standard, r1, read
<1> QED
  BY <1>1, <1>2, <1>3, <1>4, <1>5, <1>6 DEF PostProcess, standard, r1, read

LEMMA DmaCallbackType ==
  ASSUME NEW t \in Task
  PROVE  DmaCallback(t) \in Task
  BY DEF DmaCallback, Task, TaskStatus

LEMMA CesAfterType ==
  ASSUME NEW t \in Task
  PROVE  CesAfter(t) \in Task
  BY DEF CesAfter, Task, Error

LEMMA ConcludeType ==
  ASSUME NEW t \in Task, Conclude(t), interrupt_already_done \in BOOLEAN
  PROVE  /\ current_task' \in Task
         /\ interrupt_already_done' \in BOOLEAN
         /\ rintsts' = {}
         /\ isr' = "off"
  BY DEF Conclude, Task, TaskStatus

-----------------------------------------------------------------------------
(* Type correctness.  The next-state relation is taken apart into the      *)
(* thread, the handler and the controller.                                 *)

LEMMA ReturnType ==
  ASSUME TypeOK, NEW value \in Error \union {None, "OK"}, Return(value)
  PROVE  /\ pc' \in {"idle", "task"}
         /\ cmd' \in Commands \union {"CMD55", None}
         /\ outer' \in (AppCommand \intersect Commands) \union {None}
         /\ pc' = "task" => PostCallback(cmd') # "missing"
         /\ retval' \in Error \union {None, "OK", "ERRCARDNOTCONN",
                                     "ERRNOTSUPPORTED"}
<1>1. \A c \in AppCommand : PostCallback(c) # "missing"
  BY DEF AppCommand, PostCallback
<1>2. CASE outer = None
  BY <1>2 DEF TypeOK, Return
<1>3. CASE outer # None
  BY <1>1, <1>3 DEF TypeOK, Return
<1> QED
  BY <1>2, <1>3

LEMMA ThreadType ==
  ASSUME TypeOK, Thread
  PROVE  TypeOK'
<1> USE DEF TypeOK
<1>1. CASE SetEnumStatus
  <2>1. HostTypeOK'
    BY <1>1 DEF SetEnumStatus, hostVars, HostTypeOK
  <2> QED
    BY <1>1, <2>1 DEF SetEnumStatus
<1>2. ASSUME NEW c \in Commands, Send(c)  PROVE TypeOK'
  <2>1. HostTypeOK'
    BY <1>2 DEF Send, behindGate, HostTypeOK
  <2>2. [current_task EXCEPT
           !.idma_mode_on = @ \/ (Idmac /\ c \in DataCommand)] \in Task
    BY DEF Task
  <2>3. current_task' \in Task
    BY <1>2, <2>2 DEF Send
  <2>4. /\ pc' \in {"idle", "form"}
        /\ retval' \in Error \union {None, "OK", "ERRCARDNOTCONN",
                                     "ERRNOTSUPPORTED"}
    BY <1>2 DEF Send, At
  <2> QED
    BY <1>2, <2>1, <2>3, <2>4 DEF Send
<1>3. CASE NotSupported
  <2>1. HostTypeOK'
    BY <1>3 DEF NotSupported, behindGate, HostTypeOK
  <2> QED
    BY <1>3, <2>1 DEF NotSupported
<1>4. CASE Preprocess
  <2>1. HostTypeOK'
    BY <1>4 DEF Preprocess, behindGate, HostTypeOK
  <2> QED
    BY <1>4, <2>1 DEF Preprocess, At, AppCommand
<1>5. CASE SetCurrentTask
  <2>1. HostTypeOK'
    BY <1>5 DEF SetCurrentTask, hostVars, HostTypeOK
  <2>2. PostCallback(cmd) \in Callback \union {None}
    BY <1>5 DEF SetCurrentTask, At, PostCallback, Callback
  <2>3. current_task' \in Task
    BY <1>5, <2>2 DEF SetCurrentTask, Task, TaskStatus
  <2> QED
    BY <1>5, <2>1, <2>3 DEF SetCurrentTask
<1>6. CASE Execute
  <2>1. HostTypeOK'
    BY <1>6 DEF Execute, LoadCommand, Disown, Owner, Verdict, HostTypeOK
  <2> QED
    BY <1>6, <2>1 DEF Execute
<1>7. CASE Polled
  <2>1. HostTypeOK'
    BY <1>7 DEF Polled, behindGate, HostTypeOK
  <2> QED
    BY <1>7, <2>1 DEF Polled
<1>8. CASE Wake
  <2>1. HostTypeOK'
    BY <1>8 DEF Wake, hostVars, HostTypeOK
  <2> QED
    BY <1>8, <2>1 DEF Wake
<1>9. CASE CheckStatus
  <2>1. HostTypeOK'
    BY <1>9 DEF CheckStatus, hostVars, HostTypeOK
  <2>2. current_task.error_status \in Error \union {None}
    BY DEF Task
  <2> QED
    BY <1>9, <2>1, <2>2, ReturnType DEF CheckStatus
<1>10. CASE RemoveCommand
  <2>1. HostTypeOK'
    BY <1>10 DEF RemoveCommand, hostVars, HostTypeOK
  <2>2. [current_task EXCEPT !.cmd_status = "ABSENT"] \in Task
    BY DEF Task, TaskStatus
  <2> QED
    BY <1>10, <2>1, <2>2, ReturnType DEF RemoveCommand
<1> QED
  BY <1>1, <1>2, <1>3, <1>4, <1>5, <1>6, <1>7, <1>8, <1>9, <1>10 DEF Thread

LEMMA HandlerType ==
  ASSUME TypeOK, Handler
  PROVE  TypeOK'
<1> USE DEF TypeOK, HostTypeOK
<1>1. CASE IsrDiscard
  BY <1>1 DEF IsrDiscard, IsrKept, lines
<1>2. CASE IsrPostProcess
  <2>1. current_task' \in Task
    BY <1>2, PostProcessType DEF IsrPostProcess
  <2>2. isr' \in {"off", "data", "busy", "tail"}
    BY <1>2 DEF IsrPostProcess
  <2> QED
    BY <1>2, <2>1, <2>2 DEF IsrPostProcess, IsrKept, lines
<1>3. CASE IsrBusy
  BY <1>3 DEF IsrBusy, IsrKept, lines
<1>4. CASE IsrReadData
  <2>1. DmaCallback(current_task) \in Task
    BY DmaCallbackType
  <2>2. [current_task EXCEPT !.cmd_status = "COMMAND_DONE"] \in Task
    BY DEF Task, TaskStatus
  <2>3. current_task' \in Task /\ idsts' \subseteq DmaBit
    BY <1>4, <2>1, <2>2 DEF IsrReadData
  <2> QED
    BY <1>4, <2>3 DEF IsrReadData, IsrKept, lines
<1>5. CASE IsrWriteData
  <2>1. DmaCallback(current_task) \in Task
    BY DmaCallbackType
  <2>2. [current_task EXCEPT !.cmd_status =
           IF "DAT_OVER" \in rintsts THEN "COMMAND_DONE" ELSE "WRITEDAT"]
        \in Task
    BY DEF Task, TaskStatus
  <2>3. current_task' \in Task /\ idsts' \subseteq DmaBit
    BY <1>5, <2>1, <2>2 DEF IsrWriteData
  <2> QED
    BY <1>5, <2>3 DEF IsrWriteData, IsrKept, lines
<1>6. CASE IsrEnd
  <2>1. PICK t \in Task :
          Conclude(t) /\ idsts' \in {{}, idsts}
    <3> DEFINE bad  == current_task.idma_mode_on
                       /\ idsts \intersect {"FBE", "CES"} # {}
               code == IF "CES" \in idsts THEN "ERRIDMACCBE"
                                          ELSE "ERRIDMACFBE"
               t    == IF bad THEN [current_task EXCEPT !.error_status = code]
                              ELSE current_task
    <3>1. t \in Task
      BY DEF Task, Error
    <3>2. Conclude(t) /\ idsts' \in {{}, idsts}
      BY <1>6 DEF IsrEnd
    <3> QED
      BY <3>1, <3>2
  <2>2. /\ current_task' \in Task /\ interrupt_already_done' \in BOOLEAN
        /\ rintsts' = {} /\ isr' = "off"
    BY <2>1, ConcludeType
  <2>3. HostTypeOK'
    BY <1>6, <2>1, <2>2 DEF IsrEnd, IsrKept, lines
  <2> QED
    BY <1>6, <2>2, <2>3 DEF IsrEnd, IsrKept
<1>7. CASE IsrPollDemand
  <2> DEFINE t == CesAfter([current_task EXCEPT !.error_status = None,
                                                !.cmd_status = "POLLD"])
  <2>1. [current_task EXCEPT !.error_status = None, !.cmd_status = "POLLD"]
        \in Task
    BY DEF Task, TaskStatus
  <2>2. t \in Task
    BY <2>1, CesAfterType
  <2>3. Conclude(t)
    BY <1>7 DEF IsrPollDemand
  <2>4. poll_demand_count' \in 0..MaxPoll
    BY <1>7, CommandAssumption DEF IsrPollDemand
  <2>5. /\ current_task' \in Task /\ interrupt_already_done' \in BOOLEAN
        /\ rintsts' = {} /\ isr' = "off"
    BY <2>2, <2>3, ConcludeType
  <2>6. HostTypeOK'
    BY <1>7, <2>5 DEF IsrPollDemand, IsrKept
  <2> QED
    BY <1>7, <2>4, <2>5, <2>6 DEF IsrPollDemand, IsrKept
<1>8. CASE IsrDmaReset
  <2> DEFINE t == CesAfter([current_task EXCEPT
                    !.error_status = "ERRIDMACDU", !.cmd_status = "STARTED"])
  <2>1. [current_task EXCEPT !.error_status = "ERRIDMACDU",
                             !.cmd_status = "STARTED"] \in Task
    BY DEF Task, TaskStatus, Error
  <2>2. t \in Task
    BY <2>1, CesAfterType
  <2>3. Conclude(t)
    BY <1>8 DEF IsrDmaReset
  <2>4. /\ current_task' \in Task /\ interrupt_already_done' \in BOOLEAN
        /\ rintsts' = {} /\ isr' = "off"
    BY <2>2, <2>3, ConcludeType
  <2>5. HostTypeOK'
    BY <1>8, <2>4 DEF IsrDmaReset, IsrKept, Owner
  <2> QED
    BY <1>8, <2>4, <2>5 DEF IsrDmaReset, IsrKept
<1> QED
  BY <1>1, <1>2, <1>3, <1>4, <1>5, <1>6, <1>7, <1>8 DEF Handler

LEMMA ControllerType ==
  ASSUME TypeOK, Controller
  PROVE  TypeOK'
<1> SUFFICES HostTypeOK'
  BY DEF TypeOK, Controller, driverVars
<1> USE DEF TypeOK, HostTypeOK, Owner, Verdict
<1>1. CASE Accept(cmd \in DataCommand)
  <2>1. (cmd \in DataCommand) \in BOOLEAN
    OBVIOUS
  <2> QED
    BY <1>1, <2>1 DEF Accept
<1>2. CASE RaiseResponseError(Quiet)
  BY <1>2 DEF RaiseResponseError, RintBit
<1>3. ASSUME NEW o \in {"clean", "bad", "timeout"},
             EndCommand(Quiet, o, cmd \in R1Command)
      PROVE  HostTypeOK'
  BY <1>3 DEF EndCommand, RintBit
<1>4. CASE RequestData(Quiet, Dma)
  BY <1>4 DEF RequestData, RintBit
<1>5. ASSUME NEW e \in DataError, RaiseDataError(Quiet, e)
      PROVE  HostTypeOK'
  BY <1>5 DEF RaiseDataError, RintBit, DataError
<1>6. ASSUME NEW es \in {{}} \union {{e} : e \in DataError},
             EndData(Quiet, Dma, es)
      PROVE  HostTypeOK'
  BY <1>6 DEF EndData, RintBit, DataError, DmaBit
<1>7. CASE BusError(Quiet, Dma)
  BY <1>7 DEF BusError, DmaBit
<1>8. CASE DescriptorUnavailable(Quiet, Dma)
  BY <1>8 DEF DescriptorUnavailable, DmaBit
<1> QED
  BY <1>1, <1>2, <1>3, <1>4, <1>5, <1>6, <1>7, <1>8 DEF Controller

(* Every variable of the driver and of the controller keeps its type.      *)
THEOREM TypeCorrect == Spec => []TypeOK
<1>1. Init => TypeOK
  <2> SUFFICES ASSUME Init  PROVE TypeOK
    OBVIOUS
  <2>1. HostTypeOK
    BY DEF Init, HostInit, HostTypeOK, Owner, Verdict
  <2>2. current_task \in Task
    BY DEF Init, Task, TaskStatus
  <2>3. poll_demand_count \in 0..MaxPoll
    BY CommandAssumption DEF Init
  <2> QED
    BY <2>1, <2>2, <2>3 DEF Init, TypeOK
<1>2. TypeOK /\ [Next]_vars => TypeOK'
  <2> SUFFICES ASSUME TypeOK, [Next]_vars  PROVE TypeOK'
    OBVIOUS
  <2>1. CASE UNCHANGED vars
    BY <2>1 DEF vars, hostVars, driverVars, TypeOK, HostTypeOK
  <2> QED
    BY <2>1, ThreadType, HandlerType, ControllerType DEF Next
<1> QED
  BY <1>1, <1>2, PTL DEF Spec

-----------------------------------------------------------------------------
(* No lost wake-up.  NoLostWakeup speaks of the moments when the handler   *)
(* does not run; Owed adds what holds inside it: the only callback that    *)
(* takes a task off, no_response_postproc, leaves an error behind, so that *)
(* the end of the handler sets the flag.                                   *)

Owed ==
  pc \in {"exec", "poll", "wait"} =>
    /\ isr = "off" /\ Over => interrupt_already_done
    /\ isr # "off" /\ current_task.cmd_status = "ABSENT" =>
          \/ current_task.error_status # None
          \/ interrupt_already_done

LEMMA PostProcessAbsent ==
  ASSUME NEW t \in Task, NEW bits, t.cmd_status # "ABSENT",
         PostProcess(t, bits).cmd_status = "ABSENT"
  PROVE  PostProcess(t, bits).error_status # None
<1> DEFINE standard == StandardRinsts(t, bits)
           r1       == R1Response(t, bits)
           read     == AsCorruption(r1, {"ERRDCRC"})
           readdat  == [read EXCEPT !.cmd_status = "READDAT"]
           write    == AsCorruption(r1, {"ERRENDBITERR"})
           r6       == [AsCorruption(standard, Error)
                          EXCEPT !.error_status = R1Error]
           absent   == [standard EXCEPT !.cmd_status = "ABSENT"]
<1>1. standard \in Task /\ standard.cmd_status # "ABSENT"
  BY StandardRinstsType DEF StandardRinsts, Task
<1>2. r1 \in Task /\ r1.cmd_status = standard.cmd_status
  BY <1>1, R1ResponseType DEF R1Response, Task
<1>3. /\ read.cmd_status = r1.cmd_status
      /\ write.cmd_status = r1.cmd_status
      /\ r6.cmd_status = standard.cmd_status
  BY <1>1, <1>2 DEF AsCorruption, Task
<1>4. readdat.cmd_status # "ABSENT"
  <2>1. read \in Task
    BY <1>2, AsCorruptionType
  <2> QED
    BY <2>1 DEF Task
<1>5. absent.error_status = standard.error_status
  BY <1>1 DEF Task
<1> HIDE DEF standard, r1, read, readdat, write, r6, absent
<1>6. \/ PostProcess(t, bits) \in {standard, r1, r6, write, read, readdat, t}
      \/ PostProcess(t, bits) = absent /\ standard.error_status # None
  BY DEF PostProcess, standard, r1, read, readdat, write, r6, absent
<1> QED
  BY <1>1, <1>2, <1>3, <1>4, <1>5, <1>6

(* The end of the handler pays what is owed.                               *)
LEMMA ConcludePays ==
  ASSUME NEW t \in Task, Conclude(t), interrupt_already_done \in BOOLEAN,
         t.cmd_status = "ABSENT" =>
           t.error_status # None \/ interrupt_already_done
  PROVE  Owed'
<1>1. isr' = "off"
  BY DEF Conclude
<1>2. CASE t.cmd_status = "COMMAND_DONE" \/ t.error_status # None
  BY <1>1, <1>2 DEF Conclude, Owed
<1>3. CASE t.cmd_status # "COMMAND_DONE" /\ t.error_status = None
  <2>1. /\ current_task' = t
        /\ interrupt_already_done' = interrupt_already_done
    BY <1>3 DEF Conclude
  <2> QED
    BY <1>1, <1>3, <2>1 DEF Owed, Over
<1> QED
  BY <1>2, <1>3

LEMMA ThreadOwed ==
  ASSUME TypeOK, Owed, Thread
  PROVE  Owed'
<1> USE DEF Owed, Over, At
<1>1. CASE SetEnumStatus
  BY <1>1 DEF SetEnumStatus
<1>2. ASSUME NEW c \in Commands, Send(c)  PROVE Owed'
  BY <1>2 DEF Send
<1>3. CASE NotSupported
  BY <1>3 DEF NotSupported
<1>4. CASE Preprocess
  BY <1>4 DEF Preprocess
<1>5. CASE SetCurrentTask
  <2>1. /\ current_task'.cmd_status = "STARTED"
        /\ current_task'.error_status = None
    BY <1>5 DEF SetCurrentTask, TypeOK, Task
  <2> QED
    BY <1>5, <2>1 DEF SetCurrentTask
<1>6. CASE Execute
  BY <1>6 DEF Execute
<1>7. CASE Polled
  BY <1>7 DEF Polled
<1>8. CASE Wake
  BY <1>8 DEF Wake
<1>9. CASE CheckStatus
  BY <1>9 DEF CheckStatus, Return
<1>10. CASE RemoveCommand
  BY <1>10 DEF RemoveCommand, Return
<1> QED
  BY <1>1, <1>2, <1>3, <1>4, <1>5, <1>6, <1>7, <1>8, <1>9, <1>10 DEF Thread

LEMMA HandlerOwed ==
  ASSUME TypeOK, Owed, pc \in {"exec", "poll", "wait"}, Handler
  PROVE  Owed'
<1>0. current_task \in Task /\ interrupt_already_done \in BOOLEAN
  BY DEF TypeOK
<1>1. CASE IsrDiscard
  BY <1>1 DEF IsrDiscard, IsrKept, Owed, Over
<1>2. CASE IsrPostProcess
  <2>1. isr' # "off"
    BY <1>2 DEF IsrPostProcess
  <2>2. current_task'.cmd_status = "ABSENT" =>
          current_task'.error_status # None
    BY <1>0, <1>2, PostProcessAbsent DEF IsrPostProcess
  <2> QED
    BY <2>1, <2>2 DEF Owed
<1>3. CASE IsrBusy
  BY <1>3 DEF IsrBusy, IsrKept, Owed
<1>4. CASE IsrReadData
  <2>1. /\ isr' = "tail" /\ isr # "off"
        /\ interrupt_already_done' = interrupt_already_done
    BY <1>4 DEF IsrReadData
  <2>2. \/ current_task' = current_task
        \/ current_task'.cmd_status # "ABSENT"
    BY <1>0, <1>4 DEF IsrReadData, DmaCallback, Task
  <2> QED
    BY <2>1, <2>2 DEF Owed
<1>5. CASE IsrWriteData
  <2>1. /\ isr' = "tail" /\ isr # "off"
        /\ interrupt_already_done' = interrupt_already_done
    BY <1>5 DEF IsrWriteData
  <2>2. \/ current_task' = current_task
        \/ current_task'.cmd_status # "ABSENT"
    BY <1>0, <1>5 DEF IsrWriteData, DmaCallback, Task
  <2> QED
    BY <2>1, <2>2 DEF Owed
<1>6. CASE IsrEnd
  <2>1. isr # "off"
    BY <1>6 DEF IsrEnd
  <2>2. PICK t \in Task :
          /\ Conclude(t)
          /\ t.cmd_status = current_task.cmd_status
          /\ t = current_task \/ t.error_status # None
    <3> DEFINE bad  == current_task.idma_mode_on
                       /\ idsts \intersect {"FBE", "CES"} # {}
               code == IF "CES" \in idsts THEN "ERRIDMACCBE"
                                          ELSE "ERRIDMACFBE"
               t    == IF bad THEN [current_task EXCEPT !.error_status = code]
                              ELSE current_task
    <3>1. t \in Task
      BY <1>0 DEF Task, Error
    <3>2. t.cmd_status = current_task.cmd_status
      BY <1>0 DEF Task
    <3>3. t = current_task \/ t.error_status # None
      BY <1>0 DEF Task, None
    <3>4. Conclude(t)
      BY <1>6 DEF IsrEnd
    <3> QED
      BY <3>1, <3>2, <3>3, <3>4
  <2>3. t.cmd_status = "ABSENT" =>
          t.error_status # None \/ interrupt_already_done
    BY <2>1, <2>2 DEF Owed
  <2> QED
    BY <1>0, <2>2, <2>3, ConcludePays
<1>7. CASE IsrPollDemand
  <2> DEFINE p == [current_task EXCEPT !.error_status = None,
                                       !.cmd_status = "POLLD"]
             t == CesAfter(p)
  <2>1. p \in Task /\ p.cmd_status = "POLLD"
    BY <1>0 DEF Task, TaskStatus
  <2>2. t \in Task /\ t.cmd_status = "POLLD"
    BY <2>1, CesAfterType DEF CesAfter, Task
  <2>3. Conclude(t)
    BY <1>7 DEF IsrPollDemand
  <2> HIDE DEF t
  <2> QED
    BY <1>0, <2>2, <2>3, ConcludePays
<1>8. CASE IsrDmaReset
  <2> DEFINE p == [current_task EXCEPT !.error_status = "ERRIDMACDU",
                                       !.cmd_status = "STARTED"]
             t == CesAfter(p)
  <2>1. p \in Task /\ p.cmd_status = "STARTED"
    BY <1>0 DEF Task, TaskStatus, Error
  <2>2. t \in Task /\ t.cmd_status = "STARTED"
    BY <2>1, CesAfterType DEF CesAfter, Task
  <2>3. Conclude(t)
    BY <1>8 DEF IsrDmaReset
  <2> HIDE DEF t
  <2> QED
    BY <1>0, <2>2, <2>3, ConcludePays
<1> QED
  BY <1>1, <1>2, <1>3, <1>4, <1>5, <1>6, <1>7, <1>8 DEF Handler

(* A thread is never left waiting for a task that is over: for every set   *)
(* of commands, DMA or not, and every behaviour of the controller.         *)
THEOREM WakeupNeverLost == Spec => []NoLostWakeup
<1>1. Init => Owed
  BY DEF Init, Owed
<1>2. TypeOK /\ Owed /\ [Next]_vars => Owed'
  <2> SUFFICES ASSUME TypeOK, Owed, [Next]_vars  PROVE Owed'
    OBVIOUS
  <2>1. CASE UNCHANGED vars
    BY <2>1 DEF vars, driverVars, Owed, Over
  <2>2. CASE Thread
    BY <2>2, ThreadOwed
  <2>3. CASE Handler /\ pc \in {"exec", "poll", "wait"}
    BY <2>3, HandlerOwed
  <2>4. CASE Handler /\ pc \notin {"exec", "poll", "wait"}
    <3>1. pc' = pc
      BY <2>4 DEF Handler, IsrKept, IsrDiscard, IsrPostProcess, IsrBusy,
         IsrReadData, IsrWriteData, IsrEnd, IsrPollDemand, IsrDmaReset
    <3> QED
      BY <2>4, <3>1 DEF Owed
  <2>5. CASE Controller
    BY <2>5 DEF Controller, driverVars, Owed, Over
  <2> QED
    BY <2>1, <2>2, <2>3, <2>4, <2>5 DEF Next
<1>3. Owed => NoLostWakeup
  BY DEF Owed, NoLostWakeup
<1> QED
  BY <1>1, <1>2, <1>3, TypeCorrect, PTL DEF Spec

-----------------------------------------------------------------------------
(* A controller that raises an error bit only together with the bit that   *)
(* ends the command or the transfer, and a driver without the DMA: on it   *)
(* every call tells the truth of its command.                              *)

Orderly == ~SplitErrors /\ ~Idmac

(* No data bit is raised while the handler runs.  Otherwise the end of a   *)
(* transfer may come between two looks of the handler at RINTSTS, and its  *)
(* error go unseen, or after the last of them, and be cleared unseen.      *)
Punctual == "DATA" \notin LateBits

WithData == cmd \in DataCommand
Status   == current_task.cmd_status
Fault    == current_task.error_status
Corrupt  == current_task.bus_corruption_occured

(* Nothing of the DMA, and no error ahead of its command, ever shows.      *)
Plain == idsts = {} /\ ~suspended /\ ~failed /\ ~current_task.idma_mode_on

(* Nothing is on its way.                                                  *)
Calm ==
  /\ ~start_bit /\ cmd_path = "idle" /\ data_path = "idle"
  /\ rintsts = {} /\ isr = "off"

Fresh == Status = "STARTED" /\ Fault = None /\ ~Corrupt

(* What the task says of errors is what happened; only an error of the     *)
(* transfer may be missed, and only when it was not punctual.              *)
Truthful ==
  /\ answer # "none"
  /\ Fault # None \/ Corrupt => answer = "err" \/ moved = "err"
  /\ answer = "err" \/ (Punctual /\ moved = "err") => Fault # None \/ Corrupt

(* The data bits in RINTSTS are those of the present transfer: it has      *)
(* started when the command was answered, DAT_OVER comes with its end and  *)
(* its errors, and is there to be seen if it was punctual.                 *)
DataBits ==
  /\ data_path \in {"idle", "mine"} /\ (data_path # "idle" => moved = "none")
  /\ "DAT_OVER" \in rintsts => moved # "none"
  /\ Punctual /\ moved # "none" => "DAT_OVER" \in rintsts
  /\ rintsts \intersect DataError # {} <=>
       "DAT_OVER" \in rintsts /\ moved = "err"
  /\ answer = "ok" /\ WithData =>
       /\ "RTO" \notin rintsts /\ resp = "clean"
       /\ data_path # "idle" \/ moved # "none"
  /\ answer = "err" \/ ~WithData =>
       data_path = "idle" /\ rintsts \subseteq {"CMD_DONE", "RTO"} /\ moved = "none"

(* Where a data command stands whose transfer has still to end.            *)
Waits == IF PostCallback(cmd) = "read" THEN "READDAT" ELSE "WRITEDAT"

(* The stages of a call between the command register and the wake-up.      *)
Unanswered ==
  /\ cmd_path = IF start_bit THEN "idle" ELSE "mine"
  /\ ~start_bit => (with_data <=> WithData)
  /\ data_path = "idle" /\ rintsts = {} /\ isr = "off"
  /\ Fresh /\ answer = "none" /\ moved = "none"

Behind == ~start_bit /\ cmd_path = "idle" /\ answer # "none" /\ DataBits

Answered ==
  /\ Behind /\ isr = "off" /\ Fresh /\ "CMD_DONE" \in rintsts
  /\ answer = "err" <=> \/ "RTO" \in rintsts
                        \/ cmd \in R1Command /\ resp = "bad"

Moving ==
  /\ Behind /\ isr = "off" /\ WithData /\ answer = "ok"
  /\ rintsts \intersect {"CMD_DONE", "RTO"} = {}
  /\ Status = Waits
  /\ Fault = None /\ ~Corrupt

(* Inside the handler: isr says how far it has come with a data command.   *)
Handling ==
  /\ Behind /\ Truthful /\ isr # "off"
  /\ answer = "err" /\ WithData => Fault # None
  /\ isr = "data" => WithData
  /\ isr = "busy" => ~WithData
  /\ ~WithData => \/ Status = "COMMAND_DONE"
                  \/ Status = "ABSENT" /\ Fault # None
  /\ WithData =>
       /\ Status # "ABSENT"
       /\ Corrupt => "DAT_OVER" \in rintsts
       /\ Fault = None /\ isr = "data" /\ PostCallback(cmd) = "read" =>
            Status = "READDAT"
       /\ Fault = None /\ isr # "data" =>
            \/ Status = "COMMAND_DONE" /\ moved # "none"
            \/ /\ Status = Waits /\ ~Corrupt
               /\ Punctual => "DAT_OVER" \notin rintsts

(* The call is decided.                                                    *)
Decided ==
  /\ Calm /\ Truthful
  /\ Fault = None => Status = "ABSENT" /\ (WithData => moved # "none")

Staged ==
  IF interrupt_already_done THEN Decided
  ELSE Unanswered \/ Answered \/ Moving \/ Handling

CallInv ==
  /\ Plain
  /\ pc \notin {"poll", "wait"} => Calm /\ ~interrupt_already_done
  /\ pc \in {"idle", "form", "task"} => Status = "ABSENT"
  /\ pc \in {"exec", "poll", "wait"} =>
       current_task.postproc_callback = PostCallback(cmd)
  /\ pc = "exec" => Fresh
  /\ pc \in {"poll", "wait"} => Staged
  /\ pc \in {"check", "remove"} => Decided
  /\ pc = "remove" => seen = Fault /\ Fault # None
  /\ pc # "idle" => retval = None
  /\ pc = "idle" /\ retval \in Error \union {"OK"} =>
       /\ Truthful
       /\ retval = "OK" => Fault = None /\ (WithData => moved # "none")
       /\ retval # "OK" => Fault # None

(* What a command's callback says of the command.                          *)
LEMMA Callbacks ==
  ASSUME TypeOK, current_task.postproc_callback = PostCallback(cmd)
  PROVE  /\ PostCallback(cmd) \in Callback
         /\ PostCallback(cmd) \in {"read", "write"} <=> WithData
         /\ PostCallback(cmd) \in {"short", "no_response"} <=> cmd \notin R1Command
         /\ WithData => cmd \in R1Command
<1>1. current_task.postproc_callback \in Callback \union {None}
  BY DEF TypeOK, Task
<1>2. cmd \in Command \union {None}
  BY CommandAssumption DEF TypeOK, Command
<1>3. PostCallback(cmd) \in Callback
  BY <1>1, <1>2 DEF PostCallback, Callback, None, Command
<1>4. cmd \in Command /\ cmd # "CMD10"
  BY <1>2, <1>3 DEF PostCallback, Callback, None, Command
<1>5. \/ cmd = "CMD0"                  /\ PostCallback(cmd) = "no_response"
      \/ cmd \in {"CMD8", "CMD55"}     /\ PostCallback(cmd) = "short"
      \/ cmd \in {"CMD13", "ACMD6"}    /\ PostCallback(cmd) = "r1"
      \/ cmd = "CMD3"                  /\ PostCallback(cmd) = "r1_r6"
      \/ cmd = "CMD7"                  /\ PostCallback(cmd) = "r1b"
      \/ cmd \in {"CMD17", "ACMD51"}   /\ PostCallback(cmd) = "read"
      \/ cmd = "CMD24"                 /\ PostCallback(cmd) = "write"
  BY <1>4 DEF PostCallback, Command
<1> QED
  BY <1>3, <1>5 DEF WithData, DataCommand, R1Command, Command

(* The fields of the tasks the handler makes.                              *)
LEMMA ErrorOfMeaning ==
  ASSUME NEW bits
  PROVE  /\ ErrorOf(bits, None) = None <=> bits \intersect (DataError \union {"RTO"}) = {}
         /\ ErrorOf(bits, None) \in {"ERRDCRC", "ERRENDBITERR"} =>
              bits \intersect DataError # {}
         /\ ErrorOf(bits, None) \in Error \union {None}
  BY DEF ErrorOf, DataError, Error, None

LEMMA StandardFields ==
  ASSUME NEW t \in Task, NEW bits
  PROVE  LET s == StandardRinsts(t, bits)
         IN /\ s.cmd_status = IF "CMD_DONE" \in bits THEN "COMMAND_DONE"
                                                     ELSE t.cmd_status
            /\ s.error_status = ErrorOf(bits, t.error_status)
            /\ s.bus_corruption_occured = t.bus_corruption_occured
            /\ s.idma_mode_on = t.idma_mode_on
            /\ s.postproc_callback = t.postproc_callback
  BY DEF StandardRinsts, Task

LEMMA R1Fields ==
  ASSUME NEW t \in Task, NEW bits
  PROVE  LET s == StandardRinsts(t, bits)
             r == R1Response(t, bits)
         IN /\ r.cmd_status = s.cmd_status
            /\ r.error_status = IF s.error_status # None THEN s.error_status
                                                        ELSE R1Error
            /\ r.bus_corruption_occured = s.bus_corruption_occured
            /\ r.idma_mode_on = s.idma_mode_on
            /\ r.postproc_callback = s.postproc_callback
<1>1. StandardRinsts(t, bits) \in Task
  BY StandardRinstsType
<1> QED
  BY <1>1 DEF R1Response, Task

LEMMA CorruptionFields ==
  ASSUME NEW t \in Task, NEW masked
  PROVE  LET c == AsCorruption(t, masked)
         IN /\ c.cmd_status = t.cmd_status
            /\ c.error_status = IF t.error_status \in masked THEN None
                                                           ELSE t.error_status
            /\ c.bus_corruption_occured =
                 (t.bus_corruption_occured \/ t.error_status \in masked)
            /\ c.idma_mode_on = t.idma_mode_on
            /\ c.postproc_callback = t.postproc_callback
  BY DEF AsCorruption, Task

(* The handler's callback on a task without an error: whatever the         *)
(* interrupt bits say, an error or the corruption flag says it too.        *)
Spoken(p) == p.error_status # None \/ p.bus_corruption_occured

Bad(bits) == bits \intersect (DataError \union {"RTO"}) # {}

LEMMA ShortSays ==
  ASSUME NEW t \in Task, NEW bits, t.error_status = None,
         ~t.bus_corruption_occured, "CMD_DONE" \in bits,
         t.postproc_callback \in {"short", "no_response"}
  PROVE  LET p == PostProcess(t, bits)
         IN /\ Spoken(p) <=> Bad(bits)
            /\ \/ p.cmd_status = "COMMAND_DONE"
               \/ p.cmd_status = "ABSENT" /\ p.error_status # None
            /\ p.idma_mode_on = t.idma_mode_on
            /\ p.postproc_callback = t.postproc_callback
<1> DEFINE s == StandardRinsts(t, bits)
           a == [s EXCEPT !.cmd_status = "ABSENT"]
<1>1. /\ s.cmd_status = "COMMAND_DONE" /\ ~s.bus_corruption_occured
      /\ s.error_status = ErrorOf(bits, None)
      /\ s.idma_mode_on = t.idma_mode_on
      /\ s.postproc_callback = t.postproc_callback
  BY StandardFields
<1>2. s.error_status # None <=> Bad(bits)
  BY <1>1, ErrorOfMeaning DEF Bad
<1>3. s \in Task
  BY StandardRinstsType
<1> HIDE DEF s
<1>4. /\ a.cmd_status = "ABSENT" /\ a.error_status = s.error_status
      /\ a.bus_corruption_occured = s.bus_corruption_occured
      /\ a.idma_mode_on = s.idma_mode_on
      /\ a.postproc_callback = s.postproc_callback
  BY <1>3 DEF Task
<1> HIDE DEF a
<1>5. PostProcess(t, bits) = s \/ (PostProcess(t, bits) = a /\ s.error_status # None)
  BY DEF PostProcess, s, a
<1> QED
  BY <1>1, <1>2, <1>4, <1>5 DEF Spoken

LEMMA R1Says ==
  ASSUME NEW t \in Task, NEW bits, t.error_status = None,
         ~t.bus_corruption_occured,
         t.postproc_callback \in {"r1", "r1b", "r1_r6", "read", "write"}
  PROVE  LET p == PostProcess(t, bits)
         IN /\ Spoken(p) <=> Bad(bits) \/ resp = "bad"
            /\ bits \intersect DataError = {} /\ t.postproc_callback # "r1_r6"
                 => ~p.bus_corruption_occured
            /\ p.cmd_status =
                 IF /\ t.postproc_callback = "read"
                    /\ p.error_status = None
                    /\ "CMD_DONE" \in bits \/ t.cmd_status # "POLLD"
                 THEN "READDAT"
                 ELSE IF "CMD_DONE" \in bits THEN "COMMAND_DONE" ELSE t.cmd_status
            /\ p.idma_mode_on = t.idma_mode_on
            /\ p.postproc_callback = t.postproc_callback
<1> DEFINE s == StandardRinsts(t, bits)
           r == R1Response(t, bits)
           m == AsCorruption(r, {"ERRDCRC"})
           d == [m EXCEPT !.cmd_status = "READDAT"]
           w == AsCorruption(r, {"ERRENDBITERR"})
           c == AsCorruption(s, Error)
           x == [c EXCEPT !.error_status = R1Error]
           e == ErrorOf(bits, None)
<1>0. R1Error = IF resp = "bad" THEN "ERRR1" ELSE None
  BY DEF R1Error
<1>1. /\ e # None <=> Bad(bits)
      /\ e \in {"ERRDCRC", "ERRENDBITERR"} => bits \intersect DataError # {}
      /\ e \in Error \union {None}
  BY ErrorOfMeaning DEF Bad
<1>2. /\ s \in Task /\ ~s.bus_corruption_occured /\ s.error_status = e
      /\ s.cmd_status = IF "CMD_DONE" \in bits THEN "COMMAND_DONE" ELSE t.cmd_status
      /\ s.idma_mode_on = t.idma_mode_on
      /\ s.postproc_callback = t.postproc_callback
  BY StandardFields, StandardRinstsType
<1> HIDE DEF e
<1>3. /\ r \in Task /\ ~r.bus_corruption_occured /\ r.cmd_status = s.cmd_status
      /\ r.error_status = IF e # None THEN e ELSE R1Error
      /\ r.idma_mode_on = t.idma_mode_on
      /\ r.postproc_callback = t.postproc_callback
  BY <1>2, R1Fields, R1ResponseType
<1> HIDE DEF s, r
<1>4. /\ m \in Task /\ m.cmd_status = s.cmd_status
      /\ m.error_status = IF r.error_status = "ERRDCRC" THEN None ELSE r.error_status
      /\ m.bus_corruption_occured = (r.error_status = "ERRDCRC")
      /\ m.idma_mode_on = t.idma_mode_on
      /\ m.postproc_callback = t.postproc_callback
  BY <1>3, CorruptionFields, AsCorruptionType
<1>5. /\ w.cmd_status = s.cmd_status
      /\ w.error_status = IF r.error_status = "ERRENDBITERR" THEN None
                                                            ELSE r.error_status
      /\ w.bus_corruption_occured = (r.error_status = "ERRENDBITERR")
      /\ w.idma_mode_on = t.idma_mode_on
      /\ w.postproc_callback = t.postproc_callback
  BY <1>3, CorruptionFields
<1>6. /\ c \in Task /\ c.cmd_status = s.cmd_status
      /\ c.bus_corruption_occured = (e \in Error)
      /\ c.idma_mode_on = t.idma_mode_on
      /\ c.postproc_callback = t.postproc_callback
  BY <1>2, CorruptionFields, AsCorruptionType
<1> HIDE DEF m, w, c
<1>7. /\ d.cmd_status = "READDAT" /\ d.error_status = m.error_status
      /\ d.bus_corruption_occured = m.bus_corruption_occured
      /\ d.idma_mode_on = t.idma_mode_on
      /\ d.postproc_callback = t.postproc_callback
  BY <1>4 DEF Task
<1>8. /\ x.cmd_status = s.cmd_status /\ x.error_status = R1Error
      /\ x.bus_corruption_occured = c.bus_corruption_occured
      /\ x.idma_mode_on = t.idma_mode_on
      /\ x.postproc_callback = t.postproc_callback
  BY <1>6 DEF Task
<1> HIDE DEF d, x
<1>9. None \notin Error /\ "ERRDCRC" # None /\ "ERRENDBITERR" # None /\ "ERRR1" # None
  BY DEF Error, None
<1>10. CASE t.postproc_callback \in {"r1", "r1b"}
  <2>1. PostProcess(t, bits) = r
    BY <1>10 DEF PostProcess, r
  <2> QED
    BY <1>0, <1>1, <1>2, <1>3, <1>9, <1>10, <2>1 DEF Spoken
<1>11. CASE t.postproc_callback = "r1_r6"
  <2>1. PostProcess(t, bits) = x
    BY <1>11 DEF PostProcess, x, c, s
  <2> QED
    BY <1>0, <1>1, <1>2, <1>6, <1>8, <1>9, <1>11, <2>1 DEF Spoken
<1>12. CASE t.postproc_callback = "write"
  <2>1. PostProcess(t, bits) = w
    BY <1>12 DEF PostProcess, w, r
  <2> QED
    BY <1>0, <1>1, <1>2, <1>3, <1>5, <1>9, <1>12, <2>1 DEF Spoken
<1>13. CASE t.postproc_callback = "read"
  <2>1. PostProcess(t, bits) = IF m.error_status = None /\ m.cmd_status # "POLLD"
                               THEN d ELSE m
    BY <1>13 DEF PostProcess, d, m, r
  <2> QED
    BY <1>0, <1>1, <1>2, <1>3, <1>4, <1>7, <1>9, <1>13, <2>1 DEF Spoken
<1> QED
  BY <1>10, <1>11, <1>12, <1>13

-----------------------------------------------------------------------------
(* The steps.  In a calm controller nothing moves.                         *)

LEMMA CalmStays ==
  ASSUME Orderly, CallInv, Calm, Controller
  PROVE  FALSE
<1>1. /\ ~start_bit /\ cmd_path = "idle" /\ data_path = "idle"
      /\ ~Dma /\ ~SplitErrors
  BY DEF Orderly, CallInv, Plain, Calm, Dma
<1> QED
  BY <1>1 DEF Controller, Accept, RaiseResponseError, EndCommand, RequestData,
     RaiseDataError, EndData, BusError, DescriptorUnavailable

LEMMA CalmQuiet ==
  ASSUME CallInv, Calm, Handler
  PROVE  FALSE
<1>1. isr = "off" /\ ~Interrupt
  BY DEF CallInv, Plain, Calm, Interrupt
<1> QED
  BY <1>1 DEF Handler, IsrDiscard, IsrPostProcess, IsrBusy, IsrReadData,
     IsrWriteData, IsrEnd, IsrPollDemand, IsrDmaReset

(* Outside poll and wait nothing but the thread moves.                     *)
LEMMA OnlyThread ==
  ASSUME Orderly, CallInv, pc \notin {"poll", "wait"}, Handler \/ Controller
  PROVE  FALSE
  BY CalmStays, CalmQuiet DEF CallInv

(* While a call waits, the rest of its invariant follows from the stage.   *)
LEMMA StageEnough ==
  ASSUME CallInv, pc \in {"poll", "wait"}, pc' = pc, cmd' = cmd,
         retval' = retval, Plain', Staged',
         current_task'.postproc_callback = current_task.postproc_callback
  PROVE  CallInv'
  BY DEF CallInv

(* The controller takes the command and answers it ...                     *)
LEMMA AnswerStep ==
  ASSUME Orderly, TypeOK, CallInv, pc \in {"poll", "wait"}, Unanswered,
         UNCHANGED driverVars,
         \/ Accept(WithData)
         \/ \E o \in {"clean", "bad", "timeout"} :
              EndCommand(Quiet, o, cmd \in R1Command)
  PROVE  Unanswered' \/ Answered'
<1>1. /\ cmd' = cmd /\ isr' = isr /\ current_task' = current_task
  BY DEF driverVars
<1>2. WithData' = WithData /\ Fresh' = Fresh
  BY <1>1 DEF WithData, Fresh, Status, Fault, Corrupt
<1>3. /\ current_task.postproc_callback = PostCallback(cmd)
      /\ ~failed /\ (WithData => cmd \in R1Command)
  BY Callbacks DEF CallInv, Plain
<1>4. CASE Accept(WithData)
  <2>1. Unanswered'
    BY <1>1, <1>2, <1>4 DEF Accept, Unanswered
  <2> QED
    BY <2>1
<1>5. ASSUME NEW o \in {"clean", "bad", "timeout"},
             EndCommand(Quiet, o, cmd \in R1Command)
      PROVE  Answered'
  <2>1. /\ ~start_bit /\ cmd_path = "mine" /\ (with_data <=> WithData)
        /\ data_path = "idle" /\ rintsts = {} /\ moved = "none"
    BY <1>5 DEF EndCommand, Unanswered
  <2>2. /\ start_bit' = start_bit /\ cmd_path' = "idle" /\ moved' = moved
        /\ rintsts' = IF o = "timeout" THEN {"CMD_DONE", "RTO"} ELSE {"CMD_DONE"}
        /\ resp' = IF o = "timeout" THEN resp ELSE o
        /\ answer' = IF o = "timeout" \/ (cmd \in R1Command /\ o = "bad")
                     THEN "err" ELSE "ok"
        /\ data_path' = IF WithData /\ o = "clean" THEN "mine" ELSE "idle"
    BY <1>3, <1>5, <2>1 DEF EndCommand
  <2>3. DataBits'
    BY <1>2, <1>3, <2>1, <2>2 DEF DataBits, DataError
  <2>4. answer' = "err" <=> \/ "RTO" \in rintsts'
                            \/ cmd' \in R1Command /\ resp' = "bad"
    BY <1>1, <2>2
  <2>5. "CMD_DONE" \in rintsts' /\ answer' # "none"
    BY <2>2
  <2> QED
    BY <1>1, <1>2, <2>1, <2>2, <2>3, <2>4, <2>5
       DEF Answered, Behind, Unanswered
<1> QED
  BY <1>4, <1>5

(* ... asks for data and ends the transfer.                                *)
LEMMA DataStep ==
  ASSUME TypeOK, CallInv, Answered \/ Moving \/ Handling,
         UNCHANGED driverVars,
         \/ RequestData(Quiet, Dma)
         \/ \E es \in {{}} \union {{e} : e \in DataError} :
              EndData(Quiet, Dma, es)
  PROVE  Answered' \/ Moving' \/ Handling'
<1>1. /\ cmd' = cmd /\ isr' = isr /\ current_task' = current_task
  BY DEF driverVars
<1>2. /\ WithData' = WithData /\ Fresh' = Fresh /\ Status' = Status
      /\ Fault' = Fault /\ Corrupt' = Corrupt
  BY <1>1 DEF WithData, Fresh, Status, Fault, Corrupt
<1>3. DataBits /\ ~Dma /\ Waits' = Waits
  BY <1>1 DEF Answered, Moving, Handling, Behind, CallInv, Plain, Dma, Waits
<1> USE DEF Punctual
<1>4. /\ DataBits' /\ answer' = answer /\ resp' = resp /\ start_bit' = start_bit
      /\ cmd_path' = cmd_path
      /\ "CMD_DONE" \in rintsts' <=> "CMD_DONE" \in rintsts
      /\ "RTO" \in rintsts' <=> "RTO" \in rintsts
  <2>1. CASE RequestData(Quiet, Dma)
    BY <1>2, <1>3, <2>1 DEF RequestData, DataBits, DataError
  <2>2. ASSUME NEW es \in {{}} \union {{e} : e \in DataError},
               EndData(Quiet, Dma, es)
        PROVE  <1>4!:
    <3>1. /\ es \subseteq DataError /\ data_path = "mine" /\ moved = "none"
          /\ rintsts \intersect DataError = {}
      BY <1>3, <2>2 DEF EndData, DataBits
    <3>2. /\ rintsts' = rintsts \union {"DAT_OVER"} \union es
          /\ data_path' = "idle"
          /\ moved' = IF es = {} THEN "ok" ELSE "err"
          /\ answer' = answer /\ resp' = resp /\ start_bit' = start_bit
          /\ cmd_path' = cmd_path
      BY <2>2, <3>1 DEF EndData
    <3>3. /\ "CMD_DONE" \notin DataError /\ "RTO" \notin DataError
          /\ "DAT_OVER" \notin DataError
      BY DEF DataError
    <3>4. WithData /\ answer # "err"
      BY <1>3, <3>1 DEF DataBits
    <3>5. "RTO" \in rintsts' <=> "RTO" \in rintsts
      BY <3>1, <3>2, <3>3
    <3>6. /\ rintsts' \intersect DataError # {} <=>
               "DAT_OVER" \in rintsts' /\ moved' = "err"
          /\ "DAT_OVER" \in rintsts' /\ moved' # "none"
      BY <3>1, <3>2, <3>3
    <3>7. DataBits'
      BY <1>2, <1>3, <3>2, <3>4, <3>5, <3>6 DEF DataBits
    <3> QED
      BY <3>1, <3>2, <3>3, <3>5, <3>7
  <2> QED
    BY <2>1, <2>2
<1>5. CASE Answered \/ Moving
  BY <1>1, <1>2, <1>3, <1>4, <1>5 DEF Answered, Moving, Behind
<1>6. CASE Handling
  <2>1. data_path # "idle" /\ (isr = "off" \/ ~Punctual)
    BY DEF RequestData, EndData, Quiet
  <2>2. moved = "none" /\ answer = "ok" /\ WithData /\ ~Punctual
    BY <1>3, <1>6, <2>1 DEF DataBits, Handling, Behind, TypeOK, HostTypeOK, Verdict
  <2>3. Fault = None /\ ~Corrupt
    BY <1>6, <2>2 DEF Handling, Truthful
  <2>4. Behind'
    BY <1>4, <1>6 DEF Handling, Behind, RequestData, EndData
  <2>5. Truthful'
    BY <1>2, <1>4, <2>2, <2>3 DEF Truthful
  <2>6. PostCallback(cmd)' = PostCallback(cmd)
    BY <1>1
  <2> QED
    BY <1>1, <1>2, <1>3, <1>4, <1>6, <2>2, <2>3, <2>4, <2>5, <2>6 DEF Handling
<1> QED
  BY <1>5, <1>6

(* A step of the controller is one of these, and no call is decided yet.   *)
Replies == \/ Accept(WithData)
           \/ \E o \in {"clean", "bad", "timeout"} :
                EndCommand(Quiet, o, cmd \in R1Command)
Transfers == \/ RequestData(Quiet, Dma)
             \/ \E es \in {{}} \union {{e} : e \in DataError} :
                  EndData(Quiet, Dma, es)

LEMMA ControllerSteps ==
  ASSUME Orderly, TypeOK, CallInv, Controller
  PROVE  /\ pc \in {"poll", "wait"} /\ ~interrupt_already_done
         /\ UNCHANGED driverVars
         /\ \/ Replies /\ Unanswered
            \/ Transfers /\ (Answered \/ Moving \/ (Handling /\ ~Punctual))
<1>1. pc \in {"poll", "wait"}
  BY OnlyThread
<1>2. ~interrupt_already_done
  <2>1. interrupt_already_done => Calm
    BY <1>1 DEF CallInv, Staged, Decided
  <2> QED
    BY <2>1, CalmStays
<1>3. Unanswered \/ Answered \/ Moving \/ Handling
  BY <1>1, <1>2 DEF CallInv, Staged
<1>4. ~SplitErrors /\ ~Dma
  BY DEF Orderly, CallInv, Plain, Dma
<1>5. Replies \/ Transfers
  BY <1>4 DEF Controller, RaiseResponseError, RaiseDataError, BusError,
     DescriptorUnavailable, WithData, Replies, Transfers
<1>6. Replies => Unanswered
  <2>1. Replies => start_bit \/ cmd_path # "idle"
    BY DEF Replies, Accept, EndCommand
  <2> QED
    BY <1>3, <2>1 DEF Answered, Moving, Handling, Behind
<1>7. Transfers => Answered \/ Moving \/ (Handling /\ ~Punctual)
  <2>1. Transfers => data_path # "idle" /\ (Quiet \/ ~Punctual)
    BY <1>4 DEF Transfers, RequestData, EndData, Punctual
  <2> QED
    BY <1>3, <2>1 DEF Unanswered, Handling, Quiet
<1> QED
  BY <1>1, <1>2, <1>5, <1>6, <1>7 DEF Controller

LEMMA ControllerCall ==
  ASSUME Orderly, TypeOK, CallInv, Controller
  PROVE  CallInv'
<1>1. /\ pc \in {"poll", "wait"} /\ ~interrupt_already_done
      /\ UNCHANGED driverVars
      /\ \/ Replies /\ Unanswered
         \/ Transfers /\ (Answered \/ Moving \/ Handling)
  BY ControllerSteps
<1>2. /\ pc' = pc /\ cmd' = cmd /\ retval' = retval
      /\ current_task' = current_task
      /\ interrupt_already_done' = interrupt_already_done
  BY <1>1 DEF driverVars
<1>3. /\ ~Dma /\ ~failed /\ idsts = {} /\ ~suspended
      /\ ~current_task.idma_mode_on
  BY DEF CallInv, Plain, Dma
<1>4. Plain'
  <2>1. idsts' = idsts /\ suspended' = suspended /\ failed' = FALSE
    BY <1>1, <1>3 DEF Replies, Transfers, Accept, EndCommand, RequestData, EndData
  <2> QED
    BY <1>2, <1>3, <2>1 DEF Plain
<1>5. Unanswered' \/ Answered' \/ Moving' \/ Handling'
  BY <1>1, AnswerStep, DataStep DEF Replies, Transfers
<1>6. Staged'
  BY <1>1, <1>2, <1>5 DEF Staged
<1> QED
  BY <1>1, <1>2, <1>4, <1>6, StageEnough

-----------------------------------------------------------------------------
(* The handler.                                                            *)

(* The callback turns what the bits say into what the task says.           *)
LEMMA PostProcessCall ==
  ASSUME Orderly, TypeOK, CallInv, pc \in {"poll", "wait"},
         Answered \/ Moving, IsrPostProcess
  PROVE  Handling'
<1> USE DEF Punctual
<1> DEFINE t == current_task
           p == PostProcess(t, rintsts)
<1>1. /\ t \in Task /\ t.postproc_callback = PostCallback(cmd)
      /\ t.error_status = None /\ ~t.bus_corruption_occured
      /\ Behind /\ DataBits /\ answer \in Verdict
  BY DEF CallInv, Answered, Moving, Behind, Fresh, Fault, Corrupt, TypeOK,
     HostTypeOK
<1>2. /\ PostCallback(cmd) \in Callback
      /\ PostCallback(cmd) \in {"read", "write"} <=> WithData
      /\ PostCallback(cmd) \in {"short", "no_response"} <=> cmd \notin R1Command
      /\ WithData => cmd \in R1Command
  BY <1>1, Callbacks
<1>3. /\ current_task' = p
      /\ isr' = CASE t.postproc_callback \in {"read", "write"} -> "data"
                  [] t.postproc_callback = "r1b"               -> "busy"
                  [] OTHER                                     -> "tail"
      /\ cmd' = cmd /\ answer' = answer /\ moved' = moved /\ resp' = resp
      /\ rintsts' = rintsts /\ start_bit' = start_bit /\ cmd_path' = cmd_path
      /\ data_path' = data_path
  BY DEF IsrPostProcess, IsrKept, lines
<1>4. WithData' = WithData /\ DataBits' = DataBits /\ Behind'
  BY <1>1, <1>3 DEF WithData, DataBits, Behind
<1>5. /\ Status' = p.cmd_status /\ Fault' = p.error_status
      /\ Corrupt' = p.bus_corruption_occured
  BY <1>3 DEF Status, Fault, Corrupt
<1>6. ("CMD_DONE" \in rintsts) \/ (WithData /\ t.cmd_status \in {"READDAT", "WRITEDAT"})
  BY DEF Answered, Moving, Status, Waits
<1>7. answer = "err" <=> \/ "RTO" \in rintsts
                         \/ cmd \in R1Command /\ resp = "bad"
  BY <1>2 DEF Answered, Moving, Behind, DataBits
<1>8. /\ Bad(rintsts) => "RTO" \in rintsts \/ moved = "err"
      /\ "RTO" \in rintsts \/ (Punctual /\ moved = "err") => Bad(rintsts)
      /\ answer = "err" => rintsts \intersect DataError = {}
      /\ rintsts \intersect DataError # {} => "DAT_OVER" \in rintsts
  BY <1>1 DEF DataBits, Bad, DataError
<1>9. /\ t.cmd_status # "POLLD" /\ t.cmd_status # "ABSENT"
      /\ ~WithData => "CMD_DONE" \in rintsts
  BY <1>6 DEF Answered, Moving, Fresh, Status
<1> HIDE DEF p, t
<1>10. CASE cmd \notin R1Command
  <2>1. /\ ~WithData /\ "CMD_DONE" \in rintsts
        /\ t.postproc_callback \in {"short", "no_response"}
    BY <1>1, <1>2, <1>9, <1>10
  <2>2. /\ Spoken(p) <=> Bad(rintsts)
        /\ \/ p.cmd_status = "COMMAND_DONE"
           \/ p.cmd_status = "ABSENT" /\ p.error_status # None
    BY <1>1, <2>1, ShortSays DEF p
  <2>3. isr' = "tail"
    BY <1>3, <2>1
  <2>4. Truthful'
    BY <1>1, <1>3, <1>5, <1>7, <1>8, <1>10, <2>2 DEF Truthful, Spoken, Behind
  <2> QED
    BY <1>4, <1>5, <2>1, <2>2, <2>3, <2>4 DEF Handling
<1>11. CASE cmd \in R1Command
  <2>1. t.postproc_callback \in {"r1", "r1b", "r1_r6", "read", "write"}
    BY <1>1, <1>2, <1>11 DEF Callback
  <2>2. /\ Spoken(p) <=> Bad(rintsts) \/ resp = "bad"
        /\ rintsts \intersect DataError = {} /\ t.postproc_callback # "r1_r6"
             => ~p.bus_corruption_occured
        /\ p.cmd_status =
             IF /\ t.postproc_callback = "read"
                /\ p.error_status = None
                /\ "CMD_DONE" \in rintsts \/ t.cmd_status # "POLLD"
             THEN "READDAT"
             ELSE IF "CMD_DONE" \in rintsts THEN "COMMAND_DONE" ELSE t.cmd_status
    BY <1>1, <2>1, R1Says DEF p
  <2>3. Truthful'
    BY <1>1, <1>3, <1>5, <1>7, <1>8, <1>11, <2>2 DEF Truthful, Spoken, Behind
  <2>4. CASE WithData
    <3>1. t.postproc_callback \in {"read", "write"} /\ isr' = "data"
      BY <1>1, <1>2, <1>3, <2>4
    <3>2. answer' = "err" => Fault' # None
      BY <1>3, <1>5, <1>7, <1>8, <1>11, <2>2, <3>1 DEF Spoken
    <3>3. Status' # "ABSENT"
      BY <1>5, <1>9, <2>2
    <3>4. PostCallback(cmd)' = "read" /\ Fault' = None => Status' = "READDAT"
      BY <1>1, <1>3, <1>5, <1>9, <2>2
    <3>5. Corrupt' => "DAT_OVER" \in rintsts'
      BY <1>3, <1>5, <1>8, <2>2, <3>1
    <3> QED
      BY <1>4, <2>3, <2>4, <3>1, <3>2, <3>3, <3>4, <3>5 DEF Handling
  <2>5. CASE ~WithData
    <3>1. t.postproc_callback \notin {"read", "write"} /\ isr' \in {"busy", "tail"}
      BY <1>1, <1>2, <1>3, <2>5
    <3>2. Status' = "COMMAND_DONE"
      BY <1>5, <1>9, <2>2, <2>5, <3>1
    <3> QED
      BY <1>4, <2>3, <2>5, <3>1, <3>2 DEF Handling
  <2> QED
    BY <2>4, <2>5
<1> QED
  BY <1>10, <1>11

(* The rest of a data callback.                                            *)
LEMMA DataCallbackCall ==
  ASSUME TypeOK, CallInv, pc \in {"poll", "wait"}, Handling,
         IsrReadData \/ IsrWriteData
  PROVE  Handling'
<1> DEFINE t == current_task
<1>1. /\ t \in Task /\ ~t.idma_mode_on
      /\ t.postproc_callback = PostCallback(cmd) /\ isr = "data" /\ WithData
      /\ Behind /\ Truthful /\ Status # "ABSENT"
  BY DEF CallInv, Plain, Handling, TypeOK, IsrReadData, IsrWriteData
<1>2. /\ isr' = "tail" /\ cmd' = cmd /\ answer' = answer /\ moved' = moved
      /\ resp' = resp /\ rintsts' = rintsts /\ start_bit' = start_bit
      /\ cmd_path' = cmd_path /\ data_path' = data_path
  BY DEF IsrReadData, IsrWriteData, IsrKept, lines
<1> USE DEF Punctual
<1>3. WithData' /\ Behind' /\ Waits' = Waits
  BY <1>1, <1>2 DEF WithData, DataBits, Behind, Waits
<1>4. /\ \/ t.error_status # None /\ current_task' = t
         \/ /\ t.error_status = None
            /\ current_task' = t \/ \E s \in TaskStatus \ {"ABSENT"} :
                 current_task' = [t EXCEPT !.cmd_status = s]
      /\ t.error_status = None => current_task'.cmd_status =
           IF "DAT_OVER" \in rintsts THEN "COMMAND_DONE" ELSE Waits
  <2> USE DEF Waits
  <2>1. CASE IsrReadData
    <3>1. PostCallback(cmd) = "read"
      BY <1>1, <2>1 DEF IsrReadData
    <3>2. t.error_status = None => t.cmd_status = "READDAT"
      BY <1>1, <3>1 DEF Handling, Fault, Status
    <3>3. current_task' = IF /\ t.cmd_status = "READDAT"
                             /\ "DAT_OVER" \in rintsts
                             /\ t.error_status = None
                          THEN [t EXCEPT !.cmd_status = "COMMAND_DONE"] ELSE t
      BY <1>1, <2>1 DEF IsrReadData
    <3>4. [t EXCEPT !.cmd_status = "COMMAND_DONE"].cmd_status = "COMMAND_DONE"
      BY <1>1 DEF Task
    <3>5. "COMMAND_DONE" \in TaskStatus \ {"ABSENT"}
      BY DEF TaskStatus
    <3> QED
      BY <3>1, <3>2, <3>3, <3>4, <3>5
  <2>2. CASE IsrWriteData
    <3> DEFINE s == IF "DAT_OVER" \in rintsts THEN "COMMAND_DONE"
                                              ELSE "WRITEDAT"
    <3>1. PostCallback(cmd) = "write"
      BY <1>1, <2>2 DEF IsrWriteData
    <3>2. /\ t.error_status # None => current_task' = t
          /\ t.error_status = None => current_task' = [t EXCEPT !.cmd_status = s]
      BY <1>1, <2>2 DEF IsrWriteData
    <3>3. [t EXCEPT !.cmd_status = s].cmd_status = s
      BY <1>1 DEF Task
    <3>4. s \in TaskStatus \ {"ABSENT"}
      BY DEF TaskStatus
    <3> QED
      BY <3>1, <3>2, <3>3, <3>4
  <2> QED
    BY <2>1, <2>2
<1>5. /\ current_task'.error_status = t.error_status
      /\ current_task'.bus_corruption_occured = t.bus_corruption_occured
      /\ current_task'.cmd_status # "ABSENT"
  <2>1. \A s \in TaskStatus \ {"ABSENT"} :
          /\ [t EXCEPT !.cmd_status = s].error_status = t.error_status
          /\ [t EXCEPT !.cmd_status = s].bus_corruption_occured
               = t.bus_corruption_occured
          /\ [t EXCEPT !.cmd_status = s].cmd_status # "ABSENT"
    BY <1>1 DEF Task
  <2> QED
    BY <1>1, <1>4, <2>1 DEF Status
<1>6. Fault' = Fault /\ Corrupt' = Corrupt /\ Truthful'
  BY <1>1, <1>2, <1>5 DEF Fault, Corrupt, Truthful
<1>7. /\ Corrupt' => "DAT_OVER" \in rintsts'
      /\ Fault' = None =>
           \/ Status' = "COMMAND_DONE" /\ moved' # "none"
           \/ Status' = Waits' /\ "DAT_OVER" \notin rintsts'
  <2>1. Corrupt => "DAT_OVER" \in rintsts
    BY <1>1 DEF Handling
  <2>2. "DAT_OVER" \in rintsts => moved # "none"
    BY <1>1 DEF Behind, DataBits
  <2> QED
    BY <1>2, <1>3, <1>4, <1>6, <2>1, <2>2 DEF Fault, Status
<1>8. answer' = "err" => Fault' # None
  BY <1>1, <1>2, <1>6 DEF Handling
<1> QED
  BY <1>2, <1>3, <1>5, <1>6, <1>7, <1>8 DEF Handling, Status

(* The end of the handler decides the call, or the data still has to move. *)
LEMMA ConcludeCall ==
  ASSUME TypeOK, CallInv, pc \in {"poll", "wait"}, ~interrupt_already_done,
         Handling, isr = "tail", Conclude(current_task),
         UNCHANGED <<cmd, answer, moved, resp, lines>>
  PROVE  Staged'
<1> DEFINE t == current_task
<1>1. /\ t \in Task /\ Behind /\ Truthful /\ DataBits
      /\ answer \in Verdict /\ moved \in Verdict
  BY DEF Handling, Behind, TypeOK, HostTypeOK
<1>2. /\ interrupt_already_done' =
           (t.cmd_status = "COMMAND_DONE" \/ t.error_status # None)
      /\ current_task' = IF t.cmd_status = "COMMAND_DONE"
                         THEN [t EXCEPT !.cmd_status = "ABSENT"] ELSE t
      /\ rintsts' = {} /\ isr' = "off"
      /\ cmd' = cmd /\ answer' = answer /\ moved' = moved /\ resp' = resp
      /\ start_bit' = start_bit /\ cmd_path' = cmd_path
      /\ data_path' = data_path
  BY <1>1 DEF Conclude, lines, TypeOK
<1> USE DEF Punctual
<1>3. /\ Fault' = Fault /\ Corrupt' = Corrupt /\ WithData' = WithData
      /\ Waits' = Waits
      /\ Status' = IF Status = "COMMAND_DONE" THEN "ABSENT" ELSE Status
  BY <1>1, <1>2 DEF Fault, Corrupt, WithData, Status, Task, Waits
<1>4. Truthful'
  BY <1>1, <1>2, <1>3 DEF Truthful
<1>5. /\ ~WithData => \/ Status = "COMMAND_DONE"
                      \/ Status = "ABSENT" /\ Fault # None
      /\ WithData /\ Fault = None =>
           \/ Status = "COMMAND_DONE" /\ moved # "none"
           \/ /\ Status = Waits /\ ~Corrupt
              /\ Punctual => "DAT_OVER" \notin rintsts
      /\ answer = "err" /\ WithData => Fault # None
  BY DEF Handling
<1>6. CASE Status = "COMMAND_DONE" \/ Fault # None
  <2>1. interrupt_already_done'
    BY <1>2, <1>6 DEF Status, Fault
  <2>2. data_path = "idle"
    BY <1>1, <1>5, <1>6 DEF Truthful, DataBits, Waits
  <2>3. Calm'
    BY <1>1, <1>2, <2>2 DEF Calm, Behind
  <2>4. Fault = None => (WithData => moved # "none")
    BY <1>5, <1>6 DEF Waits
  <2>5. WithData' /\ Fault' = None => moved' # "none"
    BY <1>2, <1>3, <2>4
  <2> QED
    BY <1>3, <1>4, <1>6, <2>1, <2>3, <2>5 DEF Staged, Decided
<1>7. CASE Status # "COMMAND_DONE" /\ Fault = None
  <2>1. ~interrupt_already_done'
    BY <1>2, <1>7 DEF Status, Fault
  <2>2. WithData /\ Status = Waits /\ ~Corrupt /\ (Punctual => moved = "none")
    BY <1>1, <1>5, <1>7 DEF DataBits
  <2>3. answer = "ok"
    BY <1>1, <1>5, <1>7, <2>2 DEF Truthful, Verdict
  <2>4. /\ resp = "clean" /\ (data_path # "idle" \/ moved # "none")
        /\ data_path \in {"idle", "mine"} /\ (data_path # "idle" => moved = "none")
    BY <1>1, <2>2, <2>3 DEF DataBits
  <2>5. DataBits'
    BY <1>2, <1>3, <2>2, <2>3, <2>4 DEF DataBits
  <2>6. Behind'
    BY <1>1, <1>2, <2>5 DEF Behind
  <2>7. Status' = Waits'
    BY <1>3, <1>7, <2>2
  <2>8. Moving'
    BY <1>2, <1>3, <1>7, <2>2, <2>3, <2>6, <2>7 DEF Moving
  <2> QED
    BY <2>1, <2>8 DEF Staged
<1> QED
  BY <1>6, <1>7

LEMMA HandlerCall ==
  ASSUME Orderly, TypeOK, CallInv, Handler
  PROVE  CallInv'
<1>1. pc \in {"poll", "wait"}
  BY OnlyThread
<1>2. /\ pc' = pc /\ cmd' = cmd /\ retval' = retval
  BY DEF Handler, IsrKept, IsrDiscard, IsrPostProcess, IsrBusy,
     IsrReadData, IsrWriteData, IsrEnd, IsrPollDemand, IsrDmaReset
<1>3. ~interrupt_already_done
  <2>1. interrupt_already_done => Calm
    BY <1>1 DEF CallInv, Staged, Decided
  <2> QED
    BY <2>1, CalmQuiet
<1>4. Unanswered \/ Answered \/ Moving \/ Handling
  BY <1>1, <1>3 DEF CallInv, Staged
<1>5. /\ idsts = {} /\ ~suspended /\ ~failed /\ ~current_task.idma_mode_on
      /\ current_task \in Task
  BY DEF CallInv, Plain, TypeOK
<1>6. Unanswered => ~Interrupt /\ isr = "off"
  BY <1>5 DEF Unanswered, Interrupt
<1>7. ~Unanswered
  BY <1>6 DEF Handler, IsrDiscard, IsrPostProcess, IsrBusy, IsrReadData,
     IsrWriteData, IsrEnd, IsrPollDemand, IsrDmaReset
<1>8. (Answered \/ Moving) => isr = "off" /\ Status # "ABSENT"
  BY DEF Answered, Moving, Fresh, Waits
<1>9. Handling => isr # "off"
  BY DEF Handling
<1> SUFFICES /\ Plain' /\ Staged'
             /\ current_task'.postproc_callback = current_task.postproc_callback
  BY <1>1, <1>2, StageEnough
<1>10. CASE IsrDiscard
  BY <1>4, <1>7, <1>8, <1>9, <1>10 DEF IsrDiscard, Status
<1>11. CASE IsrPostProcess
  <2>1. Answered \/ Moving
    BY <1>4, <1>7, <1>9, <1>11 DEF IsrPostProcess
  <2>2. Handling'
    BY <1>1, <1>11, <2>1, PostProcessCall
  <2>3. /\ current_task' = PostProcess(current_task, rintsts)
        /\ idsts' = idsts /\ suspended' = suspended /\ failed' = failed
        /\ interrupt_already_done' = interrupt_already_done
    BY <1>11 DEF IsrPostProcess, lines
  <2>4. /\ PostProcess(current_task, rintsts).idma_mode_on
             = current_task.idma_mode_on
        /\ PostProcess(current_task, rintsts).postproc_callback
             = current_task.postproc_callback
    <3>1. /\ Fault = None /\ ~Corrupt
          /\ current_task.postproc_callback = PostCallback(cmd)
          /\ PostCallback(cmd) \in Callback
          /\ PostCallback(cmd) \in {"read", "write"} <=> WithData
      BY <1>1, <2>1, Callbacks DEF CallInv, Answered, Moving, Fresh
    <3>2. "CMD_DONE" \in rintsts \/ WithData
      BY <2>1 DEF Answered, Moving
    <3> QED
      BY <1>5, <3>1, <3>2, ShortSays, R1Says DEF Callback, Fault, Corrupt
  <2> QED
    BY <1>3, <1>5, <2>2, <2>3, <2>4 DEF Plain, Staged
<1>12. CASE IsrBusy
  <2>1. Handling /\ isr = "busy"
    BY <1>4, <1>7, <1>8, <1>12 DEF IsrBusy
  <2>2. /\ isr' = "tail" /\ current_task' = current_task /\ answer' = answer
        /\ moved' = moved /\ resp' = resp /\ rintsts' = rintsts
        /\ idsts' = idsts /\ lines' = lines
        /\ interrupt_already_done' = interrupt_already_done
    BY <1>12 DEF IsrBusy, IsrKept, lines
  <2>3. Handling'
    BY <1>2, <2>1, <2>2 DEF Handling, Behind, DataBits, Truthful, WithData,
       Status, Fault, Corrupt, lines, Waits, Punctual
  <2> QED
    BY <1>3, <1>5, <2>2, <2>3 DEF Plain, Staged, lines
<1>13. CASE IsrReadData \/ IsrWriteData
  <2>1. Handling
    BY <1>4, <1>7, <1>8, <1>13 DEF IsrReadData, IsrWriteData
  <2>2. Handling'
    BY <1>1, <1>13, <2>1, DataCallbackCall
  <2>3. /\ suspended' = suspended /\ failed' = failed
        /\ interrupt_already_done' = interrupt_already_done
    BY <1>13 DEF IsrReadData, IsrWriteData, lines
  <2>4. idsts' = {} /\ \/ current_task' = current_task
                       \/ \E s : current_task' = [current_task EXCEPT !.cmd_status = s]
    <3>1. CASE IsrReadData
      BY <1>5, <3>1 DEF IsrReadData
    <3>2. CASE IsrWriteData
      BY <1>5, <3>2 DEF IsrWriteData
    <3> QED
      BY <1>13, <3>1, <3>2
  <2>5. /\ ~current_task'.idma_mode_on
        /\ current_task'.postproc_callback = current_task.postproc_callback
    BY <1>5, <2>4 DEF Task
  <2> QED
    BY <1>3, <1>5, <2>2, <2>3, <2>4, <2>5 DEF Plain, Staged
<1>14. CASE IsrEnd
  <2>1. Handling
    BY <1>4, <1>7, <1>8, <1>14 DEF IsrEnd
  <2>2. Conclude(current_task) /\ idsts' \in {{}, idsts}
    BY <1>5, <1>14 DEF IsrEnd
  <2>3. UNCHANGED <<cmd, answer, moved, resp, lines>> /\ isr = "tail"
    BY <1>14 DEF IsrEnd, IsrKept
  <2>4. Staged'
    BY <1>1, <1>3, <2>1, <2>2, <2>3, ConcludeCall
  <2>5. /\ ~current_task'.idma_mode_on
        /\ current_task'.postproc_callback = current_task.postproc_callback
    BY <1>5, <2>2 DEF Conclude, Task
  <2> QED
    BY <1>5, <2>2, <2>3, <2>4, <2>5 DEF Plain, lines
<1>15. ~IsrPollDemand /\ ~IsrDmaReset
  BY <1>5 DEF IsrPollDemand, IsrDmaReset, Unavailable
<1> QED
  BY <1>10, <1>11, <1>12, <1>13, <1>14, <1>15 DEF Handler

-----------------------------------------------------------------------------
(* The thread.                                                             *)

LEMMA ReturnCall ==
  ASSUME TypeOK, CallInv, NEW value \in Error \union {"OK"}, Return(value),
         Decided, pc \in {"check", "remove"}, ~interrupt_already_done,
         value = "OK" <=> Fault = None,
         current_task' = current_task \/
           current_task' = [current_task EXCEPT !.cmd_status = "ABSENT"],
         Fault # None => current_task'.cmd_status = "ABSENT",
         UNCHANGED <<hostVars, isr, interrupt_already_done>>
  PROVE  CallInv'
<1>1. /\ current_task \in Task /\ retval = None /\ Plain
  BY DEF CallInv, TypeOK
<1>2. /\ Fault' = Fault /\ Corrupt' = Corrupt /\ Status' = "ABSENT"
      /\ current_task'.idma_mode_on = current_task.idma_mode_on
  BY <1>1 DEF Fault, Corrupt, Status, Task, Decided
<1>3. Plain' /\ Calm' /\ Truthful' /\ ~interrupt_already_done'
  BY <1>1, <1>2 DEF Plain, Calm, Truthful, Decided, hostVars
<1>4. CASE outer = None
  <2>1. pc' = "idle" /\ retval' = value /\ cmd' = cmd
    BY <1>4 DEF Return
  <2>2. WithData' = WithData /\ moved' = moved
    BY <2>1 DEF WithData, hostVars
  <2> QED
    BY <1>2, <1>3, <2>1, <2>2 DEF CallInv, Decided
<1>5. CASE outer # None
  <2>1. pc' = "task" /\ retval' = None
    BY <1>1, <1>5 DEF Return
  <2> QED
    BY <1>2, <1>3, <2>1 DEF CallInv
<1> QED
  BY <1>4, <1>5

LEMMA ThreadCall ==
  ASSUME Orderly, TypeOK, CallInv, Thread
  PROVE  CallInv'
<1>0. /\ Plain /\ current_task \in Task
      /\ pc \notin {"poll", "wait"} => Calm /\ ~interrupt_already_done
  BY DEF CallInv, TypeOK
<1>1. CASE SetEnumStatus
  BY <1>1 DEF SetEnumStatus, At, hostVars, CallInv, Plain, Calm, Truthful,
     Status, Fault, Corrupt, WithData
<1>2. ASSUME NEW c \in Commands, Send(c)  PROVE CallInv'
  <2>1. /\ pc = "idle" /\ Calm /\ ~interrupt_already_done /\ Status = "ABSENT"
    BY <1>0, <1>2 DEF Send, At, CallInv
  <2>2. /\ pc' \in {"idle", "form"}
        /\ pc' = "idle" => retval' = "ERRCARDNOTCONN"
        /\ pc' = "form" => retval' = None
        /\ interrupt_already_done' = interrupt_already_done
    BY <1>2, <2>1 DEF Send, TypeOK
  <2>3. [current_task EXCEPT
           !.idma_mode_on = @ \/ (Idmac /\ c \in DataCommand)] = current_task
    BY <1>0 DEF Orderly, Plain, Task
  <2>4. current_task' = current_task
    BY <1>2, <2>3 DEF Send
  <2>5. Plain' /\ Calm' /\ Status' = "ABSENT"
    BY <1>0, <1>2, <2>1, <2>4 DEF Send, behindGate, Plain, Calm, Status
  <2>6. "ERRCARDNOTCONN" \notin Error \union {"OK"}
    BY DEF Error
  <2> QED
    BY <2>1, <2>2, <2>5, <2>6 DEF CallInv
<1>3. CASE NotSupported
  <2>1. /\ pc' = "idle" /\ retval' = "ERRNOTSUPPORTED"
        /\ Plain' /\ Calm' /\ Status' = "ABSENT" /\ ~interrupt_already_done'
    BY <1>0, <1>3 DEF NotSupported, At, behindGate, CallInv, Plain, Calm, Status
  <2>2. "ERRNOTSUPPORTED" \notin Error \union {"OK"}
    BY DEF Error
  <2> QED
    BY <2>1, <2>2 DEF CallInv
<1>4. CASE Preprocess
  <2>1. /\ pc' \in {"form", "task"} /\ retval' = None
        /\ Plain' /\ Calm' /\ Status' = "ABSENT" /\ ~interrupt_already_done'
    BY <1>0, <1>4 DEF Preprocess, At, behindGate, CallInv, Plain, Calm, Status
  <2> QED
    BY <2>1 DEF CallInv
<1>5. CASE SetCurrentTask
  <2>1. /\ current_task'.postproc_callback = PostCallback(cmd)
        /\ current_task'.cmd_status = "STARTED"
        /\ current_task'.error_status = None
        /\ ~current_task'.bus_corruption_occured
        /\ ~current_task'.idma_mode_on
    BY <1>0, <1>5 DEF SetCurrentTask, Plain, Task
  <2>2. /\ pc' = "exec" /\ retval' = None /\ cmd' = cmd
        /\ Plain' /\ Calm' /\ ~interrupt_already_done'
    BY <1>0, <1>5, <2>1 DEF SetCurrentTask, At, hostVars, CallInv, Plain, Calm
  <2> QED
    BY <2>1, <2>2 DEF CallInv, Fresh, Status, Fault, Corrupt
<1>6. CASE Execute
  <2>1. /\ pc' = "poll" /\ retval' = None /\ ~interrupt_already_done' /\ Plain'
        /\ current_task'.postproc_callback = PostCallback(cmd')
        /\ Fresh /\ current_task' = current_task
    BY <1>0, <1>6 DEF Execute, At, CallInv, Plain
  <2>2. Unanswered'
    <3>1. Calm
      BY <1>0, <1>6 DEF Execute, At
    <3> QED
      BY <1>6, <2>1, <3>1 DEF Execute, LoadCommand, Disown, Calm, Unanswered,
         Fresh, Status, Fault, Corrupt
  <2> QED
    BY <2>1, <2>2 DEF CallInv, Staged
<1>7. CASE Polled
  <2>1. /\ pc' = "wait" /\ pc = "poll" /\ retval' = retval /\ cmd' = cmd
        /\ current_task' = current_task /\ Plain'
        /\ Staged /\ current_task.postproc_callback = PostCallback(cmd)
        /\ retval = None
    BY <1>0, <1>7 DEF Polled, At, behindGate, CallInv, Plain
  <2>2. Staged'
    BY <1>7, <2>1 DEF Polled, behindGate, Staged, Unanswered, Answered, Moving,
       Handling, Decided, Calm, Behind, DataBits, Truthful, Fresh, Status, Fault,
       Corrupt, WithData, Waits, Punctual
  <2> QED
    BY <2>1, <2>2 DEF CallInv
<1>8. CASE Wake
  <2>1. Decided /\ pc' = "check" /\ retval' = None /\ ~interrupt_already_done'
    BY <1>8 DEF Wake, At, CallInv, Staged
  <2>2. Plain' /\ Decided' /\ Calm'
    BY <1>0, <1>8, <2>1 DEF Wake, hostVars, Plain, Decided, Calm, Truthful,
       Status, Fault, Corrupt, WithData
  <2> QED
    BY <2>1, <2>2 DEF CallInv
<1>9. CASE CheckStatus
  <2>1. Decided /\ ~interrupt_already_done /\ pc = "check"
    BY <1>0, <1>9 DEF CheckStatus, At, CallInv
  <2>2. CASE Fault = None
    <3>1. /\ Return("OK") /\ current_task' = current_task
          /\ UNCHANGED <<hostVars, isr, interrupt_already_done>>
      BY <1>9, <2>2 DEF CheckStatus, Fault
    <3> QED
      BY <2>1, <2>2, <3>1, ReturnCall
  <2>3. CASE Fault # None
    <3>1. /\ pc' = "remove" /\ seen' = Fault /\ retval' = None
          /\ current_task' = current_task
          /\ UNCHANGED <<hostVars, isr, interrupt_already_done>>
          /\ cmd' = cmd
      BY <1>9, <2>1, <2>3 DEF CheckStatus, Fault, CallInv
    <3>2. /\ Plain' /\ Decided' /\ Calm' /\ Fault' = Fault
      BY <1>0, <2>1, <3>1 DEF hostVars, Plain, Decided, Calm, Truthful,
         Status, Fault, Corrupt, WithData
    <3> QED
      BY <2>1, <2>3, <3>1, <3>2 DEF CallInv
  <2> QED
    BY <2>2, <2>3
<1>10. CASE RemoveCommand
  <2>1. /\ Decided /\ ~interrupt_already_done /\ pc = "remove"
        /\ seen = Fault /\ Fault # None /\ seen \in Error
    BY <1>0, <1>10 DEF RemoveCommand, At, CallInv, TypeOK
  <2>2. "OK" \notin Error
    BY DEF Error
  <2>3. /\ Return(seen)
        /\ current_task' = [current_task EXCEPT !.cmd_status = "ABSENT"]
        /\ UNCHANGED <<hostVars, isr, interrupt_already_done>>
    BY <1>10 DEF RemoveCommand
  <2>4. current_task'.cmd_status = "ABSENT"
    BY <1>0, <2>3 DEF Task
  <2> QED
    BY <2>1, <2>2, <2>3, <2>4, ReturnCall
<1> QED
  BY <1>1, <1>2, <1>3, <1>4, <1>5, <1>6, <1>7, <1>8, <1>9, <1>10 DEF Thread

-----------------------------------------------------------------------------

LEMMA CallCorrect ==
  ASSUME Orderly
  PROVE  Spec => []CallInv
<1>1. Init => CallInv
  <2> SUFFICES ASSUME Init  PROVE CallInv
    OBVIOUS
  <2>1. Plain /\ Calm /\ Status = "ABSENT" /\ ~interrupt_already_done
    BY DEF Init, HostInit, Plain, Calm, Status
  <2>2. pc = "idle" /\ retval = None /\ None \notin Error \union {"OK"}
    BY DEF Init, None, Error
  <2> QED
    BY <2>1, <2>2 DEF CallInv
<1>2. TypeOK /\ CallInv /\ [Next]_vars => CallInv'
  <2> SUFFICES ASSUME TypeOK, CallInv, [Next]_vars  PROVE CallInv'
    OBVIOUS
  <2>1. CASE UNCHANGED vars
    BY <2>1 DEF vars, hostVars, driverVars, CallInv, Staged, Unanswered, Answered,
       Moving, Handling, Decided, Calm, Behind, DataBits, Truthful, Fresh,
       Status, Fault, Corrupt, WithData, Plain, Waits, Punctual
  <2> QED
    BY <2>1, ThreadCall, HandlerCall, ControllerCall DEF Next
<1> QED
  BY <1>1, <1>2, TypeCorrect, PTL DEF Spec

(* On an orderly controller without the DMA a call that returned success   *)
(* had its own command answered, whenever the bits of the transfer come    *)
(* (emmc.c:742) ...                                                        *)
THEOREM SuccessIsAnswered ==
  ASSUME Orderly
  PROVE  Spec => []SuccessMeansAnswered
<1>1. TypeOK /\ CallInv => SuccessMeansAnswered
  <2> SUFFICES ASSUME TypeOK, CallInv, retval = "OK"
               PROVE  answer = "ok" \/ Corrupt
    BY DEF SuccessMeansAnswered, Corrupt
  <2>1. pc = "idle"
    BY DEF CallInv, None
  <2>2. Truthful /\ Fault = None
    BY <2>1 DEF CallInv
  <2> QED
    BY <2>2 DEF Truthful, TypeOK, HostTypeOK, Verdict
<1> QED
  BY <1>1, TypeCorrect, CallCorrect, PTL

(* ... and, if the controller is punctual too, its data moved, unless it   *)
(* says that the bus corrupted it.                                         *)
THEOREM SuccessHasMoved ==
  ASSUME Orderly, Punctual
  PROVE  Spec => []SuccessMeansMoved
<1>1. TypeOK /\ CallInv => SuccessMeansMoved
  <2> SUFFICES ASSUME TypeOK, CallInv, retval = "OK", WithData
               PROVE  moved = "ok" \/ Corrupt
    BY DEF SuccessMeansMoved, Corrupt, WithData
  <2>1. pc = "idle"
    BY DEF CallInv, None
  <2>2. Truthful /\ Fault = None /\ moved # "none"
    BY <2>1 DEF CallInv
  <2> QED
    BY <2>2 DEF Truthful, TypeOK, HostTypeOK, Verdict
<1> QED
  BY <1>1, TypeCorrect, CallCorrect, PTL

(* No wake-up of an earlier command waits for the thread when it sends the *)
(* next.                                                                   *)
THEOREM NoWakeupLeftOver ==
  ASSUME Orderly
  PROVE  Spec => []NoStaleWakeup
<1>1. CallInv => NoStaleWakeup
  BY DEF CallInv, NoStaleWakeup
<1> QED
  BY <1>1, CallCorrect, PTL

(* Between two calls the handler has no task to serve.                     *)
THEOREM IdleHasNoTask ==
  ASSUME Orderly
  PROVE  Spec => []NothingInFlightWhenIdle
<1>1. CallInv => NothingInFlightWhenIdle
  BY DEF CallInv, NothingInFlightWhenIdle, Status
<1> QED
  BY <1>1, CallCorrect, PTL

(* The thread leaves its wait only when its command was answered.          *)
THEOREM WokenByAnswer ==
  ASSUME Orderly
  PROVE  Spec => WakeNeedsAnswer
<1>1. CallInv /\ [Next]_vars
        => [pc = "wait" /\ pc' = "check" => answer # "none"]_vars
  <2> SUFFICES ASSUME CallInv, Next, pc = "wait", pc' = "check"
               PROVE  answer # "none"
    BY DEF vars
  <2>1. Wake
    <3>1. Thread
      BY DEF Next, Handler, IsrKept, IsrDiscard, IsrPostProcess, IsrBusy,
         IsrReadData, IsrWriteData, IsrEnd, IsrPollDemand, IsrDmaReset,
         Controller, driverVars
    <3> QED
      BY <3>1 DEF Thread, At, SetEnumStatus, Send, NotSupported, Preprocess,
         SetCurrentTask, Execute, Polled, CheckStatus, RemoveCommand
  <2>2. Decided
    BY <2>1 DEF Wake, CallInv, Staged
  <2> QED
    BY <2>2 DEF Decided, Truthful
<1> QED
  BY <1>1, CallCorrect, PTL DEF Spec, WakeNeedsAnswer

-----------------------------------------------------------------------------
(* Refinement.  Step says what a step of the driver is to the caller.      *)

View == <<IF pc = "idle" THEN "free" ELSE "open", Known, retval>>
Step == [Service!Next]_View

LEMMA KnownKept ==
  ASSUME UNCHANGED <<pc, retval, cmd, answer, moved>>, Corrupt' = Corrupt
  PROVE  UNCHANGED View
  BY DEF View, Known, Corrupt

LEMMA KnownInCall ==
  ASSUME pc \in {"poll", "wait", "check", "remove"},
         answer \in Verdict, moved \in Verdict
  PROVE  Known = IF answer = "err" \/ moved = "err"
                 THEN IF Corrupt THEN "doubt" ELSE "err"
                 ELSE IF moved = "none" /\ WithData THEN None ELSE answer
<1>1. pc \notin {"form", "task", "exec", "idle"}
  OBVIOUS
<1> QED
  BY <1>1 DEF Known, Corrupt, WithData

(* A call that ends says of its command what the card did.                 *)
LEMMA CloseStep ==
  ASSUME TypeOK, CallInv, NEW value \in Error \union {"OK"}, Return(value),
         Decided, pc \in {"check", "remove"}, value = "OK" <=> Fault = None,
         Corrupt' = Corrupt, UNCHANGED <<answer, moved>>, Punctual
  PROVE  Step
<1>1. /\ answer \in Verdict /\ moved \in Verdict /\ answer # "none"
      /\ (answer = "err" \/ moved = "err") <=> (Fault # None \/ Corrupt)
      /\ Fault = None => (WithData => moved # "none")
  BY DEF TypeOK, HostTypeOK, Decided, Truthful
<1> DEFINE known == IF answer = "err" \/ moved = "err"
                    THEN IF Corrupt THEN "doubt" ELSE "err"
                    ELSE IF moved = "none" /\ WithData THEN None ELSE answer
<1>2. Known = known
  BY <1>1, KnownInCall
<1>3. CASE outer = None
  <2>1. pc' = "idle" /\ retval' = value /\ cmd' = cmd
    BY <1>3 DEF Return
  <2>2. /\ ~(pc' = "idle" /\ retval' \in {None, "ERRNOTSUPPORTED", "ERRCARDNOTCONN"})
        /\ pc' \notin {"form", "task", "exec"}
    BY <2>1 DEF Error, None
  <2>3. Known' = Known
    <3>1. /\ pc \notin {"form", "task", "exec"} /\ pc # "idle"
      OBVIOUS
    <3> QED
      BY <2>1, <2>2, <3>1 DEF Known, Corrupt
  <2>4. \/ value = "OK" /\ known \in {"ok", "doubt"}
        \/ value \in Error /\ known \in {"err", "doubt"}
    BY <1>1 DEF Verdict
  <2> QED
    BY <1>2, <2>1, <2>3, <2>4 DEF Step, Service!Next, Service!Close
<1>4. CASE outer # None
  <2>1. pc' = "task" /\ retval' = retval
    BY <1>4 DEF Return
  <2>2. Known' = None
    BY <2>1 DEF Known
  <2> QED
    BY <2>1, <2>2 DEF Step, Service!Next, Service!PrefixDone, Service!Pending, None
<1> QED
  BY <1>3, <1>4

LEMMA ThreadStep ==
  ASSUME Punctual, TypeOK, CallInv, Thread
  PROVE  Step
<1>1. CASE SetEnumStatus
  BY <1>1, KnownKept DEF SetEnumStatus, hostVars, Corrupt, Step
<1>2. ASSUME NEW c \in Commands, Send(c)  PROVE Step
  <2>1. CASE enum_status # None
    <3>1. pc = "idle" /\ pc' = "idle" /\ retval' = "ERRCARDNOTCONN"
      BY <1>2, <2>1 DEF Send, At, TypeOK
    <3>2. Known' = None
      BY <3>1 DEF Known
    <3> QED
      BY <3>1, <3>2 DEF Step, Service!Next, Service!Refuse, Service!Pending, None
  <2>2. CASE enum_status = None
    <3>1. pc = "idle" /\ pc' = "form" /\ retval' = None
      BY <1>2, <2>2 DEF Send, At
    <3>2. Known' = None
      BY <3>1 DEF Known
    <3> QED
      BY <3>1, <3>2 DEF Step, Service!Next, Service!Open, Service!Pending, None
  <2> QED
    BY <2>1, <2>2
<1>3. CASE NotSupported
  <2>1. pc = "form" /\ pc' = "idle" /\ retval' = "ERRNOTSUPPORTED"
    BY <1>3 DEF NotSupported, At
  <2>2. Known = None /\ Known' = None
    BY <2>1 DEF Known
  <2> QED
    BY <2>1, <2>2 DEF Step, Service!Next, Service!Close, Service!Pending, None
<1>4. CASE Preprocess
  <2>1. pc = "form" /\ pc' \in {"form", "task"} /\ retval' = retval
    BY <1>4 DEF Preprocess, At
  <2>2. Known = None /\ Known' = None
    BY <2>1 DEF Known
  <2> QED
    BY <2>1, <2>2 DEF Step, View
<1>5. CASE SetCurrentTask
  <2>1. pc = "task" /\ pc' = "exec" /\ retval' = retval
    BY <1>5 DEF SetCurrentTask, At
  <2>2. Known = None /\ Known' = None
    BY <2>1 DEF Known
  <2> QED
    BY <2>1, <2>2 DEF Step, View
<1>6. CASE Execute
  <2>1. /\ pc = "exec" /\ pc' = "poll" /\ retval' = retval
        /\ answer' = "none" /\ moved' = "none"
    BY <1>6 DEF Execute, At, LoadCommand
  <2>2. Known = None /\ Known' = None
    BY <2>1 DEF Known, None
  <2> QED
    BY <2>1, <2>2 DEF Step, View
<1>7. CASE Polled
  <2>1. pc = "poll" /\ pc' = "wait"
    BY <1>7 DEF Polled, At
  <2>2. Known' = Known
    BY <1>7, <2>1 DEF Known, Polled, behindGate
  <2> QED
    BY <1>7, <2>1, <2>2 DEF Step, View, Polled
<1>8. CASE Wake
  <2>1. pc = "wait" /\ pc' = "check"
    BY <1>8 DEF Wake, At
  <2>2. Known' = Known
    BY <1>8, <2>1 DEF Known, Wake, hostVars
  <2> QED
    BY <1>8, <2>1, <2>2 DEF Step, View, Wake
<1>9. CASE CheckStatus
  <2>1. pc = "check" /\ Decided /\ UNCHANGED <<current_task, answer, moved>>
    BY <1>9 DEF CheckStatus, At, CallInv, hostVars
  <2>2. CASE Fault = None
    BY <1>9, <2>1, <2>2, CloseStep DEF CheckStatus, Fault, Corrupt
  <2>3. CASE Fault # None
    <3>1. pc' = "remove" /\ cmd' = cmd /\ retval' = retval
      BY <1>9, <2>3 DEF CheckStatus, Fault
    <3>2. Known' = Known
      BY <2>1, <3>1 DEF Known
    <3> QED
      BY <2>1, <3>1, <3>2 DEF Step, View
  <2> QED
    BY <2>2, <2>3
<1>10. CASE RemoveCommand
  <2>1. /\ pc = "remove" /\ Decided /\ UNCHANGED <<answer, moved>>
        /\ seen = Fault /\ Fault # None /\ seen \in Error /\ current_task \in Task
    BY <1>10 DEF RemoveCommand, At, CallInv, TypeOK, hostVars
  <2>2. Corrupt' = Corrupt /\ Return(seen)
    BY <1>10, <2>1 DEF RemoveCommand, Corrupt, Task
  <2>3. "OK" \notin Error
    BY DEF Error
  <2> QED
    BY <2>1, <2>2, <2>3, CloseStep
<1> QED
  BY <1>1, <1>2, <1>3, <1>4, <1>5, <1>6, <1>7, <1>8, <1>9, <1>10 DEF Thread

(* Of what the caller knows the handler changes one thing: it may turn a   *)
(* failure into a corruption.                                              *)
LEMMA HandlerStep ==
  ASSUME Orderly, TypeOK, CallInv, Handler
  PROVE  Step
<1>1. /\ pc \in {"poll", "wait"} /\ answer \in Verdict /\ moved \in Verdict
      /\ current_task \in Task
  BY OnlyThread DEF TypeOK, HostTypeOK
<1>2. UNCHANGED <<pc, cmd, retval, answer, moved>>
  BY DEF Handler, IsrKept, IsrDiscard, IsrPostProcess, IsrBusy,
     IsrReadData, IsrWriteData, IsrEnd, IsrPollDemand, IsrDmaReset
<1>3. ~current_task.idma_mode_on
  BY DEF CallInv, Plain
<1>4. CASE IsrPostProcess
  <2>1. ~Corrupt
    <3>1. isr = "off" /\ Interrupt
      BY <1>4 DEF IsrPostProcess
    <3>2. ~interrupt_already_done
      BY <1>1, <3>1 DEF CallInv, Plain, Staged, Decided, Calm, Interrupt
    <3> QED
      BY <1>1, <3>1, <3>2 DEF CallInv, Staged, Unanswered, Answered, Moving,
         Handling, Fresh
  <2>2. CASE Corrupt' /\ (answer = "err" \/ moved = "err")
    <3>1. Known = "err" /\ Known' = "doubt"
      <4>1. pc \notin {"form", "task", "exec", "idle"}
        BY <1>1
      <4> QED
        BY <1>2, <2>1, <2>2, <4>1 DEF Known, Corrupt
    <3>2. pc # "idle" /\ pc' # "idle" /\ retval' = retval
      BY <1>1, <1>2
    <3> QED
      BY <3>1, <3>2 DEF Step, Service!Next, Service!Doubt
  <2>3. CASE ~Corrupt'
    <3>1. pc \notin {"form", "task", "exec", "idle"}
      BY <1>1
    <3>2. Known' = Known
      BY <1>2, <2>1, <2>3, <3>1 DEF Known, Corrupt
    <3> QED
      BY <1>2, <3>2 DEF Step, View
  <2>4. CASE ~(answer = "err" \/ moved = "err")
    <3>1. pc \notin {"form", "task", "exec", "idle"}
      BY <1>1
    <3>2. Known' = Known
      BY <1>2, <2>4, <3>1 DEF Known
    <3> QED
      BY <1>2, <3>2 DEF Step, View
  <2> QED
    BY <2>2, <2>3, <2>4
<1>5. CASE ~IsrPostProcess
  <2>1. Corrupt' = Corrupt
    <3>1. CASE IsrEnd
      <4>1. Conclude(current_task)
        BY <1>3, <3>1 DEF IsrEnd
      <4> QED
        BY <1>1, <4>1 DEF Conclude, Corrupt, Task
    <3>2. CASE IsrReadData \/ IsrWriteData
      BY <1>1, <1>3, <3>2 DEF IsrReadData, IsrWriteData, Corrupt, Task
    <3>3. CASE IsrDiscard \/ IsrBusy
      BY <3>3 DEF IsrDiscard, IsrBusy, Corrupt
    <3> QED
      BY <1>3, <1>5, <3>1, <3>2, <3>3
         DEF Handler, IsrPollDemand, IsrDmaReset, Unavailable
  <2> QED
    BY <1>2, <2>1, KnownKept DEF Step
<1> QED
  BY <1>4, <1>5

(* The controller settles the command when it answers it, and a data       *)
(* command when its transfer ends.                                         *)
LEMMA ControllerStep ==
  ASSUME Orderly, Punctual, TypeOK, CallInv, Controller
  PROVE  Step
<1>1. /\ pc \in {"poll", "wait"} /\ UNCHANGED driverVars
      /\ \/ Replies /\ Unanswered
         \/ Transfers /\ (Answered \/ Moving)
  BY ControllerSteps
<1>2. /\ UNCHANGED <<pc, cmd, retval, current_task>> /\ ~Dma
      /\ answer \in Verdict /\ moved \in Verdict
      /\ pc \notin {"form", "task", "exec", "idle"}
  BY <1>1 DEF driverVars, CallInv, Plain, Dma, TypeOK, HostTypeOK
<1>3. ~Corrupt /\ Corrupt' = Corrupt
  BY <1>1, <1>2 DEF Corrupt, Unanswered, Answered, Moving, Fresh
<1>4. \/ UNCHANGED <<answer, moved>>
      \/ answer = "none" /\ moved = "none" /\ moved' = moved
         /\ answer' \in {"ok", "err"}
      \/ answer = "ok" /\ moved = "none" /\ WithData /\ answer' = answer
         /\ moved' \in {"ok", "err"}
  <2>1. CASE Replies /\ Unanswered
    BY <2>1 DEF Replies, Accept, EndCommand, Unanswered
  <2>2. CASE Transfers /\ (Answered \/ Moving)
    <3>1. DataBits /\ answer # "none"
      BY <2>2 DEF Answered, Moving, Behind
    <3>2. CASE RequestData(Quiet, Dma)
      BY <3>2 DEF RequestData
    <3>3. ASSUME NEW es \in {{}} \union {{e} : e \in DataError},
                 EndData(Quiet, Dma, es)
          PROVE  answer = "ok" /\ moved = "none" /\ WithData /\ answer' = answer
                 /\ moved' \in {"ok", "err"}
      <4>1. data_path = "mine" /\ moved = "none"
        BY <3>1, <3>3 DEF EndData, DataBits
      <4>2. answer = "ok" /\ WithData
        BY <1>2, <3>1, <4>1 DEF DataBits, Verdict
      <4> QED
        BY <3>3, <4>1, <4>2 DEF EndData
    <3> QED
      BY <2>2, <3>2, <3>3 DEF Transfers
  <2> QED
    BY <1>1, <2>1, <2>2
<1>5. CASE UNCHANGED <<answer, moved>>
  BY <1>2, <1>3, <1>5, KnownKept DEF Step
<1>6. CASE answer = "none" /\ moved = "none" /\ moved' = moved
           /\ answer' \in {"ok", "err"}
  <2>1. Known = None
    BY <1>2, <1>6 DEF Known, None
  <2>2. Known' \in {None, "ok", "err"}
    BY <1>2, <1>3, <1>6 DEF Known, Corrupt
  <2> QED
    BY <1>2, <2>1, <2>2
       DEF Step, View, Service!Next, Service!Settle, Service!Pending, None
<1>7. CASE answer = "ok" /\ moved = "none" /\ WithData /\ answer' = answer
           /\ moved' \in {"ok", "err"}
  <2>1. Known = None
    BY <1>2, <1>7 DEF Known, WithData
  <2>2. Known' \in {"ok", "err"}
    BY <1>2, <1>3, <1>7 DEF Known, Corrupt
  <2> QED
    BY <1>2, <2>1, <2>2
       DEF Step, Service!Next, Service!Settle, Service!Pending, None
<1> QED
  BY <1>4, <1>5, <1>6, <1>7

(* On an orderly and punctual controller the driver implements             *)
(* CommandService: at most one command is open, and what its call returns  *)
(* agrees with what the card did.                                          *)
THEOREM DriverImplementsService ==
  ASSUME Orderly, Punctual
  PROVE  Spec => ServiceRefined
<1>1. Init => Service!Init
  <2> SUFFICES ASSUME Init  PROVE Service!Init
    OBVIOUS
  <2>1. pc = "idle" /\ retval = None
    BY DEF Init
  <2>2. Known = None
    BY <2>1 DEF Known
  <2> QED
    BY <2>1, <2>2 DEF Service!Init, Service!Pending, None
<1>2. TypeOK /\ CallInv /\ [Next]_vars => [Service!Next]_View
  <2> SUFFICES ASSUME TypeOK, CallInv, [Next]_vars  PROVE Step
    BY DEF Step
  <2>1. CASE UNCHANGED vars
    <3>1. UNCHANGED <<pc, retval, cmd, answer, moved>> /\ Corrupt' = Corrupt
      BY <2>1 DEF vars, hostVars, driverVars, Corrupt
    <3> QED
      BY <3>1, KnownKept DEF Step
  <2> QED
    BY <2>1, ThreadStep, HandlerStep, ControllerStep DEF Next
<1> QED
  BY <1>1, <1>2, TypeCorrect, CallCorrect, PTL
     DEF Spec, ServiceRefined, Service!Spec, Service!serviceVars, View
=============================================================================
