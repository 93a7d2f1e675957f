-------------------------- MODULE TwiMasterProofs --------------------------
(***************************************************************************)
(* Theorems about TwiMaster for a buffer of any length, when the bus is    *)
(* slower than the few instructions from a command to the wait for it.     *)
(***************************************************************************)
EXTENDS TwiMaster, TLAPS

(* What the caller asked for, from the preparation of the transaction on.  *)
Prepared ==
  /\ length = op.len /\ twi_sendStop = op.stop
  /\ op.write => \A i \in Slot : i < op.len => buffer[i] = <<"out", i>>

(* The first n bytes of the buffer are those the device sent.              *)
Received(n) == \A i \in 0..(n - 1) : buffer[i] = <<page, i>>

-----------------------------------------------------------------------------
(* The stages of a call.                                                   *)

Resting == pc \in {"idle", "busy"} \/ (pc = "wait" /\ twi_state = "READY")
Setting == pc \in {"command", "state"}
Running == pc \in {"flag", "wait"} /\ twi_state # "READY"

(* Between transactions: the bus is ours only to stop it or to go on.      *)
AtRest ==
  /\ twi_state = "READY" /\ ~inten
  /\ cmd \in {"none", "STOP", "START"}
  /\ cmd = "STOP" => busy = "ours" /\ ~twi_inRepStart
  /\ cmd = "START" => twi_inRepStart
  /\ twi_inRepStart => busy = "ours"
  /\ busy = "ours" => cmd = "STOP" \/ twi_inRepStart
  /\ pc # "busy" /\ twi_inRepStart => ~op.stop

(* With its interrupt off a transaction that has begun never ends.         *)
Deaf == ~inten /\ cmd \in {"none", "START_WRITE", "STOP"}

AtSetting ==
  /\ twi_state = "READY" /\ ~twi_inRepStart
  /\ \/ Deaf
     \/ /\ inten /\ busy = "free" /\ index = 0 /\ tx = Addr
        /\ twi_error = "none"
        /\ pc = "command" => cmd = "none"
        /\ pc = "state" => cmd = "START_WRITE" /\ ~al

(* A command is on the bus.                                                *)
Addressing ==
  /\ cmd = "START_WRITE" /\ index = 0 /\ tx = Addr
  /\ op.write \/ pc = "flag" \/ Address_ACK
Writing ==
  /\ cmd = "WRITE" /\ op.write /\ busy = "ours"
  /\ index \in 1..length /\ tx = <<"out", index - 1>>
  /\ log = Sent(index - 1)
Reading ==
  /\ cmd = "READ" /\ ~op.write /\ busy = "ours" /\ pc = "wait"
  /\ ~Address_ACK /\ index < length
  /\ Len(log) = index + 1 /\ Received(index)

(* The command is over and the handler is due.                             *)
Acknowledged ==
  /\ ~al /\ busy = "ours" /\ rxack
  /\ \/ op.write /\ log = Sent(index)
     \/ ~op.write /\ Address_ACK /\ index = 0 /\ Len(log) = 1
     \/ /\ ~op.write /\ ~Address_ACK /\ index < length
        /\ rx = <<page, index>> /\ Len(log) = index + 2 /\ Received(index)
Refused ==
  /\ ~al /\ busy = "ours" /\ ~rxack
  /\ \/ op.write /\ log = IF index = 0 THEN <<>> ELSE Sent(index - 1)
     \/ ~op.write /\ index = 0
Overridden == al /\ busy # "ours" /\ (op.write \/ index = 0)

AtRun ==
  /\ ~twi_inRepStart
  /\ pc = "flag" => ~op.write
  /\ \/ Deaf
     \/ /\ inten /\ twi_error = "none"
        /\ twi_state = IF op.write THEN "MTX" ELSE "MRX"
        /\ \/ ~irq /\ ~al /\ (Addressing \/ Writing \/ Reading)
           \/ /\ irq /\ cmd = "none" /\ pc = "wait"
              /\ Acknowledged \/ Refused \/ Overridden

(* The handler is through and the thread has yet to notice.                *)
Finished ==
  /\ op.write =>
       /\ twi_error = "none" => log = Sent(op.len) \/ (~op.stop /\ log = <<>>)
       /\ twi_error = "SLA_NACK" => log = <<>>
       /\ twi_error = "DATA_NACK" => \E n \in 0..(op.len - 1) : log = Sent(n)
       /\ cmd = "START" => twi_error = "none"
  /\ ~op.write =>
       /\ (~op.stop /\ log = <<>>) \/ Received(index)
       /\ index < op.len => ~rxack \/ al

Stages ==
  /\ Resting => AtRest
  /\ Setting => AtSetting
  /\ Running => AtRun
  /\ pc \notin {"idle", "busy"} => Prepared
  /\ pc = "flag" => twi_state # "READY"
  /\ pc = "wait" /\ twi_state = "READY" => Finished
  /\ pc = "idle" =>
       /\ WriteHonest /\ ReadHonest
       /\ cmd = "START" /\ op.write => result = 0
       /\ ~op.write => result \in 0..op.len

TwiInv == TypeOK /\ Stages

-----------------------------------------------------------------------------
(* The log of a write, byte by byte.                                       *)

LEMMA SentFirst == Append(<<>>, Addr) = Sent(0)
  BY DEF Sent, Addr

LEMMA SentNext ==
  ASSUME NEW n \in Nat
  PROVE  Append(Sent(n), <<"out", n>>) = Sent(n + 1)
<1> DEFINE bytes(k) == [i \in 1..k |-> <<"out", i - 1>>]
<1>1. bytes(n) \in Seq({"out"} \X Nat) /\ Len(bytes(n)) = n
  OBVIOUS
<1>2. bytes(n + 1) \in Seq({"out"} \X Nat) /\ Len(bytes(n + 1)) = n + 1
  OBVIOUS
<1>3. Append(bytes(n), <<"out", n>>) = bytes(n + 1)
  OBVIOUS
<1>4. \A s \in Seq({"out"} \X Nat), b \in {"out"} \X Nat :
        Append(<<Addr>> \o s, b) = <<Addr>> \o Append(s, b)
  BY DEF Addr
<1> QED
  BY <1>1, <1>3, <1>4 DEF Sent

-----------------------------------------------------------------------------
(* Types, the truth values apart from the rest.                            *)

Flags ==
  /\ twi_sendStop \in BOOLEAN /\ twi_inRepStart \in BOOLEAN
  /\ Address_ACK \in BOOLEAN /\ irq \in BOOLEAN /\ inten \in BOOLEAN
  /\ rxack \in BOOLEAN /\ al \in BOOLEAN

Values ==
  /\ twi_state \in {"READY", "MTX", "MRX"}
  /\ length \in 0..TWI_BUFFER_LENGTH /\ index \in 0..length
  /\ buffer \in [Slot -> Byte]
  /\ twi_error \in {"none", "SLA_NACK", "DATA_NACK", "ARB_LOST",
                   "BUS_ERROR"}
  /\ op \in Op
  /\ pc \in {"idle", "busy", "command", "state", "flag", "wait"}
  /\ result \in 0..TWI_BUFFER_LENGTH \union {2, 3, 4}
  /\ cmd \in {"none", "START", "START_WRITE", "WRITE", "READ", "STOP"}
  /\ tx \in Byte /\ rx \in Byte /\ busy \in {"free", "ours", "other"}
  /\ log \in Seq(Byte) /\ page \in {"odd", "even"}

LEMMA TypeParts == TypeOK <=> Flags /\ Values
  BY DEF TypeOK, Flags, Values

LEMMA Bytes ==
  /\ TWI_BUFFER_LENGTH \in Nat \ {0} /\ Addr \in Byte
  /\ \A i \in Slot : \A p \in {"out", "odd", "even"} : <<p, i>> \in Byte
  BY TwiAssumption DEF Byte, Slot, Addr

LEMMA FlagsKept ==
  ASSUME Flags, Values, Next
  PROVE  Flags'
<1> USE DEF Flags, driver, device
<1>1. CASE Call
  BY <1>1 DEF Call
<1>2. CASE Prepare
  BY <1>2 DEF Prepare, Values, Op
<1>3. CASE WriteCommand
  BY <1>3 DEF WriteCommand
<1>4. CASE SetState
  BY <1>4 DEF SetState
<1>5. CASE SetFlag
  BY <1>5 DEF SetFlag
<1>6. CASE Return
  BY <1>6 DEF Return
<1>7. CASE Isr
  BY <1>7 DEF Isr, IsrArbitrationLost, IsrReady, IsrWrite, IsrRead, IsrNack,
     Handler, Stop, RepeatStart, Finish
<1>8. CASE Bus
  BY <1>8 DEF Bus, BusStart, BusStop, BusWrite, BusLost, BusFreed, BusRead, Done
<1> QED
  BY <1>1, <1>2, <1>3, <1>4, <1>5, <1>6, <1>7, <1>8 DEF Next, Thread

LEMMA ThreadValues ==
  ASSUME Values, Call \/ Thread
  PROVE  Values'
<1> USE Bytes DEF Values, driver, device
<1>1. CASE Call
  BY <1>1 DEF Call
<1>2. CASE Prepare
  <2>1. buffer' \in [Slot -> Byte]
    BY <1>2 DEF Prepare
  <2> QED
    BY <1>2, <2>1 DEF Prepare, Op
<1>3. CASE WriteCommand
  BY <1>3 DEF WriteCommand, Command
<1>4. CASE SetState
  BY <1>4 DEF SetState
<1>5. CASE SetFlag
  BY <1>5 DEF SetFlag
<1>6. CASE Return
  BY <1>6 DEF Return, ErrorCode, Op
<1> QED
  BY <1>1, <1>2, <1>3, <1>4, <1>5, <1>6 DEF Thread

LEMMA IsrValues ==
  ASSUME Values, Stages, Isr
  PROVE  Values'
<1> USE Bytes DEF Values, driver, device, Handler
<1> USE DEF Stop, RepeatStart, Finish, Command
<1>1. CASE IsrArbitrationLost
  BY <1>1 DEF IsrArbitrationLost
<1>2. CASE IsrReady
  BY <1>2 DEF IsrReady
<1>3. CASE IsrWrite
  BY <1>3 DEF IsrWrite, Slot
<1>4. CASE IsrRead
  <2>1. Address_ACK \/ index < length
    BY <1>4 DEF IsrRead, Stages, Resting, Setting, Running, AtRest, AtSetting,
         AtRun, Deaf, Acknowledged, Refused, Overridden
  <2>2. buffer' \in [Slot -> Byte]
    BY <1>4, <2>1 DEF IsrRead, Slot
  <2>3. index' \in 0..length
    BY <1>4, <2>1 DEF IsrRead
  <2>4. twi_state' \in {"READY", "MTX", "MRX"}
        /\ cmd' \in {"none", "START", "START_WRITE", "WRITE", "READ", "STOP"}
    BY <1>4 DEF IsrRead
  <2>5. UNCHANGED <<length, twi_error, op, pc, result, tx, rx, busy, log, page>>
    BY <1>4 DEF IsrRead
  <2> QED
    BY <2>2, <2>3, <2>4, <2>5
<1>5. CASE IsrNack
  BY <1>5 DEF IsrNack
<1> QED
  BY <1>1, <1>2, <1>3, <1>4, <1>5 DEF Isr

LEMMA BusValues ==
  ASSUME Values, Stages, Bus
  PROVE  Values'
<1> USE Bytes DEF Values, driver, device, Done, Other
<1>1. CASE BusStart
  BY <1>1 DEF BusStart
<1>2. CASE BusStop
  BY <1>2 DEF BusStop
<1>3. CASE BusWrite
  BY <1>3 DEF BusWrite
<1>4. CASE BusLost
  BY <1>4 DEF BusLost
<1>5. CASE BusFreed
  BY <1>5 DEF BusFreed
<1>6. CASE BusRead
  <2>1. Len(log) - 1 \in Slot
    BY <1>6 DEF BusRead, Stages, Resting, Setting, Running, AtRest, AtSetting,
         AtRun, Deaf, Addressing, Writing, Reading, Slot
  <2>2. <<page, Len(log) - 1>> \in Byte
    BY <2>1
  <2> QED
    BY <1>6, <2>2 DEF BusRead
<1> QED
  BY <1>1, <1>2, <1>3, <1>4, <1>5, <1>6 DEF Bus

-----------------------------------------------------------------------------
(* Stages: the thread.                                                     *)

LEMMA CallKeeps ==
  ASSUME Values, Stages, Call
  PROVE  Stages'
  BY DEF Values, Stages, Call, driver, device, Resting, Setting, Running, AtRest

LEMMA PrepareKeeps ==
  ASSUME Values, Stages, Prepare
  PROVE  Stages'
<1>1. AtSetting'
  BY DEF Stages, Resting, AtRest, AtSetting, Prepare, driver, device
<1>2. Prepared'
  BY DEF Prepared, Prepare, Values
<1> QED
  BY <1>1, <1>2 DEF Stages, Resting, Setting, Running, Prepare

LEMMA WriteCommandKeeps ==
  ASSUME Values, Stages, WriteCommand
  PROVE  Stages'
<1>1. AtSetting'
  BY DEF Stages, Setting, AtSetting, Deaf, WriteCommand, Command, device
<1>2. Prepared'
  BY DEF Stages, Setting, Prepared, WriteCommand, device
<1> QED
  BY <1>1, <1>2 DEF Stages, Resting, Setting, Running, WriteCommand

LEMMA SetStateKeeps ==
  ASSUME Values, Stages, SetState
  PROVE  Stages'
<1>1. AtRun'
  BY DEF Stages, Setting, AtSetting, AtRun, Deaf, SetState, Undisturbed,
     Addressing, device
<1>2. Prepared'
  BY DEF Stages, Setting, Prepared, SetState, device
<1> QED
  BY <1>1, <1>2 DEF Stages, Resting, Setting, Running, SetState

LEMMA SetFlagKeeps ==
  ASSUME Values, Stages, SetFlag
  PROVE  Stages'
<1>1. AtRun'
  BY DEF Stages, Setting, Running, AtRun, Deaf, SetFlag, Undisturbed,
     Addressing, Writing, Reading, device
<1>2. Prepared'
  BY DEF Stages, Prepared, SetFlag, device
<1> QED
  BY <1>1, <1>2 DEF Stages, Resting, Setting, Running, SetFlag

LEMMA ReturnKeeps ==
  ASSUME Values, Stages, Return
  PROVE  Stages'
<1>1. Resting /\ AtRest /\ Prepared /\ Finished
  BY DEF Return, Stages, Resting
<1>2. AtRest'
  BY <1>1 DEF AtRest, Return, driver, device
<1>3. WriteHonest' /\ (cmd' = "START" /\ op'.write => result' = 0)
  <2> SUFFICES ASSUME op.write
               PROVE  WriteHonest' /\ (cmd = "START" => result' = 0)
    BY DEF Return, WriteHonest
  <2>1. /\ UNCHANGED <<op, cmd, log, twi_error>>
        /\ twi_error \in {"ARB_LOST", "BUS_ERROR"} => result' = 4
        /\ twi_error = "none" => result' = 0
        /\ twi_error = "SLA_NACK" => result' = 2
        /\ twi_error = "DATA_NACK" => result' = 3
    BY DEF Return, driver, device, ErrorCode
  <2> QED
    BY <1>1, <2>1 DEF Finished, WriteHonest, Values
<1>4. ReadHonest' /\ (~op'.write => result' \in 0..op'.len)
  BY <1>1 DEF Finished, ReadHonest, Received, Return, driver, device, Values, Op
<1> QED
  BY <1>2, <1>3, <1>4 DEF Stages, Resting, Setting, Running, Return

-----------------------------------------------------------------------------
(* Stages: the handler.  Only a transaction that runs can have made its    *)
(* interrupt; one left over from the last STOP finds the driver READY.     *)

LEMMA HandlerRuns ==
  ASSUME Values, Stages, Isr
  PROVE  /\ irq /\ inten /\ (Setting \/ Running)
         /\ Running => /\ pc = "wait" /\ cmd = "none" /\ Prepared
                       /\ ~twi_inRepStart /\ twi_error = "none"
                       /\ twi_state = IF op.write THEN "MTX" ELSE "MRX"
                       /\ Acknowledged \/ Refused \/ Overridden
         /\ Setting => AtSetting /\ Prepared /\ cmd \in {"none", "START_WRITE"}
<1>1. irq /\ inten
  BY DEF Isr, Handler, IsrArbitrationLost, IsrReady, IsrWrite, IsrRead, IsrNack
<1>2. ~Resting
  BY <1>1 DEF Stages, AtRest
<1>3. Setting \/ Running
  BY <1>2 DEF Resting, Setting, Running, Stages, Values
<1>4. Running => AtRun /\ Prepared /\ pc # "flag"
  BY <1>1 DEF Stages, Running, AtRun, Deaf
<1>5. Setting => AtSetting /\ Prepared
  BY DEF Stages, Setting
<1> QED
  BY <1>1, <1>3, <1>4, <1>5 DEF AtRun, AtSetting, Deaf, Running, Setting, Values

(* A handler that makes an end leaves the thread deaf or finished.         *)
LEMMA SettingKeeps ==
  ASSUME Values, Stages, Isr, Setting
  PROVE  Stages'
<1>1. AtSetting /\ Prepared /\ cmd \in {"none", "START_WRITE"} /\ inten
  BY HandlerRuns
<1>2. twi_state = "READY" /\ UNCHANGED <<pc, op, twi_sendStop, length>>
  BY <1>1 DEF AtSetting, Isr, Handler, IsrArbitrationLost, IsrReady, IsrWrite,
     IsrRead, IsrNack
<1>3. CASE IsrReady
  BY <1>1, <1>2, <1>3 DEF IsrReady, Handler, Stages, Setting, AtSetting, Deaf,
     Prepared, Resting, Running, device
<1>4. CASE IsrArbitrationLost
  BY <1>1, <1>2, <1>4 DEF IsrArbitrationLost, Handler, Stages, Setting,
     AtSetting, Deaf, Prepared, Resting, Running, device
<1>5. CASE IsrNack
  BY <1>1, <1>2, <1>5 DEF IsrNack, Stop, Command, Handler, Stages, Setting,
     AtSetting, Deaf, Prepared, Resting, Running, device
<1> QED
  BY <1>2, <1>3, <1>4, <1>5 DEF Isr, IsrWrite, IsrRead

LEMMA IsrArbitrationLostKeeps ==
  ASSUME Values, Stages, Running, IsrArbitrationLost
  PROVE  Stages'
<1>1. /\ pc = "wait" /\ cmd = "none" /\ Prepared /\ ~twi_inRepStart
      /\ Overridden
  BY HandlerRuns DEF Isr, IsrArbitrationLost, Acknowledged, Refused
<1>2. pc' = "wait" /\ twi_state' = "READY"
  BY <1>1 DEF IsrArbitrationLost, Handler
<1>3. Prepared'
  BY <1>1 DEF Prepared, IsrArbitrationLost, Handler
<1>4. AtRest'
  BY <1>1 DEF Overridden, AtRest, IsrArbitrationLost, Handler
<1>5. Finished'
  BY <1>1 DEF Overridden, Finished, Received, IsrArbitrationLost, Handler, device
<1> QED
  BY <1>2, <1>3, <1>4, <1>5 DEF Stages, Resting, Setting, Running

LEMMA FinishRests ==
  ASSUME Prepared, Finish, busy = "ours", cmd = "none", ~twi_inRepStart,
         UNCHANGED <<op, pc, busy>>, pc = "wait"
  PROVE  /\ AtRest' /\ twi_state' = "READY" /\ pc' = "wait"
         /\ cmd' = "START" => ~op.stop
  BY DEF Prepared, Finish, Stop, RepeatStart, Command, AtRest

LEMMA IsrWriteKeeps ==
  ASSUME Values, Stages, Running, IsrWrite
  PROVE  Stages'
<1>1. /\ pc = "wait" /\ cmd = "none" /\ Prepared /\ ~twi_inRepStart
      /\ twi_error = "none" /\ twi_state = "MTX" /\ op.write
      /\ ~al /\ busy = "ours" /\ log = Sent(index) /\ inten
  BY HandlerRuns DEF Isr, IsrWrite, Acknowledged, Refused, Overridden
<1>2. Prepared' /\ pc' = "wait" /\ op' = op
  BY <1>1 DEF Prepared, IsrWrite, Handler
<1>3. CASE index < length
  <2>1. buffer[index] = <<"out", index>>
    BY <1>1, <1>3, Bytes DEF Prepared, Values, Slot
  <2>2. Writing'
    BY <1>1, <1>3, <2>1 DEF Writing, IsrWrite, Handler, Command, device, Values, Sent
  <2>3. AtRun' /\ twi_state' = "MTX"
    BY <1>1, <1>3, <2>2 DEF AtRun, IsrWrite, Handler
  <2> QED
    BY <1>2, <2>3 DEF Stages, Resting, Setting, Running
<1>4. CASE ~(index < length)
  <2>1. index = op.len
    BY <1>1, <1>4 DEF Prepared, Values
  <2>2. AtRest' /\ twi_state' = "READY"
    BY <1>1, <1>4, FinishRests DEF IsrWrite, Handler
  <2>3. Finished'
    BY <1>1, <2>1 DEF Finished, IsrWrite, Handler, device, Sent
  <2> QED
    BY <1>2, <2>2, <2>3 DEF Stages, Resting, Setting, Running
<1> QED
  BY <1>3, <1>4

LEMMA IsrReadKeeps ==
  ASSUME Values, Stages, Running, IsrRead
  PROVE  Stages'
<1>1. /\ pc = "wait" /\ cmd = "none" /\ Prepared /\ ~twi_inRepStart
      /\ twi_error = "none" /\ twi_state = "MRX" /\ ~op.write
      /\ ~al /\ busy = "ours" /\ inten /\ rxack /\ Acknowledged
  BY HandlerRuns DEF Isr, IsrRead, Acknowledged, Refused, Overridden
<1>2. Prepared' /\ pc' = "wait" /\ op' = op
  BY <1>1 DEF Prepared, IsrRead, Handler
<1>3. /\ Received(index)' /\ Len(log') = index' + 1
      /\ index' \in Nat /\ index' <= length
  <2>1. CASE Address_ACK
    <3>1. index = 0 /\ Len(log) = 1 /\ UNCHANGED <<index, log>>
      BY <1>1, <2>1 DEF Acknowledged, IsrRead, Handler, device
    <3> QED
      BY <3>1 DEF Received, Values
  <2>2. CASE ~Address_ACK
    <3>1. /\ index < length /\ rx = <<page, index>> /\ Len(log) = index + 2
          /\ Received(index)
      BY <1>1, <2>2 DEF Acknowledged
    <3>2. /\ buffer' = [buffer EXCEPT ![index] = rx] /\ index' = index + 1
          /\ UNCHANGED <<log, page>>
      BY <2>2 DEF IsrRead, Handler, device
    <3>3. index \in Slot /\ \A i \in 0..(index - 1) : i \in Slot
      BY <3>1, Bytes DEF Values, Slot
    <3> QED
      BY <3>1, <3>2, <3>3 DEF Received, Values
  <2> QED
    BY <2>1, <2>2
<1>4. CASE index' < length
  <2>1. Reading'
    BY <1>1, <1>3, <1>4 DEF Reading, IsrRead, Handler, Command
  <2>2. AtRun' /\ twi_state' = "MRX"
    BY <1>1, <1>4, <2>1 DEF AtRun, IsrRead, Handler
  <2> QED
    BY <1>2, <2>2 DEF Stages, Resting, Setting, Running
<1>5. CASE ~(index' < length)
  <2>1. index' = op.len
    BY <1>1, <1>3, <1>5 DEF Prepared, Values
  <2>2. AtRest' /\ twi_state' = "READY"
    BY <1>1, <1>5, FinishRests DEF IsrRead, Handler
  <2>3. Finished'
    BY <1>1, <1>2, <1>3, <2>1 DEF Finished, Values, Op
  <2> QED
    BY <1>2, <2>2, <2>3 DEF Stages, Resting, Setting, Running
<1> QED
  BY <1>4, <1>5

LEMMA IsrNackKeeps ==
  ASSUME Values, Stages, Running, IsrNack
  PROVE  Stages'
<1>1. /\ pc = "wait" /\ cmd = "none" /\ Prepared /\ ~twi_inRepStart
      /\ twi_error = "none" /\ busy = "ours" /\ ~rxack /\ Refused
      /\ twi_state = IF op.write THEN "MTX" ELSE "MRX"
  BY HandlerRuns DEF Isr, IsrNack, Acknowledged, Refused, Overridden
<1>2. Prepared' /\ pc' = "wait" /\ op' = op /\ twi_state' = "READY"
  BY <1>1 DEF Prepared, IsrNack, Handler, Stop
<1>3. AtRest'
  BY <1>1 DEF AtRest, IsrNack, Handler, Stop, Command
<1>4. Finished'
  <2>1. UNCHANGED <<op, log, index, buffer, page, rxack>> /\ cmd' = "STOP"
    BY <1>1 DEF IsrNack, Handler, Stop, Command, device
  <2>2. CASE op.write
    <3>1. twi_error' = IF index = 0 THEN "SLA_NACK" ELSE "DATA_NACK"
      BY <1>1, <2>2 DEF IsrNack
    <3>2. log = IF index = 0 THEN <<>> ELSE Sent(index - 1)
      BY <1>1, <2>2 DEF Refused
    <3>3. index # 0 => index - 1 \in 0..(op.len - 1)
      BY <1>1 DEF Prepared, Values
    <3> QED
      BY <2>1, <2>2, <3>1, <3>2, <3>3 DEF Finished, Sent
  <2>3. CASE ~op.write
    BY <1>1, <2>1, <2>3 DEF Finished, Refused, Received
  <2> QED
    BY <2>2, <2>3
<1> QED
  BY <1>2, <1>3, <1>4 DEF Stages, Resting, Setting, Running

LEMMA IsrKeeps ==
  ASSUME Values, Stages, Isr
  PROVE  Stages'
<1>1. CASE Setting
  BY <1>1, SettingKeeps
<1>2. CASE Running
  <2>1. ~IsrReady
    BY <1>2 DEF Running, IsrReady
  <2> QED
    BY <1>2, <2>1, IsrArbitrationLostKeeps, IsrWriteKeeps, IsrReadKeeps,
       IsrNackKeeps DEF Isr
<1> QED
  BY <1>1, <1>2, HandlerRuns

-----------------------------------------------------------------------------
(* Stages: the bus, which does nothing between a command and the wait.     *)

LEMMA BusStartKeeps ==
  ASSUME Values, Stages, ~Overtaken, BusStart
  PROVE  Stages'
<1>1. cmd = "START" /\ ~Setting /\ pc # "flag"
  BY DEF BusStart, Done, Setting
<1>2. ~Running
  BY <1>1 DEF Stages, Running, AtRun, Deaf, Addressing, Writing, Reading
<1>3. Resting /\ AtRest /\ twi_inRepStart /\ (pc # "busy" => ~op.stop)
  BY <1>1, <1>2 DEF Stages, Resting, Setting, Running, AtRest, Values
<1>4. /\ UNCHANGED <<driver, pc, op, result, inten, rxack, al>>
      /\ cmd' = "none" /\ busy' = "ours" /\ log' = <<>>
  BY DEF BusStart, Done
<1>5. AtRest'
  BY <1>3, <1>4 DEF AtRest, driver
<1>6. pc = "wait" => Prepared' /\ Finished'
  <2>1. pc = "wait" => Prepared /\ Finished
    BY <1>3 DEF Stages, AtRest
  <2>2. Prepared => Prepared'
    BY <1>4 DEF Prepared, driver
  <2>3. Finished /\ pc = "wait" => Finished'
    BY <1>1, <1>3, <1>4 DEF Finished, driver
  <2> QED
    BY <2>1, <2>2, <2>3
<1>7. pc = "idle" => WriteHonest' /\ ReadHonest'
  BY <1>1, <1>3, <1>4 DEF Stages, WriteHonest, ReadHonest, driver
<1> QED
  BY <1>3, <1>4, <1>5, <1>6, <1>7 DEF Stages, Resting, Setting, Running, driver

LEMMA BusStopKeeps ==
  ASSUME Values, Stages, ~Overtaken, BusStop
  PROVE  Stages'
<1>1. cmd = "STOP" /\ ~Setting /\ pc # "flag"
  BY DEF BusStop, Done, Setting
<1>2. /\ UNCHANGED <<driver, pc, op, result, inten, rxack, al, log, page>>
      /\ cmd' = "none" /\ busy' = "free"
  BY DEF BusStop, Done, device
<1>3. Prepared => Prepared'
  BY <1>2 DEF Prepared, driver
<1>4. CASE Resting
  <2>1. AtRest /\ ~twi_inRepStart
    BY <1>1, <1>4 DEF Stages, AtRest
  <2>2. AtRest'
    BY <1>2, <2>1 DEF AtRest, driver
  <2>3. pc = "wait" => Prepared' /\ Finished'
    <3>1. pc = "wait" => Prepared /\ Finished
      BY <1>4 DEF Stages, Resting
    <3>2. Finished => Finished'
      BY <1>2 DEF Finished, Received, Sent, driver
    <3> QED
      BY <1>3, <3>1, <3>2
  <2>4. pc = "idle" => /\ WriteHonest' /\ ReadHonest'
                       /\ ~op.write => result \in 0..op.len
    BY <1>2 DEF Stages, WriteHonest, ReadHonest, Sent, driver
  <2> QED
    BY <1>2, <1>4, <2>2, <2>3, <2>4
       DEF Stages, Resting, Setting, Running, driver
<1>5. CASE Running
  <2>1. Deaf /\ ~twi_inRepStart /\ Prepared
    BY <1>1, <1>5 DEF Stages, Running, AtRun, Addressing, Writing, Reading
  <2>2. AtRun'
    BY <1>1, <1>2, <2>1 DEF AtRun, Deaf, driver
  <2> QED
    BY <1>1, <1>2, <1>3, <1>5, <2>1, <2>2
       DEF Stages, Resting, Setting, Running, driver
<1> QED
  BY <1>1, <1>4, <1>5 DEF Resting, Setting, Running, Values

(* A command of a transaction is over: the transaction runs.               *)
LEMMA TransactionRuns ==
  ASSUME Values, Stages, ~Overtaken, Done(cmd),
         cmd \in {"START_WRITE", "WRITE", "READ"}
  PROVE  /\ Running /\ pc = "wait" /\ AtRun /\ Prepared
         /\ UNCHANGED <<driver, pc, op, inten>> /\ Prepared'
         /\ Running' /\ ~Resting' /\ ~Setting' /\ irq' /\ cmd' = "none"
         /\ inten => ~al /\ (Addressing \/ Writing \/ Reading)
<1>1. ~Setting /\ pc # "flag" /\ irq' /\ cmd' = "none"
      /\ UNCHANGED <<driver, pc, op, inten>>
  BY DEF Done, Setting
<1>2. ~Resting
  BY DEF Stages, AtRest
<1>3. Running /\ pc = "wait"
  BY <1>1, <1>2 DEF Resting, Setting, Running, Values
<1>4. AtRun /\ Prepared
  BY <1>3 DEF Stages
<1>5. Prepared' /\ Running' /\ ~Resting' /\ ~Setting'
  BY <1>1, <1>3, <1>4 DEF Prepared, Running, Resting, Setting, driver
<1> QED
  BY <1>1, <1>3, <1>4, <1>5 DEF AtRun, Deaf, Addressing

LEMMA BusWriteKeeps ==
  ASSUME Values, Stages, ~Overtaken, BusWrite
  PROVE  Stages'
<1>1. Done(cmd) /\ cmd \in {"START_WRITE", "WRITE"}
  BY DEF BusWrite, Done
<1> USE <1>1, TransactionRuns
<1>2. CASE Deaf
  BY <1>2 DEF Stages, Deaf, AtRun, driver, Running
<1>3. CASE ~Deaf
  <2>1. inten /\ ~twi_inRepStart /\ twi_error = "none"
        /\ twi_state = (IF op.write THEN "MTX" ELSE "MRX")
    BY <1>3 DEF AtRun
  <2>2. UNCHANGED al /\ busy' = "ours" /\ rxack' \in BOOLEAN
    BY DEF BusWrite
  <2>3. (Acknowledged \/ Refused)'
    <3>1. CASE Addressing
      <4>1. log' = IF rxack' THEN Append(<<>>, Addr) ELSE <<>>
        BY <3>1 DEF BusWrite, Addressing
      <4>2. index' = 0 /\ op' = op /\ (op.write \/ Address_ACK')
        BY <3>1 DEF Addressing, driver
      <4>3. Append(<<>>, Addr) = Sent(0) /\ Len(Append(<<>>, Addr)) = 1
        BY SentFirst
      <4>4. ~al' /\ busy' = "ours"
        BY <2>1, <2>2
      <4>5. CASE rxack'
        BY <4>1, <4>2, <4>3, <4>4, <4>5 DEF Acknowledged
      <4>6. CASE ~rxack'
        BY <4>1, <4>2, <4>4, <4>6 DEF Refused
      <4> QED
        BY <4>5, <4>6
    <3>2. CASE Writing
      <4>1. log' = IF rxack' THEN Append(Sent(index - 1), <<"out", index - 1>>)
                             ELSE Sent(index - 1)
        BY <3>2 DEF BusWrite, Writing
      <4>2. Append(Sent(index - 1), <<"out", index - 1>>) = Sent(index)
        BY <3>2, SentNext, index - 1 \in Nat, (index - 1) + 1 = index
           DEF Writing, Values
      <4>3. UNCHANGED <<index, op>> /\ op.write /\ index # 0
        BY <3>2 DEF Writing, driver
      <4>4. ~al' /\ busy' = "ours"
        BY <2>1, <2>2
      <4>5. CASE rxack'
        BY <4>1, <4>2, <4>3, <4>4, <4>5 DEF Acknowledged
      <4>6. CASE ~rxack'
        BY <4>1, <4>3, <4>4, <4>6 DEF Refused
      <4> QED
        BY <4>5, <4>6
    <3> QED
      BY <2>1, <3>1, <3>2 DEF Reading
  <2>4. AtRun'
    <3>1. UNCHANGED <<twi_inRepStart, twi_error, twi_state, op, pc, inten>>
      BY DEF driver
    <3>2. irq' /\ cmd' = "none" /\ pc' = "wait"
      BY <3>1
    <3>3. inten' /\ ~twi_inRepStart' /\ twi_error' = "none"
          /\ twi_state' = IF op'.write THEN "MTX" ELSE "MRX"
      BY <2>1, <3>1
    <3> QED
      BY <2>3, <3>2, <3>3 DEF AtRun
  <2> QED
    BY <2>4 DEF Stages, Running, driver
<1> QED
  BY <1>2, <1>3

LEMMA BusLostKeeps ==
  ASSUME Values, Stages, ~Overtaken, BusLost
  PROVE  Stages'
<1>1. Done(cmd) /\ cmd \in {"START_WRITE", "WRITE"}
  BY DEF BusLost, Done
<1> USE <1>1, TransactionRuns
<1>2. Overridden' \/ Deaf'
  BY DEF BusLost, AtRun, Deaf, Overridden, Addressing, Writing, Reading, driver
<1>3. AtRun'
  BY <1>2 DEF AtRun, Deaf, driver
<1> QED
  BY <1>3 DEF Stages, Running, driver

LEMMA BusReadKeeps ==
  ASSUME Values, Stages, ~Overtaken, BusRead
  PROVE  Stages'
<1>1. Done(cmd) /\ cmd = "READ"
  BY DEF BusRead, Done
<1> USE <1>1, TransactionRuns
<1>2. Reading /\ inten /\ ~al
  BY DEF AtRun, Deaf, Addressing, Writing
<1>3. /\ rx' = <<page, index>> /\ Len(log') = index + 2
      /\ Len(log) - 1 = index
  BY <1>2 DEF BusRead, Reading, Values
<1>4. Acknowledged'
  BY <1>2, <1>3 DEF BusRead, Reading, Acknowledged, Received, driver
<1>5. AtRun'
  BY <1>2, <1>4 DEF AtRun, Deaf, driver
<1> QED
  BY <1>5 DEF Stages, Running, driver

LEMMA BusFreedKeeps ==
  ASSUME Values, Stages, BusFreed
  PROVE  Stages'
<1>1. /\ busy = "other" /\ busy' = "free"
      /\ UNCHANGED <<driver, pc, op, result, cmd, tx, rx, irq, inten, rxack,
                     al, log, page>>
  BY DEF BusFreed, device
<1>2. AtRest => AtRest'
  BY <1>1 DEF AtRest, driver
<1>3. AtSetting => AtSetting'
  BY <1>1 DEF AtSetting, Deaf, driver
<1>4. AtRun => AtRun'
  BY <1>1 DEF AtRun, Deaf, Addressing, Writing, Reading, Acknowledged, Refused,
     Overridden, driver
<1>5. (Prepared => Prepared') /\ (Finished => Finished')
  BY <1>1 DEF Prepared, Finished, Received, Sent, driver
<1>6. (WriteHonest => WriteHonest') /\ (ReadHonest => ReadHonest')
  BY <1>1 DEF WriteHonest, ReadHonest, Sent, driver
<1> QED
  BY <1>1, <1>2, <1>3, <1>4, <1>5, <1>6
     DEF Stages, Resting, Setting, Running, driver

-----------------------------------------------------------------------------
(* The invariant and what follows from it.                                 *)

LEMMA StagesKept ==
  ASSUME Values, Stages, ~Overtaken, Next
  PROVE  Stages'
  BY CallKeeps, PrepareKeeps, WriteCommandKeeps, SetStateKeeps, SetFlagKeeps,
     ReturnKeeps, IsrKeeps, BusStartKeeps, BusStopKeeps, BusWriteKeeps,
     BusLostKeeps, BusFreedKeeps, BusReadKeeps DEF Next, Thread, Bus

LEMMA TwiInvariant ==
  ASSUME ~Overtaken
  PROVE  Spec => []TwiInv
<1>1. Init => TwiInv
  <2> SUFFICES ASSUME Init PROVE TwiInv
    OBVIOUS
  <2>1. Flags
    BY DEF Init, Flags
  <2>2. Values
    BY Bytes DEF Init, Values, Op
  <2>3. Stages
    BY DEF Init, Stages, Resting, Setting, Running, AtRest, WriteHonest,
       ReadHonest, Sent
  <2> QED
    BY <2>1, <2>2, <2>3, TypeParts DEF TwiInv
<1>2. TwiInv /\ [Next]_vars => TwiInv'
  <2> SUFFICES ASSUME TwiInv, [Next]_vars PROVE TwiInv'
    OBVIOUS
  <2>1. Flags /\ Values /\ Stages
    BY TypeParts DEF TwiInv
  <2>2. CASE Next
    <3>1. Flags' /\ Stages'
      BY <2>1, <2>2, FlagsKept, StagesKept
    <3>2. Values'
      BY <2>1, <2>2, ThreadValues, IsrValues, BusValues DEF Next
    <3>3. TypeOK'
      BY <3>1, <3>2 DEF TypeOK, Flags, Values
    <3> QED
      BY <3>1, <3>3 DEF TwiInv
  <2>3. CASE UNCHANGED vars
    <3> USE <2>3 DEF vars, driver, device
    <3>1. Flags' /\ Values'
      BY <2>1 DEF Flags, Values
    <3>2. Stages'
      <4>1. (AtRest => AtRest') /\ (AtSetting => AtSetting')
        BY DEF AtRest, AtSetting, Deaf
      <4>2. AtRun => AtRun'
        BY DEF AtRun, Deaf, Addressing, Writing, Reading, Received,
           Acknowledged, Refused, Overridden
      <4>3. (Prepared => Prepared') /\ (Finished => Finished')
        BY DEF Prepared, Finished, Received, Sent
      <4>4. (WriteHonest => WriteHonest') /\ (ReadHonest => ReadHonest')
        BY DEF WriteHonest, ReadHonest, Sent
      <4> QED
        BY <2>1, <4>1, <4>2, <4>3, <4>4
           DEF Stages, Resting, Setting, Running
    <3> QED
      BY <3>1, <3>2 DEF TwiInv, TypeOK, Flags, Values
  <2> QED
    BY <2>2, <2>3
<1> QED
  BY <1>1, <1>2, PTL DEF Spec

(* Every variable keeps its type and no byte is put past the end of        *)
(* twi_masterBuffer (twi.c:340), as long as the answer to the address does *)
(* not come before the thread has set Address_ACK.                         *)
THEOREM BufferNotOverrun ==
  ASSUME ~Overtaken
  PROVE  Spec => []TypeOK
<1>1. TwiInv => TypeOK
  BY DEF TwiInv
<1> QED
  BY <1>1, TwiInvariant, PTL

(* What twi_writeTo returns is what the bus did (twi.c:266).               *)
THEOREM WritesAreHonest ==
  ASSUME ~Overtaken
  PROVE  Spec => []WriteHonest
<1>1. TwiInv => WriteHonest
  BY DEF TwiInv, Stages, WriteHonest
<1> QED
  BY <1>1, TwiInvariant, PTL

(* What twi_readFrom returns are the bytes of this transaction in order    *)
(* (twi.c:176).                                                            *)
THEOREM ReadsAreHonest ==
  ASSUME ~Overtaken
  PROVE  Spec => []ReadHonest
<1>1. TwiInv => ReadHonest
  BY DEF TwiInv, Stages, ReadHonest
<1> QED
  BY <1>1, TwiInvariant, PTL

(* A call that ends its transaction leaves the bus stopped, about to be    *)
(* stopped, or another master's (twi.c:348, 367).                          *)
THEOREM BusIsGivenBack ==
  ASSUME ~Overtaken
  PROVE  Spec => []BusGivenBack
<1>1. TwiInv => BusGivenBack
  BY DEF TwiInv, Stages, Resting, AtRest, BusGivenBack
<1> QED
  BY <1>1, TwiInvariant, PTL
=============================================================================
