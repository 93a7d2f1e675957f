----------------------------- MODULE TwiMaster -----------------------------
(***************************************************************************)
(* twi.c of the Arduino library: the thread in twi_writeTo or twi_readFrom *)
(* starts a transaction and spins; ISR_I2C drives it byte by byte.  The    *)
(* I2C controller, the other masters and the device that answers are       *)
(* hardware, modelled from the registers the driver uses.                  *)
(*                                                                         *)
(* A byte is <<page, i>>: the i-th the device sends after the page-th      *)
(* START, or <<"out", i>>, the i-th the caller writes.                     *)
(***************************************************************************)
EXTENDS Naturals, Sequences

CONSTANTS
  TWI_BUFFER_LENGTH,
  Overtaken     (* may the bus finish a command before the thread has      *)
                (* reached its wait loop (another handler delays it)?      *)

ASSUME TwiAssumption ==
  TWI_BUFFER_LENGTH \in Nat \ {0} /\ Overtaken \in BOOLEAN

VARIABLES
  twi_state, twi_sendStop, twi_inRepStart,
  index,        (* twi_masterBufferIndex                                   *)
  length,       (* twi_masterBufferLength                                  *)
  buffer,       (* twi_masterBuffer                                        *)
  twi_error,    (* "none" is 0xFF                                          *)
  Address_ACK,
  pc, op, result,                               (* the calling thread      *)
  cmd,          (* the command in I2C_CMD the controller is executing      *)
  tx, rx,       (* I2C_TX and I2C_RX                                       *)
  irq,          (* the interrupt flag I2C_STATUS_IF                        *)
  inten,        (* INTEN in I2C_CTR                                        *)
  busy,         (* I2C_STATUS_BUSY and who made it so                      *)
  rxack,        (* the last byte was acknowledged                          *)
  al,           (* I2C_STATUS_AL                                           *)
  log,          (* what was acknowledged on the bus since the last START   *)
  page          (* tells one START from the next                           *)

driver  == <<twi_state, twi_sendStop, twi_inRepStart, index, length, buffer,
             twi_error, Address_ACK>>
device  == <<log, page>>
vars    == <<driver, pc, op, result, cmd, tx, rx, irq, inten, busy, rxack, al,
             device>>

(* What the Wire library asks for: it clamps to the length of the buffer.  *)
Op   == [write : BOOLEAN, len : 0..TWI_BUFFER_LENGTH, stop : BOOLEAN]
Slot == 0..(TWI_BUFFER_LENGTH - 1)
Byte == {"addr", "out", "odd", "even"} \X Slot
Addr == <<"addr", 0>>

Init ==
  /\ twi_state = "READY" /\ twi_sendStop = TRUE /\ twi_inRepStart = FALSE
  /\ index = 0 /\ length = 0 /\ buffer = [i \in Slot |-> Addr]
  /\ twi_error = "none" /\ Address_ACK = FALSE
  /\ pc = "idle" /\ result = 4              (* no call has succeeded yet  *)
  /\ op = [write |-> TRUE, len |-> 0, stop |-> TRUE]
  /\ cmd = "none" /\ tx = Addr /\ rx = Addr
  /\ irq = FALSE /\ inten = FALSE /\ busy = "free" /\ rxack = TRUE
  /\ al = FALSE /\ log = <<>> /\ page = "even"

Other(p) == IF p = "odd" THEN "even" ELSE "odd"

(* A command written while another runs: one of the two is carried out.    *)
Command(c) == cmd' \in IF cmd = "none" THEN {c} ELSE {cmd, c}

-----------------------------------------------------------------------------
(* The thread.                                                             *)

(* The one thread that calls finds the state ready (Resting, TwiMaster-    *)
(* Proofs); another, in the middle of a call, would be turned away.        *)
Call ==
  /\ pc = "idle"
  /\ op' \in Op
  /\ IF twi_state = "READY"
     THEN pc' = "busy" /\ UNCHANGED <<twi_error, result>>
     ELSE twi_error' = "BUS_ERROR" /\ result' = 4 /\ UNCHANGED pc
  /\ UNCHANGED <<twi_state, twi_sendStop, twi_inRepStart, index, length,
                 buffer, Address_ACK, cmd, tx, rx, irq, inten, busy, rxack,
                 al, device>>

(* The bus is free: buffer, address and interrupt are prepared.            *)
Prepare ==
  /\ pc = "busy" /\ busy = "free"
  /\ twi_sendStop' = op.stop /\ twi_error' = "none"
  /\ index' = 0 /\ length' = op.len
  /\ buffer' = IF op.write
               THEN [i \in Slot |-> IF i < op.len THEN <<"out", i>>
                                                  ELSE buffer[i]]
               ELSE buffer
  /\ tx' = Addr /\ inten' = TRUE
  /\ pc' = "command"
  /\ UNCHANGED <<twi_state, twi_inRepStart, Address_ACK, op, result, cmd, rx,
                 irq, busy, rxack, al, device>>

(* Mutant: the state is set before the command is given.                   *)
WriteCommandStateFirst ==
  /\ pc = "command"
  /\ Command(IF twi_inRepStart THEN "WRITE" ELSE "START_WRITE")
  /\ twi_inRepStart' = FALSE
  /\ al' = (al /\ twi_inRepStart)
  /\ twi_state' = IF op.write THEN "MTX" ELSE "MRX"
  /\ pc' = "state"
  /\ UNCHANGED <<twi_sendStop, index, length, buffer, twi_error,
                 Address_ACK, op, result, tx, rx, irq, inten, busy, rxack,
                 device>>

(* The START of a repeated start was sent by the handler.                  *)
WriteCommand ==
  /\ pc = "command"
  /\ Command(IF twi_inRepStart THEN "WRITE" ELSE "START_WRITE")
  /\ twi_inRepStart' = FALSE
  /\ al' = (al /\ twi_inRepStart)
  /\ pc' = "state"
  /\ UNCHANGED <<twi_state, twi_sendStop, index, length, buffer, twi_error,
                 Address_ACK, op, result, tx, rx, irq, inten, busy, rxack,
                 device>>

(* The interrupt the last STOP left behind has been taken by now.          *)
Undisturbed == ~(irq /\ inten)

SetState ==
  /\ pc = "state" /\ Undisturbed
  /\ twi_state' = IF op.write THEN "MTX" ELSE "MRX"
  /\ pc' = IF op.write THEN "wait" ELSE "flag"
  /\ UNCHANGED <<twi_sendStop, twi_inRepStart, index, length, buffer,
                 twi_error, Address_ACK, op, result, cmd, tx, rx, irq, inten,
                 busy, rxack, al, device>>

(* Mutant: the answer to the address is taken for the first byte.          *)
SetFlagAmiss ==
  /\ pc = "flag" /\ Undisturbed
  /\ Address_ACK' = FALSE
  /\ pc' = "wait"
  /\ UNCHANGED <<twi_state, twi_sendStop, twi_inRepStart, index, length,
                 buffer, twi_error, op, result, cmd, tx, rx, irq, inten, busy,
                 rxack, al, device>>

SetFlag ==
  /\ pc = "flag" /\ Undisturbed
  /\ Address_ACK' = TRUE
  /\ pc' = "wait"
  /\ UNCHANGED <<twi_state, twi_sendStop, twi_inRepStart, index, length,
                 buffer, twi_error, op, result, cmd, tx, rx, irq, inten, busy,
                 rxack, al, device>>

ErrorCode == [none |-> 0, SLA_NACK |-> 2, DATA_NACK |-> 3, ARB_LOST |-> 4,
              BUS_ERROR |-> 4]

Return ==
  /\ pc = "wait" /\ Undisturbed /\ twi_state = "READY"
  /\ result' = IF op.write THEN ErrorCode[twi_error]
               ELSE IF index < op.len THEN index ELSE op.len
  /\ pc' = "idle"
  /\ UNCHANGED <<driver, op, cmd, tx, rx, irq, inten, busy, rxack, al, device>>

-----------------------------------------------------------------------------
(* ISR_I2C.  A command takes the bus far longer than the handler: nothing  *)
(* happens on the bus between its first access and its last.               *)

Handler ==
  /\ irq /\ inten
  /\ irq' = FALSE
  /\ UNCHANGED <<twi_sendStop, length, pc, op, result, rx, busy, rxack, al,
                 device>>

(* twi_stop.                                                               *)
Stop ==
  /\ Command("STOP") /\ inten' = FALSE /\ twi_state' = "READY"
  /\ UNCHANGED twi_inRepStart
RepeatStart ==
  /\ twi_inRepStart' = TRUE /\ inten' = FALSE
  /\ Command("START") /\ twi_state' = "READY"
Finish == IF twi_sendStop THEN Stop ELSE RepeatStart

IsrArbitrationLost ==
  /\ Handler /\ al
  /\ twi_error' = "ARB_LOST"
  /\ inten' = FALSE /\ twi_state' = "READY"
  /\ UNCHANGED <<twi_inRepStart, index, buffer, Address_ACK, cmd, tx>>

IsrReady ==
  /\ Handler /\ ~al /\ rxack /\ twi_state = "READY"
  /\ UNCHANGED <<twi_state, twi_inRepStart, index, buffer, twi_error,
                 Address_ACK, cmd, tx, inten>>

IsrWrite ==
  /\ Handler /\ ~al /\ rxack /\ twi_state = "MTX"
  /\ IF index < length
     THEN /\ tx' = buffer[index] /\ index' = index + 1
          /\ Command("WRITE")
          /\ UNCHANGED <<twi_state, inten, twi_inRepStart>>
     ELSE Finish /\ UNCHANGED <<tx, index>>
  /\ UNCHANGED <<buffer, twi_error, Address_ACK>>

(* Mutant: one byte more than asked for.                                   *)
IsrReadOneMore ==
  /\ Handler /\ ~al /\ rxack /\ twi_state = "MRX"
  /\ Address_ACK' = FALSE
  /\ IF Address_ACK
     THEN UNCHANGED <<buffer, index>>
     ELSE buffer' = [buffer EXCEPT ![index] = rx] /\ index' = index + 1
  /\ IF index' <= length
     THEN Command("READ") /\ UNCHANGED <<twi_state, inten, twi_inRepStart>>
     ELSE Finish
  /\ UNCHANGED <<twi_error, tx>>

IsrRead ==
  /\ Handler /\ ~al /\ rxack /\ twi_state = "MRX"
  /\ Address_ACK' = FALSE
  /\ IF Address_ACK
     THEN UNCHANGED <<buffer, index>>
     ELSE buffer' = [buffer EXCEPT ![index] = rx] /\ index' = index + 1
  /\ IF index' < length
     THEN Command("READ") /\ UNCHANGED <<twi_state, inten, twi_inRepStart>>
     ELSE Finish
  /\ UNCHANGED <<twi_error, tx>>

(* Mutant: every NACK is one of the address.                               *)
IsrNackAddress ==
  /\ Handler /\ ~al /\ ~rxack
  /\ twi_error' = IF twi_state = "MTX" THEN "SLA_NACK" ELSE twi_error
  /\ Stop
  /\ UNCHANGED <<index, buffer, Address_ACK, tx>>

(* Mutant: the handler leaves the bus without a STOP.                      *)
IsrNackNoStop ==
  /\ Handler /\ ~al /\ ~rxack
  /\ twi_error' = IF twi_state # "MTX" THEN twi_error
                  ELSE IF index = 0 THEN "SLA_NACK" ELSE "DATA_NACK"
  /\ inten' = FALSE /\ twi_state' = "READY"
  /\ UNCHANGED <<index, buffer, Address_ACK, tx, cmd, twi_inRepStart>>

IsrNack ==
  /\ Handler /\ ~al /\ ~rxack
  /\ twi_error' = IF twi_state # "MTX" THEN twi_error
                  ELSE IF index = 0 THEN "SLA_NACK" ELSE "DATA_NACK"
  /\ Stop
  /\ UNCHANGED <<index, buffer, Address_ACK, tx>>

-----------------------------------------------------------------------------
(* The bus.                                                                *)

Done(c) ==
  /\ cmd = c
  /\ Overtaken \/ pc \notin {"command", "state", "flag"}
  /\ cmd' = "none" /\ irq' = TRUE
  /\ UNCHANGED <<driver, pc, op, result, tx, inten>>

BusStart ==
  /\ Done("START")
  /\ busy' = "ours" /\ log' = <<>> /\ page' = Other(page)
  /\ UNCHANGED <<rx, rxack, al>>

BusStop ==
  /\ Done("STOP")
  /\ busy' = "free"
  /\ UNCHANGED <<rx, rxack, al, device>>

(* A byte goes out and is acknowledged or not.                             *)
BusWrite ==
  /\ Done("START_WRITE") \/ Done("WRITE")
  /\ rxack' \in BOOLEAN
  /\ busy' = "ours"
  /\ LET old == IF cmd = "START_WRITE" THEN <<>> ELSE log
     IN  log' = IF rxack' THEN Append(old, tx) ELSE old
  /\ page' = IF cmd = "START_WRITE" THEN Other(page) ELSE page
  /\ UNCHANGED <<rx, al>>

(* Another master wins the bus, and frees it later.                        *)
BusLost ==
  /\ Done("START_WRITE") \/ Done("WRITE")
  /\ al' = TRUE /\ busy' = "other"
  /\ UNCHANGED <<rx, rxack, device>>

BusFreed ==
  /\ busy = "other"
  /\ busy' = "free"
  /\ UNCHANGED <<driver, pc, op, result, cmd, tx, rx, irq, inten, rxack, al,
                 device>>

(* A byte comes in; the driver acknowledges every one, the last too.       *)
BusRead ==
  /\ Done("READ")
  /\ rx' = <<page, Len(log) - 1>> /\ rxack' = TRUE
  /\ log' = Append(log, <<page, Len(log) - 1>>)
  /\ UNCHANGED <<busy, al, page>>

-----------------------------------------------------------------------------
Thread == Prepare \/ WriteCommand \/ SetState \/ SetFlag \/ Return
Isr    == \/ IsrArbitrationLost \/ IsrReady \/ IsrWrite \/ IsrRead \/ IsrNack
Bus    == \/ BusStart \/ BusStop \/ BusWrite \/ BusLost \/ BusFreed \/ BusRead

Next == Call \/ Thread \/ Isr \/ Bus

Spec     == Init /\ [][Next]_vars
FairSpec == Spec /\ WF_vars(Thread) /\ WF_vars(Isr) /\ WF_vars(Bus)

-----------------------------------------------------------------------------
(* Every variable has its type; the buffer index stays in the buffer.      *)
TypeOK ==
  /\ twi_state \in {"READY", "MTX", "MRX"}
  /\ twi_sendStop \in BOOLEAN /\ twi_inRepStart \in BOOLEAN
  /\ length \in 0..TWI_BUFFER_LENGTH /\ index \in 0..length
  /\ buffer \in [Slot -> Byte]
  /\ twi_error \in {"none", "SLA_NACK", "DATA_NACK", "ARB_LOST", "BUS_ERROR"}
  /\ Address_ACK \in BOOLEAN /\ op \in Op
  /\ pc \in {"idle", "busy", "command", "state", "flag", "wait"}
  /\ result \in 0..TWI_BUFFER_LENGTH \union {2, 3, 4}
  /\ cmd \in {"none", "START", "START_WRITE", "WRITE", "READ", "STOP"}
  /\ tx \in Byte /\ rx \in Byte
  /\ irq \in BOOLEAN /\ inten \in BOOLEAN /\ rxack \in BOOLEAN
  /\ al \in BOOLEAN /\ busy \in {"free", "ours", "other"}
  /\ log \in Seq(Byte) /\ page \in {"odd", "even"}

Sent(n) == <<Addr>> \o [i \in 1..n |-> <<"out", i - 1>>]

(* twi_writeTo says what the bus did: 0 for all bytes acknowledged in      *)
(* their order, 2 for an address and 3 for a byte that was not.            *)
WriteHonest ==
  pc = "idle" /\ op.write =>
    /\ result = 0 => log = Sent(op.len) \/ (~op.stop /\ log = <<>>)
    /\ result = 2 => log = <<>>
    /\ result = 3 => \E n \in 0..(op.len - 1) : log = Sent(n)

(* twi_readFrom returns n for n bytes of this transaction, in order, and   *)
(* fewer than asked for only when the device or another master refused.    *)
ReadHonest ==
  pc = "idle" /\ ~op.write =>
    /\ ~(~op.stop /\ log = <<>>) =>
         \A i \in 0..(result - 1) : buffer[i] = <<page, i>>
    /\ result < op.len => ~rxack \/ al

(* A call that ends its transaction gives the bus back: the STOP is on its *)
(* way, or there is nothing of ours to stop.                               *)
BusGivenBack == pc = "idle" /\ op.stop => cmd = "STOP" \/ busy # "ours"

(* A call on a bus that its predecessor left acknowledged and stopped      *)
(* returns.                                                                *)
QuietBus == rxack /\ ~twi_inRepStart
CallReturns == (pc = "busy" /\ QuietBus) ~> pc = "idle"

(* "Calling endTransmission(false) allows a sketch to perform a repeated   *)
(* start" (Wire.cpp:146).                                                  *)
RepeatedStart == (pc = "busy" /\ twi_inRepStart) ~> pc = "idle"
=============================================================================
