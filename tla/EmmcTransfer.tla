---------------------------- MODULE EmmcTransfer ----------------------------
(***************************************************************************)
(* emmc_read_write_bytes: one data transfer, from the selection of the     *)
(* card to its deselection, with the ring of DMA descriptors that          *)
(* emmc_set_qptr fills and emmc_get_qptr takes back.  Each call of         *)
(* emmc_send_serial_command is one step (EmmcCommand shows what it         *)
(* promises); the card and the DMA move between the steps.                 *)
(***************************************************************************)
EXTENDS EmmcCard

CONSTANTS
  NoOfDesc,     (* descriptors in the ring: 1 in the code                  *)
  Requests,     (* the transfers callers ask for                           *)
  Tries         (* READY_FOR_DATA_RETRIES and DIS_STATE_TRIES              *)

Request == [write     : BOOLEAN,   (* read_or_write                        *)
            multi     : BOOLEAN,   (* more than one block                  *)
            dontstdby : BOOLEAN]   (* CUSTCOM_DONTSTDBY                    *)

ASSUME TransferAssumption ==
  /\ NoOfDesc \in Nat \ {0}
  /\ Requests \subseteq Request
  /\ Tries \in Nat \ {0}

VARIABLES
  pc,           (* the step of emmc_read_write_bytes that comes next       *)
  op,           (* its arguments                                           *)
  back,         (* where emmc_put_in_trans_state returns to                *)
  count,        (* the retry loops' counter                                *)
  retval,       (* and, once pc is "idle", what the call returned          *)
  card_state,   (* the_card_info[slot].card_state                          *)
  own,          (* DescOwnByDma of each descriptor                         *)
  next, busy,   (* current_task.next and .busy                             *)
  base,         (* the descriptor EMMC_REG_DBADDR names                    *)
  dma,          (* the host's data path                                    *)
  cur,          (* the descriptor the DMA works on                         *)
  moved,        (* how the data of the last data command moved             *)
  idmac_enabled (* of the_ip_status: the DMA moves the data                *)

ringVars == <<own, next, busy>>
dmaVars  == <<base, dma, cur>>
vars == <<card, pc, op, back, count, retval, card_state, ringVars, dmaVars,
          moved, idmac_enabled>>

Slot == 0..(NoOfDesc - 1)

(* The successor in the ring: DescEndOfRing marks the last descriptor.     *)
IsLastDesc(i) == i = NoOfDesc - 1
Advance(i)    == IF IsLastDesc(i) THEN 0 ELSE i + 1

(* An enumerated card; the descriptors as emmc_setup_desc_list links them. *)
Init ==
  /\ card = "stby" /\ card_state = "stby"
  /\ pc = "idle" /\ op \in Requests /\ back = "blklen" /\ count = 0
  /\ retval = "none"
  /\ own = [i \in Slot |-> FALSE]
  /\ next = 0 /\ busy = 0
  /\ base = 0 /\ dma = "idle" /\ cur = 0
  /\ moved = "none" /\ idmac_enabled = FALSE

-----------------------------------------------------------------------------
(* Before the data command.                                                *)

(* emmc_init_controller ends by turning the DMA on; until then, while the  *)
(* card is enumerated, the processor moves the data.                       *)
EnableIdmac ==
  /\ pc = "idle"
  /\ idmac_enabled' = TRUE
  /\ UNCHANGED <<card, pc, op, back, count, retval, card_state, ringVars,
                 dmaVars, moved>>

(* dma_ownbit_set: the application marks the next descriptor.              *)
DmaOwnbitSet ==
  /\ pc = "idle" /\ idmac_enabled
  /\ own' = [own EXCEPT ![next] = TRUE]
  /\ UNCHANGED <<card, pc, op, back, count, retval, card_state, next, busy,
                 dmaVars, moved, idmac_enabled>>

Call(request) ==
  /\ pc = "idle"
  /\ op' = request
  /\ pc' = "status" /\ back' = "blklen"
  /\ retval' = "OK" /\ moved' = "none"
  /\ UNCHANGED <<card, count, card_state, ringVars, dmaVars, idmac_enabled>>

(* emmc_put_in_trans_state.  Its failure sends the transfer to HOUSEKEEP,  *)
(* which calls it again and then ignores it.                               *)
SelectFailed(code) ==
  IF back = "blklen"
  THEN pc' = "house" /\ retval' = code
  ELSE pc' = "deselect" /\ UNCHANGED retval

SelectStatus ==
  /\ pc = "status"
  /\ \E r \in {"OK", "ERRCMD"} :
       /\ Exchange("CMD13", r)
       /\ CASE r = "OK" /\ card = "tran" ->
                 pc' = back /\ card_state' = "tran" /\ UNCHANGED retval
            [] r = "OK" /\ card = "stby" ->
                 pc' = "select" /\ card_state' = "stby" /\ UNCHANGED retval
            [] r = "OK" /\ card \notin {"stby", "tran"} ->
                 SelectFailed("ERRFSMSTATE") /\ UNCHANGED card_state
            [] OTHER -> SelectFailed(r) /\ UNCHANGED card_state
  /\ UNCHANGED <<op, back, count, ringVars, dmaVars, moved>>

(* Mutant: the result of CMD7 is not looked at.                            *)
SelectUnchecked ==
  /\ pc = "select"
  /\ \E r \in {"OK", "ERRCMD"} : Exchange("CMD7", r)
  /\ pc' = back /\ card_state' = "tran"
  /\ UNCHANGED <<op, back, count, retval, ringVars, dmaVars, moved>>

Select ==
  /\ pc = "select"
  /\ \E r \in {"OK", "ERRCMD"} :
       /\ Exchange("CMD7", r)
       /\ IF r = "OK"
          THEN pc' = back /\ card_state' = "tran" /\ UNCHANGED retval
          ELSE SelectFailed(r) /\ UNCHANGED card_state
  /\ UNCHANGED <<op, back, count, ringVars, dmaVars, moved>>

BlockLength ==
  /\ pc = "blklen"
  /\ \E r \in {"OK", "ERRCMD"} :
       /\ Exchange("CMD16", r)
       /\ pc' = IF r = "OK" THEN "queue" ELSE "house"
       /\ retval' = r
  /\ UNCHANGED <<op, back, count, card_state, ringVars, dmaVars, moved>>

AfterQueue == /\ pc' = IF op.write THEN "ready" ELSE "command"
              /\ count' = 0

(* Slave mode: the first words of a write go into the FIFO.                *)
FillFifo ==
  /\ pc = "queue" /\ ~idmac_enabled
  /\ AfterQueue
  /\ UNCHANGED <<card, op, back, retval, card_state, ringVars, dmaVars, moved>>

(* emmc_set_qptr: emmc_is_desc_free says yes to a descriptor whose OWN bit *)
(* is set.                                                                 *)
SetQptr ==
  /\ pc = "queue" /\ idmac_enabled
  /\ own[next]
  /\ base' = next
  /\ next' = Advance(next)
  /\ AfterQueue
  /\ UNCHANGED <<card, op, back, retval, card_state, own, busy, dma, cur,
                 moved>>

(* Otherwise the transfer is given up on the spot.                         *)
NoDescriptor ==
  /\ pc = "queue" /\ idmac_enabled
  /\ ~own[next]
  /\ base' = next
  /\ pc' = "idle" /\ retval' = "ERRNOMEMORY"
  /\ UNCHANGED <<card, op, back, count, card_state, ringVars, dma, cur, moved>>

(* Several blocks may be more than a descriptor can hold; the transfer is  *)
(* given up before the ring is looked at.                                  *)
TooLong ==
  /\ pc = "queue" /\ idmac_enabled
  /\ op.multi
  /\ pc' = "idle" /\ retval' = "ERRNOTSUPPORTED"
  /\ UNCHANGED <<card, op, back, count, card_state, ringVars, dmaVars, moved>>

(* Mutant: one CMD13 too many.                                             *)
IsCardReadyOnceMore ==
  /\ pc = "ready"
  /\ \E r \in {"OK", "ERRCMD"}, ready \in BOOLEAN :
       /\ Exchange("CMD13", r)
       /\ IF r = "OK" /\ ~ready
          THEN /\ count' = count + 1
               /\ IF count = Tries
                  THEN pc' = "house" /\ retval' = "ERRCARDNOTREADY"
                  ELSE UNCHANGED <<pc, retval>>
          ELSE /\ pc' = IF r = "OK" THEN "command" ELSE "house"
               /\ retval' = r
               /\ UNCHANGED count
  /\ UNCHANGED <<op, back, card_state, ringVars, dmaVars, moved>>

(* emmc_is_card_ready_for_data, one CMD13 at a time; READY_FOR_DATA is the *)
(* card's to give.                                                         *)
IsCardReady ==
  /\ pc = "ready"
  /\ \E r \in {"OK", "ERRCMD"}, ready \in BOOLEAN :
       /\ Exchange("CMD13", r)
       /\ IF r = "OK" /\ ~ready
          THEN /\ count' = count + 1
               /\ IF count + 1 = Tries
                  THEN pc' = "house" /\ retval' = "ERRCARDNOTREADY"
                  ELSE UNCHANGED <<pc, retval>>
          ELSE /\ pc' = IF r = "OK" THEN "command" ELSE "house"
               /\ retval' = r
               /\ UNCHANGED count
  /\ UNCHANGED <<op, back, card_state, ringVars, dmaVars, moved>>

-----------------------------------------------------------------------------
(* The data command.  The controller takes it when its data path is idle:  *)
(* emmc_poll_cmd_register waits for that with the interrupt disabled.      *)

DataCommand == CASE op.write /\ op.multi   -> "CMD25"
                 [] op.write /\ ~op.multi  -> "CMD24"
                 [] ~op.write /\ op.multi  -> "CMD18"
                 [] OTHER                  -> "CMD17"

(* The command is refused, or its answer is lost.                          *)
CommandFails ==
  /\ pc = "command" /\ dma = "idle"
  /\ Exchange(DataCommand, "ERRCMD")
  /\ pc' = "house" /\ retval' = "ERRCMD"
  /\ UNCHANGED <<op, back, count, card_state, ringVars, dmaVars, moved>>

(* The command is answered and the data path starts; a DMA that does not   *)
(* own its descriptor is suspended.                                        *)
CommandStarts ==
  /\ pc = "command" /\ dma = "idle"
  /\ Exchange(DataCommand, "OK")
  /\ pc' = "data"
  /\ cur' = base
  /\ dma' = IF idmac_enabled /\ ~own[base] THEN "suspended" ELSE "run"
  /\ moved' = "none"
  /\ UNCHANGED <<op, back, count, retval, card_state, ringVars, base>>

(* The card's state once its last block has gone over.                     *)
AfterData == CASE card = "data" /\ ~op.multi -> "tran"
               [] card = "rcv"  /\ ~op.multi -> "prg"
               [] OTHER -> card

Corruption == IF op.write THEN "ERRENDBITERR" ELSE "ERRDCRC"

(* Mutant: the caller forgets emmc_bus_corruption_present.                 *)
SlaveDataUnchecked(outcome) ==
  /\ pc = "data" /\ dma = "run" /\ ~idmac_enabled
  /\ dma' = "idle"
  /\ card' = AfterData
  /\ moved' = IF outcome = "ok" THEN "ok" ELSE "err"
  /\ IF outcome = "error" THEN pc' = "house" /\ retval' = "ERRCMD"
                          ELSE pc' = "busy"  /\ UNCHANGED retval
  /\ UNCHANGED <<op, back, count, card_state, ringVars, base, cur>>

(* Slave mode: emmc_send_serial_command returns when the data has moved.   *)
(* An error other than the corruption of the data is returned at once.     *)
SlaveData(outcome) ==
  /\ pc = "data" /\ dma = "run" /\ ~idmac_enabled
  /\ dma' = "idle"
  /\ card' = AfterData
  /\ moved' = IF outcome = "ok" THEN "ok" ELSE "err"
  /\ CASE outcome = "ok"      -> pc' = "busy"  /\ UNCHANGED retval
       [] outcome = "corrupt" -> pc' = "busy"  /\ retval' = Corruption
       [] OTHER               -> pc' = "house" /\ retval' = "ERRCMD"
  /\ UNCHANGED <<op, back, count, card_state, ringVars, base, cur>>

(* The DMA gives its descriptor back when the data has moved, or when the  *)
(* card no longer takes part and the data timeout ends the transfer.       *)
DmaEnd ==
  /\ dma = "run" /\ idmac_enabled
  /\ dma' = "idle"
  /\ own' = [own EXCEPT ![cur] = FALSE]
  /\ IF card \in {"data", "rcv"}
     THEN card' = AfterData /\ moved' \in {"ok", "err"}
     ELSE UNCHANGED card    /\ moved' = "err"
  /\ UNCHANGED <<pc, op, back, count, retval, card_state, next, busy, base,
                 cur>>

(* A suspended DMA raises DU.  During a command, with the interrupt        *)
(* enabled, emmc_handle_standard_idsts issues a poll demand, which finds   *)
(* the descriptor as it is, or resets the controller.                      *)
DmaUnavailable ==
  /\ dma = "suspended" /\ pc \notin {"idle", "command"}
  /\ dma' = IF own[cur] THEN "run" ELSE "idle"
  /\ UNCHANGED <<card, pc, op, back, count, retval, card_state, ringVars,
                 base, cur, moved>>

(* In DMA mode the first interrupt of the command, whichever it is, takes  *)
(* the descriptor back (emmc_get_qptr) and ends the call; an error that    *)
(* came with it is the corruption of the data, or is returned.             *)
DmaReturn ==
  /\ pc = "data" /\ idmac_enabled
  /\ busy' = IF own[busy] THEN busy ELSE Advance(busy)
  /\ IF moved = "err"
     THEN \/ pc' = "busy"  /\ retval' = Corruption
          \/ pc' = "house" /\ retval' = "ERRCMD"
     ELSE pc' = "busy" /\ UNCHANGED retval
  /\ UNCHANGED <<card, op, back, count, card_state, own, next, dmaVars, moved>>

(* Mutant: the sense of STATUS_DAT_BUSY_BIT is inverted.                   *)
NotBusyInverted ==
  /\ pc = "busy"
  /\ op.write => card = "prg"
  /\ pc' = IF op.multi THEN "stop" ELSE "house"
  /\ UNCHANGED <<card, op, back, count, retval, card_state, ringVars, dmaVars,
                 moved>>

(* A write waits for the card to release the data line.                    *)
NotBusy ==
  /\ pc = "busy"
  /\ op.write => card # "prg"
  /\ pc' = IF op.multi THEN "stop" ELSE "house"
  /\ UNCHANGED <<card, op, back, count, retval, card_state, ringVars, dmaVars,
                 moved>>

(* CMD12 after a transfer of several blocks; its result becomes that of    *)
(* the transfer.                                                           *)
StopTransmission ==
  /\ pc = "stop"
  /\ \E r \in {"OK", "ERRCMD"} : Exchange("CMD12", r) /\ retval' = r
  /\ pc' = "house"
  /\ UNCHANGED <<op, back, count, card_state, ringVars, dmaVars, moved>>

-----------------------------------------------------------------------------
(* HOUSEKEEP.                                                              *)

(* The caller who does not set CUSTCOM_DONTSTDBY is served at once.        *)
LeaveSelected ==
  /\ pc = "house" /\ ~op.dontstdby
  /\ pc' = "idle" /\ card_state' = "stby"
  /\ UNCHANGED <<card, op, back, count, retval, ringVars, dmaVars, moved>>

HouseRead ==
  /\ pc = "house" /\ op.dontstdby /\ ~op.write
  /\ pc' = "status" /\ back' = "deselect"
  /\ UNCHANGED <<card, op, count, retval, card_state, ringVars, dmaVars,
                 moved>>

HouseWrite ==
  /\ pc = "house" /\ op.dontstdby /\ op.write
  /\ pc' = "program" /\ count' = 0
  /\ UNCHANGED <<card, op, back, retval, card_state, ringVars, dmaVars, moved>>

(* A write waits for the card to leave the programming state, which it     *)
(* does to the trans state, and then insists on the standby state.         *)
AwaitProgrammed ==
  /\ pc = "program"
  /\ \E r \in {"OK", "ERRCMD"} :
       /\ Exchange("CMD13", r)
       /\ CASE r # "OK" ->
                 pc' = "idle" /\ retval' = r /\ UNCHANGED <<count, back>>
            [] r = "OK" /\ card = "prg" /\ count + 1 < Tries ->
                 count' = count + 1 /\ UNCHANGED <<pc, retval, back>>
            [] r = "OK" /\ card = "stby" ->
                 pc' = "status" /\ back' = "deselect"
                 /\ UNCHANGED <<retval, count>>
            [] OTHER ->
                 pc' = "idle" /\ retval' = "ERRFSMSTATE"
                 /\ UNCHANGED <<count, back>>
  /\ UNCHANGED <<op, card_state, ringVars, dmaVars, moved>>

(* The unaddressed CMD7 takes the card back to standby.  When the          *)
(* controller does not take it, that is the result of the call, and the    *)
(* belief about the card stays as it was.                                  *)
Deselect ==
  /\ pc = "deselect"
  /\ Announce("UNADD_CMD7")
  /\ pc' = "idle"
  /\ \/ card_state' = "stby" /\ UNCHANGED retval
     \/ retval' = "ERRCMD" /\ UNCHANGED card_state
  /\ UNCHANGED <<op, back, count, ringVars, dmaVars, moved>>

-----------------------------------------------------------------------------
Driver ==
  /\ \/ SelectStatus \/ Select \/ BlockLength \/ FillFifo \/ SetQptr
     \/ NoDescriptor \/ TooLong \/ IsCardReady
     \/ CommandFails \/ CommandStarts \/ DmaReturn \/ NotBusy \/ StopTransmission
     \/ LeaveSelected \/ HouseRead \/ HouseWrite \/ AwaitProgrammed
     \/ Deselect
  /\ UNCHANGED idmac_enabled

(* The card finishes programming; it also ends a read of one block whose   *)
(* data the host did not take.                                             *)
CardProgresses ==
  /\ \/ Programmed
     \/ card = "data" /\ dma = "idle" /\ ~op.multi /\ card' = "tran"
  /\ UNCHANGED <<pc, op, back, count, retval, card_state, ringVars, dmaVars,
                 moved, idmac_enabled>>

DataPath ==
  /\ \/ \E outcome \in {"ok", "corrupt", "error"} : SlaveData(outcome)
     \/ DmaEnd \/ DmaUnavailable
  /\ UNCHANGED idmac_enabled

Next ==
  \/ EnableIdmac
  \/ DmaOwnbitSet
  \/ \E request \in Requests : Call(request)
  \/ Driver \/ DataPath \/ CardProgresses

Spec == Init /\ [][Next]_vars
FairSpec == Spec /\ WF_vars(Driver) /\ WF_vars(DataPath)
                 /\ WF_vars(CardProgresses)

-----------------------------------------------------------------------------
Step == {"idle", "status", "select", "blklen", "queue", "ready", "command",
         "data", "busy", "stop", "house", "program", "deselect"}
Result == {"none", "OK", "ERRCMD", "ERRFSMSTATE", "ERRNOMEMORY",
           "ERRNOTSUPPORTED", "ERRCARDNOTREADY", "ERRDCRC", "ERRENDBITERR"}

(* Every variable has its type: the ring indices stay inside the ring and  *)
(* the retries inside their bound.                                         *)
TypeOK ==
  /\ card \in CardState
  /\ pc \in Step /\ op \in Requests /\ back \in {"blklen", "deselect"}
  /\ count \in 0..Tries
  /\ retval \in Result
  /\ card_state \in {"stby", "tran"}
  /\ own \in [Slot -> BOOLEAN]
  /\ next \in Slot /\ busy \in Slot /\ base \in Slot /\ cur \in Slot
  /\ dma \in {"idle", "run", "suspended"}
  /\ moved \in {"none", "ok", "err"}
  /\ idmac_enabled \in BOOLEAN

(* A transfer of one block that the processor moves returns 0 only when    *)
(* the data has moved (emmc.c:1609).  One of several blocks returns the    *)
(* result of CMD12, one that the DMA moves that of its descriptor.         *)
SuccessMeansTransferred ==
  pc = "idle" /\ retval = "OK" /\ ~idmac_enabled /\ ~op.multi => moved = "ok"

(* A call whose commands all went well and whose data has moved returns 0: *)
(* the checks of HOUSEKEEP find no fault with a healthy card.              *)
TransferredMeansSuccess ==
  pc = "idle" /\ moved = "ok" => retval \notin {"ERRFSMSTATE"}

(* From the selection of the card to the data command the driver's belief  *)
(* about the card is right: the card is selected.                          *)
CardIsSelected ==
  pc \in {"blklen", "queue", "ready", "command"} =>
    card = "tran" /\ card_state = "tran"

(* Every call whose data the processor moves returns, and every call that  *)
(* needs no data path; CallReturns asks it of the DMA too.                 *)
SlaveCallReturns == (pc # "idle" /\ ~idmac_enabled) ~> pc = "idle"
CallReturns      == pc # "idle" ~> pc = "idle"
=============================================================================
