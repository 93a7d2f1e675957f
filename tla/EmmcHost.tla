------------------------------ MODULE EmmcHost ------------------------------
(***************************************************************************)
(* The SD/eMMC host controller as libs/sys_lib/src/emmc.c uses it: the     *)
(* registers the driver reads and writes, and what the controller may do   *)
(* to them between two accesses.  The controller itself is hardware and    *)
(* not in the repository; it is modelled from the register accesses of the *)
(* driver and the interrupt bits of libs/sys_lib/inc/emmc.h.               *)
(*                                                                         *)
(* The command path and the data path are independent: a command that does *)
(* not wait for previous data may be answered while a transfer runs.  The  *)
(* history variables answer and moved record how the command and the       *)
(* transfer of the call now in progress really ended.                      *)
(***************************************************************************)
EXTENDS Naturals

CONSTANTS
  SplitErrors,  (* may the controller raise an error bit in an interrupt   *)
                (* that precedes CMD_DONE / DAT_OVER?                      *)
  LateBits      (* the paths that may raise a bit while the handler is     *)
                (* between its last look at RINTSTS and the write that     *)
                (* clears it                                               *)

ASSUME HostAssumption ==
  SplitErrors \in BOOLEAN /\ LateBits \subseteq {"CMD", "DATA"}

VARIABLES
  rintsts,      (* EMMC_REG_RINTSTS: the raw interrupt bits now set        *)
  idsts,        (* EMMC_REG_IDSTS: the DMA interrupt bits now set          *)
  int_enable,   (* INT_ENABLE in EMMC_REG_CTRL                             *)
  resp,         (* EMMC_REG_RESP0: does it carry R1 error bits?            *)
  start_bit,    (* CMD_DONE_BIT in EMMC_REG_CMD: a command waits to load   *)
  cmd_path,     (* the command on the CMD line: nobody's, the present      *)
                (* call's, or that of a call which already returned        *)
  with_data,    (* that command is followed by a data transfer             *)
  failed,       (* an error bit was already raised for that command        *)
  data_path,    (* the transfer on the DAT lines, tagged the same way      *)
  suspended,    (* the DMA stopped for want of a descriptor                *)
  answer,       (* how the present call's command was answered             *)
  moved         (* how the present call's data transfer ended              *)

hostVars == <<rintsts, idsts, int_enable, resp, start_bit, cmd_path,
              with_data, failed, data_path, suspended, answer, moved>>

(* Everything but the gate the driver opens and closes.                    *)
behindGate == <<rintsts, idsts, resp, start_bit, cmd_path, with_data, failed,
                data_path, suspended, answer, moved>>
lines == <<start_bit, cmd_path, with_data, failed, data_path, suspended>>

RintBit   == {"CMD_DONE", "RTO", "DAT_OVER", "DRQ", "DCRC", "FRUN", "EBE"}
DataError == {"DCRC", "FRUN", "EBE"}
DmaBit    == {"NI", "FBE", "DU", "CES"}
Owner     == {"idle", "mine", "old"}
Verdict   == {"none", "ok", "err"}

HostTypeOK ==
  /\ rintsts   \subseteq RintBit
  /\ idsts     \subseteq DmaBit
  /\ resp      \in {"clean", "bad"}
  /\ cmd_path  \in Owner
  /\ data_path \in Owner
  /\ answer    \in Verdict
  /\ moved     \in Verdict
  /\ int_enable \in BOOLEAN /\ start_bit \in BOOLEAN
  /\ with_data  \in BOOLEAN /\ failed    \in BOOLEAN
  /\ suspended  \in BOOLEAN

(* The registers as emmc_init_controller leaves them.                      *)
HostInit ==
  /\ rintsts = {} /\ idsts = {} /\ int_enable = TRUE
  /\ resp = "clean" /\ start_bit = FALSE
  /\ cmd_path = "idle" /\ with_data = FALSE /\ failed = FALSE
  /\ data_path = "idle" /\ suspended = FALSE
  /\ answer = "none" /\ moved = "none"

(* The interrupt line: RINTSTS and IDSTS are OR-ed and gated by INT_ENABLE *)
Interrupt == int_enable /\ (rintsts # {} \/ idsts # {})

Disown(owner) == IF owner = "idle" THEN "idle" ELSE "old"

-----------------------------------------------------------------------------
(* What the driver does to the controller.                                 *)

(* Writing EMMC_REG_CMD with CMD_DONE_BIT set; whatever still runs on the  *)
(* two paths belongs from now on to an earlier call.                       *)
LoadCommand ==
  /\ start_bit' = TRUE
  /\ cmd_path'  = Disown(cmd_path)
  /\ data_path' = Disown(data_path)
  /\ answer'    = "none"
  /\ moved'     = "none"

-----------------------------------------------------------------------------
(* What the controller does.  quiet says that the interrupt handler is not *)
(* active; dataCmd and dma describe the command in EMMC_REG_CMD and its    *)
(* transfer.                                                               *)

(* The CIU takes the command and clears CMD_DONE_BIT; a data command has   *)
(* CMD_WAIT_PRV_DAT_BIT set and waits for the transfer in progress.        *)
Accept(dataCmd) ==
  /\ start_bit
  /\ cmd_path = "idle"
  /\ dataCmd => data_path = "idle"
  /\ start_bit' = FALSE
  /\ cmd_path'  = "mine"
  /\ with_data' = dataCmd
  /\ failed'    = FALSE
  /\ UNCHANGED <<rintsts, idsts, int_enable, resp, data_path, suspended,
                 answer, moved>>

(* A response error reported ahead of CMD_DONE.                            *)
RaiseResponseError(quiet) ==
  /\ SplitErrors
  /\ quiet \/ "CMD" \in LateBits
  /\ cmd_path # "idle" /\ ~failed
  /\ rintsts' = rintsts \union {"RTO"}
  /\ failed'  = TRUE
  /\ answer'  = IF cmd_path = "mine" THEN "err" ELSE answer
  /\ UNCHANGED <<idsts, int_enable, resp, start_bit, cmd_path, with_data,
                 data_path, suspended, moved>>

(* The command ends: a response without and with the bits that are errors  *)
(* in an R1 response, or no response at all.  r1 says that the response of *)
(* the command is one.  A data command without an error starts its         *)
(* transfer.                                                               *)
EndCommand(quiet, outcome, r1) ==
  /\ quiet \/ "CMD" \in LateBits
  /\ cmd_path # "idle"
  /\ failed => outcome = "timeout"
  /\ rintsts' = rintsts \union
                  (IF outcome = "timeout" /\ ~failed THEN {"CMD_DONE", "RTO"}
                                                     ELSE {"CMD_DONE"})
  /\ resp' = IF outcome = "timeout" THEN resp ELSE outcome
  /\ cmd_path' = "idle"
  /\ failed' = FALSE
  /\ answer' = IF cmd_path # "mine" THEN answer
               ELSE IF outcome = "timeout" \/ (r1 /\ outcome = "bad")
               THEN "err" ELSE "ok"
  /\ data_path' = IF with_data /\ outcome = "clean" THEN cmd_path
                                                    ELSE data_path
  /\ UNCHANGED <<idsts, int_enable, start_bit, with_data, suspended, moved>>

(* The FIFO crosses its threshold: TXDR or RXDR; both are masked when the  *)
(* DMA moves the data.                                                     *)
RequestData(quiet, dma) ==
  /\ ~dma
  /\ quiet \/ "DATA" \in LateBits
  /\ data_path # "idle"
  /\ "DRQ" \notin rintsts
  /\ rintsts' = rintsts \union {"DRQ"}
  /\ UNCHANGED <<idsts, int_enable, resp, start_bit, cmd_path, with_data,
                 failed, data_path, suspended, answer, moved>>

(* A data error reported ahead of DAT_OVER.                                *)
RaiseDataError(quiet, e) ==
  /\ SplitErrors
  /\ quiet \/ "DATA" \in LateBits
  /\ data_path # "idle" /\ moved = "none"
  /\ rintsts' = rintsts \union {e}
  /\ moved'   = IF data_path = "mine" THEN "err" ELSE moved
  /\ UNCHANGED <<idsts, int_enable, resp, start_bit, cmd_path, with_data,
                 failed, data_path, suspended, answer>>

(* The transfer ends, without an error or with the errors es.              *)
EndData(quiet, dma, es) ==
  /\ quiet \/ "DATA" \in LateBits
  /\ data_path # "idle" /\ ~suspended
  /\ rintsts'   = rintsts \union {"DAT_OVER"} \union es
  /\ idsts'     = IF ~dma THEN idsts
                  ELSE idsts \union (IF es = {} THEN {"NI"} ELSE {"CES"})
  /\ data_path' = "idle"
  /\ moved' = IF data_path # "mine" THEN moved
              ELSE IF es = {} /\ moved = "none" THEN "ok" ELSE "err"
  /\ UNCHANGED <<int_enable, resp, start_bit, cmd_path, with_data, failed,
                 suspended, answer>>

(* A bus error ends a DMA transfer.                                        *)
BusError(quiet, dma) ==
  /\ dma
  /\ quiet \/ "DATA" \in LateBits
  /\ data_path # "idle" /\ ~suspended
  /\ idsts'     = idsts \union {"FBE"}
  /\ data_path' = "idle"
  /\ moved'     = IF data_path = "mine" THEN "err" ELSE moved
  /\ UNCHANGED <<rintsts, int_enable, resp, start_bit, cmd_path, with_data,
                 failed, suspended, answer>>

(* The DMA finds its descriptor not owned by it and suspends until the     *)
(* driver writes EMMC_REG_PLDMND.                                          *)
DescriptorUnavailable(quiet, dma) ==
  /\ dma
  /\ quiet \/ "DATA" \in LateBits
  /\ data_path # "idle" /\ ~suspended
  /\ idsts'     = idsts \union {"DU"}
  /\ suspended' = TRUE
  /\ UNCHANGED <<rintsts, int_enable, resp, start_bit, cmd_path, with_data,
                 failed, data_path, answer, moved>>
=============================================================================
