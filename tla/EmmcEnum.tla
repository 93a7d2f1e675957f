------------------------------ MODULE EmmcEnum ------------------------------
(***************************************************************************)
(* emmc_enumerate_the_card: what kind of card answers, and the reset that  *)
(* brings an SD 1.x, SD 2.0 or SDIO card to standby.  Each step sends one  *)
(* command; the card may not know it, and it or its answer may be lost.    *)
(***************************************************************************)
EXTENDS EmmcCard

CONSTANTS
  Kinds,        (* the cards that may be in the slot                       *)
  Tries         (* ACMD41_, CMD2_ and CMD5_RETRY_COUNT                     *)

Kind == {"none", "MMC", "SDIO", "SD1", "SD2SC", "SD2HC"}

ASSUME EnumAssumption == Kinds \subseteq Kind /\ Tries \in Nat \ {0}

VARIABLES
  kind,         (* the card in the slot                                    *)
  cardWide,     (* the card drives four data lines                         *)
  known,        (* the RCA in the_card_info is the card's                  *)
  pc,           (* the command that comes next                             *)
  count,        (* the retries left                                        *)
  retval,       (* and, once pc is "idle", what the enumeration returned   *)
  enum_status, card_state, card_type,     (* of the_card_info[slot]        *)
  hostWide      (* the slot's bit in EMMC_REG_CTYPE                        *)

info == <<enum_status, card_state, card_type>>
bus  == <<cardWide, hostWide>>
vars == <<card, kind, known, pc, count, retval, info, bus>>

CardType == {"NONE_TYPE", "ERRTYPE", "SDIO_TYPE", "SD_TYPE",
             "SD_MEM_2_0_TYPE", "SD_MEM_3_0_TYPE"}
NoAnswer == {"ERRRESPTIMEOUT", "ERRCMD"}
Reply    == NoAnswer \union {"OK"}

Init ==
  /\ kind \in Kinds /\ card = "idle" /\ cardWide = FALSE /\ known = FALSE
  /\ pc = "idle" /\ count = 0 /\ retval = "none"
  /\ enum_status = "ERRCARDNOTCONN" /\ card_state = "EMPTY"
  /\ card_type = "NONE_TYPE" /\ hostWide = FALSE

(* The commands a card of each kind answers.                               *)
Memory    == {"SD1", "SD2SC", "SD2HC"}
Answers(c) ==
  CASE c \in {"CMD5", "CMD52"}     -> kind = "SDIO"
    [] c = "CMD8"                 -> kind \in {"SD2SC", "SD2HC"}
    [] c \in {"CMD55", "ACMD41", "ACMD6", "ACMD42", "CMD2", "CMD9", "CMD13"}
                                  -> kind \in Memory
    [] OTHER                      -> kind \in Memory \union {"SDIO"}

(* A command sent to the card, and what emmc_send_serial_command returns.  *)
Try(c, r) ==
  \/ r = "OK" /\ Answers(c) /\ Heard(c)
  \/ r \in NoAnswer /\ (Lost \/ (Answers(c) /\ Heard(c)))
AtTheCard(c, r) == IF known THEN Try(c, r) ELSE r \in NoAnswer /\ Lost

-----------------------------------------------------------------------------
(* emmc_get_card_type.  enum_status is opened for its commands.            *)

Enumerate ==
  /\ pc = "idle"
  /\ card_state' = "EMPTY" /\ enum_status' = "OK" /\ hostWide' = FALSE
  /\ pc' = "cmd5" /\ retval' = "OK"
  /\ UNCHANGED <<card, kind, known, count, card_type, cardWide>>

(* The switch of emmc_enumerate_the_card; the reset of a memory card       *)
(* begins by clearing the_card_info, which makes card_state 0, "idle".     *)
Found(type) ==
  CASE type = "SDIO_TYPE" ->
         /\ pc' = "io_cmd5" /\ enum_status' = "OK"
         /\ UNCHANGED <<card_state, retval>>
    [] type \in {"SD_TYPE", "SD_MEM_2_0_TYPE"} ->
         /\ pc' = "cmd0" /\ enum_status' = "OK"
         /\ card_state' = "idle"
         /\ UNCHANGED retval
    [] OTHER ->
         /\ pc' = "idle" /\ enum_status' = "ERRCARDNOTCONN"
         /\ retval' = IF type = "NONE_TYPE" THEN "ERRNOTSUPPORTED"
                                            ELSE "ERRENUMERATE"
         /\ UNCHANGED card_state
Recognised(type) == card_type' = type /\ Found(type)
StillUnknown(step) ==
  pc' = step /\ UNCHANGED <<enum_status, card_state, card_type, retval>>

AskSdio ==
  /\ pc = "cmd5"
  /\ \E r \in Reply :
       /\ Try("CMD5", r)
       /\ IF r = "OK" THEN Recognised("SDIO_TYPE") ELSE StillUnknown("reset")
  /\ UNCHANGED <<kind, known, count, bus>>

(* CMD0 has no response: an SD card that hears it is idle, narrow.         *)
GoIdle(next) ==
  /\ \/ kind \in Memory /\ Heard("CMD0") /\ cardWide' = FALSE
     \/ Lost /\ UNCHANGED cardWide
  /\ pc' = next
  /\ UNCHANGED <<kind, known, hostWide>>

AskReset ==
  /\ pc = "reset"
  /\ GoIdle("cmd8")
  /\ UNCHANGED <<count, retval, info>>

AskSd2 ==
  /\ pc = "cmd8"
  /\ \E r \in Reply :
       /\ Try("CMD8", r)
       /\ CASE r = "OK"             -> Recognised("SD_MEM_2_0_TYPE")
            [] r = "ERRRESPTIMEOUT" -> StillUnknown("acmd41")
            [] OTHER                -> Recognised("ERRTYPE")
  /\ UNCHANGED <<kind, known, count, bus>>

(* The inquiry, a CMD55 of its own before it, leaves the card idle.  When  *)
(* no answer comes the function ends without a return: any type.           *)
AskSd1 ==
  /\ pc = "acmd41"
  /\ \E r \in Reply :
       /\ r = "OK" => kind \in Memory /\ card = "idle"
       /\ CASE r = "OK"     -> Recognised("SD_TYPE")
            [] r = "ERRCMD" -> Recognised("ERRTYPE")
            [] OTHER        -> \E type \in CardType : Recognised(type)
  /\ UNCHANGED <<card, kind, known, count, bus>>

-----------------------------------------------------------------------------
(* emmc_reset_sd_card and emmc_reset_sd_2_0_card.                          *)

Sd2 == card_type # "SD_TYPE"

(* HOUSEKEEP.                                                              *)
Housekeep(result) ==
  /\ pc' = "idle" /\ retval' = result
  /\ enum_status' = result
OnOk(r, step) ==
  IF r = "OK" THEN pc' = step /\ UNCHANGED <<retval, enum_status>>
              ELSE Housekeep(r)

(* CMD0; heard or not, the controller may report it failed.                *)
ResetCard ==
  /\ pc = "cmd0"
  /\ \/ GoIdle(IF Sd2 THEN "sd_cmd8" ELSE "cmd55")
        /\ count' = Tries /\ UNCHANGED <<retval, enum_status>>
     \/ GoIdle("idle") /\ Housekeep("ERRCMD") /\ UNCHANGED count
  /\ UNCHANGED <<card_state, card_type>>

(* SD_CMD8 again; its failure does not go through HOUSEKEEP.               *)
CheckInterface ==
  /\ pc = "sd_cmd8"
  /\ \E r \in Reply :
       /\ Try("CMD8", r)
       /\ IF r = "OK" THEN pc' = "cmd55" /\ UNCHANGED retval
                      ELSE pc' = "idle" /\ retval' = "ERRTYPE"
  /\ UNCHANGED <<kind, known, count, info, bus>>

(* emmc_set_sd_voltage_range: CMD55, then ACMD41 until the card is ready.  *)
(* CARD_PRESENT reads a card-detect line that need not be connected.       *)
NoCardDetect ==
  /\ pc = "cmd55" /\ count = Tries
  /\ Housekeep("ERRCARDNOTCONN")
  /\ UNCHANGED <<card, kind, known, count, card_state, card_type, bus>>

AppCommand ==
  /\ pc = "cmd55"
  /\ \E r \in Reply :
       Try("CMD55", r) /\ OnOk(r, "voltage")
  /\ UNCHANGED <<kind, known, count, card_state, card_type, bus>>

(* Mutant: the tries are not counted.                                      *)
VoltageAgainUncounted ==
  pc' = "cmd55" /\ UNCHANGED <<count, retval, enum_status, card_state>>

VoltageAgain ==
  /\ count' = count - 1
  /\ IF count = 1
     THEN Housekeep("ERRHARDWARE") /\ card_state' = "ina"
     ELSE pc' = "cmd55" /\ UNCHANGED <<retval, enum_status, card_state>>

(* Mutant: the busy bit of the answer is not looked at.                    *)
SetVoltage2AnyAnswer ==
  /\ pc = "voltage" /\ Sd2
  /\ \E r \in Reply :
       /\ Try("ACMD41", r)
       /\ IF r = "OK"
          THEN /\ pc' = "cid" /\ count' = Tries /\ card_state' = "ready"
               /\ UNCHANGED <<retval, enum_status, card_type>>
          ELSE VoltageAgain /\ UNCHANGED card_type
  /\ UNCHANGED <<kind, known, bus>>

(* SD 2.0: the answer must have its power-up bit; CCS tells a high-        *)
(* capacity card, S18R one that can switch its voltage.                    *)
SetVoltage2 ==
  /\ pc = "voltage" /\ Sd2
  /\ \E r \in Reply, s18r \in BOOLEAN, range \in BOOLEAN :
       /\ Try("ACMD41", r)
       /\ CASE r = "OK" /\ card' = "ready" /\ ~range ->
                 /\ Housekeep("ERRHARDWARE") /\ card_state' = "ina"
                 /\ UNCHANGED <<card_type, count>>
            [] r = "OK" /\ card' = "ready" /\ range /\ kind # "SD2HC" ->
                 /\ Housekeep("ERRENUMERATE")
                 /\ UNCHANGED <<card_type, card_state, count>>
            [] r = "OK" /\ card' = "ready" /\ range /\ kind = "SD2HC" ->
                 /\ pc' = "cid" /\ count' = Tries /\ card_state' = "ready"
                 /\ card_type' = IF s18r THEN "SD_MEM_3_0_TYPE"
                                         ELSE card_type
                 /\ UNCHANGED <<retval, enum_status>>
            [] OTHER -> VoltageAgain /\ UNCHANGED card_type
  /\ UNCHANGED <<kind, known, bus>>

(* SD 1.x: any answer that is not all zeroes will do.                      *)
SetVoltage1 ==
  /\ pc = "voltage" /\ ~Sd2
  /\ \E r \in Reply :
       /\ Try("ACMD41", r)
       /\ IF r = "OK"
          THEN /\ pc' = "cid" /\ count' = Tries /\ card_state' = "ready"
               /\ UNCHANGED <<retval, enum_status>>
          ELSE VoltageAgain
  /\ UNCHANGED <<kind, known, card_type, bus>>

(* Mutant: the retries run one too far, past zero.                         *)
GetCidPastZero ==
  /\ pc = "cid"
  /\ \E r \in Reply :
       /\ Try("CMD2", r)
       /\ IF r = "OK"
          THEN /\ pc' = "rca" /\ card_state' = "ident"
               /\ UNCHANGED <<count, retval, enum_status>>
          ELSE /\ count' = count - 1
               /\ IF count < 0
                  THEN Housekeep("ERRHARDWARE")
                  ELSE UNCHANGED <<pc, retval, enum_status>>
               /\ UNCHANGED card_state
  /\ UNCHANGED <<kind, known, card_type, bus>>

(* emmc_get_cid.                                                           *)
GetCid ==
  /\ pc = "cid"
  /\ \E r \in Reply :
       /\ Try("CMD2", r)
       /\ IF r = "OK"
          THEN /\ pc' = "rca" /\ card_state' = "ident"
               /\ UNCHANGED <<count, retval, enum_status>>
          ELSE /\ count' = count - 1
               /\ IF count = 1
                  THEN Housekeep("ERRHARDWARE")
                  ELSE UNCHANGED <<pc, retval, enum_status>>
               /\ UNCHANGED card_state
  /\ UNCHANGED <<kind, known, card_type, bus>>

(* CMD3.  Its callback turns a missing answer into the corruption flag and *)
(* then judges the response register: the call may well succeed, with the  *)
(* RCA of whatever stood there.                                            *)
SendRca(next) ==
  \E heard, answered, r1 \in BOOLEAN :
    /\ IF heard THEN Heard("CMD3") /\ (kind = "SDIO" <=> card = "idle")
                ELSE Lost
    /\ answered => heard
    /\ known' = answered
    /\ IF answered \/ r1
       THEN pc' = next /\ card_state' = "stby"
            /\ UNCHANGED <<retval, enum_status>>
       ELSE Housekeep("ERRCMD") /\ UNCHANGED card_state

SetRca ==
  /\ pc = "rca"
  /\ SendRca("csd")
  /\ UNCHANGED <<kind, count, card_type, bus>>

(* Mutant: what CMD9 returns is not looked at.                             *)
ProcessCsdUnchecked ==
  /\ pc = "csd"
  /\ \E r \in Reply : AtTheCard("CMD9", r)
  /\ IF Sd2 THEN OnOk("OK", "scr") ELSE Housekeep("OK")
  /\ UNCHANGED <<kind, known, count, card_state, card_type, bus>>

(* emmc_process_csd and emmc_process_SD_2_0_csd; the latter checks the     *)
(* fields a high-capacity card must have.                                  *)
ProcessCsd ==
  /\ pc = "csd"
  /\ \E r \in Reply :
       /\ AtTheCard("CMD9", r)
       /\ CASE r = "OK" /\ Sd2  -> OnOk("OK", "scr") \/ Housekeep("ERRHARDWARE")
            [] r = "OK" /\ ~Sd2 -> Housekeep("OK")
            [] OTHER            -> Housekeep(r)
  /\ UNCHANGED <<kind, known, count, card_state, card_type, bus>>

(* emmc_process_scr, a transfer of EmmcTransfer: it ends with the card in  *)
(* standby, or selected because its deselection was lost.                  *)
ProcessScr ==
  /\ pc = "scr"
  /\ \/ card' \in {"stby", "tran"} /\ OnOk("OK", "w_status")
     \/ card' \in {"stby", "tran", "data"} /\ Housekeep("ERRCMD")
  /\ card_state' = "stby"
  /\ UNCHANGED <<kind, known, count, card_type, bus>>

-----------------------------------------------------------------------------
(* emmc_set_sd_wide_bus.  A card that does not go to four lines is used    *)
(* with one: its failures are not the enumeration's.                       *)

StaysNarrow == Housekeep("OK")

WideStatus ==
  /\ pc = "w_status"
  /\ \E r \in Reply :
       /\ AtTheCard("CMD13", r)
       /\ CASE r = "OK" /\ card = "tran" ->
                 /\ pc' = "w_acmd42" /\ card_state' = "tran"
                 /\ UNCHANGED <<retval, enum_status>>
            [] r = "OK" /\ card = "stby" ->
                 pc' = "w_cmd7" /\ UNCHANGED <<retval, enum_status, card_state>>
            [] OTHER -> StaysNarrow /\ UNCHANGED card_state
  /\ UNCHANGED <<kind, known, count, card_type, bus>>

WideSelect ==
  /\ pc = "w_cmd7"
  /\ \E r \in Reply :
       /\ AtTheCard("CMD7", r)
       /\ IF r = "OK"
          THEN /\ pc' = "w_acmd42" /\ card_state' = "tran"
               /\ UNCHANGED <<retval, enum_status>>
          ELSE StaysNarrow /\ UNCHANGED card_state
  /\ UNCHANGED <<kind, known, count, card_type, bus>>

WideDetect ==
  /\ pc = "w_acmd42"
  /\ \E r \in Reply :
       /\ AtTheCard("ACMD42", r)
       /\ IF r = "OK" THEN pc' = "w_acmd6" /\ UNCHANGED <<retval, enum_status>>
                      ELSE StaysNarrow
  /\ UNCHANGED <<kind, known, count, card_state, card_type, bus>>

(* Mutant: CTYPE is set before the card has agreed.                        *)
WideSwitchFirst ==
  /\ pc = "w_acmd6"
  /\ \E r \in Reply :
       /\ AtTheCard("ACMD6", r)
       /\ IF r = "OK" THEN cardWide' = TRUE ELSE cardWide' \in {cardWide, TRUE}
       /\ hostWide' = TRUE
  /\ StaysNarrow
  /\ UNCHANGED <<kind, known, count, card_state, card_type>>

WideSwitch ==
  /\ pc = "w_acmd6"
  /\ \E r \in Reply :
       /\ AtTheCard("ACMD6", r)
       /\ IF r = "OK" THEN cardWide' = TRUE ELSE cardWide' \in {cardWide, TRUE}
       /\ hostWide' = (r = "OK")
  /\ StaysNarrow
  /\ UNCHANGED <<kind, known, count, card_state, card_type>>

-----------------------------------------------------------------------------
(* emmc_reset_sdio_card, for a card without memory.                        *)

IoProbe ==
  /\ pc = "io_cmd5"
  /\ \E r \in Reply : Try("CMD5", r) /\ OnOk(r, "io_volt")
  /\ count' = Tries
  /\ UNCHANGED <<kind, known, card_state, card_type, bus>>

IoVoltage ==
  /\ pc = "io_volt"
  /\ \E r \in Reply, ready \in BOOLEAN :
       /\ Try("CMD5", r)
       /\ CASE r = "OK" /\ ready -> OnOk("OK", "io_rca") /\ UNCHANGED count
            [] r = "OK" /\ ~ready ->
                 /\ count' = count - 1
                 /\ IF count = 1 THEN Housekeep("ERRHARDWARE")
                                 ELSE UNCHANGED <<pc, retval, enum_status>>
            [] OTHER -> Housekeep(r) /\ UNCHANGED count
  /\ UNCHANGED <<kind, known, card_state, card_type, bus>>

IoRca ==
  /\ pc = "io_rca"
  /\ SendRca("io_cmd7")
  /\ UNCHANGED <<kind, count, card_type, bus>>

(* The failure of CMD7 does not go through HOUSEKEEP either.               *)
IoSelect ==
  /\ pc = "io_cmd7"
  /\ \E r \in Reply :
       /\ AtTheCard("CMD7", r)
       /\ IF r = "OK" THEN pc' = "io_enable" /\ UNCHANGED retval
                      ELSE pc' = "idle" /\ retval' = r
  /\ count' = Tries
  /\ UNCHANGED <<kind, known, info, bus>>

(* CMD52: enable the functions, then poll until they are.                  *)
IoEnable ==
  /\ pc = "io_enable"
  /\ \E r \in Reply : AtTheCard("CMD52", r) /\ OnOk(r, "io_ready")
  /\ UNCHANGED <<kind, known, count, card_state, card_type, bus>>

IoReady ==
  /\ pc = "io_ready"
  /\ \E r \in Reply, ready \in BOOLEAN :
       /\ AtTheCard("CMD52", r)
       /\ IF r = "OK" /\ ~ready
          THEN /\ count' = count - 1
               /\ IF count = 1 THEN Housekeep("ERRHARDWARE")
                               ELSE UNCHANGED <<pc, retval, enum_status>>
          ELSE OnOk(r, "io_cccr") /\ UNCHANGED count
  /\ UNCHANGED <<kind, known, card_state, card_type, bus>>

(* The CCCR is read with emmc_io_rw, whose CUSTCOM_DONTSTDBY deselects the *)
(* card at the end; the CMD52 that follows overwrites what it returned.    *)
IoRegisters ==
  /\ pc = "io_cccr"
  /\ card' \in {"stby", "tran"}
  /\ pc' = "io_w_read" /\ card_state' = "stby"
  /\ UNCHANGED <<kind, known, count, retval, enum_status, card_type, bus>>

(* SD_SET_WIDE_BUS: read the bus width, ask for four lines, read it again. *)
IoWideRead ==
  /\ pc = "io_w_read"
  /\ \E r \in Reply : AtTheCard("CMD52", r) /\ OnOk(r, "io_w_write")
  /\ UNCHANGED <<kind, known, count, card_state, card_type, bus>>

IoWideWrite ==
  /\ pc = "io_w_write"
  /\ \E r \in Reply : AtTheCard("CMD52", r) /\ OnOk(r, "io_w_check")
  /\ cardWide' \in {cardWide, cardWide \/ known}
  /\ UNCHANGED <<kind, known, count, card_state, card_type, hostWide>>

IoWideCheck ==
  /\ pc = "io_w_check"
  /\ \E r \in Reply :
       /\ AtTheCard("CMD52", r) /\ Housekeep(r)
       /\ hostWide' = (r = "OK" /\ cardWide)
  /\ UNCHANGED <<kind, known, count, card_state, card_type, cardWide>>

-----------------------------------------------------------------------------
Driver ==
  \/ AskSdio \/ AskReset \/ AskSd2 \/ AskSd1
  \/ ResetCard \/ CheckInterface \/ NoCardDetect \/ AppCommand
  \/ SetVoltage1 \/ SetVoltage2 \/ GetCid \/ SetRca \/ ProcessCsd \/ ProcessScr
  \/ WideStatus \/ WideSelect \/ WideDetect \/ WideSwitch
  \/ IoProbe \/ IoVoltage \/ IoRca \/ IoSelect \/ IoEnable \/ IoReady
  \/ IoRegisters \/ IoWideRead \/ IoWideWrite \/ IoWideCheck

Next == Enumerate \/ Driver

Spec     == Init /\ [][Next]_vars
FairSpec == Spec /\ WF_vars(Driver)

-----------------------------------------------------------------------------
Step == {"idle", "cmd5", "reset", "cmd8", "acmd41", "cmd0", "sd_cmd8",
         "cmd55", "voltage", "cid", "rca", "csd", "scr", "w_status", "w_cmd7",
         "w_acmd42", "w_acmd6", "io_cmd5", "io_volt", "io_rca", "io_cmd7",
         "io_enable", "io_ready", "io_cccr", "io_w_read", "io_w_write",
         "io_w_check"}
BringUp == {"sd_cmd8", "cmd55", "voltage", "cid", "rca", "csd", "scr",
            "w_status", "w_cmd7", "w_acmd42", "w_acmd6"}
Result == NoAnswer \union {"OK", "ERRHARDWARE", "ERRENUMERATE", "ERRTYPE",
                        "ERRCARDNOTCONN", "ERRNOTSUPPORTED"}

(* Every variable has its type; no retry counter goes below zero.          *)
TypeOK ==
  /\ card \in CardState /\ kind \in Kinds
  /\ cardWide \in BOOLEAN /\ known \in BOOLEAN /\ hostWide \in BOOLEAN
  /\ pc \in Step /\ count \in 0..Tries
  /\ retval \in Result \union {"none"}
  /\ enum_status \in Result
  /\ card_state \in CardState \union {"EMPTY", "ina"}
  /\ card_type \in CardType

(* A memory card that was enumerated stands ready for a transfer, under    *)
(* the RCA the host knows.                                                 *)
EnumeratedMeansUsable ==
  pc = "idle" /\ retval = "OK" =>
    /\ enum_status = "OK"
    /\ known /\ card \in {"stby", "tran"}

(* The host never samples four lines of a card that drives one.            *)
HostNotWider == hostWide => cardWide

(* While an SD 2.0 card is brought up, card_state is never ahead of the    *)
(* card: what the driver believes was earned by an answer of the card.     *)
BeliefFollowsCard ==
  Sd2 /\ pc \in BringUp =>
    /\ card_state = "ready"           => card \in {"ready", "ident"}
    /\ card_state = "ident"           => card = "ident"
    /\ card_state = "stby" /\ known   => card \in {"stby", "tran"}
    /\ card_state = "tran"            => card = "tran"

(* "The power up process for the card is over" once the voltage is set.    *)
PowerUpOver == card_state = "ready" => card # "idle"

(* Every enumeration returns.                                              *)
EnumerationReturns == pc # "idle" ~> pc = "idle"
=============================================================================
