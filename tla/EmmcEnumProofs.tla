---------------------------- MODULE EmmcEnumProofs ----------------------------
(***************************************************************************)
(* Theorems about EmmcEnum for every set of cards and every number of      *)
(* retries.  Each lemma about a step has one case per action.              *)
(***************************************************************************)
EXTENDS EmmcEnum, TLAPS

-----------------------------------------------------------------------------
(* The card.                                                               *)

(* No command the card obeys takes it out of its states.                   *)
LEMMA HeardType ==
  ASSUME NEW c, card \in CardState, Heard(c)
  PROVE  card' \in CardState
  BY DEF Heard, Obeys, CardState, Addressed

(* The commands of the bring-up, as far as the driver relies on them; CMD7 *)
(* selects a card in standby or, from "dis", lets it go on programming.    *)
LEMMA BringUpMoves ==
  /\ Heard("ACMD41") => card' \in {"idle", "ready"}
  /\ Heard("CMD2")   => card = "ready" /\ card' = "ident"
  /\ Heard("CMD3")   => card \in {"ident", "stby", "idle"} /\ card' = "stby"
  /\ Heard("CMD7")   => \/ card = "stby" /\ card' = "tran"
                        \/ card = "dis"  /\ card' = "prg"
  BY DEF Heard, Obeys, CardState, Addressed

LEMMA SelectedMoves ==
  /\ Heard("CMD9")  => card = "stby" /\ card' = "stby"
  /\ Heard("CMD13") => card' = card
  /\ \A c \in {"ACMD6", "ACMD42", "CMD52"} :
       Heard(c) => card = "tran" /\ card' = "tran"
  BY DEF Heard, Obeys, CardState, Addressed

-----------------------------------------------------------------------------
(* The types.                                                              *)

(* A command keeps the card in its states and brings one of the replies.   *)
LEMMA TryType ==
  ASSUME NEW c, NEW r, card \in CardState, Try(c, r) \/ AtTheCard(c, r)
  PROVE  card' \in CardState /\ r \in Reply
  BY HeardType DEF Try, AtTheCard, Lost, NoAnswer, Reply

(* TypeOK is not inductive: a retry counter stays in its range only        *)
(* because its loop is entered with retries left.                          *)
RetriesLeft ==
  pc \in {"sd_cmd8", "cmd55", "voltage", "cid", "io_volt", "io_enable",
          "io_ready"} => count > 0
Typed == TypeOK /\ RetriesLeft

LEMMA TypedInit == Init => Typed
<1> SUFFICES ASSUME Init PROVE Typed
  OBVIOUS
<1>1. cardWide \in BOOLEAN /\ known \in BOOLEAN /\ hostWide \in BOOLEAN
  BY DEF Init
<1>2. count \in 0..Tries
  BY EnumAssumption DEF Init
<1> QED
  BY <1>1, <1>2
  DEF Init, Typed, TypeOK, RetriesLeft, CardState, Step, Result, NoAnswer,
      CardType

LEMMA DecrementType ==
  ASSUME count \in 0..Tries, count > 0
  PROVE  count - 1 \in 0..Tries /\ (count # 1 => count - 1 > 0)
  BY EnumAssumption

LEMMA GoIdleType ==
  ASSUME TypeOK, NEW step, GoIdle(step)
  PROVE  /\ card' \in CardState /\ cardWide' \in BOOLEAN
         /\ pc' = step /\ UNCHANGED <<kind, known, hostWide>>
<1>1. card' \in CardState
  BY HeardType DEF TypeOK, GoIdle, Lost
<1>2. cardWide' \in BOOLEAN
  BY DEF TypeOK, GoIdle
<1> QED
  BY <1>1, <1>2 DEF GoIdle

LEMMA TypedStep == Typed /\ [Next]_vars => Typed'
<1> SUFFICES ASSUME Typed, [Next]_vars PROVE Typed'
  OBVIOUS
<1> USE DEF Typed, TypeOK, RetriesLeft, Step, Result, NoAnswer, Reply,
            CardType, CardState, info, bus
<1>1. CASE Enumerate
  BY <1>1
  DEF Enumerate
<1>2. CASE AskSdio
  BY <1>2, TryType
  DEF AskSdio, Recognised, Found, StillUnknown
<1>3. CASE AskReset
  BY <1>3, GoIdleType
  DEF AskReset
<1>4. CASE AskSd2
  BY <1>4, TryType
  DEF AskSd2, Recognised, Found, StillUnknown
<1>5. CASE AskSd1
  BY <1>5, EnumAssumption
  DEF AskSd1, Recognised, Found, StillUnknown
<1>6. CASE ResetCard
  BY <1>6, GoIdleType, EnumAssumption
  DEF ResetCard, Housekeep
<1>7. CASE CheckInterface
  BY <1>7, TryType
  DEF CheckInterface
<1>8. CASE NoCardDetect
  BY <1>8
  DEF NoCardDetect, Housekeep
<1>9. CASE AppCommand
  BY <1>9, TryType
  DEF AppCommand, OnOk, Housekeep
<1>10. CASE SetVoltage1
  BY <1>10, TryType, DecrementType, EnumAssumption
  DEF SetVoltage1, VoltageAgain, Housekeep
<1>11. CASE SetVoltage2
  BY <1>11, TryType, DecrementType, EnumAssumption
  DEF SetVoltage2, VoltageAgain, Housekeep
<1>12. CASE GetCid
  BY <1>12, TryType, DecrementType
  DEF GetCid, Housekeep
<1>13. CASE SetRca
  BY <1>13, HeardType
  DEF SetRca, SendRca, Housekeep, Lost
<1>14. CASE ProcessCsd
  BY <1>14, TryType
  DEF ProcessCsd, OnOk, Housekeep
<1>15. CASE ProcessScr
  BY <1>15
  DEF ProcessScr, OnOk, Housekeep
<1>16. CASE WideStatus
  BY <1>16, TryType
  DEF WideStatus, StaysNarrow, Housekeep
<1>17. CASE WideSelect
  BY <1>17, TryType
  DEF WideSelect, StaysNarrow, Housekeep
<1>18. CASE WideDetect
  BY <1>18, TryType
  DEF WideDetect, StaysNarrow, Housekeep
<1>19. CASE WideSwitch
  <2>1. card' \in CardState
    BY <1>19, TryType DEF WideSwitch
  <2>2. cardWide' \in BOOLEAN /\ hostWide' \in BOOLEAN
    BY <1>19 DEF WideSwitch
  <2> QED
    BY <1>19, <2>1, <2>2 DEF WideSwitch, StaysNarrow, Housekeep
<1>20. CASE IoProbe
  BY <1>20, TryType, EnumAssumption
  DEF IoProbe, OnOk, Housekeep
<1>21. CASE IoVoltage
  BY <1>21, TryType, DecrementType
  DEF IoVoltage, OnOk, Housekeep
<1>22. CASE IoRca
  BY <1>22, HeardType
  DEF IoRca, SendRca, Housekeep, Lost
<1>23. CASE IoSelect
  BY <1>23, TryType, EnumAssumption
  DEF IoSelect
<1>24. CASE IoEnable
  BY <1>24, TryType
  DEF IoEnable, OnOk, Housekeep
<1>25. CASE IoReady
  BY <1>25, TryType, DecrementType
  DEF IoReady, OnOk, Housekeep
<1>26. CASE IoRegisters
  BY <1>26
  DEF IoRegisters
<1>27. CASE IoWideRead
  BY <1>27, TryType
  DEF IoWideRead, OnOk, Housekeep
<1>28. CASE IoWideWrite
  BY <1>28, TryType
  DEF IoWideWrite, OnOk, Housekeep
<1>29. CASE IoWideCheck
  BY <1>29, TryType
  DEF IoWideCheck, Housekeep
<1>30. CASE UNCHANGED vars
  BY <1>30 DEF vars
<1> QED
  BY <1>1, <1>2, <1>3, <1>4, <1>5, <1>6, <1>7, <1>8, <1>9, <1>10, <1>11,
     <1>12, <1>13, <1>14, <1>15, <1>16, <1>17, <1>18, <1>19, <1>20, <1>21,
     <1>22, <1>23, <1>24, <1>25, <1>26, <1>27, <1>28, <1>29, <1>30
  DEF Next, Driver

(* Every variable of the enumeration keeps its type: no retry loop runs    *)
(* past its bound, whatever card answers (emmc.c:1156).                    *)
THEOREM EnumTypeCorrect == Spec => []TypeOK
<1>1. Init => Typed
  BY TypedInit
<1>2. Typed /\ [Next]_vars => (Typed)'
  BY TypedStep
<1>3. Typed => TypeOK
  BY DEF Typed
<1> QED
  BY <1>1, <1>2, <1>3, PTL DEF Spec

-----------------------------------------------------------------------------
(* The width of the bus.                                                   *)

(* Until the reset command has made the card narrow again, the host has    *)
(* gone back to one line already: emmc_enumerate_the_card clears CTYPE     *)
(* first.                                                                  *)
Narrow ==
  /\ HostNotWider
  /\ pc # "idle" => ~hostWide

LEMMA NarrowInit == Init => Narrow
  BY DEF Init, Narrow, HostNotWider

LEMMA NarrowStep == Typed /\ Narrow /\ [Next]_vars => Narrow'
<1> SUFFICES ASSUME Typed /\ Narrow, [Next]_vars PROVE Narrow'
  OBVIOUS
<1> USE DEF Typed, TypeOK, Narrow, HostNotWider, info, bus
<1>1. CASE Enumerate
  BY <1>1
  DEF Enumerate
<1>2. CASE AskSdio
  BY <1>2
  DEF AskSdio, Recognised, Found, StillUnknown
<1>3. CASE AskReset
  BY <1>3
  DEF AskReset, GoIdle
<1>4. CASE AskSd2
  BY <1>4
  DEF AskSd2, Recognised, Found, StillUnknown
<1>5. CASE AskSd1
  BY <1>5
  DEF AskSd1, Recognised, Found, StillUnknown
<1>6. CASE ResetCard
  BY <1>6
  DEF ResetCard, GoIdle, Housekeep
<1>7. CASE CheckInterface
  BY <1>7
  DEF CheckInterface
<1>8. CASE NoCardDetect
  BY <1>8
  DEF NoCardDetect, Housekeep
<1>9. CASE AppCommand
  BY <1>9
  DEF AppCommand, OnOk, Housekeep
<1>10. CASE SetVoltage1
  BY <1>10
  DEF SetVoltage1, VoltageAgain, Housekeep
<1>11. CASE SetVoltage2
  BY <1>11
  DEF SetVoltage2, VoltageAgain, Housekeep
<1>12. CASE GetCid
  BY <1>12
  DEF GetCid, Housekeep
<1>13. CASE SetRca
  BY <1>13
  DEF SetRca, SendRca, Housekeep
<1>14. CASE ProcessCsd
  BY <1>14
  DEF ProcessCsd, OnOk, Housekeep
<1>15. CASE ProcessScr
  BY <1>15
  DEF ProcessScr, OnOk, Housekeep
<1>16. CASE WideStatus
  BY <1>16
  DEF WideStatus, StaysNarrow, Housekeep
<1>17. CASE WideSelect
  BY <1>17
  DEF WideSelect, StaysNarrow, Housekeep
<1>18. CASE WideDetect
  BY <1>18
  DEF WideDetect, StaysNarrow, Housekeep
<1>19. CASE WideSwitch
  BY <1>19
  DEF WideSwitch, StaysNarrow, Housekeep
<1>20. CASE IoProbe
  BY <1>20
  DEF IoProbe, OnOk, Housekeep
<1>21. CASE IoVoltage
  BY <1>21
  DEF IoVoltage, OnOk, Housekeep
<1>22. CASE IoRca
  BY <1>22
  DEF IoRca, SendRca, Housekeep
<1>23. CASE IoSelect
  BY <1>23
  DEF IoSelect
<1>24. CASE IoEnable
  BY <1>24
  DEF IoEnable, OnOk, Housekeep
<1>25. CASE IoReady
  BY <1>25
  DEF IoReady, OnOk, Housekeep
<1>26. CASE IoRegisters
  BY <1>26
  DEF IoRegisters
<1>27. CASE IoWideRead
  BY <1>27
  DEF IoWideRead, OnOk, Housekeep
<1>28. CASE IoWideWrite
  BY <1>28
  DEF IoWideWrite, OnOk, Housekeep
<1>29. CASE IoWideCheck
  BY <1>29
  DEF IoWideCheck, Housekeep
<1>30. CASE UNCHANGED vars
  BY <1>30 DEF vars
<1> QED
  BY <1>1, <1>2, <1>3, <1>4, <1>5, <1>6, <1>7, <1>8, <1>9, <1>10, <1>11,
     <1>12, <1>13, <1>14, <1>15, <1>16, <1>17, <1>18, <1>19, <1>20, <1>21,
     <1>22, <1>23, <1>24, <1>25, <1>26, <1>27, <1>28, <1>29, <1>30
  DEF Next, Driver

(* The host never samples four lines of a card that drives one, although   *)
(* ACMD6 or its answer may be lost (emmc.c:1472).                          *)
THEOREM HostNeverWider == Spec => []HostNotWider
<1>1. Init => Typed /\ Narrow
  BY TypedInit, NarrowInit
<1>2. Typed /\ Narrow /\ [Next]_vars => (Typed /\ Narrow)'
  BY TypedStep, NarrowStep
<1>3. Typed /\ Narrow => HostNotWider
  BY DEF Narrow
<1> QED
  BY <1>1, <1>2, <1>3, PTL DEF Spec

-----------------------------------------------------------------------------
(* What success means.                                                     *)

(* From the CSD on the card is addressed, under an RCA the host knows, and *)
(* in one of the two states a transfer can start from.                     *)
Usable ==
  /\ EnumeratedMeansUsable
  /\ pc \in {"scr", "w_status", "w_cmd7", "w_acmd42", "w_acmd6"} =>
       known /\ card \in {"stby", "tran"}

LEMMA UsableInit == Init => Usable
  BY DEF Init, Usable, EnumeratedMeansUsable

LEMMA UsableStep == Typed /\ Usable /\ [Next]_vars => Usable'
<1> SUFFICES ASSUME Typed /\ Usable, [Next]_vars PROVE Usable'
  OBVIOUS
<1> USE DEF Typed, TypeOK, Usable, EnumeratedMeansUsable, info, bus
<1>1. CASE Enumerate
  BY <1>1
  DEF Enumerate
<1>2. CASE AskSdio
  BY <1>2
  DEF AskSdio, Try, Recognised, Found, StillUnknown, NoAnswer, Reply
<1>3. CASE AskReset
  BY <1>3
  DEF AskReset, GoIdle, NoAnswer, Reply
<1>4. CASE AskSd2
  BY <1>4
  DEF AskSd2, Try, Recognised, Found, StillUnknown, NoAnswer, Reply
<1>5. CASE AskSd1
  BY <1>5
  DEF AskSd1, Recognised, Found, StillUnknown, NoAnswer, Reply
<1>6. CASE ResetCard
  BY <1>6
  DEF ResetCard, GoIdle, Housekeep, NoAnswer, Reply
<1>7. CASE CheckInterface
  BY <1>7
  DEF CheckInterface, Try, NoAnswer, Reply
<1>8. CASE NoCardDetect
  BY <1>8
  DEF NoCardDetect, Housekeep, NoAnswer, Reply
<1>9. CASE AppCommand
  BY <1>9
  DEF AppCommand, Try, OnOk, Housekeep, NoAnswer, Reply
<1>10. CASE SetVoltage1
  BY <1>10
  DEF SetVoltage1, Try, VoltageAgain, Housekeep, NoAnswer, Reply
<1>11. CASE SetVoltage2
  BY <1>11
  DEF SetVoltage2, Try, VoltageAgain, Housekeep, NoAnswer, Reply
<1>12. CASE GetCid
  BY <1>12
  DEF GetCid, Try, Housekeep, NoAnswer, Reply
<1>13. CASE SetRca
  BY <1>13
  DEF SetRca, SendRca, Housekeep, NoAnswer, Reply
<1>14. CASE ProcessCsd
  BY <1>14, SelectedMoves
  DEF ProcessCsd, AtTheCard, Try, OnOk, Housekeep, Lost, Reply, NoAnswer
<1>15. CASE ProcessScr
  BY <1>15
  DEF ProcessScr, OnOk, Housekeep, NoAnswer, Reply
<1>16. CASE WideStatus
  BY <1>16, SelectedMoves
  DEF WideStatus, AtTheCard, Try, StaysNarrow, Housekeep, Lost, Reply,
      NoAnswer
<1>17. CASE WideSelect
  BY <1>17, BringUpMoves
  DEF WideSelect, AtTheCard, Try, StaysNarrow, Housekeep, Lost, Reply,
      NoAnswer
<1>18. CASE WideDetect
  BY <1>18, SelectedMoves
  DEF WideDetect, AtTheCard, Try, StaysNarrow, Housekeep, Lost, Reply,
      NoAnswer
<1>19. CASE WideSwitch
  BY <1>19, SelectedMoves
  DEF WideSwitch, AtTheCard, Try, StaysNarrow, Housekeep, Lost, Reply,
      NoAnswer
<1>20. CASE IoProbe
  BY <1>20
  DEF IoProbe, Try, OnOk, Housekeep, NoAnswer, Reply
<1>21. CASE IoVoltage
  BY <1>21
  DEF IoVoltage, Try, OnOk, Housekeep, NoAnswer, Reply
<1>22. CASE IoRca
  BY <1>22
  DEF IoRca, SendRca, Housekeep, NoAnswer, Reply
<1>23. CASE IoSelect
  BY <1>23
  DEF IoSelect, AtTheCard, Try, NoAnswer, Reply
<1>24. CASE IoEnable
  BY <1>24
  DEF IoEnable, AtTheCard, Try, OnOk, Housekeep, NoAnswer, Reply
<1>25. CASE IoReady
  BY <1>25
  DEF IoReady, AtTheCard, Try, OnOk, Housekeep, NoAnswer, Reply
<1>26. CASE IoRegisters
  BY <1>26
  DEF IoRegisters, NoAnswer, Reply
<1>27. CASE IoWideRead
  BY <1>27
  DEF IoWideRead, AtTheCard, Try, OnOk, Housekeep, NoAnswer, Reply
<1>28. CASE IoWideWrite
  BY <1>28
  DEF IoWideWrite, AtTheCard, Try, OnOk, Housekeep, NoAnswer, Reply
<1>29. CASE IoWideCheck
  BY <1>29, SelectedMoves
  DEF IoWideCheck, AtTheCard, Try, Housekeep, Lost, Reply, NoAnswer
<1>30. CASE UNCHANGED vars
  BY <1>30 DEF vars
<1> QED
  BY <1>1, <1>2, <1>3, <1>4, <1>5, <1>6, <1>7, <1>8, <1>9, <1>10, <1>11,
     <1>12, <1>13, <1>14, <1>15, <1>16, <1>17, <1>18, <1>19, <1>20, <1>21,
     <1>22, <1>23, <1>24, <1>25, <1>26, <1>27, <1>28, <1>29, <1>30
  DEF Next, Driver

(* An enumeration that returns 0 leaves a card in standby or selected,     *)
(* under the RCA the host knows, although the RCA may be read from a stale *)
(* response (emmc.c:1297).                                                 *)
THEOREM SuccessMeansUsable == Spec => []EnumeratedMeansUsable
<1>1. Init => Typed /\ Usable
  BY TypedInit, UsableInit
<1>2. Typed /\ Usable /\ [Next]_vars => (Typed /\ Usable)'
  BY TypedStep, UsableStep
<1>3. Typed /\ Usable => EnumeratedMeansUsable
  BY DEF Usable
<1> QED
  BY <1>1, <1>2, <1>3, PTL DEF Spec

-----------------------------------------------------------------------------
(* What the driver believes.                                               *)

(* card_state at each step of the bring-up, and the selected card the last *)
(* two steps rely on.                                                      *)
Believed ==
  /\ BeliefFollowsCard
  /\ pc \in {"cmd0", "sd_cmd8", "cmd55", "voltage"} => card_state = "idle"
  /\ pc = "cid" => card_state = "ready"
  /\ pc = "rca" => card_state = "ident"
  /\ pc \in {"csd", "scr", "w_status", "w_cmd7"} => card_state = "stby"
  /\ pc \in {"w_acmd42", "w_acmd6"} => card_state = "tran"

LEMMA BelievedInit == Init => Believed
  BY DEF Init, Believed, BeliefFollowsCard, BringUp

LEMMA BelievedStep == Typed /\ Believed /\ [Next]_vars => Believed'
<1> SUFFICES ASSUME Typed /\ Believed, [Next]_vars PROVE Believed'
  OBVIOUS
<1> USE DEF Typed, TypeOK, Believed, BeliefFollowsCard, BringUp, Sd2, info, bus
<1>1. CASE Enumerate
  BY <1>1
  DEF Enumerate
<1>2. CASE AskSdio
  BY <1>2
  DEF AskSdio, Try, Recognised, Found, StillUnknown
<1>3. CASE AskReset
  BY <1>3
  DEF AskReset, GoIdle
<1>4. CASE AskSd2
  BY <1>4
  DEF AskSd2, Try, Recognised, Found, StillUnknown
<1>5. CASE AskSd1
  BY <1>5
  DEF AskSd1, Recognised, Found, StillUnknown
<1>6. CASE ResetCard
  BY <1>6
  DEF ResetCard, GoIdle, Housekeep
<1>7. CASE CheckInterface
  BY <1>7
  DEF CheckInterface, Try
<1>8. CASE NoCardDetect
  BY <1>8
  DEF NoCardDetect, Housekeep
<1>9. CASE AppCommand
  BY <1>9
  DEF AppCommand, Try, OnOk, Housekeep
<1>10. CASE SetVoltage1
  BY <1>10, BringUpMoves
  DEF SetVoltage1, Try, VoltageAgain, Housekeep, Lost, NoAnswer, Reply
<1>11. CASE SetVoltage2
  BY <1>11, BringUpMoves
  DEF SetVoltage2, Try, VoltageAgain, Housekeep, Lost, NoAnswer, Reply
<1>12. CASE GetCid
  BY <1>12, BringUpMoves
  DEF GetCid, Try, Housekeep, Lost, NoAnswer, Reply
<1>13. CASE SetRca
  BY <1>13, BringUpMoves
  DEF SetRca, SendRca, Housekeep, Lost, NoAnswer, Reply
<1>14. CASE ProcessCsd
  BY <1>14, SelectedMoves
  DEF ProcessCsd, AtTheCard, Try, OnOk, Housekeep, Lost, NoAnswer, Reply
<1>15. CASE ProcessScr
  BY <1>15
  DEF ProcessScr, OnOk, Housekeep
<1>16. CASE WideStatus
  BY <1>16, SelectedMoves
  DEF WideStatus, AtTheCard, Try, StaysNarrow, Housekeep, Lost, NoAnswer,
      Reply
<1>17. CASE WideSelect
  BY <1>17, BringUpMoves
  DEF WideSelect, AtTheCard, Try, StaysNarrow, Housekeep, Lost, NoAnswer,
      Reply
<1>18. CASE WideDetect
  BY <1>18, SelectedMoves
  DEF WideDetect, AtTheCard, Try, StaysNarrow, Housekeep, Lost, NoAnswer,
      Reply
<1>19. CASE WideSwitch
  BY <1>19, SelectedMoves
  DEF WideSwitch, AtTheCard, Try, StaysNarrow, Housekeep, Lost, NoAnswer,
      Reply
<1>20. CASE IoProbe
  BY <1>20
  DEF IoProbe, Try, OnOk, Housekeep
<1>21. CASE IoVoltage
  BY <1>21
  DEF IoVoltage, Try, OnOk, Housekeep
<1>22. CASE IoRca
  BY <1>22
  DEF IoRca, SendRca, Housekeep
<1>23. CASE IoSelect
  BY <1>23
  DEF IoSelect, AtTheCard, Try
<1>24. CASE IoEnable
  BY <1>24
  DEF IoEnable, AtTheCard, Try, OnOk, Housekeep
<1>25. CASE IoReady
  BY <1>25
  DEF IoReady, AtTheCard, Try, OnOk, Housekeep
<1>26. CASE IoRegisters
  BY <1>26
  DEF IoRegisters
<1>27. CASE IoWideRead
  BY <1>27
  DEF IoWideRead, AtTheCard, Try, OnOk, Housekeep
<1>28. CASE IoWideWrite
  BY <1>28
  DEF IoWideWrite, AtTheCard, Try, OnOk, Housekeep
<1>29. CASE IoWideCheck
  BY <1>29
  DEF IoWideCheck, AtTheCard, Try, Housekeep
<1>30. CASE UNCHANGED vars
  BY <1>30 DEF vars
<1> QED
  BY <1>1, <1>2, <1>3, <1>4, <1>5, <1>6, <1>7, <1>8, <1>9, <1>10, <1>11,
     <1>12, <1>13, <1>14, <1>15, <1>16, <1>17, <1>18, <1>19, <1>20, <1>21,
     <1>22, <1>23, <1>24, <1>25, <1>26, <1>27, <1>28, <1>29, <1>30
  DEF Next, Driver

(* While an SD 2.0 card is brought up card_state is never ahead of the     *)
(* card (emmc.c:1165 is the place where an SD 1.x card is).                *)
THEOREM BeliefIsEarned == Spec => []BeliefFollowsCard
<1>1. Init => Typed /\ Believed
  BY TypedInit, BelievedInit
<1>2. Typed /\ Believed /\ [Next]_vars => (Typed /\ Believed)'
  BY TypedStep, BelievedStep
<1>3. Typed /\ Believed => BeliefFollowsCard
  BY DEF Believed
<1> QED
  BY <1>1, <1>2, <1>3, PTL DEF Spec
=============================================================================
