------------------------- MODULE EmmcTransferProofs -------------------------
(***************************************************************************)
(* Theorems about EmmcTransfer for every set of requests, every length of  *)
(* the ring and every number of retries.                                   *)
(***************************************************************************)
EXTENDS EmmcTransfer, TLAPS

-----------------------------------------------------------------------------
(* The card.                                                               *)

(* No command the card obeys takes it out of its states.                   *)
LEMMA HeardType ==
  ASSUME NEW c, card \in CardState, Heard(c)
  PROVE  card' \in CardState
  BY DEF Heard, Obeys, CardState, Addressed

LEMMA ExchangeType ==
  ASSUME NEW c, NEW r, card \in CardState, Exchange(c, r)
  PROVE  card' \in CardState
  BY HeardType DEF Exchange, Lost

LEMMA AnnounceType ==
  ASSUME NEW c, card \in CardState, Announce(c)
  PROVE  card' \in CardState
  BY HeardType DEF Announce, Lost

(* CMD13 and CMD16 leave a selected card selected.                         *)
LEMMA StatusKeeps ==
  ASSUME NEW c \in {"CMD13", "CMD16"}, NEW r, card = "tran", Exchange(c, r)
  PROVE  card' = "tran"
  BY DEF Exchange, Heard, Lost, Obeys, CardState, Addressed

LEMMA StatusReadsState ==
  ASSUME NEW r, Exchange("CMD13", r)
  PROVE  card' = card
  BY DEF Exchange, Heard, Lost, Obeys, CardState, Addressed

-----------------------------------------------------------------------------
(* A transfer that ends changes the card's state as AfterData says.        *)
LEMMA AfterDataType ==
  ASSUME card \in CardState
  PROVE  AfterData \in CardState
  BY DEF AfterData, CardState

(* The ring.                                                               *)
LEMMA AdvanceType ==
  ASSUME NEW i \in Slot
  PROVE  Advance(i) \in Slot
  BY TransferAssumption DEF Advance, IsLastDesc, Slot

-----------------------------------------------------------------------------
(* The types.                                                              *)

(* TypeOK is not inductive: the retry loop of emmc_is_card_ready_for_data  *)
(* keeps its bound only because it is entered with retries left.           *)
RetriesLeft == pc = "ready" => count < Tries
Typed == TypeOK /\ RetriesLeft

LEMMA TypeInit == Init => Typed
<1> SUFFICES ASSUME Init PROVE Typed
  OBVIOUS
<1>1. own \in [Slot -> BOOLEAN] /\ idmac_enabled \in BOOLEAN
  BY DEF Init
<1>2. next \in Slot /\ busy \in Slot /\ base \in Slot /\ cur \in Slot
  BY TransferAssumption DEF Init, Slot
<1> QED
  BY <1>1, <1>2, TransferAssumption
  DEF Init, Typed, RetriesLeft, TypeOK, CardState, Step, Result

LEMMA TypeStep == Typed /\ [Next]_vars => Typed'
<1> SUFFICES ASSUME Typed, [Next]_vars PROVE Typed'
  OBVIOUS
<1>1. CASE DmaOwnbitSet
  BY <1>1 DEF Typed, RetriesLeft, TypeOK, DmaOwnbitSet, ringVars, dmaVars, Step, Result
<1>2. CASE SelectStatus /\ UNCHANGED idmac_enabled
  BY <1>2, ExchangeType DEF Typed, RetriesLeft, TypeOK, SelectStatus, ringVars, dmaVars, Step, Result, SelectFailed
<1>3. CASE Select /\ UNCHANGED idmac_enabled
  BY <1>3, ExchangeType DEF Typed, RetriesLeft, TypeOK, Select, ringVars, dmaVars, Step, Result, SelectFailed
<1>4. CASE BlockLength /\ UNCHANGED idmac_enabled
  BY <1>4, ExchangeType DEF Typed, RetriesLeft, TypeOK, BlockLength, ringVars, dmaVars, Step, Result
<1>5. CASE FillFifo /\ UNCHANGED idmac_enabled
  BY <1>5, TransferAssumption DEF Typed, RetriesLeft, TypeOK, FillFifo, ringVars, dmaVars, Step, Result, AfterQueue
<1>6. CASE SetQptr /\ UNCHANGED idmac_enabled
  BY <1>6, AdvanceType, TransferAssumption DEF Typed, RetriesLeft, TypeOK, SetQptr, ringVars, dmaVars, Step, Result, AfterQueue
<1>7. CASE NoDescriptor /\ UNCHANGED idmac_enabled
  BY <1>7 DEF Typed, RetriesLeft, TypeOK, NoDescriptor, ringVars, dmaVars, Step, Result
<1>8. CASE IsCardReady /\ UNCHANGED idmac_enabled
  BY <1>8, ExchangeType, TransferAssumption DEF Typed, RetriesLeft, TypeOK, IsCardReady, ringVars, dmaVars, Step, Result
<1>9. CASE CommandFails /\ UNCHANGED idmac_enabled
  BY <1>9, ExchangeType DEF Typed, RetriesLeft, TypeOK, CommandFails, ringVars, dmaVars, Step, Result
<1>10. CASE CommandStarts /\ UNCHANGED idmac_enabled
  BY <1>10, ExchangeType DEF Typed, RetriesLeft, TypeOK, CommandStarts, ringVars, dmaVars, Step, Result
<1>11. CASE DmaReturn /\ UNCHANGED idmac_enabled
  BY <1>11, AdvanceType DEF Typed, RetriesLeft, TypeOK, DmaReturn, ringVars, dmaVars, Step, Result, Corruption
<1>12. CASE NotBusy /\ UNCHANGED idmac_enabled
  BY <1>12 DEF Typed, RetriesLeft, TypeOK, NotBusy, ringVars, dmaVars, Step, Result
<1>13. CASE StopTransmission /\ UNCHANGED idmac_enabled
  BY <1>13, ExchangeType DEF Typed, RetriesLeft, TypeOK, StopTransmission, ringVars, dmaVars, Step, Result
<1>14. CASE LeaveSelected /\ UNCHANGED idmac_enabled
  BY <1>14 DEF Typed, RetriesLeft, TypeOK, LeaveSelected, ringVars, dmaVars, Step, Result
<1>15. CASE HouseRead /\ UNCHANGED idmac_enabled
  BY <1>15 DEF Typed, RetriesLeft, TypeOK, HouseRead, ringVars, dmaVars, Step, Result
<1>16. CASE HouseWrite /\ UNCHANGED idmac_enabled
  BY <1>16, TransferAssumption DEF Typed, RetriesLeft, TypeOK, HouseWrite, ringVars, dmaVars, Step, Result
<1>17. CASE AwaitProgrammed /\ UNCHANGED idmac_enabled
  BY <1>17, ExchangeType, TransferAssumption DEF Typed, RetriesLeft, TypeOK, AwaitProgrammed, ringVars, dmaVars, Step, Result
<1>18. CASE Deselect /\ UNCHANGED idmac_enabled
  BY <1>18, AnnounceType DEF Typed, RetriesLeft, TypeOK, Deselect, ringVars, dmaVars, Step, Result
<1>19. CASE CardProgresses
  BY <1>19 DEF Typed, RetriesLeft, TypeOK, CardProgresses, ringVars, dmaVars, Step, Result, Programmed, CardState
<1>20. CASE DmaEnd /\ UNCHANGED idmac_enabled
  BY <1>20, AfterDataType DEF Typed, RetriesLeft, TypeOK, DmaEnd, ringVars, dmaVars, Step, Result
<1>21. CASE DmaUnavailable /\ UNCHANGED idmac_enabled
  BY <1>21 DEF Typed, RetriesLeft, TypeOK, DmaUnavailable, ringVars, dmaVars, Step, Result
<1>22. ASSUME NEW request \in Requests, Call(request) PROVE Typed'
  BY <1>22 DEF Typed, RetriesLeft, TypeOK, Call, ringVars, dmaVars, Step, Result
<1>23. ASSUME NEW outcome, SlaveData(outcome), UNCHANGED idmac_enabled PROVE Typed'
  BY <1>23, AfterDataType
  DEF Typed, RetriesLeft, TypeOK, SlaveData, Corruption, ringVars, Step, Result
<1>26. CASE TooLong /\ UNCHANGED idmac_enabled
  BY <1>26 DEF Typed, RetriesLeft, TypeOK, TooLong, ringVars, dmaVars, Step, Result
<1>25. CASE EnableIdmac
  BY <1>25 DEF EnableIdmac, Typed, RetriesLeft, TypeOK, Step, Result, ringVars, dmaVars
<1>24. CASE UNCHANGED vars
  BY <1>24 DEF Typed, RetriesLeft, TypeOK, vars, ringVars, dmaVars
<1> QED
  BY <1>1, <1>2, <1>3, <1>4, <1>5, <1>6, <1>7, <1>8, <1>9, <1>10, <1>11, <1>12, <1>13, <1>14, <1>15, <1>16, <1>17, <1>18, <1>19, <1>20, <1>21, <1>22, <1>23, <1>24, <1>25, <1>26
  DEF Next, Driver, DataPath

(* Every variable keeps its type: the ring indices stay in the ring, the   *)
(* retries inside their bound, whatever the card and the DMA do.           *)
THEOREM TransferTypeCorrect == Spec => []TypeOK
<1>1. Init => Typed
  BY TypeInit
<1>2. Typed /\ [Next]_vars => Typed'
  BY TypeStep
<1>3. Typed => TypeOK
  BY DEF Typed
<1> QED
  BY <1>1, <1>2, <1>3, PTL DEF Spec

-----------------------------------------------------------------------------
(* The selection of the card.                                              *)

(* CMD7 also lets a card in "dis" go on programming; it is sent only to a   *)
(* card in standby.                                                        *)
Selected ==
  /\ CardIsSelected
  /\ pc = "select" => card = "stby"

LEMMA SelectedInit == Init => Selected
  BY DEF Init, Selected, CardIsSelected

LEMMA SelectedStep == Typed /\ Selected /\ [Next]_vars => Selected'
<1> SUFFICES ASSUME Typed, Selected, [Next]_vars PROVE Selected'
  OBVIOUS
<1> USE DEF Selected, CardIsSelected, ringVars, dmaVars
<1>1. CASE SelectStatus /\ UNCHANGED idmac_enabled
  BY <1>1, StatusReadsState DEF SelectStatus, SelectFailed, Typed, TypeOK
<1>2. CASE Select /\ UNCHANGED idmac_enabled
  <2>1. PICK r \in {"OK", "ERRCMD"} :
          /\ Exchange("CMD7", r)
          /\ IF r = "OK"
             THEN pc' = back /\ card_state' = "tran" /\ UNCHANGED retval
             ELSE SelectFailed(r) /\ UNCHANGED card_state
    BY <1>2 DEF Select
  <2>2. CASE r = "OK"
    <3>1. card' = "tran"
      BY <1>2, <2>1, <2>2
      DEF Select, Exchange, Heard, Obeys, CardState, Addressed
    <3> QED
      BY <2>1, <2>2, <3>1, <1>2 DEF Select, Typed, TypeOK
  <2>3. CASE r # "OK"
    BY <2>1, <2>3 DEF SelectFailed
  <2> QED
    BY <2>2, <2>3
<1>3. CASE BlockLength /\ UNCHANGED idmac_enabled
  BY <1>3, StatusKeeps DEF BlockLength
<1>4. CASE IsCardReady /\ UNCHANGED idmac_enabled
  BY <1>4, StatusKeeps DEF IsCardReady
<1>5. CASE AwaitProgrammed /\ UNCHANGED idmac_enabled
  BY <1>5 DEF AwaitProgrammed
<1>6. ASSUME NEW request \in Requests, Call(request) PROVE Selected'
  BY <1>6 DEF Call
<1>7. ASSUME NEW outcome, SlaveData(outcome), UNCHANGED idmac_enabled PROVE Selected'
  BY <1>7 DEF SlaveData
<1>8. CASE DmaEnd /\ UNCHANGED idmac_enabled
  BY <1>8 DEF DmaEnd
<1>9. CASE DmaUnavailable /\ UNCHANGED idmac_enabled
  BY <1>9 DEF DmaUnavailable
<1>10. CASE CardProgresses
  BY <1>10 DEF CardProgresses, Programmed
<1>11. CASE DmaOwnbitSet
  BY <1>11 DEF DmaOwnbitSet
<1>12. CASE FillFifo /\ UNCHANGED idmac_enabled
  BY <1>12 DEF FillFifo, AfterQueue
<1>13. CASE SetQptr /\ UNCHANGED idmac_enabled
  BY <1>13 DEF SetQptr, AfterQueue
<1>14. CASE NoDescriptor /\ UNCHANGED idmac_enabled
  BY <1>14 DEF NoDescriptor
<1>15. CASE CommandFails /\ UNCHANGED idmac_enabled
  BY <1>15 DEF CommandFails
<1>16. CASE CommandStarts /\ UNCHANGED idmac_enabled
  BY <1>16 DEF CommandStarts
<1>17. CASE DmaReturn /\ UNCHANGED idmac_enabled
  BY <1>17 DEF DmaReturn
<1>18. CASE NotBusy /\ UNCHANGED idmac_enabled
  BY <1>18 DEF NotBusy
<1>19. CASE StopTransmission /\ UNCHANGED idmac_enabled
  BY <1>19 DEF StopTransmission
<1>20. CASE LeaveSelected /\ UNCHANGED idmac_enabled
  BY <1>20 DEF LeaveSelected
<1>21. CASE HouseRead /\ UNCHANGED idmac_enabled
  BY <1>21 DEF HouseRead
<1>22. CASE HouseWrite /\ UNCHANGED idmac_enabled
  BY <1>22 DEF HouseWrite
<1>23. CASE Deselect /\ UNCHANGED idmac_enabled
  BY <1>23 DEF Deselect
<1>26. CASE TooLong /\ UNCHANGED idmac_enabled
  BY <1>26 DEF TooLong
<1>25. CASE EnableIdmac
  BY <1>25 DEF EnableIdmac, ringVars, dmaVars
<1>24. CASE UNCHANGED vars
  BY <1>24 DEF vars
<1> QED
  BY <1>1, <1>2, <1>3, <1>4, <1>5, <1>6, <1>7, <1>8, <1>9, <1>10, <1>11, <1>12, <1>13, <1>14, <1>15, <1>16, <1>17, <1>18, <1>19, <1>20, <1>21, <1>22, <1>23, <1>24, <1>25, <1>26
  DEF Next, Driver, DataPath

(* From its selection to the data command the card is in the transfer      *)
(* state, as card_state says, in both modes and whatever the DMA does.     *)
THEOREM SelectedUntilDataCommand == Spec => []CardIsSelected
<1>1. Init => Typed /\ Selected
  BY TypeInit, SelectedInit
<1>2. Typed /\ Selected /\ [Next]_vars => (Typed /\ Selected)'
  BY TypeStep, SelectedStep
<1>3. Selected => CardIsSelected
  BY DEF Selected
<1> QED
  BY <1>1, <1>2, <1>3, PTL DEF Spec

-----------------------------------------------------------------------------
(* The result of a transfer.                                               *)

(* Past the data command, the places to which a failure before it leads    *)
(* included.                                                               *)
Concluding ==
  \/ pc \in {"busy", "house", "program", "deselect", "idle"}
  \/ pc \in {"status", "select"} /\ back = "deselect"
ResultHonest ==
  ~idmac_enabled /\ ~op.multi =>
    /\ Concluding /\ retval = "OK" => moved = "ok"
    /\ pc # "stop"

LEMMA HonestInit == Init => ResultHonest
  BY DEF Init, ResultHonest, Concluding

LEMMA HonestStep == Typed /\ ResultHonest /\ [Next]_vars => ResultHonest'
<1> SUFFICES ASSUME Typed, ResultHonest, [Next]_vars PROVE ResultHonest'
  OBVIOUS
<1> USE DEF ResultHonest, Concluding
<1>1. CASE SelectStatus /\ UNCHANGED idmac_enabled
  BY <1>1 DEF SelectStatus, SelectFailed, ringVars, dmaVars, Typed, TypeOK
<1>2. CASE Select /\ UNCHANGED idmac_enabled
  BY <1>2 DEF Select, SelectFailed, ringVars, dmaVars, Typed, TypeOK
<1>3. CASE BlockLength /\ UNCHANGED idmac_enabled
  BY <1>3 DEF BlockLength
<1>4. CASE FillFifo /\ UNCHANGED idmac_enabled
  BY <1>4 DEF FillFifo, AfterQueue
<1>5. CASE SetQptr /\ UNCHANGED idmac_enabled
  BY <1>5 DEF SetQptr
<1>6. CASE NoDescriptor /\ UNCHANGED idmac_enabled
  BY <1>6 DEF NoDescriptor
<1>7. CASE DmaReturn /\ UNCHANGED idmac_enabled
  BY <1>7 DEF DmaReturn
<1>8. CASE DmaOwnbitSet
  BY <1>8 DEF DmaOwnbitSet
<1>9. CASE DmaEnd /\ UNCHANGED idmac_enabled
  BY <1>9 DEF DmaEnd
<1>10. CASE IsCardReady /\ UNCHANGED idmac_enabled
  BY <1>10 DEF IsCardReady
<1>11. CASE CommandFails /\ UNCHANGED idmac_enabled
  BY <1>11 DEF CommandFails
<1>12. CASE CommandStarts /\ UNCHANGED idmac_enabled
  BY <1>12 DEF CommandStarts
<1>13. ASSUME NEW outcome, SlaveData(outcome), UNCHANGED idmac_enabled PROVE ResultHonest'
  BY <1>13 DEF SlaveData, Corruption
<1>14. CASE NotBusy /\ UNCHANGED idmac_enabled
  BY <1>14 DEF NotBusy
<1>15. CASE StopTransmission /\ UNCHANGED idmac_enabled
  BY <1>15 DEF StopTransmission
<1>16. CASE LeaveSelected /\ UNCHANGED idmac_enabled
  BY <1>16 DEF LeaveSelected
<1>17. CASE HouseRead /\ UNCHANGED idmac_enabled
  BY <1>17 DEF HouseRead
<1>18. CASE HouseWrite /\ UNCHANGED idmac_enabled
  BY <1>18 DEF HouseWrite
<1>19. CASE AwaitProgrammed /\ UNCHANGED idmac_enabled
  BY <1>19 DEF AwaitProgrammed
<1>20. CASE Deselect /\ UNCHANGED idmac_enabled
  BY <1>20 DEF Deselect
<1>21. CASE CardProgresses
  BY <1>21 DEF CardProgresses
<1>22. CASE DmaUnavailable /\ UNCHANGED idmac_enabled
  BY <1>22 DEF DmaUnavailable
<1>23. ASSUME NEW request \in Requests, Call(request) PROVE ResultHonest'
  BY <1>23 DEF Call
<1>26. CASE TooLong /\ UNCHANGED idmac_enabled
  BY <1>26 DEF TooLong
<1>25. CASE EnableIdmac
  BY <1>25 DEF EnableIdmac, ringVars, dmaVars
<1>24. CASE UNCHANGED vars
  BY <1>24 DEF vars
<1> QED
  BY <1>1, <1>2, <1>3, <1>4, <1>5, <1>6, <1>7, <1>8, <1>9, <1>10, <1>11, <1>12, <1>13, <1>14, <1>15, <1>16, <1>17, <1>18, <1>19, <1>20, <1>21, <1>22, <1>23, <1>24, <1>25, <1>26
  DEF Next, Driver, DataPath

(* For transfers of one block moved by the processor, a call that returns  *)
(* 0 has moved its data.  Transfers of several blocks, which end with the  *)
(* result of CMD12, break this; the DMA breaks it too.                     *)
THEOREM SuccessIsHonest == Spec => []SuccessMeansTransferred
<1>1. Init => Typed /\ ResultHonest
  BY TypeInit, HonestInit
<1>2. Typed /\ ResultHonest /\ [Next]_vars => (Typed /\ ResultHonest)'
  BY TypeStep, HonestStep
<1>3. ResultHonest => SuccessMeansTransferred
  BY DEF ResultHonest, Concluding, SuccessMeansTransferred
<1> QED
  BY <1>1, <1>2, <1>3, PTL DEF Spec
=============================================================================
