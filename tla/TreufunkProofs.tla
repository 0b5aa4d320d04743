--------------------------- MODULE TreufunkProofs ---------------------------
(***************************************************************************)
(* Machine-checked proofs about Treufunk, for every value of its           *)
(* constants: whatever the upper layer calls, from wherever it may.        *)
(***************************************************************************)
EXTENDS Treufunk, TLAPS

(* A call that returns leaves one handler less waiting, if one waits.      *)
LEMMA CallReturnsType ==
  ASSUME TypeOK, CallReturns
  PROVE  pc' \in {"ts_cb", back} /\ pc' \in Labels /\ nested' \in 0 .. MaxNested
<1>1. MaxNested \in Nat /\ nested \in 0 .. MaxNested /\ back \in BackLabels
  BY ConstantsAssumption DEF TypeOK
<1>2. CASE nested > 0
  <2>1. nested' = nested - 1 /\ pc' = "ts_cb"
    BY <1>2 DEF CallReturns
  <2> QED
    BY <1>1, <1>2, <2>1 DEF Labels
<1>3. CASE ~(nested > 0)
  <2>1. nested' = nested /\ pc' = back
    BY <1>3 DEF CallReturns
  <2> QED
    BY <1>1, <2>1 DEF Labels
<1> QED
  BY <1>2, <1>3

(* treufunk_set_state returns to _isr's caller, to the FIFO writes, to the *)
(* TX_STARTED handler or to where the upper layer called from.             *)
LEMMA AfterSetStateCases ==
  ASSUME TypeOK, AfterSetState
  PROVE  /\ ret \in {"relisten", "listen"} => pc' = "idle"
         /\ ret = "shr" => pc' = "shr"
         /\ ret \in {"started", "back"} => pc' \in {"ts_cb", back}
         /\ pc' \in BackLabels \cup {"shr", "ts_cb"}
         /\ pc' \in Labels
         /\ nested' \in 0 .. MaxNested
<1>1. ret \in RetLabels /\ back \in BackLabels /\ nested \in 0 .. MaxNested
  BY DEF TypeOK
<1>2. CASE CallReturns
  BY <1>1, <1>2, CallReturnsType DEF AfterSetState, RetLabels
<1>3. CASE ~CallReturns
  BY <1>1, <1>3 DEF AfterSetState, RetLabels, BackLabels, Labels
<1> QED
  BY <1>2, <1>3

(* A call is entered from rest or from a handler and returns there.        *)
LEMMA EnterCallCases ==
  ASSUME TypeOK, NEW op, EnterCall(op)
  PROVE  /\ back' \in BackLabels /\ nested' \in 0 .. MaxNested
         /\ pc \in BackLabels \cup {"ts_cb"}
         /\ pc = "ts_cb" => back' = back
         /\ pc # "ts_cb" => back' = pc
         /\ MayCall(op)
<1>1. MaxNested \in Nat /\ nested \in 0 .. MaxNested /\ back \in BackLabels
  BY ConstantsAssumption DEF TypeOK
<1>2. MayCall(op) /\ pc \in BackLabels \cup {"ts_cb"}
  BY DEF EnterCall, MayCall, BackLabels, CallbackLabels
<1>3. CASE pc = "ts_cb"
  <2>1. back' = back /\ nested' = nested + 1 /\ nested < MaxNested
    BY <1>3 DEF EnterCall
  <2> QED
    BY <1>1, <1>2, <1>3, <2>1
<1>4. CASE pc # "ts_cb"
  <2>1. back' = pc /\ nested' = nested
    BY <1>4 DEF EnterCall
  <2> QED
    BY <1>1, <1>2, <1>4, <2>1
<1> QED
  BY <1>3, <1>4

(* A treufunk_set_state entered with legal arguments leaves legal ones.    *)
LEMMA CallSetStateType ==
  ASSUME NEW s \in SettledStates, NEW r \in RetLabels, CallSetState(s, r)
  PROVE  cmd' \in SettledStates /\ ret' \in RetLabels /\ pc' \in Labels
BY DEF CallSetState, Labels

-----------------------------------------------------------------------------
(***************************************************************************)
(* Type correctness, one step per action.                                  *)
(***************************************************************************)
LEMMA TypeInit == Init => TypeOK
<1> SUFFICES ASSUME Init
             PROVE  TypeOK
  OBVIOUS
<1>1. ChipTypeOK
  BY DEF Init, ChipInit, ChipTypeOK, SmStates, SettledStates
<1>2. isrs \in 0 .. MaxIsr /\ nested \in 0 .. MaxNested
  BY ConstantsAssumption DEF Init
<1> QED
  BY <1>1, <1>2 DEF Init, TypeOK, SmStates, SettledStates, Labels, BackLabels,
                    RetLabels, AirStates

LEMMA TypeStep == TypeOK /\ [Next]_vars => TypeOK'
<1> SUFFICES ASSUME TypeOK, [Next]_vars
             PROVE  TypeOK'
  OBVIOUS
<1> USE ConstantsAssumption
<1>0. CASE UNCHANGED vars
  BY <1>0 DEF vars, chip, driver, control, TypeOK, ChipTypeOK
<1>1. CASE NetdevInit
  <2>1. "RECEIVING" \in SettledStates /\ "back" \in RetLabels
    BY DEF SettledStates, RetLabels
  <2>2. cmd' \in SettledStates /\ ret' \in RetLabels /\ pc' \in Labels
    BY <1>1, <2>1, CallSetStateType DEF NetdevInit, DoReset
  <2>3. ChipTypeOK'
    BY <1>1 DEF NetdevInit, DoReset, ChipReset, ChipTypeOK, SmStates, SettledStates
  <2> QED
    BY <1>1, <2>2, <2>3
       DEF NetdevInit, DoReset, TypeOK, EndOptions, Options, BackLabels
<1>2. CASE RxResets
  BY <1>2 DEF RxResets, ChipReset, driver, TypeOK, ChipTypeOK, SmStates,
              SettledStates, Labels
<1>3. CASE WriteCommand
  BY <1>3 DEF WriteCommand, Command, AirStates, driver, TypeOK, ChipTypeOK, SmStates,
              SettledStates, Labels
<1>4. CASE FinishSetState
  BY <1>4, AfterSetStateCases
     DEF FinishSetState, chip, TypeOK, ChipTypeOK
<1>5. CASE Send
  <2>1. "SLEEP" \in SettledStates /\ "shr" \in RetLabels
    BY DEF SettledStates, RetLabels
  <2>2. cmd' \in SettledStates /\ ret' \in RetLabels /\ pc' \in Labels
    BY <1>5, <2>1, CallSetStateType DEF Send
  <2> QED
    BY <1>5, <2>2, EnterCallCases DEF Send, chip, TypeOK, ChipTypeOK, AirStates
<1>6. CASE WriteShr
  BY <1>6 DEF WriteShr, FifoWrite, driver, TypeOK, ChipTypeOK, FifoItems, Labels
<1>7. CASE WritePhr
  BY <1>7 DEF WritePhr, FifoWrite, driver, TypeOK, ChipTypeOK, FifoItems, Labels
<1>8. CASE WritePsdu
  <2>1. "SENDING" \in SettledStates /\ "started" \in RetLabels
    BY DEF SettledStates, RetLabels
  <2>2. cmd' \in SettledStates /\ ret' \in RetLabels /\ pc' \in Labels
    BY <1>8, <2>1, CallSetStateType DEF WritePsdu
  <2> QED
    BY <1>8, <2>2 DEF WritePsdu, FifoWrite, driver, TypeOK, ChipTypeOK, FifoItems
<1>9. CASE SetSleep
  <2>1. "SLEEP" \in SettledStates /\ "back" \in RetLabels
    BY DEF SettledStates, RetLabels
  <2>2. cmd' \in SettledStates /\ ret' \in RetLabels /\ pc' \in Labels
    BY <1>9, <2>1, CallSetStateType DEF SetSleep
  <2> QED
    BY <1>9, <2>2, EnterCallCases DEF SetSleep, chip, driver, TypeOK, ChipTypeOK
<1>10. CASE SetTx
  <2>1. "SENDING" \in SettledStates /\ "started" \in RetLabels
    BY DEF SettledStates, RetLabels
  <2>2. cmd' \in SettledStates /\ ret' \in RetLabels /\ pc' \in Labels
    BY <1>10, <2>1, CallSetStateType DEF SetTx
  <2> QED
    BY <1>10, <2>2, EnterCallCases DEF SetTx, chip, driver, TypeOK, ChipTypeOK
<1>11. CASE SetReset
  <2>1. "RECEIVING" \in SettledStates /\ "back" \in RetLabels
    BY DEF SettledStates, RetLabels
  <2>2. cmd' \in SettledStates /\ ret' \in RetLabels /\ pc' \in Labels
    BY <1>11, <2>1, CallSetStateType DEF SetReset, DoReset
  <2>3. ChipTypeOK'
    BY <1>11 DEF SetReset, DoReset, ChipReset, ChipTypeOK, SmStates, SettledStates
  <2> QED
    BY <1>11, <2>2, <2>3, EnterCallCases
       DEF SetReset, DoReset, TypeOK, EndOptions, Options
<1>12. ASSUME NEW option \in Options, NEW on \in BOOLEAN, SetOption(option, on)
       PROVE  TypeOK'
  BY <1>12 DEF SetOption, chip, control, TypeOK, ChipTypeOK
<1>13. ASSUME NEW fits \in BufferFits, Recv(fits)
       PROVE  TypeOK'
  <2>1. CASE fits
    <3>1. ChipTypeOK'
      BY <1>13, <2>1 DEF Recv, FifoDrain, TypeOK, ChipTypeOK
    <3> QED
      BY <1>13, <3>1 DEF Recv, driver, control, TypeOK
  <2>2. CASE ~fits
    <3>1. ChipTypeOK'
      BY <1>13, <2>2 DEF Recv, chip, TypeOK, ChipTypeOK
    <3> QED
      BY <1>13, <3>1 DEF Recv, driver, control, TypeOK
  <2> QED
    BY <2>1, <2>2
<1>14. CASE TimerFires
  <2>1. isrs \in 0 .. MaxIsr /\ MaxIsr \in Nat
    BY DEF TypeOK
  <2>2. isrs' = IF isrs < MaxIsr THEN isrs + 1 ELSE isrs
    BY <1>14 DEF TimerFires
  <2>3. isrs' \in 0 .. MaxIsr
    BY <2>1, <2>2
  <2> QED
    BY <1>14, <2>3 DEF TimerFires, chip, control, TypeOK, ChipTypeOK
<1>15. CASE HandleIsr
  BY <1>15 DEF HandleIsr, chip, TypeOK, ChipTypeOK, Labels
<1>16. ASSUME NEW phy, IsrTail(phy)
       PROVE  TypeOK'
  <2>1. CASE Relisten(phy)
    <3>1. "RECEIVING" \in SettledStates /\ "relisten" \in RetLabels
      BY DEF SettledStates, RetLabels
    <3>2. cmd' \in SettledStates /\ ret' \in RetLabels /\ pc' \in Labels
      BY <2>1, <3>1, CallSetStateType DEF Relisten
    <3> QED
      BY <1>16, <2>1, <3>2 DEF IsrTail, Relisten, chip, TypeOK, ChipTypeOK
  <2>2. CASE TellTxEnd(phy)
    BY <1>16, <2>2 DEF IsrTail, TellTxEnd, chip, TypeOK, ChipTypeOK, Labels,
                       BackLabels, CallbackLabels
  <2>3. CASE PollAgain(phy)
    BY <1>16, <2>3 DEF IsrTail, PollAgain, chip, TypeOK, ChipTypeOK, Labels,
                       BackLabels
  <2> QED
    BY <1>16, <2>1, <2>2, <2>3 DEF IsrTail
<1>17. CASE Isr
  <2>1. CASE TellRxEnd
    BY <2>1 DEF TellRxEnd, chip, driver, TypeOK, ChipTypeOK, Labels, BackLabels,
                CallbackLabels
  <2> QED
    BY <1>16, <1>17, <2>1 DEF Isr
<1>18. CASE IsrAfterRx
  BY <1>16, <1>18 DEF IsrAfterRx
<1>19. CASE RxHandlerReturns
  BY <1>19 DEF RxHandlerReturns, chip, driver, TypeOK, ChipTypeOK, Labels
<1>20. CASE TxHandlerReturns
  <2>1. "RECEIVING" \in SettledStates /\ "listen" \in RetLabels
    BY DEF SettledStates, RetLabels
  <2>2. cmd' \in SettledStates /\ ret' \in RetLabels /\ pc' \in Labels
    BY <1>20, <2>1, CallSetStateType DEF TxHandlerReturns
  <2> QED
    BY <1>20, <2>2 DEF TxHandlerReturns, chip, driver, TypeOK, ChipTypeOK
<1>21. CASE TxStartedHandlerReturns
  BY <1>21, CallReturnsType
     DEF TxStartedHandlerReturns, chip, driver, TypeOK, ChipTypeOK
<1>22. CASE ChipStep
  <2>1. CASE Settle \/ RxStart \/ RxEnd \/ TxEnd
    <3>1. ChipTypeOK
      BY DEF TypeOK
    <3>2. sm' \in SmStates /\ goal' \in SettledStates /\ (sm' # "BUSY" => goal' = sm')
      BY <2>1, <3>1 DEF Settle, RxStart, RxEnd, TxEnd, ChipTypeOK, SmStates,
                        SettledStates
    <3>3. fifo' \in Seq(FifoItems)
      <4>1. "part" \in FifoItems /\ "frame" \in FifoItems
        BY DEF FifoItems
      <4>2. /\ <<"part">> \in Seq(FifoItems)
            /\ <<"frame">> \in Seq(FifoItems)
            /\ <<>> \in Seq(FifoItems)
        BY <4>1
      <4>3. fifo' \in {fifo, <<"part">>, <<"frame">>, <<>>}
        BY <2>1 DEF Settle, RxStart, RxEnd, TxEnd
      <4> QED
        BY <3>1, <4>2, <4>3, Zenon DEF ChipTypeOK
    <3>4. UNCHANGED <<driver, control>> /\ air' \in AirStates
      BY <1>22 DEF ChipStep, TransmissionEnds, AirStates, TypeOK
    <3>5. ChipTypeOK'
      BY <3>2, <3>3 DEF ChipTypeOK
    <3> QED
      BY <3>4, <3>5 DEF driver, control, TypeOK
  <2> QED
    BY <1>22, <2>1 DEF ChipStep, TransmissionEnds
<1>23. CASE Call
  BY <1>5, <1>9, <1>10, <1>11, <1>12, <1>13, <1>23 DEF Call
<1>24. CASE ThreadStep
  BY <1>2, <1>3, <1>4, <1>6, <1>7, <1>8, <1>17, <1>18, <1>19, <1>20, <1>21,
     <1>24 DEF ThreadStep
<1> QED
  BY <1>0, <1>1, <1>14, <1>15, <1>22, <1>23, <1>24 DEF Next

(* Every reachable state is well typed: no label, state or counter leaves  *)
(* its range, whatever the upper layer calls.                              *)
THEOREM TypeCorrect == Spec => []TypeOK
BY TypeInit, TypeStep, PTL DEF Spec

-----------------------------------------------------------------------------
(***************************************************************************)
(* Facts about control that the invariance proofs below share.             *)
(***************************************************************************)
(* A new treufunk_set_state begins with the resets or with the command.    *)
LEMMA CallSetStateCases ==
  ASSUME NEW s, NEW r, CallSetState(s, r)
  PROVE  /\ cmd' = s
         /\ ret' = r
         /\ pc' \in {"ss_resets", "ss_cmd"}
         /\ s = "SLEEP" => pc' = "ss_cmd"
         /\ s \in {"RECEIVING", "SENDING"} => pc' = "ss_resets"
BY DEF CallSetState

-----------------------------------------------------------------------------
(***************************************************************************)
(* Going back to RX because the FIFO was seen empty by a sleeping chip     *)
(* finds it empty.                                                         *)
(***************************************************************************)
LEMMA RelistenInit == Init => RelistenKeepsFrames
BY DEF Init, RelistenKeepsFrames

(* Only _isr enters treufunk_set_state with "relisten", and it has just    *)
(* seen a sleeping chip with an empty FIFO; such a chip does nothing.      *)
LEMMA RelistenStep ==
  TypeOK /\ RelistenKeepsFrames /\ [Next]_vars => RelistenKeepsFrames'
<1> SUFFICES ASSUME TypeOK, RelistenKeepsFrames, [Next]_vars
             PROVE  RelistenKeepsFrames'
  OBVIOUS
<1> USE DEF RelistenKeepsFrames
<1>0. CASE UNCHANGED vars
  BY <1>0 DEF vars, chip, control
<1>1. CASE NetdevInit \/ SetReset \/ Send \/ SetSleep \/ SetTx \/ WritePsdu
           \/ TxHandlerReturns
  BY <1>1, CallSetStateCases
     DEF NetdevInit, SetReset, DoReset, Send, SetSleep, SetTx, WritePsdu,
         TxHandlerReturns
<1>2. CASE RxResets \/ WriteCommand \/ WriteShr \/ WritePhr \/ HandleIsr
           \/ RxHandlerReturns
  BY <1>2 DEF RxResets, WriteCommand, WriteShr, WritePhr, HandleIsr,
              RxHandlerReturns
<1>3. CASE FinishSetState
  BY <1>3, AfterSetStateCases DEF FinishSetState, BackLabels, CallbackLabels
<1>4. CASE TxStartedHandlerReturns
  BY <1>4, CallReturnsType
     DEF TxStartedHandlerReturns, TypeOK, BackLabels, CallbackLabels
<1>5. ASSUME NEW option \in Options, NEW on \in BOOLEAN, SetOption(option, on)
      PROVE  RelistenKeepsFrames'
  BY <1>5 DEF SetOption, control, chip
<1>6. ASSUME NEW fits \in BufferFits, Recv(fits)
      PROVE  RelistenKeepsFrames'
  BY <1>6 DEF Recv, control, MayCall
<1>7. CASE TimerFires
  BY <1>7 DEF TimerFires, control, chip
<1>8. ASSUME IsrTail(PhyStatus)
      PROVE  RelistenKeepsFrames'
  <2>1. CASE Relisten(PhyStatus)
    <3>1. sm = "SLEEP" /\ fifo = <<>>
      BY <2>1 DEF Relisten, PhyStatus
    <3> QED
      BY <1>8, <3>1 DEF IsrTail, chip
  <2>2. CASE TellTxEnd(PhyStatus) \/ PollAgain(PhyStatus)
    BY <2>2 DEF TellTxEnd, PollAgain
  <2> QED
    BY <1>8, <2>1, <2>2 DEF IsrTail
<1>9. CASE Isr \/ IsrAfterRx
  BY <1>8, <1>9 DEF Isr, IsrAfterRx, TellRxEnd
<1>10. CASE ChipStep
  BY <1>10 DEF ChipStep, TransmissionEnds, Settle, RxStart, RxEnd, TxEnd, control
<1> QED
  BY <1>0, <1>1, <1>2, <1>3, <1>4, <1>5, <1>6, <1>7, <1>9, <1>10
     DEF Next, Call, ThreadStep

(* On the relisten path of _isr, from the phy_status that showed a         *)
(* sleeping chip with an empty FIFO to the FIFO reset of _rx_resets,       *)
(* nothing arrives that the reset would discard, whatever the upper layer  *)
(* calls.  The return to RX behind TX_COMPLETE is another matter: there a  *)
(* frame may be lost.                                                      *)
THEOREM RelistenCorrect == Spec => []RelistenKeepsFrames
BY TypeInit, TypeStep, RelistenInit, RelistenStep, PTL DEF Spec

=============================================================================
