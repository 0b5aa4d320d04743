------------------------ MODULE TreufunkTrafficProofs ------------------------
(***************************************************************************)
(* What the driver's polling promises, proved for every value of the       *)
(* constants.  Each promise names what the upper layer must leave alone.   *)
(***************************************************************************)
EXTENDS TreufunkProofs

AllCalls == Calls \cup RxCalls \cup TxCalls \cup StartCalls

SetStateLabels == {"ss_resets", "ss_cmd", "ss_done"}
SendLabels == {"shr", "phr", "psdu"}

(* The state that each caller of treufunk_set_state asks for.              *)
CallersAgree ==
  pc \in SetStateLabels =>
    /\ ret \in {"relisten", "listen"} => cmd = "RECEIVING"
    /\ ret = "shr" => cmd = "SLEEP"
    /\ ret = "started" => cmd = "SENDING"
    /\ pc = "ss_resets" => cmd # "SLEEP"

LEMMA CallersAgreeStep ==
  TypeOK /\ CallersAgree /\ [Next]_vars => CallersAgree'
<1> SUFFICES ASSUME TypeOK, CallersAgree, [Next]_vars
             PROVE  CallersAgree'
  OBVIOUS
<1> USE DEF CallersAgree, SetStateLabels
<1>0. CASE UNCHANGED vars
  BY <1>0 DEF vars, control
<1>1. CASE NetdevInit \/ SetReset \/ Send \/ SetSleep \/ SetTx \/ WritePsdu
           \/ TxHandlerReturns
  BY <1>1 DEF NetdevInit, SetReset, DoReset, Send, SetSleep, SetTx, WritePsdu,
              TxHandlerReturns, CallSetState
<1>2. CASE RxResets \/ WriteCommand \/ WriteShr \/ WritePhr \/ HandleIsr
           \/ RxHandlerReturns
  BY <1>2 DEF RxResets, WriteCommand, WriteShr, WritePhr, HandleIsr,
              RxHandlerReturns
<1>3. CASE FinishSetState
  BY <1>3, AfterSetStateCases DEF FinishSetState, BackLabels, CallbackLabels
<1>4. CASE TxStartedHandlerReturns
  BY <1>4, CallReturnsType
     DEF TxStartedHandlerReturns, TypeOK, BackLabels, CallbackLabels
<1>5. ASSUME NEW option \in Options, NEW on \in BOOLEAN, SetOption(option, on)
      PROVE  CallersAgree'
  BY <1>5 DEF SetOption, control
<1>6. ASSUME NEW fits \in BufferFits, Recv(fits)
      PROVE  CallersAgree'
  BY <1>6 DEF Recv, control
<1>7. CASE TimerFires
  BY <1>7 DEF TimerFires, control
<1>8. CASE Isr \/ IsrAfterRx
  BY <1>8 DEF Isr, IsrAfterRx, TellRxEnd, IsrTail, Relisten, TellTxEnd,
              PollAgain, CallSetState
<1>9. CASE ChipStep
  BY <1>9 DEF ChipStep, TransmissionEnds, control
<1> QED
  BY <1>0, <1>1, <1>2, <1>3, <1>4, <1>5, <1>6, <1>7, <1>8, <1>9
     DEF Next, Call, ThreadStep

-----------------------------------------------------------------------------
(***************************************************************************)
(* Polling stays alive while the END events are told.                      *)
(***************************************************************************)
EndEventsTold == Toggle \cap EndOptions = {}

PollingInv ==
  /\ CallersAgree
  /\ pc # "boot" => EndOptions \subseteq flags
  /\ pc = "ts_cb" /\ cmd # "SLEEP" => timer \/ isrs > 0
  /\ PollingAlive

LEMMA PollingInit == Init => PollingInv
BY DEF Init, PollingInv, CallersAgree, SetStateLabels, PollingAlive

LEMMA PollingStep ==
  ASSUME EndEventsTold
  PROVE  TypeOK /\ PollingInv /\ [Next]_vars => PollingInv'
<1> SUFFICES ASSUME TypeOK, PollingInv, [Next]_vars
             PROVE  PollingInv'
  OBVIOUS
<1>a. CallersAgree'
  BY CallersAgreeStep DEF PollingInv
<1>b. isrs \in Nat /\ MaxIsr \in Nat \ {0}
  BY ConstantsAssumption DEF TypeOK
<1> DEFINE Rest ==
      /\ pc # "boot" => EndOptions \subseteq flags
      /\ pc = "ts_cb" /\ cmd # "SLEEP" => timer \/ isrs > 0
      /\ PollingAlive
<1> SUFFICES Rest'
  BY <1>a DEF PollingInv
<1>c. Rest /\ CallersAgree
  BY DEF PollingInv
<1> USE DEF PollingAlive
<1>0. CASE UNCHANGED vars
  BY <1>0, <1>c DEF vars, driver, control
<1>1. CASE NetdevInit \/ SetReset
  BY <1>1, CallSetStateCases DEF NetdevInit, SetReset, DoReset
<1>2. CASE Send \/ SetSleep \/ SetTx
  BY <1>2, <1>c, CallSetStateCases
     DEF Send, SetSleep, SetTx, EnterCall, MayCall, driver
<1>3. CASE WritePsdu \/ TxHandlerReturns
  BY <1>3, <1>c, CallSetStateCases DEF WritePsdu, TxHandlerReturns, driver
<1>4. CASE RxResets \/ WriteCommand \/ WriteShr \/ WritePhr \/ RxHandlerReturns
  BY <1>4, <1>c DEF RxResets, WriteCommand, WriteShr, WritePhr,
                    RxHandlerReturns, driver
<1>5. CASE FinishSetState
  <2>1. flags' = flags /\ EndOptions \subseteq flags
    BY <1>5, <1>c DEF FinishSetState
  <2>2. cmd' = cmd /\ timer' = (cmd # "SLEEP") /\ pc' # "boot"
    BY <1>5, AfterSetStateCases DEF FinishSetState, BackLabels, CallbackLabels
  <2> QED
    BY <2>1, <2>2
<1>6. CASE TxStartedHandlerReturns
  BY <1>6, <1>c, CallReturnsType
     DEF TxStartedHandlerReturns, TypeOK, BackLabels, CallbackLabels, driver
<1>7. ASSUME NEW option \in Options, NEW on \in BOOLEAN, SetOption(option, on)
      PROVE  Rest'
  <2>1. option \notin EndOptions
    BY <1>7 DEF SetOption, EndEventsTold
  <2>2. EndOptions \subseteq flags => EndOptions \subseteq flags'
    BY <1>7, <2>1 DEF SetOption
  <2> QED
    BY <1>7, <1>c, <2>2 DEF SetOption, control
<1>8. ASSUME NEW fits \in BufferFits, Recv(fits)
      PROVE  Rest'
  BY <1>8, <1>c DEF Recv, control, driver
<1>9. CASE TimerFires
  <2>1. isrs' = IF isrs < MaxIsr THEN isrs + 1 ELSE isrs
    BY <1>9 DEF TimerFires
  <2>2. isrs' > 0
    BY <1>b, <2>1
  <2> QED
    BY <1>9, <1>c, <2>2 DEF TimerFires, control
<1>10. CASE HandleIsr
  BY <1>10, <1>c DEF HandleIsr
<1>11. ASSUME NEW phy, IsrTail(phy), pc \in {"isr", "isr2"}
       PROVE  Rest'
  <2>1. flags' = flags /\ EndOptions \subseteq flags
    BY <1>11, <1>c DEF IsrTail
  <2>2. CASE Relisten(phy)
    BY <2>1, <2>2, CallSetStateCases DEF Relisten
  <2>3. CASE TellTxEnd(phy)
    BY <2>1, <2>3 DEF TellTxEnd, EndOptions
  <2>4. CASE PollAgain(phy)
    BY <2>1, <2>4 DEF PollAgain
  <2> QED
    BY <1>11, <2>2, <2>3, <2>4 DEF IsrTail
<1>12. CASE Isr
  <2>1. CASE TellRxEnd
    BY <1>12, <1>c, <2>1 DEF Isr, TellRxEnd, EndOptions, driver
  <2> QED
    BY <1>11, <1>12, <2>1 DEF Isr
<1>13. CASE IsrAfterRx
  BY <1>11, <1>13 DEF IsrAfterRx
<1>14. CASE ChipStep
  BY <1>14, <1>c DEF ChipStep, TransmissionEnds, driver, control
<1> QED
  BY <1>0, <1>1, <1>2, <1>3, <1>4, <1>5, <1>6, <1>7, <1>8, <1>9, <1>10, <1>12,
     <1>13, <1>14
     DEF Next, Call, ThreadStep

(* While the upper layer keeps being told the END events, it can never     *)
(* leave the driver deaf: either the chip is commanded to SLEEP, or the    *)
(* next poll is on its way.                                                *)
THEOREM PollingCorrect ==
  ASSUME EndEventsTold
  PROVE  Spec => []PollingAlive
<1>1. PollingInv => PollingAlive
  BY DEF PollingInv
<1> QED
  BY <1>1, TypeInit, TypeStep, PollingInit, PollingStep, PTL DEF Spec

-----------------------------------------------------------------------------
(***************************************************************************)
(* A frame told to the upper layer is whole, or cut short by a SLEEP.      *)
(***************************************************************************)
(* The chip between two treufunk_set_state of a driver that was not put to *)
(* SLEEP from above.                                                       *)
ChipKeepsFramesWhole ==
  \/ sm = "BUSY" /\ goal # "SLEEP" /\ fifo = <<>>
  \/ sm = "SENDING" /\ fifo = <<>>
  \/ sm = "RECEIVING" /\ (fifo = <<>> \/ fifo = <<"part">>)
  \/ sm = "SLEEP" /\ (fifo = <<>> \/ fifo = <<"frame">>)

(* A chip that was: it has what had arrived of a frame.                    *)
ChipAsleep ==
  /\ sm \in {"BUSY", "SLEEP"}
  /\ goal = "SLEEP"
  /\ fifo = <<>> \/ fifo = <<"part">> \/ fifo = <<"frame">>

(* No treufunk_set_state is under way, or it has given its command, and no *)
(* send is loading the FIFO.                                               *)
Settled ==
  /\ pc \notin {"boot", "ss_resets", "ss_cmd"} \cup SendLabels
  /\ pc = "ss_done" => ret # "shr"

FrameInv ==
  /\ CallersAgree
  /\ pc = "ss_cmd" /\ cmd # "SLEEP" => sm = "SLEEP" /\ fifo = <<>>
  /\ pc = "ss_cmd" /\ cmd = "SLEEP" /\ ret # "shr"
       => ChipKeepsFramesWhole \/ ChipAsleep
  /\ Settled /\ cmd = "SLEEP" => ChipAsleep
  /\ Settled /\ cmd # "SLEEP" => ChipKeepsFramesWhole

LEMMA FrameInit == Init => FrameInv
BY DEF Init, FrameInv, Settled, CallersAgree, SetStateLabels, SendLabels

(* What the chip does by itself keeps frames whole.                        *)
LEMMA ChipStepKeepsFramesWhole ==
  ASSUME ChipTypeOK, ChipKeepsFramesWhole, Settle \/ RxStart \/ RxEnd \/ TxEnd
  PROVE  ChipKeepsFramesWhole'
BY DEF ChipTypeOK, SettledStates, ChipKeepsFramesWhole, Settle, RxStart, RxEnd,
       TxEnd

LEMMA ChipStepKeepsAsleep ==
  ASSUME ChipTypeOK, ChipAsleep, Settle \/ RxStart \/ RxEnd \/ TxEnd
  PROVE  ChipAsleep'
BY DEF ChipTypeOK, SettledStates, ChipAsleep, Settle, RxStart, RxEnd, TxEnd

LEMMA FrameStep == TypeOK /\ FrameInv /\ [Next]_vars => FrameInv'
<1> SUFFICES ASSUME TypeOK, FrameInv, [Next]_vars
             PROVE  FrameInv'
  OBVIOUS
<1>a. CallersAgree'
  BY CallersAgreeStep DEF FrameInv
<1> DEFINE Chip == IF cmd = "SLEEP" THEN ChipAsleep ELSE ChipKeepsFramesWhole
           Rest ==
             /\ pc = "ss_cmd" /\ cmd # "SLEEP" => sm = "SLEEP" /\ fifo = <<>>
             /\ pc = "ss_cmd" /\ cmd = "SLEEP" /\ ret # "shr"
                  => ChipKeepsFramesWhole \/ ChipAsleep
             /\ Settled => Chip
<1> SUFFICES Rest'
  BY <1>a DEF FrameInv
<1>b. Rest /\ CallersAgree
  BY DEF FrameInv
<1>c. /\ back \in BackLabels
      /\ cmd \in SettledStates
      /\ ret \in RetLabels
      /\ ChipTypeOK
  BY DEF TypeOK
<1>d. UNCHANGED chip => UNCHANGED <<ChipKeepsFramesWhole, ChipAsleep>>
  BY DEF chip, ChipKeepsFramesWhole, ChipAsleep
<1>e. UNCHANGED <<chip, cmd>> => UNCHANGED Chip
  BY <1>d
<1> HIDE DEF Chip, Rest
<1> USE DEF Settled, SetStateLabels, SendLabels
<1>0. CASE UNCHANGED vars
  BY <1>0, <1>b, <1>d, <1>e DEF Rest, vars, control, chip
<1>1. CASE NetdevInit \/ SetReset \/ SetTx \/ WritePsdu \/ TxHandlerReturns
  BY <1>1, CallSetStateCases
     DEF Rest, NetdevInit, SetReset, DoReset, SetTx, WritePsdu, TxHandlerReturns
<1>2. CASE Send
  BY <1>2, CallSetStateCases DEF Rest, Send
<1>3. CASE SetSleep
  <2>1. pc \in BackLabels \cup {"ts_cb"} /\ UNCHANGED chip
    BY <1>3, EnterCallCases DEF SetSleep
  <2>2. ChipKeepsFramesWhole \/ ChipAsleep
    BY <1>b, <2>1 DEF Rest, Chip, BackLabels, CallbackLabels
  <2> QED
    BY <1>3, <1>d, <2>1, <2>2, CallSetStateCases DEF Rest, SetSleep
<1>4. CASE RxResets
  BY <1>4, <1>b DEF Rest, RxResets, ChipReset, CallersAgree
<1>5. CASE WriteCommand
  <2>1. CASE cmd = "SLEEP"
    BY <1>5, <1>b, <1>c, <2>1
       DEF Rest, Chip, WriteCommand, Command, ChipKeepsFramesWhole, ChipAsleep
  <2>2. CASE cmd # "SLEEP"
    BY <1>5, <1>b, <1>c, <2>2
       DEF Rest, Chip, WriteCommand, Command, ChipKeepsFramesWhole
  <2> QED
    BY <2>1, <2>2
<1>6. CASE FinishSetState
  <2>1. UNCHANGED <<chip, cmd>> /\ pc = "ss_done" /\ AfterSetState
    BY <1>6 DEF FinishSetState
  <2>2. CASE ret = "shr"
    BY <2>1, <2>2, AfterSetStateCases DEF Rest
  <2>3. CASE ret # "shr"
    <3>1. Chip'
      BY <1>b, <1>e, <2>1, <2>3 DEF Rest
    <3>2. pc' \in BackLabels \cup {"ts_cb"}
      BY <1>c, <2>1, <2>3, AfterSetStateCases DEF RetLabels, BackLabels
    <3> QED
      BY <3>1, <3>2 DEF Rest, BackLabels, CallbackLabels
  <2> QED
    BY <2>2, <2>3
<1>7. CASE WriteShr \/ WritePhr
  BY <1>7 DEF Rest, WriteShr, WritePhr
<1>8. CASE RxHandlerReturns
  BY <1>8, <1>b, <1>e DEF Rest, RxHandlerReturns
<1>9. CASE TxStartedHandlerReturns
  BY <1>9, <1>b, <1>c, <1>e, CallReturnsType
     DEF Rest, TxStartedHandlerReturns, BackLabels, CallbackLabels
<1>10. ASSUME NEW option \in Options, NEW on \in BOOLEAN, SetOption(option, on)
       PROVE  Rest'
  BY <1>10, <1>b, <1>d, <1>e DEF Rest, SetOption, control, chip
<1>11. ASSUME NEW fits \in BufferFits, Recv(fits)
       PROVE  Rest'
  <2>1. pc \in BackLabels \cup {"ts_cb"} /\ UNCHANGED control
    BY <1>11 DEF Recv, MayCall, BackLabels, CallbackLabels
  <2>2. Chip
    BY <1>b, <2>1 DEF Rest, BackLabels, CallbackLabels
  <2>3. Chip'
    BY <1>11, <1>e, <2>1, <2>2
       DEF Recv, FifoDrain, Chip, ChipKeepsFramesWhole, ChipAsleep, control
  <2> QED
    BY <2>1, <2>3 DEF Rest, control, BackLabels, CallbackLabels
<1>12. CASE TimerFires
  BY <1>12, <1>b, <1>d, <1>e DEF Rest, TimerFires, control, chip
<1>13. CASE HandleIsr
  BY <1>13, <1>b, <1>e DEF Rest, HandleIsr
<1>14. CASE Isr \/ IsrAfterRx
  <2>1. Chip /\ UNCHANGED chip
    BY <1>14, <1>b DEF Rest, Isr, IsrAfterRx, IsrTail, TellRxEnd
  <2>2. \/ pc' \in BackLabels /\ cmd' = cmd
        \/ pc' = "ss_resets"
    BY <1>14, CallSetStateCases
       DEF Isr, IsrAfterRx, IsrTail, TellRxEnd, Relisten, TellTxEnd, PollAgain,
           BackLabels, CallbackLabels
  <2> QED
    BY <1>e, <2>1, <2>2 DEF Rest, BackLabels, CallbackLabels
<1>15. CASE ChipStep
  <2>1. UNCHANGED control
    BY <1>15 DEF ChipStep, TransmissionEnds
  <2>2. Settle \/ RxStart \/ RxEnd \/ TxEnd
    BY <1>15 DEF ChipStep, TransmissionEnds
  <2>3. /\ ChipKeepsFramesWhole => ChipKeepsFramesWhole'
        /\ ChipAsleep => ChipAsleep'
    BY <1>c, <2>2, ChipStepKeepsFramesWhole, ChipStepKeepsAsleep
  <2>4. Chip => Chip'
    BY <2>1, <2>3 DEF Chip, control
  <2>5. sm = "SLEEP" /\ fifo = <<>> => FALSE
    BY <2>2 DEF Settle, RxStart, RxEnd, TxEnd
  <2> QED
    BY <1>b, <2>1, <2>3, <2>4, <2>5 DEF Rest, control
<1> QED
  BY <1>0, <1>1, <1>2, <1>3, <1>4, <1>5, <1>6, <1>7, <1>8, <1>9, <1>10, <1>11,
     <1>12, <1>13, <1>14, <1>15
     DEF Next, Call, ThreadStep

(* RX_COMPLETE stands for exactly one whole frame, or for one that a SLEEP *)
(* from above, still in force, has cut short, and never for bytes that the *)
(* driver wrote: however any calls from any handler and receptions         *)
(* interleave with the polling.                                            *)
THEOREM FrameCorrect == Spec => ReportedFrameIsWhole
<1>1. FrameInv /\ [Next]_vars =>
        [pc = "isr" /\ pc' = "rx_cb" =>
           fifo = <<"frame">> \/ (fifo = <<"part">> /\ cmd = "SLEEP")]_vars
  <2> SUFFICES ASSUME FrameInv, Next, pc = "isr", pc' = "rx_cb"
               PROVE  fifo = <<"frame">> \/ (fifo = <<"part">> /\ cmd = "SLEEP")
    OBVIOUS
  <2>1. /\ cmd = "SLEEP" => ChipAsleep
        /\ cmd # "SLEEP" => ChipKeepsFramesWhole
    BY DEF FrameInv, Settled, SendLabels
  <2>2. Isr
    BY CallSetStateCases
       DEF Next, NetdevInit, DoReset, Call, EnterCall, MayCall, Send, SetSleep, SetTx,
           SetReset, SetOption, Recv, ThreadStep, RxResets, WriteCommand,
           FinishSetState, WriteShr, WritePhr, WritePsdu, IsrAfterRx,
           RxHandlerReturns, TxHandlerReturns, TxStartedHandlerReturns,
           HandleIsr, TimerFires, ChipStep, TransmissionEnds, control
  <2>3. FrameWaiting(PhyStatus)
    BY <2>2, CallSetStateCases
       DEF Isr, TellRxEnd, IsrTail, Relisten, TellTxEnd, PollAgain
  <2> QED
    BY <2>1, <2>3 DEF FrameWaiting, PhyStatus, ChipKeepsFramesWhole, ChipAsleep
<1> QED
  BY <1>1, TypeInit, TypeStep, FrameInit, FrameStep, PTL
     DEF Spec, ReportedFrameIsWhole

-----------------------------------------------------------------------------
(***************************************************************************)
(* A completion told to the upper layer is one that took place.            *)
(***************************************************************************)
(* The upper layer never stops what it has sent: no SLEEP, no reset, and   *)
(* no new frame from the TX_COMPLETE handler, nor from a TX_STARTED        *)
(* handler that runs inside it.                                            *)
LetsTransmissionsEnd ==
  /\ "sleep" \notin AllCalls
  /\ "reset" \notin AllCalls
  /\ "send" \notin TxCalls
  /\ "tx" \in TxCalls => "send" \notin StartCalls

(* A call of the upper layer, or the driver's start, is running and will   *)
(* return to back.                                                         *)
CallRunning ==
  \/ pc \in SendLabels \cup {"boot", "ts_cb"}
  \/ pc \in SetStateLabels /\ ret \notin {"relisten", "listen"}

(* The chip is sending, or about to, because it was commanded to.          *)
Started == air = "started" /\ goal = "SENDING"

CompletionInv ==
  /\ CallersAgree
  /\ pc \in {"boot", "tx_cb"} => ~txActive
  /\ CallRunning /\ back = "tx_cb" => ~txActive /\ "tx" \in TxCalls
  /\ txActive /\ air # "ended" =>
       /\ pc \in SetStateLabels => ret \in {"shr", "started"}
       /\ pc = "ss_done" /\ ret = "started" => Started
       /\ pc \notin {"boot"} \cup SendLabels \cup SetStateLabels => Started

LEMMA CompletionInit == Init => CompletionInv
BY DEF Init, CompletionInv, CallRunning, CallersAgree, SetStateLabels,
       SendLabels

LEMMA CompletionStep ==
  ASSUME LetsTransmissionsEnd
  PROVE  TypeOK /\ CompletionInv /\ [Next]_vars => CompletionInv'
<1> SUFFICES ASSUME TypeOK, CompletionInv, [Next]_vars
             PROVE  CompletionInv'
  OBVIOUS
<1>a. CallersAgree'
  BY CallersAgreeStep DEF CompletionInv
<1> DEFINE Pending == txActive /\ air # "ended"
           Rest ==
             /\ pc \in {"boot", "tx_cb"} => ~txActive
             /\ CallRunning /\ back = "tx_cb" => ~txActive /\ "tx" \in TxCalls
             /\ Pending =>
                  /\ pc \in SetStateLabels => ret \in {"shr", "started"}
                  /\ pc = "ss_done" /\ ret = "started" => Started
                  /\ pc \notin {"boot"} \cup SendLabels \cup SetStateLabels
                       => Started
<1> SUFFICES Rest'
  BY <1>a DEF CompletionInv
<1>b. Rest /\ CallersAgree
  BY DEF CompletionInv
<1>c. back \in BackLabels /\ ret \in RetLabels /\ ChipTypeOK
  BY DEF TypeOK
<1> HIDE DEF Rest
<1> USE DEF SetStateLabels, SendLabels, CallRunning, Started
<1>0. CASE UNCHANGED vars
  BY <1>0, <1>b DEF Rest, vars, driver, control, chip
<1>1. CASE NetdevInit
  BY <1>1, <1>b, CallSetStateCases DEF Rest, NetdevInit, DoReset
<1>2. CASE Send
  <2>1. MayCall("send") /\ (pc = "ts_cb" => back' = back) /\ (pc # "ts_cb" => back' = pc)
    BY <1>2, EnterCallCases DEF Send
  <2>2. back' # "tx_cb"
    <3>1. CASE pc = "ts_cb"
      BY <1>b, <2>1, <3>1 DEF Rest, MayCall, LetsTransmissionsEnd
    <3>2. CASE pc # "ts_cb"
      BY <2>1, <3>2 DEF MayCall, LetsTransmissionsEnd
    <3> QED
      BY <3>1, <3>2
  <2> QED
    BY <1>2, <2>2, CallSetStateCases DEF Rest, Send
<1>3. ~SetSleep /\ ~SetReset
  BY DEF SetSleep, SetReset, EnterCall, MayCall, AllCalls, LetsTransmissionsEnd
<1>4. CASE SetTx
  <2>1. MayCall("tx") /\ (pc = "ts_cb" => back' = back) /\ (pc # "ts_cb" => back' = pc)
    BY <1>4, EnterCallCases DEF SetTx
  <2>2. back' = "tx_cb" => ~txActive /\ "tx" \in TxCalls
    BY <1>b, <2>1 DEF Rest, MayCall
  <2> QED
    BY <1>4, <2>2, CallSetStateCases DEF Rest, SetTx, driver
<1>5. CASE WritePsdu
  BY <1>5, <1>b, CallSetStateCases DEF Rest, WritePsdu, driver
<1>6. CASE TxHandlerReturns
  BY <1>6, <1>b, CallSetStateCases DEF Rest, TxHandlerReturns, driver
<1>7. CASE RxResets
  BY <1>7, <1>b DEF Rest, RxResets, driver
<1>8. CASE WriteCommand
  <2>1. /\ pc = "ss_cmd" /\ pc' = "ss_done"
        /\ UNCHANGED <<txActive, cmd, ret, back>>
        /\ goal' = cmd
        /\ air = "ended" => air' = "ended"
    BY <1>8 DEF WriteCommand, Command, driver
  <2>2. ret = "started" => cmd = "SENDING"
    BY <1>b, <2>1 DEF CallersAgree
  <2>3. air' # "ended" /\ cmd = "SENDING" => air' = "started"
    BY <1>8 DEF WriteCommand, TypeOK, AirStates
  <2> QED
    BY <1>b, <2>1, <2>2, <2>3 DEF Rest
<1>9. CASE FinishSetState
  <2>1. /\ UNCHANGED <<txActive, air, goal, ret, back>>
        /\ pc = "ss_done"
        /\ AfterSetState
    BY <1>9 DEF FinishSetState, chip
  <2>2. CASE ret \in {"relisten", "listen"}
    BY <1>b, <2>1, <2>2, AfterSetStateCases DEF Rest
  <2>3. CASE ret = "shr"
    BY <1>b, <2>1, <2>3, AfterSetStateCases DEF Rest
  <2>4. CASE ret \in {"started", "back"}
    <3>1. pc' \in {"ts_cb", back}
      BY <2>1, <2>4, AfterSetStateCases
    <3>2. Pending => Started
      BY <1>b, <2>1, <2>4 DEF Rest
    <3>3. back = "tx_cb" => ~txActive /\ "tx" \in TxCalls
      BY <1>b, <2>1, <2>4 DEF Rest
    <3> QED
      BY <1>c, <2>1, <3>1, <3>2, <3>3 DEF Rest, BackLabels, CallbackLabels
  <2> QED
    BY <1>c, <2>2, <2>3, <2>4 DEF RetLabels
<1>10. CASE WriteShr \/ WritePhr
  BY <1>10, <1>b DEF Rest, WriteShr, WritePhr, driver
<1>11. CASE RxHandlerReturns \/ HandleIsr
  BY <1>11, <1>b DEF Rest, RxHandlerReturns, HandleIsr, chip, driver
<1>12. CASE TxStartedHandlerReturns
  BY <1>12, <1>b, <1>c, CallReturnsType
     DEF Rest, TxStartedHandlerReturns, chip, driver, BackLabels, CallbackLabels
<1>13. ASSUME NEW option \in Options, NEW on \in BOOLEAN, SetOption(option, on)
       PROVE  Rest'
  BY <1>13, <1>b DEF Rest, SetOption, control, chip
<1>14. ASSUME NEW fits \in BufferFits, Recv(fits)
       PROVE  Rest'
  <2>1. goal' = goal
    BY <1>14 DEF Recv, FifoDrain, chip
  <2> QED
    BY <1>14, <1>b, <2>1 DEF Rest, Recv, control, driver
<1>15. CASE TimerFires
  BY <1>15, <1>b DEF Rest, TimerFires, control, chip
<1>16. CASE Isr \/ IsrAfterRx
  <2>1. Pending => Started
    BY <1>16, <1>b DEF Rest, Isr, IsrAfterRx
  <2>2. UNCHANGED <<air, goal, back>>
    BY <1>16 DEF Isr, IsrAfterRx, TellRxEnd, IsrTail, chip
  <2>3. CASE TellRxEnd
    BY <2>1, <2>2, <2>3 DEF Rest, TellRxEnd, driver
  <2>4. CASE Relisten(PhyStatus)
    <3>1. ~Pending
      BY <1>c, <2>1, <2>4 DEF Relisten, PhyStatus, ChipTypeOK
    <3> QED
      BY <2>2, <2>4, <3>1, CallSetStateCases DEF Rest, Relisten
  <2>5. CASE TellTxEnd(PhyStatus)
    BY <2>2, <2>5 DEF Rest, TellTxEnd
  <2>6. CASE PollAgain(PhyStatus)
    BY <2>1, <2>2, <2>6 DEF Rest, PollAgain
  <2> QED
    BY <1>16, <2>3, <2>4, <2>5, <2>6 DEF Isr, IsrAfterRx, IsrTail
<1>17. CASE ChipStep
  <2>1. UNCHANGED <<driver, control>>
    BY <1>17 DEF ChipStep, TransmissionEnds
  <2>2. CASE TransmissionEnds
    BY <1>b, <2>1, <2>2 DEF Rest, TransmissionEnds, driver, control
  <2>3. CASE (Settle \/ RxStart \/ RxEnd) /\ UNCHANGED air
    <3>1. goal = "SENDING" => goal' = "SENDING"
      BY <1>c, <2>3 DEF Settle, RxStart, RxEnd, ChipTypeOK
    <3> QED
      BY <1>b, <2>1, <2>3, <3>1 DEF Rest, driver, control
  <2> QED
    BY <1>17, <2>2, <2>3 DEF ChipStep
<1> QED
  BY <1>0, <1>1, <1>2, <1>3, <1>4, <1>5, <1>6, <1>7, <1>8, <1>9, <1>10, <1>11,
     <1>12, <1>13, <1>14, <1>15, <1>16, <1>17
     DEF Next, Call, ThreadStep

(* tx_active never falls early: if the upper layer lets transmissions end, *)
(* a completion is told only after the chip has ended a transmission begun *)
(* since the latest send.                                                  *)
THEOREM CompletionCorrect ==
  ASSUME LetsTransmissionsEnd
  PROVE  Spec => CompletionIsTruthful
<1>1. TypeOK /\ CompletionInv /\ [Next]_vars => [txActive /\ ~txActive' => air = "ended"]_vars
  <2> SUFFICES ASSUME TypeOK, CompletionInv, Next, txActive, ~txActive'
               PROVE  air = "ended"
    OBVIOUS
  <2>1. Isr \/ IsrAfterRx
    BY DEF Next, NetdevInit, DoReset, Call, Send, SetSleep, SetTx, SetReset,
           SetOption, Recv, ThreadStep, RxResets, WriteCommand, FinishSetState,
           WriteShr, WritePhr, WritePsdu, RxHandlerReturns, TxHandlerReturns,
           TxStartedHandlerReturns, HandleIsr, TimerFires, ChipStep,
           TransmissionEnds, driver
  <2>2. TxIsOver(PhyStatus)
    BY <2>1 DEF Isr, IsrAfterRx, TellRxEnd, IsrTail, Relisten, TellTxEnd,
                PollAgain, driver
  <2>3. goal = "RECEIVING"
    BY <2>2 DEF TxIsOver, PhyStatus, TypeOK, ChipTypeOK
  <2> QED
    BY <2>1, <2>3 DEF CompletionInv, Started, Isr, IsrAfterRx, SendLabels,
                       SetStateLabels
<1> QED
  BY <1>1, TypeInit, TypeStep, CompletionInit, CompletionStep, PTL
     DEF Spec, CompletionIsTruthful

-----------------------------------------------------------------------------
(***************************************************************************)
(* What goes on the air                                                    *)
(***************************************************************************)
(* A chip on its way to SENDING has an empty FIFO; while the FIFO is being *)
(* loaded the chip is on its way to SLEEP.                                 *)
AirInv ==
  /\ CallersAgree
  /\ goal = "SENDING" => fifo = <<>>
  /\ pc = "ss_cmd" /\ cmd = "SENDING" => goal = "SLEEP" /\ fifo = <<>>
  /\ pc = "ss_done" /\ cmd = "SLEEP" => goal = "SLEEP"
  /\ pc \in SendLabels => goal = "SLEEP"

LEMMA AirInit == Init => AirInv
BY DEF Init, ChipInit, AirInv, CallersAgree, SetStateLabels, SendLabels

(* The chip never goes to SENDING, nor leaves SLEEP, uncommanded.          *)
LEMMA ChipStepKeepsGoal ==
  ASSUME ChipTypeOK, Settle \/ RxStart \/ RxEnd \/ TxEnd
  PROVE  /\ goal' = "SENDING" => goal = "SENDING" /\ fifo' = fifo
         /\ goal = "SLEEP" => goal' = "SLEEP" /\ fifo' = fifo
BY DEF ChipTypeOK, SettledStates, Settle, RxStart, RxEnd, TxEnd

LEMMA AirStep == TypeOK /\ AirInv /\ [Next]_vars => AirInv'
<1> SUFFICES ASSUME TypeOK, AirInv, [Next]_vars
             PROVE  AirInv'
  OBVIOUS
<1>a. CallersAgree'
  BY CallersAgreeStep DEF AirInv
<1> DEFINE Rest ==
             /\ goal = "SENDING" => fifo = <<>>
             /\ pc = "ss_cmd" /\ cmd = "SENDING" => goal = "SLEEP" /\ fifo = <<>>
             /\ pc = "ss_done" /\ cmd = "SLEEP" => goal = "SLEEP"
             /\ pc \in SendLabels => goal = "SLEEP"
<1> SUFFICES Rest'
  BY <1>a DEF AirInv
<1>b. Rest /\ CallersAgree
  BY DEF AirInv
<1>c. ChipTypeOK /\ back \in BackLabels /\ ret \in RetLabels
  BY DEF TypeOK
<1> HIDE DEF Rest
<1> USE DEF SendLabels
<1>0. CASE UNCHANGED vars
  BY <1>0, <1>b DEF Rest, vars, control, chip
<1>1. CASE NetdevInit \/ SetReset
  BY <1>1, CallSetStateCases DEF Rest, NetdevInit, SetReset, DoReset, ChipReset
<1>2. CASE Send \/ SetSleep \/ SetTx \/ TxHandlerReturns
  BY <1>2, <1>b, CallSetStateCases
     DEF Rest, Send, SetSleep, SetTx, TxHandlerReturns, chip
<1>3. CASE RxResets
  BY <1>3 DEF Rest, RxResets, ChipReset
<1>4. CASE WriteCommand
  BY <1>4, <1>b DEF Rest, WriteCommand, Command
<1>5. CASE FinishSetState
  <2>1. /\ pc = "ss_done" /\ AfterSetState
        /\ UNCHANGED <<sm, goal, fifo, cmd, ret>>
    BY <1>5 DEF FinishSetState, chip
  <2>2. ret = "shr" => goal = "SLEEP"
    BY <1>b, <2>1 DEF Rest, CallersAgree, SetStateLabels
  <2>3. /\ pc' \notin {"ss_cmd", "ss_done"}
        /\ pc' \in SendLabels => ret = "shr"
    BY <1>c, <2>1, AfterSetStateCases DEF BackLabels, CallbackLabels, RetLabels
  <2> QED
    BY <1>b, <2>1, <2>2, <2>3 DEF Rest
<1>6. CASE WriteShr \/ WritePhr \/ WritePsdu
  BY <1>6, <1>b, CallSetStateCases
     DEF Rest, WriteShr, WritePhr, WritePsdu, FifoWrite
<1>7. CASE RxHandlerReturns \/ HandleIsr
  BY <1>7, <1>b DEF Rest, RxHandlerReturns, HandleIsr, chip
<1>8. CASE TxStartedHandlerReturns
  BY <1>8, <1>b, <1>c, CallReturnsType
     DEF Rest, TxStartedHandlerReturns, BackLabels, CallbackLabels, chip
<1>9. ASSUME NEW option \in Options, NEW on \in BOOLEAN, SetOption(option, on)
      PROVE  Rest'
  BY <1>9, <1>b DEF Rest, SetOption, control, chip
<1>10. ASSUME NEW fits \in BufferFits, Recv(fits)
       PROVE  Rest'
  BY <1>10, <1>b DEF Rest, Recv, FifoDrain, control, chip
<1>11. CASE TimerFires
  BY <1>11, <1>b DEF Rest, TimerFires, control, chip
<1>12. CASE Isr \/ IsrAfterRx
  <2>1. UNCHANGED <<goal, fifo>>
    BY <1>12 DEF Isr, IsrAfterRx, IsrTail, TellRxEnd, chip
  <2>2. pc' \in BackLabels \cup {"ss_resets"}
    BY <1>12, CallSetStateCases
       DEF Isr, IsrAfterRx, IsrTail, TellRxEnd, Relisten, TellTxEnd, PollAgain,
           BackLabels, CallbackLabels
  <2> QED
    BY <1>b, <2>1, <2>2 DEF Rest, BackLabels, CallbackLabels
<1>13. CASE ChipStep
  <2>1. UNCHANGED control /\ (Settle \/ RxStart \/ RxEnd \/ TxEnd)
    BY <1>13 DEF ChipStep, TransmissionEnds
  <2> QED
    BY <1>b, <1>c, <2>1, ChipStepKeepsGoal DEF Rest, control
<1> QED
  BY <1>0, <1>1, <1>2, <1>3, <1>4, <1>5, <1>6, <1>7, <1>8, <1>9, <1>10, <1>11,
     <1>12, <1>13
     DEF Next, Call, ThreadStep

(* Whatever the upper layer does, a chip that sends has nothing to send:   *)
(* treufunk_tx_exec commands SENDING through treufunk_set_state, whose     *)
(* _rx_resets empties the FIFO that treufunk_tx_prepare and                *)
(* treufunk_tx_load have filled.                                           *)
THEOREM NothingIsAired == Spec => [](sm = "SENDING" => fifo = <<>>)
<1>1. TypeOK /\ AirInv => (sm = "SENDING" => fifo = <<>>)
  BY DEF AirInv, TypeOK, ChipTypeOK
<1> QED
  BY <1>1, TypeInit, TypeStep, AirInit, AirStep, PTL DEF Spec

=============================================================================
