------------------------- MODULE TreufunkLinkProofs -------------------------
(***************************************************************************)
(* The refinement of LinkContract, proved for every value of the constants *)
(* that describes an upper layer which sends at rest, fetches frames in    *)
(* its RX_COMPLETE handler and starts nothing else.                        *)
(***************************************************************************)
EXTENDS TreufunkLink, TreufunkTrafficProofs

SendsAtRest ==
  /\ Calls \subseteq {"send", "option"}
  /\ RxCalls \subseteq {"recv", "option"}
  /\ TxCalls \subseteq {"option"}
  /\ StartCalls \subseteq {"option"}

LEMMA SendsAtRestFacts ==
  ASSUME SendsAtRest
  PROVE  /\ LetsTransmissionsEnd
         /\ ~SetSleep /\ ~SetTx /\ ~SetReset
         /\ Send => pc = "idle"
         /\ \A fits \in BufferFits : Recv(fits) => pc = "rx_cb"
BY DEF SendsAtRest, LetsTransmissionsEnd, AllCalls, SetSleep, SetTx, SetReset,
       Send, Recv, EnterCall, MayCall

(* A send is under way in the driver.                                      *)
Unfinished ==
  \/ pc \in SendLabels
  \/ pc \in SetStateLabels /\ ret \in {"shr", "started"}

(* What FrameInv and CompletionInv leave open: calls come from rest only   *)
(* and are not nested, none of them puts the chip to SLEEP for good, a     *)
(* send is unsent until it commands SENDING, its FIFO writes find a chip   *)
(* that goes to sleep, and a frame on offer stays where it is.             *)
SendInv ==
  /\ back = "idle" /\ nested = 0
  /\ Settled => cmd # "SLEEP"
  /\ pc = "boot" => fifo = <<>> /\ sm = "SLEEP"
  /\ pc \in SetStateLabels /\ ret = "back" => cmd = "RECEIVING" /\ ~txActive
  /\ pc = "ss_resets" /\ ret = "back" => fifo = <<>> /\ sm = "SLEEP"
  /\ pc \in SetStateLabels /\ ret = "listen" => ~txActive
  /\ Unfinished => txActive
  /\ Unfinished /\ ~(pc = "ss_done" /\ ret = "started") => air = "unsent"
  /\ pc \in SendLabels => goal = "SLEEP"
  /\ pc = "ss_done" /\ ret = "shr" => goal = "SLEEP"
  /\ pc = "ss_resets" /\ ret = "started" => goal = "SLEEP"
  /\ goal = "SENDING" => fifo = <<>>
  /\ pc = "rx_cb" => sm = "SLEEP" /\ (fifo = <<>> \/ fifo = <<"frame">>)

LinkInv == FrameInv /\ CompletionInv /\ RelistenKeepsFrames /\ SendInv

LEMMA LinkInvInit == Init => LinkInv
<1>1. Init => SendInv
  BY DEF Init, ChipInit, SendInv, Settled, Unfinished, SetStateLabels, SendLabels
<1> QED
  BY <1>1, FrameInit, CompletionInit, RelistenInit DEF LinkInv

LEMMA SendStep ==
  ASSUME SendsAtRest, TypeOK, LinkInv, Next
  PROVE  SendInv'
<1>a. /\ SendInv
      /\ CallersAgree
      /\ RelistenKeepsFrames
      /\ pc \in {"boot", "tx_cb"} => ~txActive
      /\ pc = "ss_cmd" /\ cmd # "SLEEP" => sm = "SLEEP" /\ fifo = <<>>
      /\ pc \notin {"boot"} \cup SendLabels \cup SetStateLabels
           => ChipKeepsFramesWhole
  BY DEF LinkInv, SendInv, FrameInv, CompletionInv, Settled, SetStateLabels,
         SendLabels
<1>b. /\ cmd \in SettledStates
      /\ ret \in RetLabels
      /\ ChipTypeOK
  BY DEF TypeOK
<1> HIDE DEF LinkInv
<1> USE DEF SendInv, Settled, Unfinished, SetStateLabels, SendLabels
<1>1. CASE NetdevInit
  BY <1>1, <1>a, CallSetStateCases DEF NetdevInit, DoReset, ChipReset
<1>2. CASE Send
  <2>1. back' = "idle" /\ nested' = 0
    BY <1>2, <1>a, SendsAtRestFacts DEF Send, EnterCall
  <2> QED
    BY <1>2, <1>a, <2>1, SendsAtRestFacts, CallSetStateCases DEF Send, chip
<1>3. CASE RxResets
  BY <1>3, <1>a DEF RxResets, ChipReset, CallersAgree, driver
<1>4. CASE WriteCommand
  <2>1. /\ pc = "ss_cmd" /\ pc' = "ss_done"
        /\ UNCHANGED <<txActive, cmd, ret, back, nested, fifo>>
        /\ goal' = cmd
    BY <1>4 DEF WriteCommand, Command, driver
  <2>2. cmd = "SLEEP" => air' = air
    BY <1>4 DEF WriteCommand
  <2>3. /\ ret = "shr" => cmd = "SLEEP"
        /\ ret = "back" => cmd = "RECEIVING" /\ ~txActive
    BY <1>a, <2>1 DEF CallersAgree
  <2>4. ret # "shr" => cmd # "SLEEP"
    BY <1>a, <1>b, <2>1, <2>3 DEF CallersAgree, RetLabels
  <2> QED
    BY <1>a, <2>1, <2>2, <2>3, <2>4
<1>5. CASE FinishSetState
  <2>1. /\ pc = "ss_done" /\ AfterSetState
        /\ UNCHANGED <<txActive, cmd, ret, back, fifo, sm, goal, air>>
    BY <1>5 DEF FinishSetState, chip
  <2>2. \/ ret = "shr" /\ pc' = "shr"
        \/ ret # "shr" /\ pc' \in {"idle", "ts_cb"}
    BY <1>a, <1>b, <2>1, AfterSetStateCases DEF RetLabels
  <2>3. nested' = 0
    BY <1>a, <2>1 DEF AfterSetState, CallReturns
  <2> QED
    BY <1>a, <2>1, <2>2, <2>3
<1>6. CASE WriteShr \/ WritePhr
  <2>1. /\ pc \in {"shr", "phr"} /\ pc' \in {"phr", "psdu"}
        /\ UNCHANGED <<txActive, cmd, ret, back, nested, sm, goal, air>>
    BY <1>6 DEF WriteShr, WritePhr, FifoWrite, driver
  <2> QED
    BY <1>a, <2>1
<1>7. CASE WritePsdu
  BY <1>7, <1>a, CallSetStateCases DEF WritePsdu, FifoWrite, driver
<1>8. CASE HandleIsr
  BY <1>8, <1>a DEF HandleIsr, chip
<1>9. CASE RxHandlerReturns \/ TxStartedHandlerReturns
  BY <1>9, <1>a
     DEF RxHandlerReturns, TxStartedHandlerReturns, CallReturns, chip, driver
<1>10. CASE TxHandlerReturns
  BY <1>10, <1>a, CallSetStateCases DEF TxHandlerReturns, chip, driver
<1>11. ASSUME NEW option \in Options, NEW on \in BOOLEAN, SetOption(option, on)
       PROVE  SendInv'
  BY <1>11, <1>a DEF SetOption, control, chip
<1>12. ASSUME NEW fits \in BufferFits, Recv(fits)
       PROVE  SendInv'
  BY <1>12, <1>a, SendsAtRestFacts DEF Recv, FifoDrain, control, driver, chip
<1>13. CASE TimerFires
  BY <1>13, <1>a DEF TimerFires, control, chip
<1>14. CASE Isr \/ IsrAfterRx
  <2>1. UNCHANGED <<chip, back, nested, air>> /\ pc \in {"isr", "isr2"}
    BY <1>14 DEF Isr, IsrAfterRx, TellRxEnd, IsrTail
  <2>2. CASE TellRxEnd
    BY <1>a, <2>1, <2>2
       DEF TellRxEnd, FrameWaiting, PhyStatus, ChipKeepsFramesWhole, chip, driver
  <2>3. CASE Relisten(PhyStatus)
    BY <1>a, <2>1, <2>3, CallSetStateCases DEF Relisten, chip
  <2>4. CASE TellTxEnd(PhyStatus) \/ PollAgain(PhyStatus)
    BY <1>a, <2>1, <2>4 DEF TellTxEnd, PollAgain, chip
  <2> QED
    BY <1>14, <2>2, <2>3, <2>4 DEF Isr, IsrAfterRx, IsrTail
<1>15. CASE ChipStep
  <2>1. UNCHANGED <<driver, control>> /\ (air = "unsent" => air' = "unsent")
    BY <1>15 DEF ChipStep, TransmissionEnds
  <2>2. Settle \/ RxStart \/ RxEnd \/ TxEnd
    BY <1>15 DEF ChipStep, TransmissionEnds
  <2>3. goal = "SLEEP" => goal' = "SLEEP"
    BY <1>b, <2>2 DEF Settle, RxStart, RxEnd, TxEnd, ChipTypeOK
  <2>4. goal' = "SENDING" => goal = "SENDING" /\ fifo' = fifo
    BY <1>b, <2>2 DEF Settle, RxStart, RxEnd, TxEnd, ChipTypeOK, SettledStates
  <2>5. sm # "SLEEP"
    BY <2>2 DEF Settle, RxStart, RxEnd, TxEnd
  <2> QED
    BY <1>a, <2>1, <2>3, <2>4, <2>5 DEF driver, control
<1> QED
  BY <1>1, <1>2, <1>3, <1>4, <1>5, <1>6, <1>7, <1>8, <1>9, <1>10, <1>11, <1>12,
     <1>13, <1>14, <1>15, SendsAtRestFacts
     DEF Next, Call, ThreadStep

-----------------------------------------------------------------------------
(* The refinement mapping as cases, in a state and in the next one.        *)
LEMMA LinkTxCases ==
  /\ txActive /\ air = "ended" => LinkTx = "over"
  /\ txActive /\ air = "started" /\ sm = "SENDING" => LinkTx = "on_air"
  /\ txActive /\ air # "ended" /\ ~(air = "started" /\ sm = "SENDING")
       => LinkTx = "requested"
  /\ ~txActive /\ Closing => LinkTx = "closing"
  /\ ~txActive /\ ~Closing => LinkTx = "none"
BY DEF LinkTx

LEMMA LinkTxCasesNext ==
  /\ txActive' /\ air' = "ended" => LinkTx' = "over"
  /\ txActive' /\ air' = "started" /\ sm' = "SENDING" => LinkTx' = "on_air"
  /\ txActive' /\ air' # "ended" /\ ~(air' = "started" /\ sm' = "SENDING")
       => LinkTx' = "requested"
  /\ ~txActive' /\ Closing' => LinkTx' = "closing"
  /\ ~txActive' /\ ~Closing' => LinkTx' = "none"
BY DEF LinkTx

LEMMA LinkRxCases ==
  /\ fifo = <<>> => LinkRx = "none"
  /\ fifo = <<"part">> => LinkRx = "arriving"
  /\ fifo = <<"frame">> /\ pc = "rx_cb" => LinkRx = "offered"
  /\ fifo = <<"frame">> /\ pc # "rx_cb" => LinkRx = "waiting"
  /\ fifo # <<"part">> /\ fifo # <<"frame">> => LinkRx = "none"
BY DEF LinkRx

LEMMA LinkRxCasesNext ==
  /\ fifo' = <<>> => LinkRx' = "none"
  /\ fifo' = <<"part">> => LinkRx' = "arriving"
  /\ fifo' = <<"frame">> /\ pc' = "rx_cb" => LinkRx' = "offered"
  /\ fifo' = <<"frame">> /\ pc' # "rx_cb" => LinkRx' = "waiting"
  /\ fifo' # <<"part">> /\ fifo' # <<"frame">> => LinkRx' = "none"
BY DEF LinkRx

LEMMA LinkInitMaps == Init => Link!LinkInit
BY LinkTxCases, LinkRxCases DEF Init, ChipInit, Closing, Link!LinkInit

LEMMA LinkStepMaps ==
  ASSUME SendsAtRest, TypeOK, LinkInv, [Next]_vars
  PROVE  [Link!LinkNext]_(Link!link)
<1>a. /\ SendInv
      /\ CallersAgree
      /\ RelistenKeepsFrames
      /\ pc \in {"boot", "tx_cb"} => ~txActive
      /\ pc = "ss_cmd" /\ cmd # "SLEEP" => sm = "SLEEP" /\ fifo = <<>>
      /\ pc \notin {"boot"} \cup SendLabels \cup SetStateLabels
           => ChipKeepsFramesWhole
  BY DEF LinkInv, SendInv, FrameInv, CompletionInv, Settled, SetStateLabels,
         SendLabels
<1>b. /\ cmd \in SettledStates
      /\ ret \in RetLabels
      /\ ChipTypeOK
      /\ air \in AirStates
  BY DEF TypeOK
<1> HIDE DEF LinkInv
<1> USE LinkTxCases, LinkTxCasesNext, LinkRxCases, LinkRxCasesNext
<1> USE DEF Closing, SetStateLabels, SendLabels
<1>same. ASSUME UNCHANGED <<LinkTx, LinkRx>>
         PROVE  UNCHANGED Link!link
  BY <1>same DEF Link!link
<1>0. CASE UNCHANGED vars
  BY <1>0 DEF vars, chip, driver, control, Link!link, LinkTx, LinkRx
<1>1. CASE NetdevInit
  <2>1. LinkTx = "none" /\ LinkRx = "none"
    BY <1>1, <1>a DEF NetdevInit, SendInv
  <2>2. LinkTx' = "none" /\ LinkRx' = "none"
    BY <1>1, <1>a, CallSetStateCases DEF NetdevInit, DoReset, ChipReset
  <2> QED
    BY <2>1, <2>2, <1>same
<1>2. CASE Send
  <2>1. LinkTx' = "requested"
    BY <1>2 DEF Send
  <2>2. LinkRx' = LinkRx
    BY <1>2, SendsAtRestFacts, CallSetStateCases DEF Send, chip, LinkRx
  <2>3. LinkRx # "offered"
    BY <1>2, SendsAtRestFacts DEF LinkRx
  <2> QED
    BY <2>1, <2>2, <2>3 DEF Link!LinkNext, Link!Request
<1>3. CASE RxResets
  <2>1. LinkRx' = "none"
    BY <1>3 DEF RxResets, ChipReset
  <2>2. CASE ret \in {"relisten", "back"}
    <3>1. sm = "SLEEP" /\ fifo = <<>>
      BY <1>3, <1>a, <2>2 DEF RxResets, SendInv, RelistenKeepsFrames
    <3>2. LinkRx = "none"
      BY <3>1
    <3>3. LinkTx' = LinkTx
      BY <1>3, <3>1 DEF RxResets, ChipReset, driver, LinkTx
    <3> QED
      BY <2>1, <3>2, <3>3, <1>same
  <2>3. CASE ret = "listen"
    <3>1. LinkTx = "closing" /\ LinkTx' = "closing"
      BY <1>3, <1>a, <2>3 DEF RxResets, SendInv, driver
    <3> QED
      BY <2>1, <3>1 DEF Link!LinkNext, Link!Lose
  <2>4. CASE ret \in {"shr", "started"}
    <3>1. LinkTx = "requested" /\ LinkTx' = "requested"
      BY <1>3, <1>a, <2>4 DEF RxResets, SendInv, Unfinished, driver
    <3> QED
      BY <2>1, <3>1 DEF Link!LinkNext, Link!Lose
  <2> QED
    BY <1>b, <2>2, <2>3, <2>4 DEF RetLabels
<1>4. CASE WriteCommand
  <2>1. /\ pc = "ss_cmd" /\ pc' = "ss_done" /\ sm' = "BUSY"
        /\ UNCHANGED <<txActive, fifo, ret>>
        /\ air = "ended" <=> air' = "ended"
    BY <1>4, <1>b DEF WriteCommand, Command, driver, AirStates
  <2>2. LinkRx' = LinkRx
    BY <2>1 DEF LinkRx
  <2>3. air = "started" /\ sm = "SENDING" => ~txActive
    <3>1. CASE cmd = "SLEEP"
      <4>1. ret \in {"shr", "back"}
        BY <1>a, <1>b, <2>1, <3>1 DEF CallersAgree, RetLabels
      <4> QED
        BY <1>a, <2>1, <4>1 DEF SendInv, Unfinished
    <3>2. CASE cmd # "SLEEP"
      BY <1>a, <2>1, <3>2
    <3> QED
      BY <3>1, <3>2
  <2>4. LinkTx' = LinkTx
    BY <2>1, <2>3
  <2> QED
    BY <2>2, <2>4, <1>same
<1>5. CASE FinishSetState
  <2>1. /\ pc = "ss_done" /\ AfterSetState
        /\ UNCHANGED <<txActive, ret, fifo, sm, air>>
    BY <1>5 DEF FinishSetState, chip
  <2>2. pc' \in {"idle", "shr", "ts_cb"} /\ (ret = "listen" => pc' = "idle")
    BY <1>a, <1>b, <2>1, AfterSetStateCases DEF RetLabels, SendInv
  <2>3. LinkRx' = LinkRx
    BY <2>1, <2>2 DEF LinkRx
  <2>4. CASE ret = "listen"
    <3>1. LinkTx = "closing" /\ LinkTx' = "none"
      BY <1>a, <2>1, <2>2, <2>4 DEF SendInv
    <3> QED
      BY <2>3, <3>1 DEF Link!LinkNext, Link!Close
  <2>5. CASE ret # "listen"
    <3>1. LinkTx' = LinkTx
      BY <2>1, <2>2, <2>5
    <3> QED
      BY <2>3, <3>1, <1>same
  <2> QED
    BY <2>4, <2>5
<1>6. ASSUME NEW item, FifoWrite(item), pc \in SendLabels, pc' # "rx_cb",
             UNCHANGED <<txActive, air>>, item \in {"SHR", "PHR", "PSDU"}
      PROVE  [Link!LinkNext]_(Link!link)
  <2>1. LinkTx = "requested" /\ LinkTx' = "requested"
    BY <1>6, <1>a DEF SendInv, Unfinished
  <2>2. fifo' # <<"part">> /\ fifo' # <<"frame">>
    <3>1. fifo \in Seq(FifoItems) /\ item \in FifoItems
      BY <1>6, <1>b DEF ChipTypeOK, FifoItems
    <3>2. Len(fifo') = Len(fifo) + 1 /\ fifo'[Len(fifo) + 1] = item
      BY <1>6, <3>1 DEF FifoWrite
    <3>3. ASSUME NEW x \in {"part", "frame"}, fifo' = <<x>>
          PROVE  FALSE
      <4>1. Len(fifo) = 0
        BY <3>1, <3>2, <3>3
      <4>2. item = x
        BY <3>2, <3>3, <4>1
      <4> QED
        BY <1>6, <4>2
    <3> QED
      BY <3>3
  <2>3. LinkRx' = "none"
    BY <2>2
  <2> QED
    BY <2>1, <2>3 DEF Link!LinkNext, Link!Lose
<1>7. CASE WriteShr \/ WritePhr \/ WritePsdu
  BY <1>6, <1>7, CallSetStateCases DEF WriteShr, WritePhr, WritePsdu, driver
<1>8. CASE HandleIsr
  BY <1>8, <1>same DEF HandleIsr, chip, LinkTx, LinkRx
<1>9. CASE RxHandlerReturns
  <2>1. LinkTx' = LinkTx
    BY <1>9 DEF RxHandlerReturns, chip, driver, LinkTx
  <2>2. (LinkRx = "offered" /\ LinkRx' = "waiting") \/ LinkRx' = LinkRx
    BY <1>9, <1>a DEF RxHandlerReturns, chip, SendInv
  <2> QED
    BY <2>1, <2>2, <1>same DEF Link!LinkNext, Link!TurnDown
<1>10. CASE TxHandlerReturns
  <2>1. LinkTx = "closing" /\ LinkTx' = "closing"
    BY <1>10, <1>a, CallSetStateCases DEF TxHandlerReturns, driver
  <2>2. LinkRx' = LinkRx
    BY <1>10, CallSetStateCases DEF TxHandlerReturns, chip, LinkRx
  <2> QED
    BY <2>1, <2>2, <1>same
<1>11. CASE TxStartedHandlerReturns
  BY <1>11, <1>a, <1>same
     DEF TxStartedHandlerReturns, CallReturns, SendInv, chip, driver, LinkTx, LinkRx
<1>12. ASSUME NEW option \in Options, NEW on \in BOOLEAN, SetOption(option, on)
       PROVE  [Link!LinkNext]_(Link!link)
  BY <1>12, <1>same DEF SetOption, control, chip, LinkTx, LinkRx
<1>13. ASSUME NEW fits \in BufferFits, Recv(fits)
       PROVE  [Link!LinkNext]_(Link!link)
  <2>1. pc = "rx_cb" /\ UNCHANGED <<txActive, air, sm, pc, ret>>
    BY <1>13, SendsAtRestFacts DEF Recv, FifoDrain, control, driver, chip
  <2>2. LinkTx' = LinkTx
    BY <2>1 DEF LinkTx
  <2>3. fifo' = fifo \/ fifo' = <<>>
    BY <1>13 DEF Recv, FifoDrain, chip
  <2>4. LinkRx' = LinkRx \/ (LinkRx = "offered" /\ LinkRx' = "none")
    <3>1. CASE fifo' = fifo
      <4>1. LinkRx' = LinkRx
        BY <2>1, <3>1 DEF LinkRx
      <4> QED
        BY <4>1
    <3>2. CASE fifo = <<"frame">> /\ fifo' = <<>>
      BY <2>1, <3>2
    <3> QED
      BY <1>a, <2>1, <2>3, <3>1, <3>2 DEF SendInv
  <2> QED
    BY <2>2, <2>4, <1>same DEF Link!LinkNext, Link!Fetch
<1>14. CASE TimerFires
  BY <1>14, <1>same DEF TimerFires, control, chip, LinkTx, LinkRx
<1>15. CASE Isr \/ IsrAfterRx
  <2>1. UNCHANGED <<fifo, sm, air>> /\ pc \in {"isr", "isr2"}
    BY <1>15 DEF Isr, IsrAfterRx, TellRxEnd, IsrTail, chip
  <2>2. CASE TellRxEnd
    <3>1. LinkTx' = LinkTx
      BY <2>1, <2>2 DEF TellRxEnd, driver
    <3>2. fifo = <<"frame">>
      BY <1>a, <2>1, <2>2 DEF TellRxEnd, FrameWaiting, PhyStatus, ChipKeepsFramesWhole
    <3>3. LinkRx = "waiting" /\ LinkRx' \in {"waiting", "offered"}
      BY <2>1, <2>2, <3>2 DEF TellRxEnd
    <3> QED
      BY <3>1, <3>3, <1>same DEF Link!LinkNext, Link!Offer
  <2>3. CASE Relisten(PhyStatus) \/ PollAgain(PhyStatus)
    <3>1. /\ UNCHANGED txActive
          /\ pc' \in {"idle", "ss_resets"}
          /\ pc' = "ss_resets" => ret' = "relisten"
      BY <2>3, CallSetStateCases DEF Relisten, PollAgain
    <3>2. LinkTx' = LinkTx
      BY <2>1, <3>1
    <3>3. LinkRx' = LinkRx
      BY <2>1, <3>1 DEF LinkRx
    <3> QED
      BY <3>2, <3>3, <1>same
  <2>4. CASE TellTxEnd(PhyStatus)
    <3>1. /\ sm = "RECEIVING" /\ fifo = <<>> /\ txActive /\ ~txActive'
          /\ pc' \in {"tx_cb", "idle"}
      BY <2>4 DEF TellTxEnd, TxIsOver, PhyStatus
    <3>2. air = "ended"
      BY <1>b, <2>1, <3>1
         DEF LinkInv, CompletionInv, Started, ChipTypeOK
    <3>3. LinkTx = "over" /\ LinkTx' \in {"closing", "none"}
      BY <3>1, <3>2
    <3>4. LinkRx = "none" /\ LinkRx' = "none"
      BY <2>1, <3>1
    <3> QED
      BY <3>3, <3>4 DEF Link!LinkNext, Link!Complete
  <2> QED
    BY <1>15, <2>2, <2>3, <2>4 DEF Isr, IsrAfterRx, IsrTail
<1>16. CASE ChipStep
  <2>1. UNCHANGED <<driver, control>>
    BY <1>16 DEF ChipStep, TransmissionEnds
  <2>2. CASE Settle /\ UNCHANGED air
    <3>1. LinkRx' = LinkRx
      BY <2>1, <2>2 DEF Settle, control, LinkRx
    <3>2. LinkTx' = LinkTx \/ (LinkTx = "requested" /\ LinkTx' = "on_air")
      <4>1. CASE ~txActive
        <5>1. UNCHANGED <<txActive, pc, ret>>
          BY <2>1 DEF driver, control
        <5>2. LinkTx' = LinkTx
          BY <4>1, <5>1 DEF LinkTx
        <5> QED
          BY <5>2
      <4>2. CASE txActive
        <5>1. txActive' /\ sm # "SENDING" /\ air' = air
          BY <2>1, <2>2, <4>2 DEF Settle, driver
        <5>2. CASE air = "started" /\ sm' = "SENDING"
          BY <4>2, <5>1, <5>2
        <5>3. CASE ~(air = "started" /\ sm' = "SENDING")
          <6>1. LinkTx' = LinkTx
            BY <4>2, <5>1, <5>3
          <6> QED
            BY <6>1
        <5> QED
          BY <5>2, <5>3
      <4> QED
        BY <4>1, <4>2
    <3> QED
      BY <3>1, <3>2, <1>same DEF Link!LinkNext, Link!Start
  <2>3. CASE (RxStart \/ RxEnd) /\ UNCHANGED air
    <3>1. LinkTx' = LinkTx
      BY <1>b, <2>1, <2>3 DEF RxStart, RxEnd, driver, control, AirStates
    <3>2. pc # "rx_cb" /\ pc' # "rx_cb"
      BY <1>a, <2>1, <2>3 DEF SendInv, RxStart, RxEnd, control
    <3>3. \/ LinkRx = "none" /\ LinkRx' = "arriving"
          \/ LinkRx = "arriving" /\ LinkRx' = "waiting"
      BY <2>3, <3>2 DEF RxStart, RxEnd
    <3> QED
      BY <3>1, <3>3 DEF Link!LinkNext, Link!Arrive, Link!Whole
  <2>4. CASE TransmissionEnds
    <3>1. fifo = <<>> /\ fifo' = <<>>
      BY <1>a, <1>b, <2>4 DEF TransmissionEnds, TxEnd, SendInv, ChipTypeOK
    <3>2. LinkTx' = LinkTx \/ (LinkTx = "on_air" /\ LinkTx' = "over")
      <4>1. CASE ~txActive
        <5>1. UNCHANGED <<txActive, pc, ret>>
          BY <2>1 DEF driver, control
        <5>2. LinkTx' = LinkTx
          BY <4>1, <5>1 DEF LinkTx
        <5> QED
          BY <5>2
      <4>2. CASE txActive
        <5>1. txActive' /\ sm = "SENDING" /\ sm' = "RECEIVING"
          BY <2>1, <2>4, <4>2 DEF TransmissionEnds, TxEnd, driver
        <5>2. CASE air = "started"
          <6>1. air' = "ended"
            BY <2>4, <5>2 DEF TransmissionEnds
          <6> QED
            BY <4>2, <5>1, <5>2, <6>1
        <5>3. CASE air # "started"
          <6>1. air' = air
            BY <2>4, <5>3 DEF TransmissionEnds
          <6>2. LinkTx' = LinkTx
            BY <4>2, <5>1, <5>3, <6>1
          <6> QED
            BY <6>2
        <5> QED
          BY <5>2, <5>3
      <4> QED
        BY <4>1, <4>2
    <3>3. LinkRx' = LinkRx
      BY <3>1
    <3> QED
      BY <3>2, <3>3, <1>same DEF Link!LinkNext, Link!End
  <2> QED
    BY <1>16, <2>2, <2>3, <2>4 DEF ChipStep
<1>17. CASE Call
  BY <1>2, <1>12, <1>13, <1>17, SendsAtRestFacts DEF Call
<1>18. CASE ThreadStep
  BY <1>3, <1>4, <1>5, <1>7, <1>9, <1>10, <1>11, <1>15, <1>18 DEF ThreadStep
<1> QED
  BY <1>0, <1>1, <1>8, <1>14, <1>16, <1>17, <1>18 DEF Next

(* The inductive invariant, for an upper layer of this kind.               *)
LEMMA LinkInvStep ==
  ASSUME SendsAtRest
  PROVE  TypeOK /\ LinkInv /\ [Next]_vars => LinkInv'
<1> SUFFICES ASSUME TypeOK, LinkInv, [Next]_vars
             PROVE  LinkInv'
  OBVIOUS
<1>1. FrameInv' /\ CompletionInv' /\ RelistenKeepsFrames'
  BY SendsAtRestFacts, FrameStep, CompletionStep, RelistenStep DEF LinkInv
<1>2. SendInv'
  <2>1. CASE Next
    BY <2>1, SendStep
  <2>2. CASE UNCHANGED vars
    BY <2>2 DEF vars, chip, driver, control, LinkInv, SendInv, Settled, Unfinished
  <2> QED
    BY <2>1, <2>2
<1> QED
  BY <1>1, <1>2 DEF LinkInv

(* The polling driver implements the link contract.                        *)
THEOREM LinkRefined ==
  ASSUME SendsAtRest
  PROVE  Spec => ImplementsLink
<1>1. TypeOK /\ LinkInv /\ [Next]_vars => [Link!LinkNext]_(Link!link)
  BY LinkStepMaps
<1> QED
  BY <1>1, TypeInit, TypeStep, LinkInvInit, LinkInvStep, LinkInitMaps, PTL
     DEF Spec, ImplementsLink, Link!LinkSpec
=============================================================================
