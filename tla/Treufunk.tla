------------------------------ MODULE Treufunk ------------------------------
(***************************************************************************)
(* The control core of the Treufunk netdev driver: treufunk_set_state,     *)
(* the send path, _isr and its polling timer, running against the chip of  *)
(* TreufunkChip.  The chip has no interrupt line, so everything the driver *)
(* learns it learns by polling.                                            *)
(*                                                                         *)
(* One netdev thread runs the driver's functions.  Between two accesses to *)
(* the chip (one SPI transaction, or a run of them the chip cannot act     *)
(* between) the chip and the timer may move; pc names the next access.     *)
(* The timer callback only posts NETDEV_EVENT_ISR; the thread runs _isr    *)
(* when it takes the event from its queue.                                 *)
(***************************************************************************)
EXTENDS TreufunkChip

CONSTANTS
  Calls,      \* what the upper layer calls while no driver function runs
  RxCalls,    \* what it calls from its NETDEV_EVENT_RX_COMPLETE handler
  TxCalls,    \* what it calls from its NETDEV_EVENT_TX_COMPLETE handler
  StartCalls, \* what it calls from its NETDEV_EVENT_TX_STARTED handler
  Toggle,     \* the TREUFUNK_OPT_TELL_* options it switches on and off
  BufferFits, \* whether the buffer it gives to recv can hold the FIFO
  MaxIsr,     \* how many NETDEV_EVENT_ISR the thread's queue has room for
  MaxNested   \* bound: TX_STARTED handlers that wait for a call of their own

ApiCalls == {"send", "sleep", "tx", "reset", "option"}
Options == {"RX_START", "RX_END", "TX_START", "TX_END"}
EndOptions == {"RX_END", "TX_END"}

ASSUME ConstantsAssumption ==
  /\ Calls \subseteq ApiCalls
  /\ RxCalls \subseteq ApiCalls \cup {"recv"}
  /\ TxCalls \subseteq ApiCalls
  /\ StartCalls \subseteq ApiCalls
  /\ Toggle \subseteq Options
  /\ BufferFits \subseteq BOOLEAN
  /\ MaxIsr \in Nat \ {0}
  /\ MaxNested \in Nat

VARIABLES
  flags,     \* dev->netdev.flags, the options in force
  txActive,  \* dev->tx_active
  devState,  \* dev->state
  timer,     \* dev->poll_timer is armed
  isrs,      \* NETDEV_EVENT_ISR posted and not yet handled
  pc,        \* next access of the running driver function
  cmd,       \* state argument of the latest treufunk_set_state
  ret,       \* where that treufunk_set_state returns to
  back,      \* where the outermost upper-layer call returns to
  nested,    \* TX_STARTED handlers that wait for a call of their own
  air        \* history: how far the latest send has got on the air

driver == <<flags, txActive, devState, timer, isrs>>
control == <<pc, cmd, ret, back, nested>>
vars == <<chip, driver, control, air>>

(* The latest send is still in the driver, or the chip was commanded to    *)
(* SENDING for it, or a transmission so started has ended.                 *)
AirStates == {"unsent", "started", "ended"}

CallbackLabels == {"rx_cb", "tx_cb"}
BackLabels == {"idle"} \cup CallbackLabels
RetLabels == {"relisten", "listen", "shr", "started", "back"}
Labels ==
  BackLabels \cup {"boot", "isr", "isr2", "ss_resets", "ss_cmd", "ss_done",
                   "shr", "phr", "psdu", "ts_cb"}

Init ==
  /\ ChipInit
  /\ flags = {}
  /\ txActive = FALSE
  /\ devState = "SLEEP"
  /\ timer = FALSE
  /\ isrs = 0
  /\ pc = "boot"
  /\ cmd = "SLEEP"
  /\ ret = "back"
  /\ back = "idle"
  /\ nested = 0
  /\ air = "unsent"

-----------------------------------------------------------------------------
(***************************************************************************)
(* treufunk_set_state                                                      *)
(***************************************************************************)
CallSetState(s, r) ==
  /\ cmd' = s
  /\ ret' = r
  /\ pc' = IF s \in {"RECEIVING", "SENDING"} THEN "ss_resets" ELSE "ss_cmd"

(* _rx_resets: FIFO, state machine and demodulator.                        *)
RxResets ==
  /\ pc = "ss_resets"
  /\ ChipReset
  /\ pc' = "ss_cmd"
  /\ UNCHANGED <<driver, cmd, ret, back, nested, air>>

WriteCommand ==
  /\ pc = "ss_cmd"
  /\ Command(cmd)
  /\ air' = IF cmd = "SENDING" /\ air = "unsent" THEN "started" ELSE air
  /\ pc' = "ss_done"
  /\ UNCHANGED <<driver, cmd, ret, back, nested>>

(* A call of the upper layer returns: to the TX_STARTED handler that made  *)
(* it, or to where the outermost one was made.                             *)
CallReturns ==
  IF nested > 0
  THEN pc' = "ts_cb" /\ nested' = nested - 1
  ELSE pc' = back /\ UNCHANGED nested

(* Where control goes after treufunk_set_state: out of _isr ("relisten"    *)
(* and "listen"), on to the FIFO writes of a send, to the TX_STARTED event *)
(* that ends treufunk_tx_exec if it is asked for, or out of the call.      *)
AfterSetState ==
  \/ ret \in {"relisten", "listen"} /\ pc' = "idle" /\ UNCHANGED nested
  \/ ret = "shr" /\ pc' = "shr" /\ UNCHANGED nested
  \/ ret = "started" /\ "TX_START" \in flags /\ pc' = "ts_cb" /\ UNCHANGED nested
  \/ ret = "started" /\ "TX_START" \notin flags /\ CallReturns
  \/ ret = "back" /\ CallReturns

(* A slip: polling is started for RX only.                                 *)
Faulty_FinishSetState ==
  /\ pc = "ss_done"
  /\ devState' = sm
  /\ timer' = IF cmd = "RECEIVING" THEN TRUE ELSE IF cmd = "SLEEP" THEN FALSE ELSE timer
  /\ AfterSetState
  /\ UNCHANGED <<chip, flags, txActive, isrs, cmd, ret, back, air>>

(* SM_COMMAND back to NONE without waiting for the transition, dev->state  *)
(* read back, timer armed for RX and TX and removed for SLEEP.             *)
FinishSetState ==
  /\ pc = "ss_done"
  /\ devState' = sm
  /\ timer' = (cmd # "SLEEP")
  /\ AfterSetState
  /\ UNCHANGED <<chip, flags, txActive, isrs, cmd, ret, back, air>>

-----------------------------------------------------------------------------
(***************************************************************************)
(* Calls of the upper layer: when idle, or from inside an event handler.   *)
(***************************************************************************)
MayCall(op) ==
  \/ pc = "idle" /\ op \in Calls
  \/ pc = "rx_cb" /\ op \in RxCalls
  \/ pc = "tx_cb" /\ op \in TxCalls
  \/ pc = "ts_cb" /\ op \in StartCalls

(* A call that runs treufunk_set_state.  The TX_STARTED handler runs in    *)
(* the middle of a call; one that calls waits for that call, too.          *)
EnterCall(op) ==
  /\ MayCall(op)
  /\ \/ /\ pc = "ts_cb"
        /\ nested < MaxNested
        /\ nested' = nested + 1
        /\ UNCHANGED back
     \/ /\ pc # "ts_cb"
        /\ back' = pc
        /\ UNCHANGED nested

(* _send of a frame that fits TREUFUNK_MAX_PKT_LENGTH (a longer one is     *)
(* refused before anything is touched): treufunk_tx_prepare marks the      *)
(* transmission and commands SLEEP.                                        *)
Send ==
  /\ EnterCall("send")
  /\ txActive' = TRUE
  /\ air' = "unsent"
  /\ CallSetState("SLEEP", "shr")
  /\ UNCHANGED <<chip, flags, devState, timer, isrs>>

(* The rest of treufunk_tx_prepare: SHR and PHR into the FIFO.             *)
WriteShr ==
  /\ pc = "shr"
  /\ FifoWrite("SHR")
  /\ pc' = "phr"
  /\ UNCHANGED <<driver, cmd, ret, back, nested, air>>

WritePhr ==
  /\ pc = "phr"
  /\ FifoWrite("PHR")
  /\ pc' = "psdu"
  /\ UNCHANGED <<driver, cmd, ret, back, nested, air>>

(* treufunk_tx_load of the payload, then treufunk_tx_exec.                 *)
WritePsdu ==
  /\ pc = "psdu"
  /\ FifoWrite("PSDU")
  /\ CallSetState("SENDING", "started")
  /\ UNCHANGED <<driver, back, nested, air>>

(* NETOPT_STATE_SLEEP                                                      *)
SetSleep ==
  /\ EnterCall("sleep")
  /\ CallSetState("SLEEP", "back")
  /\ UNCHANGED <<chip, driver, air>>

(* NETOPT_STATE_TX: treufunk_tx_exec alone.                                *)
SetTx ==
  /\ EnterCall("tx")
  /\ CallSetState("SENDING", "started")
  /\ UNCHANGED <<chip, driver, air>>

(* treufunk_reset: default options, every register of the chip, then RX.   *)
(* The chip is held in reset until the final command, and neither          *)
(* tx_active nor the timer is touched on the way.                          *)
DoReset ==
  /\ flags' = EndOptions
  /\ ChipReset
  /\ CallSetState("RECEIVING", "back")
  /\ UNCHANGED <<txActive, devState, timer, isrs, air>>

(* _init after treufunk_setup, once the chip id has been read correctly.   *)
NetdevInit ==
  /\ pc = "boot"
  /\ DoReset
  /\ UNCHANGED <<back, nested>>

(* NETOPT_STATE_RESET                                                      *)
SetReset ==
  /\ EnterCall("reset")
  /\ DoReset

(* NETOPT_{RX,TX}_{START,END}_IRQ                                          *)
SetOption(option, on) ==
  /\ MayCall("option")
  /\ option \in Toggle
  /\ flags' = IF on THEN flags \cup {option} ELSE flags \ {option}
  /\ UNCHANGED <<chip, txActive, devState, timer, isrs, control, air>>

(* _recv: a FIFO that does not fit the buffer is left as it is.            *)
Recv(fits) ==
  /\ MayCall("recv")
  /\ IF fits THEN FifoDrain ELSE UNCHANGED chip
  /\ UNCHANGED <<driver, control, air>>

-----------------------------------------------------------------------------
(***************************************************************************)
(* The polling timer and _isr                                              *)
(***************************************************************************)
(* _irq_handler, called when the one-shot timer expires.  An event posted  *)
(* to a full queue is lost, and nobody is told.                            *)
TimerFires ==
  /\ timer
  /\ timer' = FALSE
  /\ isrs' = IF isrs < MaxIsr THEN isrs + 1 ELSE isrs
  /\ UNCHANGED <<chip, flags, txActive, devState, control, air>>

(* A slip: _isr is run again for an event that is already handled.         *)
Faulty_HandleIsr ==
  /\ pc = "idle"
  /\ isrs' = isrs - 1
  /\ pc' = "isr"
  /\ UNCHANGED <<chip, flags, txActive, devState, timer, cmd, ret, back, nested, air>>

(* The thread takes NETDEV_EVENT_ISR from its queue and calls _isr.        *)
HandleIsr ==
  /\ pc = "idle"
  /\ isrs > 0
  /\ isrs' = isrs - 1
  /\ pc' = "isr"
  /\ UNCHANGED <<chip, flags, txActive, devState, timer, cmd, ret, back, nested, air>>

(* A slip: the transmission is taken as finished while it is under way.    *)
Faulty_TxIsOver(phy) == phy.sm # "SLEEP" /\ phy.empty /\ txActive

(* RX resumed by DIRECT_RX with nothing received yet.                      *)
TxIsOver(phy) == phy.sm = "RECEIVING" /\ phy.empty /\ txActive

(* A slip: the FIFO is not looked at before going back to RX.              *)
Faulty_Relisten(phy) ==
  /\ phy.sm = "SLEEP"
  /\ CallSetState("RECEIVING", "relisten")
  /\ UNCHANGED <<txActive, timer>>

(* Asleep with nothing left to fetch: listen again.                        *)
Relisten(phy) ==
  /\ phy.sm = "SLEEP"
  /\ phy.empty
  /\ CallSetState("RECEIVING", "relisten")
  /\ UNCHANGED <<txActive, timer>>

(* A slip: tx_active is left set after the event.                          *)
Faulty_TellTxEnd(phy) ==
  /\ TxIsOver(phy)
  /\ pc' = IF "TX_END" \in flags THEN "tx_cb" ELSE "idle"
  /\ UNCHANGED <<txActive, timer, cmd, ret>>

(* TX_END: told to the upper layer if it asked for it; if it did not, _isr *)
(* returns without arming the timer.                                       *)
TellTxEnd(phy) ==
  /\ TxIsOver(phy)
  /\ txActive' = FALSE
  /\ pc' = IF "TX_END" \in flags THEN "tx_cb" ELSE "idle"
  /\ UNCHANGED <<timer, cmd, ret>>

(* A slip: the one-shot timer is taken for a periodic one.                 *)
Faulty_PollAgain(phy) ==
  /\ ~(phy.sm = "SLEEP" /\ phy.empty)
  /\ ~TxIsOver(phy)
  /\ pc' = "idle"
  /\ UNCHANGED <<timer, txActive, cmd, ret>>

(* Nothing to do: the timer is armed again.                                *)
PollAgain(phy) ==
  /\ ~(phy.sm = "SLEEP" /\ phy.empty)
  /\ ~TxIsOver(phy)
  /\ timer' = TRUE
  /\ pc' = "idle"
  /\ UNCHANGED <<txActive, cmd, ret>>

(* What _isr does once a waiting frame has been seen to.                   *)
IsrTail(phy) ==
  /\ Relisten(phy) \/ TellTxEnd(phy) \/ PollAgain(phy)
  /\ UNCHANGED <<chip, flags, devState, isrs, back, nested, air>>

(* A slip: data in the FIFO of a chip that is still receiving counts.      *)
Faulty_FrameWaiting(phy) == phy.sm \in {"SLEEP", "RECEIVING"} /\ ~phy.empty

FrameWaiting(phy) == phy.sm = "SLEEP" /\ ~phy.empty

(* RX_END: told to the upper layer if it asked for it; if it did not, _isr *)
(* returns without arming the timer.                                       *)
TellRxEnd ==
  /\ FrameWaiting(PhyStatus)
  /\ pc' = IF "RX_END" \in flags THEN "rx_cb" ELSE "idle"
  /\ UNCHANGED <<chip, driver, cmd, ret, back, nested, air>>

(* The first phy_status read of _isr ...                                   *)
Isr ==
  /\ pc = "isr"
  /\ \/ TellRxEnd
     \/ ~FrameWaiting(PhyStatus) /\ IsrTail(PhyStatus)

(* ... and the second one, after the RX_COMPLETE handler.                  *)
IsrAfterRx ==
  /\ pc = "isr2"
  /\ IsrTail(PhyStatus)

(* A slip: the RX_COMPLETE event is taken for the last thing _isr does.    *)
Faulty_RxHandlerReturns ==
  /\ pc = "rx_cb"
  /\ pc' = "idle"
  /\ UNCHANGED <<chip, driver, cmd, ret, back, nested, air>>

(* The upper layer's event handler returns.  After TX_COMPLETE _isr puts   *)
(* the chip back into RX, whatever the handler did.                        *)
RxHandlerReturns ==
  /\ pc = "rx_cb"
  /\ pc' = "isr2"
  /\ UNCHANGED <<chip, driver, cmd, ret, back, nested, air>>

TxHandlerReturns ==
  /\ pc = "tx_cb"
  /\ CallSetState("RECEIVING", "listen")
  /\ UNCHANGED <<chip, driver, back, nested, air>>

TxStartedHandlerReturns ==
  /\ pc = "ts_cb"
  /\ CallReturns
  /\ UNCHANGED <<chip, driver, cmd, ret, back, air>>

-----------------------------------------------------------------------------
(* The end of an earlier transmission, on the air when the latest send     *)
(* began, is not the end of what that send asked for.                      *)
TransmissionEnds ==
  /\ TxEnd
  /\ air' = IF air = "started" THEN "ended" ELSE air
  /\ UNCHANGED <<driver, control>>

ChipStep ==
  \/ (Settle \/ RxStart \/ RxEnd) /\ UNCHANGED <<driver, control, air>>
  \/ TransmissionEnds

Call ==
  \/ Send
  \/ SetSleep
  \/ SetTx
  \/ SetReset
  \/ \E option \in Options, on \in BOOLEAN : SetOption(option, on)
  \/ \E fits \in BufferFits : Recv(fits)

(* The steps the netdev thread takes without being asked again.            *)
ThreadStep ==
  \/ RxResets \/ WriteCommand \/ FinishSetState
  \/ WriteShr \/ WritePhr \/ WritePsdu
  \/ Isr \/ IsrAfterRx
  \/ RxHandlerReturns \/ TxHandlerReturns \/ TxStartedHandlerReturns

Next ==
  \/ NetdevInit
  \/ Call
  \/ ThreadStep
  \/ HandleIsr
  \/ TimerFires
  \/ ChipStep

Spec == Init /\ [][Next]_vars

(* The thread and the chip go on, an armed timer expires, and the event    *)
(* queue is first come first served, so that NETDEV_EVENT_ISR is handled   *)
(* however often the upper layer calls.  Nobody has to call or to send     *)
(* anything over the air; a handler that is told of frames again and again *)
(* fetches one sooner or later.                                            *)
Fairness ==
  /\ WF_vars(NetdevInit)
  /\ WF_vars(ThreadStep)
  /\ WF_vars(TimerFires)
  /\ SF_vars(HandleIsr)
  /\ SF_vars(Recv(TRUE))
  /\ WF_vars((Settle \/ RxEnd) /\ UNCHANGED <<driver, control, air>>)
  /\ WF_vars(TransmissionEnds)

FairSpec == Spec /\ Fairness

-----------------------------------------------------------------------------
(***************************************************************************)
(* Properties                                                              *)
(***************************************************************************)
(* Every variable keeps its type, and chip states and labels keep theirs.  *)
TypeOK ==
  /\ ChipTypeOK
  /\ flags \subseteq Options
  /\ txActive \in BOOLEAN
  /\ devState \in SmStates
  /\ timer \in BOOLEAN
  /\ isrs \in 0 .. MaxIsr
  /\ pc \in Labels
  /\ cmd \in SettledStates
  /\ ret \in RetLabels
  /\ back \in BackLabels
  /\ nested \in 0 .. MaxNested
  /\ air \in AirStates

(* Polling is all the driver has: whenever no driver function runs and the *)
(* last state it commanded is not SLEEP, the timer is armed or its event   *)
(* is on the way to _isr.                                                  *)
PollingAlive == pc = "idle" /\ cmd # "SLEEP" => timer \/ isrs > 0

(* When _isr goes back to RX because the FIFO has been emptied, the FIFO   *)
(* reset on the way throws nothing away that arrived in the meantime.      *)
RelistenKeepsFrames ==
  pc = "ss_resets" /\ ret = "relisten" => sm = "SLEEP" /\ fifo = <<>>

(* RX_COMPLETE announces one whole received frame, and never bytes the     *)
(* driver itself wrote.  Only a SLEEP from above, still in force, may have *)
(* cut the reception short of which _isr tells.                            *)
ReportedFrameIsWhole ==
  [][pc = "isr" /\ pc' = "rx_cb" =>
       fifo = <<"frame">> \/ (fifo = <<"part">> /\ cmd = "SLEEP")]_vars

(* tx_active falls, and TX_COMPLETE is told, only after the chip has ended *)
(* a transmission that was started by or after the latest send.            *)
CompletionIsTruthful == [][txActive /\ ~txActive' => air = "ended"]_vars

(* After treufunk_set_state(SLEEP) the polling timer stays removed.        *)
SleepStopsPolling == pc = "idle" /\ cmd = "SLEEP" => ~timer

(* What goes on the air is the frame that was loaded: SHR, PHR and PSDU.   *)
FrameIsAired == sm = "SENDING" => fifo = <<"SHR", "PHR", "PSDU">>

(* A frame that waits in the FIFO of a sleeping chip is told to the upper  *)
(* layer, unless the upper layer throws it away or puts the chip to sleep. *)
FrameReported ==
  fifo = <<"frame">> /\ cmd # "SLEEP"
    ~> pc = "rx_cb" \/ fifo # <<"frame">> \/ cmd = "SLEEP"

(* When the upper layer starts no more transmissions and the air falls     *)
(* silent, the last transmission is recognised as complete.                *)
CompletionReported ==
  <>[][~Send /\ ~SetTx /\ ~RxStart]_vars => (txActive ~> ~txActive)

(* When the upper layer starts no more transmissions, the chip listens     *)
(* again and again, however many frames arrive.                            *)
ListensAgain == <>[][~Send /\ ~SetTx]_vars => []<>(sm = "RECEIVING")

=============================================================================
