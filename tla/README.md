# A verification of the Treufunk netdev driver

`src/` is a RIOT `netdev` driver in C for the Treufunk (LPRF) IEEE 802.15.4
transceiver. The chip has no interrupt line: a one-shot timer makes the driver
poll a status byte every 5 ms, and everything the driver tells the network
stack it infers from that byte and from what it remembers of its own calls.
These TLA+ modules model the driver and what it relies on in the chip; TLC
checks them on small instances and TLAPS proves the central properties for
every instance.

## 1. Inventory

| Component | Where | State | Operations |
|---|---|---|---|
| netdev interface and polling | `treufunk_netdev.c` | `netdev.flags`, `tx_active`, the queued `NETDEV_EVENT_ISR` | `_init`, `_isr`, `_send`, `_recv`, `_get`, `_set`, `_irq_handler` |
| state control | `treufunk_getset.c` 82-214 | `dev->state`, `poll_timer` | `treufunk_set_state`, `_rx_resets`, `treufunk_get_state` |
| send path and reset | `treufunk.c` | `tx_active`, options, the chip's registers | `treufunk_setup`, `treufunk_reset`, `treufunk_tx_prepare`, `_load`, `_exec` |
| receive decoder | `treufunk_netdev.c` 172-314 | the caller's buffer | `_find_SFD_and_shift_data`, `_recv` |
| channel and PLL | `treufunk_getset.c` 216-311 | `netdev.chan`, nine registers | `treufunk_set_chan`, `_calculate_pll_values`, `_calc_vco_tune` |
| transmit power | `treufunk_getset.c` 62-80 | one register field | `treufunk_get_txpower`, `treufunk_set_txpower` |
| register and FIFO access | `treufunk_internal.c`, `include/*registers*` | the chip's registers | `reg_read/write`, `sub_reg_read/write`, `fifo_read/write`, `get_phy_status` |
| reset register table | `treufunk.c` 88-261 | the chip's registers | the hundred writes of `treufunk_reset` |
| addresses, PAN id | `treufunk_getset.c` 18-60 | fields of the descriptor | getters and setters |
| test program | `test/main.c` | none | initialises one device; its event callback calls `_isr` |
| the chip (external) | hardware | state machine, FIFO | reception, transmission, `DIRECT_RX` |
| the network stack (external) | RIOT | one event queue, one thread | calls the driver, handles its events |

**Interaction.** One netdev thread runs all driver functions. The timer's
callback posts `NETDEV_EVENT_ISR`; the thread takes it and runs `_isr`. `_isr`
calls the stack back with `RX_COMPLETE` and `TX_COMPLETE` *in the middle of
itself*, and the handler may call the driver again: fetch the frame, send,
sleep, reset. `treufunk_tx_exec` calls it back with `TX_STARTED` in the same way,
so that calls nest. The chip runs concurrently with all of it and moves between any
two SPI transactions.

**What is hard here.** The chip moves after the status byte was read and before
it is acted on; a handler changes the driver's state under the feet of `_isr`;
a timer has expired when it is removed; every path through `_isr` has to arm
the one-shot timer or the driver is deaf for good; an event posted to a full
queue is lost; completion is inferred, not
signalled; the FIFO is reset as part of commanding RX and TX; a reset of the
chip leaves cached values behind. `PROJECT.json` lists these hazards at their
lines. Nothing is persisted and there are no messages between drivers, so crash
recovery and unreliable delivery do not arise.

**What makes each component correct.** The driver: polling never stops while
the chip is meant to listen; the FIFO reset on the way back to listening finds
a FIFO that has been emptied, when `_isr` goes there because it was (108-111; the
other return to RX, 127, may lose a frame); `RX_COMPLETE` stands for a whole frame and `TX_COMPLETE` for a transmission that
ended; what was loaded goes on the air; `SLEEP` stops the polling. The decoder:
what was sent comes out, byte for byte, or nothing, and only the caller's buffer
is written. The registers: a write changes the field it names and nothing else,
what `treufunk_reset` configured stays configured, a state command finds a state
machine that can obey it. The channel: the chip is tuned to the channel the
driver names.

## 2. Modules

| Module | Models | Correspondence |
|---|---|---|
| `TreufunkChip` | the chip | `sm` is the state field of `phy_status`, `goal` the target of a `BUSY` transition, `fifo` the FIFO's content told apart as received part / whole frame / SHR / PHR / PSDU |
| `Treufunk` | the driver | extends the chip; one action per chip access; `pc` names the next one, `ret` where the running `treufunk_set_state` returns, `back` where the outermost running call returns, `nested` how many TX_STARTED handlers wait for a call of their own. `flags`, `txActive`, `devState`, `timer` are the descriptor's fields; `isrs` counts queued events; `air` is a history variable |
| `LinkContract` | what the layer above may count on | life of a transmission and of a received frame |
| `TreufunkLink` | the refinement mapping | `INSTANCE LinkContract WITH` the two lives read off driver and chip |
| `TreufunkFrames`, `MCFrames` | bytes of a frame | sender's frame, late and damaged stream, `_recv` on a buffer; `MCFrames` gives TLC its payloads |
| `TreufunkTuning` | PLL and VCO arithmetic | in MHz, products split to stay in 32 bits |
| `TreufunkRegisters` | register file | a byte is the set of its bits, so masks and shifts are set operations; the sub-register table of the header; the read-only list |
| `TreufunkConfig` | all that is written into registers | extends the two above; `todo` is what the running function has still to write, `WriteNext` one write with its read; reset, state commands, channel and power fill `todo` |
| `MCConfig` | register files after a reset | gives TLC its `ResetImages` |
| `*Proofs` | theorems | section 5 |

Definitions whose name begins with `Faulty_` are slips a programmer might have
made. No specification uses them: substituted one at a time for the definition
of the same name, each makes TLC report the property it is paired with in
`PROJECT.json`, which shows that the property is not vacuous.

Choices made in translating:

* In `Treufunk`, `_rx_resets` is one step. Between its first write (`SM_MAIN = 0x05`) and its
  last the chip is held in reset and cannot move; the demodulator reset that
  follows does not concern `sm` or the FIFO.
* The command is given in one step, and `STATE_CMD_NONE`, the read back into
  `dev->state` and the timer call form the next: the code does not wait for the
  transition, so the chip may settle, or not, in between.
* In `Treufunk`, `treufunk_reset` is one step up to its
  `treufunk_set_state(RECEIVING)`: the chip is in reset from `GLOBAL_RESETB = 0`
  on, and `SM_EN`, the pulses on `FIFO_RESETB` and `SM_RESETB` end the sequence.
  That `RETURN_ON_ERROR` never ends it early, and that the command at its end
  finds an enabled machine, is what `TreufunkConfig` shows with
  `ConfigurationKept` and `CommandsReachMachine`, where every write is a step.
* `TreufunkConfig` has the read and the write of a sub-register in one step: only
  the netdev thread writes these registers, and none of them is one the chip
  changes by itself. What the registers hold after a global reset is unknown:
  `ResetImages` is any set of register files. `DEM_FREQ_OFFSET_OUT` and the other
  outputs cannot be written and have no field.
* A call may come at rest, from the RX_COMPLETE and TX_COMPLETE handlers inside
  `_isr` and from the TX_STARTED handler inside `treufunk_tx_exec`
  (`treufunk.c` 342-346). A call from the last one is nested in the call that
  started the transmission: `EnterCall` and `CallReturns` count how deep, up to
  `MaxNested`.
* `TimerFires` posts `NETDEV_EVENT_ISR` to a queue that has room for `MaxIsr`
  events; a timer that expires when it is full loses its event, because
  `_irq_handler` asks nobody whether the message was accepted.
* A `_send` that is too long is refused before anything is touched and has no
  action. `TELL_RX_START` has no effect anywhere and is a flag like the others.
* The chip's assumed behaviour is stated in `TreufunkChip`: a reception ends in
  SLEEP, a transmission ends in RX (`DIRECT_RX`), a command starts a transition
  without touching the FIFO, SM_RESETB low brings the state machine to SLEEP.
  This is what the driver's code and comments presuppose, not a data sheet. That SLEEP
  leaves in the FIFO what had arrived of a frame is why `ReportedFrameIsWhole` has
  an exception.
* A transmission ends even if the FIFO was empty when it began. Assuming less
  of the chip would hide `FrameIsAired` behind a stall.
* In `TreufunkFrames` the receiver has used up one preamble byte and hands the
  rest over 0, 1 or 2 bits late, bit order and polarity already right, as the
  decoder's comment requires. The two FCS bytes that PHR counts are left to the
  sending chip, because no code of the driver writes them. A reception is 135
  bytes, whatever the frame's length, because the RX length counter ends it.
  SFD and PHR may be damaged on the air; a damaged payload is only another
  payload. What a buffer holds before `recv`, and the memory behind it, is an
  arbitrary byte. `Answer` records the highest index of the buffer that is read
  and the highest that is written, over `treufunk_fifo_read`, the SFD search, the
  shift loop with its look-ahead, PHR and `memmove`.

## 3. Runs

| Run | Checks | Shows |
|---|---|---|
| `core_safety` | `TypeOK`, `PollingAlive`, `RelistenKeepsFrames`, `ReportedFrameIsWhole` | every call at rest and from the handlers of all three events, nested up to twice (about 132 000 states) |
| `traffic` | `CompletionIsTruthful`, `FrameReported`, `CompletionReported`, `ListensAgain` | sends and bare TX at rest and from the RX_COMPLETE and TX_STARTED handlers, options, buffers that do not fit; the last three under the fairness of section 4 |
| `link` | `ImplementsLink` | the driver refines `LinkContract` |
| `frames` | `TruthfulRecv`, `SfdTolerance`, `FootprintBounded` | six payloads from empty to longest, three alignments, every set of at most two wrong SFD bits, damaged PHRs from 0 to 255; what is read back, and which part of memory is touched |
| `config` | `ConfigurationKept`, `PowerIsAsked`, `SetChannelIsTuned`, `FieldWritesExact`, `CommandsReachMachine` | all sixteen channels and powers in and out of range in any order, state commands and resets in between, registers all clear, all set or with every other bit set after a reset |

Seven runs show that something the code or its comments say is not so:

| Run | Violated | What happens |
|---|---|---|
| `frame_aired` | `FrameIsAired` | `set_state(SENDING)` resets the FIFO that was just loaded; it always does (`NothingIsAired`) |
| `end_flags_off` | `PollingAlive` | with `TELL_RX_END` off, `_isr` returns on a waiting frame without arming the timer |
| `sleep_polling` | `SleepStopsPolling` | the timer has expired before it is removed; the queued `_isr` finds the chip `BUSY` and arms it again |
| `stale_tx` | `CompletionIsTruthful` | `tx_active` survives `treufunk_reset` |
| `short_buffer` | `TruthfulRecv` | `_recv` decodes a buffer `treufunk_fifo_read` did not fill |
| `phr_wrap` | `WritesInBuffer` | a PHR of 0 or 1 makes `pkt_len` negative, and `memmove` takes it for a `size_t` |
| `channel_reset` | `ChannelAlreadySet` | the cached channel survives `treufunk_reset`; nothing else makes it wrong (`ChannelKnown`) |

TLC stops at the shortest behaviour. Three of these runs allow more, and show it
when the constant is cut down to it:

* `end_flags_off` with `Toggle = {"TX_END"}`: with `TELL_TX_END` off, `_isr` clears
  `tx_active` and returns without arming the timer (122), too.
* `stale_tx` with `Calls = {"send", "sleep"}` and `TxCalls = {}`: `tx_active`
  survives a SLEEP that cuts the transmission off; an event that was queued
  before brings the chip back to RX, and the next poll tells a completion. With
  `Calls = {"send"}` and `TxCalls = {"send"}`: a transmission started in the
  TX_COMPLETE handler is aborted by the return to RX after it (127) and told as
  completed.
* `short_buffer` with `BufferLens = {300}`: a buffer of 256 bytes and more is seen
  as one of `len % 256` (283), and the payload behind is not aligned.

Three disagreements are stated by properties that hold. The shift loop (237-240)
reads the byte behind a buffer of the documented 135 bytes in every successful
`_recv`: `FootprintBounded` allows this one byte (`reads <= size`) and no other.
A SLEEP from above that cuts a reception short leaves a part of a frame in the
FIFO, and a poll whose event was queued before tells it as a frame:
`ReportedFrameIsWhole` allows this and no other. A power below zero is clipped to
15, because `treufunk_getset.c` 76 asks of a `uint8_t` whether it is below 0:
`PowerIsAsked` has the unsigned value, as the parameter has.

Five more were met that have no run of their own. A second `_send`
cuts off the transmission under way (the loop that would wait for it,
`treufunk.c` 297-302, is commented out): `LinkContract` lets a request supersede
an earlier one. `_get_state` names SENDING `NETOPT_STATE_RX`
(`treufunk_netdev.c` 350). `_find_SFD_and_shift_data` returns `-EFAULT` where its comment promises
zero (215); `Answer` has it, too. `treufunk_set_addr_short` stores the low byte
first and `treufunk_get_addr_short` reads the first byte as the high one
(`treufunk_getset.c` 20, 25). The header lists `CTRL_ADC_DWA` with an offset of 6
for a mask of bit 7; `TreufunkRegisters` has it so, and nothing uses it.

A frame with two wrong bits in its SFD is refused, with one exception: if the
two top bits of PHR are set and the stream is not late, the window two bits
further on can show the SFD with one wrong bit, and the frame is taken for one
that came late. `Ambiguous` is exactly this case (no PHR that `_send` writes has
its top bit set); `TruthfulRecv` and `SfdTolerance` claim nothing of it and hold
for every other frame, those with such a PHR that come late included.

**Bounds.** `MaxIsr = 2` is the room of the queue. One event is what a
one-shot timer needs; two arise when the timer is armed again before the first
is handled (a send while an event is queued); a third is lost, in `core_safety`,
`traffic` and `link` alike. `MaxNested = 2` lets the TX_STARTED handler of a
transmission start another one, whose handler starts a third; deeper nesting
repeats the second level, for only the outermost call remembers where it
returns. `traffic` has one level, and its TX_COMPLETE handler starts nothing,
because a send in the TX_STARTED handler of its transmission would be aborted
like one in the TX_COMPLETE handler itself (section 3). There is no bound on sends, receptions or
resets: the state space is finite. The calls allowed in each run are its
`CONSTANTS`; a call is left out of `traffic` and `link` only where the property
does not hold with it, and section 5 has the exact conditions. `frames` needs
no long histories, because a frame leaves no trace once its FIFO is read.
Buffers have the smallest size the FIFO fits into, 135, and the largest that a
`uint8_t` can count. `WrongPhrs` has both limits of a byte, the PHRs at and above
which the FCS is counted (2) and the ambiguity begins (192), the values just
below these, and two in between, one with its top bit set;
`SizeRange` is 65536, because TLC counts in 32 bits, and stands for the range of
a `size_t`: all that matters is that it exceeds every buffer. In `config`,
`Requests` has every channel and numbers that are none, `Powers` both limits, a
value between them, one just above and a negative one as it arrives. The
hundred writes of a reset are there in full.

## 4. Fairness

`FairSpec` assumes weak fairness of the thread's own steps, of `_init`, of the
timer and of the chip finishing what it does: none of them can be
held up for ever by the others. `HandleIsr` is strongly fair, because the event
queue is first come first served: a thread that keeps returning to its queue
handles every event, whatever the calls in between. `Recv(TRUE)` is strongly
fair: a handler told of a frame again and again fetches it sooner or later; a
stack that never did would block reception by itself. Nothing is assumed of the
stack's other calls or of frames on the air. `CompletionReported` is stated for
an air that falls silent and a stack that starts no more transmissions, be it
with `_send` or by setting the TX state (`~Send /\ ~SetTx`), because a chip that
always has a frame waiting is polled for frames first (`treufunk_netdev.c` 97).
`TreufunkFrames` and `TreufunkConfig` have safety properties only and assume no
fairness.

## 5. Proofs

`tlapm` checks every proof; no step is left out.

* `TreufunkProofs`: `TypeCorrect` (`TypeOK`) and `RelistenCorrect`
  (`RelistenKeepsFrames`) for any calls at rest and from the handlers of all
  three events. The second speaks of the relisten path only
  (`treufunk_netdev.c` 108-111) and needs only `TypeOK`: when `_isr` decides to
  go back to RX there it has just seen a sleeping chip with an empty FIFO, and
  nothing but the driver can wake a sleeping chip. Of the return to RX after
  TX_COMPLETE (127) nothing like it holds: the chip is listening, and a frame
  may arrive before the FIFO reset (`Lose` in `LinkContract`).
* `TreufunkTrafficProofs`:
  * `PollingCorrect` (`PollingAlive`), if both END options are never toggled
    (`EndEventsTold`). The invariant is not inductive: `PollingInv` adds
    what `ret` and `cmd` agree on inside `set_state` (`CallersAgree`), that the
    END options are on once `_init` has run, and that a poll is already pending
    while the TX_STARTED handler runs, unless a call of that handler has just
    commanded SLEEP. The queue may be of any length and lose what does not fit:
    if it is full there is an event in it.
  * `FrameCorrect` (`ReportedFrameIsWhole`), for any calls from any handler.
    `FrameInv` says what the FIFO may hold in every chip state and at every label:
    `ChipKeepsFramesWhole` while the latest command is not a SLEEP from above, and
    `ChipAsleep` after one, with which a part of a frame may stay.
  * `CompletionCorrect` (`CompletionIsTruthful`), if the upper layer lets
    transmissions end (`LetsTransmissionsEnd`): no SLEEP, no reset, no send from
    the TX_COMPLETE handler, and none from a TX_STARTED handler if the
    TX_COMPLETE handler may set the TX state. The run `stale_tx` and its
    variants in section 3 show that the first three are needed. `CompletionInv` ties
    `txActive` and the history variable `air` to the chip's state.
  * `NothingIsAired`: for every upper layer, a chip in SENDING has an empty
    FIFO, so that the violation `frame_aired` finds is the only thing that can
    happen. `AirInv` follows the FIFO from the load, which a chip on its way to
    SLEEP lets be, to the reset inside `set_state(SENDING)`, after which nothing
    fills it before the command.
* `TreufunkLinkProofs`: `LinkRefined`, that `Spec` implements `LinkContract` for
  every upper layer that sends at rest and only fetches in its handlers
  (`SendsAtRest`). `LinkInv` adds to the invariants above what the mapping needs
  (`SendInv`); `LinkStepMaps` maps every action to a step of the contract or to
  a stutter.
* `TreufunkTuningProofs`: the split arithmetic is the code's, its products do
  not wrap in `uint32_t`, and `FieldsFit`: at every whole MHz the fraction fits
  its 20 bits. For frequencies in Hz this would be false: remainders close to
  16 MHz give 2^20 and more.
* `TreufunkConfigProofs`: `WritesCorrect` (`FieldWritesExact`), for any channels
  and powers asked for in any order. `treufunk_sub_reg_write` does not cut a
  value to its field, so the invariant `WritesInv` has to say that everything
  still to be written fits: for the tables of reset and state commands this is
  `TableAssumption`, which has no parameters and which TLC decides on every run
  of the module; for a channel it follows from `FieldsFit`, for a power from the
  clipping. `WriteIsExact` is the step from there to the bits.
* `TreufunkSettingsProofs`: `ConfigurationCorrect` (`ConfigurationKept`),
  `PowerCorrect` (`PowerIsAsked`) and `CommandsCorrect`
  (`CommandsReachMachine`), for any channels and powers asked for, any calls in
  any order and any content of the registers after a reset. All three speak of
  the end of a call, or of a write in its middle, and none of them is inductive.
  `Becomes(regs, todo, n, f, v)` says that field `f` holds `v` once the next `n`
  writes are done: one of these sets it and none after that one touches it, or
  it holds `v` now and none touches it. A write makes `n` one smaller and keeps
  it true (`WriteNextBecomes`). `SettingsInv` is `WritesInv` with three facts of
  this form: the fields of the configuration will have their `Setting` when the
  call is through (`KeptInv`), the power field the power (`PowerInv`), and when a
  state command is reached the machine will be enabled and out of reset
  (`CommandInv`). What the hundred writes of a reset leave in a field is read off
  the tables, group by group (`LastFor`); the calls that follow are shown to leave
  the configured fields alone (`Untouched`) or, `_rx_resets`, to put back what
  was there (`MainSets`).
* `TreufunkChannelProofs`: `TuningCorrect` (`SetChannelIsTuned`) and
  `ChannelKnown`. `TunedInv` has the nine fields of the channel in the same form.
  From the bits back to a frequency leads `NumberRead`, that a field
  read as a number is the byte written (`SumOfBits`), `BytesOfFraction`, that the
  three bytes put together are the fraction, and `OneTuning`, the arithmetic for
  each of the sixteen channels, within one step of the fraction. `ChannelKnown`
  says of the finding `channel_reset` that a second reset is all it takes and
  that nothing else can bring it about: as long as none happens,
  `ChannelAlreadySet` holds.
* `TreufunkFramesProofs`: `RecvCorrect` (`TruthfulRecv`) and `ToleranceCorrect`
  (`SfdTolerance`), for every payload, every noise, every PHR and every buffer of
  135 to 255 bytes with any content (`LargeBuffers`), for SFDs with at most two
  wrong bits (`BoundedDamage`); what they say of an ambiguous frame is nothing.
  `FootprintCorrect` (`FootprintBounded`) has no such hypotheses: for any SFD, any
  PHR and any buffer the FIFO fits (`FittingBuffers`), those of 256 bytes and more
  too, everything `_recv` writes is in the buffer and everything it reads is in it
  or is the one byte behind it. Its exception, a PHR of 0 or 1, is the run
  `phr_wrap`; the one byte is really read whenever the buffer has 135 bytes.
  Three facts carry the first two: a byte split over two by a late receiver comes back together (`Realign`); an
  SFD, even with two wrong bits, does not look like itself a bit or two earlier
  or later (`LateByOne` .. `EarlyByTwo`), so that only the right alignment shows
  it (`OneAlignment`); and the loop reads no byte it has overwritten, nor one
  behind the FIFO (`ShiftedBytes`). `FramesInv` says that the FIFO holds what
  the receiver made of the latest frame and that the answer is `Answered`.

Only model-checked: `FrameReported`, `CompletionReported` and `ListensAgain`,
because liveness under fairness, and `ENABLED`, are beyond the prover. Every
invariant and every action property of a passing run is a theorem, under the
conditions named above where there are any. What the theorems about registers
take from TLC is `TableAssumption`: the fields of the header do not overlap, and
the constant tables of writes fit them. It has no parameters, so that TLC's
evaluation of it is complete.

## 6. Not modelled

* Addresses, PAN id, sequence number and protocol: fields of the descriptor that
  nothing in `src/` reads but their getters. What uses them, the generic
  `netdev_ieee802154` that `_get` and `_set` fall back to, is not part of the
  repository.
* `test/main.c` sets up one device and returns. Its event callback runs `_isr`
  from the timer's interrupt and leaves frames in the FIFO. `_init` arms the
  timer with its last call, so `_isr` never meets a half-done initialisation, and
  this is `Treufunk` without calls from above and with every event handled at
  once.
* The registers the driver never accesses (power amplifier, test, wake-up
  receiver). `DUE_SR_MODE` is compiled out.
* `treufunk_send`, `treufunk_reset_fifo` and `treufunk_reset_state_machine` have
  no caller.
* Damage to the payload on the air is left to the FCS, which the driver does not
  check.
* The chip-id check of `_init`: a chip that fails it is never initialised.

## 7. Plan

Done, in this order: chip and driver; their proofs; the link contract and its
refinement; frames; channel; the register file with every write of the driver,
and the theorem about it; damaged SFDs and PHRs, and the theorems about the
decoder; the theorems about configuration, power, commands and channel. Left:

1. `LinkRefined` for an upper layer that sends from its RX_COMPLETE handler, too,
   or sets the TX state: the contract needs a transmission nobody asked for.
2. Two stations on one air: `Treufunk` twice, with `TreufunkFrames` between
   them. One station with an air that may deliver anything at any time covers
   what the driver can meet; the composition would add end-to-end delivery.
