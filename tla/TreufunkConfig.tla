--------------------------- MODULE TreufunkConfig ---------------------------
(***************************************************************************)
(* What the driver writes into the chip's registers, one write per step:   *)
(* the sequence of treufunk_reset, the commands of treufunk_set_state, the *)
(* channel and the transmit power.  Only the one netdev thread writes      *)
(* them, so the read and the write of a sub-register are one step.  When   *)
(* these functions run is the subject of Treufunk.                         *)
(***************************************************************************)
EXTENDS TreufunkRegisters, TreufunkTuning, Sequences

CONSTANTS
  Requests,   \* channel numbers the upper layer asks for
  Powers,     \* transmit powers it asks for
  ResetImages \* what the registers may hold after a global reset

ASSUME ConfigAssumption ==
  /\ Requests \subseteq 0 .. 255
  /\ Powers \subseteq 0 .. 255
  /\ ResetImages \subseteq [Registers -> SUBSET Bit]

VARIABLES
  regs,  \* the chip's registers
  chan,  \* dev->netdev.chan
  todo,  \* what the running function has still to write
  asked, \* history: the channel has been set since the latest reset
  power  \* history: the transmit power asked for last

vars == <<regs, chan, todo, asked, power>>

(* A write whose result the caller looks at (RETURN_ON_ERROR) or not.      *)
Checked(target, value) ==
  [target |-> target, bits |-> BitsOf(value), checked |-> TRUE]
Write(target, value) ==
  [target |-> target, bits |-> BitsOf(value), checked |-> FALSE]

-----------------------------------------------------------------------------
(***************************************************************************)
(* treufunk_set_state                                                      *)
(***************************************************************************)
(* state_to_statecmd, for the states the driver commands.                  *)
StateCommand == [SLEEP |-> 2, SENDING |-> 4, RECEIVING |-> 6]

(* A slip: SM_RESETB stays low.                                            *)
Faulty_RxResets ==
  << Write("RG_SM_MAIN", \h05), Write("RG_SM_MAIN", \h0D),
     Write("DEM_RESETB", 0), Write("DEM_RESETB", 1) >>

(* Another: FIFO_MODE_EN is taken for a reset bit.                         *)
Faulty_RxResetsMode ==
  << Write("RG_SM_MAIN", \h04), Write("RG_SM_MAIN", \h0E),
     Write("DEM_RESETB", 0), Write("DEM_RESETB", 1) >>

RxResets ==
  << Write("RG_SM_MAIN", \h05), Write("RG_SM_MAIN", \h0F),
     Write("DEM_RESETB", 0), Write("DEM_RESETB", 1) >>

StateWrites(s) ==
  (IF s \in {"RECEIVING", "SENDING"} THEN RxResets ELSE <<>>)
    \o << Write("SM_COMMAND", StateCommand[s]), Write("SM_COMMAND", 0) >>

-----------------------------------------------------------------------------
(***************************************************************************)
(* treufunk_reset, group by group                                          *)
(***************************************************************************)
ClockWrites ==
  << Checked("CTRL_CLK_CDE_OSC", 0), Checked("CTRL_CLK_CDE_PAD", 1),
     Checked("CTRL_CLK_DIG_OSC", 0), Checked("CTRL_CLK_DIG_PAD", 1),
     Checked("CTRL_CLK_PLL_OSC", 0), Checked("CTRL_CLK_PLL_PAD", 1),
     Checked("CTRL_CLK_C3X_OSC", 0), Checked("CTRL_CLK_C3X_PAD", 1),
     Checked("CTRL_CLK_FALLB", 0),
     Checked("CTRL_CDE_ENABLE", 0), Checked("CTRL_C3X_ENABLE", 1),
     Checked("CTRL_CLK_ADC", 1), Checked("CTRL_C3X_LTUNE", 1) >>

AnalogueWrites ==
  << Checked("LDO_A_VOUT", 21), Checked("LDO_D_VOUT", 24),
     Checked("LDO_PLL_VOUT", 24), Checked("LDO_VCO_VOUT", 24),
     Checked("LDO_TX24_VOUT", 23),
     Checked("IREF_PLL_CTRLB", 0), Checked("PLL_VCO_TUNE", 235),
     Checked("PLL_LPF_C", 0), Checked("PLL_LPF_R", 9) >>

RxPathWrites ==
  << Checked("RX_RF_MODE", 0), Checked("RX_LO_EXT", 0),
     Checked("LNA24_ISETT", 7), Checked("LNA24_SPCTRIM", 15),
     Checked("CTRL_ADC_MULTIBIT", 0), Checked("CTRL_ADC_ENABLE", 1),
     Checked("CTRL_ADC_BW_SEL", 1), Checked("CTRL_ADC_BW_TUNE", 5),
     Checked("CTRL_ADC_DR_SEL", 2),
     Checked("PPF_M0", 0), Checked("PPF_M1", 0), Checked("PPF_TRIM", 0),
     Checked("PPF_HGAIN", 1), Checked("PPF_LLIF", 0) >>

DemodulatorWrites ==
  << Checked("DEM_CLK96_SEL", 1), Checked("DEM_AGC_EN", 1),
     Checked("DEM_FREQ_OFFSET_CAL_EN", 0), Checked("DEM_OSR_SEL", 0),
     Checked("DEM_BTLE_MODE", 1), Checked("DEM_IF_SEL", 2),
     Checked("DEM_DATA_RATE_SEL", 3), Checked("DEM_IQ_CROSS", 1),
     Checked("DEM_IQ_INV", 0),
     Checked("DEM_GC1", 0), Checked("DEM_GC2", 0), Checked("DEM_GC3", 1),
     Checked("DEM_GC4", 0), Checked("DEM_GC5", 0), Checked("DEM_GC6", 1),
     Checked("DEM_GC7", 4) >>

TxPathWrites ==
  << Checked("PLL_MOD_DATA_RATE", 3), Checked("PLL_MOD_FREQ_DEV", 21),
     Checked("TX_EN", 1), Checked("TX_ON_CHIP_MOD", 1), Checked("TX_UPS", 0),
     Checked("TX_ON_CHIP_MOD_SP", 0), Checked("TX_AMPLI_OUT_MAN_H", 1),
     Checked("TX_AMPLI_OUT_MAN_L", 255) >>

(* State machine: general settings, startup counters, TX, RX, the counters *)
(* for the length of a reception and for its timeout.                      *)
MachineWrites ==
  << Checked("FIFO_MODE_EN", 1), Checked("WAKEUPONSPI", 1),
     Checked("WAKEUPONRX", 0), Checked("WAKEUP_MODES_EN", 0),
     Checked("POWER_TX_TIME", 255), Checked("POWER_RX_TIME", 255),
     Checked("PLL_PON_TIME", 255), Checked("PLL_SET_TIME", 255),
     Checked("TX_TIME", 255), Checked("PD_EN_TIME", 255),
     Checked("TX_MODE", 0), Checked("INVERT_FIFO_CLK", 0),
     Checked("DIRECT_RX", 1), Checked("TX_ON_FIFO_IDLE", 0),
     Checked("TX_ON_FIFO_SLEEP", 0), Checked("TX_IDLE_MODE_EN", 0),
     Checked("TX_PWR_CTRL", 15), Checked("TX_MAXAMP", 0),
     Checked("DIRECT_TX", 0), Checked("DIRECT_TX_IDLE", 0),
     Checked("RX_HOLD_MODE_EN", 0), Checked("RX_TIMEOUT_EN", 0),
     Checked("RX_HOLD_ON_TIMEOUT", 0), Checked("AGC_AUTO_GAIN", 0),
     Checked("RX_LENGTH_H", \h00), Checked("RX_LENGTH_M", \h43),
     Checked("RX_LENGTH_L", \hC0), Checked("RX_TIMEOUT_H", 255),
     Checked("RX_TIMEOUT_M", 255), Checked("RX_TIMEOUT_L", 255) >>

PulseWrites ==
  << Checked("SM_EN", 1), Checked("FIFO_RESETB", 0), Checked("FIFO_RESETB", 1),
     Checked("SM_RESETB", 0), Checked("SM_RESETB", 1) >>

Configuration ==
  ClockWrites \o AnalogueWrites \o RxPathWrites \o DemodulatorWrites
    \o TxPathWrites \o MachineWrites \o PulseWrites

ResetWrites == Configuration \o StateWrites("RECEIVING")

-----------------------------------------------------------------------------
(***************************************************************************)
(* Channel and power                                                       *)
(***************************************************************************)
ChannelWrites(c) ==
  LET rf == CenterFreq(c)
      rx == PllFrac(rf, IntermediateFreq.rx)
      tx == PllFrac(rf, IntermediateFreq.tx)
  IN  << Write("RX_CHAN_INT", PllInt(rf, IntermediateFreq.rx)),
         Write("RX_CHAN_FRAC_H", HighByte(rx)),
         Write("RX_CHAN_FRAC_M", MiddleByte(rx)),
         Write("RX_CHAN_FRAC_L", LowByte(rx)),
         Write("TX_CHAN_INT", PllInt(rf, IntermediateFreq.tx)),
         Write("TX_CHAN_FRAC_H", HighByte(tx)),
         Write("TX_CHAN_FRAC_M", MiddleByte(tx)),
         Write("TX_CHAN_FRAC_L", LowByte(tx)),
         Write("PLL_VCO_TUNE", VcoTune(c)) >>

(* A slip: the limit is left to the width of the field.                    *)
Faulty_ClipPower(p) == p

(* In a uint8_t nothing is below 0.                                        *)
ClipPower(p) == IF p > 15 THEN 15 ELSE p

-----------------------------------------------------------------------------
(***************************************************************************)
(* Actions                                                                 *)
(***************************************************************************)
(* treufunk_setup leaves a zeroed descriptor, _init begins the reset.      *)
Init ==
  /\ regs \in ResetImages
  /\ chan = 0
  /\ todo = ResetWrites
  /\ asked = FALSE
  /\ power = 15

(* treufunk_reset: global reset, then all of the configuration; the        *)
(* channel is not set again.                                               *)
Reset ==
  /\ todo = <<>>
  /\ regs' \in ResetImages
  /\ todo' = ResetWrites
  /\ asked' = FALSE
  /\ power' = 15
  /\ UNCHANGED chan

SetState(s) ==
  /\ todo = <<>>
  /\ todo' = StateWrites(s)
  /\ UNCHANGED <<regs, chan, asked, power>>

(* A channel out of range and the channel already set change nothing.      *)
SetChan(c) ==
  /\ todo = <<>>
  /\ c \in Channels
  /\ c # chan
  /\ chan' = c
  /\ todo' = ChannelWrites(c)
  /\ asked' = TRUE
  /\ UNCHANGED <<regs, power>>

SetTxPower(p) ==
  /\ todo = <<>>
  /\ todo' = << Write("TX_PWR_CTRL", ClipPower(p)) >>
  /\ power' = p
  /\ UNCHANGED <<regs, chan, asked>>

(* A write to a read-only register is refused, and treufunk_reset gives up *)
(* at the first one.                                                       *)
WriteNext ==
  /\ todo # <<>>
  /\ LET w == Head(todo)
         refused == Table[w.target].reg \in ReadOnly
     IN  /\ regs' = IF refused THEN regs
                    ELSE SubRegWrite(regs, w.target, w.bits)
         /\ todo' = IF refused /\ w.checked THEN <<>> ELSE Tail(todo)
  /\ UNCHANGED <<chan, asked, power>>

Next ==
  \/ Reset
  \/ \E s \in DOMAIN StateCommand : SetState(s)
  \/ \E c \in Requests : SetChan(c)
  \/ \E p \in Powers : SetTxPower(p)
  \/ WriteNext

Spec == Init /\ [][Next]_vars

-----------------------------------------------------------------------------
(***************************************************************************)
(* Properties                                                              *)
(***************************************************************************)
AtRest == todo = <<>>
Holds(field) == SubRegRead(regs, field)

(* A write that is not refused, of a value its sub-register has room for.  *)
Fits(w) ==
  /\ Table[w.target].reg \notin ReadOnly
  /\ \A i \in w.bits : i + Table[w.target].offset \in Table[w.target].mask

FittingWrites ==
  {w \in [target : Targets, bits : SUBSET Bit, checked : BOOLEAN] : Fits(w)}

(* The tables have no parameters, so TLC decides this assumption: no two   *)
(* sub-registers share a bit, and what treufunk_reset and                  *)
(* treufunk_set_state write fits where it is written.                      *)
ASSUME TableAssumption ==
  /\ \A f \in Targets : /\ Table[f].reg \in Registers
                        /\ Table[f].mask \subseteq Bit
                        /\ Table[f].offset \in Bit
  /\ \A f, g \in Fields : f # g => Disjoint(f, g)
  /\ \A group \in {ClockWrites, AnalogueWrites, RxPathWrites, DemodulatorWrites,
                  TxPathWrites, MachineWrites, PulseWrites} :
       group \in Seq(FittingWrites)
  /\ \A s \in DOMAIN StateCommand : StateWrites(s) \in Seq(FittingWrites)

(* A write of the driver puts its value into its sub-register, readable    *)
(* as it was given, and leaves every sub-register beside it alone.         *)
(* treufunk_sub_reg_write does not cut a value to its field, and PLL       *)
(* fractions, power and the whole-register writes all pass through it.     *)
FieldWritesExact ==
  [][AtRest \/
     LET w == Head(todo)
     IN  /\ SubRegRead(regs', w.target) = w.bits
         /\ \A f \in Targets :
              Disjoint(f, w.target) => SubRegRead(regs', f) = Holds(f)]_vars

(* A state command is given to a state machine that is enabled and out of  *)
(* reset, with the FIFO out of reset; treufunk_set_state(SLEEP) does not   *)
(* see to that itself.                                                     *)
CommandsReachMachine ==
  [][~AtRest /\ Head(todo).target = "SM_COMMAND" /\ Head(todo).bits # {}
       => \A f \in {"SM_EN", "SM_RESETB", "FIFO_RESETB"} : Holds(f) = {0}]_vars

(* What treufunk_reset configured last, field by field.                    *)
Configured == {Configuration[i].target : i \in DOMAIN Configuration}
Setting ==
  [f \in Configured |->
     LET last == CHOOSE i \in DOMAIN Configuration :
                   /\ Configuration[i].target = f
                   /\ \A j \in DOMAIN Configuration :
                        Configuration[j].target = f => j <= i
     IN  Configuration[last].bits]

(* No later write of the reset and no call after it disturbs what the      *)
(* reset configured, except the two fields that channel and power own.     *)
(* _rx_resets, which writes SM_MAIN as a whole, is the one to watch.       *)
ConfigurationKept ==
  AtRest => \A f \in Configured \ {"PLL_VCO_TUNE", "TX_PWR_CTRL"} :
              Holds(f) = Setting[f]

(* treufunk_get_txpower tells what was asked for last, at most 15, across  *)
(* changes of channel and state; a reset asks for 15.                      *)
PowerIsAsked ==
  AtRest => Holds("TX_PWR_CTRL") = BitsOf(IF power <= 15 THEN power ELSE 15)

-----------------------------------------------------------------------------
NumberIn(field) ==
  LET bits == Holds(field)
      term(i) == IF i \in bits THEN Weight[i + 1] ELSE 0
  IN  term(0) + term(1) + term(2) + term(3)
        + term(4) + term(5) + term(6) + term(7)

(* The frequency in Hz the fields of a direction stand for: int + frac     *)
(* / 2^20 times the reference.                                             *)
Synthesised(int, h, m, l) ==
  LET frac == 65536 * NumberIn(h) + 256 * NumberIn(m) + NumberIn(l)
  IN  Reference * NumberIn(int)
        + (frac \div 1024) * 15625 + ((frac % 1024) * 15625) \div 1024

(* Two thirds of m MHz, in Hz.                                             *)
TwoThirds(m) == 666666 * m + (2 * m) \div 3

(* One step of the 20 bit fraction is 15.26 Hz.                            *)
Tolerance == 16
Near(f, g) == f - g \in -Tolerance .. Tolerance

(* Both oscillator frequencies are within a step of the fraction of two    *)
(* thirds of what the channel asks for, and the VCO has its value.         *)
TunedTo(c) ==
  /\ Near(Synthesised("RX_CHAN_INT", "RX_CHAN_FRAC_H",
                      "RX_CHAN_FRAC_M", "RX_CHAN_FRAC_L"),
          TwoThirds(CenterFreq(c) - 1))
  /\ Near(Synthesised("TX_CHAN_INT", "TX_CHAN_FRAC_H",
                      "TX_CHAN_FRAC_M", "TX_CHAN_FRAC_L"),
          TwoThirds(CenterFreq(c)))
  /\ NumberIn("PLL_VCO_TUNE") = VcoTune(c)

(* A channel that treufunk_set_chan has set is the one the chip is tuned   *)
(* to, until the chip is reset.                                            *)
SetChannelIsTuned == AtRest /\ asked => TunedTo(chan)

(* The channel the driver believes to be "already set" is set in the chip. *)
ChannelAlreadySet == AtRest /\ chan # 0 => TunedTo(chan)
=============================================================================
