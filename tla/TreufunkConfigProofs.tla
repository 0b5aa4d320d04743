------------------------ MODULE TreufunkConfigProofs ------------------------
(***************************************************************************)
(* Every write of the driver does to the registers what its name says, for *)
(* any calls in any order: the values computed for a channel, the clipped  *)
(* power and the tables of reset and state commands all fit their fields.  *)
(***************************************************************************)
EXTENDS TreufunkConfig, TreufunkTuningProofs, SequenceTheorems

(* Looking up sub-registers in the joined table.                           *)
LEMMA JoinedLeft ==
  ASSUME NEW f, NEW g, NEW x \in DOMAIN f
  PROVE  x \in DOMAIN Joined(f, g) /\ Joined(f, g)[x] = f[x]
BY DEF Joined

LEMMA JoinedRight ==
  ASSUME NEW f, NEW g, NEW x \in DOMAIN g, x \notin DOMAIN f
  PROVE  x \in DOMAIN Joined(f, g) /\ Joined(f, g)[x] = g[x]
BY DEF Joined

LEMMA SmEntry ==
  ASSUME NEW x \in DOMAIN SmFields
  PROVE  x \in Targets /\ Table[x] = SmFields[x]
BY ONLY JoinedLeft, x \in DOMAIN SmFields DEF Table, Targets

LEMMA VcoEntry ==
  "PLL_VCO_TUNE" \in Targets /\ Table["PLL_VCO_TUNE"] = F(\h2A, 7, 0)
<1>1. /\ "PLL_VCO_TUNE" \in DOMAIN PllFields
      /\ PllFields["PLL_VCO_TUNE"] = F(\h2A, 7, 0)
  BY ONLY DEF PllFields
<1>2. "PLL_VCO_TUNE" \notin DOMAIN SmFields
  BY ONLY DEF SmFields
<1> QED
  BY ONLY <1>1, <1>2, JoinedLeft, JoinedRight DEF Table, Targets

-----------------------------------------------------------------------------
(***************************************************************************)
(* Values and fields                                                       *)
(***************************************************************************)
(* Small numbers have no high bits.                                        *)
LEMMA SevenBits ==
  ASSUME NEW n \in Nat, n < 128
  PROVE  BitsOf(n) \subseteq 0 .. 6
<1>1. n \div 128 = 0
  BY SMT
<1> QED
  BY SMT, <1>1 DEF BitsOf, Bit, Weight

LEMMA FourBits ==
  ASSUME NEW n \in Nat, n < 16
  PROVE  BitsOf(n) \subseteq 0 .. 3
<1>1. /\ n \div 16 = 0
      /\ n \div 32 = 0
      /\ n \div 64 = 0
      /\ n \div 128 = 0
  BY SMT
<1> QED
  BY SMT, <1>1 DEF BitsOf, Bit, Weight

(* A value fits a field of a writable register that is wide enough.        *)
LEMMA WriteFits ==
  ASSUME NEW target \in Targets, NEW value,
         NEW r \in Nat, NEW hi \in Bit, NEW lo \in Bit, lo <= hi,
         Table[target] = F(r, hi, lo),
         r \notin ReadOnly,
         BitsOf(value) \subseteq 0 .. (hi - lo)
  PROVE  Write(target, value) \in FittingWrites
<1>1. BitsOf(value) \in SUBSET Bit
  BY DEF BitsOf
<1>2. Write(target, value) \in
        [target : Targets, bits : SUBSET Bit, checked : BOOLEAN]
  BY <1>1 DEF Write
<1>3. /\ Table[target].reg = r
      /\ Table[target].mask = lo .. hi
      /\ Table[target].offset = lo
  BY DEF F
<1>4. \A i \in BitsOf(value) : i + lo \in lo .. hi
  BY SMT DEF Bit
<1>5. Fits(Write(target, value))
  BY <1>3, <1>4 DEF Fits, Write
<1> QED
  BY <1>2, <1>5 DEF FittingWrites

LEMMA PllRanges ==
  ASSUME NEW rf \in Nat, rf < 3072, NEW if \in {0, 1}
  PROVE  /\ BitsOf(PllInt(rf, if)) \subseteq 0 .. 6
         /\ BitsOf(HighByte(PllFrac(rf, if))) \subseteq 0 .. 3
<1>1. PllInt(rf, if) \in Nat
  <2>1. CASE rf > 2000
    <3>1. rf - if \in Nat
      BY SMT, <2>1
    <3>2. LoFreq(rf - if) \div Reference = (rf - if) \div 24
      BY <3>1, LoFreqSplit
    <3> QED
      BY SMT, <2>1, <3>1, <3>2 DEF PllInt
  <2>2. CASE ~(rf > 2000)
    BY SMT, <2>2 DEF PllInt
  <2> QED
    BY <2>1, <2>2
<1>2. PllFrac(rf, if) \in Nat
  <2>1. CASE rf > 2000
    <3> DEFINE x == LoFreq(rf - if) % Reference
    <3>1. rf - if \in Nat
      BY SMT, <2>1
    <3>2. x \in Nat
      BY <3>1, LoFreqSplit
    <3> HIDE DEF x
    <3>3. Fraction(x) \in Nat
      BY SMT, <3>2 DEF Fraction
    <3> QED
      BY <2>1, <3>3 DEF PllFrac, x
  <2>2. CASE ~(rf > 2000)
    BY SMT, <2>2 DEF PllFrac
  <2> QED
    BY <2>1, <2>2
<1>3. HighByte(PllFrac(rf, if)) \in Nat
  BY SMT, <1>2 DEF HighByte
<1>4. PllInt(rf, if) < 128 /\ HighByte(PllFrac(rf, if)) < 16
  BY FieldsFit
<1> QED
  BY <1>1, <1>3, <1>4, SevenBits, FourBits

(* A sub-register of a writable register whose bits are 0 to hi.           *)
LowField(target, hi) ==
  /\ target \in Targets
  /\ Table[target].reg \notin ReadOnly
  /\ Table[target].mask = 0 .. hi
  /\ Table[target].offset = 0

LEMMA LowFieldOf ==
  ASSUME NEW target \in Targets, NEW r, NEW hi, Table[target] = F(r, hi, 0),
         r \notin ReadOnly
  PROVE  LowField(target, hi)
BY DEF LowField, F

LEMMA LowFieldFits ==
  ASSUME NEW target, NEW hi, LowField(target, hi), NEW value,
         BitsOf(value) \subseteq 0 .. hi
  PROVE  Write(target, value) \in FittingWrites
<1>1. BitsOf(value) \in SUBSET Bit
  BY DEF BitsOf
<1>2. Write(target, value) \in
        [target : Targets, bits : SUBSET Bit, checked : BOOLEAN]
  BY <1>1 DEF Write, LowField
<1>3. \A i \in BitsOf(value) : i + 0 = i
  BY SMT, <1>1 DEF Bit
<1>4. Fits(Write(target, value))
  BY <1>3 DEF Fits, Write, LowField
<1> QED
  BY <1>2, <1>4 DEF FittingWrites

LEMMA ChannelFields ==
  /\ LowField("RX_CHAN_INT", 6) /\ LowField("TX_CHAN_INT", 6)
  /\ LowField("RX_CHAN_FRAC_H", 3) /\ LowField("TX_CHAN_FRAC_H", 3)
  /\ LowField("RX_CHAN_FRAC_M", 7) /\ LowField("TX_CHAN_FRAC_M", 7)
  /\ LowField("RX_CHAN_FRAC_L", 7) /\ LowField("TX_CHAN_FRAC_L", 7)
  /\ LowField("PLL_VCO_TUNE", 7)
<1>1. \A r \in {\h2A, \h8C, \h8D, \h8E, \h8F, \h90, \h91, \h92, \h93} :
        r \notin ReadOnly
  BY SMT DEF ReadOnly
<1>2. /\ "RX_CHAN_INT" \in Targets /\ Table["RX_CHAN_INT"] = F(\h8C, 6, 0)
      /\ "RX_CHAN_FRAC_H" \in Targets /\ Table["RX_CHAN_FRAC_H"] = F(\h8D, 3, 0)
      /\ "RX_CHAN_FRAC_M" \in Targets /\ Table["RX_CHAN_FRAC_M"] = F(\h8E, 7, 0)
      /\ "RX_CHAN_FRAC_L" \in Targets /\ Table["RX_CHAN_FRAC_L"] = F(\h8F, 7, 0)
      /\ "TX_CHAN_INT" \in Targets /\ Table["TX_CHAN_INT"] = F(\h90, 6, 0)
      /\ "TX_CHAN_FRAC_H" \in Targets /\ Table["TX_CHAN_FRAC_H"] = F(\h91, 3, 0)
      /\ "TX_CHAN_FRAC_M" \in Targets /\ Table["TX_CHAN_FRAC_M"] = F(\h92, 7, 0)
      /\ "TX_CHAN_FRAC_L" \in Targets /\ Table["TX_CHAN_FRAC_L"] = F(\h93, 7, 0)
  BY SmEntry DEF SmFields
<1>3. LowField("RX_CHAN_INT", 6) /\ LowField("TX_CHAN_INT", 6)
  BY <1>1, <1>2, LowFieldOf
<1>4. LowField("RX_CHAN_FRAC_H", 3) /\ LowField("TX_CHAN_FRAC_H", 3)
  BY <1>1, <1>2, LowFieldOf
<1>5. LowField("RX_CHAN_FRAC_M", 7) /\ LowField("TX_CHAN_FRAC_M", 7)
  BY <1>1, <1>2, LowFieldOf
<1>6. LowField("RX_CHAN_FRAC_L", 7) /\ LowField("TX_CHAN_FRAC_L", 7)
  BY <1>1, <1>2, LowFieldOf
<1>7. LowField("PLL_VCO_TUNE", 7)
  BY <1>1, VcoEntry, LowFieldOf
<1> QED
  BY <1>3, <1>4, <1>5, <1>6, <1>7

(* What treufunk_set_chan writes fits, for every channel.                  *)
LEMMA ChannelWritesFit ==
  ASSUME NEW c \in Channels
  PROVE  ChannelWrites(c) \in Seq(FittingWrites)
<1> DEFINE rf == CenterFreq(c)
           Whole(if) == PllInt(rf, if)
           Frac(if) == PllFrac(rf, if)
<1>1. rf \in Nat /\ rf < 3072
  BY SMT DEF Channels, ChannelMin, ChannelMax, CenterFreq
<1> HIDE DEF rf
<1>2. \A n : BitsOf(n) \subseteq 0 .. 7
  BY DEF BitsOf, Bit
<1>3. \A if \in {0, 1} : /\ BitsOf(Whole(if)) \subseteq 0 .. 6
                         /\ BitsOf(HighByte(Frac(if))) \subseteq 0 .. 3
  BY <1>1, PllRanges
<1> HIDE DEF Whole, Frac
<1>4. \A if \in {0, 1} :
        /\ Write("RX_CHAN_INT", Whole(if)) \in FittingWrites
        /\ Write("TX_CHAN_INT", Whole(if)) \in FittingWrites
  BY <1>3, ChannelFields, LowFieldFits
<1>5. \A if \in {0, 1} :
        /\ Write("RX_CHAN_FRAC_H", HighByte(Frac(if))) \in FittingWrites
        /\ Write("TX_CHAN_FRAC_H", HighByte(Frac(if))) \in FittingWrites
  BY <1>3, ChannelFields, LowFieldFits
<1>6. ASSUME NEW target, LowField(target, 7), NEW n
      PROVE  Write(target, n) \in FittingWrites
  BY <1>2, <1>6, LowFieldFits
<1>7. ASSUME NEW n
      PROVE  /\ Write("RX_CHAN_FRAC_M", n) \in FittingWrites
             /\ Write("RX_CHAN_FRAC_L", n) \in FittingWrites
             /\ Write("TX_CHAN_FRAC_M", n) \in FittingWrites
             /\ Write("TX_CHAN_FRAC_L", n) \in FittingWrites
             /\ Write("PLL_VCO_TUNE", n) \in FittingWrites
  BY <1>6, ChannelFields
<1>8. IntermediateFreq.rx \in {0, 1} /\ IntermediateFreq.tx \in {0, 1}
  BY DEF IntermediateFreq
<1> DEFINE rx == Frac(IntermediateFreq.rx)
           tx == Frac(IntermediateFreq.tx)
           writes ==
             << Write("RX_CHAN_INT", Whole(IntermediateFreq.rx)),
                Write("RX_CHAN_FRAC_H", HighByte(rx)),
                Write("RX_CHAN_FRAC_M", MiddleByte(rx)),
                Write("RX_CHAN_FRAC_L", LowByte(rx)),
                Write("TX_CHAN_INT", Whole(IntermediateFreq.tx)),
                Write("TX_CHAN_FRAC_H", HighByte(tx)),
                Write("TX_CHAN_FRAC_M", MiddleByte(tx)),
                Write("TX_CHAN_FRAC_L", LowByte(tx)),
                Write("PLL_VCO_TUNE", VcoTune(c)) >>
<1>9. writes \in Seq(FittingWrites)
  BY <1>4, <1>5, <1>7, <1>8
<1>10. ChannelWrites(c) = writes
  BY DEF ChannelWrites, rf, Whole, Frac
<1> QED
  BY <1>9, <1>10

(* What treufunk_set_txpower writes fits, for every uint8_t.               *)
LEMMA PowerWriteFits ==
  ASSUME NEW p \in 0 .. 255
  PROVE  << Write("TX_PWR_CTRL", ClipPower(p)) >> \in Seq(FittingWrites)
<1>1. ClipPower(p) \in Nat /\ ClipPower(p) < 16
  BY SMT DEF ClipPower
<1>2. BitsOf(ClipPower(p)) \subseteq 0 .. 3
  BY <1>1, FourBits
<1>3. "TX_PWR_CTRL" \in Targets /\ Table["TX_PWR_CTRL"] = F(\h8B, 4, 1)
  BY SmEntry DEF SmFields
<1>4. \h8B \in Nat /\ \h8B \notin ReadOnly /\ 4 - 1 = 3 /\ {1, 4} \subseteq Bit
  BY SMT DEF ReadOnly, Bit
<1>5. Write("TX_PWR_CTRL", ClipPower(p)) \in FittingWrites
  BY SMT, WriteFits, <1>2, <1>3, <1>4
<1> QED
  BY <1>5

-----------------------------------------------------------------------------
(***************************************************************************)
(* One write                                                               *)
(***************************************************************************)
RegsType == [Registers -> SUBSET Bit]

(* Shifting back what was shifted up by k.                                 *)
LEMMA ShiftBack ==
  ASSUME NEW bits, \A i \in bits : i \in Nat, NEW k \in Nat
  PROVE  ShiftRight({i + k : i \in bits}, k) = bits
<1> DEFINE up == {i + k : i \in bits}
<1>1. \A i \in bits : i + k \in up /\ i + k >= k /\ (i + k) - k = i
  BY SMT
<1>2. \A j \in up : \E i \in bits : j = i + k
  OBVIOUS
<1>3. ASSUME NEW i \in bits
      PROVE  i \in ShiftRight(up, k)
  BY <1>1 DEF ShiftRight
<1>4. ASSUME NEW i \in ShiftRight(up, k)
      PROVE  i \in bits
  <2>1. PICK j \in up : i = j - k
    BY DEF ShiftRight
  <2>2. PICK h \in bits : j = h + k
    BY <1>2
  <2> QED
    BY <1>1, <2>1, <2>2
<1> QED
  BY <1>3, <1>4

(* A write that fits reads back as it was given, and no sub-register that  *)
(* shares no bit with it changes.                                          *)
LEMMA WriteIsExact ==
  ASSUME NEW old \in RegsType, NEW w \in FittingWrites
  PROVE  LET new == SubRegWrite(old, w.target, w.bits)
         IN  /\ new \in RegsType
             /\ SubRegRead(new, w.target) = w.bits
             /\ \A f \in Targets : Disjoint(f, w.target) =>
                  SubRegRead(new, f) = SubRegRead(old, f)
<1> DEFINE t == Table[w.target]
           shifted == ShiftLeft(w.bits, t.offset)
           byte == (old[t.reg] \ t.mask) \cup shifted
           new == [old EXCEPT ![t.reg] = byte]
<1>1. /\ t.reg \in Registers
      /\ t.mask \subseteq Bit
      /\ t.offset \in Bit
      /\ w.target \in Targets
      /\ w.bits \subseteq Bit
      /\ \A i \in w.bits : i + t.offset \in t.mask
  BY TableAssumption DEF FittingWrites, Fits
<1>2. \A i \in w.bits : i \in Nat
  BY SMT, <1>1 DEF Bit
<1>3. t.offset \in Nat
  BY SMT, <1>1 DEF Bit
<1> HIDE DEF t
<1>4. shifted = {i + t.offset : i \in w.bits} /\ shifted \subseteq t.mask
  BY <1>1 DEF ShiftLeft
<1>5. new \in RegsType /\ new[t.reg] = byte
  BY <1>1, <1>4 DEF RegsType
<1>6. new[t.reg] \cap t.mask = shifted
  BY <1>4, <1>5
<1>7. ShiftRight(shifted, t.offset) = w.bits
  BY <1>2, <1>3, <1>4, ShiftBack
<1>8. SubRegRead(new, w.target) = w.bits
  BY <1>6, <1>7 DEF SubRegRead, t
<1>9. ASSUME NEW f \in Targets, Disjoint(f, w.target)
      PROVE  SubRegRead(new, f) = SubRegRead(old, f)
  <2>1. new[Table[f].reg] \cap Table[f].mask
          = old[Table[f].reg] \cap Table[f].mask
    <3>1. CASE Table[f].reg # t.reg
      BY <1>1, <3>1, TableAssumption DEF RegsType
    <3>2. CASE Table[f].reg = t.reg /\ Table[f].mask \cap t.mask = {}
      BY <1>4, <1>5, <3>2
    <3> QED
      BY <1>9, <3>1, <3>2 DEF Disjoint, t
  <2> QED
    BY <2>1 DEF SubRegRead
<1>10. SubRegWrite(old, w.target, w.bits) = new
  BY DEF SubRegWrite, t
<1> QED
  BY <1>5, <1>8, <1>9, <1>10

-----------------------------------------------------------------------------
(***************************************************************************)
(* The specification                                                       *)
(***************************************************************************)
LEMMA ConfigurationFits == Configuration \in Seq(FittingWrites)
BY TableAssumption DEF Configuration

LEMMA StateWritesFit ==
  ASSUME NEW s \in DOMAIN StateCommand
  PROVE  StateWrites(s) \in Seq(FittingWrites)
BY TableAssumption

LEMMA ResetWritesFit == ResetWrites \in Seq(FittingWrites)
<1>1. "RECEIVING" \in DOMAIN StateCommand
  BY DEF StateCommand
<1> QED
  BY <1>1, ConfigurationFits, StateWritesFit DEF ResetWrites

(* Whatever is still to be written fits.                                   *)
WritesInv ==
  /\ regs \in RegsType
  /\ todo \in Seq(FittingWrites)

LEMMA WritesInit == Init => WritesInv
<1> SUFFICES ASSUME Init
             PROVE  WritesInv
  OBVIOUS
<1>1. regs \in RegsType
  BY ConfigAssumption DEF Init, RegsType
<1>2. todo \in Seq(FittingWrites)
  BY ResetWritesFit DEF Init
<1> QED
  BY <1>1, <1>2 DEF WritesInv

LEMMA WritesStep ==
  ASSUME WritesInv, [Next]_vars
  PROVE  WritesInv'
<1> USE DEF WritesInv
<1>1. CASE Reset
  <2>1. regs' \in RegsType
    BY <1>1, ConfigAssumption DEF Reset, RegsType
  <2>2. todo' \in Seq(FittingWrites)
    BY <1>1, ResetWritesFit DEF Reset
  <2> QED
    BY <2>1, <2>2
<1>2. ASSUME NEW s \in DOMAIN StateCommand, SetState(s)
      PROVE  WritesInv'
  BY <1>2, StateWritesFit DEF SetState
<1>3. ASSUME NEW c \in Requests, SetChan(c)
      PROVE  WritesInv'
  BY <1>3, ChannelWritesFit DEF SetChan
<1>4. ASSUME NEW p \in Powers, SetTxPower(p)
      PROVE  WritesInv'
  <2>1. p \in 0 .. 255
    BY ConfigAssumption
  <2> QED
    BY <1>4, <2>1, PowerWriteFits DEF SetTxPower
<1>5. CASE WriteNext
  <2>1. todo # <<>> /\ Head(todo) \in FittingWrites
                   /\ Tail(todo) \in Seq(FittingWrites)
    BY <1>5 DEF WriteNext
  <2>2. <<>> \in Seq(FittingWrites)
    OBVIOUS
  <2>3. todo' = <<>> \/ todo' = Tail(todo)
    BY <1>5 DEF WriteNext
  <2>4. regs' = regs \/ regs' = SubRegWrite(regs, Head(todo).target, Head(todo).bits)
    BY <1>5 DEF WriteNext
  <2> QED
    BY <2>1, <2>2, <2>3, <2>4, WriteIsExact
<1>6. CASE UNCHANGED vars
  BY <1>6 DEF vars
<1> QED
  BY <1>1, <1>2, <1>3, <1>4, <1>5, <1>6 DEF Next

LEMMA WritesStepExact ==
  ASSUME WritesInv, Next, ~AtRest
  PROVE  LET w == Head(todo)
         IN  /\ SubRegRead(regs', w.target) = w.bits
             /\ \A f \in Targets :
                  Disjoint(f, w.target) => SubRegRead(regs', f) = Holds(f)
<1>1. WriteNext
  BY DEF Next, AtRest, Reset, SetState, SetChan, SetTxPower
<1>2. Head(todo) \in FittingWrites
  BY <1>1 DEF WritesInv, WriteNext
<1>3. Table[Head(todo).target].reg \notin ReadOnly
  BY <1>2 DEF FittingWrites, Fits
<1>4. regs' = SubRegWrite(regs, Head(todo).target, Head(todo).bits)
  BY <1>1, <1>3 DEF WriteNext
<1> QED
  BY <1>2, <1>4, WriteIsExact DEF WritesInv, Holds

(* In every behaviour, whatever channels, powers, states and resets are    *)
(* asked for, no write of the driver is cut off or spills over.            *)
THEOREM WritesCorrect == Spec => FieldWritesExact
<1>1. Init => WritesInv
  BY WritesInit
<1>2. WritesInv /\ [Next]_vars => WritesInv'
  BY WritesStep
<1>3. WritesInv /\ [Next]_vars =>
        [AtRest \/
         LET w == Head(todo)
         IN  /\ SubRegRead(regs', w.target) = w.bits
             /\ \A f \in Targets :
                  Disjoint(f, w.target) => SubRegRead(regs', f) = Holds(f)]_vars
  BY WritesStepExact
<1> QED
  BY <1>1, <1>2, <1>3, PTL DEF Spec, FieldWritesExact
=============================================================================
