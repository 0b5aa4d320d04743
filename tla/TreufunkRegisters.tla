-------------------------- MODULE TreufunkRegisters --------------------------
(***************************************************************************)
(* The register file of the chip and the driver's access to it: a byte is  *)
(* the set of its bits that are 1, so that C's masks, shifts and ors are   *)
(* operations on sets.  The table has the registers the driver writes, and *)
(* their neighbours, with every sub-register the header names in them.     *)
(***************************************************************************)
EXTENDS Naturals

Bit == 0 .. 7

Weight == <<1, 2, 4, 8, 16, 32, 64, 128>>

(* The low eight bits of a number: what is left of it in a uint8_t.        *)
BitsOf(n) == {i \in Bit : (n \div Weight[i + 1]) % 2 = 1}

(* A sub-register: its register, its bit mask, and the position of its     *)
(* least significant bit.                                                  *)
F(reg, hi, lo) == [reg |-> reg, mask |-> lo .. hi, offset |-> lo]

(* The sub-registers, block by block.  CTRL_ADC_DWA is listed with an      *)
(* offset of 6 for a mask of bit 7; the driver does not use it.            *)
LdoFields ==
  [LDO_D_VOUT |-> F(\h06, 4, 0), LDO_OSCI_VOUT |-> F(\h07, 4, 0),
   LDO_A_VOUT |-> F(\h08, 4, 0), LDO_PLL_VOUT |-> F(\h09, 4, 0),
   LDO_VCO_VOUT |-> F(\h0A, 4, 0), LDO_TX433_VOUT |-> F(\h0B, 4, 0),
   LDO_TX800_VOUT |-> F(\h0C, 4, 0), LDO_TX24_VOUT |-> F(\h0D, 4, 0),
   IREF_LDO_CTRLB |-> F(\h10, 6, 4), IREF_PLL_CTRLB |-> F(\h10, 2, 0)]

PllFields ==
  [PLL_MOD_EN |-> F(\h21, 4, 4), PLL_OFFCHIP_MOD_EN |-> F(\h21, 3, 3),
   PLL_TPM_EN |-> F(\h21, 2, 2), PLL_MOD_DATA_RATE |-> F(\h21, 1, 0),
   PLL_MOD_FREQ_DEV |-> F(\h22, 4, 0), PLL_DAC_EN |-> F(\h23, 3, 3),
   PLL_DAC_CP_DEFAULT |-> F(\h23, 2, 2), PLL_LMS_EN |-> F(\h23, 1, 1),
   PLL_LMS_HOLD_ON |-> F(\h23, 0, 0), PLL_CHN_INT_IN |-> F(\h24, 6, 0),
   PLL_CHN_FRAC_H_IN |-> F(\h25, 3, 0), PLL_CHN_FRAC_M_IN |-> F(\h26, 7, 0),
   PLL_CHN_FRAC_L |-> F(\h27, 7, 0), PLL_LPF_C |-> F(\h28, 4, 0),
   PLL_LPF_R |-> F(\h29, 3, 0), PLL_VCO_TUNE |-> F(\h2A, 7, 0)]

DemFields ==
  [DEM_RESETB |-> F(\h40, 7, 7), DEM_EN |-> F(\h40, 6, 6),
   DEM_CLK96_SEL |-> F(\h40, 5, 5), DEM_PD_EN |-> F(\h40, 4, 4),
   DEM_AGC_EN |-> F(\h40, 3, 3), DEM_FREQ_OFFSET_CAL_EN |-> F(\h40, 2, 2),
   DEM_OSR_SEL |-> F(\h40, 1, 1), DEM_BTLE_MODE |-> F(\h40, 0, 0),
   DEM_IQ_INV |-> F(\h41, 6, 5), DEM_IQ_CROSS |-> F(\h41, 4, 4),
   DEM_IF_SEL |-> F(\h41, 3, 2), DEM_DATA_RATE_SEL |-> F(\h41, 1, 0),
   DEM_GC1 |-> F(\h42, 7, 4), DEM_GC2 |-> F(\h42, 3, 0),
   DEM_GC3 |-> F(\h43, 7, 4), DEM_GC4 |-> F(\h43, 3, 0),
   DEM_GC5 |-> F(\h44, 7, 4), DEM_GC6 |-> F(\h44, 3, 0),
   DEM_GC7 |-> F(\h45, 3, 0)]

RxFields ==
  [RX_FE_EN |-> F(\h50, 6, 6), RX_RF_MODE |-> F(\h50, 5, 4),
   RX_LO_EXT |-> F(\h50, 3, 3), RX24_PON |-> F(\h50, 2, 2),
   RX800_PON |-> F(\h50, 1, 1), RX433_PON |-> F(\h50, 0, 0),
   LNA24_CTRIM |-> F(\h51, 4, 0), LNA24_SPCTRIM |-> F(\h52, 3, 0),
   LNA24_ISETT |-> F(\h53, 2, 0), LNA433_HGAIN |-> F(\h54, 1, 1),
   LNA800_HGAIN |-> F(\h54, 0, 0), PPF_M1 |-> F(\h55, 6, 6),
   PPF_M0 |-> F(\h55, 5, 5), PPF_TRIM |-> F(\h55, 4, 2),
   PPF_HGAIN |-> F(\h55, 1, 1), PPF_LLIF |-> F(\h55, 0, 0)]

ClkAdcFields ==
  [CTRL_CLK_ADC |-> F(\h60, 7, 7), CTRL_CD3_ENABLE |-> F(\h60, 6, 6),
   CTRL_CDE_ENABLE |-> F(\h60, 5, 5), CTRL_C3X_ENABLE |-> F(\h60, 4, 4),
   CTRL_CLK_C3X_OSC |-> F(\h60, 3, 3), CTRL_CLK_C3X_PAD |-> F(\h60, 2, 2),
   CTRL_CLK_CDE_OSC |-> F(\h60, 1, 1), CTRL_CLK_CDE_PAD |-> F(\h60, 0, 0),
   CTRL_CLK_FALLB |-> F(\h61, 2, 2), CTRL_CLK_DIG_OSC |-> F(\h61, 1, 1),
   CTRL_CLK_DIG_PAD |-> F(\h61, 0, 0), CTRL_CLK_IREF |-> F(\h62, 6, 4),
   CTRL_CLK_PLL_OSC |-> F(\h62, 3, 3), CTRL_CLK_PLL_PAD |-> F(\h62, 2, 2),
   CTRL_C3X_LTUNE |-> F(\h62, 1, 0), CTRL_C3X_ICP |-> F(\h63, 7, 4),
   CTRL_CDE_TUNE |-> F(\h63, 3, 0), CTRL_C3X_IVCD |-> F(\h64, 6, 0),
   CTRL_ADC_D_BYPASS |-> F(\h65, 5, 5), ADC_CTRL_RESETB |-> F(\h65, 4, 4),
   CTRL_ADC_MULTIBIT |-> F(\h65, 1, 1), CTRL_ADC_ENABLE |-> F(\h65, 0, 0),
   CTRL_ADC_DWA |-> [reg |-> \h66, mask |-> {7}, offset |-> 6],
   CTRL_ADC_DR_SEL |-> F(\h66, 6, 5), CTRL_ADC_BW_TUNE |-> F(\h66, 4, 2),
   CTRL_ADC_BW_SEL |-> F(\h66, 1, 0)]

TxFields ==
  [TX_AMPLI_OUT_MAN_H |-> F(\h70, 6, 6), TX_RESETB |-> F(\h70, 5, 5),
   TX_EN |-> F(\h70, 4, 4), TX_ON_CHIP_MOD |-> F(\h70, 3, 3),
   TX_SPI_FIFO_OUT_EN |-> F(\h70, 2, 2), TX_UPS |-> F(\h70, 1, 0),
   TX_ON_CHIP_MOD_SP |-> F(\h71, 3, 0), TX_PHASE_SEL |-> F(\h72, 3, 0),
   TX_GAIN_AMPLI_F1 |-> F(\h73, 7, 4), TX_GAIN_AMPLI_F2 |-> F(\h73, 3, 0),
   TX_GAIN_AMPLI_F3 |-> F(\h74, 7, 4), TX_BOOST_AMPLI |-> F(\h74, 3, 1),
   TX_DELAY_AMPLI |-> F(\h75, 5, 3), TX_DELAY_FREQU |-> F(\h75, 2, 0),
   TX_AMPLI_OUT_MAN_L |-> F(\h76, 7, 0)]

SmFields ==
  [SM_COMMAND |-> F(\h80, 7, 4), FIFO_RESETB |-> F(\h80, 3, 3),
   SM_EN |-> F(\h80, 2, 2), SM_RESETB |-> F(\h80, 1, 1),
   FIFO_MODE_EN |-> F(\h80, 0, 0), INVERT_FIFO_CLK |-> F(\h81, 7, 7),
   TX_MODE |-> F(\h81, 5, 4), DIRECT_RX |-> F(\h81, 3, 3),
   TX_ON_FIFO_IDLE |-> F(\h81, 2, 2), TX_ON_FIFO_SLEEP |-> F(\h81, 1, 1),
   TX_IDLE_MODE_EN |-> F(\h81, 0, 0), DIRECT_TX |-> F(\h82, 5, 5),
   DIRECT_TX_IDLE |-> F(\h82, 4, 4), RX_HOLD_MODE_EN |-> F(\h82, 3, 3),
   RX_TIMEOUT_EN |-> F(\h82, 2, 2), RX_HOLD_ON_TIMEOUT |-> F(\h82, 1, 1),
   AGC_AUTO_GAIN |-> F(\h82, 0, 0), RSSI_THRESHOLD |-> F(\h83, 3, 0),
   RX_LENGTH_H |-> F(\h84, 6, 0), RX_LENGTH_M |-> F(\h85, 7, 0),
   RX_LENGTH_L |-> F(\h86, 7, 0), RX_TIMEOUT_H |-> F(\h87, 7, 0),
   RX_TIMEOUT_M |-> F(\h88, 7, 0), RX_TIMEOUT_L |-> F(\h89, 7, 0),
   WAKEUPONSPI |-> F(\h8A, 4, 4), WAKEUPONRX |-> F(\h8A, 3, 3),
   WAKEUP_MODES_EN |-> F(\h8A, 1, 0), TX_PWR_CTRL |-> F(\h8B, 4, 1),
   TX_MAXAMP |-> F(\h8B, 0, 0), RX_CHAN_INT |-> F(\h8C, 6, 0),
   RX_CHAN_FRAC_H |-> F(\h8D, 3, 0), RX_CHAN_FRAC_M |-> F(\h8E, 7, 0),
   RX_CHAN_FRAC_L |-> F(\h8F, 7, 0), TX_CHAN_INT |-> F(\h90, 6, 0),
   TX_CHAN_FRAC_H |-> F(\h91, 3, 0), TX_CHAN_FRAC_M |-> F(\h92, 7, 0),
   TX_CHAN_FRAC_L |-> F(\h93, 7, 0)]

TimeFields ==
  [POWER_TX_TIME |-> F(\hA0, 7, 0), POWER_RX_TIME |-> F(\hA1, 7, 0),
   PLL_PON_TIME |-> F(\hA2, 7, 0), PLL_SET_TIME |-> F(\hA3, 7, 0),
   TX_TIME |-> F(\hA4, 7, 0), RX_FE_TIME |-> F(\hA5, 7, 0),
   ADC_TIME |-> F(\hA6, 7, 0), PD_EN_TIME |-> F(\hA7, 7, 0)]

(* treufunk_reg_write of a whole register.                                 *)
WholeRegisters == [RG_SM_MAIN |-> F(\h80, 7, 0)]

Joined(f, g) ==
  [x \in DOMAIN f \cup DOMAIN g |-> IF x \in DOMAIN f THEN f[x] ELSE g[x]]

Table ==
  Joined(SmFields, Joined(PllFields, Joined(LdoFields, Joined(DemFields,
  Joined(RxFields, Joined(ClkAdcFields, Joined(TxFields, Joined(TimeFields,
         WholeRegisters))))))))

Targets == DOMAIN Table
Fields == Targets \ DOMAIN WholeRegisters
Registers == {Table[f].reg : f \in Targets}

Disjoint(f, g) ==
  Table[f].reg # Table[g].reg \/ Table[f].mask \cap Table[g].mask = {}

(* reg_writable: demodulator, state machine and TPM outputs.               *)
ReadOnly == (\h46 .. \h4B) \cup (\hB0 .. \hBE) \cup (\h35 .. \h37)

-----------------------------------------------------------------------------
ShiftLeft(bits, k) == {i + k : i \in bits} \cap Bit
ShiftRight(bits, k) == {i - k : i \in {j \in bits : j >= k}}

(* treufunk_sub_reg_read                                                   *)
SubRegRead(regs, field) ==
  LET t == Table[field]
  IN  ShiftRight(regs[t.reg] \cap t.mask, t.offset)

(* A slip: the new bits are ored into the old ones.                        *)
Faulty_SubRegWrite(regs, field, bits) ==
  LET t == Table[field]
  IN  [regs EXCEPT ![t.reg] = @ \cup ShiftLeft(bits, t.offset)]

(* treufunk_sub_reg_write: read, clear the field, or the new bits in,      *)
(* write.  The new bits are not cut to the field.                          *)
SubRegWrite(regs, field, bits) ==
  LET t == Table[field]
  IN  [regs EXCEPT ![t.reg] = (@ \ t.mask) \cup ShiftLeft(bits, t.offset)]
=============================================================================
