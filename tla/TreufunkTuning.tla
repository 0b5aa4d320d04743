--------------------------- MODULE TreufunkTuning ---------------------------
(***************************************************************************)
(* The arithmetic of treufunk_set_chan: from a channel number to the PLL   *)
(* fields of the chip.  The code computes in uint32_t Hz.  Here a          *)
(* frequency is a number of MHz, and products that TLC's 32 bit integers   *)
(* cannot hold are taken apart; TreufunkTuningProofs shows that nothing    *)
(* changes by that and that the code's products do not wrap.               *)
(***************************************************************************)
EXTENDS Integers

ChannelMin == 11
ChannelMax == 26
Channels == ChannelMin .. ChannelMax

(* Center frequency in MHz, channel page 0.                                *)
CenterFreq(chan) == 2405 + 5 * (chan - 11)

(* The receiver mixes down to an intermediate frequency of 1 MHz.          *)
IntermediateFreq == [rx |-> 1, tx |-> 0]

(* (m MHz) / 3 * 2 in Hz, the division first.                              *)
LoFreq(m) == (m * 333333 + m \div 3) * 2

Reference == 16000000

(* (x * 228) \div 3479, for x below the reference frequency.               *)
Fraction(x) == (x \div 3479) * 228 + ((x % 3479) * 228) \div 3479

(* _calculate_pll_values; at 2000 MHz and below it fails and the caller    *)
(* goes on with zeros.                                                     *)
PllInt(rf, if) == IF rf > 2000 THEN LoFreq(rf - if) \div Reference ELSE 0

(* A slip: the intermediate frequency is left out of the fraction.         *)
Faulty_PllFrac(rf, if) == IF rf > 2000 THEN Fraction(LoFreq(rf) % Reference) ELSE 0

PllFrac(rf, if) == IF rf > 2000 THEN Fraction(LoFreq(rf - if) % Reference) ELSE 0

HighByte(c) == (c \div 65536) % 256
MiddleByte(c) == (c \div 256) % 256
LowByte(c) == c % 256

(* _calc_vco_tune, from channel 11 on.                                     *)
VcoTable ==
  <<237, 235, 234, 232, 231, 223, 222, 220,
    213, 212, 210, 209, 207, 206, 206, 204>>

VcoTune(chan) == IF chan \in Channels THEN VcoTable[chan - 10] ELSE 0
=============================================================================
