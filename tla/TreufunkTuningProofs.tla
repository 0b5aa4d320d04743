------------------------ MODULE TreufunkTuningProofs ------------------------
(***************************************************************************)
(* The arithmetic of TreufunkTuning is that of the code, and its results   *)
(* fit the fields they are written to.                                     *)
(***************************************************************************)
EXTENDS TreufunkTuning, TLAPS

(* LoFreq is (m MHz) / 3 * 2, computed in Hz.                              *)
LEMMA LoFreqIsCode ==
  ASSUME NEW m \in Nat
  PROVE  LoFreq(m) = ((m * 1000000) \div 3) * 2
BY SMT DEF LoFreq

(* Fraction is x * 228 / 3479.                                             *)
LEMMA FractionIsCode ==
  ASSUME NEW x \in Nat
  PROVE  Fraction(x) = (x * 228) \div 3479
<1> DEFINE q == x \div 3479
           r == x % 3479
<1>1. /\ q \in Nat
      /\ r \in Nat
      /\ x = 3479 * q + r
  BY SMT
<1>2. x * 228 = 3479 * (q * 228) + r * 228
  BY SMT, <1>1
<1>3. ASSUME NEW a \in Nat, NEW b \in Nat
      PROVE  (3479 * a + b) \div 3479 = a + (b \div 3479)
  BY SMT
<1>4. q * 228 \in Nat /\ r * 228 \in Nat
  BY SMT, <1>1
<1>5. (3479 * (q * 228) + r * 228) \div 3479 = q * 228 + ((r * 228) \div 3479)
  BY SMT, <1>3, <1>4
<1> QED
  BY SMT, <1>2, <1>5 DEF Fraction

(* The code multiplies in uint32_t, and the product does not wrap.         *)
LEMMA ProductFits ==
  ASSUME NEW f \in Nat
  PROVE  (f % Reference) * 228 < 4294967296
BY SMT DEF Reference

(* 24 MHz more are one more of the reference: a whole number of MHz leaves *)
(* at most 23/24 of it to the fraction.                                    *)
LEMMA LoFreqSplit ==
  ASSUME NEW m \in Nat
  PROVE  /\ LoFreq(m) \div Reference = m \div 24
         /\ LoFreq(m) % Reference \in Nat
         /\ LoFreq(m) % Reference <= 15333332
<1> DEFINE a == m \div 24
           b == m % 24
           rest == 2 * (333333 * b + (b \div 3))
<1>1. /\ a \in Nat
      /\ b \in 0 .. 23
      /\ m = 24 * a + b
  BY SMT
<1>2. rest \in Nat /\ rest <= 15333332
  BY SMT, <1>1
<1>3. m \div 3 = 8 * a + (b \div 3)
  BY SMT, <1>1
<1>4. LoFreq(m) = 16000000 * a + rest
  BY SMT, <1>1, <1>3 DEF LoFreq
<1>5. ASSUME NEW p \in Nat, NEW r \in Nat, r <= 15333332
      PROVE  /\ (16000000 * p + r) \div 16000000 = p
             /\ (16000000 * p + r) % 16000000 = r
  BY SMT, <1>5
<1>6. /\ (16000000 * a + rest) \div 16000000 = a
      /\ (16000000 * a + rest) % 16000000 = rest
  BY SMT, <1>1, <1>2, <1>5
<1> QED
  BY SMT, <1>2, <1>4, <1>6 DEF Reference

LEMMA SplitFits ==
  ASSUME NEW m \in Nat, m < 3072
  PROVE  /\ LoFreq(m) \div Reference < 128
         /\ Fraction(LoFreq(m) % Reference) < 1048576
         /\ HighByte(Fraction(LoFreq(m) % Reference)) < 16
<1> DEFINE x == LoFreq(m) % Reference
<1>1. LoFreq(m) \div Reference < 128
  BY SMT, LoFreqSplit
<1>2. x \in Nat /\ x <= 15333332
  BY SMT, LoFreqSplit
<1> HIDE DEF x
<1>3. (x * 228) \div 3479 \in Nat /\ (x * 228) \div 3479 < 1048576
  BY SMT, <1>2
<1>4. Fraction(x) \in Nat /\ Fraction(x) < 1048576
  BY SMT, <1>2, <1>3, FractionIsCode
<1>5. ASSUME NEW c \in Nat, c < 1048576
      PROVE  HighByte(c) < 16
  BY SMT, <1>5 DEF HighByte
<1>6. HighByte(Fraction(x)) < 16
  BY SMT, <1>4, <1>5
<1> QED
  BY SMT, <1>1, <1>4, <1>6 DEF x

(* At every whole number of MHz that the seven bits of the integer part    *)
(* can stand for, the fraction fits its twenty bits, so that no value      *)
(* written by treufunk_set_chan spills over its field into the bits next   *)
(* to it.                                                                  *)
THEOREM FieldsFit ==
  ASSUME NEW rf \in Nat, rf < 3072, NEW if \in {0, 1}
  PROVE  /\ PllInt(rf, if) < 128
         /\ PllFrac(rf, if) < 1048576
         /\ HighByte(PllFrac(rf, if)) < 16
<1>1. CASE rf > 2000
  <2>1. rf - if \in Nat /\ rf - if < 3072
    BY SMT, <1>1
  <2> QED
    BY SMT, <1>1, <2>1, SplitFits DEF PllInt, PllFrac
<1>2. CASE ~(rf > 2000)
  BY SMT, <1>2 DEF PllInt, PllFrac, HighByte
<1> QED
  BY <1>1, <1>2
=============================================================================
