------------------------ MODULE TreufunkChannelProofs ------------------------
(***************************************************************************)
(* The channel that was set is the one the chip is tuned to: the nine      *)
(* fields of a channel stay what treufunk_set_chan wrote, and what it      *)
(* wrote stands for the frequencies of the channel.                        *)
(***************************************************************************)
EXTENDS TreufunkSettingsProofs

(* A byte is the sum of its bits.                                          *)
LEMMA SumOfBits ==
  ASSUME NEW n \in Nat
  PROVE  n % 256 = (n % 2) + 2 * ((n \div 2) % 2) + 4 * ((n \div 4) % 2)
                     + 8 * ((n \div 8) % 2) + 16 * ((n \div 16) % 2)
                     + 32 * ((n \div 32) % 2) + 64 * ((n \div 64) % 2)
                     + 128 * ((n \div 128) % 2)
<1>1. ASSUME NEW m \in Nat
      PROVE  m \div 2 \in Nat /\ m % 2 \in Nat /\ m = 2 * (m \div 2) + (m % 2)
  BY SMT
<1>2. /\ n \div 4 = (n \div 2) \div 2 /\ n \div 8 = (n \div 4) \div 2
      /\ n \div 16 = (n \div 8) \div 2 /\ n \div 32 = (n \div 16) \div 2
  BY SMT
<1>3. /\ n \div 64 = (n \div 32) \div 2 /\ n \div 128 = (n \div 64) \div 2
      /\ n \div 256 = (n \div 128) \div 2
  BY SMT
<1>4. n % 256 \in Nat /\ n \div 256 \in Nat /\ n = 256 * (n \div 256) + (n % 256)
  BY SMT
<1>5. ASSUME NEW q1 \in Nat, NEW q2 \in Nat, NEW q3 \in Nat, NEW q4 \in Nat,
             NEW q5 \in Nat, NEW q6 \in Nat, NEW q7 \in Nat, NEW q8 \in Nat,
             NEW b0 \in Nat, NEW b1 \in Nat, NEW b2 \in Nat, NEW b3 \in Nat,
             NEW b4 \in Nat, NEW b5 \in Nat, NEW b6 \in Nat, NEW b7 \in Nat,
             NEW r \in Nat,
             n = 2 * q1 + b0, q1 = 2 * q2 + b1, q2 = 2 * q3 + b2,
             q3 = 2 * q4 + b3, q4 = 2 * q5 + b4, q5 = 2 * q6 + b5,
             q6 = 2 * q7 + b6, q7 = 2 * q8 + b7, n = 256 * q8 + r
      PROVE  r = b0 + 2 * b1 + 4 * b2 + 8 * b3 + 16 * b4 + 32 * b5 + 64 * b6
                   + 128 * b7
  BY SMT, <1>5
<1> DEFINE q1 == n \div 2   q2 == n \div 4   q3 == n \div 8   q4 == n \div 16
           q5 == n \div 32  q6 == n \div 64  q7 == n \div 128 q8 == n \div 256
<1>6. /\ n = 2 * q1 + (n % 2) /\ q1 = 2 * q2 + (q1 % 2) /\ q2 = 2 * q3 + (q2 % 2)
      /\ q3 = 2 * q4 + (q3 % 2) /\ q4 = 2 * q5 + (q4 % 2) /\ q5 = 2 * q6 + (q5 % 2)
      /\ q6 = 2 * q7 + (q6 % 2) /\ q7 = 2 * q8 + (q7 % 2)
  <2>1. q1 \in Nat /\ q2 \in Nat /\ q3 \in Nat
    BY <1>1, <1>2
  <2>2. q4 \in Nat /\ q5 \in Nat /\ q6 \in Nat /\ q7 \in Nat
    BY <1>1, <1>2, <1>3, <2>1
  <2> QED
    BY <1>1, <1>2, <1>3, <2>1, <2>2
<1>7. /\ q1 \in Nat /\ q2 \in Nat /\ q3 \in Nat /\ q4 \in Nat
      /\ q5 \in Nat /\ q6 \in Nat /\ q7 \in Nat /\ q8 \in Nat
      /\ n % 2 \in Nat /\ q1 % 2 \in Nat /\ q2 % 2 \in Nat /\ q3 % 2 \in Nat
      /\ q4 % 2 \in Nat /\ q5 % 2 \in Nat /\ q6 % 2 \in Nat /\ q7 % 2 \in Nat
  <2>1. q1 \in Nat /\ q2 \in Nat /\ q3 \in Nat /\ q4 \in Nat
    BY <1>1, <1>2
  <2>2. q5 \in Nat /\ q6 \in Nat /\ q7 \in Nat /\ q8 \in Nat
    BY <1>1, <1>2, <1>3, <2>1
  <2> QED
    BY <1>1, <2>1, <2>2
<1> HIDE DEF q1, q2, q3, q4, q5, q6, q7, q8
<1>8. n % 256 = (n % 2) + 2 * (q1 % 2) + 4 * (q2 % 2) + 8 * (q3 % 2)
                  + 16 * (q4 % 2) + 32 * (q5 % 2) + 64 * (q6 % 2) + 128 * (q7 % 2)
  BY <1>4, <1>5, <1>6, <1>7 DEF q8
<1> QED
  BY <1>8 DEF q1, q2, q3, q4, q5, q6, q7

(* The frequency that integer part and fraction stand for is, to one step  *)
(* of the fraction, two thirds of the one asked for.                       *)
LEMMA OneTuning ==
  ASSUME NEW c \in Channels, NEW if \in {0, 1}
  PROVE  LET m == CenterFreq(c) - if
             frac == Fraction(LoFreq(m) % Reference)
         IN  Near(Reference * (LoFreq(m) \div Reference)
                    + (frac \div 1024) * 15625
                    + ((frac % 1024) * 15625) \div 1024,
                  TwoThirds(m))
<1>1. \/ c = 11 \/ c = 12 \/ c = 13 \/ c = 14 \/ c = 15 \/ c = 16
      \/ c = 17 \/ c = 18 \/ c = 19 \/ c = 20 \/ c = 21 \/ c = 22
      \/ c = 23 \/ c = 24 \/ c = 25 \/ c = 26
  BY SMT DEF Channels, ChannelMin, ChannelMax
<1> QED
  BY SMTT(60), <1>1 DEF CenterFreq, Fraction, LoFreq, Reference, Near, Tolerance, TwoThirds

(* The number in a field is the low byte of the one written.               *)
LEMMA NumberRead ==
  ASSUME NEW f, NEW n \in Nat, Holds(f) = BitsOf(n)
  PROVE  NumberIn(f) = n % 256
<1> DEFINE term(i) == IF i \in BitsOf(n) THEN Weight[i + 1] ELSE 0
           bit(w) == (n \div w) % 2
<1>1. NumberIn(f) = term(0) + term(1) + term(2) + term(3)
                      + term(4) + term(5) + term(6) + term(7)
  BY DEF NumberIn
<1>2. /\ Weight[0 + 1] = 1 /\ Weight[1 + 1] = 2 /\ Weight[2 + 1] = 4
      /\ Weight[3 + 1] = 8 /\ Weight[4 + 1] = 16 /\ Weight[5 + 1] = 32
      /\ Weight[6 + 1] = 64 /\ Weight[7 + 1] = 128
  BY SMT DEF Weight
<1>3. \A i \in 0 .. 7 : term(i) = IF bit(Weight[i + 1]) = 1 THEN Weight[i + 1] ELSE 0
  BY DEF BitsOf, Bit
<1>4. {0, 1, 2, 3, 4, 5, 6, 7} \subseteq 0 .. 7
  BY SMT
<1>5. \A w \in {1, 2, 4, 8, 16, 32, 64, 128} : bit(w) \in {0, 1}
  <2>1. \A m \in Nat : m % 2 \in {0, 1}
    BY SMT
  <2>2. \A w \in {1, 2, 4, 8, 16, 32, 64, 128} : n \div w \in Nat
    BY SMT
  <2> QED
    BY <2>1, <2>2
<1>6. bit(1) = n % 2
  <2>1. n \div 1 = n
    BY SMT
  <2> QED
    BY <2>1
<1> HIDE DEF term, bit
<1>7. \A w \in {1, 2, 4, 8, 16, 32, 64, 128} :
        (IF bit(w) = 1 THEN w ELSE 0) = w * bit(w)
  BY SMT, <1>5
<1>8. /\ term(0) = 1 * bit(1) /\ term(1) = 2 * bit(2)
      /\ term(2) = 4 * bit(4) /\ term(3) = 8 * bit(8)
      /\ term(4) = 16 * bit(16) /\ term(5) = 32 * bit(32)
      /\ term(6) = 64 * bit(64) /\ term(7) = 128 * bit(128)
  BY <1>2, <1>3, <1>4, <1>7
<1>9. 1 * bit(1) = bit(1)
  BY SMT, <1>5
<1>10. n % 256 = bit(1) + 2 * bit(2) + 4 * bit(4) + 8 * bit(8) + 16 * bit(16)
                   + 32 * bit(32) + 64 * bit(64) + 128 * bit(128)
  <2>1. /\ bit(2) = (n \div 2) % 2 /\ bit(4) = (n \div 4) % 2
        /\ bit(8) = (n \div 8) % 2 /\ bit(16) = (n \div 16) % 2
        /\ bit(32) = (n \div 32) % 2 /\ bit(64) = (n \div 64) % 2
        /\ bit(128) = (n \div 128) % 2
    BY DEF bit
  <2>2. n % 256 = (n % 2) + 2 * ((n \div 2) % 2) + 4 * ((n \div 4) % 2)
                    + 8 * ((n \div 8) % 2) + 16 * ((n \div 16) % 2)
                    + 32 * ((n \div 32) % 2) + 64 * ((n \div 64) % 2)
                    + 128 * ((n \div 128) % 2)
    BY SumOfBits
  <2> QED
    BY ONLY <1>6, <2>1, <2>2
<1> QED
  BY <1>1, <1>8, <1>9, <1>10

(* The three bytes of a fraction of twenty bits, put together again.       *)
LEMMA BytesOfFraction ==
  ASSUME NEW n \in Nat, n < 1048576
  PROVE  /\ HighByte(n) \in Nat /\ MiddleByte(n) \in Nat /\ LowByte(n) \in Nat
         /\ 65536 * (HighByte(n) % 256) + 256 * (MiddleByte(n) % 256)
              + (LowByte(n) % 256) = n
<1>1. \A m \in Nat : m % 256 \in Nat /\ (m % 256) % 256 = m % 256
  BY SMT
<1>2. n \div 256 \in Nat /\ n \div 65536 \in Nat /\ n \div 65536 < 256
  BY SMT
<1>3. n \div 65536 = (n \div 256) \div 256 /\ (n \div 65536) % 256 = n \div 65536
  BY SMT
<1>4. \A m \in Nat : m = 256 * (m \div 256) + (m % 256)
  BY SMT
<1>5. /\ HighByte(n) = n \div 65536
      /\ MiddleByte(n) = (n \div 256) % 256
      /\ LowByte(n) = n % 256
  BY <1>3 DEF HighByte, MiddleByte, LowByte
<1>6. /\ n = 256 * (n \div 256) + (n % 256)
      /\ n \div 256 = 256 * (n \div 65536) + ((n \div 256) % 256)
  BY <1>2, <1>3, <1>4
<1>7. ASSUME NEW h \in Nat, NEW q \in Nat, NEW m \in Nat, NEW l \in Nat,
             n = 256 * q + l, q = 256 * h + m
      PROVE  65536 * h + 256 * m + l = n
  BY SMT, <1>7
<1>8. (n \div 256) % 256 \in Nat /\ n % 256 \in Nat
  BY <1>1, <1>2
<1>9. 65536 * (n \div 65536) + 256 * ((n \div 256) % 256) + (n % 256) = n
  BY <1>2, <1>6, <1>7, <1>8
<1>10. /\ HighByte(n) % 256 = n \div 65536
       /\ MiddleByte(n) % 256 = (n \div 256) % 256
       /\ LowByte(n) % 256 = n % 256
  BY <1>1, <1>2, <1>3, <1>5
<1> QED
  BY <1>2, <1>5, <1>8, <1>9, <1>10

(* Fields that hold the parts of a fraction and an integer part stand for  *)
(* the frequency these two stand for.                                      *)
LEMMA FieldsSynthesise ==
  ASSUME NEW int, NEW h, NEW m, NEW l,
         NEW n \in Nat, n < 128, NEW frac \in Nat, frac < 1048576,
         Holds(int) = BitsOf(n), Holds(h) = BitsOf(HighByte(frac)),
         Holds(m) = BitsOf(MiddleByte(frac)), Holds(l) = BitsOf(LowByte(frac))
  PROVE  Synthesised(int, h, m, l)
           = Reference * n + (frac \div 1024) * 15625
               + ((frac % 1024) * 15625) \div 1024
<1>1. NumberIn(int) = n
  <2>1. n % 256 = n
    BY SMT
  <2> QED
    BY <2>1, NumberRead
<1>2. 65536 * NumberIn(h) + 256 * NumberIn(m) + NumberIn(l) = frac
  BY BytesOfFraction, NumberRead
<1> QED
  BY <1>1, <1>2 DEF Synthesised

-----------------------------------------------------------------------------
(* The nine fields of a channel, holding what treufunk_set_chan writes,    *)
(* tune the chip to it.                                                    *)
LEMMA ChannelTunes ==
  ASSUME NEW c \in Channels,
         \A i \in 1 .. 9 :
           Holds(ChannelWrites(c)[i].target) = ChannelWrites(c)[i].bits
  PROVE  TunedTo(c)
<1> DEFINE rf == CenterFreq(c)
           Whole(if) == PllInt(rf, if)
           Frac(if) == PllFrac(rf, if)
<1>1. rf \in Nat /\ rf < 3072 /\ rf > 2000
  BY SMT DEF Channels, ChannelMin, ChannelMax, CenterFreq
<1>2. ASSUME NEW if \in {0, 1}
      PROVE  /\ Whole(if) = LoFreq(rf - if) \div Reference
             /\ Frac(if) = Fraction(LoFreq(rf - if) % Reference)
             /\ Whole(if) \in Nat /\ Whole(if) < 128
             /\ Frac(if) \in Nat /\ Frac(if) < 1048576
  <2> DEFINE x == LoFreq(rf - if) % Reference
  <2>1. Whole(if) = LoFreq(rf - if) \div Reference /\ Frac(if) = Fraction(x)
    BY <1>1 DEF PllInt, PllFrac
  <2>2. rf - if \in Nat
    BY SMT, <1>1
  <2>3. x \in Nat /\ LoFreq(rf - if) \div Reference = (rf - if) \div 24
    BY <2>2, LoFreqSplit
  <2>4. (rf - if) \div 24 \in Nat
    BY SMT, <2>2
  <2> HIDE DEF x
  <2>5. Fraction(x) \in Nat
    BY SMT, <2>3 DEF Fraction
  <2> QED
    BY <1>1, <2>1, <2>3, <2>4, <2>5, FieldsFit DEF x
<1>3. /\ ChannelWrites(c)[1].bits = BitsOf(Whole(1))
      /\ ChannelWrites(c)[2].bits = BitsOf(HighByte(Frac(1)))
      /\ ChannelWrites(c)[3].bits = BitsOf(MiddleByte(Frac(1)))
      /\ ChannelWrites(c)[4].bits = BitsOf(LowByte(Frac(1)))
      /\ ChannelWrites(c)[5].bits = BitsOf(Whole(0))
      /\ ChannelWrites(c)[6].bits = BitsOf(HighByte(Frac(0)))
      /\ ChannelWrites(c)[7].bits = BitsOf(MiddleByte(Frac(0)))
      /\ ChannelWrites(c)[8].bits = BitsOf(LowByte(Frac(0)))
      /\ ChannelWrites(c)[9].bits = BitsOf(VcoTune(c))
  BY WriteIs DEF ChannelWrites, IntermediateFreq
<1>4. {1, 2, 3, 4, 5, 6, 7, 8, 9} \subseteq 1 .. 9
  BY SMT
<1>5. /\ Holds("RX_CHAN_INT") = BitsOf(Whole(1))
      /\ Holds("RX_CHAN_FRAC_H") = BitsOf(HighByte(Frac(1)))
      /\ Holds("RX_CHAN_FRAC_M") = BitsOf(MiddleByte(Frac(1)))
      /\ Holds("RX_CHAN_FRAC_L") = BitsOf(LowByte(Frac(1)))
      /\ Holds("TX_CHAN_INT") = BitsOf(Whole(0))
      /\ Holds("TX_CHAN_FRAC_H") = BitsOf(HighByte(Frac(0)))
      /\ Holds("TX_CHAN_FRAC_M") = BitsOf(MiddleByte(Frac(0)))
      /\ Holds("TX_CHAN_FRAC_L") = BitsOf(LowByte(Frac(0)))
      /\ Holds("PLL_VCO_TUNE") = BitsOf(VcoTune(c))
  BY <1>3, <1>4, ChannelTargets
<1>6. VcoTune(c) \in 0 .. 255
  BY SMT DEF VcoTune, VcoTable, Channels, ChannelMin, ChannelMax
<1>7. VcoTune(c) \in Nat /\ VcoTune(c) % 256 = VcoTune(c)
  BY SMT, <1>6
<1>8. NumberIn("PLL_VCO_TUNE") = VcoTune(c)
  BY <1>5, <1>7, NumberRead
<1> HIDE DEF Whole, Frac
<1>9. Near(Synthesised("RX_CHAN_INT", "RX_CHAN_FRAC_H",
                       "RX_CHAN_FRAC_M", "RX_CHAN_FRAC_L"),
           TwoThirds(CenterFreq(c) - 1))
  BY <1>2, <1>5, FieldsSynthesise, OneTuning
<1>10. Near(Synthesised("TX_CHAN_INT", "TX_CHAN_FRAC_H",
                        "TX_CHAN_FRAC_M", "TX_CHAN_FRAC_L"),
            TwoThirds(CenterFreq(c) - 0))
  BY <1>2, <1>5, FieldsSynthesise, OneTuning
<1>11. CenterFreq(c) - 0 = CenterFreq(c)
  BY SMT, <1>1
<1> QED
  BY <1>8, <1>9, <1>10, <1>11 DEF TunedTo

(* A member of a sequence is one of the values the sequence is over.       *)
LEMMA MemberOf ==
  ASSUME NEW S, NEW seq \in Seq(S), NEW i \in 1 .. Len(seq)
  PROVE  seq[i] \in S
OBVIOUS

(* The writes of treufunk_set_chan, once all are done, are all in force.   *)
LEMMA ChannelGives ==
  ASSUME NEW c \in Channels, NEW i \in 1 .. 9
  PROVE  Gives(ChannelWrites(c), Len(ChannelWrites(c)),
               ChannelWrites(c)[i].target, ChannelWrites(c)[i].bits)
<1> DEFINE ws == ChannelWrites(c)
<1>1. Len(ws) = 9 /\ ws \in Seq(FittingWrites)
  BY ChannelTargets, ChannelWritesFit
<1>2. ws[i] \in FittingWrites
  <2>1. i \in 1 .. Len(ws)
    BY <1>1
  <2> HIDE DEF ws
  <2> QED
    BY <1>1, <2>1, MemberOf
<1>3. Sets(ws[i], ws[i].target, ws[i].bits)
  BY <1>2, WriteSets
<1>4. ASSUME NEW j \in i + 1 .. 9
      PROVE  Disjoint(ws[i].target, ws[j].target)
  <2>1. j \in 1 .. 9 /\ i # j
    BY SMT
  <2>2. ws[i].target \in Fields /\ ws[j].target \in Fields
    BY <2>1, ChannelTargetsFields DEF Bystanders
  <2>3. ws[i].target # ws[j].target
    BY <2>1, ChannelTargets, NineOnly
  <2> QED
    BY <2>2, <2>3, TableAssumption
<1> QED
  BY <1>1, <1>3, <1>4 DEF Gives

-----------------------------------------------------------------------------
(* When the running call is through, the fields of the channel hold what   *)
(* was computed for the channel set last.                                  *)
TunedInv ==
  asked => /\ chan \in Channels
           /\ \A i \in 1 .. 9 :
                Becomes(regs, todo, Len(todo),
                        ChannelWrites(chan)[i].target, ChannelWrites(chan)[i].bits)

LEMMA TunedRest ==
  ASSUME TunedInv, asked, todo = <<>>, NEW i \in 1 .. 9
  PROVE  SubRegRead(regs, ChannelWrites(chan)[i].target)
           = ChannelWrites(chan)[i].bits
<1>1. Len(todo) = 0
  OBVIOUS
<1> QED
  BY <1>1, NothingLeft DEF TunedInv

LEMMA TunedStep ==
  ASSUME TunedInv, SettingsInv, [Next]_vars
  PROVE  TunedInv'
<1>1. CASE Reset
  BY <1>1 DEF Reset, TunedInv
<1>2. ASSUME NEW s \in DOMAIN StateCommand, SetState(s)
      PROVE  TunedInv'
  <2>1. /\ todo = <<>> /\ todo' = StateWrites(s) /\ regs' = regs
        /\ chan' = chan /\ asked' = asked
    BY <1>2 DEF SetState
  <2>2. ASSUME NEW i \in 1 .. 9
        PROVE  Untouched(StateWrites(s), Len(StateWrites(s)),
                         ChannelWrites(chan)[i].target)
    BY ChannelTargetsFields, StateLeaves
  <2> QED
    BY <2>1, <2>2, TunedRest, AtRestBecomes DEF TunedInv
<1>3. ASSUME NEW c \in Requests, SetChan(c)
      PROVE  TunedInv'
  <2>1. /\ todo' = ChannelWrites(c) /\ chan' = c /\ c \in Channels
    BY <1>3 DEF SetChan
  <2> QED
    BY <2>1, ChannelGives DEF TunedInv, Becomes
<1>4. ASSUME NEW p \in Powers, SetTxPower(p)
      PROVE  TunedInv'
  <2> DEFINE w == Write("TX_PWR_CTRL", ClipPower(p))
  <2>1. /\ todo = <<>> /\ todo' = <<w>> /\ regs' = regs
        /\ chan' = chan /\ asked' = asked
    BY <1>4 DEF SetTxPower
  <2>2. w.target = "TX_PWR_CTRL"
    BY WriteIs
  <2> HIDE DEF w
  <2>3. Len(<<w>>) = 1 /\ \A i \in 1 .. 1 : <<w>>[i] = w
    BY SMT
  <2>4. ASSUME NEW i \in 1 .. 9
        PROVE  Untouched(<<w>>, Len(<<w>>), ChannelWrites(chan)[i].target)
    <3>1. /\ ChannelWrites(chan)[i].target \in Fields
          /\ ChannelWrites(chan)[i].target # "TX_PWR_CTRL"
      BY ChannelTargetsFields DEF Bystanders, ChannelFieldNames
    <3>2. "TX_PWR_CTRL" \in Fields
      BY ConfiguredFields DEF Bystanders
    <3>3. Disjoint(ChannelWrites(chan)[i].target, "TX_PWR_CTRL")
      BY <3>1, <3>2, TableAssumption
    <3> QED
      BY <2>2, <2>3, <3>3 DEF Untouched
  <2> QED
    BY <2>1, <2>4, TunedRest, AtRestBecomes DEF TunedInv
<1>5. CASE WriteNext
  <2>1. /\ Len(todo') = Len(todo) - 1
        /\ Len(todo) \in Nat \ {0}
        /\ \A f \in Targets, n \in 1 .. Len(todo) : \A v :
             Becomes(regs, todo, n, f, v) => Becomes(regs', todo', n - 1, f, v)
    BY <1>5, WriteNextBecomes DEF SettingsInv
  <2>2. Len(todo) \in 1 .. Len(todo)
    BY SMT, <2>1
  <2>3. chan' = chan /\ asked' = asked
    BY <1>5 DEF WriteNext
  <2>4. \A i \in 1 .. 9 : ChannelWrites(chan)[i].target \in Targets
    BY ChannelTargetsFields DEF Bystanders, Fields
  <2> QED
    BY <2>1, <2>2, <2>3, <2>4 DEF TunedInv
<1>6. CASE UNCHANGED vars
  BY <1>6 DEF vars, TunedInv
<1> QED
  BY <1>1, <1>2, <1>3, <1>4, <1>5, <1>6 DEF Next

(* A channel that treufunk_set_chan has set is the one the chip is tuned   *)
(* to until the next reset, whatever else is called.                       *)
THEOREM TuningCorrect == Spec => []SetChannelIsTuned
<1>1. Init => SettingsInv /\ TunedInv
  BY SettingsInit DEF Init, TunedInv
<1>2. SettingsInv /\ TunedInv /\ [Next]_vars => (SettingsInv /\ TunedInv)'
  BY SettingsStep, TunedStep
<1>3. SettingsInv /\ TunedInv => SetChannelIsTuned
  BY TunedRest, ChannelTunes DEF SetChannelIsTuned, AtRest, TunedInv, Holds
<1> QED
  BY <1>1, <1>2, <1>3, PTL DEF Spec

(* Only a reset of a driver in use makes the channel it believes in wrong: *)
(* as long as treufunk_reset is not called again, the channel that         *)
(* treufunk_set_chan takes for "already set" is set in the chip.           *)
THEOREM ChannelKnown == Spec /\ [][~Reset]_vars => []ChannelAlreadySet
<1> DEFINE Known == chan # 0 => asked
<1>1. Init => SettingsInv /\ TunedInv /\ Known
  BY SettingsInit DEF Init, TunedInv
<1>2. SettingsInv /\ TunedInv /\ [Next]_vars => (SettingsInv /\ TunedInv)'
  BY SettingsStep, TunedStep
<1>3. Known /\ [Next]_vars /\ [~Reset]_vars => Known'
  BY DEF Next, vars, SetState, SetChan, SetTxPower, WriteNext
<1>4. SettingsInv /\ TunedInv /\ Known => ChannelAlreadySet
  BY TunedRest, ChannelTunes DEF ChannelAlreadySet, AtRest, TunedInv, Holds
<1> QED
  BY <1>1, <1>2, <1>3, <1>4, PTL DEF Spec
=============================================================================
