----------------------- MODULE TreufunkSettingsProofs -----------------------
(***************************************************************************)
(* What the registers hold in the end.  TreufunkConfigProofs is about one  *)
(* write; here the writes still to come are taken together: the value of a *)
(* field at the end of a call is that of the last write to it, or the one  *)
(* it has now if no write concerns it.  From this follow that what reset   *)
(* configured stays, that commands find a machine able to obey, that the   *)
(* power is the one asked for and that a channel that was set is tuned to. *)
(***************************************************************************)
EXTENDS TreufunkConfigProofs, WellFoundedInduction

(* Write w makes field f read as v, whatever the register held.            *)
Sets(w, f, v) ==
  LET t == Table[w.target]
      u == Table[f]
  IN  /\ u.reg = t.reg
      /\ u.mask \subseteq t.mask
      /\ ShiftRight(ShiftLeft(w.bits, t.offset) \cap u.mask, u.offset) = v

(* None of the first n writes concerns f.                                  *)
Untouched(ws, n, f) == \A i \in 1 .. n : Disjoint(f, ws[i].target)

(* The last of the first n writes that concerns f makes it v.              *)
Gives(ws, n, f, v) ==
  \E i \in 1 .. n : /\ Sets(ws[i], f, v)
                    /\ \A j \in i + 1 .. n : Disjoint(f, ws[j].target)

(* After the first n of the writes ws to registers rg, f reads as v.       *)
Becomes(rg, ws, n, f, v) ==
  Gives(ws, n, f, v) \/ (Untouched(ws, n, f) /\ SubRegRead(rg, f) = v)

-----------------------------------------------------------------------------
(***************************************************************************)
(* Writes in a row                                                         *)
(***************************************************************************)
(* A write to a field itself makes it what was written.                    *)
LEMMA WriteSets ==
  ASSUME NEW w \in FittingWrites
  PROVE  Sets(w, w.target, w.bits)
<1> DEFINE t == Table[w.target]
           up == {i + t.offset : i \in w.bits}
<1>1. /\ t.mask \subseteq Bit
      /\ t.offset \in Bit
      /\ w.bits \subseteq Bit
      /\ \A i \in w.bits : i + t.offset \in t.mask
  BY TableAssumption DEF FittingWrites, Fits
<1>2. \A i \in w.bits : i \in Nat
  BY SMT, <1>1 DEF Bit
<1>3. t.offset \in Nat
  BY SMT, <1>1 DEF Bit
<1> HIDE DEF t
<1>4. ShiftLeft(w.bits, t.offset) \cap t.mask = up
  BY <1>1 DEF ShiftLeft
<1>5. ShiftRight(up, t.offset) = w.bits
  BY <1>2, <1>3, ShiftBack
<1> QED
  BY <1>4, <1>5 DEF Sets, t

(* What a write sets is there to be read after it.                         *)
LEMMA SetIsRead ==
  ASSUME NEW old \in RegsType, NEW w \in FittingWrites, NEW f, NEW v,
         Sets(w, f, v)
  PROVE  SubRegRead(SubRegWrite(old, w.target, w.bits), f) = v
<1> DEFINE t == Table[w.target]
           u == Table[f]
           shifted == ShiftLeft(w.bits, t.offset)
           new == [old EXCEPT ![t.reg] = (old[t.reg] \ t.mask) \cup shifted]
<1>1. t.reg \in Registers
  BY TableAssumption DEF FittingWrites
<1>2. u.reg = t.reg /\ u.mask \subseteq t.mask
  BY DEF Sets
<1>3. new[u.reg] = (old[t.reg] \ t.mask) \cup shifted
  BY <1>1, <1>2 DEF RegsType
<1>4. new[u.reg] \cap u.mask = shifted \cap u.mask
  BY <1>2, <1>3
<1>5. SubRegWrite(old, w.target, w.bits) = new
  BY DEF SubRegWrite
<1>6. SubRegRead(new, f) = ShiftRight(new[u.reg] \cap u.mask, u.offset)
  BY DEF SubRegRead
<1>7. ShiftRight(shifted \cap u.mask, u.offset) = v
  BY DEF Sets
<1> QED
  BY <1>4, <1>5, <1>6, <1>7

(* With nothing left to write, a field becomes what it is.                 *)
LEMMA NothingLeft ==
  ASSUME NEW rg, NEW ws, NEW f, NEW v
  PROVE  Becomes(rg, ws, 0, f, v) <=> SubRegRead(rg, f) = v
<1>1. 1 .. 0 = {}
  BY SMT
<1> QED
  BY <1>1 DEF Becomes, Gives, Untouched

(* Doing the first write changes nothing in what the writes lead to.       *)
LEMMA FirstWriteDone ==
  ASSUME NEW rg \in RegsType, NEW ws \in Seq(FittingWrites),
         NEW n \in 1 .. Len(ws), NEW f \in Targets, NEW v,
         Becomes(rg, ws, n, f, v)
  PROVE  Becomes(SubRegWrite(rg, Head(ws).target, Head(ws).bits), Tail(ws),
                 n - 1, f, v)
<1> DEFINE w == ws[1]
           new == SubRegWrite(rg, w.target, w.bits)
           rest == Tail(ws)
<1>1. w \in FittingWrites /\ Head(ws) = w
  BY SMT
<1>2. \A j \in 1 .. n - 1 : rest[j] = ws[j + 1] /\ j + 1 \in 2 .. n
  BY SMT
<1>3. \A j \in 2 .. n : rest[j - 1] = ws[j] /\ j - 1 \in 1 .. n - 1
  BY SMT
<1> HIDE DEF w, rest
<1>4. CASE Untouched(ws, n, f) /\ SubRegRead(rg, f) = v
  <2>1. Disjoint(f, w.target)
    BY <1>4 DEF Untouched, w
  <2>2. SubRegRead(new, f) = v
    BY <1>1, <1>4, <2>1, WriteIsExact
  <2>3. Untouched(rest, n - 1, f)
    BY SMT, <1>2, <1>4 DEF Untouched
  <2> QED
    BY <1>1, <2>2, <2>3 DEF Becomes, rest
<1>5. ASSUME NEW i \in 1 .. n, Sets(ws[i], f, v),
             \A j \in i + 1 .. n : Disjoint(f, ws[j].target)
      PROVE  Becomes(new, rest, n - 1, f, v)
  <2>1. CASE i = 1
    <3>1. SubRegRead(new, f) = v
      BY <1>1, <1>5, <2>1, SetIsRead DEF w
    <3>2. \A j \in 1 .. n - 1 : j + 1 \in i + 1 .. n
      BY SMT, <2>1
    <3>3. Untouched(rest, n - 1, f)
      BY <1>2, <1>5, <3>2 DEF Untouched
    <3> QED
      BY <3>1, <3>3 DEF Becomes
  <2>2. CASE i # 1
    <3>1. i \in 2 .. n /\ i - 1 \in 1 .. n - 1
      BY SMT, <2>2
    <3>2. Sets(rest[i - 1], f, v)
      BY <1>3, <1>5, <3>1
    <3>3. \A j \in (i - 1) + 1 .. n - 1 : j \in 1 .. n - 1 /\ j + 1 \in i + 1 .. n
      BY SMT
    <3>4. \A j \in (i - 1) + 1 .. n - 1 : Disjoint(f, rest[j].target)
      BY <1>2, <1>5, <3>3
    <3> QED
      BY <3>1, <3>2, <3>4 DEF Becomes, Gives
  <2> QED
    BY <2>1, <2>2
<1> QED
  BY <1>1, <1>4, <1>5 DEF Becomes, Gives, rest

-----------------------------------------------------------------------------
(***************************************************************************)
(* Writes one after another                                                *)
(***************************************************************************)
LEMMA Positions ==
  ASSUME NEW S, NEW a \in Seq(S), NEW b \in Seq(S)
  PROVE  /\ Len(a) \in Nat /\ Len(b) \in Nat
         /\ DOMAIN a = 1 .. Len(a)
         /\ DOMAIN b = 1 .. Len(b)
         /\ DOMAIN (a \o b) = 1 .. Len(a) + Len(b)
         /\ \A j \in 1 .. Len(a) : (a \o b)[j] = a[j]
         /\ \A j \in 1 .. Len(b) : (a \o b)[Len(a) + j] = b[j]
<1>1. /\ Len(a) \in Nat /\ Len(b) \in Nat
      /\ DOMAIN a = 1 .. Len(a)
      /\ DOMAIN b = 1 .. Len(b)
      /\ DOMAIN (a \o b) = 1 .. Len(a) + Len(b)
  BY SMT
<1>2. \A j \in 1 .. Len(a) : (a \o b)[j] = a[j]
  BY SMT
<1>3. \A j \in 1 .. Len(b) : (a \o b)[Len(a) + j] = b[j]
  BY SMT
<1> QED
  BY <1>1, <1>2, <1>3

LEMMA GivenLater ==
  ASSUME NEW S, NEW a \in Seq(S), NEW b \in Seq(S),
         NEW n \in 0 .. Len(b), NEW f, NEW v, Gives(b, n, f, v)
  PROVE  Gives(a \o b, Len(a) + n, f, v)
<1> DEFINE ws == a \o b
           m == Len(a)
<1>1. m \in Nat /\ n \in Nat
  BY SMT
<1>2. \A j \in 1 .. Len(b) : ws[m + j] = b[j]
  BY Positions
<1>3. PICK i \in 1 .. n : /\ Sets(b[i], f, v)
                          /\ \A j \in i + 1 .. n : Disjoint(f, b[j].target)
  BY DEF Gives
<1>4. i \in 1 .. Len(b) /\ m + i \in 1 .. m + n
  BY SMT, <1>1
<1>5. ASSUME NEW j \in (m + i) + 1 .. m + n
      PROVE  Disjoint(f, ws[j].target)
  <2>1. j - m \in i + 1 .. n /\ j - m \in 1 .. Len(b) /\ m + (j - m) = j
    BY SMT, <1>1
  <2> QED
    BY <1>2, <1>3, <2>1
<1> HIDE DEF ws, m
<1>6. Sets(ws[m + i], f, v)
  BY <1>2, <1>3, <1>4
<1>7. Gives(ws, m + n, f, v)
  BY <1>4, <1>5, <1>6 DEF Gives
<1> QED
  BY <1>7 DEF ws, m

LEMMA GivenBefore ==
  ASSUME NEW S, NEW a \in Seq(S), NEW b \in Seq(S),
         NEW n \in 0 .. Len(b), NEW f, NEW v,
         Gives(a, Len(a), f, v), Untouched(b, n, f)
  PROVE  Gives(a \o b, Len(a) + n, f, v)
<1> DEFINE ws == a \o b
           m == Len(a)
<1>1. m \in Nat /\ n \in Nat
  BY SMT
<1>2. \A j \in 1 .. Len(b) : ws[m + j] = b[j]
  BY Positions
<1>3. \A j \in 1 .. m : ws[j] = a[j]
  BY Positions
<1>4. PICK i \in 1 .. m : /\ Sets(a[i], f, v)
                          /\ \A j \in i + 1 .. m : Disjoint(f, a[j].target)
  BY DEF Gives
<1>5. i \in 1 .. m + n
  BY SMT, <1>1
<1>6. ASSUME NEW j \in i + 1 .. m + n
      PROVE  Disjoint(f, ws[j].target)
  <2>1. CASE j <= m
    <3>1. j \in i + 1 .. m /\ j \in 1 .. m
      BY SMT, <1>1, <2>1
    <3> QED
      BY <1>3, <1>4, <3>1
  <2>2. CASE ~(j <= m)
    <3>1. j - m \in 1 .. n /\ j - m \in 1 .. Len(b) /\ m + (j - m) = j
      BY SMT, <1>1, <2>2
    <3> QED
      BY <1>2, <3>1 DEF Untouched
  <2> QED
    BY <2>1, <2>2
<1> HIDE DEF ws, m
<1>7. Sets(ws[i], f, v)
  BY <1>3, <1>4
<1>8. Gives(ws, m + n, f, v)
  BY <1>5, <1>6, <1>7 DEF Gives
<1> QED
  BY <1>8 DEF ws, m

(* The last write of ws to f itself writes these bits.                     *)
LastFor(ws, f, bits) ==
  \E i \in DOMAIN ws :
    /\ ws[i].target = f
    /\ ws[i].bits = bits
    /\ \A j \in DOMAIN ws : ws[j].target = f => j <= i

(* Where every write is to a sub-register, the last one to it decides.     *)
LEMMA LastGives ==
  ASSUME NEW ws \in Seq(FittingWrites),
         \A i \in DOMAIN ws : ws[i].target \in Fields,
         NEW f, NEW bits, LastFor(ws, f, bits)
  PROVE  Gives(ws, Len(ws), f, bits)
<1>1. DOMAIN ws = 1 .. Len(ws) /\ Len(ws) \in Nat
  BY SMT
<1>2. PICK i \in 1 .. Len(ws) :
        /\ ws[i].target = f
        /\ ws[i].bits = bits
        /\ \A j \in 1 .. Len(ws) : ws[j].target = f => j <= i
  BY <1>1 DEF LastFor
<1>3. ws[i] \in FittingWrites
  BY SMT
<1>4. Sets(ws[i], f, bits)
  BY <1>2, <1>3, WriteSets
<1>5. ASSUME NEW j \in i + 1 .. Len(ws)
      PROVE  Disjoint(f, ws[j].target)
  <2>1. j \in 1 .. Len(ws) /\ ~(j <= i)
    BY SMT, <1>1
  <2>2. ws[j].target # f /\ ws[j].target \in Fields /\ f \in Fields
    BY <1>1, <1>2, <2>1
  <2> QED
    BY <2>2, TableAssumption
<1> QED
  BY <1>4, <1>5 DEF Gives

LEMMA LastOfConcat ==
  ASSUME NEW S, NEW a \in Seq(S), NEW b \in Seq(S), NEW f, NEW bits,
         \/ LastFor(b, f, bits)
         \/ /\ LastFor(a, f, bits)
            /\ \A j \in DOMAIN b : b[j].target # f
  PROVE  LastFor(a \o b, f, bits)
<1> DEFINE ws == a \o b
           m == Len(a)
<1>1. /\ m \in Nat /\ Len(b) \in Nat
      /\ DOMAIN a = 1 .. m /\ DOMAIN b = 1 .. Len(b)
      /\ DOMAIN ws = 1 .. m + Len(b)
  BY Positions
<1>2. \A j \in 1 .. Len(b) : ws[m + j] = b[j]
  BY Positions
<1>3. \A j \in 1 .. m : ws[j] = a[j]
  BY Positions
<1> HIDE DEF ws, m
<1>4. CASE LastFor(b, f, bits)
  <2>1. PICK i \in 1 .. Len(b) :
          /\ b[i].target = f
          /\ b[i].bits = bits
          /\ \A j \in 1 .. Len(b) : b[j].target = f => j <= i
    BY <1>1, <1>4 DEF LastFor
  <2>2. m + i \in 1 .. m + Len(b)
    BY SMT, <1>1
  <2>3. ASSUME NEW j \in 1 .. m + Len(b), ws[j].target = f
        PROVE  j <= m + i
    <3>1. CASE j <= m
      BY SMT, <1>1, <3>1
    <3>2. CASE ~(j <= m)
      <4>1. j - m \in 1 .. Len(b) /\ m + (j - m) = j
        BY SMT, <1>1, <3>2
      <4>2. j - m <= i
        BY <1>2, <2>1, <2>3, <4>1
      <4> QED
        BY SMT, <1>1, <4>1, <4>2
    <3> QED
      BY <3>1, <3>2
  <2>4. ws[m + i].target = f /\ ws[m + i].bits = bits
    BY <1>2, <2>1
  <2>5. LastFor(ws, f, bits)
    BY <1>1, <2>2, <2>3, <2>4 DEF LastFor
  <2> QED
    BY <2>5 DEF ws
<1>5. CASE LastFor(a, f, bits) /\ \A j \in DOMAIN b : b[j].target # f
  <2>1. PICK i \in 1 .. m :
          /\ a[i].target = f
          /\ a[i].bits = bits
          /\ \A j \in 1 .. m : a[j].target = f => j <= i
    BY <1>1, <1>5 DEF LastFor
  <2>2. i \in 1 .. m + Len(b)
    BY SMT, <1>1
  <2>3. ASSUME NEW j \in 1 .. m + Len(b), ws[j].target = f
        PROVE  j <= i
    <3>1. CASE j <= m
      <4>1. j \in 1 .. m
        BY SMT, <1>1, <3>1
      <4> QED
        BY <1>3, <2>1, <2>3, <4>1
    <3>2. CASE ~(j <= m)
      <4>1. j - m \in 1 .. Len(b) /\ m + (j - m) = j
        BY SMT, <1>1, <3>2
      <4> QED
        BY <1>1, <1>2, <1>5, <2>3, <4>1
    <3> QED
      BY <3>1, <3>2
  <2>4. ws[i].target = f /\ ws[i].bits = bits
    BY <1>3, <2>1
  <2>5. LastFor(ws, f, bits)
    BY <1>1, <2>2, <2>3, <2>4 DEF LastFor
  <2> QED
    BY <2>5 DEF ws
<1> QED
  BY <1>4, <1>5

-----------------------------------------------------------------------------
(***************************************************************************)
(* The tables                                                              *)
(***************************************************************************)
ChannelFieldNames ==
  {"RX_CHAN_INT", "RX_CHAN_FRAC_H", "RX_CHAN_FRAC_M", "RX_CHAN_FRAC_L",
   "TX_CHAN_INT", "TX_CHAN_FRAC_H", "TX_CHAN_FRAC_M", "TX_CHAN_FRAC_L"}

(* Targets that the configuration does not write.                          *)
Elsewhere ==
  ChannelFieldNames \cup {"RG_SM_MAIN", "SM_COMMAND", "DEM_RESETB"}

LEMMA CheckedIs ==
  \A target, value : /\ Checked(target, value).target = target
                     /\ Checked(target, value).bits = BitsOf(value)
BY DEF Checked

(* The configuration, group by group, writes sub-registers that are not    *)
(* those of channel and state command.                                     *)
LEMMA ConfigurationFields ==
  \A i \in DOMAIN Configuration : Configuration[i].target \in Fields \ Elsewhere
<1> DEFINE W == {w \in FittingWrites : w.target \notin Elsewhere}
<1> USE CheckedIs DEF Elsewhere, ChannelFieldNames
<1>1. \A i \in DOMAIN ClockWrites : ClockWrites[i].target \notin Elsewhere
  BY SMTT(30) DEF ClockWrites
<1>2. \A i \in DOMAIN AnalogueWrites : AnalogueWrites[i].target \notin Elsewhere
  BY SMTT(30) DEF AnalogueWrites
<1>3. \A i \in DOMAIN RxPathWrites : RxPathWrites[i].target \notin Elsewhere
  BY SMTT(30) DEF RxPathWrites
<1>4. \A i \in DOMAIN DemodulatorWrites : DemodulatorWrites[i].target \notin Elsewhere
  BY SMTT(30) DEF DemodulatorWrites
<1>5. \A i \in DOMAIN TxPathWrites : TxPathWrites[i].target \notin Elsewhere
  BY SMTT(30) DEF TxPathWrites
<1>6. \A i \in DOMAIN MachineWrites : MachineWrites[i].target \notin Elsewhere
  BY SMTT(30) DEF MachineWrites
<1>7. \A i \in DOMAIN PulseWrites : PulseWrites[i].target \notin Elsewhere
  BY SMTT(30) DEF PulseWrites
<1>8. ASSUME NEW ws \in Seq(FittingWrites),
             \A i \in DOMAIN ws : ws[i].target \notin Elsewhere
      PROVE  ws \in Seq(W)
  BY SMT, <1>8
<1> HIDE DEF W, Elsewhere
<1>9. Configuration \in Seq(W)
  <2>1. ClockWrites \in Seq(W) /\ AnalogueWrites \in Seq(W)
    BY <1>1, <1>2, <1>8, TableAssumption
  <2>2. RxPathWrites \in Seq(W) /\ DemodulatorWrites \in Seq(W)
    BY <1>3, <1>4, <1>8, TableAssumption
  <2>3. TxPathWrites \in Seq(W) /\ MachineWrites \in Seq(W)
    BY <1>5, <1>6, <1>8, TableAssumption
  <2>4. PulseWrites \in Seq(W)
    BY <1>7, <1>8, TableAssumption
  <2> QED
    BY <2>1, <2>2, <2>3, <2>4 DEF Configuration
<1>10. \A i \in DOMAIN Configuration : Configuration[i] \in W
  BY <1>9
<1>11. \A w \in W : w.target \in Targets \ Elsewhere
  BY DEF W, FittingWrites
<1> QED
  BY <1>10, <1>11 DEF Fields, WholeRegisters, Elsewhere

(* A bounded set of positions has a last one.                              *)
LEMMA LastPosition ==
  ASSUME NEW n \in Nat, NEW T \in SUBSET (1 .. n), T # {}
  PROVE  \E i \in T : \A j \in T : j <= i
<1> DEFINE back == {n - i : i \in T}
<1>1. back \subseteq Nat /\ back # {}
  <2>1. \A i \in 1 .. n : n - i \in Nat
    BY SMT
  <2> QED
    BY <2>1
<1>2. \E x \in back : \A y \in back : ~(<<y, x>> \in OpToRel(<, Nat))
  BY <1>1, NatLessThanWellFounded, WFMin
<1>3. PICK i \in T : \A y \in back : ~(<<y, n - i>> \in OpToRel(<, Nat))
  BY <1>2
<1>4. \A y \in back : ~(y < n - i)
  BY <1>1, <1>3 DEF OpToRel
<1>5. ASSUME NEW j \in T
      PROVE  j <= i
  <2>1. ~(n - j < n - i)
    BY <1>4
  <2> QED
    BY SMT, <2>1
<1> QED
  BY <1>5

LEMMA SettingIsLast ==
  ASSUME NEW f \in Configured
  PROVE  LastFor(Configuration, f, Setting[f])
<1> DEFINE P(i) == /\ i \in DOMAIN Configuration
                   /\ Configuration[i].target = f
                   /\ \A j \in DOMAIN Configuration :
                        Configuration[j].target = f => j <= i
           last == CHOOSE i \in DOMAIN Configuration :
                     /\ Configuration[i].target = f
                     /\ \A j \in DOMAIN Configuration :
                          Configuration[j].target = f => j <= i
           T == {i \in DOMAIN Configuration : Configuration[i].target = f}
<1>1. /\ Len(Configuration) \in Nat
      /\ DOMAIN Configuration = 1 .. Len(Configuration)
  BY ConfigurationFits
<1>2. T \in SUBSET (1 .. Len(Configuration)) /\ T # {}
  BY <1>1 DEF Configured
<1>3. \E i \in T : \A j \in T : j <= i
  BY <1>1, <1>2, LastPosition
<1>4. P(last)
  BY <1>3
<1>5. Setting[f] = Configuration[last].bits
  BY DEF Setting
<1> QED
  BY <1>4, <1>5 DEF LastFor

LEMMA SettingOf ==
  ASSUME NEW f, NEW bits, LastFor(Configuration, f, bits)
  PROVE  f \in Configured /\ Setting[f] = bits
<1>1. DOMAIN Configuration \subseteq Int
  BY ConfigurationFits
<1>2. f \in Configured
  BY DEF LastFor, Configured
<1>3. LastFor(Configuration, f, Setting[f])
  BY <1>2, SettingIsLast
<1>4. PICK i \in DOMAIN Configuration :
        /\ Configuration[i].target = f
        /\ Configuration[i].bits = bits
        /\ \A j \in DOMAIN Configuration : Configuration[j].target = f => j <= i
  BY DEF LastFor
<1>5. PICK k \in DOMAIN Configuration :
        /\ Configuration[k].target = f
        /\ Configuration[k].bits = Setting[f]
        /\ \A j \in DOMAIN Configuration : Configuration[j].target = f => j <= k
  BY <1>3 DEF LastFor
<1>6. i <= k /\ k <= i
  BY <1>4, <1>5
<1>7. i = k
  BY SMT, <1>1, <1>6
<1> QED
  BY <1>2, <1>4, <1>5, <1>7

(* The fields of SM_MAIN that reset and state commands leave set.          *)
MachineFields == {"FIFO_RESETB", "SM_EN", "SM_RESETB", "FIFO_MODE_EN"}

(* A lookup in the table is one in the block of the field.                 *)
LEMMA Blocks ==
  ASSUME NEW f \in Fields
  PROVE  \E block \in {SmFields, PllFields, LdoFields, DemFields, RxFields,
                       ClkAdcFields, TxFields, TimeFields} :
           f \in DOMAIN block /\ Table[f] = block[f]
<1>1. ASSUME NEW g, NEW h, f \in DOMAIN Joined(g, h)
      PROVE  \/ f \in DOMAIN g /\ Joined(g, h)[f] = g[f]
             \/ f \in DOMAIN h /\ Joined(g, h)[f] = h[f]
  BY <1>1 DEF Joined
<1>2. f \in DOMAIN Table /\ f \notin DOMAIN WholeRegisters
  BY DEF Fields, Targets
<1> QED
  BY <1>1, <1>2 DEF Table

(* SM_COMMAND and the machine's fields are all there is in SM_MAIN, and    *)
(* DEM_RESETB is in a register of another block.                           *)
LEMMA MainRegister ==
  ASSUME NEW f \in Fields
  PROVE  Table[f].reg = \h80 => f \in MachineFields \cup {"SM_COMMAND"}
<1>1. PICK block \in {SmFields, PllFields, LdoFields, DemFields, RxFields,
                      ClkAdcFields, TxFields, TimeFields} :
        f \in DOMAIN block /\ Table[f] = block[f]
  BY Blocks
<1>2. \A g \in DOMAIN SmFields : SmFields[g].reg = \h80
        => g \in MachineFields \cup {"SM_COMMAND"}
  BY SMTT(30) DEF SmFields, MachineFields, F
<1>3. \A g \in DOMAIN PllFields : PllFields[g].reg # \h80
  BY SMTT(30) DEF PllFields, F
<1>4. \A g \in DOMAIN LdoFields : LdoFields[g].reg # \h80
  BY SMTT(30) DEF LdoFields, F
<1>5. \A g \in DOMAIN DemFields : DemFields[g].reg # \h80
  BY SMTT(30) DEF DemFields, F
<1>6. \A g \in DOMAIN RxFields : RxFields[g].reg # \h80
  BY SMTT(30) DEF RxFields, F
<1>7. \A g \in DOMAIN ClkAdcFields : ClkAdcFields[g].reg # \h80
  BY SMTT(30) DEF ClkAdcFields, F
<1>8. \A g \in DOMAIN TxFields : TxFields[g].reg # \h80
  BY SMTT(30) DEF TxFields, F
<1>9. \A g \in DOMAIN TimeFields : TimeFields[g].reg # \h80
  BY SMTT(30) DEF TimeFields, F
<1> QED
  BY <1>1, <1>2, <1>3, <1>4, <1>5, <1>6, <1>7, <1>8, <1>9

LEMMA MainEntry ==
  "RG_SM_MAIN" \in Targets /\ Table["RG_SM_MAIN"] = F(\h80, 7, 0)
<1>1. "RG_SM_MAIN" \in DOMAIN WholeRegisters
        /\ WholeRegisters["RG_SM_MAIN"] = F(\h80, 7, 0)
  BY DEF WholeRegisters
<1>2. /\ "RG_SM_MAIN" \notin DOMAIN SmFields
      /\ "RG_SM_MAIN" \notin DOMAIN PllFields
      /\ "RG_SM_MAIN" \notin DOMAIN LdoFields
      /\ "RG_SM_MAIN" \notin DOMAIN DemFields
      /\ "RG_SM_MAIN" \notin DOMAIN RxFields
      /\ "RG_SM_MAIN" \notin DOMAIN ClkAdcFields
      /\ "RG_SM_MAIN" \notin DOMAIN TxFields
      /\ "RG_SM_MAIN" \notin DOMAIN TimeFields
  BY DEF SmFields, PllFields, LdoFields, DemFields, RxFields, ClkAdcFields,
         TxFields, TimeFields
<1> QED
  BY ONLY <1>1, <1>2, JoinedRight DEF Table, Targets

LEMMA MachineEntries ==
  /\ "FIFO_RESETB" \in Targets /\ Table["FIFO_RESETB"] = F(\h80, 3, 3)
  /\ "SM_EN" \in Targets /\ Table["SM_EN"] = F(\h80, 2, 2)
  /\ "SM_RESETB" \in Targets /\ Table["SM_RESETB"] = F(\h80, 1, 1)
  /\ "FIFO_MODE_EN" \in Targets /\ Table["FIFO_MODE_EN"] = F(\h80, 0, 0)
BY SmEntry DEF SmFields

LEMMA DemEntry == "DEM_RESETB" \in Targets
<1>1. "DEM_RESETB" \in DOMAIN DemFields
  BY ONLY DEF DemFields
<1>2. /\ "DEM_RESETB" \notin DOMAIN SmFields
      /\ "DEM_RESETB" \notin DOMAIN PllFields
      /\ "DEM_RESETB" \notin DOMAIN LdoFields
  BY ONLY DEF SmFields, PllFields, LdoFields
<1> QED
  BY ONLY <1>1, <1>2, JoinedLeft, JoinedRight DEF Table, Targets

LEMMA SomeBits ==
  /\ BitsOf(0) = {}
  /\ BitsOf(1) = {0}
  /\ BitsOf(\h0F) = 0 .. 3
<1> DEFINE Odd(n, i) == (n \div Weight[i + 1]) % 2 = 1
<1>1. /\ Weight[0 + 1] = 1 /\ Weight[1 + 1] = 2 /\ Weight[2 + 1] = 4
      /\ Weight[3 + 1] = 8 /\ Weight[4 + 1] = 16 /\ Weight[5 + 1] = 32
      /\ Weight[6 + 1] = 64 /\ Weight[7 + 1] = 128
  BY SMT DEF Weight
<1>2. ASSUME NEW n \in {0, 1}, NEW i \in 1 .. 7
      PROVE  ~Odd(n, i)
  <2>1. \A w \in {2, 4, 8, 16, 32, 64, 128} : n \div w = 0
    BY SMT
  <2>2. i = 1 \/ i = 2 \/ i = 3 \/ i = 4 \/ i = 5 \/ i = 6 \/ i = 7
    BY SMT
  <2>3. Weight[i + 1] \in {2, 4, 8, 16, 32, 64, 128}
    BY <1>1, <2>2
  <2>4. ~(0 % 2 = 1)
    BY SMT
  <2> QED
    BY <2>1, <2>3, <2>4
<1>3. ~Odd(0, 0) /\ Odd(1, 0)
  <2>1. ~((0 \div 1) % 2 = 1) /\ (1 \div 1) % 2 = 1
    BY SMT
  <2> QED
    BY Zenon, <1>1, <2>1
<1>4. Odd(15, 0) /\ Odd(15, 1) /\ Odd(15, 2) /\ Odd(15, 3)
  <2>1. /\ (15 \div 1) % 2 = 1 /\ (15 \div 2) % 2 = 1
        /\ (15 \div 4) % 2 = 1 /\ (15 \div 8) % 2 = 1
    BY SMT
  <2> QED
    BY Zenon, <1>1, <2>1
<1>5. ~Odd(15, 4) /\ ~Odd(15, 5) /\ ~Odd(15, 6) /\ ~Odd(15, 7)
  <2>1. /\ ~((15 \div 16) % 2 = 1) /\ ~((15 \div 32) % 2 = 1)
        /\ ~((15 \div 64) % 2 = 1) /\ ~((15 \div 128) % 2 = 1)
    BY SMT
  <2>2. ~Odd(15, 4) /\ ~Odd(15, 5)
    BY Zenon, <1>1, <2>1
  <2>3. ~Odd(15, 6) /\ ~Odd(15, 7)
    BY Zenon, <1>1, <2>1
  <2> QED
    BY <2>2, <2>3
<1>6. \A n, i : i \in BitsOf(n) <=> i \in Bit /\ Odd(n, i)
  BY DEF BitsOf
<1> HIDE DEF Odd
<1>7. /\ \A i \in Bit : i = 0 \/ i \in 1 .. 7
      /\ \A i \in Bit : i \in 0 .. 3 \/ i = 4 \/ i = 5 \/ i = 6 \/ i = 7
      /\ \A i \in 0 .. 3 : i \in Bit /\ (i = 0 \/ i = 1 \/ i = 2 \/ i = 3)
      /\ 0 \in Bit
  BY SMT DEF Bit
<1>8. BitsOf(0) = {}
  BY <1>2, <1>3, <1>6, <1>7
<1>9. BitsOf(1) = {0}
  BY <1>2, <1>3, <1>6, <1>7
<1>10. BitsOf(15) = 0 .. 3
  <2>1. ASSUME NEW i \in BitsOf(15)
        PROVE  i \in 0 .. 3
    BY <1>5, <1>6, <1>7
  <2>2. ASSUME NEW i \in 0 .. 3
        PROVE  i \in BitsOf(15)
    BY <1>4, <1>6, <1>7
  <2> QED
    BY <2>1, <2>2
<1> QED
  BY <1>8, <1>9, <1>10

(* The reset leaves the state machine and the FIFO enabled and out of      *)
(* reset, and the power at its highest.                                    *)
LEMMA MachineSettings ==
  /\ MachineFields \subseteq Configured
  /\ \A f \in MachineFields : Setting[f] = {0}
  /\ "TX_PWR_CTRL" \in Configured
  /\ Setting["TX_PWR_CTRL"] = BitsOf(15)
<1> DEFINE before == ClockWrites \o AnalogueWrites \o RxPathWrites
                       \o DemodulatorWrites \o TxPathWrites
<1>1. /\ before \in Seq(FittingWrites)
      /\ MachineWrites \in Seq(FittingWrites)
      /\ PulseWrites \in Seq(FittingWrites)
      /\ before \o MachineWrites \in Seq(FittingWrites)
  BY TableAssumption
<1>2. Configuration = (before \o MachineWrites) \o PulseWrites
  BY DEF Configuration
<1> HIDE DEF before
<1>3. /\ LastFor(PulseWrites, "SM_EN", BitsOf(1))
      /\ LastFor(PulseWrites, "FIFO_RESETB", BitsOf(1))
      /\ LastFor(PulseWrites, "SM_RESETB", BitsOf(1))
  BY SMTT(30), CheckedIs DEF LastFor, PulseWrites
<1>4. /\ LastFor(MachineWrites, "FIFO_MODE_EN", BitsOf(1))
      /\ LastFor(MachineWrites, "TX_PWR_CTRL", BitsOf(15))
  BY SMTT(30), CheckedIs DEF LastFor, MachineWrites
<1>5. \A j \in DOMAIN PulseWrites :
        PulseWrites[j].target \notin {"FIFO_MODE_EN", "TX_PWR_CTRL"}
  BY SMTT(30), CheckedIs DEF PulseWrites
<1>6. \A f, bits : LastFor(PulseWrites, f, bits) => LastFor(Configuration, f, bits)
  BY <1>1, <1>2, LastOfConcat
<1>7. \A f, bits : LastFor(MachineWrites, f, bits)
        => LastFor(before \o MachineWrites, f, bits)
  BY <1>1, LastOfConcat
<1>8. \A f \in {"FIFO_MODE_EN", "TX_PWR_CTRL"} : \A bits :
        LastFor(MachineWrites, f, bits) => LastFor(Configuration, f, bits)
  BY <1>1, <1>2, <1>5, <1>7, LastOfConcat
<1>9. /\ LastFor(Configuration, "SM_EN", {0})
      /\ LastFor(Configuration, "FIFO_RESETB", {0})
      /\ LastFor(Configuration, "SM_RESETB", {0})
      /\ LastFor(Configuration, "FIFO_MODE_EN", {0})
      /\ LastFor(Configuration, "TX_PWR_CTRL", BitsOf(15))
  BY <1>3, <1>4, <1>6, <1>8, SomeBits
<1> QED
  BY <1>9, SettingOf DEF MachineFields

-----------------------------------------------------------------------------
(***************************************************************************)
(* The calls                                                               *)
(***************************************************************************)
LEMMA WriteIs ==
  \A target, value : /\ Write(target, value).target = target
                     /\ Write(target, value).bits = BitsOf(value)
BY DEF Write

(* Fields that a state command has no business with.                       *)
Bystanders == Fields \ {"SM_COMMAND", "DEM_RESETB"}

LEMMA CommandsDisjoint ==
  ASSUME NEW f \in Bystanders
  PROVE  /\ Disjoint(f, "SM_COMMAND")
         /\ Disjoint(f, "DEM_RESETB")
         /\ f \notin MachineFields => Disjoint(f, "RG_SM_MAIN")
<1>1. "SM_COMMAND" \in Targets /\ Table["SM_COMMAND"] = F(\h80, 7, 4)
  BY SmEntry DEF SmFields
<1>2. "SM_COMMAND" \in Fields /\ "DEM_RESETB" \in Fields
  BY <1>1, DemEntry DEF Fields, WholeRegisters
<1>3. Disjoint(f, "SM_COMMAND") /\ Disjoint(f, "DEM_RESETB")
  BY <1>2, TableAssumption DEF Bystanders
<1>4. ASSUME f \notin MachineFields
      PROVE  Disjoint(f, "RG_SM_MAIN")
  <2>1. Table[f].reg # \h80
    BY <1>4, MainRegister DEF Bystanders
  <2>2. Table["RG_SM_MAIN"].reg = \h80
    BY MainEntry DEF F
  <2> QED
    BY <2>1, <2>2 DEF Disjoint
<1> QED
  BY <1>3, <1>4

(* The second write of _rx_resets sets all of the machine's fields.        *)
LEMMA MainSets ==
  ASSUME NEW f \in MachineFields
  PROVE  Sets(Write("RG_SM_MAIN", \h0F), f, {0})
<1> DEFINE w == Write("RG_SM_MAIN", \h0F)
<1>1. PICK k \in 0 .. 3 : Table[f] = F(\h80, k, k)
  BY SMT, MachineEntries DEF MachineFields
<1>2. /\ Table[f].reg = \h80
      /\ Table[f].mask = k .. k
      /\ Table[f].offset = k
  BY <1>1 DEF F
<1>3. /\ Table["RG_SM_MAIN"].reg = \h80
      /\ Table["RG_SM_MAIN"].mask = 0 .. 7
      /\ Table["RG_SM_MAIN"].offset = 0
  BY MainEntry DEF F
<1>4. w.target = "RG_SM_MAIN" /\ w.bits = 0 .. 3
  BY WriteIs, SomeBits
<1>5. ShiftLeft(0 .. 3, 0) = 0 .. 3
  <2>1. \A i \in 0 .. 3 : i + 0 = i /\ i \in Bit
    BY SMT DEF Bit
  <2> QED
    BY <2>1 DEF ShiftLeft
<1>6. k .. k = {k} /\ k \in 0 .. 7 /\ k >= k /\ k - k = 0
  BY SMT
<1>7. ShiftRight((0 .. 3) \cap (k .. k), k) = {0}
  <2>1. (0 .. 3) \cap (k .. k) = {k}
    BY <1>6
  <2>2. {i \in {k} : i >= k} = {k}
    BY <1>6
  <2>3. {i - k : i \in {k}} = {0}
    BY <1>6
  <2> QED
    BY <2>1, <2>2, <2>3 DEF ShiftRight
<1> HIDE DEF w
<1>8. Table[f].reg = Table[w.target].reg
      /\ Table[f].mask \subseteq Table[w.target].mask
  BY <1>2, <1>3, <1>4, <1>6
<1>9. ShiftRight(ShiftLeft(w.bits, Table[w.target].offset) \cap Table[f].mask,
                 Table[f].offset) = {0}
  BY <1>2, <1>3, <1>4, <1>5, <1>7
<1>10. Sets(w, f, {0})
  BY ONLY <1>8, <1>9, Zenon DEF Sets
<1> QED
  BY <1>10 DEF w

LEMMA SleepWrites ==
  /\ Len(StateWrites("SLEEP")) = 2
  /\ StateWrites("SLEEP")[1] = Write("SM_COMMAND", 2)
  /\ StateWrites("SLEEP")[2] = Write("SM_COMMAND", 0)
BY DEF StateWrites, StateCommand

LEMMA AwakeWrites ==
  ASSUME NEW s \in {"RECEIVING", "SENDING"}
  PROVE  /\ Len(StateWrites(s)) = 6
         /\ StateWrites(s)[1] = Write("RG_SM_MAIN", \h05)
         /\ StateWrites(s)[2] = Write("RG_SM_MAIN", \h0F)
         /\ StateWrites(s)[3] = Write("DEM_RESETB", 0)
         /\ StateWrites(s)[4] = Write("DEM_RESETB", 1)
         /\ StateWrites(s)[5] = Write("SM_COMMAND", StateCommand[s])
         /\ StateWrites(s)[6] = Write("SM_COMMAND", 0)
BY DEF StateWrites, RxResets

(* A state command leaves the fields it has no business with as they are;  *)
(* the machine's fields it leaves as they are or set.                      *)
LEMMA StateLeaves ==
  ASSUME NEW s \in DOMAIN StateCommand, NEW f \in Bystanders
  PROVE  LET ws == StateWrites(s)
         IN  /\ f \notin MachineFields => Untouched(ws, Len(ws), f)
             /\ s = "SLEEP" => Untouched(ws, Len(ws), f)
             /\ s # "SLEEP" /\ f \in MachineFields
                  => \A n \in 4 .. Len(ws) : Gives(ws, n, f, {0})
<1> DEFINE ws == StateWrites(s)
<1>1. CASE s = "SLEEP"
  <2>1. Len(ws) = 2 /\ ws[1].target = "SM_COMMAND" /\ ws[2].target = "SM_COMMAND"
    BY <1>1, SleepWrites, WriteIs
  <2>2. \A i \in 1 .. 2 : i = 1 \/ i = 2
    BY SMT
  <2>3. Untouched(ws, Len(ws), f)
    BY <2>1, <2>2, CommandsDisjoint DEF Untouched
  <2> QED
    BY <1>1, <2>3
<1>2. CASE s # "SLEEP"
  <2>1. s \in {"RECEIVING", "SENDING"}
    BY <1>2 DEF StateCommand
  <2>2. /\ Len(ws) = 6
        /\ ws[1].target = "RG_SM_MAIN" /\ ws[2] = Write("RG_SM_MAIN", \h0F)
        /\ ws[2].target = "RG_SM_MAIN"
        /\ ws[3].target = "DEM_RESETB" /\ ws[4].target = "DEM_RESETB"
        /\ ws[5].target = "SM_COMMAND" /\ ws[6].target = "SM_COMMAND"
    BY <2>1, AwakeWrites, WriteIs
  <2> HIDE DEF ws
  <2>3. \A i \in 1 .. 6 : i = 1 \/ i = 2 \/ i = 3 \/ i = 4 \/ i = 5 \/ i = 6
    BY SMT
  <2>4. CASE f \notin MachineFields
    <3>1. Untouched(ws, Len(ws), f)
      BY <2>2, <2>3, <2>4, CommandsDisjoint DEF Untouched
    <3> QED
      BY <1>2, <2>4, <3>1 DEF ws
  <2>5. CASE f \in MachineFields
    <3>1. Sets(ws[2], f, {0})
      BY <2>2, <2>5, MainSets
    <3>2. \A j \in 2 + 1 .. 6 : Disjoint(f, ws[j].target)
      <4>1. \A j \in 2 + 1 .. 6 : j = 3 \/ j = 4 \/ j = 5 \/ j = 6
        BY SMT
      <4> QED
        BY <2>2, <4>1, CommandsDisjoint
    <3>3. ASSUME NEW n \in 4 .. Len(ws)
          PROVE  Gives(ws, n, f, {0})
      <4>1. 2 \in 1 .. n /\ \A j \in 2 + 1 .. n : j \in 2 + 1 .. 6
        BY SMT, <2>2
      <4> QED
        BY <3>1, <3>2, <4>1 DEF Gives
    <3> QED
      BY <1>2, <2>5, <3>3 DEF ws
  <2> QED
    BY <2>4, <2>5
<1> QED
  BY <1>1, <1>2

(* What treufunk_reset configured and no other function changes.           *)
Kept == Configured \ {"PLL_VCO_TUNE", "TX_PWR_CTRL"}

LEMMA ConfiguredFields ==
  /\ Configured \subseteq Bystanders
  /\ Configured \cap ChannelFieldNames = {}
  /\ MachineFields \subseteq Kept
  /\ "TX_PWR_CTRL" \in Bystanders \ MachineFields
<1>1. Configured \subseteq Fields \ Elsewhere
  BY ConfigurationFields DEF Configured
<1>2. MachineFields \subseteq Kept
  BY MachineSettings DEF Kept, MachineFields
<1>3. "TX_PWR_CTRL" \in Configured \ MachineFields
  BY MachineSettings DEF MachineFields
<1> QED
  BY <1>1, <1>2, <1>3 DEF Bystanders, Elsewhere

LEMMA ConfigurationGives ==
  ASSUME NEW f \in Configured
  PROVE  Gives(Configuration, Len(Configuration), f, Setting[f])
BY ConfigurationFits, ConfigurationFields, SettingIsLast, LastGives

(* After the whole reset every field that was configured has its setting.  *)
LEMMA ResetGives ==
  ASSUME NEW f \in Configured
  PROVE  Gives(ResetWrites, Len(ResetWrites), f, Setting[f])
<1> DEFINE tail == StateWrites("RECEIVING")
<1>1. "RECEIVING" \in DOMAIN StateCommand
  BY DEF StateCommand
<1>2. tail \in Seq(FittingWrites) /\ Configuration \in Seq(FittingWrites)
  BY <1>1, StateWritesFit, ConfigurationFits
<1>3. Len(tail) = 6 /\ f \in Bystanders
  BY AwakeWrites, ConfiguredFields
<1> HIDE DEF tail
<1>4. Len(Configuration \o tail) = Len(Configuration) + Len(tail)
  BY <1>2
<1>5. Len(tail) \in 0 .. Len(tail) /\ Len(tail) \in 4 .. Len(tail)
  BY SMT, <1>3
<1>6. CASE f \in MachineFields
  <2>1. Gives(tail, Len(tail), f, {0})
    BY <1>1, <1>3, <1>5, <1>6, StateLeaves DEF tail
  <2>2. Setting[f] = {0}
    BY <1>6, MachineSettings
  <2> QED
    BY <1>2, <1>4, <1>5, <2>1, <2>2, GivenLater DEF ResetWrites, tail
<1>7. CASE f \notin MachineFields
  <2>1. Untouched(tail, Len(tail), f)
    BY <1>1, <1>3, <1>7, StateLeaves DEF tail
  <2>2. Gives(Configuration, Len(Configuration), f, Setting[f])
    BY ConfigurationGives
  <2> QED
    BY <1>2, <1>4, <1>5, <2>1, <2>2, GivenBefore DEF ResetWrites, tail
<1> QED
  BY <1>6, <1>7

(* A command other than STATE_CMD_NONE.                                    *)
IsCommand(w) == w.target = "SM_COMMAND" /\ w.bits # {}

(* Only one write of treufunk_set_state is a command, and for RX and TX    *)
(* the machine's fields have been set before it.                           *)
LEMMA StateCommands ==
  ASSUME NEW s \in DOMAIN StateCommand,
         NEW i \in DOMAIN StateWrites(s), IsCommand(StateWrites(s)[i])
  PROVE  /\ s = "SLEEP" => i = 1
         /\ s # "SLEEP" => /\ i = 5
                           /\ \A f \in MachineFields :
                                Gives(StateWrites(s), i - 1, f, {0})
<1> DEFINE ws == StateWrites(s)
<1>1. DOMAIN ws = 1 .. Len(ws)
  BY StateWritesFit
<1>2. CASE s = "SLEEP"
  <2>1. i \in 1 .. 2 /\ ws[2].bits = {}
    BY <1>1, <1>2, SleepWrites, WriteIs, SomeBits
  <2>2. i # 2
    BY <2>1 DEF IsCommand
  <2> QED
    BY SMT, <1>2, <2>1, <2>2
<1>3. CASE s # "SLEEP"
  <2>1. s \in {"RECEIVING", "SENDING"}
    BY <1>3 DEF StateCommand
  <2>2. /\ Len(ws) = 6
        /\ ws[1].target # "SM_COMMAND" /\ ws[2].target # "SM_COMMAND"
        /\ ws[3].target # "SM_COMMAND" /\ ws[4].target # "SM_COMMAND"
        /\ ws[6].bits = {}
    BY <2>1, AwakeWrites, WriteIs, SomeBits
  <2>3. i \in 1 .. 6 /\ i # 1 /\ i # 2 /\ i # 3 /\ i # 4 /\ i # 6
    BY <1>1, <2>2 DEF IsCommand
  <2>4. i = 5 /\ i - 1 \in 4 .. 6
    BY SMT, <2>3
  <2>5. ASSUME NEW f \in MachineFields
        PROVE  Gives(ws, i - 1, f, {0})
    <3>1. f \in Bystanders
      BY ConfiguredFields DEF Kept
    <3> QED
      BY <1>3, <2>2, <2>4, <3>1, StateLeaves
  <2> QED
    BY <1>3, <2>4, <2>5
<1> QED
  BY <1>2, <1>3

LEMMA PastTheTable ==
  ASSUME NEW m \in Nat, NEW i \in 1 .. m + 6, ~(i <= m)
  PROVE  i - m \in 1 .. 6 /\ i = m + (i - m)
BY SMT

LEMMA ResetCommands ==
  ASSUME NEW i \in DOMAIN ResetWrites, IsCommand(ResetWrites[i]),
         NEW f \in MachineFields
  PROVE  Gives(ResetWrites, i - 1, f, {0})
<1> DEFINE tail == StateWrites("RECEIVING")
           m == Len(Configuration)
           k == i - m
<1>1. "RECEIVING" \in DOMAIN StateCommand
  BY DEF StateCommand
<1>2. tail \in Seq(FittingWrites) /\ Configuration \in Seq(FittingWrites)
  BY <1>1, StateWritesFit, ConfigurationFits
<1>3. Len(tail) = 6
  BY AwakeWrites
<1> HIDE DEF tail
<1> HIDE DEF m
<1>4. /\ m \in Nat
      /\ DOMAIN Configuration = 1 .. m
      /\ DOMAIN tail = 1 .. 6
      /\ DOMAIN (Configuration \o tail) = 1 .. m + 6
      /\ \A j \in 1 .. m : (Configuration \o tail)[j] = Configuration[j]
      /\ \A j \in 1 .. 6 : (Configuration \o tail)[m + j] = tail[j]
  <2>1. /\ Len(Configuration) \in Nat
        /\ DOMAIN Configuration = 1 .. Len(Configuration)
        /\ DOMAIN tail = 1 .. Len(tail)
        /\ DOMAIN (Configuration \o tail) = 1 .. Len(Configuration) + Len(tail)
    BY ONLY <1>2, Positions
  <2>2. /\ \A j \in 1 .. Len(Configuration) :
             (Configuration \o tail)[j] = Configuration[j]
        /\ \A j \in 1 .. Len(tail) :
             (Configuration \o tail)[Len(Configuration) + j] = tail[j]
    BY ONLY <1>2, Positions
  <2> QED
    BY <1>3, <2>1, <2>2, Zenon DEF m
<1>5. i \in 1 .. m + 6
  BY <1>4 DEF ResetWrites, tail
<1>6. ~(i <= m)
  <2>1. ASSUME i <= m
        PROVE  FALSE
    <3>1. i \in 1 .. m
      BY SMT, <1>4, <1>5, <2>1
    <3>2. ResetWrites[i] = Configuration[i]
      BY <1>4, <3>1 DEF ResetWrites, tail
    <3>3. Configuration[i].target \notin Elsewhere
      BY <1>4, <3>1, ConfigurationFields
    <3> QED
      BY <3>2, <3>3 DEF IsCommand, Elsewhere
  <2> QED
    BY <2>1
<1>7. k \in 1 .. 6 /\ i = m + k
  BY <1>4, <1>5, <1>6, PastTheTable
<1>8. tail[k] = ResetWrites[i]
  BY <1>4, <1>7 DEF ResetWrites, tail
<1>9. k = 5 /\ Gives(tail, k - 1, f, {0})
  BY <1>1, <1>4, <1>7, <1>8, StateCommands DEF tail
<1>10. k - 1 \in 0 .. Len(tail) /\ i - 1 = m + (k - 1)
  BY SMT, <1>3, <1>4, <1>7, <1>9
<1>11. Gives(Configuration \o tail, m + (k - 1), f, {0})
  BY <1>2, <1>9, <1>10, GivenLater DEF m
<1> QED
  BY <1>10, <1>11 DEF ResetWrites, tail

-----------------------------------------------------------------------------
(***************************************************************************)
(* The invariant                                                           *)
(***************************************************************************)
(* When the running call is through, the fields of the configuration have  *)
(* their settings and the power is the one asked for; when a state command *)
(* is reached, the machine can obey it.                                    *)
KeptInv == \A f \in Kept : Becomes(regs, todo, Len(todo), f, Setting[f])

CommandInv ==
  \A i \in DOMAIN todo : IsCommand(todo[i]) =>
    \A f \in MachineFields : Becomes(regs, todo, i - 1, f, {0})

PowerInv ==
  /\ power \in 0 .. 255
  /\ Becomes(regs, todo, Len(todo), "TX_PWR_CTRL",
             BitsOf(IF power <= 15 THEN power ELSE 15))

SettingsInv == WritesInv /\ KeptInv /\ CommandInv /\ PowerInv

(* A call that begins at rest finds a field as it is, and leaves it so if  *)
(* it has nothing to do with it.                                           *)
LEMMA AtRestBecomes ==
  ASSUME NEW rg, NEW ws, NEW f, NEW v,
         SubRegRead(rg, f) = v,
         \/ Untouched(ws, Len(ws), f)
         \/ Gives(ws, Len(ws), f, v)
  PROVE  Becomes(rg, ws, Len(ws), f, v)
BY DEF Becomes

LEMMA AtRestHolds ==
  ASSUME SettingsInv, todo = <<>>
  PROVE  /\ \A f \in Kept : SubRegRead(regs, f) = Setting[f]
         /\ SubRegRead(regs, "TX_PWR_CTRL")
              = BitsOf(IF power <= 15 THEN power ELSE 15)
<1>1. Len(todo) = 0
  OBVIOUS
<1> QED
  BY <1>1, NothingLeft DEF SettingsInv, KeptInv, PowerInv

(* A write whose turn it is.                                               *)
LEMMA WriteNextBecomes ==
  ASSUME WritesInv, WriteNext
  PROVE  /\ todo' = Tail(todo)
         /\ Len(todo') = Len(todo) - 1
         /\ Len(todo) \in Nat \ {0}
         /\ \A f \in Targets, n \in 1 .. Len(todo) : \A v :
              Becomes(regs, todo, n, f, v) => Becomes(regs', todo', n - 1, f, v)
<1>1. todo \in Seq(FittingWrites) /\ todo # <<>> /\ regs \in RegsType
  BY DEF WritesInv, WriteNext
<1>2. Head(todo) \in FittingWrites
  BY <1>1
<1>3. Table[Head(todo).target].reg \notin ReadOnly
  BY <1>2 DEF FittingWrites, Fits
<1>4. /\ regs' = SubRegWrite(regs, Head(todo).target, Head(todo).bits)
      /\ todo' = Tail(todo)
  BY <1>3 DEF WriteNext
<1>5. Len(todo) \in Nat \ {0} /\ Len(Tail(todo)) = Len(todo) - 1
  BY <1>1
<1> QED
  BY <1>1, <1>4, <1>5, FirstWriteDone

(* A reset leads to all settings, whatever the registers held before it.   *)
LEMMA ResetEstablishes ==
  ASSUME NEW rg
  PROVE  /\ \A f \in Kept :
              Becomes(rg, ResetWrites, Len(ResetWrites), f, Setting[f])
         /\ \A i \in DOMAIN ResetWrites : IsCommand(ResetWrites[i]) =>
              \A f \in MachineFields : Becomes(rg, ResetWrites, i - 1, f, {0})
         /\ Becomes(rg, ResetWrites, Len(ResetWrites), "TX_PWR_CTRL",
                    BitsOf(IF 15 <= 15 THEN 15 ELSE 15))
<1>1. \A f \in Configured :
        Becomes(rg, ResetWrites, Len(ResetWrites), f, Setting[f])
  BY ResetGives DEF Becomes
<1>2. \A i \in DOMAIN ResetWrites : IsCommand(ResetWrites[i]) =>
        \A f \in MachineFields : Becomes(rg, ResetWrites, i - 1, f, {0})
  BY ResetCommands DEF Becomes
<1>3. Becomes(rg, ResetWrites, Len(ResetWrites), "TX_PWR_CTRL", BitsOf(15))
  BY <1>1, MachineSettings
<1> QED
  BY <1>1, <1>2, <1>3 DEF Kept

LEMMA SettingsInit == Init => SettingsInv
<1> SUFFICES ASSUME Init
             PROVE  SettingsInv
  OBVIOUS
<1>1. todo = ResetWrites /\ power = 15
  BY DEF Init
<1>2. KeptInv
  BY <1>1, ResetEstablishes DEF KeptInv
<1>3. CommandInv
  BY <1>1, ResetEstablishes DEF CommandInv
<1>4. PowerInv
  <2>1. 15 \in 0 .. 255
    BY SMT
  <2> QED
    BY <1>1, <2>1, ResetEstablishes DEF PowerInv
<1> QED
  BY <1>2, <1>3, <1>4, WritesInit DEF SettingsInv

(* A call with writes that have nothing to do with the configuration.      *)
LEMMA CallKeeps ==
  ASSUME SettingsInv, todo = <<>>, regs' = regs,
         \A f \in Kept : Untouched(todo', Len(todo'), f)
  PROVE  KeptInv'
<1>1. \A f \in Kept : SubRegRead(regs', f) = Setting[f]
  BY AtRestHolds
<1> QED
  BY <1>1, AtRestBecomes DEF KeptInv

LEMMA CallKeepsPower ==
  ASSUME SettingsInv, todo = <<>>, regs' = regs, power' = power,
         Untouched(todo', Len(todo'), "TX_PWR_CTRL")
  PROVE  PowerInv'
<1>1. SubRegRead(regs', "TX_PWR_CTRL")
        = BitsOf(IF power' <= 15 THEN power' ELSE 15)
  BY AtRestHolds
<1>2. power' \in 0 .. 255
  BY DEF SettingsInv, PowerInv
<1> QED
  BY <1>1, <1>2, AtRestBecomes DEF PowerInv

LEMMA SetStateKeeps ==
  ASSUME SettingsInv, NEW s \in DOMAIN StateCommand, SetState(s)
  PROVE  KeptInv' /\ CommandInv' /\ PowerInv'
<1> DEFINE ws == StateWrites(s)
<1>1. todo = <<>> /\ todo' = ws /\ regs' = regs /\ power' = power
  BY DEF SetState
<1>2. \A f \in Kept : SubRegRead(regs', f) = Setting[f]
  BY <1>1, AtRestHolds
<1>3. KeptInv'
  <2>1. ASSUME NEW f \in Kept
        PROVE  Untouched(ws, Len(ws), f) \/ Gives(ws, Len(ws), f, Setting[f])
    <3>1. f \in Bystanders
      BY ConfiguredFields DEF Kept
    <3>2. CASE f \in MachineFields /\ s # "SLEEP"
      <4>1. Len(ws) = 6
        BY <3>2, AwakeWrites DEF StateCommand
      <4>2. Len(ws) \in 4 .. Len(ws)
        BY SMT, <4>1
      <4>3. Gives(ws, Len(ws), f, {0})
        BY <3>1, <3>2, <4>2, StateLeaves
      <4> QED
        BY <3>2, <4>3, MachineSettings
    <3>3. CASE ~(f \in MachineFields /\ s # "SLEEP")
      BY <3>1, <3>3, StateLeaves
    <3> QED
      BY <3>2, <3>3
  <2> QED
    BY <1>1, <1>2, <2>1, AtRestBecomes DEF KeptInv
<1>4. CommandInv'
  <2>1. ASSUME NEW i \in DOMAIN ws, IsCommand(ws[i]), NEW f \in MachineFields
        PROVE  Becomes(regs', ws, i - 1, f, {0})
    <3>1. CASE s = "SLEEP"
      <4>1. i - 1 = 0
        BY <2>1, <3>1, StateCommands
      <4>2. SubRegRead(regs', f) = {0}
        BY <1>2, ConfiguredFields, MachineSettings
      <4> QED
        BY <4>1, <4>2, NothingLeft
    <3>2. CASE s # "SLEEP"
      BY <2>1, <3>2, StateCommands DEF Becomes
    <3> QED
      BY <3>1, <3>2
  <2> QED
    BY <1>1, <2>1 DEF CommandInv
<1>5. PowerInv'
  <2>1. Untouched(ws, Len(ws), "TX_PWR_CTRL")
    BY ConfiguredFields, StateLeaves
  <2> QED
    BY <1>1, <2>1, CallKeepsPower
<1> QED
  BY <1>3, <1>4, <1>5

LEMMA ChannelTargets ==
  ASSUME NEW c
  PROVE  /\ Len(ChannelWrites(c)) = 9
         /\ ChannelWrites(c)[1].target = "RX_CHAN_INT"
         /\ ChannelWrites(c)[2].target = "RX_CHAN_FRAC_H"
         /\ ChannelWrites(c)[3].target = "RX_CHAN_FRAC_M"
         /\ ChannelWrites(c)[4].target = "RX_CHAN_FRAC_L"
         /\ ChannelWrites(c)[5].target = "TX_CHAN_INT"
         /\ ChannelWrites(c)[6].target = "TX_CHAN_FRAC_H"
         /\ ChannelWrites(c)[7].target = "TX_CHAN_FRAC_M"
         /\ ChannelWrites(c)[8].target = "TX_CHAN_FRAC_L"
         /\ ChannelWrites(c)[9].target = "PLL_VCO_TUNE"
BY WriteIs DEF ChannelWrites

LEMMA NineOnly == \A i \in 1 .. 9 : \/ i = 1 \/ i = 2 \/ i = 3 \/ i = 4 \/ i = 5
                                    \/ i = 6 \/ i = 7 \/ i = 8 \/ i = 9
BY SMT

LEMMA ChannelTargetsFields ==
  ASSUME NEW c, NEW i \in 1 .. 9
  PROVE  /\ ChannelWrites(c)[i].target \in ChannelFieldNames \cup {"PLL_VCO_TUNE"}
         /\ ChannelWrites(c)[i].target \in Bystanders \ MachineFields
<1>1. ChannelWrites(c)[i].target \in ChannelFieldNames \cup {"PLL_VCO_TUNE"}
  BY ChannelTargets, NineOnly DEF ChannelFieldNames
<1>2. ChannelFieldNames \cup {"PLL_VCO_TUNE"} \subseteq Targets
  BY ChannelFields DEF LowField, ChannelFieldNames
<1> QED
  BY <1>1, <1>2
     DEF ChannelFieldNames, Bystanders, Fields, WholeRegisters, MachineFields

LEMMA SetChanKeeps ==
  ASSUME SettingsInv, NEW c, SetChan(c)
  PROVE  KeptInv' /\ CommandInv' /\ PowerInv'
<1> DEFINE ws == ChannelWrites(c)
<1>1. /\ todo = <<>> /\ todo' = ws /\ regs' = regs /\ power' = power
      /\ c \in Channels
  BY DEF SetChan
<1>2. Len(ws) = 9 /\ DOMAIN ws = 1 .. 9
  BY <1>1, ChannelTargets, ChannelWritesFit
<1>3. ASSUME NEW f \in Kept \cup {"TX_PWR_CTRL"}
      PROVE  Untouched(ws, Len(ws), f)
  <2>1. f \in Fields /\ f \notin ChannelFieldNames \cup {"PLL_VCO_TUNE"}
    BY ConfiguredFields DEF Kept, Bystanders, ChannelFieldNames
  <2>2. \A i \in 1 .. 9 :
          ws[i].target \in ChannelFieldNames \cup {"PLL_VCO_TUNE"}
            /\ ws[i].target \in Fields
    BY ChannelTargetsFields DEF Bystanders
  <2>3. \A i \in 1 .. 9 : f # ws[i].target
    BY <2>1, <2>2
  <2> QED
    BY <1>2, <2>1, <2>2, <2>3, TableAssumption DEF Untouched
<1>4. \A i \in DOMAIN ws : ~IsCommand(ws[i])
  BY <1>2, ChannelTargetsFields DEF IsCommand, Bystanders
<1> HIDE DEF ws
<1>5. KeptInv'
  BY <1>1, <1>3, CallKeeps
<1>6. CommandInv'
  BY <1>1, <1>4 DEF CommandInv
<1>7. PowerInv'
  BY <1>1, <1>3, CallKeepsPower
<1> QED
  BY <1>5, <1>6, <1>7

LEMMA SetTxPowerKeeps ==
  ASSUME SettingsInv, NEW p \in 0 .. 255, SetTxPower(p)
  PROVE  KeptInv' /\ CommandInv' /\ PowerInv'
<1> DEFINE w == Write("TX_PWR_CTRL", ClipPower(p))
           ws == <<w>>
<1>1. todo = <<>> /\ todo' = ws /\ regs' = regs /\ power' = p
  BY DEF SetTxPower
<1>2. ws \in Seq(FittingWrites) /\ w \in FittingWrites
  BY PowerWriteFits
<1>3. w.target = "TX_PWR_CTRL" /\ w.bits = BitsOf(ClipPower(p))
  BY WriteIs
<1> HIDE DEF w
<1>4. Len(ws) = 1 /\ ws[1] = w /\ DOMAIN ws = {1} /\ 1 .. 1 = {1}
  BY SMT
<1> HIDE DEF ws
<1>5. KeptInv'
  <2>1. ASSUME NEW f \in Kept
        PROVE  Disjoint(f, "TX_PWR_CTRL")
    BY ConfiguredFields, TableAssumption DEF Kept, Bystanders
  <2>2. \A f \in Kept : Untouched(todo', Len(todo'), f)
    BY <1>1, <1>3, <1>4, <2>1 DEF Untouched
  <2> QED
    BY <1>1, <2>2, CallKeeps
<1>6. CommandInv'
  BY <1>1, <1>3, <1>4 DEF CommandInv, IsCommand
<1>7. PowerInv'
  <2>1. Sets(ws[1], "TX_PWR_CTRL", BitsOf(ClipPower(p)))
    BY <1>2, <1>3, <1>4, WriteSets
  <2>2. 1 + 1 .. 1 = {}
    BY SMT
  <2>3. Gives(ws, 1, "TX_PWR_CTRL", BitsOf(ClipPower(p)))
    BY <1>4, <2>1, <2>2 DEF Gives
  <2>4. ClipPower(p) = IF p <= 15 THEN p ELSE 15
    BY SMT DEF ClipPower
  <2> QED
    BY <1>1, <1>4, <2>3, <2>4 DEF PowerInv, Becomes
<1> QED
  BY <1>5, <1>6, <1>7

LEMMA ResetKeeps ==
  ASSUME Reset
  PROVE  KeptInv' /\ CommandInv' /\ PowerInv'
<1>1. todo' = ResetWrites /\ power' = 15
  BY DEF Reset
<1>2. 15 \in 0 .. 255
  BY SMT
<1> QED
  BY <1>1, <1>2, ResetEstablishes DEF KeptInv, CommandInv, PowerInv

LEMMA WriteKeeps ==
  ASSUME SettingsInv, WriteNext
  PROVE  KeptInv' /\ CommandInv' /\ PowerInv'
<1>1. /\ todo' = Tail(todo)
      /\ Len(todo') = Len(todo) - 1
      /\ Len(todo) \in Nat \ {0}
      /\ \A f \in Targets, n \in 1 .. Len(todo) : \A v :
           Becomes(regs, todo, n, f, v) => Becomes(regs', todo', n - 1, f, v)
  BY WriteNextBecomes DEF SettingsInv
<1>2. Len(todo) \in 1 .. Len(todo)
  BY SMT, <1>1
<1>3. Bystanders \subseteq Targets
  BY DEF Bystanders, Fields
<1>4. KeptInv'
  BY <1>1, <1>2, <1>3, ConfiguredFields DEF SettingsInv, KeptInv, Kept
<1>5. CommandInv'
  <2>1. ASSUME NEW i \in DOMAIN todo', IsCommand(todo'[i]), NEW f \in MachineFields
        PROVE  Becomes(regs', todo', i - 1, f, {0})
    <3>1. todo \in Seq(FittingWrites) /\ todo # <<>>
      BY DEF SettingsInv, WritesInv, WriteNext
    <3>2. /\ i + 1 \in DOMAIN todo
          /\ todo'[i] = todo[i + 1]
          /\ i \in 1 .. Len(todo)
          /\ (i + 1) - 1 = i
      BY SMT, <1>1, <2>1, <3>1
    <3>3. Becomes(regs, todo, i, f, {0})
      BY <2>1, <3>2 DEF SettingsInv, CommandInv
    <3> QED
      BY <1>1, <1>3, <3>2, <3>3, ConfiguredFields DEF Kept
  <2> QED
    BY <2>1 DEF CommandInv
<1>6. PowerInv'
  <2>1. power' = power
    BY DEF WriteNext
  <2> QED
    BY <1>1, <1>2, <1>3, <2>1, ConfiguredFields DEF SettingsInv, PowerInv
<1> QED
  BY <1>4, <1>5, <1>6

LEMMA SettingsStep ==
  ASSUME SettingsInv, [Next]_vars
  PROVE  SettingsInv'
<1>1. WritesInv'
  BY WritesStep DEF SettingsInv
<1>2. CASE Reset
  BY <1>1, <1>2, ResetKeeps DEF SettingsInv
<1>3. ASSUME NEW s \in DOMAIN StateCommand, SetState(s)
      PROVE  SettingsInv'
  BY <1>1, <1>3, SetStateKeeps DEF SettingsInv
<1>4. ASSUME NEW c \in Requests, SetChan(c)
      PROVE  SettingsInv'
  BY <1>1, <1>4, SetChanKeeps DEF SettingsInv
<1>5. ASSUME NEW p \in Powers, SetTxPower(p)
      PROVE  SettingsInv'
  <2>1. p \in 0 .. 255
    BY ConfigAssumption
  <2> QED
    BY <1>1, <1>5, <2>1, SetTxPowerKeeps DEF SettingsInv
<1>6. CASE WriteNext
  BY <1>1, <1>6, WriteKeeps DEF SettingsInv
<1>7. CASE UNCHANGED vars
  BY <1>1, <1>7 DEF vars, SettingsInv, KeptInv, CommandInv, PowerInv
<1> QED
  BY <1>2, <1>3, <1>4, <1>5, <1>6, <1>7 DEF Next

-----------------------------------------------------------------------------
(* After a reset and whatever calls came later, every field that           *)
(* treufunk_reset configured still has its setting, except the two fields  *)
(* that channel and power own.                                             *)
THEOREM ConfigurationCorrect == Spec => []ConfigurationKept
<1>1. Init => SettingsInv
  BY SettingsInit
<1>2. SettingsInv /\ [Next]_vars => SettingsInv'
  BY SettingsStep
<1>3. SettingsInv => ConfigurationKept
  BY AtRestHolds DEF ConfigurationKept, AtRest, Holds, Kept
<1> QED
  BY <1>1, <1>2, <1>3, PTL DEF Spec

(* treufunk_get_txpower tells what was asked for last, at most 15,         *)
(* whatever channels, states and resets came in between.                   *)
THEOREM PowerCorrect == Spec => []PowerIsAsked
<1>1. Init => SettingsInv
  BY SettingsInit
<1>2. SettingsInv /\ [Next]_vars => SettingsInv'
  BY SettingsStep
<1>3. SettingsInv => PowerIsAsked
  BY AtRestHolds DEF PowerIsAsked, AtRest, Holds
<1> QED
  BY <1>1, <1>2, <1>3, PTL DEF Spec

(* A state command always finds the state machine enabled, and machine and *)
(* FIFO out of reset.                                                      *)
THEOREM CommandsCorrect == Spec => CommandsReachMachine
<1>1. Init => SettingsInv
  BY SettingsInit
<1>2. SettingsInv /\ [Next]_vars => SettingsInv'
  BY SettingsStep
<1>3. SettingsInv /\ [Next]_vars =>
        [~AtRest /\ Head(todo).target = "SM_COMMAND" /\ Head(todo).bits # {}
           => \A f \in {"SM_EN", "SM_RESETB", "FIFO_RESETB"} :
                Holds(f) = {0}]_vars
  <2> SUFFICES ASSUME SettingsInv, ~AtRest,
                      Head(todo).target = "SM_COMMAND", Head(todo).bits # {},
                      NEW f \in {"SM_EN", "SM_RESETB", "FIFO_RESETB"}
               PROVE  Holds(f) = {0}
    OBVIOUS
  <2>1. todo \in Seq(FittingWrites) /\ todo # <<>>
    BY DEF SettingsInv, WritesInv, AtRest
  <2>2. 1 \in DOMAIN todo /\ Head(todo) = todo[1] /\ 1 - 1 = 0
    BY <2>1
  <2>3. f \in MachineFields
    BY DEF MachineFields
  <2>4. IsCommand(todo[1])
    BY <2>2 DEF IsCommand
  <2>5. Becomes(regs, todo, 0, f, {0})
    BY <2>2, <2>3, <2>4 DEF SettingsInv, CommandInv
  <2> QED
    BY <2>5, NothingLeft DEF Holds
<1> QED
  BY <1>1, <1>2, <1>3, PTL DEF Spec, CommandsReachMachine
=============================================================================
