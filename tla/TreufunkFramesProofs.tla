------------------------ MODULE TreufunkFramesProofs ------------------------
(***************************************************************************)
(* The receive decoder, for every payload, every buffer of the size _recv  *)
(* asks for and every content it may have had before: a frame with at most *)
(* one wrong bit in its SFD comes out byte for byte, however late the      *)
(* receiver was, and one with two wrong bits is refused.                   *)
(***************************************************************************)
EXTENDS TreufunkFrames, TLAPS

(* The damage the decoder copes with: up to two wrong bits in the SFD, and *)
(* any PHR.                                                                *)
BoundedDamage == \A b \in Sfds : EqualBits(SFD, b) >= 6

(* The FIFO fits, and the search sees the buffers' true length.            *)
LargeBuffers == BufferLens \subseteq RxLength .. 255

(* The FIFO fits.                                                          *)
FittingBuffers == \A len \in BufferLens : Fits(len)

Frames ==
  [payload : {p \in Seq(Byte) : Phr(p) <= MaxPktLength},
   sfd : Byte, phr : Byte, slip : 0 .. 2, noise : Byte]

(* The frames the search reads, or refuses, as it should.                  *)
Clear(frame) ==
  frame \in Frames /\ EqualBits(SFD, frame.sfd) >= 6 /\ ~Ambiguous(frame)

LEMMA Inputs ==
  /\ Payloads \subseteq Seq(Byte)
  /\ Sfds \subseteq Byte
  /\ Slips \subseteq 0 .. 2
  /\ NoiseBytes \subseteq Byte
  /\ WrongPhrs \subseteq Byte
  /\ BufferLens \subseteq Nat
  /\ StaleBytes \subseteq Byte
BY Zenon, FramesAssumption

-----------------------------------------------------------------------------
(***************************************************************************)
(* Bytes                                                                   *)
(***************************************************************************)
(* A byte that was split over two by a late receiver comes back together.  *)
LEMMA Realign ==
  ASSUME NEW a \in Byte, NEW b \in Byte, NEW c \in Byte, NEW s \in 0 .. 2
  PROVE  LowByte(256 * LowByte(256 * a + b, s) + LowByte(256 * b + c, s), 8 - s) = b
<1>1. CASE s = 0
  BY SMT, <1>1 DEF LowByte, PowerOfTwo, Byte
<1>2. CASE s = 1
  <2> DEFINE x == LowByte(256 * a + b, 1)
             y == LowByte(256 * b + c, 1)
  <2>1. x = 128 * (a % 2) + (b \div 2)
    BY SMT DEF LowByte, PowerOfTwo, Byte
  <2>2. y = 128 * (b % 2) + (c \div 2)
    BY SMT DEF LowByte, PowerOfTwo, Byte
  <2> HIDE DEF x, y
  <2>3. (256 * x + y) \div 128 = 256 * (a % 2) + b
    BY SMT, <2>1, <2>2 DEF Byte
  <2>4. ((256 * x + y) \div 128) % 256 = b
    BY SMT, <2>3 DEF Byte
  <2>5. LowByte(256 * x + y, 7) = b
    BY SMT, <2>4 DEF LowByte, PowerOfTwo
  <2> QED
    BY SMT, <1>2, <2>5 DEF x, y
<1>3. CASE s = 2
  <2> DEFINE x == LowByte(256 * a + b, 2)
             y == LowByte(256 * b + c, 2)
  <2>1. x = 64 * (a % 4) + (b \div 4)
    BY SMT DEF LowByte, PowerOfTwo, Byte
  <2>2. y = 64 * (b % 4) + (c \div 4)
    BY SMT DEF LowByte, PowerOfTwo, Byte
  <2> HIDE DEF x, y
  <2>3. (256 * x + y) \div 64 = 256 * (a % 4) + b
    BY SMT, <2>1, <2>2 DEF Byte
  <2>4. ((256 * x + y) \div 64) % 256 = b
    BY SMT, <2>3 DEF Byte
  <2>5. LowByte(256 * x + y, 6) = b
    BY SMT, <2>4 DEF LowByte, PowerOfTwo
  <2> QED
    BY SMT, <1>3, <2>5 DEF x, y
<1> QED
  BY SMT, <1>1, <1>2, <1>3

LEMMA LowByteIsByte ==
  ASSUME NEW word \in Nat, NEW s \in 0 .. 8
  PROVE  LowByte(word, s) \in Byte
<1>1. PowerOfTwo[s + 1] \in Nat \ {0}
  BY SMT DEF PowerOfTwo
<1>2. ASSUME NEW p \in Nat \ {0}
      PROVE  (word \div p) % 256 \in 0 .. 255
  BY SMT
<1> QED
  BY <1>1, <1>2 DEF LowByte, Byte

LEMMA TwoBytes ==
  ASSUME NEW a \in Byte, NEW b \in Byte
  PROVE  256 * a + b \in Nat
BY SMT DEF Byte

LEMMA WholeByte ==
  ASSUME NEW a \in Byte, NEW b \in Byte
  PROVE  LowByte(256 * a + b, 0) = b
BY SMT DEF LowByte, PowerOfTwo, Byte

(* The SFD is unlike itself shifted by a bit or two: with at most two bits *)
(* wrong it does not pass for itself in another alignment, but for two     *)
(* wrong ones in front of two ones.                                        *)
LEMMA LateByOne ==
  ASSUME NEW d \in Byte, EqualBits(SFD, d) >= 6
  PROVE  ~(EqualBits(SFD, d \div 2) >= 7)
BY SMTT(60) DEF EqualBits, Same, SFD, Byte

LEMMA LateByTwo ==
  ASSUME NEW d \in Byte, EqualBits(SFD, d) >= 6
  PROVE  ~(EqualBits(SFD, d \div 4) >= 7)
BY SMTT(60) DEF EqualBits, Same, SFD, Byte

LEMMA EarlyByOne ==
  ASSUME NEW d \in Byte, NEW e \in 0 .. 1, EqualBits(SFD, d) >= 6
  PROVE  ~(EqualBits(SFD, (2 * d + e) % 256) >= 7)
BY SMTT(60) DEF EqualBits, Same, SFD, Byte

LEMMA EarlyByTwo ==
  ASSUME NEW d \in Byte, NEW e \in 0 .. 2, EqualBits(SFD, d) >= 6
  PROVE  ~(EqualBits(SFD, (4 * d + e) % 256) >= 7)
BY SMTT(60) DEF EqualBits, Same, SFD, Byte

LEMMA EarlyByTwoOnes ==
  ASSUME NEW d \in Byte, EqualBits(SFD, d) >= 7
  PROVE  ~(EqualBits(SFD, (4 * d + 3) % 256) >= 7)
BY SMTT(60) DEF EqualBits, Same, SFD, Byte

(* What the alignment s shows of an SFD d in front of a PHR p.             *)
Shown(d, p, slip, s) ==
  LowByte(256 * LowByte(d, slip) + LowByte(256 * d + p, slip), s)

(* The byte that begins a bit, or two, inside d and ends in p.             *)
OneInside(d, p) == (2 * d + (p \div 128)) % 256
TwoInside(d, p) == (4 * d + (p \div 64)) % 256

LEMMA InTime ==
  ASSUME NEW d \in Byte, NEW p \in Byte
  PROVE  /\ Shown(d, p, 0, 8) = d
         /\ Shown(d, p, 0, 7) = OneInside(d, p)
         /\ Shown(d, p, 0, 6) = TwoInside(d, p)
<1>1. LowByte(d, 0) = d /\ LowByte(256 * d + p, 0) = p
  BY SMT DEF LowByte, PowerOfTwo, Byte
<1>2. /\ (256 * d + p) \div 256 = d
      /\ (256 * d + p) \div 128 = 2 * d + (p \div 128)
      /\ (256 * d + p) \div 64 = 4 * d + (p \div 64)
      /\ d % 256 = d
  BY SMT DEF Byte
<1>3. PowerOfTwo[9] = 256 /\ PowerOfTwo[8] = 128 /\ PowerOfTwo[7] = 64
  BY SMT DEF PowerOfTwo
<1> QED
  BY <1>1, <1>2, <1>3, 8 + 1 = 9, 7 + 1 = 8, 6 + 1 = 7
     DEF Shown, LowByte, OneInside, TwoInside

LEMMA OneLate ==
  ASSUME NEW d \in Byte, NEW p \in Byte
  PROVE  /\ Shown(d, p, 1, 8) = d \div 2
         /\ Shown(d, p, 1, 7) = d
         /\ Shown(d, p, 1, 6) = OneInside(d, p)
<1> DEFINE x == LowByte(d, 1)
           y == LowByte(256 * d + p, 1)
<1>1. x = d \div 2
  BY SMT DEF LowByte, PowerOfTwo, Byte
<1>2. y = 128 * (d % 2) + (p \div 2)
  BY SMT DEF LowByte, PowerOfTwo, Byte
<1> HIDE DEF x, y
<1>3. /\ (256 * x + y) \div 256 = d \div 2
      /\ (256 * x + y) \div 128 = d
      /\ (256 * x + y) \div 64 = 2 * d + (p \div 128)
  BY SMT, <1>1, <1>2 DEF Byte
<1>4. d % 256 = d /\ (d \div 2) % 256 = d \div 2
  BY SMT DEF Byte
<1>5. PowerOfTwo[9] = 256 /\ PowerOfTwo[8] = 128 /\ PowerOfTwo[7] = 64
  BY SMT DEF PowerOfTwo
<1>6. /\ LowByte(256 * x + y, 8) = d \div 2
      /\ LowByte(256 * x + y, 7) = d
      /\ LowByte(256 * x + y, 6) = OneInside(d, p)
  BY <1>3, <1>4, <1>5, 8 + 1 = 9, 7 + 1 = 8, 6 + 1 = 7
     DEF LowByte, OneInside
<1> QED
  BY <1>6 DEF Shown, x, y

LEMMA TwoLate ==
  ASSUME NEW d \in Byte, NEW p \in Byte
  PROVE  /\ Shown(d, p, 2, 8) = d \div 4
         /\ Shown(d, p, 2, 7) = d \div 2
         /\ Shown(d, p, 2, 6) = d
<1> DEFINE x == LowByte(d, 2)
           y == LowByte(256 * d + p, 2)
<1>1. x = d \div 4
  BY SMT DEF LowByte, PowerOfTwo, Byte
<1>2. y = 64 * (d % 4) + (p \div 4)
  BY SMT DEF LowByte, PowerOfTwo, Byte
<1> HIDE DEF x, y
<1>3. /\ (256 * x + y) \div 256 = d \div 4
      /\ (256 * x + y) \div 128 = d \div 2
      /\ (256 * x + y) \div 64 = d
  BY SMT, <1>1, <1>2 DEF Byte
<1>4. /\ d % 256 = d
      /\ (d \div 2) % 256 = d \div 2
      /\ (d \div 4) % 256 = d \div 4
  BY SMT DEF Byte
<1>5. PowerOfTwo[9] = 256 /\ PowerOfTwo[8] = 128 /\ PowerOfTwo[7] = 64
  BY SMT DEF PowerOfTwo
<1>6. /\ LowByte(256 * x + y, 8) = d \div 4
      /\ LowByte(256 * x + y, 7) = d \div 2
      /\ LowByte(256 * x + y, 6) = d
  BY <1>3, <1>4, <1>5, 8 + 1 = 9, 7 + 1 = 8, 6 + 1 = 7 DEF LowByte
<1> QED
  BY <1>6 DEF Shown, x, y

(* Only the right alignment shows the SFD.                                 *)
LEMMA OneAlignment ==
  ASSUME NEW d \in Byte, NEW p \in Byte, NEW slip \in 0 .. 2,
         EqualBits(SFD, d) >= 6,
         EqualBits(SFD, d) >= 7 \/ ~(p >= 192) \/ slip # 0
  PROVE  /\ EqualBits(SFD, Shown(d, p, slip, 8)) >= 7
              <=> EqualBits(SFD, d) >= 7 /\ slip = 0
         /\ EqualBits(SFD, Shown(d, p, slip, 7)) >= 7
              <=> EqualBits(SFD, d) >= 7 /\ slip = 1
         /\ EqualBits(SFD, Shown(d, p, slip, 6)) >= 7
              <=> EqualBits(SFD, d) >= 7 /\ slip = 2
<1>1. /\ (p \div 128) \in 0 .. 1
      /\ (p \div 64) \in 0 .. 2 \/ ((p \div 64) = 3 /\ p >= 192)
  BY SMT DEF Byte
<1>2. ~(EqualBits(SFD, d \div 2) >= 7)
  BY LateByOne
<1>3. ~(EqualBits(SFD, d \div 4) >= 7)
  BY LateByTwo
<1>4. ~(EqualBits(SFD, OneInside(d, p)) >= 7)
  <2> DEFINE e == p \div 128
  <2>1. e \in 0 .. 1
    BY <1>1
  <2> HIDE DEF e
  <2>2. ~(EqualBits(SFD, (2 * d + e) % 256) >= 7)
    BY ZenonT(30), <2>1, EarlyByOne
  <2> QED
    BY <2>2 DEF OneInside, e
<1>5. ASSUME slip = 0
      PROVE  ~(EqualBits(SFD, TwoInside(d, p)) >= 7)
  <2> DEFINE e == p \div 64
  <2>1. CASE e \in 0 .. 2
    <3> HIDE DEF e
    <3>1. ~(EqualBits(SFD, (4 * d + e) % 256) >= 7)
      BY ZenonT(30), <2>1, EarlyByTwo
    <3> QED
      BY <3>1 DEF TwoInside, e
  <2>2. CASE e = 3 /\ p >= 192
    <3>1. EqualBits(SFD, d) >= 7
      BY <1>5, <2>2
    <3>2. ~(EqualBits(SFD, (4 * d + 3) % 256) >= 7)
      BY Zenon, <3>1, EarlyByTwoOnes
    <3> QED
      BY <2>2, <3>2 DEF TwoInside
  <2> QED
    BY <1>1, <2>1, <2>2
<1>6. 0 # 1 /\ 0 # 2 /\ 1 # 2
  BY SMT
<1>7. CASE slip = 0
  <2>1. /\ Shown(d, p, 0, 8) = d
        /\ Shown(d, p, 0, 7) = OneInside(d, p)
        /\ Shown(d, p, 0, 6) = TwoInside(d, p)
    BY Zenon, InTime
  <2> QED
    BY <1>4, <1>5, <1>6, <1>7, <2>1
<1>8. CASE slip = 1
  <2>1. /\ Shown(d, p, 1, 8) = d \div 2
        /\ Shown(d, p, 1, 7) = d
        /\ Shown(d, p, 1, 6) = OneInside(d, p)
    BY Zenon, OneLate
  <2> QED
    BY <1>2, <1>4, <1>6, <1>8, <2>1
<1>9. CASE slip = 2
  <2>1. /\ Shown(d, p, 2, 8) = d \div 4
        /\ Shown(d, p, 2, 7) = d \div 2
        /\ Shown(d, p, 2, 6) = d
    BY Zenon, TwoLate
  <2> QED
    BY <1>2, <1>3, <1>6, <1>9, <2>1
<1> QED
  BY SMT, <1>7, <1>8, <1>9

-----------------------------------------------------------------------------
(***************************************************************************)
(* The decoder on one frame                                                *)
(***************************************************************************)
LEMMA AirBytes ==
  ASSUME NEW frame \in Frames, NEW k \in Int
  PROVE  OnAir(frame, k) \in Byte
<1>1. /\ frame.sfd \in Byte /\ frame.phr \in Byte /\ frame.noise \in Byte
      /\ frame.payload \in Seq(Byte)
  BY SMT DEF Frames, Byte
<1>2. ASSUME k > SfdPosition + 1, k - SfdPosition - 1 <= Len(frame.payload)
      PROVE  frame.payload[k - SfdPosition - 1] \in Byte
  <2>1. k - SfdPosition - 1 \in 1 .. Len(frame.payload)
    BY SMT, <1>1, <1>2 DEF SfdPosition
  <2> QED
    BY SMT, <1>1, <2>1
<1>3. CASE k <= SfdPosition + 1
  <2>1. 0 \in Byte
    BY SMT DEF Byte
  <2>2. k < SfdPosition \/ k = SfdPosition \/ k = SfdPosition + 1
    BY SMT, <1>3 DEF SfdPosition
  <2> QED
    BY <1>1, <2>1, <2>2 DEF OnAir
<1>4. CASE k > SfdPosition + 1
  <2>1. ~(k < SfdPosition) /\ k # SfdPosition /\ k # SfdPosition + 1
    BY SMT, <1>4 DEF SfdPosition
  <2>2. CASE k - SfdPosition - 1 <= Len(frame.payload)
    BY <1>2, <1>4, <2>1, <2>2 DEF OnAir
  <2>3. CASE ~(k - SfdPosition - 1 <= Len(frame.payload))
    BY <1>1, <2>1, <2>3 DEF OnAir
  <2> QED
    BY <2>2, <2>3
<1>5. k <= SfdPosition + 1 \/ k > SfdPosition + 1
  BY SMT DEF SfdPosition
<1> QED
  BY <1>3, <1>4, <1>5

(* What fifo_read leaves in a buffer that is large enough.                 *)
LEMMA BufferBytes ==
  ASSUME NEW frame \in Frames, fifo = Received(frame),
         NEW len \in Nat, Fits(len), NEW stale, NEW j \in 0 .. RxLength - 1
  PROVE  At(FifoRead(len, stale), j, stale)
           = LowByte(256 * OnAir(frame, j - 1) + OnAir(frame, j), frame.slip)
<1>1. j \in DOMAIN FifoRead(len, stale)
  BY SMT DEF FifoRead, Fits, RxLength
<1>2. FifoRead(len, stale)[j] = fifo[j]
  BY SMT DEF FifoRead, Fits, RxLength
<1> QED
  BY <1>1, <1>2 DEF At, Received

(* The right alignment shows the bytes as they were on the air.            *)
LEMMA RightWindow ==
  ASSUME NEW frame \in Frames, fifo = Received(frame),
         NEW len \in Nat, Fits(len), NEW stale, NEW j \in 0 .. RxLength - 2
  PROVE  Window(FifoRead(len, stale), j, 8 - frame.slip, stale) = OnAir(frame, j)
<1>1. /\ j \in Int /\ j - 1 \in Int /\ j + 1 \in Int
      /\ j \in 0 .. RxLength - 1 /\ j + 1 \in 0 .. RxLength - 1
      /\ j + 1 - 1 = j
  BY SMT DEF RxLength
<1>2. /\ At(FifoRead(len, stale), j, stale)
           = LowByte(256 * OnAir(frame, j - 1) + OnAir(frame, j), frame.slip)
      /\ At(FifoRead(len, stale), j + 1, stale)
           = LowByte(256 * OnAir(frame, j) + OnAir(frame, j + 1), frame.slip)
  BY <1>1, BufferBytes
<1>3. /\ OnAir(frame, j - 1) \in Byte
      /\ OnAir(frame, j) \in Byte
      /\ OnAir(frame, j + 1) \in Byte
  BY <1>1, AirBytes
<1>4. frame.slip \in 0 .. 2
  BY DEF Frames
<1> QED
  BY <1>2, <1>3, <1>4, Realign DEF Window

(* Where the SFD is looked for there is the SFD, behind a zero byte and in *)
(* front of PHR.                                                           *)
LEMMA SfdWindow ==
  ASSUME NEW frame \in Frames, fifo = Received(frame),
         NEW len \in Nat, Fits(len), NEW stale, NEW s
  PROVE  Window(FifoRead(len, stale), SfdPosition, s, stale)
           = Shown(frame.sfd, frame.phr, frame.slip, s)
<1>1. /\ SfdPosition \in 0 .. RxLength - 1
      /\ SfdPosition + 1 \in 0 .. RxLength - 1
      /\ SfdPosition + 1 - 1 = SfdPosition
  BY SMT DEF SfdPosition, RxLength
<1>2. /\ OnAir(frame, SfdPosition - 1) = 0
      /\ OnAir(frame, SfdPosition) = frame.sfd
      /\ OnAir(frame, SfdPosition + 1) = frame.phr
  BY SMT DEF OnAir, SfdPosition
<1>3. frame.sfd \in Byte
  BY DEF Frames
<1>4. ASSUME NEW d \in Byte
      PROVE  256 * 0 + d = d
  BY SMT DEF Byte
<1>5. At(FifoRead(len, stale), SfdPosition, stale)
        = LowByte(frame.sfd, frame.slip)
  <2>1. At(FifoRead(len, stale), SfdPosition, stale)
          = LowByte(256 * OnAir(frame, SfdPosition - 1)
                      + OnAir(frame, SfdPosition), frame.slip)
    BY <1>1, BufferBytes
  <2> QED
    BY <1>2, <1>3, <1>4, <2>1
<1>6. At(FifoRead(len, stale), SfdPosition + 1, stale)
        = LowByte(256 * frame.sfd + frame.phr, frame.slip)
  <2>1. At(FifoRead(len, stale), SfdPosition + 1, stale)
          = LowByte(256 * OnAir(frame, SfdPosition + 1 - 1)
                      + OnAir(frame, SfdPosition + 1), frame.slip)
    BY <1>1, BufferBytes
  <2> QED
    BY <1>1, <1>2, <2>1
<1> QED
  BY <1>5, <1>6 DEF Window, Shown

(* The search finds the alignment, or nothing if two bits are wrong.       *)
LEMMA SearchIsRight ==
  ASSUME NEW frame \in Frames, Clear(frame), fifo = Received(frame),
         NEW len \in RxLength .. 255, NEW stale
  PROVE  FindSfd(FifoRead(len, stale), len % 256, stale)
           = IF EqualBits(SFD, frame.sfd) >= 7 THEN 8 - frame.slip ELSE 0
<1> DEFINE buf == FifoRead(len, stale)
           right == EqualBits(SFD, frame.sfd) >= 7
<1>0. len \in Nat /\ Fits(len)
  BY SMT DEF Fits, RxLength
<1>1. /\ frame.sfd \in Byte /\ frame.phr \in Byte /\ frame.slip \in 0 .. 2
      /\ EqualBits(SFD, frame.sfd) >= 6
      /\ EqualBits(SFD, frame.sfd) >= 7 \/ ~(frame.phr >= 192) \/ frame.slip # 0
  <2>1. /\ frame.sfd \in Byte /\ frame.phr \in Byte /\ frame.slip \in 0 .. 2
        /\ EqualBits(SFD, frame.sfd) >= 6
    BY DEF Frames, Clear
  <2>2. EqualBits(SFD, frame.sfd) \in Int
    BY SMT, <2>1 DEF EqualBits, Same, SFD, Byte
  <2>3. EqualBits(SFD, frame.sfd) < 7 \/ EqualBits(SFD, frame.sfd) >= 7
    BY SMT, <2>2
  <2> QED
    BY <2>1, <2>3 DEF Clear, Ambiguous
<1>2. ~((len % 256) < SfdPosition + 2)
  BY SMT DEF SfdPosition, RxLength
<1>3. ASSUME NEW s
      PROVE  SfdAt(buf, s, stale)
               <=> EqualBits(SFD, Shown(frame.sfd, frame.phr, frame.slip, s)) >= 7
  BY <1>0, SfdWindow DEF SfdAt
<1>4. /\ SfdAt(buf, 8, stale) <=> right /\ frame.slip = 0
      /\ SfdAt(buf, 7, stale) <=> right /\ frame.slip = 1
      /\ SfdAt(buf, 6, stale) <=> right /\ frame.slip = 2
  <2> HIDE DEF buf
  <2>1. /\ SfdAt(buf, 8, stale)
             <=> EqualBits(SFD, Shown(frame.sfd, frame.phr, frame.slip, 8)) >= 7
        /\ SfdAt(buf, 7, stale)
             <=> EqualBits(SFD, Shown(frame.sfd, frame.phr, frame.slip, 7)) >= 7
        /\ SfdAt(buf, 6, stale)
             <=> EqualBits(SFD, Shown(frame.sfd, frame.phr, frame.slip, 6)) >= 7
    BY <1>3
  <2>2. /\ EqualBits(SFD, Shown(frame.sfd, frame.phr, frame.slip, 8)) >= 7
             <=> EqualBits(SFD, frame.sfd) >= 7 /\ frame.slip = 0
        /\ EqualBits(SFD, Shown(frame.sfd, frame.phr, frame.slip, 7)) >= 7
             <=> EqualBits(SFD, frame.sfd) >= 7 /\ frame.slip = 1
        /\ EqualBits(SFD, Shown(frame.sfd, frame.phr, frame.slip, 6)) >= 7
             <=> EqualBits(SFD, frame.sfd) >= 7 /\ frame.slip = 2
    BY <1>1, OneAlignment
  <2>3. SfdAt(buf, 8, stale) <=> right /\ frame.slip = 0
    BY <2>1, <2>2
  <2>4. SfdAt(buf, 7, stale) <=> right /\ frame.slip = 1
    BY <2>1, <2>2
  <2>5. SfdAt(buf, 6, stale) <=> right /\ frame.slip = 2
    BY <2>1, <2>2
  <2> QED
    BY <2>3, <2>4, <2>5
<1> HIDE DEF buf, right
<1>5. FindSfd(buf, len % 256, stale)
        = IF right THEN 8 - frame.slip ELSE 0
  BY SMT, <1>1, <1>2, <1>4 DEF FindSfd
<1> QED
  BY <1>5 DEF buf, right

(* Behind the SFD the moved bytes are the frame's.                         *)
LEMMA ShiftedBytes ==
  ASSUME NEW frame \in Frames, fifo = Received(frame),
         NEW len \in RxLength .. 255, NEW stale, NEW i \in 0 .. 125
  PROVE  At(ShiftData(FifoRead(len, stale), len % 256, 8 - frame.slip, stale),
            i, stale)
           = OnAir(frame, SfdPosition + 1 + i)
<1> DEFINE buf == FifoRead(len, stale)
<1>0. len \in Nat /\ Fits(len)
  BY SMT DEF Fits, RxLength
<1>1. /\ i < LoopEnd(len % 256)
      /\ i + SfdPosition + 1 \in 0 .. RxLength - 2
      /\ i + SfdPosition + 1 = SfdPosition + 1 + i
  BY SMT DEF LoopEnd, SfdPosition, RxLength
<1>2. i \in DOMAIN buf
  BY SMT DEF FifoRead, RxLength
<1>3. Window(buf, i + SfdPosition + 1, 8 - frame.slip, stale)
        = OnAir(frame, i + SfdPosition + 1)
  BY <1>0, <1>1, RightWindow
<1> HIDE DEF buf
<1>4. At(ShiftData(buf, len % 256, 8 - frame.slip, stale), i, stale)
        = Window(buf, i + SfdPosition + 1, 8 - frame.slip, stale)
  BY <1>1, <1>2 DEF ShiftData, At
<1> QED
  BY <1>1, <1>3, <1>4 DEF buf

(* What recv answers.                                                      *)
Answered(answer, frame) ==
  /\ EqualBits(SFD, frame.sfd) >= 7 =>
       /\ answer.ret = PktLen(frame.phr)
       /\ answer.data = [i \in 1 .. PktLen(frame.phr) |->
                           OnAir(frame, SfdPosition + 1 + i)]
  /\ ~(EqualBits(SFD, frame.sfd) >= 7) => answer.ret = -EINVAL

LEMMA LengthRange ==
  ASSUME NEW phr \in Byte
  PROVE  PktLen(phr) \in -2 .. 125
BY SMT DEF PktLen, Byte

LEMMA IntactLength ==
  ASSUME NEW payload \in Seq(Byte), Phr(payload) <= MaxPktLength
  PROVE  PktLen(Phr(payload)) = Len(payload)
<1>1. Len(payload) \in Nat
  OBVIOUS
<1> QED
  BY SMT, <1>1 DEF PktLen, Phr, MaxPktLength

LEMMA SentPhr ==
  ASSUME NEW payload \in Seq(Byte), Phr(payload) <= MaxPktLength
  PROVE  Phr(payload) \in Byte
<1>1. Len(payload) \in Nat /\ Len(payload) + 2 <= 127
  BY DEF Phr, MaxPktLength
<1>2. ASSUME NEW n \in Nat, n + 2 <= 127
      PROVE  n + 2 \in 0 .. 255
  BY ONLY n \in Nat, n + 2 <= 127
<1> QED
  BY <1>1, <1>2 DEF Phr, Byte

LEMMA AnswerIsRight ==
  ASSUME NEW frame \in Frames, Clear(frame), fifo = Received(frame),
         NEW len \in RxLength .. 255, NEW stale
  PROVE  Answered(Answer(len, stale), frame)
<1> DEFINE buf == FifoRead(len, stale)
           shift == FindSfd(buf, len % 256, stale)
           moved == ShiftData(buf, len % 256, shift, stale)
<1>1. frame.phr \in Byte /\ frame.slip \in 0 .. 2
  BY SMT DEF Frames, Byte
<1>2. shift = IF EqualBits(SFD, frame.sfd) >= 7 THEN 8 - frame.slip ELSE 0
  BY SearchIsRight
<1>4. CASE EqualBits(SFD, frame.sfd) >= 7
  <2>1. shift = 8 - frame.slip
    BY <1>2, <1>4
  <2>2. shift > 0 /\ ~(shift = 0)
    BY SMT, <1>1, <2>1
  <2>3. ASSUME NEW i \in 0 .. 125
        PROVE  At(moved, i, stale) = OnAir(frame, SfdPosition + 1 + i)
    BY <2>1, ShiftedBytes
  <2>4. OnAir(frame, SfdPosition + 1 + 0) = frame.phr
    BY SMT DEF OnAir, SfdPosition
  <2>5. At(moved, 0, stale) = frame.phr
    BY <2>3, <2>4, 0 \in 0 .. 125
  <2>6. \A i \in 1 .. PktLen(frame.phr) : i \in 0 .. 125
    BY SMT, <1>1, LengthRange
  <2>7. [i \in 1 .. PktLen(frame.phr) |-> At(moved, i, stale)]
          = [i \in 1 .. PktLen(frame.phr) |-> OnAir(frame, SfdPosition + 1 + i)]
    BY <2>3, <2>6
  <2>8. /\ Answer(len, stale).ret = PktLen(frame.phr)
        /\ Answer(len, stale).data
             = [i \in 1 .. PktLen(frame.phr) |-> At(moved, i, stale)]
    BY ZenonT(30), <2>2, <2>5 DEF Answer
  <2> QED
    BY <1>4, <2>7, <2>8 DEF Answered
<1>5. CASE ~(EqualBits(SFD, frame.sfd) >= 7)
  <2>1. shift = 0
    BY <1>2, <1>5
  <2>2. Answer(len, stale).ret = -EINVAL
    BY ZenonT(30), <2>1 DEF Answer
  <2> QED
    BY <1>5, <2>2 DEF Answered
<1> QED
  BY <1>4, <1>5

-----------------------------------------------------------------------------
(***************************************************************************)
(* Every frame, one after the other                                        *)
(***************************************************************************)
Arrived(frame) == frame \in Frames /\ EqualBits(SFD, frame.sfd) >= 6

FramesInv ==
  /\ fifo # EmptyFifo => Arrived(aired) /\ fifo = Received(aired)
  /\ told # NoAnswer =>
       Arrived(aired) /\ (~Ambiguous(aired) => Answered(told, aired))

(* One more frame, with whatever damage, is a frame.                       *)
LEMMA FrameArrives ==
  ASSUME NEW payload \in Payloads, NEW sfd \in Sfds, NEW slip \in Slips,
         NEW noise \in NoiseBytes, NEW phr \in {Phr(payload)} \cup WrongPhrs,
         Phr(payload) <= MaxPktLength
  PROVE  [payload |-> payload, sfd |-> sfd, phr |-> phr,
          slip |-> slip, noise |-> noise] \in Frames
<1>1. payload \in Seq(Byte)
  BY Zenon, Inputs
<1>2. phr \in Byte
  <2>1. phr = Phr(payload) \/ phr \in WrongPhrs
    OBVIOUS
  <2>2. Phr(payload) \in Byte
    BY <1>1, SentPhr
  <2> QED
    BY Zenon, Inputs, <2>1, <2>2
<1>3. sfd \in Byte /\ slip \in 0 .. 2 /\ noise \in Byte
  BY Zenon, Inputs
<1>4. payload \in {p \in Seq(Byte) : Phr(p) <= MaxPktLength}
  BY <1>1
<1> QED
  BY <1>2, <1>3, <1>4 DEF Frames

LEMMA FramesInit == Init => FramesInv
BY DEF Init, FramesInv

LEMMA FramesStep ==
  ASSUME BoundedDamage, LargeBuffers
  PROVE  FramesInv /\ [Next]_vars => FramesInv'
<1> SUFFICES ASSUME FramesInv, [Next]_vars
             PROVE  FramesInv'
  OBVIOUS
<1>1. ASSUME NEW payload \in Payloads, NEW sfd \in Sfds, NEW slip \in Slips,
             NEW noise \in NoiseBytes,
             NEW phr \in {Phr(payload)} \cup WrongPhrs,
             Arrive([payload |-> payload, sfd |-> sfd, phr |-> phr,
                     slip |-> slip, noise |-> noise])
      PROVE  FramesInv'
  <2> DEFINE frame == [payload |-> payload, sfd |-> sfd, phr |-> phr,
                       slip |-> slip, noise |-> noise]
  <2>1. frame.payload = payload /\ frame.sfd = sfd
    BY Zenon
  <2>2. Phr(payload) <= MaxPktLength
    BY <1>1, <2>1 DEF Arrive
  <2>3. frame \in Frames
    BY Zenon, <2>2, FrameArrives
  <2>4. aired' = frame /\ fifo' = Received(frame) /\ told' = NoAnswer
    BY <1>1 DEF Arrive
  <2>5. EqualBits(SFD, frame.sfd) >= 6
    BY <2>1 DEF BoundedDamage
  <2> HIDE DEF frame
  <2>6. Arrived(frame)
    BY <2>3, <2>5 DEF Arrived
  <2> QED
    BY <2>4, <2>6 DEF FramesInv
<1>2. ASSUME NEW len \in BufferLens, NEW stale \in StaleBytes, Recv(len, stale)
      PROVE  FramesInv'
  <2>1. len \in RxLength .. 255
    BY DEF LargeBuffers
  <2>2. Arrived(aired) /\ fifo = Received(aired)
    BY <1>2 DEF Recv, FramesInv
  <2>3. ASSUME ~Ambiguous(aired)
        PROVE  Answered(Answer(len, stale), aired)
    BY <2>1, <2>2, <2>3, AnswerIsRight DEF Arrived, Clear
  <2>4. aired' = aired /\ told' = Answer(len, stale)
    BY <1>2 DEF Recv
  <2>5. Fits(len)
    BY SMT, <2>1 DEF Fits, RxLength
  <2>6. fifo' = EmptyFifo
    BY <1>2, <2>5 DEF Recv
  <2>7. Arrived(aired') /\ (~Ambiguous(aired') => Answered(told', aired'))
    BY <2>2, <2>3, <2>4
  <2> QED
    BY <2>6, <2>7 DEF FramesInv
<1>3. CASE Done
  BY <1>3 DEF Done, FramesInv
<1>4. CASE UNCHANGED vars
  BY <1>4 DEF vars, FramesInv
<1> QED
  BY <1>1, <1>2, <1>3, <1>4 DEF Next

(* An accepted frame is the one that was on the air, and an intact one is  *)
(* the payload that was sent.                                              *)
THEOREM RecvCorrect ==
  ASSUME BoundedDamage, LargeBuffers
  PROVE  Spec => []TruthfulRecv
<1>1. FramesInv => TruthfulRecv
  <2> SUFFICES ASSUME FramesInv, told # NoAnswer, told.ret >= 0, ~Ambiguous(aired)
               PROVE  /\ told.ret = (aired.phr % 128) - 2
                      /\ \A i \in 1 .. told.ret :
                           told.data[i] = OnAir(aired, SfdPosition + 1 + i)
                      /\ aired.phr = Phr(aired.payload) => told.data = aired.payload
    BY DEF TruthfulRecv
  <2>1. aired \in Frames /\ Answered(told, aired)
    BY DEF FramesInv, Arrived
  <2>2. EqualBits(SFD, aired.sfd) >= 7
    <3>1. ~(-EINVAL >= 0)
      BY SMT DEF EINVAL
    <3> QED
      BY <2>1, <3>1 DEF Answered
  <2>3. /\ told.ret = PktLen(aired.phr)
        /\ told.data = [i \in 1 .. PktLen(aired.phr) |->
                          OnAir(aired, SfdPosition + 1 + i)]
    BY <2>1, <2>2 DEF Answered
  <2>4. ASSUME aired.phr = Phr(aired.payload)
        PROVE  told.data = aired.payload
    <3>1. aired.payload \in Seq(Byte) /\ Phr(aired.payload) <= MaxPktLength
      BY <2>1 DEF Frames
    <3>2. PktLen(aired.phr) = Len(aired.payload)
      BY <2>4, <3>1, IntactLength
    <3>3. ASSUME NEW i \in 1 .. Len(aired.payload)
          PROVE  OnAir(aired, SfdPosition + 1 + i) = aired.payload[i]
      BY SMT, <3>1 DEF OnAir, SfdPosition
    <3>4. aired.payload = [i \in 1 .. Len(aired.payload) |-> aired.payload[i]]
      BY SMT, <3>1
    <3> QED
      BY <2>3, <3>2, <3>3, <3>4
  <2> QED
    BY <2>3, <2>4 DEF PktLen
<1> QED
  BY <1>1, FramesInit, FramesStep, PTL DEF Spec

(* One wrong bit in the SFD is tolerated in every alignment, two in none.  *)
THEOREM ToleranceCorrect ==
  ASSUME BoundedDamage, LargeBuffers
  PROVE  Spec => []SfdTolerance
<1>1. FramesInv => SfdTolerance
  <2> SUFFICES ASSUME FramesInv, told # NoAnswer
               PROVE  /\ EqualBits(SFD, aired.sfd) >= 7 => told.ret # -EINVAL
                      /\ EqualBits(SFD, aired.sfd) = 6 =>
                           told.ret = -EINVAL \/ Ambiguous(aired)
    BY DEF SfdTolerance
  <2>1. aired \in Frames /\ (~Ambiguous(aired) => Answered(told, aired))
    BY DEF FramesInv, Arrived
  <2>2. aired.phr \in Byte
    BY SMT, <2>1 DEF Frames, Byte
  <2>3. PktLen(aired.phr) # -EINVAL
    BY SMT, <2>2, LengthRange DEF EINVAL
  <2>4. ~(6 >= 7)
    BY SMT
  <2>5. EqualBits(SFD, aired.sfd) >= 7 => ~Ambiguous(aired)
    <3>1. EqualBits(SFD, aired.sfd) \in Int
      BY SMT, <2>1 DEF EqualBits, Same, SFD, Frames, Byte
    <3>2. ASSUME NEW n \in Int, n >= 7
          PROVE  ~(n < 7)
      BY SMT, <3>2
    <3> QED
      BY <3>1, <3>2 DEF Ambiguous
  <2> QED
    BY <2>1, <2>3, <2>4, <2>5 DEF Answered
<1> QED
  BY <1>1, FramesInit, FramesStep, PTL DEF Spec

-----------------------------------------------------------------------------
(***************************************************************************)
(* The memory _recv touches, for any damage and any buffer that takes the  *)
(* FIFO, also one whose length the search does not see                     *)
(***************************************************************************)
(* What the search may return.                                             *)
ShiftResults == {0, 6, 7, 8, -EFAULT}

(* The buffer as _recv finds PHR in it.                                    *)
Searched(buf, length, shift, stale) ==
  IF shift > 0 THEN ShiftData(buf, length, shift, stale) ELSE buf

(* Whatever alignment is found, PHR is read from bytes.                    *)
LEMMA PhrIsByte ==
  ASSUME NEW frame \in Frames, fifo = Received(frame),
         NEW len \in Nat, Fits(len), NEW stale \in Byte,
         NEW length \in 0 .. 255, NEW shift \in ShiftResults
  PROVE  At(Searched(FifoRead(len, stale), length, shift, stale), 0, stale) \in Byte
<1> DEFINE buf == FifoRead(len, stale)
<1>1. ASSUME NEW i \in Int
      PROVE  At(buf, i, stale) \in Byte
  <2>1. CASE i \in 0 .. RxLength - 1
    <3>1. At(buf, i, stale)
            = LowByte(256 * OnAir(frame, i - 1) + OnAir(frame, i), frame.slip)
      BY <2>1, BufferBytes
    <3>2. ASSUME NEW k \in Int
          PROVE  OnAir(frame, k) \in Byte
      BY AirBytes
    <3>3. 256 * OnAir(frame, i - 1) + OnAir(frame, i) \in Nat
      <4>1. i - 1 \in Int
        OBVIOUS
      <4> QED
        BY Zenon, <4>1, <3>2, TwoBytes
    <3>4. frame.slip \in 0 .. 8
      BY SMT DEF Frames
    <3> QED
      BY <3>1, <3>3, <3>4, LowByteIsByte
  <2>2. CASE i \notin 0 .. RxLength - 1
    <3>1. i \in 0 .. len - 1 => ~(i < RxLength)
      BY SMT, <2>2 DEF RxLength
    <3>2. At(buf, i, stale) = stale
      BY <3>1 DEF At, FifoRead
    <3> QED
      BY <3>2
  <2> QED
    BY <2>1, <2>2
<1>2. 0 \in DOMAIN buf
  BY SMT DEF FifoRead, Fits, RxLength
<1> HIDE DEF buf
<1>3. CASE ~(shift > 0)
  BY <1>1, <1>3 DEF buf, Searched
<1>4. CASE shift > 0
  <2>1. shift \in 0 .. 8
    BY SMT, <1>4 DEF EFAULT, ShiftResults
  <2>2. 0 + SfdPosition + 1 \in Int /\ 0 + SfdPosition + 1 + 1 \in Int
    BY SMT DEF SfdPosition
  <2>3. Window(buf, 0 + SfdPosition + 1, shift, stale) \in Byte
    <3> DEFINE a == At(buf, 0 + SfdPosition + 1, stale)
               b == At(buf, 0 + SfdPosition + 1 + 1, stale)
    <3>1. a \in Byte /\ b \in Byte
      BY <1>1, <2>2
    <3> HIDE DEF a, b
    <3>2. 256 * a + b \in Nat
      BY <3>1, TwoBytes
    <3>3. LowByte(256 * a + b, shift) \in Byte
      BY <2>1, <3>2, LowByteIsByte
    <3> QED
      BY <3>3 DEF Window, a, b
  <2>4. buf[0] \in Byte
    <3>1. At(buf, 0, stale) \in Byte
      BY <1>1
    <3> QED
      BY <1>2, <3>1 DEF At
  <2>5. At(ShiftData(buf, length, shift, stale), 0, stale) \in Byte
    BY <1>2, <2>3, <2>4 DEF At, ShiftData
  <2> QED
    BY <1>4, <2>5 DEF buf, Searched
<1> QED
  BY <1>3, <1>4

Bounded(answer) ==
  answer.ret \notin {-2, -1} =>
    answer.writes < answer.size /\ answer.reads <= answer.size

(* The loop's look-ahead ends one byte behind the length it sees.          *)
LEMMA AnswerIsBounded ==
  ASSUME NEW frame \in Frames, fifo = Received(frame),
         NEW len \in Nat, Fits(len), NEW stale \in Byte
  PROVE  Bounded(Answer(len, stale))
<1> DEFINE buf == FifoRead(len, stale)
           length == len % 256
           shift == FindSfd(buf, length, stale)
           data == IF shift > 0 THEN ShiftData(buf, length, shift, stale) ELSE buf
           pktLen == PktLen(At(data, 0, stale))
           count == AsSize(pktLen)
           answer == Answer(len, stale)
<1>1. len >= RxLength
  BY SMT DEF Fits, RxLength
<1>2. length \in 0 .. 255 /\ length <= len
  BY SMT, <1>1 DEF RxLength
<1>3. shift \in ShiftResults
  BY Zenon DEF FindSfd, ShiftResults
<1>4. shift = -EFAULT \/ length >= SfdPosition + 2 \/ shift = 0
  <2>1. CASE length < SfdPosition + 2
    BY <2>1 DEF FindSfd
  <2>2. CASE ~(length < SfdPosition + 2)
    BY SMT, <1>2, <2>2 DEF SfdPosition
  <2> QED
    BY <2>1, <2>2
<1>5. pktLen \in -2 .. 125
  <2> HIDE DEF length, shift
  <2>1. At(data, 0, stale) \in Byte
    <3>1. At(Searched(FifoRead(len, stale), length, shift, stale), 0, stale) \in Byte
      BY Zenon, <1>2, <1>3, PhrIsByte
    <3> QED
      BY Zenon, <3>1 DEF Searched
  <2> HIDE DEF data
  <2> QED
    BY <2>1, LengthRange
<1>6. /\ answer.ret = IF shift = 0 THEN -EINVAL ELSE pktLen
      /\ answer.reads = HighestRead(length, shift, count)
      /\ answer.writes = HighestWrite(len, shift, count)
      /\ answer.size = len
  BY ZenonT(30) DEF Answer
<1> HIDE DEF answer, count, pktLen, data, shift, buf
<1>7. CASE shift = 0
  <2>1. answer.reads = SfdPosition + 1
    BY <1>6, <1>7 DEF HighestRead
  <2>2. answer.writes = RxLength - 1
    <3>1. ~(0 > 0)
      BY SMT
    <3>2. answer.writes = Larger(RxLength - 1, Larger(-1, -1))
      BY <1>6, <1>7, <3>1 DEF HighestWrite
    <3> QED
      BY SMT, <3>2 DEF Larger, RxLength
  <2> QED
    BY SMT, <1>1, <1>6, <2>1, <2>2 DEF Bounded, SfdPosition, RxLength, answer
<1>8. CASE shift # 0 /\ pktLen >= 0
  <2>1. count \in 0 .. 125
    BY SMT, <1>5, <1>8 DEF count, AsSize
  <2>2. answer.reads = IF shift > 0 THEN Larger(LoopEnd(length) + SfdPosition + 1, count)
                       ELSE count
    BY <1>6, <1>8 DEF HighestRead
  <2>3. answer.writes = Larger(RxLength - 1,
                               Larger(IF shift > 0 THEN LoopEnd(length) - 1 ELSE -1,
                                      count - 1))
    BY <1>6, <1>8 DEF HighestWrite
  <2>4. answer.reads <= len
    BY SMT, <1>1, <1>2, <2>1, <2>2 DEF Larger, LoopEnd, SfdPosition, RxLength
  <2>5. answer.writes < len
    BY SMT, <1>1, <1>2, <2>1, <2>3 DEF Larger, LoopEnd, SfdPosition, RxLength
  <2> QED
    BY <1>6, <2>4, <2>5 DEF Bounded, answer
<1>9. CASE shift # 0 /\ ~(pktLen >= 0)
  <2>1. pktLen \in {-2, -1}
    BY SMT, <1>5, <1>9
  <2> QED
    BY <1>6, <1>9, <2>1 DEF Bounded, answer
<1> QED
  BY <1>7, <1>8, <1>9 DEF answer

FootprintInv ==
  /\ fifo # EmptyFifo => aired \in Frames /\ fifo = Received(aired)
  /\ told # NoAnswer => Bounded(told)

(* Unless PHR arrives as 0 or 1, _recv writes only into its buffer and     *)
(* reads at most the byte behind it: for any SFD, any PHR, any lateness,   *)
(* any stale content and any buffer the FIFO fits.                         *)
THEOREM FootprintCorrect ==
  ASSUME FittingBuffers
  PROVE  Spec => []FootprintBounded
<1>1. Init => FootprintInv
  BY DEF Init, FootprintInv
<1>2. FootprintInv /\ [Next]_vars => FootprintInv'
  <2> SUFFICES ASSUME FootprintInv, [Next]_vars
               PROVE  FootprintInv'
    OBVIOUS
  <2>1. ASSUME NEW payload \in Payloads, NEW sfd \in Sfds, NEW slip \in Slips,
               NEW noise \in NoiseBytes,
               NEW phr \in {Phr(payload)} \cup WrongPhrs,
               Arrive([payload |-> payload, sfd |-> sfd, phr |-> phr,
                       slip |-> slip, noise |-> noise])
        PROVE  FootprintInv'
    <3> DEFINE frame == [payload |-> payload, sfd |-> sfd, phr |-> phr,
                         slip |-> slip, noise |-> noise]
    <3>1. frame.payload = payload
      BY Zenon
    <3>2. Phr(payload) <= MaxPktLength
      BY <2>1, <3>1 DEF Arrive
    <3>3. frame \in Frames
      BY Zenon, <3>2, FrameArrives
    <3>4. aired' = frame /\ fifo' = Received(frame) /\ told' = NoAnswer
      BY <2>1 DEF Arrive
    <3> HIDE DEF frame
    <3> QED
      BY <3>3, <3>4 DEF FootprintInv
  <2>2. ASSUME NEW len \in BufferLens, NEW stale \in StaleBytes, Recv(len, stale)
        PROVE  FootprintInv'
    <3>1. len \in Nat /\ Fits(len) /\ stale \in Byte
      BY Zenon, Inputs DEF FittingBuffers
    <3>2. /\ aired \in Frames /\ fifo = Received(aired)
          /\ told' = Answer(len, stale) /\ fifo' = EmptyFifo
      BY <2>2, <3>1 DEF Recv, FootprintInv
    <3>3. Bounded(told')
      BY <3>1, <3>2, AnswerIsBounded
    <3> QED
      BY <3>2, <3>3 DEF FootprintInv
  <2>3. CASE Done
    BY <2>3 DEF Done, FootprintInv
  <2>4. CASE UNCHANGED vars
    BY <2>4 DEF vars, FootprintInv
  <2> QED
    BY <2>1, <2>2, <2>3, <2>4 DEF Next
<1>3. FootprintInv => FootprintBounded
  BY DEF FootprintInv, FootprintBounded, Bounded
<1> QED
  BY <1>1, <1>2, <1>3, PTL DEF Spec
=============================================================================
