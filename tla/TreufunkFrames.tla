--------------------------- MODULE TreufunkFrames ---------------------------
(***************************************************************************)
(* What becomes of a frame's bytes: the frame _send loads, the stream a    *)
(* receiving chip puts into its FIFO, and _recv, which has to find the SFD *)
(* in it because the chip recognises only 8 of the 32 preamble bits and    *)
(* hands the rest over up to two bits late.  Buffers are functions from    *)
(* 0, as in C; when the driver polls and fetches is the subject of         *)
(* Treufunk, not of this module.                                           *)
(***************************************************************************)
EXTENDS Integers, Sequences

CONSTANTS
  Payloads,   \* what the upper layer sends
  Sfds,       \* what may arrive in place of the SFD
  WrongPhrs,  \* what may arrive in place of PHR
  Slips,      \* by how many bits the receiver may be late
  NoiseBytes, \* what the receiver may hear behind the payload
  BufferLens, \* sizes of the buffers the upper layer gives to recv
  StaleBytes, \* what such a buffer, and the memory behind it, may hold
  SizeRange   \* how many values a size_t has

Byte == 0 .. 255

ASSUME FramesAssumption ==
  /\ Payloads \subseteq Seq(Byte)
  /\ Sfds \subseteq Byte
  /\ WrongPhrs \subseteq Byte
  /\ Slips \subseteq 0 .. 2
  /\ NoiseBytes \subseteq Byte
  /\ BufferLens \subseteq Nat
  /\ StaleBytes \subseteq Byte
  /\ SizeRange \in Nat \ {0}

MaxPktLength == 127
SFD == 167           \* 0xA7
SfdPosition == 3     \* preamble_length - 1
EFAULT == 14
EINVAL == 22

(* The bytes of a reception: the RX length counter of treufunk_reset ends  *)
(* it, whatever the length of the frame.                                   *)
RxLength == 135

VARIABLES
  aired, \* history: the latest frame as it arrived
  fifo,  \* the receiver's FIFO
  told   \* what the latest recv for this frame did and returned

vars == <<aired, fifo, told>>

NoAnswer == [ret |-> -1, data |-> <<-1>>, reads |-> 0, writes |-> 0, size |-> 0]
NoFrame == <<>>
EmptyFifo == <<>>

-----------------------------------------------------------------------------
(***************************************************************************)
(* Bits and bytes                                                          *)
(***************************************************************************)
PowerOfTwo == <<1, 2, 4, 8, 16, 32, 64, 128, 256>>

(* A 16 bit word shifted right by s and cut to its low byte.               *)
LowByte(word, s) == (word \div PowerOfTwo[s + 1]) % 256

(* _number_of_equal_bits over the 8 bits of two bytes.                     *)
Same(x, y, weight) ==
  IF (x \div weight) % 2 = (y \div weight) % 2 THEN 1 ELSE 0
EqualBits(x, y) ==
  Same(x, y, 1) + Same(x, y, 2) + Same(x, y, 4) + Same(x, y, 8)
    + Same(x, y, 16) + Same(x, y, 32) + Same(x, y, 64) + Same(x, y, 128)

-----------------------------------------------------------------------------
(***************************************************************************)
(* Sender and air                                                          *)
(***************************************************************************)
(* PHR as _send computes it: payload and the two FCS bytes it leaves to    *)
(* the chip.                                                               *)
Phr(payload) == Len(payload) + 2

(* SHR, PHR and payload as _send loads them and as they arrive, from the   *)
(* second preamble byte on, for the receiver has used up the first.        *)
OnAir(frame, k) ==
  IF k < SfdPosition THEN 0
  ELSE IF k = SfdPosition THEN frame.sfd
  ELSE IF k = SfdPosition + 1 THEN frame.phr
  ELSE IF k - SfdPosition - 1 <= Len(frame.payload)
       THEN frame.payload[k - SfdPosition - 1]
  ELSE frame.noise

(* The receiver puts it into the FIFO slip bits late.                      *)
Received(frame) ==
  [k \in 0 .. RxLength - 1 |->
     LowByte(256 * OnAir(frame, k - 1) + OnAir(frame, k), frame.slip)]

-----------------------------------------------------------------------------
(***************************************************************************)
(* _recv                                                                   *)
(***************************************************************************)
Fits(len) == RxLength <= len

(* treufunk_fifo_read: a buffer that is too small is left as it is, and    *)
(* the caller is not told.                                                 *)
FifoRead(len, stale) ==
  [i \in 0 .. len - 1 |-> IF Fits(len) /\ i < RxLength THEN fifo[i] ELSE stale]

(* buf[i]; behind the buffer there is whatever the memory holds.           *)
At(buf, i, stale) == IF i \in DOMAIN buf THEN buf[i] ELSE stale

(* The low byte of (buf[i] buf[i+1]) shifted right by s.                   *)
Window(buf, i, s, stale) ==
  LowByte(256 * At(buf, i, stale) + At(buf, i + 1, stale), s)

(* A slip: every bit of the SFD has to be right.                           *)
Faulty_SfdAt(buf, s, stale) ==
  EqualBits(SFD, Window(buf, SfdPosition, s, stale)) = 8

SfdAt(buf, s, stale) ==
  EqualBits(SFD, Window(buf, SfdPosition, s, stale)) >= 7

(* Which of the three alignments shows the SFD, one bit late first.        *)
FindSfd(buf, length, stale) ==
  IF length < SfdPosition + 2 THEN -EFAULT
  ELSE IF SfdAt(buf, 7, stale) THEN 7
  ELSE IF SfdAt(buf, 6, stale) THEN 6
  ELSE IF SfdAt(buf, 8, stale) THEN 8
  ELSE 0

(* A slip: the loop runs on to the end of the buffer it reads ahead in.    *)
Faulty_LoopEnd(length) == length

(* How many bytes the loop writes; it reads up to SfdPosition + 2 bytes    *)
(* ahead of where it writes.                                               *)
LoopEnd(length) == length - SfdPosition - 1

(* The bytes behind the SFD move to the front, aligned.                    *)
ShiftData(buf, length, shift, stale) ==
  [i \in DOMAIN buf |->
     IF i < LoopEnd(length)
     THEN Window(buf, i + SfdPosition + 1, shift, stale)
     ELSE buf[i]]

(* A slip: the eighth bit of PHR is taken for a part of the length.        *)
Faulty_PktLen(phr) == phr - 2

(* PHR counts the FCS.                                                     *)
PktLen(phr) == (phr % 128) - 2

(* An int as a size_t.                                                     *)
AsSize(n) == IF n < 0 THEN n + SizeRange ELSE n

Larger(x, y) == IF x > y THEN x ELSE y

(* The highest index of the buffer that is read, or written, with the      *)
(* search's result and the number of bytes memmove is given: the two bytes *)
(* of the search, the loop with its look-ahead, PHR and memmove's source;  *)
(* fifo_read, the loop and memmove's target.                               *)
HighestRead(length, shift, count) ==
  IF shift = 0 THEN SfdPosition + 1
  ELSE IF shift > 0 THEN Larger(LoopEnd(length) + SfdPosition + 1, count)
  ELSE count

HighestWrite(len, shift, count) ==
  Larger(IF Fits(len) THEN RxLength - 1 ELSE -1,
         Larger(IF shift > 0 THEN LoopEnd(len % 256) - 1 ELSE -1,
                IF shift # 0 THEN count - 1 ELSE -1))

(* The search sees the buffer's length through a uint8_t pointer, and only *)
(* a result of 0 is taken for a failure.  The number of bytes to move is a *)
(* size_t, the result an int.                                              *)
Answer(len, stale) ==
  LET buf == FifoRead(len, stale)
      length == len % 256
      shift == FindSfd(buf, length, stale)
      data == IF shift > 0 THEN ShiftData(buf, length, shift, stale) ELSE buf
      pktLen == PktLen(At(data, 0, stale))
      count == AsSize(pktLen)
  IN  [ret |-> IF shift = 0 THEN -EINVAL ELSE pktLen,
       data |-> IF shift = 0 THEN <<>> ELSE [i \in 1 .. pktLen |-> At(data, i, stale)],
       reads |-> HighestRead(length, shift, count),
       writes |-> HighestWrite(len, shift, count),
       size |-> len]

-----------------------------------------------------------------------------
Init ==
  /\ aired = NoFrame
  /\ fifo = EmptyFifo
  /\ told = NoAnswer

(* A frame is sent and arrives.  _send refuses one that is too long.       *)
Arrive(frame) ==
  /\ fifo = EmptyFifo
  /\ told = NoAnswer
  /\ Phr(frame.payload) <= MaxPktLength
  /\ aired' = frame
  /\ fifo' = Received(frame)
  /\ UNCHANGED told

(* recv; the FIFO has been shifted out if it fitted.                       *)
Recv(len, stale) ==
  /\ fifo # EmptyFifo
  /\ told = NoAnswer
  /\ told' = Answer(len, stale)
  /\ fifo' = IF Fits(len) THEN EmptyFifo ELSE fifo
  /\ UNCHANGED aired

(* The upper layer has dealt with the answer.                              *)
Done ==
  /\ told # NoAnswer
  /\ told' = NoAnswer
  /\ aired' = IF fifo = EmptyFifo THEN NoFrame ELSE aired
  /\ UNCHANGED fifo

Next ==
  \/ \E payload \in Payloads, sfd \in Sfds, slip \in Slips, noise \in NoiseBytes :
       \E phr \in {Phr(payload)} \cup WrongPhrs :
         Arrive([payload |-> payload, sfd |-> sfd, phr |-> phr,
                 slip |-> slip, noise |-> noise])
  \/ \E len \in BufferLens, stale \in StaleBytes : Recv(len, stale)
  \/ Done

Spec == Init /\ [][Next]_vars

-----------------------------------------------------------------------------
(***************************************************************************)
(* Properties                                                              *)
(***************************************************************************)
(* Two wrong SFD bits in front of a PHR that begins with two ones, in a    *)
(* stream that is not late: the search may find an SFD two bits later,     *)
(* made up of the last six bits of the wrong one and the ones of PHR.      *)
Ambiguous(frame) ==
  EqualBits(SFD, frame.sfd) < 7 /\ frame.phr >= 192 /\ frame.slip = 0

(* What recv returns as a payload is what arrived behind PHR, byte for     *)
(* byte, as many bytes as PHR counts before the FCS: the payload that was  *)
(* sent if PHR is intact.  How late the stream came and what was in the    *)
(* buffer do not matter; only the ambiguous frames may be misread.         *)
TruthfulRecv ==
  told # NoAnswer /\ told.ret >= 0 /\ ~Ambiguous(aired) =>
    /\ told.ret = (aired.phr % 128) - 2
    /\ \A i \in 1 .. told.ret :
         told.data[i] = OnAir(aired, SfdPosition + 1 + i)
    /\ aired.phr = Phr(aired.payload) => told.data = aired.payload

(* A frame with at most one wrong bit in its SFD is accepted whatever its  *)
(* PHR; one with two wrong bits is refused and never taken for a frame     *)
(* that came later or earlier by a bit, but for the ambiguous ones.        *)
SfdTolerance ==
  told # NoAnswer =>
    LET right == EqualBits(SFD, aired.sfd)
    IN  /\ right >= 7 => told.ret # -EINVAL
        /\ right = 6 => told.ret = -EINVAL \/ Ambiguous(aired)

(* Wherever a frame is found, and for any buffer that takes the FIFO,      *)
(* fifo_read, the loop and memmove write only into the buffer and read no  *)
(* further than the one byte directly behind it, where the loop's          *)
(* look-ahead ends; but for a PHR of 0 or 1, for which memmove's count     *)
(* wraps around.                                                           *)
FootprintBounded ==
  told # NoAnswer /\ told.ret \notin {-2, -1} =>
    told.writes < told.size /\ told.reads <= told.size

(* _recv writes into the buffer it was given and nowhere else, whatever    *)
(* PHR arrives.                                                            *)
WritesInBuffer == told # NoAnswer => told.writes < told.size
=============================================================================
