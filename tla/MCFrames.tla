------------------------------ MODULE MCFrames ------------------------------
(***************************************************************************)
(* Values for TLC: the shortest and the longest payload, one whose first   *)
(* bytes look like an SFD in each alignment, and bytes with long runs of   *)
(* equal bits; every byte with at most two wrong bits for an SFD.          *)
(***************************************************************************)
EXTENDS TreufunkFrames

Ramp(n) == [i \in 1 .. n |-> (37 * i) % 256]

SamplePayloads ==
  {<<>>, <<167, 83, 41>>, <<78, 156, 0, 0, 167>>, <<255, 255, 0, 255>>,
   Ramp(125), Ramp(126)}

UpToTwoWrongBits == {b \in Byte : EqualBits(SFD, b) >= 6}
=============================================================================
