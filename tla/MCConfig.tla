------------------------------ MODULE MCConfig ------------------------------
(***************************************************************************)
(* Values for TLC: registers that are all clear, all set, or hold every    *)
(* other bit after a global reset.                                         *)
(***************************************************************************)
EXTENDS TreufunkConfig

SampleImages ==
  {[r \in Registers |-> {}], [r \in Registers |-> Bit],
   [r \in Registers |-> {i \in Bit : (i + r) % 2 = 0}]}
=============================================================================
