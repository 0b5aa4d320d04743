--------------------------- MODULE TreufunkChip ---------------------------
(***************************************************************************)
(* The Treufunk (LPRF) transceiver as the driver in src/ sees it: the      *)
(* state machine behind the SM_MAIN register and the frame FIFO, both      *)
(* observed through the phy_status byte.  The chip is hardware: what is    *)
(* stated here is what the driver's code and comments rely on.             *)
(***************************************************************************)
EXTENDS Naturals, Sequences

VARIABLES
  sm,    \* state shown in phy_status
  goal,  \* the state a BUSY chip is on its way to; equal to sm otherwise
  fifo   \* what the frame FIFO holds, oldest first

chip == <<sm, goal, fifo>>

(* The states the netdev driver commands; BUSY is any transition.  (The    *)
(* chip has three more, DEEP_SLEEP, TX_RDY and RX_RDY, that it never uses.) *)
SettledStates == {"SLEEP", "SENDING", "RECEIVING"}
SmStates == SettledStates \cup {"BUSY"}

(* Bytes are told apart by what they are: a reception still in progress,   *)
(* a whole received frame, or a piece of a frame to be sent.               *)
FifoItems == {"part", "frame", "SHR", "PHR", "PSDU"}

ChipTypeOK ==
  /\ sm \in SmStates
  /\ goal \in SettledStates
  /\ sm # "BUSY" => goal = sm
  /\ fifo \in Seq(FifoItems)

ChipInit ==
  /\ sm = "SLEEP"
  /\ goal = "SLEEP"
  /\ fifo = <<>>

(* The fields of the phy_status byte that the driver looks at.             *)
PhyStatus == [sm |-> sm, empty |-> fifo = <<>>]

(***************************************************************************)
(* What the host does to the chip over SPI.                                *)
(***************************************************************************)
(* FIFO_RESETB and SM_RESETB pulled low: FIFO emptied, state machine back  *)
(* to SLEEP, whatever was being sent or received is gone.                  *)
ChipReset ==
  /\ sm' = "SLEEP"
  /\ goal' = "SLEEP"
  /\ fifo' = <<>>

(* A command in SM_COMMAND starts a transition and leaves the FIFO alone.  *)
Command(s) ==
  /\ sm' = "BUSY"
  /\ goal' = s
  /\ UNCHANGED fifo

FifoWrite(item) ==
  /\ fifo' = Append(fifo, item)
  /\ UNCHANGED <<sm, goal>>

(* FRAME_READ shifts the whole FIFO out.                                   *)
FifoDrain ==
  /\ fifo' = <<>>
  /\ UNCHANGED <<sm, goal>>

(***************************************************************************)
(* What the chip does by itself, concurrently with the driver.             *)
(***************************************************************************)
Settle ==
  /\ sm = "BUSY"
  /\ sm' = goal
  /\ UNCHANGED <<goal, fifo>>

(* Preamble detected: bytes begin to arrive in the FIFO.                   *)
RxStart ==
  /\ sm = "RECEIVING"
  /\ fifo = <<>>
  /\ fifo' = <<"part">>
  /\ UNCHANGED <<sm, goal>>

(* The RX length counter runs out: the reception is over and the chip      *)
(* sleeps until the host has fetched the frame.                            *)
RxEnd ==
  /\ sm = "RECEIVING"
  /\ fifo = <<"part">>
  /\ fifo' = <<"frame">>
  /\ sm' = "SLEEP"
  /\ goal' = "SLEEP"

(* The FIFO has been sent; DIRECT_RX = 1 takes the chip straight to RX.    *)
TxEnd ==
  /\ sm = "SENDING"
  /\ fifo' = <<>>
  /\ sm' = "RECEIVING"
  /\ goal' = "RECEIVING"

=============================================================================
