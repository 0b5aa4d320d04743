---------------------------- MODULE LinkContract ----------------------------
(***************************************************************************)
(* What the layer above may count on: the life of a transmission and of a  *)
(* received frame, with neither chip states nor polling in sight.          *)
(***************************************************************************)
VARIABLES
  tx, \* the transmission: see TxStates
  rx  \* the frame in the receive path: see RxStates

link == <<tx, rx>>

(* "over": ended on the air and not yet told; "closing": told, and the     *)
(* driver is still on its way back to listening.                           *)
TxStates == {"none", "requested", "on_air", "over", "closing"}

(* "waiting": whole and not yet offered; "offered": RX_COMPLETE is running. *)
RxStates == {"none", "arriving", "waiting", "offered"}

LinkTypeOK == tx \in TxStates /\ rx \in RxStates

LinkInit == tx = "none" /\ rx = "none"

(* A request supersedes whatever became of the previous one.               *)
Request ==
  /\ tx' = "requested"
  /\ rx' = IF rx = "offered" THEN "waiting" ELSE rx

Start == tx = "requested" /\ tx' = "on_air" /\ UNCHANGED rx
End == tx = "on_air" /\ tx' = "over" /\ UNCHANGED rx

(* The end of a transmission is told once, while nothing is received.      *)
Complete ==
  /\ tx = "over"
  /\ rx \in {"none", "arriving"}
  /\ tx' \in {"closing", "none"}
  /\ UNCHANGED rx
Close == tx = "closing" /\ tx' = "none" /\ UNCHANGED rx

Arrive == rx = "none" /\ rx' = "arriving" /\ UNCHANGED tx
Whole == rx = "arriving" /\ rx' = "waiting" /\ UNCHANGED tx
Offer == rx = "waiting" /\ rx' = "offered" /\ UNCHANGED tx

(* Only an offered frame is fetched; one that is not is offered again.     *)
Fetch == rx = "offered" /\ rx' = "none" /\ UNCHANGED tx
TurnDown == rx = "offered" /\ rx' = "waiting" /\ UNCHANGED tx

(* The radio is half duplex: a frame may be lost to a transmission that    *)
(* is about to start or has just been told to be complete, never else.     *)
Lose ==
  /\ tx \in {"requested", "closing"}
  /\ rx' = "none"
  /\ UNCHANGED tx

LinkNext ==
  \/ Request \/ Start \/ End \/ Complete \/ Close
  \/ Arrive \/ Whole \/ Offer \/ Fetch \/ TurnDown \/ Lose

LinkSpec == LinkInit /\ [][LinkNext]_link
=============================================================================
