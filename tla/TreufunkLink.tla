---------------------------- MODULE TreufunkLink ----------------------------
(***************************************************************************)
(* The driver implements LinkContract: the transmission and the received   *)
(* frame of the contract, read off tx_active, the chip and the handler     *)
(* that is running.                                                        *)
(***************************************************************************)
EXTENDS Treufunk

(* _isr runs the TX_COMPLETE handler, or goes back to RX after it.         *)
Closing ==
  \/ pc = "tx_cb"
  \/ ret = "listen" /\ pc \in {"ss_resets", "ss_cmd", "ss_done"}

LinkTx ==
  IF txActive
  THEN CASE air = "ended" -> "over"
         [] air = "started" /\ sm = "SENDING" -> "on_air"
         [] OTHER -> "requested"
  ELSE IF Closing THEN "closing" ELSE "none"

LinkRx ==
  CASE fifo = <<"part">> -> "arriving"
    [] fifo = <<"frame">> -> IF pc = "rx_cb" THEN "offered" ELSE "waiting"
    [] OTHER -> "none"

Link == INSTANCE LinkContract WITH tx <- LinkTx, rx <- LinkRx

(* With an upper layer that sends at rest, fetches in its RX_COMPLETE      *)
(* handler and starts nothing else, the polling driver is a link: every    *)
(* completion and every frame it reports took place, once, and a frame is  *)
(* lost only to a transmission about to start or just told to be over.     *)
ImplementsLink == Link!LinkSpec

=============================================================================
