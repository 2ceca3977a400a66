------------------------- MODULE MCBridgeDelivery -------------------------
(* Instances of the bridge for TLC. *)
EXTENDS BridgeDelivery
=============================================================================
