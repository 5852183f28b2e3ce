----------------------------- MODULE MCRelayUsb ----------------------------
(* Instances of RelayUsb for TLC. *)
EXTENDS RelayUsb

MCNoGap == {0}
=============================================================================
