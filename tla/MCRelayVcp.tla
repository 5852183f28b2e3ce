---------------------------- MODULE MCRelayVcp -----------------------------
(* Instances of RelayVcp for TLC. *)
EXTENDS RelayVcp

MCNoGap == {0}
=============================================================================
