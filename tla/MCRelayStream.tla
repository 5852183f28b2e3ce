--------------------------- MODULE MCRelayStream ---------------------------
(* Instances of RelayStream for TLC. *)
EXTENDS RelayStream

MCGaps     == {0, 2}
MCIdleGaps == {0, 4}    \* a pause of a whole turn of the counter, or none
=============================================================================
