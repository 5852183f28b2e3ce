----------------------------- MODULE MCByteFifo ----------------------------
(* Instances of ByteFifo for TLC. *)
EXTENDS ByteFifo
=============================================================================
