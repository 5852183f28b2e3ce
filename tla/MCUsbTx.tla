------------------------------ MODULE MCUsbTx ------------------------------
(* Instances of UsbTx for TLC: a frame that fills a packet, one that does not. *)
EXTENDS UsbTx

CONSTANTS a1, a2, b1, b2, b3

MCFrames == {<<a1, a2>>, <<b1, b2, b3>>}
=============================================================================
