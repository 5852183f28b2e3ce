----------------------------- MODULE FramePipe -----------------------------
(***************************************************************************)
(* What usb_cdc.c promises of the bulk IN stream (usb_cdc.h:27-31 and the  *)
(* comment of usb_cdc_write): frames enter whole and in order, the host    *)
(* takes the bytes in order and once, and when a session ends everything   *)
(* queued is dropped whole, never a part of it.                            *)
(***************************************************************************)
EXTENDS Integers, Sequences

CONSTANTS
  Frames,    \* the frames relay_poll can submit, as sequences of bytes
  Packet     \* most bytes in a packet

VARIABLES
  pipe,      \* bytes submitted and not yet with the host
  received   \* the packet the host took last in this session

Init == pipe = <<>> /\ received = <<>>

Submit == /\ \E frame \in Frames : pipe' = pipe \o frame
          /\ UNCHANGED received

Deliver == \E k \in 1 .. Packet :
  /\ k <= Len(pipe)
  /\ received' = SubSeq(pipe, 1, k)
  /\ pipe' = SubSeq(pipe, k + 1, Len(pipe))

EndSession == pipe' = <<>> /\ received' = <<>>

Next == Submit \/ Deliver \/ EndSession

Spec == Init /\ [][Next]_<<pipe, received>>
=============================================================================
