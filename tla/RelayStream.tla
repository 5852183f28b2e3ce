---------------------------- MODULE RelayStream ----------------------------
(***************************************************************************)
(* Relay implements BurstStream: the rings, the marks and the poll loop    *)
(* together keep the promise of relay.h:24-32.                             *)
(*                                                                         *)
(* One history variable is added, the true idle time: the code only has    *)
(* the difference of two 32-bit timestamps, which loses whole turns of the *)
(* counter.  MaxIdle bounds the idleness considered; the promise holds     *)
(* while it is below TsMod (about 71 minutes) and fails above.             *)
(***************************************************************************)
EXTENDS Relay, SequencesExt

CONSTANT MaxIdle    \* bound: longest idleness considered

VARIABLE quiet      \* history: microseconds since the last stored byte

streamVars == <<vars, quiet>>

Idle(gap) == IF s_have_last THEN quiet + gap ELSE 0

\* An interrupt after `gap' microseconds; a byte stored ends the idleness.
StreamIrq(gap) ==
  /\ Idle(gap) <= MaxIdle
  /\ UsartIrqAfter(gap)
  /\ quiet' = IF s_head' # s_head THEN 0 ELSE Idle(gap)

StreamInit == Init /\ quiet = 0
StreamNext == \/ \E gap \in Gaps : StreamIrq(gap)
              \/ Poll /\ UNCHANGED quiet
StreamSpec == StreamInit /\ [][StreamNext]_streamVars

-----------------------------------------------------------------------------
(* The refinement mapping: cut the ring where the marks are.  A burst is   *)
(* numbered as the mark that opened it; the one whose mark was adopted, or *)
(* lost, is number -1.                                                     *)

\* The burst of the byte at s_tail.
Oldest == IF 0 \in LiveMarks /\ Ahead(LiveMark(0).pos) = 0 THEN 0 ELSE -1

\* Where burst m starts, counted from s_tail; the last ends where the ring does.
Start(m) == IF m = -1 THEN 0 ELSE IF m = Pending THEN Stored ELSE Ahead(LiveMark(m).pos)

Stamp(m) == IF m = -1 THEN s_cur_ts ELSE LiveMark(m).ts

BytesBetween(a, b) == [j \in 1 .. b - a |-> s_data[Slot(Plus(s_tail, a + j - 1, IdxMod))]]

Burst(m) == [ts |-> Stamp(m), data |-> BytesBetween(Start(m), Start(m + 1))]

Bursts == IF Stored = 0 THEN <<>>
          ELSE [i \in 1 .. Pending - Oldest |-> Burst(Oldest + i - 1)]

\* The stamp of the last byte accepted.
LastStamp == Stamp(Pending - 1)

Stream == INSTANCE BurstStream WITH
  Room <- RingSize, Boundaries <- Marks,
  bursts <- Bursts, stamp <- LastStamp, started <- s_have_last,
  clock <- tim2, lost <- s_dropped

\* Bytes are accepted, counted as lost, cut into bursts and handed on exactly
\* as BurstStream says, under every interleaving of interrupt and poll.
RelayImplementsStream == Stream!Spec

\* The frame offered to the sink is the head of the stream: the oldest bytes,
\* of the oldest burst only, with that burst's stamp (relay.h:24-26).
OfferedFrameIsHead ==
  pc \in {"emit", "commit"} =>
    /\ DataFrame.ts = Head(Bursts).ts
    /\ IsPrefix(DataFrame.data, Head(Bursts).data)

\* A byte stored by an interrupt that comes, its own gap included, more than
\* GapUs after the byte before opens a burst (relay.h:24-26, "a run of target
\* bytes with no inter-byte idle gap longer than RELAY_GAP_US"), unless its
\* mark is lost for want of room.
StoresAfter(gap) == StreamIrq(gap) /\ s_head' # s_head

IdleGapOpensBurst ==
  [][\A gap \in Gaps : StoresAfter(gap) /\ Idle(gap) > GapUs /\ Pending < Marks
       => s_mhead' # s_mhead]_streamVars
=============================================================================
