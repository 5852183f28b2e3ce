------------------------------- MODULE Relay -------------------------------
(***************************************************************************)
(* The timestamped relay core of the probe, src/relay.c, together with the *)
(* interrupt handler that feeds it (USART1_IRQHandler, src/board_f042.c).  *)
(*                                                                         *)
(* Two actors share the state.  The USART1 RX interrupt is the producer:   *)
(* it runs to completion, so one interrupt is one action, and it may occur *)
(* between any two steps of the consumer.  The main loop is the consumer:  *)
(* relay_poll() is cut at every read or write of a variable the interrupt  *)
(* also touches, `pc' being the point it has reached.                      *)
(*                                                                         *)
(* Ring and mark indices, timestamps, the drop counter and SEQ are fixed   *)
(* width unsigned integers that wrap; their widths are constants.          *)
(***************************************************************************)
EXTENDS Integers, Sequences

CONSTANTS
  Byte,       \* the values a target byte can take
  RingSize,   \* RING_SIZE: slots of s_data
  Marks,      \* MARKS: slots of s_marks
  MaxChunk,   \* RELAY_MAX_CHUNK: most data bytes in a frame
  GapUs,      \* RELAY_GAP_US: longest idle gap inside a burst
  IdxMod,     \* 2^32 in the code: width of s_head, s_tail, s_mhead, s_mtail
  TsMod,      \* 2^32 in the code: width of TIM2 and of every timestamp
  DropMod,    \* 2^32 in the code: width of s_dropped and s_reported
  SeqNumMod,  \* 2^8 in the code: width of s_seq
  Gaps        \* microseconds that can pass between two RX interrupts

\* RING_SIZE and MARKS are powers of two (the #error checks of relay.c), so
\* they divide the index width, and both are far below half of it.
ASSUME SizesAssumption ==
  /\ RingSize \in Nat \ {0}
  /\ Marks \in Nat \ {0}
  /\ IdxMod \in Nat /\ IdxMod >= 2
  /\ IdxMod % RingSize = 0
  /\ IdxMod % Marks = 0
  /\ 2 * RingSize <= IdxMod
  /\ 2 * Marks <= IdxMod

ASSUME WidthsAssumption ==
  /\ MaxChunk \in Nat \ {0}
  /\ TsMod \in Nat \ {0}
  /\ DropMod \in Nat /\ DropMod >= 2
  /\ SeqNumMod \in Nat \ {0}
  /\ GapUs \in 0 .. TsMod - 1
  /\ Gaps \subseteq Nat

VARIABLES
  \* written by the producer (the interrupt)
  s_head, s_mhead, s_last_ts, s_have_last, s_dropped,
  \* written by the consumer (the main loop)
  s_tail, s_mtail, s_cur_ts, s_reported, s_seq,
  \* the two rings: slots filled by the producer, read by the consumer
  s_data, s_marks,
  \* relay_poll: where it is, and its locals
  pc, dropped, avail, n, arg,
  \* the free-running microsecond counter TIM2->CNT
  tim2

producerVars == <<s_head, s_mhead, s_last_ts, s_have_last, s_dropped,
                  s_data, s_marks, tim2>>
consumerVars == <<s_tail, s_mtail, s_cur_ts, s_reported, s_seq>>
localVars    == <<pc, dropped, avail, n, arg>>
vars         == <<producerVars, consumerVars, localVars>>

-----------------------------------------------------------------------------
(* Unsigned arithmetic of a given width on operands already in range.      *)

Plus(a, b, mod)  == IF a + b < mod THEN a + b ELSE a + b - mod
Minus(a, b, mod) == IF b <= a THEN a - b ELSE a - b + mod

Index     == 0 .. IdxMod - 1
Timestamp == 0 .. TsMod - 1
Count     == 0 .. DropMod - 1
Mark      == [pos : Index, ts : Timestamp]

Slot(i)     == i % RingSize      \* i & RING_MASK
MarkSlot(i) == i % Marks         \* i & MARK_MASK

Ahead(i)  == Minus(i, s_tail, IdxMod)         \* i - s_tail
Stored    == Minus(s_head, s_tail, IdxMod)    \* bytes in the data ring
Pending   == Minus(s_mhead, s_mtail, IdxMod)  \* marks in the mark ring
NextMark  == s_marks[MarkSlot(s_mtail)]

\* Fault: the mark loop stops at a mark for s_tail itself.
IsFutureOrNow(d) == 2 * d < IdxMod

\* (int32_t)d > 0 for an index difference d
IsFuture(d) == d > 0 /\ 2 * d < IdxMod

PcValues == {"idle", "status", "avail", "marks", "gather",
             "copy", "emit", "commit"}

Init ==
  /\ s_head = 0 /\ s_tail = 0
  /\ s_mhead = 0 /\ s_mtail = 0
  /\ s_last_ts = 0 /\ s_have_last = FALSE
  /\ s_dropped = 0 /\ s_reported = 0
  /\ s_cur_ts = 0 /\ s_seq = 0
  /\ \E b \in Byte : s_data = [i \in 0 .. RingSize - 1 |-> b]
  /\ s_marks = [i \in 0 .. Marks - 1 |-> [pos |-> 0, ts |-> 0]]
  /\ pc = "idle" /\ dropped = 0 /\ avail = 0 /\ n = 0 /\ arg = <<>>
  /\ tim2 = 0

-----------------------------------------------------------------------------
(* The producer: relay_target_rx and relay_note_dropped, as the RX         *)
(* interrupt calls them.  `noted' is what relay_note_dropped added earlier *)
(* in the same interrupt (0 or 1).                                         *)

\* Faults: one slot too many in the data ring, one mark too many.
RingFullLate  == Stored > RingSize
MarksFullLate == ~(Pending <= Marks)

RingFull     == Stored >= RingSize
MarksFull    == ~(Pending < Marks)
NewBurst(ts) == ~s_have_last \/ Minus(ts, s_last_ts, TsMod) > GapUs

CountDropped(k) == s_dropped' = Plus(s_dropped, k, DropMod)

\* Data ring full: the byte is dropped and nothing else is touched.
RxDropped(noted) ==
  /\ RingFull
  /\ CountDropped(noted + 1)
  /\ UNCHANGED <<s_head, s_mhead, s_last_ts, s_have_last, s_data, s_marks>>

StoreByte(byte, ts) ==
  /\ ~RingFull
  /\ s_last_ts' = ts
  /\ s_have_last' = TRUE
  /\ s_data' = [s_data EXCEPT ![Slot(s_head)] = byte]
  /\ s_head' = Plus(s_head, 1, IdxMod)

\* The byte continues the current burst.
RxSameBurst(byte, ts, noted) ==
  /\ ~NewBurst(ts)
  /\ StoreByte(byte, ts)
  /\ CountDropped(noted)
  /\ UNCHANGED <<s_mhead, s_marks>>

\* Fault: the mark is taken after s_head has moved on.
RxMarkedNext(byte, ts, noted) ==
  /\ NewBurst(ts)
  /\ ~MarksFull
  /\ StoreByte(byte, ts)
  /\ s_marks' = [s_marks EXCEPT ![MarkSlot(s_mhead)] = [pos |-> s_head', ts |-> ts]]
  /\ s_mhead' = Plus(s_mhead, 1, IdxMod)
  /\ CountDropped(noted)

\* The byte opens a burst and its mark is recorded.
RxMarked(byte, ts, noted) ==
  /\ NewBurst(ts)
  /\ ~MarksFull
  /\ StoreByte(byte, ts)
  /\ s_marks' = [s_marks EXCEPT ![MarkSlot(s_mhead)] = [pos |-> s_head, ts |-> ts]]
  /\ s_mhead' = Plus(s_mhead, 1, IdxMod)
  /\ CountDropped(noted)

\* The byte opens a burst but the mark ring is full: the mark is lost.
RxUnmarked(byte, ts, noted) ==
  /\ NewBurst(ts)
  /\ MarksFull
  /\ StoreByte(byte, ts)
  /\ CountDropped(noted + 1)
  /\ UNCHANGED <<s_mhead, s_marks>>

\* relay_target_rx
TargetRx(byte, ts, noted) ==
  \/ RxDropped(noted)
  \/ RxSameBurst(byte, ts, noted)
  \/ RxMarked(byte, ts, noted)
  \/ RxUnmarked(byte, ts, noted)

\* relay_note_dropped(1)
NoteDropped ==
  /\ CountDropped(1)
  /\ UNCHANGED <<s_head, s_mhead, s_last_ts, s_have_last, s_data, s_marks>>

\* USART1_IRQHandler, `gap' microseconds after the previous one: a receive
\* error is pending (err = 1) or not, a byte is in RDR (UsartByte) or not.
UsartByte(byte, gap, err) ==
  /\ tim2' = (tim2 + gap) % TsMod
  /\ TargetRx(byte, tim2', err)
  /\ UNCHANGED <<consumerVars, localVars>>

UsartError(gap) ==
  /\ tim2' = (tim2 + gap) % TsMod
  /\ NoteDropped
  /\ UNCHANGED <<consumerVars, localVars>>

UsartIrqAfter(gap) ==
  \/ \E byte \in Byte, err \in {0, 1} : UsartByte(byte, gap, err)
  \/ UsartError(gap)

UsartIrq == \E gap \in Gaps : UsartIrqAfter(gap)

-----------------------------------------------------------------------------
(* The consumer: relay_poll.                                               *)

Goto(label) == pc' = label

\* Back to main(): the locals of the call are gone.
Return == /\ pc' = "idle"
          /\ dropped' = 0 /\ avail' = 0 /\ n' = 0 /\ arg' = <<>>

\* The frame emit() would hand to the sink at "status" and at "emit".
StatusFrame == [type |-> "STATUS", seq |-> s_seq, dropped |-> dropped]
DataFrame   == [type |-> "DATA", seq |-> s_seq, ts |-> s_cur_ts, data |-> arg]

\* Entry: snapshot the drop counter.
PollStart ==
  /\ pc = "idle"
  /\ dropped' = s_dropped
  /\ Goto(IF s_dropped # s_reported THEN "status" ELSE "avail")
  /\ UNCHANGED <<producerVars, consumerVars, avail, n, arg>>

\* Faults in reporting: the counter read again once the frame is out, a
\* refusal not looked at, the report not noted.
StatusSent(taken, reported, next) ==
  /\ pc = "status"
  /\ s_seq' = IF taken THEN Plus(s_seq, 1, SeqNumMod) ELSE s_seq
  /\ s_reported' = IF taken THEN reported ELSE s_reported
  /\ IF taken THEN Goto("avail") ELSE Goto(next)
  /\ UNCHANGED <<producerVars, s_tail, s_mtail, s_cur_ts, dropped, avail, n, arg>>

EmitStatusRereads(taken)        == StatusSent(taken, s_dropped, "idle")
EmitStatusIgnoresRefusal(taken) == StatusSent(taken, dropped, "avail")
EmitStatusForgets(taken)        == StatusSent(taken, s_reported, "idle")

\* emit(RELAY_STATUS_TYPE): the sink takes the whole frame, or none of it.
EmitStatus(taken) ==
  /\ pc = "status"
  /\ IF taken
       THEN /\ s_seq' = Plus(s_seq, 1, SeqNumMod)
            /\ s_reported' = dropped
            /\ Goto("avail")
            /\ UNCHANGED <<dropped, avail, n, arg>>
       ELSE /\ Return
            /\ UNCHANGED <<s_seq, s_reported>>
  /\ UNCHANGED <<producerVars, s_tail, s_mtail, s_cur_ts>>

ReadAvail ==
  /\ pc = "avail"
  /\ IF Stored = 0
       THEN Return
       ELSE /\ avail' = Stored
            /\ Goto("marks")
            /\ UNCHANGED <<dropped, n, arg>>
  /\ UNCHANGED <<producerVars, consumerVars>>

\* Fault: marks are adopted before their byte is reached.
AdoptMarkEarly ==
  /\ pc = "marks"
  /\ s_mtail # s_mhead
  /\ s_cur_ts' = NextMark.ts
  /\ s_mtail' = Plus(s_mtail, 1, IdxMod)
  /\ UNCHANGED <<producerVars, localVars, s_tail, s_reported, s_seq>>

\* One turn of the mark loop: adopt a mark at or before s_tail.
AdoptMark ==
  /\ pc = "marks"
  /\ s_mtail # s_mhead
  /\ ~IsFuture(Ahead(NextMark.pos))
  /\ s_cur_ts' = NextMark.ts
  /\ s_mtail' = Plus(s_mtail, 1, IdxMod)
  /\ UNCHANGED <<producerVars, localVars, s_tail, s_reported, s_seq>>

\* The mark loop ends: no mark is left, or the next one is for a later byte.
MarksDone ==
  /\ pc = "marks"
  /\ s_mtail = s_mhead \/ IsFuture(Ahead(NextMark.pos))
  /\ Goto("gather")
  /\ UNCHANGED <<producerVars, consumerVars, dropped, avail, n, arg>>

SmallerOf(a, b) == IF a < b THEN a ELSE b

\* Faults: the next mark, or the size of arg[], is left out of account.
GatherUpTo(size) ==
  /\ pc = "gather"
  /\ n' = size /\ arg' = <<>>
  /\ Goto("copy")
  /\ UNCHANGED <<producerVars, consumerVars, dropped, avail>>

GatherAcross    == GatherUpTo(SmallerOf(avail, MaxChunk))
GatherUnclipped == GatherUpTo(IF s_mtail = s_mhead THEN avail
                              ELSE SmallerOf(avail, Ahead(NextMark.pos)))

\* Size the frame: at most MaxChunk bytes, and not across the next mark.
Gather ==
  /\ pc = "gather"
  /\ n' = IF s_mtail = s_mhead
            THEN SmallerOf(avail, MaxChunk)
            ELSE SmallerOf(SmallerOf(avail, MaxChunk), Ahead(NextMark.pos))
  /\ arg' = <<>>
  /\ Goto("copy")
  /\ UNCHANGED <<producerVars, consumerVars, dropped, avail>>

\* One turn of the copy loop, then its exit.
CopyByte ==
  /\ pc = "copy"
  /\ Len(arg) < n
  /\ arg' = Append(arg, s_data[Slot(Plus(s_tail, Len(arg), IdxMod))])
  /\ UNCHANGED <<producerVars, consumerVars, pc, dropped, avail, n>>

CopyDone ==
  /\ pc = "copy"
  /\ ~(Len(arg) < n)
  /\ Goto("emit")
  /\ UNCHANGED <<producerVars, consumerVars, dropped, avail, n, arg>>

\* Fault: s_tail is not moved past a frame the sink took.
EmitDataKeeps(taken) ==
  /\ pc = "emit"
  /\ Return
  /\ s_seq' = IF taken THEN Plus(s_seq, 1, SeqNumMod) ELSE s_seq
  /\ UNCHANGED <<producerVars, s_tail, s_mtail, s_cur_ts, s_reported>>

\* emit(RELAY_FRAME_TYPE): the sink takes the whole frame, or none of it.
EmitData(taken) ==
  /\ pc = "emit"
  /\ IF taken
       THEN /\ s_seq' = Plus(s_seq, 1, SeqNumMod)
            /\ Goto("commit")
            /\ UNCHANGED <<dropped, avail, n, arg>>
       ELSE /\ Return
            /\ UNCHANGED s_seq
  /\ UNCHANGED <<producerVars, s_tail, s_mtail, s_cur_ts, s_reported>>

\* s_tail += n: only now are the slots the producer's again.
Commit ==
  /\ pc = "commit"
  /\ s_tail' = Plus(s_tail, n, IdxMod)
  /\ Return
  /\ UNCHANGED <<producerVars, s_mtail, s_cur_ts, s_reported, s_seq>>

\* Steps that do not depend on the sink.
PollInternal == \/ PollStart \/ ReadAvail \/ AdoptMark \/ MarksDone
                \/ Gather \/ CopyByte \/ CopyDone \/ Commit

Poll == PollInternal \/ \E taken \in BOOLEAN : EmitStatus(taken) \/ EmitData(taken)

Next == UsartIrq \/ Poll

Spec == Init /\ [][Next]_vars
-----------------------------------------------------------------------------
(* Properties.                                                             *)

\* Every variable holds a value its C type can hold; a mark is initialised
\* before it can be read, and the frame buffer never outgrows arg[].
TypeOK ==
  /\ s_head \in Index /\ s_tail \in Index
  /\ s_mhead \in Index /\ s_mtail \in Index
  /\ s_last_ts \in Timestamp /\ s_cur_ts \in Timestamp /\ tim2 \in Timestamp
  /\ s_dropped \in Count /\ s_reported \in Count /\ dropped \in Count
  /\ s_have_last \in BOOLEAN
  /\ s_seq \in 0 .. SeqNumMod - 1
  /\ s_data \in [0 .. RingSize - 1 -> Byte]
  /\ s_marks \in [0 .. Marks - 1 -> Mark]
  /\ pc \in PcValues
  /\ avail \in 0 .. RingSize
  /\ n \in 0 .. MaxChunk
  /\ arg \in Seq(Byte) /\ Len(arg) <= n

\* The k-th mark the consumer has not adopted yet, oldest first.
LiveMark(k) == s_marks[MarkSlot(Plus(s_mtail, k, IdxMod))]
LiveMarks   == 0 .. Pending - 1

\* The free-running indices never run away from each other: neither ring
\* holds more than it has slots, although the two sides read each other's
\* index at different times and the indices wrap (relay.c:79, :85).
Occupancy == Stored <= RingSize /\ Pending <= Marks

\* Every mark in the ring is for a byte still in the ring, and marks come in
\* the order of their bytes, one mark per byte: the signed comparison that
\* ends the mark loop (relay.c:171) therefore never meets a mark in the past.
MarksOrdered ==
  /\ \A k \in LiveMarks : Ahead(LiveMark(k).pos) < Stored
  /\ \A j, k \in LiveMarks :
       j < k => Ahead(LiveMark(j).pos) < Ahead(LiveMark(k).pos)

BuildingFrame == pc \in {"copy", "emit", "commit"}

\* A data frame carries at least one byte and no more than were counted at
\* the head of the call, whatever marks arrive between the mark loop and the
\* clipping of n (relay.c:177-184).
FrameNeverEmpty == BuildingFrame => n \in 1 .. avail

\* No mark lies inside the frame, first byte included: its single timestamp
\* holds for all of its bytes (relay.h:24-26).
OneBurstPerFrame ==
  BuildingFrame => \A k \in LiveMarks : Ahead(LiveMark(k).pos) >= n

\* What was copied is still what the ring holds: no interrupt overwrites a
\* slot between its copy and the release of the frame by s_tail (relay.c:197),
\* so a frame the sink refuses can be rebuilt.
CopyIntact ==
  BuildingFrame =>
    \A k \in 1 .. Len(arg) : arg[k] = s_data[Slot(Plus(s_tail, k - 1, IdxMod))]
=============================================================================
