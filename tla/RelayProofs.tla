---------------------------- MODULE RelayProofs ----------------------------
(***************************************************************************)
(* Proofs about Relay, for every ring size, mark count, chunk size and     *)
(* index width that relay.c's #error checks admit.                         *)
(*                                                                         *)
(* The properties of Relay are not inductive one by one.  Occupancy needs  *)
(* the count taken at the head of the call to be stored still when s_tail  *)
(* advances by n; OneBurstPerFrame needs every mark recorded since to lie  *)
(* behind that count; both need the marks ordered.  IInv puts them         *)
(* together with what holds between the count and the clipping of n.       *)
(***************************************************************************)
EXTENDS Relay, ArithmeticFacts, TLAPS

\* From the count to the end of the call, the bytes counted are in the ring.
CountedStored ==
  pc \in {"marks", "gather", "copy", "emit", "commit"} => avail \in 1 .. Stored

\* After the mark loop, every mark left is for a byte behind s_tail.
MarksAdopted == pc = "gather" => \A k \in LiveMarks : Ahead(LiveMark(k).pos) > 0

IInv == /\ TypeOK /\ Occupancy /\ MarksOrdered
        /\ CountedStored /\ MarksAdopted
        /\ FrameNeverEmpty /\ OneBurstPerFrame /\ CopyIntact

-----------------------------------------------------------------------------
(* Free-running indices and their slots.                                   *)

\* An index fewer than R behind h, and not h itself, has another slot than h
\* in a ring of R slots, wrap-around of the index included.
LEMMA SlotBehind ==
  ASSUME NEW R \in Nat \ {0}, IdxMod % R = 0,
         NEW t \in Index, NEW h \in Index,
         NEW k \in 0 .. Minus(h, t, IdxMod) - 1,
         Minus(h, t, IdxMod) < R
  PROVE  /\ Plus(t, k, IdxMod) \in Index
         /\ Plus(t, k, IdxMod) % R # h % R
<1> DEFINE i == Plus(t, k, IdxMod)
<1> USE SizesAssumption
<1>1. i \in Index /\ k \in Nat  BY DEF Index, Plus, Minus
<1>2. CASE h > i
  <2>1. h - i < R /\ h \in Int /\ i \in Int  BY <1>1, <1>2 DEF Index, Plus, Minus
  <2> QED BY <1>1, <1>2, <2>1, CloseRemainders
<1>3. CASE h <= i
  <2>1. 0 < (h + IdxMod) - i /\ (h + IdxMod) - i < R  BY <1>1, <1>3 DEF Index, Plus, Minus
  <2>2. h \in Int /\ i \in Int /\ h + IdxMod \in Int  BY <1>1 DEF Index
  <2>3. (h + IdxMod) % R # i % R  BY <2>1, <2>2, CloseRemainders
  <2>4. (h + IdxMod) % R = h % R  BY <2>2, AddMultiple
  <2> QED BY <1>1, <2>3, <2>4
<1>4. h > i \/ h <= i  BY <1>1 DEF Index
<1> QED BY <1>2, <1>3, <1>4

\* What the size checks say, without the divisibility the solver stumbles on.
LEMMA Sizes ==
  /\ RingSize \in Nat \ {0} /\ Marks \in Nat \ {0} /\ IdxMod \in Nat \ {0}
  /\ 2 * RingSize <= IdxMod /\ 2 * Marks <= IdxMod
BY SizesAssumption

-----------------------------------------------------------------------------
(* Initial states.                                                         *)

\* At reset the rings are empty and no packet is under construction (relay_init).
THEOREM InitIInv == Init => IInv
<1> SUFFICES ASSUME Init PROVE IInv
  OBVIOUS
<1> USE Sizes, WidthsAssumption
<1>1. TypeOK
  <2>1. s_head \in Index /\ s_tail \in Index /\ s_mhead \in Index /\ s_mtail \in Index
    BY DEF Init, Index
  <2>2. s_last_ts \in Timestamp /\ s_cur_ts \in Timestamp /\ tim2 \in Timestamp
    BY DEF Init, Timestamp
  <2>3. s_data \in [0 .. RingSize - 1 -> Byte]
    BY DEF Init
  <2>4. [pos |-> 0, ts |-> 0] \in Mark
    BY DEF Mark, Index, Timestamp
  <2>5. s_marks \in [0 .. Marks - 1 -> Mark]
    BY <2>4 DEF Init
  <2>6. arg \in Seq(Byte) /\ Len(arg) <= n
    BY DEF Init
  <2>7. /\ s_dropped \in Count /\ s_reported \in Count /\ dropped \in Count
    BY DEF Init, Count
  <2>9. s_seq \in 0 .. SeqNumMod - 1
    BY DEF Init
  <2>11. s_have_last \in BOOLEAN
    BY DEF Init
  <2>10. avail \in 0 .. RingSize /\ n \in 0 .. MaxChunk
    BY DEF Init
  <2>8. pc \in PcValues
    BY DEF Init, PcValues
  <2> QED BY <2>1, <2>2, <2>3, <2>5, <2>6, <2>7, <2>8, <2>9, <2>10, <2>11 DEF TypeOK
<1>2. Stored = 0 /\ Pending = 0
  BY DEF Init, Stored, Pending, Minus
<1>3. LiveMarks = {}
  BY <1>2 DEF LiveMarks
<1>4. Occupancy /\ MarksOrdered
  BY <1>2, <1>3 DEF Occupancy, MarksOrdered
<1>5. CountedStored /\ MarksAdopted /\ FrameNeverEmpty /\ OneBurstPerFrame /\ CopyIntact
  BY DEF Init, CountedStored, MarksAdopted, FrameNeverEmpty, OneBurstPerFrame,
         CopyIntact, BuildingFrame
<1> QED BY <1>1, <1>4, <1>5 DEF IInv

-----------------------------------------------------------------------------
(* The producer.                                                           *)

\* The drop counter takes the one or two drops an interrupt can add.
LEMMA CountDroppedType ==
  ASSUME s_dropped \in Count, NEW k \in 0 .. 2, CountDropped(k)
  PROVE  s_dropped' \in Count
BY WidthsAssumption DEF CountDropped, Plus, Count

\* A mark the consumer has not adopted is a mark, for a byte of some index.
LEMMA LiveMarkType ==
  ASSUME TypeOK, NEW k \in LiveMarks
  PROVE  LiveMark(k) \in Mark
<1>1. k \in Nat /\ k < IdxMod
  BY Sizes DEF LiveMarks, Pending, Minus, TypeOK, Index
<1>2. Plus(s_mtail, k, IdxMod) \in Index
  BY <1>1, Sizes DEF TypeOK, Plus, Index
<1>3. MarkSlot(Plus(s_mtail, k, IdxMod)) \in 0 .. Marks - 1
  <2>1. Plus(s_mtail, k, IdxMod) \in Int  BY <1>2 DEF Index
  <2> QED BY <2>1, Sizes, DivMod DEF MarkSlot
<1> QED BY <1>3 DEF LiveMark, TypeOK

\* A stored byte is one more byte in the ring, and moves no mark.
LEMMA StoreByteFacts ==
  ASSUME TypeOK, Occupancy, NEW byte \in Byte, NEW ts \in Timestamp,
         StoreByte(byte, ts), UNCHANGED s_tail
  PROVE  /\ s_head' \in Index
         /\ s_data' \in [0 .. RingSize - 1 -> Byte]
         /\ Stored < RingSize
         /\ Stored' = Stored + 1
<1> USE Sizes
<1>1. s_head' \in Index
  BY DEF TypeOK, StoreByte, Plus, Index
<1>2. s_data' \in [0 .. RingSize - 1 -> Byte]
  BY DEF TypeOK, StoreByte
<1>3. Stored < RingSize
  BY DEF TypeOK, StoreByte, RingFull, Stored, Minus, Index
<1>4. Stored' = Stored + 1
  BY <1>3 DEF TypeOK, StoreByte, Stored, Minus, Plus, Index
<1> QED BY <1>1, <1>2, <1>3, <1>4

\* A stored byte is never put into a slot the call under way has copied.
LEMMA StoreByteKeepsCopy ==
  ASSUME IInv, NEW byte \in Byte, NEW ts \in Timestamp,
         StoreByte(byte, ts), UNCHANGED <<s_tail, localVars>>
  PROVE  CopyIntact'
<1> USE Sizes
<1> SUFFICES ASSUME BuildingFrame, NEW k \in 1 .. Len(arg)
             PROVE  arg[k] = s_data'[Slot(Plus(s_tail, k - 1, IdxMod))]
  BY DEF CopyIntact, BuildingFrame, localVars
<1>1. arg[k] = s_data[Slot(Plus(s_tail, k - 1, IdxMod))]
  BY DEF IInv, CopyIntact
<1>2. Stored < RingSize
  BY StoreByteFacts DEF IInv
<1>3. k - 1 \in 0 .. Stored - 1
  <2>1. Len(arg) \in Nat /\ n \in Nat /\ Len(arg) <= n
    BY DEF IInv, TypeOK
  <2>2. n <= avail /\ avail \in Nat /\ avail <= Stored
    BY DEF IInv, TypeOK, FrameNeverEmpty, CountedStored, BuildingFrame
  <2>3. Stored \in Nat
    BY DEF IInv, TypeOK, Stored, Minus, Index
  <2> QED BY <2>1, <2>2, <2>3
<1>4. /\ Plus(s_tail, k - 1, IdxMod) \in Index
      /\ Slot(Plus(s_tail, k - 1, IdxMod)) # Slot(s_head)
  BY <1>2, <1>3, SlotBehind, SizesAssumption DEF IInv, TypeOK, Slot, Stored
<1>5. s_data' = [s_data EXCEPT ![Slot(s_head)] = byte]
  BY DEF StoreByte
<1> QED BY <1>1, <1>4, <1>5 DEF IInv, TypeOK


\* An interrupt that stores nothing changes only the counter and the clock.
LEMMA NothingStored ==
  ASSUME IInv, tim2' \in Timestamp, s_dropped' \in Count,
         UNCHANGED <<s_head, s_mhead, s_last_ts, s_have_last, s_data, s_marks,
                     consumerVars, localVars>>
  PROVE  IInv'
<1> USE DEF consumerVars, localVars
<1>1. TypeOK'
  BY DEF IInv, TypeOK
<1>2. Stored' = Stored /\ Pending' = Pending
  BY DEF Stored, Pending
<1>3. (Occupancy /\ MarksOrdered /\ MarksAdopted)'
  BY <1>2 DEF IInv, Occupancy, MarksOrdered, MarksAdopted, LiveMarks, LiveMark, Ahead
<1>4. (CountedStored /\ FrameNeverEmpty /\ OneBurstPerFrame /\ CopyIntact)'
  BY <1>2 DEF IInv, CountedStored, FrameNeverEmpty, OneBurstPerFrame, CopyIntact,
              BuildingFrame, LiveMarks, LiveMark, Ahead
<1> QED BY <1>1, <1>3, <1>4 DEF IInv

\* A byte that records no mark.
LEMMA StoredUnmarked ==
  ASSUME IInv, NEW byte \in Byte, NEW ts \in Timestamp, StoreByte(byte, ts),
         tim2' \in Timestamp, s_dropped' \in Count,
         UNCHANGED <<s_mhead, s_marks, consumerVars, localVars>>
  PROVE  IInv'
<1> USE DEF consumerVars, localVars
<1>1. /\ s_head' \in Index /\ s_data' \in [0 .. RingSize - 1 -> Byte]
      /\ Stored < RingSize /\ Stored' = Stored + 1 /\ Stored \in Nat
  BY StoreByteFacts, Sizes DEF IInv, TypeOK, Stored, Minus, Index
<1>2. TypeOK'
  BY <1>1 DEF IInv, TypeOK, StoreByte
<1>3. Pending' = Pending /\ LiveMarks' = LiveMarks
  BY DEF Pending, LiveMarks
<1>4. \A k \in LiveMarks : /\ LiveMark(k)' = LiveMark(k)
                           /\ Ahead(LiveMark(k).pos)' = Ahead(LiveMark(k).pos)
                           /\ Ahead(LiveMark(k).pos) \in Int
  <2> SUFFICES ASSUME NEW k \in LiveMarks
               PROVE /\ LiveMark(k)' = LiveMark(k)
                     /\ Ahead(LiveMark(k).pos)' = Ahead(LiveMark(k).pos)
                     /\ Ahead(LiveMark(k).pos) \in Int
    OBVIOUS
  <2>1. LiveMark(k)' = LiveMark(k)
    BY DEF LiveMark
  <2>2. LiveMark(k).pos \in Index
    BY LiveMarkType DEF IInv, Mark
  <2> QED BY <2>1, <2>2, Sizes DEF Ahead, Minus, IInv, TypeOK, Index
<1>5. Occupancy'
  BY <1>1, <1>3, Sizes DEF IInv, Occupancy
<1>6. MarksOrdered' /\ MarksAdopted' /\ OneBurstPerFrame'
  BY <1>1, <1>3, <1>4 DEF IInv, MarksOrdered, MarksAdopted, OneBurstPerFrame, BuildingFrame
<1>7. CountedStored' /\ FrameNeverEmpty'
  BY <1>1 DEF IInv, TypeOK, CountedStored, FrameNeverEmpty, BuildingFrame
<1>8. CopyIntact'
  BY StoreByteKeepsCopy
<1> QED BY <1>2, <1>5, <1>6, <1>7, <1>8 DEF IInv

\* A recorded mark goes behind all the others and disturbs none.
LEMMA MarkRecorded ==
  ASSUME IInv, NEW ts, ~MarksFull,
         s_marks' = [s_marks EXCEPT ![MarkSlot(s_mhead)] = [pos |-> s_head, ts |-> ts]],
         s_mhead' = Plus(s_mhead, 1, IdxMod),
         UNCHANGED <<s_tail, s_mtail>>, NEW q, q = Pending
  PROVE  /\ s_mhead' \in Index /\ q \in Nat /\ q < Marks /\ Pending' = q + 1
         /\ LiveMarks' = LiveMarks \cup {q}
         /\ \A k \in LiveMarks : /\ LiveMark(k)' = LiveMark(k)
                                 /\ Ahead(LiveMark(k).pos)' = Ahead(LiveMark(k).pos)
                                 /\ Ahead(LiveMark(k).pos) \in Int
         /\ LiveMark(q)' = [pos |-> s_head, ts |-> ts]
         /\ Ahead(LiveMark(q).pos)' = Stored
<1>1. s_mhead' \in Index /\ q \in Nat /\ q < Marks /\ Pending' = q + 1
  BY Sizes DEF IInv, TypeOK, Pending, MarksFull, Plus, Minus, Index
<1>2. LiveMarks' = LiveMarks \cup {q}
  BY <1>1 DEF LiveMarks
<1>3. ASSUME NEW k \in LiveMarks
      PROVE  /\ LiveMark(k)' = LiveMark(k)
             /\ Ahead(LiveMark(k).pos)' = Ahead(LiveMark(k).pos)
             /\ Ahead(LiveMark(k).pos) \in Int
  <2>1. MarkSlot(Plus(s_mtail, k, IdxMod)) # MarkSlot(s_mhead)
    BY <1>1, SlotBehind, SizesAssumption DEF IInv, TypeOK, MarkSlot, Pending, LiveMarks
  <2>2. LiveMark(k)' = LiveMark(k)
    BY <2>1 DEF LiveMark, IInv, TypeOK
  <2>3. LiveMark(k).pos \in Index
    BY LiveMarkType DEF IInv, Mark
  <2> QED BY <2>2, <2>3, Sizes DEF Ahead, Minus, IInv, TypeOK, Index
<1>4. LiveMark(q)' = [pos |-> s_head, ts |-> ts] /\ Ahead(LiveMark(q).pos)' = Stored
  <2>1. Plus(s_mtail, q, IdxMod) = s_mhead
    BY Sizes DEF IInv, TypeOK, Pending, Plus, Minus, Index
  <2>2. MarkSlot(s_mhead) \in 0 .. Marks - 1
    <3>1. s_mhead \in Int  BY DEF IInv, TypeOK, Index
    <3> QED BY <3>1, Sizes, DivMod DEF MarkSlot
  <2>3. s_marks'[MarkSlot(s_mhead)] = [pos |-> s_head, ts |-> ts]
    BY <2>2 DEF IInv, TypeOK
  <2> QED BY <2>1, <2>3 DEF LiveMark, Ahead, Stored
<1> QED BY <1>1, <1>2, <1>3, <1>4

\* A byte that records its mark: the mark goes behind all the others.
LEMMA StoredMarked ==
  ASSUME IInv, NEW byte \in Byte, NEW ts \in Timestamp, StoreByte(byte, ts),
         ~MarksFull,
         s_marks' = [s_marks EXCEPT ![MarkSlot(s_mhead)] = [pos |-> s_head, ts |-> ts]],
         s_mhead' = Plus(s_mhead, 1, IdxMod),
         tim2' \in Timestamp, s_dropped' \in Count,
         UNCHANGED <<consumerVars, localVars>>
  PROVE  IInv'
<1> USE DEF consumerVars, localVars
<1>1. /\ s_head' \in Index /\ s_data' \in [0 .. RingSize - 1 -> Byte]
      /\ Stored < RingSize /\ Stored' = Stored + 1 /\ Stored \in Nat
  BY StoreByteFacts, Sizes DEF IInv, TypeOK, Stored, Minus, Index
<1> PICK q : q = Pending
  OBVIOUS
<1>2. s_mhead' \in Index /\ q \in Nat /\ q < Marks /\ Pending' = q + 1
  BY MarkRecorded
<1>3. s_marks' \in [0 .. Marks - 1 -> Mark]
  BY DEF IInv, TypeOK, Mark
<1>4. TypeOK'
  BY <1>1, <1>2, <1>3 DEF IInv, TypeOK, StoreByte
<1>5. LiveMarks' = LiveMarks \cup {q}
  BY MarkRecorded
<1>6. \A k \in LiveMarks : /\ LiveMark(k)' = LiveMark(k)
                           /\ Ahead(LiveMark(k).pos)' = Ahead(LiveMark(k).pos)
                           /\ Ahead(LiveMark(k).pos) \in Int
  BY MarkRecorded
<1>7. /\ LiveMark(q)' = [pos |-> s_head, ts |-> ts]
      /\ Ahead(LiveMark(q).pos)' = Stored
  BY MarkRecorded
<1>8. Occupancy'
  BY <1>1, <1>2, Sizes DEF Occupancy
<1>9. MarksOrdered'
  BY <1>1, <1>2, <1>5, <1>6, <1>7 DEF IInv, MarksOrdered, LiveMarks
<1>10. CountedStored' /\ FrameNeverEmpty'
  BY <1>1 DEF IInv, TypeOK, CountedStored, FrameNeverEmpty, BuildingFrame
<1>11. MarksAdopted'
  BY <1>1, <1>5, <1>6, <1>7 DEF IInv, MarksAdopted, CountedStored
<1>12. OneBurstPerFrame'
  BY <1>1, <1>5, <1>6, <1>7
  DEF IInv, TypeOK, OneBurstPerFrame, CountedStored, FrameNeverEmpty, BuildingFrame
<1>13. CopyIntact'
  BY StoreByteKeepsCopy
<1> QED BY <1>4, <1>8, <1>9, <1>10, <1>11, <1>12, <1>13 DEF IInv


\* A received byte, stored, marked or lost (relay_target_byte), at any point of
\* relay_poll.
THEOREM UsartIrqKeepsIInv == IInv /\ UsartIrq => IInv'
<1> SUFFICES ASSUME IInv, NEW gap \in Gaps,
                    \/ \E byte \in Byte, err \in {0, 1} : UsartByte(byte, gap, err)
                    \/ UsartError(gap)
             PROVE  IInv'
  BY DEF UsartIrq, UsartIrqAfter
<1>1. (tim2 + gap) % TsMod \in Timestamp
  BY WidthsAssumption DEF IInv, TypeOK, Timestamp
<1>2. s_dropped \in Count
  BY DEF IInv, TypeOK
<1>3. CASE UsartError(gap)
  <2>1. tim2' \in Timestamp
    BY <1>1, <1>3 DEF UsartError
  <2>2. s_dropped' \in Count
    BY <1>2, <1>3, CountDroppedType DEF UsartError, NoteDropped
  <2> QED BY <1>3, <2>1, <2>2, NothingStored DEF UsartError, NoteDropped
<1>4. ASSUME NEW byte \in Byte, NEW err \in {0, 1}, UsartByte(byte, gap, err)
      PROVE  IInv'
  <2> PICK ts \in Timestamp : ts = tim2'
    BY <1>1, <1>4 DEF UsartByte
  <2>1. TargetRx(byte, ts, err) /\ UNCHANGED <<consumerVars, localVars>>
    BY <1>4 DEF UsartByte
  <2>2. err \in 0 .. 2 /\ err + 1 \in 0 .. 2
    BY <1>4
  <2>3. CASE RxDropped(err)
    <3>1. s_dropped' \in Count
      BY <1>2, <2>2, <2>3, CountDroppedType DEF RxDropped
    <3> QED BY <2>1, <2>3, <3>1, NothingStored DEF RxDropped
  <2>4. CASE RxSameBurst(byte, ts, err)
    <3>1. s_dropped' \in Count
      BY <1>2, <2>2, <2>4, CountDroppedType DEF RxSameBurst
    <3> QED BY <2>1, <2>4, <3>1, StoredUnmarked DEF RxSameBurst
  <2>5. CASE RxMarked(byte, ts, err)
    <3>1. s_dropped' \in Count
      BY <1>2, <2>2, <2>5, CountDroppedType DEF RxMarked
    <3> QED BY <2>1, <2>5, <3>1, StoredMarked DEF RxMarked
  <2>6. CASE RxUnmarked(byte, ts, err)
    <3>1. s_dropped' \in Count
      BY <1>2, <2>2, <2>6, CountDroppedType DEF RxUnmarked
    <3> QED BY <2>1, <2>6, <3>1, StoredUnmarked DEF RxUnmarked
  <2> QED BY <2>1, <2>3, <2>4, <2>5, <2>6 DEF TargetRx
<1> QED BY <1>3, <1>4

-----------------------------------------------------------------------------
(* The consumer.                                                           *)

\* What no step of the consumer but AdoptMark and Commit changes.
ringVars == <<s_head, s_tail, s_mhead, s_mtail, s_data, s_marks>>

\* A step that leaves the rings alone keeps what is said about them.
LEMMA SameRings ==
  ASSUME IInv, UNCHANGED ringVars
  PROVE  /\ Stored' = Stored /\ LiveMarks' = LiveMarks
         /\ \A k \in LiveMarks : Ahead(LiveMark(k).pos)' = Ahead(LiveMark(k).pos)
         /\ Occupancy' /\ MarksOrdered'
<1>1. Stored' = Stored /\ Pending' = Pending /\ LiveMarks' = LiveMarks
  BY DEF ringVars, Stored, Pending, LiveMarks
<1>2. \A k \in LiveMarks : Ahead(LiveMark(k).pos)' = Ahead(LiveMark(k).pos)
  BY DEF ringVars, Ahead, LiveMark
<1>3. Occupancy' /\ MarksOrdered'
  BY <1>1, <1>2 DEF IInv, Occupancy, MarksOrdered
<1> QED BY <1>1, <1>2, <1>3

\* A step that returns from relay_poll, or stays ahead of its count.
LEMMA OutsideFrame ==
  ASSUME IInv, TypeOK', UNCHANGED ringVars, pc' \in {"idle", "status", "avail"}
  PROVE  IInv'
<1>1. CountedStored' /\ MarksAdopted'
  BY DEF CountedStored, MarksAdopted
<1>2. FrameNeverEmpty' /\ OneBurstPerFrame' /\ CopyIntact'
  BY DEF FrameNeverEmpty, OneBurstPerFrame, CopyIntact, BuildingFrame
<1> QED BY <1>1, <1>2, SameRings DEF IInv

\* A step from one stage of the frame to the next, or within one.
LEMMA WithinFrame ==
  ASSUME IInv, TypeOK', UNCHANGED <<ringVars, avail, n, arg>>,
         BuildingFrame, BuildingFrame'
  PROVE  IInv'
<1>1. CountedStored' /\ MarksAdopted'
  BY SameRings DEF IInv, CountedStored, MarksAdopted, BuildingFrame
<1>2. FrameNeverEmpty' /\ OneBurstPerFrame'
  BY SameRings DEF IInv, FrameNeverEmpty, OneBurstPerFrame
<1>3. CopyIntact'
  BY DEF IInv, CopyIntact, ringVars
<1> QED BY <1>1, <1>2, <1>3, SameRings DEF IInv

\* Returning clears the locals, and what else a return changes has its type.
LEMMA TypeOKOnReturn ==
  ASSUME TypeOK, s_tail' \in Index, Return,
         UNCHANGED <<producerVars, s_mtail, s_cur_ts, s_reported, s_seq>>
  PROVE  TypeOK'
<1>1. pc' \in PcValues
  BY DEF Return, PcValues
<1>2. dropped' \in Count /\ avail' \in 0 .. RingSize /\ n' \in 0 .. MaxChunk
  BY Sizes, WidthsAssumption DEF Return, Count
<1>3. arg' \in Seq(Byte) /\ Len(arg') <= n'
  BY DEF Return
<1> QED BY <1>1, <1>2, <1>3 DEF TypeOK, producerVars

\* relay_poll begins.
THEOREM PollStartKeepsIInv == IInv /\ PollStart => IInv'
<1> SUFFICES ASSUME IInv, PollStart PROVE IInv'
  OBVIOUS
<1>1. pc' \in {"status", "avail"}
  BY DEF PollStart, Goto
<1>2. TypeOK'
  BY <1>1 DEF IInv, TypeOK, PcValues, PollStart, producerVars, consumerVars
<1>3. UNCHANGED ringVars
  BY DEF PollStart, producerVars, consumerVars, ringVars
<1> QED BY <1>1, <1>2, <1>3, OutsideFrame

\* A STATUS frame, sent or refused, touches no ring.
THEOREM EmitStatusKeepsIInv ==
  ASSUME NEW taken \in BOOLEAN PROVE IInv /\ EmitStatus(taken) => IInv'
<1> SUFFICES ASSUME IInv, EmitStatus(taken) PROVE IInv'
  OBVIOUS
<1>1. UNCHANGED ringVars
  BY DEF EmitStatus, producerVars, ringVars
<1>2. CASE taken
  <2>1. pc' = "avail"
    BY <1>2 DEF EmitStatus, Goto
  <2>2. s_seq' \in 0 .. SeqNumMod - 1
    BY <1>2, WidthsAssumption DEF EmitStatus, Plus, IInv, TypeOK
  <2>3. TypeOK'
    BY <1>2, <2>1, <2>2 DEF IInv, TypeOK, PcValues, EmitStatus, producerVars
  <2> QED BY <1>1, <2>1, <2>3, OutsideFrame
<1>3. CASE ~taken
  <2>1. pc' = "idle" /\ dropped' = 0 /\ avail' = 0 /\ n' = 0 /\ arg' = <<>>
    BY <1>3 DEF EmitStatus, Return
  <2>2. TypeOK'
    BY <1>3, <2>1, TypeOKOnReturn DEF EmitStatus, IInv, TypeOK
  <2> QED BY <1>1, <2>1, <2>2, OutsideFrame
<1> QED BY <1>2, <1>3

\* The bytes available are read once; more may arrive, none may leave.
THEOREM ReadAvailKeepsIInv == IInv /\ ReadAvail => IInv'
<1> SUFFICES ASSUME IInv, ReadAvail PROVE IInv'
  OBVIOUS
<1>1. UNCHANGED ringVars
  BY DEF ReadAvail, producerVars, consumerVars, ringVars
<1>2. Stored \in Nat /\ Stored <= RingSize
  BY Sizes DEF IInv, TypeOK, Occupancy, Stored, Minus, Index
<1>3. CASE Stored = 0
  <2>1. pc' = "idle" /\ dropped' = 0 /\ avail' = 0 /\ n' = 0 /\ arg' = <<>>
    BY <1>3 DEF ReadAvail, Return
  <2>2. TypeOK'
    BY <1>3, <2>1, TypeOKOnReturn DEF ReadAvail, consumerVars, IInv, TypeOK
  <2> QED BY <1>1, <2>1, <2>2, OutsideFrame
<1>4. CASE Stored # 0
  <2>1. pc' = "marks" /\ avail' = Stored /\ avail' \in 0 .. RingSize
    BY <1>2, <1>4, Sizes DEF ReadAvail, Goto
  <2>2. TypeOK'
    BY <1>4, <2>1 DEF IInv, TypeOK, PcValues, ReadAvail, producerVars, consumerVars
  <2>3. CountedStored'
    BY <1>1, <1>2, <1>4, <2>1, SameRings DEF CountedStored
  <2>4. (MarksAdopted /\ FrameNeverEmpty /\ OneBurstPerFrame /\ CopyIntact)'
    BY <2>1 DEF MarksAdopted, FrameNeverEmpty, OneBurstPerFrame, CopyIntact, BuildingFrame
  <2> QED BY <1>1, <2>2, <2>3, <2>4, SameRings DEF IInv
<1> QED BY <1>3, <1>4

\* The mark the loop looks at is the oldest one the consumer has not adopted.
LEMMA NextMarkFacts ==
  ASSUME IInv
  PROVE  /\ Pending \in Nat /\ (s_mtail = s_mhead <=> Pending = 0)
         /\ NextMark = LiveMark(0)
         /\ \A k \in LiveMarks : /\ Ahead(LiveMark(k).pos) \in Nat
                                 /\ Ahead(LiveMark(k).pos) >= Ahead(NextMark.pos)
<1>1. Pending \in Nat /\ (s_mtail = s_mhead <=> Pending = 0)
  BY Sizes DEF IInv, TypeOK, Pending, Minus, Index
<1>2. NextMark = LiveMark(0)
  BY Sizes DEF IInv, TypeOK, NextMark, LiveMark, Plus, Index
<1>3. ASSUME NEW k \in LiveMarks
      PROVE  Ahead(LiveMark(k).pos) \in Nat
  <2>1. LiveMark(k).pos \in Index
    BY LiveMarkType DEF IInv, Mark
  <2>2. \A i \in Index : Ahead(i) \in Nat
    BY Sizes DEF IInv, TypeOK, Ahead, Minus, Index
  <2> QED BY <2>1, <2>2
<1>4. ASSUME NEW k \in LiveMarks
      PROVE  Ahead(LiveMark(k).pos) >= Ahead(NextMark.pos)
  <2>1. k = 0 \/ (0 \in LiveMarks /\ 0 < k)
    BY <1>1 DEF LiveMarks
  <2>2. CASE k = 0
    BY <1>2, <1>3, <2>2
  <2>3. CASE 0 \in LiveMarks /\ 0 < k
    <3>1. Ahead(LiveMark(0).pos) < Ahead(LiveMark(k).pos)
      BY <2>3 DEF IInv, MarksOrdered
    <3> QED BY <1>2, <1>3, <2>3, <3>1
  <2> QED BY <2>1, <2>2, <2>3
<1> QED BY <1>1, <1>2, <1>3, <1>4

\* The oldest mark goes, and every other takes the number before its own.
LEMMA MarkTaken ==
  ASSUME IInv, AdoptMark
  PROVE  /\ Pending \in Nat /\ Pending >= 1 /\ Pending <= Marks
         /\ s_mtail' \in Index /\ Pending' = Pending - 1
         /\ \A k \in LiveMarks' : /\ k + 1 \in LiveMarks
                                  /\ LiveMark(k)' = LiveMark(k + 1)
                                  /\ Ahead(LiveMark(k).pos)' = Ahead(LiveMark(k + 1).pos)
<1> USE DEF producerVars, localVars
<1>1. Pending \in Nat /\ Pending >= 1 /\ Pending <= Marks
  BY NextMarkFacts DEF AdoptMark, IInv, Occupancy
<1>2. s_mtail' \in Index /\ Pending' = Pending - 1
  BY <1>1, Sizes DEF IInv, TypeOK, AdoptMark, Pending, Plus, Minus, Index
<1>3. ASSUME NEW k \in LiveMarks'
      PROVE  /\ k + 1 \in LiveMarks
             /\ LiveMark(k)' = LiveMark(k + 1)
             /\ Ahead(LiveMark(k).pos)' = Ahead(LiveMark(k + 1).pos)
  <2>1. k \in Nat /\ k + 1 \in LiveMarks /\ k + 1 <= Marks
    BY <1>1, <1>2, Sizes DEF LiveMarks
  <2>2. Plus(s_mtail', k, IdxMod) = Plus(s_mtail, k + 1, IdxMod)
    BY <2>1, Sizes DEF IInv, TypeOK, AdoptMark, Plus, Index
  <2>3. LiveMark(k)' = LiveMark(k + 1)
    BY <2>2 DEF LiveMark, AdoptMark
  <2> QED BY <2>1, <2>3 DEF Ahead, AdoptMark
<1> QED BY <1>1, <1>2, <1>3

\* A mark that no longer lies ahead is taken off the mark ring.
THEOREM AdoptMarkKeepsIInv == IInv /\ AdoptMark => IInv'
<1> SUFFICES ASSUME IInv, AdoptMark PROVE IInv'
  OBVIOUS
<1> USE DEF producerVars, localVars
<1>1. Pending \in Nat /\ Pending >= 1 /\ Pending <= Marks
  BY MarkTaken
<1>2. s_mtail' \in Index /\ Pending' = Pending - 1
  BY MarkTaken
<1>3. s_cur_ts' \in Timestamp
  <2>1. 0 \in LiveMarks
    BY <1>1 DEF LiveMarks
  <2>2. NextMark \in Mark
    BY <2>1, NextMarkFacts, LiveMarkType DEF IInv
  <2> QED BY <2>2 DEF AdoptMark, Mark
<1>4. TypeOK'
  BY <1>2, <1>3 DEF IInv, TypeOK, AdoptMark
<1>5. \A k \in LiveMarks' : /\ k + 1 \in LiveMarks
                            /\ LiveMark(k)' = LiveMark(k + 1)
                            /\ Ahead(LiveMark(k).pos)' = Ahead(LiveMark(k + 1).pos)
  BY MarkTaken
<1>6. Stored' = Stored /\ Occupancy'
  BY <1>1, <1>2, Sizes DEF AdoptMark, Stored, IInv, Occupancy
<1>7. MarksOrdered'
  <2>1. ASSUME NEW k \in LiveMarks' PROVE (Ahead(LiveMark(k).pos) < Stored)'
    BY <1>5, <1>6 DEF IInv, MarksOrdered
  <2>2. ASSUME NEW j \in LiveMarks', NEW k \in LiveMarks', j < k
        PROVE  (Ahead(LiveMark(j).pos) < Ahead(LiveMark(k).pos))'
    <3>1. j \in Int /\ k \in Int /\ j + 1 < k + 1
      BY <2>2 DEF LiveMarks
    <3> QED BY <1>5, <3>1 DEF IInv, MarksOrdered
  <2> QED BY <2>1, <2>2 DEF MarksOrdered
<1>8. CountedStored'
  BY <1>6 DEF IInv, CountedStored, AdoptMark
<1>9. (MarksAdopted /\ FrameNeverEmpty /\ OneBurstPerFrame /\ CopyIntact)'
  BY DEF AdoptMark, MarksAdopted, FrameNeverEmpty, OneBurstPerFrame, CopyIntact,
         BuildingFrame
<1> QED BY <1>4, <1>6, <1>7, <1>8, <1>9 DEF IInv

\* The first mark that lies ahead bounds the frame.
THEOREM MarksDoneKeepsIInv == IInv /\ MarksDone => IInv'
<1> SUFFICES ASSUME IInv, MarksDone PROVE IInv'
  OBVIOUS
<1>1. UNCHANGED ringVars /\ pc' = "gather"
  BY DEF MarksDone, Goto, producerVars, consumerVars, ringVars
<1>2. TypeOK'
  BY <1>1 DEF IInv, TypeOK, PcValues, MarksDone, producerVars, consumerVars
<1>3. CountedStored'
  BY <1>1, SameRings DEF IInv, CountedStored, MarksDone
<1>4. ASSUME NEW k \in LiveMarks PROVE Ahead(LiveMark(k).pos) > 0
  <2>1. Pending # 0
    BY <1>4 DEF LiveMarks
  <2>2. Ahead(NextMark.pos) > 0
    BY <2>1, NextMarkFacts DEF MarksDone, IsFuture
  <2>3. Ahead(NextMark.pos) \in Nat
    BY <2>1, NextMarkFacts DEF LiveMarks
  <2> QED BY <1>4, <2>2, <2>3, NextMarkFacts
<1>5. MarksAdopted'
  BY <1>1, <1>4, SameRings DEF MarksAdopted
<1>6. (FrameNeverEmpty /\ OneBurstPerFrame /\ CopyIntact)'
  BY <1>1 DEF FrameNeverEmpty, OneBurstPerFrame, CopyIntact, BuildingFrame
<1> QED BY <1>1, <1>2, <1>3, <1>5, <1>6, SameRings DEF IInv

\* The length of the frame is fixed within one burst.
THEOREM GatherKeepsIInv == IInv /\ Gather => IInv'
<1> SUFFICES ASSUME IInv, Gather PROVE IInv'
  OBVIOUS
<1>1. UNCHANGED ringVars /\ pc' = "copy" /\ avail' = avail /\ arg' = <<>>
  BY DEF Gather, Goto, producerVars, consumerVars, ringVars
<1>2. avail \in Nat /\ avail >= 1 /\ Stored' = Stored
  BY SameRings, <1>1 DEF IInv, TypeOK, CountedStored, Gather
<1> DEFINE most == SmallerOf(avail, MaxChunk)
<1>3. most \in 1 .. avail /\ most <= MaxChunk
  BY <1>2, WidthsAssumption DEF SmallerOf
<1>4. /\ n' \in 1 .. avail /\ n' <= MaxChunk
      /\ \A k \in LiveMarks : Ahead(LiveMark(k).pos) >= n'
  <2>1. CASE s_mtail = s_mhead
    <3>1. LiveMarks = {}
      BY <2>1, NextMarkFacts DEF LiveMarks
    <3>2. n' = most
      BY <2>1 DEF Gather
    <3> QED BY <1>3, <3>1, <3>2
  <2>2. CASE s_mtail # s_mhead
    <3>1. 0 \in LiveMarks
      BY <2>2, NextMarkFacts DEF LiveMarks
    <3>2. Ahead(NextMark.pos) \in Nat /\ Ahead(NextMark.pos) > 0
      BY <3>1, NextMarkFacts DEF IInv, MarksAdopted, Gather
    <3>3. n' = SmallerOf(most, Ahead(NextMark.pos))
      BY <2>2 DEF Gather
    <3>4. n' \in 1 .. most /\ n' <= Ahead(NextMark.pos)
      BY <1>2, <1>3, <3>2, <3>3 DEF SmallerOf
    <3>5. n' \in 1 .. avail /\ n' <= MaxChunk
      BY <1>2, <1>3, <3>4, WidthsAssumption
    <3> QED BY <3>2, <3>4, <3>5, NextMarkFacts
  <2> QED BY <2>1, <2>2
<1>5. TypeOK'
  <2>1. n' \in 0 .. MaxChunk
    BY <1>2, <1>4, WidthsAssumption
  <2>2. arg' \in Seq(Byte) /\ Len(arg') <= n'
    BY <1>1, <2>1
  <2> QED BY <1>1, <2>1, <2>2
          DEF IInv, TypeOK, PcValues, Gather, producerVars, consumerVars
<1>6. CountedStored' /\ FrameNeverEmpty'
  BY <1>1, <1>2, <1>4 DEF IInv, CountedStored, FrameNeverEmpty, Gather
<1>7. OneBurstPerFrame'
  BY <1>1, <1>4, SameRings DEF OneBurstPerFrame
<1>8. MarksAdopted' /\ CopyIntact'
  BY <1>1 DEF MarksAdopted, CopyIntact
<1> QED BY <1>1, <1>5, <1>6, <1>7, <1>8, SameRings DEF IInv

\* One byte of the ring is copied into the frame.
THEOREM CopyByteKeepsIInv == IInv /\ CopyByte => IInv'
<1> SUFFICES ASSUME IInv, CopyByte PROVE IInv'
  OBVIOUS
<1>1. /\ UNCHANGED <<ringVars, avail, n>>
      /\ pc = "copy" /\ pc' = "copy" /\ Len(arg) < n
  BY DEF CopyByte, producerVars, consumerVars, ringVars
<1>2. arg \in Seq(Byte) /\ Len(arg) \in Nat /\ n \in Nat
  BY DEF IInv, TypeOK
<1> DEFINE slot == Slot(Plus(s_tail, Len(arg), IdxMod))
<1>3. s_data[slot] \in Byte
  <2>1. n <= avail /\ avail \in Nat /\ avail <= RingSize
    BY <1>1 DEF IInv, TypeOK, FrameNeverEmpty, BuildingFrame
  <2>2. Plus(s_tail, Len(arg), IdxMod) \in Int
    BY <1>1, <1>2, <2>1, Sizes DEF IInv, TypeOK, Plus, Index
  <2>3. slot \in 0 .. RingSize - 1
    BY <2>2, Sizes, DivMod DEF Slot
  <2> QED BY <2>3 DEF IInv, TypeOK
<1>4. arg' = Append(arg, s_data[slot])
  BY DEF CopyByte
<1>5. arg' \in Seq(Byte) /\ Len(arg') = Len(arg) + 1
  BY <1>2, <1>3, <1>4
<1>6. TypeOK'
  BY <1>1, <1>2, <1>5 DEF IInv, TypeOK, CopyByte, producerVars, consumerVars
<1>7. (CountedStored /\ MarksAdopted)'
  BY <1>1, SameRings DEF IInv, CountedStored, MarksAdopted
<1>8. (FrameNeverEmpty /\ OneBurstPerFrame)'
  BY <1>1, SameRings DEF IInv, FrameNeverEmpty, OneBurstPerFrame, BuildingFrame
<1>9. CopyIntact'
  <2> SUFFICES ASSUME NEW k \in 1 .. Len(arg')
               PROVE  arg'[k] = s_data'[Slot(Plus(s_tail', k - 1, IdxMod))]
    BY DEF CopyIntact
  <2>1. s_data' = s_data /\ s_tail' = s_tail
    BY <1>1 DEF ringVars
  <2>2. CASE k <= Len(arg)
    <3>1. k \in 1 .. Len(arg)
      BY <1>2, <2>2
    <3>2. arg'[k] = arg[k]
      BY <1>2, <1>3, <1>4, <3>1
    <3> QED BY <1>1, <2>1, <3>1, <3>2 DEF IInv, CopyIntact, BuildingFrame
  <2>3. CASE k = Len(arg) + 1
    <3>1. arg'[k] = s_data[slot] /\ k - 1 = Len(arg)
      BY <1>2, <1>3, <1>4, <2>3
    <3> QED BY <2>1, <3>1
  <2> QED BY <1>2, <1>5, <2>2, <2>3
<1> QED BY <1>1, <1>6, <1>7, <1>8, <1>9, SameRings DEF IInv

\* The copy is complete.
THEOREM CopyDoneKeepsIInv == IInv /\ CopyDone => IInv'
<1> SUFFICES ASSUME IInv, CopyDone PROVE IInv'
  OBVIOUS
<1>1. UNCHANGED <<ringVars, avail, n, arg>> /\ BuildingFrame /\ pc' = "emit"
  BY DEF CopyDone, Goto, producerVars, consumerVars, ringVars, BuildingFrame
<1>2. TypeOK'
  BY <1>1 DEF IInv, TypeOK, PcValues, CopyDone, producerVars, consumerVars
<1> QED BY <1>1, <1>2, WithinFrame DEF BuildingFrame

\* The frame is offered to the transport.
THEOREM EmitDataKeepsIInv ==
  ASSUME NEW taken \in BOOLEAN PROVE IInv /\ EmitData(taken) => IInv'
<1> SUFFICES ASSUME IInv, EmitData(taken) PROVE IInv'
  OBVIOUS
<1>1. UNCHANGED ringVars /\ BuildingFrame
  BY DEF EmitData, producerVars, ringVars, BuildingFrame
<1>2. CASE taken
  <2>1. pc' = "commit" /\ UNCHANGED <<dropped, avail, n, arg>>
    BY <1>2 DEF EmitData, Goto
  <2>2. s_seq' \in 0 .. SeqNumMod - 1
    BY <1>2, WidthsAssumption DEF EmitData, Plus, IInv, TypeOK
  <2>3. TypeOK'
    BY <2>1, <2>2 DEF IInv, TypeOK, PcValues, EmitData, producerVars
  <2> QED BY <1>1, <2>1, <2>3, WithinFrame DEF BuildingFrame
<1>3. CASE ~taken
  <2>1. Return /\ s_seq' = s_seq
    BY <1>3 DEF EmitData
  <2>2. TypeOK'
    BY <2>1, TypeOKOnReturn DEF EmitData, IInv, TypeOK
  <2> QED BY <1>1, <2>1, <2>2, OutsideFrame DEF Return
<1> QED BY <1>2, <1>3

\* Moving an index m closer to another takes m off their distance.
LEMMA Closer ==
  ASSUME NEW i \in Index, NEW t \in Index, NEW m \in Nat, Minus(i, t, IdxMod) >= m
  PROVE  Minus(i, Plus(t, m, IdxMod), IdxMod) = Minus(i, t, IdxMod) - m
<1> USE Sizes DEF Index
<1>1. CASE t <= i
  <2>1. Minus(i, t, IdxMod) = i - t /\ t + m <= i /\ i < IdxMod  BY <1>1 DEF Minus
  <2>2. Plus(t, m, IdxMod) = t + m  BY <2>1 DEF Plus
  <2> QED BY <2>1, <2>2 DEF Minus
<1>2. CASE ~(t <= i)
  <2>1. Minus(i, t, IdxMod) = i - t + IdxMod /\ t + m <= i + IdxMod  BY <1>2 DEF Minus
  <2>2. CASE t + m < IdxMod
    BY <1>2, <2>1, <2>2 DEF Plus, Minus
  <2>3. CASE ~(t + m < IdxMod)
    <3>1. Plus(t, m, IdxMod) = t + m - IdxMod /\ t + m - IdxMod <= i  BY <2>1, <2>3 DEF Plus
    <3> QED BY <2>1, <3>1 DEF Minus
  <2> QED BY <2>2, <2>3
<1> QED BY <1>1, <1>2

\* s_tail moves n bytes on, and every mark is n bytes nearer.
LEMMA BytesReleased ==
  ASSUME IInv, Commit
  PROVE  /\ n \in Nat /\ 1 <= n /\ n <= avail /\ avail <= Stored
         /\ avail \in Nat /\ Stored \in Nat /\ Stored <= RingSize
         /\ s_tail' \in Index /\ Stored' = Stored - n
         /\ Pending' = Pending /\ LiveMarks' = LiveMarks
         /\ \A k \in LiveMarks : /\ Ahead(LiveMark(k).pos)' = Ahead(LiveMark(k).pos) - n
                                 /\ Ahead(LiveMark(k).pos) \in Int
<1> USE Sizes DEF producerVars
<1>1. /\ n \in Nat /\ 1 <= n /\ n <= avail /\ avail <= Stored
      /\ avail \in Nat /\ Stored \in Nat /\ Stored <= RingSize
  <2>1. n \in 1 .. avail /\ avail \in 1 .. Stored
    BY DEF IInv, FrameNeverEmpty, CountedStored, BuildingFrame, Commit
  <2>2. n \in Nat /\ avail \in Nat /\ Stored \in Nat /\ Stored <= RingSize
    BY DEF IInv, TypeOK, Occupancy, Stored, Minus, Index
  <2> QED BY <2>1, <2>2
<1>2. s_tail' \in Index /\ Stored' = Stored - n
  BY <1>1 DEF IInv, TypeOK, Commit, Stored, Plus, Minus, Index
<1>3. Pending' = Pending /\ LiveMarks' = LiveMarks
  BY DEF Commit, Pending, LiveMarks
<1>4. ASSUME NEW k \in LiveMarks
      PROVE  /\ Ahead(LiveMark(k).pos)' = Ahead(LiveMark(k).pos) - n
             /\ Ahead(LiveMark(k).pos) \in Int
  <2>1. LiveMark(k)' = LiveMark(k)
    BY DEF Commit, LiveMark
  <2>2. LiveMark(k).pos \in Index
    BY LiveMarkType DEF IInv, Mark
  <2>3. Ahead(LiveMark(k).pos) >= n
    BY DEF IInv, OneBurstPerFrame, BuildingFrame, Commit
  <2>4. s_tail \in Index /\ s_tail' = Plus(s_tail, n, IdxMod)
    BY DEF IInv, TypeOK, Commit
  <2>5. Ahead(LiveMark(k).pos) \in Int
    BY <2>2, <2>4 DEF Ahead, Minus, Index
  <2>6. Minus(LiveMark(k).pos, s_tail', IdxMod) = Ahead(LiveMark(k).pos) - n
    BY <1>1, <2>2, <2>3, <2>4, Closer DEF Ahead
  <2> QED BY <2>1, <2>5, <2>6 DEF Ahead
<1> QED BY <1>1, <1>2, <1>3, <1>4

\* s_tail moves over n bytes none of which a mark points to.
THEOREM CommitKeepsIInv == IInv /\ Commit => IInv'
<1> SUFFICES ASSUME IInv, Commit PROVE IInv'
  OBVIOUS
<1> USE Sizes DEF producerVars
<1>1. /\ n \in Nat /\ 1 <= n /\ n <= avail /\ avail <= Stored
      /\ avail \in Nat /\ Stored \in Nat /\ Stored <= RingSize
  BY BytesReleased
<1>2. s_tail' \in Index /\ Stored' = Stored - n
  BY BytesReleased
<1>3. TypeOK'
  BY <1>2, TypeOKOnReturn DEF Commit, IInv
<1>4. Pending' = Pending /\ LiveMarks' = LiveMarks
  BY BytesReleased
<1>5. \A k \in LiveMarks : /\ Ahead(LiveMark(k).pos)' = Ahead(LiveMark(k).pos) - n
                          /\ Ahead(LiveMark(k).pos) \in Int
  BY BytesReleased
<1>6. Occupancy'
  BY <1>1, <1>2, <1>4 DEF IInv, Occupancy
<1>7. MarksOrdered'
  BY <1>1, <1>2, <1>4, <1>5 DEF IInv, MarksOrdered
<1>8. pc' = "idle"
  BY DEF Commit, Return
<1>9. (CountedStored /\ MarksAdopted /\ FrameNeverEmpty /\ OneBurstPerFrame /\ CopyIntact)'
  BY <1>8 DEF CountedStored, MarksAdopted, FrameNeverEmpty, OneBurstPerFrame,
              CopyIntact, BuildingFrame
<1> QED BY <1>3, <1>6, <1>7, <1>9 DEF IInv

-----------------------------------------------------------------------------
(* The invariants.                                                         *)

LEMMA NextKeepsIInv == IInv /\ [Next]_vars => IInv'
<1> SUFFICES ASSUME IInv, [Next]_vars PROVE IInv'
  OBVIOUS
<1>1. CASE UsartIrq
  BY <1>1, UsartIrqKeepsIInv
<1>2. CASE PollInternal
  BY <1>2, PollStartKeepsIInv, ReadAvailKeepsIInv, AdoptMarkKeepsIInv,
     MarksDoneKeepsIInv, GatherKeepsIInv, CopyByteKeepsIInv, CopyDoneKeepsIInv,
     CommitKeepsIInv DEF PollInternal
<1>3. CASE \E taken \in BOOLEAN : EmitStatus(taken) \/ EmitData(taken)
  BY <1>3, EmitStatusKeepsIInv, EmitDataKeepsIInv
<1>4. CASE UNCHANGED vars
  <2>1. UNCHANGED <<producerVars, consumerVars, localVars>>
    BY <1>4 DEF vars
  <2>2. tim2' \in Timestamp /\ s_dropped' \in Count
    BY <2>1 DEF producerVars, IInv, TypeOK
  <2> QED BY <2>1, <2>2, NothingStored DEF producerVars
<1> QED BY <1>1, <1>2, <1>3, <1>4 DEF Next, Poll

\* Every reachable state of the relay satisfies the strengthened invariant.
THEOREM RelayInvariant == Spec => []IInv
BY InitIInv, NextKeepsIInv, PTL DEF Spec

\* Every variable keeps its type.
THEOREM RelayTypes == Spec => []TypeOK
<1>1. IInv => TypeOK  BY DEF IInv
<1> QED BY <1>1, RelayInvariant, PTL

\* Neither ring ever holds more than it has slots.
THEOREM RelayOccupancy == Spec => []Occupancy
<1>1. IInv => Occupancy  BY DEF IInv
<1> QED BY <1>1, RelayInvariant, PTL

\* Marks point into the ring, oldest first, one per byte.
THEOREM RelayMarksOrdered == Spec => []MarksOrdered
<1>1. IInv => MarksOrdered  BY DEF IInv
<1> QED BY <1>1, RelayInvariant, PTL

\* No data frame is empty or longer than what was counted.
THEOREM RelayFrameNeverEmpty == Spec => []FrameNeverEmpty
<1>1. IInv => FrameNeverEmpty  BY DEF IInv
<1> QED BY <1>1, RelayInvariant, PTL

\* No burst starts inside a frame.
THEOREM RelayOneBurstPerFrame == Spec => []OneBurstPerFrame
<1>1. IInv => OneBurstPerFrame  BY DEF IInv
<1> QED BY <1>1, RelayInvariant, PTL

\* No interrupt overwrites what a frame under construction has copied.
THEOREM RelayCopyIntact == Spec => []CopyIntact
<1>1. IInv => CopyIntact  BY DEF IInv
<1> QED BY <1>1, RelayInvariant, PTL
=============================================================================
