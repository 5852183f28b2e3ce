--------------------------- MODULE RelayUsbProofs --------------------------
(***************************************************************************)
(* Proofs about the reporting of losses and about the probe on USB, for    *)
(* every size and width: no loss is forgotten, the hole a full ring leaves *)
(* is reported before the bytes behind it, what the host reads from gaps   *)
(* in SEQ is what it has lost, and every STATUS it gets tells it something *)
(* true.                                                                   *)
(*                                                                         *)
(* None of the properties of RelayReports is inductive alone.  A STATUS    *)
(* settles what relay_poll saw when it read the counter; that what came    *)
(* later still counts needs the value read to lie between what was         *)
(* reported and the counter (StatusCovers).  That a frame ends before      *)
(* every hole needs a hole found while a call is under way to lie a whole  *)
(* ring ahead of s_tail (HolesBehindRing), and LossPending, for the call   *)
(* to begin with a STATUS when a hole is nearer.                           *)
(***************************************************************************)
EXTENDS RelayUsb, RelayProofs

-----------------------------------------------------------------------------
(* Losses and the holes they leave: RelayReports.                          *)

Hole == [pos : Index \cup {Nowhere}, seen : BOOLEAN]

\* How far a count is behind s_dropped.
Behind(count) == Minus(s_dropped, count, DropMod)

Unseen == {h \in holes : ~h.seen}

StatusCovers ==
  pc = "status" => /\ Behind(dropped) <= Behind(s_reported)
                   /\ Unseen # {} => s_dropped # dropped

\* The holes the bytes handed on by the call under way must not pass.
HolesAhead == IF pc = "idle" THEN {} ELSE IF pc = "status" THEN Unseen ELSE holes

HolesBehindRing ==
  \A h \in HolesAhead : h.pos # Nowhere => Ahead(h.pos) >= RingSize

HInv == /\ IInv
        /\ holes \subseteq Hole
        /\ LossPending /\ StatusCovers /\ HolesBehindRing

-----------------------------------------------------------------------------
(* The counter.                                                            *)

\* Counting k more losses puts every count k further behind, short of a turn.
LEMMA CountedBehind ==
  ASSUME s_dropped \in Count, NEW c \in Count, NEW k \in 0 .. 2,
         CountDropped(k), Behind(c) + 2 < DropMod
  PROVE  Minus(s_dropped', c, DropMod) = Behind(c) + k
BY WidthsAssumption DEF CountDropped, Behind, Plus, Minus, Count

\* A count is not behind exactly if it is the counter.
LEMMA NotBehind ==
  ASSUME NEW d \in Count, NEW c \in Count
  PROVE  Minus(d, c, DropMod) \in Nat /\ (Minus(d, c, DropMod) = 0 <=> d = c)
BY WidthsAssumption DEF Minus, Count

\* What an interrupt loses it counts, and a hole in the ring is where a full
\* ring ends.
LEMMA LossesCounted ==
  ASSUME IInv, ReportIrq
  PROVE  /\ \E k \in 0 .. 2, where \in SUBSET {Nowhere, s_head} :
              /\ CountDropped(k) /\ Lost(where)
              /\ where # {} => k >= 1
              /\ s_head \in where => RingFull
         /\ UNCHANGED <<consumerVars, localVars>>
<1>1. PICK gap \in Gaps : \/ \E byte \in Byte, err \in {0, 1} : ReportByte(byte, gap, err)
                          \/ UsartError(gap) /\ Lost({Nowhere})
  BY DEF ReportIrq
<1>2. s_head # Nowhere
  BY DEF IInv, TypeOK, Index, Nowhere
<1>3. CASE UsartError(gap) /\ Lost({Nowhere})
  BY <1>2, <1>3 DEF UsartError, NoteDropped
<1>4. ASSUME NEW byte \in Byte, NEW err \in {0, 1}, ReportByte(byte, gap, err)
      PROVE  /\ \E k \in 0 .. 2, where \in SUBSET {Nowhere, s_head} :
                  /\ CountDropped(k) /\ Lost(where)
                  /\ where # {} => k >= 1
                  /\ s_head \in where => RingFull
             /\ UNCHANGED <<consumerVars, localVars>>
  <2> DEFINE where == {pos \in {Nowhere, s_head} :
                         \/ pos = s_head /\ RingFull
                         \/ pos = Nowhere /\ (err = 1 \/ (~RingFull /\ MarksFull /\ NewBurst(tim2')))}
  <2>1. Lost(where) /\ where \in SUBSET {Nowhere, s_head}
    BY <1>4 DEF ReportByte
  <2>2. s_head \in where => RingFull
    BY <1>2
  <2>3. where # {} => err = 1 \/ RingFull \/ (MarksFull /\ NewBurst(tim2'))
    OBVIOUS
  <2> HIDE DEF where
  <2>4. UNCHANGED <<consumerVars, localVars>> /\ TargetRx(byte, tim2', err)
    BY <1>4 DEF ReportByte, UsartByte
  <2>5. err \in 0 .. 2 /\ err + 1 \in 0 .. 2 /\ err + 1 >= 1
    BY <1>4
  <2>6. CASE RxDropped(err) \/ RxUnmarked(byte, tim2', err)
    <3>1. CountDropped(err + 1)
      BY <2>6 DEF RxDropped, RxUnmarked
    <3> QED BY <2>1, <2>2, <2>4, <2>5, <3>1
  <2>7. CASE RxSameBurst(byte, tim2', err) \/ RxMarked(byte, tim2', err)
    <3>1. CountDropped(err) /\ (where # {} => err = 1)
      BY <2>3, <2>7 DEF RxSameBurst, RxMarked, StoreByte
    <3> QED BY <2>1, <2>2, <2>4, <2>5, <3>1
  <2> QED BY <2>4, <2>6, <2>7 DEF TargetRx
<1> QED BY <1>1, <1>3, <1>4

-----------------------------------------------------------------------------
(* The invariant.                                                          *)

\* A step of the model with the history is a step of the relay.
LEMMA ReportNextIsNext ==
  ASSUME IInv, [ReportNext]_reportVars PROVE IInv'
<1>1. ReportIrq => UsartIrq
  BY DEF ReportIrq, ReportByte, UsartIrq, UsartIrqAfter
<1>2. ReportPollStart => Poll
  BY DEF ReportPollStart, Poll, PollInternal
<1>3. ASSUME NEW taken \in BOOLEAN, ReportStatus(taken) PROVE Poll
  BY <1>3 DEF ReportStatus, Poll
<1>4. [Next]_vars
  BY <1>1, <1>2, <1>3 DEF ReportNext, reportVars, Next, Poll, PollInternal
<1> QED BY <1>4, NextKeepsIInv

LEMMA InitHInv == ReportInit => HInv
<1> SUFFICES ASSUME ReportInit PROVE HInv
  OBVIOUS
<1>1. Init /\ holes = {} /\ pc = "idle"
  BY DEF ReportInit, Init
<1> QED BY <1>1, InitIInv DEF HInv, LossPending, StatusCovers, HolesBehindRing, HolesAhead

\* A loss is counted and, if a full ring caused it, lies behind the ring.
THEOREM ReportIrqKeepsHInv == HInv /\ ReportIrq => HInv'
<1> SUFFICES ASSUME HInv, ReportIrq PROVE HInv'
  OBVIOUS
<1>1. PICK k \in 0 .. 2, where \in SUBSET {Nowhere, s_head} :
             /\ CountDropped(k) /\ Lost(where)
             /\ where # {} => k >= 1
             /\ s_head \in where => RingFull
  BY LossesCounted DEF HInv
<1>2. UNCHANGED <<s_tail, s_reported, pc, dropped>>
  BY LossesCounted DEF HInv, consumerVars, localVars
<1> DEFINE new == {[pos |-> pos, seen |-> FALSE] : pos \in where}
<1>3. holes' = holes \cup new
  BY <1>1 DEF Lost
<1>4. IInv'
  BY ReportNextIsNext DEF HInv, ReportNext
<1>5. /\ s_head \in Index /\ s_tail \in Index
      /\ s_dropped \in Count /\ s_dropped' \in Count
      /\ s_reported \in Count /\ dropped \in Count
  BY <1>4 DEF HInv, IInv, TypeOK
<1>6. new \subseteq Hole
  <2>1. where \subseteq Index \cup {Nowhere}
    BY <1>5
  <2>2. ASSUME NEW pos \in where PROVE [pos |-> pos, seen |-> FALSE] \in Hole
    BY <2>1 DEF Hole
  <2> QED BY <2>2
<1>7. holes' \subseteq Hole
  BY <1>3, <1>6 DEF HInv
<1>8. Behind(s_reported)' = Behind(s_reported) + k
  BY <1>1, <1>2, <1>5, CountedBehind DEF ReportIrq, FewUnreported, Behind
<1>9. new # {} => k >= 1
  BY <1>1
<1>10. LossPending'
  <2> SUFFICES ASSUME holes' # {} PROVE Behind(s_reported)' # 0
    BY <1>2, <1>5, NotBehind DEF LossPending, Behind
  <2>1. Behind(s_reported) \in Nat /\ (holes # {} => Behind(s_reported) # 0)
    BY <1>5, NotBehind DEF HInv, LossPending, Behind
  <2>2. holes # {} \/ k >= 1
    BY <1>3, <1>9
  <2> QED BY <1>8, <2>1, <2>2
<1>11. StatusCovers'
  <2> SUFFICES ASSUME pc = "status"
               PROVE  /\ Behind(dropped)' <= Behind(s_reported)'
                      /\ Unseen' # {} => s_dropped' # dropped
    BY <1>2 DEF StatusCovers
  <2>1. /\ Behind(dropped) <= Behind(s_reported) /\ Behind(dropped) \in Nat
        /\ Behind(s_reported) \in Nat
        /\ Unseen # {} => Behind(dropped) # 0
    BY <1>5, NotBehind DEF HInv, StatusCovers, Behind
  <2>2. Behind(dropped)' = Behind(dropped) + k
    <3>1. Behind(dropped) + 2 < DropMod
      BY <2>1, WidthsAssumption DEF ReportIrq, FewUnreported, Behind
    <3> QED BY <1>1, <1>2, <1>5, <3>1, CountedBehind DEF Behind
  <2>3. Behind(dropped)' <= Behind(s_reported)'
    BY <1>8, <2>1, <2>2
  <2>4. ASSUME Unseen' # {} PROVE s_dropped' # dropped
    <3>1. Unseen # {} \/ k >= 1
      BY <1>3, <1>9, <2>4 DEF Unseen
    <3>2. Behind(dropped)' # 0
      BY <2>1, <2>2, <3>1
    <3> QED BY <1>2, <1>5, <3>2, NotBehind DEF Behind
  <2> QED BY <2>3, <2>4
<1>12. HolesBehindRing'
  <2> SUFFICES ASSUME NEW h \in HolesAhead', h.pos # Nowhere
               PROVE  Ahead(h.pos)' >= RingSize
    BY DEF HolesBehindRing
  <2>1. h \in HolesAhead \/ h \in new
    BY <1>2, <1>3 DEF HolesAhead, Unseen
  <2>2. Ahead(h.pos)' = Ahead(h.pos)
    BY <1>2 DEF Ahead
  <2>3. ASSUME h \in new PROVE Ahead(h.pos) >= RingSize
    BY <1>1, <2>3 DEF RingFull, Stored, Ahead
  <2> QED BY <2>1, <2>2, <2>3 DEF HInv, HolesBehindRing
<1> QED BY <1>4, <1>7, <1>10, <1>11, <1>12 DEF HInv

\* A call begins with a STATUS unless there are no holes.
THEOREM ReportPollStartKeepsHInv == HInv /\ ReportPollStart => HInv'
<1> SUFFICES ASSUME HInv, ReportPollStart PROVE HInv'
  OBVIOUS
<1>1. /\ PollStart
      /\ holes' = {[h EXCEPT !.seen = TRUE] : h \in holes}
  BY DEF ReportPollStart
<1>2. /\ UNCHANGED <<s_dropped, s_reported, s_tail>> /\ dropped' = s_dropped
      /\ pc' = IF s_dropped # s_reported THEN "status" ELSE "avail"
  BY <1>1 DEF PollStart, Goto, producerVars, consumerVars
<1>3. IInv'
  BY ReportNextIsNext DEF HInv, ReportNext
<1>4. s_dropped \in Count /\ s_reported \in Count
  BY DEF HInv, IInv, TypeOK
<1>5. \A h \in holes : /\ [h EXCEPT !.seen = TRUE] \in Hole
                       /\ [h EXCEPT !.seen = TRUE].seen
  BY DEF HInv, Hole
<1>6. holes' \subseteq Hole /\ Unseen' = {}
  BY <1>1, <1>5 DEF Unseen
<1>7. LossPending'
  BY <1>1, <1>2 DEF HInv, LossPending
<1>8. StatusCovers'
  BY <1>2, <1>4, <1>6, NotBehind DEF StatusCovers, Behind
<1>9. HolesBehindRing'
  <2>1. HolesAhead' = {}
    BY <1>1, <1>2, <1>6 DEF HolesAhead, HInv, LossPending
  <2> QED BY <2>1 DEF HolesBehindRing
<1> QED BY <1>3, <1>6, <1>7, <1>8, <1>9 DEF HInv

\* A STATUS settles the holes seen when the counter was read.
THEOREM ReportStatusKeepsHInv ==
  ASSUME NEW taken \in BOOLEAN PROVE HInv /\ ReportStatus(taken) => HInv'
<1> SUFFICES ASSUME HInv, ReportStatus(taken) PROVE HInv'
  OBVIOUS
<1>1. /\ pc = "status" /\ UNCHANGED <<s_dropped, s_tail>>
      /\ holes' = IF taken THEN Unseen ELSE holes
  BY DEF ReportStatus, EmitStatus, producerVars, Unseen
<1>2. IInv'
  BY ReportNextIsNext DEF HInv, ReportNext
<1>3. CASE taken
  <2>1. s_reported' = dropped /\ pc' = "avail" /\ holes' = Unseen
    BY <1>1, <1>3 DEF ReportStatus, EmitStatus, Goto
  <2>2. holes' \subseteq Hole
    BY <2>1 DEF HInv, Unseen
  <2>3. LossPending' /\ StatusCovers'
    BY <1>1, <2>1 DEF HInv, LossPending, StatusCovers
  <2>4. HolesBehindRing'
    BY <1>1, <2>1 DEF HInv, HolesBehindRing, HolesAhead, Ahead
  <2> QED BY <1>2, <2>2, <2>3, <2>4 DEF HInv
<1>4. CASE ~taken
  <2>1. s_reported' = s_reported /\ pc' = "idle" /\ holes' = holes
    BY <1>1, <1>4 DEF ReportStatus, EmitStatus, Return
  <2> QED BY <1>1, <1>2, <2>1
          DEF HInv, LossPending, StatusCovers, HolesBehindRing, HolesAhead
<1> QED BY <1>3, <1>4

\* No other step of a call reports, loses or, before its end, moves s_tail.
LEMMA OtherStepsKeepHInv ==
  ASSUME HInv, IInv', UNCHANGED <<holes, s_dropped, s_reported>>,
         pc' # "status" \/ UNCHANGED <<pc, dropped>>,
         pc' = "idle" \/ (UNCHANGED s_tail /\ pc' = pc)
                      \/ (UNCHANGED s_tail /\ pc \notin {"idle", "status"})
  PROVE  HInv'
<1>1. LossPending' /\ holes' \subseteq Hole
  BY DEF HInv, LossPending
<1>2. StatusCovers'
  BY DEF HInv, StatusCovers, Behind, Unseen
<1>3. HolesBehindRing'
  BY DEF HInv, HolesBehindRing, HolesAhead, Unseen, Ahead
<1> QED BY <1>1, <1>2, <1>3 DEF HInv

LEMMA ReportNextKeepsHInv == HInv /\ [ReportNext]_reportVars => HInv'
<1> SUFFICES ASSUME HInv, [ReportNext]_reportVars PROVE HInv'
  OBVIOUS
<1> USE DEF producerVars, consumerVars, localVars
<1>1. IInv'
  BY ReportNextIsNext DEF HInv
<1>2. CASE ReportIrq
  BY <1>2, ReportIrqKeepsHInv
<1>3. CASE ReportPollStart
  BY <1>3, ReportPollStartKeepsHInv
<1>4. CASE \E taken \in BOOLEAN : ReportStatus(taken)
  BY <1>4, ReportStatusKeepsHInv
<1>5. CASE UNCHANGED holes /\ ReadAvail
  BY <1>1, <1>5, OtherStepsKeepHInv DEF ReadAvail, Return, Goto
<1>6. CASE UNCHANGED holes /\ AdoptMark
  BY <1>1, <1>6, OtherStepsKeepHInv DEF AdoptMark
<1>7. CASE UNCHANGED holes /\ (MarksDone \/ Gather)
  BY <1>1, <1>7, OtherStepsKeepHInv DEF MarksDone, Gather, Goto
<1>8. CASE UNCHANGED holes /\ (CopyByte \/ CopyDone)
  BY <1>1, <1>8, OtherStepsKeepHInv DEF CopyByte, CopyDone, Goto
<1>9. CASE UNCHANGED holes /\ Commit
  BY <1>1, <1>9, OtherStepsKeepHInv DEF Commit, Return
<1>10. ASSUME NEW taken \in BOOLEAN, UNCHANGED holes, EmitData(taken) PROVE HInv'
  BY <1>1, <1>10, OtherStepsKeepHInv DEF EmitData, Return, Goto
<1>11. CASE UNCHANGED reportVars
  BY <1>1, <1>11, OtherStepsKeepHInv DEF reportVars, vars
<1> QED BY <1>2, <1>3, <1>4, <1>5, <1>6, <1>7, <1>8, <1>9, <1>10, <1>11 DEF ReportNext

\* Every reachable state of the relay with its history satisfies the invariant.
THEOREM ReportInvariant == ReportSpec => []HInv
BY InitHInv, ReportNextKeepsHInv, PTL DEF ReportSpec

\* A loss that no STATUS taken by the sink counts keeps one due.
THEOREM ReportLossPending == ReportSpec => []LossPending
<1>1. HInv => LossPending  BY DEF HInv
<1> QED BY <1>1, ReportInvariant, PTL

\* A frame ends before every hole whose STATUS has not been taken.
THEOREM ReportRingDropsFirst == ReportSpec => []RingDropsReportedFirst
<1>1. HInv => RingDropsReportedFirst
  <2> SUFFICES ASSUME HInv, pc = "commit", NEW h \in holes, h.pos # Nowhere
               PROVE  Ahead(h.pos) >= n
    BY DEF RingDropsReportedFirst
  <2>1. n <= RingSize /\ n \in Nat
    BY Sizes DEF HInv, IInv, TypeOK, FrameNeverEmpty, BuildingFrame
  <2>2. Ahead(h.pos) >= RingSize
    BY DEF HInv, HolesBehindRing, HolesAhead
  <2>3. Ahead(h.pos) \in Int
    BY Sizes DEF HInv, Hole, IInv, TypeOK, Ahead, Minus, Index
  <2> QED BY <2>1, <2>2, <2>3, Sizes
<1> QED BY <1>1, ReportInvariant, PTL

-----------------------------------------------------------------------------
(* The probe on USB: RelayUsb.                                             *)
SeqNum == 0 .. SeqNumMod - 1
Frame  == [type : {"STATUS", "DATA"}, seq : SeqNum, dropped : Count]

SeqTypes == /\ s_seq \in SeqNum /\ hostSeq \in SeqNum /\ flushed \in SeqNum
            /\ dropped \in Count /\ s_dropped \in Count
            /\ queue \in Seq(Frame)

SeqInv == SeqTypes /\ SeqGapIsLoss

\* The number due k frames after those the host has and those it lost.
Due(k) == (hostSeq + flushed + k) % SeqNumMod

-----------------------------------------------------------------------------
(* Numbers modulo the width of SEQ.                                        *)

LEMMA ModAdd ==
  ASSUME NEW M \in Nat \ {0}, NEW a \in Int, NEW b \in Int
  PROVE  ((a % M) + b) % M = (a + b) % M
<1> DEFINE q == a \div M
           r == a % M
<1>1. q \in Int /\ r \in Int /\ a = q * M + r
  BY DivMod
<1> HIDE DEF q, r
<1>2. q * M \in Int /\ (q * M) % M = 0
  <2>1. q * M \in Int /\ q * M = q * M + 0 /\ 0 \in 0 .. M - 1
    BY <1>1
  <2> QED BY <1>1, <2>1, ModUnique
<1>3. ((r + b) + q * M) % M = (r + b) % M
  <2>1. r + b \in Int
    BY <1>1
  <2> QED BY <1>2, <2>1, AddMultiple
<1>4. (r + b) + q * M = a + b
  BY <1>1, <1>2
<1> QED BY <1>3, <1>4 DEF r

\* A wrapping increment is one modulo the width.
LEMMA NextSeq ==
  ASSUME NEW a \in Int
  PROVE  Plus(a % SeqNumMod, 1, SeqNumMod) = (a + 1) % SeqNumMod
<1> DEFINE r == a % SeqNumMod
<1>1. r \in 0 .. SeqNumMod - 1 /\ SeqNumMod \in Nat \ {0}
  BY WidthsAssumption, DivMod
<1>2. (r + 1) % SeqNumMod = (a + 1) % SeqNumMod
  <2>1. SeqNumMod \in Nat \ {0} /\ 1 \in Int
    BY <1>1
  <2> QED BY <2>1, ModAdd
<1>3. (r + 1) % SeqNumMod = Plus(r, 1, SeqNumMod)
  <2> HIDE DEF r
  <2>1. r + 1 \in Int
    BY <1>1
  <2>2. CASE r + 1 < SeqNumMod
    <3>1. r + 1 = 0 * SeqNumMod + (r + 1) /\ r + 1 \in 0 .. SeqNumMod - 1
      BY <1>1, <2>2
    <3>2. (r + 1) % SeqNumMod = r + 1
      BY <1>1, <2>1, <3>1, ModUnique
    <3> QED BY <2>2, <3>2 DEF Plus
  <2>3. CASE ~(r + 1 < SeqNumMod)
    <3>1. r + 1 = 1 * SeqNumMod + 0 /\ 0 \in 0 .. SeqNumMod - 1
      BY <1>1, <2>3
    <3>2. (r + 1) % SeqNumMod = 0
      BY <1>1, <2>1, <3>1, ModUnique
    <3> QED BY <1>1, <2>3, <3>1, <3>2 DEF Plus
  <2> QED BY <2>2, <2>3
<1> QED BY <1>2, <1>3

-----------------------------------------------------------------------------
(* The invariant.                                                          *)

LEMMA InitSeqInv == UsbInit => SeqInv
<1> SUFFICES ASSUME UsbInit PROVE SeqInv
  OBVIOUS
<1>1. /\ s_seq = 0 /\ hostSeq = 0 /\ flushed = 0 /\ queue = <<>>
      /\ dropped = 0 /\ s_dropped = 0
  BY DEF UsbInit, ReportInit, Init
<1>2. SeqTypes
  BY <1>1, WidthsAssumption DEF SeqTypes, SeqNum, Count
<1>3. 0 % SeqNumMod = 0
  BY WidthsAssumption, ModUnique
<1> QED BY <1>1, <1>2, <1>3 DEF SeqInv, SeqGapIsLoss

\* A frame is queued under the number that is due, or not at all.
LEMMA FrameQueued ==
  ASSUME SeqInv, NEW taken \in BOOLEAN, NEW frame \in Frame, frame.seq = s_seq,
         UsbCdcWrite(frame, taken),
         s_seq' = IF taken THEN Plus(s_seq, 1, SeqNumMod) ELSE s_seq,
         dropped' \in Count, UNCHANGED <<s_dropped, hostSeq, flushed>>
  PROVE  SeqInv'
<1> USE DEF SeqInv
<1>1. CASE ~taken
  BY <1>1 DEF UsbCdcWrite, SeqTypes, SeqGapIsLoss
<1>2. CASE taken
  <2>1. queue' = Append(queue, frame) /\ s_seq' = Plus(s_seq, 1, SeqNumMod)
    BY <1>2 DEF UsbCdcWrite
  <2>2. queue \in Seq(Frame) /\ Len(queue) \in Nat
    BY DEF SeqTypes
  <2>3. queue' \in Seq(Frame) /\ Len(queue') = Len(queue) + 1
    BY <2>1, <2>2
  <2>4. s_seq = Due(Len(queue)) /\ \A k \in DOMAIN queue : queue[k].seq = Due(k - 1)
    BY DEF SeqGapIsLoss, Due
  <2>5. hostSeq + flushed \in Int
    BY WidthsAssumption DEF SeqTypes, SeqNum
  <2>6. s_seq' = Due(Len(queue) + 1)
    <3>1. hostSeq + flushed + Len(queue) \in Int
      BY <2>2, <2>5
    <3>2. s_seq' = (hostSeq + flushed + Len(queue) + 1) % SeqNumMod
      BY <2>1, <2>4, <3>1, NextSeq DEF Due
    <3>3. hostSeq + flushed + Len(queue) + 1 = hostSeq + flushed + (Len(queue) + 1)
      BY <2>2, WidthsAssumption DEF SeqTypes, SeqNum
    <3> QED BY <3>2, <3>3 DEF Due
  <2>7. \A k \in DOMAIN queue' : queue'[k].seq = Due(k - 1)
    BY <2>1, <2>2, <2>4
  <2>8. \A k : Due(k)' = Due(k)
    BY DEF Due
  <2>9. SeqGapIsLoss'
    BY <2>3, <2>6, <2>7, <2>8 DEF SeqGapIsLoss, Due
  <2>10. s_seq' \in SeqNum
    BY <2>1, WidthsAssumption DEF SeqTypes, SeqNum, Plus
  <2> QED BY <2>3, <2>9, <2>10 DEF SeqTypes
<1> QED BY <1>1, <1>2

\* A step that neither numbers, queues, delivers nor drops a frame.
LEMMA NothingQueued ==
  ASSUME SeqInv, UNCHANGED <<s_seq, queue, hostSeq, flushed>>,
         dropped' \in Count, s_dropped' \in Count
  PROVE  SeqInv'
BY DEF SeqInv, SeqTypes, SeqGapIsLoss

\* A byte from the target makes or fills no frame (relay_target_byte).
THEOREM TargetByteKeepsSeqInv == SeqInv /\ TargetByte => SeqInv'
<1> SUFFICES ASSUME SeqInv, TargetByte PROVE SeqInv'
  OBVIOUS
<1>1. UNCHANGED <<s_seq, dropped, queue, hostSeq, flushed>>
  BY DEF TargetByte, ReportIrq, ReportByte, UsartByte, UsartError,
         consumerVars, localVars, hostVars
<1>2. \E k \in 0 .. 2 : CountDropped(k)
  <2>1. PICK gap \in Gaps : \/ \E byte \in Byte, err \in {0, 1} : UsartByte(byte, gap, err)
                            \/ UsartError(gap)
    BY DEF TargetByte, ReportIrq, ReportByte
  <2>2. CASE UsartError(gap)
    BY <2>2 DEF UsartError, NoteDropped
  <2>3. ASSUME NEW byte \in Byte, NEW err \in {0, 1}, UsartByte(byte, gap, err)
        PROVE  \E k \in 0 .. 2 : CountDropped(k)
    <3>1. CountDropped(err) \/ CountDropped(err + 1)
      BY <2>3 DEF UsartByte, TargetRx, RxDropped, RxSameBurst, RxMarked, RxUnmarked
    <3>2. err \in 0 .. 2 /\ err + 1 \in 0 .. 2
      OBVIOUS
    <3> QED BY <3>1, <3>2
  <2> QED BY <2>1, <2>2, <2>3
<1>3. s_dropped' \in Count /\ dropped' \in Count
  BY <1>1, <1>2, WidthsAssumption DEF SeqInv, SeqTypes, CountDropped, Plus, Count
<1> QED BY <1>1, <1>3, NothingQueued

\* relay_poll gives each frame the next SEQ, whether the frame is queued or
\* refused (emit_frame).
THEOREM RelayPollKeepsSeqInv == SeqInv /\ RelayPoll => SeqInv'
<1> SUFFICES ASSUME SeqInv, RelayPoll PROVE SeqInv'
  OBVIOUS
<1> USE DEF producerVars, consumerVars, localVars, hostVars
<1>1. UNCHANGED <<hostSeq, flushed>> /\ dropped \in Count /\ s_dropped \in Count
  BY DEF RelayPoll, SeqInv, SeqTypes
<1>2. 0 \in Count
  BY WidthsAssumption DEF Count
<1>3. CASE ReportPollStart /\ UNCHANGED queue
  <2>1. UNCHANGED <<s_seq, s_dropped>> /\ dropped' = s_dropped
    BY <1>3 DEF ReportPollStart, PollStart
  <2> QED BY <1>1, <1>3, <2>1, NothingQueued
<1>4. ASSUME NEW taken \in BOOLEAN, ReportStatus(taken), UsbCdcWrite(StatusFrame, taken)
      PROVE  SeqInv'
  <2>1. StatusFrame \in Frame /\ StatusFrame.seq = s_seq
    BY <1>1 DEF StatusFrame, Frame, SeqInv, SeqTypes
  <2>2. /\ s_seq' = IF taken THEN Plus(s_seq, 1, SeqNumMod) ELSE s_seq
        /\ dropped' \in Count /\ UNCHANGED s_dropped
    BY <1>1, <1>2, <1>4 DEF ReportStatus, EmitStatus, Return
  <2> QED BY <1>1, <1>4, <2>1, <2>2, FrameQueued
<1>5. ASSUME NEW taken \in BOOLEAN, EmitData(taken), UsbCdcWrite(Data, taken)
      PROVE  SeqInv'
  <2>1. Data \in Frame /\ Data.seq = s_seq
    BY <1>2 DEF Data, Frame, SeqInv, SeqTypes
  <2>2. /\ s_seq' = IF taken THEN Plus(s_seq, 1, SeqNumMod) ELSE s_seq
        /\ dropped' \in Count /\ UNCHANGED s_dropped
    BY <1>1, <1>2, <1>5 DEF EmitData, Return
  <2> QED BY <1>1, <1>5, <2>1, <2>2, FrameQueued
<1>6. CASE (ReadAvail \/ Commit) /\ UNCHANGED queue
  <2>1. UNCHANGED <<s_seq, s_dropped>> /\ dropped' \in Count
    BY <1>1, <1>2, <1>6 DEF ReadAvail, Commit, Return
  <2> QED BY <1>1, <1>6, <2>1, NothingQueued
<1>7. CASE (AdoptMark \/ MarksDone \/ Gather \/ CopyByte \/ CopyDone) /\ UNCHANGED queue
  <2>1. UNCHANGED <<s_seq, s_dropped, dropped>>
    BY <1>7 DEF AdoptMark, MarksDone, Gather, CopyByte, CopyDone
  <2> QED BY <1>1, <1>7, <2>1, NothingQueued
<1> QED BY <1>3, <1>4, <1>5, <1>6, <1>7 DEF RelayPoll

\* The host takes the oldest frame and expects the number after it.
THEOREM DeliverKeepsSeqInv == SeqInv /\ Deliver => SeqInv'
<1> SUFFICES ASSUME SeqInv, Deliver PROVE SeqInv'
  OBVIOUS
<1> USE DEF SeqInv
<1>1. /\ queue # <<>> /\ queue' = Tail(queue)
      /\ hostSeq' = Plus(Head(queue).seq, 1, SeqNumMod) /\ flushed' = 0
      /\ UNCHANGED <<s_seq, dropped, s_dropped>>
  BY DEF Deliver, reportVars, vars, producerVars, consumerVars, localVars
<1>2. /\ queue \in Seq(Frame) /\ Len(queue) \in Nat \ {0} /\ Head(queue) = queue[1]
      /\ 1 \in DOMAIN queue /\ queue' \in Seq(Frame) /\ Len(queue') = Len(queue) - 1
      /\ \A k \in DOMAIN queue' : k + 1 \in DOMAIN queue /\ queue'[k] = queue[k + 1]
  BY <1>1 DEF SeqTypes
<1> DEFINE a == hostSeq + flushed
<1>3. a \in Int
  BY WidthsAssumption DEF SeqTypes, SeqNum
<1>4. hostSeq' = (a + 1) % SeqNumMod
  <2>1. Head(queue).seq = (a + 0) % SeqNumMod
    BY <1>2 DEF SeqGapIsLoss
  <2>2. a + 0 = a
    BY <1>3
  <2> QED BY <1>1, <1>3, <2>1, <2>2, NextSeq
<1>5. hostSeq' \in SeqNum
  <2>1. a + 1 \in Int /\ SeqNumMod \in Nat \ {0}
    BY <1>3, WidthsAssumption
  <2>2. (a + 1) % SeqNumMod \in 0 .. SeqNumMod - 1
    BY <2>1, DivMod
  <2> QED BY <1>4, <2>2 DEF SeqNum
<1>6. ASSUME NEW k \in Int PROVE Due(k)' = (a + (k + 1)) % SeqNumMod
  <2>1. Due(k)' = (hostSeq' + k) % SeqNumMod
    <3>1. hostSeq' + flushed' + k = hostSeq' + k
      BY <1>1, <1>5, WidthsAssumption DEF SeqNum
    <3> QED BY <3>1 DEF Due
  <2>2. (((a + 1) % SeqNumMod) + k) % SeqNumMod = ((a + 1) + k) % SeqNumMod
    <3>1. a + 1 \in Int /\ k \in Int /\ SeqNumMod \in Nat \ {0}
      BY <1>3, WidthsAssumption
    <3> QED BY <3>1, ModAdd
  <2>3. (a + 1) + k = a + (k + 1)
    BY <1>3
  <2> QED BY <1>4, <2>1, <2>2, <2>3
<1> HIDE DEF a
<1>7. s_seq = (a + Len(queue)) % SeqNumMod /\ \A k \in DOMAIN queue : queue[k].seq = (a + (k - 1)) % SeqNumMod
  BY DEF SeqGapIsLoss, a
<1>8. ASSUME NEW k \in Int, k = Len(queue') PROVE s_seq' = Due(k)'
  <2>1. k + 1 = Len(queue)
    BY <1>2, <1>8
  <2> QED BY <1>1, <1>6, <1>7, <2>1
<1>9. ASSUME NEW k \in DOMAIN queue' PROVE queue'[k].seq = Due(k - 1)'
  <2>1. k \in Int /\ k - 1 \in Int /\ (k - 1) + 1 = (k + 1) - 1
    BY <1>2
  <2> QED BY <1>2, <1>6, <1>7, <2>1
<1>10. SeqGapIsLoss'
  <2>1. Len(queue') \in Int
    BY <1>2
  <2>2. s_seq' = (hostSeq' + flushed' + Len(queue')) % SeqNumMod
    BY <1>8, <2>1 DEF Due
  <2>3. \A k \in DOMAIN queue' : queue'[k].seq = (hostSeq' + flushed' + (k - 1)) % SeqNumMod
    BY <1>9 DEF Due
  <2> QED BY <2>2, <2>3 DEF SeqGapIsLoss
<1> QED BY <1>1, <1>2, <1>5, <1>10, WidthsAssumption DEF SeqTypes, SeqNum

\* What a flush drops becomes a gap of as many numbers.
THEOREM FlushKeepsSeqInv == SeqInv /\ Flush => SeqInv'
<1> SUFFICES ASSUME SeqInv, Flush PROVE SeqInv'
  OBVIOUS
<1> USE DEF SeqInv
<1>1. /\ queue' = <<>> /\ flushed' = (flushed + Len(queue)) % SeqNumMod
      /\ UNCHANGED <<s_seq, hostSeq, dropped, s_dropped>>
  BY DEF Flush, reportVars, vars, producerVars, consumerVars, localVars
<1>2. flushed + Len(queue) \in Int /\ hostSeq \in Int /\ flushed \in Int /\ Len(queue) \in Int
  BY WidthsAssumption DEF SeqTypes, SeqNum
<1>3. flushed' \in SeqNum
  BY <1>1, <1>2, DivMod, WidthsAssumption DEF SeqNum
<1>4. Due(0)' = s_seq'
  <2>1. Due(0)' = (flushed' + hostSeq) % SeqNumMod
    <3>1. hostSeq' + flushed' + 0 = flushed' + hostSeq
      BY <1>1, <1>2, <1>3, WidthsAssumption DEF SeqNum
    <3> QED BY <3>1 DEF Due
  <2>2. (flushed' + hostSeq) % SeqNumMod = ((flushed + Len(queue)) + hostSeq) % SeqNumMod
    BY <1>1, <1>2, ModAdd, WidthsAssumption
  <2>3. (flushed + Len(queue)) + hostSeq = hostSeq + flushed + Len(queue)
    BY <1>2
  <2>4. s_seq = (hostSeq + flushed + Len(queue)) % SeqNumMod
    BY DEF SeqGapIsLoss
  <2> QED BY <1>1, <2>1, <2>2, <2>3, <2>4
<1>5. SeqGapIsLoss'
  BY <1>1, <1>4 DEF SeqGapIsLoss, Due
<1> QED BY <1>1, <1>3, <1>5 DEF SeqTypes

LEMMA UsbNextKeepsSeqInv == SeqInv /\ [UsbNext]_usbVars => SeqInv'
<1> SUFFICES ASSUME SeqInv, [UsbNext]_usbVars PROVE SeqInv'
  OBVIOUS
<1>1. CASE Configure
  BY <1>1, NothingQueued
  DEF Configure, reportVars, vars, producerVars, consumerVars, localVars, hostVars, SeqInv, SeqTypes
<1>2. CASE UNCHANGED usbVars
  BY <1>2, NothingQueued
  DEF usbVars, reportVars, vars, producerVars, consumerVars, localVars, SeqInv, SeqTypes
<1> QED BY <1>1, <1>2, TargetByteKeepsSeqInv, RelayPollKeepsSeqInv, DeliverKeepsSeqInv,
           FlushKeepsSeqInv DEF UsbNext

\* A gap in SEQ is exactly what was dropped in between, modulo its width.
THEOREM UsbSeqGapIsLoss == UsbSpec => []SeqGapIsLoss
<1>1. SeqInv => SeqGapIsLoss  BY DEF SeqInv
<1> QED BY <1>1, InitSeqInv, UsbNextKeepsSeqInv, PTL DEF UsbSpec

-----------------------------------------------------------------------------
(* What is proved of the relay with any sink holds with this one.          *)

\* A step of the probe is a step of the relay or none.
LEMMA UsbNextIsReportNext == [UsbNext]_usbVars => [ReportNext]_reportVars
<1> SUFFICES ASSUME [UsbNext]_usbVars PROVE [ReportNext]_reportVars
  OBVIOUS
<1>1. CASE TargetByte
  BY <1>1 DEF TargetByte, ReportNext
<1>2. CASE RelayPoll
  BY <1>2 DEF RelayPoll, ReportNext
<1>3. CASE Deliver \/ Flush \/ Configure \/ UNCHANGED usbVars
  BY <1>3 DEF Deliver, Flush, Configure, usbVars
<1> QED BY <1>1, <1>2, <1>3 DEF UsbNext

\* The probe with its USB queue is the relay with a transport that accepts or
\* refuses: what is proved of ReportSpec holds for it.
THEOREM UsbImplementsReports == UsbSpec => ReportSpec
<1>1. UsbInit => ReportInit
  BY DEF UsbInit
<1> QED BY <1>1, UsbNextIsReportNext, PTL DEF UsbSpec, ReportSpec

\* No loss is forgotten, whatever becomes of the queue.
THEOREM UsbLossPending == UsbSpec => []LossPending
BY UsbImplementsReports, ReportLossPending, PTL

\* Bytes behind a hole come after the STATUS that counts it.
THEOREM UsbRingDropsFirst == UsbSpec => []RingDropsReportedFirst
BY UsbImplementsReports, ReportRingDropsFirst, PTL

-----------------------------------------------------------------------------
(* What the host knows of losses.                                          *)

\* The counts on their way to the host are in order: what it has, what is
\* queued, oldest first, and s_reported.
CountsInOrder ==
  /\ Behind(hostCount) >= Behind(s_reported)
  /\ \A k \in Statuses : /\ Behind(hostCount) >= Behind(queue[k].dropped)
                         /\ Behind(queue[k].dropped) >= Behind(s_reported)
  /\ \A j, k \in Statuses : j < k => Behind(queue[j].dropped) >= Behind(queue[k].dropped)

NewestQueued == \E k \in Statuses : /\ queue[k].dropped = s_reported
                                   /\ \A j \in Statuses : j <= k

\* The newest of them is s_reported, unless it was flushed.
NewestIsReported ==
  IF Statuses = {} THEN hostCount = s_reported \/ statusLost ELSE NewestQueued

KnowsInv == /\ HInv /\ SeqInv
            /\ hostCount \in Count
            /\ CountsInOrder /\ NewestIsReported

LEMMA KnowsTypes ==
  ASSUME HInv, SeqInv, hostCount \in Count
  PROVE  /\ s_dropped \in Count /\ s_reported \in Count /\ dropped \in Count
         /\ queue \in Seq(Frame) /\ Len(queue) \in Nat /\ Statuses \subseteq 1 .. Len(queue)
         /\ \A k \in Statuses : queue[k].dropped \in Count
         /\ \A c \in Count : Behind(c) \in Nat
<1>1. s_dropped \in Count /\ s_reported \in Count /\ dropped \in Count
  BY DEF HInv, IInv, TypeOK
<1>2. queue \in Seq(Frame)
  BY DEF SeqInv, SeqTypes
<1>3. /\ Len(queue) \in Nat /\ Statuses \subseteq 1 .. Len(queue)
      /\ \A k \in Statuses : queue[k] \in Frame
  BY <1>2 DEF Statuses
<1>4. \A k \in Statuses : queue[k].dropped \in Count
  BY <1>3 DEF Frame
<1>5. \A c \in Count : Behind(c) \in Nat
  BY <1>1, NotBehind DEF Behind
<1> QED BY <1>1, <1>2, <1>3, <1>4, <1>5

LEMMA InitKnowsInv == UsbInit => KnowsInv
<1> SUFFICES ASSUME UsbInit PROVE KnowsInv
  OBVIOUS
<1>1. HInv /\ SeqInv
  BY InitHInv, InitSeqInv DEF UsbInit
<1>2. queue = <<>> /\ hostCount = 0 /\ s_reported = 0
  BY DEF UsbInit, ReportInit, Init
<1>3. hostCount \in Count
  BY <1>2, WidthsAssumption DEF Count
<1>4. Statuses = {}
  BY <1>2 DEF Statuses
<1>5. CountsInOrder /\ NewestIsReported
  BY <1>1, <1>2, <1>3, <1>4, KnowsTypes DEF CountsInOrder, NewestIsReported
<1> QED BY <1>1, <1>3, <1>5 DEF KnowsInv

\* Losses put every count on its way equally further behind.
THEOREM TargetByteKeepsKnows ==
  KnowsInv /\ TargetByte => CountsInOrder' /\ NewestIsReported'
<1> SUFFICES ASSUME KnowsInv, TargetByte PROVE CountsInOrder' /\ NewestIsReported'
  OBVIOUS
<1> USE DEF KnowsInv
<1>1. PICK k \in 0 .. 2 : CountDropped(k)
  BY LossesCounted DEF TargetByte, HInv
<1>2. UNCHANGED <<s_reported, queue, hostCount, statusLost>>
  BY LossesCounted DEF TargetByte, HInv, consumerVars, hostVars
<1>3. Behind(hostCount) + 2 < DropMod
  BY DEF TargetByte, FewUnknown, Behind
<1>4. ASSUME NEW c \in Count, Behind(hostCount) >= Behind(c)
      PROVE  Minus(s_dropped', c, DropMod) = Behind(c) + k
  <2>1. Behind(c) + 2 < DropMod /\ s_dropped \in Count
    BY <1>3, <1>4, KnowsTypes, WidthsAssumption
  <2> QED BY <1>1, <2>1, CountedBehind
<1>5. /\ Behind(hostCount)' = Behind(hostCount) + k
      /\ Behind(s_reported)' = Behind(s_reported) + k
      /\ \A j \in Statuses : Minus(s_dropped', queue[j].dropped, DropMod) = Behind(queue[j].dropped) + k
  <2>1. /\ Behind(hostCount)' = Minus(s_dropped', hostCount, DropMod)
        /\ Behind(s_reported)' = Minus(s_dropped', s_reported, DropMod)
    BY <1>2 DEF Behind
  <2>2. Behind(hostCount) >= Behind(hostCount)
    BY KnowsTypes
  <2> QED BY <1>4, <2>1, <2>2, KnowsTypes DEF CountsInOrder
<1>6. Statuses' = Statuses
  BY <1>2 DEF Statuses
<1>7. \A j \in Statuses : Behind(queue[j].dropped)' = Behind(queue[j].dropped) + k
  BY <1>2, <1>5 DEF Behind
<1>8. CountsInOrder'
  BY <1>5, <1>6, <1>7, KnowsTypes DEF CountsInOrder
<1>9. NewestIsReported'
  BY <1>2, <1>6 DEF NewestIsReported, NewestQueued
<1> QED BY <1>8, <1>9

\* A step that reports, queues, delivers and drops nothing.
LEMMA NothingReported ==
  ASSUME CountsInOrder, NewestIsReported, UNCHANGED <<s_dropped, s_reported, hostCount, statusLost>>,
         Statuses' = Statuses, \A k \in Statuses : queue'[k] = queue[k]
  PROVE  CountsInOrder' /\ NewestIsReported'
<1>1. CountsInOrder'
  BY DEF CountsInOrder, Behind
<1>2. NewestIsReported'
  BY DEF NewestIsReported, NewestQueued
<1> QED BY <1>1, <1>2

\* A STATUS that is queued says what relay_poll read, which is no further
\* behind than what was reported before; one that is refused says nothing.
THEOREM StatusKeepsKnows ==
  ASSUME KnowsInv, NEW taken \in BOOLEAN, ReportStatus(taken), UsbCdcWrite(StatusFrame, taken),
         UNCHANGED hostVars
  PROVE  CountsInOrder' /\ NewestIsReported'
<1> USE DEF KnowsInv
<1>1. UNCHANGED <<s_dropped, hostCount, statusLost>>
  BY DEF ReportStatus, EmitStatus, producerVars, hostVars
<1>2. CASE ~taken
  <2>1. UNCHANGED <<s_reported, queue>>
    BY <1>2 DEF ReportStatus, EmitStatus, Return, UsbCdcWrite
  <2> QED BY <1>1, <2>1, NothingReported DEF Statuses
<1>3. CASE taken
  <2> DEFINE new == Len(queue) + 1
  <2>1. s_reported' = dropped /\ queue' = Append(queue, StatusFrame)
    BY <1>3 DEF ReportStatus, EmitStatus, UsbCdcWrite
  <2>2. /\ queue \in Seq(Frame) /\ Len(queue) \in Nat /\ Statuses \subseteq 1 .. Len(queue)
        /\ dropped \in Count /\ s_reported \in Count
    BY KnowsTypes
  <2>3. StatusFrame.type = "STATUS" /\ StatusFrame.dropped = dropped
    BY DEF StatusFrame
  <2>4. /\ Statuses' = Statuses \cup {new} /\ queue'[new] = StatusFrame
        /\ \A k \in Statuses : queue'[k] = queue[k]
    BY <2>1, <2>2, <2>3 DEF Statuses
  <2>5. \A k \in Statuses : k < new
    BY <2>2
  <2>6. Behind(dropped) <= Behind(s_reported)
    BY DEF HInv, StatusCovers, ReportStatus, EmitStatus
  <2> HIDE DEF new
  <2>7. CountsInOrder'
    <3>1. ASSUME NEW c \in Count, Behind(c) >= Behind(s_reported)
          PROVE  Behind(c) >= Behind(dropped)
      BY <2>2, <2>6, <3>1, KnowsTypes
    <3>2. /\ Behind(hostCount) >= Behind(dropped)
          /\ \A k \in Statuses : Behind(queue[k].dropped) >= Behind(dropped)
      BY <3>1, KnowsTypes DEF CountsInOrder
    <3>3. Behind(dropped) >= Behind(dropped)
      BY <2>2, KnowsTypes
    <3>4. /\ \A k \in Statuses' : Behind(hostCount) >= Behind(queue'[k].dropped)
          /\ \A k \in Statuses' : Behind(queue'[k].dropped) >= Behind(dropped)
      BY <2>3, <2>4, <3>2, <3>3 DEF CountsInOrder
    <3>5. ASSUME NEW j \in Statuses', NEW k \in Statuses', j < k
          PROVE  Behind(queue'[j].dropped) >= Behind(queue'[k].dropped)
      <4>1. j # new
        <5>1. new \in Int /\ Statuses \subseteq Int
          BY <2>2 DEF new
        <5> QED BY <2>4, <2>5, <3>5, <5>1
      <4>2. j \in Statuses
        BY <2>4, <4>1
      <4> QED BY <2>3, <2>4, <3>2, <3>5, <4>2 DEF CountsInOrder
    <3> QED BY <1>1, <2>1, <3>2, <3>4, <3>5 DEF CountsInOrder, Behind
  <2>8. NewestIsReported'
    <3>1. new <= new
      BY <2>2 DEF new
    <3>2. new \in Statuses' /\ queue'[new].dropped = s_reported' /\ \A j \in Statuses' : j <= new
      BY <2>1, <2>2, <2>3, <2>4, <2>5, <3>1 DEF new
    <3> QED BY <3>2 DEF NewestIsReported, NewestQueued
  <2> QED BY <2>7, <2>8
<1> QED BY <1>2, <1>3

\* Of the steps of relay_poll only a STATUS that is taken reports anything.
THEOREM RelayPollKeepsKnows ==
  KnowsInv /\ RelayPoll => CountsInOrder' /\ NewestIsReported'
<1> SUFFICES ASSUME KnowsInv, RelayPoll PROVE CountsInOrder' /\ NewestIsReported'
  OBVIOUS
<1> USE DEF KnowsInv, producerVars, consumerVars
<1>1. UNCHANGED <<hostCount, statusLost>> /\ UNCHANGED hostVars
  BY DEF RelayPoll, hostVars
<1>2. CASE UNCHANGED <<queue, s_dropped, s_reported>>
  BY <1>1, <1>2, NothingReported DEF Statuses
<1>3. CASE ReportPollStart /\ UNCHANGED queue
  BY <1>2, <1>3 DEF ReportPollStart, PollStart
<1>4. ASSUME NEW taken \in BOOLEAN, ReportStatus(taken), UsbCdcWrite(StatusFrame, taken)
      PROVE  CountsInOrder' /\ NewestIsReported'
  BY <1>1, <1>4, StatusKeepsKnows
<1>5. ASSUME NEW taken \in BOOLEAN, EmitData(taken), UsbCdcWrite(Data, taken)
      PROVE  CountsInOrder' /\ NewestIsReported'
  <2>1. UNCHANGED <<s_dropped, s_reported>>
    BY <1>5 DEF EmitData, Return
  <2>2. CASE ~taken
    BY <1>2, <1>5, <2>1, <2>2 DEF UsbCdcWrite
  <2>3. CASE taken
    <3>1. queue' = Append(queue, Data) /\ Data.type = "DATA" /\ queue \in Seq(Frame)
      BY <1>5, <2>3, KnowsTypes DEF UsbCdcWrite, Data
    <3>2. Statuses' = Statuses /\ \A k \in Statuses : queue'[k] = queue[k]
      BY <3>1 DEF Statuses
    <3> QED BY <1>1, <2>1, <3>2, NothingReported
  <2> QED BY <2>2, <2>3
<1>6. CASE (ReadAvail \/ Commit) /\ UNCHANGED queue
  BY <1>2, <1>6 DEF ReadAvail, Commit, Return
<1>7. CASE (AdoptMark \/ MarksDone \/ Gather \/ CopyByte \/ CopyDone) /\ UNCHANGED queue
  BY <1>2, <1>7 DEF AdoptMark, MarksDone, Gather, CopyByte, CopyDone
<1> QED BY <1>3, <1>4, <1>5, <1>6, <1>7 DEF RelayPoll

\* The host takes the oldest count: the others are as new or newer.
THEOREM DeliverKeepsKnows ==
  KnowsInv /\ Deliver => hostCount' \in Count /\ CountsInOrder' /\ NewestIsReported'
<1> SUFFICES ASSUME KnowsInv, Deliver
             PROVE  hostCount' \in Count /\ CountsInOrder' /\ NewestIsReported'
  OBVIOUS
<1> USE DEF KnowsInv
<1>1. /\ queue # <<>> /\ queue' = Tail(queue)
      /\ UNCHANGED <<s_dropped, s_reported>>
      /\ IF Head(queue).type = "STATUS"
           THEN hostCount' = Head(queue).dropped /\ statusLost' = FALSE
           ELSE UNCHANGED <<hostCount, statusLost>>
  BY DEF Deliver, reportVars, vars, producerVars, consumerVars
<1>2. /\ queue \in Seq(Frame) /\ Len(queue) \in Nat \ {0} /\ Head(queue) = queue[1]
      /\ 1 \in DOMAIN queue /\ queue' \in Seq(Frame) /\ Len(queue') = Len(queue) - 1
  BY <1>1, KnowsTypes
<1>3. Statuses \subseteq 1 .. Len(queue) /\ Statuses' \subseteq 1 .. Len(queue) - 1
  BY <1>2 DEF Statuses
<1>4. \A k \in Statuses' : k + 1 \in Statuses /\ queue'[k] = queue[k + 1]
  BY <1>1, <1>2 DEF Statuses
<1>5. \A k \in Statuses : k = 1 \/ (k - 1 \in Statuses' /\ queue'[k - 1] = queue[k])
  BY <1>1, <1>2, <1>3 DEF Statuses
<1>6. 1 \in Statuses <=> Head(queue).type = "STATUS"
  BY <1>2 DEF Statuses
<1>7. IF 1 \in Statuses THEN hostCount' = queue[1].dropped ELSE hostCount' = hostCount
  BY <1>1, <1>2, <1>6
<1>8. hostCount' \in Count
  BY <1>7, KnowsTypes
<1>9. CountsInOrder'
  <2>1. \A k \in Statuses' : k + 1 \in Statuses /\ 1 < k + 1
    BY <1>3, <1>4
  <2>2. /\ Behind(hostCount') >= Behind(s_reported)
        /\ \A k \in Statuses : k # 1 => Behind(hostCount') >= Behind(queue[k].dropped)
    BY <1>3, <1>7 DEF CountsInOrder
  <2>3. \A k \in Statuses' : /\ Behind(hostCount') >= Behind(queue'[k].dropped)
                            /\ Behind(queue'[k].dropped) >= Behind(s_reported)
    BY <1>4, <2>1, <2>2 DEF CountsInOrder
  <2>4. ASSUME NEW j \in Statuses', NEW k \in Statuses', j < k
        PROVE  Behind(queue'[j].dropped) >= Behind(queue'[k].dropped)
    <3>1. j + 1 < k + 1
      BY <1>3, <2>4
    <3> QED BY <1>4, <2>4, <3>1 DEF CountsInOrder
  <2> QED BY <1>1, <2>2, <2>3, <2>4 DEF CountsInOrder, Behind
<1>10. NewestIsReported'
  <2>1. CASE Statuses = {}
    <3>1. Statuses' = {} /\ Head(queue).type # "STATUS"
      BY <1>4, <1>6, <2>1
    <3> QED BY <1>1, <2>1, <3>1 DEF NewestIsReported
  <2>2. CASE Statuses # {}
    <3>1. PICK k \in Statuses : queue[k].dropped = s_reported /\ \A j \in Statuses : j <= k
      BY <2>2 DEF NewestIsReported, NewestQueued
    <3>2. CASE k = 1
      <4>1. Statuses' = {}
        <5> SUFFICES ASSUME NEW j \in Statuses' PROVE FALSE
          OBVIOUS
        <5>1. j + 1 <= 1
          BY <1>4, <3>1, <3>2
        <5> QED BY <1>3, <5>1
      <4>2. hostCount' = s_reported'
        BY <1>1, <1>7, <3>1, <3>2
      <4> QED BY <4>1, <4>2 DEF NewestIsReported
    <3>3. CASE k # 1
      <4>1. k - 1 \in Statuses' /\ queue'[k - 1].dropped = s_reported'
        BY <1>1, <1>5, <3>1, <3>3
      <4>2. ASSUME NEW j \in Statuses' PROVE j <= k - 1
        <5>1. j + 1 <= k
          BY <1>4, <3>1
        <5> QED BY <1>3, <5>1
      <4> QED BY <4>1, <4>2 DEF NewestIsReported, NewestQueued
    <3> QED BY <3>2, <3>3
  <2> QED BY <2>1, <2>2
<1> QED BY <1>8, <1>9, <1>10

\* A flush that takes a STATUS is remembered until the next one arrives.
THEOREM FlushKeepsKnows == KnowsInv /\ Flush => CountsInOrder' /\ NewestIsReported'
<1> SUFFICES ASSUME KnowsInv, Flush PROVE CountsInOrder' /\ NewestIsReported'
  OBVIOUS
<1> USE DEF KnowsInv
<1>1. /\ queue' = <<>> /\ UNCHANGED <<s_dropped, s_reported, hostCount>>
      /\ statusLost' = (statusLost \/ Statuses # {})
  BY DEF Flush, Statuses, reportVars, vars, producerVars, consumerVars
<1>2. Statuses' = {}
  BY <1>1 DEF Statuses
<1>3. CountsInOrder'
  BY <1>1, <1>2 DEF CountsInOrder, Behind
<1>4. NewestIsReported'
  BY <1>1, <1>2 DEF NewestIsReported
<1> QED BY <1>3, <1>4

LEMMA UsbNextKeepsKnowsInv == KnowsInv /\ [UsbNext]_usbVars => KnowsInv'
<1> SUFFICES ASSUME KnowsInv, [UsbNext]_usbVars PROVE KnowsInv'
  OBVIOUS
<1>1. HInv' /\ SeqInv'
  BY UsbNextIsReportNext, ReportNextKeepsHInv, UsbNextKeepsSeqInv DEF KnowsInv
<1>2. CASE Deliver
  BY <1>1, <1>2, DeliverKeepsKnows DEF KnowsInv
<1>3. CASE ~Deliver
  <2>1. hostCount' = hostCount
    BY <1>3 DEF UsbNext, TargetByte, RelayPoll, Flush, Configure, usbVars, hostVars
  <2>2. CASE Configure \/ UNCHANGED usbVars
    <3>1. UNCHANGED <<queue, s_dropped, s_reported, hostCount, statusLost>>
      BY <2>2 DEF Configure, usbVars, reportVars, vars, producerVars, consumerVars, hostVars
    <3> QED BY <1>1, <3>1, NothingReported DEF KnowsInv, Statuses
  <2>3. CountsInOrder' /\ NewestIsReported'
    BY <1>3, <2>2, TargetByteKeepsKnows, RelayPollKeepsKnows, FlushKeepsKnows,
       UsbNextIsReportNext DEF UsbNext, KnowsInv
  <2> QED BY <1>1, <2>1, <2>3 DEF KnowsInv
<1> QED BY <1>2, <1>3

\* The counts the host has, is about to get and will get are in order, and the
\* newest is s_reported unless it was flushed: however often the queue is
\* emptied behind the relay's back, the next STATUS makes up for it.
THEOREM UsbHostKnows == UsbSpec => []HostKnows
<1>1. KnowsInv => HostKnows
  BY DEF KnowsInv, CountsInOrder, NewestIsReported, NewestQueued, HostKnows, Behind
<1> QED BY <1>1, InitKnowsInv, UsbNextKeepsKnowsInv, PTL DEF UsbSpec
=============================================================================
