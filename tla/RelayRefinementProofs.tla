----------------------- MODULE RelayRefinementProofs ----------------------
(***************************************************************************)
(* Proofs that Relay stands between two other specifications: with the     *)
(* true idleness beside it, it implements BurstStream, for every size of   *)
(* ring, mark ring and frame, every width of index and counter, and every  *)
(* interleaving of interrupt and poll; and the probe on its VCP path,      *)
(* booting included, implements Relay, for every size of FIFO.             *)
(*                                                                         *)
(* The refinement mapping to BurstStream cuts the ring where the marks     *)
(* are.  The proof has three parts: what the mapping gives in a state      *)
(* where IInv holds (the cuts are in order, no burst is empty, the bursts  *)
(* together hold every stored byte); what storing a byte, adopting a mark  *)
(* and releasing a frame do to it; and that the 32-bit time difference is  *)
(* the true one while the counter makes less than one turn (BelowOneTurn). *)
(*                                                                         *)
(* The number of waiting bytes is a recursive function, so its value is a  *)
(* matter of induction, by SetInduction.                                   *)
(***************************************************************************)
EXTENDS RelayStream, RelayVcp, RelayProofs, SequenceTheorems

\* What a burst can be.
BurstSet == [ts : Timestamp, data : Seq(Byte)]

\* The byte a bytes behind s_tail.
ByteAt(a) == s_data[Slot(Plus(s_tail, a, IdxMod))]

-----------------------------------------------------------------------------
(* The ring, cut into bursts.                                              *)

\* Marks are for stored bytes.
RingShape == /\ Stored \in 0 .. RingSize /\ Pending \in 0 .. Marks
             /\ \A k \in LiveMarks : /\ LiveMark(k) \in Mark
                                     /\ Ahead(LiveMark(k).pos) \in 0 .. Stored - 1
             /\ Stored = 0 => Pending = 0

\* IInv gives the shape of the rings.
LEMMA RingFacts ==
  ASSUME IInv PROVE RingShape
<1> USE DEF RingShape
<1>1. Stored \in 0 .. RingSize /\ Pending \in 0 .. Marks
  BY Sizes DEF IInv, TypeOK, Occupancy, Stored, Pending, Minus, Index
<1>2. \A k \in LiveMarks : LiveMark(k) \in Mark
  BY LiveMarkType DEF IInv
<1>3. \A k \in LiveMarks : Ahead(LiveMark(k).pos) \in Nat
  BY NextMarkFacts
<1>4. \A k \in LiveMarks : Ahead(LiveMark(k).pos) \in 0 .. Stored - 1
  BY <1>1, <1>3 DEF IInv, MarksOrdered
<1>5. Stored = 0 => Pending = 0
  <2>1. Pending # 0 => 0 \in LiveMarks
    BY <1>1 DEF LiveMarks
  <2> QED BY <1>4, <2>1
<1> QED BY <1>1, <1>2, <1>4, <1>5

\* Bursts follow each other from s_tail to s_head, and none is empty.
CutShape == /\ Oldest \in {-1, 0} /\ (Oldest = 0 => Pending > 0)
            /\ Pending - Oldest \in Nat \ {0}
            /\ Start(Oldest) = 0 /\ Start(Pending) = Stored
            /\ \A m \in Oldest .. Pending : Start(m) \in 0 .. Stored
            /\ Stored > 0 => \A m \in Oldest .. Pending - 1 : Start(m) < Start(m + 1)

\* IInv gives the cuts their order.
LEMMA StartFacts ==
  ASSUME IInv PROVE CutShape
<1> USE DEF CutShape, RingShape
<1>1. Oldest \in {-1, 0} /\ (Oldest = 0 => 0 \in LiveMarks)
  BY DEF Oldest
<1>2. Pending \in Nat /\ LiveMarks = 0 .. Pending - 1 /\ Stored \in Nat
  BY RingFacts, Sizes DEF LiveMarks
<1>3. (Oldest = 0 => Pending > 0) /\ Pending - Oldest \in Nat \ {0}
  BY <1>1, <1>2
<1>4. Start(Oldest) = 0
  <2>1. CASE Oldest = -1
    BY <2>1 DEF Start
  <2>2. CASE Oldest = 0
    BY <1>3, <2>2, <1>2 DEF Start, Oldest
  <2> QED BY <1>1, <2>1, <2>2
<1>5. Start(Pending) = Stored
  BY <1>2 DEF Start
<1>6. \A m \in LiveMarks : Start(m) = Ahead(LiveMark(m).pos) /\ Start(m) \in 0 .. Stored - 1
  BY <1>2, RingFacts DEF Start
<1>7. ASSUME NEW m \in Oldest .. Pending PROVE Start(m) \in 0 .. Stored
  <2>1. m = -1 \/ m = Pending \/ m \in LiveMarks
    BY <1>1, <1>2
  <2>2. Start(-1) = 0
    BY DEF Start
  <2> QED BY <1>2, <1>5, <1>6, <2>1, <2>2
<1>8. ASSUME Stored > 0, NEW m \in Oldest .. Pending - 1 PROVE Start(m) < Start(m + 1)
  <2>1. CASE m = -1
    <3>1. Start(m) = 0 /\ m + 1 = 0
      BY <2>1 DEF Start
    <3>2. CASE Pending = 0
      BY <1>5, <1>8, <3>1, <3>2
    <3>3. CASE Pending # 0
      <4>1. 0 \in LiveMarks /\ Start(0) # 0
        BY <1>1, <1>2, <1>6, <2>1, <3>3 DEF Oldest
      <4> QED BY <1>2, <1>6, <3>1, <4>1
    <3> QED BY <3>2, <3>3
  <2>2. CASE m # -1
    <3>1. m \in LiveMarks /\ (m + 1 = Pending \/ m + 1 \in LiveMarks) /\ m < m + 1
      BY <1>1, <1>2, <2>2
    <3>2. CASE m + 1 = Pending
      BY <1>2, <1>5, <1>6, <3>1, <3>2
    <3>3. CASE m + 1 \in LiveMarks
      BY <1>6, <3>1, <3>3 DEF IInv, MarksOrdered
    <3> QED BY <3>1, <3>2, <3>3
  <2> QED BY <2>1, <2>2
<1> QED BY <1>1, <1>3, <1>4, <1>5, <1>7, <1>8

\* Between two offsets into the ring lie as many bytes as the offsets say.
BytesShape ==
  \A a, b \in Nat : a <= b /\ b <= Stored =>
    /\ BytesBetween(a, b) \in Seq(Byte) /\ Len(BytesBetween(a, b)) = b - a
    /\ \A j \in 1 .. b - a : BytesBetween(a, b)[j] = ByteAt(a + j - 1)

\* The slots between two offsets hold bytes.
LEMMA BytesFacts ==
  ASSUME IInv PROVE BytesShape
<1> SUFFICES ASSUME NEW a \in Nat, NEW b \in Nat, a <= b, b <= Stored
             PROVE  /\ BytesBetween(a, b) \in Seq(Byte) /\ Len(BytesBetween(a, b)) = b - a
                    /\ \A j \in 1 .. b - a : BytesBetween(a, b)[j] = ByteAt(a + j - 1)
  BY DEF BytesShape
<1> USE DEF RingShape
<1>1. ASSUME NEW i \in Nat, i < Stored PROVE ByteAt(i) \in Byte
  <2>1. i < IdxMod
    BY <1>1, RingFacts, Sizes
  <2>2. Plus(s_tail, i, IdxMod) \in Int
    BY <2>1, Sizes DEF IInv, TypeOK, Plus, Index
  <2>3. Slot(Plus(s_tail, i, IdxMod)) \in 0 .. RingSize - 1
    BY <2>2, Sizes, DivMod DEF Slot
  <2> QED BY <2>3 DEF ByteAt, IInv, TypeOK
<1>2. ASSUME NEW j \in 1 .. b - a PROVE ByteAt(a + j - 1) \in Byte
  <2>1. a + j - 1 \in Nat /\ a + j - 1 < Stored
    BY RingFacts, Sizes
  <2> QED BY <1>1, <2>1
<1>3. BytesBetween(a, b) = [j \in 1 .. b - a |-> ByteAt(a + j - 1)]
  BY DEF BytesBetween, ByteAt
<1>4. PICK length \in Nat : length = b - a
  OBVIOUS
<1>5. BytesBetween(a, b) = [j \in 1 .. length |-> ByteAt(a + j - 1)]
  BY <1>3, <1>4
<1>6. \A j \in 1 .. length : ByteAt(a + j - 1) \in Byte
  BY <1>2, <1>4
<1>7. BytesBetween(a, b) \in Seq(Byte) /\ Len(BytesBetween(a, b)) = length
  BY <1>5, <1>6
<1> QED BY <1>4, <1>5, <1>7

\* The bursts are those numbered from the oldest to the newest.
BurstsShape ==
  /\ Bursts \in Seq(BurstSet)
  /\ Stored = 0 => Bursts = <<>>
  /\ Stored > 0 => /\ Len(Bursts) = Pending - Oldest
                   /\ \A m \in Oldest .. Pending - 1 : Bursts[m - Oldest + 1] = Burst(m)
  /\ LastStamp \in Timestamp

\* What the refinement mapping gives is a sequence of bursts.
LEMMA BurstsFacts ==
  ASSUME IInv PROVE BurstsShape
<1> USE DEF BurstsShape, CutShape, RingShape
<1>1. /\ Oldest \in {-1, 0} /\ Pending \in Nat /\ Pending - Oldest \in Nat \ {0}
      /\ Stored \in Nat /\ LiveMarks = 0 .. Pending - 1
  BY StartFacts, RingFacts, Sizes DEF LiveMarks
<1>2. ASSUME NEW m \in Oldest .. Pending - 1 PROVE Stamp(m) \in Timestamp
  <2>1. CASE m = -1
    BY <2>1 DEF Stamp, IInv, TypeOK
  <2>2. CASE m # -1
    <3>1. m \in LiveMarks
      BY <1>1, <2>2
    <3> QED BY <2>2, <3>1, RingFacts DEF Stamp, Mark
  <2> QED BY <2>1, <2>2
<1>3. ASSUME NEW m \in Oldest .. Pending - 1, Stored > 0 PROVE Burst(m) \in BurstSet
  <2>1. m \in Oldest .. Pending /\ m + 1 \in Oldest .. Pending
    BY <1>1
  <2>2. /\ Start(m) \in Nat /\ Start(m + 1) \in Nat
        /\ Start(m) <= Start(m + 1) /\ Start(m + 1) <= Stored
    BY <1>1, <1>3, <2>1, StartFacts
  <2>3. BytesBetween(Start(m), Start(m + 1)) \in Seq(Byte)
    BY <2>2, BytesFacts DEF BytesShape
  <2> QED BY <1>2, <2>3 DEF Burst, BurstSet
<1>4. Stored = 0 => Bursts = <<>>
  BY DEF Bursts
<1>5. ASSUME Stored > 0
      PROVE  /\ Bursts \in Seq(BurstSet) /\ Len(Bursts) = Pending - Oldest
             /\ \A m \in Oldest .. Pending - 1 : Bursts[m - Oldest + 1] = Burst(m)
  <2>1. PICK length \in Nat : length = Pending - Oldest
    BY <1>1
  <2>2. Bursts = [i \in 1 .. length |-> Burst(Oldest + i - 1)]
    BY <1>5, <2>1 DEF Bursts
  <2>3. \A i \in 1 .. length : Oldest + i - 1 \in Oldest .. Pending - 1
    BY <1>1, <2>1
  <2>4. \A i \in 1 .. length : Burst(Oldest + i - 1) \in BurstSet
    BY <1>3, <1>5, <2>3
  <2>5. Bursts \in Seq(BurstSet) /\ Len(Bursts) = length
    BY <2>2, <2>4
  <2>6. \A m \in Oldest .. Pending - 1 :
          m - Oldest + 1 \in 1 .. length /\ Oldest + (m - Oldest + 1) - 1 = m
    BY <1>1, <2>1
  <2> QED BY <2>1, <2>2, <2>5, <2>6
<1>6. LastStamp \in Timestamp
  <2>1. Pending - 1 \in Oldest .. Pending - 1
    BY <1>1
  <2> QED BY <1>2, <2>1 DEF LastStamp
<1>7. Bursts \in Seq(BurstSet)
  <2>1. <<>> \in Seq(BurstSet)
    OBVIOUS
  <2>2. Stored = 0 \/ Stored > 0
    BY <1>1
  <2> QED BY <1>4, <1>5, <2>1, <2>2
<1> QED BY <1>4, <1>5, <1>6, <1>7

\* All of it, for a step that needs it in its next state.
Shape == RingShape /\ CutShape /\ BytesShape /\ BurstsShape

\* The mapping has this shape wherever the invariant of Relay holds ...
LEMMA Shapes == IInv => Shape
BY RingFacts, StartFacts, BytesFacts, BurstsFacts DEF Shape

\* ... in the next state too.
LEMMA ShapesNext == IInv' => Shape'
BY Shapes, PTL

\* As many bytes wait in the bursts as are stored in the ring.
LEMMA WaitingIsStored ==
  ASSUME IInv PROVE Stream!Waiting = Stored
<1> USE DEF BurstsShape, CutShape, RingShape
<1> DEFINE N == Len(Bursts)
           Ends(f) == f = [i \in 0 .. N |-> IF i = 0 THEN 0 ELSE f[i - 1] + Len(Bursts[i].data)]
           upTo == CHOOSE f : Ends(f)
           end == [i \in 0 .. N |-> IF Stored = 0 THEN 0 ELSE Start(Oldest + i)]
<1>1. /\ Oldest \in {-1, 0} /\ Pending \in Nat /\ Pending - Oldest \in Nat \ {0}
      /\ Stored \in Nat
  BY StartFacts, RingFacts, Sizes
<1>2. N \in Nat /\ (Stored = 0 => N = 0) /\ (Stored > 0 => N = Pending - Oldest)
  BY BurstsFacts
<1>3. end[0] = 0 /\ end[N] = Stored
  <2>1. Stored = 0 => end[0] = 0 /\ end[N] = Stored
    BY <1>2
  <2>2. Stored > 0 => end[0] = Start(Oldest) /\ end[N] = Start(Pending)
    <3>1. Oldest + 0 = Oldest /\ (Stored > 0 => Oldest + N = Pending)
      BY <1>1, <1>2
    <3> QED BY <1>2, <3>1
  <2>3. Stored = 0 \/ Stored > 0
    BY <1>1
  <2> QED BY <2>1, <2>2, <2>3, StartFacts
<1>4. ASSUME NEW i \in 1 .. N
      PROVE  end[i - 1] \in Int /\ end[i] \in Int /\ Len(Bursts[i].data) = end[i] - end[i - 1]
  <2>1. Stored > 0 /\ N = Pending - Oldest
    BY <1>1, <1>2
  <2> DEFINE m == Oldest + i - 1
  <2>2. /\ m \in Oldest .. Pending - 1 /\ m \in Oldest .. Pending /\ m + 1 \in Oldest .. Pending
        /\ Oldest + (i - 1) = m /\ Oldest + i = m + 1 /\ m - Oldest + 1 = i
    BY <1>1, <2>1
  <2>3. end[i - 1] = Start(m) /\ end[i] = Start(m + 1)
    <3>1. i - 1 \in 0 .. N /\ i \in 0 .. N
      BY <1>2
    <3> QED BY <2>1, <2>2, <3>1
  <2>4. Bursts[i] = Burst(m)
    BY <2>1, <2>2, BurstsFacts
  <2> HIDE DEF m, end
  <2>5. /\ Start(m) \in Nat /\ Start(m + 1) \in Nat
        /\ Start(m) <= Start(m + 1) /\ Start(m + 1) <= Stored
    <3>1. Start(m) \in 0 .. Stored /\ Start(m + 1) \in 0 .. Stored
      BY <2>2, StartFacts
    <3>2. Start(m) < Start(m + 1)
      BY <2>1, <2>2, StartFacts
    <3> QED BY <1>1, <3>1, <3>2
  <2>6. Len(BytesBetween(Start(m), Start(m + 1))) = Start(m + 1) - Start(m)
    BY <2>5, BytesFacts DEF BytesShape
  <2>7. Len(Bursts[i].data) = Start(m + 1) - Start(m)
    BY <2>4, <2>6 DEF Burst
  <2> QED BY <2>3, <2>5, <2>7
<1> HIDE DEF N
<1>5. Ends(end)
  <2>1. \A i \in 0 .. N : i # 0 => end[i - 1] + Len(Bursts[i].data) = end[i]
    <3> HIDE DEF end
    <3>1. \A i \in 0 .. N : i # 0 => i \in 1 .. N
      BY <1>2
    <3> QED BY <1>4, <3>1
  <2>2. \A i \in 0 .. N : end[i] = IF i = 0 THEN 0 ELSE end[i - 1] + Len(Bursts[i].data)
    <3> HIDE DEF end
    <3> QED BY <1>3, <2>1
  <2>3. end = [i \in 0 .. N |-> end[i]]
    OBVIOUS
  <2> HIDE DEF end
  <2> QED BY <2>2, <2>3
<1> HIDE DEF end
<1>6. Ends(upTo)
  <2> HIDE DEF Ends
  <2> QED BY <1>5
<1> HIDE DEF upTo
<1>7. \A i \in 0 .. N : upTo[i] = IF i = 0 THEN 0 ELSE upTo[i - 1] + Len(Bursts[i].data)
  BY <1>6
<1>8. 0 .. N \subseteq {i \in 0 .. N : upTo[i] = end[i]}
  <2> DEFINE T == {i \in 0 .. N : upTo[i] = end[i]}
  <2>1. T \in SUBSET Nat /\ 0 \in T
    BY <1>2, <1>3, <1>7
  <2>2. ASSUME NEW k \in T, k < N PROVE k + 1 \in T
    <3>1. k + 1 \in 0 .. N /\ k + 1 \in 1 .. N /\ k + 1 # 0 /\ (k + 1) - 1 = k
      BY <1>2, <2>2
    <3>2. upTo[k + 1] = upTo[k] + Len(Bursts[k + 1].data)
      BY <1>7, <3>1
    <3>3. end[k] \in Int /\ end[k + 1] \in Int /\ Len(Bursts[k + 1].data) = end[k + 1] - end[k]
      BY <1>4, <3>1
    <3> QED BY <3>1, <3>2, <3>3
  <2> HIDE DEF T
  <2>3. 0 .. N \subseteq T
    BY <1>2, <2>1, <2>2, SetInduction
  <2> QED BY <2>3 DEF T
<1>9. upTo[N] = Stored
  <2>1. N \in 0 .. N
    BY <1>2
  <2> QED BY <1>3, <1>8, <2>1
<1> QED BY <1>9 DEF Stream!Waiting, upTo, N

-----------------------------------------------------------------------------
(* A byte is stored.                                                       *)

\* The byte goes behind those stored, and disturbs none of them.
LEMMA StoredByte ==
  ASSUME IInv, NEW byte \in Byte, NEW ts \in Timestamp, StoreByte(byte, ts),
         UNCHANGED consumerVars, NEW q, q = Stored
  PROVE  /\ q \in Nat /\ q < RingSize /\ Stored' = q + 1
         /\ ByteAt(q)' = byte
         /\ \A a \in 0 .. q - 1 : ByteAt(a)' = ByteAt(a)
<1> USE Sizes
<1>1. UNCHANGED s_tail
  BY DEF consumerVars
<1>2. q \in Nat /\ q < RingSize /\ Stored' = q + 1
  BY <1>1, StoreByteFacts DEF IInv, TypeOK, Stored, Minus, Index
<1>3. s_data' = [s_data EXCEPT ![Slot(s_head)] = byte]
  BY DEF StoreByte
<1>4. Plus(s_tail, q, IdxMod) = s_head
  BY <1>2 DEF IInv, TypeOK, Stored, Plus, Minus, Index
<1>5. Slot(s_head) \in 0 .. RingSize - 1
  <2>1. s_head \in Int
    BY DEF IInv, TypeOK, Index
  <2> QED BY <2>1, DivMod DEF Slot
<1>6. s_data'[Slot(s_head)] = byte
  BY <1>3, <1>5 DEF IInv, TypeOK
<1>7. ByteAt(q)' = byte
  <2>1. ByteAt(q)' = s_data'[Slot(Plus(s_tail, q, IdxMod))]
    BY <1>1 DEF ByteAt
  <2> QED BY <1>4, <1>6, <2>1
<1>8. ASSUME NEW a \in 0 .. q - 1 PROVE ByteAt(a)' = ByteAt(a)
  <2>1. /\ Plus(s_tail, a, IdxMod) \in Index
        /\ Slot(Plus(s_tail, a, IdxMod)) # Slot(s_head)
    BY <1>2, SlotBehind, SizesAssumption DEF IInv, TypeOK, Slot, Stored
  <2>2. ByteAt(a)' = s_data'[Slot(Plus(s_tail, a, IdxMod))]
    BY <1>1 DEF ByteAt
  <2> QED BY <1>3, <2>1, <2>2 DEF ByteAt, IInv, TypeOK
<1> QED BY <1>2, <1>7, <1>8

\* What lay between two offsets still does; what ended at the end of the ring
\* has one byte more.
LEMMA StoredBytes ==
  ASSUME IInv, IInv', NEW byte \in Byte, NEW ts \in Timestamp, StoreByte(byte, ts),
         UNCHANGED consumerVars, NEW q, q = Stored, NEW a \in 0 .. q
  PROVE  /\ \A b \in a .. q : BytesBetween(a, b)' = BytesBetween(a, b)
         /\ BytesBetween(a, q + 1)' = Append(BytesBetween(a, q), byte)
<1>1. /\ q \in Nat /\ Stored' = q + 1 /\ ByteAt(q)' = byte
      /\ \A i \in 0 .. q - 1 : ByteAt(i)' = ByteAt(i)
  BY StoredByte
<1>2. ASSUME NEW b \in a .. q
      PROVE  /\ BytesBetween(a, b) \in Seq(Byte) /\ Len(BytesBetween(a, b)) = b - a
             /\ \A j \in 1 .. b - a : BytesBetween(a, b)[j] = ByteAt(a + j - 1)
  <2>1. a \in Nat /\ b \in Nat /\ a <= b /\ b <= Stored
    BY <1>1
  <2> QED BY <2>1, BytesFacts DEF BytesShape
<1>3. ASSUME NEW b \in a .. q + 1
      PROVE  /\ BytesBetween(a, b)' \in Seq(Byte) /\ Len(BytesBetween(a, b)') = b - a
             /\ \A j \in 1 .. b - a : BytesBetween(a, b)'[j] = ByteAt(a + j - 1)'
  <2>1. a \in Nat /\ b \in Nat /\ a <= b /\ b <= Stored'
    BY <1>1
  <2> QED BY <2>1, ShapesNext DEF Shape, BytesShape
<1>4. BytesBetween(a, q + 1)' \in Seq(Byte) /\ Len(BytesBetween(a, q + 1)') = q + 1 - a
  <2>1. PICK b \in a .. q + 1 : b = q + 1
    BY <1>1
  <2>2. BytesShape'
    BY ShapesNext DEF Shape
  <2>3. a \in Nat /\ b \in Nat /\ a <= b /\ b <= Stored'
    BY <1>1, <2>1
  <2>4. BytesBetween(a, b)' \in Seq(Byte) /\ Len(BytesBetween(a, b)') = b - a
    BY <2>2, <2>3 DEF BytesShape
  <2>5. b - a = q + 1 - a
    BY <1>1, <2>1
  <2> QED BY <2>1, <2>4, <2>5
<1>5. ASSUME NEW b \in a .. q PROVE BytesBetween(a, b)' = BytesBetween(a, b)
  <2>1. b \in a .. q + 1
    BY <1>1
  <2>2. ASSUME NEW j \in 1 .. b - a PROVE BytesBetween(a, b)'[j] = BytesBetween(a, b)[j]
    <3>1. a + j - 1 \in 0 .. q - 1
      BY <1>1
    <3> QED BY <1>1, <1>2, <1>3, <2>1, <3>1
  <2>3. b - a \in Nat
    BY <1>1
  <2> QED BY <1>2, <1>3, <2>1, <2>2, <2>3, SeqEqual
<1>6. BytesBetween(a, q + 1)' = Append(BytesBetween(a, q), byte)
  <2>1. q + 1 \in a .. q + 1 /\ q \in a .. q
    BY <1>1
  <2> DEFINE old == BytesBetween(a, q)
             new == BytesBetween(a, q + 1)'
  <2>2. /\ old \in Seq(Byte) /\ Len(old) = q - a /\ new \in Seq(Byte) /\ Len(new) = q + 1 - a
        /\ \A j \in 1 .. q - a : old[j] = ByteAt(a + j - 1)
        /\ \A j \in 1 .. q + 1 - a : new[j] = ByteAt(a + j - 1)'
    <3>1. /\ old \in Seq(Byte) /\ Len(old) = q - a
          /\ \A j \in 1 .. q - a : old[j] = ByteAt(a + j - 1)
      BY <1>2, <2>1
    <3>2. /\ new \in Seq(Byte) /\ Len(new) = q + 1 - a
      BY <1>4
    <3>3. ASSUME NEW j \in 1 .. q + 1 - a PROVE new[j] = ByteAt(a + j - 1)'
      <4>1. PICK b \in a .. q + 1 : b = q + 1
        BY <2>1
      <4>2. j \in 1 .. b - a
        BY <1>1, <4>1
      <4>3. BytesBetween(a, b)'[j] = ByteAt(a + j - 1)'
        BY <1>3, <4>2
      <4> QED BY <4>1, <4>3
    <3> QED BY <3>1, <3>2, <3>3
  <2>3. ASSUME NEW j \in 1 .. q + 1 - a
        PROVE  new[j] = IF j = q + 1 - a THEN byte ELSE old[j]
    <3>1. CASE j = q + 1 - a
      <4>1. a + j - 1 = q
        BY <1>1, <3>1
      <4> QED BY <1>1, <2>2, <3>1, <4>1
    <3>2. CASE j # q + 1 - a
      <4>1. a + j - 1 \in 0 .. q - 1 /\ j \in 1 .. q - a
        BY <1>1, <3>2
      <4> QED BY <1>1, <2>2, <3>2, <4>1
    <3> QED BY <3>1, <3>2
  <2> HIDE DEF old, new
  <2>4. Append(old, byte) \in Seq(Byte) /\ Len(Append(old, byte)) = q + 1 - a
    <3>1. old \in Seq(Byte) /\ Len(old) + 1 = q + 1 - a
      BY <1>1, <2>2
    <3> QED BY <3>1, AppendProperties
  <2>5. \A j \in 1 .. q + 1 - a : Append(old, byte)[j] = IF j = q + 1 - a THEN byte ELSE old[j]
    BY <1>1, <2>2
  <2>6. new = Append(old, byte)
    BY <2>2, <2>3, <2>4, <2>5, SeqEqual
  <2> QED BY <2>6 DEF new, old
<1> QED BY <1>5, <1>6

\* Steps that leave the mark ring and s_tail alone move no burst.
LEMMA MarksKept ==
  ASSUME UNCHANGED <<s_mhead, s_marks, s_mtail, s_tail, s_cur_ts>>
  PROVE  /\ Pending' = Pending /\ Oldest' = Oldest /\ LastStamp' = LastStamp
         /\ \A m : Stamp(m)' = Stamp(m)
         /\ \A m : m # Pending => Start(m)' = Start(m)
<1>1. Pending' = Pending /\ LiveMarks' = LiveMarks
  BY DEF Pending, LiveMarks
<1>2. \A k : LiveMark(k)' = LiveMark(k) /\ Ahead(LiveMark(k).pos)' = Ahead(LiveMark(k).pos)
  BY DEF LiveMark, Ahead
<1>3. Oldest' = Oldest
  BY <1>1, <1>2 DEF Oldest
<1>4. \A m : Stamp(m)' = Stamp(m)
  BY <1>2 DEF Stamp
<1>5. \A m : m # Pending => Start(m)' = Start(m)
  BY <1>1, <1>2 DEF Start
<1>6. LastStamp' = LastStamp
  BY <1>1 DEF LastStamp, Stamp, LiveMark
<1> QED BY <1>1, <1>3, <1>4, <1>5, <1>6

\* The burst m of the next state, its bounds and stamp given.
LEMMA BurstNext ==
  ASSUME NEW m, NEW a, NEW b, NEW ts, Start(m)' = a, Start(m + 1)' = b, Stamp(m)' = ts
  PROVE  Burst(m)' = [ts |-> ts, data |-> BytesBetween(a, b)']
BY DEF Burst, BytesBetween

\* A sequence of length one.
LEMMA OneElement ==
  ASSUME NEW S, NEW s \in Seq(S), Len(s) = 1 PROVE s = <<s[1]>>
<1>1. s[1] \in S
  OBVIOUS
<1>2. <<s[1]>> \in Seq(S) /\ Len(<<s[1]>>) = 1 /\ <<s[1]>>[1] = s[1]
  BY <1>1
<1>3. \A i \in 1 .. Len(s) : s[i] = <<s[1]>>[i]
  BY <1>2
<1> QED BY <1>2, <1>3, SeqEqual

\* Sequences that differ in one element.
LEMMA OneChanged ==
  ASSUME NEW S, NEW s \in Seq(S), NEW t \in Seq(S), Len(t) = Len(s), NEW k \in 1 .. Len(s),
         \A i \in 1 .. Len(s) : i # k => t[i] = s[i]
  PROVE  t = [s EXCEPT ![k] = t[k]]
<1>1. t[k] \in S
  OBVIOUS
<1>2. /\ [s EXCEPT ![k] = t[k]] \in Seq(S) /\ Len([s EXCEPT ![k] = t[k]]) = Len(s)
      /\ \A i \in 1 .. Len(s) : [s EXCEPT ![k] = t[k]][i] = IF i = k THEN t[k] ELSE s[i]
  BY <1>1, ExceptSeq
<1>3. \A i \in 1 .. Len(t) : t[i] = [s EXCEPT ![k] = t[k]][i]
  BY <1>2
<1> QED BY <1>2, <1>3, SeqEqual

\* A sequence that has one element more than another.
LEMMA OneAppended ==
  ASSUME NEW S, NEW s \in Seq(S), NEW t \in Seq(S), Len(t) = Len(s) + 1,
         \A i \in 1 .. Len(s) : t[i] = s[i]
  PROVE  t = Append(s, t[Len(s) + 1])
<1>1. t[Len(s) + 1] \in S
  OBVIOUS
<1> DEFINE e == t[Len(s) + 1]
<1>2. /\ Append(s, e) \in Seq(S) /\ Len(Append(s, e)) = Len(s) + 1
      /\ \A i \in 1 .. Len(s) + 1 : Append(s, e)[i] = IF i = Len(s) + 1 THEN e ELSE s[i]
  BY <1>1
<1>3. \A i \in 1 .. Len(t) : t[i] = Append(s, e)[i]
  BY <1>2
<1> HIDE DEF e
<1>4. t = Append(s, e)
  BY <1>2, <1>3, SeqEqual
<1> QED BY <1>4 DEF e

\* A byte stored without a mark joins the burst under way.
LEMMA ByteJoins ==
  ASSUME IInv, IInv', NEW byte \in Byte, NEW ts \in Timestamp, StoreByte(byte, ts),
         UNCHANGED <<consumerVars, s_mhead, s_marks>>
  PROVE  /\ Bursts' = IF Bursts = <<>> THEN <<[ts |-> LastStamp, data |-> <<byte>>]>>
                       ELSE [Bursts EXCEPT ![Len(Bursts)].data = Append(@, byte)]
         /\ LastStamp' = LastStamp
<1> PICK q, p, o : q = Stored /\ p = Pending /\ o = Oldest
  OBVIOUS
<1>1. q \in Nat /\ Stored' = q + 1 /\ p \in Nat /\ (q = 0 => p = 0)
  BY StoredByte, RingFacts, Sizes DEF RingShape
<1>2. /\ Pending' = p /\ Oldest' = o /\ LastStamp' = LastStamp
      /\ \A m : Stamp(m)' = Stamp(m)
      /\ \A m : m # p => Start(m)' = Start(m)
  BY MarksKept DEF consumerVars
<1>3. /\ o \in {-1, 0} /\ (o = 0 => p > 0) /\ p - o \in Nat \ {0}
      /\ Start(o) = 0 /\ Start(p) = q
      /\ \A m \in o .. p : Start(m) \in 0 .. q
  BY StartFacts DEF CutShape
<1>4. Start(p)' = q + 1
  <2>1. p # -1
    BY <1>1
  <2> QED BY <1>1, <1>2, <2>1 DEF Start
<1>5. /\ Len(Bursts') = p - o /\ Bursts' \in Seq(BurstSet)
      /\ \A m \in o .. p - 1 : Bursts'[m - o + 1] = Burst(m)'
  <2>1. Stored' > 0
    BY <1>1
  <2> QED BY <1>2, <2>1, ShapesNext DEF Shape, BurstsShape
<1>6. /\ Burst(p - 1) = [ts |-> LastStamp, data |-> BytesBetween(Start(p - 1), q)]
      /\ Burst(p - 1)' = [ts |-> LastStamp,
                          data |-> Append(BytesBetween(Start(p - 1), q), byte)]
  <2>1. p - 1 \in o .. p /\ p - 1 # p /\ (p - 1) + 1 = p
    BY <1>1, <1>3
  <2>2. PICK a : a = Start(p - 1)
    OBVIOUS
  <2>3. a \in 0 .. q
    BY <1>3, <2>1, <2>2
  <2>4. BytesBetween(a, q + 1)' = Append(BytesBetween(a, q), byte)
    BY <2>3, StoredBytes DEF consumerVars
  <2>5. PICK ls : ls = LastStamp /\ ls = Stamp(p - 1)
    BY DEF LastStamp
  <2>6. Start(p - 1)' = a /\ Start((p - 1) + 1)' = q + 1 /\ Stamp(p - 1)' = ls
    BY <1>2, <1>4, <2>1, <2>2, <2>5
  <2>7. Burst(p - 1)' = [ts |-> ls, data |-> BytesBetween(a, q + 1)']
    BY <2>6, BurstNext
  <2> QED BY <1>3, <2>1, <2>2, <2>4, <2>5, <2>7 DEF Burst
<1>7. CASE q = 0
  <2>1. Bursts = <<>> /\ p = 0 /\ o = -1
    BY <1>1, <1>3, <1>7, BurstsFacts DEF BurstsShape
  <2>2. BytesBetween(Start(p - 1), q) = <<>>
    <3>1. Start(p - 1) = 0
      BY <1>3, <2>1
    <3>2. BytesBetween(0, 0) \in Seq(Byte) /\ Len(BytesBetween(0, 0)) = 0
      BY <1>1, BytesFacts DEF BytesShape
    <3> QED BY <1>7, <3>1, <3>2
  <2>3. Append(<<>>, byte) = <<byte>>
    OBVIOUS
  <2>4. Len(Bursts') = 1 /\ Bursts'[1] = [ts |-> LastStamp, data |-> <<byte>>]
    <3>1. p - 1 \in o .. p - 1 /\ p - 1 - o + 1 = 1 /\ p - o = 1
      BY <2>1
    <3> QED BY <1>5, <1>6, <2>2, <2>3, <3>1
  <2>5. Bursts' = <<[ts |-> LastStamp, data |-> <<byte>>]>>
    BY <1>5, <2>4, OneElement
  <2> QED BY <1>2, <2>1, <2>5
<1>8. CASE q > 0
  <2>1. /\ Bursts \in Seq(BurstSet) /\ Len(Bursts) = p - o /\ Bursts # <<>>
        /\ \A m \in o .. p - 1 : Bursts[m - o + 1] = Burst(m)
    BY <1>3, <1>8, BurstsFacts DEF BurstsShape
  <2>2. ASSUME NEW m \in o .. p - 2 PROVE Burst(m)' = Burst(m)
    <3>1. m \in o .. p /\ m + 1 \in o .. p /\ m # p /\ m + 1 # p
      BY <1>1, <1>3
    <3>2. PICK a, b, t : a = Start(m) /\ b = Start(m + 1) /\ t = Stamp(m)
      OBVIOUS
    <3>3. Start(m)' = a /\ Start(m + 1)' = b /\ Stamp(m)' = t
      BY <1>2, <3>1, <3>2
    <3>4. a \in 0 .. q /\ b \in a .. q
      <4>1. a \in 0 .. q /\ b \in 0 .. q
        BY <1>3, <3>1, <3>2
      <4>2. a < b
        <5>1. m \in o .. p - 1
          BY <1>1, <1>3
        <5> QED BY <1>8, <3>2, <5>1, StartFacts DEF CutShape
      <4> QED BY <4>1, <4>2
    <3>5. BytesBetween(a, b)' = BytesBetween(a, b)
      BY <3>4, StoredBytes DEF consumerVars
    <3>6. Burst(m)' = [ts |-> t, data |-> BytesBetween(a, b)']
      BY <3>3, BurstNext
    <3> QED BY <3>2, <3>5, <3>6 DEF Burst
  <2>3. PICK last : last = p - o /\ last = Len(Bursts) /\ last \in 1 .. Len(Bursts)
    BY <1>3, <2>1
  <2>4. Bursts'[last] = [Bursts[last] EXCEPT !.data = Append(@, byte)]
    <3>1. p - 1 \in o .. p - 1 /\ p - 1 - o + 1 = last
      BY <1>1, <1>3, <2>3
    <3>2. PICK m \in o .. p - 1 : m = p - 1 /\ m - o + 1 = last
      BY <3>1
    <3>3. Bursts'[m - o + 1] = Burst(m)'
      BY <1>5
    <3>4. Bursts[m - o + 1] = Burst(m)
      BY <2>1
    <3> QED BY <1>6, <3>2, <3>3, <3>4
  <2>5. ASSUME NEW i \in 1 .. last, i # last PROVE Bursts'[i] = Bursts[i]
    <3>1. /\ o + i - 1 \in o .. p - 2 /\ o + i - 1 \in o .. p - 1
          /\ (o + i - 1) - o + 1 = i
      BY <1>1, <1>3, <2>3, <2>5
    <3> QED BY <1>5, <2>1, <2>2, <3>1
  <2>6. Bursts' = [Bursts EXCEPT ![last].data = Append(@, byte)]
    <3>1. Bursts' = [Bursts EXCEPT ![last] = Bursts'[last]]
      <4>1. /\ Len(Bursts') = Len(Bursts)
            /\ \A i \in 1 .. Len(Bursts) : i # last => Bursts'[i] = Bursts[i]
        BY <1>5, <2>3, <2>5
      <4> QED BY <1>5, <2>1, <2>3, <4>1, OneChanged
    <3> QED BY <2>4, <3>1
  <2> QED BY <1>2, <2>1, <2>3, <2>6
<1> QED BY <1>1, <1>7, <1>8

\* A byte stored with a mark opens a burst.
LEMMA ByteOpens ==
  ASSUME IInv, IInv', NEW byte \in Byte, NEW ts \in Timestamp, StoreByte(byte, ts), ~MarksFull,
         s_marks' = [s_marks EXCEPT ![MarkSlot(s_mhead)] = [pos |-> s_head, ts |-> ts]],
         s_mhead' = Plus(s_mhead, 1, IdxMod),
         UNCHANGED consumerVars
  PROVE  Bursts' = Append(Bursts, [ts |-> ts, data |-> <<byte>>]) /\ LastStamp' = ts
<1> PICK q, p, o : q = Stored /\ p = Pending /\ o = Oldest
  OBVIOUS
<1>1. q \in Nat /\ Stored' = q + 1 /\ p \in Nat /\ (q = 0 => p = 0)
  BY StoredByte, RingFacts, Sizes DEF RingShape
<1>2. /\ Pending' = p + 1 /\ LiveMarks = 0 .. p - 1 /\ LiveMarks' = LiveMarks \cup {p}
      /\ \A k \in LiveMarks : /\ LiveMark(k)' = LiveMark(k)
                              /\ Ahead(LiveMark(k).pos)' = Ahead(LiveMark(k).pos)
      /\ LiveMark(p)'.ts = ts /\ Ahead(LiveMark(p).pos)' = q
  <2>1. LiveMarks = 0 .. p - 1
    BY DEF LiveMarks
  <2>2. UNCHANGED <<s_tail, s_mtail>>
    BY DEF consumerVars
  <2>3. /\ Pending' = p + 1 /\ LiveMarks' = LiveMarks \cup {p}
        /\ \A k \in LiveMarks : /\ LiveMark(k)' = LiveMark(k)
                                /\ Ahead(LiveMark(k).pos)' = Ahead(LiveMark(k).pos)
    BY <2>2, MarkRecorded
  <2>4. LiveMark(p)' = [pos |-> s_head, ts |-> ts] /\ Ahead(LiveMark(p).pos)' = Stored
    BY <2>2, MarkRecorded
  <2> QED BY <2>1, <2>3, <2>4
<1>3. /\ o \in {-1, 0} /\ (o = 0 => p > 0) /\ Start(o) = 0 /\ Start(p) = q
      /\ \A m \in o .. p : Start(m) \in 0 .. q
  BY StartFacts DEF CutShape
<1>4. /\ \A m \in o .. p : Start(m)' = Start(m)
      /\ Start(p + 1)' = q + 1
      /\ \A m \in o .. p - 1 : Stamp(m)' = Stamp(m)
      /\ Stamp(p)' = ts
  <2>1. ASSUME NEW m \in LiveMarks PROVE Start(m)' = Start(m) /\ Stamp(m)' = Stamp(m)
    <3>1. m # -1 /\ m # p /\ m # p + 1
      BY <1>1, <1>2
    <3> QED BY <1>2, <3>1 DEF Start, Stamp
  <2>2. Start(-1)' = Start(-1) /\ Stamp(-1)' = Stamp(-1)
    BY DEF Start, Stamp, consumerVars
  <2>3. Start(p)' = q /\ Stamp(p)' = ts
    <3>1. p # -1 /\ p # p + 1
      BY <1>1
    <3> QED BY <1>2, <3>1 DEF Start, Stamp
  <2>4. Start(p + 1)' = q + 1
    <3>1. p + 1 # -1
      BY <1>1
    <3> QED BY <1>1, <1>2, <3>1 DEF Start
  <2>5. \A m \in o .. p : m = -1 \/ m \in LiveMarks \/ m = p
    BY <1>1, <1>2, <1>3
  <2>6. \A m \in o .. p - 1 : m = -1 \/ m \in LiveMarks
    BY <1>1, <1>2, <1>3
  <2> QED BY <1>3, <2>1, <2>2, <2>3, <2>4, <2>5, <2>6
<1>5. LastStamp' = ts
  <2>1. LastStamp' = LiveMark(p)'.ts
    <3>1. Pending' - 1 = p /\ p # -1
      BY <1>1, <1>2
    <3> QED BY <3>1 DEF LastStamp, Stamp, LiveMark
  <2> QED BY <1>2, <2>1
<1>6. Oldest' = IF q = 0 THEN 0 ELSE o
  <2>1. 0 \in LiveMarks' /\ (p # 0 => 0 \in LiveMarks)
    BY <1>1, <1>2
  <2>2. CASE p = 0
    BY <1>2, <1>3, <2>1, <2>2 DEF Oldest
  <2>3. CASE p # 0
    BY <1>1, <1>2, <2>1, <2>3 DEF Oldest
  <2> QED BY <2>2, <2>3
<1>7. Burst(p)' = [ts |-> ts, data |-> <<byte>>]
  <2>1. Burst(p)' = [ts |-> ts, data |-> BytesBetween(q, q + 1)']
    <3>1. Start(p)' = q /\ Start(p + 1)' = q + 1 /\ Stamp(p)' = ts
      <4>1. p \in o .. p
        BY <1>1, <1>3
      <4> QED BY <1>3, <1>4, <4>1
    <3> QED BY <3>1, BurstNext
  <2>2. BytesBetween(q, q + 1)' = Append(BytesBetween(q, q), byte)
    <3>1. q \in 0 .. q
      BY <1>1
    <3> QED BY <3>1, StoredBytes DEF consumerVars
  <2>3. BytesBetween(q, q) = <<>>
    <3>1. q <= q /\ q <= Stored /\ q - q = 0
      BY <1>1
    <3>2. BytesBetween(q, q) \in Seq(Byte) /\ Len(BytesBetween(q, q)) = 0
      BY <1>1, <3>1, BytesFacts DEF BytesShape
    <3> QED BY <3>2
  <2>4. Append(<<>>, byte) = <<byte>>
    OBVIOUS
  <2> QED BY <2>1, <2>2, <2>3, <2>4
<1>8. /\ Bursts' \in Seq(BurstSet)
      /\ Len(Bursts') = p + 1 - Oldest'
      /\ \A m \in Oldest' .. p : Bursts'[m - Oldest' + 1] = Burst(m)'
  <2>1. Stored' > 0
    BY <1>1
  <2>2. Pending' = p + 1 /\ Pending' - 1 = p
    BY <1>1, <1>2
  <2>3. /\ Bursts' \in Seq(BurstSet)
        /\ Len(Bursts') = Pending' - Oldest'
        /\ \A m \in Oldest' .. Pending' - 1 : Bursts'[m - Oldest' + 1] = Burst(m)'
    BY <2>1, ShapesNext DEF Shape, BurstsShape
  <2>4. Len(Bursts') = p + 1 - Oldest'
    BY <1>1, <1>3, <1>6, <2>2, <2>3
  <2>5. \A m \in Oldest' .. p : Bursts'[m - Oldest' + 1] = Burst(m)'
    BY <2>2, <2>3
  <2> QED BY <2>3, <2>4, <2>5
<1>9. CASE q = 0
  <2>1. Bursts = <<>> /\ p = 0 /\ Oldest' = 0
    BY <1>1, <1>6, <1>9, BurstsFacts DEF BurstsShape
  <2>2. Len(Bursts') = 1 /\ Bursts'[1] = [ts |-> ts, data |-> <<byte>>]
    <3>1. p \in 0 .. p /\ p - 0 + 1 = 1 /\ p + 1 - 0 = 1
      BY <2>1
    <3> QED BY <1>7, <1>8, <2>1, <3>1
  <2>3. Bursts' = <<[ts |-> ts, data |-> <<byte>>]>>
    BY <1>8, <2>2, OneElement
  <2> QED BY <1>5, <2>1, <2>3
<1>10. CASE q > 0
  <2>1. /\ Bursts \in Seq(BurstSet) /\ Len(Bursts) = p - o
        /\ \A m \in o .. p - 1 : Bursts[m - o + 1] = Burst(m)
    BY <1>10, BurstsFacts DEF BurstsShape
  <2>2. Oldest' = o
    BY <1>6, <1>10
  <2>3. ASSUME NEW m \in o .. p - 1 PROVE Burst(m)' = Burst(m)
    <3>1. m \in o .. p /\ m + 1 \in o .. p
      BY <1>1, <1>3
    <3>2. PICK a, b, t : a = Start(m) /\ b = Start(m + 1) /\ t = Stamp(m)
      OBVIOUS
    <3>3. Start(m)' = a /\ Start(m + 1)' = b /\ Stamp(m)' = t
      BY <1>4, <3>1, <3>2
    <3>4. a \in 0 .. q /\ b \in a .. q
      <4>1. a \in 0 .. q /\ b \in 0 .. q
        BY <1>3, <3>1, <3>2
      <4>2. a < b
        BY <1>10, <3>2, StartFacts DEF CutShape
      <4> QED BY <4>1, <4>2
    <3>5. BytesBetween(a, b)' = BytesBetween(a, b)
      BY <3>4, StoredBytes DEF consumerVars
    <3>6. Burst(m)' = [ts |-> t, data |-> BytesBetween(a, b)']
      BY <3>3, BurstNext
    <3> QED BY <3>2, <3>5, <3>6 DEF Burst
  <2>4. PICK old : old = p - o /\ old \in Nat /\ Len(Bursts) = old /\ Len(Bursts') = old + 1
    BY <1>1, <1>3, <1>8, <2>1, <2>2
  <2>5. ASSUME NEW i \in 1 .. old PROVE Bursts'[i] = Bursts[i]
    <3>1. o + i - 1 \in o .. p - 1 /\ o + i - 1 \in o .. p /\ (o + i - 1) - o + 1 = i
      BY <1>1, <1>3, <2>4
    <3> QED BY <1>8, <2>1, <2>2, <2>3, <3>1
  <2>6. Bursts'[old + 1] = [ts |-> ts, data |-> <<byte>>]
    <3>1. p \in o .. p /\ p - o + 1 = old + 1
      BY <1>1, <1>3, <2>4
    <3> QED BY <1>7, <1>8, <2>2, <3>1
  <2>7. Bursts' = Append(Bursts, [ts |-> ts, data |-> <<byte>>])
    BY <1>8, <2>1, <2>4, <2>5, <2>6, OneAppended
  <2> QED BY <1>5, <2>7
<1> QED BY <1>1, <1>9, <1>10

-----------------------------------------------------------------------------
(* The consumer: a mark is adopted, a frame is handed on.                  *)

\* A step that leaves the rings and the stamp under way alone.
LEMMA SameStream ==
  ASSUME UNCHANGED <<ringVars, s_cur_ts>>
  PROVE  Bursts' = Bursts /\ LastStamp' = LastStamp
BY DEF ringVars, Bursts, LastStamp, Burst, Stamp, Start, BytesBetween, Oldest,
       Pending, Stored, LiveMarks, LiveMark, Ahead

\* A sequence that lacks the first element of another.
LEMMA OneRemoved ==
  ASSUME NEW S, NEW s \in Seq(S), NEW t \in Seq(S), s # <<>>, Len(t) = Len(s) - 1,
         \A i \in 1 .. Len(t) : t[i] = s[i + 1]
  PROVE  t = Tail(s)
<1>1. /\ Tail(s) \in Seq(S) /\ Len(Tail(s)) = Len(s) - 1
      /\ \A i \in 1 .. Len(Tail(s)) : Tail(s)[i] = s[i + 1]
  BY HeadTailProperties
<1>2. \A i \in 1 .. Len(t) : t[i] = Tail(s)[i]
  BY <1>1
<1> QED BY <1>1, <1>2, SeqEqual

\* A mark adopted is the one of the byte at s_tail: its burst, number 0 so
\* far, is number -1 from now on, and no burst changes.
LEMMA MarkAdopted ==
  ASSUME IInv, IInv', AdoptMark
  PROVE  Bursts' = Bursts /\ LastStamp' = LastStamp
<1> PICK q, p : q = Stored /\ p = Pending
  OBVIOUS
<1>1. /\ p \in Nat /\ p >= 1 /\ q \in Nat /\ q <= RingSize
      /\ LiveMarks = 0 .. p - 1 /\ 0 \in LiveMarks
      /\ \A k \in LiveMarks : Ahead(LiveMark(k).pos) \in 0 .. q - 1
  BY MarkTaken, RingFacts, Sizes DEF RingShape, LiveMarks
<1>2. Ahead(LiveMark(0).pos) = 0
  <2>1. ~IsFuture(Ahead(LiveMark(0).pos))
    BY NextMarkFacts DEF AdoptMark
  <2> QED BY <1>1, <2>1, Sizes DEF IsFuture
<1>3. Oldest = 0 /\ q > 0
  BY <1>1, <1>2 DEF Oldest
<1>4. /\ Stored' = q /\ Pending' = p - 1 /\ LiveMarks' = 0 .. p - 2
      /\ s_cur_ts' = LiveMark(0).ts
      /\ \A k \in LiveMarks' : /\ k + 1 \in LiveMarks
                               /\ LiveMark(k)' = LiveMark(k + 1)
                               /\ Ahead(LiveMark(k).pos)' = Ahead(LiveMark(k + 1).pos)
  <2>1. Stored' = q
    BY DEF AdoptMark, producerVars, Stored
  <2>2. Pending' = p - 1
    BY MarkTaken
  <2>3. LiveMarks' = 0 .. p - 2
    BY <1>1, <2>2 DEF LiveMarks
  <2>4. s_cur_ts' = LiveMark(0).ts
    BY NextMarkFacts DEF AdoptMark
  <2> QED BY <2>1, <2>2, <2>3, <2>4, MarkTaken
<1>5. Oldest' = -1
  <2>1. 0 \in LiveMarks' => Ahead(LiveMark(0).pos)' # 0
    <3> SUFFICES ASSUME 0 \in LiveMarks' PROVE Ahead(LiveMark(0).pos)' # 0
      OBVIOUS
    <3>1. 1 \in LiveMarks /\ Ahead(LiveMark(0).pos)' = Ahead(LiveMark(1).pos)
      <4>1. 0 + 1 = 1
        OBVIOUS
      <4> QED BY <1>4, <4>1
    <3>2. Ahead(LiveMark(0).pos) < Ahead(LiveMark(1).pos)
      BY <1>1, <3>1 DEF IInv, MarksOrdered
    <3> QED BY <1>1, <1>2, <3>1, <3>2
  <2> QED BY <2>1 DEF Oldest
<1>6. /\ \A m \in 0 .. p : Start(m) \in 0 .. q
      /\ Start(0) = 0 /\ Start(p) = q
      /\ \A m \in 0 .. p - 1 : Start(m) < Start(m + 1)
  BY <1>3, StartFacts DEF CutShape
<1>7. ASSUME NEW m \in -1 .. p - 1 PROVE Start(m)' = Start(m + 1)
  <2>1. CASE m = -1
    <3>1. Start(m)' = 0 /\ m + 1 = 0
      BY <2>1 DEF Start
    <3> QED BY <1>6, <3>1
  <2>2. CASE m # -1 /\ m = p - 1
    <3>1. Start(m)' = q /\ m + 1 = p
      BY <1>1, <1>4, <2>2 DEF Start
    <3> QED BY <1>6, <3>1
  <2>3. CASE m # -1 /\ m # p - 1
    <3>1. m \in LiveMarks' /\ m + 1 # -1 /\ m + 1 # p
      BY <1>1, <1>4, <2>3
    <3> QED BY <1>4, <2>3, <3>1 DEF Start
  <2> QED BY <2>1, <2>2, <2>3
<1>8. ASSUME NEW m \in -1 .. p - 2 PROVE Stamp(m)' = Stamp(m + 1)
  <2>1. CASE m = -1
    <3>1. Stamp(m)' = s_cur_ts' /\ m + 1 = 0 /\ Stamp(0) = LiveMark(0).ts
      BY <2>1 DEF Stamp
    <3> QED BY <1>4, <3>1
  <2>2. CASE m # -1
    <3>1. m \in LiveMarks' /\ m + 1 # -1
      BY <1>1, <1>4, <2>2
    <3> QED BY <1>4, <2>2, <3>1 DEF Stamp
  <2> QED BY <2>1, <2>2
<1>9. \A a, b : BytesBetween(a, b)' = BytesBetween(a, b)
  BY DEF BytesBetween, AdoptMark, producerVars
<1>10. ASSUME NEW m \in -1 .. p - 2 PROVE Burst(m)' = Burst(m + 1)
  <2>1. m \in -1 .. p - 1 /\ m + 1 \in -1 .. p - 1
    BY <1>1
  <2>2. PICK a, b, t : a = Start(m + 1) /\ b = Start((m + 1) + 1) /\ t = Stamp(m + 1)
    OBVIOUS
  <2>3. Start(m)' = a /\ Start(m + 1)' = b /\ Stamp(m)' = t
    BY <1>7, <1>8, <2>1, <2>2
  <2>4. Burst(m)' = [ts |-> t, data |-> BytesBetween(a, b)']
    BY <2>3, BurstNext
  <2> QED BY <1>9, <2>2, <2>4 DEF Burst
<1>11. Bursts' = Bursts
  <2>1. /\ Bursts \in Seq(BurstSet) /\ Len(Bursts) = p
        /\ \A m \in 0 .. p - 1 : Bursts[m - 0 + 1] = Burst(m)
    <3>1. Len(Bursts) = p - 0 /\ p - 0 = p
      BY <1>1, <1>3, BurstsFacts DEF BurstsShape
    <3> QED BY <1>3, <3>1, BurstsFacts DEF BurstsShape
  <2>2. /\ Bursts' \in Seq(BurstSet) /\ Len(Bursts') = p
        /\ \A m \in -1 .. p - 2 : Bursts'[m - (-1) + 1] = Burst(m)'
    <3>1. Stored' > 0 /\ (p - 1) - (-1) = p /\ (p - 1) - 1 = p - 2
      BY <1>1, <1>3, <1>4
    <3> QED BY <1>4, <1>5, <3>1, ShapesNext DEF Shape, BurstsShape
  <2>3. ASSUME NEW i \in 1 .. p PROVE Bursts'[i] = Bursts[i]
    <3>1. /\ i - 2 \in -1 .. p - 2 /\ i - 1 \in 0 .. p - 1 /\ (i - 2) + 1 = i - 1
          /\ (i - 2) - (-1) + 1 = i /\ (i - 1) - 0 + 1 = i
      BY <1>1
    <3> QED BY <1>10, <2>1, <2>2, <3>1
  <2> QED BY <2>1, <2>2, <2>3, SeqEqual
<1>12. LastStamp' = LastStamp
  <2>1. p - 2 \in -1 .. p - 2 /\ (p - 2) + 1 = p - 1 /\ (p - 1) - 1 = p - 2
    BY <1>1
  <2>2. LastStamp' = Stamp(p - 2)' /\ LastStamp = Stamp(p - 1)
    BY <1>4, <2>1 DEF LastStamp, Stamp, LiveMark
  <2> QED BY <1>8, <2>1, <2>2
<1> QED BY <1>11, <1>12

\* s_tail moves n bytes on: what lay n bytes behind it is at it now.
LEMMA BytesReleasedFromRing ==
  ASSUME IInv, IInv', Commit, NEW c, c = n,
         NEW a \in Nat, NEW b \in Nat, a <= b, b + c <= Stored
  PROVE  BytesBetween(a, b)' = BytesBetween(a + c, b + c)
<1>1. /\ c \in Nat /\ Stored \in Nat /\ Stored <= RingSize /\ Stored' = Stored - c
  BY BytesReleased
<1>2. ASSUME NEW i \in Nat, i + c < Stored PROVE ByteAt(i)' = ByteAt(i + c)
  <2>1. Plus(Plus(s_tail, c, IdxMod), i, IdxMod) = Plus(s_tail, i + c, IdxMod)
    <3>1. s_tail \in Nat /\ s_tail < IdxMod /\ IdxMod \in Nat /\ i + c < IdxMod
      BY <1>1, <1>2, Sizes DEF IInv, TypeOK, Index
    <3>2. CASE s_tail + c < IdxMod
      BY <1>1, <3>1, <3>2 DEF Plus
    <3>3. CASE ~(s_tail + c < IdxMod)
      BY <1>1, <3>1, <3>3 DEF Plus
    <3> QED BY <3>2, <3>3
  <2>2. s_tail' = Plus(s_tail, c, IdxMod) /\ s_data' = s_data
    BY DEF Commit, producerVars
  <2> QED BY <2>1, <2>2 DEF ByteAt
<1>3. /\ BytesBetween(a + c, b + c) \in Seq(Byte) /\ Len(BytesBetween(a + c, b + c)) = b - a
      /\ \A j \in 1 .. b - a : BytesBetween(a + c, b + c)[j] = ByteAt((a + c) + j - 1)
  <2>1. PICK x \in Nat, y \in Nat : x = a + c /\ y = b + c
    BY <1>1
  <2>2. x <= y /\ y <= Stored /\ y - x = b - a
    BY <1>1, <2>1
  <2>3. BytesShape
    BY BytesFacts
  <2>4. /\ BytesBetween(x, y) \in Seq(Byte) /\ Len(BytesBetween(x, y)) = y - x
        /\ \A j \in 1 .. y - x : BytesBetween(x, y)[j] = ByteAt(x + j - 1)
    BY <2>2, <2>3 DEF BytesShape
  <2> QED BY <2>1, <2>2, <2>4
<1>4. /\ BytesBetween(a, b)' \in Seq(Byte) /\ Len(BytesBetween(a, b)') = b - a
      /\ \A j \in 1 .. b - a : BytesBetween(a, b)'[j] = ByteAt(a + j - 1)'
  <2>1. b <= Stored'
    BY <1>1
  <2> QED BY <2>1, ShapesNext DEF Shape, BytesShape
<1>5. ASSUME NEW j \in 1 .. b - a
      PROVE  BytesBetween(a, b)'[j] = BytesBetween(a + c, b + c)[j]
  <2>1. PICK i \in Nat : i = a + j - 1
    OBVIOUS
  <2>2. i + c < Stored /\ i + c = (a + c) + j - 1
    BY <1>1, <2>1
  <2>3. BytesBetween(a, b)'[j] = ByteAt(i)'
    BY <1>4, <2>1
  <2>4. BytesBetween(a + c, b + c)[j] = ByteAt(i + c)
    BY <1>3, <2>2
  <2> QED BY <1>2, <2>2, <2>3, <2>4
<1> QED BY <1>3, <1>4, <1>5, SeqEqual

\* The frame under way is within the burst number -1, which ends where the
\* oldest mark points, or else where the ring ends.
LEMMA FrameWithinBurst ==
  ASSUME IInv, BuildingFrame
  PROVE  /\ n \in Nat /\ 1 <= n /\ n <= Start(0) /\ Start(0) <= Stored
         /\ Oldest = -1 /\ Stored \in Nat /\ Stored > 0
         /\ Bursts # <<>> /\ Head(Bursts) = Burst(-1)
         /\ Burst(-1) = [ts |-> s_cur_ts, data |-> BytesBetween(0, Start(0))]
<1>1. n \in Nat /\ 1 <= n /\ n <= Stored /\ Stored \in Nat
  <2>1. n \in 1 .. avail /\ avail \in 1 .. Stored
    BY DEF IInv, FrameNeverEmpty, CountedStored, BuildingFrame
  <2>2. n \in Nat /\ avail \in Nat /\ Stored \in Nat
    BY RingFacts, Sizes DEF IInv, TypeOK, RingShape
  <2> QED BY <2>1, <2>2
<1>2. Pending \in Nat /\ \A k \in LiveMarks : Ahead(LiveMark(k).pos) \in Nat
  BY NextMarkFacts
<1>3. \A k \in LiveMarks : Ahead(LiveMark(k).pos) >= n
  BY DEF IInv, OneBurstPerFrame
<1>4. Oldest = -1
  BY <1>1, <1>2, <1>3 DEF Oldest
<1>5. Start(0) \in 0 .. Stored
  <2>1. 0 \in Oldest .. Pending
    BY <1>2, <1>4
  <2> QED BY <2>1, StartFacts DEF CutShape
<1>6. n <= Start(0)
  <2>1. CASE Pending = 0
    BY <1>1, <2>1 DEF Start
  <2>2. CASE Pending # 0
    <3>1. 0 \in LiveMarks /\ 0 # -1 /\ 0 # Pending
      BY <1>2, <2>2 DEF LiveMarks
    <3> QED BY <1>3, <3>1 DEF Start
  <2> QED BY <2>1, <2>2
<1>7. Burst(-1) = [ts |-> s_cur_ts, data |-> BytesBetween(0, Start(0))]
  <2>1. Start(-1) = 0 /\ Stamp(-1) = s_cur_ts /\ -1 + 1 = 0
    BY DEF Start, Stamp
  <2> QED BY <2>1 DEF Burst
<1>8. Bursts # <<>> /\ Head(Bursts) = Burst(-1)
  <2>1. /\ Bursts \in Seq(BurstSet) /\ Len(Bursts) = Pending - (-1)
        /\ \A m \in -1 .. Pending - 1 : Bursts[m - (-1) + 1] = Burst(m)
    BY <1>1, <1>4, BurstsFacts DEF BurstsShape
  <2>2. -1 \in -1 .. Pending - 1 /\ -1 - (-1) + 1 = 1 /\ Len(Bursts) # 0
    BY <1>2, <2>1
  <2>3. Bursts[1] = Burst(-1)
    BY <2>1, <2>2
  <2>4. Bursts # <<>>
    BY <2>2
  <2> QED BY <2>1, <2>3, <2>4
<1> QED BY <1>1, <1>4, <1>5, <1>6, <1>7, <1>8

\* A frame handed on is taken off the front of the first burst; the burst goes
\* when all of it was in the frame.
LEMMA FrameReleased ==
  ASSUME IInv, IInv', Commit
  PROVE  /\ n \in 1 .. MaxChunk /\ LastStamp' = LastStamp /\ Bursts # <<>>
         /\ n <= Len(Head(Bursts).data)
         /\ Bursts' = IF n = Len(Head(Bursts).data) THEN Tail(Bursts)
                      ELSE [Bursts EXCEPT ![1].data = SubSeq(@, n + 1, Len(Head(Bursts).data))]
<1> PICK c, q, p, e, t : c = n /\ q = Stored /\ p = Pending /\ e = Start(0) /\ t = s_cur_ts
  OBVIOUS
<1>1. BuildingFrame
  BY DEF BuildingFrame, Commit
<1>2. /\ c \in Nat /\ 1 <= c /\ c <= e /\ e <= q /\ q \in Nat /\ q > 0 /\ Oldest = -1
      /\ Bursts # <<>> /\ Head(Bursts) = [ts |-> t, data |-> BytesBetween(0, e)]
  BY <1>1, FrameWithinBurst
<1>3. /\ p \in Nat /\ LiveMarks = 0 .. p - 1
      /\ \A m \in -1 .. p : Start(m) \in 0 .. q
      /\ \A m \in -1 .. p - 1 : Start(m) < Start(m + 1)
      /\ e \in Nat
  <2>1. p \in Nat
    BY RingFacts, Sizes DEF RingShape
  <2>2. /\ \A m \in -1 .. p : Start(m) \in 0 .. q
        /\ \A m \in -1 .. p - 1 : Start(m) < Start(m + 1)
    BY <1>2, StartFacts DEF CutShape
  <2>3. 0 \in -1 .. p
    BY <2>1
  <2>4. e \in Nat
    BY <1>2, <2>2, <2>3
  <2> QED BY <2>1, <2>2, <2>4 DEF LiveMarks
<1>4. /\ Bursts \in Seq(BurstSet) /\ Len(Bursts) = p + 1
      /\ \A m \in -1 .. p - 1 : Bursts[m - (-1) + 1] = Burst(m)
  <2>1. Len(Bursts) = p - (-1) /\ p - (-1) = p + 1
    BY <1>2, <1>3, BurstsFacts DEF BurstsShape
  <2> QED BY <1>2, <2>1, BurstsFacts DEF BurstsShape
<1>5. Len(BytesBetween(0, e)) = e /\ BytesBetween(0, e) \in Seq(Byte)
  <2>1. 0 <= e /\ e - 0 = e
    BY <1>3
  <2> QED BY <1>2, <1>3, <2>1, BytesFacts DEF BytesShape
<1>6. Len(Head(Bursts).data) = e
  BY <1>2, <1>5
<1>7. /\ Stored' = q - c /\ Pending' = p /\ LiveMarks' = LiveMarks
      /\ \A k \in LiveMarks : /\ LiveMark(k)' = LiveMark(k)
                              /\ Ahead(LiveMark(k).pos)' = Ahead(LiveMark(k).pos) - c
  <2>1. \A k \in LiveMarks : LiveMark(k)' = LiveMark(k)
    BY DEF LiveMark, Commit, producerVars
  <2> QED BY <2>1, BytesReleased
<1>8. \A m : Stamp(m)' = Stamp(m)
  BY DEF Stamp, LiveMark, Commit, producerVars
<1>9. LastStamp' = LastStamp
  BY DEF LastStamp, Stamp, LiveMark, Pending, Commit, producerVars
<1>10. ASSUME NEW m \in 0 .. p PROVE Start(m)' = Start(m) - c
  <2>1. CASE m = p
    <3>1. m # -1
      BY <1>3
    <3> QED BY <1>7, <2>1, <3>1 DEF Start
  <2>2. CASE m # p
    <3>1. m \in LiveMarks /\ m # -1
      BY <1>3, <2>2
    <3> QED BY <1>7, <2>2, <3>1 DEF Start
  <2> QED BY <2>1, <2>2
<1>11. ASSUME NEW m \in 0 .. p PROVE c <= Start(m)
  <2>1. CASE m = p
    <3>1. Start(p) = q
      BY StartFacts DEF CutShape
    <3> QED BY <1>2, <1>3, <2>1, <3>1
  <2>2. CASE m # p
    <3>1. m \in LiveMarks /\ m # -1
      BY <1>3, <2>2
    <3>2. Start(m) = Ahead(LiveMark(m).pos)
      BY <2>2, <3>1 DEF Start
    <3> QED BY <1>1, <3>1, <3>2 DEF IInv, OneBurstPerFrame
  <2> QED BY <2>1, <2>2
<1>12. ASSUME NEW m \in 0 .. p - 1 PROVE Burst(m)' = Burst(m)
  <2>1. PICK a, b, s : a = Start(m) - c /\ b = Start(m + 1) - c /\ s = Stamp(m)
    OBVIOUS
  <2>2. /\ m \in 0 .. p /\ m + 1 \in 0 .. p
        /\ Start(m) \in 0 .. q /\ Start(m + 1) \in 0 .. q /\ Start(m) < Start(m + 1)
        /\ c <= Start(m)
    BY <1>3, <1>11
  <2>3. /\ a \in Nat /\ b \in Nat /\ a <= b /\ b + c <= Stored
        /\ a + c = Start(m) /\ b + c = Start(m + 1)
    <3>1. PICK x \in 0 .. q, y \in 0 .. q : x = Start(m) /\ y = Start(m + 1)
      BY <2>2
    <3>2. a = x - c /\ b = y - c /\ c <= x /\ x < y
      BY <2>1, <2>2, <3>1
    <3> QED BY <1>2, <3>1, <3>2
  <2>4. BytesBetween(a, b)' = BytesBetween(a + c, b + c)
    BY <2>3, BytesReleasedFromRing
  <2>5. Start(m)' = a /\ Start(m + 1)' = b /\ Stamp(m)' = s
    BY <1>8, <1>10, <2>1, <2>2
  <2>6. Burst(m)' = [ts |-> s, data |-> BytesBetween(a, b)']
    BY <2>5, BurstNext
  <2> QED BY <2>1, <2>3, <2>4, <2>6 DEF Burst
<1>13. /\ Bursts' \in Seq(BurstSet)
       /\ Stored' = 0 => Bursts' = <<>>
       /\ Stored' > 0 => /\ Len(Bursts') = p - Oldest'
                         /\ \A m \in Oldest' .. p - 1 : Bursts'[m - Oldest' + 1] = Burst(m)'
  BY <1>7, ShapesNext DEF Shape, BurstsShape
<1>14. ASSUME c = e PROVE Bursts' = Tail(Bursts)
  <2>1. CASE p = 0
    <3>1. e = q
      BY <1>3, <2>1, StartFacts DEF CutShape
    <3>2. Bursts' = <<>>
      BY <1>2, <1>7, <1>13, <1>14, <3>1
    <3>3. Bursts' \in Seq(BurstSet) /\ Len(Bursts') = Len(Bursts) - 1
      BY <1>4, <1>13, <2>1, <3>2
    <3>4. \A i \in 1 .. Len(Bursts') : Bursts'[i] = Bursts[i + 1]
      BY <3>2
    <3>5. Bursts # <<>>
      BY <1>2
    <3> QED BY <1>4, <3>3, <3>4, <3>5, OneRemoved
  <2>2. CASE p # 0
    <3>1. 0 \in LiveMarks /\ Start(0) = Ahead(LiveMark(0).pos)
      <4>1. 0 \in LiveMarks /\ 0 # -1 /\ 0 # p
        BY <1>3, <2>2
      <4> QED BY <4>1 DEF Start
    <3>2. Oldest' = 0
      <4>1. Ahead(LiveMark(0).pos)' = 0
        BY <1>3, <1>7, <1>14, <3>1
      <4> QED BY <1>7, <3>1, <4>1 DEF Oldest
    <3>3. Stored' > 0
      <4>1. RingShape' /\ Pending' # 0
        BY <1>7, <2>2, ShapesNext DEF Shape
      <4>2. Stored' \in 0 .. RingSize /\ Stored' # 0
        BY <4>1 DEF RingShape
      <4> QED BY <4>2, Sizes
    <3>4. Len(Bursts') = p /\ \A m \in 0 .. p - 1 : Bursts'[m - 0 + 1] = Burst(m)'
      <4>1. Len(Bursts') = p - 0 /\ p - 0 = p
        BY <1>3, <1>13, <3>2, <3>3
      <4> QED BY <1>13, <3>2, <3>3, <4>1
    <3>5. ASSUME NEW i \in 1 .. p PROVE Bursts'[i] = Bursts[i + 1]
      <4>1. /\ i - 1 \in 0 .. p - 1 /\ i - 1 \in -1 .. p - 1
            /\ (i - 1) - 0 + 1 = i /\ (i - 1) - (-1) + 1 = i + 1
        BY <1>3
      <4> QED BY <1>4, <1>12, <3>4, <4>1
    <3>6. Len(Bursts') = Len(Bursts) - 1
      BY <1>3, <1>4, <3>4
    <3>7. /\ Bursts # <<>> /\ Bursts' \in Seq(BurstSet)
          /\ \A i \in 1 .. Len(Bursts') : Bursts'[i] = Bursts[i + 1]
      BY <1>2, <1>13, <3>4, <3>5
    <3> QED BY <1>4, <3>6, <3>7, OneRemoved
  <2> QED BY <2>1, <2>2
<1>15. ASSUME c # e
       PROVE  Bursts' = [Bursts EXCEPT ![1].data = SubSeq(@, c + 1, e)]
  <2>1. c < e /\ Stored' > 0
    BY <1>2, <1>3, <1>7, <1>15
  <2>2. Oldest' = -1
    <3>1. 0 \in LiveMarks' => Ahead(LiveMark(0).pos)' # 0
      <4> SUFFICES ASSUME 0 \in LiveMarks' PROVE Ahead(LiveMark(0).pos)' # 0
        OBVIOUS
      <4>1. 0 \in LiveMarks /\ 0 # -1 /\ 0 # p
        BY <1>3, <1>7
      <4>2. e = Ahead(LiveMark(0).pos)
        BY <4>1 DEF Start
      <4>3. Ahead(LiveMark(0).pos)' = e - c
        BY <1>7, <4>1, <4>2
      <4> QED BY <1>2, <1>3, <2>1, <4>3
    <3> QED BY <3>1 DEF Oldest
  <2>3. Len(Bursts') = p + 1 /\ \A m \in -1 .. p - 1 : Bursts'[m - (-1) + 1] = Burst(m)'
    <3>1. Len(Bursts') = p - (-1) /\ p - (-1) = p + 1
      BY <1>3, <1>13, <2>1, <2>2
    <3> QED BY <1>13, <2>1, <2>2, <3>1
  <2>4. Burst(-1)' = [ts |-> t, data |-> SubSeq(BytesBetween(0, e), c + 1, e)]
    <3>1. PICK z, b : /\ z = 0 /\ b = e - c /\ z \in Nat /\ b \in Nat
                      /\ z <= b /\ b + c = e /\ z + c = c
      BY <1>2, <1>3, <2>1
    <3>2. Start(-1)' = z /\ Start(-1 + 1)' = b /\ Stamp(-1)' = t
      <4>1. Start(-1)' = 0 /\ -1 + 1 = 0 /\ Stamp(-1) = t
        BY DEF Start, Stamp
      <4>2. Start(0)' = e - c
        BY <1>3, <1>10
      <4> QED BY <1>8, <3>1, <4>1, <4>2
    <3>3. Burst(-1)' = [ts |-> t, data |-> BytesBetween(z, b)']
      BY <3>2, BurstNext
    <3>4. BytesBetween(z, b)' = BytesBetween(c, e)
      <4>1. b + c <= Stored
        BY <1>2, <3>1
      <4>2. BytesBetween(z, b)' = BytesBetween(z + c, b + c)
        BY <3>1, <4>1, BytesReleasedFromRing
      <4> QED BY <3>1, <4>2
    <3>5. BytesBetween(c, e) = SubSeq(BytesBetween(0, e), c + 1, e)
      <4> DEFINE whole == BytesBetween(0, e)
                 rest  == SubSeq(whole, c + 1, e)
      <4>1. /\ whole \in Seq(Byte) /\ Len(whole) = e
            /\ \A j \in 1 .. e : whole[j] = ByteAt(0 + j - 1)
        <5>1. 0 <= e /\ e - 0 = e /\ e \in Nat /\ e <= Stored
          BY <1>2, <1>3
        <5> QED BY <5>1, BytesFacts DEF BytesShape
      <4>2. /\ BytesBetween(c, e) \in Seq(Byte) /\ Len(BytesBetween(c, e)) = e - c
            /\ \A j \in 1 .. e - c : BytesBetween(c, e)[j] = ByteAt(c + j - 1)
        BY <1>2, <1>3, BytesFacts DEF BytesShape
      <4> HIDE DEF whole
      <4>3. \A i \in c + 1 .. e : whole[i] \in Byte
        BY <1>2, <1>3, <4>1
      <4>4. /\ rest \in Seq(Byte) /\ Len(rest) = e - c
            /\ \A j \in 1 .. e - c : rest[j] = whole[(c + 1) + j - 1]
        <5>1. c + 1 \in Int /\ e \in Int /\ c + 1 <= e /\ e - (c + 1) + 1 = e - c
          BY <1>2, <1>3, <2>1
        <5> QED BY <4>3, <5>1, SubSeqProperties
      <4> HIDE DEF rest
      <4>5. ASSUME NEW j \in 1 .. e - c PROVE BytesBetween(c, e)[j] = rest[j]
        <5>1. (c + 1) + j - 1 \in 1 .. e /\ 0 + ((c + 1) + j - 1) - 1 = c + j - 1
          BY <1>2, <1>3
        <5> QED BY <4>1, <4>2, <4>4, <5>1
      <4>6. BytesBetween(c, e) = rest
        BY <4>2, <4>4, <4>5, SeqEqual
      <4> QED BY <4>6 DEF rest, whole
    <3> QED BY <3>3, <3>4, <3>5
  <2>5. Bursts'[1] = [Bursts[1] EXCEPT !.data = SubSeq(@, c + 1, e)]
    <3>1. -1 \in -1 .. p - 1 /\ -1 - (-1) + 1 = 1
      BY <1>3
    <3>2. Bursts'[1] = Burst(-1)' /\ Bursts[1] = [ts |-> t, data |-> BytesBetween(0, e)]
      BY <1>2, <2>3, <3>1
    <3> QED BY <2>4, <3>2
  <2>6. ASSUME NEW i \in 1 .. Len(Bursts), i # 1 PROVE Bursts'[i] = Bursts[i]
    <3>1. /\ i - 2 \in 0 .. p - 1 /\ i - 2 \in -1 .. p - 1 /\ (i - 2) - (-1) + 1 = i
      BY <1>3, <1>4, <2>6
    <3> QED BY <1>4, <1>12, <2>3, <3>1
  <2>7. Bursts' = [Bursts EXCEPT ![1] = Bursts'[1]]
    <3>1. 1 \in 1 .. Len(Bursts) /\ Len(Bursts') = Len(Bursts)
      BY <1>3, <1>4, <2>3
    <3> QED BY <1>4, <1>13, <2>6, <3>1, OneChanged
  <2>8. Bursts' = [Bursts EXCEPT ![1].data = SubSeq(@, c + 1, e)]
    BY <2>5, <2>7
  <2> QED BY <2>8
<1>16. c \in 1 .. MaxChunk
  BY <1>2, WidthsAssumption DEF IInv, TypeOK
<1>17. Bursts # <<>> /\ c <= e
  BY <1>2
<1> QED BY <1>6, <1>9, <1>14, <1>15, <1>16, <1>17

-----------------------------------------------------------------------------
(* Idleness: the difference of two timestamps is the true one as long as   *)
(* the counter makes less than one turn.                                   *)

\* The target is never silent for a whole turn of the timestamp counter.
BelowOneTurn == MaxIdle \in Nat /\ MaxIdle < TsMod

\* The two timestamps give the true idleness.
QuietKnown == /\ quiet \in 0 .. MaxIdle
              /\ IF s_have_last THEN Minus(tim2, s_last_ts, TsMod) = quiet
                                ELSE quiet = 0

StreamInv == IInv /\ QuietKnown

\* At an interrupt the code sees the gap there was, and decides as the stream does.
LEMMA GapMeasured ==
  ASSUME BelowOneTurn, StreamInv, NEW gap \in Gaps, Idle(gap) <= MaxIdle,
         NEW now, now = (tim2 + gap) % TsMod
  PROVE  /\ now \in Timestamp /\ now = (tim2 + gap) % TsMod
         /\ Idle(gap) \in 0 .. MaxIdle /\ Stream!Idle(gap) = Idle(gap)
         /\ s_have_last => Minus(now, s_last_ts, TsMod) = Idle(gap)
         /\ Minus(now, now, TsMod) = 0
         /\ NewBurst(now) <=> Stream!Opens(gap)
<1>1. /\ gap \in Nat /\ TsMod \in Nat \ {0}
      /\ tim2 \in Nat /\ tim2 < TsMod /\ s_last_ts \in Nat /\ s_last_ts < TsMod
      /\ s_have_last \in BOOLEAN
  BY WidthsAssumption DEF StreamInv, IInv, TypeOK, Timestamp
<1>2. now \in Timestamp
  BY <1>1 DEF Timestamp
<1>3. gap < TsMod => now = Plus(tim2, gap, TsMod)
  <2> DEFINE x == tim2 + gap
  <2> SUFFICES ASSUME gap < TsMod PROVE now = Plus(tim2, gap, TsMod)
    OBVIOUS
  <2>1. x \in 0 .. 2 * TsMod - 1 /\ TsMod \in Nat \ {0}
    BY <1>1
  <2> HIDE DEF x
  <2>2. x % TsMod = IF x < TsMod THEN x ELSE x - TsMod
    BY <2>1, WrapOnce
  <2>3. Plus(tim2, gap, TsMod) = IF x < TsMod THEN x ELSE x - TsMod
    BY <1>1 DEF x, Plus
  <2>4. (tim2 + gap) % TsMod = x % TsMod
    BY DEF x
  <2> QED BY <2>2, <2>3, <2>4
<1>4. Idle(gap) \in 0 .. MaxIdle
  BY <1>1 DEF Idle, StreamInv, QuietKnown, BelowOneTurn
<1>5. Stream!Idle(gap) = Idle(gap)
  BY DEF Stream!Idle, Idle
<1>6. s_have_last => Minus(now, s_last_ts, TsMod) = Idle(gap)
  <2> SUFFICES ASSUME s_have_last PROVE Minus(now, s_last_ts, TsMod) = Idle(gap)
    OBVIOUS
  <2>1. quiet \in Nat /\ Minus(tim2, s_last_ts, TsMod) = quiet /\ Idle(gap) = quiet + gap
    BY DEF StreamInv, QuietKnown, Idle, BelowOneTurn
  <2>2. quiet + gap < TsMod /\ now = Plus(tim2, gap, TsMod)
    <3>1. quiet + gap < TsMod /\ gap < TsMod
      BY <1>1, <1>4, <2>1 DEF BelowOneTurn
    <3> QED BY <1>3, <3>1
  <2>3. CASE s_last_ts <= tim2
    <3>1. quiet = tim2 - s_last_ts
      BY <2>1, <2>3 DEF Minus
    <3> QED BY <1>1, <2>1, <2>2, <2>3, <3>1 DEF Minus, Plus
  <2>4. CASE ~(s_last_ts <= tim2)
    <3>1. quiet = tim2 - s_last_ts + TsMod
      BY <2>1, <2>4 DEF Minus
    <3>2. tim2 + gap < s_last_ts
      BY <1>1, <2>2, <3>1
    <3>3. now = tim2 + gap
      BY <1>1, <2>2, <3>2 DEF Plus
    <3> QED BY <1>1, <2>1, <3>1, <3>2, <3>3 DEF Minus
  <2> QED BY <1>1, <2>3, <2>4
<1>7. Minus(now, now, TsMod) = 0
  BY <1>2, WidthsAssumption DEF Minus, Timestamp
<1>8. NewBurst(now) <=> Stream!Opens(gap)
  <2>1. CASE s_have_last
    <3>1. Idle(gap) = quiet + gap
      BY <2>1 DEF Idle
    <3> QED BY <1>6, <2>1, <3>1 DEF NewBurst, Stream!Opens
  <2>2. CASE ~s_have_last
    BY <2>2 DEF NewBurst, Stream!Opens
  <2> QED BY <2>1, <2>2
<1> QED BY <1>2, <1>3, <1>4, <1>5, <1>6, <1>7, <1>8

\* One interrupt counts at most two losses, and the counter turns once at most.
LEMMA LossCounted ==
  ASSUME TypeOK, NEW k \in 0 .. 2, CountDropped(k)
  PROVE  Stream!Lose(k)
<1> DEFINE x == s_dropped + k
<1>1. x \in 0 .. 2 * DropMod - 1 /\ DropMod \in Nat \ {0}
  BY WidthsAssumption DEF TypeOK, Count
<1> HIDE DEF x
<1>2. x % DropMod = IF x < DropMod THEN x ELSE x - DropMod
  BY <1>1, WrapOnce
<1>3. s_dropped' = IF x < DropMod THEN x ELSE x - DropMod
  BY WidthsAssumption DEF x, TypeOK, Count, CountDropped, Plus
<1>4. (s_dropped + k) % DropMod = x % DropMod
  BY DEF x
<1> QED BY <1>2, <1>3, <1>4 DEF Stream!Lose

\* A byte stored moves s_head.
LEMMA HeadMoves ==
  ASSUME TypeOK, NEW byte, NEW ts, StoreByte(byte, ts)
  PROVE  s_head' # s_head
BY Sizes, SizesAssumption DEF TypeOK, Index, StoreByte, Plus

\* A byte is accepted: what every such step of the stream has in common.
LEMMA ByteAccepted ==
  ASSUME BelowOneTurn, StreamInv, NEW gap \in Gaps, StreamIrq(gap), NEW byte \in Byte,
         tim2' = (tim2 + gap) % TsMod, StoreByte(byte, tim2')
  PROVE  Stream!Accept(gap) /\ QuietKnown'
<1>1. s_head' # s_head
  BY HeadMoves DEF StreamInv, IInv
<1>2. quiet' = 0 /\ Idle(gap) <= MaxIdle
  BY <1>1 DEF StreamIrq
<1>3. tim2' = (tim2 + gap) % TsMod /\ Minus(tim2', tim2', TsMod) = 0
  BY <1>2, GapMeasured
<1>4. Stored < RingSize
  <2>1. Stored \in Nat /\ RingSize \in Nat /\ ~(Stored >= RingSize)
    BY RingFacts, Sizes DEF StreamInv, RingShape, StoreByte, RingFull
  <2> QED BY <2>1
<1>5. Stream!Waiting < RingSize
  BY <1>4, WaitingIsStored DEF StreamInv
<1>6. s_have_last' = TRUE /\ s_last_ts' = tim2'
  BY DEF StoreByte
<1>7. QuietKnown'
  BY <1>2, <1>3, <1>6 DEF QuietKnown, BelowOneTurn
<1> QED BY <1>2, <1>3, <1>5, <1>6, <1>7 DEF Stream!Accept, Stream!Pass

\* Nothing is accepted: the idleness goes on.
LEMMA NothingAccepted ==
  ASSUME BelowOneTurn, StreamInv, NEW gap \in Gaps, StreamIrq(gap),
         tim2' = (tim2 + gap) % TsMod,
         UNCHANGED <<s_head, s_have_last, s_last_ts>>
  PROVE  Stream!Pass(gap) /\ quiet' = Stream!Idle(gap) /\ QuietKnown'
<1>1. quiet' = Idle(gap) /\ Idle(gap) <= MaxIdle
  BY DEF StreamIrq
<1>2. /\ tim2' = (tim2 + gap) % TsMod /\ Idle(gap) \in 0 .. MaxIdle
      /\ Stream!Idle(gap) = Idle(gap)
      /\ s_have_last => Minus(tim2', s_last_ts, TsMod) = Idle(gap)
  BY <1>1, GapMeasured
<1>3. ~s_have_last => Idle(gap) = 0
  BY DEF Idle
<1> QED BY <1>1, <1>2, <1>3 DEF Stream!Pass, QuietKnown

\* An interrupt is an arrival of the stream.
LEMMA IrqArrives ==
  ASSUME BelowOneTurn, StreamInv, IInv', NEW gap \in Gaps, StreamIrq(gap)
  PROVE  Stream!Arrive(gap) /\ QuietKnown'
<1>1. Idle(gap) <= MaxIdle /\ Stream!Idle(gap) <= MaxIdle
  BY DEF StreamIrq, Stream!Idle, Idle
<1>2. TypeOK
  BY DEF StreamInv, IInv
<1>3. CASE UsartError(gap)
  <2>1. Stream!Pass(gap) /\ quiet' = Stream!Idle(gap) /\ QuietKnown'
    BY <1>3, NothingAccepted DEF UsartError, NoteDropped
  <2>2. Stream!Lose(1)
    BY <1>2, <1>3, LossCounted DEF UsartError, NoteDropped
  <2>3. Bursts' = Bursts /\ LastStamp' = LastStamp /\ UNCHANGED s_have_last
    BY <1>3, SameStream DEF UsartError, NoteDropped, ringVars, consumerVars
  <2>4. Stream!Damage(gap)
    BY <2>1, <2>2, <2>3 DEF Stream!Damage
  <2> QED BY <1>1, <2>1, <2>4 DEF Stream!Arrive
<1>4. ASSUME NEW byte \in Byte, NEW err \in {0, 1}, UsartByte(byte, gap, err)
      PROVE  Stream!Arrive(gap) /\ QuietKnown'
  <2>1. /\ tim2' = (tim2 + gap) % TsMod /\ TargetRx(byte, tim2', err)
        /\ UNCHANGED <<consumerVars, localVars>>
    BY <1>4 DEF UsartByte
  <2>2. err \in 0 .. 2 /\ err + 1 \in 0 .. 2
    OBVIOUS
  <2>3. PICK now : now = tim2'
    OBVIOUS
  <2>4. now \in Timestamp /\ now = (tim2 + gap) % TsMod /\ (NewBurst(now) <=> Stream!Opens(gap))
    BY <1>1, <2>1, <2>3, GapMeasured
  <2>5. CASE RxDropped(err)
    <3>1. Stream!Pass(gap) /\ quiet' = Stream!Idle(gap) /\ QuietKnown'
      BY <2>1, <2>5, NothingAccepted DEF RxDropped
    <3>2. Stream!Lose(err + 1)
      BY <1>2, <2>2, <2>5, LossCounted DEF RxDropped
    <3>3. Bursts' = Bursts /\ LastStamp' = LastStamp /\ UNCHANGED s_have_last
      BY <2>1, <2>5, SameStream DEF RxDropped, ringVars, consumerVars
    <3>4. Stream!Waiting = RingSize
      <4>1. Stored \in Nat /\ Stored <= RingSize /\ Stored >= RingSize
        BY <2>5, RingFacts, Sizes DEF StreamInv, RingShape, RxDropped, RingFull
      <4>2. Stored = RingSize
        BY <4>1, Sizes
      <4> QED BY <4>2, WaitingIsStored DEF StreamInv
    <3>5. Stream!Refuse(gap, err)
      BY <3>1, <3>2, <3>3, <3>4 DEF Stream!Refuse
    <3> QED BY <1>1, <3>1, <3>5 DEF Stream!Arrive
  <2>6. ASSUME StoreByte(byte, tim2')
        PROVE  Stream!Accept(gap) /\ QuietKnown' /\ StoreByte(byte, now)
    BY <2>1, <2>3, <2>6, ByteAccepted
  <2>7. ASSUME StoreByte(byte, tim2'), UNCHANGED <<s_mhead, s_marks>>
        PROVE  Bursts' = Stream!Extended(byte, LastStamp) /\ LastStamp' = LastStamp
    BY <2>1, <2>4, <2>6, <2>7, ByteJoins DEF StreamInv, Stream!Extended
  <2>8. CASE RxSameBurst(byte, tim2', err)
    <3>1. /\ ~Stream!Opens(gap) /\ Stream!Accept(gap) /\ QuietKnown'
          /\ Bursts' = Stream!Extended(byte, LastStamp) /\ LastStamp' = LastStamp
      BY <2>3, <2>4, <2>6, <2>7, <2>8 DEF RxSameBurst
    <3>2. Stream!Lose(err)
      BY <1>2, <2>2, <2>8, LossCounted DEF RxSameBurst
    <3>3. Stream!Continue(byte, gap, err)
      BY <3>1, <3>2 DEF Stream!Continue
    <3> QED BY <1>1, <3>1, <3>3 DEF Stream!Arrive
  <2>9. CASE RxMarked(byte, tim2', err)
    <3>1. Stream!Opens(gap) /\ Stream!Accept(gap) /\ QuietKnown' /\ StoreByte(byte, now)
      BY <2>3, <2>4, <2>6, <2>9 DEF RxMarked
    <3>2. Bursts' = Append(Bursts, [ts |-> now, data |-> <<byte>>]) /\ LastStamp' = now
      BY <2>1, <2>3, <2>4, <2>9, <3>1, ByteOpens DEF StreamInv, RxMarked
    <3>3. Stream!Lose(err)
      BY <1>2, <2>2, <2>9, LossCounted DEF RxMarked
    <3>4. Stream!Open(byte, gap, err)
      BY <2>3, <3>1, <3>2, <3>3 DEF Stream!Open
    <3> QED BY <1>1, <3>1, <3>4 DEF Stream!Arrive
  <2>10. CASE RxUnmarked(byte, tim2', err)
    <3>1. /\ Stream!Opens(gap) /\ Stream!Accept(gap) /\ QuietKnown'
          /\ Bursts' = Stream!Extended(byte, LastStamp) /\ LastStamp' = LastStamp
      BY <2>3, <2>4, <2>6, <2>7, <2>10 DEF RxUnmarked
    <3>2. Stream!Lose(err + 1)
      BY <1>2, <2>2, <2>10, LossCounted DEF RxUnmarked
    <3>3. Len(Bursts) >= Marks
      <4>1. Pending \in Nat /\ Pending >= Marks /\ Stored \in Nat /\ Stored # 0
        BY <2>10, RingFacts, Sizes DEF StreamInv, RingShape, RxUnmarked, MarksFull
      <4>2. Len(Bursts) = Pending - Oldest /\ Oldest \in {-1, 0}
        BY <4>1, BurstsFacts, StartFacts DEF StreamInv, BurstsShape, CutShape
      <4> QED BY <4>1, <4>2, Sizes
    <3>4. Stream!Merge(byte, gap, err)
      BY <3>1, <3>2, <3>3 DEF Stream!Merge
    <3> QED BY <1>1, <3>1, <3>4 DEF Stream!Arrive
  <2> QED BY <2>1, <2>5, <2>8, <2>9, <2>10 DEF TargetRx
<1> QED BY <1>3, <1>4 DEF StreamIrq, UsartIrqAfter

\* A step of relay_poll hands a frame on, or shows nothing.
LEMMA PollHandsOn ==
  ASSUME IInv, IInv', Poll, UNCHANGED quiet
  PROVE  /\ (\E k \in 1 .. MaxChunk : Stream!HandOn(k)) \/ UNCHANGED Stream!vars
         /\ UNCHANGED <<tim2, s_have_last, s_last_ts>>
<1>1. UNCHANGED <<tim2, s_have_last, s_last_ts, s_dropped>>
  BY DEF Poll, PollInternal, PollStart, ReadAvail, AdoptMark, MarksDone, Gather, CopyByte,
         CopyDone, Commit, EmitStatus, EmitData, producerVars
<1>2. CASE Commit
  <2>1. /\ n \in 1 .. MaxChunk /\ LastStamp' = LastStamp /\ Bursts # <<>>
        /\ n <= Len(Head(Bursts).data)
        /\ Bursts' = IF n = Len(Head(Bursts).data) THEN Tail(Bursts)
                     ELSE [Bursts EXCEPT ![1].data = SubSeq(@, n + 1, Len(Head(Bursts).data))]
    BY <1>2, FrameReleased
  <2>2. Stream!HandOn(n)
    BY <1>1, <2>1 DEF Stream!HandOn
  <2> QED BY <1>1, <2>1, <2>2
<1>3. CASE AdoptMark
  BY <1>1, <1>3, MarkAdopted DEF Stream!vars
<1>4. CASE PollStart \/ ReadAvail \/ MarksDone \/ Gather \/ CopyByte \/ CopyDone
           \/ \E taken \in BOOLEAN : EmitStatus(taken) \/ EmitData(taken)
  <2>1. UNCHANGED <<ringVars, s_cur_ts>>
    BY <1>4 DEF PollStart, ReadAvail, MarksDone, Gather, CopyByte, CopyDone, EmitStatus,
                EmitData, producerVars, consumerVars, ringVars
  <2> QED BY <1>1, <2>1, SameStream DEF Stream!vars
<1> QED BY <1>2, <1>3, <1>4 DEF Poll, PollInternal

-----------------------------------------------------------------------------
(* The theorems.                                                           *)

\* The idleness changes no step of Relay.
LEMMA StreamStepIsNext == [StreamNext]_streamVars => [Next]_vars
<1>1. \A gap \in Gaps : StreamIrq(gap) => UsartIrq
  BY DEF StreamIrq, UsartIrq
<1> QED BY <1>1 DEF StreamNext, streamVars, Next

\* At reset no byte waits and no time has passed.
LEMMA InitStreamInv ==
  ASSUME BelowOneTurn PROVE StreamInit => StreamInv /\ Stream!Init
<1> SUFFICES ASSUME StreamInit PROVE StreamInv /\ Stream!Init
  OBVIOUS
<1>1. IInv
  BY InitIInv DEF StreamInit
<1>2. QuietKnown
  BY DEF StreamInit, Init, QuietKnown, BelowOneTurn
<1>3. Stored = 0 /\ Pending = 0
  BY DEF StreamInit, Init, Stored, Pending, Minus
<1>4. Bursts = <<>>
  BY <1>3 DEF Bursts
<1>5. LastStamp = 0
  BY <1>3 DEF LastStamp, Stamp, StreamInit, Init
<1> QED BY <1>1, <1>2, <1>4, <1>5 DEF StreamInv, Stream!Init, StreamInit, Init

\* Every step keeps the invariant, and is a step of the stream or shows nothing.
LEMMA NextStreams ==
  ASSUME BelowOneTurn
  PROVE  StreamInv /\ [StreamNext]_streamVars => StreamInv' /\ [Stream!Next]_(Stream!vars)
<1> SUFFICES ASSUME StreamInv, [StreamNext]_streamVars
             PROVE  StreamInv' /\ [Stream!Next]_(Stream!vars)
  OBVIOUS
<1>1. IInv /\ IInv'
  BY StreamStepIsNext, NextKeepsIInv DEF StreamInv
<1>2. CASE \E gap \in Gaps : StreamIrq(gap)
  BY <1>1, <1>2, IrqArrives DEF StreamInv, Stream!Next
<1>3. CASE Poll /\ UNCHANGED quiet
  <2>1. /\ (\E k \in 1 .. MaxChunk : Stream!HandOn(k)) \/ UNCHANGED Stream!vars
        /\ UNCHANGED <<tim2, s_have_last, s_last_ts>>
    BY <1>1, <1>3, PollHandsOn
  <2>2. QuietKnown'
    BY <1>3, <2>1 DEF StreamInv, QuietKnown
  <2> QED BY <1>1, <2>1, <2>2 DEF StreamInv, Stream!Next
<1>4. CASE UNCHANGED streamVars
  <2>1. UNCHANGED <<ringVars, s_cur_ts, tim2, s_have_last, s_last_ts, s_dropped, quiet>>
    BY <1>4 DEF streamVars, vars, producerVars, consumerVars, ringVars
  <2>2. QuietKnown'
    BY <2>1 DEF StreamInv, QuietKnown
  <2>3. UNCHANGED Stream!vars
    BY <2>1, SameStream DEF Stream!vars
  <2> QED BY <1>1, <2>2, <2>3 DEF StreamInv
<1> QED BY <1>2, <1>3, <1>4 DEF StreamNext

\* The stamps of the code measure the true idleness, in every reachable state,
\* as long as the target is silent for less than one turn of the counter.
THEOREM StreamInvariant == ASSUME BelowOneTurn PROVE StreamSpec => []StreamInv
<1>1. StreamInit => StreamInv
  BY InitStreamInv
<1>2. StreamInv /\ [StreamNext]_streamVars => StreamInv'
  BY NextStreams
<1> QED BY <1>1, <1>2, PTL DEF StreamSpec

\* The rings, the marks and the poll loop accept, cut, count and hand on the
\* bytes of the target as relay.h:24-32 promises, for every size of ring, mark
\* ring and frame, every width of index and counter, and every interleaving of
\* interrupt and poll, while the target is silent for less than 2^32 us.
THEOREM RelayIsBurstStream ==
  ASSUME BelowOneTurn PROVE StreamSpec => RelayImplementsStream
<1>1. StreamInit => StreamInv /\ Stream!Init
  BY InitStreamInv
<1>2. StreamInv /\ [StreamNext]_streamVars => StreamInv' /\ [Stream!Next]_(Stream!vars)
  BY NextStreams
<1> QED BY <1>1, <1>2, PTL DEF StreamSpec, RelayImplementsStream, Stream!Spec

\* The steps of StreamSpec are steps of Relay, idle for however long.
THEOREM StreamIsRelay == StreamSpec => Spec
<1>1. StreamInit => Init
  BY DEF StreamInit
<1> QED BY <1>1, StreamStepIsNext, PTL DEF StreamSpec, Spec

\* The frame offered to the sink is the front of the oldest burst, with its
\* stamp (relay.h:24-26): no bound on the idleness is needed.
THEOREM StreamOfferedFrameIsHead == StreamSpec => []OfferedFrameIsHead
<1>1. IInv => OfferedFrameIsHead
  <2> SUFFICES ASSUME IInv, pc \in {"emit", "commit"}
               PROVE  /\ DataFrame.ts = Head(Bursts).ts
                      /\ IsPrefix(DataFrame.data, Head(Bursts).data)
    BY DEF OfferedFrameIsHead
  <2>1. BuildingFrame
    BY DEF BuildingFrame
  <2>2. PICK e : e = Start(0)
    OBVIOUS
  <2> DEFINE whole == BytesBetween(0, e)
  <2>3. /\ n \in Nat /\ n <= e /\ e <= Stored
        /\ Head(Bursts) = [ts |-> s_cur_ts, data |-> whole]
    BY <2>1, <2>2, FrameWithinBurst
  <2>4. e \in Nat
    <3>1. Stored \in Nat /\ Oldest = -1 /\ Pending \in Nat
      BY <2>1, FrameWithinBurst, NextMarkFacts
    <3>2. 0 \in Oldest .. Pending
      BY <3>1
    <3> QED BY <2>2, <3>1, <3>2, StartFacts DEF CutShape
  <2>5. /\ whole \in Seq(Byte) /\ Len(whole) = e
        /\ \A j \in 1 .. e : whole[j] = ByteAt(0 + j - 1)
    <3>1. 0 <= e /\ e - 0 = e
      BY <2>4
    <3> QED BY <2>3, <2>4, <3>1, BytesFacts DEF BytesShape
  <2> HIDE DEF whole
  <2>6. /\ arg \in Seq(Byte) /\ Len(arg) \in Nat /\ Len(arg) <= e
        /\ \A j \in 1 .. Len(arg) : arg[j] = ByteAt(j - 1)
    <3>1. arg \in Seq(Byte) /\ Len(arg) <= n
      BY DEF IInv, TypeOK
    <3>2. \A j \in 1 .. Len(arg) : arg[j] = ByteAt(j - 1)
      BY <2>1 DEF IInv, CopyIntact, ByteAt
    <3>3. Len(arg) \in Nat
      BY <3>1
    <3> QED BY <2>3, <2>4, <3>1, <3>2, <3>3
  <2>7. SubSeq(arg, 1, Len(arg)) = SubSeq(whole, 1, Len(arg))
    <3>1. PICK k \in Nat : k = Len(arg)
      BY <2>6
    <3>2. \A j \in 1 .. k : arg[j] \in Byte /\ whole[j] = arg[j]
      <4>1. \A j \in 1 .. k : j \in 1 .. e /\ 0 + j - 1 = j - 1
        BY <2>4, <2>6, <3>1
      <4> QED BY <2>5, <2>6, <3>1, <4>1
    <3>3. \A j \in 1 .. k : whole[j] \in Byte
      BY <3>2
    <3>4. /\ SubSeq(arg, 1, k) \in Seq(Byte)
          /\ Len(SubSeq(arg, 1, k)) = IF 1 <= k THEN k - 1 + 1 ELSE 0
          /\ \A i \in 1 .. k - 1 + 1 : SubSeq(arg, 1, k)[i] = arg[1 + i - 1]
      BY <3>2, SubSeqProperties
    <3>5. /\ SubSeq(whole, 1, k) \in Seq(Byte)
          /\ Len(SubSeq(whole, 1, k)) = IF 1 <= k THEN k - 1 + 1 ELSE 0
          /\ \A i \in 1 .. k - 1 + 1 : SubSeq(whole, 1, k)[i] = whole[1 + i - 1]
      BY <3>3, SubSeqProperties
    <3>6. \A i \in 1 .. Len(SubSeq(arg, 1, k)) : SubSeq(arg, 1, k)[i] = SubSeq(whole, 1, k)[i]
      <4> SUFFICES ASSUME NEW i \in 1 .. Len(SubSeq(arg, 1, k))
                   PROVE  SubSeq(arg, 1, k)[i] = SubSeq(whole, 1, k)[i]
        OBVIOUS
      <4>1. i \in 1 .. k /\ i \in 1 .. k - 1 + 1 /\ 1 + i - 1 = i
        BY <3>4
      <4> QED BY <3>2, <3>4, <3>5, <4>1
    <3> QED BY <3>1, <3>4, <3>5, <3>6, SeqEqual
  <2> QED BY <2>3, <2>5, <2>6, <2>7 DEF DataFrame, IsPrefix
<1> QED BY <1>1, RelayInvariant, StreamIsRelay, PTL

\* A byte that comes more than GapUs after the one before it, whatever the
\* interrupts in between, opens a burst unless its mark is lost
\* (relay.h:24-26), if the target is silent for less than one turn of the
\* counter; the run that lets it be silent for longer shows a burst that does
\* not end.
THEOREM StreamIdleGapOpensBurst ==
  ASSUME BelowOneTurn PROVE StreamSpec => IdleGapOpensBurst
<1>1. ASSUME StreamInv, NEW gap \in Gaps, StoresAfter(gap), Idle(gap) > GapUs,
             Pending < Marks
      PROVE  s_mhead' # s_mhead
  <2>1. StreamIrq(gap) /\ s_head' # s_head
    BY <1>1 DEF StoresAfter
  <2>2. TypeOK /\ Idle(gap) <= MaxIdle
    BY <1>1, <2>1 DEF StreamInv, IInv, StreamIrq
  <2>3. PICK byte \in Byte, err \in {0, 1} : UsartByte(byte, gap, err)
    BY <1>1, <2>1 DEF StreamIrq, UsartIrqAfter, UsartError, NoteDropped
  <2>4. tim2' = (tim2 + gap) % TsMod /\ TargetRx(byte, tim2', err)
    BY <2>3 DEF UsartByte
  <2>5. PICK now : now = tim2'
    OBVIOUS
  <2>6. NewBurst(now)
    <3>1. s_have_last => quiet + gap > GapUs
      BY <1>1 DEF Idle
    <3>2. Stream!Opens(gap)
      BY <3>1 DEF Stream!Opens
    <3> QED BY <1>1, <2>2, <2>4, <2>5, <3>2, GapMeasured
  <2>7. CASE RxMarked(byte, tim2', err)
    BY <2>2, <2>7, Sizes, SizesAssumption DEF RxMarked, TypeOK, Index, Plus
  <2> QED BY <1>1, <2>1, <2>4, <2>5, <2>6, <2>7
          DEF TargetRx, RxDropped, RxSameBurst, RxUnmarked, MarksFull
<1>2. StreamInv /\ [StreamNext]_streamVars =>
        [\A gap \in Gaps : StoresAfter(gap) /\ Idle(gap) > GapUs /\ Pending < Marks
           => s_mhead' # s_mhead]_streamVars
  BY <1>1
<1> QED BY <1>2, StreamInvariant, PTL DEF StreamSpec, IdleGapOpensBurst

-----------------------------------------------------------------------------
(* The VCP path: no byte meets a half-initialised board, the transmit FIFO *)
(* never holds more than it has room for, and each step is one of Relay.   *)

\* USART1's receiver is the sixth thing switched on, its interrupt the last.
ReceiverCall == 6
RxIrqCall    == 7

FifoLevel == used \in 0 .. FifoRoom /\ txe \in BOOLEAN /\ turn \in {"relay_poll", "board_pc_poll"}

\* Nothing is received before the receiver is on, and nothing handed to the
\* relay before its interrupt is.
NothingYet == /\ boot < ReceiverCall => held = {}
              /\ boot < RxIrqCall => ~s_have_last /\ s_dropped = 0

BootInv == boot \in 0 .. RxIrqCall /\ NothingYet

VcpInv == IInv /\ FifoLevel /\ BootInv

-----------------------------------------------------------------------------
(* The order of the calls.                                                 *)

LEMMA CallsInOrder ==
  /\ Len(BootCalls) = RxIrqCall /\ DOMAIN BootCalls = 1 .. RxIrqCall
  /\ BootCalls[1] = {"relay"} /\ BootCalls[2] = {"fifo"}
  /\ BootCalls[3] = {"sysclk_48mhz"} /\ BootCalls[4] = {"rx_pin", "tx_pin"}
  /\ BootCalls[5] = {"timestamps"} /\ BootCalls[6] = {"receiver", "transmitter"}
  /\ BootCalls[7] = {"rx_irq"}
BY DEF BootCalls, RelayInit, BytefifoInit, ClockInit, GpioInit, Tim2Init, UsartInit,
       EnableRxIrq, RxIrqCall

LEMMA OnceReceiving ==
  ASSUME boot \in 0 .. RxIrqCall
  PROVE  /\ On("receiver") => boot >= ReceiverCall
         /\ On("rx_irq") => boot = RxIrqCall
         /\ Booted => boot = RxIrqCall
<1>1. ASSUME NEW k \in 1 .. 7, k < 6 PROVE "receiver" \notin BootCalls[k]
  <2>1. k \in {1, 2, 3, 4, 5}
    BY <1>1
  <2> QED BY <2>1, CallsInOrder
<1>2. ASSUME NEW k \in 1 .. 7, k < 7 PROVE "rx_irq" \notin BootCalls[k]
  <2>1. k \in {1, 2, 3, 4, 5, 6}
    BY <1>2
  <2> QED BY <2>1, CallsInOrder
<1>3. On("receiver") => boot >= ReceiverCall
  BY <1>1 DEF On, ReceiverCall, RxIrqCall
<1>4. On("rx_irq") => boot = RxIrqCall
  BY <1>2 DEF On, RxIrqCall
<1> QED BY <1>3, <1>4, CallsInOrder DEF Booted

\* All that a received byte depends on is switched on before the receiver.
LEMMA ReadyOnceReceiving ==
  ASSUME boot \in 0 .. RxIrqCall, boot >= ReceiverCall
  PROVE  \A part \in {"relay", "fifo", "sysclk_48mhz", "rx_pin", "tx_pin", "timestamps"} : On(part)
<1>1. {1, 2, 3, 4, 5} \subseteq 1 .. boot
  BY DEF ReceiverCall, RxIrqCall
<1> QED BY <1>1, CallsInOrder DEF On

-----------------------------------------------------------------------------
(* The refinement, step by step.                                           *)

\* The FIFO takes a frame that fits and refuses one that does not.
LEMMA WriteKeepsLevel ==
  ASSUME used \in 0 .. FifoRoom, NEW len \in Nat, Write(len)
  PROVE  used' \in 0 .. FifoRoom
BY RoomAssumption DEF Write, Fits

\* A step of the probe is a step of its relay or none.
LEMMA VcpNextIsNext == [VcpNext]_vcpVars => [Next]_vars
<1> SUFFICES ASSUME [VcpNext]_vcpVars PROVE [Next]_vars
  OBVIOUS
<1>1. CASE BootCall \/ HoldByte \/ TdrEmptied \/ PopToTdr \/ PollDone \/ UNCHANGED vcpVars
  BY <1>1 DEF BootCall, HoldByte, TdrEmptied, PopToTdr, PollDone, vcpVars
<1>2. CASE TakeHeld
  <2>1. PICK byte \in Byte, gap \in Gaps : UsartByte(byte, gap, IF "ORE" \in held THEN 1 ELSE 0)
    BY <1>2 DEF TakeHeld
  <2>2. \E err \in {0, 1} : UsartByte(byte, gap, err)
    BY <2>1
  <2> QED BY <2>2 DEF Next, UsartIrq, UsartIrqAfter
<1>3. CASE RxIrq
  BY <1>3 DEF RxIrq, Next
<1>4. CASE RelayPoll
  <2>1. ASSUME NEW taken, EmitStatus(taken) PROVE Poll
    <3>1. EmitStatus(TRUE) \/ EmitStatus(FALSE)
      BY <2>1 DEF EmitStatus
    <3> QED BY <3>1 DEF Poll
  <2>2. ASSUME NEW taken, EmitData(taken) PROVE Poll
    <3>1. EmitData(TRUE) \/ EmitData(FALSE)
      BY <2>2 DEF EmitData
    <3> QED BY <3>1 DEF Poll
  <2> QED BY <1>4, <2>1, <2>2 DEF RelayPoll, Poll, Next
<1> QED BY <1>1, <1>2, <1>3, <1>4 DEF VcpNext, Main, MainLoop

\* The probe on its VCP path, from power-up, is the relay with a transport
\* that takes a frame when the FIFO has room for it.
THEOREM VcpImplementsRelay == VcpSpec => Spec
<1>1. VcpInit => Init
  BY DEF VcpInit
<1> QED BY <1>1, VcpNextIsNext, PTL DEF VcpSpec, Spec

-----------------------------------------------------------------------------
(* The invariant.                                                          *)

LEMMA InitVcpInv == VcpInit => VcpInv
<1> SUFFICES ASSUME VcpInit PROVE VcpInv
  OBVIOUS
<1>1. IInv
  BY InitIInv DEF VcpInit
<1>2. FifoLevel
  BY RoomAssumption DEF VcpInit, FifoLevel
<1>3. BootInv
  BY DEF VcpInit, Init, BootInv, NothingYet, ReceiverCall, RxIrqCall
<1> QED BY <1>1, <1>2, <1>3 DEF VcpInv

\* The FIFO is filled by whole frames that fit and emptied byte by byte.
THEOREM VcpNextKeepsFifoLevel == VcpInv /\ [VcpNext]_vcpVars => FifoLevel'
<1> SUFFICES ASSUME VcpInv, [VcpNext]_vcpVars PROVE FifoLevel'
  OBVIOUS
<1> USE DEF VcpInv, FifoLevel
<1>1. CASE BootCall \/ HoldByte \/ TakeHeld \/ RxIrq \/ TdrEmptied \/ PollDone \/ UNCHANGED vcpVars
  BY <1>1 DEF BootCall, HoldByte, TakeHeld, RxIrq, TdrEmptied, PollDone, bootVars, vcpVars
<1>2. CASE PopToTdr
  <2>1. used > 0 /\ used' = used - 1 /\ txe' = FALSE /\ UNCHANGED turn
    BY <1>2 DEF PopToTdr
  <2>2. used' \in 0 .. FifoRoom
    BY <2>1, RoomAssumption
  <2> QED BY <2>1, <2>2
<1>3. CASE RelayPoll
  <2>1. StatusLen \in Nat /\ DataLen \in Nat
    BY RoomAssumption, WidthsAssumption DEF DataLen, IInv, TypeOK
  <2>2. used' \in 0 .. FifoRoom
    BY <1>3, <2>1, WriteKeepsLevel DEF RelayPoll
  <2>3. txe' \in BOOLEAN /\ turn' \in {"relay_poll", "board_pc_poll"}
    BY <1>3 DEF RelayPoll
  <2> QED BY <2>2, <2>3
<1> QED BY <1>1, <1>2, <1>3 DEF VcpNext, Main, MainLoop

\* Bytes are held only once the receiver is on, and reach the relay only once
\* its interrupt is.
THEOREM VcpNextKeepsBootInv == VcpInv /\ [VcpNext]_vcpVars => BootInv'
<1> SUFFICES ASSUME VcpInv, [VcpNext]_vcpVars PROVE BootInv'
  OBVIOUS
<1> USE DEF VcpInv, BootInv
<1>1. CASE BootCall
  <2>1. boot' = boot + 1 /\ boot # RxIrqCall /\ UNCHANGED <<held, s_have_last, s_dropped>>
    BY <1>1, CallsInOrder DEF BootCall, Booted, vars, producerVars
  <2> QED BY <2>1 DEF NothingYet, ReceiverCall, RxIrqCall
<1>2. CASE HoldByte
  <2>1. boot >= ReceiverCall /\ UNCHANGED <<boot, s_have_last, s_dropped>>
    BY <1>2, OnceReceiving DEF HoldByte, vars, producerVars
  <2> QED BY <2>1 DEF NothingYet, ReceiverCall
<1>3. CASE TakeHeld \/ RxIrq \/ MainLoop
  <2>1. boot = RxIrqCall /\ boot' = boot
    BY <1>3, OnceReceiving
    DEF TakeHeld, RxIrq, MainLoop, RelayPoll, PopToTdr, PollDone, bootVars
  <2> QED BY <2>1 DEF NothingYet, ReceiverCall, RxIrqCall
<1>4. CASE TdrEmptied \/ UNCHANGED vcpVars
  <2>1. UNCHANGED <<boot, held, s_have_last, s_dropped>>
    BY <1>4 DEF TdrEmptied, bootVars, vcpVars, vars, producerVars
  <2> QED BY <2>1 DEF NothingYet
<1> QED BY <1>1, <1>2, <1>3, <1>4 DEF VcpNext, Main

LEMMA VcpNextKeepsVcpInv == VcpInv /\ [VcpNext]_vcpVars => VcpInv'
BY VcpNextIsNext, NextKeepsIInv, VcpNextKeepsFifoLevel, VcpNextKeepsBootInv DEF VcpInv

\* Every reachable state satisfies the invariant.
THEOREM VcpInvariant == VcpSpec => []VcpInv
BY InitVcpInv, VcpNextKeepsVcpInv, PTL DEF VcpSpec

\* No byte is received, let alone handed to the relay, before all it depends
\* on is up.
THEOREM VcpBoardReady == VcpSpec => []BytesMeetReadyBoard
<1>1. VcpInv => BytesMeetReadyBoard
  <2> SUFFICES ASSUME VcpInv, held # {} \/ s_have_last \/ s_dropped # 0
               PROVE  boot \in 0 .. RxIrqCall /\ boot >= ReceiverCall
    BY ReadyOnceReceiving DEF BytesMeetReadyBoard
  <2> QED BY DEF VcpInv, BootInv, NothingYet, ReceiverCall, RxIrqCall
<1> QED BY <1>1, VcpInvariant, PTL

\* The FIFO, which refuses a frame that does not fit and loses nothing of one
\* that does, is never fuller than it has room for.
THEOREM VcpFifoLevel == VcpSpec => []FifoLevel
<1>1. VcpInv => FifoLevel  BY DEF VcpInv
<1> QED BY <1>1, VcpInvariant, PTL

\* What is proved of the relay with any transport, for the one it has here:
\* neither ring overflows, frames are within one burst, and what is sent is
\* what was stored.
THEOREM VcpRelaySafe ==
  VcpSpec => [](Occupancy /\ MarksOrdered /\ FrameNeverEmpty /\ OneBurstPerFrame /\ CopyIntact)
BY VcpImplementsRelay, RelayOccupancy, RelayMarksOrdered, RelayFrameNeverEmpty,
   RelayOneBurstPerFrame, RelayCopyIntact, PTL
=============================================================================
