-------------------------- MODULE ByteFifoProofs ---------------------------
(***************************************************************************)
(* ByteFifo keeps its types, never overruns, and implements BoundedQueue,  *)
(* for every capacity of at least 2 and every set of bytes.                *)
(*                                                                         *)
(* The inductive invariant adds to TypeOK and PushNeverOverruns what the   *)
(* refinement needs when a push completes: the last i bytes put into the   *)
(* ring are the first i of its buffer.                                     *)
(***************************************************************************)
EXTENDS ByteFifo, ArithmeticFacts, SequenceTheorems, TLAPS

Pushed == /\ i <= FifoCount
          /\ \A k \in 1 .. i : buf[SlotAt(FifoCount - i + k - 1)] = src[k]

FifoInv == TypeOK /\ PushNeverOverruns /\ Pushed

-----------------------------------------------------------------------------
(* The two indices, without division.                                      *)

\* The number of bytes between the indices.
LEMMA Distance ==
  ASSUME NEW h \in 0 .. Cap - 1, NEW t \in 0 .. Cap - 1
  PROVE  /\ (h - t + Cap) % Cap = IF t <= h THEN h - t ELSE h - t + Cap
         /\ (h - t + Cap) % Cap \in 0 .. Cap - 1
<1> DEFINE x == h - t + Cap
<1>1. x \in 0 .. 2 * Cap - 1 /\ Cap \in Nat \ {0} /\ (x < Cap <=> ~(t <= h))
  BY CapAssumption
<1> HIDE DEF x
<1>2. x % Cap = IF x < Cap THEN x ELSE x - Cap
  BY <1>1, WrapOnce
<1>3. x % Cap = IF t <= h THEN h - t ELSE h - t + Cap
  BY <1>1, <1>2, CapAssumption DEF x
<1>4. (IF t <= h THEN h - t ELSE h - t + Cap) \in 0 .. Cap - 1
  BY CapAssumption
<1> QED BY <1>3, <1>4 DEF x

LEMMA CountIs ==
  ASSUME TypeOK
  PROVE  /\ FifoCount = IF tail <= head THEN head - tail ELSE head - tail + Cap
         /\ FifoCount \in 0 .. Cap - 1
BY Distance DEF TypeOK, FifoCount

\* The slot k places behind an index.
LEMMA AdvanceIs ==
  ASSUME NEW a \in 0 .. Cap - 1, NEW k \in 0 .. Cap
  PROVE  /\ (a + k) % Cap = IF a + k < Cap THEN a + k ELSE a + k - Cap
         /\ (a + k) % Cap \in 0 .. Cap - 1
<1> DEFINE x == a + k
<1>1. x \in 0 .. 2 * Cap - 1 /\ Cap \in Nat \ {0}
  BY CapAssumption
<1> HIDE DEF x
<1>2. x % Cap = IF x < Cap THEN x ELSE x - Cap
  BY <1>1, WrapOnce
<1>3. x % Cap = IF a + k < Cap THEN a + k ELSE a + k - Cap
  BY <1>1, <1>2, CapAssumption DEF x
<1>4. (IF a + k < Cap THEN a + k ELSE a + k - Cap) \in 0 .. Cap - 1
  BY CapAssumption
<1> QED BY <1>3, <1>4 DEF x

-----------------------------------------------------------------------------
(* The invariant.                                                          *)

\* fifo_init: two indices at 0 and an empty buffer.
THEOREM FifoInit == Init => FifoInv
<1> SUFFICES ASSUME Init PROVE FifoInv
  OBVIOUS
<1>1. TypeOK
  BY CapAssumption DEF Init, TypeOK
<1>2. FifoCount = 0
  BY <1>1, CountIs DEF Init
<1>3. i = 0 /\ Len(src) = 0
  BY DEF Init
<1>4. PushNeverOverruns
  BY <1>2, <1>3, CapAssumption DEF PushNeverOverruns
<1>5. Pushed
  BY <1>2, <1>3 DEF Pushed
<1> QED BY <1>1, <1>4, <1>5 DEF FifoInv

\* Outside a push, nothing but the count matters.
LEMMA IdleIsEnough ==
  ASSUME TypeOK, Idle
  PROVE  i = 0 /\ PushNeverOverruns /\ Pushed
<1>1. Len(src) = 0 /\ i = 0
  BY DEF TypeOK, Idle
<1>2. FifoCount \in 0 .. Cap - 1
  BY CountIs
<1> QED BY <1>1, <1>2, CapAssumption DEF PushNeverOverruns, Pushed

LEMMA PushAcceptedKeeps ==
  ASSUME FifoInv, NEW len \in 1 .. Cap, NEW buffer \in [1 .. len -> Byte],
         PushAccepted(buffer)
  PROVE  FifoInv'
<1>1. buffer \in Seq(Byte) /\ Len(buffer) = len
  BY CapAssumption
<1>2. i = 0 /\ i' = 0
  BY IdleIsEnough DEF FifoInv, PushAccepted
<1>3. TypeOK'
  BY <1>1, <1>2 DEF FifoInv, TypeOK, PushAccepted
<1>4. FifoCount' = FifoCount /\ FifoCount \in 0 .. Cap - 1
  BY CountIs DEF PushAccepted, FifoCount, FifoInv
<1>5. PushNeverOverruns'
  BY <1>1, <1>2, <1>4, CapAssumption DEF PushAccepted, PushNeverOverruns, FifoFree
<1>6. Pushed'
  BY <1>2, <1>4 DEF Pushed
<1> QED BY <1>3, <1>5, <1>6 DEF FifoInv

\* A byte more in the ring, behind all that were there.
LEMMA PushByteFacts ==
  ASSUME FifoInv, PushByte
  PROVE  /\ TypeOK'
         /\ FifoCount' = FifoCount + 1
         /\ FifoCount \in 0 .. Cap - 2
         /\ i \in Nat /\ i <= FifoCount /\ Len(src) \in Nat
         /\ i + 1 \in 1 .. Len(src)
         /\ \A k \in 0 .. FifoCount - 1 : buf'[SlotAt(k)] = buf[SlotAt(k)]
         /\ buf'[SlotAt(FifoCount)] = src[i + 1]
<1> USE CapAssumption
<1>1. i \in Nat /\ i <= FifoCount /\ Len(src) \in Nat /\ i + 1 \in 1 .. Len(src)
  BY DEF FifoInv, TypeOK, Pushed, PushByte
<1>2. FifoCount \in 0 .. Cap - 2
  BY <1>1, CountIs DEF FifoInv, PushNeverOverruns
<1>3. head' = (IF head + 1 < Cap THEN head + 1 ELSE head + 1 - Cap) /\ head' \in 0 .. Cap - 1
  BY AdvanceIs DEF FifoInv, TypeOK, PushByte
<1>4. src[i + 1] \in Byte
  BY <1>1 DEF FifoInv, TypeOK
<1>5. TypeOK'
  <2>1. buf' \in [0 .. Cap - 1 -> Byte]
    BY <1>4 DEF FifoInv, TypeOK, PushByte
  <2>2. i' \in 0 .. Len(src')
    BY <1>1 DEF PushByte
  <2> QED BY <1>3, <2>1, <2>2 DEF FifoInv, TypeOK, PushByte
<1>6. FifoCount' = FifoCount + 1
  <2>1. FifoCount' = IF tail' <= head' THEN head' - tail' ELSE head' - tail' + Cap
    BY <1>5, Distance DEF TypeOK, FifoCount
  <2>2. FifoCount = IF tail <= head THEN head - tail ELSE head - tail + Cap
    BY CountIs DEF FifoInv
  <2> QED BY <1>2, <1>3, <2>1, <2>2 DEF FifoInv, TypeOK, PushByte
<1>7. ASSUME NEW k \in 0 .. FifoCount
      PROVE  /\ SlotAt(k) \in 0 .. Cap - 1 /\ SlotAt(k)' = SlotAt(k)
             /\ SlotAt(k) = IF tail + k < Cap THEN tail + k ELSE tail + k - Cap
  <2>1. k \in 0 .. Cap
    BY <1>2
  <2> QED BY <2>1, AdvanceIs DEF FifoInv, TypeOK, SlotAt, PushByte
<1>8. ASSUME NEW k \in 0 .. FifoCount - 1
      PROVE  buf'[SlotAt(k)] = buf[SlotAt(k)]
  <2>1. k \in 0 .. FifoCount
    BY <1>2
  <2>2. FifoCount = IF tail <= head THEN head - tail ELSE head - tail + Cap
    BY CountIs DEF FifoInv
  <2>3. SlotAt(k) # head
    BY <1>2, <1>7, <2>1, <2>2 DEF FifoInv, TypeOK
  <2> QED BY <1>7, <2>1, <2>3 DEF FifoInv, TypeOK, PushByte
<1>9. buf'[SlotAt(FifoCount)] = src[i + 1]
  <2>1. FifoCount = IF tail <= head THEN head - tail ELSE head - tail + Cap
    BY CountIs DEF FifoInv
  <2>2. SlotAt(FifoCount) = IF tail + FifoCount < Cap THEN tail + FifoCount
                            ELSE tail + FifoCount - Cap
    BY <1>2, <1>7
  <2>3. SlotAt(FifoCount) = head
    BY <1>2, <2>1, <2>2 DEF FifoInv, TypeOK
  <2> QED BY <2>3 DEF FifoInv, TypeOK, PushByte
<1> QED BY <1>1, <1>2, <1>5, <1>6, <1>8, <1>9

LEMMA PushByteKeeps ==
  ASSUME FifoInv, PushByte
  PROVE  FifoInv'
<1> USE CapAssumption
<1>1. i' = i + 1 /\ src' = src
  BY DEF PushByte
<1>2. PushNeverOverruns'
  BY <1>1, PushByteFacts DEF FifoInv, PushNeverOverruns
<1>3. Pushed'
  <2>1. i' <= FifoCount'
    BY <1>1, PushByteFacts
  <2>2. ASSUME NEW k \in 1 .. i'
        PROVE  buf'[SlotAt(FifoCount - i + k - 1)] = src[k]
    <3>1. i \in Nat /\ k \in 1 .. i + 1
      BY <1>1, PushByteFacts
    <3>2. CASE k <= i
      <4>1. k \in 1 .. i /\ FifoCount - i + k - 1 \in 0 .. FifoCount - 1
        BY <3>1, <3>2, PushByteFacts
      <4> QED BY <4>1, PushByteFacts DEF FifoInv, Pushed
    <3>3. CASE k = i + 1
      <4>1. FifoCount - i + k - 1 = FifoCount
        BY <3>3, PushByteFacts
      <4> QED BY <3>3, <4>1, PushByteFacts
    <3> QED BY <3>1, <3>2, <3>3
  <2>3. ASSUME NEW k \in 1 .. i'
        PROVE  SlotAt(FifoCount - i + k - 1)' = SlotAt(FifoCount - i + k - 1)
    <3>1. FifoCount' - i' + k - 1 = FifoCount - i + k - 1
      BY <1>1, PushByteFacts
    <3> QED BY <3>1 DEF SlotAt, PushByte
  <2> QED BY <1>1, <2>1, <2>2, <2>3 DEF Pushed
<1> QED BY <1>2, <1>3, PushByteFacts DEF FifoInv

LEMMA PushDoneKeeps ==
  ASSUME FifoInv, PushDone
  PROVE  FifoInv'
<1>1. TypeOK' /\ Idle'
  BY DEF FifoInv, TypeOK, PushDone, Idle
<1>2. FifoCount' = FifoCount /\ FifoCount \in 0 .. Cap - 1
  BY CountIs DEF FifoInv, FifoCount, PushDone
<1>3. i' = 0 /\ Len(src') = 0
  BY DEF PushDone
<1> QED BY <1>1, <1>2, <1>3, CapAssumption DEF FifoInv, PushNeverOverruns, Pushed

LEMMA PopByteFacts ==
  ASSUME FifoInv, PopByte
  PROVE  /\ TypeOK' /\ i = 0 /\ i' = 0 /\ Len(src') = 0
         /\ FifoCount \in 1 .. Cap - 1 /\ FifoCount' = FifoCount - 1
         /\ \A k \in 0 .. FifoCount - 2 : SlotAt(k)' = SlotAt(k + 1)
<1> USE CapAssumption
<1>1. tail' = (IF tail + 1 < Cap THEN tail + 1 ELSE tail + 1 - Cap) /\ tail' \in 0 .. Cap - 1
  BY AdvanceIs DEF FifoInv, TypeOK, PopByte
<1>2. TypeOK'
  BY <1>1 DEF FifoInv, TypeOK, PopByte
<1>3. i = 0 /\ i' = 0 /\ Len(src') = 0
  BY IdleIsEnough DEF FifoInv, PopByte, Idle
<1>4. FifoCount \in 1 .. Cap - 1 /\ FifoCount' = FifoCount - 1
  <2>1. FifoCount' = IF tail' <= head' THEN head' - tail' ELSE head' - tail' + Cap
    BY <1>2, Distance DEF TypeOK, FifoCount
  <2>2. FifoCount = IF tail <= head THEN head - tail ELSE head - tail + Cap
    BY CountIs DEF FifoInv
  <2> QED BY <1>1, <2>1, <2>2 DEF FifoInv, TypeOK, PopByte
<1>5. ASSUME NEW k \in 0 .. FifoCount - 2
      PROVE  SlotAt(k)' = SlotAt(k + 1)
  <2>1. k \in 0 .. Cap /\ k + 1 \in 0 .. Cap /\ k < Cap - 1
    BY <1>4
  <2>2. SlotAt(k)' = IF tail' + k < Cap THEN tail' + k ELSE tail' + k - Cap
    BY <1>1, <2>1, AdvanceIs DEF SlotAt
  <2>3. SlotAt(k + 1) = IF tail + (k + 1) < Cap THEN tail + (k + 1) ELSE tail + (k + 1) - Cap
    BY <2>1, AdvanceIs DEF FifoInv, TypeOK, SlotAt
  <2> QED BY <1>1, <2>1, <2>2, <2>3 DEF FifoInv, TypeOK
<1> QED BY <1>2, <1>3, <1>4, <1>5

LEMMA FifoClearFacts ==
  ASSUME FifoInv, FifoClear
  PROVE  TypeOK' /\ FifoCount' = 0 /\ i' = 0 /\ Len(src') = 0
<1>1. i = 0 /\ i' = 0 /\ Len(src') = 0
  BY IdleIsEnough DEF FifoInv, FifoClear, Idle
<1>2. TypeOK'
  BY <1>1 DEF FifoInv, TypeOK, FifoClear
<1>3. FifoCount' = IF tail' <= head' THEN head' - tail' ELSE head' - tail' + Cap
  BY <1>2, Distance DEF TypeOK, FifoCount
<1> QED BY <1>1, <1>2, <1>3 DEF FifoInv, TypeOK, FifoClear

LEMMA NextKeepsFifoInv == FifoInv /\ [Next]_vars => FifoInv'
<1> SUFFICES ASSUME FifoInv, [Next]_vars PROVE FifoInv'
  OBVIOUS
<1>1. ASSUME NEW len \in 1 .. Cap, NEW buffer \in [1 .. len -> Byte], PushAccepted(buffer)
      PROVE  FifoInv'
  BY <1>1, PushAcceptedKeeps
<1>2. CASE PushByte
  BY <1>2, PushByteKeeps
<1>3. CASE PushDone
  BY <1>3, PushDoneKeeps
<1>4. CASE PopByte
  BY <1>4, PopByteFacts, CapAssumption DEF FifoInv, PushNeverOverruns, Pushed
<1>5. CASE FifoClear
  BY <1>5, FifoClearFacts, CapAssumption DEF FifoInv, PushNeverOverruns, Pushed
<1>6. CASE UNCHANGED vars
  <2>1. UNCHANGED <<buf, head, tail, src, i>>
    BY <1>6 DEF vars
  <2> QED BY <2>1 DEF FifoInv, TypeOK, PushNeverOverruns, Pushed, FifoCount, SlotAt
<1> QED BY <1>1, <1>2, <1>3, <1>4, <1>5, <1>6 DEF Next

\* The invariant holds in every reachable state.
THEOREM FifoInvariant == Spec => []FifoInv
BY FifoInit, NextKeepsFifoInv, PTL DEF Spec

\* Every variable keeps its type.
THEOREM FifoTypes == Spec => []TypeOK
<1>1. FifoInv => TypeOK  BY DEF FifoInv
<1> QED BY <1>1, FifoInvariant, PTL

\* The write index never catches up with the read index.
THEOREM FifoNeverOverruns == Spec => []PushNeverOverruns
<1>1. FifoInv => PushNeverOverruns  BY DEF FifoInv
<1> QED BY <1>1, FifoInvariant, PTL

-----------------------------------------------------------------------------
(* The refinement.                                                         *)

\* What a reader would see is a sequence of bytes, as long as the count says.
LEMMA ContentsType ==
  ASSUME FifoInv
  PROVE  /\ FifoCount - i \in Nat
         /\ Contents \in Seq(Byte)
         /\ Len(Contents) = FifoCount - i
         /\ \A k \in 1 .. FifoCount - i : Contents[k] = buf[SlotAt(k - 1)]
<1>1. FifoCount - i \in Nat /\ FifoCount - i <= Cap
  BY CountIs, CapAssumption DEF FifoInv, TypeOK, Pushed
<1>2. ASSUME NEW k \in 1 .. FifoCount - i
      PROVE  buf[SlotAt(k - 1)] \in Byte
  <2>1. k - 1 \in 0 .. Cap
    BY <1>1, CapAssumption
  <2>2. SlotAt(k - 1) \in 0 .. Cap - 1
    BY <2>1, AdvanceIs DEF FifoInv, TypeOK, SlotAt
  <2> QED BY <2>2 DEF FifoInv, TypeOK
<1>3. Contents \in [1 .. FifoCount - i -> Byte]
  BY <1>2 DEF Contents
<1>4. Contents \in Seq(Byte) /\ Len(Contents) = FifoCount - i
  BY <1>1, <1>3
<1> QED BY <1>1, <1>4 DEF Contents

\* A step that changes neither the number of complete bytes nor any of them.
LEMMA SameContents ==
  ASSUME FifoInv, FifoCount' - i' = FifoCount - i,
         \A k \in 0 .. FifoCount - i - 1 : buf'[SlotAt(k)'] = buf[SlotAt(k)]
  PROVE  Contents' = Contents
<1>1. FifoCount - i \in Nat
  BY ContentsType
<1>2. ASSUME NEW k \in 1 .. FifoCount - i
      PROVE  buf'[SlotAt(k - 1)'] = buf[SlotAt(k - 1)]
  BY <1>1
<1> QED BY <1>2 DEF Contents

LEMMA PushDoneIsPushAll ==
  ASSUME FifoInv, PushDone
  PROVE  Queue!PushAll
<1> USE CapAssumption
<1>1. /\ src \in Seq(Byte) /\ Len(src) \in Nat /\ Len(src) >= 1 /\ i = Len(src)
      /\ FifoCount \in 0 .. Cap - 1 /\ FifoCount - i \in Nat
  BY CountIs, ContentsType DEF FifoInv, TypeOK, PushDone, Idle
<1>2. Len(src) \in 1 .. Cap - 1 - Len(Contents) /\ src \in [1 .. Len(src) -> Byte]
  BY <1>1, ContentsType
<1>3. Contents' = Contents \o src
  <2> DEFINE old == FifoCount - i
             both == Contents \o src
  <2>0. ASSUME NEW k \in 1 .. old + Len(src)
        PROVE  both[k] = IF k <= old THEN Contents[k] ELSE src[k - old]
    BY <1>1, ContentsType, ConcatProperties
  <2>1. both \in Seq(Byte) /\ Len(both) = old + Len(src) /\ old \in Nat
    BY <1>1, ContentsType, ConcatProperties
  <2>2. both = [k \in 1 .. old + Len(src) |-> both[k]]
    <3>1. both \in [1 .. Len(both) -> Byte]
      BY <2>1, LenProperties
    <3> HIDE DEF both, old
    <3> QED BY <2>1, <3>1
  <2>3. Contents' = [k \in 1 .. old + Len(src) |-> buf[SlotAt(k - 1)]]
    <3>1. FifoCount' = FifoCount /\ i' = 0 /\ buf' = buf /\ tail' = tail
      BY DEF PushDone, FifoCount
    <3>2. FifoCount' - i' = old + Len(src)
      BY <1>1, <3>1
    <3> QED BY <3>1, <3>2 DEF Contents, SlotAt
  <2>4. ASSUME NEW k \in 1 .. old + Len(src)
        PROVE  both[k] = buf[SlotAt(k - 1)]
    <3>1. CASE k <= old
      <4>1. k \in 1 .. old /\ both[k] = Contents[k]
        BY <2>0, <2>1, <3>1
      <4> QED BY <4>1, ContentsType
    <3>2. CASE k > old
      <4>1. k - old \in 1 .. i /\ both[k] = src[k - old]
        BY <1>1, <2>0, <2>1, <3>2
      <4>2. old + (k - old) - 1 = k - 1
        BY <2>1
      <4> QED BY <4>1, <4>2 DEF FifoInv, Pushed
    <3> QED BY <2>1, <3>1, <3>2
  <2> HIDE DEF both, old
  <2>5. both = [k \in 1 .. old + Len(src) |-> buf[SlotAt(k - 1)]]
    BY <2>2, <2>4
  <2> QED BY <2>3, <2>5 DEF both
<1> QED BY <1>2, <1>3 DEF Queue!PushAll

LEMMA PopByteIsPop ==
  ASSUME FifoInv, PopByte
  PROVE  Queue!Pop
<1>1. /\ FifoCount \in Nat /\ FifoCount >= 1 /\ i = 0 /\ i' = 0
      /\ FifoCount' = FifoCount - 1 /\ buf' = buf
      /\ \A k \in 0 .. FifoCount - 2 : SlotAt(k)' = SlotAt(k + 1)
  BY PopByteFacts, CapAssumption DEF PopByte
<1>2. Contents \in Seq(Byte) /\ Len(Contents) = FifoCount
  BY <1>1, ContentsType
<1>3. Contents # <<>>
  BY <1>1, <1>2
<1>4. Tail(Contents) = [k \in 1 .. FifoCount - 1 |-> Contents[k + 1]]
  <2>1. /\ Tail(Contents) \in Seq(Byte) /\ Len(Tail(Contents)) = FifoCount - 1
        /\ \A k \in 1 .. FifoCount - 1 : Tail(Contents)[k] = Contents[k + 1]
    BY <1>2, <1>3, HeadTailProperties
  <2>2. Tail(Contents) \in [1 .. FifoCount - 1 -> Byte]
    BY <2>1, LenProperties
  <2> QED BY <2>1, <2>2
<1>5. ASSUME NEW k \in 1 .. FifoCount - 1
      PROVE  Contents[k + 1] = buf'[SlotAt(k - 1)']
  <2>1. k + 1 \in 1 .. FifoCount - i /\ k - 1 \in 0 .. FifoCount - 2 /\ (k + 1) - 1 = k /\ (k - 1) + 1 = k
    BY <1>1
  <2>2. Contents[k + 1] = buf[SlotAt((k + 1) - 1)]
    BY <2>1, ContentsType
  <2>3. SlotAt(k - 1)' = SlotAt((k - 1) + 1)
    BY <1>1, <2>1
  <2> QED BY <1>1, <2>1, <2>2, <2>3
<1>6. Contents' = [k \in 1 .. FifoCount - 1 |-> buf'[SlotAt(k - 1)']]
  <2>1. FifoCount' - i' = FifoCount - 1
    BY <1>1
  <2> QED BY <2>1 DEF Contents
<1>7. Contents' = Tail(Contents)
  BY <1>4, <1>5, <1>6
<1> QED BY <1>3, <1>7 DEF Queue!Pop

\* Every step of the FIFO is a step of the queue, or none.
LEMMA StepRefines == FifoInv /\ [Next]_vars => [Queue!Next]_Contents
<1> SUFFICES ASSUME FifoInv, [Next]_vars PROVE Queue!Next \/ Contents' = Contents
  OBVIOUS
<1>1. ASSUME NEW len \in 1 .. Cap, NEW buffer \in [1 .. len -> Byte], PushAccepted(buffer)
      PROVE  Contents' = Contents
  BY <1>1 DEF PushAccepted, Contents, FifoCount, SlotAt
<1>2. CASE PushByte
  <2>1. FifoCount' - i' = FifoCount - i
    BY <1>2, PushByteFacts, CapAssumption DEF PushByte
  <2>2. ASSUME NEW k \in 0 .. FifoCount - i - 1
        PROVE  buf'[SlotAt(k)'] = buf[SlotAt(k)]
    <3>1. k \in 0 .. FifoCount - 1
      BY <1>2, PushByteFacts, CapAssumption
    <3>2. SlotAt(k)' = SlotAt(k)
      BY <1>2 DEF SlotAt, PushByte
    <3> QED BY <1>2, <3>1, <3>2, PushByteFacts
  <2> QED BY <2>1, <2>2, SameContents
<1>3. CASE PushDone
  BY <1>3, PushDoneIsPushAll DEF Queue!Next
<1>4. CASE PopByte
  BY <1>4, PopByteIsPop DEF Queue!Next
<1>5. CASE FifoClear
  <2>1. FifoCount' - i' = 0
    BY <1>5, FifoClearFacts
  <2>2. Contents' = <<>>
    BY <2>1 DEF Contents
  <2> QED BY <2>2 DEF Queue!Next, Queue!Clear
<1>6. CASE UNCHANGED vars
  BY <1>6 DEF vars, Contents, FifoCount, SlotAt
<1> QED BY <1>1, <1>2, <1>3, <1>4, <1>5, <1>6 DEF Next

\* The FIFO is a queue: whole buffers or nothing, first in first out.
THEOREM FifoRefinesQueue == Spec => FifoImplementsQueue
<1>1. Init => Queue!Init
  <2> SUFFICES ASSUME Init PROVE Contents = <<>>
    BY DEF Queue!Init
  <2>1. FifoCount - i = 0
    <3>1. FifoCount = 0 /\ i = 0
      BY FifoInit, CountIs, CapAssumption DEF Init, FifoInv
    <3> QED BY <3>1
  <2> QED BY <2>1 DEF Contents
<1> QED BY <1>1, StepRefines, FifoInvariant, PTL DEF Spec, FifoImplementsQueue, Queue!Spec
=============================================================================
