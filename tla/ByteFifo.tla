----------------------------- MODULE ByteFifo ------------------------------
(***************************************************************************)
(* The transmit FIFO, src/bytefifo.h: a ring of Cap slots with a read and  *)
(* a write index, one slot kept free.  The push loop is one step per byte. *)
(* Push and pop run in one thread, as bytefifo.h:8-9 requires: no pop and  *)
(* no clear comes between the bytes of a push.                             *)
(***************************************************************************)
EXTENDS Integers, Sequences

CONSTANTS
  Byte,    \* the values a byte can take
  Cap      \* f->cap, the size of the storage

ASSUME CapAssumption == Cap \in Nat /\ Cap >= 2

VARIABLES
  buf, head, tail,   \* f->buf, f->head, f->tail
  src, i             \* bytefifo_push_all under way: its buffer, its loop index

vars == <<buf, head, tail, src, i>>

Idle == src = <<>>

\* Fault: no slot is kept free.
FifoFreeAll == Cap - ((head - tail + Cap) % Cap)

\* bytefifo_count and bytefifo_free
FifoCount == (head - tail + Cap) % Cap
FifoFree  == Cap - 1 - FifoCount

Init == /\ \E b \in Byte : buf = [k \in 0 .. Cap - 1 |-> b]
        /\ head = 0 /\ tail = 0
        /\ src = <<>> /\ i = 0

\* bytefifo_push_all: the check; a buffer that does not fit changes nothing.
PushAccepted(buffer) ==
  /\ Idle
  /\ Len(buffer) <= FifoFree
  /\ src' = buffer
  /\ UNCHANGED <<buf, head, tail, i>>

\* Fault: the write index does not wrap.
PushByteOn ==
  /\ i < Len(src)
  /\ buf' = [buf EXCEPT ![head] = src[i + 1]]
  /\ head' = head + 1
  /\ i' = i + 1
  /\ UNCHANGED <<tail, src>>

\* One turn of the loop, and its end.
PushByte ==
  /\ i < Len(src)
  /\ buf' = [buf EXCEPT ![head] = src[i + 1]]
  /\ head' = (head + 1) % Cap
  /\ i' = i + 1
  /\ UNCHANGED <<tail, src>>

PushDone ==
  /\ ~Idle /\ i = Len(src)
  /\ src' = <<>> /\ i' = 0
  /\ UNCHANGED <<buf, head, tail>>

\* bytefifo_pop
PopByte ==
  /\ Idle
  /\ head # tail
  /\ tail' = (tail + 1) % Cap
  /\ UNCHANGED <<buf, head, src, i>>

\* Fault: the read index goes back to the start of the storage.
FifoClearToStart ==
  /\ Idle
  /\ tail' = 0
  /\ UNCHANGED <<buf, head, src, i>>

\* bytefifo_clear
FifoClear ==
  /\ Idle
  /\ tail' = head
  /\ UNCHANGED <<buf, head, src, i>>

\* Buffers of 1 to Cap bytes: the longest ones never fit.
Next == \/ \E len \in 1 .. Cap : \E buffer \in [1 .. len -> Byte] : PushAccepted(buffer)
        \/ PushByte \/ PushDone \/ PopByte \/ FifoClear

Spec == Init /\ [][Next]_vars

-----------------------------------------------------------------------------
(* Properties.                                                             *)

\* Both indices stay inside the storage, the local i inside what is pushed.
TypeOK ==
  /\ buf \in [0 .. Cap - 1 -> Byte]
  /\ head \in 0 .. Cap - 1
  /\ tail \in 0 .. Cap - 1
  /\ src \in Seq(Byte)
  /\ i \in 0 .. Len(src)

\* While a buffer is pushed there is room for what is left of it, so head
\* never catches up with tail, which would read as an empty FIFO.
PushNeverOverruns == FifoCount + (Len(src) - i) <= Cap - 1

\* The byte k places behind the read index.
SlotAt(k) == (tail + k) % Cap

\* What a reader would see: the bytes of the pushes that are complete.
Contents == [k \in 1 .. FifoCount - i |-> buf[SlotAt(k - 1)]]

Queue == INSTANCE BoundedQueue WITH Room <- Cap - 1, queue <- Contents

\* All or nothing, first in first out, never more than Cap - 1 bytes: the two
\* indices and the reused slots behave as a queue (bytefifo.h:2, :42-43).
FifoImplementsQueue == Queue!Spec
=============================================================================
