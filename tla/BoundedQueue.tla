--------------------------- MODULE BoundedQueue ----------------------------
(***************************************************************************)
(* What bytefifo.h promises: a queue of at most Room bytes that takes a    *)
(* whole buffer or nothing of it, hands bytes out in order, and can be     *)
(* emptied at once.                                                        *)
(***************************************************************************)
EXTENDS Integers, Sequences

CONSTANTS
  Byte,      \* the values a byte can take
  Room       \* bytes the queue can hold

VARIABLE queue

Init == queue = <<>>

\* A buffer that fits is taken whole; one that does not leaves no trace.
PushAll == \E k \in 1 .. Room - Len(queue) : \E buffer \in [1 .. k -> Byte] :
             queue' = queue \o buffer

Pop == queue # <<>> /\ queue' = Tail(queue)

Clear == queue' = <<>>

Next == PushAll \/ Pop \/ Clear

Spec == Init /\ [][Next]_queue
=============================================================================
