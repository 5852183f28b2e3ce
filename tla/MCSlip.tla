------------------------------- MODULE MCSlip -------------------------------
(***************************************************************************)
(* Slip for TLC: a STATUS whose CRC is a FLAG or an ESC for some SEQ, and  *)
(* data frames with a FLAG, an ESC and what follows them in an escape.     *)
(***************************************************************************)
EXTENDS Slip, Bitwise

MCXor == [a \in Octet |-> [b \in Octet |-> a ^^ b]]

MCPayloads == {[type |-> 241, arg |-> <<51, 0, 0, 0>>],
               [type |-> 241, arg |-> <<214, 0, 0, 0>>],
               [type |-> 240, arg |-> <<126, 93, 0, 0, 125, 94>>],
               [type |-> 240, arg |-> <<1, 0, 0, 0, 125>>]}

MCNoise == {0, 240, FLAG, ESC, ESC_FLAG, ESC_ESC}

\* Both ends share one test vector, relay_decode.py:125-128.
ASSUME GoldenFrame ==
  LET line == Encode([type |-> 240, seq |-> 0, arg |-> <<0, 1, 0, 0, 126, 125, 66>>], 1)
  IN  FlattenSeq([i \in DOMAIN line |-> line[i].octets]) =
        <<126, 240, 0, 7, 0, 1, 0, 0, 125, 94, 125, 93, 66, 226, 126>>
=============================================================================
