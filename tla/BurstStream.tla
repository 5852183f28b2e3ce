---------------------------- MODULE BurstStream ----------------------------
(***************************************************************************)
(* What the relay promises (relay.h:24-32), without rings, indices, marks  *)
(* or a poll loop: the bytes of the target are handed on in order and once,*)
(* grouped in bursts, every frame inside one burst and stamped with the    *)
(* arrival time of the first byte of that burst; a byte is given up only   *)
(* when there is no room, a burst boundary only when too many bursts are   *)
(* waiting, and both are counted.                                          *)
(*                                                                         *)
(* Idleness is measured in true microseconds here; only the stamps and the *)
(* loss counter have the width they have on the wire.                      *)
(***************************************************************************)
EXTENDS Integers, Sequences

CONSTANTS
  Byte,       \* what a target byte can be
  Room,       \* bytes that can wait
  Boundaries, \* burst boundaries that can wait
  MaxChunk,   \* most bytes in a frame
  GapUs,      \* longest idle gap inside a burst
  TsMod, DropMod,   \* widths of a stamp and of the loss counter
  Gaps,       \* microseconds between two events on the target line
  MaxIdle     \* bound: longest idleness considered

VARIABLES
  bursts,     \* waiting bytes: sequence of [ts, data], oldest first
  stamp,      \* stamp of the burst the last accepted byte belongs to
  started,    \* a byte was accepted before
  quiet,      \* true microseconds since the last accepted byte
  clock,      \* the timestamp counter
  lost        \* loss counter

vars == <<bursts, stamp, started, quiet, clock, lost>>

\* Number of bytes waiting.
Waiting == LET queue == bursts
               upTo[i \in 0 .. Len(queue)] ==
                 IF i = 0 THEN 0 ELSE upTo[i - 1] + Len(queue[i].data)
           IN  upTo[Len(queue)]

Init ==
  /\ bursts = <<>> /\ stamp = 0 /\ started = FALSE
  /\ quiet = 0 /\ clock = 0 /\ lost = 0

Lose(k)     == lost' = (lost + k) % DropMod
Pass(gap)   == clock' = (clock + gap) % TsMod
Idle(gap)   == IF started THEN quiet + gap ELSE 0
Opens(gap)  == ~started \/ quiet + gap > GapUs

\* Time passes and nothing is accepted: a byte finds no room, or is damaged
\* on the line.
Refuse(gap, err) ==
  /\ Pass(gap) /\ quiet' = Idle(gap)
  /\ Lose(err + 1)
  /\ Waiting = Room
  /\ UNCHANGED <<bursts, stamp, started>>

Damage(gap) ==
  /\ Pass(gap) /\ quiet' = Idle(gap)
  /\ Lose(1)
  /\ UNCHANGED <<bursts, stamp, started>>

Accept(gap) ==
  /\ Pass(gap) /\ quiet' = 0 /\ started' = TRUE
  /\ Waiting < Room

\* The waiting bytes with one more in the burst stamped ts that is under way.
Extended(byte, ts) ==
  IF bursts = <<>> THEN <<[ts |-> ts, data |-> <<byte>>]>>
  ELSE [bursts EXCEPT ![Len(bursts)].data = Append(@, byte)]

Continue(byte, gap, err) ==
  /\ ~Opens(gap) /\ Lose(err) /\ Accept(gap)
  /\ bursts' = Extended(byte, stamp)
  /\ UNCHANGED stamp

Open(byte, gap, err) ==
  /\ Opens(gap) /\ Lose(err) /\ Accept(gap)
  /\ stamp' = clock'
  /\ bursts' = Append(bursts, [ts |-> clock', data |-> <<byte>>])

\* Too many boundaries wait: this one is given up, and counted.
Merge(byte, gap, err) ==
  /\ Opens(gap) /\ Lose(err + 1) /\ Accept(gap)
  /\ Len(bursts) >= Boundaries
  /\ bursts' = Extended(byte, stamp)
  /\ UNCHANGED stamp

\* Hand on the first k bytes of the oldest burst, in one frame stamped b.ts.
HandOn(k) ==
  /\ bursts # <<>>
  /\ UNCHANGED <<stamp, started, quiet, clock, lost>>
  /\ LET size == Len(Head(bursts).data) IN
       /\ k <= size
       /\ bursts' = IF k = size THEN Tail(bursts)
                    ELSE [bursts EXCEPT ![1].data = SubSeq(@, k + 1, size)]

Arrive(gap) ==
  /\ Idle(gap) <= MaxIdle
  /\ \/ Damage(gap)
     \/ \E err \in {0, 1} :
          \/ Refuse(gap, err)
          \/ \E byte \in Byte : \/ Continue(byte, gap, err)
                                \/ Open(byte, gap, err)
                                \/ Merge(byte, gap, err)

Next == (\E gap \in Gaps : Arrive(gap)) \/ (\E k \in 1 .. MaxChunk : HandOn(k))

Spec == Init /\ [][Next]_vars
=============================================================================
