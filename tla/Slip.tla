-------------------------------- MODULE Slip --------------------------------
(***************************************************************************)
(* The wire: emit() of src/relay.c turns a frame into bytes, a line hands  *)
(* them to the Deframer of tools/relay_decode.py, which may start to       *)
(* listen in the middle, and the line may lose, change or add a byte.      *)
(*                                                                         *)
(* Bytes and the CRC are the real ones: what tells a frame from damage is  *)
(* in their values.  The line holds symbols, the one or two bytes that     *)
(* stuffing makes of one; a symbol also carries, for the properties alone, *)
(* its frame and its place there.                                          *)
(***************************************************************************)
EXTENDS Integers, SequencesExt

CONSTANTS
  ByteXor,     \* exclusive or, as a table
  Payloads,    \* what is sent: [type, arg]
  Room,        \* free bytes of an empty transmit FIFO
  Noise,       \* bytes that damage may put on the line
  MaxFrames,   \* bound: frames sent
  MaxDamage    \* bound: bytes damaged

Octet == 0 .. 255

FLAG     == 126     \* 0x7E
ESC      == 125     \* 0x7D
ESC_FLAG == 94      \* 0x5E
ESC_ESC  == 93      \* 0x5D

\* No TYPE needs an escape (relay.h:44-45); an argument begins with the four
\* bytes of a time or a count, and LEN is one byte (relay.c:34, relay.c:121).
ASSUME PayloadsAssumption ==
  \A p \in Payloads : /\ p.type \in Octet /\ p.arg \in Seq(Octet)
                      /\ p.type \notin {FLAG, ESC}
                      /\ Len(p.arg) >= 4 /\ Len(p.arg) \in Octet

ASSUME NoiseAssumption == Noise \subseteq Octet

\* What is used of exclusive or: it undoes itself, and 7 is odd.
ASSUME XorAssumption ==
  /\ ByteXor \in [Octet -> [Octet -> Octet]]
  /\ \A a, b \in Octet : ByteXor[ByteXor[a][b]][b] = a /\ ByteXor[a][ByteXor[a][b]] = b
  /\ \A a \in Octet : ByteXor[a][7] % 2 # a % 2

VARIABLES
  s_seq, wire,                \* the relay, and symbols under way
  in, esc, bad, buf,          \* the Deframer
  decoded,                    \* the frames it has yielded, errors aside
  listening,                  \* somebody feeds it
  \* history: frames sent; those of which a byte was missed or damaged; those
  \* damaged between their flags; damage before LEN changed its place
  sent, spoilt, hurt, shifted, damages

decoderVars == <<in, esc, bad, buf, decoded>>
historyVars == <<spoilt, hurt, shifted, damages>>
vars == <<s_seq, wire, decoderVars, listening, sent, historyVars>>

Init ==
  /\ s_seq = 0 /\ wire = <<>>
  /\ in = FALSE /\ esc = FALSE /\ bad = FALSE /\ buf = <<>>
  /\ decoded = <<>> /\ listening = FALSE
  /\ sent = <<>> /\ spoilt = {} /\ hurt = {} /\ shifted = FALSE /\ damages = 0

-----------------------------------------------------------------------------
(* CRC-8, polynomial 0x07.                                                 *)

ShiftOut(c) == IF c >= 128 THEN ByteXor[(2 * c) % 256][7] ELSE 2 * c

Crc8Table == [c \in Octet |->
  ShiftOut(ShiftOut(ShiftOut(ShiftOut(ShiftOut(ShiftOut(ShiftOut(ShiftOut(c))))))))]

Crc8(bytes) == LET data == bytes
                   crc[i \in 0 .. Len(data)] ==
                     IF i = 0 THEN 0 ELSE Crc8Table[ByteXor[crc[i - 1]][data[i]]]
               IN  crc[Len(data)]

-----------------------------------------------------------------------------
(* The encoder.                                                            *)

Stuff(b) == CASE b = FLAG -> <<ESC, ESC_FLAG>>
              [] b = ESC  -> <<ESC, ESC_ESC>>
              [] OTHER    -> <<b>>

Inner(f) == LET body == <<f.type, f.seq, Len(f.arg)>> \o f.arg
            IN  Append(body, Crc8(body))

\* Frame f, the k-th, on the line: between two flags, each byte stuffed.
Encode(f, k) ==
  LET inner == Inner(f)
      octets(at) == IF at \in DOMAIN inner THEN Stuff(inner[at]) ELSE <<FLAG>>
  IN  [i \in 1 .. Len(inner) + 2 |-> [octets |-> octets(i - 1), frame |-> k, at |-> i - 1]]

Octets(symbols) == FoldLeft(LAMBDA n, symbol : n + Len(symbol.octets), 0, symbols)

\* Fault: SEQ is the same for every frame.
EmitSameSeq(f) ==
  LET enc == Encode(f, Len(sent) + 1) IN
    /\ Octets(wire) + Octets(enc) <= Room
    /\ wire' = wire \o enc
    /\ sent' = Append(sent, f)
    /\ UNCHANGED <<s_seq, decoderVars, listening, historyVars>>

\* emit: all of the frame, or none of it and SEQ stays.
EmitTaken(f) ==
  LET enc == Encode(f, Len(sent) + 1) IN
    /\ Octets(wire) + Octets(enc) <= Room
    /\ wire' = wire \o enc
    /\ sent' = Append(sent, f)
    /\ s_seq' = (s_seq + 1) % 256
    /\ UNCHANGED <<decoderVars, listening, historyVars>>

EmitRefused(f) ==
  /\ Octets(wire) + Octets(Encode(f, 0)) > Room
  /\ UNCHANGED vars

Emit == /\ Len(sent) < MaxFrames
        /\ \E p \in Payloads : LET f == [type |-> p.type, seq |-> s_seq, arg |-> p.arg]
                               IN  EmitTaken(f) \/ EmitRefused(f)

-----------------------------------------------------------------------------
(* The decoder: Deframer.feed, one byte at a time.                         *)

\* _decode raises no error.
Accepted(inner) ==
  LET body == Front(inner) IN
    /\ Len(inner) >= 5
    /\ Crc8(body) = Last(inner)
    /\ body[3] + 3 = Len(body) /\ body[3] >= 4

Decode(inner) == [type |-> inner[1], seq |-> inner[2], arg |-> SubSeq(inner, 4, Len(inner) - 1)]

\* Fault: a flag that ends a frame does not begin the next.
FeedFlagCloses(b) ==
  /\ b = FLAG
  /\ decoded' = IF in /\ buf # <<>> /\ ~bad /\ ~esc /\ Accepted(buf)
                  THEN Append(decoded, Decode(buf)) ELSE decoded
  /\ buf' = <<>> /\ in' = ~in /\ esc' = FALSE /\ bad' = FALSE

FeedFlag(b) ==
  /\ b = FLAG
  /\ decoded' = IF in /\ buf # <<>> /\ ~bad /\ ~esc /\ Accepted(buf)
                  THEN Append(decoded, Decode(buf)) ELSE decoded
  /\ buf' = <<>> /\ in' = TRUE /\ esc' = FALSE /\ bad' = FALSE

FeedOutside(b) == b # FLAG /\ ~in /\ UNCHANGED decoderVars

\* Fault: an escape after an escape is taken for the only one.
FeedEscapedRearms(b) ==
  /\ b # FLAG /\ in /\ esc
  /\ buf' = CASE b = ESC_FLAG -> Append(buf, FLAG)
              [] b = ESC_ESC  -> Append(buf, ESC)
              [] OTHER        -> buf
  /\ bad' = (bad \/ b \notin {ESC, ESC_FLAG, ESC_ESC})
  /\ esc' = (b = ESC)
  /\ UNCHANGED <<in, decoded>>

FeedEscaped(b) ==
  /\ b # FLAG /\ in /\ esc
  /\ buf' = CASE b = ESC_FLAG -> Append(buf, FLAG)
              [] b = ESC_ESC  -> Append(buf, ESC)
              [] OTHER        -> buf
  /\ bad' = (bad \/ b \notin {ESC_FLAG, ESC_ESC})
  /\ esc' = FALSE
  /\ UNCHANGED <<in, decoded>>

FeedEscape(b) ==
  /\ b = ESC /\ in /\ ~esc
  /\ esc' = TRUE
  /\ UNCHANGED <<in, bad, buf, decoded>>

FeedPlain(b) ==
  /\ b \notin {FLAG, ESC} /\ in /\ ~esc
  /\ buf' = Append(buf, b)
  /\ UNCHANGED <<in, esc, bad, decoded>>

Feed(b) == \/ FeedFlag(b) \/ FeedOutside(b) \/ FeedEscaped(b)
           \/ FeedEscape(b) \/ FeedPlain(b)

-----------------------------------------------------------------------------
(* The line (external).                                                    *)

\* The symbol under way, its next byte, and the line without that byte.
Symbol == Head(wire)
Byte   == Head(Symbol.octets)
Rest   == IF Len(Symbol.octets) = 1 THEN Tail(wire) ELSE [wire EXCEPT ![1].octets = Tail(@)]

Open == /\ ~listening /\ listening' = TRUE
        /\ UNCHANGED <<s_seq, wire, decoderVars, sent, historyVars>>

\* A byte nobody listens to.
Miss ==
  /\ ~listening /\ wire # <<>>
  /\ wire' = Rest
  /\ spoilt' = spoilt \cup {Symbol.frame}
  /\ UNCHANGED <<s_seq, decoderVars, listening, sent, hurt, shifted, damages>>

Deliver ==
  /\ listening /\ wire # <<>>
  /\ Feed(Byte)
  /\ wire' = Rest
  /\ UNCHANGED <<s_seq, listening, sent, historyVars>>

\* Damage at the next byte: which frame it spoils, and whether LEN moves.
BeforeLen == Symbol.at \in 1 .. 3
Inside    == Symbol.at \in 1 .. Len(sent[Symbol.frame].arg) + 4
OnlyIf(yes) == IF yes THEN {Symbol.frame} ELSE {}

Damage(spoils, hurts, moves) ==
  /\ damages < MaxDamage /\ damages' = damages + 1
  /\ spoilt' = spoilt \cup OnlyIf(spoils)
  /\ hurt' = hurt \cup OnlyIf(hurts)
  /\ shifted' = (shifted \/ moves)
  /\ UNCHANGED <<s_seq, listening, sent>>

LoseByte ==
  /\ listening /\ wire # <<>>
  /\ wire' = Rest
  /\ Damage(TRUE, Inside, BeforeLen)
  /\ UNCHANGED decoderVars

\* In place of the first flag, a byte more comes before LEN.
ChangeByte(b) ==
  /\ listening /\ wire # <<>> /\ b # Byte
  /\ Feed(b)
  /\ wire' = Rest
  /\ Damage(TRUE, Inside, \/ Symbol.at = 0
                          \/ BeforeLen /\ (b \in {FLAG, ESC} \/ Byte = ESC))

\* Between two frames it spoils neither.  A flag more before TYPE, at the head
\* of a frame, does not hurt it; further in it cuts the frame in two.
AddByte(b) ==
  /\ listening /\ wire # <<>>
  /\ Feed(b)
  /\ Damage(Symbol.at # 0, Inside /\ (b = FLAG => Symbol.at > 1), BeforeLen)
  /\ UNCHANGED wire

Line == \/ Open \/ Miss \/ Deliver \/ LoseByte
        \/ \E b \in Noise : ChangeByte(b) \/ AddByte(b)

Next == Emit \/ Line

Spec == Init /\ [][Next]_vars

-----------------------------------------------------------------------------
(* Properties.                                                             *)

\* Ways to see what was decoded as a part of what was sent, in order and once,
\* each frame at a place its SEQ tells.
Places ==
  {at \in [DOMAIN decoded -> DOMAIN sent] :
     \A j \in DOMAIN decoded : /\ decoded[j] = sent[at[j]]
                              /\ decoded[j].seq = (at[j] - 1) % 256
                              /\ \A i \in 1 .. j - 1 : at[i] < at[j]}

\* What is decoded was sent, with the SEQ that tells its place, in order and
\* once: a refused frame takes no SEQ, a stream joined in the middle yields no
\* frame of its own, and damage makes none.  If damage moves LEN there is
\* nothing but the CRC, which one frame in 256 passes by chance.
DecodedWasSent == ~shifted => Places # {}

\* A frame damaged between its flags is never yielded, not even if the damage
\* happens to decode to what was sent ("malformed double-escape must be
\* rejected, not normalized into a valid frame", relay_decode.py:160).
DamageRejected == ~shifted => \E at \in Places : \A j \in DOMAIN decoded : at[j] \notin hurt

\* A frame of which every byte came, flags included, is yielded, whatever was
\* on the line before it ("doesn't desync the next frame", relay_decode.py:151).
IntactDecoded ==
  wire = <<>> => \A k \in DOMAIN sent :
    k \notin spoilt => \E j \in DOMAIN decoded : decoded[j] = sent[k]
=============================================================================
