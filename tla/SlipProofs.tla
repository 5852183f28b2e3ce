----------------------------- MODULE SlipProofs -----------------------------
(***************************************************************************)
(* Proofs about Slip: the line, the frames that come through whole, and    *)
(* the damage that is found out, for every set of payloads, size of FIFO,  *)
(* noise and number of frames.                                             *)
(*                                                                         *)
(* 1. The CRC.  What XorAssumption says of exclusive or is enough for      *)
(*    ShiftOut and the table to be one-to-one, so two sequences of one     *)
(*    length that differ in one byte have different CRCs                   *)
(*    (CrcTellsOneByte), and a frame with one byte changed is rejected.    *)
(* 2. The line (LineInv).  What is under way is the rest of what was sent, *)
(*    so the next byte has a frame (Current), a place there (Place) and a  *)
(*    half, and leaves in one of five ways (ByteLeaves).                   *)
(* 3. Intact frames (IntactInv).  The decoder has collected exactly the    *)
(*    frame under way up to its place, if nothing of it was spoilt.        *)
(* 4. Damage (DamageInv).  The decoder is outside, or follows the frame    *)
(*    exactly, or, once damage is spent, holds what it will reject: bad is *)
(*    set, or the length disagrees with LEN, or one byte is changed, or an *)
(*    escape is lost or stray.  What it has decoded is found among the     *)
(*    frames before, none of them hurt (Matched).                          *)
(*                                                                         *)
(* Part 4 is about one byte of damage (OneByte): two can cancel out, and   *)
(* nothing in the code stands against that but the odds of an 8-bit CRC.   *)
(***************************************************************************)
EXTENDS Slip, ArithmeticFacts, SequenceTheorems

\* A byte is a number from 0 to 255.
LEMMA OctetIs == \A x : x \in Octet <=> x \in Int /\ 0 <= x /\ x <= 255
BY DEF Octet

\* A frame as emit builds it.
Frame == {f \in [type : Octet, seq : Octet, arg : Seq(Octet)] :
            Len(f.arg) >= 4 /\ Len(f.arg) \in Octet}

-----------------------------------------------------------------------------
(* The CRC tells two sequences of one length that differ in one byte.      *)

\* Shifting one bit out of the register gives a byte.
LEMMA ShiftOutType ==
  ASSUME NEW c \in Octet
  PROVE  ShiftOut(c) \in Octet
<1>1. CASE c >= 128
  <2>1. PICK r \in Int : r = 256
    OBVIOUS
  <2>2. (2 * c) % 256 \in 0 .. r - 1
    <3>1. 2 * c \in Int /\ r \in Nat \ {0}
      BY <2>1, OctetIs
    <3>2. (2 * c) % r \in 0 .. r - 1
      BY <3>1, DivMod
    <3> QED BY <2>1, <3>2
  <2>3. (2 * c) % 256 \in Octet /\ 7 \in Octet
    BY <2>1, <2>2, OctetIs
  <2> QED BY <1>1, <2>3, XorAssumption DEF ShiftOut
<1>2. CASE ~(c >= 128)
  BY <1>2, OctetIs DEF ShiftOut
<1> QED BY <1>1, <1>2

\* The register shifted is even, or, if a bit fell out, the even rest with 7.
LEMMA ShiftOutIs ==
  ASSUME NEW c \in Octet
  PROVE  IF c >= 128 THEN 2 * c - 256 \in Octet /\ ShiftOut(c) = ByteXor[2 * c - 256][7]
                     ELSE 2 * c \in Octet /\ ShiftOut(c) = 2 * c
<1>1. CASE c >= 128
  <2>1. PICK r \in Int : r = 256
    OBVIOUS
  <2>2. 2 * c = 1 * r + (2 * c - r) /\ 2 * c - r \in 0 .. r - 1 /\ r \in Nat \ {0}
    BY <1>1, <2>1, OctetIs
  <2>3. (2 * c) % r = 2 * c - r
    BY <2>2, ModUnique, OctetIs
  <2>4. ShiftOut(c) = ByteXor[(2 * c) % r][7]
    BY <1>1, <2>1 DEF ShiftOut
  <2>5. 2 * c - 256 \in Octet
    BY <2>1, <2>2, OctetIs
  <2> QED BY <1>1, <2>1, <2>3, <2>4, <2>5
<1>2. CASE ~(c >= 128)
  BY <1>2, OctetIs DEF ShiftOut
<1> QED BY <1>1, <1>2

\* What is twice a number is even.
LEMMA TwiceIsEven ==
  ASSUME NEW n \in Int
  PROVE  (2 * n) % 2 = 0
<1>1. PICK r \in Int, m \in Int, z \in Int : r = 2 /\ m = 2 * n /\ z = 0
  OBVIOUS
<1>2. r \in Nat \ {0} /\ z \in 0 .. r - 1 /\ m = n * r + z
  BY <1>1
<1>3. m % r = z
  BY <1>2, ModUnique
<1> QED BY <1>1, <1>3

\* No two registers shift to the same one: the polynomial's constant term is 1.
LEMMA ShiftOutInjective ==
  ASSUME NEW c \in Octet, NEW d \in Octet, ShiftOut(c) = ShiftOut(d)
  PROVE  c = d
<1>0. c \in Int /\ d \in Int /\ 7 \in Octet
  BY OctetIs
<1>1. CASE c >= 128 /\ d >= 128
  <2>1. ByteXor[2 * c - 256][7] = ByteXor[2 * d - 256][7]
    BY <1>1, ShiftOutIs
  <2>2. 2 * c - 256 \in Octet /\ 2 * d - 256 \in Octet
    BY <1>1, ShiftOutIs
  <2>3. \A a \in Octet : ByteXor[ByteXor[a][7]][7] = a
    BY <1>0, XorAssumption
  <2>4. 2 * c - 256 = 2 * d - 256
    <3> DEFINE x == 2 * c - 256
               y == 2 * d - 256
    <3> HIDE DEF x, y
    <3>1. x \in Octet /\ y \in Octet /\ ByteXor[x][7] = ByteXor[y][7]
      BY <2>1, <2>2 DEF x, y
    <3>2. ByteXor[ByteXor[x][7]][7] = x /\ ByteXor[ByteXor[y][7]][7] = y
      BY <2>3, <3>1
    <3>3. x = y
      BY <3>1, <3>2
    <3> QED BY <3>3 DEF x, y
  <2> QED BY <1>0, <2>4
<1>2. CASE ~(c >= 128) /\ ~(d >= 128)
  BY <1>0, <1>2, ShiftOutIs
<1>3. ASSUME NEW a \in Octet, NEW b \in Octet, a >= 128, ~(b >= 128),
             ShiftOut(a) = ShiftOut(b)
      PROVE  FALSE
  <2>0. a \in Int /\ b \in Int
    BY OctetIs
  <2>1. PICK x \in Int : x = 2 * a - 256
    BY <2>0
  <2>2. x \in Octet /\ ByteXor[x][7] = 2 * b
    BY <1>3, <2>1, ShiftOutIs
  <2>3. ByteXor[x][7] % 2 # x % 2
    BY <2>2, XorAssumption
  <2>4. x % 2 = 0
    <3>1. PICK y \in Int : y = a - 128
      BY <2>0
    <3>2. x = 2 * y
      BY <2>0, <2>1, <3>1
    <3> QED BY <3>2, TwiceIsEven
  <2>5. (2 * b) % 2 = 0
    BY <2>0, TwiceIsEven
  <2> QED BY <2>2, <2>3, <2>4, <2>5
<1> QED BY <1>0, <1>1, <1>2, <1>3

\* The table of crc8 maps bytes to bytes, no two to the same.
LEMMA TableFacts ==
  /\ \A c \in Octet : Crc8Table[c] \in Octet
  /\ \A c, d \in Octet : Crc8Table[c] = Crc8Table[d] => c = d
<1>1. ASSUME NEW c \in Octet
      PROVE  Crc8Table[c] \in Octet
  BY ShiftOutType DEF Crc8Table
<1>2. ASSUME NEW c \in Octet, NEW d \in Octet, Crc8Table[c] = Crc8Table[d]
      PROVE  c = d
  <2> DEFINE c1 == ShiftOut(c)   d1 == ShiftOut(d)
             c2 == ShiftOut(c1)  d2 == ShiftOut(d1)
             c3 == ShiftOut(c2)  d3 == ShiftOut(d2)
             c4 == ShiftOut(c3)  d4 == ShiftOut(d3)
             c5 == ShiftOut(c4)  d5 == ShiftOut(d4)
             c6 == ShiftOut(c5)  d6 == ShiftOut(d5)
             c7 == ShiftOut(c6)  d7 == ShiftOut(d6)
  <2>0. ShiftOut(c7) = ShiftOut(d7)
    BY <1>2 DEF Crc8Table
  <2>1. c1 \in Octet /\ d1 \in Octet
    BY ShiftOutType
  <2>2. c2 \in Octet /\ d2 \in Octet /\ (c2 = d2 => c1 = d1)
    <3> HIDE DEF c1, d1
    <3> QED BY <2>1, ShiftOutType, ShiftOutInjective
  <2>3. c3 \in Octet /\ d3 \in Octet /\ (c3 = d3 => c2 = d2)
    <3> HIDE DEF c2, d2
    <3> QED BY <2>2, ShiftOutType, ShiftOutInjective
  <2>4. c4 \in Octet /\ d4 \in Octet /\ (c4 = d4 => c3 = d3)
    <3> HIDE DEF c3, d3
    <3> QED BY <2>3, ShiftOutType, ShiftOutInjective
  <2>5. c5 \in Octet /\ d5 \in Octet /\ (c5 = d5 => c4 = d4)
    <3> HIDE DEF c4, d4
    <3> QED BY <2>4, ShiftOutType, ShiftOutInjective
  <2>6. c6 \in Octet /\ d6 \in Octet /\ (c6 = d6 => c5 = d5)
    <3> HIDE DEF c5, d5
    <3> QED BY <2>5, ShiftOutType, ShiftOutInjective
  <2>7. c7 \in Octet /\ d7 \in Octet /\ (c7 = d7 => c6 = d6)
    <3> HIDE DEF c6, d6
    <3> QED BY <2>6, ShiftOutType, ShiftOutInjective
  <2>8. c7 = d7
    <3> HIDE DEF c7, d7
    <3> QED BY <2>0, <2>7, ShiftOutInjective
  <2>9. c1 = d1
    <3> HIDE DEF c1, d1, c2, d2, c3, d3, c4, d4, c5, d5, c6, d6, c7, d7
    <3> QED BY <2>2, <2>3, <2>4, <2>5, <2>6, <2>7, <2>8
  <2> QED BY <2>9, ShiftOutInjective
<1> QED BY <1>1, <1>2

\* One byte more in the register; no two registers, and no two bytes, give the same.
Absorb(c, b) == Crc8Table[ByteXor[c][b]]

\* A register and a byte give a register; it tells the register and the byte.
LEMMA AbsorbFacts ==
  /\ \A c, b \in Octet : Absorb(c, b) \in Octet
  /\ \A c, b, d \in Octet : Absorb(c, b) = Absorb(c, d) => b = d
  /\ \A c, b, d \in Octet : Absorb(c, b) = Absorb(d, b) => c = d
<1>1. \A c, b \in Octet : ByteXor[c][b] \in Octet
  BY XorAssumption
<1>2. \A c, b, d \in Octet : ByteXor[c][b] = ByteXor[c][d] => b = d
  BY XorAssumption
<1>3. \A c, b, d \in Octet : ByteXor[c][b] = ByteXor[d][b] => c = d
  BY XorAssumption
<1>4. \A c, b \in Octet : Absorb(c, b) \in Octet
  BY <1>1, TableFacts DEF Absorb
<1>5. \A c, b, d \in Octet : Absorb(c, b) = Absorb(c, d) => b = d
  BY <1>1, <1>2, TableFacts DEF Absorb
<1>6. \A c, b, d \in Octet : Absorb(c, b) = Absorb(d, b) => c = d
  BY <1>1, <1>3, TableFacts DEF Absorb
<1> QED BY <1>4, <1>5, <1>6

\* g is the register after each byte of data.
Registers(g, data) ==
  /\ g \in [0 .. Len(data) -> Octet]
  /\ g[0] = 0
  /\ \A i \in 1 .. Len(data) : g[i] = Absorb(g[i - 1], data[i])

\* For any data there are such registers.
LEMMA RegistersExist ==
  ASSUME NEW data \in Seq(Octet)
  PROVE  \E g : Registers(g, data)
<1> DEFINE Upto(n) == \E g \in [0 .. n -> Octet] :
                        /\ g[0] = 0
                        /\ \A i \in 1 .. n : g[i] = Absorb(g[i - 1], data[i])
           T == {n \in Nat : n <= Len(data) => Upto(n)}
<1>0. Len(data) \in Nat /\ \A i \in 1 .. Len(data) : data[i] \in Octet
  BY ElementOfSeq
<1>1. 0 \in T
  <2>1. 0 \in Octet
    BY OctetIs
  <2>2. PICK g \in [0 .. 0 -> Octet] : g = [i \in 0 .. 0 |-> 0]
    BY <2>1
  <2>3. g[0] = 0 /\ \A i \in 1 .. 0 : g[i] = Absorb(g[i - 1], data[i])
    BY <2>2
  <2>4. Upto(0)
    BY <2>3
  <2> QED BY <2>4
<1>2. ASSUME NEW k \in T, k < Len(data)
      PROVE  k + 1 \in T
  <2>0. k \in Nat
    OBVIOUS
  <2>1. PICK g \in [0 .. k -> Octet] :
          /\ g[0] = 0
          /\ \A i \in 1 .. k : g[i] = Absorb(g[i - 1], data[i])
    BY <1>0, <1>2
  <2>2. PICK n \in Nat : n = k + 1
    BY <2>0
  <2> DEFINE c == Absorb(g[k], data[n])
             h == [i \in 0 .. n |-> IF i = n THEN c ELSE g[i]]
  <2>3. c \in Octet
    BY <1>0, <1>2, <2>0, <2>2, AbsorbFacts
  <2> HIDE DEF c
  <2>4. h \in [0 .. n -> Octet]
    BY <2>0, <2>2, <2>3
  <2>5. h[0] = 0
    BY <2>0, <2>1, <2>2
  <2>6. \A i \in 1 .. n : h[i] = Absorb(h[i - 1], data[i])
    <3> SUFFICES ASSUME NEW i \in 1 .. n PROVE h[i] = Absorb(h[i - 1], data[i])
      OBVIOUS
    <3>1. i - 1 \in 0 .. k /\ i - 1 # n /\ i - 1 \in 0 .. n /\ i \in 0 .. n
      BY <2>0, <2>2
    <3>2. h[i - 1] = g[i - 1]
      BY <3>1
    <3>3. CASE i = n
      <4>1. h[i] = c /\ i - 1 = k
        BY <2>0, <2>2, <3>3
      <4> QED BY <3>2, <3>3, <4>1 DEF c
    <3>4. CASE i # n
      <4>1. h[i] = g[i] /\ i \in 1 .. k
        BY <2>0, <2>2, <3>1, <3>4
      <4> QED BY <2>1, <3>2, <4>1
    <3> QED BY <3>3, <3>4
  <2> HIDE DEF h
  <2>7. Upto(n)
    BY <2>4, <2>5, <2>6
  <2> QED BY <2>2, <2>7
<1>3. PICK N \in Nat : N = Len(data)
  BY <1>0
<1>4. 0 .. N \subseteq T
  <2> HIDE DEF T
  <2>1. T \in SUBSET Nat
    BY DEF T
  <2>2. \A k \in T : k < N => k + 1 \in T
    BY <1>2, <1>3
  <2> QED BY <1>1, <2>1, <2>2, SetInduction
<1>5. Upto(Len(data))
  <2>1. N \in T
    BY <1>4
  <2> QED BY <1>3, <2>1
<1> QED BY <1>5 DEF Registers

\* The CRC is the last register: the recursive definition has this solution.
LEMMA CrcIsRegister ==
  ASSUME NEW data \in Seq(Octet)
  PROVE  \E g : Registers(g, data) /\ Crc8(data) = g[Len(data)]
<1> DEFINE N == Len(data)
           Equation(g) == g = [i \in 0 .. N |-> IF i = 0 THEN 0 ELSE Absorb(g[i - 1], data[i])]
           crc == CHOOSE g : Equation(g)
<1>0. N \in Nat /\ \A i \in 1 .. N : data[i] \in Octet
  BY ElementOfSeq
<1> HIDE DEF N
<1>1. Crc8(data) = crc[N]
  BY DEF Crc8, Absorb, N
<1>2. \E g : Equation(g)
  <2>1. PICK g : Registers(g, data)
    BY RegistersExist
  <2>2. Equation(g)
    BY <1>0, <2>1 DEF Registers, N
  <2> QED BY <2>2
<1>3. Equation(crc)
  BY <1>2
<1> HIDE DEF crc
<1>4. crc[0] = 0 /\ \A i \in 1 .. N : crc[i] = Absorb(crc[i - 1], data[i])
  <2>0. crc = [i \in 0 .. N |-> IF i = 0 THEN 0 ELSE Absorb(crc[i - 1], data[i])]
    BY <1>3
  <2>1. \A i \in 0 .. N : crc[i] = IF i = 0 THEN 0 ELSE Absorb(crc[i - 1], data[i])
    BY <2>0
  <2> QED BY <1>0, <2>1
<1> DEFINE T == {n \in Nat : n <= N => crc[n] \in Octet}
<1>5. 0 \in T
  BY <1>4, OctetIs
<1>6. \A k \in T : k < N => k + 1 \in T
  BY <1>0, <1>4, AbsorbFacts
<1>7. \A n \in 0 .. N : crc[n] \in Octet
  <2> HIDE DEF T
  <2>1. T \in SUBSET Nat
    BY DEF T
  <2>2. 0 .. N \subseteq T
    BY <1>0, <1>5, <1>6, <2>1, SetInduction
  <2> QED BY <1>0, <2>2 DEF T
<1>8. crc \in [0 .. N -> Octet]
  <2>1. DOMAIN crc = 0 .. N /\ crc = [i \in 0 .. N |-> crc[i]]
    BY <1>3
  <2> QED BY <1>7, <2>1
<1>9. Registers(crc, data)
  BY <1>4, <1>8 DEF Registers, N
<1> QED BY <1>1, <1>9 DEF N

\* The CRC of bytes is a byte.
LEMMA CrcType ==
  ASSUME NEW data \in Seq(Octet)
  PROVE  Crc8(data) \in Octet
<1>1. PICK g : Registers(g, data) /\ Crc8(data) = g[Len(data)]
  BY CrcIsRegister
<1>2. Len(data) \in 0 .. Len(data)
  OBVIOUS
<1> QED BY <1>1, <1>2 DEF Registers

\* Two sequences of one length with just one byte different have different CRCs.
THEOREM CrcTellsOneByte ==
  ASSUME NEW u \in Seq(Octet), NEW v \in Seq(Octet), Len(u) = Len(v),
         NEW d \in 1 .. Len(u), u[d] # v[d],
         \A i \in 1 .. Len(u) : i # d => u[i] = v[i]
  PROVE  Crc8(u) # Crc8(v)
<1>1. PICK N \in Nat : N = Len(u)
  OBVIOUS
<1>2. \A i \in 1 .. N : u[i] \in Octet /\ v[i] \in Octet
  BY <1>1, ElementOfSeq
<1>3. PICK g : Registers(g, u) /\ Crc8(u) = g[N]
  BY <1>1, CrcIsRegister
<1>4. PICK h : Registers(h, v) /\ Crc8(v) = h[N]
  BY <1>1, CrcIsRegister
<1>5. /\ g[0] = 0 /\ h[0] = 0
      /\ \A i \in 0 .. N : g[i] \in Octet /\ h[i] \in Octet
      /\ \A i \in 1 .. N : g[i] = Absorb(g[i - 1], u[i]) /\ h[i] = Absorb(h[i - 1], v[i])
  BY <1>1, <1>3, <1>4 DEF Registers
<1> DEFINE T == {n \in Nat : n <= N => IF n < d THEN g[n] = h[n] ELSE g[n] # h[n]}
<1>6. 0 \in T
  BY <1>5
<1>7. ASSUME NEW k \in T, k < N PROVE k + 1 \in T
  <2>0. k \in Nat
    OBVIOUS
  <2>1. PICK n \in 1 .. N : n = k + 1
    BY <1>7, <2>0
  <2>2. g[k] \in Octet /\ h[k] \in Octet /\ u[n] \in Octet /\ v[n] \in Octet
    BY <1>2, <1>5, <1>7, <2>0, <2>1
  <2>3. g[n] = Absorb(g[k], u[n]) /\ h[n] = Absorb(h[k], v[n])
    <3>1. n - 1 = k
      BY <2>0, <2>1
    <3> QED BY <1>5, <3>1
  <2>4. IF k < d THEN g[k] = h[k] ELSE g[k] # h[k]
    BY <1>7, <2>0
  <2>5. CASE n < d
    <3>1. u[n] = v[n] /\ k < d
      BY <1>1, <2>0, <2>1, <2>5
    <3>2. g[n] = h[n]
      BY <2>3, <2>4, <3>1
    <3> QED BY <2>1, <2>5, <3>2
  <2>6. CASE n = d
    <3>1. g[k] = h[k]
      BY <2>0, <2>1, <2>4, <2>6
    <3>2. u[n] # v[n]
      BY <2>6
    <3>3. g[n] # h[n]
      BY <2>2, <2>3, <3>1, <3>2, AbsorbFacts
    <3> QED BY <2>1, <2>6, <3>3
  <2>7. CASE n > d
    <3>1. u[n] = v[n] /\ g[k] # h[k]
      BY <1>1, <2>0, <2>1, <2>4, <2>7
    <3>2. g[n] # h[n]
      BY <2>2, <2>3, <3>1, AbsorbFacts
    <3> QED BY <2>1, <2>7, <3>2
  <2> QED BY <2>1, <2>5, <2>6, <2>7
<1>8. N \in T
  <2> HIDE DEF T
  <2>1. T \in SUBSET Nat
    BY DEF T
  <2>2. 0 .. N \subseteq T
    BY <1>6, <1>7, <2>1, SetInduction
  <2> QED BY <2>2
<1>9. g[N] # h[N]
  BY <1>1, <1>8
<1> QED BY <1>3, <1>4, <1>9

-----------------------------------------------------------------------------
(* What is between the flags.                                              *)

\* The fields of a frame; LEN is a byte.
LEMMA FrameFacts ==
  ASSUME NEW f \in Frame
  PROVE  /\ f.type \in Octet /\ f.seq \in Octet /\ f.arg \in Seq(Octet)
         /\ Len(f.arg) \in Nat /\ Len(f.arg) >= 4 /\ Len(f.arg) \in Octet
         /\ f = [type |-> f.type, seq |-> f.seq, arg |-> f.arg]
<1>1. f \in [type : Octet, seq : Octet, arg : Seq(Octet)] /\ Len(f.arg) >= 4 /\ Len(f.arg) \in Octet
  BY DEF Frame
<1>2. f.type \in Octet /\ f.seq \in Octet /\ f.arg \in Seq(Octet)
  BY <1>1
<1>3. f = [type |-> f.type, seq |-> f.seq, arg |-> f.arg]
  BY <1>1
<1>4. Len(f.arg) \in Nat
  BY <1>2
<1> QED BY <1>1, <1>2, <1>3, <1>4

\* What of a frame the CRC is taken of.
Body(f) == <<f.type, f.seq, Len(f.arg)>> \o f.arg

\* The body is a sequence of bytes, three for the header and the argument.
LEMMA BodyFacts ==
  ASSUME NEW f \in Frame
  PROVE  /\ Body(f) \in Seq(Octet) /\ Len(Body(f)) = Len(f.arg) + 3
         /\ Body(f)[1] = f.type /\ Body(f)[2] = f.seq /\ Body(f)[3] = Len(f.arg)
         /\ \A i \in 1 .. Len(f.arg) : Body(f)[i + 3] = f.arg[i]
<1>1. /\ f.type \in Octet /\ f.seq \in Octet /\ f.arg \in Seq(Octet)
      /\ Len(f.arg) \in Octet /\ Len(f.arg) \in Nat
  BY FrameFacts
<1>2. <<f.type, f.seq, Len(f.arg)>> \in Seq(Octet)
  BY <1>1
<1> DEFINE head == <<f.type, f.seq, Len(f.arg)>>
<1>3. Len(head) = 3 /\ head[1] = f.type /\ head[2] = f.seq /\ head[3] = Len(f.arg)
  OBVIOUS
<1>4. head \in Seq(Octet) /\ Body(f) = head \o f.arg
  BY <1>2 DEF Body
<1> HIDE DEF head
<1>C. /\ head \o f.arg \in Seq(Octet) /\ Len(head \o f.arg) = Len(head) + Len(f.arg)
      /\ \A i \in 1 .. Len(head) + Len(f.arg) :
           (head \o f.arg)[i] = IF i <= Len(head) THEN head[i] ELSE f.arg[i - Len(head)]
  <2>1. head \in Seq(Octet) /\ f.arg \in Seq(Octet)
    BY <1>1, <1>4
  <2> QED BY <2>1, ConcatProperties
<1>5. Body(f) \in Seq(Octet) /\ Len(Body(f)) = Len(f.arg) + 3
  BY <1>1, <1>3, <1>4, <1>C
<1>6. \A i \in 1 .. Len(f.arg) + 3 :
        Body(f)[i] = IF i <= 3 THEN head[i] ELSE f.arg[i - 3]
  <2>1. Len(head) + Len(f.arg) = Len(f.arg) + 3
    BY <1>1, <1>3
  <2> QED BY <1>3, <1>4, <1>C, <2>1
<1>7. Len(f.arg) \in Nat
  BY <1>1
<1>8. Body(f)[1] = f.type /\ Body(f)[2] = f.seq /\ Body(f)[3] = Len(f.arg)
  BY <1>3, <1>6, <1>7
<1>9. \A i \in 1 .. Len(f.arg) : Body(f)[i + 3] = f.arg[i]
  <2> SUFFICES ASSUME NEW i \in 1 .. Len(f.arg) PROVE Body(f)[i + 3] = f.arg[i]
    OBVIOUS
  <2>1. PICK k \in 1 .. Len(f.arg) + 3 : k = i + 3 /\ ~(k <= 3) /\ k - 3 = i
    BY <1>7
  <2>2. Body(f)[k] = f.arg[k - 3]
    BY <1>6, <2>1
  <2> QED BY <2>1, <2>2
<1> QED BY <1>5, <1>8, <1>9

\* Between its flags a frame has its body and the CRC.
LEMMA InnerFacts ==
  ASSUME NEW f \in Frame
  PROVE  /\ Inner(f) \in Seq(Octet) /\ Len(Inner(f)) = Len(f.arg) + 4
         /\ \A i \in 1 .. Len(f.arg) + 3 : Inner(f)[i] = Body(f)[i]
         /\ Inner(f)[Len(f.arg) + 4] = Crc8(Body(f))
         /\ Inner(f)[3] = Len(f.arg)
         /\ \A i \in 1 .. Len(f.arg) + 4 : Inner(f)[i] \in Octet
<1>1. Inner(f) = Append(Body(f), Crc8(Body(f)))
  BY DEF Inner, Body
<1>2. Body(f) \in Seq(Octet) /\ Crc8(Body(f)) \in Octet
  BY BodyFacts, CrcType
<1>3. Len(Body(f)) = Len(f.arg) + 3 /\ Len(f.arg) \in Nat /\ Len(f.arg) >= 4
  BY BodyFacts, FrameFacts
<1>4. /\ Inner(f) \in Seq(Octet) /\ Len(Inner(f)) = Len(Body(f)) + 1
      /\ \A i \in 1 .. Len(Body(f)) : Inner(f)[i] = Body(f)[i]
      /\ Inner(f)[Len(Body(f)) + 1] = Crc8(Body(f))
  BY <1>1, <1>2, AppendProperties
<1>5. Len(Inner(f)) = Len(f.arg) + 4 /\ Len(Body(f)) + 1 = Len(f.arg) + 4
  BY <1>3, <1>4
<1>6. Inner(f)[3] = Len(f.arg)
  <2>1. 3 \in 1 .. Len(Body(f))
    BY <1>3
  <2> QED BY <1>4, <2>1, BodyFacts
<1>7. \A i \in 1 .. Len(f.arg) + 4 : Inner(f)[i] \in Octet
  BY <1>4, <1>5, ElementOfSeq
<1> QED BY <1>3, <1>4, <1>5, <1>6, <1>7

\* All but the last byte of what was collected.
LEMMA FrontFacts ==
  ASSUME NEW s \in Seq(Octet), Len(s) >= 1
  PROVE  /\ Front(s) \in Seq(Octet) /\ Len(Front(s)) = Len(s) - 1
         /\ \A i \in 1 .. Len(s) - 1 : Front(s)[i] = s[i]
         /\ Last(s) = s[Len(s)]
<1>1. Front(s) = SubSeq(s, 1, Len(s) - 1) /\ Last(s) = s[Len(s)] /\ Len(s) \in Nat
  BY DEF Front, Last
<1>2. \A i \in 1 .. Len(s) - 1 : s[i] \in Octet
  BY ElementOfSeq
<1> DEFINE n == Len(s) - 1
           t == SubSeq(s, 1, n)
<1>3. n \in Nat /\ n + 1 = Len(s)
  BY <1>1
<1> HIDE DEF n
<1>4. t \in Seq(Octet) /\ Len(t) = n /\ \A i \in 1 .. n : t[i] = s[1 + i - 1]
  <2>1. \A i \in 1 .. n : s[i] \in Octet
    BY <1>2 DEF n
  <2>2. 1 \in Int /\ n \in Int /\ n - 1 + 1 = n
    BY <1>3
  <2>3. /\ t \in Seq(Octet) /\ Len(t) = IF 1 <= n THEN n - 1 + 1 ELSE 0
        /\ \A i \in 1 .. n - 1 + 1 : t[i] = s[1 + i - 1]
    BY <2>1, <2>2, SubSeqProperties
  <2> QED BY <1>3, <2>2, <2>3
<1>5. \A i \in 1 .. n : t[i] = s[i]
  BY <1>3, <1>4
<1>6. Front(s) = t
  BY <1>1 DEF n
<1> HIDE DEF t
<1> QED BY <1>1, <1>4, <1>5, <1>6 DEF n

\* What emit makes of a frame the decoder accepts, and takes for that frame.
LEMMA InnerAccepted ==
  ASSUME NEW f \in Frame
  PROVE  Accepted(Inner(f)) /\ Decode(Inner(f)) = f
<1> DEFINE s == Inner(f)
<1>1. /\ s \in Seq(Octet) /\ Len(s) = Len(f.arg) + 4
      /\ \A i \in 1 .. Len(f.arg) + 3 : s[i] = Body(f)[i]
      /\ s[Len(f.arg) + 4] = Crc8(Body(f))
  BY InnerFacts
<1> HIDE DEF s
<1>2. /\ Body(f) \in Seq(Octet) /\ Len(Body(f)) = Len(f.arg) + 3
      /\ Body(f)[1] = f.type /\ Body(f)[2] = f.seq /\ Body(f)[3] = Len(f.arg)
      /\ \A i \in 1 .. Len(f.arg) : Body(f)[i + 3] = f.arg[i]
  BY BodyFacts
<1>3. /\ f.arg \in Seq(Octet) /\ Len(f.arg) \in Nat /\ Len(f.arg) >= 4
      /\ f = [type |-> f.type, seq |-> f.seq, arg |-> f.arg]
  BY FrameFacts
<1>4. Front(s) = Body(f) /\ Last(s) = Crc8(Body(f))
  <2>1. /\ Front(s) \in Seq(Octet) /\ Len(Front(s)) = Len(Body(f))
        /\ \A i \in 1 .. Len(Body(f)) : Front(s)[i] = Body(f)[i]
        /\ Last(s) = s[Len(f.arg) + 4]
    <3>1. Len(s) >= 1 /\ Len(s) - 1 = Len(Body(f))
      BY <1>1, <1>2, <1>3
    <3>2. /\ Front(s) \in Seq(Octet) /\ Len(Front(s)) = Len(s) - 1
          /\ \A i \in 1 .. Len(s) - 1 : Front(s)[i] = s[i]
          /\ Last(s) = s[Len(s)]
      BY <1>1, <3>1, FrontFacts
    <3> QED BY <1>1, <1>2, <3>1, <3>2
  <2>2. Front(s) = Body(f)
    BY <1>2, <2>1, SeqEqual
  <2> QED BY <1>1, <2>1, <2>2
<1>5. Accepted(s)
  <2>1. /\ Len(s) >= 5 /\ Len(Body(f)) = Len(f.arg) + 3 /\ Body(f)[3] = Len(f.arg)
        /\ Body(f)[3] + 3 = Len(Body(f)) /\ Body(f)[3] >= 4
    BY <1>1, <1>2, <1>3
  <2> QED BY <1>4, <2>1 DEF Accepted
<1>6. SubSeq(s, 4, Len(s) - 1) = f.arg
  <2>1. Len(s) - 1 = Len(f.arg) + 3
    BY <1>1, <1>3
  <2>2. \A i \in 4 .. Len(f.arg) + 3 : s[i] \in Octet
    BY <1>1, <1>3, ElementOfSeq
  <2> DEFINE t == SubSeq(s, 4, Len(f.arg) + 3)
  <2>3. /\ t \in Seq(Octet) /\ Len(t) = Len(f.arg)
        /\ \A i \in 1 .. Len(f.arg) : t[i] = s[4 + i - 1]
    BY <1>1, <1>3, <2>2, SubSeqProperties
  <2> HIDE DEF t
  <2>4. \A i \in 1 .. Len(f.arg) : t[i] = f.arg[i]
    <3> SUFFICES ASSUME NEW i \in 1 .. Len(f.arg) PROVE t[i] = f.arg[i]
      OBVIOUS
    <3>1. PICK k \in 1 .. Len(f.arg) + 3 : k = i + 3 /\ k = 4 + i - 1
      BY <1>3
    <3>2. t[i] = s[k] /\ Body(f)[k] = f.arg[i]
      BY <1>2, <2>3, <3>1
    <3> QED BY <1>1, <3>2
  <2>5. t = f.arg
    BY <1>3, <2>3, <2>4, SeqEqual
  <2> QED BY <2>1, <2>5 DEF t
<1>7. s[1] = f.type /\ s[2] = f.seq
  <2>1. 1 \in 1 .. Len(f.arg) + 3 /\ 2 \in 1 .. Len(f.arg) + 3
    BY <1>3
  <2> QED BY <1>1, <1>2, <2>1
<1>8. Decode(s) = f
  BY <1>3, <1>6, <1>7 DEF Decode
<1> QED BY <1>5, <1>8 DEF s

\* What is accepted has at least eight bytes, and as many as LEN says.
LEMMA AcceptedLength ==
  ASSUME NEW s \in Seq(Octet), Accepted(s)
  PROVE  Len(s) >= 8 /\ s[3] + 4 = Len(s)
<1>1. /\ Len(s) >= 5
      /\ Front(s)[3] + 3 = Len(Front(s)) /\ Front(s)[3] >= 4
  BY DEF Accepted
<1>2. Len(Front(s)) = Len(s) - 1 /\ Front(s)[3] = s[3]
  <2>1. 3 \in 1 .. Len(s) - 1
    BY <1>1
  <2> QED BY <1>1, <2>1, FrontFacts
<1>3. s[3] \in Int
  BY <1>1, ElementOfSeq, OctetIs
<1> QED BY <1>1, <1>2, <1>3

\* The same number of bytes as a frame has, and just one different: rejected.
LEMMA ChangedRejected ==
  ASSUME NEW f \in Frame, NEW s \in Seq(Octet), Len(s) = Len(f.arg) + 4,
         NEW d \in 1 .. Len(s), s[d] # Inner(f)[d],
         \A i \in 1 .. Len(s) : i # d => s[i] = Inner(f)[i]
  PROVE  ~Accepted(s)
<1> DEFINE b == Body(f)
           n == Len(f.arg) + 3
<1>1. b \in Seq(Octet) /\ Len(b) = n /\ n \in Nat /\ n >= 7 /\ Len(s) = n + 1
  BY BodyFacts, FrameFacts
<1>2. (\A i \in 1 .. n : Inner(f)[i] = b[i]) /\ Inner(f)[n + 1] = Crc8(b)
  <2>1. n + 1 = Len(f.arg) + 4
    BY FrameFacts
  <2> QED BY <2>1, InnerFacts
<1> HIDE DEF b, n
<1>3. /\ Front(s) \in Seq(Octet) /\ Len(Front(s)) = n
      /\ \A i \in 1 .. n : Front(s)[i] = s[i]
      /\ Last(s) = s[n + 1]
  <2>1. Len(s) >= 1 /\ Len(s) - 1 = n /\ Len(s) = n + 1
    BY <1>1
  <2>2. /\ Front(s) \in Seq(Octet) /\ Len(Front(s)) = Len(s) - 1
        /\ \A i \in 1 .. Len(s) - 1 : Front(s)[i] = s[i]
        /\ Last(s) = s[Len(s)]
    BY <2>1, FrontFacts
  <2> QED BY <2>1, <2>2
<1> DEFINE t == Front(s)
<1> HIDE DEF t
<1>4. CASE d = n + 1
  <2>1. \A i \in 1 .. n : t[i] = b[i]
    BY <1>1, <1>2, <1>3, <1>4 DEF t
  <2>2. t = b
    BY <1>1, <1>3, <2>1, SeqEqual DEF t
  <2>3. Last(s) # Crc8(b)
    BY <1>2, <1>3, <1>4
  <2> QED BY <2>2, <2>3 DEF Accepted, t
<1>5. CASE d # n + 1
  <2>1. d \in 1 .. n
    BY <1>1, <1>5
  <2>2. t[d] # b[d] /\ \A i \in 1 .. n : i # d => t[i] = b[i]
    BY <1>1, <1>2, <1>3, <2>1 DEF t
  <2>3. Crc8(t) # Crc8(b)
    BY <1>1, <1>3, <2>1, <2>2, CrcTellsOneByte DEF t
  <2>4. Last(s) = Crc8(b)
    BY <1>1, <1>2, <1>3, <1>5
  <2> QED BY <2>3, <2>4 DEF Accepted, t
<1> QED BY <1>4, <1>5

-----------------------------------------------------------------------------
(* Where the line is.                                                      *)

\* The place of the flag that ends frame f.
End(f) == Len(f.arg) + 5

\* The bytes that stand for the symbol at a place of f.
Full(f, a) == IF a \in DOMAIN Inner(f) THEN Stuff(Inner(f)[a]) ELSE <<FLAG>>

Symbols == [octets : Seq(Octet), frame : Nat, at : Nat]
Fields  == [type : Octet, seq : Octet, arg : Seq(Octet)]

\* The types of the variables.
TypeOK ==
  /\ s_seq \in Octet /\ wire \in Seq(Symbols) /\ sent \in Seq(Frame)
  /\ in \in BOOLEAN /\ esc \in BOOLEAN /\ bad \in BOOLEAN /\ buf \in Seq(Octet)
  /\ decoded \in Seq(Fields) /\ listening \in BOOLEAN
  /\ spoilt \in SUBSET Nat /\ hurt \in SUBSET Nat /\ shifted \in BOOLEAN /\ damages \in Nat

\* The place of a symbol and of the one behind it.
Follows(s, t) == IF s.at = End(sent[s.frame])
                 THEN t.frame = s.frame + 1 /\ t.at = 0
                 ELSE t.frame = s.frame /\ t.at = s.at + 1

\* A symbol is one of a frame sent, and whole unless it is the first.
WholeSymbol(j) ==
  LET s == wire[j]
      full == Full(sent[s.frame], s.at)
  IN  /\ s.frame \in DOMAIN sent /\ s.at \in 0 .. End(sent[s.frame])
      /\ s.octets = full \/ (j = 1 /\ Len(full) = 2 /\ s.octets = <<full[2]>>)

\* The line holds what has been sent from some place on, to the end.
WireInv ==
  /\ \A j \in DOMAIN wire : WholeSymbol(j)
  /\ \A j \in DOMAIN wire : j > 1 => Follows(wire[j - 1], wire[j])
  /\ wire # <<>> => LET s == wire[Len(wire)]
                    IN  s.frame = Len(sent) /\ s.at = End(sent[Len(sent)])

\* The frame and the place the next byte belongs to, and whether it is the
\* second of two.  An empty line is before the next frame.
Current == IF wire = <<>> THEN Len(sent) + 1 ELSE wire[1].frame
Place   == IF wire = <<>> THEN 0 ELSE wire[1].at
Half    == wire # <<>> /\ wire[1].octets # Full(sent[wire[1].frame], wire[1].at)

\* The four special bytes.
LEMMA Specials ==
  /\ FLAG \in Octet /\ ESC \in Octet /\ ESC_FLAG \in Octet /\ ESC_ESC \in Octet
  /\ FLAG # ESC /\ FLAG # ESC_FLAG /\ FLAG # ESC_ESC
  /\ ESC # ESC_FLAG /\ ESC # ESC_ESC /\ ESC_FLAG # ESC_ESC
BY OctetIs DEF FLAG, ESC, ESC_FLAG, ESC_ESC

\* The symbol at a place: a flag at the ends; else a byte as it is, or, of a
\* FLAG and an ESC, the two that stand for it.
LEMMA FullFacts ==
  ASSUME NEW f \in Frame, NEW a \in 0 .. End(f)
  PROVE  /\ End(f) \in Nat /\ End(f) >= 9
         /\ a = 0 \/ a = End(f) => Full(f, a) = <<FLAG>>
         /\ a # 0 /\ a # End(f) =>
              /\ a \in 1 .. Len(f.arg) + 4 /\ Inner(f)[a] \in Octet
              /\ Inner(f)[a] = FLAG => Full(f, a) = <<ESC, ESC_FLAG>>
              /\ Inner(f)[a] = ESC => Full(f, a) = <<ESC, ESC_ESC>>
              /\ Inner(f)[a] \notin {FLAG, ESC} => Full(f, a) = <<Inner(f)[a]>>
         /\ Full(f, a) \in Seq(Octet) /\ Len(Full(f, a)) \in {1, 2}
<1>1. Len(f.arg) \in Nat /\ Len(f.arg) >= 4
  BY FrameFacts
<1>2. End(f) \in Nat /\ End(f) >= 9
  BY <1>1 DEF End
<1>3. Inner(f) \in Seq(Octet) /\ Len(Inner(f)) = Len(f.arg) + 4
  BY InnerFacts
<1>4. DOMAIN Inner(f) = 1 .. Len(f.arg) + 4
  BY <1>3, LenProperties
<1>5. CASE a = 0 \/ a = End(f)
  <2>1. a \notin DOMAIN Inner(f)
    BY <1>1, <1>4, <1>5 DEF End
  <2>2. Full(f, a) = <<FLAG>>
    BY <2>1 DEF Full
  <2> QED BY <1>2, <1>5, <2>2, Specials
<1>6. CASE a # 0 /\ a # End(f)
  <2>1. a \in 1 .. Len(f.arg) + 4
    BY <1>1, <1>6 DEF End
  <2>2. Inner(f)[a] \in Octet
    BY <2>1, InnerFacts
  <2>3. Full(f, a) = Stuff(Inner(f)[a])
    BY <1>4, <2>1 DEF Full
  <2>4. /\ Inner(f)[a] = FLAG => Full(f, a) = <<ESC, ESC_FLAG>>
        /\ Inner(f)[a] = ESC => Full(f, a) = <<ESC, ESC_ESC>>
        /\ Inner(f)[a] \notin {FLAG, ESC} => Full(f, a) = <<Inner(f)[a]>>
    BY <2>3, Specials DEF Stuff
  <2>5. Full(f, a) \in Seq(Octet) /\ Len(Full(f, a)) \in {1, 2}
    <3>1. CASE Inner(f)[a] = FLAG
      <4>1. Full(f, a) = <<ESC, ESC_FLAG>>
        BY <2>4, <3>1
      <4> QED BY <4>1, Specials
    <3>2. CASE Inner(f)[a] = ESC
      <4>1. Full(f, a) = <<ESC, ESC_ESC>>
        BY <2>4, <3>2
      <4> QED BY <4>1, Specials
    <3>3. CASE Inner(f)[a] \notin {FLAG, ESC}
      <4>1. Full(f, a) = <<Inner(f)[a]>>
        BY <2>4, <3>3
      <4> QED BY <2>2, <4>1
    <3> QED BY <3>1, <3>2, <3>3
  <2> QED BY <1>2, <1>6, <2>1, <2>2, <2>4, <2>5
<1> QED BY <1>5, <1>6

\* The first symbol of a line that is not empty.
LEMMA FirstSymbol ==
  ASSUME TypeOK, WireInv, wire # <<>>
  PROVE  /\ Symbol = wire[1] /\ wire[1] \in Symbols
         /\ Current = wire[1].frame /\ Place = wire[1].at
         /\ Current \in DOMAIN sent /\ Current \in Nat /\ sent[Current] \in Frame
         /\ Place \in 0 .. End(sent[Current])
         /\ ~Half => Symbol.octets = Full(sent[Current], Place)
         /\ Half => /\ Len(Full(sent[Current], Place)) = 2
                    /\ Symbol.octets = <<Full(sent[Current], Place)[2]>>
<1>1. wire \in Seq(Symbols) /\ sent \in Seq(Frame)
  BY DEF TypeOK
<1>2. 1 \in DOMAIN wire /\ wire[1] \in Symbols /\ Symbol = wire[1]
  BY <1>1 DEF Symbol
<1>3. WholeSymbol(1)
  BY <1>2 DEF WireInv
<1>4. Current = wire[1].frame /\ Place = wire[1].at
  BY DEF Current, Place
<1>5. /\ Current \in DOMAIN sent /\ Place \in 0 .. End(sent[Current])
      /\ \/ wire[1].octets = Full(sent[Current], Place)
         \/ /\ Len(Full(sent[Current], Place)) = 2
            /\ wire[1].octets = <<Full(sent[Current], Place)[2]>>
  BY <1>3, <1>4 DEF WholeSymbol
<1>6. Current \in Nat /\ sent[Current] \in Frame
  BY <1>1, <1>5
<1>7. Half <=> wire[1].octets # Full(sent[Current], Place)
  BY <1>4 DEF Half
<1> QED BY <1>2, <1>4, <1>5, <1>6, <1>7

\* A symbol gone, the line is at the next place of the frame, or before the
\* next frame.
LEMMA SymbolGone ==
  ASSUME TypeOK, WireInv, wire # <<>>, wire' = Tail(wire), sent' = sent
  PROVE  /\ wire' \in Seq(Symbols) /\ WireInv' /\ ~Half'
         /\ IF Place = End(sent[Current]) THEN Current' = Current + 1 /\ Place' = 0
                                          ELSE Current' = Current /\ Place' = Place + 1
<1>1. wire \in Seq(Symbols)
  BY DEF TypeOK
<1>2. PICK n \in Nat : n = Len(wire) /\ n >= 1
  BY <1>1, EmptySeq
<1>3. /\ wire' \in Seq(Symbols) /\ Len(wire') = n - 1
      /\ \A j \in 1 .. n - 1 : wire'[j] = wire[j + 1]
  BY <1>1, <1>2, HeadTailProperties
<1>4. DOMAIN wire = 1 .. n /\ DOMAIN wire' = 1 .. n - 1
  BY <1>1, <1>2, <1>3, LenProperties
<1>5. ASSUME NEW j \in DOMAIN wire'
      PROVE  WholeSymbol(j)' /\ wire'[j].octets = Full(sent[wire'[j].frame], wire'[j].at)
  <2>1. PICK i \in DOMAIN wire : i = j + 1 /\ i > 1 /\ wire'[j] = wire[i]
    BY <1>2, <1>3, <1>4
  <2>2. WholeSymbol(i)
    BY <2>1 DEF WireInv
  <2>3. i # 1
    BY <1>4, <2>1
  <2> QED BY <2>1, <2>2, <2>3 DEF WholeSymbol, Full, End
<1>6. ASSUME NEW j \in DOMAIN wire', j > 1
      PROVE  Follows(wire[j - 1], wire[j])'
  <2>1. PICK i \in DOMAIN wire : i = j + 1 /\ i > 1 /\ wire'[j] = wire[i]
    BY <1>2, <1>3, <1>4
  <2>2. wire'[j - 1] = wire[i - 1]
    <3>1. PICK p \in 1 .. n - 1 : p = j - 1 /\ p + 1 = i - 1
      BY <1>2, <1>4, <1>6, <2>1
    <3>2. wire'[p] = wire[p + 1]
      BY <1>3, <3>1
    <3> QED BY <3>1, <3>2
  <2>3. Follows(wire[i - 1], wire[i])
    BY <2>1 DEF WireInv
  <2> QED BY <2>1, <2>2, <2>3 DEF Follows, End
<1>7. ASSUME wire' # <<>>
      PROVE  wire'[Len(wire')].frame = Len(sent) /\ wire'[Len(wire')].at = End(sent[Len(sent)])
  <2>1. n - 1 >= 1
    BY <1>2, <1>3, <1>7, EmptySeq
  <2>2. PICK m \in 1 .. n - 1 : m = n - 1 /\ m + 1 = n
    BY <1>2, <2>1
  <2>3. wire'[m] = wire[n]
    BY <1>3, <2>2
  <2> QED BY <1>2, <1>3, <2>2, <2>3 DEF WireInv
<1>8. WireInv'
  BY <1>5, <1>6, <1>7 DEF WireInv, End
<1>9. CASE wire' = <<>>
  <2>1. n = 1
    <3>0. Len(<<>>) = 0
      BY EmptySeq
    <3>1. Len(wire') = 0
      BY <1>9, <3>0
    <3> QED BY <1>2, <1>3, <3>1
  <2>2. Current = Len(sent) /\ Place = End(sent[Len(sent)])
    BY <1>2, <2>1 DEF WireInv, Current, Place
  <2>3. Current' = Len(sent) + 1 /\ Place' = 0 /\ ~Half'
    BY <1>9 DEF Current, Place, Half
  <2> QED BY <1>3, <1>8, <2>2, <2>3
<1>10. CASE wire' # <<>>
  <2>1. n - 1 >= 1
    BY <1>2, <1>3, <1>10, EmptySeq
  <2>2. 1 \in DOMAIN wire' /\ 2 \in DOMAIN wire /\ wire'[1] = wire[2]
    BY <1>2, <1>3, <1>4, <2>1
  <2>3. Follows(wire[1], wire[2])
    <3>1. PICK i \in DOMAIN wire : i = 2 /\ i > 1 /\ i - 1 = 1
      BY <2>2
    <3>2. Follows(wire[i - 1], wire[i])
      BY <3>1 DEF WireInv
    <3> QED BY <3>1, <3>2
  <2>4. Current = wire[1].frame /\ Place = wire[1].at
    BY DEF Current, Place
  <2>5. Current' = wire[2].frame /\ Place' = wire[2].at
    BY <1>10, <2>2 DEF Current, Place
  <2>6. ~Half'
    <3>1. wire'[1].octets = Full(sent[wire'[1].frame], wire'[1].at)
      BY <1>5, <2>2
    <3> QED BY <3>1 DEF Half, Full
  <2> QED BY <1>3, <1>8, <2>3, <2>4, <2>5, <2>6 DEF Follows
<1> QED BY <1>9, <1>10

\* After the first of a symbol's two bytes the line is where it was, half a
\* symbol on.
LEMMA HalfGone ==
  ASSUME TypeOK, WireInv, wire # <<>>, ~Half, Len(Full(sent[Current], Place)) = 2,
         wire' = [wire EXCEPT ![1].octets = Tail(@)], sent' = sent
  PROVE  /\ wire' \in Seq(Symbols) /\ WireInv' /\ Half'
         /\ Current' = Current /\ Place' = Place
<1>1. wire \in Seq(Symbols)
  BY DEF TypeOK
<1>2. PICK n \in Nat : n = Len(wire) /\ n >= 1
  BY <1>1, EmptySeq
<1>3. /\ wire[1] \in Symbols /\ Current = wire[1].frame /\ Place = wire[1].at
      /\ Current \in DOMAIN sent /\ sent[Current] \in Frame
      /\ Place \in 0 .. End(sent[Current])
      /\ wire[1].octets = Full(sent[Current], Place)
  BY FirstSymbol
<1> DEFINE full == Full(sent[Current], Place)
           half == Tail(full)
           s    == [octets |-> half, frame |-> wire[1].frame, at |-> wire[1].at]
<1>4. full \in Seq(Octet) /\ Len(full) = 2
  BY <1>3, FullFacts
<1>5. half \in Seq(Octet) /\ half = <<full[2]>> /\ half # full
  <2> HIDE DEF full
  <2>1. full # <<>>
    BY <1>4
  <2>2. /\ half \in Seq(Octet) /\ Len(half) = Len(full) - 1
        /\ \A i \in 1 .. Len(half) : half[i] = full[i + 1]
    BY <1>4, <2>1, HeadTailProperties
  <2>3. Len(half) = 1 /\ half[1] = full[2]
    <3> HIDE DEF half
    <3>1. Len(half) = 1
      BY <1>4, <2>2
    <3>2. 1 \in 1 .. Len(half) /\ 1 + 1 = 2
      BY <3>1
    <3>3. half[1] = full[1 + 1]
      BY <2>2, <3>2
    <3> QED BY <3>1, <3>2, <3>3
  <2>4. half = <<full[2]>>
    <3> HIDE DEF half
    <3> QED BY <2>2, <2>3
  <2>5. half # full
    <3> HIDE DEF half
    <3>1. Len(half) # Len(full)
      BY <1>4, <2>3
    <3> QED BY <3>1
  <2> QED BY <2>2, <2>4, <2>5
<1>6. wire[1].octets = full
  BY <1>3
<1> HIDE DEF full, half, s
<1>7. s \in Symbols
  BY <1>3, <1>5 DEF Symbols, s
<1>8. wire' = [wire EXCEPT ![1] = s]
  <2>1. \A w \in Symbols : \A x :
          [w EXCEPT !.octets = x] = [octets |-> x, frame |-> w.frame, at |-> w.at]
    BY DEF Symbols
  <2>2. [wire[1] EXCEPT !.octets = Tail(wire[1].octets)] = s
    BY <1>3, <1>6, <2>1 DEF half, s
  <2>3. wire' = [wire EXCEPT ![1] = [wire[1] EXCEPT !.octets = Tail(wire[1].octets)]]
    OBVIOUS
  <2> QED BY <2>2, <2>3
<1>9. /\ wire' \in Seq(Symbols) /\ Len(wire') = n
      /\ \A j \in 1 .. n : wire'[j] = IF j = 1 THEN s ELSE wire[j]
  <2>1. 1 \in 1 .. Len(wire)
    BY <1>2
  <2> DEFINE t == [wire EXCEPT ![1] = s]
  <2>2. /\ t \in Seq(Symbols) /\ Len(t) = Len(wire)
        /\ \A j \in 1 .. Len(wire) : t[j] = IF j = 1 THEN s ELSE wire[j]
    BY <1>1, <1>7, <2>1, ExceptSeq
  <2> HIDE DEF t
  <2>3. wire' = t
    BY <1>8 DEF t
  <2> QED BY <1>2, <2>2, <2>3
<1>10. DOMAIN wire = 1 .. n /\ DOMAIN wire' = 1 .. n /\ wire' # <<>>
  BY <1>1, <1>2, <1>9, LenProperties
<1>11. /\ wire'[1] = s /\ s.octets = <<full[2]>> /\ s.octets # full
       /\ s.frame = Current /\ s.at = Place
       /\ \A j \in 1 .. n : wire'[j].frame = wire[j].frame /\ wire'[j].at = wire[j].at
  <2>1. s.octets = half /\ s.frame = wire[1].frame /\ s.at = wire[1].at
    BY DEF s
  <2>2. 1 \in 1 .. n
    BY <1>2
  <2>3. wire'[1] = s
    BY <1>9, <2>2
  <2>4. \A j \in 1 .. n : wire'[j].frame = wire[j].frame /\ wire'[j].at = wire[j].at
    <3> SUFFICES ASSUME NEW j \in 1 .. n
                 PROVE  wire'[j].frame = wire[j].frame /\ wire'[j].at = wire[j].at
      OBVIOUS
    <3> QED BY <1>9, <2>1
  <2> QED BY <1>3, <1>5, <2>1, <2>3, <2>4
<1>12. Current' = Current /\ Place' = Place /\ Half'
  <2>1. Current' = Current /\ Place' = Place
    BY <1>10, <1>11 DEF Current, Place
  <2>2. wire'[1].octets # Full(sent'[wire'[1].frame], wire'[1].at)
    BY <1>11 DEF full
  <2> QED BY <1>10, <2>1, <2>2 DEF Half, Full
<1>13. ASSUME NEW j \in DOMAIN wire'
       PROVE  WholeSymbol(j)'
  <2>1. WholeSymbol(j)
    BY <1>10 DEF WireInv
  <2>2. CASE j = 1
    <3>1. /\ wire'[j].octets = <<full[2]>> /\ wire'[j].frame = Current /\ wire'[j].at = Place
      BY <1>11, <2>2
    <3>2. Len(full) = 2 /\ Current \in DOMAIN sent /\ Place \in 0 .. End(sent[Current])
      BY <1>3, <1>4
    <3>3. /\ wire'[j].frame \in DOMAIN sent'
          /\ wire'[j].at \in 0 .. End(sent'[wire'[j].frame])
          /\ full = Full(sent'[wire'[j].frame], wire'[j].at)
      BY <3>1, <3>2 DEF full
    <3> HIDE DEF full
    <3>4. wire'[j].octets = <<full[2]>> /\ Len(full) = 2
      BY <3>1, <3>2
    <3> QED BY <2>2, <3>3, <3>4 DEF WholeSymbol
  <2>3. CASE j # 1
    <3>1. wire'[j] = wire[j]
      BY <1>9, <1>10, <2>3
    <3> QED BY <2>1, <2>3, <3>1 DEF WholeSymbol, Full, End
  <2> QED BY <2>2, <2>3
<1>14. ASSUME NEW j \in DOMAIN wire', j > 1
       PROVE  Follows(wire[j - 1], wire[j])'
  <2>1. Follows(wire[j - 1], wire[j])
    BY <1>10, <1>14 DEF WireInv
  <2>2. PICK p \in 1 .. n : p = j - 1
    BY <1>10, <1>14
  <2>3. /\ wire'[p].frame = wire[p].frame /\ wire'[p].at = wire[p].at
        /\ wire'[j].frame = wire[j].frame /\ wire'[j].at = wire[j].at
    BY <1>10, <1>11
  <2> QED BY <2>1, <2>2, <2>3 DEF Follows, End
<1>15. wire'[Len(wire')].frame = Len(sent) /\ wire'[Len(wire')].at = End(sent[Len(sent)])
  <2>1. n \in 1 .. n /\ Len(wire') = n
    BY <1>2, <1>9
  <2>2. wire'[n].frame = wire[n].frame /\ wire'[n].at = wire[n].at
    BY <1>11, <2>1
  <2>3. wire[n].frame = Len(sent) /\ wire[n].at = End(sent[Len(sent)])
    BY <1>2 DEF WireInv
  <2> QED BY <2>1, <2>2, <2>3
<1>16. WireInv'
  BY <1>13, <1>14, <1>15 DEF WireInv, End
<1> QED BY <1>9, <1>12, <1>16

\* A place between the flags of the frame under way.
Between == Place \in 1 .. Len(sent[Current].arg) + 4

\* The byte of the frame the line has come to.
Here == Inner(sent[Current])[Place]

\* The ways a byte leaves the line: a flag at either end of a frame, a byte as
\* it is, or the first and the second of the two for a FLAG or an ESC.
StartFlag   == /\ Place = 0 /\ ~Half /\ Byte = FLAG
               /\ Current' = Current /\ Place' = 1 /\ ~Half'
EndFlag     == /\ Place = End(sent[Current]) /\ ~Half /\ Byte = FLAG
               /\ Current' = Current + 1 /\ Place' = 0 /\ ~Half'
PlainByte   == /\ Between /\ ~Half /\ Byte = Here /\ Here \notin {FLAG, ESC}
               /\ Current' = Current /\ Place' = Place + 1 /\ ~Half'
FirstOfTwo  == /\ Between /\ ~Half /\ Byte = ESC /\ Here \in {FLAG, ESC}
               /\ Current' = Current /\ Place' = Place /\ Half'
SecondOfTwo == /\ Between /\ Half
               /\ \/ Byte = ESC_FLAG /\ Here = FLAG
                  \/ Byte = ESC_ESC /\ Here = ESC
               /\ Current' = Current /\ Place' = Place + 1 /\ ~Half'

\* What the byte under way is.
LEMMA ByteIs ==
  ASSUME TypeOK, WireInv, wire # <<>>
  PROVE  /\ Byte \in Octet
         /\ Place \in {0, End(sent[Current])} =>
              /\ Len(Symbol.octets) = 1 /\ ~Half /\ Byte = FLAG
         /\ Place # 0 /\ Place # End(sent[Current]) =>
              /\ Between /\ Here \in Octet
              /\ ~Half /\ Here \notin {FLAG, ESC} => Len(Symbol.octets) = 1 /\ Byte = Here
              /\ ~Half /\ Here \in {FLAG, ESC} =>
                   /\ Len(Symbol.octets) # 1 /\ Byte = ESC
                   /\ Len(Full(sent[Current], Place)) = 2
              /\ Half => /\ Len(Symbol.octets) = 1
                         /\ \/ Byte = ESC_FLAG /\ Here = FLAG
                            \/ Byte = ESC_ESC /\ Here = ESC
<1> DEFINE f == sent[Current]
           full == Full(f, Place)
           octets == Symbol.octets
<1>1. /\ f \in Frame /\ Place \in 0 .. End(f)
      /\ ~Half => octets = full
      /\ Half => Len(full) = 2 /\ octets = <<full[2]>>
  BY FirstSymbol
<1>2. /\ Place = 0 \/ Place = End(f) => full = <<FLAG>>
      /\ Place # 0 /\ Place # End(f) =>
           /\ Between /\ Here \in Octet
           /\ Here = FLAG => full = <<ESC, ESC_FLAG>>
           /\ Here = ESC => full = <<ESC, ESC_ESC>>
           /\ Here \notin {FLAG, ESC} => full = <<Here>>
  BY <1>1, FullFacts DEF Between, Here
<1>3. Byte = octets[1]
  BY DEF Byte
<1> HIDE DEF full, octets
<1>4. CASE Place = 0 \/ Place = End(f)
  <2>1. full = <<FLAG>>
    BY <1>2, <1>4
  <2>2. ~Half
    BY <1>1, <2>1
  <2>3. octets = <<FLAG>>
    BY <1>1, <2>1, <2>2
  <2>4. Len(octets) = 1 /\ Byte = FLAG
    BY <1>3, <2>3
  <2> QED BY <1>4, <2>2, <2>4, Specials DEF octets
<1>5. CASE Place # 0 /\ Place # End(f)
  <2>1. Between /\ Here \in Octet
    BY <1>2, <1>5
  <2>2. ASSUME ~Half, Here \notin {FLAG, ESC} PROVE Len(octets) = 1 /\ Byte = Here
    <3>1. octets = <<Here>>
      BY <1>1, <1>2, <1>5, <2>2
    <3> QED BY <1>3, <3>1
  <2>3. ASSUME ~Half, Here \in {FLAG, ESC}
        PROVE  Len(octets) # 1 /\ Byte = ESC /\ Len(full) = 2
    <3>1. octets = full /\ (full = <<ESC, ESC_FLAG>> \/ full = <<ESC, ESC_ESC>>)
      BY <1>1, <1>2, <1>5, <2>3
    <3> QED BY <1>3, <3>1
  <2>4. ASSUME Half
        PROVE  /\ Len(octets) = 1
               /\ (Byte = ESC_FLAG /\ Here = FLAG) \/ (Byte = ESC_ESC /\ Here = ESC)
    <3>1. Len(full) = 2 /\ octets = <<full[2]>>
      BY <1>1, <2>4
    <3>2. Here \in {FLAG, ESC}
      <4>1. Len(<<Here>>) = 1
        OBVIOUS
      <4> QED BY <1>2, <1>5, <3>1, <4>1
    <3>3. Len(octets) = 1 /\ Byte = full[2]
      BY <1>3, <3>1
    <3>4. CASE Here = FLAG
      <4>1. full[2] = ESC_FLAG
        BY <1>2, <1>5, <3>4
      <4> QED BY <3>3, <3>4, <4>1
    <3>5. CASE Here = ESC
      <4>1. full[2] = ESC_ESC
        BY <1>2, <1>5, <3>5
      <4> QED BY <3>3, <3>5, <4>1
    <3> QED BY <3>2, <3>4, <3>5
  <2>5. Byte \in Octet
    <3>1. CASE Half
      BY <2>4, <3>1, Specials
    <3>2. CASE ~Half /\ Here \in {FLAG, ESC}
      BY <2>3, <3>2, Specials
    <3>3. CASE ~Half /\ Here \notin {FLAG, ESC}
      BY <2>1, <2>2, <3>3
    <3> QED BY <3>1, <3>2, <3>3
  <2> QED BY <1>5, <2>1, <2>2, <2>3, <2>4, <2>5 DEF octets, full
<1> QED BY <1>4, <1>5

\* A byte leaves the line in one of the five ways.
LEMMA ByteLeaves ==
  ASSUME TypeOK, WireInv, wire # <<>>, wire' = Rest, sent' = sent
  PROVE  /\ wire' \in Seq(Symbols) /\ WireInv'
         /\ StartFlag \/ EndFlag \/ PlainByte \/ FirstOfTwo \/ SecondOfTwo
<1>0. Place \in 0 .. End(sent[Current]) /\ sent[Current] \in Frame
  BY FirstSymbol
<1>1. End(sent[Current]) \in Nat /\ End(sent[Current]) >= 9 /\ Place \in Nat
  BY <1>0, FullFacts
<1>2. CASE Len(Symbol.octets) = 1
  <2>1. wire' = Tail(wire)
    BY <1>2 DEF Rest
  <2>2. /\ wire' \in Seq(Symbols) /\ WireInv' /\ ~Half'
        /\ IF Place = End(sent[Current]) THEN Current' = Current + 1 /\ Place' = 0
                                         ELSE Current' = Current /\ Place' = Place + 1
    BY <2>1, SymbolGone
  <2>3. CASE Place = 0
    <3>1. ~Half /\ Byte = FLAG
      BY <2>3, ByteIs
    <3>2. Current' = Current /\ Place' = 1
      BY <1>1, <2>2, <2>3
    <3>3. StartFlag
      BY <2>2, <2>3, <3>1, <3>2 DEF StartFlag
    <3> QED BY <2>2, <3>3
  <2>4. CASE Place = End(sent[Current])
    <3>1. ~Half /\ Byte = FLAG
      BY <2>4, ByteIs
    <3>2. EndFlag
      BY <2>2, <2>4, <3>1 DEF EndFlag
    <3> QED BY <2>2, <3>2
  <2>5. CASE Place # 0 /\ Place # End(sent[Current])
    <3>1. /\ Between
          /\ ~Half => Here \notin {FLAG, ESC} /\ Byte = Here
          /\ Half => \/ Byte = ESC_FLAG /\ Here = FLAG
                     \/ Byte = ESC_ESC /\ Here = ESC
      BY <1>2, <2>5, ByteIs
    <3>2. Current' = Current /\ Place' = Place + 1
      BY <2>2, <2>5
    <3>3. CASE Half
      <4>1. SecondOfTwo
        BY <2>2, <3>1, <3>2, <3>3 DEF SecondOfTwo
      <4> QED BY <2>2, <4>1
    <3>4. CASE ~Half
      <4>1. PlainByte
        BY <2>2, <3>1, <3>2, <3>4 DEF PlainByte
      <4> QED BY <2>2, <4>1
    <3> QED BY <3>3, <3>4
  <2> QED BY <2>3, <2>4, <2>5
<1>3. CASE Len(Symbol.octets) # 1
  <2>1. Place # 0 /\ Place # End(sent[Current])
    BY <1>3, ByteIs
  <2>2. /\ Between /\ ~Half /\ Here \in {FLAG, ESC} /\ Byte = ESC
        /\ Len(Full(sent[Current], Place)) = 2
    BY <1>3, <2>1, ByteIs
  <2>3. wire' = [wire EXCEPT ![1].octets = Tail(@)]
    BY <1>3 DEF Rest
  <2>4. /\ wire' \in Seq(Symbols) /\ WireInv' /\ Half'
        /\ Current' = Current /\ Place' = Place
    BY <2>2, <2>3, HalfGone
  <2>5. FirstOfTwo
    BY <2>2, <2>4 DEF FirstOfTwo
  <2> QED BY <2>4, <2>5
<1> QED BY <1>2, <1>3

-----------------------------------------------------------------------------
(* What holds of the line whatever damage does.                            *)

LineInv ==
  /\ TypeOK /\ WireInv
  /\ s_seq = Len(sent) % 256
  /\ \A k \in DOMAIN sent : /\ sent[k].seq = (k - 1) % 256
                           /\ \E p \in Payloads : sent[k].arg = p.arg

\* A frame on the line: its symbols, in order and whole.
LEMMA EncodeFacts ==
  ASSUME NEW f \in Frame, NEW k \in Nat
  PROVE  /\ Encode(f, k) \in Seq(Symbols) /\ Len(Encode(f, k)) = End(f) + 1
         /\ \A i \in 1 .. End(f) + 1 : /\ Encode(f, k)[i].octets = Full(f, i - 1)
                                       /\ Encode(f, k)[i].frame = k
                                       /\ Encode(f, k)[i].at = i - 1
<1> DEFINE N == End(f) + 1
           enc == [i \in 1 .. N |-> [octets |-> Full(f, i - 1), frame |-> k, at |-> i - 1]]
<1>1. N \in Nat /\ Len(Inner(f)) + 2 = N
  BY InnerFacts, FrameFacts DEF End
<1>2. Encode(f, k) = enc
  BY <1>1 DEF Encode, Full
<1>3. ASSUME NEW i \in 1 .. N
      PROVE  [octets |-> Full(f, i - 1), frame |-> k, at |-> i - 1] \in Symbols
  <2>1. i - 1 \in 0 .. End(f) /\ i - 1 \in Nat
    BY <1>1, FrameFacts DEF End
  <2>2. Full(f, i - 1) \in Seq(Octet)
    BY <2>1, FullFacts
  <2> QED BY <2>1, <2>2 DEF Symbols
<1>4. enc \in [1 .. N -> Symbols]
  BY <1>3
<1>5. enc \in Seq(Symbols) /\ Len(enc) = N
  <2> HIDE DEF enc, N
  <2>1. enc \in Seq(Symbols)
    BY <1>1, <1>4, SeqDef
  <2>2. DOMAIN enc = 1 .. N
    BY <1>4
  <2>3. Len(enc) \in Nat /\ 1 .. Len(enc) = 1 .. N
    BY <2>1, <2>2, LenProperties
  <2> QED BY <1>1, <2>1, <2>3
<1>6. \A i \in 1 .. N : /\ enc[i].octets = Full(f, i - 1)
                        /\ enc[i].frame = k /\ enc[i].at = i - 1
  OBVIOUS
<1> QED BY <1>2, <1>5, <1>6

\* A frame more on the line moves nobody's place.
LEMMA FrameAdded ==
  ASSUME TypeOK, WireInv, NEW f \in Frame,
         wire' = wire \o Encode(f, Len(sent) + 1), sent' = Append(sent, f)
  PROVE  /\ wire' \in Seq(Symbols) /\ WireInv'
         /\ Current' = Current /\ Place' = Place /\ Half' = Half
<1> DEFINE enc == Encode(f, Len(sent) + 1)
<1>1. wire \in Seq(Symbols) /\ sent \in Seq(Frame)
  BY DEF TypeOK
<1>2. PICK n \in Nat, N \in Nat, top \in Nat : n = Len(wire) /\ N = Len(sent) /\ top = End(f)
  <2>1. Len(wire) \in Nat /\ Len(sent) \in Nat
    BY <1>1
  <2>2. End(f) \in Nat
    BY FrameFacts DEF End
  <2> QED BY <2>1, <2>2
<1>3. /\ enc \in Seq(Symbols) /\ Len(enc) = top + 1
      /\ \A i \in 1 .. top + 1 : /\ enc[i].octets = Full(f, i - 1)
                                 /\ enc[i].frame = N + 1 /\ enc[i].at = i - 1
  <2>1. N + 1 \in Nat
    BY <1>2
  <2>2. enc = Encode(f, N + 1)
    BY <1>2
  <2> HIDE DEF enc
  <2> QED BY <1>2, <2>1, <2>2, EncodeFacts
<1> HIDE DEF enc
<1>4. /\ wire' \in Seq(Symbols) /\ Len(wire') = n + (top + 1)
      /\ \A j \in 1 .. n + (top + 1) : wire'[j] = IF j <= n THEN wire[j] ELSE enc[j - n]
  <2>1. /\ wire \o enc \in Seq(Symbols) /\ Len(wire \o enc) = Len(wire) + Len(enc)
        /\ \A j \in 1 .. Len(wire) + Len(enc) :
             (wire \o enc)[j] = IF j <= Len(wire) THEN wire[j] ELSE enc[j - Len(wire)]
    BY <1>1, <1>3, ConcatProperties
  <2>2. wire' = wire \o enc
    BY DEF enc
  <2> QED BY <1>2, <1>3, <2>1, <2>2
<1>5. /\ DOMAIN wire = 1 .. n /\ DOMAIN wire' = 1 .. n + (top + 1)
      /\ DOMAIN sent = 1 .. N /\ DOMAIN sent' = 1 .. N + 1
      /\ \A k \in 1 .. N : sent'[k] = sent[k]
      /\ sent'[N + 1] = f /\ Len(sent') = N + 1
  BY <1>1, <1>2, <1>4, AppendProperties, LenProperties
<1>6. ASSUME NEW j \in DOMAIN wire', j <= n
      PROVE  /\ j \in DOMAIN wire /\ wire'[j] = wire[j] /\ wire[j].frame \in 1 .. N
             /\ sent'[wire[j].frame] = sent[wire[j].frame]
  <2>1. j \in DOMAIN wire /\ wire'[j] = wire[j]
    BY <1>2, <1>4, <1>5, <1>6
  <2>2. WholeSymbol(j)
    BY <2>1 DEF WireInv
  <2>3. wire[j].frame \in 1 .. N
    BY <1>5, <2>2 DEF WholeSymbol
  <2> QED BY <1>5, <2>1, <2>3
<1>7. ASSUME NEW j \in DOMAIN wire', ~(j <= n)
      PROVE  /\ wire'[j].frame = N + 1 /\ wire'[j].at = j - n - 1 /\ j - n - 1 \in 0 .. top
             /\ wire'[j].octets = Full(f, j - n - 1)
  <2>1. PICK i \in 1 .. top + 1 : i = j - n
    BY <1>2, <1>5, <1>7
  <2>2. wire'[j] = enc[i]
    BY <1>4, <1>5, <1>7, <2>1
  <2> QED BY <1>2, <1>3, <2>1, <2>2
<1>8. ASSUME NEW j \in DOMAIN wire'
      PROVE  WholeSymbol(j)'
  <2>1. CASE j <= n
    <3>1. WholeSymbol(j)
      BY <1>6, <2>1 DEF WireInv
    <3>2. wire'[j].frame \in DOMAIN sent'
      BY <1>2, <1>5, <1>6, <2>1
    <3> QED BY <1>6, <2>1, <3>1, <3>2 DEF WholeSymbol
  <2>2. CASE ~(j <= n)
    <3>1. wire'[j].frame \in DOMAIN sent' /\ sent'[wire'[j].frame] = f
      <4>1. wire'[j].frame = N + 1
        BY <1>7, <2>2
      <4>2. N + 1 \in DOMAIN sent' /\ sent'[N + 1] = f
        BY <1>2, <1>5
      <4> QED BY <4>1, <4>2
    <3> QED BY <1>2, <1>7, <2>2, <3>1 DEF WholeSymbol
  <2> QED BY <2>1, <2>2
<1>9. ASSUME NEW j \in DOMAIN wire', j > 1
      PROVE  Follows(wire[j - 1], wire[j])'
  <2>1. PICK p \in DOMAIN wire' : p = j - 1
    BY <1>2, <1>5, <1>9
  <2>2. CASE j <= n
    <3>1. Follows(wire[j - 1], wire[j])
      BY <1>6, <1>9, <2>2 DEF WireInv
    <3>2. p <= n
      BY <1>2, <1>5, <2>1, <2>2
    <3>3. wire'[p] = wire[p] /\ wire'[j] = wire[j] /\ sent'[wire[p].frame] = sent[wire[p].frame]
      BY <1>6, <2>2, <3>2
    <3> QED BY <2>1, <3>1, <3>3 DEF Follows
  <2>3. CASE j = n + 1
    <3>1. p = n /\ p <= n /\ j - n - 1 = 0 /\ ~(j <= n)
      BY <1>2, <1>5, <2>1, <2>3
    <3>2. wire'[p] = wire[n] /\ sent'[wire[p].frame] = sent[wire[p].frame] /\ wire # <<>>
      <4>1. p \in DOMAIN wire
        BY <1>6, <3>1
      <4>2. DOMAIN <<>> = {}
        OBVIOUS
      <4> QED BY <1>6, <3>1, <4>1, <4>2
    <3>3. wire[n].frame = N /\ wire[n].at = End(sent[N])
      BY <1>2, <3>2 DEF WireInv
    <3>4. wire'[j].frame = N + 1 /\ wire'[j].at = 0
      BY <1>7, <3>1
    <3>5. wire'[p].frame = N /\ wire'[p].at = End(sent'[N])
      BY <3>1, <3>2, <3>3
    <3> QED BY <2>1, <3>4, <3>5 DEF Follows
  <2>4. CASE j > n + 1
    <3>1. ~(p <= n) /\ ~(j <= n) /\ (j - n - 1) = (p - n - 1) + 1
      <4>1. j \in Int /\ p = j - 1 /\ n \in Nat
        BY <1>2, <1>5, <2>1
      <4> QED BY <2>4, <4>1
    <3>2. /\ wire'[p].frame = N + 1 /\ wire'[p].at = p - n - 1
          /\ wire'[j].frame = N + 1 /\ wire'[j].at = (p - n - 1) + 1
      BY <1>7, <3>1
    <3>3. End(sent'[N + 1]) = top /\ p - n - 1 # top
      <4>1. j <= n + (top + 1)
        BY <1>2, <1>5
      <4> QED BY <1>2, <1>5, <2>1, <2>4, <4>1
    <3> QED BY <2>1, <3>2, <3>3 DEF Follows
  <2>5. j \in Int
    BY <1>5
  <2>6. j <= n \/ j = n + 1 \/ j > n + 1
    BY <1>2, <2>5
  <2> QED BY <2>2, <2>3, <2>4, <2>6
<1>10. /\ wire' # <<>>
       /\ wire'[Len(wire')].frame = Len(sent') /\ wire'[Len(wire')].at = End(sent'[Len(sent')])
  <2>1. PICK j \in DOMAIN wire' : j = Len(wire') /\ ~(j <= n) /\ j - n - 1 = top
    BY <1>2, <1>4, <1>5
  <2>2. DOMAIN <<>> = {}
    OBVIOUS
  <2> QED BY <1>2, <1>5, <1>7, <2>1, <2>2
<1>11. WireInv'
  BY <1>8, <1>9, <1>10 DEF WireInv
<1>12. CASE wire = <<>>
  <2>1. n = 0
    BY <1>2, <1>12, EmptySeq
  <2>2. 1 \in DOMAIN wire' /\ ~(1 <= n) /\ 1 - n - 1 = 0
    BY <1>2, <1>5, <2>1
  <2>3. /\ wire'[1].frame = N + 1 /\ wire'[1].at = 0 /\ wire'[1].octets = Full(f, 0)
    BY <1>7, <2>2
  <2>4. Current' = N + 1 /\ Place' = 0
    BY <1>10, <2>3 DEF Current, Place
  <2>5. Half' = FALSE
    BY <1>5, <1>10, <2>3 DEF Half
  <2>6. Half = FALSE
    BY <1>12 DEF Half
  <2> QED BY <1>2, <1>4, <1>11, <1>12, <2>4, <2>5, <2>6 DEF Current, Place
<1>13. CASE wire # <<>>
  <2>1. 1 <= n
    BY <1>1, <1>2, <1>13, EmptySeq
  <2>2. 1 \in DOMAIN wire'
    BY <1>2, <1>5, <2>1
  <2>3. wire'[1] = wire[1] /\ sent'[wire[1].frame] = sent[wire[1].frame]
    BY <1>6, <2>1, <2>2
  <2>4. Current' = Current /\ Place' = Place
    BY <1>10, <1>13, <2>3 DEF Current, Place
  <2>5. Half' = Half
    BY <1>10, <1>13, <2>3 DEF Half
  <2> QED BY <1>4, <1>11, <2>4, <2>5
<1> QED BY <1>12, <1>13

\* The decoder yields the frame it holds, on a flag, if it accepts it; nothing else.
Yields(b) ==
  /\ b = FLAG /\ in /\ buf # <<>> /\ ~bad /\ ~esc /\ Accepted(buf)
  /\ decoded' = Append(decoded, Decode(buf))

\* What an accepted frame is taken for has the fields of one.
LEMMA DecodeType ==
  ASSUME NEW s \in Seq(Octet), Accepted(s)
  PROVE  Decode(s) \in Fields
<1>1. Len(s) >= 8
  BY AcceptedLength
<1>2. \A i \in 1 .. Len(s) : s[i] \in Octet
  BY ElementOfSeq
<1>3. s[1] \in Octet /\ s[2] \in Octet /\ \A i \in 4 .. Len(s) - 1 : s[i] \in Octet
  BY <1>1, <1>2
<1>4. SubSeq(s, 4, Len(s) - 1) \in Seq(Octet)
  BY <1>1, <1>3, SubSeqProperties
<1> QED BY <1>3, <1>4 DEF Decode, Fields

\* A byte fed keeps the decoder's types, and yields at most one frame.
LEMMA FeedFacts ==
  ASSUME TypeOK, NEW b \in Octet, Feed(b)
  PROVE  /\ in' \in BOOLEAN /\ esc' \in BOOLEAN /\ bad' \in BOOLEAN /\ buf' \in Seq(Octet)
         /\ decoded' \in Seq(Fields)
         /\ decoded' = decoded \/ Yields(b)
<1>1. /\ in \in BOOLEAN /\ esc \in BOOLEAN /\ bad \in BOOLEAN /\ buf \in Seq(Octet)
      /\ decoded \in Seq(Fields)
  BY DEF TypeOK
<1>2. CASE FeedFlag(b)
  <2>1. in' \in BOOLEAN /\ esc' \in BOOLEAN /\ bad' \in BOOLEAN /\ buf' \in Seq(Octet)
    <3>1. <<>> \in Seq(Octet)
      BY EmptySeq
    <3> QED BY <1>2, <3>1 DEF FeedFlag
  <2>2. decoded' = decoded \/ Yields(b)
    BY <1>2 DEF FeedFlag, Yields
  <2>3. Yields(b) => decoded' \in Seq(Fields)
    BY <1>1, DecodeType, AppendProperties DEF Yields
  <2> QED BY <1>1, <2>1, <2>2, <2>3
<1>3. CASE FeedOutside(b)
  BY <1>1, <1>3 DEF FeedOutside, decoderVars
<1>4. CASE FeedEscaped(b)
  <2>1. buf' = buf \/ buf' = Append(buf, FLAG) \/ buf' = Append(buf, ESC)
    BY <1>4 DEF FeedEscaped
  <2>2. \A x \in Octet : Append(buf, x) \in Seq(Octet)
    BY <1>1, AppendProperties
  <2>3. buf' \in Seq(Octet)
    BY <1>1, <2>1, <2>2, Specials
  <2> QED BY <1>1, <1>4, <2>3 DEF FeedEscaped
<1>5. CASE FeedEscape(b)
  BY <1>1, <1>5 DEF FeedEscape
<1>6. CASE FeedPlain(b)
  <2>1. buf' \in Seq(Octet)
    BY <1>1, <1>6, AppendProperties DEF FeedPlain
  <2> QED BY <1>1, <1>6, <2>1 DEF FeedPlain
<1> QED BY <1>2, <1>3, <1>4, <1>5, <1>6 DEF Feed

\* Nobody's place moves, or one byte leaves the line.
Stays == Current' = Current /\ Place' = Place /\ Half' = Half
Moves == StartFlag \/ EndFlag \/ PlainByte \/ FirstOfTwo \/ SecondOfTwo

\* emit adds a frame to what was sent.
Sends == /\ \E f \in Frame : sent' = Append(sent, f)
         /\ UNCHANGED <<decoderVars, listening, historyVars>>

\* A step of the line, byte by byte.
ByteStep ==
  /\ wire # <<>> /\ sent' = sent
  /\ \/ Moves /\ Miss
     \/ Moves /\ Deliver /\ Feed(Byte)
     \/ Moves /\ LoseByte
     \/ Moves /\ \E b \in Noise : ChangeByte(b)
     \/ Stays /\ \E b \in Noise : AddByte(b)

\* The line and the types keep, and every step is one of these.
LEMMA LineInvStep ==
  ASSUME LineInv, [Next]_vars
  PROVE  /\ LineInv'
         /\ \/ Stays /\ Sends
            \/ Stays /\ UNCHANGED <<decoderVars, sent, historyVars>>
            \/ ByteStep
<1>1. /\ TypeOK /\ WireInv /\ s_seq = Len(sent) % 256 /\ s_seq \in Octet
      /\ \A k \in DOMAIN sent : /\ sent[k].seq = (k - 1) % 256
                               /\ \E q \in Payloads : sent[k].arg = q.arg
      /\ wire \in Seq(Symbols) /\ sent \in Seq(Frame) /\ Len(sent) \in Nat
  <2>1. TypeOK /\ WireInv /\ s_seq = Len(sent) % 256
    BY DEF LineInv
  <2>2. \A k \in DOMAIN sent : /\ sent[k].seq = (k - 1) % 256
                               /\ \E q \in Payloads : sent[k].arg = q.arg
    BY DEF LineInv
  <2>3. s_seq \in Octet /\ wire \in Seq(Symbols) /\ sent \in Seq(Frame)
    BY <2>1 DEF TypeOK
  <2> QED BY <2>1, <2>2, <2>3
<1>2. ASSUME UNCHANGED <<s_seq, wire, sent>>
      PROVE  /\ Stays /\ WireInv' /\ wire' \in Seq(Symbols) /\ s_seq' = Len(sent') % 256
             /\ \A k \in DOMAIN sent' : /\ sent'[k].seq = (k - 1) % 256
                                       /\ \E q \in Payloads : sent'[k].arg = q.arg
  <2>1. Stays
    BY <1>2 DEF Stays, Current, Place, Half
  <2>2. WireInv'
    BY <1>1, <1>2 DEF WireInv, WholeSymbol, Follows
  <2> QED BY <1>1, <1>2, <2>1, <2>2
<1>3. CASE UNCHANGED vars
  <2>1. UNCHANGED <<s_seq, wire, decoderVars, listening, sent, historyVars>>
    BY <1>3 DEF vars
  <2>2. TypeOK'
    BY <1>1, <2>1 DEF TypeOK, decoderVars, historyVars
  <2> QED BY <1>2, <2>1, <2>2 DEF LineInv
<1>4. ASSUME NEW p \in Payloads, NEW f, f = [type |-> p.type, seq |-> s_seq, arg |-> p.arg],
             EmitTaken(f)
      PROVE  LineInv' /\ Stays /\ Sends
  <2>1. f \in Frame
    <3>1. /\ p.type \in Octet /\ p.arg \in Seq(Octet)
          /\ Len(p.arg) >= 4 /\ Len(p.arg) \in Octet
      BY PayloadsAssumption
    <3> QED BY <1>1, <1>4, <3>1 DEF Frame
  <2>2. /\ wire' = wire \o Encode(f, Len(sent) + 1) /\ sent' = Append(sent, f)
        /\ s_seq' = (s_seq + 1) % 256
        /\ UNCHANGED <<decoderVars, listening, historyVars>>
    BY <1>4 DEF EmitTaken
  <2>3. wire' \in Seq(Symbols) /\ WireInv' /\ Stays
    BY <1>1, <2>1, <2>2, FrameAdded DEF Stays
  <2>4. Sends
    BY <2>1, <2>2 DEF Sends
  <2>5. PICK N \in Nat : N = Len(sent)
    BY <1>1
  <2>6. /\ sent' \in Seq(Frame) /\ Len(sent') = N + 1 /\ DOMAIN sent' = 1 .. N + 1
        /\ DOMAIN sent = 1 .. N
        /\ \A k \in 1 .. N : sent'[k] = sent[k]
        /\ sent'[N + 1] = f
    BY <1>1, <2>1, <2>2, <2>5, AppendProperties, LenProperties
  <2>7. s_seq' = (N + 1) % 256 /\ s_seq' \in Octet
    <3>1. PICK R \in Nat \ {0} : R = 256
      OBVIOUS
    <3>2. s_seq = N % R
      BY <1>1, <2>5, <3>1
    <3>3. ((N % R) + 1) % R = (N + 1) % R
      <4>1. PICK q \in Int, r \in 0 .. R - 1 : q = N \div R /\ r = N % R
        <5>1. N \div R \in Int /\ N % R \in 0 .. R - 1
          BY DivMod
        <5> QED BY <5>1
      <4>2. N = q * R + r
        BY <4>1, DivMod
      <4>3. PICK w \in Int, s \in 0 .. R - 1 : w = (r + 1) \div R /\ s = (r + 1) % R
        BY DivMod
      <4>4. r + 1 = w * R + s
        BY <4>3, DivMod
      <4>5. PICK v \in Int : v = q + w
        OBVIOUS
      <4>6. N + 1 = v * R + s
        BY <4>2, <4>4, <4>5
      <4>7. (N + 1) % R = s
        <5>1. PICK M \in Int : M = N + 1
          OBVIOUS
        <5>2. M = v * R + s
          BY <4>6, <5>1
        <5>3. M % R = s
          BY <5>2, ModUnique
        <5> QED BY <5>1, <5>3
      <4> QED BY <4>1, <4>3, <4>7
    <3>4. s_seq' = (N + 1) % R
      BY <2>2, <3>1, <3>2, <3>3
    <3>5. (N + 1) % R \in 0 .. R - 1
      BY DivMod
    <3> QED BY <3>1, <3>4, <3>5, OctetIs
  <2>8. \A k \in DOMAIN sent' : /\ sent'[k].seq = (k - 1) % 256
                                /\ \E q \in Payloads : sent'[k].arg = q.arg
    <3> SUFFICES ASSUME NEW k \in 1 .. N + 1
                 PROVE  /\ sent'[k].seq = (k - 1) % 256
                        /\ \E q \in Payloads : sent'[k].arg = q.arg
      BY <2>6
    <3>1. CASE k \in 1 .. N
      BY <1>1, <2>6, <3>1
    <3>2. CASE k = N + 1
      <4>1. sent'[k].seq = s_seq /\ k - 1 = N /\ sent'[k].arg = p.arg
        BY <1>4, <2>6, <3>2
      <4> QED BY <1>1, <2>5, <4>1
    <3> QED BY <3>1, <3>2
  <2>9. TypeOK'
    BY <1>1, <2>2, <2>3, <2>6, <2>7 DEF TypeOK, decoderVars, historyVars
  <2> QED BY <2>3, <2>4, <2>5, <2>6, <2>7, <2>8, <2>9 DEF LineInv
<1>5. CASE Open
  <2>1. UNCHANGED <<s_seq, wire, decoderVars, sent, historyVars>> /\ listening' = TRUE
    BY <1>5 DEF Open
  <2>2. TypeOK'
    BY <1>1, <2>1 DEF TypeOK, decoderVars, historyVars
  <2> QED BY <1>2, <2>1, <2>2 DEF LineInv
<1>6. ASSUME wire # <<>>, wire' = Rest, UNCHANGED <<s_seq, sent>>
      PROVE  /\ Moves /\ WireInv' /\ wire' \in Seq(Symbols) /\ s_seq' = Len(sent') % 256
             /\ \A k \in DOMAIN sent' : /\ sent'[k].seq = (k - 1) % 256
                                       /\ \E q \in Payloads : sent'[k].arg = q.arg
  BY <1>1, <1>6, ByteLeaves DEF Moves
<1>7. ASSUME wire # <<>>, NEW yes \in BOOLEAN
      PROVE  OnlyIf(yes) \in SUBSET Nat /\ Byte \in Octet
  BY <1>1, <1>7, FirstSymbol, ByteIs DEF OnlyIf
<1>8. CASE Miss
  <2>1. /\ wire # <<>> /\ wire' = Rest /\ spoilt' = spoilt \cup {Symbol.frame}
        /\ UNCHANGED <<s_seq, decoderVars, listening, sent, hurt, shifted, damages>>
    BY <1>8 DEF Miss
  <2>2. spoilt' \in SUBSET Nat
    <3>1. Symbol.frame \in Nat
      BY <1>1, <2>1, FirstSymbol
    <3>2. spoilt \in SUBSET Nat
      BY <1>1 DEF TypeOK
    <3> QED BY <2>1, <3>1, <3>2
  <2>3. TypeOK'
    BY <1>1, <1>6, <2>1, <2>2 DEF TypeOK, decoderVars
  <2> QED BY <1>6, <1>8, <2>1, <2>3 DEF LineInv, ByteStep
<1>9. CASE Deliver
  <2>1. /\ wire # <<>> /\ wire' = Rest /\ Feed(Byte)
        /\ UNCHANGED <<s_seq, listening, sent, historyVars>>
    BY <1>9 DEF Deliver
  <2>2. Byte \in Octet
    BY <1>1, <2>1, ByteIs
  <2>3. TypeOK'
    BY <1>1, <1>6, <2>1, <2>2, FeedFacts DEF TypeOK, historyVars
  <2> QED BY <1>6, <1>9, <2>1, <2>3 DEF LineInv, ByteStep
<1>10. ASSUME NEW x, NEW y, NEW z, Damage(x, y, z), wire # <<>>, z \in BOOLEAN
       PROVE  /\ spoilt' \in SUBSET Nat /\ hurt' \in SUBSET Nat /\ shifted' \in BOOLEAN
              /\ damages' \in Nat /\ UNCHANGED <<s_seq, listening, sent>>
  <2>1. /\ spoilt' = spoilt \cup OnlyIf(x) /\ hurt' = hurt \cup OnlyIf(y)
        /\ shifted' = (shifted \/ z) /\ damages' = damages + 1
        /\ UNCHANGED <<s_seq, listening, sent>>
    BY <1>10 DEF Damage
  <2>2. OnlyIf(x) \in SUBSET Nat /\ OnlyIf(y) \in SUBSET Nat
    BY <1>1, <1>10, FirstSymbol DEF OnlyIf
  <2>3. shifted' \in BOOLEAN /\ damages' \in Nat
    BY <1>1, <1>10, <2>1 DEF TypeOK
  <2> QED BY <1>1, <2>1, <2>2, <2>3 DEF TypeOK
<1>11. CASE LoseByte
  <2>1. /\ wire # <<>> /\ wire' = Rest /\ Damage(TRUE, Inside, BeforeLen)
        /\ UNCHANGED decoderVars
    BY <1>11 DEF LoseByte
  <2>2. BeforeLen \in BOOLEAN
    BY DEF BeforeLen
  <2>3. /\ spoilt' \in SUBSET Nat /\ hurt' \in SUBSET Nat /\ shifted' \in BOOLEAN
        /\ damages' \in Nat /\ UNCHANGED <<s_seq, listening, sent>>
    BY <1>10, <2>1, <2>2
  <2>4. TypeOK'
    BY <1>1, <1>6, <2>1, <2>3 DEF TypeOK, decoderVars
  <2> QED BY <1>6, <2>3, <2>4, <1>11, <2>1 DEF LineInv, ByteStep
<1>12. ASSUME NEW b \in Noise, ChangeByte(b)
       PROVE  LineInv' /\ ByteStep
  <2> DEFINE moves == Symbol.at = 0 \/ (BeforeLen /\ (b \in {FLAG, ESC} \/ Byte = ESC))
  <2>1. /\ wire # <<>> /\ wire' = Rest /\ Damage(TRUE, Inside, moves)
        /\ Feed(b) /\ moves \in BOOLEAN
    BY <1>12 DEF ChangeByte, BeforeLen
  <2> HIDE DEF moves
  <2>2. b \in Octet
    BY NoiseAssumption
  <2>3. TypeOK'
    <3>1. /\ in' \in BOOLEAN /\ esc' \in BOOLEAN /\ bad' \in BOOLEAN /\ buf' \in Seq(Octet)
          /\ decoded' \in Seq(Fields)
      BY <1>1, <2>1, <2>2, FeedFacts
    <3>2. /\ spoilt' \in SUBSET Nat /\ hurt' \in SUBSET Nat /\ shifted' \in BOOLEAN
          /\ damages' \in Nat /\ UNCHANGED <<s_seq, listening, sent>>
      BY <1>10, <2>1
    <3>3. wire' \in Seq(Symbols)
      BY <1>6, <2>1, <3>2
    <3> QED BY <1>1, <3>1, <3>2, <3>3 DEF TypeOK
  <2> QED BY <1>6, <1>10, <1>12, <2>1, <2>3 DEF LineInv, ByteStep
<1>13. ASSUME NEW b \in Noise, AddByte(b)
       PROVE  LineInv' /\ ByteStep
  <2>1. /\ wire # <<>> /\ wire' = wire /\ Damage(Symbol.at # 0, Inside /\ (b = FLAG => Symbol.at > 1), BeforeLen)
        /\ Feed(b) /\ BeforeLen \in BOOLEAN
    BY <1>13 DEF AddByte, BeforeLen
  <2>2. b \in Octet
    BY NoiseAssumption
  <2>3. UNCHANGED <<s_seq, sent>>
    BY <1>10, <2>1
  <2>4. TypeOK'
    BY <1>1, <1>10, <2>1, <2>2, FeedFacts DEF TypeOK
  <2> QED BY <1>2, <1>13, <2>1, <2>3, <2>4 DEF LineInv, ByteStep
<1>14. CASE Emit
  <2>1. PICK p \in Payloads :
          \/ EmitTaken([type |-> p.type, seq |-> s_seq, arg |-> p.arg])
          \/ EmitRefused([type |-> p.type, seq |-> s_seq, arg |-> p.arg])
    BY <1>14 DEF Emit
  <2>2. PICK f : f = [type |-> p.type, seq |-> s_seq, arg |-> p.arg]
    OBVIOUS
  <2>3. CASE EmitTaken(f)
    BY <1>4, <2>2, <2>3
  <2>4. CASE EmitRefused(f)
    BY <1>3, <2>4 DEF EmitRefused
  <2> QED BY <2>1, <2>2, <2>3, <2>4
<1> QED BY <1>3, <1>5, <1>8, <1>9, <1>11, <1>12, <1>13, <1>14 DEF Next, Line

-----------------------------------------------------------------------------
(* An intact frame is decoded.                                             *)

\* What is collected are the first n bytes of frame f.
Prefix(f, n) == Len(buf) = n /\ \A i \in 1 .. n : buf[i] = Inner(f)[i]

\* The decoder has followed f from its first flag to place a.
Exact(f, a, h) == in /\ ~bad /\ esc = h /\ Prefix(f, a - 1)

\* The decoder follows each frame of which every byte came; those that are
\* past it has decoded.
IntactInv ==
  /\ Place # 0 /\ Current \notin spoilt => Exact(sent[Current], Place, Half)
  /\ \A k \in 1 .. Current - 1 :
       k \notin spoilt => \E j \in DOMAIN decoded : decoded[j] = sent[k]

\* What feed does with a byte, by its value and the decoder's state.
LEMMA FeedIs ==
  ASSUME bad \in BOOLEAN, NEW b, Feed(b)
  PROVE  /\ b = FLAG => in' = TRUE /\ esc' = FALSE /\ bad' = FALSE /\ buf' = <<>>
         /\ b # FLAG => in' = in /\ decoded' = decoded
         /\ b # FLAG /\ ~in => UNCHANGED <<esc, bad, buf>>
         /\ b # FLAG /\ in /\ esc =>
              /\ esc' = FALSE
              /\ b = ESC_FLAG => buf' = Append(buf, FLAG) /\ bad' = bad
              /\ b = ESC_ESC => buf' = Append(buf, ESC) /\ bad' = bad
              /\ b \notin {ESC_FLAG, ESC_ESC} => buf' = buf /\ bad' = TRUE
         /\ b = ESC /\ in /\ ~esc => esc' = TRUE /\ UNCHANGED <<bad, buf>>
         /\ b \notin {FLAG, ESC} /\ in /\ ~esc => buf' = Append(buf, b) /\ UNCHANGED <<esc, bad>>
<1>1. CASE FeedFlag(b)
  BY <1>1, Specials DEF FeedFlag
<1>2. CASE FeedOutside(b)
  BY <1>2, Specials DEF FeedOutside, decoderVars
<1>3. CASE FeedEscaped(b)
  <2>1. /\ b # FLAG /\ in /\ esc /\ esc' = FALSE /\ UNCHANGED <<in, decoded>>
        /\ bad' = (bad \/ b \notin {ESC_FLAG, ESC_ESC})
        /\ buf' = CASE b = ESC_FLAG -> Append(buf, FLAG)
                    [] b = ESC_ESC  -> Append(buf, ESC)
                    [] OTHER        -> buf
    BY <1>3 DEF FeedEscaped
  <2>2. CASE b = ESC_FLAG
    BY <2>1, <2>2, Specials
  <2>3. CASE b = ESC_ESC
    BY <2>1, <2>3, Specials
  <2>4. CASE b \notin {ESC_FLAG, ESC_ESC}
    BY <2>1, <2>4, Specials
  <2> QED BY <2>2, <2>3, <2>4
<1>4. CASE FeedEscape(b)
  BY <1>4, Specials DEF FeedEscape
<1>5. CASE FeedPlain(b)
  BY <1>5, Specials DEF FeedPlain
<1> QED BY <1>1, <1>2, <1>3, <1>4, <1>5 DEF Feed

\* A flag closes what is collected, once.
LEMMA FlagYields ==
  ASSUME Feed(FLAG)
  PROVE  decoded' = IF in /\ buf # <<>> /\ ~bad /\ ~esc /\ Accepted(buf)
                    THEN Append(decoded, Decode(buf)) ELSE decoded
BY Specials DEF Feed, FeedFlag, FeedOutside, FeedEscaped, FeedEscape, FeedPlain

\* The next byte of f makes a longer prefix of it.
LEMMA PrefixGrows ==
  ASSUME TypeOK, NEW f \in Frame, NEW n \in Nat, Prefix(f, n), n < Len(f.arg) + 4,
         buf' = Append(buf, Inner(f)[n + 1])
  PROVE  Prefix(f, n + 1)'
<1>1. PICK m \in Nat : m = n + 1
  OBVIOUS
<1>2. m \in 1 .. Len(f.arg) + 4
  BY <1>1, FrameFacts
<1>3. Inner(f)[m] \in Octet
  BY <1>2, InnerFacts
<1>4. buf \in Seq(Octet) /\ buf' = Append(buf, Inner(f)[m])
  BY <1>1 DEF TypeOK
<1>5. /\ Len(buf') = Len(buf) + 1
      /\ \A i \in 1 .. Len(buf) : buf'[i] = buf[i]
      /\ buf'[Len(buf) + 1] = Inner(f)[m]
  BY <1>3, <1>4, AppendProperties
<1>6. Len(buf) = n /\ \A i \in 1 .. n : buf[i] = Inner(f)[i]
  BY DEF Prefix
<1>7. Len(buf') = m /\ \A i \in 1 .. m : buf'[i] = Inner(f)[i]
  BY <1>1, <1>5, <1>6
<1>8. Prefix(f, m)'
  BY <1>7 DEF Prefix
<1> QED BY <1>1, <1>8

\* A prefix as long as the frame is the frame.
LEMMA PrefixIsInner ==
  ASSUME TypeOK, NEW f \in Frame, Prefix(f, Len(f.arg) + 4)
  PROVE  buf = Inner(f) /\ buf # <<>>
<1>1. buf \in Seq(Octet) /\ Inner(f) \in Seq(Octet) /\ Len(buf) = Len(Inner(f))
  BY InnerFacts DEF TypeOK, Prefix
<1>2. \A i \in 1 .. Len(buf) : buf[i] = Inner(f)[i]
  BY DEF Prefix
<1>3. buf = Inner(f)
  BY <1>1, <1>2, SeqEqual
<1>4. Len(buf) >= 8
  BY FrameFacts DEF Prefix
<1> QED BY <1>3, <1>4, EmptySeq

\* A frame whose every byte has come is yielded when its last flag comes.
LEMMA ExactYields ==
  ASSUME TypeOK, NEW f \in Frame, Exact(f, End(f), FALSE), Feed(FLAG)
  PROVE  decoded' = Append(decoded, f)
<1>1. End(f) - 1 = Len(f.arg) + 4
  BY FrameFacts DEF End
<1>2. in /\ ~bad /\ ~esc /\ Prefix(f, Len(f.arg) + 4)
  BY <1>1 DEF Exact
<1>3. buf = Inner(f) /\ buf # <<>>
  BY <1>2, PrefixIsInner
<1> QED BY <1>2, <1>3, FlagYields, InnerAccepted

\* After a flag nothing is collected, as at the first place of a frame.
LEMMA FlagStarts ==
  ASSUME TypeOK, NEW f \in Frame, Feed(FLAG)
  PROVE  Exact(f, 1, FALSE)'
<1>1. in' = TRUE /\ esc' = FALSE /\ bad' = FALSE /\ buf' = <<>>
  BY FeedIs DEF TypeOK
<1>2. Prefix(f, 0)'
  BY <1>1, EmptySeq DEF Prefix
<1>3. 1 - 1 = 0
  OBVIOUS
<1> QED BY <1>1, <1>2, <1>3 DEF Exact

\* The place is a number, and between two flags in a frame sent.
LEMMA PlaceType ==
  ASSUME TypeOK, WireInv
  PROVE  /\ Current \in 1 .. Len(sent) + 1 /\ Place \in Nat /\ Half \in BOOLEAN
         /\ Place # 0 => /\ wire # <<>> /\ Current \in DOMAIN sent /\ sent[Current] \in Frame
         /\ DOMAIN sent = 1 .. Len(sent) /\ Len(sent) \in Nat
<1>1. DOMAIN sent = 1 .. Len(sent) /\ Len(sent) \in Nat
  BY LenProperties DEF TypeOK
<1>2. Half \in BOOLEAN
  BY DEF Half
<1>3. CASE wire = <<>>
  BY <1>1, <1>2, <1>3 DEF Current, Place
<1>4. CASE wire # <<>>
  <2>1. Current \in DOMAIN sent /\ sent[Current] \in Frame /\ Place \in 0 .. End(sent[Current])
    BY <1>4, FirstSymbol
  <2>2. Place \in Nat
    BY <2>1
  <2> QED BY <1>1, <1>2, <1>4, <2>1, <2>2
<1> QED BY <1>3, <1>4

\* The decoder follows a byte of the frame it has followed so far.
LEMMA ExactFollows ==
  ASSUME TypeOK, WireInv, Place # 0, Exact(sent[Current], Place, Half), Feed(Byte), sent' = sent,
         PlainByte \/ FirstOfTwo \/ SecondOfTwo
  PROVE  Exact(sent[Current], Place, Half)' /\ decoded' = decoded
<1>1. PICK f \in Frame, a \in Nat : f = sent[Current] /\ a = Place
  BY PlaceType
<1>2. Len(f.arg) \in Nat
  BY FrameFacts
<1>3. in /\ ~bad /\ esc = Half /\ Prefix(f, a - 1)
  BY <1>1 DEF Exact
<1>4. /\ a \in 1 .. Len(f.arg) + 4 /\ Here = Inner(f)[a]
      /\ sent'[Current'] = f
  BY <1>1 DEF PlainByte, FirstOfTwo, SecondOfTwo, Between, Here
<1>H. Half' \in BOOLEAN /\ bad \in BOOLEAN /\ esc \in BOOLEAN
  BY DEF Half, TypeOK
<1>5. ASSUME buf' = Append(buf, Inner(f)[a])
      PROVE  Prefix(f, a)'
  <2>1. PICK n \in Nat : n = a - 1 /\ n + 1 = a
    BY <1>4
  <2>2. Prefix(f, n + 1)'
    BY <1>2, <1>3, <1>4, <1>5, <2>1, PrefixGrows
  <2> QED BY <2>1, <2>2
<1>6. CASE PlainByte
  <2>1. /\ Byte = Inner(f)[a] /\ Byte \notin {FLAG, ESC} /\ ~esc
        /\ Place' = a + 1 /\ ~Half'
    BY <1>1, <1>3, <1>4, <1>6 DEF PlainByte
  <2>2. in' = TRUE /\ ~bad' /\ ~esc' /\ buf' = Append(buf, Inner(f)[a]) /\ decoded' = decoded
    BY <1>3, <1>H, <2>1, FeedIs
  <2>3. Prefix(f, a)' /\ (a + 1) - 1 = a
    BY <1>5, <2>2
  <2>4. Half' = FALSE /\ esc' = FALSE
    BY <1>3, <1>H, <2>1, FeedIs, Specials
  <2> QED BY <1>4, <2>1, <2>2, <2>3, <2>4 DEF Exact
<1>7. CASE FirstOfTwo
  <2>1. Byte = ESC /\ ~esc /\ Place' = a /\ Half'
    BY <1>1, <1>3, <1>7 DEF FirstOfTwo
  <2>2. in' = TRUE /\ ~bad' /\ esc' /\ buf' = buf /\ decoded' = decoded
    BY <1>3, <1>H, <2>1, FeedIs, Specials
  <2>3. Prefix(f, a - 1)'
    BY <1>3, <2>2 DEF Prefix
  <2>4. Half' = TRUE /\ esc' = TRUE
    BY <1>3, <1>H, <2>1, FeedIs, Specials
  <2> QED BY <1>4, <2>1, <2>2, <2>3, <2>4 DEF Exact
<1>8. CASE SecondOfTwo
  <2>1. /\ (Byte = ESC_FLAG /\ Inner(f)[a] = FLAG) \/ (Byte = ESC_ESC /\ Inner(f)[a] = ESC)
        /\ esc /\ Place' = a + 1 /\ ~Half'
    BY <1>1, <1>3, <1>4, <1>8 DEF SecondOfTwo
  <2>2. in' = TRUE /\ ~bad' /\ ~esc' /\ buf' = Append(buf, Inner(f)[a]) /\ decoded' = decoded
    BY <1>3, <1>H, <2>1, FeedIs, Specials
  <2>3. Prefix(f, a)' /\ (a + 1) - 1 = a
    BY <1>5, <2>2
  <2>4. Half' = FALSE /\ esc' = FALSE
    BY <1>3, <1>H, <2>1, FeedIs, Specials
  <2> QED BY <1>4, <2>1, <2>2, <2>3, <2>4 DEF Exact
<1> QED BY <1>6, <1>7, <1>8

\* What has been decoded stays.
LEMMA DecodedGrows ==
  ASSUME TypeOK, NEW b \in Octet, Feed(b)
  PROVE  \A j \in DOMAIN decoded : j \in DOMAIN decoded' /\ decoded'[j] = decoded[j]
<1>1. CASE decoded' = decoded
  BY <1>1
<1>2. CASE Yields(b)
  <2>1. Decode(buf) \in Fields /\ decoded \in Seq(Fields)
    BY <1>2, DecodeType DEF Yields, TypeOK
  <2>2. decoded' = Append(decoded, Decode(buf))
    BY <1>2 DEF Yields
  <2>3. /\ decoded' \in Seq(Fields) /\ Len(decoded') = Len(decoded) + 1
        /\ \A j \in 1 .. Len(decoded) : decoded'[j] = decoded[j]
    BY <2>1, <2>2, AppendProperties
  <2>4. /\ DOMAIN decoded = 1 .. Len(decoded) /\ DOMAIN decoded' = 1 .. Len(decoded')
        /\ Len(decoded) \in Nat
    BY <2>1, <2>3, LenProperties
  <2> QED BY <2>3, <2>4
<1> QED BY <1>1, <1>2, FeedFacts

\* What a frame gone by without loss or damage is found as.
Found(k) == \E j \in DOMAIN decoded : decoded[j] = sent[k]

\* Where the line moves on, a frame that is spoilt is not looked for.
LEMMA SpoiltStep ==
  ASSUME LineInv, IntactInv, sent' = sent, Moves, spoilt' = spoilt \cup {Current},
         \A j \in DOMAIN decoded : j \in DOMAIN decoded' /\ decoded'[j] = decoded[j]
  PROVE  IntactInv'
<1>1. \A k \in 1 .. Current - 1 : k \notin spoilt => Found(k)'
  BY DEF IntactInv, Found
<1>2. Current \in Nat
  BY PlaceType DEF LineInv
<1>3. (Current' = Current + 1 /\ Place' = 0) \/ Current' = Current
  BY DEF Moves, StartFlag, EndFlag, PlainByte, FirstOfTwo, SecondOfTwo
<1>4. \A k \in 1 .. Current' - 1 : k \notin spoilt' => Found(k)'
  BY <1>1, <1>2, <1>3
<1>5. Place' # 0 => Current' \in spoilt'
  BY <1>3
<1> QED BY <1>4, <1>5 DEF IntactInv, Found

\* Every step keeps IntactInv.
LEMMA IntactStep ==
  ASSUME LineInv, IntactInv, [Next]_vars
  PROVE  IntactInv'
<1>0. /\ TypeOK /\ WireInv
      /\ Current \in 1 .. Len(sent) + 1 /\ Place \in Nat
      /\ Place # 0 => Current \in DOMAIN sent
      /\ DOMAIN sent = 1 .. Len(sent) /\ Len(sent) \in Nat
  BY PlaceType DEF LineInv
<1>1. CASE Stays /\ Sends
  <2>1. PICK f \in Frame : sent' = Append(sent, f)
    BY <1>1 DEF Sends
  <2>2. \A k \in DOMAIN sent : sent'[k] = sent[k]
    BY <1>0, <2>1, AppendProperties DEF TypeOK
  <2>3. UNCHANGED <<in, esc, bad, buf, decoded, spoilt>>
    BY <1>1 DEF Sends, decoderVars, historyVars
  <2>4. Place' # 0 /\ Current' \notin spoilt' => Exact(sent[Current], Place, Half)'
    BY <1>0, <1>1, <2>2, <2>3 DEF Stays, IntactInv, Exact, Prefix
  <2>5. ASSUME NEW k \in 1 .. Current' - 1, k \notin spoilt'
        PROVE  \E j \in DOMAIN decoded' : decoded'[j] = sent'[k]
    <3>1. k \in 1 .. Current - 1 /\ k \in DOMAIN sent
      BY <1>0, <1>1 DEF Stays
    <3> QED BY <2>2, <2>3, <2>5, <3>1 DEF IntactInv
  <2> QED BY <2>4, <2>5 DEF IntactInv
<1>2. CASE Stays /\ UNCHANGED <<decoderVars, sent, historyVars>>
  BY <1>2 DEF Stays, decoderVars, historyVars, IntactInv, Exact, Prefix
<1>3. ASSUME ByteStep
      PROVE  wire # <<>> /\ sent' = sent /\ Byte \in Octet /\ Symbol.frame = Current
             /\ Symbol.at = Place /\ sent[Current] \in Frame
  BY <1>0, <1>3, ByteIs, FirstSymbol DEF ByteStep
<1>4. CASE ByteStep /\ Moves /\ Miss
  BY <1>3, <1>4, SpoiltStep DEF Miss, decoderVars
<1>5. CASE ByteStep /\ Moves /\ LoseByte
  <2>1. spoilt' = spoilt \cup {Current} /\ decoded' = decoded
    BY <1>3, <1>5 DEF LoseByte, Damage, OnlyIf, decoderVars
  <2> QED BY <1>3, <1>5, <2>1, SpoiltStep
<1>6. ASSUME ByteStep, Moves, NEW b \in Noise, ChangeByte(b)
      PROVE  IntactInv'
  <2>1. spoilt' = spoilt \cup {Current} /\ Feed(b) /\ b \in Octet
    BY <1>3, <1>6, NoiseAssumption DEF ChangeByte, Damage, OnlyIf
  <2>2. \A j \in DOMAIN decoded : j \in DOMAIN decoded' /\ decoded'[j] = decoded[j]
    BY <1>0, <2>1, DecodedGrows
  <2> QED BY <1>3, <1>6, <2>1, <2>2, SpoiltStep
<1>7. ASSUME ByteStep, Stays, NEW b \in Noise, AddByte(b)
      PROVE  IntactInv'
  <2>1. /\ spoilt' = spoilt \cup OnlyIf(Place # 0) /\ Feed(b) /\ b \in Octet
        /\ Place # 0 => Current \in spoilt'
    BY <1>3, <1>7, NoiseAssumption DEF AddByte, Damage, OnlyIf
  <2>2. \A j \in DOMAIN decoded : j \in DOMAIN decoded' /\ decoded'[j] = decoded[j]
    BY <1>0, <2>1, DecodedGrows
  <2>3. Current' = Current /\ Place' = Place /\ sent' = sent
    BY <1>3, <1>7 DEF Stays
  <2>4. \A k \in 1 .. Current - 1 : k \notin spoilt' => Found(k)'
    BY <2>1, <2>2, <2>3 DEF IntactInv, Found
  <2> QED BY <2>1, <2>3, <2>4 DEF IntactInv, Found
<1>8. CASE ByteStep /\ Moves /\ Deliver /\ Feed(Byte)
  <2>1. spoilt' = spoilt /\ sent' = sent
    BY <1>8 DEF Deliver, historyVars
  <2>2. \A j \in DOMAIN decoded : j \in DOMAIN decoded' /\ decoded'[j] = decoded[j]
    BY <1>0, <1>3, <1>8, DecodedGrows
  <2>3. \A k \in 1 .. Current - 1 : k \notin spoilt' => Found(k)'
    BY <2>1, <2>2 DEF IntactInv, Found
  <2>4. CASE StartFlag
    <3>1. Current' = Current /\ Place' = 1 /\ ~Half' /\ Feed(FLAG)
      BY <1>8, <2>4 DEF StartFlag
    <3>2. PICK f \in Frame : f = sent[Current] /\ f = sent'[Current']
      BY <1>3, <1>8, <2>1, <3>1
    <3>3. Exact(f, 1, FALSE)'
      BY <1>0, <3>1, FlagStarts
    <3>4. Exact(sent[Current], Place, Half)'
      <4>1. Half' = FALSE
        BY <3>1 DEF Half
      <4> QED BY <3>1, <3>2, <3>3, <4>1 DEF Exact
    <3> QED BY <2>3, <3>1, <3>4 DEF IntactInv, Found
  <2>5. CASE EndFlag
    <3>1. Current' = Current + 1 /\ Place' = 0 /\ ~Half /\ Feed(FLAG)
      BY <1>8, <2>5 DEF EndFlag
    <3>2. PICK f \in Frame : f = sent[Current]
      BY <1>3, <1>8
    <3>3. Place = End(f) /\ End(f) # 0
      BY <2>5, <3>2, FrameFacts DEF EndFlag, End
    <3>C. PICK c \in Nat : c = Current
      BY <1>0
    <3>4. ASSUME c \notin spoilt PROVE Found(c)'
      <4>1. Exact(f, End(f), FALSE)
        BY <3>1, <3>2, <3>3, <3>4, <3>C, PlaceType, <1>0 DEF IntactInv, Exact
      <4>2. decoded' = Append(decoded, f)
        BY <1>0, <3>1, <4>1, ExactYields
      <4>3. f \in Fields /\ decoded \in Seq(Fields)
        BY <1>0 DEF Frame, Fields, TypeOK
      <4>4. PICK j \in Nat : j = Len(decoded) + 1
        BY <4>3
      <4>5. decoded' \in Seq(Fields) /\ Len(decoded') = j /\ decoded'[j] = f
        BY <4>2, <4>3, <4>4, AppendProperties
      <4>6. j \in DOMAIN decoded'
        BY <4>3, <4>4, <4>5, LenProperties
      <4>7. \E i \in DOMAIN decoded' : decoded'[i] = sent'[c]
        BY <2>1, <3>2, <3>C, <4>5, <4>6
      <4> QED BY <4>7 DEF Found
    <3>5. \A k \in 1 .. Current' - 1 : k \notin spoilt' => Found(k)'
      BY <1>0, <2>1, <2>3, <3>1, <3>4, <3>C
    <3> QED BY <3>1, <3>5 DEF IntactInv, Found
  <2>6. CASE PlainByte \/ FirstOfTwo \/ SecondOfTwo
    <3>1. Current' = Current /\ Place # 0
      BY <2>6 DEF PlainByte, FirstOfTwo, SecondOfTwo, Between
    <3>2. Current \notin spoilt => Exact(sent[Current], Place, Half)'
      BY <1>0, <1>8, <2>1, <2>6, <3>1, ExactFollows DEF IntactInv
    <3> QED BY <2>1, <2>3, <3>1, <3>2 DEF IntactInv, Found
  <2> QED BY <1>8, <2>4, <2>5, <2>6 DEF Moves
<1> QED BY <1>1, <1>2, <1>4, <1>5, <1>6, <1>7, <1>8, LineInvStep DEF ByteStep

\* At the start nothing is on the line, and no frame was sent.
LEMMA InitLineInv ==
  ASSUME Init
  PROVE  LineInv /\ IntactInv /\ Current = 1 /\ Place = 0
<1>1. wire = <<>> /\ sent = <<>> /\ decoded = <<>> /\ buf = <<>> /\ s_seq = 0
  BY DEF Init
<1>2. Len(sent) = 0 /\ DOMAIN sent = {} /\ DOMAIN wire = {} /\ DOMAIN decoded = {}
  BY <1>1, EmptySeq
<1>3. TypeOK
  <2>1. 0 \in Octet
    BY OctetIs
  <2>2. <<>> \in Seq(Symbols) /\ <<>> \in Seq(Frame) /\ <<>> \in Seq(Octet) /\ <<>> \in Seq(Fields)
    BY EmptySeq
  <2> QED BY <1>1, <2>1, <2>2 DEF Init, TypeOK
<1>4. WireInv
  BY <1>1, <1>2 DEF WireInv
<1>5. 0 % 256 = 0
  <2>1. PICK R \in Nat \ {0}, z \in Int : R = 256 /\ z = 0
    OBVIOUS
  <2>2. z = 0 * R + z /\ z \in 0 .. R - 1
    BY <2>1
  <2>3. z % R = z
    BY <2>2, ModUnique
  <2> QED BY <2>1, <2>3
<1>6. LineInv
  BY <1>1, <1>2, <1>3, <1>4, <1>5 DEF LineInv
<1>7. Current = 1 /\ Place = 0
  BY <1>1, <1>2 DEF Current, Place
<1> QED BY <1>6, <1>7 DEF IntactInv

\* The line: what is under way is the rest of what was sent, symbol by symbol,
\* and the k-th frame sent has SEQ k - 1, whatever damage does.
THEOREM SlipLine == Spec => []LineInv
<1>1. Init => LineInv
  BY InitLineInv
<1>2. LineInv /\ [Next]_vars => LineInv'
  BY LineInvStep
<1> QED BY <1>1, <1>2, PTL DEF Spec

\* A frame of which every byte came is decoded, whatever came before it: Deframer
\* resynchronises at each flag, for every damage, however much.
THEOREM SlipIntactDecoded == Spec => []IntactDecoded
<1>1. Init => LineInv /\ IntactInv
  BY InitLineInv
<1>2. (LineInv /\ IntactInv) /\ [Next]_vars => (LineInv /\ IntactInv)'
  BY LineInvStep, IntactStep
<1>3. LineInv /\ IntactInv => IntactDecoded
  <2> SUFFICES ASSUME LineInv, IntactInv, wire = <<>>, NEW k \in DOMAIN sent, k \notin spoilt
               PROVE  \E j \in DOMAIN decoded : decoded[j] = sent[k]
    BY DEF IntactDecoded
  <2>1. Current = Len(sent) + 1
    BY DEF Current
  <2>2. k \in 1 .. Current - 1
    BY <2>1, PlaceType DEF LineInv
  <2> QED BY <2>2 DEF IntactInv
<1> QED BY <1>1, <1>2, <1>3, PTL DEF Spec

-----------------------------------------------------------------------------
(* A frame damaged once is rejected.                                       *)

\* The damage the CRC and LEN stand up to: one byte.  A FLAG put into a frame
\* makes two of it, and the second is read from the middle of the argument;
\* with no more than two bytes of data it is too short to pass for a frame.
OneByte ==
  \/ MaxDamage = 0
  \/ MaxDamage = 1 /\ (FLAG \notin Noise \/ \A p \in Payloads : Len(p.arg) <= 6)

\* No damage is left to come.
Spent == ~(damages < MaxDamage)

\* What is collected at place a of f will not be as long as its third byte says.
WrongLength(f, a, h) ==
  /\ h \/ ~esc
  /\ \/ Len(buf) + End(f) - a < 8
     \/ Len(buf) >= 3 /\ buf[3] = Len(f.arg) /\ Len(buf) + 1 # a

\* One byte of what is collected is not the one of f.
OneChanged(f, a, h) ==
  /\ esc = h /\ Len(buf) = a - 1
  /\ \E d \in 1 .. a - 1 : /\ buf[d] # Inner(f)[d]
                           /\ \A i \in 1 .. a - 1 : i # d => buf[i] = Inner(f)[i]

\* The first half of a pair was lost; an ESC came that is not of f; an ESC came,
\* or stayed, in place of a byte of f.
LostHalf(f, a, h)  == h /\ ~esc /\ a >= 4 /\ Prefix(f, a - 1)
StrayEsc(f, a, h)  == ~h /\ esc /\ a >= 4 /\ Prefix(f, a - 1)
EatingEsc(f, a, h) == ~h /\ esc /\ a >= 5 /\ Prefix(f, a - 2)

\* The decoder, at place a of f, holds what it will reject.
Junk(f, a, h) ==
  /\ in
  /\ bad \/ WrongLength(f, a, h) \/ OneChanged(f, a, h)
     \/ LostHalf(f, a, h) \/ StrayEsc(f, a, h) \/ EatingEsc(f, a, h)

\* A byte more collected.
LEMMA Collected ==
  ASSUME TypeOK, NEW x \in Octet, buf' = Append(buf, x)
  PROVE  /\ Len(buf) \in Nat /\ Len(buf') = Len(buf) + 1
         /\ \A i \in 1 .. Len(buf) : buf'[i] = buf[i]
         /\ buf'[Len(buf) + 1] = x
BY AppendProperties DEF TypeOK

\* A length that is wrong stays wrong as the bytes come.
LEMMA WrongLengthGrows ==
  ASSUME TypeOK, NEW f \in Frame, NEW a \in Nat, NEW h \in BOOLEAN, WrongLength(f, a, h),
         NEW x \in Octet, buf' = Append(buf, x), ~esc'
  PROVE  WrongLength(f, a + 1, FALSE)'
<1>1. /\ Len(buf) \in Nat /\ Len(buf') = Len(buf) + 1
      /\ \A i \in 1 .. Len(buf) : buf'[i] = buf[i]
  BY Collected
<1>2. End(f) \in Int
  BY FrameFacts DEF End
<1>3. CASE Len(buf) + End(f) - a < 8
  <2>1. Len(buf') + End(f) - (a + 1) < 8
    BY <1>1, <1>2, <1>3
  <2> QED BY <2>1 DEF WrongLength
<1>4. CASE Len(buf) >= 3 /\ buf[3] = Len(f.arg) /\ Len(buf) + 1 # a
  <2>1. Len(buf') >= 3 /\ buf'[3] = buf[3] /\ Len(buf') + 1 # a + 1
    BY <1>1, <1>4
  <2> QED BY <1>4, <2>1 DEF WrongLength
<1> QED BY <1>3, <1>4 DEF WrongLength

\* The other bytes of f do not mend the one that is changed.
LEMMA OneChangedGrows ==
  ASSUME TypeOK, NEW f \in Frame, NEW a \in 1 .. Len(f.arg) + 4, NEW h, OneChanged(f, a, h),
         buf' = Append(buf, Inner(f)[a]), esc' = FALSE
  PROVE  OneChanged(f, a + 1, FALSE)'
<1>1. PICK d \in 1 .. a - 1 : /\ buf[d] # Inner(f)[d]
                              /\ \A i \in 1 .. a - 1 : i # d => buf[i] = Inner(f)[i]
  BY DEF OneChanged
<1>2. a \in Nat /\ Inner(f)[a] \in Octet
  BY InnerFacts, FrameFacts
<1>3. /\ Len(buf') = a
      /\ \A i \in 1 .. a - 1 : buf'[i] = buf[i]
      /\ buf'[a] = Inner(f)[a]
  <2>1. Len(buf) = a - 1
    BY DEF OneChanged
  <2>2. /\ Len(buf') = Len(buf) + 1
        /\ \A i \in 1 .. Len(buf) : buf'[i] = buf[i]
        /\ buf'[Len(buf) + 1] = Inner(f)[a]
    BY <1>2, Collected
  <2> QED BY <1>2, <2>1, <2>2
<1>4. d \in 1 .. a /\ buf'[d] # Inner(f)[d]
  BY <1>1, <1>2, <1>3
<1>5. \A i \in 1 .. a : i # d => buf'[i] = Inner(f)[i]
  BY <1>1, <1>2, <1>3
<1>6. a + 1 - 1 = a
  BY <1>2
<1> QED BY <1>3, <1>4, <1>5, <1>6 DEF OneChanged

\* A byte that is not the next one of f is the one that is changed.
LEMMA ByteChanged ==
  ASSUME TypeOK, NEW f \in Frame, NEW a \in 1 .. Len(f.arg) + 4, Prefix(f, a - 1),
         NEW x \in Octet, x # Inner(f)[a], buf' = Append(buf, x), esc' = FALSE
  PROVE  OneChanged(f, a + 1, FALSE)'
<1>1. a \in Nat /\ a >= 1 /\ Len(buf) = a - 1 /\ \A i \in 1 .. a - 1 : buf[i] = Inner(f)[i]
  BY FrameFacts DEF Prefix
<1>2. /\ Len(buf') = a
      /\ \A i \in 1 .. a - 1 : buf'[i] = buf[i]
      /\ buf'[a] = x
  <2>1. /\ Len(buf') = Len(buf) + 1
        /\ \A i \in 1 .. Len(buf) : buf'[i] = buf[i]
        /\ buf'[Len(buf) + 1] = x
    BY Collected
  <2> QED BY <1>1, <2>1
<1>3. a \in 1 .. a /\ buf'[a] # Inner(f)[a]
  BY <1>1, <1>2
<1>4. \A i \in 1 .. a : i # a => buf'[i] = Inner(f)[i]
  BY <1>1, <1>2
<1>5. a + 1 - 1 = a
  BY <1>1
<1> QED BY <1>2, <1>3, <1>4, <1>5 DEF OneChanged

\* A beginning of f, LEN included, with one byte more or as it is, is of the wrong
\* length at any place but one.
LEMMA OffLength ==
  ASSUME TypeOK, NEW f \in Frame, NEW n \in Nat, n >= 3, n <= Len(f.arg) + 4, Prefix(f, n),
         NEW x \in Octet, NEW a \in Nat, NEW h \in BOOLEAN, h \/ ~esc',
         \/ buf' = buf /\ n + 1 # a
         \/ buf' = Append(buf, x) /\ n + 2 # a
  PROVE  WrongLength(f, a, h)'
<1>1. Len(buf) = n /\ buf[3] = Len(f.arg)
  BY InnerFacts DEF Prefix
<1>2. CASE buf' = buf /\ n + 1 # a
  BY <1>1, <1>2 DEF WrongLength
<1>3. CASE buf' = Append(buf, x) /\ n + 2 # a
  <2>1. Len(buf') = n + 1 /\ \A i \in 1 .. n : buf'[i] = buf[i]
    BY <1>1, <1>3, Collected
  <2>2. buf'[3] = Len(f.arg) /\ Len(buf') >= 3 /\ Len(buf') + 1 # a
    BY <1>1, <1>3, <2>1
  <2> QED BY <2>2 DEF WrongLength
<1> QED BY <1>2, <1>3

\* A flag put in: what comes after it is too short.
LEMMA TooShort ==
  ASSUME NEW f \in Frame, Len(f.arg) <= 6, NEW a \in Nat, a >= 4, NEW h \in BOOLEAN,
         buf' = <<>>, ~esc'
  PROVE  WrongLength(f, a, h)'
<1>1. Len(buf') = 0
  BY EmptySeq
<1>2. Len(buf') + End(f) - a < 8
  BY <1>1, FrameFacts DEF End
<1> QED BY <1>2 DEF WrongLength

\* Junk stays junk when f goes on with a byte as it is.
LEMMA JunkPlain ==
  ASSUME TypeOK, NEW f \in Frame, NEW a \in 1 .. Len(f.arg) + 4, Junk(f, a, FALSE),
         Inner(f)[a] \notin {FLAG, ESC}, Feed(Inner(f)[a])
  PROVE  Junk(f, a + 1, FALSE)' /\ decoded' = decoded
<1> DEFINE c == Inner(f)[a]
<1>1. c \in Octet /\ c # FLAG /\ c # ESC /\ a \in Nat /\ Len(f.arg) \in Nat
  BY InnerFacts, FrameFacts
<1>2. in /\ bad \in BOOLEAN /\ esc \in BOOLEAN
  BY DEF Junk, TypeOK
<1> HIDE DEF c
<1>3. in' = TRUE /\ decoded' = decoded
  BY <1>1, <1>2, FeedIs DEF c
<1>4. CASE bad
  <2>1. bad' = TRUE
    BY <1>1, <1>2, <1>4, FeedIs DEF c
  <2> QED BY <1>3, <2>1 DEF Junk
<1>5. CASE WrongLength(f, a, FALSE)
  <2>1. ~esc
    BY <1>5 DEF WrongLength
  <2>2. buf' = Append(buf, c) /\ ~esc'
    BY <1>1, <1>2, <2>1, FeedIs DEF c
  <2>3. WrongLength(f, a + 1, FALSE)'
    BY <1>1, <1>5, <2>2, WrongLengthGrows
  <2> QED BY <1>3, <2>3 DEF Junk
<1>6. CASE OneChanged(f, a, FALSE)
  <2>1. ~esc
    BY <1>6 DEF OneChanged
  <2>2. buf' = Append(buf, c) /\ esc' = FALSE
    BY <1>1, <1>2, <2>1, FeedIs DEF c
  <2>3. OneChanged(f, a + 1, FALSE)'
    BY <1>6, <2>2, OneChangedGrows DEF c
  <2> QED BY <1>3, <2>3 DEF Junk
<1>7. CASE StrayEsc(f, a, FALSE)
  <2>1. esc /\ Prefix(f, a - 1)
    BY <1>7 DEF StrayEsc
  <2>2. CASE c \notin {ESC_FLAG, ESC_ESC}
    <3>1. bad' = TRUE
      BY <1>1, <1>2, <2>1, <2>2, FeedIs DEF c
    <3> QED BY <1>3, <3>1 DEF Junk
  <2>3. ASSUME NEW x \in Octet, x # c, buf' = Append(buf, x), esc' = FALSE
        PROVE  Junk(f, a + 1, FALSE)'
    <3>1. OneChanged(f, a + 1, FALSE)'
      BY <2>1, <2>3, ByteChanged DEF c
    <3> QED BY <1>3, <3>1 DEF Junk
  <2>4. CASE c = ESC_FLAG
    <3>1. buf' = Append(buf, FLAG) /\ esc' = FALSE
      BY <1>1, <1>2, <2>1, <2>4, FeedIs DEF c
    <3> QED BY <1>1, <1>3, <2>3, <3>1, Specials
  <2>5. CASE c = ESC_ESC
    <3>1. buf' = Append(buf, ESC) /\ esc' = FALSE
      BY <1>1, <1>2, <2>1, <2>5, FeedIs DEF c
    <3> QED BY <1>1, <1>3, <2>3, <3>1, Specials
  <2> QED BY <1>3, <2>2, <2>4, <2>5
<1>8. CASE EatingEsc(f, a, FALSE)
  <2>1. esc /\ Prefix(f, a - 2) /\ a >= 5
    BY <1>8 DEF EatingEsc
  <2>2. CASE c \notin {ESC_FLAG, ESC_ESC}
    <3>1. bad' = TRUE
      BY <1>1, <1>2, <2>1, <2>2, FeedIs DEF c
    <3> QED BY <1>3, <3>1 DEF Junk
  <2>3. ASSUME NEW x \in Octet, buf' = Append(buf, x), ~esc'
        PROVE  Junk(f, a + 1, FALSE)'
    <3>1. PICK n \in Nat, e \in Nat : n = a - 2 /\ n >= 3 /\ n <= Len(f.arg) + 4 /\ e = a + 1
      BY <1>1, <2>1
    <3>2. Prefix(f, n) /\ n + 2 # e
      BY <1>1, <2>1, <3>1
    <3>3. WrongLength(f, e, FALSE)'
      BY <2>3, <3>1, <3>2, OffLength
    <3> QED BY <1>3, <3>1, <3>3 DEF Junk
  <2>4. CASE c = ESC_FLAG
    <3>1. buf' = Append(buf, FLAG) /\ ~esc'
      BY <1>1, <1>2, <2>1, <2>4, FeedIs DEF c
    <3> QED BY <1>3, <2>3, <3>1, Specials
  <2>5. CASE c = ESC_ESC
    <3>1. buf' = Append(buf, ESC) /\ ~esc'
      BY <1>1, <1>2, <2>1, <2>5, FeedIs DEF c
    <3> QED BY <1>3, <2>3, <3>1, Specials
  <2> QED BY <1>3, <2>2, <2>4, <2>5
<1> QED BY <1>4, <1>5, <1>6, <1>7, <1>8 DEF Junk, LostHalf

\* Junk stays junk when f goes on with the first byte of a pair.
LEMMA JunkFirst ==
  ASSUME TypeOK, NEW f \in Frame, NEW a \in 1 .. Len(f.arg) + 4, Junk(f, a, FALSE), Feed(ESC)
  PROVE  Junk(f, a, TRUE)' /\ decoded' = decoded
<1>1. in /\ bad \in BOOLEAN /\ esc \in BOOLEAN
  BY DEF Junk, TypeOK
<1>2. in' = TRUE /\ decoded' = decoded
  BY <1>1, FeedIs, Specials
<1>3. CASE bad
  <2>1. bad' = TRUE
    BY <1>1, <1>3, FeedIs, Specials
  <2> QED BY <1>2, <2>1 DEF Junk
<1>4. CASE esc
  <2>1. bad' = TRUE
    BY <1>1, <1>4, FeedIs, Specials
  <2> QED BY <1>2, <2>1 DEF Junk
<1>5. CASE ~bad /\ ~esc
  <2>1. esc' = TRUE /\ buf' = buf
    BY <1>1, <1>5, FeedIs
  <2>2. WrongLength(f, a, FALSE) => WrongLength(f, a, TRUE)'
    BY <2>1 DEF WrongLength
  <2>3. OneChanged(f, a, FALSE) => OneChanged(f, a, TRUE)'
    BY <2>1 DEF OneChanged
  <2> QED BY <1>2, <1>5, <2>2, <2>3 DEF Junk, LostHalf, StrayEsc, EatingEsc
<1> QED BY <1>3, <1>4, <1>5

\* Junk stays junk when f goes on with the second byte of a pair.
LEMMA JunkSecond ==
  ASSUME TypeOK, NEW f \in Frame, NEW a \in 1 .. Len(f.arg) + 4, Junk(f, a, TRUE), NEW b, Feed(b),
         \/ b = ESC_FLAG /\ Inner(f)[a] = FLAG
         \/ b = ESC_ESC /\ Inner(f)[a] = ESC
  PROVE  Junk(f, a + 1, FALSE)' /\ decoded' = decoded
<1>0. /\ Inner(f)[a] \in Octet /\ b \in Octet /\ b # Inner(f)[a] /\ b \notin {FLAG, ESC}
      /\ a \in Nat
  BY InnerFacts, FrameFacts, Specials
<1>1. in /\ bad \in BOOLEAN /\ esc \in BOOLEAN
  BY DEF Junk, TypeOK
<1>2. in' = TRUE /\ decoded' = decoded
  BY <1>0, <1>1, FeedIs
<1>3. bad' = bad /\ esc' = FALSE /\ buf' = IF esc THEN Append(buf, Inner(f)[a]) ELSE Append(buf, b)
  BY <1>0, <1>1, FeedIs, Specials
<1>4. CASE bad
  BY <1>2, <1>3, <1>4 DEF Junk
<1>5. CASE WrongLength(f, a, TRUE)
  <2>1. PICK x \in Octet : buf' = Append(buf, x)
    BY <1>0, <1>3
  <2>2. WrongLength(f, a + 1, FALSE)'
    BY <1>0, <1>3, <1>5, <2>1, WrongLengthGrows
  <2> QED BY <1>2, <2>2 DEF Junk
<1>6. CASE OneChanged(f, a, TRUE)
  <2>1. esc
    BY <1>6 DEF OneChanged
  <2>2. OneChanged(f, a + 1, FALSE)'
    BY <1>3, <1>6, <2>1, OneChangedGrows
  <2> QED BY <1>2, <2>2 DEF Junk
<1>7. CASE LostHalf(f, a, TRUE)
  <2>1. buf' = Append(buf, b) /\ Prefix(f, a - 1)
    BY <1>3, <1>7 DEF LostHalf
  <2>2. OneChanged(f, a + 1, FALSE)'
    BY <1>0, <1>3, <2>1, ByteChanged
  <2> QED BY <1>2, <2>2 DEF Junk
<1> QED BY <1>4, <1>5, <1>6, <1>7 DEF Junk, StrayEsc, EatingEsc

\* The flag that ends f finds junk out.
LEMMA JunkRejected ==
  ASSUME TypeOK, NEW f \in Frame, Junk(f, End(f), FALSE), Feed(FLAG)
  PROVE  decoded' = decoded
<1>1. buf \in Seq(Octet) /\ Len(f.arg) \in Nat /\ End(f) = Len(f.arg) + 5 /\ Len(buf) \in Nat
  BY FrameFacts DEF TypeOK, End
<1>2. CASE bad \/ esc
  BY <1>2, FlagYields
<1>3. CASE WrongLength(f, End(f), FALSE)
  <2>1. ~Accepted(buf)
    BY <1>1, <1>3, AcceptedLength DEF WrongLength
  <2> QED BY <2>1, FlagYields
<1>4. CASE OneChanged(f, End(f), FALSE)
  <2>1. End(f) - 1 = Len(f.arg) + 4 /\ Len(buf) = Len(f.arg) + 4
    BY <1>1, <1>4 DEF OneChanged
  <2>2. PICK d \in 1 .. Len(buf) : /\ buf[d] # Inner(f)[d]
                                   /\ \A i \in 1 .. Len(buf) : i # d => buf[i] = Inner(f)[i]
    BY <1>4, <2>1 DEF OneChanged
  <2>3. ~Accepted(buf)
    BY <1>1, <2>1, <2>2, ChangedRejected
  <2> QED BY <2>3, FlagYields
<1> QED BY <1>2, <1>3, <1>4 DEF Junk, LostHalf, StrayEsc, EatingEsc

\* Less than all of f is not accepted.
LEMMA ShortPrefixRejected ==
  ASSUME TypeOK, NEW f \in Frame, NEW n \in Nat, n < Len(f.arg) + 4, Prefix(f, n)
  PROVE  ~Accepted(buf)
<1>1. buf \in Seq(Octet) /\ Len(f.arg) \in Nat /\ Len(buf) = n
  BY FrameFacts DEF TypeOK, Prefix
<1>2. n >= 3 => buf[3] = Len(f.arg)
  BY InnerFacts DEF Prefix
<1> QED BY <1>1, <1>2, AcceptedLength

\* A byte of f is lost: what is collected will be too short, or have one byte changed.
LEMMA LossMakesJunk ==
  ASSUME TypeOK, NEW f \in Frame, NEW a \in 1 .. Len(f.arg) + 4, a >= 4,
         UNCHANGED <<in, esc, bad, buf>>
  PROVE  /\ Exact(f, a, FALSE) => Junk(f, a + 1, FALSE)' /\ Junk(f, a, TRUE)'
         /\ Exact(f, a, TRUE) => Junk(f, a + 1, FALSE)'
<1>1. PICK n \in Nat, e \in Nat : n = a - 1 /\ n >= 3 /\ n <= Len(f.arg) + 4 /\ e = a + 1
  BY FrameFacts
<1>2. ASSUME Exact(f, a, FALSE)
      PROVE  Junk(f, e, FALSE)' /\ Junk(f, a, TRUE)'
  <2>1. in' = TRUE /\ ~esc' /\ buf' = buf /\ Prefix(f, n)
    BY <1>1, <1>2 DEF Exact
  <2>2. n + 1 # e
    BY <1>1
  <2>3. PICK x \in Octet : x = FLAG
    BY Specials
  <2>4. WrongLength(f, e, FALSE)'
    BY <1>1, <2>1, <2>2, <2>3, OffLength
  <2>5. LostHalf(f, a, TRUE)'
    BY <1>1, <2>1 DEF LostHalf, Prefix
  <2> QED BY <2>1, <2>4, <2>5 DEF Junk
<1>3. ASSUME Exact(f, a, TRUE)
      PROVE  Junk(f, e, FALSE)'
  <2>1. in' = TRUE /\ esc' /\ buf' = buf /\ Prefix(f, n)
    BY <1>1, <1>3 DEF Exact
  <2>2. e >= 5 /\ e - 2 = n
    BY <1>1
  <2>3. EatingEsc(f, e, FALSE)'
    BY <2>1, <2>2 DEF EatingEsc, Prefix
  <2> QED BY <2>1, <2>3 DEF Junk
<1> QED BY <1>1, <1>2, <1>3

\* A byte of f that stands for itself is changed.
LEMMA ChangeOfPlain ==
  ASSUME TypeOK, NEW f \in Frame, NEW a \in 1 .. Len(f.arg) + 4, Exact(f, a, FALSE),
         Inner(f)[a] \notin {FLAG, ESC}, NEW b \in Octet, b # Inner(f)[a], Feed(b),
         b \in {FLAG, ESC} => a >= 4, b = FLAG => Len(f.arg) <= 6
  PROVE  Junk(f, a + 1, FALSE)' /\ decoded' = decoded
<1>1. PICK n \in Nat, e \in Nat : n = a - 1 /\ n < Len(f.arg) + 4 /\ e = a + 1
  BY FrameFacts
<1>2. in /\ ~bad /\ ~esc /\ Prefix(f, n) /\ Prefix(f, a - 1) /\ bad \in BOOLEAN
  BY <1>1 DEF Exact, TypeOK
<1>3. CASE b = FLAG
  <2>1. decoded' = decoded
    BY <1>1, <1>2, <1>3, ShortPrefixRejected, FlagYields
  <2>2. in' /\ buf' = <<>> /\ ~esc'
    BY <1>2, <1>3, FeedIs
  <2>3. e >= 4
    BY <1>1, <1>3
  <2>4. WrongLength(f, e, FALSE)'
    BY <1>3, <2>2, <2>3, TooShort
  <2> QED BY <1>1, <2>1, <2>2, <2>4 DEF Junk
<1>4. CASE b = ESC
  <2>1. in' = TRUE /\ esc' = TRUE /\ buf' = buf /\ decoded' = decoded
    BY <1>2, <1>4, FeedIs, Specials
  <2>2. e >= 5 /\ e - 2 = n
    BY <1>1, <1>4
  <2>3. EatingEsc(f, e, FALSE)'
    BY <1>2, <2>1, <2>2 DEF EatingEsc, Prefix
  <2> QED BY <1>1, <2>1, <2>3 DEF Junk
<1>5. CASE b \notin {FLAG, ESC}
  <2>1. in' = TRUE /\ esc' = esc /\ buf' = Append(buf, b) /\ decoded' = decoded
    BY <1>2, <1>5, FeedIs
  <2>2. esc' = FALSE
    BY <1>2, <2>1 DEF TypeOK
  <2>3. OneChanged(f, a + 1, FALSE)'
    BY <1>2, <2>1, <2>2, ByteChanged
  <2> QED BY <2>1, <2>3 DEF Junk
<1> QED BY <1>3, <1>4, <1>5

\* The first byte of a pair is changed.
LEMMA ChangeOfFirst ==
  ASSUME TypeOK, NEW f \in Frame, NEW a \in 1 .. Len(f.arg) + 4, a >= 4, Exact(f, a, FALSE),
         NEW b \in Octet, b # ESC, Feed(b), b = FLAG => Len(f.arg) <= 6
  PROVE  Junk(f, a, TRUE)' /\ decoded' = decoded
<1>1. PICK n \in Nat, e \in Nat :
        n = a - 1 /\ n >= 3 /\ n < Len(f.arg) + 4 /\ n <= Len(f.arg) + 4 /\ e = a
  BY FrameFacts
<1>2. in /\ ~bad /\ ~esc /\ Prefix(f, n) /\ bad \in BOOLEAN
  BY <1>1 DEF Exact, TypeOK
<1>3. CASE b = FLAG
  <2>1. decoded' = decoded
    BY <1>1, <1>2, <1>3, ShortPrefixRejected, FlagYields
  <2>2. in' /\ buf' = <<>> /\ ~esc'
    BY <1>2, <1>3, FeedIs
  <2>3. WrongLength(f, e, TRUE)'
    BY <1>1, <1>3, <2>2, TooShort
  <2> QED BY <1>1, <2>1, <2>2, <2>3 DEF Junk
<1>4. CASE b # FLAG
  <2>1. in' = TRUE /\ buf' = Append(buf, b) /\ decoded' = decoded
    BY <1>2, <1>4, FeedIs
  <2>2. n + 2 # e
    BY <1>1
  <2>3. WrongLength(f, e, TRUE)'
    BY <1>1, <1>2, <2>1, <2>2, OffLength
  <2> QED BY <1>1, <2>1, <2>3 DEF Junk
<1> QED BY <1>3, <1>4

\* The second byte of a pair is changed.
LEMMA ChangeOfSecond ==
  ASSUME TypeOK, NEW f \in Frame, NEW a \in 1 .. Len(f.arg) + 4, Exact(f, a, TRUE),
         NEW b \in Octet, Feed(b), b = FLAG => a >= 4 /\ Len(f.arg) <= 6,
         ~(b = ESC_FLAG /\ Inner(f)[a] = FLAG), ~(b = ESC_ESC /\ Inner(f)[a] = ESC)
  PROVE  Junk(f, a + 1, FALSE)' /\ decoded' = decoded
<1>1. PICK n \in Nat, e \in Nat : n = a - 1 /\ n < Len(f.arg) + 4 /\ e = a + 1
  BY FrameFacts
<1>2. in /\ ~bad /\ esc /\ Prefix(f, a - 1) /\ bad \in BOOLEAN
  BY <1>1 DEF Exact, TypeOK
<1>3. CASE b = FLAG
  <2>1. decoded' = decoded
    BY <1>2, <1>3, FlagYields
  <2>2. in' /\ buf' = <<>> /\ ~esc'
    BY <1>2, <1>3, FeedIs
  <2>3. e >= 4
    BY <1>1, <1>3
  <2>4. WrongLength(f, e, FALSE)'
    BY <1>3, <2>2, <2>3, TooShort
  <2> QED BY <1>1, <2>1, <2>2, <2>4 DEF Junk
<1>4. CASE b # FLAG
  <2>1. in' = TRUE /\ esc' = FALSE /\ decoded' = decoded
    BY <1>2, <1>4, FeedIs
  <2>2. CASE b \notin {ESC_FLAG, ESC_ESC}
    <3>1. bad' = TRUE
      BY <1>2, <1>4, <2>2, FeedIs
    <3> QED BY <2>1, <3>1 DEF Junk
  <2>3. ASSUME NEW x \in Octet, x # Inner(f)[a], buf' = Append(buf, x)
        PROVE  Junk(f, a + 1, FALSE)'
    <3>1. OneChanged(f, a + 1, FALSE)'
      BY <1>2, <2>1, <2>3, ByteChanged
    <3> QED BY <2>1, <3>1 DEF Junk
  <2>4. CASE b = ESC_FLAG
    <3>1. buf' = Append(buf, FLAG) /\ FLAG # Inner(f)[a]
      BY <1>2, <1>4, <2>4, FeedIs
    <3> QED BY <2>1, <2>3, <3>1, Specials
  <2>5. CASE b = ESC_ESC
    <3>1. buf' = Append(buf, ESC) /\ ESC # Inner(f)[a]
      BY <1>2, <1>4, <2>5, FeedIs
    <3> QED BY <2>1, <2>3, <3>1, Specials
  <2> QED BY <2>1, <2>2, <2>4, <2>5
<1> QED BY <1>3, <1>4

\* A byte is added between the flags.
LEMMA AddMakesJunk ==
  ASSUME TypeOK, NEW f \in Frame, NEW a \in 1 .. Len(f.arg) + 4, a >= 4,
         NEW h \in BOOLEAN, Exact(f, a, h),
         NEW b \in Octet, Feed(b), b = FLAG => Len(f.arg) <= 6
  PROVE  Junk(f, a, h)' /\ decoded' = decoded
<1>1. PICK n \in Nat, e \in Nat :
        n = a - 1 /\ n >= 3 /\ n < Len(f.arg) + 4 /\ n <= Len(f.arg) + 4 /\ e = a
  BY FrameFacts
<1>2. in /\ ~bad /\ esc = h /\ Prefix(f, n) /\ bad \in BOOLEAN
  BY <1>1 DEF Exact, TypeOK
<1>3. CASE b = FLAG
  <2>1. decoded' = decoded
    BY <1>1, <1>2, <1>3, ShortPrefixRejected, FlagYields
  <2>2. in' /\ buf' = <<>> /\ ~esc'
    BY <1>2, <1>3, FeedIs
  <2>3. WrongLength(f, e, h)'
    BY <1>1, <1>3, <2>2, TooShort
  <2> QED BY <1>1, <2>1, <2>2, <2>3 DEF Junk
<1>4. ASSUME NEW x \in Octet, buf' = Append(buf, x), ~esc'
      PROVE  WrongLength(f, a, h)'
  <2>1. n + 2 # e
    BY <1>1
  <2>2. WrongLength(f, e, h)'
    BY <1>1, <1>2, <1>4, <2>1, OffLength
  <2> QED BY <1>1, <2>2
<1>5. CASE b # FLAG /\ h
  <2>1. in' = TRUE /\ esc' = FALSE /\ decoded' = decoded
    BY <1>2, <1>5, FeedIs
  <2>2. CASE b \notin {ESC_FLAG, ESC_ESC}
    <3>1. bad' = TRUE
      BY <1>2, <1>5, <2>2, FeedIs
    <3> QED BY <2>1, <3>1 DEF Junk
  <2>3. CASE b \in {ESC_FLAG, ESC_ESC}
    <3>1. buf' = Append(buf, FLAG) \/ buf' = Append(buf, ESC)
      BY <1>2, <1>5, <2>3, FeedIs
    <3>2. WrongLength(f, a, h)'
      BY <1>4, <2>1, <3>1, Specials
    <3> QED BY <2>1, <3>2 DEF Junk
  <2> QED BY <2>2, <2>3
<1>6. CASE b = ESC /\ ~h
  <2>1. in' = TRUE /\ esc' = TRUE /\ buf' = buf /\ decoded' = decoded
    BY <1>2, <1>6, FeedIs, Specials
  <2>2. StrayEsc(f, a, h)'
    BY <1>1, <1>2, <1>6, <2>1 DEF StrayEsc, Prefix
  <2> QED BY <2>1, <2>2 DEF Junk
<1>7. CASE b \notin {FLAG, ESC} /\ ~h
  <2>1. in' = TRUE /\ ~esc' /\ buf' = Append(buf, b) /\ decoded' = decoded
    BY <1>2, <1>7, FeedIs
  <2>2. WrongLength(f, a, h)'
    BY <1>4, <2>1
  <2> QED BY <2>1, <2>2 DEF Junk
<1> QED BY <1>3, <1>5, <1>6, <1>7

\* A byte is added before the flag that ends f; a flag there ends f itself.
LEMMA AddAtEnd ==
  ASSUME TypeOK, NEW f \in Frame, Exact(f, End(f), FALSE), NEW b \in Octet, Feed(b)
  PROVE  /\ Junk(f, End(f), FALSE)'
         /\ decoded' = IF b = FLAG THEN Append(decoded, f) ELSE decoded
<1>1. PICK n \in Nat, e \in Nat :
        /\ n = Len(f.arg) + 4 /\ n >= 8 /\ n >= 3 /\ n <= Len(f.arg) + 4
        /\ e = End(f) /\ e = n + 1
  <2>1. Len(f.arg) \in Nat /\ Len(f.arg) >= 4 /\ End(f) = Len(f.arg) + 5
    BY FrameFacts DEF End
  <2>2. /\ Len(f.arg) + 4 \in Nat /\ End(f) \in Nat /\ Len(f.arg) + 4 >= 8
        /\ End(f) = (Len(f.arg) + 4) + 1
    BY <2>1
  <2> QED BY <2>2
<1>2. e - 1 = n
  BY <1>1
<1>3. in /\ ~bad /\ ~esc /\ Prefix(f, n) /\ bad \in BOOLEAN
  BY <1>1, <1>2 DEF Exact, TypeOK
<1>4. CASE b = FLAG
  <2>1. decoded' = Append(decoded, f)
    BY <1>4, ExactYields
  <2>2. in' /\ buf' = <<>> /\ ~esc'
    BY <1>3, <1>4, FeedIs
  <2>3. Len(buf') = 0
    BY <2>2, EmptySeq
  <2>4. Len(buf') + End(f) - e < 8
    BY <1>1, <2>3
  <2>5. WrongLength(f, e, FALSE)'
    BY <2>2, <2>4 DEF WrongLength
  <2> QED BY <1>1, <1>4, <2>1, <2>2, <2>5 DEF Junk
<1>5. CASE b = ESC
  <2>1. in' = TRUE /\ esc' = TRUE /\ buf' = buf /\ decoded' = decoded
    BY <1>3, <1>5, FeedIs, Specials
  <2>2. e >= 4
    BY <1>1
  <2>3. StrayEsc(f, e, FALSE)'
    BY <1>2, <1>3, <2>1, <2>2 DEF StrayEsc, Prefix
  <2> QED BY <1>1, <1>5, <2>1, <2>3, Specials DEF Junk
<1>6. CASE b \notin {FLAG, ESC}
  <2>1. in' = TRUE /\ ~esc' /\ buf' = Append(buf, b) /\ decoded' = decoded
    BY <1>3, <1>6, FeedIs
  <2>2. n + 2 # e
    BY <1>1
  <2>3. WrongLength(f, e, FALSE)'
    BY <1>1, <1>3, <2>1, <2>2, OffLength
  <2> QED BY <1>1, <1>6, <2>1, <2>3 DEF Junk
<1> QED BY <1>4, <1>5, <1>6

\* Before a frame, the decoder has seen no flag; or holds nothing; or what it
\* will reject; or all of the frame before, whose last flag was lost.
Outside    == ~in
Clean      == in /\ ~bad /\ ~esc /\ buf = <<>>
Rejects    == in /\ (bad \/ esc \/ buf = <<>> \/ ~Accepted(buf))
Late(f)    == in /\ ~bad /\ ~esc /\ Prefix(f, Len(f.arg) + 4)

\* The flag that ends f is changed: what is collected is rejected at the next.
LEMMA ChangeAtEnd ==
  ASSUME TypeOK, NEW f \in Frame, Exact(f, End(f), FALSE), NEW b \in Octet, b # FLAG, Feed(b)
  PROVE  Rejects' /\ decoded' = decoded
<1>1. PICK n \in Nat : n = Len(f.arg) + 4 /\ n >= 8 /\ End(f) - 1 = n
  <2>1. Len(f.arg) \in Nat /\ Len(f.arg) >= 4 /\ End(f) = Len(f.arg) + 5
    BY FrameFacts DEF End
  <2> QED BY <2>1
<1>2. in /\ ~bad /\ ~esc /\ Prefix(f, n) /\ bad \in BOOLEAN
  BY <1>1 DEF Exact, TypeOK
<1>3. CASE b = ESC
  <2>1. in' = TRUE /\ esc' = TRUE /\ decoded' = decoded
    BY <1>2, <1>3, FeedIs, Specials
  <2> QED BY <2>1 DEF Rejects
<1>4. CASE b # ESC
  <2>1. in' = TRUE /\ buf' = Append(buf, b) /\ decoded' = decoded
    BY <1>2, <1>4, FeedIs
  <2>2. Len(buf) = n /\ Len(buf') = n + 1 /\ \A i \in 1 .. n : buf'[i] = buf[i]
    BY <1>2, <2>1, Collected DEF Prefix
  <2>3. buf[3] = Len(f.arg)
    BY <1>1, <1>2, InnerFacts DEF Prefix
  <2>4. buf'[3] + 4 # Len(buf')
    BY <1>1, <2>2, <2>3, FrameFacts
  <2>5. buf' \in Seq(Octet)
    BY <2>1, AppendProperties DEF TypeOK
  <2>6. ~Accepted(buf')
    BY <2>4, <2>5, AcceptedLength
  <2> QED BY <2>1, <2>6 DEF Rejects, Accepted
<1> QED BY <1>3, <1>4

\* The first flag of a frame, after each of these.
LEMMA FlagAfter ==
  ASSUME TypeOK, Feed(FLAG)
  PROVE  /\ Clean'
         /\ Outside \/ Clean \/ Rejects => decoded' = decoded
         /\ \A f \in Frame : Late(f) => decoded' = Append(decoded, f)
<1>1. in' = TRUE /\ esc' = FALSE /\ bad' = FALSE /\ buf' = <<>>
  BY FeedIs DEF TypeOK
<1>2. Clean'
  BY <1>1 DEF Clean
<1>3. Outside \/ Clean \/ Rejects => decoded' = decoded
  BY FlagYields DEF Outside, Clean, Rejects
<1>4. ASSUME NEW f \in Frame, Late(f)
      PROVE  decoded' = Append(decoded, f)
  <2>1. buf = Inner(f) /\ buf # <<>>
    BY <1>4, PrefixIsInner DEF Late
  <2> QED BY <1>4, <2>1, FlagYields, InnerAccepted DEF Late
<1> QED BY <1>2, <1>3, <1>4

\* What is decoded is found among the first b frames sent, none of them hurt.
Matched(b) == \E at \in Places : \A j \in DOMAIN decoded : at[j] \notin hurt /\ at[j] <= b

\* Nothing decoded, it stays found, if what gets hurt is behind it.
LEMMA MatchedKeeps ==
  ASSUME TypeOK, NEW b \in Int, NEW c \in Int, b <= c, Matched(b), decoded' = decoded,
         \A k \in DOMAIN sent : k \in DOMAIN sent' /\ sent'[k] = sent[k],
         \A k \in hurt' : k \in hurt \/ k > b
  PROVE  Matched(c)'
<1>1. PICK at \in Places : \A j \in DOMAIN decoded : at[j] \notin hurt /\ at[j] <= b
  BY DEF Matched
<1>2. /\ at \in [DOMAIN decoded -> DOMAIN sent]
      /\ \A j \in DOMAIN decoded : /\ decoded[j] = sent[at[j]]
                                   /\ decoded[j].seq = (at[j] - 1) % 256
                                   /\ \A i \in 1 .. j - 1 : at[i] < at[j]
  BY <1>1 DEF Places
<1>3. DOMAIN sent = 1 .. Len(sent) /\ Len(sent) \in Nat
  BY LenProperties DEF TypeOK
<1>4. \A j \in DOMAIN decoded : at[j] \in DOMAIN sent /\ at[j] \in Int
  BY <1>2, <1>3
<1>5. at \in [DOMAIN decoded' -> DOMAIN sent']
  BY <1>2, <1>4
<1>6. \A j \in DOMAIN decoded' : decoded'[j] = sent'[at[j]]
  BY <1>2, <1>4
<1>7. at \in Places'
  BY <1>2, <1>5, <1>6 DEF Places
<1>8. \A j \in DOMAIN decoded' : at[j] \notin hurt' /\ at[j] <= c
  <2> SUFFICES ASSUME NEW j \in DOMAIN decoded' PROVE at[j] \notin hurt' /\ at[j] <= c
    OBVIOUS
  <2>1. at[j] \notin hurt /\ at[j] <= b /\ at[j] \in Int
    BY <1>1, <1>4
  <2> QED BY <2>1
<1> QED BY <1>7, <1>8 DEF Matched

\* A frame decoded that is not hurt, and behind those decoded before, is found too.
LEMMA MatchedGrows ==
  ASSUME LineInv, NEW b \in Int, NEW c \in Int, Matched(b), NEW k \in DOMAIN sent, b < k, k <= c,
         k \notin hurt, decoded' = Append(decoded, sent[k]), sent' = sent, hurt' = hurt
  PROVE  Matched(c)'
<1>1. PICK at \in Places : \A j \in DOMAIN decoded : at[j] \notin hurt /\ at[j] <= b
  BY DEF Matched
<1>2. /\ at \in [DOMAIN decoded -> DOMAIN sent]
      /\ \A j \in DOMAIN decoded : /\ decoded[j] = sent[at[j]]
                                   /\ decoded[j].seq = (at[j] - 1) % 256
                                   /\ \A i \in 1 .. j - 1 : at[i] < at[j]
  BY <1>1 DEF Places
<1>3. /\ DOMAIN sent = 1 .. Len(sent) /\ Len(sent) \in Nat
      /\ sent \in Seq(Frame) /\ decoded \in Seq(Fields)
  BY LenProperties DEF LineInv, TypeOK
<1>4. sent[k] \in Fields /\ sent[k].seq = (k - 1) % 256 /\ k \in Int
  <2>1. sent[k] \in Frame
    BY <1>3
  <2>2. sent[k] \in Fields
    BY <2>1 DEF Frame, Fields
  <2>3. sent[k].seq = (k - 1) % 256
    BY DEF LineInv
  <2> QED BY <1>3, <2>2, <2>3
<1>5. PICK n \in Nat : n = Len(decoded)
  BY <1>3
<1>6. /\ DOMAIN decoded = 1 .. n /\ DOMAIN decoded' = 1 .. n + 1
      /\ \A j \in 1 .. n : decoded'[j] = decoded[j]
      /\ decoded'[n + 1] = sent[k]
  <2>1. /\ decoded' \in Seq(Fields) /\ Len(decoded') = n + 1
        /\ \A j \in 1 .. n : decoded'[j] = decoded[j]
        /\ decoded'[n + 1] = sent[k]
    BY <1>3, <1>4, <1>5, AppendProperties
  <2>2. DOMAIN decoded = 1 .. n /\ DOMAIN decoded' = 1 .. n + 1
    BY <1>3, <1>5, <2>1, LenProperties
  <2> QED BY <2>1, <2>2
<1> DEFINE to == [j \in 1 .. n + 1 |-> IF j = n + 1 THEN k ELSE at[j]]
<1>7. \A j \in 1 .. n : at[j] \in DOMAIN sent /\ at[j] \in Int /\ at[j] <= b /\ at[j] \notin hurt
  <2> SUFFICES ASSUME NEW j \in DOMAIN decoded
               PROVE  at[j] \in DOMAIN sent /\ at[j] \in Int /\ at[j] <= b /\ at[j] \notin hurt
    BY <1>6
  <2>1. at[j] \in DOMAIN sent
    BY <1>2
  <2>2. at[j] \in Int
    BY <1>3, <2>1
  <2> QED BY <1>1, <2>1, <2>2
<1>8. /\ to \in [1 .. n + 1 -> DOMAIN sent] /\ to[n + 1] = k
      /\ \A j \in 1 .. n : to[j] = at[j]
  <2>1. to \in [1 .. n + 1 -> DOMAIN sent]
    BY <1>5, <1>7
  <2>2. to[n + 1] = k
    BY <1>5
  <2>3. \A j \in 1 .. n : j \in 1 .. n + 1 /\ j # n + 1
    BY <1>5
  <2>4. \A j \in 1 .. n : to[j] = at[j]
    BY <2>3
  <2> QED BY <2>1, <2>2, <2>4
<1> HIDE DEF to
<1>9. ASSUME NEW j \in 1 .. n + 1
      PROVE  /\ decoded'[j] = sent[to[j]] /\ decoded'[j].seq = (to[j] - 1) % 256
             /\ \A i \in 1 .. j - 1 : to[i] < to[j]
             /\ to[j] \notin hurt /\ to[j] <= c
  <2>1. CASE j = n + 1
    <3>1. decoded'[j] = sent[k] /\ to[j] = k
      BY <1>6, <1>8, <2>1
    <3>2. \A i \in 1 .. j - 1 : i \in 1 .. n
      BY <1>5, <2>1
    <3>3. \A i \in 1 .. j - 1 : to[i] < to[j]
      BY <1>4, <1>7, <1>8, <3>1, <3>2
    <3> QED BY <1>4, <3>1, <3>3
  <2>2. CASE j # n + 1
    <3>1. j \in 1 .. n /\ \A i \in 1 .. j - 1 : i \in 1 .. n
      BY <1>5, <2>2
    <3>2. to[j] = at[j] /\ \A i \in 1 .. j - 1 : to[i] = at[i]
      BY <1>8, <3>1
    <3>3. decoded'[j] = decoded[j] /\ j \in DOMAIN decoded
      BY <1>6, <3>1
    <3>4. to[j] \notin hurt /\ to[j] <= c
      BY <1>4, <1>7, <3>1, <3>2
    <3> QED BY <1>2, <3>2, <3>3, <3>4
  <2> QED BY <2>1, <2>2
<1>10. to \in Places'
  <2>1. to \in [DOMAIN decoded' -> DOMAIN sent']
    BY <1>6, <1>8
  <2> QED BY <1>6, <1>9, <2>1 DEF Places
<1>11. \A j \in DOMAIN decoded' : to[j] \notin hurt' /\ to[j] <= c
  BY <1>6, <1>9
<1> QED BY <1>10, <1>11 DEF Matched

\* Before the first flag of a frame, and after it.  Only once all damage is done
\* can the decoder hold junk, or a frame whose last flag was lost.
FlagNext ==
  \/ Matched(Current - 1) /\ (Outside \/ Clean)
  \/ Spent /\ Matched(Current - 1) /\ Rejects
  \/ /\ Spent /\ Current > 1 /\ Matched(Current - 2)
     /\ Current - 1 \notin hurt /\ Late(sent[Current - 1])
Midway ==
  \/ Matched(Current - 1) /\ Outside
  \/ /\ Matched(Current - 1) /\ Current \notin hurt
     /\ Exact(sent[Current], Place, Half)
  \/ Spent /\ Matched(Current) /\ Junk(sent[Current], Place, Half)

Follow == IF Place = 0 THEN FlagNext ELSE Midway

\* The decoder hears nothing before it listens; no frame is hurt before it is on
\* the line; and the decoder is in one of the ways above.
DamageInv ==
  /\ in => listening
  /\ \A k \in hurt : k <= Current /\ (Place = 0 => k < Current)
  /\ ~shifted => Follow

\* A way to be after the first flag.
LEMMA ToMidway ==
  ASSUME NEW k \in Int, NEW e \in Int, NEW g, NEW f, Current' = k, Place' = e, Half' = g, e # 0,
         sent'[k] = f,
         \/ Matched(k - 1)' /\ Outside'
         \/ Matched(k - 1)' /\ k \notin hurt' /\ Exact(f, e, g)'
         \/ Spent' /\ Matched(k)' /\ Junk(f, e, g)'
  PROVE  Follow'
<1>1. sent'[Current'] = f
  OBVIOUS
<1>2. CASE Matched(k - 1)' /\ Outside'
  <2>1. Matched(Current - 1)'
    BY <1>2 DEF Matched
  <2> QED BY <1>2, <2>1 DEF Follow, Midway
<1>3. CASE Matched(k - 1)' /\ k \notin hurt' /\ Exact(f, e, g)'
  <2>1. Matched(Current - 1)'
    BY <1>3 DEF Matched
  <2>2. Exact(sent[Current], Place, Half)'
    BY <1>1, <1>3 DEF Exact, Prefix
  <2> QED BY <1>3, <2>1, <2>2 DEF Follow, Midway
<1>4. CASE Spent' /\ Matched(k)' /\ Junk(f, e, g)'
  <2>1. Matched(Current)'
    BY <1>4 DEF Matched
  <2>2. Junk(sent[Current], Place, Half)'
    BY <1>1, <1>4 DEF Junk, WrongLength, OneChanged, LostHalf, StrayEsc, EatingEsc, Prefix
  <2> QED BY <1>4, <2>1, <2>2 DEF Follow, Midway
<1> QED BY <1>2, <1>3, <1>4

\* A way to be before the first flag of the next frame.
LEMMA ToFlagNext ==
  ASSUME NEW k \in Nat, NEW f, sent'[k] = f, Current' = k + 1, Place' = 0,
         \/ Matched(k)' /\ (Outside' \/ Clean')
         \/ Spent' /\ Matched(k)' /\ Rejects'
         \/ Spent' /\ k # 0 /\ Matched(k - 1)' /\ k \notin hurt' /\ Late(f)'
  PROVE  Follow'
<1>0. Current' - 1 = k /\ Current' - 2 = k - 1
  OBVIOUS
<1>1. CASE Matched(k)' /\ (Outside' \/ Clean')
  <2>1. Matched(Current - 1)'
    BY <1>0, <1>1 DEF Matched
  <2> QED BY <1>1, <2>1 DEF Follow, FlagNext
<1>2. CASE Spent' /\ Matched(k)' /\ Rejects'
  <2>1. Matched(Current - 1)'
    BY <1>0, <1>2 DEF Matched
  <2> QED BY <1>2, <2>1 DEF Follow, FlagNext
<1>3. CASE Spent' /\ k # 0 /\ Matched(k - 1)' /\ k \notin hurt' /\ Late(f)'
  <2>1. Matched(Current - 2)'
    BY <1>0, <1>3 DEF Matched
  <2>2. Late(sent[Current - 1])'
    BY <1>0, <1>3 DEF Late, Prefix
  <2>3. Current' > 1
    BY <1>3
  <2> QED BY <1>0, <1>3, <2>1, <2>2, <2>3 DEF Follow, FlagNext
<1> QED BY <1>1, <1>2, <1>3

\* What the line has come to, when a byte moves.
LEMMA AtByte ==
  ASSUME LineInv, ByteStep
  PROVE  /\ TypeOK /\ WireInv /\ wire # <<>> /\ sent' = sent
         /\ Current \in Nat /\ Current >= 1 /\ Current \in DOMAIN sent /\ sent[Current] \in Frame
         /\ Place \in Nat /\ Half \in BOOLEAN /\ Byte \in Octet
         /\ Symbol.frame = Current /\ Symbol.at = Place
         /\ End(sent[Current]) \in Nat /\ End(sent[Current]) >= 9
         /\ Inside <=> Place # 0 /\ Place # End(sent[Current])
         /\ Inside <=> Between
         /\ BeforeLen <=> Place # 0 /\ ~(Place >= 4)
         /\ \E p \in Payloads : sent[Current].arg = p.arg
<1>1. TypeOK /\ WireInv /\ wire # <<>> /\ sent' = sent
  BY DEF LineInv, ByteStep
<1>2. /\ Current \in DOMAIN sent /\ sent[Current] \in Frame /\ Symbol = wire[1]
      /\ Current = wire[1].frame /\ Place = wire[1].at /\ Place \in 0 .. End(sent[Current])
  BY <1>1, FirstSymbol
<1>3. Current \in 1 .. Len(sent) + 1 /\ Place \in Nat /\ Half \in BOOLEAN /\ Len(sent) \in Nat
  BY <1>1, PlaceType
<1>4. Byte \in Octet
  BY <1>1, ByteIs
<1>5. Symbol.frame = Current /\ Symbol.at = Place
  BY <1>2
<1>6. /\ Len(sent[Current].arg) \in Nat /\ End(sent[Current]) = Len(sent[Current].arg) + 5
      /\ Len(sent[Current].arg) >= 4
  BY <1>2, FrameFacts DEF End
<1>7. Inside <=> Between
  BY <1>5 DEF Inside, Between
<1>8. Between <=> Place # 0 /\ Place # End(sent[Current])
  <2>1. PICK a \in Nat, n \in Nat :
          a = Place /\ n = Len(sent[Current].arg) /\ n + 5 = End(sent[Current]) /\ a <= n + 5
    BY <1>2, <1>3, <1>6
  <2>2. a \in 1 .. n + 4 <=> a # 0 /\ a # n + 5
    BY <2>1
  <2> QED BY <2>1, <2>2 DEF Between
<1>9. BeforeLen <=> Place # 0 /\ ~(Place >= 4)
  BY <1>3, <1>5 DEF BeforeLen
<1>10. \E p \in Payloads : sent[Current].arg = p.arg
  BY <1>2 DEF LineInv
<1> QED BY <1>1, <1>2, <1>3, <1>4, <1>5, <1>6, <1>7, <1>8, <1>9, <1>10

\* A frame hurt is one the line has come to.
HurtInv == \A k \in hurt : k <= Current /\ (Place = 0 => k < Current)

\* Damage is done between the flags, and the line does not go back.
LEMMA HurtStep ==
  ASSUME LineInv, HurtInv, ByteStep, hurt' = hurt \/ (Between /\ hurt' = hurt \cup {Current})
  PROVE  HurtInv'
<1>1. /\ Current \in Nat /\ Place \in Nat /\ hurt \in SUBSET Nat
      /\ End(sent[Current]) \in Nat /\ End(sent[Current]) >= 9
      /\ Between => Place # 0 /\ Place # End(sent[Current])
  BY AtByte DEF LineInv, TypeOK
<1>2. \/ Current' = Current /\ (Place' = 0 => Place = 0)
      \/ Current' = Current + 1 /\ Place' = 0 /\ ~Between
  BY <1>1 DEF ByteStep, Moves, Stays, StartFlag, EndFlag, PlainByte, FirstOfTwo, SecondOfTwo
<1>3. Between /\ hurt' = hurt \cup {Current} => Current' = Current /\ Place' # 0
  BY <1>1, <1>2
<1> SUFFICES ASSUME NEW k \in hurt' PROVE k <= Current' /\ (Place' = 0 => k < Current')
  BY DEF HurtInv
<1>4. CASE k \in hurt
  BY <1>1, <1>2, <1>4 DEF HurtInv
<1>5. CASE k \notin hurt
  <2>1. k = Current /\ Current' = Current /\ Place' # 0
    BY <1>3, <1>5
  <2> QED BY <1>1, <2>1
<1> QED BY <1>4, <1>5

\* Without a flag the decoder stays outside, and decodes nothing.
LEMMA OutsideStep ==
  ASSUME LineInv, ByteStep, Matched(Current - 1), Outside', decoded' = decoded,
         hurt' = hurt \/ hurt' = hurt \cup {Current}
  PROVE  Follow'
<1>1. PICK k \in Nat, a \in Nat, f \in Frame, n \in Nat :
        k = Current /\ a = Place /\ f = sent[k] /\ sent'[k] = f /\ n = k - 1 /\ k = n + 1
  <2>1. Current - 1 \in Nat /\ Current - 1 + 1 = Current
    BY AtByte
  <2> QED BY <2>1, AtByte
<1>2. TypeOK /\ sent' = sent
  BY AtByte
<1>3. \A i \in hurt' : i \in hurt \/ i > n
  BY <1>1
<1>4. Matched(n)' /\ Matched(k)'
  <2>1. n \in Int /\ k \in Int /\ n <= n /\ n <= k /\ Matched(n)
    BY <1>1
  <2> QED BY <1>2, <1>3, <2>1, MatchedKeeps
<1>5. ASSUME NEW e \in Int, NEW g, Current' = Current, Place' = e, Half' = g, e # 0
      PROVE  Follow'
  <2>1. Current' = k /\ k - 1 = n
    BY <1>1, <1>5
  <2>2. Matched(k - 1)'
    BY <1>4, <2>1
  <2> QED BY <1>1, <1>5, <2>1, <2>2, ToMidway
<1>6. CASE Stays
  <2>1. CASE Place = 0
    <3>1. Current' = n + 1 /\ Place' = 0
      BY <1>1, <1>6, <2>1 DEF Stays
    <3> QED BY <1>4, <3>1, ToFlagNext
  <2>2. CASE Place # 0
    BY <1>1, <1>5, <1>6, <2>2 DEF Stays
  <2> QED BY <2>1, <2>2
<1>7. CASE EndFlag
  <2>1. Current' = k + 1 /\ Place' = 0
    BY <1>1, <1>7 DEF EndFlag
  <2> QED BY <1>1, <1>4, <2>1, ToFlagNext
<1>8. CASE StartFlag
  <2>1. Current' = Current /\ Place' = 1
    BY <1>8 DEF StartFlag
  <2> QED BY <1>5, <2>1
<1>9. CASE PlainByte \/ SecondOfTwo
  <2>1. Current' = Current /\ Place' = a + 1
    BY <1>1, <1>9 DEF PlainByte, SecondOfTwo
  <2>2. a + 1 \in Int /\ a + 1 # 0
    OBVIOUS
  <2> QED BY <1>5, <2>1, <2>2
<1>10. CASE FirstOfTwo
  <2>1. Current' = Current /\ Place' = a /\ a # 0
    BY <1>1, <1>10, AtByte DEF FirstOfTwo
  <2> QED BY <1>5, <2>1
<1> QED BY <1>6, <1>7, <1>8, <1>9, <1>10 DEF ByteStep, Moves

\* A byte nobody hears.
LEMMA MissStep ==
  ASSUME LineInv, DamageInv, ByteStep, Miss, ~shifted'
  PROVE  Follow'
<1>1. ~listening /\ UNCHANGED <<in, decoded, hurt, shifted>>
  BY DEF Miss, decoderVars
<1>2. Outside /\ Outside' /\ Follow
  BY <1>1 DEF DamageInv, Outside, TypeOK, LineInv
<1>3. Matched(Current - 1)
  BY <1>2 DEF Outside, Follow, FlagNext, Midway, Clean, Rejects, Late, Exact, Junk
<1> QED BY <1>1, <1>2, <1>3, OutsideStep

\* A byte delivered as it was sent.
LEMMA DeliverStep ==
  ASSUME LineInv, DamageInv, ByteStep, Moves, Deliver, Feed(Byte), ~shifted'
  PROVE  Follow'
<1>1. UNCHANGED <<listening, sent, spoilt, hurt, shifted, damages>>
  BY DEF Deliver, historyVars
<1>2. PICK k \in Nat, a \in Nat, f \in Frame, n \in Nat :
        /\ k = Current /\ a = Place /\ f = sent[k] /\ sent'[k] = f /\ n = k - 1 /\ k = n + 1
        /\ k \in DOMAIN sent
  <2>1. Current - 1 \in Nat /\ Current - 1 + 1 = Current
    BY AtByte
  <2> QED BY <2>1, AtByte
<1>3. /\ TypeOK /\ WireInv /\ sent' = sent /\ Half \in BOOLEAN /\ in \in BOOLEAN
      /\ End(f) \in Nat /\ End(f) >= 9
  BY <1>2, AtByte DEF TypeOK
<1>4. Follow /\ (Spent => Spent')
  BY <1>1 DEF DamageInv, Spent
<1>5. a = 0 => k \notin hurt
  BY <1>2 DEF DamageInv
<1>6. ASSUME decoded' = decoded
      PROVE  /\ Matched(n) => Matched(n)' /\ Matched(k)'
             /\ Matched(k) => Matched(k)'
  <2>1. n \in Int /\ k \in Int /\ n <= n /\ n <= k /\ k <= k
    BY <1>2
  <2> QED BY <1>1, <1>3, <1>6, <2>1, MatchedKeeps
<1>7. CASE StartFlag
  <2>1. a = 0 /\ Feed(FLAG) /\ Current' = k /\ Place' = 1 /\ Half' = FALSE
    BY <1>2, <1>7 DEF StartFlag, Half
  <2>2. Exact(f, 1, FALSE)'
    BY <1>3, <2>1, FlagStarts
  <2>3. Matched(n)'
    <3>1. FlagNext
      BY <1>2, <1>4, <2>1 DEF Follow
    <3>2. CASE Matched(n) /\ (Outside \/ Clean \/ Rejects)
      <4>1. decoded' = decoded
        BY <1>3, <2>1, <3>2, FlagAfter
      <4> QED BY <1>6, <3>2, <4>1
    <3>3. CASE k > 1 /\ Matched(k - 2) /\ n \notin hurt /\ Late(sent[n])
      <4>1. PICK b \in Int : b = k - 2 /\ b < n /\ n <= n
        BY <1>2
      <4>2. n \in DOMAIN sent /\ sent[n] \in Frame
        <5>1. /\ DOMAIN sent = 1 .. Len(sent) /\ Len(sent) \in Nat /\ sent \in Seq(Frame)
              /\ Current \in DOMAIN sent
          BY <1>3, AtByte, PlaceType DEF TypeOK
        <5> QED BY <1>2, <3>3, <5>1
      <4>3. decoded' = Append(decoded, sent[n])
        BY <1>3, <2>1, <3>3, <4>2, FlagAfter
      <4> QED BY <1>1, <1>2, <1>3, <3>3, <4>1, <4>2, <4>3, MatchedGrows
    <3> QED BY <1>2, <3>1, <3>2, <3>3 DEF FlagNext
  <2>4. k - 1 = n /\ k \notin hurt'
    BY <1>1, <1>2, <1>5, <2>1
  <2>5. Matched(k - 1)'
    BY <1>2, <2>3, <2>4 DEF Matched
  <2>6. PICK e, g : e \in Nat /\ e = 1 /\ g = FALSE /\ e # 0
    OBVIOUS
  <2>7. Exact(f, e, g)' /\ Current' = k /\ Place' = e /\ Half' = g
    BY <2>1, <2>2, <2>6
  <2> QED BY <1>2, <2>4, <2>5, <2>6, <2>7, ToMidway
<1>8. CASE EndFlag
  <2>1. /\ a = End(f) /\ Feed(FLAG) /\ Current' = k + 1 /\ Place' = 0 /\ Half = FALSE
        /\ a # 0
    BY <1>2, <1>3, <1>8 DEF EndFlag, Half
  <2>2. Clean'
    BY <1>3, <2>1, FlagAfter
  <2>3. Matched(k)'
    <3>1. Midway
      BY <1>2, <1>4, <2>1 DEF Follow
    <3>2. CASE Matched(n) /\ Outside
      <4>1. decoded' = decoded
        BY <1>3, <2>1, <3>2, FlagAfter
      <4> QED BY <1>6, <3>2, <4>1
    <3>3. CASE Matched(n) /\ k \notin hurt /\ Exact(f, a, FALSE)
      <4>1. decoded' = Append(decoded, f)
        BY <1>3, <2>1, <3>3, ExactYields
      <4>2. n \in Int /\ k \in Int /\ n < k /\ k <= k
        BY <1>2
      <4> QED BY <1>1, <1>2, <1>3, <3>3, <4>1, <4>2, MatchedGrows
    <3>4. CASE Matched(k) /\ Junk(f, a, FALSE)
      <4>1. decoded' = decoded
        BY <1>3, <2>1, <3>4, JunkRejected
      <4> QED BY <1>6, <3>4, <4>1
    <3> QED BY <1>2, <2>1, <3>1, <3>2, <3>3, <3>4 DEF Midway
  <2> QED BY <1>2, <2>1, <2>2, <2>3, ToFlagNext
<1>9. CASE PlainByte \/ FirstOfTwo \/ SecondOfTwo
  <2>1. /\ a \in 1 .. Len(f.arg) + 4 /\ a # 0 /\ Byte # FLAG /\ Current' = k
        /\ Here = Inner(f)[a] /\ Half' \in BOOLEAN
        /\ (Place' = a + 1 /\ Half' = FALSE) \/ (FirstOfTwo /\ Place' = a /\ Half' = TRUE)
    BY <1>2, <1>9, Specials DEF PlainByte, FirstOfTwo, SecondOfTwo, Between, Here, Half
  <2>2. Midway
    BY <1>2, <1>4, <2>1 DEF Follow
  <2>3. PICK e \in Nat, g \in BOOLEAN : e = Place' /\ g = Half' /\ e # 0
    BY <2>1
  <2>4. CASE Matched(n) /\ Outside
    <3>1. in = FALSE /\ bad \in BOOLEAN
      BY <1>3, <2>4 DEF Outside, TypeOK
    <3>2. in' = in /\ decoded' = decoded
      BY <2>1, <3>1, FeedIs
    <3>3. Outside'
      BY <3>1, <3>2 DEF Outside
    <3> QED BY <1>1, <1>2, <2>4, <3>2, <3>3, OutsideStep
  <2>5. CASE Matched(n) /\ k \notin hurt /\ Exact(sent[Current], Place, Half)
    <3>1. Exact(sent[Current], Place, Half)' /\ decoded' = decoded
      BY <1>2, <1>3, <1>9, <2>1, <2>5, ExactFollows
    <3>2. Exact(f, e, g)'
      BY <1>2, <2>1, <2>3, <3>1 DEF Exact, Prefix
    <3>3. Matched(k - 1)' /\ k \notin hurt'
      BY <1>1, <1>2, <1>6, <2>5, <3>1
    <3> QED BY <1>2, <2>1, <2>3, <3>2, <3>3, ToMidway
  <2>6. CASE Spent /\ Matched(k) /\ Junk(f, a, Half)
    <3>1. Junk(f, e, g)' /\ decoded' = decoded
      <4>1. CASE PlainByte
        <5>1. /\ Half = FALSE /\ Feed(Inner(f)[a]) /\ Inner(f)[a] \notin {FLAG, ESC}
              /\ e = a + 1 /\ g = FALSE
          BY <1>2, <2>1, <2>3, <4>1 DEF PlainByte, Half
        <5> QED BY <1>3, <2>1, <2>6, <5>1, JunkPlain
      <4>2. CASE FirstOfTwo
        <5>1. Half = FALSE /\ Feed(ESC) /\ e = a /\ g = TRUE
          BY <1>2, <2>1, <2>3, <4>2 DEF FirstOfTwo, Half
        <5> QED BY <1>3, <2>1, <2>6, <5>1, JunkFirst
      <4>3. CASE SecondOfTwo
        <5>1. PICK b : b = Byte
          OBVIOUS
        <5>2. /\ Half = TRUE /\ Feed(b) /\ e = a + 1 /\ g = FALSE
              /\ \/ b = ESC_FLAG /\ Inner(f)[a] = FLAG
                 \/ b = ESC_ESC /\ Inner(f)[a] = ESC
          BY <1>2, <2>1, <2>3, <4>3, <5>1 DEF SecondOfTwo, Half
        <5> QED BY <1>3, <2>1, <2>6, <5>2, JunkSecond
      <4> QED BY <1>9, <4>1, <4>2, <4>3
    <3>2. Matched(k)' /\ Spent'
      BY <1>4, <1>6, <2>6, <3>1
    <3> QED BY <1>2, <2>1, <2>3, <3>1, <3>2, ToMidway
  <2> QED BY <1>2, <2>2, <2>4, <2>5, <2>6 DEF Midway
<1> QED BY <1>7, <1>8, <1>9 DEF Moves

\* What damage leaves: no more of it, and LEN in its place.
LEMMA DamageIs ==
  ASSUME LineInv, ByteStep, OneByte, NEW x, NEW y \in BOOLEAN, NEW z, Damage(x, y, z), ~shifted'
  PROVE  /\ ~Spent /\ Spent' /\ ~shifted /\ ~z
         /\ hurt' = IF y THEN hurt \cup {Current} ELSE hurt
<1>1. /\ damages < MaxDamage /\ damages' = damages + 1 /\ shifted' = (shifted \/ z)
      /\ hurt' = hurt \cup OnlyIf(y)
  BY DEF Damage
<1>2. damages \in Nat
  BY DEF LineInv, TypeOK
<1>3. MaxDamage = 1 /\ damages = 0
  BY <1>1, <1>2 DEF OneByte
<1>4. ~Spent /\ Spent'
  BY <1>1, <1>3 DEF Spent
<1>5. OnlyIf(y) = IF y THEN {Current} ELSE {}
  BY AtByte DEF OnlyIf
<1> QED BY <1>1, <1>4, <1>5

\* A byte is lost.
LEMMA LoseStep ==
  ASSUME LineInv, DamageInv, ByteStep, Moves, LoseByte, OneByte, ~shifted'
  PROVE  Follow'
<1>1. Inside \in BOOLEAN /\ UNCHANGED <<in, esc, bad, buf, decoded>>
  BY DEF LoseByte, Inside, decoderVars
<1>2. /\ ~Spent /\ Spent' /\ ~shifted /\ ~BeforeLen
      /\ hurt' = IF Inside THEN hurt \cup {Current} ELSE hurt
  BY <1>1, DamageIs DEF LoseByte
<1>3. PICK k \in Nat, a \in Nat, f \in Frame, n \in Nat :
        /\ k = Current /\ a = Place /\ f = sent[k] /\ sent'[k] = f /\ n = k - 1 /\ k = n + 1
        /\ k >= 1 /\ k # 0
  <2>1. Current - 1 \in Nat /\ Current - 1 + 1 = Current /\ Current # 0
    BY AtByte
  <2> QED BY <2>1, AtByte
<1>4. /\ TypeOK /\ WireInv /\ sent' = sent /\ Half \in BOOLEAN
      /\ End(f) \in Nat /\ End(f) >= 9
      /\ Inside <=> a # 0 /\ a # End(f)
      /\ a # 0 => a >= 4
  BY <1>2, <1>3, AtByte
<1>5. Follow
  BY <1>2 DEF DamageInv
<1>6. Matched(n) /\ (IF a = 0 THEN Outside \/ Clean
                              ELSE Outside \/ (k \notin hurt /\ Exact(f, a, Half)))
  BY <1>2, <1>3, <1>5 DEF Follow, FlagNext, Midway
<1>7. Matched(n)' /\ Matched(k)'
  <2>1. n \in Int /\ k \in Int /\ n <= n /\ n <= k /\ \A i \in hurt' : i \in hurt \/ i > n
    BY <1>2, <1>3
  <2> QED BY <1>1, <1>4, <1>6, <2>1, MatchedKeeps
<1>8. CASE Outside
  <2>1. Outside' /\ Matched(Current - 1)
    BY <1>1, <1>3, <1>6, <1>8 DEF Outside
  <2> QED BY <1>1, <1>2, <2>1, OutsideStep
<1>9. CASE StartFlag /\ ~Outside
  <2>1. a = 0 /\ Current' = k /\ Place' = 1 /\ Half' = FALSE
    BY <1>3, <1>9 DEF StartFlag, Half
  <2>2. in' /\ ~bad' /\ esc' = FALSE /\ buf' = <<>>
    BY <1>1, <1>4, <1>6, <1>9, <2>1 DEF Clean, TypeOK
  <2>3. Exact(f, 1, FALSE)'
    <3>1. Prefix(f, 0)' /\ 1 - 1 = 0
      BY <2>2, EmptySeq DEF Prefix
    <3> QED BY <2>2, <3>1 DEF Exact
  <2>4. k \notin hurt'
    BY <1>2, <1>3, <1>4, <2>1 DEF DamageInv
  <2>5. k - 1 = n
    BY <1>3
  <2>6. Matched(k - 1)'
    BY <1>3, <1>7, <2>5 DEF Matched
  <2>7. PICK e, g : e \in Nat /\ e = 1 /\ g = FALSE /\ e # 0
    OBVIOUS
  <2>8. Exact(f, e, g)' /\ Current' = k /\ Place' = e /\ Half' = g
    BY <2>1, <2>3, <2>7
  <2> QED BY <1>3, <2>4, <2>6, <2>7, <2>8, ToMidway
<1>10. CASE EndFlag /\ ~Outside
  <2>1. a = End(f) /\ a # 0 /\ Current' = k + 1 /\ Place' = 0 /\ Half = FALSE
    BY <1>3, <1>4, <1>10 DEF EndFlag, Half
  <2>2. Exact(f, a, FALSE) /\ k \notin hurt
    BY <1>6, <1>10, <2>1
  <2>3. a - 1 = Len(f.arg) + 4
    BY <2>1, FrameFacts DEF End
  <2>4. Late(f)'
    BY <1>1, <2>2, <2>3 DEF Exact, Late, Prefix
  <2>5. k \notin hurt' /\ Matched(k - 1)'
    BY <1>2, <1>3, <1>4, <1>7, <2>1, <2>2
  <2> QED BY <1>2, <1>3, <2>1, <2>4, <2>5, ToFlagNext
<1>11. CASE (PlainByte \/ FirstOfTwo \/ SecondOfTwo) /\ ~Outside
  <2>1. /\ a \in 1 .. Len(f.arg) + 4 /\ a # 0 /\ Current' = k /\ Half' \in BOOLEAN
        /\ \/ Half = FALSE /\ Place' = a + 1 /\ Half' = FALSE
           \/ Half = FALSE /\ Place' = a /\ Half' = TRUE
           \/ Half = TRUE /\ Place' = a + 1 /\ Half' = FALSE
    BY <1>3, <1>11 DEF PlainByte, FirstOfTwo, SecondOfTwo, Between, Half
  <2>2. PICK e \in Nat, g \in BOOLEAN : e = Place' /\ g = Half' /\ e # 0
    <3>1. Place' \in Nat /\ Place' # 0 /\ Half' \in BOOLEAN
      BY <1>3, <2>1
    <3> QED BY <3>1
  <2>3. Exact(f, a, Half) /\ a >= 4
    BY <1>4, <1>6, <1>11, <2>1
  <2>4. Junk(f, e, g)'
    BY <1>1, <1>4, <2>1, <2>2, <2>3, LossMakesJunk
  <2> QED BY <1>2, <1>3, <1>7, <2>1, <2>2, <2>4, ToMidway
<1> QED BY <1>8, <1>9, <1>10, <1>11 DEF Moves

\* A flag put into a frame the decoder is not following: what comes is too short.
LEMMA FlagIntoFrame ==
  ASSUME TypeOK, NEW f \in Frame, Len(f.arg) <= 6, NEW e \in Nat, e >= 4, NEW g \in BOOLEAN,
         Outside, Feed(FLAG)
  PROVE  Junk(f, e, g)' /\ decoded' = decoded
<1>1. in' = TRUE /\ esc' = FALSE /\ buf' = <<>> /\ decoded' = decoded
  BY FeedIs, FlagAfter DEF TypeOK
<1>2. WrongLength(f, e, g)'
  BY <1>1, TooShort
<1> QED BY <1>1, <1>2 DEF Junk

\* A byte is changed.
LEMMA ChangeStep ==
  ASSUME LineInv, DamageInv, ByteStep, Moves, NEW b \in Noise, ChangeByte(b), OneByte, ~shifted'
  PROVE  Follow'
<1> DEFINE moves == Symbol.at = 0 \/ (BeforeLen /\ (b \in {FLAG, ESC} \/ Byte = ESC))
<1>1. b \in Octet /\ b # Byte /\ Feed(b) /\ Damage(TRUE, Inside, moves) /\ Inside \in BOOLEAN
  <2>1. Damage(TRUE, Inside, moves) /\ b # Byte /\ Feed(b)
    BY DEF ChangeByte
  <2>2. Inside \in BOOLEAN
    BY DEF Inside
  <2> QED BY <2>1, <2>2, NoiseAssumption
<1>2. /\ ~Spent /\ Spent' /\ ~shifted /\ ~moves
      /\ hurt' = IF Inside THEN hurt \cup {Current} ELSE hurt
  <2> HIDE DEF moves
  <2> QED BY <1>1, DamageIs
<1>3. PICK k \in Nat, a \in Nat, f \in Frame, n \in Nat :
        /\ k = Current /\ a = Place /\ f = sent[k] /\ sent'[k] = f /\ n = k - 1 /\ k = n + 1
        /\ k >= 1 /\ k # 0
  <2>1. Current - 1 \in Nat /\ Current - 1 + 1 = Current /\ Current # 0
    BY AtByte
  <2> QED BY <2>1, AtByte
<1>4. /\ TypeOK /\ WireInv /\ sent' = sent /\ Half \in BOOLEAN
      /\ End(f) \in Nat /\ End(f) >= 9
      /\ Inside <=> a # 0 /\ a # End(f)
      /\ a # 0
      /\ b \in {FLAG, ESC} \/ Byte = ESC => a >= 4
  BY <1>2, <1>3, AtByte
<1>5. b = FLAG => Len(f.arg) <= 6
  <2>1. MaxDamage # 0
    BY <1>1 DEF Damage, LineInv, TypeOK
  <2>2. PICK p \in Payloads : f.arg = p.arg
    BY <1>3, AtByte
  <2> QED BY <2>1, <2>2 DEF OneByte
<1>6. Matched(n) /\ (Outside \/ (k \notin hurt /\ Exact(f, a, Half)))
  <2>1. Midway
    BY <1>2, <1>3, <1>4 DEF DamageInv, Follow
  <2> QED BY <1>2, <1>3, <2>1 DEF Midway
<1>7. decoded' = decoded => Matched(n)' /\ Matched(k)'
  <2>1. n \in Int /\ k \in Int /\ n <= n /\ n <= k /\ \A i \in hurt' : i \in hurt \/ i > n
    BY <1>2, <1>3
  <2> QED BY <1>1, <1>4, <1>6, <2>1, MatchedKeeps
<1>8. CASE Outside /\ b # FLAG
  <2>1. in = FALSE /\ bad \in BOOLEAN
    BY <1>4, <1>8 DEF Outside, TypeOK
  <2>2. in' = in /\ decoded' = decoded
    BY <1>1, <1>8, <2>1, FeedIs
  <2>3. Outside' /\ Matched(Current - 1)
    BY <1>3, <1>6, <2>1, <2>2 DEF Outside
  <2> QED BY <1>2, <2>2, <2>3, OutsideStep
<1>9. CASE EndFlag /\ ~Outside
  <2>1. a = End(f) /\ Current' = k + 1 /\ Place' = 0 /\ Half = FALSE /\ Byte = FLAG
    BY <1>3, <1>9 DEF EndFlag, Half
  <2>2. Exact(f, End(f), FALSE) /\ b # FLAG
    BY <1>1, <1>6, <1>9, <2>1
  <2>3. Rejects' /\ decoded' = decoded
    BY <1>1, <1>4, <2>2, ChangeAtEnd
  <2> QED BY <1>2, <1>3, <1>7, <2>1, <2>3, ToFlagNext
<1>10. CASE PlainByte \/ FirstOfTwo \/ SecondOfTwo
  <2>1. /\ a \in 1 .. Len(f.arg) + 4 /\ Current' = k /\ Half' \in BOOLEAN /\ Here = Inner(f)[a]
        /\ \/ Half = FALSE /\ Place' = a + 1 /\ Half' = FALSE
           \/ Half = FALSE /\ Place' = a /\ Half' = TRUE
           \/ Half = TRUE /\ Place' = a + 1 /\ Half' = FALSE
    BY <1>3, <1>10 DEF PlainByte, FirstOfTwo, SecondOfTwo, Between, Half, Here
  <2>2. PICK e \in Nat, g \in BOOLEAN : e = Place' /\ g = Half' /\ e # 0 /\ (a >= 4 => e >= 4)
    <3>1. /\ Place' \in Nat /\ Place' # 0 /\ Half' \in BOOLEAN
          /\ a >= 4 => Place' >= 4
      BY <1>3, <1>4, <2>1
    <3> QED BY <3>1
  <2>3. CASE Outside /\ b = FLAG
    <3>1. Len(f.arg) <= 6 /\ e >= 4 /\ Feed(FLAG)
      BY <1>1, <1>4, <1>5, <2>2, <2>3
    <3>2. Junk(f, e, g)' /\ decoded' = decoded
      BY <1>4, <2>3, <3>1, FlagIntoFrame
    <3> QED BY <1>2, <1>3, <1>7, <2>1, <2>2, <3>2, ToMidway
  <2>4. CASE ~Outside
    <3>1. Exact(f, a, Half)
      BY <1>6, <2>4
    <3>2. Junk(f, e, g)' /\ decoded' = decoded
      <4>1. CASE PlainByte
        <5>1. /\ Half = FALSE /\ e = a + 1 /\ g = FALSE
              /\ b # Inner(f)[a] /\ Inner(f)[a] \notin {FLAG, ESC}
          BY <1>1, <2>1, <2>2, <4>1 DEF PlainByte, Half
        <5>2. Exact(f, a, FALSE)
          BY <3>1, <5>1
        <5> QED BY <1>1, <1>4, <1>5, <2>1, <5>1, <5>2, ChangeOfPlain
      <4>2. CASE FirstOfTwo
        <5>1. Half = FALSE /\ e = a /\ g = TRUE /\ b # ESC /\ a >= 4
          BY <1>1, <1>3, <1>4, <2>1, <2>2, <4>2 DEF FirstOfTwo, Half
        <5>2. Exact(f, a, FALSE)
          BY <3>1, <5>1
        <5> QED BY <1>1, <1>4, <1>5, <2>1, <5>1, <5>2, ChangeOfFirst
      <4>3. CASE SecondOfTwo
        <5>1. /\ Half = TRUE /\ e = a + 1 /\ g = FALSE
              /\ ~(b = ESC_FLAG /\ Inner(f)[a] = FLAG) /\ ~(b = ESC_ESC /\ Inner(f)[a] = ESC)
          BY <1>1, <2>1, <2>2, <4>3, Specials DEF SecondOfTwo, Half
        <5>2. Exact(f, a, TRUE)
          BY <3>1, <5>1
        <5> QED BY <1>1, <1>4, <1>5, <2>1, <5>1, <5>2, ChangeOfSecond
      <4> QED BY <1>10, <4>1, <4>2, <4>3
    <3> QED BY <1>2, <1>3, <1>7, <2>1, <2>2, <3>2, ToMidway
  <2> QED BY <1>8, <2>3, <2>4
<1>11. CASE EndFlag /\ Outside
  <2>1. b # FLAG
    BY <1>1, <1>11 DEF EndFlag
  <2> QED BY <1>8, <1>11, <2>1
<1>12. ~StartFlag
  BY <1>3, <1>4 DEF StartFlag
<1> QED BY <1>9, <1>10, <1>11, <1>12 DEF Moves

\* A byte is added.
LEMMA AddStep ==
  ASSUME LineInv, DamageInv, ByteStep, Stays, NEW b \in Noise, AddByte(b), OneByte, ~shifted'
  PROVE  Follow'
<1> DEFINE hurts == Inside /\ (b = FLAG => Symbol.at > 1)
<1>1. b \in Octet /\ Feed(b) /\ Damage(Symbol.at # 0, hurts, BeforeLen) /\ hurts \in BOOLEAN
  BY NoiseAssumption DEF AddByte, Inside
<1> HIDE DEF hurts
<1>2. /\ ~Spent /\ Spent' /\ ~shifted /\ ~BeforeLen
      /\ hurt' = IF hurts THEN hurt \cup {Current} ELSE hurt
  BY <1>1, DamageIs
<1>3. PICK k \in Nat, a \in Nat, f \in Frame, n \in Nat, h \in BOOLEAN :
        /\ k = Current /\ a = Place /\ f = sent[k] /\ sent'[k] = f /\ n = k - 1 /\ k = n + 1
        /\ k \in DOMAIN sent /\ h = Half
        /\ Current' = k /\ Place' = a /\ Half' = h
  <2>1. Current - 1 \in Nat /\ Current - 1 + 1 = Current
    BY AtByte
  <2> QED BY <2>1, AtByte DEF Stays
<1>4. /\ TypeOK /\ WireInv /\ sent' = sent /\ bad \in BOOLEAN /\ esc \in BOOLEAN
      /\ End(f) \in Nat /\ End(f) >= 9
      /\ Inside <=> a # 0 /\ a # End(f)
      /\ a # 0 => a >= 4
  BY <1>2, <1>3, AtByte DEF TypeOK
<1>5. b = FLAG => Len(f.arg) <= 6
  <2>1. MaxDamage # 0
    BY <1>1 DEF Damage, LineInv, TypeOK
  <2>2. PICK p \in Payloads : f.arg = p.arg
    BY <1>3, AtByte
  <2> QED BY <2>1, <2>2 DEF OneByte
<1>6. Matched(n) /\ (IF a = 0 THEN Outside \/ Clean
                              ELSE Outside \/ (k \notin hurt /\ Exact(f, a, h)))
  <2>1. Follow
    BY <1>2 DEF DamageInv
  <2> QED BY <1>2, <1>3, <2>1 DEF Follow, FlagNext, Midway
<1>7. decoded' = decoded => Matched(n)' /\ Matched(k)'
  <2>1. n \in Int /\ k \in Int /\ n <= n /\ n <= k /\ \A i \in hurt' : i \in hurt \/ i > n
    BY <1>2, <1>3
  <2> QED BY <1>1, <1>4, <1>6, <2>1, MatchedKeeps
<1>8. CASE Outside /\ b # FLAG
  <2>1. in = FALSE
    BY <1>4, <1>8 DEF Outside, TypeOK
  <2>2. in' = in /\ decoded' = decoded
    BY <1>1, <1>4, <1>8, <2>1, FeedIs
  <2>3. Outside' /\ Matched(Current - 1)
    BY <1>3, <1>6, <2>1, <2>2 DEF Outside
  <2> QED BY <1>2, <2>2, <2>3, OutsideStep
<1>9. CASE a = 0 /\ (b = FLAG \/ ~Outside)
  <2>1. (Clean' \/ Rejects') /\ decoded' = decoded
    <3>1. CASE b = FLAG
      BY <1>1, <1>4, <1>6, <1>9, <3>1, FlagAfter
    <3>2. CASE b = ESC
      <4>1. in /\ ~bad /\ ~esc
        BY <1>6, <1>9, <3>2, Specials DEF Clean
      <4>2. in' = TRUE /\ esc' = TRUE /\ decoded' = decoded
        BY <1>1, <1>4, <3>2, <4>1, FeedIs, Specials
      <4> QED BY <4>2 DEF Rejects
    <3>3. CASE b \notin {FLAG, ESC}
      <4>1. in /\ ~bad /\ ~esc /\ buf = <<>> /\ Len(buf) = 0
        BY <1>6, <1>9, <3>3, EmptySeq DEF Clean
      <4>2. in' = TRUE /\ buf' = Append(buf, b) /\ decoded' = decoded
        BY <1>1, <1>4, <3>3, <4>1, FeedIs
      <4>3. Len(buf') = 1 /\ buf' \in Seq(Octet)
        BY <1>1, <1>4, <4>1, <4>2, AppendProperties DEF TypeOK
      <4>4. ~Accepted(buf')
        BY <4>3, AcceptedLength
      <4>5. Rejects'
        BY <4>2, <4>4 DEF Rejects, Accepted
      <4> QED BY <4>2, <4>5
    <3> QED BY <3>1, <3>2, <3>3
  <2>2. Current' = n + 1 /\ Place' = 0 /\ Matched(n)'
    BY <1>3, <1>7, <1>9, <2>1
  <2> QED BY <1>2, <2>1, <2>2, ToFlagNext
<1>10. CASE a # 0 /\ a # End(f) /\ (b = FLAG \/ ~Outside)
  <2>1. Junk(f, a, h)' /\ decoded' = decoded
    <3>1. CASE Outside
      <4>1. Feed(FLAG) /\ Len(f.arg) <= 6 /\ a >= 4
        BY <1>1, <1>4, <1>5, <1>10, <3>1
      <4> QED BY <1>4, <3>1, <4>1, FlagIntoFrame
    <3>2. CASE ~Outside
      <4>1. a \in 1 .. Len(f.arg) + 4 /\ a >= 4 /\ Exact(f, a, h)
        <5>1. Between
          BY <1>3, <1>10, AtByte
        <5> QED BY <1>3, <1>4, <1>6, <1>10, <3>2, <5>1 DEF Between
      <4> QED BY <1>1, <1>4, <1>5, <4>1, AddMakesJunk
    <3> QED BY <3>1, <3>2
  <2> QED BY <1>2, <1>3, <1>7, <1>10, <2>1, ToMidway
<1>11. CASE a = End(f) /\ (b = FLAG \/ ~Outside)
  <2>1. h = FALSE /\ a # 0
    <3>1. Place = End(sent[Current]) /\ wire # <<>>
      BY <1>3, <1>11, AtByte
    <3>2. ~Half
      BY <1>4, <3>1, ByteIs
    <3> QED BY <1>3, <1>4, <1>11, <3>2
  <2>2. hurt' = hurt
    BY <1>2, <1>4, <1>11, <2>1 DEF hurts
  <2>3. Junk(f, a, h)' /\ Matched(k)'
    <3>1. CASE Outside
      <4>1. Feed(FLAG)
        BY <1>1, <1>11, <3>1
      <4>2. in' = TRUE /\ esc' = FALSE /\ buf' = <<>> /\ decoded' = decoded
        BY <1>4, <3>1, <4>1, FeedIs, FlagAfter
      <4>3. Len(buf') + End(f) - a < 8
        BY <1>4, <1>11, <4>2, EmptySeq
      <4>4. WrongLength(f, a, h)'
        BY <4>2, <4>3 DEF WrongLength
      <4> QED BY <1>7, <4>2, <4>4 DEF Junk
    <3>2. CASE ~Outside
      <4>1. Exact(f, End(f), FALSE) /\ k \notin hurt
        BY <1>6, <1>11, <2>1, <3>2
      <4>2. /\ Junk(f, End(f), FALSE)'
            /\ decoded' = IF b = FLAG THEN Append(decoded, f) ELSE decoded
        BY <1>1, <1>4, <4>1, AddAtEnd
      <4>3. Junk(f, a, h)'
        BY <1>11, <2>1, <4>2
      <4>4. CASE b = FLAG
        <5>1. n \in Int /\ k \in Int /\ n < k /\ k <= k /\ decoded' = Append(decoded, sent[k])
          BY <1>3, <4>2, <4>4
        <5> QED BY <1>3, <1>4, <1>6, <2>2, <4>1, <4>3, <5>1, MatchedGrows
      <4> QED BY <1>7, <4>2, <4>3, <4>4
    <3> QED BY <3>1, <3>2
  <2> QED BY <1>2, <1>3, <2>1, <2>3, ToMidway
<1> QED BY <1>8, <1>9, <1>10, <1>11

\* Where nobody's place moves and nothing is fed, the decoder stays as it is.
LEMMA NobodyMoves ==
  ASSUME LineInv, DamageInv, Stays,
         UNCHANGED <<in, esc, bad, buf, decoded, hurt, shifted, damages>>,
         \A i \in DOMAIN sent : i \in DOMAIN sent' /\ sent'[i] = sent[i],
         listening => listening'
  PROVE  DamageInv'
<1>1. /\ TypeOK /\ Current \in 1 .. Len(sent) + 1 /\ Place \in Nat /\ Half \in BOOLEAN
      /\ DOMAIN sent = 1 .. Len(sent) /\ Len(sent) \in Nat
      /\ Place # 0 => Current \in DOMAIN sent
  BY PlaceType DEF LineInv
<1>2. PICK k \in Nat, a \in Nat, h \in BOOLEAN, n \in Nat, m \in Int :
        /\ k = Current /\ a = Place /\ h = Half /\ n = k - 1 /\ m = k - 2
        /\ Current' = k /\ Place' = a /\ Half' = h
  <2>1. Current \in Nat /\ Current - 1 \in Nat /\ Current - 2 \in Int
    BY <1>1
  <2> QED BY <1>1, <2>1 DEF Stays
<1>3. ASSUME NEW i \in Int, Matched(i)
      PROVE  Matched(i)'
  <2>1. \A j \in hurt' : j \in hurt \/ j > i
    OBVIOUS
  <2> QED BY <1>1, <1>3, <2>1, MatchedKeeps
<1>4. Spent => Spent'
  BY DEF Spent
<1>5. ASSUME Follow, a = 0
      PROVE  Follow'
  <2>1. FlagNext
    BY <1>2, <1>5 DEF Follow
  <2>2. PICK f : f = sent'[n]
    OBVIOUS
  <2>3. Current' = n + 1 /\ Place' = 0
    BY <1>2, <1>5
  <2>4. CASE Matched(n) /\ (Outside \/ Clean)
    <3>1. Matched(n)' /\ (Outside' \/ Clean')
      BY <1>3, <2>4 DEF Outside, Clean
    <3> QED BY <2>2, <2>3, <3>1, ToFlagNext
  <2>5. CASE Spent /\ Matched(n) /\ Rejects
    <3>1. Spent' /\ Matched(n)' /\ Rejects'
      BY <1>3, <1>4, <2>5 DEF Rejects, Accepted
    <3> QED BY <2>2, <2>3, <3>1, ToFlagNext
  <2>6. CASE Spent /\ k > 1 /\ Matched(m) /\ n \notin hurt /\ Late(sent[n])
    <3>1. n # 0 /\ n \in DOMAIN sent
      BY <1>1, <1>2, <2>6
    <3>2. f = sent[n]
      BY <2>2, <3>1
    <3>3. Late(f)'
      BY <2>6, <3>2 DEF Late, Prefix
    <3>4. m = n - 1
      BY <1>2
    <3>5. Spent' /\ Matched(m)' /\ n \notin hurt'
      BY <1>3, <1>4, <2>6
    <3>6. Matched(n - 1)'
      BY <3>4, <3>5
    <3> QED BY <2>2, <2>3, <3>1, <3>3, <3>5, <3>6, ToFlagNext
  <2> QED BY <1>2, <2>1, <2>4, <2>5, <2>6 DEF FlagNext
<1>6. ASSUME Follow, a # 0
      PROVE  Follow'
  <2>1. Midway
    BY <1>2, <1>6 DEF Follow
  <2>2. PICK f : f = sent[k] /\ f = sent'[k]
    BY <1>1, <1>2, <1>6
  <2>3. k - 1 = n
    BY <1>2
  <2>4. CASE Matched(n) /\ Outside
    <3>1. Matched(n)' /\ Outside'
      BY <1>3, <2>4 DEF Outside
    <3>2. Matched(k - 1)'
      BY <2>3, <3>1
    <3> QED BY <1>2, <1>6, <2>2, <3>1, <3>2, ToMidway
  <2>5. CASE Matched(n) /\ k \notin hurt /\ Exact(f, a, h)
    <3>1. Matched(n)' /\ k \notin hurt' /\ Exact(f, a, h)'
      BY <1>3, <2>5 DEF Exact, Prefix
    <3>2. Matched(k - 1)'
      BY <2>3, <3>1
    <3> QED BY <1>2, <1>6, <2>2, <3>1, <3>2, ToMidway
  <2>6. CASE Spent /\ Matched(k) /\ Junk(f, a, h)
    <3>1. Spent' /\ Matched(k)' /\ Junk(f, a, h)'
      BY <1>3, <1>4, <2>6 DEF Junk, WrongLength, OneChanged, LostHalf, StrayEsc, EatingEsc, Prefix
    <3> QED BY <1>2, <1>6, <2>2, <3>1, ToMidway
  <2> QED BY <1>2, <2>1, <2>2, <2>4, <2>5, <2>6 DEF Midway
<1>7. ~shifted' => Follow'
  BY <1>5, <1>6 DEF DamageInv
<1>8. (in' => listening') /\ \A i \in hurt' : i <= Current' /\ (Place' = 0 => i < Current')
  BY <1>2 DEF DamageInv
<1> QED BY <1>7, <1>8 DEF DamageInv

\* Nobody stops listening.
LEMMA ListeningStays ==
  ASSUME listening, [Next]_vars
  PROVE  listening'
<1>1. CASE Emit
  <2>1. PICK p \in Payloads :
          \/ EmitTaken([type |-> p.type, seq |-> s_seq, arg |-> p.arg])
          \/ EmitRefused([type |-> p.type, seq |-> s_seq, arg |-> p.arg])
    BY <1>1 DEF Emit
  <2>2. PICK f : f = [type |-> p.type, seq |-> s_seq, arg |-> p.arg]
    OBVIOUS
  <2>3. EmitTaken(f) \/ EmitRefused(f)
    BY <2>1, <2>2
  <2> QED BY <2>3 DEF EmitTaken, EmitRefused, vars
<1>2. CASE Line
  BY <1>2 DEF Line, Open, Miss, Deliver, LoseByte, ChangeByte, AddByte, Damage
<1>3. CASE UNCHANGED vars
  BY <1>3 DEF vars
<1> QED BY <1>1, <1>2, <1>3 DEF Next

\* Every step keeps DamageInv.
LEMMA DamageStep ==
  ASSUME LineInv, DamageInv, OneByte, [Next]_vars
  PROVE  DamageInv'
<1>1. TypeOK /\ WireInv /\ (in => listening) /\ HurtInv /\ (~shifted => Follow)
  BY DEF LineInv, DamageInv, HurtInv
<1>2. CASE Stays /\ Sends
  <2>1. PICK x \in Frame : sent' = Append(sent, x)
    BY <1>2 DEF Sends
  <2>2. UNCHANGED <<in, esc, bad, buf, decoded, listening, hurt, shifted, damages>>
    BY <1>2 DEF Sends, decoderVars, historyVars
  <2>3. \A i \in DOMAIN sent : i \in DOMAIN sent' /\ sent'[i] = sent[i]
    <3>1. /\ sent' \in Seq(Frame) /\ Len(sent') = Len(sent) + 1
          /\ \A i \in 1 .. Len(sent) : sent'[i] = sent[i]
      BY <1>1, <2>1, AppendProperties DEF TypeOK
    <3>2. /\ DOMAIN sent = 1 .. Len(sent) /\ Len(sent) \in Nat
          /\ DOMAIN sent' = 1 .. Len(sent')
      BY <1>1, <3>1, LenProperties DEF TypeOK
    <3> QED BY <3>1, <3>2
  <2> QED BY <1>1, <1>2, <2>2, <2>3, NobodyMoves
<1>3. CASE Stays /\ UNCHANGED <<decoderVars, sent, historyVars>>
  <2>1. UNCHANGED <<in, esc, bad, buf, decoded, hurt, shifted, damages, sent>>
    BY <1>3 DEF decoderVars, historyVars
  <2>2. listening => listening'
    BY ListeningStays
  <2> QED BY <1>1, <1>3, <2>1, <2>2, NobodyMoves
<1>4. CASE ByteStep
  <2>1. /\ wire # <<>> /\ sent' = sent
        /\ Symbol.frame = Current /\ Inside \in BOOLEAN /\ (Inside <=> Between)
    BY <1>4, AtByte DEF Inside
  <2>2. ASSUME NEW x, NEW y \in BOOLEAN, NEW z, y => Inside, Damage(x, y, z)
        PROVE  HurtInv'
    <3>1. hurt' = hurt \/ (Between /\ hurt' = hurt \cup {Current})
      BY <2>1, <2>2 DEF Damage, OnlyIf
    <3> QED BY <1>1, <1>4, <3>1, HurtStep
  <2>3. CASE Miss
    <3>1. HurtInv'
      BY <1>1, <1>4, <2>3, HurtStep DEF Miss
    <3>2. in' => listening'
      BY <1>1, <2>3 DEF Miss, decoderVars
    <3> QED BY <1>4, <2>3, <3>1, <3>2, MissStep DEF DamageInv, HurtInv
  <2>4. CASE Moves /\ Deliver /\ Feed(Byte)
    <3>1. HurtInv'
      BY <1>1, <1>4, <2>4, HurtStep DEF Deliver, historyVars
    <3>2. listening'
      BY <2>4 DEF Deliver
    <3> QED BY <1>4, <2>4, <3>1, <3>2, DeliverStep DEF DamageInv, HurtInv
  <2>5. CASE Moves /\ LoseByte
    <3>1. HurtInv'
      BY <2>1, <2>2, <2>5 DEF LoseByte
    <3>2. listening'
      BY <2>5 DEF LoseByte, Damage
    <3> QED BY <1>4, <2>5, <3>1, <3>2, LoseStep DEF DamageInv, HurtInv
  <2>6. ASSUME Moves, NEW b \in Noise, ChangeByte(b)
        PROVE  DamageInv'
    <3>1. PICK z : Damage(TRUE, Inside, z)
      BY <2>6 DEF ChangeByte
    <3>2. HurtInv'
      BY <2>1, <2>2, <3>1
    <3>3. listening'
      BY <2>6 DEF ChangeByte, Damage
    <3> QED BY <1>4, <2>6, <3>2, <3>3, ChangeStep DEF DamageInv, HurtInv
  <2>7. ASSUME Stays, NEW b \in Noise, AddByte(b)
        PROVE  DamageInv'
    <3>1. PICK x, y, z : y \in BOOLEAN /\ Damage(x, y, z) /\ (y => Inside)
      BY <2>1, <2>7 DEF AddByte
    <3>2. HurtInv'
      BY <2>2, <3>1
    <3>3. listening'
      BY <2>7 DEF AddByte, Damage
    <3> QED BY <1>4, <2>7, <3>2, <3>3, AddStep DEF DamageInv, HurtInv
  <2> QED BY <1>4, <2>3, <2>4, <2>5, <2>6, <2>7 DEF ByteStep
<1> QED BY <1>2, <1>3, <1>4, LineInvStep

\* At the start the decoder is outside, and nothing is decoded.
LEMMA InitDamage ==
  ASSUME Init
  PROVE  DamageInv
<1>1. LineInv /\ Current = 1 /\ Place = 0
  BY InitLineInv
<1>2. /\ in = FALSE /\ hurt = {} /\ sent = <<>> /\ decoded = <<>>
  BY DEF Init
<1>3. DOMAIN decoded = {}
  BY <1>2, EmptySeq
<1>4. Matched(0)
  <2>1. PICK at : at = [j \in DOMAIN decoded |-> j]
    OBVIOUS
  <2>2. at \in [DOMAIN decoded -> DOMAIN sent]
    BY <1>3, <2>1
  <2>3. at \in Places
    BY <1>3, <2>2 DEF Places
  <2> QED BY <1>3, <2>3 DEF Matched
<1>5. Matched(Current - 1)
  <2>1. Current - 1 = 0
    BY <1>1
  <2> QED BY <1>4, <2>1
<1> QED BY <1>1, <1>2, <1>5 DEF DamageInv, Follow, FlagNext, Outside

\* What the decoder follows is matched.
LEMMA MatchedProps ==
  ASSUME LineInv, DamageInv
  PROVE  DamageRejected /\ DecodedWasSent
<1>1. ASSUME NEW b, Matched(b)
      PROVE  \E at \in Places : \A j \in DOMAIN decoded : at[j] \notin hurt
  BY <1>1 DEF Matched
<1>2. ~shifted => \E b : Matched(b)
  BY DEF DamageInv, Follow, FlagNext, Midway
<1>3. ~shifted => \E at \in Places : \A j \in DOMAIN decoded : at[j] \notin hurt
  BY <1>1, <1>2
<1> QED BY <1>3 DEF DamageRejected, DecodedWasSent

\* A frame damaged between its flags, by one byte lost, changed or added, is never
\* yielded (Deframer, _decode), if LEN keeps its place: for every payload if no FLAG
\* is among the noise, and for payloads of at most two data bytes whatever is.
THEOREM SlipDamageRejected == ASSUME OneByte PROVE Spec => []DamageRejected
<1>1. Init => LineInv /\ DamageInv
  BY InitLineInv, InitDamage
<1>2. (LineInv /\ DamageInv) /\ [Next]_vars => (LineInv /\ DamageInv)'
  BY LineInvStep, DamageStep
<1>3. LineInv /\ DamageInv => DamageRejected
  BY MatchedProps
<1> QED BY <1>1, <1>2, <1>3, PTL DEF Spec

\* What the Deframer yields was sent, in order and once, at the place its SEQ
\* tells (emit counts SEQ only when a frame is taken), joined in the middle or not.
THEOREM SlipDecodedWasSent == ASSUME OneByte PROVE Spec => []DecodedWasSent
<1>1. Init => LineInv /\ DamageInv
  BY InitLineInv, InitDamage
<1>2. (LineInv /\ DamageInv) /\ [Next]_vars => (LineInv /\ DamageInv)'
  BY LineInvStep, DamageStep
<1>3. LineInv /\ DamageInv => DecodedWasSent
  BY MatchedProps
<1> QED BY <1>1, <1>2, <1>3, PTL DEF Spec
=============================================================================
