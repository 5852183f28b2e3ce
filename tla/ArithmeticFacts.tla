-------------------------- MODULE ArithmeticFacts --------------------------
(***************************************************************************)
(* Facts about numbers that several proofs rest on.  About remainders, for *)
(* the solver knows the Euclidean equation for one division, and nothing   *)
(* of how the remainders of two numbers are related; and induction, which  *)
(* the library states for an operator that no prover here can instantiate. *)
(***************************************************************************)
EXTENDS Integers, WellFoundedInduction, TLAPS

\* Division with remainder, in the form the solver can use.
LEMMA DivMod ==
  ASSUME NEW a \in Int, NEW R \in Nat \ {0}
  PROVE  /\ a % R \in 0 .. R - 1
         /\ a \div R \in Int
         /\ a = (a \div R) * R + (a % R)
<1>1. a % R \in 0 .. R - 1          OBVIOUS
<1>2. a \div R \in Int              OBVIOUS
<1>3. a = (a \div R) * R + (a % R)  OBVIOUS
<1> QED BY <1>1, <1>2, <1>3

\* No multiple of R lies strictly between 0 and R.
LEMMA NoSmallMultiple ==
  ASSUME NEW R \in Nat \ {0}, NEW k \in Int, 0 < k * R, k * R < R
  PROVE  FALSE
<1>1. CASE k <= 0
  <2>1. k * R <= 0  BY <1>1
  <2> QED BY <2>1
<1>2. CASE k >= 1
  <2>1. (k - 1) * R >= 0         BY <1>2
  <2>2. k * R = (k - 1) * R + R  OBVIOUS
  <2> QED BY <2>1, <2>2
<1> QED BY <1>1, <1>2

\* The remainder is determined by the Euclidean equation.
LEMMA ModUnique ==
  ASSUME NEW R \in Nat \ {0}, NEW q \in Int, NEW r \in 0 .. R - 1,
         NEW a \in Int, a = q * R + r
  PROVE  a % R = r
<1> DEFINE u == a \div R
           s == a % R
<1>1. u \in Int /\ s \in 0 .. R - 1 /\ a = u * R + s
  <2>1. s \in 0 .. R - 1 /\ u \in Int  BY DivMod
  <2>2. a = u * R + s                  BY DivMod
  <2> QED BY <2>1, <2>2
<1> HIDE DEF u, s
<1>2. (u - q) * R = r - s /\ (q - u) * R = s - r  BY <1>1
<1>3. ~(r - s > 0)
  <2> SUFFICES ASSUME r - s > 0 PROVE FALSE  OBVIOUS
  <2>1. 0 < (u - q) * R /\ (u - q) * R < R  BY <1>1, <1>2
  <2>2. u - q \in Int                       BY <1>1
  <2> QED BY <2>1, <2>2, NoSmallMultiple
<1>4. ~(s - r > 0)
  <2> SUFFICES ASSUME s - r > 0 PROVE FALSE  OBVIOUS
  <2>1. 0 < (q - u) * R /\ (q - u) * R < R  BY <1>1, <1>2
  <2>2. q - u \in Int                       BY <1>1
  <2> QED BY <2>1, <2>2, NoSmallMultiple
<1>5. r = s  BY <1>1, <1>3, <1>4
<1> QED BY <1>5 DEF s

\* A number divides itself.
LEMMA SelfRemainder ==
  ASSUME NEW R \in Nat \ {0}
  PROVE  R % R = 0
<1>1. PICK q \in Int, r \in 0 .. R - 1 : q = 1 /\ r = 0
  OBVIOUS
<1>2. R = q * R + r
  BY <1>1
<1> QED BY <1>1, <1>2, ModUnique

\* Adding a multiple of R changes no remainder.
LEMMA AddMultiple ==
  ASSUME NEW R \in Nat \ {0}, NEW a \in Int, NEW m \in Int, m % R = 0
  PROVE  (a + m) % R = a % R
<1> DEFINE q == a \div R
           p == m \div R
           r == a % R
<1>1. q \in Int /\ p \in Int /\ r \in 0 .. R - 1
  BY DivMod
<1>2. a = q * R + r
  BY DivMod
<1>3. m = p * R
  <2>1. m = p * R + (m % R)  BY DivMod
  <2> QED BY <1>1, <2>1
<1> HIDE DEF q, p, r
<1> DEFINE w == q + p
           c == a + m
<1>4. c = w * R + r /\ w \in Int /\ c \in Int  BY <1>1, <1>2, <1>3
<1> HIDE DEF w, c
<1>5. c % R = r  BY <1>1, <1>4, ModUnique
<1> QED BY <1>5 DEF r, c

\* Two integers less than R apart have different remainders.
LEMMA CloseRemainders ==
  ASSUME NEW R \in Nat \ {0}, NEW a \in Int, NEW b \in Int,
         0 < a - b, a - b < R
  PROVE  a % R # b % R
<1> SUFFICES ASSUME a % R = b % R PROVE FALSE
  OBVIOUS
<1> DEFINE k == (a \div R) - (b \div R)
<1>1. k \in Int  BY DivMod
<1>2. a - b = k * R
  <2>1. a = (a \div R) * R + (a % R)  BY DivMod
  <2>2. b = (b \div R) * R + (b % R)  BY DivMod
  <2>3. a % R \in Int /\ a \div R \in Int /\ b \div R \in Int  BY DivMod
  <2> QED BY <2>1, <2>2, <2>3
<1> HIDE DEF k
<1> QED BY <1>1, <1>2, NoSmallMultiple

\* Below 2 * R, a remainder is at most one subtraction.
LEMMA WrapOnce ==
  ASSUME NEW R \in Nat \ {0}, NEW x \in 0 .. 2 * R - 1
  PROVE  x % R = IF x < R THEN x ELSE x - R
<1>1. CASE x < R
  <2>1. x = 0 * R + x /\ x \in 0 .. R - 1  BY <1>1
  <2>2. x % R = x                          BY <2>1, ModUnique
  <2> QED BY <1>1, <2>2
<1>2. CASE ~(x < R)
  <2>1. x = 1 * R + (x - R) /\ x - R \in 0 .. R - 1  BY <1>2
  <2>2. x % R = x - R                                BY <2>1, ModUnique
  <2> QED BY <1>2, <2>2
<1> QED BY <1>1, <1>2

-----------------------------------------------------------------------------
(* Induction, by the least counterexample.                                 *)

\* The order < as a set of pairs.
LessThan == OpToRel(<, Nat)

\* A set of naturals that is not empty has a least element.
LEMMA LeastElement ==
  ASSUME NEW T \in SUBSET Nat, T # {}
  PROVE  \E m \in T : \A k \in T : m <= k
<1>1. IsWellFoundedOn(LessThan, Nat)
  BY NatLessThanWellFounded DEF LessThan
<1>2. PICK m \in T : \A k \in T : ~ (<<k, m>> \in LessThan)
  BY <1>1, WFMin
<1>3. \A k \in T : ~(k < m) /\ k \in Nat /\ m \in Nat
  BY <1>2 DEF LessThan, OpToRel
<1>4. \A k \in T : m <= k
  BY <1>3
<1> QED BY <1>4

\* A set that holds 0 and, below N, the successor of what it holds, goes up to N.
LEMMA SetInduction ==
  ASSUME NEW T \in SUBSET Nat, 0 \in T, NEW N \in Nat, \A k \in T : k < N => k + 1 \in T
  PROVE  0 .. N \subseteq T
<1> SUFFICES ASSUME (0 .. N) \ T # {} PROVE FALSE
  OBVIOUS
<1>1. PICK m \in (0 .. N) \ T : \A k \in (0 .. N) \ T : m <= k
  <2>1. (0 .. N) \ T \in SUBSET Nat
    OBVIOUS
  <2> QED BY <2>1, LeastElement
<1>2. m # 0 /\ m - 1 \in 0 .. N /\ ~(m <= m - 1)
  BY <1>1
<1>3. m - 1 \in T
  BY <1>1, <1>2
<1>4. m - 1 < N /\ m - 1 + 1 = m
  BY <1>1
<1> QED BY <1>1, <1>3, <1>4
=============================================================================
