---------------------------- MODULE ModuloLemmas ----------------------------
(***************************************************************************)
(* Arithmetic modulo m, for the sequence numbers of MacSender: what the    *)
(* provers know is the division identity (QuotientRemainder); the rest     *)
(* follows from the uniqueness of the remainder.                           *)
(***************************************************************************)
EXTENDS Integers, TLAPS

\* A remainder is below its modulus, and the quotient is an integer.
LEMMA RemainderRange ==
    ASSUME NEW a \in Nat, NEW m \in Nat \ {0}
    PROVE  a % m \in 0 .. m - 1 /\ a \div m \in Int
OBVIOUS

\* The division identity.
LEMMA QuotientRemainder ==
    ASSUME NEW a \in Nat, NEW m \in Nat \ {0}
    PROVE  a = m * (a \div m) + (a % m)
OBVIOUS

\* Zero is its own remainder.
LEMMA ZeroRemainder ==
    ASSUME NEW m \in Nat \ {0}
    PROVE  0 % m = 0
OBVIOUS

\* A positive multiple is at least the modulus.
LEMMA MultipleBound ==
    ASSUME NEW m \in Nat \ {0}, NEW d \in Nat \ {0}
    PROVE  m * d >= m
OBVIOUS

\* Two decompositions of a number have the same remainder.
LEMMA UniqueRemainder ==
    ASSUME NEW m \in Nat \ {0}, NEW q \in Int, NEW p \in Int,
           NEW r \in 0 .. m - 1, NEW s \in 0 .. m - 1,
           m * q + r = m * p + s
    PROVE  r = s
<1>1. m * (q - p) = s - r /\ m * (p - q) = r - s
  OBVIOUS
<1>2. CASE q > p
  BY <1>1, <1>2, MultipleBound, q - p \in Nat \ {0}
<1>3. CASE p > q
  BY <1>1, <1>3, MultipleBound, p - q \in Nat \ {0}
<1>4. CASE q = p
  BY <1>4
<1> QED
  BY <1>2, <1>3, <1>4

\* Incrementing modulo m commutes with reducing modulo m.
LEMMA ModuloIncrement ==
    ASSUME NEW a \in Nat, NEW m \in Nat \ {0}
    PROVE  ((a % m) + 1) % m = (a + 1) % m
<1> DEFINE x == a % m           q == a \div m
           y == (x + 1) % m     p == (x + 1) \div m
           z == (a + 1) % m     w == (a + 1) \div m
<1>1. /\ x \in 0 .. m - 1 /\ q \in Int
      /\ y \in 0 .. m - 1 /\ p \in Int
      /\ z \in 0 .. m - 1 /\ w \in Int
  <2>1. x \in Nat
    BY RemainderRange
  <2> QED
    BY <2>1, x + 1 \in Nat, a + 1 \in Nat, RemainderRange
<1>2. a = m * q + x /\ x + 1 = m * p + y /\ a + 1 = m * w + z
  BY <1>1, QuotientRemainder
<1> HIDE DEF x, q, y, p, z, w
<1>3. m * (q + p) + y = m * w + z
  BY <1>1, <1>2
<1>4. y = z
  BY <1>1, <1>3, q + p \in Int, UniqueRemainder
<1> QED
  BY <1>4 DEF x, y, z
=============================================================================
