---------------------------- MODULE NumberLemmas ----------------------------
(***************************************************************************)
(* Facts about natural numbers that the proofs of several components use.  *)
(***************************************************************************)
EXTENDS Integers, WellFoundedInduction, TLAPS

-----------------------------------------------------------------------------
(* Least and greatest elements.                                            *)

\* A set of natural numbers that is not empty has a least element.
LEMMA LeastExists ==
  ASSUME NEW T, T \subseteq Nat, T # {}
  PROVE  \E x \in T : \A y \in T : x <= y
<1> DEFINE R == OpToRel(<, Nat)
<1>1. IsWellFoundedOn(R, Nat)
  BY NatLessThanWellFounded
<1>2. \A x, y \in Nat : y < x => <<y, x>> \in R
  BY DEF OpToRel
<1> HIDE DEF R
<1>3. PICK x \in T : \A y \in T : ~(<<y, x>> \in R)
  BY <1>1, WFMin
<1>4. ASSUME NEW y \in T PROVE x <= y
  <2>1. x \in Nat /\ y \in Nat /\ ~(y < x)
    BY <1>2, <1>3
  <2>2. QED
    BY <2>1
<1>5. QED
  BY <1>4

\* A bounded set of natural numbers that is not empty has a greatest element.
LEMMA GreatestExists ==
  ASSUME NEW T, NEW top \in Nat, T \subseteq 0..top, T # {}
  PROVE  \E x \in T : \A y \in T : y <= x
<1> DEFINE U == {top - y : y \in T}
<1>1. U \subseteq Nat /\ U # {}
  <2>1. \A y \in T : top - y \in Nat
    OBVIOUS
  <2>2. QED
    BY <2>1
<1>2. PICK u \in U : \A v \in U : u <= v
  <2> HIDE DEF U
  <2>1. QED
    BY <1>1, LeastExists
<1>3. PICK x \in T : u = top - x
  BY <1>2
<1>4. ASSUME NEW y \in T PROVE y <= x
  <2>1. u <= top - y
    BY <1>2
  <2>2. QED
    BY <1>3, <2>1
<1>5. QED
  BY <1>4

-----------------------------------------------------------------------------
(* Division.                                                               *)

\* Division with remainder.
LEMMA DivMod ==
  ASSUME NEW n \in Nat, NEW d \in Nat \ {0}
  PROVE  /\ n \div d \in Nat /\ n % d \in 0..(d - 1)
         /\ n = d * (n \div d) + (n % d)
OBVIOUS

\* Quotient and remainder are unique.
LEMMA DivUnique ==
  ASSUME NEW q \in Nat, NEW d \in Nat \ {0}, NEW r \in 0..(d - 1)
  PROVE  (d * q + r) \div d = q /\ (d * q + r) % d = r
OBVIOUS

\* A larger factor makes the product larger by at least the other factor.
LEMMA Products ==
  ASSUME NEW a \in Nat, NEW b \in Nat, NEW c \in Nat
  PROVE  /\ a < b => a * c + c <= b * c
         /\ a <= b => a * c <= b * c
         /\ a * c \in Nat /\ a * c = c * a
OBVIOUS

\* Multiples of a number that is not 0 are ordered as their factors.
LEMMA Factors ==
  ASSUME NEW a \in Nat, NEW b \in Nat, NEW c \in Nat \ {0}
  PROVE  /\ a * c < b * c => a < b
         /\ a * c <= b * c => a <= b
         /\ a * c = b * c => a = b
OBVIOUS

\* A multiple of d that is below another one is at least d below it.
LEMMA MultiplesApart ==
  ASSUME NEW x \in Nat, NEW y \in Nat, NEW d \in Nat \ {0},
         x % d = 0, y % d = 0, x < y
  PROVE  x + d <= y
<1>1. x = (x \div d) * d /\ y = (y \div d) * d /\ x \div d \in Nat /\ y \div d \in Nat
  BY DivMod, Products
<1>2. x \div d < y \div d
  BY <1>1, Factors
<1> QED
  BY <1>1, <1>2, Products

\* A proper divisor of n is at most half of n.
LEMMA HalfAtMost ==
  ASSUME NEW n \in Nat, NEW d \in Nat \ {0}, n % d = 0, d < n
  PROVE  2 * d <= n
<1>1. d % d = 0
  BY DivUnique, d * 1 + 0 = d
<1> QED
  BY <1>1, MultiplesApart

\* Divisibility is transitive.
LEMMA DividesTrans ==
  ASSUME NEW x \in Nat, NEW y \in Nat \ {0}, NEW z \in Nat \ {0}, x % y = 0, y % z = 0
  PROVE  x % z = 0
<1>1. PICK p \in Nat : x = y * p
  <2>1. x = y * (x \div y) /\ x \div y \in Nat
    BY DivMod
  <2> QED
    BY <2>1
<1>2. PICK q \in Nat : y = z * q
  BY DivMod
<1>3. x = z * (q * p) + 0 /\ q * p \in Nat
  BY <1>1, <1>2
<1> QED
  BY <1>3, DivUnique

\* A product is divided by its factors.
LEMMA ProductDivides ==
  ASSUME NEW q \in Nat, NEW d \in Nat \ {0}
  PROVE  d * q \in Nat /\ (d * q) % d = 0 /\ (d * q) \div d = q
<1>1. d * q + 0 = d * q /\ d * q \in Nat /\ 0 \in 0..(d - 1)
  OBVIOUS
<1>2. (d * q + 0) \div d = q /\ (d * q + 0) % d = 0
  BY <1>1, DivUnique
<1> QED
  BY <1>1, <1>2

\* What d divides is a multiple of d.
LEMMA MultipleOf ==
  ASSUME NEW x \in Nat, NEW d \in Nat \ {0}, x % d = 0
  PROVE  x \div d \in Nat /\ x = d * (x \div d)
<1>1. x \div d \in Nat /\ x = d * (x \div d) + (x % d)
  BY DivMod
<1>2. d * (x \div d) \in Nat
  BY <1>1, ProductDivides
<1> QED
  BY <1>1, <1>2

\* A common factor may be cancelled.
LEMMA CancelFactor ==
  ASSUME NEW a \in Nat, NEW m \in Nat \ {0}, NEW c \in Nat \ {0}, (c * a) % (c * m) = 0
  PROVE  a % m = 0
<1>1. c * a \in Nat /\ c * m \in Nat \ {0}
  OBVIOUS
<1>2. PICK k \in Nat : c * a = (c * m) * k
  <2>1. c * a = (c * m) * ((c * a) \div (c * m)) /\ (c * a) \div (c * m) \in Nat
    BY <1>1, MultipleOf
  <2> QED
    BY <2>1
<1>3. a * c = (m * k) * c /\ m * k \in Nat
  BY <1>2
<1>4. a = m * k
  BY <1>3, Factors
<1> QED
  BY <1>4, ProductDivides

\* Where m divides x and w, the remainder of x leaves room for m below w.
LEMMA RemainderRoom ==
  ASSUME NEW x \in Nat, NEW w \in Nat \ {0}, NEW m \in Nat \ {0}, x % m = 0, w % m = 0
  PROVE  (x % w) + m <= w
<1> DEFINE q == x \div w
<1>1. q \in Nat /\ x % w \in 0..(w - 1) /\ x = w * q + (x % w)
  BY DivMod
<1> HIDE DEF q
<1>2. w * (q + 1) \in Nat /\ (w * (q + 1)) % w = 0 /\ w * (q + 1) = w * q + w
  BY <1>1, ProductDivides
<1>3. (w * (q + 1)) % m = 0
  BY <1>2, DividesTrans
<1>4. x < w * (q + 1)
  BY <1>1, <1>2
<1>5. x + m <= w * (q + 1)
  BY <1>2, <1>3, <1>4, MultiplesApart
<1> QED
  BY <1>1, <1>2, <1>5
=============================================================================
