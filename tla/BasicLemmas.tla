---------------------------- MODULE BasicLemmas ----------------------------
(***************************************************************************)
(* Facts about numbers and finite sets that the proofs of several          *)
(* components need.                                                        *)
(***************************************************************************)
EXTENDS Integers, FiniteSetTheorems, WellFoundedInduction, TLAPS

(* The least element of a set of numbers: with it, what a recursive function computes
   is proved by its first counterexample. *)
LEMMA LeastExists ==
    ASSUME NEW T, T \subseteq Nat, T # {}
    PROVE  \E x \in T : \A y \in T : x <= y
<1> DEFINE R == OpToRel(<, Nat)
<1>1. PICK x \in T : \A y \in T : ~(<<y, x>> \in R)
  <2>1. IsWellFoundedOn(R, Nat)
    BY NatLessThanWellFounded
  <2> HIDE DEF R
  <2> QED
    BY <2>1, WFMin, Zenon
<1>2. \A y \in T : ~(y < x)
  BY <1>1 DEF OpToRel
<1>3. \A y \in T : x <= y
  BY <1>2
<1> QED
  BY <1>3

(* The greatest element of a set of numbers below a bound. *)
LEMMA GreatestExists ==
    ASSUME NEW T, T \subseteq Nat, T # {}, NEW bound \in Nat, \A y \in T : y <= bound
    PROVE  \E x \in T : \A y \in T : x >= y
<1> DEFINE U == {bound - y : y \in T}
<1>1. U \subseteq Nat /\ U # {}
  <2>1. \A y \in T : bound - y \in Nat
    OBVIOUS
  <2>2. PICK y \in T : TRUE
    OBVIOUS
  <2>3. bound - y \in U
    BY <2>2
  <2>4. \A u \in U : u \in Nat
    BY <2>1
  <2> QED
    BY <2>3, <2>4
<1>2. PICK u \in U : \A v \in U : u <= v
  <2> HIDE DEF U
  <2> QED
    BY <1>1, LeastExists
<1>3. PICK x \in T : u = bound - x
  BY <1>2
<1>4. \A y \in T : x >= y
  <2> SUFFICES ASSUME NEW y \in T PROVE x >= y
    OBVIOUS
  <2>1. bound - x <= bound - y
    BY <1>2, <1>3
  <2> QED
    BY <2>1
<1> QED
  BY <1>4

(* An interval has as many elements as it should, four different things are four. *)
LEMMA Counted == \A n \in Nat : Cardinality(1..n) = n
  BY FS_Interval

(* Four different things are four. *)
LEMMA FourParts ==
    ASSUME NEW a, NEW b, NEW d, NEW e, b # a, d \notin {a, b}, e \notin {a, b, d}
    PROVE  Cardinality({a, b, d, e}) = 4
<1>1. IsFiniteSet({a}) /\ Cardinality({a}) = 1
  BY FS_Singleton
<1>2. IsFiniteSet({a} \cup {b}) /\ Cardinality({a} \cup {b}) = 2
  BY <1>1, FS_AddElement
<1>3. IsFiniteSet(({a} \cup {b}) \cup {d}) /\ Cardinality(({a} \cup {b}) \cup {d}) = 3
  BY <1>2, FS_AddElement
<1>4. Cardinality((({a} \cup {b}) \cup {d}) \cup {e}) = 4
  BY <1>3, FS_AddElement
<1>5. (({a} \cup {b}) \cup {d}) \cup {e} = {a, b, d, e}
  OBVIOUS
<1> QED
  BY <1>4, <1>5

(* A set that is matched one to one with a finite set has as many elements. *)
LEMMA OneToOne ==
    ASSUME NEW S, NEW T, IsFiniteSet(T), NEW f \in [S -> T],
           \A a, b \in S : f[a] = f[b] => a = b, \A t \in T : \E a \in S : f[a] = t
    PROVE  IsFiniteSet(S) /\ Cardinality(S) = Cardinality(T)
<1>1. f \in Injection(S, T) /\ f \in Surjection(S, T)
  BY DEF Injection, Surjection, IsInjective
<1> QED
  BY <1>1, FS_Injection

(* The sizes of disjoint sets add up. *)
LEMMA DisjointUnion ==
    ASSUME NEW S, NEW T, IsFiniteSet(S), IsFiniteSet(T), S \cap T = {}
    PROVE  IsFiniteSet(S \cup T) /\ Cardinality(S \cup T) = Cardinality(S) + Cardinality(T)
<1>1. IsFiniteSet(S \cup T)
      /\ Cardinality(S \cup T) = Cardinality(S) + Cardinality(T) - Cardinality(S \cap T)
  BY FS_Union
<1>2. Cardinality(S \cap T) = 0
  BY FS_EmptySet
<1>3. Cardinality(S) \in Nat /\ Cardinality(T) \in Nat
  BY FS_CardinalityType
<1> QED
  BY <1>1, <1>2, <1>3

(* Division and products. *)
LEMMA DivMod ==
    ASSUME NEW n \in Nat, NEW d \in Nat \ {0}
    PROVE  /\ n \div d \in Nat /\ n % d \in 0..d - 1
           /\ n = (n \div d) * d + (n % d)
  OBVIOUS

(* A quotient is known by its remainder. *)
LEMMA DivIs ==
    ASSUME NEW n \in Nat, NEW q \in Nat, NEW r \in Nat, NEW d \in Nat \ {0}, n = q * d + r, r < d
    PROVE  n \div d = q
  OBVIOUS

(* A number below the divisor is its own remainder. *)
LEMMA ModSmall ==
    ASSUME NEW n \in Nat, NEW d \in Nat \ {0}, n < d
    PROVE  n % d = n
  OBVIOUS

(* Multiples of a positive number compare and add as their factors do; for provers that do not multiply. *)
LEMMA ProductsAgree ==
    ASSUME NEW a \in Int, NEW b \in Int, NEW d \in Nat \ {0}
    PROVE  /\ a * d <= b * d <=> a <= b
           /\ a * d < b * d <=> a < b
           /\ (a + b) * d = a * d + b * d
           /\ (a - b) * d = a * d - b * d
           /\ (a + 1) * d = a * d + d
  OBVIOUS
=============================================================================
