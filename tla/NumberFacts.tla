------------------------------ MODULE NumberFacts ------------------------------
(***************************************************************************)
(* Facts about natural numbers that several proofs use: a set of them has  *)
(* a least element and, when it is bounded, a greatest one, and how the    *)
(* remainder and the quotient of a word behave.                            *)
(***************************************************************************)
EXTENDS Integers, FiniteSetTheorems, TLAPS

\* The intervals 0..n are well-founded by strict inclusion, and therefore the
\* natural numbers by their order.
LEMMA Least ==
  ASSUME NEW S, S \subseteq Nat, S # {}
  PROVE  \E x \in S : \A y \in S : x <= y
<1> DEFINE T == {0..n : n \in S}
           Finite == FiniteSubsetsOf(Nat)
           Inclusion == StrictSubsetOrdering(Nat)
<1>1. T \subseteq Finite /\ T # {}
  <2>1. \A n \in S : IsFiniteSet(0..n) /\ 0..n \subseteq Nat
    BY FS_Interval
  <2> QED BY <2>1 DEF FiniteSubsetsOf
<1>2. IsWellFoundedOn(Inclusion, Finite)
  BY FS_StrictSubsetOrderingWellFounded
<1>3. PICK t \in T : \A u \in T : <<u, t>> \notin Inclusion
  <2> HIDE DEF T, Finite, Inclusion
  <2> QED BY <1>1, <1>2, WFMin
<1>4. PICK x \in S : t = 0..x
  BY <1>3
<1>5. ASSUME NEW y \in S, y < x PROVE FALSE
  <2>1. 0..y \subseteq 0..x /\ 0..y # 0..x /\ 0..y \subseteq Nat /\ 0..x \subseteq Nat
    <3>1. x \in 0..x /\ x \notin 0..y
      BY <1>5
    <3> QED BY <1>5, <3>1
  <2>2. <<0..y, 0..x>> \in Inclusion
    BY <2>1 DEF StrictSubsetOrdering
  <2> QED BY <1>3, <1>4, <2>2
<1> QED BY <1>5

\* A bounded set of numbers has a greatest one.
LEMMA Greatest ==
  ASSUME NEW m \in Nat, NEW S, S \subseteq 0..m, S # {}
  PROVE  \E x \in S : \A y \in S : y <= x
<1> DEFINE T == {m - s : s \in S}
<1>1. T \subseteq Nat /\ T # {}
  OBVIOUS
<1>2. PICK t \in T : \A u \in T : t <= u
  <2> HIDE DEF T
  <2> QED BY <1>1, Least
<1>3. PICK x \in S : t = m - x
  BY <1>2
<1>4. ASSUME NEW y \in S PROVE y <= x
  <2>1. m - y \in T
    OBVIOUS
  <2>2. m - x <= m - y
    BY <1>2, <1>3, <2>1
  <2>3. x \in Nat /\ y \in Nat
    OBVIOUS
  <2> HIDE DEF T
  <2> QED BY <2>2, <2>3
<1> QED BY <1>4

\* Induction over an interval, from a set of the numbers it is about.
LEMMA Upward ==
  ASSUME NEW n \in Nat, NEW Good, 0 \in Good, \A i \in 1..n : i - 1 \in Good => i \in Good
  PROVE  \A i \in 0..n : i \in Good
<1> DEFINE Bad == {i \in 0..n : i \notin Good}
<1>1. SUFFICES ASSUME Bad # {} PROVE FALSE
  OBVIOUS
<1>2. PICK x \in Bad : \A y \in Bad : x <= y
  <2>1. Bad \subseteq Nat
    OBVIOUS
  <2> HIDE DEF Bad
  <2> QED BY <1>1, <2>1, Least
<1>3. x \in 1..n /\ x \notin Good /\ x - 1 \in 0..n /\ ~(x <= x - 1)
  OBVIOUS
<1>4. x - 1 \in Good
  <2>1. x - 1 \notin Bad
    <3> HIDE DEF Bad
    <3> QED BY <1>2, <1>3
  <2> QED BY <1>3, <2>1
<1> QED BY <1>3, <1>4

\* Induction over an interval, from all the numbers below.
LEMMA Strong ==
  ASSUME NEW n \in Nat, NEW Good,
         \A i \in 0..n : (\A j \in 0..n : j < i => j \in Good) => i \in Good
  PROVE  \A i \in 0..n : i \in Good
<1> DEFINE Bad == {i \in 0..n : i \notin Good}
<1>1. SUFFICES ASSUME Bad # {} PROVE FALSE
  OBVIOUS
<1>2. PICK x \in Bad : \A y \in Bad : x <= y
  <2>1. Bad \subseteq Nat
    OBVIOUS
  <2> HIDE DEF Bad
  <2> QED BY <1>1, <2>1, Least
<1>3. x \in 0..n /\ x \notin Good
  OBVIOUS
<1>4. ASSUME NEW y \in 0..n, y < x PROVE y \in Good
  <2>1. y \notin Bad
    <3> HIDE DEF Bad
    <3> QED BY <1>2, <1>3, <1>4
  <2> QED BY <2>1
<1> QED BY <1>3, <1>4

\* A number that fits into a word does not wrap, and the next ones wrap once.
LEMMA FitsWord ==
  ASSUME NEW size \in Nat \ {0}, NEW n \in 0..(size - 1)
  PROVE  n % size = n
OBVIOUS

\* A sum of two words wraps at most once.
LEMMA WrapsOnce ==
  ASSUME NEW size \in Nat \ {0}, NEW n \in size..(2 * size - 1)
  PROVE  n % size = n - size
OBVIOUS

\* A product does not pass what its factor was divided out of.
LEMMA QuotientBounds ==
  ASSUME NEW divisor \in Nat \ {0}, NEW limit \in Nat, NEW n \in Nat,
         n <= limit \div divisor
  PROVE  n * divisor <= limit
OBVIOUS
=============================================================================
