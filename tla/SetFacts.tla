------------------------------ MODULE SetFacts ------------------------------
(***************************************************************************)
(* Facts about finite sets and natural numbers that the proofs about more  *)
(* than one component need and the library does not state.                 *)
(***************************************************************************)
EXTENDS Integers, FiniteSetTheorems, TLAPS

\* A function takes no more values than it has arguments.
LEMMA RangeSize ==
  ASSUME NEW S, IsFiniteSet(S), NEW f
  PROVE  /\ IsFiniteSet({f[x] : x \in S})
         /\ Cardinality({f[x] : x \in S}) <= Cardinality(S)
<1> DEFINE T == {f[x] : x \in S}
           g == [x \in S |-> f[x]]
<1>1. g \in Surjection(S, T)
  BY DEF Surjection
<1> HIDE DEF T, g
<1>2. IsFiniteSet(T) /\ Cardinality(T) <= Cardinality(S)
  BY <1>1, FS_Surjection
<1> QED
  BY <1>2 DEF T

\* Two finite sets together have no more elements than each has on its own.
LEMMA UnionSize ==
  ASSUME NEW S, IsFiniteSet(S), NEW T, IsFiniteSet(T)
  PROVE  /\ IsFiniteSet(S \cup T)
         /\ Cardinality(S \cup T) <= Cardinality(S) + Cardinality(T)
<1>1. IsFiniteSet(S \cap T)
  BY FS_Subset
<1>2. /\ Cardinality(S \cap T) \in Nat
      /\ Cardinality(S) \in Nat /\ Cardinality(T) \in Nat
  BY <1>1, FS_CardinalityType
<1>3. /\ IsFiniteSet(S \cup T)
      /\ Cardinality(S \cup T) = Cardinality(S) + Cardinality(T) - Cardinality(S \cap T)
  BY FS_Union
<1> QED
  BY <1>2, <1>3

\* A finite set does not contain a larger one.
LEMMA SomeLeftOut ==
  ASSUME NEW S, IsFiniteSet(S), NEW T, IsFiniteSet(T), Cardinality(S) < Cardinality(T)
  PROVE  \E x \in T : x \notin S
<1> SUFFICES ASSUME T \subseteq S PROVE FALSE
  OBVIOUS
<1>1. Cardinality(T) <= Cardinality(S)
  BY FS_Subset
<1>2. Cardinality(T) \in Nat /\ Cardinality(S) \in Nat
  BY FS_CardinalityType
<1> QED
  BY <1>1, <1>2

\* A set of natural numbers that is not empty has a least element.
LEMMA LeastNatural ==
  ASSUME NEW S \in SUBSET Nat, S # {}
  PROVE  \E x \in S : \A y \in S : x <= y
<1>1. PICK n \in S : TRUE
  OBVIOUS
<1>2. IsWellFoundedOn(OpToRel(<, Nat), Nat)
  BY NatLessThanWellFounded
<1>3. PICK x \in S : \A y \in S : ~ (<<y, x>> \in OpToRel(<, Nat))
  BY <1>2, WFMin
<1>4. \A y \in S : ~ (y < x)
  BY <1>3 DEF OpToRel
<1> QED
  BY <1>4

\* Induction over the natural numbers, for the set of those that have a property.
LEMMA InductionOnSet ==
  ASSUME NEW S, 0 \in S, \A m \in Nat : m \in S => m + 1 \in S
  PROVE  \A m \in Nat : m \in S
<1> DEFINE T == {m \in Nat : m \notin S}
<1> SUFFICES ASSUME T # {} PROVE FALSE
  OBVIOUS
<1>1. PICK m \in T : \A k \in T : m <= k
  <2>1. T \in SUBSET Nat
    OBVIOUS
  <2> HIDE DEF T
  <2> QED BY <2>1, LeastNatural
<1>2. m \in Nat /\ m # 0
  BY <1>1
<1>3. m - 1 \in Nat /\ m - 1 + 1 = m /\ ~ (m <= m - 1)
  BY <1>2
<1>4. m - 1 \in S
  BY <1>1, <1>3
<1> QED
  BY <1>1, <1>3, <1>4

\* A recursive function over an interval exists, and takes the values its
\* recursion names (TLA+ defines f[p \in S] == e by a CHOOSE).
Recursive(lo, hi, A, first, step) ==
  /\ lo \in Int /\ hi \in Int /\ lo <= hi /\ first \in A
  /\ \A p \in lo + 1 .. hi : \A a \in A : step[p][a] \in A
Follows(f, lo, hi, A, first, step) ==
  /\ f \in [lo .. hi -> A]
  /\ \A p \in lo .. hi : f[p] = IF p = lo THEN first ELSE step[p][f[p - 1]]

\* The recursion has a solution.
LEMMA RecursionHolds ==
  ASSUME NEW lo, NEW hi, NEW A, NEW first, NEW step, Recursive(lo, hi, A, first, step)
  PROVE  \E f : Follows(f, lo, hi, A, first, step)
<1> USE DEF Recursive
<1> DEFINE Runs(f, m) ==
             \A p \in lo .. m : f[p] = IF p = lo THEN first ELSE step[p][f[p - 1]]
           Good(m) == \E f \in [lo .. m -> A] : Runs(f, m)
           S == {k \in Nat : lo + k <= hi /\ ~ Good(lo + k)}
<1>1. S = {}
  <2>1. SUFFICES ASSUME S # {} PROVE FALSE
    OBVIOUS
  <2>2. S \in SUBSET Nat
    OBVIOUS
  <2>3. PICK k \in S : \A j \in S : k <= j
    <3> HIDE DEF S
    <3> QED BY <2>1, <2>2, LeastNatural
  <2>4. k \in Nat /\ lo + k <= hi /\ ~ Good(lo + k)
    BY <2>3
  <2>5. CASE k = 0
    <3>1. Runs([p \in lo .. lo |-> first], lo)
      OBVIOUS
    <3>2. [p \in lo .. lo |-> first] \in [lo .. lo -> A]
      OBVIOUS
    <3>3. Good(lo)
      BY <3>1, <3>2
    <3>4. lo + k = lo
      BY <2>5
    <3> QED
      BY <2>4, <3>3, <3>4
  <2>6. CASE k # 0
    <3> DEFINE m == lo + (k - 1)
    <3>1. /\ k - 1 \in Nat /\ lo + (k - 1) <= hi /\ ~ (k <= k - 1)
          /\ m \in Int /\ m + 1 = lo + k /\ lo <= m /\ m + 1 <= hi
      BY <2>4, <2>6
    <3>2. Good(m)
      <4> HIDE DEF Good
      <4> QED BY <2>3, <3>1
    <3>3. PICK f \in [lo .. m -> A] : Runs(f, m)
      BY <3>2
    <3> HIDE DEF m
    <3> DEFINE g == [p \in lo .. m + 1 |-> IF p = m + 1 THEN step[m + 1][f[m]] ELSE f[p]]
    <3>4. m \in lo .. m /\ m + 1 \in lo + 1 .. hi
      BY <3>1
    <3>5. f[m] \in A
      BY <3>3, <3>4
    <3>6. step[m + 1][f[m]] \in A
      BY <3>4, <3>5
    <3>7. \A p \in lo .. m + 1 : p # m + 1 => p \in lo .. m
      BY <3>1
    <3>8. g \in [lo .. m + 1 -> A]
      BY <3>3, <3>6, <3>7
    <3>9. Runs(g, m + 1)
      <4> SUFFICES ASSUME NEW p \in lo .. m + 1
                   PROVE  g[p] = IF p = lo THEN first ELSE step[p][g[p - 1]]
        OBVIOUS
      <4>1. CASE p = m + 1
        <5>1. p # lo /\ p - 1 = m /\ m # m + 1 /\ m \in lo .. m + 1
          BY <3>1, <4>1
        <5>2. g[p - 1] = f[m]
          BY <5>1
        <5> QED
          BY <4>1, <5>1, <5>2
      <4>2. CASE p # m + 1
        <5>1. g[p] = f[p]
          BY <4>2
        <5>2. f[p] = IF p = lo THEN first ELSE step[p][f[p - 1]]
          BY <3>3, <3>7, <4>2
        <5>3. p # lo => p - 1 \in lo .. m + 1 /\ p - 1 # m + 1
          BY <3>1
        <5>4. p # lo => g[p - 1] = f[p - 1]
          BY <5>3
        <5> QED
          BY <5>1, <5>2, <5>4
      <4> QED
        BY <4>1, <4>2
    <3>10. Good(m + 1)
      BY <3>8, <3>9
    <3> QED
      BY <2>4, <3>1, <3>10
  <2> QED
    BY <2>5, <2>6
<1>2. hi - lo \in Nat /\ lo + (hi - lo) = hi
  OBVIOUS
<1>3. \A k \in Nat : lo + k <= hi => Good(lo + k)
  <2> HIDE DEF Good
  <2> QED BY <1>1
<1>4. Good(lo + (hi - lo))
  <2> HIDE DEF Good
  <2> QED BY <1>2, <1>3
<1>5. Good(hi)
  BY <1>2, <1>4
<1> QED
  BY <1>5 DEF Follows
=============================================================================
