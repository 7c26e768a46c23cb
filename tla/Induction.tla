----------------------------- MODULE Induction -----------------------------
EXTENDS Integers, FiniteSetTheorems, TLAPS

\* Induction, for a set instead of a predicate.
THEOREM SetInduction ==
    ASSUME NEW S, 0 \in S, \A n \in Nat : n \in S => n + 1 \in S
    PROVE  Nat \subseteq S
<1> SUFFICES ASSUME NEW n \in Nat, n \notin S
             PROVE  FALSE
  OBVIOUS
<1> DEFINE T == (0 .. n) \ S
           f == [t \in T |-> t - 1]
<1>1. IsFiniteSet(T)
  <2>1. IsFiniteSet(0 .. n)
    BY FS_Interval, 0 \in Int, n \in Int
  <2>2. T \in SUBSET (0 .. n)
    OBVIOUS
  <2>3. QED
    BY <2>1, <2>2, FS_Subset, Zenon
<1>2. f \in [T -> T]
  <2> SUFFICES ASSUME NEW t \in T PROVE t - 1 \in T
    OBVIOUS
  <2>1. t \in Nat /\ t # 0
    OBVIOUS
  <2>2. t - 1 \in Nat
    BY <2>1
  <2>3. QED
    BY <2>2
<1>3. f \in Injection(T, T)
  BY <1>2 DEF Injection, IsInjective
<1>4. f \in Surjection(T, T)
  BY <1>1, <1>3, FS_Injection
<1>5. n \in T
  OBVIOUS
<1>6. PICK t \in T : f[t] = n
  BY <1>4, <1>5 DEF Surjection
<1>7. QED
  BY <1>6

\* A set of natural numbers has a smallest member.
LEMMA SmallestMember ==
    ASSUME NEW S \in SUBSET Nat, S # {}
    PROVE  \E m \in S : \A x \in S : m <= x
<1> SUFFICES ASSUME \A m \in S : \E x \in S : ~(m <= x)
             PROVE  FALSE
  OBVIOUS
<1> DEFINE None == {n \in Nat : \A x \in S : n < x}
<1>1. 0 \in None
  OBVIOUS
<1>2. ASSUME NEW n \in Nat, n \in None PROVE n + 1 \in None
  <2>1. n + 1 \notin S
    BY <1>2
  <2>2. QED
    BY <1>2, <2>1
<1>3. Nat \subseteq None
  <2> HIDE DEF None
  <2> QED
    BY <1>1, <1>2, SetInduction
<1>4. PICK n \in S : TRUE
  OBVIOUS
<1>5. n \in None
  <2> HIDE DEF None
  <2> QED
    BY <1>3, <1>4
<1>6. QED
  BY <1>4, <1>5

\* A power of two is the number of subsets of a set.
LEMMA PowerOfTwo ==
    ASSUME NEW n \in Nat
    PROVE  2 ^ n \in Nat
<1>1. IsFiniteSet(1 .. n) /\ Cardinality(1 .. n) = n
  BY FS_Interval, 1 \in Int, n \in Int
<1>2. IsFiniteSet(SUBSET (1 .. n)) /\ Cardinality(SUBSET (1 .. n)) = 2 ^ n
  BY <1>1, FS_SUBSET
<1>3. Cardinality(SUBSET (1 .. n)) \in Nat
  BY <1>2, FS_CardinalityType
<1>4. QED
  BY <1>2, <1>3

\* f begins with start, and F makes each further value from the one before it.
Follows(f, start, n, F) ==
    f[0] = start /\ \A k \in 1 .. n : f[k] = F[<<f[k - 1], k>>]

\* A function that takes each value from the one before it exists, as far as wanted,
\* when the step stays within T.
LEMMA RecursionExists ==
    ASSUME NEW T, NEW start \in T, NEW n \in Nat, NEW F \in [T \X (1 .. n) -> T]
    PROVE  \E f \in [0 .. n -> T] : Follows(f, start, n, F)
<1> USE DEF Follows
<1> DEFINE Upto(m) == \E f \in [0 .. m -> T] :
                         f[0] = start /\ \A k \in 1 .. m : f[k] = F[<<f[k - 1], k>>]
           S == {m \in Nat : m <= n => Upto(m)}
<1>1. 0 \in S
  <2>1. PICK f : f = [i \in 0 .. 0 |-> start]
    OBVIOUS
  <2>2. f \in [0 .. 0 -> T] /\ f[0] = start
    BY <2>1
  <2>3. \A k \in 1 .. 0 : f[k] = F[<<f[k - 1], k>>]
    OBVIOUS
  <2>4. Upto(0)
    BY <2>2, <2>3
  <2>5. QED
    BY <2>4
<1>2. ASSUME NEW m \in Nat, m \in S
      PROVE  m + 1 \in S
  <2> SUFFICES ASSUME m + 1 <= n PROVE Upto(m + 1)
    BY <1>2
  <2>1. PICK f \in [0 .. m -> T] :
              f[0] = start /\ \A k \in 1 .. m : f[k] = F[<<f[k - 1], k>>]
    BY <1>2
  <2>2. PICK v : v = F[<<f[m], m + 1>>]
    OBVIOUS
  <2>3. v \in T
    BY <2>1, <2>2
  <2>4. PICK g : g = [i \in 0 .. m + 1 |-> IF i = m + 1 THEN v ELSE f[i]]
    OBVIOUS
  <2>5. g \in [0 .. m + 1 -> T]
    <3>1. \A i \in 0 .. m + 1 : (IF i = m + 1 THEN v ELSE f[i]) \in T
      BY <2>1, <2>3
    <3>2. QED
      BY <2>4, <3>1
  <2>6. g[m + 1] = v /\ \A i \in 0 .. m : g[i] = f[i]
    BY <2>4
  <2>7. g[0] = start
    BY <2>1, <2>6
  <2>8. ASSUME NEW k \in 1 .. m + 1
        PROVE  g[k] = F[<<g[k - 1], k>>]
    <3>1. CASE k = m + 1
      <4>1. k - 1 = m
        BY <3>1
      <4>2. g[k - 1] = f[m]
        BY <2>6, <4>1
      <4>3. QED
        BY <2>2, <2>6, <3>1, <4>2
    <3>2. CASE k # m + 1
      <4>1. k \in 1 .. m /\ k \in 0 .. m /\ k - 1 \in 0 .. m
        BY <3>2
      <4>2. QED
        BY <2>1, <2>6, <4>1
    <3>3. QED
      BY <3>1, <3>2
  <2>9. QED
    BY <2>5, <2>7, <2>8
<1>3. Nat \subseteq S
  <2> HIDE DEF S
  <2> QED
    BY <1>1, <1>2, SetInduction
<1>4. n \in S
  <2> HIDE DEF S
  <2> QED
    BY <1>3
<1>5. n <= n
  OBVIOUS
<1>6. Upto(n)
  <2> HIDE DEF Upto
  <2> QED
    BY <1>4, <1>5
<1>7. QED
  BY <1>6
=============================================================================
