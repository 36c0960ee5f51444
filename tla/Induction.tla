------------------------------ MODULE Induction ------------------------------
(***************************************************************************)
(* Induction and recursion on the natural numbers, in the first-order form *)
(* the provers can apply: a property of numbers is the set of those that   *)
(* have it, a recursive definition a function on an interval.              *)
(***************************************************************************)
EXTENDS Integers, WellFoundedInduction, TLAPS

\* A set of natural numbers that is not empty has a least one.
LEMMA LeastNat ==
    ASSUME NEW T \in SUBSET Nat, T # {}
    PROVE  \E x \in T : \A y \in T : x <= y
<1>1. IsWellFoundedOn(OpToRel(<, Nat), Nat)
  BY NatLessThanWellFounded
<1>2. PICK x \in T : \A y \in T : ~(<<y, x>> \in OpToRel(<, Nat))
  BY <1>1, WFMin
<1>3. \A y \in T : ~(y < x)
  BY <1>2 DEF OpToRel
<1> QED
  BY <1>3

\* A set that holds 0 and with each number the next holds them all.
LEMMA InductNat ==
    ASSUME NEW S, 0 \in S, \A n \in Nat : n \in S => n + 1 \in S
    PROVE  Nat \subseteq S
<1>1. SUFFICES ASSUME Nat \ S # {} PROVE FALSE
  OBVIOUS
<1>2. PICK x \in Nat \ S : \A y \in Nat \ S : x <= y
  BY <1>1, LeastNat
<1>3. x # 0 /\ x - 1 \in Nat /\ x - 1 \in S
  BY <1>2
<1> QED
  BY <1>2, <1>3

\* The same up to a bound, from each number's predecessor.
LEMMA InductUpTo ==
    ASSUME NEW N \in Nat, NEW S, 0 \in S, \A n \in 1..N : n - 1 \in S => n \in S
    PROVE  0..N \subseteq S
<1> DEFINE T == {n \in Nat : n <= N => n \in S}
<1>1. 0 \in T
  OBVIOUS
<1>2. ASSUME NEW n \in Nat, n \in T PROVE n + 1 \in T
  <2> SUFFICES ASSUME n + 1 <= N PROVE n + 1 \in S
    OBVIOUS
  <2>1. n + 1 \in 1..N /\ (n + 1) - 1 = n /\ n \in S
    BY <1>2
  <2> QED
    BY <2>1
<1> HIDE DEF T
<1>3. Nat \subseteq T
  BY <1>1, <1>2, InductNat
<1> QED
  BY <1>3 DEF T

\* What a function defined by recursion on 0..N satisfies: step[n] takes the
\* value before n to the value at n.
Unfolds(f, N, first, step) ==
    /\ f = [n \in 0..N |-> f[n]]
    /\ f[0] = first
    /\ \A n \in 1..N : f[n] = step[n][f[n - 1]]

\* Every recursive definition of that kind has a function that satisfies it.
LEMMA Recursion ==
    ASSUME NEW N \in Nat, NEW V, NEW first \in V, NEW step \in [1..N -> [V -> V]]
    PROVE  \E f : Unfolds(f, N, first, step)
<1> DEFINE Good(g, m) == g[0] = first /\ \A n \in 1..m : g[n] = step[n][g[n - 1]]
           S == {m \in Nat : m <= N => \E g \in [0..N -> V] : Good(g, m)}
<1>1. 0 \in S
  <2>1. [n \in 0..N |-> first] \in [0..N -> V] /\ Good([n \in 0..N |-> first], 0)
    OBVIOUS
  <2> QED
    BY <2>1
<1>2. ASSUME NEW m \in Nat, m \in S PROVE m + 1 \in S
  <2> SUFFICES ASSUME m + 1 <= N PROVE \E g \in [0..N -> V] : Good(g, m + 1)
    OBVIOUS
  <2>1. PICK g \in [0..N -> V] : Good(g, m)
    BY <1>2
  <2> DEFINE h == [g EXCEPT ![m + 1] = step[m + 1][g[m]]]
  <2>2. step[m + 1][g[m]] \in V
    OBVIOUS
  <2>3. /\ h \in [0..N -> V]
        /\ h[m + 1] = step[m + 1][g[m]]
        /\ \A n \in 0..m : h[n] = g[n]
    BY <2>2
  <2> HIDE DEF h
  <2>4. ASSUME NEW n \in 1..m + 1 PROVE h[n] = step[n][h[n - 1]]
    <3>1. n - 1 \in 0..m /\ h[n - 1] = g[n - 1]
      BY <2>3
    <3>2. CASE n = m + 1
      <4>1. n - 1 = m
        BY <3>2
      <4>2. h[n] = step[n][g[m]] /\ h[n - 1] = g[m]
        BY <3>1, <3>2, <4>1, <2>3
      <4> QED
        BY <4>2
    <3>3. CASE n # m + 1
      <4>1. n \in 1..m /\ n \in 0..m
        BY <3>3
      <4>2. h[n] = g[n] /\ g[n] = step[n][g[n - 1]]
        BY <4>1, <2>1, <2>3
      <4> QED
        BY <4>2, <3>1
    <3> QED
      BY <3>2, <3>3
  <2>5. h[0] = first
    BY <2>1, <2>3
  <2> QED
    BY <2>3, <2>4, <2>5
<1>3. N \in S
  <2> HIDE DEF S
  <2> QED
    BY <1>1, <1>2, InductNat
<1>4. PICK g \in [0..N -> V] : Good(g, N)
  BY <1>3
<1>5. g = [n \in 0..N |-> g[n]]
  OBVIOUS
<1>6. Unfolds(g, N, first, step)
  BY <1>4, <1>5, Zenon DEF Unfolds
<1> QED
  BY <1>6

\* And its values are where the steps keep them.
LEMMA RecursionType ==
    ASSUME NEW N \in Nat, NEW V, NEW first \in V, NEW step \in [1..N -> [V -> V]],
           NEW f, Unfolds(f, N, first, step)
    PROVE  \A n \in 0..N : f[n] \in V
<1> DEFINE S == {n \in 0..N : f[n] \in V}
<1>0. f[0] = first /\ \A n \in 1..N : f[n] = step[n][f[n - 1]]
  BY DEF Unfolds
<1>1. 0 \in S
  BY <1>0
<1>2. ASSUME NEW n \in 1..N, n - 1 \in S PROVE n \in S
  BY <1>0, <1>2
<1> HIDE DEF S
<1>3. 0..N \subseteq S
  BY <1>1, <1>2, InductUpTo
<1> QED
  BY <1>3 DEF S
=============================================================================
