--------------------------- MODULE InductionLemmas ---------------------------
(***************************************************************************)
(* Induction over the natural numbers, stated with sets in place of        *)
(* predicates and functions in place of operators: the form in which the   *)
(* proofs about the recursive definitions of the models use it.            *)
(***************************************************************************)
EXTENDS Integers, WellFoundedInduction, TLAPS

(* Every non-empty set of natural numbers has a least element. *)
LEMMA Least ==
    ASSUME NEW T \in SUBSET Nat, T # {}
    PROVE  \E x \in T : \A y \in T : x <= y
<1> DEFINE R == {p \in Nat \X Nat : p[1] < p[2]}
<1> HIDE DEF R
<1>1. IsWellFoundedOn(R, Nat)
  BY NatLessThanWellFounded DEF OpToRel, R
<1>2. PICK x \in T : \A y \in T : <<y, x>> \notin R
  BY <1>1, WFMin
<1>3. \A y \in T : ~(y < x)
  BY <1>2 DEF R
<1>4. QED
  BY <1>3

(* Every non-empty set of natural numbers up to n has a greatest element.  *)
LEMMA Greatest ==
    ASSUME NEW n \in Nat, NEW T \in SUBSET (0..n), T # {}
    PROVE  \E x \in T : \A y \in T : y <= x
<1> DEFINE U == {n - x : x \in T}
<1>1. U \in SUBSET Nat /\ U # {}
  <2>1. PICK x \in T : TRUE
    OBVIOUS
  <2>2. n - x \in U
    OBVIOUS
  <2>3. \A y \in T : n - y \in Nat
    OBVIOUS
  <2>4. QED
    BY <2>2, <2>3
<1>2. PICK u \in U : \A v \in U : u <= v
  <2> HIDE DEF U
  <2>1. QED
    BY <1>1, Least
<1>3. PICK x \in T : u = n - x
  OBVIOUS
<1>4. \A y \in T : n - x <= n - y
  BY <1>2, <1>3
<1>5. QED
  BY <1>4

(* Induction up to a bound. *)
LEMMA UpTo ==
    ASSUME NEW n \in Nat, NEW T, 0 \in T, \A i \in 1..n : i - 1 \in T => i \in T
    PROVE  \A i \in 0..n : i \in T
<1> DEFINE Bad == {i \in 0..n : i \notin T}
<1>1. SUFFICES ASSUME Bad # {} PROVE FALSE
  OBVIOUS
<1>2. PICK i \in Bad : \A k \in Bad : i <= k
  <2>1. Bad \in SUBSET Nat
    OBVIOUS
  <2> HIDE DEF Bad
  <2>2. QED
    BY <1>1, <2>1, Least
<1>3. i \in 1..n /\ i - 1 \in 0..n
  OBVIOUS
<1>4. i - 1 \notin Bad
  <2> HIDE DEF Bad
  <2>1. QED
    BY <1>2, <1>3
<1>5. QED
  BY <1>3, <1>4

(* f is what starting from init and taking the steps leads through. *)
Unfolds(f, init, step, n, S) ==
    /\ f \in [0..n -> S] /\ f[0] = init
    /\ \A i \in 1..n : f[i - 1] \in S /\ f[i] = step[i][f[i - 1]]

(* Recursion up to a bound. *)
LEMMA Recursion ==
    ASSUME NEW S, NEW init \in S, NEW n \in Nat, NEW step \in [1..n -> [S -> S]]
    PROVE  \E f : Unfolds(f, init, step, n, S)
<1> DEFINE Solves(f, m) ==
             f \in [0..m -> S] /\ f[0] = init /\ \A i \in 1..m : f[i] = step[i][f[i - 1]]
           T == {m \in 0..n : \E f : Solves(f, m)}
<1>1. 0 \in T
  <2>1. Solves([i \in 0..0 |-> init], 0)
    OBVIOUS
  <2> HIDE DEF Solves
  <2>2. QED
    BY <2>1
<1>2. ASSUME NEW m \in 1..n, m - 1 \in T PROVE m \in T
  <2>1. PICK f : Solves(f, m - 1)
    BY <1>2
  <2> DEFINE g == [i \in 0..m |-> IF i = m THEN step[m][f[m - 1]] ELSE f[i]]
  <2>2. m - 1 \in 0..(m - 1) /\ f[m - 1] \in S
    BY <2>1
  <2>3. step[m][f[m - 1]] \in S
    BY <2>2
  <2>4. g \in [0..m -> S] /\ g[0] = init
    <3>1. \A i \in 0..m : i # m => i \in 0..(m - 1)
      OBVIOUS
    <3>2. QED
      BY <2>1, <2>3, <3>1
  <2>5. ASSUME NEW i \in 1..m PROVE g[i] = step[i][g[i - 1]]
    <3>1. CASE i = m
      BY <3>1
    <3>2. CASE i # m
      BY <2>1, <3>2
    <3>3. QED
      BY <3>1, <3>2
  <2>6. Solves(g, m)
    BY <2>4, <2>5
  <2> HIDE DEF Solves, g
  <2>7. QED
    BY <2>6
<1>3. \A i \in 0..n : i \in T
  <2> HIDE DEF T
  <2>1. QED
    BY <1>1, <1>2, UpTo
<1>4. PICK f : Solves(f, n)
  BY <1>3
<1>5. \A i \in 1..n : f[i - 1] \in S
  BY <1>4
<1>6. QED
  BY <1>4, <1>5 DEF Unfolds

(* One more step at the end. *)
LEMMA OneMore ==
    ASSUME NEW S, NEW init, NEW n \in Nat, NEW f, NEW g, NEW before, NEW after,
           Unfolds(f, init, before, n, S), Unfolds(g, init, after, n + 1, S),
           \A i \in 1..n : after[i] = before[i]
    PROVE  g[n + 1] = after[n + 1][f[n]]
<1> DEFINE T == {i \in 0..n : g[i] = f[i]}
<1>1. 0 \in T
  BY DEF Unfolds
<1>2. ASSUME NEW i \in 1..n, i - 1 \in T PROVE i \in T
  <2>1. i \in 1..(n + 1) /\ g[i - 1] = f[i - 1]
    BY <1>2
  <2>2. g[i] = after[i][g[i - 1]] /\ f[i] = before[i][f[i - 1]]
    BY <2>1 DEF Unfolds
  <2>3. QED
    BY <2>1, <2>2
<1>3. n \in T
  <2> HIDE DEF T
  <2>1. QED
    BY <1>1, <1>2, UpTo
<1>4. n + 1 \in 1..(n + 1) /\ (n + 1) - 1 = n
  OBVIOUS
<1>5. QED
  BY <1>3, <1>4 DEF Unfolds

(* g starts where f is after its first step, and takes the rest. *)
Follows(g, after, n, f, init, before, k, S) ==
    /\ n \in Nat /\ k = n + 1
    /\ Unfolds(f, init, before, k, S) /\ Unfolds(g, before[1][init], after, n, S)
    /\ \A i \in 1..n : after[i] = before[i + 1]

(* The first step taken in advance. *)
LEMMA OneLess ==
    ASSUME NEW S, NEW init, NEW n, NEW k, NEW f, NEW g, NEW before, NEW after,
           Follows(g, after, n, f, init, before, k, S)
    PROVE  g[n] = f[k]
<1>0. /\ n \in Nat /\ k = n + 1
      /\ Unfolds(f, init, before, k, S) /\ Unfolds(g, before[1][init], after, n, S)
      /\ \A i \in 1..n : after[i] = before[i + 1]
  BY DEF Follows
<1> DEFINE T == {i \in 0..n : g[i] = f[i + 1]}
<1>1. 0 \in T
  <2>1. 1 \in 1..(n + 1) /\ 1 - 1 = 0 /\ 0 + 1 = 1
    BY <1>0
  <2>2. f[1] = before[1][f[0]]
    BY <1>0, <2>1 DEF Unfolds
  <2>3. QED
    BY <1>0, <2>1, <2>2 DEF Unfolds
<1>2. ASSUME NEW i \in 1..n, i - 1 \in T PROVE i \in T
  <2>1. i + 1 \in 1..(n + 1) /\ (i + 1) - 1 = i /\ (i - 1) + 1 = i
    BY <1>0
  <2>2. f[i + 1] = before[i + 1][f[i]] /\ g[i] = after[i][g[i - 1]]
    BY <1>0, <2>1 DEF Unfolds
  <2>3. QED
    BY <1>0, <1>2, <2>1, <2>2
<1>3. n \in T
  <2> HIDE DEF T
  <2>1. QED
    BY <1>0, <1>1, <1>2, UpTo
<1>4. QED
  BY <1>0, <1>3
=============================================================================
