-------------------------- MODULE Recursion_proofs --------------------------
(***************************************************************************)
(* Induction and recursion over positions, as the proofs about the lexer,  *)
(* the parser and the heap need them.  A property of numbers is the set of *)
(* the numbers that have it, and induction is the argument of the least    *)
(* counterexample, so that no lemma takes an operator as its parameter.    *)
(***************************************************************************)
EXTENDS Integers, FiniteSetsExt, WellFoundedInduction, TLAPS

(* Every non-empty set of natural numbers has a least element. *)
LEMMA LeastElement ==
  ASSUME NEW T \in SUBSET Nat, T # {}
  PROVE  \E n \in T : \A m \in T : n <= m
  <1>1. PICK n \in T : \A m \in T : <<m, n>> \notin OpToRel(<, Nat)
    BY WFMin, NatLessThanWellFounded, Zenon
  <1>2. \A m \in T : ~ (m < n)
    BY <1>1, Zenon DEF OpToRel
  <1>3. n \in Nat /\ \A m \in T : m \in Nat /\ n <= m
    BY <1>2
  <1> QED BY <1>3

(* Min of a non-empty set of natural numbers is its least element. *)
LEMMA MinLeast ==
  ASSUME NEW T \in SUBSET Nat, T # {}
  PROVE  Min(T) \in T /\ \A m \in T : Min(T) <= m
  BY LeastElement DEF Min

(* Max of a non-empty set of numbers up to n is its greatest element. *)
LEMMA MaxGreatest ==
  ASSUME NEW n \in Nat, NEW T \in SUBSET (0 .. n), T # {}
  PROVE  Max(T) \in T /\ \A m \in T : m <= Max(T)
  <1> DEFINE D == {k \in Nat : n - k \in T}
  <1>1. PICK t \in T : TRUE
    OBVIOUS
  <1>2. n - t \in D
    BY <1>1
  <1>3. PICK k \in D : \A m \in D : k <= m
    BY <1>2, LeastElement
  <1>4. n - k \in T /\ \A m \in T : m <= n - k
    <2>1. ASSUME NEW m \in T PROVE m <= n - k
      <3>1. n - m \in D /\ k \in Nat /\ m \in Nat
        OBVIOUS
      <3>2. k <= n - m
        BY <3>1, <1>3
      <3> QED BY <3>1, <3>2
    <2> QED BY <1>3, <2>1
  <1> QED BY <1>4 DEF Max

(* What holds of 0 and of every successor of what it holds of, holds of
   every number up to n. *)
LEMMA Induction ==
  ASSUME NEW n \in Nat, NEW T, 0 \in T, \A k \in 1 .. n : k - 1 \in T => k \in T
  PROVE  0 .. n \subseteq T
  <1> DEFINE D == {k \in 0 .. n : k \notin T}
  <1>1. SUFFICES ASSUME D # {} PROVE FALSE
    OBVIOUS
  <1>2. PICK k \in D : \A m \in D : k <= m
    <2>1. D \in SUBSET Nat
      OBVIOUS
    <2> HIDE DEF D
    <2> QED BY <1>1, <2>1, LeastElement
  <1>3. k \in 1 .. n /\ k - 1 \in 0 .. n
    BY <1>2
  <1>4. k - 1 \in T
    BY <1>2, <1>3
  <1> QED BY <1>2, <1>3, <1>4

(* What holds of a position when it holds of all those behind it, holds of
   all. *)
LEMMA InductionDown ==
  ASSUME NEW n \in Nat, NEW T,
         \A j \in 1 .. n : (\A k \in j + 1 .. n : k \in T) => j \in T
  PROVE  \A j \in 1 .. n : j \in T
  <1> DEFINE D == {j \in 1 .. n : j \notin T}
  <1>1. SUFFICES ASSUME D # {} PROVE FALSE
    OBVIOUS
  <1>2. Max(D) \in D /\ \A m \in D : m <= Max(D)
    <2>1. D \in SUBSET (0 .. n)
      OBVIOUS
    <2> HIDE DEF D
    <2> QED BY <1>1, <2>1, MaxGreatest
  <1>3. \A k \in Max(D) + 1 .. n : k \in T
    BY <1>2
  <1> QED BY <1>2, <1>3

(* Each value from the one before it *)
StepUp(step, n, S) == \A k \in 1 .. n, v \in S : step[<<k, v>>] \in S

SolvesUp(f, step, n, x) == f = [k \in 0 .. n |-> IF k = 0 THEN x ELSE step[<<k, f[k - 1]>>]]

(* A recursion from 0 up to n, each value from the one before it, has a
   solution. *)
LEMMA RecursionUp ==
  ASSUME NEW n \in Nat, NEW S, NEW x \in S, NEW step, StepUp(step, n, S)
  PROVE  \E f \in [0 .. n -> S] : SolvesUp(f, step, n, x)
  <1> DEFINE Upto(m, f) == f[0] = x /\ \A k \in 1 .. m : f[k] = step[<<k, f[k - 1]>>]
             T == {m \in 0 .. n : \E f \in [0 .. n -> S] : Upto(m, f)}
  <1>1. 0 \in T
    <2> DEFINE f == [k \in 0 .. n |-> x]
    <2>1. f \in [0 .. n -> S] /\ Upto(0, f)
      OBVIOUS
    <2> HIDE DEF f
    <2> QED BY <2>1
  <1>2. ASSUME NEW m \in 1 .. n, m - 1 \in T PROVE m \in T
    <2>1. PICK f \in [0 .. n -> S] : Upto(m - 1, f)
      BY <1>2
    <2> DEFINE g == [f EXCEPT ![m] = step[<<m, f[m - 1]>>]]
    <2>2. f[m - 1] \in S /\ step[<<m, f[m - 1]>>] \in S
      BY DEF StepUp
    <2>3. g \in [0 .. n -> S]
      BY <2>2
    <2>4. g[m] = step[<<m, f[m - 1]>>] /\ \A k \in 0 .. n : k # m => g[k] = f[k]
      OBVIOUS
    <2> HIDE DEF g
    <2>5. ASSUME NEW k \in 1 .. m PROVE g[k] = step[<<k, g[k - 1]>>]
      <3>1. g[k - 1] = f[k - 1]
        BY <2>4
      <3>2. CASE k = m
        BY <3>1, <3>2, <2>4
      <3>3. CASE k # m
        <4>1. k \in 1 .. m - 1 /\ k \in 0 .. n
          BY <3>3
        <4>2. g[k] = f[k] /\ f[k] = step[<<k, f[k - 1]>>]
          BY <4>1, <3>3, <2>1, <2>4
        <4> QED BY <4>2, <3>1
      <3> QED BY <3>2, <3>3
    <2>6. g[0] = x
      BY <2>1, <2>4
    <2> QED BY <2>3, <2>5, <2>6
  <1>3. n \in T
    <2> HIDE DEF T
    <2>1. 0 .. n \subseteq T
      BY <1>1, <1>2, Induction
    <2> QED BY <2>1
  <1>4. PICK f \in [0 .. n -> S] : Upto(n, f)
    BY <1>3
  <1>5. \A k \in 0 .. n : f[k] = IF k = 0 THEN x ELSE step[<<k, f[k - 1]>>]
    BY <1>4
  <1>6. f = [k \in 0 .. n |-> IF k = 0 THEN x ELSE step[<<k, f[k - 1]>>]]
    BY <1>5
  <1> QED BY <1>6 DEF SolvesUp

(* Each value from those behind it *)
StepDown(step, n, S) ==
  /\ \A j \in 1 .. n, g \in [1 .. n -> S] : step[<<j, g>>] \in S
  /\ \A j \in 1 .. n, g, h \in [1 .. n -> S] :
       (\A k \in j + 1 .. n : g[k] = h[k]) => step[<<j, g>>] = step[<<j, h>>]

SolvesDown(f, step, n) == f = [j \in 1 .. n |-> step[<<j, f>>]]

(* A recursion over the positions 1 to n, each value from those behind it,
   has a solution. *)
LEMMA RecursionDown ==
  ASSUME NEW n \in Nat, NEW S, S # {}, NEW step, StepDown(step, n, S)
  PROVE  \E f \in [1 .. n -> S] : SolvesDown(f, step, n)
  <1> DEFINE P == 1 .. n
             Behind(m, f) == \A j \in 1 .. n : j > n - m => f[j] = step[<<j, f>>]
             T == {m \in 0 .. n : \E f \in [P -> S] : Behind(m, f)}
  <1>1. 0 \in T
    <2>1. PICK x \in S : TRUE
      OBVIOUS
    <2> DEFINE f == [j \in P |-> x]
    <2>2. f \in [P -> S] /\ Behind(0, f)
      OBVIOUS
    <2> HIDE DEF f
    <2> QED BY <2>2
  <1>2. ASSUME NEW m \in 1 .. n, m - 1 \in T PROVE m \in T
    <2>1. PICK f \in [P -> S] : Behind(m - 1, f)
      BY <1>2
    <2> DEFINE i == n - m + 1
               g == [f EXCEPT ![i] = step[<<i, f>>]]
    <2>2. i \in P /\ step[<<i, f>>] \in S
      BY DEF StepDown
    <2>3. g \in [P -> S]
      BY <2>2
    <2>4. g[i] = step[<<i, f>>] /\ \A k \in P : k # i => g[k] = f[k]
      BY <2>2
    <2> HIDE DEF g
    <2>5. ASSUME NEW j \in P, j > n - m PROVE g[j] = step[<<j, g>>]
      <3>1. \A k \in j + 1 .. n : f[k] = g[k]
        BY <2>4, <2>5
      <3>2. step[<<j, f>>] = step[<<j, g>>]
        BY <3>1, <2>3 DEF StepDown
      <3>3. CASE j = i
        BY <3>2, <3>3, <2>4
      <3>4. CASE j # i
        <4>1. j > n - (m - 1)
          BY <3>4, <2>5
        <4>2. g[j] = f[j] /\ f[j] = step[<<j, f>>]
          BY <4>1, <3>4, <2>1, <2>4
        <4> QED BY <4>2, <3>2
      <3> QED BY <3>3, <3>4
    <2> QED BY <2>3, <2>5
  <1>3. n \in T
    <2> HIDE DEF T
    <2>1. 0 .. n \subseteq T
      BY <1>1, <1>2, Induction
    <2> QED BY <2>1
  <1>4. PICK f \in [P -> S] : Behind(n, f)
    BY <1>3
  <1>5. f = [j \in P |-> step[<<j, f>>]]
    BY <1>4
  <1> QED BY <1>5 DEF SolvesDown
=============================================================================
