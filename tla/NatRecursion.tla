---------------------------- MODULE NatRecursion ----------------------------
(***************************************************************************)
(* Induction and recursion over the natural numbers for sets and functions *)
(* instead of operators, the form in which the provers can use them.       *)
(***************************************************************************)
EXTENDS Integers, WellFoundedInduction, TLAPS

LEMMA LeastNat ==
  ASSUME NEW T, T \subseteq Nat, T # {}
  PROVE  \E x \in T : \A y \in T : x <= y
<1> DEFINE R == OpToRel(<, Nat)
<1>1. IsWellFoundedOn(R, Nat)
  BY NatLessThanWellFounded
<1>2. \A x, y \in Nat : <<y, x>> \in R <=> y < x
  BY DEF OpToRel
<1> HIDE DEF R
<1>3. PICK x \in T : \A y \in T : ~ (<<y, x>> \in R)
  BY <1>1, WFMin
<1>4. \A y \in T : ~(y < x) /\ y \in Nat /\ x \in Nat
  BY <1>2, <1>3
<1>5. \A y \in T : x <= y
  BY <1>4
<1> QED BY <1>5

LEMMA NatSetInduction ==
  ASSUME NEW S, 0 \in S, \A n \in Nat : n \in S => n + 1 \in S
  PROVE  Nat \subseteq S
<1> DEFINE T == Nat \ S
<1> SUFFICES ASSUME T # {} PROVE FALSE
  OBVIOUS
<1>1. PICK x \in T : \A y \in T : x <= y
  BY LeastNat
<1>2. x \in Nat /\ x # 0
  OBVIOUS
<1>3. x - 1 \in Nat /\ ~(x <= x - 1)
  BY <1>2
<1>4. x - 1 \in S
  BY <1>1, <1>3
<1>5. (x - 1) + 1 \in S
  BY <1>3, <1>4
<1> QED BY <1>2, <1>5

IsStep(step, V) == step \in [Nat \X V -> V]

IsIteration(f, V, b, step) ==
  f \in [Nat -> V] /\ f[0] = b /\ \A n \in Nat : f[n + 1] = step[<<n, f[n]>>]

\* The function that starts with b and goes on with step.
LEMMA NatSetRecursion ==
  ASSUME NEW V, NEW b \in V, NEW step, IsStep(step, V)
  PROVE  \E f : IsIteration(f, V, b, step)
<1> USE DEF IsStep, IsIteration
<1> DEFINE Approx(n, g) == /\ g \in [0 .. n -> V] /\ g[0] = b
                           /\ \A i \in 0 .. n - 1 : g[i + 1] = step[<<i, g[i]>>]
           E == {n \in Nat : \E g : Approx(n, g)}
<1>1. 0 \in E
  <2>1. Approx(0, [i \in 0 .. 0 |-> b])
    OBVIOUS
  <2> QED BY <2>1
<1>2. ASSUME NEW n \in Nat, n \in E PROVE n + 1 \in E
  <2>1. PICK g : Approx(n, g)
    BY <1>2
  <2> DEFINE h == [i \in 0 .. n + 1 |-> IF i = n + 1 THEN step[<<n, g[n]>>] ELSE g[i]]
  <2>2. n \in 0 .. n /\ g[n] \in V /\ step[<<n, g[n]>>] \in V
    BY <2>1
  <2>3. h \in [0 .. n + 1 -> V]
    BY <2>1, <2>2
  <2>4. 0 \in 0 .. n + 1 /\ 0 # n + 1 /\ h[0] = b
    BY <2>1
  <2>5. ASSUME NEW i \in 0 .. (n + 1) - 1
        PROVE  h[i + 1] = step[<<i, h[i]>>]
    <3>1. i \in 0 .. n + 1 /\ i # n + 1 /\ i + 1 \in 0 .. n + 1
      OBVIOUS
    <3>2. CASE i = n
      BY <3>1, <3>2
    <3>3. CASE i # n
      <4>1. i \in 0 .. n - 1 /\ i + 1 # n + 1
        BY <3>3
      <4> QED BY <2>1, <3>1, <4>1
    <3> QED BY <3>2, <3>3
  <2> HIDE DEF h
  <2>6. Approx(n + 1, h)
    BY <2>3, <2>4, <2>5
  <2> QED BY <2>6
<1>3. \A n \in Nat : \E g : Approx(n, g)
  <2> HIDE DEF E
  <2>1. Nat \subseteq E
    BY <1>1, <1>2, NatSetInduction
  <2> QED BY <2>1 DEF E
<1> DEFINE G == [n \in Nat |-> CHOOSE g : Approx(n, g)]
<1>4. \A n \in Nat : Approx(n, G[n])
  BY <1>3
<1> HIDE DEF G
<1>5. ASSUME NEW n \in Nat PROVE G[n + 1][n] = G[n][n]
  <2> DEFINE D == {i \in Nat : i <= n => G[n + 1][i] = G[n][i]}
  <2>1. 0 \in D
    BY <1>4
  <2>2. ASSUME NEW i \in Nat, i \in D PROVE i + 1 \in D
    <3> SUFFICES ASSUME i + 1 <= n PROVE G[n + 1][i + 1] = G[n][i + 1]
      OBVIOUS
    <3>1. i \in 0 .. n - 1 /\ i \in 0 .. (n + 1) - 1 /\ n + 1 \in Nat /\ i <= n
      OBVIOUS
    <3>2. G[n][i + 1] = step[<<i, G[n][i]>>]
      BY <1>4, <3>1
    <3>3. G[n + 1][i + 1] = step[<<i, G[n + 1][i]>>]
      BY <1>4, <3>1
    <3> QED BY <2>2, <3>1, <3>2, <3>3
  <2> HIDE DEF D
  <2>3. n \in D
    BY <2>1, <2>2, NatSetInduction
  <2> QED BY <2>3 DEF D
<1> DEFINE f == [n \in Nat |-> G[n][n]]
<1>6. f \in [Nat -> V] /\ f[0] = b
  BY <1>4
<1>7. ASSUME NEW n \in Nat PROVE f[n + 1] = step[<<n, f[n]>>]
  <2>1. G[n + 1][n + 1] = step[<<n, G[n + 1][n]>>]
    <3>1. n + 1 \in Nat /\ n \in 0 .. (n + 1) - 1
      OBVIOUS
    <3> QED BY <1>4, <3>1
  <2> QED BY <1>5, <2>1
<1> QED BY <1>6, <1>7

\* Induction over the steps of a loop that makes at most N of them.
LEMMA IntervalInduction ==
  ASSUME NEW N \in Nat, NEW S, 0 \in S, \A n \in 0 .. N - 1 : n \in S => n + 1 \in S
  PROVE  0 .. N \subseteq S
<1> DEFINE T == {n \in Nat : n <= N => n \in S}
<1>1. 0 \in T
  OBVIOUS
<1>2. \A n \in Nat : n \in T => n + 1 \in T
  OBVIOUS
<1> HIDE DEF T
<1>3. Nat \subseteq T
  BY <1>1, <1>2, NatSetInduction
<1> QED BY <1>3 DEF T

IsLoopStep(step, N, V) == step \in [(1 .. N) \X V -> V]

IsLoop(f, N, V, b, step) ==
  /\ f \in [0 .. N -> V]
  /\ f = [k \in 0 .. N |-> IF k = 0 THEN b ELSE step[<<k, f[k - 1]>>]]

\* The function a loop of N steps computes: its value before the loop is b, and
\* step number k makes the next value of the last one.
LEMMA LoopFunction ==
  ASSUME NEW N \in Nat, NEW V, NEW b \in V, NEW step, IsLoopStep(step, N, V)
  PROVE  \E f : IsLoop(f, N, V, b, step)
<1> USE DEF IsLoopStep
<1> DEFINE more == [x \in Nat \X V |->
                      IF x[1] + 1 \in 1 .. N THEN step[<<x[1] + 1, x[2]>>] ELSE x[2]]
<1>1. more \in [Nat \X V -> V]
  <2>1. \A k \in 1 .. N, v \in V : step[<<k, v>>] \in V
    OBVIOUS
  <2>2. \A x \in Nat \X V : x[1] \in Nat /\ x[2] \in V
    OBVIOUS
  <2> QED BY <2>1, <2>2
<1>2. \A n \in Nat, v \in V : n + 1 <= N => more[<<n, v>>] = step[<<n + 1, v>>]
  OBVIOUS
<1> HIDE DEF more
<1>3. PICK g : IsIteration(g, V, b, more)
  <2>1. IsStep(more, V)
    BY <1>1 DEF IsStep
  <2> QED BY <2>1, NatSetRecursion
<1>g. g \in [Nat -> V] /\ g[0] = b /\ \A n \in Nat : g[n + 1] = more[<<n, g[n]>>]
  BY <1>3 DEF IsIteration
<1> DEFINE f == [k \in 0 .. N |-> g[k]]
<1>4. f \in [0 .. N -> V]
  BY <1>g
<1>5. ASSUME NEW k \in 0 .. N
      PROVE  f[k] = IF k = 0 THEN b ELSE step[<<k, f[k - 1]>>]
  <2>1. CASE k = 0
    BY <1>g, <2>1
  <2>2. CASE k # 0
    <3>1. k - 1 \in Nat /\ k - 1 \in 0 .. N /\ (k - 1) + 1 = k /\ k <= N
      BY <2>2
    <3>2. g[k] = more[<<k - 1, g[k - 1]>>]
      BY <1>g, <3>1
    <3>3. more[<<k - 1, g[k - 1]>>] = step[<<k, g[k - 1]>>]
      BY <1>2, <1>g, <3>1
    <3> QED BY <2>2, <3>1, <3>2, <3>3
  <2> QED BY <2>1, <2>2
<1>6. f = [k \in 0 .. N |-> IF k = 0 THEN b ELSE step[<<k, f[k - 1]>>]]
  BY <1>5
<1>7. IsLoop(f, N, V, b, step)
  BY <1>4, <1>6 DEF IsLoop
<1> QED BY <1>7
=============================================================================
