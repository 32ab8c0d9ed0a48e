---------------------------- MODULE RBTreeProofs ----------------------------
(***************************************************************************)
(* Proofs about the red-black tree.  A tree is looked at from a side: A is *)
(* the child pointer of that side, B the other one, P the parent pointer,  *)
(* r the root and K the keys, negated when the side is the right one, so   *)
(* that a fact proved once holds for both mirror images of the code.       *)
(***************************************************************************)
EXTENDS RBTree, NatRecursion, FiniteSetTheorems

D == Node \cup {NIL}
W == Node \cup {NIL, NULL}

\* The pointers and the subtree of node n.
At(n, A, B, P, M, sub) ==
  /\ A[n] \in M \cup {NIL} /\ B[n] \in M \cup {NIL}
  /\ A[n] # NIL => P[A[n]] = n
  /\ B[n] # NIL => P[B[n]] = n
  /\ sub[n] = {n} \cup sub[A[n]] \cup sub[B[n]]
  /\ n \notin sub[A[n]] /\ n \notin sub[B[n]]
  /\ sub[A[n]] \cap sub[B[n]] = {}

\* The pointers form one tree of the nodes M; sub[n] are the nodes of the subtree
\* of n.
Shape(r, A, B, P, M, sub) ==
  /\ M \subseteq Node
  /\ r \in M \cup {NIL}
  /\ A \in [D -> W] /\ B \in [D -> W] /\ P \in [D -> W]
  /\ sub \in [D -> SUBSET M]
  /\ sub[NIL] = {}
  /\ sub[r] = M
  /\ r # NIL => P[r] = NIL
  /\ \A n \in M : At(n, A, B, P, M, sub)

\* Keys grow from the A side to the B side.
Sorted(A, B, K, M, sub) ==
  \A n \in M : /\ \A m \in sub[A[n]] : K[m] <= K[n]
               /\ \A m \in sub[B[n]] : K[n] <= K[m]

\* The values f a loop goes through in N iterations.
Iterates(f, N, V, b, next) ==
  f \in [0 .. N -> V] /\ f[0] = b /\ \A k \in 1 .. N : f[k] = next[f[k - 1]]

LEMMA LoopExists ==
  ASSUME NEW N \in Nat, NEW V, NEW b \in V, NEW next \in [V -> V]
  PROVE  \E f : Iterates(f, N, V, b, next)
<1> DEFINE step == [x \in (1 .. N) \X V |-> next[x[2]]]
<1>1. IsLoopStep(step, N, V) /\ \A k \in 1 .. N, v \in V : step[<<k, v>>] = next[v]
  BY DEF IsLoopStep
<1> HIDE DEF step
<1>2. PICK f : IsLoop(f, N, V, b, step)
  BY <1>1, LoopFunction
<1>3. f \in [0 .. N -> V] /\ f[0] = b
  BY <1>2 DEF IsLoop
<1>4. ASSUME NEW k \in 1 .. N PROVE f[k] = next[f[k - 1]]
  <2>1. k \in 0 .. N /\ k # 0 /\ k - 1 \in 0 .. N
    OBVIOUS
  <2>2. f[k] = step[<<k, f[k - 1]>>]
    BY <1>2, <2>1 DEF IsLoop
  <2> QED BY <1>1, <1>3, <2>1, <2>2
<1> QED BY <1>3, <1>4 DEF Iterates

-----------------------------------------------------------------------------
(* Subtrees.                                                               *)

LEMMA NilNotNode ==
  /\ NIL \notin Node /\ NULL \notin Node /\ NIL # NULL
  /\ NIL \in D /\ NIL \in W /\ NULL \in W
  /\ Node \subseteq D /\ D \subseteq W /\ Node \subseteq W
BY RBTreeAssumption DEF D, W, NIL, NULL

LEMMA SubtreeSize ==
  ASSUME NEW r, NEW A, NEW B, NEW P, NEW M, NEW sub, Shape(r, A, B, P, M, sub),
         NEW n \in M
  PROVE  /\ IsFiniteSet(sub[n]) /\ Cardinality(sub[n]) \in Nat
         /\ A[n] # NIL => Cardinality(sub[A[n]]) < Cardinality(sub[n])
         /\ B[n] # NIL => Cardinality(sub[B[n]]) < Cardinality(sub[n])
<1>1. n \in D /\ sub[n] \subseteq Node
  BY NilNotNode DEF Shape, At
<1>2. IsFiniteSet(sub[n])
  BY <1>1, RBTreeAssumption, FS_Subset
<1>3. sub[A[n]] \subseteq sub[n] /\ sub[A[n]] # sub[n] /\ sub[B[n]] \subseteq sub[n] /\ sub[B[n]] # sub[n]
  BY DEF Shape, At
<1>4. ASSUME NEW T, T \subseteq sub[n], T # sub[n]
      PROVE  Cardinality(T) < Cardinality(sub[n])
  <2>1. /\ IsFiniteSet(T) /\ Cardinality(T) <= Cardinality(sub[n])
        /\ Cardinality(T) # Cardinality(sub[n])
    BY <1>2, <1>4, FS_Subset
  <2>2. Cardinality(T) \in Nat /\ Cardinality(sub[n]) \in Nat
    BY <1>2, <2>1, FS_CardinalityType
  <2> QED BY <2>1, <2>2
<1> QED BY <1>2, <1>3, <1>4, FS_CardinalityType

\* Induction from the leaves to the root.
LEMMA UpInduction ==
  ASSUME NEW r, NEW A, NEW B, NEW P, NEW M, NEW sub, Shape(r, A, B, P, M, sub),
         NEW S,
         \A n \in M : A[n] \in S \cup {NIL} /\ B[n] \in S \cup {NIL} => n \in S
  PROVE  M \subseteq S
<1> SUFFICES ASSUME M \ S # {} PROVE FALSE
  OBVIOUS
<1> DEFINE T == {Cardinality(sub[n]) : n \in M \ S}
<1>1. T \subseteq Nat /\ T # {}
  BY SubtreeSize
<1>2. PICK c \in T : \A d \in T : c <= d
  BY <1>1, LeastNat
<1>3. PICK n \in M \ S : c = Cardinality(sub[n])
  OBVIOUS
<1>4. ASSUME NEW a \in {A[n], B[n]} PROVE a \in S \cup {NIL}
  <2> SUFFICES ASSUME a # NIL, a \notin S PROVE FALSE
    OBVIOUS
  <2>1. a \in M
    BY <1>4 DEF Shape, At
  <2>2. Cardinality(sub[a]) < Cardinality(sub[n]) /\ Cardinality(sub[n]) \in Nat
    BY <1>4, SubtreeSize
  <2>3. Cardinality(sub[a]) \in T /\ Cardinality(sub[a]) \in Nat
    BY <2>1, SubtreeSize
  <2> QED BY <1>2, <1>3, <2>2, <2>3
<1> QED BY <1>4

\* Induction from the root to the leaves.
LEMMA DownInduction ==
  ASSUME NEW r, NEW A, NEW B, NEW P, NEW M, NEW sub, Shape(r, A, B, P, M, sub),
         NEW S, r \in S \cup {NIL},
         \A n \in M : n \in S => A[n] \in S \cup {NIL} /\ B[n] \in S \cup {NIL}
  PROVE  M \subseteq S
<1> DEFINE T == {n \in M : n \in S => sub[n] \subseteq S}
<1>1. ASSUME NEW n \in M, A[n] \in T \cup {NIL}, B[n] \in T \cup {NIL} PROVE n \in T
  <2> SUFFICES ASSUME n \in S PROVE sub[n] \subseteq S
    OBVIOUS
  <2>1. sub[NIL] = {} /\ sub[n] = {n} \cup sub[A[n]] \cup sub[B[n]]
    BY DEF Shape, At
  <2>2. sub[A[n]] \subseteq S /\ sub[B[n]] \subseteq S
    BY <1>1, <2>1
  <2> QED BY <2>1, <2>2
<1> HIDE DEF T
<1>2. M \subseteq T
  BY <1>1, UpInduction
<1>3. CASE r = NIL
  BY <1>3 DEF Shape, At
<1>4. CASE r # NIL
  <2>1. r \in M /\ sub[r] = M
    BY <1>4 DEF Shape, At
  <2> QED BY <1>2, <1>4, <2>1 DEF T
<1> QED BY <1>3, <1>4

\* Where the node m of a subtree is.
LEMMA Subtrees ==
  ASSUME NEW r, NEW A, NEW B, NEW P, NEW M, NEW sub, Shape(r, A, B, P, M, sub),
         NEW n \in M, NEW m \in sub[n]
  PROVE  /\ m \in M
         /\ sub[m] \subseteq sub[n]
         /\ m # n => /\ n \notin sub[m]
                     /\ P[m] \in sub[n] /\ P[m] \in M /\ P[m] # m
                     /\ m = A[P[m]] \/ m = B[P[m]]
<1>1. m \in M /\ sub[n] \subseteq M
  BY NilNotNode DEF Shape, At
<1> DEFINE Good(c, a) ==
             /\ sub[a] \subseteq sub[c]
             /\ a # c => c \notin sub[a] /\ P[a] \in sub[c] /\ (a = A[P[a]] \/ a = B[P[a]])
           T == {c \in M : \A a \in sub[c] : Good(c, a)}
<1>2. ASSUME NEW c \in M, A[c] \in T \cup {NIL}, B[c] \in T \cup {NIL} PROVE c \in T
  <2> SUFFICES ASSUME NEW a \in sub[c], a # c
               PROVE /\ sub[a] \subseteq sub[c] /\ c \notin sub[a]
                     /\ P[a] \in sub[c] /\ (a = A[P[a]] \/ a = B[P[a]])
    OBVIOUS
  <2>1. /\ sub[NIL] = {} /\ sub[c] = {c} \cup sub[A[c]] \cup sub[B[c]]
        /\ c \notin sub[A[c]] /\ c \notin sub[B[c]]
    BY DEF Shape, At
  <2>2. PICK d \in {A[c], B[c]} : a \in sub[d]
    BY <2>1
  <2>3. d # NIL /\ d \in T /\ d \in M /\ P[d] = c
    BY <1>2, <2>1, <2>2 DEF Shape, At
  <2>g. Good(d, a)
    BY <2>2, <2>3
  <2>4. sub[a] \subseteq sub[d] /\ sub[d] \subseteq sub[c] /\ c \notin sub[d]
    BY <2>1, <2>2, <2>g
  <2>5. CASE a = d
    BY <2>1, <2>3, <2>4, <2>5
  <2>6. CASE a # d
    BY <2>2, <2>g, <2>4, <2>6
  <2> QED BY <2>4, <2>5, <2>6
<1> HIDE DEF T
<1>t. n \in T
  BY <1>2, UpInduction
<1>3. Good(n, m)
  BY <1>t DEF T
<1> HIDE DEF Good
<1>4. ASSUME m # n PROVE P[m] # m
  <2>1. P[m] \in M /\ (m = A[P[m]] \/ m = B[P[m]])
    BY <1>1, <1>3, <1>4 DEF Good
  <2>2. m \in sub[m]
    BY <1>1 DEF Shape, At
  <2> QED BY <2>1, <2>2 DEF Shape, At
<1> QED BY <1>1, <1>3, <1>4 DEF Good

\* Every node but the root is a child of its parent, on one side.
LEMMA Parents ==
  ASSUME NEW r, NEW A, NEW B, NEW P, NEW M, NEW sub, Shape(r, A, B, P, M, sub),
         NEW n \in M
  PROVE  /\ n \in D /\ n # NIL /\ n \in sub[n]
         /\ r \in M
         /\ P[n] \in M \cup {NIL}
         /\ P[n] = NIL <=> n = r
         /\ n # r => /\ P[n] # n /\ P[n] \notin sub[n]
                     /\ n = A[P[n]] \/ n = B[P[n]]
                     /\ A[P[n]] # B[P[n]]
<1>1. n \in D /\ n # NIL /\ n \in sub[n] /\ n \in sub[r]
  BY NilNotNode DEF Shape, At
<1>2. r \in M /\ P[r] = NIL
  BY <1>1 DEF Shape, At
<1>3. ASSUME n # r
      PROVE  /\ P[n] \in M /\ P[n] # n /\ P[n] \notin sub[n]
             /\ n = A[P[n]] \/ n = B[P[n]]
             /\ A[P[n]] # B[P[n]]
  <2>1. P[n] \in M /\ P[n] # n /\ (n = A[P[n]] \/ n = B[P[n]])
    BY <1>1, <1>2, <1>3, Subtrees
  <2>2. n \in sub[A[P[n]]] \/ n \in sub[B[P[n]]]
    BY <1>1, <2>1
  <2>3. P[n] \notin sub[n] /\ A[P[n]] # B[P[n]]
    BY <2>1, <2>2 DEF Shape, At
  <2> QED BY <2>1, <2>3
<1> QED BY <1>1, <1>2, <1>3, NilNotNode DEF Shape, At

-----------------------------------------------------------------------------
(* Mirror images and rotations.                                            *)

Neg(K) == [n \in Node |-> 0 - K[n]]

LEMMA MirrorShape ==
  ASSUME NEW r, NEW A, NEW B, NEW P, NEW M, NEW sub, Shape(r, A, B, P, M, sub)
  PROVE  Shape(r, B, A, P, M, sub)
<1>1. \A n \in M : sub[n] = {n} \cup sub[B[n]] \cup sub[A[n]] /\ sub[B[n]] \cap sub[A[n]] = {}
  BY DEF Shape, At
<1> QED BY <1>1 DEF Shape, At

LEMMA MirrorSorted ==
  ASSUME NEW A, NEW B, NEW K \in [Node -> Int], NEW M, NEW sub,
         NEW r, NEW P, Shape(r, A, B, P, M, sub), Sorted(A, B, K, M, sub)
  PROVE  Sorted(B, A, Neg(K), M, sub) /\ Neg(K) \in [Node -> Int]
<1>1. \A n \in M : n \in Node /\ sub[A[n]] \subseteq Node /\ sub[B[n]] \subseteq Node
  BY NilNotNode DEF Shape, At
<1>2. \A n, m \in Node : K[n] \in Int /\ K[m] \in Int /\ (K[m] <= K[n] => Neg(K)[n] <= Neg(K)[m])
  BY DEF Neg
<1>3. Neg(K) \in [Node -> Int]
  BY DEF Neg
<1> QED BY <1>1, <1>2, <1>3 DEF Sorted

\* The effect of a rotation at x towards the A side on the pointers.
Rotated(x, r, A, B, P, r2, A2, B2, P2) ==
  LET y == B[x]
      b == A[y]
      p == P[x]
  IN  /\ A2 \in [D -> W] /\ B2 \in [D -> W] /\ P2 \in [D -> W]
      /\ r2 = IF p = NIL THEN y ELSE r
      /\ \A n \in D : A2[n] = IF n = y THEN x
                              ELSE IF n = p /\ p # NIL /\ x = A[p] THEN y ELSE A[n]
      /\ \A n \in D : B2[n] = IF n = x THEN b
                              ELSE IF n = p /\ p # NIL /\ x # A[p] THEN y ELSE B[n]
      /\ \A n \in D : P2[n] = IF n = y THEN p ELSE IF n = x THEN y
                              ELSE IF n = b /\ b # NIL THEN x ELSE P[n]

RotatedSub(x, A, B, sub) ==
  [sub EXCEPT ![x] = {x} \cup sub[A[x]] \cup sub[A[B[x]]], ![B[x]] = sub[x]]

\* The nodes around a rotation are different nodes.
LEMMA RotationNodes ==
  ASSUME NEW r, NEW A, NEW B, NEW P, NEW M, NEW sub, Shape(r, A, B, P, M, sub),
         NEW x \in M, NEW y \in M, y = B[x], NEW b, b = A[y], NEW p, p = P[x]
  PROVE  /\ x # y /\ P[y] = x /\ b \in M \cup {NIL} /\ b # x /\ b # y
         /\ b # NIL => P[b] = y
         /\ p \in M \cup {NIL} /\ p # x /\ p # y /\ (b # NIL => p # b)
         /\ p = NIL <=> x = r
         /\ p # NIL => x # r /\ (x = A[p] \/ x = B[p]) /\ A[p] # B[p]
         /\ y # r
         /\ A[x] \in M \cup {NIL} /\ A[x] # x /\ A[x] # y /\ (A[x] = b => b = NIL)
         /\ B[y] \in M \cup {NIL} /\ B[y] # x /\ B[y] # y /\ (B[y] = b => b = NIL)
<1>n. y # NIL /\ NIL \notin M
  BY NilNotNode DEF Shape
<1>a. At(x, A, B, P, M, sub) /\ At(y, A, B, P, M, sub)
  BY DEF Shape
<1>1. P[y] = x /\ x \notin sub[y] /\ y \in sub[y] /\ x \in sub[x]
  BY <1>n, <1>a, Parents DEF At
<1>2. b \in M \cup {NIL} /\ (b # NIL => P[b] = y) /\ y \notin sub[b] /\ sub[b] \subseteq sub[y]
  BY <1>a DEF At
<1>3. b # NIL => b \in sub[b]
  BY <1>2, Parents
<1>4. p \in M \cup {NIL} /\ (p = NIL <=> x = r) /\ (x # r => p # x /\ p \notin sub[x] /\ (x = A[p] \/ x = B[p]) /\ A[p] # B[p])
  BY Parents
<1>5. y \in sub[x] /\ (b # NIL => b \in sub[x])
  BY <1>1, <1>2, <1>3, <1>a DEF At
<1>6. y # r
  BY <1>1, <1>n, Parents
<1>7. /\ A[x] \in M \cup {NIL} /\ (A[x] # NIL => P[A[x]] = x)
      /\ B[y] \in M \cup {NIL} /\ (B[y] # NIL => P[B[y]] = y)
      /\ sub[A[x]] \cap sub[y] = {} /\ sub[b] \cap sub[B[y]] = {}
      /\ x \notin sub[A[x]] /\ y \notin sub[B[y]] /\ sub[B[y]] \subseteq sub[y]
  BY <1>a DEF At
<1>8. /\ A[x] # NIL => A[x] \in sub[A[x]]
      /\ B[y] # NIL => B[y] \in sub[B[y]]
  BY <1>7, Parents
<1> QED BY <1>n, <1>1, <1>2, <1>3, <1>4, <1>5, <1>6, <1>7, <1>8

\* A rotation keeps the tree.
LEMMA RotateShape ==
  ASSUME NEW r, NEW A, NEW B, NEW P, NEW M, NEW sub, Shape(r, A, B, P, M, sub),
         NEW x \in M, B[x] # NIL,
         NEW r2, NEW A2, NEW B2, NEW P2, Rotated(x, r, A, B, P, r2, A2, B2, P2)
  PROVE  Shape(r2, A2, B2, P2, M, RotatedSub(x, A, B, sub))
<1> DEFINE y == B[x]
           b == A[y]
           p == P[x]
<1> HIDE DEF y, b, p
<1>1. /\ M \subseteq Node /\ x \in D /\ y \in D /\ y \in M /\ NIL \notin M /\ M \subseteq D
      /\ sub \in [D -> SUBSET M] /\ sub[NIL] = {} /\ sub[r] = M /\ (r # NIL => P[r] = NIL)
      /\ A \in [D -> W] /\ B \in [D -> W] /\ P \in [D -> W] /\ r \in M \cup {NIL}
  BY NilNotNode DEF Shape, At, y
<1>2. /\ x # y /\ P[y] = x /\ b \in M \cup {NIL} /\ b # x /\ b # y
      /\ b # NIL => P[b] = y
      /\ p \in M \cup {NIL} /\ p # x /\ p # y /\ (b # NIL => p # b)
      /\ p = NIL <=> x = r
      /\ p # NIL => x # r /\ (x = A[p] \/ x = B[p]) /\ A[p] # B[p]
      /\ y # r
      /\ A[x] \in M \cup {NIL} /\ A[x] # x /\ A[x] # y /\ (A[x] = b => b = NIL)
      /\ B[y] \in M \cup {NIL} /\ B[y] # x /\ B[y] # y /\ (B[y] = b => b = NIL)
  BY <1>1, RotationNodes DEF y, b, p
<1>3. \A n \in M : At(n, A, B, P, M, sub)
  BY DEF Shape
<1>4. /\ A2 \in [D -> W] /\ B2 \in [D -> W] /\ P2 \in [D -> W]
      /\ r2 = IF p = NIL THEN y ELSE r
      /\ \A n \in D : A2[n] = IF n = y THEN x
                              ELSE IF n = p /\ p # NIL /\ x = A[p] THEN y ELSE A[n]
      /\ \A n \in D : B2[n] = IF n = x THEN b
                              ELSE IF n = p /\ p # NIL /\ x # A[p] THEN y ELSE B[n]
      /\ \A n \in D : P2[n] = IF n = y THEN p ELSE IF n = x THEN y
                              ELSE IF n = b /\ b # NIL THEN x ELSE P[n]
  BY DEF Rotated, y, b, p
<1>5. PICK sub2 : sub2 = RotatedSub(x, A, B, sub)
  OBVIOUS
<1>6. /\ sub[A[x]] \subseteq M /\ sub[b] \subseteq M /\ sub[x] \subseteq M
  BY <1>1, <1>2
<1>7. /\ sub2 \in [D -> SUBSET M]
      /\ sub2[x] = {x} \cup sub[A[x]] \cup sub[b]
      /\ sub2[y] = sub[x]
      /\ \A n \in D : n # x /\ n # y => sub2[n] = sub[n]
  BY <1>1, <1>2, <1>5, <1>6 DEF RotatedSub, y, b
<1> HIDE DEF RotatedSub
<1>8. /\ sub[x] = {x} \cup sub[A[x]] \cup sub[y] /\ sub[y] = {y} \cup sub[b] \cup sub[B[y]]
      /\ x \notin sub[A[x]] /\ x \notin sub[y] /\ y \notin sub[b] /\ y \notin sub[B[y]]
      /\ sub[A[x]] \cap sub[y] = {} /\ sub[b] \cap sub[B[y]] = {}
      /\ A[x] # NIL => P[A[x]] = x
      /\ B[y] # NIL => P[B[y]] = y
  BY <1>1, <1>3 DEF At, y, b
<1>9. r2 \in M /\ P2[r2] = NIL /\ sub2[r2] = M
  BY <1>1, <1>2, <1>4, <1>7
<1>10. At(x, A2, B2, P2, M, sub2)
  <2>1. A2[x] = A[x] /\ B2[x] = b /\ A[x] \in D /\ b \in D
    BY <1>1, <1>2, <1>4, NilNotNode
  <2>2. sub2[A[x]] = sub[A[x]] /\ sub2[b] = sub[b]
    BY <1>2, <1>7, <2>1
  <2>3. (A[x] # NIL => P2[A[x]] = x) /\ (b # NIL => P2[b] = x)
    BY <1>2, <1>4, <1>8, <2>1
  <2>4. x \notin sub[b] /\ sub[A[x]] \cap sub[b] = {}
    BY <1>8
  <2> QED BY <1>2, <1>7, <1>8, <2>1, <2>2, <2>3, <2>4 DEF At
<1>11. At(y, A2, B2, P2, M, sub2)
  <2>1. A2[y] = x /\ B2[y] = B[y] /\ B[y] \in D
    BY <1>1, <1>2, <1>4, NilNotNode
  <2>2. sub2[B[y]] = sub[B[y]]
    BY <1>2, <1>7, <2>1
  <2>3. P2[x] = y /\ (B[y] # NIL => P2[B[y]] = y)
    BY <1>1, <1>2, <1>4, <1>8, <2>1
  <2>4. sub2[y] = {y} \cup sub2[x] \cup sub[B[y]]
    BY <1>7, <1>8
  <2>5. y \notin sub2[x] /\ sub2[x] \cap sub[B[y]] = {}
    BY <1>2, <1>7, <1>8, <1>1, NilNotNode, Parents
  <2> QED BY <1>2, <1>8, <2>1, <2>2, <2>3, <2>4, <2>5 DEF At
<1>12. ASSUME NEW n \in M, n # x, n # y PROVE At(n, A2, B2, P2, M, sub2)
  <2>1. At(n, A, B, P, M, sub) /\ n \in D
    BY <1>1, <1>3
  <2>2. A[n] \in M \cup {NIL} /\ B[n] \in M \cup {NIL} /\ A[n] \in D /\ B[n] \in D /\ A[n] # y /\ B[n] # y
    BY <1>1, <1>2, <2>1, <1>12, NilNotNode DEF At
  <2>3. CASE n = p /\ x = A[p]
    <3>1. A2[n] = y /\ B2[n] = B[n] /\ B[n] # x
      BY <1>2, <1>4, <1>12, <2>1, <2>3, <1>1
    <3>2. sub2[n] = sub[n] /\ sub2[y] = sub[x] /\ sub2[B[n]] = sub[B[n]] /\ A[n] = x
      BY <1>7, <1>12, <2>1, <2>2, <2>3, <3>1
    <3>3. P2[y] = n /\ (B[n] # NIL => P2[B[n]] = n)
      BY <1>1, <1>2, <1>4, <1>12, <2>1, <2>2, <2>3, <3>1 DEF At
    <3> QED BY <1>1, <2>1, <2>2, <3>1, <3>2, <3>3 DEF At
  <2>4. CASE n = p /\ x # A[p]
    <3>1. A2[n] = A[n] /\ B2[n] = y /\ B[n] = x
      BY <1>2, <1>4, <1>12, <2>1, <2>4, <1>1
    <3>2. sub2[n] = sub[n] /\ sub2[y] = sub[x] /\ sub2[A[n]] = sub[A[n]] /\ A[n] # x
      BY <1>7, <1>12, <2>1, <2>2, <2>4, <3>1
    <3>3. P2[y] = n /\ (A[n] # NIL => P2[A[n]] = n)
      BY <1>1, <1>2, <1>4, <1>12, <2>1, <2>2, <2>4, <3>2 DEF At
    <3> QED BY <1>1, <2>1, <2>2, <3>1, <3>2, <3>3 DEF At
  <2>5. CASE n # p
    <3>1. A2[n] = A[n] /\ B2[n] = B[n] /\ A[n] # x /\ B[n] # x
      BY <1>1, <1>4, <1>12, <2>1, <2>5, NilNotNode DEF At, p
    <3>2. sub2[n] = sub[n] /\ sub2[A[n]] = sub[A[n]] /\ sub2[B[n]] = sub[B[n]]
      BY <1>7, <1>12, <2>1, <2>2, <3>1
    <3>3. (A[n] # NIL => P2[A[n]] = n) /\ (B[n] # NIL => P2[B[n]] = n)
      BY <1>2, <1>4, <1>12, <2>1, <2>2, <3>1 DEF At
    <3> QED BY <2>1, <3>1, <3>2, <3>3 DEF At
  <2> QED BY <2>3, <2>4, <2>5
<1> QED BY <1>1, <1>4, <1>5, <1>7, <1>9, <1>10, <1>11, <1>12, NilNotNode DEF Shape

LEMMA RotateSorted ==
  ASSUME NEW r, NEW A, NEW B, NEW P, NEW M, NEW sub, Shape(r, A, B, P, M, sub),
         NEW K \in [Node -> Int], Sorted(A, B, K, M, sub),
         NEW x \in M, B[x] # NIL,
         NEW r2, NEW A2, NEW B2, NEW P2, Rotated(x, r, A, B, P, r2, A2, B2, P2)
  PROVE  Sorted(A2, B2, K, M, RotatedSub(x, A, B, sub))
<1> DEFINE y == B[x]
           b == A[y]
           p == P[x]
<1> HIDE DEF y, b, p
<1>1. /\ M \subseteq Node /\ x \in D /\ y \in D /\ y \in M /\ NIL \notin M /\ M \subseteq D /\ NIL \in D
      /\ sub \in [D -> SUBSET M]
  BY NilNotNode DEF Shape, At, y
<1>2. /\ x # y /\ P[y] = x /\ b \in M \cup {NIL} /\ b # x /\ b # y
      /\ p \in M \cup {NIL} /\ p # x /\ p # y
      /\ p = NIL <=> x = r
      /\ p # NIL => x # r /\ (x = A[p] \/ x = B[p]) /\ A[p] # B[p]
      /\ A[x] \in M \cup {NIL} /\ A[x] # x /\ A[x] # y
      /\ B[y] \in M \cup {NIL} /\ B[y] # x /\ B[y] # y
  BY <1>1, RotationNodes DEF y, b, p
<1>3. \A n \in M : At(n, A, B, P, M, sub)
  BY DEF Shape
<1>4. /\ \A n \in D : A2[n] = IF n = y THEN x
                              ELSE IF n = p /\ p # NIL /\ x = A[p] THEN y ELSE A[n]
      /\ \A n \in D : B2[n] = IF n = x THEN b
                              ELSE IF n = p /\ p # NIL /\ x # A[p] THEN y ELSE B[n]
  BY DEF Rotated, y, b, p
<1>5. PICK sub2 : sub2 = RotatedSub(x, A, B, sub)
  OBVIOUS
<1>7. /\ sub2[x] = {x} \cup sub[A[x]] \cup sub[b]
      /\ sub2[y] = sub[x]
      /\ \A n \in D : n # x /\ n # y => sub2[n] = sub[n]
  BY <1>1, <1>2, <1>5 DEF RotatedSub, y, b
<1>8. /\ sub[x] = {x} \cup sub[A[x]] \cup sub[y] /\ sub[y] = {y} \cup sub[b] \cup sub[B[y]]
      /\ sub[x] \subseteq Node /\ sub[y] \subseteq Node
  BY <1>1, <1>3 DEF At, y, b
<1>9. /\ \A m \in sub[A[x]] : K[m] <= K[x]
      /\ \A m \in sub[y] : K[x] <= K[m]
      /\ \A m \in sub[b] : K[m] <= K[y]
      /\ \A m \in sub[B[y]] : K[y] <= K[m]
  BY <1>1 DEF Sorted, y, b
<1>10. \A m \in sub[x] : K[m] \in Int
  BY <1>8
<1>11. (\A m \in sub2[A2[x]] : K[m] <= K[x]) /\ (\A m \in sub2[B2[x]] : K[x] <= K[m])
  <2>1. sub2[A2[x]] = sub[A[x]] /\ sub2[B2[x]] = sub[b]
    BY <1>1, <1>2, <1>4, <1>7
  <2> QED BY <1>8, <1>9, <2>1
<1>12. (\A m \in sub2[A2[y]] : K[m] <= K[y]) /\ (\A m \in sub2[B2[y]] : K[y] <= K[m])
  <2>1. A2[y] = x /\ sub2[B2[y]] = sub[B[y]]
    BY <1>1, <1>2, <1>4, <1>7
  <2>2. x \in sub[x] /\ y \in sub[x] /\ K[x] <= K[y] /\ K[x] \in Int /\ K[y] \in Int
    BY <1>8, <1>9, <1>10
  <2>3. \A m \in sub[A[x]] : K[m] <= K[y]
    BY <1>8, <1>9, <1>10, <2>2
  <2> QED BY <1>7, <1>9, <2>1, <2>2, <2>3
<1>13. ASSUME NEW n \in M, n # x, n # y
       PROVE  (\A m \in sub2[A2[n]] : K[m] <= K[n]) /\ (\A m \in sub2[B2[n]] : K[n] <= K[m])
  <2>1. At(n, A, B, P, M, sub) /\ n \in D /\ A[n] \in D /\ B[n] \in D /\ A[n] # y /\ B[n] # y
    BY <1>1, <1>2, <1>3, <1>13, NilNotNode DEF At
  <2>2. sub2[A2[n]] = sub[A[n]] /\ sub2[B2[n]] = sub[B[n]]
    <3>1. CASE n = p /\ x = A[p]
      BY <1>1, <1>2, <1>4, <1>7, <1>13, <2>1, <3>1
    <3>2. CASE n = p /\ x # A[p]
      BY <1>1, <1>2, <1>4, <1>7, <1>13, <2>1, <3>2
    <3>3. CASE n # p
      <4>1. A2[n] = A[n] /\ B2[n] = B[n] /\ A[n] # x /\ B[n] # x
        BY <1>1, <1>4, <1>13, <2>1, <3>3, NilNotNode DEF At, p
      <4> QED BY <1>7, <2>1, <4>1
    <3> QED BY <3>1, <3>2, <3>3
  <2> QED BY <2>2 DEF Sorted
<1> QED BY <1>5, <1>11, <1>12, <1>13 DEF Sorted

-----------------------------------------------------------------------------
(* The operators of the model.                                             *)

Trees == [root: D, left: [D -> W], right: [D -> W], parent: [D -> W],
          color: [D -> {"RED", "BLACK"}]]

\* The tree t of the nodes M, seen from side s.
ShapeFrom(s, t, M, sub) == Shape(t.root, t[s], t[Opposite(s)], t.parent, M, sub)

LEMMA TreeFields ==
  ASSUME NEW t \in Trees, NEW s \in Side, NEW o, o = Opposite(s)
  PROVE  /\ t.root \in D /\ t[s] \in [D -> W] /\ t[o] \in [D -> W]
         /\ t.parent \in [D -> W] /\ t.color \in [D -> {"RED", "BLACK"}]
         /\ o \in Side /\ Opposite(o) = s /\ o # s
         /\ t.left = t["left"] /\ t.right = t["right"]
BY DEF Trees, Side, Opposite

\* What an assignment to one field of a node changes.
Upd(f, n, v) == [f EXCEPT ![n] = v]

\* u is t after an assignment to a child pointer, the parent pointer or the color of n.
ChildPut(t, s, n, v, u) ==
  /\ u \in Trees /\ u.root = t.root /\ u.color = t.color /\ u.parent = t.parent
  /\ u[s] = Upd(t[s], n, v) /\ u[Opposite(s)] = t[Opposite(s)]

ParentPut(t, n, v, u) ==
  /\ u \in Trees /\ u.root = t.root /\ u.color = t.color
  /\ u.parent = Upd(t.parent, n, v) /\ \A s \in Side : u[s] = t[s]

Painted(t, n, c, u) ==
  /\ u \in Trees /\ u.root = t.root /\ u.parent = t.parent
  /\ u.color = Upd(t.color, n, c) /\ \A s \in Side : u[s] = t[s]

LEMMA PutChild ==
  ASSUME NEW t \in Trees, NEW s \in Side, NEW n \in D, NEW v \in W
  PROVE  ChildPut(t, s, n, v, Put(t, s, n, v))
<1>1. CASE s = "left"
  BY <1>1 DEF Trees, Opposite, Put, Upd, ChildPut
<1>2. CASE s = "right"
  BY <1>2 DEF Trees, Opposite, Put, Upd, ChildPut
<1> QED BY <1>1, <1>2 DEF Side

LEMMA PutParent ==
  ASSUME NEW t \in Trees, NEW n \in D, NEW v \in W
  PROVE  ParentPut(t, n, v, Put(t, "parent", n, v))
BY DEF Trees, Side, Put, Upd, ParentPut

LEMMA PaintColor ==
  ASSUME NEW t \in Trees, NEW n \in D, NEW c \in {"RED", "BLACK"}
  PROVE  Painted(t, n, c, Paint(t, n, c))
BY DEF Trees, Side, Put, Paint, Upd, Painted

\* u is t after the pointer to x, a child of its parent or the root, has become y.
Replaced(t, s, x, y, u) ==
  LET o == Opposite(s)
      p == t.parent[x]
  IN  /\ u \in Trees /\ u.color = t.color /\ u.parent = t.parent
      /\ u.root = IF p = NIL THEN y ELSE t.root
      /\ u[s] = IF p # NIL /\ x = t[s][p] THEN Upd(t[s], p, y) ELSE t[s]
      /\ u[o] = IF p # NIL /\ x # t[s][p] THEN Upd(t[o], p, y) ELSE t[o]

LEMMA ReplaceView ==
  ASSUME NEW t \in Trees, NEW s \in Side, NEW o, o = Opposite(s), NEW x \in D, NEW y \in D,
         NEW p \in D, p = t.parent[x],
         p # NIL => (x = t[s][p] \/ x = t[o][p]) /\ t[s][p] # t[o][p]
  PROVE  Replaced(t, s, x, y, Replace(t, x, y))
<1> DEFINE u == Replace(t, x, y)
<1>1. CASE p = NIL
  <2>1. u = [t EXCEPT !.root = y]
    BY <1>1 DEF Replace
  <2> HIDE DEF u
  <2>2. u \in Trees /\ u.color = t.color /\ u.parent = t.parent /\ u.root = y
    BY <2>1 DEF Trees
  <2>3. u[s] = t[s] /\ u[o] = t[o]
    BY <2>1 DEF Trees, Side, Opposite
  <2>4. Replaced(t, s, x, y, u)
    BY <1>1, <2>2, <2>3 DEF Replaced
  <2> QED BY <2>4 DEF u
<1>2. CASE p # NIL
  <2>1. u = Put(t, SideOf(t, x), p, y)
    BY <1>2 DEF Replace
  <2> HIDE DEF u
  <2>2. SideOf(t, x) = IF x = t[s][p] THEN s ELSE o
    BY <1>2 DEF SideOf, Side, Opposite
  <2>3. y \in W /\ o \in Side /\ s = Opposite(o)
    BY NilNotNode DEF Side, Opposite
  <2>4. CASE x = t[s][p]
    <3>1. u = Put(t, s, p, y)
      BY <2>1, <2>2, <2>4
    <3>2. ChildPut(t, s, p, y, u)
      BY <2>3, <3>1, PutChild
    <3>3. Replaced(t, s, x, y, u)
      BY <1>2, <2>4, <3>2 DEF Replaced, ChildPut
    <3> QED BY <3>3 DEF u
  <2>5. CASE x # t[s][p]
    <3>1. u = Put(t, o, p, y)
      BY <2>1, <2>2, <2>5
    <3>2. ChildPut(t, o, p, y, u)
      BY <2>3, <3>1, PutChild
    <3>3. Replaced(t, s, x, y, u)
      BY <1>2, <2>3, <2>5, <3>2 DEF Replaced, ChildPut
    <3> QED BY <3>3 DEF u
  <2> QED BY <2>4, <2>5
<1> QED BY <1>1, <1>2

\* u is t after a rotation at x towards side s.
RotatedFrom(s, x, t, u) ==
  /\ u \in Trees /\ u.color = t.color
  /\ Rotated(x, t.root, t[s], t[Opposite(s)], t.parent,
             u.root, u[s], u[Opposite(s)], u.parent)

LEMMA RotateView ==
  ASSUME NEW t \in Trees, NEW s \in Side, NEW M, NEW sub,
         ShapeFrom(s, t, M, sub), NEW x \in M, t[Opposite(s)][x] # NIL
  PROVE  RotatedFrom(s, x, t, rbtree_rotate(t, s, x))
<1> DEFINE o == Opposite(s)
           A == t[s]
           B == t[o]
           P == t.parent
           y == B[x]
           b == A[y]
           p == P[x]
           t1 == Put(t, o, x, b)
           t2 == Adopt(t1, x, b)
           t3 == Put(t2, "parent", y, p)
           t4 == Replace(t3, x, y)
           t5 == Put(t4, s, y, x)
           u == Put(t5, "parent", x, y)
<1>u. rbtree_rotate(t, s, x) = u
  BY Zenon DEF rbtree_rotate
<1> HIDE DEF o, t1, t2, t3, t4, t5, u
<1>0. A \in [D -> W] /\ B \in [D -> W] /\ P \in [D -> W] /\ t.root \in D
      /\ o \in Side /\ Opposite(o) = s
  BY TreeFields DEF o
<1>1. Shape(t.root, A, B, P, M, sub)
  BY DEF ShapeFrom, o
<1> HIDE DEF A, B, P, y, b, p
<1>2. /\ M \subseteq Node /\ x \in D /\ y \in D /\ y \in M /\ NIL \notin M /\ M \subseteq D /\ NIL \in D
      /\ D \subseteq W
  BY <1>1, NilNotNode DEF Shape, At, y, B, o
<1>3. /\ x # y /\ b \in M \cup {NIL} /\ b # x /\ b # y
      /\ p \in M \cup {NIL} /\ p # x /\ p # y /\ (b # NIL => p # b)
      /\ p # NIL => (x = A[p] \/ x = B[p]) /\ A[p] # B[p]
  BY <1>1, <1>2, RotationNodes DEF y, b, p
<1>d. x \in D /\ y \in D /\ b \in D /\ p \in D /\ x \in W /\ y \in W /\ b \in W /\ p \in W
  BY <1>2, <1>3
<1>10. /\ t1 \in Trees /\ t1.root = t.root /\ t1.color = t.color /\ t1.parent = P
       /\ t1[o] = Upd(B, x, b) /\ t1[s] = A
  <2>1. ChildPut(t, o, x, b, t1)
    BY <1>0, <1>d, PutChild DEF t1
  <2> QED BY <1>0, <2>1 DEF ChildPut, A, B, P
<1>11. /\ t2 \in Trees /\ t2.root = t.root /\ t2.color = t.color
       /\ t2.parent = IF b = NIL THEN P ELSE Upd(P, b, x)
       /\ t2[o] = Upd(B, x, b) /\ t2[s] = A
  <2>1. CASE b = NIL
    BY <1>10, <2>1 DEF t2, Adopt
  <2>2. CASE b # NIL
    <3>1. ParentPut(t1, b, x, t2)
      BY <1>d, <1>10, <2>2, PutParent DEF t2, Adopt
    <3> QED BY <1>0, <1>10, <2>2, <3>1 DEF ParentPut
  <2> QED BY <2>1, <2>2
<1>12. /\ t3 \in Trees /\ t3.root = t.root /\ t3.color = t.color
       /\ t3.parent = Upd(t2.parent, y, p)
       /\ t3[o] = Upd(B, x, b) /\ t3[s] = A
  <2>1. ParentPut(t2, y, p, t3)
    BY <1>d, <1>11, PutParent DEF t3
  <2> QED BY <1>0, <1>11, <2>1 DEF ParentPut
<1>p. t2.parent \in [D -> W] /\ t3.parent \in [D -> W] /\ t3[o] \in [D -> W]
  BY <1>0, <1>11, <1>12, TreeFields
<1>13. /\ t4 \in Trees /\ t4.color = t.color /\ t4.parent = t3.parent
       /\ t4.root = IF p = NIL THEN y ELSE t.root
       /\ t4[s] = IF p # NIL /\ x = A[p] THEN Upd(A, p, y) ELSE A
       /\ t4[o] = IF p # NIL /\ x # A[p] THEN Upd(t3[o], p, y) ELSE t3[o]
  <2>1. p = t3.parent[x]
    <3>1. t2.parent[x] = p
      BY <1>0, <1>d, <1>3, <1>11 DEF p, Upd
    <3> QED BY <1>d, <1>3, <1>12, <1>p, <3>1 DEF Upd
  <2>2. p # NIL => (x = t3[s][p] \/ x = t3[o][p]) /\ t3[s][p] # t3[o][p]
    <3>1. t3[o][p] = B[p]
      BY <1>0, <1>d, <1>3, <1>12 DEF Upd
    <3> QED BY <1>3, <1>12, <3>1
  <2>3. Replaced(t3, s, x, y, t4)
    BY <1>d, <1>12, <2>1, <2>2, ReplaceView DEF t4, o
  <2> QED BY <1>12, <2>1, <2>3 DEF Replaced, o
<1>14. /\ t5 \in Trees /\ t5.color = t.color /\ t5.parent = t3.parent /\ t5.root = t4.root
       /\ t5[s] = Upd(t4[s], y, x) /\ t5[o] = t4[o]
  <2>1. ChildPut(t4, s, y, x, t5)
    BY <1>d, <1>13, PutChild DEF t5
  <2> QED BY <1>13, <2>1 DEF ChildPut, o
<1>15. /\ u \in Trees /\ u.color = t.color /\ u.root = t4.root
       /\ u[s] = t5[s] /\ u[o] = t5[o] /\ u.parent = Upd(t3.parent, x, y)
  <2>1. ParentPut(t5, x, y, u)
    BY <1>d, <1>14, PutParent DEF u
  <2> QED BY <1>0, <1>14, <2>1 DEF ParentPut
<1>16. /\ u[s] \in [D -> W] /\ u[o] \in [D -> W] /\ u.parent \in [D -> W]
       /\ t4[s] \in [D -> W] /\ t4[o] \in [D -> W]
  BY <1>0, <1>13, <1>15, TreeFields
<1>17. ASSUME NEW n \in D
       PROVE u[s][n] = IF n = y THEN x
                       ELSE IF n = p /\ p # NIL /\ x = A[p] THEN y ELSE A[n]
  <2>1. u[s][n] = IF n = y THEN x ELSE t4[s][n]
    BY <1>d, <1>14, <1>15, <1>16 DEF Upd
  <2>2. t4[s][n] = IF n = p /\ p # NIL /\ x = A[p] THEN y ELSE A[n]
    BY <1>0, <1>d, <1>13 DEF Upd
  <2> QED BY <2>1, <2>2
<1>18. ASSUME NEW n \in D
       PROVE u[o][n] = IF n = x THEN b
                       ELSE IF n = p /\ p # NIL /\ x # A[p] THEN y ELSE B[n]
  <2>1. t3[o][n] = IF n = x THEN b ELSE B[n]
    BY <1>0, <1>d, <1>12 DEF Upd
  <2>2. t4[o][n] = IF n = p /\ p # NIL /\ x # A[p] THEN y ELSE t3[o][n]
    BY <1>p, <1>d, <1>13 DEF Upd
  <2> QED BY <1>3, <1>14, <1>15, <2>1, <2>2
<1>19. ASSUME NEW n \in D
       PROVE u.parent[n] = IF n = y THEN p ELSE IF n = x THEN y
                           ELSE IF n = b /\ b # NIL THEN x ELSE P[n]
  <2>1. t2.parent[n] = IF n = b /\ b # NIL THEN x ELSE P[n]
    BY <1>0, <1>d, <1>11 DEF Upd
  <2>2. t3.parent[n] = IF n = y THEN p ELSE t2.parent[n]
    BY <1>p, <1>d, <1>12 DEF Upd
  <2>3. u.parent[n] = IF n = x THEN y ELSE t3.parent[n]
    BY <1>p, <1>d, <1>15 DEF Upd
  <2> QED BY <1>3, <2>1, <2>2, <2>3
<1>20. Rotated(x, t.root, A, B, P, u.root, u[s], u[o], u.parent)
  BY <1>13, <1>15, <1>16, <1>17, <1>18, <1>19 DEF Rotated, y, b, p
<1> QED BY <1>u, <1>15, <1>20 DEF A, B, P, o, RotatedFrom

-----------------------------------------------------------------------------
(* Colors.                                                                 *)

Color == {"RED", "BLACK"}
Black(c) == IF c = "BLACK" THEN 1 ELSE 0

\* bh[n] is the number of black nodes on any way from n down, n included.
HeightAt(n, A, B, C, bh) ==
  bh[n] = bh[A[n]] + Black(C[n]) /\ bh[n] = bh[B[n]] + Black(C[n])

\* A red node has black children, but for z.
ColorAt(n, A, B, C, z) ==
  C[n] = "RED" => (A[n] = z \/ C[A[n]] = "BLACK") /\ (B[n] = z \/ C[B[n]] = "BLACK")

ColorTypes(C, bh) ==
  C \in [D -> Color] /\ bh \in [D -> Nat] /\ C[NIL] = "BLACK" /\ bh[NIL] = 0

\* The colors of a tree, correct but perhaps for a red z under a red parent or at the
\* root.
Colored(r, A, B, C, M, bh, z) ==
  /\ ColorTypes(C, bh)
  /\ C[r] = "BLACK" \/ r = z
  /\ \A n \in M : HeightAt(n, A, B, C, bh) /\ ColorAt(n, A, B, C, z)

\* To a node outside a rotation the two sides look as before, when y looks as x did.
LEMMA RotateOthers ==
  ASSUME NEW r, NEW A, NEW B, NEW P, NEW M, NEW sub, Shape(r, A, B, P, M, sub),
         NEW x \in M, B[x] # NIL,
         NEW r2, NEW A2, NEW B2, NEW P2, Rotated(x, r, A, B, P, r2, A2, B2, P2),
         NEW f, NEW f2, f2[B[x]] = f[x], \A n \in D : n # x /\ n # B[x] => f2[n] = f[n],
         NEW n \in M, n # x, n # B[x]
  PROVE  f2[n] = f[n] /\ f2[A2[n]] = f[A[n]] /\ f2[B2[n]] = f[B[n]]
<1> DEFINE y == B[x]
           p == P[x]
<1>0. n \in D /\ x \in D /\ y \in M /\ y \in D /\ NIL \in D /\ NIL \notin M
  BY NilNotNode DEF Shape, At
<1>1. /\ p \in M \cup {NIL} /\ P[y] = x
      /\ p # NIL => (x = A[p] \/ x = B[p]) /\ A[p] # B[p]
  BY <1>0, RotationNodes
<1> HIDE DEF y, p
<1>2. /\ A2[n] = IF n = y THEN x ELSE IF n = p /\ p # NIL /\ x = A[p] THEN y ELSE A[n]
      /\ B2[n] = IF n = x THEN A[y] ELSE IF n = p /\ p # NIL /\ x # A[p] THEN y ELSE B[n]
  BY <1>0 DEF Rotated, y, p
<1>3. /\ A[n] \in M \cup {NIL} /\ B[n] \in M \cup {NIL}
      /\ A[n] # NIL => P[A[n]] = n
      /\ B[n] # NIL => P[B[n]] = n
  BY DEF Shape, At
<1>4. A[n] \in D /\ B[n] \in D /\ A[n] # y /\ B[n] # y
  BY <1>0, <1>1, <1>3, NilNotNode DEF Shape, y
<1>5. CASE n = p /\ x = A[p]
  BY <1>0, <1>1, <1>2, <1>4, <1>5 DEF y
<1>6. CASE n = p /\ x # A[p]
  BY <1>0, <1>1, <1>2, <1>4, <1>6 DEF y
<1>7. CASE n # p
  <2>1. A[n] # x /\ B[n] # x
    BY <1>0, <1>3, <1>7 DEF p
  <2> QED BY <1>0, <1>2, <1>4, <1>7, <2>1 DEF y
<1> QED BY <1>5, <1>6, <1>7

\* So the colors around it stay correct.
LEMMA RotateColors ==
  ASSUME NEW r, NEW A, NEW B, NEW P, NEW M, NEW sub, Shape(r, A, B, P, M, sub),
         NEW x \in M, B[x] # NIL,
         NEW r2, NEW A2, NEW B2, NEW P2, Rotated(x, r, A, B, P, r2, A2, B2, P2),
         NEW C, NEW C2, C2[B[x]] = C[x], \A n \in D : n # x /\ n # B[x] => C2[n] = C[n],
         NEW bh, NEW bh2, bh2[B[x]] = bh[x], \A n \in D : n # x /\ n # B[x] => bh2[n] = bh[n],
         NEW n \in M, n # x, n # B[x]
  PROVE  /\ HeightAt(n, A, B, C, bh) => HeightAt(n, A2, B2, C2, bh2)
         /\ ColorAt(n, A, B, C, NIL) /\ C[NIL] = "BLACK" => ColorAt(n, A2, B2, C2, NIL)
<1>1. C2[n] = C[n] /\ C2[A2[n]] = C[A[n]] /\ C2[B2[n]] = C[B[n]]
  BY RotateOthers
<1>2. bh2[n] = bh[n] /\ bh2[A2[n]] = bh[A[n]] /\ bh2[B2[n]] = bh[B[n]]
  BY RotateOthers
<1> QED BY <1>1, <1>2 DEF HeightAt, ColorAt

LEMMA MirrorColored ==
  ASSUME NEW r, NEW A, NEW B, NEW C, NEW M, NEW bh, NEW z, Colored(r, A, B, C, M, bh, z)
  PROVE  Colored(r, B, A, C, M, bh, z)
BY DEF Colored, HeightAt, ColorAt

\* The nodes above a red z under a red parent.
LEMMA RedParent ==
  ASSUME NEW r, NEW A, NEW B, NEW P, NEW M, NEW sub, Shape(r, A, B, P, M, sub),
         NEW C, NEW bh, NEW z \in M, Colored(r, A, B, C, M, bh, z),
         NEW p, p = P[z], C[p] = "RED", NEW g, g = P[p]
  PROVE  /\ p \in M /\ g \in M /\ z # r /\ p # r /\ C[g] = "BLACK"
         /\ z # p /\ p # g /\ z # g
         /\ z = A[p] \/ z = B[p]
         /\ p = A[g] \/ p = B[g]
         /\ A[g] # B[g] /\ A[p] # B[p]
         /\ A[g] # z /\ B[g] # z
         /\ z \in D /\ p \in D /\ g \in D
<1>1. C[NIL] = "BLACK" /\ (C[r] = "BLACK" \/ r = z) /\ NIL \in D
  BY NilNotNode DEF Colored, ColorTypes
<1>2. /\ p \in M \cup {NIL} /\ (p = NIL <=> z = r)
      /\ z # r => p # z /\ (z = A[p] \/ z = B[p]) /\ A[p] # B[p]
  BY Parents
<1>3. p \in M /\ z # r /\ p # r
  BY <1>1, <1>2
<1>4. g \in M /\ p # g /\ (p = A[g] \/ p = B[g]) /\ A[g] # B[g]
  BY <1>3, Parents
<1>5. z # g
  <2>1. p \notin sub[z] \/ z = r
    BY Parents
  <2>2. CASE z = g
    <3>1. p \in sub[z]
      <4>1. At(z, A, B, P, M, sub)
        BY DEF Shape
      <4>2. p \in sub[p]
        BY <1>3, Parents
      <4> QED BY <1>4, <2>2, <4>1, <4>2 DEF At
    <3> QED BY <1>3, <2>1, <3>1
  <2> QED BY <2>2
<1>6. C[g] = "BLACK"
  <2>1. ColorAt(g, A, B, C, z) /\ C[g] \in Color
    BY <1>4, NilNotNode DEF Colored, ColorTypes, Shape
  <2> QED BY <1>2, <1>3, <1>4, <2>1 DEF ColorAt, Color
<1>7. A[g] # z /\ B[g] # z
  <2>1. At(g, A, B, P, M, sub) /\ z # NIL
    BY <1>4, NilNotNode DEF Shape
  <2> QED BY <1>4, <2>1 DEF At
<1> QED BY <1>2, <1>3, <1>4, <1>5, <1>6, <1>7, NilNotNode DEF Shape

-----------------------------------------------------------------------------
(* The cases of the fix-up after an insertion.                             *)

\* Only the parent of z has z as a child.
LEMMA Exempt ==
  ASSUME NEW r, NEW A, NEW B, NEW P, NEW M, NEW sub, Shape(r, A, B, P, M, sub),
         NEW C, C[NIL] = "BLACK", NEW z, NEW n \in M, ColorAt(n, A, B, C, z),
         z = NIL \/ P[z] # n
  PROVE  ColorAt(n, A, B, C, NIL)
<1>1. At(n, A, B, P, M, sub)
  BY DEF Shape
<1> QED BY <1>1 DEF ColorAt, At

\* The colors are correct, but perhaps for z.
Colorable(r, A, B, C, M, z) == \E bh : Colored(r, A, B, C, M, bh, z)

\* The red of a and b moves to g.
RedMovedUp(g, a, b, C, C2) ==
  /\ C2 \in [D -> Color]
  /\ \A n \in D : C2[n] = IF n = g THEN "RED" ELSE IF n = a \/ n = b THEN "BLACK" ELSE C[n]

\* Case 1: the red moves from the parent and the uncle to the grandparent.
LEMMA InsertRedUncle ==
  ASSUME NEW r, NEW A, NEW B, NEW P, NEW M, NEW sub, Shape(r, A, B, P, M, sub),
         NEW C, NEW bh, NEW z \in M, Colored(r, A, B, C, M, bh, z),
         NEW p, p = P[z], C[p] = "RED", NEW g, g = P[p],
         C[A[g]] = "RED", C[B[g]] = "RED",
         NEW C2, RedMovedUp(g, A[g], B[g], C, C2)
  PROVE  /\ Colorable(r, A, B, C2, M, g)
         /\ g \in M /\ sub[z] \subseteq sub[g] /\ g \notin sub[z]
<1>c. /\ C2 \in [D -> Color]
      /\ \A n \in D : C2[n] = IF n = g THEN "RED"
                              ELSE IF n = A[g] \/ n = B[g] THEN "BLACK" ELSE C[n]
  BY DEF RedMovedUp
<1> DEFINE a == A[g]
           b == B[g]
           bh2 == [n \in D |-> IF n = a \/ n = b THEN bh[n] + 1 ELSE bh[n]]
<1>1. /\ p \in M /\ g \in M /\ z # r /\ p # r /\ C[g] = "BLACK" /\ z # p /\ p # g /\ z # g
      /\ a # b /\ a # z /\ b # z /\ z \in D /\ p \in D /\ g \in D
      /\ z = A[p] \/ z = B[p]
      /\ p = a \/ p = b
  BY RedParent
<1>2. /\ ColorTypes(C, bh) /\ (C[r] = "BLACK" \/ r = z)
      /\ \A n \in M : HeightAt(n, A, B, C, bh) /\ ColorAt(n, A, B, C, z)
  BY DEF Colored
<1>3. At(g, A, B, P, M, sub) /\ NIL \notin M /\ M \subseteq D /\ NIL \in D
  BY <1>1, NilNotNode DEF Shape
<1>4. a \in M /\ b \in M /\ P[a] = g /\ P[b] = g /\ a # g /\ b # g
  <2>1. a # NIL /\ b # NIL
    BY <1>2 DEF ColorTypes
  <2>2. a \in M /\ b \in M /\ P[a] = g /\ P[b] = g
    BY <1>3, <2>1 DEF At
  <2> QED BY <1>1, <1>2, <2>2
<1> HIDE DEF bh2
<1>5. ColorTypes(C2, bh2)
  BY <1>c, <1>2, <1>3, <1>4, <1>1 DEF ColorTypes, bh2
<1>6. C2[r] = "BLACK" \/ r = g
  <2>1. r \in M /\ P[r] = NIL
    BY <1>1, Parents
  <2> QED BY <1>c, <1>1, <1>2, <1>3, <1>4, <2>1
<1>7. ASSUME NEW n \in M, n # g, n # a, n # b
      PROVE  HeightAt(n, A, B, C2, bh2) /\ ColorAt(n, A, B, C2, g)
  <2>1. /\ A[n] \in M \cup {NIL} /\ B[n] \in M \cup {NIL}
        /\ A[n] # NIL => P[A[n]] = n
        /\ B[n] # NIL => P[B[n]] = n
    BY DEF Shape, At
  <2>2. A[n] # a /\ A[n] # b /\ B[n] # a /\ B[n] # b /\ A[n] \in D /\ B[n] \in D /\ n \in D
    BY <1>3, <1>4, <1>7, <2>1
  <2>3. bh2[n] = bh[n] /\ bh2[A[n]] = bh[A[n]] /\ bh2[B[n]] = bh[B[n]] /\ C2[n] = C[n]
    BY <1>c, <1>7, <2>2 DEF bh2
  <2>4. A[n] = g \/ C2[A[n]] = C[A[n]]
    BY <1>c, <2>2
  <2>5. B[n] = g \/ C2[B[n]] = C[B[n]]
    BY <1>c, <2>2
  <2>6. ColorAt(n, A, B, C, NIL) /\ HeightAt(n, A, B, C, bh) /\ C[NIL] = "BLACK"
    BY <1>1, <1>2, <1>4, <1>7, Exempt DEF ColorTypes
  <2> QED BY <2>3, <2>4, <2>5, <2>6 DEF ColorAt, HeightAt
<1>8. HeightAt(g, A, B, C2, bh2) /\ ColorAt(g, A, B, C2, g)
  <2>1. HeightAt(g, A, B, C, bh) /\ bh[a] \in Nat /\ bh[b] \in Nat
    BY <1>1, <1>2, <1>3, <1>4 DEF ColorTypes
  <2>2. bh2[g] = bh[g] /\ bh2[a] = bh[a] + 1 /\ bh2[b] = bh[b] + 1
        /\ C2[g] = "RED" /\ C2[a] = "BLACK" /\ C2[b] = "BLACK"
    BY <1>c, <1>1, <1>3, <1>4 DEF bh2
  <2> QED BY <1>1, <2>1, <2>2 DEF HeightAt, ColorAt, Black
<1>9. ASSUME NEW n \in M, n = a \/ n = b
      PROVE  HeightAt(n, A, B, C2, bh2) /\ ColorAt(n, A, B, C2, g)
  <2>1. /\ A[n] \in M \cup {NIL} /\ B[n] \in M \cup {NIL}
        /\ A[n] # NIL => P[A[n]] = n
        /\ B[n] # NIL => P[B[n]] = n
    BY DEF Shape, At
  <2>2. A[n] # a /\ A[n] # b /\ B[n] # a /\ B[n] # b /\ A[n] \in D /\ B[n] \in D /\ n \in D
    BY <1>3, <1>4, <1>9, <2>1
  <2>3. /\ bh2[n] = bh[n] + 1 /\ bh2[A[n]] = bh[A[n]] /\ bh2[B[n]] = bh[B[n]] /\ C2[n] = "BLACK"
        /\ bh[A[n]] \in Nat /\ bh[B[n]] \in Nat
    BY <1>c, <1>2, <1>4, <1>9, <2>2 DEF bh2, ColorTypes
  <2>4. HeightAt(n, A, B, C, bh) /\ C[n] = "RED"
    BY <1>2, <1>9
  <2> QED BY <2>3, <2>4 DEF HeightAt, ColorAt, Black
<1>10. Colored(r, A, B, C2, M, bh2, g)
  BY <1>5, <1>6, <1>7, <1>8, <1>9 DEF Colored
<1>11. sub[z] \subseteq sub[g] /\ g \notin sub[z]
  <2>1. At(p, A, B, P, M, sub)
    BY <1>1 DEF Shape
  <2>2. sub[z] \subseteq sub[p]
    BY <1>1, <2>1 DEF At
  <2> QED BY <1>1, <1>3, <2>2 DEF At
<1> QED BY <1>1, <1>10, <1>11 DEF Colorable

\* Case 2: z, on the B side of its parent p, takes the place of p.
LEMMA InsertRotateOut ==
  ASSUME NEW r, NEW A, NEW B, NEW P, NEW M, NEW sub, Shape(r, A, B, P, M, sub),
         NEW C, NEW bh, NEW z \in M, Colored(r, A, B, C, M, bh, z),
         NEW p, P[z] = p, C[p] = "RED", C[z] = "RED", NEW g, P[p] = g, B[p] = z, A[g] = p,
         NEW r2, NEW A2, NEW B2, NEW P2, Rotated(p, r, A, B, P, r2, A2, B2, P2)
  PROVE  /\ Colored(r2, A2, B2, C, M, bh, p)
         /\ P2[p] = z /\ P2[z] = g /\ A2[g] = z /\ A2[z] = p /\ B2[g] = B[g]
<1>1. /\ p \in M /\ g \in M /\ z # r /\ p # r /\ C[g] = "BLACK" /\ z # p /\ p # g /\ z # g
      /\ A[p] # B[p] /\ z \in D /\ p \in D /\ g \in D
  BY RedParent
<1>2. /\ ColorTypes(C, bh) /\ (C[r] = "BLACK" \/ r = z)
      /\ \A n \in M : HeightAt(n, A, B, C, bh) /\ ColorAt(n, A, B, C, z)
  BY DEF Colored
<1>3. NIL \notin M /\ M \subseteq D /\ NIL \in D /\ g # NIL
  BY <1>1, NilNotNode DEF Shape
<1>4. At(p, A, B, P, M, sub) /\ At(z, A, B, P, M, sub)
  BY <1>1 DEF Shape
<1>5. /\ A[z] # p /\ A[z] # z /\ B[z] # p /\ B[z] # z /\ A[p] # p /\ A[p] # z /\ A[z] \in D
      /\ B[z] \in D /\ A[p] \in D
  <2>1. A[z] \in M \cup {NIL} /\ B[z] \in M \cup {NIL} /\ A[p] \in M \cup {NIL}
    BY <1>4 DEF At
  <2>2. A[z] # p /\ A[z] # z /\ B[z] # p /\ B[z] # z /\ A[p] # p /\ A[p] # z
    BY <1>1, RotationNodes
  <2> QED BY <1>3, <2>1, <2>2
<1>6. /\ r2 = r
      /\ A2[z] = p /\ A2[p] = A[p] /\ A2[g] = z
      /\ B2[z] = B[z] /\ B2[p] = A[z] /\ B2[g] = B[g]
      /\ P2[p] = z /\ P2[z] = g
  BY <1>1, <1>3 DEF Rotated
<1>7. /\ bh[p] = bh[z] /\ bh[A[p]] = bh[p] /\ bh[A[z]] = bh[z] /\ bh[B[z]] = bh[z]
      /\ C[A[p]] = "BLACK" /\ C[A[z]] = "BLACK" /\ C[B[z]] = "BLACK"
  <2>1. HeightAt(p, A, B, C, bh) /\ HeightAt(z, A, B, C, bh) /\ ColorAt(p, A, B, C, z)
        /\ ColorAt(z, A, B, C, z)
    BY <1>1, <1>2
  <2>2. /\ bh[p] \in Nat /\ bh[z] \in Nat /\ bh[A[p]] \in Nat /\ bh[A[z]] \in Nat
        /\ bh[B[z]] \in Nat
    BY <1>1, <1>2, <1>5 DEF ColorTypes
  <2>3. /\ bh[p] = bh[z] /\ bh[A[p]] = bh[p] /\ bh[A[z]] = bh[z] /\ bh[B[z]] = bh[z]
    BY <2>1, <2>2 DEF HeightAt, Black
  <2> QED BY <1>5, <2>1, <2>3 DEF ColorAt
<1>8. ASSUME NEW n \in M, n # p, n # z
      PROVE  HeightAt(n, A2, B2, C, bh) /\ ColorAt(n, A2, B2, C, p)
  <2>1. HeightAt(n, A, B, C, bh) /\ ColorAt(n, A, B, C, NIL) /\ C[NIL] = "BLACK"
    BY <1>2, <1>8, Exempt DEF ColorTypes
  <2>2. B[p] # NIL /\ C[B[p]] = C[p] /\ bh[B[p]] = bh[p]
    BY <1>3, <1>7
  <2>3. C[A2[n]] = C[A[n]] /\ C[B2[n]] = C[B[n]]
    BY <1>1, <1>8, <2>2, RotateOthers
  <2>4. bh[A2[n]] = bh[A[n]] /\ bh[B2[n]] = bh[B[n]]
    BY <1>1, <1>8, <2>2, RotateOthers
  <2> QED BY <2>1, <2>3, <2>4 DEF HeightAt, ColorAt
<1>9. /\ HeightAt(p, A2, B2, C, bh) /\ ColorAt(p, A2, B2, C, p)
      /\ HeightAt(z, A2, B2, C, bh) /\ ColorAt(z, A2, B2, C, p)
  <2>1. bh[p] \in Nat /\ bh[z] \in Nat
    BY <1>1, <1>2 DEF ColorTypes
  <2> QED BY <1>6, <1>7, <2>1 DEF HeightAt, ColorAt, Black
<1>10. C[r2] = "BLACK"
  BY <1>1, <1>2, <1>6
<1> QED BY <1>2, <1>6, <1>8, <1>9, <1>10 DEF Colored

\* The colors are correct, and the parent of z is black.
FixedAt(r, A, B, P, C, M, z) ==
  Colorable(r, A, B, C, M, z) /\ C[P[z]] = "BLACK"

\* Case 3, seen from the other side: the parent p, on the B side, takes the place of
\* the grandparent g.
LEMMA InsertRaiseParent ==
  ASSUME NEW r, NEW A, NEW B, NEW P, NEW M, NEW sub, Shape(r, A, B, P, M, sub),
         NEW C, NEW bh, NEW z \in M, Colored(r, A, B, C, M, bh, z),
         NEW p, P[z] = p, C[p] = "RED", NEW g, P[p] = g, B[p] = z, B[g] = p,
         C[A[g]] = "BLACK",
         NEW C2, RedMovedUp(g, p, p, C, C2),
         NEW r2, NEW A2, NEW B2, NEW P2, Rotated(g, r, A, B, P, r2, A2, B2, P2)
  PROVE  FixedAt(r2, A2, B2, P2, C2, M, z)
<1>c. /\ C2 \in [D -> Color]
      /\ \A n \in D : C2[n] = IF n = g THEN "RED" ELSE IF n = p THEN "BLACK" ELSE C[n]
  BY DEF RedMovedUp
<1> DEFINE bh2 == [n \in D |-> IF n = g THEN bh[p] ELSE IF n = p THEN bh[g] ELSE bh[n]]
<1>1. /\ p \in M /\ g \in M /\ z # r /\ p # r /\ C[g] = "BLACK" /\ z # p /\ p # g /\ z # g
      /\ A[p] # B[p] /\ A[g] # B[g] /\ z \in D /\ p \in D /\ g \in D
  BY RedParent
<1>2. /\ ColorTypes(C, bh) /\ (C[r] = "BLACK" \/ r = z)
      /\ \A n \in M : HeightAt(n, A, B, C, bh) /\ ColorAt(n, A, B, C, z)
  BY DEF Colored
<1>3. NIL \notin M /\ M \subseteq D /\ NIL \in D /\ g # NIL /\ p # NIL
  BY <1>1, NilNotNode DEF Shape
<1>4. At(p, A, B, P, M, sub) /\ At(g, A, B, P, M, sub)
  BY <1>1 DEF Shape
<1>5. /\ A[p] # p /\ A[p] # g /\ A[g] # p /\ A[g] # g /\ A[p] \in D /\ A[g] \in D
  <2>1. A[p] \in M \cup {NIL} /\ A[g] \in M \cup {NIL}
    BY <1>4 DEF At
  <2>2. A[p] # p /\ A[p] # g /\ A[g] # p /\ A[g] # g
    BY <1>1, RotationNodes
  <2> QED BY <1>3, <2>1, <2>2
<1>6. /\ A2[p] = g /\ A2[g] = A[g] /\ B2[p] = z /\ B2[g] = A[p] /\ P2[z] = p
  <2>1. P[g] # p /\ P[g] # g
    BY <1>1, RotationNodes
  <2> QED BY <1>1, <1>3, <1>5, <2>1 DEF Rotated
<1> HIDE DEF bh2
<1>7. /\ bh[g] = bh[p] + 1 /\ bh[A[g]] = bh[p] /\ bh[A[p]] = bh[p] /\ bh[z] = bh[p]
      /\ C[A[p]] = "BLACK" /\ bh[p] \in Nat
  <2>1. HeightAt(p, A, B, C, bh) /\ HeightAt(g, A, B, C, bh) /\ ColorAt(p, A, B, C, z)
    BY <1>1, <1>2
  <2>2. bh[p] \in Nat /\ bh[z] \in Nat /\ bh[A[p]] \in Nat /\ bh[A[g]] \in Nat /\ bh[g] \in Nat
    BY <1>1, <1>2, <1>5 DEF ColorTypes
  <2>3. bh[g] = bh[p] + 1 /\ bh[A[g]] = bh[p] /\ bh[A[p]] = bh[p] /\ bh[z] = bh[p]
    BY <1>1, <2>1, <2>2 DEF HeightAt, Black
  <2> QED BY <1>1, <2>1, <2>2, <2>3 DEF ColorAt
<1>8. ColorTypes(C2, bh2)
  BY <1>c, <1>1, <1>2, <1>3 DEF ColorTypes, bh2
<1>9. /\ C2[p] = C[g] /\ \A n \in D : n # g /\ n # p => C2[n] = C[n]
  BY <1>c, <1>1
<1>10. /\ bh2[p] = bh[g] /\ \A n \in D : n # g /\ n # p => bh2[n] = bh[n]
  BY <1>1 DEF bh2
<1>11. ASSUME NEW n \in M, n # g, n # p
       PROVE  HeightAt(n, A2, B2, C2, bh2) /\ ColorAt(n, A2, B2, C2, NIL)
  <2>1. HeightAt(n, A, B, C, bh) /\ ColorAt(n, A, B, C, NIL) /\ C[NIL] = "BLACK"
    BY <1>2, <1>11, Exempt DEF ColorTypes
  <2>2. C2[n] = C[n] /\ C2[A2[n]] = C[A[n]] /\ C2[B2[n]] = C[B[n]]
    BY <1>1, <1>3, <1>9, <1>11, RotateOthers
  <2>3. bh2[n] = bh[n] /\ bh2[A2[n]] = bh[A[n]] /\ bh2[B2[n]] = bh[B[n]]
    BY <1>1, <1>3, <1>10, <1>11, RotateOthers
  <2> QED BY <2>1, <2>2, <2>3 DEF HeightAt, ColorAt
<1>12. /\ HeightAt(g, A2, B2, C2, bh2) /\ ColorAt(g, A2, B2, C2, NIL)
       /\ HeightAt(p, A2, B2, C2, bh2) /\ ColorAt(p, A2, B2, C2, NIL)
  <2>1. /\ C2[g] = "RED" /\ C2[p] = "BLACK" /\ C2[A[g]] = C[A[g]] /\ C2[A[p]] = C[A[p]]
        /\ bh2[g] = bh[p] /\ bh2[p] = bh[p] + 1 /\ bh2[A[g]] = bh[p] /\ bh2[A[p]] = bh[p]
        /\ bh2[z] = bh[p]
    BY <1>c, <1>1, <1>5, <1>7, <1>9, <1>10 DEF bh2
  <2> QED BY <1>6, <1>7, <2>1 DEF HeightAt, ColorAt, Black
<1>13. C2[r2] = "BLACK"
  <2>1. CASE P[g] = NIL
    BY <1>c, <1>1, <2>1 DEF Rotated
  <2>2. CASE P[g] # NIL
    <3>1. g # r /\ r \in D
      BY <1>1, <1>3, <2>2, Parents
    <3> QED BY <1>c, <1>1, <1>2, <2>2, <3>1 DEF Rotated
  <2> QED BY <2>1, <2>2
<1>14. Colored(r2, A2, B2, C2, M, bh2, z)
  BY <1>8, <1>11, <1>12, <1>13 DEF Colored, ColorAt, ColorTypes
<1> QED BY <1>c, <1>1, <1>6, <1>14 DEF FixedAt, Colorable

-----------------------------------------------------------------------------
(* Search trees of the model.                                              *)

KeyFrom(s) == IF s = "left" THEN Key ELSE Neg(Key)

\* t is a search tree of the nodes M.
TreeFrom(s, t, M, sub) ==
  t \in Trees /\ ShapeFrom(s, t, M, sub) /\ Sorted(t[s], t[Opposite(s)], KeyFrom(s), M, sub)

ColorsFrom(s, t, M, bh, z) ==
  Colored(t.root, t[s], t[Opposite(s)], t.color, M, bh, z)

LEMMA KeyTypes ==
  /\ \A s \in Side : KeyFrom(s) \in [Node -> Int] /\ KeyFrom(Opposite(s)) = Neg(KeyFrom(s))
  /\ KeyFrom("left") = Key /\ KeyFrom("right") = Neg(Key)
<1>1. Key \in [Node -> Int] /\ Neg(Key) \in [Node -> Int]
  BY RBTreeAssumption DEF Neg
<1>2. Neg(Neg(Key)) = Key
  BY RBTreeAssumption DEF Neg
<1> QED BY <1>1, <1>2 DEF KeyFrom, Side, Opposite

\* What holds from one side holds from the other.
LEMMA OtherSide ==
  ASSUME NEW s \in Side, NEW t, NEW M, NEW sub, TreeFrom(s, t, M, sub)
  PROVE  TreeFrom(Opposite(s), t, M, sub)
<1> DEFINE o == Opposite(s)
<1>1. Opposite(o) = s /\ o \in Side
  BY DEF Side, Opposite
<1> HIDE DEF o
<1>2. Shape(t.root, t[s], t[o], t.parent, M, sub) /\ Sorted(t[s], t[o], KeyFrom(s), M, sub)
  BY DEF TreeFrom, ShapeFrom, o
<1>3. Shape(t.root, t[o], t[s], t.parent, M, sub)
  BY <1>2, MirrorShape
<1>4. Sorted(t[o], t[s], KeyFrom(o), M, sub)
  <2>1. KeyFrom(s) \in [Node -> Int] /\ KeyFrom(o) = Neg(KeyFrom(s))
    BY KeyTypes DEF o
  <2> QED BY <1>2, <2>1, MirrorSorted
<1> QED BY <1>1, <1>3, <1>4 DEF TreeFrom, ShapeFrom, o

LEMMA OtherColors ==
  ASSUME NEW s \in Side, NEW t, NEW M, NEW bh, NEW z, ColorsFrom(s, t, M, bh, z)
  PROVE  ColorsFrom(Opposite(s), t, M, bh, z)
<1> DEFINE o == Opposite(s)
<1>1. Opposite(o) = s
  BY DEF Side, Opposite
<1> HIDE DEF o
<1>2. Colored(t.root, t[o], t[s], t.color, M, bh, z)
  BY MirrorColored DEF ColorsFrom, o
<1> QED BY <1>1, <1>2 DEF ColorsFrom, o

LEMMA AnySide ==
  ASSUME NEW s \in Side, NEW s2 \in Side, NEW t, NEW M
  PROVE  /\ \A sub : TreeFrom(s, t, M, sub) => TreeFrom(s2, t, M, sub)
         /\ \A bh, z : ColorsFrom(s, t, M, bh, z) => ColorsFrom(s2, t, M, bh, z)
<1>1. s2 = s \/ s2 = Opposite(s)
  BY DEF Side, Opposite
<1> QED BY <1>1, OtherSide, OtherColors

LEMMA RotateTree ==
  ASSUME NEW s \in Side, NEW t, NEW M, NEW sub, TreeFrom(s, t, M, sub),
         NEW x \in M, NEW y, t[Opposite(s)][x] = y, y # NIL, NEW u, RotatedFrom(s, x, t, u)
  PROVE  \E sub2 : /\ TreeFrom(s, u, M, sub2) /\ sub2[y] = sub[x]
                   /\ \A n \in D : n # x /\ n # y => sub2[n] = sub[n]
<1> DEFINE o == Opposite(s)
           sub2 == RotatedSub(x, t[s], t[o], sub)
<1> HIDE DEF o
<1>1. /\ t \in Trees /\ Shape(t.root, t[s], t[o], t.parent, M, sub)
      /\ Sorted(t[s], t[o], KeyFrom(s), M, sub)
  BY DEF TreeFrom, ShapeFrom, o
<1>2. u \in Trees /\ Rotated(x, t.root, t[s], t[o], t.parent, u.root, u[s], u[o], u.parent)
  BY DEF RotatedFrom, o
<1>3. t[o][x] = y /\ KeyFrom(s) \in [Node -> Int]
  BY KeyTypes DEF o
<1>4. Shape(u.root, u[s], u[o], u.parent, M, sub2)
  BY <1>1, <1>2, <1>3, RotateShape
<1>5. Sorted(u[s], u[o], KeyFrom(s), M, sub2)
  BY <1>1, <1>2, <1>3, RotateSorted
<1>6. sub2[y] = sub[x] /\ \A n \in D : n # x /\ n # y => sub2[n] = sub[n]
  <2>1. sub \in [D -> SUBSET M] /\ x \in D /\ y \in D
    BY <1>1, <1>3, NilNotNode DEF Shape, At
  <2> QED BY <1>3, <2>1 DEF RotatedSub
<1> HIDE DEF sub2
<1> QED BY <1>2, <1>4, <1>5, <1>6 DEF TreeFrom, ShapeFrom, o

LEMMA PaintTree ==
  ASSUME NEW s \in Side, NEW t, NEW M, NEW sub, TreeFrom(s, t, M, sub),
         NEW n, NEW c, NEW u, Painted(t, n, c, u)
  PROVE  TreeFrom(s, u, M, sub)
<1> DEFINE o == Opposite(s)
<1>1. o \in Side
  BY DEF Side, Opposite
<1> HIDE DEF o
<1>2. u \in Trees /\ u.root = t.root /\ u.parent = t.parent /\ u[s] = t[s] /\ u[o] = t[o]
  BY <1>1 DEF Painted
<1> QED BY <1>2 DEF TreeFrom, ShapeFrom, o

-----------------------------------------------------------------------------
(* One iteration of the fix-up after an insertion.                         *)

\* The tree during the fix-up: correct but for the red z.
InsertOK(s, t, M, z, sub, bh) ==
  TreeFrom(s, t, M, sub) /\ ColorsFrom(s, t, M, bh, z) /\ z \in M /\ t.color[z] = "RED"

\* z and its parent p are red, p is on side s of g, and the uncle is black.
RedPair(s, t, z, p, g) ==
  /\ t.parent[z] = p /\ t.parent[p] = g
  /\ t.color[p] = "RED" /\ t[s][g] = p /\ t.color[t[Opposite(s)][g]] = "BLACK"

\* The same with z on the outer side of its parent.
OuterPair(s, M, g, bh, st) ==
  \E t, z, p, sub :
     /\ st = [t |-> t, z |-> z]
     /\ InsertOK(s, t, M, z, sub, bh)
     /\ RedPair(s, t, z, p, g)
     /\ t[s][p] = z

LEMMA RotateOutStep ==
  ASSUME NEW s \in Side, NEW t, NEW M, NEW z, NEW sub, NEW bh, InsertOK(s, t, M, z, sub, bh),
         NEW p, NEW g, RedPair(s, t, z, p, g)
  PROVE  OuterPair(s, M, g, bh, RotateOut([t |-> t, z |-> z], s))
<1> DEFINE o == Opposite(s)
           st == [t |-> t, z |-> z]
<1>o. o \in Side /\ Opposite(o) = s
  BY DEF Side, Opposite
<1> HIDE DEF o
<1>0. /\ t \in Trees /\ Shape(t.root, t[s], t[o], t.parent, M, sub) /\ z \in M
      /\ Colored(t.root, t[s], t[o], t.color, M, bh, z) /\ t.color[z] = "RED"
  BY DEF InsertOK, TreeFrom, ShapeFrom, ColorsFrom, o
<1>1. /\ t.parent[z] = p /\ t.parent[p] = g /\ t.color[p] = "RED" /\ t[s][g] = p
      /\ t.color[t[o][g]] = "BLACK"
  BY DEF RedPair, o
<1>2. p \in M /\ g \in M /\ (z = t[s][p] \/ z = t[o][p]) /\ z # NIL
  <2>1. p \in M /\ g \in M /\ (z = t[s][p] \/ z = t[o][p])
    BY <1>0, <1>1, RedParent
  <2> QED BY <1>0, <2>1, NilNotNode DEF Shape
<1>3. RotateOut(st, s) = IF z = t[o][p] THEN [t |-> rbtree_rotate(t, s, p), z |-> p] ELSE st
  BY <1>1 DEF RotateOut, o
<1>4. CASE z # t[o][p]
  <2>1. RotateOut(st, s) = [t |-> t, z |-> z] /\ t[s][p] = z
    BY <1>2, <1>3, <1>4
  <2> QED BY <2>1 DEF OuterPair
<1>5. CASE z = t[o][p]
  <2> DEFINE t2 == rbtree_rotate(t, s, p)
  <2>1. RotatedFrom(s, p, t, t2)
    BY <1>0, <1>2, <1>5, RotateView DEF ShapeFrom, o
  <2>2. RotateOut(st, s) = [t |-> t2, z |-> p]
    BY <1>3, <1>5
  <2> HIDE DEF t2
  <2>3. PICK sub2 : TreeFrom(s, t2, M, sub2)
    BY <1>2, <1>5, <2>1, RotateTree DEF InsertOK, o
  <2>4. t2.color = t.color
        /\ Rotated(p, t.root, t[s], t[o], t.parent, t2.root, t2[s], t2[o], t2.parent)
    BY <2>1 DEF RotatedFrom, o
  <2>5. /\ Colored(t2.root, t2[s], t2[o], t.color, M, bh, p)
        /\ t2.parent[p] = z /\ t2.parent[z] = g /\ t2[s][g] = z /\ t2[s][z] = p
        /\ t2[o][g] = t[o][g]
    BY <1>0, <1>1, <1>5, <2>4, InsertRotateOut
  <2>6. InsertOK(s, t2, M, p, sub2, bh)
    BY <1>1, <1>2, <2>3, <2>4, <2>5 DEF InsertOK, ColorsFrom, o
  <2>7. RedPair(s, t2, p, z, g)
    BY <1>0, <1>1, <2>4, <2>5 DEF RedPair, o
  <2> QED BY <2>2, <2>5, <2>6, <2>7 DEF OuterPair
<1> QED BY <1>4, <1>5

\* The red pair is gone.
NoRedPair(s, M, z, st) ==
  \E t, sub, bh :
     st = [t |-> t, z |-> z] /\ InsertOK(s, t, M, z, sub, bh) /\ t.color[t.parent[z]] = "BLACK"

LEMMA RaiseParentStep ==
  ASSUME NEW s \in Side, NEW t, NEW M, NEW z, NEW sub, NEW bh, InsertOK(s, t, M, z, sub, bh),
         NEW p, NEW g, RedPair(s, t, z, p, g), t[s][p] = z
  PROVE  NoRedPair(s, M, z, RaiseParent([t |-> t, z |-> z], s))
<1> DEFINE o == Opposite(s)
           st == [t |-> t, z |-> z]
           t0 == Paint(t, p, "BLACK")
           t1 == Paint(t0, g, "RED")
           t2 == rbtree_rotate(t1, o, g)
<1>o. o \in Side /\ Opposite(o) = s
  BY DEF Side, Opposite
<1>3. RaiseParent(st, s) = [t |-> t2, z |-> z]
  BY DEF RaiseParent, RedPair
<1> HIDE DEF o, t0, t1, t2
<1>0. /\ t \in Trees /\ Shape(t.root, t[s], t[o], t.parent, M, sub) /\ z \in M
      /\ Colored(t.root, t[s], t[o], t.color, M, bh, z) /\ t.color[z] = "RED"
  BY DEF InsertOK, TreeFrom, ShapeFrom, ColorsFrom, o
<1>1. /\ t.parent[z] = p /\ t.parent[p] = g /\ t.color[p] = "RED" /\ t[s][g] = p
      /\ t.color[t[o][g]] = "BLACK"
  BY DEF RedPair, o
<1>2. /\ p \in M /\ g \in M /\ p # g /\ p \in D /\ g \in D /\ z \in D /\ z # p /\ z # g
      /\ z # NIL /\ p # NIL
  <2>1. p \in M /\ g \in M /\ p # g /\ p \in D /\ g \in D /\ z \in D /\ z # p /\ z # g
    BY <1>0, <1>1, RedParent
  <2> QED BY <1>0, <2>1, NilNotNode DEF Shape
<1>4. Painted(t, p, "BLACK", t0)
  BY <1>0, <1>2, PaintColor DEF t0
<1>5. Painted(t0, g, "RED", t1)
  BY <1>2, <1>4, PaintColor DEF t1, Painted
<1>6. /\ t1 \in Trees /\ t1.root = t.root /\ t1.parent = t.parent /\ t1[s] = t[s] /\ t1[o] = t[o]
      /\ t1.color = Upd(Upd(t.color, p, "BLACK"), g, "RED")
  BY <1>o, <1>4, <1>5 DEF Painted
<1>7. /\ t.color \in [D -> Color] /\ t1.color \in [D -> Color]
      /\ \A n \in D : t1.color[n] = IF n = g THEN "RED" ELSE IF n = p THEN "BLACK" ELSE t.color[n]
  BY <1>0, <1>2, <1>6 DEF Upd, Trees, Color
<1>8. TreeFrom(o, t1, M, sub)
  <2>1. TreeFrom(s, t1, M, sub)
    BY <1>4, <1>5, PaintTree DEF InsertOK
  <2> QED BY <2>1, OtherSide DEF o
<1>9. RotatedFrom(o, g, t1, t2)
  BY <1>o, <1>1, <1>2, <1>6, <1>8, RotateView DEF TreeFrom, t2
<1>10. PICK sub2 : TreeFrom(o, t2, M, sub2)
  BY <1>o, <1>1, <1>2, <1>6, <1>8, <1>9, RotateTree
<1>11. t2.color = t1.color
       /\ Rotated(g, t.root, t[o], t[s], t.parent, t2.root, t2[o], t2[s], t2.parent)
  BY <1>o, <1>6, <1>9 DEF RotatedFrom
<1>12. Shape(t.root, t[o], t[s], t.parent, M, sub) /\ Colored(t.root, t[o], t[s], t.color, M, bh, z)
  BY <1>0, MirrorShape, MirrorColored
<1>13. /\ \E bh2 : Colored(t2.root, t2[o], t2[s], t1.color, M, bh2, z)
       /\ t1.color[t2.parent[z]] = "BLACK"
  <2> DEFINE A == t[o]
             B == t[s]
             P == t.parent
             C == t.color
             C2 == t1.color
             A2 == t2[o]
             B2 == t2[s]
             P2 == t2.parent
             r == t.root
             r2 == t2.root
  <2>1. /\ Shape(r, A, B, P, M, sub) /\ Colored(r, A, B, C, M, bh, z)
        /\ P[z] = p /\ C[p] = "RED" /\ P[p] = g /\ B[p] = z /\ B[g] = p /\ C[A[g]] = "BLACK"
        /\ Rotated(g, r, A, B, P, r2, A2, B2, P2)
        /\ RedMovedUp(g, p, p, C, C2) /\ z \in M
    BY <1>0, <1>1, <1>7, <1>11, <1>12 DEF RedMovedUp
  <2> HIDE DEF A, B, P, C, C2, A2, B2, P2, r, r2
  <2>2. FixedAt(r2, A2, B2, P2, C2, M, z)
    BY <2>1, InsertRaiseParent
  <2> QED BY <2>2 DEF FixedAt, Colorable, A2, B2, C2, P2, r2
<1>14. PICK bh2 : Colored(t2.root, t2[o], t2[s], t1.color, M, bh2, z)
  BY <1>13
<1>15. ColorsFrom(s, t2, M, bh2, z)
  BY <1>11, <1>14, MirrorColored DEF ColorsFrom, o
<1>16. TreeFrom(s, t2, M, sub2)
  BY <1>o, <1>10, OtherSide
<1>17. t2.color[z] = "RED"
  BY <1>0, <1>2, <1>7, <1>11
<1>18. InsertOK(s, t2, M, z, sub2, bh2)
  BY <1>0, <1>15, <1>16, <1>17 DEF InsertOK
<1> QED BY <1>3, <1>11, <1>13, <1>18 DEF NoRedPair

\* After the iteration the tree is correct but for the new z, whose subtree is larger
\* if the loop goes on.
InsertStepped(t, M, z, sub, st) ==
  \E t2, z2, sub2, bh2 :
    /\ st = [t |-> t2, z |-> z2]
    /\ InsertOK("left", t2, M, z2, sub2, bh2)
    /\ \/ t2.color[t2.parent[z2]] = "BLACK"
       \/ sub[z] \subseteq sub2[z2] /\ z2 \notin sub[z] /\ z2 \in sub2[z2]

LEMMA RedUncleStep ==
  ASSUME NEW s \in Side, NEW t, NEW M, NEW z, NEW sub, NEW bh, InsertOK(s, t, M, z, sub, bh),
         NEW p, NEW g, t.parent[z] = p, t.parent[p] = g, t.color[p] = "RED",
         NEW u, t[s][g] = p, t[Opposite(s)][g] = u, t.color[u] = "RED",
         NEW t2, Paint(Paint(Paint(t, p, "BLACK"), u, "BLACK"), g, "RED") = t2
  PROVE  InsertStepped(t, M, z, sub, [t |-> t2, z |-> g])
<1> DEFINE o == Opposite(s)
           t0 == Paint(t, p, "BLACK")
           t1 == Paint(t0, u, "BLACK")
           r == t.root
           A == t[s]
           B == t[o]
           P == t.parent
           C == t.color
           C2 == t2.color
<1>o. o \in Side /\ Opposite(o) = s
  BY DEF Side, Opposite
<1>t. Paint(t1, g, "RED") = t2
  OBVIOUS
<1> HIDE DEF o, t0, t1, r, A, B, P, C, C2
<1>0. /\ t \in Trees /\ Shape(r, A, B, P, M, sub) /\ z \in M
      /\ Colored(r, A, B, C, M, bh, z) /\ C[z] = "RED"
  BY DEF InsertOK, TreeFrom, ShapeFrom, ColorsFrom, o, r, A, B, P, C
<1>1. P[z] = p /\ P[p] = g /\ C[p] = "RED" /\ A[g] = p /\ B[g] = u /\ C[u] = "RED"
  BY DEF o, A, B, P, C
<1>2. p \in M /\ g \in M /\ p # g /\ p \in D /\ g \in D /\ z \in D
  BY <1>0, <1>1, RedParent
<1>3. u \in M /\ u \in D /\ u # g /\ u # NIL
  <2>1. At(g, A, B, P, M, sub) /\ M \subseteq D
    BY <1>0, <1>2, NilNotNode DEF Shape
  <2>2. u # NIL
    BY <1>0, <1>1 DEF Colored, ColorTypes
  <2>3. u \in M /\ g \notin sub[u] /\ NIL \notin M
    BY <1>0, <1>1, <2>1, <2>2, NilNotNode DEF At, Shape
  <2>4. u \in sub[u]
    BY <1>0, <2>3, Parents
  <2> QED BY <2>1, <2>2, <2>3, <2>4
<1>4. Painted(t, p, "BLACK", t0)
  BY <1>0, <1>2, PaintColor DEF t0
<1>5. Painted(t0, u, "BLACK", t1)
  BY <1>3, <1>4, PaintColor DEF t1, Painted
<1>6. Painted(t1, g, "RED", t2)
  <2>1. t1 \in Trees
    BY <1>5 DEF Painted
  <2> QED BY <1>t, <1>2, <2>1, PaintColor
<1>7. C2 = Upd(Upd(Upd(C, p, "BLACK"), u, "BLACK"), g, "RED")
  BY <1>4, <1>5, <1>6 DEF Painted, C, C2
<1>8. RedMovedUp(g, A[g], B[g], C, C2)
  <2>1. C \in [D -> Color]
    BY <1>0 DEF Trees, Color, C
  <2> QED BY <1>1, <1>2, <1>3, <1>7, <2>1 DEF Upd, RedMovedUp, Color
<1>9. TreeFrom("left", t2, M, sub)
  <2>1. TreeFrom(s, t2, M, sub)
    BY <1>4, <1>5, <1>6, PaintTree DEF InsertOK
  <2> QED BY <2>1, AnySide DEF Side
<1>10. /\ Colorable(r, A, B, C2, M, g)
       /\ g \in M /\ sub[z] \subseteq sub[g] /\ g \notin sub[z]
  BY <1>0, <1>1, <1>8, InsertRedUncle
<1>11. PICK bh2 : Colored(r, A, B, C2, M, bh2, g)
  BY <1>10 DEF Colorable
<1>12. t2.root = r /\ t2[s] = A /\ t2[o] = B
  BY <1>o, <1>4, <1>5, <1>6 DEF Painted, r, A, B
<1>13. ColorsFrom("left", t2, M, bh2, g)
  <2>1. ColorsFrom(s, t2, M, bh2, g)
    BY <1>11, <1>12 DEF ColorsFrom, o, C2
  <2> QED BY <2>1, AnySide DEF Side
<1>14. InsertOK("left", t2, M, g, sub, bh2)
  <2>1. C2[g] = "RED"
    BY <1>2, <1>8 DEF RedMovedUp
  <2> QED BY <1>2, <1>9, <1>13, <2>1 DEF InsertOK, C2
<1>15. g \in sub[g]
  BY <1>0, <1>2, Parents
<1> QED BY <1>10, <1>14, <1>15 DEF InsertStepped

LEMMA InsertStep ==
  ASSUME NEW t, NEW M, NEW z, NEW sub, NEW bh, InsertOK("left", t, M, z, sub, bh),
         t.color[t.parent[z]] = "RED"
  PROVE  InsertStepped(t, M, z, sub, InsertCase([t |-> t, z |-> z]))
<1> DEFINE st == [t |-> t, z |-> z]
           p == t.parent[z]
           g == t.parent[p]
           s == SideOf(t, p)
           o == Opposite(s)
           u == t[o][g]
           t1 == Paint(Paint(Paint(t, p, "BLACK"), u, "BLACK"), g, "RED")
<1>1. InsertCase(st) = IF t.color[u] = "RED" THEN [t |-> t1, z |-> g]
                       ELSE RaiseParent(RotateOut(st, s), s)
  BY DEF InsertCase
<1>2. s \in Side /\ s = IF p = t.left[g] THEN "left" ELSE "right"
  BY DEF SideOf, Side
<1> HIDE DEF s, p, g, o, u, t1
<1>3. InsertOK(s, t, M, z, sub, bh)
  BY <1>2, AnySide DEF InsertOK, Side
<1>4. t[s][g] = p
  <2> DEFINE A == t["left"]
             B == t["right"]
             P == t.parent
             C == t.color
             r == t.root
  <2>1. /\ Shape(r, A, B, P, M, sub) /\ z \in M /\ Colored(r, A, B, C, M, bh, z)
        /\ P[z] = p /\ P[p] = g /\ C[p] = "RED" /\ t.left = A /\ t \in Trees
    BY DEF InsertOK, TreeFrom, ShapeFrom, ColorsFrom, Opposite, p, g, Trees
  <2> HIDE DEF A, B, P, C, r
  <2>2. p = A[g] \/ p = B[g]
    BY <2>1, RedParent
  <2> QED BY <1>2, <2>1, <2>2 DEF A, B
<1>5. CASE t.color[u] = "RED"
  <2>1. InsertStepped(t, M, z, sub, [t |-> t1, z |-> g])
    BY <1>2, <1>3, <1>4, <1>5, RedUncleStep DEF p, g, u, o, t1
  <2> QED BY <1>1, <1>5, <2>1
<1>6. CASE t.color[u] # "RED"
  <2>1. RedPair(s, t, z, p, g)
    <3>1. t.color[u] = "BLACK"
      <4> DEFINE A == t[s]
                 B == t[o]
                 P == t.parent
                 C == t.color
                 r == t.root
      <4>1. /\ Shape(r, A, B, P, M, sub) /\ z \in M /\ Colored(r, A, B, C, M, bh, z)
            /\ P[z] = p /\ P[p] = g /\ C[p] = "RED" /\ u = B[g]
        BY <1>3 DEF InsertOK, TreeFrom, ShapeFrom, ColorsFrom, p, g, u, o
      <4> HIDE DEF A, B, P, C, r
      <4>2. g \in M
        BY <4>1, RedParent
      <4>3. u \in D /\ C \in [D -> Color]
        BY <4>1, <4>2, NilNotNode DEF Shape, At, Colored, ColorTypes
      <4> QED BY <1>6, <4>3 DEF C, Color
    <3> QED BY <1>4, <3>1 DEF RedPair, p, g, u, o
  <2>2. PICK t2, z2, p2, sub2 :
           /\ RotateOut(st, s) = [t |-> t2, z |-> z2]
           /\ InsertOK(s, t2, M, z2, sub2, bh)
           /\ RedPair(s, t2, z2, p2, g)
           /\ t2[s][p2] = z2
    <3>1. OuterPair(s, M, g, bh, RotateOut(st, s))
      BY <1>2, <1>3, <2>1, RotateOutStep
    <3> QED BY <3>1 DEF OuterPair
  <2>3. PICK t3, sub3, bh3 :
           /\ RaiseParent([t |-> t2, z |-> z2], s) = [t |-> t3, z |-> z2]
           /\ InsertOK(s, t3, M, z2, sub3, bh3)
           /\ t3.color[t3.parent[z2]] = "BLACK"
    <3>1. NoRedPair(s, M, z2, RaiseParent([t |-> t2, z |-> z2], s))
      BY <1>2, <2>2, RaiseParentStep
    <3> QED BY <3>1 DEF NoRedPair
  <2>4. InsertCase(st) = [t |-> t3, z |-> z2]
    BY <1>1, <1>6, <2>2, <2>3
  <2>5. InsertOK("left", t3, M, z2, sub3, bh3)
    BY <1>2, <2>3, AnySide DEF InsertOK, Side
  <2> QED BY <2>3, <2>4, <2>5 DEF InsertStepped
<1> QED BY <1>5, <1>6

-----------------------------------------------------------------------------
(* The fix-up after an insertion.                                          *)

\* A red-black tree of the nodes M.
RedBlack(t, M) ==
  \E sub, bh : TreeFrom("left", t, M, sub) /\ ColorsFrom("left", t, M, bh, NIL)

\* The loop ends with at most a red root, which is painted black.
LEMMA BlackRoot ==
  ASSUME NEW r, NEW A, NEW B, NEW P, NEW M, NEW sub, Shape(r, A, B, P, M, sub),
         NEW C, NEW bh, NEW z \in M, Colored(r, A, B, C, M, bh, z), C[P[z]] # "RED"
  PROVE  Colorable(r, A, B, Upd(C, r, "BLACK"), M, NIL)
<1> DEFINE C2 == Upd(C, r, "BLACK")
           bh2 == [n \in D |-> IF n = r THEN bh[A[r]] + 1 ELSE bh[n]]
<1>1. /\ ColorTypes(C, bh) /\ (C[r] = "BLACK" \/ r = z)
      /\ \A n \in M : HeightAt(n, A, B, C, bh) /\ ColorAt(n, A, B, C, z)
  BY DEF Colored
<1>2. r \in M /\ r \in D /\ r # NIL /\ P[r] = NIL /\ M \subseteq D /\ NIL \in D /\ NIL \notin M
  BY Parents, NilNotNode DEF Shape
<1>c. C \in [D -> Color] /\ bh \in [D -> Nat] /\ C[NIL] = "BLACK" /\ bh[NIL] = 0
  BY <1>1 DEF ColorTypes
<1>3. C2 \in [D -> Color] /\ \A n \in D : C2[n] = IF n = r THEN "BLACK" ELSE C[n]
  BY <1>2, <1>c DEF Upd, Color
<1>4. A[r] \in D /\ B[r] \in D /\ A[r] # r /\ B[r] # r
  <2>1. At(r, A, B, P, M, sub)
    BY <1>2 DEF Shape
  <2> QED BY <1>2, <2>1 DEF At
<1>5. bh[A[r]] \in Nat /\ bh2 \in [D -> Nat]
  BY <1>c, <1>4
<1> HIDE DEF C2, bh2
<1>6. ColorTypes(C2, bh2)
  BY <1>2, <1>3, <1>c, <1>5 DEF ColorTypes, bh2
<1>7. ASSUME NEW n \in M, n # r PROVE HeightAt(n, A, B, C2, bh2) /\ ColorAt(n, A, B, C2, NIL)
  <2>1. /\ A[n] \in M \cup {NIL} /\ B[n] \in M \cup {NIL}
        /\ A[n] # NIL => P[A[n]] = n
        /\ B[n] # NIL => P[B[n]] = n
    BY DEF Shape, At
  <2>2. A[n] \in D /\ B[n] \in D /\ n \in D /\ A[n] # r /\ B[n] # r
    BY <1>2, <2>1
  <2>3. /\ bh2[n] = bh[n] /\ bh2[A[n]] = bh[A[n]] /\ bh2[B[n]] = bh[B[n]]
        /\ C2[n] = C[n] /\ C2[A[n]] = C[A[n]] /\ C2[B[n]] = C[B[n]]
    BY <1>3, <1>7, <2>2 DEF bh2
  <2>4. C[n] = "RED" => ColorAt(n, A, B, C, NIL)
    <3>1. CASE n = P[z]
      BY <3>1
    <3>2. CASE n # P[z]
      BY <1>1, <1>c, <3>2, Exempt
    <3> QED BY <3>1, <3>2
  <2>5. HeightAt(n, A, B, C, bh)
    BY <1>1
  <2> QED BY <2>3, <2>4, <2>5 DEF HeightAt, ColorAt
<1>8. HeightAt(r, A, B, C2, bh2) /\ ColorAt(r, A, B, C2, NIL)
  <2>1. HeightAt(r, A, B, C, bh) /\ bh[B[r]] \in Nat /\ bh[r] \in Nat
    BY <1>1, <1>2, <1>c, <1>4
  <2>2. bh[A[r]] = bh[B[r]]
    BY <1>5, <2>1 DEF HeightAt, Black
  <2>3. C2[r] = "BLACK" /\ bh2[r] = bh[A[r]] + 1 /\ bh2[A[r]] = bh[A[r]] /\ bh2[B[r]] = bh[B[r]]
    BY <1>2, <1>3, <1>4 DEF bh2
  <2> QED BY <1>5, <2>2, <2>3 DEF HeightAt, ColorAt, Black
<1>9. C2[r] = "BLACK"
  BY <1>2, <1>3
<1>10. Colored(r, A, B, C2, M, bh2, NIL)
  BY <1>6, <1>7, <1>8, <1>9 DEF Colored
<1> QED BY <1>10 DEF Colorable, C2

LEMMA PaintRoot ==
  ASSUME NEW t, NEW M, NEW z, NEW sub, NEW bh, InsertOK("left", t, M, z, sub, bh),
         t.color[t.parent[z]] # "RED"
  PROVE  RedBlack(Paint(t, t.root, "BLACK"), M)
<1> DEFINE A == t["left"]
           B == t["right"]
           P == t.parent
           C == t.color
           r == t.root
           u == Paint(t, r, "BLACK")
<1>1. /\ Shape(r, A, B, P, M, sub) /\ z \in M /\ Colored(r, A, B, C, M, bh, z)
      /\ C[P[z]] # "RED" /\ t \in Trees /\ r \in D
  BY DEF InsertOK, TreeFrom, ShapeFrom, ColorsFrom, Opposite, Trees
<1> HIDE DEF A, B, P, C, r, u
<1>2. PICK bh2 : Colored(r, A, B, Upd(C, r, "BLACK"), M, bh2, NIL)
  <2>1. Colorable(r, A, B, Upd(C, r, "BLACK"), M, NIL)
    BY <1>1, BlackRoot
  <2> QED BY <2>1 DEF Colorable
<1>3. Painted(t, r, "BLACK", u)
  BY <1>1, PaintColor DEF u
<1>4. TreeFrom("left", u, M, sub)
  BY <1>3, PaintTree DEF InsertOK, Side
<1>5. ColorsFrom("left", u, M, bh2, NIL)
  <2>1. u.root = r /\ u["left"] = A /\ u["right"] = B /\ u.color = Upd(C, r, "BLACK")
    BY <1>3 DEF Painted, Side, A, B, C, r
  <2> QED BY <1>2, <2>1 DEF ColorsFrom, Opposite
<1> QED BY <1>4, <1>5 DEF RedBlack, u, r

\* Larger subtrees.
LEMMA Larger ==
  ASSUME NEW S, NEW T, T \subseteq Node, S \subseteq T, NEW x \in T, x \notin S
  PROVE  Cardinality(S) < Cardinality(T) /\ Cardinality(S) \in Nat /\ Cardinality(T) \in Nat
         /\ Cardinality(T) <= Cardinality(Node)
<1>1. IsFiniteSet(T) /\ Cardinality(T) <= Cardinality(Node)
  BY RBTreeAssumption, FS_Subset
<1>2. IsFiniteSet(S) /\ Cardinality(S) <= Cardinality(T) /\ Cardinality(S) # Cardinality(T)
  BY <1>1, FS_Subset
<1>3. Cardinality(S) \in Nat /\ Cardinality(T) \in Nat
  BY <1>1, <1>2, FS_CardinalityType
<1> QED BY <1>1, <1>2, <1>3

LEMMA NodeCount == Cardinality(Node) \in Nat
BY RBTreeAssumption, FS_CardinalityType

\* The state of the loop after k iterations.
InsertLoop(st, M, k) ==
  \E t, z, sub, bh :
    /\ st = [t |-> t, z |-> z]
    /\ InsertOK("left", t, M, z, sub, bh)
    /\ t.color[t.parent[z]] = "RED" => k < Cardinality(sub[z])

LEMMA InsertLoopStep ==
  ASSUME NEW st, NEW M, NEW k \in Nat, InsertLoop(st, M, k)
  PROVE  InsertLoop(IF st.t.color[st.t.parent[st.z]] = "RED" THEN InsertCase(st) ELSE st, M, k + 1)
<1>1. PICK t, z, sub, bh :
         /\ st = [t |-> t, z |-> z]
         /\ InsertOK("left", t, M, z, sub, bh)
         /\ t.color[t.parent[z]] = "RED" => k < Cardinality(sub[z])
  BY DEF InsertLoop
<1>2. st.t = t /\ st.z = z
  BY <1>1
<1>3. CASE t.color[t.parent[z]] # "RED"
  <2>1. InsertLoop(st, M, k + 1)
    BY <1>1, <1>3 DEF InsertLoop
  <2> QED BY <1>2, <1>3, <2>1
<1>4. CASE t.color[t.parent[z]] = "RED"
  <2>1. InsertStepped(t, M, z, sub, InsertCase(st))
    BY <1>1, <1>4, InsertStep
  <2>2. PICK t2, z2, sub2, bh2 :
          /\ InsertCase(st) = [t |-> t2, z |-> z2]
          /\ InsertOK("left", t2, M, z2, sub2, bh2)
          /\ \/ t2.color[t2.parent[z2]] = "BLACK"
             \/ sub[z] \subseteq sub2[z2] /\ z2 \notin sub[z] /\ z2 \in sub2[z2]
    BY <2>1 DEF InsertStepped
  <2>3. t2.color[t2.parent[z2]] = "RED" => k + 1 < Cardinality(sub2[z2])
    <3> SUFFICES ASSUME t2.color[t2.parent[z2]] = "RED" PROVE k + 1 < Cardinality(sub2[z2])
      OBVIOUS
    <3>1. sub[z] \subseteq sub2[z2] /\ z2 \notin sub[z] /\ z2 \in sub2[z2]
      BY <2>2
    <3>2. sub2[z2] \subseteq Node
      BY <2>2, NilNotNode DEF InsertOK, TreeFrom, ShapeFrom, Shape
    <3>3. Cardinality(sub[z]) < Cardinality(sub2[z2]) /\ Cardinality(sub[z]) \in Nat
          /\ Cardinality(sub2[z2]) \in Nat
      BY <3>1, <3>2, Larger
    <3> QED BY <1>1, <1>4, <3>3
  <2>4. InsertLoop(InsertCase(st), M, k + 1)
    BY <2>2, <2>3 DEF InsertLoop
  <2> QED BY <1>2, <1>4, <2>4
<1> QED BY <1>3, <1>4

LEMMA InsertLoopEnd ==
  ASSUME NEW st, NEW M, InsertLoop(st, M, Cardinality(Node))
  PROVE  RedBlack(Paint(st.t, st.t.root, "BLACK"), M)
<1>1. PICK t, z, sub, bh :
         /\ st = [t |-> t, z |-> z]
         /\ InsertOK("left", t, M, z, sub, bh)
         /\ t.color[t.parent[z]] = "RED" => Cardinality(Node) < Cardinality(sub[z])
  BY DEF InsertLoop
<1>2. z \in M /\ sub[z] \subseteq Node
  BY <1>1, NilNotNode DEF InsertOK, TreeFrom, ShapeFrom, Shape
<1>3. ~(Cardinality(Node) < Cardinality(sub[z]))
  <2>1. IsFiniteSet(sub[z]) /\ Cardinality(sub[z]) <= Cardinality(Node)
    BY <1>2, RBTreeAssumption, FS_Subset
  <2> QED BY <2>1, NodeCount, FS_CardinalityType
<1>4. RedBlack(Paint(t, t.root, "BLACK"), M)
  BY <1>1, <1>3, PaintRoot
<1> QED BY <1>1, <1>4

LEMMA InsertFixup ==
  ASSUME NEW t, NEW M, NEW z, NEW sub, NEW bh, InsertOK("left", t, M, z, sub, bh)
  PROVE  RedBlack(rbtree_insert_fixup(t, z), M)
<1> DEFINE N == Cardinality(Node)
           start == [t |-> t, z |-> z]
           After(st) == IF st.t.color[st.t.parent[st.z]] = "RED" THEN InsertCase(st) ELSE st
           Eq(f) == f = [k \in 0 .. N |-> IF k = 0 THEN start ELSE After(f[k - 1])]
           g == CHOOSE f : Eq(f)
<1>1. rbtree_insert_fixup(t, z) = Paint(g[N].t, g[N].t.root, "BLACK")
  BY Zenon DEF rbtree_insert_fixup, While
<1>n. N \in Nat
  BY NodeCount
<1> HIDE DEF After, g, N
<1>2. InsertLoop(start, M, 0)
  <2>1. Shape(t.root, t["left"], t["right"], t.parent, M, sub) /\ z \in M
    BY DEF InsertOK, TreeFrom, ShapeFrom, Opposite
  <2>2. z \in sub[z]
    BY <2>1, Parents
  <2>3. sub[z] \subseteq Node
    BY <2>1, NilNotNode DEF Shape
  <2>4. 0 < Cardinality(sub[z])
    BY <2>2, <2>3, Larger, FS_EmptySet
  <2> QED BY <2>4 DEF InsertLoop
<1>3. ASSUME NEW st, NEW k \in Nat, InsertLoop(st, M, k) PROVE InsertLoop(After(st), M, k + 1)
  BY <1>3, InsertLoopStep DEF After
<1>4. \E f : Eq(f)
  <2> DEFINE V == {st \in [t : Trees, z : D] : \E k \in Nat : InsertLoop(st, M, k)}
             next == [st \in V |-> After(st)]
  <2>1. \A st, k : InsertLoop(st, M, k) => st \in [t : Trees, z : D]
    BY NilNotNode DEF InsertLoop, InsertOK, TreeFrom, ShapeFrom, Shape
  <2>2. start \in V
    BY <1>2, <2>1
  <2>3. next \in [V -> V]
    BY <1>3, <2>1
  <2>4. \A st \in V : next[st] = After(st)
    OBVIOUS
  <2> HIDE DEF V, next, start
  <2>l. PICK f : Iterates(f, N, V, start, next)
    BY <1>n, <2>2, <2>3, LoopExists
  <2>5. f \in [0 .. N -> V] /\ f[0] = start /\ \A k \in 1 .. N : f[k] = next[f[k - 1]]
    BY <2>l DEF Iterates
  <2>6. ASSUME NEW k \in 0 .. N PROVE f[k] = IF k = 0 THEN start ELSE After(f[k - 1])
    <3>1. CASE k # 0
      <4>1. k \in 1 .. N /\ k - 1 \in 0 .. N
        BY <1>n, <3>1
      <4> QED BY <2>4, <2>5, <3>1, <4>1
    <3> QED BY <2>5, <3>1
  <2>7. Eq(f)
    BY <2>5, <2>6
  <2> QED BY <2>7
<1>5. Eq(g)
  BY <1>4 DEF g
<1>6. g[0] = start /\ \A k \in 1 .. N : g[k] = After(g[k - 1])
  <2> HIDE DEF start
  <2> QED BY <1>5, <1>n
<1>7. InsertLoop(g[N], M, N)
  <2> DEFINE S == {k \in Nat : InsertLoop(g[k], M, k)}
  <2>1. 0 \in S
    BY <1>2, <1>6
  <2>2. ASSUME NEW k \in 0 .. N - 1, k \in S PROVE k + 1 \in S
    <3>1. k \in Nat /\ k + 1 \in 1 .. N /\ (k + 1) - 1 = k
      BY <1>n
    <3>2. g[k + 1] = After(g[k])
      BY <1>6, <3>1
    <3> QED BY <1>3, <2>2, <3>1, <3>2
  <2> HIDE DEF S
  <2>3. N \in S
    BY <1>n, <2>1, <2>2, IntervalInduction
  <2> QED BY <2>3 DEF S
<1>8. RedBlack(Paint(g[N].t, g[N].t.root, "BLACK"), M)
  BY <1>7, InsertLoopEnd DEF N
<1> QED BY <1>1, <1>8

-----------------------------------------------------------------------------
(* A new leaf.                                                             *)

\* z becomes the A child of y, or the root when y is NIL.
Hung(z, y, r, A, B, P, r2, A2, B2, P2) ==
  /\ A2 \in [D -> W] /\ B2 \in [D -> W] /\ P2 \in [D -> W]
  /\ r2 = IF y = NIL THEN z ELSE r
  /\ \A n \in D : A2[n] = IF n = z THEN NIL ELSE IF n = y /\ y # NIL THEN z ELSE A[n]
  /\ \A n \in D : B2[n] = IF n = z THEN NIL ELSE B[n]
  /\ \A n \in D : P2[n] = IF n = z THEN y ELSE P[n]

\* The key of z belongs at y: it is in order with the nodes above.
InOrder(z, y, A, B, K, M, sub) ==
  /\ y # NIL => K[z] <= K[y]
  /\ \A n \in M : /\ y \in sub[A[n]] => K[z] <= K[n]
                  /\ y \in sub[B[n]] => K[n] <= K[z]

HungSub(z, y, sub) ==
  [n \in D |-> IF n = z THEN {z} ELSE IF y \in sub[n] THEN sub[n] \cup {z} ELSE sub[n]]

LEMMA HangShape ==
  ASSUME NEW r, NEW A, NEW B, NEW P, NEW M, NEW sub, Shape(r, A, B, P, M, sub),
         NEW z \in Node, z \notin M, NEW y \in M \cup {NIL}, y = NIL <=> r = NIL,
         y # NIL => A[y] = NIL,
         NEW r2, NEW A2, NEW B2, NEW P2, Hung(z, y, r, A, B, P, r2, A2, B2, P2)
  PROVE  Shape(r2, A2, B2, P2, M \cup {z}, HungSub(z, y, sub))
<1> DEFINE sub2 == HungSub(z, y, sub)
           M2 == M \cup {z}
<1>1. /\ M \subseteq D /\ M \subseteq Node /\ NIL \notin M /\ NIL \in D /\ z \in D /\ z # NIL /\ sub[NIL] = {}
      /\ sub \in [D -> SUBSET M] /\ r \in M \cup {NIL} /\ sub[r] = M /\ (r # NIL => P[r] = NIL)
  BY NilNotNode DEF Shape
<1>2. /\ sub2 \in [D -> SUBSET M2]
      /\ \A n \in D : sub2[n] = IF n = z THEN {z}
                                ELSE IF y \in sub[n] THEN sub[n] \cup {z} ELSE sub[n]
  BY <1>1 DEF HungSub
<1> HIDE DEF sub2
<1>3. /\ A2 \in [D -> W] /\ B2 \in [D -> W] /\ P2 \in [D -> W]
      /\ r2 = IF y = NIL THEN z ELSE r
      /\ \A n \in D : A2[n] = IF n = z THEN NIL ELSE IF n = y /\ y # NIL THEN z ELSE A[n]
      /\ \A n \in D : B2[n] = IF n = z THEN NIL ELSE B[n]
      /\ \A n \in D : P2[n] = IF n = z THEN y ELSE P[n]
  BY DEF Hung
<1>4. sub2[NIL] = {}
  BY <1>1, <1>2
<1>5. r2 \in M2 /\ P2[r2] = NIL /\ sub2[r2] = M2
  BY <1>1, <1>2, <1>3
<1>6. At(z, A2, B2, P2, M2, sub2)
  BY <1>1, <1>2, <1>3, <1>4 DEF At
<1>7. ASSUME NEW n \in M, n # y PROVE At(n, A2, B2, P2, M2, sub2)
  <2>1. At(n, A, B, P, M, sub) /\ n \in D /\ n # z
    BY <1>1 DEF Shape
  <2>2. A2[n] = A[n] /\ B2[n] = B[n] /\ A[n] \in D /\ B[n] \in D /\ A[n] # z /\ B[n] # z
    BY <1>1, <1>3, <1>7, <2>1 DEF At
  <2>3. sub[A[n]] \subseteq M /\ sub[B[n]] \subseteq M
    BY <1>1, <2>2
  <2>4. /\ sub2[n] = IF y \in sub[n] THEN sub[n] \cup {z} ELSE sub[n]
        /\ sub2[A[n]] = IF y \in sub[A[n]] THEN sub[A[n]] \cup {z} ELSE sub[A[n]]
        /\ sub2[B[n]] = IF y \in sub[B[n]] THEN sub[B[n]] \cup {z} ELSE sub[B[n]]
    BY <1>2, <2>1, <2>2
  <2>5. /\ sub2[n] = {n} \cup sub2[A[n]] \cup sub2[B[n]]
        /\ n \notin sub2[A[n]] /\ n \notin sub2[B[n]] /\ sub2[A[n]] \cap sub2[B[n]] = {}
    BY <1>7, <2>1, <2>3, <2>4 DEF At
  <2>6. (A[n] # NIL => P2[A[n]] = n) /\ (B[n] # NIL => P2[B[n]] = n)
    BY <1>3, <2>1, <2>2 DEF At
  <2> QED BY <2>1, <2>2, <2>5, <2>6 DEF At
<1>8. ASSUME y # NIL PROVE At(y, A2, B2, P2, M2, sub2)
  <2>0. y \in M
    BY <1>8
  <2>1. At(y, A, B, P, M, sub) /\ y \in D /\ y # z
    BY <1>1, <2>0 DEF Shape
  <2>2. A2[y] = z /\ B2[y] = B[y] /\ B[y] \in D /\ B[y] # z
    BY <1>1, <1>3, <1>8, <2>1 DEF At
  <2>3. sub[B[y]] \subseteq M /\ sub[A[y]] = {}
    BY <1>1, <1>8, <2>2
  <2>4. y \in sub[y] /\ y \notin sub[B[y]]
    BY <2>1 DEF At
  <2>5. sub2[y] = sub[y] \cup {z} /\ sub2[B[y]] = sub[B[y]] /\ sub2[z] = {z}
    BY <1>1, <1>2, <2>1, <2>2, <2>4
  <2>6. /\ sub2[y] = {y} \cup {z} \cup sub[B[y]] /\ y \notin {z} /\ {z} \cap sub[B[y]] = {}
    BY <2>1, <2>3, <2>5 DEF At
  <2>7. P2[z] = y /\ (B[y] # NIL => P2[B[y]] = y)
    BY <1>1, <1>3, <2>1, <2>2 DEF At
  <2> QED BY <2>1, <2>2, <2>4, <2>5, <2>6, <2>7 DEF At
<1>9. \A n \in M2 : At(n, A2, B2, P2, M2, sub2)
  BY <1>6, <1>7, <1>8, <1>1
<1> QED BY <1>1, <1>2, <1>3, <1>4, <1>5, <1>9 DEF Shape, sub2

LEMMA HangSorted ==
  ASSUME NEW r, NEW A, NEW B, NEW P, NEW M, NEW sub, Shape(r, A, B, P, M, sub),
         NEW K \in [Node -> Int], Sorted(A, B, K, M, sub),
         NEW z \in Node, z \notin M, NEW y \in M \cup {NIL}, y # NIL => A[y] = NIL,
         InOrder(z, y, A, B, K, M, sub),
         NEW r2, NEW A2, NEW B2, NEW P2, Hung(z, y, r, A, B, P, r2, A2, B2, P2)
  PROVE  Sorted(A2, B2, K, M \cup {z}, HungSub(z, y, sub))
<1> DEFINE sub2 == HungSub(z, y, sub)
<1>1. /\ M \subseteq D /\ NIL \notin M /\ NIL \in D /\ z \in D /\ z # NIL /\ sub[NIL] = {}
  BY NilNotNode DEF Shape
<1>2. \A n \in D : sub2[n] = IF n = z THEN {z}
                             ELSE IF y \in sub[n] THEN sub[n] \cup {z} ELSE sub[n]
  BY DEF HungSub
<1> HIDE DEF sub2
<1>3. /\ \A n \in D : A2[n] = IF n = z THEN NIL ELSE IF n = y /\ y # NIL THEN z ELSE A[n]
      /\ \A n \in D : B2[n] = IF n = z THEN NIL ELSE B[n]
  BY DEF Hung
<1>4. A2[z] = NIL /\ B2[z] = NIL /\ sub2[NIL] = {} /\ sub2[z] = {z}
  BY <1>1, <1>2, <1>3
<1>5. ASSUME NEW n \in M
      PROVE  /\ \A m \in sub2[A2[n]] : K[m] <= K[n]
             /\ \A m \in sub2[B2[n]] : K[n] <= K[m]
  <2>1. A[n] \in M \cup {NIL} /\ B[n] \in M \cup {NIL} /\ n \in D /\ n # z
    BY <1>1 DEF Shape, At
  <2>2. /\ \A m \in sub[A[n]] : K[m] <= K[n]
        /\ \A m \in sub[B[n]] : K[n] <= K[m]
    BY DEF Sorted
  <2>3. /\ y \in sub[A[n]] => K[z] <= K[n]
        /\ y \in sub[B[n]] => K[n] <= K[z]
        /\ y # NIL => K[z] <= K[y]
    BY DEF InOrder
  <2>4. A[n] \in D /\ B[n] \in D /\ A[n] # z /\ B[n] # z
    BY <1>1, <2>1
  <2>5. B2[n] = B[n] /\ \A m \in sub2[B[n]] : m \in sub[B[n]] \/ (m = z /\ y \in sub[B[n]])
    <3>1. sub2[B[n]] = IF y \in sub[B[n]] THEN sub[B[n]] \cup {z} ELSE sub[B[n]]
      BY <1>2, <2>4
    <3>2. B2[n] = B[n]
      BY <1>3, <2>1
    <3> QED BY <3>1, <3>2
  <2>6. CASE n = y /\ y # NIL
    BY <1>3, <1>4, <2>1, <2>2, <2>3, <2>5, <2>6
  <2>7. CASE ~(n = y /\ y # NIL)
    <3>1. A2[n] = A[n] /\ \A m \in sub2[A[n]] : m \in sub[A[n]] \/ (m = z /\ y \in sub[A[n]])
      <4>1. sub2[A[n]] = IF y \in sub[A[n]] THEN sub[A[n]] \cup {z} ELSE sub[A[n]]
        BY <1>2, <2>4
      <4>2. A2[n] = A[n]
        BY <1>3, <2>1, <2>7
      <4> QED BY <4>1, <4>2
    <3> QED BY <2>2, <2>3, <2>5, <3>1
  <2> QED BY <2>6, <2>7
<1> QED BY <1>4, <1>5 DEF Sorted, sub2

LEMMA HangColors ==
  ASSUME NEW r, NEW A, NEW B, NEW P, NEW M, NEW sub, Shape(r, A, B, P, M, sub),
         NEW C, NEW bh, Colored(r, A, B, C, M, bh, NIL),
         NEW z \in Node, z \notin M, NEW y \in M \cup {NIL}, y = NIL <=> r = NIL,
         y # NIL => A[y] = NIL,
         NEW r2, NEW A2, NEW B2, NEW P2, Hung(z, y, r, A, B, P, r2, A2, B2, P2)
  PROVE  Colored(r2, A2, B2, Upd(C, z, "RED"), M \cup {z}, Upd(bh, z, 0), z)
<1> DEFINE C2 == Upd(C, z, "RED")
           bh2 == Upd(bh, z, 0)
<1>1. M \subseteq D /\ NIL \notin M /\ NIL \in D /\ z \in D /\ z # NIL /\ r \in M \cup {NIL}
  BY NilNotNode DEF Shape
<1>2. /\ C \in [D -> Color] /\ bh \in [D -> Nat] /\ C[NIL] = "BLACK" /\ bh[NIL] = 0
      /\ C[r] = "BLACK" \/ r = NIL
      /\ \A n \in M : HeightAt(n, A, B, C, bh) /\ ColorAt(n, A, B, C, NIL)
  BY DEF Colored, ColorTypes
<1>3. /\ C2 \in [D -> Color] /\ bh2 \in [D -> Nat]
      /\ C2[z] = "RED" /\ bh2[z] = 0
      /\ \A n \in D : n # z => C2[n] = C[n] /\ bh2[n] = bh[n]
  BY <1>1, <1>2 DEF Upd, Color
<1> HIDE DEF C2, bh2
<1>4. /\ r2 = IF y = NIL THEN z ELSE r
      /\ \A n \in D : A2[n] = IF n = z THEN NIL ELSE IF n = y /\ y # NIL THEN z ELSE A[n]
      /\ \A n \in D : B2[n] = IF n = z THEN NIL ELSE B[n]
  BY DEF Hung
<1>5. ColorTypes(C2, bh2) /\ (C2[r2] = "BLACK" \/ r2 = z)
  BY <1>1, <1>2, <1>3, <1>4 DEF ColorTypes
<1>6. HeightAt(z, A2, B2, C2, bh2) /\ ColorAt(z, A2, B2, C2, z)
  <2>1. A2[z] = NIL /\ B2[z] = NIL /\ bh2[NIL] = 0 /\ C2[NIL] = "BLACK"
    BY <1>1, <1>2, <1>3, <1>4
  <2> QED BY <1>3, <2>1 DEF HeightAt, ColorAt, Black
<1>7. ASSUME NEW n \in M PROVE HeightAt(n, A2, B2, C2, bh2) /\ ColorAt(n, A2, B2, C2, z)
  <2>1. A[n] \in M \cup {NIL} /\ B[n] \in M \cup {NIL} /\ n \in D /\ n # z
    BY <1>1 DEF Shape, At
  <2>2. A[n] \in D /\ B[n] \in D /\ A[n] # z /\ B[n] # z
    BY <1>1, <2>1
  <2>3. /\ C2[n] = C[n] /\ bh2[n] = bh[n] /\ bh2[A2[n]] = bh[A[n]] /\ bh2[B2[n]] = bh[B[n]]
        /\ A2[n] = z \/ C2[A2[n]] = C[A[n]]
        /\ B2[n] = z \/ C2[B2[n]] = C[B[n]]
    BY <1>2, <1>3, <1>4, <2>1, <2>2
  <2>4. HeightAt(n, A, B, C, bh) /\ ColorAt(n, A, B, C, NIL)
    BY <1>2
  <2> QED BY <1>2, <2>3, <2>4 DEF HeightAt, ColorAt
<1>8. Colored(r2, A2, B2, C2, M \cup {z}, bh2, z)
  BY <1>5, <1>6, <1>7 DEF Colored
<1> QED BY <1>8 DEF C2, bh2

-----------------------------------------------------------------------------
(* The node under which a key is inserted.                                 *)

\* The walk down for key k is at x, under y.
Walk(t, M, sub, k, x, y) ==
  /\ x \in M \cup {NIL} /\ y \in M \cup {NIL}
  /\ y = NIL => x = t.root
  /\ y # NIL => x = IF k < Key[y] THEN t.left[y] ELSE t.right[y]
  /\ \A n \in M : /\ y \in sub[t.left[n]] => k <= Key[n]
                  /\ y \in sub[t.right[n]] => Key[n] <= k

LEMMA WalkStep ==
  ASSUME NEW t, NEW M, NEW sub, TreeFrom("left", t, M, sub), NEW k \in Nat,
         NEW x, NEW y, Walk(t, M, sub, k, x, y), x # NIL,
         NEW x2, x2 = IF k < Key[x] THEN t.left[x] ELSE t.right[x]
  PROVE  Walk(t, M, sub, k, x2, x) /\ (x2 # NIL => Cardinality(sub[x2]) < Cardinality(sub[x]))
<1> DEFINE A == t.left
           B == t.right
           P == t.parent
           r == t.root
<1>1. Shape(r, A, B, P, M, sub)
  BY DEF TreeFrom, ShapeFrom, Opposite, Trees
<1>2. /\ x \in M /\ y \in M \cup {NIL}
      /\ y = NIL => x = r
      /\ y # NIL => x = IF k < Key[y] THEN A[y] ELSE B[y]
      /\ \A n \in M : (y \in sub[A[n]] => k <= Key[n]) /\ (y \in sub[B[n]] => Key[n] <= k)
      /\ x2 = IF k < Key[x] THEN A[x] ELSE B[x]
  BY DEF Walk
<1> HIDE DEF A, B, P, r
<1>3. x2 \in M \cup {NIL} /\ (x2 # NIL => Cardinality(sub[x2]) < Cardinality(sub[x]))
  <2>1. A[x] \in M \cup {NIL} /\ B[x] \in M \cup {NIL}
    BY <1>1, <1>2 DEF Shape, At
  <2> QED BY <1>1, <1>2, <2>1, SubtreeSize
<1>4. /\ x # NIL /\ P[x] \in M \cup {NIL} /\ (P[x] = NIL <=> x = r)
      /\ x # r => A[P[x]] # B[P[x]]
  BY <1>1, <1>2, Parents
<1>5. y # NIL => P[x] = y
  <2>1. y # NIL => At(y, A, B, P, M, sub)
    BY <1>1, <1>2 DEF Shape
  <2> QED BY <1>2, <1>4, <2>1 DEF At
<1>6. ASSUME NEW n \in M
      PROVE  /\ x \in sub[A[n]] => k <= Key[n]
             /\ x \in sub[B[n]] => Key[n] <= k
  <2>1. /\ A[n] \in M \cup {NIL} /\ B[n] \in M \cup {NIL} /\ sub[NIL] = {} /\ n \in Node
        /\ A[n] # NIL => P[A[n]] = n
        /\ B[n] # NIL => P[B[n]] = n
    BY <1>1 DEF Shape, At
  <2>2. Key[n] \in Nat
    BY <2>1, RBTreeAssumption
  <2>3. ASSUME NEW c \in M, P[c] = n, x \in sub[c] PROVE (x = c /\ P[x] = n /\ y = n) \/ y \in sub[c]
    <3>1. c # r
      <4>1. r \in M /\ n # NIL /\ P[r] = NIL
        BY <1>1, <2>3, Parents, NilNotNode DEF Shape
      <4> QED BY <2>3, <4>1
    <3>2. CASE x = c
      <4>1. x # r /\ y # NIL
        BY <1>2, <3>1, <3>2
      <4> QED BY <1>5, <2>3, <3>2, <4>1
    <3>3. CASE x # c
      <4>1. P[x] \in sub[c] /\ P[x] \in M
        BY <1>1, <2>3, <3>3, Subtrees
      <4>2. y # NIL
        <5>1. NIL \notin M
          BY <1>1, NilNotNode DEF Shape
        <5> QED BY <1>2, <1>4, <4>1, <5>1
      <4> QED BY <1>5, <4>1, <4>2
    <3> QED BY <3>2, <3>3
  <2>4. ASSUME x \in sub[A[n]] PROVE k <= Key[n]
    <3>1. A[n] \in M /\ P[A[n]] = n
      BY <2>1, <2>4
    <3>2. (x = A[n] /\ P[x] = n /\ y = n) \/ y \in sub[A[n]]
      BY <2>3, <2>4, <3>1
    <3>3. CASE x = A[n] /\ P[x] = n /\ y = n
      <4>1. y # NIL /\ x # r
        BY <1>4, <1>1, <3>3, NilNotNode DEF Shape
      <4> QED BY <1>2, <1>4, <2>2, <3>3, <4>1
    <3> QED BY <1>2, <3>2, <3>3
  <2>5. ASSUME x \in sub[B[n]] PROVE Key[n] <= k
    <3>1. B[n] \in M /\ P[B[n]] = n
      BY <2>1, <2>5
    <3>2. (x = B[n] /\ P[x] = n /\ y = n) \/ y \in sub[B[n]]
      BY <2>3, <2>5, <3>1
    <3>3. CASE x = B[n] /\ P[x] = n /\ y = n
      <4>1. y # NIL /\ x # r
        BY <1>4, <1>1, <3>3, NilNotNode DEF Shape
      <4> QED BY <1>2, <1>4, <2>2, <3>3, <4>1
    <3> QED BY <1>2, <3>2, <3>3
  <2> QED BY <2>4, <2>5
<1> QED BY <1>2, <1>3, <1>4, <1>6 DEF Walk, A, B

\* The walk after i iterations.
WalkLoop(t, M, sub, k, i, st) ==
  \E x, y : /\ st = [x |-> x, y |-> y]
            /\ Walk(t, M, sub, k, x, y)
            /\ x # NIL => Cardinality(sub[x]) + i <= Cardinality(Node)

LEMMA WalkLoopStep ==
  ASSUME NEW t, NEW M, NEW sub, TreeFrom("left", t, M, sub), NEW k \in Nat,
         NEW i \in Nat, NEW st, WalkLoop(t, M, sub, k, i, st)
  PROVE  WalkLoop(t, M, sub, k, i + 1,
           IF st.x # NIL THEN [x |-> IF k < Key[st.x] THEN t.left[st.x] ELSE t.right[st.x],
                               y |-> st.x] ELSE st)
<1>1. PICK x, y : /\ st = [x |-> x, y |-> y]
                  /\ Walk(t, M, sub, k, x, y)
                  /\ x # NIL => Cardinality(sub[x]) + i <= Cardinality(Node)
  BY DEF WalkLoop
<1>2. st.x = x
  BY <1>1
<1>3. CASE x = NIL
  <2>1. WalkLoop(t, M, sub, k, i + 1, st)
    BY <1>1, <1>3 DEF WalkLoop
  <2> QED BY <1>2, <1>3, <2>1
<1>4. CASE x # NIL
  <2> DEFINE x2 == IF k < Key[x] THEN t.left[x] ELSE t.right[x]
  <2>1. Walk(t, M, sub, k, x2, x) /\ (x2 # NIL => Cardinality(sub[x2]) < Cardinality(sub[x]))
    BY <1>1, <1>4, WalkStep
  <2> HIDE DEF x2
  <2>2. x2 # NIL => Cardinality(sub[x2]) + (i + 1) <= Cardinality(Node)
    <3> SUFFICES ASSUME x2 # NIL PROVE Cardinality(sub[x2]) + (i + 1) <= Cardinality(Node)
      OBVIOUS
    <3>1. x \in M /\ x2 \in M
      BY <1>1, <1>4, <2>1 DEF Walk
    <3>2. Shape(t.root, t["left"], t["right"], t.parent, M, sub)
      BY DEF TreeFrom, ShapeFrom, Opposite
    <3>3. Cardinality(sub[x]) \in Nat /\ Cardinality(sub[x2]) \in Nat
      BY <3>1, <3>2, SubtreeSize
    <3> QED BY <1>1, <1>4, <2>1, <3>3, NodeCount
  <2>3. WalkLoop(t, M, sub, k, i + 1, [x |-> x2, y |-> x])
    BY <2>1, <2>2 DEF WalkLoop
  <2> QED BY <1>2, <1>4, <2>3 DEF x2
<1> QED BY <1>3, <1>4

LEMMA WalkEnd ==
  ASSUME NEW t, NEW M, NEW sub, TreeFrom("left", t, M, sub), NEW k \in Nat,
         NEW st, WalkLoop(t, M, sub, k, Cardinality(Node), st)
  PROVE  Walk(t, M, sub, k, NIL, st.y)
<1>1. PICK x, y : /\ st = [x |-> x, y |-> y]
                  /\ Walk(t, M, sub, k, x, y)
                  /\ x # NIL => Cardinality(sub[x]) + Cardinality(Node) <= Cardinality(Node)
  BY DEF WalkLoop
<1>2. x = NIL
  <2> SUFFICES ASSUME x # NIL PROVE FALSE
    OBVIOUS
  <2>1. x \in M /\ Shape(t.root, t["left"], t["right"], t.parent, M, sub)
    BY <1>1 DEF TreeFrom, ShapeFrom, Opposite, Walk
  <2>2. x \in sub[x]
    BY <2>1, Parents
  <2>3. sub[x] \subseteq Node
    BY <2>1, NilNotNode DEF Shape
  <2>4. 0 < Cardinality(sub[x]) /\ Cardinality(sub[x]) \in Nat
    BY <2>2, <2>3, Larger, FS_EmptySet
  <2> QED BY <1>1, <2>4, NodeCount
<1> QED BY <1>1, <1>2

LEMMA InsertionPointOK ==
  ASSUME NEW t, NEW M, NEW sub, TreeFrom("left", t, M, sub), NEW k \in Nat
  PROVE  Walk(t, M, sub, k, NIL, InsertionPoint(t, k))
<1> DEFINE N == Cardinality(Node)
           start == [x |-> t.root, y |-> NIL]
           After(st) == IF st.x # NIL
                        THEN [x |-> IF k < Key[st.x] THEN t.left[st.x] ELSE t.right[st.x], y |-> st.x]
                        ELSE st
           Eq(f) == f = [i \in 0 .. N |-> IF i = 0 THEN start ELSE After(f[i - 1])]
           g == CHOOSE f : Eq(f)
<1>1. InsertionPoint(t, k) = g[N].y
  BY Zenon DEF InsertionPoint, While
<1>n. N \in Nat
  BY NodeCount
<1>3. ASSUME NEW st, NEW i \in Nat, WalkLoop(t, M, sub, k, i, st)
      PROVE  WalkLoop(t, M, sub, k, i + 1, After(st))
  BY <1>3, WalkLoopStep
<1> HIDE DEF After, g, N
<1>2. WalkLoop(t, M, sub, k, 0, start)
  <2>1. /\ t.root \in M \cup {NIL} /\ sub[t.root] = M /\ M \subseteq Node /\ sub[NIL] = {}
        /\ t.left = t["left"] /\ t.right = t["right"] /\ sub \in [D -> SUBSET M]
        /\ \A n \in M : t["left"][n] \in M \cup {NIL} /\ t["right"][n] \in M \cup {NIL}
    BY DEF TreeFrom, ShapeFrom, Shape, At, Opposite, Trees
  <2>2. NIL \notin M /\ M \subseteq D /\ NIL \in D
    BY <2>1, NilNotNode
  <2>3. \A n \in M : NIL \notin sub[t.left[n]] /\ NIL \notin sub[t.right[n]]
    BY <2>1, <2>2
  <2>4. Walk(t, M, sub, k, t.root, NIL)
    BY <2>1, <2>3 DEF Walk
  <2>5. Cardinality(M) <= Cardinality(Node) /\ Cardinality(M) \in Nat
    BY <2>1, RBTreeAssumption, FS_Subset, FS_CardinalityType
  <2>6. Cardinality(sub[t.root]) + 0 <= Cardinality(Node)
    BY <2>1, <2>5, NodeCount
  <2> QED BY <2>4, <2>6 DEF WalkLoop
<1>4. \E f : Eq(f)
  <2> DEFINE V == {st \in [x : D, y : D] : \E i \in Nat : WalkLoop(t, M, sub, k, i, st)}
             next == [st \in V |-> After(st)]
  <2>1. \A st, i : WalkLoop(t, M, sub, k, i, st) => st \in [x : D, y : D]
    BY NilNotNode DEF WalkLoop, Walk, TreeFrom, ShapeFrom, Shape
  <2>2. start \in V
    BY <1>2, <2>1
  <2>3. next \in [V -> V]
    BY <1>3, <2>1
  <2>4. \A st \in V : next[st] = After(st)
    OBVIOUS
  <2> HIDE DEF V, next, start
  <2>l. PICK f : Iterates(f, N, V, start, next)
    BY <1>n, <2>2, <2>3, LoopExists
  <2>5. f \in [0 .. N -> V] /\ f[0] = start /\ \A i \in 1 .. N : f[i] = next[f[i - 1]]
    BY <2>l DEF Iterates
  <2>6. ASSUME NEW i \in 0 .. N PROVE f[i] = IF i = 0 THEN start ELSE After(f[i - 1])
    <3>1. CASE i # 0
      <4>1. i \in 1 .. N /\ i - 1 \in 0 .. N
        BY <1>n, <3>1
      <4> QED BY <2>4, <2>5, <3>1, <4>1
    <3> QED BY <2>5, <3>1
  <2>7. Eq(f)
    BY <2>5, <2>6
  <2> QED BY <2>7
<1>5. Eq(g)
  BY <1>4 DEF g
<1>6. g[0] = start /\ \A i \in 1 .. N : g[i] = After(g[i - 1])
  <2> HIDE DEF start
  <2> QED BY <1>5, <1>n
<1>7. WalkLoop(t, M, sub, k, N, g[N])
  <2> DEFINE S == {i \in Nat : WalkLoop(t, M, sub, k, i, g[i])}
  <2>1. 0 \in S
    BY <1>2, <1>6
  <2>2. ASSUME NEW i \in 0 .. N - 1, i \in S PROVE i + 1 \in S
    <3>1. i \in Nat /\ i + 1 \in 1 .. N /\ (i + 1) - 1 = i
      BY <1>n
    <3>2. g[i + 1] = After(g[i])
      BY <1>6, <3>1
    <3> QED BY <1>3, <2>2, <3>1, <3>2
  <2> HIDE DEF S
  <2>3. N \in S
    BY <1>n, <2>1, <2>2, IntervalInduction
  <2> QED BY <2>3 DEF S
<1> QED BY <1>1, <1>7, WalkEnd DEF N

-----------------------------------------------------------------------------
(* Insertion.                                                              *)

\* u is t with the red leaf z under y, on side s.
HungFrom(s, z, y, t, u) ==
  /\ u \in Trees /\ u.color = Upd(t.color, z, "RED")
  /\ Hung(z, y, t.root, t[s], t[Opposite(s)], t.parent,
          u.root, u[s], u[Opposite(s)], u.parent)

LEMMA HangView ==
  ASSUME NEW t \in Trees, NEW z \in Node, NEW y \in D, y # z,
         NEW s \in Side, y # NIL => s = IF Key[z] < Key[y] THEN "left" ELSE "right",
         NEW t1, Put(t, "parent", z, y) = t1,
         NEW t2, (IF y = NIL THEN [t1 EXCEPT !.root = z]
                  ELSE Put(t1, IF Key[z] < Key[y] THEN "left" ELSE "right", y, z)) = t2,
         NEW t3, Put(Put(t2, "left", z, NIL), "right", z, NIL) = t3,
         NEW u, Paint(t3, z, "RED") = u
  PROVE  HungFrom(s, z, y, t, u)
<1> DEFINE o == Opposite(s)
           A == t[s]
           B == t[o]
           P == t.parent
<1>o. o \in Side /\ Opposite(o) = s /\ Side = {s, o}
  BY DEF Side, Opposite
<1>d. z \in D /\ z \in W /\ y \in W /\ NIL \in W /\ z # NIL
  BY NilNotNode
<1> HIDE DEF o, A, B, P
<1>0. A \in [D -> W] /\ B \in [D -> W] /\ P \in [D -> W] /\ t.root \in D
  BY TreeFields DEF o, A, B, P
<1>1. /\ t1 \in Trees /\ t1.root = t.root /\ t1.color = t.color /\ t1.parent = Upd(P, z, y)
      /\ t1[s] = A /\ t1[o] = B
  <2>1. ParentPut(t, z, y, t1)
    BY <1>d, PutParent
  <2> QED BY <1>o, <2>1 DEF ParentPut, A, B, P
<1>2. /\ t2 \in Trees /\ t2.root = (IF y = NIL THEN z ELSE t.root) /\ t2.color = t.color
      /\ t2.parent = Upd(P, z, y)
      /\ t2[s] = (IF y = NIL THEN A ELSE Upd(A, y, z)) /\ t2[o] = B
  <2>1. CASE y = NIL
    <3>1. t2 = [t1 EXCEPT !.root = z]
      BY <2>1
    <3>2. t2 \in Trees /\ t2.color = t1.color /\ t2.parent = t1.parent /\ t2.root = z
      BY <1>1, <1>d, <3>1 DEF Trees
    <3>3. t2[s] = t1[s] /\ t2[o] = t1[o]
      BY <1>o, <1>1, <3>1 DEF Trees, Side
    <3> QED BY <1>1, <2>1, <3>2, <3>3
  <2>2. CASE y # NIL
    <3>1. Put(t1, s, y, z) = t2
      BY <2>2
    <3>2. ChildPut(t1, s, y, z, t2)
      BY <1>1, <1>d, <3>1, PutChild
    <3> QED BY <1>1, <2>2, <3>2 DEF ChildPut, o
  <2> QED BY <2>1, <2>2
<1>3. /\ t3 \in Trees /\ t3.root = t2.root /\ t3.color = t.color /\ t3.parent = t2.parent
      /\ t3[s] = Upd(t2[s], z, NIL) /\ t3[o] = Upd(t2[o], z, NIL)
  <2> DEFINE v == Put(t2, "left", z, NIL)
  <2>1. ChildPut(t2, "left", z, NIL, v)
    BY <1>2, <1>d, PutChild DEF Side
  <2>2. Put(v, "right", z, NIL) = t3
    OBVIOUS
  <2> HIDE DEF v
  <2>3. v \in Trees
    BY <2>1 DEF ChildPut
  <2>4. ChildPut(v, "right", z, NIL, t3)
    BY <1>d, <2>2, <2>3, PutChild DEF Side
  <2>5. /\ v["left"] = Upd(t2["left"], z, NIL) /\ v["right"] = t2["right"]
        /\ v.root = t2.root /\ v.color = t2.color /\ v.parent = t2.parent
    BY <2>1 DEF ChildPut, Opposite
  <2>6. /\ t3["left"] = v["left"] /\ t3["right"] = Upd(v["right"], z, NIL) /\ t3 \in Trees
        /\ t3.root = v.root /\ t3.color = v.color /\ t3.parent = v.parent
    BY <2>4 DEF ChildPut, Opposite
  <2>7. \A q \in Side : t3[q] = Upd(t2[q], z, NIL)
    BY <2>5, <2>6 DEF Side
  <2> QED BY <1>o, <1>2, <2>5, <2>6, <2>7
<1>4. /\ u \in Trees /\ u.root = t3.root /\ u.color = Upd(t.color, z, "RED")
      /\ u.parent = t3.parent /\ u[s] = t3[s] /\ u[o] = t3[o]
  <2>1. Painted(t3, z, "RED", u)
    BY <1>3, <1>d, PaintColor
  <2> QED BY <1>o, <1>3, <2>1 DEF Painted
<1>5. u[s] \in [D -> W] /\ u[o] \in [D -> W] /\ u.parent \in [D -> W] /\ t2[s] \in [D -> W]
  BY <1>o, <1>2, <1>4, TreeFields DEF o
<1>6. ASSUME NEW n \in D
      PROVE  u[s][n] = IF n = z THEN NIL ELSE IF n = y /\ y # NIL THEN z ELSE A[n]
  <2>1. u[s][n] = IF n = z THEN NIL ELSE t2[s][n]
    BY <1>3, <1>4, <1>5 DEF Upd
  <2>2. t2[s][n] = IF n = y /\ y # NIL THEN z ELSE A[n]
    BY <1>0, <1>2 DEF Upd
  <2> QED BY <2>1, <2>2
<1>7. ASSUME NEW n \in D PROVE u[o][n] = IF n = z THEN NIL ELSE B[n]
  BY <1>0, <1>2, <1>3, <1>4 DEF Upd
<1>8. ASSUME NEW n \in D PROVE u.parent[n] = IF n = z THEN y ELSE P[n]
  BY <1>0, <1>2, <1>3, <1>4 DEF Upd
<1>9. u.root = IF y = NIL THEN z ELSE t.root
  BY <1>2, <1>3, <1>4
<1>10. Hung(z, y, t.root, A, B, P, u.root, u[s], u[o], u.parent)
  BY <1>5, <1>6, <1>7, <1>8, <1>9 DEF Hung
<1> QED BY <1>4, <1>10 DEF HungFrom, A, B, P, o

LEMMA HangTree ==
  ASSUME NEW t, NEW M, NEW sub, NEW bh, TreeFrom("left", t, M, sub),
         ColorsFrom("left", t, M, bh, NIL), NEW z \in Node, z \notin M,
         NEW y, Walk(t, M, sub, Key[z], NIL, y),
         NEW s \in Side, y # NIL => s = IF Key[z] < Key[y] THEN "left" ELSE "right",
         NEW u, HungFrom(s, z, y, t, u)
  PROVE  \E sub2, bh2 : InsertOK("left", u, M \cup {z}, z, sub2, bh2)
<1> DEFINE o == Opposite(s)
           A == t[s]
           B == t[o]
           P == t.parent
           r == t.root
           K == KeyFrom(s)
           A2 == u[s]
           B2 == u[o]
           P2 == u.parent
           r2 == u.root
           sub2 == HungSub(z, y, sub)
           bh2 == Upd(bh, z, 0)
           M2 == M \cup {z}
<1>o. o \in Side /\ Opposite(o) = s
  BY DEF Side, Opposite
<1> HIDE DEF o, A, B, P, r, A2, B2, P2, r2, sub2, bh2, K, M2
<1>1. TreeFrom(s, t, M, sub) /\ ColorsFrom(s, t, M, bh, NIL)
  BY AnySide DEF Side
<1>2. /\ t \in Trees /\ Shape(r, A, B, P, M, sub) /\ Sorted(A, B, K, M, sub)
      /\ Colored(r, A, B, t.color, M, bh, NIL) /\ K \in [Node -> Int]
  BY <1>1, KeyTypes DEF TreeFrom, ShapeFrom, ColorsFrom, o, r, A, B, P, K
<1>3. /\ u \in Trees /\ u.color = Upd(t.color, z, "RED") /\ Hung(z, y, r, A, B, P, r2, A2, B2, P2)
  BY DEF HungFrom, o, r, A, B, P, r2, A2, B2, P2
<1>4. /\ y \in M \cup {NIL} /\ (y = NIL => t.root = NIL)
      /\ y # NIL => NIL = IF Key[z] < Key[y] THEN t.left[y] ELSE t.right[y]
      /\ \A n \in M : /\ y \in sub[t.left[n]] => Key[z] <= Key[n]
                      /\ y \in sub[t.right[n]] => Key[n] <= Key[z]
      /\ t.left = t["left"] /\ t.right = t["right"]
  BY <1>2 DEF Walk, Trees
<1>5. y # NIL => A[y] = NIL
  BY <1>4 DEF A
<1>6. y = NIL <=> r = NIL
  <2>1. ASSUME y # NIL PROVE r # NIL
    <3>1. y \in M
      BY <1>4, <2>1
    <3>2. r \in M
      BY <1>2, <3>1, Parents
    <3> QED BY <1>2, <3>2, NilNotNode DEF Shape
  <2> QED BY <1>4, <2>1 DEF r
<1>7. InOrder(z, y, A, B, K, M, sub)
  <2>1. M \subseteq Node /\ \A n \in Node : Key[n] \in Nat
    BY <1>2, RBTreeAssumption DEF Shape
  <2>2. CASE s = "left"
    <3>1. A = t.left /\ B = t.right /\ K = Key
      BY <1>4, <2>2, KeyTypes DEF A, B, K, o, Opposite
    <3>2. y # NIL => Key[z] < Key[y]
      BY <2>2
    <3>3. y # NIL => Key[z] <= Key[y]
      BY <1>4, <2>1, <3>2
    <3> QED BY <1>4, <3>1, <3>3 DEF InOrder
  <2>3. CASE s = "right"
    <3>1. A = t.right /\ B = t.left /\ K = Neg(Key)
      BY <1>4, <2>3, KeyTypes DEF A, B, K, o, Opposite
    <3>2. y # NIL => ~(Key[z] < Key[y])
      BY <2>3
    <3>3. \A n, m \in Node : K[n] = 0 - Key[n] /\ (Key[m] <= Key[n] => K[n] <= K[m])
      BY <2>1, <3>1 DEF Neg
    <3>4. y # NIL => Key[y] <= Key[z]
      BY <1>4, <2>1, <3>2
    <3>5. y # NIL => K[z] <= K[y]
      BY <1>4, <2>1, <3>3, <3>4
    <3> QED BY <1>4, <2>1, <3>1, <3>3, <3>5 DEF InOrder
  <2> QED BY <2>2, <2>3 DEF Side
<1>8. Shape(r2, A2, B2, P2, M2, sub2)
  BY <1>2, <1>3, <1>4, <1>5, <1>6, HangShape DEF M2, sub2
<1>9. Sorted(A2, B2, K, M2, sub2)
  BY <1>2, <1>3, <1>4, <1>5, <1>7, HangSorted DEF M2, sub2
<1>10. Colored(r2, A2, B2, u.color, M2, bh2, z)
  BY <1>2, <1>3, <1>4, <1>5, <1>6, HangColors DEF M2, bh2
<1>11. TreeFrom(s, u, M2, sub2) /\ ColorsFrom(s, u, M2, bh2, z)
  BY <1>3, <1>8, <1>9, <1>10 DEF TreeFrom, ShapeFrom, ColorsFrom, o, r2, A2, B2, P2, K
<1>12. TreeFrom("left", u, M2, sub2) /\ ColorsFrom("left", u, M2, bh2, z)
  BY <1>11, AnySide DEF Side
<1>13. z \in M2 /\ u.color[z] = "RED"
  <2>1. t.color \in [D -> Color] /\ z \in D
    BY <1>2, NilNotNode DEF Trees, Color
  <2> QED BY <1>3, <2>1 DEF Upd, M2
<1> QED BY <1>12, <1>13 DEF InsertOK, M2

LEMMA InsertKeeps ==
  ASSUME NEW z \in Node, RedBlack(tree, members), rbtree_insert(z)
  PROVE  RedBlack(tree', members')
<1> DEFINE y == InsertionPoint(tree, Key[z])
           s == IF Key[z] < Key[y] THEN "left" ELSE "right"
           t1 == Put(tree, "parent", z, y)
           t2 == IF y = NIL THEN [t1 EXCEPT !.root = z] ELSE Put(t1, s, y, z)
           t3 == Put(Put(t2, "left", z, NIL), "right", z, NIL)
           u == Paint(t3, z, "RED")
<1>1. z \notin members /\ tree' = rbtree_insert_fixup(u, z) /\ members' = members \cup {z}
  BY DEF rbtree_insert
<1> HIDE DEF y, s, t1, t2, t3, u
<1>2. PICK sub, bh : TreeFrom("left", tree, members, sub) /\ ColorsFrom("left", tree, members, bh, NIL)
  BY DEF RedBlack
<1>3. Key[z] \in Nat
  BY RBTreeAssumption
<1>4. Walk(tree, members, sub, Key[z], NIL, y)
  BY <1>2, <1>3, InsertionPointOK DEF y
<1>5. y \in D /\ y # z /\ tree \in Trees
  BY <1>1, <1>2, <1>4, NilNotNode DEF Walk, TreeFrom, ShapeFrom, Shape
<1>6. s \in Side
  BY DEF s, Side
<1>7. HungFrom(s, z, y, tree, u)
  <2>1. /\ Put(tree, "parent", z, y) = t1
        /\ (IF y = NIL THEN [t1 EXCEPT !.root = z]
            ELSE Put(t1, IF Key[z] < Key[y] THEN "left" ELSE "right", y, z)) = t2
        /\ Put(Put(t2, "left", z, NIL), "right", z, NIL) = t3
        /\ Paint(t3, z, "RED") = u
    BY DEF t1, t2, t3, u, s
  <2>2. y # NIL => s = IF Key[z] < Key[y] THEN "left" ELSE "right"
    BY DEF s
  <2> QED BY <1>5, <1>6, <2>1, <2>2, HangView
<1>8. PICK sub2, bh2 : InsertOK("left", u, members \cup {z}, z, sub2, bh2)
  BY <1>1, <1>2, <1>4, <1>6, <1>7, HangTree DEF s
<1>9. RedBlack(rbtree_insert_fixup(u, z), members \cup {z})
  BY <1>8, InsertFixup
<1> QED BY <1>1, <1>9

-----------------------------------------------------------------------------
(* The cases of the fix-up after a deletion.                               *)

\* One black node is missing below n on the A side.
Short(n, A, B, C, bh) ==
  bh[n] = bh[A[n]] + 1 + Black(C[n]) /\ bh[n] = bh[B[n]] + Black(C[n])

\* The colors are correct, but that a black node is missing at x, the A child of d.
DelAt(r, A, B, P, C, M, bh, x, d) ==
  /\ ColorTypes(C, bh) /\ C[r] = "BLACK"
  /\ x \in M \cup {NIL} /\ C[x] = "BLACK"
  /\ d \in M /\ P[x] = d /\ A[d] = x
  /\ Short(d, A, B, C, bh)
  /\ \A n \in M : (n # d => HeightAt(n, A, B, C, bh)) /\ ColorAt(n, A, B, C, NIL)

DelAtSome(r, A, B, P, C, M, x, d) == \E bh : DelAt(r, A, B, P, C, M, bh, x, d)

\* So x has a sibling, one black node higher.
LEMMA SiblingNode ==
  ASSUME NEW r, NEW A, NEW B, NEW P, NEW M, NEW sub, Shape(r, A, B, P, M, sub),
         NEW C, NEW bh, NEW x, NEW d, DelAt(r, A, B, P, C, M, bh, x, d),
         NEW w, B[d] = w
  PROVE  /\ w \in M /\ w # NIL /\ P[w] = d /\ d # w /\ x # d /\ x # w /\ d # NIL
         /\ x \in D /\ w \in D /\ d \in D
         /\ bh[x] \in Nat /\ bh[w] = bh[x] + 1 /\ bh[d] = bh[w] + Black(C[d])
         /\ C[d] \in Color /\ C[w] \in Color
<1>1. /\ C \in [D -> Color] /\ bh \in [D -> Nat] /\ C[NIL] = "BLACK" /\ bh[NIL] = 0
      /\ x \in M \cup {NIL} /\ d \in M /\ P[x] = d /\ A[d] = x /\ Short(d, A, B, C, bh)
  BY DEF DelAt, ColorTypes
<1>2. At(d, A, B, P, M, sub) /\ NIL \in D /\ M \subseteq D /\ NIL \notin M
  BY <1>1, NilNotNode DEF Shape
<1>3. w \in M \cup {NIL} /\ w \in D /\ x \in D /\ d \in D
  BY <1>1, <1>2 DEF At
<1>4. bh[x] \in Nat /\ bh[w] \in Nat /\ bh[d] \in Nat /\ C[d] \in Color /\ C[w] \in Color
  BY <1>1, <1>3
<1>5. bh[w] = bh[x] + 1 /\ bh[d] = bh[w] + Black(C[d])
  <2>1. bh[d] = bh[x] + 1 + Black(C[d]) /\ bh[d] = bh[w] + Black(C[d])
    BY <1>1 DEF Short
  <2>2. Black(C[d]) \in Nat
    BY DEF Black
  <2> QED BY <1>4, <2>1, <2>2
<1>6. w # NIL
  BY <1>1, <1>4, <1>5
<1>7. w \in M /\ P[w] = d /\ w # x
  BY <1>2, <1>3, <1>4, <1>5, <1>6 DEF At
<1>8. w # d /\ x # d
  <2>1. d \in sub[d] /\ d \notin sub[w] /\ d \notin sub[x]
    BY <1>1, <1>2 DEF At
  <2> QED BY <2>1
<1> QED BY <1>1, <1>2, <1>3, <1>4, <1>5, <1>6, <1>7, <1>8

\* d and w change colors.
Exchanged(d, w, C, C2) ==
  C2 \in [D -> Color] /\ \A n \in D : C2[n] = IF n = d THEN "RED" ELSE IF n = w THEN "BLACK" ELSE C[n]

\* Case 1: a red sibling w takes the place of d; the new sibling is black.
LEMMA DeleteRedSibling ==
  ASSUME NEW r, NEW A, NEW B, NEW P, NEW M, NEW sub, Shape(r, A, B, P, M, sub),
         NEW C, NEW bh, NEW x, NEW d, DelAt(r, A, B, P, C, M, bh, x, d),
         NEW w, B[d] = w, C[w] = "RED", NEW C2, Exchanged(d, w, C, C2),
         NEW r2, NEW A2, NEW B2, NEW P2, Rotated(d, r, A, B, P, r2, A2, B2, P2)
  PROVE  DelAtSome(r2, A2, B2, P2, C2, M, x, d) /\ C2[B2[d]] = "BLACK" /\ C2[d] = "RED"
<1> DEFINE bh2 == [n \in D |-> IF n = d THEN bh[w] ELSE IF n = w THEN bh[d] ELSE bh[n]]
           e == A[w]
           f == B[w]
<1>1. /\ w \in M /\ w # NIL /\ P[w] = d /\ d # w /\ x # d /\ x # w /\ d # NIL
      /\ x \in D /\ w \in D /\ d \in D
      /\ bh[x] \in Nat /\ bh[w] = bh[x] + 1 /\ bh[d] = bh[w] + Black(C[d]) /\ C[d] \in Color
  BY SiblingNode
<1>2. /\ ColorTypes(C, bh) /\ C[r] = "BLACK" /\ x \in M \cup {NIL} /\ C[x] = "BLACK"
      /\ d \in M /\ P[x] = d /\ A[d] = x
      /\ \A n \in M : (n # d => HeightAt(n, A, B, C, bh)) /\ ColorAt(n, A, B, C, NIL)
  BY DEF DelAt
<1>c. C \in [D -> Color] /\ bh \in [D -> Nat] /\ C[NIL] = "BLACK" /\ bh[NIL] = 0
  BY <1>2 DEF ColorTypes
<1>n. NIL \in D /\ M \subseteq D /\ NIL \notin M
  BY NilNotNode DEF Shape
<1>3. /\ C2 \in [D -> Color]
      /\ \A n \in D : C2[n] = IF n = d THEN "RED" ELSE IF n = w THEN "BLACK" ELSE C[n]
  BY DEF Exchanged
<1>4. C[d] = "BLACK"
  <2>1. ColorAt(d, A, B, C, NIL)
    BY <1>2
  <2> QED BY <1>1, <2>1 DEF ColorAt, Color
<1>5. /\ e \in M \cup {NIL} /\ f \in M \cup {NIL} /\ e # d /\ e # w /\ f # d /\ f # w
      /\ P[d] # d /\ P[d] # w /\ (x = e => e = NIL) /\ (P[d] = NIL <=> d = r)
  BY <1>1, <1>2, RotationNodes
<1>6. /\ A2[w] = d /\ B2[w] = f /\ A2[d] = x /\ B2[d] = e /\ P2[x] = d
      /\ r2 = IF P[d] = NIL THEN w ELSE r
  BY <1>1, <1>2, <1>5, <1>n DEF Rotated
<1> HIDE DEF bh2, e, f
<1>7. e \in D /\ f \in D /\ bh[e] = bh[w] /\ bh[f] = bh[w] /\ C[e] = "BLACK" /\ C[f] = "BLACK"
  <2>1. HeightAt(w, A, B, C, bh) /\ ColorAt(w, A, B, C, NIL)
    BY <1>1, <1>2
  <2>2. e \in D /\ f \in D
    BY <1>5, <1>n
  <2>3. bh[e] \in Nat /\ bh[f] \in Nat
    BY <1>c, <2>2
  <2>4. bh[e] = bh[w] /\ bh[f] = bh[w]
    BY <2>1, <2>3 DEF HeightAt, Black, e, f
  <2> QED BY <1>c, <2>1, <2>2, <2>4 DEF ColorAt, e, f
<1>8. /\ C2[w] = C[d] /\ \A n \in D : n # d /\ n # w => C2[n] = C[n]
  BY <1>1, <1>3, <1>4
<1>9. /\ bh2[w] = bh[d] /\ bh2[d] = bh[w] /\ \A n \in D : n # d /\ n # w => bh2[n] = bh[n]
  BY <1>1 DEF bh2
<1>10. ColorTypes(C2, bh2)
  <2>1. bh2 \in [D -> Nat]
    BY <1>1, <1>c DEF bh2
  <2> QED BY <1>1, <1>c, <1>n, <1>3, <1>8, <1>9, <2>1 DEF ColorTypes
<1>11. ASSUME NEW n \in M, n # d, n # w
       PROVE  HeightAt(n, A2, B2, C2, bh2) /\ ColorAt(n, A2, B2, C2, NIL)
  <2>1. HeightAt(n, A, B, C, bh) /\ ColorAt(n, A, B, C, NIL)
    BY <1>2, <1>11
  <2>2. C2[n] = C[n] /\ C2[A2[n]] = C[A[n]] /\ C2[B2[n]] = C[B[n]]
    BY <1>1, <1>2, <1>8, <1>11, RotateOthers
  <2>3. bh2[n] = bh[n] /\ bh2[A2[n]] = bh[A[n]] /\ bh2[B2[n]] = bh[B[n]]
    BY <1>1, <1>2, <1>9, <1>11, RotateOthers
  <2> QED BY <1>c, <2>1, <2>2, <2>3 DEF HeightAt, ColorAt
<1>12. /\ C2[d] = "RED" /\ C2[w] = "BLACK" /\ C2[x] = "BLACK" /\ C2[e] = "BLACK" /\ C2[f] = "BLACK"
       /\ bh2[d] = bh[x] + 1 /\ bh2[w] = bh[x] + 2 /\ bh2[x] = bh[x] /\ bh2[e] = bh[x] + 1
       /\ bh2[f] = bh[x] + 1
  BY <1>1, <1>2, <1>3, <1>4, <1>5, <1>7, <1>8, <1>9 DEF Black
<1>13. HeightAt(w, A2, B2, C2, bh2) /\ ColorAt(w, A2, B2, C2, NIL)
  BY <1>1, <1>6, <1>12 DEF HeightAt, ColorAt, Black
<1>14. Short(d, A2, B2, C2, bh2) /\ ColorAt(d, A2, B2, C2, NIL)
  BY <1>1, <1>6, <1>12 DEF Short, ColorAt, Black
<1>15. C2[r2] = "BLACK"
  <2>1. r \in D
    BY <1>n DEF Shape
  <2> QED BY <1>1, <1>2, <1>3, <1>5, <1>6, <2>1
<1>16. DelAt(r2, A2, B2, P2, C2, M, bh2, x, d)
  BY <1>2, <1>6, <1>10, <1>11, <1>12, <1>13, <1>14, <1>15 DEF DelAt
<1> QED BY <1>6, <1>12, <1>16 DEF DelAtSome

\* Case 3, seen from the other side: the near nephew e takes the place of the sibling w.
LEMMA DeleteNearNephew ==
  ASSUME NEW r, NEW A, NEW B, NEW P, NEW M, NEW sub, Shape(r, A, B, P, M, sub),
         NEW C, NEW bh, NEW x, NEW d, DelAt(r, B, A, P, C, M, bh, x, d),
         NEW w, A[d] = w, C[w] = "BLACK", NEW e, B[w] = e, C[e] = "RED",
         C[A[w]] = "BLACK", NEW C2, Exchanged(w, e, C, C2),
         NEW r2, NEW A2, NEW B2, NEW P2, Rotated(w, r, A, B, P, r2, A2, B2, P2)
  PROVE  DelAtSome(r2, B2, A2, P2, C2, M, x, d) /\ C2[A2[d]] = "BLACK" /\ C2[A2[A2[d]]] = "RED"
<1> DEFINE bh2 == [n \in D |-> IF n = w THEN bh[e] ELSE IF n = e THEN bh[w] ELSE bh[n]]
           f == A[w]
           b == A[e]
           c == B[e]
<1>m. Shape(r, B, A, P, M, sub)
  BY MirrorShape
<1>1. /\ w \in M /\ w # NIL /\ P[w] = d /\ d # w /\ x # d /\ x # w /\ d # NIL
      /\ x \in D /\ w \in D /\ d \in D
  BY <1>m, SiblingNode
<1>2. /\ ColorTypes(C, bh) /\ C[r] = "BLACK" /\ x \in M \cup {NIL} /\ C[x] = "BLACK"
      /\ d \in M /\ P[x] = d /\ B[d] = x /\ Short(d, B, A, C, bh)
      /\ \A n \in M : (n # d => HeightAt(n, B, A, C, bh)) /\ ColorAt(n, B, A, C, NIL)
  BY DEF DelAt
<1>c. C \in [D -> Color] /\ bh \in [D -> Nat] /\ C[NIL] = "BLACK" /\ bh[NIL] = 0
  BY <1>2 DEF ColorTypes
<1>n. NIL \in D /\ M \subseteq D /\ NIL \notin M
  BY NilNotNode DEF Shape
<1>3. /\ C2 \in [D -> Color]
      /\ \A n \in D : C2[n] = IF n = w THEN "RED" ELSE IF n = e THEN "BLACK" ELSE C[n]
  BY DEF Exchanged
<1>4. e \in M /\ e # NIL /\ e \in D
  <2>1. At(w, A, B, P, M, sub)
    BY <1>1 DEF Shape
  <2> QED BY <1>c, <1>n, <2>1 DEF At
<1>5. /\ w # e /\ P[e] = w /\ b \in M \cup {NIL} /\ b # w /\ b # e
      /\ d # e /\ (b # NIL => d # b) /\ (b # NIL => P[b] = e)
      /\ f \in M \cup {NIL} /\ f # w /\ f # e
      /\ c \in M \cup {NIL} /\ c # w /\ c # e
  BY <1>1, <1>4, RotationNodes
<1>x. x # e /\ (x = b => b = NIL)
  BY <1>1, <1>2, <1>5
<1>6. /\ A2[e] = w /\ B2[e] = c /\ A2[w] = f /\ B2[w] = b /\ A2[d] = e /\ B2[d] = x
      /\ P2[x] = d /\ r2 = r
  BY <1>1, <1>2, <1>4, <1>5, <1>x, <1>n DEF Rotated
<1> HIDE DEF bh2, f, b, c
<1>d. f \in D /\ b \in D /\ c \in D
  BY <1>5, <1>n
<1>7. /\ bh[e] \in Nat /\ bh[w] = bh[e] + 1 /\ bh[f] = bh[e] /\ bh[b] = bh[e] /\ bh[c] = bh[e]
      /\ C[b] = "BLACK" /\ C[c] = "BLACK"
  <2>1. HeightAt(w, B, A, C, bh) /\ HeightAt(e, B, A, C, bh) /\ ColorAt(e, B, A, C, NIL)
    BY <1>1, <1>2, <1>4, <1>5
  <2>2. bh[e] \in Nat /\ bh[w] \in Nat /\ bh[f] \in Nat /\ bh[b] \in Nat /\ bh[c] \in Nat
    BY <1>c, <1>1, <1>4, <1>d
  <2>3. bh[w] = bh[e] + 1 /\ bh[f] = bh[e] /\ bh[b] = bh[e] /\ bh[c] = bh[e]
    BY <2>1, <2>2 DEF HeightAt, Black, f, b, c
  <2> QED BY <1>c, <2>1, <2>2, <2>3 DEF ColorAt, b, c
<1>8. /\ C2[e] = C[w] /\ \A n \in D : n # w /\ n # e => C2[n] = C[n]
  BY <1>4, <1>5, <1>3
<1>9. /\ bh2[e] = bh[w] /\ bh2[w] = bh[e] /\ \A n \in D : n # w /\ n # e => bh2[n] = bh[n]
  BY <1>1, <1>4, <1>5 DEF bh2
<1>10. ColorTypes(C2, bh2)
  <2>1. bh2 \in [D -> Nat]
    BY <1>1, <1>4, <1>c DEF bh2
  <2> QED BY <1>1, <1>4, <1>c, <1>n, <1>3, <1>8, <1>9, <2>1 DEF ColorTypes
<1>11. ASSUME NEW n \in M, n # w, n # e
       PROVE  /\ HeightAt(n, B, A, C, bh) => HeightAt(n, B2, A2, C2, bh2)
              /\ Short(n, B, A, C, bh) => Short(n, B2, A2, C2, bh2)
              /\ ColorAt(n, B2, A2, C2, NIL)
  <2>1. ColorAt(n, B, A, C, NIL)
    BY <1>2, <1>11
  <2>2. C2[n] = C[n] /\ C2[A2[n]] = C[A[n]] /\ C2[B2[n]] = C[B[n]]
    BY <1>1, <1>4, <1>8, <1>11, RotateOthers
  <2>3. bh2[n] = bh[n] /\ bh2[A2[n]] = bh[A[n]] /\ bh2[B2[n]] = bh[B[n]]
    BY <1>1, <1>4, <1>9, <1>11, RotateOthers
  <2> QED BY <1>c, <2>1, <2>2, <2>3 DEF HeightAt, ColorAt, Short
<1>12. /\ C2[w] = "RED" /\ C2[e] = "BLACK" /\ C2[f] = "BLACK" /\ C2[b] = "BLACK" /\ C2[c] = "BLACK"
       /\ bh2[w] = bh[e] /\ bh2[e] = bh[e] + 1 /\ bh2[f] = bh[e] /\ bh2[b] = bh[e] /\ bh2[c] = bh[e]
       /\ C2[x] = "BLACK"
  BY <1>1, <1>2, <1>3, <1>4, <1>5, <1>x, <1>d, <1>7, <1>8, <1>9 DEF f
<1>13. /\ HeightAt(w, B2, A2, C2, bh2) /\ ColorAt(w, B2, A2, C2, NIL)
       /\ HeightAt(e, B2, A2, C2, bh2) /\ ColorAt(e, B2, A2, C2, NIL)
  BY <1>6, <1>7, <1>12 DEF HeightAt, ColorAt, Black
<1>14. C2[r2] = "BLACK"
  <2>1. r \in M /\ P[r] = NIL
    BY <1>1, Parents
  <2>2. r # w /\ r # e /\ r \in D
    BY <1>1, <1>5, <1>n, <2>1
  <2> QED BY <1>2, <1>6, <1>8, <2>2
<1>15. DelAt(r2, B2, A2, P2, C2, M, bh2, x, d)
  BY <1>1, <1>2, <1>5, <1>6, <1>10, <1>11, <1>12, <1>13, <1>14 DEF DelAt
<1> QED BY <1>6, <1>12, <1>15 DEF DelAtSome

\* The colors of case 4: w gets the color of d, and d and the far nephew f are black.
Raised(d, w, f, C, C2) ==
  /\ C2 \in [D -> Color]
  /\ \A n \in D : C2[n] = IF n = f \/ n = d THEN "BLACK" ELSE IF n = w THEN C[d] ELSE C[n]

\* Case 4: the sibling w takes the place of d, and nothing is missing any more.
LEMMA DeleteRaiseSibling ==
  ASSUME NEW r, NEW A, NEW B, NEW P, NEW M, NEW sub, Shape(r, A, B, P, M, sub),
         NEW C, NEW bh, NEW x, NEW d, DelAt(r, A, B, P, C, M, bh, x, d),
         NEW w, B[d] = w, C[w] = "BLACK", NEW f, B[w] = f, C[f] = "RED",
         NEW C2, Raised(d, w, f, C, C2),
         NEW r2, NEW A2, NEW B2, NEW P2, Rotated(d, r, A, B, P, r2, A2, B2, P2)
  PROVE  Colorable(r2, A2, B2, C2, M, NIL)
<1> DEFINE bh1 == [n \in D |-> IF n = f THEN bh[f] + 1 ELSE bh[n]]
           C1 == [n \in D |-> IF n = f THEN "BLACK" ELSE C[n]]
           bh2 == [n \in D |-> IF n = d THEN bh[w] ELSE IF n = w THEN bh[d] ELSE bh1[n]]
           e == A[w]
<1>1. /\ w \in M /\ w # NIL /\ P[w] = d /\ d # w /\ x # d /\ x # w /\ d # NIL
      /\ x \in D /\ w \in D /\ d \in D
      /\ bh[x] \in Nat /\ bh[w] = bh[x] + 1 /\ bh[d] = bh[w] + Black(C[d]) /\ C[d] \in Color
  BY SiblingNode
<1>2. /\ ColorTypes(C, bh) /\ C[r] = "BLACK" /\ x \in M \cup {NIL} /\ C[x] = "BLACK"
      /\ d \in M /\ P[x] = d /\ A[d] = x
      /\ \A n \in M : (n # d => HeightAt(n, A, B, C, bh)) /\ ColorAt(n, A, B, C, NIL)
  BY DEF DelAt
<1>c. C \in [D -> Color] /\ bh \in [D -> Nat] /\ C[NIL] = "BLACK" /\ bh[NIL] = 0
  BY <1>2 DEF ColorTypes
<1>n. NIL \in D /\ M \subseteq D /\ NIL \notin M
  BY NilNotNode DEF Shape
<1>3. /\ C2 \in [D -> Color]
      /\ \A n \in D : C2[n] = IF n = f \/ n = d THEN "BLACK" ELSE IF n = w THEN C[d] ELSE C[n]
  BY DEF Raised
<1>4. f \in M /\ f # NIL /\ f \in D /\ P[f] = w
  <2>1. At(w, A, B, P, M, sub)
    BY <1>1 DEF Shape
  <2> QED BY <1>c, <1>n, <2>1 DEF At
<1>5. /\ e \in M \cup {NIL} /\ f # d /\ f # w /\ e # d /\ e # w /\ (f = e => e = NIL)
      /\ P[d] # d /\ P[d] # w /\ (x = e => e = NIL) /\ (P[d] = NIL <=> d = r)
  BY <1>1, <1>2, RotationNodes
<1>x. x # f /\ e # f
  BY <1>1, <1>2, <1>4, <1>5
<1>6. /\ A2[w] = d /\ B2[w] = f /\ A2[d] = x /\ B2[d] = e
      /\ r2 = IF P[d] = NIL THEN w ELSE r
  BY <1>1, <1>2, <1>4, <1>5, <1>n DEF Rotated
<1> HIDE DEF bh2, bh1, C1, e
<1>d. e \in D
  BY <1>5, <1>n
<1>7. bh[e] = bh[x] /\ bh[f] = bh[x]
  <2>1. HeightAt(w, A, B, C, bh) /\ bh[e] \in Nat /\ bh[f] \in Nat
    BY <1>1, <1>2, <1>c, <1>4, <1>d
  <2> QED BY <1>1, <2>1 DEF HeightAt, Black, e
<1>8. /\ C1[f] = "BLACK" /\ bh1[f] = bh[f] + 1
      /\ \A n \in D : n # f => C1[n] = C[n] /\ bh1[n] = bh[n]
  BY <1>4 DEF C1, bh1
<1>9. /\ C2[w] = C1[d] /\ \A n \in D : n # d /\ n # w => C2[n] = C1[n]
  <2>1. C1[d] = C[d] /\ C2[w] = C[d]
    BY <1>1, <1>3, <1>5, <1>8
  <2>2. \A n \in D : n # d /\ n # w => C2[n] = C1[n]
    BY <1>3, <1>8
  <2> QED BY <2>1, <2>2
<1>10. /\ bh2[w] = bh1[d] /\ bh2[d] = bh[w] /\ \A n \in D : n # d /\ n # w => bh2[n] = bh1[n]
  BY <1>1, <1>5, <1>8 DEF bh2
<1>11. ColorTypes(C2, bh2)
  <2>1. bh1 \in [D -> Nat]
    BY <1>4, <1>c DEF bh1
  <2>2. bh2 \in [D -> Nat]
    BY <1>1, <1>c, <2>1 DEF bh2
  <2> QED BY <1>1, <1>4, <1>c, <1>n, <1>3, <1>8, <1>10, <2>2 DEF ColorTypes
<1>12. ASSUME NEW n \in M, n # d, n # w
       PROVE  HeightAt(n, A2, B2, C2, bh2) /\ ColorAt(n, A2, B2, C2, NIL)
  <2>1. HeightAt(n, A, B, C, bh) /\ ColorAt(n, A, B, C, NIL)
    BY <1>2, <1>12
  <2>2. /\ A[n] \in M \cup {NIL} /\ B[n] \in M \cup {NIL}
        /\ A[n] # NIL => P[A[n]] = n
        /\ B[n] # NIL => P[B[n]] = n
    BY DEF Shape, At
  <2>3. A[n] \in D /\ B[n] \in D /\ n \in D /\ A[n] # f /\ B[n] # f
    BY <1>n, <1>4, <1>12, <2>2
  <2>4. /\ C1[A[n]] = C[A[n]] /\ C1[B[n]] = C[B[n]]
        /\ bh1[A[n]] = bh[A[n]] /\ bh1[B[n]] = bh[B[n]]
    BY <1>8, <2>3
  <2>5. C2[n] = C1[n] /\ C2[A2[n]] = C1[A[n]] /\ C2[B2[n]] = C1[B[n]]
    BY <1>1, <1>2, <1>9, <1>12, RotateOthers
  <2>6. bh2[n] = bh1[n] /\ bh2[A2[n]] = bh1[A[n]] /\ bh2[B2[n]] = bh1[B[n]]
    BY <1>1, <1>2, <1>10, <1>12, RotateOthers
  <2>7. CASE n = f
    <3>1. bh[A[f]] \in Nat /\ bh[B[f]] \in Nat
      BY <1>c, <2>3, <2>7
    <3> QED BY <1>8, <2>1, <2>4, <2>5, <2>6, <2>7, <3>1 DEF HeightAt, ColorAt, Black
  <2>8. CASE n # f
    BY <1>8, <1>c, <2>1, <2>3, <2>4, <2>5, <2>6, <2>8 DEF HeightAt, ColorAt
  <2> QED BY <2>7, <2>8
<1>13. /\ C2[d] = "BLACK" /\ C2[w] = C[d] /\ C2[f] = "BLACK"
       /\ bh2[d] = bh[x] + 1 /\ bh2[w] = bh[x] + 1 + Black(C[d]) /\ bh2[f] = bh[x] + 1
       /\ bh2[x] = bh[x] /\ bh2[e] = bh[x]
  BY <1>1, <1>3, <1>4, <1>5, <1>x, <1>d, <1>7, <1>8, <1>10
<1>14. /\ HeightAt(w, A2, B2, C2, bh2) /\ ColorAt(w, A2, B2, C2, NIL)
       /\ HeightAt(d, A2, B2, C2, bh2) /\ ColorAt(d, A2, B2, C2, NIL)
  BY <1>1, <1>6, <1>13 DEF HeightAt, ColorAt, Black
<1>15. C2[r2] = "BLACK"
  <2>1. r \in M /\ P[r] = NIL
    BY <1>1, Parents
  <2> QED BY <1>1, <1>2, <1>3, <1>n, <1>5, <1>6, <2>1
<1>16. Colored(r2, A2, B2, C2, M, bh2, NIL)
  BY <1>11, <1>12, <1>14, <1>15 DEF Colored
<1> QED BY <1>16 DEF Colorable

\* The colors are correct, but that a black node is missing at x, which may be red.
DelColored(r, A, B, P, C, M, bh, x) ==
  /\ ColorTypes(C, bh) /\ x \in M \cup {NIL}
  /\ C[r] = "BLACK" \/ x = r
  /\ \A n \in M : /\ x = r \/ n # P[x] => HeightAt(n, A, B, C, bh)
                  /\ n # x => ColorAt(n, A, B, C, x)
  /\ x # r => /\ P[x] \in M
              /\ \/ A[P[x]] = x /\ Short(P[x], A, B, C, bh)
                 \/ B[P[x]] = x /\ Short(P[x], B, A, C, bh)

DelColorable(r, A, B, P, C, M, x) == \E bh : DelColored(r, A, B, P, C, M, bh, x)

LEMMA MirrorDelColorable ==
  ASSUME NEW r, NEW A, NEW B, NEW P, NEW C, NEW M, NEW x, DelColorable(r, A, B, P, C, M, x)
  PROVE  DelColorable(r, B, A, P, C, M, x)
BY DEF DelColorable, DelColored, HeightAt, ColorAt

\* Where the loop goes on, x is black, and on one side of d.
LEMMA DelGoesOn ==
  ASSUME NEW r, NEW A, NEW B, NEW P, NEW M, NEW sub, Shape(r, A, B, P, M, sub),
         NEW C, NEW x, DelColorable(r, A, B, P, C, M, x), x # r, C[x] = "BLACK",
         NEW d, P[x] = d
  PROVE  \/ A[d] = x /\ DelAtSome(r, A, B, P, C, M, x, d)
         \/ A[d] # x /\ B[d] = x /\ DelAtSome(r, B, A, P, C, M, x, d)
<1>1. PICK bh : DelColored(r, A, B, P, C, M, bh, x)
  BY DEF DelColorable
<1>2. /\ ColorTypes(C, bh) /\ x \in M \cup {NIL} /\ C[r] = "BLACK"
      /\ \A n \in M : /\ n # d => HeightAt(n, A, B, C, bh)
                      /\ n # x => ColorAt(n, A, B, C, x)
      /\ d \in M
      /\ \/ A[d] = x /\ Short(d, A, B, C, bh)
         \/ B[d] = x /\ Short(d, B, A, C, bh)
  BY <1>1 DEF DelColored
<1>3. \A n \in M : ColorAt(n, A, B, C, NIL) /\ ColorAt(n, B, A, C, NIL)
  BY <1>2 DEF ColorAt
<1>4. \A n \in M : HeightAt(n, A, B, C, bh) => HeightAt(n, B, A, C, bh)
  BY DEF HeightAt
<1>5. CASE A[d] = x /\ Short(d, A, B, C, bh)
  <2>1. DelAt(r, A, B, P, C, M, bh, x, d)
    BY <1>2, <1>3, <1>5 DEF DelAt
  <2> QED BY <1>5, <2>1 DEF DelAtSome
<1>6. CASE B[d] = x /\ Short(d, B, A, C, bh)
  <2>1. DelAt(r, B, A, P, C, M, bh, x, d)
    BY <1>2, <1>3, <1>4, <1>6 DEF DelAt
  <2>2. Shape(r, B, A, P, M, sub)
    BY MirrorShape
  <2>3. A[d] # x
    BY <2>1, <2>2, SiblingNode
  <2> QED BY <1>6, <2>1, <2>3 DEF DelAtSome
<1> QED BY <1>2, <1>5, <1>6

\* Case 2: with black nephews the sibling turns red; a black node is missing at d.
LEMMA DeleteBlackNephews ==
  ASSUME NEW r, NEW A, NEW B, NEW P, NEW M, NEW sub, Shape(r, A, B, P, M, sub),
         NEW C, NEW x, NEW d, DelAtSome(r, A, B, P, C, M, x, d),
         NEW w, B[d] = w, C[w] = "BLACK", C[A[w]] = "BLACK", C[B[w]] = "BLACK"
  PROVE  DelColorable(r, A, B, P, Upd(C, w, "RED"), M, d)
<1>p. PICK bh : DelAt(r, A, B, P, C, M, bh, x, d)
  BY DEF DelAtSome
<1> DEFINE C2 == Upd(C, w, "RED")
           bh2 == [n \in D |-> IF n = d \/ n = w THEN bh[n] - 1 ELSE bh[n]]
           q == P[d]
<1>1. /\ w \in M /\ w # NIL /\ P[w] = d /\ d # w /\ x # d /\ x # w /\ d # NIL
      /\ x \in D /\ w \in D /\ d \in D
      /\ bh[x] \in Nat /\ bh[w] = bh[x] + 1 /\ bh[d] = bh[w] + Black(C[d]) /\ C[d] \in Color
  BY <1>p, SiblingNode
<1>2. /\ ColorTypes(C, bh) /\ C[r] = "BLACK" /\ x \in M \cup {NIL} /\ C[x] = "BLACK"
      /\ d \in M /\ P[x] = d /\ A[d] = x
      /\ \A n \in M : (n # d => HeightAt(n, A, B, C, bh)) /\ ColorAt(n, A, B, C, NIL)
  BY <1>p DEF DelAt
<1>c. C \in [D -> Color] /\ bh \in [D -> Nat] /\ C[NIL] = "BLACK" /\ bh[NIL] = 0
  BY <1>2 DEF ColorTypes
<1>n. NIL \in D /\ M \subseteq D /\ NIL \notin M
  BY NilNotNode DEF Shape
<1>3. C2 \in [D -> Color] /\ C2[w] = "RED" /\ \A n \in D : n # w => C2[n] = C[n]
  BY <1>1, <1>c DEF Upd, Color
<1>k. Black(C[d]) \in Nat /\ bh[d] \in Nat /\ bh[d] - 1 \in Nat /\ bh[d] - 1 = bh[x] + Black(C[d])
  BY <1>1 DEF Black
<1>4. /\ bh2 \in [D -> Nat] /\ bh2[d] = bh[d] - 1 /\ bh2[w] = bh[x]
      /\ \A n \in D : n # d /\ n # w => bh2[n] = bh[n]
  BY <1>1, <1>c, <1>k
<1> HIDE DEF C2, bh2, q
<1>5. ColorTypes(C2, bh2)
  BY <1>1, <1>c, <1>n, <1>3, <1>4 DEF ColorTypes
<1>6. C2[r] = "BLACK"
  <2>1. r \in M /\ P[r] = NIL
    BY <1>1, Parents
  <2> QED BY <1>1, <1>2, <1>3, <1>n, <2>1
<1>7. HeightAt(d, A, B, C2, bh2)
  <2>1. C2[d] = C[d] /\ bh2[x] = bh[x]
    BY <1>1, <1>3, <1>4
  <2> QED BY <1>1, <1>2, <1>4, <1>k, <2>1 DEF HeightAt
<1>8. ASSUME NEW n \in M, n # d
      PROVE  /\ n # q => HeightAt(n, A, B, C2, bh2)
             /\ ColorAt(n, A, B, C2, d)
  <2>1. HeightAt(n, A, B, C, bh) /\ ColorAt(n, A, B, C, NIL)
    BY <1>2, <1>8
  <2>2. /\ A[n] \in M \cup {NIL} /\ B[n] \in M \cup {NIL}
        /\ A[n] # NIL => P[A[n]] = n
        /\ B[n] # NIL => P[B[n]] = n
    BY DEF Shape, At
  <2>3. A[n] \in D /\ B[n] \in D /\ n \in D /\ A[n] # w /\ B[n] # w
    BY <1>n, <1>1, <1>8, <2>2
  <2>4. C2[A[n]] = C[A[n]] /\ C2[B[n]] = C[B[n]]
    BY <1>3, <2>3
  <2>5. CASE n = w
    <3>1. ColorAt(n, A, B, C2, d)
      BY <2>4, <2>5 DEF ColorAt
    <3>2. A[w] # d /\ B[w] # d
      BY <1>1, <1>2, RotationNodes
    <3>3. bh2[A[w]] = bh[A[w]] /\ bh2[B[w]] = bh[B[w]] /\ bh[A[w]] \in Nat /\ bh[B[w]] \in Nat
      BY <1>4, <1>c, <2>3, <2>5, <3>2
    <3>4. HeightAt(n, A, B, C2, bh2)
      <4>1. bh[w] = bh[A[w]] + 1 /\ bh[w] = bh[B[w]] + 1
        BY <2>1, <2>5 DEF HeightAt, Black
      <4>2. bh[A[w]] = bh[x] /\ bh[B[w]] = bh[x] /\ Black(C2[w]) = 0
        BY <1>1, <1>3, <3>3, <4>1 DEF Black
      <4> QED BY <1>1, <1>4, <2>5, <3>3, <4>2 DEF HeightAt
    <3> QED BY <3>1, <3>4
  <2>6. CASE n # w
    <3>1. C2[n] = C[n] /\ bh2[n] = bh[n]
      BY <1>3, <1>4, <1>8, <2>3, <2>6
    <3>2. ColorAt(n, A, B, C2, d)
      BY <1>c, <2>1, <2>4, <3>1 DEF ColorAt
    <3>3. ASSUME n # q PROVE HeightAt(n, A, B, C2, bh2)
      <4>1. A[n] # d /\ B[n] # d
        BY <1>1, <2>2, <3>3 DEF q
      <4>2. bh2[A[n]] = bh[A[n]] /\ bh2[B[n]] = bh[B[n]]
        BY <1>4, <2>3, <4>1
      <4> QED BY <2>1, <3>1, <4>2 DEF HeightAt
    <3> QED BY <3>2, <3>3
  <2> QED BY <2>5, <2>6
<1>9. ASSUME d # r
      PROVE  /\ q \in M /\ q # d
             /\ \/ A[q] = d /\ Short(q, A, B, C2, bh2)
                \/ B[q] = d /\ Short(q, B, A, C2, bh2)
  <2>1. q \in M /\ q # d /\ (A[q] = d \/ B[q] = d) /\ A[q] # B[q]
    BY <1>2, <1>9, Parents DEF q
  <2>2. /\ A[q] \in M \cup {NIL} /\ B[q] \in M \cup {NIL}
        /\ A[q] # NIL => P[A[q]] = q
        /\ B[q] # NIL => P[B[q]] = q
    BY <2>1 DEF Shape, At
  <2>3. A[q] \in D /\ B[q] \in D /\ q \in D /\ A[q] # w /\ B[q] # w /\ q # w
    <3>1. q # w
      BY <1>1, <1>2, RotationNodes DEF q
    <3> QED BY <1>n, <1>1, <2>1, <2>2, <3>1
  <2>4. HeightAt(q, A, B, C, bh) /\ C2[q] = C[q] /\ bh2[q] = bh[q]
    BY <1>2, <1>3, <1>4, <2>1, <2>3
  <2>5. Black(C[q]) \in Nat
    BY DEF Black
  <2>6. CASE A[q] = d
    <3>1. bh2[B[q]] = bh[B[q]] /\ bh2[A[q]] + 1 = bh[A[q]]
      BY <1>4, <1>k, <2>1, <2>3, <2>6
    <3> QED BY <2>1, <2>4, <2>6, <3>1 DEF Short, HeightAt
  <2>7. CASE B[q] = d
    <3>1. bh2[A[q]] = bh[A[q]] /\ bh2[B[q]] + 1 = bh[B[q]]
      BY <1>4, <1>k, <2>1, <2>3, <2>7
    <3> QED BY <2>1, <2>4, <2>7, <3>1 DEF Short, HeightAt
  <2> QED BY <2>1, <2>6, <2>7
<1>10. \A n \in M : d = r \/ n # q => HeightAt(n, A, B, C2, bh2)
  <2>1. d = r => \A n \in M : n # q
    BY <1>2, <1>n, Parents DEF q
  <2> QED BY <1>7, <1>8, <2>1
<1>11. DelColored(r, A, B, P, C2, M, bh2, d)
  BY <1>2, <1>5, <1>6, <1>8, <1>9, <1>10 DEF DelColored, q
<1> QED BY <1>11 DEF DelColorable, C2

\* At the end x is red or the root, and is painted black.
LEMMA DeleteEnd ==
  ASSUME NEW r, NEW A, NEW B, NEW P, NEW M, NEW sub, Shape(r, A, B, P, M, sub),
         NEW C, NEW x, DelColorable(r, A, B, P, C, M, x), x = r \/ C[x] # "BLACK"
  PROVE  Colorable(r, A, B, Upd(C, x, "BLACK"), M, NIL)
<1>p. PICK bh : DelColored(r, A, B, P, C, M, bh, x)
  BY DEF DelColorable
<1> DEFINE C2 == Upd(C, x, "BLACK")
           bh2 == [n \in D |-> IF n = x /\ x # NIL THEN bh[A[n]] + 1 ELSE bh[n]]
<1>1. /\ ColorTypes(C, bh) /\ x \in M \cup {NIL}
      /\ C[r] = "BLACK" \/ x = r
      /\ \A n \in M : /\ x = r \/ n # P[x] => HeightAt(n, A, B, C, bh)
                      /\ n # x => ColorAt(n, A, B, C, x)
      /\ x # r => /\ P[x] \in M
                  /\ \/ A[P[x]] = x /\ Short(P[x], A, B, C, bh)
                     \/ B[P[x]] = x /\ Short(P[x], B, A, C, bh)
  BY <1>p DEF DelColored
<1>c. C \in [D -> Color] /\ bh \in [D -> Nat] /\ C[NIL] = "BLACK" /\ bh[NIL] = 0
  BY <1>1 DEF ColorTypes
<1>n. NIL \in D /\ M \subseteq D /\ NIL \notin M /\ r \in M \cup {NIL}
  BY NilNotNode DEF Shape
<1>2. x \in D
  BY <1>1, <1>n
<1>3. C2 \in [D -> Color] /\ C2[x] = "BLACK" /\ \A n \in D : n # x => C2[n] = C[n]
  BY <1>2, <1>c DEF Upd, Color
<1>4. x # NIL => A[x] \in D /\ B[x] \in D /\ A[x] # x /\ B[x] # x /\ P[x] # x
  <2> SUFFICES ASSUME x # NIL PROVE A[x] \in D /\ B[x] \in D /\ A[x] # x /\ B[x] # x /\ P[x] # x
    OBVIOUS
  <2>1. x \in M
    BY <1>1
  <2>2. At(x, A, B, P, M, sub)
    BY <2>1 DEF Shape
  <2>3. P[x] # x
    BY <2>1, <1>n, Parents
  <2> QED BY <1>n, <2>2, <2>3 DEF At
<1>5. bh2 \in [D -> Nat] /\ \A n \in D : n # x \/ x = NIL => bh2[n] = bh[n]
  BY <1>c, <1>4
<1>6. x # NIL => bh2[x] = bh[A[x]] + 1
  BY <1>2
<1> HIDE DEF C2, bh2
<1>7. ColorTypes(C2, bh2)
  BY <1>c, <1>n, <1>3, <1>5 DEF ColorTypes
<1>8. C2[r] = "BLACK"
  BY <1>1, <1>3, <1>n
<1>9. ASSUME x # NIL PROVE HeightAt(x, A, B, C2, bh2) /\ ColorAt(x, A, B, C2, NIL)
  <2>1. x \in M /\ HeightAt(x, A, B, C, bh)
    BY <1>1, <1>4, <1>9
  <2>2. bh[A[x]] \in Nat /\ bh[B[x]] \in Nat /\ bh[A[x]] = bh[B[x]]
    BY <1>c, <1>4, <1>9, <2>1 DEF HeightAt, Black
  <2>3. bh2[A[x]] = bh[A[x]] /\ bh2[B[x]] = bh[B[x]]
    BY <1>4, <1>5, <1>9
  <2> QED BY <1>3, <1>6, <1>9, <2>2, <2>3 DEF HeightAt, ColorAt, Black
<1>10. ASSUME NEW n \in M, n # x PROVE HeightAt(n, A, B, C2, bh2) /\ ColorAt(n, A, B, C2, NIL)
  <2>1. /\ A[n] \in M \cup {NIL} /\ B[n] \in M \cup {NIL} /\ ColorAt(n, A, B, C, x)
        /\ A[n] # NIL => P[A[n]] = n
        /\ B[n] # NIL => P[B[n]] = n
    BY <1>1, <1>10 DEF Shape, At
  <2>2. A[n] \in D /\ B[n] \in D /\ n \in D
    BY <1>n, <2>1
  <2>3. C2[n] = C[n] /\ bh2[n] = bh[n]
    BY <1>3, <1>5, <1>10, <2>2
  <2>4. ColorAt(n, A, B, C2, NIL)
    BY <1>3, <2>1, <2>2, <2>3 DEF ColorAt
  <2>5. HeightAt(n, A, B, C2, bh2)
    <3>1. CASE (A[n] # x /\ B[n] # x) \/ x = NIL
      <4>1. bh2[A[n]] = bh[A[n]] /\ bh2[B[n]] = bh[B[n]]
        BY <1>5, <2>2, <3>1
      <4>2. x = r \/ n # P[x]
        <5>1. x = NIL => x = r
          BY <1>c
        <5> QED BY <1>1, <3>1, <5>1
      <4> QED BY <1>1, <2>3, <4>1, <4>2 DEF HeightAt
    <3>2. CASE (A[n] = x \/ B[n] = x) /\ x # NIL
      <4>1. P[x] = n /\ n # NIL /\ x \in M
        BY <1>1, <1>n, <2>1, <3>2
      <4>2. x # r /\ A[n] # B[n]
        BY <4>1, Parents
      <4>3. C[x] = "RED" /\ HeightAt(x, A, B, C, bh)
        BY <1>1, <1>c, <1>2, <1>4, <3>2, <4>1, <4>2 DEF Color
      <4>4. bh[x] \in Nat /\ bh[A[x]] \in Nat /\ bh2[x] = bh[x] + 1
        BY <1>c, <1>2, <1>4, <1>6, <3>2, <4>3 DEF HeightAt, Black
      <4>5. Black(C[n]) \in Nat /\ bh[n] \in Nat /\ bh[A[n]] \in Nat /\ bh[B[n]] \in Nat
        BY <1>c, <2>2 DEF Black
      <4>6. CASE A[n] = x
        <5>1. B[n] # x /\ bh2[B[n]] = bh[B[n]] /\ Short(n, A, B, C, bh)
          BY <1>1, <1>5, <2>2, <4>1, <4>2, <4>6
        <5> QED BY <2>3, <4>4, <4>5, <4>6, <5>1 DEF HeightAt, Short
      <4>7. CASE B[n] = x
        <5>1. A[n] # x /\ bh2[A[n]] = bh[A[n]] /\ Short(n, B, A, C, bh)
          BY <1>1, <1>5, <2>2, <4>1, <4>2, <4>7
        <5> QED BY <2>3, <4>4, <4>5, <4>7, <5>1 DEF HeightAt, Short
      <4> QED BY <3>2, <4>6, <4>7
    <3> QED BY <3>1, <3>2
  <2> QED BY <2>4, <2>5
<1>11. Colored(r, A, B, C2, M, bh2, NIL)
  BY <1>n, <1>7, <1>8, <1>9, <1>10 DEF Colored
<1> QED BY <1>11 DEF Colorable, C2

-----------------------------------------------------------------------------
(* One iteration of the fix-up after a deletion.                           *)

\* The tree t, correct but that a black node is missing at x, on side s of d.
DelHere(s, t, M, sub, x, d) ==
  /\ TreeFrom(s, t, M, sub)
  /\ DelAtSome(t.root, t[s], t[Opposite(s)], t.parent, t.color, M, x, d)

\* The same, with a black sibling; t itself or with a red d.
BlackSibling(s, M, x, d, t, sub, t1) ==
  \E sub1 : /\ DelHere(s, t1, M, sub1, x, d)
            /\ t1.color[t1[Opposite(s)][d]] = "BLACK"
            /\ (t1 = t /\ sub1 = sub) \/ t1.color[d] = "RED"

LEMMA RedSiblingStep ==
  ASSUME NEW s \in Side, NEW t, NEW M, NEW sub, NEW x, NEW d, DelHere(s, t, M, sub, x, d)
  PROVE  BlackSibling(s, M, x, d, t, sub, RaiseRedSibling(t, s, x))
<1> DEFINE o == Opposite(s)
           A == t[s]
           B == t[o]
           P == t.parent
           C == t.color
           r == t.root
           w == B[d]
           ta == Paint(t, w, "BLACK")
           tb == Paint(ta, d, "RED")
           u == rbtree_rotate(tb, s, d)
<1>o. o \in Side /\ Opposite(o) = s
  BY DEF Side, Opposite
<1>0. /\ t \in Trees /\ Shape(r, A, B, P, M, sub) /\ DelAtSome(r, A, B, P, C, M, x, d)
  BY DEF DelHere, TreeFrom, ShapeFrom
<1>p. PICK bh : DelAt(r, A, B, P, C, M, bh, x, d)
  BY <1>0 DEF DelAtSome
<1>1. d \in M /\ P[x] = d
  BY <1>p DEF DelAt
<1>2. RaiseRedSibling(t, s, x) = IF C[w] = "RED" THEN u ELSE t
  BY <1>1 DEF RaiseRedSibling, Sibling
<1> HIDE DEF o, A, B, P, C, r, w, ta, tb, u
<1>3. /\ w \in M /\ w # NIL /\ d # w /\ w \in D /\ d \in D /\ C[w] \in Color /\ B[d] = w
  <2>1. B[d] = w
    BY DEF w
  <2> QED BY <1>0, <1>p, <2>1, SiblingNode
<1>4. CASE C[w] # "RED"
  <2>1. C[w] = "BLACK" /\ RaiseRedSibling(t, s, x) = t
    BY <1>2, <1>3, <1>4 DEF Color
  <2> QED BY <2>1 DEF BlackSibling, C, w, B, o
<1>5. CASE C[w] = "RED"
  <2>1. Painted(t, w, "BLACK", ta)
    BY <1>0, <1>3, PaintColor DEF ta
  <2>2. ta \in Trees
    BY <2>1 DEF Painted
  <2>3. Painted(ta, d, "RED", tb)
    BY <1>3, <2>2, PaintColor DEF tb
  <2>4. /\ tb \in Trees /\ tb.root = r /\ tb.parent = P /\ tb[s] = A /\ tb[o] = B
        /\ tb.color = Upd(Upd(C, w, "BLACK"), d, "RED")
    BY <1>o, <2>1, <2>3 DEF Painted, r, P, A, B, C
  <2> DEFINE C2 == tb.color
             A2 == u[s]
             B2 == u[o]
             P2 == u.parent
             r2 == u.root
  <2>5. Exchanged(d, w, C, C2)
    <3>1. C \in [D -> Color]
      BY <1>0 DEF Trees, Color, C
    <3> QED BY <1>3, <2>4, <3>1 DEF Upd, Exchanged, Color
  <2>6. TreeFrom(s, tb, M, sub)
    BY <2>1, <2>3, PaintTree DEF DelHere
  <2>7. RotatedFrom(s, d, tb, u)
    BY <1>1, <1>3, <2>4, <2>6, RotateView DEF TreeFrom, u, o
  <2>8. PICK sub2 : TreeFrom(s, u, M, sub2)
    BY <1>1, <1>3, <2>4, <2>6, <2>7, RotateTree DEF o
  <2>9. u.color = C2 /\ Rotated(d, r, A, B, P, r2, A2, B2, P2)
    BY <2>4, <2>7 DEF RotatedFrom, o
  <2> HIDE DEF C2, A2, B2, P2, r2
  <2>10. DelAtSome(r2, A2, B2, P2, C2, M, x, d) /\ C2[B2[d]] = "BLACK" /\ C2[d] = "RED"
    BY <1>0, <1>p, <1>3, <1>5, <2>5, <2>9, DeleteRedSibling
  <2>11. DelHere(s, u, M, sub2, x, d)
    BY <2>8, <2>9, <2>10 DEF DelHere, A2, B2, P2, r2, o
  <2>12. BlackSibling(s, M, x, d, t, sub, u)
    BY <2>9, <2>10, <2>11 DEF BlackSibling, B2, o
  <2> QED BY <1>2, <1>5, <2>12
<1> QED BY <1>4, <1>5

\* The same, with a black sibling and a red far nephew.
RedFarNephew(s, M, x, d, t) ==
  LET w == t[Opposite(s)][d]
  IN  \E sub : /\ DelHere(s, t, M, sub, x, d)
               /\ t.color[w] = "BLACK" /\ t.color[t[Opposite(s)][w]] = "RED"

LEMMA NearNephewStep ==
  ASSUME NEW s \in Side, NEW t, NEW M, NEW sub, NEW x, NEW d, DelHere(s, t, M, sub, x, d),
         NEW w, t[Opposite(s)][d] = w, t.color[w] = "BLACK",
         t.color[t[s][w]] # "BLACK" \/ t.color[t[Opposite(s)][w]] # "BLACK"
  PROVE  RedFarNephew(s, M, x, d, RaiseNearNephew(t, s, x))
<1> DEFINE o == Opposite(s)
           A == t[o]
           B == t[s]
           P == t.parent
           C == t.color
           r == t.root
           e == B[w]
           f == A[w]
           ta == Paint(t, e, "BLACK")
           tb == Paint(ta, w, "RED")
           u == rbtree_rotate(tb, o, w)
<1>o. o \in Side /\ Opposite(o) = s
  BY DEF Side, Opposite
<1>0. /\ t \in Trees /\ Shape(r, B, A, P, M, sub) /\ DelAtSome(r, B, A, P, C, M, x, d)
  BY DEF DelHere, TreeFrom, ShapeFrom
<1>m. Shape(r, A, B, P, M, sub)
  BY <1>0, MirrorShape
<1>p. PICK bh : DelAt(r, B, A, P, C, M, bh, x, d)
  BY <1>0 DEF DelAtSome
<1>1. d \in M /\ P[x] = d /\ A[d] = w /\ C[w] = "BLACK"
  BY <1>p DEF DelAt
<1>2. RaiseNearNephew(t, s, x) = IF C[f] = "BLACK" THEN u ELSE t
  BY <1>1 DEF RaiseNearNephew, Sibling
<1>t. C[e] # "BLACK" \/ C[f] # "BLACK"
  OBVIOUS
<1> HIDE DEF o, A, B, P, C, r, e, f, ta, tb, u
<1>3. /\ w \in M /\ w # NIL /\ d # w /\ w \in D /\ d \in D
  BY <1>0, <1>p, <1>1, SiblingNode
<1>4. e \in D /\ f \in D /\ C \in [D -> Color] /\ C[e] \in Color /\ C[f] \in Color /\ e # w
  <2>1. At(w, A, B, P, M, sub)
    BY <1>m, <1>3 DEF Shape
  <2>2. e \in D /\ f \in D /\ e # w
    BY <1>m, <2>1, NilNotNode DEF Shape, At, e, f
  <2>3. C \in [D -> Color]
    BY <1>0 DEF Trees, Color, C
  <2> QED BY <2>2, <2>3
<1>5. CASE C[f] # "BLACK"
  <2>1. C[f] = "RED" /\ RaiseNearNephew(t, s, x) = t
    BY <1>2, <1>4, <1>5 DEF Color
  <2>2. RedFarNephew(s, M, x, d, t)
    BY <1>1, <2>1 DEF RedFarNephew, A, C, f, o
  <2> QED BY <2>1, <2>2
<1>6. CASE C[f] = "BLACK"
  <2>0. C[e] = "RED" /\ B[w] = e /\ C[A[w]] = "BLACK" /\ e # NIL
    <3>1. C[e] = "RED" /\ B[w] = e /\ C[A[w]] = "BLACK"
      BY <1>t, <1>4, <1>6 DEF Color, e, f
    <3> QED BY <1>p, <3>1 DEF DelAt, ColorTypes
  <2>1. Painted(t, e, "BLACK", ta)
    BY <1>0, <1>4, PaintColor DEF ta
  <2>2. ta \in Trees
    BY <2>1 DEF Painted
  <2>3. Painted(ta, w, "RED", tb)
    BY <1>3, <2>2, PaintColor DEF tb
  <2>4. /\ tb \in Trees /\ tb.root = r /\ tb.parent = P /\ tb[s] = B /\ tb[o] = A
        /\ tb.color = Upd(Upd(C, e, "BLACK"), w, "RED")
    BY <1>o, <2>1, <2>3 DEF Painted, r, P, A, B, C
  <2> DEFINE C2 == tb.color
             A2 == u[o]
             B2 == u[s]
             P2 == u.parent
             r2 == u.root
  <2>5. Exchanged(w, e, C, C2)
    BY <1>3, <1>4, <2>4 DEF Upd, Exchanged, Color
  <2>6. TreeFrom(o, tb, M, sub)
    <3>1. TreeFrom(s, tb, M, sub)
      BY <2>1, <2>3, PaintTree DEF DelHere
    <3> QED BY <1>o, <3>1, AnySide
  <2>7. RotatedFrom(o, w, tb, u)
    BY <1>o, <1>3, <2>0, <2>4, <2>6, RotateView DEF TreeFrom, u
  <2>8. PICK sub2 : TreeFrom(o, u, M, sub2)
    BY <1>o, <1>3, <2>0, <2>4, <2>6, <2>7, RotateTree
  <2>9. u.color = C2 /\ Rotated(w, r, A, B, P, r2, A2, B2, P2)
    BY <1>o, <2>4, <2>7 DEF RotatedFrom
  <2> HIDE DEF C2, A2, B2, P2, r2
  <2>10. /\ DelAtSome(r2, B2, A2, P2, C2, M, x, d)
         /\ C2[A2[d]] = "BLACK" /\ C2[A2[A2[d]]] = "RED"
    BY <1>m, <1>p, <1>1, <2>0, <2>5, <2>9, DeleteNearNephew
  <2>11. DelHere(s, u, M, sub2, x, d)
    <3>1. TreeFrom(s, u, M, sub2)
      BY <1>o, <2>8, AnySide
    <3> QED BY <2>9, <2>10, <3>1 DEF DelHere, A2, B2, P2, r2, o
  <2>12. RedFarNephew(s, M, x, d, u)
    BY <2>9, <2>10, <2>11 DEF RedFarNephew, A2, o
  <2> QED BY <1>2, <1>6, <2>12
<1> QED BY <1>5, <1>6

LEMMA RaiseSiblingStep ==
  ASSUME NEW s \in Side, NEW t, NEW M, NEW x, NEW d, RedFarNephew(s, M, x, d, t)
  PROVE  RedBlack(RaiseSibling(t, s, x), M)
<1> DEFINE o == Opposite(s)
           A == t[s]
           B == t[o]
           P == t.parent
           C == t.color
           r == t.root
           w == B[d]
           f == B[w]
           ta == Paint(t, w, C[d])
           tb == Paint(ta, d, "BLACK")
           tc == Paint(tb, tb[o][w], "BLACK")
           u == rbtree_rotate(tc, s, d)
<1>o. o \in Side /\ Opposite(o) = s
  BY DEF Side, Opposite
<1>q. PICK sub : DelHere(s, t, M, sub, x, d) /\ C[w] = "BLACK" /\ C[f] = "RED"
  BY DEF RedFarNephew
<1>0. /\ t \in Trees /\ Shape(r, A, B, P, M, sub) /\ DelAtSome(r, A, B, P, C, M, x, d)
  BY <1>q DEF DelHere, TreeFrom, ShapeFrom
<1>p. PICK bh : DelAt(r, A, B, P, C, M, bh, x, d)
  BY <1>0 DEF DelAtSome
<1>1. d \in M /\ P[x] = d
  BY <1>p DEF DelAt
<1>2. RaiseSibling(t, s, x) = u
  BY <1>1 DEF RaiseSibling, Sibling
<1> HIDE DEF o, A, B, P, C, r, w, f, ta, tb, tc, u
<1>3. /\ w \in M /\ w # NIL /\ d # w /\ w \in D /\ d \in D /\ B[d] = w /\ B[w] = f /\ C[d] \in Color
  <2>1. B[d] = w /\ B[w] = f
    BY DEF w, f
  <2> QED BY <1>0, <1>p, <2>1, SiblingNode
<1>4. f \in D
  <2>1. At(w, A, B, P, M, sub)
    BY <1>0, <1>3 DEF Shape
  <2> QED BY <1>0, <1>3, <2>1, NilNotNode DEF Shape, At
<1>5. Painted(t, w, C[d], ta)
  BY <1>0, <1>3, PaintColor DEF ta, Color
<1>6. ta \in Trees
  BY <1>5 DEF Painted
<1>7. Painted(ta, d, "BLACK", tb)
  BY <1>3, <1>6, PaintColor DEF tb
<1>8. tb \in Trees /\ tb[o][w] = f
  <2>1. tb[o] = B
    BY <1>o, <1>5, <1>7 DEF Painted, B
  <2> QED BY <1>7, <2>1 DEF Painted, f
<1>9. Painted(tb, f, "BLACK", tc)
  BY <1>4, <1>8, PaintColor DEF tc
<1>10. /\ tc \in Trees /\ tc.root = r /\ tc.parent = P /\ tc[s] = A /\ tc[o] = B
       /\ tc.color = Upd(Upd(Upd(C, w, C[d]), d, "BLACK"), f, "BLACK")
  BY <1>o, <1>5, <1>7, <1>9 DEF Painted, r, P, A, B, C
<1> DEFINE C2 == tc.color
           A2 == u[s]
           B2 == u[o]
           P2 == u.parent
           r2 == u.root
<1>11. Raised(d, w, f, C, C2)
  <2>1. C \in [D -> Color]
    BY <1>0 DEF Trees, Color, C
  <2> QED BY <1>3, <1>4, <1>10, <2>1 DEF Upd, Raised, Color
<1>12. TreeFrom(s, tc, M, sub)
  BY <1>q, <1>5, <1>7, <1>9, PaintTree DEF DelHere
<1>13. RotatedFrom(s, d, tc, u)
  BY <1>1, <1>3, <1>10, <1>12, RotateView DEF TreeFrom, u, o
<1>14. PICK sub2 : TreeFrom(s, u, M, sub2)
  BY <1>1, <1>3, <1>10, <1>12, <1>13, RotateTree DEF o
<1>15. u.color = C2 /\ Rotated(d, r, A, B, P, r2, A2, B2, P2)
  BY <1>10, <1>13 DEF RotatedFrom, o
<1> HIDE DEF C2, A2, B2, P2, r2
<1>16. Colorable(r2, A2, B2, C2, M, NIL)
  BY <1>0, <1>p, <1>q, <1>3, <1>11, <1>15, DeleteRaiseSibling
<1>17. PICK bh2 : ColorsFrom(s, u, M, bh2, NIL)
  BY <1>15, <1>16 DEF Colorable, ColorsFrom, A2, B2, r2, o
<1>18. TreeFrom("left", u, M, sub2) /\ ColorsFrom("left", u, M, bh2, NIL)
  BY <1>14, <1>17, AnySide DEF Side
<1> QED BY <1>2, <1>18 DEF RedBlack

\* The tree during the fix-up.
DelOK(s, t, M, sub, x) ==
  /\ TreeFrom(s, t, M, sub)
  /\ DelColorable(t.root, t[s], t[Opposite(s)], t.parent, t.color, M, x)

\* After the iteration the loop ends, or the subtree of the new x is larger.
DelStepped(t, M, sub, x, st) ==
  \E t2, x2, sub2 :
    /\ st = [t |-> t2, x |-> x2]
    /\ DelOK("left", t2, M, sub2, x2)
    /\ \/ x2 = t2.root \/ t2.color[x2] # "BLACK"
       \/ sub[x] \subseteq sub2[x2] /\ x2 \notin sub[x] /\ x2 \in sub2[x2]

LEMMA DelOtherSide ==
  ASSUME NEW s \in Side, NEW s2 \in Side, NEW t, NEW M, NEW sub, NEW x, DelOK(s, t, M, sub, x)
  PROVE  DelOK(s2, t, M, sub, x)
<1>1. TreeFrom(s2, t, M, sub)
  BY AnySide DEF DelOK
<1>2. s2 = s \/ (s2 = Opposite(s) /\ Opposite(s2) = s)
  BY DEF Side, Opposite
<1> QED BY <1>1, <1>2, MirrorDelColorable DEF DelOK

LEMMA BlackNephewsStep ==
  ASSUME NEW s \in Side, NEW t, NEW M, NEW sub, NEW x, NEW d, NEW t1,
         BlackSibling(s, M, x, d, t, sub, t1),
         NEW w, t1[Opposite(s)][d] = w,
         t1.color[t1[s][w]] = "BLACK", t1.color[t1[Opposite(s)][w]] = "BLACK"
  PROVE  DelStepped(t, M, sub, x, [t |-> Paint(t1, w, "RED"), x |-> d])
<1> DEFINE o == Opposite(s)
           A == t1[s]
           B == t1[o]
           P == t1.parent
           C == t1.color
           r == t1.root
           u == Paint(t1, w, "RED")
<1>o. o \in Side /\ Opposite(o) = s
  BY DEF Side, Opposite
<1>q. PICK sub1 : /\ DelHere(s, t1, M, sub1, x, d)
                  /\ C[w] = "BLACK"
                  /\ (t1 = t /\ sub1 = sub) \/ C[d] = "RED"
  BY DEF BlackSibling
<1>0. /\ t1 \in Trees /\ Shape(r, A, B, P, M, sub1) /\ DelAtSome(r, A, B, P, C, M, x, d)
  BY <1>q DEF DelHere, TreeFrom, ShapeFrom
<1>1. B[d] = w /\ C[A[w]] = "BLACK" /\ C[B[w]] = "BLACK"
  OBVIOUS
<1> HIDE DEF o, A, B, P, C, r, u
<1>p. PICK bh : DelAt(r, A, B, P, C, M, bh, x, d)
  BY <1>0 DEF DelAtSome
<1>2. w \in D /\ d \in D /\ d # w /\ d \in M /\ A[d] = x /\ d # NIL
  <2>1. w \in D /\ d \in D /\ d # w
    BY <1>0, <1>p, <1>1, SiblingNode
  <2>2. d \in M /\ A[d] = x
    BY <1>p DEF DelAt
  <2> QED BY <1>0, <2>1, <2>2, NilNotNode DEF Shape
<1>3. Painted(t1, w, "RED", u)
  BY <1>0, <1>2, PaintColor DEF u
<1>4. DelColorable(r, A, B, P, Upd(C, w, "RED"), M, d)
  BY <1>0, <1>q, <1>1, DeleteBlackNephews
<1>5. /\ u.root = r /\ u.parent = P /\ u[s] = A /\ u[o] = B /\ u.color = Upd(C, w, "RED")
  BY <1>o, <1>3 DEF Painted, r, P, A, B, C
<1>6. DelOK(s, u, M, sub1, d)
  <2>1. TreeFrom(s, u, M, sub1)
    BY <1>q, <1>3, PaintTree DEF DelHere
  <2> QED BY <1>4, <1>5, <2>1 DEF DelOK, o
<1>7. DelOK("left", u, M, sub1, d)
  BY <1>6, DelOtherSide DEF Side
<1>8. C[d] = "RED" => u.color[d] # "BLACK"
  <2>1. C \in [D -> Color]
    BY <1>0 DEF Trees, Color, C
  <2> QED BY <1>2, <1>5, <2>1 DEF Upd
<1>9. sub1 = sub => sub[x] \subseteq sub1[d] /\ d \notin sub[x] /\ d \in sub1[d]
  <2>1. At(d, A, B, P, M, sub1)
    BY <1>0, <1>2 DEF Shape
  <2> QED BY <1>2, <2>1 DEF At
<1> QED BY <1>q, <1>7, <1>8, <1>9 DEF DelStepped, u

LEMMA RedBlackDelOK ==
  ASSUME NEW t, NEW M, RedBlack(t, M)
  PROVE  \E sub : DelOK("left", t, M, sub, t.root)
<1>1. PICK sub, bh : TreeFrom("left", t, M, sub) /\ ColorsFrom("left", t, M, bh, NIL)
  BY DEF RedBlack
<1>2. t.root \in M \cup {NIL}
  BY <1>1 DEF TreeFrom, ShapeFrom, Shape
<1>3. Colored(t.root, t["left"], t["right"], t.color, M, bh, NIL)
  BY <1>1 DEF ColorsFrom, Opposite
<1>4. DelColored(t.root, t["left"], t["right"], t.parent, t.color, M, bh, t.root)
  BY <1>2, <1>3 DEF Colored, DelColored, ColorAt, ColorTypes
<1> QED BY <1>1, <1>4 DEF DelOK, DelColorable, Opposite

LEMMA DeleteStep ==
  ASSUME NEW t, NEW M, NEW sub, NEW x, DelOK("left", t, M, sub, x),
         x # t.root, t.color[x] = "BLACK"
  PROVE  DelStepped(t, M, sub, x, DeleteCase([t |-> t, x |-> x]))
<1> DEFINE st == [t |-> t, x |-> x]
           d == t.parent[x]
           s == SideOf(t, x)
           o == Opposite(s)
           t1 == RaiseRedSibling(t, s, x)
           w == Sibling(t1, s, x)
           u == RaiseSibling(RaiseNearNephew(t1, s, x), s, x)
<1>1. DeleteCase(st) = IF t1.color[t1.left[w]] = "BLACK" /\ t1.color[t1.right[w]] = "BLACK"
                       THEN [t |-> Paint(t1, w, "RED"), x |-> t1.parent[x]]
                       ELSE [t |-> u, x |-> u.root]
  BY DEF DeleteCase
<1>2. s = IF x = t.left[d] THEN "left" ELSE "right"
  BY DEF SideOf
<1>3. w = t1[o][t1.parent[x]]
  BY DEF Sibling
<1> HIDE DEF st, d, s, o, t1, w, u
<1>4. s \in Side /\ DelHere(s, t, M, sub, x, d)
  <2> DEFINE A == t["left"]
             B == t["right"]
             P == t.parent
             C == t.color
             r == t.root
  <2>1. /\ Shape(r, A, B, P, M, sub) /\ DelColorable(r, A, B, P, C, M, x)
        /\ P[x] = d /\ C[x] = "BLACK" /\ x # r /\ t.left = A /\ t \in Trees
    BY DEF DelOK, TreeFrom, ShapeFrom, Opposite, d, Trees
  <2> HIDE DEF A, B, P, C, r
  <2>2. \/ A[d] = x /\ DelAtSome(r, A, B, P, C, M, x, d)
        \/ A[d] # x /\ B[d] = x /\ DelAtSome(r, B, A, P, C, M, x, d)
    BY <2>1, DelGoesOn
  <2>3. TreeFrom("left", t, M, sub) /\ TreeFrom("right", t, M, sub)
    BY AnySide DEF DelOK, Side
  <2>4. CASE A[d] = x /\ DelAtSome(r, A, B, P, C, M, x, d)
    <3>1. s = "left"
      BY <1>2, <2>1, <2>4
    <3> QED BY <2>3, <2>4, <3>1 DEF DelHere, Side, Opposite, A, B, P, C, r
  <2>5. CASE A[d] # x /\ DelAtSome(r, B, A, P, C, M, x, d)
    <3>1. s = "right"
      BY <1>2, <2>1, <2>5
    <3> QED BY <2>3, <2>5, <3>1 DEF DelHere, Side, Opposite, A, B, P, C, r
  <2> QED BY <2>2, <2>4, <2>5
<1>5. BlackSibling(s, M, x, d, t, sub, t1)
  BY <1>4, RedSiblingStep DEF t1
<1>6. PICK sub1 : DelHere(s, t1, M, sub1, x, d) /\ t1.color[t1[o][d]] = "BLACK"
  BY <1>5 DEF BlackSibling, o
<1>7. t1.parent[x] = d /\ w = t1[o][d] /\ t1 \in Trees
  BY <1>3, <1>6 DEF DelHere, DelAtSome, DelAt, TreeFrom
<1>8. {t1.left[w], t1.right[w]} = {t1[s][w], t1[o][w]}
  BY <1>4, <1>7 DEF Trees, Side, Opposite, o
<1>9. CASE t1.color[t1[s][w]] = "BLACK" /\ t1.color[t1[o][w]] = "BLACK"
  <2>1. DeleteCase(st) = [t |-> Paint(t1, w, "RED"), x |-> d]
    BY <1>1, <1>7, <1>8, <1>9
  <2>2. DelStepped(t, M, sub, x, [t |-> Paint(t1, w, "RED"), x |-> d])
    BY <1>4, <1>5, <1>7, <1>9, BlackNephewsStep DEF o
  <2> QED BY <2>1, <2>2 DEF st
<1>10. CASE ~(t1.color[t1[s][w]] = "BLACK" /\ t1.color[t1[o][w]] = "BLACK")
  <2>1. DeleteCase(st) = [t |-> u, x |-> u.root]
    BY <1>1, <1>8, <1>10
  <2>2. RedFarNephew(s, M, x, d, RaiseNearNephew(t1, s, x))
    BY <1>4, <1>6, <1>7, <1>10, NearNephewStep DEF o
  <2>3. RedBlack(u, M)
    BY <1>4, <2>2, RaiseSiblingStep DEF u
  <2>4. PICK sub2 : DelOK("left", u, M, sub2, u.root)
    BY <2>3, RedBlackDelOK
  <2>5. DelStepped(t, M, sub, x, [t |-> u, x |-> u.root])
    BY <2>4 DEF DelStepped
  <2> QED BY <2>1, <2>5 DEF st
<1> QED BY <1>9, <1>10

-----------------------------------------------------------------------------
(* The fix-up after a deletion.                                            *)

\* The state of the loop after k iterations.
DelLoop(st, M, k) ==
  \E t, x, sub :
    /\ st = [t |-> t, x |-> x]
    /\ DelOK("left", t, M, sub, x)
    /\ x # t.root /\ t.color[x] = "BLACK" => k <= Cardinality(sub[x])

\* The subtree of x is a part of M.
LEMMA DelSub ==
  ASSUME NEW t, NEW M, NEW sub, NEW x, DelOK("left", t, M, sub, x)
  PROVE  /\ sub[x] \subseteq M /\ M \subseteq Node /\ x \in D /\ t \in Trees
         /\ IsFiniteSet(sub[x]) /\ Cardinality(sub[x]) \in Nat
<1>1. /\ Shape(t.root, t["left"], t["right"], t.parent, M, sub) /\ x \in M \cup {NIL} /\ t \in Trees
  BY DEF DelOK, TreeFrom, ShapeFrom, Opposite, DelColorable, DelColored
<1>2. x \in D /\ sub[x] \subseteq M /\ M \subseteq Node
  BY <1>1, NilNotNode DEF Shape
<1>3. IsFiniteSet(sub[x])
  BY <1>2, RBTreeAssumption, FS_Subset
<1> QED BY <1>1, <1>2, <1>3, FS_CardinalityType

LEMMA DelLoopStep ==
  ASSUME NEW st, NEW M, NEW k \in Nat, DelLoop(st, M, k)
  PROVE  DelLoop(IF st.x # st.t.root /\ st.t.color[st.x] = "BLACK" THEN DeleteCase(st) ELSE st,
                 M, k + 1)
<1>1. PICK t, x, sub :
        /\ st = [t |-> t, x |-> x]
        /\ DelOK("left", t, M, sub, x)
        /\ x # t.root /\ t.color[x] = "BLACK" => k <= Cardinality(sub[x])
  BY DEF DelLoop
<1>2. st.t = t /\ st.x = x
  BY <1>1
<1>3. CASE ~(x # t.root /\ t.color[x] = "BLACK")
  <2>1. DelLoop(st, M, k + 1)
    BY <1>1, <1>3 DEF DelLoop
  <2> QED BY <1>2, <1>3, <2>1
<1>4. CASE x # t.root /\ t.color[x] = "BLACK"
  <2>1. DelStepped(t, M, sub, x, DeleteCase(st))
    BY <1>1, <1>4, DeleteStep
  <2>2. PICK t2, x2, sub2 :
          /\ DeleteCase(st) = [t |-> t2, x |-> x2]
          /\ DelOK("left", t2, M, sub2, x2)
          /\ \/ x2 = t2.root \/ t2.color[x2] # "BLACK"
             \/ sub[x] \subseteq sub2[x2] /\ x2 \notin sub[x] /\ x2 \in sub2[x2]
    BY <2>1 DEF DelStepped
  <2>3. x2 # t2.root /\ t2.color[x2] = "BLACK" => k + 1 <= Cardinality(sub2[x2])
    <3> SUFFICES ASSUME x2 # t2.root /\ t2.color[x2] = "BLACK"
                 PROVE  k + 1 <= Cardinality(sub2[x2])
      OBVIOUS
    <3>1. sub[x] \subseteq sub2[x2] /\ x2 \notin sub[x] /\ x2 \in sub2[x2]
      BY <2>2
    <3>2. sub2[x2] \subseteq Node
      BY <2>2, DelSub
    <3>3. Cardinality(sub[x]) < Cardinality(sub2[x2]) /\ Cardinality(sub[x]) \in Nat
          /\ Cardinality(sub2[x2]) \in Nat
      BY <3>1, <3>2, Larger
    <3> QED BY <1>1, <1>4, <3>3
  <2>4. DelLoop(DeleteCase(st), M, k + 1)
    BY <2>2, <2>3 DEF DelLoop
  <2> QED BY <1>2, <1>4, <2>4
<1> QED BY <1>3, <1>4

\* There is a node outside of M, the deleted one.
LEMMA DelLoopEnd ==
  ASSUME NEW st, NEW M, DelLoop(st, M, Cardinality(Node)), NEW z \in Node, z \notin M
  PROVE  RedBlack(Paint(st.t, st.x, "BLACK"), M)
<1>1. PICK t, x, sub :
        /\ st = [t |-> t, x |-> x]
        /\ DelOK("left", t, M, sub, x)
        /\ x # t.root /\ t.color[x] = "BLACK" => Cardinality(Node) <= Cardinality(sub[x])
  BY DEF DelLoop
<1>2. sub[x] \subseteq M /\ M \subseteq Node /\ x \in D /\ t \in Trees
  BY <1>1, DelSub
<1>3. ~(Cardinality(Node) <= Cardinality(sub[x]))
  <2>1. Cardinality(sub[x]) < Cardinality(Node) /\ Cardinality(sub[x]) \in Nat
    BY <1>2, Larger
  <2> QED BY <2>1, NodeCount
<1> DEFINE A == t["left"]
           B == t["right"]
           P == t.parent
           C == t.color
           r == t.root
           u == Paint(t, x, "BLACK")
<1>4. /\ Shape(r, A, B, P, M, sub) /\ DelColorable(r, A, B, P, C, M, x)
      /\ x = r \/ C[x] # "BLACK"
  BY <1>1, <1>3 DEF DelOK, TreeFrom, ShapeFrom, Opposite
<1> HIDE DEF A, B, P, C, r, u
<1>5. PICK bh2 : Colored(r, A, B, Upd(C, x, "BLACK"), M, bh2, NIL)
  <2>1. Colorable(r, A, B, Upd(C, x, "BLACK"), M, NIL)
    BY <1>4, DeleteEnd
  <2> QED BY <2>1 DEF Colorable
<1>6. Painted(t, x, "BLACK", u)
  BY <1>2, PaintColor DEF u
<1>7. TreeFrom("left", u, M, sub)
  BY <1>1, <1>6, PaintTree DEF DelOK, Side
<1>8. ColorsFrom("left", u, M, bh2, NIL)
  <2>1. u.root = r /\ u["left"] = A /\ u["right"] = B /\ u.color = Upd(C, x, "BLACK")
    BY <1>6 DEF Painted, Side, A, B, C, r
  <2> QED BY <1>5, <2>1 DEF ColorsFrom, Opposite
<1>9. RedBlack(u, M)
  BY <1>7, <1>8 DEF RedBlack
<1> QED BY <1>1, <1>9 DEF u

LEMMA DeleteFixup ==
  ASSUME NEW t, NEW M, NEW sub, NEW x, DelOK("left", t, M, sub, x), NEW z \in Node, z \notin M
  PROVE  RedBlack(rbtree_delete_fixup(t, x), M)
<1> DEFINE N == Cardinality(Node)
           start == [t |-> t, x |-> x]
           After(st) == IF st.x # st.t.root /\ st.t.color[st.x] = "BLACK" THEN DeleteCase(st) ELSE st
           Eq(f) == f = [k \in 0 .. N |-> IF k = 0 THEN start ELSE After(f[k - 1])]
           g == CHOOSE f : Eq(f)
<1>1. rbtree_delete_fixup(t, x) = Paint(g[N].t, g[N].x, "BLACK")
  BY Zenon DEF rbtree_delete_fixup, While
<1>n. N \in Nat
  BY NodeCount
<1>3. ASSUME NEW st, NEW k \in Nat, DelLoop(st, M, k) PROVE DelLoop(After(st), M, k + 1)
  BY <1>3, DelLoopStep
<1> HIDE DEF After, g, N
<1>2. DelLoop(start, M, 0)
  <2>1. Cardinality(sub[x]) \in Nat
    BY DelSub
  <2>2. 0 <= Cardinality(sub[x])
    BY <2>1
  <2> QED BY <2>2 DEF DelLoop
<1>4. \E f : Eq(f)
  <2> DEFINE V == {st \in [t : Trees, x : D] : \E k \in Nat : DelLoop(st, M, k)}
             next == [st \in V |-> After(st)]
  <2>1. \A st, k : DelLoop(st, M, k) => st \in [t : Trees, x : D]
    BY DelSub DEF DelLoop
  <2>2. start \in V
    BY <1>2, <2>1
  <2>3. next \in [V -> V]
    BY <1>3, <2>1
  <2>4. \A st \in V : next[st] = After(st)
    OBVIOUS
  <2> HIDE DEF V, next, start
  <2>l. PICK f : Iterates(f, N, V, start, next)
    BY <1>n, <2>2, <2>3, LoopExists
  <2>5. f \in [0 .. N -> V] /\ f[0] = start /\ \A k \in 1 .. N : f[k] = next[f[k - 1]]
    BY <2>l DEF Iterates
  <2>6. ASSUME NEW k \in 0 .. N PROVE f[k] = IF k = 0 THEN start ELSE After(f[k - 1])
    <3>1. CASE k # 0
      <4>1. k \in 1 .. N /\ k - 1 \in 0 .. N
        BY <1>n, <3>1
      <4> QED BY <2>4, <2>5, <3>1, <4>1
    <3> QED BY <2>5, <3>1
  <2>7. Eq(f)
    BY <2>5, <2>6
  <2> QED BY <2>7
<1>5. Eq(g)
  BY <1>4 DEF g
<1>6. g[0] = start /\ \A k \in 1 .. N : g[k] = After(g[k - 1])
  <2> HIDE DEF start
  <2> QED BY <1>5, <1>n
<1>7. DelLoop(g[N], M, N)
  <2> DEFINE S == {k \in Nat : DelLoop(g[k], M, k)}
  <2>1. 0 \in S
    BY <1>2, <1>6
  <2>2. ASSUME NEW k \in 0 .. N - 1, k \in S PROVE k + 1 \in S
    <3>1. k \in Nat /\ k + 1 \in 1 .. N /\ (k + 1) - 1 = k
      BY <1>n
    <3>2. g[k + 1] = After(g[k])
      BY <1>6, <3>1
    <3> QED BY <1>3, <2>2, <3>1, <3>2
  <2> HIDE DEF S
  <2>3. N \in S
    BY <1>n, <2>1, <2>2, IntervalInduction
  <2> QED BY <2>3 DEF S
<1>8. RedBlack(Paint(g[N].t, g[N].x, "BLACK"), M)
  BY <1>7, DelLoopEnd DEF N
<1> QED BY <1>1, <1>8

-----------------------------------------------------------------------------
(* A node is taken out.                                                    *)

\* z, which has no A child, is replaced by its B child x.
Spliced(z, x, r, A, B, P, r2, A2, B2, P2) ==
  LET p == P[z]
  IN  /\ A2 \in [D -> W] /\ B2 \in [D -> W] /\ P2 \in [D -> W]
      /\ r2 = IF p = NIL THEN x ELSE r
      /\ \A n \in D : A2[n] = IF n = p /\ p # NIL /\ z = A[p] THEN x ELSE A[n]
      /\ \A n \in D : B2[n] = IF n = p /\ p # NIL /\ z # A[p] THEN x ELSE B[n]
      /\ \A n \in D : P2[n] = IF n = x THEN p ELSE P[n]

Without(z, sub) == [n \in D |-> sub[n] \ {z}]

\* The nodes around z.
LEMMA SpliceNodes ==
  ASSUME NEW r, NEW A, NEW B, NEW P, NEW M, NEW sub, Shape(r, A, B, P, M, sub),
         NEW z \in M, A[z] = NIL, NEW x, B[z] = x, NEW p, P[z] = p
  PROVE  /\ M \subseteq D /\ NIL \in D /\ NIL \notin M /\ z \in D /\ x \in D /\ z # NIL
         /\ x \in M \cup {NIL} /\ x # z /\ sub[x] = sub[z] \ {z} /\ z \notin sub[x]
         /\ x # NIL => P[x] = z
         /\ p \in M \cup {NIL} /\ p # z /\ (p # x \/ p = NIL)
         /\ p = NIL <=> z = r
         /\ p # NIL => /\ z = A[p] \/ z = B[p]
                       /\ A[p] # B[p]
<1>1. M \subseteq D /\ NIL \in D /\ NIL \notin M /\ sub[NIL] = {} /\ sub \in [D -> SUBSET M]
  BY NilNotNode DEF Shape
<1>2. At(z, A, B, P, M, sub)
  BY DEF Shape
<1>3. z \in sub[z] /\ p \in M \cup {NIL} /\ (p = NIL <=> z = r)
      /\ (z # r => p # z /\ p \notin sub[z] /\ (z = A[p] \/ z = B[p]) /\ A[p] # B[p])
  BY Parents
<1>4. x \in M \cup {NIL} /\ (x # NIL => P[x] = z) /\ sub[z] = {z} \cup sub[x] /\ z \notin sub[x]
  BY <1>1, <1>2 DEF At
<1>5. x # NIL => x \in sub[x]
  BY <1>4, Parents
<1>6. p # NIL => p # x
  BY <1>3, <1>4, <1>5
<1> QED BY <1>1, <1>3, <1>4, <1>5, <1>6

\* To another node n x looks as z did.
SplicedAt(n, z, x, p, A, B, A2, B2, M) ==
  /\ A2[n] = IF A[n] = z THEN x ELSE A[n]
  /\ B2[n] = IF B[n] = z THEN x ELSE B[n]
  /\ A[n] = z \/ B[n] = z <=> n = p
  /\ A[n] \in M \cup {NIL} /\ B[n] \in M \cup {NIL} /\ n \in D
  /\ A[n] = z => B[n] # z

LEMMA SpliceOthers ==
  ASSUME NEW r, NEW A, NEW B, NEW P, NEW M, NEW sub, Shape(r, A, B, P, M, sub),
         NEW z \in M, A[z] = NIL, NEW x, B[z] = x, NEW p, P[z] = p,
         NEW r2, NEW A2, NEW B2, NEW P2, Spliced(z, x, r, A, B, P, r2, A2, B2, P2),
         NEW n \in M, n # z
  PROVE  SplicedAt(n, z, x, p, A, B, A2, B2, M)
<1>1. /\ M \subseteq D /\ NIL \in D /\ NIL \notin M /\ z \in D /\ x \in D /\ z # NIL
      /\ p \in M \cup {NIL} /\ p # z /\ (p # x \/ p = NIL)
      /\ p # NIL => /\ z = A[p] \/ z = B[p]
                    /\ A[p] # B[p]
  BY SpliceNodes
<1>2. /\ \A m \in D : A2[m] = IF m = p /\ p # NIL /\ z = A[p] THEN x ELSE A[m]
      /\ \A m \in D : B2[m] = IF m = p /\ p # NIL /\ z # A[p] THEN x ELSE B[m]
  BY DEF Spliced
<1>3. /\ A[n] \in M \cup {NIL} /\ B[n] \in M \cup {NIL} /\ n \in D /\ n # NIL
      /\ A[n] # NIL => P[A[n]] = n
      /\ B[n] # NIL => P[B[n]] = n
  BY <1>1 DEF Shape, At
<1>4. (A[n] = z \/ B[n] = z) <=> n = p
  BY <1>1, <1>3
<1>5. CASE n = p
  BY <1>1, <1>2, <1>3, <1>4, <1>5 DEF SplicedAt
<1>6. CASE n # p
  BY <1>1, <1>2, <1>3, <1>4, <1>6 DEF SplicedAt
<1> QED BY <1>5, <1>6

LEMMA SpliceShape ==
  ASSUME NEW r, NEW A, NEW B, NEW P, NEW M, NEW sub, Shape(r, A, B, P, M, sub),
         NEW z \in M, A[z] = NIL, NEW x, B[z] = x,
         NEW r2, NEW A2, NEW B2, NEW P2, Spliced(z, x, r, A, B, P, r2, A2, B2, P2)
  PROVE  Shape(r2, A2, B2, P2, M \ {z}, Without(z, sub))
<1> DEFINE p == P[z]
           M2 == M \ {z}
           sub2 == Without(z, sub)
<1>1. /\ M \subseteq D /\ NIL \in D /\ NIL \notin M /\ z \in D /\ x \in D /\ z # NIL
      /\ x \in M \cup {NIL} /\ x # z /\ sub[x] = sub[z] \ {z} /\ z \notin sub[x]
      /\ x # NIL => P[x] = z
      /\ p \in M \cup {NIL} /\ p # z /\ (p # x \/ p = NIL)
      /\ p = NIL <=> z = r
      /\ p # NIL => /\ z = A[p] \/ z = B[p]
                    /\ A[p] # B[p]
  BY SpliceNodes
<1>2. /\ A2 \in [D -> W] /\ B2 \in [D -> W] /\ P2 \in [D -> W]
      /\ r2 = IF p = NIL THEN x ELSE r
      /\ \A n \in D : P2[n] = IF n = x THEN p ELSE P[n]
  BY DEF Spliced
<1>s. /\ M \subseteq Node /\ sub \in [D -> SUBSET M] /\ sub[NIL] = {} /\ sub[r] = M
      /\ r \in M \cup {NIL} /\ (r # NIL => P[r] = NIL)
  BY DEF Shape
<1>3. sub2 \in [D -> SUBSET M2] /\ \A n \in D : sub2[n] = sub[n] \ {z}
  BY <1>s DEF Without
<1>p. P[z] = p
  OBVIOUS
<1> HIDE DEF sub2, p
<1>4. sub2[NIL] = {} /\ r2 \in M2 \cup {NIL} /\ sub2[r2] = M2 /\ (r2 # NIL => P2[r2] = NIL)
  <2>1. CASE p = NIL
    <3>1. r2 = x /\ sub[x] = M \ {z}
      BY <1>1, <1>2, <1>s, <2>1
    <3> QED BY <1>1, <1>2, <1>3, <1>s, <2>1, <3>1
  <2>2. CASE p # NIL
    <3>1. r2 = r /\ r \in M /\ r # z
      BY <1>1, <1>2, <1>s, <2>2, Parents
    <3>2. r # x
      BY <1>1, <1>s, <3>1, Parents
    <3> QED BY <1>1, <1>2, <1>3, <1>s, <2>2, <3>1, <3>2
  <2> QED BY <2>1, <2>2
<1>5. ASSUME NEW n \in M2 PROVE At(n, A2, B2, P2, M2, sub2)
  <2>0. n \in M /\ n # z
    OBVIOUS
  <2>1. /\ A2[n] = IF A[n] = z THEN x ELSE A[n]
        /\ B2[n] = IF B[n] = z THEN x ELSE B[n]
        /\ A[n] = z \/ B[n] = z <=> n = p
        /\ A[n] \in M \cup {NIL} /\ B[n] \in M \cup {NIL} /\ n \in D
        /\ A[n] = z => B[n] # z
    <3>1. SplicedAt(n, z, x, p, A, B, A2, B2, M)
      BY <1>p, <2>0, SpliceOthers
    <3> QED BY <3>1 DEF SplicedAt
  <2>2. At(n, A, B, P, M, sub)
    BY <2>0 DEF Shape
  <2>3. sub2[A2[n]] = sub[A[n]] \ {z} /\ sub2[B2[n]] = sub[B[n]] \ {z} /\ sub2[n] = sub[n] \ {z}
    <3>1. A[n] \in D /\ B[n] \in D /\ A2[n] \in D /\ B2[n] \in D
      BY <1>1, <2>1
    <3>2. sub2[A2[n]] = sub[A2[n]] \ {z} /\ sub2[B2[n]] = sub[B2[n]] \ {z} /\ sub2[n] = sub[n] \ {z}
      BY <1>3, <2>1, <3>1
    <3> QED BY <1>1, <2>1, <3>2
  <2>4. /\ sub2[n] = {n} \cup sub2[A2[n]] \cup sub2[B2[n]]
        /\ n \notin sub2[A2[n]] /\ n \notin sub2[B2[n]] /\ sub2[A2[n]] \cap sub2[B2[n]] = {}
    BY <2>0, <2>2, <2>3 DEF At
  <2>5. /\ A2[n] \in M2 \cup {NIL} /\ B2[n] \in M2 \cup {NIL}
    BY <1>1, <2>1
  <2>6. A2[n] # NIL => P2[A2[n]] = n
    <3>1. CASE A[n] = z
      BY <1>1, <1>2, <2>1, <3>1
    <3>2. CASE A[n] # z
      BY <1>1, <1>2, <2>0, <2>1, <2>2, <3>2 DEF At
    <3> QED BY <3>1, <3>2
  <2>7. B2[n] # NIL => P2[B2[n]] = n
    <3>1. CASE B[n] = z
      BY <1>1, <1>2, <2>1, <3>1
    <3>2. CASE B[n] # z
      BY <1>1, <1>2, <2>0, <2>1, <2>2, <3>2 DEF At
    <3> QED BY <3>1, <3>2
  <2> QED BY <2>4, <2>5, <2>6, <2>7 DEF At
<1> QED BY <1>2, <1>3, <1>4, <1>5, <1>s DEF Shape, sub2

LEMMA SpliceSorted ==
  ASSUME NEW r, NEW A, NEW B, NEW P, NEW M, NEW sub, Shape(r, A, B, P, M, sub),
         NEW K, Sorted(A, B, K, M, sub),
         NEW z \in M, A[z] = NIL, NEW x, B[z] = x,
         NEW r2, NEW A2, NEW B2, NEW P2, Spliced(z, x, r, A, B, P, r2, A2, B2, P2)
  PROVE  Sorted(A2, B2, K, M \ {z}, Without(z, sub))
<1> DEFINE p == P[z]
<1>1. M \subseteq D /\ NIL \in D /\ x \in D /\ sub[x] = sub[z] \ {z} /\ x # z
  BY SpliceNodes
<1>p. P[z] = p
  OBVIOUS
<1> HIDE DEF p
<1>2. ASSUME NEW n \in M, n # z
      PROVE  /\ \A m \in Without(z, sub)[A2[n]] : K[m] <= K[n]
             /\ \A m \in Without(z, sub)[B2[n]] : K[n] <= K[m]
  <2>1. /\ A2[n] = IF A[n] = z THEN x ELSE A[n]
        /\ B2[n] = IF B[n] = z THEN x ELSE B[n]
        /\ A[n] \in M \cup {NIL} /\ B[n] \in M \cup {NIL}
    <3>1. SplicedAt(n, z, x, p, A, B, A2, B2, M)
      BY <1>p, <1>2, SpliceOthers
    <3> QED BY <3>1 DEF SplicedAt
  <2>2. A2[n] \in D /\ B2[n] \in D
    BY <1>1, <2>1
  <2>3. Without(z, sub)[A2[n]] \subseteq sub[A[n]] /\ Without(z, sub)[B2[n]] \subseteq sub[B[n]]
    BY <1>1, <2>1, <2>2 DEF Without
  <2> QED BY <2>3 DEF Sorted
<1> QED BY <1>2 DEF Sorted

\* A red node is missed by nobody, a black one is missing at x.
LEMMA SpliceColors ==
  ASSUME NEW r, NEW A, NEW B, NEW P, NEW M, NEW sub, Shape(r, A, B, P, M, sub),
         NEW C, NEW bh, Colored(r, A, B, C, M, bh, NIL),
         NEW z \in M, A[z] = NIL, NEW x, B[z] = x,
         NEW r2, NEW A2, NEW B2, NEW P2, Spliced(z, x, r, A, B, P, r2, A2, B2, P2)
  PROVE  /\ C[z] # "BLACK" => Colored(r2, A2, B2, C, M \ {z}, bh, NIL)
         /\ C[z] = "BLACK" => DelColored(r2, A2, B2, P2, C, M \ {z}, bh, x)
<1> DEFINE p == P[z]
           M2 == M \ {z}
<1>1. /\ M \subseteq D /\ NIL \in D /\ NIL \notin M /\ z \in D /\ x \in D /\ z # NIL
      /\ x \in M \cup {NIL} /\ x # z
      /\ x # NIL => P[x] = z
      /\ p \in M \cup {NIL} /\ p # z /\ (p # x \/ p = NIL)
      /\ p = NIL <=> z = r
      /\ p # NIL => /\ z = A[p] \/ z = B[p]
                    /\ A[p] # B[p]
  BY SpliceNodes
<1>2. r2 = (IF p = NIL THEN x ELSE r) /\ P2[x] = p
  BY <1>1 DEF Spliced
<1>3. /\ ColorTypes(C, bh) /\ (C[r] = "BLACK" \/ r = NIL)
      /\ \A n \in M : HeightAt(n, A, B, C, bh) /\ ColorAt(n, A, B, C, NIL)
  BY DEF Colored
<1>c. C \in [D -> Color] /\ bh \in [D -> Nat] /\ C[NIL] = "BLACK" /\ bh[NIL] = 0
  BY <1>3 DEF ColorTypes
<1>4. C[r] = "BLACK" /\ C[z] \in Color /\ bh[x] \in Nat /\ bh[z] = bh[x] + Black(C[z])
  BY <1>1, <1>3, <1>c DEF HeightAt
<1>h. C[z] # "BLACK" => bh[z] = bh[x]
  BY <1>4 DEF Black
<1>b. C[z] = "BLACK" => bh[z] = bh[x] + 1
  BY <1>4 DEF Black
<1>p. P[z] = p
  OBVIOUS
<1> HIDE DEF p
<1>5. ASSUME NEW n \in M, n # z
      PROVE  /\ A2[n] = IF A[n] = z THEN x ELSE A[n]
             /\ B2[n] = IF B[n] = z THEN x ELSE B[n]
             /\ A[n] = z \/ B[n] = z <=> n = p
             /\ A[n] = z => B[n] # z
             /\ HeightAt(n, A, B, C, bh) /\ ColorAt(n, A, B, C, NIL)
  <2>1. SplicedAt(n, z, x, p, A, B, A2, B2, M)
    BY <1>p, <1>5, SpliceOthers
  <2>2. HeightAt(n, A, B, C, bh) /\ ColorAt(n, A, B, C, NIL)
    BY <1>3
  <2> QED BY <2>1, <2>2 DEF SplicedAt
<1>6. ASSUME C[z] # "BLACK" PROVE Colored(r2, A2, B2, C, M2, bh, NIL)
  <2>1. z # r /\ r2 = r
    BY <1>1, <1>2, <1>4, <1>6
  <2>2. ASSUME NEW n \in M2 PROVE HeightAt(n, A2, B2, C, bh) /\ ColorAt(n, A2, B2, C, NIL)
    <3>1. bh[A2[n]] = bh[A[n]] /\ bh[B2[n]] = bh[B[n]]
      BY <1>5, <1>6, <1>h
    <3>2. C[n] = "RED" => A[n] # z /\ B[n] # z
      BY <1>1, <1>5, <1>6 DEF ColorAt
    <3> QED BY <1>5, <3>1, <3>2 DEF HeightAt, ColorAt
  <2> QED BY <1>3, <1>4, <2>1, <2>2 DEF Colored
<1>7. ASSUME C[z] = "BLACK" PROVE DelColored(r2, A2, B2, P2, C, M2, bh, x)
  <2>1. x \in M2 \cup {NIL} /\ (C[r2] = "BLACK" \/ x = r2)
    BY <1>1, <1>2, <1>4
  <2>2. ASSUME NEW n \in M2
        PROVE  /\ x = r2 \/ n # P2[x] => HeightAt(n, A2, B2, C, bh)
               /\ n # x => ColorAt(n, A2, B2, C, x)
    <3>1. ColorAt(n, A2, B2, C, x)
      BY <1>5, <1>c DEF ColorAt
    <3>2. ASSUME x = r2 \/ n # p PROVE n # p
      <4>1. CASE x = r2 /\ p # NIL
        <5>1. x = r /\ r \in M
          BY <1>1, <1>2, <4>1, Parents
        <5>2. P[r] = NIL /\ r # NIL
          BY <1>1, <5>1, Parents
        <5> QED BY <1>1, <5>1, <5>2
      <4>2. CASE p = NIL
        BY <1>1, <4>2
      <4> QED BY <3>2, <4>1, <4>2
    <3>3. n # p => HeightAt(n, A2, B2, C, bh)
      BY <1>5 DEF HeightAt
    <3> QED BY <1>2, <3>1, <3>2, <3>3
  <2>3. ASSUME x # r2
        PROVE  /\ p \in M2
               /\ \/ A2[p] = x /\ Short(p, A2, B2, C, bh)
                  \/ B2[p] = x /\ Short(p, B2, A2, C, bh)
    <3>1. p \in M /\ p # z /\ p # NIL
      BY <1>1, <1>2, <2>3
    <3>2. HeightAt(p, A, B, C, bh)
      BY <1>3, <3>1
    <3>3. CASE A[p] = z
      <4>1. A2[p] = x /\ B2[p] = B[p]
        BY <1>5, <3>1, <3>3
      <4> QED BY <1>7, <1>b, <3>1, <3>2, <3>3, <4>1 DEF HeightAt, Short
    <3>4. CASE B[p] = z
      <4>1. B2[p] = x /\ A2[p] = A[p]
        BY <1>5, <3>1, <3>4
      <4> QED BY <1>7, <1>b, <3>1, <3>2, <3>4, <4>1 DEF HeightAt, Short
    <3> QED BY <1>1, <3>1, <3>3, <3>4
  <2> QED BY <1>2, <1>3, <2>1, <2>2, <2>3 DEF DelColored
<1> QED BY <1>6, <1>7

\* u is t without z, which has no child on side s and the child x on the other side.
SplicedFrom(s, z, x, t, u) ==
  /\ u \in Trees /\ u.color = t.color
  /\ Spliced(z, x, t.root, t[s], t[Opposite(s)], t.parent,
             u.root, u[s], u[Opposite(s)], u.parent)

LEMMA SpliceView ==
  ASSUME NEW t \in Trees, NEW s \in Side, NEW M, NEW sub, ShapeFrom(s, t, M, sub),
         NEW z \in M, t[s][z] = NIL, NEW x, t[Opposite(s)][z] = x
  PROVE  SplicedFrom(s, z, x, t, Splice(t, z, x))
<1> DEFINE o == Opposite(s)
           A == t[s]
           B == t[o]
           P == t.parent
           r == t.root
           p == P[z]
           v == Replace(t, z, x)
           u == Splice(t, z, x)
<1>o. o \in Side /\ Opposite(o) = s /\ Side = {s, o} /\ o = Opposite(s)
  BY DEF Side, Opposite
<1>u. Put(v, "parent", x, p) = u
  BY DEF Splice
<1>q. P[z] = p /\ A[z] = NIL /\ B[z] = x /\ Shape(r, A, B, P, M, sub)
  BY DEF ShapeFrom
<1>v. v = Replace(t, z, x)
  OBVIOUS
<1> HIDE DEF o, A, B, P, r, p, v, u
<1>0. A \in [D -> W] /\ B \in [D -> W] /\ P \in [D -> W] /\ r \in D
  BY <1>o, TreeFields DEF A, B, P, r
<1>1. /\ M \subseteq D /\ NIL \in D /\ z \in D /\ x \in D
      /\ p \in M \cup {NIL}
      /\ p # NIL => /\ z = A[p] \/ z = B[p]
                    /\ A[p] # B[p]
  BY <1>q, SpliceNodes
<1>2. p \in D /\ p \in W /\ p = t.parent[z]
  BY <1>1, <1>q DEF P, D, W
<1>3. Replaced(t, s, z, x, v)
  <2>1. p # NIL => (z = t[s][p] \/ z = t[o][p]) /\ t[s][p] # t[o][p]
    BY <1>1 DEF A, B
  <2> QED BY <1>1, <1>2, <1>o, <1>v, <2>1, ReplaceView
<1>4. /\ v \in Trees /\ v.color = t.color /\ v.parent = P
      /\ v.root = IF p = NIL THEN x ELSE r
      /\ v[s] = IF p # NIL /\ z = A[p] THEN Upd(A, p, x) ELSE A
      /\ v[o] = IF p # NIL /\ z # A[p] THEN Upd(B, p, x) ELSE B
  BY <1>2, <1>3, <1>o DEF Replaced, A, B, P, r
<1>5. ParentPut(v, x, p, u)
  BY <1>1, <1>2, <1>4, <1>u, PutParent
<1>6. /\ u \in Trees /\ u.root = v.root /\ u.color = t.color
      /\ u.parent = Upd(P, x, p) /\ u[s] = v[s] /\ u[o] = v[o]
  BY <1>4, <1>5, <1>o DEF ParentPut
<1>7. u[s] \in [D -> W] /\ u[o] \in [D -> W] /\ u.parent \in [D -> W]
  BY <1>6, <1>o, TreeFields
<1>8. \A n \in D : u[s][n] = IF n = p /\ p # NIL /\ z = A[p] THEN x ELSE A[n]
  BY <1>0, <1>1, <1>2, <1>4, <1>6 DEF Upd
<1>9. \A n \in D : u[o][n] = IF n = p /\ p # NIL /\ z # A[p] THEN x ELSE B[n]
  BY <1>0, <1>1, <1>2, <1>4, <1>6 DEF Upd
<1>10. \A n \in D : u.parent[n] = IF n = x THEN p ELSE P[n]
  BY <1>0, <1>1, <1>2, <1>6 DEF Upd
<1>11. Spliced(z, x, r, A, B, P, u.root, u[s], u[o], u.parent)
  BY <1>4, <1>6, <1>7, <1>8, <1>9, <1>10, <1>q DEF Spliced
<1>12. SplicedFrom(s, z, x, t, u)
  BY <1>6, <1>11 DEF SplicedFrom, A, B, P, r, o
<1> QED BY <1>12 DEF u

\* The tree u after a node of color c has been taken out: correct when the node was
\* red, and what the fix-up starts with when it was black.
TakenOut(c, M, x, u) ==
  /\ c # "BLACK" => RedBlack(u, M)
  /\ c = "BLACK" => \E sub : DelOK("left", u, M, sub, x)

LEMMA SpliceTree ==
  ASSUME NEW s \in Side, NEW t, NEW M, NEW sub, NEW bh, TreeFrom(s, t, M, sub),
         ColorsFrom(s, t, M, bh, NIL), NEW z \in M, t[s][z] = NIL, NEW x, t[Opposite(s)][z] = x
  PROVE  TakenOut(t.color[z], M \ {z}, x, Splice(t, z, x))
<1> DEFINE o == Opposite(s)
           A == t[s]
           B == t[o]
           P == t.parent
           C == t.color
           r == t.root
           K == KeyFrom(s)
           u == Splice(t, z, x)
           A2 == u[s]
           B2 == u[o]
           P2 == u.parent
           r2 == u.root
           sub2 == Without(z, sub)
           M2 == M \ {z}
<1>1. /\ t \in Trees /\ Shape(r, A, B, P, M, sub) /\ Sorted(A, B, K, M, sub)
      /\ Colored(r, A, B, C, M, bh, NIL) /\ A[z] = NIL /\ B[z] = x
  BY DEF TreeFrom, ShapeFrom, ColorsFrom
<1>2. SplicedFrom(s, z, x, t, u)
  BY <1>1, SpliceView DEF ShapeFrom
<1>3. u \in Trees /\ u.color = C /\ Spliced(z, x, r, A, B, P, r2, A2, B2, P2)
  BY <1>2 DEF SplicedFrom
<1> HIDE DEF o, A, B, P, C, r, K, u, A2, B2, P2, r2, sub2, M2
<1>4. Shape(r2, A2, B2, P2, M2, sub2)
  BY <1>1, <1>3, SpliceShape DEF M2, sub2
<1>5. Sorted(A2, B2, K, M2, sub2)
  BY <1>1, <1>3, SpliceSorted DEF M2, sub2
<1>6. /\ C[z] # "BLACK" => Colored(r2, A2, B2, C, M2, bh, NIL)
      /\ C[z] = "BLACK" => DelColored(r2, A2, B2, P2, C, M2, bh, x)
  BY <1>1, <1>3, SpliceColors DEF M2
<1>7. TreeFrom(s, u, M2, sub2)
  BY <1>3, <1>4, <1>5 DEF TreeFrom, ShapeFrom, A2, B2, P2, r2, K, o
<1>8. ASSUME C[z] # "BLACK" PROVE RedBlack(u, M2)
  <2>1. ColorsFrom(s, u, M2, bh, NIL)
    BY <1>3, <1>6, <1>8 DEF ColorsFrom, A2, B2, r2, o
  <2>2. TreeFrom("left", u, M2, sub2) /\ ColorsFrom("left", u, M2, bh, NIL)
    BY <1>7, <2>1, AnySide DEF Side
  <2> QED BY <2>2 DEF RedBlack
<1>9. ASSUME C[z] = "BLACK" PROVE DelOK("left", u, M2, sub2, x)
  <2>1. DelOK(s, u, M2, sub2, x)
    BY <1>3, <1>6, <1>7, <1>9 DEF DelOK, DelColorable, A2, B2, P2, r2, o
  <2> QED BY <2>1, DelOtherSide DEF Side
<1>10. TakenOut(t.color[z], M \ {z}, x, u)
  BY <1>8, <1>9 DEF TakenOut, M2, C
<1> QED BY <1>10 DEF u

-----------------------------------------------------------------------------
(* The walk to the least node of a subtree.                                *)

\* The walk from n has come to m: the nodes it has left are not less than m.
DownTo(K, M, sub, n, m) ==
  /\ m \in sub[n] /\ m \in M
  /\ \A a \in sub[n] : a \in sub[m] \/ K[m] <= K[a]

\* y is a least node of the subtree of n, and has no A child.
Least(A, K, sub, n, y) == y \in sub[n] /\ A[y] = NIL /\ \A a \in sub[n] : K[y] <= K[a]

LEMMA DownStep ==
  ASSUME NEW r, NEW A, NEW B, NEW P, NEW M, NEW sub, Shape(r, A, B, P, M, sub),
         NEW K \in [Node -> Int], Sorted(A, B, K, M, sub),
         NEW n \in M, NEW m, DownTo(K, M, sub, n, m), NEW c, A[m] = c
  PROVE  /\ c # NIL => DownTo(K, M, sub, n, c) /\ Cardinality(sub[c]) < Cardinality(sub[m])
         /\ c = NIL => Least(A, K, sub, n, m)
<1>1. m \in sub[n] /\ m \in M /\ \A a \in sub[n] : a \in sub[m] \/ K[m] <= K[a]
  BY DEF DownTo
<1>2. sub[m] \subseteq sub[n]
  BY <1>1, Subtrees
<1>3. At(m, A, B, P, M, sub) /\ M \subseteq Node /\ sub \in [D -> SUBSET M] /\ sub[NIL] = {}
  BY <1>1 DEF Shape
<1>4. sub[m] = {m} \cup sub[c] \cup sub[B[m]] /\ c \in M \cup {NIL}
  BY <1>3 DEF At
<1>k. \A a \in sub[n] : K[a] \in Int /\ a \in M
  <2>0. n \in D
    BY <1>3 DEF D
  <2>1. sub[n] \subseteq M /\ M \subseteq Node
    BY <1>3, <2>0
  <2> QED BY <2>1
<1>5. /\ \A a \in sub[c] : K[a] <= K[m]
      /\ \A a \in sub[B[m]] : K[m] <= K[a]
  BY <1>1 DEF Sorted
<1>6. ASSUME c # NIL PROVE DownTo(K, M, sub, n, c) /\ Cardinality(sub[c]) < Cardinality(sub[m])
  <2>1. c \in M
    BY <1>4, <1>6
  <2>2. c \in sub[c]
    BY <2>1, Parents
  <2>3. c \in sub[n] /\ K[c] <= K[m]
    BY <1>2, <1>4, <1>5, <2>2
  <2>4. \A a \in sub[n] : a \in sub[c] \/ K[c] <= K[a]
    BY <1>1, <1>4, <1>5, <1>k, <2>3
  <2>5. Cardinality(sub[c]) < Cardinality(sub[m])
    BY <1>1, <1>6, SubtreeSize
  <2> QED BY <2>1, <2>3, <2>4, <2>5 DEF DownTo
<1>7. ASSUME c = NIL PROVE Least(A, K, sub, n, m)
  <2>1. \A a \in sub[m] : K[m] <= K[a]
    BY <1>1, <1>3, <1>4, <1>5, <1>7, <1>k
  <2> QED BY <1>1, <1>7, <2>1 DEF Least
<1> QED BY <1>6, <1>7

\* The nodes g that the walk passes.
WalkOf(A, n, N, g) ==
  (CHOOSE f : f = [k \in 0 .. N |-> IF k = 0 THEN n
                     ELSE IF A[f[k - 1]] # NIL THEN A[f[k - 1]] ELSE f[k - 1]]) = g

LEMMA WalkDown ==
  ASSUME NEW r, NEW A, NEW B, NEW P, NEW M, NEW sub, Shape(r, A, B, P, M, sub),
         NEW K \in [Node -> Int], Sorted(A, B, K, M, sub), NEW n \in M,
         NEW N, Cardinality(Node) = N, NEW g,
         WalkOf(A, n, N, g)
  PROVE  Least(A, K, sub, n, g[N])
<1> DEFINE After(m) == IF A[m] # NIL THEN A[m] ELSE m
           Eq(f) == f = [k \in 0 .. N |-> IF k = 0 THEN n ELSE After(f[k - 1])]
           Inv(k, m) == DownTo(K, M, sub, n, m)
                        /\ (A[m] # NIL => Cardinality(sub[m]) + k <= N)
<1>g. (CHOOSE f : Eq(f)) = g
  BY Zenon DEF WalkOf
<1>n. N \in Nat
  BY NodeCount
<1>s. M \subseteq Node /\ sub \in [D -> SUBSET M] /\ M \subseteq D
  BY DEF Shape, D
<1>c. ASSUME NEW m \in M
      PROVE  Cardinality(sub[m]) \in Nat /\ Cardinality(sub[m]) <= N /\ 0 < Cardinality(sub[m])
  <2>1. m \in sub[m]
    BY Parents
  <2>2. sub[m] \subseteq Node
    BY <1>s
  <2>3. 0 < Cardinality(sub[m]) /\ Cardinality(sub[m]) \in Nat /\ Cardinality(sub[m]) <= N
    BY <2>1, <2>2, Larger, FS_EmptySet
  <2> QED BY <2>3
<1>1. Inv(0, n)
  <2>1. n \in sub[n] /\ Cardinality(sub[n]) <= N /\ Cardinality(sub[n]) \in Nat
    BY <1>c, Parents
  <2> QED BY <1>n, <2>1 DEF DownTo
<1>2. ASSUME NEW m, DownTo(K, M, sub, n, m)
      PROVE  m \in M /\ DownTo(K, M, sub, n, After(m)) /\ After(m) \in M
  <2>1. m \in M
    BY <1>2 DEF DownTo
  <2>2. A[m] # NIL => DownTo(K, M, sub, n, A[m])
    <3> DEFINE c == A[m]
    <3>1. A[m] = c
      OBVIOUS
    <3> HIDE DEF c
    <3>2. c # NIL => DownTo(K, M, sub, n, c)
      BY <1>2, <3>1, DownStep
    <3> QED BY <3>1, <3>2
  <2> QED BY <1>2, <2>1, <2>2 DEF DownTo
<1>3. ASSUME NEW m, NEW k \in Nat, Inv(k, m) PROVE Inv(k + 1, After(m))
  <2>1. CASE A[m] = NIL
    BY <1>3, <2>1
  <2>2. CASE A[m] # NIL
    <3> DEFINE c == A[m]
    <3>1. A[m] = c
      OBVIOUS
    <3> HIDE DEF c
    <3>2. DownTo(K, M, sub, n, c) /\ Cardinality(sub[c]) < Cardinality(sub[m])
      BY <1>3, <2>2, <3>1, DownStep
    <3>3. m \in M /\ c \in M
      BY <1>3, <3>2 DEF DownTo
    <3>4. Cardinality(sub[c]) + (k + 1) <= N
      BY <1>3, <1>c, <1>n, <2>2, <3>2, <3>3
    <3> QED BY <2>2, <3>1, <3>2, <3>4
  <2> QED BY <2>1, <2>2
<1>4. \E f : Eq(f)
  <2> DEFINE V == {m \in M : DownTo(K, M, sub, n, m)}
             next == [m \in V |-> After(m)]
  <2>2. n \in V
    BY <1>1
  <2>3. next \in [V -> V]
    BY <1>2
  <2>4. \A m \in V : next[m] = After(m)
    OBVIOUS
  <2> HIDE DEF V, next, After
  <2>l. PICK f : Iterates(f, N, V, n, next)
    BY <1>n, <2>2, <2>3, LoopExists
  <2>5. f \in [0 .. N -> V] /\ f[0] = n /\ \A k \in 1 .. N : f[k] = next[f[k - 1]]
    BY <2>l DEF Iterates
  <2>6. ASSUME NEW k \in 0 .. N PROVE f[k] = IF k = 0 THEN n ELSE After(f[k - 1])
    <3>1. CASE k # 0
      <4>1. k \in 1 .. N /\ k - 1 \in 0 .. N
        BY <1>n, <3>1
      <4> QED BY <2>4, <2>5, <3>1, <4>1
    <3> QED BY <2>5, <3>1
  <2>7. Eq(f)
    BY <2>5, <2>6
  <2> QED BY <2>7
<1> HIDE DEF After
<1>5. Eq(g)
  BY <1>4, <1>g
<1>6. g[0] = n /\ \A k \in 1 .. N : g[k] = After(g[k - 1])
  BY <1>5, <1>n
<1>7. Inv(N, g[N])
  <2> DEFINE S == {k \in Nat : Inv(k, g[k])}
  <2>1. 0 \in S
    BY <1>1, <1>6
  <2>2. ASSUME NEW k \in 0 .. N - 1, k \in S PROVE k + 1 \in S
    <3>1. k \in Nat /\ k + 1 \in 1 .. N /\ (k + 1) - 1 = k
      BY <1>n
    <3>2. g[k + 1] = After(g[k])
      BY <1>6, <3>1
    <3> HIDE DEF Inv
    <3> QED BY <1>3, <2>2, <3>1, <3>2
  <2> HIDE DEF S
  <2>3. N \in S
    BY <1>n, <2>1, <2>2, IntervalInduction
  <2> QED BY <2>3 DEF S
<1>8. A[g[N]] = NIL
  <2> SUFFICES ASSUME A[g[N]] # NIL PROVE FALSE
    OBVIOUS
  <2>1. g[N] \in M
    BY <1>2, <1>7
  <2> QED BY <1>7, <1>c, <1>n, <2>1
<1> DEFINE y == g[N]
<1>9. A[y] = NIL /\ DownTo(K, M, sub, n, y)
  BY <1>7, <1>8
<1> HIDE DEF y
<1>10. Least(A, K, sub, n, y)
  BY <1>9, DownStep
<1> QED BY <1>10 DEF y

\* The two ends of a subtree.
LEMMA MinimumLeast ==
  ASSUME NEW t, NEW M, NEW sub, TreeFrom("left", t, M, sub), NEW n \in M
  PROVE  Least(t.left, Key, sub, n, rbtree_minimum(t, n))
<1> DEFINE N == Cardinality(Node)
           A == t.left
           g == CHOOSE f : f = [k \in 0 .. N |-> IF k = 0 THEN n
                                  ELSE IF A[f[k - 1]] # NIL THEN A[f[k - 1]] ELSE f[k - 1]]
<1>1. rbtree_minimum(t, n) = g[N]
  BY Zenon DEF rbtree_minimum, While
<1>2. /\ Shape(t.root, A, t.right, t.parent, M, sub) /\ Sorted(A, t.right, Key, M, sub)
      /\ Key \in [Node -> Int]
  BY KeyTypes, RBTreeAssumption DEF TreeFrom, ShapeFrom, Opposite
<1>3. /\ Cardinality(Node) = N
      /\ WalkOf(A, n, N, g)
  BY Zenon DEF WalkOf
<1> HIDE DEF N, A, g
<1>4. Least(A, Key, sub, n, g[N])
  BY <1>2, <1>3, WalkDown
<1> QED BY <1>1, <1>4 DEF A

LEMMA MaximumLeast ==
  ASSUME NEW t, NEW M, NEW sub, TreeFrom("left", t, M, sub), NEW n \in M
  PROVE  Least(t.right, Neg(Key), sub, n, rbtree_maximum(t, n))
<1> DEFINE N == Cardinality(Node)
           A == t.right
           g == CHOOSE f : f = [k \in 0 .. N |-> IF k = 0 THEN n
                                  ELSE IF A[f[k - 1]] # NIL THEN A[f[k - 1]] ELSE f[k - 1]]
<1>1. rbtree_maximum(t, n) = g[N]
  BY Zenon DEF rbtree_maximum, While
<1>2. /\ Shape(t.root, A, t.left, t.parent, M, sub) /\ Sorted(A, t.left, Neg(Key), M, sub)
      /\ Neg(Key) \in [Node -> Int]
  <2>1. TreeFrom("right", t, M, sub)
    BY AnySide DEF Side
  <2> QED BY <2>1, KeyTypes, RBTreeAssumption DEF TreeFrom, ShapeFrom, Opposite, Side
<1>3. /\ Cardinality(Node) = N
      /\ WalkOf(A, n, N, g)
  BY Zenon DEF WalkOf
<1> HIDE DEF N, A, g
<1>4. Least(A, Neg(Key), sub, n, g[N])
  BY <1>2, <1>3, WalkDown
<1> QED BY <1>1, <1>4 DEF A

-----------------------------------------------------------------------------
(* A node takes the place of another one.                                  *)

\* y, a new node, stands where z stood: the name of z becomes y, and back.
To(z, y, n)   == IF n = z THEN y ELSE n
Back(z, y, n) == IF n = y THEN z ELSE n

Renamed(z, y, x, M, r, A, B, P, r2, A2, B2, P2) ==
  /\ A2 \in [D -> W] /\ B2 \in [D -> W] /\ P2 \in [D -> W]
  /\ r2 = To(z, y, r)
  /\ A2[y] = A[z] /\ B2[y] = B[z] /\ P2[y] = P[z]
  /\ \A n \in M : n # z => /\ A2[n] = To(z, y, A[n])
                           /\ B2[n] = To(z, y, B[n])
                           /\ P2[n] = To(z, y, P[n])
  /\ P2[x] = To(z, y, P[x])

RenamedSub(z, y, sub) ==
  [n \in D |-> {m \in D : m # z /\ Back(z, y, m) \in sub[Back(z, y, n)]}]

\* Node n of the new tree is the node b of the old one.
RenamedAt(n, b, z, y, A, B, P, A2, B2, M) ==
  /\ b \in M /\ n = To(z, y, b) /\ b = Back(z, y, n) /\ n # z
  /\ A2[n] = To(z, y, A[b]) /\ B2[n] = To(z, y, B[b])
  /\ A[b] \in M \cup {NIL} /\ B[b] \in M \cup {NIL}
  /\ Back(z, y, A2[n]) = A[b] /\ Back(z, y, B2[n]) = B[b]
  /\ A2[n] \in (M \ {z}) \cup {y, NIL} /\ B2[n] \in (M \ {z}) \cup {y, NIL}
  /\ n \in D /\ A2[n] \in D /\ B2[n] \in D

LEMMA RenameNodes ==
  ASSUME NEW r, NEW A, NEW B, NEW P, NEW M, NEW sub, Shape(r, A, B, P, M, sub),
         NEW z \in M, NEW y \in Node, y \notin M, NEW x \in M \cup {NIL}, x # z,
         NEW r2, NEW A2, NEW B2, NEW P2, Renamed(z, y, x, M, r, A, B, P, r2, A2, B2, P2),
         NEW n \in (M \ {z}) \cup {y}, NEW b, Back(z, y, n) = b
  PROVE  RenamedAt(n, b, z, y, A, B, P, A2, B2, M)
<1>1. M \subseteq Node /\ M \subseteq D /\ NIL \in D /\ NIL \notin M /\ y \in D /\ y # NIL /\ y # z
  BY NilNotNode DEF Shape
<1>2. b \in M /\ n = To(z, y, b) /\ n # z /\ n \in D
  BY <1>1 DEF Back, To
<1>3. At(b, A, B, P, M, sub)
  BY <1>2 DEF Shape
<1>4. A[b] \in M \cup {NIL} /\ B[b] \in M \cup {NIL}
  BY <1>3 DEF At
<1>5. b = z => A[b] # z /\ B[b] # z
  <2>1. z \in sub[z] /\ (b = z => z \notin sub[A[z]] /\ z \notin sub[B[z]])
    BY <1>3 DEF Shape, At
  <2> QED BY <2>1
<1>6. A2[n] = To(z, y, A[b]) /\ B2[n] = To(z, y, B[b])
  <2>1. CASE n = y
    <3>1. b = z
      BY <2>1 DEF Back
    <3>2. A2[y] = A[z] /\ B2[y] = B[z]
      BY DEF Renamed
    <3> QED BY <1>5, <2>1, <3>1, <3>2 DEF To
  <2>2. CASE n # y
    <3>1. b = n /\ n \in M /\ n # z
      BY <2>2 DEF Back
    <3> QED BY <3>1 DEF Renamed
  <2> QED BY <2>1, <2>2
<1>7. ASSUME NEW a \in M \cup {NIL}
      PROVE  /\ Back(z, y, To(z, y, a)) = a
             /\ To(z, y, a) \in (M \ {z}) \cup {y, NIL}
             /\ To(z, y, a) \in D
  BY <1>1 DEF Back, To
<1>8. /\ Back(z, y, A2[n]) = A[b] /\ Back(z, y, B2[n]) = B[b]
      /\ A2[n] \in (M \ {z}) \cup {y, NIL} /\ B2[n] \in (M \ {z}) \cup {y, NIL}
      /\ A2[n] \in D /\ B2[n] \in D
  BY <1>4, <1>6, <1>7
<1> QED BY <1>2, <1>4, <1>6, <1>8 DEF RenamedAt

LEMMA RenameShape ==
  ASSUME NEW r, NEW A, NEW B, NEW P, NEW M, NEW sub, Shape(r, A, B, P, M, sub),
         NEW z \in M, NEW y \in Node, y \notin M, NEW x \in M \cup {NIL}, x # z,
         NEW r2, NEW A2, NEW B2, NEW P2, Renamed(z, y, x, M, r, A, B, P, r2, A2, B2, P2)
  PROVE  Shape(r2, A2, B2, P2, (M \ {z}) \cup {y}, RenamedSub(z, y, sub))
<1> DEFINE M2 == (M \ {z}) \cup {y}
           sub2 == RenamedSub(z, y, sub)
<1>1. M \subseteq Node /\ M \subseteq D /\ NIL \in D /\ NIL \notin M /\ y \in D /\ y # NIL /\ y # z
      /\ z \in D /\ z # NIL
  BY NilNotNode DEF Shape
<1>2. sub \in [D -> SUBSET M] /\ sub[NIL] = {} /\ sub[r] = M /\ r \in M /\ P[r] = NIL
  BY Parents DEF Shape
<1>3. /\ A2 \in [D -> W] /\ B2 \in [D -> W] /\ P2 \in [D -> W] /\ r2 = To(z, y, r)
      /\ P2[y] = P[z]
      /\ \A n \in M : n # z => P2[n] = To(z, y, P[n])
  BY DEF Renamed
<1>4. \A n, m \in D : m \in sub2[n] <=> m # z /\ Back(z, y, m) \in sub[Back(z, y, n)]
  BY DEF RenamedSub
<1>5. sub2 \in [D -> SUBSET M2]
  <2>1. \A n \in D : Back(z, y, n) \in D
    BY <1>1 DEF Back
  <2>2. ASSUME NEW n \in D, NEW m \in D, m # z, Back(z, y, m) \in sub[Back(z, y, n)] PROVE m \in M2
    <3>1. Back(z, y, m) \in M
      BY <1>2, <2>1, <2>2
    <3> QED BY <2>2, <3>1 DEF Back
  <2> QED BY <2>2 DEF RenamedSub
<1> HIDE DEF sub2
<1>6. sub2[NIL] = {} /\ r2 \in M2 /\ sub2[r2] = M2
  <2>1. Back(z, y, NIL) = NIL /\ Back(z, y, r2) = r /\ r2 \in M2 /\ r2 \in D
    BY <1>1, <1>2, <1>3 DEF Back, To
  <2>2. sub2[NIL] \subseteq D /\ sub2[r2] \subseteq D
    BY <1>1, <1>5, <2>1
  <2>3. sub2[NIL] = {}
    BY <1>1, <1>2, <1>4, <2>1, <2>2
  <2>4. \A m \in D : m # z /\ Back(z, y, m) \in M <=> m \in M2
    BY <1>1 DEF Back
  <2>5. M2 \subseteq D
    BY <1>1
  <2>6. sub2[r2] = M2
    BY <1>2, <1>4, <2>1, <2>2, <2>4, <2>5
  <2> QED BY <2>1, <2>3, <2>6
<1>7. r2 # NIL => P2[r2] = NIL
  <2>1. CASE r = z
    BY <1>2, <1>3, <2>1 DEF To
  <2>2. CASE r # z
    BY <1>1, <1>2, <1>3, <2>2 DEF To
  <2> QED BY <2>1, <2>2
<1>8. ASSUME NEW n \in M2 PROVE At(n, A2, B2, P2, M2, sub2)
  <2> DEFINE b == Back(z, y, n)
  <2>b. Back(z, y, n) = b
    OBVIOUS
  <2> HIDE DEF b
  <2>1. RenamedAt(n, b, z, y, A, B, P, A2, B2, M)
    BY <2>b, RenameNodes
  <2>2. /\ b \in M /\ n = To(z, y, b) /\ n # z
        /\ A2[n] = To(z, y, A[b]) /\ B2[n] = To(z, y, B[b])
        /\ A[b] \in M \cup {NIL} /\ B[b] \in M \cup {NIL}
        /\ Back(z, y, A2[n]) = A[b] /\ Back(z, y, B2[n]) = B[b]
        /\ A2[n] \in M2 \cup {NIL} /\ B2[n] \in M2 \cup {NIL}
        /\ n \in D /\ A2[n] \in D /\ B2[n] \in D
    BY <2>1 DEF RenamedAt
  <2>3. At(b, A, B, P, M, sub)
    BY <2>2 DEF Shape
  <2>4. /\ sub[b] = {b} \cup sub[A[b]] \cup sub[B[b]]
        /\ b \notin sub[A[b]] /\ b \notin sub[B[b]] /\ sub[A[b]] \cap sub[B[b]] = {}
    BY <2>3 DEF At
  <2>5. /\ \A m \in D : m \in sub2[n] <=> m # z /\ Back(z, y, m) \in sub[b]
        /\ \A m \in D : m \in sub2[A2[n]] <=> m # z /\ Back(z, y, m) \in sub[A[b]]
        /\ \A m \in D : m \in sub2[B2[n]] <=> m # z /\ Back(z, y, m) \in sub[B[b]]
    BY <1>4, <2>2, <2>b
  <2>6. \A m \in D : m # z /\ Back(z, y, m) = b <=> m = n
    BY <2>2, <2>b DEF Back
  <2>7. sub2[n] \subseteq D /\ sub2[A2[n]] \subseteq D /\ sub2[B2[n]] \subseteq D
    BY <1>1, <1>5, <2>2
  <2>8. sub2[n] = {n} \cup sub2[A2[n]] \cup sub2[B2[n]]
    BY <2>2, <2>4, <2>5, <2>6, <2>7
  <2>9. /\ n \notin sub2[A2[n]] /\ n \notin sub2[B2[n]]
        /\ sub2[A2[n]] \cap sub2[B2[n]] = {}
    BY <2>2, <2>4, <2>5, <2>6, <2>7
  <2>10. ASSUME NEW a \in M, P[a] = b PROVE P2[To(z, y, a)] = n
    <3>1. CASE a = z
      <4>1. P2[y] = b /\ b # z
        BY <1>3, <2>2, <2>10, <3>1, <1>1, Parents
      <4> QED BY <2>2, <3>1, <4>1 DEF To
    <3>2. CASE a # z
      BY <1>3, <2>2, <2>10, <3>2 DEF To
    <3> QED BY <3>1, <3>2
  <2>11. (A[b] # NIL => P[A[b]] = b) /\ (B[b] # NIL => P[B[b]] = b)
    BY <2>3 DEF At
  <2>12. (A2[n] # NIL => P2[A2[n]] = n) /\ (B2[n] # NIL => P2[B2[n]] = n)
    <3>1. (A2[n] # NIL => A[b] # NIL) /\ (B2[n] # NIL => B[b] # NIL)
      BY <1>1, <2>2 DEF To
    <3> QED BY <2>2, <2>10, <2>11, <3>1
  <2> QED BY <2>2, <2>8, <2>9, <2>12 DEF At
<1>9. M2 \subseteq Node
  BY <1>1
<1> QED BY <1>3, <1>5, <1>6, <1>7, <1>8, <1>9 DEF Shape, sub2

\* The key of y is in order where z was.
Fits(z, y, A, B, K, M, sub) ==
  /\ \A m \in sub[A[z]] : K[m] <= K[y]
  /\ \A m \in sub[B[z]] : K[y] <= K[m]
  /\ \A n \in M : /\ z \in sub[A[n]] => K[y] <= K[n]
                  /\ z \in sub[B[n]] => K[n] <= K[y]

LEMMA RenameSorted ==
  ASSUME NEW r, NEW A, NEW B, NEW P, NEW M, NEW sub, Shape(r, A, B, P, M, sub),
         NEW K, Sorted(A, B, K, M, sub),
         NEW z \in M, NEW y \in Node, y \notin M, NEW x \in M \cup {NIL}, x # z,
         NEW r2, NEW A2, NEW B2, NEW P2, Renamed(z, y, x, M, r, A, B, P, r2, A2, B2, P2),
         Fits(z, y, A, B, K, M, sub)
  PROVE  Sorted(A2, B2, K, (M \ {z}) \cup {y}, RenamedSub(z, y, sub))
<1> DEFINE sub2 == RenamedSub(z, y, sub)
<1>4. \A n, m \in D : m \in sub2[n] <=> m # z /\ Back(z, y, m) \in sub[Back(z, y, n)]
  BY DEF RenamedSub
<1>5. \A n \in D : sub2[n] \subseteq D
  BY DEF RenamedSub
<1>6. ASSUME NEW n \in (M \ {z}) \cup {y}
      PROVE  (\A m \in sub2[A2[n]] : K[m] <= K[n]) /\ (\A m \in sub2[B2[n]] : K[n] <= K[m])
  <2> DEFINE b == Back(z, y, n)
  <2>b. Back(z, y, n) = b
    OBVIOUS
  <2> HIDE DEF b, sub2
  <2>1. RenamedAt(n, b, z, y, A, B, P, A2, B2, M)
    BY <2>b, RenameNodes
  <2>2. /\ b \in M /\ n # z /\ A2[n] \in D /\ B2[n] \in D
        /\ Back(z, y, A2[n]) = A[b] /\ Back(z, y, B2[n]) = B[b]
    BY <2>1 DEF RenamedAt
  <2>3. /\ \A m \in sub[A[b]] : K[m] <= K[b]
        /\ \A m \in sub[B[b]] : K[b] <= K[m]
    BY <2>2 DEF Sorted
  <2>4. z \notin sub[A[z]] /\ z \notin sub[B[z]]
    BY DEF Shape, At
  <2>5. ASSUME NEW m \in sub2[A2[n]] PROVE K[m] <= K[n]
    <3>1. m # z /\ Back(z, y, m) \in sub[A[b]]
      BY <1>4, <1>5, <2>2, <2>5
    <3>2. CASE m = y
      <4>1. z \in sub[A[b]] /\ b # z
        BY <2>4, <3>1, <3>2 DEF Back
      <4>2. b = n
        BY <2>b, <4>1 DEF Back
      <4> QED BY <2>2, <3>2, <4>1, <4>2 DEF Fits
    <3>3. CASE m # y /\ n = y
      <4>1. b = z /\ m \in sub[A[z]]
        BY <2>b, <3>1, <3>3 DEF Back
      <4> QED BY <3>3, <4>1 DEF Fits
    <3>4. CASE m # y /\ n # y
      BY <2>3, <2>b, <3>1, <3>4 DEF Back
    <3> QED BY <3>2, <3>3, <3>4
  <2>6. ASSUME NEW m \in sub2[B2[n]] PROVE K[n] <= K[m]
    <3>1. m # z /\ Back(z, y, m) \in sub[B[b]]
      BY <1>4, <1>5, <2>2, <2>6
    <3>2. CASE m = y
      <4>1. z \in sub[B[b]] /\ b # z
        BY <2>4, <3>1, <3>2 DEF Back
      <4>2. b = n
        BY <2>b, <4>1 DEF Back
      <4> QED BY <2>2, <3>2, <4>1, <4>2 DEF Fits
    <3>3. CASE m # y /\ n = y
      <4>1. b = z /\ m \in sub[B[z]]
        BY <2>b, <3>1, <3>3 DEF Back
      <4> QED BY <3>3, <4>1 DEF Fits
    <3>4. CASE m # y /\ n # y
      BY <2>3, <2>b, <3>1, <3>4 DEF Back
    <3> QED BY <3>2, <3>3, <3>4
  <2> QED BY <2>5, <2>6
<1> HIDE DEF sub2
<1>7. Sorted(A2, B2, K, (M \ {z}) \cup {y}, sub2)
  BY <1>6 DEF Sorted
<1> QED BY <1>7 DEF sub2

\* What the colors C promise of the old tree, C2 promises of the new one.
ColorsMoved(r, A, B, P, C, M, bh, x, r2, A2, B2, P2, C2, M2) ==
  /\ Colored(r, A, B, C, M, bh, NIL) => Colorable(r2, A2, B2, C2, M2, NIL)
  /\ DelColored(r, A, B, P, C, M, bh, x) => DelColorable(r2, A2, B2, P2, C2, M2, x)

\* y has the color that z had.
LEMMA RenameColors ==
  ASSUME NEW r, NEW A, NEW B, NEW P, NEW M, NEW sub, Shape(r, A, B, P, M, sub),
         NEW z \in M, NEW y \in Node, y \notin M, NEW x \in M \cup {NIL}, x # z,
         NEW r2, NEW A2, NEW B2, NEW P2, Renamed(z, y, x, M, r, A, B, P, r2, A2, B2, P2),
         NEW C, NEW bh, ColorTypes(C, bh), NEW C2, Upd(C, y, C[z]) = C2
  PROVE  ColorsMoved(r, A, B, P, C, M, bh, x, r2, A2, B2, P2, C2, (M \ {z}) \cup {y})
<1> DEFINE M2 == (M \ {z}) \cup {y}
           bh2 == [n \in D |-> bh[Back(z, y, n)]]
<1>1. M \subseteq Node /\ M \subseteq D /\ NIL \in D /\ NIL \notin M /\ y \in D /\ y # NIL /\ y # z
      /\ z \in D /\ z # NIL
  BY NilNotNode DEF Shape
<1>2. r \in M
  BY Parents
<1>3. r2 = To(z, y, r) /\ P2[x] = To(z, y, P[x])
  BY DEF Renamed
<1>c. C \in [D -> Color] /\ bh \in [D -> Nat] /\ C[NIL] = "BLACK" /\ bh[NIL] = 0
  BY DEF ColorTypes
<1>4. C2 \in [D -> Color] /\ C2[y] = C[z] /\ \A n \in D : n # y => C2[n] = C[n]
  BY <1>1, <1>c DEF Upd
<1>5. bh2 \in [D -> Nat] /\ \A n \in D : bh2[n] = bh[Back(z, y, n)]
  BY <1>1, <1>c DEF Back
<1> HIDE DEF bh2
<1>6. ColorTypes(C2, bh2)
  BY <1>1, <1>4, <1>5, <1>c DEF ColorTypes, Back
<1>7. ASSUME NEW a \in D, a # z PROVE C2[a] = C[Back(z, y, a)]
  BY <1>4, <1>7 DEF Back
<1>r. C2[r2] = C[r] /\ (x = r => x = r2) /\ (x = r2 => x = r)
  BY <1>1, <1>2, <1>3, <1>4 DEF To
<1>8. ASSUME NEW n \in M2, NEW b, Back(z, y, n) = b
      PROVE  /\ b \in M /\ n = To(z, y, b)
             /\ C2[n] = C[b] /\ C2[A2[n]] = C[A[b]] /\ C2[B2[n]] = C[B[b]]
             /\ bh2[n] = bh[b] /\ bh2[A2[n]] = bh[A[b]] /\ bh2[B2[n]] = bh[B[b]]
             /\ A2[n] = To(z, y, A[b]) /\ B2[n] = To(z, y, B[b])
  <2>1. RenamedAt(n, b, z, y, A, B, P, A2, B2, M)
    BY <1>8, RenameNodes
  <2>2. /\ b \in M /\ n = To(z, y, b) /\ n # z
        /\ A2[n] = To(z, y, A[b]) /\ B2[n] = To(z, y, B[b])
        /\ Back(z, y, A2[n]) = A[b] /\ Back(z, y, B2[n]) = B[b]
        /\ A2[n] \in (M \ {z}) \cup {y, NIL} /\ B2[n] \in (M \ {z}) \cup {y, NIL}
        /\ n \in D /\ A2[n] \in D /\ B2[n] \in D
    BY <2>1 DEF RenamedAt
  <2>3. A2[n] # z /\ B2[n] # z
    BY <1>1, <2>2
  <2> QED BY <1>5, <1>7, <1>8, <2>2, <2>3
<1>9. ASSUME NEW n \in M2, NEW b, Back(z, y, n) = b
      PROVE  /\ HeightAt(b, A, B, C, bh) => HeightAt(n, A2, B2, C2, bh2)
             /\ Short(b, A, B, C, bh) => Short(n, A2, B2, C2, bh2)
             /\ Short(b, B, A, C, bh) => Short(n, B2, A2, C2, bh2)
             /\ ColorAt(b, A, B, C, NIL) => ColorAt(n, A2, B2, C2, NIL)
             /\ ColorAt(b, A, B, C, x) => ColorAt(n, A2, B2, C2, x)
  <2>1. /\ C2[n] = C[b] /\ C2[A2[n]] = C[A[b]] /\ C2[B2[n]] = C[B[b]]
        /\ bh2[n] = bh[b] /\ bh2[A2[n]] = bh[A[b]] /\ bh2[B2[n]] = bh[B[b]]
        /\ A2[n] = To(z, y, A[b]) /\ B2[n] = To(z, y, B[b])
    BY <1>8, <1>9
  <2>2. /\ A[b] = x => A2[n] = x
        /\ B[b] = x => B2[n] = x
        /\ A[b] = NIL => A2[n] = NIL
        /\ B[b] = NIL => B2[n] = NIL
    BY <1>1, <2>1 DEF To
  <2>3. /\ HeightAt(b, A, B, C, bh) => HeightAt(n, A2, B2, C2, bh2)
        /\ Short(b, A, B, C, bh) => Short(n, A2, B2, C2, bh2)
        /\ Short(b, B, A, C, bh) => Short(n, B2, A2, C2, bh2)
    BY <2>1 DEF HeightAt, Short
  <2> QED BY <2>1, <2>2, <2>3 DEF ColorAt
<1>10. ASSUME Colored(r, A, B, C, M, bh, NIL) PROVE Colored(r2, A2, B2, C2, M2, bh2, NIL)
  <2>1. (C[r] = "BLACK" \/ r = NIL)
        /\ \A n \in M : HeightAt(n, A, B, C, bh) /\ ColorAt(n, A, B, C, NIL)
    BY <1>10 DEF Colored
  <2>2. ASSUME NEW n \in M2 PROVE HeightAt(n, A2, B2, C2, bh2) /\ ColorAt(n, A2, B2, C2, NIL)
    <3> DEFINE b == Back(z, y, n)
    <3>1. Back(z, y, n) = b
      OBVIOUS
    <3> HIDE DEF b
    <3>2. b \in M
      BY <1>8, <3>1
    <3>3. HeightAt(b, A, B, C, bh) /\ ColorAt(b, A, B, C, NIL)
      BY <2>1, <3>2
    <3> QED BY <1>9, <3>1, <3>3
  <2>3. C2[r2] = "BLACK"
    BY <1>1, <1>2, <1>r, <2>1
  <2> QED BY <1>6, <2>2, <2>3 DEF Colored
<1>11. ASSUME DelColored(r, A, B, P, C, M, bh, x) PROVE DelColored(r2, A2, B2, P2, C2, M2, bh2, x)
  <2>1. /\ C[r] = "BLACK" \/ x = r
        /\ \A n \in M : /\ x = r \/ n # P[x] => HeightAt(n, A, B, C, bh)
                        /\ n # x => ColorAt(n, A, B, C, x)
        /\ x # r => /\ P[x] \in M
                    /\ \/ A[P[x]] = x /\ Short(P[x], A, B, C, bh)
                       \/ B[P[x]] = x /\ Short(P[x], B, A, C, bh)
    BY <1>11 DEF DelColored
  <2>2. ASSUME NEW n \in M2
        PROVE  /\ x = r2 \/ n # P2[x] => HeightAt(n, A2, B2, C2, bh2)
               /\ n # x => ColorAt(n, A2, B2, C2, x)
    <3> DEFINE b == Back(z, y, n)
    <3>1. Back(z, y, n) = b
      OBVIOUS
    <3> HIDE DEF b
    <3>2. b \in M /\ n = To(z, y, b)
      BY <1>8, <3>1
    <3>3. (n # P2[x] => b # P[x]) /\ (n # x => b # x)
      BY <1>3, <3>2 DEF To
    <3>4. /\ x = r \/ b # P[x] => HeightAt(b, A, B, C, bh)
          /\ b # x => ColorAt(b, A, B, C, x)
      BY <2>1, <3>2
    <3> QED BY <1>9, <1>r, <3>1, <3>3, <3>4
  <2>3. ASSUME x # r2
        PROVE  /\ P2[x] \in M2
               /\ \/ A2[P2[x]] = x /\ Short(P2[x], A2, B2, C2, bh2)
                  \/ B2[P2[x]] = x /\ Short(P2[x], B2, A2, C2, bh2)
    <3> DEFINE b == P[x]
               n == P2[x]
    <3>1. /\ b \in M
          /\ \/ A[b] = x /\ Short(b, A, B, C, bh)
             \/ B[b] = x /\ Short(b, B, A, C, bh)
      BY <1>r, <2>1, <2>3
    <3>2. n = To(z, y, b)
      BY <1>3
    <3> HIDE DEF b, n
    <3>3. n \in M2 /\ Back(z, y, n) = b
      BY <1>1, <3>1, <3>2 DEF To, Back
    <3>4. A2[n] = To(z, y, A[b]) /\ B2[n] = To(z, y, B[b]) /\ To(z, y, x) = x
      BY <1>8, <3>3 DEF To
    <3>5. /\ Short(b, A, B, C, bh) => Short(n, A2, B2, C2, bh2)
          /\ Short(b, B, A, C, bh) => Short(n, B2, A2, C2, bh2)
      BY <1>9, <3>3
    <3>6. n \in M2 /\ \/ A2[n] = x /\ Short(n, A2, B2, C2, bh2)
                      \/ B2[n] = x /\ Short(n, B2, A2, C2, bh2)
      BY <3>1, <3>3, <3>4, <3>5
    <3> QED BY <3>6 DEF n
  <2>4. x \in M2 \cup {NIL} /\ (C2[r2] = "BLACK" \/ x = r2)
    BY <1>r, <2>1
  <2> QED BY <1>6, <2>2, <2>3, <2>4 DEF DelColored
<1>12. Colored(r, A, B, C, M, bh, NIL) => Colorable(r2, A2, B2, C2, M2, NIL)
  BY <1>10 DEF Colorable
<1>13. DelColored(r, A, B, P, C, M, bh, x) => DelColorable(r2, A2, B2, P2, C2, M2, x)
  BY <1>11 DEF DelColorable
<1> QED BY <1>12, <1>13 DEF ColorsMoved

-----------------------------------------------------------------------------
(* The successor is put in the place of the deleted node.                  *)

\* y is below z, on the B side, and has no A child.
SuccessorOf(z, y, x, A, B, M, sub) ==
  /\ z \in M /\ A[z] # NIL /\ B[z] # NIL
  /\ y \in sub[B[z]] /\ A[y] = NIL /\ B[y] = x

\* The nodes around z and y, before and after y has been taken out.
AroundSuccessor(z, y, x, q, r, A, B, M, A1, B1, P1) ==
  /\ y \in M /\ y # z /\ y # r /\ y # NIL /\ z \in M \ {y} /\ z # NIL
  /\ q \in M \ {y} /\ q # NIL
  /\ x \in (M \ {y}) \cup {NIL} /\ x # z /\ x # y
  /\ A1[z] = A[z] /\ A1[z] # y /\ A1[z] # NIL /\ P1[x] = q
  /\ q = z => B1[z] = x /\ B[z] = y
  /\ q # z => B1[z] = B[z]

LEMMA SuccessorNodes ==
  ASSUME NEW r, NEW A, NEW B, NEW P, NEW M, NEW sub, Shape(r, A, B, P, M, sub),
         NEW z, NEW y, NEW x, SuccessorOf(z, y, x, A, B, M, sub), NEW q, P[y] = q,
         NEW r1, NEW A1, NEW B1, NEW P1, Spliced(y, x, r, A, B, P, r1, A1, B1, P1)
  PROVE  AroundSuccessor(z, y, x, q, r, A, B, M, A1, B1, P1) /\ r1 = r
<1> DEFINE c == B[z]
<1>1. z \in M /\ A[z] # NIL /\ c # NIL /\ y \in sub[c] /\ A[y] = NIL /\ B[y] = x /\ B[z] = c
  BY DEF SuccessorOf
<1> HIDE DEF c
<1>2. At(z, A, B, P, M, sub)
  BY <1>1 DEF Shape
<1>3. /\ c \in M /\ A[z] \in M /\ P[c] = z /\ P[A[z]] = z
      /\ z \notin sub[c] /\ sub[A[z]] \cap sub[c] = {} /\ c \in sub[z]
      /\ sub[z] = {z} \cup sub[A[z]] \cup sub[c]
  <2>1. c \in M
    BY <1>1, <1>2 DEF At
  <2>2. c \in sub[c]
    BY <2>1, Parents
  <2> QED BY <1>1, <1>2, <2>1, <2>2 DEF At
<1>4. y \in M
  BY <1>1, <1>3, Subtrees
<1>5. y # z /\ y # A[z]
  <2>1. A[z] \in sub[A[z]]
    BY <1>3, Parents
  <2> QED BY <1>1, <1>3, <2>1
<1>6. y # r
  <2>1. y \in sub[z]
    BY <1>1, <1>3
  <2>2. z \notin sub[y]
    BY <1>1, <1>5, <2>1, Subtrees
  <2>3. sub[r] = M
    BY DEF Shape
  <2> QED BY <1>1, <2>2, <2>3
<1>7. /\ M \subseteq D /\ NIL \in D /\ NIL \notin M /\ y \in D /\ x \in D /\ y # NIL
      /\ x \in M \cup {NIL} /\ x # y /\ y \notin sub[x] /\ sub[x] = sub[y] \ {y}
      /\ q \in M \cup {NIL} /\ q # y
      /\ q = NIL <=> y = r
      /\ q # NIL => /\ y = A[q] \/ y = B[q]
                    /\ A[q] # B[q]
  BY <1>1, <1>4, SpliceNodes
<1>8. q \in M /\ q # NIL
  BY <1>6, <1>7
<1>9. x # z
  <2>1. sub[y] \subseteq sub[c]
    BY <1>1, <1>3, Subtrees
  <2>2. z \in sub[z]
    BY <1>1, Parents
  <2> QED BY <1>3, <1>7, <2>1, <2>2
<1>10. SplicedAt(z, y, x, q, A, B, A1, B1, M)
  BY <1>1, <1>4, <1>5, SpliceOthers
<1>11. /\ A1[z] = IF A[z] = y THEN x ELSE A[z]
       /\ B1[z] = IF B[z] = y THEN x ELSE B[z]
       /\ A[z] = y \/ B[z] = y <=> z = q
  BY <1>10 DEF SplicedAt
<1>12. r1 = r /\ P1[x] = q
  BY <1>7, <1>8 DEF Spliced
<1> QED BY <1>1, <1>4, <1>5, <1>6, <1>7, <1>8, <1>9, <1>11, <1>12 DEF AroundSuccessor

\* t3 is t1, the tree without y, where y has got the other subtree of z.
Prepared(z, y, x, M1, t1, t3) ==
  /\ t3 \in Trees /\ t3.color = t1.color /\ t3.root = t1.root
  /\ \A n \in M1 : t3.left[n] = t1.left[n]
  /\ \A n \in M1 : n # z => t3.right[n] = t1.right[n]
  /\ t3.right[y] = t1.right[z] /\ t3.parent[z] = t1.parent[z]
  /\ \A n \in M1 \cup {x} : n # z =>
       t3.parent[n] = IF n = t1.right[z] THEN y ELSE t1.parent[n]

LEMMA PrepareView ==
  ASSUME NEW t \in Trees, NEW M, NEW sub, Shape(t.root, t.left, t.right, t.parent, M, sub),
         NEW z, NEW y, NEW x, SuccessorOf(z, y, x, t.left, t.right, M, sub),
         NEW t1, SplicedFrom("left", y, x, t, t1),
         NEW t2, Put(t1, "right", y, t1.right[z]) = t2,
         NEW t3, (IF t.parent[y] = z THEN Put(t, "parent", x, y)
                  ELSE Put(t2, "parent", t2.right[y], y)) = t3
  PROVE  Prepared(z, y, x, M \ {y}, t1, t3)
<1> DEFINE A == t.left
           B == t.right
           P == t.parent
           r == t.root
           q == P[y]
           A1 == t1.left
           B1 == t1.right
           P1 == t1.parent
           r1 == t1.root
           M1 == M \ {y}
<1>1. /\ t1 \in Trees /\ t1.color = t.color /\ Spliced(y, x, r, A, B, P, r1, A1, B1, P1)
      /\ Shape(r, A, B, P, M, sub) /\ SuccessorOf(z, y, x, A, B, M, sub) /\ P[y] = q
  BY DEF SplicedFrom, Opposite
<1>t. /\ A \in [D -> W] /\ B \in [D -> W] /\ P \in [D -> W]
      /\ A1 \in [D -> W] /\ B1 \in [D -> W] /\ P1 \in [D -> W]
  BY <1>1 DEF Trees
<1>p. q # z => Put(t2, "parent", t2.right[y], y) = t3
  OBVIOUS
<1>z. q = z => Put(t, "parent", x, y) = t3
  OBVIOUS
<1>y. Put(t1, "right", y, B1[z]) = t2
  OBVIOUS
<1> HIDE DEF A, B, P, r, q, A1, B1, P1, r1, M1
<1>2. AroundSuccessor(z, y, x, q, r, A, B, M, A1, B1, P1) /\ r1 = r
  BY <1>1, SuccessorNodes
<1>3. /\ y \in M /\ y # z /\ z \in M /\ q \in M1 /\ x \in M1 \cup {NIL} /\ x # z
      /\ q = z => B1[z] = x /\ B[z] = y
      /\ q # z => B1[z] = B[z]
      /\ P1[x] = q /\ x # y
  BY <1>2 DEF AroundSuccessor, M1
<1>4. M \subseteq Node /\ M \subseteq D /\ NIL \in D
  BY <1>1 DEF Shape, D
<1>5. y \in D /\ z \in D /\ x \in D /\ M1 \subseteq D /\ y \in W
  BY <1>3, <1>4 DEF M1, D, W
<1>6. /\ \A n \in D : A1[n] = IF n = q /\ q # NIL /\ y = A[q] THEN x ELSE A[n]
      /\ \A n \in D : B1[n] = IF n = q /\ q # NIL /\ y # A[q] THEN x ELSE B[n]
      /\ \A n \in D : P1[n] = IF n = x THEN q ELSE P[n]
  BY <1>1 DEF Spliced
<1>7. CASE q = z
  <2>1. ParentPut(t, x, y, t3)
    BY <1>5, <1>7, <1>z, PutParent
  <2>2. /\ t3 \in Trees /\ t3.root = r /\ t3.color = t.color
        /\ t3.parent = Upd(P, x, y) /\ t3.left = A /\ t3.right = B
    <3>1. t3["left"] = t["left"] /\ t3["right"] = t["right"] /\ t3 \in Trees
          /\ t3.root = r /\ t3.color = t.color /\ t3.parent = Upd(P, x, y)
      BY <2>1 DEF ParentPut, Side, P, r
    <3> QED BY <3>1 DEF A, B
  <2>3. A[z] # y
    BY <1>2, <1>7 DEF AroundSuccessor
  <2>4. \A n \in M1 : A[n] = A1[n]
    BY <1>5, <1>6, <1>7, <2>3
  <2>5. \A n \in M1 : n # z => B[n] = B1[n]
    BY <1>5, <1>6, <1>7
  <2>6. B[y] = B1[z]
    BY <1>1, <1>3, <1>7 DEF SuccessorOf
  <2>7. Upd(P, x, y)[z] = P1[z]
    BY <1>3, <1>5, <1>6, <1>t DEF Upd
  <2>8. ASSUME NEW n \in M1 \cup {x}, n # z
        PROVE  Upd(P, x, y)[n] = IF n = B1[z] THEN y ELSE P1[n]
    <3>1. n \in D /\ B1[z] = x
      BY <1>3, <1>5, <1>7
    <3> QED BY <1>5, <1>6, <1>t, <3>1 DEF Upd
  <2> QED BY <1>1, <1>2, <2>2, <2>4, <2>5, <2>6, <2>7, <2>8 DEF Prepared, A1, B1, P1, r1, M1
<1>8. CASE q # z
  <2>b. B1[z] = B[z] /\ B[z] # y /\ B1[z] \in M1 /\ B1[z] # z
    <3>1. At(z, A, B, P, M, sub) /\ B[z] # NIL
      BY <1>1, <1>3 DEF Shape, SuccessorOf
    <3>2. B[z] \in M /\ P[B[z]] = z
      BY <3>1 DEF At
    <3>3. z \in sub[z] /\ z \notin sub[B[z]]
      BY <3>1 DEF At
    <3> QED BY <1>1, <1>3, <1>8, <3>2, <3>3 DEF M1
  <2>c. B1[z] \in W /\ B1[z] \in D
    BY <1>5, <2>b DEF D, W
  <2>1. ChildPut(t1, "right", y, B1[z], t2)
    BY <1>1, <1>5, <1>y, <2>c, PutChild DEF Side
  <2>2. /\ t2 \in Trees /\ t2.root = r1 /\ t2.color = t1.color /\ t2.parent = P1
        /\ t2["right"] = Upd(t1["right"], y, B1[z]) /\ t2["left"] = t1["left"]
    BY <2>1 DEF ChildPut, Opposite, P1, r1
  <2>3. t2.right = Upd(B1, y, B1[z]) /\ t2.left = A1
    BY <2>2 DEF A1, B1
  <2>4. t2.right[y] = B1[z]
    BY <1>5, <1>t, <2>3 DEF Upd
  <2>5. Put(t2, "parent", B1[z], y) = t3
    BY <1>8, <1>p, <2>4
  <2>6. ParentPut(t2, B1[z], y, t3)
    BY <1>5, <2>2, <2>5, <2>c, PutParent
  <2>7. /\ t3 \in Trees /\ t3.root = r1 /\ t3.color = t1.color /\ t3.parent = Upd(P1, B1[z], y)
        /\ t3["right"] = t2["right"] /\ t3["left"] = t2["left"]
    BY <2>2, <2>6 DEF ParentPut, Side
  <2>8. t3.right = Upd(B1, y, B1[z]) /\ t3.left = A1
    BY <2>3, <2>7
  <2>9. \A n \in M1 : n # z => Upd(B1, y, B1[z])[n] = B1[n]
    BY <1>5, <1>t DEF Upd, M1
  <2>10. Upd(B1, y, B1[z])[y] = B1[z]
    BY <1>5, <1>t DEF Upd
  <2>11. Upd(P1, B1[z], y)[z] = P1[z]
    BY <1>5, <1>t, <2>b DEF Upd
  <2>12. ASSUME NEW n \in M1 \cup {x}, n # z
         PROVE  Upd(P1, B1[z], y)[n] = IF n = B1[z] THEN y ELSE P1[n]
    <3>1. n \in D
      BY <1>5
    <3> QED BY <1>t, <3>1 DEF Upd
  <2> QED BY <2>7, <2>8, <2>9, <2>10, <2>11, <2>12 DEF Prepared, A1, B1, P1, r1, M1
<1> QED BY <1>7, <1>8

\* u is t1 with y where z was.
SuccessorPut(z, y, x, M1, t1, u) ==
  /\ u \in Trees /\ u.color = Upd(t1.color, y, t1.color[z])
  /\ Renamed(z, y, x, M1, t1.root, t1.left, t1.right, t1.parent,
             u.root, u.left, u.right, u.parent)

LEMMA SuccessorView ==
  ASSUME NEW t1 \in Trees, NEW M1, NEW sub1,
         Shape(t1.root, t1.left, t1.right, t1.parent, M1, sub1),
         NEW z \in M1, NEW y \in Node, y \notin M1, NEW x \in M1 \cup {NIL}, x # z,
         t1.left[z] # NIL, x = NIL => (t1.right[z] = NIL <=> t1.parent[NIL] = z),
         NEW t3, Prepared(z, y, x, M1, t1, t3),
         NEW t4, Put(Replace(t3, z, y), "parent", y, t3.parent[z]) = t4,
         NEW t5, Put(t4, "left", y, t4.left[z]) = t5,
         NEW u, Paint(Put(t5, "parent", t5.left[y], y), y, t5.color[z]) = u
  PROVE  SuccessorPut(z, y, x, M1, t1, u)
<1> DEFINE A1 == t1.left
           B1 == t1.right
           P1 == t1.parent
           C1 == t1.color
           r1 == t1.root
           A3 == t3.left
           B3 == t3.right
           P3 == t3.parent
           p == P1[z]
           c == A1[z]
           v == Replace(t3, z, y)
           t6 == Put(t5, "parent", t5.left[y], y)
<1>1. /\ Shape(r1, A1, B1, P1, M1, sub1) /\ c # NIL /\ A1[z] = c /\ P1[z] = p
      /\ x = NIL => (B1[z] = NIL <=> P1[NIL] = z)
  OBVIOUS
<1>2. /\ t3 \in Trees /\ t3.color = C1 /\ t3.root = r1
      /\ \A n \in M1 : A3[n] = A1[n]
      /\ \A n \in M1 : n # z => B3[n] = B1[n]
      /\ B3[y] = B1[z] /\ P3[z] = p
      /\ \A n \in M1 \cup {x} : n # z => P3[n] = IF n = B1[z] THEN y ELSE P1[n]
  BY DEF Prepared
<1>3. /\ A3 \in [D -> W] /\ B3 \in [D -> W] /\ P3 \in [D -> W] /\ r1 \in D
      /\ C1 \in [D -> {"RED", "BLACK"}] /\ t3["left"] = A3 /\ t3["right"] = B3
      /\ A1 \in [D -> W] /\ B1 \in [D -> W] /\ P1 \in [D -> W]
  BY <1>2 DEF Trees
<1>4. M1 \subseteq Node /\ M1 \subseteq D /\ NIL \in D /\ NIL \notin M1 /\ y \in D /\ y \in W
      /\ z \in D /\ x \in D /\ z # y /\ y # NIL /\ z # NIL
  BY NilNotNode DEF Shape
<1>v. Replace(t3, z, y) = v /\ Put(v, "parent", y, P3[z]) = t4
  OBVIOUS
<1>w. Put(t5, "parent", t5.left[y], y) = t6 /\ Paint(t6, y, t5.color[z]) = u
  OBVIOUS
<1> HIDE DEF A1, B1, P1, C1, r1, A3, B3, P3, p, c, v, t6
<1>5. /\ p \in M1 \cup {NIL} /\ (p = NIL <=> z = r1)
      /\ p # NIL => p # z /\ (z = A1[p] \/ z = B1[p]) /\ A1[p] # B1[p]
  BY <1>1, Parents
<1>6. /\ p \in D /\ p \in W /\ p # y
      /\ p # NIL => p \in M1 /\ A3[p] = A1[p] /\ B3[p] = B1[p]
  BY <1>2, <1>4, <1>5 DEF D, W
<1>7. Replaced(t3, "left", z, y, v)
  <2>1. p = t3.parent[z] /\ "left" \in Side /\ "right" = Opposite("left")
    BY <1>2 DEF P3, Side, Opposite
  <2>2. p # NIL => (z = t3["left"][p] \/ z = t3["right"][p]) /\ t3["left"][p] # t3["right"][p]
    BY <1>3, <1>5, <1>6
  <2> QED BY <1>2, <1>4, <1>6, <1>v, <2>1, <2>2, ReplaceView
<1>8. /\ v \in Trees /\ v.color = C1 /\ v.parent = P3
      /\ v.root = (IF p = NIL THEN y ELSE r1)
      /\ v.left = (IF p # NIL /\ z = A1[p] THEN Upd(A3, p, y) ELSE A3)
      /\ v.right = (IF p # NIL /\ z # A1[p] THEN Upd(B3, p, y) ELSE B3)
  <2>1. t3.parent[z] = p
    BY <1>2 DEF P3
  <2>2. /\ v \in Trees /\ v.color = C1 /\ v.parent = P3
        /\ v.root = (IF p = NIL THEN y ELSE r1)
        /\ v["left"] = (IF p # NIL /\ z = A3[p] THEN Upd(A3, p, y) ELSE A3)
        /\ v["right"] = (IF p # NIL /\ z # A3[p] THEN Upd(B3, p, y) ELSE B3)
    BY <1>2, <1>3, <1>7, <2>1 DEF Replaced, Opposite, P3
  <2> QED BY <1>6, <2>2
<1>9. /\ t4 \in Trees /\ t4.color = C1 /\ t4.parent = Upd(P3, y, p)
      /\ t4.root = v.root /\ t4.left = v.left /\ t4.right = v.right
  <2>1. Put(v, "parent", y, p) = t4
    BY <1>2, <1>v
  <2>2. ParentPut(v, y, p, t4)
    BY <1>4, <1>6, <1>8, <2>1, PutParent
  <2>3. t4["left"] = v["left"] /\ t4["right"] = v["right"]
    BY <2>2 DEF ParentPut, Side
  <2> QED BY <1>8, <2>2, <2>3 DEF ParentPut
<1>c. c \in M1 /\ c # y /\ c # z /\ c \in D /\ c \in W /\ P1[c] = z
  <2>1. At(z, A1, B1, P1, M1, sub1)
    BY <1>1 DEF Shape
  <2>2. c \in M1 /\ z \in sub1[z] /\ z \notin sub1[c] /\ P1[c] = z
    BY <1>1, <2>1 DEF At
  <2> QED BY <1>4, <2>2 DEF W, D
<1>10. t4.left[z] = c
  <2>1. v.left[z] = A3[z]
    BY <1>3, <1>4, <1>5, <1>6, <1>8 DEF Upd
  <2> QED BY <1>1, <1>2, <1>9, <2>1
<1>11. /\ t5 \in Trees /\ t5.color = C1 /\ t5.parent = t4.parent /\ t5.root = v.root
       /\ t5.left = Upd(v.left, y, c) /\ t5.right = v.right
  <2>1. Put(t4, "left", y, c) = t5
    BY <1>10
  <2>2. ChildPut(t4, "left", y, c, t5)
    BY <1>4, <1>9, <1>c, <2>1, PutChild DEF Side
  <2>3. t5["left"] = Upd(t4["left"], y, c) /\ t5["right"] = t4["right"]
    BY <2>2 DEF ChildPut, Opposite
  <2> QED BY <1>9, <2>2, <2>3 DEF ChildPut
<1>12. v.left \in [D -> W] /\ v.right \in [D -> W]
  BY <1>8 DEF Trees
<1>13. t5.left[y] = c
  BY <1>4, <1>11, <1>12 DEF Upd
<1>14. /\ t6 \in Trees /\ t6.color = C1 /\ t6.parent = Upd(t4.parent, c, y) /\ t6.root = v.root
       /\ t6.left = t5.left /\ t6.right = t5.right
  <2>1. ParentPut(t5, c, y, t6)
    BY <1>4, <1>11, <1>13, <1>c, <1>w, PutParent
  <2>2. t6["left"] = t5["left"] /\ t6["right"] = t5["right"]
    BY <2>1 DEF ParentPut, Side
  <2> QED BY <1>11, <2>1, <2>2 DEF ParentPut
<1>15. /\ u \in Trees /\ u.color = Upd(C1, y, C1[z]) /\ u.parent = Upd(Upd(P3, y, p), c, y)
       /\ u.root = v.root /\ u.left = Upd(v.left, y, c) /\ u.right = v.right
  <2>1. Paint(t6, y, C1[z]) = u /\ C1[z] \in {"RED", "BLACK"}
    BY <1>3, <1>4, <1>11, <1>w
  <2>2. Painted(t6, y, C1[z], u)
    BY <1>4, <1>14, <2>1, PaintColor
  <2>3. u["left"] = t6["left"] /\ u["right"] = t6["right"]
    BY <2>2 DEF Painted, Side
  <2> QED BY <1>9, <1>11, <1>14, <2>2, <2>3 DEF Painted
<1>16. u.left \in [D -> W] /\ u.right \in [D -> W] /\ u.parent \in [D -> W]
  BY <1>15 DEF Trees
<1>17. u.left[y] = c /\ u.right[y] = B1[z] /\ u.parent[y] = p
  <2>1. u.left[y] = c
    BY <1>4, <1>12, <1>15 DEF Upd
  <2>2. v.right[y] = B3[y]
    BY <1>3, <1>4, <1>6, <1>8 DEF Upd
  <2>3. Upd(P3, y, p) \in [D -> W] /\ Upd(P3, y, p)[y] = p
    BY <1>3, <1>4, <1>6 DEF Upd
  <2>4. Upd(Upd(P3, y, p), c, y)[y] = p
    BY <1>4, <1>c, <2>3 DEF Upd
  <2> QED BY <1>2, <1>15, <2>1, <2>2, <2>4
<1>18. u.root = To(z, y, r1)
  BY <1>5, <1>8, <1>15 DEF To
<1>19. ASSUME NEW n \in M1, n # z
       PROVE  u.left[n] = To(z, y, A1[n]) /\ u.right[n] = To(z, y, B1[n])
  <2>1. n # y /\ n \in D /\ n # NIL
    BY <1>4
  <2>2. At(n, A1, B1, P1, M1, sub1)
    BY <1>1 DEF Shape
  <2>3. (A1[n] = z => n = p) /\ (B1[n] = z => n = p)
    BY <1>1, <1>4, <2>2 DEF At
  <2>4. u.left[n] = v.left[n] /\ u.right[n] = v.right[n]
    BY <1>12, <1>15, <2>1 DEF Upd
  <2>5. v.left[n] = IF p # NIL /\ z = A1[p] /\ n = p THEN y ELSE A3[n]
    BY <1>3, <1>8, <2>1 DEF Upd
  <2>6. v.right[n] = IF p # NIL /\ z # A1[p] /\ n = p THEN y ELSE B3[n]
    BY <1>3, <1>8, <2>1 DEF Upd
  <2>7. A3[n] = A1[n] /\ B3[n] = B1[n]
    BY <1>2, <1>19
  <2>8. CASE n = p
    BY <1>5, <2>1, <2>3, <2>4, <2>5, <2>6, <2>7, <2>8 DEF To
  <2>9. CASE n # p
    BY <2>3, <2>4, <2>5, <2>6, <2>7, <2>9 DEF To
  <2> QED BY <2>8, <2>9
<1>20. ASSUME NEW n \in M1 \cup {x}, n # z PROVE u.parent[n] = To(z, y, P1[n])
  <2>1. n # y /\ n \in D
    BY <1>4
  <2>2. Upd(P3, y, p) \in [D -> W] /\ Upd(P3, y, p)[n] = P3[n]
    BY <1>3, <1>4, <1>6, <2>1 DEF Upd
  <2>3. u.parent[n] = IF n = c THEN y ELSE P3[n]
    BY <1>15, <2>1, <2>2 DEF Upd
  <2>4. P3[n] = IF n = B1[z] THEN y ELSE P1[n]
    BY <1>2, <1>20
  <2>5. P1[n] = z <=> n = c \/ n = B1[z]
    <3>1. CASE n = NIL
      <4>1. x = NIL
        BY <1>4, <1>20, <3>1
      <4> QED BY <1>1, <3>1, <4>1
    <3>2. CASE n # NIL
      <4>1. n \in M1
        BY <1>20, <3>2
      <4>2. P1[n] = z => n = A1[z] \/ n = B1[z]
        <5>1. n # r1 => n = A1[P1[n]] \/ n = B1[P1[n]]
          BY <1>1, <4>1, Parents
        <5>2. n = r1 => P1[n] = NIL
          BY <1>1, <4>1, Parents
        <5> QED BY <1>4, <5>1, <5>2
      <4>3. n = B1[z] => P1[n] = z
        <5>1. At(z, A1, B1, P1, M1, sub1)
          BY <1>1 DEF Shape
        <5> QED BY <3>2, <5>1 DEF At
      <4> QED BY <1>1, <1>c, <4>2, <4>3
    <3> QED BY <3>1, <3>2
  <2> QED BY <2>3, <2>4, <2>5 DEF To
<1>21. Renamed(z, y, x, M1, r1, A1, B1, P1, u.root, u.left, u.right, u.parent)
  BY <1>1, <1>16, <1>17, <1>18, <1>19, <1>20 DEF Renamed
<1> QED BY <1>15, <1>21 DEF SuccessorPut, A1, B1, P1, C1, r1

LEMMA SuccessorFits ==
  ASSUME NEW r, NEW A, NEW B, NEW P, NEW M, NEW sub, Shape(r, A, B, P, M, sub),
         NEW K \in [Node -> Int], Sorted(A, B, K, M, sub),
         NEW z, NEW y, NEW x, SuccessorOf(z, y, x, A, B, M, sub),
         NEW c, B[z] = c, Least(A, K, sub, c, y),
         NEW r1, NEW A1, NEW B1, NEW P1, Spliced(y, x, r, A, B, P, r1, A1, B1, P1)
  PROVE  Fits(z, y, A1, B1, K, M \ {y}, Without(y, sub))
<1> DEFINE q == P[y]
           sub1 == Without(y, sub)
<1>q. P[y] = q
  OBVIOUS
<1> HIDE DEF q
<1>1. AroundSuccessor(z, y, x, q, r, A, B, M, A1, B1, P1)
  BY <1>q, SuccessorNodes
<1>2. /\ y \in M /\ y # z /\ z \in M /\ q \in M /\ x \in M \cup {NIL} /\ A1[z] = A[z]
      /\ q = z => B1[z] = x /\ B[z] = y
      /\ q # z => B1[z] = B[z]
      /\ A[z] # NIL
  BY <1>1 DEF AroundSuccessor
<1>3. M \subseteq Node /\ M \subseteq D /\ NIL \in D /\ sub[NIL] = {} /\ sub \in [D -> SUBSET M]
  BY DEF Shape, D
<1>4. At(z, A, B, P, M, sub) /\ c # NIL
  BY <1>2 DEF Shape, SuccessorOf
<1>5. /\ c \in M /\ A[z] \in M /\ sub[z] = {z} \cup sub[A[z]] \cup sub[c] /\ z \notin sub[c]
  BY <1>2, <1>4 DEF At
<1>6. y \in sub[c] /\ A[y] = NIL /\ B[y] = x /\ \A a \in sub[c] : K[y] <= K[a]
  BY DEF SuccessorOf, Least
<1>7. sub[x] = sub[y] \ {y}
  BY <1>2, <1>6, <1>q, SpliceNodes
<1>8. z \notin sub[y] /\ sub[y] \subseteq sub[c]
  BY <1>5, <1>6, Subtrees
<1>9. \A n \in D : sub1[n] = sub[n] \ {y}
  BY DEF Without
<1> HIDE DEF sub1
<1>k. \A n \in M : K[n] \in Int
  BY <1>3
<1>10. /\ \A m \in sub[A[z]] : K[m] <= K[z] /\ m \in M
       /\ K[z] <= K[y]
  <2>1. sub[A[z]] \subseteq M
    BY <1>3, <1>5
  <2> QED BY <1>2, <1>6, <2>1 DEF Sorted
<1>11. \A m \in sub1[A1[z]] : K[m] <= K[y]
  <2>1. sub1[A1[z]] \subseteq sub[A[z]]
    BY <1>2, <1>3, <1>5, <1>9
  <2> QED BY <1>2, <1>10, <1>k, <2>1
<1>12. \A m \in sub1[B1[z]] : K[y] <= K[m]
  <2>1. sub1[B1[z]] \subseteq sub[c]
    <3>1. CASE q = z
      <4>1. x \in D
        BY <1>2, <1>3
      <4> QED BY <1>2, <1>7, <1>8, <1>9, <3>1, <4>1
    <3>2. CASE q # z
      BY <1>2, <1>3, <1>5, <1>9, <3>2
    <3> QED BY <3>1, <3>2
  <2> QED BY <1>6, <2>1
<1>13. ASSUME NEW a \in M \cup {NIL}, NEW a1, a1 = IF a = y THEN x ELSE a, z \in sub1[a1]
       PROVE  y \in sub[a]
  <2>1. a1 \in D
    BY <1>2, <1>3, <1>13
  <2>2. z \in sub[a1]
    BY <1>9, <1>13, <2>1
  <2>3. a # y
    BY <1>7, <1>8, <1>13, <2>2
  <2>4. z \in sub[a] /\ a \in M
    BY <1>3, <1>13, <2>2, <2>3
  <2>5. sub[z] \subseteq sub[a]
    BY <2>4, Subtrees
  <2> QED BY <1>5, <1>6, <2>5
<1>14. ASSUME NEW n \in M, n # y
       PROVE  (z \in sub1[A1[n]] => K[y] <= K[n]) /\ (z \in sub1[B1[n]] => K[n] <= K[y])
  <2>1. SplicedAt(n, y, x, q, A, B, A1, B1, M)
    BY <1>2, <1>6, <1>14, <1>q, SpliceOthers
  <2>2. /\ A1[n] = IF A[n] = y THEN x ELSE A[n]
        /\ B1[n] = IF B[n] = y THEN x ELSE B[n]
        /\ A[n] \in M \cup {NIL} /\ B[n] \in M \cup {NIL}
    BY <2>1 DEF SplicedAt
  <2>3. (z \in sub1[A1[n]] => y \in sub[A[n]]) /\ (z \in sub1[B1[n]] => y \in sub[B[n]])
    BY <1>13, <2>2
  <2> QED BY <2>3 DEF Sorted
<1>15. Fits(z, y, A1, B1, K, M \ {y}, sub1)
  BY <1>11, <1>12, <1>14 DEF Fits
<1> QED BY <1>15 DEF sub1

LEMMA SuccessorTree ==
  ASSUME NEW t, NEW M, NEW sub, NEW bh, TreeFrom("left", t, M, sub),
         ColorsFrom("left", t, M, bh, NIL), NEW z \in M, t.left[z] # NIL,
         NEW c, t.right[z] = c, c # NIL, NEW y, Least(t.left, Key, sub, c, y),
         NEW x, t.right[y] = x
  PROVE  TakenOut(t.color[y], M \ {z}, x, PutSuccessor(t, z, y))
<1> DEFINE A == t.left
           B == t.right
           P == t.parent
           C == t.color
           r == t.root
           q == P[y]
           t1 == Splice(t, y, x)
           A1 == t1.left
           B1 == t1.right
           P1 == t1.parent
           r1 == t1.root
           M1 == M \ {y}
           sub1 == Without(y, sub)
           t2 == Put(t1, "right", y, t1.right[z])
           t3 == IF t.parent[y] = z THEN Put(t, "parent", x, y)
                 ELSE Put(t2, "parent", t2.right[y], y)
           t4 == Put(Replace(t3, z, y), "parent", y, t3.parent[z])
           t5 == Put(t4, "left", y, t4.left[z])
           u == Paint(Put(t5, "parent", t5.left[y], y), y, t5.color[z])
           A2 == u.left
           B2 == u.right
           P2 == u.parent
           r2 == u.root
           M2 == M \ {z}
           sub2 == RenamedSub(z, y, sub1)
<1>u. PutSuccessor(t, z, y) = u
  BY DEF PutSuccessor
<1>1. /\ t \in Trees /\ Shape(r, A, B, P, M, sub) /\ Sorted(A, B, Key, M, sub)
      /\ Colored(r, A, B, C, M, bh, NIL) /\ Key \in [Node -> Int]
      /\ t["left"] = A /\ t["right"] = B /\ P[y] = q /\ B[z] = c
      /\ Least(A, Key, sub, c, y)
  BY KeyTypes, RBTreeAssumption DEF TreeFrom, ShapeFrom, ColorsFrom, Opposite
<1>2. SuccessorOf(z, y, x, A, B, M, sub)
  BY DEF SuccessorOf, Least
<1>e. /\ Put(t1, "right", y, t1.right[z]) = t2
      /\ (IF t.parent[y] = z THEN Put(t, "parent", x, y)
          ELSE Put(t2, "parent", t2.right[y], y)) = t3
  OBVIOUS
<1>i. /\ Put(Replace(t3, z, y), "parent", y, t3.parent[z]) = t4
      /\ Put(t4, "left", y, t4.left[z]) = t5
      /\ Paint(Put(t5, "parent", t5.left[y], y), y, t5.color[z]) = u
  OBVIOUS
<1>f. t1.left = A1 /\ t1.right = B1 /\ t1.parent = P1 /\ t1.root = r1
  OBVIOUS
<1>h. Splice(t, y, x) = t1
  OBVIOUS
<1> HIDE DEF A, B, P, C, r, q, t1, A1, B1, P1, r1, M1, sub1, t2, t3, t4, t5, u, A2, B2, P2, r2, M2, sub2
<1>3. y \in sub[c] /\ A[y] = NIL /\ B[y] = x
  BY <1>2, <1>1 DEF SuccessorOf
<1>4. c \in M
  <2>1. At(z, A, B, P, M, sub)
    BY <1>1 DEF Shape
  <2> QED BY <1>1, <2>1 DEF At
<1>5. y \in M
  BY <1>1, <1>3, <1>4, Subtrees
<1>6. SplicedFrom("left", y, x, t, t1)
  <2>1. ShapeFrom("left", t, M, sub) /\ t["left"][y] = NIL /\ t[Opposite("left")][y] = x
    BY <1>1, <1>3 DEF TreeFrom, Opposite
  <2> QED BY <1>1, <1>5, <1>h, <2>1, SpliceView DEF Side
<1>7. t1 \in Trees /\ t1.color = C /\ Spliced(y, x, r, A, B, P, r1, A1, B1, P1)
  BY <1>1, <1>6, <1>f DEF SplicedFrom, Opposite, r, P, C
<1>8. AroundSuccessor(z, y, x, q, r, A, B, M, A1, B1, P1)
  BY <1>1, <1>2, <1>7, SuccessorNodes
<1>9. /\ y # z /\ z \in M1 /\ x \in M1 \cup {NIL} /\ x # z /\ A1[z] # NIL /\ P1[x] = q
      /\ q = z => B1[z] = x
      /\ q # z => B1[z] = c
  BY <1>1, <1>8 DEF AroundSuccessor, M1
<1>10. Shape(r1, A1, B1, P1, M1, sub1) /\ Sorted(A1, B1, Key, M1, sub1)
  <2>1. Shape(r1, A1, B1, P1, M1, sub1)
    BY <1>1, <1>3, <1>5, <1>7, SpliceShape DEF M1, sub1
  <2>2. Sorted(A1, B1, Key, M1, sub1)
    BY <1>1, <1>3, <1>5, <1>7, SpliceSorted DEF M1, sub1
  <2> QED BY <2>1, <2>2
<1>11. Prepared(z, y, x, M1, t1, t3)
  <2>1. /\ Shape(t.root, t.left, t.right, t.parent, M, sub)
        /\ SuccessorOf(z, y, x, t.left, t.right, M, sub)
    BY <1>1, <1>2 DEF A, B, P, r
  <2> QED BY <1>1, <1>6, <1>e, <2>1, PrepareView DEF M1
<1>y. y \in Node /\ y \notin M1 /\ M \subseteq Node
  BY <1>1, <1>5 DEF Shape, M1
<1>12. SuccessorPut(z, y, x, M1, t1, u)
  <2>1. x = NIL => (t1.right[z] = NIL <=> t1.parent[NIL] = z)
    BY <1>9, <1>f
  <2>2. Shape(t1.root, t1.left, t1.right, t1.parent, M1, sub1) /\ t1.left[z] # NIL
    BY <1>9, <1>10, <1>f
  <2>3. /\ t1 \in Trees /\ z \in M1 /\ y \in Node /\ y \notin M1 /\ x \in M1 \cup {NIL} /\ x # z
    BY <1>7, <1>9, <1>y
  <2> QED BY <1>11, <1>i, <2>1, <2>2, <2>3, SuccessorView
<1>13. u \in Trees /\ u.color = Upd(C, y, C[z])
       /\ Renamed(z, y, x, M1, r1, A1, B1, P1, r2, A2, B2, P2)
  BY <1>7, <1>12, <1>f DEF SuccessorPut, A2, B2, P2, r2
<1>m. (M1 \ {z}) \cup {y} = M2
  BY <1>5, <1>9 DEF M1, M2
<1>14. Shape(r2, A2, B2, P2, M2, sub2)
  <2>1. Shape(r2, A2, B2, P2, (M1 \ {z}) \cup {y}, RenamedSub(z, y, sub1))
    BY <1>9, <1>10, <1>13, <1>y, RenameShape
  <2> QED BY <2>1, <1>m DEF sub2
<1>15. Fits(z, y, A1, B1, Key, M1, sub1)
  BY <1>1, <1>2, <1>7, SuccessorFits DEF M1, sub1
<1>16. Sorted(A2, B2, Key, M2, sub2)
  <2>1. Sorted(A2, B2, Key, (M1 \ {z}) \cup {y}, RenamedSub(z, y, sub1))
    BY <1>9, <1>10, <1>13, <1>15, <1>y, RenameSorted
  <2> QED BY <2>1, <1>m DEF sub2
<1>17. /\ C[y] # "BLACK" => Colored(r1, A1, B1, C, M1, bh, NIL)
       /\ C[y] = "BLACK" => DelColored(r1, A1, B1, P1, C, M1, bh, x)
  BY <1>1, <1>3, <1>5, <1>7, SpliceColors DEF M1
<1>18. /\ Colored(r1, A1, B1, C, M1, bh, NIL) => Colorable(r2, A2, B2, u.color, M2, NIL)
       /\ DelColored(r1, A1, B1, P1, C, M1, bh, x) => DelColorable(r2, A2, B2, P2, u.color, M2, x)
  <2>1. ColorTypes(C, bh)
    BY <1>1 DEF Colored
  <2> DEFINE C2 == u.color
  <2>2. Upd(C, y, C[z]) = C2
    BY <1>13
  <2> HIDE DEF C2
  <2>3. ColorsMoved(r1, A1, B1, P1, C, M1, bh, x, r2, A2, B2, P2, C2, (M1 \ {z}) \cup {y})
    BY <1>9, <1>10, <1>13, <1>y, <2>1, <2>2, RenameColors
  <2> QED BY <1>m, <2>3 DEF C2, ColorsMoved
<1>19. TreeFrom("left", u, M2, sub2) /\ u["left"] = A2 /\ u["right"] = B2
  <2>1. u["left"] = A2 /\ u["right"] = B2
    BY DEF A2, B2
  <2> QED BY <1>13, <1>14, <1>16, <2>1, KeyTypes DEF TreeFrom, ShapeFrom, Opposite, r2, P2
<1>20. ASSUME C[y] # "BLACK" PROVE RedBlack(u, M2)
  <2>1. PICK bh2 : Colored(r2, A2, B2, u.color, M2, bh2, NIL)
    BY <1>17, <1>18, <1>20 DEF Colorable
  <2>2. ColorsFrom("left", u, M2, bh2, NIL)
    BY <1>19, <2>1 DEF ColorsFrom, Opposite, r2
  <2> QED BY <1>19, <2>2 DEF RedBlack
<1>21. ASSUME C[y] = "BLACK" PROVE DelOK("left", u, M2, sub2, x)
  <2>1. DelColorable(r2, A2, B2, P2, u.color, M2, x)
    BY <1>17, <1>18, <1>21
  <2> QED BY <1>19, <2>1 DEF DelOK, Opposite, r2, P2
<1>22. TakenOut(C[y], M2, x, u)
  BY <1>20, <1>21 DEF TakenOut
<1> QED BY <1>22, <1>u DEF C, M2

-----------------------------------------------------------------------------
(* Deletion.                                                               *)

\* Nothing in the tree depends on the fields of a node outside of it.
LEMMA ForgetKeeps ==
  ASSUME NEW t, NEW M, RedBlack(t, M), NEW z \in Node, z \notin M
  PROVE  RedBlack(Forget(t, z), M)
<1> DEFINE t1 == Put(t, "left", z, NULL)
           t2 == Put(t1, "right", z, NULL)
           t3 == Put(t2, "parent", z, NULL)
           u == Paint(t3, z, "BLACK")
           A == t["left"]
           B == t["right"]
           P == t.parent
           C == t.color
           r == t.root
           A2 == u["left"]
           B2 == u["right"]
           P2 == u.parent
           C2 == u.color
<1>1. PICK sub, bh : TreeFrom("left", t, M, sub) /\ ColorsFrom("left", t, M, bh, NIL)
  BY DEF RedBlack
<1>2. /\ t \in Trees /\ Shape(r, A, B, P, M, sub) /\ Sorted(A, B, KeyFrom("left"), M, sub)
      /\ Colored(r, A, B, C, M, bh, NIL)
  BY <1>1 DEF TreeFrom, ShapeFrom, ColorsFrom, Opposite
<1>u. Forget(t, z) = u
  BY DEF Forget
<1>p. /\ Put(t, "left", z, NULL) = t1 /\ Put(t1, "right", z, NULL) = t2
      /\ Put(t2, "parent", z, NULL) = t3 /\ Paint(t3, z, "BLACK") = u
  OBVIOUS
<1> HIDE DEF t1, t2, t3, u, A, B, P, C, r, A2, B2, P2, C2
<1>d. z \in D /\ NULL \in W /\ z # NIL /\ M \subseteq D /\ NIL \in D /\ M \subseteq Node
  BY <1>2, NilNotNode DEF Shape, D, W
<1>3. /\ t1 \in Trees /\ t1.root = r /\ t1.color = C /\ t1.parent = P
      /\ t1["left"] = Upd(A, z, NULL) /\ t1["right"] = B
  <2>1. ChildPut(t, "left", z, NULL, t1)
    BY <1>2, <1>d, <1>p, PutChild DEF Side
  <2> QED BY <2>1 DEF ChildPut, Opposite, r, A, B, P, C
<1>4. /\ t2 \in Trees /\ t2.root = r /\ t2.color = C /\ t2.parent = P
      /\ t2["left"] = Upd(A, z, NULL) /\ t2["right"] = Upd(B, z, NULL)
  <2>1. ChildPut(t1, "right", z, NULL, t2)
    BY <1>3, <1>d, <1>p, PutChild DEF Side
  <2> QED BY <1>3, <2>1 DEF ChildPut, Opposite
<1>5. /\ t3 \in Trees /\ t3.root = r /\ t3.color = C /\ t3.parent = Upd(P, z, NULL)
      /\ t3["left"] = Upd(A, z, NULL) /\ t3["right"] = Upd(B, z, NULL)
  <2>1. ParentPut(t2, z, NULL, t3)
    BY <1>4, <1>d, <1>p, PutParent
  <2> QED BY <1>4, <2>1 DEF ParentPut, Side
<1>6. /\ u \in Trees /\ u.root = r /\ C2 = Upd(C, z, "BLACK") /\ P2 = Upd(P, z, NULL)
      /\ A2 = Upd(A, z, NULL) /\ B2 = Upd(B, z, NULL)
  <2>1. Painted(t3, z, "BLACK", u)
    BY <1>5, <1>d, <1>p, PaintColor
  <2> QED BY <1>5, <2>1 DEF Painted, Side, A2, B2, P2, C2
<1>7. /\ A2 \in [D -> W] /\ B2 \in [D -> W] /\ P2 \in [D -> W] /\ C2 \in [D -> Color]
  BY <1>6 DEF Trees, A2, B2, P2, C2, Color
<1>8. /\ \A n \in M : A2[n] = A[n] /\ B2[n] = B[n] /\ P2[n] = P[n]
      /\ \A n \in M \cup {NIL} : C2[n] = C[n]
  <2>1. /\ A \in [D -> W] /\ B \in [D -> W] /\ P \in [D -> W] /\ C \in [D -> Color]
    BY <1>2 DEF Trees, A, B, P, C, Color
  <2> QED BY <1>6, <1>d, <2>1 DEF Upd
<1>9. \A n \in M : A[n] \in M \cup {NIL} /\ B[n] \in M \cup {NIL}
  BY <1>2 DEF Shape, At
<1>10. Shape(r, A2, B2, P2, M, sub)
  <2>1. ASSUME NEW n \in M PROVE At(n, A2, B2, P2, M, sub)
    <3>1. At(n, A, B, P, M, sub)
      BY <1>2 DEF Shape
    <3>2. A2[n] = A[n] /\ B2[n] = B[n]
      BY <1>8
    <3>3. (A[n] # NIL => P2[A[n]] = P[A[n]]) /\ (B[n] # NIL => P2[B[n]] = P[B[n]])
      BY <1>8, <1>9
    <3> QED BY <3>1, <3>2, <3>3 DEF At
  <2>2. /\ r \in M \cup {NIL} /\ sub \in [D -> SUBSET M] /\ sub[NIL] = {} /\ sub[r] = M
        /\ r # NIL => P[r] = NIL
    BY <1>2 DEF Shape
  <2>3. r # NIL => P2[r] = NIL
    BY <1>8, <2>2
  <2> QED BY <1>7, <1>d, <2>1, <2>2, <2>3 DEF Shape
<1>11. Sorted(A2, B2, KeyFrom("left"), M, sub)
  BY <1>2, <1>8 DEF Sorted
<1>12. Colored(r, A2, B2, C2, M, bh, NIL)
  <2>1. /\ ColorTypes(C, bh) /\ (C[r] = "BLACK" \/ r = NIL) /\ r \in M \cup {NIL}
        /\ \A n \in M : HeightAt(n, A, B, C, bh) /\ ColorAt(n, A, B, C, NIL)
    BY <1>2 DEF Colored, Shape
  <2>2. ColorTypes(C2, bh)
    BY <1>7, <1>8, <2>1 DEF ColorTypes
  <2>3. ASSUME NEW n \in M PROVE HeightAt(n, A2, B2, C2, bh) /\ ColorAt(n, A2, B2, C2, NIL)
    <3>1. /\ A2[n] = A[n] /\ B2[n] = B[n] /\ C2[n] = C[n]
          /\ C2[A[n]] = C[A[n]] /\ C2[B[n]] = C[B[n]]
      BY <1>8, <1>9
    <3>2. HeightAt(n, A, B, C, bh) /\ ColorAt(n, A, B, C, NIL)
      BY <2>1
    <3> QED BY <3>1, <3>2 DEF HeightAt, ColorAt
  <2>4. C2[r] = "BLACK" \/ r = NIL
    BY <1>8, <2>1
  <2> QED BY <2>2, <2>3, <2>4 DEF Colored
<1>13. TreeFrom("left", u, M, sub) /\ ColorsFrom("left", u, M, bh, NIL)
  BY <1>6, <1>10, <1>11, <1>12 DEF TreeFrom, ShapeFrom, ColorsFrom, Opposite, A2, B2, P2, C2
<1>14. RedBlack(u, M)
  BY <1>13 DEF RedBlack
<1> QED BY <1>14, <1>u

\* A black node that was taken out is made up for by the fix-up.
LEMMA MadeUp ==
  ASSUME NEW c, NEW M, NEW x, NEW t, TakenOut(c, M, x, t), NEW z \in Node, z \notin M
  PROVE  RedBlack(Forget(IF c = "BLACK" THEN rbtree_delete_fixup(t, x) ELSE t, z), M)
<1>1. CASE c = "BLACK"
  <2>1. PICK sub : DelOK("left", t, M, sub, x)
    BY <1>1 DEF TakenOut
  <2>2. RedBlack(rbtree_delete_fixup(t, x), M)
    BY <2>1, DeleteFixup
  <2>3. RedBlack(Forget(rbtree_delete_fixup(t, x), z), M)
    BY <2>2, ForgetKeeps
  <2> QED BY <1>1, <2>3
<1>2. CASE c # "BLACK"
  <2>1. RedBlack(t, M)
    BY <1>2 DEF TakenOut
  <2>2. RedBlack(Forget(t, z), M)
    BY <2>1, ForgetKeeps
  <2> QED BY <1>2, <2>2
<1> QED BY <1>1, <1>2

LEMMA DeleteKeeps ==
  ASSUME NEW z \in Node, RedBlack(tree, members), rbtree_delete(z)
  PROVE  RedBlack(tree', members')
<1> DEFINE one == tree.left[z] = NIL \/ tree.right[z] = NIL
           y == IF one THEN z ELSE rbtree_minimum(tree, tree.right[z])
           x == IF one /\ tree.left[z] # NIL THEN tree.left[z] ELSE tree.right[y]
           t == IF one THEN Splice(tree, z, x) ELSE PutSuccessor(tree, z, y)
           c == tree.color[y]
           M2 == members \ {z}
<1>1. /\ z \in members /\ members' = M2
      /\ tree' = Forget(IF c = "BLACK" THEN rbtree_delete_fixup(t, x) ELSE t, z)
  BY DEF rbtree_delete
<1>2. PICK sub, bh : TreeFrom("left", tree, members, sub) /\ ColorsFrom("left", tree, members, bh, NIL)
  BY DEF RedBlack
<1>3. /\ tree["left"] = tree.left /\ tree["right"] = tree.right
      /\ tree.left[z] \in members \cup {NIL} /\ tree.right[z] \in members \cup {NIL}
  BY <1>1, <1>2 DEF TreeFrom, ShapeFrom, Shape, At, Opposite
<1>4. TakenOut(c, M2, x, t)
  <2>1. CASE tree.left[z] = NIL
    <3>1. one /\ y = z /\ x = tree.right[z] /\ t = Splice(tree, z, x) /\ c = tree.color[z]
      BY <2>1
    <3> HIDE DEF one, y, x, t, c, M2
    <3>2. tree["left"][z] = NIL /\ tree[Opposite("left")][z] = x
      BY <1>3, <2>1, <3>1 DEF Opposite
    <3>3. TakenOut(tree.color[z], members \ {z}, x, Splice(tree, z, x))
      BY <1>1, <1>2, <3>2, SpliceTree DEF Side
    <3> QED BY <3>1, <3>3 DEF M2
  <2>2. CASE tree.left[z] # NIL /\ tree.right[z] = NIL
    <3>1. one /\ y = z /\ x = tree.left[z] /\ t = Splice(tree, z, x) /\ c = tree.color[z]
      BY <2>2
    <3> HIDE DEF one, y, x, t, c, M2
    <3>2. tree["right"][z] = NIL /\ tree[Opposite("right")][z] = x
      BY <1>3, <2>2, <3>1 DEF Opposite
    <3>3. TreeFrom("right", tree, members, sub) /\ ColorsFrom("right", tree, members, bh, NIL)
      BY <1>2, AnySide DEF Side
    <3>4. TakenOut(tree.color[z], members \ {z}, x, Splice(tree, z, x))
      BY <1>1, <3>2, <3>3, SpliceTree DEF Side
    <3> QED BY <3>1, <3>4 DEF M2
  <2>3. CASE tree.left[z] # NIL /\ tree.right[z] # NIL
    <3> DEFINE b == tree.right[z]
    <3>1. /\ ~one /\ y = rbtree_minimum(tree, b) /\ x = tree.right[y]
          /\ t = PutSuccessor(tree, z, y) /\ c = tree.color[y]
      BY <2>3
    <3>b. tree.right[z] = b /\ b # NIL /\ b \in members
      BY <1>3, <2>3
    <3> HIDE DEF one, y, x, t, c, M2, b
    <3>2. Least(tree.left, Key, sub, b, y)
      BY <1>2, <3>1, <3>b, MinimumLeast
    <3>3. TakenOut(tree.color[y], members \ {z}, x, PutSuccessor(tree, z, y))
      BY <1>1, <1>2, <2>3, <3>1, <3>2, <3>b, SuccessorTree
    <3> QED BY <3>1, <3>3 DEF M2
  <2> QED BY <2>1, <2>2, <2>3
<1> HIDE DEF one, y, x, t, c, M2
<1>5. z \notin M2
  BY DEF M2
<1>6. RedBlack(Forget(IF c = "BLACK" THEN rbtree_delete_fixup(t, x) ELSE t, z), M2)
  BY <1>4, <1>5, MadeUp
<1> QED BY <1>1, <1>6

LEMMA EmptyRedBlack ==
  ASSUME RBInit
  PROVE  RedBlack(tree, members)
<1> DEFINE sub == [n \in D |-> {}]
           bh == [n \in D |-> 0]
<1>1. NIL \in D /\ NULL \in W
  BY DEF D, W
<1>2. /\ tree \in Trees /\ tree.root = NIL /\ members = {}
      /\ tree.color = [n \in D |-> "BLACK"]
  BY <1>1 DEF RBInit, rbtree_init, Trees, D, W
<1>3. Shape(NIL, tree["left"], tree["right"], tree.parent, {}, sub)
  BY <1>1, <1>2 DEF Shape, Trees
<1>4. Sorted(tree["left"], tree["right"], KeyFrom("left"), {}, sub)
  BY DEF Sorted
<1>5. Colored(NIL, tree["left"], tree["right"], tree.color, {}, bh, NIL)
  BY <1>1, <1>2 DEF Colored, ColorTypes, Color
<1>6. TreeFrom("left", tree, members, sub) /\ ColorsFrom("left", tree, members, bh, NIL)
  BY <1>2, <1>3, <1>4, <1>5 DEF TreeFrom, ShapeFrom, ColorsFrom, Opposite
<1> QED BY <1>6 DEF RedBlack

-----------------------------------------------------------------------------
(* The ancestors of a node, by the parent pointers.                        *)

Ancestors(n, M, sub) == {a \in M : n \in sub[a]}

\* The sets g that the loop of Upward passes.
ClimbOf(P, n, N, g) ==
  (CHOOSE f : f = [k \in 0 .. N |-> IF k = 0 THEN {n}
                     ELSE IF TRUE THEN f[k - 1] \cup {P[m] : m \in f[k - 1] \ {NIL}}
                     ELSE f[k - 1]]) = g

\* Every node of S has its parent in S.
ParentClosed(P, S) == \A m \in S \ {NIL} : P[m] \in S

Climbing(n, P, M, sub, k, S) ==
  /\ n \in S /\ S \subseteq Ancestors(n, M, sub) \cup {NIL}
  /\ ParentClosed(P, S) \/ k < Cardinality(S \ {NIL})

LEMMA ClimbStep ==
  ASSUME NEW r, NEW A, NEW B, NEW P, NEW M, NEW sub, Shape(r, A, B, P, M, sub),
         NEW n \in M, NEW k \in Nat, NEW S, Climbing(n, P, M, sub, k, S),
         NEW S2, S \cup {P[m] : m \in S \ {NIL}} = S2
  PROVE  Climbing(n, P, M, sub, k + 1, S2)
<1>1. /\ n \in S /\ S \subseteq Ancestors(n, M, sub) \cup {NIL}
      /\ ParentClosed(P, S) \/ k < Cardinality(S \ {NIL})
  BY DEF Climbing
<1>2. M \subseteq Node /\ NIL \notin M
  BY NilNotNode DEF Shape
<1>3. ASSUME NEW m \in S, m # NIL PROVE P[m] \in Ancestors(n, M, sub) \cup {NIL}
  <2>1. m \in M /\ n \in sub[m]
    BY <1>1, <1>3 DEF Ancestors
  <2>2. P[m] \in M \cup {NIL} /\ (P[m] = NIL <=> m = r) /\ m \in sub[m]
        /\ (m # r => m = A[P[m]] \/ m = B[P[m]])
    BY <2>1, Parents
  <2>3. ASSUME P[m] # NIL PROVE n \in sub[P[m]]
    <3>1. P[m] \in M
      BY <2>2, <2>3
    <3>2. m \in sub[P[m]]
      BY <2>2, <2>3, <3>1 DEF Shape, At
    <3>3. sub[m] \subseteq sub[P[m]]
      <4> DEFINE p == P[m]
      <4>1. p \in M /\ m \in sub[p]
        BY <3>1, <3>2
      <4> HIDE DEF p
      <4>2. sub[m] \subseteq sub[p]
        BY <4>1, Subtrees
      <4> QED BY <4>2 DEF p
    <3> QED BY <2>1, <3>3
  <2> QED BY <2>2, <2>3 DEF Ancestors
<1>4. S2 \subseteq Ancestors(n, M, sub) \cup {NIL} /\ S \subseteq S2 /\ n \in S2
      /\ \A m \in S \ {NIL} : P[m] \in S2
  BY <1>1, <1>3
<1>5. ASSUME ~ParentClosed(P, S2) PROVE k + 1 < Cardinality(S2 \ {NIL})
  <2>1. PICK m \in S2 \ {NIL} : P[m] \notin S2
    BY <1>5 DEF ParentClosed
  <2>2. m \notin S
    BY <1>4, <2>1
  <2>3. ~ParentClosed(P, S)
    <3> SUFFICES ASSUME ParentClosed(P, S) PROVE FALSE
      OBVIOUS
    <3>1. m \in {P[a] : a \in S \ {NIL}}
      BY <2>1, <2>2
    <3>2. m \in S
      BY <3>1 DEF ParentClosed
    <3> QED BY <2>2, <3>2
  <2>4. k < Cardinality(S \ {NIL})
    BY <1>1, <2>3
  <2>5. S2 \ {NIL} \subseteq Node
    BY <1>2, <1>4 DEF Ancestors
  <2>6. S \ {NIL} \subseteq S2 \ {NIL} /\ m \in S2 \ {NIL} /\ m \notin S \ {NIL}
    BY <1>4, <2>1, <2>2
  <2>7. Cardinality(S \ {NIL}) < Cardinality(S2 \ {NIL}) /\ Cardinality(S \ {NIL}) \in Nat
        /\ Cardinality(S2 \ {NIL}) \in Nat
    BY <2>5, <2>6, Larger
  <2> QED BY <2>4, <2>7
<1> QED BY <1>4, <1>5 DEF Climbing

LEMMA ClosedClimb ==
  ASSUME NEW r, NEW A, NEW B, NEW P, NEW M, NEW sub, Shape(r, A, B, P, M, sub),
         NEW n \in M, NEW S, n \in S, ParentClosed(P, S)
  PROVE  Ancestors(n, M, sub) \subseteq S
<1> DEFINE T == {a \in M : n \in sub[a] => a \in S}
<1>1. ASSUME NEW a \in M, A[a] \in T \cup {NIL}, B[a] \in T \cup {NIL} PROVE a \in T
  <2> SUFFICES ASSUME n \in sub[a], a # n PROVE a \in S
    OBVIOUS
  <2>1. At(a, A, B, P, M, sub) /\ sub[NIL] = {}
    BY DEF Shape
  <2>2. PICK c \in {A[a], B[a]} : n \in sub[c]
    BY <2>1 DEF At
  <2>3. c # NIL /\ P[c] = a /\ c \in T
    BY <1>1, <2>1, <2>2 DEF At
  <2>4. c \in S
    BY <2>2, <2>3
  <2> QED BY <2>3, <2>4 DEF ParentClosed
<1> HIDE DEF T
<1>2. M \subseteq T
  BY <1>1, UpInduction
<1> QED BY <1>2 DEF T, Ancestors

LEMMA ClimbEnd ==
  ASSUME NEW r, NEW A, NEW B, NEW P, NEW M, NEW sub, Shape(r, A, B, P, M, sub),
         NEW n \in M, NEW N, Cardinality(Node) = N, NEW g, ClimbOf(P, n, N, g)
  PROVE  g[N] \ {NIL} = Ancestors(n, M, sub)
<1> DEFINE After(S) == S \cup {P[m] : m \in S \ {NIL}}
           Eq(f) == f = [k \in 0 .. N |-> IF k = 0 THEN {n} ELSE After(f[k - 1])]
<1>g. (CHOOSE f : Eq(f)) = g
  BY Zenon DEF ClimbOf
<1>n. N \in Nat
  BY NodeCount
<1>s. M \subseteq Node /\ NIL \notin M
  BY NilNotNode DEF Shape
<1>1. Climbing(n, P, M, sub, 0, {n})
  <2>1. n \in sub[n] /\ n # NIL
    BY Parents
  <2>2. {n} \ {NIL} = {n} /\ Cardinality({n}) = 1
    BY <2>1, FS_Singleton
  <2>3. 0 < Cardinality({n} \ {NIL})
    BY <2>2
  <2> QED BY <2>1, <2>3 DEF Climbing, Ancestors
<1>3. ASSUME NEW S, NEW k \in Nat, Climbing(n, P, M, sub, k, S)
      PROVE  Climbing(n, P, M, sub, k + 1, After(S))
  <2> DEFINE S2 == After(S)
  <2>1. S \cup {P[m] : m \in S \ {NIL}} = S2
    OBVIOUS
  <2> HIDE DEF S2
  <2>2. Climbing(n, P, M, sub, k + 1, S2)
    BY <1>3, <2>1, ClimbStep
  <2> QED BY <2>2 DEF S2
<1> HIDE DEF After
<1>4. \E f : Eq(f)
  <2> DEFINE V == {S \in SUBSET (M \cup {NIL}) : \E k \in Nat : Climbing(n, P, M, sub, k, S)}
             next == [S \in V |-> After(S)]
  <2>1. \A S, k : Climbing(n, P, M, sub, k, S) => S \in SUBSET (M \cup {NIL})
    BY DEF Climbing, Ancestors
  <2>2. {n} \in V
    BY <1>1, <2>1
  <2>3. next \in [V -> V]
    BY <1>3, <2>1
  <2>4. \A S \in V : next[S] = After(S)
    OBVIOUS
  <2> HIDE DEF V, next
  <2>l. PICK f : Iterates(f, N, V, {n}, next)
    BY <1>n, <2>2, <2>3, LoopExists
  <2>5. f \in [0 .. N -> V] /\ f[0] = {n} /\ \A k \in 1 .. N : f[k] = next[f[k - 1]]
    BY <2>l DEF Iterates
  <2>6. ASSUME NEW k \in 0 .. N PROVE f[k] = IF k = 0 THEN {n} ELSE After(f[k - 1])
    <3>1. CASE k # 0
      <4>1. k \in 1 .. N /\ k - 1 \in 0 .. N
        BY <1>n, <3>1
      <4> QED BY <2>4, <2>5, <3>1, <4>1
    <3> QED BY <2>5, <3>1
  <2>7. Eq(f)
    BY <2>5, <2>6
  <2> QED BY <2>7
<1>5. Eq(g)
  BY <1>4, <1>g
<1>6. g[0] = {n} /\ \A k \in 1 .. N : g[k] = After(g[k - 1])
  <2> DEFINE b == {n}
  <2>1. g = [k \in 0 .. N |-> IF k = 0 THEN b ELSE After(g[k - 1])]
    BY <1>5
  <2> HIDE DEF b
  <2>2. g[0] = b /\ \A k \in 1 .. N : g[k] = After(g[k - 1])
    BY <1>n, <2>1
  <2> QED BY <2>2 DEF b
<1>7. Climbing(n, P, M, sub, N, g[N])
  <2> DEFINE T == {k \in Nat : Climbing(n, P, M, sub, k, g[k])}
  <2>1. 0 \in T
    BY <1>1, <1>6
  <2>2. ASSUME NEW k \in 0 .. N - 1, k \in T PROVE k + 1 \in T
    <3>1. k \in Nat /\ k + 1 \in 1 .. N /\ (k + 1) - 1 = k
      BY <1>n
    <3>2. g[k + 1] = After(g[k])
      BY <1>6, <3>1
    <3> QED BY <1>3, <2>2, <3>1, <3>2
  <2> HIDE DEF T
  <2>3. N \in T
    BY <1>n, <2>1, <2>2, IntervalInduction
  <2> QED BY <2>3 DEF T
<1> DEFINE S == g[N]
<1>8. /\ n \in S /\ S \subseteq Ancestors(n, M, sub) \cup {NIL}
      /\ ParentClosed(P, S) \/ N < Cardinality(S \ {NIL})
  BY <1>7 DEF Climbing
<1> HIDE DEF S
<1>9. ~(N < Cardinality(S \ {NIL}))
  <2>1. S \ {NIL} \subseteq Node
    BY <1>8, <1>s DEF Ancestors
  <2>2. IsFiniteSet(S \ {NIL}) /\ Cardinality(S \ {NIL}) <= N
    BY <2>1, RBTreeAssumption, FS_Subset
  <2> QED BY <1>n, <2>2, FS_CardinalityType
<1>10. Ancestors(n, M, sub) \subseteq S
  BY <1>8, <1>9, ClosedClimb
<1>11. NIL \notin Ancestors(n, M, sub)
  BY <1>s DEF Ancestors
<1>12. S \ {NIL} = Ancestors(n, M, sub)
  BY <1>8, <1>10, <1>11
<1> QED BY <1>12 DEF S

LEMMA UpwardAncestors ==
  ASSUME NEW sub, Shape(tree.root, tree.left, tree.right, tree.parent, members, sub),
         NEW n \in members
  PROVE  Upward(n) = Ancestors(n, members, sub)
<1> DEFINE N == Cardinality(Node)
           P == tree.parent
           g == CHOOSE f : f = [k \in 0 .. N |-> IF k = 0 THEN {n}
                     ELSE IF TRUE THEN f[k - 1] \cup {P[m] : m \in f[k - 1] \ {NIL}}
                     ELSE f[k - 1]]
<1>1. Upward(n) = g[N] \ {NIL}
  BY Zenon DEF Upward, While
<1>2. Cardinality(Node) = N /\ ClimbOf(P, n, N, g)
  BY Zenon DEF ClimbOf
<1>3. Shape(tree.root, tree.left, tree.right, P, members, sub)
  OBVIOUS
<1> HIDE DEF N, P, g
<1>4. g[N] \ {NIL} = Ancestors(n, members, sub)
  BY <1>2, <1>3, ClimbEnd
<1> QED BY <1>1, <1>4

-----------------------------------------------------------------------------
(* Lookups.                                                                *)

\* The nodes g that the loop of rbtree_search passes.
SearchOf(A, B, r, k, N, g) ==
  (CHOOSE f : f = [i \in 0 .. N |-> IF i = 0 THEN r
                     ELSE IF f[i - 1] # NIL /\ k # Key[f[i - 1]]
                          THEN IF k < Key[f[i - 1]] THEN A[f[i - 1]] ELSE B[f[i - 1]]
                          ELSE f[i - 1]]) = g

HasKey(k, S) == \E n \in S : Key[n] = k

\* The search has come to m: a node with the key is below m, if there is one.
Searching(k, M, sub, N, i, m) ==
  /\ m \in M \cup {NIL} /\ (HasKey(k, M) => HasKey(k, sub[m]))
  /\ m # NIL /\ k # Key[m] => Cardinality(sub[m]) + i <= N

LEMMA SearchStep ==
  ASSUME NEW r, NEW A, NEW B, NEW P, NEW M, NEW sub, Shape(r, A, B, P, M, sub),
         Sorted(A, B, Key, M, sub), NEW k \in Nat, NEW N \in Nat, NEW i \in Nat,
         NEW m, Searching(k, M, sub, N, i, m), m # NIL, k # Key[m],
         NEW c, (IF k < Key[m] THEN A[m] ELSE B[m]) = c
  PROVE  Searching(k, M, sub, N, i + 1, c)
<1>1. m \in M /\ (HasKey(k, M) => HasKey(k, sub[m])) /\ Cardinality(sub[m]) + i <= N
  BY DEF Searching
<1>2. At(m, A, B, P, M, sub) /\ M \subseteq Node /\ sub \in [D -> SUBSET M]
  BY <1>1 DEF Shape
<1>3. c \in M \cup {NIL} /\ sub[m] = {m} \cup sub[A[m]] \cup sub[B[m]]
  BY <1>2 DEF At
<1>4. \A n \in sub[m] : Key[n] \in Nat
  <2>1. m \in D
    BY <1>1, <1>2 DEF D
  <2>2. sub[m] \subseteq Node
    BY <1>2, <2>1
  <2> QED BY <2>2, RBTreeAssumption
<1>k. Key[m] \in Nat
  BY <1>1, <1>2, RBTreeAssumption
<1>5. (\A n \in sub[A[m]] : Key[n] <= Key[m]) /\ (\A n \in sub[B[m]] : Key[m] <= Key[n])
  BY <1>1 DEF Sorted
<1>6. ASSUME NEW n \in sub[m], Key[n] = k PROVE n \in sub[c]
  <2>1. n # m
    BY <1>6
  <2>2. CASE k < Key[m]
    <3>1. n \notin sub[B[m]]
      BY <1>5, <1>6, <1>k, <2>2
    <3>2. c = A[m]
      BY <2>2
    <3> QED BY <1>3, <1>6, <2>1, <3>1, <3>2
  <2>3. CASE ~(k < Key[m])
    <3>1. n \notin sub[A[m]]
      BY <1>5, <1>6, <1>k, <2>3
    <3>2. c = B[m]
      BY <2>3
    <3> QED BY <1>3, <1>6, <2>1, <3>1, <3>2
  <2> QED BY <2>2, <2>3
<1>7. HasKey(k, sub[m]) => HasKey(k, sub[c])
  BY <1>6 DEF HasKey
<1>8. c # NIL => Cardinality(sub[c]) + (i + 1) <= N
  <2> SUFFICES ASSUME c # NIL PROVE Cardinality(sub[c]) + (i + 1) <= N
    OBVIOUS
  <2>1. c \in {A[m], B[m]} /\ c \in M
    BY <1>3
  <2>2. Cardinality(sub[c]) < Cardinality(sub[m]) /\ Cardinality(sub[m]) \in Nat
    BY <1>1, <2>1, SubtreeSize
  <2>3. Cardinality(sub[c]) \in Nat
    BY <2>1, SubtreeSize
  <2> QED BY <1>1, <2>2, <2>3
<1> QED BY <1>1, <1>3, <1>7, <1>8 DEF Searching

LEMMA SearchEnd ==
  ASSUME NEW r, NEW A, NEW B, NEW P, NEW M, NEW sub, Shape(r, A, B, P, M, sub),
         Sorted(A, B, Key, M, sub), NEW k \in Nat,
         NEW N, Cardinality(Node) = N, NEW g, SearchOf(A, B, r, k, N, g)
  PROVE  /\ g[N] # NIL => g[N] \in M /\ Key[g[N]] = k
         /\ HasKey(k, M) => g[N] # NIL
<1> DEFINE After(m) == IF m # NIL /\ k # Key[m] THEN IF k < Key[m] THEN A[m] ELSE B[m] ELSE m
           Eq(f) == f = [i \in 0 .. N |-> IF i = 0 THEN r ELSE After(f[i - 1])]
<1>g. (CHOOSE f : Eq(f)) = g
  BY Zenon DEF SearchOf
<1>n. N \in Nat
  BY NodeCount
<1>s. M \subseteq Node /\ sub[r] = M /\ r \in M \cup {NIL} /\ sub[NIL] = {}
  BY DEF Shape
<1>1. Searching(k, M, sub, N, 0, r)
  <2>1. IsFiniteSet(M) /\ Cardinality(M) <= N
    BY <1>s, RBTreeAssumption, FS_Subset
  <2>2. Cardinality(M) \in Nat
    BY <2>1, FS_CardinalityType
  <2>3. Cardinality(M) + 0 <= N
    BY <2>1, <2>2
  <2> QED BY <1>s, <2>3 DEF Searching
<1>3. ASSUME NEW m, NEW i \in Nat, Searching(k, M, sub, N, i, m)
      PROVE  Searching(k, M, sub, N, i + 1, After(m))
  <2>1. CASE ~(m # NIL /\ k # Key[m])
    <3>1. Searching(k, M, sub, N, i + 1, m)
      BY <1>3, <2>1 DEF Searching
    <3> QED BY <2>1, <3>1
  <2>2. CASE m # NIL /\ k # Key[m]
    <3> DEFINE c == IF k < Key[m] THEN A[m] ELSE B[m]
    <3>1. (IF k < Key[m] THEN A[m] ELSE B[m]) = c
      OBVIOUS
    <3> HIDE DEF c
    <3>2. Searching(k, M, sub, N, i + 1, c)
      BY <1>3, <1>n, <2>2, <3>1, SearchStep
    <3> QED BY <2>2, <3>2 DEF c
  <2> QED BY <2>1, <2>2
<1> HIDE DEF After
<1>4. \E f : Eq(f)
  <2> DEFINE V == {m \in M \cup {NIL} : \E i \in Nat : Searching(k, M, sub, N, i, m)}
             next == [m \in V |-> After(m)]
  <2>1. \A m, i : Searching(k, M, sub, N, i, m) => m \in M \cup {NIL}
    BY DEF Searching
  <2>2. r \in V
    BY <1>1, <2>1
  <2>3. next \in [V -> V]
    BY <1>3, <2>1
  <2>4. \A m \in V : next[m] = After(m)
    OBVIOUS
  <2> HIDE DEF V, next
  <2>l. PICK f : Iterates(f, N, V, r, next)
    BY <1>n, <2>2, <2>3, LoopExists
  <2>5. f \in [0 .. N -> V] /\ f[0] = r /\ \A i \in 1 .. N : f[i] = next[f[i - 1]]
    BY <2>l DEF Iterates
  <2>6. ASSUME NEW i \in 0 .. N PROVE f[i] = IF i = 0 THEN r ELSE After(f[i - 1])
    <3>1. CASE i # 0
      <4>1. i \in 1 .. N /\ i - 1 \in 0 .. N
        BY <1>n, <3>1
      <4> QED BY <2>4, <2>5, <3>1, <4>1
    <3> QED BY <2>5, <3>1
  <2>7. Eq(f)
    BY <2>5, <2>6
  <2> QED BY <2>7
<1>5. Eq(g)
  BY <1>4, <1>g
<1>6. g[0] = r /\ \A i \in 1 .. N : g[i] = After(g[i - 1])
  BY <1>5, <1>n
<1>7. Searching(k, M, sub, N, N, g[N])
  <2> DEFINE T == {i \in Nat : Searching(k, M, sub, N, i, g[i])}
  <2>1. 0 \in T
    BY <1>1, <1>6
  <2>2. ASSUME NEW i \in 0 .. N - 1, i \in T PROVE i + 1 \in T
    <3>1. i \in Nat /\ i + 1 \in 1 .. N /\ (i + 1) - 1 = i
      BY <1>n
    <3>2. g[i + 1] = After(g[i])
      BY <1>6, <3>1
    <3> QED BY <1>3, <2>2, <3>1, <3>2
  <2> HIDE DEF T
  <2>3. N \in T
    BY <1>n, <2>1, <2>2, IntervalInduction
  <2> QED BY <2>3 DEF T
<1> DEFINE m == g[N]
<1>8. /\ m \in M \cup {NIL} /\ (HasKey(k, M) => HasKey(k, sub[m]))
      /\ m # NIL /\ k # Key[m] => Cardinality(sub[m]) + N <= N
  BY <1>7 DEF Searching
<1> HIDE DEF m
<1>9. ASSUME m # NIL PROVE m \in M /\ Key[m] = k
  <2>1. m \in M
    BY <1>8, <1>9
  <2>2. m \in sub[m]
    BY <2>1, Parents
  <2>3. sub[m] \subseteq Node
    BY <1>s, <2>1 DEF Shape, D
  <2>4. 0 < Cardinality(sub[m]) /\ Cardinality(sub[m]) \in Nat
    BY <2>2, <2>3, Larger, FS_EmptySet
  <2> QED BY <1>8, <1>9, <1>n, <2>1, <2>4
<1>10. HasKey(k, M) => m # NIL
  BY <1>8, <1>s DEF HasKey
<1> QED BY <1>9, <1>10 DEF m

\* rbtree_search returns a member with the key exactly when there is one.
Found(k, M, n) == IF HasKey(k, M) THEN n \in M /\ Key[n] = k ELSE n = NULL

LEMMA SearchFinds ==
  ASSUME NEW t, NEW M, NEW sub, TreeFrom("left", t, M, sub), NEW k \in Nat
  PROVE  Found(k, M, rbtree_search(t, k))
<1> DEFINE N == Cardinality(Node)
           A == t.left
           B == t.right
           r == t.root
           g == CHOOSE f : f = [i \in 0 .. N |-> IF i = 0 THEN r
                     ELSE IF f[i - 1] # NIL /\ k # Key[f[i - 1]]
                          THEN IF k < Key[f[i - 1]] THEN A[f[i - 1]] ELSE B[f[i - 1]]
                          ELSE f[i - 1]]
           m == g[N]
<1>1. rbtree_search(t, k) = IF m = NIL THEN NULL ELSE m
  BY Zenon DEF rbtree_search, While
<1>2. Cardinality(Node) = N /\ SearchOf(A, B, r, k, N, g)
  BY Zenon DEF SearchOf
<1>3. Shape(r, A, B, t.parent, M, sub) /\ Sorted(A, B, Key, M, sub)
  BY KeyTypes DEF TreeFrom, ShapeFrom, Opposite
<1> HIDE DEF N, A, B, r, g
<1>4. /\ m # NIL => m \in M /\ Key[m] = k
      /\ HasKey(k, M) => m # NIL
  BY <1>2, <1>3, SearchEnd
<1> HIDE DEF m
<1>5. m # NIL => HasKey(k, M)
  BY <1>4 DEF HasKey
<1> QED BY <1>1, <1>4, <1>5 DEF Found

-----------------------------------------------------------------------------
(* What a red-black tree promises.                                         *)

BlackAncestors(n, C, M, sub) == {a \in Ancestors(n, M, sub) : C[a] = "BLACK"}

\* Going down to a child adds the child to the ancestors.
LEMMA ChildAncestors ==
  ASSUME NEW r, NEW A, NEW B, NEW P, NEW M, NEW sub, Shape(r, A, B, P, M, sub),
         NEW n \in M, NEW c \in {A[n], B[n]}, c # NIL
  PROVE  /\ c \in M /\ c \notin Ancestors(n, M, sub)
         /\ Ancestors(c, M, sub) = Ancestors(n, M, sub) \cup {c}
<1>1. At(n, A, B, P, M, sub)
  BY DEF Shape
<1>2. c \in M /\ P[c] = n
  BY <1>1 DEF At
<1>3. c \in sub[c]
  BY <1>2, Parents
<1>4. c \in sub[n] /\ c # n
  BY <1>1, <1>3 DEF At
<1>5. n \notin sub[c]
  BY <1>4, Subtrees
<1>6. ASSUME NEW a \in M, n \in sub[a] PROVE c \in sub[a]
  <2>1. sub[n] \subseteq sub[a]
    BY <1>6, Subtrees
  <2> QED BY <1>4, <2>1
<1>7. ASSUME NEW a \in M, c \in sub[a], a # c PROVE n \in sub[a]
  <2>1. P[c] \in sub[a]
    BY <1>7, Subtrees
  <2> QED BY <1>2, <2>1
<1> QED BY <1>2, <1>3, <1>5, <1>6, <1>7 DEF Ancestors

\* The black nodes above n and those below n make up the height of the root.
LEMMA BlackHeights ==
  ASSUME NEW r, NEW A, NEW B, NEW P, NEW M, NEW sub, Shape(r, A, B, P, M, sub),
         NEW C, NEW bh, Colored(r, A, B, C, M, bh, NIL), NEW n \in M
  PROVE  /\ Cardinality(BlackAncestors(n, C, M, sub)) \in Nat
         /\ Cardinality(BlackAncestors(n, C, M, sub)) + bh[n] = bh[r] + Black(C[n])
<1> DEFINE Up(a) == BlackAncestors(a, C, M, sub)
           T == {a \in M : Cardinality(Up(a)) + bh[a] = bh[r] + Black(C[a])}
<1>1. M \subseteq Node /\ M \subseteq D
  BY DEF Shape, D
<1>c. C \in [D -> Color] /\ bh \in [D -> Nat]
  BY DEF Colored, ColorTypes
<1>f. ASSUME NEW a PROVE IsFiniteSet(Up(a)) /\ Cardinality(Up(a)) \in Nat
  <2>1. Up(a) \subseteq Node
    BY <1>1 DEF BlackAncestors, Ancestors
  <2>2. IsFiniteSet(Up(a))
    BY <2>1, RBTreeAssumption, FS_Subset
  <2> QED BY <2>2, FS_CardinalityType
<1>2. r \in M
  BY Parents
<1>3. ASSUME NEW a \in M PROVE bh[a] \in Nat /\ C[a] \in Color /\ Black(C[a]) \in {0, 1}
  BY <1>1, <1>c DEF Black
<1>4. r \in T
  <2>1. sub[r] = M /\ r \in sub[r]
    BY <1>2 DEF Shape
  <2>2. Ancestors(r, M, sub) = {r}
    <3>1. ASSUME NEW a \in M, a # r PROVE r \notin sub[a]
      BY <1>2, <2>1, <3>1, Subtrees
    <3> QED BY <1>2, <2>1, <3>1 DEF Ancestors
  <2>3. Up(r) = IF C[r] = "BLACK" THEN {r} ELSE {}
    BY <2>2 DEF BlackAncestors
  <2>4. Cardinality(Up(r)) = Black(C[r])
    BY <2>3, FS_Singleton, FS_EmptySet DEF Black
  <2> QED BY <1>2, <1>3, <2>4
<1>5. ASSUME NEW a \in M, a \in T, NEW c \in {A[a], B[a]}, c # NIL PROVE c \in T
  <2>1. /\ c \in M /\ c \notin Ancestors(a, M, sub)
        /\ Ancestors(c, M, sub) = Ancestors(a, M, sub) \cup {c}
    BY <1>5, ChildAncestors
  <2>2. Up(c) = (IF C[c] = "BLACK" THEN Up(a) \cup {c} ELSE Up(a)) /\ c \notin Up(a)
    BY <2>1 DEF BlackAncestors
  <2>3. Cardinality(Up(a) \cup {c}) = Cardinality(Up(a)) + 1
    BY <1>f, <2>2, FS_AddElement
  <2>4. Cardinality(Up(c)) = Cardinality(Up(a)) + Black(C[c])
    BY <1>f, <2>2, <2>3 DEF Black
  <2>5. bh[a] = bh[c] + Black(C[a])
    BY <1>5 DEF Colored, HeightAt
  <2>6. Cardinality(Up(a)) + bh[a] = bh[r] + Black(C[a])
    BY <1>5
  <2>7. /\ bh[a] \in Nat /\ bh[c] \in Nat /\ bh[r] \in Nat /\ Black(C[a]) \in {0, 1}
        /\ Black(C[c]) \in {0, 1} /\ Cardinality(Up(a)) \in Nat /\ Cardinality(Up(c)) \in Nat
    BY <1>2, <1>3, <1>f, <2>1
  <2> HIDE DEF Up
  <2>8. Cardinality(Up(c)) + bh[c] = bh[r] + Black(C[c])
    BY <2>4, <2>5, <2>6, <2>7
  <2> QED BY <2>1, <2>8
<1> HIDE DEF T
<1>6. M \subseteq T
  BY <1>4, <1>5, DownInduction
<1> QED BY <1>6, <1>f DEF T

LEMMA RedBlackSearchTree ==
  ASSUME RedBlack(tree, members)
  PROVE  SearchTree
<1> DEFINE A == tree.left
           B == tree.right
           P == tree.parent
           r == tree.root
           M == members
<1>1. PICK sub, bh : TreeFrom("left", tree, M, sub) /\ ColorsFrom("left", tree, M, bh, NIL)
  BY DEF RedBlack
<1>2. /\ tree \in Trees /\ Shape(r, A, B, P, M, sub) /\ Sorted(A, B, Key, M, sub)
      /\ tree["left"] = A /\ tree["right"] = B /\ tree.color[NIL] = "BLACK"
  BY <1>1, KeyTypes DEF TreeFrom, ShapeFrom, ColorsFrom, Colored, ColorTypes, Opposite
<1>3. M \subseteq Node /\ NIL \notin M /\ NULL \notin M /\ NIL # NULL
      /\ r \in M \cup {NIL} /\ sub[r] = M /\ sub[NIL] = {}
  BY <1>2, NilNotNode DEF Shape
<1>u. ASSUME NEW n \in M PROVE Upward(n) = Ancestors(n, M, sub)
  BY <1>2, UpwardAncestors
<1>t. tree \in [root: Node \cup {NIL},
               left: [Node \cup {NIL} -> Node \cup {NIL, NULL}],
               right: [Node \cup {NIL} -> Node \cup {NIL, NULL}],
               parent: [Node \cup {NIL} -> Node \cup {NIL, NULL}],
               color: [Node \cup {NIL} -> {"RED", "BLACK"}]]
  BY <1>2 DEF Trees, D, W
<1> HIDE DEF A, B, P, r, M
<1>4. ASSUME NEW n \in M
      PROVE  /\ A[n] \in M \cup {NIL} /\ B[n] \in M \cup {NIL} /\ P[n] \in M \cup {NIL}
             /\ A[n] # NIL => P[A[n]] = n
             /\ B[n] # NIL => P[B[n]] = n
             /\ A[n] # B[n] \/ A[n] = NIL
             /\ r \in M
  <2>1. At(n, A, B, P, M, sub)
    BY <1>2 DEF Shape
  <2>2. P[n] \in M \cup {NIL} /\ r \in M
    BY <1>2, Parents
  <2>3. A[n] # NIL => A[n] \in sub[A[n]]
    <3> DEFINE c == A[n]
    <3>1. c \in M \cup {NIL}
      BY <2>1 DEF At
    <3> HIDE DEF c
    <3>2. c # NIL => c \in sub[c]
      BY <1>2, <3>1, Parents
    <3> QED BY <3>2 DEF c
  <2> QED BY <2>1, <2>2, <2>3 DEF At
<1>5. RBTypeOK
  <2>1. \A n \in M : NULL \notin {A[n], B[n], P[n]}
    BY <1>3, <1>4
  <2> QED BY <1>2, <1>3, <1>t, <2>1 DEF RBTypeOK, A, B, P, M
<1>6. M = {} <=> r = NIL
  BY <1>3
<1>7. ASSUME NEW n \in M PROVE r \in Upward(n)
  BY <1>3, <1>4, <1>u DEF Ancestors
<1>8. ASSUME NEW n \in M, NEW s \in Side
      PROVE  /\ tree[s][n] # NIL => tree[s][n] \in M /\ P[tree[s][n]] = n
             /\ \A m \in Below(n, s) : m \in sub[tree[s][n]]
  <2>1. tree[s][n] = A[n] \/ tree[s][n] = B[n]
    BY <1>2 DEF Side
  <2>2. tree[s][n] # NIL => tree[s][n] \in M /\ P[tree[s][n]] = n
    BY <1>4, <2>1
  <2>3. ASSUME NEW m \in Below(n, s) PROVE m \in sub[tree[s][n]]
    <3>1. m \in M /\ tree[s][n] # NIL /\ tree[s][n] \in Upward(m)
      BY <2>3 DEF Below, M
    <3> QED BY <1>u, <3>1 DEF Ancestors
  <2> QED BY <2>2, <2>3
<1>9. ASSUME NEW n \in M
      PROVE  /\ \A m \in Below(n, "left") : Key[m] <= Key[n]
             /\ \A m \in Below(n, "right") : Key[m] >= Key[n]
  <2>1. \A m \in Below(n, "left") : m \in sub[A[n]] /\ m \in M
    <3>1. \A m \in Below(n, "left") : m \in M
      BY DEF Below, M
    <3> QED BY <1>2, <1>8, <3>1 DEF Side
  <2>2. \A m \in Below(n, "right") : m \in sub[B[n]] /\ m \in M
    <3>1. \A m \in Below(n, "right") : m \in M
      BY DEF Below, M
    <3> QED BY <1>2, <1>8, <3>1 DEF Side
  <2>3. \A m \in M : Key[m] \in Nat
    BY <1>3, RBTreeAssumption
  <2>4. (\A m \in sub[A[n]] : Key[m] <= Key[n]) /\ (\A m \in sub[B[n]] : Key[n] <= Key[m])
    BY <1>2 DEF Sorted
  <2> QED BY <2>1, <2>2, <2>3, <2>4
<1>10. ASSUME NEW n \in M
       PROVE  /\ tree.root \in Upward(n)
              /\ \A s \in Side : tree[s][n] # NIL =>
                   tree[s][n] \in members /\ tree.parent[tree[s][n]] = n
              /\ tree.left[n] # tree.right[n] \/ tree.left[n] = NIL
              /\ \A m \in Below(n, "left") : Key[m] <= Key[n]
              /\ \A m \in Below(n, "right") : Key[m] >= Key[n]
  <2>1. tree.root \in Upward(n)
    BY <1>7 DEF r
  <2>2. \A s \in Side : tree[s][n] # NIL =>
          tree[s][n] \in members /\ tree.parent[tree[s][n]] = n
    BY <1>8 DEF M, P
  <2>3. tree.left[n] # tree.right[n] \/ tree.left[n] = NIL
    BY <1>4 DEF A, B
  <2> QED BY <1>9, <2>1, <2>2, <2>3
<1> QED BY <1>5, <1>6, <1>10 DEF SearchTree, M, r

LEMMA RedBlackBalanced ==
  ASSUME RedBlack(tree, members)
  PROVE  Balanced
<1> DEFINE A == tree.left
           B == tree.right
           P == tree.parent
           C == tree.color
           r == tree.root
           M == members
<1>1. PICK sub, bh : TreeFrom("left", tree, M, sub) /\ ColorsFrom("left", tree, M, bh, NIL)
  BY DEF RedBlack
<1>2. Shape(r, A, B, P, M, sub) /\ Colored(r, A, B, C, M, bh, NIL)
  BY <1>1 DEF TreeFrom, ShapeFrom, ColorsFrom, Opposite
<1>u. ASSUME NEW n \in M PROVE Upward(n) = Ancestors(n, M, sub)
  BY <1>2, UpwardAncestors
<1>b. ASSUME NEW n \in M PROVE Blacks(n) = Cardinality({m \in Upward(n) : C[m] = "BLACK"})
  BY DEF Blacks
<1> HIDE DEF A, B, P, C, r, M
<1>3. M \subseteq D /\ NIL \notin M /\ NIL \in D /\ r \in M \cup {NIL}
  BY <1>2, NilNotNode DEF Shape
<1>4. /\ C \in [D -> Color] /\ bh \in [D -> Nat] /\ C[NIL] = "BLACK" /\ bh[NIL] = 0
      /\ C[r] = "BLACK" \/ r = NIL
      /\ \A n \in M : HeightAt(n, A, B, C, bh) /\ ColorAt(n, A, B, C, NIL)
  BY <1>2 DEF Colored, ColorTypes
<1>5. C[r] = "BLACK"
  BY <1>4
<1>6. ASSUME NEW n \in M, C[n] = "RED", n # r PROVE C[P[n]] = "BLACK"
  <2> DEFINE p == P[n]
  <2>1. p \in M \cup {NIL} /\ (p = NIL <=> n = r) /\ (n # r => n = A[p] \/ n = B[p])
    BY <1>2, Parents
  <2> HIDE DEF p
  <2>2. p \in M /\ (n = A[p] \/ n = B[p])
    BY <1>6, <2>1
  <2>3. ColorAt(p, A, B, C, NIL) /\ C[p] \in Color /\ n # NIL
    BY <1>3, <1>4, <2>2
  <2>4. C[p] = "BLACK"
    BY <1>6, <2>2, <2>3 DEF ColorAt, Color
  <2> QED BY <2>4 DEF p
<1>7. ASSUME NEW n \in M, NIL \in {A[n], B[n]} PROVE Blacks(n) = bh[r]
  <2>1. Blacks(n) = Cardinality(BlackAncestors(n, C, M, sub))
    BY <1>b, <1>u DEF BlackAncestors
  <2>2. /\ Cardinality(BlackAncestors(n, C, M, sub)) \in Nat
        /\ Cardinality(BlackAncestors(n, C, M, sub)) + bh[n] = bh[r] + Black(C[n])
    BY <1>2, BlackHeights
  <2>3. bh[n] = 0 + Black(C[n])
    BY <1>4, <1>7 DEF HeightAt
  <2>4. bh[r] \in Nat /\ Black(C[n]) \in {0, 1}
    BY <1>3, <1>4 DEF Black
  <2> QED BY <2>1, <2>2, <2>3, <2>4
<1>8. tree.color[tree.root] = "BLACK"
  BY <1>5 DEF C, r
<1>9. \A n \in members : tree.color[n] = "RED" /\ n # tree.root => tree.color[tree.parent[n]] = "BLACK"
  BY <1>6 DEF M, C, P, r
<1>10. \A n, m \in members :
         NIL \in {tree.left[n], tree.right[n]} /\ NIL \in {tree.left[m], tree.right[m]}
           => Blacks(n) = Blacks(m)
  BY <1>7 DEF M, A, B
<1> QED BY <1>8, <1>9, <1>10 DEF Balanced

LEMMA RedBlackLookups ==
  ASSUME RedBlack(tree, members)
  PROVE  LookupsCorrect
<1>1. PICK sub, bh : TreeFrom("left", tree, members, sub) /\ ColorsFrom("left", tree, members, bh, NIL)
  BY DEF RedBlack
<1>2. members \subseteq Node /\ tree.root \in members \cup {NIL} /\ sub[tree.root] = members
      /\ sub[NIL] = {}
  BY <1>1 DEF TreeFrom, ShapeFrom, Shape
<1>3. ASSUME NEW k \in {Key[n] : n \in Node} PROVE Found(k, members, rbtree_search(tree, k))
  <2>1. k \in Nat
    BY RBTreeAssumption
  <2> QED BY <1>1, <2>1, SearchFinds
<1>4. ASSUME NEW k \in {Key[n] : n \in Node}
      PROVE  LET r == rbtree_search(tree, k)
             IN  IF \E n \in members : Key[n] = k THEN r \in members /\ Key[r] = k
                 ELSE r = NULL
  BY <1>3 DEF Found, HasKey
<1>5. ASSUME members # {}, NEW n \in members
      PROVE  /\ Key[rbtree_minimum(tree, tree.root)] <= Key[n]
             /\ Key[rbtree_maximum(tree, tree.root)] >= Key[n]
  <2> DEFINE r == tree.root
             y == rbtree_minimum(tree, r)
             w == rbtree_maximum(tree, r)
  <2>1. r \in members /\ sub[r] = members
    BY <1>2
  <2> HIDE DEF r, y, w
  <2>2. Least(tree.left, Key, sub, r, y)
    BY <1>1, <2>1, MinimumLeast DEF y
  <2>3. Least(tree.right, Neg(Key), sub, r, w)
    BY <1>1, <2>1, MaximumLeast DEF w
  <2>4. Key[y] <= Key[n]
    BY <2>1, <2>2 DEF Least
  <2>5. w \in Node /\ n \in Node /\ Neg(Key)[w] <= Neg(Key)[n]
    BY <1>2, <2>1, <2>3 DEF Least
  <2>6. Key[w] >= Key[n]
    BY <2>5, RBTreeAssumption DEF Neg
  <2> QED BY <2>4, <2>6 DEF y, w, r
<1> QED BY <1>4, <1>5 DEF LookupsCorrect

-----------------------------------------------------------------------------
(* The theorems.                                                           *)

\* rbtree_insert and rbtree_delete, with every case of their fix-up loops, keep the
\* tree a red-black tree of exactly the members, for any number of nodes and any
\* keys, equal ones included: this is the inductive invariant of the three
\* theorems below.
THEOREM StaysRedBlack == RBSpec => []RedBlack(tree, members)
<1>1. RBInit => RedBlack(tree, members)
  BY EmptyRedBlack
<1>2. RedBlack(tree, members) /\ [RBNext]_rbVars => RedBlack(tree, members)'
  <2> SUFFICES ASSUME RedBlack(tree, members), [RBNext]_rbVars PROVE RedBlack(tree', members')
    OBVIOUS
  <2>1. ASSUME NEW z \in Node, rbtree_insert(z) PROVE RedBlack(tree', members')
    BY <2>1, InsertKeeps
  <2>2. ASSUME NEW z \in Node, rbtree_delete(z) PROVE RedBlack(tree', members')
    BY <2>2, DeleteKeeps
  <2>3. ASSUME UNCHANGED rbVars PROVE RedBlack(tree', members')
    BY <2>3 DEF rbVars
  <2> QED BY <2>1, <2>2, <2>3 DEF RBNext
<1> QED BY <1>1, <1>2, PTL DEF RBSpec

\* After any sequence of rbtree_insert and rbtree_delete the pointers form one search
\* tree of exactly the members, with parent pointers that agree.
THEOREM SearchTreeHolds == RBSpec => []SearchTree
<1>1. RedBlack(tree, members) => SearchTree
  BY RedBlackSearchTree
<1> QED BY <1>1, StaysRedBlack, PTL

\* After any sequence of rbtree_insert and rbtree_delete the root is black, no red node
\* has a red child, and every way down passes the same number of black nodes.
THEOREM BalancedHolds == RBSpec => []Balanced
<1>1. RedBlack(tree, members) => Balanced
  BY RedBlackBalanced
<1> QED BY <1>1, StaysRedBlack, PTL

\* rbtree_search finds a node with the key exactly when the tree has one, and
\* rbtree_minimum and rbtree_maximum return a least and a greatest key.
THEOREM LookupsCorrectHolds == RBSpec => []LookupsCorrect
<1>1. RedBlack(tree, members) => LookupsCorrect
  BY RedBlackLookups
<1> QED BY <1>1, StaysRedBlack, PTL
=============================================================================
