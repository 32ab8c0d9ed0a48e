------------------------------- MODULE RBTree -------------------------------
(***************************************************************************)
(* The red-black tree of src/kernel/kerstd/rbtree.c.  The code has every   *)
(* fix-up case twice, for the left and for the right side; here a case is  *)
(* written once for a side s and the other side Opposite(s).  A `while'    *)
(* loop is iterated Cardinality(Node) times, more than the depth of any    *)
(* tree; an iteration whose condition is false changes nothing.            *)
(***************************************************************************)
EXTENDS Integers, FiniteSets

CONSTANTS
  Node,   \* the RBTNode structures of the callers
  Key     \* the key of each node; keys may repeat

ASSUME RBTreeAssumption ==
  /\ Node \subseteq Nat \ {0} /\ IsFiniteSet(Node)
  /\ Key \in [Node -> Nat]

VARIABLES
  tree,     \* the tree, with the fields of its nodes
  members   \* history: the nodes inserted and not deleted

rbVars == <<tree, members>>

NIL  == 0       \* the sentinel tree->nil
NULL == -1
Side == {"left", "right"}
Opposite(s) == IF s = "left" THEN "right" ELSE "left"

RBTypeOK ==
  /\ tree \in [root: Node \cup {NIL},
               left: [Node \cup {NIL} -> Node \cup {NIL, NULL}],
               right: [Node \cup {NIL} -> Node \cup {NIL, NULL}],
               parent: [Node \cup {NIL} -> Node \cup {NIL, NULL}],
               color: [Node \cup {NIL} -> {"RED", "BLACK"}]]
  /\ tree.color[NIL] = "BLACK"
  /\ members \subseteq Node
  /\ \A n \in members : NULL \notin {tree.left[n], tree.right[n], tree.parent[n]}

rbtree_init ==
  tree = [root |-> NIL,
          left |-> [n \in Node \cup {NIL} |-> NULL],
          right |-> [n \in Node \cup {NIL} |-> NULL],
          parent |-> [n \in Node \cup {NIL} |-> NULL],
          color |-> [n \in Node \cup {NIL} |-> "BLACK"]]

\* The assignment `n->f = v'.
Put(t, f, n, v) == [t EXCEPT ![f][n] = v]
Paint(t, n, c)  == Put(t, "color", n, c)

\* The side of its parent that n is on (`n == n->parent->left').
SideOf(t, n) == IF n = t.left[t.parent[n]] THEN "left" ELSE "right"

\* The pointer to x, in its parent or the root, is set to y.
Replace(t, x, y) ==
  IF t.parent[x] = NIL THEN [t EXCEPT !.root = y]
  ELSE Put(t, SideOf(t, x), t.parent[x], y)

\* The result of at most Cardinality(Node) iterations from a state.
While(start, Test(_), Body(_)) ==
  LET after[k \in 0 .. Cardinality(Node)] ==
        IF k = 0 THEN start
        ELSE LET st == after[k - 1] IN IF Test(st) THEN Body(st) ELSE st
  IN  after[Cardinality(Node)]

-----------------------------------------------------------------------------
(* Rotations.                                                              *)

\* Mutant: the subtree that changes sides keeps its old parent.
rotate_keeps_parent(t, s, x) ==
  LET y  == t[Opposite(s)][x]
      t1 == Put(t, Opposite(s), x, t[s][y])
      t2 == Replace(Put(t1, "parent", y, t.parent[x]), x, y)
  IN  Put(Put(t2, s, y, x), "parent", x, y)

\* The subtree b, if there is one, gets the parent x.
Adopt(t, x, b) == IF b = NIL THEN t ELSE Put(t, "parent", b, x)

\* rbtree_left_rotate for s = "left", rbtree_right_rotate for s = "right".
rbtree_rotate(t, s, x) ==
  LET y  == t[Opposite(s)][x]
      b  == t[s][y]
      t1 == Adopt(Put(t, Opposite(s), x, b), x, b)
      t2 == Replace(Put(t1, "parent", y, t.parent[x]), x, y)
  IN  Put(Put(t2, s, y, x), "parent", x, y)

-----------------------------------------------------------------------------
(* Insertion.                                                              *)

\* Case 2 of the fix-up: an inner grandchild z is rotated out; p is the new z.
RotateOut(st, s) ==
  LET p == st.t.parent[st.z]
  IN  IF st.z = st.t[Opposite(s)][p] THEN [t |-> rbtree_rotate(st.t, s, p), z |-> p] ELSE st

\* Case 3: the parent takes the place of the grandparent.
RaiseParent(st, s) ==
  LET p == st.t.parent[st.z]
      g == st.t.parent[p]
      t == Paint(Paint(st.t, p, "BLACK"), g, "RED")
  IN  [t |-> rbtree_rotate(t, Opposite(s), g), z |-> st.z]

\* One iteration of rbtree_insert_fixup at node z; case 1 has a red uncle u.
InsertCase(st) ==
  LET p == st.t.parent[st.z]
      g == st.t.parent[p]
      s == SideOf(st.t, p)
      u == st.t[Opposite(s)][g]
  IN  IF st.t.color[u] = "RED"
      THEN [t |-> Paint(Paint(Paint(st.t, p, "BLACK"), u, "BLACK"), g, "RED"), z |-> g]
      ELSE RaiseParent(RotateOut(st, s), s)

\* Mutant: the root may stay red.
fixup_leaves_root(t, z) ==
  LET st == While([t |-> t, z |-> z],
                  LAMBDA q : q.t.color[q.t.parent[q.z]] = "RED", InsertCase)
  IN  st.t

rbtree_insert_fixup(t, z) ==
  LET st == While([t |-> t, z |-> z],
                  LAMBDA q : q.t.color[q.t.parent[q.z]] = "RED", InsertCase)
  IN  Paint(st.t, st.t.root, "BLACK")

\* The node under which key k is inserted.
InsertionPoint(t, k) ==
  LET st == While([x |-> t.root, y |-> NIL],
                  LAMBDA q : q.x # NIL,
                  LAMBDA q : [x |-> IF k < Key[q.x] THEN t.left[q.x] ELSE t.right[q.x],
                              y |-> q.x])
  IN  st.y

rbtree_insert(z) ==
  LET y  == InsertionPoint(tree, Key[z])
      t1 == Put(tree, "parent", z, y)
      t2 == IF y = NIL THEN [t1 EXCEPT !.root = z]
            ELSE Put(t1, IF Key[z] < Key[y] THEN "left" ELSE "right", y, z)
      t3 == Put(Put(t2, "left", z, NIL), "right", z, NIL)
  IN  /\ z \notin members
      /\ tree' = rbtree_insert_fixup(Paint(t3, z, "RED"), z)
      /\ members' = members \cup {z}

-----------------------------------------------------------------------------
(* Deletion.                                                               *)

\* The sibling of x, which is on side s of its parent.
Sibling(t, s, x) == t[Opposite(s)][t.parent[x]]

\* Case 1 of the fix-up: a red sibling of x changes places with the parent.
RaiseRedSibling(t, s, x) ==
  LET p == t.parent[x]
      w == Sibling(t, s, x)
  IN  IF t.color[w] = "RED" THEN rbtree_rotate(Paint(Paint(t, w, "BLACK"), p, "RED"), s, p)
      ELSE t

\* Case 3: with a black far nephew, the near one becomes the sibling.
RaiseNearNephew(t, s, x) ==
  LET o == Opposite(s)
      w == Sibling(t, s, x)
  IN  IF t.color[t[o][w]] = "BLACK"
      THEN rbtree_rotate(Paint(Paint(t, t[s][w], "BLACK"), w, "RED"), o, w)
      ELSE t

\* Case 4: the sibling takes the place of the parent.
RaiseSibling(t, s, x) ==
  LET p == t.parent[x]
      w == Sibling(t, s, x)
      u == Paint(Paint(t, w, t.color[p]), p, "BLACK")
  IN  rbtree_rotate(Paint(u, u[Opposite(s)][w], "BLACK"), s, p)

\* One iteration of rbtree_delete_fixup at node x; case 2 has two black nephews.
DeleteCase(st) ==
  LET x == st.x
      s == SideOf(st.t, x)
      t == RaiseRedSibling(st.t, s, x)
      w == Sibling(t, s, x)
      u == RaiseSibling(RaiseNearNephew(t, s, x), s, x)
  IN  IF t.color[t.left[w]] = "BLACK" /\ t.color[t.right[w]] = "BLACK"
      THEN [t |-> Paint(t, w, "RED"), x |-> t.parent[x]]
      ELSE [t |-> u, x |-> u.root]

rbtree_delete_fixup(t, x) ==
  LET st == While([t |-> t, x |-> x],
                  LAMBDA q : q.x # q.t.root /\ q.t.color[q.x] = "BLACK", DeleteCase)
  IN  Paint(st.t, st.x, "BLACK")

\* Mutant: the walk stops one node early.
stop_above_minimum(t, n) ==
  While(n, LAMBDA m : t.left[m] # NIL /\ t.left[t.left[m]] # NIL, LAMBDA m : t.left[m])

rbtree_minimum(t, n) == While(n, LAMBDA m : t.left[m] # NIL, LAMBDA m : t.left[m])

rbtree_maximum(t, n) == While(n, LAMBDA m : t.right[m] # NIL, LAMBDA m : t.right[m])

\* z has one child at most: x takes its place.
Splice(t, z, x) == Put(Replace(t, z, x), "parent", x, t.parent[z])

\* z has two children: its successor y is taken out and put in its place.
PutSuccessor(t, z, y) ==
  LET x  == t.right[y]
      t1 == Splice(t, y, x)
      t2 == Put(t1, "right", y, t1.right[z])
      t3 == IF t.parent[y] = z THEN Put(t, "parent", x, y)
            ELSE Put(t2, "parent", t2.right[y], y)
      t4 == Put(Replace(t3, z, y), "parent", y, t3.parent[z])
      t5 == Put(t4, "left", y, t4.left[z])
  IN  Paint(Put(t5, "parent", t5.left[y], y), y, t5.color[z])

\* The fields of the deleted node, which now belongs to its caller.
Forget(t, z) ==
  Paint(Put(Put(Put(t, "left", z, NULL), "right", z, NULL), "parent", z, NULL), z, "BLACK")

rbtree_delete(z) ==
  LET one == tree.left[z] = NIL \/ tree.right[z] = NIL
      y   == IF one THEN z ELSE rbtree_minimum(tree, tree.right[z])
      x   == IF one /\ tree.left[z] # NIL THEN tree.left[z] ELSE tree.right[y]
      t   == IF one THEN Splice(tree, z, x) ELSE PutSuccessor(tree, z, y)
  IN  /\ z \in members
      /\ tree' = Forget(IF tree.color[y] = "BLACK" THEN rbtree_delete_fixup(t, x) ELSE t, z)
      /\ members' = members \ {z}

rbtree_search(t, k) ==
  LET n == While(t.root, LAMBDA m : m # NIL /\ k # Key[m],
                 LAMBDA m : IF k < Key[m] THEN t.left[m] ELSE t.right[m])
  IN  IF n = NIL THEN NULL ELSE n

RBInit == rbtree_init /\ members = {}
RBNext == \E z \in Node : rbtree_insert(z) \/ rbtree_delete(z)
RBSpec == RBInit /\ [][RBNext]_rbVars

-----------------------------------------------------------------------------
(* What the tree promises.                                                 *)

\* The nodes from n up to the root, by the parent pointers.
Upward(n) ==
  While({n}, LAMBDA up : TRUE,
        LAMBDA up : up \cup {tree.parent[m] : m \in up \ {NIL}}) \ {NIL}

\* The nodes of the subtree on side s of n.
Below(n, s) ==
  {m \in members : tree[s][n] # NIL /\ tree[s][n] \in Upward(m)}

\* After any sequence of insertions and deletions the pointers form one tree of
\* exactly the members, every child points back to its parent, and keys are in
\* search order, equal keys on either side.
SearchTree ==
  /\ RBTypeOK
  /\ members = {} <=> tree.root = NIL
  /\ \A n \in members :
       /\ tree.root \in Upward(n)
       /\ \A s \in Side : tree[s][n] # NIL =>
            tree[s][n] \in members /\ tree.parent[tree[s][n]] = n
       /\ tree.left[n] # tree.right[n] \/ tree.left[n] = NIL
       /\ \A m \in Below(n, "left") : Key[m] <= Key[n]
       /\ \A m \in Below(n, "right") : Key[m] >= Key[n]

Blacks(n) == Cardinality({m \in Upward(n) : tree.color[m] = "BLACK"})

\* The tree stays balanced through every case of the two fix-up loops: the root is
\* black, no red node has a red child, and all ways down from the root to a
\* missing child pass the same number of black nodes.
Balanced ==
  /\ tree.color[tree.root] = "BLACK"
  /\ \A n \in members : tree.color[n] = "RED" /\ n # tree.root =>
       tree.color[tree.parent[n]] = "BLACK"
  /\ \A n, m \in members :
       NIL \in {tree.left[n], tree.right[n]} /\ NIL \in {tree.left[m], tree.right[m]}
         => Blacks(n) = Blacks(m)

\* A search finds a node with the key exactly when one is in the tree, also when
\* a rotation has moved equal keys to both sides of a node; minimum and maximum
\* return a least and a greatest key.
LookupsCorrect ==
  /\ \A k \in {Key[n] : n \in Node} :
       LET r == rbtree_search(tree, k)
       IN  IF \E n \in members : Key[n] = k THEN r \in members /\ Key[r] = k
           ELSE r = NULL
  /\ members # {} =>
       \A n \in members : /\ Key[rbtree_minimum(tree, tree.root)] <= Key[n]
                          /\ Key[rbtree_maximum(tree, tree.root)] >= Key[n]
=============================================================================
