------------------------ MODULE ProcessManagerProofs ------------------------
(***************************************************************************)
(* TLAPS proofs about the process manager, for every number of slots,      *)
(* priority levels, slice and clock width: the queues, the slots, the one  *)
(* running process, strict priority dispatch, and the refinement of the    *)
(* abstract process table.                                                 *)
(***************************************************************************)
EXTENDS ProcessManager, NatRecursion, FiniteSetTheorems

-----------------------------------------------------------------------------
(* Linked lists.  `home' tells for every PCB the head of the queue it is   *)
(* on, or NULL.                                                            *)

Link  == [Cell -> Pid \cup {NULL}]
Homes == [Pid -> Head \cup {NULL}]

HomeOf(home, c) == IF c \in Pid THEN home[c] ELSE c

\* What QueueIntegrity says, for any link and any assignment of queues.
Linked(link, home) ==
  /\ link \in Link
  /\ home \in Homes
  /\ \A c \in Cell : link[c] # NULL =>
       /\ home[link[c]] = HomeOf(home, c)
       /\ home[link[c]] # NULL
       /\ c \in Pid => c < link[c]
  /\ \A p \in Pid : home[p] # NULL => \E c \in Cell : link[c] = p
  /\ \A c, d \in Cell : link[c] = link[d] /\ link[c] # NULL => c = d

LEMMA Sizes ==
  /\ PROCESS_MAX_COUNT \in Nat /\ PROCESS_MAX_COUNT # 0
  /\ Pid \subseteq Nat /\ Pid \subseteq Cell /\ NULL \notin Pid /\ NULL \notin Cell
  /\ Head \subseteq Cell /\ Head \cap Pid = {}
  /\ BlockedQ \in Head /\ TerminatedQ \in Head /\ BlockedQ # TerminatedQ
  /\ \A i \in Prio : ReadyQ(i) \in Head /\ ReadyQ(i) # BlockedQ /\ ReadyQ(i) # TerminatedQ
BY ManagerAssumption DEF Pid, Cell, Head, NULL, BlockedQ, TerminatedQ, Prio, ReadyQ

\* A list leaves out none of its members: from the head, or from any member
\* before p, the next member is there and is not beyond p.
LEMMA NoSkip ==
  ASSUME NEW link, NEW home, Linked(link, home), NEW p \in Pid,
         NEW x \in Cell, HomeOf(home, x) = home[p], home[p] # NULL, x \in Pid => x < p
  PROVE  link[x] # NULL /\ link[x] <= p
<1> DEFINE Bad(y, r) == /\ home[r] # NULL /\ HomeOf(home, y) = home[r] /\ (y \in Pid => y < r)
                        /\ ~(link[y] # NULL /\ link[y] <= r)
           T == {r \in Pid : \E y \in Cell : Bad(y, r)}
<1> SUFFICES ASSUME T # {} PROVE FALSE
  OBVIOUS
<1>1. T \subseteq Nat
  BY Sizes
<1>2. PICK m \in T : \A r \in T : m <= r
  BY <1>1, LeastNat
<1>3. PICK y \in Cell : Bad(y, m)
  BY <1>2
<1>4. \A r \in Pid, z \in Cell : r < m => ~Bad(z, r)
  BY <1>1, <1>2, Sizes
<1>5. PICK z \in Cell : link[z] = m
  BY <1>3 DEF Linked
<1>6. m \in Pid /\ m # NULL /\ home[m] # NULL
  BY <1>3, Sizes
<1>7. HomeOf(home, z) = home[m] /\ (z \in Pid => z < m)
  BY <1>5, <1>6 DEF Linked
<1>8. y # z
  BY <1>3, <1>5, <1>6, Sizes
<1>9. home[m] \in Head /\ link[y] \in Pid \cup {NULL}
  BY <1>6 DEF Linked, Homes, Link
<1>10. ASSUME z \in Pid, y \in Pid => y < z PROVE FALSE
  <2>1. ~Bad(y, z) /\ z < m
    BY <1>4, <1>7, <1>10
  <2>2. home[z] = home[m]
    BY <1>7, <1>10 DEF HomeOf
  <2>3. link[y] # NULL /\ link[y] <= z
    BY <1>3, <1>10, <2>1, <2>2
  <2>4. link[y] \in Nat /\ z \in Nat /\ m \in Nat
    BY <1>6, <1>9, <1>10, <2>3, Sizes
  <2>5. link[y] <= m
    BY <2>1, <2>3, <2>4
  <2> QED BY <1>3, <2>3, <2>5
<1>11. ASSUME y \in Pid, z \in Pid => z < y PROVE FALSE
  <2>1. ~Bad(z, y) /\ y < m
    BY <1>3, <1>4, <1>11
  <2>2. home[y] = home[m]
    BY <1>3, <1>11 DEF HomeOf
  <2>3. m <= y
    BY <1>5, <1>6, <1>7, <1>11, <2>1, <2>2
  <2> QED BY <1>6, <1>11, <2>1, <2>3, Sizes
<1>12. CASE y \in Pid /\ z \in Pid
  <2>1. y < z \/ z < y
    BY <1>8, <1>12, Sizes
  <2> QED BY <1>10, <1>11, <1>12, <2>1
<1>13. CASE y \notin Pid /\ z \notin Pid
  BY <1>3, <1>7, <1>8, <1>13 DEF HomeOf
<1> QED BY <1>10, <1>11, <1>12, <1>13

-----------------------------------------------------------------------------
(* The loops.                                                              *)

LEMMA StepsIs ==
  ASSUME NEW link \in Link, NEW q \in Cell, NEW pass, pass \subseteq Pid
  PROVE  /\ Steps(link, q, pass) \in [0 .. PROCESS_MAX_COUNT -> Cell]
         /\ Steps(link, q, pass)[0] = q
         /\ \A k \in 0 .. PROCESS_MAX_COUNT - 1 :
              Steps(link, q, pass)[k + 1] =
                IF link[Steps(link, q, pass)[k]] \in pass
                THEN link[Steps(link, q, pass)[k]] ELSE Steps(link, q, pass)[k]
<1> DEFINE N == PROCESS_MAX_COUNT
           go == [x \in (1 .. N) \X Cell |->
                    IF link[x[2]] \in pass THEN link[x[2]] ELSE x[2]]
           Is(f) == f = [k \in 0 .. N |-> IF k = 0 THEN q
                     ELSE LET c == f[k - 1] IN IF link[c] \in pass THEN link[c] ELSE c]
<1>1. N \in Nat
  BY Sizes
<1>2. IsLoopStep(go, N, Cell)
  <2>1. \A c \in Cell : (IF link[c] \in pass THEN link[c] ELSE c) \in Cell
    BY Sizes
  <2>2. \A x \in (1 .. N) \X Cell : x[2] \in Cell
    OBVIOUS
  <2> QED BY <2>1, <2>2 DEF IsLoopStep
<1>3. \A k \in 1 .. N, c \in Cell : go[<<k, c>>] = IF link[c] \in pass THEN link[c] ELSE c
  OBVIOUS
<1> HIDE DEF go, N
<1>4. PICK f : IsLoop(f, N, Cell, q, go)
  BY <1>1, <1>2, LoopFunction
<1>5. f \in [0 .. N -> Cell] /\ f = [k \in 0 .. N |-> IF k = 0 THEN q ELSE go[<<k, f[k - 1]>>]]
  BY <1>4 DEF IsLoop
<1>6. Is(f)
  <2>1. ASSUME NEW k \in 0 .. N, k # 0
        PROVE  go[<<k, f[k - 1]>>] = LET c == f[k - 1] IN IF link[c] \in pass THEN link[c] ELSE c
    <3>1. k \in 1 .. N /\ k - 1 \in 0 .. N
      BY <1>1, <2>1
    <3> QED BY <1>3, <1>5, <3>1
  <2> QED BY <1>5, <2>1
<1>7. Steps(link, q, pass) = CHOOSE g : Is(g)
  BY DEF Steps, N
<1> DEFINE s == Steps(link, q, pass)
<1>8. Is(s)
  BY <1>6, <1>7
<1>9. s = [k \in 0 .. N |-> IF k = 0 THEN q
            ELSE LET c == s[k - 1] IN IF link[c] \in pass THEN link[c] ELSE c]
  BY <1>8
<1> HIDE DEF s
<1>10. s[0] = q
  BY <1>1, <1>9
<1>11. ASSUME NEW k \in 0 .. N - 1
       PROVE  s[k + 1] = IF link[s[k]] \in pass THEN link[s[k]] ELSE s[k]
  <2>1. k + 1 \in 0 .. N /\ k + 1 # 0 /\ (k + 1) - 1 = k
    BY <1>1
  <2> QED BY <1>9, <2>1
<1> DEFINE S == {k \in 0 .. N : s[k] \in Cell}
<1>12. 0 \in S
  BY <1>1, <1>10
<1>13. ASSUME NEW k \in 0 .. N - 1, k \in S PROVE k + 1 \in S
  <2>1. k + 1 \in 0 .. N /\ s[k] \in Cell
    BY <1>1, <1>13
  <2>2. s[k + 1] \in Cell
    BY <1>11, <2>1, Sizes
  <2> QED BY <2>1, <2>2
<1> HIDE DEF S
<1>14. 0 .. N \subseteq S
  BY <1>1, <1>12, <1>13, IntervalInduction
<1>15. s \in [0 .. N -> Cell]
  BY <1>9, <1>14 DEF S
<1> QED BY <1>10, <1>11, <1>15 DEF s, N

\* Where a walk stops: on the list of q, at a cell whose target does not pass,
\* with every member up to that cell passed.
LEMMA WalkStops ==
  ASSUME NEW link, NEW home, Linked(link, home), NEW q \in Head,
         NEW pass, pass \subseteq Pid
  PROVE  LET c == Walk(link, q, pass)
         IN  /\ c \in Cell /\ HomeOf(home, c) = q /\ link[c] \notin pass
             /\ \A r \in Pid : home[r] = q /\ c \in Pid /\ r <= c => r \in pass
<1> DEFINE N == PROCESS_MAX_COUNT
           s == Steps(link, q, pass)
           OnQ(c) == /\ HomeOf(home, c) = q
                     /\ \A r \in Pid : home[r] = q /\ c \in Pid /\ r <= c => r \in pass
           S == {k \in 0 .. N : /\ OnQ(s[k])
                                /\ link[s[k]] \notin pass \/ k = 0 \/ (s[k] \in Pid /\ s[k] >= k - 1)}
<1>1. N \in Nat /\ N # 0 /\ q \in Cell /\ link \in Link /\ q \notin Pid /\ q # NULL
  BY Sizes DEF Linked
<1>2. /\ s \in [0 .. N -> Cell]
      /\ s[0] = q
      /\ \A k \in 0 .. N - 1 : s[k + 1] = IF link[s[k]] \in pass THEN link[s[k]] ELSE s[k]
  BY <1>1, StepsIs
<1> HIDE DEF s, N
<1>3. 0 \in S
  BY <1>1, <1>2 DEF HomeOf
<1>4. ASSUME NEW k \in 0 .. N - 1, k \in S PROVE k + 1 \in S
  <2>1. k + 1 \in 0 .. N /\ k \in 0 .. N /\ s[k] \in Cell /\ k \in Nat
    BY <1>1, <1>2
  <2>2. CASE link[s[k]] \notin pass
    <3>1. s[k + 1] = s[k]
      BY <1>2, <2>2
    <3> QED BY <1>4, <2>1, <2>2, <3>1
  <2>3. CASE link[s[k]] \in pass
    <3> DEFINE c == s[k]
               d == link[c]
    <3>1. s[k + 1] = d /\ d \in Pid /\ d \in Nat /\ d # NULL /\ c \in Cell
      BY <1>2, <2>1, <2>3, Sizes
    <3>2. home[d] = HomeOf(home, c) /\ (c \in Pid => c < d)
      BY <3>1 DEF Linked
    <3>3. OnQ(c)
      BY <1>4
    <3> HIDE DEF c
    <3>4. HomeOf(home, d) = q /\ home[d] = q
      BY <3>1, <3>2, <3>3 DEF HomeOf
    <3>5. ASSUME NEW r \in Pid, home[r] = q, r <= d PROVE r \in pass
      <4>1. CASE r = d
        BY <2>3, <4>1 DEF c
      <4>2. CASE r # d
        <5>1. r \in Nat /\ d \in Nat /\ ~(d <= r)
          <6>1. r \in Nat
            BY Sizes
          <6> QED BY <3>1, <3>5, <4>2, <6>1
        <5>2. c \in Pid /\ ~(c < r)
          <6>1. ~(c \in Pid => c < r)
            BY <1>1, <3>1, <3>3, <3>5, <5>1, NoSkip
          <6> QED BY <6>1
        <5>3. r <= c
          BY <5>1, <5>2, Sizes
        <5> QED BY <3>3, <3>5, <5>2, <5>3
      <4> QED BY <4>1, <4>2
    <3>6. d >= (k + 1) - 1
      <4>1. CASE k = 0
        BY <3>1, <4>1
      <4>2. CASE k # 0
        <5>1. c \in Pid /\ c >= k - 1
          BY <1>4, <2>3, <4>2 DEF c
        <5>2. c \in Nat /\ d \in Nat /\ c < d
          BY <3>1, <3>2, <5>1, Sizes
        <5> QED BY <2>1, <5>1, <5>2
      <4> QED BY <4>1, <4>2
    <3> QED BY <2>1, <3>1, <3>4, <3>5, <3>6
  <2> QED BY <2>2, <2>3
<1> HIDE DEF S
<1>5. 0 .. N \subseteq S
  BY <1>1, <1>3, <1>4, IntervalInduction
<1>6. N \in S
  BY <1>1, <1>5
<1> DEFINE c == s[N]
<1>7. OnQ(c) /\ (link[c] \notin pass \/ (c \in Pid /\ c >= N - 1))
  BY <1>1, <1>6 DEF S
<1>8. c \in Cell
  BY <1>1, <1>2
<1>9. link[c] \notin pass
  <2> SUFFICES ASSUME link[c] \in pass, c \in Pid, c >= N - 1 PROVE FALSE
    BY <1>7
  <2>1. link[c] \in Pid /\ link[c] # NULL
    BY Sizes
  <2>2. c < link[c]
    BY <1>8, <2>1 DEF Linked
  <2> QED BY <1>1, <2>1, <2>2 DEF Pid, N
<1>10. Walk(link, q, pass) = c
  BY DEF Walk, s, N
<1> HIDE DEF c
<1> QED BY <1>7, <1>8, <1>9, <1>10

LEMMA SeenIs ==
  ASSUME NEW link \in Link, NEW q \in Cell
  PROVE  /\ Seen(link, q) \in [0 .. PROCESS_MAX_COUNT -> SUBSET (Pid \cup {NULL})]
         /\ Seen(link, q)[0] = {link[q]}
         /\ \A k \in 0 .. PROCESS_MAX_COUNT - 1 :
              Seen(link, q)[k + 1] =
                Seen(link, q)[k] \cup {link[p] : p \in Seen(link, q)[k] \ {NULL}}
<1> DEFINE N == PROCESS_MAX_COUNT
           V == SUBSET (Pid \cup {NULL})
           More(s) == s \cup {link[p] : p \in s \ {NULL}}
           go == [x \in (1 .. N) \X V |-> More(x[2])]
           Is(f) == f = [k \in 0 .. N |-> IF k = 0 THEN {link[q]}
                     ELSE LET s == f[k - 1] IN s \cup {link[p] : p \in s \ {NULL}}]
<1>1. N \in Nat /\ {link[q]} \in V
  BY Sizes DEF Link
<1>2. \A s \in V : More(s) \in V
  <2> SUFFICES ASSUME NEW s \in V, NEW p \in s \ {NULL} PROVE link[p] \in Pid \cup {NULL}
    OBVIOUS
  <2> QED BY Sizes DEF Link
<1> HIDE DEF V, More
<1>3. IsLoopStep(go, N, V)
  <2>1. \A x \in (1 .. N) \X V : x[2] \in V
    OBVIOUS
  <2> QED BY <1>2, <2>1 DEF IsLoopStep
<1>4. \A k \in 1 .. N, s \in V : go[<<k, s>>] = More(s)
  OBVIOUS
<1> HIDE DEF go, N
<1>5. PICK f : IsLoop(f, N, V, {link[q]}, go)
  BY <1>1, <1>3, LoopFunction
<1>6. f \in [0 .. N -> V] /\ f = [k \in 0 .. N |-> IF k = 0 THEN {link[q]} ELSE go[<<k, f[k - 1]>>]]
  BY <1>5 DEF IsLoop
<1>7. f = [k \in 0 .. N |-> IF k = 0 THEN {link[q]} ELSE More(f[k - 1])]
  <2>1. ASSUME NEW k \in 0 .. N, k # 0 PROVE go[<<k, f[k - 1]>>] = More(f[k - 1])
    <3>1. k \in 1 .. N /\ k - 1 \in 0 .. N
      BY <1>1, <2>1
    <3> QED BY <1>4, <1>6, <3>1
  <2> QED BY <1>6, <2>1
<1>8. Is(f)
  BY <1>7 DEF More
<1>9. Seen(link, q) = CHOOSE g : Is(g)
  BY DEF Seen, N
<1> DEFINE s == Seen(link, q)
<1>10. Is(s)
  BY <1>8, <1>9
<1>11. s = [k \in 0 .. N |-> IF k = 0 THEN {link[q]} ELSE More(s[k - 1])]
  BY <1>10 DEF More
<1> HIDE DEF s
<1>12. s[0] = {link[q]}
  BY <1>1, <1>11
<1>13. ASSUME NEW k \in 0 .. N - 1 PROVE s[k + 1] = More(s[k])
  <2>1. k + 1 \in 0 .. N /\ k + 1 # 0 /\ (k + 1) - 1 = k
    BY <1>1
  <2> QED BY <1>11, <2>1
<1> DEFINE S == {k \in 0 .. N : s[k] \in V}
<1>14. 0 \in S
  BY <1>1, <1>12
<1>15. ASSUME NEW k \in 0 .. N - 1, k \in S PROVE k + 1 \in S
  <2>1. k + 1 \in 0 .. N /\ s[k] \in V
    BY <1>1, <1>15
  <2> QED BY <1>2, <1>13, <2>1
<1> HIDE DEF S
<1>16. 0 .. N \subseteq S
  BY <1>1, <1>14, <1>15, IntervalInduction
<1>17. s \in [0 .. N -> V]
  BY <1>11, <1>16 DEF S
<1> QED BY <1>12, <1>13, <1>17 DEF s, N, V, More

\* A walk along a list meets exactly the processes that belong on it.
LEMMA OnListIs ==
  ASSUME NEW link, NEW home, Linked(link, home), NEW q \in Head
  PROVE  OnList(link, q) = {p \in Pid : home[p] = q}
<1> DEFINE N == PROCESS_MAX_COUNT
           s == Seen(link, q)
           S == {k \in 0 .. N : /\ \A p \in s[k] : p # NULL => home[p] = q
                                /\ link[q] \in s[k]
                                /\ \A p \in Pid : home[p] = q /\ p <= k => p \in s[k]}
<1>1. N \in Nat /\ N # 0 /\ q \in Cell /\ link \in Link /\ q \notin Pid /\ q # NULL
  BY Sizes DEF Linked
<1>2. /\ s \in [0 .. N -> SUBSET (Pid \cup {NULL})]
      /\ s[0] = {link[q]}
      /\ \A k \in 0 .. N - 1 : s[k + 1] = s[k] \cup {link[p] : p \in s[k] \ {NULL}}
  BY <1>1, SeenIs
<1> HIDE DEF s, N
<1>3. \A p \in Pid : home[p] = q =>
        \E y \in Cell : link[y] = p /\ (y = q \/ (y \in Pid /\ home[y] = q /\ y < p))
  <2> SUFFICES ASSUME NEW p \in Pid, home[p] = q
               PROVE  \E y \in Cell : link[y] = p /\ (y = q \/ (y \in Pid /\ home[y] = q /\ y < p))
    OBVIOUS
  <2>1. PICK y \in Cell : link[y] = p
    BY <1>1 DEF Linked
  <2>2. home[p] = HomeOf(home, y) /\ (y \in Pid => y < p)
    BY <2>1, Sizes DEF Linked
  <2> QED BY <2>1, <2>2 DEF HomeOf
<1>4. 0 \in S
  <2>1. link[q] # NULL => home[link[q]] = q
    BY <1>1 DEF Linked, HomeOf
  <2>2. ASSUME NEW p \in Pid, home[p] = q, p <= 0 PROVE p \in s[0]
    BY <1>2, <1>3, <2>2, Sizes
  <2> QED BY <1>1, <1>2, <2>1, <2>2
<1>5. ASSUME NEW k \in 0 .. N - 1, k \in S PROVE k + 1 \in S
  <2>1. k + 1 \in 0 .. N /\ k \in Nat /\ s[k] \subseteq Pid \cup {NULL}
    BY <1>1, <1>2
  <2>2. s[k + 1] = s[k] \cup {link[p] : p \in s[k] \ {NULL}}
    BY <1>2
  <2>3. /\ \A p \in s[k] : p # NULL => home[p] = q
        /\ link[q] \in s[k]
        /\ \A p \in Pid : home[p] = q /\ p <= k => p \in s[k]
    BY <1>5
  <2>4. ASSUME NEW p \in s[k + 1], p # NULL PROVE home[p] = q
    <3>1. CASE p \in s[k]
      BY <2>3, <2>4, <3>1
    <3>2. CASE p \notin s[k]
      <4>1. PICK r \in s[k] \ {NULL} : p = link[r]
        BY <2>2, <3>2
      <4>2. r \in Pid /\ home[r] = q /\ r \in Cell
        BY <2>1, <2>3, <4>1, Sizes
      <4> QED BY <2>4, <4>1, <4>2 DEF Linked, HomeOf
    <3> QED BY <3>1, <3>2
  <2>5. ASSUME NEW p \in Pid, home[p] = q, p <= k + 1 PROVE p \in s[k + 1]
    <3>1. PICK y \in Cell : link[y] = p /\ (y = q \/ (y \in Pid /\ home[y] = q /\ y < p))
      BY <1>3, <2>5
    <3>2. CASE y = q
      BY <2>2, <2>3, <3>1, <3>2
    <3>3. CASE y # q
      <4>1. y \in Pid /\ home[y] = q /\ y < p
        BY <3>1, <3>3
      <4>2. y \in Nat /\ p \in Nat /\ y # NULL
        BY <4>1, Sizes
      <4>3. y <= k
        BY <2>1, <2>5, <4>1, <4>2
      <4> QED BY <2>2, <2>3, <3>1, <4>1, <4>2, <4>3
    <3> QED BY <3>2, <3>3
  <2> QED BY <2>1, <2>2, <2>3, <2>4, <2>5
<1> HIDE DEF S
<1>6. 0 .. N \subseteq S
  BY <1>1, <1>4, <1>5, IntervalInduction
<1>7. N \in S /\ s[N] \subseteq Pid \cup {NULL}
  BY <1>1, <1>2, <1>6
<1>8. \A p \in Pid : p <= N /\ p # NULL
  BY <1>1, Sizes DEF Pid, N
<1>9. OnList(link, q) = s[N] \ {NULL}
  BY DEF OnList, s, N
<1> QED BY <1>7, <1>8, <1>9 DEF S

LEMMA EnqueueKeepsType ==
  ASSUME NEW link \in Link, NEW q \in Cell, NEW p \in Pid
  PROVE  enqueue_process(link, q, p) \in Link
<1> DEFINE pass == {r \in Pid : r < p}
           c == Walk(link, q, pass)
<1>1. pass \subseteq Pid /\ PROCESS_MAX_COUNT \in 0 .. PROCESS_MAX_COUNT
  BY Sizes
<1>2. c \in Cell
  <2> HIDE DEF pass
  <2> QED BY <1>1, StepsIs DEF Walk
<1> HIDE DEF c
<1> QED BY <1>2, Sizes DEF enqueue_process, c, Link

LEMMA RemoveKeepsType ==
  ASSUME NEW link \in Link, NEW q \in Cell, NEW p \in Pid
  PROVE  remove_process_from_queue(link, q, p) \in Link
<1> DEFINE c == Walk(link, q, Pid \ {p})
<1>1. Pid \ {p} \subseteq Pid /\ PROCESS_MAX_COUNT \in 0 .. PROCESS_MAX_COUNT
  BY Sizes
<1>2. c \in Cell
  BY <1>1, StepsIs DEF Walk
<1>3. remove_process_from_queue(link, q, p) =
        IF link[c] = NULL THEN link ELSE [link EXCEPT ![c] = link[p], ![p] = NULL]
  BY DEF remove_process_from_queue
<1> HIDE DEF c
<1> QED BY <1>2, <1>3, Sizes DEF Link

\* enqueue_process puts a process that is on no list on the list of q.
LEMMA EnqueueKeepsLists ==
  ASSUME NEW link, NEW home, Linked(link, home), NEW q \in Head, NEW p \in Pid,
         home[p] = NULL
  PROVE  Linked(enqueue_process(link, q, p), [home EXCEPT ![p] = q])
<1> DEFINE pass == {r \in Pid : r < p}
           c == Walk(link, q, pass)
           l == enqueue_process(link, q, p)
           h == [home EXCEPT ![p] = q]
<1>1. link \in Link /\ home \in Homes /\ q # NULL /\ q \notin Pid /\ q \in Cell /\ p \in Cell /\ p # NULL
  BY Sizes DEF Linked
<1>2. /\ c \in Cell /\ HomeOf(home, c) = q /\ link[c] \notin pass
      /\ \A r \in Pid : home[r] = q /\ c \in Pid /\ r <= c => r \in pass
  <2>1. pass \subseteq Pid
    OBVIOUS
  <2> HIDE DEF pass
  <2> QED BY <2>1, WalkStops
<1>3. \A x \in Cell : link[x] # p
  BY <1>1 DEF Linked
<1>4. link[p] = NULL
  BY <1>1 DEF Linked, HomeOf
<1>5. c # p /\ (c \in Pid => c < p)
  <2>1. c # p
    BY <1>1, <1>2 DEF HomeOf
  <2>2. ASSUME c \in Pid PROVE c < p
    <3> HIDE DEF c
    <3>a. c \in Nat
      BY <2>2, Sizes
    <3>1. home[c] = q /\ c <= c
      BY <1>2, <2>2, <3>a DEF HomeOf
    <3> QED BY <1>2, <2>2, <3>1
  <2> QED BY <2>1, <2>2
<1>6. l \in Link
  BY <1>1, EnqueueKeepsType
<1>7. \A x \in Cell : l[x] = IF x = c THEN p ELSE IF x = p THEN link[c] ELSE link[x]
  BY <1>1, <1>2, <1>5 DEF enqueue_process, Link
<1>8. h \in Homes /\ \A r \in Pid : h[r] = IF r = p THEN q ELSE home[r]
  BY <1>1 DEF Homes
<1>9. \A x \in Cell : HomeOf(h, x) = IF x = p THEN q ELSE HomeOf(home, x)
  BY <1>8 DEF HomeOf
<1>10. link[c] \in Pid \cup {NULL}
  BY <1>1, <1>2 DEF Link
<1> HIDE DEF c, l, h
<1>11. ASSUME NEW x \in Cell, l[x] # NULL
       PROVE  h[l[x]] = HomeOf(h, x) /\ h[l[x]] # NULL /\ (x \in Pid => x < l[x])
  <2>1. CASE x = c
    BY <1>1, <1>2, <1>5, <1>7, <1>8, <1>9, <2>1
  <2>2. CASE x = p
    <3>1. l[x] = link[c] /\ link[c] \in Pid /\ link[c] # NULL /\ link[c] # p
      BY <1>2, <1>3, <1>5, <1>7, <1>10, <1>11, <2>2
    <3>2. home[link[c]] = q
      BY <1>2, <3>1 DEF Linked
    <3>3. p < link[c]
      <4>1. p \in Nat /\ link[c] \in Nat /\ ~(link[c] < p)
        BY <1>2, <3>1, Sizes
      <4> QED BY <3>1, <4>1
    <3> QED BY <1>1, <1>8, <1>9, <2>2, <3>1, <3>2, <3>3
  <2>3. CASE x # c /\ x # p
    <3>1. l[x] = link[x] /\ link[x] # p /\ link[x] \in Pid
      BY <1>1, <1>3, <1>7, <1>11, <2>3 DEF Link
    <3>2. home[link[x]] = HomeOf(home, x) /\ home[link[x]] # NULL /\ (x \in Pid => x < link[x])
      BY <1>11, <3>1 DEF Linked
    <3> QED BY <1>8, <1>9, <2>3, <3>1, <3>2
  <2> QED BY <2>1, <2>2, <2>3
<1>12. ASSUME NEW r \in Pid, h[r] # NULL PROVE \E x \in Cell : l[x] = r
  <2>1. CASE r = p
    BY <1>2, <1>7, <2>1
  <2>2. CASE r # p
    <3>1. PICK x \in Cell : link[x] = r
      BY <1>8, <1>12, <2>2 DEF Linked
    <3>2. x # p
      BY <1>4, <3>1, Sizes
    <3> QED BY <1>1, <1>5, <1>7, <3>1, <3>2
  <2> QED BY <2>1, <2>2
<1>13. ASSUME NEW x \in Cell, NEW y \in Cell, l[x] = l[y], l[x] # NULL PROVE x = y
  <2>1. \A z, w \in Cell : link[z] = link[w] /\ link[z] # NULL => z = w
    BY DEF Linked
  <2> QED BY <1>2, <1>3, <1>4, <1>5, <1>7, <1>13, <2>1
<1> QED BY <1>6, <1>8, <1>11, <1>12, <1>13 DEF Linked, l, h

\* Taking the PCB a cell points to out of its list.
LEMMA UnlinkKeepsLists ==
  ASSUME NEW link, NEW home, Linked(link, home), NEW c \in Cell, NEW p \in Pid, link[c] = p
  PROVE  Linked([link EXCEPT ![c] = link[p], ![p] = NULL], [home EXCEPT ![p] = NULL])
<1> DEFINE l == [link EXCEPT ![c] = link[p], ![p] = NULL]
           h == [home EXCEPT ![p] = NULL]
<1>1. link \in Link /\ home \in Homes /\ p \in Cell /\ p # NULL /\ NULL \notin Pid
  BY Sizes DEF Linked
<1>2. home[p] = HomeOf(home, c) /\ home[p] # NULL /\ (c \in Pid => c < p)
  BY <1>1 DEF Linked
<1>3. c # p
  BY <1>2, Sizes
<1>4. l \in Link /\ \A x \in Cell : l[x] = IF x = c THEN link[p] ELSE IF x = p THEN NULL ELSE link[x]
  BY <1>1, <1>3 DEF Link
<1>5. h \in Homes /\ \A r \in Pid : h[r] = IF r = p THEN NULL ELSE home[r]
  BY <1>1 DEF Homes
<1>6. \A x \in Cell : x # p => HomeOf(h, x) = HomeOf(home, x)
  BY <1>5 DEF HomeOf
<1>7. \A x, y \in Cell : link[x] = link[y] /\ link[x] # NULL => x = y
  BY DEF Linked
<1>8. \A x \in Cell : link[x] # NULL =>
        link[x] \in Pid /\ home[link[x]] = HomeOf(home, x) /\ home[link[x]] # NULL
          /\ (x \in Pid => x < link[x])
  BY <1>1 DEF Linked, Link
<1> HIDE DEF l, h
<1>9. ASSUME NEW x \in Cell, l[x] # NULL
      PROVE  h[l[x]] = HomeOf(h, x) /\ h[l[x]] # NULL /\ (x \in Pid => x < l[x])
  <2>1. CASE x = c
    <3>1. l[x] = link[p] /\ link[p] # NULL /\ link[p] \in Pid
      BY <1>1, <1>4, <1>8, <1>9, <2>1
    <3>2. home[link[p]] = home[p] /\ p < link[p] /\ link[p] # p
      BY <1>1, <1>8, <3>1, Sizes DEF HomeOf
    <3>3. x \in Pid => x < l[x]
      <4>1. p \in Nat /\ link[p] \in Nat /\ (x \in Pid => x \in Nat)
        BY <3>1, Sizes
      <4> QED BY <1>2, <2>1, <3>1, <3>2, <4>1
    <3> QED BY <1>2, <1>3, <1>5, <1>6, <2>1, <3>1, <3>2, <3>3
  <2>2. CASE x # c
    <3>1. x # p /\ l[x] = link[x] /\ link[x] # p
      BY <1>1, <1>4, <1>7, <1>9, <2>2
    <3> QED BY <1>5, <1>6, <1>8, <1>9, <3>1
  <2> QED BY <2>1, <2>2
<1>10. ASSUME NEW r \in Pid, h[r] # NULL PROVE \E x \in Cell : l[x] = r
  <2>1. r # p /\ home[r] # NULL
    BY <1>5, <1>10
  <2>2. PICK x \in Cell : link[x] = r
    BY <2>1 DEF Linked
  <2>3. x # c
    BY <2>1, <2>2
  <2>4. CASE x = p
    BY <1>4, <2>2, <2>4
  <2>5. CASE x # p
    BY <1>4, <2>2, <2>3, <2>5
  <2> QED BY <2>4, <2>5
<1>11. ASSUME NEW x \in Cell, NEW y \in Cell, l[x] = l[y], l[x] # NULL PROVE x = y
  BY <1>1, <1>3, <1>4, <1>7, <1>11
<1> QED BY <1>4, <1>5, <1>9, <1>10, <1>11 DEF Linked, l, h

\* remove_process_from_queue finds a process on its list and takes it out.
LEMMA RemoveKeepsLists ==
  ASSUME NEW link, NEW home, Linked(link, home), NEW q \in Head, NEW p \in Pid,
         home[p] = q
  PROVE  Linked(remove_process_from_queue(link, q, p), [home EXCEPT ![p] = NULL])
<1> DEFINE c == Walk(link, q, Pid \ {p})
<1>1. link \in Link /\ q # NULL /\ q \notin Pid /\ p # NULL
  BY Sizes DEF Linked
<1>2. /\ c \in Cell /\ HomeOf(home, c) = q /\ link[c] \notin Pid \ {p}
      /\ \A r \in Pid : home[r] = q /\ c \in Pid /\ r <= c => r \in Pid \ {p}
  <2>1. Pid \ {p} \subseteq Pid
    OBVIOUS
  <2> QED BY <2>1, WalkStops
<1>3. remove_process_from_queue(link, q, p) =
        IF link[c] = NULL THEN link ELSE [link EXCEPT ![c] = link[p], ![p] = NULL]
  BY DEF remove_process_from_queue
<1> HIDE DEF c
<1>4. c \in Pid => c < p
  <2> SUFFICES ASSUME c \in Pid PROVE c < p
    OBVIOUS
  <2>1. ~(p <= c)
    BY <1>2
  <2> QED BY <2>1, Sizes
<1>5. link[c] # NULL
  BY <1>1, <1>2, <1>4, NoSkip
<1>6. link[c] = p
  BY <1>1, <1>2, <1>5 DEF Link
<1>7. remove_process_from_queue(link, q, p) = [link EXCEPT ![c] = link[p], ![p] = NULL]
  BY <1>3, <1>5
<1>8. Linked([link EXCEPT ![c] = link[p], ![p] = NULL], [home EXCEPT ![p] = NULL])
  BY <1>2, <1>6, UnlinkKeepsLists
<1> QED BY <1>7, <1>8

\* remove_process_from_queue leaves a list alone that the process is not on.
LEMMA RemoveMissing ==
  ASSUME NEW link, NEW home, Linked(link, home), NEW q \in Head, NEW p \in Pid,
         home[p] = NULL
  PROVE  remove_process_from_queue(link, q, p) = link
<1> DEFINE c == Walk(link, q, Pid \ {p})
<1>1. c \in Cell /\ link[c] \notin Pid \ {p}
  <2>1. Pid \ {p} \subseteq Pid
    OBVIOUS
  <2> QED BY <2>1, WalkStops
<1>2. remove_process_from_queue(link, q, p) =
        IF link[c] = NULL THEN link ELSE [link EXCEPT ![c] = link[p], ![p] = NULL]
  BY DEF remove_process_from_queue
<1> HIDE DEF c
<1>3. link[c] # p
  BY <1>1, Sizes DEF Linked
<1>4. link[c] = NULL
  BY <1>1, <1>3 DEF Linked, Link
<1> QED BY <1>2, <1>4

\* dequeue_process takes the first process of a list out.
LEMMA DequeueKeepsLists ==
  ASSUME NEW link, NEW home, Linked(link, home), NEW q \in Head, link[q] # NULL
  PROVE  /\ link[q] \in Pid /\ home[link[q]] = q
         /\ Linked(dequeue_process(link, q), [home EXCEPT ![link[q]] = NULL])
<1>1. q \in Cell /\ q \notin Pid /\ link \in Link
  BY Sizes DEF Linked
<1>2. link[q] \in Pid /\ home[link[q]] = q
  BY <1>1 DEF Linked, Link, HomeOf
<1> DEFINE p == link[q]
<1>3. Linked([link EXCEPT ![q] = link[p], ![p] = NULL], [home EXCEPT ![p] = NULL])
  BY <1>1, <1>2, UnlinkKeepsLists
<1> QED BY <1>2, <1>3 DEF dequeue_process

-----------------------------------------------------------------------------
(* The manager: what each helper does to the record it is given.           *)

HomeMap(m) == [p \in Pid |-> HomeQueue(m, p)]

Lists(m) == Linked(m.link, HomeMap(m))

\* A call that is under way, or was never finished, fits the state it has reached.
CallsFit(m) ==
  \A p \in Pid :
    /\ m.call[p] = "marked" => m.state[p] = "TERMINATED"
    /\ m.call[p] = "dropped" => m.state[p] = "RUNNING" /\ m.current_process # p
    /\ m.call[p] = "linking" => m.state[p] \in {"BLOCKED", "TERMINATED"} /\ m.current_process # p

Slots(m) == /\ m.process_bitmap = {p \in Pid : m.state[p] # "NONE"}
            /\ m.active_processes = Cardinality(m.process_bitmap)

RunsCurrent(m) ==
  \A p \in Pid : (m.state[p] = "RUNNING" /\ m.call[p] # "dropped")
                    <=> (m.current_process = p /\ m.call[p] # "marked")

Good(m) == m \in Manager /\ Lists(m) /\ Slots(m) /\ RunsCurrent(m) /\ CallsFit(m)

\* r has the fields of m, except perhaps its queues and states.
SameRest(r, m) ==
  /\ r.priority = m.priority
  /\ r.time_slice = m.time_slice
  /\ r.wakeup_time = m.wakeup_time
  /\ r.process_bitmap = m.process_bitmap
  /\ r.active_processes = m.active_processes
  /\ r.current_process = m.current_process
  /\ r.system_ticks = m.system_ticks
  /\ r.call = m.call

LEMMA ManagerTypes ==
  ASSUME NEW m \in Manager
  PROVE  /\ m.link \in Link
         /\ m.state \in [Pid -> State]
         /\ m.priority \in [Pid -> Prio]
         /\ m.time_slice \in [Pid -> 0 .. SLICE_MOD - 1]
         /\ m.wakeup_time \in [Pid -> 0 .. TICK_MOD - 1]
         /\ m.process_bitmap \subseteq Pid
         /\ m.active_processes \in Int
         /\ m.current_process \in Pid \cup {NULL}
         /\ m.system_ticks \in 0 .. TICK_MOD - 1
         /\ m.call \in [Pid -> Progress]
BY DEF Manager, Link

LEMMA HomeMapIs ==
  ASSUME NEW m \in Manager
  PROVE  /\ HomeMap(m) \in Homes
         /\ \A p \in Pid :
              /\ m.state[p] = "READY" /\ m.call[p] = "none" => HomeMap(m)[p] = ReadyQ(m.priority[p])
              /\ m.state[p] = "BLOCKED" /\ m.call[p] = "none" => HomeMap(m)[p] = BlockedQ
              /\ m.state[p] = "TERMINATED" /\ m.call[p] = "none" => HomeMap(m)[p] = TerminatedQ
              /\ m.state[p] \in {"NONE", "RUNNING"} => HomeMap(m)[p] = NULL
              /\ m.call[p] # "none" => HomeMap(m)[p] = NULL
<1>1. ASSUME NEW p \in Pid
      PROVE  /\ HomeQueue(m, p) \in Head \cup {NULL}
             /\ m.state[p] = "READY" /\ m.call[p] = "none" => HomeQueue(m, p) = ReadyQ(m.priority[p])
             /\ m.state[p] = "BLOCKED" /\ m.call[p] = "none" => HomeQueue(m, p) = BlockedQ
             /\ m.state[p] = "TERMINATED" /\ m.call[p] = "none" => HomeQueue(m, p) = TerminatedQ
             /\ m.state[p] \in {"NONE", "RUNNING"} => HomeQueue(m, p) = NULL
             /\ m.call[p] # "none" => HomeQueue(m, p) = NULL
  <2>1. m.state[p] \in State /\ m.priority[p] \in Prio
    BY ManagerTypes
  <2>2. CASE m.call[p] # "none"
    BY <2>2, Sizes DEF HomeQueue
  <2>3. CASE m.call[p] = "none"
    BY <2>1, <2>3, Sizes DEF HomeQueue, State
  <2> QED BY <2>2, <2>3
<1> QED BY <1>1 DEF HomeMap, Homes

\* A process on a queue has made all its calls, and its state is that queue's.
LEMMA HomeTells ==
  ASSUME NEW m \in Manager, NEW p \in Pid
  PROVE  /\ HomeMap(m)[p] = BlockedQ <=> m.state[p] = "BLOCKED" /\ m.call[p] = "none"
         /\ HomeMap(m)[p] = TerminatedQ <=> m.state[p] = "TERMINATED" /\ m.call[p] = "none"
         /\ \A i \in Prio : HomeMap(m)[p] = ReadyQ(i) =>
              m.state[p] = "READY" /\ m.call[p] = "none"
         /\ HomeMap(m)[p] = NULL <=> m.call[p] # "none" \/ m.state[p] \in {"NONE", "RUNNING"}
<1>1. m.state[p] \in State /\ m.priority[p] \in Prio
  BY ManagerTypes
<1>2. NULL \notin Head
  BY Sizes
<1> QED BY <1>1, <1>2, HomeMapIs, Sizes DEF State

SameElsewhere(r, m, p) ==
  \A s \in Pid : s # p => /\ r.state[s] = m.state[s]
                         /\ r.priority[s] = m.priority[s]
                         /\ r.call[s] = m.call[s]

\* The home of p changes to v and no other does.
LEMMA HomeMapChange ==
  ASSUME NEW m, NEW r, NEW p \in Pid, SameElsewhere(r, m, p)
  PROVE  HomeMap(r) = [HomeMap(m) EXCEPT ![p] = HomeMap(r)[p]]
BY DEF HomeMap, HomeQueue, SameElsewhere

LEMMA MakeReadyType ==
  ASSUME NEW m \in Manager, NEW p \in Pid
  PROVE  /\ MakeReady(m, p) \in Manager
         /\ MakeReady(m, p).link = enqueue_process(m.link, ReadyQ(m.priority[p]), p)
         /\ MakeReady(m, p).state = [m.state EXCEPT ![p] = "READY"]
         /\ SameRest(MakeReady(m, p), m)
<1> DEFINE l == enqueue_process(m.link, ReadyQ(m.priority[p]), p)
<1>1. m.priority[p] \in Prio
  BY ManagerTypes
<1>2. ReadyQ(m.priority[p]) \in Cell
  BY <1>1, Sizes
<1>3. l \in Link
  BY <1>2, ManagerTypes, EnqueueKeepsType
<1>4. MakeReady(m, p) = [m EXCEPT !.state[p] = "READY", !.link = l]
  BY DEF MakeReady
<1> HIDE DEF l
<1>5. [m.state EXCEPT ![p] = "READY"] \in [Pid -> State]
  BY ManagerTypes DEF State
<1> QED BY <1>3, <1>4, <1>5 DEF Manager, Link, SameRest, l

LEMMA MakeReadyIs ==
  ASSUME NEW m \in Manager, NEW p \in Pid, m.call[p] = "none",
         Linked(m.link, [HomeMap(m) EXCEPT ![p] = NULL])
  PROVE  Lists(MakeReady(m, p))
<1> DEFINE r == MakeReady(m, p)
           q == ReadyQ(m.priority[p])
           h == [HomeMap(m) EXCEPT ![p] = NULL]
<1>1. r \in Manager /\ r.link = enqueue_process(m.link, q, p)
        /\ r.state = [m.state EXCEPT ![p] = "READY"] /\ r.priority = m.priority
        /\ r.call = m.call
  BY MakeReadyType DEF SameRest
<1>2. m.state \in [Pid -> State] /\ q \in Head /\ HomeMap(m) \in Homes
  <2>1. m.state \in [Pid -> State] /\ m.priority[p] \in Prio
    BY ManagerTypes
  <2> QED BY <2>1, HomeMapIs, Sizes
<1> HIDE DEF r
<1>3. r.state[p] = "READY" /\ \A s \in Pid : s # p => r.state[s] = m.state[s]
  BY <1>1, <1>2
<1>4. HomeMap(r)[p] = q
  BY <1>1, <1>3, HomeMapIs
<1>5. HomeMap(r) = [HomeMap(m) EXCEPT ![p] = q]
  <2>1. SameElsewhere(r, m, p)
    BY <1>1, <1>3 DEF SameElsewhere
  <2> QED BY <1>4, <2>1, HomeMapChange
<1>6. h[p] = NULL /\ [h EXCEPT ![p] = q] = [HomeMap(m) EXCEPT ![p] = q]
  BY <1>2 DEF Homes
<1> HIDE DEF h, q
<1>7. Linked(m.link, h)
  BY DEF h
<1>8. Linked(enqueue_process(m.link, q, p), [h EXCEPT ![p] = q])
  BY <1>2, <1>6, <1>7, EnqueueKeepsLists
<1> QED BY <1>1, <1>5, <1>6, <1>8 DEF Lists, r

LEMMA UnblockType ==
  ASSUME NEW m \in Manager, NEW p \in Pid
  PROVE  /\ Unblock(m, p) \in Manager
         /\ Unblock(m, p).state = [m.state EXCEPT ![p] = "READY"]
         /\ SameRest(Unblock(m, p), m)
<1> DEFINE l == remove_process_from_queue(m.link, BlockedQ, p)
           n == [m EXCEPT !.link = l]
<1>1. l \in Link
  BY ManagerTypes, RemoveKeepsType, Sizes
<1> HIDE DEF l
<1>2. n \in Manager /\ n.state = m.state /\ SameRest(n, m)
  BY <1>1 DEF Manager, Link, SameRest
<1>3. Unblock(m, p) = MakeReady(n, p)
  BY DEF Unblock, l
<1> HIDE DEF n
<1> QED BY <1>2, <1>3, MakeReadyType DEF SameRest

LEMMA UnblockIs ==
  ASSUME NEW m \in Manager, NEW p \in Pid, Lists(m), m.state[p] = "BLOCKED", m.call[p] = "none"
  PROVE  Lists(Unblock(m, p))
<1> DEFINE l == remove_process_from_queue(m.link, BlockedQ, p)
           n == [m EXCEPT !.link = l]
<1>1. l \in Link
  BY ManagerTypes, RemoveKeepsType, Sizes
<1>2. HomeMap(m)[p] = BlockedQ /\ BlockedQ \in Head
  BY HomeMapIs, Sizes
<1>3. Linked(l, [HomeMap(m) EXCEPT ![p] = NULL])
  BY <1>2, RemoveKeepsLists DEF Lists
<1> HIDE DEF l
<1>4. n \in Manager /\ n.state = m.state /\ n.priority = m.priority /\ n.link = l /\ n.call = m.call
  BY <1>1 DEF Manager, Link
<1>5. Unblock(m, p) = MakeReady(n, p)
  BY DEF Unblock, l
<1> HIDE DEF n
<1>6. HomeMap(n) = HomeMap(m)
  BY <1>4 DEF HomeMap, HomeQueue
<1> QED BY <1>3, <1>4, <1>5, <1>6, MakeReadyIs

-----------------------------------------------------------------------------
(* The stages of a tick.                                                   *)

LEMMA PidsFinite == \A S \in SUBSET Pid : IsFiniteSet(S) /\ Cardinality(S) \in Nat
<1>1. IsFiniteSet(Pid)
  <2>1. 0 \in Int /\ PROCESS_MAX_COUNT - 1 \in Int
    BY Sizes
  <2> QED BY <2>1, FS_Interval DEF Pid
<1> QED BY <1>1, FS_Subset, FS_CardinalityType

\* r has the queues, states and slots of m.
SameQueues(r, m) ==
  /\ r.link = m.link
  /\ r.state = m.state
  /\ r.priority = m.priority
  /\ r.process_bitmap = m.process_bitmap
  /\ r.active_processes = m.active_processes
  /\ r.current_process = m.current_process
  /\ r.call = m.call

LEMMA AccountIs ==
  ASSUME NEW m \in Manager
  PROVE  /\ Account(m) \in Manager
         /\ SameQueues(Account(m), m)
         /\ Good(m) => Good(Account(m))
<1> DEFINE t == (m.system_ticks + 1) % TICK_MOD
           s == [p \in Pid |-> IF IsRunning(m) /\ p = m.current_process
                               THEN (m.time_slice[p] - 1) % SLICE_MOD ELSE m.time_slice[p]]
           r == [m EXCEPT !.system_ticks = t, !.time_slice = s]
<1>1. \A a \in Int : a % TICK_MOD \in 0 .. TICK_MOD - 1 /\ a % SLICE_MOD \in 0 .. SLICE_MOD - 1
  BY ManagerAssumption
<1>2. t \in 0 .. TICK_MOD - 1
  <2>1. m.system_ticks + 1 \in Int
    BY ManagerTypes
  <2> QED BY <1>1, <2>1
<1>3. s \in [Pid -> 0 .. SLICE_MOD - 1]
  <2>1. \A p \in Pid : m.time_slice[p] - 1 \in Int /\ m.time_slice[p] \in 0 .. SLICE_MOD - 1
    BY ManagerTypes
  <2> QED BY <1>1, <2>1
<1>4. Account(m) = r
  BY DEF Account
<1> HIDE DEF s, t
<1>5. r \in Manager /\ SameQueues(r, m)
  BY <1>2, <1>3 DEF Manager, SameQueues
<1> HIDE DEF r
<1>6. HomeMap(r) = HomeMap(m)
  BY <1>5 DEF HomeMap, HomeQueue, SameQueues
<1> QED BY <1>4, <1>5, <1>6 DEF Good, Lists, Slots, RunsCurrent, CallsFit, SameQueues

LEMMA WakeStepsIs ==
  ASSUME NEW m \in Manager, NEW due, due \subseteq Pid
  PROVE  /\ WakeSteps(m, due) \in [0 .. PROCESS_MAX_COUNT -> Manager]
         /\ WakeSteps(m, due)[0] = m
         /\ \A k \in 0 .. PROCESS_MAX_COUNT - 1 :
              WakeSteps(m, due)[k + 1] =
                IF k \in due THEN Unblock(WakeSteps(m, due)[k], k) ELSE WakeSteps(m, due)[k]
<1> DEFINE N == PROCESS_MAX_COUNT
           One(k, w) == IF k - 1 \in due THEN Unblock(w, k - 1) ELSE w
           go == [x \in (1 .. N) \X Manager |-> One(x[1], x[2])]
           Is(f) == f = [k \in 0 .. N |-> IF k = 0 THEN m
                     ELSE LET w == f[k - 1] IN IF k - 1 \in due THEN Unblock(w, k - 1) ELSE w]
<1>1. N \in Nat
  BY Sizes
<1>2. \A k \in 1 .. N, w \in Manager : One(k, w) \in Manager
  BY UnblockType
<1> HIDE DEF One
<1>3. IsLoopStep(go, N, Manager)
  <2>1. \A x \in (1 .. N) \X Manager : x[1] \in 1 .. N /\ x[2] \in Manager
    OBVIOUS
  <2> QED BY <1>2, <2>1 DEF IsLoopStep
<1>4. \A k \in 1 .. N, w \in Manager : go[<<k, w>>] = One(k, w)
  OBVIOUS
<1> HIDE DEF go, N
<1>5. PICK f : IsLoop(f, N, Manager, m, go)
  BY <1>1, <1>3, LoopFunction
<1>6. f \in [0 .. N -> Manager] /\ f = [k \in 0 .. N |-> IF k = 0 THEN m ELSE go[<<k, f[k - 1]>>]]
  BY <1>5 DEF IsLoop
<1>7. f = [k \in 0 .. N |-> IF k = 0 THEN m ELSE One(k, f[k - 1])]
  <2>1. ASSUME NEW k \in 0 .. N, k # 0 PROVE go[<<k, f[k - 1]>>] = One(k, f[k - 1])
    <3>1. k \in 1 .. N /\ k - 1 \in 0 .. N
      BY <1>1, <2>1
    <3>2. f[k - 1] \in Manager
      BY <1>6, <3>1
    <3> QED BY <1>4, <3>1, <3>2
  <2> QED BY <1>6, <2>1
<1>8. Is(f)
  BY <1>7 DEF One
<1>9. WakeSteps(m, due) = CHOOSE g : Is(g)
  BY DEF WakeSteps, N
<1> DEFINE s == WakeSteps(m, due)
<1>10. Is(s)
  BY <1>8, <1>9
<1>11. s = [k \in 0 .. N |-> IF k = 0 THEN m ELSE One(k, s[k - 1])]
  BY <1>10 DEF One
<1> HIDE DEF s
<1>12. s[0] = m
  BY <1>1, <1>11
<1>13. ASSUME NEW k \in 0 .. N - 1 PROVE s[k + 1] = One(k + 1, s[k])
  <2>1. k + 1 \in 0 .. N /\ k + 1 # 0 /\ (k + 1) - 1 = k
    BY <1>1
  <2> QED BY <1>11, <2>1
<1> DEFINE S == {k \in 0 .. N : s[k] \in Manager}
<1>14. 0 \in S
  BY <1>1, <1>12
<1>15. ASSUME NEW k \in 0 .. N - 1, k \in S PROVE k + 1 \in S
  <2>1. k + 1 \in 0 .. N /\ k + 1 \in 1 .. N /\ s[k] \in Manager
    BY <1>1, <1>15
  <2> QED BY <1>2, <1>13, <2>1
<1> HIDE DEF S
<1>16. 0 .. N \subseteq S
  BY <1>1, <1>14, <1>15, IntervalInduction
<1>17. s \in [0 .. N -> Manager]
  BY <1>11, <1>16 DEF S
<1>18. ASSUME NEW k \in 0 .. N - 1
       PROVE  s[k + 1] = IF k \in due THEN Unblock(s[k], k) ELSE s[k]
  <2>1. (k + 1) - 1 = k
    BY <1>1
  <2> QED BY <1>13, <2>1 DEF One
<1> QED BY <1>12, <1>17, <1>18 DEF s, N

\* w is m after the processes of `woken' went from the blocked queue to their
\* ready queues.
AfterWake(w, m, woken) ==
  /\ woken \subseteq {p \in Pid : m.state[p] = "BLOCKED" /\ m.call[p] = "none"}
  /\ w.state = [p \in Pid |-> IF p \in woken THEN "READY" ELSE m.state[p]]
  /\ SameRest(w, m)

LEMMA WakeIs ==
  ASSUME NEW m, Good(m)
  PROVE  Good(Wake(m)) /\ \E woken : AfterWake(Wake(m), m, woken)
<1> DEFINE N == PROCESS_MAX_COUNT
           due == {p \in OnList(m.link, BlockedQ) : Due(m, p)}
           W == WakeSteps(m, due)
           Part(k) == {p \in due : p < k}
           S == {k \in 0 .. N : AfterWake(W[k], m, Part(k)) /\ Lists(W[k])}
<1>1. N \in Nat /\ m \in Manager /\ m.state \in [Pid -> State]
  BY Sizes, ManagerTypes DEF Good
<1>2. due \subseteq {p \in Pid : m.state[p] = "BLOCKED" /\ m.call[p] = "none"}
  <2>1. OnList(m.link, BlockedQ) = {p \in Pid : HomeMap(m)[p] = BlockedQ}
    BY Sizes, OnListIs DEF Good, Lists
  <2> QED BY <1>1, <2>1, HomeTells
<1>3. Wake(m) = W[N]
  BY DEF Wake
<1> HIDE DEF due
<1>4. /\ W \in [0 .. N -> Manager]
      /\ W[0] = m
      /\ \A k \in 0 .. N - 1 : W[k + 1] = IF k \in due THEN Unblock(W[k], k) ELSE W[k]
  BY <1>1, <1>2, WakeStepsIs
<1> HIDE DEF W, N
<1>5. 0 \in S
  <2>1. Part(0) = {}
    <3>1. \A p \in due : p \in Nat
      BY <1>2, Sizes
    <3> QED BY <3>1
  <2>2. m.state = [p \in Pid |-> IF p \in Part(0) THEN "READY" ELSE m.state[p]]
    BY <1>1, <2>1
  <2> QED BY <1>1, <1>4, <2>1, <2>2 DEF AfterWake, SameRest, Good
<1>6. ASSUME NEW k \in 0 .. N - 1, k \in S PROVE k + 1 \in S
  <2> DEFINE w == W[k]
             v == W[k + 1]
  <2>1. k + 1 \in 0 .. N /\ w \in Manager /\ k \in Pid /\ AfterWake(w, m, Part(k)) /\ Lists(w)
    BY <1>1, <1>4, <1>6 DEF Pid, N
  <2>2. v = IF k \in due THEN Unblock(w, k) ELSE w
    BY <1>4
  <2>3. Part(k + 1) = IF k \in due THEN Part(k) \cup {k} ELSE Part(k)
    <3>1. \A p \in due : p \in Nat
      BY <1>2, Sizes
    <3>2. k \in Nat
      BY <1>1
    <3> QED BY <3>1, <3>2
  <2>4. k \notin Part(k) /\ Part(k + 1) \subseteq due
    BY <1>1
  <2> HIDE DEF w, v, Part
  <2>5. CASE k \in due
    <3>1. w.state[k] = "BLOCKED" /\ w.call[k] = "none"
      BY <1>2, <2>1, <2>4, <2>5 DEF AfterWake, SameRest
    <3>2. Lists(v)
      BY <2>1, <2>2, <2>5, <3>1, UnblockIs
    <3>3. v.state = [w.state EXCEPT ![k] = "READY"] /\ SameRest(v, w)
      BY <2>1, <2>2, <2>5, UnblockType
    <3>4. v.state = [p \in Pid |-> IF p \in Part(k + 1) THEN "READY" ELSE m.state[p]]
      BY <2>1, <2>3, <2>5, <3>3 DEF AfterWake
    <3>5. SameRest(v, m)
      BY <2>1, <3>3 DEF AfterWake, SameRest
    <3>6. AfterWake(v, m, Part(k + 1))
      BY <1>2, <2>4, <3>4, <3>5 DEF AfterWake
    <3> QED BY <2>1, <3>2, <3>6 DEF v
  <2>6. CASE k \notin due
    BY <2>1, <2>2, <2>3, <2>6 DEF v
  <2> QED BY <2>5, <2>6
<1> HIDE DEF S
<1>7. 0 .. N \subseteq S
  BY <1>1, <1>5, <1>6, IntervalInduction
<1> DEFINE w == W[N]
<1>8. w \in Manager /\ AfterWake(w, m, Part(N)) /\ Lists(w)
  <2> HIDE DEF Part
  <2>1. N \in 0 .. N
    BY <1>1
  <2>2. N \in S
    BY <1>7, <2>1
  <2> QED BY <1>4, <2>1, <2>2 DEF S
<1> HIDE DEF w, Part
<1>9. Slots(w)
  <2>1. \A p \in Pid : w.state[p] # "NONE" <=> m.state[p] # "NONE"
    BY <1>8 DEF AfterWake
  <2> QED BY <1>8, <2>1 DEF Slots, Good, AfterWake, SameRest
<1>10. RunsCurrent(w)
  <2>1. \A p \in Pid : w.state[p] = "RUNNING" <=> m.state[p] = "RUNNING"
    BY <1>8 DEF AfterWake
  <2> QED BY <1>8, <2>1 DEF RunsCurrent, Good, AfterWake, SameRest
<1>11. CallsFit(w)
  <2>1. \A p \in Pid : m.call[p] # "none" => w.state[p] = m.state[p]
    BY <1>8 DEF AfterWake
  <2>2. w.call = m.call /\ w.current_process = m.current_process
    BY <1>8 DEF AfterWake, SameRest
  <2> QED BY <2>1, <2>2 DEF CallsFit, Good
<1> QED BY <1>3, <1>8, <1>9, <1>10, <1>11 DEF Good, w

\* h is w after the slots of `dead' were emptied.
AfterReap(h, w, dead) ==
  /\ dead \in {{}, {p \in Pid : w.state[p] = "TERMINATED" /\ w.call[p] = "none"}}
  /\ h.call = w.call
  /\ h.state = [p \in Pid |-> IF p \in dead THEN "NONE" ELSE w.state[p]]
  /\ h.priority = [p \in Pid |-> IF p \in dead THEN 0 ELSE w.priority[p]]
  /\ h.current_process = w.current_process
  /\ h.system_ticks = w.system_ticks

\* The terminated queue is emptied and the other lists stay.
LEMMA ClearKeepsLists ==
  ASSUME NEW link, NEW home, Linked(link, home), NEW q \in Head, NEW dead,
         dead = {p \in Pid : home[p] = q}
  PROVE  Linked([c \in Cell |-> IF c \in dead \cup {q} THEN NULL ELSE link[c]],
                [p \in Pid |-> IF p \in dead THEN NULL ELSE home[p]])
<1> DEFINE l == [c \in Cell |-> IF c \in dead \cup {q} THEN NULL ELSE link[c]]
           h == [p \in Pid |-> IF p \in dead THEN NULL ELSE home[p]]
<1>1. link \in Link /\ home \in Homes /\ q # NULL /\ q \notin Pid /\ q \in Cell
  BY Sizes DEF Linked
<1>2. l \in Link /\ h \in Homes
  BY <1>1 DEF Link, Homes
<1>3. \A c \in Cell : l[c] = IF c \in dead \cup {q} THEN NULL ELSE link[c]
  OBVIOUS
<1>4. \A p \in Pid : h[p] = IF p \in dead THEN NULL ELSE home[p]
  OBVIOUS
<1> HIDE DEF l, h
<1>5. ASSUME NEW c \in Cell, l[c] # NULL
      PROVE  h[l[c]] = HomeOf(h, c) /\ h[l[c]] # NULL /\ (c \in Pid => c < l[c])
  <2>1. c \notin dead /\ c # q /\ l[c] = link[c] /\ link[c] # NULL /\ link[c] \in Pid
    BY <1>1, <1>3, <1>5 DEF Link
  <2>2. home[link[c]] = HomeOf(home, c) /\ home[link[c]] # NULL /\ (c \in Pid => c < link[c])
    BY <2>1 DEF Linked
  <2>3. HomeOf(home, c) # q /\ HomeOf(h, c) = HomeOf(home, c)
    BY <1>4, <2>1 DEF HomeOf
  <2> QED BY <1>4, <2>1, <2>2, <2>3
<1>6. ASSUME NEW p \in Pid, h[p] # NULL PROVE \E c \in Cell : l[c] = p
  <2>1. p \notin dead /\ home[p] # NULL /\ home[p] # q
    BY <1>4, <1>6
  <2>2. PICK c \in Cell : link[c] = p
    BY <2>1 DEF Linked
  <2>3. home[p] = HomeOf(home, c)
    BY <2>2, Sizes DEF Linked
  <2>4. c \notin dead \cup {q}
    BY <1>1, <2>1, <2>3 DEF HomeOf
  <2> QED BY <1>3, <2>2, <2>4
<1>7. ASSUME NEW c \in Cell, NEW d \in Cell, l[c] = l[d], l[c] # NULL PROVE c = d
  <2>1. \A x, y \in Cell : link[x] = link[y] /\ link[x] # NULL => x = y
    BY DEF Linked
  <2> QED BY <1>3, <1>7, <2>1
<1> QED BY <1>2, <1>5, <1>6, <1>7 DEF Linked, l, h

LEMMA ReapIs ==
  ASSUME NEW w, Good(w)
  PROVE  Good(Reap(w)) /\ \E dead : AfterReap(Reap(w), w, dead)
<1>1. w \in Manager /\ w.state \in [Pid -> State] /\ w.priority \in [Pid -> Prio]
        /\ w.time_slice \in [Pid -> 0 .. SLICE_MOD - 1]
        /\ w.wakeup_time \in [Pid -> 0 .. TICK_MOD - 1] /\ w.process_bitmap \subseteq Pid
        /\ w.link \in Link /\ w.active_processes \in Int
  BY ManagerTypes DEF Good
<1>2. CASE w.system_ticks % REAP_PERIOD # 0
  <2>1. Reap(w) = w
    BY <1>2 DEF Reap
  <2>2. AfterReap(w, w, {})
    BY <1>1 DEF AfterReap
  <2> QED BY <2>1, <2>2
<1>3. CASE w.system_ticks % REAP_PERIOD = 0
  <2> DEFINE dead == OnList(w.link, TerminatedQ)
             Clear(f, v) == [p \in Pid |-> IF p \in dead THEN v ELSE f[p]]
             l == [c \in Cell |-> IF c \in dead \cup {TerminatedQ} THEN NULL ELSE w.link[c]]
             h == Reap(w)
  <2>1. dead = {p \in Pid : HomeMap(w)[p] = TerminatedQ}
    BY Sizes, OnListIs DEF Good, Lists
  <2>2. dead = {p \in Pid : w.state[p] = "TERMINATED" /\ w.call[p] = "none"}
    <3> HIDE DEF dead
    <3> QED BY <1>1, <2>1, HomeTells
  <2>3. h = [w EXCEPT !.link = l, !.state = Clear(w.state, "NONE"),
                      !.priority = Clear(w.priority, 0), !.time_slice = Clear(w.time_slice, 0),
                      !.wakeup_time = Clear(w.wakeup_time, 0),
                      !.process_bitmap = w.process_bitmap \ dead,
                      !.active_processes = w.active_processes - Cardinality(dead)]
    BY <1>3 DEF Reap, Freed
  <2> HIDE DEF dead
  <2>4. /\ Clear(w.state, "NONE") \in [Pid -> State]
        /\ Clear(w.priority, 0) \in [Pid -> Prio]
        /\ Clear(w.time_slice, 0) \in [Pid -> 0 .. SLICE_MOD - 1]
        /\ Clear(w.wakeup_time, 0) \in [Pid -> 0 .. TICK_MOD - 1]
        /\ l \in Link
    <3>1. "NONE" \in State /\ 0 \in Prio /\ 0 \in 0 .. SLICE_MOD - 1 /\ 0 \in 0 .. TICK_MOD - 1
      BY ManagerAssumption DEF State, Prio
    <3> QED BY <1>1, <3>1 DEF Link
  <2>5. w.active_processes - Cardinality(dead) \in Int /\ Cardinality(dead) \in Nat
    BY <1>1, <2>2, PidsFinite
  <2>6. Linked(l, [p \in Pid |-> IF p \in dead THEN NULL ELSE HomeMap(w)[p]])
    BY <2>1, ClearKeepsLists, Sizes DEF Good, Lists
  <2>7. \A f, v : Clear(f, v) = [p \in Pid |-> IF p \in dead THEN v ELSE f[p]]
    OBVIOUS
  <2> HIDE DEF Clear, l, h
  <2>8. /\ h \in Manager
        /\ h.link = l /\ h.state = Clear(w.state, "NONE") /\ h.priority = Clear(w.priority, 0)
        /\ h.process_bitmap = w.process_bitmap \ dead
        /\ h.active_processes = w.active_processes - Cardinality(dead)
        /\ h.current_process = w.current_process /\ h.system_ticks = w.system_ticks
        /\ h.call = w.call
    BY <1>1, <2>3, <2>4, <2>5 DEF Manager, Link
  <2>9. AfterReap(h, w, dead)
    BY <2>2, <2>7, <2>8 DEF AfterReap
  <2>10. Lists(h)
    <3>1. ASSUME NEW p \in Pid
          PROVE  HomeMap(h)[p] = IF p \in dead THEN NULL ELSE HomeMap(w)[p]
      <4>1. CASE p \in dead
        <5>1. h.state[p] = "NONE"
          BY <2>7, <2>8, <4>1
        <5> QED BY <2>8, <4>1, <5>1, HomeMapIs
      <4>2. CASE p \notin dead
        <5>1. h.state[p] = w.state[p] /\ h.priority[p] = w.priority[p] /\ h.call[p] = w.call[p]
          BY <2>7, <2>8, <4>2
        <5> QED BY <4>2, <5>1 DEF HomeMap, HomeQueue
      <4> QED BY <4>1, <4>2
    <3>2. HomeMap(h) = [p \in Pid |-> IF p \in dead THEN NULL ELSE HomeMap(w)[p]]
      BY <3>1 DEF HomeMap
    <3> QED BY <2>6, <2>8, <3>2 DEF Lists
  <2>11. Slots(h)
    <3>1. \A p \in Pid : h.state[p] # "NONE" <=> w.state[p] # "NONE" /\ p \notin dead
      BY <2>7, <2>8
    <3>2. h.process_bitmap = {p \in Pid : h.state[p] # "NONE"}
      BY <2>8, <3>1 DEF Good, Slots
    <3>3. w.process_bitmap \cap dead = dead
      BY <2>2 DEF Good, Slots
    <3>4. Cardinality(w.process_bitmap \ dead) = Cardinality(w.process_bitmap) - Cardinality(dead)
      <4>1. IsFiniteSet(w.process_bitmap)
        BY <1>1, PidsFinite
      <4> QED BY <3>3, <4>1, FS_Difference
    <3> QED BY <2>8, <3>2, <3>4 DEF Good, Slots
  <2>12. RunsCurrent(h)
    <3>1. \A p \in Pid : h.state[p] = "RUNNING" <=> w.state[p] = "RUNNING"
      BY <2>2, <2>7, <2>8
    <3> QED BY <2>8, <3>1 DEF Good, RunsCurrent
  <2>13. CallsFit(h)
    <3>1. \A p \in Pid : w.call[p] # "none" => h.state[p] = w.state[p]
      BY <2>2, <2>7, <2>8
    <3> QED BY <2>8, <3>1 DEF Good, CallsFit
  <2> QED BY <2>8, <2>9, <2>10, <2>11, <2>12, <2>13 DEF Good, h
<1> QED BY <1>2, <1>3

LEMMA ProductGrows ==
  ASSUME NEW a \in Nat, NEW x \in Nat, NEW y \in Nat, x <= y
  PROVE  a * x <= a * y /\ a * x \in Nat
<1>1. y - x \in Nat /\ a * (y - x) \in Nat /\ a * x \in Nat /\ a * y \in Nat
  OBVIOUS
<1>2. a * y = a * x + a * (y - x)
  OBVIOUS
<1> QED BY <1>1, <1>2

LEMMA SliceFits == \A i \in Prio : Slice(i) \in 0 .. SLICE_MOD - 1
<1> SUFFICES ASSUME NEW i \in Prio PROVE Slice(i) \in 0 .. SLICE_MOD - 1
  OBVIOUS
<1> DEFINE x == MAX_PRIORITY_LEVELS - i
<1>1. x \in Nat /\ x <= MAX_PRIORITY_LEVELS /\ MAX_PRIORITY_LEVELS \in Nat
        /\ TIME_SLICE_BASE \in Nat /\ SLICE_MOD \in Nat
        /\ TIME_SLICE_BASE * MAX_PRIORITY_LEVELS < SLICE_MOD
  BY ManagerAssumption DEF Prio
<1>2. Slice(i) = TIME_SLICE_BASE * x
  BY DEF Slice
<1> HIDE DEF x
<1> DEFINE s == TIME_SLICE_BASE * x
           t == TIME_SLICE_BASE * MAX_PRIORITY_LEVELS
<1>3. s <= t /\ s \in Nat /\ t \in Nat
  BY <1>1, ProductGrows
<1>4. t < SLICE_MOD
  BY <1>1
<1> HIDE DEF s, t
<1>5. s \in 0 .. SLICE_MOD - 1
  BY <1>1, <1>3, <1>4
<1> QED BY <1>2, <1>5 DEF s

\* r is h after the running process, if any, went back to a ready queue,
\* perhaps one level down.
AfterRequeue(r, h) ==
  /\ r.state = [p \in Pid |-> IF h.state[p] = "RUNNING" /\ h.call[p] # "dropped"
                              THEN "READY" ELSE h.state[p]]
  /\ \A p \in Pid : \/ r.priority[p] = h.priority[p]
                    \/ /\ p = h.current_process /\ h.state[p] = "RUNNING"
                       /\ r.priority[p] = h.priority[p] + 1
  /\ r.call = h.call
  /\ r.system_ticks = h.system_ticks

LEMMA RequeueIs ==
  ASSUME NEW h, Good(h)
  PROVE  /\ Requeue(h) \in Manager /\ Lists(Requeue(h)) /\ Slots(Requeue(h))
         /\ CallsFit(Requeue(h))
         /\ AfterRequeue(Requeue(h), h)
<1> DEFINE p == h.current_process
           spent == h.time_slice[p] = 0
           i == IF spent /\ h.priority[p] < MAX_PRIORITY_LEVELS - 1
                THEN h.priority[p] + 1 ELSE h.priority[p]
           t == IF spent THEN Slice(i) ELSE h.time_slice[p]
           n == [h EXCEPT !.priority[p] = i, !.time_slice[p] = t]
           r == Requeue(h)
<1>1. h \in Manager /\ Lists(h) /\ Slots(h) /\ RunsCurrent(h)
        /\ h.state \in [Pid -> State] /\ h.priority \in [Pid -> Prio]
        /\ h.time_slice \in [Pid -> 0 .. SLICE_MOD - 1] /\ p \in Pid \cup {NULL}
        /\ CallsFit(h)
  BY ManagerTypes DEF Good
<1>2. r = IF ~IsRunning(h) THEN h ELSE MakeReady(n, p)
  BY DEF Requeue
<1>3. CASE ~IsRunning(h)
  <2>1. \A s \in Pid : ~(h.state[s] = "RUNNING" /\ h.call[s] # "dropped")
    BY <1>1, <1>3, Sizes DEF RunsCurrent, IsRunning
  <2>2. AfterRequeue(h, h)
    BY <1>1, <2>1 DEF AfterRequeue
  <2> QED BY <1>1, <1>2, <1>3, <2>2
<1>4. CASE IsRunning(h)
  <2>1. p \in Pid /\ h.state[p] = "RUNNING" /\ h.call[p] = "none"
    <3>1. p \in Pid /\ h.state[p] = "RUNNING"
      BY <1>1, <1>4 DEF IsRunning
    <3>2. h.call[p] \in Progress
      BY <1>1, <3>1, ManagerTypes
    <3> QED BY <1>1, <3>1, <3>2 DEF CallsFit, Progress
  <2>2. i \in Prio /\ (i = h.priority[p] \/ i = h.priority[p] + 1)
    <3>1. h.priority[p] \in Prio
      BY <1>1, <2>1
    <3> QED BY <3>1, ManagerAssumption DEF Prio
  <2>3. t \in 0 .. SLICE_MOD - 1
    <3> HIDE DEF i
    <3> QED BY <1>1, <2>1, <2>2, SliceFits
  <2>4. r = MakeReady(n, p)
    BY <1>2, <1>4
  <2> HIDE DEF p, i, t, r
  <2>5. /\ n \in Manager /\ n.link = h.link /\ n.state = h.state
        /\ n.priority = [h.priority EXCEPT ![p] = i]
        /\ n.process_bitmap = h.process_bitmap /\ n.active_processes = h.active_processes
        /\ n.current_process = p /\ n.system_ticks = h.system_ticks /\ n.call = h.call
    <3>1. [h.priority EXCEPT ![p] = i] \in [Pid -> Prio]
      BY <1>1, <2>2
    <3>2. [h.time_slice EXCEPT ![p] = t] \in [Pid -> 0 .. SLICE_MOD - 1]
      BY <1>1, <2>3
    <3> QED BY <1>1, <3>1, <3>2 DEF Manager, p
  <2> HIDE DEF n
  <2>6. HomeMap(n) = HomeMap(h)
    <3>1. SameElsewhere(n, h, p)
      BY <1>1, <2>1, <2>5 DEF SameElsewhere
    <3>2. HomeMap(n)[p] = NULL /\ HomeMap(h)[p] = NULL
      BY <1>1, <2>1, <2>5, HomeMapIs
    <3>3. HomeMap(n) = [HomeMap(h) EXCEPT ![p] = NULL]
      BY <2>1, <3>1, <3>2, HomeMapChange
    <3> QED BY <3>2, <3>3 DEF HomeMap
  <2>7. HomeMap(n)[p] = NULL /\ HomeMap(n) \in Homes
    BY <2>1, <2>5, HomeMapIs
  <2>8. [HomeMap(n) EXCEPT ![p] = NULL] = HomeMap(n)
    BY <2>7 DEF Homes
  <2>9. Lists(r)
    BY <1>1, <2>1, <2>4, <2>5, <2>6, <2>8, MakeReadyIs DEF Lists
  <2>10. r \in Manager /\ r.state = [n.state EXCEPT ![p] = "READY"] /\ SameRest(r, n)
    BY <2>1, <2>4, <2>5, MakeReadyType
  <2>11. r.state = [h.state EXCEPT ![p] = "READY"]
    BY <2>5, <2>10
  <2>12. Slots(r)
    <3>1. \A s \in Pid : r.state[s] # "NONE" <=> h.state[s] # "NONE"
      BY <1>1, <2>1, <2>11
    <3> QED BY <1>1, <2>5, <2>10, <3>1 DEF Slots, SameRest
  <2>13. AfterRequeue(r, h)
    <3>1. \A s \in Pid : (h.state[s] = "RUNNING" /\ h.call[s] # "dropped") <=> s = p
      BY <1>1, <2>1 DEF RunsCurrent, p
    <3>2. r.state = [s \in Pid |-> IF h.state[s] = "RUNNING" /\ h.call[s] # "dropped"
                                   THEN "READY" ELSE h.state[s]]
      BY <1>1, <2>1, <2>11, <3>1
    <3>3. r.priority = [h.priority EXCEPT ![p] = i]
      BY <2>5, <2>10 DEF SameRest
    <3>4. \A s \in Pid : \/ r.priority[s] = h.priority[s]
                         \/ s = p /\ h.state[s] = "RUNNING" /\ r.priority[s] = h.priority[s] + 1
      BY <1>1, <2>1, <2>2, <3>3
    <3> QED BY <2>5, <2>10, <3>2, <3>4 DEF AfterRequeue, SameRest, p
  <2>14. CallsFit(r)
    <3>1. r.call = h.call /\ r.current_process = h.current_process
      BY <2>5, <2>10 DEF SameRest, p
    <3>2. \A s \in Pid : s # p => r.state[s] = h.state[s]
      BY <1>1, <2>11
    <3> QED BY <1>1, <2>1, <3>1, <3>2 DEF CallsFit
  <2> QED BY <2>9, <2>10, <2>12, <2>13, <2>14 DEF r
<1> QED BY <1>3, <1>4

\* Everything that is READY is on the ready queue of its level.
LEMMA ReadyIsQueued ==
  ASSUME NEW r \in Manager, Lists(r), CallsFit(r), NEW q \in Pid, r.state[q] = "READY"
  PROVE  /\ r.priority[q] \in ReadyLevels(r)
         /\ r.link[ReadyQ(r.priority[q])] <= q
<1> DEFINE c == ReadyQ(r.priority[q])
<1>1. r.priority[q] \in Prio
  BY ManagerTypes
<1>2. c \in Cell /\ c \in Head /\ c \notin Pid /\ c # NULL
  BY <1>1, Sizes
<1>3. HomeMap(r)[q] = c
  <2>1. r.call[q] \in Progress
    BY ManagerTypes
  <2>2. r.call[q] = "none"
    BY <2>1 DEF CallsFit, Progress
  <2> QED BY <2>2, HomeMapIs
<1> HIDE DEF c
<1>4. HomeOf(HomeMap(r), c) = HomeMap(r)[q]
  BY <1>2, <1>3 DEF HomeOf
<1>5. Linked(r.link, HomeMap(r))
  BY DEF Lists
<1>6. r.link[c] # NULL /\ r.link[c] <= q
  BY <1>2, <1>3, <1>4, <1>5, NoSkip
<1> QED BY <1>1, <1>6 DEF ReadyLevels, c

\* s is r with the best ready process on the CPU.
AfterDispatch(s, r) ==
  LET ready == {p \in Pid : r.state[p] = "READY"}
      n == s.current_process
  IN  /\ s.priority = r.priority
      /\ s.system_ticks = r.system_ticks
      /\ s.call = r.call
      /\ s.state = [p \in Pid |-> IF p = n THEN "RUNNING" ELSE r.state[p]]
      /\ \/ ready = {} /\ n = NULL
         \/ /\ n \in ready
            /\ \A q \in ready \ {n} : \/ r.priority[n] < r.priority[q]
                                      \/ r.priority[n] = r.priority[q] /\ n < q

LEMMA DispatchIs ==
  ASSUME NEW r \in Manager, Lists(r), Slots(r), CallsFit(r),
         \A p \in Pid : r.state[p] = "RUNNING" => r.call[p] = "dropped"
  PROVE  Good(Dispatch(r)) /\ AfterDispatch(Dispatch(r), r)
<1> DEFINE s == Dispatch(r)
           L == ReadyLevels(r)
<1>1. r.state \in [Pid -> State] /\ r.priority \in [Pid -> Prio] /\ r.link \in Link
  BY ManagerTypes
<1>2. L \subseteq Prio /\ L \subseteq Nat /\ Prio \subseteq Nat
  BY DEF ReadyLevels, Prio
<1>3. CASE L = {}
  <2>1. s = [r EXCEPT !.current_process = NULL]
    BY <1>3 DEF Dispatch
  <2> HIDE DEF s
  <2>2. s \in Manager /\ s.link = r.link /\ s.state = r.state /\ s.priority = r.priority
          /\ s.process_bitmap = r.process_bitmap /\ s.active_processes = r.active_processes
          /\ s.current_process = NULL /\ s.system_ticks = r.system_ticks /\ s.call = r.call
    BY <2>1 DEF Manager
  <2>3. HomeMap(s) = HomeMap(r)
    BY <2>2 DEF HomeMap, HomeQueue
  <2>4. Good(s)
    BY <2>2, <2>3, Sizes DEF Good, Lists, Slots, RunsCurrent, CallsFit
  <2>5. {p \in Pid : r.state[p] = "READY"} = {}
    BY <1>3, ReadyIsQueued
  <2>6. r.state = [p \in Pid |-> IF p = NULL THEN "RUNNING" ELSE r.state[p]]
    BY <1>1, Sizes
  <2>7. AfterDispatch(s, r)
    BY <2>2, <2>5, <2>6 DEF AfterDispatch
  <2> QED BY <2>4, <2>7 DEF s
<1>4. CASE L # {}
  <2> DEFINE i == Min(L)
             n == r.link[ReadyQ(i)]
             l == dequeue_process(r.link, ReadyQ(i))
  <2>1. i \in L /\ \A j \in L : i <= j
    <3>1. \E x \in L : \A y \in L : x <= y
      BY <1>2, <1>4, LeastNat
    <3> QED BY <3>1 DEF Min
  <2>2. s = [r EXCEPT !.link = l, !.state[n] = "RUNNING", !.current_process = n]
    BY <1>4 DEF Dispatch, RunHead
  <2> HIDE DEF i, s, L
  <2>3. i \in Prio /\ ReadyQ(i) \in Head /\ n # NULL
    BY <1>2, <2>1, Sizes DEF ReadyLevels, L
  <2>4. n \in Pid /\ HomeMap(r)[n] = ReadyQ(i) /\ Linked(l, [HomeMap(r) EXCEPT ![n] = NULL])
    BY <2>3, DequeueKeepsLists DEF Lists
  <2>5. r.state[n] = "READY" /\ r.priority[n] = i /\ r.call[n] = "none"
    <3>1. r.state[n] \in State /\ r.priority[n] \in Prio /\ i \in Prio
      BY <1>1, <2>3, <2>4
    <3>2. r.state[n] = "READY" /\ r.call[n] = "none"
      BY <2>3, <2>4, HomeTells
    <3>3. ReadyQ(r.priority[n]) = ReadyQ(i)
      BY <2>4, <3>2, HomeMapIs
    <3> QED BY <3>1, <3>2, <3>3, Sizes DEF ReadyQ, Prio
  <2>6. l \in Link
    BY <2>4 DEF Linked
  <2> HIDE DEF n, l
  <2>7. /\ s \in Manager /\ s.link = l /\ s.state = [r.state EXCEPT ![n] = "RUNNING"]
        /\ s.priority = r.priority /\ s.process_bitmap = r.process_bitmap
        /\ s.active_processes = r.active_processes
        /\ s.current_process = n /\ s.system_ticks = r.system_ticks /\ s.call = r.call
    <3>1. [r.state EXCEPT ![n] = "RUNNING"] \in [Pid -> State]
      BY <1>1 DEF State
    <3> QED BY <2>2, <2>4, <2>6, <3>1 DEF Manager, Link
  <2>8. HomeMap(s) = [HomeMap(r) EXCEPT ![n] = NULL]
    <3>1. SameElsewhere(s, r, n)
      BY <1>1, <2>7 DEF SameElsewhere
    <3>2. s.state[n] = "RUNNING"
      BY <1>1, <2>4, <2>7
    <3>3. HomeMap(s)[n] = NULL
      BY <2>4, <2>7, <3>2, HomeMapIs
    <3> QED BY <2>4, <3>1, <3>3, HomeMapChange
  <2>9. Good(s)
    <3>1. Lists(s)
      BY <2>4, <2>7, <2>8 DEF Lists
    <3>2. \A p \in Pid : s.state[p] # "NONE" <=> r.state[p] # "NONE"
      BY <1>1, <2>5, <2>7
    <3>3. Slots(s)
      BY <2>7, <3>2 DEF Slots
    <3>4. \A p \in Pid : s.state[p] = IF p = n THEN "RUNNING" ELSE r.state[p]
      BY <1>1, <2>4, <2>7
    <3>5. RunsCurrent(s)
      BY <2>4, <2>5, <2>7, <3>4 DEF RunsCurrent
    <3>6. CallsFit(s)
      BY <2>4, <2>5, <2>7, <3>4 DEF CallsFit
    <3> QED BY <2>7, <3>1, <3>3, <3>5, <3>6 DEF Good
  <2>10. ASSUME NEW q \in Pid, r.state[q] = "READY", q # n
         PROVE  \/ r.priority[n] < r.priority[q]
                \/ r.priority[n] = r.priority[q] /\ n < q
    <3>1. r.priority[q] \in L /\ r.link[ReadyQ(r.priority[q])] <= q
      BY <2>10, ReadyIsQueued DEF L
    <3>2. i <= r.priority[q] /\ i \in Nat /\ r.priority[q] \in Nat
      BY <1>2, <2>1, <3>1
    <3>3. CASE i = r.priority[q]
      <4>1. n <= q /\ n \in Nat /\ q \in Nat
        BY <2>4, <3>1, <3>3, Sizes DEF n
      <4> QED BY <2>5, <2>10, <3>3, <4>1
    <3>4. CASE i # r.priority[q]
      BY <2>5, <3>2, <3>4
    <3> QED BY <3>3, <3>4
  <2>11. AfterDispatch(s, r)
    <3>1. s.state = [p \in Pid |-> IF p = n THEN "RUNNING" ELSE r.state[p]]
      BY <1>1, <2>4, <2>7
    <3>2. n \in {p \in Pid : r.state[p] = "READY"}
      BY <2>4, <2>5
    <3> QED BY <2>7, <2>10, <3>1, <3>2 DEF AfterDispatch
  <2> QED BY <2>9, <2>11 DEF s
<1> QED BY <1>3, <1>4

\* What a tick may put on the CPU without waking anybody.
Runnable(m) ==
  {p \in Pid : m.state[p] = "READY" \/ (m.state[p] = "RUNNING" /\ m.call[p] # "dropped")}

\* s is m after one tick and the scheduling: `woken' sleepers became ready,
\* `reaped' slots free, and the best of the ready processes runs.
Ticked(s, m, woken, reaped) ==
  LET ready == Runnable(m) \cup woken
      n == s.current_process
  IN  /\ woken \subseteq {p \in Pid : m.state[p] = "BLOCKED" /\ m.call[p] = "none"}
      /\ reaped \in {{}, {p \in Pid : m.state[p] = "TERMINATED" /\ m.call[p] = "none"}}
      /\ s.call = m.call
      /\ \A p \in Pid :
           IF p \in reaped THEN s.priority[p] = 0
           ELSE \/ s.priority[p] = m.priority[p]
                \/ /\ p = m.current_process /\ m.state[p] = "RUNNING"
                   /\ s.priority[p] = m.priority[p] + 1
      /\ \/ ready = {} /\ n = NULL
         \/ /\ n \in ready
            /\ \A q \in ready \ {n} : \/ s.priority[n] < s.priority[q]
                                      \/ s.priority[n] = s.priority[q] /\ n < q
      /\ s.state = [p \in Pid |-> IF p = n THEN "RUNNING"
                                  ELSE IF p \in ready THEN "READY"
                                  ELSE IF p \in reaped THEN "NONE" ELSE m.state[p]]

LEMMA TickIs ==
  ASSUME NEW m, Good(m), NEW w, w = Wake(m), NEW h, h = Reap(w),
         NEW r, r = Requeue(h), NEW s, s = Dispatch(r)
  PROVE  Good(s) /\ s.system_ticks = m.system_ticks
           /\ \E woken, reaped : Ticked(s, m, woken, reaped)
<1>1. Good(w) /\ \E woken : AfterWake(w, m, woken)
  BY WakeIs
<1>2. PICK woken : AfterWake(w, m, woken)
  BY <1>1
<1>3. Good(h) /\ \E dead : AfterReap(h, w, dead)
  BY <1>1, ReapIs
<1>4. PICK dead : AfterReap(h, w, dead)
  BY <1>3
<1>5. r \in Manager /\ Lists(r) /\ Slots(r) /\ CallsFit(r) /\ AfterRequeue(r, h)
  BY <1>3, RequeueIs
<1>6. \A p \in Pid : r.state[p] = "RUNNING" => r.call[p] = "dropped"
  BY <1>5 DEF AfterRequeue
<1>7. Good(s) /\ AfterDispatch(s, r)
  BY <1>5, <1>6, DispatchIs
<1> DEFINE ready == Runnable(m) \cup woken
           n == s.current_process
<1>8. woken \subseteq {p \in Pid : m.state[p] = "BLOCKED" /\ m.call[p] = "none"}
        /\ ready \subseteq Pid
  BY <1>2 DEF AfterWake, Runnable
<1>9. w.state = [p \in Pid |-> IF p \in woken THEN "READY" ELSE m.state[p]]
        /\ w.priority = m.priority /\ w.current_process = m.current_process
        /\ w.system_ticks = m.system_ticks /\ w.call = m.call
  BY <1>2 DEF AfterWake, SameRest
<1>10. dead \in {{}, {p \in Pid : m.state[p] = "TERMINATED" /\ m.call[p] = "none"}}
  <2>1. \A p \in Pid : w.state[p] = "TERMINATED" <=> m.state[p] = "TERMINATED"
    BY <1>8, <1>9
  <2> QED BY <1>4, <1>9, <2>1 DEF AfterReap
<1>11. h.state = [p \in Pid |-> IF p \in dead THEN "NONE" ELSE w.state[p]]
         /\ h.priority = [p \in Pid |-> IF p \in dead THEN 0 ELSE w.priority[p]]
         /\ h.current_process = m.current_process /\ h.system_ticks = m.system_ticks
         /\ h.call = m.call
  BY <1>4, <1>9 DEF AfterReap
<1>12. \A p \in Pid : r.state[p] = IF p \in ready THEN "READY"
                                   ELSE IF p \in dead THEN "NONE" ELSE m.state[p]
  <2>1. \A p \in Pid : r.state[p] = IF h.state[p] = "RUNNING" /\ h.call[p] # "dropped"
                                    THEN "READY" ELSE h.state[p]
    BY <1>5 DEF AfterRequeue
  <2>2. \A p \in Pid : p \in dead => m.state[p] = "TERMINATED"
    BY <1>10
  <2> QED BY <1>8, <1>9, <1>11, <2>1, <2>2 DEF Runnable
<1>13. ready = {p \in Pid : r.state[p] = "READY"}
  <2>1. \A p \in Pid : m.state[p] = "READY" => p \in ready
    BY DEF Runnable
  <2> HIDE DEF ready
  <2> QED BY <1>8, <1>12, <2>1
<1>14. ASSUME NEW p \in Pid
       PROVE  IF p \in dead THEN s.priority[p] = 0
              ELSE \/ s.priority[p] = m.priority[p]
                   \/ /\ p = m.current_process /\ m.state[p] = "RUNNING"
                      /\ s.priority[p] = m.priority[p] + 1
  <2>1. \/ r.priority[p] = h.priority[p]
        \/ /\ p = h.current_process /\ h.state[p] = "RUNNING"
           /\ r.priority[p] = h.priority[p] + 1
    BY <1>5 DEF AfterRequeue
  <2>2. s.priority = r.priority
    BY <1>7 DEF AfterDispatch
  <2>3. h.state[p] = "RUNNING" => p \notin dead /\ m.state[p] = "RUNNING"
    BY <1>8, <1>9, <1>11
  <2> QED BY <1>9, <1>11, <2>1, <2>2, <2>3
<1> HIDE DEF ready
<1>15. /\ \/ ready = {} /\ n = NULL
          \/ /\ n \in ready
             /\ \A q \in ready \ {n} : \/ s.priority[n] < s.priority[q]
                                       \/ s.priority[n] = s.priority[q] /\ n < q
       /\ s.state = [p \in Pid |-> IF p = n THEN "RUNNING" ELSE r.state[p]]
  BY <1>7, <1>13 DEF AfterDispatch
<1>16. s.state = [p \in Pid |-> IF p = n THEN "RUNNING"
                                ELSE IF p \in ready THEN "READY"
                                ELSE IF p \in dead THEN "NONE" ELSE m.state[p]]
  BY <1>12, <1>15
<1>17. Ticked(s, m, woken, dead)
  <2>1. s.call = m.call
    BY <1>5, <1>7, <1>11 DEF AfterRequeue, AfterDispatch
  <2> QED BY <1>8, <1>10, <1>14, <1>15, <1>16, <2>1 DEF Ticked, ready
<1>18. s.system_ticks = m.system_ticks
  BY <1>5, <1>7, <1>11 DEF AfterRequeue, AfterDispatch
<1> QED BY <1>7, <1>17, <1>18

\* A tick never leaves a ready process better than the one it runs.
LEMMA TickedIsBest ==
  ASSUME NEW s \in Manager, NEW m, NEW woken, NEW reaped, Ticked(s, m, woken, reaped),
         NEW r \in Pid, s.state[r] = "READY"
  PROVE  /\ s.current_process # NULL
         /\ \/ s.priority[s.current_process] < s.priority[r]
            \/ s.priority[s.current_process] = s.priority[r] /\ s.current_process < r
<1> DEFINE ready == Runnable(m) \cup woken
           n == s.current_process
<1>1. r # n /\ r \in ready
  BY DEF Ticked, Runnable
<1>2. ready \subseteq Pid
  BY DEF Ticked, Runnable
<1>3. \/ ready = {} /\ n = NULL
      \/ /\ n \in ready
         /\ \A q \in ready \ {n} : \/ s.priority[n] < s.priority[q]
                                   \/ s.priority[n] = s.priority[q] /\ n < q
  BY Zenon DEF Ticked
<1> HIDE DEF ready
<1> QED BY <1>1, <1>2, <1>3, Sizes

-----------------------------------------------------------------------------
(* The calls.                                                              *)

\* terminate_process of any process.
LEMMA TerminatedType ==
  ASSUME NEW m \in Manager, NEW p \in Pid, m.state[p] # "NONE"
  PROVE  /\ Terminated(m, p) \in Manager
         /\ Slots(m) => Slots(Terminated(m, p))
         /\ Terminated(m, p).link = enqueue_process(m.link, TerminatedQ, p)
         /\ Terminated(m, p).state = [m.state EXCEPT ![p] = "TERMINATED"]
         /\ Terminated(m, p).call = [m.call EXCEPT ![p] = "none"]
         /\ Terminated(m, p).priority = m.priority
         /\ Terminated(m, p).current_process =
              IF m.current_process = p THEN NULL ELSE m.current_process
         /\ Terminated(m, p).system_ticks = m.system_ticks
<1> DEFINE l == enqueue_process(m.link, TerminatedQ, p)
           t == Terminated(m, p)
           c == IF m.current_process = p THEN NULL ELSE m.current_process
<1>1. m.state \in [Pid -> State] /\ m.link \in Link /\ m.call \in [Pid -> Progress]
        /\ c \in Pid \cup {NULL}
  BY ManagerTypes
<1>2. l \in Link
  BY <1>1, Sizes, EnqueueKeepsType
<1>3. t = [m EXCEPT !.state[p] = "TERMINATED", !.current_process = c, !.link = l, !.call[p] = "none"]
  BY DEF Terminated
<1> HIDE DEF l, t, c
<1>4. [m.state EXCEPT ![p] = "TERMINATED"] \in [Pid -> State]
        /\ [m.call EXCEPT ![p] = "none"] \in [Pid -> Progress]
  BY <1>1 DEF State, Progress
<1>5. /\ t \in Manager /\ t.link = l /\ t.state = [m.state EXCEPT ![p] = "TERMINATED"]
      /\ t.call = [m.call EXCEPT ![p] = "none"]
      /\ t.priority = m.priority /\ t.process_bitmap = m.process_bitmap
      /\ t.active_processes = m.active_processes
      /\ t.current_process = c /\ t.system_ticks = m.system_ticks
  BY <1>1, <1>2, <1>3, <1>4 DEF Manager, Link
<1>6. \A s \in Pid : t.state[s] # "NONE" <=> m.state[s] # "NONE"
  BY <1>1, <1>5
<1>7. Slots(m) => Slots(t)
  BY <1>5, <1>6 DEF Slots
<1> QED BY <1>5, <1>7 DEF t, l, c

\* terminate_process of a process that is on no queue: the running one, or one
\* whose own call was never finished.
LEMMA TerminatedIs ==
  ASSUME NEW m, Good(m), NEW p \in Pid, m.state[p] # "NONE", HomeMap(m)[p] = NULL
  PROVE  Good(Terminated(m, p))
<1> DEFINE l == enqueue_process(m.link, TerminatedQ, p)
           t == Terminated(m, p)
<1>1. m \in Manager /\ m.state \in [Pid -> State] /\ m.call \in [Pid -> Progress]
        /\ Slots(m) /\ RunsCurrent(m) /\ CallsFit(m)
  BY ManagerTypes DEF Good
<1>2. Linked(l, [HomeMap(m) EXCEPT ![p] = TerminatedQ])
  BY Sizes, EnqueueKeepsLists DEF Good, Lists
<1>3. /\ t \in Manager /\ Slots(t) /\ t.link = l
      /\ t.state = [m.state EXCEPT ![p] = "TERMINATED"]
      /\ t.call = [m.call EXCEPT ![p] = "none"]
      /\ t.priority = m.priority
      /\ t.current_process = IF m.current_process = p THEN NULL ELSE m.current_process
  BY <1>1, TerminatedType
<1> HIDE DEF l, t
<1>4. \A s \in Pid : /\ t.state[s] = IF s = p THEN "TERMINATED" ELSE m.state[s]
                     /\ t.call[s] = IF s = p THEN "none" ELSE m.call[s]
                     /\ s # NULL
  BY <1>1, <1>3, Sizes
<1>5. HomeMap(t) = [HomeMap(m) EXCEPT ![p] = TerminatedQ]
  <2>1. SameElsewhere(t, m, p)
    BY <1>3, <1>4 DEF SameElsewhere
  <2>2. HomeMap(t)[p] = TerminatedQ
    BY <1>3, <1>4, HomeMapIs
  <2> QED BY <2>1, <2>2, HomeMapChange
<1>6. Lists(t)
  BY <1>2, <1>3, <1>5 DEF Lists
<1>7. RunsCurrent(t)
  BY <1>1, <1>3, <1>4 DEF RunsCurrent
<1>8. CallsFit(t)
  BY <1>1, <1>3, <1>4 DEF CallsFit
<1> QED BY <1>3, <1>6, <1>7, <1>8 DEF Good, t

\* block_process of a ready or the running process.
LEMMA BlockedIs ==
  ASSUME NEW m, Good(m), NEW p \in Pid, NEW wait \in WaitTimes,
         m.state[p] = "READY" \/ p = m.current_process, m.call[p] = "none"
  PROVE  LET b == Blocked(TakeOff(m, p), p, wait)
         IN  /\ Good(b)
             /\ b.state = [m.state EXCEPT ![p] = "BLOCKED"]
             /\ b.priority = m.priority
             /\ b.call = m.call
             /\ b.current_process = IF m.state[p] = "READY" THEN m.current_process ELSE NULL
             /\ b.system_ticks = m.system_ticks
<1> DEFINE n == TakeOff(m, p)
           b == Blocked(n, p, wait)
           l == enqueue_process(n.link, BlockedQ, p)
           t == (n.system_ticks + wait) % TICK_MOD
           cur == IF m.state[p] = "READY" THEN m.current_process ELSE NULL
<1>1. m \in Manager /\ m.state \in [Pid -> State] /\ m.link \in Link /\ Lists(m)
        /\ m.current_process \in Pid \cup {NULL} /\ RunsCurrent(m) /\ CallsFit(m)
  BY ManagerTypes DEF Good
<1>2. m.state[p] \in {"READY", "RUNNING"} /\ (m.state[p] = "READY" => m.current_process # p)
        /\ (m.state[p] = "RUNNING" => m.current_process = p)
  BY DEF Good, RunsCurrent
<1>3. /\ n \in Manager /\ n.state = m.state /\ n.priority = m.priority
      /\ n.process_bitmap = m.process_bitmap /\ n.active_processes = m.active_processes
      /\ n.current_process = cur /\ n.system_ticks = m.system_ticks /\ n.call = m.call
      /\ Linked(n.link, [HomeMap(m) EXCEPT ![p] = NULL])
  <2>1. CASE m.state[p] = "READY"
    <3> DEFINE k == remove_process_from_queue(m.link, ReadyQ(m.priority[p]), p)
    <3>1. HomeMap(m)[p] = ReadyQ(m.priority[p]) /\ m.priority[p] \in Prio
      BY <1>1, <2>1, HomeMapIs, ManagerTypes
    <3>2. Linked(k, [HomeMap(m) EXCEPT ![p] = NULL])
      BY <1>1, <3>1, Sizes, RemoveKeepsLists DEF Lists
    <3>3. k \in Link
      BY <3>2 DEF Linked
    <3>4. n = [m EXCEPT !.link = k]
      BY <2>1 DEF TakeOff
    <3> HIDE DEF k, n
    <3> QED BY <1>1, <2>1, <3>2, <3>3, <3>4 DEF Manager, Link
  <2>2. CASE m.state[p] = "RUNNING"
    <3>1. HomeMap(m)[p] = NULL /\ HomeMap(m) \in Homes
      BY <1>1, <2>2, HomeMapIs
    <3>2. [HomeMap(m) EXCEPT ![p] = NULL] = HomeMap(m)
      BY <3>1 DEF Homes
    <3>3. n = [m EXCEPT !.current_process = NULL]
      BY <2>2 DEF TakeOff
    <3> HIDE DEF n
    <3> QED BY <1>1, <2>2, <3>2, <3>3 DEF Manager, Lists
  <2> QED BY <1>2, <2>1, <2>2
<1> HIDE DEF n, cur
<1>4. t \in 0 .. TICK_MOD - 1
  <2>1. \A a \in Int : a % TICK_MOD \in 0 .. TICK_MOD - 1
    BY ManagerAssumption
  <2>2. n.system_ticks \in Int /\ wait \in Int
    BY <1>3, ManagerTypes, ManagerAssumption
  <2> QED BY <2>1, <2>2
<1> DEFINE h == [HomeMap(m) EXCEPT ![p] = NULL]
<1>5. h[p] = NULL /\ [h EXCEPT ![p] = BlockedQ] = [HomeMap(m) EXCEPT ![p] = BlockedQ]
  BY <1>1, HomeMapIs DEF Homes
<1>6. Linked(l, [HomeMap(m) EXCEPT ![p] = BlockedQ])
  <2> HIDE DEF h
  <2>1. Linked(n.link, h)
    BY <1>3 DEF h
  <2>2. Linked(l, [h EXCEPT ![p] = BlockedQ])
    BY <1>5, <2>1, Sizes, EnqueueKeepsLists
  <2> QED BY <1>5, <2>2
<1>7. l \in Link
  BY <1>6 DEF Linked
<1>8. b = [n EXCEPT !.state[p] = "BLOCKED", !.wakeup_time[p] = t, !.link = l]
  BY DEF Blocked
<1> HIDE DEF l, t, b
<1>9. /\ b \in Manager /\ b.link = l /\ b.state = [m.state EXCEPT ![p] = "BLOCKED"]
      /\ b.priority = m.priority /\ b.process_bitmap = m.process_bitmap
      /\ b.active_processes = m.active_processes
      /\ b.current_process = cur /\ b.system_ticks = m.system_ticks /\ b.call = m.call
  <2>1. [m.state EXCEPT ![p] = "BLOCKED"] \in [Pid -> State]
    BY <1>1 DEF State
  <2>2. [n.wakeup_time EXCEPT ![p] = t] \in [Pid -> 0 .. TICK_MOD - 1]
    BY <1>3, <1>4, ManagerTypes
  <2> QED BY <1>3, <1>7, <1>8, <2>1, <2>2 DEF Manager, Link
<1>10. HomeMap(b) = [HomeMap(m) EXCEPT ![p] = BlockedQ]
  <2>1. SameElsewhere(b, m, p)
    BY <1>1, <1>9 DEF SameElsewhere
  <2>2. b.state[p] = "BLOCKED"
    BY <1>1, <1>9
  <2>3. HomeMap(b)[p] = BlockedQ
    BY <1>9, <2>2, HomeMapIs
  <2> QED BY <2>1, <2>3, HomeMapChange
<1>11. Lists(b)
  BY <1>6, <1>9, <1>10 DEF Lists
<1>12. Slots(b)
  <2>1. \A s \in Pid : b.state[s] # "NONE" <=> m.state[s] # "NONE"
    BY <1>1, <1>2, <1>9
  <2> QED BY <1>9, <2>1 DEF Good, Slots
<1>13. \A s \in Pid : /\ s # NULL
                      /\ b.state[s] = IF s = p THEN "BLOCKED" ELSE m.state[s]
  BY <1>1, <1>9, Sizes
<1>14. RunsCurrent(b)
  BY <1>1, <1>2, <1>9, <1>13 DEF RunsCurrent, cur
<1>15. CallsFit(b)
  BY <1>1, <1>2, <1>9, <1>13 DEF CallsFit, cur
<1> QED BY <1>9, <1>11, <1>12, <1>14, <1>15 DEF Good, b, n, cur

\* create_process in the smallest free slot.
LEMMA CreatedIs ==
  ASSUME NEW m, Good(m), NEW i \in Prio, FreePids(m) # {},
         NEW p, p = find_free_pid(m),
         NEW n, n = NewProcess(m, p, i)
  PROVE  /\ p \in Pid /\ m.state[p] = "NONE" /\ \A q \in FreePids(m) : p <= q
         /\ Good(MakeReady(n, p))
         /\ MakeReady(n, p).state = [m.state EXCEPT ![p] = "READY"]
         /\ MakeReady(n, p).priority = [m.priority EXCEPT ![p] = i]
         /\ MakeReady(n, p).call = m.call /\ m.call[p] = "none"
         /\ MakeReady(n, p).current_process = m.current_process
         /\ MakeReady(n, p).system_ticks = m.system_ticks
<1> DEFINE r == MakeReady(n, p)
           F == FreePids(m)
<1>1. m \in Manager /\ m.state \in [Pid -> State] /\ m.priority \in [Pid -> Prio]
        /\ m.time_slice \in [Pid -> 0 .. SLICE_MOD - 1]
        /\ m.wakeup_time \in [Pid -> 0 .. TICK_MOD - 1]
        /\ m.process_bitmap \subseteq Pid /\ m.active_processes \in Int /\ Lists(m)
  BY ManagerTypes DEF Good
<1>2. p \in F /\ \A q \in F : p <= q
  <2>1. F \subseteq Nat
    BY Sizes DEF FreePids
  <2>2. \E x \in F : \A y \in F : x <= y
    BY <2>1, LeastNat
  <2> QED BY <2>2 DEF find_free_pid, Min
<1>3. p \in Pid /\ m.state[p] = "NONE" /\ p \notin m.process_bitmap /\ m.call[p] = "none"
  <2>1. p \in Pid /\ m.state[p] = "NONE" /\ p \notin m.process_bitmap
    BY <1>2 DEF FreePids, Good, Slots
  <2>2. m.call[p] \in Progress
    BY <1>1, <2>1, ManagerTypes
  <2> QED BY <2>1, <2>2 DEF Good, CallsFit, Progress
<1>4. /\ n \in Manager /\ n.link = m.link /\ n.state = m.state
      /\ n.priority = [m.priority EXCEPT ![p] = i]
      /\ n.process_bitmap = m.process_bitmap \cup {p}
      /\ n.active_processes = m.active_processes + 1
      /\ n.current_process = m.current_process /\ n.system_ticks = m.system_ticks
      /\ n.call = m.call
  <2>1. Slice(i) \in 0 .. SLICE_MOD - 1 /\ 0 \in 0 .. TICK_MOD - 1
    BY SliceFits, ManagerAssumption
  <2>2. /\ [m.priority EXCEPT ![p] = i] \in [Pid -> Prio]
        /\ [m.time_slice EXCEPT ![p] = Slice(i)] \in [Pid -> 0 .. SLICE_MOD - 1]
        /\ [m.wakeup_time EXCEPT ![p] = 0] \in [Pid -> 0 .. TICK_MOD - 1]
        /\ m.process_bitmap \cup {p} \subseteq Pid
        /\ m.active_processes + 1 \in Int
    BY <1>1, <1>3, <2>1
  <2> QED BY <1>1, <2>2 DEF Manager, NewProcess
<1>5. HomeMap(n) = HomeMap(m) /\ HomeMap(n)[p] = NULL /\ HomeMap(n) \in Homes
  <2>1. SameElsewhere(n, m, p)
    BY <1>1, <1>4 DEF SameElsewhere
  <2>2. HomeMap(n)[p] = NULL /\ HomeMap(m)[p] = NULL /\ HomeMap(n) \in Homes
    BY <1>1, <1>3, <1>4, HomeMapIs
  <2>3. HomeMap(n) = [HomeMap(m) EXCEPT ![p] = NULL]
    BY <1>3, <2>1, <2>2, HomeMapChange
  <2> QED BY <2>2, <2>3 DEF HomeMap
<1>6. [HomeMap(n) EXCEPT ![p] = NULL] = HomeMap(n)
  BY <1>5 DEF Homes
<1>7. Lists(r)
  BY <1>1, <1>3, <1>4, <1>5, <1>6, MakeReadyIs DEF Lists
<1>8. r \in Manager /\ r.state = [n.state EXCEPT ![p] = "READY"] /\ SameRest(r, n)
  BY <1>3, <1>4, MakeReadyType
<1> HIDE DEF r
<1>9. r.state = [m.state EXCEPT ![p] = "READY"]
  BY <1>4, <1>8
<1>10. r.priority = [m.priority EXCEPT ![p] = i] /\ r.current_process = m.current_process
         /\ r.system_ticks = m.system_ticks /\ r.process_bitmap = m.process_bitmap \cup {p}
         /\ r.active_processes = m.active_processes + 1 /\ r.call = m.call
  BY <1>4, <1>8 DEF SameRest
<1>11. Slots(r)
  <2>1. \A s \in Pid : r.state[s] # "NONE" <=> m.state[s] # "NONE" \/ s = p
    BY <1>1, <1>9
  <2>2. r.process_bitmap = {s \in Pid : r.state[s] # "NONE"}
    BY <1>3, <1>10, <2>1 DEF Good, Slots
  <2>3. Cardinality(m.process_bitmap \cup {p}) = Cardinality(m.process_bitmap) + 1
    BY <1>1, <1>3, PidsFinite, FS_AddElement
  <2> QED BY <1>10, <2>2, <2>3 DEF Good, Slots
<1>12. \A s \in Pid : r.state[s] = IF s = p THEN "READY" ELSE m.state[s]
  BY <1>1, <1>9
<1>13. RunsCurrent(r) /\ CallsFit(r)
  BY <1>3, <1>10, <1>12 DEF Good, RunsCurrent, CallsFit
<1> QED BY <1>2, <1>3, <1>7, <1>8, <1>9, <1>10, <1>11, <1>13 DEF Good, r

LEMMA SameHomes ==
  ASSUME NEW a, NEW b, a.state = b.state, a.priority = b.priority, a.call = b.call
  PROVE  HomeMap(a) = HomeMap(b)
BY DEF HomeMap, HomeQueue

\* unblock_process, also of a process that was lost before it was linked.
Awoken(m, p) == [Unblock(m, p) EXCEPT !.call[p] = "none"]

LEMMA UnblockedIs ==
  ASSUME NEW m, Good(m), NEW p \in Pid, m.state[p] = "BLOCKED",
         NEW u, u = Awoken(m, p)
  PROVE  /\ Good(u)
         /\ u.state = [m.state EXCEPT ![p] = "READY"]
         /\ u.call = [m.call EXCEPT ![p] = "none"]
         /\ u.priority = m.priority /\ u.current_process = m.current_process
         /\ u.system_ticks = m.system_ticks
<1> DEFINE l == remove_process_from_queue(m.link, BlockedQ, p)
           k == [m EXCEPT !.link = l]
           n == [m EXCEPT !.link = l, !.call[p] = "none"]
           r == MakeReady(n, p)
           e == enqueue_process(l, ReadyQ(m.priority[p]), p)
<1>1. m \in Manager /\ m.state \in [Pid -> State] /\ m.call \in [Pid -> Progress] /\ Lists(m)
  BY ManagerTypes DEF Good
<1>2. HomeMap(m) \in Homes /\ HomeMap(m)[p] \in {BlockedQ, NULL}
  BY <1>1, HomeTells, HomeMapIs
<1>3. Linked(l, [HomeMap(m) EXCEPT ![p] = NULL])
  <2>1. CASE HomeMap(m)[p] = BlockedQ
    BY <1>1, <2>1, Sizes, RemoveKeepsLists DEF Lists
  <2>2. CASE HomeMap(m)[p] = NULL
    <3>1. l = m.link
      BY <1>1, <2>2, Sizes, RemoveMissing DEF Lists
    <3>2. [HomeMap(m) EXCEPT ![p] = NULL] = HomeMap(m)
      BY <1>2, <2>2 DEF Homes
    <3> QED BY <1>1, <3>1, <3>2 DEF Lists
  <2> QED BY <1>2, <2>1, <2>2
<1>4. l \in Link
  BY <1>3 DEF Linked
<1>5. Unblock(m, p) = MakeReady(k, p)
  BY DEF Unblock
<1> HIDE DEF l
<1>6. k \in Manager /\ k.link = l /\ k.state = m.state /\ SameRest(k, m)
  BY <1>1, <1>4 DEF Manager, Link, SameRest
<1>7. /\ n \in Manager /\ n.link = l /\ n.state = m.state /\ n.priority = m.priority
      /\ n.call = [m.call EXCEPT ![p] = "none"] /\ n.call[p] = "none"
  <2>1. [m.call EXCEPT ![p] = "none"] \in [Pid -> Progress]
    BY <1>1 DEF Progress
  <2> QED BY <1>1, <1>4, <2>1 DEF Manager, Link
<1> HIDE DEF k, n
<1>8. [HomeMap(n) EXCEPT ![p] = NULL] = [HomeMap(m) EXCEPT ![p] = NULL]
  <2>1. SameElsewhere(n, m, p)
    BY <1>1, <1>7 DEF SameElsewhere
  <2>2. HomeMap(n) = [HomeMap(m) EXCEPT ![p] = HomeMap(n)[p]]
    BY <2>1, HomeMapChange
  <2> QED BY <1>2, <2>2 DEF Homes
<1>9. Lists(r)
  BY <1>3, <1>7, <1>8, MakeReadyIs
<1>10. r.link = e /\ r.state = [m.state EXCEPT ![p] = "READY"] /\ r.priority = m.priority
         /\ r.call = [m.call EXCEPT ![p] = "none"]
  BY <1>7, MakeReadyType DEF SameRest
<1>11. LET b == MakeReady(k, p)
       IN  /\ b \in Manager /\ b.link = e /\ b.state = [m.state EXCEPT ![p] = "READY"]
           /\ SameRest(b, m)
  <2>1. k.priority = m.priority
    BY <1>6 DEF SameRest
  <2> QED BY <1>6, <2>1, MakeReadyType DEF SameRest
<1> HIDE DEF r, e
<1>12. /\ u \in Manager /\ u.link = e /\ u.state = [m.state EXCEPT ![p] = "READY"]
       /\ u.call = [m.call EXCEPT ![p] = "none"]
       /\ u.priority = m.priority /\ u.current_process = m.current_process
       /\ u.system_ticks = m.system_ticks
       /\ u.process_bitmap = m.process_bitmap /\ u.active_processes = m.active_processes
  <2> DEFINE b == MakeReady(k, p)
  <2>1. b \in Manager /\ b.link = e /\ b.state = [m.state EXCEPT ![p] = "READY"] /\ SameRest(b, m)
    BY <1>11
  <2>2. u = [b EXCEPT !.call[p] = "none"]
    BY <1>5 DEF Awoken
  <2> HIDE DEF b
  <2> DEFINE c == [b.call EXCEPT ![p] = "none"]
  <2>3. c = [m.call EXCEPT ![p] = "none"] /\ c \in [Pid -> Progress]
    BY <1>1, <2>1 DEF SameRest, Progress
  <2>4. u = [b EXCEPT !.call = c]
    BY <2>2
  <2> HIDE DEF c
  <2>5. u \in Manager
    BY <2>1, <2>3, <2>4 DEF Manager
  <2>6. /\ u.link = b.link /\ u.state = b.state /\ u.call = c /\ u.priority = b.priority
        /\ u.current_process = b.current_process /\ u.system_ticks = b.system_ticks
        /\ u.process_bitmap = b.process_bitmap /\ u.active_processes = b.active_processes
    BY <2>1, <2>4 DEF Manager
  <2> QED BY <2>1, <2>3, <2>5, <2>6 DEF SameRest
<1>13. Lists(u)
  <2>1. HomeMap(u) = HomeMap(r)
    <3>1. u.state = r.state /\ u.priority = r.priority /\ u.call = r.call
      BY <1>10, <1>12
    <3> QED BY <3>1, SameHomes
  <2> QED BY <1>9, <1>10, <1>12, <2>1 DEF Lists
<1>14. \A s \in Pid : /\ u.state[s] = IF s = p THEN "READY" ELSE m.state[s]
                      /\ u.call[s] = IF s = p THEN "none" ELSE m.call[s]
  BY <1>1, <1>12
<1>15. m.current_process # p
  BY DEF Good, RunsCurrent, CallsFit
<1>16. Slots(u)
  BY <1>12, <1>14 DEF Good, Slots
<1>17. RunsCurrent(u) /\ CallsFit(u)
  BY <1>12, <1>14, <1>15 DEF Good, RunsCurrent, CallsFit
<1> QED BY <1>12, <1>13, <1>16, <1>17 DEF Good

-----------------------------------------------------------------------------
(* The inductive invariant and the theorems.                               *)

\* The queues, slots, states and calls agree, current_process is what the CPU
\* runs, and a suspended tick belongs to a process that is alive.
Sound ==
  /\ Good(pm)
  /\ pm.current_process # NULL => cpu = pm.current_process
  /\ \A p \in inTick : pm.state[p] \in {"READY", "RUNNING", "BLOCKED"} /\ pm.call[p] = "none"

ManagerInv ==
  /\ TypeOK
  /\ Slots(pm)
  /\ torn \/ Sound

LEMMA InitEstablishesManagerInv == Init => ManagerInv
<1> SUFFICES ASSUME Init PROVE ManagerInv
  OBVIOUS
<1>1. 0 \in Prio /\ 0 \in 0 .. SLICE_MOD - 1 /\ 0 \in 0 .. TICK_MOD - 1 /\ "NONE" \in State
        /\ "none" \in Progress
  BY ManagerAssumption DEF Prio, State, Progress
<1>2. pm \in Manager /\ \A p \in Pid : pm.state[p] = "NONE" /\ pm.call[p] = "none"
  BY <1>1 DEF Init, Manager
<1>3. Lists(pm)
  <2>1. HomeMap(pm) \in Homes /\ \A p \in Pid : HomeMap(pm)[p] = NULL
    BY <1>2, HomeMapIs
  <2>2. pm.link \in Link /\ \A c \in Cell : pm.link[c] = NULL
    BY DEF Init, Link
  <2> QED BY <2>1, <2>2 DEF Lists, Linked
<1>4. Slots(pm)
  BY <1>2, FS_EmptySet DEF Slots, Init
<1>5. RunsCurrent(pm) /\ CallsFit(pm)
  BY <1>2, Sizes DEF RunsCurrent, CallsFit, Init
<1>6. TypeOK
  BY <1>2 DEF TypeOK, Init
<1>7. Sound
  BY <1>2, <1>3, <1>4, <1>5 DEF Sound, Good, Init
<1> QED BY <1>4, <1>6, <1>7 DEF ManagerInv

\* A sound state after a step that leaves `torn' alone satisfies the invariant.
LEMMA SoundIsEnough ==
  ASSUME Sound', UNCHANGED torn, torn \in BOOLEAN,
         cpu' \in Pid \cup {NULL}, inTick' \subseteq Pid
  PROVE  ManagerInv'
BY DEF ManagerInv, TypeOK, Sound, Good

\* What an interrupt 0x20 does when the manager is in state m.
TickStep(m) ==
  /\ Good(pm')
  /\ \E woken, reaped : Ticked(pm', m, woken, reaped)
  /\ cpu' = IF pm'.current_process = NULL THEN cpu ELSE pm'.current_process

LEMMA FinishTickIs ==
  ASSUME NEW m, Good(m), FinishTick(m)
  PROVE  TickStep(m) /\ pm'.system_ticks = m.system_ticks
<1>1. PICK w \in {Wake(m)} : \E h \in {Reap(w)} : schedule(h)
  BY DEF FinishTick
<1>2. PICK h \in {Reap(w)} : schedule(h)
  BY <1>1
<1>3. PICK r \in {Requeue(h)} : \E s \in {Dispatch(r)} :
        pm' = s /\ cpu' = IF s.current_process = NULL THEN cpu ELSE s.current_process
  BY <1>2 DEF schedule
<1>4. PICK s \in {Dispatch(r)} :
        pm' = s /\ cpu' = IF s.current_process = NULL THEN cpu ELSE s.current_process
  BY <1>3
<1>5. Good(s) /\ s.system_ticks = m.system_ticks /\ \E woken, reaped : Ticked(s, m, woken, reaped)
  BY <1>1, <1>2, <1>3, <1>4, TickIs
<1> QED BY <1>4, <1>5 DEF TickStep

LEMMA TickedSame ==
  ASSUME NEW s, NEW m, NEW a, SameQueues(a, m), NEW woken, NEW reaped,
         Ticked(s, a, woken, reaped)
  PROVE  Ticked(s, m, woken, reaped)
<1>1. Runnable(a) = Runnable(m)
  BY DEF Runnable, SameQueues
<1> QED BY <1>1 DEF Ticked, SameQueues

LEMMA InterruptIs ==
  ASSUME NEW m, Good(m), Interrupt(m)
  PROVE  /\ TickStep(m)
         /\ \/ inTick' = inTick
            \/ inTick' = inTick \cup {cpu} /\ IsRunning(m)
<1>1. PICK a \in {Account(m)} :
        \/ Expired(a) /\ inTick' = inTick \cup {cpu} /\ \E b \in {Account(a)} : FinishTick(b)
        \/ ~Expired(a) /\ UNCHANGED inTick /\ FinishTick(a)
  BY DEF Interrupt
<1>2. a \in Manager /\ Good(a) /\ SameQueues(a, m)
  BY <1>1, AccountIs DEF Good
<1>3. CASE ~Expired(a) /\ UNCHANGED inTick /\ FinishTick(a)
  <2>1. TickStep(a)
    BY <1>2, <1>3, FinishTickIs
  <2>2. TickStep(m)
    BY <1>2, <2>1, TickedSame DEF TickStep
  <2> QED BY <1>3, <2>2
<1>4. CASE Expired(a) /\ inTick' = inTick \cup {cpu} /\ \E b \in {Account(a)} : FinishTick(b)
  <2>1. PICK b \in {Account(a)} : FinishTick(b)
    BY <1>4
  <2>2. Good(b) /\ SameQueues(b, a)
    BY <1>2, <2>1, AccountIs
  <2>3. SameQueues(b, m)
    BY <1>2, <2>2 DEF SameQueues
  <2>4. TickStep(b)
    BY <2>1, <2>2, FinishTickIs
  <2>5. TickStep(m)
    BY <2>3, <2>4, TickedSame DEF TickStep
  <2>6. IsRunning(m)
    BY <1>2, <1>4 DEF Expired, IsRunning, SameQueues
  <2> QED BY <1>4, <2>5, <2>6
<1> QED BY <1>1, <1>3, <1>4

LEMMA TickKeepsInv ==
  ASSUME NEW m, TickStep(m), cpu \in Pid \cup {NULL}, inTick' \subseteq Pid,
         UNCHANGED torn, torn \in BOOLEAN,
         \A p \in inTick' : m.state[p] \in {"READY", "RUNNING", "BLOCKED"} /\ m.call[p] = "none"
  PROVE  ManagerInv'
<1>1. PICK woken, reaped : Ticked(pm', m, woken, reaped)
  BY DEF TickStep
<1>2. Good(pm') /\ pm'.current_process \in Pid \cup {NULL}
        /\ cpu' = IF pm'.current_process = NULL THEN cpu ELSE pm'.current_process
  BY ManagerTypes DEF TickStep, Good
<1>3. ASSUME NEW p \in inTick'
      PROVE  pm'.state[p] \in {"READY", "RUNNING", "BLOCKED"} /\ pm'.call[p] = "none"
  <2> DEFINE ready == Runnable(m) \cup woken
  <2>1. pm'.state = [q \in Pid |-> IF q = pm'.current_process THEN "RUNNING"
                                   ELSE IF q \in ready THEN "READY"
                                   ELSE IF q \in reaped THEN "NONE" ELSE m.state[q]]
          /\ pm'.call = m.call
    BY <1>1 DEF Ticked
  <2>2. p \in Pid /\ m.state[p] \in {"READY", "RUNNING", "BLOCKED"} /\ p \notin reaped
          /\ m.call[p] = "none"
    BY <1>1 DEF Ticked
  <2> HIDE DEF ready
  <2> QED BY <2>1, <2>2
<1>4. Sound'
  BY <1>2, <1>3 DEF Sound
<1> QED BY <1>2, <1>4, SoundIsEnough

\* What holds of the process on the CPU when it is current_process and in the
\* middle of no call.
LEMMA CurrentIs ==
  ASSUME ManagerInv, BetweenCalls, pm.current_process # NULL
  PROVE  /\ Sound /\ cpu = pm.current_process /\ cpu \in Pid /\ cpu \notin inTick
         /\ pm.state[cpu] = "RUNNING" /\ pm.call[cpu] = "none"
         /\ HomeMap(pm)[cpu] = NULL
<1>1. Sound /\ cpu = pm.current_process /\ cpu \in Pid /\ cpu \notin inTick /\ pm.call[cpu] = "none"
  BY DEF ManagerInv, TypeOK, BetweenCalls, Interruptible, Sound
<1>2. pm.state[cpu] = "RUNNING"
  BY <1>1 DEF Sound, Good, RunsCurrent
<1> QED BY <1>1, <1>2, HomeMapIs DEF Sound, Good

LEMMA InterruptKeepsInv ==
  ASSUME ManagerInv, Interruptible, Interrupt(pm), UNCHANGED torn
  PROVE  ManagerInv' /\ Sound /\ TickStep(pm)
<1>1. Sound /\ Good(pm) /\ cpu \in Pid \cup {NULL} /\ inTick \subseteq Pid /\ torn \in BOOLEAN
  BY DEF ManagerInv, Interruptible, Sound, TypeOK
<1>2. /\ TickStep(pm)
      /\ \/ inTick' = inTick
         \/ inTick' = inTick \cup {cpu} /\ IsRunning(pm)
  BY <1>1, InterruptIs
<1>3. IsRunning(pm) => cpu \in Pid /\ pm.state[cpu] = "RUNNING" /\ pm.call[cpu] = "none"
  <2> SUFFICES ASSUME IsRunning(pm)
               PROVE  cpu \in Pid /\ pm.state[cpu] = "RUNNING" /\ pm.call[cpu] = "none"
    OBVIOUS
  <2>1. cpu = pm.current_process /\ cpu \in Pid /\ pm.state[cpu] = "RUNNING"
    BY <1>1, Sizes DEF IsRunning, Sound
  <2>2. pm.call[cpu] \in Progress
    BY <1>1, <2>1, ManagerTypes DEF Good
  <2> QED BY <1>1, <2>1, <2>2 DEF Good, CallsFit, Progress
<1>4. inTick' \subseteq Pid
        /\ \A p \in inTick' : pm.state[p] \in {"READY", "RUNNING", "BLOCKED"} /\ pm.call[p] = "none"
  BY <1>1, <1>2, <1>3 DEF Sound
<1> QED BY <1>1, <1>2, <1>4, TickKeepsInv

LEMMA ResumeTickKeepsInv ==
  ASSUME ManagerInv, ResumeTick
  PROVE  ManagerInv' /\ Sound /\ TickStep(pm)
<1>1. Sound /\ Good(pm) /\ FinishTick(pm) /\ inTick' = inTick \ {cpu} /\ UNCHANGED torn
        /\ cpu \in Pid \cup {NULL} /\ inTick \subseteq Pid /\ torn \in BOOLEAN
  BY DEF ManagerInv, ResumeTick, Sound, TypeOK
<1>2. TickStep(pm)
  BY <1>1, FinishTickIs
<1> QED BY <1>1, <1>2, TickKeepsInv DEF Sound

LEMMA PageFaultKillKeepsInv ==
  ASSUME ManagerInv, PageFaultKill
  PROVE  /\ ManagerInv' /\ Sound
         /\ pm.current_process \in Pid /\ pm.state[pm.current_process] = "RUNNING"
         /\ pm.call[pm.current_process] = "none"
         /\ TickStep(Terminated(pm, pm.current_process))
<1> DEFINE p == pm.current_process
           t == Terminated(pm, p)
<1>1. /\ Sound /\ cpu = p /\ cpu \in Pid /\ cpu \notin inTick
      /\ pm.state[cpu] = "RUNNING" /\ pm.call[cpu] = "none" /\ HomeMap(pm)[cpu] = NULL
  BY CurrentIs DEF PageFaultKill
<1>2. Good(pm) /\ pm \in Manager /\ inTick \subseteq Pid /\ torn \in BOOLEAN
  BY <1>1 DEF Sound, Good, ManagerInv, TypeOK
<1>3. Good(t)
  BY <1>1, <1>2, TerminatedIs
<1>4. t.state = [pm.state EXCEPT ![p] = "TERMINATED"] /\ t.current_process = NULL
        /\ t.call = [pm.call EXCEPT ![p] = "none"]
  BY <1>1, <1>2, TerminatedType
<1>5. Interrupt(t) /\ UNCHANGED torn
  BY DEF PageFaultKill
<1> HIDE DEF t
<1>6. TickStep(t) /\ inTick' = inTick
  BY <1>3, <1>4, <1>5, InterruptIs DEF IsRunning
<1>7. \A s \in inTick' : t.state[s] \in {"READY", "RUNNING", "BLOCKED"} /\ t.call[s] = "none"
  <2>1. pm.state \in [Pid -> State] /\ pm.call \in [Pid -> Progress]
    BY <1>2, ManagerTypes
  <2> QED BY <1>1, <1>2, <1>4, <1>6, <2>1 DEF Sound
<1> QED BY <1>1, <1>2, <1>5, <1>6, <1>7, TickKeepsInv DEF t

\* What every call leaves alone.
CallStep == /\ pm'.system_ticks = pm.system_ticks
            /\ inTick' = inTick
            /\ pm.state \in [Pid -> State] /\ pm.call \in [Pid -> Progress]

LEMMA CreateIs ==
  ASSUME ManagerInv, NEW priority \in Priorities, create_process(priority)
  PROVE  /\ ManagerInv' /\ Sound /\ CallStep
         /\ pm'.current_process = pm.current_process
         /\ pm'.call = pm.call
         /\ \E p \in Pid, i \in Prio :
              /\ pm.state[p] = "NONE" /\ \A q \in Pid : pm.state[q] = "NONE" => p <= q
              /\ pm.call[p] = "none"
              /\ pm'.state = [pm.state EXCEPT ![p] = "READY"]
              /\ pm'.priority = [pm.priority EXCEPT ![p] = i]
<1> DEFINE p == find_free_pid(pm)
           i == IF priority > MAX_PRIORITY_LEVELS - 1 THEN MAX_PRIORITY_LEVELS - 1 ELSE priority
           n == NewProcess(pm, p, i)
<1>1. Sound /\ Good(pm) /\ FreePids(pm) # {} /\ pm' = MakeReady(n, p)
        /\ UNCHANGED <<cpu, inTick, torn>> /\ TypeOK
  BY DEF ManagerInv, create_process, BetweenCalls, Interruptible, Sound
<1>2. i \in Prio
  <2>1. priority \in Nat /\ MAX_PRIORITY_LEVELS \in Nat \ {0}
    BY ManagerAssumption
  <2> QED BY <2>1 DEF Prio
<1> HIDE DEF i
<1>3. /\ p \in Pid /\ pm.state[p] = "NONE" /\ \A q \in FreePids(pm) : p <= q
      /\ Good(pm')
      /\ pm'.state = [pm.state EXCEPT ![p] = "READY"]
      /\ pm'.priority = [pm.priority EXCEPT ![p] = i]
      /\ pm'.call = pm.call /\ pm.call[p] = "none"
      /\ pm'.current_process = pm.current_process
      /\ pm'.system_ticks = pm.system_ticks
  BY <1>1, <1>2, CreatedIs
<1> HIDE DEF p
<1>4. \A q \in Pid : pm.state[q] = "NONE" => p <= q
  BY <1>1, <1>3 DEF FreePids, Good, Slots
<1>5. pm.state \in [Pid -> State] /\ pm.call \in [Pid -> Progress]
  BY <1>1, ManagerTypes DEF Good
<1>6. Sound'
  BY <1>1, <1>3, <1>5 DEF Sound, TypeOK
<1>7. ManagerInv'
  BY <1>1, <1>6, SoundIsEnough DEF TypeOK
<1> QED BY <1>1, <1>2, <1>3, <1>4, <1>5, <1>7 DEF CallStep

LEMMA TerminateIs ==
  ASSUME ManagerInv, NEW p \in Pid, terminate_process(p)
  PROVE  /\ ManagerInv' /\ Sound /\ CallStep
         /\ pm.state[p] # "NONE"
         /\ pm'.state = [pm.state EXCEPT ![p] = "TERMINATED"]
         /\ pm'.call = [pm.call EXCEPT ![p] = "none"]
         /\ pm'.priority = pm.priority
         /\ pm'.current_process = IF pm.current_process = p THEN NULL ELSE pm.current_process
         /\ pm.current_process = p => pm.state[p] = "RUNNING" /\ pm.call[p] = "none"
<1>1. Sound /\ Good(pm) /\ pm \in Manager /\ pm.state[p] # "NONE" /\ pm' = Terminated(pm, p)
        /\ torn' = (HomeQueue(pm, p) # NULL) /\ UNCHANGED <<cpu, inTick>> /\ TypeOK /\ ~torn
  BY DEF ManagerInv, terminate_process, BetweenCalls, Interruptible, Sound, Good
<1>2. /\ pm' \in Manager /\ Slots(pm')
      /\ pm'.state = [pm.state EXCEPT ![p] = "TERMINATED"]
      /\ pm'.call = [pm.call EXCEPT ![p] = "none"]
      /\ pm'.priority = pm.priority
      /\ pm'.current_process = IF pm.current_process = p THEN NULL ELSE pm.current_process
      /\ pm'.system_ticks = pm.system_ticks
  BY <1>1, TerminatedType DEF Good
<1>3. pm.state \in [Pid -> State] /\ pm.call \in [Pid -> Progress]
  BY <1>1, ManagerTypes
<1>4. pm.current_process = p => /\ pm.state[p] = "RUNNING" /\ pm.call[p] = "none"
                                /\ p \notin inTick
  BY CurrentIs, Sizes DEF terminate_process
<1>5. CASE HomeQueue(pm, p) # NULL
  <2>1. TypeOK' /\ torn'
    BY <1>1, <1>2, <1>5 DEF TypeOK
  <2>2. ManagerInv'
    BY <1>2, <2>1 DEF ManagerInv
  <2> QED BY <1>1, <1>2, <1>3, <1>4, <2>2 DEF CallStep
<1>6. CASE HomeQueue(pm, p) = NULL
  <2>1. HomeMap(pm)[p] = NULL
    BY <1>6 DEF HomeMap
  <2>2. Good(pm')
    BY <1>1, <2>1, TerminatedIs
  <2>3. p \notin inTick
    <3>1. pm.call[p] # "none" \/ pm.state[p] = "RUNNING"
      BY <1>1, <2>1, HomeTells
    <3>2. pm.call[p] = "none" => pm.current_process = p
      BY <1>1, <3>1 DEF Good, RunsCurrent
    <3> QED BY <1>1, <1>4, <3>2 DEF Sound
  <2>4. Sound'
    BY <1>1, <1>2, <1>3, <2>2, <2>3 DEF Sound, TypeOK
  <2>5. torn' = FALSE
    BY <1>1, <1>6
  <2>6. ManagerInv'
    BY <1>1, <1>2, <2>4, <2>5 DEF ManagerInv, TypeOK
  <2> QED BY <1>1, <1>2, <1>3, <1>4, <2>6 DEF CallStep
<1> QED BY <1>5, <1>6

LEMMA BlockIs ==
  ASSUME ManagerInv, NEW p \in Pid, NEW wait \in WaitTimes, block_process(p, wait)
  PROVE  /\ ManagerInv' /\ Sound /\ CallStep
         /\ pm'.state = [pm.state EXCEPT ![p] = "BLOCKED"]
         /\ pm'.priority = pm.priority
         /\ pm'.call = pm.call /\ pm.call[p] = "none"
         /\ \/ pm.state[p] = "READY" /\ pm'.current_process = pm.current_process
            \/ /\ p = pm.current_process /\ pm.state[p] = "RUNNING"
               /\ pm'.current_process = NULL
<1>1. Sound /\ Good(pm) /\ pm' = Blocked(TakeOff(pm, p), p, wait)
        /\ UNCHANGED <<cpu, inTick, torn>> /\ TypeOK
        /\ (pm.state[p] = "READY" \/ p = pm.current_process)
  BY DEF ManagerInv, block_process, BetweenCalls, Interruptible, Sound
<1>2. pm.state \in [Pid -> State] /\ pm.call \in [Pid -> Progress]
  BY <1>1, ManagerTypes DEF Good
<1>3. p = pm.current_process => pm.state[p] = "RUNNING" /\ pm.call[p] = "none"
  BY CurrentIs, Sizes DEF block_process
<1>4. pm.call[p] = "none"
  BY <1>1, <1>2, <1>3 DEF Good, CallsFit, Progress
<1>5. /\ Good(pm')
      /\ pm'.state = [pm.state EXCEPT ![p] = "BLOCKED"]
      /\ pm'.priority = pm.priority
      /\ pm'.call = pm.call
      /\ pm'.current_process = IF pm.state[p] = "READY" THEN pm.current_process ELSE NULL
      /\ pm'.system_ticks = pm.system_ticks
  BY <1>1, <1>4, BlockedIs
<1>6. Sound'
  BY <1>1, <1>2, <1>5 DEF Sound, TypeOK
<1>7. ManagerInv'
  BY <1>1, <1>6, SoundIsEnough DEF TypeOK
<1> QED BY <1>1, <1>2, <1>3, <1>4, <1>5, <1>7 DEF CallStep

LEMMA UnblockActionIs ==
  ASSUME ManagerInv, NEW p \in Pid, unblock_process(p)
  PROVE  /\ ManagerInv' /\ Sound /\ CallStep
         /\ pm.state[p] = "BLOCKED"
         /\ pm'.state = [pm.state EXCEPT ![p] = "READY"]
         /\ pm'.call = [pm.call EXCEPT ![p] = "none"]
         /\ pm'.priority = pm.priority /\ pm'.current_process = pm.current_process
<1>1. Sound /\ Good(pm) /\ pm' = Awoken(pm, p)
        /\ UNCHANGED <<cpu, inTick, torn>> /\ TypeOK /\ pm.state[p] = "BLOCKED"
  BY DEF ManagerInv, unblock_process, BetweenCalls, Interruptible, Sound, Awoken
<1>2. /\ Good(pm') /\ pm'.state = [pm.state EXCEPT ![p] = "READY"]
      /\ pm'.call = [pm.call EXCEPT ![p] = "none"]
      /\ pm'.priority = pm.priority /\ pm'.current_process = pm.current_process
      /\ pm'.system_ticks = pm.system_ticks
  BY <1>1, UnblockedIs
<1>3. pm.state \in [Pid -> State] /\ pm.call \in [Pid -> Progress]
  BY <1>1, ManagerTypes DEF Good
<1>4. Sound'
  BY <1>1, <1>2, <1>3 DEF Sound, TypeOK
<1>5. ManagerInv'
  BY <1>1, <1>4, SoundIsEnough DEF TypeOK
<1> QED BY <1>1, <1>2, <1>3, <1>5 DEF CallStep

-----------------------------------------------------------------------------
(* The steps of a call that interrupts divide.                             *)

\* r is m with another state and progress of p, which is on no queue in either.
LEMMA ProgressKeepsLists ==
  ASSUME NEW m, Good(m), NEW p \in Pid, m.state[p] # "NONE", HomeMap(m)[p] = NULL,
         NEW r, r.link = m.link, r.state[p] # "NONE", HomeMap(r)[p] = NULL,
         r.process_bitmap = m.process_bitmap, r.active_processes = m.active_processes,
         SameElsewhere(r, m, p)
  PROVE  Lists(r) /\ Slots(r)
<1>1. HomeMap(m) \in Homes
  BY HomeMapIs DEF Good
<1>2. HomeMap(r) = [HomeMap(m) EXCEPT ![p] = NULL]
  BY HomeMapChange
<1>3. HomeMap(r) = HomeMap(m)
  BY <1>1, <1>2 DEF Homes
<1>4. \A s \in Pid : r.state[s] # "NONE" <=> m.state[s] # "NONE"
  BY DEF SameElsewhere
<1> QED BY <1>3, <1>4 DEF Good, Lists, Slots

\* One step of a call of process p, which is on the CPU, from the progress it has
\* made to a state st, a progress pr and a current_process cur.
CallMoves(p, st, pr, cur) ==
  /\ p = cpu /\ p \in Pid
  /\ pm'.state = [pm.state EXCEPT ![p] = st]
  /\ pm'.call = [pm.call EXCEPT ![p] = pr]
  /\ pm'.priority = pm.priority
  /\ pm'.current_process = cur

LEMMA MarksIs ==
  ASSUME ManagerInv, TerminateMarks
  PROVE  /\ ManagerInv' /\ Sound /\ CallStep
         /\ CallMoves(cpu, "TERMINATED", "marked", cpu)
         /\ pm.current_process = cpu /\ pm.state[cpu] = "RUNNING" /\ pm.call[cpu] = "none"
<1> DEFINE p == cpu
<1>1. /\ Sound /\ p = pm.current_process /\ p \in Pid /\ p \notin inTick
      /\ pm.state[p] = "RUNNING" /\ pm.call[p] = "none" /\ HomeMap(pm)[p] = NULL
  BY CurrentIs DEF TerminateMarks
<1>2. Good(pm) /\ pm \in Manager /\ TypeOK
  BY <1>1 DEF Sound, Good, ManagerInv
<1>3. pm.state \in [Pid -> State] /\ pm.call \in [Pid -> Progress]
  BY <1>2, ManagerTypes
<1>4. /\ pm' = [pm EXCEPT !.state[p] = "TERMINATED", !.call[p] = "marked"]
      /\ UNCHANGED <<cpu, inTick, torn>>
  BY DEF TerminateMarks
<1>5. /\ pm' \in Manager /\ pm'.link = pm.link /\ pm'.state = [pm.state EXCEPT ![p] = "TERMINATED"]
      /\ pm'.call = [pm.call EXCEPT ![p] = "marked"] /\ pm'.priority = pm.priority
      /\ pm'.process_bitmap = pm.process_bitmap /\ pm'.active_processes = pm.active_processes
      /\ pm'.current_process = p /\ pm'.system_ticks = pm.system_ticks
  <2>1. [pm.state EXCEPT ![p] = "TERMINATED"] \in [Pid -> State]
          /\ [pm.call EXCEPT ![p] = "marked"] \in [Pid -> Progress]
    BY <1>3 DEF State, Progress
  <2> QED BY <1>1, <1>2, <1>4, <2>1 DEF Manager
<1>6. \A s \in Pid : /\ pm'.state[s] = IF s = p THEN "TERMINATED" ELSE pm.state[s]
                     /\ pm'.call[s] = IF s = p THEN "marked" ELSE pm.call[s]
  BY <1>3, <1>5
<1>7. HomeMap(pm')[p] = NULL /\ SameElsewhere(pm', pm, p)
  BY <1>1, <1>5, <1>6, HomeMapIs DEF SameElsewhere
<1> HIDE DEF p
<1>8. Lists(pm') /\ Slots(pm')
  BY <1>1, <1>2, <1>5, <1>6, <1>7, ProgressKeepsLists
<1>9. RunsCurrent(pm') /\ CallsFit(pm')
  BY <1>1, <1>2, <1>5, <1>6 DEF Good, RunsCurrent, CallsFit
<1>10. Sound'
  BY <1>1, <1>2, <1>4, <1>5, <1>6, <1>8, <1>9 DEF Sound, Good, TypeOK, p
<1>11. ManagerInv'
  BY <1>2, <1>4, <1>10, SoundIsEnough DEF TypeOK
<1> QED BY <1>1, <1>3, <1>4, <1>5, <1>11 DEF CallStep, CallMoves, p

\* What holds of a process on the CPU that has got as far as `step' in a call.
LEMMA WithinIs ==
  ASSUME ManagerInv, NEW step \in Progress \ {"none"}, Within(step)
  PROVE  /\ Sound /\ Good(pm) /\ pm \in Manager /\ TypeOK /\ cpu \in Pid /\ cpu \notin inTick
         /\ pm.call[cpu] = step /\ HomeMap(pm)[cpu] = NULL
         /\ pm.state \in [Pid -> State] /\ pm.call \in [Pid -> Progress]
<1>1. Sound /\ Good(pm) /\ pm \in Manager /\ TypeOK /\ cpu \in Pid /\ cpu \notin inTick
        /\ pm.call[cpu] = step
  BY DEF ManagerInv, TypeOK, Within, Interruptible, Sound, Good
<1> QED BY <1>1, HomeMapIs, ManagerTypes

LEMMA DropsIs ==
  ASSUME ManagerInv, TerminateDrops
  PROVE  /\ ManagerInv' /\ Sound /\ CallStep
         /\ CallMoves(cpu, "TERMINATED", "linking",
                      IF pm.current_process = cpu THEN NULL ELSE pm.current_process)
         /\ pm.state[cpu] = "TERMINATED" /\ pm.call[cpu] = "marked"
<1> DEFINE p == cpu
           cur == IF pm.current_process = cpu THEN NULL ELSE pm.current_process
<1>1. /\ Sound /\ Good(pm) /\ pm \in Manager /\ TypeOK /\ p \in Pid /\ p \notin inTick
      /\ pm.call[p] = "marked" /\ HomeMap(pm)[p] = NULL
      /\ pm.state \in [Pid -> State] /\ pm.call \in [Pid -> Progress]
  BY WithinIs DEF TerminateDrops, Progress
<1>2. pm.state[p] = "TERMINATED" /\ cur \in Pid \cup {NULL}
  BY <1>1, ManagerTypes DEF Good, CallsFit
<1>3. /\ pm' = [pm EXCEPT !.call[p] = "linking", !.current_process = cur]
      /\ UNCHANGED <<cpu, inTick, torn>>
  BY DEF TerminateDrops
<1>4. cur # p /\ (cur # NULL => cur = pm.current_process)
  BY <1>1, Sizes
<1> HIDE DEF cur
<1>5. /\ pm' \in Manager /\ pm'.link = pm.link /\ pm'.state = pm.state
      /\ pm'.call = [pm.call EXCEPT ![p] = "linking"] /\ pm'.priority = pm.priority
      /\ pm'.process_bitmap = pm.process_bitmap /\ pm'.active_processes = pm.active_processes
      /\ pm'.current_process = cur /\ pm'.system_ticks = pm.system_ticks
  <2>1. [pm.call EXCEPT ![p] = "linking"] \in [Pid -> Progress]
    BY <1>1 DEF Progress
  <2> QED BY <1>1, <1>2, <1>3, <2>1 DEF Manager
<1>6. \A s \in Pid : pm'.call[s] = IF s = p THEN "linking" ELSE pm.call[s]
  BY <1>1, <1>5
<1>7. HomeMap(pm')[p] = NULL /\ SameElsewhere(pm', pm, p)
  BY <1>1, <1>5, <1>6, HomeMapIs DEF SameElsewhere
<1> HIDE DEF p
<1>8. Lists(pm') /\ Slots(pm')
  BY <1>1, <1>2, <1>5, <1>7, ProgressKeepsLists
<1>9. \A s \in Pid : s # p => (cur = s <=> pm.current_process = s)
  BY <1>1, Sizes DEF cur, p
<1>10. RunsCurrent(pm') /\ CallsFit(pm')
  BY <1>1, <1>2, <1>4, <1>5, <1>6, <1>9 DEF Good, RunsCurrent, CallsFit
<1>11. Sound'
  BY <1>1, <1>3, <1>4, <1>5, <1>6, <1>8, <1>10 DEF Sound, Good, TypeOK, p
<1>12. ManagerInv'
  BY <1>1, <1>3, <1>11, SoundIsEnough DEF TypeOK
<1>13. pm'.state = [pm.state EXCEPT ![p] = "TERMINATED"]
  BY <1>1, <1>2, <1>5
<1> QED BY <1>1, <1>2, <1>3, <1>5, <1>12, <1>13 DEF CallStep, CallMoves, p, cur

LEMMA BlockDropsIs ==
  ASSUME ManagerInv, BlockDrops
  PROVE  /\ ManagerInv' /\ Sound /\ CallStep
         /\ CallMoves(cpu, "RUNNING", "dropped", NULL)
         /\ pm.current_process = cpu /\ pm.state[cpu] = "RUNNING" /\ pm.call[cpu] = "none"
<1> DEFINE p == cpu
<1>1. /\ Sound /\ p = pm.current_process /\ p \in Pid /\ p \notin inTick
      /\ pm.state[p] = "RUNNING" /\ pm.call[p] = "none" /\ HomeMap(pm)[p] = NULL
  BY CurrentIs DEF BlockDrops
<1>2. Good(pm) /\ pm \in Manager /\ TypeOK
  BY <1>1 DEF Sound, Good, ManagerInv
<1>3. pm.state \in [Pid -> State] /\ pm.call \in [Pid -> Progress]
  BY <1>2, ManagerTypes
<1>4. /\ pm' = [pm EXCEPT !.current_process = NULL, !.call[p] = "dropped"]
      /\ UNCHANGED <<cpu, inTick, torn>>
  BY DEF BlockDrops
<1>5. /\ pm' \in Manager /\ pm'.link = pm.link /\ pm'.state = pm.state
      /\ pm'.call = [pm.call EXCEPT ![p] = "dropped"] /\ pm'.priority = pm.priority
      /\ pm'.process_bitmap = pm.process_bitmap /\ pm'.active_processes = pm.active_processes
      /\ pm'.current_process = NULL /\ pm'.system_ticks = pm.system_ticks
  <2>1. [pm.call EXCEPT ![p] = "dropped"] \in [Pid -> Progress]
    BY <1>3 DEF Progress
  <2> QED BY <1>1, <1>2, <1>4, <2>1 DEF Manager
<1>6. \A s \in Pid : s # NULL /\ pm'.call[s] = IF s = p THEN "dropped" ELSE pm.call[s]
  BY <1>3, <1>5, Sizes
<1>7. HomeMap(pm')[p] = NULL /\ SameElsewhere(pm', pm, p)
  BY <1>1, <1>5, <1>6, HomeMapIs DEF SameElsewhere
<1> HIDE DEF p
<1>8. Lists(pm') /\ Slots(pm')
  BY <1>1, <1>2, <1>5, <1>7, ProgressKeepsLists
<1>9. RunsCurrent(pm') /\ CallsFit(pm')
  BY <1>1, <1>2, <1>5, <1>6 DEF Good, RunsCurrent, CallsFit
<1>10. Sound'
  BY <1>1, <1>2, <1>4, <1>5, <1>6, <1>8, <1>9 DEF Sound, Good, TypeOK, p
<1>11. ManagerInv'
  BY <1>2, <1>4, <1>10, SoundIsEnough DEF TypeOK
<1>12. pm'.state = [pm.state EXCEPT ![p] = "RUNNING"]
  BY <1>1, <1>3, <1>5
<1> QED BY <1>1, <1>3, <1>4, <1>5, <1>11, <1>12 DEF CallStep, CallMoves, p

LEMMA BlockMarksIs ==
  ASSUME ManagerInv, NEW wait \in WaitTimes, BlockMarks(wait)
  PROVE  /\ ManagerInv' /\ Sound /\ CallStep
         /\ CallMoves(cpu, "BLOCKED", "linking", pm.current_process)
         /\ pm.state[cpu] = "RUNNING" /\ pm.call[cpu] = "dropped" /\ pm.current_process # cpu
<1> DEFINE p == cpu
           t == (pm.system_ticks + wait) % TICK_MOD
<1>1. /\ Sound /\ Good(pm) /\ pm \in Manager /\ TypeOK /\ p \in Pid /\ p \notin inTick
      /\ pm.call[p] = "dropped" /\ HomeMap(pm)[p] = NULL
      /\ pm.state \in [Pid -> State] /\ pm.call \in [Pid -> Progress]
  BY WithinIs DEF BlockMarks, Progress
<1>2. pm.state[p] = "RUNNING" /\ pm.current_process # p
  BY <1>1 DEF Good, CallsFit
<1>3. /\ pm' = [pm EXCEPT !.state[p] = "BLOCKED", !.wakeup_time[p] = t, !.call[p] = "linking"]
      /\ UNCHANGED <<cpu, inTick, torn>>
  BY DEF BlockMarks
<1>4. t \in 0 .. TICK_MOD - 1
  <2>1. \A a \in Int : a % TICK_MOD \in 0 .. TICK_MOD - 1
    BY ManagerAssumption
  <2>2. pm.system_ticks \in Int /\ wait \in Int
    BY <1>1, ManagerTypes, ManagerAssumption
  <2> QED BY <2>1, <2>2
<1> HIDE DEF t
<1>5. /\ pm' \in Manager /\ pm'.link = pm.link /\ pm'.state = [pm.state EXCEPT ![p] = "BLOCKED"]
      /\ pm'.call = [pm.call EXCEPT ![p] = "linking"] /\ pm'.priority = pm.priority
      /\ pm'.process_bitmap = pm.process_bitmap /\ pm'.active_processes = pm.active_processes
      /\ pm'.current_process = pm.current_process /\ pm'.system_ticks = pm.system_ticks
  <2>1. /\ [pm.call EXCEPT ![p] = "linking"] \in [Pid -> Progress]
        /\ [pm.state EXCEPT ![p] = "BLOCKED"] \in [Pid -> State]
        /\ [pm.wakeup_time EXCEPT ![p] = t] \in [Pid -> 0 .. TICK_MOD - 1]
    BY <1>1, <1>4, ManagerTypes DEF Progress, State
  <2> QED BY <1>1, <1>3, <2>1 DEF Manager
<1>6. \A s \in Pid : /\ pm'.state[s] = IF s = p THEN "BLOCKED" ELSE pm.state[s]
                     /\ pm'.call[s] = IF s = p THEN "linking" ELSE pm.call[s]
  BY <1>1, <1>5
<1>7. HomeMap(pm')[p] = NULL /\ SameElsewhere(pm', pm, p)
  BY <1>1, <1>5, <1>6, HomeMapIs DEF SameElsewhere
<1> HIDE DEF p
<1>8. Lists(pm') /\ Slots(pm')
  BY <1>1, <1>2, <1>5, <1>6, <1>7, ProgressKeepsLists
<1>9. RunsCurrent(pm') /\ CallsFit(pm')
  BY <1>1, <1>2, <1>5, <1>6 DEF Good, RunsCurrent, CallsFit
<1>10. Sound'
  BY <1>1, <1>3, <1>5, <1>6, <1>8, <1>9 DEF Sound, Good, TypeOK, p
<1>11. ManagerInv'
  BY <1>1, <1>3, <1>10, SoundIsEnough DEF TypeOK
<1> QED BY <1>1, <1>2, <1>3, <1>5, <1>11 DEF CallStep, CallMoves, p

LEMMA CallLinksIs ==
  ASSUME ManagerInv, CallLinks
  PROVE  /\ ManagerInv' /\ Sound /\ CallStep
         /\ CallMoves(cpu, pm.state[cpu], "none", pm.current_process)
         /\ pm.state[cpu] \in {"BLOCKED", "TERMINATED"} /\ pm.call[cpu] = "linking"
<1> DEFINE p == cpu
           q == IF pm.state[cpu] = "BLOCKED" THEN BlockedQ ELSE TerminatedQ
           l == enqueue_process(pm.link, q, p)
<1>1. /\ Sound /\ Good(pm) /\ pm \in Manager /\ TypeOK /\ p \in Pid /\ p \notin inTick
      /\ pm.call[p] = "linking" /\ HomeMap(pm)[p] = NULL
      /\ pm.state \in [Pid -> State] /\ pm.call \in [Pid -> Progress]
  BY WithinIs DEF CallLinks, Progress
<1>2. pm.state[p] \in {"BLOCKED", "TERMINATED"} /\ pm.current_process # p
  BY <1>1 DEF Good, CallsFit
<1>3. pm' = [pm EXCEPT !.link = l, !.call[p] = "none"] /\ UNCHANGED <<cpu, inTick, torn>>
  BY DEF CallLinks
<1>4. Linked(l, [HomeMap(pm) EXCEPT ![p] = q])
  <2>1. q \in Head
    BY Sizes
  <2> HIDE DEF q
  <2> QED BY <1>1, <2>1, EnqueueKeepsLists DEF Good, Lists
<1>5. l \in Link
  BY <1>4 DEF Linked
<1> HIDE DEF l
<1>6. /\ pm' \in Manager /\ pm'.link = l /\ pm'.state = pm.state
      /\ pm'.call = [pm.call EXCEPT ![p] = "none"] /\ pm'.priority = pm.priority
      /\ pm'.process_bitmap = pm.process_bitmap /\ pm'.active_processes = pm.active_processes
      /\ pm'.current_process = pm.current_process /\ pm'.system_ticks = pm.system_ticks
  <2>1. [pm.call EXCEPT ![p] = "none"] \in [Pid -> Progress]
    BY <1>1 DEF Progress
  <2> QED BY <1>1, <1>3, <1>5, <2>1 DEF Manager, Link
<1>7. \A s \in Pid : pm'.call[s] = IF s = p THEN "none" ELSE pm.call[s]
  BY <1>1, <1>6
<1>8. HomeMap(pm') = [HomeMap(pm) EXCEPT ![p] = q]
  <2>1. HomeMap(pm')[p] = q
    BY <1>1, <1>2, <1>6, <1>7, HomeMapIs
  <2>2. SameElsewhere(pm', pm, p)
    BY <1>6, <1>7 DEF SameElsewhere
  <2> QED BY <1>1, <2>1, <2>2, HomeMapChange
<1> HIDE DEF p, q
<1>9. Lists(pm') /\ Slots(pm')
  BY <1>1, <1>4, <1>6, <1>8 DEF Good, Lists, Slots
<1>10. RunsCurrent(pm') /\ CallsFit(pm')
  BY <1>1, <1>2, <1>6, <1>7 DEF Good, RunsCurrent, CallsFit
<1>11. Sound'
  BY <1>1, <1>3, <1>6, <1>7, <1>9, <1>10 DEF Sound, Good, TypeOK, p
<1>12. ManagerInv'
  BY <1>1, <1>3, <1>11, SoundIsEnough DEF TypeOK
<1>13. pm'.state = [pm.state EXCEPT ![p] = pm.state[p]]
  BY <1>1, <1>6
<1> QED BY <1>1, <1>2, <1>3, <1>6, <1>12, <1>13 DEF CallStep, CallMoves, p

LEMMA TornTickIs ==
  ASSUME ManagerInv, TickWithinCall
  PROVE  ManagerInv' /\ UNCHANGED <<pm, inTick>>
BY DEF ManagerInv, TickWithinCall, TypeOK

LEMMA NextKeepsManagerInv == ManagerInv /\ [Next]_vars => ManagerInv'
<1> SUFFICES ASSUME ManagerInv, [Next]_vars PROVE ManagerInv'
  OBVIOUS
<1>1. CASE UNCHANGED vars
  BY <1>1 DEF vars, ManagerInv, TypeOK, Sound
<1>2. CASE TimerInterrupt
  BY <1>2, InterruptKeepsInv DEF TimerInterrupt
<1>3. CASE yield_cpu
  BY <1>3, InterruptKeepsInv DEF yield_cpu, BetweenCalls
<1>4. CASE ResumeTick
  BY <1>4, ResumeTickKeepsInv
<1>5. CASE \E i \in Priorities : create_process(i)
  BY <1>5, CreateIs
<1>6. CASE CreateFails
  BY <1>1, <1>6 DEF CreateFails
<1>7. CASE \E p \in Pid : terminate_process(p)
  BY <1>7, TerminateIs
<1>8. CASE PageFaultKill
  BY <1>8, PageFaultKillKeepsInv
<1>9. CASE \E p \in Pid, w \in WaitTimes : block_process(p, w)
  BY <1>9, BlockIs
<1>10. CASE \E p \in Pid : unblock_process(p)
  BY <1>10, UnblockActionIs
<1>11. CASE TerminateMarks \/ BlockDrops
  BY <1>11, MarksIs, BlockDropsIs
<1>12. CASE ContinueCall
  BY <1>12, DropsIs, BlockMarksIs, CallLinksIs DEF ContinueCall
<1>13. CASE TickWithinCall
  BY <1>13, TornTickIs
<1> QED BY <1>1, <1>2, <1>3, <1>4, <1>5, <1>6, <1>7, <1>8, <1>9, <1>10, <1>11, <1>12, <1>13
        DEF Next

\* The inductive invariant of the process manager.
THEOREM ManagerInvariance == Spec => []ManagerInv
BY InitEstablishesManagerInv, NextKeepsManagerInv, PTL DEF Spec

LEMMA InvImpliesIntegrity == ManagerInv => QueueIntegrity
<1> SUFFICES ASSUME ManagerInv, ~torn PROVE QueueIntegrity
  BY DEF QueueIntegrity
<1> DEFINE H == HomeMap(pm)
           link == pm.link
<1>1. Linked(link, H) /\ pm \in Manager
  BY DEF ManagerInv, Sound, Good, Lists
<1>2. \A p \in Pid : HomeQueue(pm, p) = H[p]
  BY DEF HomeMap
<1>3. \A c \in Cell : (IF c \in Head THEN c ELSE HomeQueue(pm, c)) = HomeOf(H, c)
  BY <1>2, Sizes DEF HomeOf, Head
<1> HIDE DEF H, link
<1>4. ASSUME NEW c \in Cell, link[c] # NULL
      PROVE  /\ (IF c \in Head THEN c ELSE HomeQueue(pm, c)) = HomeQueue(pm, link[c])
             /\ HomeQueue(pm, link[c]) # NULL
             /\ c \in Pid => c < link[c]
  <2>1. link[c] \in Pid
    BY <1>1, <1>4 DEF Linked, Link
  <2>2. H[link[c]] = HomeOf(H, c) /\ H[link[c]] # NULL /\ (c \in Pid => c < link[c])
    BY <1>1, <1>4 DEF Linked
  <2> QED BY <1>2, <1>3, <2>1, <2>2
<1>5. ASSUME NEW p \in Pid, HomeQueue(pm, p) # NULL
      PROVE  Cardinality({c \in Cell : link[c] = p}) = 1
  <2>1. PICK c \in Cell : link[c] = p
    BY <1>1, <1>2, <1>5 DEF Linked
  <2>2. \A d \in Cell : link[d] = p => d = c
    BY <1>1, <2>1, Sizes DEF Linked
  <2>3. {d \in Cell : link[d] = p} = {c}
    BY <2>1, <2>2
  <2> QED BY <2>3, FS_Singleton
<1>6. ASSUME NEW p \in Pid, HomeQueue(pm, p) = NULL
      PROVE  Cardinality({c \in Cell : link[c] = p}) = 0
  <2>1. \A c \in Cell : link[c] # p
    BY <1>4, <1>6, Sizes
  <2>2. {c \in Cell : link[c] = p} = {}
    BY <2>1
  <2> QED BY <2>2, FS_EmptySet
<1> QED BY <1>4, <1>5, <1>6 DEF QueueIntegrity, link

\* The types of the process manager: counters stay in their width although a
\* slice is taken below zero, and every pointer is NULL or a PCB.
THEOREM ManagerTypeCorrect == Spec => []TypeOK
<1>1. ManagerInv => TypeOK
  BY DEF ManagerInv
<1> QED BY <1>1, ManagerInvariance, PTL

\* The queue lists stay well formed through every interleaving of ticks, nested
\* ticks and the steps of the calls they interrupt, until a tick comes inside the
\* changing of a pointer or a queued process is terminated: each queued process
\* hangs on exactly one pointer, on the list of its state and priority, in
\* ascending pid order, and a process whose call is unfinished hangs on none.
THEOREM QueuesStayIntact == Spec => []QueueIntegrity
BY InvImpliesIntegrity, ManagerInvariance, PTL

\* At most one process is RUNNING, it is current_process and has the CPU, except
\* within its own exit or sleep; and a tick suspended inside the scheduler belongs
\* to a process that can resume it.
THEOREM OneProcessRuns == Spec => []OneRunning
<1>1. ManagerInv => OneRunning
  BY DEF ManagerInv, Sound, Good, RunsCurrent, OneRunning
<1> QED BY <1>1, ManagerInvariance, PTL

\* The pid bitmap, the process slots and active_processes never drift apart.
THEOREM SlotsStayInStep == Spec => []SlotsAgree
<1>1. ManagerInv => SlotsAgree
  BY DEF ManagerInv, Slots, SlotsAgree
<1> QED BY <1>1, ManagerInvariance, PTL

LEMMA TickStepIsBest ==
  ASSUME NEW m, TickStep(m)
  PROVE  BestIsRunning'
<1>1. PICK woken, reaped : Ticked(pm', m, woken, reaped)
  BY DEF TickStep
<1>2. pm' \in Manager
  BY DEF TickStep, Good
<1> QED BY <1>1, <1>2, TickedIsBest DEF BestIsRunning

\* Strict priority scheduling: whenever a tick is over, nothing that is ready
\* beats what runs, whatever the tick woke, reaped or put back.
THEOREM TicksDispatchBest == Spec => TickDispatchesBest
<1>1. ManagerInv /\ [Next]_vars =>
        [pm'.system_ticks # pm.system_ticks \/ inTick' # inTick => BestIsRunning']_vars
  <2> SUFFICES ASSUME ManagerInv, Next,
                      pm'.system_ticks # pm.system_ticks \/ inTick' # inTick
               PROVE  BestIsRunning'
    OBVIOUS
  <2>1. CASE TimerInterrupt \/ yield_cpu
    BY <2>1, InterruptKeepsInv, TickStepIsBest DEF TimerInterrupt, yield_cpu, BetweenCalls
  <2>2. CASE ResumeTick
    BY <2>2, ResumeTickKeepsInv, TickStepIsBest
  <2>3. CASE PageFaultKill
    BY <2>3, PageFaultKillKeepsInv, TickStepIsBest
  <2>4. CASE \E i \in Priorities : create_process(i)
    BY <2>4, CreateIs DEF CallStep
  <2>5. CASE CreateFails
    BY <2>5 DEF CreateFails, vars
  <2>6. CASE \E p \in Pid : terminate_process(p)
    BY <2>6, TerminateIs DEF CallStep
  <2>7. CASE \E p \in Pid, w \in WaitTimes : block_process(p, w)
    BY <2>7, BlockIs DEF CallStep
  <2>8. CASE \E p \in Pid : unblock_process(p)
    BY <2>8, UnblockActionIs DEF CallStep
  <2>9. CASE TerminateMarks \/ BlockDrops
    BY <2>9, MarksIs, BlockDropsIs DEF CallStep
  <2>10. CASE ContinueCall
    BY <2>10, DropsIs, BlockMarksIs, CallLinksIs DEF ContinueCall, CallStep
  <2>11. CASE TickWithinCall
    BY <2>11, TornTickIs
  <2> QED BY <2>1, <2>2, <2>3, <2>4, <2>5, <2>6, <2>7, <2>8, <2>9, <2>10, <2>11 DEF Next
<1> QED BY <1>1, ManagerInvariance, PTL DEF Spec, TickDispatchesBest

-----------------------------------------------------------------------------
(* The process manager implements the abstract process table.              *)

LEMMA TableNames ==
  /\ Table!Slots = Pid
  /\ Table!Levels = Prio
  /\ Table!None = NULL
BY DEF Table!Slots, Table!Levels, Table!None, Pid, Prio, NULL

\* What the table shows of one process, and of the process on the CPU.
LEMMA TableShows ==
  /\ \A p \in Pid : TableState(pm)[p] = IF pm.call[p] = "dropped" THEN "BLOCKED" ELSE pm.state[p]
  /\ \A p \in Pid : TableState(pm')[p] = IF pm'.call[p] = "dropped" THEN "BLOCKED" ELSE pm'.state[p]
BY DEF TableState

LEMMA InitImplementsTable == Init => Table!TableInit
<1> SUFFICES ASSUME Init PROVE Table!TableInit
  OBVIOUS
<1>1. TableState(pm) = [p \in Pid |-> "NONE"]
  BY DEF Init, TableState
<1>2. TableCurrent(pm) = NULL /\ pm.priority = [p \in Pid |-> 0]
  BY DEF Init, TableCurrent
<1> QED BY <1>1, <1>2, TableNames DEF Table!TableInit

\* The table's view after a step that moved process p only.
LEMMA TableMoves ==
  ASSUME NEW p \in Pid, NEW st, NEW pr, pm.state \in [Pid -> State], pm.call \in [Pid -> Progress],
         pm'.state = [pm.state EXCEPT ![p] = st], pm'.call = [pm.call EXCEPT ![p] = pr]
  PROVE  TableState(pm') = [TableState(pm) EXCEPT ![p] = IF pr = "dropped" THEN "BLOCKED" ELSE st]
BY DEF TableState

\* A tick is one step of the table; `ended' is the process it killed, if any.
LEMMA TickImplementsPreempt ==
  ASSUME Sound, NEW m, NEW ended, TickStep(m),
         \/ m = pm /\ ended = {}
         \/ /\ pm.current_process \in Pid /\ ended = {pm.current_process}
            /\ pm.state[pm.current_process] = "RUNNING" /\ pm.call[pm.current_process] = "none"
            /\ m = Terminated(pm, pm.current_process)
  PROVE  Table!TableNext
<1>1. PICK woken, reaped : Ticked(pm', m, woken, reaped)
  BY DEF TickStep
<1>2. Good(pm) /\ pm \in Manager /\ pm.state \in [Pid -> State] /\ pm.call \in [Pid -> Progress]
        /\ pm'.priority \in [Pid -> Prio]
        /\ pm.current_process \in Pid \cup {NULL}
        /\ pm'.state \in [Pid -> State] /\ Good(pm')
  BY ManagerTypes DEF Sound, Good, TickStep
<1>3. /\ m.priority = pm.priority
      /\ m.call = pm.call
      /\ m.state = [p \in Pid |-> IF p \in ended THEN "TERMINATED" ELSE pm.state[p]]
      /\ m.current_process \in {pm.current_process, NULL}
      /\ ended \subseteq {pm.current_process} /\ ended \subseteq Pid
      /\ \A p \in ended : pm.state[p] = "RUNNING" /\ pm.call[p] = "none"
  <2>1. CASE m = pm /\ ended = {}
    BY <1>2, <2>1
  <2>2. CASE /\ pm.current_process \in Pid /\ ended = {pm.current_process}
             /\ pm.state[pm.current_process] = "RUNNING" /\ pm.call[pm.current_process] = "none"
             /\ m = Terminated(pm, pm.current_process)
    BY <1>2, <2>2, TerminatedType
  <2> QED BY <2>1, <2>2
<1> DEFINE S == TableState(pm)
           C == TableCurrent(pm)
           n == pm'.current_process
           ready == Runnable(m) \cup woken
           In(s) == {p \in Pid : S[p] = s}
           wanted == In("READY") \cup woken \cup (In("RUNNING") \ ended)
<1>4. \A p \in Pid : S[p] = IF pm.call[p] = "dropped" THEN "BLOCKED" ELSE pm.state[p]
  BY TableShows
<1>5. ended \subseteq {C} /\ (\A p \in Pid : pm.state[p] = "RUNNING" /\ p = pm.current_process => p = C)
  <2>1. \A p \in Pid : p # NULL
    BY Sizes
  <2> QED BY <1>3, <2>1 DEF TableCurrent
<1> HIDE DEF S, C
<1>6. woken \subseteq In("BLOCKED") /\ woken \subseteq Pid
        /\ reaped \subseteq In("TERMINATED") \cup ended /\ reaped \subseteq Pid
  <2>1. woken \subseteq {p \in Pid : m.state[p] = "BLOCKED" /\ m.call[p] = "none"}
          /\ reaped \in {{}, {p \in Pid : m.state[p] = "TERMINATED" /\ m.call[p] = "none"}}
    BY <1>1 DEF Ticked
  <2>2. \A p \in Pid : m.state[p] = "BLOCKED" /\ m.call[p] = "none" => S[p] = "BLOCKED"
    BY <1>3, <1>4
  <2>3. \A p \in Pid : m.state[p] = "TERMINATED" /\ m.call[p] = "none"
                         => S[p] = "TERMINATED" \/ p \in ended
    BY <1>3, <1>4
  <2> QED BY <2>1, <2>2, <2>3
<1>7. ready = wanted /\ ready \subseteq Pid
  <2>1. \A p \in Pid : p \in Runnable(m) <=>
          S[p] = "READY" \/ (S[p] = "RUNNING" /\ p \notin ended)
    <3> SUFFICES ASSUME NEW p \in Pid
                 PROVE  p \in Runnable(m) <=> S[p] = "READY" \/ (S[p] = "RUNNING" /\ p \notin ended)
      OBVIOUS
    <3>1. CASE p \in ended
      BY <1>3, <1>4, <3>1 DEF Runnable
    <3>2. CASE p \notin ended
      <4>1. m.state[p] = pm.state[p] /\ m.call[p] = pm.call[p]
        BY <1>3, <3>2
      <4>2. pm.state[p] = "READY" => pm.call[p] # "dropped"
        BY <1>2 DEF Good, CallsFit
      <4> QED BY <1>4, <3>2, <4>1, <4>2 DEF Runnable
    <3> QED BY <3>1, <3>2
  <2>2. Runnable(m) \subseteq Pid
    BY DEF Runnable
  <2> QED BY <1>6, <2>1, <2>2
<1>8. ASSUME NEW p \in Pid
      PROVE  pm'.priority[p] = IF p \in reaped THEN 0 ELSE
               IF p = C /\ pm'.priority[p] # pm.priority[p]
               THEN pm.priority[p] + 1 ELSE pm.priority[p]
  <2>1. IF p \in reaped THEN pm'.priority[p] = 0
        ELSE \/ pm'.priority[p] = m.priority[p]
             \/ /\ p = m.current_process /\ m.state[p] = "RUNNING"
                /\ pm'.priority[p] = m.priority[p] + 1
    BY <1>1 DEF Ticked
  <2>2. p = m.current_process /\ m.state[p] = "RUNNING" => p = C
    BY <1>3, <1>5, Sizes
  <2> QED BY <1>3, <2>1, <2>2
<1>9. /\ \/ ready = {} /\ n = NULL
         \/ /\ n \in ready
            /\ \A q \in ready \ {n} : \/ pm'.priority[n] < pm'.priority[q]
                                      \/ pm'.priority[n] = pm'.priority[q] /\ n < q
      /\ pm'.state = [p \in Pid |-> IF p = n THEN "RUNNING"
                                    ELSE IF p \in ready THEN "READY"
                                    ELSE IF p \in reaped THEN "NONE" ELSE m.state[p]]
      /\ pm'.call = m.call
  BY <1>1, Zenon DEF Ticked
<1>10. \A p \in ready : pm'.call[p] # "dropped" /\ p \in Pid
  <2>1. woken \subseteq {p \in Pid : m.state[p] = "BLOCKED" /\ m.call[p] = "none"}
    BY <1>1 DEF Ticked
  <2>2. \A p \in Runnable(m) : m.call[p] # "dropped" /\ p \in Pid
    <3>1. \A p \in Pid : m.state[p] = "READY" => pm.state[p] = "READY"
      BY <1>3
    <3>2. \A p \in Pid : pm.state[p] = "READY" => pm.call[p] # "dropped"
      BY <1>2 DEF Good, CallsFit
    <3> QED BY <1>3, <3>1, <3>2 DEF Runnable
  <2> QED BY <1>9, <2>1, <2>2
<1> HIDE DEF ready
<1>11. TableState(pm') = [p \in Pid |-> IF p = n THEN "RUNNING"
                                 ELSE IF p \in ready THEN "READY"
                                 ELSE IF p \in reaped THEN "NONE"
                                 ELSE IF p \in ended THEN "TERMINATED" ELSE S[p]]
  <2> SUFFICES ASSUME NEW p \in Pid
               PROVE  TableState(pm')[p] = IF p = n THEN "RUNNING"
                                 ELSE IF p \in ready THEN "READY"
                                 ELSE IF p \in reaped THEN "NONE"
                                 ELSE IF p \in ended THEN "TERMINATED" ELSE S[p]
    BY DEF TableState
  <2>1. TableState(pm')[p] = IF pm'.call[p] = "dropped" THEN "BLOCKED" ELSE pm'.state[p]
    BY TableShows
  <2>2. p = n => p \in ready
    BY <1>9, Sizes
  <2>3. pm'.state[p] = IF p = n THEN "RUNNING" ELSE IF p \in ready THEN "READY"
                       ELSE IF p \in reaped THEN "NONE" ELSE m.state[p]
    BY <1>9
  <2>4. CASE pm'.call[p] = "dropped"
    <3>1. p \notin ready /\ p # n
      BY <1>10, <2>2, <2>4
    <3>2. p \notin reaped
      <4>1. reaped \in {{}, {s \in Pid : m.state[s] = "TERMINATED" /\ m.call[s] = "none"}}
        BY <1>1 DEF Ticked
      <4> QED BY <1>9, <2>4, <4>1
    <3>3. p \notin ended /\ S[p] = "BLOCKED"
      BY <1>3, <1>4, <1>9, <2>4
    <3> QED BY <2>1, <2>4, <3>1, <3>2, <3>3
  <2>5. CASE pm'.call[p] # "dropped"
    <3>1. p \notin ended => m.state[p] = S[p]
      BY <1>3, <1>4, <1>9, <2>5
    <3>2. p \in ended => m.state[p] = "TERMINATED"
      BY <1>3
    <3> QED BY <2>1, <2>3, <2>5, <3>1, <3>2
  <2> QED BY <2>4, <2>5
<1>12. TableCurrent(pm') = n
  <2>1. n # NULL => n \in Pid /\ pm'.state[n] = "RUNNING"
    BY <1>7, <1>9
  <2> QED BY <2>1 DEF TableCurrent
<1>13. /\ \/ wanted = {} /\ n = NULL
          \/ /\ n \in wanted
             /\ \A q \in wanted \ {n} : \/ pm'.priority[n] < pm'.priority[q]
                                        \/ pm'.priority[n] = pm'.priority[q] /\ n < q
       /\ TableState(pm') = [p \in Pid |-> IF p = n THEN "RUNNING"
                                 ELSE IF p \in wanted THEN "READY"
                                 ELSE IF p \in reaped THEN "NONE"
                                 ELSE IF p \in ended THEN "TERMINATED" ELSE S[p]]
  <2> HIDE DEF wanted
  <2> QED BY <1>7, <1>9, <1>11
<1>14. Table!Preempt(woken, reaped, ended)
  BY <1>2, <1>3, <1>5, <1>6, <1>8, <1>12, <1>13, TableNames
     DEF Table!Preempt, Table!In, Table!Before, S, C
<1>15. /\ woken \in SUBSET Table!In("BLOCKED")
       /\ ended \in SUBSET ({TableCurrent(pm)} \cap Table!Slots)
       /\ reaped \in SUBSET (Table!In("TERMINATED") \cup ended)
  BY <1>3, <1>5, <1>6, TableNames DEF Table!In, S, C
<1> QED BY <1>14, <1>15 DEF Table!TableNext

\* terminate_process takes a process out of the table, or finds it terminated.
LEMMA TerminateImplementsLeave ==
  ASSUME ManagerInv, NEW p \in Pid, terminate_process(p)
  PROVE  Table!TableNext \/ UNCHANGED Table!tableVars
<1>1. /\ Sound /\ CallStep /\ pm.state[p] # "NONE"
      /\ pm'.state = [pm.state EXCEPT ![p] = "TERMINATED"]
      /\ pm'.call = [pm.call EXCEPT ![p] = "none"]
      /\ pm'.priority = pm.priority
      /\ pm'.current_process = IF pm.current_process = p THEN NULL ELSE pm.current_process
      /\ pm.current_process = p => pm.state[p] = "RUNNING" /\ pm.call[p] = "none"
  BY TerminateIs
<1>2. pm.state \in [Pid -> State] /\ pm.call \in [Pid -> Progress]
        /\ pm.current_process \in Pid \cup {NULL}
  BY <1>1, ManagerTypes DEF CallStep, Sound, Good
<1>3. TableState(pm') = [TableState(pm) EXCEPT ![p] = "TERMINATED"]
  BY <1>1, <1>2, TableMoves
<1>4. CASE pm.current_process = p
  <2>1. TableCurrent(pm) = p /\ TableCurrent(pm') = NULL
    BY <1>1, <1>4 DEF TableCurrent
  <2>2. Table!Leave(p, "TERMINATED")
    BY <1>1, <1>3, <2>1, TableNames DEF Table!Leave
  <2> QED BY <2>2, TableNames DEF Table!TableNext
<1>5. CASE pm.current_process # p
  <2>1. TableCurrent(pm') = TableCurrent(pm)
    BY <1>1, <1>2, <1>5 DEF TableCurrent
  <2>2. CASE TableState(pm)[p] = "TERMINATED"
    <3>1. TableState(pm') = TableState(pm)
      BY <1>3, <2>2 DEF TableState
    <3> QED BY <1>1, <2>1, <3>1 DEF Table!tableVars
  <2>3. CASE TableState(pm)[p] # "TERMINATED"
    <3>1. pm.state[p] = "RUNNING" => pm.call[p] = "dropped"
      BY <1>1, <1>5 DEF Sound, Good, RunsCurrent
    <3>2. TableState(pm)[p] \in {"READY", "BLOCKED"}
      <4>1. pm.state[p] \in {"READY", "RUNNING", "BLOCKED", "TERMINATED"}
        BY <1>1, <1>2 DEF State
      <4> QED BY <2>3, <3>1, <4>1, TableShows
    <3>3. Table!Leave(p, "TERMINATED")
      BY <1>1, <1>3, <2>1, <3>2 DEF Table!Leave
    <3> QED BY <3>3, TableNames DEF Table!TableNext
  <2> QED BY <2>2, <2>3
<1> QED BY <1>4, <1>5

LEMMA BlockImplementsLeave ==
  ASSUME ManagerInv, NEW p \in Pid, NEW w \in WaitTimes, block_process(p, w)
  PROVE  Table!TableNext
<1>1. /\ Sound /\ CallStep
      /\ pm'.state = [pm.state EXCEPT ![p] = "BLOCKED"]
      /\ pm'.priority = pm.priority
      /\ pm'.call = pm.call /\ pm.call[p] = "none"
      /\ \/ pm.state[p] = "READY" /\ pm'.current_process = pm.current_process
         \/ /\ p = pm.current_process /\ pm.state[p] = "RUNNING"
            /\ pm'.current_process = NULL
  BY BlockIs
<1>2. pm.state \in [Pid -> State] /\ pm.call \in [Pid -> Progress]
        /\ pm.current_process \in Pid \cup {NULL} /\ p # NULL
  BY <1>1, Sizes, ManagerTypes DEF CallStep, Sound, Good
<1>3. pm'.call = [pm.call EXCEPT ![p] = "none"]
  BY <1>1, <1>2
<1>4. TableState(pm') = [TableState(pm) EXCEPT ![p] = "BLOCKED"]
  BY <1>1, <1>2, <1>3, TableMoves
<1>5. Table!Leave(p, "BLOCKED")
  <2>1. CASE pm.state[p] = "READY" /\ pm'.current_process = pm.current_process
    <3>1. TableState(pm)[p] = "READY"
      BY <1>1, <2>1, TableShows
    <3>2. pm.current_process # p
      BY <1>1, <2>1 DEF Sound, Good, RunsCurrent
    <3>3. TableCurrent(pm') = TableCurrent(pm)
      BY <1>1, <1>2, <2>1, <3>2 DEF TableCurrent
    <3> QED BY <1>1, <1>4, <3>1, <3>3 DEF Table!Leave
  <2>2. CASE p = pm.current_process /\ pm.state[p] = "RUNNING" /\ pm'.current_process = NULL
    <3>1. TableCurrent(pm) = p /\ TableCurrent(pm') = NULL
      BY <2>2 DEF TableCurrent
    <3> QED BY <1>1, <1>4, <3>1, TableNames DEF Table!Leave
  <2> QED BY <1>1, <2>1, <2>2
<1> QED BY <1>5, TableNames DEF Table!TableNext

\* The first step of an exit or a sleep leaves the table's CPU; the others are
\* not seen by the table.
LEMMA DividedCallsImplementLeave ==
  ASSUME ManagerInv, TerminateMarks \/ BlockDrops \/ ContinueCall
  PROVE  Table!TableNext \/ UNCHANGED Table!tableVars
<1>1. CASE TerminateMarks
  <2>1. /\ Sound /\ CallStep /\ CallMoves(cpu, "TERMINATED", "marked", cpu)
        /\ pm.current_process = cpu /\ pm.state[cpu] = "RUNNING" /\ pm.call[cpu] = "none"
    BY <1>1, MarksIs
  <2>2. TableState(pm') = [TableState(pm) EXCEPT ![cpu] = "TERMINATED"]
    BY <2>1, TableMoves DEF CallStep, CallMoves
  <2>3. TableCurrent(pm) = cpu /\ TableCurrent(pm') = NULL
    <3>1. pm'.state[cpu] = "TERMINATED" /\ pm'.current_process = cpu
      BY <2>1 DEF CallStep, CallMoves
    <3> QED BY <2>1, <3>1 DEF TableCurrent
  <2>4. Table!Leave(cpu, "TERMINATED") /\ cpu \in Pid
    BY <2>1, <2>2, <2>3, TableNames DEF Table!Leave, CallMoves
  <2> QED BY <2>4, TableNames DEF Table!TableNext
<1>2. CASE BlockDrops
  <2>1. /\ Sound /\ CallStep /\ CallMoves(cpu, "RUNNING", "dropped", NULL)
        /\ pm.current_process = cpu /\ pm.state[cpu] = "RUNNING" /\ pm.call[cpu] = "none"
    BY <1>2, BlockDropsIs
  <2>2. TableState(pm') = [TableState(pm) EXCEPT ![cpu] = "BLOCKED"]
    BY <2>1, TableMoves DEF CallStep, CallMoves
  <2>3. TableCurrent(pm) = cpu /\ TableCurrent(pm') = NULL
    BY <2>1 DEF TableCurrent, CallMoves
  <2>4. Table!Leave(cpu, "BLOCKED") /\ cpu \in Pid
    BY <2>1, <2>2, <2>3, TableNames DEF Table!Leave, CallMoves
  <2> QED BY <2>4, TableNames DEF Table!TableNext
<1>3. CASE TerminateDrops
  <2>1. /\ Sound /\ CallStep
        /\ CallMoves(cpu, "TERMINATED", "linking",
                     IF pm.current_process = cpu THEN NULL ELSE pm.current_process)
        /\ pm.state[cpu] = "TERMINATED" /\ pm.call[cpu] = "marked"
    BY <1>3, DropsIs
  <2>2. TableState(pm') = [TableState(pm) EXCEPT ![cpu] = "TERMINATED"]
    BY <2>1, TableMoves DEF CallStep, CallMoves
  <2>3. TableState(pm') = TableState(pm)
    BY <2>1, <2>2, TableShows DEF TableState, CallMoves
  <2>4. pm'.state = pm.state
    BY <2>1 DEF CallStep, CallMoves
  <2>5. TableCurrent(pm') = TableCurrent(pm)
    BY <2>1, <2>4, Sizes DEF TableCurrent, CallMoves
  <2> QED BY <2>1, <2>3, <2>5 DEF Table!tableVars, CallMoves
<1>4. CASE \E w \in WaitTimes : BlockMarks(w)
  <2>1. /\ Sound /\ CallStep /\ CallMoves(cpu, "BLOCKED", "linking", pm.current_process)
        /\ pm.state[cpu] = "RUNNING" /\ pm.call[cpu] = "dropped" /\ pm.current_process # cpu
    BY <1>4, BlockMarksIs
  <2>2. TableState(pm') = [TableState(pm) EXCEPT ![cpu] = "BLOCKED"]
    BY <2>1, TableMoves DEF CallStep, CallMoves
  <2>3. TableState(pm') = TableState(pm)
    BY <2>1, <2>2, TableShows DEF TableState, CallMoves
  <2>4. TableCurrent(pm') = TableCurrent(pm)
    <3>1. pm.current_process \in Pid \cup {NULL}
      BY <2>1, ManagerTypes DEF Sound, Good
    <3>2. pm.current_process \in Pid => pm'.state[pm.current_process] = pm.state[pm.current_process]
      BY <2>1 DEF CallStep, CallMoves
    <3> QED BY <2>1, <3>1, <3>2 DEF TableCurrent, CallMoves
  <2> QED BY <2>1, <2>3, <2>4 DEF Table!tableVars, CallMoves
<1>5. CASE CallLinks
  <2>1. /\ Sound /\ CallStep /\ CallMoves(cpu, pm.state[cpu], "none", pm.current_process)
        /\ pm.state[cpu] \in {"BLOCKED", "TERMINATED"} /\ pm.call[cpu] = "linking"
    BY <1>5, CallLinksIs
  <2>2. TableState(pm') = [TableState(pm) EXCEPT ![cpu] = pm.state[cpu]]
    BY <2>1, TableMoves DEF CallStep, CallMoves
  <2>3. TableState(pm') = TableState(pm)
    BY <2>1, <2>2, TableShows DEF TableState, CallMoves
  <2>4. pm'.state = pm.state
    BY <2>1 DEF CallStep, CallMoves
  <2>5. TableCurrent(pm') = TableCurrent(pm)
    BY <2>1, <2>4 DEF TableCurrent, CallMoves
  <2> QED BY <2>1, <2>3, <2>5 DEF Table!tableVars, CallMoves
<1> QED BY <1>1, <1>2, <1>3, <1>4, <1>5 DEF ContinueCall

LEMMA NextImplementsTable ==
  ManagerInv /\ [Next]_vars => [Table!TableNext]_(Table!tableVars)
<1> SUFFICES ASSUME ManagerInv, [Next]_vars
             PROVE  Table!TableNext \/ UNCHANGED Table!tableVars
  OBVIOUS
<1>1. CASE UNCHANGED vars
  BY <1>1 DEF vars, Table!tableVars, TableState, TableCurrent
<1>2. CASE TimerInterrupt \/ yield_cpu
  <2>1. Sound /\ TickStep(pm)
    BY <1>2, InterruptKeepsInv DEF TimerInterrupt, yield_cpu, BetweenCalls
  <2> QED BY <2>1, TickImplementsPreempt
<1>3. CASE ResumeTick
  <2>1. Sound /\ TickStep(pm)
    BY <1>3, ResumeTickKeepsInv
  <2> QED BY <2>1, TickImplementsPreempt
<1>4. CASE PageFaultKill
  BY <1>4, PageFaultKillKeepsInv, TickImplementsPreempt
<1>5. CASE \E i \in Priorities : create_process(i)
  <2>1. PICK i \in Priorities : create_process(i)
    BY <1>5
  <2>2. Sound /\ CallStep /\ pm'.current_process = pm.current_process /\ pm'.call = pm.call
    BY <2>1, CreateIs
  <2>3. PICK p \in Pid, j \in Prio :
          /\ pm.state[p] = "NONE" /\ \A q \in Pid : pm.state[q] = "NONE" => p <= q
          /\ pm.call[p] = "none"
          /\ pm'.state = [pm.state EXCEPT ![p] = "READY"]
          /\ pm'.priority = [pm.priority EXCEPT ![p] = j]
    BY <2>1, CreateIs
  <2>4. pm'.call = [pm.call EXCEPT ![p] = "none"]
    BY <2>2, <2>3 DEF CallStep
  <2>5. TableState(pm') = [TableState(pm) EXCEPT ![p] = "READY"]
    BY <2>2, <2>3, <2>4, TableMoves DEF CallStep
  <2>6. TableState(pm)[p] = "NONE" /\ \A q \in Pid : TableState(pm)[q] = "NONE" => p <= q
    BY <2>3, TableShows
  <2>7. TableCurrent(pm') = TableCurrent(pm)
    <3>1. pm.current_process \in Pid \cup {NULL}
      BY <2>2, ManagerTypes DEF Sound, Good
    <3>2. pm.current_process \in Pid =>
            (pm'.state[pm.current_process] = "TERMINATED" <=> pm.state[pm.current_process] = "TERMINATED")
      BY <2>2, <2>3 DEF CallStep
    <3> QED BY <2>2, <3>1, <3>2 DEF TableCurrent
  <2>8. Table!Create(p, j)
    BY <2>3, <2>5, <2>6, <2>7, TableNames DEF Table!Create, Table!In
  <2> QED BY <2>8, TableNames DEF Table!TableNext
<1>6. CASE CreateFails
  BY <1>1, <1>6 DEF CreateFails
<1>7. CASE \E p \in Pid : terminate_process(p)
  BY <1>7, TerminateImplementsLeave
<1>8. CASE \E p \in Pid, w \in WaitTimes : block_process(p, w)
  BY <1>8, BlockImplementsLeave
<1>9. CASE \E p \in Pid : unblock_process(p)
  <2>1. PICK p \in Pid : unblock_process(p)
    BY <1>9
  <2>2. /\ Sound /\ CallStep /\ pm.state[p] = "BLOCKED"
        /\ pm'.state = [pm.state EXCEPT ![p] = "READY"]
        /\ pm'.call = [pm.call EXCEPT ![p] = "none"]
        /\ pm'.priority = pm.priority /\ pm'.current_process = pm.current_process
    BY <2>1, UnblockActionIs
  <2>3. TableState(pm') = [TableState(pm) EXCEPT ![p] = "READY"] /\ TableState(pm)[p] = "BLOCKED"
    BY <2>2, TableMoves, TableShows DEF CallStep
  <2>4. TableCurrent(pm') = TableCurrent(pm)
    <3>1. pm.current_process \in Pid \cup {NULL}
      BY <2>2, ManagerTypes DEF Sound, Good
    <3>2. pm.current_process \in Pid =>
            (pm'.state[pm.current_process] = "TERMINATED" <=> pm.state[pm.current_process] = "TERMINATED")
      BY <2>2 DEF CallStep
    <3> QED BY <2>2, <3>1, <3>2 DEF TableCurrent
  <2>5. Table!Awaken(p)
    BY <2>2, <2>3, <2>4 DEF Table!Awaken
  <2> QED BY <2>5, TableNames DEF Table!TableNext
<1>10. CASE TerminateMarks \/ BlockDrops \/ ContinueCall
  BY <1>10, DividedCallsImplementLeave
<1>11. CASE TickWithinCall
  BY <1>11 DEF TickWithinCall, Table!tableVars, TableState, TableCurrent
<1> QED BY <1>1, <1>2, <1>3, <1>4, <1>5, <1>6, <1>7, <1>8, <1>9, <1>10, <1>11 DEF Next

\* Linked lists, slices, clocks, nested ticks and divided calls implement the
\* abstract table: every step of the process manager is a step of it, or leaves it
\* unchanged.
THEOREM ManagerImplementsTable == Spec => ImplementsTable
BY InitImplementsTable, NextImplementsTable, ManagerInvariance, PTL
   DEF Spec, ImplementsTable, Table!TableSpec
=============================================================================
