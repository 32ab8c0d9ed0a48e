------------------------- MODULE ProcessTableProofs -------------------------
(***************************************************************************)
(* TLAPS proofs about the abstract process table, for every number of      *)
(* slots and of priority levels.                                           *)
(***************************************************************************)
EXTENDS ProcessTable, TLAPS

\* The inductive invariant: types, and the RUNNING slot is the current one.
TableInv == TableTypeOK /\ RunningIsCurrent

\* A step is one of the calls, or one interrupt whose sets are sets of slots.
LEMMA TableSteps ==
  ASSUME TableNext
  PROVE  \/ \E p \in Slots, i \in Levels : Create(p, i)
         \/ \E p \in Slots, s \in {"TERMINATED", "BLOCKED"} : Leave(p, s)
         \/ \E p \in Slots : Awaken(p)
         \/ \E woken \in SUBSET Slots, reaped \in SUBSET Slots, ended \in SUBSET Slots :
              Preempt(woken, reaped, ended)
<1>1. ASSUME NEW woken \in SUBSET In("BLOCKED"), NEW ended \in SUBSET ({current} \cap Slots),
             NEW reaped \in SUBSET (In("TERMINATED") \cup ended)
      PROVE  woken \in SUBSET Slots /\ reaped \in SUBSET Slots /\ ended \in SUBSET Slots
  BY DEF In
<1> QED BY <1>1 DEF TableNext

LEMMA InitEstablishesInv ==
  ASSUME TableParameters
  PROVE  TableInit => TableInv
BY DEF TableParameters, TableInit, TableInv, TableTypeOK, RunningIsCurrent,
       Slots, Levels, Phase, None

LEMMA CreateKeepsInv ==
  ASSUME TableInv, NEW p \in Slots, NEW i \in Levels, Create(p, i)
  PROVE  TableInv'
BY DEF TableInv, TableTypeOK, RunningIsCurrent, Create, Phase

LEMMA LeaveKeepsInv ==
  ASSUME TableInv, NEW p \in Slots, NEW s \in {"TERMINATED", "BLOCKED"}, Leave(p, s)
  PROVE  TableInv'
<1>1. TableTypeOK'
  BY DEF TableInv, TableTypeOK, Leave, Phase
<1>2. RunningIsCurrent'
  <2> SUFFICES ASSUME NEW q \in Slots
               PROVE  state'[q] = "RUNNING" <=> q = current'
    BY DEF RunningIsCurrent
  <2>1. CASE q = p
    BY <2>1 DEF TableInv, TableTypeOK, RunningIsCurrent, Leave, Slots, None
  <2>2. CASE q # p
    BY <2>2 DEF TableInv, TableTypeOK, RunningIsCurrent, Leave, Slots, None
  <2> QED BY <2>1, <2>2
<1> QED BY <1>1, <1>2 DEF TableInv

LEMMA AwakenKeepsInv ==
  ASSUME TableInv, NEW p \in Slots, Awaken(p)
  PROVE  TableInv'
BY DEF TableInv, TableTypeOK, RunningIsCurrent, Awaken, Phase

LEMMA PreemptKeepsInv ==
  ASSUME TableInv, NEW woken \in SUBSET Slots, NEW reaped \in SUBSET Slots,
         NEW ended \in SUBSET Slots, Preempt(woken, reaped, ended)
  PROVE  TableInv'
<1> DEFINE ready == In("READY") \cup woken \cup (In("RUNNING") \ ended)
<1>1. ready \subseteq Slots
  BY DEF In
<1>2. current' \in Slots \cup {None}
  BY <1>1 DEF Preempt
<1>3. state' = [q \in Slots |->
              IF q = current' THEN "RUNNING"
              ELSE IF q \in ready THEN "READY"
              ELSE IF q \in reaped THEN "NONE"
              ELSE IF q \in ended THEN "TERMINATED" ELSE state[q]]
  BY DEF Preempt
<1>4. priority' \in [Slots -> Levels]
  BY DEF Preempt
<1>5. TableTypeOK'
  BY <1>2, <1>3, <1>4 DEF TableInv, TableTypeOK, Phase
<1>6. RunningIsCurrent'
  <2> SUFFICES ASSUME NEW q \in Slots, state'[q] = "RUNNING", q # current'
               PROVE  FALSE
    BY <1>3 DEF RunningIsCurrent
  <2>1. state[q] = "RUNNING" /\ q \notin ready /\ q \notin ended
    BY <1>3
  <2> QED BY <2>1 DEF In
<1> QED BY <1>5, <1>6 DEF TableInv

LEMMA NextKeepsInv == TableInv /\ [TableNext]_tableVars => TableInv'
<1> SUFFICES ASSUME TableInv, [TableNext]_tableVars
             PROVE  TableInv'
  OBVIOUS
<1>1. CASE UNCHANGED tableVars
  BY <1>1 DEF tableVars, TableInv, TableTypeOK, RunningIsCurrent
<1>2. CASE TableNext
  BY <1>2, TableSteps, CreateKeepsInv, LeaveKeepsInv, AwakenKeepsInv, PreemptKeepsInv
<1> QED BY <1>1, <1>2

\* Types of the abstract table, and the central fact about it: a process is
\* RUNNING exactly when it is current_process.
THEOREM TableSafety ==
  ASSUME TableParameters
  PROVE  TableSpec => [](TableTypeOK /\ RunningIsCurrent)
<1>1. TableInv => TableTypeOK /\ RunningIsCurrent
  BY DEF TableInv
<1> QED BY <1>1, InitEstablishesInv, NextKeepsInv, PTL DEF TableSpec

-----------------------------------------------------------------------------
\* No call and no interrupt brings a terminated process back: its slot stays
\* TERMINATED until the reaper empties it.
THEOREM TableTerminatedStays ==
  ASSUME TableParameters
  PROVE  TableSpec => TerminatedStays
<1>1. TableInv /\ [TableNext]_tableVars =>
        [\A p \in Slots : state[p] = "TERMINATED" =>
           state'[p] \in {"TERMINATED", "NONE"}]_tableVars
  <2> SUFFICES ASSUME TableInv, TableNext, NEW p \in Slots, state[p] = "TERMINATED"
               PROVE  state'[p] \in {"TERMINATED", "NONE"}
    OBVIOUS
  <2>1. ASSUME NEW q \in Slots, NEW i \in Levels, Create(q, i)
        PROVE  state'[p] = "TERMINATED"
    BY <2>1 DEF Create, TableInv, TableTypeOK
  <2>2. ASSUME NEW q \in Slots, NEW s \in {"TERMINATED", "BLOCKED"}, Leave(q, s)
        PROVE  state'[p] = "TERMINATED"
    BY <2>2 DEF Leave, TableInv, TableTypeOK, RunningIsCurrent
  <2>3. ASSUME NEW q \in Slots, Awaken(q)
        PROVE  state'[p] = "TERMINATED"
    BY <2>3 DEF Awaken, TableInv, TableTypeOK
  <2>4. ASSUME NEW woken \in SUBSET Slots, NEW reaped \in SUBSET Slots,
               NEW ended \in SUBSET Slots, Preempt(woken, reaped, ended)
        PROVE  state'[p] \in {"TERMINATED", "NONE"}
    <3> DEFINE ready == In("READY") \cup woken \cup (In("RUNNING") \ ended)
    <3>1. p \notin ready
      BY <2>4 DEF Preempt, In
    <3>2. current' = None \/ current' \in ready
      BY <2>4 DEF Preempt
    <3>3. p # current'
      BY <3>1, <3>2 DEF Slots, None
    <3>4. state' = [q \in Slots |->
              IF q = current' THEN "RUNNING"
              ELSE IF q \in ready THEN "READY"
              ELSE IF q \in reaped THEN "NONE"
              ELSE IF q \in ended THEN "TERMINATED" ELSE state[q]]
      BY <2>4 DEF Preempt
    <3> QED BY <3>1, <3>3, <3>4
  <2> QED BY <2>1, <2>2, <2>3, <2>4, TableSteps
<1> QED BY <1>1, InitEstablishesInv, NextKeepsInv, PTL DEF TableSpec, TerminatedStays

\* Strict priority scheduling with ties broken by the smaller pid: whoever
\* newly gets the CPU was ready or asleep, and beats every process left ready.
THEOREM TableDispatchIsBest ==
  ASSUME TableParameters
  PROVE  TableSpec => DispatchIsBest
<1>1. TableInv /\ [TableNext]_tableVars =>
        [current' # current /\ current' # None =>
           /\ state[current'] \in {"READY", "BLOCKED"}
           /\ \A q \in Slots : state'[q] = "READY" => Before(priority', current', q)]_tableVars
  <2> SUFFICES ASSUME TableInv, TableNext, current' # current, current' # None
               PROVE  /\ state[current'] \in {"READY", "BLOCKED"}
                      /\ \A q \in Slots : state'[q] = "READY" =>
                           Before(priority', current', q)
    OBVIOUS
  <2>1. PICK woken \in SUBSET Slots, reaped \in SUBSET Slots, ended \in SUBSET Slots :
          Preempt(woken, reaped, ended)
    BY TableSteps DEF Create, Leave, Awaken
  <2> DEFINE ready == In("READY") \cup woken \cup (In("RUNNING") \ ended)
  <2>2. /\ current' \in ready
        /\ \A q \in ready \ {current'} : Before(priority', current', q)
    BY <2>1 DEF Preempt
  <2>3. state[current'] \in {"READY", "BLOCKED"}
    BY <2>1, <2>2 DEF Preempt, In, TableInv, RunningIsCurrent
  <2>4. ASSUME NEW q \in Slots, state'[q] = "READY"
        PROVE  q \in ready /\ q # current'
    <3>1. state' = [r \in Slots |->
              IF r = current' THEN "RUNNING"
              ELSE IF r \in ready THEN "READY"
              ELSE IF r \in reaped THEN "NONE"
              ELSE IF r \in ended THEN "TERMINATED" ELSE state[r]]
      BY <2>1 DEF Preempt
    <3> QED BY <2>4, <3>1 DEF In
  <2> QED BY <2>2, <2>3, <2>4
<1> QED BY <1>1, InitEstablishesInv, NextKeepsInv, PTL DEF TableSpec, DispatchIsBest
=============================================================================
