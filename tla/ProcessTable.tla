---------------------------- MODULE ProcessTable ----------------------------
(***************************************************************************)
(* What the process manager promises, without queues, pointers, slices or  *)
(* clocks: a process is in one state, at most one is running, and every    *)
(* interrupt hands the CPU to the best ready process.  The abstract        *)
(* counterpart of ProcessManager, which implements it.                     *)
(***************************************************************************)
EXTENDS Integers, FiniteSets

CONSTANTS
  NPid,   \* process slots (PROCESS_MAX_COUNT)
  NPrio   \* priority levels (MAX_PRIORITY_LEVELS); 0 is the most urgent

\* Both are positive in every instance.
TableParameters == NPid \in Nat \ {0} /\ NPrio \in Nat \ {0}

VARIABLES state, priority, current

tableVars == <<state, priority, current>>

None   == -1
Slots  == 0 .. NPid - 1
Levels == 0 .. NPrio - 1
Phase  == {"NONE", "READY", "RUNNING", "BLOCKED", "TERMINATED"}

TableTypeOK ==
  /\ state \in [Slots -> Phase]
  /\ priority \in [Slots -> Levels]
  /\ current \in Slots \cup {None}

TableInit ==
  /\ state = [p \in Slots |-> "NONE"]
  /\ priority = [p \in Slots |-> 0]
  /\ current = None

In(s) == {p \in Slots : state[p] = s}

\* p goes before q: a better level, or the same level and a smaller pid.
Before(prio, p, q) ==
  prio[p] < prio[q] \/ (prio[p] = prio[q] /\ p < q)

-----------------------------------------------------------------------------
\* create_process takes the smallest free slot.
Create(p, i) ==
  /\ state[p] = "NONE"
  /\ \A q \in In("NONE") : p <= q
  /\ state' = [state EXCEPT ![p] = "READY"]
  /\ priority' = [priority EXCEPT ![p] = i]
  /\ UNCHANGED current

\* The running process leaves the CPU to end or to sleep, a ready process is
\* put to sleep by another, or one that does not run is ended by another.
Leave(p, s) ==
  /\ \/ p = current /\ s \in {"TERMINATED", "BLOCKED"} /\ current' = None
     \/ state[p] = "READY" /\ s = "BLOCKED" /\ UNCHANGED current
     \/ state[p] \in {"READY", "BLOCKED"} /\ s = "TERMINATED" /\ UNCHANGED current
  /\ state' = [state EXCEPT ![p] = s]
  /\ UNCHANGED priority

Awaken(p) ==
  /\ state[p] = "BLOCKED"
  /\ state' = [state EXCEPT ![p] = "READY"]
  /\ UNCHANGED <<priority, current>>

\* One interrupt 0x20: `woken' sleepers become ready, `reaped' slots become
\* free, the running process either ends (`ended') or becomes ready again,
\* possibly one level down, and the best ready process gets the CPU.
Preempt(woken, reaped, ended) ==
  /\ woken \subseteq In("BLOCKED")
  /\ ended \subseteq {current}
  /\ ended \subseteq Slots
  /\ reaped \subseteq In("TERMINATED") \cup ended
  /\ LET ready == In("READY") \cup woken \cup (In("RUNNING") \ ended)
     IN  /\ priority' \in [Slots -> Levels]
         /\ \A p \in Slots :
              priority'[p] = IF p \in reaped THEN 0 ELSE
                IF p = current /\ priority'[p] # priority[p]
                THEN priority[p] + 1 ELSE priority[p]
         /\ \/ ready = {} /\ current' = None
            \/ /\ current' \in ready
               /\ \A q \in ready \ {current'} : Before(priority', current', q)
         /\ state' = [p \in Slots |->
              IF p = current' THEN "RUNNING"
              ELSE IF p \in ready THEN "READY"
              ELSE IF p \in reaped THEN "NONE"
              ELSE IF p \in ended THEN "TERMINATED" ELSE state[p]]

TableNext ==
  \/ \E p \in Slots, i \in Levels : Create(p, i)
  \/ \E p \in Slots, s \in {"TERMINATED", "BLOCKED"} : Leave(p, s)
  \/ \E p \in Slots : Awaken(p)
  \/ \E woken \in SUBSET In("BLOCKED"), ended \in SUBSET ({current} \cap Slots) :
       \E reaped \in SUBSET (In("TERMINATED") \cup ended) : Preempt(woken, reaped, ended)

TableSpec == TableInit /\ [][TableNext]_tableVars

-----------------------------------------------------------------------------
\* The running process is the current one, and there is no other: schedule sets
\* RUNNING and current_process together, and every other call clears both.
RunningIsCurrent ==
  \A p \in Slots : state[p] = "RUNNING" <=> p = current

\* A terminated process never comes back: its slot stays TERMINATED until the
\* reaper empties it.
TerminatedStays ==
  [][\A p \in Slots : state[p] = "TERMINATED" => state'[p] \in {"TERMINATED", "NONE"}]_tableVars

\* A process starts running only from ready or blocked (a sleeper the same
\* tick wakes), and then every process still ready is behind it.
DispatchIsBest ==
  [][current' # current /\ current' # None =>
       /\ state[current'] \in {"READY", "BLOCKED"}
       /\ \A q \in Slots : state'[q] = "READY" => Before(priority', current', q)]_tableVars
=============================================================================
