--------------------------- MODULE ProcessManager ---------------------------
(***************************************************************************)
(* The process manager of src/kernel/multitask/process.c: process control  *)
(* blocks on singly linked queues (one ready queue per priority, one       *)
(* blocked queue, one terminated queue), the timer tick, the scheduler and *)
(* the calls that create, terminate, block and unblock processes.          *)
(*                                                                         *)
(* A PCB is named by its pid.  A Process* (a queue head or a `next' field) *)
(* is a cell, and `link' gives what every cell points to, so that a        *)
(* Process** of the code is simply a cell.  The system has one CPU: `cpu'  *)
(* is the context it executes, which is not always current_process.        *)
(*                                                                         *)
(* A process that ends (process_wrapper) or puts itself to sleep does so   *)
(* with interrupts on: a tick can come between any two steps of            *)
(* terminate_process and block_process, and `call' says how far the        *)
(* process has got.  When such a tick hands the CPU to another process the *)
(* call is never finished, because schedule saves only a RUNNING process.  *)
(***************************************************************************)
EXTENDS Integers, FiniteSets, FiniteSetsExt

CONSTANTS
  PROCESS_MAX_COUNT,    \* number of process slots
  MAX_PRIORITY_LEVELS,  \* number of ready queues; level 0 is the most urgent
  TIME_SLICE_BASE,
  REAP_PERIOD,          \* ticks between two reapings (100 in the code)
  TICK_MOD,             \* modulus of system_ticks (2^32 in the code)
  SLICE_MOD,            \* modulus of time_slice (2^32 in the code)
  Priorities,           \* the priorities callers of create_process ask for
  WaitTimes             \* the wait times callers of block_process ask for

ASSUME ManagerAssumption ==
  /\ PROCESS_MAX_COUNT \in Nat \ {0}
  /\ MAX_PRIORITY_LEVELS \in Nat \ {0}
  /\ TIME_SLICE_BASE \in Nat \ {0}
  /\ REAP_PERIOD \in Nat \ {0}
  /\ TICK_MOD \in Nat \ {0, 1}
  /\ SLICE_MOD \in Nat \ {0, 1}
  /\ TIME_SLICE_BASE * MAX_PRIORITY_LEVELS < SLICE_MOD
  /\ Priorities \subseteq Nat
  /\ WaitTimes \subseteq 0 .. TICK_MOD - 1

VARIABLES
  pm,      \* *process_manager, with the PCBs it points to
  cpu,     \* the context the CPU executes: a pid, or NULL for kernel_main
  inTick,  \* pids whose saved context is inside process_manager_tick (line 442)
  torn     \* a process is on two queues, or a tick came while pointers were
           \* being changed: the model stops, and nothing is claimed after that

vars == <<pm, cpu, inTick, torn>>

NULL == -1
Pid  == 0 .. PROCESS_MAX_COUNT - 1
Prio == 0 .. MAX_PRIORITY_LEVELS - 1

\* The cells: the `next' field of every PCB, then the queue heads.
ReadyQ(i)   == PROCESS_MAX_COUNT + i
BlockedQ    == PROCESS_MAX_COUNT + MAX_PRIORITY_LEVELS
TerminatedQ == BlockedQ + 1
Cell        == 0 .. TerminatedQ
Head        == Cell \ Pid

\* "NONE" is an empty slot of processes[]; CREATED never outlives
\* create_process and WAITING is never assigned.
State == {"NONE", "READY", "RUNNING", "BLOCKED", "TERMINATED"}

\* What a process has done of a call that interrupts can still divide:
\* "marked" TERMINATED (line 285), "dropped" as current_process but still
\* RUNNING (line 324), or all but "linking" itself on the queue (298, 332).
Progress == {"none", "marked", "dropped", "linking"}

Manager ==
  [link: [Cell -> Pid \cup {NULL}],
   state: [Pid -> State],
   priority: [Pid -> Prio],
   time_slice: [Pid -> 0 .. SLICE_MOD - 1],
   wakeup_time: [Pid -> 0 .. TICK_MOD - 1],
   process_bitmap: SUBSET Pid,
   active_processes: Int,
   current_process: Pid \cup {NULL},
   system_ticks: 0 .. TICK_MOD - 1,
   call: [Pid -> Progress]]

TypeOK ==
  /\ pm \in Manager
  /\ cpu \in Pid \cup {NULL}
  /\ inTick \subseteq Pid
  /\ torn \in BOOLEAN

Init ==
  /\ pm = [link |-> [c \in Cell |-> NULL],
           state |-> [p \in Pid |-> "NONE"],
           priority |-> [p \in Pid |-> 0],
           time_slice |-> [p \in Pid |-> 0],
           wakeup_time |-> [p \in Pid |-> 0],
           process_bitmap |-> {},
           active_processes |-> 0,
           current_process |-> NULL,
           system_ticks |-> 0,
           call |-> [p \in Pid |-> "none"]]
  /\ cpu = NULL
  /\ inTick = {}
  /\ torn = FALSE

-----------------------------------------------------------------------------
(* The queue helpers.  Every one of them follows `next' from a head.       *)

\* The cells of a walk from head q that goes on while its target is in pass.
Steps(link, q, pass) ==
  LET at[k \in 0 .. PROCESS_MAX_COUNT] ==
        IF k = 0 THEN q
        ELSE LET c == at[k - 1] IN IF link[c] \in pass THEN link[c] ELSE c
  IN  at

\* The cell where that walk stops: PROCESS_MAX_COUNT steps visit every PCB.
Walk(link, q, pass) == Steps(link, q, pass)[PROCESS_MAX_COUNT]

\* The targets a walk along the whole list of head q has met after each step.
Seen(link, q) ==
  LET seen[k \in 0 .. PROCESS_MAX_COUNT] ==
        IF k = 0 THEN {link[q]}
        ELSE LET s == seen[k - 1] IN s \cup {link[p] : p \in s \ {NULL}}
  IN  seen

\* The PCBs on the list that starts at head q.
OnList(link, q) == Seen(link, q)[PROCESS_MAX_COUNT] \ {NULL}

\* Mutant: the new process goes to the head of the queue.
enqueue_at_head(link, q, p) == [link EXCEPT ![q] = p, ![p] = link[q]]

enqueue_process(link, q, p) ==
  LET c == Walk(link, q, {r \in Pid : r < p})
  IN  [link EXCEPT ![c] = p, ![p] = link[c]]

dequeue_process(link, q) ==
  [link EXCEPT ![q] = link[link[q]], ![link[q]] = NULL]

remove_process_from_queue(link, q, p) ==
  LET c == Walk(link, q, Pid \ {p})
  IN  IF link[c] = NULL THEN link ELSE [link EXCEPT ![c] = link[p], ![p] = NULL]

FreePids(m) == Pid \ m.process_bitmap

\* Mutant: the search for a pid runs from the top of the bitmap.
find_last_pid(m) == Max(FreePids(m))

find_free_pid(m) == Min(FreePids(m))

Slice(i) == TIME_SLICE_BASE * (MAX_PRIORITY_LEVELS - i)

MakeReady(m, p) ==
  [m EXCEPT !.state[p] = "READY",
            !.link = enqueue_process(m.link, ReadyQ(m.priority[p]), p)]

IsRunning(m) ==
  m.current_process # NULL /\ m.state[m.current_process] = "RUNNING"

-----------------------------------------------------------------------------
(* schedule: put the running process back, then take the head of the first *)
(* non-empty ready queue.                                                  *)

Requeue(m) ==
  LET p     == m.current_process
      spent == m.time_slice[p] = 0
      i     == IF spent /\ m.priority[p] < MAX_PRIORITY_LEVELS - 1
               THEN m.priority[p] + 1 ELSE m.priority[p]
  IN  IF ~IsRunning(m) THEN m
      ELSE MakeReady([m EXCEPT !.priority[p] = i,
                               !.time_slice[p] = IF spent THEN Slice(i) ELSE m.time_slice[p]], p)

ReadyLevels(m) == {i \in Prio : m.link[ReadyQ(i)] # NULL}

RunHead(m, i) ==
  LET n == m.link[ReadyQ(i)]
  IN  [m EXCEPT !.link = dequeue_process(m.link, ReadyQ(i)),
                !.state[n] = "RUNNING",
                !.current_process = n]

\* Mutant: the ready queues are searched from the least urgent level.
DispatchWorst(m) ==
  IF ReadyLevels(m) = {} THEN [m EXCEPT !.current_process = NULL]
  ELSE RunHead(m, Max(ReadyLevels(m)))

Dispatch(m) ==
  IF ReadyLevels(m) = {} THEN [m EXCEPT !.current_process = NULL]
  ELSE RunHead(m, Min(ReadyLevels(m)))

\* schedule, entered with the manager in state m.  The CPU leaves the context
\* it executes only when the regs of another process are returned.
schedule(m) ==
  \E r \in {Requeue(m)} : \E s \in {Dispatch(r)} :
    /\ pm' = s
    /\ cpu' = IF s.current_process = NULL THEN cpu ELSE s.current_process

-----------------------------------------------------------------------------
(* process_manager_tick.                                                   *)

\* Mutant: the slice is a signed counter.
AccountSigned(m) ==
  [m EXCEPT !.system_ticks = (m.system_ticks + 1) % TICK_MOD,
            !.time_slice = [p \in Pid |->
              IF IsRunning(m) /\ p = m.current_process
              THEN m.time_slice[p] - 1 ELSE m.time_slice[p]]]

\* Lines 433-438: both counters are uint32_t and wrap.
Account(m) ==
  [m EXCEPT !.system_ticks = (m.system_ticks + 1) % TICK_MOD,
            !.time_slice = [p \in Pid |->
              IF IsRunning(m) /\ p = m.current_process
              THEN (m.time_slice[p] - 1) % SLICE_MOD ELSE m.time_slice[p]]]

\* Line 441: `time_slice <= 0' on an unsigned counter.
Expired(m) == IsRunning(m) /\ m.time_slice[m.current_process] = 0

Unblock(m, p) ==
  MakeReady([m EXCEPT !.link = remove_process_from_queue(m.link, BlockedQ, p)], p)

\* Mutant: a sleeper wakes only at the exact tick.
DueNow(m, p) ==
  m.system_ticks = m.wakeup_time[p] /\ m.state[p] = "BLOCKED"

Due(m, p) ==
  /\ m.wakeup_time[p] > 0
  /\ m.system_ticks >= m.wakeup_time[p]
  /\ m.state[p] = "BLOCKED"

\* The manager after each step of the walk along the blocked queue, which
\* meets the pids in ascending order.
WakeSteps(m, due) ==
  LET woken[k \in 0 .. PROCESS_MAX_COUNT] ==
        IF k = 0 THEN m
        ELSE LET w == woken[k - 1] IN IF k - 1 \in due THEN Unblock(w, k - 1) ELSE w
  IN  woken

Wake(m) ==
  WakeSteps(m, {p \in OnList(m.link, BlockedQ) : Due(m, p)})[PROCESS_MAX_COUNT]

\* The terminated queue is emptied and the slots of `dead' are given back.
Freed(m, dead) ==
  LET Clear(f, v) == [p \in Pid |-> IF p \in dead THEN v ELSE f[p]]
  IN  [m EXCEPT !.link = [c \in Cell |-> IF c \in dead \cup {TerminatedQ}
                                         THEN NULL ELSE m.link[c]],
                !.state = Clear(m.state, "NONE"),
                !.priority = Clear(m.priority, 0),
                !.time_slice = Clear(m.time_slice, 0),
                !.wakeup_time = Clear(m.wakeup_time, 0),
                !.process_bitmap = m.process_bitmap \ dead,
                !.active_processes = m.active_processes - Cardinality(dead)]

\* Mutant: the slot is emptied but the bit of the pid stays set.
ReapKeepsPid(m) ==
  IF m.system_ticks % REAP_PERIOD # 0 THEN m
  ELSE [Freed(m, OnList(m.link, TerminatedQ)) EXCEPT !.process_bitmap = m.process_bitmap]

\* Mutant: only the head of the terminated queue is freed.
ReapHead(m) ==
  IF m.system_ticks % REAP_PERIOD # 0 THEN m
  ELSE Freed(m, {m.link[TerminatedQ]} \ {NULL})

Reap(m) ==
  IF m.system_ticks % REAP_PERIOD # 0 THEN m
  ELSE Freed(m, OnList(m.link, TerminatedQ))

\* The rest of the tick (lines 447-476) and the schedule that follows it.
FinishTick(m) ==
  \E w \in {Wake(m)} : \E h \in {Reap(w)} : schedule(h)

\* Interrupt 0x20 taken when the manager is in state m.  A running process
\* whose slice is used up raises 0x20 again from inside the tick: the inner
\* interrupt does a whole tick and the scheduling, the outer one stays on
\* the process's kernel stack until that process runs again.
Interrupt(m) ==
  \E a \in {Account(m)} :
    \/ Expired(a) /\ inTick' = inTick \cup {cpu}
         /\ \E b \in {Account(a)} : FinishTick(b)
    \/ ~Expired(a) /\ UNCHANGED inTick /\ FinishTick(a)

-----------------------------------------------------------------------------
(* The actions.  Code runs, and IRQ 0 is accepted, when the CPU is not in  *)
(* the suspended half of a tick (interrupts are off there).                *)

Interruptible == ~torn /\ cpu \notin inTick

\* The code on the CPU is in the middle of none of the calls below.
BetweenCalls == Interruptible /\ (cpu # NULL => pm.call[cpu] = "none")

\* The process on the CPU has got as far as `step' in one of them.
Within(step) == Interruptible /\ cpu # NULL /\ pm.call[cpu] = step

TimerInterrupt == Interruptible /\ Interrupt(pm) /\ UNCHANGED torn

\* int $0x20 raised by the process itself is a tick like any other.
yield_cpu ==
  BetweenCalls /\ pm.current_process # NULL /\ Interrupt(pm) /\ UNCHANGED torn

\* The CPU is back in a process that was switched out on line 442: the rest
\* of that tick runs, then do_handle_interrupt calls schedule once more.
ResumeTick ==
  /\ ~torn /\ cpu \in inTick
  /\ inTick' = inTick \ {cpu}
  /\ FinishTick(pm)
  /\ UNCHANGED torn

\* The PCB of a new process and the accounting of its slot.
NewProcess(m, p, i) ==
  [m EXCEPT !.priority[p] = i,
            !.time_slice[p] = Slice(i),
            !.wakeup_time[p] = 0,
            !.process_bitmap = m.process_bitmap \cup {p},
            !.active_processes = m.active_processes + 1]

create_process(priority) ==
  LET p == find_free_pid(pm)
      i == IF priority > MAX_PRIORITY_LEVELS - 1 THEN MAX_PRIORITY_LEVELS - 1
           ELSE priority
  IN  /\ BetweenCalls
      /\ FreePids(pm) # {}
      /\ pm' = MakeReady(NewProcess(pm, p, i), p)
      /\ UNCHANGED <<cpu, inTick, torn>>

\* No free pid, or an allocation failed: every exit rolls back what it took
\* before the manager is touched.
CreateFails ==
  BetweenCalls /\ UNCHANGED vars

-----------------------------------------------------------------------------
(* terminate_process and block_process.  Called with interrupts off (a     *)
(* system call, a fault) they are one step.                                *)

\* The queue head a process hangs on, by its state and priority; none while
\* it runs, and none when its call has not linked it.
HomeQueue(m, p) ==
  IF m.call[p] # "none" THEN NULL
  ELSE CASE m.state[p] = "READY"      -> ReadyQ(m.priority[p])
         [] m.state[p] = "BLOCKED"    -> BlockedQ
         [] m.state[p] = "TERMINATED" -> TerminatedQ
         [] OTHER                     -> NULL

\* The state is overwritten before lines 289-292 test it, so a queued process
\* stays where it is; `current_process' is cleared before line 304 tests it,
\* so the call returns to its caller.
Terminated(m, p) ==
  [m EXCEPT !.state[p] = "TERMINATED",
            !.current_process = IF m.current_process = p THEN NULL ELSE m.current_process,
            !.link = enqueue_process(m.link, TerminatedQ, p),
            !.call[p] = "none"]

\* exit(2), and any process by its pid: also one that is on a queue, which the
\* call then puts on a second one, and one whose own call was never finished.
terminate_process(p) ==
  /\ BetweenCalls
  /\ pm.state[p] # "NONE"
  /\ pm' = Terminated(pm, p)
  /\ torn' = (HomeQueue(pm, p) # NULL)
  /\ UNCHANGED <<cpu, inTick>>

\* page_fault_handler on an unresolvable user fault: terminate, then int 0x20.
PageFaultKill ==
  /\ BetweenCalls
  /\ pm.current_process # NULL
  /\ Interrupt(Terminated(pm, pm.current_process))
  /\ UNCHANGED torn

\* The wait time is added to the clock, whose sum wraps.
Blocked(m, p, wait_time) ==
  [m EXCEPT !.state[p] = "BLOCKED",
            !.wakeup_time[p] = (m.system_ticks + wait_time) % TICK_MOD,
            !.link = enqueue_process(m.link, BlockedQ, p)]

\* Mutant: current_process still points to the process that went to sleep.
TakeOffQueue(m, p) ==
  IF m.state[p] = "READY"
  THEN [m EXCEPT !.link = remove_process_from_queue(m.link, ReadyQ(m.priority[p]), p)]
  ELSE m

\* A ready process leaves its queue, the running one leaves the CPU.
TakeOff(m, p) ==
  IF m.state[p] = "READY"
  THEN [m EXCEPT !.link = remove_process_from_queue(m.link, ReadyQ(m.priority[p]), p)]
  ELSE [m EXCEPT !.current_process = NULL]

block_process(p, wait_time) ==
  /\ BetweenCalls
  /\ pm.state[p] = "READY" \/ (pm.state[p] # "NONE" /\ p = pm.current_process)
  /\ pm' = Blocked(TakeOff(pm, p), p, wait_time)
  /\ UNCHANGED <<cpu, inTick, torn>>

\* A process lost before it was on the blocked queue is found on none.
unblock_process(p) ==
  /\ BetweenCalls
  /\ pm.state[p] = "BLOCKED"
  /\ pm' = [Unblock(pm, p) EXCEPT !.call[p] = "none"]
  /\ UNCHANGED <<cpu, inTick, torn>>

-----------------------------------------------------------------------------
(* The same calls by the running process, with interrupts on.              *)

\* process_wrapper ends its process.  Lines 285-286.
TerminateMarks ==
  /\ BetweenCalls
  /\ cpu # NULL /\ cpu = pm.current_process
  /\ pm' = [pm EXCEPT !.state[cpu] = "TERMINATED", !.call[cpu] = "marked"]
  /\ UNCHANGED <<cpu, inTick, torn>>

\* Lines 289-295; a tick that found no other process has cleared
\* current_process before.
TerminateDrops ==
  /\ Within("marked")
  /\ pm' = [pm EXCEPT !.call[cpu] = "linking",
                       !.current_process =
                          IF pm.current_process = cpu THEN NULL ELSE pm.current_process]
  /\ UNCHANGED <<cpu, inTick, torn>>

\* block_process of the caller itself.  Lines 321-325.
BlockDrops ==
  /\ BetweenCalls
  /\ cpu # NULL /\ cpu = pm.current_process
  /\ pm' = [pm EXCEPT !.current_process = NULL, !.call[cpu] = "dropped"]
  /\ UNCHANGED <<cpu, inTick, torn>>

\* Lines 328-329.
BlockMarks(wait_time) ==
  /\ Within("dropped")
  /\ pm' = [pm EXCEPT !.state[cpu] = "BLOCKED",
                       !.wakeup_time[cpu] = (pm.system_ticks + wait_time) % TICK_MOD,
                       !.call[cpu] = "linking"]
  /\ UNCHANGED <<cpu, inTick, torn>>

\* Lines 298 and 332.
CallLinks ==
  /\ Within("linking")
  /\ pm' = [pm EXCEPT !.link = enqueue_process(pm.link,
                          IF pm.state[cpu] = "BLOCKED" THEN BlockedQ ELSE TerminatedQ, cpu),
                       !.call[cpu] = "none"]
  /\ UNCHANGED <<cpu, inTick, torn>>

ContinueCall ==
  \/ TerminateDrops
  \/ \E w \in WaitTimes : BlockMarks(w)
  \/ CallLinks

\* A tick inside enqueue_process, or inside one of the calls above that is one
\* step here, when a process makes it with interrupts on.
TickWithinCall ==
  /\ Interruptible /\ cpu # NULL
  /\ pm.call[cpu] \in {"none", "linking"}
  /\ torn' = TRUE
  /\ UNCHANGED <<pm, cpu, inTick>>

Next ==
  \/ TimerInterrupt
  \/ yield_cpu
  \/ ResumeTick
  \/ \E i \in Priorities : create_process(i)
  \/ CreateFails
  \/ \E p \in Pid : terminate_process(p)
  \/ PageFaultKill
  \/ \E p \in Pid, w \in WaitTimes : block_process(p, w)
  \/ \E p \in Pid : unblock_process(p)
  \/ TerminateMarks
  \/ BlockDrops
  \/ ContinueCall
  \/ TickWithinCall

\* The timer keeps firing, a suspended tick always has the CPU, and a call goes
\* on as long as its process has the CPU.
Fairness == WF_vars(TimerInterrupt) /\ WF_vars(ResumeTick) /\ WF_vars(ContinueCall)

Spec == Init /\ [][Next]_vars /\ Fairness
-----------------------------------------------------------------------------
(* What the process manager promises.                                      *)

\* Every ready, blocked or terminated process hangs on exactly one pointer, and
\* every list holds, in ascending pid order, only processes whose state and
\* priority belong on it; a process whose exit or sleep a tick has interrupted,
\* for a while or for ever, is on none.
QueueIntegrity ==
  LET Home(c) == IF c \in Head THEN c ELSE HomeQueue(pm, c)
  IN  torn \/
      /\ \A c \in Cell :
           LET r == pm.link[c]
           IN  r # NULL => /\ Home(c) = HomeQueue(pm, r)
                           /\ HomeQueue(pm, r) # NULL
                           /\ c \in Pid => c < r
      /\ \A p \in Pid :
           Cardinality({c \in Cell : pm.link[c] = p}) =
             IF HomeQueue(pm, p) # NULL THEN 1 ELSE 0

\* current_process is the one RUNNING process and owns the CPU, except within an
\* exit (TERMINATED but still current, lines 285-294) and a sleep (RUNNING but no
\* longer current, 324-328); and a tick that is suspended on a kernel stack
\* belongs to a process that can still resume it.
OneRunning ==
  torn \/
  /\ \A p \in Pid :
       (pm.state[p] = "RUNNING" /\ pm.call[p] # "dropped")
         <=> (pm.current_process = p /\ pm.call[p] # "marked")
  /\ pm.current_process # NULL => cpu = pm.current_process
  /\ \A p \in inTick :
       pm.state[p] \in {"READY", "RUNNING", "BLOCKED"} /\ pm.call[p] = "none"

\* The pid bitmap, the slots of processes[] and active_processes agree, whatever
\* mixture of creations, exits and reapings came before.
SlotsAgree ==
  /\ pm.process_bitmap = {p \in Pid : pm.state[p] # "NONE"}
  /\ pm.active_processes = Cardinality(pm.process_bitmap)

\* A tick leaves on the CPU the ready process of the best level, lowest pid first,
\* and idles only when nothing is ready (also when the tick nested another one).
BestIsRunning ==
  LET n == pm.current_process
  IN  \A r \in Pid : pm.state[r] = "READY" =>
        /\ n # NULL
        /\ \/ pm.priority[n] < pm.priority[r]
           \/ pm.priority[n] = pm.priority[r] /\ n < r

TickDispatchesBest ==
  [][pm'.system_ticks # pm.system_ticks \/ inTick' # inTick => BestIsRunning']_vars

\* A blocked process leaves the blocked queue by itself.  The exceptions are a
\* wakeup_time that wrapped to 0, which the tick reads as "no timeout", and the
\* last value of the clock, which a nested tick can step over each time round.
SleepersWake ==
  \A p \in Pid :
    (HomeQueue(pm, p) = BlockedQ /\ pm.wakeup_time[p] \in 1 .. TICK_MOD - 2)
      ~> (pm.state[p] # "BLOCKED" \/ torn)

\* A process on the terminated queue is reaped, although a nested tick can step
\* over the value of the clock at which the reaper runs.
ZombiesReaped ==
  \A p \in Pid : (HomeQueue(pm, p) = TerminatedQ) ~> (pm.state[p] = "NONE" \/ torn)

\* Every terminated process is reaped: the tick "periodically cleans up the
\* terminated processes" (process.c:456).
ExitsReaped ==
  \A p \in Pid : (pm.state[p] = "TERMINATED") ~> (pm.state[p] = "NONE" \/ torn)

\* The remaining slice of a process never exceeds the quota of its priority:
\* a used-up slice is reset (process.c:391), never carried on from below zero.
SliceWithinQuota ==
  \A p \in Pid : pm.state[p] # "NONE" => pm.time_slice[p] <= Slice(pm.priority[p])

\* What the abstract process table shows of the manager: an exit or a sleep
\* counts from its first step.
TableState(m) == [p \in Pid |-> IF m.call[p] = "dropped" THEN "BLOCKED" ELSE m.state[p]]

TableCurrent(m) ==
  IF m.current_process # NULL /\ m.state[m.current_process] = "TERMINATED"
  THEN NULL ELSE m.current_process

Table == INSTANCE ProcessTable WITH
  NPid <- PROCESS_MAX_COUNT, NPrio <- MAX_PRIORITY_LEVELS,
  state <- TableState(pm), priority <- pm.priority, current <- TableCurrent(pm)

\* Every step of the queues, slices and clock is a step of the abstract process
\* table, or leaves it unchanged.
ImplementsTable == Table!TableSpec
=============================================================================
