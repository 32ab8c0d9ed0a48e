------------------------------- MODULE IdeDisk -------------------------------
(***************************************************************************)
(* The IDE driver (src/driver/block.c): the search for a drive at boot and *)
(* the transfer of sectors by programmed I/O, with its lock, its polling   *)
(* loops and their counters.  Contexts are processes, preempted anywhere.  *)
(*                                                                         *)
(* The drive is not part of the source: it ignores its registers while it  *)
(* is busy or has data to transfer, answers a command when it likes or     *)
(* never, and may fail.  The driver does not look at it before it gives a  *)
(* command, does not wait for the end of a write, and goes on after most   *)
(* time-outs, and its interrupt handler writes the command register        *)
(* whoever holds the lock; `unhandled' records that one of these has had   *)
(* an effect.                                                              *)
(***************************************************************************)
EXTENDS Integers

CONSTANTS
  Ctx,          \* the contexts that read and write
  Sector,
  Content,      \* what a sector can hold
  TIMEOUT,      \* polls of a wait loop (100000 in the code)
  COUNTER_MOD   \* modulus of the loops' uint32_t counter

ASSUME IdeAssumption ==
  /\ Ctx # {} /\ Sector # {} /\ Content # {}
  /\ TIMEOUT \in Nat \ {0} /\ COUNTER_MOD \in Nat /\ COUNTER_MOD > TIMEOUT + 1

VARIABLES
  boot,        \* where kernel_main is; "up": the device is in active_block_devices
  boot_timeout,\* the signed counter of ide_check_drive_exists
  lock,        \* active_block_devices[0]->lock
  call,        \* what each context is doing
  reg,         \* the sector in the drive's address registers
  drive,       \* what the drive is doing
  disk,        \* what is on it
  stored,      \* what the driver's callers have written to each sector
  unhandled

driveVars == <<reg, drive, disk>>
ideVars   == <<boot, boot_timeout, lock, call, driveVars, stored, unhandled>>

Phase == {"none", "power", "idle", "busy", "drq", "err", "store"}
Op    == {"read", "write"}
Pc    == {"idle", "lock", "address", "command", "bsy", "drq", "error", "ready",
          "transfer", "release"}
Done(s, v) == [pc |-> "idle", op |-> "read", sector |-> s, buffer |-> v,
               full |-> FALSE, timeout |-> 0]
AnySector  == CHOOSE s \in Sector : TRUE
AnyContent == CHOOSE v \in Content : TRUE
NoCall     == Done(AnySector, AnyContent)

DiskTypeOK ==
  /\ boot \in {"check", "init", "up", "absent"} /\ boot_timeout \in -1 .. TIMEOUT
  /\ lock \in BOOLEAN /\ unhandled \in BOOLEAN
  /\ call \in [Ctx -> [pc: Pc, op: Op, sector: Sector, buffer: Content,
                       full: BOOLEAN, timeout: 0 .. COUNTER_MOD - 1]]
  /\ reg \in Sector
  /\ drive \in [phase: Phase, op: Op, sector: Sector, data: Content]
  /\ {disk, stored} \subseteq [Sector -> Content]

IdeInit ==
  /\ boot = "check" /\ boot_timeout = TIMEOUT
  /\ lock = FALSE /\ unhandled = FALSE
  /\ call = [c \in Ctx |-> NoCall]
  /\ reg = AnySector
  /\ drive \in [phase: {"none", "power", "idle"}, op: {"read"},
                sector: {AnySector}, data: {AnyContent}]
  /\ disk \in [Sector -> Content] /\ stored = disk

\* The bits of the status register.
BSY == drive.phase \in {"power", "busy", "store"}
DRQ == drive.phase = "drq"
ERR == drive.phase = "err"

-----------------------------------------------------------------------------
(* Boot.                                                                   *)

\* Mutant: the counter is tested the way the transfer loops test theirs.
found_unless_zero(timeout) == timeout # 0

\* The value ide_check_drive_exists returns.
Found(timeout) == timeout > 0

\* One reading of the status register, and what the loop makes of it.
ide_check_drive_exists ==
  /\ boot = "check"
  /\ IF drive.phase = "none" THEN boot' = "absent" /\ UNCHANGED boot_timeout
     ELSE LET last == IF BSY THEN boot_timeout - 1 ELSE boot_timeout
          IN  /\ boot_timeout' = last
              /\ boot' = IF BSY /\ boot_timeout # 0 THEN "check"
                         ELSE IF Found(last) THEN "init" ELSE "absent"
  /\ UNCHANGED <<lock, call, driveVars, stored, unhandled>>

\* kernel_main allocates the device, block_device_initialize fills it in and
\* ide_initialize waits for the controller: the device is used however that ends.
ide_initialize ==
  /\ boot = "init"
  /\ boot' \in {"up", "absent"}
  /\ UNCHANGED <<boot_timeout, lock, call, driveVars, stored, unhandled>>

-----------------------------------------------------------------------------
(* Transfers.                                                              *)

At(c, pc) == call[c].pc = pc
Goto(c, pc) == call' = [call EXCEPT ![c].pc = pc]

\* block_read and block_write return at once when there is no device.
block_access(c, op, s, v) ==
  /\ At(c, "idle") /\ boot \in {"up", "absent"}
  /\ call' = IF boot = "absent" THEN call
             ELSE [call EXCEPT ![c] = [Done(s, v) EXCEPT !.pc = "lock", !.op = op]]
  /\ UNCHANGED <<boot, boot_timeout, lock, driveVars, stored, unhandled>>

\* Mutant: the lock is taken without a look at it.
acquire_always(c) ==
  /\ At(c, "lock") /\ lock' = TRUE
  /\ Goto(c, "address")
  /\ UNCHANGED <<boot, boot_timeout, driveVars, stored, unhandled>>

acquire_lock(c) ==
  /\ At(c, "lock") /\ ~lock /\ lock' = TRUE
  /\ Goto(c, "address")
  /\ UNCHANGED <<boot, boot_timeout, driveVars, stored, unhandled>>

\* The writes to the address registers.
SetAddress(c) ==
  /\ At(c, "address")
  /\ reg' = IF BSY \/ DRQ THEN reg ELSE call[c].sector
  /\ unhandled' = (unhandled \/ BSY \/ DRQ)
  /\ Goto(c, "command")
  /\ UNCHANGED <<boot, boot_timeout, lock, drive, disk, stored>>

\* The write to the command register.
Command(c) ==
  /\ At(c, "command")
  /\ drive' = IF BSY \/ DRQ THEN drive
              ELSE [drive EXCEPT !.phase = "busy", !.op = call[c].op, !.sector = reg]
  /\ unhandled' = (unhandled \/ BSY \/ DRQ)
  /\ call' = [call EXCEPT ![c].pc = IF call[c].op = "read" THEN "bsy" ELSE "ready",
                          ![c].timeout = TIMEOUT]
  /\ UNCHANGED <<boot, boot_timeout, lock, reg, disk, stored>>

\* `(waiting) && timeout--' ends: with 0 the driver gives up, with anything else it
\* goes on.  The counter has wrapped to its largest value when the loop ran out.
LoopEnds(c, timeout, next) ==
  /\ call' = [call EXCEPT ![c].timeout = IF next = "drq" THEN TIMEOUT ELSE timeout,
                          ![c].pc = IF timeout = 0 THEN "release" ELSE next]
  /\ unhandled' = (unhandled \/ timeout \in {0, COUNTER_MOD - 1})

Wrap(n) == n % COUNTER_MOD

\* One reading of the status register in the wait for BSY to clear.
WaitNotBusy(c) ==
  /\ At(c, "bsy")
  /\ \/ /\ BSY /\ call[c].timeout # 0
        /\ call' = [call EXCEPT ![c].timeout = @ - 1] /\ UNCHANGED unhandled
     \/ /\ BSY /\ call[c].timeout = 0
        /\ LoopEnds(c, Wrap(call[c].timeout - 1), "drq")
     \/ ~BSY /\ LoopEnds(c, call[c].timeout, "drq")
  /\ UNCHANGED <<boot, boot_timeout, lock, driveVars, stored>>

\* Mutant: a poll without DRQ is not counted.
wait_uncounted(c) ==
  /\ At(c, "drq")
  /\ \/ ~DRQ /\ Goto(c, "error") /\ UNCHANGED unhandled
     \/ DRQ /\ LoopEnds(c, call[c].timeout, "transfer")
  /\ UNCHANGED <<boot, boot_timeout, lock, driveVars, stored>>

\* One reading in the wait for DRQ.
WaitData(c) ==
  /\ At(c, "drq")
  /\ \/ /\ ~DRQ /\ call[c].timeout # 0
        /\ call' = [call EXCEPT ![c].timeout = @ - 1, ![c].pc = "error"]
        /\ UNCHANGED unhandled
     \/ /\ ~DRQ /\ call[c].timeout = 0
        /\ LoopEnds(c, Wrap(call[c].timeout - 1), "transfer")
     \/ DRQ /\ LoopEnds(c, call[c].timeout, "transfer")
  /\ UNCHANGED <<boot, boot_timeout, lock, driveVars, stored>>

\* The second reading in that loop: an error ends the call.
CheckError(c) ==
  /\ At(c, "error")
  /\ Goto(c, IF ERR THEN "release" ELSE "drq")
  /\ UNCHANGED <<boot, boot_timeout, lock, driveVars, stored, unhandled>>

\* The loop over the data register.  What is read when the drive has nothing to
\* give can be anything.
ide_read_sector(c) ==
  /\ At(c, "transfer") /\ call[c].op = "read"
  /\ \E v \in Content :
       /\ DRQ /\ drive.op = "read" => v = disk[drive.sector]
       /\ call' = [call EXCEPT ![c].buffer = v, ![c].full = TRUE, ![c].pc = "release"]
  /\ drive' = IF DRQ /\ drive.op = "read" THEN [drive EXCEPT !.phase = "idle"] ELSE drive
  /\ UNCHANGED <<boot, boot_timeout, lock, reg, disk, stored, unhandled>>

\* A write waits without a limit, hands over the data and does not wait for its end.
WaitReady(c) ==
  /\ At(c, "ready")
  /\ Goto(c, IF DRQ THEN "transfer" ELSE "ready")
  /\ UNCHANGED <<boot, boot_timeout, lock, driveVars, stored, unhandled>>

ide_write_sector(c) ==
  /\ At(c, "transfer") /\ call[c].op = "write"
  /\ drive' = IF DRQ /\ drive.op = "write"
              THEN [drive EXCEPT !.phase = "store", !.data = call[c].buffer] ELSE drive
  /\ stored' = [stored EXCEPT ![call[c].sector] = call[c].buffer]
  /\ Goto(c, "release")
  /\ UNCHANGED <<boot, boot_timeout, lock, reg, disk, unhandled>>

release_lock(c) ==
  /\ At(c, "release") /\ lock' = FALSE
  /\ call' = [call EXCEPT ![c] = NoCall]
  /\ UNCHANGED <<boot, boot_timeout, driveVars, stored, unhandled>>

-----------------------------------------------------------------------------
(* The drive.                                                              *)

PowerUp ==
  /\ drive.phase = "power"
  /\ drive' = [drive EXCEPT !.phase = "idle"]
  /\ UNCHANGED <<boot, boot_timeout, lock, call, reg, disk, stored, unhandled>>

\* The drive has read the sector, or is ready to take one, or has failed.
Answer ==
  /\ drive.phase = "busy"
  /\ \E p \in {"drq", "err"} : drive' = [drive EXCEPT !.phase = p]
  /\ UNCHANGED <<boot, boot_timeout, lock, call, reg, disk, stored, unhandled>>

\* The data of a write reaches the disk, or is lost: the driver has left by then.
Store ==
  /\ drive.phase = "store"
  /\ \/ /\ disk' = [disk EXCEPT ![drive.sector] = drive.data]
        /\ drive' = [drive EXCEPT !.phase = "idle"] /\ UNCHANGED unhandled
     \/ /\ drive' = [drive EXCEPT !.phase = "err"] /\ unhandled' = TRUE /\ UNCHANGED disk
  /\ UNCHANGED <<boot, boot_timeout, lock, call, reg, stored>>

\* block_interrupt_handler runs on any line below 16 that an Intel function reports,
\* whoever holds the lock, and writes the status it reads to the command register.
\* That is no command: a drive that listens rejects it or ignores it, and what it
\* leaves in the address registers is its own affair.
block_interrupt_handler ==
  /\ boot \in {"up", "absent"} /\ drive.phase \in {"idle", "err"}
  /\ \E p \in {"idle", "err"} : drive' = [drive EXCEPT !.phase = p]
  /\ reg' \in Sector
  /\ unhandled' = (unhandled \/ \E c \in Ctx : At(c, "command"))
  /\ UNCHANGED <<boot, boot_timeout, lock, call, disk, stored>>

Transfer(c) ==
  \/ SetAddress(c) \/ Command(c) \/ WaitNotBusy(c) \/ WaitData(c) \/ CheckError(c)
  \/ ide_read_sector(c) \/ WaitReady(c) \/ ide_write_sector(c) \/ release_lock(c)

IdeNext ==
  \/ ide_check_drive_exists \/ ide_initialize
  \/ \E c \in Ctx :
       \/ \E s \in Sector : \/ block_access(c, "read", s, AnyContent)
                            \/ \E v \in Content : block_access(c, "write", s, v)
       \/ acquire_lock(c) \/ Transfer(c)
  \/ PowerUp \/ Answer \/ Store \/ block_interrupt_handler

\* No fairness: the scheduler takes the best process that is ready, so a context
\* inside the driver may never run again, and the drive need not answer.
IdeSpec == IdeInit /\ [][IdeNext]_ideVars

-----------------------------------------------------------------------------
(* What the driver promises.                                               *)

\* kernel_main only takes a drive that has left its power-up phase, also when that
\* ends in the last poll of ide_check_drive_exists or after it.
FoundDriveIsReady == boot \in {"init", "up"} => drive.phase \notin {"none", "power"}

\* However the reads and writes of several processes interleave, a read returns what
\* was last written to its sector - as long as the driver has not met one of the
\* situations it does not handle (the driver's address and command stay together
\* because of the lock).
ReadsReturnLastWrite ==
  /\ DiskTypeOK
  /\ \A c \in Ctx : call[c].op = "read" /\ call[c].full /\ ~unhandled
                     => call[c].buffer = stored[call[c].sector]

\* A read that has the lock, and keeps being scheduled, returns and gives it back,
\* whatever the drive, its interrupts and the other contexts do: time-outs, errors and
\* transfers all lead to the release.  That it is scheduled is a condition and not a
\* promise: acquire_lock spins, so a better process waiting there starves the holder.
ReadsGiveLockBack ==
  \A c \in Ctx :
    WF_ideVars(Transfer(c)) =>
      ((call[c].op = "read" /\ ~At(c, "idle") /\ ~At(c, "lock"))
         ~> (At(c, "idle") /\ ~lock))
=============================================================================
