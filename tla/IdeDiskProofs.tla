---------------------------- MODULE IdeDiskProofs ----------------------------
(***************************************************************************)
(* TLAPS proofs about the IDE driver, for every set of contexts, sectors   *)
(* and contents and every limit of its polling loops.                      *)
(***************************************************************************)
EXTENDS IdeDisk, TLAPS

\* The driver between acquire_lock and release_lock.
Inside(c) == call[c].pc \notin {"idle", "lock"}

\* The signed counter of ide_check_drive_exists only goes below zero with the search.
SearchCounts == boot = "check" => boot_timeout >= 0

\* No transfer runs before there is a device.
NoEarlyCall == \A c \in Ctx : call[c].pc # "idle" => boot = "up"

\* The lock admits one context, and is taken while a context is inside.
LockExcludes ==
  /\ \A c \in Ctx : Inside(c) => lock
  /\ \A c, d \in Ctx : Inside(c) /\ Inside(d) => c = d

\* Where a call is tells what it is: only writes wait without a limit, only reads
\* poll, with a counter that starts at TIMEOUT and goes down to zero, and the buffer
\* of a read is full when it is about to return.
Shape(r) ==
  /\ r.pc = "ready" => r.op = "write"
  /\ r.pc \in {"bsy", "drq", "error"} => r.op = "read" /\ r.timeout <= TIMEOUT
  /\ r.full /\ r.op = "read" => r.pc = "release"

CallShape == \A c \in Ctx : Shape(call[c])

\* As long as the driver has not met a situation it does not handle, the drive works
\* on the sector and the operation of the context that holds the lock.
DriveFollows ==
  ~unhandled => \A c \in Ctx :
    /\ call[c].pc = "command" => reg = call[c].sector
    /\ call[c].pc = "command" => drive.phase \notin {"power", "busy", "drq", "store"}
    /\ call[c].pc \in {"bsy", "drq", "error", "ready", "transfer"}
         => /\ drive.sector = call[c].sector /\ drive.op = call[c].op
            /\ drive.phase \in {"busy", "drq", "err", "idle"}
    /\ call[c].pc \in {"drq", "error"} => drive.phase \in {"drq", "err", "idle"}
    /\ call[c].pc = "transfer" => drive.phase = "drq"
    /\ call[c].pc = "release" /\ call[c].full => call[c].buffer = stored[call[c].sector]

\* Then the disk also holds what was written, but for the sector it is storing.
DiskAgrees ==
  ~unhandled => \A s \in Sector :
    stored[s] = IF drive.phase = "store" /\ drive.sector = s THEN drive.data ELSE disk[s]

CallRecord == [pc: Pc, op: Op, sector: Sector, buffer: Content,
               full: BOOLEAN, timeout: 0 .. COUNTER_MOD - 1]

IdeInv ==
  /\ DiskTypeOK /\ FoundDriveIsReady /\ SearchCounts /\ NoEarlyCall
  /\ LockExcludes /\ CallShape /\ DriveFollows /\ DiskAgrees

-----------------------------------------------------------------------------

LEMMA Defaults == AnySector \in Sector /\ AnyContent \in Content
BY IdeAssumption DEF AnySector, AnyContent

LEMMA NoCallType == NoCall \in CallRecord /\ Shape(NoCall) /\ NoCall.pc = "idle"
BY Defaults, IdeAssumption DEF NoCall, Done, CallRecord, Pc, Op, Shape

LEMMA StutterKeepsInv == IdeInv /\ UNCHANGED ideVars => IdeInv'
BY DEF IdeInv, ideVars, driveVars, DiskTypeOK, FoundDriveIsReady, SearchCounts,
       NoEarlyCall, LockExcludes, Inside, CallShape, Shape, DriveFollows, DiskAgrees

LEMMA InitEstablishesInv == IdeInit => IdeInv
<1> SUFFICES ASSUME IdeInit PROVE IdeInv
  OBVIOUS
<1>1. DiskTypeOK
  <2>1. call \in [Ctx -> CallRecord]
    BY NoCallType DEF IdeInit
  <2>2. drive \in [phase: Phase, op: Op, sector: Sector, data: Content]
    BY Defaults DEF IdeInit, Phase, Op
  <2>3. boot_timeout \in -1 .. TIMEOUT
    BY IdeAssumption DEF IdeInit
  <2> QED BY <2>1, <2>2, <2>3, Defaults DEF IdeInit, DiskTypeOK, CallRecord
<1>2. \A c \in Ctx : call[c] = NoCall
  BY DEF IdeInit
<1>3. FoundDriveIsReady /\ SearchCounts /\ DiskAgrees
  BY IdeAssumption DEF IdeInit, FoundDriveIsReady, SearchCounts, DiskAgrees
<1>4. NoEarlyCall /\ LockExcludes /\ CallShape /\ DriveFollows
  BY <1>2, NoCallType DEF NoEarlyCall, LockExcludes, Inside, CallShape, DriveFollows
<1> QED BY <1>1, <1>3, <1>4 DEF IdeInv

\* A step of the context that is inside, which stays there: the other contexts are
\* outside and the lock keeps its owner.
LEMMA OwnerMoves ==
  ASSUME IdeInv, NEW c \in Ctx, NEW r \in CallRecord, Inside(c),
         call' = [call EXCEPT ![c] = r], r.pc \notin {"idle", "lock"}, Shape(r),
         UNCHANGED <<boot, boot_timeout, lock>>
  PROVE  /\ call' \in [Ctx -> CallRecord] /\ call'[c] = r
         /\ \A d \in Ctx : d # c => call'[d].pc \in {"idle", "lock"}
         /\ boot' = "up" /\ boot_timeout' \in -1 .. TIMEOUT /\ lock' \in BOOLEAN
         /\ SearchCounts' /\ NoEarlyCall' /\ LockExcludes' /\ CallShape'
<1>1. call \in [Ctx -> CallRecord]
  BY DEF IdeInv, DiskTypeOK, CallRecord
<1>2. /\ call' \in [Ctx -> CallRecord] /\ call'[c] = r
      /\ \A d \in Ctx : d # c => call'[d] = call[d]
  BY <1>1
<1>3. \A d \in Ctx : d # c => call[d].pc \in {"idle", "lock"}
  BY DEF IdeInv, LockExcludes, Inside
<1>4. boot = "up" /\ lock
  BY DEF IdeInv, NoEarlyCall, LockExcludes, Inside
<1>5. boot_timeout' \in -1 .. TIMEOUT /\ lock' \in BOOLEAN /\ SearchCounts'
  BY DEF IdeInv, DiskTypeOK, SearchCounts
<1>6. NoEarlyCall'
  BY <1>4 DEF NoEarlyCall
<1>7. LockExcludes'
  BY <1>2, <1>3, <1>4 DEF LockExcludes, Inside
<1>8. CallShape'
  BY <1>2 DEF IdeInv, CallShape
<1> QED BY <1>2, <1>3, <1>4, <1>5, <1>6, <1>7, <1>8

\* The record with the program counter of one context changed.
LEMMA GotoRecord ==
  ASSUME call \in [Ctx -> CallRecord], NEW c \in Ctx, NEW pc \in Pc
  PROVE  LET r == [call[c] EXCEPT !.pc = pc]
         IN  /\ r \in CallRecord
             /\ r.pc = pc /\ r.op = call[c].op /\ r.sector = call[c].sector
             /\ r.buffer = call[c].buffer /\ r.full = call[c].full
             /\ r.timeout = call[c].timeout
             /\ Goto(c, pc) => call' = [call EXCEPT ![c] = r]
BY DEF CallRecord, Goto
LEMMA SetAddressKeepsInv ==
  ASSUME IdeInv, NEW c \in Ctx, SetAddress(c)
  PROVE  IdeInv'
<1> DEFINE r == [call[c] EXCEPT !.pc = "command"]
<1>0. call \in [Ctx -> CallRecord]
  BY DEF IdeInv, DiskTypeOK, CallRecord
<1>1. /\ r \in CallRecord /\ r.pc = "command" /\ r.sector = call[c].sector
      /\ r.op = call[c].op /\ r.full = call[c].full
      /\ call' = [call EXCEPT ![c] = r] /\ call[c].pc = "address"
  BY <1>0, GotoRecord DEF SetAddress, At, Pc
<1>2. Inside(c) /\ Shape(r)
  BY <1>1 DEF IdeInv, CallShape, Shape, Inside
<1>3. UNCHANGED <<boot, boot_timeout, lock>>
  BY DEF SetAddress
<1> HIDE DEF r
<1>4. /\ call' \in [Ctx -> CallRecord] /\ call'[c] = r
      /\ \A d \in Ctx : d # c => call'[d].pc \in {"idle", "lock"}
      /\ boot' = "up" /\ boot_timeout' \in -1 .. TIMEOUT /\ lock' \in BOOLEAN
      /\ SearchCounts' /\ NoEarlyCall' /\ LockExcludes' /\ CallShape'
  BY <1>1, <1>2, <1>3, OwnerMoves
<1>5. DiskTypeOK'
  BY <1>1, <1>4 DEF IdeInv, DiskTypeOK, CallRecord, SetAddress, BSY, DRQ
<1>6. FoundDriveIsReady' /\ DiskAgrees'
  BY <1>3 DEF IdeInv, FoundDriveIsReady, DiskAgrees, SetAddress
<1>7. DriveFollows'
  BY <1>1, <1>4 DEF DriveFollows, SetAddress, BSY, DRQ
<1> QED BY <1>4, <1>5, <1>6, <1>7 DEF IdeInv

LEMMA CommandKeepsInv ==
  ASSUME IdeInv, NEW c \in Ctx, Command(c)
  PROVE  IdeInv'
<1> DEFINE pc == IF call[c].op = "read" THEN "bsy" ELSE "ready"
           r  == [call[c] EXCEPT !.pc = pc, !.timeout = TIMEOUT]
<1>0. call \in [Ctx -> CallRecord]
  BY DEF IdeInv, DiskTypeOK, CallRecord
<1>1. /\ r \in CallRecord /\ r.sector = call[c].sector /\ r.timeout = TIMEOUT
      /\ r.pc = pc /\ r.op = call[c].op /\ r.full = call[c].full
  <2>1. pc \in Pc /\ TIMEOUT \in 0 .. COUNTER_MOD - 1
    BY IdeAssumption DEF Pc
  <2> HIDE DEF pc
  <2> QED BY <1>0, <2>1 DEF CallRecord
<1>2. call' = [call EXCEPT ![c] = r] /\ call[c].pc = "command"
  BY <1>0 DEF Command, At
<1>3. Inside(c) /\ Shape(r)
  BY <1>0, <1>1, <1>2, IdeAssumption DEF IdeInv, CallShape, Shape, Inside, CallRecord, Op
<1>4. UNCHANGED <<boot, boot_timeout, lock>>
  BY DEF Command
<1> HIDE DEF r
<1>5. /\ call' \in [Ctx -> CallRecord] /\ call'[c] = r
      /\ \A d \in Ctx : d # c => call'[d].pc \in {"idle", "lock"}
      /\ boot' = "up" /\ boot_timeout' \in -1 .. TIMEOUT /\ lock' \in BOOLEAN
      /\ SearchCounts' /\ NoEarlyCall' /\ LockExcludes' /\ CallShape'
  BY <1>1, <1>2, <1>3, <1>4, OwnerMoves
<1>6. DiskTypeOK'
  BY <1>0, <1>2, <1>5 DEF IdeInv, DiskTypeOK, CallRecord, Command, BSY, DRQ, Phase
<1>7. FoundDriveIsReady'
  BY <1>4, <1>5 DEF IdeInv, DiskTypeOK, FoundDriveIsReady, Command
<1>8. DiskAgrees'
  BY DEF IdeInv, DiskTypeOK, DiskAgrees, Command, BSY, DRQ
<1>9. DriveFollows'
  BY <1>1, <1>2, <1>5 DEF IdeInv, DiskTypeOK, DriveFollows, Command, BSY, DRQ
<1> QED BY <1>5, <1>6, <1>7, <1>8, <1>9 DEF IdeInv

\* A step of the owner that leaves the drive and the disk alone: what is left to show
\* of the new record is its shape and what it says about the drive.
LEMMA PollKeepsInv ==
  ASSUME IdeInv, NEW c \in Ctx, NEW r \in CallRecord, Inside(c),
         call' = [call EXCEPT ![c] = r], r.pc \notin {"idle", "lock", "command"},
         Shape(r), r.sector = call[c].sector, r.op = call[c].op,
         r.pc = "release" => ~r.full,
         unhandled' \in BOOLEAN, unhandled => unhandled',
         ~unhandled' /\ r.pc # "release" =>
           /\ drive.sector = r.sector /\ drive.op = r.op
           /\ drive.phase \in {"busy", "drq", "err", "idle"}
           /\ r.pc \in {"drq", "error"} => drive.phase \in {"drq", "err", "idle"}
           /\ r.pc = "transfer" => drive.phase = "drq",
         UNCHANGED <<boot, boot_timeout, lock, driveVars, stored>>
  PROVE  IdeInv'
<1>1. /\ call' \in [Ctx -> CallRecord] /\ call'[c] = r
      /\ \A d \in Ctx : d # c => call'[d].pc \in {"idle", "lock"}
      /\ boot' = "up" /\ boot_timeout' \in -1 .. TIMEOUT /\ lock' \in BOOLEAN
      /\ SearchCounts' /\ NoEarlyCall' /\ LockExcludes' /\ CallShape'
  BY OwnerMoves
<1>2. UNCHANGED <<reg, drive, disk, stored>>
  BY DEF driveVars
<1>3. DiskTypeOK'
  BY <1>1, <1>2 DEF IdeInv, DiskTypeOK, CallRecord
<1>4. FoundDriveIsReady' /\ DiskAgrees'
  BY <1>2 DEF IdeInv, FoundDriveIsReady, DiskAgrees
<1>5. DriveFollows'
  BY <1>1, <1>2 DEF DriveFollows
<1> QED BY <1>1, <1>3, <1>4, <1>5 DEF IdeInv

LEMMA WaitReadyKeepsInv ==
  ASSUME IdeInv, NEW c \in Ctx, WaitReady(c)
  PROVE  IdeInv'
<1> DEFINE pc == IF DRQ THEN "transfer" ELSE "ready"
           r  == [call[c] EXCEPT !.pc = pc]
<1>0. call \in [Ctx -> CallRecord]
  BY DEF IdeInv, DiskTypeOK, CallRecord
<1>1. call' = [call EXCEPT ![c] = r] /\ call[c].pc = "ready" /\ Inside(c)
  BY <1>0 DEF WaitReady, At, Goto, Inside
<1>2. pc \in {"transfer", "ready"} /\ (pc = "transfer" => drive.phase = "drq")
  BY DEF DRQ
<1> HIDE DEF pc
<1>3. /\ r \in CallRecord /\ r.pc = pc /\ r.op = call[c].op /\ r.full = call[c].full
      /\ r.sector = call[c].sector
  BY <1>0, <1>2 DEF CallRecord, Pc
<1> HIDE DEF r
<1>4. Shape(r)
  BY <1>1, <1>2, <1>3 DEF IdeInv, CallShape, Shape
<1>5. unhandled' = unhandled /\ UNCHANGED <<boot, boot_timeout, lock, driveVars, stored>>
  BY DEF WaitReady
<1>6. ~unhandled => /\ drive.sector = r.sector /\ drive.op = r.op
                    /\ drive.phase \in {"busy", "drq", "err", "idle"}
  BY <1>1, <1>3 DEF IdeInv, DriveFollows
<1>7. unhandled \in BOOLEAN
  BY DEF IdeInv, DiskTypeOK
<1> QED BY <1>1, <1>2, <1>3, <1>4, <1>5, <1>6, <1>7, PollKeepsInv

LEMMA CheckErrorKeepsInv ==
  ASSUME IdeInv, NEW c \in Ctx, CheckError(c)
  PROVE  IdeInv'
<1> DEFINE pc == IF ERR THEN "release" ELSE "drq"
           r  == [call[c] EXCEPT !.pc = pc]
<1>0. call \in [Ctx -> CallRecord]
  BY DEF IdeInv, DiskTypeOK, CallRecord
<1>1. call' = [call EXCEPT ![c] = r] /\ call[c].pc = "error" /\ Inside(c)
  BY <1>0 DEF CheckError, At, Goto, Inside
<1>2. pc \in {"release", "drq"}
  OBVIOUS
<1> HIDE DEF pc
<1>3. /\ r \in CallRecord /\ r.pc = pc /\ r.op = call[c].op /\ r.full = call[c].full
      /\ r.sector = call[c].sector /\ r.timeout = call[c].timeout
  BY <1>0, <1>2 DEF CallRecord, Pc
<1> HIDE DEF r
<1>4. Shape(r) /\ ~r.full
  BY <1>0, <1>1, <1>2, <1>3 DEF IdeInv, CallShape, Shape, CallRecord
<1>5. unhandled' = unhandled /\ UNCHANGED <<boot, boot_timeout, lock, driveVars, stored>>
  BY DEF CheckError
<1>6. ~unhandled => /\ drive.sector = r.sector /\ drive.op = r.op
                    /\ drive.phase \in {"drq", "err", "idle"}
  BY <1>1, <1>3 DEF IdeInv, DriveFollows
<1>7. unhandled \in BOOLEAN
  BY DEF IdeInv, DiskTypeOK
<1> QED BY <1>1, <1>2, <1>3, <1>4, <1>5, <1>6, <1>7, PollKeepsInv

\* The end of a polling loop: what the counter held on the way out decides whether
\* the driver gives up, and whether it goes on without an answer of the drive.
LEMMA LoopEndsKeepsInv ==
  ASSUME IdeInv, NEW c \in Ctx, call[c].pc \in {"bsy", "drq"},
         NEW t \in 0 .. COUNTER_MOD - 1, NEW next \in {"drq", "transfer"},
         LoopEnds(c, t, next),
         ~unhandled /\ t \notin {0, COUNTER_MOD - 1} =>
           drive.phase \in IF next = "drq" THEN {"drq", "err", "idle"} ELSE {"drq"},
         UNCHANGED <<boot, boot_timeout, lock, driveVars, stored>>
  PROVE  IdeInv'
<1> DEFINE pc == IF t = 0 THEN "release" ELSE next
           tm == IF next = "drq" THEN TIMEOUT ELSE t
           r  == [call[c] EXCEPT !.timeout = tm, !.pc = pc]
<1>0. call \in [Ctx -> CallRecord]
  BY DEF IdeInv, DiskTypeOK, CallRecord
<1>1. /\ call' = [call EXCEPT ![c] = r] /\ Inside(c)
      /\ unhandled' = (unhandled \/ t \in {0, COUNTER_MOD - 1})
  BY <1>0 DEF LoopEnds, Inside
<1>2. /\ pc \in {"release", "drq", "transfer"}
      /\ tm \in 0 .. COUNTER_MOD - 1 /\ (pc = "drq" => tm = TIMEOUT)
      /\ pc # "release" => pc = next /\ t # 0
  BY IdeAssumption
<1> HIDE DEF pc, tm
<1>3. /\ r \in CallRecord /\ r.pc = pc /\ r.op = call[c].op /\ r.full = call[c].full
      /\ r.sector = call[c].sector /\ r.timeout = tm
  BY <1>0, <1>2 DEF CallRecord, Pc
<1> HIDE DEF r
<1>4. Shape(r) /\ ~r.full
  BY <1>0, <1>2, <1>3, IdeAssumption DEF IdeInv, CallShape, Shape, CallRecord
<1>5. ~unhandled => /\ drive.sector = r.sector /\ drive.op = r.op
                    /\ drive.phase \in {"busy", "drq", "err", "idle"}
  BY <1>3 DEF IdeInv, DriveFollows
<1>6. unhandled' \in BOOLEAN /\ (unhandled => unhandled')
  BY <1>1 DEF IdeInv, DiskTypeOK
<1>7. ~unhandled' /\ r.pc # "release" =>
        /\ ~unhandled /\ t \notin {0, COUNTER_MOD - 1} /\ r.pc = next
  BY <1>1, <1>2, <1>3
<1> QED BY <1>1, <1>2, <1>3, <1>4, <1>5, <1>6, <1>7, PollKeepsInv

\* Counting a reading of the status register: the counter does not pass zero here.
LEMMA CountKeepsInv ==
  ASSUME IdeInv, NEW c \in Ctx, call[c].pc \in {"bsy", "drq"}, call[c].timeout # 0,
         NEW pc \in {"bsy", "error"}, call[c].pc = "bsy" <=> pc = "bsy",
         call' = [call EXCEPT ![c] = [call[c] EXCEPT !.timeout = call[c].timeout - 1,
                                                     !.pc = pc]],
         UNCHANGED <<boot, boot_timeout, lock, driveVars, stored, unhandled>>
  PROVE  IdeInv'
<1> DEFINE r == [call[c] EXCEPT !.timeout = call[c].timeout - 1, !.pc = pc]
<1>0. call \in [Ctx -> CallRecord]
  BY DEF IdeInv, DiskTypeOK, CallRecord
<1>1. call[c].timeout - 1 \in 0 .. COUNTER_MOD - 1
  BY <1>0, IdeAssumption DEF CallRecord
<1>2. /\ r \in CallRecord /\ r.pc = pc /\ r.op = call[c].op /\ r.full = call[c].full
      /\ r.sector = call[c].sector /\ r.timeout = call[c].timeout - 1
  BY <1>0, <1>1 DEF CallRecord, Pc
<1>3. Inside(c) /\ call' = [call EXCEPT ![c] = r]
  BY DEF Inside
<1> HIDE DEF r
<1>4. Shape(r)
  BY <1>0, <1>2, IdeAssumption DEF IdeInv, CallShape, Shape, CallRecord
<1>5. ~unhandled => /\ drive.sector = r.sector /\ drive.op = r.op
                    /\ drive.phase \in {"busy", "drq", "err", "idle"}
                    /\ pc = "error" => drive.phase \in {"drq", "err", "idle"}
  BY <1>2 DEF IdeInv, DriveFollows
<1>6. unhandled \in BOOLEAN
  BY DEF IdeInv, DiskTypeOK
<1> QED BY <1>2, <1>3, <1>4, <1>5, <1>6, PollKeepsInv

LEMMA WrapBelowZero == Wrap(0 - 1) = COUNTER_MOD - 1
BY IdeAssumption DEF Wrap

LEMMA WaitNotBusyKeepsInv ==
  ASSUME IdeInv, NEW c \in Ctx, WaitNotBusy(c)
  PROVE  IdeInv'
<1>0. /\ call \in [Ctx -> CallRecord] /\ call[c].pc = "bsy"
      /\ UNCHANGED <<boot, boot_timeout, lock, driveVars, stored>>
  BY DEF IdeInv, DiskTypeOK, CallRecord, WaitNotBusy, At
<1>1. CASE /\ BSY /\ call[c].timeout # 0 /\ UNCHANGED unhandled
           /\ call' = [call EXCEPT ![c].timeout = @ - 1]
  <2>1. call' = [call EXCEPT ![c] = [call[c] EXCEPT !.timeout = call[c].timeout - 1,
                                                    !.pc = "bsy"]]
    BY <1>0, <1>1 DEF CallRecord
  <2> QED BY <1>0, <1>1, <2>1, CountKeepsInv
<1>2. CASE BSY /\ call[c].timeout = 0 /\ LoopEnds(c, Wrap(call[c].timeout - 1), "drq")
  <2>1. LoopEnds(c, COUNTER_MOD - 1, "drq") /\ COUNTER_MOD - 1 \in 0 .. COUNTER_MOD - 1
    BY <1>2, WrapBelowZero, IdeAssumption
  <2> QED BY <1>0, <2>1, LoopEndsKeepsInv
<1>3. CASE ~BSY /\ LoopEnds(c, call[c].timeout, "drq")
  <2>1. call[c].timeout \in 0 .. COUNTER_MOD - 1
    BY <1>0 DEF CallRecord
  <2>2. ~unhandled => drive.phase \in {"drq", "err", "idle"}
    BY <1>0, <1>3 DEF IdeInv, DriveFollows, BSY
  <2> QED BY <1>0, <1>3, <2>1, <2>2, LoopEndsKeepsInv
<1> QED BY <1>1, <1>2, <1>3 DEF WaitNotBusy

LEMMA WaitDataKeepsInv ==
  ASSUME IdeInv, NEW c \in Ctx, WaitData(c)
  PROVE  IdeInv'
<1>0. /\ call \in [Ctx -> CallRecord] /\ call[c].pc = "drq"
      /\ UNCHANGED <<boot, boot_timeout, lock, driveVars, stored>>
  BY DEF IdeInv, DiskTypeOK, CallRecord, WaitData, At
<1>1. CASE /\ ~DRQ /\ call[c].timeout # 0 /\ UNCHANGED unhandled
           /\ call' = [call EXCEPT ![c].timeout = @ - 1, ![c].pc = "error"]
  <2>1. call' = [call EXCEPT ![c] = [call[c] EXCEPT !.timeout = call[c].timeout - 1,
                                                    !.pc = "error"]]
    BY <1>0, <1>1 DEF CallRecord
  <2> QED BY <1>0, <1>1, <2>1, CountKeepsInv
<1>2. CASE ~DRQ /\ call[c].timeout = 0 /\ LoopEnds(c, Wrap(call[c].timeout - 1), "transfer")
  <2>1. LoopEnds(c, COUNTER_MOD - 1, "transfer") /\ COUNTER_MOD - 1 \in 0 .. COUNTER_MOD - 1
    BY <1>2, WrapBelowZero, IdeAssumption
  <2> QED BY <1>0, <2>1, LoopEndsKeepsInv
<1>3. CASE DRQ /\ LoopEnds(c, call[c].timeout, "transfer")
  <2>1. call[c].timeout \in 0 .. COUNTER_MOD - 1
    BY <1>0 DEF CallRecord
  <2>2. drive.phase \in {"drq"}
    BY <1>3 DEF DRQ
  <2> QED BY <1>0, <1>3, <2>1, <2>2, LoopEndsKeepsInv
<1> QED BY <1>1, <1>2, <1>3 DEF WaitData

\* The loop over the data register: what it copies is what was last written.
LEMMA ReadSectorKeepsInv ==
  ASSUME IdeInv, NEW c \in Ctx, ide_read_sector(c)
  PROVE  IdeInv'
<1>0. /\ call \in [Ctx -> CallRecord] /\ call[c].pc = "transfer" /\ call[c].op = "read"
      /\ Inside(c) /\ UNCHANGED <<boot, boot_timeout, lock, reg, disk, stored, unhandled>>
  BY DEF IdeInv, DiskTypeOK, CallRecord, ide_read_sector, At, Inside
<1>1. PICK v \in Content :
        /\ DRQ /\ drive.op = "read" => v = disk[drive.sector]
        /\ call' = [call EXCEPT ![c].buffer = v, ![c].full = TRUE, ![c].pc = "release"]
  BY DEF ide_read_sector
<1> DEFINE r == [call[c] EXCEPT !.buffer = v, !.full = TRUE, !.pc = "release"]
<1>2. call' = [call EXCEPT ![c] = r]
  BY <1>0, <1>1
<1>3. /\ r \in CallRecord /\ r.pc = "release" /\ r.op = "read" /\ r.full = TRUE
      /\ r.sector = call[c].sector /\ r.buffer = v
  BY <1>0 DEF CallRecord, Pc
<1> HIDE DEF r
<1>4. Shape(r)
  BY <1>3 DEF Shape
<1>5. /\ call' \in [Ctx -> CallRecord] /\ call'[c] = r
      /\ \A d \in Ctx : d # c => call'[d].pc \in {"idle", "lock"}
      /\ boot' = "up" /\ boot_timeout' \in -1 .. TIMEOUT /\ lock' \in BOOLEAN
      /\ SearchCounts' /\ NoEarlyCall' /\ LockExcludes' /\ CallShape'
  BY <1>0, <1>2, <1>3, <1>4, OwnerMoves
<1>6. \/ drive' = drive
      \/ drive' = [drive EXCEPT !.phase = "idle"] /\ drive.phase = "drq"
  BY DEF ide_read_sector, DRQ
<1>7. DiskTypeOK'
  BY <1>0, <1>5, <1>6 DEF IdeInv, DiskTypeOK, CallRecord, Phase
<1>8. FoundDriveIsReady' /\ DiskAgrees'
  BY <1>0, <1>6 DEF IdeInv, DiskTypeOK, FoundDriveIsReady, DiskAgrees
<1>9. DriveFollows'
  <2>1. ~unhandled => v = stored[call[c].sector]
    BY <1>0, <1>1 DEF IdeInv, DiskTypeOK, DriveFollows, DiskAgrees, DRQ, CallRecord
  <2> QED BY <1>0, <1>3, <1>5, <2>1 DEF DriveFollows
<1> QED BY <1>5, <1>7, <1>8, <1>9 DEF IdeInv

\* The data of a write is handed over: from here on its sector holds the new content
\* for every caller, although the drive is still storing it.
LEMMA WriteSectorKeepsInv ==
  ASSUME IdeInv, NEW c \in Ctx, ide_write_sector(c)
  PROVE  IdeInv'
<1> DEFINE r == [call[c] EXCEPT !.pc = "release"]
<1>0. /\ call \in [Ctx -> CallRecord] /\ call[c].pc = "transfer" /\ call[c].op = "write"
      /\ Inside(c) /\ UNCHANGED <<boot, boot_timeout, lock, reg, disk, unhandled>>
  BY DEF IdeInv, DiskTypeOK, CallRecord, ide_write_sector, At, Inside
<1>1. /\ r \in CallRecord /\ r.pc = "release" /\ r.op = "write"
      /\ r.full = call[c].full /\ r.sector = call[c].sector /\ r.buffer = call[c].buffer
      /\ call' = [call EXCEPT ![c] = r]
  BY <1>0, GotoRecord DEF ide_write_sector, Pc
<1> HIDE DEF r
<1>2. Shape(r)
  BY <1>1 DEF Shape
<1>3. /\ call' \in [Ctx -> CallRecord] /\ call'[c] = r
      /\ \A d \in Ctx : d # c => call'[d].pc \in {"idle", "lock"}
      /\ boot' = "up" /\ boot_timeout' \in -1 .. TIMEOUT /\ lock' \in BOOLEAN
      /\ SearchCounts' /\ NoEarlyCall' /\ LockExcludes' /\ CallShape'
  BY <1>0, <1>1, <1>2, OwnerMoves
<1>4. /\ stored' = [stored EXCEPT ![call[c].sector] = call[c].buffer]
      /\ drive' = IF DRQ /\ drive.op = "write"
                  THEN [drive EXCEPT !.phase = "store", !.data = call[c].buffer] ELSE drive
      /\ call[c].sector \in Sector /\ call[c].buffer \in Content
  BY <1>0 DEF ide_write_sector, CallRecord
<1>5. DiskTypeOK'
  <2>1. drive' \in [phase: Phase, op: Op, sector: Sector, data: Content]
    BY <1>4 DEF IdeInv, DiskTypeOK, Phase
  <2>2. stored' \in [Sector -> Content]
    BY <1>4 DEF IdeInv, DiskTypeOK
  <2> QED BY <1>0, <1>3, <2>1, <2>2 DEF IdeInv, DiskTypeOK, CallRecord
<1>6. FoundDriveIsReady'
  BY <1>0, <1>4 DEF IdeInv, DiskTypeOK, FoundDriveIsReady
<1>7. DiskAgrees'
  <2> SUFFICES ASSUME ~unhandled', NEW s \in Sector
               PROVE  stored'[s] = IF drive'.phase = "store" /\ drive'.sector = s
                                   THEN drive'.data ELSE disk'[s]
    BY DEF DiskAgrees
  <2>1. drive.phase = "drq" /\ drive.op = "write" /\ drive.sector = call[c].sector
    BY <1>0 DEF IdeInv, DriveFollows
  <2>2. stored[s] = disk[s]
    BY <1>0, <2>1 DEF IdeInv, DiskAgrees
  <2>3. drive' = [drive EXCEPT !.phase = "store", !.data = call[c].buffer]
    BY <1>4, <2>1 DEF DRQ
  <2>4. /\ drive'.phase = "store" /\ drive'.sector = call[c].sector
        /\ drive'.data = call[c].buffer
    BY <2>1, <2>3 DEF IdeInv, DiskTypeOK
  <2> QED BY <1>0, <1>4, <2>2, <2>4 DEF IdeInv, DiskTypeOK
<1>8. DriveFollows'
  BY <1>0, <1>1, <1>3, <1>4 DEF DriveFollows, IdeInv, DiskTypeOK
<1> QED BY <1>3, <1>5, <1>6, <1>7, <1>8 DEF IdeInv
LEMMA AcquireKeepsInv ==
  ASSUME IdeInv, NEW c \in Ctx, acquire_lock(c)
  PROVE  IdeInv'
<1> DEFINE r == [call[c] EXCEPT !.pc = "address"]
<1>0. /\ call \in [Ctx -> CallRecord] /\ call[c].pc = "lock" /\ ~lock /\ lock' = TRUE
      /\ UNCHANGED <<boot, boot_timeout, reg, drive, disk, stored, unhandled>>
  BY DEF IdeInv, DiskTypeOK, CallRecord, acquire_lock, At, driveVars
<1>1. /\ r \in CallRecord /\ r.pc = "address" /\ r.op = call[c].op
      /\ r.full = call[c].full /\ call' = [call EXCEPT ![c] = r]
  BY <1>0, GotoRecord DEF acquire_lock, Pc
<1> HIDE DEF r
<1>2. /\ call' \in [Ctx -> CallRecord] /\ call'[c] = r
      /\ \A d \in Ctx : d # c => call'[d] = call[d] /\ call[d].pc \in {"idle", "lock"}
  BY <1>0, <1>1 DEF IdeInv, LockExcludes, Inside
<1>3. DiskTypeOK'
  BY <1>0, <1>2 DEF IdeInv, DiskTypeOK, CallRecord
<1>4. FoundDriveIsReady' /\ SearchCounts' /\ DiskAgrees'
  BY <1>0 DEF IdeInv, FoundDriveIsReady, SearchCounts, DiskAgrees
<1>5. NoEarlyCall' /\ LockExcludes'
  BY <1>0, <1>1, <1>2 DEF IdeInv, NoEarlyCall, LockExcludes, Inside
<1>6. CallShape'
  BY <1>0, <1>1, <1>2 DEF IdeInv, CallShape, Shape
<1>7. DriveFollows'
  BY <1>0, <1>1, <1>2 DEF IdeInv, DriveFollows
<1> QED BY <1>3, <1>4, <1>5, <1>6, <1>7 DEF IdeInv

\* A context that goes to a place outside the lock, or stays there.
LEMMA OutsideKeepsInv ==
  ASSUME IdeInv, NEW c \in Ctx, NEW r \in CallRecord, call' = [call EXCEPT ![c] = r],
         r.pc \in {"idle", "lock"}, ~r.full, r.pc # "idle" => boot = "up",
         lock' = IF Inside(c) THEN FALSE ELSE lock,
         UNCHANGED <<boot, boot_timeout, driveVars, stored, unhandled>>
  PROVE  IdeInv'
<1>1. /\ call \in [Ctx -> CallRecord]
      /\ UNCHANGED <<boot, boot_timeout, reg, drive, disk, stored, unhandled>>
  BY DEF IdeInv, DiskTypeOK, CallRecord, driveVars
<1>2. /\ call' \in [Ctx -> CallRecord] /\ call'[c] = r
      /\ \A d \in Ctx : d # c => call'[d] = call[d]
  BY <1>1
<1>3. DiskTypeOK'
  BY <1>1, <1>2 DEF IdeInv, DiskTypeOK, CallRecord
<1>4. FoundDriveIsReady' /\ SearchCounts' /\ DiskAgrees'
  BY <1>1 DEF IdeInv, FoundDriveIsReady, SearchCounts, DiskAgrees
<1>5. NoEarlyCall' /\ LockExcludes'
  BY <1>1, <1>2 DEF IdeInv, NoEarlyCall, LockExcludes, Inside
<1>6. CallShape'
  BY <1>2 DEF IdeInv, CallShape, Shape
<1>7. DriveFollows'
  BY <1>1, <1>2 DEF IdeInv, DriveFollows
<1> QED BY <1>3, <1>4, <1>5, <1>6, <1>7 DEF IdeInv

LEMMA ReleaseKeepsInv ==
  ASSUME IdeInv, NEW c \in Ctx, release_lock(c)
  PROVE  IdeInv'
<1>1. NoCall \in CallRecord /\ NoCall.pc = "idle" /\ ~NoCall.full
  BY NoCallType DEF NoCall, Done
<1>2. Inside(c)
  BY DEF release_lock, At, Inside
<1> QED BY <1>1, <1>2, OutsideKeepsInv DEF release_lock

LEMMA AccessKeepsInv ==
  ASSUME IdeInv, NEW c \in Ctx, NEW op \in Op, NEW s \in Sector, NEW v \in Content,
         block_access(c, op, s, v)
  PROVE  IdeInv'
<1> DEFINE d == Done(s, v)
           r == [d EXCEPT !.pc = "lock", !.op = op]
<1>0. /\ call \in [Ctx -> CallRecord] /\ call[c].pc = "idle"
      /\ UNCHANGED <<boot, boot_timeout, lock, driveVars, stored, unhandled>>
  BY DEF IdeInv, DiskTypeOK, CallRecord, block_access, At
<1>1. CASE boot = "absent"
  <2>1. UNCHANGED ideVars
    BY <1>0, <1>1 DEF block_access, ideVars
  <2> QED BY <2>1, StutterKeepsInv
<1>2. CASE boot = "up"
  <2>1. d \in CallRecord /\ ~d.full
    BY IdeAssumption DEF Done, CallRecord, Pc, Op
  <2>2. call' = [call EXCEPT ![c] = r]
    BY <1>2 DEF block_access
  <2> HIDE DEF d
  <2>3. r \in CallRecord /\ r.pc = "lock" /\ ~r.full
    BY <2>1 DEF CallRecord, Pc
  <2> HIDE DEF r
  <2> QED BY <1>0, <1>2, <2>2, <2>3, OutsideKeepsInv DEF Inside
<1> QED BY <1>1, <1>2 DEF block_access
-----------------------------------------------------------------------------
(* Boot and the drive.                                                     *)

LEMMA CheckKeepsInv ==
  ASSUME IdeInv, ide_check_drive_exists
  PROVE  IdeInv'
<1>0. boot = "check" /\ UNCHANGED <<lock, call, reg, drive, disk, stored, unhandled>>
  BY DEF ide_check_drive_exists, driveVars
<1>1. /\ boot_timeout' \in -1 .. TIMEOUT
      /\ boot' \in {"check", "init", "absent"}
      /\ boot' = "check" => boot_timeout' >= 0
      /\ boot' = "init" => drive.phase \notin {"none", "power"}
  BY <1>0, IdeAssumption DEF IdeInv, DiskTypeOK, SearchCounts, ide_check_drive_exists,
                             BSY, Found
<1>2. DiskTypeOK' /\ FoundDriveIsReady' /\ SearchCounts'
  BY <1>0, <1>1 DEF IdeInv, DiskTypeOK, FoundDriveIsReady, SearchCounts
<1>3. NoEarlyCall'
  BY <1>0 DEF IdeInv, NoEarlyCall
<1>4. LockExcludes' /\ CallShape' /\ DriveFollows' /\ DiskAgrees'
  BY <1>0 DEF IdeInv, LockExcludes, Inside, CallShape, DriveFollows, DiskAgrees
<1> QED BY <1>2, <1>3, <1>4 DEF IdeInv

LEMMA InitializeKeepsInv ==
  ASSUME IdeInv, ide_initialize
  PROVE  IdeInv'
<1>0. /\ boot = "init" /\ boot' \in {"up", "absent"}
      /\ UNCHANGED <<boot_timeout, lock, call, reg, drive, disk, stored, unhandled>>
  BY DEF ide_initialize, driveVars
<1>1. DiskTypeOK' /\ FoundDriveIsReady' /\ SearchCounts' /\ NoEarlyCall'
  BY <1>0 DEF IdeInv, DiskTypeOK, FoundDriveIsReady, SearchCounts, NoEarlyCall
<1>2. LockExcludes' /\ CallShape' /\ DriveFollows' /\ DiskAgrees'
  BY <1>0 DEF IdeInv, LockExcludes, Inside, CallShape, DriveFollows, DiskAgrees
<1> QED BY <1>1, <1>2 DEF IdeInv

\* A step of the drive that only changes its phase.
LEMMA PhaseKeepsInv ==
  ASSUME IdeInv, NEW p \in Phase \ {"none", "power", "store", "busy"},
         drive' = [drive EXCEPT !.phase = p], drive.phase \in {"power", "busy"},
         drive.phase = "power" => p = "idle", drive.phase = "busy" => p \in {"drq", "err"},
         UNCHANGED <<boot, boot_timeout, lock, call, reg, disk, stored, unhandled>>
  PROVE  IdeInv'
<1>1. /\ drive' \in [phase: Phase, op: Op, sector: Sector, data: Content]
      /\ drive'.phase = p /\ drive'.op = drive.op /\ drive'.sector = drive.sector
  BY DEF IdeInv, DiskTypeOK
<1>2. DiskTypeOK' /\ FoundDriveIsReady' /\ SearchCounts' /\ NoEarlyCall'
  BY <1>1 DEF IdeInv, DiskTypeOK, FoundDriveIsReady, SearchCounts, NoEarlyCall
<1>3. LockExcludes' /\ CallShape' /\ DiskAgrees'
  BY <1>1 DEF IdeInv, LockExcludes, Inside, CallShape, DiskAgrees
<1>4. DriveFollows'
  BY <1>1 DEF IdeInv, DriveFollows
<1> QED BY <1>2, <1>3, <1>4 DEF IdeInv

\* The write that the driver left behind ends: no call works with the drive then.
LEMMA StoreKeepsInv ==
  ASSUME IdeInv, Store
  PROVE  IdeInv'
<1>0. /\ drive.phase = "store"
      /\ UNCHANGED <<boot, boot_timeout, lock, call, reg, stored>>
  BY DEF Store
<1>1. CASE /\ disk' = [disk EXCEPT ![drive.sector] = drive.data]
           /\ drive' = [drive EXCEPT !.phase = "idle"] /\ UNCHANGED unhandled
  <2>1. /\ drive' \in [phase: Phase, op: Op, sector: Sector, data: Content]
        /\ drive'.phase = "idle" /\ disk' \in [Sector -> Content]
    BY <1>1 DEF IdeInv, DiskTypeOK, Phase
  <2>2. DiskTypeOK' /\ FoundDriveIsReady' /\ SearchCounts' /\ NoEarlyCall'
    BY <1>0, <1>1, <2>1 DEF IdeInv, DiskTypeOK, FoundDriveIsReady, SearchCounts, NoEarlyCall
  <2>3. LockExcludes' /\ CallShape'
    BY <1>0 DEF IdeInv, LockExcludes, Inside, CallShape
  <2>4. DiskAgrees'
    BY <1>0, <1>1, <2>1 DEF IdeInv, DiskTypeOK, DiskAgrees
  <2>5. DriveFollows'
    BY <1>0, <1>1, <2>1 DEF IdeInv, DriveFollows
  <2> QED BY <2>2, <2>3, <2>4, <2>5 DEF IdeInv
<1>2. CASE drive' = [drive EXCEPT !.phase = "err"] /\ unhandled' = TRUE /\ UNCHANGED disk
  <2>1. /\ drive' \in [phase: Phase, op: Op, sector: Sector, data: Content]
        /\ drive'.phase = "err"
    BY <1>2 DEF IdeInv, DiskTypeOK, Phase
  <2>2. DiskTypeOK' /\ FoundDriveIsReady' /\ SearchCounts' /\ NoEarlyCall'
    BY <1>0, <1>2, <2>1 DEF IdeInv, DiskTypeOK, FoundDriveIsReady, SearchCounts, NoEarlyCall
  <2>3. LockExcludes' /\ CallShape' /\ DiskAgrees' /\ DriveFollows'
    BY <1>0, <1>2 DEF IdeInv, LockExcludes, Inside, CallShape, DiskAgrees, DriveFollows
  <2> QED BY <2>2, <2>3 DEF IdeInv
<1> QED BY <1>1, <1>2 DEF Store

\* The interrupt handler's write disturbs a transfer only between address and command.
LEMMA InterruptKeepsInv ==
  ASSUME IdeInv, block_interrupt_handler
  PROVE  IdeInv'
<1>0. /\ drive.phase \in {"idle", "err"} /\ reg' \in Sector
      /\ unhandled' = (unhandled \/ \E c \in Ctx : At(c, "command"))
      /\ UNCHANGED <<boot, boot_timeout, lock, call, disk, stored>>
  BY DEF block_interrupt_handler
<1>1. PICK p \in {"idle", "err"} : drive' = [drive EXCEPT !.phase = p]
  BY DEF block_interrupt_handler
<1>2. /\ drive' \in [phase: Phase, op: Op, sector: Sector, data: Content]
      /\ drive'.phase \in {"idle", "err"} /\ drive'.op = drive.op
      /\ drive'.sector = drive.sector /\ unhandled' \in BOOLEAN
  BY <1>0, <1>1 DEF IdeInv, DiskTypeOK, Phase
<1>3. DiskTypeOK' /\ FoundDriveIsReady' /\ SearchCounts' /\ NoEarlyCall'
  BY <1>0, <1>2 DEF IdeInv, DiskTypeOK, FoundDriveIsReady, SearchCounts, NoEarlyCall
<1>4. LockExcludes' /\ CallShape' /\ DiskAgrees'
  BY <1>0, <1>2 DEF IdeInv, LockExcludes, Inside, CallShape, DiskAgrees
<1>5. DriveFollows'
  <2> SUFFICES ASSUME ~unhandled' PROVE DriveFollows'
    BY DEF DriveFollows
  <2>1. ~unhandled /\ \A c \in Ctx : call[c].pc # "command"
    BY <1>0 DEF At
  <2> QED BY <1>0, <1>2, <2>1 DEF IdeInv, DriveFollows
<1> QED BY <1>3, <1>4, <1>5 DEF IdeInv

LEMMA NextKeepsInv == IdeInv /\ [IdeNext]_ideVars => IdeInv'
<1> SUFFICES ASSUME IdeInv, [IdeNext]_ideVars PROVE IdeInv'
  OBVIOUS
<1>1. CASE ide_check_drive_exists
  BY <1>1, CheckKeepsInv
<1>2. CASE ide_initialize
  BY <1>2, InitializeKeepsInv
<1>3. ASSUME NEW c \in Ctx, NEW s \in Sector, block_access(c, "read", s, AnyContent)
      PROVE  IdeInv'
  BY <1>3, AccessKeepsInv, Defaults DEF Op
<1>4. ASSUME NEW c \in Ctx, NEW s \in Sector, NEW v \in Content,
             block_access(c, "write", s, v)
      PROVE  IdeInv'
  BY <1>4, AccessKeepsInv DEF Op
<1>5. ASSUME NEW c \in Ctx, acquire_lock(c) PROVE IdeInv'
  BY <1>5, AcquireKeepsInv
<1>6. ASSUME NEW c \in Ctx, Transfer(c) PROVE IdeInv'
  BY <1>6, SetAddressKeepsInv, CommandKeepsInv, WaitNotBusyKeepsInv, WaitDataKeepsInv,
     CheckErrorKeepsInv, ReadSectorKeepsInv, WaitReadyKeepsInv, WriteSectorKeepsInv,
     ReleaseKeepsInv DEF Transfer
<1>7. CASE PowerUp
  BY <1>7, PhaseKeepsInv DEF PowerUp, Phase
<1>8. CASE Answer
  BY <1>8, PhaseKeepsInv DEF Answer, Phase
<1>9. CASE Store
  BY <1>9, StoreKeepsInv
<1>10. CASE block_interrupt_handler
  BY <1>10, InterruptKeepsInv
<1>11. CASE UNCHANGED ideVars
  BY <1>11, StutterKeepsInv
<1> QED BY <1>1, <1>2, <1>3, <1>4, <1>5, <1>6, <1>7, <1>8, <1>9, <1>10, <1>11 DEF IdeNext

\* The parts of the inductive invariant hold in every state of the driver and drive.
THEOREM IdeInvariance == IdeSpec => []IdeInv
<1>1. IdeInit => IdeInv
  BY InitEstablishesInv
<1>2. IdeInv /\ [IdeNext]_ideVars => IdeInv'
  BY NextKeepsInv
<1> QED BY <1>1, <1>2, PTL DEF IdeSpec

\* kernel_main only ever takes a drive that has left its power-up phase, whatever the
\* number of polls of ide_check_drive_exists and whenever the drive answers.
THEOREM SearchTakesReadyDrive == IdeSpec => []FoundDriveIsReady
<1>1. IdeInv => FoundDriveIsReady
  BY DEF IdeInv
<1> QED BY <1>1, IdeInvariance, PTL

\* For any number of processes, sectors and polls, ide_read_sector returns what was
\* last written to its sector, unless the driver went on after a time-out or gave a
\* command to a drive that was still busy.
THEOREM ReadsSeeWrites == IdeSpec => []ReadsReturnLastWrite
<1>1. IdeInv => ReadsReturnLastWrite
  BY DEF IdeInv, CallShape, Shape, DriveFollows, ReadsReturnLastWrite
<1> QED BY <1>1, IdeInvariance, PTL
==============================================================================
