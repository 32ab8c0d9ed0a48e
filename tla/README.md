# Verification of the Jarvis OS kernel

TLA+ models of the parts of Jarvis OS (x86, C) whose correctness depends on
order, interleaving, limits or pointers, the TLC runs that check them on small
instances, and TLAPS proofs of the properties that can be stated for every
instance. Paths below are relative to `src/` of the repository root
(`src/kernel/multitask/process.c` is the file `src/src/kernel/...`).

    tlc -config MCProcess.cfg MCProcess            # any run: see "Runs"
    tlapm MemoryProofs.tla                         # any module *Proofs

`PROJECT.json` maps every definition to the lines it models and lists runs,
mutants, findings, hazards and theorems.

## The system

One CPU, no SMP. Every IDT entry is an interrupt gate, so interrupt handlers and
system calls run with interrupts off; kernel-mode processes (the only ones the
kernel starts) call the kernel directly with interrupts on and can be preempted
anywhere by the timer, also inside the process manager's own calls. `kernel_main`
runs with interrupts on from `activate` (kernel.c:208, interrupt.c:184); only the
creation of the first process is left then. The scheduler is strict: the best
level first, in a level the lowest pid first.

| Component | State it keeps | Operations | Uses |
|---|---|---|---|
| Process manager (`multitask/process.c`) | PCBs, pid bitmap, ready queues by priority, blocked and terminated queue, `current_process`, clock, slices | create, terminate, block, unblock, yield, tick, schedule | heap, paging; driven by interrupt 0x20 |
| Virtual memory (`memory/paging.c`, `mmap`/`munmap` in `syscall.c`) | frame bitmap and counts, page directories and tables, memory regions | allocate, map, free pages with roll-back; page fault | frame pool shared by all processes |
| Heap (`memory/malloc.c`) | free lists of seven size classes, list of large chunks, one spin lock each | `malloc`, `free`, refill, split | called by everything, also from the tick |
| Keyboard (`driver/keyboard.c`) | ring of characters, two indices, modifier flags | interrupt handler, `keyboard_getchar`, clear, reset | interrupt 0x21; read by shell and installer |
| Shell (`user/shell/`) | line buffer, position saved by `strtok` | read line, tokenize, run command | keyboard, console |
| Installer (`user/installer/`) | selected device, whether it is done | select, format, install, in the same command loop | keyboard, console, block device list, VFS |
| Console (`kerio.c`) | video memory, cursor, cursor of the VGA hardware | `printk`, formatting, cursor | used by everything |
| VFS, devfs, ext4 (`fs/`) | file systems, mount table, devices, inodes, operation tables, descriptors, ext4's own mount record | register, mount, unmount, open, close, read, opendir, mkdir, rmdir, remove | heap, IDE driver |
| IDE driver (`driver/block.c`) | device list, lock; the drive's registers | drive check, sector read and write | polled port I/O |
| Red-black tree (`kerstd/rbtree.c`) | nodes with colour and three pointers | insert, delete, search, minimum, maximum | library, not linked into the kernel yet |
| System calls (`syscall/syscall.c`) | handler table, descriptor tables per process | dispatch, file calls, exit, yield, mmap | all of the above |
| Start-up (`kernel.c`, PCI scan in `pic.c`, `driver/driver.c`) | block devices, interrupt handlers, list of drivers, hardware status | scan, set up devices, mount, start the first process | VFS, devfs, IDE driver, keyboard |
| GDT, IDT, port I/O, strings | hardware tables | written once; byte copying | - |

What is hard here:

* **Interleaving.** The tick raises interrupt 0x20 inside itself; processes are
  preempted inside an exit or a sleep, inside `malloc` and inside a disk transfer.
* **Shared pointers.** Three kinds of process queue share one `next` field; heap
  chunks, inodes and operation tables are reused after a free.
* **Partial failure.** A request of several pages, an open, or a mkdir fails in
  the middle and has to give back exactly what it took.
* **Time.** Clock and slices wrap; wait loops count with unsigned counters.
* **Limits.** Full ring, full tables, no frame, no pid, no chunk left.

What makes each component correct is the list of properties under "Runs".

## Modules

| Module | Models | Notes on the correspondence |
|---|---|---|
| `ProcessManager` | `process.c`, interrupt 0x20 of `interrupt.c` | `pm` is `*process_manager`; a cell is a `Process*` variable (queue head or `next` field), so a `Process**` is a cell. `cpu` is the context that executes, `inTick` the processes suspended inside a tick, `pm.call[p]` how far `p` has got in an exit or a sleep that ticks can divide; `torn` ends the model. |
| `ProcessTable` | nothing: the abstract specification of `ProcessManager` | states, priorities, current process; no queues, slices or clock. |
| `VirtualMemory` | `paging.c`, `mmap`, `munmap` | `op[d]` is the page loop that process `d` is in; one iteration is one step. `shift` says how many entries lie before a page table when its address is read back from the directory (`>> 12`, `<< 12` of a `malloc` pointer); `stray` ends the model. |
| `Heap` | `malloc.c` | `call[c]` is the call context `c` is in; a step ends at every lock and between read and write of a list head. |
| `Keyboard`, `KeyQueue` | `keyboard.c`; its abstract FIFO queue | a key stands for the keys the driver treats alike; `held` are the modifier keys physically down. |
| `Console` | `printk` and the cursor of `kerio.c` | `display` is cursor and video memory; a character is a cell, its colour left out. |
| `Shell` | `shell.c`, `strtok` of `string.c`; extends `Keyboard` and `Console` | composition: keys arrive between any two steps of the loop, and what is typed is echoed. The installer's loop is the same code. |
| `Vfs` | `vfs.c`, registry of `devfs.c`, `ext4.c` as the VFS sees it | a path is the sequence of its names; inodes and tables live at addresses that are used again. |
| `Startup` | `kernel_main`, PCI scan of `pic.c`, `driver.c`; extends `Vfs` | `boot` is the next step; a PCI function is its interrupt line; `block_devices` are the structures not freed. |
| `Installer` | `installer.c`; extends `Startup` | the composed system: start-up, then the installer's commands in any order. |
| `IdeDisk` | `block.c`; the drive is external | `call[c]` is the transfer context `c` is in, `drive` what the drive does, `stored` what callers have written. |
| `RBTree` | `rbtree.c` | the mirrored cases of the source are one case with a side; a `while` loop is a recursive function of `Cardinality(Node)` iterations, proved to be enough. |
| `*Proofs` | theorems about the modules they extend | `MemoryProofs` covers `VirtualMemory` and `Heap`, `ShellProofs` covers `Keyboard`, `Console` and `Shell`, `SystemProofs` covers `Vfs`, `Startup` and `Installer`; see "Proofs" |
| `NatRecursion` | nothing: lemmas on induction and loops | used by the proofs about loops |
| `MC*` | instances for TLC | no definition is replaced; constants only |

Granularity. A handler that runs with interrupts off is one step. Where
preemption is possible a step ends where another context can see the difference:
an exit (`process_wrapper`, interrupts on) is `TerminateMarks`, `TerminateDrops`,
`CallLinks`, and a process that puts itself to sleep takes `BlockDrops`,
`BlockMarks`, `CallLinks`, with a tick possible before each. A tick that falls
inside the pointer changes of one of these steps, or inside a call of
`terminate_process`, `block_process` or `unblock_process` on another process, is
`TickWithinCall`: it sets `torn` and the model stops. `create_process` is one step,
since the kernel calls it once, from `kernel_main`, when nothing else is ready.
The calls of the page loops do not overlap (`Calm`): `mmap`, `munmap` and page
faults enter through interrupt gates (interrupt.c:141) and nothing sets the
interrupt flag again; they go page by page only because each page can fail.
`keyboard_reset` is two steps, as the clearing of the ring ends with `sti`. A call of
the VFS is one step: system calls run with interrupts off, and during start-up
and in the installer nothing else uses it. A call of `printk` is one step, as
only one process prints.

Undefined behaviour. In `ProcessManager` `torn` says that a process was put on a
second queue through its one `next` field (`terminate_process` of a queued
process), or that a tick came while pointers were being changed. In
`VirtualMemory` `stray` says that an entry before a page table was written, or
a table freed under an address `malloc` never returned. In `Vfs` a call through a
freed or wrong table, a mount whose path could not be copied (vfs.c:210), or
ext4's overlong read of an inode (ext4.c:104-123, also on open) sets `wild`. The
models stop there; nothing is claimed about what follows. `Startup`
does the same when `kernel_main` adds a drive to a full device list, and
`MountBlankDisk` when ext4 divides by the zero it has read from a blank disk. In `IdeDisk`
data read from a drive that has none is any value, and `unhandled` records that
the driver met something it does not look for (a time-out, a busy drive, a
failed write, its own interrupt handler writing the command register of an idle
drive between address and command: the address registers are then arbitrary). In `Heap` the wrapped size of a refill is computed as the code
computes it (`% SIZE_MOD`).

## Runs

All passing runs are exhaustive for their bounds. Deadlock is checked except in
the process runs (`torn` ends the model), `memory` (all processes may be dead,
and `stray` ends the model), `heap`/`heap_race` (the bound `LIMIT`
stops new calls), `files` (`wild` ends the model) and `system` (the installer
ends, or a shell is started).

| Run | States | Properties |
|---|---|---|
| `process` | 129 733 | queues sound and sorted (`QueueIntegrity`), one running process that owns the CPU (`OneRunning`), bitmap, slots and counter agree (`SlotsAgree`), every tick leaves the best process on the CPU (`TickDispatchesBest`), refinement of `ProcessTable` (`ImplementsTable`), `SleepersWake`, `ZombiesReaped` |
| `memory` | 2 358 404 | `Isolation`, `FrameAccounting`, `TablesCoverPages`, `DestroyLeaksNoFrame` |
| `heap` | 238 518 | `BlocksExclusive`, `NoChunkLost`, `ChunksDisjoint`, `BlockFits`, `CallsReturn` |
| `keyboard` | 335 832 | `ImplementsQueue` (refinement of `KeyQueue`), `NoStuckModifier` |
| `shell` | 800 812 | the screen shows the prompt and exactly the line that will be run (`ScreenShowsLine`), `ArgsAreWords`, `EnterIsAnswered`; the line stays in its buffer and the cursor on the screen (`ShellTypeOK`) |
| `system` | 10 651 | no pointer to a freed device (`DevicesLive`), key presses reach the keyboard (`KeyboardWired`), mounts are as start-up left them (`MountsRestored`), start-up and installation end (`KernelProgress`), the PCI scan respects the device list (`SystemTypeOK`) |
| `files` | 229 579 | `InodesOwned`, `RegularFilesIntact`, `MountsAgree`, `LongestMountWins` |
| `disk` | 954 124 | `ReadsReturnLastWrite`, `ReadsGiveLockBack`, `FoundDriveIsReady` |
| `rbtree` | 27 428 | `SearchTree`, `Balanced`, `LookupsCorrect` |
| `process_slice` | violation | `SliceWithinQuota` |
| `process_exit` | violation | `ExitsReaped` |
| `heap_race` | violation | `BlocksExclusive` with two contexts |

Each passing run also checks the type invariant of its module; in `heap`, `rbtree`, `files` and `disk` it is a conjunct of
`ChunksDisjoint`, `SearchTree`, `InodesOwned` and `ReadsReturnLastWrite`. Each
property has a mutant of the code that breaks it.

Bounds and why they are enough.

* Processes: two pids on two levels give queues of length two in both orders of
  arrival, a tick in every window of an exit or a sleep with another process
  ready, a demotion, and a full table. The clock is taken modulo 3 so that it
  wraps while processes sleep, the slice modulo 3 so that an underflow shows, and
  the reaper's period is short enough for a nested tick to step over it. The safety
  properties also hold with three pids and a clock modulo 2 (3 754 082 states), and
  for every number of pids by proof.
* Memory: two processes, three pages of two page tables, two frames in all. A
  stack lies across both tables, so frames and tables run out in the middle of
  it; each table may start anywhere (`shift`). The run with requests of two
  pages (7 120 170 states) passes as well.
* Heap: two classes and a heap of two refills with room for one large block:
  splitting, refilling, exhaustion and reuse all happen, and one of the requests
  wraps to 0 when it is rounded up. One context for the
  passing run; `heap_race` shows what two do.
* Keyboard and shell: a ring of three or four slots wraps and overflows; a line
  of six characters has leading, doubled and trailing blanks, more words than
  `MAX_ARGS`, and fills up without an Enter. The screen has three rows of three
  cells, so that the prompt and a line wrap twice, and every line scrolls.
* System: up to four Intel functions for a list of two devices, three addresses
  for their structures and two entries in devfs: lists fill up, devices are freed
  and their memory and names are used again. Functions report the keyboard's
  line, a line of their own or none. Three of the installer's nine directories.
* Files: two descriptors, three inode and three table addresses, two mounts, one
  device slot: every table fills up, and freed addresses come back.
* Disk: two contexts, two sectors, two contents, two polls before a time-out;
  the drive may answer in any poll, after the last one, fail, or never answer, and
  the interrupt handler runs between any two steps.
* Tree: eight nodes with two repeated keys reach every case of both fix-ups.

Fairness.

* `ProcessManager`: weak fairness of the timer interrupt, of a suspended tick's
  second half, and of the next step of a call whose process has the CPU. The PIT
  keeps firing, a process dispatched inside the tick continues there, and the CPU
  executes what it is in between two ticks.
* `Shell`: weak fairness of the loop; the shell is the only process.
* `Installer`: weak fairness of `kernel_main` (interrupts are on for its last call,
  but no other process exists that could keep the CPU) and of an installation that has begun; none of the user's commands and answers.
* `Heap`: the one context of the run keeps running.
* `IdeDisk`: none. The scheduler is strict, so a better process that spins in
  `acquire_lock` (block.c:13) keeps the holder of the lock from ever running.
  `ReadsGiveLockBack` therefore has a premise: a reader that keeps being scheduled
  gives the lock back, whatever drive, interrupt handler and other contexts do.

## Findings

* `process_slice`: when a slice reaches 0 the tick raises an interrupt whose
  tick decrements it again to 2^32 - 1; the reset and the demotion in
  `schedule` never happen.
* `process_exit`: `process_wrapper` calls `terminate_process` with interrupts on; a
  tick between the change of state (process.c:285) and the enqueue (298), with
  another process ready, takes the CPU away for good, since `schedule` saves and
  requeues only a RUNNING process. The process stays TERMINATED on no queue, and
  the periodic clean-up (process.c:456) never finds it.
* `heap_race`: a refill links chunks into a class's list holding only
  `large_lock`; a chunk popped meanwhile is handed out twice.

Deviations that the models contain and no run states:

* `terminate_process` clears `current_process` before it compares with it
  (process.c:294, 304), so a process that exits stays on the CPU in code marked
  "should not be reached" (process.c:117) until a tick, and, with nothing else
  ready, also after the reaper has freed its stack. `ProcessManager` has these
  states.
* `terminate_process` of a process that is ready or blocked overwrites the state
  it then tests (process.c:285-292), so the process stays on its queue and is put
  on a second one; the same happens to a process that has put itself to sleep,
  goes on executing because `current_process` is already cleared at line 335, and
  then ends. The model has this and stops there (`torn`).
* A process that puts itself to sleep is never saved by `schedule`: it resumes with
  the registers of its last switch. If a tick takes the CPU before line 332 it is
  BLOCKED, or RUNNING and not current, on no queue, and the tick does not wake it.
* A directory entry keeps a page table's address without its low 12 bits
  (paging.c:244, 248) and CR3 that of the directory (paging.c:217), while `malloc`
  returns addresses 20 bytes after the start of a chunk: entries are written before
  the table, and `pd_destroy` frees addresses `malloc` never returned. No statement
  of the repository denies it, so no run states it; paging is never enabled.
* The page fault handler reads bit 0 of the error code the wrong way round
  (paging.c:366).
* Both shift keys share a flag: releasing one turns shift off while the other
  is down (keyboard.c:118).
* A freed large chunk has lost its links and joins no list (malloc.c:310); a
  request above 0xFFFFFFF0 is rounded up to 0 and gets a block of the smallest
  class (malloc.c:266); the size left after a refill is read from a header already overwritten
  (malloc.c:176).
* `vfs_open` of a device takes a device pointer for a function table
  (vfs.c:392); `ext4_dir_opendir` frees the table its descriptor keeps
  (ext4.c:704); failed opens, mkdir, rmdir and remove leave tables behind;
  `ext4_rmdir` can never succeed, since every path but "/" is a regular file.
* The IDE wait loops test the counter for 0, which it has only when the drive
  became ready in the last poll; after a real time-out it is 2^32 - 1 and the
  transfer goes ahead (block.c:70, 91). A write does not wait for the drive to
  store the data, and no command waits for an idle drive. The wait of a write
  (block.c:122) has no limit and holds the lock.
* `block_interrupt_handler` serves every line below 16 that an Intel function
  reports (pic.c:203-211), the drive's or not, and writes the status it reads into
  the command register, without the lock (block.c:219).
* The name of the drive is made of the number of block devices, which the PCI
  scan has raised by then: with n Intel functions it is `/dev/hda<n>`, while
  `kernel_main` mounts, and the installer selects, `/dev/hda0`. It does not
  matter, because `ext4_mount` ignores the source and takes the first device, in
  the installer also after another device was selected. The devices of the scan
  are in the list and not in devfs, which is emptied after the scan
  (kernel.c:144).
* The installer cannot install while the root file system is mounted (ext4 has one
  mount), which is the case whenever it was started by the flag at 0x9000 on a
  formatted disk. Its format command writes nothing to the disk, so a blank disk
  stays blank and makes the mount divide by zero (ext4.c:66).
* The shell and the installer do not free the argument array of a blank line
  (shell.c:95): when the heap is used up by blank lines every line counts as blank.

## Proofs

TLAPS proves the following for all values of the constants that satisfy the
`ASSUME`s of the modules, and so for the sizes of the code: any number of
processes, pages, sectors, PCI functions, mounts or tree nodes, any ring, line
and screen.
Every inductive invariant below was checked with TLC before it was proved (that of
the tree, which quantifies over functions, through the properties it gives).

**Loops.** The prover cannot instantiate the library's induction theorems, which
take an operator. `NatRecursion` derives the same facts for sets and functions
from the well-foundedness of `<`: `NatSetInduction`, `IntervalInduction`, and
`LoopFunction` (a loop of `n` steps defines a function). A loop of the code that
is modelled as a recursive function (the queue walks, the mount lookup, the walk
along a free list, `printk`, `shell_tokenize`, the loops of the tree) is proved by showing with
`LoopFunction` that the function exists, and then by induction over its steps.

**`ProcessManagerProofs`**: `QueuesStayIntact`, `OneProcessRuns`,
`SlotsStayInStep`, `ManagerTypeCorrect`, `TicksDispatchBest`, and
`ManagerImplementsTable` (every step of the process manager is a step of
`ProcessTable` or changes nothing it sees; an exit or a sleep counts from its first
step). `ManagerInv` says that bitmap, slots and counter agree, and, until `torn`
(`Sound`), that every queue holds exactly the processes whose state, priority and
progress in a call send them there, linked in ascending order of pid (`Linked`),
that the running process is the current one and has the CPU outside the two windows
of an exit and a sleep, and that a suspended tick belongs to a living process which
is in no call. None of the parts is inductive alone: a process is taken off the
right queue only because its state and priority tell where it is, and a process
whose call a tick cut off for ever must be on no queue when somebody later
terminates or unblocks it. The lemmas follow the code: insertion and removal
through a `Process**`, the walk that finds the place, the two loops of a tick
(wake-up, reaping), `schedule`, and one lemma per step of the calls.

**`MemoryProofs`, virtual memory**: `MemoryIsolation`, `FrameBooksBalance`,
`LookupsFindTables`. A page can be given a second owner only if the bitmap
forgets a mapped frame, and a frame's last reference is recognised only if its
count is right, so `MemInv` is the conjunction of the three with the types of the
pool, and every loop keeps `at`, `first` and `stop` inside the directory
(`LoopsTyped`). All three speak of the time before `stray`: a table's entries
before `shift` are never taken for its own, because the step that would do so is
the one that sets `stray`. `FailedStackLeaksNothing` (the action property
`DestroyLeaksNoFrame`) adds `StackLoops`: until the directory is destroyed only
the loop that fills it has put pages there, below its position, and the pages it
has put there are in reach of the roll-back. `MemoryTypeCorrect` adds the types of
regions and owners.

**`MemoryProofs`, heap**: for any number of contexts `ChunksStayDisjoint` and
`BlocksFit`, which names its exception (`Asked`): a request whose rounding wraps to 0.
`HeapInv` keeps a frontier: the list of large chunks has at most one
chunk, which lies above all others, and every new chunk is cut from its start, by
the one context that holds `large_lock`. `BlocksStayExclusive` and
`NoChunkEverLost` are proved for one context, since with two they are false (run
`heap_race`): each free list enumerates, once each, exactly the chunks of its
class that nobody owns and no call has in hand (`ListInv`), so following the
`next` fields reaches all of them, by induction along the list and the pigeonhole
principle.

**`IdeDiskProofs`**: `ReadsSeeWrites` and `SearchTakesReadyDrive`. `IdeInv`: the
lock excludes, and, as long as the driver has met nothing it does not handle
(`unhandled`), the drive works on the sector and operation of the context that
holds the lock (`DriveFollows`) and the disk holds what was written except for
the sector being stored (`DiskAgrees`). The interrupt handler may reset an idle
drive at any time; it disturbs only a context between address and command, and then
sets `unhandled`.

**`ShellProofs`**: `RingIsQueue`, the refinement of the FIFO queue under the
mapping `queue <- Pending` (the characters from `buffer_start` to `buffer_end`,
modulo the size); `ModifiersDoNotStick`; `KeyboardTypeCorrect`;
`ShellTypeCorrect`; `ScreenShowsTheLine`; `ArgumentsAreWords`. The screen needs
more than what is visible: the prompt begins at the start of a row (`Shows`), or
a scroll could cut off its first characters although prompt and line fit the
screen, and every cell from the cursor on is blank (`OnScreen`), which every
character printed keeps. `ArgumentsAreWords` counts: after `k` calls of `strtok`
the arguments are the first `k` words, and no word goes across the saved
position. Assumed: the prompt has no control characters, and prompt, longest line
and cursor fit the screen.

**`SystemProofs`**: for the file layer `InodesStayOwned`,
`RegularFilesStayIntact`, `MountTableAgrees`, `DeepestMountWins`; for start-up
and installer `SystemTypeCorrect`, `DevicesStayLive`, `KeyboardStaysWired`,
`MountsStayRestored`. `VfsInv` has a part per table: mount paths are distinct
(otherwise an unmount leaves a second entry), every open descriptor has an inode
of its own, and every operation table has one inode (`TablesOwned`), so that a
close frees nothing another descriptor uses. `SystemInv` adds what is true by the
step of `kernel_main` and of the installer that comes next: which devices and
drivers exist, and exactly which file systems are mounted (`MountsAre`). Assumed:
the mount points of start-up and installer are possible ones, and the tables have
room for the two file systems and devices that start-up always registers.

**`RBTreeProofs`**: `SearchTreeHolds`, `BalancedHolds` and `LookupsCorrectHolds`,
from the inductive invariant `RedBlack` (theorem `StaysRedBlack`). The properties
speak of parent pointers and counts of black ancestors, which no rotation keeps in
a visible way; `RedBlack` instead says that there is a function `sub` from nodes to
the sets of nodes below them for which the pointers form one tree (`Shape`) in
search order (`Sorted`), and a function giving every node the number of black
nodes on each way down from it (`Colored`). The argument follows the code:

* *Rotations and mirror images.* Every fact is stated for one side, with the two
  child pointers and the keys as parameters; the right-hand cases of the code are
  the same facts with the children exchanged and the keys negated.
* *Fix-ups.* Between two iterations the tree is red-black except at one node: after
  an insertion it may be red under a red parent, after a deletion its subtree may
  be one black short. Each case of `rbtree_insert_fixup` and
  `rbtree_delete_fixup` either ends the loop or moves the exception to a node whose
  subtree is larger, so the loops end within `Cardinality(Node)` iterations.
* *Insertion point.* The walk down ends at a node with a free child on the right
  side of the key: every key above it has been compared.
* *Deletion.* A node with one child at most is spliced out. Otherwise the successor
  is spliced out first and then put in the place of the deleted node, which is a
  renaming of that node in a tree that differs nowhere else; the case in which the
  successor is the deleted node's own child, where the code takes a short cut, is
  treated apart.
* *Lookups.* In a search tree the walks of search, minimum and maximum never leave
  the subtree that holds what they look for; the ancestors of a node by the parent
  pointers (`Upward`) are exactly the nodes whose subtree contains it.

Assumed: finitely many nodes, natural-number keys, which may repeat.

**`ProcessTableProofs`**: `TableSafety` (the running process is the current one,
and no other), `TableTerminatedStays`, `TableDispatchIsBest`, of the abstract
table, under `TableParameters`.

Only model-checked is liveness (`SleepersWake`, `ZombiesReaped`,
`EnterIsAnswered`, `CallsReturn`, `ReadsGiveLockBack`, `KernelProgress`): the
prover has no rules for fairness and `ENABLED`. Every invariant, every action
property and both refinements that a passing run checks are proved.

## Not modelled

* GDT, IDT and the registers of PCI and VGA: tables and ports written once; from
  the scan only what a function makes the kernel do.
* Formatting (`printf`, `sprintf`, `atoi`), colours, and the string library except
  `strtok`.
* Saved registers and stacks: a context is a pid.
* The kernel half of the address space, and enabling paging: the call is
  commented out in `kernel.c`.
* ext4's structures on disk: every function that touches them reads a block of
  at least 1024 bytes into 512 bytes or into a structure on the stack.
* File offsets, device reads and writes, and `ioctl`: `vfs_open` cannot reach
  the devices' tables, and ext4's own read is undefined.
* The descriptor tables of the system calls: `get_fd` reads a table per process
  that nothing fills (`alloc_fd` has no caller), so read, write and close fail,
  and what open returns is the global descriptor of `Vfs`.
* `block_dev_read` and `block_dev_write`: `vfs_open` cannot reach them.
* Interrupt context inside the heap: the tick frees stacks of processes that have
  ended and spins for ever when the process it interrupted holds the lock. `Heap`
  has contexts that can be preempted while they spin.

## Plan

Built: processes, memory, keyboard, shell and console, heap, tree, file layer,
disk, start-up and installer, each with its safety properties proved. What would
extend the project, in this order:

1. **Heap inside the tick**: composition of `Heap` with the tick of
   `ProcessManager`, with the freeing of stacks in interrupt context.
2. **Atomicity** of `pfm_allocate_frame` between test and set, should paging be
   enabled.
3. **Sector arithmetic** of `block_dev_read` and `block_dev_write` as a pure
   algorithm against a reference definition, should `vfs_open` reach devices.
