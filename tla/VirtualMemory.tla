---------------------------- MODULE VirtualMemory ----------------------------
(***************************************************************************)
(* The page frame pool and the user half of the page directories of        *)
(* src/kernel/memory/paging.c, driven by the callers the kernel has:       *)
(* create_process (user stack), mmap and munmap (syscall.c), the mapping   *)
(* of device memory, and the page fault handler.                           *)
(*                                                                         *)
(* The loops of vmm_allocate_pages, vmm_map_pages and vmm_free_pages work  *)
(* page by page; one iteration is one step.  Calls of different processes  *)
(* do not overlap: system calls and page faults enter through interrupt    *)
(* gates, and nothing in the kernel starts a user-mode process elsewhere.  *)
(*                                                                         *)
(* A directory entry keeps a page table's address without its low 12 bits  *)
(* (`table >> 12' and `<< 12'), while malloc returns a header's length     *)
(* after the start of a chunk.  The entries the kernel reads and writes    *)
(* therefore start before the table: the first shift[d][t] of them are the *)
(* memory of something else, the others are the table's own.  The first    *)
(* access that leaves the table sets `stray' and ends the model: what      *)
(* happens after it depends on whose memory was hit.                       *)
(***************************************************************************)
EXTENDS Integers, FiniteSets, Sequences

CONSTANTS
  NFrames,        \* frames in the pool
  NPages,         \* user pages of a directory
  TABLE_ENTRIES,  \* pages covered by one page table
  Dir,            \* page directories, one per process
  STACK_PAGES,    \* pages of a user stack
  MaxLen,         \* longest request, in pages
  MaxRegions      \* bound on the memory regions of a process

ASSUME MemoryAssumption ==
  /\ NFrames \in Nat \ {0}
  /\ NPages \in Nat \ {0}
  /\ TABLE_ENTRIES \in Nat \ {0}
  /\ STACK_PAGES \in 1 .. NPages
  /\ MaxLen \in Nat \ {0}
  /\ MaxRegions \in Nat

VARIABLES
  frame_bitmap,     \* frames marked allocated
  free_frames,
  reference_count,
  live,             \* directories in use by a process that can run
  tables,           \* page tables present in each directory
  shift,            \* entries that the truncated address puts before each table
  pte,              \* what each page of each directory maps to
  read_write,       \* the writable bit of each page table entry
  regions,          \* memory_regions of each process, newest first
  op,               \* the loop each process is in
  stray             \* an entry outside a page table was used as an entry

poolVars == <<frame_bitmap, free_frames, reference_count>>
pageVars == <<pte, read_write>>
mapVars  == <<tables, shift, pageVars, stray>>
memVars  == <<poolVars, live, mapVars, regions, op>>

Frame      == 1 .. NFrames
NotPresent == 0
Device     == NFrames + 1   \* a physical address outside the pool
Page       == 0 .. NPages - 1
TableOf(v) == v \div TABLE_ENTRIES
TableIndex == {TableOf(v) : v \in Page}
Slot       == 0 .. TABLE_ENTRIES - 1
SlotOf(v)  == v % TABLE_ENTRIES

\* The pages of a loop are first .. stop - 1 and `at' is the next one.
Idle == [step |-> "idle", caller |-> "none", first |-> 0, stop |-> 0,
         at |-> 0, rw |-> FALSE]
Op   == [step: {"idle", "alloc", "map", "undo", "free"},
         caller: {"none", "stack", "mmap", "device"},
         first: Page, stop: 0 .. NPages, at: 0 .. NPages, rw: BOOLEAN]
Region == [first: Page, stop: 0 .. NPages, rw: BOOLEAN]

MemTypeOK ==
  /\ frame_bitmap \subseteq Frame
  /\ free_frames \in Int
  /\ reference_count \in [Frame -> Int]
  /\ live \subseteq Dir
  /\ tables \in [Dir -> SUBSET TableIndex]
  /\ shift \in [Dir -> [TableIndex -> Slot]]
  /\ pte \in [Dir -> [Page -> {NotPresent, Device} \cup Frame]]
  /\ read_write \in [Dir -> [Page -> BOOLEAN]]
  /\ regions \in [Dir -> Seq(Region)]
  /\ op \in [Dir -> Op]
  /\ stray \in BOOLEAN

MemInit ==
  /\ frame_bitmap = {}
  /\ free_frames = NFrames
  /\ reference_count = [f \in Frame |-> 0]
  /\ live = {}
  /\ tables = [d \in Dir |-> {}]
  /\ shift = [d \in Dir |-> [t \in TableIndex |-> 0]]
  /\ pte = [d \in Dir |-> [v \in Page |-> NotPresent]]
  /\ read_write = [d \in Dir |-> [v \in Page |-> FALSE]]
  /\ regions = [d \in Dir |-> << >>]
  /\ op = [d \in Dir |-> Idle]
  /\ stray = FALSE

-----------------------------------------------------------------------------
(* The frame pool.                                                         *)

FreeFrames == Frame \ frame_bitmap

\* The first clear bit of the bitmap.
FirstFree(f) == f \in FreeFrames /\ \A g \in FreeFrames : f <= g

pfm_allocate_frame(f) ==
  /\ FirstFree(f)
  /\ frame_bitmap' = frame_bitmap \cup {f}
  /\ free_frames' = free_frames - 1
  /\ reference_count' = [reference_count EXCEPT ![f] = @ + 1]

\* Mutant: the free counter is not raised again.
free_forgets_count(f) ==
  IF f \in frame_bitmap
  THEN LET last == reference_count[f] = 1
       IN  /\ reference_count' = [reference_count EXCEPT ![f] = @ - 1]
           /\ frame_bitmap' = IF last THEN frame_bitmap \ {f} ELSE frame_bitmap
           /\ UNCHANGED free_frames
  ELSE UNCHANGED poolVars

\* An address outside the pool, or a frame that is not allocated, is refused.
pfm_free_frame(f) ==
  IF f \in frame_bitmap
  THEN LET last == reference_count[f] = 1
       IN  /\ reference_count' = [reference_count EXCEPT ![f] = @ - 1]
           /\ frame_bitmap' = IF last THEN frame_bitmap \ {f} ELSE frame_bitmap
           /\ free_frames' = IF last THEN free_frames + 1 ELSE free_frames
  ELSE UNCHANGED poolVars

-----------------------------------------------------------------------------
(* One page of one directory.                                              *)

HasTable(d, v) == TableOf(v) \in tables[d]

\* The entry of page v, counted from the truncated address, is inside the table.
OwnSlot(d, v) == SlotOf(v) >= shift[d][TableOf(v)]

\* A new page table: where malloc puts it decides how much is cut off.
NewTable(d, v) ==
  /\ tables' = [tables EXCEPT ![d] = @ \cup {TableOf(v)}]
  /\ \E s \in Slot : shift' = [shift EXCEPT ![d][TableOf(v)] = s]

WriteEntry(d, v, f, rw) ==
  /\ pte' = [pte EXCEPT ![d][v] = f]
  /\ read_write' = [read_write EXCEPT ![d][v] = rw]
  /\ UNCHANGED stray

Stray == stray' = TRUE /\ UNCHANGED pageVars

\* Mutant: a new page table is not entered in the directory.
map_without_table(d, v, f, rw) ==
  WriteEntry(d, v, f, rw) /\ UNCHANGED <<tables, shift>>

\* A page of a missing table gets one first; the entry is then written wherever
\* the address read back from the directory puts it.
pd_map_page(d, v, f, rw) ==
  /\ IF HasTable(d, v) THEN UNCHANGED <<tables, shift>> ELSE NewTable(d, v)
  /\ IF SlotOf(v) >= shift'[d][TableOf(v)] THEN WriteEntry(d, v, f, rw) ELSE Stray

\* Mutant: the frame is freed and its entry stays present.
unmap_keeps_entry(d, v) ==
  /\ pfm_free_frame(pte[d][v])
  /\ UNCHANGED mapVars

\* An entry before the table is somebody else's word: it may look absent, or be
\* cleared and its address freed.
pd_unmap_page(d, v) ==
  /\ UNCHANGED <<tables, shift>>
  /\ IF OwnSlot(d, v)
     THEN pfm_free_frame(pte[d][v]) /\ WriteEntry(d, v, NotPresent, FALSE)
     ELSE UNCHANGED poolVars /\ (Stray \/ UNCHANGED <<pageVars, stray>>)

-----------------------------------------------------------------------------
(* The loops.                                                              *)

\* The requests: `len' pages from `first', at most MaxLen and inside the half.
Ranges == {r \in Page \X (1 .. NPages) : r[1] < r[2] /\ r[2] - r[1] <= MaxLen}

\* No call is in progress.
Calm == \A d \in Dir : op[d].step = "idle"

Start(d, step, caller, r, rw) ==
  /\ Calm
  /\ op' = [op EXCEPT ![d] = [step |-> step, caller |-> caller, first |-> r[1],
                              stop |-> r[2], at |-> r[1], rw |-> rw]]

\* create_process of a user-mode process: pd_create, then the user stack, which
\* lies at the end of the user half.
CreateStack(d) ==
  /\ d \notin live
  /\ tables[d] = {}
  /\ live' = live \cup {d}
  /\ Start(d, "alloc", "stack", <<NPages - STACK_PAGES, NPages>>, TRUE)
  /\ UNCHANGED <<poolVars, mapVars, regions>>

\* mmap: anonymous memory and files are allocated at once.
mmap(d, r, rw) ==
  /\ d \in live
  /\ Len(regions[d]) < MaxRegions
  /\ Start(d, "alloc", "mmap", r, rw)
  /\ UNCHANGED <<poolVars, live, mapVars, regions>>

\* munmap; the region stays on the process's list.
munmap(d, r) ==
  /\ d \in live
  /\ Start(d, "free", "mmap", r, FALSE)
  /\ UNCHANGED <<poolVars, live, mapVars, regions>>

vmm_map_pages(d, r) ==
  /\ d \in live
  /\ Start(d, "map", "device", r, TRUE)
  /\ UNCHANGED <<poolVars, live, mapVars, regions>>

\* In an iteration of one of the loops of d.
In(d, steps) == op[d].step \in steps /\ op[d].at < op[d].stop
Ended(d, steps) == op[d].step \in steps /\ op[d].at = op[d].stop

\* Mutant: the loops count half pages for pages.
AdvanceTwo(d) == op' = [op EXCEPT ![d].at = @ + 2]

Advance(d) == op' = [op EXCEPT ![d].at = @ + 1]

\* Mutant: the roll-back forgets the first page.
RollBackButFirst(d) ==
  op' = [op EXCEPT ![d].step = "undo", ![d].stop = op[d].at,
                   ![d].at = IF op[d].at = op[d].first THEN @ ELSE op[d].first + 1]

\* A failed iteration turns to unmapping the pages before it.
RollBack(d) ==
  op' = [op EXCEPT ![d].step = "undo", ![d].stop = op[d].at, ![d].at = op[d].first]

\* An iteration of vmm_allocate_pages that gets a frame and a page table.  A
\* page that is already mapped is overwritten.
AllocPage(d) ==
  /\ In(d, {"alloc"})
  /\ \E f \in Frame : pfm_allocate_frame(f) /\ pd_map_page(d, op[d].at, f, op[d].rw)
  /\ Advance(d)
  /\ UNCHANGED <<live, regions>>

\* No frame is left, or the page table the page needs cannot be allocated (the
\* frame just taken then goes back).
AllocPageFails(d) ==
  /\ In(d, {"alloc"})
  /\ FreeFrames = {} \/ ~HasTable(d, op[d].at)
  /\ RollBack(d)
  /\ UNCHANGED <<poolVars, live, mapVars, regions>>

\* An iteration of vmm_map_pages on memory outside the pool.
MapPage(d) ==
  /\ In(d, {"map"})
  /\ \/ pd_map_page(d, op[d].at, Device, op[d].rw) /\ Advance(d)
     \/ ~HasTable(d, op[d].at) /\ RollBack(d) /\ UNCHANGED mapVars
  /\ UNCHANGED <<poolVars, live, regions>>

\* An iteration of vmm_free_pages or of a roll-back loop.
UnmapPage(d) ==
  /\ In(d, {"undo", "free"})
  /\ pd_unmap_page(d, op[d].at)
  /\ Advance(d)
  /\ UNCHANGED <<live, regions>>

\* vmm_allocate_pages returned 0: the region is recorded.  If the record cannot
\* be allocated, mmap frees the pages again and create_process carries on.
AllocReturns(d) ==
  /\ Ended(d, {"alloc"})
  /\ \/ /\ regions' = [regions EXCEPT ![d] =
              <<[first |-> op[d].first, stop |-> op[d].stop, rw |-> op[d].rw]>> \o @]
        /\ op' = [op EXCEPT ![d] = Idle]
     \/ /\ op' = [op EXCEPT ![d] = IF @.caller = "stack" THEN Idle
                     ELSE [@ EXCEPT !.step = "free", !.at = op[d].first]]
        /\ UNCHANGED regions
  /\ UNCHANGED <<poolVars, live, mapVars>>

\* The tables are freed under the addresses the directory gives for them.
pd_destroy(d) ==
  IF \A t \in tables[d] : shift[d][t] = 0
  THEN /\ tables' = [tables EXCEPT ![d] = {}]
       /\ pte' = [pte EXCEPT ![d] = [v \in Page |-> NotPresent]]
       /\ read_write' = [read_write EXCEPT ![d] = [v \in Page |-> FALSE]]
       /\ UNCHANGED <<shift, stray>>
  ELSE Stray /\ UNCHANGED <<tables, shift>>

\* The call failed and is rolled back: mmap and vmm_map_pages return -1,
\* create_process also destroys the directory with its page tables.
UndoReturns(d) ==
  /\ Ended(d, {"undo"})
  /\ op' = [op EXCEPT ![d] = Idle]
  /\ IF op[d].caller = "stack"
     THEN live' = live \ {d} /\ pd_destroy(d)
     ELSE UNCHANGED <<live, mapVars>>
  /\ UNCHANGED <<poolVars, regions>>

LoopReturns(d) ==
  /\ Ended(d, {"free", "map"})
  /\ op' = [op EXCEPT ![d] = Idle]
  /\ UNCHANGED <<poolVars, live, mapVars, regions>>

-----------------------------------------------------------------------------
(* page_fault_handler, for a fault of user code.  The error code and the   *)
(* address are the processor's, which walks from the address in CR3; that  *)
(* loses the low bits of the directory's address as well (pd_switch), so   *)
(* nothing relates them to what the directory says.  A fault in the kernel *)
(* stops the machine.                                                      *)

\* The newest region that holds page v.
RegionAt(d, v, k) ==
  /\ v >= regions[d][k].first /\ v < regions[d][k].stop
  /\ \A j \in 1 .. k - 1 : v < regions[d][j].first \/ v >= regions[d][j].stop

Faults(d) == d \in live /\ Calm

\* Bit 0 clear and a write, the handler's copy on write: a present read-only
\* page gets a frame of its own.
FaultCopies(d, v) ==
  /\ Faults(d)
  /\ HasTable(d, v)
  /\ IF OwnSlot(d, v)
     THEN /\ pte[d][v] # NotPresent /\ ~read_write[d][v]
          /\ \E f \in Frame : pfm_allocate_frame(f) /\ WriteEntry(d, v, f, TRUE)
     ELSE Stray /\ UNCHANGED poolVars
  /\ UNCHANGED <<tables, shift, live, regions, op>>

\* Bit 0 set, which the handler takes for "not present": a page inside a region
\* gets a new zeroed frame, whatever it maps now.
FaultRemaps(d, v) ==
  /\ Faults(d)
  /\ \E k \in DOMAIN regions[d] : RegionAt(d, v, k) /\
       \E f \in Frame : pfm_allocate_frame(f) /\ pd_map_page(d, v, f, regions[d][k].rw)
  /\ UNCHANGED <<live, regions, op>>

\* Everything else ends the process.  Its directory, frames and regions are
\* never given back, and neither is a frame taken for a page whose table could
\* not be allocated.
FaultKills(d, v, bit0, write) ==
  /\ Faults(d)
  /\ IF bit0
     THEN LET in_region == \E k \in DOMAIN regions[d] : RegionAt(d, v, k)
          IN  \/ (~in_region \/ FreeFrames = {}) /\ UNCHANGED poolVars
              \/ /\ in_region /\ ~HasTable(d, v)
                 /\ \E f \in Frame : pfm_allocate_frame(f)
     ELSE /\ \/ ~write \/ ~HasTable(d, v) \/ ~OwnSlot(d, v)
             \/ pte[d][v] = NotPresent \/ read_write[d][v] \/ FreeFrames = {}
          /\ UNCHANGED poolVars
  /\ live' = live \ {d}
  /\ UNCHANGED <<mapVars, regions, op>>

MemNext ==
  /\ ~stray
  /\ \E d \in Dir :
       \/ CreateStack(d)
       \/ \E r \in Ranges, rw \in BOOLEAN : mmap(d, r, rw)
       \/ \E r \in Ranges : munmap(d, r)
       \/ \E r \in Ranges : vmm_map_pages(d, r)
       \/ AllocPage(d)
       \/ AllocPageFails(d)
       \/ MapPage(d)
       \/ UnmapPage(d)
       \/ AllocReturns(d)
       \/ UndoReturns(d)
       \/ LoopReturns(d)
       \/ \E v \in Page : FaultCopies(d, v)
       \/ \E v \in Page : FaultRemaps(d, v)
       \/ \E v \in Page, bit0, write \in BOOLEAN : FaultKills(d, v, bit0, write)

MemSpec == MemInit /\ [][MemNext]_memVars

-----------------------------------------------------------------------------
(* What the memory manager promises as long as no entry outside a page     *)
(* table has been used.                                                    *)

\* The bitmap, the free counter and the reference counts describe the same set
\* of frames after any sequence of allocations, frees, roll-backs and faults.
FrameAccounting ==
  stray \/
  /\ free_frames = NFrames - Cardinality(frame_bitmap)
  /\ \A f \in Frame : reference_count[f] = IF f \in frame_bitmap THEN 1 ELSE 0

\* Memory isolation: a frame of the pool is mapped by at most one page of one
\* directory, and never while the pool considers it free.
Isolation ==
  stray \/
  \A d \in Dir, v \in Page : pte[d][v] \in Frame =>
    /\ pte[d][v] \in frame_bitmap
    /\ \A e \in Dir, w \in Page : pte[e][w] = pte[d][v] => e = d /\ w = v

\* A present entry lies in a page table that the directory holds, and inside the
\* memory that malloc gave for it: no lookup that finds a page has followed a
\* table that was never allocated or was given back, or read a word before it.
TablesCoverPages ==
  stray \/
  \A d \in Dir, v \in Page : pte[d][v] # NotPresent => HasTable(d, v) /\ OwnSlot(d, v)

\* A failed user stack gives everything back: when create_process destroys the
\* directory, no page of it maps a frame any more (pd_destroy frees no frame).
DestroyLeaksNoFrame ==
  [][\A d \in Dir : Ended(d, {"undo"}) /\ op[d].caller = "stack" /\ op'[d] = Idle =>
       \A v \in Page : pte[d][v] = NotPresent]_memVars
=============================================================================
