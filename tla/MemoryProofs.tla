---------------------------- MODULE MemoryProofs ----------------------------
(***************************************************************************)
(* TLAPS proofs about the kernel's memory: the page frame pool and the     *)
(* page directories, for every number of frames, pages and processes; and  *)
(* the allocator, for every size of the heap and of the classes, with any  *)
(* number of contexts for what the headers say and with one context for    *)
(* what the free lists hold.                                               *)
(***************************************************************************)
EXTENDS Heap, VirtualMemory, NatRecursion, FiniteSetTheorems, SequenceTheorems, TLAPS

-----------------------------------------------------------------------------
(* Page frames and page directories.                                       *)

\* The part of the type invariant that the safety argument needs.
PoolTypes ==
  /\ frame_bitmap \subseteq Frame
  /\ free_frames \in Int
  /\ reference_count \in [Frame -> Int]
  /\ tables \in [Dir -> SUBSET TableIndex]
  /\ shift \in [Dir -> [TableIndex -> Slot]]
  /\ pte \in [Dir -> [Page -> {NotPresent, Device} \cup Frame]]

\* The inductive invariant.  Isolation needs FrameAccounting: a frame leaves the
\* bitmap on its first free only because its count is exactly one; and a new
\* table may be cut anywhere only because TablesCoverPages says that none of its
\* pages was present before.
MemInv == PoolTypes /\ FrameAccounting /\ Isolation /\ TablesCoverPages

LEMMA FramesFinite ==
  ASSUME NEW S \in SUBSET Frame
  PROVE  IsFiniteSet(S) /\ Cardinality(S) \in Nat
<1>1. IsFiniteSet(Frame)
  BY MemoryAssumption, FS_Interval DEF Frame
<1>2. IsFiniteSet(S)
  BY <1>1, FS_Subset
<1> QED BY <1>2, FS_CardinalityType

LEMMA InitInv == MemInit => MemInv
<1> SUFFICES ASSUME MemInit PROVE MemInv
  OBVIOUS
<1>1. PoolTypes
  BY MemoryAssumption DEF MemInit, PoolTypes, NotPresent, Slot
<1>2. FrameAccounting
  BY MemoryAssumption, FS_EmptySet DEF MemInit, FrameAccounting
<1>3. Isolation /\ TablesCoverPages
  BY DEF MemInit, Isolation, TablesCoverPages, NotPresent, Frame
<1> QED BY <1>1, <1>2, <1>3 DEF MemInv

\* Taking a frame keeps the books of the pool, and the frame was nobody's.
LEMMA AllocateKeepsBooks ==
  ASSUME MemInv, ~stray, NEW f \in Frame, pfm_allocate_frame(f)
  PROVE  /\ FrameAccounting'
         /\ frame_bitmap' \subseteq Frame /\ free_frames' \in Int
         /\ reference_count' \in [Frame -> Int]
         /\ \A d \in Dir, v \in Page : pte[d][v] # f
<1>1. f \notin frame_bitmap
  BY DEF pfm_allocate_frame, FirstFree, FreeFrames
<1>2. /\ frame_bitmap' = frame_bitmap \cup {f}
      /\ free_frames' = free_frames - 1
      /\ reference_count' = [reference_count EXCEPT ![f] = @ + 1]
  BY DEF pfm_allocate_frame
<1>3. frame_bitmap' \subseteq Frame /\ free_frames' \in Int
      /\ reference_count' \in [Frame -> Int]
  BY <1>2 DEF MemInv, PoolTypes
<1>4. IsFiniteSet(frame_bitmap) /\ Cardinality(frame_bitmap) \in Nat
  BY FramesFinite DEF MemInv, PoolTypes
<1>5. Cardinality(frame_bitmap') = Cardinality(frame_bitmap) + 1
  BY <1>1, <1>2, <1>4, FS_AddElement
<1>6. free_frames' = NFrames - Cardinality(frame_bitmap')
  <2>1. free_frames = NFrames - Cardinality(frame_bitmap)
    BY Zenon DEF MemInv, FrameAccounting
  <2> QED BY <1>2, <1>4, <1>5, <2>1, MemoryAssumption
<1>7. ASSUME NEW g \in Frame
      PROVE  reference_count'[g] = IF g \in frame_bitmap' THEN 1 ELSE 0
  BY <1>1, <1>2 DEF MemInv, FrameAccounting, PoolTypes
<1>8. \A d \in Dir, v \in Page : pte[d][v] # f
  BY <1>1 DEF MemInv, Isolation
<1> QED BY <1>3, <1>6, <1>7, <1>8 DEF FrameAccounting

\* Giving a frame back keeps the books, and only that frame leaves the bitmap.
LEMMA FreeKeepsBooks ==
  ASSUME MemInv, ~stray, NEW f \in {NotPresent, Device} \cup Frame, pfm_free_frame(f)
  PROVE  /\ FrameAccounting'
         /\ frame_bitmap' = frame_bitmap \ {f} /\ free_frames' \in Int
         /\ reference_count' \in [Frame -> Int]
<1>1. CASE f \notin frame_bitmap
  <2>1. UNCHANGED poolVars
    BY <1>1 DEF pfm_free_frame
  <2>2. frame_bitmap' = frame_bitmap \ {f}
    BY <1>1, <2>1 DEF poolVars
  <2>3. FrameAccounting'
    BY <2>1 DEF poolVars, MemInv, FrameAccounting
  <2> QED BY <2>1, <2>2, <2>3 DEF poolVars, MemInv, PoolTypes
<1>2. CASE f \in frame_bitmap
  <2>1. f \in Frame /\ reference_count[f] = 1
    BY <1>2 DEF MemInv, PoolTypes, FrameAccounting
  <2>2. /\ frame_bitmap' = frame_bitmap \ {f}
        /\ free_frames' = free_frames + 1
        /\ reference_count' = [reference_count EXCEPT ![f] = @ - 1]
    BY <1>2, <2>1 DEF pfm_free_frame
  <2>3. free_frames' \in Int /\ reference_count' \in [Frame -> Int]
    <3>1. free_frames \in Int /\ reference_count \in [Frame -> Int]
      BY DEF MemInv, PoolTypes
    <3>2. free_frames + 1 \in Int /\ reference_count[f] - 1 \in Int
      BY <3>1, <2>1
    <3> QED BY <2>1, <2>2, <3>1, <3>2
  <2>4. IsFiniteSet(frame_bitmap) /\ Cardinality(frame_bitmap) \in Nat
    BY FramesFinite DEF MemInv, PoolTypes
  <2>5. Cardinality(frame_bitmap') = Cardinality(frame_bitmap) - 1
    BY <1>2, <2>2, <2>4, FS_RemoveElement
  <2>6. free_frames' = NFrames - Cardinality(frame_bitmap')
    <3>1. free_frames = NFrames - Cardinality(frame_bitmap)
      BY Zenon DEF MemInv, FrameAccounting
    <3> QED BY <2>2, <2>4, <2>5, <3>1, MemoryAssumption
  <2>7. ASSUME NEW g \in Frame
        PROVE  reference_count'[g] = IF g \in frame_bitmap' THEN 1 ELSE 0
    BY <1>2, <2>1, <2>2 DEF MemInv, FrameAccounting, PoolTypes
  <2> QED BY <2>2, <2>3, <2>6, <2>7 DEF FrameAccounting
<1> QED BY <1>1, <1>2

\* A page entered in its table, with a new table where it had none, keeps the
\* invariant as far as the pool allows.
LEMMA TablesFollow ==
  ASSUME MemInv, ~stray, NEW d \in Dir, NEW v \in Page,
         NEW f \in {NotPresent, Device} \cup Frame, NEW rw, pd_map_page(d, v, f, rw)
  PROVE  /\ tables' \in [Dir -> SUBSET TableIndex] /\ shift' \in [Dir -> [TableIndex -> Slot]]
         /\ pte' \in [Dir -> [Page -> {NotPresent, Device} \cup Frame]]
         /\ TablesCoverPages'
         /\ ~stray' => \A e \in Dir, w \in Page :
                         pte'[e][w] = IF e = d /\ w = v THEN f ELSE pte[e][w]
<1>0. /\ tables \in [Dir -> SUBSET TableIndex] /\ shift \in [Dir -> [TableIndex -> Slot]]
      /\ pte \in [Dir -> [Page -> {NotPresent, Device} \cup Frame]]
      /\ TableOf(v) \in TableIndex
  BY DEF MemInv, PoolTypes, TableIndex
<1>1. ASSUME NewTable(d, v)
      PROVE  /\ tables' = [tables EXCEPT ![d] = @ \cup {TableOf(v)}]
             /\ \E s \in Slot : shift' = [shift EXCEPT ![d] = [shift[d] EXCEPT ![TableOf(v)] = s]]
  BY <1>1 DEF NewTable
<1>2. tables' \in [Dir -> SUBSET TableIndex] /\ shift' \in [Dir -> [TableIndex -> Slot]]
  <2>1. CASE HasTable(d, v)
    BY <1>0, <2>1 DEF pd_map_page
  <2>2. CASE ~HasTable(d, v)
    <3>1. NewTable(d, v)
      BY <2>2 DEF pd_map_page
    <3>2. PICK s \in Slot : shift' = [shift EXCEPT ![d] = [shift[d] EXCEPT ![TableOf(v)] = s]]
      BY <1>1, <3>1
    <3>3. [shift[d] EXCEPT ![TableOf(v)] = s] \in [TableIndex -> Slot]
      BY <1>0
    <3> QED BY <1>0, <1>1, <3>1, <3>2, <3>3
  <2> QED BY <2>1, <2>2
<1>3. \/ stray' /\ pte' = pte
      \/ /\ SlotOf(v) >= shift'[d][TableOf(v)] /\ stray' = stray
         /\ pte' = [pte EXCEPT ![d] = [pte[d] EXCEPT ![v] = f]]
  BY DEF pd_map_page, WriteEntry, Stray, pageVars
<1>4. pte' \in [Dir -> [Page -> {NotPresent, Device} \cup Frame]]
  <2>1. [pte[d] EXCEPT ![v] = f] \in [Page -> {NotPresent, Device} \cup Frame]
    BY <1>0
  <2>2. CASE pte' = pte
    BY <1>0, <2>2
  <2>3. CASE pte' = [pte EXCEPT ![d] = [pte[d] EXCEPT ![v] = f]]
    BY <1>0, <2>1, <2>3
  <2> QED BY <1>3, <2>2, <2>3
<1>5. ~stray' => \A e \in Dir, w \in Page :
                   pte'[e][w] = IF e = d /\ w = v THEN f ELSE pte[e][w]
  BY <1>0, <1>3
<1>6. ASSUME ~stray', NEW e \in Dir, NEW w \in Page, pte'[e][w] # NotPresent
      PROVE  TableOf(w) \in tables'[e] /\ SlotOf(w) >= shift'[e][TableOf(w)]
  <2>0. TableOf(w) \in TableIndex
    BY DEF TableIndex
  <2>1. CASE e = d /\ w = v
    <3>1. SlotOf(v) >= shift'[d][TableOf(v)]
      BY <1>3, <1>6
    <3>2. TableOf(v) \in tables'[d]
      BY <1>0, <1>1 DEF pd_map_page, HasTable
    <3> QED BY <2>1, <3>1, <3>2
  <2>2. CASE ~(e = d /\ w = v)
    <3>1. pte[e][w] # NotPresent
      BY <1>5, <1>6, <2>2
    <3>2. TableOf(w) \in tables[e] /\ SlotOf(w) >= shift[e][TableOf(w)]
      BY <3>1 DEF MemInv, TablesCoverPages, HasTable, OwnSlot
    <3>3. CASE HasTable(d, v)
      BY <3>2, <3>3 DEF pd_map_page
    <3>4. CASE ~HasTable(d, v)
      <4>1. NewTable(d, v) /\ ~(e = d /\ TableOf(w) = TableOf(v))
        BY <3>2, <3>4 DEF pd_map_page, HasTable
      <4>2. tables'[e] = IF e = d THEN tables[d] \cup {TableOf(v)} ELSE tables[e]
        BY <1>0, <1>1, <4>1
      <4>3. shift'[e][TableOf(w)] = shift[e][TableOf(w)]
        BY <1>0, <1>1, <2>0, <4>1
      <4> QED BY <3>2, <4>2, <4>3
    <3> QED BY <3>3, <3>4
  <2> QED BY <2>1, <2>2
<1>7. TablesCoverPages'
  BY <1>6 DEF TablesCoverPages, HasTable, OwnSlot
<1> QED BY <1>2, <1>4, <1>5, <1>7

\* A fresh frame mapped at any page keeps the invariant.
LEMMA MapFreshFrame ==
  ASSUME MemInv, ~stray, NEW d \in Dir, NEW v \in Page, NEW f \in Frame, NEW rw,
         pfm_allocate_frame(f), pd_map_page(d, v, f, rw)
  PROVE  MemInv'
<1>1. frame_bitmap' = frame_bitmap \cup {f}
  BY DEF pfm_allocate_frame
<1>2. PoolTypes'
  BY <1>1, AllocateKeepsBooks, TablesFollow DEF PoolTypes
<1>3. ~stray' => \A e \in Dir, w \in Page :
                   pte'[e][w] = IF e = d /\ w = v THEN f ELSE pte[e][w]
  BY TablesFollow
<1>4. Isolation'
  BY <1>1, <1>3, AllocateKeepsBooks DEF Isolation, MemInv
<1> QED BY <1>2, <1>4, AllocateKeepsBooks, TablesFollow DEF MemInv

LEMMA MapDevice ==
  ASSUME MemInv, ~stray, NEW d \in Dir, NEW v \in Page, NEW rw,
         pd_map_page(d, v, Device, rw), UNCHANGED poolVars
  PROVE  MemInv'
<1>1. PoolTypes'
  BY TablesFollow DEF PoolTypes, MemInv, poolVars
<1>2. ~stray' => \A e \in Dir, w \in Page :
                   pte'[e][w] = IF e = d /\ w = v THEN Device ELSE pte[e][w]
  BY TablesFollow
<1>3. Device \notin Frame
  BY MemoryAssumption DEF Device, Frame
<1>4. Isolation'
  BY <1>2, <1>3 DEF Isolation, MemInv, poolVars
<1>5. FrameAccounting'
  BY DEF MemInv, FrameAccounting, poolVars
<1> QED BY <1>1, <1>4, <1>5, TablesFollow DEF MemInv

\* A frame written over the entry of a page that is present already.
LEMMA CopyKeepsInv ==
  ASSUME MemInv, ~stray, NEW d \in Dir, NEW v \in Page, FaultCopies(d, v)
  PROVE  MemInv'
<1>1. CASE OwnSlot(d, v)
  <2>1. PICK f \in Frame : pfm_allocate_frame(f) /\ WriteEntry(d, v, f, TRUE)
    BY <1>1 DEF FaultCopies
  <2>2. HasTable(d, v) /\ tables' = tables /\ shift' = shift
    BY DEF FaultCopies
  <2>3. pd_map_page(d, v, f, TRUE)
    BY <1>1, <2>1, <2>2 DEF pd_map_page, OwnSlot
  <2> QED BY <2>1, <2>3, MapFreshFrame
<1>2. CASE ~OwnSlot(d, v)
  BY <1>2 DEF FaultCopies, Stray, pageVars, poolVars, MemInv, PoolTypes, FrameAccounting,
              Isolation, TablesCoverPages
<1> QED BY <1>1, <1>2

LEMMA UnmapKeepsInv ==
  ASSUME MemInv, ~stray, NEW d \in Dir, NEW v \in Page, pd_unmap_page(d, v)
  PROVE  /\ MemInv'
         /\ \A e \in Dir, w \in Page :
              pte'[e][w] = IF e = d /\ w = v THEN NotPresent ELSE pte[e][w]
<1>0. pte \in [Dir -> [Page -> {NotPresent, Device} \cup Frame]]
  BY DEF MemInv, PoolTypes
<1>1. CASE OwnSlot(d, v)
  <2> DEFINE f == pte[d][v]
  <2>1. f \in {NotPresent, Device} \cup Frame /\ pfm_free_frame(f)
    BY <1>0, <1>1 DEF pd_unmap_page
  <2>2. /\ FrameAccounting' /\ frame_bitmap' = frame_bitmap \ {f}
        /\ free_frames' \in Int /\ reference_count' \in [Frame -> Int]
    BY <2>1, FreeKeepsBooks
  <2>3. /\ pte' = [pte EXCEPT ![d] = [pte[d] EXCEPT ![v] = NotPresent]]
        /\ tables' = tables /\ shift' = shift /\ stray' = stray
    BY <1>1 DEF pd_unmap_page, WriteEntry
  <2>4. PoolTypes'
    BY <1>0, <2>2, <2>3 DEF PoolTypes, MemInv
  <2>5. \A e \in Dir, w \in Page :
          pte'[e][w] = IF e = d /\ w = v THEN NotPresent ELSE pte[e][w]
    BY <1>0, <2>3
  <2>6. NotPresent \notin Frame
    BY DEF NotPresent, Frame
  <2>7. Isolation'
    BY <2>2, <2>5, <2>6 DEF Isolation, MemInv
  <2>8. TablesCoverPages'
    BY <2>3, <2>5 DEF TablesCoverPages, MemInv, HasTable, OwnSlot
  <2> QED BY <2>2, <2>4, <2>5, <2>7, <2>8 DEF MemInv
<1>2. CASE ~OwnSlot(d, v)
  <2>1. pte[d][v] = NotPresent
    BY <1>2 DEF MemInv, TablesCoverPages
  <2>2. UNCHANGED <<poolVars, tables, shift, pte>> /\ (stray' \/ stray' = stray)
    BY <1>2 DEF pd_unmap_page, Stray, pageVars
  <2>3. MemInv'
    BY <2>2 DEF poolVars, MemInv, PoolTypes, FrameAccounting, Isolation, TablesCoverPages,
                HasTable, OwnSlot
  <2> QED BY <2>1, <2>2, <2>3
<1> QED BY <1>1, <1>2

LEMMA UndoReturnsKeepsInv ==
  ASSUME MemInv, ~stray, NEW d \in Dir, UndoReturns(d)
  PROVE  MemInv'
<1>1. CASE op[d].caller # "stack"
  BY <1>1 DEF UndoReturns, poolVars, mapVars, pageVars, MemInv, PoolTypes, FrameAccounting,
              Isolation, TablesCoverPages, HasTable, OwnSlot
<1>2. CASE op[d].caller = "stack" /\ \A t \in tables[d] : shift[d][t] = 0
  <2>1. /\ tables' = [tables EXCEPT ![d] = {}] /\ shift' = shift /\ stray' = stray
        /\ pte' = [pte EXCEPT ![d] = [v \in Page |-> NotPresent]]
        /\ UNCHANGED poolVars
    BY <1>2 DEF UndoReturns, pd_destroy
  <2>2. \A e \in Dir, w \in Page :
          pte'[e][w] = IF e = d THEN NotPresent ELSE pte[e][w]
    BY <2>1 DEF MemInv, PoolTypes
  <2>3. PoolTypes'
    BY <2>1 DEF PoolTypes, MemInv, poolVars
  <2>4. NotPresent \notin Frame
    BY DEF NotPresent, Frame
  <2>5. Isolation'
    BY <2>1, <2>2, <2>4 DEF Isolation, MemInv, poolVars
  <2>6. TablesCoverPages'
    BY <2>1, <2>2 DEF TablesCoverPages, HasTable, OwnSlot, MemInv, PoolTypes
  <2> QED BY <2>1, <2>3, <2>5, <2>6 DEF MemInv, FrameAccounting, poolVars
<1>3. CASE op[d].caller = "stack" /\ ~(\A t \in tables[d] : shift[d][t] = 0)
  BY <1>3 DEF UndoReturns, pd_destroy, Stray, pageVars, poolVars, MemInv, PoolTypes,
              FrameAccounting, Isolation, TablesCoverPages
<1> QED BY <1>1, <1>2, <1>3

-----------------------------------------------------------------------------
(* The loop of every process stays inside the user half.                   *)

LoopsTyped == op \in [Dir -> Op]

LEMMA NextKeepsLoops == LoopsTyped /\ [MemNext]_memVars => LoopsTyped'
<1> SUFFICES ASSUME LoopsTyped, [MemNext]_memVars
             PROVE  LoopsTyped'
  OBVIOUS
<1> USE DEF LoopsTyped
<1>1. CASE UNCHANGED memVars
  BY <1>1 DEF memVars
<1>2. ASSUME NEW d \in Dir, NEW r \in Ranges \cup {<<NPages - STACK_PAGES, NPages>>},
             NEW rw \in BOOLEAN, NEW s \in {"alloc", "map", "free"}, NEW c \in {"stack", "mmap", "device"},
             Start(d, s, c, r, rw)
      PROVE  op' \in [Dir -> Op]
  <2>1. r[1] \in Page /\ r[2] \in 0 .. NPages /\ r[1] \in 0 .. NPages
    BY MemoryAssumption DEF Ranges, Page
  <2> QED BY <1>2, <2>1 DEF Start, Op
<1>3. ASSUME NEW d \in Dir, Advance(d), op[d].at < op[d].stop
      PROVE  op' \in [Dir -> Op]
  BY <1>3, MemoryAssumption DEF Advance, Op
<1>4. ASSUME NEW d \in Dir, RollBack(d)
      PROVE  op' \in [Dir -> Op]
  <2>1. op[d] \in Op /\ op[d].at \in 0 .. NPages
    BY DEF Op
  <2>2. op[d].first \in 0 .. NPages
    BY <2>1, MemoryAssumption DEF Op, Page
  <2>3. [op[d] EXCEPT !.step = "undo", !.stop = op[d].at, !.at = op[d].first] \in Op
    BY <2>1, <2>2 DEF Op
  <2>4. op' = [op EXCEPT ![d] =
                 [@ EXCEPT !.step = "undo", !.stop = op[d].at, !.at = op[d].first]]
    BY <1>4 DEF RollBack
  <2> QED BY <2>3, <2>4
<1>5. ASSUME NEW d \in Dir, AllocReturns(d) \/ UndoReturns(d) \/ LoopReturns(d)
      PROVE  op' \in [Dir -> Op]
  <2>1. Idle \in Op
    BY MemoryAssumption DEF Idle, Op, Page
  <2>2. op[d] \in Op /\ op[d].first \in 0 .. NPages
    BY MemoryAssumption DEF Op, Page
  <2>3. [op[d] EXCEPT !.step = "free", !.at = op[d].first] \in Op
    BY <2>2 DEF Op
  <2> QED BY <1>5, <2>1, <2>3 DEF AllocReturns, UndoReturns, LoopReturns
<1>6. ASSUME NEW d \in Dir,
             CreateStack(d) \/ \E r \in Ranges, rw \in BOOLEAN :
                                 mmap(d, r, rw) \/ munmap(d, r) \/ vmm_map_pages(d, r)
      PROVE  op' \in [Dir -> Op]
  BY <1>6, <1>2 DEF CreateStack, mmap, munmap, vmm_map_pages
<1>7. ASSUME NEW d \in Dir,
             AllocPage(d) \/ AllocPageFails(d) \/ MapPage(d) \/ UnmapPage(d)
      PROVE  op' \in [Dir -> Op]
  BY <1>7, <1>3, <1>4 DEF AllocPage, AllocPageFails, MapPage, UnmapPage, In
<1>8. ASSUME NEW d \in Dir, NEW v \in Page, NEW b, NEW w,
             FaultCopies(d, v) \/ FaultRemaps(d, v) \/ FaultKills(d, v, b, w)
      PROVE  op' \in [Dir -> Op]
  BY <1>8 DEF FaultCopies, FaultRemaps, FaultKills
<1> QED BY <1>1, <1>5, <1>6, <1>7, <1>8 DEF MemNext

-----------------------------------------------------------------------------
(* One step keeps the invariant.                                           *)

LEMMA UntouchedKeepsInv ==
  ASSUME MemInv, UNCHANGED <<poolVars, mapVars>>
  PROVE  MemInv'
BY DEF poolVars, mapVars, pageVars, MemInv, PoolTypes, FrameAccounting, Isolation,
       TablesCoverPages, HasTable, OwnSlot

LEMMA NextKeepsInv == MemInv /\ LoopsTyped /\ [MemNext]_memVars => MemInv'
<1> SUFFICES ASSUME MemInv, LoopsTyped, [MemNext]_memVars
             PROVE  MemInv'
  OBVIOUS
<1>1. CASE UNCHANGED memVars
  BY <1>1, UntouchedKeepsInv DEF memVars
<1>2. ASSUME NEW d \in Dir, NEW S, In(d, S)
      PROVE  op[d].at \in Page
  BY <1>2, MemoryAssumption DEF LoopsTyped, Op, In, Page
<1>3. ASSUME NEW d \in Dir, NEW r, NEW rw,
             CreateStack(d) \/ mmap(d, r, rw) \/ munmap(d, r) \/ vmm_map_pages(d, r)
      PROVE  MemInv'
  BY <1>3, UntouchedKeepsInv DEF CreateStack, mmap, munmap, vmm_map_pages
<1>4. ASSUME ~stray, NEW d \in Dir, AllocPage(d)
      PROVE  MemInv'
  BY <1>2, <1>4, MapFreshFrame DEF AllocPage
<1>5. ASSUME ~stray, NEW d \in Dir, MapPage(d)
      PROVE  MemInv'
  <2>1. CASE pd_map_page(d, op[d].at, Device, op[d].rw)
    BY <1>2, <1>5, <2>1, MapDevice DEF MapPage
  <2>2. CASE UNCHANGED mapVars
    BY <1>5, <2>2, UntouchedKeepsInv DEF MapPage
  <2> QED BY <1>5, <2>1, <2>2 DEF MapPage
<1>6. ASSUME ~stray, NEW d \in Dir, UnmapPage(d)
      PROVE  MemInv'
  BY <1>2, <1>6, UnmapKeepsInv DEF UnmapPage
<1>7. ASSUME NEW d \in Dir, AllocPageFails(d) \/ AllocReturns(d) \/ LoopReturns(d)
      PROVE  MemInv'
  BY <1>7, UntouchedKeepsInv DEF AllocPageFails, AllocReturns, LoopReturns
<1>8. ASSUME ~stray, NEW d \in Dir, NEW v \in Page, FaultRemaps(d, v)
      PROVE  MemInv'
  BY <1>8, MapFreshFrame DEF FaultRemaps
<1>9. ASSUME ~stray, NEW d \in Dir, NEW v \in Page, NEW b, NEW w, FaultKills(d, v, b, w)
      PROVE  MemInv'
  <2>1. CASE UNCHANGED poolVars
    BY <1>9, <2>1, UntouchedKeepsInv DEF FaultKills
  <2>2. ASSUME NEW f \in Frame, pfm_allocate_frame(f) PROVE MemInv'
    <3>1. /\ FrameAccounting' /\ UNCHANGED mapVars /\ frame_bitmap' = frame_bitmap \cup {f}
          /\ frame_bitmap' \subseteq Frame /\ free_frames' \in Int
          /\ reference_count' \in [Frame -> Int]
      BY <1>9, <2>2, AllocateKeepsBooks DEF FaultKills, pfm_allocate_frame
    <3> QED BY <3>1 DEF mapVars, pageVars, MemInv, PoolTypes, Isolation, TablesCoverPages,
                        HasTable, OwnSlot
  <2> QED BY <1>9, <2>1, <2>2 DEF FaultKills
<1> QED BY <1>1, <1>3, <1>4, <1>5, <1>6, <1>7, <1>8, <1>9, CopyKeepsInv, UndoReturnsKeepsInv
        DEF MemNext

-----------------------------------------------------------------------------
(* The loop that makes a user stack.                                       *)

Mapped(d) == {v \in Page : pte[d][v] # NotPresent}

\* While create_process is in its loop, the new directory maps only pages the loop has
\* been through and, on the way back, only those it has yet to unmap.
StackLoop(d) ==
  op[d].caller = "stack" =>
    \/ /\ op[d].step = "alloc" /\ op[d].first <= op[d].at
       /\ \A v \in Mapped(d) : op[d].first <= v /\ v < op[d].at
    \/ /\ op[d].step = "undo"
       /\ \A v \in Mapped(d) : op[d].at <= v /\ v < op[d].stop

StackLoops == \A d \in Dir : StackLoop(d)

\* What a step of another process leaves alone.
LEMMA StackUntouched ==
  ASSUME NEW e \in Dir, StackLoop(e), op'[e] = op[e], pte'[e] = pte[e]
  PROVE  StackLoop(e)'
BY DEF StackLoop, Mapped

LEMMA StackIterationKeeps ==
  ASSUME MemInv, ~stray, LoopsTyped, NEW d \in Dir, StackLoop(d),
         AllocPage(d) \/ AllocPageFails(d) \/ MapPage(d) \/ UnmapPage(d)
  PROVE  /\ StackLoop(d)'
         /\ \A e \in Dir \ {d} : op'[e] = op[e] /\ pte'[e] = pte[e]
<1>0. /\ op \in [Dir -> Op] /\ pte \in [Dir -> [Page -> {NotPresent, Device} \cup Frame]]
  BY DEF LoopsTyped, MemInv, PoolTypes
<1>1. \A e \in Dir \ {d} : op'[e] = op[e] /\ pte'[e] = pte[e]
  BY <1>0 DEF AllocPage, AllocPageFails, MapPage, UnmapPage, pd_map_page, pd_unmap_page,
              WriteEntry, Stray, Advance, RollBack, mapVars, pageVars
<1>2. /\ op[d].at \in Nat /\ op[d].first \in Nat /\ op[d].stop \in Nat
      /\ \A v \in Page : v \in Nat
  BY <1>0 DEF Op, Page
<1>3. StackLoop(d)'
  <2> SUFFICES ASSUME op'[d].caller = "stack"
               PROVE  \/ /\ op'[d].step = "alloc" /\ op'[d].first <= op'[d].at
                         /\ \A v \in Mapped(d)' : op'[d].first <= v /\ v < op'[d].at
                      \/ /\ op'[d].step = "undo"
                         /\ \A v \in Mapped(d)' : op'[d].at <= v /\ v < op'[d].stop
    BY DEF StackLoop
  <2>1. ASSUME Advance(d)
        PROVE  /\ op'[d].caller = op[d].caller /\ op'[d].step = op[d].step
               /\ op'[d].first = op[d].first /\ op'[d].stop = op[d].stop
               /\ op'[d].at = op[d].at + 1
    BY <1>0, <2>1 DEF Advance, Op
  <2>2. ASSUME RollBack(d)
        PROVE  /\ op'[d].caller = op[d].caller /\ op'[d].step = "undo"
               /\ op'[d].at = op[d].first /\ op'[d].stop = op[d].at
    BY <1>0, <2>2 DEF RollBack, Op
  <2>3. CASE AllocPage(d)
    <3>1. /\ op[d].step = "alloc" /\ op[d].caller = "stack" /\ Advance(d)
          /\ Mapped(d)' \subseteq Mapped(d) \cup {op[d].at}
      <4>1. PICK f : pd_map_page(d, op[d].at, f, op[d].rw)
        BY <2>3 DEF AllocPage
      <4>2. \A v \in Page : v # op[d].at => pte'[d][v] = pte[d][v]
        BY <1>0, <4>1 DEF pd_map_page, WriteEntry, Stray, pageVars
      <4> QED BY <2>1, <2>3, <4>2 DEF AllocPage, In, Mapped
    <3>2. op[d].first <= op[d].at /\ \A v \in Mapped(d) : op[d].first <= v /\ v < op[d].at
      BY <3>1 DEF StackLoop
    <3>3. \A v \in Mapped(d) : v \in Nat
      BY <1>2 DEF Mapped
    <3> QED BY <1>2, <2>1, <3>1, <3>2, <3>3
  <2>4. CASE AllocPageFails(d)
    <3>1. op[d].step = "alloc" /\ op[d].caller = "stack" /\ RollBack(d) /\ Mapped(d)' = Mapped(d)
      BY <2>2, <2>4 DEF AllocPageFails, In, Mapped, mapVars, pageVars
    <3> QED BY <2>2, <3>1 DEF StackLoop
  <2>5. CASE MapPage(d)
    <3>1. op[d].step = "map" /\ op[d].caller = "stack"
      BY <2>1, <2>2, <2>5 DEF MapPage, In
    <3> QED BY <3>1 DEF StackLoop
  <2>6. CASE UnmapPage(d)
    <3>1. /\ op[d].step \in {"undo", "free"} /\ op[d].caller = "stack" /\ Advance(d)
          /\ op[d].at < op[d].stop
      BY <2>1, <2>6 DEF UnmapPage, In
    <3>2. op[d].step = "undo" /\ \A v \in Mapped(d) : op[d].at <= v /\ v < op[d].stop
      BY <3>1 DEF StackLoop
    <3>3. Mapped(d)' = Mapped(d) \ {op[d].at}
      <4>1. op[d].at \in Page
        BY <1>0, <1>2, <3>1, MemoryAssumption DEF Op, Page
      <4>2. \A v \in Page : pte'[d][v] = IF v = op[d].at THEN NotPresent ELSE pte[d][v]
        BY <2>6, <4>1, UnmapKeepsInv DEF UnmapPage
      <4> QED BY <4>2 DEF Mapped
    <3>4. \A v \in Mapped(d) : v \in Nat
      BY <1>2 DEF Mapped
    <3> QED BY <1>2, <2>1, <3>1, <3>2, <3>3, <3>4
  <2> QED BY <2>3, <2>4, <2>5, <2>6
<1> QED BY <1>1, <1>3

LEMMA NextKeepsStacks == MemInv /\ LoopsTyped /\ StackLoops /\ [MemNext]_memVars => StackLoops'
<1> SUFFICES ASSUME MemInv, LoopsTyped, StackLoops, [MemNext]_memVars
             PROVE  StackLoops'
  OBVIOUS
<1>0. /\ op \in [Dir -> Op] /\ pte \in [Dir -> [Page -> {NotPresent, Device} \cup Frame]]
      /\ \A d \in Dir : StackLoop(d)
  BY DEF LoopsTyped, MemInv, PoolTypes, StackLoops
<1>1. CASE UNCHANGED memVars
  BY <1>0, <1>1, StackUntouched DEF memVars, mapVars, pageVars, StackLoops
<1>2. ASSUME NEW d \in Dir, StackLoop(d)',
             \A e \in Dir \ {d} : op'[e] = op[e] /\ pte'[e] = pte[e]
      PROVE  StackLoops'
  BY <1>0, <1>2, StackUntouched DEF StackLoops
<1>3. ASSUME ~stray, NEW d \in Dir, CreateStack(d)
      PROVE  StackLoops'
  <2>1. /\ op'[d].step = "alloc" /\ op'[d].first = op'[d].at /\ pte' = pte
        /\ op'[d].at = NPages - STACK_PAGES
        /\ \A e \in Dir \ {d} : op'[e] = op[e]
    BY <1>0, <1>3 DEF CreateStack, Start, mapVars, pageVars
  <2>2. Mapped(d)' = {}
    BY <1>3, <2>1 DEF CreateStack, Mapped, MemInv, TablesCoverPages, HasTable
  <2>3. NPages - STACK_PAGES \in Nat
    BY MemoryAssumption
  <2>4. StackLoop(d)'
    BY <2>1, <2>2, <2>3 DEF StackLoop
  <2> QED BY <1>2, <2>1, <2>4
<1>4. ASSUME NEW d \in Dir, NEW r \in Ranges, NEW rw,
             mmap(d, r, rw) \/ munmap(d, r) \/ vmm_map_pages(d, r)
      PROVE  StackLoops'
  <2>1. /\ op'[d].caller \in {"mmap", "device"} /\ pte' = pte
        /\ \A e \in Dir \ {d} : op'[e] = op[e]
    BY <1>0, <1>4 DEF mmap, munmap, vmm_map_pages, Start, mapVars, pageVars
  <2>2. StackLoop(d)'
    BY <2>1 DEF StackLoop
  <2> QED BY <1>2, <2>1, <2>2
<1>5. ASSUME ~stray, NEW d \in Dir,
             AllocPage(d) \/ AllocPageFails(d) \/ MapPage(d) \/ UnmapPage(d)
      PROVE  StackLoops'
  BY <1>0, <1>2, <1>5, StackIterationKeeps
<1>6. ASSUME NEW d \in Dir, AllocReturns(d) \/ UndoReturns(d) \/ LoopReturns(d)
      PROVE  StackLoops'
  <2>1. \A e \in Dir \ {d} : op'[e] = op[e] /\ pte'[e] = pte[e]
    BY <1>0, <1>6 DEF AllocReturns, UndoReturns, LoopReturns, pd_destroy, Stray, mapVars, pageVars
  <2>2. op'[d].caller # "stack"
    <3>1. Idle.caller # "stack"
      BY DEF Idle
    <3>2. op[d].caller # "stack" =>
            [op[d] EXCEPT !.step = "free", !.at = op[d].first].caller # "stack"
      BY <1>0 DEF Op
    <3> QED BY <1>0, <1>6, <3>1, <3>2 DEF AllocReturns, UndoReturns, LoopReturns
  <2>3. StackLoop(d)'
    BY <2>2 DEF StackLoop
  <2> QED BY <1>2, <2>1, <2>3
<1>7. ASSUME NEW d \in Dir, NEW v \in Page, NEW b, NEW w,
             FaultCopies(d, v) \/ FaultRemaps(d, v) \/ FaultKills(d, v, b, w)
      PROVE  StackLoops'
  <2>1. /\ op[d].step = "idle" /\ op' = op
        /\ \A e \in Dir \ {d} : pte'[e] = pte[e]
    BY <1>0, <1>7 DEF FaultCopies, FaultRemaps, FaultKills, Faults, Calm, pd_map_page,
                      WriteEntry, Stray, mapVars, pageVars
  <2>2. op'[d].caller # "stack"
    BY <1>0, <2>1 DEF StackLoop
  <2>3. StackLoop(d)'
    BY <2>2 DEF StackLoop
  <2> QED BY <1>2, <2>1, <2>3
<1> QED BY <1>1, <1>3, <1>4, <1>5, <1>6, <1>7 DEF MemNext

-----------------------------------------------------------------------------
(* The theorems.                                                           *)

\* The inductive invariant holds in every reachable state: paging.c keeps the
\* bitmap, the counters, the entries and the page tables consistent.
THEOREM MemoryInvariant == MemSpec => [](MemInv /\ LoopsTyped)
<1>1. MemInit => LoopsTyped
  BY MemoryAssumption DEF MemInit, LoopsTyped, Op, Idle, Page
<1> QED BY <1>1, InitInv, NextKeepsInv, NextKeepsLoops, PTL DEF MemSpec

\* No two pages ever share a frame of the pool, and no mapped frame is handed out
\* again, for any number of processes and any sequence of mmap, munmap, user stacks
\* and faults, until an entry outside a page table is used (paging.c:244).
THEOREM MemoryIsolation == MemSpec => []Isolation
<1>1. MemInv => Isolation
  BY DEF MemInv
<1> QED BY <1>1, MemoryInvariant, PTL

\* free_frames and the reference counts of the pool always match its bitmap.
THEOREM FrameBooksBalance == MemSpec => []FrameAccounting
<1>1. MemInv => FrameAccounting
  BY DEF MemInv
<1> QED BY <1>1, MemoryInvariant, PTL

\* Every present entry lies in a page table the directory holds and in the part of it
\* that the truncated address of paging.c:244 reaches, until an access leaves a table.
THEOREM LookupsFindTables == MemSpec => []TablesCoverPages
<1>1. MemInv => TablesCoverPages
  BY DEF MemInv
<1> QED BY <1>1, MemoryInvariant, PTL

\* A stack that create_process could not finish gives every frame back: when it destroys
\* the directory, the directory maps nothing any more.
THEOREM FailedStackLeaksNothing == MemSpec => DestroyLeaksNoFrame
<1> DEFINE Clean == \A d \in Dir : Ended(d, {"undo"}) /\ op[d].caller = "stack" /\ op'[d] = Idle =>
                      \A v \in Page : pte[d][v] = NotPresent
<1>1. MemInit => StackLoops
  BY DEF MemInit, StackLoops, StackLoop, Idle
<1>2. LoopsTyped /\ StackLoops => Clean
  <2> SUFFICES ASSUME LoopsTyped, StackLoops, NEW d \in Dir, Ended(d, {"undo"}),
                      op[d].caller = "stack", NEW v \in Page, pte[d][v] # NotPresent
               PROVE  FALSE
    OBVIOUS
  <2>1. op[d].step = "undo" /\ op[d].at = op[d].stop /\ op[d].at \in Nat /\ v \in Nat
    BY DEF Ended, LoopsTyped, Op, Page
  <2>2. op[d].at <= v /\ v < op[d].stop
    BY <2>1 DEF StackLoops, StackLoop, Mapped
  <2> QED BY <2>1, <2>2
<1>3. MemInv /\ LoopsTyped /\ StackLoops /\ [MemNext]_memVars => StackLoops' /\ [Clean]_memVars
  BY <1>2, NextKeepsStacks
<1> QED BY <1>1, <1>3, MemoryInvariant, PTL DEF MemSpec, DestroyLeaksNoFrame


\* The rest of the types: what the processes own and which pages may be written.
OwnerTypes ==
  /\ live \subseteq Dir
  /\ read_write \in [Dir -> [Page -> BOOLEAN]]
  /\ regions \in [Dir -> Seq(Region)]
  /\ stray \in BOOLEAN

LEMMA WriteKeepsOwners ==
  ASSUME OwnerTypes, NEW d \in Dir, NEW v \in Page, NEW f, NEW rw \in BOOLEAN,
         WriteEntry(d, v, f, rw) \/ Stray, UNCHANGED <<live, regions>>
  PROVE  OwnerTypes'
<1>1. CASE WriteEntry(d, v, f, rw)
  <2>1. [read_write[d] EXCEPT ![v] = rw] \in [Page -> BOOLEAN]
    BY Zenon DEF OwnerTypes
  <2>2. read_write' = [read_write EXCEPT ![d] = [read_write[d] EXCEPT ![v] = rw]]
    BY <1>1 DEF WriteEntry
  <2>3. read_write' \in [Dir -> [Page -> BOOLEAN]]
    BY <2>1, <2>2 DEF OwnerTypes
  <2> QED BY <1>1, <2>3 DEF WriteEntry, OwnerTypes
<1>2. CASE Stray
  BY <1>2 DEF Stray, pageVars, OwnerTypes
<1> QED BY <1>1, <1>2

LEMMA MapKeepsOwners ==
  ASSUME OwnerTypes, NEW d \in Dir, NEW v \in Page, NEW f, NEW rw \in BOOLEAN,
         pd_map_page(d, v, f, rw), UNCHANGED <<live, regions>>
  PROVE  OwnerTypes'
BY WriteKeepsOwners DEF pd_map_page

LEMMA NextKeepsOwners == OwnerTypes /\ LoopsTyped /\ [MemNext]_memVars => OwnerTypes'
<1> SUFFICES ASSUME OwnerTypes, LoopsTyped, [MemNext]_memVars
             PROVE  OwnerTypes'
  OBVIOUS
<1>1. ASSUME UNCHANGED <<mapVars, regions>>, live' \subseteq Dir PROVE OwnerTypes'
  BY <1>1 DEF mapVars, pageVars, OwnerTypes
<1>2. CASE UNCHANGED memVars
  BY <1>1, <1>2 DEF memVars, OwnerTypes
<1>3. ASSUME NEW d \in Dir PROVE op[d] \in Op /\ op[d].rw \in BOOLEAN
  BY DEF LoopsTyped, Op
<1>4. ASSUME NEW d \in Dir, NEW S, In(d, S) PROVE op[d].at \in Page
  BY <1>4, MemoryAssumption DEF LoopsTyped, Op, In, Page
<1>5. ASSUME NEW d \in Dir, NEW r, NEW rw,
             CreateStack(d) \/ mmap(d, r, rw) \/ munmap(d, r) \/ vmm_map_pages(d, r)
      PROVE  OwnerTypes'
  BY <1>1, <1>5 DEF CreateStack, mmap, munmap, vmm_map_pages, OwnerTypes
<1>6. ASSUME NEW d \in Dir, AllocPage(d) \/ AllocPageFails(d) \/ MapPage(d) \/ LoopReturns(d)
      PROVE  OwnerTypes'
  <2>1. CASE \E f : pd_map_page(d, op[d].at, f, op[d].rw) /\ op[d].at \in Page
    BY <1>3, <1>6, <2>1, MapKeepsOwners
       DEF AllocPage, AllocPageFails, MapPage, LoopReturns
  <2>2. CASE UNCHANGED mapVars
    BY <1>1, <1>6, <2>2 DEF AllocPage, AllocPageFails, MapPage, LoopReturns, OwnerTypes
  <2> QED BY <1>4, <1>6, <2>1, <2>2 DEF AllocPage, AllocPageFails, MapPage, LoopReturns
<1>7. ASSUME NEW d \in Dir, UnmapPage(d) PROVE OwnerTypes'
  <2>1. /\ op[d].at \in Page /\ UNCHANGED <<live, regions>>
        /\ \/ WriteEntry(d, op[d].at, NotPresent, FALSE) \/ Stray
           \/ UNCHANGED <<pageVars, stray>>
    BY <1>4, <1>7 DEF UnmapPage, pd_unmap_page
  <2>2. CASE UNCHANGED <<pageVars, stray>>
    BY <2>1, <2>2 DEF pageVars, OwnerTypes
  <2> QED BY <2>1, <2>2, WriteKeepsOwners
<1>8. ASSUME NEW d \in Dir, AllocReturns(d) PROVE OwnerTypes'
  <2> DEFINE e == [first |-> op[d].first, stop |-> op[d].stop, rw |-> op[d].rw]
  <2>1. e \in Region
    BY <1>3 DEF Op, Region
  <2>2. regions[d] \in Seq(Region)
    BY DEF OwnerTypes
  <2>3. <<e>> \o regions[d] \in Seq(Region)
    <3> HIDE DEF e
    <3>1. <<e>> \in Seq(Region)
      BY <2>1
    <3> QED BY <2>2, <3>1
  <2>4. \/ regions' = [regions EXCEPT ![d] = <<e>> \o regions[d]]
        \/ regions' = regions
    BY <1>8 DEF AllocReturns
  <2>5. regions' \in [Dir -> Seq(Region)]
    <3> HIDE DEF e
    <3> QED BY <2>3, <2>4 DEF OwnerTypes
  <2> QED BY <1>8, <2>5 DEF AllocReturns, OwnerTypes, mapVars, pageVars
<1>9. ASSUME NEW d \in Dir, UndoReturns(d) PROVE OwnerTypes'
  <2>1. CASE op[d].caller # "stack"
    BY <1>1, <1>9, <2>1 DEF UndoReturns, OwnerTypes
  <2>2. CASE op[d].caller = "stack"
    <3>1. /\ live' = live \ {d} /\ regions' = regions
          /\ \/ /\ read_write' = [read_write EXCEPT ![d] = [v \in Page |-> FALSE]]
                /\ stray' = stray
             \/ Stray
      BY <1>9, <2>2 DEF UndoReturns, pd_destroy
    <3>2. [v \in Page |-> FALSE] \in [Page -> BOOLEAN]
      OBVIOUS
    <3>3. CASE Stray
      BY <3>1, <3>3 DEF Stray, pageVars, OwnerTypes
    <3> QED BY <3>1, <3>2, <3>3 DEF OwnerTypes
  <2> QED BY <2>1, <2>2
<1>10. ASSUME NEW d \in Dir, NEW v \in Page, FaultRemaps(d, v)
       PROVE  OwnerTypes'
  <2>1. PICK k \in DOMAIN regions[d] :
          /\ \E f \in Frame : pd_map_page(d, v, f, regions[d][k].rw)
          /\ UNCHANGED <<live, regions>>
    BY <1>10 DEF FaultRemaps
  <2>2. regions[d] \in Seq(Region)
    BY DEF OwnerTypes
  <2>3. regions[d][k] \in Region
    BY <2>2
  <2>4. regions[d][k].rw \in BOOLEAN
    BY <2>3 DEF Region
  <2> QED BY <2>1, <2>4, MapKeepsOwners
<1>11. ASSUME NEW d \in Dir, NEW v \in Page, NEW b, NEW w, FaultKills(d, v, b, w)
       PROVE  OwnerTypes'
  BY <1>1, <1>11 DEF FaultKills, OwnerTypes
<1>12. ASSUME NEW d \in Dir, NEW v \in Page, FaultCopies(d, v)
       PROVE  OwnerTypes'
  <2>1. UNCHANGED <<live, regions>> /\ \E f : WriteEntry(d, v, f, TRUE) \/ Stray
    BY <1>12 DEF FaultCopies
  <2> QED BY <2>1, WriteKeepsOwners
<1> QED BY <1>12, <1>2, <1>5, <1>6, <1>7, <1>8, <1>9, <1>10, <1>11 DEF MemNext

\* The pool, the directories, the memory regions and the loops of paging.c keep their
\* types, for every number of frames, pages and processes.
THEOREM MemoryTypeCorrect == MemSpec => []MemTypeOK
<1>1. MemInit => OwnerTypes
  <2>1. << >> \in Seq(Region)
    OBVIOUS
  <2>2. [v \in Page |-> FALSE] \in [Page -> BOOLEAN]
    OBVIOUS
  <2> QED BY <2>1, <2>2 DEF MemInit, OwnerTypes
<1>2. MemInv /\ LoopsTyped /\ OwnerTypes => MemTypeOK
  BY DEF MemInv, PoolTypes, LoopsTyped, OwnerTypes, MemTypeOK
<1> QED BY <1>1, <1>2, NextKeepsOwners, MemoryInvariant, PTL DEF MemSpec

-----------------------------------------------------------------------------
(* The allocator.                                                          *)

(* The inductive invariant, with any number of contexts.                   *)

Refilling == {"carve", "link", "rest"}
OfSmall   == {"refill", "retry", "pop"} \cup Refilling   \* the steps of a small request

EndOf(a) == a + HDR + chunk[a].size

\* Every chunk of a class has that class's size, and so has the rest of its list.
ListsTyped ==
  /\ \A a \in DOMAIN chunk :
       /\ a \in Nat \ {0}
       /\ chunk[a].size_class # LARGE => chunk[a].size = size_classes[chunk[a].size_class]
       /\ chunk[a].next # NULL => /\ chunk[a].next \in DOMAIN chunk
                                  /\ chunk[chunk[a].next].size_class = chunk[a].size_class
  /\ \A k \in Class : free_lists[k] # NULL => chunk[free_lists[k]].size_class = k

\* The list of large chunks is a frontier: at most one chunk, above all others.
Frontier ==
  /\ Len(large) <= 1
  /\ \A a \in DOMAIN chunk, i \in DOMAIN large : EndOf(a) <= large[i].at

Disjoint == \A a, b \in DOMAIN chunk : a < b => EndOf(a) <= b

HeldFits == \A c \in Ctx : \A h \in held[c] : chunk[h.at].size >= Asked(h.request)

\* What a call knows about the chunk it works on and about its class.
CallOK(r) ==
  /\ r.pc = "alloc" => Asked(r.request) <= r.size
  /\ r.pc \in OfSmall \cup {"alloc"} => r.request \in Requests
  /\ r.pc \in OfSmall \cup {"push"} => r.class # LARGE
  /\ r.pc \in OfSmall \cup {"alloc"} /\ r.class # LARGE =>
       Asked(r.request) <= size_classes[r.class]
  /\ r.pc \in {"pop", "free", "push", "link"} =>
       r.at \in DOMAIN chunk /\ chunk[r.at].size_class = r.class

\* A refill works above all other chunks, with large_lock held and the list of large
\* chunks empty; what it has left to carve fits in what it took.
RefillOK(r) ==
  /\ locks[LARGE] /\ large = << >>
  /\ 0 < r.big /\ r.big <= r.at
  /\ r.at + r.left * (HDR + size_classes[r.class]) <= r.big + REFILL
  /\ r.pc # "rest" => r.left >= 1
  /\ r.pc # "carve" \/ r.at # r.big =>
       r.big \in DOMAIN chunk /\ chunk[r.big].size = size_classes[r.class]
  /\ \A a \in DOMAIN chunk : EndOf(a) <= r.at \/ (r.pc = "link" /\ a = r.at)

CallsOK ==
  /\ \A c \in Ctx : CallOK(call[c])
  /\ \A c \in Ctx : call[c].pc \in Refilling => RefillOK(call[c])
  /\ \A c, d \in Ctx : call[c].pc \in Refilling /\ call[d].pc \in Refilling => c = d

HeapInv ==
  HeapTypeOK /\ ListsTyped /\ Frontier /\ Disjoint /\ HeldFits /\ CallsOK


-----------------------------------------------------------------------------
(* Arithmetic, and the constants.                                          *)

LEMMA HeapParameters ==
  /\ HDR \in Nat \ {0} /\ MIN_ALLOC_SIZE \in Nat \ {0} /\ REFILL \in Nat \ {0}
  /\ HEAP_SIZE \in Nat /\ HEAP_SIZE >= HDR
  /\ SIZE_MOD \in Nat /\ SIZE_MOD > HEAP_SIZE + REFILL
  /\ Len(size_classes) \in Nat /\ LARGE \in Nat /\ LARGE \notin Class
  /\ \A k \in Class : size_classes[k] \in 1 .. REFILL - HDR
  /\ Requests \subseteq 0 .. SIZE_MOD - 1
<1>1. Len(size_classes) \in Nat /\ \A k \in 1 .. Len(size_classes) : size_classes[k] \in 1 .. REFILL - HDR
  BY HeapAssumption, LenProperties, ElementOfSeq
<1> QED BY <1>1, HeapAssumption DEF Class, LARGE

LEMMA DivIs ==
  ASSUME NEW a \in Nat, NEW b \in Nat \ {0}
  PROVE  /\ a \div b \in Nat /\ (a \div b) * b \in Nat
         /\ (a \div b) * b <= a /\ a < (a \div b) * b + b
<1> DEFINE q == a \div b
           r == a % b
<1>1. q \in Nat /\ r \in 0 .. b - 1 /\ a = b * q + r
  OBVIOUS
<1> HIDE DEF q, r
<1>2. b * q \in Nat /\ b * q = q * b
  BY <1>1
<1>3. q * b <= a /\ a < q * b + b
  BY <1>1, <1>2
<1> QED BY <1>1, <1>2, <1>3 DEF q

\* The request rounded up is not smaller than the request, unless it wraps.
LEMMA AlignIsUp ==
  ASSUME NEW n \in 0 .. SIZE_MOD - 1
  PROVE  Align(n) \in Nat /\ Asked(n) \in Nat /\ Asked(n) <= Align(n)
<1> DEFINE m == MIN_ALLOC_SIZE
           w == (n + m - 1) % SIZE_MOD
           up == (w \div m) * m
<1>1. m \in Nat \ {0} /\ n + m - 1 \in Nat /\ SIZE_MOD \in Nat \ {0} /\ n \in Nat
  BY HeapParameters
<1>2. w \in Nat
  BY <1>1
<1>3. n + m - 1 < SIZE_MOD => w = n + m - 1
  BY <1>1
<1> HIDE DEF w
<1>4. up \in Nat /\ w < up + m
  BY <1>1, <1>2, DivIs
<1> HIDE DEF up
<1>5. CASE n > SIZE_MOD - m
  BY <1>4, <1>5 DEF Asked, Align, up, w
<1>6. CASE ~(n > SIZE_MOD - m)
  <2>1. Asked(n) = n
    BY <1>6 DEF Asked
  <2>2. n + m - 1 < SIZE_MOD
    BY <1>1, <1>6
  <2>3. n <= up
    BY <1>1, <1>2, <1>3, <1>4, <2>2
  <2> QED BY <1>1, <1>4, <2>1, <2>3 DEF Align, up, w
<1> QED BY <1>5, <1>6

LEMMA AskedIs == \A n \in Requests : Asked(n) \in Nat
BY AlignIsUp, HeapParameters

\* A refill carves at least one chunk, and no more than fit.
LEMMA RefillCount ==
  ASSUME NEW s \in Nat \ {0}, s <= REFILL
  PROVE  /\ REFILL \div s \in Nat /\ REFILL \div s >= 1
         /\ (REFILL \div s) * s <= REFILL
<1> DEFINE n == REFILL \div s
<1>1. n \in Nat /\ n * s \in Nat /\ n * s <= REFILL /\ REFILL < n * s + s
  BY DivIs, HeapParameters
<1> HIDE DEF n
<1>2. n # 0
  BY <1>1, HeapParameters
<1> QED BY <1>1, <1>2 DEF n

LEMMA MinIs ==
  ASSUME NEW S, S \subseteq Nat, S # {}
  PROVE  Min(S) \in S /\ \A x \in S : Min(S) <= x
<1>1. \E x \in S : \A y \in S : x <= y
  BY LeastNat
<1> QED BY <1>1 DEF Min

LEMMA ClassIs ==
  ASSUME NEW size \in Nat
  PROVE  /\ get_size_class_index(size) \in Class \cup {LARGE}
         /\ get_size_class_index(size) # LARGE =>
              size <= size_classes[get_size_class_index(size)]
<1> DEFINE fit == {k \in Class : size <= size_classes[k]}
<1>1. CASE fit = {}
  BY <1>1 DEF get_size_class_index
<1>2. CASE fit # {}
  <2>1. fit \subseteq Nat
    BY HeapParameters DEF Class
  <2>2. Min(fit) \in fit
    BY <1>2, <2>1, MinIs
  <2> QED BY <1>2, <2>2 DEF get_size_class_index
<1> QED BY <1>1, <1>2

-----------------------------------------------------------------------------
(* Steps that leave the extent of every chunk as it is.                    *)

\* No header is lost, and none changes its size or its class.
Grows ==
  /\ DOMAIN chunk \subseteq DOMAIN chunk'
  /\ \A a \in DOMAIN chunk : /\ chunk'[a].size = chunk[a].size
                             /\ chunk'[a].size_class = chunk[a].size_class

LEMMA CallMoves ==
  ASSUME HeapInv, Grows, NEW c \in Ctx, NEW r \in CallRecord,
         call' = [call EXCEPT ![c] = r], CallOK(r)'
  PROVE  /\ call' \in [Ctx -> CallRecord] /\ call'[c] = r
         /\ \A d \in Ctx : d # c => call'[d] = call[d]
         /\ \A d \in Ctx : CallOK(call[d])'
<1>1. call \in [Ctx -> CallRecord] /\ \A d \in Ctx : CallOK(call[d])
  BY DEF HeapInv, HeapTypeOK, CallsOK
<1>2. \A d \in Ctx : call'[d] = IF d = c THEN r ELSE call[d]
  BY <1>1
<1>3. ASSUME NEW d \in Ctx, d # c PROVE CallOK(call[d])'
  <2>1. call'[d] = call[d] /\ CallOK(call[d])
    BY <1>1, <1>2, <1>3
  <2> QED BY <2>1 DEF CallOK, Grows
<1>4. CallOK(call[c])'
  BY <1>2
<1> QED BY <1>1, <1>2, <1>3, <1>4

LEMMA CalmStep ==
  ASSUME HeapInv, NEW c \in Ctx, NEW r \in CallRecord, call' = [call EXCEPT ![c] = r],
         CallOK(r)', r.pc \notin Refilling,
         Grows, DOMAIN chunk' = DOMAIN chunk, \A a \in DOMAIN chunk : chunk'[a] \in Chunk,
         free_lists' \in [Class -> DOMAIN chunk \cup {NULL}], ListsTyped',
         large' = large,
         locks' \in [Class \cup {LARGE} -> BOOLEAN], locks[LARGE] => locks'[LARGE],
         held' \in [Ctx -> SUBSET [at: DOMAIN chunk, request: Requests]], HeldFits'
  PROVE  HeapInv'
<1>1. /\ call' \in [Ctx -> CallRecord] /\ call'[c] = r
      /\ \A d \in Ctx : d # c => call'[d] = call[d]
      /\ \A d \in Ctx : CallOK(call[d])'
  BY CallMoves
<1>2. \A a \in DOMAIN chunk : EndOf(a)' = EndOf(a)
  BY DEF EndOf, Grows
<1>3. HeapTypeOK'
  BY <1>1 DEF HeapInv, HeapTypeOK
<1>4. Frontier' /\ Disjoint'
  BY <1>2 DEF HeapInv, Frontier, Disjoint
<1>5. ASSUME NEW d \in Ctx, call'[d].pc \in Refilling
      PROVE  d # c /\ call[d].pc \in Refilling /\ RefillOK(call[d])'
  <2>1. d # c /\ call'[d] = call[d]
    BY <1>1, <1>5
  <2>2. RefillOK(call[d])
    BY <1>5, <2>1 DEF HeapInv, CallsOK
  <2> QED BY <1>2, <1>5, <2>1, <2>2 DEF RefillOK, Grows
<1>6. CallsOK'
  BY <1>1, <1>5 DEF CallsOK, HeapInv
<1> QED BY <1>3, <1>4, <1>6 DEF HeapInv

\* The same without a change of the lists.
LEMMA StillStep ==
  ASSUME HeapInv, NEW c \in Ctx, NEW r \in CallRecord, call' = [call EXCEPT ![c] = r],
         CallOK(r), r.pc \notin Refilling, UNCHANGED <<large, free_lists, chunk>>,
         locks' \in [Class \cup {LARGE} -> BOOLEAN], locks[LARGE] => locks'[LARGE],
         \A d \in Ctx : held'[d] \subseteq held[d], DOMAIN held' = Ctx,
         held' = [d \in Ctx |-> held'[d]]
  PROVE  HeapInv'
<1>1. Grows /\ CallOK(r)' /\ ListsTyped'
  BY DEF Grows, CallOK, ListsTyped, HeapInv
<1>2. held' \in [Ctx -> SUBSET [at: DOMAIN chunk, request: Requests]] /\ HeldFits'
  BY DEF HeapInv, HeapTypeOK, HeldFits
<1>3. /\ \A a \in DOMAIN chunk : chunk'[a] \in Chunk
      /\ free_lists' \in [Class -> DOMAIN chunk \cup {NULL}]
  BY DEF HeapInv, HeapTypeOK
<1> QED BY <1>1, <1>2, <1>3, CalmStep

-----------------------------------------------------------------------------
(* One lemma per action.                                                   *)

LEMMA HeapTypes ==
  ASSUME HeapInv, NEW c \in Ctx
  PROVE  /\ call[c] \in CallRecord /\ CallOK(call[c])
         /\ call \in [Ctx -> CallRecord]
         /\ locks \in [Class \cup {LARGE} -> BOOLEAN]
         /\ free_lists \in [Class -> DOMAIN chunk \cup {NULL}]
         /\ \A a \in DOMAIN chunk : chunk[a] \in Chunk /\ a \in Nat \ {0}
         /\ held \in [Ctx -> SUBSET [at: DOMAIN chunk, request: Requests]]
BY DEF HeapInv, HeapTypeOK, CallsOK, ListsTyped

LEMMA DoneIs ==
  /\ Done \in CallRecord /\ CallOK(Done) /\ Done.pc = "idle"
  /\ [Done EXCEPT !.pc = "report"] \in CallRecord
  /\ CallOK([Done EXCEPT !.pc = "report"])
  /\ [Done EXCEPT !.pc = "report"].pc = "report"
BY HeapParameters DEF Done, CallRecord, CallOK, OfSmall, Refilling, NULL

LEMMA MallocKeeps ==
  ASSUME HeapInv, NEW c \in Ctx, NEW request \in Requests, malloc(c, request)
  PROVE  HeapInv'
<1> DEFINE size == Align(request)
           k == get_size_class_index(size)
           r == [Done EXCEPT !.pc = "alloc", !.size = size, !.request = request, !.class = k]
<1>1. Asked(request) \in Nat /\ size \in Nat /\ Asked(request) <= size
  BY HeapParameters, AlignIsUp
<1>2. k \in Class \cup {LARGE} /\ (k # LARGE => size <= size_classes[k])
  BY <1>1, ClassIs
<1> HIDE DEF size, k
<1>3. r \in CallRecord /\ r.pc = "alloc" /\ r.size = size /\ r.request = request /\ r.class = k
  BY <1>1, <1>2 DEF Done, CallRecord, NULL
<1>4. k # LARGE => Asked(request) <= size_classes[k]
  BY <1>1, <1>2, HeapParameters
<1>5. CallOK(r) /\ r.pc \notin Refilling
  BY <1>1, <1>3, <1>4 DEF CallOK, OfSmall, Refilling
<1>6. /\ call' = [call EXCEPT ![c] = r] /\ UNCHANGED <<large, free_lists, chunk, locks, held>>
  BY DEF malloc, size, k
<1> QED BY <1>3, <1>5, <1>6, HeapTypes, StillStep

LEMMA SmallKeeps ==
  ASSUME HeapInv, NEW c \in Ctx, AllocateSmall(c)
  PROVE  HeapInv'
<1> DEFINE k == call[c].class
           r == [call[c] EXCEPT !.at = free_lists[k],
                                !.pc = IF free_lists[k] = NULL THEN "refill" ELSE "pop"]
<1>1. k \in Class /\ call[c].pc = "alloc" /\ free_lists[k] \in Nat
  BY HeapTypes DEF AllocateSmall, CallRecord, NULL
<1>2. r \in CallRecord /\ r.class = k /\ r.request = call[c].request /\ r.at = free_lists[k]
      /\ r.pc = IF free_lists[k] = NULL THEN "refill" ELSE "pop"
  BY <1>1, HeapTypes DEF CallRecord
<1>3. CallOK(r)
  BY <1>1, <1>2, HeapTypes, HeapParameters DEF CallOK, OfSmall, Refilling, HeapInv, ListsTyped
<1>4. /\ call' = [call EXCEPT ![c] = r] /\ UNCHANGED <<large, free_lists, chunk, held>>
  BY HeapTypes DEF AllocateSmall, CallRecord
<1>5. locks' \in [Class \cup {LARGE} -> BOOLEAN] /\ (locks[LARGE] => locks'[LARGE])
  BY <1>1, HeapTypes DEF AllocateSmall, Acquire
<1>6. r.pc \notin Refilling
  BY <1>2 DEF Refilling
<1> HIDE DEF r
<1> QED BY <1>2, <1>3, <1>4, <1>5, <1>6, HeapTypes, StillStep

LEMMA RetryKeeps ==
  ASSUME HeapInv, NEW c \in Ctx, Retry(c)
  PROVE  HeapInv'
<1> DEFINE k == call[c].class
<1>1. k \in Class /\ call[c].pc = "retry" /\ UNCHANGED <<large, free_lists, chunk, held>>
  BY HeapTypes DEF Retry, CallRecord, CallOK, OfSmall
<1>2. CASE free_lists[k] = NULL
  <2>1. UNCHANGED locks /\ call' = [call EXCEPT ![c] = [Done EXCEPT !.pc = "report"]]
    BY <1>2 DEF Retry, Fail
  <2>2. [Done EXCEPT !.pc = "report"].pc \notin Refilling
    BY DoneIs DEF Refilling
  <2> QED BY <1>1, <2>1, <2>2, DoneIs, HeapTypes, StillStep
<1>3. CASE free_lists[k] # NULL
  <2> DEFINE r == [call[c] EXCEPT !.at = free_lists[k], !.pc = "pop"]
  <2>1. free_lists[k] \in Nat
    BY <1>1, HeapTypes DEF NULL
  <2>2. r \in CallRecord /\ r.class = k /\ r.request = call[c].request
        /\ r.at = free_lists[k] /\ r.pc = "pop"
    BY <2>1, HeapTypes DEF CallRecord
  <2>3. CallOK(r)
    BY <1>1, <1>3, <2>2, HeapTypes, HeapParameters
       DEF CallOK, OfSmall, Refilling, HeapInv, ListsTyped
  <2>4. call' = [call EXCEPT ![c] = r]
    BY <1>3, HeapTypes DEF Retry, CallRecord
  <2>5. locks' \in [Class \cup {LARGE} -> BOOLEAN] /\ (locks[LARGE] => locks'[LARGE])
    BY <1>1, <1>3, HeapTypes DEF Retry, Acquire
  <2>6. r.pc \notin Refilling
    BY <2>2 DEF Refilling
  <2> HIDE DEF r
  <2> QED BY <1>1, <2>2, <2>3, <2>4, <2>5, <2>6, HeapTypes, StillStep
<1> QED BY <1>2, <1>3

\* A call that returns without having touched the lists.
LEMMA ReturnKeeps ==
  ASSUME HeapInv, NEW c \in Ctx, Return(c) \/ Fail(c),
         UNCHANGED <<large, free_lists, chunk, locks, held>>
  PROVE  HeapInv'
<1>1. Done.pc \notin Refilling /\ [Done EXCEPT !.pc = "report"].pc \notin Refilling
  BY DoneIs DEF Refilling
<1>2. CASE Return(c)
  <2>1. call' = [call EXCEPT ![c] = Done]
    BY <1>2 DEF Return
  <2> QED BY <1>1, <2>1, DoneIs, HeapTypes, StillStep
<1>3. CASE Fail(c)
  <2>1. call' = [call EXCEPT ![c] = [Done EXCEPT !.pc = "report"]]
    BY <1>3 DEF Fail
  <2> QED BY <1>1, <2>1, DoneIs, HeapTypes, StillStep
<1> QED BY <1>2, <1>3

LEMMA ReportKeeps ==
  ASSUME HeapInv, NEW c \in Ctx, print_memory_status(c)
  PROVE  HeapInv'
<1>1. UNCHANGED <<large, free_lists, chunk, locks, held>> /\ call[c].pc = "report"
  BY DEF print_memory_status
<1>2. CASE Return(c)
  BY <1>1, <1>2, ReturnKeeps
<1>3. CASE call' = [call EXCEPT ![c].left = @ + 1]
  <2> DEFINE r == [call[c] EXCEPT !.left = @ + 1]
  <2>1. r \in CallRecord /\ r.pc = "report"
    BY <1>1, HeapTypes DEF CallRecord
  <2>2. call' = [call EXCEPT ![c] = r]
    BY <1>3, HeapTypes DEF CallRecord
  <2>3. CallOK(r) /\ r.pc \notin Refilling
    BY <2>1 DEF CallOK, OfSmall, Refilling
  <2> HIDE DEF r
  <2> QED BY <1>1, <2>1, <2>2, <2>3, HeapTypes, StillStep
<1> QED BY <1>2, <1>3 DEF print_memory_status

LEMMA FreeKeeps ==
  ASSUME HeapInv, NEW c \in Ctx, NEW h \in held[c], free(c, h)
  PROVE  HeapInv'
<1> DEFINE r == [Done EXCEPT !.pc = "free", !.at = h.at, !.class = chunk[h.at].size_class]
<1>1. h.at \in DOMAIN chunk
  BY HeapTypes
<1>2. h.at \in Nat /\ chunk[h.at].size_class \in Class \cup {LARGE}
  BY <1>1, HeapTypes DEF Chunk
<1>3. r \in CallRecord /\ r.pc = "free" /\ r.at = h.at /\ r.class = chunk[h.at].size_class
  BY <1>2 DEF CallRecord, Done, NULL
<1>4. CallOK(r) /\ r.pc \notin Refilling
  BY <1>1, <1>3 DEF CallOK, OfSmall, Refilling
<1>5. call' = [call EXCEPT ![c] = r] /\ UNCHANGED <<large, free_lists, chunk, locks>>
      /\ held' = [held EXCEPT ![c] = @ \ {h}]
  BY DEF free
<1>6. \A d \in Ctx : held'[d] \subseteq held[d]
  BY <1>5, HeapTypes
<1>7. DOMAIN held' = Ctx /\ held' = [d \in Ctx |-> held'[d]]
  BY <1>5, HeapTypes
<1> HIDE DEF r
<1> QED BY <1>3, <1>4, <1>5, <1>6, <1>7, HeapTypes, StillStep

LEMMA PopKeeps ==
  ASSUME HeapInv, NEW c \in Ctx, Pop(c)
  PROVE  HeapInv'
<1> DEFINE k == call[c].class
           a == call[c].at
           b == [at |-> a, request |-> call[c].request]
<1>1. /\ k \in Class /\ k # LARGE /\ a \in DOMAIN chunk /\ chunk[a].size_class = k
      /\ call[c].request \in Requests /\ Asked(call[c].request) <= size_classes[k]
  BY HeapTypes, HeapParameters DEF Pop, CallOK, OfSmall, Refilling, CallRecord
<1>2. /\ free_lists' = [free_lists EXCEPT ![k] = chunk[a].next]
      /\ held' = [held EXCEPT ![c] = @ \cup {b}]
      /\ locks' = [locks EXCEPT ![k] = FALSE]
      /\ call' = [call EXCEPT ![c] = Done]
      /\ UNCHANGED <<large, chunk>>
  BY DEF Pop, Own, Release, Return
<1>3. /\ chunk[a].next # NULL => /\ chunk[a].next \in DOMAIN chunk
                                 /\ chunk[chunk[a].next].size_class = k
      /\ chunk[a].size = size_classes[k]
  BY <1>1 DEF HeapInv, ListsTyped
<1>4. free_lists' \in [Class -> DOMAIN chunk \cup {NULL}]
  BY <1>1, <1>2, <1>3, HeapTypes
<1>5. ListsTyped'
  BY <1>1, <1>2, <1>3, HeapTypes DEF HeapInv, ListsTyped
<1>6. /\ held' \in [Ctx -> SUBSET [at: DOMAIN chunk, request: Requests]]
      /\ \A d \in Ctx : held'[d] \subseteq held[d] \cup {b}
  BY <1>1, <1>2, HeapTypes
<1>7. HeldFits'
  BY <1>1, <1>2, <1>3, <1>6 DEF HeapInv, HeldFits
<1>8. locks' \in [Class \cup {LARGE} -> BOOLEAN] /\ locks'[LARGE] = locks[LARGE]
  BY <1>1, <1>2, HeapTypes
<1>9. Done \in CallRecord /\ CallOK(Done)' /\ Done.pc \notin Refilling
  BY DoneIs DEF CallOK, OfSmall, Refilling
<1>10. Grows
  BY <1>2 DEF Grows
<1> QED BY <1>2, <1>4, <1>5, <1>6, <1>7, <1>8, <1>9, <1>10, HeapTypes, CalmStep

LEMMA PushKeeps ==
  ASSUME HeapInv, NEW c \in Ctx, Push(c)
  PROVE  HeapInv'
<1> DEFINE k == call[c].class
           a == call[c].at
<1>1. k \in Class /\ k # LARGE /\ a \in DOMAIN chunk /\ chunk[a].size_class = k
  BY HeapTypes DEF Push, CallOK, CallRecord
<1>2. /\ free_lists' = [free_lists EXCEPT ![k] = a]
      /\ locks' = [locks EXCEPT ![k] = FALSE]
      /\ call' = [call EXCEPT ![c] = Done]
      /\ UNCHANGED <<large, chunk, held>>
  BY DEF Push, Release, Return
<1>3. free_lists' \in [Class -> DOMAIN chunk \cup {NULL}]
  BY <1>1, <1>2, HeapTypes
<1>4. ListsTyped'
  BY <1>1, <1>2, HeapTypes DEF HeapInv, ListsTyped
<1>5. HeldFits'
  BY <1>2 DEF HeapInv, HeldFits
<1>6. locks' \in [Class \cup {LARGE} -> BOOLEAN] /\ locks'[LARGE] = locks[LARGE]
  BY <1>1, <1>2, HeapTypes
<1>7. Done \in CallRecord /\ CallOK(Done)' /\ Done.pc \notin Refilling
  BY DoneIs DEF CallOK, OfSmall, Refilling
<1>8. Grows
  BY <1>2 DEF Grows
<1> QED BY <1>2, <1>3, <1>4, <1>5, <1>6, <1>7, <1>8, HeapTypes, CalmStep

LEMMA FreeSmallKeeps ==
  ASSUME HeapInv, NEW c \in Ctx, FreeSmall(c)
  PROVE  HeapInv'
<1> DEFINE k == call[c].class
           a == call[c].at
<1>1. k \in Class /\ k # LARGE /\ a \in DOMAIN chunk /\ chunk[a].size_class = k
  BY HeapTypes DEF FreeSmall, CallOK, CallRecord
<1>2. /\ chunk' = [chunk EXCEPT ![a].next = free_lists[k]]
      /\ UNCHANGED <<large, free_lists, held>>
  BY DEF FreeSmall
<1>3. /\ DOMAIN chunk' = DOMAIN chunk
      /\ \A x \in DOMAIN chunk : x # a => chunk'[x] = chunk[x]
      /\ chunk'[a] = [chunk[a] EXCEPT !.next = free_lists[k]]
  BY <1>1, <1>2
<1>4. free_lists[k] \in Nat
  BY <1>1, HeapTypes DEF NULL
<1>5. /\ chunk'[a] \in Chunk /\ chunk'[a].next = free_lists[k]
      /\ chunk'[a].size = chunk[a].size /\ chunk'[a].size_class = chunk[a].size_class
  BY <1>1, <1>3, <1>4, HeapTypes DEF Chunk
<1>6. Grows /\ \A x \in DOMAIN chunk : chunk'[x] \in Chunk
  BY <1>3, <1>5, HeapTypes DEF Grows
<1>7. free_lists[k] # NULL => /\ free_lists[k] \in DOMAIN chunk
                              /\ chunk[free_lists[k]].size_class = k
  BY <1>1, HeapTypes DEF HeapInv, ListsTyped
<1>8. ListsTyped'
  <2>1. ASSUME NEW x \in DOMAIN chunk'
        PROVE  /\ x \in Nat \ {0}
               /\ chunk'[x].size_class # LARGE =>
                    chunk'[x].size = size_classes[chunk'[x].size_class]
               /\ chunk'[x].next # NULL =>
                    /\ chunk'[x].next \in DOMAIN chunk'
                    /\ chunk'[chunk'[x].next].size_class = chunk'[x].size_class
    <3>1. x \in DOMAIN chunk
      BY <1>3
    <3>2. CASE x = a
      BY <1>1, <1>3, <1>5, <1>6, <1>7, <3>1, <3>2 DEF HeapInv, ListsTyped, Grows
    <3>3. CASE x # a
      BY <1>3, <1>6, <3>1, <3>3 DEF HeapInv, ListsTyped, Grows
    <3> QED BY <3>2, <3>3
  <2>2. ASSUME NEW j \in Class, free_lists'[j] # NULL
        PROVE  chunk'[free_lists'[j]].size_class = j
    <3>1. free_lists[j] \in DOMAIN chunk /\ chunk[free_lists[j]].size_class = j
      BY <1>2, <2>2, HeapTypes DEF HeapInv, ListsTyped
    <3> QED BY <1>2, <1>6, <3>1 DEF Grows
  <2> QED BY <2>1, <2>2 DEF ListsTyped
<1>9. HeldFits'
  BY <1>2, <1>6, HeapTypes DEF HeapInv, HeldFits, Grows
<1>10. locks' \in [Class \cup {LARGE} -> BOOLEAN] /\ locks'[LARGE] = locks[LARGE]
  BY <1>1, HeapTypes DEF FreeSmall, Acquire
<1>11. PICK r \in CallRecord : r = [call[c] EXCEPT !.pc = "push"]
  BY HeapTypes DEF CallRecord
<1>12. /\ call' = [call EXCEPT ![c] = r]
       /\ r.pc = "push" /\ r.at = a /\ r.class = k
  BY <1>11, HeapTypes DEF FreeSmall, Goto, CallRecord
<1>13. CallOK(r)' /\ r.pc \notin Refilling
  BY <1>1, <1>3, <1>5, <1>12 DEF CallOK, OfSmall, Refilling
<1> QED BY <1>2, <1>3, <1>6, <1>8, <1>9, <1>10, <1>11, <1>12, <1>13, HeapTypes, CalmStep

\* Nobody is in a refill while large_lock is free.
LEMMA NoRefill ==
  ASSUME HeapInv, ~locks[LARGE], NEW d \in Ctx
  PROVE  call[d].pc \notin Refilling
BY DEF HeapInv, CallsOK, RefillOK

\* A header written above all others.
LEMMA NewHeader ==
  ASSUME HeapInv, NEW a \in Nat \ {0}, NEW h \in Chunk, chunk' = SetHeader(a, h),
         \A x \in DOMAIN chunk : EndOf(x) <= a,
         h.size_class # LARGE => h.size = size_classes[h.size_class],
         h.next # NULL => h.next \in DOMAIN chunk /\ chunk[h.next].size_class = h.size_class,
         free_lists' = free_lists
  PROVE  /\ Grows /\ a \notin DOMAIN chunk
         /\ DOMAIN chunk' = DOMAIN chunk \cup {a} /\ chunk'[a] = h
         /\ \A x \in DOMAIN chunk : chunk'[x] = chunk[x] /\ EndOf(x)' = EndOf(x)
         /\ \A x \in DOMAIN chunk' : chunk'[x] \in Chunk
         /\ free_lists' \in [Class -> DOMAIN chunk' \cup {NULL}]
         /\ ListsTyped' /\ Disjoint'
<1>1. \A x \in DOMAIN chunk : x \in Nat /\ chunk[x].size \in Nat /\ chunk[x] \in Chunk
  BY HeapParameters DEF HeapInv, HeapTypeOK, ListsTyped, Chunk
<1>2. \A x \in DOMAIN chunk : x < a
  BY <1>1, HeapParameters DEF EndOf
<1>3. a \notin DOMAIN chunk
  BY <1>2
<1>4. /\ DOMAIN chunk' = DOMAIN chunk \cup {a} /\ chunk'[a] = h
      /\ \A x \in DOMAIN chunk : chunk'[x] = chunk[x]
  BY <1>3 DEF SetHeader
<1>5. Grows /\ \A x \in DOMAIN chunk : EndOf(x)' = EndOf(x)
  BY <1>4 DEF Grows, EndOf
<1>6. \A x \in DOMAIN chunk' : chunk'[x] \in Chunk
  BY <1>1, <1>4
<1>7. free_lists' \in [Class -> DOMAIN chunk' \cup {NULL}]
  BY <1>4 DEF HeapInv, HeapTypeOK
<1>8. ListsTyped'
  <2>1. ASSUME NEW x \in DOMAIN chunk'
        PROVE  /\ x \in Nat \ {0}
               /\ chunk'[x].size_class # LARGE =>
                    chunk'[x].size = size_classes[chunk'[x].size_class]
               /\ chunk'[x].next # NULL =>
                    /\ chunk'[x].next \in DOMAIN chunk'
                    /\ chunk'[chunk'[x].next].size_class = chunk'[x].size_class
    <3>1. CASE x = a
      BY <1>4, <3>1
    <3>2. CASE x # a
      BY <1>4, <3>2 DEF HeapInv, ListsTyped
    <3> QED BY <3>1, <3>2
  <2>2. ASSUME NEW j \in Class, free_lists'[j] # NULL
        PROVE  chunk'[free_lists'[j]].size_class = j
    <3>1. free_lists[j] \in DOMAIN chunk /\ chunk[free_lists[j]].size_class = j
      BY <2>2 DEF HeapInv, HeapTypeOK, ListsTyped
    <3> QED BY <1>4, <3>1
  <2> QED BY <2>1, <2>2 DEF ListsTyped
<1>9. Disjoint'
  <2>1. ASSUME NEW x \in DOMAIN chunk', NEW y \in DOMAIN chunk', x < y
        PROVE  EndOf(x)' <= y
    <3>1. x \in DOMAIN chunk
      BY <1>2, <1>1, <1>4, <2>1
    <3> QED BY <1>4, <1>5, <2>1, <3>1 DEF HeapInv, Disjoint
  <2> QED BY <2>1 DEF Disjoint
<1> QED BY <1>3, <1>4, <1>5, <1>6, <1>7, <1>8, <1>9

\* The list of large chunks has at most one element; taking it leaves none.
LEMMA LargeIs ==
  ASSUME HeapInv, NEW i \in DOMAIN large
  PROVE  /\ i = 1 /\ large = <<large[1]>> /\ Without(large, i) = << >>
         /\ large[1] \in [at: Nat \ {0}, size: 0 .. SIZE_MOD - 1]
<1> DEFINE S == [at: Nat \ {0}, size: 0 .. SIZE_MOD - 1]
<1>1. large \in Seq(S) /\ Len(large) <= 1
  BY DEF HeapInv, HeapTypeOK, Frontier
<1> HIDE DEF S
<1>2. Len(large) = 1 /\ i = 1
  <2>1. Len(large) \in Nat /\ DOMAIN large = 1 .. Len(large)
    BY <1>1, LenProperties
  <2> QED BY <1>1, <2>1
<1>3. large = <<large[1]>> /\ large[1] \in S
  <2>1. large[1] \in S
    BY <1>1, <1>2
  <2>2. <<large[1]>> \in Seq(S) /\ Len(<<large[1]>>) = 1 /\ <<large[1]>>[1] = large[1]
    BY <2>1
  <2> QED BY <1>1, <1>2, <2>1, <2>2, SeqEqual
<1>4. Without(large, i) = << >>
  BY <1>2 DEF Without
<1> QED BY <1>2, <1>3, <1>4 DEF S

LEMMA LargeKeeps ==
  ASSUME HeapInv, NEW c \in Ctx, AllocateLarge(c)
  PROVE  HeapInv'
<1> DEFINE size == call[c].size
<1>1. /\ call[c].pc = "alloc" /\ ~locks[LARGE] /\ UNCHANGED <<free_lists, locks>>
      /\ size \in Nat /\ call[c].request \in Requests /\ Asked(call[c].request) <= size
  BY HeapTypes DEF AllocateLarge, CallOK, CallRecord
<1>2. CASE Fail(c) /\ UNCHANGED <<large, chunk, held>>
  BY <1>1, <1>2, ReturnKeeps
<1>3. ASSUME NEW i \in DOMAIN large, BestFit(i, size), large' = Split(i, size).list,
             chunk' = SetHeader(large[i].at, [next |-> NULL, size_class |-> LARGE,
                                              size |-> Split(i, size).size]),
             Own(c, large[i].at), Return(c)
      PROVE  HeapInv'
  <2>b. PICK b : b = large[i]
    OBVIOUS
  <2>s. PICK s : s = Split(i, size).size
    OBVIOUS
  <2> DEFINE h == [next |-> NULL, size_class |-> LARGE, size |-> s]
             o == [at |-> b.at, request |-> call[c].request]
  <2>1. /\ b.at \in Nat \ {0} /\ b.size \in 0 .. SIZE_MOD - 1 /\ size <= b.size
        /\ \A x \in DOMAIN chunk : EndOf(x) <= b.at
    BY <1>3, <2>b, LargeIs DEF BestFit, HeapInv, Frontier
  <2>2. /\ s \in 0 .. SIZE_MOD - 1 /\ size <= s
        /\ \/ large' = << >>
           \/ \E e \in [at: Nat \ {0}, size: 0 .. SIZE_MOD - 1] :
                large' = <<e>> /\ b.at + HDR + s <= e.at
    <3> DEFINE e == [at |-> b.at + HDR + size, size |-> b.size - size - HDR]
    <3>1. CASE b.size < size + HDR + MIN_ALLOC_SIZE
      <4>1. s = b.size /\ large' = << >>
        BY <1>3, <2>b, <2>s, <3>1, LargeIs DEF Split
      <4> QED BY <2>1, <4>1
    <3>2. CASE ~(b.size < size + HDR + MIN_ALLOC_SIZE)
      <4>1. s = size /\ large' = <<e>> \o << >>
        BY <1>3, <2>b, <2>s, <3>2, LargeIs DEF Split
      <4>2. large' = <<e>>
        BY <4>1
      <4>3. /\ b.size - size - HDR \in 0 .. SIZE_MOD - 1 /\ b.at + HDR + size \in Nat \ {0}
            /\ size \in 0 .. SIZE_MOD - 1
        <5> HIDE DEF size
        <5>1. \A t, z, w \in Nat : z < SIZE_MOD /\ ~(z < w + HDR + MIN_ALLOC_SIZE) =>
                /\ z - w - HDR \in 0 .. SIZE_MOD - 1 /\ t + HDR + w \in Nat \ {0}
                /\ w \in 0 .. SIZE_MOD - 1
          BY HeapParameters
        <5>2. b.at \in Nat /\ b.size \in Nat /\ size \in Nat /\ b.size < SIZE_MOD
          BY <1>1, <2>1, HeapParameters
        <5> QED BY <3>2, <5>1, <5>2
      <4>4. e \in [at: Nat \ {0}, size: 0 .. SIZE_MOD - 1] /\ e.at = b.at + HDR + size
        BY <4>3
      <4> HIDE DEF e
      <4>5. b.at + HDR + s <= e.at
        BY <1>1, <2>1, <4>1, <4>4, HeapParameters
      <4> QED BY <1>1, <4>1, <4>2, <4>3, <4>4, <4>5
    <3> QED BY <3>1, <3>2
  <2>3. h \in Chunk /\ h.next = NULL /\ h.size_class = LARGE /\ h.size = s
    BY <2>2 DEF Chunk, NULL
  <2>4. chunk' = SetHeader(b.at, h) /\ held' = [held EXCEPT ![c] = @ \cup {o}]
        /\ call' = [call EXCEPT ![c] = Done]
    BY <1>3, <2>b, <2>s DEF Own, Return
  <2> HIDE DEF h
  <2>5. /\ Grows /\ DOMAIN chunk' = DOMAIN chunk \cup {b.at} /\ chunk'[b.at] = h
        /\ \A x \in DOMAIN chunk : chunk'[x] = chunk[x] /\ EndOf(x)' = EndOf(x)
        /\ \A x \in DOMAIN chunk' : chunk'[x] \in Chunk
        /\ free_lists' \in [Class -> DOMAIN chunk' \cup {NULL}]
        /\ ListsTyped' /\ Disjoint'
    BY <1>1, <2>1, <2>3, <2>4, NewHeader
  <2>6. EndOf(b.at)' = b.at + HDR + s
    BY <2>3, <2>5 DEF EndOf
  <2>7. Frontier' /\ large' \in Seq([at: Nat \ {0}, size: 0 .. SIZE_MOD - 1])
    <3>1. CASE large' = << >>
      BY <3>1 DEF Frontier
    <3>2. ASSUME NEW e \in [at: Nat \ {0}, size: 0 .. SIZE_MOD - 1],
                 large' = <<e>>, b.at + HDR + s <= e.at
          PROVE  Frontier' /\ large' \in Seq([at: Nat \ {0}, size: 0 .. SIZE_MOD - 1])
      <4>1. \A x \in DOMAIN chunk : EndOf(x) \in Nat
        BY HeapTypes, HeapParameters DEF EndOf, Chunk
      <4>2. \A x \in DOMAIN chunk' : EndOf(x)' <= e.at
        BY <2>1, <2>2, <2>5, <2>6, <3>2, <4>1, HeapParameters
      <4> QED BY <3>2, <4>2 DEF Frontier
    <3> QED BY <2>2, <3>1, <3>2
  <2>8. /\ held' \in [Ctx -> SUBSET [at: DOMAIN chunk', request: Requests]]
        /\ \A d \in Ctx : held'[d] \subseteq held[d] \cup {o}
    BY <1>1, <2>4, <2>5, HeapTypes
  <2>9. HeldFits'
    <3>1. ASSUME NEW d \in Ctx, NEW x \in held'[d] PROVE chunk'[x.at].size >= Asked(x.request)
      <4>1. CASE x = o
        <5>1. x.at = b.at /\ x.request = call[c].request /\ chunk'[b.at].size = s
          BY <2>3, <2>5, <4>1
        <5>2. Asked(call[c].request) <= s
          <6>0. s \in 0 .. SIZE_MOD - 1
            BY <2>2
          <6>1. Asked(call[c].request) \in Nat /\ size \in Nat /\ s \in Nat
            <7>1. call[c].request \in Requests /\ size \in Nat
              BY <1>1
            <7>2. s \in Nat
              BY <6>0, HeapParameters
            <7> HIDE DEF size
            <7> QED BY <7>1, <7>2, AskedIs
          <6>2. Asked(call[c].request) <= size /\ size <= s
            BY <1>1, <2>2
          <6> HIDE DEF size
          <6> QED BY <6>1, <6>2
        <5> QED BY <1>1, <2>2, <5>1, <5>2, AskedIs
      <4>2. CASE x \in held[d]
        BY <2>5, <4>2, HeapTypes DEF HeapInv, HeldFits
      <4> QED BY <2>8, <4>1, <4>2
    <3> QED BY <3>1 DEF HeldFits
  <2>10. Done \in CallRecord /\ CallOK(Done)' /\ Done.pc \notin Refilling
    BY DoneIs DEF CallOK, OfSmall, Refilling
  <2>11. /\ call' \in [Ctx -> CallRecord] /\ call'[c] = Done
         /\ \A d \in Ctx : d # c => call'[d] = call[d]
         /\ \A d \in Ctx : CallOK(call[d])'
    BY <2>4, <2>5, <2>10, CallMoves
  <2>12. CallsOK'
    BY <1>1, <2>10, <2>11, NoRefill DEF CallsOK
  <2>13. HeapTypeOK'
    BY <1>1, <2>5, <2>7, <2>8, <2>11, HeapTypes DEF HeapTypeOK
  <2> QED BY <2>5, <2>7, <2>9, <2>12, <2>13 DEF HeapInv
<1> QED BY <1>2, <1>3 DEF AllocateLarge

-----------------------------------------------------------------------------
(* The refill.                                                             *)

\* A refill that moves on: nobody else is in one.
LEMMA RefillMoves ==
  ASSUME HeapInv, NEW c \in Ctx, NEW r \in CallRecord, call' = [call EXCEPT ![c] = r],
         Grows, CallOK(r)', r.pc \in Refilling => RefillOK(r)',
         \A d \in Ctx : d # c => call[d].pc \notin Refilling
  PROVE  call' \in [Ctx -> CallRecord] /\ CallsOK'
<1>1. /\ call' \in [Ctx -> CallRecord] /\ call'[c] = r
      /\ \A d \in Ctx : d # c => call'[d] = call[d]
      /\ \A d \in Ctx : CallOK(call[d])'
  BY CallMoves
<1>2. \A d \in Ctx : call'[d].pc \in Refilling => d = c
  BY <1>1
<1>3. ASSUME NEW d \in Ctx, call'[d].pc \in Refilling PROVE RefillOK(call[d])'
  <2>1. call'[d] = r
    BY <1>1, <1>2, <1>3
  <2> QED BY <1>3, <2>1 DEF RefillOK
<1> QED BY <1>1, <1>2, <1>3 DEF CallsOK

LEMMA RefillerAlone ==
  ASSUME HeapInv, NEW c \in Ctx, call[c].pc \in Refilling
  PROVE  /\ \A d \in Ctx : d # c => call[d].pc \notin Refilling
         /\ RefillOK(call[c]) /\ CallOK(call[c])
         /\ call[c].class \in Class /\ call[c].class # LARGE
         /\ call[c].request \in Requests
         /\ Asked(call[c].request) <= size_classes[call[c].class]
<1>1. /\ \A d \in Ctx : d # c => call[d].pc \notin Refilling
      /\ RefillOK(call[c])
  BY DEF HeapInv, CallsOK
<1> QED BY <1>1, HeapTypes DEF CallOK, OfSmall, CallRecord

LEMMA BeginRefillKeeps ==
  ASSUME HeapInv, NEW c \in Ctx, BeginRefill(c)
  PROVE  HeapInv'
<1> DEFINE big == {i \in DOMAIN large : large[i].size >= REFILL}
           k == call[c].class
           n == REFILL \div (size_classes[k] + HDR)
<1>1. /\ call[c].pc = "refill" /\ UNCHANGED <<free_lists, chunk, held>>
      /\ k \in Class /\ k # LARGE /\ call[c].request \in Requests
      /\ Asked(call[c].request) <= size_classes[k]
  BY HeapTypes DEF BeginRefill, CallOK, OfSmall, CallRecord
<1>2. CASE big = {}
  <2>1. UNCHANGED <<large, locks>> /\ call' = [call EXCEPT ![c].pc = "retry"]
    BY <1>2 DEF BeginRefill, Goto
  <2>2. PICK r \in CallRecord : r = [call[c] EXCEPT !.pc = "retry"]
    BY HeapTypes DEF CallRecord
  <2>3. /\ call' = [call EXCEPT ![c] = r]
        /\ r.pc = "retry" /\ r.class = k /\ r.request = call[c].request
    BY <2>1, <2>2, HeapTypes DEF CallRecord
  <2>4. CallOK(r) /\ r.pc \notin Refilling
    BY <1>1, <2>3 DEF CallOK, OfSmall, Refilling
  <2> QED BY <1>1, <2>1, <2>3, <2>4, HeapTypes, StillStep
<1>3. CASE big # {}
  <2>1. big \subseteq Nat
    BY LargeIs
  <2>2. Min(big) = 1 /\ 1 \in DOMAIN large
    BY <1>3, <2>1, MinIs, LargeIs
  <2>3. PICK a : a = large[1].at
    OBVIOUS
  <2>4. /\ ~locks[LARGE] /\ locks' = [locks EXCEPT ![LARGE] = TRUE]
        /\ large' = << >> /\ a \in Nat \ {0}
        /\ \A x \in DOMAIN chunk : EndOf(x) <= a
    BY <1>3, <2>2, <2>3, LargeIs DEF BeginRefill, Acquire, HeapInv, Frontier
  <2>5. size_classes[k] + HDR \in Nat \ {0} /\ size_classes[k] + HDR <= REFILL
    BY <1>1, HeapParameters
  <2>6. n \in Nat /\ n >= 1 /\ n * (size_classes[k] + HDR) <= REFILL
    BY <2>5, RefillCount
  <2> HIDE DEF n
  <2>7. PICK r \in CallRecord : r = [call[c] EXCEPT !.pc = "carve", !.at = a, !.big = a, !.left = n]
    BY <2>4, <2>6, HeapTypes DEF CallRecord
  <2>8. /\ call' = [call EXCEPT ![c] = r]
        /\ r.pc = "carve" /\ r.at = a /\ r.big = a /\ r.left = n
        /\ r.class = k /\ r.request = call[c].request
    <3>1. call' = [call EXCEPT ![c].pc = "carve", ![c].at = large[Min(big)].at,
                               ![c].big = large[Min(big)].at,
                               ![c].left = IF n = 0 THEN 1 ELSE n]
      BY <1>3 DEF BeginRefill, n
    <3>2. (IF n = 0 THEN 1 ELSE n) = n
      BY <2>6
    <3> HIDE DEF big, k
    <3> QED BY <2>2, <2>3, <2>7, <3>1, <3>2, HeapTypes DEF CallRecord, k
  <2>9. Grows /\ CallOK(r)'
    BY <1>1, <2>8 DEF Grows, CallOK, OfSmall, Refilling
  <2>10. locks' \in [Class \cup {LARGE} -> BOOLEAN] /\ locks'[LARGE]
    BY <2>4, HeapTypes
  <2>11. RefillOK(r)'
    <3>1. r.at + r.left * (HDR + size_classes[r.class]) <= r.big + REFILL
      <4> DEFINE m == n * (size_classes[k] + HDR)
      <4>1. r.left * (HDR + size_classes[r.class]) = m /\ m \in Nat
        BY <2>5, <2>6, <2>8, HeapParameters, <1>1
      <4> HIDE DEF m
      <4>2. m <= REFILL
        BY <2>6 DEF m
      <4> QED BY <2>4, <2>8, <4>1, <4>2, HeapParameters
    <3>2. \A x \in DOMAIN chunk' : EndOf(x)' <= r.at
      BY <1>1, <2>4, <2>8 DEF EndOf
    <3> QED BY <2>4, <2>6, <2>8, <2>10, <3>1, <3>2 DEF RefillOK
  <2>12. call' \in [Ctx -> CallRecord] /\ CallsOK'
    BY <2>4, <2>8, <2>9, <2>11, NoRefill, RefillMoves
  <2>13. HeapTypeOK'
    BY <1>1, <2>4, <2>10, <2>12, HeapTypes DEF HeapTypeOK
  <2>14. ListsTyped' /\ Disjoint' /\ HeldFits' /\ Frontier'
    BY <1>1, <2>4 DEF HeapInv, ListsTyped, Disjoint, HeldFits, Frontier, EndOf
  <2> QED BY <2>12, <2>13, <2>14 DEF HeapInv
<1> QED BY <1>2, <1>3

LEMMA CarveKeeps ==
  ASSUME HeapInv, NEW c \in Ctx, Carve(c)
  PROVE  HeapInv'
<1>k. PICK k : k = call[c].class
  OBVIOUS
<1>a. PICK a : a = call[c].at
  OBVIOUS
<1>f. PICK f : f = free_lists[k]
  OBVIOUS
<1> DEFINE h == [next |-> f, size_class |-> k, size |-> size_classes[k]]
<1>1. call[c].pc = "carve" /\ call[c].pc \in Refilling
  BY DEF Carve, Refilling
<1>2. /\ chunk' = SetHeader(a, h) /\ UNCHANGED <<large, free_lists, locks, held>>
      /\ call' = [call EXCEPT ![c].pc = "link"]
  BY <1>k, <1>a, <1>f DEF Carve, Goto
<1>3. /\ \A d \in Ctx : d # c => call[d].pc \notin Refilling
      /\ RefillOK(call[c]) /\ k \in Class /\ k # LARGE
      /\ call[c].request \in Requests /\ Asked(call[c].request) <= size_classes[k]
  BY <1>1, <1>k, RefillerAlone
<1>4. /\ a \in Nat \ {0} /\ call[c].big \in Nat /\ call[c].left \in Nat
      /\ \A x \in DOMAIN chunk : EndOf(x) <= a
  BY <1>1, <1>3, <1>a, HeapTypes DEF RefillOK, CallRecord
<1>5. /\ f \in DOMAIN chunk \cup {NULL} /\ f \in Nat
      /\ f # NULL => chunk[f].size_class = k
      /\ size_classes[k] \in 0 .. SIZE_MOD - 1
  BY <1>3, <1>f, HeapTypes, HeapParameters DEF HeapInv, ListsTyped, NULL
<1>6. h \in Chunk /\ h.next = f /\ h.size_class = k /\ h.size = size_classes[k]
  BY <1>3, <1>5 DEF Chunk
<1> HIDE DEF h
<1>7. /\ Grows /\ a \notin DOMAIN chunk
      /\ DOMAIN chunk' = DOMAIN chunk \cup {a} /\ chunk'[a] = h
      /\ \A x \in DOMAIN chunk : chunk'[x] = chunk[x] /\ EndOf(x)' = EndOf(x)
      /\ \A x \in DOMAIN chunk' : chunk'[x] \in Chunk
      /\ free_lists' \in [Class -> DOMAIN chunk' \cup {NULL}]
      /\ ListsTyped' /\ Disjoint'
  BY <1>2, <1>4, <1>5, <1>6, NewHeader
<1>8. PICK r \in CallRecord : r = [call[c] EXCEPT !.pc = "link"]
  BY HeapTypes DEF CallRecord
<1>9. /\ call' = [call EXCEPT ![c] = r]
      /\ r.pc = "link" /\ r.at = a /\ r.big = call[c].big /\ r.left = call[c].left
      /\ r.class = k /\ r.request = call[c].request
  BY <1>2, <1>8, <1>k, <1>a, HeapTypes DEF CallRecord
<1>10. CallOK(r)'
  BY <1>3, <1>6, <1>7, <1>9 DEF CallOK, OfSmall, Refilling
<1>11. RefillOK(r)'
  <2>1. r.big \in DOMAIN chunk' /\ chunk'[r.big].size = size_classes[k]
    BY <1>1, <1>3, <1>6, <1>7, <1>9, <1>k, <1>a DEF RefillOK
  <2>2. \A x \in DOMAIN chunk' : EndOf(x)' <= r.at \/ x = r.at
    BY <1>4, <1>7, <1>9
  <2> QED BY <1>1, <1>2, <1>3, <1>9, <1>k, <1>a, <2>1, <2>2 DEF RefillOK
<1>12. call' \in [Ctx -> CallRecord] /\ CallsOK'
  BY <1>3, <1>7, <1>9, <1>10, <1>11, RefillMoves
<1>13. held' \in [Ctx -> SUBSET [at: DOMAIN chunk', request: Requests]] /\ HeldFits'
  BY <1>2, <1>7, HeapTypes DEF HeapInv, HeldFits
<1>14. HeapTypeOK'
  BY <1>2, <1>7, <1>12, <1>13 DEF HeapInv, HeapTypeOK
<1>15. Frontier'
  BY <1>2, <1>3 DEF RefillOK, Frontier
<1> QED BY <1>7, <1>12, <1>13, <1>14, <1>15 DEF HeapInv

LEMMA LinkKeeps ==
  ASSUME HeapInv, NEW c \in Ctx, Link(c)
  PROVE  HeapInv'
<1>k. PICK k : k = call[c].class
  OBVIOUS
<1>a. PICK a : a = call[c].at
  OBVIOUS
<1>n. PICK n : n = call[c].left
  OBVIOUS
<1> DEFINE s == size_classes[k]
           pc == IF n = 1 THEN "rest" ELSE "carve"
<1>1. call[c].pc = "link" /\ call[c].pc \in Refilling
  BY DEF Link, Refilling
<1>2. /\ free_lists' = [free_lists EXCEPT ![k] = a]
      /\ UNCHANGED <<large, chunk, locks, held>>
      /\ call' = [call EXCEPT ![c].at = @ + HDR + s, ![c].left = @ - 1, ![c].pc = pc]
  BY <1>k, <1>a, <1>n DEF Link
<1>3. /\ \A d \in Ctx : d # c => call[d].pc \notin Refilling
      /\ RefillOK(call[c]) /\ CallOK(call[c]) /\ k \in Class /\ k # LARGE
      /\ call[c].request \in Requests /\ Asked(call[c].request) <= size_classes[k]
  BY <1>1, <1>k, RefillerAlone
<1>4. /\ a \in DOMAIN chunk /\ chunk[a].size_class = k /\ chunk[a].size = s
      /\ a \in Nat \ {0} /\ s \in Nat \ {0}
  BY <1>1, <1>3, <1>k, <1>a, HeapTypes, HeapParameters DEF CallOK, HeapInv, ListsTyped
<1>5. /\ call[c].big \in Nat /\ 0 < call[c].big /\ call[c].big <= a /\ n \in Nat /\ n >= 1
      /\ call[c].big \in DOMAIN chunk /\ chunk[call[c].big].size = s
      /\ a + n * (HDR + s) <= call[c].big + REFILL
      /\ locks[LARGE] /\ large = << >>
      /\ \A x \in DOMAIN chunk : EndOf(x) <= a \/ x = a
  BY <1>1, <1>3, <1>k, <1>a, <1>n, HeapTypes DEF RefillOK, CallRecord
<1> HIDE DEF s
<1>6. a + HDR + s \in Nat /\ n - 1 \in Nat
  <2>1. a \in Nat /\ s \in Nat /\ HDR \in Nat
    BY <1>4, HeapParameters
  <2>2. n \in Nat /\ n >= 1
    BY <1>5
  <2> QED BY <2>1, <2>2
<1>7. PICK r \in CallRecord : r = [call[c] EXCEPT !.at = a + HDR + s, !.left = n - 1, !.pc = pc]
  BY <1>6, HeapTypes DEF CallRecord
<1>8. /\ call' = [call EXCEPT ![c] = r]
      /\ r.pc = pc /\ r.at = a + HDR + s /\ r.big = call[c].big /\ r.left = n - 1
      /\ r.class = k /\ r.request = call[c].request
  BY <1>2, <1>7, <1>k, <1>a, <1>n, HeapTypes DEF CallRecord
<1>9. pc \in {"rest", "carve"} /\ (pc # "rest" => n - 1 >= 1)
  BY <1>5
<1> HIDE DEF pc
<1>10. CallOK(r)' /\ Grows
  BY <1>2, <1>3, <1>8, <1>9 DEF CallOK, OfSmall, Refilling, Grows
<1>11. RefillOK(r)'
  <2>1. (n - 1) * (HDR + s) + (HDR + s) = n * (HDR + s)
    BY <1>4, <1>5, HeapParameters
  <2>2. (n - 1) * (HDR + s) \in Nat /\ n * (HDR + s) \in Nat
    <3>1. \A x, y \in Nat : x * y \in Nat
      OBVIOUS
    <3>2. n \in Nat /\ HDR + s \in Nat
      BY <1>4, <1>5, HeapParameters
    <3> QED BY <1>6, <3>1, <3>2
  <2> DEFINE p == (n - 1) * (HDR + s)
             q == n * (HDR + s)
  <2> HIDE DEF p, q
  <2>3. p + (HDR + s) = q /\ p \in Nat /\ q \in Nat /\ a + q <= call[c].big + REFILL
    BY <1>5, <2>1, <2>2 DEF p, q
  <2>4. (a + HDR + s) + p <= call[c].big + REFILL
    BY <1>4, <1>5, <2>3, HeapParameters
  <2>5. r.at + r.left * (HDR + size_classes[r.class]) <= r.big + REFILL
    BY <1>8, <2>4 DEF p, s
  <2>6. \A x \in DOMAIN chunk' : EndOf(x)' <= r.at
    <3>1. ASSUME NEW x \in DOMAIN chunk PROVE EndOf(x) <= a + HDR + s
      <4>1. CASE x = a
        BY <1>4, <1>6, <4>1 DEF EndOf
      <4>2. CASE EndOf(x) <= a
        <5>1. EndOf(x) \in Nat
          BY HeapTypes, HeapParameters DEF EndOf, Chunk
        <5> QED BY <1>4, <4>2, <5>1, HeapParameters
      <4> QED BY <1>5, <4>1, <4>2
    <3> QED BY <1>2, <1>8, <3>1 DEF EndOf
  <2>7. r.big <= r.at
    BY <1>4, <1>5, <1>8, HeapParameters
  <2> QED BY <1>2, <1>5, <1>8, <1>9, <2>5, <2>6, <2>7 DEF RefillOK, s
<1>12. call' \in [Ctx -> CallRecord] /\ CallsOK'
  BY <1>3, <1>8, <1>10, <1>11, RefillMoves
<1>13. free_lists' \in [Class -> DOMAIN chunk \cup {NULL}]
  BY <1>2, <1>3, <1>4, HeapTypes
<1>14. HeapTypeOK'
  BY <1>2, <1>12, <1>13 DEF HeapInv, HeapTypeOK
<1>15. ListsTyped'
  BY <1>2, <1>3, <1>4, HeapTypes DEF HeapInv, ListsTyped
<1>16. Frontier' /\ Disjoint' /\ HeldFits'
  BY <1>2 DEF HeapInv, Frontier, Disjoint, HeldFits, EndOf
<1> QED BY <1>12, <1>14, <1>15, <1>16 DEF HeapInv

LEMMA RestKeeps ==
  ASSUME HeapInv, NEW c \in Ctx, Rest(c)
  PROVE  HeapInv'
<1> DEFINE size == (chunk[call[c].big].size - REFILL) % SIZE_MOD
           e == [at |-> call[c].big + REFILL, size |-> size - HDR]
<1>1. call[c].pc = "rest" /\ call[c].pc \in Refilling
  BY DEF Rest, Refilling
<1>2. /\ locks' = [locks EXCEPT ![LARGE] = FALSE] /\ UNCHANGED <<free_lists, chunk, held>>
      /\ large' = IF size > HDR + MIN_ALLOC_SIZE THEN <<e>> \o large ELSE large
      /\ call' = [call EXCEPT ![c].pc = "retry"]
  BY DEF Rest, Release, Goto
<1>3. /\ \A d \in Ctx : d # c => call[d].pc \notin Refilling
      /\ RefillOK(call[c]) /\ call[c].class \in Class /\ call[c].class # LARGE
      /\ call[c].request \in Requests
      /\ Asked(call[c].request) <= size_classes[call[c].class]
  BY <1>1, RefillerAlone
<1>4. /\ large = << >> /\ call[c].big \in Nat /\ call[c].big \in DOMAIN chunk
      /\ call[c].at \in Nat /\ call[c].left \in Nat
      /\ call[c].at + call[c].left * (HDR + size_classes[call[c].class])
           <= call[c].big + REFILL
      /\ \A x \in DOMAIN chunk : EndOf(x) <= call[c].at
  BY <1>1, <1>3, HeapTypes DEF RefillOK, CallRecord
<1>5. chunk[call[c].big].size \in Nat
  BY <1>4, HeapTypes DEF Chunk
<1>6. size \in 0 .. SIZE_MOD - 1
  <2>1. \A z \in Int : z % SIZE_MOD \in 0 .. SIZE_MOD - 1
    BY HeapParameters
  <2>2. chunk[call[c].big].size - REFILL \in Int
    BY <1>5, HeapParameters
  <2> QED BY <2>1, <2>2
<1>7. \A x \in DOMAIN chunk : EndOf(x) <= call[c].big + REFILL
  <2> DEFINE m == call[c].left * (HDR + size_classes[call[c].class])
  <2>1. m \in Nat
    <3>1. HDR + size_classes[call[c].class] \in Nat /\ call[c].left \in Nat
      BY <1>3, <1>4, HeapParameters
    <3>2. \A x, y \in Nat : x * y \in Nat
      OBVIOUS
    <3> QED BY <3>1, <3>2
  <2>2. call[c].at + m <= call[c].big + REFILL
    BY <1>4
  <2> HIDE DEF m
  <2>3. call[c].at <= call[c].big + REFILL
    BY <1>4, <2>1, <2>2, HeapParameters
  <2>4. \A x \in DOMAIN chunk : EndOf(x) \in Nat
    BY HeapTypes, HeapParameters DEF EndOf, Chunk
  <2> QED BY <1>4, <2>3, <2>4, HeapParameters
<1> HIDE DEF size
<1>8. /\ large' \in Seq([at: Nat \ {0}, size: 0 .. SIZE_MOD - 1])
      /\ Frontier'
  <2>1. CASE size > HDR + MIN_ALLOC_SIZE
    <3>1. large' = <<e>>
      BY <1>2, <1>4, <2>1
    <3>2. e.at = call[c].big + REFILL /\ e \in [at: Nat \ {0}, size: 0 .. SIZE_MOD - 1]
      <4>1. HDR \in Nat /\ MIN_ALLOC_SIZE \in Nat /\ REFILL \in Nat \ {0} /\ SIZE_MOD \in Nat
        BY HeapParameters
      <4>2. call[c].big + REFILL \in Nat \ {0}
        BY <1>4, <4>1
      <4>3. size - HDR \in 0 .. SIZE_MOD - 1
        BY <1>6, <2>1, <4>1
      <4> QED BY <4>2, <4>3
    <3> HIDE DEF e
    <3>3. \A x \in DOMAIN chunk' : EndOf(x)' <= large'[1].at
      BY <1>2, <1>7, <3>1, <3>2 DEF EndOf
    <3> QED BY <3>1, <3>2, <3>3 DEF Frontier
  <2>2. CASE ~(size > HDR + MIN_ALLOC_SIZE)
    BY <1>2, <1>4, <2>2 DEF Frontier
  <2> QED BY <2>1, <2>2
<1>9. PICK r \in CallRecord : r = [call[c] EXCEPT !.pc = "retry"]
  BY HeapTypes DEF CallRecord
<1>10. /\ call' = [call EXCEPT ![c] = r]
       /\ r.pc = "retry" /\ r.class = call[c].class /\ r.request = call[c].request
  BY <1>2, <1>9, HeapTypes DEF CallRecord
<1>11. CallOK(r)' /\ Grows /\ r.pc \notin Refilling
  BY <1>2, <1>3, <1>10 DEF CallOK, OfSmall, Refilling, Grows
<1>12. call' \in [Ctx -> CallRecord] /\ CallsOK'
  BY <1>3, <1>10, <1>11, RefillMoves
<1>13. HeapTypeOK'
  BY <1>2, <1>8, <1>12, HeapTypes DEF HeapTypeOK
<1>14. ListsTyped' /\ Disjoint' /\ HeldFits'
  BY <1>2 DEF HeapInv, ListsTyped, Disjoint, HeldFits, EndOf
<1> QED BY <1>8, <1>12, <1>13, <1>14 DEF HeapInv

-----------------------------------------------------------------------------
(* The invariant, and what follows from it for any number of contexts.     *)

LEMMA HeapInitially == HeapInit => HeapInv
<1> SUFFICES ASSUME HeapInit PROVE HeapInv
  OBVIOUS
<1>1. /\ large = <<[at |-> 1, size |-> HEAP_SIZE - HDR]>>
      /\ DOMAIN chunk = {} /\ free_lists = [k \in Class |-> NULL]
      /\ locks = [k \in Class \cup {LARGE} |-> FALSE]
      /\ call = [c \in Ctx |-> Done] /\ held = [c \in Ctx |-> {}]
  BY DEF HeapInit, on_init_memory_manager
<1>2. [at |-> 1, size |-> HEAP_SIZE - HDR] \in [at: Nat \ {0}, size: 0 .. SIZE_MOD - 1]
  BY HeapParameters
<1>3. HeapTypeOK
  BY <1>1, <1>2, DoneIs DEF HeapTypeOK
<1>4. ListsTyped /\ Frontier /\ Disjoint /\ HeldFits
  BY <1>1 DEF ListsTyped, Frontier, Disjoint, HeldFits
<1>5. CallsOK
  BY <1>1, DoneIs DEF CallsOK, Refilling
<1> QED BY <1>3, <1>4, <1>5 DEF HeapInv

LEMMA FreeLargeKeeps ==
  ASSUME HeapInv, NEW c \in Ctx, FreeLarge(c)
  PROVE  HeapInv'
BY ReturnKeeps DEF FreeLarge

LEMMA HeapStep == HeapInv /\ [HeapNext]_heapVars => HeapInv'
<1> SUFFICES ASSUME HeapInv, [HeapNext]_heapVars PROVE HeapInv'
  OBVIOUS
<1>1. CASE UNCHANGED heapVars
  BY <1>1 DEF heapVars, HeapInv, HeapTypeOK, ListsTyped, Frontier, Disjoint, HeldFits,
              CallsOK, CallOK, RefillOK, EndOf
<1>2. ASSUME NEW c \in Ctx, NEW r \in Requests, malloc(c, r) PROVE HeapInv'
  BY <1>2, MallocKeeps
<1>3. ASSUME NEW c \in Ctx, NEW h \in held[c], free(c, h) PROVE HeapInv'
  BY <1>3, FreeKeeps
<1>4. ASSUME NEW c \in Ctx, Proceed(c) PROVE HeapInv'
  BY <1>4, LargeKeeps, SmallKeeps, RetryKeeps, PopKeeps, ReportKeeps, BeginRefillKeeps,
     CarveKeeps, LinkKeeps, RestKeeps, FreeLargeKeeps, FreeSmallKeeps, PushKeeps DEF Proceed
<1> QED BY <1>1, <1>2, <1>3, <1>4 DEF HeapNext

\* The invariant of malloc.c with any number of contexts, whoever holds which lock.
THEOREM HeapInvariance == HeapSpec => []HeapInv
BY HeapInitially, HeapStep, PTL DEF HeapSpec

\* No two chunks overlap, for every heap, any classes and any number of contexts:
\* whatever the races on the free lists and the wrapped size of a refill do,
\* refill_size_class and the split of a large chunk work above all earlier chunks.
THEOREM ChunksStayDisjoint == HeapSpec => []ChunksDisjoint
<1>1. HeapInv => ChunksDisjoint
  BY DEF HeapInv, ChunksDisjoint, Disjoint, EndOf
<1> QED BY <1>1, HeapInvariance, PTL

\* Whatever malloc returns is at least as large as the request, with any number of
\* contexts: the rounding, the choice of the class and every free list agree.  Only
\* the sizes that malloc.c:266 wraps to 0 get less.
THEOREM BlocksFit == HeapSpec => []BlockFits
<1>1. HeapInv => BlockFits
  BY DEF HeapInv, HeldFits, BlockFits
<1> QED BY <1>1, HeapInvariance, PTL

-----------------------------------------------------------------------------
(* What the free lists hold, with one context.  With more, the refill may  *)
(* link a chunk over another one that is popped (run heap_race).           *)

Mine(c)   == {h.at : h \in held[c]}
InHand(c) == {a \in {call[c].at} : call[c].pc \in {"link", "free", "push"}}

\* The chunks of class k that should be on its free list.
FreeOf(c, k) ==
  {a \in DOMAIN chunk : chunk[a].size_class = k /\ a \notin Mine(c) \cup InHand(c)}

\* s is the free list of class k, without repetition, n chunks long.
IsFreeList(c, k, n, s) ==
  /\ s \in [1 .. n -> FreeOf(c, k)]
  /\ \A i, j \in 1 .. n : s[i] = s[j] => i = j
  /\ \A a \in FreeOf(c, k) : \E i \in 1 .. n : s[i] = a
  /\ free_lists[k] = IF n = 0 THEN NULL ELSE s[1]
  /\ \A i \in 1 .. n : chunk[s[i]].next = IF i = n THEN NULL ELSE s[i + 1]

ListOK(c, k) == \E n \in Nat : \E s \in [1 .. n -> FreeOf(c, k)] : IsFreeList(c, k, n, s)

\* What the only call knows about the list it works on.
CallKnows(c) ==
  /\ \A g, h \in held[c] : g.at = h.at => g = h
  /\ InHand(c) \cap Mine(c) = {}
  /\ call[c].pc \in {"link", "push"} => chunk[call[c].at].next = free_lists[call[c].class]
  /\ call[c].pc = "pop" => /\ call[c].at = free_lists[call[c].class]
                           /\ call[c].at # NULL

ListInv(c) ==
  IsFiniteSet(DOMAIN chunk) /\ CallKnows(c) /\ \A k \in Class : ListOK(c, k)

\* A step that changes neither the list of class k nor the chunks on it.
LEMMA ListStays ==
  ASSUME NEW c, NEW k, ListOK(c, k), FreeOf(c, k)' = FreeOf(c, k),
         free_lists'[k] = free_lists[k],
         \A a \in FreeOf(c, k) : chunk'[a].next = chunk[a].next
  PROVE  ListOK(c, k)'
<1>n. PICK n \in Nat : \E s \in [1 .. n -> FreeOf(c, k)] : IsFreeList(c, k, n, s)
  BY DEF ListOK
<1>1. PICK s \in [1 .. n -> FreeOf(c, k)] : IsFreeList(c, k, n, s)
  BY <1>n
<1>2. \A i \in 1 .. n : s[i] \in FreeOf(c, k)
  OBVIOUS
<1>3. IsFreeList(c, k, n, s)'
  BY <1>1, <1>2 DEF IsFreeList
<1>4. s \in [1 .. n -> FreeOf(c, k)']
  OBVIOUS
<1> QED BY <1>3, <1>4 DEF ListOK

\* A chunk put in front of the list, its next field the old head.
LEMMA ListPushed ==
  ASSUME NEW c, NEW k, NEW a, ListOK(c, k), a \notin FreeOf(c, k),
         FreeOf(c, k)' = FreeOf(c, k) \cup {a},
         free_lists'[k] = a, chunk'[a].next = free_lists[k],
         \A x \in FreeOf(c, k) : chunk'[x].next = chunk[x].next
  PROVE  ListOK(c, k)'
<1>n. PICK n \in Nat : \E s \in [1 .. n -> FreeOf(c, k)] : IsFreeList(c, k, n, s)
  BY DEF ListOK
<1>1. PICK s \in [1 .. n -> FreeOf(c, k)] : IsFreeList(c, k, n, s)
  BY <1>n
<1>s. /\ \A i \in 1 .. n : s[i] \in FreeOf(c, k)
      /\ \A i, j \in 1 .. n : s[i] = s[j] => i = j
      /\ \A x \in FreeOf(c, k) : \E i \in 1 .. n : s[i] = x
      /\ free_lists[k] = IF n = 0 THEN NULL ELSE s[1]
      /\ \A i \in 1 .. n : chunk[s[i]].next = IF i = n THEN NULL ELSE s[i + 1]
  BY <1>1 DEF IsFreeList
<1>2. PICK t : t = [i \in 1 .. n + 1 |-> IF i = 1 THEN a ELSE s[i - 1]]
  OBVIOUS
<1>3. /\ t[1] = a /\ \A i \in 1 .. n : t[i + 1] = s[i]
      /\ \A i \in 1 .. n + 1 : i # 1 => i - 1 \in 1 .. n /\ t[i] = s[i - 1]
      /\ 1 \in 1 .. n + 1 /\ \A i \in 1 .. n : i + 1 \in 1 .. n + 1
  BY <1>2
<1>4. t \in [1 .. n + 1 -> FreeOf(c, k)']
  BY <1>s, <1>2
<1>5. \A i, j \in 1 .. n + 1 : t[i] = t[j] => i = j
  <2> SUFFICES ASSUME NEW i \in 1 .. n + 1, NEW j \in 1 .. n + 1, t[i] = t[j] PROVE i = j
    OBVIOUS
  <2>1. CASE i = 1 \/ j = 1
    BY <1>3, <1>s, <2>1
  <2>2. CASE i # 1 /\ j # 1
    <3>1. i - 1 = j - 1
      BY <1>3, <1>s, <2>2
    <3> QED BY <3>1
  <2> QED BY <2>1, <2>2
<1>6. \A x \in FreeOf(c, k)' : \E i \in 1 .. n + 1 : t[i] = x
  <2> SUFFICES ASSUME NEW x \in FreeOf(c, k)' PROVE \E i \in 1 .. n + 1 : t[i] = x
    OBVIOUS
  <2>1. CASE x = a
    BY <1>3, <2>1
  <2>2. CASE x \in FreeOf(c, k)
    <3>1. PICK i \in 1 .. n : s[i] = x
      BY <1>s, <2>2
    <3> QED BY <1>3, <3>1
  <2> QED BY <2>1, <2>2
<1>7. \A i \in 1 .. n + 1 : chunk'[t[i]].next = IF i = n + 1 THEN NULL ELSE t[i + 1]
  <2> SUFFICES ASSUME NEW i \in 1 .. n + 1
               PROVE  chunk'[t[i]].next = IF i = n + 1 THEN NULL ELSE t[i + 1]
    OBVIOUS
  <2>1. CASE i = 1
    <3>1. chunk'[t[i]].next = IF n = 0 THEN NULL ELSE s[1]
      BY <1>3, <1>s, <2>1
    <3>2. n # 0 => 1 \in 1 .. n
      OBVIOUS
    <3> QED BY <1>3, <2>1, <3>1, <3>2
  <2>2. CASE i # 1
    <3>1. i - 1 \in 1 .. n /\ t[i] = s[i - 1]
      BY <1>3, <2>2
    <3>2. chunk'[t[i]].next = IF i - 1 = n THEN NULL ELSE s[(i - 1) + 1]
      BY <1>s, <3>1
    <3>3. i # n + 1 => i \in 1 .. n /\ (i - 1) + 1 = i /\ t[i + 1] = s[i]
      BY <1>3, <2>2
    <3> QED BY <3>2, <3>3
  <2> QED BY <2>1, <2>2
<1>8. n + 1 \in Nat /\ n + 1 # 0
  OBVIOUS
<1>9. IsFreeList(c, k, n + 1, t)'
  BY <1>3, <1>4, <1>5, <1>6, <1>7, <1>8 DEF IsFreeList
<1> QED BY <1>4, <1>8, <1>9 DEF ListOK

\* The head taken off the list.
LEMMA ListPopped ==
  ASSUME NEW c, NEW k, NEW a, ListOK(c, k), a = free_lists[k], a # NULL,
         FreeOf(c, k)' = FreeOf(c, k) \ {a},
         free_lists'[k] = chunk[a].next,
         \A x \in FreeOf(c, k) : chunk'[x].next = chunk[x].next
  PROVE  ListOK(c, k)' /\ a \in FreeOf(c, k)
<1>n. PICK n \in Nat : \E s \in [1 .. n -> FreeOf(c, k)] : IsFreeList(c, k, n, s)
  BY DEF ListOK
<1>1. PICK s \in [1 .. n -> FreeOf(c, k)] : IsFreeList(c, k, n, s)
  BY <1>n
<1>s. /\ \A i \in 1 .. n : s[i] \in FreeOf(c, k)
      /\ \A i, j \in 1 .. n : s[i] = s[j] => i = j
      /\ \A x \in FreeOf(c, k) : \E i \in 1 .. n : s[i] = x
      /\ free_lists[k] = IF n = 0 THEN NULL ELSE s[1]
      /\ \A i \in 1 .. n : chunk[s[i]].next = IF i = n THEN NULL ELSE s[i + 1]
  BY <1>1 DEF IsFreeList
<1>2. n # 0 /\ n - 1 \in Nat /\ 1 \in 1 .. n /\ a = s[1] /\ a \in FreeOf(c, k)
  BY <1>s
<1>3. PICK t : t = [i \in 1 .. n - 1 |-> s[i + 1]]
  OBVIOUS
<1>4. /\ \A i \in 1 .. n - 1 : t[i] = s[i + 1] /\ i + 1 \in 1 .. n /\ s[i + 1] # a
      /\ \A i \in 1 .. n : i # 1 => i - 1 \in 1 .. n - 1 /\ t[i - 1] = s[i]
  <2>1. \A i \in 1 .. n - 1 : t[i] = s[i + 1] /\ i + 1 \in 1 .. n /\ i + 1 # 1
    BY <1>3
  <2>2. \A i \in 1 .. n : i # 1 => i - 1 \in 1 .. n - 1 /\ (i - 1) + 1 = i
    BY <1>2
  <2>3. \A i \in 1 .. n : i # 1 => s[i] # a
    BY <1>2, <1>s
  <2> QED BY <2>1, <2>2, <2>3
<1>5. t \in [1 .. n - 1 -> FreeOf(c, k)']
  BY <1>s, <1>3, <1>4
<1>6. \A i, j \in 1 .. n - 1 : t[i] = t[j] => i = j
  <2> SUFFICES ASSUME NEW i \in 1 .. n - 1, NEW j \in 1 .. n - 1, t[i] = t[j] PROVE i = j
    OBVIOUS
  <2>1. i + 1 = j + 1
    BY <1>4, <1>s
  <2> QED BY <2>1
<1>7. \A x \in FreeOf(c, k)' : \E i \in 1 .. n - 1 : t[i] = x
  <2> SUFFICES ASSUME NEW x \in FreeOf(c, k)' PROVE \E i \in 1 .. n - 1 : t[i] = x
    OBVIOUS
  <2>1. PICK i \in 1 .. n : s[i] = x
    BY <1>s
  <2>2. i # 1
    BY <1>2, <2>1
  <2> QED BY <1>4, <2>1, <2>2
<1>8. \A i \in 1 .. n - 1 : chunk'[t[i]].next = IF i = n - 1 THEN NULL ELSE t[i + 1]
  <2> SUFFICES ASSUME NEW i \in 1 .. n - 1
               PROVE  chunk'[t[i]].next = IF i = n - 1 THEN NULL ELSE t[i + 1]
    OBVIOUS
  <2>1. i + 1 \in 1 .. n /\ t[i] = s[i + 1]
    BY <1>4
  <2>2. chunk'[t[i]].next = IF i + 1 = n THEN NULL ELSE s[(i + 1) + 1]
    BY <1>s, <2>1
  <2>3. i # n - 1 => i + 1 \in 1 .. n - 1
    BY <1>2
  <2>4. i # n - 1 => t[i + 1] = s[(i + 1) + 1]
    BY <1>4, <2>3
  <2> QED BY <1>2, <2>2, <2>4
<1>9. free_lists'[k] = IF n - 1 = 0 THEN NULL ELSE t[1]
  <2>1. chunk[s[1]].next = IF 1 = n THEN NULL ELSE s[1 + 1]
    BY <1>2, <1>s
  <2>2. n # 1 => 1 \in 1 .. n - 1
    BY <1>2
  <2>3. n # 1 => t[1] = s[1 + 1]
    BY <1>4, <2>2
  <2> QED BY <1>2, <2>1, <2>3
<1>10. IsFreeList(c, k, n - 1, t)'
  BY <1>5, <1>6, <1>7, <1>8, <1>9 DEF IsFreeList
<1>11. ListOK(c, k)'
  BY <1>2, <1>5, <1>10 DEF ListOK
<1> QED BY <1>2, <1>11

\* A step that leaves the free lists and the chunks on them alone.
LEMMA ListsStay ==
  ASSUME NEW c, ListInv(c), IsFiniteSet(DOMAIN chunk'), CallKnows(c)',
         free_lists' = free_lists,
         \A k \in Class : FreeOf(c, k)' = FreeOf(c, k),
         \A k \in Class : \A a \in FreeOf(c, k) : chunk'[a].next = chunk[a].next
  PROVE  ListInv(c)'
<1>1. ASSUME NEW k \in Class PROVE ListOK(c, k)'
  BY ListStays DEF ListInv
<1> QED BY <1>1 DEF ListInv

\* A step of the call between two uses of a chunk.
LEMMA ListsMove ==
  ASSUME NEW c, ListInv(c), UNCHANGED <<free_lists, chunk, held>>,
         call[c].pc \notin {"link", "free", "push"},
         call'[c].pc \notin {"link", "free", "push"},
         call'[c].pc = "pop" => /\ call'[c].at = free_lists[call'[c].class]
                                /\ call'[c].at # NULL
  PROVE  ListInv(c)'
<1>1. Mine(c)' = Mine(c) /\ InHand(c) = {} /\ InHand(c)' = {}
  BY DEF Mine, InHand
<1>2. \A k \in Class : FreeOf(c, k)' = FreeOf(c, k)
  BY <1>1 DEF FreeOf
<1>3. CallKnows(c)'
  BY <1>1 DEF ListInv, CallKnows
<1> QED BY <1>2, <1>3, ListsStay DEF ListInv

LEMMA QuietLists ==
  ASSUME NEW c \in Ctx, HeapInv, ListInv(c),
         \/ \E r \in Requests : malloc(c, r)
         \/ AllocateSmall(c) \/ Retry(c) \/ print_memory_status(c)
         \/ BeginRefill(c) \/ Rest(c)
         \/ call[c].pc = "alloc" /\ Fail(c) /\ UNCHANGED <<free_lists, chunk, held>>
  PROVE  ListInv(c)'
<1>1. call \in [Ctx -> CallRecord]
  BY HeapTypes
<1>2. CASE \E r \in Requests : malloc(c, r)
  <2>1. /\ UNCHANGED <<free_lists, chunk, held>> /\ call[c].pc = "idle"
        /\ call'[c].pc = "alloc"
    BY <1>1, <1>2 DEF malloc, Done
  <2> QED BY <2>1, ListsMove
<1>3. CASE AllocateSmall(c)
  <2>1. /\ UNCHANGED <<free_lists, chunk, held>> /\ call[c].pc = "alloc"
        /\ call' = [call EXCEPT ![c].at = free_lists[call[c].class],
                      ![c].pc = IF free_lists[call[c].class] = NULL THEN "refill" ELSE "pop"]
    BY <1>3 DEF AllocateSmall
  <2>2. /\ call'[c].pc = IF free_lists[call[c].class] = NULL THEN "refill" ELSE "pop"
        /\ call'[c].at = free_lists[call[c].class] /\ call'[c].class = call[c].class
    BY <1>1, <2>1 DEF CallRecord
  <2>3. /\ call'[c].pc \notin {"link", "free", "push"}
        /\ call'[c].pc = "pop" => /\ call'[c].at = free_lists[call'[c].class]
                                  /\ call'[c].at # NULL
    BY <2>2
  <2>4. UNCHANGED <<free_lists, chunk, held>> /\ call[c].pc \notin {"link", "free", "push"}
    BY <2>1
  <2> QED BY <2>3, <2>4, ListsMove
<1>4. CASE Retry(c)
  <2>1. UNCHANGED <<free_lists, chunk, held>> /\ call[c].pc = "retry"
    BY <1>4 DEF Retry
  <2>2. CASE free_lists[call[c].class] = NULL
    <3>1. call'[c].pc = "report"
      BY <1>1, <1>4, <2>2, DoneIs DEF Retry, Fail
    <3> QED BY <2>1, <3>1, ListsMove
  <2>3. CASE free_lists[call[c].class] # NULL
    <3>1. call' = [call EXCEPT ![c].at = free_lists[call[c].class], ![c].pc = "pop"]
      BY <1>4, <2>3 DEF Retry
    <3>2. /\ call'[c].pc = "pop" /\ call'[c].class = call[c].class
          /\ call'[c].at = free_lists[call[c].class]
      BY <1>1, <3>1 DEF CallRecord
    <3> QED BY <2>1, <2>3, <3>2, ListsMove
  <2> QED BY <2>2, <2>3
<1>5. CASE print_memory_status(c)
  <2>1. UNCHANGED <<free_lists, chunk, held>> /\ call[c].pc = "report"
    BY <1>5 DEF print_memory_status
  <2>2. call'[c].pc \in {"idle", "report"}
    <3>1. CASE Return(c)
      BY <1>1, <3>1, DoneIs DEF Return
    <3>2. CASE call' = [call EXCEPT ![c].left = @ + 1]
      BY <1>1, <2>1, <3>2 DEF CallRecord
    <3> QED BY <1>5, <3>1, <3>2 DEF print_memory_status
  <2> QED BY <2>1, <2>2, ListsMove
<1>6. CASE BeginRefill(c)
  <2>1. UNCHANGED <<free_lists, chunk, held>> /\ call[c].pc = "refill"
    BY <1>6 DEF BeginRefill
  <2>2. call'[c].pc \in {"retry", "carve"}
    <3> DEFINE big == {i \in DOMAIN large : large[i].size >= REFILL}
    <3>1. CASE big = {}
      <4>1. call' = [call EXCEPT ![c].pc = "retry"]
        BY <1>6, <3>1 DEF BeginRefill, Goto
      <4> QED BY <1>1, <4>1 DEF CallRecord
    <3>2. CASE big # {}
      <4>1. PICK a, n : call' = [call EXCEPT ![c].pc = "carve", ![c].at = a,
                                             ![c].big = a, ![c].left = n]
        BY <1>6, <3>2 DEF BeginRefill
      <4> QED BY <1>1, <4>1 DEF CallRecord
    <3> QED BY <3>1, <3>2
  <2> QED BY <2>1, <2>2, ListsMove
<1>7. CASE Rest(c)
  <2>1. UNCHANGED <<free_lists, chunk, held>> /\ call[c].pc = "rest"
        /\ call' = [call EXCEPT ![c].pc = "retry"]
    BY <1>7 DEF Rest, Goto
  <2>2. call'[c].pc = "retry"
    BY <1>1, <2>1 DEF CallRecord
  <2> QED BY <2>1, <2>2, ListsMove
<1>8. CASE call[c].pc = "alloc" /\ Fail(c) /\ UNCHANGED <<free_lists, chunk, held>>
  <2>1. call'[c].pc = "report"
    BY <1>1, <1>8, DoneIs DEF Fail
  <2> QED BY <1>8, <2>1, ListsMove
<1> QED BY <1>2, <1>3, <1>4, <1>5, <1>6, <1>7, <1>8

\* The chunks of class k after the set of chunks that are taken has changed.
LEMMA FreeOfIs ==
  ASSUME NEW c, NEW k, NEW a
  PROVE  a \in FreeOf(c, k) <=> /\ a \in DOMAIN chunk /\ chunk[a].size_class = k
                                /\ a \notin Mine(c) /\ a \notin InHand(c)
BY DEF FreeOf

LEMMA MineIs ==
  ASSUME HeapInv, NEW c \in Ctx
  PROVE  Mine(c) \subseteq DOMAIN chunk
BY HeapTypes DEF Mine

LEMMA MineGrows ==
  ASSUME NEW c, NEW a, NEW o, o.at = a, held'[c] = held[c] \cup {o}
  PROVE  Mine(c)' = Mine(c) \cup {a}
<1>1. Mine(c)' \subseteq Mine(c) \cup {a}
  BY DEF Mine
<1>2. Mine(c) \subseteq Mine(c)'
  BY DEF Mine
<1>3. a \in Mine(c)'
  BY DEF Mine
<1> QED BY <1>1, <1>2, <1>3

LEMMA LargeLists ==
  ASSUME NEW c \in Ctx, HeapInv, ListInv(c), AllocateLarge(c)
  PROVE  ListInv(c)'
<1>1. call[c].pc = "alloc" /\ ~locks[LARGE] /\ UNCHANGED <<free_lists, locks>>
  BY DEF AllocateLarge
<1>2. CASE Fail(c) /\ UNCHANGED <<large, chunk, held>>
  BY <1>1, <1>2, QuietLists
<1>3. ASSUME NEW i \in DOMAIN large, Own(c, large[i].at), Return(c),
             chunk' = SetHeader(large[i].at, [next |-> NULL, size_class |-> LARGE,
                                              size |-> Split(i, call[c].size).size])
      PROVE  ListInv(c)'
  <2>a. PICK a : a = large[i].at
    OBVIOUS
  <2>o. PICK o : o = [at |-> a, request |-> call[c].request]
    OBVIOUS
  <2>1. a \notin DOMAIN chunk
    <3>1. \A x \in DOMAIN chunk : x \in Nat /\ EndOf(x) \in Nat /\ EndOf(x) > x
      BY HeapTypes, HeapParameters DEF EndOf, Chunk
    <3>2. \A x \in DOMAIN chunk : EndOf(x) <= a
      BY <2>a DEF HeapInv, Frontier
    <3> QED BY <3>1, <3>2
  <2>2. /\ DOMAIN chunk' = DOMAIN chunk \cup {a} /\ chunk'[a].size_class = LARGE
        /\ \A x \in DOMAIN chunk : chunk'[x] = chunk[x]
    BY <1>3, <2>1, <2>a DEF SetHeader
  <2>3. held'[c] = held[c] \cup {o}
    BY <1>3, <2>a, <2>o, HeapTypes DEF Own
  <2>4. Mine(c)' = Mine(c) \cup {a}
    BY <2>3, <2>o, MineGrows
  <2>5. call'[c].pc = "idle"
    BY <1>3, HeapTypes, DoneIs DEF Return
  <2>6. InHand(c) = {} /\ InHand(c)' = {}
    BY <1>1, <2>5 DEF InHand
  <2>7. ASSUME NEW k \in Class PROVE FreeOf(c, k)' = FreeOf(c, k)
    <3>1. k # LARGE
      BY HeapParameters
    <3> QED BY <2>1, <2>2, <2>4, <2>6, <3>1 DEF FreeOf
  <2>8. \A k \in Class : \A x \in FreeOf(c, k) : chunk'[x].next = chunk[x].next
    BY <2>2 DEF FreeOf
  <2>9. a \notin Mine(c)
    BY <2>1, MineIs
  <2>10. CallKnows(c)'
    <3>1. \A g, h \in held'[c] : g.at = h.at => g = h
      BY <2>3, <2>9, <2>o DEF ListInv, CallKnows, Mine
    <3> QED BY <2>5, <2>6, <3>1 DEF CallKnows
  <2>11. IsFiniteSet(DOMAIN chunk')
    BY <2>2, FS_AddElement DEF ListInv
  <2> QED BY <1>1, <2>7, <2>8, <2>10, <2>11, ListsStay
<1> QED BY <1>2, <1>3 DEF AllocateLarge

LEMMA PopLists ==
  ASSUME NEW c \in Ctx, HeapInv, ListInv(c), Pop(c)
  PROVE  ListInv(c)'
<1>a. PICK a : a = call[c].at
  OBVIOUS
<1>k. PICK k : k = call[c].class
  OBVIOUS
<1>o. PICK o : o = [at |-> a, request |-> call[c].request]
  OBVIOUS
<1>1. /\ call[c].pc = "pop" /\ free_lists' = [free_lists EXCEPT ![k] = chunk[a].next]
      /\ held' = [held EXCEPT ![c] = @ \cup {o}] /\ call' = [call EXCEPT ![c] = Done]
      /\ UNCHANGED <<large, chunk>>
  BY <1>a, <1>k, <1>o DEF Pop, Own, Return
<1>2. /\ k \in Class /\ a \in DOMAIN chunk /\ chunk[a].size_class = k
      /\ a = free_lists[k] /\ a # NULL
  BY <1>1, <1>a, <1>k, HeapTypes DEF ListInv, CallKnows, CallOK, OfSmall, CallRecord
<1>3. Mine(c)' = Mine(c) \cup {a}
  <2>1. held'[c] = held[c] \cup {o}
    BY <1>1, HeapTypes
  <2> QED BY <1>o, <2>1, MineGrows
<1>4. call'[c].pc = "idle"
  BY <1>1, HeapTypes, DoneIs
<1>5. InHand(c) = {} /\ InHand(c)' = {}
  BY <1>1, <1>4 DEF InHand
<1>6. \A j \in Class : FreeOf(c, j)' = FreeOf(c, j) \ {a}
  BY <1>1, <1>3, <1>5 DEF FreeOf
<1>7. free_lists'[k] = chunk[a].next /\ \A j \in Class : j # k => free_lists'[j] = free_lists[j]
  BY <1>1, <1>2, HeapTypes
<1>8. ListOK(c, k)' /\ a \in FreeOf(c, k)
  BY <1>1, <1>2, <1>6, <1>7, ListPopped DEF ListInv
<1>9. ASSUME NEW j \in Class, j # k PROVE ListOK(c, j)'
  <2>1. FreeOf(c, j)' = FreeOf(c, j)
    BY <1>2, <1>6, <1>9 DEF FreeOf
  <2> QED BY <1>1, <1>7, <1>9, <2>1, ListStays DEF ListInv
<1>10. CallKnows(c)'
  <2>1. a \notin Mine(c)
    BY <1>8 DEF FreeOf
  <2>2. held'[c] = held[c] \cup {o}
    BY <1>1, HeapTypes
  <2>3. \A g, h \in held'[c] : g.at = h.at => g = h
    BY <1>o, <2>1, <2>2 DEF ListInv, CallKnows, Mine
  <2> QED BY <1>4, <1>5, <2>3 DEF CallKnows
<1> QED BY <1>1, <1>8, <1>9, <1>10 DEF ListInv

\* A chunk that was in the hands of the call and is now the head of its list.
LEMMA InsertLists ==
  ASSUME NEW c \in Ctx, HeapInv, ListInv(c), call[c].pc \in {"link", "push"},
         free_lists' = [free_lists EXCEPT ![call[c].class] = call[c].at],
         UNCHANGED <<chunk, held>>, call'[c].pc \in {"idle", "rest", "carve"}
  PROVE  ListInv(c)'
<1>a. PICK a : a = call[c].at
  OBVIOUS
<1>k. PICK k : k = call[c].class
  OBVIOUS
<1>1. /\ k \in Class /\ a \in DOMAIN chunk /\ chunk[a].size_class = k
      /\ chunk[a].next = free_lists[k]
  BY <1>a, <1>k, HeapTypes
     DEF ListInv, CallKnows, CallOK, OfSmall, Refilling, CallRecord
<1>2. InHand(c) = {a} /\ InHand(c)' = {} /\ Mine(c)' = Mine(c) /\ a \notin Mine(c)
  BY <1>a DEF InHand, Mine, ListInv, CallKnows
<1>3. \A j \in Class : j # k => FreeOf(c, j)' = FreeOf(c, j)
  BY <1>1, <1>2 DEF FreeOf
<1>4. FreeOf(c, k)' = FreeOf(c, k) \cup {a} /\ a \notin FreeOf(c, k)
  BY <1>1, <1>2 DEF FreeOf
<1>5. free_lists'[k] = a /\ \A j \in Class : j # k => free_lists'[j] = free_lists[j]
  BY <1>1, <1>a, <1>k, HeapTypes
<1>6. ListOK(c, k)'
  BY <1>1, <1>4, <1>5, ListPushed DEF ListInv
<1>7. ASSUME NEW j \in Class, j # k PROVE ListOK(c, j)'
  BY <1>3, <1>5, <1>7, ListStays DEF ListInv
<1>8. CallKnows(c)'
  BY <1>2 DEF ListInv, CallKnows
<1> QED BY <1>6, <1>7, <1>8 DEF ListInv

LEMMA CarveLists ==
  ASSUME NEW c \in Ctx, HeapInv, ListInv(c), Carve(c)
  PROVE  ListInv(c)'
<1>a. PICK a : a = call[c].at
  OBVIOUS
<1>k. PICK k : k = call[c].class
  OBVIOUS
<1>1. /\ call[c].pc = "carve" /\ UNCHANGED <<free_lists, held>>
      /\ chunk' = SetHeader(a, [next |-> free_lists[k], size_class |-> k,
                                size |-> size_classes[k]])
      /\ call' = [call EXCEPT ![c].pc = "link"]
  BY <1>a, <1>k DEF Carve, Goto
<1>2. call'[c].pc = "link" /\ call'[c].at = a /\ call'[c].class = k
  BY <1>1, <1>a, <1>k, HeapTypes DEF CallRecord
<1>3. a \notin DOMAIN chunk
  <2>1. \A x \in DOMAIN chunk : x \in Nat /\ EndOf(x) \in Nat /\ EndOf(x) > x
    BY HeapTypes, HeapParameters DEF EndOf, Chunk
  <2>2. call[c].pc \in Refilling
    BY <1>1 DEF Refilling
  <2>3. \A x \in DOMAIN chunk : EndOf(x) <= a
    BY <1>1, <1>a, <2>2, RefillerAlone DEF RefillOK
  <2>4. a \in Nat
    BY <1>a, HeapTypes DEF CallRecord
  <2> QED BY <2>1, <2>3, <2>4
<1>4. /\ DOMAIN chunk' = DOMAIN chunk \cup {a} /\ chunk'[a].next = free_lists[k]
      /\ \A x \in DOMAIN chunk : chunk'[x] = chunk[x]
  BY <1>1, <1>3 DEF SetHeader
<1>5. Mine(c)' = Mine(c) /\ InHand(c) = {} /\ InHand(c)' = {a} /\ a \notin Mine(c)
  BY <1>1, <1>2, <1>3, MineIs DEF Mine, InHand
<1>6. \A j \in Class : FreeOf(c, j)' = FreeOf(c, j)
  BY <1>3, <1>4, <1>5 DEF FreeOf
<1>7. \A j \in Class : \A x \in FreeOf(c, j) : chunk'[x].next = chunk[x].next
  BY <1>4 DEF FreeOf
<1>8. CallKnows(c)'
  BY <1>1, <1>2, <1>4, <1>5 DEF ListInv, CallKnows
<1>9. IsFiniteSet(DOMAIN chunk')
  BY <1>4, FS_AddElement DEF ListInv
<1> QED BY <1>1, <1>6, <1>7, <1>8, <1>9, ListsStay

LEMMA FreeLists ==
  ASSUME NEW c \in Ctx, HeapInv, ListInv(c), NEW h \in held[c], free(c, h)
  PROVE  ListInv(c)'
<1>1. /\ call[c].pc = "idle" /\ UNCHANGED <<free_lists, chunk>>
      /\ held' = [held EXCEPT ![c] = @ \ {h}]
      /\ call' = [call EXCEPT ![c] = [Done EXCEPT !.pc = "free", !.at = h.at,
                                                  !.class = chunk[h.at].size_class]]
  BY DEF free
<1>2. held'[c] = held[c] \ {h}
  BY <1>1, HeapTypes
<1>3. call'[c].pc = "free" /\ call'[c].at = h.at
  <2>1. call'[c] = [Done EXCEPT !.pc = "free", !.at = h.at, !.class = chunk[h.at].size_class]
    BY <1>1, HeapTypes
  <2> QED BY <2>1 DEF Done
<1>4. InHand(c) = {} /\ InHand(c)' = {h.at}
  BY <1>1, <1>3 DEF InHand
<1>5. \A g \in held[c] : g.at = h.at => g = h
  BY DEF ListInv, CallKnows
<1>6. Mine(c)' = Mine(c) \ {h.at} /\ h.at \in Mine(c)
  BY <1>2, <1>5 DEF Mine
<1>7. \A j \in Class : FreeOf(c, j)' = FreeOf(c, j)
  BY <1>1, <1>4, <1>6 DEF FreeOf
<1>8. CallKnows(c)'
  <2>1. \A f, g \in held'[c] : f.at = g.at => f = g
    BY <1>2 DEF ListInv, CallKnows
  <2> QED BY <1>3, <1>4, <1>6, <2>1 DEF CallKnows
<1> QED BY <1>1, <1>7, <1>8, ListsStay DEF ListInv

LEMMA FreeLargeLists ==
  ASSUME NEW c \in Ctx, HeapInv, ListInv(c), FreeLarge(c)
  PROVE  ListInv(c)'
<1>1. /\ call[c].pc = "free" /\ UNCHANGED <<free_lists, chunk, held>>
      /\ call' = [call EXCEPT ![c] = Done]
      /\ chunk[call[c].at].size_class = LARGE
  BY HeapTypes DEF FreeLarge, Return, CallOK
<1>2. call'[c].pc = "idle"
  BY <1>1, HeapTypes, DoneIs
<1>3. InHand(c) = {call[c].at} /\ InHand(c)' = {} /\ Mine(c)' = Mine(c)
  BY <1>1, <1>2 DEF InHand, Mine
<1>4. ASSUME NEW j \in Class PROVE FreeOf(c, j)' = FreeOf(c, j)
  <2>1. j # LARGE
    BY HeapParameters
  <2> QED BY <1>1, <1>3, <2>1 DEF FreeOf
<1>5. CallKnows(c)'
  BY <1>1, <1>2, <1>3 DEF ListInv, CallKnows
<1> QED BY <1>1, <1>4, <1>5, ListsStay DEF ListInv

LEMMA FreeSmallLists ==
  ASSUME NEW c \in Ctx, HeapInv, ListInv(c), FreeSmall(c)
  PROVE  ListInv(c)'
<1>a. PICK a : a = call[c].at
  OBVIOUS
<1>k. PICK k : k = call[c].class
  OBVIOUS
<1>1. /\ call[c].pc = "free" /\ UNCHANGED <<free_lists, held>>
      /\ chunk' = [chunk EXCEPT ![a].next = free_lists[k]]
      /\ call' = [call EXCEPT ![c].pc = "push"]
  BY <1>a, <1>k DEF FreeSmall, Goto
<1>2. a \in DOMAIN chunk
  BY <1>1, <1>a, HeapTypes DEF CallOK
<1>3. /\ DOMAIN chunk' = DOMAIN chunk /\ \A x \in DOMAIN chunk : x # a => chunk'[x] = chunk[x]
      /\ chunk'[a] = [chunk[a] EXCEPT !.next = free_lists[k]]
  BY <1>1, <1>2
<1>4. chunk'[a].next = free_lists[k] /\ chunk'[a].size_class = chunk[a].size_class
  BY <1>2, <1>3, HeapTypes DEF Chunk
<1>5. call'[c].pc = "push" /\ call'[c].at = a /\ call'[c].class = k
  BY <1>1, <1>a, <1>k, HeapTypes DEF CallRecord
<1>6. InHand(c) = {a} /\ InHand(c)' = {a} /\ Mine(c)' = Mine(c)
  BY <1>1, <1>5, <1>a DEF InHand, Mine
<1>7. \A j \in Class : FreeOf(c, j)' = FreeOf(c, j)
  BY <1>3, <1>4, <1>6 DEF FreeOf
<1>8. \A j \in Class : \A x \in FreeOf(c, j) : chunk'[x].next = chunk[x].next
  BY <1>3, <1>6 DEF FreeOf
<1>9. CallKnows(c)'
  BY <1>1, <1>4, <1>5, <1>6 DEF ListInv, CallKnows
<1> QED BY <1>1, <1>3, <1>7, <1>8, <1>9, ListsStay DEF ListInv

LEMMA ListsStep ==
  ASSUME NEW c, Ctx = {c}
  PROVE  HeapInv /\ ListInv(c) /\ [HeapNext]_heapVars => ListInv(c)'
<1> SUFFICES ASSUME HeapInv, ListInv(c), [HeapNext]_heapVars PROVE ListInv(c)'
  OBVIOUS
<1>0. c \in Ctx
  OBVIOUS
<1>1. CASE UNCHANGED heapVars
  <2>1. UNCHANGED <<free_lists, chunk, held, call>>
    BY <1>1 DEF heapVars
  <2>2. Mine(c)' = Mine(c) /\ InHand(c)' = InHand(c)
    BY <2>1 DEF Mine, InHand
  <2>3. \A j \in Class : FreeOf(c, j)' = FreeOf(c, j)
    BY <2>1, <2>2 DEF FreeOf
  <2>4. CallKnows(c)'
    BY <2>1, <2>2 DEF ListInv, CallKnows
  <2> QED BY <2>1, <2>3, <2>4, ListsStay DEF ListInv
<1>2. CASE \E r \in Requests : malloc(c, r)
  BY <1>0, <1>2, QuietLists
<1>3. ASSUME NEW h \in held[c], free(c, h) PROVE ListInv(c)'
  BY <1>0, <1>3, FreeLists
<1>4. CASE AllocateSmall(c) \/ Retry(c) \/ print_memory_status(c) \/ BeginRefill(c) \/ Rest(c)
  BY <1>0, <1>4, QuietLists
<1>5. CASE Link(c)
  <2>1. /\ call[c].pc = "link" /\ UNCHANGED <<chunk, held>>
        /\ free_lists' = [free_lists EXCEPT ![call[c].class] = call[c].at]
        /\ call' = [call EXCEPT ![c].at = @ + HDR + size_classes[call[c].class],
                                ![c].left = @ - 1,
                                ![c].pc = IF call[c].left = 1 THEN "rest" ELSE "carve"]
    BY <1>5 DEF Link
  <2>2. call'[c].pc = IF call[c].left = 1 THEN "rest" ELSE "carve"
    BY <1>0, <2>1, HeapTypes DEF CallRecord
  <2>3. call'[c].pc \in {"idle", "rest", "carve"}
    BY <2>2
  <2> QED BY <1>0, <2>1, <2>3, InsertLists
<1>6. CASE Push(c)
  <2>1. /\ call[c].pc = "push" /\ UNCHANGED <<chunk, held>>
        /\ free_lists' = [free_lists EXCEPT ![call[c].class] = call[c].at]
        /\ call' = [call EXCEPT ![c] = Done]
    BY <1>6 DEF Push, Return
  <2>2. call'[c].pc = "idle"
    BY <1>0, <2>1, HeapTypes, DoneIs
  <2> QED BY <1>0, <2>1, <2>2, InsertLists
<1>7. CASE AllocateLarge(c) \/ Pop(c) \/ Carve(c) \/ FreeLarge(c) \/ FreeSmall(c)
  BY <1>0, <1>7, LargeLists, PopLists, CarveLists, FreeLargeLists, FreeSmallLists
<1> QED BY <1>1, <1>2, <1>3, <1>4, <1>5, <1>6, <1>7 DEF HeapNext, Proceed

LEMMA ListsInitially ==
  ASSUME NEW c, Ctx = {c}
  PROVE  HeapInit => ListInv(c)
<1> SUFFICES ASSUME HeapInit PROVE ListInv(c)
  OBVIOUS
<1>1. /\ DOMAIN chunk = {} /\ free_lists = [k \in Class |-> NULL]
      /\ call[c] = Done /\ held[c] = {}
  BY DEF HeapInit, on_init_memory_manager
<1>2. CallKnows(c)
  BY <1>1, DoneIs DEF CallKnows, Mine, InHand
<1>3. ASSUME NEW k \in Class PROVE ListOK(c, k)
  <2>1. FreeOf(c, k) = {}
    BY <1>1 DEF FreeOf
  <2>2. PICK s : s = [i \in 1 .. 0 |-> 0]
    OBVIOUS
  <2>3. s \in [1 .. 0 -> FreeOf(c, k)] /\ IsFreeList(c, k, 0, s)
    BY <1>1, <2>1, <2>2 DEF IsFreeList
  <2> QED BY <2>3 DEF ListOK
<1>4. IsFiniteSet(DOMAIN chunk)
  BY <1>1, FS_EmptySet
<1> QED BY <1>2, <1>3, <1>4 DEF ListInv

-----------------------------------------------------------------------------
(* What following the next fields finds.                                   *)

LEMMA ReachedIs ==
  ASSUME HeapInv, IsFiniteSet(DOMAIN chunk), NEW k \in Class
  PROVE  LET N == Cardinality(DOMAIN chunk) R == Reached(k)
         IN  /\ N \in Nat /\ R[0] = {free_lists[k]}
             /\ \A n \in 0 .. N - 1 :
                  R[n + 1] = R[n] \cup {chunk[a].next : a \in R[n] \ {NULL}}
<1>N. PICK N : N = Cardinality(DOMAIN chunk)
  OBVIOUS
<1>V. PICK V : V = SUBSET (DOMAIN chunk \cup {NULL})
  OBVIOUS
<1> DEFINE More(S) == S \cup {chunk[a].next : a \in S \ {NULL}}
           go == [x \in (1 .. N) \X V |-> More(x[2])]
           Is(f) == f = [n \in 0 .. N |-> IF n = 0 THEN {free_lists[k]}
                                          ELSE f[n - 1] \cup {chunk[a].next : a \in f[n - 1] \ {NULL}}]
<1>1. N \in Nat
  BY <1>N, FS_CardinalityType
<1>2. ASSUME NEW S \in V PROVE More(S) \in V
  <2>1. \A a \in DOMAIN chunk : chunk[a].next \in DOMAIN chunk \cup {NULL}
    BY DEF HeapInv, ListsTyped
  <2> QED BY <1>V, <2>1
<1>3. {free_lists[k]} \in V
  BY <1>V DEF HeapInv, HeapTypeOK
<1>4. IsLoopStep(go, N, V)
  <2>1. \A x \in (1 .. N) \X V : x[2] \in V
    OBVIOUS
  <2> HIDE DEF More
  <2> QED BY <1>2, <2>1 DEF IsLoopStep
<1>5. \A n \in 1 .. N, S \in V : go[<<n, S>>] = More(S)
  <2> HIDE DEF More
  <2> QED OBVIOUS
<1> HIDE DEF go
<1>6. PICK f : IsLoop(f, N, V, {free_lists[k]}, go)
  BY <1>1, <1>3, <1>4, LoopFunction
<1>7. /\ f \in [0 .. N -> V]
      /\ f = [n \in 0 .. N |-> IF n = 0 THEN {free_lists[k]} ELSE go[<<n, f[n - 1]>>]]
  BY <1>6 DEF IsLoop
<1>8. Is(f)
  <2>1. \A n \in 0 .. N : n # 0 => n \in 1 .. N /\ n - 1 \in 0 .. N
    BY <1>1
  <2>2. \A n \in 0 .. N : n # 0 => go[<<n, f[n - 1]>>] = More(f[n - 1])
    <3> HIDE DEF More
    <3> QED BY <1>5, <1>7, <2>1
  <2>3. \A n \in 0 .. N : (IF n = 0 THEN {free_lists[k]} ELSE go[<<n, f[n - 1]>>])
                            = IF n = 0 THEN {free_lists[k]} ELSE More(f[n - 1])
    <3> HIDE DEF More
    <3> QED BY <2>2
  <2>4. f = [n \in 0 .. N |-> IF n = 0 THEN {free_lists[k]} ELSE More(f[n - 1])]
    <3> HIDE DEF More
    <3> QED BY <1>7, <2>3
  <2> QED BY <2>4
<1>9. Reached(k) = CHOOSE g : Is(g)
  BY <1>N DEF Reached
<1>10. Is(Reached(k))
  <2> HIDE DEF Is
  <2> QED BY <1>8, <1>9
<1>11. Reached(k)[0] = {free_lists[k]}
  BY <1>1, <1>10
<1>12. ASSUME NEW n \in 0 .. N - 1
       PROVE  Reached(k)[n + 1]
                = Reached(k)[n] \cup {chunk[a].next : a \in Reached(k)[n] \ {NULL}}
  <2>1. n + 1 \in 0 .. N /\ n + 1 # 0 /\ (n + 1) - 1 = n
    BY <1>1
  <2> QED BY <1>10, <2>1
<1> QED BY <1>1, <1>11, <1>12, <1>N

\* Following the next fields from the head of a list finds exactly the free chunks of
\* its class: no owned chunk, and no chunk is missed.
LEMMA FollowingFinds ==
  ASSUME HeapInv, NEW c, ListInv(c), NEW k \in Class
  PROVE  OnFreeList(k) = FreeOf(c, k)
<1>N. PICK N : N = Cardinality(DOMAIN chunk)
  OBVIOUS
<1>R. PICK R : R = Reached(k)
  OBVIOUS
<1>0. IsFiniteSet(DOMAIN chunk) /\ ListOK(c, k)
  BY DEF ListInv
<1>1. /\ N \in Nat /\ R[0] = {free_lists[k]}
      /\ \A n \in 0 .. N - 1 : R[n + 1] = R[n] \cup {chunk[a].next : a \in R[n] \ {NULL}}
  BY <1>0, <1>N, <1>R, ReachedIs
<1>n. PICK n \in Nat : \E s \in [1 .. n -> FreeOf(c, k)] : IsFreeList(c, k, n, s)
  BY <1>0 DEF ListOK
<1>2. PICK s \in [1 .. n -> FreeOf(c, k)] : IsFreeList(c, k, n, s)
  BY <1>n
<1>s. /\ \A i \in 1 .. n : s[i] \in FreeOf(c, k)
      /\ \A i, j \in 1 .. n : s[i] = s[j] => i = j
      /\ \A x \in FreeOf(c, k) : \E i \in 1 .. n : s[i] = x
      /\ free_lists[k] = IF n = 0 THEN NULL ELSE s[1]
      /\ \A i \in 1 .. n : chunk[s[i]].next = IF i = n THEN NULL ELSE s[i + 1]
  BY <1>2 DEF IsFreeList
<1>3. \A a \in FreeOf(c, k) : chunk[a].next \in FreeOf(c, k) \cup {NULL}
  <2> SUFFICES ASSUME NEW a \in FreeOf(c, k)
               PROVE  chunk[a].next \in FreeOf(c, k) \cup {NULL}
    OBVIOUS
  <2>1. PICK i \in 1 .. n : s[i] = a
    BY <1>s
  <2>2. i # n => i + 1 \in 1 .. n
    OBVIOUS
  <2> QED BY <1>s, <2>1, <2>2
<1>4. \A i \in 0 .. N : R[i] \subseteq FreeOf(c, k) \cup {NULL}
  <2> DEFINE U == {i \in 0 .. N : R[i] \subseteq FreeOf(c, k) \cup {NULL}}
  <2>1. 0 \in U
    <3>1. n # 0 => 1 \in 1 .. n
      OBVIOUS
    <3> QED BY <1>1, <1>s, <3>1
  <2>2. ASSUME NEW i \in 0 .. N - 1, i \in U PROVE i + 1 \in U
    <3>1. i + 1 \in 0 .. N
      BY <1>1
    <3>2. R[i + 1] = R[i] \cup {chunk[a].next : a \in R[i] \ {NULL}}
      BY <1>1
    <3> QED BY <1>3, <2>2, <3>1, <3>2
  <2> HIDE DEF U
  <2>3. 0 .. N \subseteq U
    BY <1>1, <2>1, <2>2, IntervalInduction
  <2> QED BY <2>3 DEF U
<1>5. \A i \in 0 .. N : \A j \in 1 .. n : j <= i + 1 => s[j] \in R[i]
  <2> DEFINE U == {i \in 0 .. N : \A j \in 1 .. n : j <= i + 1 => s[j] \in R[i]}
  <2>1. 0 \in U
    <3>1. ASSUME NEW j \in 1 .. n, j <= 0 + 1 PROVE s[j] \in R[0]
      <4>1. j = 1 /\ n # 0
        BY <3>1
      <4> QED BY <1>1, <1>s, <4>1
    <3> QED BY <1>1, <3>1
  <2>2. ASSUME NEW i \in 0 .. N - 1, i \in U PROVE i + 1 \in U
    <3>1. i + 1 \in 0 .. N
      BY <1>1
    <3>2. R[i + 1] = R[i] \cup {chunk[a].next : a \in R[i] \ {NULL}}
      BY <1>1
    <3>3. ASSUME NEW j \in 1 .. n, j <= (i + 1) + 1 PROVE s[j] \in R[i + 1]
      <4>1. CASE j <= i + 1
        BY <2>2, <3>2, <4>1
      <4>2. CASE j = i + 2
        <5>1. i + 1 \in 1 .. n /\ i + 1 # n /\ (i + 1) + 1 = j /\ i + 1 <= i + 1
          BY <4>2
        <5>2. s[i + 1] \in R[i] /\ chunk[s[i + 1]].next = s[j]
          BY <1>s, <2>2, <5>1
        <5>3. s[i + 1] # NULL
          <6>1. s[i + 1] \in DOMAIN chunk
            BY <1>s, <5>1 DEF FreeOf
          <6> QED BY <6>1 DEF HeapInv, ListsTyped, NULL
        <5> QED BY <3>2, <5>2, <5>3
      <4> QED BY <3>3, <4>1, <4>2
    <3> QED BY <3>1, <3>3
  <2> HIDE DEF U
  <2>3. 0 .. N \subseteq U
    BY <1>1, <2>1, <2>2, IntervalInduction
  <2> QED BY <2>3 DEF U
<1>6. n <= N
  <2> SUFFICES ASSUME N < n PROVE FALSE
    BY <1>1
  <2>1. IsFiniteSet(1 .. n) /\ Cardinality(1 .. n) = n
    BY FS_Interval
  <2>2. s \in [1 .. n -> DOMAIN chunk]
    BY DEF FreeOf
  <2>3. \E x, y \in 1 .. n : x # y /\ s[x] = s[y]
    BY <1>0, <1>N, <2>1, <2>2, FS_PigeonHole
  <2> QED BY <1>s, <2>3
<1>7. OnFreeList(k) = R[N] \ {NULL}
  BY <1>N, <1>R DEF OnFreeList
<1>8. OnFreeList(k) \subseteq FreeOf(c, k)
  BY <1>1, <1>4, <1>7
<1>9. FreeOf(c, k) \subseteq OnFreeList(k)
  <2> SUFFICES ASSUME NEW a \in FreeOf(c, k) PROVE a \in OnFreeList(k)
    OBVIOUS
  <2>1. PICK j \in 1 .. n : s[j] = a
    BY <1>s
  <2>2. j <= N + 1 /\ N \in 0 .. N
    BY <1>1, <1>6
  <2>3. a # NULL
    BY DEF FreeOf, HeapInv, ListsTyped, NULL
  <2> QED BY <1>5, <1>7, <2>1, <2>2, <2>3
<1> QED BY <1>8, <1>9

LEMMA ListsSay ==
  ASSUME NEW c, Ctx = {c}
  PROVE  HeapInv /\ ListInv(c) => BlocksExclusive /\ NoChunkLost
<1> SUFFICES ASSUME HeapInv, ListInv(c), Quiet PROVE BlocksExclusive /\ NoChunkLost
  BY DEF BlocksExclusive, NoChunkLost
<1>1. call[c].pc = "idle" /\ InHand(c) = {}
  BY DEF Quiet, InHand
<1>2. Blocks = Mine(c)
  BY DEF Blocks, Mine
<1>3. \A k \in Class : OnFreeList(k) = FreeOf(c, k)
  BY FollowingFinds
<1>4. \A k \in Class : OnFreeList(k) \cap Blocks = {}
  BY <1>2, <1>3 DEF FreeOf
<1>5. \A k \in Class :
        {a \in DOMAIN chunk : chunk[a].size_class = k} \subseteq OnFreeList(k) \cup Blocks
  BY <1>1, <1>2, <1>3 DEF FreeOf
<1> QED BY <1>4, <1>5 DEF BlocksExclusive, NoChunkLost

\* With one context, malloc never hands out a block that is still owned: between calls
\* no owned block is on a free list, for every heap and after every mix of refills,
\* splits, mallocs and frees.  (With two contexts it is false: run heap_race.)
THEOREM BlocksStayExclusive ==
  ASSUME NEW c, Ctx = {c}
  PROVE  HeapSpec => []BlocksExclusive
<1>1. HeapInit => ListInv(c)
  BY ListsInitially
<1>2. HeapInv /\ ListInv(c) /\ [HeapNext]_heapVars => ListInv(c)'
  BY ListsStep
<1>3. HeapInv /\ ListInv(c) => BlocksExclusive
  BY ListsSay
<1> QED BY <1>1, <1>2, <1>3, HeapInvariance, PTL DEF HeapSpec

\* With one context no small chunk is ever lost: between calls each is owned by the
\* caller or found on the free list of its class, whatever the refill and free did.
THEOREM NoChunkEverLost ==
  ASSUME NEW c, Ctx = {c}
  PROVE  HeapSpec => []NoChunkLost
<1>1. HeapInit => ListInv(c)
  BY ListsInitially
<1>2. HeapInv /\ ListInv(c) /\ [HeapNext]_heapVars => ListInv(c)'
  BY ListsStep
<1>3. HeapInv /\ ListInv(c) => NoChunkLost
  BY ListsSay
<1> QED BY <1>1, <1>2, <1>3, HeapInvariance, PTL DEF HeapSpec
=============================================================================
