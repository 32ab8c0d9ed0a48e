-------------------------------- MODULE Heap --------------------------------
(***************************************************************************)
(* The allocator of src/kernel/memory/malloc.c: free lists of small chunks *)
(* by size class, a list of large chunks, one spin lock for each list, and *)
(* the refill that carves a large chunk into small ones.                   *)
(*                                                                         *)
(* Contexts (processes) are preempted anywhere.  A step ends where another *)
(* context can see or change what the code has read: at a lock, and        *)
(* between the read and the write of a free list's head, because the       *)
(* refill changes that head under the wrong lock.  The large list is only  *)
(* used under large_lock.  `prev' is left out: the code reads it only for  *)
(* large chunks, where the sequence `large' stands for both links.         *)
(***************************************************************************)
EXTENDS Integers, Sequences, FiniteSets, FiniteSetsExt

CONSTANTS
  Ctx,              \* the contexts that call malloc and free
  HDR,              \* sizeof(MemoryChunk)
  MIN_ALLOC_SIZE,
  size_classes,     \* sizes of the classes, ascending (indices from 1)
  REFILL,           \* total_size of a refill (4096 in the code)
  HEAP_SIZE,
  SIZE_MOD,         \* modulus of size_t (2^32 in the code)
  Requests,         \* the sizes callers ask for
  LIMIT             \* bound: no new call once the large list starts above it

ASSUME HeapAssumption ==
  /\ {HDR, MIN_ALLOC_SIZE, REFILL, HEAP_SIZE, LIMIT} \subseteq Nat \ {0}
  /\ size_classes \in Seq(1 .. REFILL - HDR)
  /\ SIZE_MOD \in Nat /\ SIZE_MOD > HEAP_SIZE + REFILL
  /\ HEAP_SIZE >= HDR
  /\ Requests \subseteq 0 .. SIZE_MOD - 1

VARIABLES
  large,        \* the list at manager->first: [at, size], first to last
  free_lists,   \* the head of each class's list
  chunk,        \* the headers in memory, by their address
  locks,        \* class_locks and large_lock
  call,         \* the malloc or free each context is in
  held          \* the blocks each context owns: [at, request]

heapVars == <<large, free_lists, chunk, locks, call, held>>

NULL       == 0
Class      == 1 .. Len(size_classes)
LARGE      == Len(size_classes) + 1   \* size class of a large chunk, and its lock
Chunk      == [next: Nat, size: 0 .. SIZE_MOD - 1, size_class: Class \cup {LARGE}]
Done       == [pc |-> "idle", request |-> 0, size |-> 0, class |-> LARGE,
               at |-> NULL, big |-> NULL, left |-> 0]
CallRecord == [pc: {"idle", "alloc", "refill", "carve", "link", "rest", "retry", "pop",
                    "report", "free", "push"},
               request: Requests \cup {0}, size: Nat, class: Class \cup {LARGE},
               at: Nat, big: Nat, left: Nat]

HeapTypeOK ==
  /\ large \in Seq([at: Nat \ {0}, size: 0 .. SIZE_MOD - 1])
  /\ free_lists \in [Class -> DOMAIN chunk \cup {NULL}]
  /\ \A a \in DOMAIN chunk : chunk[a] \in Chunk
  /\ locks \in [Class \cup {LARGE} -> BOOLEAN]
  /\ call \in [Ctx -> CallRecord]
  /\ held \in [Ctx -> SUBSET [at: DOMAIN chunk, request: Requests]]

on_init_memory_manager ==
  /\ large = <<[at |-> 1, size |-> HEAP_SIZE - HDR]>>
  /\ free_lists = [k \in Class |-> NULL]
  /\ chunk = [a \in {} |-> [next |-> NULL, size |-> 0, size_class |-> LARGE]]
  /\ locks = [k \in Class \cup {LARGE} |-> FALSE]

HeapInit ==
  /\ on_init_memory_manager
  /\ call = [c \in Ctx |-> Done]
  /\ held = [c \in Ctx |-> {}]

-----------------------------------------------------------------------------
get_size_class_index(size) ==
  LET fit == {k \in Class : size <= size_classes[k]}
  IN  IF fit = {} THEN LARGE ELSE Min(fit)

\* Mutant: the request is rounded down.
align_down(size) == (size \div MIN_ALLOC_SIZE) * MIN_ALLOC_SIZE

\* The request rounded up to a multiple of MIN_ALLOC_SIZE, in the width of size_t:
\* the last MIN_ALLOC_SIZE - 1 sizes become 0.
Align(size) ==
  (((size + MIN_ALLOC_SIZE - 1) % SIZE_MOD) \div MIN_ALLOC_SIZE) * MIN_ALLOC_SIZE

SetHeader(a, h) == [x \in DOMAIN chunk \cup {a} |-> IF x = a THEN h ELSE chunk[x]]

Without(s, i) == [j \in 1 .. Len(s) - 1 |-> IF j < i THEN s[j] ELSE s[j + 1]]

Goto(c, pc) == call' = [call EXCEPT ![c].pc = pc]
Return(c)   == call' = [call EXCEPT ![c] = Done]
Fail(c)     == call' = [call EXCEPT ![c] = [Done EXCEPT !.pc = "report"]]

Own(c, a) == held' = [held EXCEPT ![c] = @ \cup {[at |-> a, request |-> call[c].request]}]

Acquire(l) == ~locks[l] /\ locks' = [locks EXCEPT ![l] = TRUE]
Release(l) == locks' = [locks EXCEPT ![l] = FALSE]

-----------------------------------------------------------------------------
(* malloc.                                                                 *)

malloc(c, request) ==
  LET size == Align(request)
  IN  /\ call[c].pc = "idle"
      /\ large # << >> => large[1].at <= LIMIT
      /\ call' = [call EXCEPT ![c] = [Done EXCEPT !.pc = "alloc", !.size = size,
                    !.request = request, !.class = get_size_class_index(size)]]
      /\ UNCHANGED <<large, free_lists, chunk, locks, held>>

\* Mutant: the rest starts before the end of the block.
SplitEarly(i, size) ==
  LET b == large[i]
  IN  IF b.size < size + HDR + MIN_ALLOC_SIZE
      THEN [size |-> b.size, list |-> Without(large, i)]
      ELSE [size |-> size,
            list |-> <<[at |-> b.at + size, size |-> b.size - size - HDR]>>
                       \o Without(large, i)]

\* The list after its chunk i is taken for `size' bytes: a chunk that is big
\* enough is split and its rest becomes the new first chunk.  The sum of line 63
\* does not wrap: no chunk is larger than the rest of a refill, which is REFILL
\* less a class below SIZE_MOD.
Split(i, size) ==
  LET b == large[i]
  IN  IF b.size < size + HDR + MIN_ALLOC_SIZE
      THEN [size |-> b.size, list |-> Without(large, i)]
      ELSE [size |-> size,
            list |-> <<[at |-> b.at + HDR + size, size |-> b.size - size - HDR]>>
                       \o Without(large, i)]

\* The smallest large chunk that fits; the first one of equal sizes.
BestFit(i, size) ==
  /\ large[i].size >= size
  /\ \A j \in DOMAIN large : large[j].size >= size =>
       large[i].size < large[j].size \/ (large[i].size = large[j].size /\ i <= j)

\* A large request, from acquire_lock to release_lock.
AllocateLarge(c) ==
  LET size == call[c].size
  IN  /\ call[c].pc = "alloc" /\ call[c].class = LARGE
      /\ ~locks[LARGE]
      /\ \/ \E i \in DOMAIN large :
              /\ BestFit(i, size)
              /\ large' = Split(i, size).list
              /\ chunk' = SetHeader(large[i].at, [next |-> NULL, size_class |-> LARGE,
                                                  size |-> Split(i, size).size])
              /\ Own(c, large[i].at)
              /\ Return(c)
         \/ /\ \A i \in DOMAIN large : large[i].size < size
            /\ Fail(c)
            /\ UNCHANGED <<large, chunk, held>>
      /\ UNCHANGED <<free_lists, locks>>

\* Mutant: the class lock is still held during the refill.
AllocateSmallKeepsLock(c) ==
  LET k == call[c].class
  IN  /\ call[c].pc = "alloc" /\ k # LARGE
      /\ Acquire(k)
      /\ call' = [call EXCEPT ![c].at = free_lists[k],
                              ![c].pc = IF free_lists[k] = NULL THEN "refill" ELSE "pop"]
      /\ UNCHANGED <<large, free_lists, chunk, held>>

\* A small request locks its class and reads the head of its list; the lock is
\* released again when the list is empty.
AllocateSmall(c) ==
  LET k == call[c].class
  IN  /\ call[c].pc = "alloc" /\ k # LARGE
      /\ IF free_lists[k] = NULL THEN ~locks[k] /\ UNCHANGED locks ELSE Acquire(k)
      /\ call' = [call EXCEPT ![c].at = free_lists[k],
                              ![c].pc = IF free_lists[k] = NULL THEN "refill" ELSE "pop"]
      /\ UNCHANGED <<large, free_lists, chunk, held>>

\* After the refill: the lock again, and failure if the list is still empty.
Retry(c) ==
  LET k == call[c].class
  IN  /\ call[c].pc = "retry"
      /\ IF free_lists[k] = NULL
         THEN ~locks[k] /\ UNCHANGED locks /\ Fail(c)
         ELSE /\ Acquire(k)
              /\ call' = [call EXCEPT ![c].at = free_lists[k], ![c].pc = "pop"]
      /\ UNCHANGED <<large, free_lists, chunk, held>>

\* Mutant: the chunk is handed out and stays on its list.
PopKeepsHead(c) ==
  /\ call[c].pc = "pop"
  /\ Own(c, call[c].at)
  /\ Release(call[c].class)
  /\ Return(c)
  /\ UNCHANGED <<large, free_lists, chunk>>

\* The chunk read before is unlinked and handed out.
Pop(c) ==
  LET k == call[c].class
  IN  /\ call[c].pc = "pop"
      /\ free_lists' = [free_lists EXCEPT ![k] = chunk[call[c].at].next]
      /\ Own(c, call[c].at)
      /\ Release(k)
      /\ Return(c)
      /\ UNCHANGED <<large, chunk>>

\* A malloc that failed prints the lists before it returns 0: it takes large_lock
\* and then each class lock in turn, holding one at a time (`left' is the class).
print_memory_status(c) ==
  LET l == IF call[c].left = 0 THEN LARGE ELSE call[c].left
  IN  /\ call[c].pc = "report"
      /\ ~locks[l]
      /\ IF call[c].left = Len(size_classes) THEN Return(c)
         ELSE call' = [call EXCEPT ![c].left = @ + 1]
      /\ UNCHANGED <<large, free_lists, chunk, locks, held>>

-----------------------------------------------------------------------------
(* refill_size_class, called with large_lock held and the class unlocked.  *)

\* The first chunk of at least REFILL bytes is taken off the list.
BeginRefill(c) ==
  LET big == {i \in DOMAIN large : large[i].size >= REFILL}
      n   == REFILL \div (size_classes[call[c].class] + HDR)
  IN  /\ call[c].pc = "refill"
      /\ IF big = {}
         THEN ~locks[LARGE] /\ Goto(c, "retry") /\ UNCHANGED <<large, locks>>
         ELSE /\ Acquire(LARGE)
              /\ large' = Without(large, Min(big))
              /\ call' = [call EXCEPT ![c].pc = "carve", ![c].at = large[Min(big)].at,
                                      ![c].big = large[Min(big)].at,
                                      ![c].left = IF n = 0 THEN 1 ELSE n]
      /\ UNCHANGED <<free_lists, chunk, held>>

\* A new small chunk gets its header, with the head of the list as its next.
Carve(c) ==
  LET k == call[c].class
  IN  /\ call[c].pc = "carve"
      /\ chunk' = SetHeader(call[c].at, [next |-> free_lists[k], size_class |-> k,
                                         size |-> size_classes[k]])
      /\ Goto(c, "link")
      /\ UNCHANGED <<large, free_lists, locks, held>>

Link(c) ==
  LET k == call[c].class
  IN  /\ call[c].pc = "link"
      /\ free_lists' = [free_lists EXCEPT ![k] = call[c].at]
      /\ call' = [call EXCEPT ![c].at = @ + HDR + size_classes[k], ![c].left = @ - 1,
                              ![c].pc = IF call[c].left = 1 THEN "rest" ELSE "carve"]
      /\ UNCHANGED <<large, chunk, locks, held>>

\* Line 176 reads the size of the big chunk where the first small chunk's header
\* is by now; the unsigned difference wraps.
Rest(c) ==
  LET size == (chunk[call[c].big].size - REFILL) % SIZE_MOD
  IN  /\ call[c].pc = "rest"
      /\ large' = IF size > HDR + MIN_ALLOC_SIZE
                  THEN <<[at |-> call[c].big + REFILL, size |-> size - HDR]>> \o large
                  ELSE large
      /\ Release(LARGE)
      /\ Goto(c, "retry")
      /\ UNCHANGED <<free_lists, chunk, held>>

-----------------------------------------------------------------------------
(* free.                                                                   *)

free(c, h) ==
  /\ call[c].pc = "idle"
  /\ h \in held[c]
  /\ held' = [held EXCEPT ![c] = @ \ {h}]
  /\ call' = [call EXCEPT ![c] = [Done EXCEPT !.pc = "free", !.at = h.at,
                                              !.class = chunk[h.at].size_class]]
  /\ UNCHANGED <<large, free_lists, chunk, locks>>

\* An allocated large chunk has no neighbours (both its links are 0), so the
\* merge loops do nothing and the chunk returns to no list.
FreeLarge(c) ==
  /\ call[c].pc = "free" /\ call[c].class = LARGE
  /\ ~locks[LARGE]
  /\ Return(c)
  /\ UNCHANGED <<large, free_lists, chunk, locks, held>>

\* Mutant: the freed chunk keeps its old next pointer.
FreeKeepsNext(c) ==
  /\ call[c].pc = "free" /\ call[c].class # LARGE
  /\ Acquire(call[c].class)
  /\ Goto(c, "push")
  /\ UNCHANGED <<large, free_lists, chunk, held>>

FreeSmall(c) ==
  LET k == call[c].class
  IN  /\ call[c].pc = "free" /\ k # LARGE
      /\ Acquire(k)
      /\ chunk' = [chunk EXCEPT ![call[c].at].next = free_lists[k]]
      /\ Goto(c, "push")
      /\ UNCHANGED <<large, free_lists, held>>

Push(c) ==
  LET k == call[c].class
  IN  /\ call[c].pc = "push"
      /\ free_lists' = [free_lists EXCEPT ![k] = call[c].at]
      /\ Release(k)
      /\ Return(c)
      /\ UNCHANGED <<large, chunk, held>>

\* The rest of a call of c.
Proceed(c) ==
  \/ AllocateLarge(c) \/ AllocateSmall(c) \/ Retry(c) \/ Pop(c) \/ print_memory_status(c)
  \/ BeginRefill(c) \/ Carve(c) \/ Link(c) \/ Rest(c)
  \/ FreeLarge(c) \/ FreeSmall(c) \/ Push(c)

HeapNext ==
  \E c \in Ctx :
    \/ \E r \in Requests : malloc(c, r)
    \/ \E h \in held[c] : free(c, h)
    \/ Proceed(c)

\* A context inside a call keeps getting the CPU.  With one context, as in the
\* run that checks CallsReturn, nothing else asks for it.
HeapSpec == HeapInit /\ [][HeapNext]_heapVars /\ \A c \in Ctx : WF_heapVars(Proceed(c))

-----------------------------------------------------------------------------
(* What the allocator promises.                                            *)

Blocks == {h.at : h \in UNION {held[c] : c \in Ctx}}

\* What n steps along the next fields of class k's list reach, NULL included.
Reached(k) ==
  LET seen[n \in 0 .. Cardinality(DOMAIN chunk)] ==
        IF n = 0 THEN {free_lists[k]}
        ELSE seen[n - 1] \cup {chunk[a].next : a \in seen[n - 1] \ {NULL}}
  IN  seen

\* The chunks on the free list of class k.
OnFreeList(k) == Reached(k)[Cardinality(DOMAIN chunk)] \ {NULL}

Quiet == \A c \in Ctx : call[c].pc = "idle"

\* Between calls no block has two owners, and no block that is owned is on a free
\* list, where the next malloc would hand it out again (malloc.h:27, "lock the
\* free list of each size class separately").
BlocksExclusive ==
  Quiet => /\ \A k \in Class : OnFreeList(k) \cap Blocks = {}
           /\ \A c, d \in Ctx : c # d =>
                {h.at : h \in held[c]} \cap {h.at : h \in held[d]} = {}

\* Between calls every small chunk that no caller owns is on the free list of its
\* own class: none is lost when a refill is followed by other calls.
NoChunkLost ==
  Quiet => \A k \in Class :
    {a \in DOMAIN chunk : chunk[a].size_class = k} \subseteq OnFreeList(k) \cup Blocks

\* No two chunks overlap, headers included, whatever was split, carved or
\* returned before.
ChunksDisjoint ==
  /\ HeapTypeOK
  /\ \A a, b \in DOMAIN chunk : a < b => a + HDR + chunk[a].size <= b

\* What the rounding of malloc leaves of a request: nothing of those it wraps.
Asked(request) == IF request > SIZE_MOD - MIN_ALLOC_SIZE THEN 0 ELSE request

\* A block is at least as large as the caller asked for, whichever list it
\* came from and whoever used it before.  Only the last sizes of a size_t, which
\* malloc.c:266 rounds to 0, get less: a block of the smallest class.
BlockFits ==
  \A h \in UNION {held[c] : c \in Ctx} : chunk[h.at].size >= Asked(h.request)

\* Every malloc and free returns: no path keeps a lock or takes one twice.
CallsReturn == \A c \in Ctx : (call[c].pc # "idle") ~> (call[c].pc = "idle")
=============================================================================
