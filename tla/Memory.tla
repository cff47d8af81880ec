------------------------------- MODULE Memory -------------------------------
(***************************************************************************)
(* The SparrowOS free-list allocator, lab3-1-sparrowos-memory-module/src/  *)
(* memory.c, with the block layouts of src/memory.h.                       *)
(*                                                                         *)
(* Memory is a function from the 8-byte words of the heap to their values, *)
(* because the two block layouts overlay each other:                       *)
(*                                                                         *)
(*   byte            0            8                       16               *)
(*   free_block_t    next         size                    magic            *)
(*   block_header_t  size         magic (8), used (9)     payload ...      *)
(*                                                                         *)
(* so kmalloc's header->size overwrites next, and its magic and used bytes *)
(* overwrite the two low bytes of the free size.                           *)
(*                                                                         *)
(* The loops over the free list are taken one iteration per step, because  *)
(* the list may be corrupt and a loop need not end.  There is one thread:  *)
(* an entry point is enabled only when op.pc is "idle".  printk and the    *)
(* magic checks that only print are left out.                              *)
(***************************************************************************)
EXTENDS Integers, FiniteSets

CONSTANTS
  HeapStart, HeapEnd,  \* the region memory_init is given, already aligned
  Word,                \* 2^64, where size_t and uint64_t wrap
  Requests,            \* the sizes callers ask for
  Fill,                \* the word a caller writes over the memory it was given
  MaxAllocs            \* bound: successful allocations in one behaviour

FREE_BLOCK == 24       \* sizeof(free_block_t)
HEADER_SIZE == 16      \* sizeof(block_header_t)
MIN_BLOCK_SIZE == FREE_BLOCK + 8
BLOCK_MAGIC == 171
MEM_ALIGNMENT == 8
NULL == 0

Total == HeapEnd - HeapStart

ASSUME MemoryConstants ==
  /\ HeapStart \in Nat \ {0} /\ HeapStart % MEM_ALIGNMENT = 0
  /\ HeapEnd \in Nat /\ HeapEnd % MEM_ALIGNMENT = 0
  /\ Total >= FREE_BLOCK
  /\ Word \in Nat /\ Word > HeapEnd + HeapEnd /\ Word % MEM_ALIGNMENT = 0
  /\ Requests \subseteq Nat
  /\ Fill \in 0..(Word - 1)
  /\ MaxAllocs \in Nat

Words == {a \in HeapStart..(HeapEnd - 1) : a % MEM_ALIGNMENT = 0}

VARIABLES
  mem,    \* the words of the heap
  mgr,    \* mem_manager: free_list and the counters
  op,     \* the call in progress: its program counter and local variables
  live,   \* what callers hold: records [ptr, size] of allocations not yet freed
  freed,  \* pointers callers have freed and not been given again
  fresh,  \* no kfree has succeeded and no split has wrapped below zero
  wild    \* the allocator has followed or written a pointer outside the heap

vars == <<mem, mgr, op, live, freed, fresh, wild>>

ALIGN_UP(n) == ((n + MEM_ALIGNMENT - 1) \div MEM_ALIGNMENT) * MEM_ALIGNMENT

\* A block whose three words lie in the heap.
InHeap(b) == {b, b + 8, b + 16} \subseteq Words

Payload(p, n) == {w \in Words : p <= w /\ w < p + n}

\* free_block_t.
Next_(b) == mem[b]
Size(b) == mem[b + 8]

\* The bytes magic and used of block_header_t, in the word they share.
HeaderMagic(b) == mem[b + 8] % 256
HeaderUsed(b) == (mem[b + 8] \div 256) % 256
WithHeader(w, used) == (w \div 65536) * 65536 + used * 256 + BLOCK_MAGIC

\* block->magic = BLOCK_MAGIC: the low byte of the third word.
WithMagic(w) == (w \div 256) * 256 + BLOCK_MAGIC

Idle == [pc |-> "idle", size |-> 0, curr |-> NULL, best |-> NULL,
         best_size |-> 0, retried |-> FALSE, old |-> NULL, zero |-> FALSE]

\* memory_init.
Init ==
  /\ mem = [w \in Words |->
              IF w = HeapStart + 8 THEN Total - FREE_BLOCK
              ELSE IF w = HeapStart + 16 THEN BLOCK_MAGIC ELSE 0]
  /\ mgr = [free_list |-> HeapStart, free_memory |-> Total - FREE_BLOCK,
            used_memory |-> 0, alloc_count |-> 0, free_count |-> 0]
  /\ op = Idle
  /\ live = {}
  /\ freed = {}
  /\ fresh = TRUE
  /\ wild = FALSE

-----------------------------------------------------------------------------
\* Entry points.

Ready == ~wild /\ op.pc = "idle"

\* The start of a search of the free list for n bytes.
Search(n, old, zero, retried) ==
  [pc |-> "fit", size |-> n, curr |-> mgr.free_list, best |-> NULL,
   best_size |-> Word - 1, retried |-> retried, old |-> old, zero |-> zero]

\* kmalloc(n); for kcalloc, whose product wraps, zero is TRUE.  A request for 0
\* bytes returns NULL at once, and so changes nothing.
kmalloc(n, zero) ==
  /\ Ready
  /\ mgr.alloc_count < MaxAllocs
  /\ n # 0
  /\ op' = Search(ALIGN_UP(n) % Word, NULL, zero, FALSE)
  /\ UNCHANGED <<mem, mgr, live, freed, fresh, wild>>

kcalloc(num, n) == kmalloc((num * n) % Word, TRUE)

\* krealloc(a.ptr, n) for a block that is too small; one that is large enough
\* is returned as it is.
krealloc(a, n) ==
  /\ Ready
  /\ mgr.alloc_count < MaxAllocs
  /\ n # 0
  /\ mem[a.ptr - HEADER_SIZE] < n
  /\ op' = Search(ALIGN_UP(n) % Word, a.ptr, FALSE, FALSE)
  /\ UNCHANGED <<mem, mgr, live, freed, fresh, wild>>

\* Mutant: the double-free test is missing.
FreeableTwice(b) ==
  /\ HeapStart <= b /\ b < HeapEnd
  /\ HeaderMagic(b) = BLOCK_MAGIC

\* kfree's checks: inside the heap, the magic byte, the used byte.
Freeable(b) ==
  /\ HeapStart <= b /\ b < HeapEnd
  /\ HeaderMagic(b) = BLOCK_MAGIC
  /\ HeaderUsed(b) # 0

\* The rest of kfree for a block that passes them.  header->size is read after
\* add_to_free_list has stored next over it; the two members have different
\* types, so a compiler that assumes they do not alias may also read the old
\* value.
Release(b, ptr) ==
  /\ mem' = [mem EXCEPT ![b] = mgr.free_list,
                        ![b + 8] = WithHeader(@, 0),
                        ![b + 16] = WithMagic(@)]
  /\ \E size \in {mem[b], mgr.free_list} :
       mgr' = [mgr EXCEPT !.free_list = b,
                          !.used_memory = (@ - (size + HEADER_SIZE)) % Word,
                          !.free_memory = (@ + size + HEADER_SIZE) % Word,
                          !.free_count = @ + 1]
  /\ op' = [Idle EXCEPT !.pc = "coalesce", !.curr = b]
  /\ live' = {a \in live : a.ptr # ptr}
  /\ freed' = freed \cup {ptr}
  /\ fresh' = FALSE
  /\ UNCHANGED wild

\* A caller frees a pointer it holds, or frees one a second time.
kfree(ptr) ==
  LET b == ptr - HEADER_SIZE IN
  /\ Ready
  /\ \/ Freeable(b) /\ Release(b, ptr)
     \/ /\ ~Freeable(b)
        /\ live' = {a \in live : a.ptr # ptr}
        /\ freed' = freed \cup {ptr}
        /\ UNCHANGED <<mem, mgr, op, fresh, wild>>

\* A caller writes the memory it was given.
CallerWrites(a) ==
  /\ Ready
  /\ mem' = [w \in Words |-> IF w \in Payload(a.ptr, a.size) THEN Fill ELSE mem[w]]
  /\ UNCHANGED <<mgr, op, live, freed, fresh, wild>>

-----------------------------------------------------------------------------
\* The loops and the steps between them.

\* Mutant: the search does not move on from a block that is too small.
FitStuck ==
  LET b == op.curr
      better == Size(b) >= op.size /\ Size(b) < op.best_size
  IN
  /\ ~wild /\ op.pc = "fit" /\ b # NULL /\ InHeap(b)
  /\ op' = [op EXCEPT !.best = IF better THEN b ELSE @,
                      !.best_size = IF better THEN Size(b) ELSE @,
                      !.curr = IF better THEN NULL ELSE @]
  /\ UNCHANGED <<mem, mgr, live, freed, fresh, wild>>

\* One iteration of find_best_fit.
FitStep ==
  LET b == op.curr
      better == Size(b) >= op.size /\ Size(b) < op.best_size
  IN
  /\ ~wild /\ op.pc = "fit" /\ b # NULL /\ InHeap(b)
  /\ op' = [op EXCEPT !.best = IF better THEN b ELSE @,
                      !.best_size = IF better THEN Size(b) ELSE @,
                      !.curr = IF better /\ Size(b) = op.size THEN NULL ELSE Next_(b)]
  /\ UNCHANGED <<mem, mgr, live, freed, fresh, wild>>

\* find_best_fit returns: split the block, coalesce and look again, or give up.
FitDone ==
  /\ ~wild /\ op.pc = "fit" /\ op.curr = NULL
  /\ op' = IF op.best # NULL THEN [op EXCEPT !.pc = "split"]
           ELSE IF ~op.retried
                THEN [op EXCEPT !.pc = "coalesce", !.curr = mgr.free_list]
                ELSE Idle
  /\ UNCHANGED <<mem, mgr, live, freed, fresh, wild>>

\* One iteration of coalesce_blocks.
CoalesceStep ==
  LET b == op.curr
      n == Next_(b)
      adjacent == n # NULL /\ b + FREE_BLOCK + Size(b) = n
  IN
  /\ ~wild /\ op.pc = "coalesce" /\ b # NULL /\ InHeap(b)
  /\ \/ /\ adjacent
        /\ InHeap(n)
        /\ mem' = [mem EXCEPT ![b] = Next_(n),
                              ![b + 8] = (@ + FREE_BLOCK + Size(n)) % Word]
        /\ mgr' = [mgr EXCEPT !.free_memory = (@ + FREE_BLOCK) % Word]
        /\ UNCHANGED op
     \/ /\ ~adjacent
        /\ op' = [op EXCEPT !.curr = n]
        /\ UNCHANGED <<mem, mgr>>
  /\ UNCHANGED <<live, freed, fresh, wild>>

\* coalesce_blocks returns to kfree, which returns, or to kmalloc, which looks again.
CoalesceDone ==
  /\ ~wild /\ op.pc = "coalesce" /\ op.curr = NULL
  /\ op' = IF op.size = 0 THEN Idle ELSE Search(op.size, op.old, op.zero, TRUE)
  /\ UNCHANGED <<mem, mgr, live, freed, fresh, wild>>

\* split_block and the first lines of remove_from_free_list.  remaining is
\* unsigned: it wraps when the block is less than a free_block_t too large.
Remaining(b) == (Size(b) - op.size - FREE_BLOCK) % Word

\* Mutant: the new block starts where the payload does, not past it.
SplitShort(b) ==
  LET new == b + FREE_BLOCK IN
  /\ Remaining(b) >= MIN_BLOCK_SIZE
  /\ InHeap(new)
  /\ mem' = [mem EXCEPT ![new] = Next_(b), ![new + 8] = Remaining(b),
                        ![new + 16] = WithMagic(@), ![b] = new, ![b + 8] = op.size]
  /\ mgr' = [mgr EXCEPT !.free_memory = (@ - FREE_BLOCK) % Word]

SplitBlock(b) ==
  LET new == b + FREE_BLOCK + op.size IN
  /\ Remaining(b) >= MIN_BLOCK_SIZE
  /\ InHeap(new)
  /\ mem' = [mem EXCEPT ![new] = Next_(b), ![new + 8] = Remaining(b),
                        ![new + 16] = WithMagic(@), ![b] = new, ![b + 8] = op.size]
  /\ mgr' = [mgr EXCEPT !.free_memory = (@ - FREE_BLOCK) % Word]

split_block ==
  LET b == op.best IN
  /\ ~wild /\ op.pc = "split"
  /\ \/ SplitBlock(b)
     \/ Remaining(b) < MIN_BLOCK_SIZE /\ UNCHANGED <<mem, mgr>>
  /\ op' = [op EXCEPT !.pc = "unlink", !.curr = mgr.free_list]
  /\ fresh' = (fresh /\ Size(b) >= op.size + FREE_BLOCK)
  /\ UNCHANGED <<live, freed, wild>>

\* remove_from_free_list: one iteration of the walk to the predecessor.
UnlinkStep ==
  LET c == op.curr IN
  /\ ~wild /\ op.pc = "unlink" /\ c # NULL /\ c # op.best /\ c \in Words
  /\ Next_(c) # op.best
  /\ op' = [op EXCEPT !.curr = Next_(c)]
  /\ UNCHANGED <<mem, mgr, live, freed, fresh, wild>>

\* The head of the list, an inner element, or a block the walk did not find.
UnlinkDone ==
  LET c == op.curr
      b == op.best
  IN
  /\ ~wild /\ op.pc = "unlink"
  /\ \/ /\ c = b
        /\ mgr' = [mgr EXCEPT !.free_list = Next_(b)]
        /\ UNCHANGED mem
     \/ /\ c # b /\ c # NULL /\ c \in Words
        /\ Next_(c) = b
        /\ mem' = [mem EXCEPT ![c] = Next_(b)]
        /\ UNCHANGED mgr
     \/ c = NULL /\ UNCHANGED <<mem, mgr>>
  /\ op' = [op EXCEPT !.pc = "commit"]
  /\ UNCHANGED <<live, freed, fresh, wild>>

\* Mutant: the statistics forget the header.
CommitHeaderless(b, m) ==
  /\ mem' = m
  /\ mgr' = [mgr EXCEPT !.used_memory = (@ + op.size) % Word,
                        !.free_memory = (@ - op.size) % Word,
                        !.alloc_count = @ + 1]
  /\ live' = live \cup {[ptr |-> b + HEADER_SIZE, size |-> op.size]}
  /\ freed' = freed \ {b + HEADER_SIZE}
  /\ op' = IF op.old = NULL THEN Idle ELSE [Idle EXCEPT !.pc = "refree", !.old = op.old]
  /\ UNCHANGED <<fresh, wild>>

\* kmalloc's header, statistics and result.
Commit(b, m) ==
  /\ mem' = m
  /\ mgr' = [mgr EXCEPT !.used_memory = (@ + op.size + HEADER_SIZE) % Word,
                        !.free_memory = (@ - (op.size + HEADER_SIZE)) % Word,
                        !.alloc_count = @ + 1]
  /\ live' = live \cup {[ptr |-> b + HEADER_SIZE, size |-> op.size]}
  /\ freed' = freed \ {b + HEADER_SIZE}
  /\ op' = IF op.old = NULL THEN Idle ELSE [Idle EXCEPT !.pc = "refree", !.old = op.old]
  /\ UNCHANGED <<fresh, wild>>

\* Mutant: the header is taken to be part of the size.
CopiedLess(m, dst, src, n) ==
  [w \in Words |-> IF w \notin Payload(dst, n - HEADER_SIZE) THEN m[w]
                   ELSE IF w - dst + src \in Words THEN m[w - dst + src] ELSE Fill]

\* The heap m with the words of dst replaced by the n bytes at src, for memcpy;
\* what lies outside the heap is not known to the model.
Copied(m, dst, src, n) ==
  [w \in Words |-> IF w \notin Payload(dst, n) THEN m[w]
                   ELSE IF w - dst + src \in Words THEN m[w - dst + src] ELSE Fill]

\* The end of kmalloc, with kcalloc's memset and krealloc's memcpy.  These two take
\* the size as it was asked for and op.size is aligned: a last word that the code
\* clears or copies in part is taken as a whole, which differs in bytes beyond
\* those asked for only.
FinishAlloc ==
  LET b == op.best
      p == b + HEADER_SIZE
      m == [mem EXCEPT ![b] = op.size, ![b + 8] = WithHeader(@, 1)]
      kept == m[op.old - HEADER_SIZE]
  IN
  /\ ~wild /\ op.pc = "commit"
  /\ \/ op.old = NULL /\ ~op.zero /\ Commit(b, m)
     \/ /\ op.zero
        /\ Commit(b, [w \in Words |-> IF w \in Payload(p, op.size) THEN 0 ELSE m[w]])
     \/ /\ op.old # NULL
        /\ Commit(b, Copied(m, p, op.old, IF kept < op.size THEN kept ELSE op.size))

\* krealloc frees the old block.
FreeOld ==
  LET b == op.old - HEADER_SIZE IN
  /\ ~wild /\ op.pc = "refree"
  /\ \/ Freeable(b) /\ Release(b, op.old)
     \/ /\ ~Freeable(b)
        /\ op' = Idle
        /\ live' = {a \in live : a.ptr # op.old}
        /\ freed' = freed \cup {op.old}
        /\ UNCHANGED <<mem, mgr, fresh, wild>>

\* The next access of the call in progress is outside the heap.  What it reads
\* or destroys there is unknown, so the model stops.
WildAccess ==
  LET c == op.curr IN
  /\ ~wild
  /\ \/ op.pc \in {"fit", "coalesce"} /\ c # NULL /\ ~InHeap(c)
     \/ op.pc = "coalesce" /\ c # NULL /\ InHeap(c) /\ ~InHeap(Next_(c))
          /\ Next_(c) # NULL /\ c + FREE_BLOCK + Size(c) = Next_(c)
     \/ op.pc = "split" /\ Remaining(op.best) >= MIN_BLOCK_SIZE
          /\ ~InHeap(op.best + FREE_BLOCK + op.size)
     \/ op.pc = "unlink" /\ c # NULL /\ c # op.best /\ c \notin Words
  /\ wild' = TRUE
  /\ fresh' = (fresh /\ ~(op.pc = "split" /\ Size(op.best) < op.size + FREE_BLOCK))
  /\ UNCHANGED <<mem, mgr, op, live, freed>>

Step ==
  \/ FitStep \/ FitDone \/ CoalesceStep \/ CoalesceDone
  \/ split_block \/ UnlinkStep \/ UnlinkDone \/ FinishAlloc \/ FreeOld \/ WildAccess

Call ==
  \/ \E n \in Requests : kmalloc(n, FALSE)
  \/ \E n \in Requests : kcalloc(2, n)
  \/ \E a \in live, n \in Requests : krealloc(a, n)
  \/ \E ptr \in {a.ptr : a \in live} \cup freed : kfree(ptr)
  \/ \E a \in live : CallerWrites(a)

Next == Call \/ Step

Spec == Init /\ [][Next]_vars

\* A call in progress goes on: there is one thread and nothing blocks it.
FairSpec == Spec /\ WF_vars(Step)

-----------------------------------------------------------------------------
\* Types of the variables and of the call in progress.
TypeOK ==
  /\ mem \in [Words -> Nat]
  /\ mgr \in [free_list : Nat, free_memory : Nat, used_memory : Nat,
              alloc_count : Nat, free_count : Nat]
  /\ op \in [pc : {"idle", "fit", "coalesce", "split", "unlink", "commit", "refree"},
             size : Nat, curr : Nat, best : Nat, best_size : Nat, retried : BOOLEAN,
             old : Nat, zero : BOOLEAN]
  /\ live \subseteq [ptr : Nat, size : Nat]
  /\ freed \subseteq Nat
  /\ fresh \in BOOLEAN
  /\ wild \in BOOLEAN

\* The blocks callers hold, headers included, lie in the heap and do not overlap.
Disjoint ==
  /\ \A a \in live : HeapStart <= a.ptr - HEADER_SIZE /\ a.ptr + a.size <= HeapEnd
  /\ \A a, b \in live : a = b \/ a.ptr + a.size <= b.ptr - HEADER_SIZE
                             \/ b.ptr + b.size <= a.ptr - HEADER_SIZE

\* Until the first block is freed, and as long as no request comes within a
\* free_block_t of the size of the block that serves it, kmalloc, kcalloc and
\* krealloc are correct: blocks are disjoint and in the heap, and no list
\* pointer leads outside it, whatever callers write into their blocks.
FreshDisjoint == fresh => Disjoint /\ ~wild

\* What FreshDisjoint rests on, an inductive invariant: the free list is empty or
\* one block, which reaches from behind everything callers hold to the end of the
\* heap; kmalloc cuts the front off it.
LastBlock(b) == InHeap(b) /\ Next_(b) = NULL /\ b + FREE_BLOCK + Size(b) = HeapEnd
Behind(b) == \A a \in live : a.ptr + a.size <= b

\* The block kmalloc has chosen, and what follows it on the list.
Chosen(next) ==
  /\ InHeap(op.best) /\ Behind(op.best)
  /\ op.best + FREE_BLOCK + op.size <= HeapEnd
  /\ next # NULL => LastBlock(next) /\ op.best + FREE_BLOCK + op.size <= next

OneFreeBlock ==
  op.pc # "unlink" /\ mgr.free_list # NULL =>
    LastBlock(mgr.free_list) /\ Behind(mgr.free_list)

CallInProgress ==
  /\ op.size % MEM_ALIGNMENT = 0
  /\ op.old # NULL => op.pc # "idle" /\ \E a \in live : a.ptr = op.old
  /\ op.pc \in {"fit", "coalesce"} => {op.curr, op.best} \subseteq {NULL, mgr.free_list}
  /\ op.pc = "split" => op.best = mgr.free_list /\ op.best # NULL
  /\ op.pc = "unlink" => /\ op.curr = op.best /\ mgr.free_list = op.best
                         /\ Chosen(Next_(op.best))
  /\ op.pc = "commit" => Chosen(mgr.free_list)

HeldBlocks == \A a \in live : a.ptr - HEADER_SIZE \in Words

FreshIInv ==
  fresh => /\ TypeOK /\ ~wild /\ Disjoint
           /\ OneFreeBlock /\ CallInProgress /\ HeldBlocks

\* What is used and how, in the fresh phase: nothing has been freed, every block
\* callers hold still has the header kmalloc gave it, and used_memory counts the
\* bytes in use.  On top of FreshIInv this is inductive too.
InUse ==
  {x \in HeapStart..(HeapEnd - 1) :
     \E a \in live : a.ptr - HEADER_SIZE <= x /\ x < a.ptr + a.size}

HeldHeaders ==
  \A a \in live :
    LET b == a.ptr - HEADER_SIZE IN
    /\ mem[b] = a.size
    /\ HeaderMagic(b) = BLOCK_MAGIC
    /\ HeaderUsed(b) = 1

UsageIInv ==
  fresh => /\ freed = {}
           /\ HeldHeaders
           /\ op.zero => op.old = NULL
           /\ op.pc = "refree" => op.old # NULL
           /\ mgr.used_memory = Cardinality(InUse)

\* In the phase before the first kfree, used_memory is what callers hold, headers
\* included, in bytes: kmalloc's bookkeeping loses no block and counts none twice.
FreshAccounting == fresh => mgr.used_memory = Cardinality(InUse)

\* The heap as Allocator sees it: only what callers hold and ask for.
Held == IF fresh THEN live ELSE {}

HeldData ==
  [w \in {c \in Words : \E a \in Held : a.ptr <= c /\ c < a.ptr + a.size} |-> mem[w]]

Request ==
  IF ~fresh \/ op.pc \in {"idle", "refree"}
  THEN [kind |-> "none", size |-> 0, old |-> NULL]
  ELSE [kind |-> IF op.zero THEN "calloc" ELSE IF op.old = NULL THEN "malloc" ELSE "realloc",
        size |-> op.size, old |-> op.old]

Alloc == INSTANCE Allocator WITH
  held <- Held, data <- HeldData, request <- Request, broken <- ~fresh

\* The free list, with its headers overlaid on the blocks, implements an allocator
\* for as long as the fresh phase lasts: no search, split or header write changes
\* a word somebody holds, kcalloc clears all of its block and krealloc keeps the
\* contents, whatever callers have written.
ImplementsAllocator == Alloc!Spec

\* kfree's used byte works: a call that gets past the checks, from kfree or
\* krealloc, always frees a block that was allocated, never one already freed,
\* even after kfree has corrupted the free list.  It is a byte among others: where
\* a freed block's memory is in use again, callers must not write what looks like
\* the header of a used block.  The Fill of the run does not.
OnlyLiveReleased ==
  [][mgr'.free_count > mgr.free_count => live' # live]_vars

\* In the fresh phase every call returns.
FreshCallsReturn == (op.pc # "idle" /\ fresh) ~> (op.pc = "idle" \/ ~fresh)

-----------------------------------------------------------------------------
\* What the tests and comments of the repository say of the allocator and the
\* code does not do.

\* memory_test.c writes a pattern to each block and expects it unharmed ("ptr1
\* data corruption"): blocks callers hold never overlap.
BlocksDisjoint == ~wild => Disjoint
=============================================================================
