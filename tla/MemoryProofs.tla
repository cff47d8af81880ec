---------------------------- MODULE MemoryProofs ----------------------------
(***************************************************************************)
(* Proofs about Memory: until the first kfree, and while no split wraps    *)
(* below zero, the blocks of kmalloc, kcalloc and krealloc are disjoint,   *)
(* for every heap, every set of requests and whatever callers write.       *)
(***************************************************************************)
EXTENDS Memory, FiniteSetTheorems, TLAPS

-----------------------------------------------------------------------------
\* Addresses.

\* Words are multiples of eight in the heap.
LEMMA WordFacts ==
  /\ \A w : w \in Words <=> /\ w \in Nat /\ HeapStart <= w /\ w < HeapEnd /\ w % 8 = 0
  /\ HeapStart \in Nat /\ HeapStart > 0 /\ HeapStart % 8 = 0
  /\ HeapEnd \in Nat /\ HeapEnd % 8 = 0 /\ HeapEnd - HeapStart >= 24
  /\ Word \in Nat /\ Word > HeapEnd + HeapEnd /\ Word % 8 = 0
  /\ Fill \in Nat
BY MemoryConstants DEF Words, MEM_ALIGNMENT, Total, FREE_BLOCK

\* A block is in the heap when there is room for a free_block_t.
LEMMA BlockFacts ==
  ASSUME NEW b
  PROVE  InHeap(b) <=> /\ b \in Nat /\ HeapStart <= b /\ b + 24 <= HeapEnd /\ b % 8 = 0
<1>1. ASSUME InHeap(b)
      PROVE  b \in Nat /\ HeapStart <= b /\ b + 24 <= HeapEnd /\ b % 8 = 0
  <2>1. b \in Words /\ b + 16 \in Words
    BY <1>1 DEF InHeap
  <2> QED
    BY <2>1, WordFacts
<1>2. ASSUME b \in Nat, HeapStart <= b, b + 24 <= HeapEnd, b % 8 = 0
      PROVE  InHeap(b)
  <2>1. /\ b + 8 \in Nat /\ HeapStart <= b + 8 /\ b + 8 < HeapEnd /\ (b + 8) % 8 = 0
        /\ b + 16 \in Nat /\ HeapStart <= b + 16 /\ b + 16 < HeapEnd /\ (b + 16) % 8 = 0
        /\ b < HeapEnd
    BY <1>2, WordFacts
  <2>2. b \in Words /\ b + 8 \in Words /\ b + 16 \in Words
    BY <1>2, <2>1, WordFacts
  <2> QED
    BY <2>2 DEF InHeap
<1> QED
  BY <1>1, <1>2

\* An aligned size stays aligned when it wraps, because the word size is a
\* multiple of the alignment.
LEMMA AlignedSize ==
  ASSUME NEW n \in Nat
  PROVE  ALIGN_UP(n) % Word \in Nat /\ (ALIGN_UP(n) % Word) % MEM_ALIGNMENT = 0
<1> DEFINE j == (n + 7) \div 8
           x == j * 8
           q == x \div Word
           k == Word \div 8
           t == q * k
<1>1. j \in Nat /\ x \in Nat /\ Word \in Nat /\ Word > 0 /\ Word = 8 * k /\ k \in Nat
  BY WordFacts
<1>2. ALIGN_UP(n) = x
  BY DEF ALIGN_UP, MEM_ALIGNMENT
<1> HIDE DEF j, k
<1> HIDE DEF x
<1>3. q \in Nat /\ x % Word \in 0..(Word - 1) /\ x % Word = x - Word * q
  BY <1>1
<1> HIDE DEF q
<1>4. t \in Nat /\ Word * q = 8 * t
  BY <1>1, <1>3
<1> HIDE DEF t
<1>5. x % Word = 8 * (j - t)
  <2>1. x = 8 * j
    BY <1>1 DEF x
  <2>2. x % Word \in Int /\ x % Word = x - 8 * t
    BY <1>1, <1>3, <1>4
  <2> QED
    BY <1>1, <1>4, <2>1, <2>2
<1>6. \A i \in Int : (8 * i) % 8 = 0
  OBVIOUS
<1>7. j - t \in Int
  BY <1>1, <1>4
<1> QED
  BY <1>2, <1>3, <1>5, <1>6, <1>7 DEF MEM_ALIGNMENT

-----------------------------------------------------------------------------
\* Calls that change nothing but the call in progress.

Manager == [free_list : Nat, free_memory : Nat, used_memory : Nat,
            alloc_count : Nat, free_count : Nat]
Calls == [pc : {"idle", "fit", "coalesce", "split", "unlink", "commit", "refree"},
          size : Nat, curr : Nat, best : Nat, best_size : Nat, retried : BOOLEAN,
          old : Nat, zero : BOOLEAN]

Facts ==
  /\ TypeOK /\ ~wild /\ Disjoint
  /\ OneFreeBlock /\ CallInProgress /\ HeldBlocks

\* The types by themselves.
LEMMA Types ==
  ASSUME Facts
  PROVE  /\ mem \in [Words -> Nat] /\ mgr \in Manager /\ op \in Calls
         /\ live \subseteq [ptr : Nat, size : Nat] /\ freed \subseteq Nat
         /\ mgr.free_list \in Nat /\ op.size \in Nat /\ op.best \in Nat /\ op.curr \in Nat
         /\ op.old \in Nat
BY DEF Facts, TypeOK, Manager, Calls

\* The free block, when no block is being taken off the list.
LEMMA FreeBlock ==
  ASSUME Facts, op.pc # "unlink", mgr.free_list # NULL
  PROVE  LET b == mgr.free_list
         IN  /\ InHeap(b) /\ b \in Words /\ b + 8 \in Words
             /\ mem[b] = NULL /\ mem[b + 8] \in Nat /\ b + 24 + mem[b + 8] = HeapEnd
             /\ Behind(b)
<1>1. LastBlock(mgr.free_list) /\ Behind(mgr.free_list)
  BY DEF Facts, OneFreeBlock
<1>2. InHeap(mgr.free_list)
  BY <1>1 DEF LastBlock
<1>3. mgr.free_list \in Words /\ mgr.free_list + 8 \in Words
  BY <1>2 DEF InHeap
<1> QED
  BY <1>1, <1>2, <1>3, Types DEF LastBlock, Next_, Size, FREE_BLOCK

\* A step that changes only op, outside the removal of a block.
LEMMA OnlyCall ==
  ASSUME Facts, UNCHANGED <<mem, mgr, live, freed, fresh, wild>>, fresh,
         op' \in Calls, op.pc # "unlink", op'.pc \notin {"unlink", "commit"},
         op'.size % MEM_ALIGNMENT = 0,
         op'.old # NULL => op'.pc # "idle" /\ \E a \in live : a.ptr = op'.old,
         op'.pc \in {"fit", "coalesce"} => {op'.curr, op'.best} \subseteq {NULL, mgr.free_list},
         op'.pc = "split" => op'.best = mgr.free_list /\ op'.best # NULL
  PROVE  Facts'
<1>1. TypeOK' /\ ~wild' /\ Disjoint' /\ HeldBlocks'
  BY DEF Facts, TypeOK, Calls, Disjoint, HeldBlocks
<1>2. OneFreeBlock'
  BY DEF Facts, OneFreeBlock, LastBlock, Behind, InHeap, Next_, Size
<1>3. CallInProgress'
  BY DEF CallInProgress
<1> QED
  BY <1>1, <1>2, <1>3 DEF Facts

\* The record of a thread outside the allocator.
LEMMA IdleFacts ==
  /\ Idle \in Calls /\ Idle.pc = "idle" /\ Idle.size = 0 /\ Idle.old = NULL
BY DEF Idle, Calls, NULL

\* kmalloc, kcalloc and krealloc start a search.
LEMMA CallSteps ==
  ASSUME Facts, fresh,
         \/ \E n \in Requests : kmalloc(n, FALSE)
         \/ \E n \in Requests : kcalloc(2, n)
         \/ \E a \in live, n \in Requests : krealloc(a, n)
  PROVE  Facts'
<1>1. PICK n \in Nat, old \in Nat, zero \in BOOLEAN :
        /\ Ready /\ op' = Search(ALIGN_UP(n) % Word, old, zero, FALSE)
        /\ UNCHANGED <<mem, mgr, live, freed, fresh, wild>>
        /\ old # NULL => \E a \in live : a.ptr = old
  <2>1. ASSUME NEW n \in Requests, kmalloc(n, FALSE) \/ kcalloc(2, n)
        PROVE  \E m \in Nat, zero \in BOOLEAN :
                 /\ Ready /\ op' = Search(ALIGN_UP(m) % Word, NULL, zero, FALSE)
                 /\ UNCHANGED <<mem, mgr, live, freed, fresh, wild>>
    <3>1. n \in Nat /\ (2 * n) % Word \in Nat
      BY MemoryConstants, WordFacts
    <3> QED
      BY <2>1, <3>1 DEF kmalloc, kcalloc
  <2>2. ASSUME NEW a \in live, NEW n \in Requests, krealloc(a, n)
        PROVE  \E m \in Nat :
                 /\ Ready /\ op' = Search(ALIGN_UP(m) % Word, a.ptr, FALSE, FALSE)
                 /\ UNCHANGED <<mem, mgr, live, freed, fresh, wild>>
    BY <2>2, MemoryConstants DEF krealloc
  <2>3. NULL \in Nat /\ \A a \in live : a.ptr \in Nat
    BY Types DEF NULL
  <2> QED
    BY <2>1, <2>2, <2>3, Zenon
<1> DEFINE size == ALIGN_UP(n) % Word
<1>2. size \in Nat /\ size % MEM_ALIGNMENT = 0
  BY AlignedSize
<1> HIDE DEF size
<1>3. /\ op' \in Calls /\ op'.pc = "fit" /\ op'.size = size /\ op'.old = old
      /\ op'.curr = mgr.free_list /\ op'.best = NULL
  <2>1. op' = Search(size, old, zero, FALSE)
    BY <1>1 DEF size
  <2>2. Word - 1 \in Nat /\ NULL \in Nat
    BY WordFacts DEF NULL
  <2> QED
    BY <1>2, <2>1, <2>2, Types DEF Search, Calls
<1>4. op.pc = "idle"
  BY <1>1 DEF Ready
<1> QED
  BY <1>1, <1>2, <1>3, <1>4, OnlyCall

\* The list has at most one block, so find_best_fit looks at that one.
LEMMA FitSteps ==
  ASSUME Facts, fresh, FitStep \/ FitDone
  PROVE  Facts'
<1>1. /\ op.pc = "fit" /\ {op.curr, op.best} \subseteq {NULL, mgr.free_list}
      /\ op.size % MEM_ALIGNMENT = 0
      /\ op.old # NULL => \E a \in live : a.ptr = op.old
      /\ UNCHANGED <<mem, mgr, live, freed, fresh, wild>>
  BY DEF FitStep, FitDone, Facts, CallInProgress
<1>2. CASE FitStep
  <2> DEFINE b == op.curr
             better == Size(b) >= op.size /\ Size(b) < op.best_size
             best == IF better THEN b ELSE op.best
             best_size == IF better THEN Size(b) ELSE op.best_size
             curr == IF better /\ Size(b) = op.size THEN NULL ELSE Next_(b)
  <2>1. b # NULL /\ b = mgr.free_list
    BY <1>1, <1>2 DEF FitStep
  <2>2. Next_(b) = NULL /\ Size(b) \in Nat
    BY <1>1, <2>1, FreeBlock DEF Next_, Size
  <2>3. op' = [op EXCEPT !.best = best, !.best_size = best_size, !.curr = curr]
    BY <1>2, Types DEF FitStep, Calls
  <2>4. best \in {NULL, mgr.free_list} /\ best \in Nat /\ curr = NULL /\ NULL \in Nat
        /\ best_size \in Nat
    BY <1>1, <2>1, <2>2, Types DEF NULL, Calls
  <2> HIDE DEF best, best_size, curr
  <2>5. op' \in Calls /\ op'.pc = op.pc /\ op'.size = op.size /\ op'.old = op.old
        /\ op'.curr = curr /\ op'.best = best
    BY <2>3, <2>4, Types DEF Calls
  <2> QED
    BY <1>1, <2>4, <2>5, OnlyCall
<1>3. CASE FitDone
  <2>1. CASE op.best # NULL
    <3>1. op' = [op EXCEPT !.pc = "split"]
      BY <1>3, <2>1 DEF FitDone
    <3>2. op' \in Calls /\ op'.pc = "split" /\ op'.size = op.size /\ op'.old = op.old
          /\ op'.best = op.best
      BY <3>1, Types DEF Calls
    <3> QED
      BY <1>1, <2>1, <3>2, OnlyCall
  <2>2. CASE op.best = NULL /\ ~op.retried
    <3>1. op' = [op EXCEPT !.pc = "coalesce", !.curr = mgr.free_list]
      BY <1>3, <2>2 DEF FitDone
    <3>2. op' \in Calls /\ op'.pc = "coalesce" /\ op'.size = op.size /\ op'.old = op.old
          /\ op'.best = op.best /\ op'.curr = mgr.free_list
      BY <3>1, Types DEF Calls
    <3> QED
      BY <1>1, <2>2, <3>2, OnlyCall
  <2>3. CASE op.best = NULL /\ op.retried
    <3>1. op' = Idle
      BY <1>3, <2>3 DEF FitDone
    <3> QED
      BY <1>1, <3>1, IdleFacts, OnlyCall DEF MEM_ALIGNMENT
  <2> QED
    BY <2>1, <2>2, <2>3
<1> QED
  BY <1>2, <1>3

\* coalesce_blocks finds nothing to merge.
LEMMA CoalesceSteps ==
  ASSUME Facts, fresh, CoalesceStep \/ CoalesceDone
  PROVE  Facts'
<1>1. /\ op.pc = "coalesce" /\ {op.curr, op.best} \subseteq {NULL, mgr.free_list}
      /\ op.size % MEM_ALIGNMENT = 0
      /\ op.old # NULL => \E a \in live : a.ptr = op.old
  BY DEF CoalesceStep, CoalesceDone, Facts, CallInProgress
<1>2. CASE CoalesceStep
  <2>1. op.curr # NULL /\ op.curr = mgr.free_list
    BY <1>1, <1>2 DEF CoalesceStep
  <2>2. Next_(op.curr) = NULL
    BY <1>1, <2>1, FreeBlock DEF Next_
  <2>3. op' = [op EXCEPT !.curr = NULL] /\ UNCHANGED <<mem, mgr, live, freed, fresh, wild>>
    BY <1>2, <2>2 DEF CoalesceStep
  <2>4. op' \in Calls /\ op'.pc = "coalesce" /\ op'.size = op.size /\ op'.old = op.old
        /\ op'.best = op.best /\ op'.curr = NULL
    BY <1>1, <2>3, Types DEF Calls, NULL
  <2> QED
    BY <1>1, <2>3, <2>4, OnlyCall
<1>3. CASE CoalesceDone
  <2>1. UNCHANGED <<mem, mgr, live, freed, fresh, wild>>
    BY <1>3 DEF CoalesceDone
  <2>2. CASE op' = Idle
    BY <1>1, <2>1, <2>2, IdleFacts, OnlyCall DEF MEM_ALIGNMENT
  <2>3. CASE op' = Search(op.size, op.old, op.zero, TRUE)
    <3>1. Word - 1 \in Nat /\ NULL \in Nat
      BY WordFacts DEF NULL
    <3>2. /\ op' \in Calls /\ op'.pc = "fit" /\ op'.size = op.size /\ op'.old = op.old
          /\ op'.curr = mgr.free_list /\ op'.best = NULL
      BY <2>3, <3>1, Types DEF Search, Calls
    <3> QED
      BY <1>1, <2>1, <3>2, OnlyCall
  <2> QED
    BY <1>3, <2>2, <2>3 DEF CoalesceDone
<1> QED
  BY <1>2, <1>3

\* No access leaves the heap.
LEMMA NoWildAccess ==
  ASSUME Facts, fresh, WildAccess, fresh'
  PROVE  FALSE
<1> DEFINE c == op.curr
<1>1. CASE op.pc \in {"fit", "coalesce"}
  <2>1. c # NULL => c = mgr.free_list
    BY <1>1 DEF Facts, CallInProgress
  <2>2. c # NULL => InHeap(c) /\ Next_(c) = NULL
    BY <1>1, <2>1, FreeBlock DEF Next_
  <2> QED
    BY <1>1, <2>2 DEF WildAccess
<1>2. CASE op.pc = "split"
  <2> DEFINE b == op.best
             size == Size(b)
  <2>1. b = mgr.free_list /\ b # NULL
    BY <1>2 DEF Facts, CallInProgress
  <2>2. InHeap(b) /\ size \in Nat /\ b + 24 + size = HeapEnd
    BY <1>2, <2>1, FreeBlock DEF Size
  <2>3. /\ size >= op.size + 24 /\ Remaining(b) >= 32 /\ ~InHeap(b + 24 + op.size)
    <3>1. ~(size < op.size + FREE_BLOCK)
      BY <1>2, Zenon DEF WildAccess
    <3>2. Remaining(b) >= MIN_BLOCK_SIZE /\ ~InHeap(b + FREE_BLOCK + op.size)
      BY <1>2 DEF WildAccess
    <3> HIDE DEF size
    <3>3. size >= op.size + 24
      BY <2>2, <3>1, Types DEF FREE_BLOCK
    <3> QED
      BY <3>2, <3>3 DEF FREE_BLOCK, MIN_BLOCK_SIZE
  <2> HIDE DEF b
  <2>4. b \in Nat /\ HeapStart <= b /\ b % 8 = 0
    BY <2>2, BlockFacts
  <2>5. op.size \in Nat /\ op.size % 8 = 0
    BY Types DEF Facts, CallInProgress, MEM_ALIGNMENT
  <2>6. Remaining(b) = size - op.size - 24
    <3> HIDE DEF size
    <3>1. size - op.size - 24 \in 0..(Word - 1)
      BY <2>2, <2>3, <2>4, <2>5, WordFacts
    <3>2. Remaining(b) = (size - op.size - 24) % Word
      BY DEF Remaining, size, FREE_BLOCK
    <3> QED
      BY <3>1, <3>2, WordFacts
  <2> HIDE DEF size
  <2>7. (b + 24 + op.size) % 8 = 0
    BY <2>4, <2>5
  <2>8. /\ b + 24 + op.size \in Nat /\ HeapStart <= b + 24 + op.size
        /\ (b + 24 + op.size) + 24 <= HeapEnd
    BY <2>2, <2>3, <2>4, <2>5, <2>6, WordFacts
  <2> QED
    BY <2>3, <2>7, <2>8, BlockFacts
<1>3. CASE op.pc = "unlink"
  BY <1>3 DEF WildAccess, Facts, CallInProgress
<1> QED
  BY <1>1, <1>2, <1>3 DEF WildAccess

\* The bytes of a header make a word again.
LEMMA HeaderWords ==
  ASSUME NEW w \in Nat
  PROVE  WithHeader(w, 1) \in Nat /\ WithMagic(w) \in Nat
BY DEF WithHeader, WithMagic, BLOCK_MAGIC

\* split_block leaves one block behind the chosen one, or none.
LEMMA SplitStep ==
  ASSUME Facts, fresh, split_block, fresh'
  PROVE  Facts'
<1> DEFINE b == op.best
           size == Size(b)
           new == b + 24 + op.size
<1>1. op.pc = "split" /\ UNCHANGED <<live, freed, wild>>
  BY DEF split_block
<1>2. b = mgr.free_list /\ b # NULL
  BY <1>1 DEF Facts, CallInProgress
<1>3. /\ InHeap(b) /\ b \in Words /\ b + 8 \in Words /\ size \in Nat /\ b + 24 + size = HeapEnd
      /\ Next_(b) = NULL /\ Behind(b)
  BY <1>1, <1>2, FreeBlock DEF Size, Next_
<1>4. Size(op.best) >= op.size + FREE_BLOCK
  BY Zenon DEF split_block
<1>5. /\ op' = [op EXCEPT !.pc = "unlink", !.curr = mgr.free_list]
      /\ op' \in Calls /\ op'.pc = "unlink" /\ op'.curr = b /\ op'.best = b
      /\ op'.size = op.size /\ op'.old = op.old
  BY <1>2, Types DEF split_block, Calls
<1>6. \/ SplitBlock(b)
      \/ UNCHANGED <<mem, mgr>>
  BY DEF split_block
<1> HIDE DEF b
<1>7. op.size \in Nat /\ op.size % 8 = 0 /\ b \in Nat /\ HeapStart <= b /\ b % 8 = 0
  BY <1>3, BlockFacts, Types DEF Facts, CallInProgress, MEM_ALIGNMENT
<1>8. size >= op.size + 24 /\ new <= HeapEnd /\ new \in Nat /\ new % 8 = 0
  <2>1. size >= op.size + 24
    BY <1>4 DEF FREE_BLOCK, b
  <2> HIDE DEF size
  <2> QED
    BY <1>3, <1>7, <2>1, WordFacts
<1>9. mgr' \in Manager /\ mgr'.free_list = b /\ mem' \in [Words -> Nat]
      /\ (mem'[b] # NULL => /\ InHeap(mem'[b]) /\ new <= mem'[b] /\ mem'[mem'[b]] = NULL
                            /\ mem'[b] + 24 + mem'[mem'[b] + 8] = HeapEnd)
  <2>1. CASE UNCHANGED <<mem, mgr>>
    BY <1>2, <1>3, <2>1, Types DEF Next_
  <2>2. CASE SplitBlock(b)
    <3> DEFINE rem == Remaining(b)
    <3>1. /\ rem >= 32 /\ InHeap(new)
          /\ mem' = [mem EXCEPT ![new] = Next_(b), ![new + 8] = rem,
                                ![new + 16] = WithMagic(@), ![b] = new, ![b + 8] = op.size]
          /\ mgr' = [mgr EXCEPT !.free_memory = (@ - FREE_BLOCK) % Word]
      BY <2>2 DEF SplitBlock, FREE_BLOCK, MIN_BLOCK_SIZE
    <3>2. rem = size - op.size - 24 /\ rem \in Nat
      <4> HIDE DEF size
      <4>1. size - op.size - 24 \in 0..(Word - 1)
        BY <1>3, <1>7, <1>8, WordFacts
      <4>2. rem = (size - op.size - 24) % Word
        BY DEF Remaining, size, FREE_BLOCK
      <4> HIDE DEF rem
      <4> QED
        BY <4>1, <4>2, WordFacts
    <3>3. mgr' \in Manager /\ mgr'.free_list = mgr.free_list
      <4> DEFINE f == (mgr.free_memory - FREE_BLOCK) % Word
      <4>1. f \in Nat
        <5>1. mgr.free_memory \in Nat
          BY Types DEF Manager
        <5> QED
          BY <5>1, WordFacts DEF FREE_BLOCK
      <4>2. mgr' = [mgr EXCEPT !.free_memory = f]
        BY <3>1
      <4> HIDE DEF f
      <4> QED
        BY <4>1, <4>2, Types DEF Manager
    <3> HIDE DEF rem, size
    <3>4. new \in Words /\ new + 8 \in Words /\ new + 16 \in Words
      BY <3>1 DEF InHeap
    <3>5. b + 8 < new /\ b < b + 8 /\ new < new + 8 /\ new + 8 < new + 16 /\ new # 0
      BY <1>7
    <3>6. WithMagic(mem[new + 16]) \in Nat /\ Next_(b) \in Nat
      BY <1>3, <3>4, HeaderWords, Types DEF NULL
    <3> HIDE DEF new
    <3>7. mem' \in [Words -> Nat]
      BY <1>3, <1>7, <1>8, <3>1, <3>2, <3>4, <3>6, Types
    <3>8. mem'[b] = new /\ mem'[new] = NULL /\ mem'[new + 8] = rem
      BY <1>3, <1>7, <1>8, <3>1, <3>4, <3>5, Types
    <3>9. new + 24 + rem = HeapEnd
      BY <1>3, <1>7, <3>2 DEF new
    <3> QED
      BY <1>2, <1>8, <3>1, <3>3, <3>7, <3>8, <3>9
  <2> QED
    BY <1>6, <2>1, <2>2
<1> HIDE DEF new, size
<1>10. TypeOK' /\ ~wild' /\ Disjoint' /\ HeldBlocks'
  BY <1>1, <1>5, <1>9, Types DEF Facts, TypeOK, Calls, Manager, Disjoint, HeldBlocks
<1>11. OneFreeBlock'
  BY <1>5 DEF OneFreeBlock
<1>12. CallInProgress'
  <2>1. (InHeap(op.best) /\ Behind(op.best))'
    BY <1>1, <1>3, <1>5 DEF Behind, InHeap
  <2>2. (op.best + FREE_BLOCK + op.size <= HeapEnd)'
    BY <1>5, <1>8 DEF FREE_BLOCK, new
  <2> DEFINE n == mem'[b]
  <2>3. n # NULL => /\ InHeap(n) /\ mem'[n] = NULL /\ n + FREE_BLOCK + mem'[n + 8] = HeapEnd
                    /\ b + FREE_BLOCK + op.size <= n
    BY <1>9 DEF FREE_BLOCK, new
  <2>4. Next_(op.best)' = n
    BY <1>5 DEF Next_
  <2> HIDE DEF n
  <2>5. (Next_(op.best) # NULL => /\ LastBlock(Next_(op.best))
                                  /\ op.best + FREE_BLOCK + op.size <= Next_(op.best))'
    <3>1. ASSUME n # NULL PROVE LastBlock(Next_(op.best))'
      BY <2>3, <2>4, <3>1 DEF LastBlock, InHeap, Next_, Size
    <3> QED
      BY <1>5, <2>3, <2>4, <3>1
  <2>6. Chosen(Next_(op.best))'
    BY <2>1, <2>2, <2>5 DEF Chosen
  <2>7. /\ op'.size % MEM_ALIGNMENT = 0 /\ op'.pc # "idle"
        /\ op'.old # NULL => \E a \in live' : a.ptr = op'.old
    BY <1>1, <1>5 DEF Facts, CallInProgress
  <2> QED
    BY <1>5, <1>9, <2>7, <2>6 DEF CallInProgress
<1> QED
  BY <1>10, <1>11, <1>12 DEF Facts

\* The free block stays as it is when nothing is written behind its start and
\* nobody holds memory there.
LEMMA FreeBlockKept ==
  ASSUME Facts, op.pc # "unlink",
         mgr'.free_list = mgr.free_list,
         mgr.free_list # NULL =>
           /\ \A w \in Words : w >= mgr.free_list => mem'[w] = mem[w]
           /\ \A a \in live' : a.ptr + a.size <= mgr.free_list
  PROVE  OneFreeBlock'
<1> DEFINE f == mgr.free_list
<1> SUFFICES ASSUME f # NULL
             PROVE  (LastBlock(mgr.free_list) /\ Behind(mgr.free_list))'
  BY DEF OneFreeBlock
<1>1. /\ InHeap(f) /\ f \in Words /\ f + 8 \in Words
      /\ mem[f] = NULL /\ mem[f + 8] \in Nat /\ f + 24 + mem[f + 8] = HeapEnd
  BY FreeBlock
<1>2. f \in Nat /\ f >= f /\ f + 8 >= f
  BY Types
<1>3. mem'[f] = mem[f] /\ mem'[f + 8] = mem[f + 8]
  BY <1>1, <1>2
<1> QED
  BY <1>1, <1>3 DEF LastBlock, Behind, InHeap, Next_, Size, FREE_BLOCK

\* The chosen block is the head of the list, so the walk to its predecessor
\* takes no step and removal leaves the block behind it.
LEMMA UnlinkSteps ==
  ASSUME Facts, fresh, UnlinkStep \/ UnlinkDone
  PROVE  Facts'
<1> DEFINE b == op.best
           n == mem[b]
<1>1. /\ op.pc = "unlink" /\ op.curr = b /\ mgr.free_list = b /\ Chosen(n)
      /\ op.size % MEM_ALIGNMENT = 0
      /\ op.old # NULL => \E a \in live : a.ptr = op.old
  BY DEF UnlinkStep, UnlinkDone, Facts, CallInProgress, Next_
<1>2. b # NULL /\ b \in Words /\ n \in Nat /\ b \in Nat
  <2>1. InHeap(b)
    BY <1>1 DEF Chosen
  <2> QED
    BY <2>1, BlockFacts, WordFacts, Types DEF InHeap, NULL
<1>3. /\ UnlinkDone /\ mgr' = [mgr EXCEPT !.free_list = n]
      /\ op' = [op EXCEPT !.pc = "commit"] /\ UNCHANGED <<mem, live, freed, fresh, wild>>
  BY <1>1, <1>2 DEF UnlinkStep, UnlinkDone, Next_
<1>4. /\ op' \in Calls /\ op'.pc = "commit" /\ op'.size = op.size /\ op'.old = op.old
      /\ op'.best = b
  BY <1>3, Types DEF Calls
<1>5. mgr' \in Manager /\ mgr'.free_list = n
  BY <1>2, <1>3, Types DEF Manager
<1> HIDE DEF n
<1>6. TypeOK' /\ ~wild' /\ Disjoint' /\ HeldBlocks'
  BY <1>3, <1>4, <1>5, Types DEF Facts, TypeOK, Calls, Manager, Disjoint, HeldBlocks
<1>7. Chosen(mgr.free_list)'
  BY <1>1, <1>3, <1>4, <1>5 DEF Chosen, LastBlock, Behind, InHeap, Next_, Size
<1>8. CallInProgress'
  BY <1>1, <1>3, <1>4, <1>7 DEF CallInProgress
<1>9. OneFreeBlock'
  <2> SUFFICES ASSUME n # NULL
               PROVE  (LastBlock(mgr.free_list) /\ Behind(mgr.free_list))'
    BY <1>5 DEF OneFreeBlock
  <2>1. LastBlock(n) /\ Behind(b) /\ b + FREE_BLOCK + op.size <= n
    BY <1>1 DEF Chosen
  <2>2. \A a \in live : a.ptr + a.size <= n
    BY <1>2, <2>1, Types DEF Behind, FREE_BLOCK
  <2> QED
    BY <1>3, <1>5, <2>1, <2>2 DEF LastBlock, Behind, InHeap, Next_, Size
<1> QED
  BY <1>6, <1>8, <1>9 DEF Facts

\* A caller's writes stay before the free block.
LEMMA WriteSteps ==
  ASSUME Facts, fresh, NEW a \in live, CallerWrites(a)
  PROVE  Facts'
<1>1. /\ op.pc = "idle" /\ UNCHANGED <<mgr, op, live, freed, fresh, wild>>
      /\ mem' = [w \in Words |-> IF w \in Payload(a.ptr, a.size) THEN Fill ELSE mem[w]]
  BY DEF CallerWrites, Ready
<1>2. mem' \in [Words -> Nat]
  BY <1>1, WordFacts, Types
<1>3. OneFreeBlock'
  <2>1. ASSUME mgr.free_list # NULL, NEW w \in Words, w >= mgr.free_list
        PROVE  mem'[w] = mem[w]
    <3>1. a.ptr + a.size <= mgr.free_list /\ a.ptr \in Nat /\ a.size \in Nat
      BY <1>1, <2>1, FreeBlock, Types DEF Behind
    <3>2. ~(w < a.ptr + a.size)
      BY <2>1, <3>1, WordFacts, Types
    <3> QED
      BY <1>1, <3>2 DEF Payload
  <2>2. mgr.free_list # NULL => \A c \in live' : c.ptr + c.size <= mgr.free_list
    BY <1>1, FreeBlock DEF Behind
  <2> QED
    BY <1>1, <2>1, <2>2, FreeBlockKept
<1>4. TypeOK' /\ ~wild' /\ Disjoint' /\ HeldBlocks'
  BY <1>1, <1>2 DEF Facts, TypeOK, Disjoint, HeldBlocks
<1>5. CallInProgress'
  BY <1>1 DEF Facts, CallInProgress
<1> QED
  BY <1>3, <1>4, <1>5 DEF Facts

\* What kmalloc, kcalloc and krealloc write at the end lies in the block they
\* return: its header and its payload.
LEMMA WrittenInBlock ==
  ASSUME Facts, FinishAlloc
  PROVE  /\ mem' \in [Words -> Nat]
         /\ \A w \in Words : w >= op.best + 16 + op.size => mem'[w] = mem[w]
<1> DEFINE b == op.best
           p == b + HEADER_SIZE
           m == [mem EXCEPT ![b] = op.size, ![b + 8] = WithHeader(@, 1)]
           kept == m[op.old - HEADER_SIZE]
           n == IF kept < op.size THEN kept ELSE op.size
<1>1. op.pc = "commit" /\ Chosen(mgr.free_list)
  BY DEF FinishAlloc, Facts, CallInProgress
<1>2. /\ b \in Words /\ b + 8 \in Words /\ b \in Nat /\ op.size \in Nat
      /\ p = b + 16
  BY <1>1, Types DEF Chosen, InHeap, HEADER_SIZE
<1>3. \/ mem' = m
      \/ mem' = [w \in Words |-> IF w \in Payload(p, op.size) THEN 0 ELSE m[w]]
      \/ op.old # NULL /\ mem' = Copied(m, p, op.old, n)
  BY DEF FinishAlloc, Commit
<1>4. m \in [Words -> Nat] /\ \A w \in Words : w >= b + 16 + op.size => m[w] = mem[w]
  <2> DEFINE h == WithHeader(mem[b + 8], 1)
  <2>1. h \in Nat
    BY <1>2, HeaderWords, Types
  <2>2. m = [mem EXCEPT ![b] = op.size, ![b + 8] = h]
    BY <1>2, Types
  <2> HIDE DEF h, m
  <2>3. \A w \in Words : w >= b + 16 + op.size => w # b /\ w # b + 8
    BY <1>2, WordFacts
  <2> QED
    BY <1>2, <2>1, <2>2, <2>3, Types
<1> HIDE DEF m
<1>5. \A k \in Nat, w \in Words :
        k <= op.size /\ w >= b + 16 + op.size => w \notin Payload(p, k)
  BY <1>2, WordFacts DEF Payload
<1>6. CASE mem' = m
  BY <1>4, <1>6
<1>7. CASE mem' = [w \in Words |-> IF w \in Payload(p, op.size) THEN 0 ELSE m[w]]
  <2>1. op.size <= op.size
    BY <1>2
  <2> QED
    BY <1>2, <1>4, <1>5, <1>7, <2>1
<1>8. CASE op.old # NULL /\ mem' = Copied(m, p, op.old, n)
  <2>1. op.old - HEADER_SIZE \in Words
    BY <1>8 DEF Facts, CallInProgress, HeldBlocks
  <2>2. n \in Nat /\ n <= op.size
    <3>1. kept \in Nat
      BY <1>4, <2>1
    <3> HIDE DEF kept
    <3> QED
      BY <1>2, <3>1
  <2> HIDE DEF n, p
  <2>3. mem' \in [Words -> Nat]
    BY <1>4, <1>8, WordFacts DEF Copied
  <2>4. \A w \in Words : w \notin Payload(p, n) => mem'[w] = m[w]
    BY <1>8 DEF Copied
  <2> QED
    BY <1>4, <1>5, <2>2, <2>3, <2>4
<1> QED
  BY <1>3, <1>6, <1>7, <1>8

\* kmalloc returns a block cut off the front of the free one, behind everything
\* else callers hold.
LEMMA FinishSteps ==
  ASSUME Facts, fresh, FinishAlloc
  PROVE  Facts'
<1> DEFINE b == op.best
           f == mgr.free_list
           a0 == [ptr |-> b + HEADER_SIZE, size |-> op.size]
<1>1. /\ op.pc = "commit" /\ Chosen(f)
      /\ op.old # NULL => \E a \in live : a.ptr = op.old
  BY DEF FinishAlloc, Facts, CallInProgress
<1>2. /\ mgr' = [mgr EXCEPT !.used_memory = (@ + op.size + HEADER_SIZE) % Word,
                            !.free_memory = (@ - (op.size + HEADER_SIZE)) % Word,
                            !.alloc_count = @ + 1]
      /\ live' = live \cup {a0}
      /\ freed' = freed \ {b + HEADER_SIZE}
      /\ op' = IF op.old = NULL THEN Idle ELSE [Idle EXCEPT !.pc = "refree", !.old = op.old]
      /\ UNCHANGED <<fresh, wild>>
  BY DEF FinishAlloc, Commit
<1>3. /\ b \in Words /\ b \in Nat /\ HeapStart <= b /\ op.size \in Nat
      /\ b + 24 + op.size <= HeapEnd
      /\ \A a \in live : a.ptr + a.size <= b
      /\ f # NULL => b + 24 + op.size <= f
  <2>1. InHeap(b)
    BY <1>1 DEF Chosen
  <2> QED
    BY <1>1, <2>1, BlockFacts, Types DEF Chosen, Behind, InHeap, FREE_BLOCK
<1>4. mem' \in [Words -> Nat] /\ \A w \in Words : w >= b + 16 + op.size => mem'[w] = mem[w]
  BY WrittenInBlock
<1>5. mgr' \in Manager /\ mgr'.free_list = f
  <2> DEFINE u == (mgr.used_memory + op.size + HEADER_SIZE) % Word
             v == (mgr.free_memory - (op.size + HEADER_SIZE)) % Word
  <2>1. /\ mgr.used_memory \in Nat /\ mgr.free_memory \in Nat /\ mgr.alloc_count \in Nat
    BY Types DEF Manager
  <2>2. u \in Nat /\ v \in Nat /\ mgr.alloc_count + 1 \in Nat
    BY <1>3, <2>1, WordFacts DEF HEADER_SIZE
  <2>3. mgr' = [mgr EXCEPT !.used_memory = u, !.free_memory = v,
                           !.alloc_count = mgr.alloc_count + 1]
    BY <1>2, Types DEF Manager
  <2> HIDE DEF u, v
  <2> QED
    BY <2>2, <2>3, Types DEF Manager
<1>6. /\ op' \in Calls /\ op'.pc \in {"idle", "refree"} /\ op'.size = 0 /\ op'.old = op.old
      /\ op'.old # NULL => op'.pc # "idle"
  BY <1>2, Types DEF Idle, Calls, NULL
<1>7. a0 \in [ptr : Nat, size : Nat] /\ a0.ptr = b + 16 /\ a0.size = op.size
  BY <1>3 DEF HEADER_SIZE
<1> HIDE DEF a0
<1>8. \A a \in live : a.ptr \in Nat /\ a.size \in Nat
  BY Types
<1>9. TypeOK' /\ ~wild'
  BY <1>2, <1>4, <1>5, <1>6, <1>7, Types DEF Facts, TypeOK, Calls, Manager
<1>10. HeldBlocks'
  <2>1. a0.ptr - HEADER_SIZE = b
    BY <1>3, <1>7 DEF HEADER_SIZE
  <2> QED
    BY <1>2, <1>3, <2>1 DEF Facts, HeldBlocks
<1>11. Disjoint'
  <2>1. HeapStart <= a0.ptr - HEADER_SIZE /\ a0.ptr + a0.size <= HeapEnd
    BY <1>3, <1>7, WordFacts DEF HEADER_SIZE
  <2>2. \A a \in live : a.ptr + a.size <= a0.ptr - HEADER_SIZE
    BY <1>3, <1>7, <1>8 DEF HEADER_SIZE
  <2> QED
    BY <1>2, <2>1, <2>2 DEF Facts, Disjoint
<1>12. OneFreeBlock'
  <2>1. ASSUME f # NULL
        PROVE  /\ \A w \in Words : w >= f => mem'[w] = mem[w]
               /\ \A a \in live' : a.ptr + a.size <= f
    <3>1. f \in Nat
      BY Types
    <3>2. \A w \in Words : w >= f => w >= b + 16 + op.size
      BY <1>3, <2>1, <3>1, WordFacts
    <3>3. \A a \in live : a.ptr + a.size <= f
      BY <1>3, <1>8, <2>1, <3>1
    <3>4. a0.ptr + a0.size <= f
      BY <1>3, <1>7, <2>1, <3>1
    <3> QED
      BY <1>2, <1>4, <3>2, <3>3, <3>4
  <2> QED
    BY <1>1, <1>5, <2>1, FreeBlockKept
<1>13. CallInProgress'
  <2>1. op'.size % MEM_ALIGNMENT = 0
    BY <1>6 DEF MEM_ALIGNMENT
  <2> QED
    BY <1>1, <1>2, <1>6, <2>1 DEF CallInProgress
<1> QED
  BY <1>9, <1>10, <1>11, <1>12, <1>13 DEF Facts

\* A kfree that refuses leaves the heap alone; one that succeeds ends the phase.
LEMMA FreeSteps ==
  ASSUME Facts, fresh, fresh',
         FreeOld \/ \E ptr \in {a.ptr : a \in live} \cup freed : kfree(ptr)
  PROVE  Facts'
<1> DEFINE Refused(ptr) ==
             /\ op.pc \in {"idle", "refree"}
             /\ live' = {a \in live : a.ptr # ptr} /\ freed' = freed \cup {ptr}
             /\ op' = Idle \/ (op.pc = "idle" /\ op' = op)
             /\ UNCHANGED <<mem, mgr, fresh, wild>>
<1>1. \E ptr \in Nat : Refused(ptr)
  <2>1. ASSUME NEW b, NEW ptr, Release(b, ptr) PROVE FALSE
    BY <2>1 DEF Release
  <2>2. ASSUME FreeOld PROVE op.old \in Nat /\ Refused(op.old)
    <3>1. /\ op.old \in Nat /\ op.pc = "refree" /\ op' = Idle
          /\ live' = {a \in live : a.ptr # op.old} /\ freed' = freed \cup {op.old}
          /\ UNCHANGED <<mem, mgr, fresh, wild>>
      BY <2>1, <2>2, Types DEF FreeOld
    <3>2. op.pc \in {"idle", "refree"}
      BY <3>1
    <3> QED
      BY <3>1, <3>2, Zenon
  <2>3. ASSUME NEW ptr \in {a.ptr : a \in live} \cup freed, kfree(ptr)
        PROVE  ptr \in Nat /\ Refused(ptr)
    BY <2>1, <2>3, Types DEF kfree, Ready
  <2> HIDE DEF Refused
  <2> QED
    BY <2>2, <2>3, Zenon
<1>2. PICK ptr \in Nat : Refused(ptr)
  BY <1>1, Zenon
<1>3. /\ op' \in Calls /\ op'.pc = "idle" /\ op'.old = NULL
      /\ op'.size % MEM_ALIGNMENT = 0
  BY <1>2, IdleFacts, Types DEF Facts, CallInProgress, MEM_ALIGNMENT
<1>4. live' \subseteq live
  BY <1>2
<1>5. TypeOK' /\ ~wild'
  BY <1>2, <1>3, <1>4 DEF Facts, TypeOK, Calls
<1>6. Disjoint' /\ HeldBlocks'
  BY <1>4 DEF Facts, Disjoint, HeldBlocks
<1>7. OneFreeBlock'
  <2>1. mgr.free_list # NULL => \A a \in live' : a.ptr + a.size <= mgr.free_list
    BY <1>2, <1>4, FreeBlock DEF Behind
  <2> QED
    BY <1>2, <2>1, FreeBlockKept
<1>8. CallInProgress'
  BY <1>3 DEF CallInProgress
<1> QED
  BY <1>5, <1>6, <1>7, <1>8 DEF Facts

-----------------------------------------------------------------------------
\* The invariant and what it says.

\* memory_init makes one free block of the whole heap.
LEMMA InitFacts ==
  ASSUME Init
  PROVE  Facts
<1> DEFINE n == HeapEnd - HeapStart - 24
<1>1. n \in Nat /\ BLOCK_MAGIC \in Nat /\ Total - FREE_BLOCK = n
  BY WordFacts DEF BLOCK_MAGIC, Total, FREE_BLOCK
<1>2. /\ InHeap(HeapStart) /\ HeapStart \in Words /\ HeapStart + 8 \in Words
      /\ HeapStart # HeapStart + 8 /\ HeapStart # HeapStart + 16
  BY BlockFacts, WordFacts DEF InHeap
<1>3. /\ mem = [w \in Words |-> IF w = HeapStart + 8 THEN n
                                ELSE IF w = HeapStart + 16 THEN BLOCK_MAGIC ELSE 0]
      /\ mgr = [free_list |-> HeapStart, free_memory |-> n,
                used_memory |-> 0, alloc_count |-> 0, free_count |-> 0]
      /\ op = Idle /\ live = {} /\ freed = {} /\ fresh = TRUE /\ wild = FALSE
  BY <1>1 DEF Init
<1>4. HeapStart + 24 + n = HeapEnd
  BY WordFacts
<1> HIDE DEF n
<1>5. TypeOK
  <2>1. mem \in [Words -> Nat]
    BY <1>1, <1>3
  <2>2. mgr \in Manager
    BY <1>1, <1>3, WordFacts DEF Manager
  <2> QED
    BY <1>3, <2>1, <2>2, IdleFacts DEF TypeOK, Manager, Calls
<1>6. LastBlock(mgr.free_list) /\ Behind(mgr.free_list)
  <2>1. mem[HeapStart] = 0 /\ mem[HeapStart + 8] = n
    BY <1>2, <1>3
  <2>2. mgr.free_list = HeapStart
    BY <1>3
  <2> QED
    BY <1>2, <1>3, <1>4, <2>1, <2>2
      DEF LastBlock, Behind, Next_, Size, NULL, FREE_BLOCK
<1>7. OneFreeBlock
  BY <1>6 DEF OneFreeBlock
<1>8. CallInProgress
  BY <1>3, IdleFacts DEF CallInProgress, MEM_ALIGNMENT
<1>9. Disjoint /\ HeldBlocks /\ ~wild
  BY <1>3 DEF Disjoint, HeldBlocks
<1> QED
  BY <1>5, <1>7, <1>8, <1>9 DEF Facts

\* The fresh phase only ends; it is never entered again.
LEMMA FreshEnds ==
  ASSUME [Next]_vars, fresh'
  PROVE  fresh
BY Zenon
  DEF Next, vars, Call, Step, kmalloc, kcalloc, krealloc, kfree, Release, CallerWrites,
      FitStep, FitDone, CoalesceStep, CoalesceDone, split_block, UnlinkStep, UnlinkDone,
      FinishAlloc, Commit, FreeOld, WildAccess

\* The free block behind everything callers hold is an invariant of the fresh phase.
THEOREM MemoryInvariant == Spec => []FreshIInv
<1>1. Init => FreshIInv
  BY InitFacts DEF FreshIInv, Facts
<1>2. FreshIInv /\ [Next]_vars => FreshIInv'
  <2> SUFFICES ASSUME FreshIInv, [Next]_vars, fresh'
               PROVE  Facts'
    BY DEF FreshIInv, Facts
  <2>1. fresh
    BY FreshEnds
  <2>2. Facts
    BY <2>1 DEF FreshIInv, Facts
  <2>3. CASE Call
    BY <2>1, <2>2, <2>3, CallSteps, FreeSteps, WriteSteps DEF Call
  <2>4. CASE Step
    BY <2>1, <2>2, <2>4, FitSteps, CoalesceSteps, SplitStep, UnlinkSteps, FinishSteps,
       FreeSteps, NoWildAccess DEF Step
  <2>5. CASE UNCHANGED vars
    BY <2>2, <2>5
      DEF vars, Facts, TypeOK, Disjoint, OneFreeBlock, LastBlock, InHeap, Next_, Size, Behind,
          CallInProgress, Chosen, HeldBlocks
  <2> QED
    BY <2>3, <2>4, <2>5 DEF Next
<1> QED
  BY <1>1, <1>2, PTL DEF Spec

\* Until the first kfree, and while no split wraps below zero, the blocks callers
\* hold are disjoint and inside the heap and the allocator never leaves it.
THEOREM FreshHeapCorrect == Spec => []FreshDisjoint
<1>1. FreshIInv => FreshDisjoint
  BY DEF FreshIInv, FreshDisjoint
<1> QED
  BY <1>1, MemoryInvariant, PTL
-----------------------------------------------------------------------------
\* What is used, and the headers of the blocks in use.

Usage ==
  /\ freed = {}
  /\ HeldHeaders
  /\ op.zero => op.old = NULL
  /\ op.pc = "refree" => op.old # NULL
  /\ mgr.used_memory = Cardinality(InUse)

\* The header of a block in use lies in the heap, before its payload.
LEMMA HeaderCells ==
  ASSUME Facts, NEW a \in live
  PROVE  /\ a.ptr \in Nat /\ a.size \in Nat
         /\ a.ptr - 16 \in Words /\ (a.ptr - 16) + 8 \in Words /\ a.ptr % 8 = 0
         /\ a.ptr - 16 < a.ptr + a.size /\ (a.ptr - 16) + 8 < a.ptr + a.size
         /\ HeapStart <= a.ptr - 16 /\ a.ptr + a.size <= HeapEnd
<1>1. a.ptr \in Nat /\ a.size \in Nat
  BY Types
<1>2. a.ptr - 16 \in Words /\ HeapStart <= a.ptr - 16 /\ a.ptr + a.size <= HeapEnd
  BY DEF Facts, HeldBlocks, Disjoint, HEADER_SIZE
<1> DEFINE b == a.ptr - 16
<1>3. b \in Nat /\ b % 8 = 0 /\ HeapStart <= b
  BY <1>2, WordFacts
<1>4. a.ptr = b + 16
  BY <1>1
<1> HIDE DEF b
<1>5. b + 8 \in Nat /\ HeapStart <= b + 8 /\ b + 8 < HeapEnd /\ (b + 8) % 8 = 0
      /\ (b + 16) % 8 = 0 /\ b < a.ptr + a.size /\ b + 8 < a.ptr + a.size
  BY <1>1, <1>2, <1>3, <1>4, WordFacts
<1>6. b + 8 \in Words
  BY <1>5, WordFacts
<1> QED
  BY <1>1, <1>2, <1>4, <1>5, <1>6 DEF b

\* A step that writes no header of a block in use.
LEMMA UsageKept ==
  ASSUME Facts, Usage, UNCHANGED <<live, freed>>, mgr'.used_memory = mgr.used_memory,
         op'.zero => op'.old = NULL, op'.pc # "refree",
         \A a \in live : mem'[a.ptr - 16] = mem[a.ptr - 16]
                         /\ mem'[(a.ptr - 16) + 8] = mem[(a.ptr - 16) + 8]
  PROVE  Usage'
<1>1. HeldHeaders'
  BY DEF Usage, HeldHeaders, HeaderMagic, HeaderUsed, HEADER_SIZE
<1>2. InUse' = InUse
  BY DEF InUse
<1> QED
  BY <1>1, <1>2 DEF Usage

\* The steps inside kmalloc write behind everything callers hold; they go on
\* with the same request or give it up.
LEMMA InternalSteps ==
  ASSUME Facts, fresh, fresh',
         \/ FitStep \/ FitDone \/ CoalesceStep \/ CoalesceDone
         \/ split_block \/ UnlinkStep \/ UnlinkDone
  PROVE  /\ UNCHANGED <<live, freed>> /\ mgr'.used_memory = mgr.used_memory
         /\ \A w \in Words : (\E a \in live : w < a.ptr + a.size) => mem'[w] = mem[w]
         /\ op.pc \notin {"idle", "refree"}
         /\ \/ /\ op'.pc \notin {"idle", "refree"}
               /\ op'.size = op.size /\ op'.old = op.old /\ op'.zero = op.zero
            \/ op' = Idle
<1>1. CASE FitStep
  BY <1>1, Types DEF FitStep, Calls
<1>2. CASE FitDone
  <2>1. op.pc = "fit" /\ UNCHANGED <<mem, mgr, live, freed>>
    BY <1>2 DEF FitDone
  <2>2. \/ op' = [op EXCEPT !.pc = "split"]
        \/ op' = [op EXCEPT !.pc = "coalesce", !.curr = mgr.free_list]
        \/ op' = Idle
    BY <1>2 DEF FitDone
  <2> QED
    BY <2>1, <2>2, Types DEF Calls
<1>3. CASE CoalesceStep
  <2>1. op.pc = "coalesce" /\ op.curr # NULL /\ op.curr = mgr.free_list
    BY <1>3 DEF CoalesceStep, Facts, CallInProgress
  <2>2. Next_(op.curr) = NULL
    BY <2>1, FreeBlock DEF Next_
  <2>3. op' = [op EXCEPT !.curr = NULL] /\ UNCHANGED <<mem, mgr, live, freed>>
    BY <1>3, <2>2 DEF CoalesceStep
  <2> QED
    BY <2>1, <2>3, Types DEF Calls
<1>4. CASE CoalesceDone
  <2>1. op.pc = "coalesce" /\ UNCHANGED <<mem, mgr, live, freed>>
    BY <1>4 DEF CoalesceDone
  <2>2. op' = Idle \/ op' = Search(op.size, op.old, op.zero, TRUE)
    BY <1>4 DEF CoalesceDone
  <2> QED
    BY <2>1, <2>2 DEF Search
<1>5. CASE split_block
  <2> DEFINE b == op.best
             new == b + FREE_BLOCK + op.size
  <2>1. op.pc = "split" /\ UNCHANGED <<live, freed>> /\ b = mgr.free_list /\ b # NULL
    BY <1>5 DEF split_block, Facts, CallInProgress
  <2>2. InHeap(b) /\ Behind(b)
    BY <2>1, FreeBlock
  <2>3. op' = [op EXCEPT !.pc = "unlink", !.curr = mgr.free_list]
    BY <1>5 DEF split_block
  <2>4. UNCHANGED <<mem, mgr>> \/ SplitBlock(b)
    BY <1>5 DEF split_block
  <2> HIDE DEF b
  <2>5. b \in Nat /\ op.size \in Nat
    BY <2>2, BlockFacts, Types
  <2>6. mgr'.used_memory = mgr.used_memory
    BY <2>4, Types DEF SplitBlock, Manager
  <2>7. \A w \in Words : w < b => mem'[w] = mem[w]
    <3>1. ASSUME SplitBlock(b), NEW w \in Words, w < b
          PROVE  mem'[w] = mem[w]
      <4>1. w # b /\ w # b + 8 /\ w # new /\ w # new + 8 /\ w # new + 16
        BY <2>5, <3>1, WordFacts DEF FREE_BLOCK
      <4> QED
        BY <3>1, <4>1, Types DEF SplitBlock
    <3> QED
      BY <2>4, <3>1
  <2>8. \A w \in Words : (\E a \in live : w < a.ptr + a.size) => w < b
    BY <2>2, <2>5, Types, WordFacts DEF Behind
  <2>9. op'.pc \notin {"idle", "refree"} /\ op.pc \notin {"idle", "refree"}
        /\ op'.size = op.size /\ op'.old = op.old /\ op'.zero = op.zero
    BY <2>1, <2>3, Types DEF Calls
  <2> QED
    BY <2>1, <2>6, <2>7, <2>8, <2>9
<1>6. CASE UnlinkStep \/ UnlinkDone
  <2>1. /\ op.pc = "unlink" /\ op.curr = op.best /\ op.best # NULL
        /\ UNCHANGED <<mem, live, freed>> /\ mgr' = [mgr EXCEPT !.free_list = Next_(op.best)]
        /\ op' = [op EXCEPT !.pc = "commit"]
    <3>1. op.pc = "unlink" /\ op.curr = op.best /\ InHeap(op.best)
      BY <1>6 DEF UnlinkStep, UnlinkDone, Facts, CallInProgress, Chosen
    <3>2. op.best # NULL
      BY <3>1, BlockFacts, WordFacts DEF NULL
    <3> QED
      BY <1>6, <3>1, <3>2 DEF UnlinkStep, UnlinkDone
  <2> QED
    BY <2>1, Types DEF Calls, Manager
<1> QED
  BY <1>1, <1>2, <1>3, <1>4, <1>5, <1>6

\* kmalloc, kcalloc and krealloc start with a request.
LEMMA Requested ==
  ASSUME Facts, Usage,
         \/ \E n \in Requests : kmalloc(n, FALSE)
         \/ \E n \in Requests : kcalloc(2, n)
         \/ \E a \in live, n \in Requests : krealloc(a, n)
  PROVE  /\ UNCHANGED <<mem, mgr, live, freed, fresh>>
         /\ op.pc = "idle" /\ op'.pc = "fit" /\ op'.size \in Nat
         /\ op'.old = NULL \/ (\E a \in live : a.ptr = op'.old)
         /\ op'.zero => op'.old = NULL
<1>1. ASSUME NEW n \in Requests, NEW zero, kmalloc(n, zero) \/ kmalloc((2 * n) % Word, zero)
      PROVE  /\ UNCHANGED <<mem, mgr, live, freed, fresh>> /\ op.pc = "idle"
             /\ op'.pc = "fit" /\ op'.size \in Nat /\ op'.old = NULL
  <2>1. PICK m \in Nat : kmalloc(m, zero)
    <3>1. n \in Nat /\ (2 * n) % Word \in Nat
      BY MemoryConstants, WordFacts
    <3> QED
      BY <1>1, <3>1, Zenon
  <2>2. ALIGN_UP(m) % Word \in Nat
    BY AlignedSize
  <2> QED
    BY <2>1, <2>2 DEF kmalloc, Ready, Search
<1>2. ASSUME NEW n \in Requests, NEW a \in live, krealloc(a, n)
      PROVE  /\ UNCHANGED <<mem, mgr, live, freed, fresh>> /\ op.pc = "idle"
             /\ op'.pc = "fit" /\ op'.size \in Nat /\ op'.old = a.ptr /\ op'.zero = FALSE
  <2>1. ALIGN_UP(n) % Word \in Nat
    BY AlignedSize, MemoryConstants
  <2> QED
    BY <1>2, <2>1 DEF krealloc, Ready, Search
<1>3. CASE \E n \in Requests : kmalloc(n, FALSE) \/ kcalloc(2, n)
  BY <1>1, <1>3 DEF kcalloc
<1>4. CASE \E a \in live, n \in Requests : krealloc(a, n)
  <2>1. PICK a \in live, n \in Requests : krealloc(a, n)
    BY <1>4
  <2> QED
    BY <1>2, <2>1
<1> QED
  BY <1>3, <1>4

\* The header bytes read back as they were written.
LEMMA HeaderBytes ==
  ASSUME NEW w \in Nat
  PROVE  /\ WithHeader(w, 1) % 256 = BLOCK_MAGIC
         /\ (WithHeader(w, 1) \div 256) % 256 = 1
<1> DEFINE q == w \div 65536
           r == q * 256
<1>1. q \in Nat /\ r \in Nat
  OBVIOUS
<1> HIDE DEF q
<1>2. WithHeader(w, 1) = 256 * (r + 1) + 171
  BY <1>1 DEF WithHeader, BLOCK_MAGIC, q
<1>3. (r + 1) % 256 = 1
  BY <1>1
<1> HIDE DEF r
<1>4. (256 * (r + 1) + 171) % 256 = 171 /\ (256 * (r + 1) + 171) \div 256 = r + 1
  BY <1>1
<1> QED
  BY <1>2, <1>3, <1>4 DEF BLOCK_MAGIC

\* What the end of kmalloc leaves in the heap: the header, nothing of what lies
\* before it, zeros for kcalloc, and for krealloc the contents of the old block.
LEMMA Returned ==
  ASSUME Facts, Usage, FinishAlloc
  PROVE  LET b == op.best IN
         /\ b \in Words /\ b + 8 \in Words /\ b \in Nat /\ b % 8 = 0
         /\ HeapStart <= b /\ b + 24 + op.size <= HeapEnd
         /\ \A a \in live : a.ptr + a.size <= b
         /\ mem' \in [Words -> Nat]
         /\ mem'[b] = op.size /\ mem'[b + 8] = WithHeader(mem[b + 8], 1)
         /\ \A w \in Words : w < b => mem'[w] = mem[w]
         /\ op.zero => \A w \in Words : b + 16 <= w /\ w < b + 16 + op.size => mem'[w] = 0
         /\ op.old # NULL =>
              \A o \in live, i \in 0..(op.size - 1) :
                o.ptr = op.old /\ i < o.size /\ o.ptr + i \in Words
                  => mem'[b + 16 + i] = mem[o.ptr + i]
<1> DEFINE b == op.best
           p == b + HEADER_SIZE
           m == [mem EXCEPT ![b] = op.size, ![b + 8] = WithHeader(@, 1)]
           kept == m[op.old - HEADER_SIZE]
           n == IF kept < op.size THEN kept ELSE op.size
<1>1. op.pc = "commit" /\ Chosen(mgr.free_list) /\ op.size % 8 = 0
  BY DEF FinishAlloc, Facts, CallInProgress, MEM_ALIGNMENT
<1>2. /\ b \in Words /\ b + 8 \in Words /\ b \in Nat /\ op.size \in Nat /\ b % 8 = 0
      /\ p = b + 16 /\ HeapStart <= b /\ b + 24 + op.size <= HeapEnd
      /\ \A a \in live : a.ptr + a.size <= b
  <2>1. InHeap(b)
    BY <1>1 DEF Chosen
  <2> QED
    BY <1>1, <2>1, BlockFacts, Types DEF Chosen, Behind, InHeap, FREE_BLOCK, HEADER_SIZE
<1>3. \/ op.old = NULL /\ ~op.zero /\ mem' = m
      \/ op.zero /\ mem' = [w \in Words |-> IF w \in Payload(p, op.size) THEN 0 ELSE m[w]]
      \/ op.old # NULL /\ mem' = Copied(m, p, op.old, n)
  BY DEF FinishAlloc, Commit
<1>4. /\ m[b] = op.size /\ m[b + 8] = WithHeader(mem[b + 8], 1)
      /\ \A w \in Words : w # b /\ w # b + 8 => m[w] = mem[w]
  BY <1>2, Types
<1> HIDE DEF m, n, p
<1>5. \A k, w : w \in Words /\ w < b + 16 => w \notin Payload(p, k)
  BY <1>2, WordFacts DEF Payload
<1>6. \A w \in Words : w < b + 16 => mem'[w] = m[w]
  BY <1>3, <1>5 DEF Copied
<1>7. mem' \in [Words -> Nat]
  BY WrittenInBlock
<1>8. \A w \in Words : w < b => w # b /\ w # b + 8 /\ w < b + 16
  BY <1>2, WordFacts
<1>9. b < b + 16 /\ b + 8 < b + 16
  BY <1>2
<1>10. op.zero => \A w \in Words : b + 16 <= w /\ w < b + 16 + op.size => mem'[w] = 0
  <2> SUFFICES ASSUME op.zero, NEW w \in Words, b + 16 <= w, w < b + 16 + op.size
               PROVE  mem'[w] = 0
    OBVIOUS
  <2>1. op.old = NULL
    BY DEF Usage
  <2>2. w \in Payload(p, op.size)
    BY <1>2 DEF Payload
  <2> QED
    BY <1>3, <2>1, <2>2
<1>11. ASSUME op.old # NULL, NEW o \in live, NEW i \in 0..(op.size - 1),
              o.ptr = op.old, i < o.size, o.ptr + i \in Words
       PROVE  mem'[b + 16 + i] = mem[o.ptr + i]
  <2>1. mem' = Copied(m, p, op.old, n)
    BY <1>3, <1>11 DEF Usage
  <2>2. /\ o.ptr \in Nat /\ o.size \in Nat /\ o.ptr % 8 = 0 /\ o.ptr - 16 \in Words
        /\ o.ptr + o.size <= b /\ i \in Nat /\ i < op.size
    BY <1>2, <1>11, HeaderCells
  <2>3. kept = o.size
    <3>1. op.old - HEADER_SIZE = o.ptr - 16 /\ o.ptr - 16 < b
      BY <1>2, <1>11, <2>2 DEF HEADER_SIZE
    <3>2. m[o.ptr - 16] = mem[o.ptr - 16]
      BY <1>4, <1>8, <2>2, <3>1
    <3>3. mem[o.ptr - 16] = o.size
      BY DEF Usage, HeldHeaders, HEADER_SIZE
    <3> QED
      BY <3>1, <3>2, <3>3
  <2>4. i < n /\ n \in Nat
    BY <1>2, <1>11, <2>2, <2>3 DEF n
  <2>5. b + 16 + i \in Words
    <3>1. /\ b + 16 + i \in Nat /\ HeapStart <= b + 16 + i /\ b + 16 + i < HeapEnd
      BY <1>2, <2>2, WordFacts
    <3>2. (o.ptr + i) % 8 = 0
      BY <1>11, WordFacts
    <3>3. (b + 16 + i) % 8 = 0
      BY <1>2, <2>2, <3>2
    <3> QED
      BY <3>1, <3>3, WordFacts
  <2>6. b + 16 + i \in Payload(p, n)
    BY <1>2, <2>2, <2>4, <2>5 DEF Payload
  <2>7. (b + 16 + i) - p + op.old = o.ptr + i
    BY <1>2, <1>11, <2>2
  <2>8. mem'[b + 16 + i] = m[o.ptr + i]
    BY <1>11, <2>1, <2>5, <2>6, <2>7 DEF Copied
  <2>9. o.ptr + i < b
    BY <1>2, <1>11, <2>2
  <2> QED
    BY <1>4, <1>8, <1>11, <2>8, <2>9
<1> QED
  BY <1>2, <1>4, <1>6, <1>7, <1>8, <1>9, <1>10, <1>11

\* kmalloc's bookkeeping counts the bytes of the block it returns, header
\* included, and they were not in use.
LEMMA CountedBlock ==
  ASSUME Facts, Usage, FinishAlloc
  PROVE  mgr'.used_memory = Cardinality(InUse')
<1> DEFINE b == op.best
           e == b + 15 + op.size
           new == b..e
           heap == HeapStart..(HeapEnd - 1)
<1>1. /\ b \in Nat /\ op.size \in Nat /\ HeapStart <= b /\ b + 24 + op.size <= HeapEnd
      /\ \A a \in live : a.ptr + a.size <= b /\ a.ptr \in Nat /\ a.size \in Nat
  BY Returned, Types
<1>2. live' = live \cup {[ptr |-> b + 16, size |-> op.size]}
  BY DEF FinishAlloc, Commit, HEADER_SIZE
<1>3. mgr'.used_memory = (mgr.used_memory + op.size + 16) % Word
  BY Types DEF FinishAlloc, Commit, HEADER_SIZE, Manager
<1> HIDE DEF b
<1>4. InUse' = InUse \cup new
  <2>1. ASSUME NEW x \in heap
        PROVE  x \in InUse' <=> x \in InUse \/ x \in new
    <3>1. x \in InUse' <=> \E a \in live' : a.ptr - 16 <= x /\ x < a.ptr + a.size
      BY <2>1 DEF InUse, HEADER_SIZE
    <3>2. x \in InUse <=> \E a \in live : a.ptr - 16 <= x /\ x < a.ptr + a.size
      BY <2>1 DEF InUse, HEADER_SIZE
    <3>3. x \in new <=> (b + 16) - 16 <= x /\ x < (b + 16) + op.size
      BY <1>1, <2>1, WordFacts
    <3> DEFINE Covers(a) == a.ptr - 16 <= x /\ x < a.ptr + a.size
               a0 == [ptr |-> b + 16, size |-> op.size]
    <3>4. Covers(a0) <=> x \in new
      BY <3>3
    <3> HIDE DEF Covers, a0, new
    <3>5. x \in InUse' <=> \E a \in live \cup {a0} : Covers(a)
      BY <1>2, <3>1, Zenon DEF Covers, a0
    <3>6. x \in InUse <=> \E a \in live : Covers(a)
      BY <3>2, Zenon DEF Covers
    <3> QED
      BY <3>4, <3>5, <3>6, Zenon
  <2>2. InUse' \subseteq heap /\ InUse \subseteq heap
    BY DEF InUse
  <2>3. new \subseteq heap
    BY <1>1, WordFacts
  <2> HIDE DEF new, heap
  <2> QED
    BY <2>1, <2>2, <2>3
<1>5. InUse \cap new = {}
  <2> SUFFICES ASSUME NEW x \in InUse, x \in new PROVE FALSE
    OBVIOUS
  <2>1. x \in Int /\ b <= x
    BY <1>1
  <2>2. PICK a \in live : x < a.ptr + a.size
    BY DEF InUse
  <2> QED
    BY <1>1, <2>1, <2>2
<1>6. e \in Int /\ e >= b /\ HeapStart \in Int /\ HeapEnd - 1 \in Int /\ HeapEnd - 1 >= HeapStart
  BY <1>1, WordFacts
<1>7. IsFiniteSet(heap) /\ Cardinality(heap) = HeapEnd - HeapStart
  <2>1. Cardinality(heap) = (HeapEnd - 1) - HeapStart + 1
    BY <1>6, FS_Interval
  <2> QED
    BY <1>6, <2>1, FS_Interval, WordFacts
<1>8. IsFiniteSet(new) /\ Cardinality(new) = op.size + 16
  <2> HIDE DEF e
  <2>1. IsFiniteSet(new) /\ Cardinality(new) = e - b + 1
    <3>1. b \in Int /\ e \in Int /\ ~(b > e)
      BY <1>1, <1>6
    <3> QED
      BY <3>1, FS_Interval
  <2> QED
    BY <1>1, <2>1 DEF e
<1> HIDE DEF new
<1>9. InUse \in SUBSET heap /\ InUse' \in SUBSET heap
  BY DEF InUse
<1> HIDE DEF heap
<1>10. IsFiniteSet(InUse) /\ Cardinality(InUse) \in Nat
  BY <1>7, <1>9, FS_Subset, FS_CardinalityType
<1>11. Cardinality(InUse \cup new) = Cardinality(InUse) + op.size + 16
  <2>1. Cardinality(InUse \cup new)
          = Cardinality(InUse) + Cardinality(new) - Cardinality(InUse \cap new)
    BY <1>8, <1>10, FS_Union
  <2>2. Cardinality(InUse \cap new) = 0
    BY <1>5, FS_EmptySet, Zenon
  <2> QED
    BY <1>1, <1>8, <1>10, <2>1, <2>2
<1>12. Cardinality(InUse \cup new) <= HeapEnd - HeapStart
  BY <1>4, <1>7, <1>9, FS_Subset
<1>13. Cardinality(InUse) + op.size + 16 \in 0..(Word - 1)
  BY <1>1, <1>10, <1>11, <1>12, WordFacts
<1>14. (Cardinality(InUse) + op.size + 16) % Word = Cardinality(InUse) + op.size + 16
  BY <1>13, WordFacts
<1> QED
  BY <1>3, <1>4, <1>11, <1>14 DEF Usage

\* A caller's writes miss the headers, its own and everybody else's.
LEMMA WriteMissesHeaders ==
  ASSUME Facts, NEW a \in live, CallerWrites(a), NEW c \in live
  PROVE  mem'[c.ptr - 16] = mem[c.ptr - 16] /\ mem'[(c.ptr - 16) + 8] = mem[(c.ptr - 16) + 8]
<1>1. mem' = [w \in Words |-> IF w \in Payload(a.ptr, a.size) THEN Fill ELSE mem[w]]
  BY DEF CallerWrites
<1>2. /\ a.ptr \in Nat /\ a.size \in Nat /\ c.ptr \in Nat /\ c.size \in Nat
      /\ c.ptr - 16 \in Words /\ (c.ptr - 16) + 8 \in Words
  BY HeaderCells
<1>3. c = a \/ a.ptr + a.size <= c.ptr - 16 \/ c.ptr + c.size <= a.ptr - 16
  BY DEF Facts, Disjoint, HEADER_SIZE
<1>4. ~(a.ptr <= c.ptr - 16 /\ c.ptr - 16 < a.ptr + a.size)
      /\ ~(a.ptr <= (c.ptr - 16) + 8 /\ (c.ptr - 16) + 8 < a.ptr + a.size)
  BY <1>2, <1>3
<1> QED
  BY <1>1, <1>2, <1>4 DEF Payload

\* kmalloc leaves the headers of the other blocks alone and writes the one of
\* the block it returns.
LEMMA HeadersReturned ==
  ASSUME Facts, Usage, FinishAlloc
  PROVE  HeldHeaders'
<1> DEFINE b == op.best
<1>1. live' = live \cup {[ptr |-> b + 16, size |-> op.size]}
  BY DEF FinishAlloc, Commit, HEADER_SIZE
<1>2. /\ b \in Nat /\ b \in Words /\ b + 8 \in Words /\ \A a \in live : a.ptr + a.size <= b
      /\ mem'[b] = op.size /\ mem'[b + 8] = WithHeader(mem[b + 8], 1)
      /\ \A w \in Words : w < b => mem'[w] = mem[w]
  BY Returned
<1>3. mem'[b + 8] % 256 = BLOCK_MAGIC /\ (mem'[b + 8] \div 256) % 256 = 1
  BY <1>2, HeaderBytes, Types
<1> SUFFICES ASSUME NEW a \in live'
             PROVE  /\ mem'[a.ptr - 16] = a.size
                    /\ mem'[(a.ptr - 16) + 8] % 256 = BLOCK_MAGIC
                    /\ (mem'[(a.ptr - 16) + 8] \div 256) % 256 = 1
  BY DEF HeldHeaders, HeaderMagic, HeaderUsed, HEADER_SIZE
<1>4. CASE a \in live
  <2>1. /\ a.ptr \in Nat /\ a.size \in Nat /\ a.ptr - 16 \in Words /\ (a.ptr - 16) + 8 \in Words
        /\ a.ptr - 16 < b /\ (a.ptr - 16) + 8 < b
    BY <1>2, <1>4, HeaderCells
  <2>2. /\ mem[a.ptr - 16] = a.size
        /\ mem[(a.ptr - 16) + 8] % 256 = BLOCK_MAGIC
        /\ (mem[(a.ptr - 16) + 8] \div 256) % 256 = 1
    BY <1>4 DEF Usage, HeldHeaders, HeaderMagic, HeaderUsed, HEADER_SIZE
  <2>3. mem'[a.ptr - 16] = mem[a.ptr - 16] /\ mem'[(a.ptr - 16) + 8] = mem[(a.ptr - 16) + 8]
    BY <1>2, <2>1
  <2> QED
    BY <2>2, <2>3
<1>5. CASE a = [ptr |-> b + 16, size |-> op.size]
  <2>1. a.ptr = b + 16 /\ a.size = op.size
    BY <1>5
  <2>2. a.ptr - 16 = b
    BY <1>2, <2>1
  <2> QED
    BY <1>2, <1>3, <2>1, <2>2
<1> QED
  BY <1>1, <1>4, <1>5

\* kfree accepts a block somebody holds: its header is intact.
LEMMA HeldFreeable ==
  ASSUME Facts, Usage, NEW a \in live
  PROVE  Freeable(a.ptr - HEADER_SIZE)
<1>1. HeapStart <= a.ptr - HEADER_SIZE /\ a.ptr - HEADER_SIZE < HeapEnd
  BY HeaderCells, WordFacts DEF HEADER_SIZE
<1>2. /\ HeaderMagic(a.ptr - HEADER_SIZE) = BLOCK_MAGIC
      /\ HeaderUsed(a.ptr - HEADER_SIZE) = 1
  BY DEF Usage, HeldHeaders
<1> QED
  BY <1>1, <1>2 DEF Freeable

\* So the first call of kfree, or the first block krealloc replaces, ends the
\* phase.
LEMMA FreeEndsPhase ==
  ASSUME Facts, Usage, FreeOld \/ \E ptr \in {a.ptr : a \in live} \cup freed : kfree(ptr)
  PROVE  ~fresh' /\ live # {}
<1>1. ASSUME FreeOld PROVE ~fresh' /\ live # {}
  <2>1. op.pc = "refree" /\ op.old # NULL
    BY <1>1 DEF FreeOld, Usage
  <2>2. PICK a \in live : a.ptr = op.old
    BY <2>1 DEF Facts, CallInProgress
  <2>3. Freeable(op.old - HEADER_SIZE)
    BY <2>2, HeldFreeable
  <2> QED
    BY <1>1, <2>2, <2>3 DEF FreeOld, Release
<1>2. ASSUME NEW ptr \in {a.ptr : a \in live} \cup freed, kfree(ptr)
      PROVE  ~fresh' /\ live # {}
  <2>1. PICK a \in live : a.ptr = ptr
    BY DEF Usage
  <2>2. Freeable(ptr - HEADER_SIZE)
    BY <2>1, HeldFreeable
  <2> QED
    BY <1>2, <2>1, <2>2 DEF kfree, Release
<1> QED
  BY <1>1, <1>2

\* Every step of the fresh phase keeps the headers and the count.
LEMMA UsageSteps ==
  ASSUME Facts, Usage, fresh, fresh', [Next]_vars
  PROVE  Usage'
<1>1. CASE \/ \E n \in Requests : kmalloc(n, FALSE)
           \/ \E n \in Requests : kcalloc(2, n)
           \/ \E a \in live, n \in Requests : krealloc(a, n)
  <2>1. /\ UNCHANGED <<mem, mgr, live, freed>> /\ op'.pc = "fit"
        /\ op'.zero => op'.old = NULL
    BY <1>1, Requested
  <2> QED
    BY <2>1, UsageKept
<1>2. CASE FreeOld \/ \E ptr \in {a.ptr : a \in live} \cup freed : kfree(ptr)
  BY <1>2, FreeEndsPhase
<1>3. ASSUME NEW a \in live, CallerWrites(a) PROVE Usage'
  <2>1. UNCHANGED <<mgr, op, live, freed>> /\ op.pc = "idle"
    BY <1>3 DEF CallerWrites, Ready
  <2>2. op'.pc # "refree" /\ (op'.zero => op'.old = NULL)
    BY <2>1 DEF Usage
  <2> QED
    BY <1>3, <2>1, <2>2, WriteMissesHeaders, UsageKept
<1>4. CASE \/ FitStep \/ FitDone \/ CoalesceStep \/ CoalesceDone
           \/ split_block \/ UnlinkStep \/ UnlinkDone
  <2>1. /\ UNCHANGED <<live, freed>> /\ mgr'.used_memory = mgr.used_memory
        /\ \A w \in Words : (\E a \in live : w < a.ptr + a.size) => mem'[w] = mem[w]
        /\ \/ /\ op'.pc \notin {"idle", "refree"}
              /\ op'.size = op.size /\ op'.old = op.old /\ op'.zero = op.zero
           \/ op' = Idle
    BY <1>4, InternalSteps
  <2>2. op'.pc # "refree" /\ (op'.zero => op'.old = NULL)
    BY <2>1 DEF Idle, Usage
  <2>3. \A a \in live : mem'[a.ptr - 16] = mem[a.ptr - 16]
                        /\ mem'[(a.ptr - 16) + 8] = mem[(a.ptr - 16) + 8]
    BY <2>1, HeaderCells
  <2> QED
    BY <2>1, <2>2, <2>3, UsageKept
<1>5. CASE FinishAlloc
  <2>1. /\ freed' = freed \ {op.best + HEADER_SIZE}
        /\ op' = IF op.old = NULL THEN Idle ELSE [Idle EXCEPT !.pc = "refree", !.old = op.old]
    BY <1>5 DEF FinishAlloc, Commit
  <2>2. freed' = {}
    BY <2>1 DEF Usage
  <2>3. (op'.zero => op'.old = NULL) /\ (op'.pc = "refree" => op'.old # NULL)
    BY <2>1 DEF Idle
  <2> QED
    BY <1>5, <2>2, <2>3, CountedBlock, HeadersReturned DEF Usage
<1>6. CASE WildAccess
  BY <1>6, NoWildAccess
<1>7. CASE UNCHANGED vars
  BY <1>7 DEF vars, Usage, HeldHeaders, HeaderMagic, HeaderUsed, InUse
<1> QED
  BY <1>1, <1>2, <1>3, <1>4, <1>5, <1>6, <1>7 DEF Next, Call, Step

\* In the fresh phase nothing has been freed, the headers of the blocks in use
\* are as kmalloc wrote them and used_memory counts the bytes in use.
THEOREM UsageInvariant == Spec => []UsageIInv
<1>1. Init => UsageIInv
  <2> SUFFICES ASSUME Init PROVE Usage
    BY DEF UsageIInv, Usage
  <2>1. live = {} /\ freed = {} /\ op = Idle /\ mgr.used_memory = 0
    BY DEF Init
  <2>2. InUse = {}
    BY <2>1 DEF InUse
  <2>3. mgr.used_memory = Cardinality(InUse)
    BY <2>1, <2>2, FS_EmptySet
  <2> QED
    BY <2>1, <2>3 DEF Usage, HeldHeaders, Idle
<1>2. FreshIInv /\ UsageIInv /\ [Next]_vars => UsageIInv'
  <2> SUFFICES ASSUME FreshIInv, UsageIInv, [Next]_vars, fresh'
               PROVE  Usage'
    BY DEF UsageIInv, Usage
  <2>1. fresh
    BY FreshEnds
  <2>2. Facts /\ Usage
    BY <2>1 DEF FreshIInv, Facts, UsageIInv, Usage
  <2> QED
    BY <2>1, <2>2, UsageSteps
<1> QED
  BY <1>1, <1>2, MemoryInvariant, PTL DEF Spec

\* Until the first kfree used_memory is what callers hold, headers included.
THEOREM MemoryAccounted == Spec => []FreshAccounting
<1>1. UsageIInv => FreshAccounting
  BY DEF UsageIInv, FreshAccounting
<1> QED
  BY <1>1, UsageInvariant, PTL

-----------------------------------------------------------------------------
\* The free list implements Allocator.

\* The heap as Allocator sees it, in the fresh phase and after it.
LEMMA Mapped ==
  /\ fresh =>
       /\ Held = live /\ HeldData = [w \in Alloc!Cells(live) |-> mem[w]]
       /\ op.pc \in {"idle", "refree"} => Request = Alloc!NoRequest
       /\ op.pc \notin {"idle", "refree"} =>
            Request = [kind |-> IF op.zero THEN "calloc"
                                ELSE IF op.old = NULL THEN "malloc" ELSE "realloc",
                       size |-> op.size, old |-> op.old]
  /\ ~fresh => Held = {} /\ HeldData = [w \in {} |-> 0] /\ Request = Alloc!NoRequest
<1>1. fresh => Held = live
  BY DEF Held
<1>2. fresh => HeldData = [w \in Alloc!Cells(live) |-> mem[w]]
  BY <1>1 DEF HeldData, Alloc!Cells
<1>3. ~fresh => Held = {} /\ HeldData = [w \in {} |-> 0]
  BY DEF Held, HeldData
<1> QED
  BY <1>1, <1>2, <1>3 DEF Request, Alloc!NoRequest

\* The same of the next state.
LEMMA MappedNext ==
  /\ fresh' =>
       /\ Held' = live' /\ HeldData' = [w \in Alloc!Cells(live') |-> mem'[w]]
       /\ op'.pc \in {"idle", "refree"} => Request' = Alloc!NoRequest
       /\ op'.pc \notin {"idle", "refree"} =>
            Request' = [kind |-> IF op'.zero THEN "calloc"
                                 ELSE IF op'.old = NULL THEN "malloc" ELSE "realloc",
                        size |-> op'.size, old |-> op'.old]
  /\ ~fresh' => Held' = {} /\ HeldData' = [w \in {} |-> 0] /\ Request' = Alloc!NoRequest
<1>1. fresh' => Held' = live'
  BY DEF Held
<1>2. fresh' => HeldData' = [w \in Alloc!Cells(live') |-> mem'[w]]
  BY <1>1 DEF HeldData, Alloc!Cells
<1>3. ~fresh' => Held' = {} /\ HeldData' = [w \in {} |-> 0]
  BY DEF Held, HeldData
<1> QED
  BY <1>1, <1>2, <1>3 DEF Request, Alloc!NoRequest

\* A call in progress is a request.
LEMMA RequestPending ==
  ASSUME fresh, op.pc \notin {"idle", "refree"}
  PROVE  Request # Alloc!NoRequest
<1> DEFINE kind == IF op.zero THEN "calloc" ELSE IF op.old = NULL THEN "malloc" ELSE "realloc"
<1>1. Request = [kind |-> kind, size |-> op.size, old |-> op.old]
  BY Mapped
<1>2. kind # "none"
  OBVIOUS
<1> HIDE DEF kind
<1>3. Request.kind = kind /\ Alloc!NoRequest.kind = "none"
  BY <1>1 DEF Alloc!NoRequest
<1> QED
  BY <1>2, <1>3

\* A call begins.
LEMMA AskSimulated ==
  ASSUME Facts, Usage, fresh,
         \/ \E n \in Requests : kmalloc(n, FALSE)
         \/ \E n \in Requests : kcalloc(2, n)
         \/ \E a \in live, n \in Requests : krealloc(a, n)
  PROVE  Alloc!Ask
<1>1. /\ UNCHANGED <<mem, mgr, live, freed, fresh>>
      /\ op.pc = "idle" /\ op'.pc = "fit" /\ op'.size \in Nat
      /\ op'.old = NULL \/ (\E a \in live : a.ptr = op'.old)
      /\ op'.zero => op'.old = NULL
  BY Requested
<1>2. Held' = Held /\ HeldData' = HeldData /\ Held = live
  BY <1>1, Mapped, MappedNext
<1>3. Request = Alloc!NoRequest
  BY <1>1, Mapped
<1>4. Request' = [kind |-> IF op'.zero THEN "calloc"
                           ELSE IF op'.old = NULL THEN "malloc" ELSE "realloc",
                  size |-> op'.size, old |-> op'.old]
  BY <1>1, MappedNext
<1>5. \/ Request' \in [kind : {"malloc", "calloc"}, size : Nat, old : {NULL}]
      \/ Request' \in [kind : {"realloc"}, size : Nat, old : {a.ptr : a \in Held}]
  <2>1. CASE op'.old = NULL
    BY <1>1, <1>4, <2>1
  <2>2. CASE op'.old # NULL
    <3>1. op'.old \in {a.ptr : a \in Held}
      BY <1>1, <1>2, <2>2
    <3>2. ~op'.zero
      BY <1>1, <2>2
    <3> QED
      BY <1>1, <1>4, <2>2, <3>1, <3>2
  <2> QED
    BY <2>1, <2>2
<1> QED
  BY <1>1, <1>2, <1>3, <1>5 DEF Alloc!Ask

\* The steps inside a call are not visible, and giving up is a refusal.
LEMMA InternalSimulated ==
  ASSUME Facts, Usage, fresh, fresh',
         \/ FitStep \/ FitDone \/ CoalesceStep \/ CoalesceDone
         \/ split_block \/ UnlinkStep \/ UnlinkDone
  PROVE  Alloc!Refuse \/ UNCHANGED Alloc!vars
<1>1. /\ UNCHANGED live
      /\ \A w \in Words : (\E a \in live : w < a.ptr + a.size) => mem'[w] = mem[w]
      /\ op.pc \notin {"idle", "refree"}
      /\ \/ /\ op'.pc \notin {"idle", "refree"}
            /\ op'.size = op.size /\ op'.old = op.old /\ op'.zero = op.zero
         \/ op' = Idle
  BY InternalSteps
<1>2. Held' = Held
  BY <1>1, Mapped, MappedNext
<1>3. HeldData' = HeldData
  <2>1. \A w \in Alloc!Cells(live) : mem'[w] = mem[w]
    BY <1>1 DEF Alloc!Cells
  <2>2. HeldData = [w \in Alloc!Cells(live) |-> mem[w]]
        /\ HeldData' = [w \in Alloc!Cells(live) |-> mem'[w]]
    BY <1>1, Mapped, MappedNext
  <2> QED
    BY <2>1, <2>2
<1>4. CASE op' = Idle
  <2>1. Request' = Alloc!NoRequest
    BY <1>4, MappedNext, IdleFacts
  <2> QED
    BY <1>1, <1>2, <1>3, <2>1, RequestPending DEF Alloc!Refuse
<1>5. CASE /\ op'.pc \notin {"idle", "refree"}
           /\ op'.size = op.size /\ op'.old = op.old /\ op'.zero = op.zero
  <2>1. Request' = Request
    BY <1>1, <1>5, Mapped, MappedNext
  <2> QED
    BY <1>2, <1>3, <2>1 DEF Alloc!vars
<1> QED
  BY <1>1, <1>4, <1>5

\* A caller's write changes its own block.
LEMMA WriteSimulated ==
  ASSUME Facts, fresh, NEW a \in live, CallerWrites(a)
  PROVE  Alloc!Write(a)
<1>1. /\ op.pc = "idle" /\ UNCHANGED <<op, live, fresh>>
      /\ mem' = [w \in Words |-> IF w \in Payload(a.ptr, a.size) THEN Fill ELSE mem[w]]
  BY DEF CallerWrites, Ready
<1>2. Held' = Held /\ Held = live /\ Request = Alloc!NoRequest /\ Request' = Alloc!NoRequest
  BY <1>1, Mapped, MappedNext
<1>3. /\ HeldData = [w \in Alloc!Cells(live) |-> mem[w]]
      /\ HeldData' = [w \in Alloc!Cells(live) |-> mem'[w]]
  BY <1>1, Mapped, MappedNext
<1>4. Alloc!Cells(live) \subseteq Words
  BY DEF Alloc!Cells
<1>5. HeldData' \in [Alloc!Cells(Held) -> Nat]
  BY <1>1, <1>2, <1>3, <1>4, WordFacts, Types
<1>6. \A w \in Words : mem'[w] = mem[w] \/ (a.ptr <= w /\ w < a.ptr + a.size)
  BY <1>1 DEF Payload
<1>7. \A w \in Alloc!Cells(Held) :
        HeldData'[w] = HeldData[w] \/ (a.ptr <= w /\ w < a.ptr + a.size)
  BY <1>2, <1>3, <1>4, <1>6
<1> QED
  BY <1>1, <1>2, <1>5, <1>7 DEF Alloc!Write

\* A call returns a block.
LEMMA ServeSimulated ==
  ASSUME Facts, Usage, fresh, FinishAlloc
  PROVE  \E p \in Words : Alloc!Serve(p)
<1> DEFINE b == op.best
           p == b + 16
           a0 == [ptr |-> p, size |-> op.size]
           old == Alloc!Cells(live)
           all == Alloc!Cells(live')
<1>1. /\ b \in Nat /\ b % 8 = 0 /\ HeapStart <= b /\ b + 24 + op.size <= HeapEnd
      /\ \A a \in live : a.ptr + a.size <= b
      /\ mem' \in [Words -> Nat]
      /\ \A w \in Words : w < b => mem'[w] = mem[w]
      /\ op.zero => \A w \in Words : b + 16 <= w /\ w < b + 16 + op.size => mem'[w] = 0
      /\ op.old # NULL =>
           \A o \in live, i \in 0..(op.size - 1) :
             o.ptr = op.old /\ i < o.size /\ o.ptr + i \in Words
               => mem'[b + 16 + i] = mem[o.ptr + i]
  BY Returned
<1>2. /\ live' = live \cup {a0} /\ UNCHANGED fresh /\ op.pc = "commit"
      /\ op' = IF op.old = NULL THEN Idle ELSE [Idle EXCEPT !.pc = "refree", !.old = op.old]
  BY DEF FinishAlloc, Commit, HEADER_SIZE
<1>3. op'.pc \in {"idle", "refree"}
  BY <1>2 DEF Idle
<1>4. Held = live /\ Held' = live' /\ Request' = Alloc!NoRequest
  BY <1>2, <1>3, Mapped, MappedNext
<1>5. HeldData = [w \in old |-> mem[w]] /\ HeldData' = [w \in all |-> mem'[w]]
  BY <1>2, Mapped, MappedNext
<1>6. Request # Alloc!NoRequest
  BY <1>2, RequestPending
<1>7. /\ Request.size = op.size /\ Request.old = op.old
      /\ Request.kind = "calloc" => op.zero
      /\ Request.kind = "realloc" => op.old # NULL
  <2>1. Request = [kind |-> IF op.zero THEN "calloc"
                            ELSE IF op.old = NULL THEN "malloc" ELSE "realloc",
                   size |-> op.size, old |-> op.old]
    BY <1>2, Mapped
  <2> QED
    BY <2>1
<1> HIDE DEF b
<1>8. op.size \in Nat /\ p \in Nat
  BY <1>1, Types
<1>9. p \in Words
  <2>1. HeapStart <= p /\ p < HeapEnd /\ p % 8 = 0
    BY <1>1, <1>8, WordFacts
  <2> QED
    BY <1>8, <2>1, WordFacts
<1>10. Alloc!Free(p, Request.size)
  <2>1. p - HEADER_SIZE = b
    BY <1>1 DEF HEADER_SIZE
  <2>2. HeapStart <= p - HEADER_SIZE /\ p + op.size <= HeapEnd
    BY <1>1, <1>8, <2>1, WordFacts
  <2> QED
    BY <1>1, <1>4, <1>7, <2>1, <2>2 DEF Alloc!Free
<1>11. \A w \in old : w \in all /\ w \in Words /\ w < b
  <2> SUFFICES ASSUME NEW w \in old PROVE w \in all /\ w \in Words /\ w < b
    OBVIOUS
  <2>1. w \in Words
    BY DEF Alloc!Cells
  <2>2. PICK a \in live : a.ptr <= w /\ w < a.ptr + a.size
    BY DEF Alloc!Cells
  <2>3. w \in all
    BY <1>2, <2>1, <2>2 DEF Alloc!Cells
  <2>4. w < b
    BY <1>1, <2>1, <2>2, WordFacts, Types
  <2> QED
    BY <2>1, <2>3, <2>4
<1>12. \A w \in Words : p <= w /\ w < p + op.size => w \in all
  <2>1. a0 \in live' /\ a0.ptr = p /\ a0.size = op.size
    BY <1>2
  <2> QED
    BY <2>1 DEF Alloc!Cells
<1>13. all \subseteq Words
  BY DEF Alloc!Cells
<1> HIDE DEF old, all
<1>14. HeldData' \in [all -> Nat]
  BY <1>1, <1>5, <1>13
<1>15. \A w \in old : HeldData'[w] = HeldData[w]
  BY <1>1, <1>5, <1>11
<1>16. Request.kind = "calloc" =>
         \A w \in Words : p <= w /\ w < p + Request.size => HeldData'[w] = 0
  BY <1>1, <1>5, <1>7, <1>12
<1>17. Request.kind = "realloc" =>
         \A o \in Held, i \in 0..(Request.size - 1) :
           o.ptr = Request.old /\ i < o.size /\ o.ptr + i \in Words
             => HeldData'[p + i] = HeldData[o.ptr + i]
  <2> SUFFICES ASSUME Request.kind = "realloc", NEW o \in live, NEW i \in 0..(op.size - 1),
                      o.ptr = op.old, i < o.size, o.ptr + i \in Words
               PROVE  HeldData'[p + i] = HeldData[o.ptr + i]
    BY <1>4, <1>7
  <2>1. mem'[p + i] = mem[o.ptr + i]
    BY <1>1, <1>7
  <2>2. o.ptr \in Nat /\ o.size \in Nat /\ o.ptr % 8 = 0 /\ i \in Nat /\ i < op.size
    BY <1>8, HeaderCells
  <2>3. o.ptr + i \in old
    BY <2>2 DEF old, Alloc!Cells
  <2>4. p + i \in Words
    <3>1. /\ p + i \in Nat /\ HeapStart <= p + i /\ p + i < HeapEnd
      BY <1>1, <1>8, <2>2, WordFacts
    <3>2. (o.ptr + i) % 8 = 0
      BY WordFacts
    <3>3. (p + i) % 8 = 0
      BY <1>1, <2>2, <3>2
    <3> QED
      BY <3>1, <3>3, WordFacts
  <2>5. p + i \in all
    BY <1>8, <1>12, <2>2, <2>4
  <2> QED
    BY <1>5, <2>1, <2>3, <2>5
<1> HIDE DEF p
<1>18. Alloc!Serve(p)
  <2>1. Held' = Held \cup {[ptr |-> p, size |-> Request.size]}
    BY <1>2, <1>4, <1>7
  <2>2. old = Alloc!Cells(Held) /\ all = Alloc!Cells(Held')
    BY <1>4 DEF old, all
  <2> QED
    BY <1>2, <1>4, <1>6, <1>10, <1>14, <1>15, <1>16, <1>17, <2>1, <2>2 DEF Alloc!Serve
<1> QED
  BY <1>9, <1>18

\* The promise ends when a block is freed or a split overruns its block.
LEMMA BreakSimulated ==
  ASSUME Facts, Usage, fresh, ~fresh', Next
  PROVE  Alloc!Break
<1>1. Held' = {} /\ HeldData' = [w \in {} |-> 0] /\ Request' = Alloc!NoRequest /\ Held = live
  BY Mapped, MappedNext
<1>2. CASE FreeOld \/ \E ptr \in {a.ptr : a \in live} \cup freed : kfree(ptr)
  BY <1>1, <1>2, FreeEndsPhase DEF Alloc!Break
<1>3. CASE split_block \/ WildAccess
  <2>1. op.pc \notin {"idle", "refree"}
    BY <1>3 DEF split_block, WildAccess
  <2> QED
    BY <1>1, <2>1, RequestPending DEF Alloc!Break
<1> QED
  BY <1>2, <1>3
    DEF Next, Call, Step, kmalloc, kcalloc, krealloc, CallerWrites, FitStep, FitDone,
        CoalesceStep, CoalesceDone, UnlinkStep, UnlinkDone, FinishAlloc, Commit

\* kmalloc, kcalloc and krealloc implement an allocator, for every heap and every
\* set of requests, until the first block is freed or a split overruns its block.
THEOREM AllocatorImplemented == Spec => ImplementsAllocator
<1>1. Init => Alloc!Init
  <2> SUFFICES ASSUME Init PROVE Alloc!Init
    OBVIOUS
  <2>1. fresh /\ live = {} /\ op.pc = "idle"
    BY DEF Init, Idle
  <2>2. Alloc!Cells(live) = {}
    BY <2>1 DEF Alloc!Cells
  <2> QED
    BY <2>1, <2>2, Mapped DEF Alloc!Init
<1>2. FreshIInv /\ UsageIInv /\ [Next]_vars => [Alloc!Next]_(Alloc!vars)
  <2> SUFFICES ASSUME FreshIInv, UsageIInv, [Next]_vars
               PROVE  Alloc!Next \/ UNCHANGED Alloc!vars
    OBVIOUS
  <2>1. CASE ~fresh
    <3>1. ~fresh'
      BY <2>1, FreshEnds
    <3> QED
      BY <2>1, <3>1, Mapped, MappedNext DEF Alloc!vars
  <2>2. CASE fresh
    <3>1. Facts /\ Usage
      BY <2>2 DEF FreshIInv, Facts, UsageIInv, Usage
    <3>2. CASE UNCHANGED vars
      <4>1. live' = live /\ mem' = mem /\ op' = op /\ fresh' = fresh
        BY <3>2 DEF vars
      <4> QED
        BY <4>1 DEF Alloc!vars, Held, HeldData, Request
    <3>3. CASE Next /\ ~fresh'
      BY <2>2, <3>1, <3>3, BreakSimulated DEF Alloc!Next
    <3>4. CASE Call /\ fresh'
      <4>1. CASE \/ \E n \in Requests : kmalloc(n, FALSE)
                 \/ \E n \in Requests : kcalloc(2, n)
                 \/ \E a \in live, n \in Requests : krealloc(a, n)
        BY <2>2, <3>1, <4>1, AskSimulated DEF Alloc!Next
      <4>2. CASE \E ptr \in {a.ptr : a \in live} \cup freed : kfree(ptr)
        BY <3>1, <3>4, <4>2, FreeEndsPhase
      <4>3. ASSUME NEW a \in live, CallerWrites(a) PROVE Alloc!Next
        <5>1. Alloc!Write(a) /\ Held = live
          BY <2>2, <3>1, <4>3, WriteSimulated, Mapped
        <5> QED
          BY <5>1 DEF Alloc!Next
      <4> QED
        BY <3>4, <4>1, <4>2, <4>3 DEF Call
    <3>5. CASE Step /\ fresh'
      <4>1. CASE FinishAlloc
        BY <2>2, <3>1, <4>1, ServeSimulated DEF Alloc!Next
      <4>2. CASE FreeOld
        BY <3>1, <3>5, <4>2, FreeEndsPhase
      <4>3. CASE WildAccess
        BY <2>2, <3>1, <3>5, <4>3, NoWildAccess
      <4>4. CASE \/ FitStep \/ FitDone \/ CoalesceStep \/ CoalesceDone
                 \/ split_block \/ UnlinkStep \/ UnlinkDone
        BY <2>2, <3>1, <3>5, <4>4, InternalSimulated DEF Alloc!Next
      <4> QED
        BY <3>5, <4>1, <4>2, <4>3, <4>4 DEF Step
    <3> QED
      BY <3>2, <3>3, <3>4, <3>5 DEF Next
  <2> QED
    BY <2>1, <2>2
<1> QED
  BY <1>1, <1>2, MemoryInvariant, UsageInvariant, PTL DEF Spec, ImplementsAllocator, Alloc!Spec
=============================================================================
