----------------------------- MODULE Allocator ------------------------------
(***************************************************************************)
(* What kmalloc, kcalloc and krealloc of lab3-1-sparrowos-memory-module,   *)
(* src/memory.c, promise their callers: a request is refused, or served    *)
(* with memory that nobody else holds, cleared for kcalloc and with the    *)
(* old contents for krealloc; serving it changes nobody's memory, and a    *)
(* caller's writes stay in its own block.  The free list, headers, the     *)
(* split and the search are not visible.  The promise ends with the first  *)
(* block that is freed, or when a split overruns the block it cuts: Memory *)
(* implements this specification and no stronger one.                      *)
(***************************************************************************)
EXTENDS Integers

CONSTANTS HeapStart, HeapEnd, Words, HEADER_SIZE, NULL

VARIABLES
  held,     \* what callers hold: records [ptr, size]
  data,     \* the words of the memory they hold
  request,  \* the call being served
  broken    \* the promise has ended

vars == <<held, data, request, broken>>

\* The words of the blocks h.
Cells(h) == {w \in Words : \E a \in h : a.ptr <= w /\ w < a.ptr + a.size}

NoRequest == [kind |-> "none", size |-> 0, old |-> NULL]

Init ==
  /\ held = {}
  /\ data = [w \in {} |-> 0]
  /\ request = NoRequest
  /\ broken = FALSE

\* kmalloc, kcalloc or krealloc is called.  The size is the one the allocator
\* makes of the caller's: aligned, and wrapped at the word size.
Ask ==
  /\ ~broken /\ request = NoRequest
  /\ \/ request' \in [kind : {"malloc", "calloc"}, size : Nat, old : {NULL}]
     \/ request' \in [kind : {"realloc"}, size : Nat, old : {a.ptr : a \in held}]
  /\ UNCHANGED <<held, data, broken>>

\* The block fits in the heap with its header, apart from every other one.
Free(p, n) ==
  /\ HeapStart <= p - HEADER_SIZE /\ p + n <= HeapEnd
  /\ \A a \in held : a.ptr + a.size <= p - HEADER_SIZE \/ p + n <= a.ptr - HEADER_SIZE

\* The call returns a block at p.
Serve(p) ==
  /\ ~broken /\ request # NoRequest
  /\ Free(p, request.size)
  /\ held' = held \cup {[ptr |-> p, size |-> request.size]}
  /\ data' \in [Cells(held') -> Nat]
  /\ \A w \in Cells(held) : data'[w] = data[w]
  /\ request.kind = "calloc" =>
       \A w \in Words : p <= w /\ w < p + request.size => data'[w] = 0
  /\ request.kind = "realloc" =>
       \A o \in held, i \in 0..(request.size - 1) :
         o.ptr = request.old /\ i < o.size /\ o.ptr + i \in Words
           => data'[p + i] = data[o.ptr + i]
  /\ request' = NoRequest
  /\ UNCHANGED broken

\* The call returns NULL.
Refuse ==
  /\ ~broken /\ request # NoRequest
  /\ request' = NoRequest
  /\ UNCHANGED <<held, data, broken>>

\* The holder of a writes its memory.
Write(a) ==
  /\ ~broken /\ request = NoRequest
  /\ data' \in [Cells(held) -> Nat]
  /\ \A w \in Cells(held) : data'[w] = data[w] \/ (a.ptr <= w /\ w < a.ptr + a.size)
  /\ UNCHANGED <<held, request, broken>>

\* The promise ends: a block is freed, or a split overruns its block while a
\* request is served.
Break ==
  /\ ~broken
  /\ held # {} \/ request # NoRequest
  /\ broken' = TRUE
  /\ held' = {}
  /\ data' = [w \in {} |-> 0]
  /\ request' = NoRequest

Next ==
  \/ Ask \/ Refuse \/ Break
  \/ \E p \in Words : Serve(p)
  \/ \E a \in held : Write(a)

Spec == Init /\ [][Next]_vars
=============================================================================
