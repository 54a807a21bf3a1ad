------------------------------- MODULE Zmalloc -------------------------------
(***************************************************************************)
(* zmalloc.c as it is built on Linux, where malloc does not tell the size  *)
(* of a block: a header in front of every block keeps it.  Sizes are in *)
(* units of four bytes.  A state of the heap is a record                   *)
(*   live   the blocks in use, a function from pointers to their sizes     *)
(*   used   used_memory                                                    *)
(*   wild   a pointer that is not of a block in use has been freed or read *)
(* malloc gives the lowest number that is free: an address is used again   *)
(* as soon as it can be.                                                   *)
(***************************************************************************)
EXTENDS Integers, FiniteSetsExt, Functions

NULL == 0
PREFIX_SIZE == 2

\* The memory of all blocks, with their headers.
InUse(live) ==
    LET top == Max(DOMAIN live \cup {0})
        upto[n \in 0..top] ==
            IF n = 0 THEN 0
            ELSE upto[n - 1] + (IF n \in DOMAIN live THEN live[n] + PREFIX_SIZE ELSE 0)
    IN  upto[top]

NoHeap == [live |-> [b \in {} |-> 0], used |-> 0, wild |-> FALSE]

malloc(heap, size) ==
    LET ptr == Min((1..(Cardinality(DOMAIN heap.live) + 1)) \ DOMAIN heap.live)
    IN  [heap |-> [heap EXCEPT !.live = [b \in DOMAIN @ \cup {ptr} |-> IF b = ptr THEN size ELSE @[b]]],
         ptr |-> ptr]

\* Both round a copy of n up to a multiple of a word and then count n itself.
update_zmalloc_stat_alloc(heap, n) == [heap EXCEPT !.used = @ + n]
update_zmalloc_stat_free(heap, n)  == [heap EXCEPT !.used = @ - n]

zmalloc(heap, size) ==
    LET r == malloc(heap, size)
    IN  [r EXCEPT !.heap = update_zmalloc_stat_alloc(@, size + PREFIX_SIZE)]

\* The content of a block is read.
zread(heap, ptr) == [heap EXCEPT !.wild = @ \/ ptr \notin DOMAIN heap.live]

zfree(heap, ptr) ==
    IF ptr = NULL THEN heap
    ELSE IF ptr \notin DOMAIN heap.live THEN zread(heap, ptr)
    ELSE [update_zmalloc_stat_free(heap, heap.live[ptr] + PREFIX_SIZE)
            EXCEPT !.live = Restrict(@, DOMAIN @ \ {ptr})]

\* realloc may move the block or leave it where it is; the new size is counted
\* for the old one, without the header that stays.
zrealloc(heap, ptr, size) ==
    IF ptr = NULL THEN zmalloc(heap, size)
    ELSE IF ptr \notin DOMAIN heap.live THEN [heap |-> zread(heap, ptr), ptr |-> ptr]
    ELSE [heap |-> update_zmalloc_stat_alloc(
                     update_zmalloc_stat_free([heap EXCEPT !.live[ptr] = size], heap.live[ptr]), size),
          ptr |-> ptr]
==============================================================================
