------------------------------- MODULE KHeap --------------------------------
(***************************************************************************)
(* The heap as its callers use it: new and delete (kheap.h), ArrayList and *)
(* String call kmalloc for any size and kfree what they were given, once.  *)
(***************************************************************************)
EXTENDS HeapCalls

CONSTANT Requests   \* the sizes asked for

ASSUME RequestsAssumption == Requests \subseteq 0 .. Modulus - 1

VARIABLES
    blocks, \* the block list
    given,  \* the callers' pointers, each with the size it was asked for
    answer  \* history: what kmalloc was asked and returned in the last step

vars == <<blocks, given, answer>>

NoCall == [asked |-> 0, got |-> Null]

Init ==
    /\ blocks = NoBlocks
    /\ given = {}
    /\ answer = NoCall

Malloc(n) ==
    LET r == kmalloc(blocks, n)
    IN  /\ blocks' = r.heap
        /\ answer' = [asked |-> n, got |-> r.ptr]
        /\ given' = IF r.ptr = Null THEN given
                    ELSE given \union {[ptr |-> r.ptr, asked |-> n]}

Free(g) ==
    /\ blocks' = kfree(blocks, g.ptr)
    /\ given' = given \ {g}
    /\ answer' = NoCall

Next == (\E n \in Requests : Malloc(n)) \/ (\E g \in given : Free(g))

Spec == Init /\ [][Next]_vars

-----------------------------------------------------------------------------
Blocks == DOMAIN blocks

\* The list (Split, Absorb and PointBack): the blocks tile the array from its
\* first byte to its last, each is followed by the one its next names, and
\* prev leads back.
HeapExact ==
    /\ Blocks # {} => 0 \in Blocks
    /\ \A a \in Blocks :
        /\ blocks[a].size >= 0
        /\ EndOf(blocks, a) <= HeapSize
        /\ blocks[a].next = IF EndOf(blocks, a) = HeapSize THEN Null ELSE EndOf(blocks, a)
        /\ blocks[a].next # Null => blocks[a].next \in Blocks /\ blocks[blocks[a].next].prev = a
        /\ blocks[a].prev = Null <=> a = 0
        /\ \A b \in Blocks : a < b => EndOf(blocks, a) <= b

\* Coalescing (the two merges of kfree): no two free blocks lie side by side,
\* so what is free is never too scattered for a request it has room for.
Coalesced ==
    \A a \in Blocks : blocks[a].free /\ blocks[a].next # Null => ~blocks[blocks[a].next].free

\* The callers' side (kmalloc's free flag, kfree's arithmetic on pointers):
\* the blocks in use are those the callers have, one each, as large as asked
\* -- except for a size so close to 2^32 that align8 wraps: that caller has
\* an empty block.
GivenExact ==
    /\ UsedBlocks(blocks) = {g.ptr - Header : g \in given}
    /\ \A g \in given :
        /\ \A g2 \in given : g2.ptr = g.ptr => g2 = g
        /\ \/ blocks[g.ptr - Header].size >= g.asked
           \/ g.asked > Modulus - Align

\* Nothing is lost: when every caller has freed what it had, the heap is the
\* one block it started as.
FreedIsWhole == given = {} /\ Blocks # {} => blocks = heap_init(NoBlocks)

\* The heap is an allocator: pieces never overlap, and a request is refused
\* only when there is no room for it anywhere (kmalloc's loop and coalesce).
TooLarge(n) == n > Modulus - Align
Abstract == INSTANCE Allocator WITH
    Size <- HeapSize,
    Overhead <- Header,
    last <- answer,
    live <- {[from |-> a, to |-> EndOf(blocks, a)] : a \in UsedBlocks(blocks)}

ImplementsAllocator == Abstract!Spec
=============================================================================
