----------------------------- MODULE HeapCalls ------------------------------
(***************************************************************************)
(* The kernel heap (kheap.cpp): kmalloc and kfree as functions of the      *)
(* block list.                                                             *)
(*                                                                         *)
(* heap[] is one static array.  A block is a header and the bytes behind   *)
(* it; its address is the offset of its header.  The list is a function    *)
(* from the addresses of its blocks to their headers, empty until          *)
(* heap_init has run.                                                      *)
(***************************************************************************)
EXTENDS Integers, FiniteSetsExt

CONSTANTS
    HeapSize,   \* sizeof(heap): 65536
    Header,     \* sizeof(BlockHeader): 16
    Align,      \* 8
    Modulus     \* 2^32: what a u32 wraps at

ASSUME HeapAssumption ==
    /\ Header \in Nat \ {0}
    /\ Align \in Nat \ {0}
    /\ HeapSize \in Nat /\ HeapSize >= Header
    /\ Header % Align = 0 /\ HeapSize % Align = 0
    /\ Modulus \in Nat /\ Modulus > HeapSize + Header + Align

Null == -1          \* a null pointer, to a header or to the caller's bytes

BlockHeaders == [size : Nat, free : BOOLEAN, next : Int, prev : Int]
NoBlocks == [a \in {} |-> 0]

\* The address behind a block.
EndOf(h, a) == a + Header + h[a].size
UsedBlocks(h) == {a \in DOMAIN h : ~h[a].free}

-----------------------------------------------------------------------------
\* The sum of two u32, each less than Modulus.
Wrap(x) == IF x < Modulus THEN x ELSE x - Modulus

\* Mutant: rounds down.
align8_Down(size) == size - (size % Align)

\* (size + 7) & ~7
align8(size) ==
    LET padded == Wrap(size + (Align - 1))
    IN  padded - (padded % Align)

heap_init(h) ==
    IF DOMAIN h # {} THEN h
    ELSE [a \in {0} |-> [size |-> HeapSize - Header, free |-> TRUE, next |-> Null, prev |-> Null]]

\* Mutant: a block of exactly the size asked for is passed over.
Fits_Strictly(h, size) == {a \in DOMAIN h : h[a].free /\ h[a].size > size}

Fits(h, size) == {a \in DOMAIN h : h[a].free /\ h[a].size >= size}

\* Mutant: the block behind keeps its old prev.
PointBack_Never(h, b, p) == h

\* if (b) b->prev = p;
PointBack(h, b, p) == IF b = Null THEN h ELSE [h EXCEPT ![b].prev = p]

\* Mutant: the header of the new block is not taken off its size.
Rest_ForgetsHeader(h, a, size) ==
    [size |-> h[a].size - size, free |-> TRUE, next |-> h[a].next, prev |-> a]

\* The header of what is left of block a behind its first size bytes.
Rest(h, a, size) ==
    [size |-> h[a].size - size - Header, free |-> TRUE, next |-> h[a].next, prev |-> a]

\* Block a is split when what is left has room for a header and 8 bytes.
Split(h, a, size) ==
    LET s == a + Header + size
        cut == [b \in DOMAIN h \union {s} |->
                  IF b = s THEN Rest(h, a, size)
                  ELSE IF b = a THEN [h[a] EXCEPT !.size = size, !.next = s]
                  ELSE h[b]]
    IN  IF h[a].size >= Wrap(Wrap(size + Header) + Align)
        THEN PointBack(cut, h[a].next, s)
        ELSE h

Take(h, a, size) == [Split(h, a, size) EXCEPT ![a].free = FALSE]

\* The heap kmalloc leaves, and what it returns: the first block that fits,
\* which is the lowest, the list being in the order of the addresses (that is
\* KHeap's HeapExact).
kmalloc(h0, n) ==
    LET h == heap_init(h0)
        size == align8(n)
        a == Min(Fits(h, size))
    IN  IF n = 0 THEN [heap |-> h0, ptr |-> Null]
        ELSE IF Fits(h, size) = {} THEN [heap |-> h, ptr |-> Null]
        ELSE [heap |-> Take(h, a, size), ptr |-> a + Header]

-----------------------------------------------------------------------------
\* Block a takes the one behind it in.
Absorb(h, a) ==
    LET b == h[a].next
        merged == [c \in DOMAIN h \ {b} |->
                     IF c = a THEN [h[a] EXCEPT !.size = @ + Header + h[b].size, !.next = h[b].next]
                     ELSE h[c]]
    IN  PointBack(merged, h[b].next, a)

MergeNext(h, a) ==
    IF h[a].next # Null /\ h[h[a].next].free THEN Absorb(h, a) ELSE h

\* Mutant: the block before is not looked at.
MergePrev_Never(h, a) == h

MergePrev(h, a) ==
    IF h[a].prev # Null /\ h[h[a].prev].free THEN Absorb(h, h[a].prev) ELSE h

coalesce(h, a) == MergePrev(MergeNext(h, a), a)

\* ptr is not null: no caller passes a null pointer.
kfree(h, ptr) ==
    LET a == ptr - Header
    IN  coalesce([h EXCEPT ![a].free = TRUE], a)
=============================================================================
