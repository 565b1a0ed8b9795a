----------------------------- MODULE ListCalls ------------------------------
(***************************************************************************)
(* ArrayList<T> (types.h) on the kernel heap: each operation as a function *)
(* of the heap's block list, of what the cells hold, and of the list.      *)
(*                                                                         *)
(* A list is its three fields; its items are the first len cells behind    *)
(* data.  The result of an operation that allocates has ok FALSE when      *)
(* kmalloc returned null: the code then writes through the null pointer,   *)
(* and nothing is said of what follows.                                    *)
(***************************************************************************)
EXTENDS HeapCalls, SequencesExt

CONSTANT ItemSize   \* sizeof(T)

\* The first cells, and twice what fits in the heap, can be asked for: the
\* product sizeof(T) * new_cap does not wrap when the code grows by itself.
ASSUME ItemSizeAssumption ==
    /\ ItemSize \in Nat \ {0}
    /\ 4 * ItemSize <= Modulus - Align
    /\ 2 * HeapSize <= Modulus - Align

-----------------------------------------------------------------------------
(* What the list's storage holds: a cell is named by the address kmalloc   *)
(* gave for its block and its number in it, from 0.  Blocks in use do not  *)
(* overlap, so that two names are two places in memory as long as every    *)
(* cell is inside its block (KHeap and ItemsFit).                          *)

\* What nobody may rely on: a cell never written, or one of a freed block.
Garbage == [data |-> Null, len |-> 0]

NoCells == [c \in {} |-> Garbage]

At(cells, p, i) == IF <<p, i>> \in DOMAIN cells THEN cells[<<p, i>>] ELSE Garbage

\* Only blocks in use keep what they hold.
Remaining(h, cells) ==
    [c \in {d \in DOMAIN cells : d[1] - Header \in UsedBlocks(h)} |-> cells[c]]

\* p[i] = value;
Stored(cells, p, i, value) ==
    [c \in DOMAIN cells \union {<<p, i>>} |-> IF c = <<p, i>> THEN value ELSE cells[c]]

\* for (k = 0; k < n; k++) q[to + k] = p[from + k];
Copied(cells, p, from, q, to, n) ==
    LET target == {<<q, to + k>> : k \in 0 .. n - 1}
    IN  [c \in DOMAIN cells \union target |->
            IF c \in target THEN At(cells, p, c[2] - to + from) ELSE cells[c]]

-----------------------------------------------------------------------------
EmptyList == [data |-> Null, cap |-> 0, len |-> 0]

\* The items of a list: its first len cells.
Items(l, cells) == [i \in 1 .. l.len |-> At(cells, l.data, i - 1)]

Result(h, cells, l, ok) == [heap |-> h, cells |-> cells, list |-> l, ok |-> ok]

\* if (data) kfree(data);
FreeData(h, l) == IF l.data = Null THEN h ELSE kfree(h, l.data)

\* Mutant: the old storage is freed before it is copied.
grow_FreesFirst(h, cells, l, new_cap) ==
    LET freed == FreeData(h, l)
        new == kmalloc(freed, (ItemSize * new_cap) % Modulus)
    IN  Result(new.heap, Copied(Remaining(freed, cells), l.data, 0, new.ptr, 0, l.len),
               [l EXCEPT !.data = new.ptr, !.cap = new_cap], new.ptr # Null)

\* The cells are copied to new storage, and the old one is freed.
grow(h, cells, l, new_cap) ==
    LET new == kmalloc(h, (ItemSize * new_cap) % Modulus)
        freed == FreeData(new.heap, l)
    IN  Result(freed, Remaining(freed, Copied(cells, l.data, 0, new.ptr, 0, l.len)),
               [l EXCEPT !.data = new.ptr, !.cap = new_cap], new.ptr # Null)

reserve(h, cells, l, new_cap) ==
    IF new_cap <= l.cap THEN Result(h, cells, l, TRUE) ELSE grow(h, cells, l, new_cap)

\* A value is put behind the last item.
WithItem(r, value) ==
    [r EXCEPT !.cells = Stored(@, r.list.data, r.list.len, value), !.list.len = @ + 1]

\* Mutant: grows when the list is over full, not when it is full.
push_back_Late(h, cells, l, value) ==
    WithItem(IF l.len > l.cap \/ l.data = Null
             THEN grow(h, cells, l, IF l.cap = 0 THEN 4 ELSE l.cap * 2)
             ELSE Result(h, cells, l, TRUE), value)

push_back(h, cells, l, value) ==
    WithItem(IF l.len + 1 > l.cap
             THEN grow(h, cells, l, IF l.cap = 0 THEN 4 ELSE l.cap * 2)
             ELSE Result(h, cells, l, TRUE), value)

\* A list cut to n items.  The cells behind the last item keep what they hold,
\* but count as never written: no item may come from there.
Shortened(h, cells, l, n) ==
    Result(h, [c \in {d \in DOMAIN cells : d[1] = l.data => d[2] < n} |-> cells[c]],
           [l EXCEPT !.len = n], TRUE)

pop_back(h, cells, l) ==
    IF l.len = 0 THEN Result(h, cells, l, TRUE) ELSE Shortened(h, cells, l, l.len - 1)

\* Mutant: the shift starts one cell too late.
remove_at_Late(h, cells, l, index) ==
    IF index >= l.len THEN Result(h, cells, l, TRUE)
    ELSE Shortened(h, Copied(cells, l.data, index + 2, l.data, index + 1, l.len - index - 2), l, l.len - 1)

\* The cells behind index move one down; index counts from 0.
remove_at(h, cells, l, index) ==
    IF index >= l.len THEN Result(h, cells, l, TRUE)
    ELSE Shortened(h, Copied(cells, l.data, index + 1, l.data, index, l.len - index - 1), l, l.len - 1)

\* cap and data stay.
clear(h, cells, l) == Shortened(h, cells, l, 0)

\* The destructor, and release, which leaves the list as constructed.
release(h, cells, l) ==
    Result(FreeData(h, l), Remaining(FreeData(h, l), cells), EmptyList, TRUE)

\* Mutant: the storage stays with the list it is taken from, too.
Moved_Shares(other) == other

\* What the list moved from is left with.
Moved(other) == EmptyList
=============================================================================
