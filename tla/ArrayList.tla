----------------------------- MODULE ArrayList ------------------------------
(***************************************************************************)
(* Lists under two or more names, used in any order: pushed to, cut,       *)
(* reserved, released and moved into each other.                           *)
(***************************************************************************)
EXTENDS ListCalls

CONSTANTS
    Names,      \* the variables that are lists
    Values,     \* what is put in
    Indexes,    \* the places remove_at is asked for
    Capacities, \* the capacities reserve is asked for
    MaxItems    \* bound: all the lists together have at most this many items

\* reserve does not look whether the product wraps: that is the caller's part.
ASSUME ListsAssumption ==
    /\ Indexes \subseteq Nat
    /\ \A n \in Capacities : n \in Nat /\ ItemSize * n <= Modulus - Align

VARIABLES
    heap,       \* the kernel heap: its blocks
    held,       \* what the cells in them hold
    lists,      \* Names -> the list
    lost,       \* kmalloc has returned null to grow
    last        \* history: the last operation and its arguments

listVars == <<heap, held, lists, lost, last>>

Op(name, v, arg) == <<name, v, arg>>

ListInit ==
    /\ heap = NoBlocks
    /\ held = NoCells
    /\ lists = [v \in Names |-> EmptyList]
    /\ lost = FALSE
    /\ last = Op("none", "", 0)

\* The end of operation op of v, whose result is r: with no memory for it,
\* the code writes through a null pointer, and the run ends.
Finish(v, op, r) ==
    /\ ~lost
    /\ heap' = r.heap
    /\ held' = IF r.ok THEN r.cells ELSE held
    /\ lost' = ~r.ok
    /\ lists' = IF r.ok THEN [lists EXCEPT ![v] = r.list] ELSE lists
    /\ last' = IF r.ok THEN op ELSE Op("out of memory", "", 0)

PushBack(v, x) ==
    /\ MapThenSumSet(LAMBDA w : lists[w].len, Names) < MaxItems
    /\ Finish(v, Op("push_back", v, x), push_back(heap, held, lists[v], x))

Reserve(v, n) == Finish(v, Op("reserve", v, n), reserve(heap, held, lists[v], n))
PopBack(v) == Finish(v, Op("pop_back", v, 0), pop_back(heap, held, lists[v]))
RemoveItem(v, i) == Finish(v, Op("remove_at", v, i), remove_at(heap, held, lists[v], i))
Clear(v) == Finish(v, Op("clear", v, 0), clear(heap, held, lists[v]))
Release(v) == Finish(v, Op("release", v, 0), release(heap, held, lists[v]))

\* v = move(w): v's storage is freed, and w's becomes v's; into itself, a list
\* is left alone.
Move(v, w) ==
    LET freed == release(heap, held, lists[v])
    IN  /\ ~lost
        /\ last' = Op("move", v, w)
        /\ IF v = w THEN UNCHANGED <<heap, held, lists>>
           ELSE /\ heap' = freed.heap
                /\ held' = freed.cells
                /\ lists' = [lists EXCEPT ![v] = lists[w], ![w] = Moved(lists[w])]
        /\ UNCHANGED lost

ListNext ==
    \E v \in Names :
        \/ \E x \in Values : PushBack(v, x)
        \/ \E i \in Indexes : RemoveItem(v, i)
        \/ \E n \in Capacities : Reserve(v, n)
        \/ \E w \in Names : Move(v, w)
        \/ PopBack(v)
        \/ Clear(v)
        \/ Release(v)

ListSpec == ListInit /\ [][ListNext]_listVars

-----------------------------------------------------------------------------
HasStorage == {v \in Names : lists[v].data # Null}

\* Storage has one owner (the moves and grow): a block in use is the storage
\* of exactly one list, so that no destructor frees what another list reads,
\* and none is left behind.
OwnsExactly ==
    ~lost =>
        /\ UsedBlocks(heap) = {lists[v].data - Header : v \in HasStorage}
        /\ \A v, w \in HasStorage : lists[v].data = lists[w].data => v = w

\* The cells are inside the block (push_back and grow): data[len++] never
\* writes behind what kmalloc gave.
ItemsFit ==
    ~lost => \A v \in Names :
        /\ lists[v].len <= lists[v].cap
        /\ lists[v].cap > 0 => heap[lists[v].data - Header].size >= ItemSize * lists[v].cap

\* push_back, grow and the moves: each list has its own storage, and it is
\* large enough.
StorageIsOwned == OwnsExactly /\ ItemsFit

Sequences == INSTANCE TwoSequences WITH seq <- [v \in Names |-> Items(lists[v], held)]

\* What the cells behind data hold are sequences, none of which ever changes
\* with another (remove_at's loop, grow's copy and the free after it, the moves).
ImplementsSequences == Sequences!Spec
=============================================================================
