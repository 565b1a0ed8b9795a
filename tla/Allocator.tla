----------------------------- MODULE Allocator ------------------------------
(***************************************************************************)
(* What a caller may rely on of kmalloc and kfree.                         *)
(***************************************************************************)
EXTENDS Integers

CONSTANTS
    Size,           \* bytes there are to hand out
    Overhead,       \* bytes kept beside each piece
    Requests,       \* the sizes asked for
    TooLarge(_)     \* sizes that are taken for less than they are

VARIABLES
    live,   \* the pieces handed out, each from its first byte to the one behind it
    last    \* the last step's request: the size, and the address it got or -1

vars == <<live, last>>

Answer(n, address) == [asked |-> n, got |-> address]
Piece(from, to) == [from |-> from, to |-> to]
Apart(x, y) == x.to <= y.from \/ y.to <= x.from
Vacant(from, to) == \A x \in live : Apart(x, Piece(from, to))

Init == live = {} /\ last = Answer(0, -1)

\* A piece nobody has, large enough for its overhead and for what was asked.
Grant(n) ==
    \E from \in 0 .. Size : \E to \in from .. Size :
        /\ last' = Answer(n, from + Overhead)
        /\ live' = live \union {Piece(from, to)}
        /\ n > 0
        /\ TooLarge(n) \/ to - from >= Overhead + n
        /\ Vacant(from, to)

\* A request is refused only when there is no room for it anywhere.
Deny(n) ==
    LET needed == Overhead + n
    IN  /\ last' = Answer(n, -1)
        /\ UNCHANGED live
        /\ n = 0 \/ \A from \in 0 .. Size - needed : ~Vacant(from, from + needed)

Release == \E p \in live : live' = live \ {p} /\ last' = Answer(0, -1)

Next == (\E n \in Requests : Grant(n) \/ Deny(n)) \/ Release

Spec == Init /\ [][Next]_vars
=============================================================================
