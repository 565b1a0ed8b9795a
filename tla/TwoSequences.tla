---------------------------- MODULE TwoSequences ----------------------------
(***************************************************************************)
(* What a user may rely on of ArrayList: sequences that are never shared,  *)
(* one under each name.                                                    *)
(***************************************************************************)
EXTENDS Integers, SequencesExt

CONSTANTS
    Names,          \* the variables
    Values,         \* the values put in
    Indexes,        \* the places asked for, counted from 0
    Capacities      \* the capacities asked for, which change no sequence

VARIABLES
    seq,    \* Names -> the sequence
    last    \* the last step's operation and its arguments

vars == <<seq, last>>

Op(name, v, arg) == <<name, v, arg>>

Init == seq = [v \in Names |-> <<>>] /\ last = Op("none", "", 0)

Set(v, s) == seq' = [seq EXCEPT ![v] = s]

PushBack(v, x) == last' = Op("push_back", v, x) /\ Set(v, Append(seq[v], x))
PopBack(v) == last' = Op("pop_back", v, 0) /\ Set(v, IF seq[v] = <<>> THEN <<>> ELSE Front(seq[v]))
RemoveItem(v, i) ==
    /\ last' = Op("remove_at", v, i)
    /\ Set(v, IF i < Len(seq[v]) THEN RemoveAt(seq[v], i + 1) ELSE seq[v])
Empty(v) == last' \in {Op("clear", v, 0), Op("release", v, 0)} /\ Set(v, <<>>)
Reserve(v, n) == last' = Op("reserve", v, n) /\ UNCHANGED seq

\* The sequence moves; whoever had it is left with nothing.
Move(v, w) ==
    /\ last' = Op("move", v, w)
    /\ seq' = IF v = w THEN seq ELSE [seq EXCEPT ![v] = seq[w], ![w] = <<>>]

\* There is no memory for the operation.
Fail == last' = Op("out of memory", "", 0) /\ UNCHANGED seq

Next ==
    \/ \E v \in Names :
        \/ \E x \in Values : PushBack(v, x)
        \/ \E i \in Indexes : RemoveItem(v, i)
        \/ \E n \in Capacities : Reserve(v, n)
        \/ \E w \in Names : Move(v, w)
        \/ PopBack(v) \/ Empty(v)
    \/ Fail

Spec == Init /\ [][Next]_vars
=============================================================================
