-------------------------------- MODULE Words --------------------------------
(***************************************************************************)
(* How the shell takes a line apart: split and equals of String            *)
(* (string.cpp), strcmp (util.cpp), and the text that the command write    *)
(* puts together from the words again (main.cpp).  They walk over the      *)
(* characters; what they come to is said of whole texts in PathText.       *)
(***************************************************************************)
EXTENDS Naturals, Sequences, FiniteSets, SequencesExt

CONSTANT Space      \* the delimiter

Zero == "zero"      \* the end of a C string
AtChar(s, i) == IF i \in DOMAIN s THEN s[i] ELSE Zero

\* Mutant: enough that one of them has ended.
strcmp_Prefix(s1, s2) ==
    \A i \in 1 .. Min({Len(s1), Len(s2)}) : s1[i] = s2[i]

\* The loop ends where a text ends, or at the first difference.
strcmp(s1, s2) ==
    LET stop == Min({i \in 1 .. Len(s1) + 1 :
                       Zero \in {AtChar(s1, i), AtChar(s2, i)} \/ AtChar(s1, i) # AtChar(s2, i)})
    IN  AtChar(s1, stop) = AtChar(s2, stop)

\* String against String: the lengths first.
equals(s1, s2) == Len(s1) = Len(s2) /\ \A i \in DOMAIN s1 : s1[i] = s2[i]

\* Mutant: the delimiter stays with the next part.
SplitStep_KeepsSpace(s, state, i) ==
    IF AtChar(s, i) \in {Space, Zero}
    THEN [start |-> i, parts |-> IF i > state.start THEN Append(state.parts, SubSeq(s, state.start, i - 1))
                                                   ELSE state.parts]
    ELSE state

\* One round of split's loop: at a delimiter, and behind the last character,
\* what has come since the last one is a part, unless it is empty.
SplitStep(s, state, i) ==
    IF AtChar(s, i) \in {Space, Zero}
    THEN [start |-> i + 1, parts |-> IF i > state.start THEN Append(state.parts, SubSeq(s, state.start, i - 1))
                                                       ELSE state.parts]
    ELSE state

split(s) ==
    FoldLeft(LAMBDA state, i : SplitStep(s, state, i), [start |-> 1, parts |-> <<>>],
             [i \in 1 .. Len(s) + 1 |-> i]).parts

\* Mutant: a space before the first word too.
TextOfWrite_LeadingSpace(parts) ==
    FoldLeft(LAMBDA text, word : text \o <<Space>> \o word, <<>>, SubSeq(parts, 3, Len(parts)))

\* The text of write: its words from the third on, one space between them.
TextOfWrite(parts) ==
    FoldLeft(LAMBDA text, i : text \o (IF i > 3 THEN <<Space>> ELSE <<>>) \o parts[i],
             <<>>, [i \in 1 .. Len(parts) - 2 |-> i + 2])
=============================================================================
