------------------------------- MODULE Numbers -------------------------------
(***************************************************************************)
(* Numbers for the screen: int_to_str and reverse (util.cpp), and the      *)
(* sizes the command info prints (print_size_auto in main.cpp), of which   *)
(* the units are the powers of a base.                                     *)
(***************************************************************************)
EXTENDS Integers, Sequences, SequencesExt

CONSTANTS
    MaxInt,     \* the largest int
    Base,       \* 1024, a multiple of 2
    MaxBytes    \* bound: the largest size printed

ASSUME NumbersAssumption ==
    /\ MaxInt \in Nat /\ MaxBytes \in Nat
    /\ Base \in Nat \ {0} /\ Base % 2 = 0
    /\ MaxBytes \div Base <= MaxInt

VARIABLES number, bytes
numberVars == <<number, bytes>>

Minus == -1  \* no digit

\* The digits of the loop, the lowest first.
Digits[n \in 0 .. MaxInt] == IF n = 0 THEN <<>> ELSE <<n % 10>> \o Digits[n \div 10]

Swapped(str, i, j) == [str EXCEPT ![i] = str[j], ![j] = str[i]]

\* Mutant: until start meets the other end.
reverse_Twice(str) ==
    FoldLeft(LAMBDA s, i : Swapped(s, i, Len(s) + 1 - i), str, [i \in DOMAIN str |-> i])

\* The two ends change places, then the next two, while start < end.
reverse(str) ==
    FoldLeft(LAMBDA s, i : Swapped(s, i, Len(s) + 1 - i), str, [i \in 1 .. Len(str) \div 2 |-> i])

\* The sign is put behind the digits before they are reversed.
int_to_str(n) ==
    IF n = 0 THEN <<0>>
    ELSE reverse(IF n < 0 THEN Append(Digits[-n], Minus) ELSE Digits[n])

\* Mutant: cut off, not rounded.
Rounded_Down(size, unit) == size \div unit

Rounded(size, unit) == (size + unit \div 2) \div unit

\* KB, MB and GB.
Unit == <<Base, Base * Base, Base * Base * Base>>

\* The unit, and the number of them.  Less than one of the second unit is
\* rounded up.
print_size_auto(size) ==
    IF size >= Unit[3] THEN [unit |-> 3, val |-> Rounded(size, Unit[3])]
    ELSE IF size >= Unit[2] THEN [unit |-> 2, val |-> Rounded(size, Unit[2])]
    ELSE [unit |-> 1, val |-> (size + Base - 1) \div Base]

NumbersInit == number = -MaxInt /\ bytes = 0

NumbersNext ==
    \/ number < MaxInt /\ number' = number + 1 /\ UNCHANGED bytes
    \/ bytes < MaxBytes /\ bytes' = bytes + 1 /\ UNCHANGED number

NumbersSpec == NumbersInit /\ [][NumbersNext]_numberVars

-----------------------------------------------------------------------------
Value(text) == FoldLeft(LAMBDA v, digit : 10 * v + digit, 0, text)

\* int_to_str, of every int but the smallest, which has no opposite: the text
\* is read as the number, and has neither a zero nor two signs before it.
ReadsBack ==
    LET text == int_to_str(number)
        digits == IF number < 0 THEN Tail(text) ELSE text
    IN  /\ number < 0 <=> Head(text) = Minus
        /\ Value(digits) = IF number < 0 THEN -number ELSE number
        /\ number # 0 => Head(digits) # 0

\* print_size_auto, across its units: what is shown is at most half a unit
\* from the size, or, in the smallest unit, not less than it and less than
\* one unit more.
SizeIsNear ==
    LET shown == print_size_auto(bytes)
        unit == Unit[shown.unit]
        over == shown.val * unit - bytes
    IN  IF shown.unit = 1 THEN over \in 0 .. unit - 1 ELSE 2 * over \in -unit .. unit

\* What the code prints of a number, and of a size, is the number and the size.
NumbersAreShown == ReadsBack /\ SizeIsNear
=============================================================================
