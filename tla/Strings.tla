------------------------------ MODULE Strings -------------------------------
(***************************************************************************)
(* The memory of one command after the other (handleCommands in main.cpp): *)
(* the Strings it makes (string.cpp), the list split fills, and what is    *)
(* left of them on the kernel heap at the next prompt.                     *)
(*                                                                         *)
(* A String is a pointer to its characters and their number; of a line     *)
(* only the lengths of its words are kept.  When kmalloc returns null the  *)
(* code writes through the null pointer, and the run ends.                 *)
(***************************************************************************)
EXTENDS ListCalls

CONSTANTS
    Lines,      \* the lines typed: [cmd |-> a command, words |-> the lengths of its words]
    Secrets     \* the lengths of the passwords typed in the dialog of passwd

VARIABLES
    memory,     \* the kernel heap: its blocks
    cells,      \* what the cells of the list hold
    pc,         \* "prompt", "split", "run" or "lost"
    line,       \* the line being worked on
    command,    \* the String readl returned
    next,       \* how many of its words have been split off
    parts,      \* the list of Strings split returns
    todo,       \* the sizes of the characters still to be allocated by the command
    strings     \* history: the characters of every String made so far

stringVars == <<memory, cells, pc, line, command, next, parts, todo, strings>>

NoString == [data |-> Null, len |-> 0]
NoLine == [cmd |-> "none", words |-> <<>>]

SumOf(s) == FoldSeq(+, 0, s)

\* The characters of words with one space between them.
Joined(words) == IF words = <<>> THEN 0 ELSE SumOf(words) + Len(words) - 1

\* What kmalloc may be asked for without wrapping.
Sizes == 1 .. Modulus - Align

\* readl takes at most 255 characters, so that a line, what write appends of
\* it, a word and a password each have a size.
ASSUME LinesAssumption ==
    /\ \A n \in Secrets : n \in Nat /\ n + 1 \in Sizes
    /\ \A l \in Lines :
        /\ l.words \in Seq(Nat)
        /\ \A n \in Range(l.words) \union {Joined(l.words), Joined(SubSeq(l.words, 3, Len(l.words)))} :
            n \in Nat /\ n + 1 \in Sizes

-----------------------------------------------------------------------------
(* string.cpp *)

\* Mutant: the empty String has no characters of its own.
NewString_NotWhenEmpty(h, n) ==
    IF n = 0 THEN [heap |-> h, ptr |-> 0] ELSE kmalloc(h, n + 1)

\* String(const char* s), s having n characters; String() is n = 0.
NewString(h, n) == kmalloc(h, n + 1)

\* Mutant: the characters are freed.
DestroyString_Frees(h, s) == kfree(h, s.data)

\* ~String() frees nothing.
DestroyString(h, s) == h

\* Mutant: delete[] temp is missing.
DropTemp_Never(h, ptr) == h

\* delete[] temp
DropTemp(h, ptr) == kfree(h, ptr)

\* append's sizes, for a String that grows from nothing to n characters: each
\* time the old characters stay behind.
AppendSizes(n) == [i \in 1 .. n |-> i + 1]

-----------------------------------------------------------------------------
(* handleCommands *)

\* What the command allocates, by the number of its words: write appends its
\* text to an empty String, character by character; touch makes an empty
\* String and one of its argument, rm one of each argument; passwd has read
\* the old password.
SizesOf(l) ==
    LET words == l.words
    IN  CASE l.cmd = "write" /\ Len(words) >= 3 ->
                <<1>> \o AppendSizes(Joined(SubSeq(words, 3, Len(words))))
          [] l.cmd = "touch" -> IF Len(words) > 1 THEN <<1, words[2] + 1>> ELSE <<1>>
          [] l.cmd = "rm" -> [i \in 1 .. Len(words) - 1 |-> words[i + 1] + 1]
          [] OTHER -> <<>>

StringsInit ==
    /\ memory = NoBlocks
    /\ cells = NoCells
    /\ pc = "prompt"
    /\ line = NoLine
    /\ command = NoString
    /\ next = 0
    /\ parts = EmptyList
    /\ todo = <<>>
    /\ strings = {}

\* String command = readl();
ReadLine(l) ==
    LET r == NewString(memory, Joined(l.words))
    IN  /\ pc = "prompt"
        /\ memory' = r.heap
        /\ pc' = IF r.ptr = Null THEN "lost" ELSE "split"
        /\ line' = l
        /\ command' = [data |-> r.ptr, len |-> Joined(l.words)]
        /\ strings' = strings \union {r.ptr}
        /\ UNCHANGED <<cells, next, parts, todo>>

\* One segment of split's loop: copied to temp, made a String of, and pushed;
\* the String in the list shares the characters of the local one, which is
\* destroyed.
SplitWord ==
    /\ pc = "split"
    /\ next < Len(line.words)
    /\ \E n \in {line.words[next + 1]} : \E temp \in {kmalloc(memory, n + 1)} :
       \E chars \in {NewString(temp.heap, n)} :
         IF Null \in {temp.ptr, chars.ptr} THEN
            /\ pc' = "lost"
            /\ UNCHANGED <<memory, cells, parts, strings>>
         ELSE \E part \in {[data |-> chars.ptr, len |-> n]} :
              \E freed \in {DropTemp(chars.heap, temp.ptr)} :
              \E pushed \in {push_back(freed, cells, parts, part)} :
                /\ cells' = pushed.cells
                /\ memory' = DestroyString(pushed.heap, part)
                /\ parts' = pushed.list
                /\ pc' = IF pushed.ok THEN "split" ELSE "lost"
                /\ strings' = strings \union {part.data}
    /\ next' = next + 1
    /\ UNCHANGED <<line, command, todo>>

\* passwd reads the old password first.
RunCommand ==
    /\ pc = "split"
    /\ next = Len(line.words)
    /\ pc' = "run"
    /\ \E n \in Secrets : todo' = IF line.cmd = "passwd" THEN <<n + 1>> ELSE SizesOf(line)
    /\ UNCHANGED <<memory, cells, line, command, next, parts, strings>>

\* The next String of the command, or its next characters.
Allocate ==
    LET r == kmalloc(memory, Head(todo))
    IN  /\ pc = "run"
        /\ todo # <<>>
        /\ memory' = r.heap
        /\ pc' = IF r.ptr = Null THEN "lost" ELSE "run"
        /\ todo' = Tail(todo)
        /\ strings' = strings \union {r.ptr}
        /\ UNCHANGED <<cells, line, command, next, parts>>

\* One more round of passwd's dialog: the new password, and its confirmation.
AskAgain ==
    /\ pc = "run"
    /\ line.cmd = "passwd"
    /\ todo = <<>>
    /\ \E m, n \in Secrets : todo' = <<m + 1, n + 1>>
    /\ UNCHANGED <<memory, cells, pc, line, command, next, parts, strings>>

\* The destructors of the loop's body: command's, which frees nothing, and
\* the list's, which frees its cells and destroys none of the Strings in them.
EndCommand ==
    LET freed == release(memory, cells, parts)
    IN  /\ pc = "run"
        /\ todo = <<>>
        /\ memory' = DestroyString(freed.heap, command)
        /\ cells' = freed.cells
        /\ parts' = freed.list
        /\ pc' = "prompt"
        /\ line' = NoLine
        /\ command' = NoString
        /\ next' = 0
        /\ UNCHANGED <<todo, strings>>

StringsNext ==
    \/ \E l \in Lines : ReadLine(l)
    \/ SplitWord
    \/ RunCommand
    \/ Allocate
    \/ AskAgain
    \/ EndCommand

\* The kernel runs on by itself; the lines come from the user, who may stop.
Fairness ==
    /\ WF_stringVars(SplitWord)
    /\ WF_stringVars(RunCommand)
    /\ WF_stringVars(Allocate)
    /\ WF_stringVars(EndCommand)

StringsSpec == StringsInit /\ [][StringsNext]_stringVars /\ Fairness

-----------------------------------------------------------------------------
Owned(ptr) == ptr - Header \in UsedBlocks(memory)

\* All memory is accounted for (split's temp, grow, the list's destructor):
\* beside the Strings' characters, only the cells of the list are in use, and
\* between two commands nothing but those characters.
OnlyStringsStay ==
    pc # "lost" =>
        UsedBlocks(memory) = {p - Header : p \in strings \union ({parts.data} \ {Null})}

\* The elements of the list are Strings (push_back copies the pointer,
\* ~String): each has characters nobody has freed or given to anybody else,
\* and room for all of them and the final zero.
ElementsAlive ==
    LET items == Items(parts, cells)
    IN  pc # "lost" =>
            /\ \A i \in DOMAIN items :
                /\ Owned(items[i].data)
                /\ memory[items[i].data - Header].size >= items[i].len + 1
                /\ items[i].data # parts.data
            /\ \A i, j \in DOMAIN items : items[i].data = items[j].data => i = j

\* The heap under handleCommands: nothing stays but Strings, and nothing that
\* is still read is gone.
MemoryAccounted == OnlyStringsStay /\ ElementsAlive

\* No String is ever freed (~String): a user who goes on typing, be it empty
\* lines, uses the whole heap up.
RunsOut == []<>(pc = "split") => <>(pc = "lost")
=============================================================================
