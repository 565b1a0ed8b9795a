------------------------------- MODULE PathText -------------------------------
(***************************************************************************)
(* How the shell turns a line into its words, and a word into a path of    *)
(* the filesystem (resolve_fs_path, the code of touch, and cd in           *)
(* main.cpp), character by character.  Every buffer has a fixed size: what *)
(* does not fit is cut without a word.  Filesystem and Shell work on the   *)
(* components that result.                                                 *)
(***************************************************************************)
EXTENDS Words

CONSTANTS
    Dirs,      \* the directories there are: their paths from the root
    Typed,     \* what the user types behind the first word of a line
    NameMax,   \* characters of a name (29: DirEntry.name has 30 bytes)
    RootMax,   \* characters k_root has for what follows "7:/" (60)
    PathMax    \* characters of a resolved path (63: the buffers have 64)

Sep == "/"
Up == <<".", ".">>

ASSUME PathTextAssumption ==
    /\ NameMax \in Nat \ {0} /\ RootMax \in Nat /\ PathMax \in Nat
    /\ 2 * NameMax + 1 <= RootMax /\ RootMax <= PathMax
    /\ Dirs \union Typed \subseteq Seq(STRING \ {Zero})
    /\ Space \in STRING \ {Zero, Sep, ".", "c"}

VARIABLES
    root,   \* k_root, what follows "7:/"
    typed   \* the line being worked on, behind its first word; <<>> between lines

pathVars == <<root, typed>>

Seps(text) == {i \in DOMAIN text : text[i] = Sep}
HasSep(text) == Seps(text) # {}

\* A copy into a buffer that has room for max characters.
Cut(text, max) == SubSeq(text, 1, IF Len(text) < max THEN Len(text) ELSE max)

-----------------------------------------------------------------------------
(* The code *)

\* Mutant: the separator stays.
Popped_KeepsSep(cwd) == IF HasSep(cwd) THEN SubSeq(cwd, 1, Max(Seps(cwd))) ELSE <<>>

\* last_sep: what precedes the last separator.
Popped(cwd) == IF HasSep(cwd) THEN SubSeq(cwd, 1, Max(Seps(cwd)) - 1) ELSE <<>>

\* inp starts with "../", or is "..".
GoesUp(inp) == inp = Up \/ Cut(inp, 3) = Append(Up, Sep)

\* One round of the loop over the leading "..".
ClimbStep(state) ==
    IF GoesUp(state.inp)
    THEN [cwd |-> Popped(state.cwd), inp |-> SubSeq(state.inp, 4, Len(state.inp))]
    ELSE state

\* The loop: what is left of the current directory, and of the argument.  Each
\* round takes characters off it, so that one for each of them is enough.
Climb(cwd, inp) ==
    FoldLeft(LAMBDA state, c : ClimbStep(state), [cwd |-> cwd, inp |-> inp], inp)

\* The current directory is put before an argument with no separator.
resolve_fs_path(cwd, input) ==
    LET rest == Climb(cwd, input)
        join == IF rest.inp = <<>> THEN <<>> ELSE <<Sep>>
    IN  Cut(IF HasSep(rest.inp) \/ rest.cwd = <<>> THEN rest.inp
            ELSE rest.cwd \o join \o rest.inp, PathMax)

\* Mutant: no separator between the directory and the name.
TouchPath_NoSep(cwd, name) ==
    Cut(IF HasSep(name) \/ cwd = <<>> THEN name ELSE cwd \o name, PathMax)

\* The path of touch, which does not call resolve_fs_path.
TouchPath(cwd, name) ==
    Cut(IF HasSep(name) \/ cwd = <<>> THEN name ELSE cwd \o <<Sep>> \o name, PathMax)

\* fs_is_dir: a directory of the root, or one of a directory of the root,
\* whose name is cut to NameMax before it is looked up.
FirstName(text) == SubSeq(text, 1, Min(Seps(text)) - 1)
fs_is_dir(text) ==
    IF HasSep(text)
    THEN LET rest == SubSeq(text, Min(Seps(text)) + 1, Len(text))
         IN  Cut(FirstName(text), NameMax) \o <<Sep>> \o rest \in Dirs
    ELSE text \in Dirs

\* Mutant: the room for "7:/" is taken off twice.
NewRoot_TooShort(text) == Cut(text, RootMax - 3)

\* cd copies the path behind "7:/".
NewRoot(text) == Cut(text, RootMax)

PathInit == root = <<>> /\ typed = <<>>

\* The line, its first word being a command's name, and its words behind that.
Line == <<"c", Space>> \o typed
Arguments == Tail(split(Line))

Type(text) ==
    /\ typed = <<>>
    /\ typed' = text
    /\ UNCHANGED root

\* parts[1]; without one the command says how it is used, and is done.
cd ==
    /\ typed # <<>>
    /\ typed' = <<>>
    /\ IF Arguments = <<>> THEN UNCHANGED root
       ELSE LET fs_path == resolve_fs_path(root, Head(Arguments))
            IN  root' = IF fs_path = <<>> \/ fs_is_dir(fs_path) THEN NewRoot(fs_path) ELSE root

\* Every other command leaves k_root as it is.
OtherCommand ==
    /\ typed # <<>>
    /\ typed' = <<>>
    /\ UNCHANGED root

PathNext == cd \/ OtherCommand \/ \E text \in Typed : Type(text)

PathSpec == PathInit /\ [][PathNext]_pathVars

-----------------------------------------------------------------------------
(* What it is checked against: the same, said of whole texts *)

\* The number of leading "..", and the directory that many levels up.
Ups(text) ==
    LET ended == Append(text, Sep)
        AllUp(n) == \A i \in 1 .. 3 * n : ended[i] = IF i % 3 = 0 THEN Sep ELSE "."
    IN  Max({n \in 0 .. Len(ended) \div 3 : AllUp(n)})

Above(dir, n) ==
    LET ends == Seps(dir) \union {Len(dir) + 1}
        nth == {i \in ends : Cardinality({j \in ends : j > i}) = n}
    IN  IF nth = {} THEN <<>> ELSE SubSeq(dir, 1, Max(nth) - 1)

Joined(dir, name) == IF dir = <<>> \/ name = <<>> THEN dir \o name ELSE dir \o <<Sep>> \o name

\* resolve_fs_path: each leading ".." takes a name off the current directory,
\* and what is left of the argument follows it -- or stands alone if it has a
\* separator of its own, whatever the current directory is.
ResolvesAsNames ==
    typed # <<>> => \A arg \in Range(Arguments) :
        LET n == Ups(arg)
            rest == SubSeq(arg, 3 * n + 1, Len(arg))
            base == IF HasSep(rest) THEN <<>> ELSE Above(root, n)
        IN  resolve_fs_path(root, arg) = Cut(Joined(base, rest), PathMax)

\* touch against every other command (two pieces of code for one purpose):
\* they agree on the file an argument means, unless it begins with "..",
\* which touch takes for a name like any other.
TouchAgrees ==
    typed # <<>> => \A arg \in Range(Arguments) :
        Ups(arg) = 0 => TouchPath(root, arg) = resolve_fs_path(root, arg)

\* The two together: one text means one path.
PathsAgree == ResolvesAsNames /\ TouchAgrees

\* k_root against the limits of the names and of the buffers, as long as the
\* directories there are stay (rm -r and mv of the current one: Shell's
\* StaysInside): it is never a path cut short.  It names a directory, and so
\* does the one above it, so that "cd .." always leads back.  Not so with a
\* first name longer than a name can be: fs_is_dir cuts it, finds a directory,
\* and k_root keeps it whole, or as much of it as there is room for.
RootNamesADirectory ==
    LET first == Above(root, Cardinality(Seps(root)))
        up == resolve_fs_path(root, Up)
    IN  root # <<>> /\ Len(first) <= NameMax =>
            /\ root \in Dirs
            /\ up = <<>> \/ up \in Dirs

\* strcmp and equals, which compare texts of any two lengths: both are true
\* of equal texts and of no others, prefixes included.
SameText ==
    typed # <<>> => \A other \in Dirs \union {<<>>, root, typed} :
        /\ strcmp(typed, other) <=> typed = other
        /\ equals(typed, other) <=> typed = other

\* Where a word begins, and where the one that begins at i ends.
Begins == {i \in DOMAIN Line : Line[i] # Space /\ AtChar(Line, i - 1) \in {Space, Zero}}
EndFrom(i) == Min({k \in i .. Len(Line) : AtChar(Line, k + 1) \in {Space, Zero}})

\* split, wherever the spaces are: the words of the line in order, and no
\* empty one.
SplitsIntoWords ==
    typed # <<>> =>
        LET parts == split(Line)
            begins == Begins
        IN  /\ Len(parts) = Cardinality(begins)
            /\ \A i \in begins :
                parts[Cardinality({k \in begins : k <= i})] = SubSeq(Line, i, EndFrom(i))

\* split and write together: a line with single spaces between its words is
\* written as it was typed, from the third word on.
WritesTheRest ==
    LET spaces == {i \in DOMAIN Line : Line[i] = Space}
        single == \A i \in spaces : i < Len(Line) /\ i + 1 \notin spaces
        second == Min({i \in spaces : Cardinality({j \in spaces : j < i}) = 1})
    IN  typed # <<>> /\ single /\ Cardinality(spaces) > 1
            => TextOfWrite(split(Line)) = SubSeq(Line, second + 1, Len(Line))

\* What the shell makes of a line, before paths come in.
WordsAreExact == SameText /\ SplitsIntoWords /\ WritesTheRest
=============================================================================
