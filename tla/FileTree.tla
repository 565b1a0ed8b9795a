------------------------------ MODULE FileTree ------------------------------
(***************************************************************************)
(* What the filesystem promises its user: a tree of directories, files     *)
(* with contents, and commands that each change one thing in it.  No       *)
(* blocks, inodes, bitmap or disk.  Filesystem implements it: see FsTree.  *)
(*                                                                         *)
(* The promise ends with intact, when a fault has cut a command short      *)
(* half-way, and is made again by a format.                                *)
(***************************************************************************)
EXTENDS Naturals, Sequences, SequencesExt

CONSTANTS
    Names,        \* the names of files and directories
    Contents,     \* what a file may hold
    SystemDirs,   \* the directories and files a format makes
    SystemFiles

VARIABLES
    dirs,    \* the directories, each the sequence of names from the root
    files,   \* the contents of the files: a function of such sequences
    intact   \* the disk holds a tree at all

treeVars == <<dirs, files, intact>>

Existing == dirs \union DOMAIN files
Parent(p) == SubSeq(p, 1, Len(p) - 1)
Without(p) == [q \in DOMAIN files \ {p} |-> files[q]]
With(f, p, c) == [q \in DOMAIN f \union {p} |-> IF q = p THEN c ELSE f[q]]

Init == dirs = {<<>>} /\ files = <<>> /\ intact = FALSE

MakeDir(p) ==
    /\ p \notin dirs /\ Parent(p) \in dirs
    /\ dirs' = dirs \union {p}
    /\ UNCHANGED <<files, intact>>

\* write, touch, cp and passwd: the file is made or gets another content.
Put(p, c) ==
    /\ UNCHANGED <<dirs, intact>>
    /\ Parent(p) \in dirs
    /\ files' = With(files, p, c)

\* passwd makes its directory again when the user has removed it.
PutWithDir(p, c) ==
    /\ Parent(p) \notin dirs /\ Parent(Parent(p)) \in dirs
    /\ dirs' = dirs \union {Parent(p)}
    /\ files' = With(files, p, c)
    /\ UNCHANGED intact

Delete(p) ==
    /\ p \in DOMAIN files
    /\ files' = Without(p)
    /\ UNCHANGED <<dirs, intact>>

\* rm -r works from the leaves up: the directory it removes is empty by then.
DeleteDir(p) ==
    /\ p \in dirs \ {<<>>}
    /\ \A q \in Existing : ~IsStrictPrefix(p, q)
    /\ dirs' = dirs \ {p}
    /\ UNCHANGED <<files, intact>>

MoveFile(p, q) ==
    /\ UNCHANGED <<dirs, intact>>
    /\ p \in DOMAIN files /\ q \notin DOMAIN files /\ Parent(q) \in dirs
    /\ files' = With(Without(p), q, files[p])

\* Everything below p moves along; a file of the same name stays.
Moved(p, q, r) == q \o SubSeq(r, Len(p) + 1, Len(r))
Under(p) == {r \in DOMAIN files : IsStrictPrefix(p, r)}
MoveDir(p, q) ==
    /\ p \in dirs \ {<<>>} /\ q \notin dirs /\ Parent(q) \in dirs
    /\ ~IsPrefix(p, q)
    /\ dirs' = {IF IsPrefix(p, r) THEN Moved(p, q, r) ELSE r : r \in dirs}
    /\ files' = [r \in (DOMAIN files \ Under(p)) \union {Moved(p, q, u) : u \in Under(p)} |->
                    files[IF r \in DOMAIN files \ Under(p) THEN r ELSE Moved(q, p, r)]]
    /\ UNCHANGED intact

\* "mv d d/x" is not refused: d and all it holds is in no directory after it.
Detach(p) ==
    /\ p \in dirs \ {<<>>}
    /\ dirs' = {r \in dirs : ~IsPrefix(p, r)}
    /\ files' = [r \in DOMAIN files \ Under(p) |-> files[r]]
    /\ UNCHANGED intact

Format ==
    /\ dirs' = {<<>>} \union SystemDirs
    /\ files' = SystemFiles
    /\ intact' = TRUE

Damage == dirs' = {<<>>} /\ files' = <<>> /\ intact' = FALSE

\* The places in existing directories, taken or not.
Places == {Append(d, n) : d \in dirs, n \in Names}

Next ==
    \/ /\ intact
       /\ \/ \E p \in Places :
               \/ MakeDir(p)
               \/ \E c \in Contents : Put(p, c)
          \/ \E p \in DOMAIN SystemFiles, c \in Contents : PutWithDir(p, c)
          \/ \E p \in DOMAIN files :
               \/ Delete(p)
               \/ \E q \in Places : MoveFile(p, q)
          \/ \E p \in dirs :
               \/ DeleteDir(p)
               \/ Detach(p)
               \/ \E q \in Places : MoveDir(p, q)
    \/ Format
    \/ Damage

Spec == Init /\ [][Next]_treeVars
=============================================================================
