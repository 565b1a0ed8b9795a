------------------------------- MODULE FsTree -------------------------------
(***************************************************************************)
(* The tree of directories and files that Filesystem shows its user.       *)
(***************************************************************************)
EXTENDS FsProperties

Children(x, type) ==
    LET t == TableOf(x.inode)
    IN  {[path |-> Append(x.path, t[s].name), inode |-> t[s].inode] :
            s \in {r \in UsedSlots(t) : Inode[t[r].inode].type = type}}

\* The directories at most n levels below the root.
Within[n \in Nat] ==
    IF n = 0 THEN {[path |-> <<>>, inode |-> 0]}
    ELSE {[path |-> <<>>, inode |-> 0]} \union UNION {Children(x, "dir") : x \in Within[n - 1]}

\* No path without a cycle is longer than there are directories.
TreeDirs == Within[Cardinality(Dirs)]
TreeFiles == UNION {Children(x, "file") : x \in TreeDirs}

\* The entries of those directories, each a directory and a slot of it.
TreeLinks == {x \in Links : x[1] \in {y.inode : y \in TreeDirs}}

\* What a file reads as, straight from inode and block.
Content(i) == ContentOf([fs EXCEPT !.inodes = Inode], i)

\* A size without the text it belongs to reads as neither text.
Reading(i) ==
    LET c == Content(i)
    IN  IF c.size = 0 THEN Empty
        ELSE IF c.size = LengthOf[c.text] THEN c.text ELSE JunkName

FilesSeen ==
    LET seen == {[path |-> x.path, text |-> Reading(x.inode)] : x \in TreeFiles}
    IN  [p \in {r.path : r \in seen} |-> (CHOOSE r \in seen : r.path = p).text]

\* The tree as FileTree has it; nothing is promised of a disk that is not Sound.
NoTree == [dirs |-> {<<>>}, files |-> <<>>, intact |-> FALSE]
TreeSeen ==
    IF Sound THEN [dirs |-> {x.path : x \in TreeDirs}, files |-> FilesSeen, intact |-> TRUE]
    ELSE NoTree

-----------------------------------------------------------------------------
(* Properties of the tree *)

\* Linking (fs_rename's two writes, the remove functions, fs_mkdir_path): every
\* entry that can be reached from the root refers to a file or directory in
\* use, never the root, and no two refer to the same one.  A dangling entry
\* would come to life as whatever is made next; an alias would be freed twice.
LinksSound == Sound /\ ~Running =>
    /\ \A x \in TreeLinks : Target(x) \in Used \ {0}
    /\ \A x, y \in TreeLinks : x # y => Target(x) # Target(y)

\* Lookup (find_dir_entry by type): a directory never holds two files or two
\* directories of one name, of which the second could not be reached.
NamesUnique == Sound /\ ~Running =>
    \A d \in {x.inode : x \in TreeDirs} : \A s, r \in UsedSlots(TableOf(d)) :
        s # r /\ TableOf(d)[s].name = TableOf(d)[r].name
            => Inode[TableOf(d)[s].inode].type # Inode[TableOf(d)[r].inode].type

\* Tables, entries and names together: what is made can be found, what is found
\* is its own thing, and its block is its own too.
TablesSound == BlocksAccounted /\ LinksSound /\ NamesUnique

\* Storage that is in use and that no path leads to.
Lost == Used \ {x.inode : x \in TreeDirs \union TreeFiles}

\* Leaks: without a fault, inodes and blocks become unreachable in two ways
\* only.  write_sys_file claims them and then finds its directory full, or
\* fs_rename moves a directory of the root into itself under another name.
\* No other call -- cp or mkdir on a full directory, rm -r of any tree --
\* loses anything.
LostInTwoWays ==
    [][ Sound /\ Sound' /\ ~(Lost' \subseteq Lost)
        => \/ \E hash \in Hashes : WritePasswd(hash)
           \/ \E p, q \in Paths : InRoot(p) /\ q.dir = p.name /\ Rename(p, q) ]_vars

Files == {x.inode : x \in TreeFiles}
ChangedFiles == {i \in Files : ~(Inode'[i].type = "file" /\ Content(i)' = Content(i))}

\* Damage is contained: a step from a sound filesystem -- a call, or the disk
\* error or power failure that cuts it short -- changes the content of one file
\* at most, or takes its inode, in the table the calls then work on.  Except a
\* format, and an fs_init that fails after one: its read of the superblock has
\* already wiped the first inodes in RAM.  (Not every file keeps its place: a
\* move of a directory that is cut short takes what is in it out of the tree.)
OneFileAtRisk ==
    [][ Sound /\ ~Format /\ (phase = "reinit" => ret') => Cardinality(ChangedFiles) <= 1 ]_vars

-----------------------------------------------------------------------------
(* What the shell tells the user, and the code does not keep *)

\* "Creazione directory fallita. Esiste gia' un file o una directory con lo
\* stesso nome." (main.cpp:374; touch says the same of files at main.cpp:332):
\* a name is taken by whatever has it.  fs_mkdir looks for a directory of the
\* name only, fs_write for a file only.
NamesTaken == Sound /\ ~Running =>
    \A d \in {x.inode : x \in TreeDirs} : \A s, r \in UsedSlots(TableOf(d)) :
        s # r => TableOf(d)[s].name # TableOf(d)[r].name

\* "Password aggiornata." (main.cpp:356), printed when fs_write_passwd has
\* returned true: from then on fs_read_passwd gives the new hash.
PasswdUpdated ==
    [][ \A hash \in Hashes :
          WritePasswd(hash) /\ ret' /\ fs' # fs => fs_read_passwd(fs, mounted)' = {hash} ]_vars
=============================================================================
