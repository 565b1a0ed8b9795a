------------------------------ MODULE MCValues ------------------------------
(* Small instances of Filesystem: the values of its constants.             *)
EXTENDS FsLayout

CONSTANTS na, nb, nab, tx, h0, h1   \* model values: names, a text, two hashes

At(d, n) == [dir |-> d, name |-> n]
Root(n) == At(NoName, n)

MCLengthOf ==
    [c \in Contents |-> IF c = Empty THEN 0 ELSE IF c = StatusFlag THEN 1 ELSE 4]

\* A text that reads as an entry of the name na for inode 3; no other does.
MCDecoded ==
    [c \in Contents |->
        IF c = Empty THEN EmptyTable
        ELSE [EmptyTable EXCEPT ![1] = IF c = tx THEN [name |-> na, inode |-> 3]
                                       ELSE [name |-> JunkName, inode |-> 0]]]

\* Two names in the root and in each other.
TreePaths == {Root(na), Root(nb), At(na, na), At(na, nb), At(nb, na)}

\* A file moved or copied between directories, with faults.
FaultPaths == {Root(na), Root(nb), At(na, nb)}

\* A directory in a directory, removed with faults.
ProgressPaths == {Root(na), At(na, na)}

\* The system's own directory and files, which nothing protects; "mv x a/";
\* and "a/a/b", whose file is kept in a under the name "a/b".
SysPaths == {Root(na), Root("sys"), At(na, NoName), At(na, nab)}
=============================================================================
