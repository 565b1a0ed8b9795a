------------------------------- MODULE MCShell -------------------------------
(* Small instances of Shell.                                               *)
EXTENDS Shell

CONSTANTS h0, h1   \* model values: two hashes

MCLengthOf == [c \in Contents |-> IF c = Empty THEN 0 ELSE IF c = StatusFlag THEN 1 ELSE 4]

MCDecoded ==
    [c \in Contents |->
        IF c = Empty THEN EmptyTable
        ELSE [EmptyTable EXCEPT ![1] = [name |-> JunkName, inode |-> 0]]]

\* The name "x/y" is what a file of directory d gets when d/x is the current
\* directory: "write y" is "write d/x/y" to the filesystem.
Typable == UserNames \union {"sys"}
MCSlashOf == [pair \in Typable \X Typable |-> pair[1] \o "/" \o pair[2]]
MCSlashNames == {"a/a", "a/sys", "sys/a", "sys/sys"}

Arg(up, names) == [up |-> up, names |-> names]

\* A name, "..", and "a/a/a".  The names are few: a file and a directory may
\* share one.
ShellArgs == {Arg(0, <<"a">>), Arg(1, <<>>), Arg(0, <<"a", "a", "a">>)}

\* rm -r may take the system's own directory too.
ShellRmArgs == {Arg(0, <<"a">>), Arg(0, <<"sys">>)}
=============================================================================
