---------------------------- MODULE FsImplements ----------------------------
(***************************************************************************)
(* Filesystem implements FileTree, with FsTree's TreeSeen as the mapping.  *)
(***************************************************************************)
EXTENDS FsTree

\* A history variable: TreeSeen of each state, which is costly to recompute for
\* every action of FileTree.  It constrains nothing.
VARIABLE tree

TreeInit == Init /\ tree = TreeSeen
TreeNext == Next /\ tree' = TreeSeen'
TreeSpec == TreeInit /\ [][TreeNext]_<<vars, tree>> /\ Fairness

Tree == INSTANCE FileTree WITH
    dirs <- tree.dirs,
    files <- tree.files,
    intact <- tree.intact,
    SystemDirs <- {<<"sys">>},
    SystemFiles <- [p \in {<<"sys", "status">>, <<"sys", "passwd">>} |->
                      IF p[2] = "status" THEN StatusFlag ELSE DefaultHash]

\* Every call that returns, every step of rm -r, every reboot and remount, and
\* every fault that comes before or after a call's own writes, is one change
\* of the tree or none (FileTree!Next).
ImplementsFileTree == Tree!Spec

\* Reading (fs_is_dir and fs_read_path look a path up again, each in its own
\* way): for every path the user can type, "cd" finds exactly the directories
\* of the tree and "read" its files, with the content the tree has.
ReadersAgree == Sound /\ mounted /\ ~Running =>
    \A path \in {p \in Paths : p.name # NoName} :
        LET place == IF InRoot(path) THEN <<path.name>> ELSE <<path.dir, path.name>>
        IN  /\ fs_is_dir(fs, path) <=> place \in tree.dirs
            /\ fs_read_path(fs, path) # {} <=> place \in DOMAIN tree.files
            /\ \A c \in fs_read_path(fs, path) :
                 c.size = LengthOf[tree.files[place]] /\ (c.size # 0 => c.text = tree.files[place])
=============================================================================
