---------------------------- MODULE FsProperties ----------------------------
(***************************************************************************)
(* What Filesystem is checked against.                                     *)
(***************************************************************************)
EXTENDS Filesystem

\* RAM is what the calls work on once it has been read or made; before that
\* only the disk counts.
Live == phase \in {"reinit", "ready"}
Inode == IF Live THEN fs.inodes ELSE fs.dinodes
Bitmap == IF Live THEN fs.bitmap ELSE fs.dbitmap

\* A formatted disk that no fault has left half-changed.
Sound == ~dirty /\ (Live \/ fs.dsb)

Used == {i \in Inodes : Inode[i].type # "none"}
Dirs == {i \in Inodes : Inode[i].type = "dir"}
TableOf(d) == fs.blocks[Inode[d].block].table

\* The used entries, each a directory and a slot of it.
Links == {link \in Dirs \X Slots : TableOf(link[1])[link[2]].name # NoName}
Target(link) == TableOf(link[1])[link[2]].inode

-----------------------------------------------------------------------------
(* Invariants of a sound filesystem *)

\* Allocation (alloc_block_raw, mark_block_used and _free, write_sys_file's
\* early returns): a data block is marked exactly when one inode has it, and
\* never two have it -- so no file is written over another, at any step of
\* rm -r too, and "info" counts what is really in use.
BlocksAccounted == Sound =>
    /\ \A i \in Used : Inode[i].block \in Bitmap \ {0}
    /\ \A i, j \in Used : i # j => Inode[i].block # Inode[j].block
    /\ \A b \in Bitmap : \E i \in Used : Inode[i].block = b

\* Recursion (remove_dir_contents has no check of its own against a cycle):
\* rm -r never opens a directory that it has open already.
NeverReentered == Sound =>
    \A k, n \in DOMAIN stack : k # n => stack[k].dir # stack[n].dir

-----------------------------------------------------------------------------
(* Properties that survive every fault *)

\* The root (alloc_block_raw never returns what is marked, remove functions
\* refuse inode 0, fs_format sets the root up before its first disk access, and
\* what its write of the superblock puts behind it is what fs_init's read of it
\* puts back): whatever errors and power failures have happened, as long as
\* g_sb holds the layout, mounted or not, the calls find a root directory with a
\* block that is its own.  When g_sb is all zeroes they do not: an fs_init that
\* found no superblock has wiped the root in RAM.
RootSurvives == Live /\ fs.sb =>
    /\ fs.inodes[0].type = "dir"
    /\ fs.inodes[0].block \in fs.bitmap \ {0}
    /\ \A i \in Inodes \ {0} : fs.inodes[i].block # fs.inodes[0].block

\* fs_format against fs_init and the readers: what a format that returned true
\* over any damage has made outlives the power.  A machine that starts from
\* the disk as it now is finds a filesystem, the status flag, the default
\* password, and nothing else.
FormatRepairs == phase = "reinit" /\ ret =>
    LET again == fs_init(PoweredOff(fs))
    IN  /\ again.ok
        /\ fs_read_path(again.final, StatusPath) = {[text |-> StatusFlag, size |-> 1]}
        /\ fs_read_passwd(again.final, TRUE) = {DefaultHash}
        /\ Cardinality(Links) = 3

\* The returns of flush_bitmap() && flush_inodes(): when a call on a mounted
\* filesystem that changed the inode table or the bitmap returns true, RAM
\* and disk agree again, even if earlier calls had failed half-way.
SuccessIsFlushed ==
    [][ (mounted' /\ ret' /\ (fs'.inodes # fs.inodes \/ fs'.bitmap # fs.bitmap
                    \/ fs'.dinodes # fs.dinodes \/ fs'.dbitmap # fs.dbitmap))
        => Synced(fs)' ]_vars

\* The boot area: as long as the filesystem is mounted no write of it lands
\* outside the filesystem's sectors.
MountedKeepsBoot == [][mounted => fs'.boot = fs.boot]_vars

-----------------------------------------------------------------------------
(* Progress *)

\* remove_dir_contents recurses until the tree is gone: rm -r of a sound
\* filesystem ends.  It does not once a remove has failed half-way: the
\* block it has unmarked is given to the next directory made in the one it
\* was to remove, which then contains itself.
RemoveEnds == (Running /\ Sound) ~> ~Running

\* init() reaches the shell, whatever it meets on the disk, unless an earlier
\* write has destroyed the boot area.
BootCompletes == (phase # "ready" /\ fs.boot) ~> (phase = "ready")
=============================================================================
