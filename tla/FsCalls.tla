------------------------------ MODULE FsCalls -------------------------------
(***************************************************************************)
(* The fs_* calls of filesystem.cpp, each as a function from the state it  *)
(* is called in to its outcome:                                            *)
(*   ok     what it returns when the disk does its work;                   *)
(*   final  the state it then leaves;                                      *)
(*   cuts   every state in which one of its disk accesses, or a sector of  *)
(*          one, is made or has just been made.                            *)
(* A disk error makes the call return false at once, and nothing is undone *)
(* (there is no rollback anywhere in the file), so what an error can leave *)
(* is one of the cuts, and what a power failure can leave is the disk of   *)
(* one of them.                                                            *)
(***************************************************************************)
EXTENDS FsLayout

Outcome(ok, final, cuts) == [ok |-> ok, final |-> final, cuts |-> cuts]
Refuse(st) == Outcome(FALSE, st, {st})

\* Mutant: the inode table is not flushed.
FlushAndReturn_BitmapOnly(st, cuts) ==
    Outcome(TRUE, flush_bitmap(st), cuts \union {st} \union FlushCuts(st))

\* return flush_bitmap() && flush_inodes();
FlushAndReturn(st, cuts) == Outcome(TRUE, Flush(st), cuts \union {st} \union FlushCuts(st))

\* A path is cut at its first '/': dir is what precedes it (NoName when there
\* is none), name what follows (NoName after a trailing '/').  The empty path
\* is left out: the first line of every call refuses it.
PathRecords ==
    [dir : Names \union {NoName}, name : Names \union {NoName}]
        \ {[dir |-> NoName, name |-> NoName]}
InRoot(path) == path.dir = NoName

\* The inode of the directory a path component names, among the root's
\* directories only; 0 is the root itself.
NoDir == NumInodes
SubDir(st, name) ==
    LET t == load_dir_block(st, 0)
        s == find_dir_entry(t, st.inodes, name, "dir")
    IN  IF s = 0 THEN NoDir ELSE t[s].inode

\* Mutant: a directory that is not there is taken for the root.
DirOf_OrRoot(st, path) ==
    IF InRoot(path) \/ SubDir(st, path.dir) = NoDir THEN 0 ELSE SubDir(st, path.dir)

DirOf(st, path) == IF InRoot(path) THEN 0 ELSE SubDir(st, path.dir)

Usable(st, d) == d \in Inodes /\ st.inodes[d].block # 0

\* The entry's slot is cleared and used, inode and name are set.
WithEntry(t, name, i) == [t EXCEPT ![free_slot(t)] = [name |-> name, inode |-> i]]

\* Mutant: the entry stays.
Unlinked_Stays(t, s) == t

\* The entry's 32 bytes are cleared.
Unlinked(t, s) == [t EXCEPT ![s] = NoEntry]

-----------------------------------------------------------------------------
(* Reading calls *)

fs_is_dir(st, path) ==
    /\ path.name # NoName
    /\ Usable(st, DirOf(st, path))
    /\ find_dir_entry(load_dir_block(st, DirOf(st, path)), st.inodes, path.name, "dir") # 0

\* The names fs_list_root and fs_list_dir give, or nothing when they fail.
\* fs_list_dir looks the whole of what it is given up in the root.
NamesIn(t) == {t[s].name : s \in Slots} \ {NoName}
fs_list_root(st) == {NamesIn(load_dir_block(st, 0))}
fs_list_dir(st, name) ==
    IF Usable(st, SubDir(st, name)) THEN {NamesIn(load_dir_block(st, SubDir(st, name)))} ELSE {}

\* Mutant: the last block is not counted.
fs_get_usage_StopsShort(st) ==
    LET used == Cardinality(st.bitmap \ {0, BlockCount - 1})
    IN  [used |-> used, free |-> BlockCount - used]

\* In blocks.  Block 0, which is never handed out, counts as free.
fs_get_usage(st) ==
    LET used == Cardinality(st.bitmap \ {0})
    IN  [used |-> used, free |-> BlockCount - used]

\* The inode of the file a path names, or 0.
FileAt(st, path) ==
    LET d == DirOf(st, path)
        t == load_dir_block(st, d)
        s == find_dir_entry(t, st.inodes, path.name, "file")
    IN  IF path.name # NoName /\ Usable(st, d) /\ s # 0 THEN t[s].inode ELSE 0

\* What fs_read_path copies out: the first size bytes of the file's block.
ContentOf(st, i) == [text |-> st.blocks[st.inodes[i].block].text, size |-> st.inodes[i].size]
fs_read_path(st, path) ==
    IF FileAt(st, path) = 0 THEN {} ELSE {ContentOf(st, FileAt(st, path))}

PasswdPath == [dir |-> "sys", name |-> "passwd"]
StatusPath == [dir |-> "sys", name |-> "status"]

\* fs_read_passwd: the stored hash, or nothing when it fails.
fs_read_passwd(st, mounted) ==
    {c.text : c \in {r \in fs_read_path(st, PasswdPath) : mounted /\ r.size >= 4}}

-----------------------------------------------------------------------------
(* Making directories and files.  Most of these calls begin with           *)
(* ensure_root_dir_block, which does nothing on a mounted filesystem: that *)
(* the root then has a block is FsProperties' RootSurvives.                *)

\* fs_mkdir for the root, the second half of fs_mkdir_path for the rest.
MakeDirIn(st, d, name) ==
    LET t == load_dir_block(st, d)
        i == alloc_inode_raw(st)
        b == alloc_block_raw(st)
        s1 == Claim(st, i, b, "dir", 0)
        s2 == disk_write_lba(s1, b, ZeroBlock)
        s3 == write_dir_block(s2, d, WithEntry(t, name, i))
    IN  IF /\ i # 0 /\ b # 0
           /\ find_dir_entry(t, st.inodes, name, "dir") = 0
           /\ free_slot(t) # 0
        THEN FlushAndReturn(s3, {st, s1, s2})
        ELSE Refuse(st)

fs_mkdir_path(st, path) ==
    LET d == DirOf(st, path)
    IN  IF path.name \notin SlashNames \union {NoName} /\ Usable(st, d)
        THEN MakeDirIn(st, d, path.name)
        ELSE Refuse(st)

\* The data block is not written: size 0 hides what it holds.
fs_create(st, name) ==
    LET t == load_dir_block(st, 0)
        i == alloc_inode_raw(st)
        b == alloc_block_raw(st)
        s1 == Claim(st, i, b, "file", 0)
        s2 == write_dir_block(s1, 0, WithEntry(t, name, i))
    IN  IF /\ name # NoName
           /\ i # 0 /\ b # 0
           /\ find_dir_entry(t, st.inodes, name, "file") = 0
           /\ free_slot(t) # 0
        THEN FlushAndReturn(s2, {st, s1})
        ELSE Refuse(st)

\* The second half of fs_write, fs_write_path and fs_copy_path: file name of
\* directory d gets block blk as its data, and is made when it is not there.
StoreFile(st, d, name, blk, size) ==
    LET t == load_dir_block(st, d)
        f == find_dir_entry(t, st.inodes, name, "file")
        new == f = 0
        b == alloc_block_raw(st)
        i == IF new THEN alloc_inode_raw(st) ELSE t[f].inode
        s1 == IF new THEN Claim(st, i, b, "file", size)
                     ELSE [st EXCEPT !.inodes[i].size = size]
        s2 == write_dir_block(s1, d, IF new THEN WithEntry(t, name, i) ELSE t)
        s3 == disk_write_lba(s2, s1.inodes[i].block, blk)
    IN  IF new => free_slot(t) # 0 /\ i # 0 /\ b # 0
        THEN FlushAndReturn(s3, {st, s1, s2})
        ELSE Refuse(st)

fs_write_path(st, path, text) ==
    LET d == DirOf(st, path)
    IN  IF path.name # NoName /\ Usable(st, d)
        THEN StoreFile(st, d, path.name, TextBlock(text), LengthOf[text])
        ELSE Refuse(st)

\* Where cp and mv put things: into the directory the destination names, if
\* it names one, under the source's name; else under the destination's name.
Into(st, src, dst) ==
    LET named == SubDir(st, dst.name)
    IN  IF InRoot(dst) /\ named # NoDir
        THEN [dir |-> named, name |-> src.name]
        ELSE [dir |-> DirOf(st, dst), name |-> dst.name]

fs_copy_path(st, src, dst) ==
    LET i == FileAt(st, src)
        to == Into(st, src, dst)
    IN  IF i # 0 /\ to.name # NoName /\ Usable(st, to.dir)
        THEN StoreFile(st, to.dir, to.name, st.blocks[st.inodes[i].block], st.inodes[i].size)
        ELSE Refuse(st)

-----------------------------------------------------------------------------
(* Moving and removing *)

\* The entry fs_rename moves: the file of that name, else the directory.
MovedSlot(t, inodes, name) ==
    LET f == find_dir_entry(t, inodes, name, "file")
    IN  IF f # 0 THEN f ELSE find_dir_entry(t, inodes, name, "dir")

\* Two successes change nothing: a directory moved into itself by "mv d d"
\* or "mv d d/", and a move to the place the entry already has.
fs_rename(st, src, dst) ==
    LET sd == DirOf(st, src)
        ts == load_dir_block(st, sd)
        s == MovedSlot(ts, st.inodes, src.name)
        i == ts[s].inode
        type == st.inodes[i].type
        to == IF dst.name = NoName THEN [dir |-> DirOf(st, dst), name |-> src.name]
                                   ELSE Into(st, src, dst)
        intoDir == dst.name = NoName \/ (InRoot(dst) /\ SubDir(st, dst.name) # NoDir)
        td == load_dir_block(st, to.dir)
        renamed == write_dir_block(st, sd, [ts EXCEPT ![s].name = to.name])
        s1 == write_dir_block(st, sd, Unlinked(ts, s))
        s2 == write_dir_block(s1, to.dir, WithEntry(td, to.name, i))
        nothing == \/ intoDir /\ type = "dir" /\ to.dir = i
                   \/ to.dir = sd /\ to.name = src.name
    IN  IF src.name = NoName \/ ~Usable(st, sd) \/ s = 0 \/ ~Usable(st, to.dir)
        THEN Refuse(st)
        ELSE IF nothing THEN Outcome(TRUE, st, {st})
        ELSE IF find_dir_entry(td, st.inodes, to.name, type) # 0 THEN Refuse(st)
        ELSE IF to.dir = sd THEN Outcome(TRUE, renamed, {st, renamed})
        ELSE IF free_slot(td) = 0 THEN Refuse(st)
        ELSE Outcome(TRUE, s2, {st, s1, s2})

\* Mutant: the entry goes, what it referred to stays.
Released_Nothing(st, i) == [cuts |-> {st}, final |-> st]

\* Freeing what an entry refers to: the bit first, the block's bytes next,
\* the inode last, as every remove function of the file does.
Released(st, i) ==
    LET b == st.inodes[i].block
        s1 == mark_block_free(st, b)
        s2 == disk_write_lba(s1, b, ZeroBlock)
        s3 == IF b = 0 THEN st ELSE s2
    IN  [cuts |-> IF b = 0 THEN {st} ELSE {st, s1, s2},
         final |-> [s3 EXCEPT !.inodes[i] = NoInode]]

remove_entry_from_dir(st, d, name) ==
    LET t == load_dir_block(st, d)
        s == find_dir_entry(t, st.inodes, name, "file")
        i == t[s].inode
        freed == Released(st, i)
        s1 == write_dir_block(freed.final, d, Unlinked(t, s))
    IN  IF s # 0 /\ i # 0
        THEN FlushAndReturn(s1, freed.cuts \union {freed.final})
        ELSE Refuse(st)

fs_remove_path(st, path) ==
    LET d == DirOf(st, path)
    IN  IF path.name # NoName /\ Usable(st, d)
        THEN remove_entry_from_dir(st, d, path.name)
        ELSE Refuse(st)

-----------------------------------------------------------------------------
(* System files and formatting *)

\* The first half of write_sys_file: find or make the directory sys.  Unlike
\* fs_mkdir_path it claims the inode and the block before it looks for a
\* slot, and writes the new directory without flushing bitmap or inodes.
SysDir(st) ==
    LET t == load_dir_block(st, 0)
        f == find_dir_entry(t, st.inodes, "sys", "dir")
        i == alloc_inode_raw(st)
        b == alloc_block_raw(st)
        s1 == Claim(st, i, b, "dir", 0)
        s2 == disk_write_lba(s1, b, ZeroBlock)
        s3 == write_dir_block(s2, 0, WithEntry(t, "sys", i))
        same == write_dir_block(st, 0, t)
    IN  IF f # 0 THEN [dir |-> t[f].inode, final |-> same, cuts |-> {st, same}]
        ELSE IF i = 0 \/ b = 0 THEN [dir |-> NoDir, final |-> st, cuts |-> {st}]
        ELSE IF free_slot(t) = 0 THEN [dir |-> NoDir, final |-> s1, cuts |-> {st, s1}]
        ELSE [dir |-> i, final |-> s3, cuts |-> {st, s1, s2, s3}]

\* The second half: the file itself, in the directory of the first half.
SysFileIn(sys, name, text) ==
    LET s1 == sys.final
        d == sys.dir
        t == load_dir_block(s1, d)
        f == find_dir_entry(t, s1.inodes, name, "file")
        i == IF f # 0 THEN t[f].inode ELSE alloc_inode_raw(s1)
        b == alloc_block_raw(s1)
        s2 == IF f # 0 THEN [s1 EXCEPT !.inodes[i].size = LengthOf[text]]
                       ELSE Claim(s1, i, b, "file", LengthOf[text])
        s3 == write_dir_block(s2, d, IF f # 0 THEN t ELSE WithEntry(t, name, i))
        s4 == disk_write_lba(s3, s2.inodes[i].block, TextBlock(text))
    IN  IF d = NoDir \/ (f = 0 /\ (i = 0 \/ b = 0))
        THEN Outcome(FALSE, s1, sys.cuts)
        ELSE IF f = 0 /\ free_slot(t) = 0
        THEN Outcome(FALSE, s2, sys.cuts \union {s2})
        ELSE FlushAndReturn(s4, sys.cuts \union {s2, s3})

\* Mutant: the block is not cleared.
ensure_root_dir_block_Stale(st) ==
    LET b == alloc_block_raw(st)
        s1 == [mark_block_used(st, b) EXCEPT !.inodes[0].block = b]
    IN  FlushAndReturn(s1, {st})

\* A root with no block yet is given one.
ensure_root_dir_block(st) ==
    LET b == alloc_block_raw(st)
        s1 == [mark_block_used(st, b) EXCEPT !.inodes[0].block = b]
        s2 == disk_write_lba(s1, b, ZeroBlock)
    IN  IF st.inodes[0].block # 0 THEN Outcome(TRUE, st, {st})
        ELSE IF b = 0 THEN Refuse(st)
        ELSE FlushAndReturn(s2, {s1})

\* What follows ensure_root_dir_block.  An fs_init that finds no superblock
\* leaves no root in RAM: given a block, it is still no directory, and
\* read_root_dir_block fails.
SysFileAfter(root, name, text) ==
    IF root.ok /\ root.final.inodes[0].type = "dir"
    THEN [SysFileIn(SysDir(root.final), name, text) EXCEPT !.cuts = @ \union root.cuts]
    ELSE Outcome(FALSE, root.final, root.cuts)

write_sys_file(st, name, text) == SysFileAfter(ensure_root_dir_block(st), name, text)

fs_write_passwd(st, hash) == write_sys_file(st, "passwd", hash)

fs_format(st) ==
    LET s1 == [st EXCEPT !.sb = TRUE, !.bitmap = {},
                  !.inodes = [i \in Inodes |-> IF i = 0 THEN [NoInode EXCEPT !.type = "dir"]
                                                        ELSE NoInode]]
        root == ensure_root_dir_block(s1)
        s2 == root.final
        s3 == [s2 EXCEPT !.dsb = TRUE]
        s4 == Flush(s3)
        status == write_sys_file(s4, "status", StatusFlag)
        passwd == write_sys_file(status.final, "passwd", DefaultHash)
    IN  [passwd EXCEPT !.ok = root.ok /\ status.ok /\ passwd.ok,
                       !.cuts = root.cuts \union {s3} \union FlushCuts(s3)
                                \union status.cuts \union passwd.cuts]

\* The sector of the superblock, read into the 32 bytes of g_sb and on over the
\* inodes behind it.
read_superblock(st) ==
    [st EXCEPT !.sb = st.dsb,
               !.inodes = SpliceInodes(OverrunInodes, SectorInodes(st), st.inodes)]

\* What fs_init passes through: the superblock, the bitmap and the inode
\* table are read in turn, each sector by sector.
MountCuts(st) ==
    LET s1 == read_superblock(st)
        s2 == [s1 EXCEPT !.bitmap = st.dbitmap]
    IN  {st}
        \union {[s1 EXCEPT !.bitmap = SpliceBitmap(n, st.dbitmap, st.bitmap)]
                  : n \in IF st.dsb THEN BitmapCuts ELSE {}}
        \union {[s2 EXCEPT !.inodes = SpliceInodes(n, st.dinodes, s1.inodes)]
                  : n \in IF st.dsb THEN InodeCuts ELSE {}}

\* Mutant: the magic number is not looked at.
fs_init_NoMagic(st) ==
    Outcome(TRUE, [st EXCEPT !.sb = st.dsb, !.bitmap = st.dbitmap, !.inodes = st.dinodes],
            MountCuts(st))

fs_init(st) ==
    IF st.dsb
    THEN Outcome(TRUE, [st EXCEPT !.sb = TRUE, !.bitmap = st.dbitmap, !.inodes = st.dinodes],
                 MountCuts(st))
    ELSE Outcome(FALSE, read_superblock(st), MountCuts(st))
=============================================================================
