------------------------------ MODULE FsLayout ------------------------------
(***************************************************************************)
(* The filesystem's data: what the driver keeps in RAM (g_sb, g_bitmap,    *)
(* g_inodes of filesystem.cpp), what is on the disk, and the static        *)
(* helpers that look a name up, allocate, and write one piece.             *)
(*                                                                         *)
(* A state of RAM and disk together is one record of FsStates.  A handler  *)
(* of filesystem.cpp is a function of such a record, so the helpers here   *)
(* and the calls of FsCalls are plain operators, and the variables are     *)
(* declared in Filesystem.                                                 *)
(***************************************************************************)
EXTENDS Naturals, FiniteSets, FiniteSetsExt

CONSTANTS
    NumInodes,    \* FS_MAX_INODES (64)
    BlockCount,   \* g_sb.block_count (32768: the image holds more than the bitmap)
    SlotCount,    \* entries of a directory block (512 / 32 = 16)
    InodeCuts,    \* inode numbers at which a sector of the inode table starts or ends
    BitmapCuts,   \* block numbers at which a sector of the bitmap starts or ends
    OverrunInodes, \* inodes of g_inodes within the 512 bytes from g_sb on (8, as
                  \* build_boot.sh's compiler lays them out)
    UserNames,    \* names typed by the user, without '/'
    SlashNames,   \* names with a '/' in them: what follows the first '/' of "a/b/c"
    Texts,        \* non-empty texts the user may store
    Hashes,       \* 4-byte password hashes
    DefaultHash,  \* the hash of "password123"
    LengthOf,     \* the length of each content
    Decoded       \* the bytes of each content, read as directory entries

NoName == ""      \* DirEntry.used = 0; as a path component: absent
JunkName == "?"   \* a name nobody types, read out of a block that holds no directory
Names == UserNames \union SlashNames \union {"sys", "status", "passwd"}

Empty == ""           \* a block of zeroes, an empty text
StatusFlag == "0xFF"  \* the content of sys/status
DirText == "<dir>"    \* a directory block read as if it were a file's
Contents == Texts \union Hashes \union {Empty, StatusFlag, DirText}

ASSUME LayoutAssumption ==
    /\ NumInodes \in Nat /\ NumInodes >= 4
    /\ BlockCount \in Nat /\ BlockCount >= 5
    /\ SlotCount \in Nat /\ SlotCount >= 2
    /\ InodeCuts \subseteq 0 .. NumInodes
    /\ BitmapCuts \subseteq 0 .. BlockCount
    /\ OverrunInodes \in 1 .. NumInodes
    /\ NoName \notin Names /\ JunkName \notin Names
    /\ DefaultHash \in Hashes
    /\ LengthOf \in [Contents -> Nat]
    /\ LengthOf[Empty] = 0 /\ LengthOf[StatusFlag] = 1
    /\ \A h \in Hashes : LengthOf[h] = 4

-----------------------------------------------------------------------------
Inodes == 0 .. NumInodes - 1
Blocks == 0 .. BlockCount - 1
Slots == 1 .. SlotCount

\* used = 0 is type "none": every assignment sets or clears both fields
\* together.  direct[0] = 0 is "no block".  links is set to 1 and never read.
InodeRecords == [type : {"none", "file", "dir"}, size : Nat, block : Blocks]
NoInode == [type |-> "none", size |-> 0, block |-> 0]

Entries == [name : Names \union {NoName, JunkName}, inode : Inodes]
NoEntry == [name |-> NoName, inode |-> 0]

Tables == [Slots -> Entries]
EmptyTable == [s \in Slots |-> NoEntry]

\* An entry is 32 bytes: a flag, an inode number, a name.  Whatever is stored
\* as a file has some reading as entries: "x0foo" gives inode 48 the name foo.
\* A number of no inode is passed over by every lookup: JunkName stands for it.
ASSUME DecodedAssumption == Decoded \in [Contents -> Tables] /\ Decoded[Empty] = EmptyTable

\* The 512 bytes of a block, as a directory reads them and as a file does.
BlockRecords == [table : Tables, text : Contents]
TextBlock(c) == [table |-> Decoded[c], text |-> c]
DirBlock(t) == [table |-> t, text |-> IF t = EmptyTable THEN Empty ELSE DirText]
ZeroBlock == TextBlock(Empty)

\* sb: g_sb holds the layout fs_format writes (else it is all zeroes).
\* The d- fields and blocks are the disk; boot is FALSE once a write has
\* landed on the boot sector, the loader or the kernel.
FsStates ==
    [sb : BOOLEAN, bitmap : SUBSET Blocks, inodes : [Inodes -> InodeRecords],
     dsb : BOOLEAN, dbitmap : SUBSET Blocks, dinodes : [Inodes -> InodeRecords],
     blocks : [Blocks -> BlockRecords], boot : BOOLEAN]

\* The image build_boot.sh makes: the kernel, then zeroes.
BlankDisk ==
    [sb |-> FALSE, bitmap |-> {}, inodes |-> [i \in Inodes |-> NoInode],
     dsb |-> FALSE, dbitmap |-> {}, dinodes |-> [i \in Inodes |-> NoInode],
     blocks |-> [b \in Blocks |-> ZeroBlock], boot |-> TRUE]

\* g_inodes follows g_sb in memory, and the superblock is read and written as a
\* whole sector: the bytes behind its own 32 are the first inodes.  The one
\* write of it, in fs_format, finds the root there and nothing else.
SectorInodes(st) ==
    [i \in Inodes |-> IF st.dsb /\ i = 0 THEN [type |-> "dir", size |-> 0, block |-> 1]
                                        ELSE NoInode]

\* What is left when the power goes: the disk.
PoweredOff(st) ==
    [st EXCEPT !.sb = FALSE, !.bitmap = {}, !.inodes = [i \in Inodes |-> NoInode]]

-----------------------------------------------------------------------------
(* Looking up and allocating. 0 stands for the -1 these functions return:  *)
(* slots count from 1, and inode 0 and block 0 are never handed out.       *)

FirstOf(S) == IF S = {} THEN 0 ELSE Min(S)

\* Mutant: the last slot is never looked at.
find_dir_entry_SkipsLast(t, inodes, name, type) ==
    FirstOf({s \in Slots \ {SlotCount} : /\ t[s].name = name
                                         /\ inodes[t[s].inode].type = type})

\* Mutant: a name is found whatever it names.
find_dir_entry_AnyType(t, inodes, name, type) ==
    FirstOf({s \in Slots : t[s].name # NoName /\ t[s].name = name})

find_dir_entry(t, inodes, name, type) ==
    FirstOf({s \in Slots : /\ t[s].name # NoName
                           /\ t[s].name = name
                           /\ inodes[t[s].inode].type = type})

free_slot(t) == FirstOf({s \in Slots : t[s].name = NoName})

alloc_inode_raw(st) == FirstOf({i \in Inodes \ {0} : st.inodes[i].type = "none"})

\* Mutant: one block too far.
alloc_block_raw_TooFar(st) == FirstOf((1 .. BlockCount) \ st.bitmap)

alloc_block_raw(st) == FirstOf(Blocks \ ({0} \union st.bitmap))

\* Mutant: the bit is never set.
mark_block_used_Forgotten(st, b) == st

\* Mutant: the bit before is cleared.
mark_block_free_OffByOne(st, b) == [st EXCEPT !.bitmap = @ \ {b - 1}]

mark_block_used(st, b) == [st EXCEPT !.bitmap = @ \union {b}]
mark_block_free(st, b) == [st EXCEPT !.bitmap = @ \ {b}]

\* The five assignments that turn a free inode and a free block into a file
\* or a directory of the inode table in RAM.
Claim(st, i, b, type, size) ==
    [mark_block_used(st, b) EXCEPT
        !.inodes[i] = [type |-> type, size |-> size, block |-> b]]

-----------------------------------------------------------------------------
(* Disk access.  With g_sb all zeroes data_lba, bitmap_lba and             *)
(* inode_table_lba are 0, so a write lands on the boot area.               *)

load_dir_block(st, d) ==
    IF st.sb THEN st.blocks[st.inodes[d].block].table ELSE EmptyTable

disk_write_lba(st, b, blk) ==
    IF st.sb THEN [st EXCEPT !.blocks[b] = blk] ELSE [st EXCEPT !.boot = FALSE]

\* A table is written back with every other byte of the block as it was read.
write_dir_block(st, d, t) ==
    LET b == st.inodes[d].block
    IN  disk_write_lba(st, b, IF st.blocks[b].table = t THEN st.blocks[b] ELSE DirBlock(t))

SpliceBitmap(n, new, old) == {b \in Blocks : b \in (IF b < n THEN new ELSE old)}
SpliceInodes(n, new, old) == [i \in Inodes |-> IF i < n THEN new[i] ELSE old[i]]

flush_bitmap(st) ==
    IF st.sb THEN [st EXCEPT !.dbitmap = st.bitmap] ELSE [st EXCEPT !.boot = FALSE]
flush_inodes(st) ==
    IF st.sb THEN [st EXCEPT !.dinodes = st.inodes] ELSE [st EXCEPT !.boot = FALSE]

\* flush_bitmap() && flush_inodes(), and every state between their sectors.
Flush(st) == flush_inodes(flush_bitmap(st))
FlushCuts(st) ==
    {Flush(st), flush_bitmap(st)} \union
    (IF st.sb
     THEN {[st EXCEPT !.dbitmap = SpliceBitmap(n, st.bitmap, st.dbitmap)] : n \in BitmapCuts}
          \union
          {[flush_bitmap(st) EXCEPT !.dinodes = SpliceInodes(n, st.inodes, st.dinodes)]
              : n \in InodeCuts}
     ELSE {})

\* RAM and disk agree: a reboot now changes nothing.
Synced(st) ==
    st.sb /\ st.dsb /\ st.bitmap = st.dbitmap /\ st.inodes = st.dinodes
=============================================================================
