-------------------------- MODULE FilesystemProofs --------------------------
(***************************************************************************)
(* Filesystem, for every number of inodes, blocks and slots, every set of  *)
(* paths and any number of faults: it keeps its types, its root directory, *)
(* the boot area and the promise of a true return; on every disk that no   *)
(* fault has left half-changed allocation is exact and the tree is sound;  *)
(* and a format repairs every other disk.                                  *)
(*                                                                         *)
(* The first part is about the calls of FsCalls alone.  Rooted is the      *)
(* invariant and Reach(st) what a call made in st may pass through: the    *)
(* states of Rooted that agree with st on the superblock and, if it is     *)
(* there, on the boot area.  A lemma per helper shows that it stays in     *)
(* Reach, and a lemma per call that its outcome does.  Each step of Next   *)
(* is a call or a piece of rm -r, so that a lemma per action shows that it *)
(* makes a Step.                                                           *)
(*                                                                         *)
(* The parts on blocks and on links are laid out the same way, with Tidy   *)
(* and Orderly in the place of Rooted.                                     *)
(***************************************************************************)
EXTENDS FsTree, SequenceTheorems, FiniteSetTheorems, WellFoundedInduction, TLAPS

-----------------------------------------------------------------------------
(* The calls *)

\* fs_format gives the root block 1; from then on it is the root's alone.
\* Said of each inode by itself, so that a table that is half old and half
\* new has it too.
RootOK(inodes, bitmap) ==
    /\ inodes[0].type = "dir" /\ inodes[0].block = 1
    /\ 1 \in bitmap
    /\ \A i \in Inodes \ {0} : inodes[i].block # 1

Rooted ==
    {st \in FsStates : /\ RootOK(st.inodes, st.bitmap)
                       /\ st.dsb => RootOK(st.dinodes, st.dbitmap)}

Reach(st) ==
    {s \in Rooted : s.sb = st.sb /\ s.dsb = st.dsb /\ (st.sb => s.boot = st.boot)}

\* A call that returns true on a mounted filesystem leaves RAM and disk in
\* agreement or has not changed the tables of either.
Settled(st, s) ==
    \/ Synced(s)
    \/ /\ s.inodes = st.inodes /\ s.bitmap = st.bitmap
       /\ s.dinodes = st.dinodes /\ s.dbitmap = st.dbitmap

Outcomes(st) ==
    {o \in [ok : BOOLEAN, final : Reach(st), cuts : SUBSET Reach(st)] :
        o.ok /\ st.sb /\ st.dsb => Settled(st, o.final)}

-----------------------------------------------------------------------------
(* Numbers and names *)

\* A set of naturals that is not empty has a least element.
LEMMA MinOf ==
    ASSUME NEW S \in SUBSET Nat, S # {}
    PROVE  /\ Min(S) \in S
           /\ \A y \in S : Min(S) <= y
<1> DEFINE R == {ss \in Nat \X Nat : ss[1] < ss[2]}
<1>1. IsWellFoundedOn(R, Nat)
  BY NatLessThanWellFounded DEF OpToRel
<1>2. PICK x \in S : \A y \in S : ~(<<y, x>> \in R)
  <2> HIDE DEF R
  <2> QED BY <1>1, WFMin
<1>3. ASSUME NEW y \in S PROVE x <= y
  <2>1. x \in Nat /\ y \in Nat
    OBVIOUS
  <2>2. ~(y < x)
    BY <1>2, <2>1
  <2> QED BY <2>1, <2>2
<1> QED BY <1>3 DEF Min

\* The search loops return an element they look for, or 0 for -1.
LEMMA FirstOfIn ==
    ASSUME NEW S \in SUBSET Nat
    PROVE  FirstOf(S) # 0 => FirstOf(S) \in S
BY MinOf DEF FirstOf

LEMMA Numbers ==
    /\ 0 \in Inodes /\ 0 \in Blocks /\ 1 \in Blocks
    /\ Inodes \subseteq Nat /\ Blocks \subseteq Nat /\ Slots \subseteq Nat \ {0}
    /\ NumInodes \notin Inodes
BY LayoutAssumption DEF Inodes, Blocks, Slots

\* The lookups of find_dir_entry, free_slot and the two allocators.
LEMMA Lookups ==
    ASSUME NEW st \in FsStates, NEW t \in Tables, NEW name, NEW type, NEW inodes
    PROVE  /\ find_dir_entry(t, inodes, name, type) # 0
                => /\ find_dir_entry(t, inodes, name, type) \in Slots
                   /\ inodes[t[find_dir_entry(t, inodes, name, type)].inode].type = type
           /\ free_slot(t) # 0 => free_slot(t) \in Slots
           /\ alloc_inode_raw(st) \in Inodes
           /\ alloc_block_raw(st) # 0 => alloc_block_raw(st) \in Blocks \ st.bitmap
<1> DEFINE F == {s \in Slots : /\ t[s].name # NoName
                               /\ t[s].name = name
                               /\ inodes[t[s].inode].type = type}
           G == {s \in Slots : t[s].name = NoName}
           I == {i \in Inodes \ {0} : st.inodes[i].type = "none"}
           B == Blocks \ ({0} \union st.bitmap)
<1>1. F \in SUBSET Nat /\ G \in SUBSET Nat /\ I \in SUBSET Nat /\ B \in SUBSET Nat
  BY Numbers
<1>2. FirstOf(F) # 0 => FirstOf(F) \in F
  BY <1>1, FirstOfIn
<1>3. FirstOf(G) # 0 => FirstOf(G) \in G
  BY <1>1, FirstOfIn
<1>4. FirstOf(I) # 0 => FirstOf(I) \in I
  BY <1>1, FirstOfIn
<1>5. FirstOf(B) # 0 => FirstOf(B) \in B
  BY <1>1, FirstOfIn
<1> HIDE DEF F, G, I, B
<1>6. find_dir_entry(t, inodes, name, type) = FirstOf(F)
  BY DEF find_dir_entry, F
<1>7. free_slot(t) = FirstOf(G)
  BY DEF free_slot, G
<1>8. alloc_inode_raw(st) = FirstOf(I)
  BY DEF alloc_inode_raw, I
<1>9. alloc_block_raw(st) = FirstOf(B)
  BY DEF alloc_block_raw, B
<1> QED BY <1>2, <1>3, <1>4, <1>5, <1>6, <1>7, <1>8, <1>9, Numbers DEF F, G, I, B

\* The contents of a block.
LEMMA BlockTypes ==
    /\ NoEntry \in Entries
    /\ EmptyTable \in Tables
    /\ \A c \in Contents : TextBlock(c) \in BlockRecords
    /\ \A t \in Tables : DirBlock(t) \in BlockRecords
    /\ ZeroBlock \in BlockRecords
<1>1. NoEntry \in Entries
  BY Numbers DEF NoEntry, Entries
<1>2. EmptyTable \in Tables
  BY <1>1 DEF EmptyTable, Tables
<1>3. \A c \in Contents : Decoded[c] \in Tables
  BY DecodedAssumption
<1>4. Empty \in Contents /\ DirText \in Contents
  BY DEF Contents
<1>5. \A c \in Contents : TextBlock(c) \in BlockRecords
  BY <1>3 DEF TextBlock, BlockRecords
<1>6. \A t \in Tables : DirBlock(t) \in BlockRecords
  BY <1>4 DEF DirBlock, BlockRecords
<1> QED BY <1>1, <1>2, <1>4, <1>5, <1>6 DEF ZeroBlock

-----------------------------------------------------------------------------
(* The helpers stay in Reach *)

LEMMA ReachSelf ==
    ASSUME NEW st \in Rooted
    PROVE  st \in Reach(st)
BY DEF Reach

LEMMA ReachTrans ==
    ASSUME NEW st \in Rooted, NEW s \in Reach(st), NEW u \in Reach(s)
    PROVE  u \in Reach(st)
BY DEF Reach

LEMMA ReachTypes ==
    /\ Rooted \subseteq FsStates
    /\ \A st : Reach(st) \subseteq Rooted
BY DEF Reach, Rooted

\* alloc_block_raw never returns the root's block.
LEMMA ClaimReach ==
    ASSUME NEW st \in Rooted, NEW i \in Inodes \ {0}, NEW b \in Blocks \ st.bitmap,
           NEW type \in {"file", "dir"}, NEW size \in Nat
    PROVE  Claim(st, i, b, type, size) \in Reach(st)
<1> DEFINE r == [type |-> type, size |-> size, block |-> b]
           s == [st EXCEPT !.bitmap = @ \union {b}, !.inodes[i] = r]
<1>1. Claim(st, i, b, type, size) = s
  BY DEF Claim, mark_block_used, Rooted, FsStates
<1>2. r \in InodeRecords
  BY DEF InodeRecords
<1>3. s \in FsStates
  BY <1>2 DEF Rooted, FsStates
<1>4. RootOK(s.inodes, s.bitmap)
  BY DEF Rooted, RootOK, FsStates
<1> QED BY <1>1, <1>3, <1>4 DEF Reach, Rooted, FsStates

LEMMA SizeReach ==
    ASSUME NEW st \in Rooted, NEW i \in Inodes, NEW size \in Nat
    PROVE  [st EXCEPT !.inodes[i].size = size] \in Reach(st)
<1> DEFINE s == [st EXCEPT !.inodes[i].size = size]
<1>1. st.inodes \in [Inodes -> InodeRecords]
  BY DEF Rooted, FsStates
<1>2. s.inodes \in [Inodes -> InodeRecords]
  BY <1>1 DEF InodeRecords, Rooted, FsStates
<1>3. s \in FsStates
  BY <1>2 DEF Rooted, FsStates
<1>4. \A j \in Inodes : s.inodes[j].type = st.inodes[j].type
                        /\ s.inodes[j].block = st.inodes[j].block
  BY <1>1 DEF InodeRecords, Rooted, FsStates
<1>5. RootOK(s.inodes, s.bitmap)
  BY <1>4, Numbers DEF Rooted, RootOK, FsStates
<1> QED BY <1>3, <1>5 DEF Reach, Rooted, FsStates

\* With the layout in g_sb a write lands on a data block.
LEMMA WriteReach ==
    ASSUME NEW st \in Rooted, NEW b \in Blocks, NEW blk \in BlockRecords
    PROVE  disk_write_lba(st, b, blk) \in Reach(st)
<1>1. CASE st.sb
  <2>1. [st EXCEPT !.blocks[b] = blk] \in Reach(st)
    BY <1>1 DEF Reach, Rooted, FsStates
  <2> QED BY <1>1, <2>1 DEF disk_write_lba
<1>2. CASE ~st.sb
  <2>1. [st EXCEPT !.boot = FALSE] \in Reach(st)
    BY <1>2 DEF Reach, Rooted, FsStates
  <2> QED BY <1>2, <2>1 DEF disk_write_lba
<1> QED BY <1>1, <1>2

LEMMA TableTypes ==
    ASSUME NEW st \in FsStates
    PROVE  /\ \A d \in Inodes : load_dir_block(st, d) \in Tables
           /\ \A d \in Inodes : st.inodes[d].block \in Blocks
           /\ \A t \in Tables, s \in Slots : t[s].inode \in Inodes
BY BlockTypes DEF load_dir_block, FsStates, BlockRecords, InodeRecords, Tables, Entries

LEMMA WriteDirReach ==
    ASSUME NEW st \in Rooted, NEW d \in Inodes, NEW t \in Tables
    PROVE  write_dir_block(st, d, t) \in Reach(st)
<1> DEFINE b == st.inodes[d].block
           blk == IF st.blocks[b].table = t THEN st.blocks[b] ELSE DirBlock(t)
<1>1. st \in FsStates
  BY ReachTypes
<1>2. b \in Blocks
  BY <1>1, TableTypes
<1>3. blk \in BlockRecords
  BY <1>1, <1>2, BlockTypes DEF FsStates
<1> HIDE DEF b, blk
<1>4. disk_write_lba(st, b, blk) \in Reach(st)
  BY <1>2, <1>3, WriteReach
<1> QED BY <1>4 DEF write_dir_block, b, blk

LEMMA EntryTypes ==
    ASSUME NEW t \in Tables, NEW s, NEW i \in Inodes, NEW name \in Names \union {NoName}
    PROVE  /\ WithEntry(t, name, i) \in Tables
           /\ Unlinked(t, s) \in Tables
           /\ [t EXCEPT ![s].name = name] \in Tables
BY BlockTypes DEF WithEntry, Unlinked, Tables, Entries

\* A table or bitmap of which some sectors are new and the others old has the
\* root where both have it.
LEMMA Splices ==
    ASSUME NEW n, NEW bits1 \in SUBSET Blocks, NEW bits2 \in SUBSET Blocks,
           NEW table1 \in [Inodes -> InodeRecords], NEW table2 \in [Inodes -> InodeRecords]
    PROVE  /\ SpliceBitmap(n, bits1, bits2) \in SUBSET Blocks
           /\ SpliceInodes(n, table1, table2) \in [Inodes -> InodeRecords]
           /\ RootOK(table1, bits1) /\ RootOK(table2, bits2)
                => RootOK(SpliceInodes(n, table1, table2), SpliceBitmap(n, bits1, bits2))
<1>1. SpliceInodes(n, table1, table2) \in [Inodes -> InodeRecords]
  BY DEF SpliceInodes
<1>2. \A i \in Inodes : SpliceInodes(n, table1, table2)[i] = table1[i]
                        \/ SpliceInodes(n, table1, table2)[i] = table2[i]
  BY DEF SpliceInodes
<1>3. 1 \in bits1 /\ 1 \in bits2 => 1 \in SpliceBitmap(n, bits1, bits2)
  BY Numbers DEF SpliceBitmap
<1> QED BY <1>1, <1>2, <1>3, Numbers DEF RootOK, SpliceBitmap

LEMMA FlushBitmapReach ==
    ASSUME NEW st \in Rooted
    PROVE  flush_bitmap(st) \in Reach(st)
BY DEF flush_bitmap, Reach, Rooted, RootOK, FsStates

LEMMA FlushInodesReach ==
    ASSUME NEW st \in Rooted
    PROVE  flush_inodes(st) \in Reach(st)
BY DEF flush_inodes, Reach, Rooted, RootOK, FsStates

LEMMA FlushReach ==
    ASSUME NEW st \in Rooted
    PROVE  Flush(st) \in Reach(st) /\ FlushCuts(st) \in SUBSET Reach(st)
<1>1. flush_bitmap(st) \in Reach(st) /\ flush_bitmap(st) \in Rooted
  BY FlushBitmapReach, ReachTypes
<1>2. Flush(st) \in Reach(flush_bitmap(st))
  BY <1>1, FlushInodesReach DEF Flush
<1>3. Flush(st) \in Reach(st)
  BY <1>1, <1>2, ReachTrans
<1>4. ASSUME st.sb, NEW n \in BitmapCuts
      PROVE  [st EXCEPT !.dbitmap = SpliceBitmap(n, st.bitmap, st.dbitmap)] \in Reach(st)
  <2> DEFINE bits == SpliceBitmap(n, st.bitmap, st.dbitmap)
  <2>1. bits \in SUBSET Blocks
    BY DEF SpliceBitmap
  <2>2. 1 \in st.bitmap /\ (st.dsb => 1 \in st.dbitmap)
    BY DEF Rooted, RootOK
  <2>3. st.dsb => 1 \in bits
    BY <2>2, Numbers DEF SpliceBitmap
  <2> HIDE DEF bits
  <2> QED BY <2>1, <2>3 DEF bits, Reach, Rooted, RootOK, FsStates
<1>5. ASSUME st.sb, NEW n \in InodeCuts
      PROVE  [flush_bitmap(st) EXCEPT !.dinodes = SpliceInodes(n, st.inodes, st.dinodes)]
                \in Reach(st)
  <2> DEFINE table == SpliceInodes(n, st.inodes, st.dinodes)
             s == [flush_bitmap(st) EXCEPT !.dinodes = table]
  <2>1. st \in FsStates
    BY ReachTypes
  <2>2. /\ table \in [Inodes -> InodeRecords]
        /\ st.dsb => RootOK(table, SpliceBitmap(n, st.bitmap, st.dbitmap))
    BY <2>1, Splices DEF Rooted, FsStates
  <2>3. st.dsb => RootOK(table, st.bitmap)
    BY <2>2 DEF RootOK, Rooted
  <2> HIDE DEF table
  <2>4. s = [st EXCEPT !.dbitmap = st.bitmap, !.dinodes = table]
    BY <1>5, <2>1 DEF flush_bitmap, FsStates
  <2>5. s \in FsStates
    BY <2>1, <2>2, <2>4 DEF FsStates
  <2> QED BY <2>1, <2>2, <2>3, <2>4, <2>5 DEF table, Reach, Rooted, FsStates
<1> QED BY <1>1, <1>3, <1>4, <1>5 DEF FlushCuts

\* What the two ways to end a call return.
LEMMA RefuseOutcome ==
    ASSUME NEW st \in Rooted
    PROVE  Refuse(st) \in Outcomes(st)
BY ReachSelf DEF Refuse, Outcome, Outcomes

LEMMA OutcomeType ==
    ASSUME NEW st, NEW ok \in BOOLEAN, NEW final \in Reach(st), NEW cuts \in SUBSET Reach(st),
           ok /\ st.sb /\ st.dsb => Settled(st, final)
    PROVE  Outcome(ok, final, cuts) \in Outcomes(st)
BY DEF Outcome, Outcomes

LEMMA FlushOutcome ==
    ASSUME NEW st \in Rooted, NEW s \in Reach(st), NEW cuts \in SUBSET Reach(st)
    PROVE  FlushAndReturn(s, cuts) \in Outcomes(st)
<1>1. s \in Rooted
  BY ReachTypes
<1>2. Flush(s) \in Reach(st) /\ FlushCuts(s) \in SUBSET Reach(st)
  BY <1>1, FlushReach, ReachTrans
<1>3. st.sb /\ st.dsb => Settled(st, Flush(s))
  BY <1>1 DEF Settled, Synced, Flush, flush_bitmap, flush_inodes, Reach, Rooted, FsStates
<1>4. cuts \union {s} \union FlushCuts(s) \in SUBSET Reach(st)
  BY <1>2, ReachSelf
<1> HIDE DEF Settled
<1> QED BY <1>2, <1>3, <1>4, OutcomeType DEF FlushAndReturn

\* Removing clears no bit but that of an entry that is not the root's.
LEMMA ReleasedReach ==
    ASSUME NEW st \in Rooted, NEW i \in Inodes \ {0}
    PROVE  /\ Released(st, i).final \in Reach(st)
           /\ Released(st, i).cuts \in SUBSET Reach(st)
<1> DEFINE b == st.inodes[i].block
           s1 == mark_block_free(st, b)
           s2 == disk_write_lba(s1, b, ZeroBlock)
           s3 == IF b = 0 THEN st ELSE s2
<1>1. st \in FsStates /\ b \in Blocks
  BY ReachTypes, TableTypes
<1>2. b # 1
  BY DEF Rooted, RootOK
<1>3. s1 \in Reach(st) /\ s1 \in Rooted
  BY <1>1, <1>2 DEF mark_block_free, Reach, Rooted, RootOK, FsStates
<1>4. s2 \in Reach(st)
  <2> HIDE DEF b, s1
  <2> QED BY <1>1, <1>3, WriteReach, ReachTrans, BlockTypes
<1>5. s3 \in Reach(st) /\ s3 \in Rooted
  BY <1>4, ReachSelf, ReachTypes
<1> HIDE DEF s3
<1>6. [s3 EXCEPT !.inodes[i] = NoInode] \in Reach(s3)
  <2>1. NoInode \in InodeRecords /\ NoInode.block # 1
    BY Numbers DEF NoInode, InodeRecords
  <2> DEFINE u == [s3 EXCEPT !.inodes[i] = NoInode]
  <2>2. s3 \in FsStates /\ RootOK(s3.inodes, s3.bitmap)
    BY <1>5 DEF Rooted
  <2>3. u \in FsStates
    BY <2>1, <2>2 DEF FsStates
  <2>4. RootOK(u.inodes, u.bitmap)
    BY <2>1, <2>2 DEF RootOK, FsStates
  <2>5. s3.dsb => RootOK(u.dinodes, u.dbitmap)
    BY <1>5 DEF Rooted, FsStates
  <2> QED BY <2>2, <2>3, <2>4, <2>5 DEF Reach, Rooted, FsStates
<1>7. [s3 EXCEPT !.inodes[i] = NoInode] \in Reach(st)
  BY <1>5, <1>6, ReachTrans
<1>8. Released(st, i) = [cuts |-> IF b = 0 THEN {st} ELSE {st, s1, s2},
                         final |-> [s3 EXCEPT !.inodes[i] = NoInode]]
  BY DEF Released, s3
<1> HIDE DEF s1, s2
<1> QED BY <1>3, <1>4, <1>7, <1>8, ReachSelf

-----------------------------------------------------------------------------
(* The calls *)

\* The directory part of a path, and where cp and mv put things.
LEMMA PathTypes ==
    ASSUME NEW st \in FsStates, NEW src \in PathRecords, NEW dst \in PathRecords
    PROVE  /\ DirOf(st, src) \in Inodes \union {NoDir}
           /\ Into(st, src, dst).dir \in Inodes \union {NoDir}
           /\ Into(st, src, dst).name \in Names \union {NoName}
           /\ \A d \in Inodes \union {NoDir} : Usable(st, d) => d \in Inodes
           /\ src.name \in Names \union {NoName}
<1>1. ASSUME NEW name PROVE SubDir(st, name) \in Inodes \union {NoDir}
  <2> DEFINE t == load_dir_block(st, 0)
             s == find_dir_entry(t, st.inodes, name, "dir")
  <2>1. t \in Tables
    BY Numbers, TableTypes
  <2> HIDE DEF t
  <2>2. s # 0 => s \in Slots
    BY <2>1, Lookups
  <2> HIDE DEF s
  <2>3. s # 0 => t[s].inode \in Inodes
    BY <2>1, <2>2, TableTypes
  <2> QED BY <2>3 DEF SubDir, s, t
<1>2. \A p \in PathRecords : DirOf(st, p) \in Inodes \union {NoDir}
  BY <1>1, Numbers DEF DirOf
<1>3. \A p \in PathRecords : p.name \in Names \union {NoName}
  BY DEF PathRecords
<1> QED BY <1>1, <1>2, <1>3 DEF Into, Usable

\* A new directory: the inode and the block it claims are free ones.
LEMMA MakeDirOutcome ==
    ASSUME NEW st \in Rooted, NEW d \in Inodes, NEW name \in Names
    PROVE  MakeDirIn(st, d, name) \in Outcomes(st)
<1> DEFINE t == load_dir_block(st, d)
           i == alloc_inode_raw(st)
           b == alloc_block_raw(st)
           s1 == Claim(st, i, b, "dir", 0)
           s2 == disk_write_lba(s1, b, ZeroBlock)
           s3 == write_dir_block(s2, d, WithEntry(t, name, i))
<1>1. st \in FsStates /\ t \in Tables
  BY ReachTypes, TableTypes
<1>2. i \in Inodes /\ (b # 0 => b \in Blocks \ st.bitmap)
  BY <1>1, Lookups
<1>3. ASSUME i # 0, b # 0 PROVE FlushAndReturn(s3, {st, s1, s2}) \in Outcomes(st)
  <2> HIDE DEF t, i, b
  <2>1. s1 \in Reach(st) /\ s1 \in Rooted
    BY <1>2, <1>3, ClaimReach, ReachTypes
  <2> HIDE DEF s1
  <2>2. s2 \in Reach(st) /\ s2 \in Rooted
    BY <1>2, <1>3, <2>1, WriteReach, BlockTypes, ReachTrans, ReachTypes
  <2> HIDE DEF s2
  <2>3. WithEntry(t, name, i) \in Tables
    BY <1>1, <1>2, EntryTypes
  <2>4. s3 \in Reach(st)
    BY <2>2, <2>3, WriteDirReach, ReachTrans
  <2> HIDE DEF s3
  <2>5. {st, s1, s2} \in SUBSET Reach(st)
    BY <2>1, <2>2, ReachSelf
  <2> QED BY <2>4, <2>5, FlushOutcome
<1>4. Refuse(st) \in Outcomes(st)
  BY RefuseOutcome
<1>5. \/ MakeDirIn(st, d, name) = FlushAndReturn(s3, {st, s1, s2}) /\ i # 0 /\ b # 0
      \/ MakeDirIn(st, d, name) = Refuse(st)
  BY DEF MakeDirIn
<1> QED BY <1>3, <1>4, <1>5

LEMMA MkdirOutcome ==
    ASSUME NEW st \in Rooted, NEW path \in PathRecords
    PROVE  fs_mkdir_path(st, path) \in Outcomes(st)
BY MakeDirOutcome, RefuseOutcome, PathTypes, ReachTypes DEF fs_mkdir_path

LEMMA CreateOutcome ==
    ASSUME NEW st \in Rooted, NEW name \in Names \union {NoName}
    PROVE  fs_create(st, name) \in Outcomes(st)
<1> DEFINE t == load_dir_block(st, 0)
           i == alloc_inode_raw(st)
           b == alloc_block_raw(st)
           s1 == Claim(st, i, b, "file", 0)
           s2 == write_dir_block(s1, 0, WithEntry(t, name, i))
<1>1. st \in FsStates /\ t \in Tables
  BY ReachTypes, TableTypes, Numbers
<1>2. i \in Inodes /\ (b # 0 => b \in Blocks \ st.bitmap)
  BY <1>1, Lookups
<1>3. ASSUME i # 0, b # 0 PROVE FlushAndReturn(s2, {st, s1}) \in Outcomes(st)
  <2> HIDE DEF t, i, b
  <2>1. s1 \in Reach(st) /\ s1 \in Rooted
    BY <1>2, <1>3, ClaimReach, ReachTypes
  <2> HIDE DEF s1
  <2>2. WithEntry(t, name, i) \in Tables
    BY <1>1, <1>2, EntryTypes
  <2>3. s2 \in Reach(st)
    BY <2>1, <2>2, WriteDirReach, ReachTrans, Numbers
  <2> HIDE DEF s2
  <2> QED BY <2>1, <2>3, FlushOutcome, ReachSelf
<1>4. Refuse(st) \in Outcomes(st)
  BY RefuseOutcome
<1>5. \/ fs_create(st, name) = FlushAndReturn(s2, {st, s1}) /\ i # 0 /\ b # 0
      \/ fs_create(st, name) = Refuse(st)
  BY DEF fs_create
<1> QED BY <1>3, <1>4, <1>5

\* A file's new size and content: the inode is the one found, or a free one.
LEMMA StoreOutcome ==
    ASSUME NEW st \in Rooted, NEW d \in Inodes, NEW name \in Names,
           NEW blk \in BlockRecords, NEW size \in Nat
    PROVE  StoreFile(st, d, name, blk, size) \in Outcomes(st)
<1> DEFINE t == load_dir_block(st, d)
           f == find_dir_entry(t, st.inodes, name, "file")
           new == f = 0
           b == alloc_block_raw(st)
           i == IF new THEN alloc_inode_raw(st) ELSE t[f].inode
           s1 == IF new THEN Claim(st, i, b, "file", size)
                        ELSE [st EXCEPT !.inodes[i].size = size]
           s2 == write_dir_block(s1, d, IF new THEN WithEntry(t, name, i) ELSE t)
           s3 == disk_write_lba(s2, s1.inodes[i].block, blk)
           room == new => free_slot(t) # 0 /\ i # 0 /\ b # 0
<1>1. st \in FsStates /\ t \in Tables
  BY ReachTypes, TableTypes
<1>2. /\ alloc_inode_raw(st) \in Inodes /\ (b # 0 => b \in Blocks \ st.bitmap)
      /\ f # 0 => f \in Slots
  BY <1>1, Lookups
<1>3. i \in Inodes
  BY <1>1, <1>2, TableTypes
<1>4. ASSUME room PROVE FlushAndReturn(s3, {st, s1, s2}) \in Outcomes(st)
  <2>1. s1 \in Reach(st) /\ s1 \in Rooted
    <3> HIDE DEF t, f, i, b
    <3> QED BY <1>2, <1>3, <1>4, ClaimReach, SizeReach, ReachTypes
  <2> HIDE DEF s1
  <2>2. (IF new THEN WithEntry(t, name, i) ELSE t) \in Tables
    BY <1>1, <1>3, EntryTypes
  <2>3. s2 \in Reach(st) /\ s2 \in Rooted
    BY <2>1, <2>2, WriteDirReach, ReachTrans, ReachTypes
  <2> HIDE DEF s2
  <2>4. s1.inodes[i].block \in Blocks
    BY <1>3, <2>1, ReachTypes, TableTypes
  <2>5. s3 \in Reach(st)
    BY <2>3, <2>4, WriteReach, ReachTrans
  <2> HIDE DEF s3
  <2> QED BY <2>1, <2>3, <2>5, FlushOutcome, ReachSelf
<1>5. Refuse(st) \in Outcomes(st)
  BY RefuseOutcome
<1>6. \/ StoreFile(st, d, name, blk, size) = FlushAndReturn(s3, {st, s1, s2}) /\ room
      \/ StoreFile(st, d, name, blk, size) = Refuse(st)
  BY DEF StoreFile
<1> QED BY <1>4, <1>5, <1>6

LEMMA WriteOutcome ==
    ASSUME NEW st \in Rooted, NEW path \in PathRecords, NEW text \in Contents
    PROVE  fs_write_path(st, path, text) \in Outcomes(st)
<1> DEFINE d == DirOf(st, path)
<1>1. TextBlock(text) \in BlockRecords /\ LengthOf[text] \in Nat
  BY BlockTypes, LayoutAssumption
<1>2. Usable(st, d) => d \in Inodes
  BY PathTypes, ReachTypes
<1>3. path.name # NoName => path.name \in Names
  BY PathTypes, ReachTypes
<1>4. Refuse(st) \in Outcomes(st)
  BY RefuseOutcome
<1> QED BY <1>1, <1>2, <1>3, <1>4, StoreOutcome DEF fs_write_path

LEMMA CopyOutcome ==
    ASSUME NEW st \in Rooted, NEW src \in PathRecords, NEW dst \in PathRecords
    PROVE  fs_copy_path(st, src, dst) \in Outcomes(st)
<1> DEFINE i == FileAt(st, src)
           to == Into(st, src, dst)
           blk == st.blocks[st.inodes[i].block]
<1>1. st \in FsStates
  BY ReachTypes
<1>2. i \in Inodes
  <2> DEFINE d == DirOf(st, src)
             t == load_dir_block(st, d)
             s == find_dir_entry(t, st.inodes, src.name, "file")
  <2>1. ASSUME Usable(st, d), s # 0 PROVE t[s].inode \in Inodes
    <3>1. t \in Tables
      BY <1>1, <2>1, PathTypes, TableTypes
    <3>2. s \in Slots
      <4> HIDE DEF t
      <4> QED BY <1>1, <2>1, <3>1, Lookups
    <3> QED BY <1>1, <3>1, <3>2, TableTypes
  <2> QED BY <2>1, Numbers DEF FileAt
<1>3. blk \in BlockRecords /\ st.inodes[i].size \in Nat
  BY <1>1, <1>2, TableTypes DEF FsStates, InodeRecords
<1>4. Usable(st, to.dir) => to.dir \in Inodes
  BY <1>1, PathTypes
<1>5. to.name # NoName => to.name \in Names
  BY <1>1, PathTypes
<1>6. Refuse(st) \in Outcomes(st)
  BY RefuseOutcome
<1> HIDE DEF i, to, blk
<1>7. Usable(st, to.dir) /\ to.name # NoName
        => StoreFile(st, to.dir, to.name, blk, st.inodes[i].size) \in Outcomes(st)
  BY <1>3, <1>4, <1>5, StoreOutcome
<1> QED BY <1>6, <1>7 DEF fs_copy_path, i, to, blk

\* Writing a directory block leaves both copies of the tables alone.
LEMMA WriteDirKeeps ==
    ASSUME NEW st \in FsStates, NEW d, NEW t
    PROVE  LET s == write_dir_block(st, d, t)
           IN  /\ s.inodes = st.inodes /\ s.bitmap = st.bitmap
               /\ s.dinodes = st.dinodes /\ s.dbitmap = st.dbitmap
BY DEF write_dir_block, disk_write_lba, FsStates

LEMMA RenameOutcome ==
    ASSUME NEW st \in Rooted, NEW src \in PathRecords, NEW dst \in PathRecords
    PROVE  fs_rename(st, src, dst) \in Outcomes(st)
<1> DEFINE sd == DirOf(st, src)
           ts == load_dir_block(st, sd)
           s == MovedSlot(ts, st.inodes, src.name)
           i == ts[s].inode
           type == st.inodes[i].type
           to == IF dst.name = NoName THEN [dir |-> DirOf(st, dst), name |-> src.name]
                                      ELSE Into(st, src, dst)
           td == load_dir_block(st, to.dir)
           renamed == write_dir_block(st, sd, [ts EXCEPT ![s].name = to.name])
           s1 == write_dir_block(st, sd, Unlinked(ts, s))
           s2 == write_dir_block(s1, to.dir, WithEntry(td, to.name, i))
<1>1. st \in FsStates
  BY ReachTypes
<1>2. /\ sd \in Inodes \union {NoDir} /\ to.dir \in Inodes \union {NoDir}
      /\ to.name \in Names \union {NoName}
      /\ \A d \in Inodes \union {NoDir} : Usable(st, d) => d \in Inodes
  BY <1>1, PathTypes
<1>3. ASSUME Usable(st, sd), Usable(st, to.dir), s # 0
      PROVE  /\ renamed \in Reach(st) /\ Settled(st, renamed)
             /\ s1 \in Reach(st) /\ s2 \in Reach(st) /\ Settled(st, s2)
  <2>1. sd \in Inodes /\ to.dir \in Inodes
    BY <1>2, <1>3
  <2> HIDE DEF sd, to
  <2>2. ts \in Tables /\ td \in Tables
    BY <1>1, <2>1, TableTypes
  <2> HIDE DEF ts, td
  <2>3. s \in Slots
    BY <1>1, <1>3, <2>2, Lookups DEF MovedSlot
  <2> HIDE DEF s
  <2>4. i \in Inodes
    BY <1>1, <2>2, <2>3, TableTypes
  <2> HIDE DEF i
  <2>5. /\ [ts EXCEPT ![s].name = to.name] \in Tables
        /\ Unlinked(ts, s) \in Tables
        /\ WithEntry(td, to.name, i) \in Tables
    BY <1>2, <2>2, <2>4, EntryTypes DEF to
  <2>6. renamed \in Reach(st) /\ s1 \in Reach(st) /\ s1 \in Rooted
    BY <2>1, <2>5, WriteDirReach, ReachTypes
  <2>7. Settled(st, renamed)
    BY <1>1, WriteDirKeeps DEF Settled
  <2>8. /\ s1.inodes = st.inodes /\ s1.bitmap = st.bitmap
        /\ s1.dinodes = st.dinodes /\ s1.dbitmap = st.dbitmap
    BY <1>1, WriteDirKeeps
  <2> HIDE DEF s1, renamed
  <2>9. s2 \in Reach(st)
    BY <2>1, <2>5, <2>6, WriteDirReach, ReachTrans
  <2>10. Settled(st, s2)
    BY <2>6, <2>8, ReachTypes, WriteDirKeeps DEF Settled
  <2> QED BY <2>6, <2>7, <2>9, <2>10
<1>4. Settled(st, st) /\ st \in Reach(st)
  BY ReachSelf DEF Settled
<1>5. Refuse(st) \in Outcomes(st)
  BY RefuseOutcome
<1>6. Outcome(TRUE, st, {st}) \in Outcomes(st)
  BY <1>4, OutcomeType
<1>7. ASSUME Usable(st, sd), Usable(st, to.dir), s # 0
      PROVE  /\ Outcome(TRUE, renamed, {st, renamed}) \in Outcomes(st)
             /\ Outcome(TRUE, s2, {st, s1, s2}) \in Outcomes(st)
  <2> HIDE DEF sd, to, s, renamed, s1, s2
  <2>1. /\ renamed \in Reach(st) /\ Settled(st, renamed)
        /\ s1 \in Reach(st) /\ s2 \in Reach(st) /\ Settled(st, s2)
    BY <1>3, <1>7
  <2>2. {st, renamed} \in SUBSET Reach(st) /\ {st, s1, s2} \in SUBSET Reach(st)
    BY <1>4, <2>1
  <2> QED BY <2>1, <2>2, OutcomeType
<1>8. \/ fs_rename(st, src, dst) = Refuse(st)
      \/ /\ Usable(st, sd) /\ Usable(st, to.dir) /\ s # 0
         /\ \/ fs_rename(st, src, dst) = Outcome(TRUE, st, {st})
            \/ fs_rename(st, src, dst) = Refuse(st)
            \/ fs_rename(st, src, dst) = Outcome(TRUE, renamed, {st, renamed})
            \/ fs_rename(st, src, dst) = Outcome(TRUE, s2, {st, s1, s2})
  BY DEF fs_rename
<1> HIDE DEF sd, to, s, renamed, s1, s2
<1> QED BY <1>5, <1>6, <1>7, <1>8

\* The entry a remove finds is a file's, so it is not the root's.
LEMMA RemoveEntryOutcome ==
    ASSUME NEW st \in Rooted, NEW d \in Inodes, NEW name \in Names
    PROVE  remove_entry_from_dir(st, d, name) \in Outcomes(st)
<1> DEFINE t == load_dir_block(st, d)
           s == find_dir_entry(t, st.inodes, name, "file")
           i == t[s].inode
           freed == Released(st, i)
           s1 == write_dir_block(freed.final, d, Unlinked(t, s))
<1>1. st \in FsStates /\ t \in Tables
  BY ReachTypes, TableTypes
<1>2. ASSUME s # 0, i # 0
      PROVE  FlushAndReturn(s1, freed.cuts \union {freed.final}) \in Outcomes(st)
  <2> HIDE DEF t
  <2>1. s \in Slots
    BY <1>1, <1>2, Lookups
  <2> HIDE DEF s
  <2>2. i \in Inodes \ {0}
    BY <1>1, <1>2, <2>1, TableTypes
  <2> HIDE DEF i
  <2>3. freed.final \in Reach(st) /\ freed.final \in Rooted /\ freed.cuts \in SUBSET Reach(st)
    BY <2>2, ReleasedReach, ReachTypes
  <2>4. Unlinked(t, s) \in Tables
    BY <1>1, Numbers, EntryTypes
  <2> HIDE DEF freed
  <2>5. s1 \in Reach(st)
    BY <2>3, <2>4, WriteDirReach, ReachTrans
  <2> HIDE DEF s1
  <2>6. freed.cuts \union {freed.final} \in SUBSET Reach(st)
    BY <2>3
  <2> QED BY <2>5, <2>6, FlushOutcome
<1>3. Refuse(st) \in Outcomes(st)
  BY RefuseOutcome
<1>4. \/ /\ remove_entry_from_dir(st, d, name)
                = FlushAndReturn(s1, freed.cuts \union {freed.final})
         /\ s # 0 /\ i # 0
      \/ remove_entry_from_dir(st, d, name) = Refuse(st)
  BY DEF remove_entry_from_dir
<1> QED BY <1>2, <1>3, <1>4

LEMMA RemoveOutcome ==
    ASSUME NEW st \in Rooted, NEW path \in PathRecords
    PROVE  fs_remove_path(st, path) \in Outcomes(st)
BY RemoveEntryOutcome, RefuseOutcome, PathTypes, ReachTypes DEF fs_remove_path

\* write_sys_file's directory: found, or made from a free inode and block.
LEMMA SysDirReach ==
    ASSUME NEW st \in Rooted
    PROVE  /\ SysDir(st).dir \in Inodes \union {NoDir}
           /\ SysDir(st).final \in Reach(st)
           /\ SysDir(st).cuts \in SUBSET Reach(st)
<1> DEFINE t == load_dir_block(st, 0)
           f == find_dir_entry(t, st.inodes, "sys", "dir")
           i == alloc_inode_raw(st)
           b == alloc_block_raw(st)
           s1 == Claim(st, i, b, "dir", 0)
           s2 == disk_write_lba(s1, b, ZeroBlock)
           s3 == write_dir_block(s2, 0, WithEntry(t, "sys", i))
           same == write_dir_block(st, 0, t)
<1>1. st \in FsStates /\ t \in Tables /\ "sys" \in Names
  BY ReachTypes, TableTypes, Numbers DEF Names
<1>2. /\ i \in Inodes /\ (b # 0 => b \in Blocks \ st.bitmap)
      /\ f # 0 => f \in Slots
  BY <1>1, Lookups
<1>3. f # 0 => t[f].inode \in Inodes
  BY <1>1, <1>2, TableTypes
<1>4. same \in Reach(st) /\ st \in Reach(st)
  BY <1>1, WriteDirReach, ReachSelf, Numbers
<1>5. ASSUME i # 0, b # 0
      PROVE  s1 \in Reach(st) /\ s2 \in Reach(st) /\ s3 \in Reach(st)
  <2> HIDE DEF t, i, b
  <2>1. s1 \in Reach(st) /\ s1 \in Rooted
    BY <1>2, <1>5, ClaimReach, ReachTypes
  <2> HIDE DEF s1
  <2>2. s2 \in Reach(st) /\ s2 \in Rooted
    BY <1>2, <1>5, <2>1, WriteReach, BlockTypes, ReachTrans, ReachTypes
  <2> HIDE DEF s2
  <2>3. WithEntry(t, "sys", i) \in Tables
    BY <1>1, <1>2, EntryTypes
  <2>4. s3 \in Reach(st)
    BY <2>2, <2>3, WriteDirReach, ReachTrans, Numbers
  <2> QED BY <2>1, <2>2, <2>4
<1>6. \/ SysDir(st) = [dir |-> t[f].inode, final |-> same, cuts |-> {st, same}] /\ f # 0
      \/ SysDir(st) = [dir |-> NoDir, final |-> st, cuts |-> {st}]
      \/ SysDir(st) = [dir |-> NoDir, final |-> s1, cuts |-> {st, s1}] /\ i # 0 /\ b # 0
      \/ SysDir(st) = [dir |-> i, final |-> s3, cuts |-> {st, s1, s2, s3}] /\ i # 0 /\ b # 0
  BY DEF SysDir
<1> HIDE DEF t, f, i, b, s1, s2, s3, same
<1> QED BY <1>2, <1>3, <1>4, <1>5, <1>6

\* The rest of write_sys_file, which works on what SysDir has left.
LEMMA SysFileInOutcome ==
    ASSUME NEW st \in Rooted, NEW name \in Names, NEW text \in Contents, NEW sys,
           sys.dir \in Inodes \union {NoDir},
           sys.final \in Reach(st),
           sys.cuts \in SUBSET Reach(st)
    PROVE  SysFileIn(sys, name, text) \in Outcomes(st)
<1> DEFINE s1 == sys.final
           d == sys.dir
           t == load_dir_block(s1, d)
           f == find_dir_entry(t, s1.inodes, name, "file")
           i == IF f # 0 THEN t[f].inode ELSE alloc_inode_raw(s1)
           b == alloc_block_raw(s1)
           s2 == IF f # 0 THEN [s1 EXCEPT !.inodes[i].size = LengthOf[text]]
                          ELSE Claim(s1, i, b, "file", LengthOf[text])
           s3 == write_dir_block(s2, d, IF f # 0 THEN t ELSE WithEntry(t, name, i))
           s4 == disk_write_lba(s3, s2.inodes[i].block, TextBlock(text))
           goes == ~(d = NoDir \/ (f = 0 /\ (i = 0 \/ b = 0)))
<1>1. /\ d \in Inodes \union {NoDir}
      /\ s1 \in Reach(st) /\ s1 \in Rooted /\ s1 \in FsStates
      /\ sys.cuts \in SUBSET Reach(st)
  BY ReachTypes
<1>2. Outcome(FALSE, s1, sys.cuts) \in Outcomes(st)
  BY <1>1, OutcomeType
<1>3. ASSUME goes
      PROVE  /\ FlushAndReturn(s4, sys.cuts \union {s2, s3}) \in Outcomes(st)
             /\ Outcome(FALSE, s2, sys.cuts \union {s2}) \in Outcomes(st)
  <2> HIDE DEF s1
  <2>1. d \in Inodes
    BY <1>1, <1>3
  <2> HIDE DEF d
  <2>2. t \in Tables
    BY <1>1, <2>1, TableTypes
  <2> HIDE DEF t
  <2>3. /\ alloc_inode_raw(s1) \in Inodes /\ (b # 0 => b \in Blocks \ s1.bitmap)
        /\ f # 0 => f \in Slots
    BY <1>1, <2>2, Lookups
  <2>4. i \in Inodes
    BY <1>1, <2>2, <2>3, TableTypes
  <2>5. LengthOf[text] \in Nat /\ TextBlock(text) \in BlockRecords
    BY BlockTypes, LayoutAssumption
  <2>6. s2 \in Reach(st) /\ s2 \in Rooted
    <3>1. s2 \in Reach(s1)
      <4> HIDE DEF f, b, i
      <4> QED BY <1>1, <1>3, <2>3, <2>4, <2>5, ClaimReach, SizeReach
    <3> QED BY <1>1, <3>1, ReachTrans, ReachTypes
  <2> HIDE DEF s2
  <2>7. (IF f # 0 THEN t ELSE WithEntry(t, name, i)) \in Tables
    BY <2>2, <2>4, EntryTypes
  <2>8. s3 \in Reach(st) /\ s3 \in Rooted
    BY <2>1, <2>6, <2>7, WriteDirReach, ReachTrans, ReachTypes
  <2> HIDE DEF s3
  <2>9. s2.inodes[i].block \in Blocks
    BY <2>4, <2>6, ReachTypes, TableTypes
  <2>10. s4 \in Reach(st)
    BY <2>5, <2>8, <2>9, WriteReach, ReachTrans
  <2> HIDE DEF s4
  <2>11. sys.cuts \union {s2, s3} \in SUBSET Reach(st)
    BY <1>1, <2>6, <2>8
  <2> QED BY <1>1, <2>6, <2>10, <2>11, FlushOutcome, OutcomeType
<1>4. \/ SysFileIn(sys, name, text) = Outcome(FALSE, s1, sys.cuts)
      \/ SysFileIn(sys, name, text) = Outcome(FALSE, s2, sys.cuts \union {s2}) /\ goes
      \/ SysFileIn(sys, name, text)
            = FlushAndReturn(s4, sys.cuts \union {s2, s3}) /\ goes
  BY DEF SysFileIn
<1> HIDE DEF s1, s2, s3, s4, goes
<1> QED BY <1>2, <1>3, <1>4

\* ensure_root_dir_block does nothing where the root has its block.
LEMMA SysFileIs ==
    ASSUME NEW st, st.inodes[0].type = "dir", st.inodes[0].block # 0, NEW name, NEW text
    PROVE  write_sys_file(st, name, text) = SysFileIn(SysDir(st), name, text)
<1> DEFINE root == ensure_root_dir_block(st)
           file == SysFileIn(SysDir(st), name, text)
<1>1. root = Outcome(TRUE, st, {st})
  BY DEF ensure_root_dir_block
<1>2. root.ok /\ root.final = st /\ root.cuts = {st}
  BY <1>1 DEF Outcome
<1>3. st \in SysDir(st).cuts
  BY DEF SysDir
<1>4. /\ file = [ok |-> file.ok, final |-> file.final, cuts |-> file.cuts]
      /\ SysDir(st).cuts \subseteq file.cuts
  BY DEF SysFileIn, FlushAndReturn, Outcome
<1>5. write_sys_file(st, name, text)
        = [SysFileIn(SysDir(root.final), name, text) EXCEPT !.cuts = @ \union root.cuts]
  <2>1. root.final.inodes[0].type = "dir"
    BY <1>2
  <2> HIDE DEF root
  <2> QED BY <1>2, <2>1 DEF write_sys_file, SysFileAfter, root
<1>6. write_sys_file(st, name, text) = [file EXCEPT !.cuts = @ \union {st}]
  BY <1>2, <1>5
<1> HIDE DEF file
<1>7. file.cuts \union {st} = file.cuts
  BY <1>3, <1>4
<1> QED BY <1>4, <1>6, <1>7 DEF file

LEMMA SysFileRooted ==
    ASSUME NEW st \in Rooted, NEW name, NEW text
    PROVE  write_sys_file(st, name, text) = SysFileIn(SysDir(st), name, text)
<1>1. st.inodes[0].type = "dir" /\ st.inodes[0].block # 0
  BY DEF Rooted, RootOK
<1> QED BY <1>1, SysFileIs

LEMMA SysFileOutcome ==
    ASSUME NEW st \in Rooted, NEW name \in Names, NEW text \in Contents
    PROVE  write_sys_file(st, name, text) \in Outcomes(st)
<1>1. SysFileIn(SysDir(st), name, text) \in Outcomes(st)
  BY SysDirReach, SysFileInOutcome
<1> QED BY <1>1, SysFileRooted

LEMMA PasswdOutcome ==
    ASSUME NEW st \in Rooted, NEW hash \in Hashes
    PROVE  fs_write_passwd(st, hash) \in Outcomes(st)
BY SysFileOutcome DEF fs_write_passwd, Names, Contents

-----------------------------------------------------------------------------
(* fs_format and fs_init, which start from any disk *)

Mountable == {st \in FsStates : st.dsb => RootOK(st.dinodes, st.dbitmap)}

\* RAM after an fs_init that found no superblock: no layout, and no root.
Wiped == {st \in FsStates : ~st.sb /\ ~st.dsb /\ st.inodes[0].type # "dir"}

\* What a format made in st passes through from its first disk access on.
Formatting(st) ==
    {s \in Rooted : s.sb /\ s.boot = st.boot /\ (st.dsb => s.dsb)}

\* The first block handed out of an empty bitmap is block 1.
LEMMA FirstBlock ==
    ASSUME NEW st, st.bitmap = {}
    PROVE  alloc_block_raw(st) = 1
<1> DEFINE B == Blocks \ ({0} \union st.bitmap)
<1>1. B \in SUBSET Nat /\ 1 \in B /\ 0 \notin B
  BY Numbers
<1>2. \A y \in B : 1 <= y
  BY <1>1
<1>3. Min(B) \in B /\ Min(B) <= 1
  BY <1>1, MinOf
<1>4. Min(B) = 1
  <2> HIDE DEF B
  <2>1. Min(B) \in Nat /\ 1 <= Min(B) /\ Min(B) <= 1
    BY <1>1, <1>2, <1>3
  <2> QED BY <2>1
<1> QED BY <1>1, <1>4 DEF alloc_block_raw, FirstOf

\* A full flush makes the disk's tables those of RAM.
LEMMA FlushSyncs ==
    ASSUME NEW st \in FsStates, st.sb
    PROVE  /\ Flush(st) \in FsStates
           /\ Flush(st).dinodes = st.inodes /\ Flush(st).dbitmap = st.bitmap
           /\ Flush(st).inodes = st.inodes /\ Flush(st).bitmap = st.bitmap
           /\ Flush(st).sb /\ Flush(st).dsb = st.dsb
BY DEF Flush, flush_bitmap, flush_inodes, FsStates

LEMMA FormatOutcome ==
    ASSUME NEW st \in Mountable
    PROVE  /\ fs_format(st).ok \in BOOLEAN
           /\ fs_format(st).final \in Formatting(st) /\ fs_format(st).final.dsb
           /\ fs_format(st).cuts \in SUBSET Formatting(st)
           /\ fs_format(st).ok => Synced(fs_format(st).final)
<1> DEFINE s1 == [st EXCEPT !.sb = TRUE, !.bitmap = {},
                      !.inodes = [i \in Inodes |-> IF i = 0 THEN [NoInode EXCEPT !.type = "dir"]
                                                            ELSE NoInode]]
           r1 == [mark_block_used(s1, 1) EXCEPT !.inodes[0].block = 1]
           r2 == disk_write_lba(r1, 1, ZeroBlock)
           root == ensure_root_dir_block(s1)
           s2 == root.final
           s3 == [s2 EXCEPT !.dsb = TRUE]
           s4 == Flush(s3)
           status == write_sys_file(s4, "status", StatusFlag)
           passwd == write_sys_file(status.final, "passwd", DefaultHash)
<1>1. st \in FsStates /\ (st.dsb => RootOK(st.dinodes, st.dbitmap))
  BY DEF Mountable
<1>2. /\ s1 \in FsStates /\ s1.sb /\ s1.bitmap = {} /\ s1.inodes[0].block = 0
      /\ s1.dsb = st.dsb /\ s1.boot = st.boot
      /\ s1.dinodes = st.dinodes /\ s1.dbitmap = st.dbitmap
      /\ s1.inodes[0].type = "dir"
      /\ \A i \in Inodes \ {0} : s1.inodes[i].block = 0
  <2>1. NoInode \in InodeRecords /\ [NoInode EXCEPT !.type = "dir"] \in InodeRecords
    BY Numbers DEF NoInode, InodeRecords
  <2>2. s1.inodes \in [Inodes -> InodeRecords]
    BY <1>1, <2>1 DEF FsStates
  <2>3. s1 \in FsStates
    BY <1>1, <2>2 DEF FsStates
  <2> QED BY <1>1, <2>3, Numbers DEF FsStates, NoInode
<1>3. r1 \in Formatting(st)
  <2> DEFINE table == [s1.inodes EXCEPT ![0].block = 1]
  <2> HIDE DEF s1
  <2>1. /\ table \in [Inodes -> InodeRecords]
        /\ table[0].type = "dir" /\ table[0].block = 1
        /\ \A i \in Inodes \ {0} : table[i].block = 0
    <3>1. s1.inodes \in [Inodes -> InodeRecords] /\ 0 \in Inodes /\ 1 \in Blocks
      BY <1>2, Numbers DEF FsStates
    <3>2. [s1.inodes[0] EXCEPT !.block = 1] \in InodeRecords
      BY <3>1 DEF InodeRecords
    <3>3. table[0] = [s1.inodes[0] EXCEPT !.block = 1]
      BY <3>1
    <3>4. table[0].type = "dir" /\ table[0].block = 1
      BY <1>2, <3>1, <3>3 DEF InodeRecords
    <3> QED BY <1>2, <3>1, <3>2, <3>4
  <2> HIDE DEF table
  <2>2. r1 = [s1 EXCEPT !.bitmap = {1}, !.inodes = table]
    BY <1>2 DEF mark_block_used, FsStates, table
  <2> HIDE DEF r1
  <2>3. r1 \in FsStates
    BY <1>2, <2>1, <2>2, Numbers DEF FsStates
  <2>4. /\ r1.inodes = table /\ r1.bitmap = {1}
        /\ r1.sb /\ r1.boot = st.boot /\ r1.dsb = st.dsb
        /\ r1.dinodes = st.dinodes /\ r1.dbitmap = st.dbitmap
    BY <1>2, <2>2 DEF FsStates
  <2>5. RootOK(r1.inodes, r1.bitmap)
    BY <2>1, <2>4 DEF RootOK
  <2> QED BY <1>1, <2>3, <2>4, <2>5 DEF Formatting, Rooted
<1> HIDE DEF s1
<1>4. root = FlushAndReturn(r2, {r1})
  <2>1. alloc_block_raw(s1) = 1
    BY <1>2, FirstBlock
  <2> QED BY <1>2, <2>1 DEF ensure_root_dir_block
<1> HIDE DEF root, r1
<1>5. r1 \in Rooted /\ r1.sb /\ r1.boot = st.boot /\ (st.dsb => r1.dsb)
  BY <1>3 DEF Formatting
<1>6. r2 \in Reach(r1) /\ r2 \in Rooted
  BY <1>5, WriteReach, BlockTypes, Numbers, ReachTypes
<1> HIDE DEF r2
<1>7. Reach(r1) \subseteq Formatting(st)
  BY <1>5 DEF Reach, Formatting
<1>8. root.cuts \in SUBSET Formatting(st) /\ root.final = Flush(r2) /\ root.ok
  <2>1. root.cuts \in SUBSET Reach(r1)
    BY <1>4, <1>5, <1>6, FlushOutcome, ReachSelf DEF Outcomes
  <2> QED BY <1>4, <1>7, <2>1 DEF FlushAndReturn, Outcome
<1>9. /\ s3 \in Rooted /\ s3.sb /\ s3.dsb /\ s3.boot = st.boot
  <2>1. s2 \in Rooted /\ s2.sb /\ s2.boot = st.boot /\ s2 \in FsStates
    BY <1>6, <1>7, <1>8, FlushReach, ReachTrans, ReachTypes, <1>5 DEF Formatting
  <2>2. s2.dinodes = s2.inodes /\ s2.dbitmap = s2.bitmap
    <3>1. r2.sb /\ r2 \in FsStates
      BY <1>5, <1>6, ReachTypes DEF Reach
    <3> QED BY <1>8, <3>1, FlushSyncs
  <2> HIDE DEF s2
  <2>3. /\ s3 \in FsStates /\ s3.sb /\ s3.dsb /\ s3.boot = st.boot
        /\ s3.inodes = s2.inodes /\ s3.bitmap = s2.bitmap
        /\ s3.dinodes = s2.dinodes /\ s3.dbitmap = s2.dbitmap
    BY <2>1 DEF FsStates
  <2> HIDE DEF s3
  <2> QED BY <2>1, <2>2, <2>3 DEF Rooted
<1> HIDE DEF s3
<1>10. \A u \in Reach(s3) : /\ Reach(u) \subseteq Formatting(st)
                            /\ u \in Rooted /\ u \in Formatting(st) /\ u.sb /\ u.dsb
  BY <1>9 DEF Reach, Formatting
<1>11. s4 \in Reach(s3) /\ FlushCuts(s3) \in SUBSET Reach(s3) /\ Synced(s4)
  BY <1>9, FlushReach, FlushSyncs, ReachTypes DEF Synced
<1> HIDE DEF s4
<1>12. "status" \in Names /\ "passwd" \in Names /\ StatusFlag \in Contents /\ DefaultHash \in Contents
  BY LayoutAssumption DEF Names, Contents
<1>13. status \in Outcomes(s4)
  BY <1>10, <1>11, <1>12, SysFileOutcome
<1> HIDE DEF status
<1>14. status.final \in Reach(s3) /\ (status.ok => Synced(status.final))
  <2>1. status.final \in Reach(s4) /\ s4 \in Rooted
    BY <1>10, <1>11, <1>13 DEF Outcomes
  <2>2. status.ok => Settled(s4, status.final)
    BY <1>10, <1>11, <1>13 DEF Outcomes
  <2> QED BY <1>9, <1>11, <2>1, <2>2, ReachTrans DEF Settled, Synced, Reach
<1>15. passwd \in Outcomes(status.final)
  BY <1>10, <1>12, <1>14, SysFileOutcome
<1> HIDE DEF passwd
<1>16. passwd.final \in Reach(s3) /\ (status.ok /\ passwd.ok => Synced(passwd.final))
  <2>1. passwd.final \in Reach(status.final) /\ status.final \in Rooted
    BY <1>10, <1>14, <1>15 DEF Outcomes
  <2>2. passwd.ok => Settled(status.final, passwd.final)
    BY <1>10, <1>14, <1>15 DEF Outcomes
  <2> QED BY <1>9, <1>14, <2>1, <2>2, ReachTrans DEF Settled, Synced, Reach
<1>17. /\ fs_format(st).ok = (root.ok /\ status.ok /\ passwd.ok)
       /\ fs_format(st).final = passwd.final
       /\ fs_format(st).cuts = root.cuts \union {s3} \union FlushCuts(s3)
                                 \union status.cuts \union passwd.cuts
  <2>1. fs_format(st) = [passwd EXCEPT
            !.ok = root.ok /\ status.ok /\ passwd.ok,
            !.cuts = root.cuts \union {s3} \union FlushCuts(s3)
                         \union status.cuts \union passwd.cuts]
    BY DEF fs_format, s1, root, s3, s4, status, passwd
  <2> QED BY <1>15, <2>1 DEF Outcomes
<1>18. status.cuts \in SUBSET Formatting(st) /\ passwd.cuts \in SUBSET Formatting(st)
  BY <1>10, <1>11, <1>13, <1>14, <1>15 DEF Outcomes
<1>19. s3 \in Formatting(st) /\ FlushCuts(s3) \in SUBSET Formatting(st)
  BY <1>9, <1>10, <1>11, ReachSelf
<1>20. passwd.final \in Formatting(st) /\ passwd.final.dsb
  BY <1>10, <1>16
<1>21. status.ok \in BOOLEAN /\ passwd.ok \in BOOLEAN
  BY <1>13, <1>15 DEF Outcomes
<1> QED BY <1>8, <1>16, <1>17, <1>18, <1>19, <1>20, <1>21

\* The superblock's sector leaves the root's inode, or none, and none of the
\* others has the root's block.
LEMMA SuperblockRead ==
    ASSUME NEW st \in FsStates
    PROVE  /\ read_superblock(st).inodes \in [Inodes -> InodeRecords]
           /\ read_superblock(st) = [st EXCEPT !.sb = st.dsb, !.inodes = read_superblock(st).inodes]
           /\ ~st.dsb => read_superblock(st).inodes[0].type # "dir"
           /\ \A bitmap : st.dsb /\ RootOK(st.inodes, bitmap)
                            => RootOK(read_superblock(st).inodes, bitmap)
<1> DEFINE sector == SectorInodes(st)
           table == SpliceInodes(OverrunInodes, sector, st.inodes)
<1>1. /\ OverrunInodes \in Nat /\ 0 < OverrunInodes
      /\ st.inodes \in [Inodes -> InodeRecords] /\ 0 \in Inodes
  BY LayoutAssumption, Numbers DEF FsStates
<1>2. /\ sector \in [Inodes -> InodeRecords]
      /\ sector[0] = IF st.dsb THEN [type |-> "dir", size |-> 0, block |-> 1] ELSE NoInode
      /\ \A i \in Inodes \ {0} : sector[i].block = 0
  BY <1>1, Numbers DEF SectorInodes, NoInode, InodeRecords
<1> HIDE DEF sector
<1>3. /\ table \in [Inodes -> InodeRecords]
      /\ table[0] = sector[0]
      /\ \A i \in Inodes : table[i] \in {sector[i], st.inodes[i]}
  BY <1>1, <1>2 DEF SpliceInodes
<1>4. read_superblock(st) = [st EXCEPT !.sb = st.dsb, !.inodes = table]
  BY DEF read_superblock, sector
<1> HIDE DEF table
<1>5. read_superblock(st).inodes = table
  BY <1>4 DEF FsStates
<1>6. ~st.dsb => table[0].type # "dir"
  BY <1>2, <1>3 DEF NoInode
<1>7. ASSUME NEW bitmap, st.dsb, RootOK(st.inodes, bitmap)
      PROVE  RootOK(table, bitmap)
  <2>1. table[0].type = "dir" /\ table[0].block = 1
    BY <1>2, <1>3, <1>7
  <2>2. ASSUME NEW i \in Inodes \ {0} PROVE table[i].block # 1
    BY <1>2, <1>3, <1>7 DEF RootOK
  <2> QED BY <1>7, <2>1, <2>2 DEF RootOK
<1> QED BY <1>3, <1>4, <1>5, <1>6, <1>7

\* fs_init reads the superblock, and the disk's tables sector by sector over
\* RAM's.
LEMMA InitOutcome ==
    ASSUME NEW st \in Mountable
    PROVE  /\ fs_init(st).ok = st.dsb
           /\ fs_init(st).final \in Mountable /\ fs_init(st).final.boot = st.boot
           /\ st.dsb => fs_init(st).final \in Rooted /\ Synced(fs_init(st).final)
           /\ ~st.dsb => fs_init(st).final \in Wiped
           /\ \A s \in fs_init(st).cuts :
                /\ s \in Mountable /\ s.boot = st.boot
                /\ s = st \/ (st.dsb /\ s.sb /\ s.dsb)
                /\ st \in Rooted => s \in Rooted
<1>1. st \in FsStates /\ (st.dsb => RootOK(st.dinodes, st.dbitmap))
  BY DEF Mountable
<1> DEFINE full == [st EXCEPT !.sb = TRUE, !.bitmap = st.dbitmap, !.inodes = st.dinodes]
           s1 == read_superblock(st)
           s2 == [s1 EXCEPT !.bitmap = st.dbitmap]
<1>2. ASSUME st.dsb
      PROVE  full \in Mountable /\ full \in Rooted /\ full.boot = st.boot /\ Synced(full)
  BY <1>1, <1>2 DEF Mountable, Rooted, Synced, FsStates
<1>3. /\ s1 \in FsStates /\ s1.sb = st.dsb /\ s1.boot = st.boot /\ s1.dsb = st.dsb
      /\ s1.bitmap = st.bitmap /\ s1.dinodes = st.dinodes /\ s1.dbitmap = st.dbitmap
  BY <1>1, SuperblockRead DEF FsStates
<1>4. ~st.dsb => s1 \in Wiped /\ s1 \in Mountable
  BY <1>1, <1>3, SuperblockRead DEF Wiped, Mountable
<1>5. st.dsb /\ st \in Rooted => RootOK(s1.inodes, st.bitmap) /\ RootOK(s1.inodes, st.dbitmap)
  <2>1. st.dsb /\ st \in Rooted => RootOK(st.inodes, st.bitmap) /\ RootOK(st.inodes, st.dbitmap)
    BY DEF Rooted, RootOK
  <2> QED BY <1>1, <2>1, SuperblockRead
<1>6. ASSUME st.dsb, NEW n
      PROVE  LET s == [s1 EXCEPT !.bitmap = SpliceBitmap(n, st.dbitmap, st.bitmap)]
             IN  /\ s \in Mountable /\ s.boot = st.boot /\ s.sb /\ s.dsb
                 /\ st \in Rooted => s \in Rooted
  <2> DEFINE bits == SpliceBitmap(n, st.dbitmap, st.bitmap)
             s == [s1 EXCEPT !.bitmap = bits]
  <2>1. bits \in SUBSET Blocks
    BY DEF SpliceBitmap
  <2>2. 1 \in st.dbitmap /\ (st \in Rooted => 1 \in st.bitmap)
    BY <1>1, <1>6 DEF RootOK, Rooted
  <2>3. st \in Rooted => 1 \in bits
    BY <2>2, Numbers DEF SpliceBitmap
  <2> HIDE DEF bits, s1
  <2>4. /\ s \in FsStates /\ s.boot = st.boot /\ s.dsb = st.dsb /\ s.sb = st.dsb
        /\ s.bitmap = bits /\ s.inodes = s1.inodes
        /\ s.dinodes = st.dinodes /\ s.dbitmap = st.dbitmap
    BY <1>3, <2>1 DEF FsStates
  <2> HIDE DEF s
  <2>5. s \in Mountable /\ s.boot = st.boot /\ s.sb /\ s.dsb /\ (st \in Rooted => s \in Rooted)
    BY <1>1, <1>5, <1>6, <2>3, <2>4 DEF Mountable, Rooted, RootOK
  <2> QED BY <2>5 DEF s, bits
<1>7. ASSUME st.dsb, NEW n
      PROVE  LET s == [s2 EXCEPT !.inodes = SpliceInodes(n, st.dinodes, s1.inodes)]
             IN  /\ s \in Mountable /\ s.boot = st.boot /\ s.sb /\ s.dsb
                 /\ st \in Rooted => s \in Rooted
  <2> DEFINE table == SpliceInodes(n, st.dinodes, s1.inodes)
             s == [s2 EXCEPT !.inodes = table]
  <2> HIDE DEF s1
  <2>1. s2 \in FsStates /\ s2.bitmap = st.dbitmap /\ s2.inodes = s1.inodes
        /\ s2.boot = st.boot /\ s2.dsb = st.dsb /\ s2.sb = st.dsb
        /\ s2.dinodes = st.dinodes /\ s2.dbitmap = st.dbitmap
    BY <1>1, <1>3 DEF FsStates
  <2> HIDE DEF s2
  <2>2. /\ table \in [Inodes -> InodeRecords]
        /\ st \in Rooted => RootOK(table, SpliceBitmap(n, st.dbitmap, st.dbitmap))
    BY <1>1, <1>3, <1>5, <1>7, Splices DEF FsStates
  <2>3. st \in Rooted => RootOK(table, st.dbitmap)
    BY <1>1, <1>7, <2>2 DEF RootOK
  <2> HIDE DEF table
  <2>4. /\ s \in FsStates /\ s.boot = st.boot /\ s.dsb = st.dsb /\ s.sb = st.dsb
        /\ s.bitmap = st.dbitmap /\ s.inodes = table
        /\ s.dinodes = st.dinodes /\ s.dbitmap = st.dbitmap
    BY <2>1, <2>2 DEF FsStates
  <2> HIDE DEF s
  <2>5. s \in Mountable /\ s.boot = st.boot /\ s.sb /\ s.dsb /\ (st \in Rooted => s \in Rooted)
    BY <1>1, <1>7, <2>3, <2>4 DEF Mountable, Rooted
  <2> QED BY <2>5 DEF s, table
<1>8. ASSUME NEW s \in MountCuts(st)
      PROVE  /\ s \in Mountable /\ s.boot = st.boot
             /\ s = st \/ (st.dsb /\ s.sb /\ s.dsb)
             /\ st \in Rooted => s \in Rooted
  <2>1. \/ s = st
        \/ st.dsb /\ \E n : s = [s1 EXCEPT !.bitmap = SpliceBitmap(n, st.dbitmap, st.bitmap)]
        \/ st.dsb /\ \E n : s = [s2 EXCEPT !.inodes = SpliceInodes(n, st.dinodes, s1.inodes)]
    BY DEF MountCuts
  <2> HIDE DEF s1, s2
  <2> QED BY <1>6, <1>7, <2>1
<1>9. \/ st.dsb /\ fs_init(st) = Outcome(TRUE, full, MountCuts(st))
      \/ ~st.dsb /\ fs_init(st) = Outcome(FALSE, s1, MountCuts(st))
  BY DEF fs_init
<1> HIDE DEF full, s1
<1>10. /\ fs_init(st).cuts = MountCuts(st)
       /\ st.dsb => fs_init(st).ok = TRUE /\ fs_init(st).final = full
       /\ ~st.dsb => fs_init(st).ok = FALSE /\ fs_init(st).final = s1
  BY <1>9 DEF Outcome
<1>11. fs_init(st).ok = st.dsb
  <2>1. st.dsb \in BOOLEAN
    BY <1>1 DEF FsStates
  <2> QED BY <1>10, <2>1
<1>12. \A s \in fs_init(st).cuts :
          /\ s \in Mountable /\ s.boot = st.boot
          /\ s = st \/ (st.dsb /\ s.sb /\ s.dsb)
          /\ st \in Rooted => s \in Rooted
  BY <1>8, <1>10
<1>13. CASE st.dsb
  BY <1>2, <1>10, <1>11, <1>12, <1>13
<1>14. CASE ~st.dsb
  BY <1>3, <1>4, <1>10, <1>11, <1>12, <1>14
<1> QED BY <1>13, <1>14

-----------------------------------------------------------------------------
(* The state machine *)

\* The inductive invariant.  RootSurvives says nothing of the disk, from
\* which fs_init makes the next RAM, nor of the RAM that an fs_init has wiped,
\* and is not inductive without them.
IInv ==
    /\ TypeOK
    /\ fs \in Mountable
    /\ Live => IF fs.sb THEN fs \in Rooted ELSE fs \in Wiped
    /\ Live /\ ~dirty => fs.sb /\ fs.dsb
    /\ mounted => fs.sb /\ fs.dsb
    /\ Running => mounted /\ phase = "ready"

\* The bodies of MountedKeepsBoot and SuccessIsFlushed.
BootKept == mounted => fs'.boot = fs.boot
Flushed ==
    (mounted' /\ ret' /\ (fs'.inodes # fs.inodes \/ fs'.bitmap # fs.bitmap
            \/ fs'.dinodes # fs.dinodes \/ fs'.dbitmap # fs.dbitmap))
        => Synced(fs)'

Step == IInv' /\ BootKept /\ Flushed

-----------------------------------------------------------------------------
(* Faults *)

LEMMA RootedMounts == Rooted \subseteq Mountable
BY DEF Rooted, Mountable

LEMMA NoFrames == <<>> \in Seq(Frames)
BY EmptySeq

LEMMA InitKept ==
    ASSUME Init
    PROVE  IInv
<1>1. NoInode \in InodeRecords /\ ZeroBlock \in BlockRecords
  BY BlockTypes, Numbers DEF NoInode, InodeRecords
<1>2. BlankDisk \in FsStates /\ ~BlankDisk.dsb
  BY <1>1 DEF BlankDisk, FsStates
<1>3. BlankDisk \in Mountable
  BY <1>2 DEF Mountable
<1>4. TypeOK
  <2>1. 0 \in 0 .. MaxAfter /\ 0 \in 0 .. MaxFormats /\ 0 \in 0 .. MaxFaults
    BY FilesystemAssumption
  <2> QED BY <1>2, <2>1, NoFrames DEF Init, TypeOK, Phases
<1> QED BY <1>3, <1>4 DEF Init, IInv, Live, Running

LEMMA PowerKept ==
    ASSUME NEW s \in Mountable, NEW whole,
           after \in 0 .. MaxAfter, dirty \in BOOLEAN, mounted => s.boot = fs.boot,
           LosePower(s, whole),
           faults' \in 0 .. MaxFaults, formats' \in 0 .. MaxFormats
    PROVE  Step
<1>1. NoInode \in InodeRecords
  BY Numbers DEF NoInode, InodeRecords
<1>2. /\ PoweredOff(s) \in Mountable /\ PoweredOff(s) \in FsStates
      /\ PoweredOff(s).boot = s.boot
  BY <1>1 DEF PoweredOff, Mountable, FsStates
<1>3. (dirty \/ s \notin whole \/ ~Synced(s)) \in BOOLEAN
  OBVIOUS
<1>4. /\ fs' = PoweredOff(s) /\ mounted' = FALSE /\ lastError' = "none"
      /\ phase' = "start" /\ stack' = <<>> /\ ret' = FALSE
      /\ dirty' \in BOOLEAN /\ after' = after
  BY <1>3 DEF LosePower
<1>5. TypeOK'
  BY <1>2, <1>4, NoFrames DEF TypeOK, Phases
<1> QED BY <1>2, <1>4, <1>5 DEF Step, IInv, BootKept, Flushed, Live, Running

\* A disk error anywhere but in fs_init.
LEMMA ErrorKept ==
    ASSUME IInv, NEW s \in Rooted, NEW whole,
           s.sb, mounted => s.boot = fs.boot /\ s.dsb,
           DiskError(s, whole), ~dirty /\ s \in whole => s.dsb,
           mounted' = mounted, lastError' = lastError,
           phase' \in Phases, formats' \in 0 .. MaxFormats
    PROVE  Step
<1>1. s \in FsStates /\ s \in Mountable
  BY ReachTypes, RootedMounts
<1>2. (dirty \/ s \notin whole) \in BOOLEAN
  OBVIOUS
<1>3. /\ fs' = s /\ ret' = FALSE /\ stack' = <<>> /\ after' = after
      /\ faults' = faults + 1 /\ faults < MaxFaults /\ dirty' \in BOOLEAN
      /\ ~dirty' => s.dsb
  BY <1>2 DEF DiskError
<1>4. TypeOK'
  <2>1. faults' \in 0 .. MaxFaults
    BY <1>3, FilesystemAssumption DEF IInv, TypeOK
  <2> QED BY <1>1, <1>3, <2>1, NoFrames DEF IInv, TypeOK
<1> QED BY <1>1, <1>3, <1>4 DEF Step, IInv, BootKept, Flushed, Running

\* The faults of a call, or of a step of rm -r.
LEMMA FaultsKept ==
    ASSUME IInv, NEW s \in Reach(fs), NEW whole, phase = "ready", fs.sb,
           \/ DiskError(s, whole) /\ UNCHANGED <<mounted, lastError, phase, formats>>
           \/ PowerFailure(s, whole) /\ UNCHANGED formats
    PROVE  Step
<1>1. /\ s \in Rooted /\ s \in Mountable /\ s.sb
      /\ mounted => s.boot = fs.boot /\ s.dsb
      /\ ~dirty => s.dsb
  BY RootedMounts, ReachTypes DEF IInv, Reach, Live
<1>2. CASE DiskError(s, whole) /\ UNCHANGED <<mounted, lastError, phase, formats>>
  BY <1>1, <1>2, ErrorKept DEF IInv, TypeOK
<1>3. CASE PowerFailure(s, whole) /\ UNCHANGED formats
  <2>1. faults' \in 0 .. MaxFaults
    BY <1>3, FilesystemAssumption DEF PowerFailure, IInv, TypeOK
  <2> QED BY <1>1, <1>3, <2>1, PowerKept DEF PowerFailure, IInv, TypeOK
<1> QED BY <1>2, <1>3

-----------------------------------------------------------------------------
(* Boot and mkfs *)

LEMMA MountKept ==
    ASSUME IInv, Mount
    PROVE  Step
<1> DEFINE r == fs_init(fs)
<1>1. /\ fs \in Mountable
      /\ phase = "reinit" => IF fs.sb THEN fs \in Rooted ELSE fs \in Wiped
      /\ phase \in {"start", "reinit"} /\ stack = <<>>
  BY DEF IInv, Live, Running, Mount
<1>2. /\ r.ok = fs.dsb
      /\ r.final \in Mountable /\ r.final.boot = fs.boot
      /\ fs.dsb => r.final \in Rooted /\ Synced(r.final)
      /\ ~fs.dsb => r.final \in Wiped
      /\ \A s \in r.cuts :
            /\ s \in Mountable /\ s.boot = fs.boot
            /\ s = fs \/ (fs.dsb /\ s.sb /\ s.dsb)
            /\ fs \in Rooted => s \in Rooted
  BY <1>1, InitOutcome
<1>3. fs.dsb \in BOOLEAN
  BY <1>1 DEF Mountable, FsStates
<1> HIDE DEF r
<1>4. CASE /\ fs' = r.final
           /\ mounted' = r.ok
           /\ ret' = r.ok
           /\ lastError' = IF r.ok THEN "none" ELSE "magic"
           /\ phase' = IF r.ok THEN "ready"
                       ELSE IF phase = "start" THEN "format" ELSE "ready"
           /\ UNCHANGED <<stack, dirty, after, formats, faults>>
  <2>1. /\ IF r.final.sb THEN r.final \in Rooted ELSE r.final \in Wiped
        /\ Live' /\ ~dirty => r.final.sb /\ r.final.dsb
    <3>1. ~fs.dsb /\ Live' => phase = "reinit"
      BY <1>1, <1>2, <1>4 DEF Live
    <3>2. Live' /\ ~dirty => fs.dsb
      BY <3>1 DEF IInv, Live
    <3> QED BY <1>2, <3>2 DEF Synced, Wiped
  <2>2. fs.dsb => Synced(fs)' /\ fs'.sb /\ fs'.dsb
    BY <1>2, <1>4 DEF Synced
  <2>3. TypeOK'
    BY <1>2, <1>3, <1>4 DEF IInv, TypeOK, Phases, Mountable
  <2> QED BY <1>1, <1>2, <1>4, <2>1, <2>2, <2>3 DEF Step, IInv, BootKept, Flushed, Running
<1>5. ASSUME NEW s \in r.cuts,
             DiskError(s, IF phase = "start" THEN r.cuts ELSE {fs}),
             mounted' = FALSE, lastError' = "io",
             phase' = (IF phase = "start" THEN "format" ELSE "ready"),
             UNCHANGED formats
      PROVE  Step
  <2>1. /\ fs' = s /\ ret' = FALSE /\ stack' = <<>> /\ after' = after
        /\ faults' = faults + 1 /\ faults < MaxFaults /\ dirty' \in BOOLEAN
        /\ ~dirty' => ~dirty
    BY <1>5 DEF DiskError, IInv, TypeOK
  <2>2. faults' \in 0 .. MaxFaults
    BY <2>1, FilesystemAssumption DEF IInv, TypeOK
  <2>3. s \in Mountable /\ s \in FsStates /\ s.boot = fs.boot
    BY <1>2, <1>5 DEF Mountable
  <2>4. /\ Live' => IF s.sb THEN s \in Rooted ELSE s \in Wiped
        /\ Live' /\ ~dirty => s.sb /\ s.dsb
    <3>1. Live' => phase = "reinit"
      BY <1>1, <1>5 DEF Live
    <3>2. fs \in Wiped => ~fs.dsb /\ ~fs.sb
      BY DEF Wiped
    <3>3. phase = "reinit" /\ ~dirty => fs.sb /\ fs.dsb
      BY DEF IInv, Live
    <3>4. s = fs \/ (fs.dsb /\ s.sb /\ s.dsb)
      BY <1>2, <1>5
    <3> QED BY <1>1, <1>2, <1>5, <3>1, <3>2, <3>3, <3>4
  <2>5. TypeOK'
    BY <1>5, <2>1, <2>2, <2>3, NoFrames DEF IInv, TypeOK, Phases
  <2> QED BY <1>5, <2>1, <2>3, <2>4, <2>5 DEF Step, IInv, BootKept, Flushed, Running
<1> QED BY <1>4, <1>5 DEF Mount, r

LEMMA FormatKept ==
    ASSUME IInv, Format
    PROVE  Step
<1> DEFINE r == fs_format(fs)
<1>1. fs \in Mountable /\ stack = <<>> /\ phase \in {"format", "ready"}
  BY DEF IInv, Format
<1>2. /\ r.final \in Formatting(fs) /\ r.final.dsb
      /\ r.cuts \in SUBSET Formatting(fs)
      /\ r.ok => Synced(r.final)
  BY <1>1, FormatOutcome
<1>3. formats' \in 0 .. MaxFormats
  BY FilesystemAssumption DEF Format, IInv, TypeOK
<1> HIDE DEF r
<1>4. CASE /\ r.ok
           /\ fs' = r.final
           /\ mounted' = TRUE
           /\ ret' = TRUE
           /\ lastError' = "none"
           /\ phase' = "reinit"
           /\ dirty' = FALSE
           /\ after' = 0
           /\ UNCHANGED <<stack, faults>>
  <2>1. /\ r.final \in Rooted /\ r.final \in Mountable /\ r.final \in FsStates
        /\ r.final.sb /\ r.final.boot = fs.boot
    BY <1>2, RootedMounts, ReachTypes DEF Formatting
  <2>2. 0 \in 0 .. MaxAfter
    BY FilesystemAssumption
  <2>3. TypeOK'
    BY <1>3, <1>4, <2>1, <2>2 DEF IInv, TypeOK, Phases
  <2>4. Synced(fs)'
    BY <1>2, <1>4
  <2> QED BY <1>1, <1>2, <1>4, <2>1, <2>3, <2>4 DEF Step, IInv, BootKept, Flushed, Running
<1>5. ASSUME NEW s \in r.cuts, DiskError(s, {r.final}),
             phase' = (IF phase = "format" THEN "reinit" ELSE "ready"),
             UNCHANGED <<mounted, lastError>>
      PROVE  Step
  <2>1. s \in Rooted /\ s.boot = fs.boot /\ s.sb /\ (fs.dsb => s.dsb)
    BY <1>2, <1>5 DEF Formatting
  <2>2. mounted => s.boot = fs.boot /\ s.dsb
    BY <2>1 DEF IInv
  <2>3. phase' \in Phases
    BY <1>5 DEF Phases
  <2>4. s \in {r.final} => s.dsb
    BY <1>2
  <2> QED BY <1>3, <1>5, <2>1, <2>2, <2>3, <2>4, ErrorKept
<1>6. ASSUME NEW s \in r.cuts, NEW whole, PowerFailure(s, whole)
      PROVE  Step
  <2>1. s \in Mountable /\ s.boot = fs.boot
    BY <1>2, <1>6, RootedMounts DEF Formatting
  <2>2. faults' \in 0 .. MaxFaults
    BY <1>6, FilesystemAssumption DEF PowerFailure, IInv, TypeOK
  <2> QED BY <1>3, <1>6, <2>1, <2>2, PowerKept DEF PowerFailure, IInv, TypeOK
<1> QED BY <1>4, <1>5, <1>6 DEF Format, r

LEMMA RebootKept ==
    ASSUME IInv, Reboot
    PROVE  Step
BY PowerKept DEF Reboot, IInv, TypeOK

-----------------------------------------------------------------------------
(* The calls of the shell *)

LEMMA CallKept ==
    ASSUME IInv, fs.sb, NEW r, fs \in Rooted => r \in Outcomes(fs), Call(r)
    PROVE  Step
<1>1. /\ phase = "ready" /\ stack = <<>> /\ (dirty => after < MaxAfter)
      /\ fs \in Rooted /\ r \in Outcomes(fs)
  BY DEF Call, MayCall, IInv, Live
<1>2. CASE /\ fs' = r.final
           /\ ret' = IF r.final = fs THEN ret ELSE r.ok
           /\ Counted(r.final # fs)
           /\ UNCHANGED <<mounted, lastError, phase, stack, dirty, formats, faults>>
  <2>1. /\ r.final \in Rooted /\ r.final \in Mountable /\ r.final \in FsStates
        /\ r.final.sb /\ (mounted => r.final.boot = fs.boot /\ r.final.dsb)
        /\ ~dirty => r.final.dsb
    BY <1>1, RootedMounts, ReachTypes DEF IInv, Outcomes, Reach, Live
  <2>2. after' \in 0 .. MaxAfter
    BY <1>1, <1>2, FilesystemAssumption DEF Counted, IInv, TypeOK
  <2>3. ret' \in BOOLEAN
    BY <1>1, <1>2 DEF Outcomes, IInv, TypeOK
  <2>4. TypeOK'
    BY <1>2, <2>1, <2>2, <2>3 DEF IInv, TypeOK
  <2>5. Flushed
    <3>1. CASE r.final = fs
      BY <1>2, <3>1 DEF Flushed
    <3>2. CASE r.final # fs
      <4>1. mounted' /\ ret' => Settled(fs, fs')
        BY <1>1, <1>2, <3>2 DEF IInv, Outcomes
      <4> QED BY <4>1 DEF Settled, Flushed
    <3> QED BY <3>1, <3>2
  <2> QED BY <1>1, <1>2, <2>1, <2>4, <2>5 DEF Step, IInv, BootKept, Running
<1>3. \A s \in r.cuts : s \in Reach(fs)
  BY <1>1 DEF Outcomes
<1> QED BY <1>1, <1>2, <1>3, FaultsKept DEF Call

\* fs_write_passwd is called on a wiped RAM as well: it may give the root's
\* inode a block, and its flush destroys the boot area, but it makes no root.
LEMMA WipedPasswd ==
    ASSUME NEW st \in Wiped, NEW hash
    PROVE  LET r == fs_write_passwd(st, hash)
           IN  /\ r.ok = FALSE /\ r.final \in Wiped /\ r.cuts \in SUBSET Wiped
               /\ \A s \in r.cuts \union {r.final} : s.blocks = st.blocks
<1> DEFINE W == {s \in Wiped : s.blocks = st.blocks}
<1> DEFINE b == alloc_block_raw(st)
           s1 == [mark_block_used(st, b) EXCEPT !.inodes[0].block = b]
           s2 == disk_write_lba(s1, b, ZeroBlock)
           root == ensure_root_dir_block(st)
           r == fs_write_passwd(st, hash)
<1>1. /\ st \in FsStates /\ ~st.sb /\ ~st.dsb /\ st.inodes[0].type # "dir"
  BY DEF Wiped
<1>2. ASSUME NEW u \in W
      PROVE  /\ FlushCuts(u) \in SUBSET W /\ Flush(u) \in W
             /\ disk_write_lba(u, b, ZeroBlock) \in W
  <2>1. [u EXCEPT !.boot = FALSE] \in W /\ ~u.sb
    BY <1>2 DEF Wiped, FsStates
  <2>2. flush_bitmap(u) = [u EXCEPT !.boot = FALSE]
    BY <2>1 DEF flush_bitmap
  <2>3. flush_bitmap(u) \in W /\ ~flush_bitmap(u).sb
    BY <2>1, <2>2 DEF Wiped
  <2>4. Flush(u) \in W
    <3> DEFINE v == flush_bitmap(u)
    <3> HIDE DEF v
    <3>1. v \in W /\ ~v.sb => [v EXCEPT !.boot = FALSE] \in W
      BY DEF Wiped, FsStates
    <3>2. v \in W /\ ~v.sb
      BY <2>3 DEF v
    <3> QED BY <3>1, <3>2 DEF Flush, flush_inodes, v
  <2>5. FlushCuts(u) = {Flush(u), flush_bitmap(u)}
    BY <2>1 DEF FlushCuts
  <2> QED BY <2>1, <2>3, <2>4, <2>5 DEF disk_write_lba
<1>3. ASSUME b # 0
      PROVE  s1 \in W
  <2>1. b \in Blocks
    <3>1. alloc_block_raw(st) # 0 => alloc_block_raw(st) \in Blocks \ st.bitmap
      BY <1>1, BlockTypes, Lookups
    <3> QED BY <1>3, <3>1
  <2>2. 0 \in Inodes /\ st.inodes \in [Inodes -> InodeRecords]
    BY <1>1, Numbers DEF FsStates
  <2> DEFINE table == [st.inodes EXCEPT ![0].block = b]
  <2>3. table \in [Inodes -> InodeRecords] /\ table[0].type # "dir"
    <3>1. [st.inodes[0] EXCEPT !.block = b] \in InodeRecords
      BY <2>1, <2>2 DEF InodeRecords
    <3>2. table[0] = [st.inodes[0] EXCEPT !.block = b] /\ st.inodes[0] \in InodeRecords
      BY <2>2
    <3>3. table[0].type = st.inodes[0].type
      BY <3>2 DEF InodeRecords
    <3> QED BY <1>1, <2>2, <3>1, <3>3
  <2>4. s1 = [st EXCEPT !.bitmap = st.bitmap \union {b}, !.inodes = table]
    BY <1>1 DEF mark_block_used, FsStates
  <2> HIDE DEF table, s1, b
  <2>5. st.bitmap \union {b} \in SUBSET Blocks
    BY <1>1, <2>1 DEF FsStates
  <2> QED BY <1>1, <2>3, <2>4, <2>5 DEF Wiped, FsStates
<1>4. \/ root = Outcome(TRUE, st, {st})
      \/ root = Refuse(st)
      \/ b # 0 /\ root = FlushAndReturn(s2, {s1})
  BY DEF ensure_root_dir_block
<1>5. b # 0 => s2 \in W
  BY <1>2, <1>3
<1>6. root.final \in W /\ root.cuts \in SUBSET W
  <2> HIDE DEF s1, s2, b, root
  <2>1. CASE root = Outcome(TRUE, st, {st})
    BY <2>1 DEF Outcome
  <2>2. CASE root = Refuse(st)
    BY <2>2 DEF Outcome, Refuse
  <2>3. CASE b # 0 /\ root = FlushAndReturn(s2, {s1})
    <3>1. FlushCuts(s2) \in SUBSET W /\ Flush(s2) \in W
      BY <1>2, <1>5, <2>3
    <3> QED BY <1>3, <1>5, <2>3, <3>1 DEF FlushAndReturn, Outcome
  <2> QED BY <1>4, <2>1, <2>2, <2>3
<1>7. root.final.inodes[0].type # "dir"
  BY <1>6 DEF Wiped
<1>8. r = Outcome(FALSE, root.final, root.cuts)
  <2> HIDE DEF root
  <2> QED BY <1>7 DEF fs_write_passwd, write_sys_file, SysFileAfter, root
<1> HIDE DEF root, r
<1>9. r.ok = FALSE /\ r.final \in W /\ r.cuts \in SUBSET W
  BY <1>6, <1>8 DEF Outcome
<1> QED BY <1>9 DEF r

LEMMA WipedKept ==
    ASSUME IInv, ~fs.sb, NEW hash \in Hashes, WritePasswd(hash)
    PROVE  Step
<1> DEFINE r == fs_write_passwd(fs, hash)
<1>1. /\ phase = "ready" /\ stack = <<>> /\ (dirty => after < MaxAfter)
      /\ fs \in Wiped /\ ~mounted /\ dirty /\ Call(r)
  BY DEF WritePasswd, Call, MayCall, IInv, Live
<1>2. r.ok = FALSE /\ r.final \in Wiped /\ r.cuts \in SUBSET Wiped
  BY <1>1, WipedPasswd
<1> HIDE DEF r
<1>3. ASSUME NEW s \in Wiped
      PROVE  s \in Mountable /\ s \in FsStates /\ ~s.sb
  BY <1>3 DEF Wiped, Mountable
<1>4. CASE /\ fs' = r.final
           /\ ret' = IF r.final = fs THEN ret ELSE r.ok
           /\ Counted(r.final # fs)
           /\ UNCHANGED <<mounted, lastError, phase, stack, dirty, formats, faults>>
  <2>1. after' \in 0 .. MaxAfter
    <3>1. dirty => after < MaxAfter
      BY <1>1
    <3>2. after' = after \/ (dirty /\ after' = after + 1)
      BY <1>4 DEF Counted
    <3>3. after \in 0 .. MaxAfter /\ MaxAfter \in Nat
      BY FilesystemAssumption DEF IInv, TypeOK
    <3> QED BY <3>1, <3>2, <3>3
  <2>2. ret' \in BOOLEAN
    BY <1>2, <1>4 DEF IInv, TypeOK
  <2>3. TypeOK'
    BY <1>2, <1>3, <1>4, <2>1, <2>2 DEF IInv, TypeOK
  <2> QED BY <1>1, <1>2, <1>3, <1>4, <2>3 DEF Step, IInv, BootKept, Flushed, Running
<1>5. ASSUME NEW s \in r.cuts, NEW whole, DiskError(s, whole),
             UNCHANGED <<mounted, lastError, phase, formats>>
      PROVE  Step
  <2>1. s \in Wiped /\ s \in Mountable /\ s \in FsStates /\ ~s.sb
    BY <1>2, <1>3
  <2>2. /\ fs' = s /\ ret' = FALSE /\ stack' = <<>> /\ after' = after
        /\ faults' = faults + 1 /\ faults < MaxFaults /\ dirty' \in BOOLEAN
        /\ dirty'
    BY <1>1, <1>5 DEF DiskError, IInv, TypeOK
  <2>3. faults' \in 0 .. MaxFaults
    BY <2>2, FilesystemAssumption DEF IInv, TypeOK
  <2>4. TypeOK'
    BY <1>5, <2>1, <2>2, <2>3, NoFrames DEF IInv, TypeOK
  <2> QED BY <1>1, <1>5, <2>1, <2>2, <2>4 DEF Step, IInv, BootKept, Flushed, Running
<1>6. ASSUME NEW s \in r.cuts, NEW whole, PowerFailure(s, whole), UNCHANGED formats
      PROVE  Step
  <2>1. s \in Mountable
    BY <1>2, <1>3
  <2>2. faults' \in 0 .. MaxFaults
    BY <1>6, FilesystemAssumption DEF PowerFailure, IInv, TypeOK
  <2> QED BY <1>1, <1>6, <2>1, <2>2, PowerKept DEF PowerFailure, IInv, TypeOK
<1> QED BY <1>1, <1>4, <1>5, <1>6 DEF Call

-----------------------------------------------------------------------------
(* rm -r *)

LEMMA TopTypes ==
    ASSUME TypeOK, Running
    PROVE  /\ Top \in Frames /\ Below \in Seq(Frames)
           /\ Len(stack) > 1 => Len(Below) \in 1 .. Len(Below)
           /\ Top.todo # {} => Min(Top.todo) \in Slots /\ Current \in Inodes
<1> DEFINE n == Len(stack)
<1>1. stack \in Seq(Frames) /\ stack # <<>>
  BY DEF TypeOK, Running
<1>2. n \in Nat \ {0}
  BY <1>1, EmptySeq
<1>3. \A k \in 1 .. n : stack[k] \in Frames
  BY <1>1, ElementOfSeq
<1>4. Top \in Frames
  BY <1>2, <1>3 DEF Top
<1>5. /\ Below \in Seq(Frames)
      /\ n > 1 => Len(Below) = n - 1
  <2>1. 1 \in Int /\ n - 1 \in Int
    BY <1>2
  <2>2. \A k \in 1 .. n - 1 : stack[k] \in Frames
    BY <1>2, <1>3
  <2> HIDE DEF n
  <2>3. /\ SubSeq(stack, 1, n - 1) \in Seq(Frames)
        /\ Len(SubSeq(stack, 1, n - 1)) = IF 1 <= n - 1 THEN n - 1 - 1 + 1 ELSE 0
    BY <2>1, <2>2, SubSeqProperties
  <2> QED BY <1>2, <2>3 DEF Below, n
<1>6. ASSUME Top.todo # {} PROVE Min(Top.todo) \in Slots /\ Current \in Inodes
  <2>1. Top.todo \in SUBSET Slots /\ Top.table \in Tables
    BY <1>4 DEF Frames
  <2>2. Min(Top.todo) \in Slots
    BY <1>6, <2>1, MinOf, Numbers
  <2>3. Top.table[Min(Top.todo)].inode \in Inodes
    <3> HIDE DEF Top
    <3> QED BY <2>1, <2>2 DEF Tables, Entries
  <2> QED BY <2>2, <2>3 DEF Current
<1> QED BY <1>2, <1>4, <1>5, <1>6

LEMMA FrameType ==
    ASSUME NEW d \in Inodes, NEW t \in Tables, NEW todo \in SUBSET Slots
    PROVE  Frame(d, t, todo) \in Frames
BY DEF Frame, Frames

LEMMA GoesKept ==
    ASSUME IInv, phase = "ready", mounted, NEW s \in Reach(fs), NEW frames \in Seq(Frames),
           Goes(s, frames), after' \in 0 .. MaxAfter
    PROVE  Step
<1>1. /\ s \in Rooted /\ s \in Mountable /\ s \in FsStates
      /\ s.boot = fs.boot /\ s.sb /\ s.dsb
  BY RootedMounts, ReachTypes DEF IInv, Reach
<1>2. TypeOK'
  BY <1>1 DEF Goes, IInv, TypeOK
<1> QED BY <1>1, <1>2 DEF Goes, Step, IInv, BootKept, Flushed, Running

LEMMA RemoveFaultsKept ==
    ASSUME IInv, phase = "ready", mounted, NEW cuts \in SUBSET Reach(fs), RemoveFaults(cuts)
    PROVE  Step
<1>1. fs.sb
  BY DEF IInv
<1> QED BY <1>1, FaultsKept DEF RemoveFaults

LEMMA RemoveRecursiveKept ==
    ASSUME IInv, NEW path \in PathRecords, RemoveRecursive(path)
    PROVE  Step
<1> DEFINE d == DirOf(fs, path)
           t == load_dir_block(fs, d)
           dirSlot == find_dir_entry(t, fs.inodes, path.name, "dir")
           fileSlot == find_dir_entry(t, fs.inodes, path.name, "file")
           s == IF dirSlot # 0 THEN dirSlot ELSE fileSlot
<1>1. /\ mounted /\ phase = "ready" /\ (dirty => after < MaxAfter)
      /\ Usable(fs, d) /\ s # 0
      /\ Goes(fs, <<Frame(d, t, {s})>>) /\ Counted(TRUE)
  BY DEF RemoveRecursive, MayCall
<1>2. fs \in Rooted /\ fs \in FsStates
  BY <1>1, ReachTypes DEF IInv, Live
<1>3. d \in Inodes
  BY <1>1, <1>2, PathTypes
<1> HIDE DEF d
<1>4. t \in Tables
  BY <1>2, <1>3, TableTypes
<1> HIDE DEF t
<1>5. s \in Slots
  BY <1>1, <1>2, <1>4, Lookups
<1> HIDE DEF s
<1>6. Frame(d, t, {s}) \in Frames
  BY <1>3, <1>4, <1>5, FrameType
<1>7. <<Frame(d, t, {s})>> \in Seq(Frames)
  BY <1>6
<1>8. after' \in 0 .. MaxAfter
  BY <1>1, FilesystemAssumption DEF Counted, IInv, TypeOK
<1> QED BY <1>1, <1>2, <1>7, <1>8, ReachSelf, GoesKept

LEMMA RemoveStepKept ==
    ASSUME IInv, RemoveStep
    PROVE  Step
<1>1. /\ Running /\ mounted /\ phase = "ready"
      /\ fs \in Rooted /\ fs \in FsStates /\ fs \in Reach(fs)
      /\ TypeOK /\ after \in 0 .. MaxAfter
  <2>1. Running
    <3>1. Len(stack) >= 1 => stack # <<>>
      BY EmptySeq
    <3>2. \/ Running
          \/ Len(stack) > 1
          \/ Len(stack) = 1
      BY DEF RemoveStep, RemoveEnter, RemoveCurrent, RemoveLeave, RemoveDone, RemoveGivesUp
    <3>3. stack \in Seq(Frames)
      BY DEF IInv, TypeOK
    <3>4. Len(stack) \in Nat
      BY <3>3, LenProperties
    <3> QED BY <3>1, <3>2, <3>4 DEF Running
  <2> QED BY <2>1, ReachTypes, ReachSelf DEF IInv, Live, TypeOK
<1>2. /\ Top \in Frames /\ Below \in Seq(Frames) /\ stack \in Seq(Frames)
      /\ Top.dir \in Inodes /\ Top.table \in Tables /\ Top.todo \in SUBSET Slots
      /\ Top.todo # {} => Min(Top.todo) \in Slots /\ Current \in Inodes
  BY <1>1, TopTypes DEF Frames, TypeOK
<1>3. /\ write_dir_block(fs, Top.dir, Top.table) \in Reach(fs)
  BY <1>1, <1>2, WriteDirReach
<1>4. ASSUME RemoveEnter PROVE Step
  <2> DEFINE t == load_dir_block(fs, Current)
  <2>1. Current \in Inodes
    BY <1>2, <1>4 DEF RemoveEnter
  <2>2. t \in Tables
    BY <1>1, <2>1, TableTypes
  <2>3. Append(stack, Frame(Current, t, UsedSlots(t))) \in Seq(Frames)
    <3>1. UsedSlots(t) \in SUBSET Slots
      BY DEF UsedSlots
    <3>2. Frame(Current, t, UsedSlots(t)) \in Frames
      BY <2>1, <2>2, <3>1, FrameType
    <3> QED BY <1>2, <3>2
  <2>4. {fs} \in SUBSET Reach(fs)
    BY <1>1
  <2>5. CASE Goes(fs, Append(stack, Frame(Current, t, UsedSlots(t)))) /\ UNCHANGED after
    BY <1>1, <2>3, <2>5, GoesKept
  <2>6. CASE RemoveFaults({fs})
    BY <1>1, <2>4, <2>6, RemoveFaultsKept
  <2> QED BY <1>4, <2>5, <2>6 DEF RemoveEnter
<1>5. ASSUME RemoveCurrent PROVE Step
  <2> DEFINE slot == Min(Top.todo)
             freed == Released(fs, Current)
             frame == [Top EXCEPT !.table = Unlinked(@, slot), !.todo = @ \ {slot},
                                  !.emptied = FALSE]
  <2>1. Current \in Inodes \ {0}
    BY <1>2, <1>5 DEF RemoveCurrent
  <2>2. freed.final \in Reach(fs) /\ freed.cuts \in SUBSET Reach(fs)
    BY <1>1, <2>1, ReleasedReach
  <2>3. Append(Below, frame) \in Seq(Frames)
    <3>1. Unlinked(Top.table, slot) \in Tables
      BY <1>2, Numbers, EntryTypes
    <3>2. frame \in Frames
      <4> HIDE DEF slot
      <4> QED BY <1>2, <3>1 DEF Frames
    <3> HIDE DEF frame
    <3> QED BY <1>2, <3>2
  <2>4. CASE Goes(freed.final, Append(Below, frame)) /\ UNCHANGED after
    <3> HIDE DEF freed, frame
    <3> QED BY <1>1, <2>2, <2>3, <2>4, GoesKept
  <2>5. CASE RemoveFaults(freed.cuts)
    BY <1>1, <2>2, <2>5, RemoveFaultsKept
  <2> QED BY <1>5, <2>4, <2>5 DEF RemoveCurrent
<1>6. ASSUME RemoveLeave PROVE Step
  <2> DEFINE s == write_dir_block(fs, Top.dir, Top.table)
             n == Len(Below)
             up == [Below EXCEPT ![n].emptied = TRUE]
  <2>1. n \in 1 .. Len(Below)
    BY <1>1, <1>6, TopTypes DEF RemoveLeave
  <2>2. up \in Seq(Frames)
    <3>1. Below[n] \in Frames
      BY <1>2, <2>1, ElementOfSeq
    <3>2. [Below[n] EXCEPT !.emptied = TRUE] \in Frames
      BY <3>1 DEF Frames
    <3>3. [Below EXCEPT ![n] = [Below[n] EXCEPT !.emptied = TRUE]] \in Seq(Frames)
      BY <1>2, <2>1, <3>2, ExceptSeq
    <3> QED BY <3>3
  <2>3. {fs, s} \in SUBSET Reach(fs)
    BY <1>1, <1>3
  <2>4. CASE Goes(s, up) /\ UNCHANGED after
    <3> HIDE DEF s, up
    <3> QED BY <1>1, <2>2, <2>3, <2>4, GoesKept
  <2>5. CASE RemoveFaults({fs, s})
    BY <1>1, <2>3, <2>5, RemoveFaultsKept
  <2> QED BY <1>6, <2>4, <2>5 DEF RemoveLeave
<1>7. ASSUME RemoveDone PROVE Step
  <2> DEFINE r == FlushAndReturn(write_dir_block(fs, Top.dir, Top.table), {fs})
  <2>1. {fs} \in SUBSET Reach(fs)
    BY <1>1
  <2>2. r \in Outcomes(fs)
    BY <1>1, <1>3, <2>1, FlushOutcome
  <2>3. r.ok = TRUE
    BY DEF FlushAndReturn, Outcome
  <2> HIDE DEF r
  <2>4. CASE /\ fs' = r.final
             /\ stack' = <<>>
             /\ ret' = TRUE
             /\ UNCHANGED <<mounted, lastError, phase, dirty, after, formats, faults>>
    <3>1. /\ r.final \in Rooted /\ r.final \in Mountable /\ r.final \in FsStates
          /\ r.final.boot = fs.boot /\ r.final.sb /\ r.final.dsb
          /\ Settled(fs, r.final)
      BY <1>1, <2>2, <2>3, RootedMounts, ReachTypes DEF IInv, Outcomes, Reach, Live
    <3>2. TypeOK'
      BY <2>4, <3>1, NoFrames DEF IInv, TypeOK
    <3>3. Flushed
      BY <2>4, <3>1 DEF Settled, Flushed
    <3> QED BY <1>1, <2>4, <3>1, <3>2, <3>3 DEF Step, IInv, BootKept, Running
  <2>5. CASE RemoveFaults(r.cuts)
    <3>1. r.cuts \in SUBSET Reach(fs)
      BY <2>2 DEF Outcomes
    <3> QED BY <1>1, <2>5, <3>1, RemoveFaultsKept
  <2> QED BY <1>7, <2>4, <2>5 DEF RemoveDone, r
<1>8. ASSUME RemoveGivesUp PROVE Step
  BY <1>1, <1>8, NoFrames, GoesKept DEF RemoveGivesUp
<1> QED BY <1>4, <1>5, <1>6, <1>7, <1>8 DEF RemoveStep

-----------------------------------------------------------------------------
(* The theorems *)

\* A step of Next whatever the paths are, which is what a step of Shell makes.
AnyStep ==
    \/ Mount
    \/ Format
    \/ Reboot
    \/ \E p \in PathRecords :
        \/ Mkdir(p)
        \/ Create(p)
        \/ \E text \in Texts \union {Empty} : Write(p, text)
        \/ Remove(p)
        \/ RemoveRecursive(p)
        \/ \E q \in PathRecords : Copy(p, q) \/ Rename(p, q)
    \/ \E hash \in Hashes : WritePasswd(hash)
    \/ RemoveStep

LEMMA NextIsAny ==
    ASSUME [Next]_vars
    PROVE  [AnyStep]_vars
BY FilesystemAssumption DEF Next, AnyStep

LEMMA NextKept ==
    ASSUME IInv, [AnyStep]_vars
    PROVE  Step
<1> mounted => fs.sb
  BY DEF IInv
<1>1. ASSUME NEW p \in PathRecords, NEW q \in PathRecords
      PROVE  /\ Mkdir(p) => Step
             /\ Create(p) => Step
             /\ \A text \in Texts \union {Empty} : Write(p, text) => Step
             /\ Remove(p) => Step
             /\ Copy(p, q) => Step
             /\ Rename(p, q) => Step
  <2>1. Mkdir(p) => Step
    BY CallKept, MkdirOutcome DEF Mkdir
  <2>2. Create(p) => Step
    BY CallKept, CreateOutcome DEF Create, PathRecords
  <2>3. ASSUME NEW text \in Texts \union {Empty} PROVE Write(p, text) => Step
    BY CallKept, WriteOutcome DEF Write, Contents
  <2>4. Remove(p) => Step
    BY CallKept, RemoveOutcome DEF Remove
  <2>5. Copy(p, q) => Step
    BY CallKept, CopyOutcome DEF Copy
  <2>6. Rename(p, q) => Step
    BY CallKept, RenameOutcome DEF Rename
  <2> QED BY <2>1, <2>2, <2>3, <2>4, <2>5, <2>6
<1>2. ASSUME NEW hash \in Hashes PROVE WritePasswd(hash) => Step
  BY CallKept, PasswdOutcome, WipedKept DEF WritePasswd
<1>3. ASSUME NEW p \in PathRecords PROVE RemoveRecursive(p) => Step
  BY RemoveRecursiveKept
<1>4. CASE UNCHANGED vars
  BY <1>4 DEF vars, Step, IInv, TypeOK, BootKept, Flushed, Live, Running
<1>5. CASE AnyStep
  BY <1>1, <1>2, <1>3, <1>5, MountKept, FormatKept, RebootKept, RemoveStepKept DEF AnyStep
<1> QED BY <1>4, <1>5

\* In every behaviour, with any faults, the invariant above holds.
THEOREM Invariant == Spec => []IInv
<1>1. Init => IInv
  BY InitKept
<1>2. IInv /\ [Next]_vars => IInv'
  BY NextKept, NextIsAny DEF Step
<1> QED BY <1>1, <1>2, PTL DEF Spec

\* Every variable keeps to its type: no call makes an inode, an entry or a
\* block number that is out of range, however full the disk is and wherever
\* the calls before it were cut short.
THEOREM TypeCorrect == Spec => []TypeOK
<1>1. IInv => TypeOK
  BY DEF IInv
<1> QED BY <1>1, Invariant, PTL

\* As long as g_sb holds the layout the calls find the root directory, and its
\* block is no one else's: what alloc_block_raw and the remove functions' checks
\* are for, and why fs_init's read of the superblock does no harm to it.
THEOREM RootCorrect == Spec => []RootSurvives
<1>1. IInv => RootSurvives
  BY DEF IInv, RootSurvives, Rooted, RootOK
<1> QED BY <1>1, Invariant, PTL

\* No call on a mounted filesystem writes outside the filesystem's sectors:
\* g_mounted is only ever set while g_sb holds the layout.
THEOREM BootIsKept == Spec => MountedKeepsBoot
<1>1. IInv /\ [Next]_vars => [BootKept]_vars
  BY NextKept, NextIsAny DEF Step
<1> QED BY <1>1, Invariant, PTL DEF Spec, MountedKeepsBoot, BootKept

\* What a call that returned true has changed in the tables is on the disk.
THEOREM SuccessIsOnDisk == Spec => SuccessIsFlushed
<1>1. IInv /\ [Next]_vars => [Flushed]_vars
  BY NextKept, NextIsAny DEF Step
<1> QED BY <1>1, Invariant, PTL DEF Spec, SuccessIsFlushed, Flushed

-----------------------------------------------------------------------------
(* Blocks: Tidy is the set of states whose tables in RAM account for every *)
(* block.  That is kept whatever the directories say: a remove that met    *)
(* the same inode twice would find it without a block the second time.     *)

\* Said of each inode's block, 0 being none, so that it is the same for every
\* kind of inode.
Accounts(inodes, bitmap) ==
    /\ \A i \in Inodes : inodes[i].type = "none" <=> inodes[i].block = 0
    /\ \A i \in Inodes : inodes[i].block # 0 => inodes[i].block \in bitmap
    /\ \A i, j \in Inodes :
          i # j /\ inodes[i].block = inodes[j].block => inodes[i].block = 0
    /\ \A b \in bitmap : b # 0 /\ \E i \in Inodes : inodes[i].block = b

Tidy == {st \in FsStates : Accounts(st.inodes, st.bitmap)}

-----------------------------------------------------------------------------
(* The helpers keep a state tidy *)

\* Writes and flushes leave the tables in RAM as they are.
LEMMA WriteTidy ==
    ASSUME NEW st \in Tidy, NEW b \in Blocks, NEW blk \in BlockRecords
    PROVE  disk_write_lba(st, b, blk) \in Tidy
BY DEF disk_write_lba, Tidy, FsStates

LEMMA WriteDirTidy ==
    ASSUME NEW st \in Tidy, NEW d \in Inodes, NEW t \in Tables
    PROVE  write_dir_block(st, d, t) \in Tidy
<1> DEFINE b == st.inodes[d].block
           blk == IF st.blocks[b].table = t THEN st.blocks[b] ELSE DirBlock(t)
<1>1. st \in FsStates
  BY DEF Tidy
<1>2. b \in Blocks
  BY <1>1, TableTypes
<1>3. blk \in BlockRecords
  BY <1>1, <1>2, BlockTypes DEF FsStates
<1> HIDE DEF b, blk
<1>4. disk_write_lba(st, b, blk) \in Tidy
  BY <1>2, <1>3, WriteTidy
<1> QED BY <1>4 DEF write_dir_block, b, blk

LEMMA FlushTidy ==
    ASSUME NEW st \in Tidy
    PROVE  Flush(st) \in Tidy
<1>1. flush_bitmap(st) \in Tidy
  BY DEF flush_bitmap, Tidy, FsStates
<1>2. \A s \in Tidy : flush_inodes(s) \in Tidy
  BY DEF flush_inodes, Tidy, FsStates
<1> QED BY <1>1, <1>2 DEF Flush

\* The inode alloc_inode_raw hands out is a free one.
LEMMA FreeInode ==
    ASSUME NEW st \in FsStates
    PROVE  alloc_inode_raw(st) # 0 => st.inodes[alloc_inode_raw(st)].type = "none"
<1> DEFINE I == {i \in Inodes \ {0} : st.inodes[i].type = "none"}
<1>1. I \in SUBSET Nat
  BY Numbers
<1>2. FirstOf(I) # 0 => FirstOf(I) \in I
  BY <1>1, FirstOfIn
<1>3. alloc_inode_raw(st) = FirstOf(I)
  BY DEF alloc_inode_raw
<1> HIDE DEF I
<1> QED BY <1>2, <1>3 DEF I

\* A free inode and a free block go together.
LEMMA ClaimTidy ==
    ASSUME NEW st \in Tidy, NEW type \in {"file", "dir"}, NEW size \in Nat,
           alloc_inode_raw(st) # 0, alloc_block_raw(st) # 0
    PROVE  Claim(st, alloc_inode_raw(st), alloc_block_raw(st), type, size) \in Tidy
<1> DEFINE i == alloc_inode_raw(st)
           b == alloc_block_raw(st)
           r == [type |-> type, size |-> size, block |-> b]
           s == [st EXCEPT !.bitmap = @ \union {b}, !.inodes[i] = r]
<1>1. st \in FsStates /\ Accounts(st.inodes, st.bitmap)
  BY DEF Tidy
<1>2. /\ i \in Inodes /\ st.inodes[i].type = "none"
      /\ b \in Blocks \ st.bitmap /\ b # 0
  <2>1. EmptyTable \in Tables
    BY BlockTypes
  <2> QED BY <1>1, <2>1, Lookups, FreeInode
<1>3. Claim(st, i, b, type, size) = s
  BY <1>1 DEF Claim, mark_block_used, FsStates
<1> HIDE DEF i, b
<1>4. r \in InodeRecords /\ r.type # "none" /\ r.block = b
  BY <1>2 DEF InodeRecords
<1> HIDE DEF r
<1>5. /\ s \in FsStates /\ s.bitmap = st.bitmap \union {b}
      /\ s.inodes[i] = r /\ \A j \in Inodes \ {i} : s.inodes[j] = st.inodes[j]
  BY <1>1, <1>2, <1>4 DEF FsStates
<1> HIDE DEF s
<1>6. Accounts(s.inodes, s.bitmap)
  <2>1. \A j \in Inodes : s.inodes[j].type = "none" <=> s.inodes[j].block = 0
    BY <1>1, <1>2, <1>4, <1>5 DEF Accounts
  <2>2. \A j \in Inodes : s.inodes[j].block # 0 => s.inodes[j].block \in s.bitmap
    BY <1>1, <1>2, <1>4, <1>5 DEF Accounts
  <2>3. \A j \in Inodes \ {i} : s.inodes[j].block # b
    BY <1>1, <1>2, <1>5 DEF Accounts
  <2>4. \A j, k \in Inodes :
            j # k /\ s.inodes[j].block = s.inodes[k].block => s.inodes[j].block = 0
    BY <1>1, <1>2, <1>4, <1>5, <2>3 DEF Accounts
  <2>5. ASSUME NEW c \in s.bitmap PROVE c # 0 /\ \E j \in Inodes : s.inodes[j].block = c
    <3>1. CASE c = b
      BY <1>2, <1>4, <1>5, <3>1
    <3>2. CASE c # b
      <4>1. c # 0 /\ \E j \in Inodes : st.inodes[j].block = c
        BY <1>1, <1>5, <3>2 DEF Accounts
      <4>2. PICK j \in Inodes : st.inodes[j].block = c
        BY <4>1
      <4>3. j # i
        BY <1>1, <1>2, <4>1, <4>2 DEF Accounts
      <4> QED BY <1>5, <4>1, <4>2, <4>3
    <3> QED BY <3>1, <3>2
  <2> QED BY <2>1, <2>2, <2>4, <2>5 DEF Accounts
<1> QED BY <1>3, <1>5, <1>6 DEF Tidy, i, b

LEMMA SizeTidy ==
    ASSUME NEW st \in Tidy, NEW i \in Inodes, NEW size \in Nat
    PROVE  [st EXCEPT !.inodes[i].size = size] \in Tidy
<1> DEFINE s == [st EXCEPT !.inodes[i].size = size]
<1>1. st \in FsStates /\ st.inodes \in [Inodes -> InodeRecords]
  BY DEF Tidy, FsStates
<1>2. s.inodes \in [Inodes -> InodeRecords]
  BY <1>1 DEF InodeRecords, FsStates
<1>3. s \in FsStates /\ s.bitmap = st.bitmap
  BY <1>1, <1>2 DEF FsStates
<1>4. \A j \in Inodes : s.inodes[j].type = st.inodes[j].type
                        /\ s.inodes[j].block = st.inodes[j].block
  BY <1>1 DEF InodeRecords, FsStates
<1> HIDE DEF s
<1>5. Accounts(s.inodes, s.bitmap)
  BY <1>3, <1>4 DEF Tidy, Accounts
<1> QED BY <1>3, <1>5 DEF Tidy, s

\* The bit goes with the inode that had the block, and no other had it.  An
\* inode that is free already stays so.
LEMMA ReleasedTidy ==
    ASSUME NEW st \in Tidy, NEW i \in Inodes
    PROVE  Released(st, i).final \in Tidy
<1> DEFINE b == st.inodes[i].block
           s1 == mark_block_free(st, b)
           s2 == disk_write_lba(s1, b, ZeroBlock)
           s3 == IF b = 0 THEN st ELSE s2
           s4 == [s3 EXCEPT !.inodes[i] = NoInode]
<1>1. st \in FsStates /\ Accounts(st.inodes, st.bitmap) /\ b \in Blocks
  BY TableTypes DEF Tidy
<1> HIDE DEF b
<1>2. s1 \in FsStates /\ s1.inodes = st.inodes /\ s1.bitmap = st.bitmap \ {b}
  BY <1>1 DEF mark_block_free, FsStates
<1> HIDE DEF s1
<1>3. s2 \in FsStates /\ s2.inodes = st.inodes /\ s2.bitmap = st.bitmap \ {b}
  BY <1>1, <1>2, BlockTypes DEF disk_write_lba, FsStates
<1> HIDE DEF s2
<1>4. s3 \in FsStates /\ s3.inodes = st.inodes /\ s3.bitmap = st.bitmap \ {b}
  BY <1>1, <1>3 DEF Accounts
<1> HIDE DEF s3
<1>5. NoInode \in InodeRecords /\ NoInode.type = "none" /\ NoInode.block = 0
  BY Numbers DEF NoInode, InodeRecords
<1>6. /\ s4 \in FsStates /\ s4.bitmap = st.bitmap \ {b}
      /\ s4.inodes[i] = NoInode /\ \A j \in Inodes \ {i} : s4.inodes[j] = st.inodes[j]
  BY <1>1, <1>4, <1>5 DEF FsStates
<1> HIDE DEF s4
<1>7. Accounts(s4.inodes, s4.bitmap)
  <2>1. \A j \in Inodes : s4.inodes[j].type = "none" <=> s4.inodes[j].block = 0
    BY <1>1, <1>5, <1>6 DEF Accounts
  <2>2. \A j \in Inodes : s4.inodes[j].block # 0 => s4.inodes[j].block \in s4.bitmap
    BY <1>1, <1>5, <1>6 DEF Accounts, b
  <2>3. \A j, k \in Inodes :
            j # k /\ s4.inodes[j].block = s4.inodes[k].block => s4.inodes[j].block = 0
    BY <1>1, <1>5, <1>6 DEF Accounts
  <2>4. \A c \in s4.bitmap : c # 0 /\ \E j \in Inodes : s4.inodes[j].block = c
    BY <1>1, <1>6 DEF Accounts, b
  <2> QED BY <2>1, <2>2, <2>3, <2>4 DEF Accounts
<1>8. Released(st, i).final = s4
  BY DEF Released, s4, s3, s2, s1, b
<1> QED BY <1>6, <1>7, <1>8 DEF Tidy

\* What the two ways to end a call leave.
LEMMA EndsTidy ==
    ASSUME NEW st, NEW cuts
    PROVE  /\ Refuse(st).final = st
           /\ FlushAndReturn(st, cuts).final = Flush(st)
BY DEF Refuse, FlushAndReturn, Outcome

\* The file a path names is an inode, if only inode 0.
LEMMA FileAtType ==
    ASSUME NEW st \in FsStates, NEW path \in PathRecords
    PROVE  FileAt(st, path) \in Inodes
<1> DEFINE d == DirOf(st, path)
           t == load_dir_block(st, d)
           s == find_dir_entry(t, st.inodes, path.name, "file")
<1>1. ASSUME Usable(st, d), s # 0 PROVE t[s].inode \in Inodes
  <2>1. t \in Tables
    BY <1>1, PathTypes, TableTypes
  <2>2. s \in Slots
    <3> HIDE DEF t
    <3> QED BY <1>1, <2>1, Lookups
  <2> QED BY <2>1, <2>2, TableTypes
<1> QED BY <1>1, Numbers DEF FileAt

-----------------------------------------------------------------------------
(* The calls keep a state tidy, whether they succeed or not *)

LEMMA MakeDirTidy ==
    ASSUME NEW st \in Tidy, NEW d \in Inodes, NEW name \in Names
    PROVE  MakeDirIn(st, d, name).final \in Tidy
<1> DEFINE t == load_dir_block(st, d)
           i == alloc_inode_raw(st)
           b == alloc_block_raw(st)
           s1 == Claim(st, i, b, "dir", 0)
           s2 == disk_write_lba(s1, b, ZeroBlock)
           s3 == write_dir_block(s2, d, WithEntry(t, name, i))
<1>1. st \in FsStates /\ t \in Tables
  BY TableTypes DEF Tidy
<1>2. i \in Inodes /\ (b # 0 => b \in Blocks \ st.bitmap)
  BY <1>1, Lookups
<1>3. ASSUME i # 0, b # 0 PROVE Flush(s3) \in Tidy
  <2>1. s1 \in Tidy
    BY <1>3, ClaimTidy
  <2> HIDE DEF t, i, b, s1
  <2>2. s2 \in Tidy
    BY <1>2, <1>3, <2>1, WriteTidy, BlockTypes
  <2> HIDE DEF s2
  <2>3. WithEntry(t, name, i) \in Tables
    BY <1>1, <1>2, EntryTypes
  <2>4. s3 \in Tidy
    BY <2>2, <2>3, WriteDirTidy
  <2> QED BY <2>4, FlushTidy
<1>4. \/ MakeDirIn(st, d, name) = FlushAndReturn(s3, {st, s1, s2}) /\ i # 0 /\ b # 0
      \/ MakeDirIn(st, d, name) = Refuse(st)
  BY DEF MakeDirIn
<1> HIDE DEF i, b, s1, s2, s3
<1> QED BY <1>3, <1>4, EndsTidy

LEMMA MkdirTidy ==
    ASSUME NEW st \in Tidy, NEW path \in PathRecords
    PROVE  fs_mkdir_path(st, path).final \in Tidy
BY MakeDirTidy, EndsTidy, PathTypes DEF fs_mkdir_path, Tidy

LEMMA CreateTidy ==
    ASSUME NEW st \in Tidy, NEW name \in Names \union {NoName}
    PROVE  fs_create(st, name).final \in Tidy
<1> DEFINE t == load_dir_block(st, 0)
           i == alloc_inode_raw(st)
           b == alloc_block_raw(st)
           s1 == Claim(st, i, b, "file", 0)
           s2 == write_dir_block(s1, 0, WithEntry(t, name, i))
<1>1. st \in FsStates /\ t \in Tables
  BY TableTypes, Numbers DEF Tidy
<1>2. i \in Inodes
  BY <1>1, Lookups
<1>3. ASSUME i # 0, b # 0 PROVE Flush(s2) \in Tidy
  <2>1. s1 \in Tidy
    BY <1>3, ClaimTidy
  <2> HIDE DEF t, i, b, s1
  <2>2. WithEntry(t, name, i) \in Tables
    BY <1>1, <1>2, EntryTypes
  <2>3. s2 \in Tidy
    BY <2>1, <2>2, WriteDirTidy, Numbers
  <2> QED BY <2>3, FlushTidy
<1>4. \/ fs_create(st, name) = FlushAndReturn(s2, {st, s1}) /\ i # 0 /\ b # 0
      \/ fs_create(st, name) = Refuse(st)
  BY DEF fs_create
<1> HIDE DEF i, b, s1, s2
<1> QED BY <1>3, <1>4, EndsTidy

LEMMA StoreTidy ==
    ASSUME NEW st \in Tidy, NEW d \in Inodes, NEW name \in Names,
           NEW blk \in BlockRecords, NEW size \in Nat
    PROVE  StoreFile(st, d, name, blk, size).final \in Tidy
<1> DEFINE t == load_dir_block(st, d)
           f == find_dir_entry(t, st.inodes, name, "file")
           new == f = 0
           b == alloc_block_raw(st)
           i == IF new THEN alloc_inode_raw(st) ELSE t[f].inode
           s1 == IF new THEN Claim(st, i, b, "file", size)
                        ELSE [st EXCEPT !.inodes[i].size = size]
           s2 == write_dir_block(s1, d, IF new THEN WithEntry(t, name, i) ELSE t)
           s3 == disk_write_lba(s2, s1.inodes[i].block, blk)
           room == new => free_slot(t) # 0 /\ i # 0 /\ b # 0
<1>1. st \in FsStates /\ t \in Tables
  BY TableTypes DEF Tidy
<1>2. /\ alloc_inode_raw(st) \in Inodes
      /\ f # 0 => f \in Slots
  BY <1>1, Lookups
<1>3. i \in Inodes
  BY <1>1, <1>2, TableTypes
<1>4. ASSUME room PROVE Flush(s3) \in Tidy
  <2>1. s1 \in Tidy
    <3>1. CASE new
      BY <1>4, <3>1, ClaimTidy
    <3>2. CASE ~new
      <4> HIDE DEF t, f, i, b
      <4> QED BY <1>3, <3>2, SizeTidy
    <3> QED BY <3>1, <3>2
  <2> HIDE DEF s1
  <2>2. (IF new THEN WithEntry(t, name, i) ELSE t) \in Tables
    BY <1>1, <1>3, EntryTypes
  <2>3. s2 \in Tidy
    BY <2>1, <2>2, WriteDirTidy
  <2> HIDE DEF s2
  <2>4. s1.inodes[i].block \in Blocks
    BY <1>3, <2>1, TableTypes DEF Tidy
  <2>5. s3 \in Tidy
    BY <2>3, <2>4, WriteTidy
  <2> QED BY <2>5, FlushTidy
<1>5. \/ StoreFile(st, d, name, blk, size) = FlushAndReturn(s3, {st, s1, s2}) /\ room
      \/ StoreFile(st, d, name, blk, size) = Refuse(st)
  BY DEF StoreFile
<1> HIDE DEF room, s1, s2, s3
<1> QED BY <1>4, <1>5, EndsTidy

LEMMA FsWriteTidy ==
    ASSUME NEW st \in Tidy, NEW path \in PathRecords, NEW text \in Contents
    PROVE  fs_write_path(st, path, text).final \in Tidy
<1> DEFINE d == DirOf(st, path)
<1>1. TextBlock(text) \in BlockRecords /\ LengthOf[text] \in Nat
  BY BlockTypes, LayoutAssumption
<1>2. Usable(st, d) => d \in Inodes
  BY PathTypes DEF Tidy
<1>3. path.name # NoName => path.name \in Names
  BY PathTypes DEF Tidy
<1> QED BY <1>1, <1>2, <1>3, EndsTidy, StoreTidy DEF fs_write_path

LEMMA CopyTidy ==
    ASSUME NEW st \in Tidy, NEW src \in PathRecords, NEW dst \in PathRecords
    PROVE  fs_copy_path(st, src, dst).final \in Tidy
<1> DEFINE i == FileAt(st, src)
           to == Into(st, src, dst)
           blk == st.blocks[st.inodes[i].block]
<1>1. st \in FsStates
  BY DEF Tidy
<1>2. i \in Inodes
  BY <1>1, FileAtType
<1>3. blk \in BlockRecords /\ st.inodes[i].size \in Nat
  BY <1>1, <1>2, TableTypes DEF FsStates, InodeRecords
<1>4. /\ Usable(st, to.dir) => to.dir \in Inodes
      /\ to.name # NoName => to.name \in Names
  BY <1>1, PathTypes
<1> HIDE DEF i, to, blk
<1>5. Usable(st, to.dir) /\ to.name # NoName
        => StoreFile(st, to.dir, to.name, blk, st.inodes[i].size).final \in Tidy
  BY <1>3, <1>4, StoreTidy
<1> QED BY <1>5, EndsTidy DEF fs_copy_path, i, to, blk

\* A move changes directories only.
LEMMA RenameTidy ==
    ASSUME NEW st \in Tidy, st \in Rooted, NEW src \in PathRecords, NEW dst \in PathRecords
    PROVE  fs_rename(st, src, dst).final \in Tidy
<1> DEFINE sd == DirOf(st, src)
           ts == load_dir_block(st, sd)
           s == MovedSlot(ts, st.inodes, src.name)
           i == ts[s].inode
           to == IF dst.name = NoName THEN [dir |-> DirOf(st, dst), name |-> src.name]
                                      ELSE Into(st, src, dst)
           td == load_dir_block(st, to.dir)
           renamed == write_dir_block(st, sd, [ts EXCEPT ![s].name = to.name])
           s1 == write_dir_block(st, sd, Unlinked(ts, s))
           s2 == write_dir_block(s1, to.dir, WithEntry(td, to.name, i))
<1>1. st \in FsStates
  BY DEF Tidy
<1>2. fs_rename(st, src, dst).final \in FsStates
  BY RenameOutcome, ReachTypes DEF Outcomes
<1>3. /\ renamed.inodes = st.inodes /\ renamed.bitmap = st.bitmap
      /\ s1.inodes = st.inodes /\ s1.bitmap = st.bitmap
  BY <1>1, WriteDirKeeps
<1>4. ASSUME Usable(st, sd), s # 0
      PROVE  s2.inodes = st.inodes /\ s2.bitmap = st.bitmap
  <2>1. sd \in Inodes
    BY <1>1, <1>4, PathTypes
  <2> HIDE DEF sd
  <2>2. ts \in Tables
    BY <1>1, <2>1, TableTypes
  <2> HIDE DEF ts
  <2>3. Unlinked(ts, s) \in Tables
    BY <2>2, EntryTypes, Numbers
  <2>4. s1 \in FsStates
    BY <2>1, <2>3, WriteDirReach, ReachTypes
  <2> HIDE DEF s1, s, i, to, td
  <2> QED BY <1>3, <2>4, WriteDirKeeps
<1>5. \/ fs_rename(st, src, dst).final = st
      \/ fs_rename(st, src, dst).final = renamed
      \/ Usable(st, sd) /\ s # 0 /\ fs_rename(st, src, dst).final = s2
  BY DEF fs_rename, Outcome, Refuse
<1> HIDE DEF sd, s, renamed, s2
<1>6. /\ fs_rename(st, src, dst).final.inodes = st.inodes
      /\ fs_rename(st, src, dst).final.bitmap = st.bitmap
  BY <1>3, <1>4, <1>5
<1> QED BY <1>2, <1>6 DEF Tidy

LEMMA RemoveTidy ==
    ASSUME NEW st \in Tidy, NEW path \in PathRecords
    PROVE  fs_remove_path(st, path).final \in Tidy
<1>1. st \in FsStates
  BY DEF Tidy
<1>2. ASSUME NEW d \in Inodes, NEW name
      PROVE  remove_entry_from_dir(st, d, name).final \in Tidy
  <2> DEFINE t == load_dir_block(st, d)
             s == find_dir_entry(t, st.inodes, name, "file")
             i == t[s].inode
             freed == Released(st, i)
             s1 == write_dir_block(freed.final, d, Unlinked(t, s))
  <2>1. t \in Tables
    BY <1>1, TableTypes
  <2>2. ASSUME s # 0 PROVE Flush(s1) \in Tidy
    <3> HIDE DEF t
    <3>1. s \in Slots
      BY <1>1, <2>1, <2>2, Lookups
    <3> HIDE DEF s
    <3>2. i \in Inodes
      BY <1>1, <2>1, <3>1, TableTypes
    <3>3. freed.final \in Tidy
      <4> HIDE DEF i
      <4> QED BY <3>2, ReleasedTidy
    <3>4. Unlinked(t, s) \in Tables
      BY <2>1, Numbers, EntryTypes
    <3> HIDE DEF freed
    <3>5. s1 \in Tidy
      BY <3>3, <3>4, WriteDirTidy
    <3> QED BY <3>5, FlushTidy
  <2>3. \/ /\ remove_entry_from_dir(st, d, name)
                 = FlushAndReturn(s1, freed.cuts \union {freed.final})
           /\ s # 0
        \/ remove_entry_from_dir(st, d, name) = Refuse(st)
    BY DEF remove_entry_from_dir
  <2> HIDE DEF s, s1, freed
  <2> QED BY <2>2, <2>3, EndsTidy
<1> QED BY <1>1, <1>2, EndsTidy, PathTypes DEF fs_remove_path

\* write_sys_file may fail after it has claimed an inode and a block: they
\* belong together all the same.
LEMMA SysDirTidy ==
    ASSUME NEW st \in Tidy
    PROVE  SysDir(st).final \in Tidy /\ SysDir(st).dir \in Inodes \union {NoDir}
<1> DEFINE t == load_dir_block(st, 0)
           f == find_dir_entry(t, st.inodes, "sys", "dir")
           i == alloc_inode_raw(st)
           b == alloc_block_raw(st)
           s1 == Claim(st, i, b, "dir", 0)
           s2 == disk_write_lba(s1, b, ZeroBlock)
           s3 == write_dir_block(s2, 0, WithEntry(t, "sys", i))
           same == write_dir_block(st, 0, t)
<1>1. st \in FsStates /\ t \in Tables /\ "sys" \in Names
  BY TableTypes, Numbers DEF Names, Tidy
<1>2. /\ i \in Inodes /\ (b # 0 => b \in Blocks \ st.bitmap)
      /\ f # 0 => f \in Slots
  BY <1>1, Lookups
<1>3. f # 0 => t[f].inode \in Inodes
  BY <1>1, <1>2, TableTypes
<1>4. same \in Tidy
  BY <1>1, WriteDirTidy, Numbers
<1>5. ASSUME i # 0, b # 0 PROVE s1 \in Tidy /\ s3 \in Tidy
  <2>1. s1 \in Tidy
    BY <1>5, ClaimTidy
  <2> HIDE DEF t, i, b, s1
  <2>2. s2 \in Tidy
    BY <1>2, <1>5, <2>1, WriteTidy, BlockTypes
  <2> HIDE DEF s2
  <2>3. WithEntry(t, "sys", i) \in Tables
    BY <1>1, <1>2, EntryTypes
  <2> QED BY <2>1, <2>2, <2>3, WriteDirTidy, Numbers
<1>6. \/ SysDir(st).dir = t[f].inode /\ SysDir(st).final = same /\ f # 0
      \/ SysDir(st).dir = NoDir /\ SysDir(st).final = st
      \/ SysDir(st).dir = NoDir /\ SysDir(st).final = s1 /\ i # 0 /\ b # 0
      \/ SysDir(st).dir = i /\ SysDir(st).final = s3 /\ i # 0 /\ b # 0
  BY DEF SysDir
<1> HIDE DEF t, f, i, b, s1, s2, s3, same
<1> QED BY <1>2, <1>3, <1>4, <1>5, <1>6

LEMMA SysFileTidy ==
    ASSUME NEW st \in Tidy, st \in Rooted, NEW name \in Names, NEW text \in Contents
    PROVE  write_sys_file(st, name, text).final \in Tidy
<1> DEFINE sys == SysDir(st)
           s1 == sys.final
           d == sys.dir
           t == load_dir_block(s1, d)
           f == find_dir_entry(t, s1.inodes, name, "file")
           i == IF f # 0 THEN t[f].inode ELSE alloc_inode_raw(s1)
           b == alloc_block_raw(s1)
           s2 == IF f # 0 THEN [s1 EXCEPT !.inodes[i].size = LengthOf[text]]
                          ELSE Claim(s1, i, b, "file", LengthOf[text])
           s3 == write_dir_block(s2, d, IF f # 0 THEN t ELSE WithEntry(t, name, i))
           s4 == disk_write_lba(s3, s2.inodes[i].block, TextBlock(text))
           goes == ~(d = NoDir \/ (f = 0 /\ (i = 0 \/ b = 0)))
<1>1. s1 \in Tidy /\ d \in Inodes \union {NoDir}
  BY SysDirTidy
<1>2. s1 \in FsStates
  BY <1>1 DEF Tidy
<1> HIDE DEF s1, d
<1>3. ASSUME goes PROVE s2 \in Tidy /\ Flush(s4) \in Tidy
  <2>1. d \in Inodes
    BY <1>1, <1>3
  <2>2. t \in Tables
    BY <1>2, <2>1, TableTypes
  <2>3. /\ alloc_inode_raw(s1) \in Inodes
        /\ f # 0 => f \in Slots
    <3> HIDE DEF t
    <3> QED BY <1>2, <2>2, Lookups
  <2>4. i \in Inodes
    BY <1>2, <2>2, <2>3, TableTypes
  <2>5. LengthOf[text] \in Nat /\ TextBlock(text) \in BlockRecords
    BY BlockTypes, LayoutAssumption
  <2>6. s2 \in Tidy
    <3>1. CASE f # 0
      <4> HIDE DEF t, f, i, b
      <4> QED BY <1>1, <2>4, <2>5, <3>1, SizeTidy
    <3>2. CASE f = 0
      <4>1. i = alloc_inode_raw(s1) /\ i # 0 /\ b # 0
        BY <1>3, <3>2
      <4> HIDE DEF t, f, i
      <4> QED BY <1>1, <2>5, <3>2, <4>1, ClaimTidy
    <3> QED BY <3>1, <3>2
  <2> HIDE DEF s2
  <2>7. (IF f # 0 THEN t ELSE WithEntry(t, name, i)) \in Tables
    BY <2>2, <2>4, EntryTypes
  <2>8. s3 \in Tidy
    BY <2>1, <2>6, <2>7, WriteDirTidy
  <2> HIDE DEF s3
  <2>9. s2.inodes[i].block \in Blocks
    BY <2>4, <2>6, TableTypes DEF Tidy
  <2>10. s4 \in Tidy
    BY <2>5, <2>8, <2>9, WriteTidy
  <2> QED BY <2>6, <2>10, FlushTidy
<1>4. \/ SysFileIn(sys, name, text) = Outcome(FALSE, s1, sys.cuts)
      \/ SysFileIn(sys, name, text) = Outcome(FALSE, s2, sys.cuts \union {s2}) /\ goes
      \/ SysFileIn(sys, name, text)
            = FlushAndReturn(s4, sys.cuts \union {s2, s3}) /\ goes
  BY DEF SysFileIn, s1, d
<1> HIDE DEF sys, t, f, i, b, s2, s3, s4, goes
<1>5. \/ SysFileIn(sys, name, text).final = s1
      \/ SysFileIn(sys, name, text).final = s2 /\ goes
      \/ SysFileIn(sys, name, text).final = Flush(s4) /\ goes
  BY <1>4 DEF Outcome, FlushAndReturn
<1> QED BY <1>1, <1>3, <1>5, SysFileRooted DEF sys

LEMMA PasswdTidy ==
    ASSUME NEW st \in Tidy, st \in Rooted, NEW hash \in Hashes
    PROVE  fs_write_passwd(st, hash).final \in Tidy
BY SysFileTidy DEF fs_write_passwd, Names, Contents

-----------------------------------------------------------------------------
(* A format fills an empty disk                                            *)
(*                                                                         *)
(* While it does, the first n inodes are in use, inode i with block i + 1. *)

Filled(st, n) ==
    /\ st \in FsStates /\ st.sb /\ st.dsb
    /\ st.bitmap = 1 .. n
    /\ \A i \in Inodes : i < n => st.inodes[i].type # "none" /\ st.inodes[i].block = i + 1
    /\ \A i \in Inodes : ~(i < n) => st.inodes[i].type = "none" /\ st.inodes[i].block = 0

\* s is st but for blocks and for the disk's tables.
SameTables(st, s) ==
    /\ s \in FsStates /\ s.sb = st.sb /\ s.dsb = st.dsb
    /\ s.inodes = st.inodes /\ s.bitmap = st.bitmap

LEMMA FilledTidy ==
    ASSUME NEW st, NEW n \in Nat, n <= NumInodes, Filled(st, n)
    PROVE  st \in Tidy
<1>1. \A i \in Inodes : i \in Nat
  BY Numbers
<1>2. \A i, j \in Inodes : i # j /\ st.inodes[i].block = st.inodes[j].block
                             => st.inodes[i].block = 0
  BY <1>1 DEF Filled
<1>3. ASSUME NEW b \in st.bitmap PROVE b # 0 /\ \E i \in Inodes : st.inodes[i].block = b
  <2>1. b \in 1 .. n /\ b - 1 \in Inodes /\ b - 1 < n
    BY <1>3, LayoutAssumption DEF Filled, Inodes
  <2>2. st.inodes[b - 1].block = b - 1 + 1
    BY <2>1 DEF Filled
  <2> QED BY <2>1, <2>2
<1>4. \A i \in Inodes : st.inodes[i].type = "none" <=> st.inodes[i].block = 0
  BY <1>1 DEF Filled
<1>5. \A i \in Inodes : st.inodes[i].block # 0 => st.inodes[i].block \in st.bitmap
  BY <1>1 DEF Filled
<1> QED BY <1>2, <1>3, <1>4, <1>5 DEF Tidy, Accounts, Filled

LEMMA FirstIs ==
    ASSUME NEW S \in SUBSET Nat, NEW x \in S, \A y \in S : x <= y
    PROVE  FirstOf(S) = x
<1>1. Min(S) \in S /\ Min(S) <= x
  BY MinOf
<1>2. Min(S) \in Nat /\ x \in Nat /\ x <= Min(S)
  BY <1>1
<1>3. Min(S) = x
  BY <1>1, <1>2
<1> QED BY <1>3 DEF FirstOf

\* The allocators go from one to the next.
LEMMA NextFree ==
    ASSUME NEW st, NEW n \in 1 .. 3, Filled(st, n)
    PROVE  /\ alloc_inode_raw(st) = n /\ n \in Inodes \ {0}
           /\ alloc_block_raw(st) = n + 1 /\ n + 1 \in Blocks \ st.bitmap
<1> DEFINE I == {i \in Inodes \ {0} : st.inodes[i].type = "none"}
           B == Blocks \ ({0} \union st.bitmap)
<1>1. n \in Inodes /\ n + 1 \in Blocks /\ n # 0
  BY LayoutAssumption DEF Inodes, Blocks
<1>2. I \in SUBSET Nat /\ n \in I /\ \A i \in I : n <= i
  <2>1. n \in I
    BY <1>1 DEF Filled
  <2>2. ASSUME NEW i \in I PROVE i \in Nat /\ n <= i
    <3>1. i \in Inodes /\ i \in Nat /\ st.inodes[i].type = "none"
      BY Numbers
    <3>2. ~(i < n)
      BY <3>1 DEF Filled
    <3> QED BY <3>1, <3>2
  <2> QED BY <2>1, <2>2
<1>3. B \in SUBSET Nat /\ n + 1 \in B /\ \A b \in B : n + 1 <= b
  BY <1>1, Numbers DEF Filled
<1> HIDE DEF I, B
<1>4. FirstOf(I) = n /\ FirstOf(B) = n + 1
  BY <1>2, <1>3, FirstIs
<1>5. n + 1 \notin st.bitmap
  BY DEF Filled
<1> QED BY <1>1, <1>4, <1>5 DEF alloc_inode_raw, alloc_block_raw, I, B

LEMMA ClaimFills ==
    ASSUME NEW st, NEW n \in 1 .. 3, Filled(st, n),
           NEW type \in {"file", "dir"}, NEW size \in Nat,
           NEW s, s = Claim(st, n, n + 1, type, size)
    PROVE  /\ Filled(s, n + 1) /\ s.blocks = st.blocks
           /\ s.inodes[n] = [type |-> type, size |-> size, block |-> n + 1]
           /\ \A i \in Inodes \ {n} : s.inodes[i] = st.inodes[i]
<1> DEFINE r == [type |-> type, size |-> size, block |-> n + 1]
<1>1. n \in Inodes \ {0} /\ n + 1 \in Blocks
  BY NextFree
<1>2. r \in InodeRecords /\ r.type # "none" /\ r.block = n + 1
  BY <1>1 DEF InodeRecords
<1>3. st \in FsStates /\ st.sb /\ st.dsb /\ st.bitmap = 1 .. n
  BY DEF Filled
<1>4. s = [st EXCEPT !.bitmap = @ \union {n + 1}, !.inodes[n] = r]
  BY <1>3 DEF Claim, mark_block_used, FsStates
<1> HIDE DEF r
<1>5. /\ s \in FsStates /\ s.sb /\ s.dsb /\ s.blocks = st.blocks
      /\ s.bitmap = (1 .. n) \union {n + 1}
      /\ s.inodes[n] = r /\ \A i \in Inodes \ {n} : s.inodes[i] = st.inodes[i]
  <2> DEFINE bits == st.bitmap \union {n + 1}
             table == [st.inodes EXCEPT ![n] = r]
  <2>1. s = [st EXCEPT !.bitmap = bits, !.inodes = table]
    BY <1>4
  <2>2. bits \in SUBSET Blocks /\ bits = (1 .. n) \union {n + 1}
    BY <1>1, <1>3 DEF FsStates
  <2>3. /\ table \in [Inodes -> InodeRecords]
        /\ table[n] = r /\ \A i \in Inodes \ {n} : table[i] = st.inodes[i]
    BY <1>1, <1>2, <1>3 DEF FsStates
  <2> HIDE DEF bits, table
  <2>4. /\ s \in FsStates /\ s.sb /\ s.dsb /\ s.blocks = st.blocks
        /\ s.bitmap = bits /\ s.inodes = table
    BY <1>3, <2>1, <2>2, <2>3 DEF FsStates
  <2> QED BY <2>2, <2>3, <2>4
<1>6. s.bitmap = 1 .. n + 1
  <2>1. n \in Nat \ {0}
    OBVIOUS
  <2>2. (1 .. n) \union {n + 1} = 1 .. n + 1
    BY <2>1
  <2> QED BY <1>5, <2>2
<1>7. ASSUME NEW i \in Inodes
      PROVE  /\ i < n + 1 => s.inodes[i].type # "none" /\ s.inodes[i].block = i + 1
             /\ ~(i < n + 1) => s.inodes[i].type = "none" /\ s.inodes[i].block = 0
  <2>1. i \in Nat
    BY Numbers
  <2>2. CASE i = n
    BY <1>2, <1>5, <2>2
  <2>3. CASE i # n
    <3>1. i < n + 1 <=> i < n
      BY <2>1, <2>3
    <3> QED BY <1>5, <2>3, <3>1 DEF Filled
  <2> QED BY <2>2, <2>3
<1> QED BY <1>5, <1>6, <1>7 DEF Filled, r

LEMMA SameFills ==
    ASSUME NEW st, NEW n, Filled(st, n), NEW s, SameTables(st, s)
    PROVE  Filled(s, n)
BY DEF Filled, SameTables

\* What writes and flushes do to the blocks.
LEMMA WriteGives ==
    ASSUME NEW st \in FsStates, st.sb, NEW b \in Blocks, NEW blk \in BlockRecords,
           NEW s, s = disk_write_lba(st, b, blk)
    PROVE  /\ SameTables(st, s)
           /\ s.blocks[b] = blk /\ \A c \in Blocks \ {b} : s.blocks[c] = st.blocks[c]
BY DEF disk_write_lba, SameTables, FsStates

LEMMA WriteDirGives ==
    ASSUME NEW st \in FsStates, st.sb, NEW d \in Inodes, NEW t \in Tables,
           NEW s, s = write_dir_block(st, d, t)
    PROVE  /\ SameTables(st, s)
           /\ s.blocks[st.inodes[d].block].table = t
           /\ \A c \in Blocks \ {st.inodes[d].block} : s.blocks[c] = st.blocks[c]
<1> DEFINE b == st.inodes[d].block
           blk == IF st.blocks[b].table = t THEN st.blocks[b] ELSE DirBlock(t)
<1>1. b \in Blocks
  BY TableTypes
<1>2. blk \in BlockRecords /\ blk.table = t
  BY <1>1, BlockTypes DEF FsStates, DirBlock
<1>3. s = disk_write_lba(st, b, blk)
  BY DEF write_dir_block
<1> HIDE DEF blk
<1>4. /\ SameTables(st, s)
      /\ s.blocks[b] = blk /\ \A c \in Blocks \ {b} : s.blocks[c] = st.blocks[c]
  BY <1>1, <1>2, <1>3, WriteGives
<1> QED BY <1>2, <1>4

LEMMA FlushGives ==
    ASSUME NEW st \in FsStates, st.sb
    PROVE  SameTables(st, Flush(st)) /\ Flush(st).blocks = st.blocks
BY DEF Flush, flush_bitmap, flush_inodes, SameTables, FsStates

\* The lookups in a table whose entries are known.
LEMMA NotThere ==
    ASSUME NEW t, NEW inodes, NEW name, NEW type, \A s \in Slots : t[s].name # name
    PROVE  find_dir_entry(t, inodes, name, type) = 0
<1>1. {s \in Slots : /\ t[s].name # NoName
                     /\ t[s].name = name
                     /\ inodes[t[s].inode].type = type} = {}
  OBVIOUS
<1> QED BY <1>1 DEF find_dir_entry, FirstOf

LEMMA FoundAt ==
    ASSUME NEW t, NEW inodes, NEW name, NEW type, NEW k \in Slots,
           name # NoName, t[k].name = name, inodes[t[k].inode].type = type,
           \A s \in Slots \ {k} : t[s].name # name
    PROVE  find_dir_entry(t, inodes, name, type) = k
<1> DEFINE F == {s \in Slots : /\ t[s].name # NoName
                               /\ t[s].name = name
                               /\ inodes[t[s].inode].type = type}
<1>1. F = {k}
  OBVIOUS
<1>2. k \in Nat /\ k <= k
  BY Numbers
<1> HIDE DEF F
<1>3. FirstOf(F) = k
  BY <1>1, <1>2, FirstIs
<1> QED BY <1>3 DEF find_dir_entry, F

LEMMA SlotAt ==
    ASSUME NEW t, NEW k \in Slots, t[k].name = NoName,
           \A s \in Slots : s < k => t[s].name # NoName
    PROVE  free_slot(t) = k
<1> DEFINE G == {s \in Slots : t[s].name = NoName}
<1>1. G \in SUBSET Nat /\ k \in G
  BY Numbers
<1>2. ASSUME NEW s \in G PROVE k <= s
  <2>1. s \in Nat /\ k \in Nat /\ ~(s < k)
    BY Numbers
  <2> QED BY <2>1
<1> HIDE DEF G
<1>3. FirstOf(G) = k
  BY <1>1, <1>2, FirstIs
<1> QED BY <1>3 DEF free_slot, G

-----------------------------------------------------------------------------
(* What fs_format writes *)

SysTable == [EmptyTable EXCEPT ![1] = [name |-> "sys", inode |-> 1]]
StatusTable == [EmptyTable EXCEPT ![1] = [name |-> "status", inode |-> 2]]
PasswdTable == [StatusTable EXCEPT ![2] = [name |-> "passwd", inode |-> 3]]

LEMMA SysTables ==
    /\ 1 \in Slots /\ 2 \in Slots
    /\ SysTable \in Tables /\ StatusTable \in Tables /\ PasswdTable \in Tables
    /\ \A s \in Slots : EmptyTable[s] = NoEntry
    /\ SysTable[1] = [name |-> "sys", inode |-> 1]
    /\ \A s \in Slots \ {1} : SysTable[s] = NoEntry
    /\ StatusTable[1] = [name |-> "status", inode |-> 2]
    /\ \A s \in Slots \ {1} : StatusTable[s] = NoEntry
    /\ PasswdTable[1] = [name |-> "status", inode |-> 2]
    /\ PasswdTable[2] = [name |-> "passwd", inode |-> 3]
    /\ \A s \in Slots \ {1, 2} : PasswdTable[s] = NoEntry
    /\ NoEntry.name = NoName
<1>1. 1 \in Slots /\ 2 \in Slots
  BY LayoutAssumption DEF Slots
<1>2. 1 \in Inodes /\ 2 \in Inodes /\ 3 \in Inodes
  BY LayoutAssumption DEF Inodes
<1>3. "sys" \in Names /\ "status" \in Names /\ "passwd" \in Names
  BY DEF Names
<1>4. /\ [name |-> "sys", inode |-> 1] \in Entries
      /\ [name |-> "status", inode |-> 2] \in Entries
      /\ [name |-> "passwd", inode |-> 3] \in Entries
  BY <1>2, <1>3 DEF Entries
<1>5. EmptyTable \in Tables /\ \A s \in Slots : EmptyTable[s] = NoEntry
  BY BlockTypes DEF EmptyTable
<1>6. /\ SysTable \in Tables
      /\ SysTable[1] = [name |-> "sys", inode |-> 1]
      /\ \A s \in Slots \ {1} : SysTable[s] = NoEntry
  BY <1>1, <1>4, <1>5 DEF SysTable, Tables
<1>7. /\ StatusTable \in Tables
      /\ StatusTable[1] = [name |-> "status", inode |-> 2]
      /\ \A s \in Slots \ {1} : StatusTable[s] = NoEntry
  BY <1>1, <1>4, <1>5 DEF StatusTable, Tables
<1>8. /\ PasswdTable \in Tables
      /\ PasswdTable[2] = [name |-> "passwd", inode |-> 3]
      /\ \A s \in Slots \ {2} : PasswdTable[s] = StatusTable[s]
  BY <1>1, <1>4, <1>7 DEF PasswdTable, Tables
<1>9. NoEntry.name = NoName
  BY DEF NoEntry
<1> QED BY <1>1, <1>5, <1>6, <1>7, <1>8, <1>9

\* The directory sys is made in an empty root.
LEMMA SysDirMakes ==
    ASSUME NEW st, Filled(st, 1), st.blocks[1].table = EmptyTable,
           NEW sys, sys = SysDir(st)
    PROVE  /\ sys.dir = 1
           /\ Filled(sys.final, 2)
           /\ sys.final.inodes[0] = st.inodes[0] /\ sys.final.inodes[1].type = "dir"
           /\ sys.final.blocks[1].table = SysTable
           /\ sys.final.blocks[2].table = EmptyTable
<1> DEFINE t == load_dir_block(st, 0)
           f == find_dir_entry(t, st.inodes, "sys", "dir")
           i == alloc_inode_raw(st)
           b == alloc_block_raw(st)
           s1 == Claim(st, i, b, "dir", 0)
           s2 == disk_write_lba(s1, b, ZeroBlock)
           s3 == write_dir_block(s2, 0, WithEntry(t, "sys", i))
<1>1. i = 1 /\ b = 2 /\ 1 \in Inodes /\ 2 \in Blocks
  BY NextFree
<1>2. t = EmptyTable
  BY Numbers DEF load_dir_block, Filled
<1>3. f = 0 /\ free_slot(t) = 1
  <2> HIDE DEF t
  <2>1. \A s \in Slots : t[s].name # "sys"
    BY <1>2, SysTables DEF NoName
  <2>2. t[1].name = NoName /\ \A s \in Slots : ~(s < 1)
    <3>1. \A s \in Slots : s \in Nat \ {0}
      BY Numbers
    <3> QED BY <1>2, <3>1, SysTables
  <2> QED BY <2>1, <2>2, NotThere, SlotAt, SysTables
<1>4. WithEntry(t, "sys", i) = SysTable
  BY <1>1, <1>2, <1>3 DEF WithEntry, SysTable
<1> HIDE DEF t, f, i, b
<1>5. /\ Filled(s1, 2) /\ s1.blocks = st.blocks
      /\ s1.inodes[1].type = "dir" /\ s1.inodes[0] = st.inodes[0]
  <2>1. s1 = Claim(st, 1, 1 + 1, "dir", 0)
    BY <1>1
  <2> HIDE DEF s1
  <2>2. /\ Filled(s1, 1 + 1) /\ s1.blocks = st.blocks
        /\ s1.inodes[1] = [type |-> "dir", size |-> 0, block |-> 1 + 1]
        /\ \A j \in Inodes \ {1} : s1.inodes[j] = st.inodes[j]
    BY <2>1, ClaimFills
  <2>3. 1 + 1 = 2
    OBVIOUS
  <2>4. Filled(s1, 2)
    BY <2>2, <2>3
  <2> QED BY <2>2, <2>4, Numbers
<1> HIDE DEF s1
<1>6. /\ SameTables(s1, s2) /\ s2.blocks[2] = ZeroBlock
      /\ \A c \in Blocks \ {2} : s2.blocks[c] = s1.blocks[c]
  BY <1>1, <1>5, WriteGives, BlockTypes DEF Filled
<1> HIDE DEF s2
<1>7. Filled(s2, 2)
  BY <1>5, <1>6, SameFills
<1>8. s2.inodes[0].block = 1 /\ s2 \in FsStates /\ s2.sb
  BY <1>7, Numbers DEF Filled
<1>9. /\ SameTables(s2, s3) /\ s3.blocks[1].table = SysTable
      /\ s3.blocks[2] = s2.blocks[2]
  BY <1>1, <1>4, <1>8, WriteDirGives, SysTables, Numbers
<1>10. sys.dir = i /\ sys.final = s3
  BY <1>1, <1>3 DEF SysDir, s3, s2, s1, t, f, i, b
<1> HIDE DEF s3
<1>11. Filled(s3, 2) /\ s3.inodes = s1.inodes
  BY <1>6, <1>7, <1>9, SameFills DEF SameTables
<1>12. ZeroBlock.table = EmptyTable
  BY DecodedAssumption DEF ZeroBlock, TextBlock
<1> QED BY <1>1, <1>5, <1>6, <1>9, <1>10, <1>11, <1>12

\* The second time it is there, and writing it back changes nothing.
LEMMA SysDirFinds ==
    ASSUME NEW st, NEW n \in {2, 3}, Filled(st, n),
           st.blocks[1].table = SysTable, st.inodes[1].type = "dir",
           NEW sys, sys = SysDir(st)
    PROVE  sys.dir = 1 /\ sys.final = st
<1> DEFINE t == load_dir_block(st, 0)
           f == find_dir_entry(t, st.inodes, "sys", "dir")
           same == write_dir_block(st, 0, t)
<1>1. st \in FsStates /\ st.sb /\ st.inodes[0].block = 1
  BY Numbers DEF Filled
<1>2. t = SysTable
  BY <1>1 DEF load_dir_block
<1>3. f = 1
  <2> HIDE DEF t
  <2>1. t[1].name = "sys" /\ t[1].inode = 1
    BY <1>2, SysTables
  <2>2. \A s \in Slots \ {1} : t[s].name # "sys"
    BY <1>2, SysTables DEF NoName
  <2>3. "sys" # NoName
    BY DEF NoName
  <2>4. st.inodes[t[1].inode].type = "dir"
    BY <2>1
  <2>5. 1 \in Slots
    BY SysTables
  <2>6. find_dir_entry(t, st.inodes, "sys", "dir") = 1
    <3> DEFINE inodes == st.inodes
    <3>1. inodes[t[1].inode].type = "dir"
      BY <2>4
    <3> HIDE DEF inodes
    <3>2. find_dir_entry(t, inodes, "sys", "dir") = 1
      BY <2>1, <2>2, <2>3, <2>5, <3>1, FoundAt
    <3> QED BY <3>2 DEF inodes
  <2> QED BY <2>6
<1>4. same = st
  <2>1. same = disk_write_lba(st, 1, st.blocks[1])
    BY <1>1, <1>2 DEF write_dir_block
  <2>2. disk_write_lba(st, 1, st.blocks[1]) = st
    BY <1>1, Numbers DEF disk_write_lba, FsStates
  <2> QED BY <2>1, <2>2
<1>5. sys.dir = t[f].inode /\ sys.final = same
  BY <1>3 DEF SysDir, t, f, same
<1>6. t[1].inode = 1
  BY <1>2, SysTables
<1> QED BY <1>3, <1>4, <1>5, <1>6

\* sys has no file of that name, slot k of its table is the first free one, and
\* inode n the next.
HasRoom(sys, n, name, text, t, k) ==
    /\ sys.dir = 1 /\ n \in {2, 3} /\ Filled(sys.final, n)
    /\ name \in Names /\ text \in Contents
    /\ t \in Tables /\ sys.final.blocks[2].table = t
    /\ \A s \in Slots : t[s].name # name
    /\ k \in Slots /\ t[k].name = NoName /\ \A s \in Slots : s < k => t[s].name # NoName

FileMade(sys, r, n, name, text, t, k) ==
    /\ r = Outcome(TRUE, r.final, r.cuts)
    /\ Filled(r.final, n + 1)
    /\ r.final.inodes[n] = [type |-> "file", size |-> LengthOf[text], block |-> n + 1]
    /\ \A i \in Inodes \ {n} : r.final.inodes[i] = sys.final.inodes[i]
    /\ r.final.blocks[2].table = [t EXCEPT ![k] = [name |-> name, inode |-> n]]
    /\ r.final.blocks[n + 1] = TextBlock(text)
    /\ \A c \in Blocks \ {2, n + 1} : r.final.blocks[c] = sys.final.blocks[c]

\* A file is made in it, in the first slot that is free.
LEMMA SysFileMakes ==
    ASSUME NEW sys, NEW n, NEW name, NEW text, NEW t, NEW k,
           HasRoom(sys, n, name, text, t, k)
    PROVE  FileMade(sys, SysFileIn(sys, name, text), n, name, text, t, k)
<1> DEFINE r == SysFileIn(sys, name, text)
<1>0. /\ sys.dir = 1 /\ n \in {2, 3} /\ Filled(sys.final, n)
      /\ name \in Names /\ text \in Contents
      /\ t \in Tables /\ sys.final.blocks[2].table = t
      /\ \A s \in Slots : t[s].name # name
      /\ k \in Slots /\ t[k].name = NoName /\ \A s \in Slots : s < k => t[s].name # NoName
  BY DEF HasRoom
<1> DEFINE s1 == sys.final
           tt == load_dir_block(s1, 1)
           f == find_dir_entry(tt, s1.inodes, name, "file")
           i == alloc_inode_raw(s1)
           b == alloc_block_raw(s1)
           s2 == Claim(s1, i, b, "file", LengthOf[text])
           s3 == write_dir_block(s2, 1, WithEntry(tt, name, i))
           s4 == disk_write_lba(s3, s2.inodes[i].block, TextBlock(text))
<1>1. n \in 1 .. 3 /\ n # 0 /\ n + 1 # 0 /\ n # 1 /\ n + 1 # 2 /\ 1 < n
  BY <1>0
<1>2. i = n /\ b = n + 1 /\ n \in Inodes \ {0} /\ n + 1 \in Blocks
  BY <1>0, <1>1, NextFree
<1>3. 1 \in Inodes /\ 2 \in Blocks /\ 1 # NoDir
  BY LayoutAssumption DEF Inodes, Blocks, NoDir
<1>4. s1 \in FsStates /\ s1.sb /\ s1.inodes[1].block = 2
  <2>1. s1.inodes[1].block = 1 + 1
    BY <1>0, <1>1, <1>3 DEF Filled
  <2> QED BY <1>0, <2>1 DEF Filled
<1>5. tt = t
  BY <1>0, <1>4 DEF load_dir_block
<1>6. f = 0 /\ free_slot(tt) = k
  <2>1. f = 0
    BY <1>0, <1>5, NotThere
  <2>2. free_slot(t) = k
    BY <1>0, SlotAt
  <2> QED BY <1>5, <2>1, <2>2
<1>7. WithEntry(tt, name, i) = [t EXCEPT ![k] = [name |-> name, inode |-> n]]
  BY <1>2, <1>5, <1>6 DEF WithEntry
<1>8. r = FlushAndReturn(s4, sys.cuts \union {s2, s3})
  <2>1. i # 0 /\ b # 0 /\ free_slot(tt) # 0
    BY <1>0, <1>1, <1>2, <1>6, Numbers
  <2> QED BY <1>0, <1>3, <1>6, <2>1 DEF SysFileIn, r
<1>9. WithEntry(tt, name, i) \in Tables
  BY <1>0, <1>2, <1>5, EntryTypes
<1> HIDE DEF r, tt, f, i, b
<1>10. /\ Filled(s2, n + 1) /\ s2.blocks = s1.blocks
       /\ s2.inodes[n] = [type |-> "file", size |-> LengthOf[text], block |-> n + 1]
       /\ \A j \in Inodes \ {n} : s2.inodes[j] = s1.inodes[j]
  <2>1. LengthOf[text] \in Nat
    BY <1>0, LayoutAssumption
  <2>2. s2 = Claim(s1, n, n + 1, "file", LengthOf[text])
    BY <1>2
  <2> HIDE DEF s1, s2
  <2> QED BY <1>0, <1>1, <2>1, <2>2, ClaimFills DEF s1
<1> HIDE DEF s2
<1>11. s2 \in FsStates /\ s2.sb /\ s2.inodes[1].block = 2
  BY <1>0, <1>1, <1>3, <1>4, <1>10 DEF Filled
<1>12. /\ SameTables(s2, s3)
       /\ s3.blocks[2].table = WithEntry(tt, name, i)
       /\ \A c \in Blocks \ {2} : s3.blocks[c] = s2.blocks[c]
  BY <1>3, <1>9, <1>11, WriteDirGives
<1> HIDE DEF s3
<1>13. Filled(s3, n + 1) /\ s3 \in FsStates /\ s3.sb
  BY <1>10, <1>12, SameFills DEF Filled
<1>14. s2.inodes[i].block = n + 1
  BY <1>2, <1>10
<1>15. /\ SameTables(s3, s4) /\ s4.blocks[n + 1] = TextBlock(text)
       /\ \A c \in Blocks \ {n + 1} : s4.blocks[c] = s3.blocks[c]
  BY <1>0, <1>2, <1>13, <1>14, WriteGives, BlockTypes
<1> HIDE DEF s4
<1>16. Filled(s4, n + 1) /\ s4 \in FsStates /\ s4.sb
  BY <1>13, <1>15, SameFills DEF Filled
<1>17. SameTables(s4, Flush(s4)) /\ Flush(s4).blocks = s4.blocks
  BY <1>16, FlushGives
<1>18. Filled(Flush(s4), n + 1) /\ Flush(s4).inodes = s2.inodes
  BY <1>12, <1>15, <1>16, <1>17, SameFills DEF SameTables
<1>19. r = Outcome(TRUE, r.final, r.cuts) /\ r.final = Flush(s4)
  BY <1>8 DEF FlushAndReturn, Outcome
<1>20. s4.blocks[2] = s3.blocks[2]
  BY <1>1, <1>3, <1>15
<1>21. \A c \in Blocks \ {2, n + 1} : s4.blocks[c] = s1.blocks[c]
  BY <1>10, <1>12, <1>15
<1>22. FileMade(sys, r, n, name, text, t, k)
  <2>1. r = Outcome(TRUE, r.final, r.cuts)
    BY <1>19
  <2>2. Filled(r.final, n + 1) /\ r.final.inodes = s2.inodes /\ r.final.blocks = s4.blocks
    BY <1>17, <1>18, <1>19
  <2>3. r.final.inodes[n] = [type |-> "file", size |-> LengthOf[text], block |-> n + 1]
    BY <1>10, <2>2
  <2>4. \A j \in Inodes \ {n} : r.final.inodes[j] = sys.final.inodes[j]
    BY <1>10, <2>2
  <2>5. r.final.blocks[2].table = [t EXCEPT ![k] = [name |-> name, inode |-> n]]
    BY <1>7, <1>12, <1>20, <2>2
  <2>6. r.final.blocks[n + 1] = TextBlock(text)
    BY <1>15, <2>2
  <2>7. \A c \in Blocks \ {2, n + 1} : r.final.blocks[c] = sys.final.blocks[c]
    BY <1>21, <2>2
  <2> QED BY <2>1, <2>2, <2>3, <2>4, <2>5, <2>6, <2>7 DEF FileMade
<1> QED BY <1>22 DEF r

\* What the disk holds after a format: the root, sys, status and passwd.
FreshDisk(st) ==
    /\ Filled(st, 4)
    /\ st.inodes[0].type = "dir" /\ st.inodes[1].type = "dir"
    /\ st.inodes[2] = [type |-> "file", size |-> LengthOf[StatusFlag], block |-> 3]
    /\ st.inodes[3] = [type |-> "file", size |-> LengthOf[DefaultHash], block |-> 4]
    /\ st.blocks[1].table = SysTable /\ st.blocks[2].table = PasswdTable
    /\ st.blocks[3] = TextBlock(StatusFlag) /\ st.blocks[4] = TextBlock(DefaultHash)

\* The two files, once the root is there.
LEMMA SysFilesMade ==
    ASSUME NEW st, Filled(st, 1), st.inodes[0].type = "dir", st.blocks[1].table = EmptyTable,
           NEW status, status = write_sys_file(st, "status", StatusFlag),
           NEW passwd, passwd = write_sys_file(status.final, "passwd", DefaultHash)
    PROVE  /\ status = Outcome(TRUE, status.final, status.cuts)
           /\ passwd = Outcome(TRUE, passwd.final, passwd.cuts)
           /\ FreshDisk(passwd.final)
<1> DEFINE sys == SysDir(st)
           u == status.final
           found == SysDir(u)
           v == passwd.final
<1>1. /\ sys.dir = 1 /\ Filled(sys.final, 2)
      /\ sys.final.inodes[0] = st.inodes[0] /\ sys.final.inodes[1].type = "dir"
      /\ sys.final.blocks[1].table = SysTable
      /\ sys.final.blocks[2].table = EmptyTable
  BY SysDirMakes
<1>2. /\ "status" \in Names /\ "passwd" \in Names
      /\ StatusFlag \in Contents /\ DefaultHash \in Contents
  BY LayoutAssumption DEF Names, Contents
<1>3. status = SysFileIn(sys, "status", StatusFlag)
  <2>1. 0 \in Inodes /\ 0 < 1 /\ 0 + 1 # 0
    BY Numbers
  <2>2. st.inodes[0].type = "dir" /\ st.inodes[0].block # 0
    BY <2>1 DEF Filled
  <2>3. status = SysFileIn(sys, "status", StatusFlag)
    BY <2>2, SysFileIs
  <2> QED BY <2>3
<1>4. /\ 0 \in Inodes \ {2, 3} /\ 1 \in Inodes \ {2, 3} /\ 2 \in Inodes \ {3}
      /\ 1 \in Blocks \ {2, 3, 4} /\ 3 \in Blocks \ {2, 4} /\ 2 \in Blocks
  BY LayoutAssumption DEF Inodes, Blocks
<1> HIDE DEF sys, u, found, v
<1>5. /\ status = Outcome(TRUE, status.final, status.cuts) /\ Filled(u, 3)
      /\ u.inodes[2] = [type |-> "file", size |-> LengthOf[StatusFlag], block |-> 3]
      /\ \A i \in Inodes \ {2} : u.inodes[i] = sys.final.inodes[i]
      /\ u.blocks[2].table = StatusTable
      /\ u.blocks[3] = TextBlock(StatusFlag)
      /\ \A c \in Blocks \ {2, 3} : u.blocks[c] = sys.final.blocks[c]
  <2>1. /\ EmptyTable \in Tables /\ 1 \in Slots /\ EmptyTable[1].name = NoName
        /\ \A s \in Slots : EmptyTable[s].name # "status"
    BY SysTables, BlockTypes DEF NoName
  <2>2. \A s \in Slots : s < 1 => EmptyTable[s].name # NoName
    BY Numbers
  <2>3. 2 \in {2, 3} /\ 2 + 1 = 3
    OBVIOUS
  <2>4. HasRoom(sys, 2, "status", StatusFlag, EmptyTable, 1)
    BY <1>1, <1>2, <2>1, <2>2 DEF HasRoom
  <2>5. FileMade(sys, status, 2, "status", StatusFlag, EmptyTable, 1)
    BY <1>3, <2>4, SysFileMakes
  <2> QED BY <2>3, <2>5 DEF FileMade, u, StatusTable
<1>6. /\ u.inodes[0].type = "dir" /\ u.inodes[1].type = "dir" /\ u.blocks[1].table = SysTable
  BY <1>1, <1>4, <1>5
<1>7. passwd = SysFileIn(found, "passwd", DefaultHash)
  <2>1. 0 \in Inodes /\ 0 < 3 /\ 0 + 1 # 0
    BY Numbers
  <2>2. u.inodes[0].block # 0
    BY <1>5, <2>1 DEF Filled
  <2> QED BY <1>6, <2>2, SysFileIs DEF u, found
<1>8. found.dir = 1 /\ found.final = u
  <2>1. 3 \in {2, 3}
    OBVIOUS
  <2> QED BY <1>5, <1>6, <2>1, SysDirFinds DEF found
<1>9. /\ passwd = Outcome(TRUE, passwd.final, passwd.cuts) /\ Filled(v, 4)
      /\ v.inodes[3] = [type |-> "file", size |-> LengthOf[DefaultHash], block |-> 4]
      /\ \A i \in Inodes \ {3} : v.inodes[i] = u.inodes[i]
      /\ v.blocks[2].table = PasswdTable
      /\ v.blocks[4] = TextBlock(DefaultHash)
      /\ \A c \in Blocks \ {2, 4} : v.blocks[c] = u.blocks[c]
  <2>1. /\ StatusTable \in Tables /\ 2 \in Slots /\ StatusTable[2].name = NoName
        /\ StatusTable[1].name = "status"
        /\ \A s \in Slots : StatusTable[s].name # "passwd"
    <3>1. \A s \in Slots \ {1} : StatusTable[s].name = NoName
      BY SysTables
    <3>2. StatusTable[1].name = "status"
      BY SysTables
    <3>3. \A s \in Slots : StatusTable[s].name # "passwd"
      BY <3>1, <3>2 DEF NoName
    <3> QED BY <3>1, <3>2, <3>3, SysTables
  <2>2. \A s \in Slots : s < 2 => StatusTable[s].name # NoName
    <3>1. \A s \in Slots : s < 2 => s = 1
      BY Numbers
    <3> QED BY <2>1, <3>1 DEF NoName
  <2>3. 3 \in {2, 3} /\ 3 + 1 = 4
    OBVIOUS
  <2>4. Filled(found.final, 3) /\ found.final.blocks[2].table = StatusTable
    BY <1>5, <1>8
  <2>5. HasRoom(found, 3, "passwd", DefaultHash, StatusTable, 2)
    BY <1>2, <1>8, <2>1, <2>2, <2>4 DEF HasRoom
  <2>6. FileMade(found, passwd, 3, "passwd", DefaultHash, StatusTable, 2)
    BY <1>7, <2>5, SysFileMakes
  <2> QED BY <1>8, <2>3, <2>6 DEF FileMade, v, PasswdTable
<1>10. /\ v.inodes[0].type = "dir" /\ v.inodes[1].type = "dir" /\ v.inodes[2] = u.inodes[2]
      /\ v.blocks[1].table = SysTable /\ v.blocks[3] = u.blocks[3]
  BY <1>4, <1>6, <1>9
<1> QED BY <1>5, <1>9, <1>10 DEF FreshDisk, v

\* The root is made first, and the layout written.
LEMMA FormatMakes ==
    ASSUME NEW st \in FsStates
    PROVE  fs_format(st).ok = TRUE /\ FreshDisk(fs_format(st).final)
<1> DEFINE s1 == [st EXCEPT !.sb = TRUE, !.bitmap = {},
                      !.inodes = [i \in Inodes |-> IF i = 0 THEN [NoInode EXCEPT !.type = "dir"]
                                                            ELSE NoInode]]
           r1 == [mark_block_used(s1, 1) EXCEPT !.inodes[0].block = 1]
           r2 == disk_write_lba(r1, 1, ZeroBlock)
           root == ensure_root_dir_block(s1)
           s2 == root.final
           s3 == [s2 EXCEPT !.dsb = TRUE]
           s4 == Flush(s3)
           status == write_sys_file(s4, "status", StatusFlag)
           passwd == write_sys_file(status.final, "passwd", DefaultHash)
<1>1. /\ s1 \in FsStates /\ s1.sb /\ s1.bitmap = {} /\ s1.inodes[0].block = 0
      /\ s1.inodes[0].type = "dir"
      /\ \A i \in Inodes \ {0} : s1.inodes[i].type = "none" /\ s1.inodes[i].block = 0
  <2>1. NoInode \in InodeRecords /\ [NoInode EXCEPT !.type = "dir"] \in InodeRecords
    BY Numbers DEF NoInode, InodeRecords
  <2>2. s1.inodes \in [Inodes -> InodeRecords]
    BY <2>1 DEF FsStates
  <2>3. s1 \in FsStates
    BY <2>2 DEF FsStates
  <2> QED BY <2>3, Numbers DEF FsStates, NoInode
<1>2. /\ r1 \in FsStates /\ r1.sb /\ r1.bitmap = {1}
      /\ r1.inodes[0].type = "dir" /\ r1.inodes[0].block = 1
      /\ \A i \in Inodes \ {0} : r1.inodes[i].type = "none" /\ r1.inodes[i].block = 0
  <2> DEFINE table == [s1.inodes EXCEPT ![0].block = 1]
  <2> HIDE DEF s1
  <2>1. s1.inodes \in [Inodes -> InodeRecords] /\ 0 \in Inodes /\ 1 \in Blocks
    BY <1>1, Numbers DEF FsStates
  <2>2. [s1.inodes[0] EXCEPT !.block = 1] \in InodeRecords
    BY <2>1 DEF InodeRecords
  <2>3. table[0] = [s1.inodes[0] EXCEPT !.block = 1]
    BY <2>1
  <2>4. table[0].type = "dir" /\ table[0].block = 1
    BY <1>1, <2>1, <2>3 DEF InodeRecords
  <2>5. /\ table \in [Inodes -> InodeRecords]
        /\ \A i \in Inodes \ {0} : table[i] = s1.inodes[i]
    BY <2>1, <2>2
  <2> HIDE DEF table
  <2>6. r1 = [s1 EXCEPT !.bitmap = {1}, !.inodes = table]
    BY <1>1 DEF mark_block_used, FsStates, table
  <2> HIDE DEF r1
  <2>7. r1 \in FsStates /\ r1.sb /\ r1.bitmap = {1} /\ r1.inodes = table
    BY <1>1, <2>1, <2>5, <2>6 DEF FsStates
  <2> QED BY <1>1, <2>4, <2>5, <2>7
<1> HIDE DEF s1, r1
<1>3. root = FlushAndReturn(r2, {r1})
  <2>1. alloc_block_raw(s1) = 1
    BY <1>1, FirstBlock
  <2> QED BY <1>1, <2>1 DEF ensure_root_dir_block, r1
<1>4. SameTables(r1, r2) /\ r2.blocks[1] = ZeroBlock /\ r2 \in FsStates /\ r2.sb
  <2>1. 1 \in Blocks /\ ZeroBlock \in BlockRecords
    BY BlockTypes, Numbers
  <2>2. SameTables(r1, r2) /\ r2.blocks[1] = ZeroBlock
    BY <1>2, <2>1, WriteGives
  <2> QED BY <1>2, <2>2 DEF SameTables
<1> HIDE DEF r2
<1>5. /\ root.ok = TRUE /\ s2 \in FsStates /\ s2.sb
      /\ s2.inodes = r1.inodes /\ s2.bitmap = r1.bitmap /\ s2.blocks[1] = ZeroBlock
  <2>1. root.ok = TRUE /\ s2 = Flush(r2)
    BY <1>3 DEF FlushAndReturn, Outcome
  <2> QED BY <1>4, <2>1, FlushGives DEF SameTables
<1> HIDE DEF root, s2
<1>6. /\ s3 \in FsStates /\ s3.sb /\ s3.dsb
      /\ s3.inodes = s2.inodes /\ s3.bitmap = s2.bitmap /\ s3.blocks = s2.blocks
  BY <1>5 DEF FsStates
<1> HIDE DEF s3
<1>7. /\ SameTables(s3, s4) /\ s4.blocks = s3.blocks
  BY <1>6, FlushGives
<1> HIDE DEF s4
<1>8. Filled(s4, 1) /\ s4.inodes[0].type = "dir" /\ s4.blocks[1].table = EmptyTable
  <2>1. /\ s4 \in FsStates /\ s4.sb /\ s4.dsb /\ s4.inodes = r1.inodes /\ s4.bitmap = {1}
        /\ s4.blocks[1] = ZeroBlock
    BY <1>2, <1>5, <1>6, <1>7 DEF SameTables
  <2>2. \A i \in Inodes : i < 1 <=> i = 0
    BY Numbers
  <2>3. {1} = 1 .. 1 /\ 0 + 1 = 1
    OBVIOUS
  <2>4. \A i \in Inodes : i < 1 => s4.inodes[i].type # "none" /\ s4.inodes[i].block = i + 1
    BY <1>2, <2>1, <2>2, <2>3
  <2>5. \A i \in Inodes : ~(i < 1) => s4.inodes[i].type = "none" /\ s4.inodes[i].block = 0
    BY <1>2, <2>1, <2>2
  <2>6. ZeroBlock.table = EmptyTable
    BY DecodedAssumption DEF ZeroBlock, TextBlock
  <2> QED BY <1>2, <2>1, <2>3, <2>4, <2>5, <2>6 DEF Filled
<1>9. /\ status = Outcome(TRUE, status.final, status.cuts)
      /\ passwd = Outcome(TRUE, passwd.final, passwd.cuts)
      /\ FreshDisk(passwd.final)
  BY <1>8, SysFilesMade
<1>10. passwd.final = fs_format(st).final /\ fs_format(st).ok = (root.ok /\ status.ok /\ passwd.ok)
  <2>1. fs_format(st) = [passwd EXCEPT
            !.ok = root.ok /\ status.ok /\ passwd.ok,
            !.cuts = root.cuts \union {s3} \union FlushCuts(s3)
                         \union status.cuts \union passwd.cuts]
    BY DEF fs_format, s1, root, s2, s3, s4, status, passwd
  <2> HIDE DEF status, passwd
  <2> QED BY <1>9, <2>1 DEF Outcome
<1> HIDE DEF status, passwd
<1>11. status.ok = TRUE /\ passwd.ok = TRUE
  BY <1>9 DEF Outcome
<1> QED BY <1>5, <1>9, <1>10, <1>11

-----------------------------------------------------------------------------
(* The machine *)

\* Until something is half-changed: RAM accounts for every block, and with
\* the power off, or before the first fs_init, a formatted disk does.
Whole == ~dirty =>
    /\ Live => fs \in Tidy
    /\ ~Live /\ fs.dsb => Accounts(fs.dinodes, fs.dbitmap)
    /\ phase = "reinit" => Synced(fs)

\* Only the fs_init after a format finds "reinit" with ret set.
Fresh == phase = "reinit" /\ ret => FreshDisk(fs) /\ Synced(fs)

BInv == Whole /\ Fresh

LEMMA PowerWhole ==
    ASSUME NEW s, NEW whole, ~dirty /\ s \in whole => s \in Tidy, LosePower(s, whole)
    PROVE  BInv'
<1>1. phase' = "start" /\ fs' = PoweredOff(s)
  BY DEF LosePower
<1>2. ASSUME ~dirty' PROVE s \in Tidy /\ Synced(s)
  BY <1>2 DEF LosePower
<1>3. ASSUME ~dirty' PROVE Accounts(PoweredOff(s).dinodes, PoweredOff(s).dbitmap)
  BY <1>2, <1>3 DEF PoweredOff, Synced, Tidy, FsStates
<1> QED BY <1>1, <1>3 DEF BInv, Whole, Fresh, Live

LEMMA ErrorWhole ==
    ASSUME NEW s, NEW whole, DiskError(s, whole), phase' \in {"reinit", "ready"},
           ~dirty /\ s \in whole => s \in Tidy /\ (phase' = "reinit" => Synced(s))
    PROVE  BInv'
<1>1. fs' = s /\ ret' = FALSE
  BY DEF DiskError
<1>2. ~dirty' => ~dirty /\ s \in whole
  BY DEF DiskError
<1> QED BY <1>1, <1>2 DEF BInv, Whole, Fresh, Live

\* fs_init changes nothing of the disk, wherever it stops.
LEMMA CutsKeep ==
    ASSUME NEW st \in FsStates, NEW s \in MountCuts(st)
    PROVE  s.dsb = st.dsb /\ s.dinodes = st.dinodes /\ s.dbitmap = st.dbitmap
<1> DEFINE s1 == read_superblock(st)
           s2 == [s1 EXCEPT !.bitmap = st.dbitmap]
<1>1. \/ s = st
      \/ \E n : s = [s1 EXCEPT !.bitmap = SpliceBitmap(n, st.dbitmap, st.bitmap)]
      \/ \E n : s = [s2 EXCEPT !.inodes = SpliceInodes(n, st.dinodes, s1.inodes)]
  BY DEF MountCuts
<1>2. s1 \in FsStates /\ s1.dsb = st.dsb /\ s1.dinodes = st.dinodes /\ s1.dbitmap = st.dbitmap
  BY SuperblockRead DEF FsStates
<1> HIDE DEF s1
<1>3. s2 \in FsStates /\ s2.dsb = st.dsb /\ s2.dinodes = st.dinodes /\ s2.dbitmap = st.dbitmap
  BY <1>2 DEF FsStates
<1> HIDE DEF s2
<1> QED BY <1>1, <1>2, <1>3 DEF FsStates

LEMMA MountBlocks ==
    ASSUME IInv, BInv, Mount
    PROVE  BInv'
<1> DEFINE r == fs_init(fs)
           full == [fs EXCEPT !.sb = TRUE, !.bitmap = fs.dbitmap, !.inodes = fs.dinodes]
           none == read_superblock(fs)
<1>1. fs \in FsStates /\ phase \in {"start", "reinit"} /\ fs.dsb \in BOOLEAN
  BY DEF IInv, TypeOK, Mount, FsStates
<1>2. /\ r.cuts = MountCuts(fs) /\ r.ok = fs.dsb
      /\ r.final = IF fs.dsb THEN full ELSE none
  BY <1>1 DEF fs_init, Outcome
<1>3. ~dirty /\ fs.dsb => Accounts(fs.dinodes, fs.dbitmap)
  BY <1>1 DEF BInv, Whole, Live, Tidy, Synced
<1>4. ~dirty /\ phase = "reinit" => fs.dsb
  BY DEF BInv, Whole, Synced
<1>5. full \in FsStates /\ full.inodes = fs.dinodes /\ full.bitmap = fs.dbitmap
  BY <1>1 DEF FsStates
<1>6. none.dsb = fs.dsb
  BY <1>1, SuperblockRead DEF FsStates
<1> HIDE DEF r, full, none
<1>7. CASE /\ fs' = r.final
           /\ phase' = IF r.ok THEN "ready"
                       ELSE IF phase = "start" THEN "format" ELSE "ready"
           /\ UNCHANGED dirty
  <2>1. CASE fs.dsb
    <3>1. fs' = full /\ phase' = "ready"
      BY <1>2, <1>7, <2>1
    <3>2. ~dirty' => full \in Tidy
      BY <1>3, <1>5, <1>7, <2>1 DEF Tidy
    <3> QED BY <3>1, <3>2 DEF BInv, Whole, Fresh, Live
  <2>2. CASE ~fs.dsb
    <3>1. fs' = none /\ ~fs'.dsb /\ phase' = IF phase = "start" THEN "format" ELSE "ready"
      BY <1>2, <1>6, <1>7, <2>2
    <3>2. ~dirty' => phase' = "format"
      BY <1>1, <1>4, <1>7, <2>2, <3>1
    <3> QED BY <3>1, <3>2 DEF BInv, Whole, Fresh, Live
  <2> QED BY <2>1, <2>2
<1>8. ASSUME NEW s \in r.cuts, DiskError(s, IF phase = "start" THEN r.cuts ELSE {fs}),
             phase' = (IF phase = "start" THEN "format" ELSE "ready")
      PROVE  BInv'
  <2>1. s.dsb = fs.dsb /\ s.dinodes = fs.dinodes /\ s.dbitmap = fs.dbitmap
    BY <1>1, <1>2, <1>8, CutsKeep
  <2>2. fs' = s /\ ret' = FALSE /\ (~dirty' => ~dirty)
    BY <1>8 DEF DiskError
  <2>3. CASE phase = "start"
    BY <1>3, <1>8, <2>1, <2>2, <2>3 DEF BInv, Whole, Fresh, Live
  <2>4. CASE phase = "reinit"
    <3>1. ~dirty' => s = fs /\ fs \in Tidy
      BY <1>8, <2>4 DEF DiskError, BInv, Whole, Live
    <3> QED BY <1>8, <2>2, <2>4, <3>1 DEF BInv, Whole, Fresh, Live
  <2> QED BY <1>1, <2>3, <2>4
<1> QED BY <1>7, <1>8 DEF Mount, r

LEMMA FormatBlocks ==
    ASSUME IInv, BInv, Format
    PROVE  BInv'
<1> DEFINE r == fs_format(fs)
<1>1. fs \in Mountable /\ fs \in FsStates /\ phase \in {"format", "ready"}
  BY DEF IInv, TypeOK, Format
<1>2. r.ok = TRUE /\ FreshDisk(r.final) /\ Synced(r.final)
  BY <1>1, FormatMakes, FormatOutcome
<1>3. r.final \in Tidy
  <2>1. 4 \in Nat /\ 4 <= NumInodes
    BY LayoutAssumption
  <2> QED BY <1>2, <2>1, FilledTidy DEF FreshDisk
<1> HIDE DEF r
<1>4. CASE fs' = r.final /\ phase' = "reinit"
  BY <1>2, <1>3, <1>4 DEF BInv, Whole, Fresh, Live
<1>5. ASSUME NEW s, DiskError(s, {r.final}),
             phase' = (IF phase = "format" THEN "reinit" ELSE "ready")
      PROVE  BInv'
  BY <1>2, <1>3, <1>5, ErrorWhole
<1>6. ASSUME NEW s, PowerFailure(s, {r.final})
      PROVE  BInv'
  <2>1. ~dirty /\ s \in {r.final} => s \in Tidy
    BY <1>3
  <2> QED BY <1>6, <2>1, PowerWhole DEF PowerFailure
<1> QED BY <1>4, <1>5, <1>6 DEF Format, r

LEMMA CallBlocks ==
    ASSUME IInv, BInv, NEW r, fs \in Tidy /\ fs \in Rooted => r.final \in Tidy, Call(r)
    PROVE  BInv'
<1>1. phase = "ready" /\ (~dirty => fs \in Tidy /\ r.final \in Tidy)
  BY DEF Call, BInv, Whole, Live, IInv
<1>2. CASE fs' = r.final /\ UNCHANGED <<phase, dirty>>
  BY <1>1, <1>2 DEF BInv, Whole, Fresh, Live
<1>3. ASSUME NEW s, DiskError(s, {fs, r.final}), UNCHANGED phase
      PROVE  BInv'
  BY <1>1, <1>3, ErrorWhole
<1>4. ASSUME NEW s, PowerFailure(s, {fs, r.final})
      PROVE  BInv'
  <2>1. ~dirty /\ s \in {fs, r.final} => s \in Tidy
    BY <1>1
  <2> QED BY <1>4, <2>1, PowerWhole DEF PowerFailure
<1> QED BY <1>2, <1>3, <1>4 DEF Call

LEMMA RemoveFaultsBlocks ==
    ASSUME NEW cuts, RemoveFaults(cuts), phase = "ready"
    PROVE  BInv'
<1>1. ASSUME NEW s, DiskError(s, {}), UNCHANGED phase PROVE BInv'
  BY <1>1, ErrorWhole
<1>2. ASSUME NEW s, PowerFailure(s, {}) PROVE BInv'
  BY <1>2, PowerWhole DEF PowerFailure
<1> QED BY <1>1, <1>2 DEF RemoveFaults

LEMMA GoesBlocks ==
    ASSUME BInv, phase = "ready", NEW s, fs \in Tidy => s \in Tidy, NEW frames, Goes(s, frames)
    PROVE  BInv'
BY DEF Goes, BInv, Whole, Fresh, Live

LEMMA RemoveStepBlocks ==
    ASSUME IInv, BInv, RemoveStep
    PROVE  BInv'
<1>1. Running
  <2>1. \/ Running
        \/ Len(stack) > 1
        \/ Len(stack) = 1
    BY DEF RemoveStep, RemoveEnter, RemoveCurrent, RemoveLeave, RemoveDone, RemoveGivesUp
  <2>2. stack \in Seq(Frames)
    BY DEF IInv, TypeOK
  <2>3. Len(stack) \in Nat /\ (Len(stack) >= 1 => stack # <<>>)
    BY <2>2, LenProperties, EmptySeq
  <2> QED BY <2>1, <2>3 DEF Running
<1>2. phase = "ready" /\ TypeOK
  BY <1>1 DEF IInv
<1>3. /\ Top.dir \in Inodes /\ Top.table \in Tables
      /\ Top.todo # {} => Current \in Inodes
  BY <1>1, <1>2, TopTypes DEF Frames
<1> DEFINE w == write_dir_block(fs, Top.dir, Top.table)
           freed == Released(fs, Current)
<1>4. fs \in Tidy => w \in Tidy
  BY <1>3, WriteDirTidy
<1>5. Top.todo # {} => (fs \in Tidy => freed.final \in Tidy)
  BY <1>3, ReleasedTidy
<1>6. ASSUME NEW s, NEW frames, Goes(s, frames), fs \in Tidy => s \in Tidy PROVE BInv'
  BY <1>2, <1>6, GoesBlocks
<1>7. ASSUME NEW cuts, RemoveFaults(cuts) PROVE BInv'
  BY <1>2, <1>7, RemoveFaultsBlocks
<1>8. ASSUME RemoveEnter PROVE BInv'
  BY <1>6, <1>7, <1>8 DEF RemoveEnter
<1>9. ASSUME RemoveCurrent PROVE BInv'
  <2>1. Top.todo # {} /\ \/ \E frames : Goes(freed.final, frames)
                         \/ RemoveFaults(freed.cuts)
    BY <1>9 DEF RemoveCurrent
  <2> HIDE DEF freed
  <2> QED BY <1>5, <1>6, <1>7, <2>1
<1>10. ASSUME RemoveLeave PROVE BInv'
  <2>1. (\E frames : Goes(w, frames)) \/ RemoveFaults({fs, w})
    BY <1>10 DEF RemoveLeave
  <2> HIDE DEF w
  <2> QED BY <1>4, <1>6, <1>7, <2>1
<1>11. ASSUME RemoveDone PROVE BInv'
  <2> DEFINE r == FlushAndReturn(w, {fs})
  <2>1. fs \in Tidy => r.final \in Tidy
    BY <1>4, EndsTidy, FlushTidy
  <2>2. (fs' = r.final /\ UNCHANGED <<phase, dirty>>) \/ RemoveFaults(r.cuts)
    BY <1>11 DEF RemoveDone
  <2> HIDE DEF r
  <2>3. CASE fs' = r.final /\ UNCHANGED <<phase, dirty>>
    BY <1>2, <2>1, <2>3 DEF BInv, Whole, Fresh, Live
  <2> QED BY <1>7, <2>2, <2>3
<1>12. ASSUME RemoveGivesUp PROVE BInv'
  BY <1>6, <1>12 DEF RemoveGivesUp
<1> QED BY <1>8, <1>9, <1>10, <1>11, <1>12 DEF RemoveStep

LEMMA NextBlocks ==
    ASSUME IInv, BInv, [AnyStep]_vars
    PROVE  BInv'
<1>1. ASSUME NEW p \in PathRecords, NEW q \in PathRecords
      PROVE  /\ Mkdir(p) => BInv'
             /\ Create(p) => BInv'
             /\ \A text \in Texts \union {Empty} : Write(p, text) => BInv'
             /\ Remove(p) => BInv'
             /\ Copy(p, q) => BInv'
             /\ Rename(p, q) => BInv'
  <2>1. Mkdir(p) => BInv'
    BY CallBlocks, MkdirTidy DEF Mkdir
  <2>2. Create(p) => BInv'
    BY CallBlocks, CreateTidy DEF Create, PathRecords
  <2>3. ASSUME NEW text \in Texts \union {Empty} PROVE Write(p, text) => BInv'
    BY CallBlocks, FsWriteTidy DEF Write, Contents
  <2>4. Remove(p) => BInv'
    BY CallBlocks, RemoveTidy DEF Remove
  <2>5. Copy(p, q) => BInv'
    BY CallBlocks, CopyTidy DEF Copy
  <2>6. Rename(p, q) => BInv'
    <3>1. Rename(p, q) => fs \in Rooted
      BY DEF Rename, Call, IInv, Live
    <3> QED BY <3>1, CallBlocks, RenameTidy DEF Rename
  <2> QED BY <2>1, <2>2, <2>3, <2>4, <2>5, <2>6
<1>2. ASSUME NEW hash \in Hashes PROVE WritePasswd(hash) => BInv'
  BY CallBlocks, PasswdTidy DEF WritePasswd
<1>3. ASSUME NEW p \in PathRecords, RemoveRecursive(p) PROVE BInv'
  <2>1. phase = "ready" /\ \E frames : Goes(fs, frames)
    BY <1>3 DEF RemoveRecursive
  <2> QED BY <2>1, GoesBlocks
<1>4. CASE UNCHANGED vars
  BY <1>4 DEF vars, BInv, Whole, Fresh, Live
<1>5. ASSUME Reboot PROVE BInv'
  <2>1. ~dirty /\ fs \in {fs} => fs \in Tidy
    BY <1>5 DEF Reboot, BInv, Whole, Live
  <2> QED BY <1>5, <2>1, PowerWhole DEF Reboot
<1>6. CASE AnyStep
  BY <1>1, <1>2, <1>3, <1>5, <1>6, MountBlocks, FormatBlocks, RemoveStepBlocks DEF AnyStep
<1> QED BY <1>4, <1>6

LEMMA BlocksInvariant == Spec => [](IInv /\ BInv)
<1>1. Init => BInv
  BY DEF Init, BInv, Whole, Fresh, Live, BlankDisk
<1>2. IInv /\ BInv /\ [Next]_vars => BInv'
  BY NextBlocks, NextIsAny
<1> QED BY <1>1, <1>2, Invariant, PTL DEF Spec

\* As long as no fault has left the disk half-changed, a data block is marked
\* exactly when one inode has it, and no two have the same one: what
\* alloc_block_raw, mark_block_used, mark_block_free and the order of the
\* assignments around them in every call are for.
THEOREM AllocationExact == Spec => []BlocksAccounted
<1>1. ASSUME IInv, BInv, Sound
      PROVE  /\ \A i \in Used : Inode[i].block \in Bitmap \ {0}
             /\ \A i, j \in Used : i # j => Inode[i].block # Inode[j].block
             /\ \A b \in Bitmap : \E i \in Used : Inode[i].block = b
  <2> DEFINE inodes == Inode
             bitmap == Bitmap
  <2>1. Accounts(inodes, bitmap)
    BY <1>1 DEF BInv, Whole, Sound, Tidy, Inode, Bitmap
  <2>2. Used = {i \in Inodes : inodes[i].type # "none"}
    BY DEF Used
  <2> HIDE DEF inodes, bitmap
  <2>3. /\ \A i \in Used : inodes[i].block \in bitmap \ {0}
        /\ \A i, j \in Used : i # j => inodes[i].block # inodes[j].block
        /\ \A b \in bitmap : \E i \in Used : inodes[i].block = b
    BY <2>1, <2>2 DEF Accounts
  <2> QED BY <2>3 DEF inodes, bitmap
<1>2. IInv /\ BInv => BlocksAccounted
  BY <1>1 DEF BlocksAccounted
<1> QED BY <1>2, BlocksInvariant, PTL

-----------------------------------------------------------------------------
(* What the calls find on a disk that has just been formatted *)

LEMMA SysNames ==
    /\ 1 \in Slots /\ 2 \in Slots
    /\ NoName \notin {"sys", "status", "passwd"}
    /\ SysTable[1].name = "sys" /\ SysTable[1].inode = 1
    /\ \A s \in Slots \ {1} : SysTable[s].name = NoName
    /\ PasswdTable[1].name = "status" /\ PasswdTable[1].inode = 2
    /\ PasswdTable[2].name = "passwd" /\ PasswdTable[2].inode = 3
    /\ \A s \in Slots \ {1, 2} : PasswdTable[s].name = NoName
<1>1. NoName \notin {"sys", "status", "passwd"}
  BY DEF NoName
<1>2. SysTable[1].name = "sys" /\ SysTable[1].inode = 1
  BY SysTables
<1>3. PasswdTable[1].name = "status" /\ PasswdTable[1].inode = 2
  BY SysTables
<1>4. PasswdTable[2].name = "passwd" /\ PasswdTable[2].inode = 3
  BY SysTables
<1>5. \A s \in Slots \ {1} : SysTable[s].name = NoName
  BY SysTables
<1>6. \A s \in Slots \ {1, 2} : PasswdTable[s].name = NoName
  BY SysTables
<1> QED BY <1>1, <1>2, <1>3, <1>4, <1>5, <1>6, SysTables

LEMMA FreshPaths ==
    ASSUME NEW st, FreshDisk(st)
    PROVE  FileAt(st, StatusPath) = 2 /\ FileAt(st, PasswdPath) = 3
<1> DEFINE inodes == st.inodes
           root == load_dir_block(st, 0)
           sys == load_dir_block(st, 1)
<1>1. /\ 0 \in Inodes /\ 1 \in Inodes /\ 2 \in Inodes /\ 3 \in Inodes
      /\ \A i \in {0, 1} : i < 4 /\ i + 1 # 0
  BY LayoutAssumption DEF Inodes
<1>2. /\ st.sb /\ inodes[0].block = 1 /\ inodes[1].block = 2
      /\ inodes[1].type = "dir" /\ inodes[2].type = "file" /\ inodes[3].type = "file"
  <2>1. /\ 0 \in Inodes /\ 1 \in Inodes /\ 0 < 4 /\ 1 < 4 /\ 0 + 1 = 1 /\ 1 + 1 = 2
    BY <1>1
  <2>2. inodes[0].block = 1 /\ inodes[1].block = 2
    BY <2>1 DEF FreshDisk, Filled
  <2> QED BY <2>2 DEF FreshDisk, Filled
<1>3. root = SysTable /\ sys = PasswdTable
  BY <1>2 DEF load_dir_block, FreshDisk
<1> HIDE DEF root, sys, inodes
<1>4. find_dir_entry(root, inodes, "sys", "dir") = 1
  <2>1. root[1].name = "sys" /\ root[1].inode = 1 /\ "sys" # NoName /\ 1 \in Slots
    BY <1>3, SysNames
  <2>2. inodes[root[1].inode].type = "dir"
    BY <1>2, <2>1
  <2>3. \A s \in Slots \ {1} : root[s].name # "sys"
    BY <1>3, SysNames
  <2> QED BY <2>1, <2>2, <2>3, FoundAt
<1>5. /\ sys[1].name = "status" /\ sys[1].inode = 2
      /\ sys[2].name = "passwd" /\ sys[2].inode = 3
      /\ \A s \in Slots \ {1, 2} : sys[s].name = NoName
      /\ 1 \in Slots /\ 2 \in Slots /\ "status" # NoName /\ "passwd" # NoName
  BY <1>3, SysNames
<1>6. find_dir_entry(sys, inodes, "status", "file") = 1
  <2>1. inodes[sys[1].inode].type = "file"
    BY <1>2, <1>5
  <2>2. "passwd" # "status"
    OBVIOUS
  <2>3. \A s \in Slots \ {1} : sys[s].name # "status"
    BY <1>5, <2>2
  <2> QED BY <1>5, <2>1, <2>3, FoundAt
<1>7. find_dir_entry(sys, inodes, "passwd", "file") = 2
  <2>1. inodes[sys[2].inode].type = "file"
    BY <1>2, <1>5
  <2>2. "passwd" # "status"
    OBVIOUS
  <2>3. \A s \in Slots \ {2} : sys[s].name # "passwd"
    BY <1>5, <2>2
  <2> QED BY <1>5, <2>1, <2>3, FoundAt
<1>8. SubDir(st, "sys") = 1
  <2>1. root[1].inode = 1
    BY <1>3, SysNames
  <2> QED BY <1>4, <2>1 DEF SubDir, root, inodes
<1>9. DirOf(st, StatusPath) = 1 /\ DirOf(st, PasswdPath) = 1
  BY <1>8 DEF DirOf, InRoot, StatusPath, PasswdPath, NoName
<1>10. Usable(st, 1)
  BY <1>1, <1>2 DEF Usable, inodes
<1>11. FileAt(st, StatusPath) = 2
  <2>1. StatusPath.name = "status" /\ StatusPath.name # NoName
    BY DEF StatusPath, NoName
  <2>2. FileAt(st, StatusPath) = sys[1].inode
    BY <1>6, <1>9, <1>10, <2>1 DEF FileAt, sys, inodes
  <2> QED BY <1>5, <2>2
<1>12. FileAt(st, PasswdPath) = 3
  <2>1. PasswdPath.name = "passwd" /\ PasswdPath.name # NoName
    BY DEF PasswdPath, NoName
  <2>2. FileAt(st, PasswdPath) = sys[2].inode
    BY <1>7, <1>9, <1>10, <2>1 DEF FileAt, sys, inodes
  <2> QED BY <1>5, <2>2
<1> QED BY <1>11, <1>12

\* The power goes and comes back: fs_init reads what was there.
LEMMA SyncedRestarts ==
    ASSUME NEW st \in FsStates, Synced(st)
    PROVE  fs_init(PoweredOff(st)).ok /\ fs_init(PoweredOff(st)).final = st
<1> DEFINE off == PoweredOff(st)
<1>1. /\ off.dsb /\ off.dbitmap = st.bitmap /\ off.dinodes = st.inodes
      /\ [off EXCEPT !.sb = TRUE, !.bitmap = st.bitmap, !.inodes = st.inodes] = st
  BY DEF PoweredOff, Synced, FsStates
<1> HIDE DEF off
<1>2. fs_init(off) = Outcome(TRUE, st, MountCuts(off))
  BY <1>1 DEF fs_init
<1> QED BY <1>2 DEF Outcome, off

LEMMA FreshReads ==
    ASSUME NEW st, FreshDisk(st)
    PROVE  /\ fs_read_path(st, StatusPath) = {[text |-> StatusFlag, size |-> 1]}
           /\ fs_read_passwd(st, TRUE) = {DefaultHash}
<1>1. FileAt(st, StatusPath) = 2 /\ FileAt(st, PasswdPath) = 3
  BY FreshPaths
<1>2. /\ st.inodes[2].block = 3 /\ st.inodes[3].block = 4
      /\ st.inodes[2].size = 1 /\ st.inodes[3].size = 4
      /\ st.blocks[3].text = StatusFlag /\ st.blocks[4].text = DefaultHash
  BY LayoutAssumption DEF FreshDisk, TextBlock
<1>3. /\ ContentOf(st, 2) = [text |-> StatusFlag, size |-> 1]
      /\ ContentOf(st, 3) = [text |-> DefaultHash, size |-> 4]
  BY <1>2 DEF ContentOf
<1>4. /\ fs_read_path(st, StatusPath) = {ContentOf(st, 2)}
      /\ fs_read_path(st, PasswdPath) = {ContentOf(st, 3)}
  BY <1>1 DEF fs_read_path
<1>5. {r \in fs_read_path(st, PasswdPath) : TRUE /\ r.size >= 4} = {ContentOf(st, 3)}
  BY <1>3, <1>4
<1> QED BY <1>3, <1>4, <1>5 DEF fs_read_passwd

LEMMA FreshLinks ==
    ASSUME Live, FreshDisk(fs)
    PROVE  Cardinality(Links) = 3
<1> DEFINE table(d) == fs.blocks[fs.inodes[d].block].table
<1>1. Inode = fs.inodes /\ \A d : TableOf(d) = table(d)
  BY DEF Inode, TableOf
<1>2. /\ 0 \in Inodes /\ 1 \in Inodes /\ 0 < 4 /\ 1 < 4 /\ 0 + 1 = 1 /\ 1 + 1 = 2
      /\ \A i \in Inodes : i < 4 => i \in {0, 1, 2, 3}
  BY LayoutAssumption DEF Inodes
<1>3. Dirs = {0, 1}
  <2>1. \A i \in Inodes : fs.inodes[i].type = "dir" => i < 4
    BY DEF FreshDisk, Filled
  <2>2. fs.inodes[2].type = "file" /\ fs.inodes[3].type = "file"
    BY DEF FreshDisk
  <2>3. fs.inodes[0].type = "dir" /\ fs.inodes[1].type = "dir"
    BY DEF FreshDisk
  <2>4. \A i \in Inodes : fs.inodes[i].type = "dir" => i \in {0, 1}
    BY <1>2, <2>1, <2>2
  <2> QED BY <1>1, <1>2, <2>3, <2>4 DEF Dirs
<1>4. TableOf(0) = SysTable /\ TableOf(1) = PasswdTable
  <2>1. fs.inodes[0].block = 1 /\ fs.inodes[1].block = 2
    BY <1>2 DEF FreshDisk, Filled
  <2> QED BY <1>1, <2>1 DEF FreshDisk
<1>5. /\ \A s \in Slots : SysTable[s].name # NoName <=> s = 1
      /\ \A s \in Slots : PasswdTable[s].name # NoName <=> s \in {1, 2}
      /\ 1 \in Slots /\ 2 \in Slots
  <2>1. \A s \in Slots : s # 1 => SysTable[s].name = NoName
    BY SysNames
  <2>2. SysTable[1].name # NoName /\ PasswdTable[1].name # NoName /\ PasswdTable[2].name # NoName
    BY SysNames
  <2>3. \A s \in Slots : s \notin {1, 2} => PasswdTable[s].name = NoName
    BY SysNames
  <2> QED BY <2>1, <2>2, <2>3, SysNames
<1>6. Links = {<<0, 1>>, <<1, 1>>, <<1, 2>>}
  <2>1. ASSUME NEW d \in Dirs, NEW s \in Slots
        PROVE  TableOf(d)[s].name # NoName <=> <<d, s>> \in {<<0, 1>>, <<1, 1>>, <<1, 2>>}
    BY <1>3, <1>4, <1>5
  <2>2. \A link \in Dirs \X Slots : link = <<link[1], link[2]>>
                                    /\ link[1] \in Dirs /\ link[2] \in Slots
    OBVIOUS
  <2>3. {<<0, 1>>, <<1, 1>>, <<1, 2>>} \subseteq Dirs \X Slots
    BY <1>3, <1>5
  <2> QED BY <2>1, <2>2, <2>3 DEF Links
<1> DEFINE one == {<<0, 1>>}
           two == one \union {<<1, 1>>}
<1>7. <<1, 1>> \notin one /\ <<1, 2>> \notin two /\ Links = two \union {<<1, 2>>}
  BY <1>6
<1>8. IsFiniteSet(one) /\ Cardinality(one) = 1
  BY FS_Singleton
<1> HIDE DEF one
<1>9. IsFiniteSet(two) /\ Cardinality(two) = Cardinality(one) + 1
  BY <1>7, <1>8, FS_AddElement
<1> HIDE DEF two
<1>10. Cardinality(Links) = Cardinality(two) + 1
  BY <1>7, <1>9, FS_AddElement
<1> QED BY <1>8, <1>9, <1>10

\* A format that returned true has repaired whatever was on the disk: were the
\* power to go now, fs_init would find a filesystem again, with the status
\* flag and the hash of the default password in it, and nothing but sys,
\* sys/status and sys/passwd.
THEOREM FormatIsRepair == Spec => []FormatRepairs
<1>1. ASSUME BInv, phase = "reinit", ret
      PROVE  LET again == fs_init(PoweredOff(fs))
             IN  /\ again.ok
                 /\ fs_read_path(again.final, StatusPath) = {[text |-> StatusFlag, size |-> 1]}
                 /\ fs_read_passwd(again.final, TRUE) = {DefaultHash}
                 /\ Cardinality(Links) = 3
  <2>1. FreshDisk(fs) /\ Synced(fs) /\ Live
    BY <1>1 DEF BInv, Fresh, Live
  <2>2. fs \in FsStates
    BY <2>1 DEF FreshDisk, Filled
  <2>3. fs_init(PoweredOff(fs)).ok /\ fs_init(PoweredOff(fs)).final = fs
    BY <2>1, <2>2, SyncedRestarts
  <2> QED BY <2>1, <2>3, FreshReads, FreshLinks
<1>2. IInv /\ BInv => FormatRepairs
  BY <1>1 DEF FormatRepairs
<1> QED BY <1>2, BlocksInvariant, PTL

-----------------------------------------------------------------------------
(* Links: every entry that can be reached from the root refers to          *)
(* something in use, no two refer to the same thing, lookup finds whatever *)
(* a directory holds, and rm -r never opens a directory that it has open   *)
(* already.                                                                *)
(*                                                                         *)
(* What can be reached is a recursive definition, so the invariant speaks  *)
(* of any set R of directories that has the root and whatever directories  *)
(* its entries refer to.  Directories that are lost stay outside R, and    *)
(* what their blocks hold does not matter.                                 *)

Kind == {"none", "file", "dir"}
Kinds(st) == [i \in Inodes |-> st.inodes[i].type]

\* The table of each directory, as its block has it.
View(st) == [d \in Inodes |-> st.blocks[st.inodes[d].block].table]
Views == [Inodes -> Tables]

InUse(T, d, s) == T[d][s].name # NoName

\* Every entry of R refers to something in use, to a directory only within R.
Refers(K, T, R) ==
    \A d \in R, s \in Slots : InUse(T, d, s) =>
        /\ T[d][s].name \in Names
        /\ T[d][s].inode # 0
        /\ K[T[d][s].inode] # "none"
        /\ K[T[d][s].inode] = "dir" => T[d][s].inode \in R

\* No two entries of R refer to the same inode.
Unshared(T, R) ==
    \A d, e \in R, s, r \in Slots :
        InUse(T, d, s) /\ InUse(T, e, r) /\ T[d][s].inode = T[e][r].inode
            => d = e /\ s = r

\* In one directory no two entries have the same name and kind.
Telling(K, T, R) ==
    \A d \in R, s, r \in Slots :
        (/\ InUse(T, d, s) /\ InUse(T, d, r)
         /\ T[d][s].name = T[d][r].name
         /\ K[T[d][s].inode] = K[T[d][r].inode])
            => s = r

Linked(K, T, R) ==
    /\ R \in SUBSET Inodes /\ 0 \in R
    /\ \A d \in R : K[d] = "dir"
    /\ Refers(K, T, R)
    /\ Unshared(T, R)
    /\ Telling(K, T, R)

-----------------------------------------------------------------------------
(* What the calls do to kinds and tables keeps them linked *)

\* Only the tables of R matter.
LEMMA SameLinked ==
    ASSUME NEW K, NEW T, NEW R, Linked(K, T, R),
           NEW T2, \A d \in R : T2[d] = T[d]
    PROVE  Linked(K, T2, R)
<1>1. \A d \in R, s \in Slots : T2[d][s] = T[d][s]
  OBVIOUS
<1>2. Refers(K, T2, R)
  BY <1>1 DEF Linked, Refers, InUse
<1>3. Unshared(T2, R)
  BY <1>1 DEF Linked, Unshared, InUse
<1>4. Telling(K, T2, R)
  BY <1>1 DEF Linked, Telling, InUse
<1> QED BY <1>2, <1>3, <1>4 DEF Linked

\* An inode that was free is not referred to.
LEMMA ClaimLinked ==
    ASSUME NEW K \in [Inodes -> Kind], NEW T \in Views, NEW R, Linked(K, T, R),
           NEW i \in Inodes, K[i] = "none", NEW type \in Kind
    PROVE  /\ Linked([K EXCEPT ![i] = type], T, R)
           /\ i \notin R
           /\ \A d \in R, s \in Slots : InUse(T, d, s) => T[d][s].inode # i
<1> DEFINE K2 == [K EXCEPT ![i] = type]
<1>1. R \in SUBSET Inodes /\ i \notin R
  BY DEF Linked
<1>2. \A d \in R, s \in Slots : InUse(T, d, s) => T[d][s].inode # i
  BY DEF Linked, Refers
<1>3. \A d \in R, s \in Slots : T[d][s].inode \in Inodes
  BY <1>1 DEF Views, Tables, Entries
<1>4. \A j \in Inodes : j # i => K2[j] = K[j]
  OBVIOUS
<1> HIDE DEF K2
<1>5. \A d \in R, s \in Slots : InUse(T, d, s) => K2[T[d][s].inode] = K[T[d][s].inode]
  BY <1>2, <1>3, <1>4
<1>6. \A d \in R : K2[d] = "dir"
  BY <1>1, <1>4 DEF Linked
<1>7. Refers(K2, T, R)
  BY <1>5 DEF Linked, Refers
<1>8. Telling(K2, T, R)
  BY <1>5 DEF Linked, Telling
<1>9. Linked(K2, T, R)
  BY <1>6, <1>7, <1>8 DEF Linked
<1> QED BY <1>1, <1>2, <1>9 DEF K2

\* An empty directory may join R.
LEMMA ExtendLinked ==
    ASSUME NEW K, NEW T \in Views, NEW R, Linked(K, T, R),
           NEW i \in Inodes, K[i] = "dir", T[i] = EmptyTable
    PROVE  Linked(K, T, R \union {i})
<1> DEFINE Q == R \union {i}
<1>1. \A s \in Slots : ~InUse(T, i, s)
  BY DEF InUse, EmptyTable, NoEntry
<1>2. \A d \in Q, s \in Slots : InUse(T, d, s) => d \in R
  BY <1>1
<1>3. Q \in SUBSET Inodes /\ 0 \in Q /\ R \subseteq Q /\ \A d \in Q : K[d] = "dir"
  BY DEF Linked
<1> HIDE DEF Q
<1>4. Refers(K, T, Q)
  BY <1>2, <1>3 DEF Linked, Refers
<1>5. Unshared(T, Q)
  BY <1>2 DEF Linked, Unshared
<1>6. Telling(K, T, Q)
  <2> SUFFICES ASSUME NEW d \in Q, NEW s \in Slots, NEW r \in Slots,
                      InUse(T, d, s), InUse(T, d, r), T[d][s].name = T[d][r].name,
                      K[T[d][s].inode] = K[T[d][r].inode]
               PROVE  s = r
    BY DEF Telling
  <2>1. d \in R
    BY <1>2
  <2> QED BY <2>1 DEF Linked, Telling
<1> QED BY <1>3, <1>4, <1>5, <1>6 DEF Linked, Q

\* T2 is T with slot s of directory d cleared.
Dropped(T, T2, R, d, s) ==
    \A e \in R, r \in Slots :
        IF e = d /\ r = s THEN T2[e][r].name = NoName ELSE T2[e][r] = T[e][r]

LEMMA DropLinked ==
    ASSUME NEW K, NEW T \in Views, NEW R, Linked(K, T, R),
           NEW d \in Inodes, NEW s \in Slots, NEW T2, Dropped(T, T2, R, d, s)
    PROVE  /\ Linked(K, T2, R)
           /\ \A e \in R, r \in Slots : InUse(T2, e, r) => InUse(T, e, r) /\ ~(e = d /\ r = s)
<1>1. \A e \in R, r \in Slots : InUse(T2, e, r) => T2[e][r] = T[e][r] /\ ~(e = d /\ r = s)
  BY DEF InUse, Dropped
<1>2. \A e \in R, r \in Slots : InUse(T2, e, r) => InUse(T, e, r)
  BY <1>1 DEF InUse
<1>3. Refers(K, T2, R)
  BY <1>1, <1>2 DEF Linked, Refers
<1>4. Unshared(T2, R)
  BY <1>1, <1>2 DEF Linked, Unshared
<1>5. Telling(K, T2, R)
  BY <1>1, <1>2 DEF Linked, Telling
<1> QED BY <1>1, <1>2, <1>3, <1>4, <1>5 DEF Linked

\* An entry for something that no other entry refers to, under a name that
\* nothing of its kind has in that directory.
LEMMA AddLinked ==
    ASSUME NEW K, NEW T \in Views, NEW R, Linked(K, T, R),
           NEW d \in R, NEW s \in Slots, ~InUse(T, d, s),
           NEW i \in Inodes, i # 0, K[i] # "none", K[i] = "dir" => i \in R,
           \A e \in R, r \in Slots : InUse(T, e, r) => T[e][r].inode # i,
           NEW name \in Names,
           \A r \in Slots : InUse(T, d, r) /\ T[d][r].name = name => K[T[d][r].inode] # K[i],
           NEW T2, T2[d][s] = [name |-> name, inode |-> i],
           \A e \in R, r \in Slots : ~(e = d /\ r = s) => T2[e][r] = T[e][r]
    PROVE  Linked(K, T2, R)
<1>1. \A e \in R, r \in Slots : InUse(T2, e, r) =>
         \/ T2[e][r] = T[e][r] /\ InUse(T, e, r) /\ ~(e = d /\ r = s)
         \/ e = d /\ r = s /\ T2[e][r].name = name /\ T2[e][r].inode = i
  BY DEF InUse
<1>2. Refers(K, T2, R)
  <2> SUFFICES ASSUME NEW e \in R, NEW r \in Slots, InUse(T2, e, r)
               PROVE  /\ T2[e][r].name \in Names
                      /\ T2[e][r].inode # 0
                      /\ K[T2[e][r].inode] # "none"
                      /\ K[T2[e][r].inode] = "dir" => T2[e][r].inode \in R
    BY DEF Refers
  <2>1. CASE T2[e][r] = T[e][r] /\ InUse(T, e, r)
    BY <2>1 DEF Linked, Refers
  <2>2. CASE T2[e][r].name = name /\ T2[e][r].inode = i
    BY <2>2
  <2> QED BY <1>1, <2>1, <2>2
<1>3. Unshared(T2, R)
  <2> SUFFICES ASSUME NEW e \in R, NEW f \in R, NEW r \in Slots, NEW q \in Slots,
                      InUse(T2, e, r), InUse(T2, f, q), T2[e][r].inode = T2[f][q].inode
               PROVE  e = f /\ r = q
    BY DEF Unshared
  <2> QED BY <1>1 DEF Linked, Unshared
<1>4. Telling(K, T2, R)
  <2> SUFFICES ASSUME NEW e \in R, NEW r \in Slots, NEW q \in Slots,
                      InUse(T2, e, r), InUse(T2, e, q), T2[e][r].name = T2[e][q].name,
                      K[T2[e][r].inode] = K[T2[e][q].inode]
               PROVE  r = q
    BY DEF Telling
  <2> QED BY <1>1 DEF Linked, Telling
<1> QED BY <1>2, <1>3, <1>4 DEF Linked

\* An entry is given another name.
LEMMA RenameLinked ==
    ASSUME NEW K, NEW T \in Views, NEW R, Linked(K, T, R),
           NEW d \in R, NEW s \in Slots, InUse(T, d, s),
           NEW name \in Names,
           \A r \in Slots : InUse(T, d, r) /\ T[d][r].name = name
                              => K[T[d][r].inode] # K[T[d][s].inode],
           NEW T2, T2[d][s].name = name, T2[d][s].inode = T[d][s].inode,
           \A e \in R, r \in Slots : ~(e = d /\ r = s) => T2[e][r] = T[e][r]
    PROVE  Linked(K, T2, R)
<1>1. \A e \in R, r \in Slots : InUse(T2, e, r) =>
         /\ InUse(T, e, r) /\ T2[e][r].inode = T[e][r].inode
         /\ ~(e = d /\ r = s) => T2[e][r].name = T[e][r].name
         /\ e = d /\ r = s => T2[e][r].name = name
  BY DEF InUse
<1>2. Refers(K, T2, R)
  <2> SUFFICES ASSUME NEW e \in R, NEW r \in Slots, InUse(T2, e, r)
               PROVE  /\ T2[e][r].name \in Names
                      /\ T2[e][r].inode # 0
                      /\ K[T2[e][r].inode] # "none"
                      /\ K[T2[e][r].inode] = "dir" => T2[e][r].inode \in R
    BY DEF Refers
  <2> QED BY <1>1 DEF Linked, Refers
<1>3. Unshared(T2, R)
  BY <1>1 DEF Linked, Unshared
<1>4. Telling(K, T2, R)
  <2> SUFFICES ASSUME NEW e \in R, NEW r \in Slots, NEW q \in Slots,
                      InUse(T2, e, r), InUse(T2, e, q), T2[e][r].name = T2[e][q].name,
                      K[T2[e][r].inode] = K[T2[e][q].inode]
               PROVE  r = q
    BY DEF Telling
  <2> QED BY <1>1 DEF Linked, Telling
<1> QED BY <1>2, <1>3, <1>4 DEF Linked

\* What no entry refers to any more is freed.
LEMMA FreeLinked ==
    ASSUME NEW K \in [Inodes -> Kind], NEW T \in Views, NEW R, Linked(K, T, R),
           NEW i \in Inodes, i # 0,
           \A d \in R, s \in Slots : InUse(T, d, s) => T[d][s].inode # i
    PROVE  Linked([K EXCEPT ![i] = "none"], T, R \ {i})
<1> DEFINE K2 == [K EXCEPT ![i] = "none"]
           Q == R \ {i}
<1>1. Q \in SUBSET Inodes /\ 0 \in Q /\ Q \subseteq R /\ R \in SUBSET Inodes
  BY DEF Linked
<1>2. \A j \in Inodes : j # i => K2[j] = K[j]
  OBVIOUS
<1>3. \A d \in R, s \in Slots : T[d][s].inode \in Inodes
  BY <1>1 DEF Views, Tables, Entries
<1>4. \A d \in R : K[d] = "dir"
  BY DEF Linked
<1>5. \A d \in Q : K2[d] = "dir"
  BY <1>1, <1>2, <1>4
<1>6. \A j \in R : j # i => j \in Q
  OBVIOUS
<1> HIDE DEF K2, Q
<1>7. \A d \in R, s \in Slots : InUse(T, d, s) => K2[T[d][s].inode] = K[T[d][s].inode]
  BY <1>2, <1>3
<1>8. Refers(K2, T, Q)
  BY <1>1, <1>6, <1>7 DEF Linked, Refers
<1>9. Unshared(T, Q)
  BY <1>1 DEF Linked, Unshared
<1>10. Telling(K2, T, Q)
  BY <1>1, <1>7 DEF Linked, Telling
<1> QED BY <1>1, <1>5, <1>8, <1>9, <1>10 DEF Linked, K2, Q

-----------------------------------------------------------------------------
(* What the helpers do to kinds and tables *)

LEMMA ViewTypes ==
    ASSUME NEW st \in FsStates
    PROVE  /\ View(st) \in Views /\ Kinds(st) \in [Inodes -> Kind]
           /\ \A d \in Inodes : View(st)[d] \in Tables
           /\ st.sb => \A d \in Inodes : load_dir_block(st, d) = View(st)[d]
           /\ \A i \in Inodes : Kinds(st)[i] = st.inodes[i].type
<1>1. st.inodes \in [Inodes -> InodeRecords] /\ st.blocks \in [Blocks -> BlockRecords]
  BY DEF FsStates
<1>2. \A d \in Inodes : st.inodes[d].block \in Blocks /\ st.inodes[d].type \in Kind
  BY <1>1 DEF InodeRecords, Kind
<1>3. \A d \in Inodes : View(st)[d] \in Tables
  BY <1>1, <1>2 DEF View, BlockRecords
<1>4. View(st) \in Views
  BY <1>3 DEF View, Views
<1>5. Kinds(st) \in [Inodes -> Kind] /\ \A i \in Inodes : Kinds(st)[i] = st.inodes[i].type
  BY <1>2 DEF Kinds
<1>6. st.sb => \A d \in Inodes : load_dir_block(st, d) = View(st)[d]
  BY DEF load_dir_block, View
<1> QED BY <1>3, <1>4, <1>5, <1>6

\* A block in use is the block of one inode.
LEMMA OwnBlock ==
    ASSUME NEW st \in Tidy, NEW i \in Inodes, st.inodes[i].type # "none"
    PROVE  /\ st \in FsStates
           /\ st.inodes[i].block \in Blocks /\ st.inodes[i].block # 0
           /\ st.inodes[i].block \in st.bitmap
           /\ \A j \in Inodes : j # i => st.inodes[j].block # st.inodes[i].block
BY TableTypes DEF Tidy, Accounts

\* s has the kinds of st, and the tables of what is in use but those of X.
Alike(st, s, X) ==
    /\ s \in Tidy /\ s.sb
    /\ Kinds(s) = Kinds(st)
    /\ \A e \in Inodes : st.inodes[e].type # "none" /\ e \notin X => View(s)[e] = View(st)[e]

LEMMA AlikeTables ==
    ASSUME NEW st, NEW s \in Tidy, SameTables(st, s), st.sb, NEW X,
           \A e \in Inodes : st.inodes[e].type # "none" /\ e \notin X
              => s.blocks[st.inodes[e].block] = st.blocks[st.inodes[e].block]
    PROVE  Alike(st, s, X)
BY DEF Alike, SameTables, Kinds, View

LEMMA WriteView ==
    ASSUME NEW st \in Tidy, st.sb, NEW b \in Blocks, NEW blk \in BlockRecords,
           NEW X, \A e \in Inodes : st.inodes[e].block = b /\ b # 0 => e \in X,
           NEW s, s = disk_write_lba(st, b, blk)
    PROVE  /\ Alike(st, s, X) /\ s.inodes = st.inodes
           /\ \A e \in Inodes : st.inodes[e].block = b => View(s)[e] = blk.table
<1>1. st \in FsStates
  BY DEF Tidy
<1>2. /\ SameTables(st, s)
      /\ s.blocks[b] = blk /\ \A c \in Blocks \ {b} : s.blocks[c] = st.blocks[c]
  BY <1>1, WriteGives
<1>3. s \in Tidy
  BY WriteTidy
<1>4. ASSUME NEW e \in Inodes, st.inodes[e].type # "none", e \notin X
      PROVE  s.blocks[st.inodes[e].block] = st.blocks[st.inodes[e].block]
  BY <1>2, <1>4, OwnBlock
<1>5. s.inodes = st.inodes
  BY <1>2 DEF SameTables
<1> QED BY <1>2, <1>3, <1>4, <1>5, AlikeTables DEF View

LEMMA WriteDirView ==
    ASSUME NEW st \in Tidy, st.sb, NEW d \in Inodes, st.inodes[d].type # "none",
           NEW t \in Tables, NEW s, s = write_dir_block(st, d, t)
    PROVE  Alike(st, s, {d}) /\ s.inodes = st.inodes /\ View(s)[d] = t
<1>1. st \in FsStates
  BY DEF Tidy
<1>2. /\ SameTables(st, s)
      /\ s.blocks[st.inodes[d].block].table = t
      /\ \A c \in Blocks \ {st.inodes[d].block} : s.blocks[c] = st.blocks[c]
  BY <1>1, WriteDirGives
<1>3. s \in Tidy
  BY WriteDirTidy
<1>4. ASSUME NEW e \in Inodes, st.inodes[e].type # "none", e \notin {d}
      PROVE  s.blocks[st.inodes[e].block] = st.blocks[st.inodes[e].block]
  BY <1>2, <1>4, OwnBlock
<1>5. s.inodes = st.inodes
  BY <1>2 DEF SameTables
<1> QED BY <1>2, <1>3, <1>4, <1>5, AlikeTables DEF View

LEMMA FlushView ==
    ASSUME NEW st \in Tidy, st.sb
    PROVE  /\ Flush(st) \in Tidy /\ Flush(st).sb
           /\ Kinds(Flush(st)) = Kinds(st) /\ View(Flush(st)) = View(st)
           /\ Flush(st).inodes = st.inodes
<1>1. SameTables(st, Flush(st)) /\ Flush(st).blocks = st.blocks
  BY FlushGives DEF Tidy
<1> QED BY <1>1, FlushTidy DEF SameTables, Kinds, View

LEMMA SizeView ==
    ASSUME NEW st \in Tidy, st.sb, NEW i \in Inodes, NEW size \in Nat,
           NEW s, s = [st EXCEPT !.inodes[i].size = size]
    PROVE  /\ s \in Tidy /\ s.sb /\ Kinds(s) = Kinds(st) /\ View(s) = View(st)
           /\ \A j \in Inodes : s.inodes[j].block = st.inodes[j].block
<1>1. st \in FsStates /\ st.inodes \in [Inodes -> InodeRecords]
  BY DEF Tidy, FsStates
<1>2. s \in Tidy
  BY SizeTidy
<1>3. s.blocks = st.blocks /\ s.sb
  BY <1>1 DEF FsStates
<1>4. s.inodes = [st.inodes EXCEPT ![i].size = size]
  BY <1>1 DEF FsStates
<1>5. \A j \in Inodes : s.inodes[j].type = st.inodes[j].type
                        /\ s.inodes[j].block = st.inodes[j].block
  BY <1>1, <1>4 DEF InodeRecords
<1> QED BY <1>2, <1>3, <1>5 DEF Kinds, View

LEMMA ClaimView ==
    ASSUME NEW st \in Tidy, st.sb, NEW type \in {"file", "dir"}, NEW size \in Nat,
           NEW i, i = alloc_inode_raw(st), NEW b, b = alloc_block_raw(st), i # 0, b # 0,
           NEW s, s = Claim(st, i, b, type, size)
    PROVE  /\ s \in Tidy /\ s.sb /\ i \in Inodes /\ b \in Blocks /\ Kinds(st)[i] = "none"
           /\ Kinds(s) = [Kinds(st) EXCEPT ![i] = type]
           /\ s.inodes[i].block = b /\ s.inodes[i].type = type
           /\ \A e \in Inodes : Kinds(st)[e] # "none"
                => View(s)[e] = View(st)[e] /\ s.inodes[e] = st.inodes[e] /\ e # i
           /\ s.blocks = st.blocks
           /\ \A e \in Inodes : e # i => s.inodes[e].block # b
<1> DEFINE r == [type |-> type, size |-> size, block |-> b]
<1>1. st \in FsStates /\ Accounts(st.inodes, st.bitmap)
  BY DEF Tidy
<1>2. s \in Tidy
  BY ClaimTidy
<1>3. i \in Inodes /\ st.inodes[i].type = "none" /\ b \in Blocks \ st.bitmap
  BY <1>1, Lookups, FreeInode, BlockTypes
<1>4. s = [st EXCEPT !.bitmap = @ \union {b}, !.inodes[i] = r]
  BY DEF Claim, mark_block_used
<1>5. r.type = type /\ r.block = b
  OBVIOUS
<1> HIDE DEF r
<1>6. /\ s.sb /\ s.blocks = st.blocks
      /\ s.inodes = [st.inodes EXCEPT ![i] = r]
  BY <1>1, <1>4 DEF FsStates
<1>7. st.inodes \in [Inodes -> InodeRecords]
  BY <1>1 DEF FsStates
<1>8. s.inodes[i] = r /\ \A e \in Inodes \ {i} : s.inodes[e] = st.inodes[e]
  BY <1>3, <1>6, <1>7
<1> HIDE <1>4
<1>9. Kinds(s) = [Kinds(st) EXCEPT ![i] = type]
  BY <1>3, <1>5, <1>8 DEF Kinds
<1>10. Kinds(st)[i] = "none"
  BY <1>3 DEF Kinds
<1>11. ASSUME NEW e \in Inodes, Kinds(st)[e] # "none"
       PROVE  View(s)[e] = View(st)[e] /\ s.inodes[e] = st.inodes[e] /\ e # i
  BY <1>6, <1>8, <1>10, <1>11 DEF View
<1>12. \A e \in Inodes : e # i => s.inodes[e].block # b
  BY <1>1, <1>3, <1>8 DEF Accounts
<1> QED BY <1>2, <1>3, <1>5, <1>6, <1>8, <1>9, <1>10, <1>11, <1>12

LEMMA ReleasedView ==
    ASSUME NEW st \in Tidy, st.sb, NEW i \in Inodes, st.inodes[i].type # "none",
           NEW s, s = Released(st, i).final
    PROVE  /\ s \in Tidy /\ s.sb
           /\ Kinds(s) = [Kinds(st) EXCEPT ![i] = "none"]
           /\ \A e \in Inodes : Kinds(st)[e] # "none" /\ e # i
                => View(s)[e] = View(st)[e] /\ s.inodes[e] = st.inodes[e]
<1> DEFINE b == st.inodes[i].block
           s1 == mark_block_free(st, b)
           s2 == disk_write_lba(s1, b, ZeroBlock)
<1>1. /\ st \in FsStates /\ b \in Blocks /\ b # 0
      /\ \A j \in Inodes : j # i => st.inodes[j].block # b
  BY OwnBlock
<1>2. s = [s2 EXCEPT !.inodes[i] = NoInode]
  BY <1>1 DEF Released
<1>3. s1 \in FsStates /\ s1.inodes = st.inodes /\ s1.sb /\ s1.blocks = st.blocks
  BY <1>1 DEF mark_block_free, FsStates
<1> HIDE DEF s1
<1>4. /\ SameTables(s1, s2) /\ \A c \in Blocks \ {b} : s2.blocks[c] = s1.blocks[c]
  BY <1>1, <1>3, WriteGives, BlockTypes
<1>5. /\ s2.sb /\ s2 \in FsStates /\ s2.inodes = st.inodes
      /\ \A c \in Blocks \ {b} : s2.blocks[c] = st.blocks[c]
  BY <1>3, <1>4 DEF SameTables
<1> HIDE DEF s2
<1>6. s.sb /\ s.blocks = s2.blocks /\ s.inodes = [st.inodes EXCEPT ![i] = NoInode]
  BY <1>2, <1>5 DEF FsStates
<1>7. st.inodes \in [Inodes -> InodeRecords] /\ NoInode.type = "none"
  BY <1>1 DEF FsStates, NoInode
<1>8. s.inodes[i] = NoInode /\ \A e \in Inodes \ {i} : s.inodes[e] = st.inodes[e]
  BY <1>6, <1>7
<1>9. Kinds(s) = [Kinds(st) EXCEPT ![i] = "none"]
  BY <1>7, <1>8 DEF Kinds
<1>10. ASSUME NEW e \in Inodes, Kinds(st)[e] # "none", e # i
       PROVE  View(s)[e] = View(st)[e] /\ s.inodes[e] = st.inodes[e]
  <2>1. st.inodes[e].block # b /\ st.inodes[e].block \in Blocks
    BY <1>1, <1>10, TableTypes
  <2>2. s.inodes[e] = st.inodes[e]
    BY <1>8, <1>10
  <2> QED BY <1>5, <1>6, <2>1, <2>2 DEF View
<1>11. s \in Tidy
  BY ReleasedTidy
<1> QED BY <1>6, <1>9, <1>10, <1>11

-----------------------------------------------------------------------------
(* The calls keep the tree linked, whether they succeed or not *)

Orderly == {st \in Tidy : st.sb /\ \E R : Linked(Kinds(st), View(st), R)}

\* What find_dir_entry returns, and what it means when it returns none.
Found(st, t, name, type, f) ==
    /\ f \in Slots /\ t[f].name # NoName /\ t[f].name = name
    /\ t[f].inode \in Inodes /\ Kinds(st)[t[f].inode] = type
Missing(st, t, name, type) ==
    \A s \in Slots : t[s].name # NoName /\ t[s].name = name => Kinds(st)[t[s].inode] # type

LEMMA Searches ==
    ASSUME NEW st \in FsStates, NEW t \in Tables, NEW name, NEW type
    PROVE  \/ /\ find_dir_entry(t, st.inodes, name, type) # 0
              /\ Found(st, t, name, type, find_dir_entry(t, st.inodes, name, type))
           \/ /\ find_dir_entry(t, st.inodes, name, type) = 0
              /\ Missing(st, t, name, type)
<1> DEFINE F == {s \in Slots : /\ t[s].name # NoName
                               /\ t[s].name = name
                               /\ st.inodes[t[s].inode].type = type}
<1>1. F \in SUBSET Nat /\ 0 \notin F
  BY Numbers
<1>2. \A s \in Slots : t[s].inode \in Inodes
  BY DEF Tables, Entries
<1>3. \A s \in Slots : Kinds(st)[t[s].inode] = st.inodes[t[s].inode].type
  BY <1>2 DEF Kinds
<1> DEFINE f == find_dir_entry(t, st.inodes, name, type)
<1>4. f = FirstOf(F)
  BY DEF find_dir_entry
<1>5. \A s \in F : s \in Slots /\ t[s].name # NoName /\ t[s].name = name /\ Kinds(st)[t[s].inode] = type
  BY <1>3
<1>6. \A s \in Slots : t[s].name # NoName /\ t[s].name = name /\ Kinds(st)[t[s].inode] = type => s \in F
  BY <1>3
<1> HIDE DEF F, f
<1>8. f = 0 => F = {}
  BY <1>1, <1>4, MinOf DEF FirstOf
<1>9. f # 0 => f \in F
  BY <1>1, <1>4, FirstOfIn
<1>10. CASE f # 0
  BY <1>2, <1>5, <1>9, <1>10 DEF Found, f
<1>11. CASE f = 0
  BY <1>6, <1>8, <1>11 DEF Missing, f
<1> QED BY <1>10, <1>11

LEMMA FreeSlot ==
    ASSUME NEW t \in Tables, free_slot(t) # 0
    PROVE  free_slot(t) \in Slots /\ t[free_slot(t)].name = NoName
<1> DEFINE G == {s \in Slots : t[s].name = NoName}
<1>1. G \in SUBSET Nat
  BY Numbers
<1> HIDE DEF G
<1>2. FirstOf(G) # 0 => FirstOf(G) \in G
  BY <1>1, FirstOfIn
<1>3. free_slot(t) = FirstOf(G)
  BY DEF free_slot, G
<1> QED BY <1>2, <1>3 DEF G

\* A path's directory is in R, and a file that is found is one.
LEMMA PathsLead ==
    ASSUME NEW st \in Tidy, st.sb, NEW R, Linked(Kinds(st), View(st), R)
    PROVE  /\ \A name : SubDir(st, name) \in R \union {NoDir}
           /\ \A path : DirOf(st, path) \in R \union {NoDir}
           /\ \A src, dst : Into(st, src, dst).dir \in R \union {NoDir}
           /\ \A d \in R \union {NoDir} : Usable(st, d) => d \in R
           /\ R \in SUBSET Inodes /\ 0 \in R
           /\ \A d \in R : st.inodes[d].type = "dir" /\ st.inodes[d].type # "none"
<1>1. st \in FsStates
  BY DEF Tidy
<1>2. R \in SUBSET Inodes /\ 0 \in R
  BY DEF Linked
<1>3. \A d \in R : load_dir_block(st, d) = View(st)[d] /\ View(st)[d] \in Tables
  BY <1>1, <1>2, ViewTypes
<1>4. ASSUME NEW name PROVE SubDir(st, name) \in R \union {NoDir}
  <2> DEFINE t == load_dir_block(st, 0)
             f == find_dir_entry(t, st.inodes, name, "dir")
  <2>1. t = View(st)[0] /\ t \in Tables
    BY <1>2, <1>3
  <2> HIDE DEF t
  <2>2. f # 0 => Found(st, t, name, "dir", f)
    BY <1>1, <2>1, Searches
  <2> HIDE DEF f
  <2>3. f # 0 => t[f].inode \in R
    BY <1>2, <2>1, <2>2 DEF Linked, Refers, InUse, Found
  <2>4. SubDir(st, name) = IF f = 0 THEN NoDir ELSE t[f].inode
    BY DEF SubDir, t, f
  <2> QED BY <2>3, <2>4
<1>5. \A path : DirOf(st, path) \in R \union {NoDir}
  BY <1>2, <1>4 DEF DirOf
<1>6. \A src, dst : Into(st, src, dst).dir \in R \union {NoDir}
  BY <1>4, <1>5 DEF Into
<1>7. \A d \in R \union {NoDir} : Usable(st, d) => d \in R
  BY Numbers DEF Usable, NoDir
<1>8. \A d \in R : st.inodes[d].type = "dir" /\ st.inodes[d].type # "none"
  BY <1>1, <1>2, ViewTypes DEF Linked
<1> QED BY <1>2, <1>4, <1>5, <1>6, <1>7, <1>8

\* An entry is written.
LEMMA EnterLinked ==
    ASSUME NEW st \in Tidy, st.sb, NEW R, Linked(Kinds(st), View(st), R),
           NEW d \in R, NEW t, t = View(st)[d], free_slot(t) # 0,
           NEW name \in Names, NEW i \in Inodes, i # 0,
           Kinds(st)[i] # "none", Kinds(st)[i] = "dir" => i \in R,
           \A e \in R, r \in Slots : InUse(View(st), e, r) => View(st)[e][r].inode # i,
           \A r \in Slots : t[r].name # NoName /\ t[r].name = name
                              => Kinds(st)[t[r].inode] # Kinds(st)[i],
           NEW s, s = write_dir_block(st, d, WithEntry(t, name, i))
    PROVE  s \in Tidy /\ s.sb /\ s.inodes = st.inodes /\ Linked(Kinds(s), View(s), R)
<1> DEFINE K == Kinds(st)
           T == View(st)
           k == free_slot(t)
           w == WithEntry(t, name, i)
<1>1. st \in FsStates /\ R \in SUBSET Inodes
  BY DEF Tidy, Linked
<1>2. T \in Views /\ t \in Tables
  BY <1>1, ViewTypes
<1>3. k \in Slots /\ t[k].name = NoName
  BY <1>2, FreeSlot
<1>4. w \in Tables
  BY <1>2, EntryTypes
<1>5. w[k] = [name |-> name, inode |-> i] /\ \A r \in Slots : r # k => w[r] = t[r]
  BY <1>2, <1>3 DEF WithEntry, Tables
<1>6. \A e \in R : st.inodes[e].type # "none"
  BY PathsLead
<1>7. Alike(st, s, {d}) /\ s.inodes = st.inodes /\ View(s)[d] = w
  BY <1>1, <1>4, <1>6, WriteDirView
<1> HIDE DEF w
<1>8. \A e \in R : e # d => View(s)[e] = T[e]
  BY <1>1, <1>6, <1>7 DEF Alike
<1>9. Kinds(s) = K /\ s \in Tidy /\ s.sb
  BY <1>7 DEF Alike
<1> HIDE DEF K, T, k
<1>10. Linked(K, T, R) /\ t = T[d] /\ K[i] # "none" /\ (K[i] = "dir" => i \in R)
  BY DEF K, T
<1>11. \A e \in R, r \in Slots : InUse(T, e, r) => T[e][r].inode # i
  BY DEF T
<1>12. \A r \in Slots : InUse(T, d, r) /\ T[d][r].name = name => K[T[d][r].inode] # K[i]
  BY DEF T, K, InUse
<1>13. ~InUse(T, d, k)
  BY <1>3, <1>10 DEF InUse
<1> DEFINE T2 == View(s)
<1>14. /\ T2[d][k] = [name |-> name, inode |-> i]
       /\ \A e \in R, r \in Slots : ~(e = d /\ r = k) => T2[e][r] = T[e][r]
  BY <1>5, <1>7, <1>8, <1>10
<1> HIDE DEF T2
<1>15. Linked(K, T2, R)
  BY <1>2, <1>3, <1>10, <1>11, <1>12, <1>13, <1>14, AddLinked
<1> QED BY <1>7, <1>9, <1>15 DEF T2

\* s is st with inode i in use, which no entry of Q refers to yet.
Claimed(st, s, R, Q, i, type) ==
    /\ s \in Tidy /\ s.sb
    /\ Linked(Kinds(s), View(s), Q) /\ R \subseteq Q
    /\ i \in Inodes /\ i # 0 /\ Kinds(st)[i] = "none"
    /\ Kinds(s) = [Kinds(st) EXCEPT ![i] = type]
    /\ type \in {"file", "dir"} /\ (type = "dir" => i \in Q)
    /\ \A e \in R : View(s)[e] = View(st)[e]
    /\ \A e \in Q, r \in Slots : InUse(View(s), e, r) => View(s)[e][r].inode # i

LEMMA NewFile ==
    ASSUME NEW st \in Tidy, st.sb, NEW R, Linked(Kinds(st), View(st), R),
           NEW size \in Nat,
           NEW i, i = alloc_inode_raw(st), NEW b, b = alloc_block_raw(st), i # 0, b # 0,
           NEW s, s = Claim(st, i, b, "file", size)
    PROVE  Claimed(st, s, R, R, i, "file") /\ s.inodes[i].block = b
<1> DEFINE K == Kinds(st)
           T == View(st)
<1>1. st \in FsStates /\ R \in SUBSET Inodes
  BY DEF Tidy, Linked
<1>2. T \in Views /\ K \in [Inodes -> Kind]
  BY <1>1, ViewTypes
<1>3. /\ s \in Tidy /\ s.sb /\ i \in Inodes /\ K[i] = "none"
      /\ Kinds(s) = [K EXCEPT ![i] = "file"]
      /\ s.inodes[i].block = b
      /\ \A e \in Inodes : K[e] # "none" => View(s)[e] = T[e]
  BY ClaimView
<1>4. \A e \in R : K[e] # "none"
  BY DEF Linked
<1>5. \A e \in R : View(s)[e] = T[e]
  BY <1>1, <1>3, <1>4
<1>6. Linked(K, T, R)
  OBVIOUS
<1> HIDE DEF K, T
<1> DEFINE type == "file"
           K2 == [K EXCEPT ![i] = type]
<1>70. type \in Kind
  BY DEF Kind
<1> HIDE DEF type
<1>72. Linked([K EXCEPT ![i] = type], T, R)
  BY <1>2, <1>3, <1>6, <1>70, ClaimLinked
<1>73. \A d \in R, r \in Slots : InUse(T, d, r) => T[d][r].inode # i
  BY <1>2, <1>3, <1>6, <1>70, ClaimLinked
<1>7. /\ Linked(K2, T, R)
      /\ \A d \in R, r \in Slots : InUse(T, d, r) => T[d][r].inode # i
  BY <1>72, <1>73
<1>71. Kinds(s) = K2
  BY <1>3 DEF type
<1> HIDE DEF K2
<1>8. Linked(Kinds(s), View(s), R)
  BY <1>5, <1>7, <1>71, SameLinked
<1>9. \A e \in R, r \in Slots : InUse(View(s), e, r) => View(s)[e][r].inode # i
  BY <1>5, <1>7 DEF InUse
<1> QED BY <1>3, <1>5, <1>8, <1>9 DEF Claimed, K, T

\* A new directory's block is cleared, and R has it then.
LEMMA NewDir ==
    ASSUME NEW st \in Tidy, st.sb, NEW R, Linked(Kinds(st), View(st), R),
           NEW i, i = alloc_inode_raw(st), NEW b, b = alloc_block_raw(st), i # 0, b # 0,
           NEW s1, s1 = Claim(st, i, b, "dir", 0),
           NEW s2, s2 = disk_write_lba(s1, b, ZeroBlock)
    PROVE  /\ Claimed(st, s2, R, R \union {i}, i, "dir")
           /\ s1 \in Orderly
           /\ \A r \in Slots : ~InUse(View(s2), i, r)
<1> DEFINE K == Kinds(st)
           T == View(st)
<1>1. st \in FsStates /\ R \in SUBSET Inodes
  BY DEF Tidy, Linked
<1>2. T \in Views /\ K \in [Inodes -> Kind]
  BY <1>1, ViewTypes
<1>3. /\ s1 \in Tidy /\ s1.sb /\ i \in Inodes /\ b \in Blocks /\ K[i] = "none"
      /\ Kinds(s1) = [K EXCEPT ![i] = "dir"]
      /\ s1.inodes[i].block = b /\ s1.inodes[i].type = "dir"
      /\ \A e \in Inodes : K[e] # "none" => View(s1)[e] = T[e] /\ s1.inodes[e] = st.inodes[e] /\ e # i
      /\ \A e \in Inodes : e # i => s1.inodes[e].block # b
  BY Numbers, ClaimView
<1>4. \A e \in R : K[e] # "none" /\ st.inodes[e].type # "none" /\ e # i
  BY <1>1, <1>3 DEF Linked, Kinds
<1>5. \A e \in R : View(s1)[e] = T[e] /\ s1.inodes[e].type # "none"
  BY <1>1, <1>3, <1>4
<1>6. Linked(K, T, R)
  OBVIOUS
<1> HIDE DEF K, T
<1> DEFINE type == "dir"
           K2 == [K EXCEPT ![i] = type]
<1>70. type \in Kind
  BY DEF Kind
<1> HIDE DEF type
<1>72. Linked([K EXCEPT ![i] = type], T, R)
  BY <1>2, <1>3, <1>6, <1>70, ClaimLinked
<1>73. \A d \in R, r \in Slots : InUse(T, d, r) => T[d][r].inode # i
  BY <1>2, <1>3, <1>6, <1>70, ClaimLinked
<1>7. /\ Linked(K2, T, R)
      /\ \A d \in R, r \in Slots : InUse(T, d, r) => T[d][r].inode # i
  BY <1>72, <1>73
<1>71. Kinds(s1) = K2
  BY <1>3 DEF type
<1> HIDE DEF K2
<1>8. Linked(Kinds(s1), View(s1), R)
  BY <1>5, <1>7, <1>71, SameLinked
<1>9. s1 \in Orderly
  BY <1>3, <1>8 DEF Orderly
<1>10. ZeroBlock \in BlockRecords /\ ZeroBlock.table = EmptyTable
  BY BlockTypes, DecodedAssumption DEF ZeroBlock, TextBlock
<1>11. /\ Alike(s1, s2, {i})
       /\ \A e \in Inodes : s1.inodes[e].block = b => View(s2)[e] = ZeroBlock.table
  BY <1>3, <1>10, WriteView
<1>12. /\ s2 \in Tidy /\ s2.sb /\ Kinds(s2) = Kinds(s1)
       /\ \A e \in R : View(s2)[e] = View(s1)[e]
       /\ View(s2)[i] = EmptyTable
  BY <1>1, <1>3, <1>4, <1>5, <1>10, <1>11 DEF Alike
<1>13. Linked(Kinds(s2), View(s2), R)
  BY <1>8, <1>12, SameLinked
<1>14. View(s2) \in Views /\ Kinds(s2)[i] = "dir"
  BY <1>2, <1>3, <1>12, ViewTypes DEF Tidy
<1>15. Linked(Kinds(s2), View(s2), R \union {i})
  BY <1>3, <1>12, <1>13, <1>14, ExtendLinked
<1>16. \A r \in Slots : ~InUse(View(s2), i, r)
  BY <1>12 DEF InUse, EmptyTable, NoEntry
<1>17. \A e \in R \union {i}, r \in Slots : InUse(View(s2), e, r) => View(s2)[e][r].inode # i
  BY <1>5, <1>7, <1>12, <1>16 DEF InUse
<1> QED BY <1>3, <1>5, <1>9, <1>12, <1>15, <1>16, <1>17 DEF Claimed, K, T

LEMMA ClaimedEnters ==
    ASSUME NEW st \in Tidy, st.sb, NEW R, Linked(Kinds(st), View(st), R),
           NEW u, NEW Q, NEW i, NEW type, Claimed(st, u, R, Q, i, type),
           NEW d \in R, NEW t, t = View(st)[d], free_slot(t) # 0,
           NEW name \in Names, Missing(st, t, name, type),
           NEW s, s = write_dir_block(u, d, WithEntry(t, name, i))
    PROVE  s \in Tidy /\ s.sb /\ s.inodes = u.inodes /\ Linked(Kinds(s), View(s), Q)
<1> DEFINE K == Kinds(st)
           K2 == Kinds(u)
<1>1. st \in FsStates /\ R \in SUBSET Inodes
  BY DEF Tidy, Linked
<1>2. K \in [Inodes -> Kind] /\ t \in Tables
  BY <1>1, ViewTypes
<1>3. \A r \in Slots : t[r].inode \in Inodes
  BY <1>2 DEF Tables, Entries
<1>4. View(u)[d] = t /\ d \in Q /\ i \in Inodes
  BY DEF Claimed
<1>5. K2 = [K EXCEPT ![i] = type]
  BY DEF Claimed
<1>6. \A r \in Slots : t[r].name # NoName => t[r].inode # i
  BY <1>4 DEF Claimed, InUse
<1>7. K2[i] = type /\ \A j \in Inodes : j # i => K2[j] = K[j]
  BY <1>2, <1>4, <1>5
<1> HIDE DEF K2, K
<1>8. \A r \in Slots : t[r].name # NoName /\ t[r].name = name => K[t[r].inode] # type
  BY DEF Missing, K
<1>9. \A r \in Slots : t[r].name # NoName /\ t[r].name = name => K2[t[r].inode] # K2[i]
  BY <1>3, <1>6, <1>7, <1>8
<1>10. K2[i] # "none" /\ (K2[i] = "dir" => i \in Q)
  BY <1>7 DEF Claimed
<1>11. /\ u \in Tidy /\ u.sb /\ Linked(K2, View(u), Q) /\ i # 0
       /\ \A e \in Q, r \in Slots : InUse(View(u), e, r) => View(u)[e][r].inode # i
  BY DEF Claimed, K2
<1> QED BY <1>4, <1>9, <1>10, <1>11, EnterLinked DEF K2

LEMMA OrderlyFlush ==
    ASSUME NEW st \in Tidy, st.sb, NEW R, Linked(Kinds(st), View(st), R)
    PROVE  st \in Orderly /\ Flush(st) \in Orderly
BY FlushView DEF Orderly

LEMMA MakeDirOrderly ==
    ASSUME NEW st \in Tidy, st.sb, NEW R, Linked(Kinds(st), View(st), R),
           NEW d \in R, NEW name \in Names
    PROVE  MakeDirIn(st, d, name).final \in Orderly
<1> DEFINE t == load_dir_block(st, d)
           i == alloc_inode_raw(st)
           b == alloc_block_raw(st)
           s1 == Claim(st, i, b, "dir", 0)
           s2 == disk_write_lba(s1, b, ZeroBlock)
           s3 == write_dir_block(s2, d, WithEntry(t, name, i))
           room == /\ i # 0 /\ b # 0
                   /\ find_dir_entry(t, st.inodes, name, "dir") = 0
                   /\ free_slot(t) # 0
<1>1. st \in FsStates /\ R \in SUBSET Inodes
  BY DEF Tidy, Linked
<1>2. t = View(st)[d] /\ t \in Tables
  BY <1>1, ViewTypes
<1>3. ASSUME room PROVE Flush(s3) \in Orderly
  <2> HIDE DEF t
  <2>1. Claimed(st, s2, R, R \union {i}, i, "dir")
    BY <1>3, NewDir
  <2>2. Missing(st, t, name, "dir")
    BY <1>1, <1>2, <1>3, Searches
  <2> HIDE DEF i, b, s1, s2
  <2>3. s3 \in Tidy /\ s3.sb /\ Linked(Kinds(s3), View(s3), R \union {i})
    BY <1>2, <1>3, <2>1, <2>2, ClaimedEnters
  <2> QED BY <2>3, OrderlyFlush
<1>4. \/ MakeDirIn(st, d, name) = FlushAndReturn(s3, {st, s1, s2}) /\ room
      \/ MakeDirIn(st, d, name) = Refuse(st)
  BY DEF MakeDirIn
<1>5. st \in Orderly
  BY OrderlyFlush
<1> HIDE DEF s1, s2, s3, room
<1> QED BY <1>3, <1>4, <1>5, EndsTidy

LEMMA MkdirOrderly ==
    ASSUME NEW st \in Orderly, NEW path \in PathRecords
    PROVE  fs_mkdir_path(st, path).final \in Orderly
<1> PICK R : Linked(Kinds(st), View(st), R)
  BY DEF Orderly
<1>1. st \in Tidy /\ st.sb
  BY DEF Orderly
<1> DEFINE d == DirOf(st, path)
<1>2. Usable(st, d) => d \in R
  BY <1>1, PathsLead
<1>3. path.name # NoName => path.name \in Names
  BY DEF PathRecords
<1> HIDE DEF d
<1>4. Usable(st, d) /\ path.name # NoName => MakeDirIn(st, d, path.name).final \in Orderly
  BY <1>1, <1>2, <1>3, MakeDirOrderly
<1>5. \/ fs_mkdir_path(st, path) = Refuse(st)
      \/ /\ fs_mkdir_path(st, path) = MakeDirIn(st, d, path.name)
         /\ Usable(st, d) /\ path.name # NoName
  BY DEF fs_mkdir_path, d
<1> QED BY <1>4, <1>5, EndsTidy

LEMMA CreateOrderly ==
    ASSUME NEW st \in Orderly, NEW name \in Names \union {NoName}
    PROVE  fs_create(st, name).final \in Orderly
<1> PICK R : Linked(Kinds(st), View(st), R)
  BY DEF Orderly
<1> DEFINE t == load_dir_block(st, 0)
           i == alloc_inode_raw(st)
           b == alloc_block_raw(st)
           s1 == Claim(st, i, b, "file", 0)
           s2 == write_dir_block(s1, 0, WithEntry(t, name, i))
           room == /\ name # NoName /\ i # 0 /\ b # 0
                   /\ find_dir_entry(t, st.inodes, name, "file") = 0
                   /\ free_slot(t) # 0
<1>1. st \in FsStates /\ R \in SUBSET Inodes /\ 0 \in R /\ st \in Tidy /\ st.sb
  BY DEF Orderly, Tidy, Linked
<1>2. t = View(st)[0] /\ t \in Tables
  BY <1>1, ViewTypes
<1>3. ASSUME room PROVE Flush(s2) \in Orderly
  <2> HIDE DEF t
  <2>0. 0 \in Nat
    OBVIOUS
  <2>1. Claimed(st, s1, R, R, i, "file")
    BY <1>1, <1>3, <2>0, NewFile
  <2>2. Missing(st, t, name, "file") /\ name \in Names
    BY <1>1, <1>2, <1>3, Searches
  <2> HIDE DEF i, b, s1
  <2>3. s2 \in Tidy /\ s2.sb /\ Linked(Kinds(s2), View(s2), R)
    BY <1>1, <1>2, <1>3, <2>1, <2>2, ClaimedEnters
  <2> QED BY <2>3, OrderlyFlush
<1>4. \/ fs_create(st, name) = FlushAndReturn(s2, {st, s1}) /\ room
      \/ fs_create(st, name) = Refuse(st)
  BY DEF fs_create
<1> HIDE DEF s1, s2, room
<1> QED BY <1>3, <1>4, EndsTidy

\* The data of a file is in no directory's block.
LEMMA FileWritten ==
    ASSUME NEW st \in Tidy, st.sb, NEW R, Linked(Kinds(st), View(st), R),
           NEW i \in Inodes, Kinds(st)[i] = "file", NEW blk \in BlockRecords,
           NEW b, b = st.inodes[i].block,
           NEW s, s = disk_write_lba(st, b, blk)
    PROVE  s \in Tidy /\ s.sb /\ Linked(Kinds(s), View(s), R)
<1>1. i \notin R /\ R \in SUBSET Inodes /\ \A e \in R : st.inodes[e].type # "none"
  BY PathsLead DEF Linked
<1>2. st.inodes[i].type # "none"
  BY DEF Kinds
<1>3. b \in Blocks /\ \A e \in Inodes : st.inodes[e].block = b /\ b # 0 => e \in {i}
  BY <1>2, OwnBlock
<1>4. Alike(st, s, {i})
  BY <1>3, WriteView
<1>5. s \in Tidy /\ s.sb /\ Kinds(s) = Kinds(st) /\ \A e \in R : View(s)[e] = View(st)[e]
  BY <1>1, <1>4 DEF Alike
<1> QED BY <1>5, SameLinked

LEMMA StoreOrderly ==
    ASSUME NEW st \in Tidy, st.sb, NEW R, Linked(Kinds(st), View(st), R),
           NEW d \in R, NEW name \in Names, NEW blk \in BlockRecords, NEW size \in Nat
    PROVE  StoreFile(st, d, name, blk, size).final \in Orderly
<1> DEFINE t == load_dir_block(st, d)
           f == find_dir_entry(t, st.inodes, name, "file")
           b == alloc_block_raw(st)
           i == alloc_inode_raw(st)
           n1 == Claim(st, i, b, "file", size)
           n2 == write_dir_block(n1, d, WithEntry(t, name, i))
           n3 == disk_write_lba(n2, n1.inodes[i].block, blk)
           j == t[f].inode
           o1 == [st EXCEPT !.inodes[j].size = size]
           o2 == write_dir_block(o1, d, t)
           o3 == disk_write_lba(o2, o1.inodes[j].block, blk)
           room == free_slot(t) # 0 /\ i # 0 /\ b # 0
<1>1. st \in FsStates /\ R \in SUBSET Inodes
  BY DEF Tidy, Linked
<1>2. t = View(st)[d] /\ t \in Tables
  BY <1>1, ViewTypes
<1>3. ASSUME f = 0, room PROVE Flush(n3) \in Orderly
  <2> HIDE DEF t
  <2>1. Claimed(st, n1, R, R, i, "file")
    BY <1>3, NewFile
  <2>2. Missing(st, t, name, "file")
    BY <1>1, <1>2, <1>3, Searches
  <2>3. i \in Inodes /\ Kinds(n1)[i] = "file"
    <3>1. i \in Inodes /\ Kinds(n1) = [Kinds(st) EXCEPT ![i] = "file"]
      BY <2>1 DEF Claimed
    <3> HIDE DEF n1, i
    <3> QED BY <1>1, <3>1, ViewTypes
  <2> HIDE DEF f, b, i, n1
  <2>4. n2 \in Tidy /\ n2.sb /\ n2.inodes = n1.inodes /\ Linked(Kinds(n2), View(n2), R)
    BY <1>2, <1>3, <2>1, <2>2, ClaimedEnters
  <2>5. Kinds(n2)[i] = "file" /\ n1.inodes[i].block = n2.inodes[i].block
    BY <2>3, <2>4 DEF Kinds
  <2> HIDE DEF n2
  <2>6. n3 \in Tidy /\ n3.sb /\ Linked(Kinds(n3), View(n3), R)
    BY <2>3, <2>4, <2>5, FileWritten
  <2> QED BY <2>6, OrderlyFlush
<1>4. ASSUME f # 0 PROVE Flush(o3) \in Orderly
  <2> HIDE DEF t
  <2>1. Found(st, t, name, "file", f)
    BY <1>1, <1>2, <1>4, Searches
  <2> HIDE DEF f
  <2>2. j \in Inodes /\ Kinds(st)[j] = "file"
    BY <2>1 DEF Found
  <2> HIDE DEF j
  <2>3. o1 \in Tidy /\ o1.sb /\ Kinds(o1) = Kinds(st) /\ View(o1) = View(st)
    BY <2>2, SizeView
  <2> HIDE DEF o1
  <2>4. Linked(Kinds(o1), View(o1), R) /\ \A e \in R : o1.inodes[e].type # "none"
    BY <2>3, PathsLead
  <2>5. Alike(o1, o2, {d}) /\ o2.inodes = o1.inodes /\ View(o2)[d] = t
    BY <1>1, <1>2, <2>3, <2>4, WriteDirView
  <2> HIDE DEF o2
  <2>6. o2 \in Tidy /\ o2.sb /\ Kinds(o2) = Kinds(o1) /\ \A e \in R : View(o2)[e] = View(o1)[e]
    BY <1>1, <1>2, <2>3, <2>4, <2>5 DEF Alike
  <2>7. Linked(Kinds(o2), View(o2), R) /\ Kinds(o2)[j] = "file"
    BY <2>2, <2>3, <2>4, <2>6, SameLinked
  <2>8. o1.inodes[j].block = o2.inodes[j].block
    BY <2>5
  <2>9. o3 \in Tidy /\ o3.sb /\ Linked(Kinds(o3), View(o3), R)
    BY <2>2, <2>6, <2>7, <2>8, FileWritten
  <2> QED BY <2>9, OrderlyFlush
<1>5. \/ StoreFile(st, d, name, blk, size).final = Flush(n3) /\ f = 0 /\ room
      \/ StoreFile(st, d, name, blk, size).final = Flush(o3) /\ f # 0
      \/ StoreFile(st, d, name, blk, size).final = st
  <2>1. CASE f = 0 /\ room
    BY <2>1 DEF StoreFile, FlushAndReturn, Outcome
  <2>2. CASE f = 0 /\ ~room
    BY <2>2 DEF StoreFile, Refuse, Outcome
  <2>3. CASE f # 0
    BY <2>3 DEF StoreFile, FlushAndReturn, Outcome
  <2> QED BY <2>1, <2>2, <2>3
<1>6. st \in Orderly
  BY OrderlyFlush
<1> HIDE DEF f, n3, o3, room
<1> QED BY <1>3, <1>4, <1>5, <1>6

LEMMA FsWriteOrderly ==
    ASSUME NEW st \in Orderly, NEW path \in PathRecords, NEW text \in Contents
    PROVE  fs_write_path(st, path, text).final \in Orderly
<1> PICK R : Linked(Kinds(st), View(st), R)
  BY DEF Orderly
<1> DEFINE d == DirOf(st, path)
           blk == TextBlock(text)
<1>1. st \in Tidy /\ st.sb
  BY DEF Orderly
<1>2. Usable(st, d) => d \in R
  BY <1>1, PathsLead
<1>3. path.name # NoName => path.name \in Names
  BY DEF PathRecords
<1>4. blk \in BlockRecords /\ LengthOf[text] \in Nat
  BY BlockTypes, LayoutAssumption
<1> HIDE DEF d, blk
<1>5. Usable(st, d) /\ path.name # NoName
        => StoreFile(st, d, path.name, blk, LengthOf[text]).final \in Orderly
  BY <1>1, <1>2, <1>3, <1>4, StoreOrderly
<1>6. \/ fs_write_path(st, path, text) = Refuse(st)
      \/ /\ fs_write_path(st, path, text) = StoreFile(st, d, path.name, blk, LengthOf[text])
         /\ Usable(st, d) /\ path.name # NoName
  BY DEF fs_write_path, d, blk
<1> QED BY <1>5, <1>6, EndsTidy

LEMMA CopyOrderly ==
    ASSUME NEW st \in Orderly, NEW src \in PathRecords, NEW dst \in PathRecords
    PROVE  fs_copy_path(st, src, dst).final \in Orderly
<1> PICK R : Linked(Kinds(st), View(st), R)
  BY DEF Orderly
<1> DEFINE i == FileAt(st, src)
           to == Into(st, src, dst)
           blk == st.blocks[st.inodes[i].block]
           size == st.inodes[i].size
<1>1. st \in Tidy /\ st.sb /\ st \in FsStates
  BY DEF Orderly, Tidy
<1>2. i \in Inodes
  BY <1>1, FileAtType
<1>3. blk \in BlockRecords /\ size \in Nat
  <2> HIDE DEF i
  <2> QED BY <1>1, <1>2 DEF FsStates, InodeRecords
<1>4. /\ Usable(st, to.dir) => to.dir \in R
      /\ to.name # NoName => to.name \in Names
  BY <1>1, PathsLead, PathTypes
<1> HIDE DEF i, to, blk, size
<1>5. Usable(st, to.dir) /\ to.name # NoName
        => StoreFile(st, to.dir, to.name, blk, size).final \in Orderly
  BY <1>1, <1>3, <1>4, StoreOrderly
<1>6. \/ fs_copy_path(st, src, dst) = Refuse(st)
      \/ /\ fs_copy_path(st, src, dst) = StoreFile(st, to.dir, to.name, blk, size)
         /\ Usable(st, to.dir) /\ to.name # NoName
  BY DEF fs_copy_path, i, to, blk, size
<1> QED BY <1>5, <1>6, EndsTidy

\* An entry gets another name where it is.
LEMMA RenamedOrderly ==
    ASSUME NEW st \in Tidy, st.sb, NEW R, Linked(Kinds(st), View(st), R),
           NEW d \in R, NEW t, t = View(st)[d], NEW s \in Slots, t[s].name # NoName,
           NEW name \in Names, Missing(st, t, name, Kinds(st)[t[s].inode]),
           NEW u, u = write_dir_block(st, d, [t EXCEPT ![s].name = name])
    PROVE  u \in Orderly
<1> DEFINE K == Kinds(st)
           T == View(st)
           w == [t EXCEPT ![s].name = name]
<1>1. st \in FsStates /\ R \in SUBSET Inodes
  BY DEF Tidy, Linked
<1>2. T \in Views /\ t \in Tables /\ 0 \in Inodes
  BY <1>1, ViewTypes, Numbers
<1>3. w \in Tables
  BY <1>2, EntryTypes
<1>4. /\ w[s].name = name /\ w[s].inode = t[s].inode
      /\ \A r \in Slots : r # s => w[r] = t[r]
  BY <1>2 DEF Tables, Entries
<1>5. \A e \in R : st.inodes[e].type # "none"
  BY PathsLead
<1>6. Alike(st, u, {d}) /\ View(u)[d] = w
  BY <1>1, <1>3, <1>5, WriteDirView
<1> HIDE DEF w
<1>7. u \in Tidy /\ u.sb /\ Kinds(u) = K /\ \A e \in R : e # d => View(u)[e] = T[e]
  BY <1>1, <1>5, <1>6 DEF Alike
<1>8. Linked(K, T, R) /\ t = T[d]
  OBVIOUS
<1>9. /\ InUse(T, d, s)
      /\ \A r \in Slots : InUse(T, d, r) /\ T[d][r].name = name => K[T[d][r].inode] # K[T[d][s].inode]
  BY DEF Missing, InUse
<1> HIDE DEF K, T
<1> DEFINE T2 == View(u)
<1>10. /\ T2[d][s].name = name /\ T2[d][s].inode = T[d][s].inode
       /\ \A e \in R, r \in Slots : ~(e = d /\ r = s) => T2[e][r] = T[e][r]
  BY <1>4, <1>6, <1>7, <1>8
<1> HIDE DEF T2
<1>11. Linked(K, T2, R)
  BY <1>2, <1>8, <1>9, <1>10, RenameLinked
<1> QED BY <1>7, <1>11 DEF Orderly, T2

\* An entry is cleared: what it referred to is not referred to any more.
LEMMA UnlinkedGives ==
    ASSUME NEW st \in Tidy, st.sb, NEW R, Linked(Kinds(st), View(st), R),
           NEW d \in R, NEW t, t = View(st)[d], NEW s \in Slots, t[s].name # NoName,
           NEW u, u = write_dir_block(st, d, Unlinked(t, s))
    PROVE  /\ u \in Tidy /\ u.sb /\ Kinds(u) = Kinds(st) /\ u.inodes = st.inodes
           /\ Linked(Kinds(u), View(u), R)
           /\ \A e \in R, r \in Slots : InUse(View(u), e, r) => View(u)[e][r].inode # t[s].inode
           /\ \A e \in R : e # d => View(u)[e] = View(st)[e]
<1> DEFINE K == Kinds(st)
           T == View(st)
           w == Unlinked(t, s)
<1>1. st \in FsStates /\ R \in SUBSET Inodes
  BY DEF Tidy, Linked
<1>2. T \in Views /\ t \in Tables /\ 0 \in Inodes /\ NoName \in Names \union {NoName}
  BY <1>1, ViewTypes, Numbers
<1>3. w \in Tables
  BY <1>2, EntryTypes
<1>4. /\ w[s].name = NoName
      /\ \A r \in Slots : r # s => w[r] = t[r]
  BY <1>2 DEF Tables, Unlinked, NoEntry
<1>5. \A e \in R : st.inodes[e].type # "none"
  BY PathsLead
<1>60. d \in Inodes /\ st.inodes[d].type # "none" /\ u = write_dir_block(st, d, w)
  BY <1>1, <1>5
<1>6. Alike(st, u, {d}) /\ View(u)[d] = w /\ u.inodes = st.inodes
  <2> HIDE DEF w
  <2> QED BY <1>3, <1>60, WriteDirView
<1> HIDE DEF w
<1>7. u \in Tidy /\ u.sb /\ Kinds(u) = K /\ \A e \in R : e # d => View(u)[e] = T[e]
  BY <1>1, <1>5, <1>6 DEF Alike
<1>8. Linked(K, T, R) /\ t = T[d] /\ InUse(T, d, s)
  BY DEF InUse
<1> HIDE DEF K, T
<1> DEFINE T2 == View(u)
<1>9. Dropped(T, T2, R, d, s)
  BY <1>4, <1>6, <1>7, <1>8 DEF Dropped
<1> HIDE DEF T2
<1>10. Linked(K, T2, R)
  BY <1>1, <1>2, <1>8, <1>9, DropLinked
<1>11. \A e \in R, r \in Slots : InUse(T2, e, r) => InUse(T, e, r) /\ ~(e = d /\ r = s) /\ T2[e][r] = T[e][r]
  BY <1>9 DEF InUse, Dropped
<1>12. \A e \in R, r \in Slots : InUse(T2, e, r) => T2[e][r].inode # t[s].inode
  BY <1>8, <1>11 DEF Linked, Unshared
<1> QED BY <1>6, <1>7, <1>10, <1>12 DEF T2, K, T

\* A move to another directory: the entry is cleared in the one and written
\* in the other.
LEMMA MovedOrderly ==
    ASSUME NEW st \in Tidy, st.sb, NEW R, Linked(Kinds(st), View(st), R),
           NEW d \in R, NEW t, t = View(st)[d], NEW s \in Slots, t[s].name # NoName,
           NEW i, i = t[s].inode,
           NEW e \in R, e # d, NEW td, td = View(st)[e], free_slot(td) # 0,
           NEW name \in Names, Missing(st, td, name, Kinds(st)[i]),
           NEW u, u = write_dir_block(st, d, Unlinked(t, s)),
           NEW v, v = write_dir_block(u, e, WithEntry(td, name, i))
    PROVE  v \in Orderly
<1> DEFINE K == Kinds(u)
<1>1. st \in FsStates /\ R \in SUBSET Inodes
  BY DEF Tidy, Linked
<1>2. /\ u \in Tidy /\ u.sb /\ K = Kinds(st)
      /\ Linked(K, View(u), R)
      /\ \A f \in R, r \in Slots : InUse(View(u), f, r) => View(u)[f][r].inode # i
      /\ \A f \in R : f # d => View(u)[f] = View(st)[f]
  BY UnlinkedGives
<1>3. td = View(u)[e]
  BY <1>2
<1>4. InUse(View(st), d, s) /\ i = View(st)[d][s].inode
  BY DEF InUse
<1>5. i # 0 /\ K[i] # "none" /\ (K[i] = "dir" => i \in R)
  BY <1>2, <1>4 DEF Linked, Refers
<1>6. i \in Inodes
  BY <1>1, ViewTypes DEF Views, Tables, Entries
<1>7. \A r \in Slots : td[r].name # NoName /\ td[r].name = name => K[td[r].inode] # K[i]
  BY <1>2 DEF Missing
<1> HIDE DEF K
<1>8. v \in Tidy /\ v.sb /\ Linked(Kinds(v), View(v), R)
  BY <1>2, <1>3, <1>5, <1>6, <1>7, EnterLinked DEF K
<1> QED BY <1>8 DEF Orderly

LEMMA RenameOrderly ==
    ASSUME NEW st \in Orderly, NEW src \in PathRecords, NEW dst \in PathRecords
    PROVE  fs_rename(st, src, dst).final \in Orderly
<1> PICK R : Linked(Kinds(st), View(st), R)
  BY DEF Orderly
<1> DEFINE sd == DirOf(st, src)
           ts == load_dir_block(st, sd)
           s == MovedSlot(ts, st.inodes, src.name)
           i == ts[s].inode
           type == st.inodes[i].type
           to == IF dst.name = NoName THEN [dir |-> DirOf(st, dst), name |-> src.name]
                                      ELSE Into(st, src, dst)
           td == load_dir_block(st, to.dir)
           u == write_dir_block(st, sd, [ts EXCEPT ![s].name = to.name])
           s1 == write_dir_block(st, sd, Unlinked(ts, s))
           s2 == write_dir_block(s1, to.dir, WithEntry(td, to.name, i))
           goes == /\ src.name # NoName /\ Usable(st, sd) /\ s # 0 /\ Usable(st, to.dir)
                   /\ find_dir_entry(td, st.inodes, to.name, type) = 0
<1>1. st \in Tidy /\ st.sb /\ st \in FsStates /\ R \in SUBSET Inodes
  BY DEF Orderly, Tidy, Linked
<1>2. /\ Usable(st, sd) => sd \in R
      /\ Usable(st, to.dir) => to.dir \in R
  BY <1>1, PathsLead
<1>3. src.name # NoName => to.name \in Names
  <2>1. /\ src.name \in Names \union {NoName} /\ dst.name \in Names \union {NoName}
    BY DEF PathRecords
  <2> QED BY <2>1 DEF Into
<1>4. \/ fs_rename(st, src, dst).final = st
      \/ fs_rename(st, src, dst).final = u /\ goes /\ to.dir = sd
      \/ fs_rename(st, src, dst).final = s2 /\ goes /\ to.dir # sd /\ free_slot(td) # 0
  BY DEF fs_rename, Refuse, Outcome
<1>5. ASSUME goes
      PROVE  /\ ts = View(st)[sd] /\ ts \in Tables /\ td = View(st)[to.dir] /\ td \in Tables
             /\ s \in Slots /\ ts[s].name # NoName /\ i \in Inodes /\ type = Kinds(st)[i]
             /\ Missing(st, td, to.name, Kinds(st)[i])
  <2>1. sd \in R /\ to.dir \in R
    BY <1>2, <1>5
  <2> HIDE DEF sd, to
  <2>2. ts = View(st)[sd] /\ ts \in Tables /\ td = View(st)[to.dir] /\ td \in Tables
    BY <1>1, <2>1, ViewTypes
  <2> HIDE DEF ts, td
  <2>3. \/ Found(st, ts, src.name, "file", s)
        \/ Found(st, ts, src.name, "dir", s)
    <3> DEFINE f == find_dir_entry(ts, st.inodes, src.name, "file")
               g == find_dir_entry(ts, st.inodes, src.name, "dir")
    <3>1. f # 0 => Found(st, ts, src.name, "file", f)
      BY <1>1, <2>2, Searches
    <3>2. g # 0 => Found(st, ts, src.name, "dir", g)
      BY <1>1, <2>2, Searches
    <3>3. s = IF f # 0 THEN f ELSE g
      BY DEF MovedSlot
    <3> HIDE DEF f, g, s
    <3>4. s # 0
      BY <1>5
    <3> QED BY <3>1, <3>2, <3>3, <3>4
  <2>4. s \in Slots /\ ts[s].name # NoName /\ i \in Inodes
    BY <2>3 DEF Found
  <2>5. find_dir_entry(td, st.inodes, to.name, type) = 0
    BY <1>5
  <2> HIDE DEF s, i
  <2>6. type = Kinds(st)[i]
    BY <1>1, <2>4, ViewTypes
  <2> HIDE DEF type
  <2>7. Missing(st, td, to.name, type)
    BY <1>1, <2>2, <2>5, Searches
  <2> QED BY <2>2, <2>4, <2>6, <2>7
<1>6. goes => sd \in R /\ to.dir \in R /\ to.name \in Names
  BY <1>2, <1>3
<1> HIDE DEF sd, ts, to, td, type, u
<1>7. ASSUME goes, to.dir = sd PROVE u \in Orderly
  <2>1. /\ ts = View(st)[sd] /\ s \in Slots /\ ts[s].name # NoName
        /\ Missing(st, ts, to.name, Kinds(st)[ts[s].inode])
    BY <1>5, <1>7
  <2> HIDE DEF s
  <2> QED BY <1>1, <1>6, <1>7, <2>1, RenamedOrderly DEF u
<1>8. ASSUME goes, to.dir # sd, free_slot(td) # 0 PROVE s2 \in Orderly
  <2>1. /\ ts = View(st)[sd] /\ s \in Slots /\ ts[s].name # NoName
        /\ td = View(st)[to.dir]
        /\ Missing(st, td, to.name, Kinds(st)[i])
    BY <1>5, <1>8
  <2> HIDE DEF s
  <2> QED BY <1>1, <1>6, <1>8, <2>1, MovedOrderly
<1> HIDE DEF goes, s2
<1> QED BY <1>4, <1>7, <1>8

\* An entry is cleared, and what it referred to is freed.
LEMMA RemoveLinked ==
    ASSUME NEW K \in [Inodes -> Kind], NEW T \in Views, NEW R, Linked(K, T, R),
           NEW d \in R, NEW s \in Slots, InUse(T, d, s), NEW i, i = T[d][s].inode,
           NEW T2 \in Views, Dropped(T, T2, R, d, s)
    PROVE  Linked([K EXCEPT ![i] = "none"], T2, R \ {i})
<1>1. R \in SUBSET Inodes /\ d \in Inodes
  BY DEF Linked
<1>2. i \in Inodes /\ i # 0
  BY <1>1 DEF Linked, Refers, Views, Tables, Entries
<1>3. Linked(K, T2, R)
  BY <1>1, DropLinked
<1>4. \A e \in R, r \in Slots : InUse(T2, e, r) => InUse(T, e, r) /\ ~(e = d /\ r = s) /\ T2[e][r] = T[e][r]
  BY DEF InUse, Dropped
<1>5. \A e \in R, r \in Slots : InUse(T2, e, r) => T2[e][r].inode # i
  BY <1>4 DEF Linked, Unshared
<1> QED BY <1>2, <1>3, <1>5, FreeLinked

LEMMA RemoveEntryOrderly ==
    ASSUME NEW st \in Tidy, st.sb, NEW R, Linked(Kinds(st), View(st), R),
           NEW d \in R, NEW name
    PROVE  remove_entry_from_dir(st, d, name).final \in Orderly
<1> DEFINE t == load_dir_block(st, d)
           s == find_dir_entry(t, st.inodes, name, "file")
           i == t[s].inode
           u == Released(st, i).final
           w == Unlinked(t, s)
           v == write_dir_block(u, d, w)
           K == Kinds(st)
           T == View(st)
<1>1. st \in FsStates /\ R \in SUBSET Inodes
  BY DEF Tidy, Linked
<1>2. t = T[d] /\ t \in Tables /\ T \in Views /\ K \in [Inodes -> Kind]
  BY <1>1, ViewTypes
<1> HIDE DEF t
<1>3. ASSUME s # 0 PROVE Flush(v) \in Orderly
  <2>1. Found(st, t, name, "file", s)
    BY <1>1, <1>2, <1>3, Searches
  <2> HIDE DEF s
  <2>2. s \in Slots /\ t[s].name # NoName /\ i \in Inodes /\ K[i] = "file"
    BY <2>1 DEF Found
  <2>3. st.inodes[i].type # "none"
    BY <2>2 DEF Kinds
  <2>4. i \notin R /\ \A e \in R : K[e] # "none" /\ e # i
    BY <2>2 DEF Linked
  <2>5. InUse(T, d, s) /\ i = T[d][s].inode
    BY <1>2, <2>2 DEF InUse
  <2> HIDE DEF i
  <2>6. /\ u \in Tidy /\ u.sb
        /\ Kinds(u) = [K EXCEPT ![i] = "none"]
        /\ \A e \in R : View(u)[e] = T[e] /\ u.inodes[e] = st.inodes[e]
    BY <1>1, <2>2, <2>3, <2>4, ReleasedView
  <2> HIDE DEF u
  <2>7. \A e \in R : u.inodes[e].type # "none"
    BY <2>6, PathsLead
  <2>8. w \in Tables /\ w[s].name = NoName /\ \A r \in Slots : r # s => w[r] = t[r]
    <3>1. 0 \in Inodes /\ NoName \in Names \union {NoName}
      BY Numbers
    <3>2. w \in Tables
      BY <1>2, <3>1, EntryTypes
    <3> QED BY <1>2, <2>2, <3>2 DEF Tables, Unlinked, NoEntry
  <2> HIDE DEF w
  <2>9. Alike(u, v, {d}) /\ View(v)[d] = w
    BY <1>1, <2>6, <2>7, <2>8, WriteDirView
  <2> HIDE DEF v
  <2>10. /\ v \in Tidy /\ v.sb /\ Kinds(v) = Kinds(u)
         /\ \A e \in R : e # d => View(v)[e] = View(u)[e]
    BY <1>1, <2>7, <2>9 DEF Alike
  <2> DEFINE T2 == View(v)
  <2>11. T2 \in Views
    BY <2>10, ViewTypes DEF Tidy
  <2> HIDE DEF T2
  <2>12. Dropped(T, T2, R, d, s)
    BY <1>2, <2>6, <2>8, <2>9, <2>10 DEF T2, Dropped
  <2>13. Linked([K EXCEPT ![i] = "none"], T2, R \ {i})
    <3>1. Linked(K, T, R)
      OBVIOUS
    <3> HIDE DEF K, T
    <3> QED BY <1>2, <2>2, <2>5, <2>11, <2>12, <3>1, RemoveLinked
  <2>14. Linked(Kinds(v), View(v), R \ {i})
    BY <2>6, <2>10, <2>13 DEF T2
  <2> QED BY <2>10, <2>14, OrderlyFlush
<1>4. \/ remove_entry_from_dir(st, d, name).final = Flush(v) /\ s # 0
      \/ remove_entry_from_dir(st, d, name).final = st
  BY DEF remove_entry_from_dir, FlushAndReturn, Refuse, Outcome, t
<1>5. st \in Orderly
  BY OrderlyFlush
<1> HIDE DEF s, v
<1> QED BY <1>3, <1>4, <1>5

LEMMA RemoveOrderly ==
    ASSUME NEW st \in Orderly, NEW path \in PathRecords
    PROVE  fs_remove_path(st, path).final \in Orderly
<1> PICK R : Linked(Kinds(st), View(st), R)
  BY DEF Orderly
<1> DEFINE d == DirOf(st, path)
<1>1. st \in Tidy /\ st.sb
  BY DEF Orderly
<1>2. Usable(st, d) => d \in R
  BY <1>1, PathsLead
<1> HIDE DEF d
<1>3. Usable(st, d) => remove_entry_from_dir(st, d, path.name).final \in Orderly
  BY <1>1, <1>2, RemoveEntryOrderly
<1>4. \/ fs_remove_path(st, path) = Refuse(st)
      \/ fs_remove_path(st, path) = remove_entry_from_dir(st, d, path.name) /\ Usable(st, d)
  BY DEF fs_remove_path, d
<1> QED BY <1>3, <1>4, EndsTidy

-----------------------------------------------------------------------------
(* The system files *)

\* Writing a table back as it was.
LEMMA RewrittenLinked ==
    ASSUME NEW st \in Tidy, st.sb, NEW R, Linked(Kinds(st), View(st), R),
           NEW d \in R, NEW t, t = View(st)[d],
           NEW s, s = write_dir_block(st, d, t)
    PROVE  /\ s \in Tidy /\ s.sb /\ s.inodes = st.inodes /\ Kinds(s) = Kinds(st)
           /\ Linked(Kinds(s), View(s), R)
<1>1. st \in FsStates /\ R \in SUBSET Inodes /\ d \in Inodes
  BY DEF Tidy, Linked
<1>2. t \in Tables
  BY <1>1, ViewTypes
<1>3. \A e \in R : st.inodes[e].type # "none"
  BY PathsLead
<1>4. Alike(st, s, {d}) /\ s.inodes = st.inodes /\ View(s)[d] = t
  BY <1>1, <1>2, <1>3, WriteDirView
<1>5. s \in Tidy /\ s.sb /\ Kinds(s) = Kinds(st) /\ \A e \in R : View(s)[e] = View(st)[e]
  BY <1>1, <1>3, <1>4 DEF Alike
<1> QED BY <1>4, <1>5, SameLinked

\* write_sys_file may give up with an inode and a block claimed: they are
\* lost, and no entry refers to them.
LEMMA SysDirOrderly ==
    ASSUME NEW st \in Orderly
    PROVE  /\ SysDir(st).final \in Tidy /\ SysDir(st).final.sb
           /\ \E R : /\ Linked(Kinds(SysDir(st).final), View(SysDir(st).final), R)
                     /\ SysDir(st).dir \in R \union {NoDir}
<1> PICK R : Linked(Kinds(st), View(st), R)
  BY DEF Orderly
<1> DEFINE t == load_dir_block(st, 0)
           f == find_dir_entry(t, st.inodes, "sys", "dir")
           i == alloc_inode_raw(st)
           b == alloc_block_raw(st)
           s1 == Claim(st, i, b, "dir", 0)
           s2 == disk_write_lba(s1, b, ZeroBlock)
           s3 == write_dir_block(s2, 0, WithEntry(t, "sys", i))
           same == write_dir_block(st, 0, t)
           Ends(dir, s) == /\ s \in Tidy /\ s.sb
                           /\ \E Q : Linked(Kinds(s), View(s), Q) /\ dir \in Q \union {NoDir}
<1>1. st \in FsStates /\ R \in SUBSET Inodes /\ 0 \in R /\ st \in Tidy /\ st.sb /\ "sys" \in Names
  BY DEF Orderly, Tidy, Linked, Names
<1>2. t = View(st)[0] /\ t \in Tables
  BY <1>1, ViewTypes
<1> HIDE DEF t
<1>3. ASSUME f # 0 PROVE Ends(t[f].inode, same)
  <2>1. Found(st, t, "sys", "dir", f)
    BY <1>1, <1>2, <1>3, Searches
  <2> HIDE DEF f
  <2>2. t[f].inode \in R
    BY <1>1, <1>2, <2>1 DEF Found, Linked, Refers, InUse
  <2>3. same \in Tidy /\ same.sb /\ Linked(Kinds(same), View(same), R)
    BY <1>1, <1>2, RewrittenLinked
  <2> QED BY <2>2, <2>3
<1>4. Ends(NoDir, st)
  BY <1>1
<1>5. ASSUME i # 0, b # 0 PROVE Ends(NoDir, s1)
  <2>1. s1 \in Orderly
    BY <1>1, <1>5, NewDir
  <2> QED BY <2>1 DEF Orderly
<1>6. ASSUME i # 0, b # 0, f = 0, free_slot(t) # 0 PROVE Ends(i, s3)
  <2>1. Claimed(st, s2, R, R \union {i}, i, "dir")
    BY <1>1, <1>6, NewDir
  <2>2. Missing(st, t, "sys", "dir")
    BY <1>1, <1>2, <1>6, Searches
  <2> HIDE DEF i, b, s1, s2, f
  <2> DEFINE name == "sys"
  <2>3. name \in Names /\ Missing(st, t, name, "dir") /\ s3 = write_dir_block(s2, 0, WithEntry(t, name, i))
    BY <1>1, <2>2
  <2> HIDE DEF name, s3
  <2>4. s3 \in Tidy /\ s3.sb /\ Linked(Kinds(s3), View(s3), R \union {i})
    BY <1>1, <1>2, <1>6, <2>1, <2>3, ClaimedEnters
  <2> QED BY <2>4
<1>7. \/ SysDir(st).dir = t[f].inode /\ SysDir(st).final = same /\ f # 0
      \/ SysDir(st).dir = NoDir /\ SysDir(st).final = st
      \/ SysDir(st).dir = NoDir /\ SysDir(st).final = s1 /\ i # 0 /\ b # 0
      \/ /\ SysDir(st).dir = i /\ SysDir(st).final = s3
         /\ i # 0 /\ b # 0 /\ f = 0 /\ free_slot(t) # 0
  BY DEF SysDir, t
<1> HIDE DEF f, i, b, s1, s2, s3, same, Ends
<1>8. Ends(SysDir(st).dir, SysDir(st).final)
  BY <1>3, <1>4, <1>5, <1>6, <1>7
<1> QED BY <1>8 DEF Ends

\* Where the tree is linked there is a root to begin at.
LEMMA SysFileLinked ==
    ASSUME NEW st \in Orderly, NEW name, NEW text
    PROVE  write_sys_file(st, name, text) = SysFileIn(SysDir(st), name, text)
<1>1. PICK R : Linked(Kinds(st), View(st), R)
  BY DEF Orderly
<1>2. 0 \in Inodes /\ st.inodes[0].type = "dir"
  BY <1>1, Numbers DEF Linked, Kinds
<1>3. st.inodes[0].block # 0
  BY <1>2, Numbers DEF Orderly, Tidy, Accounts
<1> QED BY <1>2, <1>3, SysFileIs

\* From there on write_sys_file stores a file as fs_write does, but for where
\* it gives up.
LEMMA SysFileOrderly ==
    ASSUME NEW st \in Orderly, NEW name \in Names, NEW text \in Contents
    PROVE  write_sys_file(st, name, text).final \in Orderly
<1> DEFINE sys == SysDir(st)
           s1 == sys.final
           d == sys.dir
           t == load_dir_block(s1, d)
           f == find_dir_entry(t, s1.inodes, name, "file")
           i == alloc_inode_raw(s1)
           b == alloc_block_raw(s1)
           size == LengthOf[text]
           blk == TextBlock(text)
           s2 == Claim(s1, i, b, "file", size)
           stored == StoreFile(s1, d, name, blk, size)
<1>1. PICK R : Linked(Kinds(s1), View(s1), R) /\ d \in R \union {NoDir}
  BY SysDirOrderly
<1>2. s1 \in Tidy /\ s1.sb
  BY SysDirOrderly
<1>3. blk \in BlockRecords /\ size \in Nat
  BY BlockTypes, LayoutAssumption
<1>4. \/ SysFileIn(sys, name, text).final = s1
      \/ SysFileIn(sys, name, text).final = s2 /\ i # 0 /\ b # 0
      \/ SysFileIn(sys, name, text).final = stored.final /\ d # NoDir
  <2>1. CASE d = NoDir \/ (f = 0 /\ (i = 0 \/ b = 0))
    BY <2>1 DEF SysFileIn, Outcome
  <2>2. CASE ~(d = NoDir \/ (f = 0 /\ (i = 0 \/ b = 0))) /\ f = 0 /\ free_slot(t) = 0
    BY <2>2 DEF SysFileIn, Outcome
  <2>3. CASE ~(d = NoDir \/ (f = 0 /\ (i = 0 \/ b = 0))) /\ f = 0 /\ free_slot(t) # 0
    BY <2>3 DEF SysFileIn, StoreFile, FlushAndReturn, Outcome
  <2>4. CASE ~(d = NoDir \/ (f = 0 /\ (i = 0 \/ b = 0))) /\ f # 0
    <3> DEFINE j == t[f].inode
               o1 == [s1 EXCEPT !.inodes[j].size = size]
               o2 == write_dir_block(o1, d, t)
               o3 == disk_write_lba(o2, o1.inodes[j].block, blk)
    <3>1. SysFileIn(sys, name, text).final = Flush(o3)
      BY <2>4 DEF SysFileIn, FlushAndReturn, Outcome
    <3>2. stored.final = Flush(o3)
      BY <2>4 DEF StoreFile, FlushAndReturn, Outcome
    <3> QED BY <2>4, <3>1, <3>2
  <2> QED BY <2>1, <2>2, <2>3, <2>4
<1> HIDE DEF sys, s1, d, size, blk
<1>5. s1 \in Orderly
  BY <1>1, <1>2, OrderlyFlush
<1>6. ASSUME i # 0, b # 0 PROVE s2 \in Orderly
  <2>1. Claimed(s1, s2, R, R, i, "file")
    BY <1>1, <1>2, <1>3, <1>6, NewFile
  <2> QED BY <2>1 DEF Claimed, Orderly
<1>7. ASSUME d # NoDir PROVE stored.final \in Orderly
  BY <1>1, <1>2, <1>3, <1>7, StoreOrderly
<1> HIDE DEF i, b, s2, stored
<1>8. SysFileIn(sys, name, text).final \in Orderly
  BY <1>4, <1>5, <1>6, <1>7
<1> QED BY <1>8, SysFileLinked DEF sys

LEMMA PasswdOrderly ==
    ASSUME NEW st \in Orderly, NEW hash \in Hashes
    PROVE  fs_write_passwd(st, hash).final \in Orderly
<1>1. "passwd" \in Names /\ hash \in Contents
  BY DEF Names, Contents
<1> QED BY <1>1, SysFileOrderly DEF fs_write_passwd

\* The disk a format has made has sys in the root and two files in sys.
LEMMA FreshOrderly ==
    ASSUME NEW st, FreshDisk(st)
    PROVE  st \in Orderly
<1> DEFINE K == Kinds(st)
           T == View(st)
           R == {0, 1}
<1>1. st \in FsStates /\ st.sb /\ 4 \in Nat /\ 4 <= NumInodes
  BY LayoutAssumption DEF FreshDisk, Filled
<1>2. st \in Tidy
  BY <1>1, FilledTidy DEF FreshDisk
<1>3. /\ 0 \in Inodes /\ 1 \in Inodes /\ 2 \in Inodes /\ 3 \in Inodes
      /\ st.inodes[0].block = 1 /\ st.inodes[1].block = 2
  <2>1. /\ 0 \in Inodes /\ 1 \in Inodes /\ 2 \in Inodes /\ 3 \in Inodes
        /\ 0 < 4 /\ 1 < 4 /\ 0 + 1 = 1 /\ 1 + 1 = 2
    BY LayoutAssumption DEF Inodes
  <2> QED BY <2>1 DEF FreshDisk, Filled
<1>4. K[0] = "dir" /\ K[1] = "dir" /\ K[2] = "file" /\ K[3] = "file"
  BY <1>3 DEF FreshDisk, Kinds
<1>5. T[0] = SysTable /\ T[1] = PasswdTable
  BY <1>3 DEF FreshDisk, View
<1> HIDE DEF K, T
<1>6. \A s \in Slots : InUse(T, 0, s) => s = 1 /\ T[0][s].name = "sys" /\ T[0][s].inode = 1
  BY <1>5, SysNames DEF InUse
<1>7. \A s \in Slots : InUse(T, 1, s) =>
         \/ s = 1 /\ T[1][s].name = "status" /\ T[1][s].inode = 2
         \/ s = 2 /\ T[1][s].name = "passwd" /\ T[1][s].inode = 3
  BY <1>5, SysNames DEF InUse
<1>8. Refers(K, T, R)
  BY <1>4, <1>6, <1>7 DEF Refers, Names
<1>9. Unshared(T, R)
  BY <1>6, <1>7 DEF Unshared
<1>10. Telling(K, T, R)
  BY <1>6, <1>7 DEF Telling
<1>11. Linked(K, T, R)
  BY <1>3, <1>4, <1>8, <1>9, <1>10 DEF Linked
<1> QED BY <1>1, <1>2, <1>11 DEF Orderly, K, T

-----------------------------------------------------------------------------
(* The machine                                                             *)
(*                                                                         *)
(* While rm -r runs, the table of a directory that it has open is the      *)
(* frame's copy, and each frame but the first was entered through the      *)
(* entry the one below it is at.                                           *)

OnDisk(st, frames, T, R) ==
    \A d \in R : (\A k \in DOMAIN frames : frames[k].dir # d) => T[d] = View(st)[d]
InFrames(frames, T, R) ==
    \A k \in DOMAIN frames :
        /\ frames[k].dir \in R /\ T[frames[k].dir] = frames[k].table
        /\ \A s \in frames[k].todo : InUse(T, frames[k].dir, s)
Nested(frames) ==
    \A k \in DOMAIN frames : k # 1 =>
        /\ frames[k - 1].todo # {}
        /\ frames[k - 1].table[Min(frames[k - 1].todo)].inode = frames[k].dir
Distinct(frames) == \A k, n \in DOMAIN frames : k # n => frames[k].dir # frames[n].dir
\* The outermost directory is the root or one of the root's.
Anchored(frames, T) ==
    \/ frames = <<>>
    \/ frames[1].dir = 0
    \/ /\ \A k \in DOMAIN frames : frames[k].dir # 0
       /\ \E s \in Slots : InUse(T, 0, s) /\ T[0][s].inode = frames[1].dir
Agrees(st, frames, T, R) ==
    /\ OnDisk(st, frames, T, R)
    /\ InFrames(frames, T, R)
    /\ Nested(frames)
    /\ Distinct(frames)
    /\ Anchored(frames, T)

Walks(st, frames) ==
    st.sb /\ \E R : \E T \in Views : Linked(Kinds(st), T, R) /\ Agrees(st, frames, T, R)

\* The disk as fs_init reads it.
Mounted(st) == [st EXCEPT !.sb = TRUE, !.bitmap = st.dbitmap, !.inodes = st.dinodes]

\* Until something is half-changed, the tree is linked, in RAM or on the disk.
LInv == ~dirty =>
    /\ Live => Walks(fs, stack)
    /\ ~Live /\ fs.dsb => Mounted(fs) \in Orderly

LEMMA OrderlyWalks ==
    ASSUME NEW st \in Orderly
    PROVE  Walks(st, <<>>)
<1> PICK R : Linked(Kinds(st), View(st), R)
  BY DEF Orderly
<1>1. st.sb /\ View(st) \in Views
  BY ViewTypes DEF Orderly, Tidy
<1>2. Agrees(st, <<>>, View(st), R)
  BY DEF Agrees, OnDisk, InFrames, Nested, Distinct, Anchored
<1> QED BY <1>1, <1>2 DEF Walks

LEMMA WalksOrderly ==
    ASSUME NEW st \in Tidy, Walks(st, <<>>)
    PROVE  st \in Orderly
<1> PICK R : \E T \in Views : Linked(Kinds(st), T, R) /\ Agrees(st, <<>>, T, R)
  BY DEF Walks
<1> PICK T \in Views : Linked(Kinds(st), T, R) /\ Agrees(st, <<>>, T, R)
  OBVIOUS
<1>1. \A d \in R : View(st)[d] = T[d]
  BY DEF Agrees, OnDisk
<1>2. Linked(Kinds(st), View(st), R)
  BY <1>1, SameLinked
<1> QED BY <1>2 DEF Orderly, Walks

\* When no rm -r runs.
LEMMA LiveOrderly ==
    ASSUME BInv, LInv, ~dirty, Live, stack = <<>>
    PROVE  fs \in Orderly
<1>1. fs \in Tidy /\ Walks(fs, <<>>)
  BY DEF BInv, Whole, LInv
<1> QED BY <1>1, WalksOrderly

\* The whole of RAM but g_sb, g_bitmap and g_inodes is none.
LEMMA MountedSame ==
    ASSUME NEW st \in FsStates
    PROVE  /\ Synced(st) => Mounted(PoweredOff(st)) = st /\ Mounted(st) = st
           /\ \A s \in MountCuts(st) : Mounted(s) = Mounted(st)
<1>1. ASSUME Synced(st) PROVE Mounted(PoweredOff(st)) = st /\ Mounted(st) = st
  <2>1. st.sb = TRUE /\ st.bitmap = st.dbitmap /\ st.inodes = st.dinodes
    BY <1>1 DEF Synced, FsStates
  <2> QED BY <2>1 DEF Mounted, PoweredOff, FsStates
<1>2. ASSUME NEW s \in MountCuts(st) PROVE Mounted(s) = Mounted(st)
  <2> DEFINE s1 == read_superblock(st)
             s2 == [s1 EXCEPT !.bitmap = st.dbitmap]
  <2>1. \/ s = st
        \/ \E n : s = [s1 EXCEPT !.bitmap = SpliceBitmap(n, st.dbitmap, st.bitmap)]
        \/ \E n : s = [s2 EXCEPT !.inodes = SpliceInodes(n, st.dinodes, s1.inodes)]
    BY DEF MountCuts
  <2>2. ASSUME NEW x, s = [s1 EXCEPT !.bitmap = x] PROVE Mounted(s) = Mounted(st)
    BY <2>2 DEF read_superblock, Mounted, FsStates
  <2>3. ASSUME NEW x, s = [s2 EXCEPT !.inodes = x] PROVE Mounted(s) = Mounted(st)
    BY <2>3 DEF read_superblock, Mounted, FsStates
  <2> HIDE DEF s1, s2
  <2> QED BY <2>1, <2>2, <2>3
<1> QED BY <1>1, <1>2

LEMMA PowerLinks ==
    ASSUME NEW s, NEW whole, ~dirty /\ s \in whole => s \in Orderly, LosePower(s, whole)
    PROVE  LInv'
<1>1. phase' = "start" /\ fs' = PoweredOff(s) /\ ~Live'
  BY DEF LosePower, Live
<1>2. ASSUME ~dirty' PROVE s \in Orderly /\ Synced(s)
  BY <1>2 DEF LosePower
<1>3. ASSUME ~dirty' PROVE Mounted(PoweredOff(s)) \in Orderly
  <2>1. s \in FsStates
    BY <1>2, <1>3 DEF Orderly, Tidy
  <2> QED BY <1>2, <1>3, <2>1, MountedSame
<1> QED BY <1>1, <1>3 DEF LInv

LEMMA ErrorLinks ==
    ASSUME NEW s, NEW whole, DiskError(s, whole), phase' \in {"reinit", "ready"},
           ~dirty /\ s \in whole => s \in Orderly
    PROVE  LInv'
<1>1. fs' = s /\ stack' = <<>>
  BY DEF DiskError
<1>2. ~dirty' => ~dirty /\ s \in whole
  BY DEF DiskError
<1>3. ~dirty' => Walks(s, <<>>)
  BY <1>2, OrderlyWalks
<1>4. Live'
  BY DEF Live
<1> QED BY <1>1, <1>3, <1>4 DEF LInv

LEMMA MountLinks ==
    ASSUME IInv, BInv, LInv, Mount
    PROVE  LInv'
<1> DEFINE r == fs_init(fs)
           none == read_superblock(fs)
<1>1. /\ fs \in FsStates /\ phase \in {"start", "reinit"} /\ fs.dsb \in BOOLEAN
      /\ stack = <<>>
  BY DEF IInv, TypeOK, FsStates, Mount, Running
<1>2. /\ r.cuts = MountCuts(fs) /\ r.ok = fs.dsb
      /\ r.final = IF fs.dsb THEN Mounted(fs) ELSE none
  BY <1>1 DEF fs_init, Outcome, Mounted
<1>3. none.dsb = fs.dsb
  BY <1>1, SuperblockRead DEF FsStates
<1>4. ~dirty /\ phase = "reinit" => Synced(fs) /\ fs.dsb
  BY DEF BInv, Whole, Synced
<1>5. ~dirty /\ fs.dsb => Mounted(fs) \in Orderly
  <2>1. ~dirty /\ phase = "reinit" => fs \in Orderly /\ Mounted(fs) = fs
    BY <1>1, <1>4, LiveOrderly, MountedSame DEF Live
  <2> QED BY <1>1, <2>1 DEF LInv, Live
<1> HIDE DEF r, none
<1>6. CASE /\ fs' = r.final
           /\ phase' = IF r.ok THEN "ready"
                       ELSE IF phase = "start" THEN "format" ELSE "ready"
           /\ UNCHANGED <<dirty, stack>>
  <2>1. CASE fs.dsb
    <3>1. fs' = Mounted(fs) /\ phase' = "ready" /\ dirty' = dirty /\ stack' = <<>>
      BY <1>1, <1>2, <1>6, <2>1
    <3>2. ~dirty' => Walks(fs', stack')
      BY <1>5, <2>1, <3>1, OrderlyWalks
    <3> QED BY <3>1, <3>2 DEF LInv, Live
  <2>2. CASE ~fs.dsb
    <3>1. fs' = none /\ ~fs'.dsb /\ dirty' = dirty
      BY <1>2, <1>3, <1>6, <2>2
    <3>2. ~dirty => phase' = "format"
      BY <1>1, <1>2, <1>4, <1>6, <2>2
    <3> QED BY <3>1, <3>2 DEF LInv, Live
  <2> QED BY <2>1, <2>2
<1>7. ASSUME NEW s \in r.cuts, DiskError(s, IF phase = "start" THEN r.cuts ELSE {fs}),
             phase' = (IF phase = "start" THEN "format" ELSE "ready")
      PROVE  LInv'
  <2>1. fs' = s /\ stack' = <<>> /\ (~dirty' => ~dirty)
    BY <1>7 DEF DiskError
  <2>2. s \in MountCuts(fs)
    BY <1>2, <1>7
  <2>3. Mounted(s) = Mounted(fs) /\ s.dsb = fs.dsb
    BY <1>1, <2>2, MountedSame, CutsKeep
  <2>4. CASE phase = "start"
    BY <1>5, <1>7, <2>1, <2>3, <2>4 DEF LInv, Live
  <2>5. CASE phase = "reinit"
    <3>1. ~dirty' => s = fs
      BY <1>7, <2>5 DEF DiskError
    <3>2. ~dirty' => fs \in Orderly
      BY <1>1, <2>1, <2>5, LiveOrderly DEF Live
    <3>3. ~dirty' => Walks(fs', stack')
      BY <2>1, <3>1, <3>2, OrderlyWalks
    <3> QED BY <1>7, <2>5, <3>3 DEF LInv, Live
  <2> QED BY <1>1, <2>4, <2>5
<1> QED BY <1>6, <1>7 DEF Mount, r

LEMMA FormatLinks ==
    ASSUME IInv, Format
    PROVE  LInv'
<1> DEFINE r == fs_format(fs)
<1>1. fs \in FsStates /\ phase \in {"format", "ready"} /\ stack = <<>>
  BY DEF IInv, TypeOK, Format
<1>2. r.final \in Orderly
  BY <1>1, FormatMakes, FreshOrderly
<1> HIDE DEF r
<1>3. CASE fs' = r.final /\ phase' = "reinit" /\ UNCHANGED stack
  BY <1>1, <1>2, <1>3, OrderlyWalks DEF LInv, Live
<1>4. ASSUME NEW s, DiskError(s, {r.final}),
             phase' = (IF phase = "format" THEN "reinit" ELSE "ready")
      PROVE  LInv'
  BY <1>2, <1>4, ErrorLinks
<1>5. ASSUME NEW s, PowerFailure(s, {r.final})
      PROVE  LInv'
  <2>1. ~dirty /\ s \in {r.final} => s \in Orderly
    BY <1>2
  <2> QED BY <1>5, <2>1, PowerLinks DEF PowerFailure
<1> QED BY <1>3, <1>4, <1>5 DEF Format, r

LEMMA CallLinks ==
    ASSUME BInv, LInv, NEW r, fs \in Orderly => r.final \in Orderly, Call(r)
    PROVE  LInv'
<1>1. phase = "ready" /\ stack = <<>> /\ (~dirty => fs \in Orderly /\ r.final \in Orderly)
  BY LiveOrderly DEF Call, Live
<1>2. CASE fs' = r.final /\ UNCHANGED <<phase, dirty, stack>>
  BY <1>1, <1>2, OrderlyWalks DEF LInv, Live
<1>3. ASSUME NEW s, DiskError(s, {fs, r.final}), UNCHANGED phase
      PROVE  LInv'
  BY <1>1, <1>3, ErrorLinks
<1>4. ASSUME NEW s, PowerFailure(s, {fs, r.final})
      PROVE  LInv'
  <2>1. ~dirty /\ s \in {fs, r.final} => s \in Orderly
    BY <1>1
  <2> QED BY <1>4, <2>1, PowerLinks DEF PowerFailure
<1> QED BY <1>2, <1>3, <1>4 DEF Call

LEMMA RemoveFaultsLinks ==
    ASSUME NEW cuts, RemoveFaults(cuts), phase = "ready"
    PROVE  LInv'
<1>1. ASSUME NEW s, DiskError(s, {}), UNCHANGED phase PROVE LInv'
  BY <1>1, ErrorLinks
<1>2. ASSUME NEW s, PowerFailure(s, {}) PROVE LInv'
  BY <1>2, PowerLinks DEF PowerFailure
<1> QED BY <1>1, <1>2 DEF RemoveFaults

LEMMA GoesLinks ==
    ASSUME phase = "ready", NEW s, NEW frames, Goes(s, frames), ~dirty => Walks(s, frames)
    PROVE  LInv'
BY DEF Goes, LInv, Live

\* rm -r's first frame: a directory that the path names, and one of its entries.
LEMMA StartWalks ==
    ASSUME NEW st \in Tidy, st.sb, NEW R, Linked(Kinds(st), View(st), R),
           NEW d \in R, NEW s \in Slots, InUse(View(st), d, s),
           d # 0 => \E r \in Slots : InUse(View(st), 0, r) /\ View(st)[0][r].inode = d
    PROVE  Walks(st, <<Frame(d, View(st)[d], {s})>>)
<1> DEFINE frames == <<Frame(d, View(st)[d], {s})>>
           T == View(st)
<1>1. T \in Views
  BY ViewTypes DEF Tidy
<1>2. DOMAIN frames = {1} /\ frames[1] = Frame(d, T[d], {s})
  OBVIOUS
<1>3. frames[1].dir = d /\ frames[1].table = T[d] /\ frames[1].todo = {s}
  BY <1>2 DEF Frame
<1> HIDE DEF frames
<1>4. OnDisk(st, frames, T, R) /\ InFrames(frames, T, R)
  BY <1>2, <1>3 DEF OnDisk, InFrames
<1>5. Nested(frames) /\ Distinct(frames)
  BY <1>2 DEF Nested, Distinct
<1>6. Anchored(frames, T)
  BY <1>2, <1>3 DEF Anchored
<1> QED BY <1>1, <1>4, <1>5, <1>6 DEF Walks, Agrees, frames

\* What the walk is at, and what it has open.
LEMMA AtEntry ==
    ASSUME TypeOK, Running, fs \in Tidy, NEW R, NEW T \in Views,
           Linked(Kinds(fs), T, R), Agrees(fs, stack, T, R)
    PROVE  /\ Len(stack) \in Nat \ {0} /\ DOMAIN stack = 1 .. Len(stack)
           /\ Top = stack[Len(stack)] /\ Top.dir \in R /\ R \in SUBSET Inodes
           /\ T[Top.dir] = Top.table /\ Top.todo \in SUBSET Slots
           /\ \A s \in Top.todo : InUse(T, Top.dir, s)
<1>1. stack \in Seq(Frames) /\ stack # <<>>
  BY DEF TypeOK, Running
<1>2. Len(stack) \in Nat \ {0} /\ DOMAIN stack = 1 .. Len(stack)
  BY <1>1, EmptySeq, LenProperties
<1>3. Top = stack[Len(stack)] /\ Len(stack) \in DOMAIN stack
  BY <1>2 DEF Top
<1>4. Top.todo \in SUBSET Slots
  BY TopTypes DEF Frames
<1>5. R \in SUBSET Inodes /\ InFrames(stack, T, R)
  BY DEF Linked, Agrees
<1> QED BY <1>2, <1>3, <1>4, <1>5 DEF InFrames

\* The directory of an entry is not open: the entry of each open directory is
\* the one the frame below is at, or an entry of the root.
LEMMA NotOpen ==
    ASSUME TypeOK, Running, fs \in Tidy, NEW R, NEW T \in Views,
           Linked(Kinds(fs), T, R), Agrees(fs, stack, T, R), Top.todo # {}
    PROVE  /\ Min(Top.todo) \in Slots /\ InUse(T, Top.dir, Min(Top.todo))
           /\ Current = T[Top.dir][Min(Top.todo)].inode
           /\ Current \in Inodes \ {0}
           /\ Kinds(fs)[Current] # "none"
           /\ Kinds(fs)[Current] = "dir" => Current \in R
           /\ \A k \in DOMAIN stack : stack[k].dir # Current
<1> DEFINE n == Len(stack)
           m == Min(Top.todo)
<1>1. /\ n \in Nat \ {0} /\ DOMAIN stack = 1 .. n /\ Top = stack[n] /\ Top.dir \in R
      /\ R \in SUBSET Inodes /\ T[Top.dir] = Top.table /\ Top.todo \in SUBSET Slots
      /\ \A s \in Top.todo : InUse(T, Top.dir, s)
  BY AtEntry
<1>2. m \in Top.todo /\ m \in Slots
  BY <1>1, MinOf, Numbers
<1> HIDE DEF n, m
<1>3. InUse(T, Top.dir, m) /\ Current = T[Top.dir][m].inode
  BY <1>1, <1>2 DEF Current, m
<1>4. Current \in Inodes
  BY TopTypes
<1>5. Refers(Kinds(fs), T, R) /\ Unshared(T, R) /\ 0 \in R
  BY DEF Linked
<1>6. /\ Current # 0 /\ Kinds(fs)[Current] # "none"
      /\ Kinds(fs)[Current] = "dir" => Current \in R
  BY <1>1, <1>2, <1>3, <1>5 DEF Refers
<1>7. /\ InFrames(stack, T, R) /\ Nested(stack) /\ Distinct(stack) /\ Anchored(stack, T)
      /\ stack # <<>>
  BY DEF Agrees, Running
<1>8. ASSUME NEW k \in DOMAIN stack, stack[k].dir = Current PROVE FALSE
  <2>1. CASE k # 1
    <3> DEFINE j == k - 1
               r == Min(stack[j].todo)
    <3>1. j \in DOMAIN stack /\ j # n /\ n \in DOMAIN stack
      BY <1>1, <2>1
    <3>2. stack[j].todo # {} /\ stack[j].table[r].inode = Current
      BY <1>7, <1>8, <2>1 DEF Nested
    <3> HIDE DEF j
    <3>3. stack[j].dir \in R /\ T[stack[j].dir] = stack[j].table
      BY <1>7, <3>1 DEF InFrames
    <3>4. stack[j] \in Frames
      BY <3>1, <1>1, ElementOfSeq DEF TypeOK
    <3>5. r \in stack[j].todo /\ r \in Slots
      BY <3>2, <3>4, MinOf, Numbers DEF Frames
    <3> HIDE DEF r
    <3>6. InUse(T, stack[j].dir, r) /\ T[stack[j].dir][r].inode = Current
      BY <1>7, <3>1, <3>2, <3>3, <3>5 DEF InFrames
    <3>7. stack[j].dir = Top.dir
      BY <1>1, <1>2, <1>3, <1>5, <3>3, <3>5, <3>6 DEF Unshared
    <3> QED BY <1>1, <1>7, <3>1, <3>7 DEF Distinct
  <2>2. CASE k = 1
    <3>1. stack[1].dir # 0
      BY <1>6, <1>8, <2>2
    <3>2. PICK s \in Slots : InUse(T, 0, s) /\ T[0][s].inode = Current
      BY <1>7, <1>8, <2>2, <3>1 DEF Anchored
    <3>3. Top.dir = 0
      BY <1>1, <1>2, <1>3, <1>5, <3>2 DEF Unshared
    <3>4. n \in DOMAIN stack
      BY <1>1
    <3> QED BY <1>1, <1>7, <3>1, <3>3, <3>4 DEF Anchored
  <2> QED BY <2>1, <2>2
<1> QED BY <1>2, <1>3, <1>4, <1>6, <1>8 DEF m

LEMMA EnterWalks ==
    ASSUME TypeOK, Running, fs \in Tidy, Walks(fs, stack), Top.todo # {},
           fs.inodes[Current].type = "dir",
           NEW t, t = load_dir_block(fs, Current), NEW todo, todo = UsedSlots(t)
    PROVE  Walks(fs, Append(stack, Frame(Current, t, todo)))
<1> DEFINE n == Len(stack)
           frame == Frame(Current, t, todo)
           frames == Append(stack, frame)
<1> PICK R : \E T \in Views : Linked(Kinds(fs), T, R) /\ Agrees(fs, stack, T, R)
  BY DEF Walks
<1> PICK T \in Views : Linked(Kinds(fs), T, R) /\ Agrees(fs, stack, T, R)
  OBVIOUS
<1>1. /\ n \in Nat \ {0} /\ DOMAIN stack = 1 .. n /\ Top = stack[n] /\ Top.dir \in R
      /\ R \in SUBSET Inodes /\ T[Top.dir] = Top.table
  BY AtEntry
<1>2. /\ Current = T[Top.dir][Min(Top.todo)].inode
      /\ Current \in Inodes \ {0}
      /\ Kinds(fs)[Current] = "dir" => Current \in R
      /\ \A k \in DOMAIN stack : stack[k].dir # Current
  BY NotOpen
<1>3. fs \in FsStates /\ fs.sb
  BY DEF Tidy, Walks
<1>4. Current \in R /\ t = View(fs)[Current]
  BY <1>2, <1>3, ViewTypes
<1>5. /\ OnDisk(fs, stack, T, R) /\ InFrames(stack, T, R) /\ Nested(stack)
      /\ Distinct(stack) /\ Anchored(stack, T)
  BY DEF Agrees
<1>6. T[Current] = t
  BY <1>2, <1>4, <1>5 DEF OnDisk
<1>7. /\ DOMAIN frames = 1 .. n + 1
      /\ \A k \in 1 .. n : frames[k] = stack[k]
      /\ frames[n + 1] = frame
  BY <1>1, AppendProperties DEF TypeOK
<1>8. frame.dir = Current /\ frame.table = t /\ frame.todo = todo
  BY DEF Frame
<1>9. \A s \in todo : InUse(T, Current, s)
  BY <1>6 DEF UsedSlots, InUse
<1>10. stack # <<>> /\ frames # <<>>
  BY <1>1, <1>7 DEF Running
<1> HIDE DEF n, frame, frames
<1>11. OnDisk(fs, frames, T, R)
  BY <1>1, <1>5, <1>7 DEF OnDisk
<1>12. InFrames(frames, T, R)
  BY <1>1, <1>4, <1>5, <1>6, <1>7, <1>8, <1>9 DEF InFrames
<1>13. Nested(frames)
  <2> SUFFICES ASSUME NEW k \in DOMAIN frames, k # 1
               PROVE  /\ frames[k - 1].todo # {}
                      /\ frames[k - 1].table[Min(frames[k - 1].todo)].inode = frames[k].dir
    BY DEF Nested
  <2>1. CASE k = n + 1
    <3>1. frames[k - 1] = Top /\ frames[k].dir = Current
      BY <1>1, <1>7, <1>8, <2>1
    <3> QED BY <3>1 DEF Current
  <2>2. CASE k # n + 1
    <3>1. k \in DOMAIN stack /\ frames[k - 1] = stack[k - 1] /\ frames[k] = stack[k]
      BY <1>1, <1>7, <2>2
    <3> QED BY <1>5, <3>1 DEF Nested
  <2> QED BY <2>1, <2>2
<1>14. Distinct(frames)
  <2>1. \A k \in 1 .. n + 1 : k \in 1 .. n \/ k = n + 1
    BY <1>1
  <2>2. \A k, m \in 1 .. n : k # m => frames[k].dir # frames[m].dir
    BY <1>1, <1>5, <1>7 DEF Distinct
  <2>3. \A k \in 1 .. n : frames[k].dir # Current
    BY <1>1, <1>2, <1>7
  <2> QED BY <1>7, <1>8, <2>1, <2>2, <2>3 DEF Distinct
<1>15. Anchored(frames, T)
  <2>1. 1 \in 1 .. n /\ 1 \in DOMAIN frames /\ frames[1] = stack[1]
    BY <1>1, <1>7
  <2>2. CASE stack[1].dir = 0
    BY <2>1, <2>2 DEF Anchored
  <2>3. CASE /\ \A k \in DOMAIN stack : stack[k].dir # 0
             /\ \E s \in Slots : InUse(T, 0, s) /\ T[0][s].inode = stack[1].dir
    <3>1. \A k \in 1 .. n : frames[k].dir # 0
      BY <1>1, <1>7, <2>3
    <3>2. \A k \in DOMAIN frames : k \in 1 .. n \/ k = n + 1
      BY <1>1, <1>7
    <3>3. frames[n + 1].dir # 0
      BY <1>2, <1>7, <1>8
    <3>4. \A k \in DOMAIN frames : frames[k].dir # 0
      BY <3>1, <3>2, <3>3
    <3> QED BY <2>1, <2>3, <3>4 DEF Anchored
  <2> QED BY <1>5, <1>10, <2>2, <2>3 DEF Anchored
<1> QED BY <1>3, <1>11, <1>12, <1>13, <1>14, <1>15 DEF Walks, Agrees, frames, frame

\* Below and one frame more.
LEMMA Replaced ==
    ASSUME TypeOK, Running, NEW frame \in Frames
    PROVE  LET n == Len(stack)
               frames == Append(Below, frame)
           IN  /\ DOMAIN frames = 1 .. n /\ frames[n] = frame
               /\ \A k \in 1 .. n - 1 : frames[k] = stack[k]
<1> DEFINE n == Len(stack)
           frames == Append(Below, frame)
<1>1. stack \in Seq(Frames) /\ n \in Nat \ {0}
  BY EmptySeq DEF TypeOK, Running
<1>2. \A k \in 1 .. n : stack[k] \in Frames
  BY <1>1, ElementOfSeq
<1>3. Below \in Seq(Frames) /\ Len(Below) = n - 1 /\ \A k \in 1 .. n - 1 : Below[k] = stack[k]
  <2>1. 1 \in Int /\ n - 1 \in Int /\ \A k \in 1 .. n - 1 : stack[k] \in Frames
    BY <1>1, <1>2
  <2> HIDE DEF n
  <2>2. /\ SubSeq(stack, 1, n - 1) \in Seq(Frames)
        /\ Len(SubSeq(stack, 1, n - 1)) = IF 1 <= n - 1 THEN n - 1 - 1 + 1 ELSE 0
        /\ \A k \in 1 .. (n - 1) - 1 + 1 : SubSeq(stack, 1, n - 1)[k] = stack[1 + k - 1]
    BY <2>1, SubSeqProperties
  <2>3. ASSUME NEW k \in 1 .. n - 1 PROVE SubSeq(stack, 1, n - 1)[k] = stack[k]
    <3>1. k \in 1 .. (n - 1) - 1 + 1 /\ 1 + k - 1 = k
      BY <1>1, <2>3 DEF n
    <3>2. SubSeq(stack, 1, n - 1)[k] = stack[1 + k - 1]
      BY <2>2, <3>1
    <3> QED BY <3>1, <3>2
  <2>4. Len(SubSeq(stack, 1, n - 1)) = n - 1
    <3> DEFINE len == Len(SubSeq(stack, 1, n - 1))
    <3>1. n \in Nat \ {0} /\ len = IF 1 <= n - 1 THEN n - 1 - 1 + 1 ELSE 0
      BY <1>1, <2>2 DEF n
    <3> HIDE DEF len
    <3>2. len = n - 1
      BY <3>1
    <3> QED BY <3>2 DEF len
  <2> QED BY <2>2, <2>3, <2>4 DEF Below, n
<1> HIDE DEF n
<1>4. /\ DOMAIN frames = 1 .. n - 1 + 1 /\ frames[n - 1 + 1] = frame
      /\ \A k \in 1 .. n - 1 : frames[k] = Below[k]
  BY <1>3, AppendProperties
<1> QED BY <1>1, <1>3, <1>4 DEF n

LEMMA CurrentWalks ==
    ASSUME TypeOK, Running, fs \in Tidy, Walks(fs, stack), Top.todo # {},
           NEW slot, slot = Min(Top.todo),
           NEW frame, frame = [Top EXCEPT !.table = Unlinked(@, slot), !.todo = @ \ {slot},
                                          !.emptied = FALSE],
           NEW s, s = Released(fs, Current).final
    PROVE  Walks(s, Append(Below, frame))
<1> DEFINE n == Len(stack)
           d == Top.dir
           c == Current
           frames == Append(Below, frame)
<1> PICK R : \E T \in Views : Linked(Kinds(fs), T, R) /\ Agrees(fs, stack, T, R)
  BY DEF Walks
<1> PICK T \in Views : Linked(Kinds(fs), T, R) /\ Agrees(fs, stack, T, R)
  OBVIOUS
<1> DEFINE w == Unlinked(Top.table, slot)
           T2 == [T EXCEPT ![d] = w]
           Q == R \ {c}
<1>1. /\ n \in Nat \ {0} /\ DOMAIN stack = 1 .. n /\ Top = stack[n] /\ d \in R
      /\ R \in SUBSET Inodes /\ T[d] = Top.table /\ Top.todo \in SUBSET Slots
      /\ \A r \in Top.todo : InUse(T, d, r)
  BY AtEntry
<1>2. /\ slot \in Slots /\ InUse(T, d, slot) /\ c = T[d][slot].inode
      /\ c \in Inodes \ {0} /\ Kinds(fs)[c] # "none"
      /\ \A k \in DOMAIN stack : stack[k].dir # c
  BY NotOpen
<1>3. fs \in FsStates /\ fs.sb /\ Top \in Frames
  BY TopTypes DEF Tidy, Walks
<1>4. Top.table \in Tables /\ w \in Tables
  BY <1>2, <1>3, BlockTypes, EntryTypes DEF Frames, Unlinked, Tables
<1>5. w[slot].name = NoName /\ \A r \in Slots : r # slot => w[r] = T[d][r]
  BY <1>1, <1>2, <1>4 DEF Unlinked, NoEntry, Tables
<1>6. frame.dir = d /\ frame.table = w /\ frame.todo = Top.todo \ {slot} /\ frame \in Frames
  BY <1>3, <1>4 DEF Frames
<1>7. /\ DOMAIN frames = 1 .. n /\ frames[n] = frame
      /\ \A k \in 1 .. n - 1 : frames[k] = stack[k]
  BY <1>6, Replaced
<1>8. /\ s.sb /\ Kinds(s) = [Kinds(fs) EXCEPT ![c] = "none"]
      /\ \A e \in Inodes : Kinds(fs)[e] # "none" /\ e # c => View(s)[e] = View(fs)[e]
  <2>1. c \in Inodes /\ fs.inodes[c].type # "none"
    BY <1>2, <1>3, ViewTypes
  <2> QED BY <1>3, <2>1, ReleasedView
<1>9. /\ OnDisk(fs, stack, T, R) /\ InFrames(stack, T, R) /\ Nested(stack)
      /\ Distinct(stack) /\ Anchored(stack, T)
  BY DEF Agrees
<1>10. T2 \in Views /\ T2[d] = w /\ \A e \in R : e # d => T2[e] = T[e]
  BY <1>1, <1>4 DEF Views
<1>11. \A e \in R : Kinds(fs)[e] # "none"
  BY DEF Linked
<1> HIDE DEF T2, w, frames, n, c, d
<1>12. stack # <<>> /\ frames # <<>>
  BY <1>1, <1>7 DEF Running
<1>13. Dropped(T, T2, R, d, slot)
  BY <1>1, <1>5, <1>10 DEF Dropped
<1>14. Linked(Kinds(s), T2, Q)
  <2>1. Kinds(fs) \in [Inodes -> Kind]
    BY <1>3, ViewTypes
  <2>2. Linked([Kinds(fs) EXCEPT ![c] = "none"], T2, R \ {c})
    BY <1>1, <1>2, <1>10, <1>13, <2>1, RemoveLinked
  <2> QED BY <1>8, <2>2
<1>15. n \in DOMAIN stack /\ \A k \in DOMAIN stack : frames[k].dir = stack[k].dir /\ frames[k].dir \in Q
  <2>1. n \in DOMAIN stack
    BY <1>1
  <2>2. ASSUME NEW k \in DOMAIN stack PROVE frames[k].dir = stack[k].dir /\ frames[k].dir \in Q
    <3>1. frames[k].dir = stack[k].dir
      <4>1. k = n \/ k \in 1 .. n - 1
        BY <1>1, <2>2
      <4>2. k = n => frames[k].dir = d /\ stack[k] = Top
        BY <1>1, <1>6, <1>7
      <4> QED BY <1>7, <4>1, <4>2 DEF d
    <3> QED BY <1>2, <1>9, <3>1 DEF InFrames
  <2> QED BY <2>1, <2>2
<1>16. OnDisk(s, frames, T2, Q)
  <2> SUFFICES ASSUME NEW e \in Q, \A k \in DOMAIN frames : frames[k].dir # e
               PROVE  T2[e] = View(s)[e]
    BY DEF OnDisk
  <2>1. \A k \in DOMAIN stack : stack[k].dir # e
    BY <1>1, <1>7, <1>15
  <2>2. e # d /\ e \in R /\ e # c
    BY <1>1, <1>15, <2>1 DEF d
  <2>3. T[e] = View(fs)[e]
    BY <1>9, <2>1, <2>2 DEF OnDisk
  <2> QED BY <1>1, <1>8, <1>10, <1>11, <2>2, <2>3
<1>17. InFrames(frames, T2, Q)
  <2> SUFFICES ASSUME NEW k \in DOMAIN stack
               PROVE  /\ T2[frames[k].dir] = frames[k].table
                      /\ \A r \in frames[k].todo : InUse(T2, frames[k].dir, r)
    BY <1>1, <1>7, <1>15 DEF InFrames
  <2>1. CASE k = n
    <3>1. frames[k].dir = d /\ frames[k].table = w /\ frames[k].todo = Top.todo \ {slot}
      BY <1>6, <1>7, <2>1
    <3>2. \A r \in Top.todo \ {slot} : InUse(T2, d, r)
      BY <1>1, <1>5, <1>10 DEF InUse
    <3> QED BY <1>10, <3>1, <3>2
  <2>2. CASE k # n
    <3>1. frames[k] = stack[k]
      BY <1>1, <1>7, <2>2
    <3>2. stack[k].dir \in R /\ stack[k].dir # d
      BY <1>1, <1>9, <1>15, <2>2 DEF InFrames, Distinct, d
    <3> QED BY <1>9, <1>10, <3>1, <3>2 DEF InFrames, InUse
  <2> QED BY <2>1, <2>2
<1>18. Nested(frames)
  <2> SUFFICES ASSUME NEW k \in DOMAIN stack, k # 1
               PROVE  /\ frames[k - 1].todo # {}
                      /\ frames[k - 1].table[Min(frames[k - 1].todo)].inode = frames[k].dir
    BY <1>1, <1>7 DEF Nested
  <2>1. frames[k - 1] = stack[k - 1]
    BY <1>1, <1>7
  <2> QED BY <1>9, <1>15, <2>1 DEF Nested
<1>19. Distinct(frames)
  BY <1>1, <1>7, <1>9, <1>15 DEF Distinct
<1>20. Anchored(frames, T2)
  <2>1. 1 \in DOMAIN stack /\ frames[1].dir = stack[1].dir
    BY <1>1, <1>15
  <2>2. CASE stack[1].dir # 0
    <3>1. \A k \in DOMAIN stack : stack[k].dir # 0
      BY <1>9, <1>12, <2>2 DEF Anchored
    <3>2. PICK r \in Slots : InUse(T, 0, r) /\ T[0][r].inode = stack[1].dir
      BY <1>9, <1>12, <2>2 DEF Anchored
    <3>3. d # 0 /\ 0 \in R
      BY <1>1, <1>15, <3>1 DEF d, Linked
    <3>4. T2[0] = T[0]
      BY <1>10, <3>3
    <3>5. \A k \in DOMAIN frames : frames[k].dir # 0
      BY <1>1, <1>7, <1>15, <3>1
    <3> QED BY <2>1, <3>2, <3>4, <3>5 DEF Anchored, InUse
  <2> QED BY <2>1, <2>2 DEF Anchored
<1> QED BY <1>8, <1>10, <1>14, <1>16, <1>17, <1>18, <1>19, <1>20 DEF Walks, Agrees, frames

LEMMA LeaveWalks ==
    ASSUME TypeOK, Running, fs \in Tidy, Walks(fs, stack), Len(stack) > 1,
           NEW s, s = write_dir_block(fs, Top.dir, Top.table),
           NEW last, last = Len(Below)
    PROVE  Walks(s, [Below EXCEPT ![last].emptied = TRUE])
<1> DEFINE n == Len(stack)
           d == Top.dir
           frames == [Below EXCEPT ![last].emptied = TRUE]
<1> PICK R : \E T \in Views : Linked(Kinds(fs), T, R) /\ Agrees(fs, stack, T, R)
  BY DEF Walks
<1> PICK T \in Views : Linked(Kinds(fs), T, R) /\ Agrees(fs, stack, T, R)
  OBVIOUS
<1>1. /\ n \in Nat \ {0} /\ DOMAIN stack = 1 .. n /\ Top = stack[n] /\ d \in R
      /\ R \in SUBSET Inodes /\ T[d] = Top.table
  BY AtEntry
<1>2. /\ OnDisk(fs, stack, T, R) /\ InFrames(stack, T, R) /\ Nested(stack)
      /\ Distinct(stack) /\ Anchored(stack, T) /\ fs \in FsStates /\ fs.sb
  BY DEF Agrees, Walks, Tidy
<1>3. /\ last = n - 1 /\ DOMAIN frames = 1 .. n - 1
      /\ \A k \in 1 .. n - 1 : /\ frames[k].dir = stack[k].dir
                               /\ frames[k].table = stack[k].table
                               /\ frames[k].todo = stack[k].todo
  <2>1. Top \in Frames /\ Below \in Seq(Frames)
    BY TopTypes
  <2> DEFINE m == Len(Below)
             whole == Append(Below, Top)
  <2>2. /\ m = n - 1 /\ DOMAIN Below = 1 .. n - 1
        /\ \A k \in 1 .. n - 1 : Below[k] = stack[k]
    <3>1. DOMAIN whole = 1 .. n /\ \A k \in 1 .. n - 1 : whole[k] = stack[k]
      BY <2>1, Replaced
    <3>2. DOMAIN whole = 1 .. m + 1 /\ \A k \in 1 .. m : whole[k] = Below[k]
      BY <2>1, AppendProperties
    <3>3. m \in Nat /\ DOMAIN Below = 1 .. m
      BY <2>1, LenProperties
    <3> HIDE DEF m, n, whole
    <3>4. m = n - 1
      <4>1. n \in Nat \ {0} /\ n \in 1 .. m + 1 /\ m + 1 \in 1 .. n
        BY <1>1, <3>1, <3>2, <3>3
      <4> QED BY <3>3, <4>1
    <3> QED BY <3>1, <3>2, <3>3, <3>4
  <2>3. last = n - 1
    BY <2>2
  <2>4. \A k \in 1 .. n - 1 : Below[k] \in Frames
    BY <2>1, <2>2, ElementOfSeq
  <2> QED BY <2>2, <2>3, <2>4 DEF Frames
<1>4. /\ s.sb /\ Kinds(s) = Kinds(fs) /\ View(s)[d] = Top.table
      /\ \A e \in R : e # d => View(s)[e] = View(fs)[e]
  <2>1. \A e \in R : e \in Inodes /\ fs.inodes[e].type # "none"
    BY <1>1, <1>2, ViewTypes DEF Linked
  <2>2. Top.table \in Tables
    BY TopTypes DEF Frames
  <2>3. d \in Inodes /\ fs.inodes[d].type # "none" /\ s = write_dir_block(fs, d, Top.table)
    BY <1>1, <2>1
  <2> HIDE DEF d
  <2>4. Alike(fs, s, {d}) /\ View(s)[d] = Top.table
    BY <1>2, <2>2, <2>3, WriteDirView
  <2> QED BY <1>1, <2>1, <2>4 DEF Alike
<1>5. stack # <<>> /\ n > 1
  BY DEF Running
<1> HIDE DEF n, d, frames
<1>6. OnDisk(s, frames, T, R)
  <2> SUFFICES ASSUME NEW e \in R, \A k \in DOMAIN frames : frames[k].dir # e
               PROVE  T[e] = View(s)[e]
    BY DEF OnDisk
  <2>1. CASE e = d
    BY <1>1, <1>4, <2>1
  <2>2. CASE e # d
    <3>1. \A k \in DOMAIN stack : stack[k].dir # e
      BY <1>1, <1>3, <2>2 DEF d
    <3> QED BY <1>2, <1>4, <2>2, <3>1 DEF OnDisk
  <2> QED BY <2>1, <2>2
<1>7. InFrames(frames, T, R)
  BY <1>1, <1>2, <1>3 DEF InFrames
<1>8. Nested(frames)
  <2> SUFFICES ASSUME NEW k \in DOMAIN frames, k # 1
               PROVE  /\ frames[k - 1].todo # {}
                      /\ frames[k - 1].table[Min(frames[k - 1].todo)].inode = frames[k].dir
    BY DEF Nested
  <2>1. k \in DOMAIN stack /\ k - 1 \in 1 .. n - 1 /\ k \in 1 .. n - 1
    BY <1>1, <1>3
  <2> QED BY <1>2, <1>3, <2>1 DEF Nested
<1>9. Distinct(frames)
  BY <1>1, <1>2, <1>3 DEF Distinct
<1>10. Anchored(frames, T)
  <2>1. frames[1].dir = stack[1].dir
    BY <1>1, <1>3, <1>5
  <2> QED BY <1>1, <1>2, <1>3, <1>5, <2>1 DEF Anchored
<1> QED BY <1>4, <1>6, <1>7, <1>8, <1>9, <1>10 DEF Walks, Agrees, frames

\* The outermost directory is written, and RAM flushed.
LEMMA DoneOrderly ==
    ASSUME TypeOK, Running, fs \in Tidy, Walks(fs, stack), Len(stack) = 1,
           NEW s, s = write_dir_block(fs, Top.dir, Top.table)
    PROVE  Flush(s) \in Orderly
<1> DEFINE d == Top.dir
<1> PICK R : \E T \in Views : Linked(Kinds(fs), T, R) /\ Agrees(fs, stack, T, R)
  BY DEF Walks
<1> PICK T \in Views : Linked(Kinds(fs), T, R) /\ Agrees(fs, stack, T, R)
  OBVIOUS
<1>1. /\ DOMAIN stack = {1} /\ Top = stack[1] /\ d \in R
      /\ R \in SUBSET Inodes /\ T[d] = Top.table
  BY AtEntry
<1>2. OnDisk(fs, stack, T, R) /\ fs \in FsStates /\ fs.sb
  BY DEF Agrees, Walks, Tidy
<1>3. \A e \in R : e \in Inodes /\ fs.inodes[e].type # "none"
  BY <1>1, <1>2, ViewTypes DEF Linked
<1>4. Top.table \in Tables
  BY TopTypes DEF Frames
<1>5. Alike(fs, s, {d}) /\ View(s)[d] = Top.table
  <2>1. d \in Inodes /\ fs.inodes[d].type # "none" /\ s = write_dir_block(fs, d, Top.table)
    BY <1>1, <1>3
  <2> HIDE DEF d
  <2> QED BY <1>2, <1>4, <2>1, WriteDirView
<1>6. s \in Tidy /\ s.sb /\ Kinds(s) = Kinds(fs)
  BY <1>5 DEF Alike
<1>7. \A e \in R : View(s)[e] = T[e]
  <2>1. ASSUME NEW e \in R, e # d PROVE View(s)[e] = T[e]
    <3>1. T[e] = View(fs)[e]
      BY <1>1, <1>2, <2>1 DEF OnDisk
    <3> QED BY <1>3, <1>5, <2>1, <3>1 DEF Alike
  <2> QED BY <1>1, <1>5, <2>1
<1>8. Linked(Kinds(s), View(s), R)
  BY <1>6, <1>7, SameLinked
<1> QED BY <1>6, <1>8, OrderlyFlush

LEMMA RemoveStepLinks ==
    ASSUME IInv, BInv, LInv, RemoveStep
    PROVE  LInv'
<1>1. Running
  <2>1. \/ Running
        \/ Len(stack) > 1
        \/ Len(stack) = 1
    BY DEF RemoveStep, RemoveEnter, RemoveCurrent, RemoveLeave, RemoveDone, RemoveGivesUp
  <2>2. stack \in Seq(Frames)
    BY DEF IInv, TypeOK
  <2>3. Len(stack) \in Nat /\ (Len(stack) >= 1 => stack # <<>>)
    BY <2>2, LenProperties, EmptySeq
  <2> QED BY <2>1, <2>3 DEF Running
<1>2. phase = "ready" /\ TypeOK
  BY <1>1 DEF IInv
<1>3. ~dirty => fs \in Tidy /\ Walks(fs, stack)
  BY <1>2 DEF BInv, Whole, LInv, Live
<1>4. ASSUME NEW s, NEW frames, Goes(s, frames), ~dirty => Walks(s, frames) PROVE LInv'
  BY <1>2, <1>4, GoesLinks
<1>5. ASSUME NEW cuts, RemoveFaults(cuts) PROVE LInv'
  BY <1>2, <1>5, RemoveFaultsLinks
<1> DEFINE s == write_dir_block(fs, Top.dir, Top.table)
           t == load_dir_block(fs, Current)
           entered == Append(stack, Frame(Current, t, UsedSlots(t)))
           slot == Min(Top.todo)
           frame == [Top EXCEPT !.table = Unlinked(@, slot), !.todo = @ \ {slot},
                                !.emptied = FALSE]
           freed == Released(fs, Current)
           n == Len(Below)
           left == [Below EXCEPT ![n].emptied = TRUE]
           r == FlushAndReturn(s, {fs})
<1>6. ASSUME RemoveEnter PROVE LInv'
  <2>1. Top.todo # {} /\ fs.inodes[Current].type = "dir"
    BY <1>6 DEF RemoveEnter
  <2>2. ~dirty => Walks(fs, entered)
    BY <1>1, <1>2, <1>3, <2>1, EnterWalks
  <2>3. Goes(fs, entered) \/ RemoveFaults({fs})
    BY <1>6 DEF RemoveEnter
  <2> HIDE DEF entered
  <2> QED BY <1>4, <1>5, <2>2, <2>3
<1>7. ASSUME RemoveCurrent PROVE LInv'
  <2>1. Top.todo # {} /\ (Goes(freed.final, Append(Below, frame)) \/ RemoveFaults(freed.cuts))
    BY <1>7 DEF RemoveCurrent
  <2>2. ~dirty => Walks(freed.final, Append(Below, frame))
    BY <1>1, <1>2, <1>3, <2>1, CurrentWalks
  <2> HIDE DEF freed, frame
  <2> QED BY <1>4, <1>5, <2>1, <2>2
<1>8. ASSUME RemoveLeave PROVE LInv'
  <2>1. Len(stack) > 1 /\ (Goes(s, left) \/ RemoveFaults({fs, s}))
    BY <1>8 DEF RemoveLeave
  <2>2. ~dirty => Walks(s, left)
    BY <1>1, <1>2, <1>3, <2>1, LeaveWalks
  <2> HIDE DEF s, left
  <2> QED BY <1>4, <1>5, <2>1, <2>2
<1>9. ASSUME RemoveDone PROVE LInv'
  <2>1. /\ Len(stack) = 1
        /\ \/ fs' = r.final /\ stack' = <<>> /\ UNCHANGED <<phase, dirty>>
           \/ RemoveFaults(r.cuts)
    BY <1>9 DEF RemoveDone
  <2>2. ~dirty => Flush(s) \in Orderly
    BY <1>1, <1>2, <1>3, <2>1, DoneOrderly
  <2>3. r.final = Flush(s)
    BY DEF FlushAndReturn, Outcome
  <2> HIDE DEF r, s
  <2>4. CASE fs' = r.final /\ stack' = <<>> /\ UNCHANGED <<phase, dirty>>
    BY <1>2, <2>2, <2>3, <2>4, OrderlyWalks DEF LInv, Live
  <2> QED BY <1>5, <2>1, <2>4
<1>10. ASSUME RemoveGivesUp PROVE LInv'
  <2>1. ASSUME ~dirty PROVE FALSE
    <3>1. PICK R : \E T \in Views : Linked(Kinds(fs), T, R) /\ Agrees(fs, stack, T, R)
      BY <1>3, <2>1 DEF Walks
    <3>2. PICK T \in Views : Linked(Kinds(fs), T, R) /\ Agrees(fs, stack, T, R)
      BY <3>1
    <3>3. Current \in Inodes \ {0} /\ Kinds(fs)[Current] # "none"
      BY <1>1, <1>2, <1>3, <1>10, <2>1, <3>2, NotOpen DEF RemoveGivesUp
    <3>4. fs.inodes[Current].type # "none"
      BY <1>3, <2>1, <3>3, ViewTypes DEF Tidy
    <3>5. fs.inodes[Current].block # 0
      BY <1>3, <2>1, <3>3, <3>4, OwnBlock
    <3> QED BY <1>10, <3>3, <3>4, <3>5 DEF RemoveGivesUp
  <2>2. Goes(fs, <<>>)
    BY <1>10 DEF RemoveGivesUp
  <2> QED BY <1>4, <2>1, <2>2
<1> QED BY <1>6, <1>7, <1>8, <1>9, <1>10 DEF RemoveStep

\* The path's directory is the root or one that an entry of the root names.
LEMMA DirAnchored ==
    ASSUME NEW st \in Tidy, st.sb, NEW path, Usable(st, DirOf(st, path)), DirOf(st, path) # 0
    PROVE  \E r \in Slots : /\ InUse(View(st), 0, r)
                            /\ View(st)[0][r].inode = DirOf(st, path)
<1> DEFINE t == load_dir_block(st, 0)
           f == find_dir_entry(t, st.inodes, path.dir, "dir")
<1>1. st \in FsStates /\ 0 \in Inodes
  BY Numbers DEF Tidy
<1>2. t = View(st)[0] /\ t \in Tables
  BY <1>1, ViewTypes
<1>3. DirOf(st, path) = IF f = 0 THEN NoDir ELSE t[f].inode
  BY DEF DirOf, SubDir
<1> HIDE DEF t
<1>4. f # 0 => Found(st, t, path.dir, "dir", f)
  BY <1>1, <1>2, Searches
<1> HIDE DEF f
<1>5. f # 0
  BY <1>3, Numbers DEF Usable, NoDir
<1>6. f \in Slots /\ t[f].name # NoName
  BY <1>4, <1>5 DEF Found
<1> QED BY <1>2, <1>3, <1>5, <1>6 DEF InUse

LEMMA RemoveRecursiveLinks ==
    ASSUME IInv, BInv, LInv, NEW path \in PathRecords, RemoveRecursive(path)
    PROVE  LInv'
<1> DEFINE d == DirOf(fs, path)
           t == load_dir_block(fs, d)
           dirSlot == find_dir_entry(t, fs.inodes, path.name, "dir")
           fileSlot == find_dir_entry(t, fs.inodes, path.name, "file")
           s == IF dirSlot # 0 THEN dirSlot ELSE fileSlot
<1>1. /\ phase = "ready" /\ stack = <<>>
      /\ Usable(fs, d) /\ s # 0 /\ Goes(fs, <<Frame(d, t, {s})>>)
  BY DEF RemoveRecursive, Running
<1>2. ASSUME ~dirty PROVE Walks(fs, <<Frame(d, t, {s})>>)
  <2>1. fs \in Orderly
    BY <1>1, <1>2, LiveOrderly DEF Live
  <2> PICK R : Linked(Kinds(fs), View(fs), R)
    BY <2>1 DEF Orderly
  <2>2. fs \in Tidy /\ fs.sb /\ fs \in FsStates
    BY <2>1 DEF Orderly, Tidy
  <2>3. d \in R /\ R \in SUBSET Inodes
    BY <1>1, <2>2, PathsLead
  <2>4. d # 0 => \E r \in Slots : InUse(View(fs), 0, r) /\ View(fs)[0][r].inode = d
    BY <1>1, <2>2, DirAnchored
  <2> HIDE DEF d
  <2>5. t = View(fs)[d] /\ t \in Tables
    BY <2>2, <2>3, ViewTypes
  <2> HIDE DEF t
  <2>6. /\ dirSlot # 0 => Found(fs, t, path.name, "dir", dirSlot)
        /\ fileSlot # 0 => Found(fs, t, path.name, "file", fileSlot)
    BY <2>2, <2>5, Searches
  <2> HIDE DEF dirSlot, fileSlot
  <2>7. s \in Slots /\ t[s].name # NoName
    BY <1>1, <2>6 DEF Found
  <2> HIDE DEF s
  <2>8. InUse(View(fs), d, s)
    BY <2>5, <2>7 DEF InUse
  <2> QED BY <2>2, <2>3, <2>4, <2>5, <2>7, <2>8, StartWalks
<1> HIDE DEF d, t, s
<1> QED BY <1>1, <1>2, GoesLinks

LEMMA RebootLinks ==
    ASSUME BInv, LInv, Reboot
    PROVE  LInv'
<1>1. ~dirty /\ fs \in {fs} => fs \in Orderly
  BY LiveOrderly DEF Reboot, Live
<1> QED BY <1>1, PowerLinks DEF Reboot

\* Every call there is, for any path at all.
LEMMA CallsLink ==
    ASSUME BInv, LInv, NEW p \in PathRecords, NEW q \in PathRecords
    PROVE  /\ Mkdir(p) => LInv'
           /\ Create(p) => LInv'
           /\ \A text \in Texts \union {Empty} : Write(p, text) => LInv'
           /\ Remove(p) => LInv'
           /\ Copy(p, q) => LInv'
           /\ Rename(p, q) => LInv'
           /\ \A hash \in Hashes : WritePasswd(hash) => LInv'
<1>1. Mkdir(p) => LInv'
  BY CallLinks, MkdirOrderly DEF Mkdir
<1>2. Create(p) => LInv'
  BY CallLinks, CreateOrderly DEF Create, PathRecords
<1>3. ASSUME NEW text \in Texts \union {Empty} PROVE Write(p, text) => LInv'
  BY CallLinks, FsWriteOrderly DEF Write, Contents
<1>4. Remove(p) => LInv'
  BY CallLinks, RemoveOrderly DEF Remove
<1>5. Copy(p, q) => LInv'
  BY CallLinks, CopyOrderly DEF Copy
<1>6. Rename(p, q) => LInv'
  BY CallLinks, RenameOrderly DEF Rename
<1>7. ASSUME NEW hash \in Hashes PROVE WritePasswd(hash) => LInv'
  BY CallLinks, PasswdOrderly DEF WritePasswd
<1> QED BY <1>1, <1>2, <1>3, <1>4, <1>5, <1>6, <1>7

LEMMA NextLinks ==
    ASSUME IInv, BInv, LInv, [AnyStep]_vars
    PROVE  LInv'
<1>1. CASE UNCHANGED vars
  BY <1>1 DEF vars, LInv, Live
<1>2. CASE AnyStep
  <2>1. \E p : p \in PathRecords
    <3>1. [dir |-> NoName, name |-> "sys"] \in PathRecords
      BY LayoutAssumption DEF PathRecords, Names
    <3> QED BY <3>1
  <2> QED BY <1>2, <2>1, CallsLink, MountLinks, FormatLinks, RebootLinks,
             RemoveRecursiveLinks, RemoveStepLinks DEF AnyStep
<1> QED BY <1>1, <1>2

LEMMA LinksInvariant == Spec => [](IInv /\ BInv /\ LInv)
<1>1. Init => LInv
  BY DEF Init, LInv, Live, BlankDisk
<1>2. IInv /\ BInv /\ LInv /\ [Next]_vars => LInv'
  BY NextLinks, NextIsAny
<1> QED BY <1>1, <1>2, BlocksInvariant, PTL DEF Spec

\* remove_dir_contents is only ever called on a directory it does not have
\* open: rm -r of a sound filesystem never goes round in a circle, though
\* nothing in it would notice.
THEOREM NoReentry == Spec => []NeverReentered
<1>1. ASSUME IInv, LInv, Sound
      PROVE  \A k, n \in DOMAIN stack : k # n => stack[k].dir # stack[n].dir
  <2>1. CASE ~Running
    BY <2>1 DEF Running
  <2>2. CASE Running
    <3>1. Walks(fs, stack)
      BY <1>1, <2>2 DEF IInv, LInv, Live, Sound
    <3>2. Distinct(stack)
      BY <3>1 DEF Walks, Agrees
    <3> QED BY <3>2 DEF Distinct
  <2> QED BY <2>1, <2>2
<1>2. IInv /\ BInv /\ LInv => NeverReentered
  BY <1>1 DEF NeverReentered
<1> QED BY <1>2, LinksInvariant, PTL

-----------------------------------------------------------------------------
(* What can be reached.  Within is a recursive function of a number: that  *)
(* there is a function that satisfies its equation is shown first.         *)

Start == {[path |-> <<>>, inode |-> 0]}
Level(S) == {[path |-> <<>>, inode |-> 0]} \union UNION {Children(x, "dir") : x \in S}

\* g satisfies the equation up to n.
Upto(g, n) == \A k \in 0 .. n : g[k] = IF k = 0 THEN Start ELSE Level(g[k - 1])

LEMMA UptoSame ==
    ASSUME NEW g, NEW h, NEW n \in Nat, NEW m \in Nat, Upto(g, n), Upto(h, m),
           NEW k \in 0 .. n, k <= m
    PROVE  g[k] = h[k]
<1> DEFINE S == {j \in 0 .. k : g[j] # h[j]}
<1>1. SUFFICES ASSUME S # {} PROVE FALSE
  OBVIOUS
<1>2. S \in SUBSET Nat
  OBVIOUS
<1>3. PICK j \in S : \A i \in S : j <= i
  BY <1>1, <1>2, MinOf
<1>4. j \in 0 .. k /\ g[j] # h[j] /\ j \in 0 .. n /\ j \in 0 .. m
  BY <1>3
<1>5. j # 0
  BY <1>4 DEF Upto
<1>6. j - 1 \in 0 .. k /\ j - 1 \notin S
  BY <1>3, <1>4, <1>5
<1>7. g[j - 1] = h[j - 1]
  BY <1>6
<1> HIDE DEF S
<1> QED BY <1>4, <1>5, <1>7 DEF Upto

LEMMA UptoExists ==
    ASSUME NEW n \in Nat
    PROVE  \E g : Upto(g, n)
<1> DEFINE S == {m \in Nat : ~ \E g : Upto(g, m)}
<1>1. SUFFICES ASSUME S # {} PROVE FALSE
  OBVIOUS
<1>2. PICK m \in S : \A i \in S : m <= i
  BY <1>1, MinOf
<1>3. m \in Nat /\ ~ \E g : Upto(g, m)
  BY <1>2
<1>4. CASE m = 0
  <2> DEFINE g == [k \in {0} |-> Start]
  <2>1. g[0] = Start /\ 0 .. 0 = {0}
    OBVIOUS
  <2> HIDE DEF g
  <2>2. Upto(g, 0)
    BY <2>1 DEF Upto
  <2> QED BY <1>3, <1>4, <2>2
<1>5. CASE m # 0
  <2>1. m - 1 \in Nat /\ m - 1 \notin S
    BY <1>2, <1>3, <1>5
  <2>2. PICK g : Upto(g, m - 1)
    BY <2>1
  <2> DEFINE h == [k \in 0 .. m |-> IF k = m THEN Level(g[m - 1]) ELSE g[k]]
  <2>3. h[m] = Level(g[m - 1]) /\ \A k \in 0 .. m - 1 : h[k] = g[k]
    BY <1>3
  <2> HIDE DEF h
  <2>4. ASSUME NEW k \in 0 .. m
        PROVE  h[k] = IF k = 0 THEN Start ELSE Level(h[k - 1])
    <3>1. CASE k = m
      <4>1. m - 1 \in 0 .. m - 1
        BY <1>3, <1>5
      <4> QED BY <1>5, <2>3, <3>1, <4>1
    <3>2. CASE k # m
      <4>1. k \in 0 .. m - 1 /\ (k # 0 => k - 1 \in 0 .. m - 1)
        BY <1>3, <2>4, <3>2
      <4>2. g[k] = IF k = 0 THEN Start ELSE Level(g[k - 1])
        BY <2>2, <4>1 DEF Upto
      <4>3. k # 0 => h[k - 1] = g[k - 1]
        BY <2>3, <4>1
      <4> QED BY <2>3, <4>1, <4>2, <4>3
    <3> QED BY <3>1, <3>2
  <2>5. Upto(h, m)
    BY <2>4 DEF Upto
  <2> QED BY <1>3, <2>5
<1> QED BY <1>4, <1>5

LEMMA WithinIs ==
    ASSUME NEW n \in Nat
    PROVE  Within[n] = IF n = 0 THEN Start ELSE Level(Within[n - 1])
<1> DEFINE F == [k \in Nat |-> (CHOOSE g : Upto(g, k))[k]]
           Eq(f) == [k \in Nat |-> IF k = 0 THEN Start ELSE Level(f[k - 1])]
<1>1. ASSUME NEW k \in Nat
      PROVE  F[k] = IF k = 0 THEN Start ELSE Level(F[k - 1])
  <2> DEFINE g == CHOOSE g : Upto(g, k)
             h == CHOOSE h : Upto(h, k - 1)
  <2>1. Upto(g, k)
    BY UptoExists
  <2>2. F[k] = g[k]
    BY DEF F
  <2>3. k # 0 => Upto(h, k - 1) /\ F[k - 1] = h[k - 1] /\ k - 1 \in Nat
    <3>1. ASSUME k # 0 PROVE k - 1 \in Nat
      BY <3>1
    <3>2. ASSUME k # 0 PROVE Upto(h, k - 1)
      BY <3>1, <3>2, UptoExists
    <3>3. ASSUME k # 0 PROVE F[k - 1] = h[k - 1]
      BY <3>1, <3>3
    <3> QED BY <3>1, <3>2, <3>3
  <2> HIDE DEF g, h, F
  <2>4. k # 0 => h[k - 1] = g[k - 1]
    <3>1. ASSUME k # 0 PROVE k - 1 \in 0 .. k - 1 /\ k - 1 <= k
      BY <3>1
    <3> QED BY <2>1, <2>3, <3>1, UptoSame
  <2>5. g[k] = IF k = 0 THEN Start ELSE Level(g[k - 1])
    BY <2>1 DEF Upto
  <2> QED BY <2>2, <2>3, <2>4, <2>5
<1>2. F = Eq(F)
  <2>1. F = [k \in Nat |-> F[k]]
    BY DEF F
  <2> HIDE DEF F
  <2> QED BY <1>1, <2>1
<1>3. Within = CHOOSE f : f = Eq(f)
  BY DEF Within, Start, Level
<1>4. Within = Eq(Within)
  <2> HIDE DEF F, Eq
  <2> QED BY <1>2, <1>3
<1>5. Eq(Within)[n] = IF n = 0 THEN Start ELSE Level(Within[n - 1])
  OBVIOUS
<1> HIDE DEF Eq
<1> QED BY <1>4, <1>5

\* The state that Inode and TableOf speak of.
Now == IF Live THEN fs ELSE Mounted(fs)

LEMMA NowOrderly ==
    ASSUME IInv, BInv, LInv, Sound, ~Running
    PROVE  /\ Now \in Orderly /\ Now \in Tidy /\ Now \in FsStates
           /\ Inode = Now.inodes /\ Bitmap = Now.bitmap
           /\ \A d : TableOf(d) = Now.blocks[Now.inodes[d].block].table
<1>1. fs \in FsStates /\ stack = <<>>
  BY DEF IInv, TypeOK, Running
<1>2. Now \in Orderly
  BY <1>1, LiveOrderly DEF Now, Sound, LInv
<1>3. /\ Mounted(fs).inodes = fs.dinodes /\ Mounted(fs).bitmap = fs.dbitmap
      /\ Mounted(fs).blocks = fs.blocks
  BY <1>1 DEF Mounted, FsStates
<1> QED BY <1>2, <1>3 DEF Now, Inode, Bitmap, TableOf, Orderly, Tidy

\* Whatever set of directories is closed has all that can be reached.
LEMMA ReachedIn ==
    ASSUME IInv, BInv, LInv, Sound, ~Running, NEW R, Linked(Kinds(Now), View(Now), R)
    PROVE  \A x \in TreeDirs : x.inode \in R
<1> DEFINE Bad == {n \in Nat : ~ \A x \in Within[n] : x.inode \in R}
<1>1. /\ Now \in FsStates /\ Inode = Now.inodes
      /\ \A d : TableOf(d) = Now.blocks[Now.inodes[d].block].table
  BY NowOrderly
<1>2. 0 \in R /\ R \in SUBSET Inodes /\ Refers(Kinds(Now), View(Now), R)
  BY DEF Linked
<1>3. ASSUME NEW d \in R PROVE TableOf(d) = View(Now)[d] /\ View(Now)[d] \in Tables
  BY <1>1, <1>2, ViewTypes DEF View
<1>4. ASSUME NEW x, x.inode \in R, NEW y \in Children(x, "dir") PROVE y.inode \in R
  <2> DEFINE t == TableOf(x.inode)
  <2>1. PICK s \in UsedSlots(t) : Inode[t[s].inode].type = "dir" /\ y.inode = t[s].inode
    BY <1>4 DEF Children
  <2>2. s \in Slots /\ t[s].name # NoName
    BY <2>1 DEF UsedSlots
  <2>3. t = View(Now)[x.inode] /\ t \in Tables
    BY <1>3, <1>4
  <2>4. t[s].inode \in Inodes
    BY <2>2, <2>3 DEF Tables, Entries
  <2>5. Kinds(Now)[t[s].inode] = "dir"
    BY <1>1, <2>1, <2>4 DEF Kinds
  <2> HIDE DEF t
  <2> QED BY <1>2, <1>4, <2>1, <2>2, <2>3, <2>5 DEF Refers, InUse
<1>5. Bad = {}
  <2>1. SUFFICES ASSUME Bad # {} PROVE FALSE
    OBVIOUS
  <2>2. PICK m \in Bad : \A i \in Bad : m <= i
    BY <2>1, MinOf
  <2>3. m \in Nat /\ ~ \A x \in Within[m] : x.inode \in R
    BY <2>2
  <2>4. m # 0
    BY <1>2, <2>3, WithinIs DEF Start
  <2>5. m - 1 \in Nat /\ m - 1 \notin Bad
    BY <2>2, <2>3, <2>4
  <2>6. \A x \in Within[m - 1] : x.inode \in R
    BY <2>5
  <2>7. Within[m] = Level(Within[m - 1])
    BY <2>3, <2>4, WithinIs
  <2> HIDE DEF Bad
  <2>8. \A x \in Level(Within[m - 1]) : x.inode \in R
    BY <1>2, <1>4, <2>6 DEF Level
  <2> QED BY <2>3, <2>7, <2>8
<1>6. Cardinality(Dirs) \in Nat
  <2>1. Dirs \in SUBSET Inodes
    BY DEF Dirs
  <2>2. 0 \in Int /\ NumInodes - 1 \in Int
    BY LayoutAssumption
  <2>3. IsFiniteSet(Inodes)
    BY <2>2, FS_Interval DEF Inodes
  <2> QED BY <2>1, <2>3, FS_Subset, FS_CardinalityType
<1> QED BY <1>5, <1>6 DEF TreeDirs

\* Every entry that can be reached from the root refers to a file or directory
\* in use, no two refer to the same one, and lookup finds each entry of a
\* directory by its name and kind: what the order of the writes in fs_rename,
\* fs_mkdir_path, fs_write_path, write_sys_file and the remove functions, and
\* their lookups before it, are for.
THEOREM TreeSound == Spec => []TablesSound
<1>1. ASSUME IInv, BInv, LInv, Sound, ~Running
      PROVE  /\ \A x \in TreeLinks : Target(x) \in Used \ {0}
             /\ \A x, y \in TreeLinks : x # y => Target(x) # Target(y)
             /\ \A d \in {x.inode : x \in TreeDirs} : \A s, r \in UsedSlots(TableOf(d)) :
                  s # r /\ TableOf(d)[s].name = TableOf(d)[r].name
                      => Inode[TableOf(d)[s].inode].type # Inode[TableOf(d)[r].inode].type
  <2> DEFINE K == Kinds(Now)
             T == View(Now)
  <2>1. /\ Now \in FsStates /\ Inode = Now.inodes /\ Now \in Orderly
        /\ \A d : TableOf(d) = Now.blocks[Now.inodes[d].block].table
    BY <1>1, NowOrderly
  <2>2. PICK R : Linked(K, T, R)
    BY <2>1 DEF Orderly
  <2>3. \A x \in TreeDirs : x.inode \in R
    BY <1>1, <2>2, ReachedIn
  <2>4. R \in SUBSET Inodes /\ Refers(K, T, R) /\ Unshared(T, R) /\ Telling(K, T, R)
    BY <2>2 DEF Linked
  <2>5. \A d \in R : TableOf(d) = T[d] /\ T[d] \in Tables
    BY <2>1, <2>4, ViewTypes DEF View
  <2>6. \A i \in Inodes : Inode[i].type = K[i]
    BY <2>1, ViewTypes
  <2> HIDE DEF K, T
  <2>7. ASSUME NEW x \in TreeLinks
        PROVE  /\ x = <<x[1], x[2]>> /\ x[1] \in R /\ x[2] \in Slots
               /\ InUse(T, x[1], x[2]) /\ Target(x) = T[x[1]][x[2]].inode
    BY <2>3, <2>5, <2>7 DEF TreeLinks, Links, InUse, Target
  <2>8. ASSUME NEW x \in TreeLinks PROVE Target(x) \in Used \ {0}
    <3>1. Target(x) \in Inodes
      BY <2>5, <2>7, <2>8 DEF Tables, Entries
    <3> QED BY <2>4, <2>6, <2>7, <2>8, <3>1 DEF Refers, Used
  <2>9. ASSUME NEW x \in TreeLinks, NEW y \in TreeLinks, x # y PROVE Target(x) # Target(y)
    BY <2>4, <2>7, <2>9 DEF Unshared
  <2>10. ASSUME NEW d \in {x.inode : x \in TreeDirs},
                NEW s \in UsedSlots(TableOf(d)), NEW r \in UsedSlots(TableOf(d)),
                s # r, TableOf(d)[s].name = TableOf(d)[r].name
         PROVE  Inode[TableOf(d)[s].inode].type # Inode[TableOf(d)[r].inode].type
    <3>1. d \in R /\ TableOf(d) = T[d] /\ T[d] \in Tables
      BY <2>3, <2>5
    <3>2. s \in Slots /\ r \in Slots /\ InUse(T, d, s) /\ InUse(T, d, r)
      BY <3>1 DEF UsedSlots, InUse
    <3>3. T[d][s].inode \in Inodes /\ T[d][r].inode \in Inodes
      BY <3>1, <3>2 DEF Tables, Entries
    <3> QED BY <2>4, <2>6, <2>10, <3>1, <3>2, <3>3 DEF Telling
  <2> QED BY <2>8, <2>9, <2>10
<1>2. IInv /\ BInv /\ LInv => LinksSound /\ NamesUnique
  BY <1>1 DEF LinksSound, NamesUnique
<1>3. IInv /\ BInv /\ LInv /\ BlocksAccounted => TablesSound
  BY <1>2 DEF TablesSound
<1> QED BY <1>3, LinksInvariant, AllocationExact, PTL
=============================================================================
