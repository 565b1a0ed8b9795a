----------------------------- MODULE ShellProofs -----------------------------
(***************************************************************************)
(* The shell over the filesystem, for every set of arguments its user may  *)
(* type: its steps are steps of the filesystem, so that what               *)
(* FilesystemProofs says of the disk holds under it, and what it prints is *)
(* what is there.                                                          *)
(***************************************************************************)
EXTENDS Shell, FilesystemProofs

-----------------------------------------------------------------------------
(* Paths *)

LEMMA ArgTypes ==
    ASSUME NEW arg \in Args \union RmArgs
    PROVE  arg.up \in Nat /\ arg.names \in Seq(Typed) /\ Len(arg.names) <= 3
<1>1. arg.up \in Nat /\ arg.names \in Seq(Names) /\ Len(arg.names) <= 3
  BY ShellAssumption DEF ArgRecords
<1>2. \A k \in DOMAIN arg.names : arg.names[k] \in Typed
  BY DEF Typed
<1>3. arg.names \in Seq(Typed)
  BY <1>1, <1>2
<1> QED BY <1>1, <1>3

LEMMA TypedNames == Typed \subseteq Names
BY ShellAssumption, ElementOfSeq DEF Typed, ArgRecords

CwdOK == cwd \in Seq(Typed) /\ Len(cwd) <= MaxCwd

LEMMA WithoutType ==
    ASSUME CwdOK, NEW n \in Nat
    PROVE  Without(cwd, n) \in Seq(Typed) /\ Len(Without(cwd, n)) <= Len(cwd)
<1>1. CASE n > Len(cwd)
  BY <1>1, EmptySeq, LenProperties DEF Without, CwdOK
<1>2. CASE ~(n > Len(cwd))
  <2> DEFINE m == Len(cwd) - n
  <2>1. 1 \in Int /\ m \in Int /\ Len(cwd) \in Nat /\ m >= 0
    BY <1>2, LenProperties DEF CwdOK
  <2>2. \A k \in 1 .. m : cwd[k] \in Typed
    BY <2>1, ElementOfSeq DEF CwdOK
  <2>3. Without(cwd, n) = SubSeq(cwd, 1, m)
    BY <1>2 DEF Without
  <2> HIDE DEF m
  <2>4. /\ SubSeq(cwd, 1, m) \in Seq(Typed)
        /\ Len(SubSeq(cwd, 1, m)) = IF 1 <= m THEN m - 1 + 1 ELSE 0
    BY <2>1, <2>2, SubSeqProperties
  <2> QED BY <2>1, <2>3, <2>4 DEF m
<1> QED BY <1>1, <1>2

LEMMA ResolvedType ==
    ASSUME CwdOK, NEW arg \in Args \union RmArgs
    PROVE  Resolved(arg) \in Seq(Typed) /\ Len(Resolved(arg)) <= 3
<1>1. arg.up \in Nat /\ arg.names \in Seq(Typed) /\ Len(arg.names) <= 3
  BY ArgTypes
<1>2. CASE Len(arg.names) > 1
  BY <1>1, <1>2 DEF Resolved
<1>3. CASE ~(Len(arg.names) > 1)
  <2> DEFINE dir == Without(cwd, arg.up)
  <2>0. dir \in Seq(Typed) /\ Len(dir) <= Len(cwd)
    BY <1>1, WithoutType
  <2>1. dir \in Seq(Typed) /\ Len(dir) <= 2
    <3>1. Len(cwd) \in Nat /\ Len(cwd) <= MaxCwd /\ MaxCwd \in 0 .. 2
      BY ShellAssumption, LenProperties DEF CwdOK
    <3>2. Len(dir) \in Nat
      BY <2>0, LenProperties
    <3> HIDE DEF dir
    <3> QED BY <2>0, <3>1, <3>2
  <2>2. Resolved(arg) = dir \o arg.names
    BY <1>3 DEF Resolved
  <2> HIDE DEF dir
  <2>3. /\ dir \o arg.names \in Seq(Typed)
        /\ Len(dir \o arg.names) = Len(dir) + Len(arg.names)
    BY <1>1, <2>1, ConcatProperties
  <2> QED BY <1>1, <1>3, <2>1, <2>2, <2>3, LenProperties
<1> QED BY <1>2, <1>3

LEMMA PathOfType ==
    ASSUME NEW names \in Seq(Typed), names # <<>>, Len(names) <= 3
    PROVE  PathOf(names) \in PathRecords
<1>1. Len(names) \in 1 .. 3 /\ \A k \in 1 .. Len(names) : names[k] \in Typed
  <2> DEFINE n == Len(names)
  <2>1. n \in Nat \ {0} /\ n <= 3
    BY EmptySeq
  <2>2. \A k \in 1 .. n : names[k] \in Typed
    BY ElementOfSeq
  <2> HIDE DEF n
  <2>3. n \in 1 .. 3
    BY <2>1
  <2> QED BY <2>2, <2>3 DEF n
<1>2. NoName \notin Names
  BY LayoutAssumption
<1>3. CASE Len(names) = 1
  <2>1. PathOf(names) = [dir |-> NoName, name |-> names[1]] /\ names[1] \in Names
    BY <1>1, <1>3, TypedNames DEF PathOf
  <2> QED BY <1>2, <2>1 DEF PathRecords
<1>4. CASE Len(names) = 2
  <2>1. PathOf(names) = [dir |-> names[1], name |-> names[2]]
        /\ names[1] \in Names /\ names[2] \in Names
    BY <1>1, <1>4, TypedNames DEF PathOf
  <2> QED BY <1>2, <2>1 DEF PathRecords
<1>5. CASE Len(names) = 3
  <2> DEFINE slash == SlashOf[<<names[2], names[3]>>]
  <2>1. slash \in Names /\ names[1] \in Names
    BY <1>1, <1>5, TypedNames, ShellAssumption DEF Names
  <2>2. PathOf(names) = [dir |-> names[1], name |-> slash]
    BY <1>5 DEF PathOf
  <2> QED BY <1>2, <2>1, <2>2 DEF PathRecords
<1> QED BY <1>1, <1>3, <1>4, <1>5

LEMMA PathType ==
    ASSUME CwdOK, NEW arg \in Args \union RmArgs, Named(arg)
    PROVE  Path(arg) \in PathRecords
BY ResolvedType, PathOfType DEF Path, Named

-----------------------------------------------------------------------------
(* The shell's steps are steps of the filesystem *)

LEMMA ShellSteps ==
    ASSUME CwdOK, [ShellNext]_shellVars
    PROVE  [AnyStep]_vars /\ CwdOK'
<1>1. CASE UNCHANGED shellVars
  BY <1>1 DEF shellVars, fsVars, userVars, CwdOK
<1>2. \A m : Session(m) => CwdOK'
  BY EmptySeq, ShellAssumption DEF Session, CwdOK
<1>3. CwdOK /\ UNCHANGED cwd => CwdOK'
  BY DEF CwdOK
<1>4. \A args : Done(args) => CwdOK'
  BY <1>2 DEF Done
<1>5. ASSUME ShellMount \/ BootFormat \/ PowerCycle PROVE AnyStep /\ CwdOK'
  BY <1>2, <1>5 DEF ShellMount, BootFormat, PowerCycle, Formats, AnyStep
<1>6. ASSUME NEW hash \in Hashes, Login(hash) \/ Passwd(hash) PROVE UNCHANGED vars /\ CwdOK'
  BY <1>3, <1>6 DEF Login, Passwd, fsVars
<1>7. ASSUME NEW hash \in Hashes, NewPassword(hash) PROVE AnyStep /\ CwdOK'
  BY <1>2, <1>7 DEF NewPassword, AnyStep
<1>8. ASSUME Exit \/ Shutdown PROVE UNCHANGED vars /\ CwdOK'
  BY <1>3, <1>8 DEF Exit, Shutdown, fsVars
<1>9. ASSUME Mkfs \/ ShellRemoveStep PROVE AnyStep /\ CwdOK'
  BY <1>2, <1>9 DEF Mkfs, Formats, ShellRemoveStep, AnyStep
<1>10. ASSUME NEW arg \in Args, cd(arg) PROVE UNCHANGED vars /\ CwdOK'
  BY <1>10, ResolvedType DEF cd, fsVars, CwdOK
<1>11. ASSUME NEW arg \in Args \union RmArgs, NEW text \in Texts \union {Empty},
              ShellMkdir(arg) \/ ShellWrite(arg, text) \/ ShellRm(arg) \/ ShellRmR(arg)
       PROVE  AnyStep /\ CwdOK'
  <2>1. Path(arg) \in PathRecords
    BY <1>11, PathType DEF ShellMkdir, ShellWrite, ShellRm, ShellRmR, Types
  <2> QED BY <1>4, <1>11, <2>1 DEF ShellMkdir, ShellWrite, ShellRm, ShellRmR, AnyStep
<1>12. ASSUME NEW arg \in Args, NEW to \in Args, ShellCp(arg, to) \/ ShellMv(arg, to)
       PROVE  AnyStep /\ CwdOK'
  <2>1. Path(arg) \in PathRecords /\ Path(to) \in PathRecords
    BY <1>12, PathType DEF ShellCp, ShellMv, Types
  <2> QED BY <1>4, <1>12, <2>1 DEF ShellCp, ShellMv, AnyStep
<1>13. ASSUME NEW arg \in Args, ShellTouch(arg) PROVE AnyStep /\ CwdOK'
  BY <1>11, <1>13 DEF ShellTouch
<1>14. ASSUME ShellStep PROVE [AnyStep]_vars /\ CwdOK'
  BY <1>5, <1>6, <1>7, <1>8, <1>9, <1>10, <1>11, <1>12, <1>13, <1>14 DEF ShellStep
<1> QED BY <1>1, <1>14 DEF ShellNext, shellVars, fsVars

LEMMA ShellInvariant == ShellSpec => [](IInv /\ BInv /\ LInv /\ CwdOK)
<1>1. ShellInit => IInv /\ BInv /\ LInv /\ CwdOK
  <2>1. ShellInit => Init /\ CwdOK
    BY EmptySeq, ShellAssumption DEF ShellInit, CwdOK
  <2>2. Init => BInv /\ LInv
    BY DEF Init, BInv, Whole, Fresh, LInv, Live, BlankDisk
  <2> QED BY <2>1, <2>2, InitKept
<1>2. IInv /\ BInv /\ LInv /\ CwdOK /\ [ShellNext]_shellVars => (IInv /\ BInv /\ LInv /\ CwdOK)'
  <2>1. ASSUME IInv, BInv, LInv, CwdOK, [ShellNext]_shellVars
        PROVE  IInv' /\ BInv' /\ LInv' /\ CwdOK'
    <3>1. [AnyStep]_vars /\ CwdOK'
      BY <2>1, ShellSteps
    <3> QED BY <2>1, <3>1, NextKept, NextBlocks, NextLinks DEF Step
  <2> QED BY <2>1
<1> QED BY <1>1, <1>2, PTL DEF ShellSpec

-----------------------------------------------------------------------------
(* What info and ls print *)

LEMMA Counting ==
    /\ IsFiniteSet(Inodes) /\ IsFiniteSet(Blocks)
    /\ Cardinality(Blocks \ {0}) = BlockCount - 1
    /\ BlockCount \in Nat
<1>1. NumInodes \in Nat /\ BlockCount \in Nat /\ BlockCount >= 5
  BY LayoutAssumption
<1>2. 0 \in Int /\ 1 \in Int /\ NumInodes - 1 \in Int /\ BlockCount - 1 \in Int
  BY <1>1
<1>3. IsFiniteSet(Inodes) /\ IsFiniteSet(Blocks)
  BY <1>2, FS_Interval DEF Inodes, Blocks
<1>4. Blocks \ {0} = 1 .. BlockCount - 1
  BY <1>1 DEF Blocks
<1>5. Cardinality(1 .. BlockCount - 1) = BlockCount - 1
  <2> DEFINE hi == BlockCount - 1
  <2>1. 1 \in Int /\ hi \in Int /\ hi >= 1
    BY <1>1
  <2> HIDE DEF hi
  <2>2. Cardinality(1 .. hi) = IF 1 > hi THEN 0 ELSE hi - 1 + 1
    BY <2>1, FS_Interval
  <2>3. Cardinality(1 .. hi) = hi
    BY <2>1, <2>2
  <2> QED BY <2>3 DEF hi
<1> QED BY <1>1, <1>3, <1>4, <1>5

\* One block for each inode in use, and one inode for each block marked.
LEMMA AsManyBlocks ==
    ASSUME NEW st \in Tidy
    PROVE  LET used == {i \in Inodes : st.inodes[i].type # "none"}
           IN  Cardinality(st.bitmap \ {0}) = Cardinality(used)
<1> DEFINE used == {i \in Inodes : st.inodes[i].type # "none"}
           f == [i \in used |-> st.inodes[i].block]
<1>1. /\ \A i \in used : st.inodes[i].block \in st.bitmap \ {0}
      /\ \A i, j \in used : i # j => st.inodes[i].block # st.inodes[j].block
      /\ \A b \in st.bitmap : \E i \in used : st.inodes[i].block = b
  BY DEF Tidy, Accounts
<1>2. st.bitmap \ {0} = st.bitmap
  BY <1>1
<1> HIDE DEF used
<1>3. f \in [used -> st.bitmap] /\ \A i \in used : f[i] = st.inodes[i].block
  BY <1>1
<1> HIDE DEF f
<1>4. f \in Bijection(used, st.bitmap)
  <2>1. f \in Injection(used, st.bitmap)
    BY <1>1, <1>3 DEF Injection, IsInjective
  <2>2. f \in Surjection(used, st.bitmap)
    BY <1>1, <1>3 DEF Surjection
  <2> QED BY <2>1, <2>2 DEF Bijection
<1>5. ExistsBijection(used, st.bitmap)
  BY <1>4 DEF ExistsBijection
<1>6. IsFiniteSet(used)
  <2>1. used \in SUBSET Inodes
    BY DEF used
  <2> QED BY <2>1, Counting, FS_Subset
<1>7. Cardinality(st.bitmap) = Cardinality(used)
  BY <1>5, <1>6, FS_Bijection
<1> QED BY <1>2, <1>7 DEF used

\* alloc_block_raw finds a block while info says that more than one is free.
LEMMA RoomIsShown ==
    ASSUME NEW st \in Tidy
    PROVE  alloc_block_raw(st) # 0 <=> fs_get_usage(st).free > 1
<1> DEFINE marked == st.bitmap \ {0}
           all == Blocks \ {0}
           spare == Blocks \ ({0} \union st.bitmap)
           m == Cardinality(marked)
           n == Cardinality(all)
<1>1. marked \in SUBSET all /\ (marked = all <=> spare = {})
  BY DEF Tidy, FsStates
<1>2. /\ IsFiniteSet(all) /\ n = BlockCount - 1 /\ BlockCount \in Nat
  BY Counting, FS_RemoveElement
<1>3. m <= n /\ (n = m => all = marked) /\ m \in Nat /\ n \in Nat
  BY <1>1, <1>2, FS_Subset, FS_CardinalityType
<1>4. fs_get_usage(st).free = BlockCount - m
  BY DEF fs_get_usage
<1>5. alloc_block_raw(st) # 0 <=> spare # {}
  <2>1. spare \in SUBSET Nat /\ 0 \notin spare
    BY Numbers
  <2>2. alloc_block_raw(st) = FirstOf(spare)
    BY DEF alloc_block_raw
  <2> HIDE DEF spare
  <2>3. spare # {} => FirstOf(spare) \in spare
    BY <2>1, MinOf DEF FirstOf
  <2>4. spare = {} => FirstOf(spare) = 0
    BY DEF FirstOf
  <2> QED BY <2>1, <2>2, <2>3, <2>4
<1> HIDE DEF marked, all, spare, m, n
<1>6. marked = all => m = n
  BY DEF m, n
<1>7. spare = {} <=> m = n
  BY <1>1, <1>3, <1>6
<1>8. m = n <=> ~(BlockCount - m > 1)
  BY <1>2, <1>3
<1> QED BY <1>4, <1>5, <1>7, <1>8

\* The files and directories a directory's entries name are the names in it.
LEMMA ListedIsFound ==
    ASSUME NEW st \in Tidy, st.sb, NEW R, Linked(Kinds(st), View(st), R),
           NEW path, path.name \in Names, DirOf(st, path) \in R
    PROVE  /\ fs_is_dir(st, path) \/ FileAt(st, path) # 0
                <=> path.name \in NamesIn(load_dir_block(st, DirOf(st, path)))
           /\ NamesIn(load_dir_block(st, DirOf(st, path))) \subseteq Names
<1> DEFINE d == DirOf(st, path)
           t == load_dir_block(st, d)
           n == path.name
           asDir == find_dir_entry(t, st.inodes, n, "dir")
           asFile == find_dir_entry(t, st.inodes, n, "file")
           K == Kinds(st)
<1>1. st \in FsStates /\ R \in SUBSET Inodes /\ d \in R /\ d \in Inodes
  BY PathsLead DEF Tidy
<1>2. Usable(st, d)
  <2>1. st.inodes[d].type # "none"
    BY <1>1, PathsLead
  <2> QED BY <1>1, <2>1, OwnBlock DEF Usable
<1>3. n # NoName /\ n \in Names
  BY LayoutAssumption
<1>4. /\ fs_is_dir(st, path) <=> asDir # 0
      /\ FileAt(st, path) = IF asFile # 0 THEN t[asFile].inode ELSE 0
  BY <1>2, <1>3 DEF fs_is_dir, FileAt
<1>5. t = View(st)[d] /\ t \in Tables
  BY <1>1, ViewTypes
<1> HIDE DEF d, t, n
<1>6. \/ asDir # 0 /\ Found(st, t, n, "dir", asDir)
      \/ asDir = 0 /\ Missing(st, t, n, "dir")
  BY <1>1, <1>5, Searches
<1>7. \/ asFile # 0 /\ Found(st, t, n, "file", asFile)
      \/ asFile = 0 /\ Missing(st, t, n, "file")
  BY <1>1, <1>5, Searches
<1>8. ASSUME NEW s \in Slots, t[s].name # NoName
      PROVE  t[s].name \in Names /\ t[s].inode # 0 /\ K[t[s].inode] \in {"file", "dir"}
  <2>1. t[s].inode \in Inodes /\ K \in [Inodes -> Kind]
    BY <1>1, <1>5, ViewTypes DEF Tables, Entries
  <2> HIDE DEF K
  <2>2. Refers(K, View(st), R)
    BY DEF Linked, K
  <2>3. t[s].name \in Names /\ t[s].inode # 0 /\ K[t[s].inode] # "none"
    BY <1>1, <1>5, <1>8, <2>2 DEF Refers, InUse
  <2> QED BY <2>1, <2>3 DEF Kind
<1> HIDE DEF asDir, asFile, K
<1>9. n \in NamesIn(t) <=> \E s \in Slots : t[s].name = n
  BY <1>3 DEF NamesIn
<1>10. asDir # 0 \/ asFile # 0 <=> \E s \in Slots : t[s].name = n
  <2>1. ASSUME NEW s \in Slots, t[s].name = n PROVE asDir # 0 \/ asFile # 0
    <3>1. K[t[s].inode] \in {"file", "dir"}
      BY <1>3, <1>8, <2>1
    <3> QED BY <1>3, <1>6, <1>7, <2>1, <3>1 DEF Missing, K
  <2> QED BY <1>6, <1>7, <2>1 DEF Found
<1>11. asFile # 0 => t[asFile].inode # 0
  BY <1>7, <1>8 DEF Found
<1>12. NamesIn(t) \subseteq Names
  BY <1>8 DEF NamesIn
<1> QED BY <1>4, <1>9, <1>10, <1>11, <1>12 DEF d, t, n

\* A name of the current directory, as a path.
Here(n) == [dir |-> IF cwd = <<>> THEN NoName ELSE cwd[1], name |-> n]

LEMMA PathsHere ==
    ASSUME CwdOK, Len(cwd) < 2
    PROVE  /\ \A n : PathOf(Resolved([up |-> 0, names |-> <<n>>])) = Here(n)
           /\ cwd # <<>> => /\ \A x, y : PathOf(cwd \o <<x, y>>) = Here(SlashOf[<<x, y>>])
                            /\ PathOf(cwd) = [dir |-> NoName, name |-> cwd[1]]
                            /\ Len(cwd) = 1 /\ cwd[1] \in Names /\ cwd[1] # NoName
<1>1. cwd \in Seq(Names)
  BY ElementOfSeq, TypedNames DEF CwdOK
<1>2. \/ Len(cwd) = 0 /\ cwd = <<>>
      \/ Len(cwd) = 1 /\ cwd # <<>> /\ cwd[1] \in Names
  <2> DEFINE len == Len(cwd)
  <2>1. len \in Nat /\ len < 2 /\ (len = 0 => cwd = <<>>) /\ (cwd = <<>> => len = 0)
    BY <1>1, EmptySeq
  <2>2. len = 1 => cwd[1] \in Names
    BY <1>1, ElementOfSeq
  <2> HIDE DEF len
  <2>3. len = 0 \/ len = 1
    BY <2>1
  <2>4. len = 1 => cwd # <<>>
    BY <2>1
  <2> HIDE DEF len
  <2> QED BY <2>1, <2>2, <2>3, <2>4 DEF len
<1>3. ASSUME NEW n PROVE PathOf(Resolved([up |-> 0, names |-> <<n>>])) = Here(n)
  <2> DEFINE arg == [up |-> 0, names |-> <<n>>]
             all == Resolved(arg)
  <2>1. all = Without(cwd, 0) \o <<n>>
    BY DEF Resolved
  <2>2. Without(cwd, 0) = cwd
    <3>1. Without(cwd, 0) = SubSeq(cwd, 1, Len(cwd))
      BY <1>2 DEF Without
    <3> QED BY <1>1, <3>1
  <2>3. CASE cwd = <<>>
    <3>1. Len(all) = 1 /\ all[1] = n
      BY <2>1, <2>2, <2>3
    <3> HIDE DEF all
    <3> QED BY <2>3, <3>1 DEF PathOf, Here, all
  <2>4. CASE cwd # <<>>
    <3>0. Len(cwd) = 1 /\ all = cwd \o <<n>>
      BY <1>2, <2>1, <2>2, <2>4
    <3>1. /\ Len(cwd \o <<n>>) = 2
          /\ (cwd \o <<n>>)[1] = cwd[1] /\ (cwd \o <<n>>)[2] = n
      BY <1>1, <1>2, <2>4
    <3> HIDE DEF all
    <3>2. Len(all) = 2 /\ all[1] = cwd[1] /\ all[2] = n
      BY <3>0, <3>1
    <3> QED BY <2>4, <3>2 DEF PathOf, Here, all
  <2> QED BY <2>3, <2>4
<1>4. ASSUME cwd # <<>>, NEW x, NEW y PROVE PathOf(cwd \o <<x, y>>) = Here(SlashOf[<<x, y>>])
  <2> DEFINE all == cwd \o <<x, y>>
  <2>1. Len(all) = 3 /\ all[1] = cwd[1] /\ all[2] = x /\ all[3] = y
    BY <1>1, <1>2, <1>4
  <2> HIDE DEF all
  <2>2. PathOf(all) = [dir |-> all[1], name |-> SlashOf[<<all[2], all[3]>>]]
    BY <2>1 DEF PathOf
  <2> QED BY <1>4, <2>1, <2>2 DEF Here, all
<1>5. cwd # <<>> => PathOf(cwd) = [dir |-> NoName, name |-> cwd[1]]
  BY <1>2 DEF PathOf
<1> QED BY <1>2, <1>3, <1>4, <1>5, LayoutAssumption

LEMMA ListingIsRight ==
    ASSUME IInv, BInv, LInv, CwdOK
    PROVE  ListsWhatCanBeNamed
<1> DEFINE found(names) == fs_is_dir(fs, PathOf(names)) \/ FileAt(fs, PathOf(names)) # 0
           here == cwd = <<>> \/ fs_is_dir(fs, PathOf(cwd))
           goal == /\ Listed # {}
                   /\ \A shown \in Listed :
                        /\ shown \subseteq Names
                        /\ \A n \in Names \ SlashNames :
                             n \in shown <=> found(Resolved([up |-> 0, names |-> <<n>>]))
                        /\ cwd # <<>> =>
                             \A x, y \in Typed :
                                SlashOf[<<x, y>>] \in shown <=> found(cwd \o <<x, y>>)
<1> SUFFICES ASSUME Sound, phase = "ready", mounted, ~Running, here, Len(cwd) < 2
             PROVE  goal
  BY DEF ListsWhatCanBeNamed
<1>1. fs \in Tidy /\ fs.sb /\ \E R : Linked(Kinds(fs), View(fs), R)
  <2>1. fs \in Orderly
    BY LiveOrderly DEF Sound, Live, Running
  <2> QED BY <2>1 DEF Orderly
<1>2. PICK R : Linked(Kinds(fs), View(fs), R)
  BY <1>1
<1>3. 0 \in R
  BY <1>1, <1>2, PathsLead
<1>4. ASSUME NEW d \in R, \A n : DirOf(fs, Here(n)) = d,
             Listed = {NamesIn(load_dir_block(fs, d))}
      PROVE  goal
  <2> DEFINE at(n) == fs_is_dir(fs, Here(n)) \/ FileAt(fs, Here(n)) # 0
             names == NamesIn(load_dir_block(fs, d))
  <2>1. ASSUME NEW n \in Names
        PROVE  (n \in names <=> at(n)) /\ names \subseteq Names
    <3> DEFINE path == Here(n)
    <3>1. path.name = n /\ DirOf(fs, path) = d /\ d \in R
      BY <1>4 DEF Here
    <3> HIDE DEF path
    <3>2. /\ fs_is_dir(fs, path) \/ FileAt(fs, path) # 0
                <=> n \in NamesIn(load_dir_block(fs, d))
          /\ NamesIn(load_dir_block(fs, d)) \subseteq Names
      BY <1>1, <1>2, <3>1, ListedIsFound
    <3> QED BY <3>2 DEF path
  <2>2. names \subseteq Names
    <3>1. "sys" \in Names
      BY DEF Names
    <3> QED BY <2>1, <3>1
  <2>3. ASSUME NEW n PROVE found(Resolved([up |-> 0, names |-> <<n>>])) <=> at(n)
    BY PathsHere
  <2>4. ASSUME cwd # <<>>, NEW x \in Typed, NEW y \in Typed
        PROVE  /\ found(cwd \o <<x, y>>) <=> at(SlashOf[<<x, y>>])
               /\ SlashOf[<<x, y>>] \in Names
    <3>1. PathOf(cwd \o <<x, y>>) = Here(SlashOf[<<x, y>>])
      BY <2>4, PathsHere
    <3>2. SlashOf[<<x, y>>] \in Names
      BY ShellAssumption, LayoutAssumption DEF Names
    <3> QED BY <3>1, <3>2
  <2> HIDE DEF found, at, names
  <2>5. \A n \in Names \ SlashNames :
            n \in names <=> found(Resolved([up |-> 0, names |-> <<n>>]))
    BY <2>1, <2>3
  <2>6. cwd # <<>> =>
            \A x, y \in Typed : SlashOf[<<x, y>>] \in names <=> found(cwd \o <<x, y>>)
    BY <2>1, <2>4
  <2> QED BY <1>4, <2>2, <2>5, <2>6 DEF names
<1>5. CASE cwd = <<>>
  <2>1. \A n : DirOf(fs, Here(n)) = 0
    BY <1>5 DEF Here, DirOf, InRoot
  <2>2. Listed = {NamesIn(load_dir_block(fs, 0))}
    <3>1. Len(cwd) = 0
      BY <1>5
    <3> QED BY <3>1 DEF Listed, fs_list_root
  <2> HIDE DEF goal
  <2> QED BY <1>3, <1>4, <2>1, <2>2
<1>6. CASE cwd # <<>>
  <2> DEFINE sub == SubDir(fs, cwd[1])
             t == load_dir_block(fs, 0)
             f == find_dir_entry(t, fs.inodes, cwd[1], "dir")
  <2>1. /\ PathOf(cwd) = [dir |-> NoName, name |-> cwd[1]]
        /\ cwd[1] \in Names /\ cwd[1] # NoName /\ Len(cwd) = 1
    BY <1>6, PathsHere
  <2>2. f # 0
    BY <1>6, <2>1 DEF fs_is_dir, DirOf, InRoot
  <2>3. sub \in R
    <3>1. sub \in R \union {NoDir}
      BY <1>1, <1>2, PathsLead
    <3>2. sub = t[f].inode
      BY <2>2 DEF SubDir
    <3>3. fs \in FsStates /\ t \in Tables
      BY <1>1, TableTypes, Numbers DEF Tidy
    <3>4. f \in Slots
      BY <2>2, <3>3, Lookups
    <3>5. sub \in Inodes
      BY <3>2, <3>3, <3>4, TableTypes
    <3> QED BY <3>1, <3>5, Numbers DEF NoDir
  <2>4. \A n : DirOf(fs, Here(n)) = sub
    BY <1>6, <2>1 DEF Here, DirOf, InRoot
  <2>5. Listed = {NamesIn(load_dir_block(fs, sub))}
    <3>1. Usable(fs, sub)
      <4>1. sub \in Inodes /\ fs.inodes[sub].type # "none"
        BY <1>1, <1>2, <2>3, PathsLead
      <4> QED BY <1>1, <4>1, OwnBlock DEF Usable
    <3> QED BY <2>1, <3>1 DEF Listed, fs_list_dir
  <2> HIDE DEF goal, sub
  <2> QED BY <1>4, <2>3, <2>4, <2>5
<1> QED BY <1>5, <1>6

LEMMA InfoIsRight ==
    ASSUME IInv, BInv, LInv
    PROVE  InfoIsExact
<1> SUFFICES ASSUME Sound, phase = "ready"
             PROVE  /\ fs_get_usage(fs).used = Cardinality(Used)
                    /\ alloc_block_raw(fs) # 0 <=> fs_get_usage(fs).free > 1
  BY DEF InfoIsExact
<1>1. fs \in Tidy
  BY DEF BInv, Whole, Sound, Live
<1>2. Used = {i \in Inodes : fs.inodes[i].type # "none"}
  BY DEF Used, Inode, Live
<1>3. fs_get_usage(fs).used = Cardinality(fs.bitmap \ {0})
  BY DEF fs_get_usage
<1> QED BY <1>1, <1>2, <1>3, AsManyBlocks, RoomIsShown

\* What the shell prints is what is there: info's used space is that of the
\* files and directories there are, a block can be had exactly while it says
\* that more than one is free, and ls shows exactly the names that cd enters
\* or read opens (fs_get_usage, fs_list_root, fs_list_dir, fs_is_dir and
\* fs_read_path, over any commands, reboots and faults that did no damage).
THEOREM InfoAndLsAreRight == ShellSpec => []ShowsWhatIs
<1>1. IInv /\ BInv /\ LInv /\ CwdOK => ShowsWhatIs
  BY InfoIsRight, ListingIsRight DEF ShowsWhatIs
<1> QED BY <1>1, ShellInvariant, PTL

-----------------------------------------------------------------------------
(* The loop of passwd                                                      *)
(*                                                                         *)
(* What makes fs_write_passwd refuse is not the password: there is no      *)
(* inode, no block or no slot for the directory sys or for the file, and   *)
(* the attempt itself, which may claim an inode and a block before it      *)
(* finds no slot, makes no room.                                           *)

Full(st, t) == alloc_inode_raw(st) = 0 \/ alloc_block_raw(st) = 0 \/ free_slot(t) = 0

NoRoom(st) ==
    LET d == SubDir(st, "sys")
        t == load_dir_block(st, IF d = NoDir THEN 0 ELSE d)
    IN  Full(st, t) /\ (d # NoDir => find_dir_entry(t, st.inodes, "passwd", "file") = 0)

LEMMA SameSearch ==
    ASSUME NEW t, NEW inodes, NEW inodes2, NEW name, NEW type,
           \A s \in Slots : t[s].name # NoName
              => inodes2[t[s].inode].type = inodes[t[s].inode].type
    PROVE  find_dir_entry(t, inodes2, name, type) = find_dir_entry(t, inodes, name, type)
<1> DEFINE Hits(tab) == {s \in Slots : /\ t[s].name # NoName
                                       /\ t[s].name = name
                                       /\ tab[t[s].inode].type = type}
<1>1. Hits(inodes2) = Hits(inodes)
  OBVIOUS
<1>2. \A tab : find_dir_entry(t, tab, name, type) = FirstOf(Hits(tab))
  BY DEF find_dir_entry
<1> HIDE DEF Hits
<1> QED BY <1>1, <1>2

\* An inode that has just been claimed is the target of no entry.
LEMMA ClaimSearches ==
    ASSUME NEW st \in Tidy, st.sb, NEW R, Linked(Kinds(st), View(st), R),
           NEW type \in {"file", "dir"}, NEW size \in Nat,
           NEW i, i = alloc_inode_raw(st), NEW b, b = alloc_block_raw(st), i # 0, b # 0,
           NEW s, s = Claim(st, i, b, type, size)
    PROVE  /\ \A d \in R : load_dir_block(s, d) = load_dir_block(st, d)
           /\ \A d \in R : \A name, kind :
                find_dir_entry(load_dir_block(st, d), s.inodes, name, kind)
                  = find_dir_entry(load_dir_block(st, d), st.inodes, name, kind)
           /\ \A name : SubDir(s, name) = SubDir(st, name)
<1>1. st \in FsStates /\ R \in SUBSET Inodes /\ 0 \in R
  BY DEF Tidy, Linked
<1>2. /\ s \in Tidy /\ s.sb /\ i \in Inodes /\ Kinds(st)[i] = "none"
      /\ Kinds(s) = [Kinds(st) EXCEPT ![i] = type]
      /\ \A e \in Inodes : Kinds(st)[e] # "none" => View(s)[e] = View(st)[e]
  BY ClaimView
<1>3. \A d \in R : View(s)[d] = View(st)[d]
  BY <1>1, <1>2 DEF Linked
<1>4. \A d \in R : load_dir_block(st, d) = View(st)[d] /\ load_dir_block(s, d) = View(s)[d]
  BY <1>1, <1>2, ViewTypes DEF Tidy
<1>5. ASSUME NEW d \in R, NEW name, NEW kind
      PROVE  find_dir_entry(load_dir_block(st, d), s.inodes, name, kind)
               = find_dir_entry(load_dir_block(st, d), st.inodes, name, kind)
  <2> DEFINE t == load_dir_block(st, d)
             K == Kinds(st)
             T == View(st)
  <2>1. t = T[d] /\ t \in Tables
    BY <1>1, <1>4, ViewTypes
  <2>2. K \in [Inodes -> Kind] /\ T \in Views
    BY <1>1, ViewTypes
  <2>3. Linked(K, T, R) /\ K[i] = "none"
    BY <1>2
  <2>4. \A j \in Inodes : /\ K[j] = st.inodes[j].type
                          /\ s.inodes[j].type = IF j = i THEN type ELSE K[j]
    BY <1>1, <1>2, <2>2, ViewTypes DEF Tidy
  <2> HIDE DEF t, K, T
  <2>5. \A e \in R, r \in Slots : InUse(T, e, r) => T[e][r].inode # i
    <3>1. type \in Kind
      BY DEF Kind
    <3> QED BY <1>2, <2>2, <2>3, <3>1, ClaimLinked
  <2>6. \A r \in Slots : t[r].inode \in Inodes /\ (t[r].name # NoName => t[r].inode # i)
    BY <2>1, <2>5 DEF Tables, Entries, InUse
  <2>7. \A r \in Slots : t[r].name # NoName => s.inodes[t[r].inode].type = st.inodes[t[r].inode].type
    BY <2>4, <2>6
  <2> DEFINE tab == s.inodes
             tab0 == st.inodes
  <2>8. \A r \in Slots : t[r].name # NoName => tab[t[r].inode].type = tab0[t[r].inode].type
    BY <2>7
  <2> HIDE DEF tab, tab0
  <2>9. find_dir_entry(t, tab, name, kind) = find_dir_entry(t, tab0, name, kind)
    BY <2>8, SameSearch
  <2> QED BY <2>9 DEF t, tab, tab0
<1>6. \A name : SubDir(s, name) = SubDir(st, name)
  <2>1. load_dir_block(s, 0) = load_dir_block(st, 0)
    BY <1>1, <1>3, <1>4
  <2>2. \A name : find_dir_entry(load_dir_block(st, 0), s.inodes, name, "dir")
                    = find_dir_entry(load_dir_block(st, 0), st.inodes, name, "dir")
    BY <1>1, <1>5
  <2> QED BY <2>1, <2>2 DEF SubDir
<1> QED BY <1>3, <1>4, <1>5, <1>6

\* The directory sys, when it is there: write_sys_file begins by writing the
\* root back as it was.
LEMMA SysThere ==
    ASSUME NEW st \in Tidy, st.sb, NEW R, Linked(Kinds(st), View(st), R),
           NEW f, f = find_dir_entry(load_dir_block(st, 0), st.inodes, "sys", "dir")
    PROVE  /\ f = 0 <=> SubDir(st, "sys") = NoDir
           /\ f # 0 => /\ SubDir(st, "sys") \in R
                       /\ SysDir(st).dir = SubDir(st, "sys")
                       /\ SysDir(st).final = st
<1> DEFINE t == load_dir_block(st, 0)
           d == SubDir(st, "sys")
           same == write_dir_block(st, 0, t)
<1>1. st \in FsStates /\ t \in Tables
  BY TableTypes, Numbers DEF Tidy
<1>2. d = IF f = 0 THEN NoDir ELSE t[f].inode
  BY DEF SubDir
<1>3. d \in R \union {NoDir}
  BY PathsLead
<1>4. ASSUME f # 0 PROVE d \in Inodes
  <2>1. f \in Slots
    BY <1>1, <1>4, Lookups
  <2> QED BY <1>1, <1>2, <1>4, <2>1, TableTypes
<1>5. NoDir \notin Inodes
  BY Numbers DEF NoDir
<1>6. ASSUME f # 0 PROVE SysDir(st).dir = t[f].inode /\ SysDir(st).final = same
  BY <1>6 DEF SysDir
<1>7. same = st
  <2> DEFINE b == st.inodes[0].block
  <2>1. b \in Blocks
    BY <1>1, TableTypes, Numbers
  <2>2. st.blocks[b].table = t
    BY DEF load_dir_block
  <2>3. same = disk_write_lba(st, b, st.blocks[b])
    BY <2>2 DEF write_dir_block
  <2> HIDE DEF b
  <2>4. disk_write_lba(st, b, st.blocks[b]) = st
    BY <1>1, <2>1 DEF disk_write_lba, FsStates
  <2> QED BY <2>3, <2>4
<1> HIDE DEF t, d, same
<1> QED BY <1>2, <1>3, <1>4, <1>5, <1>6, <1>7 DEF d

\* How write_sys_file ends, as its second half has it: with what SysDir has
\* left, with an inode and a block claimed for nothing, or with success.
Ends(s1, d, t, f, i, b, size, r) ==
    \/ /\ d = NoDir \/ (f = 0 /\ (i = 0 \/ b = 0))
       /\ r.ok = FALSE /\ r.final = s1
    \/ /\ d # NoDir /\ f = 0 /\ i # 0 /\ b # 0 /\ free_slot(t) = 0
       /\ r.ok = FALSE /\ r.final = Claim(s1, i, b, "file", size)
    \/ /\ d # NoDir /\ (f # 0 \/ (i # 0 /\ b # 0 /\ free_slot(t) # 0))
       /\ r.ok = TRUE

LEMMA SysFileEnds ==
    ASSUME NEW sys, NEW name, NEW text,
           NEW s1, s1 = sys.final, NEW d, d = sys.dir, NEW t, t = load_dir_block(s1, d),
           NEW f, f = find_dir_entry(t, s1.inodes, name, "file"),
           NEW i, i = alloc_inode_raw(s1), NEW b, b = alloc_block_raw(s1),
           NEW r, r = SysFileIn(sys, name, text)
    PROVE  Ends(s1, d, t, f, i, b, LengthOf[text], r)
<1> DEFINE none == d = NoDir \/ (f = 0 /\ (i = 0 \/ b = 0))
           full == f = 0 /\ free_slot(t) = 0
<1>1. CASE none
  <2>1. r = Outcome(FALSE, s1, sys.cuts)
    BY <1>1 DEF SysFileIn
  <2> QED BY <1>1, <2>1 DEF Outcome, Ends
<1>2. CASE ~none /\ full
  <2> DEFINE s2 == Claim(s1, i, b, "file", LengthOf[text])
  <2>1. r = Outcome(FALSE, s2, sys.cuts \union {s2})
    BY <1>2 DEF SysFileIn
  <2> HIDE DEF s2
  <2>2. r.ok = FALSE /\ r.final = s2
    BY <2>1 DEF Outcome
  <2> QED BY <1>2, <2>2 DEF s2, Ends
<1>3. CASE ~none /\ ~full
  <2>1. \E s, cuts : r = FlushAndReturn(s, cuts)
    BY <1>3 DEF SysFileIn
  <2>2. r.ok = TRUE
    BY <2>1 DEF FlushAndReturn, Outcome
  <2> QED BY <1>3, <2>2 DEF Ends
<1> QED BY <1>1, <1>2, <1>3

LEMMA PasswdEnds ==
    ASSUME NEW st \in Orderly, NEW hash \in Hashes, NEW sys, sys = SysDir(st),
           NEW s1, s1 = sys.final, NEW d, d = sys.dir, NEW t, t = load_dir_block(s1, d),
           NEW f, f = find_dir_entry(t, s1.inodes, "passwd", "file"),
           NEW i, i = alloc_inode_raw(s1), NEW b, b = alloc_block_raw(s1),
           NEW r, r = fs_write_passwd(st, hash)
    PROVE  Ends(s1, d, t, f, i, b, 4, r)
<1> DEFINE name == "passwd"
<1>1. r = SysFileIn(sys, name, hash) /\ f = find_dir_entry(t, s1.inodes, name, "file")
  BY SysFileLinked DEF fs_write_passwd
<1> HIDE DEF name
<1>2. Ends(s1, d, t, f, i, b, LengthOf[hash], r)
  BY <1>1, SysFileEnds
<1> QED BY <1>2, LayoutAssumption

LEMMA NoRoomRefuses ==
    ASSUME NEW st \in Orderly, NoRoom(st), NEW hash \in Hashes
    PROVE  fs_write_passwd(st, hash).ok = FALSE
<1> DEFINE sys == SysDir(st)
           s1 == sys.final
           d == sys.dir
           t == load_dir_block(s1, d)
           f == find_dir_entry(t, s1.inodes, "passwd", "file")
           i == alloc_inode_raw(s1)
           b == alloc_block_raw(s1)
           r == fs_write_passwd(st, hash)
           g == find_dir_entry(load_dir_block(st, 0), st.inodes, "sys", "dir")
<1>1. Ends(s1, d, t, f, i, b, 4, r)
  BY PasswdEnds
<1>2. /\ g = 0 <=> SubDir(st, "sys") = NoDir
      /\ g # 0 => d = SubDir(st, "sys") /\ s1 = st
  BY SysThere DEF Orderly
<1>3. g = 0 => d = NoDir
  <2>1. g = 0 => Full(st, load_dir_block(st, 0))
    BY <1>2 DEF NoRoom
  <2> QED BY <2>1 DEF SysDir, Full
<1>4. g # 0 => Full(s1, t) /\ f = 0
  BY <1>2 DEF NoRoom
<1> HIDE DEF sys, s1, d, t, f, g, r
<1>5. r.ok = FALSE
  BY <1>1, <1>3, <1>4 DEF Ends, Full
<1> QED BY <1>5 DEF r

\* The directory sys, when it has just been made, is empty and can be found.
LEMMA SysMade ==
    ASSUME NEW st \in Tidy, st.sb, NEW R, Linked(Kinds(st), View(st), R),
           NEW t, t = load_dir_block(st, 0),
           find_dir_entry(t, st.inodes, "sys", "dir") = 0, ~Full(st, t),
           NEW s, s = SysDir(st).final, NEW i, i = SysDir(st).dir
    PROVE  /\ i \in Inodes
           /\ SubDir(s, "sys") = i
           /\ load_dir_block(s, i) = EmptyTable
<1> DEFINE b == alloc_block_raw(st)
           s1 == Claim(st, i, b, "dir", 0)
           s2 == disk_write_lba(s1, b, ZeroBlock)
           name == "sys"
           k == free_slot(t)
           t2 == WithEntry(t, name, i)
           K == Kinds(st)
<1>1. /\ i = alloc_inode_raw(st) /\ i # 0 /\ b # 0 /\ k # 0
      /\ s = write_dir_block(s2, 0, t2)
  BY DEF SysDir, Full
<1>2. st \in FsStates /\ 0 \in R /\ R \in SUBSET Inodes /\ 0 \in Inodes
  BY Numbers DEF Tidy, Linked
<1>3. t = View(st)[0] /\ t \in Tables /\ K \in [Inodes -> Kind]
  BY <1>2, ViewTypes
<1>4. name \in Names /\ name # NoName
  BY LayoutAssumption DEF Names
<1>5. Missing(st, t, name, "dir")
  BY <1>2, <1>3, Searches
<1>6. Claimed(st, s2, R, R \union {i}, i, "dir")
  BY <1>1, NewDir
<1>7. View(s2)[i] = EmptyTable
  <2>1. s1 \in Tidy /\ s1.sb /\ i \in Inodes /\ b \in Blocks /\ s1.inodes[i].block = b
    BY <1>1, Numbers, ClaimView
  <2>2. ZeroBlock \in BlockRecords /\ ZeroBlock.table = EmptyTable
    BY BlockTypes, DecodedAssumption DEF ZeroBlock, TextBlock
  <2> DEFINE X == Inodes
  <2>3. \A e \in Inodes : s1.inodes[e].block = b /\ b # 0 => e \in X
    OBVIOUS
  <2> DEFINE blk == ZeroBlock
  <2>30. s2 = disk_write_lba(s1, b, blk) /\ blk \in BlockRecords
    BY <2>2
  <2> HIDE DEF s1, s2, b, X, blk
  <2>4. \A e \in Inodes : s1.inodes[e].block = b => View(s2)[e] = blk.table
    BY <2>1, <2>3, <2>30, WriteView
  <2> QED BY <2>1, <2>2, <2>4 DEF blk
<1>8. /\ s2 \in Tidy /\ s2.sb /\ i \in Inodes /\ Kinds(s2) = [K EXCEPT ![i] = "dir"]
      /\ View(s2)[0] = t
      /\ \A r \in Slots : t[r].name # NoName => t[r].inode # i
  BY <1>2, <1>3, <1>6 DEF Claimed, InUse
<1>9. s2.inodes[0].type # "none"
  <2>1. K[0] = "dir"
    BY <1>2 DEF Linked
  <2>2. Kinds(s2)[0] = "dir"
    BY <1>1, <1>2, <1>3, <1>8, <2>1
  <2> QED BY <1>2, <1>8, <2>2, ViewTypes DEF Tidy
<1> HIDE DEF s1, s2, b, k, name
<1>10. t2 \in Tables
  BY <1>3, <1>4, <1>8, EntryTypes
<1>11. /\ k \in Slots /\ t[k].name = NoName
       /\ t2[k] = [name |-> name, inode |-> i] /\ \A r \in Slots \ {k} : t2[r] = t[r]
  <2>1. k \in Slots /\ t[k].name = NoName
    BY <1>1, <1>3, FreeSlot DEF k
  <2> QED BY <1>3, <2>1 DEF WithEntry, k, Tables
<1> HIDE DEF t2
<1>12. Alike(s2, s, {0}) /\ s.inodes = s2.inodes /\ View(s)[0] = t2
  BY <1>1, <1>2, <1>8, <1>9, <1>10, WriteDirView
<1>13. s \in Tidy /\ s.sb /\ s \in FsStates /\ Kinds(s) = Kinds(s2)
  BY <1>12 DEF Alike, Tidy
<1>14. View(s)[i] = EmptyTable
  <2>1. Kinds(s2)[i] = "dir"
    BY <1>3, <1>8
  <2>2. s2.inodes[i].type # "none"
    BY <1>8, <2>1, ViewTypes DEF Tidy
  <2> QED BY <1>1, <1>7, <1>8, <1>12, <2>2 DEF Alike
<1>15. load_dir_block(s, i) = EmptyTable /\ load_dir_block(s, 0) = t2
  BY <1>2, <1>8, <1>12, <1>13, <1>14, ViewTypes
<1> DEFINE f == find_dir_entry(t2, s.inodes, name, "dir")
<1>16. \/ f # 0 /\ Found(s, t2, name, "dir", f)
       \/ f = 0 /\ Missing(s, t2, name, "dir")
  BY <1>10, <1>13, Searches
<1> HIDE DEF f
<1>17. Kinds(s)[i] = "dir" /\ \A j \in Inodes : j # i => Kinds(s)[j] = K[j]
  BY <1>3, <1>8, <1>13
<1>18. f # 0 /\ t2[f].inode = i
  <2>1. ~Missing(s, t2, name, "dir")
    BY <1>4, <1>11, <1>17 DEF Missing
  <2>2. f # 0 /\ Found(s, t2, name, "dir", f)
    BY <1>16, <2>1
  <2>3. ASSUME f # k PROVE FALSE
    <3>1. t2[f] = t[f] /\ f \in Slots /\ t[f].name = name /\ t[f].inode \in Inodes
          /\ Kinds(s)[t[f].inode] = "dir"
      BY <1>11, <2>2, <2>3 DEF Found
    <3>2. K[t[f].inode] = "dir"
      BY <1>4, <1>8, <1>17, <3>1
    <3> QED BY <1>4, <1>5, <3>1, <3>2 DEF Missing, K
  <2> QED BY <1>11, <2>2, <2>3
<1>19. SubDir(s, name) = IF f = 0 THEN NoDir ELSE t2[f].inode
  BY <1>15 DEF SubDir, f
<1> QED BY <1>8, <1>15, <1>18, <1>19 DEF name

LEMMA RefusedFull ==
    ASSUME NEW st \in Orderly, NEW hash \in Hashes, fs_write_passwd(st, hash).ok = FALSE
    PROVE  NoRoom(fs_write_passwd(st, hash).final)
<1> DEFINE sys == SysDir(st)
           s1 == sys.final
           d == sys.dir
           t == load_dir_block(s1, d)
           f == find_dir_entry(t, s1.inodes, "passwd", "file")
           i == alloc_inode_raw(s1)
           b == alloc_block_raw(s1)
           r == fs_write_passwd(st, hash)
           root == load_dir_block(st, 0)
           g == find_dir_entry(root, st.inodes, "sys", "dir")
<1> PICK R : Linked(Kinds(st), View(st), R)
  BY DEF Orderly
<1>0. st \in Tidy /\ st.sb /\ 0 \in R /\ R \in SUBSET Inodes /\ NoDir \notin Inodes
  BY Numbers DEF Orderly, Linked, NoDir
<1>1. Ends(s1, d, t, f, i, b, 4, r)
  BY PasswdEnds
<1>2. /\ g = 0 <=> SubDir(st, "sys") = NoDir
      /\ g # 0 => SubDir(st, "sys") \in R /\ d = SubDir(st, "sys") /\ s1 = st
  BY <1>0, SysThere
<1>3. r.ok = FALSE
  OBVIOUS
<1>4. CASE g # 0 /\ (i = 0 \/ b = 0)
  <2>1. f = 0 /\ r.final = st
    BY <1>0, <1>1, <1>2, <1>3, <1>4 DEF Ends
  <2>2. SubDir(st, "sys") = d /\ d # NoDir /\ t = load_dir_block(st, d) /\ s1 = st
    BY <1>0, <1>2, <1>4
  <2>3. Full(st, t)
    BY <1>4, <2>2 DEF Full
  <2>4. NoRoom(st)
    BY <2>1, <2>2, <2>3 DEF NoRoom
  <2> QED BY <2>1, <2>4
<1>5. CASE g # 0 /\ i # 0 /\ b # 0
  <2> DEFINE s == Claim(st, i, b, "file", 4)
             name == "passwd"
             type == "file"
  <2>1. d \in R /\ d # NoDir /\ s1 = st
    BY <1>0, <1>2, <1>5
  <2>2. f = 0 /\ free_slot(t) = 0 /\ r.final = s
    <3> HIDE DEF sys, t, f, i, b, r, d, s1
    <3> QED BY <1>1, <1>3, <1>5, <2>1 DEF Ends
  <2>3. i = alloc_inode_raw(st) /\ b = alloc_block_raw(st) /\ 4 \in Nat /\ type \in {"file", "dir"}
        /\ s = Claim(st, i, b, type, 4)
    BY <2>1
  <2>4. t = load_dir_block(st, d) /\ f = find_dir_entry(t, st.inodes, name, "file")
        /\ SubDir(st, "sys") = d
    BY <1>2, <1>5, <2>1
  <2> HIDE DEF s, i, b, d, t, f, name, type, s1, sys
  <2>5. /\ load_dir_block(s, d) = t
        /\ find_dir_entry(t, s.inodes, name, "file") = 0
        /\ SubDir(s, "sys") = d
    <3> DEFINE size == 4
    <3>1. size \in Nat /\ s = Claim(st, i, b, type, size)
      BY <2>3
    <3> HIDE DEF size
    <3>2. i # 0 /\ b # 0 /\ i = alloc_inode_raw(st) /\ b = alloc_block_raw(st)
      BY <1>5, <2>3
    <3>3. \A e \in R : load_dir_block(s, e) = load_dir_block(st, e)
      BY <1>0, <2>3, <3>1, <3>2, ClaimSearches
    <3>4. \A e \in R : \A n, kind :
             find_dir_entry(load_dir_block(st, e), s.inodes, n, kind)
               = find_dir_entry(load_dir_block(st, e), st.inodes, n, kind)
      BY <1>0, <2>3, <3>1, <3>2, ClaimSearches
    <3>5. \A n : SubDir(s, n) = SubDir(st, n)
      BY <1>0, <2>3, <3>1, <3>2, ClaimSearches
    <3> QED BY <2>1, <2>2, <2>4, <3>3, <3>4, <3>5
  <2>6. NoRoom(s)
    BY <2>1, <2>2, <2>5 DEF NoRoom, Full, name
  <2> QED BY <2>2, <2>6
<1>6. CASE g = 0 /\ (alloc_inode_raw(st) = 0 \/ alloc_block_raw(st) = 0)
  <2>1. d = NoDir /\ s1 = st
    BY <1>6 DEF SysDir
  <2>2. r.final = st
    <3> HIDE DEF sys, t, f, i, b, r, d, s1
    <3> QED BY <1>1, <1>3, <2>1 DEF Ends
  <2>3. NoRoom(st)
    BY <1>2, <1>6 DEF NoRoom, Full
  <2> QED BY <2>2, <2>3
<1>7. CASE /\ g = 0 /\ alloc_inode_raw(st) # 0 /\ alloc_block_raw(st) # 0
           /\ free_slot(root) = 0
  <2> DEFINE i0 == alloc_inode_raw(st)
             b0 == alloc_block_raw(st)
             type == "dir"
             s == Claim(st, i0, b0, type, 0)
  <2>1. d = NoDir /\ s1 = s
    BY <1>7 DEF SysDir
  <2>2. r.final = s
    <3> HIDE DEF sys, t, f, i, b, r, d, s1, s
    <3> QED BY <1>1, <1>3, <2>1 DEF Ends
  <2>3. type \in {"file", "dir"} /\ 0 \in Nat /\ i0 # 0 /\ b0 # 0
    BY <1>7
  <2>30. SubDir(st, "sys") = NoDir
    BY <1>2, <1>7
  <2> HIDE DEF s1, d, t, f, i, b, sys, g, type
  <2>4. load_dir_block(s, 0) = root /\ SubDir(s, "sys") = SubDir(st, "sys")
    BY <1>0, <2>3, ClaimSearches
  <2> HIDE DEF s, root
  <2>5. NoRoom(s)
    BY <1>7, <2>30, <2>4 DEF NoRoom, Full
  <2> QED BY <2>2, <2>5
<1>8. CASE /\ g = 0 /\ alloc_inode_raw(st) # 0 /\ alloc_block_raw(st) # 0
           /\ free_slot(root) # 0
  <2>1. ~Full(st, root)
    BY <1>8 DEF Full
  <2>2. d \in Inodes /\ SubDir(s1, "sys") = d /\ t = EmptyTable
    BY <1>0, <1>8, <2>1, SysMade
  <2>3. EmptyTable \in Tables /\ \A k \in Slots : EmptyTable[k].name = NoName
    BY BlockTypes DEF EmptyTable, NoEntry
  <2>4. f = 0
    <3> DEFINE name == "passwd"
               e == EmptyTable
               tab == s1.inodes
    <3>1. f = find_dir_entry(e, tab, name, "file") /\ \A k \in Slots : e[k].name # name
      BY <2>2, <2>3, LayoutAssumption DEF Names
    <3> HIDE DEF name, tab, e, f
    <3> QED BY <3>1, NotThere
  <2>5. free_slot(EmptyTable) # 0
    <3> DEFINE free == {k \in Slots : EmptyTable[k].name = NoName}
    <3>1. free = Slots /\ 1 \in Slots /\ Slots \in SUBSET (Nat \ {0})
      BY <2>3, SysTables, Numbers
    <3>2. free_slot(EmptyTable) = FirstOf(free)
      BY DEF free_slot
    <3> HIDE DEF free
    <3>3. FirstOf(free) = Min(free) /\ Min(free) \in free
      BY <3>1, MinOf DEF FirstOf
    <3> QED BY <3>1, <3>2, <3>3
  <2> HIDE DEF sys, t, f, r, d, s1, g, root
  <2>6. (i = 0 \/ b = 0) /\ r.final = s1
    <3> HIDE DEF i, b
    <3> QED BY <1>0, <1>1, <1>3, <2>2, <2>4, <2>5 DEF Ends
  <2>7. Full(s1, t)
    BY <2>6 DEF Full
  <2>8. NoRoom(s1)
    BY <1>0, <2>2, <2>4, <2>7 DEF NoRoom, t, f
  <2> QED BY <2>6, <2>8 DEF r
<1> QED BY <1>2, <1>4, <1>5, <1>6, <1>7, <1>8

\* The dialog runs between commands, and what has refused a password keeps
\* no room for any.
DialogOK ==
    /\ mode = "dialog" => phase = "ready" /\ stack = <<>>
    /\ mode = "dialog" /\ refused /\ ~dirty => NoRoom(fs)

LEMMA DialogSteps ==
    ASSUME DialogOK, ShellNext
    PROVE  \/ mode' # "dialog" /\ (mode = "dialog" => mode' # "shell")
           \/ \E hash : Passwd(hash)
           \/ \E hash \in Hashes : NewPassword(hash)
<1> DEFINE Leaves == mode' # "dialog" /\ (mode = "dialog" => mode' # "shell")
<1>1. \A m : Session(m) => mode' = "login" \/ mode' = m
  BY DEF Session
<1>2. \A args : Types(args) /\ Done(args) => Leaves
  BY <1>1 DEF Types, Done
<1>3. ASSUME ShellMount \/ BootFormat PROVE Leaves
  <2>1. phase # "ready"
    BY <1>3 DEF ShellMount, Mount, BootFormat
  <2>2. Session(mode)
    BY <1>3 DEF ShellMount, BootFormat, Formats
  <2> QED BY <1>1, <2>1, <2>2 DEF DialogOK
<1>4. ASSUME PowerCycle PROVE Leaves
  BY <1>4 DEF PowerCycle, Reboot, LosePower, Session, Restarts
<1>5. ASSUME ShellRemoveStep PROVE Leaves
  <2>1. stack # <<>>
    BY <1>5 DEF ShellRemoveStep, RemoveStep, RemoveEnter, RemoveCurrent, RemoveLeave,
                RemoveDone, RemoveGivesUp, Running
  <2> QED BY <1>1, <1>5, <2>1 DEF ShellRemoveStep, DialogOK
<1>6. ASSUME NEW hash, Login(hash) PROVE Leaves
  BY <1>6 DEF Login
<1>7. ASSUME Exit \/ Shutdown \/ Mkfs PROVE Leaves
  BY <1>1, <1>7 DEF Exit, Shutdown, Mkfs, Formats
<1>8. ASSUME NEW arg, cd(arg) PROVE Leaves
  BY <1>8 DEF cd
<1>9. ASSUME NEW arg, NEW text, ShellMkdir(arg) \/ ShellWrite(arg, text) \/ ShellTouch(arg)
                                  \/ ShellRm(arg) \/ ShellRmR(arg)
      PROVE  Leaves
  BY <1>2, <1>9 DEF ShellMkdir, ShellWrite, ShellTouch, ShellRm, ShellRmR
<1>10. ASSUME NEW arg, NEW to, ShellCp(arg, to) \/ ShellMv(arg, to) PROVE Leaves
  BY <1>2, <1>10 DEF ShellCp, ShellMv
<1> HIDE DEF Leaves
<1>11. Leaves \/ (\E hash : Passwd(hash)) \/ (\E hash \in Hashes : NewPassword(hash))
  BY <1>3, <1>4, <1>5, <1>6, <1>7, <1>8, <1>9, <1>10 DEF ShellNext, ShellStep
<1> QED BY <1>11 DEF Leaves

LEMMA NewPasswordKeeps ==
    ASSUME IInv, BInv, LInv, DialogOK, NEW hash \in Hashes, NewPassword(hash)
    PROVE  DialogOK' /\ (~dirty /\ refused => mode' # "shell")
<1> DEFINE r == fs_write_passwd(fs, hash)
<1>1. mode = "dialog" /\ phase = "ready" /\ stack = <<>> /\ Call(r)
  BY DEF NewPassword, DialogOK, WritePasswd
<1>2. ~dirty => fs \in Orderly
  BY <1>1, LiveOrderly DEF Live
<1>3. ~dirty /\ refused => r.ok = FALSE
  BY <1>1, <1>2, NoRoomRefuses DEF DialogOK
<1>4. ~dirty /\ r.ok = FALSE => NoRoom(r.final)
  BY <1>2, RefusedFull
<1>5. r.ok \in BOOLEAN /\ faults \in Nat
  <2>1. CASE fs.sb
    <3>1. fs \in Rooted
      BY <1>1, <2>1 DEF IInv, Live
    <3>2. r \in Outcomes(fs)
      BY <3>1, PasswdOutcome
    <3> QED BY <3>2 DEF Outcomes, IInv, TypeOK
  <2>2. CASE ~fs.sb
    <3>1. fs \in Wiped
      BY <1>1, <2>2 DEF IInv, Live
    <3>2. r.ok = FALSE
      BY <3>1, WipedPasswd
    <3>3. faults \in Nat
      BY DEF IInv, TypeOK
    <3> QED BY <3>2, <3>3
  <2> QED BY <2>1, <2>2
<1> DEFINE faulty == faults' # faults
<1>6. /\ Session(IF r.ok /\ ~faulty THEN "shell" ELSE "dialog")
      /\ refused' = (mode' = "dialog" /\ (refused \/ ~(r.ok \/ faulty)))
  BY DEF NewPassword
<1> HIDE DEF r
<1>7. CASE fs' = r.final /\ UNCHANGED <<mounted, lastError, phase, stack, dirty, formats, faults>>
  <2>1. phase' # "start" /\ ~faulty
    BY <1>1, <1>7
  <2>2. mode' = IF r.ok THEN "shell" ELSE "dialog"
    BY <1>6, <2>1 DEF Session, Restarts
  <2> QED BY <1>1, <1>3, <1>4, <1>5, <1>7, <2>2 DEF DialogOK
<1>8. CASE \E s \in r.cuts : /\ DiskError(s, {fs, r.final})
                             /\ UNCHANGED <<mounted, lastError, phase, formats>>
  <2> PICK s \in r.cuts : /\ DiskError(s, {fs, r.final})
                          /\ UNCHANGED <<mounted, lastError, phase, formats>>
    BY <1>8
  <2>1. fs' = s /\ stack' = <<>> /\ phase' = "ready" /\ (~dirty' => ~dirty /\ s \in {fs, r.final})
    BY <1>1 DEF DiskError
  <2>2. faulty
    BY <1>5 DEF DiskError
  <2>3. mode' = "dialog"
    BY <1>6, <2>1, <2>2 DEF Session, Restarts
  <2>30. refused' => refused
    <3> HIDE DEF faulty
    <3>1. refused' => refused \/ ~(r.ok \/ faulty)
      BY <1>6
    <3> QED BY <2>2, <3>1
  <2>4. refused /\ ~dirty' => NoRoom(fs')
    <3>1. refused /\ ~dirty' => NoRoom(fs) /\ NoRoom(r.final)
      BY <1>1, <1>3, <1>4, <2>1 DEF DialogOK
    <3> QED BY <2>1, <3>1
  <2> QED BY <2>1, <2>3, <2>30, <2>4 DEF DialogOK
<1>9. CASE \E s \in r.cuts : PowerFailure(s, {fs, r.final}) /\ UNCHANGED formats
  <2>1. phase' = "start"
    BY <1>9 DEF PowerFailure, LosePower
  <2>2. mode' = "login"
    BY <1>6, <2>1 DEF Session, Restarts
  <2> QED BY <2>2 DEF DialogOK
<1> QED BY <1>1, <1>7, <1>8, <1>9 DEF Call

LEMMA DialogKept ==
    ASSUME IInv, BInv, LInv, DialogOK, [ShellNext]_shellVars
    PROVE  DialogOK' /\ (Sound /\ mode = "dialog" /\ refused => mode' # "shell")
<1>1. CASE UNCHANGED shellVars
  BY <1>1 DEF DialogOK, shellVars, fsVars, vars, userVars
<1>2. CASE mode' # "dialog" /\ (mode = "dialog" => mode' # "shell")
  BY <1>2 DEF DialogOK
<1>3. ASSUME NEW hash, Passwd(hash)
      PROVE  DialogOK' /\ (mode = "dialog" => mode' # "shell")
  BY <1>3 DEF Passwd, DialogOK, Running, fsVars, vars
<1>4. ASSUME NEW hash \in Hashes, NewPassword(hash)
      PROVE  DialogOK' /\ (Sound /\ refused => mode' # "shell")
  BY <1>4, NewPasswordKeeps DEF Sound
<1> QED BY <1>1, <1>2, <1>3, <1>4, DialogSteps

\* The loop of passwd ends only when fs_write_passwd returns true: once it has
\* refused for lack of room, on a disk with nothing half-changed, no password
\* and no fault that does no damage ends the dialog but a power failure.
THEOREM RefusalIsFinal == ShellSpec => RefusedForGood
<1>1. ShellInit => DialogOK
  BY DEF ShellInit, DialogOK
<1>2. ShellSpec => []DialogOK
  <2>1. IInv /\ BInv /\ LInv /\ DialogOK /\ [ShellNext]_shellVars => DialogOK'
    BY DialogKept
  <2> QED BY <1>1, <2>1, ShellInvariant, PTL DEF ShellSpec
<1>3. IInv /\ BInv /\ LInv /\ DialogOK /\ [ShellNext]_shellVars
        => [Sound /\ mode = "dialog" /\ refused => mode' # "shell"]_shellVars
  BY DialogKept
<1> QED BY <1>2, <1>3, ShellInvariant, PTL DEF ShellSpec, RefusedForGood

-----------------------------------------------------------------------------
(* A command stays where it is.  What is shown of each call, whatever the  *)
(* disk holds: no entry of a name that can be typed ever refers to the     *)
(* root, so that a call whose paths name a directory works on another one  *)
(* and, since the root's block is its own, leaves the root's table alone.  *)

LeadsOn(t) == \A k \in Slots : t[k].name \in Names => t[k].inode # 0
Guards(st) == \A b \in Blocks : LeadsOn(st.blocks[b].table)

\* s comes of st; keep says whether it has to have the root's block as it was.
Guarded(st, s, keep) == Guards(s) /\ (keep => s.blocks[1] = st.blocks[1])
GuardedCall(st, o, keep) ==
    Guarded(st, o.final, keep) /\ \A s \in o.cuts : Guarded(st, s, keep)

LEMMA GuardSame ==
    ASSUME NEW st, NEW keep, NEW s, Guarded(st, s, keep), NEW u, u.blocks = s.blocks
    PROVE  Guarded(st, u, keep)
BY DEF Guarded, Guards

LEMMA GuardSelf ==
    ASSUME NEW st, Guards(st), NEW keep
    PROVE  Guarded(st, st, keep) /\ GuardedCall(st, Refuse(st), keep)
BY DEF Guarded, GuardedCall, Refuse, Outcome

\* Tables a call writes.
LEMMA LeadingTables ==
    /\ \A c \in Contents : LeadsOn(TextBlock(c).table)
    /\ LeadsOn(EmptyTable) /\ LeadsOn(ZeroBlock.table)
    /\ \A t \in Tables : \A s : LeadsOn(t) => LeadsOn(Unlinked(t, s))
    /\ \A t \in Tables : \A name, i : LeadsOn(t) /\ i # 0 => LeadsOn(WithEntry(t, name, i))
    /\ \A t \in Tables : \A s, name :
        LeadsOn(t) /\ t[s].inode # 0 => LeadsOn([t EXCEPT ![s].name = name])
<1>1. NoName \notin Names
  BY LayoutAssumption
<1>2. LeadsOn(EmptyTable)
  BY <1>1 DEF LeadsOn, EmptyTable, NoEntry
<1>3. \A c \in Contents : LeadsOn(TextBlock(c).table)
  BY ShellAssumption DEF LeadsOn, TextBlock
<1>4. LeadsOn(ZeroBlock.table)
  BY <1>3 DEF ZeroBlock, Contents
<1>5. \A t \in Tables : \A s : LeadsOn(t) => LeadsOn(Unlinked(t, s))
  BY <1>1 DEF LeadsOn, Unlinked, NoEntry, Tables
<1>6. \A t \in Tables : \A name, i : LeadsOn(t) /\ i # 0 => LeadsOn(WithEntry(t, name, i))
  BY DEF LeadsOn, WithEntry, Tables
<1>7. ASSUME NEW t \in Tables, NEW s, NEW name, LeadsOn(t), t[s].inode # 0
      PROVE  LeadsOn([t EXCEPT ![s].name = name])
  <2> DEFINE u == [t EXCEPT ![s].name = name]
  <2>1. \A k \in Slots : k # s => u[k] = t[k]
    BY DEF Tables
  <2>2. s \in Slots => u[s].inode = t[s].inode
    BY DEF Tables, Entries
  <2> QED BY <1>7, <2>1, <2>2 DEF LeadsOn
<1> QED BY <1>2, <1>3, <1>4, <1>5, <1>6, <1>7

LEMMA LoadLeads ==
    ASSUME NEW st \in FsStates, Guards(st), NEW d \in Inodes
    PROVE  LeadsOn(load_dir_block(st, d))
<1>1. st.inodes[d].block \in Blocks
  BY TableTypes
<1> QED BY <1>1, LeadingTables DEF load_dir_block, Guards

LEMMA GuardWrite ==
    ASSUME NEW st, NEW keep, NEW s \in FsStates, Guarded(st, s, keep),
           NEW b \in Blocks, keep => b # 1, NEW blk, LeadsOn(blk.table)
    PROVE  Guarded(st, disk_write_lba(s, b, blk), keep)
<1>1. CASE ~s.sb
  <2>1. disk_write_lba(s, b, blk).blocks = s.blocks
    BY <1>1 DEF disk_write_lba, FsStates
  <2> QED BY <2>1, GuardSame
<1>2. CASE s.sb
  <2> DEFINE u == disk_write_lba(s, b, blk)
  <2>1. u.blocks = [s.blocks EXCEPT ![b] = blk]
    BY <1>2 DEF disk_write_lba, FsStates
  <2>2. s.blocks \in [Blocks -> BlockRecords] /\ 1 \in Blocks
    BY Numbers DEF FsStates
  <2>3. \A c \in Blocks : u.blocks[c] = IF c = b THEN blk ELSE s.blocks[c]
    BY <2>1, <2>2
  <2> HIDE DEF u
  <2>4. Guards(u)
    BY <2>3 DEF Guards, Guarded
  <2>5. keep => u.blocks[1] = s.blocks[1]
    BY <2>2, <2>3
  <2> QED BY <2>4, <2>5 DEF Guarded, u
<1> QED BY <1>1, <1>2

\* No other inode is on the root's block.
LEMMA GuardWriteDir ==
    ASSUME NEW st, NEW keep, NEW s \in Rooted, Guarded(st, s, keep),
           NEW d \in Inodes, keep => d # 0, NEW t \in Tables, LeadsOn(t)
    PROVE  Guarded(st, write_dir_block(s, d, t), keep)
<1> DEFINE b == s.inodes[d].block
           blk == IF s.blocks[b].table = t THEN s.blocks[b] ELSE DirBlock(t)
<1>1. s \in FsStates /\ b \in Blocks
  BY ReachTypes, TableTypes
<1>2. d # 0 => b # 1
  BY DEF Rooted, RootOK
<1>3. blk.table = t
  BY DEF DirBlock
<1> HIDE DEF b, blk
<1>4. Guarded(st, disk_write_lba(s, b, blk), keep)
  BY <1>1, <1>2, <1>3, GuardWrite
<1> QED BY <1>4 DEF write_dir_block, b, blk

\* What changes no block.
LEMMA SameBlocks ==
    ASSUME NEW s \in FsStates
    PROVE  /\ \A i, b, type, size : Claim(s, i, b, type, size).blocks = s.blocks
           /\ \A i, size : [s EXCEPT !.inodes[i].size = size].blocks = s.blocks
           /\ Flush(s).blocks = s.blocks
           /\ \A u \in FlushCuts(s) : u.blocks = s.blocks
<1>1. flush_bitmap(s).blocks = s.blocks /\ Flush(s).blocks = s.blocks
  BY DEF Flush, flush_bitmap, flush_inodes, FsStates
<1>2. \A u \in FlushCuts(s) : u.blocks = s.blocks
  BY <1>1 DEF FlushCuts, flush_bitmap, FsStates
<1>3. \A i, b, type, size : Claim(s, i, b, type, size).blocks = s.blocks
  BY DEF Claim, mark_block_used, FsStates
<1>4. \A i, size : [s EXCEPT !.inodes[i].size = size].blocks = s.blocks
  BY DEF FsStates
<1> QED BY <1>1, <1>2, <1>3, <1>4

LEMMA GuardFlush ==
    ASSUME NEW st, NEW keep, NEW s \in FsStates, Guarded(st, s, keep),
           NEW cuts, \A u \in cuts : Guarded(st, u, keep)
    PROVE  GuardedCall(st, FlushAndReturn(s, cuts), keep)
<1>1. Guarded(st, Flush(s), keep)
  BY SameBlocks, GuardSame
<1>2. \A u \in FlushCuts(s) : Guarded(st, u, keep)
  BY SameBlocks, GuardSame
<1> QED BY <1>1, <1>2 DEF GuardedCall, FlushAndReturn, Outcome

LEMMA GuardReleased ==
    ASSUME NEW st \in Rooted, Guards(st), NEW i \in Inodes \ {0}, NEW keep
    PROVE  /\ Guarded(st, Released(st, i).final, keep)
           /\ \A u \in Released(st, i).cuts : Guarded(st, u, keep)
<1> DEFINE b == st.inodes[i].block
           s1 == mark_block_free(st, b)
           s2 == disk_write_lba(s1, b, ZeroBlock)
           s3 == IF b = 0 THEN st ELSE s2
<1>1. st \in FsStates /\ b \in Blocks
  BY ReachTypes, TableTypes
<1>2. b # 1
  BY DEF Rooted, RootOK
<1>3. Guarded(st, st, keep)
  BY GuardSelf
<1>4. s1 \in FsStates /\ s1.blocks = st.blocks
  BY <1>1 DEF mark_block_free, FsStates
<1>5. Released(st, i) = [cuts |-> IF b = 0 THEN {st} ELSE {st, s1, s2},
                         final |-> [s3 EXCEPT !.inodes[i] = NoInode]]
  BY DEF Released
<1> HIDE DEF b, s1
<1>6. Guarded(st, s1, keep)
  BY <1>3, <1>4, GuardSame
<1>7. Guarded(st, s2, keep) /\ s2 \in FsStates
  <2>1. LeadsOn(ZeroBlock.table)
    BY LeadingTables DEF ZeroBlock
  <2>2. s2 \in FsStates
    BY <1>1, <1>4, BlockTypes DEF disk_write_lba, FsStates
  <2> QED BY <1>1, <1>2, <1>4, <1>6, <2>1, <2>2, GuardWrite
<1> HIDE DEF s2
<1>8. Guarded(st, s3, keep) /\ s3 \in FsStates
  BY <1>1, <1>3, <1>7
<1>9. Guarded(st, [s3 EXCEPT !.inodes[i] = NoInode], keep)
  <2> HIDE DEF s3
  <2>1. [s3 EXCEPT !.inodes[i] = NoInode].blocks = s3.blocks
    BY <1>8 DEF FsStates
  <2> QED BY <1>8, <2>1, GuardSame
<1> QED BY <1>3, <1>5, <1>6, <1>7, <1>9

LEMMA GuardedDir ==
    ASSUME NEW st \in FsStates, Guards(st), NEW path \in PathRecords,
           NEW keep, keep => path.dir # NoName, Usable(st, DirOf(st, path))
    PROVE  DirOf(st, path) \in Inodes /\ (keep => DirOf(st, path) # 0)
<1> DEFINE t == load_dir_block(st, 0)
           f == find_dir_entry(t, st.inodes, path.dir, "dir")
<1>1. DirOf(st, path) \in Inodes
  BY PathTypes
<1>2. ASSUME path.dir # NoName PROVE DirOf(st, path) # 0
  <2>1. path.dir \in Names
    BY <1>2 DEF PathRecords
  <2>2. t \in Tables /\ LeadsOn(t)
    BY TableTypes, LoadLeads, Numbers
  <2>3. DirOf(st, path) = IF f = 0 THEN NoDir ELSE t[f].inode
    BY <1>2 DEF DirOf, InRoot, SubDir
  <2>4. f # 0
    BY <1>1, <2>3, Numbers DEF NoDir
  <2> HIDE DEF t
  <2>5. Found(st, t, path.dir, "dir", f)
    BY <2>2, <2>4, Searches
  <2> HIDE DEF f
  <2>6. t[f].inode # 0
    BY <2>1, <2>2, <2>5 DEF Found, LeadsOn
  <2> QED BY <2>3, <2>4, <2>6
<1> QED BY <1>1, <1>2

\* What the two allocators return is neither the root nor its block.
LEMMA NotTheRoots ==
    ASSUME NEW st \in Rooted
    PROVE  /\ st \in FsStates
           /\ alloc_inode_raw(st) \in Inodes
           /\ alloc_block_raw(st) # 0 => alloc_block_raw(st) \in Blocks \ st.bitmap
           /\ alloc_block_raw(st) # 1
<1>1. st \in FsStates /\ 1 \in st.bitmap
  BY DEF Rooted, RootOK
<1>2. EmptyTable \in Tables
  BY BlockTypes
<1>3. /\ alloc_inode_raw(st) \in Inodes
      /\ alloc_block_raw(st) # 0 => alloc_block_raw(st) \in Blocks \ st.bitmap
  BY <1>1, <1>2, Lookups
<1> QED BY <1>1, <1>3

LEMMA GuardMakeDir ==
    ASSUME NEW st \in Rooted, Guards(st), NEW d \in Inodes, NEW name \in Names,
           NEW keep, keep => d # 0
    PROVE  GuardedCall(st, MakeDirIn(st, d, name), keep)
<1> DEFINE t == load_dir_block(st, d)
           i == alloc_inode_raw(st)
           b == alloc_block_raw(st)
           s1 == Claim(st, i, b, "dir", 0)
           s2 == disk_write_lba(s1, b, ZeroBlock)
           s3 == write_dir_block(s2, d, WithEntry(t, name, i))
<1>1. st \in FsStates /\ t \in Tables /\ LeadsOn(t)
  BY NotTheRoots, TableTypes, LoadLeads
<1>2. i \in Inodes /\ (b # 0 => b \in Blocks \ st.bitmap) /\ b # 1
  BY NotTheRoots
<1>3. ASSUME i # 0, b # 0 PROVE GuardedCall(st, FlushAndReturn(s3, {st, s1, s2}), keep)
  <2>1. Guarded(st, st, keep) /\ s1.blocks = st.blocks
    BY <1>1, GuardSelf, SameBlocks
  <2> HIDE DEF t, i, b
  <2>2. s1 \in Rooted /\ s1 \in FsStates
    BY <1>2, <1>3, ClaimReach, ReachTypes
  <2> HIDE DEF s1
  <2>3. Guarded(st, s1, keep)
    BY <2>1, GuardSame
  <2>4. LeadsOn(ZeroBlock.table)
    BY LeadingTables DEF ZeroBlock
  <2>5. s2 \in Rooted /\ Guarded(st, s2, keep)
    BY <1>2, <1>3, <2>2, <2>3, <2>4, WriteReach, BlockTypes, ReachTypes, GuardWrite
  <2> HIDE DEF s2
  <2>6. WithEntry(t, name, i) \in Tables /\ LeadsOn(WithEntry(t, name, i))
    BY <1>1, <1>2, <1>3, EntryTypes, LeadingTables
  <2>7. s3 \in FsStates /\ Guarded(st, s3, keep)
    BY <2>5, <2>6, WriteDirReach, ReachTypes, GuardWriteDir
  <2> HIDE DEF s3
  <2>8. \A u \in {st, s1, s2} : Guarded(st, u, keep)
    BY <2>1, <2>3, <2>5
  <2> QED BY <2>7, <2>8, GuardFlush
<1>4. GuardedCall(st, Refuse(st), keep)
  BY GuardSelf
<1>5. \/ MakeDirIn(st, d, name) = FlushAndReturn(s3, {st, s1, s2}) /\ i # 0 /\ b # 0
      \/ MakeDirIn(st, d, name) = Refuse(st)
  BY DEF MakeDirIn
<1> HIDE DEF i, b, s1, s2, s3
<1> QED BY <1>3, <1>4, <1>5

LEMMA GuardMkdir ==
    ASSUME NEW st \in Rooted, Guards(st), NEW path \in PathRecords,
           NEW keep, keep => path.dir # NoName
    PROVE  GuardedCall(st, fs_mkdir_path(st, path), keep)
<1> DEFINE d == DirOf(st, path)
<1>1. Usable(st, d) => d \in Inodes /\ (keep => d # 0)
  BY GuardedDir, ReachTypes
<1>2. path.name # NoName => path.name \in Names
  BY DEF PathRecords
<1>3. GuardedCall(st, Refuse(st), keep)
  BY GuardSelf
<1> HIDE DEF d
<1> QED BY <1>1, <1>2, <1>3, GuardMakeDir DEF fs_mkdir_path, d

LEMMA GuardStore ==
    ASSUME NEW st \in Rooted, Guards(st), NEW d \in Inodes, NEW name \in Names,
           NEW blk \in BlockRecords, LeadsOn(blk.table), NEW size \in Nat,
           NEW keep, keep => d # 0
    PROVE  GuardedCall(st, StoreFile(st, d, name, blk, size), keep)
<1> DEFINE t == load_dir_block(st, d)
           f == find_dir_entry(t, st.inodes, name, "file")
           new == f = 0
           b == alloc_block_raw(st)
           i == IF new THEN alloc_inode_raw(st) ELSE t[f].inode
           s1 == IF new THEN Claim(st, i, b, "file", size)
                        ELSE [st EXCEPT !.inodes[i].size = size]
           u == IF new THEN WithEntry(t, name, i) ELSE t
           s2 == write_dir_block(s1, d, u)
           s3 == disk_write_lba(s2, s1.inodes[i].block, blk)
           room == new => free_slot(t) # 0 /\ i # 0 /\ b # 0
<1>1. st \in FsStates /\ t \in Tables /\ LeadsOn(t)
  BY NotTheRoots, TableTypes, LoadLeads
<1>2. /\ alloc_inode_raw(st) \in Inodes /\ (b # 0 => b \in Blocks \ st.bitmap)
      /\ f # 0 => f \in Slots /\ t[f].inode \in Inodes
                  /\ st.inodes[t[f].inode].type = "file"
  <2> HIDE DEF t
  <2> QED BY <1>1, NotTheRoots, Lookups, TableTypes
<1>3. i \in Inodes /\ (room => i # 0)
  <2>1. st.inodes[0].type # "file"
    BY DEF Rooted, RootOK
  <2> HIDE DEF t, f, b
  <2> QED BY <1>2, <2>1
<1>4. ASSUME room PROVE GuardedCall(st, FlushAndReturn(s3, {st, s1, s2}), keep)
  <2>1. Guarded(st, st, keep) /\ s1.blocks = st.blocks
    <3> HIDE DEF t, f, b, i
    <3> QED BY <1>1, GuardSelf, SameBlocks
  <2>2. s1 \in Rooted /\ s1 \in FsStates
    <3> HIDE DEF t, f, b
    <3> QED BY <1>2, <1>3, <1>4, ClaimReach, SizeReach, ReachTypes
  <2>3. u \in Tables /\ LeadsOn(u)
    <3> HIDE DEF t, f, b, i
    <3> QED BY <1>1, <1>3, <1>4, EntryTypes, LeadingTables
  <2> HIDE DEF s1, i, u
  <2>4. Guarded(st, s1, keep)
    BY <2>1, GuardSame
  <2>5. s1.inodes[i].block \in Blocks /\ s1.inodes[i].block # 1
    BY <1>3, <1>4, <2>2, TableTypes DEF Rooted, RootOK
  <2>6. s2 \in Rooted /\ s2 \in FsStates /\ Guarded(st, s2, keep)
    BY <2>2, <2>3, <2>4, WriteDirReach, ReachTypes, GuardWriteDir
  <2> HIDE DEF s2
  <2>7. s3 \in FsStates /\ Guarded(st, s3, keep)
    BY <2>5, <2>6, WriteReach, ReachTypes, GuardWrite
  <2> HIDE DEF s3
  <2>8. \A v \in {st, s1, s2} : Guarded(st, v, keep)
    BY <2>1, <2>4, <2>6
  <2> QED BY <2>7, <2>8, GuardFlush
<1>5. GuardedCall(st, Refuse(st), keep)
  BY GuardSelf
<1>6. \/ StoreFile(st, d, name, blk, size) = FlushAndReturn(s3, {st, s1, s2}) /\ room
      \/ StoreFile(st, d, name, blk, size) = Refuse(st)
  BY DEF StoreFile
<1> HIDE DEF room, s1, s2, s3
<1> QED BY <1>4, <1>5, <1>6

LEMMA GuardWritePath ==
    ASSUME NEW st \in Rooted, Guards(st), NEW path \in PathRecords, NEW text \in Contents,
           NEW keep, keep => path.dir # NoName
    PROVE  GuardedCall(st, fs_write_path(st, path, text), keep)
<1> DEFINE d == DirOf(st, path)
<1>1. TextBlock(text) \in BlockRecords /\ LengthOf[text] \in Nat /\ LeadsOn(TextBlock(text).table)
  BY BlockTypes, LayoutAssumption, LeadingTables
<1>2. Usable(st, d) => d \in Inodes /\ (keep => d # 0)
  BY GuardedDir, ReachTypes
<1>3. path.name # NoName => path.name \in Names
  BY DEF PathRecords
<1>4. GuardedCall(st, Refuse(st), keep)
  BY GuardSelf
<1> HIDE DEF d
<1> QED BY <1>1, <1>2, <1>3, <1>4, GuardStore DEF fs_write_path, d

\* Where cp and mv put things is not the root, unless the destination is in it.
LEMMA GuardedInto ==
    ASSUME NEW st \in FsStates, Guards(st), NEW src \in PathRecords, NEW dst \in PathRecords,
           NEW keep, keep => dst.dir # NoName, Usable(st, Into(st, src, dst).dir)
    PROVE  /\ Into(st, src, dst).dir \in Inodes /\ (keep => Into(st, src, dst).dir # 0)
           /\ Into(st, src, dst).name \in Names \union {NoName}
<1> DEFINE to == Into(st, src, dst)
<1>1. to.dir \in Inodes /\ to.name \in Names \union {NoName}
  BY PathTypes
<1>2. ASSUME keep PROVE to.dir # 0
  <2>1. to.dir = DirOf(st, dst)
    BY <1>2 DEF Into, InRoot
  <2> QED BY <1>2, <2>1, GuardedDir
<1> QED BY <1>1, <1>2

LEMMA GuardCopy ==
    ASSUME NEW st \in Rooted, Guards(st), NEW src \in PathRecords, NEW dst \in PathRecords,
           NEW keep, keep => dst.dir # NoName
    PROVE  GuardedCall(st, fs_copy_path(st, src, dst), keep)
<1> DEFINE i == FileAt(st, src)
           to == Into(st, src, dst)
           blk == st.blocks[st.inodes[i].block]
<1>1. st \in FsStates
  BY ReachTypes
<1>2. i \in Inodes
  <2> DEFINE d == DirOf(st, src)
             t == load_dir_block(st, d)
             s == find_dir_entry(t, st.inodes, src.name, "file")
  <2>1. ASSUME Usable(st, d), s # 0 PROVE t[s].inode \in Inodes
    <3>1. t \in Tables
      BY <1>1, <2>1, PathTypes, TableTypes
    <3>2. s \in Slots
      <4> HIDE DEF t
      <4> QED BY <1>1, <2>1, <3>1, Lookups
    <3> QED BY <1>1, <3>1, <3>2, TableTypes
  <2> QED BY <2>1, Numbers DEF FileAt
<1>3. blk \in BlockRecords /\ LeadsOn(blk.table) /\ st.inodes[i].size \in Nat
  <2>1. st.inodes[i].block \in Blocks
    BY <1>1, <1>2, TableTypes
  <2> QED BY <1>1, <1>2, <2>1 DEF FsStates, InodeRecords, Guards
<1>4. Usable(st, to.dir) => to.dir \in Inodes /\ (keep => to.dir # 0)
  BY <1>1, GuardedInto
<1>5. to.name # NoName => to.name \in Names
  BY <1>1, PathTypes
<1>6. GuardedCall(st, Refuse(st), keep)
  BY GuardSelf
<1> HIDE DEF i, to, blk
<1>7. Usable(st, to.dir) /\ to.name # NoName
        => GuardedCall(st, StoreFile(st, to.dir, to.name, blk, st.inodes[i].size), keep)
  BY <1>3, <1>4, <1>5, GuardStore
<1> QED BY <1>6, <1>7 DEF fs_copy_path, i, to, blk

LEMMA GuardRemoveEntry ==
    ASSUME NEW st \in Rooted, Guards(st), NEW d \in Inodes, NEW name,
           NEW keep, keep => d # 0
    PROVE  GuardedCall(st, remove_entry_from_dir(st, d, name), keep)
<1> DEFINE t == load_dir_block(st, d)
           s == find_dir_entry(t, st.inodes, name, "file")
           i == t[s].inode
           freed == Released(st, i)
           s1 == write_dir_block(freed.final, d, Unlinked(t, s))
<1>1. st \in FsStates /\ t \in Tables /\ LeadsOn(t)
  BY NotTheRoots, TableTypes, LoadLeads
<1>2. ASSUME s # 0, i # 0
      PROVE  GuardedCall(st, FlushAndReturn(s1, freed.cuts \union {freed.final}), keep)
  <2>1. i \in Inodes
    <3> HIDE DEF t
    <3> QED BY <1>1, <1>2, Lookups, TableTypes
  <2>2. Unlinked(t, s) \in Tables /\ LeadsOn(Unlinked(t, s))
    <3> HIDE DEF t, s
    <3> QED BY <1>1, Numbers, EntryTypes, LeadingTables
  <2> HIDE DEF t, s, i
  <2>3. freed.final \in Rooted
    BY <1>2, <2>1, ReleasedReach, ReachTypes
  <2>4. Guarded(st, freed.final, keep) /\ \A u \in freed.cuts : Guarded(st, u, keep)
    BY <1>2, <2>1, GuardReleased
  <2> HIDE DEF freed
  <2>5. s1 \in FsStates /\ Guarded(st, s1, keep)
    BY <2>2, <2>3, <2>4, WriteDirReach, ReachTypes, GuardWriteDir
  <2> HIDE DEF s1
  <2>6. \A u \in freed.cuts \union {freed.final} : Guarded(st, u, keep)
    BY <2>4
  <2> QED BY <2>5, <2>6, GuardFlush
<1>3. GuardedCall(st, Refuse(st), keep)
  BY GuardSelf
<1>4. \/ /\ remove_entry_from_dir(st, d, name)
                = FlushAndReturn(s1, freed.cuts \union {freed.final})
         /\ s # 0 /\ i # 0
      \/ remove_entry_from_dir(st, d, name) = Refuse(st)
  BY DEF remove_entry_from_dir
<1> HIDE DEF s, i, freed, s1
<1> QED BY <1>2, <1>3, <1>4

LEMMA GuardRemove ==
    ASSUME NEW st \in Rooted, Guards(st), NEW path \in PathRecords,
           NEW keep, keep => path.dir # NoName
    PROVE  GuardedCall(st, fs_remove_path(st, path), keep)
<1> DEFINE d == DirOf(st, path)
<1>1. Usable(st, d) => d \in Inodes /\ (keep => d # 0)
  BY GuardedDir, ReachTypes
<1>2. GuardedCall(st, Refuse(st), keep)
  BY GuardSelf
<1> HIDE DEF d
<1> QED BY <1>1, <1>2, GuardRemoveEntry DEF fs_remove_path, d

\* The entry a move takes has a name that was typed, so it is not the root's.
LEMMA GuardRename ==
    ASSUME NEW st \in Rooted, Guards(st), NEW src \in PathRecords, NEW dst \in PathRecords,
           NEW keep, keep => src.dir # NoName /\ dst.dir # NoName
    PROVE  GuardedCall(st, fs_rename(st, src, dst), keep)
<1> DEFINE sd == DirOf(st, src)
           ts == load_dir_block(st, sd)
           s == MovedSlot(ts, st.inodes, src.name)
           i == ts[s].inode
           type == st.inodes[i].type
           to == IF dst.name = NoName THEN [dir |-> DirOf(st, dst), name |-> src.name]
                                      ELSE Into(st, src, dst)
           td == load_dir_block(st, to.dir)
           renamed == write_dir_block(st, sd, [ts EXCEPT ![s].name = to.name])
           s1 == write_dir_block(st, sd, Unlinked(ts, s))
           s2 == write_dir_block(s1, to.dir, WithEntry(td, to.name, i))
           goes == /\ Usable(st, sd) /\ Usable(st, to.dir) /\ s # 0
                   /\ src.name # NoName
<1>1. st \in FsStates /\ Guarded(st, st, keep)
  BY ReachTypes, GuardSelf
<1>2. ASSUME goes
      PROVE  Guarded(st, renamed, keep) /\ Guarded(st, s1, keep) /\ Guarded(st, s2, keep)
  <2>1. sd \in Inodes /\ (keep => sd # 0)
    BY <1>1, <1>2, GuardedDir
  <2>2. to.dir \in Inodes /\ (keep => to.dir # 0) /\ to.name \in Names \union {NoName}
    <3>1. CASE dst.name = NoName
      <4>1. to = [dir |-> DirOf(st, dst), name |-> src.name]
        BY <3>1
      <4>2. to.dir = DirOf(st, dst) /\ to.name = src.name
        BY <4>1
      <4> HIDE DEF to
      <4>3. src.name \in Names \union {NoName}
        BY DEF PathRecords
      <4> QED BY <1>1, <1>2, <4>2, <4>3, GuardedDir
    <3>2. CASE dst.name # NoName
      <4>1. to = Into(st, src, dst)
        BY <3>2
      <4> HIDE DEF to
      <4> QED BY <1>1, <1>2, <4>1, GuardedInto
    <3> QED BY <3>1, <3>2
  <2> HIDE DEF sd, to
  <2>3. ts \in Tables /\ LeadsOn(ts) /\ td \in Tables /\ LeadsOn(td)
    BY <1>1, <2>1, <2>2, TableTypes, LoadLeads
  <2>4. src.name \in Names
    BY <1>2 DEF PathRecords
  <2> HIDE DEF ts, td
  <2>5. s \in Slots /\ ts[s].name = src.name
    <3>1. \A kind : find_dir_entry(ts, st.inodes, src.name, kind) # 0
            => Found(st, ts, src.name, kind, find_dir_entry(ts, st.inodes, src.name, kind))
      BY <1>1, <2>3, Searches
    <3>2. \E kind : s = find_dir_entry(ts, st.inodes, src.name, kind)
      BY DEF MovedSlot
    <3> QED BY <1>2, <3>1, <3>2 DEF Found
  <2> HIDE DEF s
  <2>6. i \in Inodes /\ i # 0
    BY <1>1, <2>3, <2>4, <2>5, TableTypes DEF LeadsOn
  <2>7. ts[s].inode # 0
    BY <2>6
  <2> HIDE DEF i
  <2>8. /\ [ts EXCEPT ![s].name = to.name] \in Tables /\ Unlinked(ts, s) \in Tables
        /\ WithEntry(td, to.name, i) \in Tables
    BY <2>2, <2>3, <2>6, Numbers, EntryTypes
  <2>9. /\ LeadsOn([ts EXCEPT ![s].name = to.name]) /\ LeadsOn(Unlinked(ts, s))
        /\ LeadsOn(WithEntry(td, to.name, i))
    BY <2>3, <2>6, <2>7, LeadingTables
  <2>10. Guarded(st, renamed, keep)
    BY <1>1, <2>1, <2>8, <2>9, GuardWriteDir
  <2>11. s1 \in Rooted /\ Guarded(st, s1, keep)
    BY <1>1, <2>1, <2>8, <2>9, GuardWriteDir, WriteDirReach, ReachTypes
  <2> HIDE DEF renamed, s1
  <2>12. Guarded(st, s2, keep)
    BY <2>2, <2>8, <2>9, <2>11, GuardWriteDir
  <2> QED BY <2>10, <2>11, <2>12
<1>3. GuardedCall(st, Refuse(st), keep) /\ GuardedCall(st, Outcome(TRUE, st, {st}), keep)
  BY <1>1 DEF GuardedCall, Refuse, Outcome
<1> DEFINE intoDir == dst.name = NoName \/ (InRoot(dst) /\ SubDir(st, dst.name) # NoDir)
           nothing == \/ intoDir /\ type = "dir" /\ to.dir = i
                      \/ to.dir = sd /\ to.name = src.name
           taken == find_dir_entry(td, st.inodes, to.name, type) # 0
           full == free_slot(td) = 0
           near == to.dir = sd
           stays == src.name = NoName \/ ~Usable(st, sd) \/ s = 0 \/ ~Usable(st, to.dir)
<1>4. fs_rename(st, src, dst) =
        IF stays THEN Refuse(st)
        ELSE IF nothing THEN Outcome(TRUE, st, {st})
        ELSE IF taken THEN Refuse(st)
        ELSE IF near THEN Outcome(TRUE, renamed, {st, renamed})
        ELSE IF full THEN Refuse(st)
        ELSE Outcome(TRUE, s2, {st, s1, s2})
  BY DEF fs_rename
<1> HIDE DEF intoDir, nothing, taken, full, near, renamed, s1, s2
<1>5. ~stays => goes
  OBVIOUS
<1> HIDE DEF goes, stays
<1>6. goes => /\ GuardedCall(st, Outcome(TRUE, renamed, {st, renamed}), keep)
              /\ GuardedCall(st, Outcome(TRUE, s2, {st, s1, s2}), keep)
  BY <1>1, <1>2 DEF GuardedCall, Outcome
<1> QED BY <1>3, <1>4, <1>5, <1>6

\* write_sys_file may put its directory in the root.
LEMMA GuardSysDir ==
    ASSUME NEW st \in Rooted, Guards(st), NEW keep, ~keep
    PROVE  Guarded(st, SysDir(st).final, keep) /\ \A u \in SysDir(st).cuts : Guarded(st, u, keep)
<1> DEFINE t == load_dir_block(st, 0)
           f == find_dir_entry(t, st.inodes, "sys", "dir")
           i == alloc_inode_raw(st)
           b == alloc_block_raw(st)
           s1 == Claim(st, i, b, "dir", 0)
           s2 == disk_write_lba(s1, b, ZeroBlock)
           s3 == write_dir_block(s2, 0, WithEntry(t, "sys", i))
           same == write_dir_block(st, 0, t)
<1>1. st \in FsStates /\ t \in Tables /\ LeadsOn(t) /\ 0 \in Inodes /\ "sys" \in Names
  BY NotTheRoots, TableTypes, LoadLeads, Numbers DEF Names
<1>2. i \in Inodes /\ (b # 0 => b \in Blocks \ st.bitmap)
  BY NotTheRoots
<1>3. Guarded(st, st, keep) /\ s1.blocks = st.blocks
  <2> HIDE DEF t, i, b
  <2> QED BY <1>1, GuardSelf, SameBlocks
<1>4. Guarded(st, same, keep)
  <2> HIDE DEF t
  <2> QED BY <1>1, <1>3, GuardWriteDir
<1>5. ASSUME i # 0, b # 0
      PROVE  Guarded(st, s1, keep) /\ Guarded(st, s2, keep) /\ Guarded(st, s3, keep)
  <2> HIDE DEF t, i, b
  <2>1. s1 \in Rooted /\ s1 \in FsStates
    BY <1>2, <1>5, ClaimReach, ReachTypes
  <2> HIDE DEF s1
  <2>2. Guarded(st, s1, keep)
    BY <1>3, GuardSame
  <2>3. LeadsOn(ZeroBlock.table)
    BY LeadingTables DEF ZeroBlock
  <2>4. s2 \in Rooted /\ Guarded(st, s2, keep)
    BY <1>2, <1>5, <2>1, <2>2, <2>3, WriteReach, BlockTypes, ReachTypes, GuardWrite
  <2> HIDE DEF s2
  <2>5. WithEntry(t, "sys", i) \in Tables /\ LeadsOn(WithEntry(t, "sys", i))
    BY <1>1, <1>2, <1>5, EntryTypes, LeadingTables
  <2>6. Guarded(st, s3, keep)
    BY <1>1, <2>4, <2>5, GuardWriteDir
  <2> QED BY <2>2, <2>4, <2>6
<1>6. \/ SysDir(st) = [dir |-> t[f].inode, final |-> same, cuts |-> {st, same}]
      \/ SysDir(st) = [dir |-> NoDir, final |-> st, cuts |-> {st}]
      \/ SysDir(st) = [dir |-> NoDir, final |-> s1, cuts |-> {st, s1}] /\ i # 0 /\ b # 0
      \/ SysDir(st) = [dir |-> i, final |-> s3, cuts |-> {st, s1, s2, s3}] /\ i # 0 /\ b # 0
  BY DEF SysDir
<1> HIDE DEF t, f, i, b, s1, s2, s3, same
<1> QED BY <1>3, <1>4, <1>5, <1>6

LEMMA GuardSysFileIn ==
    ASSUME NEW st, NEW name \in Names, NEW text \in Contents,
           NEW sys, NEW keep, ~keep,
           sys.dir \in Inodes \union {NoDir}, sys.final \in Rooted,
           Guarded(st, sys.final, keep), \A v \in sys.cuts : Guarded(st, v, keep)
    PROVE  GuardedCall(st, SysFileIn(sys, name, text), keep)
<1> DEFINE s1 == sys.final
           d == sys.dir
           t == load_dir_block(s1, d)
           f == find_dir_entry(t, s1.inodes, name, "file")
           i == IF f # 0 THEN t[f].inode ELSE alloc_inode_raw(s1)
           b == alloc_block_raw(s1)
           s2 == IF f # 0 THEN [s1 EXCEPT !.inodes[i].size = LengthOf[text]]
                          ELSE Claim(s1, i, b, "file", LengthOf[text])
           u == IF f # 0 THEN t ELSE WithEntry(t, name, i)
           s3 == write_dir_block(s2, d, u)
           s4 == disk_write_lba(s3, s2.inodes[i].block, TextBlock(text))
           goes == ~(d = NoDir \/ (f = 0 /\ (i = 0 \/ b = 0)))
<1>1. /\ d \in Inodes \union {NoDir} /\ s1 \in Rooted /\ s1 \in FsStates
      /\ Guarded(st, s1, keep) /\ Guards(s1)
      /\ \A v \in sys.cuts : Guarded(st, v, keep)
  BY ReachTypes DEF Guarded
<1>2. ASSUME goes
      PROVE  /\ Guarded(st, s2, keep)
             /\ GuardedCall(st, FlushAndReturn(s4, sys.cuts \union {s2, s3}), keep)
  <2> HIDE DEF s1
  <2>1. d \in Inodes
    BY <1>1, <1>2
  <2> HIDE DEF d
  <2>2. t \in Tables /\ LeadsOn(t)
    BY <1>1, <2>1, TableTypes, LoadLeads
  <2> HIDE DEF t
  <2>3. /\ alloc_inode_raw(s1) \in Inodes /\ (b # 0 => b \in Blocks \ s1.bitmap)
        /\ f # 0 => f \in Slots
    BY <1>1, <2>2, Lookups
  <2>4. i \in Inodes
    BY <1>1, <2>2, <2>3, TableTypes
  <2>5. /\ LengthOf[text] \in Nat /\ TextBlock(text) \in BlockRecords
        /\ LeadsOn(TextBlock(text).table)
    BY BlockTypes, LayoutAssumption, LeadingTables
  <2>6. s2.blocks = s1.blocks
    <3> HIDE DEF f, b, i
    <3> QED BY <1>1, SameBlocks
  <2>7. s2 \in Rooted /\ s2 \in FsStates
    <3> HIDE DEF f, b, i
    <3> QED BY <1>1, <1>2, <2>3, <2>4, <2>5, ClaimReach, SizeReach, ReachTypes
  <2>8. u \in Tables /\ LeadsOn(u)
    <3>1. f = 0 => i # 0
      BY <1>2
    <3> HIDE DEF f, i
    <3> QED BY <2>2, <2>4, <3>1, EntryTypes, LeadingTables
  <2> HIDE DEF s2, u, i
  <2>9. Guarded(st, s2, keep)
    BY <1>1, <2>6, GuardSame
  <2>10. s3 \in Rooted /\ s3 \in FsStates /\ Guarded(st, s3, keep)
    BY <2>1, <2>7, <2>8, <2>9, WriteDirReach, ReachTypes, GuardWriteDir
  <2> HIDE DEF s3
  <2>11. s2.inodes[i].block \in Blocks
    BY <2>4, <2>7, TableTypes
  <2>12. s4 \in FsStates /\ Guarded(st, s4, keep)
    BY <2>5, <2>10, <2>11, WriteReach, ReachTypes, GuardWrite
  <2> HIDE DEF s4
  <2>13. \A v \in sys.cuts \union {s2, s3} : Guarded(st, v, keep)
    BY <1>1, <2>9, <2>10
  <2> QED BY <2>9, <2>12, <2>13, GuardFlush
<1>3. SysFileIn(sys, name, text) =
        IF ~goes THEN Outcome(FALSE, s1, sys.cuts)
        ELSE IF f = 0 /\ free_slot(t) = 0 THEN Outcome(FALSE, s2, sys.cuts \union {s2})
        ELSE FlushAndReturn(s4, sys.cuts \union {s2, s3})
  BY DEF SysFileIn
<1> HIDE DEF s1, s2, s3, s4, goes
<1>4. GuardedCall(st, Outcome(FALSE, s1, sys.cuts), keep)
  BY <1>1 DEF GuardedCall, Outcome
<1>5. goes => GuardedCall(st, Outcome(FALSE, s2, sys.cuts \union {s2}), keep)
  BY <1>1, <1>2 DEF GuardedCall, Outcome
<1> QED BY <1>2, <1>3, <1>4, <1>5

LEMMA GuardSysFile ==
    ASSUME NEW st \in Rooted, Guards(st), NEW name \in Names, NEW text \in Contents,
           NEW keep, ~keep
    PROVE  GuardedCall(st, write_sys_file(st, name, text), keep)
<1>1. GuardedCall(st, SysFileIn(SysDir(st), name, text), keep)
  BY SysDirReach, GuardSysDir, GuardSysFileIn, ReachTypes
<1> QED BY <1>1, SysFileRooted

\* What an fs_init that found no superblock has left, fs_write_passwd refuses.
LEMMA GuardWiped ==
    ASSUME NEW st \in Wiped, Guards(st), NEW hash, NEW keep, ~keep
    PROVE  GuardedCall(st, fs_write_passwd(st, hash), keep)
<1> DEFINE r == fs_write_passwd(st, hash)
<1>1. \A s \in r.cuts \union {r.final} : s.blocks = st.blocks
  BY WipedPasswd
<1>2. Guarded(st, st, keep)
  BY GuardSelf
<1> HIDE DEF r
<1>3. GuardedCall(st, r, keep)
  BY <1>1, <1>2, GuardSame DEF GuardedCall
<1> QED BY <1>3 DEF r

LEMMA SysFileRecord ==
    ASSUME NEW sys, NEW name, NEW text
    PROVE  \E ok, final, cuts : SysFileIn(sys, name, text) = Outcome(ok, final, cuts)
<1> DEFINE s1 == sys.final
           d == sys.dir
           t == load_dir_block(s1, d)
           f == find_dir_entry(t, s1.inodes, name, "file")
           i == IF f # 0 THEN t[f].inode ELSE alloc_inode_raw(s1)
           b == alloc_block_raw(s1)
           s2 == IF f # 0 THEN [s1 EXCEPT !.inodes[i].size = LengthOf[text]]
                          ELSE Claim(s1, i, b, "file", LengthOf[text])
           u == IF f # 0 THEN t ELSE WithEntry(t, name, i)
           s3 == write_dir_block(s2, d, u)
           s4 == disk_write_lba(s3, s2.inodes[i].block, TextBlock(text))
           goes == ~(d = NoDir \/ (f = 0 /\ (i = 0 \/ b = 0)))
           full == f = 0 /\ free_slot(t) = 0
<1>1. SysFileIn(sys, name, text) =
        IF ~goes THEN Outcome(FALSE, s1, sys.cuts)
        ELSE IF full THEN Outcome(FALSE, s2, sys.cuts \union {s2})
        ELSE FlushAndReturn(s4, sys.cuts \union {s2, s3})
  BY DEF SysFileIn
<1> HIDE DEF goes, full, s1, s2, s3, s4
<1>2. PICK none, halved, stored :
        /\ none = Outcome(FALSE, s1, sys.cuts)
        /\ halved = Outcome(FALSE, s2, sys.cuts \union {s2})
        /\ stored = Outcome(TRUE, Flush(s4), sys.cuts \union {s2, s3} \union {s4} \union FlushCuts(s4))
  OBVIOUS
<1>3. SysFileIn(sys, name, text) \in {none, halved, stored}
  BY <1>1, <1>2 DEF FlushAndReturn
<1> QED BY <1>2, <1>3

LEMMA SysFileGives ==
    ASSUME NEW st, NEW name, NEW text
    PROVE  \E ok, final, cuts : write_sys_file(st, name, text) = Outcome(ok, final, cuts)
<1> DEFINE root == ensure_root_dir_block(st)
           sys == SysDir(root.final)
           file == SysFileIn(sys, name, text)
<1>1. PICK ok, final, cuts : file = Outcome(ok, final, cuts)
  <2> HIDE DEF sys
  <2> QED BY SysFileRecord
<1>2. [file EXCEPT !.cuts = @ \union root.cuts] = Outcome(ok, final, cuts \union root.cuts)
  <2> DEFINE all == cuts \union root.cuts
  <2>1. file = [ok |-> ok, final |-> final, cuts |-> cuts]
    BY <1>1 DEF Outcome
  <2> HIDE DEF file, root
  <2>2. [file EXCEPT !.cuts = @ \union root.cuts] = [file EXCEPT !.cuts = all]
    BY <2>1
  <2> HIDE DEF all
  <2>3. [file EXCEPT !.cuts = all] = Outcome(ok, final, all)
    BY <2>1 DEF Outcome
  <2> QED BY <2>2, <2>3 DEF all
<1>3. write_sys_file(st, name, text) \in
          {[file EXCEPT !.cuts = @ \union root.cuts], Outcome(FALSE, root.final, root.cuts)}
  BY DEF write_sys_file, SysFileAfter
<1> HIDE DEF file, root
<1> QED BY <1>2, <1>3

LEMMA GuardFormat ==
    ASSUME NEW st \in Mountable, Guards(st), NEW keep, ~keep
    PROVE  GuardedCall(st, fs_format(st), keep)
<1> DEFINE s1 == [st EXCEPT !.sb = TRUE, !.bitmap = {},
                      !.inodes = [i \in Inodes |-> IF i = 0 THEN [NoInode EXCEPT !.type = "dir"]
                                                            ELSE NoInode]]
           r1 == [mark_block_used(s1, 1) EXCEPT !.inodes[0].block = 1]
           r2 == disk_write_lba(r1, 1, ZeroBlock)
           root == ensure_root_dir_block(s1)
           s2 == root.final
           s3 == [s2 EXCEPT !.dsb = TRUE]
           s4 == Flush(s3)
           status == write_sys_file(s4, "status", StatusFlag)
           passwd == write_sys_file(status.final, "passwd", DefaultHash)
<1>1. st \in FsStates /\ Guarded(st, st, keep)
  BY GuardSelf DEF Mountable
<1>2. s1.bitmap = {} /\ s1.inodes[0].block = 0
  BY <1>1, Numbers DEF FsStates, NoInode
<1>3. r1.blocks = st.blocks
  BY <1>1 DEF mark_block_used, FsStates
<1> HIDE DEF s1
<1>4. root = FlushAndReturn(r2, {r1})
  <2>1. alloc_block_raw(s1) = 1
    BY <1>2, FirstBlock
  <2> QED BY <1>2, <2>1 DEF ensure_root_dir_block
<1> HIDE DEF root, r1
<1>5. /\ fs_format(st).final = passwd.final
      /\ fs_format(st).cuts = root.cuts \union {s3} \union FlushCuts(s3)
                                \union status.cuts \union passwd.cuts
  <2>1. fs_format(st) = [passwd EXCEPT
            !.ok = root.ok /\ status.ok /\ passwd.ok,
            !.cuts = root.cuts \union {s3} \union FlushCuts(s3)
                         \union status.cuts \union passwd.cuts]
    BY DEF fs_format, s1, root
  <2> HIDE DEF s3, status
  <2>2. PICK ok, final, cuts : passwd = Outcome(ok, final, cuts)
    BY SysFileGives
  <2> HIDE DEF passwd
  <2> QED BY <2>1, <2>2 DEF Outcome
\* FormatOutcome says that each of these states is in FsStates.
<1>6. \A u \in fs_format(st).cuts : u \in Rooted /\ u \in FsStates
  BY FormatOutcome, ReachTypes DEF Formatting
<1>7. r1 \in FsStates /\ r2 \in FsStates /\ s2 \in FsStates /\ s3 \in FsStates /\ s4 \in Rooted
  <2>1. root.cuts = {r1} \union {r2} \union FlushCuts(r2) /\ s2 = Flush(r2)
    BY <1>4 DEF FlushAndReturn, Outcome
  <2> HIDE DEF s2
  <2>2. s2 \in root.cuts /\ s4 \in FlushCuts(s3)
    BY <2>1 DEF FlushCuts
  <2> HIDE DEF s3, s4, r2, status, passwd
  <2> QED BY <1>5, <1>6, <2>1, <2>2
<1>8. Guarded(st, s2, keep) /\ \A u \in root.cuts : Guarded(st, u, keep)
  <2>1. Guarded(st, r1, keep)
    BY <1>1, <1>3, GuardSame
  <2>2. LeadsOn(ZeroBlock.table)
    BY LeadingTables DEF ZeroBlock
  <2>3. Guarded(st, r2, keep)
    BY <1>7, <2>1, <2>2, Numbers, GuardWrite
  <2>4. GuardedCall(st, root, keep)
    <3> HIDE DEF r2
    <3>1. \A u \in {r1} : Guarded(st, u, keep)
      BY <2>1
    <3> QED BY <1>4, <1>7, <2>3, <3>1, GuardFlush
  <2> QED BY <2>4 DEF GuardedCall
<1>9. Guarded(st, s3, keep)
  <2> HIDE DEF s2
  <2>1. s3.blocks = s2.blocks
    BY <1>7 DEF FsStates
  <2> QED BY <1>8, <2>1, GuardSame
<1> HIDE DEF s3
<1>10. Guarded(st, s4, keep) /\ \A u \in FlushCuts(s3) : Guarded(st, u, keep)
  BY <1>7, <1>9, SameBlocks, GuardSame
<1> HIDE DEF s4
<1>11. "status" \in Names /\ "passwd" \in Names /\ StatusFlag \in Contents /\ DefaultHash \in Contents
  BY LayoutAssumption DEF Names, Contents
<1>12. GuardedCall(s4, status, keep) /\ status.final \in Rooted
  <2>1. Guards(s4)
    BY <1>10 DEF Guarded
  <2>2. status \in Outcomes(s4)
    BY <1>7, <1>11, SysFileOutcome
  <2> QED BY <1>7, <1>11, <2>1, <2>2, GuardSysFile, ReachTypes DEF Outcomes
<1> HIDE DEF status
<1>13. GuardedCall(status.final, passwd, keep)
  <2>1. Guards(status.final)
    BY <1>12 DEF GuardedCall, Guarded
  <2> QED BY <1>11, <1>12, <2>1, GuardSysFile
<1> HIDE DEF passwd
<1>14. \A s, u : Guarded(s, u, keep) => Guarded(st, u, keep)
  BY DEF Guarded
<1> QED BY <1>5, <1>8, <1>9, <1>10, <1>12, <1>13, <1>14 DEF GuardedCall

-----------------------------------------------------------------------------
(* What one step does to the entries, given what the call it makes does *)

FramesLead(in) ==
    \A k \in DOMAIN stack : LeadsOn(stack[k].table) /\ (in => stack[k].dir # 0)
KeepsRoot == phase' # "start" => phase' = phase /\ fs'.blocks[1] = fs.blocks[1]

\* A step that is the first of an outcome's or ends in a fault leaves this.
Guarding(keep) == Guards(fs') /\ FramesLead(keep)' /\ (keep => KeepsRoot)

LEMMA NoFramesLead ==
    ASSUME NEW keep, stack' = <<>>
    PROVE  FramesLead(keep)'
<1>1. DOMAIN <<>> = {}
  OBVIOUS
<1> QED BY <1>1 DEF FramesLead

LEMMA GuardPower ==
    ASSUME NEW s \in FsStates, Guards(s), NEW whole, LosePower(s, whole), NEW keep
    PROVE  Guarding(keep)
<1>1. PoweredOff(s).blocks = s.blocks
  BY DEF PoweredOff, FsStates
<1>2. fs' = PoweredOff(s) /\ phase' = "start" /\ stack' = <<>>
  BY DEF LosePower
<1>3. Guards(fs')
  BY <1>1, <1>2 DEF Guards
<1> QED BY <1>2, <1>3, NoFramesLead DEF Guarding, KeepsRoot

LEMMA GuardFault ==
    ASSUME NEW s \in FsStates, NEW keep, Guarded(fs, s, keep), NEW whole,
           \/ DiskError(s, whole) /\ (keep => phase' = phase)
           \/ PowerFailure(s, whole)
    PROVE  Guarding(keep)
<1>1. Guards(s)
  BY DEF Guarded
<1>2. CASE PowerFailure(s, whole)
  BY <1>1, <1>2, GuardPower DEF PowerFailure
<1>3. CASE DiskError(s, whole) /\ (keep => phase' = phase)
  <2>1. fs' = s /\ stack' = <<>>
    BY <1>3 DEF DiskError
  <2> QED BY <1>3, <2>1, NoFramesLead DEF Guarding, KeepsRoot, Guarded
<1> QED BY <1>2, <1>3

LEMMA GuardAnyCall ==
    ASSUME NEW r, r.final \in FsStates, \A s \in r.cuts : s \in FsStates,
           NEW keep, GuardedCall(fs, r, keep), Call(r)
    PROVE  Guarding(keep)
<1>1. r.final \in FsStates /\ \A s \in r.cuts : s \in FsStates
  OBVIOUS
<1>2. Guarded(fs, r.final, keep) /\ \A s \in r.cuts : Guarded(fs, s, keep)
  BY DEF GuardedCall
<1>3. CASE fs' = r.final /\ UNCHANGED <<phase, stack>>
  <2>1. stack' = <<>>
    BY <1>3 DEF Call
  <2> QED BY <1>2, <1>3, <2>1, NoFramesLead DEF Guarding, KeepsRoot, Guarded
<1>4. ASSUME NEW s \in r.cuts, NEW whole,
             \/ DiskError(s, whole) /\ UNCHANGED phase
             \/ PowerFailure(s, whole)
      PROVE  Guarding(keep)
  BY <1>1, <1>2, <1>4, GuardFault
<1> QED BY <1>3, <1>4 DEF Call

LEMMA GuardCall ==
    ASSUME NEW r \in Outcomes(fs), NEW keep, GuardedCall(fs, r, keep), Call(r)
    PROVE  Guarding(keep)
<1>1. r.final \in FsStates /\ \A s \in r.cuts : s \in FsStates
  BY ReachTypes DEF Outcomes, Reach, Rooted
<1> QED BY <1>1, GuardAnyCall

LEMMA GuardRemoveFaults ==
    ASSUME NEW cuts \in SUBSET FsStates, NEW keep,
           \A s \in cuts : Guarded(fs, s, keep), RemoveFaults(cuts)
    PROVE  Guarding(keep)
BY GuardFault DEF RemoveFaults

LEMMA GuardGoes ==
    ASSUME NEW keep, NEW s, Guarded(fs, s, keep), NEW frames, Goes(s, frames),
           \A k \in DOMAIN frames : LeadsOn(frames[k].table) /\ (keep => frames[k].dir # 0)
    PROVE  Guarding(keep)
BY DEF Goes, Guarding, Guarded, KeepsRoot, FramesLead

\* Boot and mkfs.
LEMMA GuardMount ==
    ASSUME IInv, Guards(fs), FramesLead(FALSE), Mount, NEW keep, ~keep
    PROVE  Guarding(keep)
<1> DEFINE r == fs_init(fs)
<1>1. fs \in FsStates
  BY DEF IInv, TypeOK
<1>2. r.final.blocks = fs.blocks /\ \A s \in r.cuts : s.blocks = fs.blocks /\ s \in FsStates
  <2>1. \A s \in r.cuts : s \in FsStates
    BY InitOutcome DEF IInv, Mountable
  <2> DEFINE s1 == read_superblock(fs)
             s2 == [s1 EXCEPT !.bitmap = fs.dbitmap]
  <2>2. /\ r.cuts = MountCuts(fs)
        /\ \/ r.final = [fs EXCEPT !.sb = TRUE, !.bitmap = fs.dbitmap, !.inodes = fs.dinodes]
           \/ r.final = s1
    BY DEF fs_init, Outcome
  <2>3. s1 \in FsStates /\ s1.blocks = fs.blocks
    BY <1>1, SuperblockRead DEF FsStates
  <2>4. \A s \in MountCuts(fs) : s.blocks = fs.blocks
    <3> HIDE DEF s1
    <3>1. \A bitmap : [s1 EXCEPT !.bitmap = bitmap].blocks = fs.blocks
      BY <2>3 DEF FsStates
    <3>2. \A inodes : [s2 EXCEPT !.inodes = inodes].blocks = fs.blocks
      BY <2>3 DEF FsStates
    <3>3. \A s \in MountCuts(fs) :
            \/ s = fs
            \/ \E bitmap : s = [s1 EXCEPT !.bitmap = bitmap]
            \/ \E inodes : s = [s2 EXCEPT !.inodes = inodes]
      <4> DEFINE bitmaps == IF fs.dsb THEN BitmapCuts ELSE {}
                 tables == IF fs.dsb THEN InodeCuts ELSE {}
      <4>1. MountCuts(fs) =
              {fs}
              \union {[s1 EXCEPT !.bitmap = SpliceBitmap(n, fs.dbitmap, fs.bitmap)] : n \in bitmaps}
              \union {[s2 EXCEPT !.inodes = SpliceInodes(n, fs.dinodes, s1.inodes)] : n \in tables}
        BY DEF MountCuts, s1
      <4> HIDE DEF bitmaps, tables, s2
      <4> QED BY <4>1, Zenon
    <3> HIDE DEF s2
    <3> QED BY <3>1, <3>2, <3>3
  <2> HIDE DEF r, s1
  <2>5. r.final.blocks = fs.blocks
    BY <1>1, <2>2, <2>3 DEF FsStates
  <2> QED BY <2>1, <2>2, <2>4, <2>5
<1>3. Guarded(fs, fs, keep)
  BY GuardSelf
<1> HIDE DEF r
<1>4. Guarded(fs, r.final, keep) /\ \A s \in r.cuts : Guarded(fs, s, keep)
  BY <1>2, <1>3, GuardSame
<1>5. CASE fs' = r.final /\ UNCHANGED stack
  BY <1>4, <1>5 DEF Guarding, Guarded, FramesLead
<1>6. ASSUME NEW s \in r.cuts, DiskError(s, IF phase = "start" THEN r.cuts ELSE {fs})
      PROVE  Guarding(keep)
  BY <1>2, <1>4, <1>6, GuardFault
<1> QED BY <1>5, <1>6 DEF Mount, r

LEMMA GuardFormats ==
    ASSUME IInv, Guards(fs), Format, NEW keep, ~keep
    PROVE  Guarding(keep)
<1> DEFINE r == fs_format(fs)
<1>1. fs \in Mountable /\ stack = <<>>
  BY DEF IInv, Format
<1>2. \A s \in r.cuts : s \in FsStates
  BY <1>1, FormatOutcome, ReachTypes DEF Formatting
<1>3. Guarded(fs, r.final, keep) /\ \A s \in r.cuts : Guarded(fs, s, keep)
  BY <1>1, GuardFormat DEF GuardedCall
<1> HIDE DEF r
<1>4. CASE fs' = r.final /\ UNCHANGED stack
  BY <1>1, <1>3, <1>4, NoFramesLead DEF Guarding, Guarded
<1>5. ASSUME NEW s \in r.cuts, NEW whole, DiskError(s, whole) \/ PowerFailure(s, whole)
      PROVE  Guarding(keep)
  BY <1>2, <1>3, <1>5, GuardFault
<1> QED BY <1>4, <1>5 DEF Format, r

\* rm -r writes the directories it has open, and none of them is the root if
\* the one it started in is not: what it enters is an entry's.
LEMMA GuardRemoveStep ==
    ASSUME IInv, Guards(fs), NEW keep, FramesLead(keep), RemoveStep
    PROVE  Guarding(keep)
<1>0. Running
  <2>1. Len(stack) >= 1 => stack # <<>>
    BY EmptySeq
  <2>2. \/ Running
        \/ Len(stack) > 1
        \/ Len(stack) = 1
    BY DEF RemoveStep, RemoveEnter, RemoveCurrent, RemoveLeave, RemoveDone, RemoveGivesUp
  <2>3. Len(stack) \in Nat
    BY LenProperties DEF IInv, TypeOK
  <2> QED BY <2>1, <2>2, <2>3 DEF Running
<1>1. /\ fs \in Rooted /\ fs \in FsStates /\ stack \in Seq(Frames)
      /\ Top \in Frames /\ Below \in Seq(Frames)
      /\ Top.dir \in Inodes /\ Top.table \in Tables
      /\ Top.todo # {} => Min(Top.todo) \in Slots /\ Current \in Inodes
  BY <1>0, TopTypes DEF IInv, Live, TypeOK, Frames
<1>2. Guarded(fs, fs, keep)
  BY GuardSelf
<1> DEFINE Leading(frames) ==
             \A k \in DOMAIN frames : LeadsOn(frames[k].table) /\ (keep => frames[k].dir # 0)
<1>3. /\ Len(stack) \in DOMAIN stack
      /\ LeadsOn(Top.table) /\ (keep => Top.dir # 0)
      /\ Leading(stack) /\ Leading(Below)
  <2> DEFINE n == Len(stack)
  <2>1. n \in Nat \ {0} /\ DOMAIN stack = 1 .. n
    BY <1>0, <1>1, EmptySeq, LenProperties DEF Running
  <2>2. n \in DOMAIN stack
    BY <2>1
  <2>3. Leading(stack)
    BY DEF FramesLead
  <2>4. Leading(Below)
    <3>1. 1 \in Int /\ n - 1 \in Int
      BY <2>1
    <3>2. \A k \in 1 .. n - 1 : stack[k] \in Frames
      BY <1>1, <2>1, ElementOfSeq
    <3>3. Below = SubSeq(stack, 1, n - 1)
      BY DEF Below
    <3> HIDE DEF n
    <3>4. /\ Len(Below) = IF 1 <= n - 1 THEN n - 1 - 1 + 1 ELSE 0
          /\ \A k \in 1 .. n - 1 - 1 + 1 : Below[k] = stack[1 + k - 1]
      BY <3>1, <3>2, <3>3, SubSeqProperties
    <3>5. DOMAIN Below = 1 .. Len(Below)
      BY <1>1, LenProperties
    <3>6. \A k \in DOMAIN Below : k \in DOMAIN stack /\ Below[k] = stack[k]
      BY <2>1, <3>4, <3>5
    <3> QED BY <2>3, <3>6
  <2> QED BY <2>2, <2>3, <2>4 DEF Top
<1>4. \A f \in Frames : LeadsOn(f.table) /\ (keep => f.dir # 0) =>
        Leading(Append(stack, f)) /\ Leading(Append(Below, f))
  <2>1. ASSUME NEW frames \in Seq(Frames), Leading(frames),
               NEW f \in Frames, LeadsOn(f.table), keep => f.dir # 0
        PROVE  Leading(Append(frames, f))
    <3>1. \A k \in DOMAIN Append(frames, f) :
            Append(frames, f)[k] = f \/ (k \in DOMAIN frames /\ Append(frames, f)[k] = frames[k])
      BY AppendProperties, LenProperties
    <3> QED BY <2>1, <3>1
  <2> QED BY <1>1, <1>3, <2>1
<1> DEFINE written == write_dir_block(fs, Top.dir, Top.table)
<1>5. Guarded(fs, written, keep) /\ written \in FsStates
  BY <1>1, <1>2, <1>3, GuardWriteDir, WriteDirReach, ReachTypes
<1> HIDE DEF written
<1>6. CASE RemoveEnter
  <2> DEFINE t == load_dir_block(fs, Current)
             f == Frame(Current, t, UsedSlots(t))
  <2>1. Current \in Inodes \ {0}
    BY <1>1, <1>6 DEF RemoveEnter
  <2>2. t \in Tables /\ LeadsOn(t)
    BY <1>1, <2>1, TableTypes, LoadLeads
  <2>3. UsedSlots(t) \in SUBSET Slots
    BY DEF UsedSlots
  <2>4. f \in Frames /\ LeadsOn(f.table) /\ f.dir # 0
    BY <2>1, <2>2, <2>3, FrameType DEF Frame
  <2>5. RemoveFaults({fs}) => Guarding(keep)
    BY <1>1, <1>2, GuardRemoveFaults
  <2>6. Goes(fs, Append(stack, f)) \/ RemoveFaults({fs})
    BY <1>6 DEF RemoveEnter
  <2> HIDE DEF f
  <2>7. Leading(Append(stack, f))
    BY <1>4, <2>4
  <2> QED BY <1>2, <2>5, <2>6, <2>7, GuardGoes
<1>7. CASE RemoveCurrent
  <2> DEFINE slot == Min(Top.todo)
             freed == Released(fs, Current)
             f == [Top EXCEPT !.table = Unlinked(@, slot), !.todo = @ \ {slot}, !.emptied = FALSE]
  <2>1. Current \in Inodes \ {0} /\ slot \in Slots
    BY <1>1, <1>7 DEF RemoveCurrent
  <2>2. Guarded(fs, freed.final, keep) /\ \A u \in freed.cuts : Guarded(fs, u, keep)
    BY <1>1, <2>1, GuardReleased
  <2>3. freed.cuts \in SUBSET FsStates
    BY <1>1, <2>1, ReleasedReach, ReachTypes
  <2>4. Goes(freed.final, Append(Below, f)) \/ RemoveFaults(freed.cuts)
    BY <1>7 DEF RemoveCurrent
  <2>5. f \in Frames /\ LeadsOn(f.table) /\ f.dir = Top.dir
    <3>1. Unlinked(Top.table, slot) \in Tables /\ LeadsOn(Unlinked(Top.table, slot))
      BY <1>1, <1>3, <2>1, Numbers, EntryTypes, LeadingTables
    <3> HIDE DEF slot
    <3> QED BY <1>1, <3>1 DEF Frames
  <2> HIDE DEF slot, freed, f
  <2>6. Leading(Append(Below, f))
    BY <1>3, <1>4, <2>5
  <2>7. RemoveFaults(freed.cuts) => Guarding(keep)
    BY <2>2, <2>3, GuardRemoveFaults
  <2> QED BY <2>2, <2>4, <2>6, <2>7, GuardGoes
<1>8. CASE RemoveLeave
  <2> DEFINE n == Len(Below)
             up == [Below EXCEPT ![n].emptied = TRUE]
  <2>1. Goes(written, up) \/ RemoveFaults({fs, written})
    BY <1>8 DEF RemoveLeave, written
  <2>2. \A k \in DOMAIN Below : Below[k] \in Frames
    BY <1>1, ElementOfSeq, LenProperties
  <2>3. Leading(up)
    <3>1. DOMAIN up = DOMAIN Below
      OBVIOUS
    <3>2. \A k \in DOMAIN Below : up[k].table = Below[k].table /\ up[k].dir = Below[k].dir
      BY <2>2 DEF Frames
    <3> HIDE DEF up
    <3> QED BY <1>3, <3>1, <3>2
  <2> HIDE DEF up
  <2>4. RemoveFaults({fs, written}) => Guarding(keep)
    BY <1>1, <1>2, <1>5, GuardRemoveFaults
  <2> QED BY <1>5, <2>1, <2>3, <2>4, GuardGoes
<1>9. CASE RemoveDone
  <2> DEFINE r == FlushAndReturn(written, {fs})
  <2>1. \/ fs' = r.final /\ stack' = <<>> /\ UNCHANGED phase
        \/ RemoveFaults(r.cuts)
    BY <1>9 DEF RemoveDone, written
  <2>2. GuardedCall(fs, r, keep)
    BY <1>2, <1>5, GuardFlush
  <2>3. r.cuts \in SUBSET FsStates
    <3>1. written \in Reach(fs) /\ {fs} \in SUBSET Reach(fs)
      BY <1>1, WriteDirReach, ReachSelf DEF written
    <3>2. r \in Outcomes(fs)
      BY <1>1, <3>1, FlushOutcome
    <3> QED BY <3>2, ReachTypes DEF Outcomes
  <2> HIDE DEF r
  <2>4. RemoveFaults(r.cuts) => Guarding(keep)
    BY <2>2, <2>3, GuardRemoveFaults DEF GuardedCall
  <2>5. CASE fs' = r.final /\ stack' = <<>> /\ UNCHANGED phase
    BY <2>2, <2>5, NoFramesLead DEF GuardedCall, Guarding, Guarded, KeepsRoot
  <2> QED BY <2>1, <2>4, <2>5
<1>10. CASE RemoveGivesUp
  <2>1. Leading(<<>>)
    <3>1. DOMAIN <<>> = {}
      OBVIOUS
    <3> QED BY <3>1
  <2>2. Goes(fs, <<>>)
    BY <1>10 DEF RemoveGivesUp
  <2> QED BY <1>2, <2>1, <2>2, GuardGoes
<1> QED BY <1>6, <1>7, <1>8, <1>9, <1>10 DEF RemoveStep

LEMMA GuardRemoveRecursive ==
    ASSUME IInv, Guards(fs), NEW path \in PathRecords, RemoveRecursive(path),
           NEW keep, keep => path.dir # NoName
    PROVE  Guarding(keep)
<1> DEFINE d == DirOf(fs, path)
           t == load_dir_block(fs, d)
           dirSlot == find_dir_entry(t, fs.inodes, path.name, "dir")
           s == IF dirSlot # 0 THEN dirSlot
                ELSE find_dir_entry(t, fs.inodes, path.name, "file")
           f == Frame(d, t, {s})
<1>1. phase = "ready" /\ mounted /\ Usable(fs, d) /\ Goes(fs, <<f>>)
  BY DEF RemoveRecursive
<1>2. fs \in Rooted /\ fs \in FsStates
  BY <1>1, ReachTypes DEF IInv, Live
<1>3. d \in Inodes /\ (keep => d # 0)
  BY <1>1, <1>2, GuardedDir
<1>4. LeadsOn(t)
  BY <1>2, <1>3, LoadLeads
<1>5. f.table = t /\ f.dir = d
  BY DEF Frame
<1> HIDE DEF f
<1>6. \A k \in DOMAIN <<f>> : LeadsOn(<<f>>[k].table) /\ (keep => <<f>>[k].dir # 0)
  BY <1>3, <1>4, <1>5
<1>7. Guarded(fs, fs, keep)
  BY GuardSelf
<1> QED BY <1>1, <1>6, <1>7, GuardGoes

\* A name of a file of a current directory below the root has a directory.
LEMMA InsideNamesADirectory ==
    ASSUME CwdOK, NEW arg \in Args \union RmArgs, NEW args, arg \in args, Inside(args)
    PROVE  Path(arg).dir # NoName
<1>1. arg.up = 0 /\ Len(arg.names) = 1 /\ arg.names \in Seq(Typed) /\ cwd # <<>>
  BY ArgTypes DEF Inside
<1>2. Resolved(arg) \in Seq(Typed) /\ Len(Resolved(arg)) <= 3
  BY ResolvedType
<1>3. Len(cwd) \in Nat \ {0} /\ cwd \in Seq(Typed)
  BY <1>1, EmptySeq, LenProperties DEF CwdOK
<1>4. Len(Resolved(arg)) \in 2 .. 3
  <2> DEFINE dir == Without(cwd, 0)
             m == Len(cwd)
  <2>1. Resolved(arg) = dir \o arg.names
    BY <1>1 DEF Resolved
  <2>2. dir = SubSeq(cwd, 1, m)
    BY <1>3 DEF Without
  <2>3. \A k \in 1 .. m : cwd[k] \in Typed
    BY <1>3, ElementOfSeq
  <2>4. dir \in Seq(Typed) /\ Len(dir) = m
    <3>1. 1 \in Int /\ m \in Int /\ m >= 1
      BY <1>3
    <3> HIDE DEF m, dir
    <3> QED BY <2>2, <2>3, <3>1, SubSeqProperties
  <2> HIDE DEF dir
  <2>5. Len(dir \o arg.names) = m + 1
    <3> DEFINE names == arg.names
    <3>1. names \in Seq(Typed) /\ Len(names) = 1
      BY <1>1
    <3> HIDE DEF m, names
    <3>2. Len(dir \o names) = Len(dir) + Len(names)
      BY <2>4, <3>1, ConcatProperties
    <3>3. Len(dir \o names) = m + 1
      BY <2>4, <3>1, <3>2
    <3> QED BY <3>3 DEF names
  <2> QED BY <1>2, <1>3, <2>1, <2>5
<1>5. Resolved(arg)[1] \in Names
  BY <1>2, <1>4, ElementOfSeq, TypedNames
<1>6. Path(arg).dir = Resolved(arg)[1]
  BY <1>4 DEF Path, PathOf
<1> QED BY <1>5, <1>6, LayoutAssumption

GuardInv == Guards(fs) /\ FramesLead(inside)

\* The commands, and the other steps in which the filesystem moves.
LEMMA CommandsGuard ==
    ASSUME IInv, CwdOK, Guards(fs), NEW arg \in Args \union RmArgs,
           \/ ShellMkdir(arg) \/ ShellRm(arg) \/ ShellRmR(arg)
           \/ \E text \in Texts \union {Empty} : ShellWrite(arg, text)
           \/ \E to \in Args : ShellCp(arg, to) \/ ShellMv(arg, to)
    PROVE  \E keep : (inside' <=> keep) /\ Guarding(keep)
<1>0. Guards(fs)
  OBVIOUS
<1>1. ASSUME NEW to \in Args, ShellCp(arg, to) \/ ShellMv(arg, to)
      PROVE  \E keep : (inside' <=> keep) /\ Guarding(keep)
  <2> PICK keep : keep <=> Inside({arg, to})
    OBVIOUS
  <2>1. inside' <=> keep
    BY <1>1 DEF ShellCp, ShellMv, Done
  <2>2. Path(arg) \in PathRecords /\ Path(to) \in PathRecords
    BY <1>1, PathType DEF ShellCp, ShellMv, Types
  <2>3. keep => Path(arg).dir # NoName /\ Path(to).dir # NoName
    BY InsideNamesADirectory
  <2>4. /\ mounted
        /\ \/ Call(fs_copy_path(fs, Path(arg), Path(to)))
           \/ Call(fs_rename(fs, Path(arg), Path(to)))
    BY <1>1 DEF ShellCp, ShellMv, Copy, Rename
  <2>5. fs \in Rooted
    BY <2>4 DEF Call, IInv, Live
  <2>6. ASSUME Call(fs_copy_path(fs, Path(arg), Path(to))) PROVE Guarding(keep)
    <3>1. fs_copy_path(fs, Path(arg), Path(to)) \in Outcomes(fs)
      BY <2>2, <2>5, CopyOutcome
    <3>2. GuardedCall(fs, fs_copy_path(fs, Path(arg), Path(to)), keep)
      BY <1>0, <2>2, <2>3, <2>5, GuardCopy
    <3> QED BY <2>6, <3>1, <3>2, GuardCall
  <2>7. ASSUME Call(fs_rename(fs, Path(arg), Path(to))) PROVE Guarding(keep)
    <3>1. fs_rename(fs, Path(arg), Path(to)) \in Outcomes(fs)
      BY <2>2, <2>5, RenameOutcome
    <3>2. GuardedCall(fs, fs_rename(fs, Path(arg), Path(to)), keep)
      BY <1>0, <2>2, <2>3, <2>5, GuardRename
    <3> QED BY <2>7, <3>1, <3>2, GuardCall
  <2> QED BY <2>1, <2>4, <2>6, <2>7
<1>2. ASSUME NEW text \in Texts \union {Empty},
             ShellMkdir(arg) \/ ShellWrite(arg, text) \/ ShellRm(arg) \/ ShellRmR(arg)
      PROVE  \E keep : (inside' <=> keep) /\ Guarding(keep)
  <2> PICK keep : keep <=> Inside({arg})
    OBVIOUS
  <2> DEFINE path == Path(arg)
  <2>1. inside' <=> keep
    BY <1>2 DEF ShellMkdir, ShellWrite, ShellRm, ShellRmR, Done
  <2>2. path \in PathRecords
    BY <1>2, PathType DEF ShellMkdir, ShellWrite, ShellRm, ShellRmR, Types
  <2>3. keep => path.dir # NoName
    BY InsideNamesADirectory
  <2>4. /\ mounted
        /\ \/ Call(fs_mkdir_path(fs, path))
           \/ Call(fs_write_path(fs, path, text))
           \/ Call(fs_remove_path(fs, path))
           \/ RemoveRecursive(path)
    BY <1>2 DEF ShellMkdir, ShellWrite, ShellRm, ShellRmR, Mkdir, Write, Remove, RemoveRecursive
  <2> HIDE DEF path
  <2>5. fs \in Rooted
    BY <2>4 DEF Call, RemoveRecursive, IInv, Live
  <2>6. ASSUME Call(fs_mkdir_path(fs, path)) PROVE Guarding(keep)
    <3>1. fs_mkdir_path(fs, path) \in Outcomes(fs)
      BY <2>2, <2>5, MkdirOutcome
    <3>2. GuardedCall(fs, fs_mkdir_path(fs, path), keep)
      BY <1>0, <2>2, <2>3, <2>5, GuardMkdir
    <3> QED BY <2>6, <3>1, <3>2, GuardCall
  <2>7. ASSUME Call(fs_write_path(fs, path, text)) PROVE Guarding(keep)
    <3>0. text \in Contents
      BY DEF Contents
    <3>1. fs_write_path(fs, path, text) \in Outcomes(fs)
      BY <2>2, <2>5, <3>0, WriteOutcome
    <3>2. GuardedCall(fs, fs_write_path(fs, path, text), keep)
      BY <1>0, <2>2, <2>3, <2>5, <3>0, GuardWritePath
    <3> QED BY <2>7, <3>1, <3>2, GuardCall
  <2>8. ASSUME Call(fs_remove_path(fs, path)) PROVE Guarding(keep)
    <3>1. fs_remove_path(fs, path) \in Outcomes(fs)
      BY <2>2, <2>5, RemoveOutcome
    <3>2. GuardedCall(fs, fs_remove_path(fs, path), keep)
      BY <1>0, <2>2, <2>3, <2>5, GuardRemove
    <3> QED BY <2>8, <3>1, <3>2, GuardCall
  <2>9. ASSUME RemoveRecursive(path) PROVE Guarding(keep)
    BY <2>2, <2>3, <2>9, GuardRemoveRecursive
  <2> QED BY <2>1, <2>4, <2>6, <2>7, <2>8, <2>9
<1>3. Empty \in Texts \union {Empty}
  OBVIOUS
<1> QED BY <1>1, <1>2, <1>3

LEMMA StepsGuard ==
    ASSUME IInv, CwdOK, GuardInv, ShellNext
    PROVE  \/ UNCHANGED vars /\ inside' = FALSE
           \/ \E keep : (inside' <=> keep) /\ Guarding(keep)
<1> DEFINE Good == \/ UNCHANGED vars /\ inside' = FALSE
                   \/ \E keep : (inside' <=> keep) /\ Guarding(keep)
<1> PICK no \in BOOLEAN : ~no
  OBVIOUS
<1>1. FramesLead(FALSE) /\ FramesLead(no)
  BY DEF GuardInv, FramesLead
<1>2. ASSUME ShellMount PROVE Good
  <2>1. Guarding(no) /\ inside' = FALSE
    BY <1>1, <1>2, GuardMount DEF ShellMount, GuardInv
  <2> QED BY <2>1
<1>3. ASSUME BootFormat \/ Mkfs PROVE Good
  <2>1. Guarding(no) /\ inside' = FALSE
    BY <1>3, GuardFormats DEF BootFormat, Mkfs, Formats, GuardInv
  <2> QED BY <2>1
<1>4. ASSUME PowerCycle PROVE Good
  <2>1. Guarding(no) /\ inside' = FALSE
    BY <1>4, GuardPower DEF PowerCycle, Reboot, GuardInv, IInv, TypeOK
  <2> QED BY <2>1
<1>5. ASSUME NEW hash \in Hashes, NewPassword(hash) PROVE Good
  <2>1. Call(fs_write_passwd(fs, hash)) /\ inside' = FALSE
    BY <1>5 DEF NewPassword, WritePasswd
  <2>2. Guards(fs) /\ IF fs.sb THEN fs \in Rooted ELSE fs \in Wiped
    BY <2>1 DEF Call, IInv, Live, GuardInv
  <2>3. "passwd" \in Names /\ hash \in Contents
    BY DEF Names, Contents
  <2>4. CASE fs.sb
    <3>1. GuardedCall(fs, fs_write_passwd(fs, hash), no)
      BY <2>2, <2>3, <2>4, GuardSysFile DEF fs_write_passwd
    <3>2. Guarding(no)
      BY <2>1, <2>2, <2>4, <3>1, PasswdOutcome, GuardCall
    <3> QED BY <2>1, <3>2
  <2>5. CASE ~fs.sb
    <3> DEFINE r == fs_write_passwd(fs, hash)
    <3>1. GuardedCall(fs, r, no)
      BY <2>2, <2>5, GuardWiped
    <3>2. r.final \in FsStates /\ \A s \in r.cuts : s \in FsStates
      BY <2>2, <2>5, WipedPasswd DEF Wiped
    <3> HIDE DEF r
    <3>3. Guarding(no)
      BY <2>1, <3>1, <3>2, GuardAnyCall DEF r
    <3> QED BY <2>1, <3>3
  <2> QED BY <2>4, <2>5
<1>6. ASSUME ShellRemoveStep PROVE Good
  <2> PICK keep : keep <=> inside
    OBVIOUS
  <2>1. FramesLead(keep)
    BY DEF GuardInv, FramesLead
  <2>2. Guarding(keep) /\ inside' = inside
    BY <1>6, <2>1, GuardRemoveStep DEF ShellRemoveStep, GuardInv
  <2> QED BY <2>2
<1>7. ASSUME NEW hash, Login(hash) \/ Passwd(hash) PROVE Good
  BY <1>7 DEF Login, Passwd, fsVars
<1>8. ASSUME Exit \/ Shutdown PROVE Good
  BY <1>8 DEF Exit, Shutdown, fsVars
<1>9. ASSUME NEW arg, cd(arg) PROVE Good
  BY <1>9 DEF cd, fsVars
<1>10. ASSUME NEW arg \in Args \union RmArgs,
              \/ ShellMkdir(arg) \/ ShellRm(arg) \/ ShellRmR(arg)
              \/ \E text \in Texts \union {Empty} : ShellWrite(arg, text)
              \/ \E to \in Args : ShellCp(arg, to) \/ ShellMv(arg, to)
       PROVE  Good
  BY <1>10, CommandsGuard DEF GuardInv
<1>11. ASSUME NEW arg \in Args, ShellTouch(arg) PROVE Good
  BY <1>10, <1>11 DEF ShellTouch
<1>12. ASSUME NEW arg \in RmArgs, ShellRmR(arg) PROVE Good
  BY <1>10, <1>12
<1> HIDE DEF Good
<1>13. Good
  BY <1>2, <1>3, <1>4, <1>5, <1>6, <1>7, <1>8, <1>9, <1>10, <1>11, <1>12
  DEF ShellNext, ShellStep
<1> QED BY <1>13 DEF Good

\* Such a command, and each step of an rm -r, is one of a mounted filesystem.
LEMMA InsideMounted ==
    ASSUME IInv, ShellNext, inside', phase' # "start"
    PROVE  mounted /\ mounted'
<1>1. ASSUME NEW r, Call(r) PROVE mounted' = mounted
  BY <1>1 DEF Call, PowerFailure, LosePower
<1>2. ASSUME NEW cuts, RemoveFaults(cuts) PROVE mounted' = mounted
  BY <1>2 DEF RemoveFaults, PowerFailure, LosePower
<1>3. ASSUME ShellMount \/ BootFormat \/ PowerCycle \/ Mkfs PROVE FALSE
  BY <1>3 DEF ShellMount, BootFormat, PowerCycle, Mkfs, Formats
<1>4. ASSUME NEW hash, Login(hash) \/ Passwd(hash) \/ NewPassword(hash) PROVE FALSE
  BY <1>4 DEF Login, Passwd, NewPassword
<1>5. ASSUME Exit \/ Shutdown \/ \E arg : cd(arg) PROVE FALSE
  BY <1>5 DEF Exit, Shutdown, cd
<1>6. ASSUME ShellRemoveStep PROVE mounted /\ mounted' = mounted
  <2>1. RemoveStep
    BY <1>6 DEF ShellRemoveStep
  <2>2. stack # <<>>
    <3>1. stack # <<>> \/ Len(stack) >= 1
      BY <2>1 DEF RemoveStep, RemoveEnter, RemoveCurrent, RemoveLeave, RemoveDone,
                  RemoveGivesUp, Running
    <3> QED BY <3>1
  <2>3. mounted
    BY <2>2 DEF IInv, Running
  <2>4. mounted' = mounted
    BY <1>2, <2>1 DEF RemoveStep, RemoveEnter, RemoveCurrent, RemoveLeave, RemoveDone,
                      RemoveGivesUp, Goes
  <2> QED BY <2>3, <2>4
<1>7. ASSUME NEW arg, NEW text,
             \/ ShellMkdir(arg) \/ ShellWrite(arg, text) \/ ShellTouch(arg) \/ ShellRm(arg)
             \/ \E to : ShellCp(arg, to) \/ ShellMv(arg, to)
      PROVE  mounted /\ mounted' = mounted
  BY <1>1, <1>7 DEF ShellMkdir, ShellWrite, ShellTouch, ShellRm, ShellCp, ShellMv, Mkdir, Write,
                    Remove, Copy, Rename
<1>8. ASSUME NEW arg, ShellRmR(arg) PROVE mounted /\ mounted' = mounted
  BY <1>8 DEF ShellRmR, RemoveRecursive, Goes
<1>9. \/ ShellMount \/ BootFormat \/ PowerCycle \/ Mkfs \/ Exit \/ Shutdown \/ ShellRemoveStep
      \/ \E hash : Login(hash) \/ Passwd(hash) \/ NewPassword(hash)
      \/ \E arg : cd(arg)
      \/ \E arg, text :
          \/ ShellMkdir(arg) \/ ShellWrite(arg, text) \/ ShellTouch(arg) \/ ShellRm(arg)
          \/ \E to : ShellCp(arg, to) \/ ShellMv(arg, to)
      \/ \E arg : ShellRmR(arg)
  BY DEF ShellNext, ShellStep
<1> QED BY <1>3, <1>4, <1>5, <1>6, <1>7, <1>8, <1>9

LEMMA StaysKept ==
    ASSUME IInv, IInv', CwdOK, GuardInv, [ShellNext]_shellVars
    PROVE  /\ GuardInv'
           /\ [inside' /\ phase' # "start" /\ Live => TableOf(0)' = TableOf(0)]_shellVars
<1>1. CASE UNCHANGED shellVars
  BY <1>1 DEF shellVars, fsVars, vars, userVars, GuardInv, FramesLead
<1>2. CASE UNCHANGED vars /\ inside' = FALSE
  BY <1>2 DEF vars, GuardInv, FramesLead
<1>3. ASSUME NEW keep, inside' <=> keep, Guarding(keep), ShellNext
      PROVE  GuardInv' /\ (inside' /\ phase' # "start" /\ Live => TableOf(0)' = TableOf(0))
  <2>1. GuardInv'
    BY <1>3 DEF Guarding, GuardInv, FramesLead
  <2>2. ASSUME inside', phase' # "start", Live PROVE TableOf(0)' = TableOf(0)
    <3>1. Live' /\ fs'.blocks[1] = fs.blocks[1]
      BY <1>3, <2>2 DEF Guarding, KeepsRoot, Live
    <3>2. fs \in Rooted /\ fs' \in Rooted
      BY <1>3, <2>2, <3>1, InsideMounted DEF IInv, Live
    <3>3. fs.inodes[0].block = 1 /\ fs'.inodes[0].block = 1
      BY <3>2 DEF Rooted, RootOK
    <3> QED BY <2>2, <3>1, <3>3 DEF TableOf, Inode
  <2> QED BY <2>1, <2>2
<1> QED BY <1>1, <1>2, <1>3, StepsGuard

\* k_root outlives the directory it names: a command that names files of the
\* current directory, below the root, changes no entry of the root, whatever
\* has become of the directory, of the disk and of the call itself (a fault
\* may cut it short), and rm -r keeps to that at each of its steps.
THEOREM CommandsStayInside == ShellSpec => StaysInside
<1>1. ShellInit => GuardInv
  <2>1. ASSUME ShellInit PROVE GuardInv
    <3>1. fs = BlankDisk /\ stack = <<>> /\ inside = FALSE
      BY <2>1 DEF ShellInit, Init
    <3>2. LeadsOn(ZeroBlock.table)
      BY LeadingTables DEF ZeroBlock
    <3>3. Guards(BlankDisk)
      BY <3>2 DEF BlankDisk, Guards
    <3>4. DOMAIN <<>> = {}
      OBVIOUS
    <3> QED BY <3>1, <3>3, <3>4 DEF GuardInv, FramesLead
  <2> QED BY <2>1
<1>2. ShellSpec => []GuardInv
  <2>1. IInv /\ IInv' /\ CwdOK /\ GuardInv /\ [ShellNext]_shellVars => GuardInv'
    BY StaysKept
  <2> QED BY <1>1, <2>1, ShellInvariant, PTL DEF ShellSpec
<1>3. IInv /\ IInv' /\ CwdOK /\ GuardInv /\ [ShellNext]_shellVars
        => [inside' /\ phase' # "start" /\ Live => TableOf(0)' = TableOf(0)]_shellVars
  BY StaysKept
<1> QED BY <1>2, <1>3, ShellInvariant, PTL DEF ShellSpec, StaysInside
=============================================================================
