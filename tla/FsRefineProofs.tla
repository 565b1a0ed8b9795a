--------------------------- MODULE FsRefineProofs ---------------------------
(***************************************************************************)
(* What a step of the whole system puts at risk, and what the user sees of *)
(* it, for every value of the constants: a step or a fault changes one     *)
(* file at most, storage is lost in two ways only, the readers agree with  *)
(* the tree, and the filesystem implements FileTree.                       *)
(*                                                                         *)
(* While rm -r runs, the tree is that of the directories it has open, as   *)
(* it has read them (Seen).  Between calls the files that paths lead to    *)
(* are intact, on the disk as in RAM: a call that met one that is not      *)
(* could free or overwrite what it does not mean to.                       *)
(***************************************************************************)
EXTENDS FsTreeProofs

\* The tables while rm -r runs: the disk's, but for the directories it has open.
Seen(st, frames) ==
    [d \in Inodes |->
        IF \E k \in DOMAIN frames : frames[k].dir = d
        THEN frames[CHOOSE k \in DOMAIN frames : frames[k].dir = d].table
        ELSE View(st)[d]]

\* T is what the walk sees, and R is linked in it.
Sees(st, frames, T, R) ==
    /\ T \in Views /\ Linked(Kinds(st), T, R) /\ Agrees(st, frames, T, R)
    /\ R \in SUBSET Inodes
    /\ \A k \in DOMAIN frames : frames[k].dir \in R /\ T[frames[k].dir] = frames[k].table
    /\ \A d \in Inodes : (\A k \in DOMAIN frames : frames[k].dir # d) => T[d] = View(st)[d]

LEMMA SeenOf ==
    ASSUME NEW st \in FsStates, NEW frames \in Seq(Frames), Distinct(frames)
    PROVE  /\ Seen(st, frames) \in Views
           /\ \A k \in DOMAIN frames : frames[k] \in Frames /\ frames[k].dir \in Inodes
                                       /\ Seen(st, frames)[frames[k].dir] = frames[k].table
           /\ \A d \in Inodes : (\A k \in DOMAIN frames : frames[k].dir # d)
                                  => Seen(st, frames)[d] = View(st)[d]
<1>1. View(st) \in Views
  BY ViewTypes
<1>2. \A k \in DOMAIN frames : frames[k] \in Frames
  BY LenProperties, ElementOfSeq
<1>3. \A k \in DOMAIN frames : frames[k].dir \in Inodes /\ frames[k].table \in Tables
  BY <1>2 DEF Frames
<1>4. ASSUME NEW d \in Inodes PROVE Seen(st, frames)[d] \in Tables
  BY <1>1, <1>3, <1>4 DEF Seen, Views
<1>5. Seen(st, frames) \in Views
  BY <1>4 DEF Seen, Views
<1>6. ASSUME NEW k \in DOMAIN frames PROVE Seen(st, frames)[frames[k].dir] = frames[k].table
  <2> DEFINE d == frames[k].dir
             n == CHOOSE n \in DOMAIN frames : frames[n].dir = d
  <2>1. n \in DOMAIN frames /\ frames[n].dir = d
    OBVIOUS
  <2>2. n = k
    BY <2>1 DEF Distinct
  <2>3. Seen(st, frames)[d] = frames[n].table
    BY <1>3, <2>1 DEF Seen
  <2> QED BY <2>2, <2>3
<1>7. \A d \in Inodes : (\A k \in DOMAIN frames : frames[k].dir # d)
        => Seen(st, frames)[d] = View(st)[d]
  BY DEF Seen
<1> QED BY <1>2, <1>3, <1>5, <1>6, <1>7

LEMMA SeenIs ==
    ASSUME NEW st \in Tidy, NEW frames \in Seq(Frames), Walks(st, frames)
    PROVE  \E R : Sees(st, frames, Seen(st, frames), R)
<1> PICK R : \E T \in Views : Linked(Kinds(st), T, R) /\ Agrees(st, frames, T, R)
  BY DEF Walks
<1> PICK T \in Views : Linked(Kinds(st), T, R) /\ Agrees(st, frames, T, R)
  OBVIOUS
<1> DEFINE S == Seen(st, frames)
<1>1. /\ OnDisk(st, frames, T, R) /\ InFrames(frames, T, R) /\ Nested(frames)
      /\ Distinct(frames) /\ Anchored(frames, T) /\ st \in FsStates
      /\ R \in SUBSET Inodes /\ 0 \in R
  BY DEF Agrees, Tidy, Linked
<1>2. /\ S \in Views
      /\ \A k \in DOMAIN frames : S[frames[k].dir] = frames[k].table
      /\ \A d \in Inodes : (\A k \in DOMAIN frames : frames[k].dir # d) => S[d] = View(st)[d]
  BY <1>1, SeenOf
<1> HIDE DEF S
<1>3. ASSUME NEW d \in R PROVE S[d] = T[d]
  <2>1. CASE \E k \in DOMAIN frames : frames[k].dir = d
    BY <1>1, <1>2, <2>1 DEF InFrames
  <2>2. CASE \A k \in DOMAIN frames : frames[k].dir # d
    BY <1>1, <1>2, <1>3, <2>2 DEF OnDisk
  <2> QED BY <2>1, <2>2
<1>4. Linked(Kinds(st), S, R)
  BY <1>3, SameLinked
<1>5. OnDisk(st, frames, S, R)
  BY <1>1, <1>3 DEF OnDisk
<1>6. InFrames(frames, S, R)
  BY <1>1, <1>3 DEF InFrames, InUse
<1>7. Anchored(frames, S)
  BY <1>1, <1>3 DEF Anchored, InUse
<1>8. \A k \in DOMAIN frames : frames[k].dir \in R
  BY <1>1 DEF InFrames
<1> QED BY <1>1, <1>2, <1>4, <1>5, <1>6, <1>7, <1>8 DEF Sees, Agrees, S

LEMMA SeenNone ==
    ASSUME NEW st
    PROVE  Seen(st, <<>>) = View(st)
BY DEF Seen, View

\* What the disk still has of the directories that are open: entries of what
\* has been freed.
Left(st, frames) ==
    \A k \in DOMAIN frames, s \in Slots :
        LET v == View(st)[frames[k].dir][s]
        IN  \/ v = frames[k].table[s]
            \/ frames[k].table[s].name = NoName /\ Kinds(st)[v.inode] = "none"

\* A directory below the outermost one is to be emptied; one that has been is
\* the one the innermost frame is at.
Emptied(st, frames) ==
    \A k \in DOMAIN frames :
        /\ k # 1 => \A s \in Slots : frames[k].table[s].name # NoName => s \in frames[k].todo
        /\ frames[k].emptied =>
             /\ k = Len(frames) /\ frames[k].todo # {}
             /\ \A s \in Slots :
                  View(st)[frames[k].table[Min(frames[k].todo)].inode][s].name = NoName

LEMMA LeftShadows ==
    ASSUME NEW st \in Tidy, NEW frames, Left(st, frames),
           NEW T, NEW R, Sees(st, frames, T, R)
    PROVE  Shadows(Kinds(st), View(st), T, R)
<1> SUFFICES ASSUME NEW d \in R, NEW s \in Slots
             PROVE  \/ View(st)[d][s] = T[d][s]
                    \/ T[d][s].name = NoName /\ Kinds(st)[View(st)[d][s].inode] = "none"
  BY DEF Shadows
<1>1. CASE \E k \in DOMAIN frames : frames[k].dir = d
  BY <1>1 DEF Left, Sees
<1>2. CASE \A k \in DOMAIN frames : frames[k].dir # d
  BY <1>2 DEF Sees
<1> QED BY <1>1, <1>2

-----------------------------------------------------------------------------
(* The steps of rm -r *)

Rests(K, T, K2, T2) == K2 = K /\ \E R : Linked(K, T, R) /\ Stays(K, T, K2, T2, R)
Frees(K, T, K2, T2, i) ==
    \E R : Linked(K, T, R) /\ \E d \in Inodes, k \in Slots : Drops(K, T, K2, T2, R, d, k, i)

\* The walk so far has been orderly.
Strolls(st, frames) == Walks(st, frames) /\ Left(st, frames) /\ Emptied(st, frames)

LEMMA SameRests ==
    ASSUME NEW K, NEW T, NEW R, Linked(K, T, R), NEW T2, \A d \in R : T2[d] = T[d]
    PROVE  Rests(K, T, K, T2)
BY DEF Rests, Stays

LEMMA StartStrolls ==
    ASSUME NEW st \in Orderly, NEW d \in Inodes, NEW s \in Slots,
           Walks(st, <<Frame(d, View(st)[d], {s})>>)
    PROVE  /\ Strolls(st, <<Frame(d, View(st)[d], {s})>>)
           /\ Rests(Kinds(st), View(st), Kinds(st), Seen(st, <<Frame(d, View(st)[d], {s})>>))
<1> DEFINE frames == <<Frame(d, View(st)[d], {s})>>
           S == Seen(st, frames)
<1>1. DOMAIN frames = {1} /\ frames[1].dir = d /\ frames[1].table = View(st)[d] /\ ~frames[1].emptied
  BY DEF Frame
<1>2. Left(st, frames) /\ Emptied(st, frames)
  <2> HIDE DEF frames
  <2>1. \A k \in DOMAIN frames : k = 1 /\ frames[k].dir = d /\ frames[k].table = View(st)[d] /\ ~frames[k].emptied
    BY <1>1
  <2>2. Left(st, frames)
    BY <2>1 DEF Left
  <2>3. Emptied(st, frames)
    BY <2>1 DEF Emptied
  <2> QED BY <2>2, <2>3
<1>3. \A e \in Inodes : S[e] = View(st)[e]
  <2> HIDE DEF frames
  <2>1. \A k \in DOMAIN frames : frames[k].dir = d /\ frames[k].table = View(st)[d]
    BY <1>1
  <2> QED BY <1>1, <2>1 DEF Seen
<1>4. Linked(Kinds(st), View(st), Reached(Kinds(st), View(st))) /\ Reached(Kinds(st), View(st)) \subseteq Inodes
  BY OrderlyHas
<1> HIDE DEF S, frames
<1>5. Rests(Kinds(st), View(st), Kinds(st), S)
  BY <1>3, <1>4, SameRests
<1> QED BY <1>2, <1>5 DEF Strolls, S, frames

LEMMA EnterStrolls ==
    ASSUME TypeOK, Running, fs \in Tidy, Strolls(fs, stack), Top.todo # {}, ~Top.emptied,
           fs.inodes[Current].type = "dir",
           NEW t, t = load_dir_block(fs, Current), NEW todo, todo = UsedSlots(t)
    PROVE  /\ Strolls(fs, Append(stack, Frame(Current, t, todo)))
           /\ Rests(Kinds(fs), Seen(fs, stack), Kinds(fs),
                    Seen(fs, Append(stack, Frame(Current, t, todo))))
<1> DEFINE n == Len(stack)
           c == Current
           frame == Frame(c, t, todo)
           frames == Append(stack, frame)
           T == Seen(fs, stack)
           S == Seen(fs, frames)
<1>1. stack \in Seq(Frames) /\ Walks(fs, stack) /\ fs \in FsStates /\ fs.sb
      /\ Left(fs, stack) /\ Emptied(fs, stack)
  BY DEF TypeOK, Tidy, Strolls, Walks
<1>2. PICK R : Sees(fs, stack, T, R)
  BY <1>1, SeenIs
<1>3. T \in Views /\ Linked(Kinds(fs), T, R) /\ Agrees(fs, stack, T, R) /\ R \in SUBSET Inodes
  BY <1>2 DEF Sees
<1> HIDE DEF T
<1>4. /\ n \in Nat \ {0} /\ DOMAIN stack = 1 .. n /\ Top = stack[n]
  BY <1>3, AtEntry
<1>5. c \in Inodes /\ \A k \in DOMAIN stack : stack[k].dir # c
  BY <1>3, NotOpen
<1>6. Walks(fs, frames)
  BY <1>1, EnterWalks
<1>7. t = View(fs)[c] /\ t \in Tables
  BY <1>1, <1>5, ViewTypes
<1>8. /\ DOMAIN frames = 1 .. n + 1
      /\ \A k \in 1 .. n : frames[k] = stack[k]
      /\ frames[n + 1] = frame /\ Len(frames) = n + 1
  BY <1>1, <1>4, AppendProperties
<1>9. frame.dir = c /\ frame.table = t /\ frame.todo = todo /\ ~frame.emptied
  BY DEF Frame
<1>10. \A k \in DOMAIN frames : k \in DOMAIN stack \/ k = n + 1
  BY <1>4, <1>8
<1>11. frames \in Seq(Frames)
  <2>1. todo \in SUBSET Slots
    BY DEF UsedSlots
  <2>2. frame \in Frames
    BY <1>5, <1>7, <2>1, FrameType
  <2> QED BY <1>1, <2>2, AppendProperties
<1> HIDE DEF c, n, frame, frames, S
<1>12. /\ \A k \in DOMAIN frames : S[frames[k].dir] = frames[k].table
       /\ \A d \in Inodes : (\A k \in DOMAIN frames : frames[k].dir # d) => S[d] = View(fs)[d]
  <2>1. Distinct(frames)
    BY <1>6 DEF Walks, Agrees
  <2> QED BY <1>1, <1>11, <2>1, SeenOf DEF S
<1>13. \A d \in R : S[d] = T[d]
  <2> SUFFICES ASSUME NEW d \in R PROVE S[d] = T[d]
    OBVIOUS
  <2>1. CASE \E k \in DOMAIN stack : stack[k].dir = d
    <3>1. PICK k \in DOMAIN stack : stack[k].dir = d
      BY <2>1
    <3>2. frames[k] = stack[k] /\ k \in DOMAIN frames
      BY <1>4, <1>8
    <3> QED BY <1>2, <1>12, <3>1, <3>2 DEF Sees
  <2>2. CASE d = c
    <3>1. T[c] = View(fs)[c]
      BY <1>2, <1>5 DEF Sees
    <3>2. n + 1 \in DOMAIN frames
      BY <1>4, <1>8
    <3> QED BY <1>7, <1>8, <1>9, <1>12, <2>2, <3>1, <3>2
  <2>3. CASE d # c /\ \A k \in DOMAIN stack : stack[k].dir # d
    <3>1. \A k \in DOMAIN frames : frames[k].dir # d
      BY <1>4, <1>8, <1>9, <1>10, <2>3
    <3> QED BY <1>2, <1>3, <1>12, <2>3, <3>1 DEF Sees
  <2> QED BY <2>1, <2>2, <2>3
<1>14. Rests(Kinds(fs), T, Kinds(fs), S)
  BY <1>3, <1>13, SameRests
<1>15. Left(fs, frames)
  BY <1>1, <1>4, <1>7, <1>8, <1>9, <1>10 DEF Left
<1>16. Emptied(fs, frames)
  <2>1. \A s \in Slots : t[s].name # NoName => s \in todo
    BY DEF UsedSlots
  <2>2. \A k \in DOMAIN stack : ~stack[k].emptied
    BY <1>1, <1>4 DEF Emptied, n
  <2>3. \A k \in DOMAIN stack : k # 1 => \A s \in Slots : stack[k].table[s].name # NoName => s \in stack[k].todo
    BY <1>1 DEF Emptied
  <2> QED BY <1>4, <1>8, <1>9, <1>10, <2>1, <2>2, <2>3 DEF Emptied
<1> QED BY <1>6, <1>14, <1>15, <1>16 DEF Strolls, T, S, frames, frame, c

LEMMA CurrentStrolls ==
    ASSUME TypeOK, Running, fs \in Tidy, Strolls(fs, stack), Top.todo # {},
           Top.emptied \/ fs.inodes[Current].type = "file",
           NEW slot, slot = Min(Top.todo),
           NEW frame, frame = [Top EXCEPT !.table = Unlinked(@, slot), !.todo = @ \ {slot},
                                          !.emptied = FALSE],
           NEW s, s = Released(fs, Current).final
    PROVE  /\ Strolls(s, Append(Below, frame))
           /\ Frees(Kinds(fs), Seen(fs, stack), Kinds(s), Seen(s, Append(Below, frame)), Current)
<1> DEFINE n == Len(stack)
           d == Top.dir
           c == Current
           frames == Append(Below, frame)
           T == Seen(fs, stack)
           S == Seen(s, frames)
           w == Unlinked(Top.table, slot)
<1>1. stack \in Seq(Frames) /\ Walks(fs, stack) /\ fs \in FsStates /\ fs.sb
      /\ Left(fs, stack) /\ Emptied(fs, stack) /\ Top \in Frames
  BY TopTypes DEF TypeOK, Tidy, Strolls, Walks
<1>2. PICK R : Sees(fs, stack, T, R)
  BY <1>1, SeenIs
<1>3. T \in Views /\ Linked(Kinds(fs), T, R) /\ Agrees(fs, stack, T, R) /\ R \in SUBSET Inodes
  BY <1>2 DEF Sees
<1> HIDE DEF T
<1>4. /\ n \in Nat \ {0} /\ DOMAIN stack = 1 .. n /\ Top = stack[n]
      /\ d \in R /\ T[d] = Top.table /\ Top.todo \in SUBSET Slots
  BY <1>3, AtEntry
<1>5. /\ slot \in Slots /\ InUse(T, d, slot) /\ c = T[d][slot].inode
      /\ c \in Inodes /\ \A k \in DOMAIN stack : stack[k].dir # c
      /\ Kinds(fs)[c] # "none"
  BY <1>3, NotOpen
<1>6. Top.table \in Tables /\ w \in Tables
  BY <1>1, <1>5, BlockTypes, EntryTypes DEF Frames, Unlinked, Tables
<1>7. w[slot].name = NoName /\ \A r \in Slots : r # slot => w[r] = T[d][r]
  BY <1>4, <1>5, <1>6 DEF Unlinked, NoEntry, Tables
<1>8. /\ frame.dir = d /\ frame.table = w /\ frame.todo = Top.todo \ {slot}
      /\ ~frame.emptied /\ frame \in Frames
  BY <1>1, <1>6 DEF Frames
<1>9. /\ DOMAIN frames = 1 .. n /\ frames[n] = frame
      /\ \A k \in 1 .. n - 1 : frames[k] = stack[k]
  BY <1>8, Replaced
<1>10. Walks(s, frames)
  BY <1>1, CurrentWalks, Zenon
<1>11. c \in Inodes /\ fs.inodes[c].type # "none"
  BY <1>1, <1>5, ViewTypes
<1>12. /\ Kinds(s) = [Kinds(fs) EXCEPT ![c] = "none"]
       /\ \A e \in Inodes : Kinds(fs)[e] # "none" /\ e # c => View(s)[e] = View(fs)[e]
  BY <1>1, <1>11, ReleasedView
<1>13. frames \in Seq(Frames)
  <2>1. Below \in Seq(Frames)
    BY <1>1, TopTypes
  <2> QED BY <1>8, <2>1, AppendProperties
<1>14. s \in FsStates /\ s.sb
  <2>1. Distinct(frames) /\ s.sb
    BY <1>10 DEF Walks, Agrees
  <2>2. s \in FsStates
    BY <1>1, <1>11, ReleasedView DEF Tidy
  <2> QED BY <2>1, <2>2
<1> HIDE DEF n, d, c, frames, S, w
<1>15. /\ \A k \in DOMAIN frames : S[frames[k].dir] = frames[k].table
       /\ \A e \in Inodes : (\A k \in DOMAIN frames : frames[k].dir # e) => S[e] = View(s)[e]
  <2>1. Distinct(frames)
    BY <1>10 DEF Walks, Agrees
  <2> QED BY <1>13, <1>14, <2>1, SeenOf DEF S
<1>16. Kinds(fs) \in [Inodes -> Kind] /\ \A e \in R : Kinds(fs)[e] # "none"
  BY <1>1, <1>3, ViewTypes DEF Linked
<1>17. \A k \in DOMAIN stack : /\ frames[k].dir = stack[k].dir
                               /\ stack[k].dir \in R /\ stack[k].dir # c
                               /\ T[stack[k].dir] = stack[k].table
                               /\ k # n => frames[k] = stack[k]
  <2>1. \A k \in DOMAIN stack : stack[k].dir \in R /\ T[stack[k].dir] = stack[k].table
    BY <1>2 DEF Sees
  <2>2. ASSUME NEW k \in DOMAIN stack PROVE frames[k].dir = stack[k].dir /\ (k # n => frames[k] = stack[k])
    <3>1. k = n \/ k \in 1 .. n - 1
      BY <1>4, <2>2
    <3>2. k = n => frames[k].dir = d /\ stack[k] = Top
      BY <1>4, <1>8, <1>9
    <3>3. k = n => frames[k].dir = stack[k].dir
      BY <3>2 DEF d
    <3>4. k \in 1 .. n - 1 => frames[k] = stack[k]
      BY <1>9
    <3> QED BY <3>1, <3>3, <3>4
  <2> QED BY <1>5, <2>1, <2>2
<1>18. ASSUME NEW e \in R \ {c}, e # d PROVE S[e] = T[e]
  <2>1. CASE \E k \in DOMAIN stack : stack[k].dir = e
    <3>1. PICK k \in DOMAIN stack : stack[k].dir = e
      BY <2>1
    <3>2. k # n
      <4>1. stack[n].dir = d
        BY <1>4 DEF d
      <4> QED BY <1>18, <3>1, <4>1
    <3> QED BY <1>4, <1>9, <1>15, <1>17, <3>1, <3>2
  <2>2. CASE \A k \in DOMAIN stack : stack[k].dir # e
    <3>1. \A k \in DOMAIN frames : frames[k].dir # e
      BY <1>4, <1>9, <1>17, <2>2
    <3>2. S[e] = View(s)[e] /\ T[e] = View(fs)[e] /\ Kinds(fs)[e] # "none"
      BY <1>2, <1>3, <1>15, <1>16, <1>18, <2>2, <3>1 DEF Sees
    <3> QED BY <1>3, <1>12, <1>18, <3>2
  <2> QED BY <2>1, <2>2
<1>19. S[d] = w
  <2>1. n \in DOMAIN frames
    BY <1>4, <1>9
  <2> QED BY <1>8, <1>9, <1>15, <2>1
<1>20. Kinds(fs)[c] = "dir" => \A r \in Slots : ~InUse(T, c, r)
  <2> SUFFICES ASSUME Kinds(fs)[c] = "dir" PROVE \A r \in Slots : ~InUse(T, c, r)
    OBVIOUS
  <2>1. fs.inodes[c].type # "file"
    BY <1>1, <1>11, ViewTypes
  <2>2. Top.emptied
    BY <2>1 DEF c
  <2>3. n \in DOMAIN stack /\ stack[n].emptied /\ stack[n].table = T[d] /\ stack[n].todo = Top.todo
    BY <1>4, <2>2
  <2>4. \A r \in Slots : View(fs)[stack[n].table[Min(stack[n].todo)].inode][r].name = NoName
    BY <1>1, <2>3 DEF Emptied
  <2>5. stack[n].table[Min(stack[n].todo)].inode = c
    BY <1>5, <2>3
  <2>6. T[c] = View(fs)[c]
    BY <1>2, <1>5 DEF Sees
  <2> QED BY <2>4, <2>5, <2>6 DEF InUse
<1>21. Drops(Kinds(fs), T, Kinds(s), S, R, d, slot, c)
  BY <1>3, <1>4, <1>5, <1>7, <1>12, <1>16, <1>18, <1>19, <1>20 DEF Drops
<1>22. Frees(Kinds(fs), T, Kinds(s), S, c)
  BY <1>3, <1>4, <1>5, <1>21 DEF Frees
<1>23. \A k \in DOMAIN stack : View(s)[stack[k].dir] = View(fs)[stack[k].dir]
  BY <1>3, <1>12, <1>16, <1>17
<1>24. Left(s, frames)
  <2> SUFFICES ASSUME NEW k \in DOMAIN stack, NEW r \in Slots
               PROVE  \/ View(s)[frames[k].dir][r] = frames[k].table[r]
                      \/ /\ frames[k].table[r].name = NoName
                         /\ Kinds(s)[View(s)[frames[k].dir][r].inode] = "none"
    BY <1>4, <1>9 DEF Left
  <2> DEFINE v == View(fs)[stack[k].dir][r]
  <2>1. View(s)[frames[k].dir][r] = v
    BY <1>17, <1>23
  <2>2. \/ v = stack[k].table[r]
        \/ stack[k].table[r].name = NoName /\ Kinds(fs)[v.inode] = "none"
    BY <1>1 DEF Left
  <2> HIDE DEF v
  <2>3. \A j : Kinds(fs)[j] = "none" => Kinds(s)[j] = "none"
    BY <1>5, <1>12, <1>16
  <2>4. CASE k # n
    BY <1>17, <2>1, <2>2, <2>3, <2>4
  <2>5. CASE k = n
    <3>1. frames[k].table = w /\ stack[k].table = T[d]
      BY <1>4, <1>8, <1>9, <2>5
    <3>2. CASE r = slot
      <4>1. v = T[d][slot]
        BY <1>5, <2>2, <3>1, <3>2 DEF InUse
      <4>2. Kinds(s)[c] = "none"
        BY <1>5, <1>12, <1>16
      <4> QED BY <1>5, <1>7, <2>1, <3>1, <3>2, <4>1, <4>2
    <3>3. CASE r # slot
      BY <1>7, <2>1, <2>2, <2>3, <3>1, <3>3
    <3> QED BY <3>2, <3>3
  <2> QED BY <2>4, <2>5
<1>25. Emptied(s, frames)
  <2> SUFFICES ASSUME NEW k \in DOMAIN stack
               PROVE  /\ k # 1 => \A r \in Slots : frames[k].table[r].name # NoName => r \in frames[k].todo
                      /\ ~frames[k].emptied
    BY <1>4, <1>9 DEF Emptied
  <2>1. k # 1 => \A r \in Slots : stack[k].table[r].name # NoName => r \in stack[k].todo
    BY <1>1 DEF Emptied
  <2>2. CASE k # n
    <3>1. ~stack[k].emptied
      BY <1>1, <2>2 DEF Emptied, n
    <3> QED BY <1>17, <2>1, <2>2, <3>1
  <2>3. CASE k = n
    <3>1. /\ frames[k].table = w /\ stack[k].table = T[d] /\ stack[k].todo = Top.todo
          /\ frames[k].todo = Top.todo \ {slot} /\ ~frames[k].emptied
      BY <1>4, <1>8, <1>9, <2>3
    <3> QED BY <1>7, <2>1, <3>1
  <2> QED BY <2>2, <2>3
<1> QED BY <1>10, <1>22, <1>24, <1>25 DEF Strolls, T, S, frames, c

LEMMA LeaveStrolls ==
    ASSUME TypeOK, Running, fs \in Tidy, Strolls(fs, stack), Len(stack) > 1, Top.todo = {},
           NEW s, s = write_dir_block(fs, Top.dir, Top.table),
           NEW last, last = Len(Below)
    PROVE  /\ Strolls(s, [Below EXCEPT ![last].emptied = TRUE])
           /\ Rests(Kinds(fs), Seen(fs, stack), Kinds(s), Seen(s, [Below EXCEPT ![last].emptied = TRUE]))
<1> DEFINE n == Len(stack)
           d == Top.dir
           frames == [Below EXCEPT ![last].emptied = TRUE]
           T == Seen(fs, stack)
           S == Seen(s, frames)
<1>1. stack \in Seq(Frames) /\ Walks(fs, stack) /\ fs \in FsStates /\ fs.sb
      /\ Left(fs, stack) /\ Emptied(fs, stack) /\ Top \in Frames
  BY TopTypes DEF TypeOK, Tidy, Strolls, Walks
<1>2. PICK R : Sees(fs, stack, T, R)
  BY <1>1, SeenIs
<1>3. T \in Views /\ Linked(Kinds(fs), T, R) /\ Agrees(fs, stack, T, R) /\ R \in SUBSET Inodes
      /\ Distinct(stack) /\ Nested(stack)
  BY <1>2 DEF Sees, Agrees
<1> HIDE DEF T
<1>4. /\ n \in Nat \ {0} /\ DOMAIN stack = 1 .. n /\ Top = stack[n]
      /\ d \in R /\ T[d] = Top.table /\ n > 1
  BY <1>3, AtEntry
<1>5. Walks(s, frames)
  BY <1>1, LeaveWalks, Zenon
<1>6. /\ last = n - 1 /\ DOMAIN frames = 1 .. n - 1 /\ Len(frames) = n - 1
      /\ frames \in Seq(Frames)
      /\ \A k \in 1 .. n - 1 : /\ frames[k].dir = stack[k].dir
                               /\ frames[k].table = stack[k].table
                               /\ frames[k].todo = stack[k].todo
                               /\ frames[k].emptied = (k = last \/ stack[k].emptied)
  <2>1. Below \in Seq(Frames)
    BY <1>1, TopTypes
  <2> DEFINE m == Len(Below)
             whole == Append(Below, Top)
  <2>2. /\ m = n - 1 /\ DOMAIN Below = 1 .. n - 1
        /\ \A k \in 1 .. n - 1 : Below[k] = stack[k]
    <3>1. DOMAIN whole = 1 .. n /\ \A k \in 1 .. n - 1 : whole[k] = stack[k]
      BY <1>1, <2>1, Replaced
    <3>2. DOMAIN whole = 1 .. m + 1 /\ \A k \in 1 .. m : whole[k] = Below[k]
      BY <1>1, <2>1, AppendProperties
    <3>3. m \in Nat /\ DOMAIN Below = 1 .. m
      BY <2>1, LenProperties
    <3> HIDE DEF m, n, whole
    <3>4. m = n - 1
      <4>1. n \in Nat \ {0} /\ n \in 1 .. m + 1 /\ m + 1 \in 1 .. n
        BY <1>4, <3>1, <3>2, <3>3
      <4> QED BY <3>3, <4>1
    <3> QED BY <3>1, <3>2, <3>3, <3>4
  <2>3. last = n - 1
    BY <2>2
  <2>4. \A k \in 1 .. n - 1 : Below[k] \in Frames
    BY <2>1, <2>2, ElementOfSeq
  <2> HIDE DEF n
  <2>5. frames = [k \in 1 .. n - 1 |-> frames[k]]
    BY <2>2
  <2>6. \A k \in 1 .. n - 1 :
           /\ frames[k].dir = stack[k].dir
           /\ frames[k].table = stack[k].table
           /\ frames[k].todo = stack[k].todo
           /\ frames[k].emptied = (k = last \/ stack[k].emptied)
           /\ frames[k] \in Frames
    BY <2>2, <2>3, <2>4 DEF Frames
  <2> HIDE DEF frames
  <2>7. n - 1 \in Nat /\ frames \in [1 .. n - 1 -> Frames]
    BY <1>4, <2>5, <2>6
  <2>8. frames \in Seq(Frames) /\ Len(frames) = n - 1 /\ DOMAIN frames = 1 .. n - 1
    BY <2>7
  <2> QED BY <2>3, <2>6, <2>8
<1>7. Alike(fs, s, {d}) /\ View(s)[d] = Top.table
  <2>1. d \in Inodes /\ fs.inodes[d].type # "none"
    BY <1>1, <1>3, <1>4, ViewTypes DEF Linked
  <2> DEFINE t == Top.table
  <2>2. t \in Tables /\ s = write_dir_block(fs, d, t)
    BY <1>1 DEF Frames
  <2>3. fs \in FsStates /\ fs.sb
    BY <1>1
  <2> HIDE DEF d, t, n, frames, S
  <2>4. Alike(fs, s, {d}) /\ View(s)[d] = t
    BY <2>1, <2>2, <2>3, WriteDirView
  <2> QED BY <2>4 DEF t
<1>8. /\ s.sb /\ s \in FsStates /\ Kinds(s) = Kinds(fs)
      /\ \A e \in R : e # d => View(s)[e] = View(fs)[e]
  <2>1. \A e \in R : e \in Inodes /\ fs.inodes[e].type # "none"
    BY <1>1, <1>3, ViewTypes DEF Linked
  <2> QED BY <1>7, <2>1 DEF Alike, Tidy
<1> HIDE DEF n, d, frames, S
<1>9. /\ \A k \in DOMAIN frames : S[frames[k].dir] = frames[k].table
      /\ \A e \in Inodes : (\A k \in DOMAIN frames : frames[k].dir # e) => S[e] = View(s)[e]
  <2>1. Distinct(frames)
    BY <1>5 DEF Walks, Agrees
  <2> QED BY <1>6, <1>8, <2>1, SeenOf DEF S
<1>10. \A k \in DOMAIN stack : /\ stack[k].dir \in R /\ T[stack[k].dir] = stack[k].table
                               /\ k # n <=> stack[k].dir # d
  BY <1>2, <1>3, <1>4 DEF Sees, Distinct, d
<1>11. \A e \in R : S[e] = T[e]
  <2> SUFFICES ASSUME NEW e \in R PROVE S[e] = T[e]
    OBVIOUS
  <2>1. CASE \E k \in DOMAIN frames : frames[k].dir = e
    <3>1. PICK k \in DOMAIN frames : frames[k].dir = e
      BY <2>1
    <3>2. k \in DOMAIN stack
      BY <1>4, <1>6
    <3> QED BY <1>6, <1>9, <1>10, <3>1, <3>2
  <2>2. CASE \A k \in DOMAIN frames : frames[k].dir # e
    <3>1. S[e] = View(s)[e]
      BY <1>3, <1>9, <2>2
    <3>2. CASE e = d
      BY <1>4, <1>7, <3>1, <3>2
    <3>3. CASE e # d
      <4>1. ASSUME NEW k \in DOMAIN stack PROVE stack[k].dir # e
        <5>1. k = n \/ k \in DOMAIN frames
          BY <1>4, <1>6
        <5> QED BY <1>6, <1>10, <2>2, <3>3, <5>1
      <4> QED BY <1>2, <1>3, <1>8, <3>1, <3>3, <4>1 DEF Sees
    <3> QED BY <3>2, <3>3
  <2> QED BY <2>1, <2>2
<1>12. Rests(Kinds(fs), T, Kinds(s), S)
  BY <1>3, <1>8, <1>11, SameRests
<1>13. \A k \in DOMAIN frames : k \in DOMAIN stack /\ k # n /\ stack[k].dir \in R /\ stack[k].dir # d
  BY <1>4, <1>6, <1>10
<1>14. Left(s, frames)
  BY <1>1, <1>6, <1>8, <1>13 DEF Left
<1>15. Emptied(s, frames)
  <2> SUFFICES ASSUME NEW k \in DOMAIN frames
               PROVE  /\ k # 1 => \A r \in Slots : frames[k].table[r].name # NoName => r \in frames[k].todo
                      /\ frames[k].emptied =>
                           /\ k = Len(frames) /\ frames[k].todo # {}
                           /\ \A r \in Slots :
                                View(s)[frames[k].table[Min(frames[k].todo)].inode][r].name = NoName
    BY DEF Emptied
  <2>1. k # 1 => \A r \in Slots : frames[k].table[r].name # NoName => r \in frames[k].todo
    BY <1>1, <1>6, <1>13 DEF Emptied
  <2>2. frames[k].emptied => k = last /\ k = Len(frames)
    <3>1. ~stack[k].emptied
      BY <1>1, <1>13 DEF Emptied, n
    <3>2. frames[k].emptied = (k = last \/ stack[k].emptied)
      BY <1>6
    <3> QED BY <1>6, <3>1, <3>2
  <2>3. k = last => /\ frames[k].todo # {}
                    /\ \A r \in Slots :
                         View(s)[frames[k].table[Min(frames[k].todo)].inode][r].name = NoName
    <3> SUFFICES ASSUME k = last
                 PROVE  /\ frames[k].todo # {}
                        /\ \A r \in Slots :
                             View(s)[frames[k].table[Min(frames[k].todo)].inode][r].name = NoName
      OBVIOUS
    <3>1. n \in DOMAIN stack /\ n # 1 /\ n - 1 = k
      BY <1>4, <1>6
    <3>2. stack[k].todo # {} /\ stack[k].table[Min(stack[k].todo)].inode = stack[n].dir
      BY <1>3, <3>1 DEF Nested
    <3>3. \A r \in Slots : stack[n].table[r].name # NoName => r \in stack[n].todo
      BY <1>1, <3>1 DEF Emptied
    <3>4. \A r \in Slots : Top.table[r].name = NoName
      BY <1>4, <3>3
    <3>5. stack[n].dir = d
      BY <1>4 DEF d
    <3>6. frames[k].todo = stack[k].todo /\ frames[k].table = stack[k].table
      BY <1>6
    <3> QED BY <1>7, <3>2, <3>4, <3>5, <3>6
  <2> QED BY <2>1, <2>2, <2>3
<1> QED BY <1>5, <1>12, <1>14, <1>15 DEF Strolls, T, S, frames

LEMMA DoneStrolls ==
    ASSUME TypeOK, Running, fs \in Tidy, Strolls(fs, stack), Len(stack) = 1,
           NEW s, s = write_dir_block(fs, Top.dir, Top.table)
    PROVE  /\ Flush(s) \in Orderly
           /\ Rests(Kinds(fs), Seen(fs, stack), Kinds(Flush(s)), View(Flush(s)))
<1> DEFINE d == Top.dir
           T == Seen(fs, stack)
<1>1. stack \in Seq(Frames) /\ Walks(fs, stack) /\ fs \in FsStates /\ fs.sb /\ Top \in Frames
  BY TopTypes DEF TypeOK, Tidy, Strolls, Walks
<1>2. PICK R : Sees(fs, stack, T, R)
  BY <1>1, SeenIs
<1>3. T \in Views /\ Linked(Kinds(fs), T, R) /\ Agrees(fs, stack, T, R) /\ R \in SUBSET Inodes
  BY <1>2 DEF Sees, Agrees
<1> HIDE DEF T
<1>4. /\ DOMAIN stack = {1} /\ Top = stack[1] /\ d \in R /\ T[d] = Top.table
  BY <1>3, AtEntry
<1>5. Flush(s) \in Orderly
  BY <1>1, DoneOrderly, Zenon
<1>6. Alike(fs, s, {d}) /\ View(s)[d] = Top.table
  <2>1. d \in Inodes /\ fs.inodes[d].type # "none"
    BY <1>1, <1>3, <1>4, ViewTypes DEF Linked
  <2> DEFINE t == Top.table
  <2>2. t \in Tables /\ s = write_dir_block(fs, d, t)
    BY <1>1 DEF Frames
  <2>3. fs \in FsStates /\ fs.sb
    BY <1>1
  <2> HIDE DEF d, t
  <2>4. Alike(fs, s, {d}) /\ View(s)[d] = t
    BY <2>1, <2>2, <2>3, WriteDirView
  <2> QED BY <2>4 DEF t
<1>7. /\ s.sb /\ s \in Tidy /\ Kinds(s) = Kinds(fs)
      /\ \A e \in R : e # d => View(s)[e] = View(fs)[e]
  <2>1. \A e \in R : e \in Inodes /\ fs.inodes[e].type # "none"
    BY <1>1, <1>3, ViewTypes DEF Linked
  <2> QED BY <1>6, <2>1 DEF Alike
<1>8. Kinds(Flush(s)) = Kinds(s) /\ View(Flush(s)) = View(s)
  <2>1. Spares(s, s, {}) /\ \A c \in {} : Spares(s, c, {})
    BY SparesSelf
  <2> QED BY <1>7, <2>1, TouchesFlush
<1>9. \A e \in R : View(s)[e] = T[e]
  <2> SUFFICES ASSUME NEW e \in R PROVE View(s)[e] = T[e]
    OBVIOUS
  <2>1. CASE e = d
    BY <1>4, <1>6, <2>1
  <2>2. CASE e # d
    <3>1. \A k \in DOMAIN stack : stack[k].dir # e
      BY <1>4, <2>2
    <3> QED BY <1>2, <1>3, <1>7, <2>2, <3>1 DEF Sees
  <2> QED BY <2>1, <2>2
<1>10. Rests(Kinds(fs), T, Kinds(Flush(s)), View(Flush(s)))
  <2> DEFINE K2 == Kinds(Flush(s))
             T2 == View(Flush(s))
  <2>1. K2 = Kinds(fs) /\ \A e \in R : T2[e] = T[e]
    BY <1>7, <1>8, <1>9
  <2> HIDE DEF K2, T2
  <2> QED BY <1>3, <2>1, SameRests DEF K2, T2
<1> QED BY <1>5, <1>10 DEF T

-----------------------------------------------------------------------------
(* The files that can be reached are intact: disk and RAM agree on them.   *)

Held(st, frames) ==
    /\ Strolls(st, frames)
    /\ \A i \in FileSet(Kinds(st), Seen(st, frames)) : Intact(st, i)

\* From one state of a walk to the next: nothing of the tree changes, or i goes.
Walked(st, frames, s, frames2, i) ==
    \/ /\ Rests(Kinds(st), Seen(st, frames), Kinds(s), Seen(s, frames2))
       /\ Spares(st, s, {})
    \/ /\ Frees(Kinds(st), Seen(st, frames), Kinds(s), Seen(s, frames2), i)
       /\ Spares(st, s, {i})

LEMMA StrollsSees ==
    ASSUME NEW st \in Tidy, NEW frames \in Seq(Frames), Strolls(st, frames)
    PROVE  /\ Seen(st, frames) \in Views
           /\ \E R \in SUBSET Inodes : Linked(Kinds(st), Seen(st, frames), R)
           /\ Kinds(st) \in [Inodes -> Kind]
<1>1. PICK R : Sees(st, frames, Seen(st, frames), R)
  BY SeenIs DEF Strolls
<1>2. st \in FsStates
  BY DEF Tidy
<1> QED BY <1>1, <1>2, ViewTypes DEF Sees

LEMMA NeatHeld ==
    ASSUME NEW st \in Neat
    PROVE  Held(st, <<>>)
<1>1. Walks(st, <<>>)
  BY OrderlyWalks DEF Neat
<1>2. Left(st, <<>>) /\ Emptied(st, <<>>)
  BY DEF Left, Emptied
<1>3. Seen(st, <<>>) = View(st)
  BY SeenNone
<1> QED BY <1>1, <1>2, <1>3 DEF Held, Strolls, Neat

LEMMA HeldNeat ==
    ASSUME NEW st \in Tidy, Held(st, <<>>)
    PROVE  st \in Neat
<1>1. st \in Orderly
  BY WalksOrderly DEF Held, Strolls
<1>2. Seen(st, <<>>) = View(st)
  BY SeenNone
<1> QED BY <1>1, <1>2 DEF Held, Neat

\* What a step of a walk does to what can be reached.
Paces(K, T, K2, T2, i) ==
    \/ /\ Rests(K, T, K2, T2) /\ K2 = K
       /\ Reached(K2, T2) = Reached(K, T) /\ FileSet(K2, T2) = FileSet(K, T)
    \/ /\ Frees(K, T, K2, T2, i)
       /\ K2[i] = "none" /\ \A j \in Inodes \ {i} : K2[j] = K[j]
       /\ Reached(K2, T2) = Reached(K, T) \ {i} /\ FileSet(K2, T2) = FileSet(K, T) \ {i}

KeepsFiles(st, frames, s, frames2, i) ==
    LET files == FileSet(Kinds(st), Seen(st, frames))
        files2 == FileSet(Kinds(s), Seen(s, frames2))
    IN  \/ Spares(st, s, {}) /\ files2 = files
        \/ Spares(st, s, {i}) /\ files2 = files \ {i}

LEMMA WalkedSets ==
    ASSUME NEW st \in Tidy, NEW frames \in Seq(Frames), Strolls(st, frames),
           NEW s, NEW frames2, Seen(s, frames2) \in Views,
           NEW i, Walked(st, frames, s, frames2, i)
    PROVE  /\ Paces(Kinds(st), Seen(st, frames), Kinds(s), Seen(s, frames2), i)
           /\ KeepsFiles(st, frames, s, frames2, i)
<1> DEFINE K == Kinds(st)
           T == Seen(st, frames)
           K2 == Kinds(s)
           T2 == Seen(s, frames2)
<1>1. T \in Views /\ T2 \in Views
  BY StrollsSees
<1>2. \/ Rests(K, T, K2, T2) /\ Spares(st, s, {})
      \/ Frees(K, T, K2, T2, i) /\ Spares(st, s, {i})
  BY DEF Walked
<1> SUFFICES /\ Paces(K, T, K2, T2, i)
             /\ \/ Spares(st, s, {}) /\ FileSet(K2, T2) = FileSet(K, T)
                \/ Spares(st, s, {i}) /\ FileSet(K2, T2) = FileSet(K, T) \ {i}
  BY DEF KeepsFiles
<1> HIDE DEF K, T, K2, T2
<1>3. CASE Rests(K, T, K2, T2) /\ Spares(st, s, {})
  <2>1. PICK R : Linked(K, T, R) /\ Stays(K, T, K2, T2, R)
    BY <1>3 DEF Rests
  <2>2. Reached(K2, T2) = Reached(K, T) /\ FileSet(K2, T2) = FileSet(K, T)
    BY <1>1, <2>1, StaysSets
  <2>3. K2 = K
    BY <1>3 DEF Rests
  <2> QED BY <1>3, <2>2, <2>3 DEF Paces
<1>4. CASE Frees(K, T, K2, T2, i) /\ Spares(st, s, {i})
  <2>1. PICK R, d, k : Linked(K, T, R) /\ Drops(K, T, K2, T2, R, d, k, i)
    BY <1>4 DEF Frees
  <2>2. Reached(K2, T2) = Reached(K, T) \ {i} /\ FileSet(K2, T2) = FileSet(K, T) \ {i}
    BY <1>1, <2>1, DropsSets
  <2>3. K2[i] = "none" /\ \A j \in Inodes \ {i} : K2[j] = K[j]
    BY <2>1 DEF Drops
  <2> QED BY <1>4, <2>2, <2>3 DEF Paces
<1> QED BY <1>2, <1>3, <1>4

\* A file that a walk can reach is one in use.
LEMMA StrollsFiles ==
    ASSUME NEW st \in Tidy, NEW frames \in Seq(Frames), Strolls(st, frames)
    PROVE  \A j \in FileSet(Kinds(st), Seen(st, frames)) :
              j \in Inodes \ {0} /\ st.inodes[j].type = "file"
<1> DEFINE K == Kinds(st)
           T == Seen(st, frames)
<1>1. T \in Views
  BY StrollsSees
<1>2. PICK R : Linked(K, T, R)
  BY StrollsSees
<1>3. \A j \in Inodes : K[j] = st.inodes[j].type
  BY DEF Kinds
<1> HIDE DEF K, T
<1>4. \A j \in FileSet(K, T) : j \in Inodes \ {0} /\ K[j] = "file"
  BY <1>1, <1>2, FileSetIs
<1>5. \A j \in FileSet(K, T) : j \in Inodes \ {0} /\ st.inodes[j].type = "file"
  BY <1>3, <1>4
<1> QED BY <1>5 DEF K, T

LEMMA HeldOn ==
    ASSUME NEW st \in Tidy, NEW frames \in Seq(Frames), Held(st, frames),
           NEW s, NEW frames2, Strolls(s, frames2), Seen(s, frames2) \in Views,
           NEW i, Walked(st, frames, s, frames2, i)
    PROVE  Held(s, frames2)
<1> DEFINE K == Kinds(st)
           T == Seen(st, frames)
           K2 == Kinds(s)
           T2 == Seen(s, frames2)
<1>1. Strolls(st, frames) /\ \A j \in FileSet(K, T) : Intact(st, j)
  BY DEF Held
<1>2. \A j \in FileSet(K, T) : j \in Inodes /\ st.inodes[j].type = "file"
  BY <1>1, StrollsFiles
<1>3. \/ Spares(st, s, {}) /\ FileSet(K2, T2) = FileSet(K, T)
      \/ Spares(st, s, {i}) /\ FileSet(K2, T2) = FileSet(K, T) \ {i}
  <2>1. KeepsFiles(st, frames, s, frames2, i)
    BY <1>1, WalkedSets, Zenon
  <2> QED BY <2>1 DEF KeepsFiles
<1> HIDE DEF K, T, K2, T2
<1>4. ASSUME NEW j \in FileSet(K2, T2) PROVE Intact(s, j)
  <2>1. CASE Spares(st, s, {}) /\ FileSet(K2, T2) = FileSet(K, T)
    <3>1. j \in Inodes \ {} /\ st.inodes[j].type = "file" /\ Intact(st, j)
      BY <1>1, <1>2, <1>4, <2>1
    <3> QED BY <2>1, <3>1, SparedIntact
  <2>2. CASE Spares(st, s, {i}) /\ FileSet(K2, T2) = FileSet(K, T) \ {i}
    <3>1. j \in Inodes \ {i} /\ st.inodes[j].type = "file" /\ Intact(st, j)
      BY <1>1, <1>2, <1>4, <2>2
    <3> QED BY <2>2, <3>1, SparedIntact
  <2> QED BY <1>3, <2>1, <2>2
<1> QED BY <1>4 DEF Held, K2, T2

\* A step of rm -r goes on, and nothing of the tree changes but that at most one
\* inode goes; or it is cut short, and harms one file at most.
GoesOn(i) ==
    /\ Walked(fs, stack, fs', stack', i) /\ Strolls(fs', stack')
    /\ UNCHANGED <<phase, dirty>>
IsCut(i) ==
    \E cuts \in SUBSET FsStates : RemoveFaults(cuts) /\ \A s \in cuts : Spares(fs, s, {i})

LEMMA RemoveStepDoes ==
    ASSUME IInv, BInv, ~dirty, Strolls(fs, stack), RemoveStep
    PROVE  \E i \in Inodes : GoesOn(i) \/ IsCut(i)
<1>1. Running
  <2>1. \/ Running
        \/ Len(stack) > 1
        \/ Len(stack) = 1
    BY DEF RemoveStep, RemoveEnter, RemoveCurrent, RemoveLeave, RemoveDone, RemoveGivesUp
  <2>2. stack \in Seq(Frames)
    BY DEF IInv, TypeOK
  <2>3. Len(stack) \in Nat /\ (Len(stack) >= 1 => stack # <<>>)
    BY <2>2, LenProperties, EmptySeq
  <2> QED BY <2>1, <2>3 DEF Running
<1>2. phase = "ready" /\ TypeOK /\ fs \in Tidy /\ fs \in FsStates /\ Walks(fs, stack) /\ fs.sb
      /\ stack \in Seq(Frames)
  BY <1>1 DEF IInv, BInv, Whole, Live, Tidy, Strolls, Walks, TypeOK
<1>3. PICK R : \E T \in Views : Linked(Kinds(fs), T, R) /\ Agrees(fs, stack, T, R)
  BY <1>2 DEF Walks
<1>4. PICK T \in Views : Linked(Kinds(fs), T, R) /\ Agrees(fs, stack, T, R)
  BY <1>3
<1>5. Top.dir \in Inodes /\ fs.inodes[Top.dir].type = "dir" /\ Top.table \in Tables
  <2>1. Top.dir \in R
    BY <1>1, <1>2, <1>4, AtEntry
  <2>2. R \subseteq Inodes /\ \A d \in R : Kinds(fs)[d] = "dir"
    BY <1>4 DEF Linked
  <2> QED BY <1>1, <1>2, <2>1, <2>2, ViewTypes, TopTypes DEF Frames
<1>6. Top.todo # {} => Current \in Inodes /\ fs.inodes[Current].type # "none" /\ Current # 0
  <2> SUFFICES ASSUME Top.todo # {}
               PROVE  Current \in Inodes /\ fs.inodes[Current].type # "none" /\ Current # 0
    OBVIOUS
  <2>1. Current \in Inodes \ {0} /\ Kinds(fs)[Current] # "none"
    BY <1>1, <1>2, <1>4, NotOpen
  <2> QED BY <1>2, <2>1, ViewTypes
<1> DEFINE s == write_dir_block(fs, Top.dir, Top.table)
           t == load_dir_block(fs, Current)
           entered == Append(stack, Frame(Current, t, UsedSlots(t)))
           slot == Min(Top.todo)
           frame == [Top EXCEPT !.table = Unlinked(@, slot), !.todo = @ \ {slot},
                                !.emptied = FALSE]
           freed == Released(fs, Current)
           n == Len(Below)
           left == [Below EXCEPT ![n].emptied = TRUE]
           r == FlushAndReturn(s, {fs})
<1>7. Spares(fs, s, {}) /\ Spares(fs, fs, {})
  <2>1. Spares(fs, write_dir_block(fs, Top.dir, Top.table), {})
    BY <1>2, <1>5, SparesDir
  <2> QED BY <2>1, SparesSelf
<1>8. /\ 0 \in Inodes /\ s \in FsStates /\ r.cuts \in SUBSET FsStates
      /\ RemoveCurrent => freed.cuts \in SUBSET FsStates
  <2>1. fs \in Rooted
    BY <1>2 DEF IInv, Live
  <2>2. Reach(fs) \subseteq FsStates /\ {fs} \in SUBSET Reach(fs)
    BY <2>1, ReachTypes, ReachSelf
  <2>3. write_dir_block(fs, Top.dir, Top.table) \in Reach(fs)
    BY <1>2, <1>5, <2>1, WriteDirReach
  <2>4. FlushAndReturn(write_dir_block(fs, Top.dir, Top.table), {fs}) \in Outcomes(fs)
    BY <2>1, <2>2, <2>3, FlushOutcome
  <2>5. ASSUME RemoveCurrent PROVE Released(fs, Current).cuts \in SUBSET Reach(fs)
    <3>1. Current \in Inodes \ {0}
      BY <1>6, <2>5 DEF RemoveCurrent
    <3> QED BY <2>1, <3>1, ReleasedReach
  <2> QED BY <2>2, <2>3, <2>4, <2>5, Numbers DEF Outcomes
<1>9. ASSUME NEW u, NEW frames, Goes(u, frames) PROVE fs' = u /\ stack' = frames /\ UNCHANGED <<phase, dirty>>
  BY <1>9 DEF Goes
<1>10. ASSUME RemoveEnter PROVE GoesOn(0) \/ RemoveFaults({fs})
  <2>1. Top.todo # {} /\ ~Top.emptied /\ fs.inodes[Current].type = "dir"
    BY <1>10 DEF RemoveEnter
  <2>2. Strolls(fs, entered) /\ Rests(Kinds(fs), Seen(fs, stack), Kinds(fs), Seen(fs, entered))
    BY <1>1, <1>2, <2>1, EnterStrolls
  <2>3. Goes(fs, entered) \/ RemoveFaults({fs})
    BY <1>10 DEF RemoveEnter
  <2> HIDE DEF entered
  <2> QED BY <1>7, <1>9, <2>2, <2>3 DEF Walked, GoesOn
<1>11. ASSUME RemoveCurrent PROVE Current \in Inodes /\ (GoesOn(Current) \/ IsCut(Current))
  <2>1. Top.todo # {} /\ (Top.emptied \/ fs.inodes[Current].type = "file")
        /\ (Goes(freed.final, Append(Below, frame)) \/ RemoveFaults(freed.cuts))
    BY <1>11 DEF RemoveCurrent
  <2> DEFINE after2 == Append(Below, frame)
             c == Current
  <2>2. Strolls(freed.final, after2) /\ Frees(Kinds(fs), Seen(fs, stack), Kinds(freed.final), Seen(freed.final, after2), c)
    BY <1>1, <1>2, <2>1, CurrentStrolls, Zenon
  <2>3. c \in Inodes /\ fs.inodes[c].type # "none" /\ freed = Released(fs, c)
    BY <1>6, <2>1
  <2> HIDE DEF freed, after2, c
  <2>4. Spares(fs, freed.final, {c}) /\ \A u \in freed.cuts : Spares(fs, u, {c})
    BY <1>2, <2>3, SparesFree
  <2>5. Goes(freed.final, after2) \/ RemoveFaults(freed.cuts)
    BY <2>1 DEF after2
  <2>6. CASE Goes(freed.final, after2)
    BY <1>9, <2>2, <2>3, <2>4, <2>6 DEF Walked, GoesOn, c
  <2>7. CASE RemoveFaults(freed.cuts)
    BY <1>8, <1>11, <2>3, <2>4, <2>7 DEF IsCut, c, freed
  <2> QED BY <2>5, <2>6, <2>7
<1>12. ASSUME RemoveLeave PROVE GoesOn(0) \/ RemoveFaults({fs, s})
  <2>1. Len(stack) > 1 /\ Top.todo = {} /\ (Goes(s, left) \/ RemoveFaults({fs, s}))
    BY <1>12 DEF RemoveLeave
  <2>2. Strolls(s, left) /\ Rests(Kinds(fs), Seen(fs, stack), Kinds(s), Seen(s, left))
    BY <1>1, <1>2, <2>1, LeaveStrolls
  <2> HIDE DEF s, left
  <2> QED BY <1>7, <1>9, <2>1, <2>2 DEF Walked, GoesOn
<1>13. ASSUME RemoveDone
       PROVE  GoesOn(0) \/ (RemoveFaults(r.cuts) /\ \A u \in r.cuts : Spares(fs, u, {}))
  <2>1. /\ Len(stack) = 1
        /\ \/ fs' = r.final /\ stack' = <<>> /\ UNCHANGED <<phase, dirty>>
           \/ RemoveFaults(r.cuts)
    BY <1>13 DEF RemoveDone
  <2>2. Flush(s) \in Orderly /\ Rests(Kinds(fs), Seen(fs, stack), Kinds(Flush(s)), View(Flush(s)))
    BY <1>1, <1>2, <2>1, DoneStrolls
  <2>3. s \in Tidy /\ s.sb
    <3>1. fs.inodes[Top.dir].type # "none"
      BY <1>5
    <3> DEFINE d == Top.dir
               w == Top.table
    <3>2. d \in Inodes /\ fs.inodes[d].type # "none" /\ w \in Tables /\ s = write_dir_block(fs, d, w)
      BY <1>5, <3>1
    <3> HIDE DEF d, w, s
    <3>3. Alike(fs, s, {d})
      BY <1>2, <3>2, WriteDirView
    <3> QED BY <3>3 DEF Alike
  <2> HIDE DEF s
  <2>4. \A c \in {fs} : Spares(fs, c, {})
    BY <1>7
  <2>5. /\ r.final = Flush(s) /\ Spares(fs, r.final, {}) /\ \A u \in r.cuts : Spares(fs, u, {})
    <3>1. Touches(fs, FlushAndReturn(s, {fs}), {}) /\ FlushAndReturn(s, {fs}).final = Flush(s)
      BY <1>7, <2>3, <2>4, TouchesFlush
    <3> QED BY <3>1 DEF Touches
  <2> HIDE DEF r
  <2>6. Strolls(r.final, <<>>) /\ Seen(r.final, <<>>) = View(r.final)
    <3>1. Left(r.final, <<>>) /\ Emptied(r.final, <<>>)
      BY DEF Left, Emptied
    <3> QED BY <2>2, <2>5, <3>1, OrderlyWalks, SeenNone DEF Strolls
  <2> QED BY <2>1, <2>2, <2>5, <2>6 DEF Walked, GoesOn
<1>14. ~RemoveGivesUp
  <2> SUFFICES ASSUME RemoveGivesUp PROVE FALSE
    OBVIOUS
  <2>1. Top.todo # {}
    BY DEF RemoveGivesUp
  <2>2. fs.inodes[Current].block # 0
    BY <1>2, <1>6, <2>1, OwnBlock
  <2> QED BY <1>6, <2>1, <2>2 DEF RemoveGivesUp
<1> HIDE DEF s, freed, r
<1>15. CASE RemoveEnter
  <2>1. Spares(fs, fs, {0})
    BY SparesSelf
  <2>2. RemoveFaults({fs}) => IsCut(0)
    BY <1>2, <2>1 DEF IsCut
  <2> QED BY <1>8, <1>10, <1>15, <2>2
<1>16. CASE RemoveCurrent
  BY <1>11, <1>16
<1>17. CASE RemoveLeave
  <2>1. Spares(fs, fs, {0}) /\ Spares(fs, s, {0})
    <3>1. {} \subseteq {0}
      OBVIOUS
    <3> QED BY <1>7, <3>1, SparesMore
  <2>2. RemoveFaults({fs, s}) => IsCut(0)
    BY <1>2, <1>8, <2>1 DEF IsCut
  <2> QED BY <1>8, <1>12, <1>17, <2>2
<1>18. CASE RemoveDone
  <2>1. \A u \in r.cuts : Spares(fs, u, {}) => Spares(fs, u, {0})
    BY SparesMore
  <2>2. RemoveFaults(r.cuts) /\ (\A u \in r.cuts : Spares(fs, u, {})) => IsCut(0)
    BY <1>8, <2>1 DEF IsCut
  <2> QED BY <1>8, <1>13, <1>18, <2>2
<1> QED BY <1>14, <1>15, <1>16, <1>17, <1>18 DEF RemoveStep

-----------------------------------------------------------------------------
(* The inductive invariant: LInv, and more of it.                          *)

EInv == ~dirty =>
    /\ Live => Held(fs, stack)
    /\ ~Live /\ fs.dsb => Mounted(fs) \in Neat

LEMMA LiveNeat ==
    ASSUME BInv, EInv, ~dirty, Live, stack = <<>>
    PROVE  fs \in Neat
<1>1. fs \in Tidy /\ Held(fs, <<>>)
  BY DEF BInv, Whole, EInv
<1> QED BY <1>1, HeldNeat

\* The entries on the disk a format has made.
LEMMA FreshEntries ==
    ASSUME NEW st, FreshDisk(st), NEW K, K = Kinds(st), NEW T, T = View(st)
    PROVE  /\ T \in Views /\ Linked(K, T, Reached(K, T))
           /\ \A i \in Inodes : K[i] # "none" => i \in {0, 1, 2, 3}
           /\ \A s \in Slots, kind \in {"file", "dir"} :
                /\ Leads(K, T, 0, s, kind) => s = 1 /\ kind = "dir" /\ T[0][s].inode = 1
                /\ Leads(K, T, 1, s, kind) =>
                     /\ kind = "file"
                     /\ \/ s = 1 /\ T[1][s].inode = 2
                        \/ s = 2 /\ T[1][s].inode = 3
           /\ Leads(K, T, 0, 1, "dir") /\ T[0][1] = [name |-> "sys", inode |-> 1]
           /\ Leads(K, T, 1, 1, "file") /\ T[1][1] = [name |-> "status", inode |-> 2]
           /\ Leads(K, T, 1, 2, "file") /\ T[1][2] = [name |-> "passwd", inode |-> 3]
           /\ 0 \in Inodes /\ 1 \in Inodes /\ 1 \in Slots /\ 2 \in Slots
<1>1. /\ 0 \in Inodes /\ 1 \in Inodes /\ 2 \in Inodes /\ 3 \in Inodes
      /\ st.inodes[0].block = 1 /\ st.inodes[1].block = 2
      /\ \A i \in Inodes : i < 4 => i \in {0, 1, 2, 3}
  <2>1. /\ 0 \in Inodes /\ 1 \in Inodes /\ 2 \in Inodes /\ 3 \in Inodes
        /\ 0 < 4 /\ 1 < 4 /\ 0 + 1 = 1 /\ 1 + 1 = 2
        /\ \A i \in Inodes : i < 4 => i \in {0, 1, 2, 3}
    BY LayoutAssumption DEF Inodes
  <2> QED BY <2>1 DEF FreshDisk, Filled
<1>2. K[0] = "dir" /\ K[1] = "dir" /\ K[2] = "file" /\ K[3] = "file"
  BY <1>1 DEF FreshDisk, Kinds
<1>3. T[0] = SysTable /\ T[1] = PasswdTable
  BY <1>1 DEF FreshDisk, View
<1>4. \A i \in Inodes : K[i] # "none" => i \in {0, 1, 2, 3}
  <2>1. \A i \in Inodes : K[i] = st.inodes[i].type
    BY DEF Kinds
  <2>2. \A i \in Inodes : ~(i < 4) => st.inodes[i].type = "none"
    BY DEF FreshDisk, Filled
  <2> QED BY <1>1, <2>1, <2>2
<1>5. st \in Orderly
  BY FreshOrderly
<1>6. T \in Views /\ Linked(K, T, Reached(K, T))
  BY <1>5, OrderlyHas
<1> HIDE DEF FreshDisk
<1>7. \A s \in Slots, kind \in {"file", "dir"} :
         Leads(K, T, 0, s, kind) => s = 1 /\ kind = "dir" /\ T[0][s].inode = 1
  BY <1>2, <1>3, SysNames DEF Leads, InUse
<1>8. \A s \in Slots, kind \in {"file", "dir"} :
         Leads(K, T, 1, s, kind) =>
            /\ kind = "file"
            /\ \/ s = 1 /\ T[1][s].inode = 2
               \/ s = 2 /\ T[1][s].inode = 3
  BY <1>2, <1>3, SysNames DEF Leads, InUse
<1>9. /\ Leads(K, T, 0, 1, "dir")
      /\ Leads(K, T, 1, 1, "file")
      /\ Leads(K, T, 1, 2, "file")
      /\ 1 \in Slots /\ 2 \in Slots
  BY <1>2, <1>3, SysNames DEF Leads, InUse
<1>10. /\ T[0][1] = [name |-> "sys", inode |-> 1]
       /\ T[1][1] = [name |-> "status", inode |-> 2]
       /\ T[1][2] = [name |-> "passwd", inode |-> 3]
  BY <1>3, SysTables
<1> HIDE DEF InUse
<1> QED BY <1>1, <1>4, <1>6, <1>7, <1>8, <1>9, <1>10

\* What can be reached on it.
LEMMA FreshSets ==
    ASSUME NEW st, FreshDisk(st), NEW K, K = Kinds(st), NEW T, T = View(st)
    PROVE  /\ Reached(K, T) = {0, 1} /\ FileSet(K, T) = {2, 3}
           /\ \A i \in Inodes : K[i] # "none" => i \in {0, 1, 2, 3}
<1>1. /\ T \in Views /\ Linked(K, T, Reached(K, T))
      /\ \A i \in Inodes : K[i] # "none" => i \in {0, 1, 2, 3}
      /\ \A s \in Slots : Leads(K, T, 0, s, "dir") => T[0][s].inode = 1
      /\ \A s \in Slots : ~Leads(K, T, 1, s, "dir") /\ ~Leads(K, T, 0, s, "file")
      /\ \A s \in Slots : Leads(K, T, 1, s, "file") => T[1][s].inode \in {2, 3}
      /\ Leads(K, T, 0, 1, "dir") /\ T[0][1].inode = 1
      /\ Leads(K, T, 1, 1, "file") /\ T[1][1].inode = 2
      /\ Leads(K, T, 1, 2, "file") /\ T[1][2].inode = 3
      /\ 1 \in Slots /\ 2 \in Slots
  <2>1. T[0][1].inode = 1 /\ T[1][1].inode = 2 /\ T[1][2].inode = 3
    BY FreshEntries
  <2> QED BY <2>1, FreshEntries
<1>2. Reached(K, T) \subseteq {0, 1}
  <2> DEFINE S == {0, 1}
  <2>1. 0 \in S /\ \A d \in S, s \in Slots : Leads(K, T, d, s, "dir") => T[d][s].inode \in S
    BY <1>1
  <2> HIDE DEF S
  <2>2. Reached(K, T) \subseteq S
    BY <1>1, <2>1, ReachedLeast
  <2> QED BY <2>2 DEF S
<1>3. Reached(K, T) = {0, 1}
  BY <1>1, <1>2, ReachedClosed
<1>4. 2 \in FileSet(K, T) /\ 3 \in FileSet(K, T)
  BY <1>1, <1>3, FileSetIs
<1>5. \A i \in FileSet(K, T) : i \in {2, 3}
  <2>1. \A i \in FileSet(K, T) : \E d \in Reached(K, T), s \in Slots :
            Leads(K, T, d, s, "file") /\ i = T[d][s].inode
    BY <1>1, FileSetIs
  <2> QED BY <1>1, <1>3, <2>1
<1> QED BY <1>1, <1>3, <1>4, <1>5

LEMMA FreshNeat ==
    ASSUME NEW st, FreshDisk(st), Synced(st)
    PROVE  st \in Neat
<1>1. FileSet(Kinds(st), View(st)) = {2, 3}
  BY FreshSets
<1>2. 2 \in Inodes /\ 3 \in Inodes
  BY LayoutAssumption DEF Inodes
<1>3. Intact(st, 2) /\ Intact(st, 3)
  BY DEF Intact, Synced, FreshDisk, TextBlock
<1>4. st \in Orderly
  BY FreshOrderly
<1> QED BY <1>1, <1>3, <1>4 DEF Neat

LEMMA PowerNeat ==
    ASSUME NEW s, NEW whole, ~dirty /\ s \in whole => s \in Neat, LosePower(s, whole)
    PROVE  EInv'
<1>1. phase' = "start" /\ fs' = PoweredOff(s) /\ ~Live'
  BY DEF LosePower, Live
<1>2. ASSUME ~dirty' PROVE s \in Neat /\ Synced(s)
  BY <1>2 DEF LosePower
<1>3. ASSUME ~dirty' PROVE Mounted(PoweredOff(s)) \in Neat
  <2>1. s \in FsStates
    BY <1>2, <1>3 DEF Neat, Orderly, Tidy
  <2> QED BY <1>2, <1>3, <2>1, MountedSame
<1> QED BY <1>1, <1>3 DEF EInv

LEMMA ErrorNeat ==
    ASSUME NEW s, NEW whole, DiskError(s, whole), phase' \in {"reinit", "ready"},
           ~dirty /\ s \in whole => s \in Neat
    PROVE  EInv'
<1>1. fs' = s /\ stack' = <<>>
  BY DEF DiskError
<1>2. ~dirty' => ~dirty /\ s \in whole
  BY DEF DiskError
<1>3. ~dirty' => Held(s, <<>>)
  BY <1>2, NeatHeld
<1>4. Live'
  BY DEF Live
<1> QED BY <1>1, <1>3, <1>4 DEF EInv

LEMMA MountNeat ==
    ASSUME IInv, BInv, EInv, Mount
    PROVE  EInv'
<1> DEFINE r == fs_init(fs)
           none == read_superblock(fs)
<1>1. /\ fs \in FsStates /\ phase \in {"start", "reinit"} /\ fs.dsb \in BOOLEAN
      /\ stack = <<>>
  BY DEF IInv, TypeOK, FsStates, Mount, Running
<1>2. /\ r.cuts = MountCuts(fs) /\ r.ok = fs.dsb
      /\ r.final = IF fs.dsb THEN Mounted(fs) ELSE none
  BY <1>1 DEF fs_init, Outcome, Mounted
<1>3. none.dsb = fs.dsb
  BY <1>1, SuperblockRead DEF FsStates
<1>4. ~dirty /\ phase = "reinit" => Synced(fs) /\ fs.dsb
  BY DEF BInv, Whole, Synced
<1>5. ~dirty /\ fs.dsb => Mounted(fs) \in Neat
  <2>1. ~dirty /\ phase = "reinit" => fs \in Neat /\ Mounted(fs) = fs
    BY <1>1, <1>4, LiveNeat, MountedSame DEF Live
  <2> QED BY <1>1, <2>1 DEF EInv, Live
<1> HIDE DEF r, none
<1>6. CASE /\ fs' = r.final
           /\ phase' = IF r.ok THEN "ready"
                       ELSE IF phase = "start" THEN "format" ELSE "ready"
           /\ UNCHANGED <<dirty, stack>>
  <2>1. CASE fs.dsb
    <3>1. fs' = Mounted(fs) /\ phase' = "ready" /\ dirty' = dirty /\ stack' = <<>>
      BY <1>1, <1>2, <1>6, <2>1
    <3>2. ~dirty' => Held(fs', stack')
      BY <1>5, <2>1, <3>1, NeatHeld
    <3> QED BY <3>1, <3>2 DEF EInv, Live
  <2>2. CASE ~fs.dsb
    <3>1. fs' = none /\ ~fs'.dsb /\ dirty' = dirty
      BY <1>2, <1>3, <1>6, <2>2
    <3>2. ~dirty => phase' = "format"
      BY <1>1, <1>2, <1>4, <1>6, <2>2
    <3> QED BY <3>1, <3>2 DEF EInv, Live
  <2> QED BY <2>1, <2>2
<1>7. ASSUME NEW s \in r.cuts, DiskError(s, IF phase = "start" THEN r.cuts ELSE {fs}),
             phase' = (IF phase = "start" THEN "format" ELSE "ready")
      PROVE  EInv'
  <2>1. fs' = s /\ stack' = <<>> /\ (~dirty' => ~dirty)
    BY <1>7 DEF DiskError
  <2>2. s \in MountCuts(fs)
    BY <1>2, <1>7
  <2>3. Mounted(s) = Mounted(fs) /\ s.dsb = fs.dsb
    BY <1>1, <2>2, MountedSame, CutsKeep
  <2>4. CASE phase = "start"
    BY <1>5, <1>7, <2>1, <2>3, <2>4 DEF EInv, Live
  <2>5. CASE phase = "reinit"
    <3>1. ~dirty' => s = fs
      BY <1>7, <2>5 DEF DiskError
    <3>2. ~dirty' => fs \in Neat
      BY <1>1, <2>1, <2>5, LiveNeat DEF Live
    <3>3. ~dirty' => Held(fs', stack')
      BY <2>1, <3>1, <3>2, NeatHeld
    <3> QED BY <1>7, <2>5, <3>3 DEF EInv, Live
  <2> QED BY <1>1, <2>4, <2>5
<1> QED BY <1>6, <1>7 DEF Mount, r

LEMMA FormatNeat ==
    ASSUME IInv, Format
    PROVE  EInv'
<1> DEFINE r == fs_format(fs)
<1>1. fs \in FsStates /\ fs \in Mountable /\ phase \in {"format", "ready"} /\ stack = <<>>
  BY DEF IInv, TypeOK, Format
<1>2. r.final \in Neat
  BY <1>1, FormatMakes, FormatOutcome, FreshNeat
<1> HIDE DEF r
<1>3. CASE fs' = r.final /\ phase' = "reinit" /\ UNCHANGED stack
  BY <1>1, <1>2, <1>3, NeatHeld DEF EInv, Live
<1>4. ASSUME NEW s, DiskError(s, {r.final}),
             phase' = (IF phase = "format" THEN "reinit" ELSE "ready")
      PROVE  EInv'
  BY <1>2, <1>4, ErrorNeat
<1>5. ASSUME NEW s, PowerFailure(s, {r.final})
      PROVE  EInv'
  <2>1. ~dirty /\ s \in {r.final} => s \in Neat
    BY <1>2
  <2> QED BY <1>5, <2>1, PowerNeat DEF PowerFailure
<1> QED BY <1>3, <1>4, <1>5 DEF Format, r

LEMMA CallNeat ==
    ASSUME BInv, EInv, NEW r, fs \in Neat => r.final \in Neat, Call(r)
    PROVE  EInv'
<1>1. phase = "ready" /\ stack = <<>> /\ (~dirty => fs \in Neat /\ r.final \in Neat)
  BY LiveNeat DEF Call, Live
<1>2. CASE fs' = r.final /\ UNCHANGED <<phase, dirty, stack>>
  BY <1>1, <1>2, NeatHeld DEF EInv, Live
<1>3. ASSUME NEW s, DiskError(s, {fs, r.final}), UNCHANGED phase
      PROVE  EInv'
  BY <1>1, <1>3, ErrorNeat
<1>4. ASSUME NEW s, PowerFailure(s, {fs, r.final})
      PROVE  EInv'
  <2>1. ~dirty /\ s \in {fs, r.final} => s \in Neat
    BY <1>1
  <2> QED BY <1>4, <2>1, PowerNeat DEF PowerFailure
<1> QED BY <1>2, <1>3, <1>4 DEF Call

LEMMA RemoveFaultsNeat ==
    ASSUME NEW cuts, RemoveFaults(cuts), phase = "ready"
    PROVE  EInv'
<1>1. ASSUME NEW s, DiskError(s, {}), UNCHANGED phase PROVE EInv'
  BY <1>1, ErrorNeat
<1>2. ASSUME NEW s, PowerFailure(s, {}) PROVE EInv'
  BY <1>2, PowerNeat DEF PowerFailure
<1> QED BY <1>1, <1>2 DEF RemoveFaults

\* A call from a sound state: what it is for, or at worst a file or an inode lost.
Mild(st, r) == r.final \in Neat /\ \E i \in Inodes : Touches(st, r, {i})

\* Every call but mv and passwd makes one change of the tree, or none.
Single(st, r) ==
    r.final \in Neat /\ \E i \in Inodes : One(st, r.final, i) /\ Touches(st, r, {i})

LEMMA OneSingle ==
    ASSUME NEW st \in Neat, NEW r, r.final \in Orderly,
           \E i \in Inodes : One(st, r.final, i) /\ Touches(st, r, {i})
    PROVE  Single(st, r) /\ Mild(st, r)
<1>1. PICK i \in Inodes : One(st, r.final, i) /\ Touches(st, r, {i})
  OBVIOUS
<1>2. r.final \in Neat
  BY <1>1, NeatOn DEF Touches
<1> QED BY <1>1, <1>2 DEF Mild, Single

LEMMA CallsSingle ==
    ASSUME NEW st \in Neat, NEW p \in PathRecords, NEW q \in PathRecords
    PROVE  /\ Single(st, fs_mkdir_path(st, p))
           /\ Single(st, fs_create(st, p.name))
           /\ \A text \in Contents : Single(st, fs_write_path(st, p, text))
           /\ Single(st, fs_remove_path(st, p))
           /\ Single(st, fs_copy_path(st, p, q))
<1>1. st \in Orderly
  BY DEF Neat
<1>2. Single(st, fs_mkdir_path(st, p))
  BY <1>1, MkdirOrderly, MkdirDoes, OneSingle
<1>3. Single(st, fs_create(st, p.name))
  <2>1. p.name \in Names \union {NoName}
    BY DEF PathRecords
  <2> QED BY <1>1, <2>1, CreateOrderly, CreateDoes, OneSingle
<1>4. \A text \in Contents : Single(st, fs_write_path(st, p, text))
  BY <1>1, FsWriteOrderly, WriteDoes, OneSingle
<1>5. Single(st, fs_remove_path(st, p))
  BY <1>1, RemoveOrderly, RemoveDoes, OneSingle
<1>6. Single(st, fs_copy_path(st, p, q))
  BY <1>1, CopyOrderly, CopyDoes, OneSingle
<1> QED BY <1>2, <1>3, <1>4, <1>5, <1>6

LEMMA CallsMild ==
    ASSUME NEW st \in Neat, NEW p \in PathRecords, NEW q \in PathRecords
    PROVE  /\ Mild(st, fs_mkdir_path(st, p))
           /\ Mild(st, fs_create(st, p.name))
           /\ \A text \in Contents : Mild(st, fs_write_path(st, p, text))
           /\ Mild(st, fs_remove_path(st, p))
           /\ Mild(st, fs_copy_path(st, p, q))
           /\ Mild(st, fs_rename(st, p, q))
           /\ \A hash \in Hashes : Mild(st, fs_write_passwd(st, hash))
<1>1. st \in Orderly
  BY DEF Neat
<1>2. /\ Mild(st, fs_mkdir_path(st, p))
      /\ Mild(st, fs_create(st, p.name))
      /\ \A text \in Contents : Mild(st, fs_write_path(st, p, text))
      /\ Mild(st, fs_remove_path(st, p))
      /\ Mild(st, fs_copy_path(st, p, q))
  BY CallsSingle DEF Single, Mild
<1>7. Mild(st, fs_rename(st, p, q))
  <2> DEFINE r == fs_rename(st, p, q)
  <2>1. r.final \in Orderly /\ Touches(st, r, {}) /\ (r.final = st \/ \E k \in Slots : Renames(st, r.final, p, q, k))
    BY <1>1, RenameOrderly, RenameDoes
  <2> SUFFICES Mild(st, r)
    OBVIOUS
  <2> HIDE DEF r
  <2>2. ASSUME NEW i \in Inodes PROVE Touches(st, r, {i})
    BY <2>1, SparesMore DEF Touches
  <2>3. 0 \in Inodes
    BY Numbers
  <2>4. CASE r.final = st
    <3>1. r.final \in Neat /\ Touches(st, r, {0})
      BY <2>2, <2>3, <2>4
    <3> QED BY <2>3, <3>1 DEF Mild
  <2>5. CASE \E k \in Slots : Renames(st, r.final, p, q, k)
    <3>1. PICK k \in Slots : Renames(st, r.final, p, q, k)
      BY <2>5
    <3>2. \E j : Moving(st, r.final, j)
      <4>1. Reached(Kinds(st), View(st)) \subseteq Inodes
        BY <1>1, OrderlyHas
      <4> QED BY <3>1, <4>1 DEF Renames, Moving
    <3>3. PICK j : Moving(st, r.final, j)
      BY <3>2
    <3>4. j \in Inodes
      <4>1. /\ Kinds(st) \in [Inodes -> Kind] /\ View(st) \in Views
            /\ Linked(Kinds(st), View(st), Reached(Kinds(st), View(st)))
        BY <1>1, OrderlyHas
      <4>2. PICK d, s, e, t, name : Moves(Kinds(st), View(st), Kinds(r.final), View(r.final),
                                          Reached(Kinds(st), View(st)), d, s, e, t, name, j)
        BY <3>3 DEF Moving
      <4> QED BY <4>1, <4>2, MovesKind
    <3>5. r.final \in Neat
      BY <2>1, <2>2, <3>3, <3>4, NeatOn DEF Touches
    <3> QED BY <2>2, <3>4, <3>5 DEF Mild
  <2> QED BY <2>1, <2>4, <2>5
<1>8. \A hash \in Hashes : Mild(st, fs_write_passwd(st, hash))
  <2> SUFFICES ASSUME NEW hash \in Hashes PROVE Mild(st, fs_write_passwd(st, hash))
    OBVIOUS
  <2>1. "passwd" \in Names /\ hash \in Contents
    BY LayoutAssumption DEF Names, Contents
  <2>2. Mild(st, write_sys_file(st, "passwd", hash))
    BY <2>1, SysFileNeat DEF Mild
  <2> QED BY <2>2 DEF fs_write_passwd
<1> QED BY <1>2, <1>7, <1>8

LEMMA RemoveRecursiveDoes ==
    ASSUME IInv, BInv, EInv, ~dirty, NEW path \in PathRecords, RemoveRecursive(path)
    PROVE  GoesOn(0) /\ fs' = fs /\ phase = "ready"
<1> DEFINE d == DirOf(fs, path)
           t == load_dir_block(fs, d)
           dirSlot == find_dir_entry(t, fs.inodes, path.name, "dir")
           fileSlot == find_dir_entry(t, fs.inodes, path.name, "file")
           s == IF dirSlot # 0 THEN dirSlot ELSE fileSlot
<1>1. /\ phase = "ready" /\ stack = <<>>
      /\ Usable(fs, d) /\ s # 0 /\ Goes(fs, <<Frame(d, t, {s})>>)
  BY DEF RemoveRecursive, Running
<1>2. fs \in Neat /\ fs \in Orderly
  BY <1>1, LiveNeat DEF Live, Neat
<1>3. PICK R : Linked(Kinds(fs), View(fs), R)
  BY <1>2 DEF Orderly
<1>4. fs \in Tidy /\ fs.sb /\ fs \in FsStates
  BY <1>2 DEF Orderly, Tidy
<1>5. d \in R /\ R \in SUBSET Inodes
  BY <1>1, <1>3, <1>4, PathsLead
<1>6. d # 0 => \E r \in Slots : InUse(View(fs), 0, r) /\ View(fs)[0][r].inode = d
  BY <1>1, <1>4, DirAnchored
<1> HIDE DEF d
<1>7. t = View(fs)[d] /\ t \in Tables
  BY <1>4, <1>5, ViewTypes
<1> HIDE DEF t
<1>8. /\ dirSlot # 0 => Found(fs, t, path.name, "dir", dirSlot)
      /\ fileSlot # 0 => Found(fs, t, path.name, "file", fileSlot)
  BY <1>4, <1>7, Searches
<1> HIDE DEF dirSlot, fileSlot
<1>9. s \in Slots /\ t[s].name # NoName
  BY <1>1, <1>8 DEF Found
<1> HIDE DEF s
<1>10. InUse(View(fs), d, s)
  BY <1>7, <1>9 DEF InUse
<1>11. Walks(fs, <<Frame(d, View(fs)[d], {s})>>)
  BY <1>3, <1>4, <1>5, <1>6, <1>9, <1>10, StartWalks
<1>12. /\ Strolls(fs, <<Frame(d, View(fs)[d], {s})>>)
       /\ Rests(Kinds(fs), View(fs), Kinds(fs), Seen(fs, <<Frame(d, View(fs)[d], {s})>>))
  BY <1>2, <1>5, <1>9, <1>11, StartStrolls
<1>13. fs' = fs /\ stack' = <<Frame(d, View(fs)[d], {s})>> /\ UNCHANGED <<phase, dirty>>
  BY <1>1, <1>7 DEF Goes
<1>14. Seen(fs, stack) = View(fs) /\ Spares(fs, fs, {})
  BY <1>1, SeenNone, SparesSelf
<1> QED BY <1>1, <1>12, <1>13, <1>14 DEF GoesOn, Walked

LEMMA CallsNeat ==
    ASSUME BInv, EInv, NEW p \in PathRecords, NEW q \in PathRecords
    PROVE  /\ Mkdir(p) => EInv'
           /\ Create(p) => EInv'
           /\ \A text \in Texts \union {Empty} : Write(p, text) => EInv'
           /\ Remove(p) => EInv'
           /\ Copy(p, q) => EInv'
           /\ Rename(p, q) => EInv'
           /\ \A hash \in Hashes : WritePasswd(hash) => EInv'
<1>1. ASSUME NEW r, Call(r), fs \in Neat => Mild(fs, r) PROVE EInv'
  BY <1>1, CallNeat DEF Mild
<1>2. ASSUME NEW text \in Texts \union {Empty} PROVE text \in Contents
  BY DEF Contents
<1>3. Mkdir(p) => EInv'
  BY <1>1, CallsMild DEF Mkdir
<1>4. Create(p) => EInv'
  BY <1>1, CallsMild DEF Create
<1>5. ASSUME NEW text \in Texts \union {Empty} PROVE Write(p, text) => EInv'
  BY <1>1, <1>2, CallsMild DEF Write
<1>6. Remove(p) => EInv'
  BY <1>1, CallsMild DEF Remove
<1>7. Copy(p, q) => EInv'
  BY <1>1, CallsMild DEF Copy
<1>8. Rename(p, q) => EInv'
  BY <1>1, CallsMild DEF Rename
<1>9. ASSUME NEW hash \in Hashes PROVE WritePasswd(hash) => EInv'
  BY <1>1, CallsMild DEF WritePasswd
<1> QED BY <1>3, <1>4, <1>5, <1>6, <1>7, <1>8, <1>9

\* A walk that goes on keeps what it holds.
LEMMA GoesOnHeld ==
    ASSUME IInv, BInv, IInv', BInv', EInv, ~dirty, Live, NEW i, GoesOn(i)
    PROVE  /\ EInv' /\ Live' /\ ~dirty' /\ Held(fs', stack')
           /\ Seen(fs', stack') \in Views
<1>1. fs \in Tidy /\ stack \in Seq(Frames) /\ Held(fs, stack)
  BY DEF IInv, TypeOK, BInv, Whole, EInv
<1>2. Live' /\ ~dirty' /\ Walked(fs, stack, fs', stack', i) /\ Strolls(fs', stack')
  BY DEF GoesOn, Live
<1>3. fs' \in Tidy /\ stack' \in Seq(Frames)
  BY <1>2 DEF IInv, TypeOK, BInv, Whole
<1>4. Seen(fs', stack') \in Views
  BY <1>2, <1>3, StrollsSees
<1>5. Held(fs', stack')
  BY <1>1, <1>2, <1>4, HeldOn, Zenon
<1> QED BY <1>2, <1>4, <1>5 DEF EInv

\* Only the shell removes a tree.
LEMMA RemoveLive ==
    ASSUME IInv, RemoveStep
    PROVE  Live /\ phase = "ready"
<1>1. Running \/ Len(stack) > 1 \/ Len(stack) = 1
  BY DEF RemoveStep, RemoveEnter, RemoveCurrent, RemoveLeave, RemoveDone, RemoveGivesUp
<1>2. stack \in Seq(Frames)
  BY DEF IInv, TypeOK
<1>3. Len(stack) \in Nat /\ (Len(stack) >= 1 => stack # <<>>)
  BY <1>2, LenProperties, EmptySeq
<1>4. Running
  BY <1>1, <1>3 DEF Running
<1> QED BY <1>4 DEF IInv, Live

LEMMA NextNeat ==
    ASSUME IInv, BInv, IInv', BInv', EInv, [AnyStep]_vars
    PROVE  EInv'
<1>1. CASE UNCHANGED vars
  BY <1>1 DEF vars, EInv, Live
<1>2. CASE AnyStep
  <2>1. \E p : p \in PathRecords
    <3>1. [dir |-> NoName, name |-> "sys"] \in PathRecords
      BY LayoutAssumption DEF PathRecords, Names
    <3> QED BY <3>1
  <2>2. Reboot => EInv'
    <3>1. Reboot /\ ~dirty /\ fs \in {fs} => fs \in Neat
      BY LiveNeat DEF Reboot, Live
    <3> QED BY <3>1, PowerNeat DEF Reboot
  <2>3. ASSUME NEW path \in PathRecords, RemoveRecursive(path) PROVE EInv'
    <3>1. dirty' = dirty
      BY <2>3 DEF RemoveRecursive, Goes
    <3>2. CASE dirty
      BY <3>1, <3>2 DEF EInv
    <3>3. CASE ~dirty
      <4>1. GoesOn(0) /\ Live
        BY <2>3, <3>3, RemoveRecursiveDoes DEF Live
      <4> QED BY <3>3, <4>1, GoesOnHeld
    <3> QED BY <3>2, <3>3
  <2>4. ASSUME RemoveStep PROVE EInv'
    <3>1. CASE dirty
      <4>1. dirty' = TRUE \/ ~dirty
        BY <2>4 DEF RemoveStep, RemoveEnter, RemoveCurrent, RemoveLeave, RemoveDone,
           RemoveGivesUp, Goes, RemoveFaults, DiskError, PowerFailure, LosePower
      <4> QED BY <3>1, <4>1 DEF EInv
    <3>2. CASE ~dirty
      <4>1. Live /\ phase = "ready"
        BY <2>4, RemoveLive
      <4>2. Strolls(fs, stack)
        BY <3>2, <4>1 DEF EInv, Held
      <4>3. PICK i \in Inodes : GoesOn(i) \/ IsCut(i)
        BY <2>4, <3>2, <4>2, RemoveStepDoes
      <4>4. CASE GoesOn(i)
        BY <3>2, <4>1, <4>4, GoesOnHeld
      <4>5. CASE IsCut(i)
        BY <4>1, <4>5, RemoveFaultsNeat DEF IsCut
      <4> QED BY <4>3, <4>4, <4>5
    <3> QED BY <3>1, <3>2
  <2> QED BY <1>2, <2>1, <2>2, <2>3, <2>4, CallsNeat, MountNeat, FormatNeat DEF AnyStep
<1> QED BY <1>1, <1>2

LEMMA FilesInvariant == Spec => [](IInv /\ BInv /\ LInv /\ EInv)
<1>1. Init => EInv
  BY DEF Init, EInv, Live, BlankDisk
<1>2. IInv /\ BInv /\ IInv' /\ BInv' /\ EInv /\ [Next]_vars => EInv'
  BY NextNeat, NextIsAny
<1> QED BY <1>1, <1>2, LinksInvariant, PTL DEF Spec

-----------------------------------------------------------------------------
(* What FsTree's operators are, in any sound state                         *)

K0 == Kinds(Now)
T0 == Seen(Now, stack)
LostSet(K, T) == {i \in Inodes : K[i] # "none"} \ (Reached(K, T) \union FileSet(K, T))

Mapped ==
    /\ Now \in Tidy /\ stack \in Seq(Frames) /\ Held(Now, stack)
    /\ Inode = Now.inodes /\ fs.blocks = Now.blocks
    /\ K0 \in [Inodes -> Kind] /\ T0 \in Views /\ Linked(K0, T0, Reached(K0, T0))
    /\ TreeDirs = DirsOf(K0, T0) /\ TreeFiles = FilesOf(K0, T0)
    /\ Files = FileSet(K0, T0) /\ Lost = LostSet(K0, T0)

LEMMA NowMapped ==
    ASSUME IInv, BInv, LInv, EInv, Sound
    PROVE  Mapped
<1>1. fs \in FsStates /\ stack \in Seq(Frames) /\ fs.blocks = Now.blocks
  <2>1. fs \in FsStates /\ stack \in Seq(Frames)
    BY DEF IInv, TypeOK
  <2>2. Mounted(fs).blocks = fs.blocks
    BY <2>1 DEF Mounted, FsStates
  <2> QED BY <2>1, <2>2 DEF Now
<1>2. Now \in Tidy /\ Held(Now, stack)
  <2>1. CASE Live
    BY <2>1 DEF Now, Sound, BInv, Whole, EInv
  <2>2. CASE ~Live
    <3>1. stack = <<>>
      BY <2>2 DEF IInv, Running, Live
    <3>2. Mounted(fs) \in Neat
      BY <2>2 DEF Sound, EInv
    <3>3. Mounted(fs) \in Tidy
      BY <3>2 DEF Neat, Orderly
    <3> QED BY <2>2, <3>1, <3>2, <3>3, NeatHeld DEF Now
  <2> QED BY <2>1, <2>2
<1>3. Is(Now) /\ Inode = Now.inodes
  <2>1. Now \in FsStates
    BY <1>2 DEF Tidy
  <2>2. Mounted(fs).inodes = fs.dinodes
    BY <1>1 DEF Mounted, FsStates
  <2>3. Inode = Now.inodes
    BY <2>2 DEF Now, Inode
  <2> QED BY <1>1, <2>1, <2>3 DEF Is, TableOf
<1>4. Strolls(Now, stack) /\ Walks(Now, stack) /\ Left(Now, stack)
  BY <1>2 DEF Held, Strolls
<1>5. PICK R : Sees(Now, stack, T0, R)
  BY <1>1, <1>2, <1>4, SeenIs DEF T0
<1>6. Shadows(K0, View(Now), T0, R) /\ Linked(K0, T0, R) /\ T0 \in Views
  BY <1>2, <1>4, <1>5, LeftShadows DEF Sees, K0
<1>7. TreeDirs = DirsOf(K0, T0) /\ TreeFiles = FilesOf(K0, T0)
  BY <1>3, <1>6, TreeIs DEF K0
<1>8. K0 \in [Inodes -> Kind] /\ \A i \in Inodes : K0[i] = Inode[i].type
  BY <1>1, <1>2, <1>3, <1>4, StrollsSees DEF K0, Kinds
<1>9. Linked(K0, T0, Reached(K0, T0))
  BY <1>6, ReachedLinked
<1>10. Files = FileSet(K0, T0)
  BY <1>7 DEF Files, FileSet
<1>11. Lost = LostSet(K0, T0)
  <2>1. Used = {i \in Inodes : K0[i] # "none"}
    BY <1>8 DEF Used
  <2>2. {x.inode : x \in TreeDirs \union TreeFiles} = Reached(K0, T0) \union FileSet(K0, T0)
    BY <1>7 DEF Reached, FileSet
  <2> QED BY <2>1, <2>2 DEF Lost, LostSet
<1> QED BY <1>1, <1>2, <1>3, <1>6, <1>7, <1>8, <1>9, <1>10, <1>11 DEF Mapped

-----------------------------------------------------------------------------
(* One file at most is at risk *)

Kept(j) ==
    /\ Inode'[j] = Inode[j]
    /\ fs'.blocks[Inode[j].block].text = fs.blocks[Inode[j].block].text
AtRisk == \E i : \A j \in Files \ {i} : Kept(j)

\* RAM goes on with s, or the power goes and the disk has what s had.
Becomes(s) == \/ Live' /\ fs' = s
              \/ ~Live' /\ fs' = PoweredOff(s)

LEMMA PowerKeeps ==
    ASSUME NEW s \in FsStates
    PROVE  PoweredOff(s).dinodes = s.dinodes /\ PoweredOff(s).blocks = s.blocks
BY DEF PoweredOff, FsStates

LEMMA BecomesKeeps ==
    ASSUME Mapped, Live, NEW s \in FsStates, NEW i, Spares(fs, s, {i}), Becomes(s)
    PROVE  AtRisk
<1>1. Now = fs /\ Inode = fs.inodes
  BY DEF Mapped, Now, Inode
<1>2. \A j \in Files : j \in Inodes /\ fs.inodes[j].type = "file" /\ Intact(fs, j)
  <2>1. /\ fs \in Tidy /\ stack \in Seq(Frames) /\ Held(fs, stack)
        /\ Files = FileSet(Kinds(fs), Seen(fs, stack))
    BY <1>1 DEF Mapped, K0, T0
  <2>2. \A j \in FileSet(Kinds(fs), Seen(fs, stack)) : j \in Inodes \ {0} /\ fs.inodes[j].type = "file"
    BY <2>1, StrollsFiles DEF Held
  <2> QED BY <2>1, <2>2 DEF Held
<1>3. ASSUME NEW j \in Files \ {i} PROVE Kept(j)
  <2>1. j \in Inodes \ {i} /\ fs.inodes[j].type = "file" /\ fs.dinodes[j] = fs.inodes[j]
    BY <1>2, <1>3 DEF Intact
  <2>2. /\ s.inodes[j] = fs.inodes[j] /\ s.dinodes[j] = fs.inodes[j]
        /\ s.blocks[fs.inodes[j].block].text = fs.blocks[fs.inodes[j].block].text
    BY <2>1 DEF Spares
  <2>3. CASE Live' /\ fs' = s
    BY <1>1, <2>2, <2>3 DEF Kept, Inode
  <2>4. CASE ~Live' /\ fs' = PoweredOff(s)
    BY <1>1, <2>2, <2>4, PowerKeeps DEF Kept, Inode
  <2> QED BY <2>3, <2>4 DEF Becomes
<1> QED BY <1>3 DEF AtRisk

LEMMA CutBecomes ==
    ASSUME Live, NEW s, NEW whole,
           (DiskError(s, whole) /\ UNCHANGED phase) \/ PowerFailure(s, whole) \/ LosePower(s, whole)
    PROVE  Becomes(s)
BY DEF Becomes, DiskError, PowerFailure, LosePower, Live

\* The state a fault cuts a call short in is one of FsStates, or was cut from one.
LEMMA CallRisk ==
    ASSUME Mapped, NEW r, Call(r), Mild(fs, r), r.final \in FsStates, r.cuts \in SUBSET FsStates
    PROVE  AtRisk
<1>1. Live
  BY DEF Call, Live
<1>2. PICK i \in Inodes : Touches(fs, r, {i})
  BY DEF Mild
<1>3. CASE fs' = r.final /\ UNCHANGED phase
  <2>1. Becomes(r.final)
    BY <1>1, <1>3 DEF Becomes, Live
  <2> QED BY <1>1, <1>2, <2>1, BecomesKeeps DEF Touches
<1>4. ASSUME NEW s \in r.cuts,
             (DiskError(s, {fs, r.final}) /\ UNCHANGED phase) \/ PowerFailure(s, {fs, r.final})
      PROVE  AtRisk
  <2>1. Becomes(s)
    BY <1>1, <1>4, CutBecomes
  <2>2. s \in FsStates /\ Spares(fs, s, {i})
    BY <1>2, <1>4 DEF Touches
  <2> QED BY <1>1, <2>1, <2>2, BecomesKeeps
<1> QED BY <1>3, <1>4 DEF Call

LEMMA CallsRisk ==
    ASSUME IInv, BInv, EInv, Mapped, Sound, NEW p \in PathRecords, NEW q \in PathRecords
    PROVE  /\ Mkdir(p) => AtRisk
           /\ Create(p) => AtRisk
           /\ \A text \in Texts \union {Empty} : Write(p, text) => AtRisk
           /\ Remove(p) => AtRisk
           /\ Copy(p, q) => AtRisk
           /\ Rename(p, q) => AtRisk
           /\ \A hash \in Hashes : WritePasswd(hash) => AtRisk
<1>1. ASSUME NEW r, Call(r), fs \in Neat => Mild(fs, r), fs \in Rooted => r \in Outcomes(fs)
      PROVE  AtRisk
  <2>1. Live /\ stack = <<>>
    BY <1>1 DEF Call, Live
  <2>2. Mild(fs, r)
    BY <1>1, <2>1, LiveNeat DEF Sound
  <2>3. r \in Outcomes(fs)
    BY <1>1, <2>1 DEF IInv, Sound
  <2>4. r.final \in FsStates /\ r.cuts \in SUBSET FsStates
    BY <2>3, ReachTypes DEF Outcomes
  <2> QED BY <1>1, <2>2, <2>4, CallRisk
<1>2. ASSUME NEW text \in Texts \union {Empty} PROVE text \in Contents
  BY DEF Contents
<1>3. Mkdir(p) => AtRisk
  BY <1>1, CallsMild, MkdirOutcome DEF Mkdir
<1>4. Create(p) => AtRisk
  BY <1>1, CallsMild, CreateOutcome DEF Create, PathRecords
<1>5. ASSUME NEW text \in Texts \union {Empty} PROVE Write(p, text) => AtRisk
  BY <1>1, <1>2, CallsMild, WriteOutcome DEF Write
<1>6. Remove(p) => AtRisk
  BY <1>1, CallsMild, RemoveOutcome DEF Remove
<1>7. Copy(p, q) => AtRisk
  BY <1>1, CallsMild, CopyOutcome DEF Copy
<1>8. Rename(p, q) => AtRisk
  BY <1>1, CallsMild, RenameOutcome DEF Rename
<1>9. ASSUME NEW hash \in Hashes PROVE WritePasswd(hash) => AtRisk
  BY <1>1, CallsMild, PasswdOutcome DEF WritePasswd
<1> QED BY <1>3, <1>4, <1>5, <1>6, <1>7, <1>8, <1>9

\* fs_init reads what is on the disk and leaves it there.
LEMMA CutsRead ==
    ASSUME NEW st \in FsStates
    PROVE  \A s \in MountCuts(st) : s.dinodes = st.dinodes /\ s.blocks = st.blocks
<1> DEFINE s1 == read_superblock(st)
           s2 == [s1 EXCEPT !.bitmap = st.dbitmap]
<1>1. ASSUME NEW s \in MountCuts(st) PROVE s.dinodes = st.dinodes /\ s.blocks = st.blocks
  <2>1. \/ s = st
        \/ \E n : s = [s1 EXCEPT !.bitmap = SpliceBitmap(n, st.dbitmap, st.bitmap)]
        \/ \E n : s = [s2 EXCEPT !.inodes = SpliceInodes(n, st.dinodes, s1.inodes)]
    BY DEF MountCuts
  <2>2. ASSUME NEW x, s = [s1 EXCEPT !.bitmap = x]
        PROVE  s.dinodes = st.dinodes /\ s.blocks = st.blocks
    BY <2>2 DEF read_superblock, FsStates
  <2>3. ASSUME NEW x, s = [s2 EXCEPT !.inodes = x]
        PROVE  s.dinodes = st.dinodes /\ s.blocks = st.blocks
    BY <2>3 DEF read_superblock, FsStates
  <2> HIDE DEF s1, s2
  <2> QED BY <2>1, <2>2, <2>3
<1> QED BY <1>1

LEMMA MountRisk ==
    ASSUME IInv, BInv, Sound, phase = "reinit" => ret', Mount
    PROVE  AtRisk
<1> DEFINE r == fs_init(fs)
<1>1. /\ fs \in FsStates /\ phase \in {"start", "reinit"} /\ fs.dsb \in BOOLEAN
  BY DEF IInv, TypeOK, FsStates, Mount
<1>2. phase = "reinit" => Synced(fs) /\ fs.dsb
  BY DEF BInv, Whole, Synced, Sound
<1>3. fs.dsb
  BY <1>1, <1>2 DEF Sound, Live
<1>4. r.cuts = MountCuts(fs) /\ r.ok = TRUE /\ r.final = Mounted(fs)
  BY <1>1, <1>3 DEF fs_init, Outcome, Mounted
<1> HIDE DEF r
<1>5. \/ fs' = Mounted(fs) /\ Live'
      \/ fs' \in MountCuts(fs) /\ phase' = "format" /\ phase = "start"
  BY <1>1, <1>4 DEF Mount, r, Live, DiskError
<1>6. Inode' = Inode /\ fs'.blocks = fs.blocks
  <2>1. CASE phase = "start"
    <3>1. Inode = fs.dinodes
      BY <2>1 DEF Inode, Live
    <3>2. Mounted(fs).inodes = fs.dinodes /\ Mounted(fs).blocks = fs.blocks
      BY <1>1 DEF Mounted, FsStates
    <3>3. ASSUME NEW s \in MountCuts(fs) PROVE s.dinodes = fs.dinodes /\ s.blocks = fs.blocks
      BY <1>1, CutsRead
    <3>4. CASE fs' = Mounted(fs) /\ Live'
      BY <3>1, <3>2, <3>4 DEF Inode
    <3>5. CASE fs' \in MountCuts(fs) /\ phase' = "format"
      BY <3>1, <3>3, <3>5 DEF Inode, Live
    <3> QED BY <1>5, <2>1, <3>4, <3>5
  <2>2. CASE phase = "reinit"
    <3>1. Mounted(fs) = fs
      BY <1>1, <1>2, <2>2, MountedSame
    <3>2. fs' = fs /\ Live' /\ Live
      BY <1>5, <2>2, <3>1 DEF Live
    <3> QED BY <3>2 DEF Inode
  <2> QED BY <1>1, <2>1, <2>2
<1> QED BY <1>6 DEF AtRisk, Kept

LEMMA RemoveRisk ==
    ASSUME IInv, BInv, EInv, Mapped, Sound, IInv', RemoveStep
    PROVE  AtRisk
<1>1. Live /\ phase = "ready"
  <2>1. \/ Running
        \/ Len(stack) > 1
        \/ Len(stack) = 1
    BY DEF RemoveStep, RemoveEnter, RemoveCurrent, RemoveLeave, RemoveDone, RemoveGivesUp
  <2>2. stack \in Seq(Frames)
    BY DEF IInv, TypeOK
  <2>3. Len(stack) \in Nat /\ (Len(stack) >= 1 => stack # <<>>)
    BY <2>2, LenProperties, EmptySeq
  <2>4. Running
    BY <2>1, <2>3 DEF Running
  <2> QED BY <2>4 DEF IInv, Live
<1>2. PICK i \in Inodes : GoesOn(i) \/ IsCut(i)
  BY <1>1, RemoveStepDoes DEF EInv, Held, Sound
<1>3. CASE GoesOn(i)
  <2>1. Live' /\ fs' \in FsStates
    BY <1>1, <1>3 DEF GoesOn, Live, IInv, TypeOK
  <2>2. Spares(fs, fs', {i})
    <3>1. Spares(fs, fs', {}) \/ Spares(fs, fs', {i})
      BY <1>3 DEF GoesOn, Walked
    <3>2. {} \subseteq {i}
      OBVIOUS
    <3> QED BY <3>1, <3>2, SparesMore
  <2>3. Becomes(fs')
    BY <2>1 DEF Becomes
  <2> QED BY <1>1, <2>1, <2>2, <2>3, BecomesKeeps
<1>4. CASE IsCut(i)
  <2>1. PICK cuts \in SUBSET FsStates : RemoveFaults(cuts) /\ \A s \in cuts : Spares(fs, s, {i})
    BY <1>4 DEF IsCut
  <2>2. PICK s \in cuts : (DiskError(s, {}) /\ UNCHANGED phase) \/ PowerFailure(s, {})
    BY <2>1 DEF RemoveFaults
  <2>3. Becomes(s)
    BY <1>1, <2>2, CutBecomes
  <2> QED BY <1>1, <2>1, <2>3, BecomesKeeps
<1> QED BY <1>2, <1>3, <1>4

LEMMA StepRisk ==
    ASSUME IInv, BInv, LInv, EInv, IInv', Sound, ~Format, phase = "reinit" => ret',
           [AnyStep]_vars
    PROVE  AtRisk
<1>1. Mapped
  BY NowMapped
<1>2. ASSUME Live, fs' = fs, Live' \/ (~Live' /\ fs' = PoweredOff(fs)) PROVE AtRisk
  <2>1. fs \in FsStates /\ Spares(fs, fs, {0})
    BY SparesSelf DEF IInv, TypeOK
  <2>2. Becomes(fs)
    BY <1>2 DEF Becomes
  <2> QED BY <1>1, <1>2, <2>1, <2>2, BecomesKeeps
<1>3. ASSUME UNCHANGED vars PROVE AtRisk
  <2>1. Inode' = Inode /\ fs' = fs
    BY <1>3 DEF vars, Inode, Live
  <2> QED BY <2>1 DEF AtRisk, Kept
<1>4. ASSUME Reboot PROVE AtRisk
  <2>1. fs \in FsStates /\ Spares(fs, fs, {0}) /\ Live
    BY <1>4, SparesSelf DEF IInv, TypeOK, Reboot, Live
  <2>2. Becomes(fs)
    BY <1>4, <2>1, CutBecomes DEF Reboot
  <2> QED BY <1>1, <2>1, <2>2, BecomesKeeps
<1>5. ASSUME NEW path \in PathRecords, RemoveRecursive(path) PROVE AtRisk
  <2>1. GoesOn(0) /\ fs' = fs /\ phase = "ready"
    BY <1>5, RemoveRecursiveDoes DEF Sound
  <2>2. Live /\ Live'
    BY <2>1 DEF GoesOn, Live
  <2> QED BY <1>2, <2>1, <2>2
<1>6. \E p : p \in PathRecords
  <2>1. [dir |-> NoName, name |-> "sys"] \in PathRecords
    BY LayoutAssumption DEF PathRecords, Names
  <2> QED BY <2>1
<1> QED BY <1>1, <1>3, <1>4, <1>5, <1>6, CallsRisk, MountRisk, RemoveRisk DEF AnyStep

\* Every call, disk error or power failure leaves the inode and the text of all
\* files but one as they were in the table the calls then work on: what a call
\* writes, it writes to the block of one inode only, and the inode table on the
\* disk has what RAM has of every file that can be reached.  Not so a format,
\* nor an fs_init that fails after one.
THEOREM FilesContained == Spec => OneFileAtRisk
<1>1. ASSUME IInv, BInv, LInv, EInv, IInv', [Next]_vars
      PROVE  (Sound /\ ~Format /\ (phase = "reinit" => ret')) => Cardinality(ChangedFiles) <= 1
  <2> SUFFICES ASSUME Sound, ~Format, phase = "reinit" => ret'
               PROVE  Cardinality(ChangedFiles) <= 1
    OBVIOUS
  <2>1. [AnyStep]_vars
    BY <1>1, NextIsAny
  <2>2. PICK i : \A j \in Files \ {i} : Kept(j)
    BY <1>1, <2>1, StepRisk DEF AtRisk
  <2>3. Mapped
    BY <1>1, NowMapped
  <2>4. \A j \in Files : Inode[j].type = "file"
    <3>1. Files = FileSet(K0, T0) /\ K0 = Kinds(Now) /\ T0 = Seen(Now, stack)
          /\ Now \in Tidy /\ stack \in Seq(Frames) /\ Strolls(Now, stack) /\ Inode = Now.inodes
      BY <2>3 DEF Mapped, Held, K0, T0
    <3> QED BY <3>1, StrollsFiles
  <2>5. ASSUME NEW j \in Files \ {i} PROVE j \notin ChangedFiles
    <3>1. Kept(j) /\ Inode[j].type = "file"
      BY <2>2, <2>4, <2>5
    <3>2. Content(j)' = Content(j)
      BY <1>1, <3>1 DEF Content, ContentOf, Kept, IInv, TypeOK, FsStates
    <3> QED BY <3>1, <3>2 DEF ChangedFiles, Kept
  <2>6. ChangedFiles \subseteq {i}
    BY <2>5 DEF ChangedFiles
  <2>7. IsFiniteSet({i}) /\ Cardinality({i}) = 1
    BY FS_Singleton
  <2>8. IsFiniteSet(ChangedFiles) /\ Cardinality(ChangedFiles) <= Cardinality({i})
    BY <2>6, <2>7, FS_Subset
  <2> QED BY <2>7, <2>8
<1> QED BY <1>1, FilesInvariant, PTL DEF Spec, OneFileAtRisk


-----------------------------------------------------------------------------
(* Storage is lost in two ways only *)

LostOf(st) == LostSet(Kinds(st), View(st))

LEMMA OneLost ==
    ASSUME NEW st \in Orderly, NEW s \in Orderly, NEW i, One(st, s, i)
    PROVE  LostOf(s) \subseteq LostOf(st)
<1> DEFINE K == Kinds(st)
           T == View(st)
           R == Reached(K, T)
           F == FileSet(K, T)
           K2 == Kinds(s)
           T2 == View(s)
           R2 == Reached(K2, T2)
           F2 == FileSet(K2, T2)
<1>1. T \in Views /\ Linked(K, T, R) /\ T2 \in Views
  BY OrderlyHas
<1>2. SUFFICES LostSet(K2, T2) \subseteq LostSet(K, T)
  BY DEF LostOf
<1>3. CASE Same(st, s)
  <2>1. R2 = R /\ F2 = F /\ K2 = K
    BY <1>1, <1>3, StaysSets DEF Same
  <2> QED BY <2>1 DEF LostSet
<1>4. ASSUME NEW d, NEW name, NEW type \in {"file", "dir"}, Gains(st, s, d, name, i, type)
      PROVE  LostSet(K2, T2) \subseteq LostSet(K, T)
  <2>1. PICK k \in Slots : Adds(K, T, K2, T2, R, d, k, name, i, type)
    BY <1>4 DEF Gains
  <2>2. d \in R /\ \A j \in Inodes \ {i} : K2[j] = K[j]
    BY <2>1 DEF Adds
  <2>3. /\ R2 = R \union (IF type = "dir" THEN {i} ELSE {})
        /\ F2 = F \union (IF type = "file" THEN {i} ELSE {})
    BY <1>1, <2>1, <2>2, AddsSets
  <2> HIDE DEF K, K2, R, R2, F, F2, T, T2
  <2>4. R2 \union F2 = (R \union F) \union {i}
    BY <2>3
  <2> QED BY <2>2, <2>4 DEF LostSet, R, R2, F, F2
<1>5. CASE Loses(st, s, i)
  <2>1. PICK d \in Inodes, k \in Slots : Drops(K, T, K2, T2, R, d, k, i)
    BY <1>5 DEF Loses
  <2>2. R2 = R \ {i} /\ F2 = F \ {i}
    BY <1>1, <2>1, DropsSets
  <2>3. K2[i] = "none" /\ \A j \in Inodes \ {i} : K2[j] = K[j]
    BY <2>1 DEF Drops
  <2> HIDE DEF K, K2, R, R2, F, F2, T, T2
  <2> QED BY <2>2, <2>3 DEF LostSet, R, R2, F, F2
<1> QED BY <1>3, <1>4, <1>5 DEF One

\* Looking a name up in a directory that can be reached.
LEMMA FindIs ==
    ASSUME NEW st \in Orderly, NEW d \in Reached(Kinds(st), View(st)), NEW name, NEW type,
           NEW f, f = find_dir_entry(load_dir_block(st, d), st.inodes, name, type)
    PROVE  \/ /\ f # 0 /\ f \in Slots
              /\ Leads(Kinds(st), View(st), d, f, type) /\ View(st)[d][f].name = name
              /\ load_dir_block(st, d) = View(st)[d]
           \/ /\ f = 0
              /\ \A s \in Slots : View(st)[d][s].name = name => ~Leads(Kinds(st), View(st), d, s, type)
<1>1. st \in FsStates /\ st.sb /\ d \in Inodes
  BY OrderlyHas
<1> DEFINE t == load_dir_block(st, d)
<1>2. t = View(st)[d] /\ t \in Tables
  BY <1>1, ViewTypes
<1> HIDE DEF t
<1>3. f = find_dir_entry(t, st.inodes, name, type)
  BY DEF t
<1>4. \/ f # 0 /\ Found(st, t, name, type, f)
      \/ f = 0 /\ Missing(st, t, name, type)
  BY <1>1, <1>2, <1>3, Searches, Zenon
<1> QED BY <1>2, <1>4 DEF Found, Missing, Leads, InUse, t

\* A directory of the root, by its name.
LEMMA SubDirIs ==
    ASSUME NEW st \in Orderly, NEW name, NEW d, d = SubDir(st, name)
    PROVE  \/ /\ d # NoDir /\ d # 0
              /\ \E f \in Slots : /\ Leads(Kinds(st), View(st), 0, f, "dir")
                                  /\ View(st)[0][f].name = name /\ View(st)[0][f].inode = d
              /\ name \in Names /\ d \in Inodes
              /\ [path |-> <<name>>, inode |-> d] \in DirsOf(Kinds(st), View(st))
           \/ /\ d = NoDir
              /\ \A s \in Slots : View(st)[0][s].name = name => ~Leads(Kinds(st), View(st), 0, s, "dir")
<1> DEFINE K == Kinds(st)
           T == View(st)
           R == Reached(K, T)
           t == load_dir_block(st, 0)
           f == find_dir_entry(t, st.inodes, name, "dir")
<1>1. T \in Views /\ Linked(K, T, R) /\ 0 \in R
  BY OrderlyHas, ReachedClosed
<1>2. d = IF f = 0 THEN NoDir ELSE t[f].inode
  BY DEF SubDir
<1>3. \/ /\ f # 0 /\ f \in Slots /\ Leads(K, T, 0, f, "dir") /\ T[0][f].name = name
         /\ t = T[0]
      \/ f = 0 /\ \A s \in Slots : T[0][s].name = name => ~Leads(K, T, 0, s, "dir")
  BY <1>1, FindIs
<1> HIDE DEF K, T, R, t, f
<1>4. CASE f # 0
  <2>1. f \in Slots /\ Leads(K, T, 0, f, "dir") /\ T[0][f].name = name /\ d = T[0][f].inode
    BY <1>2, <1>3, <1>4
  <2>2. Top0 \in DirsOf(K, T) /\ Top0.inode = 0 /\ Top0.path = <<>> /\ Closed(K, T, DirsOf(K, T))
    BY <1>1, DirsClosed DEF Closed, Top0
  <2>3. InUse(T, 0, f) /\ Child(T, Top0, f) \in DirsOf(K, T)
    BY <2>1, <2>2 DEF Closed, Leads
  <2>4. d \in Inodes \ {0} /\ name \in Names
    BY <1>1, <2>1, <2>2, <2>3, OneParent
  <2>5. Child(T, Top0, f) = [path |-> <<name>>, inode |-> d]
    BY <2>1 DEF Child, Top0
  <2>6. d # NoDir
    BY <2>4, Numbers DEF NoDir
  <2> QED BY <2>1, <2>3, <2>4, <2>5, <2>6 DEF K, T
<1> QED BY <1>2, <1>3, <1>4 DEF K, T


\* Where mv moves to is the root, a directory the destination names, or the one
\* it has as its directory part.
LEMMA WhereIs ==
    ASSUME NEW st, NEW src, NEW dst
    PROVE  \/ Where(st, src, dst).dir = 0
           \/ \E n : Where(st, src, dst).dir = SubDir(st, n) /\ (IntoDir(st, dst) \/ n = dst.dir)
<1>1. DirOf(st, dst) = 0 \/ DirOf(st, dst) = SubDir(st, dst.dir)
  BY DEF DirOf
<1>2. CASE dst.name = NoName
  <2>1. Where(st, src, dst).dir = DirOf(st, dst)
    BY <1>2 DEF Where
  <2> QED BY <1>1, <1>2, <2>1 DEF IntoDir
<1>3. CASE dst.name # NoName /\ InRoot(dst) /\ SubDir(st, dst.name) # NoDir
  <2>1. Where(st, src, dst).dir = SubDir(st, dst.name)
    BY <1>3 DEF Where, Into
  <2> QED BY <1>3, <2>1 DEF IntoDir
<1>4. CASE dst.name # NoName /\ ~(InRoot(dst) /\ SubDir(st, dst.name) # NoDir)
  <2>1. Where(st, src, dst).dir = DirOf(st, dst)
    BY <1>4 DEF Where, Into
  <2> QED BY <1>1, <2>1
<1> QED BY <1>2, <1>3, <1>4

LEMMA RenameLost ==
    ASSUME NEW st \in Orderly, NEW s \in Orderly, NEW src, NEW dst, NEW k \in Slots,
           Renames(st, s, src, dst, k)
    PROVE  LostOf(s) \subseteq LostOf(st) \/ (InRoot(src) /\ dst.dir = src.name)
<1> DEFINE K == Kinds(st)
           T == View(st)
           R == Reached(K, T)
           F == FileSet(K, T)
           K2 == Kinds(s)
           T2 == View(s)
           d == DirOf(st, src)
           to == Where(st, src, dst)
           e == to.dir
           i == T[d][k].inode
           new == to.name
<1>1. T \in Views /\ Linked(K, T, R) /\ T2 \in Views /\ K \in [Inodes -> Kind]
  BY OrderlyHas
<1>2. /\ d \in R /\ e \in R /\ src.name # NoName /\ T[d][k].name = src.name
      /\ ~(IntoDir(st, dst) /\ K[i] = "dir" /\ e = i)
      /\ \E r \in Slots : Moves(K, T, K2, T2, R, d, k, e, r, new, i)
  BY DEF Renames
<1>3. PICK r \in Slots : Moves(K, T, K2, T2, R, d, k, e, r, new, i)
  BY <1>2
<1>4. \/ e = 0
      \/ \E n : e = SubDir(st, n) /\ (IntoDir(st, dst) \/ n = dst.dir)
  BY WhereIs
<1>5. d = 0 => InRoot(src)
  <2>1. d # 0 \/ InRoot(src) \/ d = SubDir(st, src.dir)
    BY DEF DirOf
  <2>2. SubDir(st, src.dir) # 0
    <3>1. SubDir(st, src.dir) # 0 \/ SubDir(st, src.dir) = NoDir
      BY SubDirIs
    <3> QED BY <3>1, Numbers DEF NoDir
  <2> QED BY <2>1, <2>2
<1> DEFINE D == DirsOf(K, T)
<1>6. ASSUME NEW n, e = SubDir(st, n), e \in Inodes
      PROVE  [path |-> <<n>>, inode |-> e] \in D /\ n \in Names
  BY <1>6, SubDirIs, Numbers DEF NoDir
<1>7. K[i] \in {"file", "dir"} /\ i \in Inodes
  BY <1>1, <1>3, MovesKind
<1>8. PICK x \in D, z \in D : x.inode = d /\ z.inode = e
  BY <1>2 DEF Reached
<1>9. LostOf(s) = LostSet(K2, T2) /\ LostOf(st) = LostSet(K, T)
  BY DEF LostOf
<1>10. e \in Inodes
  BY <1>2, OrderlyHas
<1> HIDE DEF K, T, R, K2, T2, d, to, e, new, D
<1> DEFINE p == Child(T, x, k).path
<1>11. CASE K[i] = "file" \/ ~Heads(p, z.path)
  <2>1. Reached(K2, T2) = R /\ FileSet(K2, T2) = FileSet(K, T)
    BY <1>1, <1>3, <1>7, <1>8, <1>11, MovesSets DEF D, R
  <2>2. \A j \in Inodes : K2[j] = K[j]
    BY <1>3 DEF Moves
  <2>3. LostSet(K2, T2) = LostSet(K, T)
    BY <2>1, <2>2 DEF LostSet, R
  <2> QED BY <1>9, <2>3
<1>12. CASE K[i] = "dir" /\ Heads(p, z.path)
  <2>1. Leads(K, T, x.inode, k, "dir") /\ Child(T, x, k) \in D
    <3>1. Leads(K, T, x.inode, k, "dir")
      BY <1>2, <1>8, <1>12 DEF Leads, InUse
    <3>2. Closed(K, T, D)
      BY <1>1, DirsClosed DEF D
    <3> QED BY <3>1, <3>2 DEF Closed
  <2>2. Top0 \in D /\ D \subseteq Spots /\ Top0.inode = 0 /\ Top0.path = <<>>
    BY <1>1, DirsClosed DEF D, Closed, Top0
  <2>3. p = Append(x.path, src.name) /\ src.name \in AnyNames /\ x.path \in AnyPaths
        /\ Child(T, x, k).inode = i /\ z.path \in AnyPaths
    <3>1. src.name \in Names
      BY <1>1, <1>2, <1>8, <2>1, OneParent DEF D, Leads
    <3> QED BY <1>2, <1>8, <2>2, <3>1 DEF Child, AnyNames, Spots, AnyPaths
  <2>4. z # Top0
    <3>1. p # <<>> /\ p \in AnyPaths
      BY <2>3, AppendIs, HeadsAppend DEF AnyPaths
    <3>2. ~Heads(p, <<>>)
      <4> DEFINE a == src.name
                 u == x.path
      <4>1. a \in AnyNames /\ u \in AnyPaths
        BY <2>3
      <4> HIDE DEF a, u, p
      <4> QED BY <3>1, <4>1, HeadsAppend
    <3> QED BY <1>12, <2>2, <3>2
  <2>5. e # 0
    BY <1>1, <1>8, <2>2, <2>4, OnePlace DEF D
  <2>6. PICK n : e = SubDir(st, n) /\ (IntoDir(st, dst) \/ n = dst.dir)
    BY <1>4, <2>5
  <2> DEFINE y == [path |-> <<n>>, inode |-> e]
  <2>7. y \in D /\ n \in Names
    BY <1>6, <1>10, <2>6
  <2>8. z = y
    BY <1>1, <1>8, <2>7, OnePlace DEF D
  <2>9. z.path = <<n>>
    BY <2>8
  <2>10. x.path = <<>> /\ src.name = n
    <3>1. Len(p) = Len(x.path) + 1 /\ Len(x.path) \in Nat /\ p[Len(p)] = src.name
      BY <2>3, AppendProperties, LenProperties DEF AnyPaths
    <3>2. Len(p) <= 1 /\ \A j \in 1 .. Len(p) : p[j] = <<n>>[j]
      BY <1>12, <2>9 DEF Heads
    <3>3. Len(x.path) = 0 /\ Len(p) = 1
      BY <3>1, <3>2
    <3>4. x.path = <<>>
      BY <2>3, <3>3, EmptySeq DEF AnyPaths
    <3> QED BY <3>1, <3>2, <3>3, <3>4
  <2>11. x = Top0 /\ d = 0
    BY <1>1, <1>8, <2>2, <2>10, OnePath DEF D
  <2>12. p = <<n>>
    BY <2>3, <2>10
  <2>13. Child(T, x, k) = z
    BY <1>1, <1>8, <2>1, <2>9, <2>12, OnePath DEF D
  <2>14. i = e
    BY <1>8, <2>3, <2>13
  <2> QED BY <1>2, <1>5, <1>12, <2>6, <2>10, <2>11, <2>14
<1> QED BY <1>7, <1>11, <1>12


\* What is lost when no rm -r runs.
LEMMA LostNow ==
    ASSUME Mapped, stack = <<>>
    PROVE  Lost = LostOf(Now)
<1>1. T0 = View(Now)
  BY SeenNone DEF T0
<1> QED BY <1>1 DEF Mapped, LostOf, K0

LEMMA LostNext ==
    ASSUME NEW s, Mapped', Now' = s, stack' = <<>>
    PROVE  Lost' = LostOf(s)
<1>1. T0' = View(Now')
  BY SeenNone DEF T0
<1> QED BY <1>1 DEF Mapped, LostOf, K0

\* A fault that does no harm leaves what there was before the call or after it.
LEMMA StopsAt ==
    ASSUME NEW s \in FsStates, NEW whole, ~dirty', Live,
           \/ DiskError(s, whole) /\ Live'
           \/ PowerFailure(s, whole)
           \/ LosePower(s, whole)
    PROVE  s \in whole /\ Now' = s /\ stack' = <<>>
<1>1. CASE DiskError(s, whole) /\ Live'
  BY <1>1 DEF DiskError, Now
<1>2. CASE LosePower(s, whole)
  <2>1. s \in whole /\ Synced(s) /\ stack' = <<>> /\ fs' = PoweredOff(s) /\ phase' = "start"
    BY <1>2 DEF LosePower
  <2>2. Now' = Mounted(PoweredOff(s))
    BY <2>1 DEF Now, Live
  <2> QED BY <2>1, <2>2, MountedSame
<1> QED BY <1>1, <1>2 DEF PowerFailure

LEMMA CallLost ==
    ASSUME Mapped, Mapped', ~dirty', fs \in FsStates, NEW r, Call(r),
           r.final \in FsStates, r.cuts \in SUBSET FsStates,
           LostOf(r.final) \subseteq LostOf(fs)
    PROVE  Lost' \subseteq Lost
<1>1. Live /\ stack = <<>> /\ Now = fs
  BY DEF Call, Live, Now
<1>2. Lost = LostOf(fs)
  BY <1>1, LostNow
<1>3. ASSUME NEW s \in {fs, r.final}, Now' = s, stack' = <<>> PROVE Lost' \subseteq Lost
  <2>1. Lost' = LostOf(s)
    BY <1>3, LostNext
  <2> QED BY <1>2, <1>3, <2>1
<1>4. CASE fs' = r.final /\ UNCHANGED <<phase, stack>>
  <2>1. Now' = r.final /\ stack' = <<>>
    BY <1>1, <1>4 DEF Now, Live
  <2> QED BY <1>3, <2>1
<1>5. ASSUME NEW s \in r.cuts, DiskError(s, {fs, r.final}), UNCHANGED phase
      PROVE  Lost' \subseteq Lost
  <2>1. Live' /\ s \in FsStates
    BY <1>1, <1>5 DEF Live
  <2>2. s \in {fs, r.final} /\ Now' = s /\ stack' = <<>>
    BY <1>1, <1>5, <2>1, StopsAt
  <2> QED BY <1>3, <2>2
<1>6. ASSUME NEW s \in r.cuts, PowerFailure(s, {fs, r.final})
      PROVE  Lost' \subseteq Lost
  <2>1. s \in FsStates
    BY <1>6
  <2>2. s \in {fs, r.final} /\ Now' = s /\ stack' = <<>>
    BY <1>1, <1>6, <2>1, StopsAt
  <2> QED BY <1>3, <2>2
<1> QED BY <1>4, <1>5, <1>6 DEF Call

\* A move between two directories loses what is moved only if it is moved into
\* itself, and a directory of the root only can be.
IntoItself(p, q) == InRoot(p) /\ q.dir = p.name

LEMMA CallsLost ==
    ASSUME IInv, BInv, EInv, Mapped, Mapped', ~dirty, ~dirty',
           NEW p \in PathRecords, NEW q \in PathRecords
    PROVE  /\ Mkdir(p) => Lost' \subseteq Lost
           /\ Create(p) => Lost' \subseteq Lost
           /\ \A text \in Texts \union {Empty} : Write(p, text) => Lost' \subseteq Lost
           /\ Remove(p) => Lost' \subseteq Lost
           /\ Copy(p, q) => Lost' \subseteq Lost
           /\ Rename(p, q) => Lost' \subseteq Lost \/ IntoItself(p, q)
<1>1. ASSUME NEW r, Call(r), fs \in Rooted => r \in Outcomes(fs)
      PROVE  /\ fs \in Neat /\ fs \in FsStates
             /\ r.final \in FsStates /\ r.cuts \in SUBSET FsStates
  <2>1. Live /\ stack = <<>>
    BY <1>1 DEF Call, Live
  <2>2. fs \in Neat
    BY <2>1, LiveNeat
  <2> QED BY <1>1, <2>1, <2>2, ReachTypes DEF IInv, TypeOK, Outcomes
<1>2. ASSUME NEW r, Call(r), fs \in Neat => Single(fs, r), fs \in Rooted => r \in Outcomes(fs)
      PROVE  Lost' \subseteq Lost
  <2>1. fs \in Neat /\ fs \in FsStates /\ r.final \in FsStates /\ r.cuts \in SUBSET FsStates
    BY <1>1, <1>2
  <2>2. fs \in Orderly /\ r.final \in Orderly /\ \E i : One(fs, r.final, i)
    BY <1>2, <2>1 DEF Single, Neat
  <2>3. LostOf(r.final) \subseteq LostOf(fs)
    BY <2>2, OneLost
  <2> QED BY <1>2, <2>1, <2>3, CallLost
<1>3. ASSUME NEW text \in Texts \union {Empty} PROVE text \in Contents
  BY DEF Contents
<1>4. Mkdir(p) => Lost' \subseteq Lost
  BY <1>2, CallsSingle, MkdirOutcome DEF Mkdir
<1>5. Create(p) => Lost' \subseteq Lost
  BY <1>2, CallsSingle, CreateOutcome DEF Create, PathRecords
<1>6. ASSUME NEW text \in Texts \union {Empty} PROVE Write(p, text) => Lost' \subseteq Lost
  BY <1>2, <1>3, CallsSingle, WriteOutcome DEF Write
<1>7. Remove(p) => Lost' \subseteq Lost
  BY <1>2, CallsSingle, RemoveOutcome DEF Remove
<1>8. Copy(p, q) => Lost' \subseteq Lost
  BY <1>2, CallsSingle, CopyOutcome DEF Copy
<1>9. ASSUME Rename(p, q) PROVE Lost' \subseteq Lost \/ IntoItself(p, q)
  <2> DEFINE r == fs_rename(fs, p, q)
  <2>1. Call(r) /\ (fs \in Rooted => r \in Outcomes(fs))
    BY <1>9, RenameOutcome DEF Rename
  <2>2. fs \in Neat /\ fs \in FsStates /\ r.final \in FsStates /\ r.cuts \in SUBSET FsStates
    BY <1>1, <2>1
  <2>3. fs \in Orderly /\ r.final \in Orderly
        /\ (r.final = fs \/ \E k \in Slots : Renames(fs, r.final, p, q, k))
    BY <2>2, RenameOrderly, RenameDoes DEF Neat
  <2> HIDE DEF r
  <2>4. LostOf(r.final) \subseteq LostOf(fs) \/ IntoItself(p, q)
    BY <2>3, RenameLost DEF IntoItself
  <2> QED BY <2>1, <2>2, <2>4, CallLost
<1> QED BY <1>4, <1>5, <1>6, <1>7, <1>8, <1>9


LEMMA PacesLost ==
    ASSUME NEW K, NEW T, NEW K2, NEW T2, NEW i, Paces(K, T, K2, T2, i)
    PROVE  LostSet(K2, T2) \subseteq LostSet(K, T)
BY DEF Paces, LostSet

LEMMA GoesOnLost ==
    ASSUME IInv, BInv, EInv, Mapped, Mapped', ~dirty, Live, NEW i, GoesOn(i)
    PROVE  Lost' \subseteq Lost
<1>1. fs \in Tidy /\ stack \in Seq(Frames) /\ Strolls(fs, stack)
  BY DEF IInv, TypeOK, BInv, Whole, EInv, Held
<1>2. Live' /\ Now = fs /\ Now' = fs' /\ Walked(fs, stack, fs', stack', i)
  BY DEF GoesOn, Live, Now
<1>3. Seen(fs', stack') \in Views
  BY <1>2 DEF Mapped, T0
<1>4. Paces(Kinds(fs), Seen(fs, stack), Kinds(fs'), Seen(fs', stack'), i)
  BY <1>1, <1>2, <1>3, WalkedSets
<1>5. Lost = LostSet(Kinds(fs), Seen(fs, stack)) /\ Lost' = LostSet(Kinds(fs'), Seen(fs', stack'))
  BY <1>2 DEF Mapped, K0, T0
<1> QED BY <1>4, <1>5, PacesLost

LEMMA RemoveLost ==
    ASSUME IInv, BInv, EInv, Mapped, Mapped', ~dirty, ~dirty', RemoveStep
    PROVE  Lost' \subseteq Lost
<1>1. Live
  BY RemoveLive
<1>2. PICK i \in Inodes : GoesOn(i) \/ IsCut(i)
  BY <1>1, RemoveStepDoes DEF EInv, Held
<1>3. ~IsCut(i)
  BY DEF IsCut, RemoveFaults, DiskError, PowerFailure, LosePower
<1> QED BY <1>1, <1>2, <1>3, GoesOnLost

\* Nothing is lost by what leaves the filesystem as it is.
LEMMA SameLost ==
    ASSUME Mapped, Mapped', stack = <<>>, stack' = <<>>, Now' = Now
    PROVE  Lost' \subseteq Lost
BY LostNow, LostNext

\* fs_init leaves a sound filesystem as it is, read into RAM or not.
LEMMA MountSame ==
    ASSUME IInv, BInv, Sound, ~dirty', Mount
    PROVE  Now' = Now /\ stack = <<>> /\ stack' = <<>>
<1> DEFINE r == fs_init(fs)
<1>1. /\ fs \in FsStates /\ phase \in {"start", "reinit"} /\ fs.dsb \in BOOLEAN
      /\ stack = <<>>
  BY DEF IInv, TypeOK, FsStates, Mount, Running
<1>2. phase = "reinit" => Synced(fs) /\ fs.dsb
  BY DEF BInv, Whole, Synced, Sound
<1>3. fs.dsb
  BY <1>1, <1>2 DEF Sound, Live
<1>4. r.cuts = MountCuts(fs) /\ r.ok = TRUE /\ r.final = Mounted(fs)
  BY <1>1, <1>3 DEF fs_init, Outcome, Mounted
<1> HIDE DEF r
<1>5. /\ stack' = <<>>
      /\ \/ fs' = Mounted(fs) /\ Live'
         \/ fs' \in MountCuts(fs) /\ phase' = (IF phase = "start" THEN "format" ELSE "ready")
            /\ (phase = "start" \/ fs' = fs)
  BY <1>1, <1>4 DEF Mount, r, Live, DiskError
<1>6. Now' = Now
  <2>1. CASE phase = "start"
    <3>1. Now = Mounted(fs)
      BY <2>1 DEF Now, Live
    <3>2. fs' \in MountCuts(fs) => Mounted(fs') = Mounted(fs)
      BY <1>1, MountedSame
    <3>3. CASE fs' = Mounted(fs) /\ Live'
      BY <3>1, <3>3 DEF Now
    <3>4. CASE fs' \in MountCuts(fs) /\ phase' = "format"
      <4>1. Now' = Mounted(fs')
        BY <3>4 DEF Now, Live
      <4> QED BY <3>1, <3>2, <3>4, <4>1
    <3> QED BY <1>5, <2>1, <3>3, <3>4
  <2>2. CASE phase = "reinit"
    <3>1. Mounted(fs) = fs
      BY <1>1, <1>2, <2>2, MountedSame
    <3>2. fs' = fs /\ Live' /\ Live
      BY <1>5, <2>2, <3>1 DEF Live
    <3> QED BY <3>2 DEF Now
  <2> QED BY <1>1, <2>1, <2>2
<1> QED BY <1>1, <1>5, <1>6

LEMMA MountLost ==
    ASSUME IInv, BInv, Sound, ~dirty', Mapped, Mapped', Mount
    PROVE  Lost' \subseteq Lost
BY MountSame, SameLost

\* What a format leaves when no fault has cut it short.
LEMMA FormatLeaves ==
    ASSUME IInv, ~dirty', Format
    PROVE  FreshDisk(Now') /\ Synced(Now') /\ stack' = <<>>
<1> DEFINE r == fs_format(fs)
<1>1. fs \in FsStates /\ fs \in Mountable /\ phase \in {"format", "ready"} /\ stack = <<>>
  BY DEF IInv, TypeOK, Format
<1>2. FreshDisk(r.final) /\ Synced(r.final) /\ r.final \in FsStates
  BY <1>1, FormatMakes, FormatOutcome, FreshNeat DEF Neat, Orderly, Tidy
<1> HIDE DEF r
<1> DEFINE Made == Now' = r.final /\ stack' = <<>>
<1>3. ASSUME fs' = r.final, phase' = "reinit", UNCHANGED stack PROVE Made
  BY <1>1, <1>3 DEF Now, Live
<1>4. ASSUME NEW s, DiskError(s, {r.final}),
             phase' = (IF phase = "format" THEN "reinit" ELSE "ready")
      PROVE  Made
  <2>1. fs' = r.final /\ stack' = <<>> /\ Live'
    BY <1>1, <1>4 DEF DiskError, Live
  <2> QED BY <2>1 DEF Now
<1>5. ASSUME NEW s, PowerFailure(s, {r.final}) PROVE Made
  <2>1. s = r.final /\ stack' = <<>> /\ fs' = PoweredOff(s) /\ phase' = "start"
    BY <1>5 DEF PowerFailure, LosePower
  <2>2. Now' = Mounted(PoweredOff(s))
    BY <2>1 DEF Now, Live
  <2> QED BY <1>2, <2>1, <2>2, MountedSame
<1>6. \/ fs' = r.final /\ phase' = "reinit" /\ UNCHANGED stack
      \/ \E s : DiskError(s, {r.final}) /\ phase' = (IF phase = "format" THEN "reinit" ELSE "ready")
      \/ \E s : PowerFailure(s, {r.final})
  BY DEF Format, r
<1> QED BY <1>2, <1>3, <1>4, <1>5, <1>6

LEMMA FormatLost ==
    ASSUME IInv, ~dirty', Mapped', Format
    PROVE  Lost' \subseteq Lost
<1>1. Lost' = LostOf(Now')
  BY FormatLeaves, LostNext
<1> DEFINE K == Kinds(Now')
           T == View(Now')
<1>2. /\ Reached(K, T) = {0, 1} /\ FileSet(K, T) = {2, 3}
      /\ \A i \in Inodes : K[i] # "none" => i \in {0, 1, 2, 3}
  BY FormatLeaves, FreshSets
<1>3. LostSet(K, T) = {}
  BY <1>2 DEF LostSet
<1> QED BY <1>1, <1>3 DEF LostOf

LEMMA StepLost ==
    ASSUME IInv, BInv, LInv, EInv, Sound, Sound', Mapped', [Next]_vars, ~(Lost' \subseteq Lost)
    PROVE  \/ \E hash \in Hashes : WritePasswd(hash)
           \/ \E p, q \in Paths : InRoot(p) /\ q.dir = p.name /\ Rename(p, q)
<1>1. Mapped
  BY NowMapped
<1>2. ~dirty /\ ~dirty'
  BY DEF Sound
<1>3. Paths \subseteq PathRecords
  BY FilesystemAssumption
<1>4. Next
  <2> SUFFICES ASSUME UNCHANGED vars PROVE FALSE
    BY DEF vars
  <2>1. Now' = Now /\ K0' = K0 /\ T0' = T0
    BY DEF vars, Now, Live, K0, T0
  <2>2. Lost' = Lost
    BY <1>1, <2>1 DEF Mapped
  <2> QED BY <2>2
<1>5. ~Reboot
  <2> SUFFICES ASSUME Reboot PROVE FALSE
    OBVIOUS
  <2>1. Live /\ stack = <<>> /\ LosePower(fs, {fs}) /\ fs \in FsStates
    BY DEF Reboot, Live, IInv, TypeOK
  <2>2. Now' = fs /\ stack' = <<>>
    BY <1>2, <2>1, StopsAt
  <2>3. Now = fs
    BY <2>1 DEF Now
  <2> QED BY <1>1, <2>1, <2>2, <2>3, SameLost
<1>6. ASSUME NEW p \in Paths, RemoveRecursive(p) PROVE FALSE
  <2>1. GoesOn(0) /\ Live
    BY <1>2, <1>3, <1>6, RemoveRecursiveDoes DEF Live
  <2> QED BY <1>1, <1>2, <2>1, GoesOnLost
<1>7. ASSUME NEW p \in Paths, NEW q \in Paths
      PROVE  /\ ~Mkdir(p) /\ ~Create(p) /\ ~Remove(p) /\ ~Copy(p, q)
             /\ \A text \in Texts \union {Empty} : ~Write(p, text)
             /\ Rename(p, q) => IntoItself(p, q)
  BY <1>1, <1>2, <1>3, CallsLost
<1>8. ~Mount /\ ~Format /\ ~RemoveStep
  BY <1>1, <1>2, MountLost, FormatLost, RemoveLost
<1> QED BY <1>4, <1>5, <1>6, <1>7, <1>8 DEF Next, IntoItself

\* What a call has put into use stays within reach until it is removed: only a
\* passwd that finds no room and a directory of the root that is moved into
\* itself leave inodes and blocks in use that no path leads to.
THEOREM NothingElseIsLost == Spec => LostInTwoWays
<1>1. IInv /\ BInv /\ LInv /\ EInv /\ Sound => Mapped
  BY NowMapped
<1>2. ASSUME IInv, BInv, LInv, EInv, Sound' => Mapped', [Next]_vars
      PROVE  Sound /\ Sound' /\ ~(Lost' \subseteq Lost)
               => \/ \E hash \in Hashes : WritePasswd(hash)
                  \/ \E p, q \in Paths : InRoot(p) /\ q.dir = p.name /\ Rename(p, q)
  BY <1>2, StepLost
<1> QED BY <1>1, <1>2, FilesInvariant, PTL DEF Spec, LostInTwoWays

-----------------------------------------------------------------------------
(* What the user sees, and that it changes as FileTree has it.             *)

\* What a file reads as.
ReadOf(st, i) ==
    IF st.inodes[i].size = 0 THEN Empty
    ELSE IF st.inodes[i].size = LengthOf[st.blocks[st.inodes[i].block].text]
         THEN st.blocks[st.inodes[i].block].text
         ELSE JunkName

PathsOf(F) == {x.path : x \in F}
FilesRead(st, F) == [p \in PathsOf(F) |-> ReadOf(st, (CHOOSE x \in F : x.path = p).inode)]

\* A set of places of which no two have one path.
Unique(F) == \A x, y \in F : x.path = y.path => x = y

LEMMA FilesReadAt ==
    ASSUME NEW st, NEW F, Unique(F)
    PROVE  /\ DOMAIN FilesRead(st, F) = PathsOf(F)
           /\ \A x \in F : x.path \in PathsOf(F) /\ FilesRead(st, F)[x.path] = ReadOf(st, x.inode)
<1>1. ASSUME NEW x \in F PROVE x.path \in PathsOf(F) /\ FilesRead(st, F)[x.path] = ReadOf(st, x.inode)
  <2>1. x.path \in PathsOf(F)
    BY DEF PathsOf
  <2> DEFINE y == CHOOSE y \in F : y.path = x.path
  <2>2. y \in F /\ y.path = x.path
    OBVIOUS
  <2>3. y = x
    BY <2>2 DEF Unique
  <2>4. FilesRead(st, F)[x.path] = ReadOf(st, y.inode)
    BY <2>1 DEF FilesRead
  <2> QED BY <2>1, <2>3, <2>4
<1> QED BY <1>1 DEF FilesRead

\* TreeSeen in terms of the places.
LEMMA TreeSeenIs ==
    ASSUME fs \in FsStates, Mapped, Sound
    PROVE  /\ TreeSeen = [dirs |-> PathsOf(DirsOf(K0, T0)),
                          files |-> FilesRead(Now, FilesOf(K0, T0)), intact |-> TRUE]
           /\ Unique(FilesOf(K0, T0)) /\ Unique(DirsOf(K0, T0))
<1> DEFINE D == DirsOf(K0, T0)
           F == FilesOf(K0, T0)
           seen == {[path |-> x.path, text |-> Reading(x.inode)] : x \in F}
<1>1. TreeDirs = D /\ TreeFiles = F /\ Unique(F) /\ Unique(D)
  BY OnePath, FilesIn DEF Mapped, Unique
<1>2. ASSUME NEW i \in Inodes PROVE Reading(i) = ReadOf(Now, i)
  <2>1. Inode = Now.inodes /\ fs.blocks = Now.blocks
    BY DEF Mapped
  <2>2. Content(i) = [text |-> Now.blocks[Now.inodes[i].block].text, size |-> Now.inodes[i].size]
    BY <2>1 DEF Content, ContentOf, FsStates
  <2> QED BY <2>2 DEF Reading, ReadOf
<1>3. \A x \in F : x.inode \in Inodes
  BY DEF FilesOf, Spots
<1> HIDE DEF D, F
<1>4. {r.path : r \in seen} = PathsOf(F)
  <2> DEFINE at(x) == [path |-> x.path, text |-> Reading(x.inode)]
  <2>1. \A x \in F : at(x) \in seen /\ at(x).path = x.path
    OBVIOUS
  <2>2. \A r \in seen : \E x \in F : r.path = x.path
    OBVIOUS
  <2> HIDE DEF at, seen
  <2> QED BY <2>1, <2>2 DEF PathsOf
<1>5. ASSUME NEW p \in PathsOf(F)
      PROVE  (CHOOSE r \in seen : r.path = p).text = FilesRead(Now, F)[p]
  <2>1. PICK x \in F : x.path = p
    BY DEF PathsOf
  <2> DEFINE r == CHOOSE r \in seen : r.path = p
             v == [path |-> x.path, text |-> Reading(x.inode)]
  <2>2. v \in seen /\ v.path = p
    BY <2>1
  <2>3. r \in seen /\ r.path = p
    BY <2>2
  <2>4. PICK y \in F : r = [path |-> y.path, text |-> Reading(y.inode)]
    BY <2>3
  <2> HIDE DEF r, seen
  <2>5. y = x
    <3>1. y.path = r.path
      BY <2>4
    <3> QED BY <1>1, <2>1, <2>3, <3>1 DEF Unique
  <2>6. r.text = ReadOf(Now, x.inode)
    BY <1>2, <1>3, <2>4, <2>5
  <2>7. FilesRead(Now, F)[x.path] = ReadOf(Now, x.inode)
    BY <1>1, FilesReadAt
  <2> QED BY <2>1, <2>6, <2>7 DEF r
<1>6. FilesSeen = FilesRead(Now, F)
  <2> DEFINE f == [p \in {r.path : r \in seen} |-> (CHOOSE r \in seen : r.path = p).text]
             g == FilesRead(Now, F)
  <2>1. FilesSeen = f
    BY <1>1 DEF FilesSeen
  <2>2. DOMAIN g = PathsOf(F)
    BY <1>1, FilesReadAt
  <2>3. g = [p \in PathsOf(F) |-> g[p]]
    BY DEF FilesRead
  <2>4. f = [p \in PathsOf(F) |-> g[p]]
    <3> DEFINE value(p) == (CHOOSE r \in seen : r.path = p).text
    <3>1. f = [p \in PathsOf(F) |-> value(p)]
      BY <1>4, Zenon
    <3>2. \A p \in PathsOf(F) : value(p) = g[p]
      BY <1>5
    <3> HIDE DEF value, f, g, seen
    <3> QED BY <3>1, <3>2
  <2> QED BY <2>1, <2>3, <2>4
<1> QED BY <1>1, <1>6 DEF TreeSeen, PathsOf, F, D

-----------------------------------------------------------------------------
(* The readers find what is in the tree *)

Base(path) == IF InRoot(path) THEN <<>> ELSE <<path.dir>>
PlaceOf(path) == Append(Base(path), path.name)

\* The directory part of a path.
LEMMA BaseIs ==
    ASSUME NEW st \in Orderly, NEW path \in PathRecords, NEW d, d = DirOf(st, path)
    PROVE  \/ /\ Usable(st, d) /\ d \in Inodes
              /\ \E x \in DirsOf(Kinds(st), View(st)) : x.inode = d /\ x.path = Base(path)
           \/ /\ ~Usable(st, d)
              /\ \A x \in DirsOf(Kinds(st), View(st)) : x.path # Base(path)
<1> DEFINE K == Kinds(st)
           T == View(st)
           R == Reached(K, T)
           D == DirsOf(K, T)
<1>1. T \in Views /\ Linked(K, T, R) /\ st \in Tidy /\ st \in FsStates /\ K \in [Inodes -> Kind]
  BY OrderlyHas
<1>2. Top0 \in D /\ D \subseteq Spots /\ Top0.inode = 0 /\ Top0.path = <<>>
  BY <1>1, DirsClosed DEF Closed, Top0
<1>3. ASSUME NEW x \in D PROVE Usable(st, x.inode) /\ x.inode \in Inodes
  <2>1. x.inode \in Inodes /\ K[x.inode] = "dir"
    BY <1>1, DirsIn
  <2>2. st.inodes[x.inode].type # "none"
    BY <2>1 DEF Kinds
  <2>3. st.inodes[x.inode].block # 0
    BY <1>1, <2>1, <2>2, OwnBlock
  <2> QED BY <2>1, <2>3 DEF Usable
<1>4. CASE InRoot(path)
  <2>1. d = 0 /\ Base(path) = <<>>
    BY <1>4 DEF DirOf, Base
  <2> QED BY <1>2, <1>3, <2>1
<1>5. CASE ~InRoot(path)
  <2>1. d = SubDir(st, path.dir) /\ Base(path) = <<path.dir>> /\ path.dir \in Names
    BY <1>5 DEF DirOf, Base, InRoot, PathRecords
  <2>2. CASE [path |-> <<path.dir>>, inode |-> d] \in D
    <3> DEFINE x == [path |-> <<path.dir>>, inode |-> d]
    <3>1. x \in D /\ x.inode = d /\ x.path = Base(path)
      BY <2>1, <2>2
    <3> HIDE DEF x, D
    <3> QED BY <1>3, <3>1 DEF D
  <2>3. CASE /\ d = NoDir
             /\ \A s \in Slots : T[0][s].name = path.dir => ~Leads(K, T, 0, s, "dir")
    <3>1. ~Usable(st, d)
      BY <2>3, Numbers DEF Usable, NoDir
    <3>2. ASSUME NEW x \in D, x.path = <<path.dir>> PROVE FALSE
      <4>1. x # Top0
        <5>1. <<path.dir>> # <<>>
          OBVIOUS
        <5> HIDE DEF D
        <5> QED BY <1>2, <3>2, <5>1
      <4>2. PICK y \in D, s \in Slots : Leads(K, T, y.inode, s, "dir") /\ x = Child(T, y, s)
        BY <1>1, <4>1, DirsSplit
      <4> DEFINE a == T[y.inode][s].name
                 b == path.dir
                 u == y.path
      <4>3. a \in Names /\ u \in Seq(AnyNames) /\ x.path = Append(u, a)
        <5>1. InUse(T, y.inode, s)
          BY <4>2 DEF Leads
        <5> QED BY <1>1, <1>2, <4>2, <5>1, OneParent DEF Child, Spots
      <4>4. Append(u, a) = Append(<<>>, b)
        <5>1. Append(<<>>, b) = <<b>>
          OBVIOUS
        <5> QED BY <3>2, <4>3, <5>1
      <4>5. a \in AnyNames /\ b \in AnyNames /\ <<>> \in Seq(AnyNames)
        BY <2>1, <4>3 DEF AnyNames
      <4>6. u = <<>> /\ a = b
        <5> HIDE DEF a, b, u
        <5> QED BY <4>3, <4>4, <4>5, AppendIs
      <4>7. y = Top0
        BY <1>1, <1>2, <4>6, OnePath
      <4> QED BY <1>2, <2>3, <4>2, <4>6, <4>7
    <3> QED BY <2>1, <3>1, <3>2
  <2>4. \/ [path |-> <<path.dir>>, inode |-> d] \in D
        \/ /\ d = NoDir
           /\ \A s \in Slots : T[0][s].name = path.dir => ~Leads(K, T, 0, s, "dir")
    BY <2>1, SubDirIs
  <2> QED BY <2>2, <2>3, <2>4
<1> QED BY <1>4, <1>5

\* What an entry is called and refers to.
AtPlace(K, T, path, type, i) ==
    \E x \in DirsOf(K, T), s \in Slots :
        Leads(K, T, x.inode, s, type) /\ Child(T, x, s) = [path |-> PlaceOf(path), inode |-> i]

LEMMA EntryAt ==
    ASSUME NEW st \in Orderly, NEW path \in PathRecords, path.name # NoName, NEW type,
           NEW d, d = DirOf(st, path), NEW t, t = load_dir_block(st, d),
           NEW f, f = find_dir_entry(t, st.inodes, path.name, type)
    PROVE  \/ Usable(st, d) /\ f # 0 /\ AtPlace(Kinds(st), View(st), path, type, t[f].inode)
           \/ ~(Usable(st, d) /\ f # 0) /\ \A i : ~AtPlace(Kinds(st), View(st), path, type, i)
<1> DEFINE K == Kinds(st)
           T == View(st)
           R == Reached(K, T)
           D == DirsOf(K, T)
           b == path.name
<1>1. T \in Views /\ Linked(K, T, R)
  BY OrderlyHas
<1>2. b \in Names /\ b \in AnyNames
  BY DEF PathRecords, AnyNames
<1>3. \A y \in D : y.path \in Seq(AnyNames)
  BY <1>1, DirsClosed DEF Spots
<1>4. CASE Usable(st, d) /\ \E x \in D : x.inode = d /\ x.path = Base(path)
  <2>1. PICK x \in D : x.inode = d /\ x.path = Base(path)
    BY <1>4
  <2>2. d \in R
    BY <2>1 DEF Reached
  <2>3. \/ /\ f # 0 /\ f \in Slots /\ Leads(K, T, d, f, type) /\ T[d][f].name = b
           /\ t = T[d]
        \/ f = 0 /\ \A s \in Slots : T[d][s].name = b => ~Leads(K, T, d, s, type)
    BY <2>2, FindIs
  <2>4. CASE f # 0
    <3>1. Child(T, x, f) = [path |-> PlaceOf(path), inode |-> t[f].inode]
      BY <2>1, <2>3, <2>4 DEF Child, PlaceOf
    <3> QED BY <1>4, <2>1, <2>3, <2>4, <3>1 DEF AtPlace
  <2>5. CASE f = 0
    <3>1. ASSUME NEW i, AtPlace(K, T, path, type, i) PROVE FALSE
      <4>1. PICK y \in D, s \in Slots : /\ Leads(K, T, y.inode, s, type)
                                        /\ Child(T, y, s) = [path |-> PlaceOf(path), inode |-> i]
        BY <3>1 DEF AtPlace
      <4> DEFINE a == T[y.inode][s].name
                 u == y.path
                 v == x.path
      <4>2. InUse(T, y.inode, s)
        BY <4>1 DEF Leads
      <4>3. a \in AnyNames /\ u \in Seq(AnyNames) /\ v \in Seq(AnyNames) /\ Append(u, a) = Append(v, b)
        <5>1. a \in Names
          BY <1>1, <4>2, OneParent
        <5>2. Child(T, y, s).path = Append(u, a)
          BY DEF Child
        <5>3. Child(T, y, s).path = Append(v, b)
          BY <2>1, <4>1 DEF PlaceOf
        <5> QED BY <1>3, <5>1, <5>2, <5>3 DEF AnyNames
      <4>4. u = v /\ a = b
        <5> HIDE DEF a, b, u, v
        <5> QED BY <1>2, <4>3, AppendIs
      <4>5. y = x
        BY <1>1, <4>4, OnePath
      <4> QED BY <2>1, <2>3, <2>5, <4>1, <4>4, <4>5
    <3> QED BY <2>5, <3>1
  <2> QED BY <2>4, <2>5
<1>5. CASE ~Usable(st, d) /\ \A x \in D : x.path # Base(path)
  <2>1. ASSUME NEW i, AtPlace(K, T, path, type, i) PROVE FALSE
    <3>1. PICK y \in D, s \in Slots : /\ Leads(K, T, y.inode, s, type)
                                      /\ Child(T, y, s) = [path |-> PlaceOf(path), inode |-> i]
      BY <2>1 DEF AtPlace
    <3> DEFINE a == T[y.inode][s].name
               u == y.path
               v == Base(path)
    <3>2. InUse(T, y.inode, s)
      BY <3>1 DEF Leads
    <3>3. a \in AnyNames /\ u \in Seq(AnyNames) /\ v \in Seq(AnyNames) /\ Append(u, a) = Append(v, b)
      <4>1. a \in Names
        BY <1>1, <3>2, OneParent
      <4>2. Child(T, y, s).path = Append(u, a)
        BY DEF Child
      <4>3. Child(T, y, s).path = Append(v, b)
        BY <3>1 DEF PlaceOf
      <4>4. v \in Seq(AnyNames)
        <5>1. InRoot(path) \/ path.dir \in AnyNames
          BY DEF InRoot, PathRecords, AnyNames
        <5> QED BY <5>1 DEF Base
      <4> QED BY <1>3, <4>1, <4>2, <4>3, <4>4 DEF AnyNames
    <3>4. u = v
      <4> HIDE DEF a, b, u, v
      <4> QED BY <1>2, <3>3, AppendIs
    <3> QED BY <1>5, <3>4
  <2> QED BY <1>5, <2>1
<1> QED BY <1>4, <1>5, BaseIs

LEMMA PlacesRead ==
    ASSUME NEW st \in Orderly, NEW path \in PathRecords, path.name # NoName,
           NEW K, K = Kinds(st), NEW T, T = View(st)
    PROVE  /\ fs_is_dir(st, path) <=> PlaceOf(path) \in PathsOf(DirsOf(K, T))
           /\ FileAt(st, path) # 0 <=> PlaceOf(path) \in PathsOf(FilesOf(K, T))
           /\ FileAt(st, path) # 0 =>
                [path |-> PlaceOf(path), inode |-> FileAt(st, path)] \in FilesOf(K, T)
<1> DEFINE d == DirOf(st, path)
           t == load_dir_block(st, d)
           f(type) == find_dir_entry(t, st.inodes, path.name, type)
           D == DirsOf(K, T)
<1>1. T \in Views /\ Linked(K, T, Reached(K, T))
  BY OrderlyHas
<1>2. ASSUME NEW type
      PROVE  \/ Usable(st, d) /\ f(type) # 0 /\ AtPlace(K, T, path, type, t[f(type)].inode)
             \/ ~(Usable(st, d) /\ f(type) # 0) /\ \A i : ~AtPlace(K, T, path, type, i)
  BY EntryAt
<1>3. fs_is_dir(st, path) <=> Usable(st, d) /\ f("dir") # 0
  BY DEF fs_is_dir
<1>4. FileAt(st, path) = IF Usable(st, d) /\ f("file") # 0 THEN t[f("file")].inode ELSE 0
  BY DEF FileAt
<1>5. PlaceOf(path) \in PathsOf(D) <=> \E i : AtPlace(K, T, path, "dir", i)
  <2>1. ASSUME NEW x \in D, x.path = PlaceOf(path) PROVE \E i : AtPlace(K, T, path, "dir", i)
    <3>1. x # Top0 /\ x \in Spots
      <4>1. PlaceOf(path) # <<>>
        BY DEF PlaceOf, Base, InRoot
      <4> QED BY <1>1, <2>1, <4>1, DirsClosed DEF Top0
    <3>2. PICK y \in D, s \in Slots : Leads(K, T, y.inode, s, "dir") /\ x = Child(T, y, s)
      BY <1>1, <3>1, DirsSplit
    <3>3. Child(T, y, s) = [path |-> PlaceOf(path), inode |-> x.inode]
      BY <2>1, <3>1, <3>2 DEF Spots
    <3> QED BY <3>2, <3>3 DEF AtPlace
  <2>2. ASSUME NEW i, AtPlace(K, T, path, "dir", i) PROVE PlaceOf(path) \in PathsOf(D)
    <3>1. PICK y \in D, s \in Slots : /\ Leads(K, T, y.inode, s, "dir")
                                      /\ Child(T, y, s) = [path |-> PlaceOf(path), inode |-> i]
      BY <2>2 DEF AtPlace
    <3>2. Child(T, y, s) \in D
      BY <1>1, <3>1, DirsClosed DEF Closed
    <3>3. Child(T, y, s).path = PlaceOf(path)
      BY <3>1
    <3> QED BY <3>2, <3>3 DEF PathsOf
  <2> QED BY <2>1, <2>2 DEF PathsOf
<1>6. \A i : AtPlace(K, T, path, "file", i) <=> [path |-> PlaceOf(path), inode |-> i] \in FilesOf(K, T)
  <2>1. ASSUME NEW y \in D, NEW s \in Slots, Leads(K, T, y.inode, s, "file")
        PROVE  Child(T, y, s) \in Spots
    <3>1. y \in Spots /\ InUse(T, y.inode, s)
      BY <1>1, <2>1, DirsClosed DEF Leads
    <3> QED BY <1>1, <3>1, SpotTypes
  <2> HIDE DEF D
  <2> QED BY <2>1 DEF AtPlace, FilesOf, D
<1>7. \A x \in FilesOf(K, T) : x = [path |-> x.path, inode |-> x.inode] /\ x.inode # 0
  <2>1. \A x \in FilesOf(K, T) : x \in Spots
    BY DEF FilesOf
  <2> QED BY <1>1, <2>1, FilesIn DEF Spots
<1> HIDE DEF d, t, f, D
<1>8. FileAt(st, path) # 0 => [path |-> PlaceOf(path), inode |-> FileAt(st, path)] \in FilesOf(K, T)
  BY <1>2, <1>4, <1>6
<1>9. ASSUME PlaceOf(path) \in PathsOf(FilesOf(K, T)) PROVE FileAt(st, path) # 0
  <2>1. PICK x \in FilesOf(K, T) : x.path = PlaceOf(path)
    BY <1>9 DEF PathsOf
  <2>2. AtPlace(K, T, path, "file", x.inode)
    BY <1>6, <1>7, <2>1
  <2>3. Usable(st, d) /\ f("file") # 0 /\ AtPlace(K, T, path, "file", t[f("file")].inode)
    BY <1>2, <2>2
  <2>4. [path |-> PlaceOf(path), inode |-> t[f("file")].inode] \in FilesOf(K, T)
    BY <1>6, <2>3
  <2>5. t[f("file")].inode # 0
    BY <1>7, <2>4
  <2> QED BY <1>4, <2>3, <2>5
<1>10. FileAt(st, path) # 0 => PlaceOf(path) \in PathsOf(FilesOf(K, T))
  <2> DEFINE x == [path |-> PlaceOf(path), inode |-> FileAt(st, path)]
  <2>1. x.path = PlaceOf(path)
    OBVIOUS
  <2> QED BY <1>8, <2>1 DEF PathsOf
<1> QED BY <1>2, <1>3, <1>5, <1>8, <1>9, <1>10 DEF D


-----------------------------------------------------------------------------
(* The history variable holds the tree *)

AllInv == IInv /\ BInv /\ LInv /\ EInv

\* g_mounted is set only while the tables in RAM count.
MInv == mounted => Live

LEMMA MountedLive ==
    ASSUME MInv, [Next]_vars
    PROVE  MInv'
<1>1. ASSUME NEW r, Call(r) PROVE MInv'
  BY <1>1 DEF Call, DiskError, PowerFailure, LosePower, MInv, Live
<1>2. ASSUME NEW cuts, RemoveFaults(cuts) PROVE MInv'
  BY <1>2 DEF RemoveFaults, DiskError, PowerFailure, LosePower, MInv, Live
<1>3. ASSUME NEW s, NEW frames, Goes(s, frames) PROVE MInv'
  BY <1>3 DEF Goes, MInv, Live
<1>4. Mount => MInv'
  BY DEF Mount, MInv, Live
<1>5. Format => MInv'
  BY DEF Format, DiskError, PowerFailure, LosePower, MInv, Live
<1>6. Reboot => MInv'
  BY DEF Reboot, LosePower, MInv, Live
<1>7. ASSUME NEW p \in Paths, NEW q \in Paths
      PROVE  /\ Mkdir(p) => MInv'
             /\ Create(p) => MInv'
             /\ \A text \in Texts \union {Empty} : Write(p, text) => MInv'
             /\ Remove(p) => MInv'
             /\ RemoveRecursive(p) => MInv'
             /\ Copy(p, q) => MInv'
             /\ Rename(p, q) => MInv'
  BY <1>1, <1>3 DEF Mkdir, Create, Write, Remove, RemoveRecursive, Copy, Rename
<1>8. \A hash \in Hashes : WritePasswd(hash) => MInv'
  BY <1>1 DEF WritePasswd
<1>9. RemoveStep => MInv'
  <2>1. RemoveEnter \/ RemoveCurrent \/ RemoveLeave \/ RemoveGivesUp => MInv'
    BY <1>2, <1>3 DEF RemoveEnter, RemoveCurrent, RemoveLeave, RemoveGivesUp
  <2>2. RemoveDone => MInv'
    BY <1>2 DEF RemoveDone, MInv, Live
  <2> QED BY <2>1, <2>2 DEF RemoveStep
<1>10. UNCHANGED vars => MInv'
  BY DEF vars, MInv, Live
<1> QED BY <1>4, <1>5, <1>6, <1>7, <1>8, <1>9, <1>10 DEF Next

SeenSo ==
    /\ TreeSeen = [dirs |-> PathsOf(DirsOf(K0, T0)),
                   files |-> FilesRead(Now, FilesOf(K0, T0)), intact |-> TRUE]
    /\ Unique(FilesOf(K0, T0)) /\ Unique(DirsOf(K0, T0))

LEMMA SoundSeen ==
    ASSUME AllInv, Sound
    PROVE  Mapped /\ SeenSo /\ fs \in FsStates
<1>1. fs \in FsStates /\ Mapped
  BY NowMapped DEF AllInv, IInv, TypeOK
<1> QED BY <1>1, TreeSeenIs DEF SeenSo

LEMMA TreeKept ==
    ASSUME tree = TreeSeen, [TreeNext]_<<vars, tree>>, Sound => SeenSo, Sound' => SeenSo'
    PROVE  (tree = TreeSeen)'
<1>1. CASE TreeNext
  BY <1>1 DEF TreeNext
<1>2. CASE UNCHANGED <<vars, tree>>
  <2>1. (Sound <=> Sound') /\ tree' = tree
    BY <1>2 DEF vars, Sound, Live
  <2>2. CASE Sound
    <3>1. Now' = Now /\ K0' = K0 /\ T0' = T0
      BY <1>2 DEF vars, Now, Live, K0, T0
    <3>2. SeenSo /\ SeenSo'
      BY <2>1, <2>2
    <3>3. TreeSeen' = TreeSeen
      BY <3>1, <3>2 DEF SeenSo
    <3> QED BY <2>1, <3>3
  <2>3. CASE ~Sound
    <3>1. TreeSeen = NoTree /\ TreeSeen' = NoTree
      BY <2>1, <2>3 DEF TreeSeen, NoTree
    <3> QED BY <2>1, <3>1
  <2> QED BY <2>2, <2>3
<1> QED BY <1>1, <1>2

LEMMA TreeInvariant == TreeSpec => [](AllInv /\ MInv /\ tree = TreeSeen) /\ Spec
<1>1. TreeInit => Init /\ MInv /\ tree = TreeSeen
  BY DEF TreeInit, Init, MInv
<1>2. [TreeNext]_<<vars, tree>> => [Next]_vars
  BY DEF TreeNext
<1>3. MInv /\ [Next]_vars => MInv'
  BY MountedLive
<1>4. AllInv => (Sound => SeenSo)
  BY SoundSeen
<1>5. ASSUME tree = TreeSeen, Sound => SeenSo, Sound' => SeenSo', [TreeNext]_<<vars, tree>>
      PROVE  (tree = TreeSeen)'
  BY <1>5, TreeKept
<1>6. IInv /\ BInv /\ LInv /\ EInv => AllInv
  BY DEF AllInv
<1> QED BY <1>1, <1>2, <1>3, <1>4, <1>5, <1>6, FilesInvariant, PTL DEF TreeSpec, Spec

LEMMA AppendTwo ==
    ASSUME NEW a, NEW b
    PROVE  Append(<<a>>, b) = <<a, b>>
<1> DEFINE S == {a, b}
           s == Append(<<a>>, b)
           t == <<a, b>>
<1>1. <<a>> \in Seq(S) /\ b \in S /\ t \in Seq(S) /\ Len(<<a>>) = 1 /\ Len(t) = 2
  OBVIOUS
<1>2. s \in Seq(S) /\ Len(s) = 2 /\ s[1] = <<a>>[1] /\ s[2] = b
  BY <1>1, AppendProperties
<1>3. t[1] = a /\ t[2] = b /\ <<a>>[1] = a
  OBVIOUS
<1> HIDE DEF S, s, t
<1>4. \A i \in 1 .. Len(s) : s[i] = t[i]
  BY <1>1, <1>2, <1>3
<1>5. s = t
  BY <1>1, <1>2, <1>4, SeqEqual
<1> QED BY <1>5 DEF s, t

\* fs_is_dir and fs_read_path look a path up each in its own way, and agree
\* with the tree: what a path names is found if and only if it is there, and is
\* read with the content it has.
THEOREM ReadersAreRight == TreeSpec => []ReadersAgree
<1>1. ASSUME AllInv, MInv, tree = TreeSeen PROVE ReadersAgree
  <2> SUFFICES ASSUME Sound, mounted, ~Running, NEW path \in Paths, path.name # NoName,
                      NEW place, place = IF InRoot(path) THEN <<path.name>>
                                         ELSE <<path.dir, path.name>>
               PROVE  /\ fs_is_dir(fs, path) <=> place \in tree.dirs
                      /\ fs_read_path(fs, path) # {} <=> place \in DOMAIN tree.files
                      /\ \A c \in fs_read_path(fs, path) :
                           /\ c.size = LengthOf[tree.files[place]]
                           /\ c.size # 0 => c.text = tree.files[place]
    BY DEF ReadersAgree
  <2>1. Live /\ stack = <<>> /\ Now = fs /\ ~dirty
    BY <1>1 DEF MInv, Running, Now, Sound
  <2>2. fs \in Neat /\ fs \in Orderly
    BY <1>1, <2>1, LiveNeat DEF AllInv, Neat
  <2> DEFINE K == Kinds(fs)
             T == View(fs)
             D == DirsOf(K, T)
             F == FilesOf(K, T)
  <2>3. tree.dirs = PathsOf(D) /\ tree.files = FilesRead(fs, F) /\ Unique(F)
    <3>1. SeenSo
      BY <1>1, SoundSeen
    <3>2. K0 = K /\ T0 = T
      BY <2>1, SeenNone DEF K0, T0
    <3> QED BY <1>1, <2>1, <3>1, <3>2 DEF SeenSo
  <2>4. path \in PathRecords /\ place = PlaceOf(path)
    <3>1. path \in PathRecords
      BY FilesystemAssumption
    <3>2. Append(<<>>, path.name) = <<path.name>>
      OBVIOUS
    <3>3. Append(<<path.dir>>, path.name) = <<path.dir, path.name>>
      BY AppendTwo
    <3> QED BY <3>1, <3>2, <3>3 DEF PlaceOf, Base
  <2>5. /\ fs_is_dir(fs, path) <=> place \in PathsOf(D)
        /\ FileAt(fs, path) # 0 <=> place \in PathsOf(F)
        /\ FileAt(fs, path) # 0 => [path |-> place, inode |-> FileAt(fs, path)] \in F
    BY <2>2, <2>4, PlacesRead
  <2>6. \A j \in FileSet(K, T) : Intact(fs, j)
    BY <2>2 DEF Neat
  <2> DEFINE i == FileAt(fs, path)
             c == ContentOf(fs, i)
             x == [path |-> place, inode |-> i]
  <2>7. fs_read_path(fs, path) = IF i = 0 THEN {} ELSE {c}
    BY DEF fs_read_path
  <2>8. ASSUME i # 0
        PROVE  /\ tree.files[place] = ReadOf(fs, i)
               /\ fs.inodes[i].size = 0
                  \/ fs.inodes[i].size = LengthOf[fs.blocks[fs.inodes[i].block].text]
    <3>1. x \in F /\ x.path = place /\ x.inode = i
      BY <2>5, <2>8
    <3>2. i \in FileSet(K, T)
      BY <3>1 DEF FileSet
    <3>3. FilesRead(fs, F)[x.path] = ReadOf(fs, x.inode)
      <4> HIDE DEF x, F
      <4> QED BY <2>3, <3>1, FilesReadAt
    <3> QED BY <2>3, <2>6, <3>1, <3>2, <3>3 DEF Intact
  <2>9. DOMAIN tree.files = PathsOf(F)
    BY <2>3, FilesReadAt
  <2>10. ASSUME i # 0
         PROVE  c.size = LengthOf[tree.files[place]] /\ (c.size # 0 => c.text = tree.files[place])
    <3>1. c.size = fs.inodes[i].size /\ c.text = fs.blocks[fs.inodes[i].block].text
      BY DEF ContentOf
    <3>2. LengthOf[Empty] = 0
      BY LayoutAssumption
    <3> HIDE DEF c, i
    <3> QED BY <2>8, <2>10, <3>1, <3>2 DEF ReadOf
  <2> HIDE DEF D, F, i, c
  <2> QED BY <2>3, <2>5, <2>7, <2>9, <2>10 DEF i
<1> QED BY <1>1, TreeInvariant, PTL



-----------------------------------------------------------------------------
(* FileTree's operators on what is read                                    *)

LEMMA Prefixes ==
    ASSUME NEW p \in AnyPaths, NEW r \in AnyPaths
    PROVE  /\ Tree!IsPrefix(p, r) <=> Heads(p, r)
           /\ Tree!IsStrictPrefix(p, r) <=> Heads(p, r) /\ p # r
<1>1. Tree!IsPrefix(p, r) <=> Len(p) <= Len(r) /\ SubSeq(p, 1, Len(p)) = SubSeq(r, 1, Len(p))
  BY DEF Tree!IsPrefix
<1>2. Tree!IsStrictPrefix(p, r) <=> Tree!IsPrefix(p, r) /\ p # r
  BY DEF Tree!IsStrictPrefix
<1>3. ASSUME Len(p) <= Len(r)
      PROVE  SubSeq(p, 1, Len(p)) = SubSeq(r, 1, Len(p)) <=> \A k \in 1 .. Len(p) : p[k] = r[k]
  <2> DEFINE u == SubSeq(p, 1, Len(p))
             v == SubSeq(r, 1, Len(p))
  <2>1. /\ u \in Seq(AnyNames) /\ v \in Seq(AnyNames) /\ Len(u) = Len(p) /\ Len(v) = Len(p)
        /\ \A k \in 1 .. Len(p) : u[k] = p[k] /\ v[k] = r[k]
    BY <1>3 DEF AnyPaths
  <2> HIDE DEF u, v
  <2>2. u = v <=> \A k \in 1 .. Len(p) : u[k] = v[k]
    BY <2>1
  <2> QED BY <2>1, <2>2 DEF u, v
<1> QED BY <1>1, <1>2, <1>3 DEF Heads

LEMMA ParentIs ==
    ASSUME NEW p \in AnyPaths, NEW a \in AnyNames
    PROVE  Tree!Parent(Append(p, a)) = p
<1> DEFINE r == Append(p, a)
           u == SubSeq(r, 1, Len(r) - 1)
<1>1. r \in Seq(AnyNames) /\ Len(r) = Len(p) + 1 /\ \A k \in 1 .. Len(p) : r[k] = p[k]
  BY DEF AnyPaths
<1> HIDE DEF r
<1>2. u \in Seq(AnyNames) /\ Len(u) = Len(p) /\ \A k \in 1 .. Len(p) : u[k] = p[k]
  BY <1>1 DEF AnyPaths
<1> HIDE DEF u
<1>3. u = p
  BY <1>2 DEF AnyPaths
<1> QED BY <1>3 DEF Tree!Parent, r, u

LEMMA SameReads ==
    ASSUME NEW st, NEW s, NEW F, Unique(F),
           \A x \in F : ReadOf(s, x.inode) = ReadOf(st, x.inode)
    PROVE  FilesRead(s, F) = FilesRead(st, F)
<1> DEFINE At(p) == CHOOSE x \in F : x.path = p
<1>1. \A p \in PathsOf(F) : At(p) \in F
  BY DEF PathsOf
<1>2. \A p \in PathsOf(F) : ReadOf(s, At(p).inode) = ReadOf(st, At(p).inode)
  BY <1>1
<1> QED BY <1>2 DEF FilesRead

\* A function is what is read of F if it is that at every place of F.
LEMMA ReadsAre ==
    ASSUME NEW s, NEW F, Unique(F), NEW C, NEW g \in [PathsOf(F) -> C],
           \A x \in F : g[x.path] = ReadOf(s, x.inode)
    PROVE  FilesRead(s, F) = g
<1>1. /\ DOMAIN FilesRead(s, F) = PathsOf(F)
      /\ \A x \in F : x.path \in PathsOf(F) /\ FilesRead(s, F)[x.path] = ReadOf(s, x.inode)
  BY FilesReadAt
<1>2. \A q \in PathsOf(F) : FilesRead(s, F)[q] = g[q]
  BY <1>1 DEF PathsOf
<1>3. FilesRead(s, F) = [q \in PathsOf(F) |-> FilesRead(s, F)[q]]
  BY <1>1 DEF FilesRead
<1> QED BY <1>2, <1>3

\* Places of which no two have one inode.
Apart(F) == \A x, y \in F : x.inode = y.inode => x = y

\* One file is made, or gets another content.
LEMMA WithIs ==
    ASSUME NEW st, NEW s, NEW F, NEW F2, Unique(F), Unique(F2), NEW x, F2 = F \union {x},
           \A y \in F : y # x => ReadOf(s, y.inode) = ReadOf(st, y.inode),
           tree.files = FilesRead(st, F), tree'.files = FilesRead(s, F2)
    PROVE  tree'.files = Tree!With(tree.files, x.path, ReadOf(s, x.inode))
<1> DEFINE f == FilesRead(st, F)
           c == ReadOf(s, x.inode)
           g == [q \in DOMAIN f \union {x.path} |-> IF q = x.path THEN c ELSE f[q]]
<1>1. /\ DOMAIN f = PathsOf(F)
      /\ \A y \in F : y.path \in PathsOf(F) /\ f[y.path] = ReadOf(st, y.inode)
  BY FilesReadAt
<1> HIDE DEF f, c
<1>2. PathsOf(F2) = DOMAIN f \union {x.path}
  BY <1>1 DEF PathsOf
<1> DEFINE C == {g[q] : q \in PathsOf(F2)}
<1>3. g \in [PathsOf(F2) -> C]
  BY <1>2
<1>4. ASSUME NEW y \in F2 PROVE g[y.path] = ReadOf(s, y.inode)
  <2>1. y.path \in DOMAIN f \union {x.path} /\ (y = x \/ (y # x /\ y \in F))
    BY <1>2 DEF PathsOf
  <2>2. CASE y = x
    BY <2>1, <2>2 DEF c
  <2>3. CASE y # x /\ y \in F
    <3>1. y.path # x.path
      BY <2>3 DEF Unique
    <3> QED BY <1>1, <2>1, <2>3, <3>1
  <2> QED BY <2>1, <2>2, <2>3
<1>5. FilesRead(s, F2) = g
  <2> HIDE DEF g, C
  <2> QED BY <1>3, <1>4, ReadsAre
<1> QED BY <1>5 DEF Tree!With, g, f, c

\* One file is gone.
LEMMA WithoutIs ==
    ASSUME NEW st, NEW s, NEW F, NEW F2, Unique(F), NEW x \in F, F2 = F \ {x},
           \A y \in F2 : ReadOf(s, y.inode) = ReadOf(st, y.inode),
           tree.files = FilesRead(st, F), tree'.files = FilesRead(s, F2)
    PROVE  x.path \in DOMAIN tree.files /\ tree'.files = Tree!Without(x.path)
<1> DEFINE f == FilesRead(st, F)
           g == [q \in DOMAIN f \ {x.path} |-> f[q]]
<1>1. /\ DOMAIN f = PathsOf(F)
      /\ \A y \in F : y.path \in PathsOf(F) /\ f[y.path] = ReadOf(st, y.inode)
  BY FilesReadAt
<1> HIDE DEF f
<1>2. PathsOf(F2) = DOMAIN f \ {x.path} /\ Unique(F2)
  BY <1>1 DEF PathsOf, Unique
<1> DEFINE C == {g[q] : q \in PathsOf(F2)}
<1>3. g \in [PathsOf(F2) -> C]
  BY <1>2
<1>4. ASSUME NEW y \in F2 PROVE g[y.path] = ReadOf(s, y.inode)
  BY <1>1, <1>2 DEF PathsOf
<1>5. FilesRead(s, F2) = g
  <2> HIDE DEF g, C
  <2>1. Unique(F2)
    BY <1>2
  <2> QED BY <1>3, <1>4, <2>1, ReadsAre
<1> QED BY <1>1, <1>5 DEF Tree!Without, g, f


\* One file is at another place.
LEMMA MovedFileIs ==
    ASSUME NEW st, NEW s, NEW F, NEW F2, Unique(F), Unique(F2), Apart(F), NEW x \in F,
           NEW new, new.inode = x.inode, F2 = (F \ {x}) \union {new}, new.path # x.path,
           \A y \in F : ReadOf(s, y.inode) = ReadOf(st, y.inode),
           tree.files = FilesRead(st, F), tree'.files = FilesRead(s, F2)
    PROVE  /\ x.path \in DOMAIN tree.files /\ new.path \notin DOMAIN tree.files
           /\ tree'.files = Tree!With(Tree!Without(x.path), new.path, tree.files[x.path])
<1> DEFINE f == FilesRead(st, F)
           h == [q \in DOMAIN f \ {x.path} |-> f[q]]
           g == [q \in DOMAIN h \union {new.path} |-> IF q = new.path THEN f[x.path] ELSE h[q]]
           C == {g[q] : q \in PathsOf(F2)}
<1>1. /\ DOMAIN f = PathsOf(F)
      /\ \A y \in F : y.path \in PathsOf(F) /\ f[y.path] = ReadOf(st, y.inode)
  BY FilesReadAt
<1> HIDE DEF f
<1>2. PathsOf(F2) = (DOMAIN f \ {x.path}) \union {new.path}
  BY <1>1 DEF PathsOf, Unique
<1>3. g \in [PathsOf(F2) -> C]
  BY <1>2
<1>4. ASSUME NEW y \in F2 PROVE g[y.path] = ReadOf(s, y.inode)
  <2>1. CASE y = new
    BY <1>1, <2>1
  <2>2. CASE y # new
    <3>1. y \in F /\ y # x /\ y.path # new.path /\ y.path # x.path
      BY <2>2 DEF Unique
    <3> QED BY <1>1, <3>1
  <2> QED BY <2>1, <2>2
<1>5. FilesRead(s, F2) = g
  <2> HIDE DEF g, C
  <2> QED BY <1>3, <1>4, ReadsAre
<1>6. new.path \notin DOMAIN f
  <2>1. SUFFICES ASSUME NEW y \in F, y.path = new.path PROVE FALSE
    BY <1>1 DEF PathsOf
  <2>2. y # x /\ y \in F2 /\ new \in F2
    BY <2>1
  <2>3. y = new
    BY <2>1, <2>2 DEF Unique
  <2> QED BY <2>2, <2>3 DEF Apart
<1> QED BY <1>1, <1>5, <1>6 DEF Tree!With, Tree!Without, g, h, f

Lower(F, p) == {y.path : y \in {z \in F : Heads(p, z.path) /\ p # z.path}}

LEMMA UnderIs ==
    ASSUME NEW st, NEW F, Unique(F), \A y \in F : y.path \in AnyPaths, NEW p \in AnyPaths,
           tree.files = FilesRead(st, F)
    PROVE  Tree!Under(p) = Lower(F, p)
<1>1. DOMAIN tree.files = PathsOf(F)
  BY FilesReadAt
<1>2. \A r : r \in Tree!Under(p) <=> r \in PathsOf(F) /\ Tree!IsStrictPrefix(p, r)
  BY <1>1 DEF Tree!Under
<1>3. \A r \in PathsOf(F) : Tree!IsStrictPrefix(p, r) <=> Heads(p, r) /\ p # r
  BY Prefixes DEF PathsOf
<1>4. \A r : r \in Lower(F, p) <=> r \in PathsOf(F) /\ Heads(p, r) /\ p # r
  BY DEF Lower, PathsOf
<1> QED BY <1>2, <1>3, <1>4

\* What is below a directory that is detached is gone.
LEMMA DetachedIs ==
    ASSUME NEW st, NEW s, NEW F, NEW F2, Unique(F), \A y \in F : y.path \in AnyPaths,
           NEW p \in AnyPaths, F2 = {y \in F : ~(Heads(p, y.path) /\ p # y.path)},
           \A y \in F : ReadOf(s, y.inode) = ReadOf(st, y.inode),
           tree.files = FilesRead(st, F), tree'.files = FilesRead(s, F2)
    PROVE  tree'.files = [r \in DOMAIN tree.files \ Tree!Under(p) |-> tree.files[r]]
<1> DEFINE f == FilesRead(st, F)
           U == Lower(F, p)
           g == [q \in DOMAIN f \ U |-> f[q]]
           C == {g[q] : q \in PathsOf(F2)}
<1>1. /\ DOMAIN f = PathsOf(F)
      /\ \A y \in F : y.path \in PathsOf(F) /\ f[y.path] = ReadOf(st, y.inode)
  BY FilesReadAt
<1> HIDE DEF f
<1>2. PathsOf(F2) = DOMAIN f \ U /\ Unique(F2)
  BY <1>1 DEF PathsOf, Unique, Lower
<1> HIDE DEF U
<1>3. g \in [PathsOf(F2) -> C]
  BY <1>2
<1>4. ASSUME NEW y \in F2 PROVE g[y.path] = ReadOf(s, y.inode)
  <2>1. y \in F /\ y.path \in PathsOf(F2)
    BY DEF PathsOf
  <2> QED BY <1>1, <1>2, <2>1
<1>5. FilesRead(s, F2) = g
  <2>1. Unique(F2)
    BY <1>2
  <2> HIDE DEF g, C
  <2> QED BY <1>3, <1>4, <2>1, ReadsAre
<1>6. Tree!Under(p) = U
  BY UnderIs DEF U
<1> QED BY <1>5, <1>6 DEF g, f


LEMMA MovedDirIs ==
    ASSUME NEW st, NEW s, NEW F, NEW F2, Unique(F), Unique(F2), Apart(F),
           \A y \in F : y.path \in AnyPaths, NEW p \in AnyPaths, NEW q \in AnyPaths,
           F2 = {FileMoved(p, q, y) : y \in F},
           \A y \in F : ReadOf(s, y.inode) = ReadOf(st, y.inode),
           tree.files = FilesRead(st, F), tree'.files = FilesRead(s, F2)
    PROVE  tree'.files =
              [r \in (DOMAIN tree.files \ Tree!Under(p))
                        \union {Tree!Moved(p, q, u) : u \in Tree!Under(p)} |->
                  tree.files[IF r \in DOMAIN tree.files \ Tree!Under(p) THEN r
                             ELSE Tree!Moved(q, p, r)]]
<1> DEFINE f == FilesRead(st, F)
           U == Lower(F, p)
           V == {Shifted(p, q, u) : u \in U}
           g == [r \in (DOMAIN f \ U) \union V |->
                    f[IF r \in DOMAIN f \ U THEN r ELSE Shifted(q, p, r)]]
           C == {g[r] : r \in PathsOf(F2)}
           Under(y) == Heads(p, y.path) /\ p # y.path
<1>1. /\ DOMAIN f = PathsOf(F)
      /\ \A y \in F : y.path \in PathsOf(F) /\ f[y.path] = ReadOf(st, y.inode)
  BY FilesReadAt
<1> HIDE DEF f
<1>2. \A y \in F : /\ y.path \in U <=> Under(y)
                   /\ Under(y) => /\ FileMoved(p, q, y).path = Shifted(p, q, y.path)
                                  /\ FileMoved(p, q, y).inode = y.inode
                   /\ ~Under(y) => FileMoved(p, q, y) = y
  BY DEF Lower, FileMoved, Unique
<1>3. U \subseteq PathsOf(F) /\ \A u \in U : \E y \in F : y.path = u /\ Under(y)
  BY DEF Lower, PathsOf
<1>4. \A y \in F : Under(y) => Shifted(p, q, y.path) \in V
  BY <1>2
<1>5. \A v \in V : \E y \in F : Under(y) /\ v = Shifted(p, q, y.path)
  BY <1>3
<1> HIDE DEF U, V, Under
<1>6. \A r : r \in PathsOf(F2) <=> r \in (DOMAIN f \ U) \union V
  <2>1. \A r : r \in PathsOf(F2) <=> \E y \in F : r = FileMoved(p, q, y).path
    BY DEF PathsOf
  <2>2. \A r : r \in PathsOf(F) <=> \E y \in F : r = y.path
    BY DEF PathsOf
  <2> QED BY <1>1, <1>2, <1>4, <1>5, <2>1, <2>2
<1>7. PathsOf(F2) = (DOMAIN f \ U) \union V
  BY <1>6
<1>8. g \in [PathsOf(F2) -> C]
  BY <1>7
<1>9. ASSUME NEW z \in F2 PROVE g[z.path] = ReadOf(s, z.inode)
  <2>1. PICK y \in F : z = FileMoved(p, q, y)
    OBVIOUS
  <2>2. g[z.path] = f[IF z.path \in DOMAIN f \ U THEN z.path ELSE Shifted(q, p, z.path)]
    BY <1>7 DEF PathsOf
  <2> HIDE DEF g
  <2>3. CASE ~Under(y)
    BY <1>1, <1>2, <2>1, <2>2, <2>3
  <2>4. CASE Under(y)
    <3>1. z.path = Shifted(p, q, y.path) /\ z.inode = y.inode
      BY <1>2, <2>1, <2>4
    <3>2. z.path \notin DOMAIN f \ U
      <4>1. SUFFICES ASSUME z.path \in DOMAIN f, z.path \notin U PROVE FALSE
        OBVIOUS
      <4>2. PICK y2 \in F : y2.path = z.path
        BY <1>1, <4>1 DEF PathsOf
      <4>3. ~Under(y2)
        BY <1>2, <4>1, <4>2
      <4>4. y2 \in F2
        BY <1>2, <4>3
      <4>5. y2 = z
        BY <4>2, <4>4 DEF Unique
      <4> QED BY <2>4, <3>1, <4>3, <4>5 DEF Apart
    <3>3. Shifted(q, p, z.path) = y.path
      <4>1. y.path \in AnyPaths /\ Heads(p, y.path) /\ JunkName \in AnyNames
        BY <2>4 DEF Under, AnyNames
      <4> QED BY <3>1, <4>1, ShiftedGives
    <3> QED BY <1>1, <2>2, <3>1, <3>2, <3>3
  <2> QED BY <2>3, <2>4
<1>10. FilesRead(s, F2) = g
  <2> HIDE DEF g, C
  <2> QED BY <1>8, <1>9, ReadsAre
<1>11. Tree!Under(p) = U
  BY UnderIs DEF U
<1>12. \A a, b, r : Tree!Moved(a, b, r) = Shifted(a, b, r)
  BY DEF Tree!Moved, Shifted
<1>13. tree.files = f /\ tree'.files = g
  BY <1>10 DEF f
<1> HIDE DEF f
<1> QED BY <1>11, <1>12, <1>13 DEF g, V


-----------------------------------------------------------------------------
(* One change of the tree is one step of FileTree, or none                 *)

TreeOf(st, T) ==
    [dirs |-> PathsOf(DirsOf(Kinds(st), T)),
     files |-> FilesRead(st, FilesOf(Kinds(st), T)), intact |-> TRUE]

\* Tables in which every entry has its place, and every file is intact.
Good(st, T) ==
    /\ st \in FsStates /\ T \in Views /\ Kinds(st) \in [Inodes -> Kind]
    /\ Linked(Kinds(st), T, Reached(Kinds(st), T))
    /\ \A i \in FileSet(Kinds(st), T) :
         i \in Inodes \ {0} /\ Kinds(st)[i] = "file" /\ Intact(st, i)

\* What the places of such tables are like.
Places(K, T) ==
    /\ Unique(DirsOf(K, T)) /\ Unique(FilesOf(K, T))
    /\ Apart(DirsOf(K, T)) /\ Apart(FilesOf(K, T))
    /\ Top0 \in DirsOf(K, T)
    /\ \A y \in DirsOf(K, T) : y.path \in AnyPaths /\ y.inode \in Reached(K, T) /\ K[y.inode] = "dir"
    /\ \A y \in FilesOf(K, T) :
         /\ y.path \in AnyPaths /\ y.inode \in FileSet(K, T) /\ K[y.inode] = "file"
         /\ \E x \in DirsOf(K, T), a \in Names : y.path = Append(x.path, a)

LEMMA GoodPlaces ==
    ASSUME NEW st, NEW T, Good(st, T)
    PROVE  Places(Kinds(st), T)
<1> DEFINE K == Kinds(st)
           R == Reached(K, T)
<1>1. T \in Views /\ Linked(K, T, R)
  BY DEF Good
<1> HIDE DEF K
<1>2. /\ \A x, y \in DirsOf(K, T) : x.inode = y.inode => x = y
      /\ \A x, y \in DirsOf(K, T) : x.path = y.path => x = y
      /\ \A x \in FilesOf(K, T) : x.inode \in Inodes \ {0} /\ K[x.inode] = "file"
      /\ \A x, y \in FilesOf(K, T) : x.inode = y.inode => x = y
      /\ \A x, y \in FilesOf(K, T) : x.path = y.path => x = y
  <2> HIDE DEF R
  <2> QED BY <1>1, OnePlace, OnePath, FilesIn, Zenon
<1>3. Top0 \in DirsOf(K, T) /\ DirsOf(K, T) \subseteq Spots
  BY <1>1, DirsClosed DEF Closed
<1>4. \A y \in DirsOf(K, T) : y.path \in AnyPaths /\ y.inode \in R /\ K[y.inode] = "dir"
  <2>1. \A y \in DirsOf(K, T) : K[y.inode] = "dir"
    <3> HIDE DEF R
    <3> QED BY <1>1, DirsIn, Zenon
  <2> QED BY <1>3, <2>1 DEF Spots, AnyPaths, Reached
<1>5. ASSUME NEW y \in FilesOf(K, T)
      PROVE  /\ y.path \in AnyPaths /\ y.inode \in FileSet(K, T)
             /\ \E x \in DirsOf(K, T), a \in Names : y.path = Append(x.path, a)
  <2>1. y \in Spots /\ \E x \in DirsOf(K, T), s \in Slots :
                          Leads(K, T, x.inode, s, "file") /\ y = Child(T, x, s)
    BY DEF FilesOf
  <2>2. PICK x \in DirsOf(K, T), s \in Slots : Leads(K, T, x.inode, s, "file") /\ y = Child(T, x, s)
    BY <2>1
  <2>3. T[x.inode][s].name \in Names
    <3> HIDE DEF R
    <3> QED BY <1>1, <2>2, OneParent DEF Leads
  <2>4. y.path = Append(x.path, T[x.inode][s].name)
    BY <2>2 DEF Child
  <2> QED BY <2>1, <2>3, <2>4 DEF Spots, AnyPaths, FileSet
<1> HIDE DEF R
<1> QED BY <1>2, <1>3, <1>4, <1>5 DEF Places, Unique, Apart, K, R

\* What is read is what FileTree lets a file hold.
LEMMA ReadInContents ==
    ASSUME NEW st \in FsStates, NEW i \in Inodes, Intact(st, i)
    PROVE  ReadOf(st, i) \in Contents
<1>1. Empty \in Contents
  BY DEF Contents
<1>2. st.inodes[i].block \in Blocks
  BY DEF FsStates, InodeRecords
<1>3. st.blocks[st.inodes[i].block].text \in Contents
  BY <1>2 DEF FsStates, BlockRecords
<1> QED BY <1>1, <1>3 DEF ReadOf, Intact

LEMMA SparedRead ==
    ASSUME NEW st, NEW T, Good(st, T), NEW s, NEW X, Spares(st, s, X),
           NEW j \in FileSet(Kinds(st), T), j \notin X
    PROVE  ReadOf(s, j) = ReadOf(st, j)
<1>1. j \in Inodes \ X /\ Kinds(st)[j] = "file" /\ Intact(st, j)
  BY DEF Good
<1>2. st.inodes[j].type = "file"
  BY <1>1 DEF Kinds
<1>3. s.inodes[j] = st.inodes[j] /\ s.blocks[st.inodes[j].block].text = st.blocks[st.inodes[j].block].text
  BY <1>1, <1>2, SparedIntact
<1> QED BY <1>3 DEF ReadOf


TreeStep == Tree!Next \/ tree' = tree

\* From one tree to another.
Goes2(st, T, s, T2) ==
    /\ Good(st, T) /\ Good(s, T2)
    /\ tree = TreeOf(st, T) /\ tree' = TreeOf(s, T2)

LEMMA GoesHas ==
    ASSUME NEW st, NEW T, NEW s, NEW T2, Goes2(st, T, s, T2),
           NEW D, D = DirsOf(Kinds(st), T), NEW F, F = FilesOf(Kinds(st), T),
           NEW D2, D2 = DirsOf(Kinds(s), T2), NEW F2, F2 = FilesOf(Kinds(s), T2)
    PROVE  /\ tree.dirs = PathsOf(D) /\ tree'.dirs = PathsOf(D2)
           /\ tree.files = FilesRead(st, F) /\ tree'.files = FilesRead(s, F2)
           /\ tree.intact /\ tree'.intact
           /\ Unique(D) /\ Unique(F) /\ Apart(D) /\ Apart(F)
           /\ Unique(D2) /\ Unique(F2) /\ Apart(D2) /\ Apart(F2)
           /\ DOMAIN tree.files = PathsOf(F) /\ DOMAIN tree'.files = PathsOf(F2)
           /\ \A y \in D : y.path \in AnyPaths
           /\ \A y \in F : y.path \in AnyPaths
           /\ \A y \in F : ReadOf(st, y.inode) \in Contents
           /\ \A y \in F2 : ReadOf(s, y.inode) \in Contents
<1>1. Places(Kinds(st), T) /\ Places(Kinds(s), T2)
  BY GoodPlaces DEF Goes2
<1>2. /\ tree.dirs = PathsOf(D) /\ tree'.dirs = PathsOf(D2)
      /\ tree.files = FilesRead(st, F) /\ tree'.files = FilesRead(s, F2)
      /\ tree.intact /\ tree'.intact
  BY DEF Goes2, TreeOf
<1>3. DOMAIN tree.files = PathsOf(F) /\ DOMAIN tree'.files = PathsOf(F2)
  BY <1>2 DEF FilesRead
<1>4. \A y \in F : ReadOf(st, y.inode) \in Contents
  <2>1. \A i \in FileSet(Kinds(st), T) : i \in Inodes /\ Intact(st, i) /\ st \in FsStates
    BY DEF Goes2, Good
  <2> QED BY <1>1, <2>1, ReadInContents DEF Places
<1>5. \A y \in F2 : ReadOf(s, y.inode) \in Contents
  <2>1. \A i \in FileSet(Kinds(s), T2) : i \in Inodes /\ Intact(s, i) /\ s \in FsStates
    BY DEF Goes2, Good
  <2> QED BY <1>1, <2>1, ReadInContents DEF Places
<1> QED BY <1>1, <1>2, <1>3, <1>4, <1>5 DEF Places

LEMMA TreeParts ==
    ASSUME NEW st, NEW T, NEW s, NEW T2, Goes2(st, T, s, T2)
    PROVE  /\ tree' = [dirs |-> tree'.dirs, files |-> tree'.files, intact |-> tree'.intact]
           /\ tree = [dirs |-> tree.dirs, files |-> tree.files, intact |-> tree.intact]
           /\ tree.intact = TRUE /\ tree'.intact = TRUE
BY DEF Goes2, TreeOf

\* A file of the tree gets another content, or nothing happens.
LEMMA StaysStep ==
    ASSUME NEW st, NEW T, NEW s, NEW T2, Goes2(st, T, s, T2), NEW i,
           DirsOf(Kinds(s), T2) = DirsOf(Kinds(st), T),
           FilesOf(Kinds(s), T2) = FilesOf(Kinds(st), T),
           \A j \in FileSet(Kinds(st), T) : j # i => ReadOf(s, j) = ReadOf(st, j)
    PROVE  TreeStep
<1> DEFINE D == DirsOf(Kinds(st), T)
           F == FilesOf(Kinds(st), T)
<1>1. /\ tree.dirs = PathsOf(D) /\ tree'.dirs = PathsOf(D)
      /\ tree.files = FilesRead(st, F) /\ tree'.files = FilesRead(s, F)
      /\ tree.intact = TRUE /\ tree'.intact = TRUE
      /\ Unique(F) /\ Apart(F)
      /\ \A y \in F : y.path \in AnyPaths
      /\ \A y \in F : ReadOf(s, y.inode) \in Contents
  <2> DEFINE D2 == DirsOf(Kinds(s), T2)
             F2 == FilesOf(Kinds(s), T2)
  <2>1. D2 = D /\ F2 = F
    OBVIOUS
  <2>2. tree.intact = TRUE /\ tree'.intact = TRUE
    BY TreeParts
  <2>3. /\ tree.dirs = PathsOf(D) /\ tree'.dirs = PathsOf(D2)
        /\ tree.files = FilesRead(st, F) /\ tree'.files = FilesRead(s, F2)
        /\ Unique(F) /\ Apart(F)
        /\ \A y \in F : y.path \in AnyPaths
        /\ \A y \in F2 : ReadOf(s, y.inode) \in Contents
    BY GoesHas
  <2> HIDE DEF D, F, D2, F2
  <2> QED BY <2>1, <2>2, <2>3
<1>2. \A y \in F : /\ y.inode \in FileSet(Kinds(st), T)
                   /\ \E x \in D, a \in Names : y.path = Append(x.path, a)
  BY GoodPlaces DEF Goes2, Places
<1> HIDE DEF D, F
<1>3. CASE \E x \in F : x.inode = i
  <2>1. PICK x \in F : x.inode = i
    BY <1>3
  <2>2. tree'.files = Tree!With(tree.files, x.path, ReadOf(s, x.inode))
    <3>1. F = F \union {x}
      OBVIOUS
    <3>2. \A y \in F : y # x => ReadOf(s, y.inode) = ReadOf(st, y.inode)
      BY <1>1, <1>2, <2>1 DEF Apart
    <3> QED BY <1>1, <3>1, <3>2, WithIs
  <2>3. PICK z \in D, a \in Names : x.path = Append(z.path, a)
    BY <1>2
  <2>4. z.path \in tree.dirs /\ Tree!Parent(x.path) = z.path /\ x.path \in Tree!Places
    <3>1. z.path \in AnyPaths /\ a \in AnyNames
      BY GoodPlaces DEF Goes2, Places, D, AnyNames
    <3>2. z.path \in tree.dirs
      BY <1>1 DEF PathsOf
    <3> QED BY <2>3, <3>1, <3>2, ParentIs DEF Tree!Places
  <2>5. Tree!Put(x.path, ReadOf(s, x.inode))
    BY <1>1, <2>2, <2>4 DEF Tree!Put
  <2>6. ReadOf(s, x.inode) \in Contents
    BY <1>1
  <2> QED BY <1>1, <2>4, <2>5, <2>6 DEF TreeStep, Tree!Next
<1>4. CASE ~\E x \in F : x.inode = i
  <2>1. FilesRead(s, F) = FilesRead(st, F)
    BY <1>1, <1>2, <1>4, SameReads
  <2>2. tree' = tree
    BY <1>1, <2>1, TreeParts
  <2> QED BY <2>2 DEF TreeStep
<1> QED BY <1>3, <1>4


LEMMA AddsStep ==
    ASSUME NEW st, NEW T, NEW s, NEW T2, Goes2(st, T, s, T2), NEW d, NEW k, NEW name, NEW i, NEW type,
           Adds(Kinds(st), T, Kinds(s), T2, Reached(Kinds(st), T), d, k, name, i, type),
           Spares(st, s, {i})
    PROVE  TreeStep
<1> DEFINE K == Kinds(st)
           K2 == Kinds(s)
           D == DirsOf(K, T)
           F == FilesOf(K, T)
           D2 == DirsOf(K2, T2)
           F2 == FilesOf(K2, T2)
           R == Reached(K, T)
<1>1. T \in Views /\ T2 \in Views /\ Linked(K, T, R)
  BY DEF Goes2, Good
<1>2. /\ tree.dirs = PathsOf(D) /\ tree'.dirs = PathsOf(D2)
      /\ tree.files = FilesRead(st, F) /\ tree'.files = FilesRead(s, F2)
      /\ Unique(F) /\ Unique(F2) /\ Unique(D2)
      /\ \A y \in F2 : ReadOf(s, y.inode) \in Contents
  BY GoesHas
<1>3. tree.intact = TRUE /\ tree'.intact = TRUE
  BY TreeParts
<1>4. Places(K, T)
  BY GoodPlaces DEF Goes2
<1>5. /\ d \in R /\ K[i] = "none" /\ name \in Names /\ type \in {"file", "dir"}
      /\ i \in Inodes
  BY DEF Adds
<1>6. \A y \in F : y.inode \in FileSet(K, T) /\ ReadOf(s, y.inode) = ReadOf(st, y.inode)
  <2>1. \A y \in F : y.inode \in FileSet(K, T) /\ y.inode \notin {i}
    BY <1>4, <1>5 DEF Places
  <2> QED BY <2>1, SparedRead DEF Goes2
<1>7. PICK x \in D : x.inode = d
  BY <1>5 DEF Reached
<1> DEFINE new == Place(x, name, i)
<1>8. /\ D2 = D \union (IF type = "dir" THEN {new} ELSE {})
      /\ F2 = F \union (IF type = "file" THEN {new} ELSE {})
  <2>1. Adds(K, T, K2, T2, R, d, k, name, i, type)
    OBVIOUS
  <2> HIDE DEF K, K2, R
  <2> QED BY <1>1, <1>7, <2>1, AddsTree
<1>9. new.path = Append(x.path, name) /\ new.inode = i
  BY DEF Place
<1>10. /\ x.path \in AnyPaths /\ name \in AnyNames
       /\ x.path \in tree.dirs /\ Tree!Parent(new.path) = x.path /\ new.path \in Tree!Places
  <2>1. x.path \in AnyPaths /\ name \in AnyNames
    BY <1>4, <1>5, <1>7 DEF Places, AnyNames
  <2>2. x.path \in tree.dirs
    BY <1>2, <1>7 DEF PathsOf
  <2> QED BY <1>5, <1>9, <2>1, <2>2, ParentIs DEF Tree!Places
<1>11. \A y \in D \union F : y.inode # i
  BY <1>4, <1>5 DEF Places
<1> HIDE DEF K, K2, D, F, D2, F2, R, new
<1>12. CASE type = "file"
  <2>1. F2 = F \union {new} /\ D2 = D
    BY <1>8, <1>12
  <2>2. tree'.files = Tree!With(tree.files, new.path, ReadOf(s, new.inode))
    <3>1. Unique(F) /\ Unique(F2) /\ F2 = F \union {new}
      BY <1>2, <2>1
    <3>2. \A y \in F : y # new => ReadOf(s, y.inode) = ReadOf(st, y.inode)
      BY <1>6
    <3>3. tree.files = FilesRead(st, F) /\ tree'.files = FilesRead(s, F2)
      BY <1>2
    <3> QED BY <3>1, <3>2, <3>3, WithIs
  <2>3. Tree!Put(new.path, ReadOf(s, new.inode))
    BY <1>2, <1>3, <1>10, <2>1, <2>2 DEF Tree!Put
  <2>4. ReadOf(s, new.inode) \in Contents
    BY <1>2, <2>1
  <2> QED BY <1>3, <1>10, <2>3, <2>4 DEF TreeStep, Tree!Next
<1>13. CASE type = "dir"
  <2>1. F2 = F /\ D2 = D \union {new}
    BY <1>8, <1>13
  <2>2. tree'.files = tree.files
    <3>1. FilesRead(s, F) = FilesRead(st, F)
      BY <1>2, <1>6, SameReads
    <3> QED BY <1>2, <2>1, <3>1
  <2>3. tree'.dirs = tree.dirs \union {new.path}
    BY <1>2, <2>1 DEF PathsOf
  <2>4. new.path \notin tree.dirs
    <3>1. SUFFICES ASSUME NEW y \in D, y.path = new.path PROVE FALSE
      BY <1>2 DEF PathsOf
    <3>2. y = new
      BY <1>2, <2>1, <3>1 DEF Unique
    <3> QED BY <1>9, <1>11, <3>2
  <2>5. Tree!MakeDir(new.path)
    BY <1>3, <1>10, <2>2, <2>3, <2>4 DEF Tree!MakeDir
  <2> QED BY <1>3, <1>10, <2>5 DEF TreeStep, Tree!Next
<1> QED BY <1>5, <1>12, <1>13

\* Nothing is below a directory that holds nothing.
LEMMA NothingBelow ==
    ASSUME NEW K, NEW T \in Views, NEW R, Linked(K, T, R), Places(K, T),
           NEW x \in DirsOf(K, T), \A r \in Slots : ~InUse(T, x.inode, r)
    PROVE  \A y \in DirsOf(K, T) \union FilesOf(K, T) : Heads(x.path, y.path) => y.path = x.path
<1> DEFINE p == x.path
           S == {y \in DirsOf(K, T) : Heads(p, y.path) => y.path = p}
<1>1. p \in AnyPaths
  BY DEF Places
<1>2. Closed(K, T, DirsOf(K, T)) /\ DirsOf(K, T) \subseteq Spots
  BY DirsClosed
<1>3. ASSUME NEW y \in S, NEW s \in Slots, InUse(T, y.inode, s)
      PROVE  Heads(p, Child(T, y, s).path) => Child(T, y, s).path = p
  <2> DEFINE c == Child(T, y, s)
  <2>1. y \in DirsOf(K, T) /\ (Heads(p, y.path) => y.path = p)
    OBVIOUS
  <2>2. Heads(p, c.path) <=> Heads(p, y.path) \/ p = c.path
    <3> HIDE DEF p, S
    <3> QED BY <1>1, <1>3, <2>1, BelowIs
  <2>3. ~Heads(p, y.path)
    <3>1. SUFFICES ASSUME y.path = p PROVE FALSE
      BY <2>1
    <3>2. y = x
      BY <2>1, <3>1 DEF Places, Unique
    <3> QED BY <1>3, <3>2
  <2> QED BY <2>2, <2>3
<1>4. Closed(K, T, S)
  <2>1. Top0 \in S
    <3>1. Top0 \in DirsOf(K, T) /\ Top0.path = <<>>
      BY <1>2 DEF Closed, Top0
    <3>2. p # <<>> => ~Heads(p, <<>>)
      <4>1. JunkName \in AnyNames /\ <<>> \in AnyPaths
        BY DEF AnyNames, AnyPaths
      <4> QED BY <1>1, <4>1, HeadsAppend
    <3> QED BY <3>1, <3>2
  <2>2. ASSUME NEW y \in S, NEW s \in Slots, Leads(K, T, y.inode, s, "dir")
        PROVE  Child(T, y, s) \in S
    <3>1. Child(T, y, s) \in DirsOf(K, T)
      BY <1>2, <2>2 DEF Closed
    <3>2. Heads(p, Child(T, y, s).path) => Child(T, y, s).path = p
      BY <1>3, <2>2 DEF Leads
    <3> QED BY <3>1, <3>2
  <2> QED BY <2>1, <2>2 DEF Closed
<1>5. \A y \in DirsOf(K, T) : y \in S
  <2> HIDE DEF S
  <2> QED BY <1>4, DirsLeast
<1>6. ASSUME NEW y \in FilesOf(K, T) PROVE Heads(p, y.path) => y.path = p
  <2>1. PICK z \in DirsOf(K, T), s \in Slots : Leads(K, T, z.inode, s, "file") /\ y = Child(T, z, s)
    BY DEF FilesOf
  <2> QED BY <1>3, <1>5, <2>1 DEF Leads
<1> QED BY <1>5, <1>6


LEMMA DropsStep ==
    ASSUME NEW st, NEW T, NEW s, NEW T2, Goes2(st, T, s, T2), NEW R, Linked(Kinds(st), T, R),
           NEW d, NEW k, NEW i, Drops(Kinds(st), T, Kinds(s), T2, R, d, k, i),
           Spares(st, s, {i})
    PROVE  TreeStep
<1> DEFINE K == Kinds(st)
           K2 == Kinds(s)
           D == DirsOf(K, T)
           F == FilesOf(K, T)
           D2 == DirsOf(K2, T2)
           F2 == FilesOf(K2, T2)
<1>1. T \in Views /\ T2 \in Views
  BY DEF Goes2, Good
<1>2. /\ tree.dirs = PathsOf(D) /\ tree'.dirs = PathsOf(D2)
      /\ tree.files = FilesRead(st, F) /\ tree'.files = FilesRead(s, F2)
      /\ Unique(F) /\ Unique(F2) /\ Unique(D) /\ Apart(D) /\ Apart(F)
  BY GoesHas
<1>3. tree.intact = TRUE /\ tree'.intact = TRUE
  BY TreeParts
<1>4. Places(K, T)
  BY GoodPlaces DEF Goes2
<1>5. i # 0 /\ (K[i] = "dir" => \A r \in Slots : ~InUse(T, i, r))
  BY DEF Drops, Linked, Refers, InUse
<1>6. D2 = {y \in D : y.inode # i} /\ F2 = {y \in F : y.inode # i}
  <2>1. Drops(K, T, K2, T2, R, d, k, i) /\ Linked(K, T, R)
    OBVIOUS
  <2> HIDE DEF K, K2
  <2> QED BY <1>1, <2>1, DropsTree
<1>7. \A y \in F : /\ y.inode \in FileSet(K, T) /\ K[y.inode] = "file"
                   /\ y.inode # i => ReadOf(s, y.inode) = ReadOf(st, y.inode)
  <2>1. \A y \in F : y.inode \in FileSet(K, T) /\ K[y.inode] = "file"
    BY <1>4 DEF Places
  <2>2. \A j \in FileSet(K, T) : j \notin {i} => ReadOf(s, j) = ReadOf(st, j)
    BY SparedRead DEF Goes2
  <2> HIDE DEF F, K
  <2> QED BY <2>1, <2>2
<1>8. \A y \in D : K[y.inode] = "dir"
  BY <1>4 DEF Places
<1>9. ASSUME NEW x \in D, x.inode = i PROVE /\ x.path # <<>>
                                            /\ \A y \in D \union F : Heads(x.path, y.path) => y.path = x.path
  <2>1. K[i] = "dir"
    BY <1>8, <1>9
  <2>2. \A r \in Slots : ~InUse(T, x.inode, r)
    BY <1>5, <1>9, <2>1
  <2>3. \A y \in D \union F : Heads(x.path, y.path) => y.path = x.path
    <3>1. Linked(K, T, R)
      OBVIOUS
    <3> HIDE DEF K
    <3> QED BY <1>1, <1>4, <2>2, <3>1, NothingBelow
  <2>4. x # Top0 /\ Top0 \in D
    BY <1>4, <1>5, <1>9 DEF Places, Top0
  <2> QED BY <1>2, <2>3, <2>4 DEF Unique, Top0
<1>10. /\ \A y \in D : y.path \in AnyPaths
       /\ \A y \in F : y.path \in AnyPaths
  BY <1>4 DEF Places
<1> HIDE DEF K, K2, D, F, D2, F2
<1>11. CASE \E x \in F : x.inode = i
  <2>1. PICK x \in F : x.inode = i
    BY <1>11
  <2>2. F2 = F \ {x} /\ D2 = D
    BY <1>2, <1>6, <1>7, <1>8, <2>1 DEF Apart
  <2>3. \A y \in F2 : ReadOf(s, y.inode) = ReadOf(st, y.inode)
    BY <1>6, <1>7
  <2>4. x.path \in DOMAIN tree.files /\ tree'.files = Tree!Without(x.path)
    <3>1. Unique(F) /\ tree.files = FilesRead(st, F) /\ tree'.files = FilesRead(s, F2)
      BY <1>2
    <3> QED BY <2>2, <2>3, <3>1, WithoutIs
  <2>5. Tree!Delete(x.path)
    BY <1>2, <1>3, <2>2, <2>4 DEF Tree!Delete
  <2> QED BY <1>3, <2>4, <2>5 DEF TreeStep, Tree!Next
<1>12. CASE \E x \in D : x.inode = i
  <2>1. PICK x \in D : x.inode = i
    BY <1>12
  <2>2. F2 = F /\ D2 = D \ {x}
    BY <1>2, <1>6, <1>7, <1>8, <2>1 DEF Apart
  <2>3. tree'.files = tree.files
    <3>1. \A y \in F : ReadOf(s, y.inode) = ReadOf(st, y.inode)
      BY <1>6, <1>7, <2>2
    <3>2. FilesRead(s, F) = FilesRead(st, F)
      BY <1>2, <3>1, SameReads
    <3> QED BY <1>2, <2>2, <3>2
  <2>4. tree'.dirs = tree.dirs \ {x.path} /\ x.path \in tree.dirs
    BY <1>2, <2>2 DEF PathsOf, Unique
  <2>5. DOMAIN tree.files = PathsOf(F)
    BY <1>2, FilesReadAt
  <2>6. \A q \in Tree!Existing : ~Tree!IsStrictPrefix(x.path, q)
    <3>1. SUFFICES ASSUME NEW q \in Tree!Existing, Tree!IsStrictPrefix(x.path, q) PROVE FALSE
      OBVIOUS
    <3>2. PICK y \in D \union F : y.path = q
      BY <1>2, <2>5 DEF Tree!Existing, PathsOf
    <3>3. Heads(x.path, q) /\ x.path # q
      BY <1>10, <3>1, <3>2, Prefixes
    <3> QED BY <1>9, <2>1, <3>2, <3>3
  <2>7. Tree!DeleteDir(x.path)
    BY <1>3, <1>9, <2>1, <2>3, <2>4, <2>6 DEF Tree!DeleteDir
  <2> QED BY <1>3, <2>4, <2>7 DEF TreeStep, Tree!Next
<1>13. CASE ~(\E x \in F : x.inode = i) /\ ~(\E x \in D : x.inode = i)
  <2>1. F2 = F /\ D2 = D
    BY <1>6, <1>13
  <2>2. FilesRead(s, F) = FilesRead(st, F)
    BY <1>2, <1>7, <1>13, SameReads
  <2> QED BY <1>2, <2>1, <2>2, TreeParts DEF TreeStep
<1> QED BY <1>11, <1>12, <1>13


LEMMA MovesStep ==
    ASSUME NEW st, NEW T, NEW s, NEW T2, Goes2(st, T, s, T2),
           NEW d, NEW k, NEW e, NEW r, NEW name, NEW i,
           Moves(Kinds(st), T, Kinds(s), T2, Reached(Kinds(st), T), d, k, e, r, name, i),
           ~(d = e /\ name = T[d][k].name), Spares(st, s, {})
    PROVE  TreeStep
<1> DEFINE K == Kinds(st)
           K2 == Kinds(s)
           D == DirsOf(K, T)
           F == FilesOf(K, T)
           D2 == DirsOf(K2, T2)
           F2 == FilesOf(K2, T2)
           R == Reached(K, T)
<1>1. T \in Views /\ T2 \in Views /\ Linked(K, T, R) /\ K \in [Inodes -> Kind]
  BY DEF Goes2, Good
<1>2. /\ tree.dirs = PathsOf(D) /\ tree'.dirs = PathsOf(D2)
      /\ tree.files = FilesRead(st, F) /\ tree'.files = FilesRead(s, F2)
      /\ Unique(F) /\ Unique(F2) /\ Unique(D) /\ Unique(D2) /\ Apart(D) /\ Apart(F)
  BY GoesHas
<1>3. tree.intact = TRUE /\ tree'.intact = TRUE
  BY TreeParts
<1>4. Places(K, T)
  BY GoodPlaces DEF Goes2
<1>5. Moves(K, T, K2, T2, R, d, k, e, r, name, i)
  OBVIOUS
<1>6. /\ d \in R /\ e \in R /\ i \in Inodes /\ K[i] \in {"file", "dir"}
  <2> HIDE DEF K, K2, R
  <2> QED BY <1>1, <1>5, MovesKind
<1>7. /\ k \in Slots /\ name \in Names /\ InUse(T, d, k) /\ i = T[d][k].inode
  BY DEF Moves
<1>8. PICK x \in D, z \in D : x.inode = d /\ z.inode = e
  BY <1>6 DEF Reached
<1> DEFINE w == Child(T, x, k)
           new == Place(z, name, i)
           p == w.path
           q == new.path
<1>9. \A y \in F : /\ y.inode \in FileSet(K, T) /\ K[y.inode] = "file"
                   /\ ReadOf(s, y.inode) = ReadOf(st, y.inode)
  <2>1. \A y \in F : y.inode \in FileSet(K, T) /\ K[y.inode] = "file"
    BY <1>4 DEF Places
  <2>2. \A j \in FileSet(K, T) : j \notin {} => ReadOf(s, j) = ReadOf(st, j)
    BY SparedRead DEF Goes2
  <2> HIDE DEF F, K
  <2> QED BY <2>1, <2>2
<1>10. /\ \A y \in D : y.path \in AnyPaths /\ K[y.inode] = "dir"
       /\ \A y \in F : y.path \in AnyPaths
  BY <1>4 DEF Places
<1>11. /\ w.inode = i /\ p = Append(x.path, T[d][k].name)
       /\ new.inode = i /\ q = Append(z.path, name)
       /\ T[d][k].name \in AnyNames /\ name \in AnyNames
  <2>1. T[x.inode][k].name \in Names
    <3>1. InUse(T, x.inode, k) /\ Linked(K, T, R)
      BY <1>1, <1>7, <1>8
    <3> HIDE DEF K, R
    <3> QED BY <1>1, <1>7, <1>8, <3>1, OneParent
  <2> QED BY <1>7, <1>8, <2>1 DEF Child, Place, AnyNames
<1>12. p \in AnyPaths /\ q \in AnyPaths /\ p # <<>> /\ p # q
  <2> HIDE DEF p, q, K, D
  <2>1. x.path \in Seq(AnyNames) /\ z.path \in Seq(AnyNames)
    BY <1>10 DEF AnyPaths
  <2>2. p \in AnyPaths /\ q \in AnyPaths
    BY <1>11, <2>1 DEF AnyPaths
  <2>3. p # <<>> /\ (p = q => x.path = z.path /\ T[d][k].name = name)
    <3> DEFINE a == T[d][k].name
               u == x.path
               v == z.path
    <3>1. p = Append(u, a) /\ q = Append(v, name) /\ u \in Seq(AnyNames) /\ v \in Seq(AnyNames)
      BY <1>11, <2>1
    <3>2. a \in AnyNames /\ name \in AnyNames
      BY <1>11
    <3> HIDE DEF a, u, v
    <3>3. p # <<>> /\ (p = q => u = v /\ a = name)
      BY <3>1, <3>2, AppendIs
    <3> QED BY <3>3 DEF u, v, a
  <2>4. p = q => d = e /\ name = T[d][k].name
    BY <1>2, <1>8, <2>3 DEF Unique
  <2> QED BY <2>2, <2>3, <2>4
<1>13. /\ z.path \in tree.dirs /\ Tree!Parent(q) = z.path /\ q \in Tree!Places
  <2>1. z.path \in AnyPaths /\ z.path \in tree.dirs
    BY <1>2, <1>8, <1>10 DEF PathsOf
  <2> QED BY <1>7, <1>11, <2>1, ParentIs DEF Tree!Places
<1>14. Leads(K, T, x.inode, k, K[i])
  BY <1>7, <1>8 DEF Leads
<1>15. CASE K[i] = "file"
  <2>1. w \in F
    <3>1. w \in Spots
      BY <1>1, <1>7, <1>8, SpotTypes, DirsClosed
    <3> QED BY <1>7, <1>8, <1>14, <1>15, <3>1 DEF FilesOf
  <2>2. D2 = D /\ F2 = {y \in F : y.inode # i} \union {new}
    <3> HIDE DEF K, K2, R, new
    <3> QED BY <1>1, <1>5, <1>8, <1>15, FileMovesTree DEF new
  <2> HIDE DEF K, K2, D, F, D2, F2, R, new, w
  <2>3. {y \in F : y.inode # i} = F \ {w}
    BY <1>2, <1>11, <2>1 DEF Apart
  <2>4. /\ p \in DOMAIN tree.files /\ q \notin DOMAIN tree.files
        /\ tree'.files = Tree!With(Tree!Without(p), q, tree.files[p])
    <3>1. Unique(F) /\ Unique(F2) /\ Apart(F)
      BY <1>2
    <3>2. F2 = (F \ {w}) \union {new} /\ new.inode = w.inode /\ q # p
      BY <1>11, <1>12, <2>2, <2>3
    <3>3. \A y \in F : ReadOf(s, y.inode) = ReadOf(st, y.inode)
      BY <1>9
    <3>4. tree.files = FilesRead(st, F) /\ tree'.files = FilesRead(s, F2)
      BY <1>2
    <3> QED BY <2>1, <3>1, <3>2, <3>3, <3>4, MovedFileIs
  <2>5. Tree!MoveFile(p, q)
    BY <1>2, <1>3, <1>13, <2>2, <2>4 DEF Tree!MoveFile
  <2> QED BY <1>3, <1>13, <2>4, <2>5 DEF TreeStep, Tree!Next
<1>16. CASE K[i] = "dir"
  <2>1. w \in D /\ p \in tree.dirs
    <3>1. w \in D
      BY <1>1, <1>7, <1>8, <1>14, <1>16, DirsClosed DEF Closed
    <3> QED BY <1>2, <3>1 DEF PathsOf
  <2>2. /\ \A y \in D : Tree!IsPrefix(p, y.path) <=> Heads(p, y.path)
        /\ \A y \in F : Tree!IsStrictPrefix(p, y.path) <=> Heads(p, y.path) /\ p # y.path
        /\ Tree!IsPrefix(p, q) <=> Heads(p, q)
    <3> HIDE DEF p, q, D, F
    <3> QED BY <1>10, <1>12, Prefixes
  <2>3. CASE Heads(p, z.path)
    <3>1. /\ D2 = {y \in D : ~Heads(p, y.path)}
          /\ F2 = {y \in F : ~(Heads(p, y.path) /\ p # y.path)}
      <4> HIDE DEF K, K2, R, p, w
      <4> QED BY <1>1, <1>5, <1>8, <1>16, <2>3, DetachTree DEF w, p
    <3> HIDE DEF K, K2, D, F, D2, F2, R, new, w, p, q
    <3>2. tree'.dirs = {c \in tree.dirs : ~Tree!IsPrefix(p, c)}
      BY <1>2, <2>2, <3>1 DEF PathsOf
    <3>3. tree'.files = [c \in DOMAIN tree.files \ Tree!Under(p) |-> tree.files[c]]
      <4>1. /\ Unique(F) /\ tree.files = FilesRead(st, F) /\ tree'.files = FilesRead(s, F2)
        BY <1>2
      <4>2. \A y \in F : y.path \in AnyPaths
        BY <1>10
      <4>3. \A y \in F : ReadOf(s, y.inode) = ReadOf(st, y.inode)
        BY <1>9
      <4> QED BY <1>12, <3>1, <4>1, <4>2, <4>3, DetachedIs
    <3>4. Tree!Detach(p)
      BY <1>3, <1>12, <2>1, <3>2, <3>3 DEF Tree!Detach
    <3> QED BY <1>3, <2>1, <3>4 DEF TreeStep, Tree!Next
  <2>4. CASE ~Heads(p, z.path)
    <3>1. /\ D2 = {DirMoved(p, q, y) : y \in D}
          /\ F2 = {FileMoved(p, q, y) : y \in F}
      <4> HIDE DEF K, K2, R, p, q, w, new
      <4> QED BY <1>1, <1>5, <1>8, <1>16, <2>4, DirMovesTree DEF w, p, new, q
    <3>2. ~Heads(p, q)
      <4> DEFINE v == z.path
      <4>1. q = Append(v, name) /\ v \in AnyPaths /\ name \in AnyNames /\ ~Heads(p, v)
        BY <1>8, <1>10, <1>11, <2>4
      <4> HIDE DEF p, q, v
      <4> QED BY <1>12, <4>1, HeadsAppend
    <3> HIDE DEF K, K2, D, F, D2, F2, R, new, w, p, q
    <3>3. q \notin tree.dirs
      <4>1. SUFFICES ASSUME NEW y \in D, y.path = q PROVE FALSE
        BY <1>2 DEF PathsOf
      <4>2. DirMoved(p, q, y) = y /\ y \in D2
        BY <3>1, <3>2, <4>1 DEF DirMoved
      <4>3. Heads(p, p) /\ Shifted(p, q, p) = q
        <5>1. Heads(p, p)
          BY <1>11, <1>12, HeadsAppend
        <5>2. p \in AnyPaths /\ q \in AnyPaths /\ name \in AnyNames
          BY <1>11, <1>12
        <5>3. Shifted(p, q, p) = q
          BY <5>1, <5>2, ShiftedGives, Zenon
        <5> QED BY <5>1, <5>3
      <4>4. DirMoved(p, q, w).path = q /\ DirMoved(p, q, w).inode = i /\ DirMoved(p, q, w) \in D2
        BY <1>11, <2>1, <3>1, <4>3 DEF DirMoved, p
      <4>5. y.inode = i
        BY <1>2, <4>1, <4>2, <4>4 DEF Unique
      <4>6. y = w
        BY <1>2, <1>11, <2>1, <4>5 DEF Apart
      <4> QED BY <1>12, <4>1, <4>6 DEF p
    <3>4. tree'.dirs = {IF Tree!IsPrefix(p, c) THEN Tree!Moved(p, q, c) ELSE c : c \in tree.dirs}
      <4> DEFINE V == {IF Tree!IsPrefix(p, c) THEN Tree!Moved(p, q, c) ELSE c : c \in tree.dirs}
                 to(c) == IF Tree!IsPrefix(p, c) THEN Tree!Moved(p, q, c) ELSE c
      <4>1. \A y \in D : to(y.path) = DirMoved(p, q, y).path
        BY <2>2 DEF DirMoved, Tree!Moved, Shifted
      <4>2. \A v : v \in V <=> \E c \in tree.dirs : v = to(c)
        OBVIOUS
      <4> HIDE DEF V, to
      <4>3. \A v : v \in V <=> \E y \in D : v = to(y.path)
        BY <1>2, <4>2 DEF PathsOf
      <4>4. \A v : v \in tree'.dirs <=> \E y \in D : v = DirMoved(p, q, y).path
        BY <1>2, <3>1 DEF PathsOf
      <4>5. tree'.dirs = V
        <5>1. \A v : v \in tree'.dirs <=> v \in V
          BY <4>1, <4>3, <4>4
        <5> DEFINE W == tree'.dirs
        <5> HIDE DEF W
        <5>2. W = V
          BY <5>1 DEF W
        <5> QED BY <5>2 DEF W
      <4> QED BY <4>5 DEF V
    <3>5. tree'.files =
              [c \in (DOMAIN tree.files \ Tree!Under(p))
                        \union {Tree!Moved(p, q, u) : u \in Tree!Under(p)} |->
                  tree.files[IF c \in DOMAIN tree.files \ Tree!Under(p) THEN c
                             ELSE Tree!Moved(q, p, c)]]
      <4>1. /\ Unique(F) /\ Unique(F2) /\ Apart(F)
            /\ tree.files = FilesRead(st, F) /\ tree'.files = FilesRead(s, F2)
        BY <1>2
      <4>2. \A y \in F : y.path \in AnyPaths
        BY <1>10
      <4>3. \A y \in F : ReadOf(s, y.inode) = ReadOf(st, y.inode)
        BY <1>9
      <4> QED BY <1>12, <3>1, <4>1, <4>2, <4>3, MovedDirIs
    <3>6. Tree!MoveDir(p, q)
      BY <1>3, <1>12, <1>13, <2>1, <2>2, <3>2, <3>3, <3>4, <3>5 DEF Tree!MoveDir
    <3> QED BY <1>3, <1>13, <2>1, <3>6 DEF TreeStep, Tree!Next
  <2> QED BY <2>3, <2>4
<1> QED BY <1>6, <1>15, <1>16


LEMMA NeatGood ==
    ASSUME NEW st \in Neat
    PROVE  Good(st, View(st))
<1> DEFINE K == Kinds(st)
           T == View(st)
           R == Reached(K, T)
<1>1. st \in Orderly /\ \A i \in FileSet(K, T) : Intact(st, i)
  BY DEF Neat
<1>2. st \in FsStates /\ K \in [Inodes -> Kind] /\ T \in Views /\ Linked(K, T, R)
  BY <1>1, OrderlyHas
<1>3. \A i \in FileSet(K, T) : i \in Inodes \ {0} /\ K[i] = "file"
  <2> HIDE DEF K, T, R
  <2> QED BY <1>2, FileSetIs
<1> QED BY <1>1, <1>2, <1>3 DEF Good

\* A call has made of one sound filesystem another.
Becomes2(st, s) ==
    /\ st \in Neat /\ s \in Neat
    /\ tree = TreeOf(st, View(st)) /\ tree' = TreeOf(s, View(s))

LEMMA BecomesGoes ==
    ASSUME NEW st, NEW s, Becomes2(st, s)
    PROVE  Goes2(st, View(st), s, View(s))
BY NeatGood DEF Becomes2, Goes2

LEMMA IdlesStep ==
    ASSUME NEW st, NEW s, Becomes2(st, s), NEW i, Idles(st, s), Spares(st, s, {i})
    PROVE  TreeStep
<1> DEFINE K == Kinds(st)
           T == View(st)
           K2 == Kinds(s)
           T2 == View(s)
           R == Reached(K, T)
<1>1. Goes2(st, T, s, T2)
  BY BecomesGoes
<1>2. T \in Views /\ T2 \in Views /\ Linked(K, T, R) /\ Good(st, T)
  BY <1>1 DEF Goes2, Good
<1>3. Stays(K, T, K2, T2, R)
  BY DEF Idles
<1>4. DirsOf(K2, T2) = DirsOf(K, T) /\ FilesOf(K2, T2) = FilesOf(K, T)
  <2> HIDE DEF K, T, K2, T2, R
  <2> QED BY <1>2, <1>3, StaysTree
<1>5. \A j \in FileSet(K, T) : j # i => ReadOf(s, j) = ReadOf(st, j)
  <2> HIDE DEF T
  <2> QED BY <1>2, SparedRead
<1> HIDE DEF T, T2
<1> QED BY <1>1, <1>4, <1>5, StaysStep

LEMMA OneStep ==
    ASSUME NEW st, NEW s, Becomes2(st, s), NEW i, One(st, s, i), Spares(st, s, {i})
    PROVE  TreeStep
<1> DEFINE T == View(st)
           T2 == View(s)
<1>1. Goes2(st, T, s, T2) /\ Good(st, T)
  BY BecomesGoes DEF Goes2
<1>2. CASE Same(st, s)
  BY <1>2, IdlesStep DEF Same, Idles
<1>3. ASSUME NEW d \in Inodes, NEW name \in Names, NEW type, Gains(st, s, d, name, i, type)
      PROVE  TreeStep
  <2>1. PICK k \in Slots : Adds(Kinds(st), T, Kinds(s), T2, Reached(Kinds(st), T), d, k, name, i, type)
    BY <1>3 DEF Gains
  <2> HIDE DEF T, T2
  <2> QED BY <1>1, <2>1, AddsStep
<1>4. CASE Loses(st, s, i)
  <2>1. PICK d \in Inodes, k \in Slots : Drops(Kinds(st), T, Kinds(s), T2, Reached(Kinds(st), T), d, k, i)
    BY <1>4 DEF Loses
  <2>2. Linked(Kinds(st), T, Reached(Kinds(st), T))
    BY <1>1 DEF Good
  <2> HIDE DEF T, T2
  <2> QED BY <1>1, <2>1, <2>2, DropsStep
<1> QED BY <1>2, <1>3, <1>4 DEF One

LEMMA RenamesStep ==
    ASSUME NEW st, NEW s, Becomes2(st, s), NEW src, NEW dst, NEW k,
           Renames(st, s, src, dst, k), Spares(st, s, {})
    PROVE  TreeStep
<1> DEFINE T == View(st)
           T2 == View(s)
           d == DirOf(st, src)
           to == Where(st, src, dst)
           e == to.dir
           name == to.name
           i == T[d][k].inode
<1>1. Goes2(st, T, s, T2)
  BY BecomesGoes
<1>2. /\ T[d][k].name = src.name
      /\ ~(e = d /\ name = src.name)
      /\ \E r \in Slots : Moves(Kinds(st), T, Kinds(s), T2, Reached(Kinds(st), T), d, k, e, r, name, i)
  BY DEF Renames
<1>3. ~(d = e /\ name = T[d][k].name)
  BY <1>2
<1>4. PICK r \in Slots : Moves(Kinds(st), T, Kinds(s), T2, Reached(Kinds(st), T), d, k, e, r, name, i)
  BY <1>2
<1> HIDE DEF T, T2, d, e, name, i, to
<1> QED BY <1>1, <1>3, <1>4, MovesStep


\* What idles leaves the tree as it is.
LEMMA IdlesTree ==
    ASSUME NEW st \in Neat, NEW m \in Neat, Idles(st, m), NEW i, Spares(st, m, {i}),
           i \notin FileSet(Kinds(st), View(st))
    PROVE  TreeOf(m, View(m)) = TreeOf(st, View(st))
<1> DEFINE K == Kinds(st)
           T == View(st)
           K2 == Kinds(m)
           T2 == View(m)
           R == Reached(K, T)
           F == FilesOf(K, T)
<1>1. Good(st, T) /\ Good(m, T2)
  BY NeatGood
<1>2. T \in Views /\ T2 \in Views /\ Linked(K, T, R)
  BY <1>1 DEF Good
<1>3. Stays(K, T, K2, T2, R)
  BY DEF Idles
<1>4. DirsOf(K2, T2) = DirsOf(K, T) /\ FilesOf(K2, T2) = F
  <2> HIDE DEF K, T, K2, T2, R
  <2> QED BY <1>2, <1>3, StaysTree DEF F
<1>5. Places(K, T)
  BY <1>1, GoodPlaces
<1>6. \A j \in FileSet(K, T) : ReadOf(m, j) = ReadOf(st, j)
  <2>1. \A j \in FileSet(K, T) : j \notin {i}
    OBVIOUS
  <2>2. Spares(st, m, {i})
    OBVIOUS
  <2> HIDE DEF T
  <2> QED BY <1>1, <2>1, <2>2, SparedRead DEF K
<1>7. \A y \in F : ReadOf(m, y.inode) = ReadOf(st, y.inode)
  BY <1>5, <1>6 DEF Places
<1>8. FilesRead(m, F) = FilesRead(st, F)
  <2> HIDE DEF F
  <2> QED BY <1>5, <1>7, SameReads DEF Places, F
<1> QED BY <1>4, <1>8 DEF TreeOf

\* A directory that has just been made holds nothing to be found.
LEMMA NewDirHolds ==
    ASSUME NEW st \in Orderly, NEW m \in Orderly, NEW d, NEW k, NEW name, NEW j,
           Adds(Kinds(st), View(st), Kinds(m), View(m), Reached(Kinds(st), View(st)), d, k, name, j, "dir"),
           j \in Reached(Kinds(m), View(m)), NEW a, NEW type
    PROVE  find_dir_entry(load_dir_block(m, j), m.inodes, a, type) = 0
<1> DEFINE f == find_dir_entry(load_dir_block(m, j), m.inodes, a, type)
<1>1. f = 0 \/ (f \in Slots /\ Leads(Kinds(m), View(m), j, f, type))
  BY FindIs
<1>2. \A r \in Slots : ~InUse(View(m), j, r)
  BY DEF Adds
<1> QED BY <1>1, <1>2 DEF Leads


\* Two entries in one call: the directory sys, and passwd in it.
LEMMA BothStep ==
    ASSUME NEW st, NEW m, NEW s, st \in Neat, m \in Neat, s \in Neat,
           Goes2(st, View(st), s, View(s)),
           NEW j, Gains(st, m, 0, "sys", j, "dir"), Spares(st, m, {}),
           NEW i, Gains(m, s, j, "passwd", i, "file"), Spares(m, s, {i})
    PROVE  TreeStep
<1> DEFINE K == Kinds(st)
           T == View(st)
           R == Reached(K, T)
           D == DirsOf(K, T)
           F == FilesOf(K, T)
           K1 == Kinds(m)
           T1 == View(m)
           R1 == Reached(K1, T1)
           D1 == DirsOf(K1, T1)
           F1 == FilesOf(K1, T1)
           K2 == Kinds(s)
           T2 == View(s)
           D2 == DirsOf(K2, T2)
           F2 == FilesOf(K2, T2)
           sys == Place(Top0, "sys", j)
           new == Place(sys, "passwd", i)
<1>1. Good(st, T) /\ Good(m, T1) /\ Good(s, T2) /\ Goes2(st, T, s, T2)
  BY NeatGood
<1>2. /\ T \in Views /\ T1 \in Views /\ T2 \in Views
      /\ Linked(K, T, R) /\ Linked(K1, T1, R1)
  BY <1>1 DEF Good
<1>3. Places(K, T) /\ Places(K1, T1) /\ Places(K2, T2)
  BY <1>1, GoodPlaces
<1>4. PICK k \in Slots : Adds(K, T, K1, T1, R, 0, k, "sys", j, "dir")
  BY DEF Gains
<1>5. PICK r \in Slots : Adds(K1, T1, K2, T2, R1, j, r, "passwd", i, "file")
  BY DEF Gains
<1>6. K[j] = "none" /\ K1[i] = "none" /\ i \in Inodes /\ \A e \in Inodes \ {j} : K1[e] = K[e]
  BY <1>4, <1>5 DEF Adds
<1>7. /\ tree.dirs = PathsOf(D) /\ tree'.dirs = PathsOf(D2)
      /\ tree.files = FilesRead(st, F) /\ tree'.files = FilesRead(s, F2)
      /\ Unique(F) /\ Unique(F2)
      /\ \A y \in F2 : ReadOf(s, y.inode) \in Contents
  BY <1>1, GoesHas
<1>8. tree.intact = TRUE /\ tree'.intact = TRUE
  BY <1>1, TreeParts
<1>9. Top0 \in D /\ Top0.inode = 0
  BY <1>3 DEF Places, Top0
<1>10. \A y \in F : y.inode \in FileSet(K, T) /\ K[y.inode] = "file" /\ y.inode \in Inodes
  BY <1>1, <1>3 DEF Places, Good
<1>11. \A y \in D : y.inode # j
  BY <1>3, <1>6 DEF Places
<1>12. sys.path = <<"sys">> /\ sys.inode = j /\ new.path = <<"sys", "passwd">> /\ new.inode = i
  <2>1. sys.path = Append(<<>>, "sys") /\ new.path = Append(sys.path, "passwd")
    BY DEF Place, Top0
  <2>2. Append(<<>>, "sys") = <<"sys">>
    OBVIOUS
  <2>3. sys.inode = j /\ new.inode = i
    BY DEF Place
  <2> HIDE DEF sys, new
  <2> QED BY <2>1, <2>2, <2>3, AppendTwo
<1> HIDE DEF K, T, K1, T1, K2, T2, sys, new
<1>13. D1 = D \union {sys} /\ F1 = F
  <2> DEFINE type == "dir"
  <2>1. Adds(K, T, K1, T1, R, 0, k, "sys", j, type)
    BY <1>4
  <2> HIDE DEF type, R
  <2>2. /\ D1 = D \union (IF type = "dir" THEN {sys} ELSE {})
        /\ F1 = F \union (IF type = "file" THEN {sys} ELSE {})
    BY <1>2, <1>9, <2>1, AddsTree DEF sys
  <2> HIDE DEF D, F, D1, F1
  <2> QED BY <2>2 DEF type
<1>14. D2 = D1 /\ F2 = F1 \union {new}
  <2>1. sys \in D1 /\ sys.inode = j
    BY <1>12, <1>13
  <2> DEFINE type == "file"
  <2>2. Adds(K1, T1, K2, T2, R1, j, r, "passwd", i, type)
    BY <1>5
  <2> HIDE DEF type, R1
  <2>3. /\ D2 = D1 \union (IF type = "dir" THEN {new} ELSE {})
        /\ F2 = F1 \union (IF type = "file" THEN {new} ELSE {})
    BY <1>2, <2>1, <2>2, AddsTree DEF new
  <2> HIDE DEF D1, F1, D2, F2
  <2> QED BY <2>3 DEF type
<1>15. \A y \in F : ReadOf(s, y.inode) = ReadOf(st, y.inode)
  <2>1. Spares(st, m, {i})
    BY SparesMore
  <2>2. Spares(st, s, {i})
    BY <2>1, SparesOn
  <2>3. \A y \in F : y.inode # i
    BY <1>6, <1>10
  <2>4. \A e \in FileSet(K, T) : e \notin {i} => ReadOf(s, e) = ReadOf(st, e)
    BY <1>1, <2>2, SparedRead DEF K
  <2> QED BY <1>10, <2>3, <2>4
<1> HIDE DEF D, F, D1, F1, D2, F2
<1>16. tree'.files = Tree!With(tree.files, new.path, ReadOf(s, new.inode))
  <2>1. Unique(F) /\ Unique(F2) /\ F2 = F \union {new}
    BY <1>7, <1>13, <1>14
  <2>2. \A y \in F : y # new => ReadOf(s, y.inode) = ReadOf(st, y.inode)
    BY <1>15
  <2>3. tree.files = FilesRead(st, F) /\ tree'.files = FilesRead(s, F2)
    BY <1>7
  <2> QED BY <2>1, <2>2, <2>3, WithIs
<1>17. tree'.dirs = tree.dirs \union {<<"sys">>}
  BY <1>7, <1>12, <1>13, <1>14 DEF PathsOf
<1>18. <<"sys">> \notin tree.dirs
  <2>1. SUFFICES ASSUME NEW y \in D, y.path = <<"sys">> PROVE FALSE
    BY <1>7 DEF PathsOf
  <2>2. y = sys
    BY <1>3, <1>12, <1>13, <2>1 DEF Places, Unique, D1
  <2> QED BY <1>11, <1>12, <2>2
<1>19. <<>> \in tree.dirs
  BY <1>7, <1>9 DEF PathsOf, Top0
<1> DEFINE p == <<"sys", "passwd">>
<1>20. Tree!Parent(p) = <<"sys">> /\ Tree!Parent(<<"sys">>) = <<>>
  <2>1. <<>> \in AnyPaths /\ <<"sys">> \in AnyPaths /\ "sys" \in AnyNames /\ "passwd" \in AnyNames
    BY DEF AnyPaths, AnyNames, Names
  <2>2. Tree!Parent(Append(<<"sys">>, "passwd")) = <<"sys">> /\ Tree!Parent(Append(<<>>, "sys")) = <<>>
    BY <2>1, ParentIs
  <2>3. Append(<<"sys">>, "passwd") = p /\ Append(<<>>, "sys") = <<"sys">>
    BY AppendTwo
  <2> QED BY <2>2, <2>3
<1>21. ReadOf(s, i) \in Contents
  BY <1>7, <1>12, <1>14
<1> DEFINE c == ReadOf(s, i)
<1>22. tree'.files = Tree!With(tree.files, p, c)
  BY <1>12, <1>16
<1> HIDE DEF p, c
<1>23. Tree!PutWithDir(p, c)
  BY <1>8, <1>17, <1>18, <1>19, <1>20, <1>22 DEF Tree!PutWithDir
<1>24. p \in {<<"sys", "status">>, <<"sys", "passwd">>}
  BY DEF p
<1> QED BY <1>8, <1>21, <1>23, <1>24 DEF TreeStep, Tree!Next, c

LEMMA PasswdStep ==
    ASSUME NEW st, NEW s, NEW hash \in Contents, s = fs_write_passwd(st, hash).final,
           Becomes2(st, s)
    PROVE  TreeStep
<1> DEFINE m == SysDir(st).final
           d == SysDir(st).dir
           file == find_dir_entry(load_dir_block(m, d), m.inodes, "passwd", "file")
<1>1. "passwd" \in Names /\ s = write_sys_file(st, "passwd", hash).final
  BY DEF Names, fs_write_passwd
<1>2. st \in Neat /\ st \in Orderly /\ s \in Neat
  BY DEF Becomes2, Neat
<1>3. m \in Neat /\ m \in Orderly
  BY <1>1, <1>2, SysFileNeat DEF Neat
<1>4. PICK j \in Inodes : SysDirs(st, m, d, j) /\ Spares(st, m, {})
  BY <1>2, SysDirDoes
<1>5. PICK i \in Inodes : /\ Stored(m, s, i) /\ Spares(m, s, {i})
                          /\ FoundsSys(m, s, d, "passwd", i)
  BY <1>1, <1>2, SysFileDoes
<1> HIDE DEF m, d
<1>6. \A e \in FileSet(Kinds(m), View(m)) : Kinds(m)[e] = "file"
  BY <1>3, NeatGood DEF Good
<1>7. CASE Idles(st, m)
  <2>1. TreeOf(m, View(m)) = TreeOf(st, View(st))
    <3>1. NoDir \notin FileSet(Kinds(st), View(st)) /\ Spares(st, m, {NoDir})
      <4>1. \A e \in FileSet(Kinds(st), View(st)) : e \in Inodes
        BY <1>2, NeatGood DEF Good
      <4> QED BY <1>4, <4>1, SparesMore, Numbers DEF NoDir, Inodes
    <3> QED BY <1>2, <1>3, <1>7, <3>1, IdlesTree
  <2>2. Becomes2(m, s)
    BY <1>2, <1>3, <2>1 DEF Becomes2
  <2>3. CASE One(m, s, i)
    BY <1>5, <2>2, <2>3, OneStep
  <2>4. CASE Idles(m, s)
    BY <1>5, <2>2, <2>4, IdlesStep
  <2> QED BY <1>5, <2>3, <2>4 DEF Stored
<1>8. CASE Gains(st, m, 0, "sys", j, "dir") /\ d = j /\ RootHas(m, "sys", j)
  <2>1. file = 0
    <3>1. PICK k \in Slots : Adds(Kinds(st), View(st), Kinds(m), View(m),
                                 Reached(Kinds(st), View(st)), 0, k, "sys", j, "dir")
      BY <1>8 DEF Gains
    <3>2. j \in Reached(Kinds(m), View(m))
      BY <1>3, <1>8, RootHasReached
    <3> QED BY <1>2, <1>3, <1>8, <3>1, <3>2, NewDirHolds
  <2>2. CASE s = m \/ (Idles(m, s) /\ Kinds(m)[i] = "none")
    <3>1. TreeOf(s, View(s)) = TreeOf(m, View(m))
      <4>1. i \notin FileSet(Kinds(m), View(m)) \/ s = m
        BY <1>6, <2>2
      <4> QED BY <1>2, <1>3, <1>5, <2>2, <4>1, IdlesTree
    <3>2. Becomes2(st, m)
      BY <1>2, <1>3, <3>1 DEF Becomes2
    <3>3. One(st, m, j)
      <4>1. 0 \in Inodes /\ "sys" \in Names
        BY Numbers DEF Names
      <4> QED BY <1>8, <4>1 DEF One
    <3>4. Spares(st, m, {j})
      BY <1>4, SparesMore
    <3> QED BY <3>2, <3>3, <3>4, OneStep
  <2>3. CASE Gains(m, s, d, "passwd", i, "file")
    <3>1. Goes2(st, View(st), s, View(s))
      BY BecomesGoes
    <3> QED BY <1>2, <1>3, <1>4, <1>5, <1>8, <2>3, <3>1, BothStep
  <2> QED BY <1>5, <2>1, <2>2, <2>3 DEF FoundsSys, Founds, file
<1> QED BY <1>4, <1>7, <1>8 DEF SysDirs


-----------------------------------------------------------------------------
(* The steps of the system *)

SysFiles == [p \in {<<"sys", "status">>, <<"sys", "passwd">>} |->
                IF p[2] = "status" THEN StatusFlag ELSE DefaultHash]

\* What a format makes is the tree FileTree says it makes.
LEMMA FreshTree ==
    ASSUME NEW st, FreshDisk(st)
    PROVE  /\ TreeOf(st, View(st)).dirs = {<<>>} \union {<<"sys">>}
           /\ TreeOf(st, View(st)).files = SysFiles
           /\ TreeOf(st, View(st)).intact = TRUE
<1> DEFINE K == Kinds(st)
           T == View(st)
           D == DirsOf(K, T)
           F == FilesOf(K, T)
           sys == [path |-> <<"sys">>, inode |-> 1]
           status == [path |-> <<"sys", "status">>, inode |-> 2]
           passwd == [path |-> <<"sys", "passwd">>, inode |-> 3]
<1>1. /\ T \in Views /\ Linked(K, T, Reached(K, T))
      /\ \A s \in Slots, kind \in {"file", "dir"} :
           /\ Leads(K, T, 0, s, kind) => s = 1 /\ kind = "dir"
           /\ Leads(K, T, 1, s, kind) => kind = "file" /\ s \in {1, 2}
      /\ Leads(K, T, 0, 1, "dir") /\ Leads(K, T, 1, 1, "file") /\ Leads(K, T, 1, 2, "file")
      /\ 1 \in Slots /\ 2 \in Slots
  BY FreshEntries
<1>2. Child(T, Top0, 1) = sys /\ Child(T, sys, 1) = status /\ Child(T, sys, 2) = passwd
  <2>1. /\ T[0][1] = [name |-> "sys", inode |-> 1]
        /\ T[1][1] = [name |-> "status", inode |-> 2]
        /\ T[1][2] = [name |-> "passwd", inode |-> 3]
    BY FreshEntries
  <2>2. Append(<<>>, "sys") = <<"sys">>
    OBVIOUS
  <2>3. Append(<<"sys">>, "status") = <<"sys", "status">>
        /\ Append(<<"sys">>, "passwd") = <<"sys", "passwd">>
    BY AppendTwo
  <2> QED BY <2>1, <2>2, <2>3 DEF Child, Top0
<1>3. Top0.inode = 0 /\ sys.inode = 1 /\ Top0.path = <<>>
  BY DEF Top0
<1>4. sys.path = <<"sys">> /\ status.path = <<"sys", "status">> /\ status.inode = 2
      /\ passwd.path = <<"sys", "passwd">> /\ passwd.inode = 3
  OBVIOUS
<1> HIDE DEF K, T, sys, status, passwd
<1>5. D = {Top0, sys}
  <2> DEFINE S == {Top0, sys}
  <2>1. Closed(K, T, S)
    BY <1>1, <1>2, <1>3 DEF Closed
  <2>2. D \subseteq S
    <3> HIDE DEF S
    <3> QED BY <1>1, <2>1, DirsLeast
  <2>3. Top0 \in D /\ sys \in D
    <3>1. Closed(K, T, D)
      BY <1>1, DirsClosed
    <3> QED BY <1>1, <1>2, <1>3, <3>1 DEF Closed
  <2> QED BY <2>2, <2>3
<1>6. F = {status, passwd}
  <2>1. status \in Spots /\ passwd \in Spots
    <3>1. sys \in Spots
      BY <1>1, <1>5, DirsClosed
    <3>2. InUse(T, sys.inode, 1) /\ InUse(T, sys.inode, 2)
      BY <1>1, <1>3 DEF Leads
    <3> QED BY <1>1, <1>2, <3>1, <3>2, SpotTypes
  <2>2. \A x \in F : x = status \/ x = passwd
    <3>1. ASSUME NEW x \in F PROVE x = status \/ x = passwd
      <4>1. PICK y \in D, s \in Slots : Leads(K, T, y.inode, s, "file") /\ x = Child(T, y, s)
        BY <3>1 DEF FilesOf
      <4> QED BY <1>1, <1>2, <1>3, <1>5, <4>1
    <3> QED BY <3>1
  <2>3. status \in F /\ passwd \in F
    BY <1>1, <1>2, <1>3, <1>5, <2>1 DEF FilesOf
  <2> QED BY <2>2, <2>3
<1>7. ReadOf(st, 2) = StatusFlag /\ ReadOf(st, 3) = DefaultHash
  <2>1. /\ st.inodes[2].size = LengthOf[StatusFlag] /\ st.inodes[2].block = 3
        /\ st.inodes[3].size = LengthOf[DefaultHash] /\ st.inodes[3].block = 4
        /\ st.blocks[3].text = StatusFlag /\ st.blocks[4].text = DefaultHash
    BY DEF FreshDisk, TextBlock
  <2>2. LengthOf[StatusFlag] = 1 /\ LengthOf[DefaultHash] = 4
    BY LayoutAssumption
  <2> QED BY <2>1, <2>2 DEF ReadOf
<1>8. PathsOf(D) = {<<>>} \union {<<"sys">>}
  BY <1>3, <1>4, <1>5 DEF PathsOf
<1>9. PathsOf(F) = {<<"sys", "status">>, <<"sys", "passwd">>}
  BY <1>4, <1>6 DEF PathsOf
<1>10. FilesRead(st, F) = SysFiles
  <2> DEFINE C == {StatusFlag, DefaultHash}
  <2>1. Unique(F)
    BY <1>1, FilesIn DEF Unique
  <2>2. SysFiles \in [PathsOf(F) -> C]
    BY <1>9 DEF SysFiles
  <2>3. SysFiles[<<"sys", "status">>] = StatusFlag /\ SysFiles[<<"sys", "passwd">>] = DefaultHash
    BY DEF SysFiles
  <2>4. \A x \in F : SysFiles[x.path] = ReadOf(st, x.inode)
    BY <1>4, <1>6, <1>7, <2>3
  <2> HIDE DEF F, C
  <2> QED BY <2>1, <2>2, <2>4, ReadsAre, Zenon
<1> QED BY <1>8, <1>10 DEF TreeOf, K, T

\* The tree that is remembered is the one of the disk and of what rm -r has open.
Shown == tree = TreeOf(Now, T0)

LEMMA ShownAt ==
    ASSUME NEW s, Shown', Now' = s, stack' = <<>>
    PROVE  tree' = TreeOf(s, View(s))
<1>1. T0' = View(Now')
  BY SeenNone DEF T0
<1> QED BY <1>1 DEF Shown

\* A fault that does no harm cuts a call short before its own writes or after.
LEMMA CallTree ==
    ASSUME Shown, Shown', fs \in Neat, ~dirty', NEW r, Call(r),
           r.final \in Neat, r.cuts \in SUBSET FsStates, Becomes2(fs, r.final) => TreeStep
    PROVE  TreeStep
<1>1. Live /\ stack = <<>> /\ Now = fs /\ T0 = View(fs)
  BY SeenNone DEF Call, Live, Now, T0
<1>2. tree = TreeOf(fs, View(fs))
  BY <1>1 DEF Shown
<1>3. ASSUME NEW s \in {fs, r.final}, Now' = s, stack' = <<>> PROVE TreeStep
  <2>1. tree' = TreeOf(s, View(s))
    BY <1>3, ShownAt
  <2>2. CASE s = fs
    BY <1>2, <2>1, <2>2 DEF TreeStep
  <2>3. CASE s = r.final
    <3>1. Becomes2(fs, r.final)
      BY <1>2, <2>1, <2>3 DEF Becomes2
    <3> QED BY <3>1
  <2> QED BY <1>3, <2>2, <2>3
<1>4. CASE fs' = r.final /\ UNCHANGED <<phase, stack>>
  <2>1. Now' = r.final /\ stack' = <<>>
    BY <1>1, <1>4 DEF Now, Live
  <2> QED BY <1>3, <2>1
<1>5. ASSUME NEW s \in r.cuts, DiskError(s, {fs, r.final}), UNCHANGED phase
      PROVE  TreeStep
  <2>1. Live' /\ s \in FsStates
    BY <1>1, <1>5 DEF Live
  <2>2. s \in {fs, r.final} /\ Now' = s /\ stack' = <<>>
    BY <1>1, <1>5, <2>1, StopsAt
  <2> QED BY <1>3, <2>2
<1>6. ASSUME NEW s \in r.cuts, PowerFailure(s, {fs, r.final}) PROVE TreeStep
  <2>1. s \in FsStates
    BY <1>6
  <2>2. s \in {fs, r.final} /\ Now' = s /\ stack' = <<>>
    BY <1>1, <1>6, <2>1, StopsAt
  <2> QED BY <1>3, <2>2
<1> QED BY <1>4, <1>5, <1>6 DEF Call

LEMMA CallsTree ==
    ASSUME IInv, BInv, EInv, Shown, Shown', ~dirty, ~dirty',
           NEW p \in PathRecords, NEW q \in PathRecords
    PROVE  /\ Mkdir(p) => TreeStep
           /\ Create(p) => TreeStep
           /\ \A text \in Texts \union {Empty} : Write(p, text) => TreeStep
           /\ Remove(p) => TreeStep
           /\ Copy(p, q) => TreeStep
           /\ Rename(p, q) => TreeStep
           /\ \A hash \in Hashes : WritePasswd(hash) => TreeStep
<1>1. ASSUME NEW r, Call(r), fs \in Rooted => r \in Outcomes(fs)
      PROVE  fs \in Neat /\ r.cuts \in SUBSET FsStates
  <2>1. Live /\ stack = <<>>
    BY <1>1 DEF Call, Live
  <2>2. fs \in Neat
    BY <2>1, LiveNeat
  <2> QED BY <1>1, <2>1, <2>2, ReachTypes DEF IInv, TypeOK, Outcomes
<1>2. ASSUME NEW r, Call(r), fs \in Neat => Single(fs, r), fs \in Rooted => r \in Outcomes(fs)
      PROVE  TreeStep
  <2>1. fs \in Neat /\ r.cuts \in SUBSET FsStates
    BY <1>1, <1>2
  <2>2. r.final \in Neat /\ \E i : One(fs, r.final, i) /\ Spares(fs, r.final, {i})
    BY <1>2, <2>1 DEF Single, Touches
  <2>3. Becomes2(fs, r.final) => TreeStep
    BY <2>2, OneStep
  <2> QED BY <1>2, <2>1, <2>2, <2>3, CallTree
<1>3. ASSUME NEW text \in Texts \union {Empty} PROVE text \in Contents
  BY DEF Contents
<1>4. Mkdir(p) => TreeStep
  BY <1>2, CallsSingle, MkdirOutcome DEF Mkdir
<1>5. Create(p) => TreeStep
  BY <1>2, CallsSingle, CreateOutcome DEF Create, PathRecords
<1>6. ASSUME NEW text \in Texts \union {Empty} PROVE Write(p, text) => TreeStep
  BY <1>2, <1>3, CallsSingle, WriteOutcome DEF Write
<1>7. Remove(p) => TreeStep
  BY <1>2, CallsSingle, RemoveOutcome DEF Remove
<1>8. Copy(p, q) => TreeStep
  BY <1>2, CallsSingle, CopyOutcome DEF Copy
<1>9. ASSUME Rename(p, q) PROVE TreeStep
  <2> DEFINE r == fs_rename(fs, p, q)
  <2>1. Call(r) /\ (fs \in Rooted => r \in Outcomes(fs))
    BY <1>9, RenameOutcome DEF Rename
  <2>2. fs \in Neat /\ r.cuts \in SUBSET FsStates
    BY <1>1, <2>1
  <2>3. r.final \in Neat
    BY <2>2, CallsMild DEF Mild
  <2>4. Touches(fs, r, {}) /\ (r.final = fs \/ \E k \in Slots : Renames(fs, r.final, p, q, k))
    BY <2>2, RenameDoes DEF Neat
  <2> HIDE DEF r
  <2>5. ASSUME Becomes2(fs, r.final) PROVE TreeStep
    <3>1. CASE r.final = fs
      BY <2>5, <3>1 DEF Becomes2, TreeStep
    <3>2. Spares(fs, r.final, {})
      BY <2>4 DEF Touches
    <3> QED BY <2>4, <2>5, <3>1, <3>2, RenamesStep
  <2> QED BY <2>1, <2>2, <2>3, <2>5, CallTree
<1>10. ASSUME NEW hash \in Hashes, WritePasswd(hash) PROVE TreeStep
  <2> DEFINE r == fs_write_passwd(fs, hash)
  <2>1. Call(r) /\ (fs \in Rooted => r \in Outcomes(fs))
    BY <1>10, PasswdOutcome DEF WritePasswd
  <2>2. fs \in Neat /\ r.cuts \in SUBSET FsStates
    BY <1>1, <2>1
  <2>3. r.final \in Neat
    BY <2>2, CallsMild DEF Mild
  <2>4. hash \in Contents
    BY DEF Contents
  <2> DEFINE s == r.final
  <2>5. s = fs_write_passwd(fs, hash).final
    OBVIOUS
  <2> HIDE DEF s, r
  <2>6. Becomes2(fs, s) => TreeStep
    BY <2>4, <2>5, PasswdStep
  <2>7. Becomes2(fs, r.final) => TreeStep
    BY <2>6 DEF s
  <2> QED BY <2>1, <2>2, <2>3, <2>7, CallTree
<1> QED BY <1>4, <1>5, <1>6, <1>7, <1>8, <1>9, <1>10

LEMMA HeldGood ==
    ASSUME NEW st \in Tidy, NEW frames \in Seq(Frames), Held(st, frames),
           NEW T, T = Seen(st, frames), Linked(Kinds(st), T, Reached(Kinds(st), T))
    PROVE  Good(st, T)
<1>1. T \in Views /\ Kinds(st) \in [Inodes -> Kind] /\ st \in FsStates
  BY StrollsSees DEF Held, Tidy
<1>2. \A i \in FileSet(Kinds(st), T) : i \in Inodes \ {0} /\ st.inodes[i].type = "file"
  BY StrollsFiles DEF Held
<1>3. \A i \in Inodes : Kinds(st)[i] = st.inodes[i].type
  BY DEF Kinds
<1> QED BY <1>1, <1>2, <1>3 DEF Good, Held

\* A step of rm -r deletes one file or one empty directory, or changes nothing.
LEMMA GoesOnTree ==
    ASSUME Mapped, Mapped', Shown, Shown', Live, NEW i, GoesOn(i)
    PROVE  TreeStep
<1> DEFINE K == Kinds(fs)
           T == Seen(fs, stack)
           K2 == Kinds(fs')
           T2 == Seen(fs', stack')
<1>1. Live' /\ Now = fs /\ Now' = fs'
  BY DEF GoesOn, Live, Now
<1>2. Good(fs, T)
  <2>1. fs \in Tidy /\ stack \in Seq(Frames) /\ Held(fs, stack) /\ Linked(K, T, Reached(K, T))
    BY <1>1 DEF Mapped, K0, T0
  <2> HIDE DEF T
  <2>2. T = Seen(fs, stack)
    BY DEF T
  <2> QED BY <2>1, <2>2, HeldGood
<1>3. Good(fs', T2)
  <2>1. fs' \in Tidy /\ stack' \in Seq(Frames) /\ Held(fs', stack') /\ Linked(K2, T2, Reached(K2, T2))
    BY <1>1 DEF Mapped, K0, T0
  <2> HIDE DEF T2
  <2>2. T2 = Seen(fs', stack')
    BY DEF T2
  <2> QED BY <2>1, <2>2, HeldGood
<1>4. Goes2(fs, T, fs', T2)
  <2>1. Shown = (tree = TreeOf(fs, T)) /\ Shown' = (tree' = TreeOf(fs', T2))
    BY <1>1 DEF Shown, T0
  <2> QED BY <1>2, <1>3, <2>1 DEF Goes2
<1>5. T \in Views /\ T2 \in Views
  BY <1>2, <1>3 DEF Good
<1>6. CASE Rests(K, T, K2, T2) /\ Spares(fs, fs', {})
  <2>1. PICK R : Linked(K, T, R) /\ Stays(K, T, K2, T2, R)
    BY <1>6 DEF Rests
  <2> HIDE DEF K, T, K2, T2
  <2>2. DirsOf(K2, T2) = DirsOf(K, T) /\ FilesOf(K2, T2) = FilesOf(K, T)
    BY <1>5, <2>1, StaysTree
  <2>3. \A j \in FileSet(K, T) : j # 0 => ReadOf(fs', j) = ReadOf(fs, j)
    <3>1. \A j \in FileSet(Kinds(fs), T) : j \notin {} => ReadOf(fs', j) = ReadOf(fs, j)
      BY <1>2, <1>6, SparedRead
    <3> QED BY <3>1 DEF K
  <2> QED BY <1>4, <2>2, <2>3, StaysStep DEF K, K2
<1>7. CASE Frees(K, T, K2, T2, i) /\ Spares(fs, fs', {i})
  <2>1. PICK R : Linked(K, T, R) /\ \E d \in Inodes, k \in Slots : Drops(K, T, K2, T2, R, d, k, i)
    BY <1>7 DEF Frees
  <2>2. PICK d \in Inodes, k \in Slots : Drops(K, T, K2, T2, R, d, k, i)
    BY <2>1
  <2> HIDE DEF T, T2
  <2> QED BY <1>4, <1>7, <2>1, <2>2, DropsStep
<1> QED BY <1>6, <1>7 DEF GoesOn, Walked

LEMMA RemoveTree ==
    ASSUME IInv, BInv, EInv, Mapped, Mapped', Shown, Shown', ~dirty, ~dirty', RemoveStep
    PROVE  TreeStep
<1>1. Live
  BY RemoveLive
<1>2. PICK i \in Inodes : GoesOn(i) \/ IsCut(i)
  BY <1>1, RemoveStepDoes DEF EInv, Held
<1>3. ~IsCut(i)
  BY DEF IsCut, RemoveFaults, DiskError, PowerFailure, LosePower
<1> QED BY <1>1, <1>2, <1>3, GoesOnTree

\* What leaves the filesystem as it is leaves the tree.
LEMMA SameTree ==
    ASSUME Shown, Shown', stack = <<>>, stack' = <<>>, Now' = Now
    PROVE  TreeStep
<1>1. T0 = View(Now) /\ T0' = View(Now')
  BY SeenNone DEF T0
<1>2. tree = TreeOf(Now, T0) /\ tree' = TreeOf(Now', T0')
  BY DEF Shown
<1> QED BY <1>1, <1>2 DEF TreeStep

LEMMA FormatTree ==
    ASSUME IInv, ~dirty', Shown', Format
    PROVE  TreeStep
<1> DEFINE s == Now'
<1>1. FreshDisk(s) /\ stack' = <<>>
  BY FormatLeaves
<1>2. tree' = TreeOf(s, View(s))
  BY <1>1, ShownAt
<1> HIDE DEF s
<1>3. /\ TreeOf(s, View(s)).dirs = {<<>>} \union {<<"sys">>}
      /\ TreeOf(s, View(s)).files = SysFiles
      /\ TreeOf(s, View(s)).intact = TRUE
  BY <1>1, FreshTree
<1>4. Tree!Format
  BY <1>2, <1>3 DEF Tree!Format, SysFiles
<1> QED BY <1>4 DEF TreeStep, Tree!Next

\* Every step from a sound filesystem to a sound one.
LEMMA SoundStep ==
    ASSUME AllInv, Sound, Sound', Mapped, Mapped', Shown, Shown', Next
    PROVE  TreeStep
<1>1. ~dirty /\ ~dirty' /\ IInv /\ BInv /\ EInv
  BY DEF Sound, AllInv
<1>2. Paths \subseteq PathRecords
  BY FilesystemAssumption
<1>3. ASSUME Reboot PROVE TreeStep
  <2>1. Live /\ stack = <<>> /\ LosePower(fs, {fs}) /\ fs \in FsStates
    BY <1>1, <1>3 DEF Reboot, Live, IInv, TypeOK
  <2>2. Now' = fs /\ stack' = <<>>
    BY <1>1, <2>1, StopsAt
  <2>3. Now = fs
    BY <2>1 DEF Now
  <2> QED BY <2>1, <2>2, <2>3, SameTree
<1>4. ASSUME NEW p \in Paths, RemoveRecursive(p) PROVE TreeStep
  <2>1. GoesOn(0) /\ Live
    BY <1>1, <1>2, <1>4, RemoveRecursiveDoes DEF Live
  <2> QED BY <2>1, GoesOnTree
<1>5. ASSUME NEW p \in Paths, NEW q \in Paths,
             \/ Mkdir(p) \/ Create(p) \/ Remove(p) \/ Copy(p, q) \/ Rename(p, q)
             \/ \E text \in Texts \union {Empty} : Write(p, text)
      PROVE  TreeStep
  BY <1>1, <1>2, <1>5, CallsTree
<1>6. ASSUME NEW hash \in Hashes, WritePasswd(hash) PROVE TreeStep
  <2>1. \E p : p \in PathRecords
    <3>1. [dir |-> NoName, name |-> "sys"] \in PathRecords
      BY LayoutAssumption DEF PathRecords, Names
    <3> QED BY <3>1
  <2> QED BY <1>1, <1>6, <2>1, CallsTree
<1>7. Mount => TreeStep
  BY <1>1, MountSame, SameTree
<1>8. Format => TreeStep
  BY <1>1, FormatTree
<1>9. RemoveStep => TreeStep
  BY <1>1, RemoveTree
<1> QED BY <1>3, <1>4, <1>5, <1>6, <1>7, <1>8, <1>9 DEF Next

\* Only a format makes a damaged filesystem, or none, a sound one.
LEMMA OnlyFormatRepairs ==
    ASSUME IInv, ~Sound, Sound', Next
    PROVE  Format
<1> SUFFICES ASSUME ~Format PROVE FALSE
  OBVIOUS
<1>1. ~dirty' /\ (Live' \/ fs'.dsb)
  BY DEF Sound
<1>2. ASSUME NEW r, Call(r) PROVE Live /\ ~dirty
  <2>1. \A s, whole : DiskError(s, whole) \/ PowerFailure(s, whole) => ~dirty
    BY <1>1 DEF DiskError, PowerFailure, LosePower
  <2>2. (UNCHANGED dirty) => ~dirty
    BY <1>1
  <2> QED BY <1>2, <2>1, <2>2 DEF Call, Live
<1>3. ASSUME NEW s, NEW frames, Goes(s, frames) PROVE ~dirty
  BY <1>1, <1>3 DEF Goes
<1>4. ASSUME NEW cuts, RemoveFaults(cuts) PROVE ~dirty
  BY <1>1, <1>4 DEF RemoveFaults, DiskError, PowerFailure, LosePower
<1>5. Mount => FALSE
  <2> SUFFICES ASSUME Mount PROVE FALSE
    OBVIOUS
  <2> DEFINE r == fs_init(fs)
  <2>1. fs \in FsStates /\ phase \in {"start", "reinit"} /\ fs.dsb \in BOOLEAN
    BY DEF IInv, TypeOK, FsStates, Mount
  <2>2. ~dirty
    BY <1>1 DEF Mount, DiskError
  <2>3. phase = "start" /\ ~fs.dsb
    BY <2>1, <2>2 DEF Sound, Live
  <2>4. r.cuts = MountCuts(fs) /\ ~r.ok /\ r.final = read_superblock(fs)
    BY <2>3 DEF fs_init, Outcome
  <2>5. r.final.dsb = fs.dsb /\ \A s \in MountCuts(fs) : s.dsb = fs.dsb
    <3>1. \A s \in MountCuts(fs) : s.dsb = fs.dsb
      BY <2>1, CutsKeep
    <3>2. read_superblock(fs).dsb = fs.dsb
      BY <2>1 DEF read_superblock, FsStates
    <3> QED BY <2>4, <3>1, <3>2
  <2> HIDE DEF r
  <2>6. phase' = "format" /\ ~fs'.dsb
    BY <2>3, <2>4, <2>5 DEF Mount, DiskError, r
  <2> QED BY <1>1, <2>6 DEF Live
<1>6. ASSUME Reboot PROVE FALSE
  BY <1>1, <1>6 DEF Reboot, LosePower, Live, Sound
<1>7. ASSUME RemoveStep PROVE FALSE
  <2>1. RemoveEnter \/ RemoveCurrent \/ RemoveLeave \/ RemoveGivesUp => ~dirty
    BY <1>3, <1>4 DEF RemoveEnter, RemoveCurrent, RemoveLeave, RemoveGivesUp
  <2>2. RemoveDone => ~dirty
    BY <1>1, <1>4 DEF RemoveDone
  <2>3. Live
    BY <1>7, RemoveLive
  <2> QED BY <1>7, <2>1, <2>2, <2>3 DEF RemoveStep, Sound
<1>8. ASSUME NEW p \in Paths, NEW q \in Paths
      PROVE  /\ ~Mkdir(p) /\ ~Create(p) /\ ~Remove(p) /\ ~Copy(p, q) /\ ~Rename(p, q)
             /\ \A text \in Texts \union {Empty} : ~Write(p, text)
  BY <1>2 DEF Mkdir, Create, Remove, Copy, Rename, Write, Sound
<1>9. ASSUME NEW p \in Paths PROVE ~RemoveRecursive(p)
  BY <1>3 DEF RemoveRecursive, Sound, Live
<1>10. ASSUME NEW hash \in Hashes PROVE ~WritePasswd(hash)
  BY <1>2 DEF WritePasswd, Sound
<1> QED BY <1>5, <1>6, <1>7, <1>8, <1>9, <1>10 DEF Next

\* A step of the tree that is remembered is one of FileTree, or none.
LEMMA TreeMoves ==
    ASSUME AllInv, tree = TreeSeen, [TreeNext]_<<vars, tree>>,
           Sound => Mapped /\ SeenSo, Sound' => Mapped' /\ SeenSo'
    PROVE  [Tree!Next]_(Tree!treeVars)
<1>1. ASSUME TreeStep PROVE [Tree!Next]_(Tree!treeVars)
  BY <1>1 DEF TreeStep, Tree!treeVars
<1>2. SUFFICES ASSUME TreeNext PROVE TreeStep
  BY <1>1 DEF TreeStep
<1>3. Next /\ tree' = TreeSeen'
  BY <1>2 DEF TreeNext
<1>4. Sound => Shown
  BY DEF SeenSo, Shown, TreeOf, K0
<1>5. Sound' => Shown'
  BY <1>3 DEF SeenSo, Shown, TreeOf, K0
<1>6. CASE ~Sound'
  <2>1. tree' = NoTree
    BY <1>3, <1>6 DEF TreeSeen
  <2>2. Tree!Damage
    BY <2>1 DEF NoTree, Tree!Damage
  <2> QED BY <2>2 DEF TreeStep, Tree!Next
<1>7. CASE Sound' /\ ~Sound
  <2>1. Format /\ IInv /\ ~dirty'
    BY <1>3, <1>7, OnlyFormatRepairs DEF AllInv, Sound
  <2> QED BY <1>5, <1>7, <2>1, FormatTree
<1>8. CASE Sound' /\ Sound
  BY <1>3, <1>4, <1>5, <1>8, SoundStep
<1> QED BY <1>6, <1>7, <1>8

\* The filesystem implements FileTree: seen through the tree its disk and RAM
\* hold, every call of filesystem.cpp that returns, every step of rm -r, every
\* reboot and remount, and every disk error or power failure that comes before
\* or after a call's own writes, is one change that FileTree allows or none;
\* one that comes between them ends the promise until the next fs_format.
THEOREM TreeIsImplemented == TreeSpec => ImplementsFileTree
<1>1. TreeInit => Tree!Init
  <2> SUFFICES ASSUME TreeInit PROVE Tree!Init
    OBVIOUS
  <2>1. ~Sound
    BY DEF TreeInit, Init, Sound, Live, BlankDisk
  <2>2. tree = NoTree
    BY <2>1 DEF TreeInit, TreeSeen
  <2> QED BY <2>2 DEF NoTree, Tree!Init
<1>2. AllInv /\ Sound => Mapped /\ SeenSo
  BY SoundSeen
<1>3. ASSUME AllInv, tree = TreeSeen, Sound => Mapped /\ SeenSo, Sound' => Mapped' /\ SeenSo',
             [TreeNext]_<<vars, tree>>
      PROVE  [Tree!Next]_(Tree!treeVars)
  BY <1>3, TreeMoves
<1> QED BY <1>1, <1>2, <1>3, TreeInvariant, PTL DEF TreeSpec, ImplementsFileTree, Tree!Spec
=============================================================================
