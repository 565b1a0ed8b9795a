---------------------------- MODULE FsTreeProofs ----------------------------
(***************************************************************************)
(* What a call does to the tree of a sound filesystem, for every value of  *)
(* the constants: to its places, to its files and to what is lost.         *)
(*                                                                         *)
(* FsTree's Within counts levels.  Here the tree is the least set of       *)
(* places, each a path and an inode, that has the root and with a          *)
(* directory its subdirectories: what a call does to it then follows from  *)
(* two sets being closed, and no path is ever followed step by step.       *)
(***************************************************************************)
EXTENDS FilesystemProofs, FsImplements

AnyNames == Names \union {JunkName}
Spots == [path : Seq(AnyNames), inode : Inodes]
Top0 == [path |-> <<>>, inode |-> 0]

\* Slot s of directory d has an entry for something of the type.
Leads(K, T, d, s, type) == InUse(T, d, s) /\ K[T[d][s].inode] = type
Child(T, x, s) ==
    [path |-> Append(x.path, T[x.inode][s].name), inode |-> T[x.inode][s].inode]

Closed(K, T, S) ==
    /\ Top0 \in S
    /\ \A x \in S, s \in Slots : Leads(K, T, x.inode, s, "dir") => Child(T, x, s) \in S

DirsOf(K, T) == {x \in Spots : \A S \in SUBSET Spots : Closed(K, T, S) => x \in S}
FilesOf(K, T) ==
    {x \in Spots : \E y \in DirsOf(K, T), s \in Slots :
        Leads(K, T, y.inode, s, "file") /\ x = Child(T, y, s)}

LEMMA SpotTypes ==
    ASSUME NEW T \in Views
    PROVE  /\ Top0 \in Spots
           /\ \A x \in Spots, s \in Slots : InUse(T, x.inode, s) => Child(T, x, s) \in Spots
           /\ \A x \in Spots : x.inode \in Inodes /\ x.path \in Seq(AnyNames)
           /\ \A x \in Spots, s \in Slots :
                /\ Child(T, x, s).inode = T[x.inode][s].inode
                /\ Child(T, x, s).path = Append(x.path, T[x.inode][s].name)
<1>1. <<>> \in Seq(AnyNames) /\ 0 \in Inodes
  BY Numbers, EmptySeq
<1>2. ASSUME NEW x \in Spots, NEW s \in Slots, InUse(T, x.inode, s)
      PROVE  Child(T, x, s) \in Spots
  <2>1. x.inode \in Inodes /\ x.path \in Seq(AnyNames)
    BY DEF Spots
  <2>2. T[x.inode][s] \in Entries
    BY <2>1 DEF Views, Tables
  <2>3. T[x.inode][s].name \in AnyNames /\ T[x.inode][s].inode \in Inodes
    BY <1>2, <2>2 DEF Entries, InUse, AnyNames
  <2>4. Append(x.path, T[x.inode][s].name) \in Seq(AnyNames)
    BY <2>1, <2>3, AppendProperties
  <2> QED BY <2>3, <2>4 DEF Child, Spots
<1> QED BY <1>1, <1>2 DEF Spots, Top0, Child

LEMMA DirsLeast ==
    ASSUME NEW K, NEW T \in Views, NEW S, Closed(K, T, S)
    PROVE  DirsOf(K, T) \subseteq S
<1> DEFINE Q == S \intersect Spots
<1>1. Closed(K, T, Q)
  <2>1. Top0 \in Q
    BY SpotTypes DEF Closed
  <2>2. ASSUME NEW x \in Q, NEW s \in Slots, Leads(K, T, x.inode, s, "dir")
        PROVE  Child(T, x, s) \in Q
    BY <2>2, SpotTypes DEF Closed, Leads
  <2> QED BY <2>1, <2>2 DEF Closed
<1>2. Q \in SUBSET Spots
  OBVIOUS
<1> HIDE DEF Q
<1>3. DirsOf(K, T) \subseteq Q
  BY <1>1, <1>2 DEF DirsOf
<1> QED BY <1>3 DEF Q

LEMMA DirsClosed ==
    ASSUME NEW K, NEW T \in Views
    PROVE  Closed(K, T, DirsOf(K, T)) /\ DirsOf(K, T) \subseteq Spots
<1>1. Top0 \in DirsOf(K, T)
  BY SpotTypes DEF DirsOf, Closed
<1>2. ASSUME NEW x \in DirsOf(K, T), NEW s \in Slots, Leads(K, T, x.inode, s, "dir")
      PROVE  Child(T, x, s) \in DirsOf(K, T)
  <2>1. x \in Spots
    BY DEF DirsOf
  <2>2. Child(T, x, s) \in Spots
    BY <1>2, <2>1, SpotTypes DEF Leads
  <2>3. ASSUME NEW S \in SUBSET Spots, Closed(K, T, S) PROVE Child(T, x, s) \in S
    <3>1. x \in S
      BY <2>3 DEF DirsOf
    <3> QED BY <1>2, <2>3, <3>1 DEF Closed
  <2> QED BY <2>2, <2>3 DEF DirsOf
<1> QED BY <1>1, <1>2 DEF Closed, DirsOf

\* Every directory but the root has been reached through another one.
LEMMA DirsSplit ==
    ASSUME NEW K, NEW T \in Views, NEW x \in DirsOf(K, T), x # Top0
    PROVE  \E y \in DirsOf(K, T), s \in Slots :
              Leads(K, T, y.inode, s, "dir") /\ x = Child(T, y, s)
<1> DEFINE S == {y \in DirsOf(K, T) :
                   y = Top0 \/ \E z \in DirsOf(K, T), s \in Slots :
                      Leads(K, T, z.inode, s, "dir") /\ y = Child(T, z, s)}
<1>1. Closed(K, T, S)
  BY DirsClosed DEF Closed
<1> HIDE DEF S
<1>2. x \in S
  BY <1>1, DirsLeast
<1> QED BY <1>2 DEF S

LEMMA AppendIs ==
    ASSUME NEW p \in Seq(AnyNames), NEW a \in AnyNames, NEW q \in Seq(AnyNames), NEW b \in AnyNames
    PROVE  /\ Append(p, a) # <<>>
           /\ Append(p, a) = Append(q, b) => p = q /\ a = b
<1>1. /\ Len(Append(p, a)) = Len(p) + 1 /\ Len(Append(q, b)) = Len(q) + 1
      /\ \A i \in 1 .. Len(p) : Append(p, a)[i] = p[i]
      /\ \A i \in 1 .. Len(q) : Append(q, b)[i] = q[i]
      /\ Append(p, a)[Len(p) + 1] = a /\ Append(q, b)[Len(q) + 1] = b
      /\ Len(p) \in Nat /\ Len(q) \in Nat
  BY AppendProperties, LenProperties
<1>2. Append(p, a) # <<>>
  BY <1>1, EmptySeq
<1>3. ASSUME Append(p, a) = Append(q, b) PROVE p = q /\ a = b
  <2>1. Len(p) = Len(q)
    BY <1>1, <1>3
  <2>2. \A i \in 1 .. Len(p) : p[i] = q[i]
    BY <1>1, <1>3, <2>1
  <2> QED BY <1>1, <1>3, <2>1, <2>2, SeqEqual
<1> QED BY <1>2, <1>3

-----------------------------------------------------------------------------
(* In a linked tree every place has one path and one inode *)

LEMMA DirsIn ==
    ASSUME NEW K, NEW T \in Views, NEW R, Linked(K, T, R), NEW x \in DirsOf(K, T)
    PROVE  x.inode \in R /\ x.inode \in Inodes /\ K[x.inode] = "dir"
<1> DEFINE S == {y \in DirsOf(K, T) : y.inode \in R}
<1>1. Top0 \in S
  BY DirsClosed DEF Closed, Top0, Linked
<1>2. ASSUME NEW y \in S, NEW s \in Slots, Leads(K, T, y.inode, s, "dir")
      PROVE  Child(T, y, s) \in S
  <2>1. Child(T, y, s) \in DirsOf(K, T)
    BY <1>2, DirsClosed DEF Closed
  <2>2. T[y.inode][s].inode \in R
    BY <1>2 DEF Linked, Refers, Leads
  <2> QED BY <2>1, <2>2 DEF Child
<1>3. Closed(K, T, S)
  BY <1>1, <1>2 DEF Closed
<1> HIDE DEF S
<1>4. x \in S
  BY <1>3, DirsLeast
<1> QED BY <1>4 DEF S, Linked

\* The inode of a child is not the root's, and no other entry has it.
LEMMA OneParent ==
    ASSUME NEW K, NEW T \in Views, NEW R, Linked(K, T, R),
           NEW x \in DirsOf(K, T), NEW s \in Slots, InUse(T, x.inode, s)
    PROVE  /\ T[x.inode][s].inode \in Inodes \ {0}
           /\ T[x.inode][s].name \in Names
           /\ Child(T, x, s) # Top0
           /\ \A y \in DirsOf(K, T), r \in Slots :
                InUse(T, y.inode, r) /\ T[y.inode][r].inode = T[x.inode][s].inode
                    => y.inode = x.inode /\ r = s
<1>1. x.inode \in R /\ x.inode \in Inodes
  BY DirsIn
<1>2. T[x.inode][s].inode \in Inodes
  BY <1>1 DEF Views, Tables, Entries
<1>3. T[x.inode][s].inode # 0 /\ T[x.inode][s].name \in Names
  BY <1>1 DEF Linked, Refers
<1>4. ASSUME NEW y \in DirsOf(K, T), NEW r \in Slots,
             InUse(T, y.inode, r), T[y.inode][r].inode = T[x.inode][s].inode
      PROVE  y.inode = x.inode /\ r = s
  <2>1. y.inode \in R
    BY DirsIn
  <2> QED BY <1>1, <1>4, <2>1 DEF Linked, Unshared
<1> QED BY <1>2, <1>3, <1>4 DEF Child, Top0

LEMMA OnePlace ==
    ASSUME NEW K, NEW T \in Views, NEW R, Linked(K, T, R)
    PROVE  \A x, y \in DirsOf(K, T) : x.inode = y.inode => x = y
<1> DEFINE S == {x \in DirsOf(K, T) : \A y \in DirsOf(K, T) : x.inode = y.inode => x = y}
<1>1. Top0 \in S
  <2>1. Top0 \in DirsOf(K, T)
    BY DirsClosed DEF Closed
  <2>2. ASSUME NEW y \in DirsOf(K, T), y.inode = 0 PROVE y = Top0
    <3>1. SUFFICES ASSUME y # Top0 PROVE FALSE
      OBVIOUS
    <3>2. PICK z \in DirsOf(K, T), r \in Slots : Leads(K, T, z.inode, r, "dir") /\ y = Child(T, z, r)
      BY <3>1, DirsSplit
    <3>3. T[z.inode][r].inode # 0
      BY <3>2, OneParent DEF Leads
    <3> QED BY <2>2, <3>2, <3>3 DEF Child
  <2> QED BY <2>1, <2>2 DEF Top0
<1>2. ASSUME NEW x \in S, NEW s \in Slots, Leads(K, T, x.inode, s, "dir")
      PROVE  Child(T, x, s) \in S
  <2> DEFINE c == Child(T, x, s)
  <2>1. c \in DirsOf(K, T) /\ c.inode = T[x.inode][s].inode
    BY <1>2, DirsClosed DEF Closed, Child
  <2>2. ASSUME NEW y \in DirsOf(K, T), y.inode = c.inode PROVE c = y
    <3>0. x \in DirsOf(K, T) /\ InUse(T, x.inode, s)
      BY <1>2 DEF Leads
    <3>1. y # Top0
      BY <2>1, <2>2, <3>0, OneParent DEF Top0
    <3>2. PICK z \in DirsOf(K, T), r \in Slots : Leads(K, T, z.inode, r, "dir") /\ y = Child(T, z, r)
      BY <3>1, DirsSplit
    <3>3. T[z.inode][r].inode = T[x.inode][s].inode /\ InUse(T, z.inode, r)
      BY <2>1, <2>2, <3>2 DEF Child, Leads
    <3>4. z.inode = x.inode /\ r = s
      BY <3>0, <3>3, OneParent
    <3>5. z = x
      BY <1>2, <3>4
    <3> QED BY <3>2, <3>4, <3>5
  <2> QED BY <2>1, <2>2
<1>3. Closed(K, T, S)
  BY <1>1, <1>2 DEF Closed
<1> HIDE DEF S
<1>4. DirsOf(K, T) \subseteq S
  BY <1>3, DirsLeast
<1> QED BY <1>4 DEF S

LEMMA OnePath ==
    ASSUME NEW K, NEW T \in Views, NEW R, Linked(K, T, R)
    PROVE  \A x, y \in DirsOf(K, T) : x.path = y.path => x = y
<1> DEFINE S == {x \in DirsOf(K, T) : \A y \in DirsOf(K, T) : x.path = y.path => x = y}
<1>0. ASSUME NEW x \in DirsOf(K, T), NEW s \in Slots, InUse(T, x.inode, s)
      PROVE  /\ T[x.inode][s].name \in AnyNames /\ x.path \in Seq(AnyNames)
             /\ Child(T, x, s).path = Append(x.path, T[x.inode][s].name)
  BY <1>0, OneParent, DirsClosed DEF AnyNames, Spots, Child
<1>1. Top0 \in S
  <2>1. Top0 \in DirsOf(K, T)
    BY DirsClosed DEF Closed
  <2>2. ASSUME NEW y \in DirsOf(K, T), y.path = <<>> PROVE y = Top0
    <3>1. SUFFICES ASSUME y # Top0 PROVE FALSE
      OBVIOUS
    <3>2. PICK z \in DirsOf(K, T), r \in Slots : Leads(K, T, z.inode, r, "dir") /\ y = Child(T, z, r)
      BY <3>1, DirsSplit
    <3> QED BY <1>0, <2>2, <3>2, AppendIs DEF Leads
  <2> QED BY <2>1, <2>2 DEF Top0
<1>2. ASSUME NEW x \in S, NEW s \in Slots, Leads(K, T, x.inode, s, "dir")
      PROVE  Child(T, x, s) \in S
  <2> DEFINE c == Child(T, x, s)
  <2>0. x \in DirsOf(K, T) /\ InUse(T, x.inode, s)
    BY <1>2 DEF Leads
  <2>1. c \in DirsOf(K, T) /\ c.path = Append(x.path, T[x.inode][s].name)
    BY <1>2, DirsClosed DEF Closed, Child
  <2>2. ASSUME NEW y \in DirsOf(K, T), c.path = y.path PROVE c = y
    <3>1. y # Top0
      BY <1>0, <2>0, <2>1, <2>2, AppendIs DEF Top0
    <3>2. PICK z \in DirsOf(K, T), r \in Slots : Leads(K, T, z.inode, r, "dir") /\ y = Child(T, z, r)
      BY <3>1, DirsSplit
    <3>3. InUse(T, z.inode, r) /\ y.path = Append(z.path, T[z.inode][r].name)
      BY <3>2 DEF Child, Leads
    <3>4. z.path = x.path /\ T[z.inode][r].name = T[x.inode][s].name
      <4> DEFINE p == z.path
                 a == T[z.inode][r].name
                 q == x.path
                 b == T[x.inode][s].name
      <4>1. p \in Seq(AnyNames) /\ a \in AnyNames /\ q \in Seq(AnyNames) /\ b \in AnyNames
        BY <1>0, <2>0, <3>3
      <4>2. Append(p, a) = Append(q, b)
        BY <2>1, <2>2, <3>3
      <4> HIDE DEF p, a, q, b
      <4>3. p = q /\ a = b
        BY <4>1, <4>2, AppendIs
      <4> QED BY <4>3 DEF p, a, q, b
    <3>5. z = x
      BY <1>2, <3>4
    <3>6. x.inode \in R
      BY <2>0, DirsIn
    <3>7. r = s
      BY <1>2, <3>2, <3>4, <3>5, <3>6 DEF Leads, Linked, Telling
    <3> QED BY <3>2, <3>5, <3>7
  <2> QED BY <2>1, <2>2
<1>3. Closed(K, T, S)
  BY <1>1, <1>2 DEF Closed
<1> HIDE DEF S
<1>4. DirsOf(K, T) \subseteq S
  BY <1>3, DirsLeast
<1> QED BY <1>4 DEF S

\* The same of the files.
LEMMA FilesIn ==
    ASSUME NEW K, NEW T \in Views, NEW R, Linked(K, T, R)
    PROVE  /\ \A x \in FilesOf(K, T) : x.inode \in Inodes \ {0} /\ K[x.inode] = "file"
           /\ \A x, y \in FilesOf(K, T) : x.inode = y.inode => x = y
           /\ \A x, y \in FilesOf(K, T) : x.path = y.path => x = y
<1>1. ASSUME NEW x \in FilesOf(K, T)
      PROVE  x.inode \in Inodes \ {0} /\ K[x.inode] = "file"
  BY OneParent DEF FilesOf, Leads, Child
<1>2. ASSUME NEW x \in FilesOf(K, T), NEW y \in FilesOf(K, T), x.inode = y.inode \/ x.path = y.path
      PROVE  x = y
  <2>1. PICK u \in DirsOf(K, T), s \in Slots : Leads(K, T, u.inode, s, "file") /\ x = Child(T, u, s)
    BY DEF FilesOf
  <2>2. PICK v \in DirsOf(K, T), r \in Slots : Leads(K, T, v.inode, r, "file") /\ y = Child(T, v, r)
    BY DEF FilesOf
  <2>3. InUse(T, u.inode, s) /\ InUse(T, v.inode, r)
    BY <2>1, <2>2 DEF Leads
  <2>4. CASE x.inode = y.inode
    <3>1. v.inode = u.inode /\ r = s
      BY <2>1, <2>2, <2>3, <2>4, OneParent DEF Child
    <3> QED BY <2>1, <2>2, <3>1, OnePlace
  <2>5. CASE x.path = y.path
    <3>1. /\ u.path \in Seq(AnyNames) /\ T[u.inode][s].name \in AnyNames
          /\ v.path \in Seq(AnyNames) /\ T[v.inode][r].name \in AnyNames
      BY <2>3, OneParent, DirsClosed DEF AnyNames, Spots
    <3>2. Append(u.path, T[u.inode][s].name) = Append(v.path, T[v.inode][r].name)
      BY <2>1, <2>2, <2>5 DEF Child
    <3>3. u.path = v.path /\ T[u.inode][s].name = T[v.inode][r].name
      <4> DEFINE p == u.path
                 a == T[u.inode][s].name
                 q == v.path
                 b == T[v.inode][r].name
      <4>1. p \in Seq(AnyNames) /\ a \in AnyNames /\ q \in Seq(AnyNames) /\ b \in AnyNames
        BY <3>1
      <4>2. Append(p, a) = Append(q, b)
        BY <3>2
      <4> HIDE DEF p, a, q, b
      <4>3. p = q /\ a = b
        BY <4>1, <4>2, AppendIs
      <4> QED BY <4>3 DEF p, a, q, b
    <3>4. u = v
      BY <3>3, OnePath
    <3>5. u.inode \in R
      BY DirsIn
    <3>6. s = r
      BY <2>1, <2>2, <3>3, <3>4, <3>5 DEF Leads, Linked, Telling
    <3> QED BY <2>1, <2>2, <3>4, <3>6
  <2> QED BY <1>2, <2>4, <2>5
<1> QED BY <1>1, <1>2

-----------------------------------------------------------------------------
(* While rm -r runs, the disk still has entries of what has been freed: no  *)
(* path leads through them.                                                *)

\* T is V but for entries that V has no more, for something that is no more.
Shadows(K, T, V, R) ==
    \A d \in R, s \in Slots :
        \/ T[d][s] = V[d][s]
        \/ V[d][s].name = NoName /\ K[T[d][s].inode] = "none"

LEMMA ShadowLeads ==
    ASSUME NEW K, NEW T \in Views, NEW V \in Views, NEW R, Linked(K, V, R), Shadows(K, T, V, R),
           NEW x, x.inode \in R, NEW s \in Slots, NEW type \in {"file", "dir"}
    PROVE  /\ Leads(K, T, x.inode, s, type) <=> Leads(K, V, x.inode, s, type)
           /\ Leads(K, T, x.inode, s, type) => Child(T, x, s) = Child(V, x, s)
<1> DEFINE d == x.inode
<1>1. \/ T[d][s] = V[d][s]
      \/ V[d][s].name = NoName /\ K[T[d][s].inode] = "none"
  BY DEF Shadows
<1> QED BY <1>1 DEF Leads, InUse, Child

LEMMA ShadowSame ==
    ASSUME NEW K, NEW T \in Views, NEW V \in Views, NEW R, Linked(K, V, R), Shadows(K, T, V, R)
    PROVE  DirsOf(K, T) = DirsOf(K, V) /\ FilesOf(K, T) = FilesOf(K, V)
<1>1. \A x \in DirsOf(K, V) : x.inode \in R
  BY DirsIn
<1>2. Closed(K, T, DirsOf(K, V))
  <2>1. ASSUME NEW x \in DirsOf(K, V), NEW s \in Slots, Leads(K, T, x.inode, s, "dir")
        PROVE  Child(T, x, s) \in DirsOf(K, V)
    <3>1. Leads(K, V, x.inode, s, "dir") /\ Child(T, x, s) = Child(V, x, s)
      BY <1>1, <2>1, ShadowLeads
    <3> QED BY <3>1, DirsClosed DEF Closed
  <2> QED BY <2>1, DirsClosed DEF Closed
<1>3. DirsOf(K, T) \subseteq DirsOf(K, V)
  BY <1>2, DirsLeast
<1>4. Closed(K, V, DirsOf(K, T))
  <2>1. ASSUME NEW x \in DirsOf(K, T), NEW s \in Slots, Leads(K, V, x.inode, s, "dir")
        PROVE  Child(V, x, s) \in DirsOf(K, T)
    <3>1. Leads(K, T, x.inode, s, "dir") /\ Child(T, x, s) = Child(V, x, s)
      BY <1>1, <1>3, <2>1, ShadowLeads
    <3> QED BY <3>1, DirsClosed DEF Closed
  <2> QED BY <2>1, DirsClosed DEF Closed
<1>5. DirsOf(K, V) \subseteq DirsOf(K, T)
  BY <1>4, DirsLeast
<1>6. DirsOf(K, T) = DirsOf(K, V)
  BY <1>3, <1>5
<1>7. ASSUME NEW x \in Spots
      PROVE  x \in FilesOf(K, T) <=> x \in FilesOf(K, V)
  <2>1. ASSUME NEW y \in DirsOf(K, V), NEW s \in Slots
        PROVE  (Leads(K, T, y.inode, s, "file") /\ x = Child(T, y, s))
                 <=> (Leads(K, V, y.inode, s, "file") /\ x = Child(V, y, s))
    BY <1>1, <2>1, ShadowLeads
  <2> QED BY <1>6, <2>1 DEF FilesOf
<1>8. FilesOf(K, T) \subseteq Spots /\ FilesOf(K, V) \subseteq Spots
  BY DEF FilesOf
<1> QED BY <1>6, <1>7, <1>8

-----------------------------------------------------------------------------
(* FsTree's tree is that set *)

\* st is the state that Inode and TableOf speak of.
Is(st) ==
    /\ st \in FsStates /\ Inode = st.inodes
    /\ \A d : TableOf(d) = st.blocks[st.inodes[d].block].table

LEMMA ChildrenAre ==
    ASSUME NEW st, Is(st), NEW x \in Spots, NEW type
    PROVE  Children(x, type) = {Child(View(st), x, s) :
                                  s \in {r \in Slots : Leads(Kinds(st), View(st), x.inode, r, type)}}
<1> DEFINE T == View(st)
           K == Kinds(st)
           d == x.inode
<1>1. T \in Views /\ T[d] \in Tables /\ d \in Inodes
  BY ViewTypes DEF Is, Spots
<1>2. TableOf(d) = T[d]
  BY <1>1 DEF Is, View
<1>3. \A r \in Slots : T[d][r].inode \in Inodes
  BY <1>1 DEF Tables, Entries
<1>4. \A i \in Inodes : Inode[i].type = K[i]
  BY ViewTypes DEF Is
<1>5. {r \in UsedSlots(TableOf(d)) : Inode[TableOf(d)[r].inode].type = type}
        = {r \in Slots : Leads(K, T, d, r, type)}
  <2> HIDE DEF T, K, d
  <2>1. \A r \in Slots : Inode[T[d][r].inode].type = K[T[d][r].inode]
    BY <1>3, <1>4
  <2> QED BY <1>2, <2>1 DEF UsedSlots, Leads, InUse
<1> DEFINE Q == {r \in UsedSlots(TableOf(d)) : Inode[TableOf(d)[r].inode].type = type}
<1>6. Children(x, type) = {[path |-> Append(x.path, TableOf(d)[s].name),
                            inode |-> TableOf(d)[s].inode] : s \in Q}
  BY DEF Children
<1>7. Q = {r \in Slots : Leads(K, T, d, r, type)}
  BY <1>5
<1> HIDE DEF T, K, Q
<1>8. Children(x, type) = {[path |-> Append(x.path, T[d][s].name), inode |-> T[d][s].inode] : s \in Q}
  BY <1>2, <1>6
<1>9. \A s \in Q : Child(T, x, s) = [path |-> Append(x.path, T[d][s].name), inode |-> T[d][s].inode]
  BY DEF Child
<1>10. Children(x, type) = {Child(T, x, s) : s \in Q}
  <2> HIDE DEF d
  <2> QED BY <1>8, <1>9
<1> QED BY <1>7, <1>10 DEF T, K

LEMMA LevelIs ==
    ASSUME NEW st, Is(st), NEW S \in SUBSET Spots
    PROVE  /\ Level(S) \subseteq Spots
           /\ \A y : y \in Level(S) <=>
                \/ y = Top0
                \/ \E x \in S, s \in Slots : Leads(Kinds(st), View(st), x.inode, s, "dir")
                                             /\ y = Child(View(st), x, s)
<1> DEFINE T == View(st)
           K == Kinds(st)
<1>1. T \in Views
  BY ViewTypes DEF Is
<1>2. \A x \in S : Children(x, "dir") = {Child(T, x, s) :
                                  s \in {r \in Slots : Leads(K, T, x.inode, r, "dir")}}
  BY ChildrenAre
<1> HIDE DEF T, K
<1>3. ASSUME NEW y
      PROVE  y \in Level(S) <=>
                \/ y = Top0
                \/ \E x \in S, s \in Slots : Leads(K, T, x.inode, s, "dir") /\ y = Child(T, x, s)
  <2>1. y \in Level(S) <=> y = Top0 \/ \E x \in S : y \in Children(x, "dir")
    BY DEF Level, Top0
  <2>2. \A x \in S : y \in Children(x, "dir") <=>
           \E s \in Slots : Leads(K, T, x.inode, s, "dir") /\ y = Child(T, x, s)
    BY <1>2
  <2> QED BY <2>1, <2>2
<1>4. Level(S) \subseteq Spots
  BY <1>1, <1>3, SpotTypes DEF Leads
<1> QED BY <1>3, <1>4 DEF T, K

\* Each level has what the one before has; none has more than the tree.
LEMMA WithinIn ==
    ASSUME NEW st, Is(st)
    PROVE  \A n \in Nat : /\ Within[n] \subseteq DirsOf(Kinds(st), View(st))
                          /\ Within[n] \subseteq Within[n + 1]
                          /\ Within[n + 1] = Level(Within[n])
<1> DEFINE D == DirsOf(Kinds(st), View(st))
           Bad == {n \in Nat : ~(Within[n] \subseteq D /\ Within[n] \subseteq Within[n + 1])}
<1>0. View(st) \in Views
  BY ViewTypes DEF Is
<1>1. Closed(Kinds(st), View(st), D) /\ D \subseteq Spots
  BY <1>0, DirsClosed
<1>2. \A S \in SUBSET D : Level(S) \subseteq D
  BY <1>1, LevelIs DEF Closed
<1>3. \A S \in SUBSET D : Top0 \in Level(S)
  BY DEF Level, Top0
<1>4. \A S, Q \in SUBSET D : S \subseteq Q => Level(S) \subseteq Level(Q)
  BY DEF Level
<1>5. \A n \in Nat : Within[n + 1] = Level(Within[n])
  <2>1. ASSUME NEW n \in Nat PROVE Within[n + 1] = Level(Within[n])
    <3>1. n + 1 \in Nat /\ n + 1 # 0 /\ n + 1 - 1 = n
      OBVIOUS
    <3> QED BY <3>1, WithinIs
  <2> QED BY <2>1
<1>6. Within[0] = {Top0} /\ Top0 \in D
  BY <1>1, WithinIs DEF Start, Top0, Closed
<1> HIDE DEF D
<1>7. Bad = {}
  <2>1. SUFFICES ASSUME Bad # {} PROVE FALSE
    OBVIOUS
  <2>2. PICK m \in Bad : \A i \in Bad : m <= i
    BY <2>1, MinOf
  <2>3. m \in Nat /\ ~(Within[m] \subseteq D /\ Within[m] \subseteq Within[m + 1])
    BY <2>2
  <2>4. CASE m = 0
    <3>1. Within[0 + 1] = Level(Within[0])
      BY <1>5
    <3>2. Within[0] \in SUBSET D
      BY <1>6
    <3> QED BY <1>3, <1>6, <2>3, <2>4, <3>1, <3>2
  <2>5. CASE m # 0
    <3>1. m - 1 \in Nat /\ m - 1 \notin Bad /\ m - 1 + 1 = m
      BY <2>2, <2>3, <2>5
    <3>2. Within[m - 1] \subseteq D /\ Within[m - 1] \subseteq Within[m]
      BY <3>1
    <3>3. Within[m] = Level(Within[m - 1]) /\ Within[m + 1] = Level(Within[m])
      BY <1>5, <2>3, <3>1
    <3>4. Within[m] \subseteq D
      BY <1>2, <3>2, <3>3
    <3> QED BY <1>4, <2>3, <3>2, <3>3, <3>4
  <2> QED BY <2>4, <2>5
<1>8. ASSUME NEW n \in Nat PROVE Within[n] \subseteq D /\ Within[n] \subseteq Within[n + 1]
  BY <1>7
<1> QED BY <1>5, <1>8 DEF D

\* A level that adds nothing is the last; and there are no more levels than
\* directories.
LEMMA LevelsEnd ==
    ASSUME NEW st, Is(st), NEW m \in Nat, Level(Within[m]) = Within[m], NEW n \in Nat, m <= n
    PROVE  Within[n] = Within[m]
<1> DEFINE Bad == {k \in Nat : m <= k /\ Within[k] # Within[m]}
<1>1. SUFFICES ASSUME Bad # {} PROVE FALSE
  OBVIOUS
<1>2. PICK k \in Bad : \A i \in Bad : k <= i
  BY <1>1, MinOf
<1>3. k \in Nat /\ m <= k /\ Within[k] # Within[m]
  BY <1>2
<1>4. k - 1 \in Nat /\ m <= k - 1 /\ k - 1 + 1 = k /\ k - 1 \notin Bad
  BY <1>2, <1>3
<1>5. Within[k - 1] = Within[m]
  BY <1>4
<1>6. Within[k] = Level(Within[k - 1])
  BY <1>4, WithinIn
<1> QED BY <1>3, <1>5, <1>6

LEMMA LevelsGrow ==
    ASSUME NEW st, Is(st), NEW V \in Views, NEW R, Linked(Kinds(st), V, R),
           Shadows(Kinds(st), View(st), V, R),
           NEW N \in Nat, \A k \in 0 .. N - 1 : Level(Within[k]) # Within[k]
    PROVE  \A n \in 0 .. N : Cardinality({x.inode : x \in Within[n]}) >= n + 1
<1> DEFINE D == DirsOf(Kinds(st), View(st))
           In(S) == {x.inode : x \in S}
           Bad == {n \in 0 .. N : ~(Cardinality(In(Within[n])) >= n + 1)}
<1>1. \A S \in SUBSET D : /\ In(S) \subseteq Inodes /\ IsFiniteSet(In(S))
                          /\ Cardinality(In(S)) \in Nat
  <2>1. 0 \in Int /\ NumInodes - 1 \in Int
    BY LayoutAssumption
  <2>2. IsFiniteSet(Inodes)
    BY <2>1, FS_Interval DEF Inodes
  <2>3. View(st) \in Views
    BY ViewTypes DEF Is
  <2>4. \A S \in SUBSET D : In(S) \subseteq Inodes
    BY <2>3, DirsClosed DEF Spots
  <2> HIDE DEF In, D
  <2> QED BY <2>2, <2>4, FS_Subset, FS_CardinalityType
<1>2. \A x, y \in D : x.inode = y.inode => x = y
  <2>1. View(st) \in Views
    BY ViewTypes DEF Is
  <2>2. D = DirsOf(Kinds(st), V)
    BY <2>1, ShadowSame
  <2> QED BY <2>2, OnePlace
<1>3. \A n \in Nat : Within[n] \subseteq D /\ Within[n] \subseteq Within[n + 1]
                     /\ Within[n + 1] = Level(Within[n])
  BY WithinIn
<1> HIDE DEF D
<1>4. SUFFICES ASSUME Bad # {} PROVE FALSE
  OBVIOUS
<1>5. Bad \in SUBSET Nat
  OBVIOUS
<1>6. PICK n \in Bad : \A i \in Bad : n <= i
  BY <1>4, <1>5, MinOf
<1>7. n \in 0 .. N /\ ~(Cardinality(In(Within[n])) >= n + 1)
  BY <1>6
<1>8. CASE n = 0
  <2>1. Top0 \in Within[0]
    BY WithinIs DEF Start, Top0
  <2>2. {0} \subseteq In(Within[0])
    BY <2>1 DEF Top0
  <2>3. Within[0] \in SUBSET D
    BY <1>3
  <2>4. Cardinality({0}) = 1
    BY FS_Singleton
  <2>5. Cardinality({0}) <= Cardinality(In(Within[0]))
    BY <1>1, <2>2, <2>3, FS_Subset
  <2> QED BY <1>1, <1>7, <1>8, <2>3, <2>4, <2>5
<1>9. CASE n # 0
  <2> DEFINE m == n - 1
  <2>1. m \in 0 .. N - 1 /\ m \in 0 .. N /\ m \in Nat /\ m + 1 = n /\ m \notin Bad
    BY <1>6, <1>7, <1>9
  <2>2. Cardinality(In(Within[m])) >= n
    BY <2>1
  <2> HIDE DEF m
  <2>3. /\ Within[m] \subseteq D /\ Within[n] \subseteq D /\ Within[m] \subseteq Within[n]
        /\ Within[m] # Within[n]
    <3>1. Within[n] = Level(Within[m]) /\ Within[m] \subseteq Within[n]
      BY <1>3, <2>1
    <3>2. n \in Nat
      BY <1>7
    <3> QED BY <1>3, <2>1, <3>1, <3>2
  <2>4. PICK x \in Within[n] : x \notin Within[m]
    BY <2>3
  <2>5. x.inode \in In(Within[n]) /\ x.inode \notin In(Within[m])
    BY <1>2, <2>3, <2>4
  <2>6. In(Within[m]) \subseteq In(Within[n]) /\ In(Within[m]) # In(Within[n])
    BY <2>3, <2>5
  <2> DEFINE P == In(Within[m])
             Q == In(Within[n])
  <2>7. IsFiniteSet(Q) /\ Cardinality(P) \in Nat /\ Cardinality(Q) \in Nat
    BY <1>1, <2>3
  <2>8. P \subseteq Q /\ P # Q
    BY <2>6
  <2> HIDE DEF P, Q
  <2>9. Cardinality(P) <= Cardinality(Q) /\ Cardinality(P) # Cardinality(Q)
    BY <2>7, <2>8, FS_Subset
  <2>10. Cardinality(P) >= n /\ ~(Cardinality(Q) >= n + 1) /\ n \in Nat
    BY <1>7, <2>2 DEF P, Q
  <2> QED BY <2>7, <2>9, <2>10
<1> QED BY <1>8, <1>9

LEMMA TreeIs ==
    ASSUME NEW st, Is(st), NEW V \in Views, NEW R, Linked(Kinds(st), V, R),
           Shadows(Kinds(st), View(st), V, R)
    PROVE  /\ TreeDirs = DirsOf(Kinds(st), V)
           /\ TreeFiles = FilesOf(Kinds(st), V)
<1> DEFINE K == Kinds(st)
           T == View(st)
           D == DirsOf(K, T)
           N == Cardinality(Dirs)
<1>1. T \in Views
  BY ViewTypes DEF Is
<1>2. D = DirsOf(K, V) /\ FilesOf(K, T) = FilesOf(K, V) /\ D \subseteq Spots
  BY <1>1, ShadowSame, DirsClosed
<1>3. IsFiniteSet(Dirs) /\ N \in Nat
  <2>1. Dirs \in SUBSET Inodes
    BY DEF Dirs
  <2>2. 0 \in Int /\ NumInodes - 1 \in Int
    BY LayoutAssumption
  <2>3. IsFiniteSet(Inodes)
    BY <2>2, FS_Interval DEF Inodes
  <2> QED BY <2>1, <2>3, FS_Subset, FS_CardinalityType
<1>4. \A x \in D : x.inode \in Dirs
  <2>1. \A x \in D : x.inode \in Inodes /\ K[x.inode] = "dir"
    BY <1>2, DirsIn
  <2>2. \A i \in Inodes : Inode[i].type = K[i]
    BY ViewTypes DEF Is
  <2> HIDE DEF K, D
  <2> QED BY <2>1, <2>2 DEF Dirs
<1>5. \A n \in Nat : /\ Within[n] \subseteq D
                     /\ Within[n + 1] = Level(Within[n])
  BY WithinIn
<1>6. \E m \in 0 .. N : Level(Within[m]) = Within[m]
  <2>1. SUFFICES ASSUME \A k \in 0 .. N : Level(Within[k]) # Within[k] PROVE FALSE
    OBVIOUS
  <2> DEFINE P == {x.inode : x \in Within[N]}
  <2>2. \A k \in 0 .. N - 1 : Level(Within[k]) # Within[k]
    BY <1>3, <2>1
  <2>3. P \subseteq Dirs
    BY <1>3, <1>4, <1>5
  <2>4. Cardinality(P) >= N + 1
    <3>1. N \in 0 .. N
      BY <1>3
    <3> HIDE DEF K, T, N, D
    <3> QED BY <1>3, <2>2, <3>1, LevelsGrow DEF K, T
  <2> HIDE DEF P
  <2>5. Cardinality(P) <= N /\ Cardinality(P) \in Nat
    BY <1>3, <2>3, FS_Subset, FS_CardinalityType
  <2> QED BY <1>3, <2>4, <2>5
<1>7. PICK m \in 0 .. N : Level(Within[m]) = Within[m]
  BY <1>6
<1>8. Within[N] = Within[m] /\ m \in Nat /\ m <= N
  <2>1. m \in Nat /\ m <= N
    BY <1>3, <1>7
  <2> HIDE DEF N
  <2> QED BY <1>3, <1>7, <2>1, LevelsEnd
<1>9. TreeDirs = Within[N] /\ TreeDirs \subseteq D /\ Level(TreeDirs) = TreeDirs
  BY <1>3, <1>5, <1>7, <1>8 DEF TreeDirs
<1> HIDE DEF N
<1>10. TreeDirs \in SUBSET Spots
  BY <1>2, <1>9
<1>11. Closed(K, T, TreeDirs)
  <2>1. \A y : y \in TreeDirs <=>
                \/ y = Top0
                \/ \E x \in TreeDirs, s \in Slots : Leads(K, T, x.inode, s, "dir") /\ y = Child(T, x, s)
    BY <1>9, <1>10, LevelIs
  <2> QED BY <2>1 DEF Closed
<1>12. D \subseteq TreeDirs
  BY <1>1, <1>11, DirsLeast
<1>13. TreeDirs = D
  BY <1>9, <1>12
<1>14. ASSUME NEW x \in D
       PROVE  Children(x, "file") = {Child(T, x, s) : s \in {r \in Slots : Leads(K, T, x.inode, r, "file")}}
  BY <1>2, ChildrenAre
<1>15. \A x \in D, s \in Slots : Leads(K, T, x.inode, s, "file") => Child(T, x, s) \in Spots
  BY <1>1, <1>2, SpotTypes DEF Leads
<1> HIDE DEF K, T
<1>16. TreeFiles = FilesOf(K, T)
  <2>1. \A y : y \in TreeFiles <=> \E x \in D, s \in Slots : Leads(K, T, x.inode, s, "file") /\ y = Child(T, x, s)
    BY <1>13, <1>14 DEF TreeFiles
  <2>2. \A y : y \in FilesOf(K, T) <=> \E x \in D, s \in Slots : Leads(K, T, x.inode, s, "file") /\ y = Child(T, x, s)
    BY <1>15 DEF FilesOf
  <2> HIDE DEF D
  <2>3. TreeFiles \subseteq FilesOf(K, T)
    BY <2>1, <2>2
  <2>4. FilesOf(K, T) \subseteq TreeFiles
    BY <2>1, <2>2
  <2> QED BY <2>3, <2>4
<1> QED BY <1>2, <1>13, <1>16 DEF K, T

-----------------------------------------------------------------------------
(* What a write, a flush, or a change of RAM does to the files *)

\* Every file that is not in X, and that RAM and disk agree on, is in s what it
\* is in st, on the disk too.
Spares(st, s, X) ==
    \A j \in Inodes \ X : st.inodes[j].type = "file" /\ st.dinodes[j] = st.inodes[j] =>
        /\ s.inodes[j] = st.inodes[j]
        /\ s.dinodes[j] = st.inodes[j]
        /\ s.blocks[st.inodes[j].block].text = st.blocks[st.inodes[j].block].text

LEMMA SparesSelf ==
    ASSUME NEW st, NEW X
    PROVE  Spares(st, st, X)
BY DEF Spares

LEMMA SparesMore ==
    ASSUME NEW st, NEW s, NEW X, NEW Y, X \subseteq Y, Spares(st, s, X)
    PROVE  Spares(st, s, Y)
BY DEF Spares

LEMMA SparesOn ==
    ASSUME NEW st, NEW u, NEW s, NEW X, Spares(st, u, X), Spares(u, s, X)
    PROVE  Spares(st, s, X)
<1> SUFFICES ASSUME NEW j \in Inodes \ X, st.inodes[j].type = "file", st.dinodes[j] = st.inodes[j]
             PROVE  /\ s.inodes[j] = st.inodes[j]
                    /\ s.dinodes[j] = st.inodes[j]
                    /\ s.blocks[st.inodes[j].block].text = st.blocks[st.inodes[j].block].text
  BY DEF Spares
<1>1. /\ u.inodes[j] = st.inodes[j] /\ u.dinodes[j] = st.inodes[j]
      /\ u.blocks[st.inodes[j].block].text = st.blocks[st.inodes[j].block].text
  BY DEF Spares
<1> QED BY <1>1 DEF Spares

LEMMA SparesWrite ==
    ASSUME NEW st \in Tidy, NEW b \in Blocks, NEW blk \in BlockRecords, NEW X,
           \A e \in Inodes : st.inodes[e].type = "file" /\ st.inodes[e].block = b => e \in X
    PROVE  Spares(st, disk_write_lba(st, b, blk), X)
<1> DEFINE s == disk_write_lba(st, b, blk)
<1>1. st \in FsStates
  BY DEF Tidy
<1>2. /\ s.inodes = st.inodes /\ s.dinodes = st.dinodes
      /\ \A c \in Blocks \ {b} : s.blocks[c] = st.blocks[c]
  BY <1>1 DEF disk_write_lba, FsStates
<1>3. \A j \in Inodes : st.inodes[j].block \in Blocks
  BY <1>1, TableTypes
<1> HIDE DEF s
<1>4. Spares(st, s, X)
  BY <1>2, <1>3 DEF Spares
<1> QED BY <1>4 DEF s

LEMMA SparesDir ==
    ASSUME NEW st \in Tidy, NEW d \in Inodes, st.inodes[d].type = "dir", NEW t \in Tables, NEW X
    PROVE  Spares(st, write_dir_block(st, d, t), X)
<1> DEFINE b == st.inodes[d].block
           blk == IF st.blocks[b].table = t THEN st.blocks[b] ELSE DirBlock(t)
<1>1. st \in FsStates /\ b \in Blocks /\ b # 0 /\ \A j \in Inodes : j # d => st.inodes[j].block # b
  BY OwnBlock
<1>2. blk \in BlockRecords
  BY <1>1, BlockTypes DEF FsStates
<1>3. \A e \in Inodes : st.inodes[e].type = "file" /\ st.inodes[e].block = b => e \in X
  BY <1>1
<1> HIDE DEF b, blk
<1>4. Spares(st, disk_write_lba(st, b, blk), X)
  BY <1>1, <1>2, <1>3, SparesWrite
<1> QED BY <1>4 DEF write_dir_block, b, blk

LEMMA SparesFlush ==
    ASSUME NEW st \in Tidy, st.sb, NEW X
    PROVE  /\ Spares(st, Flush(st), X)
           /\ \A s \in FlushCuts(st) : Spares(st, s, X)
<1>1. st \in FsStates
  BY DEF Tidy
<1> DEFINE Mixed(s) == /\ s.inodes = st.inodes /\ s.blocks = st.blocks
                       /\ \A j \in Inodes : s.dinodes[j] \in {st.inodes[j], st.dinodes[j]}
<1>2. \A s : Mixed(s) => Spares(st, s, X)
  BY DEF Spares
<1>3. /\ flush_bitmap(st) = [st EXCEPT !.dbitmap = st.bitmap] /\ flush_bitmap(st).sb
      /\ Flush(st) = [flush_bitmap(st) EXCEPT !.dinodes = flush_bitmap(st).inodes]
      /\ flush_bitmap(st).inodes = st.inodes
  BY <1>1 DEF flush_bitmap, flush_inodes, Flush, FsStates
<1>4. Mixed(flush_bitmap(st)) /\ Mixed(Flush(st))
  BY <1>1, <1>3 DEF FsStates
<1>5. ASSUME NEW n PROVE Mixed([st EXCEPT !.dbitmap = SpliceBitmap(n, st.bitmap, st.dbitmap)])
  BY <1>1 DEF FsStates
<1>6. ASSUME NEW n PROVE Mixed([flush_bitmap(st) EXCEPT !.dinodes = SpliceInodes(n, st.inodes, st.dinodes)])
  <2> DEFINE d == SpliceInodes(n, st.inodes, st.dinodes)
  <2>1. \A j \in Inodes : d[j] \in {st.inodes[j], st.dinodes[j]}
    BY DEF SpliceInodes
  <2> HIDE DEF d
  <2>2. LET s == [flush_bitmap(st) EXCEPT !.dinodes = d]
        IN  s.inodes = st.inodes /\ s.blocks = st.blocks /\ s.dinodes = d
    BY <1>1, <1>3 DEF FsStates
  <2> QED BY <2>1, <2>2 DEF d
<1>7. ASSUME NEW s \in FlushCuts(st) PROVE Mixed(s)
  <2>1. \/ s = Flush(st) \/ s = flush_bitmap(st)
        \/ \E n : s = [st EXCEPT !.dbitmap = SpliceBitmap(n, st.bitmap, st.dbitmap)]
        \/ \E n : s = [flush_bitmap(st) EXCEPT !.dinodes = SpliceInodes(n, st.inodes, st.dinodes)]
    BY DEF FlushCuts
  <2> HIDE DEF Mixed
  <2> QED BY <1>4, <1>5, <1>6, <2>1
<1> HIDE DEF Mixed
<1> QED BY <1>2, <1>4, <1>7

LEMMA SparesSize ==
    ASSUME NEW st \in Tidy, NEW i \in Inodes, NEW size \in Nat
    PROVE  Spares(st, [st EXCEPT !.inodes[i].size = size], {i})
<1> DEFINE s == [st EXCEPT !.inodes[i].size = size]
<1>1. st \in FsStates
  BY DEF Tidy
<1>2. s.dinodes = st.dinodes /\ s.blocks = st.blocks /\ \A j \in Inodes \ {i} : s.inodes[j] = st.inodes[j]
  BY <1>1 DEF FsStates
<1> HIDE DEF s
<1>3. Spares(st, s, {i})
  BY <1>2 DEF Spares
<1> QED BY <1>3 DEF s

LEMMA SparesClaim ==
    ASSUME NEW st \in Tidy, NEW type, NEW size,
           NEW i, i = alloc_inode_raw(st), i # 0, NEW b, NEW X
    PROVE  Spares(st, Claim(st, i, b, type, size), X)
<1> DEFINE r == [type |-> type, size |-> size, block |-> b]
           s == Claim(st, i, b, type, size)
<1>1. st \in FsStates
  BY DEF Tidy
<1>2. i \in Inodes /\ st.inodes[i].type = "none"
  BY <1>1, Lookups, FreeInode, BlockTypes
<1>3. s = [st EXCEPT !.bitmap = @ \union {b}, !.inodes[i] = r]
  BY DEF Claim, mark_block_used
<1> HIDE DEF r
<1>4. s.dinodes = st.dinodes /\ s.blocks = st.blocks /\ \A j \in Inodes \ {i} : s.inodes[j] = st.inodes[j]
  BY <1>1, <1>2, <1>3 DEF FsStates
<1> HIDE DEF s
<1>5. Spares(st, s, X)
  BY <1>2, <1>4 DEF Spares
<1> QED BY <1>5 DEF s

LEMMA SparesFree ==
    ASSUME NEW st \in Tidy, NEW i \in Inodes, st.inodes[i].type # "none"
    PROVE  /\ Spares(st, Released(st, i).final, {i})
           /\ \A s \in Released(st, i).cuts : Spares(st, s, {i})
<1> DEFINE b == st.inodes[i].block
           s1 == mark_block_free(st, b)
           s2 == disk_write_lba(s1, b, ZeroBlock)
           s3 == [s2 EXCEPT !.inodes[i] = NoInode]
           Differs(s) == /\ s.dinodes = st.dinodes
                         /\ \A j \in Inodes \ {i} : s.inodes[j] = st.inodes[j]
                         /\ \A c \in Blocks \ {b} : s.blocks[c] = st.blocks[c]
<1>1. /\ st \in FsStates /\ b \in Blocks /\ b # 0
      /\ \A j \in Inodes : j # i => st.inodes[j].block # b
      /\ \A j \in Inodes : st.inodes[j].block \in Blocks
  BY OwnBlock, TableTypes
<1>2. \A s : Differs(s) => Spares(st, s, {i})
  BY <1>1 DEF Spares
<1>3. Released(st, i).final = s3 /\ Released(st, i).cuts = {st, s1, s2}
  BY <1>1 DEF Released
<1>4. s1 \in FsStates /\ s1.inodes = st.inodes /\ s1.dinodes = st.dinodes /\ s1.blocks = st.blocks
  BY <1>1 DEF mark_block_free, FsStates
<1> HIDE DEF b
<1>5. Differs(st) /\ Differs(s1)
  BY <1>4
<1> HIDE DEF s1
<1>6. /\ s2.dinodes = st.dinodes /\ s2.inodes = st.inodes /\ s2 \in FsStates
      /\ \A c \in Blocks \ {b} : s2.blocks[c] = st.blocks[c]
  <2>1. ZeroBlock \in BlockRecords
    BY BlockTypes DEF ZeroBlock
  <2> QED BY <1>1, <1>4, <2>1 DEF disk_write_lba, FsStates
<1> HIDE DEF s2
<1>7. Differs(s2) /\ Differs(s3)
  BY <1>1, <1>6 DEF FsStates
<1> HIDE DEF Differs, s3
<1> QED BY <1>2, <1>3, <1>5, <1>7

-----------------------------------------------------------------------------
(* What one change of entries does to the whole tree of paths.             *)

Reached(K, T) == {x.inode : x \in DirsOf(K, T)}

LEMMA ReachedLeast ==
    ASSUME NEW K, NEW T \in Views, NEW S, 0 \in S,
           \A d \in S, s \in Slots : Leads(K, T, d, s, "dir") => T[d][s].inode \in S
    PROVE  Reached(K, T) \subseteq S
<1> DEFINE Q == {x \in Spots : x.inode \in S}
<1>1. Closed(K, T, Q)
  <2>1. Top0 \in Q
    BY SpotTypes DEF Top0
  <2>2. ASSUME NEW x \in Q, NEW s \in Slots, Leads(K, T, x.inode, s, "dir")
        PROVE  Child(T, x, s) \in Q
    BY <2>2, SpotTypes DEF Leads
  <2> QED BY <2>1, <2>2 DEF Closed
<1> HIDE DEF Q
<1>2. DirsOf(K, T) \subseteq Q
  BY <1>1, DirsLeast
<1> QED BY <1>2 DEF Q, Reached

LEMMA ReachedClosed ==
    ASSUME NEW K, NEW T \in Views
    PROVE  /\ 0 \in Reached(K, T) /\ Reached(K, T) \subseteq Inodes
           /\ \A d \in Reached(K, T), s \in Slots :
                Leads(K, T, d, s, "dir") => T[d][s].inode \in Reached(K, T)
<1>1. 0 \in Reached(K, T)
  BY DirsClosed DEF Closed, Reached, Top0
<1>2. ASSUME NEW d \in Reached(K, T), NEW s \in Slots, Leads(K, T, d, s, "dir")
      PROVE  T[d][s].inode \in Reached(K, T)
  <2>1. PICK x \in DirsOf(K, T) : x.inode = d
    BY DEF Reached
  <2>2. Child(T, x, s) \in DirsOf(K, T)
    BY <1>2, <2>1, DirsClosed DEF Closed
  <2> QED BY <2>1, <2>2 DEF Reached, Child
<1>3. Reached(K, T) \subseteq Inodes
  BY DirsClosed DEF Reached, Spots
<1> QED BY <1>1, <1>2, <1>3

\* The directories that can be reached are the least that are linked.
LEMMA ReachedLinked ==
    ASSUME NEW K, NEW T \in Views, NEW R, Linked(K, T, R)
    PROVE  Linked(K, T, Reached(K, T)) /\ Reached(K, T) \subseteq R
<1> DEFINE Q == Reached(K, T)
<1>1. Q \subseteq R
  BY ReachedLeast DEF Linked, Refers, Leads
<1>2. 0 \in Q /\ Q \subseteq Inodes /\ \A d \in Q, s \in Slots : Leads(K, T, d, s, "dir") => T[d][s].inode \in Q
  BY ReachedClosed
<1> HIDE DEF Q
<1>3. Refers(K, T, Q)
  BY <1>1, <1>2 DEF Linked, Refers, Leads
<1>4. Unshared(T, Q) /\ Telling(K, T, Q)
  BY <1>1 DEF Linked, Unshared, Telling
<1> QED BY <1>1, <1>2, <1>3, <1>4 DEF Linked, Q

-----------------------------------------------------------------------------
(* Five changes of the tables.  R is what could be reached before.         *)

Stays(K, T, K2, T2, R) ==
    /\ \A d \in R : T2[d] = T[d]
    /\ \A i \in Inodes : K[i] # "none" => K2[i] = K[i]

LEMMA StaysTree ==
    ASSUME NEW K, NEW T \in Views, NEW R, Linked(K, T, R),
           NEW K2, NEW T2 \in Views, Stays(K, T, K2, T2, R)
    PROVE  DirsOf(K2, T2) = DirsOf(K, T) /\ FilesOf(K2, T2) = FilesOf(K, T)
<1>1. \A x \in DirsOf(K, T) : x.inode \in R /\ x.inode \in Inodes
  BY DirsIn
<1>2. ASSUME NEW x \in DirsOf(K, T), NEW s \in Slots, NEW type \in {"file", "dir"}
      PROVE  /\ Leads(K2, T2, x.inode, s, type) <=> Leads(K, T, x.inode, s, type)
             /\ Child(T2, x, s) = Child(T, x, s)
  <2> DEFINE d == x.inode
  <2>1. T2[d] = T[d]
    BY <1>1 DEF Stays
  <2>2. InUse(T, d, s) => T[d][s].inode \in Inodes /\ K[T[d][s].inode] # "none"
    BY <1>1 DEF Linked, Refers, Views, Tables, Entries
  <2>3. InUse(T, d, s) => K2[T[d][s].inode] = K[T[d][s].inode]
    BY <2>2 DEF Stays
  <2> QED BY <2>1, <2>3 DEF Leads, InUse, Child
<1>3. Closed(K2, T2, DirsOf(K, T))
  BY <1>2, DirsClosed DEF Closed
<1>4. DirsOf(K2, T2) \subseteq DirsOf(K, T)
  BY <1>3, DirsLeast
<1>5. Closed(K, T, DirsOf(K2, T2))
  <2>1. Closed(K2, T2, DirsOf(K2, T2))
    BY DirsClosed
  <2>2. ASSUME NEW x \in DirsOf(K2, T2), NEW s \in Slots, Leads(K, T, x.inode, s, "dir")
        PROVE  Child(T, x, s) \in DirsOf(K2, T2)
    <3>1. Leads(K2, T2, x.inode, s, "dir") /\ Child(T2, x, s) = Child(T, x, s)
      BY <1>2, <1>4, <2>2
    <3> QED BY <2>1, <3>1 DEF Closed
  <2> QED BY <2>1, <2>2 DEF Closed
<1>6. DirsOf(K2, T2) = DirsOf(K, T)
  BY <1>4, <1>5, DirsLeast
<1>7. ASSUME NEW x \in Spots PROVE x \in FilesOf(K2, T2) <=> x \in FilesOf(K, T)
  BY <1>2, <1>6 DEF FilesOf
<1>8. FilesOf(K2, T2) \subseteq Spots /\ FilesOf(K, T) \subseteq Spots
  BY DEF FilesOf
<1> QED BY <1>6, <1>7, <1>8


\* One entry is new, for an inode that was free.
Adds(K, T, K2, T2, R, d, s, name, i, type) ==
    /\ d \in R /\ s \in Slots /\ ~InUse(T, d, s)
    /\ name \in Names /\ i \in Inodes \ {0} /\ type \in {"file", "dir"}
    /\ \A r \in Slots : InUse(T, d, r) /\ T[d][r].name = name => K[T[d][r].inode] # type
    /\ K[i] = "none" /\ K2[i] = type /\ \A j \in Inodes \ {i} : K2[j] = K[j]
    /\ T2[d][s] = [name |-> name, inode |-> i]
    /\ \A e \in R, r \in Slots : ~(e = d /\ r = s) => T2[e][r] = T[e][r]
    /\ type = "dir" => \A r \in Slots : ~InUse(T2, i, r)

Place(x, name, i) == [path |-> Append(x.path, name), inode |-> i]

\* What leads where after Adds.
AddsLeading(K, T, K2, T2, d, s, name, i, type) ==
    \A y \in DirsOf(K, T), r \in Slots, kind \in {"file", "dir"} :
        /\ y.inode = d /\ r = s =>
             /\ ~Leads(K, T, y.inode, r, kind)
             /\ Leads(K2, T2, y.inode, r, kind) <=> kind = type
             /\ Child(T2, y, r) = Place(y, name, i)
        /\ ~(y.inode = d /\ r = s) =>
             /\ Leads(K2, T2, y.inode, r, kind) <=> Leads(K, T, y.inode, r, kind)
             /\ Child(T2, y, r) = Child(T, y, r)

LEMMA AddsLeads ==
    ASSUME NEW K, NEW T \in Views, NEW R, Linked(K, T, R),
           NEW K2, NEW T2 \in Views, NEW d, NEW s, NEW name, NEW i, NEW type,
           Adds(K, T, K2, T2, R, d, s, name, i, type)
    PROVE  AddsLeading(K, T, K2, T2, d, s, name, i, type)
<1> SUFFICES ASSUME NEW y \in DirsOf(K, T), NEW r \in Slots, NEW kind \in {"file", "dir"}
             PROVE  /\ y.inode = d /\ r = s =>
                         /\ ~Leads(K, T, y.inode, r, kind)
                         /\ Leads(K2, T2, y.inode, r, kind) <=> kind = type
                         /\ Child(T2, y, r) = Place(y, name, i)
                    /\ ~(y.inode = d /\ r = s) =>
                         /\ Leads(K2, T2, y.inode, r, kind) <=> Leads(K, T, y.inode, r, kind)
                         /\ Child(T2, y, r) = Child(T, y, r)
  BY DEF AddsLeading
<1>1. y.inode \in R /\ y.inode \in Inodes
  BY DirsIn
<1>2. ASSUME y.inode = d, r = s
      PROVE  /\ ~Leads(K, T, y.inode, r, kind)
             /\ Leads(K2, T2, y.inode, r, kind) <=> kind = type
             /\ Child(T2, y, r) = Place(y, name, i)
  <2>1. T2[y.inode][r] = [name |-> name, inode |-> i] /\ ~InUse(T, y.inode, r) /\ K2[i] = type
    BY <1>2 DEF Adds
  <2>2. name # NoName
    BY LayoutAssumption DEF Adds
  <2> QED BY <2>1, <2>2 DEF Leads, InUse, Child, Place
<1>3. ASSUME ~(y.inode = d /\ r = s)
      PROVE  /\ Leads(K2, T2, y.inode, r, kind) <=> Leads(K, T, y.inode, r, kind)
             /\ Child(T2, y, r) = Child(T, y, r)
  <2> DEFINE e == y.inode
             j == T[e][r].inode
  <2>1. T2[e][r] = T[e][r]
    BY <1>1, <1>3 DEF Adds
  <2>2. InUse(T, e, r) => j \in Inodes /\ K[j] # "none"
    BY <1>1 DEF Linked, Refers, Views, Tables, Entries
  <2>3. InUse(T, e, r) => K2[j] = K[j]
    BY <2>2 DEF Adds
  <2> QED BY <2>1, <2>3 DEF Leads, InUse, Child
<1> QED BY <1>2, <1>3

LEMMA AddsTree ==
    ASSUME NEW K, NEW T \in Views, NEW R, Linked(K, T, R),
           NEW K2, NEW T2 \in Views, NEW d, NEW s, NEW name, NEW i, NEW type,
           Adds(K, T, K2, T2, R, d, s, name, i, type),
           NEW x \in DirsOf(K, T), x.inode = d, NEW new, new = Place(x, name, i)
    PROVE  /\ DirsOf(K2, T2) = DirsOf(K, T) \union (IF type = "dir" THEN {new} ELSE {})
           /\ FilesOf(K2, T2) = FilesOf(K, T) \union (IF type = "file" THEN {new} ELSE {})
<1> DEFINE D == DirsOf(K, T)
           E == DirsOf(K2, T2)
           D2 == D \union (IF type = "dir" THEN {new} ELSE {})
<1>1. Closed(K, T, D) /\ Closed(K2, T2, E)
  BY DirsClosed
<1>2. \A y \in D : y.inode = d => y = x
  BY OnePlace
<1>3. \A y \in D, r \in Slots, kind \in {"file", "dir"} :
        /\ y.inode = d /\ r = s =>
             /\ ~Leads(K, T, y.inode, r, kind)
             /\ Leads(K2, T2, y.inode, r, kind) <=> kind = type
             /\ Child(T2, y, r) = Place(y, name, i)
        /\ ~(y.inode = d /\ r = s) =>
             /\ Leads(K2, T2, y.inode, r, kind) <=> Leads(K, T, y.inode, r, kind)
             /\ Child(T2, y, r) = Child(T, y, r)
  <2>1. AddsLeading(K, T, K2, T2, d, s, name, i, type)
    BY AddsLeads
  <2> QED BY <2>1 DEF AddsLeading
<1>4. new.inode = i /\ s \in Slots /\ type \in {"file", "dir"} /\ i \in Inodes
  BY DEF Place, Adds
<1>5. type = "dir" => \A r \in Slots : ~InUse(T2, i, r)
  BY DEF Adds
<1>6. Closed(K2, T2, D2)
  <2>1. ASSUME NEW y \in D2, NEW r \in Slots, Leads(K2, T2, y.inode, r, "dir")
        PROVE  Child(T2, y, r) \in D2
    <3>1. CASE y \in D /\ y.inode = d /\ r = s
      BY <1>2, <1>3, <2>1, <3>1
    <3>2. CASE y \in D /\ ~(y.inode = d /\ r = s)
      BY <1>1, <1>3, <2>1, <3>2 DEF Closed
    <3>3. CASE y \notin D
      BY <1>4, <1>5, <2>1, <3>3 DEF Leads
    <3> QED BY <3>1, <3>2, <3>3
  <2> QED BY <1>1, <2>1 DEF Closed
<1>7. Closed(K, T, E \intersect D)
  <2>1. ASSUME NEW y \in E \intersect D, NEW r \in Slots, Leads(K, T, y.inode, r, "dir")
        PROVE  Child(T, y, r) \in E \intersect D
    <3>1. ~(y.inode = d /\ r = s)
      BY <1>3, <2>1
    <3>2. Leads(K2, T2, y.inode, r, "dir") /\ Child(T2, y, r) = Child(T, y, r)
      BY <1>3, <2>1, <3>1
    <3> QED BY <1>1, <2>1, <3>2 DEF Closed
  <2> QED BY <1>1, <2>1 DEF Closed
<1> HIDE DEF D, E
<1>8. E \subseteq D2
  <2> HIDE DEF D2
  <2> QED BY <1>6, DirsLeast DEF E
<1>9. D \subseteq E
  <2> DEFINE Q == E \intersect D
  <2> HIDE DEF Q
  <2>1. D \subseteq Q
    BY <1>7, DirsLeast DEF D, Q
  <2> QED BY <2>1 DEF Q
<1>10. Leads(K2, T2, d, s, type) /\ Child(T2, x, s) = new
  BY <1>3, <1>4 DEF D
<1>11. x \in D
  BY DEF D
<1>12. type = "dir" => new \in E
  BY <1>1, <1>4, <1>9, <1>10, <1>11 DEF Closed
<1>13. E = D2
  BY <1>8, <1>9, <1>12
<1>14. new \in Spots
  <2>1. x \in Spots /\ InUse(T2, d, s)
    BY <1>10, DirsClosed DEF Leads
  <2> QED BY <1>4, <1>10, <2>1, SpotTypes
<1>15. ASSUME NEW z \in Spots
       PROVE  z \in FilesOf(K2, T2) <=> z \in FilesOf(K, T) \/ (type = "file" /\ z = new)
  <2>1. ASSUME z \in FilesOf(K2, T2) PROVE z \in FilesOf(K, T) \/ (type = "file" /\ z = new)
    <3>1. PICK y \in E, r \in Slots : Leads(K2, T2, y.inode, r, "file") /\ z = Child(T2, y, r)
      BY <2>1 DEF FilesOf, E
    <3>2. CASE y \in D /\ y.inode = d /\ r = s
      BY <1>2, <1>3, <3>1, <3>2
    <3>3. CASE y \in D /\ ~(y.inode = d /\ r = s)
      BY <1>3, <3>1, <3>3 DEF FilesOf, D
    <3>4. CASE y \notin D
      BY <1>4, <1>5, <1>13, <3>1, <3>4 DEF Leads
    <3> QED BY <3>2, <3>3, <3>4
  <2>2. ASSUME z \in FilesOf(K, T) PROVE z \in FilesOf(K2, T2)
    <3>1. PICK y \in D, r \in Slots : Leads(K, T, y.inode, r, "file") /\ z = Child(T, y, r)
      BY <2>2 DEF FilesOf, D
    <3>2. Leads(K2, T2, y.inode, r, "file") /\ z = Child(T2, y, r) /\ y \in E
      BY <1>3, <1>9, <3>1
    <3> QED BY <3>2 DEF FilesOf, E
  <2>3. ASSUME type = "file" PROVE new \in FilesOf(K2, T2)
    BY <1>4, <1>9, <1>10, <1>11, <1>14, <2>3 DEF FilesOf, E
  <2> QED BY <2>1, <2>2, <2>3
<1>16. FilesOf(K2, T2) \subseteq Spots /\ FilesOf(K, T) \subseteq Spots
  BY DEF FilesOf
<1>17. FilesOf(K2, T2) = FilesOf(K, T) \union (IF type = "file" THEN {new} ELSE {})
  BY <1>14, <1>15, <1>16
<1> QED BY <1>13, <1>17 DEF D, E


\* One entry is gone, and what it referred to is free; a directory held nothing.
Drops(K, T, K2, T2, R, d, s, i) ==
    /\ d \in R /\ s \in Slots /\ InUse(T, d, s) /\ i = T[d][s].inode
    /\ K2[i] = "none" /\ \A j \in Inodes \ {i} : K2[j] = K[j]
    /\ K[i] = "dir" => \A r \in Slots : ~InUse(T, i, r)
    /\ \A e \in R \ {i}, r \in Slots :
         IF e = d /\ r = s THEN T2[e][r].name = NoName ELSE T2[e][r] = T[e][r]

DropsLeading(K, T, K2, T2, d, s, i) ==
    \A y \in DirsOf(K, T), r \in Slots, kind \in {"file", "dir"} :
        /\ Leads(K, T, y.inode, r, kind) => y.inode # i
        /\ y.inode # i /\ y.inode = d /\ r = s =>
             /\ ~Leads(K2, T2, y.inode, r, kind)
             /\ Child(T, y, r).inode = i
        /\ y.inode # i /\ ~(y.inode = d /\ r = s) =>
             /\ Leads(K2, T2, y.inode, r, kind) <=> Leads(K, T, y.inode, r, kind)
             /\ Child(T2, y, r) = Child(T, y, r)
             /\ Leads(K, T, y.inode, r, kind) => Child(T, y, r).inode # i

LEMMA DropsLeads ==
    ASSUME NEW K, NEW T \in Views, NEW R, Linked(K, T, R),
           NEW K2, NEW T2 \in Views, NEW d, NEW s, NEW i,
           Drops(K, T, K2, T2, R, d, s, i)
    PROVE  DropsLeading(K, T, K2, T2, d, s, i)
<1> SUFFICES ASSUME NEW y \in DirsOf(K, T), NEW r \in Slots, NEW kind \in {"file", "dir"}
             PROVE  /\ Leads(K, T, y.inode, r, kind) => y.inode # i
                    /\ y.inode # i /\ y.inode = d /\ r = s =>
                         /\ ~Leads(K2, T2, y.inode, r, kind)
                         /\ Child(T, y, r).inode = i
                    /\ y.inode # i /\ ~(y.inode = d /\ r = s) =>
                         /\ Leads(K2, T2, y.inode, r, kind) <=> Leads(K, T, y.inode, r, kind)
                         /\ Child(T2, y, r) = Child(T, y, r)
                         /\ Leads(K, T, y.inode, r, kind) => Child(T, y, r).inode # i
  BY DEF DropsLeading
<1>1. y.inode \in R /\ y.inode \in Inodes /\ K[y.inode] = "dir"
  BY DirsIn
<1>2. ASSUME Leads(K, T, y.inode, r, kind) PROVE y.inode # i
  BY <1>1, <1>2 DEF Drops, Leads
<1>3. ASSUME y.inode # i, y.inode = d, r = s
      PROVE  ~Leads(K2, T2, y.inode, r, kind) /\ Child(T, y, r).inode = i
  BY <1>1, <1>3 DEF Drops, Leads, InUse, Child
<1>4. ASSUME y.inode # i, ~(y.inode = d /\ r = s)
      PROVE  /\ Leads(K2, T2, y.inode, r, kind) <=> Leads(K, T, y.inode, r, kind)
             /\ Child(T2, y, r) = Child(T, y, r)
             /\ Leads(K, T, y.inode, r, kind) => Child(T, y, r).inode # i
  <2> DEFINE e == y.inode
             j == T[e][r].inode
  <2>1. T2[e][r] = T[e][r]
    BY <1>1, <1>4 DEF Drops
  <2>4. j \in Inodes
    BY <1>1 DEF Views, Tables, Entries
  <2>5. InUse(T, e, r) => j # i
    BY <1>1, <1>4 DEF Linked, Unshared, Drops
  <2>2. InUse(T, e, r) => j \in Inodes /\ j # i
    BY <2>4, <2>5
  <2>3. InUse(T, e, r) => K2[j] = K[j]
    BY <2>2 DEF Drops
  <2> QED BY <2>1, <2>2, <2>3 DEF Leads, InUse, Child
<1> QED BY <1>2, <1>3, <1>4

LEMMA DropsTree ==
    ASSUME NEW K, NEW T \in Views, NEW R, Linked(K, T, R),
           NEW K2, NEW T2 \in Views, NEW d, NEW s, NEW i,
           Drops(K, T, K2, T2, R, d, s, i)
    PROVE  /\ DirsOf(K2, T2) = {y \in DirsOf(K, T) : y.inode # i}
           /\ FilesOf(K2, T2) = {y \in FilesOf(K, T) : y.inode # i}
<1> DEFINE D == DirsOf(K, T)
           E == DirsOf(K2, T2)
           D2 == {y \in D : y.inode # i}
           S == {y \in D : y.inode = i \/ y \in E}
<1>1. Closed(K, T, D) /\ Closed(K2, T2, E)
  BY DirsClosed
<1>2. i # 0
  BY DEF Drops, Linked, Refers
<1>3. \A y \in D, r \in Slots, kind \in {"file", "dir"} :
        /\ Leads(K, T, y.inode, r, kind) => y.inode # i
        /\ y.inode # i /\ y.inode = d /\ r = s =>
             /\ ~Leads(K2, T2, y.inode, r, kind)
             /\ Child(T, y, r).inode = i
        /\ y.inode # i /\ ~(y.inode = d /\ r = s) =>
             /\ Leads(K2, T2, y.inode, r, kind) <=> Leads(K, T, y.inode, r, kind)
             /\ Child(T2, y, r) = Child(T, y, r)
             /\ Leads(K, T, y.inode, r, kind) => Child(T, y, r).inode # i
  <2>1. DropsLeading(K, T, K2, T2, d, s, i)
    BY DropsLeads
  <2> QED BY <2>1 DEF DropsLeading
<1> HIDE DEF D, E
<1>4. Closed(K2, T2, D2)
  <2>1. ASSUME NEW y \in D2, NEW r \in Slots, Leads(K2, T2, y.inode, r, "dir")
        PROVE  Child(T2, y, r) \in D2
    <3>1. ~(y.inode = d /\ r = s)
      BY <1>3, <2>1
    <3>2. Leads(K, T, y.inode, r, "dir") /\ Child(T2, y, r) = Child(T, y, r)
          /\ Child(T, y, r).inode # i
      BY <1>3, <2>1, <3>1
    <3> QED BY <1>1, <2>1, <3>2 DEF Closed
  <2>2. Top0 \in D2
    BY <1>1, <1>2 DEF Closed, Top0
  <2> QED BY <2>1, <2>2 DEF Closed
<1>5. Closed(K, T, S)
  <2>1. ASSUME NEW y \in S, NEW r \in Slots, Leads(K, T, y.inode, r, "dir")
        PROVE  Child(T, y, r) \in S
    <3>1. y \in D /\ y \in E /\ y.inode # i /\ Child(T, y, r) \in D
      BY <1>1, <1>3, <2>1 DEF Closed
    <3>2. CASE y.inode = d /\ r = s
      BY <1>3, <3>1, <3>2
    <3>3. CASE ~(y.inode = d /\ r = s)
      <4>1. Leads(K2, T2, y.inode, r, "dir") /\ Child(T2, y, r) = Child(T, y, r)
        BY <1>3, <2>1, <3>1, <3>3
      <4>2. Child(T2, y, r) \in E
        BY <1>1, <3>1, <4>1 DEF Closed
      <4> QED BY <3>1, <4>1, <4>2
    <3> QED BY <3>2, <3>3
  <2>2. Top0 \in S
    BY <1>1 DEF Closed
  <2> QED BY <2>1, <2>2 DEF Closed
<1>6. E \subseteq D2
  <2> HIDE DEF D2
  <2> QED BY <1>4, DirsLeast DEF E
<1>7. D \subseteq S
  <2> HIDE DEF S
  <2> QED BY <1>5, DirsLeast DEF D
<1>8. E = D2
  BY <1>6, <1>7
<1>9. ASSUME NEW z \in Spots
      PROVE  z \in FilesOf(K2, T2) <=> z \in FilesOf(K, T) /\ z.inode # i
  <2>1. ASSUME z \in FilesOf(K2, T2) PROVE z \in FilesOf(K, T) /\ z.inode # i
    <3>1. PICK y \in E, r \in Slots : Leads(K2, T2, y.inode, r, "file") /\ z = Child(T2, y, r)
      BY <2>1 DEF FilesOf, E
    <3>2. y \in D /\ y.inode # i
      BY <1>8
    <3>3. ~(y.inode = d /\ r = s)
      BY <1>3, <3>1, <3>2
    <3>4. Leads(K, T, y.inode, r, "file") /\ z = Child(T, y, r) /\ z.inode # i
      BY <1>3, <3>1, <3>2, <3>3
    <3> QED BY <3>2, <3>4 DEF FilesOf, D
  <2>2. ASSUME z \in FilesOf(K, T), z.inode # i PROVE z \in FilesOf(K2, T2)
    <3>1. PICK y \in D, r \in Slots : Leads(K, T, y.inode, r, "file") /\ z = Child(T, y, r)
      BY <2>2 DEF FilesOf, D
    <3>2. y.inode # i /\ y \in E /\ ~(y.inode = d /\ r = s)
      BY <1>3, <1>8, <2>2, <3>1
    <3>3. Leads(K2, T2, y.inode, r, "file") /\ z = Child(T2, y, r)
      BY <1>3, <3>1, <3>2
    <3> QED BY <3>2, <3>3 DEF FilesOf, E
  <2> QED BY <2>1, <2>2
<1>10. FilesOf(K2, T2) \subseteq Spots /\ FilesOf(K, T) \subseteq Spots
  BY DEF FilesOf
<1>11. FilesOf(K2, T2) = {y \in FilesOf(K, T) : y.inode # i}
  BY <1>9, <1>10
<1> QED BY <1>8, <1>11 DEF D, E


-----------------------------------------------------------------------------
(* Paths: what is below a directory, and where it is when that has moved *)

AnyPaths == Seq(AnyNames)
Heads(p, r) == Len(p) <= Len(r) /\ \A k \in 1 .. Len(p) : p[k] = r[k]
Shifted(p, q, r) == q \o SubSeq(r, Len(p) + 1, Len(r))

LEMMA HeadsAppend ==
    ASSUME NEW p \in AnyPaths, NEW r \in AnyPaths, NEW a \in AnyNames
    PROVE  /\ Heads(p, Append(r, a)) <=> Heads(p, r) \/ p = Append(r, a)
           /\ Heads(p, r) => p # Append(r, a)
           /\ p # <<>> => ~Heads(p, <<>>)
           /\ Heads(p, p)
           /\ Append(r, a) \in AnyPaths /\ <<>> \in AnyPaths
<1> DEFINE n == Len(p)
           m == Len(r)
           t == Append(r, a)
<1>1. /\ n \in Nat /\ m \in Nat /\ t \in AnyPaths /\ Len(t) = m + 1
      /\ \A k \in 1 .. m : t[k] = r[k]
  BY LenProperties, AppendProperties DEF AnyPaths
<1>2. <<>> \in AnyPaths /\ Len(<<>>) = 0 /\ (p # <<>> => n # 0)
  BY EmptySeq DEF AnyPaths
<1>5. ASSUME n = m + 1, \A k \in 1 .. n : p[k] = t[k] PROVE p = t
  <2>1. p \in Seq(AnyNames) /\ t \in Seq(AnyNames) /\ Len(p) = Len(t)
        /\ \A k \in 1 .. Len(p) : p[k] = t[k]
    BY <1>1, <1>5 DEF AnyPaths
  <2> HIDE DEF t
  <2> QED BY <2>1, SeqEqual
<1> HIDE DEF t
<1>6. ASSUME Heads(p, t) PROVE Heads(p, r) \/ p = t
  BY <1>1, <1>5, <1>6 DEF Heads
<1>7. ASSUME Heads(p, r) PROVE Heads(p, t) /\ p # t
  BY <1>1, <1>7 DEF Heads
<1>8. (p = t => Heads(p, t)) /\ Heads(p, p)
  BY <1>1 DEF Heads
<1>9. p # <<>> => ~Heads(p, <<>>)
  BY <1>1, <1>2 DEF Heads
<1>10. Heads(p, t) <=> Heads(p, r) \/ p = t
  BY <1>6, <1>7, <1>8
<1> QED BY <1>1, <1>2, <1>7, <1>8, <1>9, <1>10 DEF t

LEMMA ShiftedIs ==
    ASSUME NEW p \in AnyPaths, NEW q \in AnyPaths, NEW r \in AnyPaths, Heads(p, r)
    PROVE  /\ Shifted(p, q, r) \in AnyPaths
           /\ Len(Shifted(p, q, r)) = Len(q) + (Len(r) - Len(p))
           /\ \A k \in 1 .. Len(q) + (Len(r) - Len(p)) :
                Shifted(p, q, r)[k] = IF k <= Len(q) THEN q[k] ELSE r[k - Len(q) + Len(p)]
<1> DEFINE n == Len(p)
           m == Len(r)
           l == Len(q)
           u == SubSeq(r, n + 1, m)
<1>1. n \in Nat /\ m \in Nat /\ l \in Nat /\ n <= m
  BY LenProperties DEF AnyPaths, Heads
<1>2. /\ u \in AnyPaths /\ Len(u) = m - n
      /\ \A k \in 1 .. m - n : u[k] = r[k + n]
  <2>1. \A k \in n + 1 .. m : r[k] \in AnyNames
    <3>1. \A k \in n + 1 .. m : k \in 1 .. m
      BY <1>1
    <3> QED BY <1>1, <3>1, ElementOfSeq DEF AnyPaths
  <2>2. n + 1 \in Int /\ m \in Int
    BY <1>1
  <2> HIDE DEF n, m
  <2> DEFINE b == n + 1
  <2>3. b \in Int /\ \A k \in b .. m : r[k] \in AnyNames
    BY <2>1, <2>2
  <2> HIDE DEF b
  <2>4. /\ SubSeq(r, b, m) \in Seq(AnyNames)
        /\ Len(SubSeq(r, b, m)) = IF b <= m THEN m - b + 1 ELSE 0
        /\ \A k \in 1 .. m - b + 1 : SubSeq(r, b, m)[k] = r[b + k - 1]
    BY <2>2, <2>3, SubSeqProperties
  <2>5. (IF b <= m THEN m - b + 1 ELSE 0) = m - n /\ m - b + 1 = m - n
    BY <1>1 DEF b
  <2>6. ASSUME NEW k \in 1 .. m - n PROVE SubSeq(r, b, m)[k] = r[k + n]
    <3>1. SubSeq(r, b, m)[k] = r[b + k - 1]
      BY <2>4, <2>5
    <3>2. b + k - 1 = k + n
      BY <1>1 DEF b
    <3> QED BY <3>1, <3>2
  <2> QED BY <2>4, <2>5, <2>6 DEF b, AnyPaths
<1>3. Shifted(p, q, r) = q \o u
  BY DEF Shifted
<1> HIDE DEF u
<1>4. /\ q \o u \in AnyPaths
      /\ Len(q \o u) = l + Len(u)
      /\ \A k \in 1 .. l + Len(u) : (q \o u)[k] = IF k <= l THEN q[k] ELSE u[k - l]
  <2>1. q \in Seq(AnyNames) /\ u \in Seq(AnyNames)
    BY <1>2 DEF AnyPaths
  <2> QED BY <2>1, ConcatProperties DEF AnyPaths
<1>5. ASSUME NEW k \in 1 .. l + (m - n)
      PROVE  (q \o u)[k] = IF k <= l THEN q[k] ELSE r[k - l + n]
  <2>1. (q \o u)[k] = IF k <= l THEN q[k] ELSE u[k - l]
    BY <1>2, <1>4
  <2>2. ~(k <= l) => k - l \in 1 .. m - n
    BY <1>1
  <2>3. ~(k <= l) => u[k - l] = r[k - l + n]
    BY <1>2, <2>2
  <2> QED BY <2>1, <2>3
<1> QED BY <1>2, <1>3, <1>4, <1>5

LEMMA ShiftedGives ==
    ASSUME NEW p \in AnyPaths, NEW q \in AnyPaths, NEW r \in AnyPaths, Heads(p, r),
           NEW a \in AnyNames
    PROVE  /\ Shifted(p, q, p) = q
           /\ Shifted(p, q, Append(r, a)) = Append(Shifted(p, q, r), a)
           /\ Heads(q, Shifted(p, q, r)) /\ Shifted(q, p, Shifted(p, q, r)) = r
<1> DEFINE n == Len(p)
           m == Len(r)
           l == Len(q)
           t == Append(r, a)
           u == Shifted(p, q, r)
           v == Shifted(p, q, t)
           w == Shifted(q, p, u)
<1>1. n \in Nat /\ m \in Nat /\ l \in Nat /\ n <= m
  BY LenProperties DEF AnyPaths, Heads
<1>2. /\ t \in AnyPaths /\ Len(t) = m + 1 /\ Heads(p, t)
      /\ \A k \in 1 .. m : t[k] = r[k]
      /\ t[m + 1] = a
  BY AppendProperties, HeadsAppend DEF AnyPaths
<1> HIDE DEF t
<1>3. /\ u \in AnyPaths /\ Len(u) = l + (m - n)
      /\ \A k \in 1 .. l + (m - n) : u[k] = IF k <= l THEN q[k] ELSE r[k - l + n]
  BY ShiftedIs
<1>4. /\ v \in AnyPaths /\ Len(v) = l + (m + 1 - n)
      /\ \A k \in 1 .. l + (m + 1 - n) : v[k] = IF k <= l THEN q[k] ELSE t[k - l + n]
  <2>1. /\ v \in AnyPaths /\ Len(v) = l + (Len(t) - n)
        /\ \A k \in 1 .. l + (Len(t) - n) : v[k] = IF k <= l THEN q[k] ELSE t[k - l + n]
    BY <1>2, ShiftedIs
  <2> HIDE DEF v
  <2> QED BY <1>2, <2>1
<1> HIDE DEF u, v
<1>5. Heads(q, u)
  BY <1>1, <1>3 DEF Heads
<1>6. /\ w \in AnyPaths /\ Len(w) = n + (Len(u) - l)
      /\ \A k \in 1 .. n + (Len(u) - l) : w[k] = IF k <= n THEN p[k] ELSE u[k - n + l]
  BY <1>3, <1>5, ShiftedIs
<1> HIDE DEF w
<1>7. w = r
  <2>1. Len(w) = m /\ Len(w) = Len(r)
    BY <1>1, <1>3, <1>6
  <2>2. ASSUME NEW k \in 1 .. m PROVE w[k] = r[k]
    <3>1. n + (Len(u) - l) = m
      BY <1>1, <1>3
    <3>2. w[k] = IF k <= n THEN p[k] ELSE u[k - n + l]
      BY <1>6, <3>1
    <3>3. k <= n => p[k] = r[k]
      BY <1>1 DEF Heads
    <3>4. ~(k <= n) => /\ k - n + l \in 1 .. l + (m - n) /\ ~(k - n + l <= l)
                       /\ k - n + l - l + n = k
      BY <1>1
    <3> DEFINE j == k - n + l
    <3>6. ~(k <= n) => /\ j \in 1 .. l + (m - n) /\ ~(j <= l) /\ j - l + n = k
      BY <3>4
    <3> HIDE DEF j
    <3>7. ~(k <= n) => u[j] = r[j - l + n]
      BY <1>3, <3>6
    <3>5. ~(k <= n) => u[k - n + l] = r[k]
      BY <3>6, <3>7 DEF j
    <3> QED BY <3>2, <3>3, <3>5
  <2>3. w \in Seq(AnyNames) /\ r \in Seq(AnyNames) /\ \A k \in 1 .. Len(w) : w[k] = r[k]
    BY <1>6, <2>1, <2>2 DEF AnyPaths
  <2> QED BY <2>1, <2>3, SeqEqual
<1> DEFINE x == Append(u, a)
<1>8. /\ x \in AnyPaths /\ Len(x) = l + (m - n) + 1
      /\ \A k \in 1 .. l + (m - n) : x[k] = u[k]
      /\ x[l + (m - n) + 1] = a
  BY <1>3, AppendProperties DEF AnyPaths
<1> HIDE DEF x
<1>9. v = x
  <2>1. Len(v) = Len(x)
    BY <1>1, <1>4, <1>8
  <2>2. ASSUME NEW k \in 1 .. l + (m + 1 - n) PROVE v[k] = x[k]
    <3>1. v[k] = IF k <= l THEN q[k] ELSE t[k - l + n]
      BY <1>4
    <3>2. CASE k = l + (m - n) + 1
      <4>1. ~(k <= l) /\ k - l + n = m + 1
        BY <1>1, <3>2
      <4> QED BY <1>2, <1>8, <3>1, <3>2, <4>1
    <3>3. CASE k # l + (m - n) + 1
      <4>1. k \in 1 .. l + (m - n) /\ (~(k <= l) => k - l + n \in 1 .. m)
        BY <1>1, <3>3
      <4>2. x[k] = IF k <= l THEN q[k] ELSE r[k - l + n]
        BY <1>3, <1>8, <4>1
      <4> QED BY <1>2, <3>1, <4>1, <4>2
    <3> QED BY <3>2, <3>3
  <2>3. v \in Seq(AnyNames) /\ x \in Seq(AnyNames) /\ \A k \in 1 .. Len(v) : v[k] = x[k]
    BY <1>4, <1>8, <2>2 DEF AnyPaths
  <2> QED BY <2>1, <2>3, SeqEqual
<1> DEFINE y == Shifted(p, q, p)
<1>10. y = q
  <2>1. Heads(p, p)
    BY DEF Heads
  <2>2. /\ y \in AnyPaths /\ Len(y) = l + (n - n)
        /\ \A k \in 1 .. l + (n - n) : y[k] = IF k <= l THEN q[k] ELSE p[k - l + n]
    BY <2>1, ShiftedIs
  <2> HIDE DEF y
  <2>3. y \in Seq(AnyNames) /\ q \in Seq(AnyNames) /\ Len(y) = Len(q)
        /\ \A k \in 1 .. Len(y) : y[k] = q[k]
    BY <1>1, <2>2 DEF AnyPaths
  <2> QED BY <2>3, SeqEqual
<1> QED BY <1>5, <1>7, <1>9, <1>10 DEF t, u, v, w, x, y


-----------------------------------------------------------------------------
(* One entry is moved, or gets another name where it is *)

Moves(K, T, K2, T2, R, d, s, e, r, name, i) ==
    /\ d \in R /\ s \in Slots /\ InUse(T, d, s) /\ i = T[d][s].inode
    /\ e \in R /\ r \in Slots /\ name \in Names
    /\ (d = e /\ s = r) \/ (d # e /\ ~InUse(T, e, r))
    /\ \A t \in Slots : InUse(T, e, t) /\ T[e][t].name = name => K[T[e][t].inode] # K[i]
    /\ \A j \in Inodes : K2[j] = K[j]
    /\ T2[e][r] = [name |-> name, inode |-> i]
    /\ ~(d = e /\ s = r) => T2[d][s].name = NoName
    /\ \A c \in R, t \in Slots :
         ~(c = d /\ t = s) /\ ~(c = e /\ t = r) => T2[c][t] = T[c][t]

MovesLeading(K, T, K2, T2, d, s, e, r, name, i) ==
    \A y \in DirsOf(K, T), t \in Slots, kind \in {"file", "dir"} :
        /\ y.inode = e /\ t = r =>
             /\ Leads(K2, T2, y.inode, t, kind) <=> K[i] = kind
             /\ Child(T2, y, t) = Place(y, name, i)
             /\ d # e => ~Leads(K, T, y.inode, t, kind)
        /\ y.inode = d /\ t = s =>
             /\ d # e => ~Leads(K2, T2, y.inode, t, kind)
             /\ Leads(K, T, y.inode, t, kind) <=> K[i] = kind
             /\ Child(T, y, t).inode = i
        /\ ~(y.inode = d /\ t = s) /\ ~(y.inode = e /\ t = r) =>
             /\ Leads(K2, T2, y.inode, t, kind) <=> Leads(K, T, y.inode, t, kind)
             /\ Child(T2, y, t) = Child(T, y, t)
             /\ Leads(K, T, y.inode, t, kind) => Child(T, y, t).inode # i

LEMMA MovesLeads ==
    ASSUME NEW K, NEW T \in Views, NEW R, Linked(K, T, R),
           NEW K2, NEW T2 \in Views, NEW d, NEW s, NEW e, NEW r, NEW name, NEW i,
           Moves(K, T, K2, T2, R, d, s, e, r, name, i)
    PROVE  MovesLeading(K, T, K2, T2, d, s, e, r, name, i)
<1> SUFFICES ASSUME NEW y \in DirsOf(K, T), NEW t \in Slots, NEW kind \in {"file", "dir"}
             PROVE  /\ y.inode = e /\ t = r =>
                         /\ Leads(K2, T2, y.inode, t, kind) <=> K[i] = kind
                         /\ Child(T2, y, t) = Place(y, name, i)
                         /\ d # e => ~Leads(K, T, y.inode, t, kind)
                    /\ y.inode = d /\ t = s =>
                         /\ d # e => ~Leads(K2, T2, y.inode, t, kind)
                         /\ Leads(K, T, y.inode, t, kind) <=> K[i] = kind
                         /\ Child(T, y, t).inode = i
                    /\ ~(y.inode = d /\ t = s) /\ ~(y.inode = e /\ t = r) =>
                         /\ Leads(K2, T2, y.inode, t, kind) <=> Leads(K, T, y.inode, t, kind)
                         /\ Child(T2, y, t) = Child(T, y, t)
                         /\ Leads(K, T, y.inode, t, kind) => Child(T, y, t).inode # i
  BY DEF MovesLeading
<1> DEFINE c == y.inode
           j == T[c][t].inode
<1>1. c \in R /\ c \in Inodes /\ K[c] = "dir"
  BY DirsIn
<1>2. j \in Inodes /\ (InUse(T, c, t) => K[j] # "none")
  BY <1>1 DEF Linked, Refers, Views, Tables, Entries
<1>3. i \in Inodes /\ NoName \notin Names
  <2>1. d \in Inodes /\ s \in Slots /\ i = T[d][s].inode
    BY DEF Linked, Moves
  <2> QED BY <2>1, LayoutAssumption DEF Views, Tables, Entries
<1>4. ASSUME c = e, t = r
      PROVE  /\ Leads(K2, T2, c, t, kind) <=> K[i] = kind
             /\ Child(T2, y, t) = Place(y, name, i)
             /\ d # e => ~Leads(K, T, c, t, kind)
  <2>1. T2[c][t] = [name |-> name, inode |-> i] /\ name # NoName /\ K2[i] = K[i]
    BY <1>3, <1>4 DEF Moves
  <2>2. d # e => ~InUse(T, c, t)
    BY <1>4 DEF Moves
  <2> QED BY <2>1, <2>2 DEF Leads, InUse, Child, Place
<1>5. ASSUME c = d, t = s
      PROVE  /\ d # e => ~Leads(K2, T2, c, t, kind)
             /\ Leads(K, T, c, t, kind) <=> K[i] = kind
             /\ Child(T, y, t).inode = i
  <2>1. InUse(T, c, t) /\ i = j /\ (d # e => T2[c][t].name = NoName)
    BY <1>5 DEF Moves
  <2> QED BY <2>1 DEF Leads, InUse, Child
<1>6. ASSUME ~(c = d /\ t = s), ~(c = e /\ t = r)
      PROVE  /\ Leads(K2, T2, c, t, kind) <=> Leads(K, T, c, t, kind)
             /\ Child(T2, y, t) = Child(T, y, t)
             /\ Leads(K, T, c, t, kind) => Child(T, y, t).inode # i
  <2>1. T2[c][t] = T[c][t]
    BY <1>1, <1>6 DEF Moves
  <2>2. K2[j] = K[j]
    BY <1>2 DEF Moves
  <2>3. InUse(T, c, t) => j # i
    BY <1>1, <1>6 DEF Linked, Unshared, Moves
  <2> QED BY <2>1, <2>2, <2>3 DEF Leads, InUse, Child
<1> QED BY <1>4, <1>5, <1>6

\* Where what is moved was, and where it is put.
MovesTo(K, T, d, s, e, r, name, i, x, w, z, new) ==
    /\ \A y \in DirsOf(K, T) : y.inode = d => y = x
    /\ \A y \in DirsOf(K, T) : y.inode = e => y = z
    /\ w \in Spots /\ w.inode = i /\ i \in Inodes /\ i # 0
    /\ w.path \in AnyPaths /\ w.path # <<>>
    /\ new \in Spots /\ new.inode = i /\ new.path = Append(z.path, name)
    /\ new.path \in AnyPaths
    /\ s \in Slots /\ r \in Slots
    /\ \A y \in DirsOf(K, T) : y.path \in AnyPaths /\ y \in Spots

\* What the three lemmas that follow have in common.
LEMMA MovesPlaces ==
    ASSUME NEW K, NEW T \in Views, NEW R, Linked(K, T, R),
           NEW K2, NEW T2 \in Views, NEW d, NEW s, NEW e, NEW r, NEW name, NEW i,
           Moves(K, T, K2, T2, R, d, s, e, r, name, i),
           NEW x \in DirsOf(K, T), x.inode = d, NEW w, w = Child(T, x, s),
           NEW z \in DirsOf(K, T), z.inode = e, NEW new, new = Place(z, name, i)
    PROVE  MovesTo(K, T, d, s, e, r, name, i, x, w, z, new)
<1>1. \A y \in DirsOf(K, T) : (y.inode = d => y = x) /\ (y.inode = e => y = z)
  BY OnePlace
<1>2. \A y \in DirsOf(K, T) : y.path \in AnyPaths /\ y \in Spots
  BY DirsClosed DEF Spots, AnyPaths
<1>3. s \in Slots /\ r \in Slots /\ InUse(T, d, s) /\ i = T[d][s].inode /\ name \in AnyNames
  BY DEF Moves, AnyNames
<1>4. w \in Spots /\ w.inode = i /\ w.path = Append(x.path, T[d][s].name)
  BY <1>2, <1>3, SpotTypes DEF Child
<1>5. i \in Inodes /\ i # 0 /\ T[d][s].name \in AnyNames
  BY <1>3, OneParent DEF AnyNames
<1>6. w.path \in AnyPaths /\ w.path # <<>>
  <2> DEFINE n == T[d][s].name
             v == x.path
  <2>1. n \in AnyNames /\ v \in Seq(AnyNames) /\ w.path = Append(v, n)
    BY <1>2, <1>4, <1>5 DEF AnyPaths
  <2> HIDE DEF n, v
  <2> QED BY <2>1, AppendProperties DEF AnyPaths
<1>7. Append(z.path, name) \in AnyPaths
  BY <1>2, <1>3, HeadsAppend
<1>8. new \in Spots /\ new.inode = i /\ new.path = Append(z.path, name)
  BY <1>5, <1>7 DEF Place, Spots, AnyPaths
<1> QED BY <1>1, <1>2, <1>3, <1>4, <1>5, <1>6, <1>7, <1>8 DEF MovesTo

LEMMA FileMovesTree ==
    ASSUME NEW K, NEW T \in Views, NEW R, Linked(K, T, R),
           NEW K2, NEW T2 \in Views, NEW d, NEW s, NEW e, NEW r, NEW name, NEW i,
           Moves(K, T, K2, T2, R, d, s, e, r, name, i), K[i] = "file",
           NEW z \in DirsOf(K, T), z.inode = e, NEW new, new = Place(z, name, i)
    PROVE  /\ DirsOf(K2, T2) = DirsOf(K, T)
           /\ FilesOf(K2, T2) = {y \in FilesOf(K, T) : y.inode # i} \union {new}
<1> DEFINE D == DirsOf(K, T)
           E == DirsOf(K2, T2)
<1>1. Closed(K, T, D) /\ Closed(K2, T2, E)
  BY DirsClosed
<1>2. \A y \in D, t \in Slots, kind \in {"file", "dir"} :
        /\ y.inode = e /\ t = r =>
             /\ Leads(K2, T2, y.inode, t, kind) <=> K[i] = kind
             /\ Child(T2, y, t) = Place(y, name, i)
             /\ d # e => ~Leads(K, T, y.inode, t, kind)
        /\ y.inode = d /\ t = s =>
             /\ d # e => ~Leads(K2, T2, y.inode, t, kind)
             /\ Leads(K, T, y.inode, t, kind) <=> K[i] = kind
             /\ Child(T, y, t).inode = i
        /\ ~(y.inode = d /\ t = s) /\ ~(y.inode = e /\ t = r) =>
             /\ Leads(K2, T2, y.inode, t, kind) <=> Leads(K, T, y.inode, t, kind)
             /\ Child(T2, y, t) = Child(T, y, t)
             /\ Leads(K, T, y.inode, t, kind) => Child(T, y, t).inode # i
  <2>1. MovesLeading(K, T, K2, T2, d, s, e, r, name, i)
    BY MovesLeads
  <2> QED BY <2>1 DEF MovesLeading
<1>3. (d = e /\ s = r) \/ (d # e)
  BY DEF Moves
<1>4. \A y \in D : y.inode = e => y = z
  BY OnePlace
<1>5. r \in Slots /\ s \in Slots /\ z \in D
  BY DEF Moves
<1>6. new \in Spots /\ new.inode = i
  <2>1. Leads(K2, T2, e, r, "file") /\ Child(T2, z, r) = new
    BY <1>2, <1>5
  <2>2. z \in Spots
    BY DirsClosed
  <2>3. new \in Spots
    BY <1>5, <2>1, <2>2, SpotTypes DEF Leads
  <2> QED BY <2>3 DEF Place
<1> HIDE DEF D, E
<1>7. \A y \in D, t \in Slots : /\ Leads(K2, T2, y.inode, t, "dir") <=> Leads(K, T, y.inode, t, "dir")
                                /\ Leads(K, T, y.inode, t, "dir") => Child(T2, y, t) = Child(T, y, t)
  <2> SUFFICES ASSUME NEW y \in D, NEW t \in Slots
               PROVE  /\ Leads(K2, T2, y.inode, t, "dir") <=> Leads(K, T, y.inode, t, "dir")
                      /\ Leads(K, T, y.inode, t, "dir") => Child(T2, y, t) = Child(T, y, t)
    OBVIOUS
  <2>1. CASE y.inode = e /\ t = r
    BY <1>2, <1>3, <2>1
  <2>2. CASE y.inode = d /\ t = s
    BY <1>2, <1>3, <2>2
  <2>3. CASE ~(y.inode = d /\ t = s) /\ ~(y.inode = e /\ t = r)
    BY <1>2, <2>3
  <2> QED BY <2>1, <2>2, <2>3
<1>8. E \subseteq D
  <2>1. Closed(K2, T2, D)
    BY <1>1, <1>7 DEF Closed
  <2> QED BY <2>1, DirsLeast DEF E
<1>9. D \subseteq E
  <2>1. Closed(K, T, E)
    <3>1. ASSUME NEW y \in E, NEW t \in Slots, Leads(K, T, y.inode, t, "dir")
          PROVE  Child(T, y, t) \in E
      <4>1. Leads(K2, T2, y.inode, t, "dir") /\ Child(T2, y, t) = Child(T, y, t)
        BY <1>7, <1>8, <3>1
      <4> QED BY <1>1, <3>1, <4>1 DEF Closed
    <3> QED BY <1>1, <3>1 DEF Closed
  <2> QED BY <2>1, DirsLeast DEF D
<1>10. E = D
  BY <1>8, <1>9
<1>11. ASSUME NEW c \in Spots
       PROVE  c \in FilesOf(K2, T2) <=> (c \in FilesOf(K, T) /\ c.inode # i) \/ c = new
  <2>1. ASSUME c \in FilesOf(K2, T2) PROVE (c \in FilesOf(K, T) /\ c.inode # i) \/ c = new
    <3>1. PICK y \in D, t \in Slots : Leads(K2, T2, y.inode, t, "file") /\ c = Child(T2, y, t)
      BY <1>10, <2>1 DEF FilesOf, E
    <3>2. CASE y.inode = e /\ t = r
      BY <1>2, <1>4, <3>1, <3>2
    <3>3. CASE ~(y.inode = e /\ t = r)
      <4>1. ~(y.inode = d /\ t = s)
        BY <1>2, <1>3, <3>1, <3>3
      <4>2. Leads(K, T, y.inode, t, "file") /\ c = Child(T, y, t) /\ c.inode # i
        BY <1>2, <3>1, <3>3, <4>1
      <4> QED BY <4>2 DEF FilesOf, D
    <3> QED BY <3>2, <3>3
  <2>2. ASSUME c \in FilesOf(K, T), c.inode # i PROVE c \in FilesOf(K2, T2)
    <3>1. PICK y \in D, t \in Slots : Leads(K, T, y.inode, t, "file") /\ c = Child(T, y, t)
      BY <2>2 DEF FilesOf, D
    <3>2. ~(y.inode = d /\ t = s)
      BY <1>2, <2>2, <3>1
    <3>3. ~(y.inode = e /\ t = r)
      BY <1>2, <1>3, <3>1, <3>2
    <3>4. Leads(K2, T2, y.inode, t, "file") /\ c = Child(T2, y, t)
      BY <1>2, <3>1, <3>2, <3>3
    <3> QED BY <1>10, <3>4 DEF FilesOf, E
  <2>3. new \in FilesOf(K2, T2)
    <3>1. Leads(K2, T2, z.inode, r, "file") /\ new = Child(T2, z, r) /\ z \in E
      BY <1>2, <1>5, <1>10
    <3> QED BY <1>5, <1>6, <3>1 DEF FilesOf, E
  <2> QED BY <2>1, <2>2, <2>3
<1>12. FilesOf(K2, T2) \subseteq Spots /\ FilesOf(K, T) \subseteq Spots
  BY DEF FilesOf
<1>13. FilesOf(K2, T2) = {y \in FilesOf(K, T) : y.inode # i} \union {new}
  BY <1>6, <1>11, <1>12
<1> QED BY <1>10, <1>13 DEF D, E


\* Where things are when directory p has become q: a file of the name of the
\* directory stays.
DirMoved(p, q, y) ==
    IF Heads(p, y.path) THEN [path |-> Shifted(p, q, y.path), inode |-> y.inode] ELSE y
FileMoved(p, q, y) ==
    IF Heads(p, y.path) /\ p # y.path
    THEN [path |-> Shifted(p, q, y.path), inode |-> y.inode] ELSE y

\* What is below a directory.
LEMMA BelowIs ==
    ASSUME NEW K, NEW T \in Views, NEW R, Linked(K, T, R),
           NEW p \in AnyPaths, NEW y \in DirsOf(K, T), NEW t \in Slots, InUse(T, y.inode, t)
    PROVE  LET c == Child(T, y, t)
               a == T[y.inode][t].name
           IN  /\ c.path = Append(y.path, a) /\ y.path \in AnyPaths /\ a \in AnyNames
               /\ Heads(p, c.path) <=> Heads(p, y.path) \/ p = c.path
               /\ Heads(p, y.path) => p # c.path
               /\ Heads(p, c.path) /\ p # c.path <=> Heads(p, y.path)
<1> DEFINE c == Child(T, y, t)
           a == T[y.inode][t].name
           v == y.path
<1>1. a \in AnyNames
  BY OneParent DEF AnyNames
<1>2. v \in AnyPaths
  BY DirsClosed DEF Spots, AnyPaths
<1>3. c.path = Append(v, a)
  BY DEF Child
<1> HIDE DEF a, v, c
<1>4. /\ Heads(p, Append(v, a)) <=> Heads(p, v) \/ p = Append(v, a)
      /\ Heads(p, v) => p # Append(v, a)
  BY <1>1, <1>2, HeadsAppend
<1>5. /\ Heads(p, c.path) <=> Heads(p, v) \/ p = c.path
      /\ Heads(p, v) => p # c.path
  BY <1>3, <1>4
<1>6. Heads(p, c.path) /\ p # c.path <=> Heads(p, v)
  BY <1>5
<1> QED BY <1>1, <1>2, <1>3, <1>5, <1>6 DEF a, v, c

\* What is not below the directory that moves is where it was, and can be
\* reached as it could.
LEMMA MovesSpare ==
    ASSUME NEW K, NEW T \in Views, NEW R, Linked(K, T, R),
           NEW K2, NEW T2 \in Views, NEW d, NEW s, NEW e, NEW r, NEW name, NEW i,
           Moves(K, T, K2, T2, R, d, s, e, r, name, i),
           NEW x \in DirsOf(K, T), x.inode = d, NEW p, p = Child(T, x, s).path
    PROVE  \A y \in DirsOf(K, T) : ~Heads(p, y.path) => y \in DirsOf(K2, T2)
<1> DEFINE D == DirsOf(K, T)
           E == DirsOf(K2, T2)
           S == {y \in D : Heads(p, y.path) \/ y \in E}
           w == Child(T, x, s)
<1>1. Closed(K, T, D) /\ Closed(K2, T2, E)
  BY DirsClosed
<1>2. s \in Slots /\ InUse(T, d, s)
  BY DEF Moves
<1>3. p \in AnyPaths
  <2>1. w \in Spots
    BY <1>2, DirsClosed, SpotTypes
  <2> QED BY <2>1 DEF Spots, AnyPaths
<1>4. \A y \in D, t \in Slots :
        InUse(T, y.inode, t) =>
           (Heads(p, Child(T, y, t).path) <=> Heads(p, y.path) \/ p = Child(T, y, t).path)
  BY <1>3, BelowIs
<1>5. ASSUME NEW y \in D, NEW t \in Slots, Leads(K, T, y.inode, t, "dir"), ~(y.inode = d /\ t = s)
      PROVE  Leads(K2, T2, y.inode, t, "dir") /\ Child(T2, y, t) = Child(T, y, t)
  <2>1. MovesLeading(K, T, K2, T2, d, s, e, r, name, i)
    BY MovesLeads
  <2>2. ~(y.inode = e /\ t = r)
    BY <1>5, <2>1 DEF MovesLeading, Moves
  <2> QED BY <1>5, <2>1, <2>2 DEF MovesLeading
<1>6. \A y \in D : y.inode = d => y = x
  BY OnePlace
<1> HIDE DEF D, E
<1>7. Closed(K, T, S)
  <2>1. ASSUME NEW y \in S, NEW t \in Slots, Leads(K, T, y.inode, t, "dir")
        PROVE  Child(T, y, t) \in S
    <3>1. y \in D /\ Child(T, y, t) \in D /\ InUse(T, y.inode, t)
      BY <1>1, <2>1 DEF Closed, Leads
    <3>2. CASE Heads(p, y.path)
      BY <1>4, <3>1, <3>2
    <3>3. CASE y.inode = d /\ t = s
      <4>1. p = Child(T, y, t).path
        BY <1>6, <3>1, <3>3
      <4> QED BY <1>4, <3>1, <4>1
    <3>4. CASE y \in E /\ ~(y.inode = d /\ t = s)
      <4>1. Leads(K2, T2, y.inode, t, "dir") /\ Child(T2, y, t) = Child(T, y, t)
        BY <1>5, <2>1, <3>1, <3>4
      <4>2. Child(T2, y, t) \in E
        BY <1>1, <3>4, <4>1 DEF Closed
      <4> QED BY <3>1, <4>1, <4>2
    <3> QED BY <2>1, <3>2, <3>3, <3>4
  <2>2. Top0 \in S
    BY <1>1 DEF Closed
  <2> QED BY <2>1, <2>2 DEF Closed
<1>8. D \subseteq S
  <2> HIDE DEF S
  <2> QED BY <1>7, DirsLeast DEF D
<1> QED BY <1>8 DEF D, E

LEMMA DirMovesTree ==
    ASSUME NEW K, NEW T \in Views, NEW R, Linked(K, T, R),
           NEW K2, NEW T2 \in Views, NEW d, NEW s, NEW e, NEW r, NEW name, NEW i,
           Moves(K, T, K2, T2, R, d, s, e, r, name, i), K[i] = "dir",
           NEW x \in DirsOf(K, T), x.inode = d, NEW w, w = Child(T, x, s),
           NEW z \in DirsOf(K, T), z.inode = e, NEW new, new = Place(z, name, i),
           NEW p, p = w.path, NEW q, q = new.path, ~Heads(p, z.path)
    PROVE  /\ DirsOf(K2, T2) = {DirMoved(p, q, y) : y \in DirsOf(K, T)}
           /\ FilesOf(K2, T2) = {FileMoved(p, q, y) : y \in FilesOf(K, T)}
<1> DEFINE D == DirsOf(K, T)
           E == DirsOf(K2, T2)
           D2 == {DirMoved(p, q, y) : y \in D}
           S == {y \in D : DirMoved(p, q, y) \in E}
<1>1. Closed(K, T, D) /\ Closed(K2, T2, E)
  BY DirsClosed
<1>2. /\ \A y \in D : y.inode = d => y = x
      /\ \A y \in D : y.inode = e => y = z
      /\ w \in Spots /\ w.inode = i /\ p \in AnyPaths /\ p # <<>>
      /\ new \in Spots /\ new.inode = i /\ q \in AnyPaths
      /\ s \in Slots /\ r \in Slots
      /\ \A y \in D : y.path \in AnyPaths /\ y \in Spots
  <2>1. /\ \A y \in DirsOf(K, T) : y.inode = d => y = x
        /\ \A y \in DirsOf(K, T) : y.inode = e => y = z
        /\ w \in Spots /\ w.inode = i /\ w.path \in AnyPaths /\ w.path # <<>>
        /\ new \in Spots /\ new.inode = i /\ new.path \in AnyPaths
    <3>1. MovesTo(K, T, d, s, e, r, name, i, x, w, z, new)
      BY MovesPlaces
    <3> QED BY <3>1 DEF MovesTo
  <2>2. s \in Slots /\ r \in Slots
    BY DEF Moves
  <2>3. D \subseteq Spots
    BY DirsClosed
  <2>4. \A y \in Spots : y.path \in AnyPaths
    BY DEF Spots, AnyPaths
  <2> HIDE DEF D
  <2>5. \A y \in D : y.path \in AnyPaths /\ y \in Spots
    BY <2>3, <2>4
  <2> QED BY <2>1, <2>2, <2>5 DEF D
<1>3. (d = e /\ s = r) \/ (d # e)
  BY DEF Moves
<1>4. \A y \in D, t \in Slots, kind \in {"file", "dir"} :
        /\ y.inode = e /\ t = r =>
             /\ Leads(K2, T2, y.inode, t, kind) <=> K[i] = kind
             /\ Child(T2, y, t) = Place(y, name, i)
             /\ d # e => ~Leads(K, T, y.inode, t, kind)
        /\ y.inode = d /\ t = s =>
             /\ d # e => ~Leads(K2, T2, y.inode, t, kind)
             /\ Leads(K, T, y.inode, t, kind) <=> K[i] = kind
             /\ Child(T, y, t).inode = i
        /\ ~(y.inode = d /\ t = s) /\ ~(y.inode = e /\ t = r) =>
             /\ Leads(K2, T2, y.inode, t, kind) <=> Leads(K, T, y.inode, t, kind)
             /\ Child(T2, y, t) = Child(T, y, t)
             /\ Leads(K, T, y.inode, t, kind) => Child(T, y, t).inode # i
  <2>1. MovesLeading(K, T, K2, T2, d, s, e, r, name, i)
    BY MovesLeads
  <2> QED BY <2>1 DEF MovesLeading
<1>5. x \in D /\ z \in D /\ Leads(K, T, d, s, "dir") /\ Leads(K2, T2, e, r, "dir")
      /\ Child(T2, z, r) = new
  BY <1>2, <1>4
<1>6. w \in D
  BY <1>1, <1>2, <1>5 DEF Closed
<1>7. \A y \in D : y.path = p => y = w
  BY <1>6, OnePath
<1>8. DirMoved(p, q, w) = new /\ DirMoved(p, q, z) = z
  <2>1. Heads(p, p) /\ Shifted(p, q, p) = q
    <3>1. JunkName \in AnyNames
      BY DEF AnyNames
    <3>2. Heads(p, p)
      BY DEF Heads
    <3> QED BY <1>2, <3>1, <3>2, ShiftedGives
  <2>2. w.inode = new.inode /\ new = [path |-> q, inode |-> w.inode]
    BY <1>2 DEF Place
  <2> QED BY <2>1, <2>2 DEF DirMoved
\* An entry that stays leads to the moved place from the moved place.
<1>9. ASSUME NEW y \in D, NEW t \in Slots, InUse(T, y.inode, t), Child(T, y, t).inode # i,
             Child(T2, y, t) = Child(T, y, t)
      PROVE  /\ K[T[y.inode][t].inode] = "dir" =>
                  Child(T2, DirMoved(p, q, y), t) = DirMoved(p, q, Child(T, y, t))
             /\ Child(T2, DirMoved(p, q, y), t) = FileMoved(p, q, Child(T, y, t))
  <2> DEFINE c == Child(T, y, t)
             a == T[y.inode][t].name
             j == T[y.inode][t].inode
             v == y.path
  <2>1. /\ c.path = Append(v, a) /\ v \in AnyPaths /\ a \in AnyNames
        /\ Heads(p, c.path) <=> Heads(p, v) \/ p = c.path
        /\ Heads(p, v) => p # c.path
    BY <1>2, <1>9, BelowIs
  <2>2. c = [path |-> Append(v, a), inode |-> j]
    BY DEF Child
  <2>3. DirMoved(p, q, y).inode = y.inode
    BY DEF DirMoved
  <2>4. T2[y.inode][t].name = a /\ T2[y.inode][t].inode = j
    <3>1. Append(v, T2[y.inode][t].name) = Append(v, a) /\ T2[y.inode][t].inode = j
      BY <1>9 DEF Child
    <3>2. T2[y.inode][t].name \in AnyNames
      <4>1. y.inode \in Inodes /\ T2[y.inode][t] \in Entries
        BY <1>2 DEF Spots, Views, Tables
      <4>2. T2[y.inode][t].name # NoName
        <5> DEFINE n == T2[y.inode][t].name
        <5>1. n \in Names \union {NoName, JunkName}
          BY <4>1 DEF Entries
        <5>2. ~(y.inode = e /\ t = r)
          BY <1>2, <1>4, <1>9 DEF Place
        <5>3. ~(y.inode = d /\ t = s)
          BY <1>2, <1>4, <1>9
        <5>4. T2[y.inode][t] = T[y.inode][t]
          <6>1. y.inode \in R
            BY DirsIn
          <6> QED BY <5>2, <5>3, <6>1 DEF Moves
        <5> QED BY <1>9, <5>4 DEF InUse
      <4> QED BY <4>1, <4>2 DEF Entries, AnyNames
    <3> DEFINE n == T2[y.inode][t].name
    <3> HIDE DEF n, v, a
    <3>3. n \in AnyNames /\ Append(v, n) = Append(v, a) /\ v \in Seq(AnyNames)
      BY <2>1, <3>1, <3>2 DEF n, AnyPaths
    <3>4. n = a
      BY <2>1, <3>3, AppendIs
    <3> QED BY <3>1, <3>4 DEF n
  <2> DEFINE u == DirMoved(p, q, y)
  <2>5. Child(T2, u, t) = [path |-> Append(u.path, a), inode |-> j]
    <3>1. Child(T2, u, t) = [path |-> Append(u.path, T2[u.inode][t].name), inode |-> T2[u.inode][t].inode]
      BY DEF Child
    <3> HIDE DEF u, a, j
    <3> QED BY <2>3, <2>4, <3>1 DEF u
  <2> HIDE DEF a, j
  <2>6. CASE Heads(p, v)
    <3>1. Shifted(p, q, Append(v, a)) = Append(Shifted(p, q, v), a)
      <4> HIDE DEF v
      <4> QED BY <1>2, <2>1, <2>6, ShiftedGives
    <3>2. DirMoved(p, q, y).path = Shifted(p, q, v)
      BY <2>6 DEF DirMoved
    <3>3. Heads(p, c.path) /\ p # c.path
      BY <2>1, <2>6
    <3>4. DirMoved(p, q, c) = [path |-> Shifted(p, q, c.path), inode |-> c.inode]
          /\ FileMoved(p, q, c) = [path |-> Shifted(p, q, c.path), inode |-> c.inode]
      BY <3>3 DEF DirMoved, FileMoved
    <3>5. c.path = Append(v, a) /\ c.inode = j
      BY <2>2
    <3> HIDE DEF c, v, u
    <3>6. Append(u.path, a) = Shifted(p, q, c.path)
      BY <3>1, <3>2, <3>5 DEF u
    <3>7. Child(T2, u, t) = [path |-> Shifted(p, q, c.path), inode |-> c.inode]
      BY <2>5, <3>5, <3>6
    <3> QED BY <3>4, <3>7 DEF c, u
  <2>7. CASE ~Heads(p, v)
    <3>1. DirMoved(p, q, y) = y
      BY <2>7 DEF DirMoved
    <3>2. Child(T2, DirMoved(p, q, y), t) = c
      BY <1>9, <3>1
    <3>3. FileMoved(p, q, c) = c
      BY <2>1, <2>7 DEF FileMoved
    <3>4. ASSUME K[j] = "dir" PROVE DirMoved(p, q, c) = c
      <4>1. c \in D
        BY <1>1, <1>9, <3>4 DEF Closed, Leads, j
      <4>2. p # c.path
        BY <1>2, <1>7, <1>9, <4>1
      <4> QED BY <2>1, <2>7, <4>2 DEF DirMoved
    <3> QED BY <3>2, <3>3, <3>4 DEF j
  <2> QED BY <2>6, <2>7
<1>10. \A y \in D : ~Heads(p, y.path) => y \in E
  BY MovesSpare
<1> HIDE DEF D, E
\* Where an entry other than the moved one leads.
<1>11. ASSUME NEW y \in D, NEW t \in Slots, NEW kind \in {"file", "dir"},
              Leads(K, T, y.inode, t, kind), ~(y.inode = d /\ t = s)
       PROVE  /\ Leads(K2, T2, y.inode, t, kind)
              /\ kind = "dir" => Child(T2, DirMoved(p, q, y), t) = DirMoved(p, q, Child(T, y, t))
              /\ Child(T2, DirMoved(p, q, y), t) = FileMoved(p, q, Child(T, y, t))
  <2>1. ~(y.inode = e /\ t = r)
    BY <1>3, <1>4, <1>11
  <2>2. /\ Leads(K2, T2, y.inode, t, kind) /\ Child(T2, y, t) = Child(T, y, t)
        /\ Child(T, y, t).inode # i
    BY <1>4, <1>11, <2>1
  <2>3. InUse(T, y.inode, t) /\ K[T[y.inode][t].inode] = kind
    BY <1>11 DEF Leads
  <2> QED BY <1>9, <2>2, <2>3
<1>12. ASSUME NEW y \in D, NEW t \in Slots, NEW kind \in {"file", "dir"},
              Leads(K2, T2, y.inode, t, kind), ~(y.inode = e /\ t = r)
       PROVE  Leads(K, T, y.inode, t, kind) /\ ~(y.inode = d /\ t = s)
  BY <1>3, <1>4, <1>12
<1>13. \A y \in D : DirMoved(p, q, y).inode = y.inode
  BY DEF DirMoved
<1>14. Closed(K2, T2, D2)
  <2>1. ASSUME NEW y \in D, NEW t \in Slots, Leads(K2, T2, y.inode, t, "dir")
        PROVE  Child(T2, DirMoved(p, q, y), t) \in D2
    <3>1. CASE y.inode = e /\ t = r
      <4>1. y = z
        BY <1>2, <3>1
      <4>2. Child(T2, DirMoved(p, q, y), t) = DirMoved(p, q, w)
        BY <1>5, <1>8, <3>1, <4>1
      <4> QED BY <1>6, <4>2
    <3>2. CASE ~(y.inode = e /\ t = r)
      <4>1. Leads(K, T, y.inode, t, "dir") /\ ~(y.inode = d /\ t = s)
        BY <1>12, <2>1, <3>2
      <4>2. Child(T2, DirMoved(p, q, y), t) = DirMoved(p, q, Child(T, y, t))
        BY <1>11, <4>1
      <4>3. Child(T, y, t) \in D
        BY <1>1, <4>1 DEF Closed
      <4> QED BY <4>2, <4>3
    <3> QED BY <3>1, <3>2
  <2>2. Top0 \in D2
    <3>1. Top0 \in D /\ Top0.path = <<>>
      BY <1>1 DEF Closed, Top0
    <3>2. ~Heads(p, <<>>)
      BY <1>2, LayoutAssumption, HeadsAppend DEF AnyNames
    <3>3. DirMoved(p, q, Top0) = Top0
      BY <3>1, <3>2 DEF DirMoved
    <3> QED BY <3>1, <3>3
  <2>3. ASSUME NEW u \in D2, NEW t \in Slots, Leads(K2, T2, u.inode, t, "dir")
        PROVE  Child(T2, u, t) \in D2
    <3>1. PICK y \in D : u = DirMoved(p, q, y)
      OBVIOUS
    <3>2. Leads(K2, T2, y.inode, t, "dir")
      BY <1>13, <2>3, <3>1
    <3> HIDE DEF D2
    <3> QED BY <2>1, <3>1, <3>2
  <2> HIDE DEF D2
  <2> QED BY <2>2, <2>3 DEF Closed
<1>15. Closed(K, T, S)
  <2>1. z \in E
    BY <1>5, <1>10
  <2>2. new \in E
    BY <1>1, <1>2, <1>5, <2>1 DEF Closed
  <2>3. ASSUME NEW y \in S, NEW t \in Slots, Leads(K, T, y.inode, t, "dir")
        PROVE  Child(T, y, t) \in S
    <3>1. y \in D /\ Child(T, y, t) \in D
      BY <1>1, <2>3 DEF Closed
    <3>2. CASE y.inode = d /\ t = s
      <4>1. Child(T, y, t) = w
        BY <1>2, <3>1, <3>2
      <4> QED BY <1>8, <2>2, <3>1, <4>1
    <3>3. CASE ~(y.inode = d /\ t = s)
      <4>1. /\ Leads(K2, T2, y.inode, t, "dir")
            /\ Child(T2, DirMoved(p, q, y), t) = DirMoved(p, q, Child(T, y, t))
        BY <1>11, <2>3, <3>1, <3>3
      <4>2. Child(T2, DirMoved(p, q, y), t) \in E
        BY <1>1, <1>13, <2>3, <3>1, <4>1 DEF Closed
      <4> QED BY <3>1, <4>1, <4>2
    <3> QED BY <3>2, <3>3
  <2>4. Top0 \in S
    <3>1. Top0 \in D /\ Top0.path = <<>>
      BY <1>1 DEF Closed, Top0
    <3>2. ~Heads(p, <<>>)
      BY <1>2, LayoutAssumption, HeadsAppend DEF AnyNames
    <3>3. DirMoved(p, q, Top0) = Top0
      BY <3>1, <3>2 DEF DirMoved
    <3> QED BY <1>10, <3>1, <3>2, <3>3
  <2> QED BY <2>3, <2>4 DEF Closed
<1>16. E \subseteq D2
  <2> HIDE DEF D2
  <2> QED BY <1>14, DirsLeast DEF E
<1>17. D \subseteq S
  <2> HIDE DEF S
  <2> QED BY <1>15, DirsLeast DEF D
<1>18. E = D2
  BY <1>16, <1>17
<1> DEFINE F == FilesOf(K, T)
           G == FilesOf(K2, T2)
           F2 == {FileMoved(p, q, y) : y \in F}
<1>19. ASSUME NEW c \in G PROVE c \in F2
  <2>1. PICK u \in E, t \in Slots : Leads(K2, T2, u.inode, t, "file") /\ c = Child(T2, u, t)
    BY <1>19 DEF FilesOf, E
  <2>2. PICK y \in D : u = DirMoved(p, q, y)
    BY <1>18
  <2>3. Leads(K2, T2, y.inode, t, "file")
    BY <1>13, <2>1, <2>2
  <2>4. ~(y.inode = e /\ t = r)
    BY <1>4, <2>3
  <2>5. Leads(K, T, y.inode, t, "file") /\ ~(y.inode = d /\ t = s)
    BY <1>12, <2>3, <2>4
  <2>6. c = FileMoved(p, q, Child(T, y, t))
    BY <1>11, <2>1, <2>2, <2>5
  <2>7. Child(T, y, t) \in F
    BY <1>2, <2>5, SpotTypes DEF FilesOf, D, Leads
  <2> QED BY <2>6, <2>7
<1>20. ASSUME NEW c \in F PROVE FileMoved(p, q, c) \in G
  <2>1. PICK y \in D, t \in Slots : Leads(K, T, y.inode, t, "file") /\ c = Child(T, y, t)
    BY <1>20 DEF FilesOf, D
  <2>2. ~(y.inode = d /\ t = s)
    BY <1>4, <2>1
  <2>3. /\ Leads(K2, T2, y.inode, t, "file")
        /\ Child(T2, DirMoved(p, q, y), t) = FileMoved(p, q, c)
    BY <1>11, <2>1, <2>2
  <2>4. DirMoved(p, q, y) \in E /\ DirMoved(p, q, y).inode = y.inode
    BY <1>13, <1>18
  <2>5. FileMoved(p, q, c) \in Spots
    <3>1. DirMoved(p, q, y) \in Spots
      BY <2>4, DirsClosed DEF E
    <3> QED BY <2>3, <2>4, <3>1, SpotTypes DEF Leads
  <2> QED BY <2>3, <2>4, <2>5 DEF FilesOf, E
<1>21. G = F2
  <2> HIDE DEF F, G
  <2> QED BY <1>19, <1>20
<1> QED BY <1>18, <1>21 DEF D, E


\* A directory that is moved into itself, or below itself, is not reached any
\* more, nor is what was below it.
LEMMA DetachTree ==
    ASSUME NEW K, NEW T \in Views, NEW R, Linked(K, T, R),
           NEW K2, NEW T2 \in Views, NEW d, NEW s, NEW e, NEW r, NEW name, NEW i,
           Moves(K, T, K2, T2, R, d, s, e, r, name, i), K[i] = "dir",
           NEW x \in DirsOf(K, T), x.inode = d, NEW w, w = Child(T, x, s),
           NEW z \in DirsOf(K, T), z.inode = e, NEW p, p = w.path, Heads(p, z.path)
    PROVE  /\ DirsOf(K2, T2) = {y \in DirsOf(K, T) : ~Heads(p, y.path)}
           /\ FilesOf(K2, T2) = {y \in FilesOf(K, T) : ~(Heads(p, y.path) /\ p # y.path)}
<1> DEFINE D == DirsOf(K, T)
           E == DirsOf(K2, T2)
           D2 == {y \in D : ~Heads(p, y.path)}
           new == Place(z, name, i)
<1>1. Closed(K, T, D) /\ Closed(K2, T2, E)
  BY DirsClosed
<1>2. /\ \A y \in D : (y.inode = d => y = x) /\ (y.inode = e => y = z)
      /\ w \in Spots /\ w.inode = i /\ p \in AnyPaths /\ p # <<>>
      /\ s \in Slots /\ r \in Slots
  <2>1. MovesTo(K, T, d, s, e, r, name, i, x, w, z, new)
    BY MovesPlaces
  <2> HIDE DEF new
  <2> QED BY <2>1 DEF MovesTo
<1>3. (d = e /\ s = r) \/ (d # e)
  BY DEF Moves
<1>4. \A y \in D, t \in Slots, kind \in {"file", "dir"} :
        /\ y.inode = d /\ t = s =>
             /\ d # e => ~Leads(K2, T2, y.inode, t, kind)
             /\ Leads(K, T, y.inode, t, kind) <=> K[i] = kind
             /\ Child(T, y, t).inode = i
        /\ ~(y.inode = d /\ t = s) /\ ~(y.inode = e /\ t = r) =>
             /\ Leads(K2, T2, y.inode, t, kind) <=> Leads(K, T, y.inode, t, kind)
             /\ Child(T2, y, t) = Child(T, y, t)
             /\ Leads(K, T, y.inode, t, kind) => Child(T, y, t).inode # i
  <2>1. MovesLeading(K, T, K2, T2, d, s, e, r, name, i)
    BY MovesLeads
  <2> QED BY <2>1 DEF MovesLeading
<1>5. w \in D
  <2>1. Leads(K, T, x.inode, s, "dir") /\ x \in D
    BY <1>2, <1>4
  <2> QED BY <1>1, <1>2, <2>1 DEF Closed
<1>6. \A y \in D : y.path = p => y = w
  BY <1>5, OnePath
<1>7. \A y \in D, t \in Slots :
        InUse(T, y.inode, t) =>
          LET c == Child(T, y, t)
          IN  /\ Heads(p, c.path) <=> Heads(p, y.path) \/ p = c.path
              /\ Heads(p, c.path) /\ p # c.path <=> Heads(p, y.path)
  <2> SUFFICES ASSUME NEW y \in D, NEW t \in Slots, InUse(T, y.inode, t)
               PROVE  LET c == Child(T, y, t)
                      IN  /\ Heads(p, c.path) <=> Heads(p, y.path) \/ p = c.path
                          /\ Heads(p, c.path) /\ p # c.path <=> Heads(p, y.path)
    OBVIOUS
  <2> QED BY <1>2, BelowIs
<1>8. D2 \subseteq E
  <2>1. \A y \in DirsOf(K, T) : ~Heads(p, y.path) => y \in DirsOf(K2, T2)
    BY MovesSpare
  <2> QED BY <2>1
<1>9. \A y \in D2, t \in Slots, kind \in {"file", "dir"} :
         Leads(K2, T2, y.inode, t, kind) =>
            /\ ~(y.inode = d /\ t = s) /\ ~(y.inode = e /\ t = r)
            /\ Leads(K, T, y.inode, t, kind)
            /\ Child(T2, y, t) = Child(T, y, t) /\ Child(T, y, t).inode # i
  <2> SUFFICES ASSUME NEW y \in D2, NEW t \in Slots, NEW kind \in {"file", "dir"},
                      Leads(K2, T2, y.inode, t, kind)
               PROVE  /\ ~(y.inode = d /\ t = s) /\ ~(y.inode = e /\ t = r)
                      /\ Leads(K, T, y.inode, t, kind)
                      /\ Child(T2, y, t) = Child(T, y, t) /\ Child(T, y, t).inode # i
    OBVIOUS
  <2>1. y \in D /\ y.inode # e
    BY <1>2
  <2> HIDE DEF D, D2
  <2>2. ~(y.inode = d /\ t = s)
    BY <1>4, <2>1
  <2> QED BY <1>4, <2>1, <2>2
<1> HIDE DEF D, E
<1>10. Closed(K2, T2, D2)
  <2>1. ASSUME NEW y \in D2, NEW t \in Slots, Leads(K2, T2, y.inode, t, "dir")
        PROVE  Child(T2, y, t) \in D2
    <3>1. /\ y \in D /\ ~Heads(p, y.path) /\ Leads(K, T, y.inode, t, "dir")
          /\ Child(T2, y, t) = Child(T, y, t) /\ Child(T, y, t).inode # i
      BY <1>9, <2>1
    <3>2. Child(T, y, t) \in D
      BY <1>1, <3>1 DEF Closed
    <3>3. p # Child(T, y, t).path
      BY <1>2, <1>6, <3>1, <3>2
    <3>4. InUse(T, y.inode, t)
      BY <3>1 DEF Leads
    <3> QED BY <1>7, <3>1, <3>2, <3>3, <3>4
  <2>2. Top0 \in D2
    <3>1. Top0 \in D /\ Top0.path = <<>>
      BY <1>1 DEF Closed, Top0
    <3>2. ~Heads(p, <<>>)
      <4>1. JunkName \in AnyNames
        BY DEF AnyNames
      <4> QED BY <1>2, <4>1, HeadsAppend
    <3> QED BY <3>1, <3>2
  <2> HIDE DEF D2
  <2> QED BY <2>1, <2>2 DEF Closed
<1>11. E = D2
  <2>1. E \subseteq D2
    <3> HIDE DEF D2
    <3> QED BY <1>10, DirsLeast DEF E
  <2> QED BY <1>8, <2>1
<1> DEFINE F == FilesOf(K, T)
           G == FilesOf(K2, T2)
           F2 == {y \in F : ~(Heads(p, y.path) /\ p # y.path)}
<1>12. ASSUME NEW c \in G PROVE c \in F2
  <2>1. PICK y \in E, t \in Slots : Leads(K2, T2, y.inode, t, "file") /\ c = Child(T2, y, t)
    BY <1>12 DEF FilesOf, E
  <2>2. /\ y \in D /\ ~Heads(p, y.path) /\ Leads(K, T, y.inode, t, "file") /\ c = Child(T, y, t)
    BY <1>9, <1>11, <2>1
  <2>3. c \in F
    BY <2>1, <2>2, <1>12 DEF FilesOf, D
  <2>4. ~(Heads(p, c.path) /\ p # c.path)
    BY <1>7, <2>2 DEF Leads
  <2> QED BY <2>3, <2>4
<1>13. ASSUME NEW c \in F2 PROVE c \in G
  <2>1. PICK y \in D, t \in Slots : Leads(K, T, y.inode, t, "file") /\ c = Child(T, y, t)
    BY <1>13 DEF FilesOf, D
  <2>2. ~Heads(p, y.path)
    BY <1>7, <1>13, <2>1 DEF Leads
  <2>3. ~(y.inode = d /\ t = s) /\ y.inode # e
    BY <1>2, <1>4, <2>1, <2>2
  <2>4. Leads(K2, T2, y.inode, t, "file") /\ Child(T2, y, t) = c
    BY <1>4, <2>1, <2>3
  <2>5. y \in E
    BY <1>11, <2>1, <2>2
  <2>6. c \in Spots
    BY <1>13 DEF FilesOf
  <2> QED BY <2>4, <2>5, <2>6 DEF FilesOf, E
<1>14. G = F2
  <2> HIDE DEF G, F2
  <2> QED BY <1>12, <1>13
<1> QED BY <1>11, <1>14 DEF D, E

-----------------------------------------------------------------------------
(* What each call does to the tree, to the files and to what is lost.      *)

\* The inodes of the files that paths lead to.
FileSet(K, T) == {x.inode : x \in FilesOf(K, T)}

\* Disk and RAM agree on a file, and its size is that of its text.
Intact(st, i) ==
    /\ st.dinodes[i] = st.inodes[i]
    /\ \/ st.inodes[i].size = 0
       \/ st.inodes[i].size = LengthOf[st.blocks[st.inodes[i].block].text]

Neat == {st \in Orderly : \A i \in FileSet(Kinds(st), View(st)) : Intact(st, i)}

LEMMA FileSetIs ==
    ASSUME NEW K, NEW T \in Views, NEW R, Linked(K, T, R)
    PROVE  /\ \A d \in Reached(K, T), s \in Slots :
                Leads(K, T, d, s, "file") => T[d][s].inode \in FileSet(K, T)
           /\ \A i \in FileSet(K, T) : \E d \in Reached(K, T), s \in Slots :
                Leads(K, T, d, s, "file") /\ i = T[d][s].inode
           /\ \A i \in FileSet(K, T) : i \in Inodes \ {0} /\ K[i] = "file"
<1>1. ASSUME NEW d \in Reached(K, T), NEW s \in Slots, Leads(K, T, d, s, "file")
      PROVE  T[d][s].inode \in FileSet(K, T)
  <2>1. PICK x \in DirsOf(K, T) : x.inode = d
    BY DEF Reached
  <2>2. Child(T, x, s) \in Spots
    BY <1>1, <2>1, DirsClosed, SpotTypes DEF Leads
  <2>3. Child(T, x, s) \in FilesOf(K, T)
    BY <1>1, <2>1, <2>2 DEF FilesOf
  <2> QED BY <2>1, <2>3 DEF FileSet, Child
<1>2. ASSUME NEW i \in FileSet(K, T)
      PROVE  \E d \in Reached(K, T), s \in Slots : Leads(K, T, d, s, "file") /\ i = T[d][s].inode
  <2>1. PICK x \in FilesOf(K, T) : i = x.inode
    BY DEF FileSet
  <2>2. PICK y \in DirsOf(K, T), s \in Slots : Leads(K, T, y.inode, s, "file") /\ x = Child(T, y, s)
    BY DEF FilesOf
  <2>3. y.inode \in Reached(K, T)
    BY DEF Reached
  <2> QED BY <2>1, <2>2, <2>3 DEF Child
<1>3. \A i \in FileSet(K, T) : i \in Inodes \ {0} /\ K[i] = "file"
  BY FilesIn DEF FileSet
<1> QED BY <1>1, <1>2, <1>3

\* What the changes do to the inodes that can be reached.
LEMMA StaysSets ==
    ASSUME NEW K, NEW T \in Views, NEW R, Linked(K, T, R),
           NEW K2, NEW T2 \in Views, Stays(K, T, K2, T2, R)
    PROVE  Reached(K2, T2) = Reached(K, T) /\ FileSet(K2, T2) = FileSet(K, T)
BY StaysTree DEF Reached, FileSet

LEMMA AddsSets ==
    ASSUME NEW K, NEW T \in Views, NEW R, Linked(K, T, R),
           NEW K2, NEW T2 \in Views, NEW d \in Reached(K, T), NEW s, NEW name, NEW i, NEW type,
           Adds(K, T, K2, T2, R, d, s, name, i, type)
    PROVE  /\ Reached(K2, T2) = Reached(K, T) \union (IF type = "dir" THEN {i} ELSE {})
           /\ FileSet(K2, T2) = FileSet(K, T) \union (IF type = "file" THEN {i} ELSE {})
<1>1. PICK x \in DirsOf(K, T) : x.inode = d
  BY DEF Reached
<1> DEFINE new == Place(x, name, i)
<1>2. new.inode = i
  BY DEF Place
<1> HIDE DEF new
<1>3. /\ DirsOf(K2, T2) = DirsOf(K, T) \union (IF type = "dir" THEN {new} ELSE {})
      /\ FilesOf(K2, T2) = FilesOf(K, T) \union (IF type = "file" THEN {new} ELSE {})
  BY <1>1, AddsTree DEF new
<1> QED BY <1>2, <1>3 DEF Reached, FileSet

LEMMA DropsSets ==
    ASSUME NEW K, NEW T \in Views, NEW R, Linked(K, T, R),
           NEW K2, NEW T2 \in Views, NEW d, NEW s, NEW i,
           Drops(K, T, K2, T2, R, d, s, i)
    PROVE  /\ Reached(K2, T2) = Reached(K, T) \ {i}
           /\ FileSet(K2, T2) = FileSet(K, T) \ {i}
<1> DEFINE D == DirsOf(K, T)
           F == FilesOf(K, T)
           E == DirsOf(K2, T2)
           G == FilesOf(K2, T2)
<1>1. E = {y \in D : y.inode # i} /\ G = {y \in F : y.inode # i}
  BY DropsTree
<1> HIDE DEF D, F, E, G
<1>2. {x.inode : x \in E} = {x.inode : x \in D} \ {i}
  BY <1>1
<1>3. {x.inode : x \in G} = {x.inode : x \in F} \ {i}
  BY <1>1
<1> QED BY <1>2, <1>3 DEF Reached, FileSet, D, F, E, G

LEMMA MovesSets ==
    ASSUME NEW K, NEW T \in Views, NEW R, Linked(K, T, R),
           NEW K2, NEW T2 \in Views, NEW d, NEW s, NEW e, NEW r, NEW name, NEW i,
           Moves(K, T, K2, T2, R, d, s, e, r, name, i), K[i] \in {"file", "dir"},
           NEW x \in DirsOf(K, T), x.inode = d, NEW z \in DirsOf(K, T), z.inode = e
    PROVE  /\ FileSet(K2, T2) \subseteq FileSet(K, T)
           /\ K[i] = "file" \/ ~Heads(Child(T, x, s).path, z.path) =>
                Reached(K2, T2) = Reached(K, T) /\ FileSet(K2, T2) = FileSet(K, T)
<1> DEFINE D == DirsOf(K, T)
           F == FilesOf(K, T)
           w == Child(T, x, s)
           p == w.path
           new == Place(z, name, i)
           q == new.path
<1>1. CASE K[i] = "file"
  <2>1. DirsOf(K2, T2) = D /\ FilesOf(K2, T2) = {y \in F : y.inode # i} \union {new}
    BY <1>1, FileMovesTree
  <2>2. new.inode = i
    BY DEF Place
  <2>3. d \in Reached(K, T) /\ s \in Slots /\ Leads(K, T, d, s, "file") /\ i = T[d][s].inode
    BY <1>1 DEF Moves, Leads, Reached
  <2>4. i \in FileSet(K, T)
    BY <2>3, FileSetIs
  <2> HIDE DEF new
  <2> QED BY <2>1, <2>2, <2>4 DEF Reached, FileSet
<1>2. CASE K[i] = "dir" /\ ~Heads(p, z.path)
  <2>1. /\ DirsOf(K2, T2) = {DirMoved(p, q, y) : y \in D}
        /\ FilesOf(K2, T2) = {FileMoved(p, q, y) : y \in F}
    <3> HIDE DEF new, w
    <3> QED BY <1>2, DirMovesTree DEF new, w
  <2>2. \A y : DirMoved(p, q, y).inode = y.inode /\ FileMoved(p, q, y).inode = y.inode
    BY DEF DirMoved, FileMoved
  <2> HIDE DEF p, q, D, F
  <2> QED BY <2>1, <2>2 DEF Reached, FileSet, D, F
<1>3. CASE K[i] = "dir" /\ Heads(p, z.path)
  <2>1. FilesOf(K2, T2) = {y \in F : ~(Heads(p, y.path) /\ p # y.path)}
    <3> HIDE DEF w
    <3> QED BY <1>3, DetachTree DEF w
  <2> QED BY <1>3, <2>1 DEF FileSet
<1> QED BY <1>1, <1>2, <1>3


-----------------------------------------------------------------------------
(* A new entry *)

LEMMA EntersAdds ==
    ASSUME NEW st \in Tidy, st.sb, NEW R, Linked(Kinds(st), View(st), R),
           NEW u, NEW Q, NEW i, NEW type, Claimed(st, u, R, Q, i, type),
           NEW d \in R, NEW t, t = View(st)[d], free_slot(t) # 0,
           NEW name \in Names, Missing(st, t, name, type),
           type = "dir" => \A r \in Slots : ~InUse(View(u), i, r),
           NEW s, s = write_dir_block(u, d, WithEntry(t, name, i))
    PROVE  /\ Adds(Kinds(st), View(st), Kinds(s), View(s), R, d, free_slot(t), name, i, type)
           /\ s \in Tidy /\ s.sb /\ s.inodes = u.inodes /\ Linked(Kinds(s), View(s), Q)
<1> DEFINE K == Kinds(st)
           T == View(st)
           k == free_slot(t)
           w == WithEntry(t, name, i)
<1>1. st \in FsStates /\ R \in SUBSET Inodes /\ \A e \in R : K[e] # "none"
  BY DEF Tidy, Linked
<1>2. K \in [Inodes -> Kind] /\ t \in Tables
  BY <1>1, ViewTypes
<1>3. k \in Slots /\ t[k].name = NoName
  BY <1>2, FreeSlot
<1>4. /\ u \in Tidy /\ u.sb /\ i \in Inodes /\ i # 0 /\ K[i] = "none" /\ type \in {"file", "dir"}
      /\ Kinds(u) = [K EXCEPT ![i] = type]
      /\ \A e \in R : View(u)[e] = T[e]
  BY DEF Claimed
<1>5. w \in Tables
  BY <1>2, <1>4, EntryTypes
<1>6. w[k] = [name |-> name, inode |-> i] /\ \A r \in Slots : r # k => w[r] = t[r]
  BY <1>2, <1>3 DEF WithEntry, Tables
<1>7. d \in Inodes /\ d # i /\ Kinds(u)[d] = K[d] /\ Kinds(u)[i] = type
  BY <1>1, <1>2, <1>4
<1>8. u \in FsStates
  BY <1>4 DEF Tidy
<1>9. \A e \in Inodes : Kinds(u)[e] # "none" => u.inodes[e].type # "none"
  BY <1>8, ViewTypes
<1>10. Alike(u, s, {d}) /\ s.inodes = u.inodes /\ View(s)[d] = w
  BY <1>1, <1>4, <1>5, <1>7, <1>9, WriteDirView
<1> HIDE DEF w
<1>11. s \in Tidy /\ s.sb /\ Kinds(s) = Kinds(u)
  BY <1>10 DEF Alike
<1>12. \A e \in R : e # d => View(s)[e] = T[e]
  <2> SUFFICES ASSUME NEW e \in R, e # d PROVE View(s)[e] = T[e]
    OBVIOUS
  <2>1. e \in Inodes /\ Kinds(u)[e] # "none"
    BY <1>1, <1>2, <1>4
  <2>2. u.inodes[e].type # "none"
    BY <1>9, <2>1
  <2> QED BY <1>4, <1>10, <2>1, <2>2 DEF Alike
<1>13. View(s)[i] = View(u)[i]
  BY <1>4, <1>7, <1>9, <1>10 DEF Alike
<1>14. Linked(Kinds(s), View(s), Q)
  BY ClaimedEnters
<1> HIDE DEF K, T, k
<1> DEFINE K2 == Kinds(s)
           T2 == View(s)
<1>15. K2[i] = type /\ \A j \in Inodes \ {i} : K2[j] = K[j]
  BY <1>2, <1>4, <1>11
<1>16. /\ T2[d][k] = [name |-> name, inode |-> i]
       /\ \A e \in R, r \in Slots : ~(e = d /\ r = k) => T2[e][r] = T[e][r]
  BY <1>6, <1>10, <1>12 DEF T
<1>17. type = "dir" => \A r \in Slots : ~InUse(T2, i, r)
  BY <1>13 DEF InUse
<1>18. /\ ~InUse(T, d, k)
       /\ \A r \in Slots : InUse(T, d, r) /\ T[d][r].name = name => K[T[d][r].inode] # type
  BY <1>3 DEF Missing, InUse, T, K
<1> HIDE DEF K2, T2
<1>19. Adds(K, T, K2, T2, R, d, k, name, i, type)
  BY <1>3, <1>4, <1>15, <1>16, <1>17, <1>18 DEF Adds
<1> QED BY <1>10, <1>11, <1>14, <1>19 DEF K, T, K2, T2, k

\* What only touches other blocks than the tables does not matter.
LEMMA AddsOn ==
    ASSUME NEW K, NEW T, NEW K2, NEW T2, NEW R, NEW d, NEW s, NEW name, NEW i, NEW type,
           Adds(K, T, K2, T2, R, d, s, name, i, type),
           NEW T3, \A e \in R : T3[e] = T2[e], type = "dir" => T3[i] = T2[i]
    PROVE  Adds(K, T, K2, T3, R, d, s, name, i, type)
BY DEF Adds, InUse


-----------------------------------------------------------------------------
(* One change: what a call may do to the tree.  i is what it is done to.   *)

Same(st, s) ==
    /\ Stays(Kinds(st), View(st), Kinds(s), View(s), Reached(Kinds(st), View(st)))
    /\ Kinds(s) = Kinds(st)
Gains(st, s, d, name, i, type) ==
    \E k \in Slots : Adds(Kinds(st), View(st), Kinds(s), View(s),
                          Reached(Kinds(st), View(st)), d, k, name, i, type)
Loses(st, s, i) ==
    \E d \in Inodes, k \in Slots :
        Drops(Kinds(st), View(st), Kinds(s), View(s), Reached(Kinds(st), View(st)), d, k, i)
Moving(st, s, i) ==
    \E d, e \in Inodes, k, r \in Slots, name \in Names :
        Moves(Kinds(st), View(st), Kinds(s), View(s),
              Reached(Kinds(st), View(st)), d, k, e, r, name, i)

One(st, s, i) ==
    \/ Same(st, s) /\ (i \in FileSet(Kinds(st), View(st)) => Intact(s, i))
    \/ (\E d \in Inodes, name \in Names : Gains(st, s, d, name, i, "file")) /\ Intact(s, i)
    \/ \E d \in Inodes, name \in Names : Gains(st, s, d, name, i, "dir")
    \/ Loses(st, s, i)

\* A call harms no file but those of X, wherever it is cut.
Touches(st, r, X) == Spares(st, r.final, X) /\ \A s \in r.cuts : Spares(st, s, X)

\* What an orderly state has.
LEMMA OrderlyHas ==
    ASSUME NEW st \in Orderly
    PROVE  /\ st \in Tidy /\ st \in FsStates /\ st.sb
           /\ Kinds(st) \in [Inodes -> Kind] /\ View(st) \in Views
           /\ Linked(Kinds(st), View(st), Reached(Kinds(st), View(st)))
           /\ Reached(Kinds(st), View(st)) \subseteq Inodes
<1>1. st \in Tidy /\ st \in FsStates /\ st.sb
  BY DEF Orderly, Tidy
<1>2. Kinds(st) \in [Inodes -> Kind] /\ View(st) \in Views
  BY <1>1, ViewTypes
<1>3. PICK R : Linked(Kinds(st), View(st), R)
  BY DEF Orderly
<1>4. Linked(Kinds(st), View(st), Reached(Kinds(st), View(st)))
  BY <1>2, <1>3, ReachedLinked
<1>5. Reached(Kinds(st), View(st)) \subseteq Inodes
  BY <1>2, ReachedClosed
<1> QED BY <1>1, <1>2, <1>4, <1>5

\* A file that was intact is, if the change has spared it.
LEMMA SparedIntact ==
    ASSUME NEW st, NEW s, NEW X, Spares(st, s, X), NEW j \in Inodes \ X,
           st.inodes[j].type = "file", Intact(st, j)
    PROVE  Intact(s, j) /\ s.inodes[j] = st.inodes[j]
           /\ s.blocks[st.inodes[j].block].text = st.blocks[st.inodes[j].block].text
BY DEF Spares, Intact

\* What is moved is a file or a directory.
LEMMA MovesKind ==
    ASSUME NEW K \in [Inodes -> Kind], NEW T \in Views, NEW R, Linked(K, T, R),
           NEW K2, NEW T2, NEW d, NEW s, NEW e, NEW r, NEW name, NEW i,
           Moves(K, T, K2, T2, R, d, s, e, r, name, i)
    PROVE  d \in R /\ e \in R /\ i \in Inodes /\ K[i] \in {"file", "dir"}
<1>1. d \in R /\ e \in R /\ s \in Slots /\ InUse(T, d, s) /\ i = T[d][s].inode
  BY DEF Moves
<1>2. d \in Inodes /\ K[i] # "none"
  BY <1>1 DEF Linked, Refers
<1>3. i \in Inodes
  BY <1>1, <1>2 DEF Views, Tables, Entries
<1>4. K[i] \in Kind
  BY <1>3
<1> QED BY <1>1, <1>2, <1>3, <1>4 DEF Kind

LEMMA NeatOn ==
    ASSUME NEW st \in Neat, NEW s \in Orderly, NEW i, Spares(st, s, {i}),
           One(st, s, i) \/ (Moving(st, s, i) /\ Spares(st, s, {}))
    PROVE  s \in Neat
<1> DEFINE K == Kinds(st)
           T == View(st)
           R == Reached(K, T)
           K2 == Kinds(s)
           T2 == View(s)
           F == FileSet(K, T)
           G == FileSet(K2, T2)
<1>1. st \in Orderly /\ \A j \in F : Intact(st, j)
  BY DEF Neat
<1>2. T \in Views /\ Linked(K, T, R) /\ T2 \in Views /\ K \in [Inodes -> Kind]
  BY <1>1, OrderlyHas
<1>3. \A j \in F : j \in Inodes /\ st.inodes[j].type = "file"
  <2>1. \A j \in F : j \in Inodes \ {0} /\ K[j] = "file"
    BY <1>2, FileSetIs
  <2> QED BY <2>1 DEF Kinds
<1>4. ASSUME NEW X, Spares(st, s, X), NEW j \in F \ X PROVE Intact(s, j)
  BY <1>1, <1>3, <1>4, SparedIntact
<1>5. (\A j \in G : Intact(s, j)) => s \in Neat
  BY DEF Neat
<1>6. CASE Same(st, s) /\ (i \in F => Intact(s, i))
  <2>1. G = F
    BY <1>2, <1>6, StaysSets DEF Same
  <2> HIDE DEF F, G
  <2> QED BY <1>4, <1>5, <1>6, <2>1
<1>7. ASSUME NEW d \in Inodes, NEW name \in Names, Gains(st, s, d, name, i, "file"), Intact(s, i)
      PROVE  s \in Neat
  <2>1. PICK k \in Slots : Adds(K, T, K2, T2, R, d, k, name, i, "file")
    BY <1>7 DEF Gains
  <2>2. d \in R
    BY <2>1 DEF Adds
  <2> DEFINE type == "file"
  <2>3. Adds(K, T, K2, T2, R, d, k, name, i, type)
    BY <2>1
  <2> HIDE DEF type
  <2>4. G = F \union (IF type = "file" THEN {i} ELSE {})
    BY <1>2, <2>2, <2>3, AddsSets
  <2> HIDE DEF F, G
  <2> QED BY <1>4, <1>5, <1>7, <2>4 DEF type
<1>8. ASSUME NEW d \in Inodes, NEW name \in Names, Gains(st, s, d, name, i, "dir")
      PROVE  s \in Neat
  <2>1. PICK k \in Slots : Adds(K, T, K2, T2, R, d, k, name, i, "dir")
    BY <1>8 DEF Gains
  <2>2. d \in R /\ K[i] = "none"
    BY <2>1 DEF Adds
  <2> DEFINE type == "dir"
  <2>3. Adds(K, T, K2, T2, R, d, k, name, i, type)
    BY <2>1
  <2> HIDE DEF type
  <2>4. G = F \union (IF type = "file" THEN {i} ELSE {})
    BY <1>2, <2>2, <2>3, AddsSets
  <2>5. i \notin F
    BY <1>2, <2>2, FileSetIs
  <2> HIDE DEF F, G
  <2> QED BY <1>4, <1>5, <2>4, <2>5 DEF type
<1>9. CASE Loses(st, s, i)
  <2>1. PICK d \in Inodes, k \in Slots : Drops(K, T, K2, T2, R, d, k, i)
    BY <1>9 DEF Loses
  <2>2. G = F \ {i}
    BY <1>2, <2>1, DropsSets
  <2> HIDE DEF F, G
  <2> QED BY <1>4, <1>5, <2>2
<1>10. CASE Moving(st, s, i) /\ Spares(st, s, {})
  <2>1. PICK d \in Inodes, e \in Inodes, k \in Slots, r \in Slots, name \in Names :
          Moves(K, T, K2, T2, R, d, k, e, r, name, i)
    BY <1>10 DEF Moving
  <2>2. d \in R /\ e \in R /\ K[i] \in {"file", "dir"}
    BY <1>2, <2>1, MovesKind
  <2>3. PICK x \in DirsOf(K, T), z \in DirsOf(K, T) : x.inode = d /\ z.inode = e
    BY <2>2 DEF Reached
  <2>4. G \subseteq F
    BY <1>2, <2>1, <2>2, <2>3, MovesSets
  <2> HIDE DEF F, G
  <2> QED BY <1>4, <1>5, <1>10, <2>4
<1> QED BY <1>6, <1>7, <1>8, <1>9, <1>10 DEF One

LEMMA FlushIs ==
    ASSUME NEW s \in Tidy, s.sb
    PROVE  Flush(s).inodes = s.inodes /\ Flush(s).dinodes = s.inodes /\ Flush(s).blocks = s.blocks
<1>1. s \in FsStates
  BY DEF Tidy
<1>2. /\ flush_bitmap(s) = [s EXCEPT !.dbitmap = s.bitmap] /\ flush_bitmap(s).sb
      /\ Flush(s) = [flush_bitmap(s) EXCEPT !.dinodes = flush_bitmap(s).inodes]
      /\ flush_bitmap(s).inodes = s.inodes
  BY <1>1 DEF flush_bitmap, flush_inodes, Flush, FsStates
<1> QED BY <1>1, <1>2 DEF FsStates

LEMMA FlushIntact ==
    ASSUME NEW s \in Tidy, s.sb, NEW i,
           \/ s.inodes[i].size = 0
           \/ s.inodes[i].size = LengthOf[s.blocks[s.inodes[i].block].text]
    PROVE  Intact(Flush(s), i)
BY FlushIs DEF Intact

LEMMA TouchesFlush ==
    ASSUME NEW st, NEW s \in Tidy, s.sb, NEW X, Spares(st, s, X),
           NEW cuts, \A c \in cuts : Spares(st, c, X)
    PROVE  /\ Touches(st, FlushAndReturn(s, cuts), X)
           /\ FlushAndReturn(s, cuts).final = Flush(s)
           /\ Kinds(Flush(s)) = Kinds(s) /\ View(Flush(s)) = View(s)
           /\ \A i : Intact(Flush(s), i) <=>
                \/ s.inodes[i].size = 0
                \/ s.inodes[i].size = LengthOf[s.blocks[s.inodes[i].block].text]
<1>1. Spares(s, Flush(s), X) /\ \A c \in FlushCuts(s) : Spares(s, c, X)
  BY SparesFlush
<1>2. Spares(st, Flush(s), X) /\ \A c \in FlushCuts(s) : Spares(st, c, X)
  BY <1>1, SparesOn
<1>3. /\ FlushAndReturn(s, cuts).final = Flush(s)
      /\ FlushAndReturn(s, cuts).cuts = cuts \union {s} \union FlushCuts(s)
  BY DEF FlushAndReturn, Outcome
<1>4. Touches(st, FlushAndReturn(s, cuts), X)
  BY <1>2, <1>3 DEF Touches
<1>5. Kinds(Flush(s)) = Kinds(s) /\ View(Flush(s)) = View(s)
  BY FlushView
<1>6. Flush(s).inodes = s.inodes /\ Flush(s).dinodes = s.inodes /\ Flush(s).blocks = s.blocks
  BY FlushIs
<1> QED BY <1>3, <1>4, <1>5, <1>6 DEF Intact

\* A call that does nothing.
LEMMA NothingDone ==
    ASSUME NEW st \in Orderly, NEW X
    PROVE  One(st, st, 0) /\ Touches(st, Refuse(st), X) /\ Refuse(st).final = st
           /\ Touches(st, Outcome(TRUE, st, {st}), X)
<1>1. Linked(Kinds(st), View(st), Reached(Kinds(st), View(st))) /\ View(st) \in Views
  BY OrderlyHas
<1>2. Same(st, st)
  BY DEF Same, Stays
<1>3. 0 \notin FileSet(Kinds(st), View(st))
  BY <1>1, FileSetIs
<1>4. Spares(st, st, X)
  BY SparesSelf
<1> QED BY <1>2, <1>3, <1>4 DEF One, Touches, Refuse, Outcome

LEMMA MakeDirDoes ==
    ASSUME NEW st \in Orderly, NEW d \in Reached(Kinds(st), View(st)), NEW name \in Names
    PROVE  \E i \in Inodes : /\ One(st, MakeDirIn(st, d, name).final, i)
                             /\ Touches(st, MakeDirIn(st, d, name), {i})
<1> DEFINE R == Reached(Kinds(st), View(st))
           t == load_dir_block(st, d)
           i == alloc_inode_raw(st)
           b == alloc_block_raw(st)
           s1 == Claim(st, i, b, "dir", 0)
           s2 == disk_write_lba(s1, b, ZeroBlock)
           w == WithEntry(t, name, i)
           s3 == write_dir_block(s2, d, w)
           room == /\ i # 0 /\ b # 0
                   /\ find_dir_entry(t, st.inodes, name, "dir") = 0
                   /\ free_slot(t) # 0
<1>1. /\ st \in Tidy /\ st \in FsStates /\ st.sb /\ Kinds(st) \in [Inodes -> Kind] /\ View(st) \in Views
      /\ Linked(Kinds(st), View(st), R) /\ R \subseteq Inodes /\ 0 \in Inodes
  BY OrderlyHas, Numbers
<1>2. t = View(st)[d] /\ t \in Tables
  BY <1>1, ViewTypes
<1>3. ASSUME room
      PROVE  i \in Inodes /\ One(st, Flush(s3), i) /\ Touches(st, FlushAndReturn(s3, {st, s1, s2}), {i})
  <2> HIDE DEF t
  <2>1. /\ Claimed(st, s2, R, R \union {i}, i, "dir") /\ \A r \in Slots : ~InUse(View(s2), i, r)
    <3> HIDE DEF R
    <3> QED BY <1>1, <1>3, NewDir
  <2>2. Missing(st, t, name, "dir")
    BY <1>1, <1>2, <1>3, Searches
  <2>3. /\ s1 \in Tidy /\ s1.sb /\ i \in Inodes /\ b \in Blocks
        /\ s1.inodes[i].type = "dir" /\ \A e \in Inodes : e # i => s1.inodes[e].block # b
    BY <1>1, <1>3, Numbers, ClaimView
  <2>4. Spares(st, s1, {i})
    BY <1>1, <1>3, SparesClaim
  <2>5. Spares(s1, s2, {i})
    <3>1. ZeroBlock \in BlockRecords
      BY BlockTypes DEF ZeroBlock, TextBlock
    <3> HIDE DEF i, b, s1
    <3> QED BY <2>3, <3>1, SparesWrite
  <2>6. s2 \in Tidy /\ s2.sb /\ Kinds(s2) = [Kinds(st) EXCEPT ![i] = "dir"] /\ i # 0 /\ Kinds(st)[i] = "none"
    BY <2>1 DEF Claimed
  <2> HIDE DEF i, b, s1, s2
  <2>7. d \in Inodes /\ Kinds(st)[d] = "dir"
    BY <1>1 DEF Linked
  <2>8. Kinds(s2)[d] = "dir"
    BY <1>1, <2>6, <2>7
  <2>9. s2.inodes[d].type = "dir"
    BY <2>7, <2>8 DEF Kinds
  <2>10. w \in Tables
    BY <1>2, <2>3, EntryTypes
  <2> DEFINE type == "dir"
             k == free_slot(t)
  <2>11. Claimed(st, s2, R, R \union {i}, i, type) /\ Missing(st, t, name, type)
    BY <2>1, <2>2
  <2>12. k \in Slots
    BY <1>2, <1>3, FreeSlot
  <2>13. /\ Adds(Kinds(st), View(st), Kinds(s3), View(s3), R, d, k, name, i, type)
         /\ s3 \in Tidy /\ s3.sb
    <3> HIDE DEF type, R
    <3>1. \A r \in Slots : ~InUse(View(s2), i, r)
      BY <2>1
    <3>2. d \in R
      BY DEF R
    <3> QED BY <1>1, <1>2, <1>3, <2>11, <3>1, <3>2, EntersAdds
  <2>14. Spares(s2, s3, {i})
    <3> HIDE DEF w
    <3> QED BY <2>6, <2>7, <2>9, <2>10, SparesDir
  <2>15. Spares(st, s2, {i}) /\ Spares(st, s3, {i})
    BY <2>4, <2>5, <2>14, SparesOn
  <2>16. Spares(st, st, {i})
    BY SparesSelf
  <2> HIDE DEF s3, w, k
  <2>17. /\ Touches(st, FlushAndReturn(s3, {st, s1, s2}), {i})
         /\ Kinds(Flush(s3)) = Kinds(s3) /\ View(Flush(s3)) = View(s3)
    BY <2>4, <2>13, <2>15, <2>16, TouchesFlush
  <2>18. Gains(st, Flush(s3), d, name, i, "dir")
    BY <2>12, <2>13, <2>17 DEF Gains
  <2> QED BY <2>3, <2>7, <2>17, <2>18 DEF One
<1>4. \/ MakeDirIn(st, d, name) = FlushAndReturn(s3, {st, s1, s2}) /\ room
      \/ MakeDirIn(st, d, name) = Refuse(st)
  BY DEF MakeDirIn
<1>5. FlushAndReturn(s3, {st, s1, s2}).final = Flush(s3)
  BY DEF FlushAndReturn, Outcome
<1> HIDE DEF i, s1, s2, s3, room
<1>6. One(st, st, 0) /\ Touches(st, Refuse(st), {0}) /\ Refuse(st).final = st
  BY NothingDone
<1> QED BY <1>1, <1>3, <1>4, <1>5, <1>6

LEMMA MkdirDoes ==
    ASSUME NEW st \in Orderly, NEW path \in PathRecords
    PROVE  \E i \in Inodes : /\ One(st, fs_mkdir_path(st, path).final, i)
                             /\ Touches(st, fs_mkdir_path(st, path), {i})
<1> DEFINE d == DirOf(st, path)
           R == Reached(Kinds(st), View(st))
<1>1. st \in Tidy /\ st.sb /\ Linked(Kinds(st), View(st), R) /\ 0 \in Inodes
  BY OrderlyHas, Numbers
<1>2. Usable(st, d) => d \in R
  <2> HIDE DEF R
  <2> QED BY <1>1, PathsLead
<1>3. path.name # NoName => path.name \in Names
  BY DEF PathRecords
<1> HIDE DEF d
<1>4. \/ fs_mkdir_path(st, path) = Refuse(st)
      \/ /\ fs_mkdir_path(st, path) = MakeDirIn(st, d, path.name)
         /\ Usable(st, d) /\ path.name # NoName
  BY DEF fs_mkdir_path, d
<1>5. One(st, st, 0) /\ Touches(st, Refuse(st), {0}) /\ Refuse(st).final = st
  BY NothingDone
<1>6. Usable(st, d) /\ path.name # NoName =>
        \E i \in Inodes : /\ One(st, MakeDirIn(st, d, path.name).final, i)
                          /\ Touches(st, MakeDirIn(st, d, path.name), {i})
  BY <1>2, <1>3, MakeDirDoes
<1> QED BY <1>1, <1>4, <1>5, <1>6

\* A new file, its data not yet written.
LEMMA FileGained ==
    ASSUME NEW st \in Orderly, NEW d \in Reached(Kinds(st), View(st)), NEW name \in Names,
           NEW size \in Nat, NEW t, t = load_dir_block(st, d),
           find_dir_entry(t, st.inodes, name, "file") = 0, free_slot(t) # 0,
           NEW i, i = alloc_inode_raw(st), NEW b, b = alloc_block_raw(st), i # 0, b # 0,
           NEW s1, s1 = Claim(st, i, b, "file", size),
           NEW s2, s2 = write_dir_block(s1, d, WithEntry(t, name, i))
    PROVE  /\ i \in Inodes /\ b \in Blocks /\ d \in Inodes
           /\ Spares(st, s1, {i}) /\ Spares(st, s2, {i})
           /\ s2 \in Tidy /\ s2.sb
           /\ s2.inodes[i].type = "file" /\ s2.inodes[i].size = size /\ s2.inodes[i].block = b
           /\ s1.inodes[i] = s2.inodes[i]
           /\ \A e \in Inodes : e # i => s2.inodes[e].block # b
           /\ Gains(st, s2, d, name, i, "file")
           /\ \E Q : Linked(Kinds(s2), View(s2), Q) /\ Reached(Kinds(st), View(st)) \subseteq Q
<1> DEFINE R == Reached(Kinds(st), View(st))
           w == WithEntry(t, name, i)
<1>1. /\ st \in Tidy /\ st \in FsStates /\ st.sb /\ Kinds(st) \in [Inodes -> Kind] /\ View(st) \in Views
      /\ Linked(Kinds(st), View(st), R) /\ R \subseteq Inodes
  BY OrderlyHas
<1>2. t = View(st)[d] /\ t \in Tables
  BY <1>1, ViewTypes
<1>3. Claimed(st, s1, R, R, i, "file")
  <2> HIDE DEF R
  <2> QED BY <1>1, NewFile
<1>4. Missing(st, t, name, "file")
  BY <1>1, <1>2, Searches
<1>5. /\ s1 \in Tidy /\ s1.sb /\ i \in Inodes /\ b \in Blocks
      /\ \A e \in Inodes : e # i => s1.inodes[e].block # b
  <2> DEFINE type == "file"
  <2>1. type \in {"file", "dir"} /\ s1 = Claim(st, i, b, type, size)
    OBVIOUS
  <2> HIDE DEF type
  <2> QED BY <1>1, <2>1, ClaimView
<1>6. Spares(st, s1, {i})
  BY <1>1, SparesClaim
<1>60. s1.inodes[i] = [type |-> "file", size |-> size, block |-> b]
  BY <1>1, <1>5 DEF Claim, mark_block_used, FsStates
<1>7. Kinds(s1) = [Kinds(st) EXCEPT ![i] = "file"] /\ Kinds(st)[i] = "none"
  BY <1>3 DEF Claimed
<1>8. d \in Inodes /\ Kinds(st)[d] = "dir"
  BY <1>1 DEF Linked
<1>9. Kinds(s1)[d] = "dir"
  BY <1>1, <1>7, <1>8
<1>10. s1.inodes[d].type = "dir"
  BY <1>8, <1>9 DEF Kinds
<1>11. w \in Tables
  BY <1>2, <1>5, EntryTypes
<1>12. Spares(s1, s2, {i})
  <2> HIDE DEF w
  <2>1. s2 = write_dir_block(s1, d, w)
    BY DEF w
  <2> QED BY <1>5, <1>8, <1>10, <1>11, <2>1, SparesDir
<1>13. Spares(st, s2, {i})
  BY <1>6, <1>12, SparesOn
<1> DEFINE type == "file"
           k == free_slot(t)
<1>14. Claimed(st, s1, R, R, i, type) /\ Missing(st, t, name, type) /\ (type = "dir" => \A r \in Slots : ~InUse(View(s1), i, r))
  BY <1>3, <1>4
<1>15. k \in Slots
  BY <1>2, FreeSlot
<1>16. /\ Adds(Kinds(st), View(st), Kinds(s2), View(s2), R, d, k, name, i, type)
       /\ s2 \in Tidy /\ s2.sb /\ s2.inodes = s1.inodes /\ Linked(Kinds(s2), View(s2), R)
  <2> HIDE DEF type, R
  <2>1. d \in R
    BY DEF R
  <2> QED BY <1>1, <1>2, <1>14, <2>1, EntersAdds
<1> HIDE DEF k
<1>17. Gains(st, s2, d, name, i, "file")
  BY <1>15, <1>16 DEF Gains
<1> QED BY <1>5, <1>6, <1>60, <1>8, <1>13, <1>16, <1>17

\* A file's data is written: only the file is another.
Wrote(u, s, Q, i, b, blk) ==
    /\ s \in Tidy /\ s.sb /\ s.inodes = u.inodes /\ Kinds(s) = Kinds(u)
    /\ \A e \in Q : View(s)[e] = View(u)[e]
    /\ s.blocks[b].text = blk.text
    /\ Spares(u, s, {i})

LEMMA DataWritten ==
    ASSUME NEW u \in Tidy, u.sb, NEW Q, Linked(Kinds(u), View(u), Q),
           NEW i \in Inodes, u.inodes[i].type = "file", NEW b, b = u.inodes[i].block,
           NEW blk \in BlockRecords, NEW s, s = disk_write_lba(u, b, blk)
    PROVE  Wrote(u, s, Q, i, b, blk)
<1>1. u \in FsStates /\ Kinds(u)[i] = "file"
  BY DEF Tidy, Kinds
<1>2. i \notin Q /\ Q \in SUBSET Inodes /\ \A e \in Q : u.inodes[e].type # "none"
  BY <1>1, PathsLead DEF Linked
<1>3. b \in Blocks /\ \A e \in Inodes : u.inodes[e].block = b /\ b # 0 => e \in {i}
  BY OwnBlock
<1>30. \A e \in Inodes : u.inodes[e].type = "file" /\ u.inodes[e].block = b => e \in {i}
  BY OwnBlock
<1>4. Alike(u, s, {i}) /\ s.inodes = u.inodes
  BY <1>3, WriteView
<1>5. s \in Tidy /\ s.sb /\ Kinds(s) = Kinds(u) /\ \A e \in Q : View(s)[e] = View(u)[e]
  BY <1>2, <1>4 DEF Alike
<1>6. s.blocks[b] = blk
  BY <1>1, <1>3, WriteGives
<1>7. Spares(u, s, {i})
  BY <1>3, <1>30, SparesWrite
<1> QED BY <1>4, <1>5, <1>6, <1>7 DEF Wrote

LEMMA GainsOn ==
    ASSUME NEW st, NEW u, NEW d, NEW name, NEW i, Gains(st, u, d, name, i, "file"),
           NEW s, Kinds(s) = Kinds(u), \A e \in Reached(Kinds(st), View(st)) : View(s)[e] = View(u)[e]
    PROVE  Gains(st, s, d, name, i, "file")
<1> DEFINE K == Kinds(st)
           T == View(st)
           R == Reached(K, T)
           K2 == Kinds(u)
           T2 == View(u)
           T3 == View(s)
           type == "file"
<1>1. PICK k \in Slots : Adds(K, T, K2, T2, R, d, k, name, i, type)
  BY DEF Gains
<1>2. Kinds(s) = K2 /\ (\A e \in R : T3[e] = T2[e]) /\ (type = "dir" => T3[i] = T2[i])
  OBVIOUS
<1> HIDE DEF K, T, R, K2, T2, T3, type
<1>3. Adds(K, T, K2, T3, R, d, k, name, i, type)
  BY <1>1, <1>2, AddsOn
<1> QED BY <1>2, <1>3 DEF Gains, K, T, R, T3, type

LEMMA CreateDoes ==
    ASSUME NEW st \in Orderly, NEW name \in Names \union {NoName}
    PROVE  \E i \in Inodes : /\ One(st, fs_create(st, name).final, i)
                             /\ Touches(st, fs_create(st, name), {i})
<1> DEFINE d == 0
           t == load_dir_block(st, d)
           i == alloc_inode_raw(st)
           b == alloc_block_raw(st)
           size == 0
           s1 == Claim(st, i, b, "file", size)
           s2 == write_dir_block(s1, d, WithEntry(t, name, i))
           room == /\ name # NoName /\ i # 0 /\ b # 0
                   /\ find_dir_entry(t, st.inodes, name, "file") = 0
                   /\ free_slot(t) # 0
<1>1. d \in Reached(Kinds(st), View(st)) /\ 0 \in Inodes /\ size \in Nat
  BY OrderlyHas, ReachedClosed, Numbers
<1>2. \/ fs_create(st, name) = FlushAndReturn(s2, {st, s1}) /\ room
      \/ fs_create(st, name) = Refuse(st)
  BY DEF fs_create
<1>3. FlushAndReturn(s2, {st, s1}).final = Flush(s2) /\ size = 0
  BY DEF FlushAndReturn, Outcome
<1> HIDE DEF d, size
<1>4. ASSUME room
      PROVE  i \in Inodes /\ One(st, Flush(s2), i) /\ Touches(st, FlushAndReturn(s2, {st, s1}), {i})
  <2>1. /\ i \in Inodes /\ d \in Inodes
        /\ Spares(st, s1, {i}) /\ Spares(st, s2, {i})
        /\ s2 \in Tidy /\ s2.sb /\ s2.inodes[i].size = 0
        /\ Gains(st, s2, d, name, i, "file")
    <3> HIDE DEF t, i, b, s1, s2
    <3>1. /\ i \in Inodes /\ d \in Inodes
          /\ Spares(st, s1, {i}) /\ Spares(st, s2, {i})
          /\ s2 \in Tidy /\ s2.sb /\ s2.inodes[i].size = size
          /\ Gains(st, s2, d, name, i, "file")
      BY <1>1, <1>4, FileGained DEF t, i, b, s1, s2
    <3> QED BY <1>3, <3>1
  <2>2. Spares(st, st, {i})
    BY SparesSelf
  <2> HIDE DEF i, s1, s2
  <2>3. /\ Touches(st, FlushAndReturn(s2, {st, s1}), {i})
        /\ Kinds(Flush(s2)) = Kinds(s2) /\ View(Flush(s2)) = View(s2)
        /\ Intact(Flush(s2), i)
    BY <2>1, <2>2, TouchesFlush
  <2>4. Gains(st, Flush(s2), d, name, i, "file") /\ name \in Names
    BY <1>4, <2>1, <2>3, GainsOn
  <2> QED BY <2>1, <2>3, <2>4 DEF One
<1> HIDE DEF i, s1, s2, room
<1>5. One(st, st, 0) /\ Touches(st, Refuse(st), {0}) /\ Refuse(st).final = st
  BY NothingDone
<1> QED BY <1>1, <1>2, <1>3, <1>4, <1>5

\* A size and a text that belong together.
Fits(blk, size) == size = 0 \/ size = LengthOf[blk.text]

Resized(st, j, size) == [st EXCEPT !.inodes[j].size = size]

LEMMA FileStored ==
    ASSUME NEW st \in Orderly, NEW d \in Reached(Kinds(st), View(st)), NEW name,
           NEW size \in Nat, NEW blk \in BlockRecords, Fits(blk, size),
           find_dir_entry(load_dir_block(st, d), st.inodes, name, "file") # 0
    PROVE  \E i \in Inodes : /\ One(st, StoreFile(st, d, name, blk, size).final, i)
                             /\ Touches(st, StoreFile(st, d, name, blk, size), {i})
<1> DEFINE t == load_dir_block(st, d)
           f == find_dir_entry(t, st.inodes, name, "file")
           j == t[f].inode
           s1 == Resized(st, j, size)
           s2 == write_dir_block(s1, d, t)
           s3 == disk_write_lba(s2, s1.inodes[j].block, blk)
           cuts == {st, s1, s2}
           r == StoreFile(st, d, name, blk, size)
<1>00. f # 0
  OBVIOUS
<1>0. r = FlushAndReturn(s3, cuts)
  BY <1>00 DEF StoreFile, Resized
<1> DEFINE R == Reached(Kinds(st), View(st))
           b == s2.inodes[j].block
<1>1. /\ st \in Tidy /\ st \in FsStates /\ st.sb /\ Linked(Kinds(st), View(st), R) /\ R \subseteq Inodes
      /\ d \in R /\ d \in Inodes
  BY OrderlyHas
<1>2. t = View(st)[d] /\ t \in Tables
  BY <1>1, ViewTypes DEF t
<1> HIDE DEF R, b, t, s1, s2, s3, cuts, r
<1>3. Found(st, t, name, "file", f)
  BY <1>1, <1>2, Searches DEF f, t
<1> HIDE DEF f
<1>4. j \in Inodes /\ Kinds(st)[j] = "file"
  BY <1>3 DEF Found
<1> HIDE DEF j
<1>5. s1 \in Tidy /\ s1.sb /\ Kinds(s1) = Kinds(st) /\ View(s1) = View(st)
  BY <1>1, <1>4, SizeView DEF Resized, s1
<1>6. Linked(Kinds(s1), View(s1), R) /\ \A e \in R : s1.inodes[e].type = "dir" /\ s1.inodes[e].type # "none"
  <2>1. Linked(Kinds(s1), View(s1), R)
    BY <1>1, <1>5
  <2> QED BY <1>5, <2>1, PathsLead
<1>60. d \in Inodes /\ s1.inodes[d].type = "dir" /\ s1.inodes[d].type # "none" /\ t \in Tables
  BY <1>1, <1>2, <1>6
<1>7. Alike(s1, s2, {d}) /\ s2.inodes = s1.inodes /\ View(s2)[d] = t
  BY <1>5, <1>60, WriteDirView DEF s2
<1>8. s2 \in Tidy /\ s2.sb /\ Kinds(s2) = Kinds(st) /\ \A e \in R : View(s2)[e] = View(st)[e]
  BY <1>1, <1>2, <1>5, <1>6, <1>7 DEF Alike
<1>9. Linked(Kinds(s2), View(s2), R)
  <2> QED BY <1>1, <1>8, SameLinked
<1>10. s2.inodes[j].type = "file" /\ s1.inodes[j].block = b /\ s2.inodes[j].size = size
  <2>1. Kinds(s2)[j] = "file"
    BY <1>4, <1>8
  <2>2. s1.inodes[j].size = size
    BY <1>1, <1>4 DEF FsStates, InodeRecords, Resized, s1
  <2> QED BY <1>4, <1>7, <2>1, <2>2 DEF Kinds, b
<1>11. /\ s3 \in Tidy /\ s3.sb /\ s3.inodes = s2.inodes /\ Kinds(s3) = Kinds(s2)
       /\ \A e \in R : View(s3)[e] = View(s2)[e]
       /\ s3.blocks[b].text = blk.text
       /\ Spares(s2, s3, {j})
  <2>1. b = s2.inodes[j].block /\ s3 = disk_write_lba(s2, b, blk)
    BY <1>10 DEF b, s3
  <2>2. /\ s2 \in Tidy /\ s2.sb /\ Linked(Kinds(s2), View(s2), R)
        /\ j \in Inodes /\ s2.inodes[j].type = "file"
    BY <1>4, <1>8, <1>9, <1>10
  <2>3. Wrote(s2, s3, R, j, b, blk)
    BY <2>1, <2>2, DataWritten
  <2> QED BY <2>3 DEF Wrote
<1>12. Spares(st, s1, {j})
  BY <1>1, <1>4, SparesSize DEF Resized, s1
<1>13. Spares(s1, s2, {j})
  BY <1>5, <1>60, SparesDir DEF s2
<1>14. Spares(st, s2, {j}) /\ Spares(st, s3, {j})
  BY <1>11, <1>12, <1>13, SparesOn
<1>15. Spares(st, st, {j})
  BY SparesSelf
<1>16. \/ s3.inodes[j].size = 0
       \/ s3.inodes[j].size = LengthOf[s3.blocks[s3.inodes[j].block].text]
  BY <1>10, <1>11 DEF Fits, b
<1>17. /\ Touches(st, FlushAndReturn(s3, cuts), {j})
       /\ Kinds(Flush(s3)) = Kinds(s3) /\ View(Flush(s3)) = View(s3)
       /\ Intact(Flush(s3), j) /\ FlushAndReturn(s3, cuts).final = Flush(s3)
  <2>1. \A c \in cuts : Spares(st, c, {j})
    BY <1>12, <1>14, <1>15 DEF cuts
  <2>2. s3 \in Tidy /\ s3.sb /\ Spares(st, s3, {j})
    BY <1>11, <1>14
  <2>3. /\ Touches(st, FlushAndReturn(s3, cuts), {j})
        /\ FlushAndReturn(s3, cuts).final = Flush(s3)
        /\ Kinds(Flush(s3)) = Kinds(s3) /\ View(Flush(s3)) = View(s3)
    BY <2>1, <2>2, TouchesFlush
  <2>4. Intact(Flush(s3), j)
    BY <1>16, <2>2, FlushIntact
  <2> QED BY <2>3, <2>4
<1>18. Same(st, Flush(s3))
  BY <1>8, <1>11, <1>17 DEF Same, Stays, R
<1>19. One(st, Flush(s3), j)
  BY <1>17, <1>18 DEF One
<1> QED BY <1>0, <1>4, <1>17, <1>19 DEF r

\* A file that was not there is made in that directory, or nothing is.
Founds(st, s, d, name, i) == s = st \/ (Gains(st, s, d, name, i, "file") /\ Intact(s, i))

LEMMA StoreDoes ==
    ASSUME NEW st \in Orderly, NEW d \in Reached(Kinds(st), View(st)), NEW name \in Names,
           NEW size \in Nat, NEW blk \in BlockRecords, Fits(blk, size)
    PROVE  \E i \in Inodes :
              /\ One(st, StoreFile(st, d, name, blk, size).final, i)
              /\ Touches(st, StoreFile(st, d, name, blk, size), {i})
              /\ find_dir_entry(load_dir_block(st, d), st.inodes, name, "file") = 0
                    => Founds(st, StoreFile(st, d, name, blk, size).final, d, name, i)
<1> DEFINE t == load_dir_block(st, d)
           f == find_dir_entry(t, st.inodes, name, "file")
           b == alloc_block_raw(st)
           i == alloc_inode_raw(st)
           n1 == Claim(st, i, b, "file", size)
           n2 == write_dir_block(n1, d, WithEntry(t, name, i))
           n3 == disk_write_lba(n2, n1.inodes[i].block, blk)
           room == free_slot(t) # 0 /\ i # 0 /\ b # 0
<1>1. \/ StoreFile(st, d, name, blk, size) = FlushAndReturn(n3, {st, n1, n2}) /\ f = 0 /\ room
      \/ f # 0
      \/ StoreFile(st, d, name, blk, size) = Refuse(st)
  BY DEF StoreFile
<1>2. FlushAndReturn(n3, {st, n1, n2}).final = Flush(n3)
  BY DEF FlushAndReturn, Outcome
<1>3. One(st, st, 0) /\ Touches(st, Refuse(st), {0}) /\ Refuse(st).final = st /\ 0 \in Inodes
  BY NothingDone, Numbers
<1>4. ASSUME f = 0, room
      PROVE  /\ i \in Inodes /\ One(st, Flush(n3), i)
             /\ Touches(st, FlushAndReturn(n3, {st, n1, n2}), {i})
             /\ Founds(st, Flush(n3), d, name, i)
  <2>1. /\ i \in Inodes /\ b \in Blocks /\ d \in Inodes
        /\ Spares(st, n1, {i}) /\ Spares(st, n2, {i})
        /\ n2 \in Tidy /\ n2.sb
        /\ n2.inodes[i].type = "file" /\ n2.inodes[i].size = size /\ n2.inodes[i].block = b
        /\ n1.inodes[i] = n2.inodes[i]
        /\ Gains(st, n2, d, name, i, "file")
        /\ \E Q : Linked(Kinds(n2), View(n2), Q) /\ Reached(Kinds(st), View(st)) \subseteq Q
    <3> HIDE DEF t, f, i, b, n1, n2
    <3> QED BY <1>4, FileGained DEF t, f, i, b, n1, n2
  <2> HIDE DEF t, f, i, b, n1, n2, room
  <2>2. PICK Q : Linked(Kinds(n2), View(n2), Q) /\ Reached(Kinds(st), View(st)) \subseteq Q
    BY <2>1
  <2>3. n2.inodes[i].type = "file" /\ n2.inodes[i].block = b /\ n2.inodes[i].size = size
    BY <2>1
  <2>4. n3 = disk_write_lba(n2, b, blk)
    BY <2>1, <2>3
  <2> HIDE DEF n3
  <2>5. /\ n3 \in Tidy /\ n3.sb /\ n3.inodes = n2.inodes /\ Kinds(n3) = Kinds(n2)
        /\ \A e \in Q : View(n3)[e] = View(n2)[e]
        /\ n3.blocks[b].text = blk.text
        /\ Spares(n2, n3, {i})
    <3>1. Wrote(n2, n3, Q, i, b, blk)
      BY <2>1, <2>2, <2>3, <2>4, DataWritten
    <3> QED BY <3>1 DEF Wrote
  <2>6. Spares(st, n3, {i})
    BY <2>1, <2>5, SparesOn
  <2>7. \/ n3.inodes[i].size = 0
        \/ n3.inodes[i].size = LengthOf[n3.blocks[n3.inodes[i].block].text]
    BY <2>3, <2>5 DEF Fits
  <2> DEFINE cuts == {st, n1, n2}
  <2>8. \A c \in cuts : Spares(st, c, {i})
    BY <2>1, SparesSelf
  <2> HIDE DEF cuts
  <2>9. /\ Touches(st, FlushAndReturn(n3, cuts), {i})
        /\ Kinds(Flush(n3)) = Kinds(n3) /\ View(Flush(n3)) = View(n3)
        /\ Intact(Flush(n3), i)
    BY <2>5, <2>6, <2>7, <2>8, TouchesFlush
  <2>10. Gains(st, Flush(n3), d, name, i, "file")
    BY <2>1, <2>2, <2>5, <2>9, GainsOn
  <2> QED BY <2>1, <2>9, <2>10 DEF One, cuts, Founds
<1>5. CASE f # 0
  <2> HIDE DEF t
  <2> QED BY <1>5, FileStored DEF t
<1>6. CASE StoreFile(st, d, name, blk, size) = Refuse(st)
  BY <1>3, <1>6 DEF Founds
<1> HIDE DEF i, n1, n2, n3, room
<1> QED BY <1>1, <1>2, <1>4, <1>5, <1>6

LEMMA WriteDoes ==
    ASSUME NEW st \in Orderly, NEW path \in PathRecords, NEW text \in Contents
    PROVE  \E i \in Inodes : /\ One(st, fs_write_path(st, path, text).final, i)
                             /\ Touches(st, fs_write_path(st, path, text), {i})
<1> DEFINE d == DirOf(st, path)
           R == Reached(Kinds(st), View(st))
           blk == TextBlock(text)
           size == LengthOf[text]
<1>1. st \in Tidy /\ st.sb /\ Linked(Kinds(st), View(st), R) /\ 0 \in Inodes
  BY OrderlyHas, Numbers
<1>2. Usable(st, d) => d \in R
  <2> HIDE DEF R
  <2> QED BY <1>1, PathsLead
<1>3. path.name # NoName => path.name \in Names
  BY DEF PathRecords
<1>4. blk \in BlockRecords /\ size \in Nat
  BY BlockTypes, LayoutAssumption
<1>40. Fits(blk, size)
  BY DEF Fits, TextBlock
<1> HIDE DEF d, blk, size
<1>5. \/ fs_write_path(st, path, text) = Refuse(st)
      \/ /\ fs_write_path(st, path, text) = StoreFile(st, d, path.name, blk, size)
         /\ Usable(st, d) /\ path.name # NoName
  BY DEF fs_write_path, d, blk, size
<1>6. Usable(st, d) /\ path.name # NoName =>
        \E i \in Inodes : /\ One(st, StoreFile(st, d, path.name, blk, size).final, i)
                          /\ Touches(st, StoreFile(st, d, path.name, blk, size), {i})
  BY <1>2, <1>3, <1>4, <1>40, StoreDoes
<1>7. One(st, st, 0) /\ Touches(st, Refuse(st), {0}) /\ Refuse(st).final = st
  BY NothingDone
<1> QED BY <1>1, <1>5, <1>6, <1>7

\* A file that a path names is a file of the tree.
LEMMA FileAtIn ==
    ASSUME NEW st \in Orderly, NEW path, FileAt(st, path) # 0
    PROVE  FileAt(st, path) \in FileSet(Kinds(st), View(st))
<1> DEFINE d == DirOf(st, path)
           R == Reached(Kinds(st), View(st))
           t == load_dir_block(st, d)
           s == find_dir_entry(t, st.inodes, path.name, "file")
<1>1. /\ st \in Tidy /\ st \in FsStates /\ st.sb /\ View(st) \in Views
      /\ Linked(Kinds(st), View(st), R) /\ R \subseteq Inodes
  BY OrderlyHas
<1>2. Usable(st, d) /\ s # 0 /\ FileAt(st, path) = t[s].inode
  BY DEF FileAt
<1>3. d \in R
  <2> HIDE DEF R, d
  <2> QED BY <1>1, <1>2, PathsLead DEF d
<1>4. t = View(st)[d] /\ t \in Tables
  <2> HIDE DEF d
  <2> QED BY <1>1, <1>3, ViewTypes
<1> HIDE DEF t, d
<1>5. Found(st, t, path.name, "file", s)
  BY <1>1, <1>2, <1>4, Searches
<1> HIDE DEF s
<1>6. s \in Slots /\ Leads(Kinds(st), View(st), d, s, "file")
  BY <1>4, <1>5 DEF Found, Leads, InUse
<1> QED BY <1>1, <1>2, <1>3, <1>4, <1>6, FileSetIs

LEMMA CopyDoes ==
    ASSUME NEW st \in Neat, NEW src \in PathRecords, NEW dst \in PathRecords
    PROVE  \E i \in Inodes : /\ One(st, fs_copy_path(st, src, dst).final, i)
                             /\ Touches(st, fs_copy_path(st, src, dst), {i})
<1> DEFINE i == FileAt(st, src)
           to == Into(st, src, dst)
           R == Reached(Kinds(st), View(st))
           blk == st.blocks[st.inodes[i].block]
           size == st.inodes[i].size
<1>0. st \in Orderly /\ \A j \in FileSet(Kinds(st), View(st)) : Intact(st, j)
  BY DEF Neat
<1>1. /\ st \in Tidy /\ st \in FsStates /\ st.sb /\ Linked(Kinds(st), View(st), R) /\ 0 \in Inodes
  BY <1>0, OrderlyHas, Numbers
<1>2. i \in Inodes
  BY <1>1, FileAtType
<1>3. blk \in BlockRecords /\ size \in Nat
  <2> HIDE DEF i
  <2> QED BY <1>1, <1>2 DEF FsStates, InodeRecords
<1>4. /\ Usable(st, to.dir) => to.dir \in R
      /\ to.name # NoName => to.name \in Names
  <2> HIDE DEF R
  <2> QED BY <1>1, PathsLead, PathTypes
<1>40. i # 0 => Fits(blk, size)
  <2>1. i # 0 => Intact(st, i)
    BY <1>0, FileAtIn
  <2> QED BY <2>1 DEF Intact, Fits
<1> HIDE DEF i, to, blk, size
<1>5. \/ fs_copy_path(st, src, dst) = Refuse(st)
      \/ /\ fs_copy_path(st, src, dst) = StoreFile(st, to.dir, to.name, blk, size)
         /\ Usable(st, to.dir) /\ to.name # NoName /\ i # 0
  BY DEF fs_copy_path, i, to, blk, size
<1>6. Usable(st, to.dir) /\ to.name # NoName /\ i # 0 =>
        \E j \in Inodes : /\ One(st, StoreFile(st, to.dir, to.name, blk, size).final, j)
                          /\ Touches(st, StoreFile(st, to.dir, to.name, blk, size), {j})
  BY <1>0, <1>3, <1>4, <1>40, StoreDoes
<1>7. One(st, st, 0) /\ Touches(st, Refuse(st), {0}) /\ Refuse(st).final = st
  BY <1>0, NothingDone
<1> QED BY <1>1, <1>5, <1>6, <1>7

LEMMA RemoveEntryDoes ==
    ASSUME NEW st \in Orderly, NEW d \in Reached(Kinds(st), View(st)), NEW name
    PROVE  \E i \in Inodes : /\ One(st, remove_entry_from_dir(st, d, name).final, i)
                             /\ Touches(st, remove_entry_from_dir(st, d, name), {i})
<1> DEFINE t == load_dir_block(st, d)
           s == find_dir_entry(t, st.inodes, name, "file")
           i == t[s].inode
           freed == Released(st, i)
           u == freed.final
           cuts == freed.cuts \union {u}
           w == Unlinked(t, s)
           v == write_dir_block(u, d, w)
           K == Kinds(st)
           T == View(st)
           R == Reached(K, T)
           X == {i}
<1>1. /\ st \in FsStates /\ st \in Tidy /\ st.sb /\ R \subseteq Inodes /\ Linked(K, T, R)
      /\ T \in Views /\ K \in [Inodes -> Kind] /\ 0 \in Inodes
  BY OrderlyHas, Numbers
<1>2. d \in R /\ d \in Inodes
  BY <1>1
<1> HIDE DEF R
<1>3. t = T[d] /\ t \in Tables
  BY <1>1, <1>2, ViewTypes
<1>4. \/ remove_entry_from_dir(st, d, name) = FlushAndReturn(v, cuts) /\ s # 0
      \/ remove_entry_from_dir(st, d, name) = Refuse(st)
  BY DEF remove_entry_from_dir
<1> HIDE DEF t
<1>5. ASSUME s # 0
      PROVE  /\ i \in Inodes /\ One(st, FlushAndReturn(v, cuts).final, i)
             /\ Touches(st, FlushAndReturn(v, cuts), X)
  <2>1. Found(st, t, name, "file", s)
    BY <1>1, <1>3, <1>5, Searches
  <2> HIDE DEF s
  <2>2. s \in Slots /\ t[s].name # NoName /\ i \in Inodes /\ K[i] = "file"
    BY <2>1 DEF Found
  <2>3. st.inodes[i].type # "none"
    BY <2>2 DEF Kinds
  <2>4. i \notin R /\ \A e \in R : K[e] # "none" /\ K[e] = "dir" /\ e # i
    BY <1>1, <2>2 DEF Linked
  <2>5. InUse(T, d, s) /\ i = T[d][s].inode
    BY <1>3, <2>2 DEF InUse
  <2>6. Spares(st, u, X) /\ \A c \in freed.cuts : Spares(st, c, X)
    <3> HIDE DEF i
    <3> QED BY <1>1, <2>2, <2>3, SparesFree
  <2>7. \A c \in cuts : Spares(st, c, X)
    BY <2>6
  <2> HIDE DEF i, X
  <2>8. /\ u \in Tidy /\ u.sb
        /\ Kinds(u) = [K EXCEPT ![i] = "none"]
        /\ \A e \in R : View(u)[e] = T[e] /\ u.inodes[e] = st.inodes[e]
    <3>0. u = Released(st, i).final /\ st \in Tidy /\ st.sb
      BY <1>1
    <3> HIDE DEF u, freed, cuts
    <3>1. /\ u \in Tidy /\ u.sb
          /\ Kinds(u) = [K EXCEPT ![i] = "none"]
          /\ \A e \in Inodes : K[e] # "none" /\ e # i => View(u)[e] = T[e] /\ u.inodes[e] = st.inodes[e]
      BY <2>2, <2>3, <3>0, ReleasedView
    <3> QED BY <1>1, <2>4, <3>1
  <2> HIDE DEF u, cuts, freed
  <2>9. Kinds(u)[d] = "dir" /\ u.inodes[d].type = "dir" /\ u.inodes[d].type # "none"
    BY <1>1, <1>2, <2>2, <2>4, <2>8 DEF Kinds
  <2>10. w \in Tables /\ w[s].name = NoName /\ \A r \in Slots : r # s => w[r] = t[r]
    <3>1. 0 \in Inodes /\ NoName \in Names \union {NoName}
      BY Numbers
    <3>2. w \in Tables
      BY <1>3, <3>1, EntryTypes
    <3> QED BY <1>3, <2>2, <3>2 DEF Tables, Unlinked, NoEntry
  <2> HIDE DEF w
  <2>11. Alike(u, v, {d}) /\ View(v)[d] = w
    BY <1>2, <2>8, <2>9, <2>10, WriteDirView
  <2>12. Spares(u, v, X)
    BY <1>2, <2>8, <2>9, <2>10, SparesDir
  <2>13. Spares(st, v, X)
    BY <2>6, <2>12, SparesOn
  <2> HIDE DEF v
  <2>14. /\ v \in Tidy /\ v.sb /\ Kinds(v) = Kinds(u)
         /\ \A e \in R : e # d => View(v)[e] = T[e]
    <3>1. \A e \in R : e \in Inodes /\ u.inodes[e].type # "none"
      BY <1>1, <2>4, <2>8 DEF Kinds
    <3> QED BY <2>8, <2>11, <3>1 DEF Alike
  <2>15. /\ Touches(st, FlushAndReturn(v, cuts), X)
         /\ FlushAndReturn(v, cuts).final = Flush(v)
         /\ Kinds(Flush(v)) = Kinds(v) /\ View(Flush(v)) = View(v)
    BY <2>7, <2>13, <2>14, TouchesFlush
  <2> DEFINE K2 == Kinds(Flush(v))
             T2 == View(Flush(v))
  <2>16. K2[i] = "none" /\ \A j \in Inodes \ {i} : K2[j] = K[j]
    BY <1>1, <2>2, <2>8, <2>14, <2>15
  <2>17. T2[d] = w /\ \A e \in R : e # d => T2[e] = T[e]
    BY <2>11, <2>14, <2>15
  <2> HIDE DEF K2, T2
  <2>18. Drops(K, T, K2, T2, R, d, s, i)
    BY <1>2, <1>3, <2>2, <2>5, <2>10, <2>16, <2>17 DEF Drops
  <2>19. Loses(st, Flush(v), i)
    BY <1>2, <2>2, <2>18 DEF Loses, K2, T2, R
  <2> QED BY <2>2, <2>15, <2>19 DEF One
<1> HIDE DEF s, i, v, cuts
<1>6. One(st, st, 0) /\ Touches(st, Refuse(st), {0}) /\ Refuse(st).final = st
  BY NothingDone
<1> QED BY <1>1, <1>4, <1>5, <1>6 DEF X

LEMMA RemoveDoes ==
    ASSUME NEW st \in Orderly, NEW path \in PathRecords
    PROVE  \E i \in Inodes : /\ One(st, fs_remove_path(st, path).final, i)
                             /\ Touches(st, fs_remove_path(st, path), {i})
<1> DEFINE d == DirOf(st, path)
           R == Reached(Kinds(st), View(st))
<1>1. st \in Tidy /\ st.sb /\ Linked(Kinds(st), View(st), R) /\ 0 \in Inodes
  BY OrderlyHas, Numbers
<1>2. Usable(st, d) => d \in R
  <2> HIDE DEF R
  <2> QED BY <1>1, PathsLead
<1> HIDE DEF d
<1>3. Usable(st, d) =>
        \E i \in Inodes : /\ One(st, remove_entry_from_dir(st, d, path.name).final, i)
                          /\ Touches(st, remove_entry_from_dir(st, d, path.name), {i})
  BY <1>2, RemoveEntryDoes
<1>4. \/ fs_remove_path(st, path) = Refuse(st)
      \/ fs_remove_path(st, path) = remove_entry_from_dir(st, d, path.name) /\ Usable(st, d)
  BY DEF fs_remove_path, d
<1>5. One(st, st, 0) /\ Touches(st, Refuse(st), {0}) /\ Refuse(st).final = st
  BY NothingDone
<1> QED BY <1>1, <1>3, <1>4, <1>5

\* Where fs_rename moves to.
Where(st, src, dst) ==
    IF dst.name = NoName THEN [dir |-> DirOf(st, dst), name |-> src.name] ELSE Into(st, src, dst)
IntoDir(st, dst) == dst.name = NoName \/ (InRoot(dst) /\ SubDir(st, dst.name) # NoDir)

\* s is st with slot k of the source's directory moved there.
Renames(st, s, src, dst, k) ==
    LET d == DirOf(st, src)
        to == Where(st, src, dst)
        i == View(st)[d][k].inode
    IN  /\ d \in Reached(Kinds(st), View(st)) /\ to.dir \in Reached(Kinds(st), View(st))
        /\ k \in Slots /\ src.name # NoName /\ View(st)[d][k].name = src.name
        /\ to.name \in Names
        /\ ~(IntoDir(st, dst) /\ Kinds(st)[i] = "dir" /\ to.dir = i)
        /\ ~(to.dir = d /\ to.name = src.name)
        /\ \E r \in Slots : Moves(Kinds(st), View(st), Kinds(s), View(s),
                                  Reached(Kinds(st), View(st)), d, k, to.dir, r, to.name, i)

LEMMA RenamedMoves ==
    ASSUME NEW st \in Orderly, NEW R, R = Reached(Kinds(st), View(st)),
           NEW d \in R, NEW t, t = View(st)[d], NEW s \in Slots, t[s].name # NoName,
           NEW name \in Names, Missing(st, t, name, Kinds(st)[t[s].inode]),
           NEW u, u = write_dir_block(st, d, [t EXCEPT ![s].name = name])
    PROVE  /\ Moves(Kinds(st), View(st), Kinds(u), View(u), R, d, s, d, s, name, t[s].inode)
           /\ Spares(st, u, {})
<1> DEFINE K == Kinds(st)
           T == View(st)
           w == [t EXCEPT ![s].name = name]
           K2 == Kinds(u)
           T2 == View(u)
<1>1. /\ st \in FsStates /\ st \in Tidy /\ st.sb /\ R \subseteq Inodes /\ T \in Views /\ Linked(K, T, R)
  BY OrderlyHas
<1>2. t \in Tables /\ d \in Inodes
  BY <1>1, ViewTypes
<1>3. w \in Tables
  BY <1>2, EntryTypes
<1>4. /\ w[s] = [name |-> name, inode |-> t[s].inode]
      /\ \A r \in Slots : r # s => w[r] = t[r]
  BY <1>2 DEF Tables, Entries
<1>5. \A e \in R : st.inodes[e].type = "dir" /\ st.inodes[e].type # "none"
  <2>1. Linked(Kinds(st), View(st), R) /\ st \in Tidy /\ st.sb
    BY <1>1
  <2> QED BY <2>1, PathsLead
<1>50. u = write_dir_block(st, d, w)
  OBVIOUS
<1> HIDE DEF w
<1>6. Alike(st, u, {d}) /\ View(u)[d] = w
  BY <1>1, <1>2, <1>3, <1>5, <1>50, WriteDirView
<1>60. Spares(st, u, {})
  BY <1>1, <1>2, <1>3, <1>5, <1>50, SparesDir
<1>7. Kinds(u) = K /\ \A e \in R : e # d => View(u)[e] = T[e]
  BY <1>1, <1>5, <1>6 DEF Alike
<1>8. InUse(T, d, s) /\ T[d] = t
  BY DEF InUse
<1>9. \A r \in Slots : InUse(T, d, r) /\ T[d][r].name = name => K[T[d][r].inode] # K[t[s].inode]
  BY DEF Missing, InUse
<1>10. T2[d] = w /\ (\A j \in Inodes : K2[j] = K[j]) /\ \A e \in R : e # d => T2[e] = T[e]
  BY <1>6, <1>7
<1> HIDE DEF K, T, K2, T2
<1>11. Moves(K, T, K2, T2, R, d, s, d, s, name, t[s].inode)
  BY <1>4, <1>8, <1>9, <1>10 DEF Moves
<1> QED BY <1>11, <1>60 DEF K, T, K2, T2

LEMMA MovedMoves ==
    ASSUME NEW st \in Orderly, NEW R, R = Reached(Kinds(st), View(st)),
           NEW d \in R, NEW t, t = View(st)[d], NEW s \in Slots, t[s].name # NoName,
           NEW i, i = t[s].inode,
           NEW e \in R, e # d, NEW td, td = View(st)[e], free_slot(td) # 0,
           NEW name \in Names, Missing(st, td, name, Kinds(st)[i]),
           NEW u, u = write_dir_block(st, d, Unlinked(t, s)),
           NEW v, v = write_dir_block(u, e, WithEntry(td, name, i))
    PROVE  /\ \E r \in Slots : Moves(Kinds(st), View(st), Kinds(v), View(v), R, d, s, e, r, name, i)
           /\ Spares(st, u, {}) /\ Spares(st, v, {})
<1> DEFINE K == Kinds(st)
           T == View(st)
           w1 == Unlinked(t, s)
           w2 == WithEntry(td, name, i)
           r == free_slot(td)
           K2 == Kinds(v)
           T2 == View(v)
<1>1. /\ st \in FsStates /\ st \in Tidy /\ st.sb /\ R \subseteq Inodes /\ T \in Views /\ Linked(K, T, R)
      /\ 0 \in Inodes
  BY OrderlyHas, Numbers
<1>2. t \in Tables /\ td \in Tables /\ d \in Inodes /\ e \in Inodes
  BY <1>1, ViewTypes
<1>3. i \in Inodes
  BY <1>2 DEF Tables, Entries
<1>4. w1 \in Tables /\ w2 \in Tables
  <2>1. NoName \in Names \union {NoName}
    OBVIOUS
  <2> QED BY <1>1, <1>2, <1>3, <2>1, EntryTypes
<1>5. w1[s].name = NoName /\ \A x \in Slots : x # s => w1[x] = t[x]
  BY <1>2 DEF Tables, Unlinked, NoEntry
<1>6. r \in Slots /\ td[r].name = NoName
  BY <1>2, FreeSlot
<1>7. w2[r] = [name |-> name, inode |-> i] /\ \A x \in Slots : x # r => w2[x] = td[x]
  BY <1>2, <1>6 DEF WithEntry, Tables
<1>8. \A c \in R : st.inodes[c].type = "dir" /\ st.inodes[c].type # "none"
  <2>1. Linked(Kinds(st), View(st), R) /\ st \in Tidy /\ st.sb
    BY <1>1
  <2> QED BY <2>1, PathsLead
<1>9. u = write_dir_block(st, d, w1) /\ v = write_dir_block(u, e, w2)
  OBVIOUS
<1> HIDE DEF w1, w2, r
<1>10. Alike(st, u, {d}) /\ View(u)[d] = w1 /\ u.inodes = st.inodes
  <2>1. st \in Tidy /\ st.sb /\ d \in Inodes /\ st.inodes[d].type # "none" /\ w1 \in Tables
        /\ u = write_dir_block(st, d, w1)
    BY <1>1, <1>2, <1>4, <1>8, <1>9
  <2> QED BY <2>1, WriteDirView, SMTT(30)
<1>11. Spares(st, u, {})
  BY <1>1, <1>2, <1>4, <1>8, <1>9, SparesDir
<1>12. /\ Kinds(u) = K /\ u \in Tidy /\ u.sb
       /\ \A c \in R : c # d => View(u)[c] = T[c]
       /\ \A c \in R : u.inodes[c].type = "dir" /\ u.inodes[c].type # "none"
  BY <1>1, <1>8, <1>10 DEF Alike
<1>13. Alike(u, v, {e}) /\ View(v)[e] = w2
  <2>1. u \in Tidy /\ u.sb /\ e \in Inodes /\ u.inodes[e].type # "none" /\ w2 \in Tables
        /\ v = write_dir_block(u, e, w2)
    BY <1>2, <1>4, <1>9, <1>12
  <2> QED BY <2>1, WriteDirView, SMTT(30)
<1>14. Spares(u, v, {})
  BY <1>2, <1>4, <1>9, <1>12, SparesDir
<1>15. Spares(st, v, {})
  BY <1>11, <1>14, SparesOn
<1>16. Kinds(v) = K /\ View(v)[d] = w1 /\ \A c \in R : c # d /\ c # e => View(v)[c] = T[c]
  BY <1>1, <1>10, <1>12, <1>13 DEF Alike
<1>17. InUse(T, d, s) /\ ~InUse(T, e, r) /\ T[d] = t /\ T[e] = td
  BY <1>6 DEF InUse
<1>18. \A x \in Slots : InUse(T, e, x) /\ T[e][x].name = name => K[T[e][x].inode] # K[i]
  BY DEF Missing, InUse
<1>19. T2[d] = w1 /\ T2[e] = w2 /\ (\A j \in Inodes : K2[j] = K[j]) /\ \A c \in R : c # d /\ c # e => T2[c] = T[c]
  BY <1>13, <1>16
<1> HIDE DEF K, T, K2, T2
<1>20. Moves(K, T, K2, T2, R, d, s, e, r, name, i)
  BY <1>5, <1>6, <1>7, <1>17, <1>18, <1>19 DEF Moves
<1> QED BY <1>6, <1>11, <1>15, <1>20 DEF K, T, K2, T2

LEMMA RenameDoes ==
    ASSUME NEW st \in Orderly, NEW src \in PathRecords, NEW dst \in PathRecords
    PROVE  /\ Touches(st, fs_rename(st, src, dst), {})
           /\ \/ fs_rename(st, src, dst).final = st
              \/ \E k \in Slots : Renames(st, fs_rename(st, src, dst).final, src, dst, k)
<1> DEFINE sd == DirOf(st, src)
           ts == load_dir_block(st, sd)
           s == MovedSlot(ts, st.inodes, src.name)
           i == ts[s].inode
           type == st.inodes[i].type
           to == Where(st, src, dst)
           td == load_dir_block(st, to.dir)
           u == write_dir_block(st, sd, [ts EXCEPT ![s].name = to.name])
           s1 == write_dir_block(st, sd, Unlinked(ts, s))
           s2 == write_dir_block(s1, to.dir, WithEntry(td, to.name, i))
           nothing == \/ IntoDir(st, dst) /\ type = "dir" /\ to.dir = i
                      \/ to.dir = sd /\ to.name = src.name
           goes == /\ src.name # NoName /\ Usable(st, sd) /\ s # 0 /\ Usable(st, to.dir)
                   /\ ~nothing
                   /\ find_dir_entry(td, st.inodes, to.name, type) = 0
           R == Reached(Kinds(st), View(st))
<1>1. /\ st \in Tidy /\ st.sb /\ st \in FsStates /\ R \subseteq Inodes
      /\ Linked(Kinds(st), View(st), R) /\ View(st) \in Views
  BY OrderlyHas
<1>2. /\ Usable(st, sd) => sd \in R
      /\ Usable(st, to.dir) => to.dir \in R
  <2> HIDE DEF R
  <2> QED BY <1>1, PathsLead DEF Where
<1>3. src.name # NoName => to.name \in Names
  <2>1. /\ src.name \in Names \union {NoName} /\ dst.name \in Names \union {NoName}
    BY DEF PathRecords
  <2> QED BY <2>1 DEF Into, Where
<1>4. \/ fs_rename(st, src, dst) = Refuse(st)
      \/ fs_rename(st, src, dst) = Outcome(TRUE, st, {st})
      \/ fs_rename(st, src, dst) = Outcome(TRUE, u, {st, u}) /\ goes /\ to.dir = sd
      \/ fs_rename(st, src, dst) = Outcome(TRUE, s2, {st, s1, s2}) /\ goes /\ to.dir # sd /\ free_slot(td) # 0
  <2> DEFINE c1 == src.name = NoName \/ ~Usable(st, sd) \/ s = 0 \/ ~Usable(st, to.dir)
             f == find_dir_entry(td, st.inodes, to.name, type)
             o == fs_rename(st, src, dst)
  <2>1. o = IF c1 THEN Refuse(st)
            ELSE IF nothing THEN Outcome(TRUE, st, {st})
            ELSE IF f # 0 THEN Refuse(st)
            ELSE IF to.dir = sd THEN Outcome(TRUE, u, {st, u})
            ELSE IF free_slot(td) = 0 THEN Refuse(st)
            ELSE Outcome(TRUE, s2, {st, s1, s2})
    BY Zenon DEF fs_rename, Where, IntoDir
  <2>2. goes <=> ~c1 /\ ~nothing /\ f = 0
    OBVIOUS
  <2> HIDE DEF c1, f, o, goes, nothing, u, s1, s2, td, to, sd
  <2>3. \/ o = Refuse(st)
        \/ o = Outcome(TRUE, st, {st})
        \/ o = Outcome(TRUE, u, {st, u}) /\ goes /\ to.dir = sd
        \/ o = Outcome(TRUE, s2, {st, s1, s2}) /\ goes /\ to.dir # sd /\ free_slot(td) # 0
    BY <2>1, <2>2
  <2> QED BY <2>3 DEF o
<1>5. ASSUME goes
      PROVE  /\ ts = View(st)[sd] /\ ts \in Tables /\ td = View(st)[to.dir] /\ td \in Tables
             /\ s \in Slots /\ ts[s].name # NoName /\ ts[s].name = src.name
             /\ i \in Inodes /\ type = Kinds(st)[i]
             /\ Missing(st, td, to.name, Kinds(st)[i])
             /\ sd \in R /\ to.dir \in R
             /\ src.name # NoName /\ to.name \in Names
             /\ ~(IntoDir(st, dst) /\ Kinds(st)[i] = "dir" /\ to.dir = i)
             /\ ~(to.dir = sd /\ to.name = src.name)
  <2>1. sd \in R /\ to.dir \in R
    BY <1>2, <1>5
  <2>10. ~(IntoDir(st, dst) /\ type = "dir" /\ to.dir = i) /\ ~(to.dir = sd /\ to.name = src.name)
         /\ src.name # NoName /\ to.name \in Names
    BY <1>3, <1>5
  <2> HIDE DEF sd, to
  <2>2. ts = View(st)[sd] /\ ts \in Tables /\ td = View(st)[to.dir] /\ td \in Tables
    BY <1>1, <2>1, ViewTypes
  <2> HIDE DEF ts, td
  <2>3. \/ Found(st, ts, src.name, "file", s)
        \/ Found(st, ts, src.name, "dir", s)
    <3> DEFINE f == find_dir_entry(ts, st.inodes, src.name, "file")
               g == find_dir_entry(ts, st.inodes, src.name, "dir")
    <3>1. f # 0 => Found(st, ts, src.name, "file", f)
      BY <1>1, <2>2, Searches
    <3>2. g # 0 => Found(st, ts, src.name, "dir", g)
      BY <1>1, <2>2, Searches
    <3>3. s = IF f # 0 THEN f ELSE g
      BY DEF MovedSlot
    <3> HIDE DEF f, g, s
    <3>4. s # 0
      BY <1>5
    <3> QED BY <3>1, <3>2, <3>3, <3>4
  <2>4. s \in Slots /\ ts[s].name # NoName /\ i \in Inodes /\ ts[s].name = src.name
    BY <2>3 DEF Found
  <2>5. find_dir_entry(td, st.inodes, to.name, type) = 0
    BY <1>5
  <2> HIDE DEF s, i
  <2>6. type = Kinds(st)[i]
    BY <1>1, <2>4, ViewTypes
  <2> HIDE DEF type
  <2>7. Missing(st, td, to.name, type)
    BY <1>1, <2>2, <2>5, Searches
  <2> QED BY <2>1, <2>2, <2>4, <2>6, <2>7, <2>10
<1>6. Spares(st, st, {})
  BY SparesSelf
<1>7. Touches(st, Refuse(st), {}) /\ Refuse(st).final = st /\ Touches(st, Outcome(TRUE, st, {st}), {})
  BY NothingDone
<1> DEFINE Goes2(v) == \E r \in Slots : Moves(Kinds(st), View(st), Kinds(v), View(v), R, sd, s, to.dir, r, to.name, i)
<1> HIDE DEF sd, ts, to, td, type, goes, s, R
<1>8. ASSUME goes, to.dir = sd PROVE Spares(st, u, {}) /\ Goes2(u)
  <2>1. /\ ts = View(st)[sd] /\ s \in Slots /\ ts[s].name # NoName
        /\ Missing(st, ts, to.name, Kinds(st)[ts[s].inode]) /\ sd \in R /\ to.name \in Names
    BY <1>5, <1>8
  <2>2. R = Reached(Kinds(st), View(st)) /\ u = write_dir_block(st, sd, [ts EXCEPT ![s].name = to.name])
    BY DEF R
  <2> DEFINE name == to.name
  <2> HIDE DEF u, name
  <2>3. /\ Moves(Kinds(st), View(st), Kinds(u), View(u), R, sd, s, sd, s, name, ts[s].inode)
        /\ Spares(st, u, {})
    BY <2>1, <2>2, RenamedMoves DEF name
  <2> QED BY <1>8, <2>1, <2>3 DEF name
<1>9. ASSUME goes, to.dir # sd, free_slot(td) # 0
      PROVE  Spares(st, s1, {}) /\ Spares(st, s2, {}) /\ Goes2(s2)
  <2>1. /\ ts = View(st)[sd] /\ s \in Slots /\ ts[s].name # NoName
        /\ td = View(st)[to.dir] /\ to.dir \in R
        /\ Missing(st, td, to.name, Kinds(st)[i]) /\ sd \in R /\ to.name \in Names
    BY <1>5, <1>9
  <2> DEFINE name == to.name
             e == to.dir
  <2>2. /\ R = Reached(Kinds(st), View(st)) /\ i = ts[s].inode
        /\ s1 = write_dir_block(st, sd, Unlinked(ts, s))
        /\ s2 = write_dir_block(s1, e, WithEntry(td, name, i))
    BY DEF R
  <2> HIDE DEF s1, s2, i, name, e
  <2>3. /\ e \in R /\ e # sd /\ td = View(st)[e] /\ name \in Names /\ Missing(st, td, name, Kinds(st)[i])
    BY <1>9, <2>1 DEF name, e
  <2>4. /\ \E r \in Slots : Moves(Kinds(st), View(st), Kinds(s2), View(s2), R, sd, s, e, r, name, i)
        /\ Spares(st, s1, {}) /\ Spares(st, s2, {})
    BY <1>9, <2>1, <2>2, <2>3, MovedMoves
  <2> QED BY <2>4 DEF name, e
<1> HIDE DEF Goes2, u, s1, s2, i
<1>10. ASSUME NEW v, Goes2(v), goes PROVE Renames(st, v, src, dst, s)
  <2>1. \E r \in Slots : Moves(Kinds(st), View(st), Kinds(v), View(v), R, sd, s, to.dir, r, to.name, View(st)[sd][s].inode)
    BY <1>5, <1>10 DEF Goes2, i
  <2> QED BY <1>5, <1>10, <2>1 DEF Renames, sd, to, R, i
<1>11. goes => s \in Slots
  BY <1>5
<1>12. CASE fs_rename(st, src, dst) = Outcome(TRUE, u, {st, u}) /\ goes /\ to.dir = sd
  BY <1>6, <1>8, <1>10, <1>11, <1>12 DEF Touches, Outcome
<1>13. CASE fs_rename(st, src, dst) = Outcome(TRUE, s2, {st, s1, s2}) /\ goes /\ to.dir # sd /\ free_slot(td) # 0
  BY <1>6, <1>9, <1>10, <1>11, <1>13 DEF Touches, Outcome
<1>14. CASE fs_rename(st, src, dst) = Refuse(st) \/ fs_rename(st, src, dst) = Outcome(TRUE, st, {st})
  <2>1. Outcome(TRUE, st, {st}).final = st
    BY DEF Outcome
  <2> QED BY <1>7, <1>14, <2>1
<1> QED BY <1>4, <1>12, <1>13, <1>14

-----------------------------------------------------------------------------
(* passwd: its directory first, then its file.  Either may give up with an *)
(* inode claimed that no entry refers to.                                  *)

Idles(st, s) == Stays(Kinds(st), View(st), Kinds(s), View(s), Reached(Kinds(st), View(st)))

LEMMA IdleNeat ==
    ASSUME NEW st \in Neat, NEW s \in Orderly, NEW i \in Inodes, Spares(st, s, {i}),
           Kinds(st)[i] # "file", Idles(st, s)
    PROVE  s \in Neat
<1> DEFINE K == Kinds(st)
           T == View(st)
           F == FileSet(K, T)
           G == FileSet(Kinds(s), View(s))
<1>1. st \in Orderly /\ \A j \in F : Intact(st, j)
  BY DEF Neat
<1>2. T \in Views /\ Linked(K, T, Reached(K, T)) /\ View(s) \in Views
  BY <1>1, OrderlyHas
<1>3. \A j \in F : j \in Inodes /\ K[j] = "file"
  BY <1>2, FileSetIs
<1>4. \A j \in F : j \in Inodes \ {i} /\ st.inodes[j].type = "file"
  BY <1>3 DEF Kinds
<1>5. G = F
  BY <1>2, StaysSets DEF Idles
<1> HIDE DEF F, G
<1>6. \A j \in G : Intact(s, j)
  BY <1>1, <1>4, <1>5, SparedIntact
<1> QED BY <1>6 DEF Neat, G

\* The root has an entry for directory d under that name.
RootHas(s, name, d) ==
    \E k \in Slots : /\ Leads(Kinds(s), View(s), 0, k, "dir")
                     /\ View(s)[0][k].name = name /\ View(s)[0][k].inode = d

LEMMA RootHasReached ==
    ASSUME NEW s \in Orderly, NEW name, NEW d, RootHas(s, name, d)
    PROVE  d \in Reached(Kinds(s), View(s))
BY OrderlyHas, ReachedClosed DEF RootHas

\* What the first half of write_sys_file does.
SysDirs(st, m, dir, i) ==
    /\ m \in Orderly
    /\ \/ Idles(st, m) /\ (dir = NoDir \/ RootHas(m, "sys", dir))
       \/ Gains(st, m, 0, "sys", i, "dir") /\ dir = i /\ RootHas(m, "sys", i)

LEMMA NewSysDir ==
    ASSUME NEW st \in Orderly, NEW t, t = load_dir_block(st, 0),
           find_dir_entry(t, st.inodes, "sys", "dir") = 0,
           NEW i, i = alloc_inode_raw(st), NEW b, b = alloc_block_raw(st), i # 0, b # 0,
           NEW s1, s1 = Claim(st, i, b, "dir", 0),
           NEW s2, s2 = disk_write_lba(s1, b, ZeroBlock)
    PROVE  /\ i \in Inodes /\ SysDirs(st, s1, NoDir, i)
           /\ Spares(st, s1, {}) /\ Spares(st, s2, {})
           /\ \A s3 : s3 = write_dir_block(s2, 0, WithEntry(t, "sys", i)) /\ free_slot(t) # 0
                => SysDirs(st, s3, i, i) /\ Spares(st, s3, {})
<1> DEFINE R == Reached(Kinds(st), View(st))
           d == 0
           name == "sys"
           w == WithEntry(t, name, i)
           k == free_slot(t)
           type == "dir"
<1>1. /\ st \in Tidy /\ st \in FsStates /\ st.sb /\ Kinds(st) \in [Inodes -> Kind] /\ View(st) \in Views
      /\ Linked(Kinds(st), View(st), R) /\ R \subseteq Inodes /\ d \in Inodes
  BY OrderlyHas, Numbers
<1>2. t = View(st)[d] /\ t \in Tables
  BY <1>1, ViewTypes
<1>3. d \in R /\ name \in Names
  BY <1>1, ReachedClosed DEF Names
<1>4. /\ Claimed(st, s2, R, R \union {i}, i, type) /\ s1 \in Orderly
      /\ \A r \in Slots : ~InUse(View(s2), i, r)
  <2> HIDE DEF R
  <2> QED BY <1>1, NewDir
<1>5. Missing(st, t, name, type)
  BY <1>1, <1>2, Searches
<1>6. /\ s1 \in Tidy /\ s1.sb /\ i \in Inodes /\ b \in Blocks
      /\ s1.inodes[i].type = type /\ \A e \in Inodes : e # i => s1.inodes[e].block # b
      /\ Kinds(s1) = [Kinds(st) EXCEPT ![i] = type]
      /\ \A e \in Inodes : Kinds(st)[e] # "none" => View(s1)[e] = View(st)[e] /\ e # i
  BY <1>1, Numbers, ClaimView
<1>7. Spares(st, s1, {})
  BY <1>1, SparesClaim
<1>8. \A e \in Inodes : s1.inodes[e].type = "file" /\ s1.inodes[e].block = b => e \in {}
  BY <1>6
<1>9. Spares(s1, s2, {})
  <2>1. ZeroBlock \in BlockRecords
    BY BlockTypes DEF ZeroBlock, TextBlock
  <2> QED BY <1>6, <1>8, <2>1, SparesWrite
<1>10. Spares(st, s2, {})
  BY <1>7, <1>9, SparesOn
<1>11. Idles(st, s1)
  BY <1>1, <1>6 DEF Idles, Stays, Linked
<1> HIDE DEF R, d, name, w, k, type
<1>12. ASSUME NEW s3, s3 = write_dir_block(s2, d, w), k # 0
       PROVE  SysDirs(st, s3, i, i) /\ Spares(st, s3, {})
  <2>1. /\ Adds(Kinds(st), View(st), Kinds(s3), View(s3), R, d, k, name, i, type)
        /\ s3 \in Tidy /\ s3.sb /\ Linked(Kinds(s3), View(s3), R \union {i})
    BY <1>1, <1>2, <1>3, <1>4, <1>5, <1>12, EntersAdds DEF w, k
  <2>2. k \in Slots
    BY <1>2, <1>12, FreeSlot DEF k
  <2>3. Gains(st, s3, 0, "sys", i, "dir") /\ s3 \in Orderly
    BY <2>1, <2>2 DEF Gains, Orderly, R, d, name, type
  <2>4. RootHas(s3, "sys", i)
    <3>1. View(s3)[0][k] = [name |-> "sys", inode |-> i] /\ Kinds(s3)[i] = "dir"
      BY <2>1 DEF Adds, d, name, type
    <3>2. "sys" # NoName
      BY DEF NoName
    <3> QED BY <2>2, <3>1, <3>2 DEF RootHas, Leads, InUse
  <2>5. d \in Inodes /\ s2.inodes[d].type = "dir" /\ s2 \in Tidy
    BY <1>1, <1>3, <1>4 DEF Claimed, Linked, Kinds
  <2>6. w \in Tables
    BY <1>2, <1>3, <1>6, EntryTypes DEF w
  <2>7. Spares(s2, s3, {})
    BY <1>12, <2>5, <2>6, SparesDir
  <2> QED BY <1>10, <2>3, <2>4, <2>7, SparesOn DEF SysDirs
<1> QED BY <1>4, <1>6, <1>7, <1>10, <1>11, <1>12 DEF SysDirs, d, name, w, k


LEMMA SysDirDoes ==
    ASSUME NEW st \in Orderly
    PROVE  \E i \in Inodes :
              /\ SysDirs(st, SysDir(st).final, SysDir(st).dir, i)
              /\ Spares(st, SysDir(st).final, {})
              /\ \A c \in SysDir(st).cuts : Spares(st, c, {})
<1> DEFINE t == load_dir_block(st, 0)
           f == find_dir_entry(t, st.inodes, "sys", "dir")
           i == alloc_inode_raw(st)
           b == alloc_block_raw(st)
           s1 == Claim(st, i, b, "dir", 0)
           s2 == disk_write_lba(s1, b, ZeroBlock)
           s3 == write_dir_block(s2, 0, WithEntry(t, "sys", i))
           same == write_dir_block(st, 0, t)
           j == t[f].inode
           R == Reached(Kinds(st), View(st))
           Done(dir, s, cuts) == \E e \in Inodes :
              SysDirs(st, s, dir, e) /\ Spares(st, s, {}) /\ \A c \in cuts : Spares(st, c, {})
<1>1. /\ st \in Tidy /\ st \in FsStates /\ st.sb /\ View(st) \in Views
      /\ Linked(Kinds(st), View(st), R) /\ R \subseteq Inodes /\ 0 \in Inodes
  BY OrderlyHas, Numbers
<1>2. t = View(st)[0] /\ t \in Tables /\ 0 \in R
  BY <1>1, ViewTypes, ReachedClosed
<1>3. Spares(st, st, {})
  BY SparesSelf
<1>4. Idles(st, st)
  BY DEF Idles, Stays
<1>5. \/ SysDir(st).dir = j /\ SysDir(st).final = same /\ SysDir(st).cuts = {st, same} /\ f # 0
      \/ SysDir(st).dir = NoDir /\ SysDir(st).final = st /\ SysDir(st).cuts = {st}
      \/ /\ SysDir(st).dir = NoDir /\ SysDir(st).final = s1 /\ SysDir(st).cuts = {st, s1}
         /\ f = 0 /\ i # 0 /\ b # 0
      \/ /\ SysDir(st).dir = i /\ SysDir(st).final = s3 /\ SysDir(st).cuts = {st, s1, s2, s3}
         /\ f = 0 /\ i # 0 /\ b # 0 /\ free_slot(t) # 0
  BY DEF SysDir
<1>6. Done(NoDir, st, {st})
  BY <1>1, <1>3, <1>4 DEF SysDirs
<1>7. ASSUME f # 0 PROVE Done(j, same, {st, same})
  <2> HIDE DEF t, R
  <2>1. Found(st, t, "sys", "dir", f)
    BY <1>1, <1>2, <1>7, Searches
  <2> HIDE DEF f
  <2> DEFINE d == 0
  <2>2. /\ same \in Tidy /\ same.sb /\ same.inodes = st.inodes /\ Kinds(same) = Kinds(st)
        /\ Linked(Kinds(same), View(same), R)
    BY <1>1, <1>2, RewrittenLinked
  <2>3. Alike(st, same, {d}) /\ View(same)[d] = t
    <3>1. d \in Inodes /\ st.inodes[d].type # "none" /\ same = write_dir_block(st, d, t)
      BY <1>1, <1>2 DEF Linked, Kinds
    <3> HIDE DEF d, same
    <3> QED BY <1>1, <1>2, <3>1, WriteDirView
  <2>4. \A e \in R : View(same)[e] = View(st)[e]
    BY <1>1, <1>2, <2>3 DEF Alike, Linked, Kinds
  <2>5. Spares(st, same, {})
    <3>1. st.inodes[0].type = "dir"
      BY <1>1, <1>2 DEF Linked, Kinds
    <3> QED BY <1>1, <1>2, <3>1, SparesDir
  <2> HIDE DEF same
  <2>6. Idles(st, same)
    BY <2>2, <2>4 DEF Idles, Stays, R
  <2>7. RootHas(same, "sys", j)
    BY <2>1, <2>2, <2>3 DEF Found, RootHas, Leads, InUse
  <2>8. same \in Orderly
    BY <2>2 DEF Orderly
  <2> QED BY <1>1, <1>3, <2>5, <2>6, <2>7, <2>8 DEF SysDirs
<1>8. ASSUME f = 0, i # 0, b # 0
      PROVE  /\ i \in Inodes /\ SysDirs(st, s1, NoDir, i)
             /\ Spares(st, s1, {}) /\ Spares(st, s2, {})
             /\ free_slot(t) # 0 => SysDirs(st, s3, i, i) /\ Spares(st, s3, {})
  <2> HIDE DEF t, i, b, s1, s2, s3
  <2> QED BY <1>8, NewSysDir DEF t, i, b, s1, s2, s3, f
<1> HIDE DEF f, i, b, s1, s2, s3, same, j, t
<1>9. ASSUME f = 0, i # 0, b # 0 PROVE Done(NoDir, s1, {st, s1})
  BY <1>3, <1>8, <1>9
<1>10. ASSUME f = 0, i # 0, b # 0, free_slot(t) # 0 PROVE Done(i, s3, {st, s1, s2, s3})
  BY <1>3, <1>8, <1>10
<1> HIDE DEF Done
<1>11. Done(SysDir(st).dir, SysDir(st).final, SysDir(st).cuts)
  BY <1>5, <1>6, <1>7, <1>9, <1>10
<1> QED BY <1>11 DEF Done


\* What the second half does: it stores a file, or gives up with or without an
\* inode claimed.
Stored(m, s, i) == One(m, s, i) \/ (Idles(m, s) /\ Kinds(m)[i] = "none")

\* In a directory that has no such file it makes one, or nothing.
FoundsSys(m, s, d, name, i) ==
    find_dir_entry(load_dir_block(m, d), m.inodes, name, "file") = 0
        => (Idles(m, s) /\ Kinds(m)[i] = "none") \/ Founds(m, s, d, name, i)

LEMMA SysFileDoes ==
    ASSUME NEW st \in Orderly, NEW name \in Names, NEW text \in Contents
    PROVE  \E i \in Inodes :
              /\ Stored(SysDir(st).final, write_sys_file(st, name, text).final, i)
              /\ Spares(SysDir(st).final, write_sys_file(st, name, text).final, {i})
              /\ Touches(st, write_sys_file(st, name, text), {i})
              /\ FoundsSys(SysDir(st).final, write_sys_file(st, name, text).final,
                           SysDir(st).dir, name, i)
<1> DEFINE sys == SysDir(st)
           m == sys.final
           d == sys.dir
           t == load_dir_block(m, d)
           f == find_dir_entry(t, m.inodes, name, "file")
           i == alloc_inode_raw(m)
           b == alloc_block_raw(m)
           size == LengthOf[text]
           blk == TextBlock(text)
           s2 == Claim(m, i, b, "file", size)
           stored == StoreFile(m, d, name, blk, size)
           r == SysFileIn(sys, name, text)
           Ends(k) == /\ Stored(m, r.final, k) /\ Spares(m, r.final, {k}) /\ Touches(st, r, {k})
                      /\ FoundsSys(m, r.final, d, name, k)
<1>1. PICK j \in Inodes : /\ SysDirs(st, m, d, j) /\ Spares(st, m, {})
                          /\ \A c \in sys.cuts : Spares(st, c, {})
  BY SysDirDoes
<1>2. m \in Orderly /\ (d = NoDir \/ d \in Reached(Kinds(m), View(m)))
  BY <1>1, RootHasReached DEF SysDirs
<1>3. blk \in BlockRecords /\ size \in Nat /\ Fits(blk, size)
  BY BlockTypes, LayoutAssumption DEF Fits, TextBlock
<1>4. /\ m \in Tidy /\ m.sb /\ Linked(Kinds(m), View(m), Reached(Kinds(m), View(m)))
      /\ Kinds(m) \in [Inodes -> Kind] /\ m \in FsStates
  BY <1>2, OrderlyHas
<1>5. \/ r.final = m /\ r.cuts = sys.cuts
      \/ r.final = s2 /\ r.cuts = sys.cuts \union {s2} /\ i # 0 /\ b # 0
      \/ r.final = stored.final /\ r.cuts \subseteq sys.cuts \union stored.cuts /\ d # NoDir
  <2> DEFINE new == f = 0
             i0 == IF f # 0 THEN t[f].inode ELSE i
             c1 == d = NoDir \/ (f = 0 /\ (i0 = 0 \/ b = 0))
             q2 == IF f # 0 THEN [m EXCEPT !.inodes[i0].size = size]
                            ELSE Claim(m, i0, b, "file", size)
             q3 == write_dir_block(q2, d, IF f # 0 THEN t ELSE WithEntry(t, name, i0))
             q4 == disk_write_lba(q3, q2.inodes[i0].block, blk)
             i1 == IF new THEN i ELSE t[f].inode
             p2 == IF new THEN Claim(m, i1, b, "file", size)
                          ELSE [m EXCEPT !.inodes[i1].size = size]
             p3 == write_dir_block(p2, d, IF new THEN WithEntry(t, name, i1) ELSE t)
             p4 == disk_write_lba(p3, p2.inodes[i1].block, blk)
  <2>1. r = IF c1 THEN Outcome(FALSE, m, sys.cuts)
            ELSE IF f = 0 /\ free_slot(t) = 0 THEN Outcome(FALSE, q2, sys.cuts \union {q2})
            ELSE FlushAndReturn(q4, sys.cuts \union {q2, q3})
    BY Zenon DEF SysFileIn
  <2>2. stored = IF new => free_slot(t) # 0 /\ i1 # 0 /\ b # 0
                 THEN FlushAndReturn(p4, {m, p2, p3}) ELSE Refuse(m)
    BY Zenon DEF StoreFile
  <2> HIDE DEF r, stored, m, sys, t, f, i, b, size, blk, d
  <2>3. i1 = i0 /\ (f = 0 => i0 = i)
    OBVIOUS
  <2> HIDE DEF i1, i0
  <2>4. p2 = q2 /\ (f = 0 => q2 = s2)
    BY <2>3
  <2> HIDE DEF p2, q2, s2
  <2>5. p3 = q3
    BY <2>3, <2>4
  <2> HIDE DEF p3, q3
  <2>6. p4 = q4
    BY <2>3, <2>4, <2>5
  <2> HIDE DEF p4, q4
  <2>7. CASE c1
    BY <2>1, <2>7 DEF Outcome
  <2>8. CASE ~c1 /\ f = 0 /\ free_slot(t) = 0
    BY <2>1, <2>3, <2>4, <2>8 DEF Outcome
  <2>9. CASE ~c1 /\ ~(f = 0 /\ free_slot(t) = 0)
    <3>1. r = FlushAndReturn(q4, sys.cuts \union {q2, q3})
      BY <2>1, <2>9
    <3>2. stored = FlushAndReturn(q4, {m, q2, q3})
      BY <2>2, <2>3, <2>4, <2>5, <2>6, <2>9
    <3> QED BY <2>9, <3>1, <3>2 DEF FlushAndReturn, Outcome
  <2> QED BY <2>7, <2>8, <2>9
<1> HIDE DEF sys, m, d, size, blk, r
<1>6. \A X, c : c \in sys.cuts => Spares(st, c, X)
  BY <1>1, SparesMore
<1>60. \A X : Spares(st, m, X)
  BY <1>1, SparesMore
<1>61. 0 \in Inodes
  BY Numbers
<1>7. ASSUME r.final = m, r.cuts = sys.cuts PROVE Ends(0)
  <2>1. One(m, m, 0) /\ Spares(m, m, {0})
    BY <1>2, NothingDone, SparesSelf
  <2> QED BY <1>6, <1>60, <1>7, <2>1 DEF Stored, Touches, FoundsSys, Founds
<1>8. ASSUME r.final = s2, r.cuts = sys.cuts \union {s2}, i # 0, b # 0 PROVE i \in Inodes /\ Ends(i)
  <2> DEFINE R == Reached(Kinds(m), View(m))
  <2>1. Claimed(m, s2, R, R, i, "file")
    <3> HIDE DEF R
    <3> QED BY <1>3, <1>4, <1>8, NewFile DEF R
  <2>2. Spares(m, s2, {i})
    BY <1>3, <1>4, <1>8, SparesClaim
  <2> HIDE DEF i, b, s2
  <2>3. Idles(m, s2) /\ Kinds(m)[i] = "none" /\ i \in Inodes
    BY <1>4, <2>1 DEF Claimed, Idles, Stays
  <2>4. Spares(st, s2, {i})
    BY <1>60, <2>2, SparesOn
  <2> QED BY <1>6, <1>8, <2>2, <2>3, <2>4 DEF Stored, Touches, FoundsSys
<1>9. ASSUME r.final = stored.final, r.cuts \subseteq sys.cuts \union stored.cuts, d # NoDir
      PROVE  \E k \in Inodes : Ends(k)
  <2>1. PICK k \in Inodes : /\ One(m, stored.final, k) /\ Touches(m, stored, {k})
                            /\ f = 0 => Founds(m, stored.final, d, name, k)
    BY <1>2, <1>3, <1>9, StoreDoes
  <2> HIDE DEF stored
  <2>2. Spares(m, stored.final, {k}) /\ \A c \in stored.cuts : Spares(m, c, {k})
    BY <2>1 DEF Touches
  <2>3. Spares(st, stored.final, {k}) /\ \A c \in stored.cuts : Spares(st, c, {k})
    BY <1>60, <2>2, SparesOn
  <2>4. FoundsSys(m, r.final, d, name, k)
    BY <1>9, <2>1 DEF FoundsSys
  <2> QED BY <1>6, <1>9, <2>1, <2>2, <2>3, <2>4 DEF Stored, Touches
<1> HIDE DEF i, b, s2, stored, Ends
<1>10. \E k \in Inodes : Ends(k)
  BY <1>5, <1>61, <1>7, <1>8, <1>9
<1> QED BY <1>10, SysFileLinked DEF Ends, r, m, sys, d

LEMMA SysFileNeat ==
    ASSUME NEW st \in Neat, NEW name \in Names, NEW text \in Contents
    PROVE  /\ SysDir(st).final \in Neat /\ write_sys_file(st, name, text).final \in Neat
           /\ \E i \in Inodes : Touches(st, write_sys_file(st, name, text), {i})
<1> DEFINE m == SysDir(st).final
           s == write_sys_file(st, name, text).final
<1>1. st \in Orderly /\ s \in Orderly
  BY SysFileOrderly DEF Neat
<1>2. PICK j \in Inodes : SysDirs(st, m, SysDir(st).dir, j) /\ Spares(st, m, {})
  BY <1>1, SysDirDoes
<1>3. PICK i \in Inodes : /\ Stored(m, s, i) /\ Spares(m, s, {i})
                          /\ Touches(st, write_sys_file(st, name, text), {i})
  BY <1>1, SysFileDoes, Zenon
<1> HIDE DEF m, s
<1>4. m \in Orderly /\ \A X : Spares(st, m, X)
  BY <1>2, SparesMore DEF SysDirs
<1>5. m \in Neat
  <2>1. CASE Gains(st, m, 0, "sys", j, "dir")
    <3>1. 0 \in Inodes /\ "sys" \in Names
      BY Numbers DEF Names
    <3>2. One(st, m, j)
      BY <2>1, <3>1 DEF One
    <3> QED BY <1>4, <3>2, NeatOn
  <2>2. CASE Idles(st, m)
    <3>1. 0 \in Inodes /\ Kinds(st)[0] # "file"
      <4>1. Linked(Kinds(st), View(st), Reached(Kinds(st), View(st)))
        BY <1>1, OrderlyHas
      <4> QED BY <4>1, Numbers DEF Linked
    <3> QED BY <1>4, <2>2, <3>1, IdleNeat
  <2> QED BY <1>2, <2>1, <2>2 DEF SysDirs
<1>6. s \in Neat
  <2>1. CASE One(m, s, i)
    BY <1>1, <1>3, <1>5, <2>1, NeatOn
  <2>2. CASE Idles(m, s) /\ Kinds(m)[i] = "none"
    BY <1>1, <1>3, <1>5, <2>2, IdleNeat
  <2> QED BY <1>3, <2>1, <2>2 DEF Stored
<1> QED BY <1>3, <1>5, <1>6 DEF s, m
=============================================================================
