------------------------------- MODULE DirBlock -------------------------------
(***************************************************************************)
(* A directory's block, byte by byte (filesystem.h, filesystem.cpp):       *)
(* entries of a byte used, a byte inode and a name, which is a C string.   *)
(* A name is copied to its entry with its length, and read to its zero.    *)
(*                                                                         *)
(* Filesystem takes an entry to be a record with a name.  What that rests  *)
(* on is found here.                                                       *)
(***************************************************************************)
EXTENDS Naturals, Sequences, FiniteSets, FiniteSetsExt

CONSTANTS
    NameSize,   \* sizeof(DirEntry::name): 30
    Slots,      \* entries of a block: 16
    MaxInodes,  \* FS_MAX_INODES: 64
    Plain,      \* the names given to the calls that look at the length
    InPaths     \* the names given behind a directory's to fs_write_path

ASSUME DirBlockAssumption ==
    /\ NameSize \in Nat \ {0} /\ Slots \in Nat \ {0} /\ MaxInodes \in Nat \ {0}
    /\ Plain \union InPaths \subseteq Seq(Nat \ {0}) \ {<<>>}

VARIABLES
    block,  \* its bytes
    used,   \* the inodes in use: each is a file's
    files   \* history: the files the calls said they made, with their inodes

blockVars == <<block, used, files>>

EntrySize == NameSize + 2
Bytes == 0 .. Slots * EntrySize - 1
SlotNumbers == 0 .. Slots - 1

\* Where an entry begins, and what is there.
At(i) == i * EntrySize
IsUsed(b, i) == b[At(i)] # 0
InodeAt(b, i) == b[At(i) + 1]

\* The C string of an entry.  It may run on into the next entry, and is cut
\* at the end of the block here: what lies behind in memory is not known.
NameAt(b, i) ==
    LET start == At(i) + 2
        ends == {k \in Bytes : k >= start /\ b[k] = 0} \union {Slots * EntrySize}
    IN  [k \in 1 .. Min(ends) - start |-> b[start + k - 1]]

\* str_len(name) >= sizeof(DirEntry::name)
TooLong(name) == Len(name) >= NameSize

\* mem_copy of the name, which may run over the end of the entry.
CopyName(b, i, name) ==
    [k \in Bytes |-> LET n == k - (At(i) + 1) IN IF n \in DOMAIN name THEN name[n] ELSE b[k]]

\* mem_set of bytes from .. to.
Clear(b, from, to) == [k \in Bytes |-> IF k \in from .. to THEN 0 ELSE b[k]]

ClearEntry(b, i) == Clear(b, At(i), At(i) + EntrySize - 1)

PutEntry(b, i, inode, name) ==
    CopyName([ClearEntry(b, i) EXCEPT ![At(i)] = 1, ![At(i) + 1] = inode], i, name)

\* Mutant: the old name is not cleared.
PutName_OverTheOld(b, i, name) == CopyName(b, i, name)

\* fs_rename in one directory.
PutName(b, i, name) == CopyName(Clear(b, At(i) + 2, At(i) + EntrySize - 1), i, name)

\* The entries in use that find_dir_entry, and the loops like it, take for name.
Found(name) ==
    {i \in SlotNumbers : IsUsed(block, i) /\ NameAt(block, i) = name /\ InodeAt(block, i) \in used}

-----------------------------------------------------------------------------
BlockInit ==
    /\ block = [k \in Bytes |-> 0]
    /\ used = {}
    /\ files = <<>>

Without(name) == [n \in DOMAIN files \ {name} |-> files[n]]
With(known, name, inode) == [n \in DOMAIN known \union {name} |-> IF n = name THEN inode ELSE known[n]]

\* A file that is not there gets the first free slot, and an inode that other
\* directories have left free.  An entry with the name and an inode that is
\* no number of one ends the call.
Store(name) ==
    LET free == {i \in SlotNumbers : ~IsUsed(block, i)}
        same == {i \in SlotNumbers : IsUsed(block, i) /\ NameAt(block, i) = name}
    IN  /\ Found(name) = {} /\ \A i \in same : InodeAt(block, i) < MaxInodes
        /\ free # {}
        /\ \E inode \in 1 .. MaxInodes - 1 \ used :
            /\ block' = PutEntry(block, Min(free), inode, name)
            /\ used' = used \union {inode}
            /\ files' = With(files, name, inode)

\* fs_write, and fs_create, fs_mkdir, fs_mkdir_path and fs_copy_path, which
\* look at the length too.
Write(name) == ~TooLong(name) /\ Store(name)

\* fs_write_path, which does not.
WritePath(name) == Store(name)

\* fs_rename to a name that is free.
Rename(from, to) ==
    /\ Found(from) # {} /\ Found(to) = {} /\ ~TooLong(from) /\ ~TooLong(to)
    /\ LET i == Min(Found(from))
       IN  /\ block' = PutName(block, i, to)
           /\ files' = With(Without(from), to, InodeAt(block, i))
    /\ UNCHANGED used

remove_entry_from_dir(name) ==
    /\ Found(name) # {}
    /\ LET i == Min(Found(name))
       IN  /\ block' = ClearEntry(block, i)
           /\ used' = used \ {InodeAt(block, i)}
    /\ files' = Without(name)

BlockNext ==
    \/ \E name \in Plain : Write(name) \/ remove_entry_from_dir(name) \/ \E to \in Plain : Rename(name, to)
    \/ \E name \in InPaths : WritePath(name) \/ remove_entry_from_dir(name)

BlockSpec == BlockInit /\ [][BlockNext]_blockVars

-----------------------------------------------------------------------------
(* The bytes against the records of Filesystem *)

\* The block (mem_copy, mem_set and str_equals) is the directory: its entries
\* have the names and inodes of the files that were made and not removed, and
\* each of them is found under its name.
BytesAreEntries ==
    /\ {<<NameAt(block, i), InodeAt(block, i)>> : i \in {i \in SlotNumbers : IsUsed(block, i)}}
         = {<<name, files[name]>> : name \in DOMAIN files}
    /\ \A name \in DOMAIN files : \E i \in Found(name) : Found(name) = {i}

\* The check of fs_write, "str_len(name) >= sizeof(DirEntry::name)"
\* (filesystem.cpp:1106): a file that was made can be found under its name.
MadeIsFound == \A name \in DOMAIN files : Found(name) # {}
=============================================================================
