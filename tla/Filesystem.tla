----------------------------- MODULE Filesystem -----------------------------
(***************************************************************************)
(* The mounted filesystem as a state machine: the boot sequence of init()  *)
(* (main.cpp), then any sequence of the calls the shell makes, with disk   *)
(* errors, power failures and reboots between any two disk accesses.       *)
(*                                                                         *)
(* The machine runs one thread and no interrupt is ever enabled, so a call *)
(* is one step -- except that a fault may end it at any of its cuts, and   *)
(* that "rm -r", which loops over a tree, is a step per entry.             *)
(***************************************************************************)
EXTENDS FsCalls, Sequences

CONSTANTS
    Paths,      \* the paths the user types
    MaxFaults,  \* bound: disk errors and power failures in one behaviour
    MaxAfter,   \* bound: calls that change something while the disk is half-changed
    MaxFormats, \* bound: mkfs commands in one behaviour
    MaxDepth    \* bound: directories open at once in rm -r

ASSUME FilesystemAssumption ==
    /\ Paths \subseteq PathRecords
    /\ MaxFaults \in Nat
    /\ MaxAfter \in Nat
    /\ MaxFormats \in Nat
    /\ MaxDepth \in Nat \ {0}

VARIABLES
    fs,         \* RAM and disk (FsStates)
    mounted,    \* g_mounted
    lastError,  \* g_last_error
    phase,      \* where init() or mkfs is: see Phases
    stack,      \* the frames of rm -r, innermost last; <<>> when none runs
    ret,        \* what the last call that changed anything returned
    dirty,      \* history: a call was cut short, or unflushed RAM was lost
    after,      \* the calls counted against MaxAfter
    formats,    \* how many mkfs commands there have been
    faults      \* how many disk errors and power failures there have been

vars == <<fs, mounted, lastError, phase, stack, ret, dirty, after, formats, faults>>

\* "start": fs_init is next.  "format": fs_format is next.  "reinit": the
\* fs_init after a format is next.  "ready": the shell runs.
Phases == {"start", "format", "reinit", "ready"}

\* A frame of remove_dir_contents, or of remove_entry_from_dir_recursive (the
\* outermost one): the directory, its local copy of the block, the slots
\* still to remove, and whether the directory in the first of them has been
\* emptied already.
Frames == [dir : Inodes, table : Tables, todo : SUBSET Slots, emptied : BOOLEAN]

TypeOK ==
    /\ fs \in FsStates
    /\ mounted \in BOOLEAN
    /\ lastError \in {"none", "io", "magic"}
    /\ phase \in Phases
    /\ stack \in Seq(Frames)
    /\ ret \in BOOLEAN
    /\ dirty \in BOOLEAN
    /\ after \in 0 .. MaxAfter
    /\ formats \in 0 .. MaxFormats
    /\ faults \in 0 .. MaxFaults

Init ==
    /\ fs = BlankDisk
    /\ mounted = FALSE
    /\ lastError = "none"
    /\ phase = "start"
    /\ stack = <<>>
    /\ ret = FALSE
    /\ dirty = FALSE
    /\ after = 0
    /\ formats = 0
    /\ faults = 0

-----------------------------------------------------------------------------
(* Faults.  whole is the set of states that are no harm: the one before    *)
(* the call and the one after it.                                          *)

DiskError(s, whole) ==
    /\ faults < MaxFaults
    /\ faults' = faults + 1
    /\ fs' = s
    /\ ret' = FALSE
    /\ stack' = <<>>
    /\ dirty' = (dirty \/ s \notin whole)
    /\ UNCHANGED after

LosePower(s, whole) ==
    /\ fs' = PoweredOff(s)
    /\ mounted' = FALSE
    /\ lastError' = "none"
    /\ phase' = "start"
    /\ stack' = <<>>
    /\ ret' = FALSE
    /\ dirty' = (dirty \/ s \notin whole \/ ~Synced(s))
    /\ UNCHANGED after

PowerFailure(s, whole) ==
    /\ faults < MaxFaults
    /\ faults' = faults + 1
    /\ LosePower(s, whole)

-----------------------------------------------------------------------------
(* Boot and mkfs *)

\* Mutant: after a format, init() formats again if fs_init fails or not.
Mount_FormatsAgain ==
    LET r == fs_init(fs)
    IN  /\ phase \in {"start", "reinit"}
        /\ phase = "start" => fs.boot
        /\ fs' = r.final
        /\ mounted' = r.ok
        /\ ret' = r.ok
        /\ lastError' = IF r.ok THEN "none" ELSE "magic"
        /\ phase' = IF r.ok /\ phase = "start" THEN "ready" ELSE "format"
        /\ UNCHANGED <<stack, dirty, after, formats, faults>>

\* fs_init, at boot or after a format.  At boot RAM holds nothing that a
\* failing one could harm.
Mount ==
    LET r == fs_init(fs)
        next == IF phase = "start" THEN "format" ELSE "ready"
    IN  /\ phase \in {"start", "reinit"}
        /\ phase = "start" => fs.boot
        /\ \/ /\ fs' = r.final
              /\ mounted' = r.ok
              /\ ret' = r.ok
              /\ lastError' = IF r.ok THEN "none" ELSE "magic"
              /\ phase' = IF r.ok THEN "ready" ELSE next
              /\ UNCHANGED <<stack, dirty, after, formats, faults>>
           \/ \E s \in r.cuts :
                /\ DiskError(s, IF phase = "start" THEN r.cuts ELSE {fs})
                /\ mounted' = FALSE
                /\ lastError' = "io"
                /\ phase' = next
                /\ UNCHANGED formats

\* fs_format: init() calls it when fs_init has failed, mkfs at any time.  A
\* format that succeeds leaves nothing of what went wrong before.  Only a
\* disk error makes it fail: LayoutAssumption leaves room for its three
\* directories and files.
Format ==
    LET r == fs_format(fs)
    IN  /\ phase \in {"format", "ready"}
        /\ stack = <<>>
        /\ phase = "ready" => formats < MaxFormats
        /\ formats' = IF phase = "ready" THEN formats + 1 ELSE formats
        /\ \/ /\ r.ok
              /\ fs' = r.final
              /\ mounted' = TRUE
              /\ ret' = TRUE
              /\ lastError' = "none"
              /\ phase' = "reinit"
              /\ dirty' = FALSE
              /\ after' = 0
              /\ UNCHANGED <<stack, faults>>
           \/ \E s \in r.cuts :
                /\ DiskError(s, {r.final})
                /\ phase' = IF phase = "format" THEN "reinit" ELSE "ready"
                /\ UNCHANGED <<mounted, lastError>>
           \/ \E s \in r.cuts : PowerFailure(s, {r.final})

\* shutdown, or the plug pulled while the shell waits for a command.
Reboot ==
    /\ phase = "ready"
    /\ stack = <<>>
    /\ LosePower(fs, {fs})
    /\ UNCHANGED <<formats, faults>>

-----------------------------------------------------------------------------
(* The calls of the shell *)

\* The bound on what is explored after damage: a format starts over at 0.
MayCall == dirty => after < MaxAfter
Counted(changes) == after' = IF dirty /\ changes THEN after + 1 ELSE after

Call(r) ==
    /\ phase = "ready"
    /\ stack = <<>>
    /\ MayCall
    /\ \/ /\ fs' = r.final
          /\ ret' = IF r.final = fs THEN ret ELSE r.ok
          /\ Counted(r.final # fs)
          /\ UNCHANGED <<mounted, lastError, phase, stack, dirty, formats, faults>>
       \/ \E s \in r.cuts :
            /\ DiskError(s, {fs, r.final})
            /\ UNCHANGED <<mounted, lastError, phase, formats>>
       \/ \E s \in r.cuts : PowerFailure(s, {fs, r.final}) /\ UNCHANGED formats

Mkdir(path) == mounted /\ Call(fs_mkdir_path(fs, path))
Create(path) == mounted /\ InRoot(path) /\ Call(fs_create(fs, path.name))
Write(path, text) == mounted /\ Call(fs_write_path(fs, path, text))
Copy(src, dst) == mounted /\ Call(fs_copy_path(fs, src, dst))
Rename(src, dst) == mounted /\ Call(fs_rename(fs, src, dst))
Remove(path) == mounted /\ Call(fs_remove_path(fs, path))

\* fs_write_passwd is the one call that does not ask whether g_mounted is set.
WritePasswd(hash) == Call(fs_write_passwd(fs, hash))

-----------------------------------------------------------------------------
(* rm -r.  The first slot still to do of the innermost frame is the one    *)
(* the code is at.                                                         *)

Top == stack[Len(stack)]
Below == SubSeq(stack, 1, Len(stack) - 1)
Current == Top.table[Min(Top.todo)].inode
Running == stack # <<>>

Frame(d, t, todo) == [dir |-> d, table |-> t, todo |-> todo, emptied |-> FALSE]
UsedSlots(t) == {s \in Slots : t[s].name # NoName}

\* The frames change and the call goes on: no value is returned yet.
Goes(s, frames) ==
    /\ fs' = s
    /\ stack' = frames
    /\ ret' = FALSE
    /\ UNCHANGED <<mounted, lastError, phase, dirty, formats, faults>>

RemoveFaults(cuts) ==
    \/ \E s \in cuts : DiskError(s, {}) /\ UNCHANGED <<mounted, lastError, phase, formats>>
    \/ \E s \in cuts : PowerFailure(s, {}) /\ UNCHANGED formats

\* fs_remove_path_recursive finds the entry: a directory if there is one.
RemoveRecursive(path) ==
    LET d == DirOf(fs, path)
        t == load_dir_block(fs, d)
        dirSlot == find_dir_entry(t, fs.inodes, path.name, "dir")
        s == IF dirSlot # 0 THEN dirSlot
             ELSE find_dir_entry(t, fs.inodes, path.name, "file")
    IN  /\ mounted /\ phase = "ready" /\ ~Running /\ MayCall
        /\ path.name # NoName /\ Usable(fs, d) /\ s # 0 /\ t[s].inode # 0
        /\ Goes(fs, <<Frame(d, t, {s})>>)
        /\ Counted(TRUE)

\* remove_dir_contents is called on the directory of the current entry.
RemoveEnter ==
    /\ Running /\ Top.todo # {} /\ ~Top.emptied
    /\ Current # 0 /\ fs.inodes[Current].type = "dir" /\ fs.inodes[Current].block # 0
    /\ Len(stack) < MaxDepth
    /\ LET t == load_dir_block(fs, Current)
       IN  \/ Goes(fs, Append(stack, Frame(Current, t, UsedSlots(t)))) /\ UNCHANGED after
           \/ RemoveFaults({fs})

\* What the current entry refers to is freed, and the entry cleared in the
\* local copy of its directory.
RemoveCurrent ==
    LET slot == Min(Top.todo)
        freed == Released(fs, Current)
        frame == [Top EXCEPT !.table = Unlinked(@, slot), !.todo = @ \ {slot}, !.emptied = FALSE]
    IN  /\ Running /\ Top.todo # {}
        /\ Current # 0
        /\ Top.emptied \/ fs.inodes[Current].type = "file"
        /\ \/ Goes(freed.final, Append(Below, frame)) /\ UNCHANGED after
           \/ RemoveFaults(freed.cuts)

\* Mutant: the directory is entered again when it has just been emptied.
RemoveLeave_EntersAgain ==
    LET s == write_dir_block(fs, Top.dir, Top.table)
    IN  /\ Len(stack) > 1 /\ Top.todo = {}
        /\ Goes(s, Below) /\ UNCHANGED after

\* remove_dir_contents is done: the cleared block is written.
RemoveLeave ==
    LET s == write_dir_block(fs, Top.dir, Top.table)
        n == Len(Below)
    IN  /\ Len(stack) > 1 /\ Top.todo = {}
        /\ \/ Goes(s, [Below EXCEPT ![n].emptied = TRUE]) /\ UNCHANGED after
           \/ RemoveFaults({fs, s})

\* The outermost function writes its directory, flushes and returns true.
RemoveDone ==
    LET r == FlushAndReturn(write_dir_block(fs, Top.dir, Top.table), {fs})
    IN  /\ Len(stack) = 1 /\ Top.todo = {}
        /\ \/ /\ fs' = r.final
              /\ stack' = <<>>
              /\ ret' = TRUE
              /\ UNCHANGED <<mounted, lastError, phase, dirty, after, formats, faults>>
           \/ RemoveFaults(r.cuts)

\* The entry refers to no file and no directory: every level returns false,
\* and what was removed so far stays unflushed.
RemoveGivesUp ==
    /\ Running /\ Top.todo # {} /\ ~Top.emptied
    /\ \/ Current = 0
       \/ fs.inodes[Current].type = "none"
       \/ fs.inodes[Current].type = "dir" /\ fs.inodes[Current].block = 0
    /\ Goes(fs, <<>>)
    /\ UNCHANGED after

RemoveStep == RemoveEnter \/ RemoveCurrent \/ RemoveLeave \/ RemoveDone \/ RemoveGivesUp

-----------------------------------------------------------------------------
Next ==
    \/ Mount
    \/ Format
    \/ Reboot
    \/ \E p \in Paths :
        \/ Mkdir(p)
        \/ Create(p)
        \/ \E text \in Texts \union {Empty} : Write(p, text)
        \/ Remove(p)
        \/ RemoveRecursive(p)
        \/ \E q \in Paths : Copy(p, q) \/ Rename(p, q)
    \/ \E hash \in Hashes : WritePasswd(hash)
    \/ RemoveStep

\* init() and rm -r run to their end: nothing else uses the processor.  This
\* is weak fairness of each action with its ENABLED spelled out, because TLC
\* takes an ENABLED of calls this long apart without remembering any part of
\* them.  A recursion that reaches MaxDepth is not assumed to go on.
MountReady == phase = "reinit" \/ (phase = "start" /\ fs.boot)
FormatReady == phase = "format"
RemoveReady == Running /\ Len(stack) < MaxDepth

Fairness ==
    /\ []<>~MountReady \/ []<><<Mount>>_vars
    /\ []<>~FormatReady \/ []<><<Format>>_vars
    /\ []<>~RemoveReady \/ []<><<RemoveStep>>_vars

Spec == Init /\ [][Next]_vars /\ Fairness
=============================================================================
