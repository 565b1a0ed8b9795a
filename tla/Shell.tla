-------------------------------- MODULE Shell --------------------------------
(***************************************************************************)
(* The shell of main.cpp over the filesystem: init()'s login loop, the     *)
(* current directory, and the commands of handleCommands that reach the    *)
(* disk or change what the shell is doing.  A command with several targets *)
(* (rm a b) is the same command for each of them in turn.                  *)
(***************************************************************************)
EXTENDS FsProperties

CONSTANTS
    Args,     \* the arguments the user types: ArgRecords
    RmArgs,   \* the arguments the user gives rm -r
    SlashOf,  \* the name "x/y" of two names, where SlashNames has one
    MaxCwd,   \* bound: names in the current directory
    MaxMoved, \* bound: names in an argument of cp or mv
    SysAndEvents, \* bound: whether faults happen after a command has named sys, and
                  \* commands name sys after a mkfs
    MaxEvents \* bound: faults and mkfs commands together

\* "../../b" is up = 2, names = <<"b">>.
ArgRecords == [up : Nat, names : Seq(Names)]

\* The names in all of them.
Typed == UNION {{arg.names[k] : k \in DOMAIN arg.names} : arg \in Args \union RmArgs}

\* No path has more than three names in it (PathOf).  A password's hash whose
\* four bytes spell an entry of a name for inode 0, the root, is left out.
ASSUME ShellAssumption ==
    /\ Args \union RmArgs \subseteq ArgRecords
    /\ \A arg \in Args \union RmArgs : Len(arg.names) <= 3
    /\ \A a, b \in Typed : SlashOf[<<a, b>>] \in SlashNames
    /\ \A c \in Contents, s \in Slots : Decoded[c][s].name \in Names => Decoded[c][s].inode # 0
    /\ MaxCwd \in 0 .. 2 /\ MaxMoved \in Nat
    /\ SysAndEvents \in BOOLEAN /\ MaxEvents \in Nat

VARIABLES
    cwd,       \* k_root, as names
    mode,      \* "login", "shell", "dialog" (the loop of passwd), or "off"
    attempts,  \* wrong passwords in a row
    opens,     \* history: the passwords that may be the one that opens
    torn,      \* history: a format was cut short, or a command named sys, and no
               \* format has been completed since
    refused,   \* history: this dialog has seen fs_write_passwd refuse, with no disk error
    inside     \* history: the last command named nothing but files of a current
               \* directory below the root

fsVars == vars
userVars == <<cwd, mode, attempts, opens, torn, refused, inside>>
shellVars == <<fsVars, userVars>>

ShellInit ==
    /\ Init
    /\ cwd = <<>> /\ mode = "login" /\ attempts = 0
    /\ opens = {DefaultHash} /\ torn = FALSE /\ refused = FALSE /\ inside = FALSE

-----------------------------------------------------------------------------
(* Paths.  PathText shows that the text of resolve_fs_path comes to this.  *)

Without(dir, n) == IF n > Len(dir) THEN <<>> ELSE SubSeq(dir, 1, Len(dir) - n)

\* An argument with a separator of its own starts at the root.
Resolved(arg) ==
    IF Len(arg.names) > 1 THEN arg.names ELSE Without(cwd, arg.up) \o arg.names

\* The filesystem cuts the text at its first '/' only.
PathOf(names) ==
    CASE Len(names) = 1 -> [dir |-> NoName, name |-> names[1]]
      [] Len(names) = 2 -> [dir |-> names[1], name |-> names[2]]
      [] Len(names) = 3 -> [dir |-> names[1], name |-> SlashOf[<<names[2], names[3]>>]]

\* Every call refuses an empty path at once.
Named(arg) == Resolved(arg) # <<>>
Path(arg) == PathOf(Resolved(arg))

\* The system's own directory, which nothing protects, or something in it.
NamesSys(path) == IF InRoot(path) THEN path.name = "sys" ELSE path.dir = "sys"

Inside(args) == cwd # <<>> /\ \A arg \in args : arg.up = 0 /\ Len(arg.names) = 1

-----------------------------------------------------------------------------
(* Power: k_root, exited and the counter start over with the machine.      *)

Restarts == phase' = "start"

Session(m) ==
    /\ mode' = IF Restarts THEN "login" ELSE m
    /\ cwd' = IF Restarts THEN <<>> ELSE cwd
    /\ attempts' = IF Restarts THEN 0 ELSE attempts

\* fs_init and fs_format of init(); the fs_init after mkfs.
ShellMount == Mount /\ Session(mode) /\ inside' = FALSE /\ UNCHANGED <<opens, torn, refused>>

\* A format makes the password the default, unless a fault cuts it short.
Formats ==
    /\ Format
    /\ torn' = (faults' # faults)
    /\ opens' = {DefaultHash}
    /\ Session(mode)
    /\ inside' = FALSE
    /\ UNCHANGED refused

BootFormat == phase = "format" /\ Formats

PowerCycle ==
    /\ Reboot /\ Session(mode)
    /\ refused' = FALSE /\ inside' = FALSE
    /\ UNCHANGED <<opens, torn>>

-----------------------------------------------------------------------------
(* The login of init() *)

Accepted ==
    LET stored == fs_read_passwd(fs, mounted)
    IN  IF stored = {} THEN {DefaultHash} ELSE stored

\* Three wrong passwords in a row, and the machine is switched off.
Login(hash) ==
    /\ phase = "ready" /\ mode = "login"
    /\ IF hash \in Accepted THEN mode' = "shell" /\ attempts' = 0
       ELSE /\ attempts' = attempts + 1
            /\ mode' = IF attempts' = 3 THEN "off" ELSE "login"
    /\ inside' = FALSE
    /\ UNCHANGED <<fsVars, cwd, opens, torn, refused>>

\* k_root stays: the next user begins where the last one was.
Exit ==
    /\ phase = "ready" /\ mode = "shell" /\ ~Running
    /\ mode' = "login" /\ attempts' = 0 /\ inside' = FALSE
    /\ UNCHANGED <<fsVars, cwd, opens, torn, refused>>

\* poweroff: the ports are written, and then the processor halts for good.
Shutdown ==
    /\ phase = "ready" /\ mode = "shell" /\ ~Running
    /\ mode' = "off" /\ inside' = FALSE
    /\ UNCHANGED <<fsVars, cwd, attempts, opens, torn, refused>>

-----------------------------------------------------------------------------
(* The commands *)

\* Mutant: a command is taken in the dialog of passwd too.
Types_AnyMode(args) == mode # "off" /\ \A arg \in args : Named(arg)

\* The guard of a command, and what it does but for the call it makes.
Types(args) == mode = "shell" /\ \A arg \in args : Named(arg)
Done(args) ==
    /\ Session("shell")
    /\ inside' = Inside(args)
    /\ torn' = (torn \/ \E arg \in args : NamesSys(Path(arg)))
    /\ UNCHANGED <<opens, refused>>

ShellMkdir(arg) == Types({arg}) /\ Mkdir(Path(arg)) /\ Done({arg})
ShellWrite(arg, text) == Types({arg}) /\ Write(Path(arg), text) /\ Done({arg})
ShellCp(arg, to) == Types({arg, to}) /\ Copy(Path(arg), Path(to)) /\ Done({arg, to})
ShellMv(arg, to) == Types({arg, to}) /\ Rename(Path(arg), Path(to)) /\ Done({arg, to})
ShellRm(arg) == Types({arg}) /\ Remove(Path(arg)) /\ Done({arg})
ShellRmR(arg) == Types({arg}) /\ RemoveRecursive(Path(arg)) /\ Done({arg})

\* touch writes nothing to the file, and knows no "..".
ShellTouch(arg) == arg.up = 0 /\ ShellWrite(arg, Empty)

ShellRemoveStep == RemoveStep /\ Session(mode) /\ UNCHANGED <<opens, torn, refused, inside>>

Mkfs == mode = "shell" /\ phase = "ready" /\ Formats

cd(arg) ==
    LET names == Resolved(arg)
    IN  /\ phase = "ready" /\ mode = "shell" /\ ~Running
        /\ Len(names) <= MaxCwd
        /\ names # <<>> => mounted /\ fs_is_dir(fs, PathOf(names))
        /\ cwd' = names
        /\ inside' = FALSE
        /\ UNCHANGED <<fsVars, mode, attempts, opens, torn, refused>>

\* passwd: the current password first.
Passwd(hash) ==
    /\ phase = "ready" /\ mode = "shell" /\ ~Running
    /\ hash \in Accepted
    /\ mode' = "dialog" /\ refused' = FALSE /\ inside' = FALSE
    /\ UNCHANGED <<fsVars, cwd, attempts, opens, torn>>

\* Each round of the do loop of passwd in which the two new passwords agree.
NewPassword(hash) ==
    LET stored == fs_write_passwd(fs, hash).ok
        faulty == faults' # faults
    IN  /\ mode = "dialog"
        /\ WritePasswd(hash)
        /\ Session(IF stored /\ ~faulty THEN "shell" ELSE "dialog")
        /\ opens' = IF ~stored THEN opens
                    ELSE IF faulty \/ ~mounted THEN opens \union {hash} ELSE {hash}
        /\ refused' = (mode' = "dialog" /\ (refused \/ ~(stored \/ faulty)))
        /\ inside' = FALSE
        /\ UNCHANGED torn

ShellStep ==
    \/ ShellMount \/ BootFormat \/ PowerCycle
    \/ \E hash \in Hashes : Login(hash) \/ Passwd(hash) \/ NewPassword(hash)
    \/ Exit \/ Shutdown
    \/ Mkfs \/ ShellRemoveStep
    \/ \E arg \in Args :
        \/ ShellMkdir(arg) \/ ShellTouch(arg) \/ \E text \in Texts : ShellWrite(arg, text)
        \/ ShellRm(arg) \/ cd(arg)
        \/ \E to \in Args :
             /\ Len(arg.names) <= MaxMoved /\ Len(to.names) <= MaxMoved
             /\ ShellCp(arg, to) \/ ShellMv(arg, to)
    \/ \E arg \in RmArgs : ShellRmR(arg)

\* A disk that no fault has touched is torn because sys was named.
ShellNext ==
    /\ ShellStep
    /\ faults = 0 /\ torn /\ ~SysAndEvents => faults' = 0
    /\ faults' = 0 /\ torn' /\ ~SysAndEvents => formats = 0
    /\ faults' + formats' <= MaxEvents

ShellSpec == ShellInit /\ [][ShellNext]_shellVars

-----------------------------------------------------------------------------
(* What the shell is checked against *)


\* The loop of passwd (main.cpp:348) ends only when fs_write_passwd returns
\* true: once that has refused for lack of room, no password ends the dialog
\* any more, because nothing in it makes room.  (After a fault a refusal may
\* itself repair what was missing.)
RefusedForGood == [][Sound /\ mode = "dialog" /\ refused => mode' # "shell"]_shellVars

\* k_root, which rm -r, mv and mkfs leave as it is (main.cpp:413): a command
\* given names of files of the current directory changes no entry of the
\* root, even when that directory is gone.
StaysInside ==
    [][inside' /\ phase' # "start" /\ Live => TableOf(0)' = TableOf(0)]_shellVars

\* info (fs_get_usage) against the calls: the used space is that of the files
\* and directories there are, and a block can be had exactly while more than
\* one is said to be free.
InfoIsExact ==
    LET usage == fs_get_usage(fs)
    IN  Sound /\ phase = "ready" /\ mounted /\ ~Running =>
            /\ usage.used = Cardinality(Used)
            /\ alloc_block_raw(fs) # 0 <=> usage.free > 1

\* What ls prints of the current directory, or nothing: "ls: directory non
\* trovata o errore."
Listed ==
    CASE Len(cwd) = 0 -> fs_list_root(fs)
      [] Len(cwd) = 1 -> fs_list_dir(fs, cwd[1])
      [] Len(cwd) = 2 -> fs_list_dir(fs, SlashOf[cwd])

\* ls against cd and read, each of which walks a directory in its own way
\* (fs_list_dir, fs_is_dir, fs_read_path): while the current directory is
\* there, ls shows a name without a separator exactly when cd enters or read
\* opens it, typed as it stands.  The name "x/y" that a file of d has after
\* "write d/x/y" is shown in d as well, and found as d/x/y only: typed alone,
\* it starts at the root (resolve_fs_path).  Nothing of this holds two levels
\* down: cd enters a directory in a directory, ls looks its whole path up in the
\* root and says that it is not there.
ListsWhatCanBeNamed ==
    LET found(names) == fs_is_dir(fs, PathOf(names)) \/ FileAt(fs, PathOf(names)) # 0
        here == cwd = <<>> \/ fs_is_dir(fs, PathOf(cwd))
    IN  Sound /\ phase = "ready" /\ mounted /\ ~Running /\ here /\ Len(cwd) < 2 =>
            /\ Listed # {}
            /\ \A shown \in Listed :
                /\ shown \subseteq Names
                /\ \A n \in Names \ SlashNames :
                     n \in shown <=> found(Resolved([up |-> 0, names |-> <<n>>]))
                /\ cwd # <<>> =>
                     \A x, y \in Typed : SlashOf[<<x, y>>] \in shown <=> found(cwd \o <<x, y>>)

\* What info and ls print is what the other commands will find.
ShowsWhatIs == InfoIsExact /\ ListsWhatCanBeNamed
=============================================================================
