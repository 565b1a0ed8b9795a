--------------------------------- MODULE Ata ---------------------------------
(***************************************************************************)
(* The ATA driver (ata.cpp) and the drive it talks to.  The driver writes  *)
(* the registers, polls the status a bounded number of times, and moves a  *)
(* sector's 256 words through the data port.  The drive works at its own   *)
(* pace, keeps what it is sent in a cache until it is told to flush, and   *)
(* takes no register and no command while it is busy or waits for data to  *)
(* be moved.  The driver does not ask whether it is before it writes them. *)
(*                                                                         *)
(* Filesystem takes a sector that was written to be on the disk, and one   *)
(* that was read to be what was written: what that rests on is found here. *)
(***************************************************************************)
EXTENDS Naturals

CONSTANTS
    LastLba,   \* the last sector
    Data,      \* what a sector can hold
    Zero,      \* what it holds at first
    Identity,  \* what IDENTIFY returns
    Junk,      \* what the data port reads when the drive has nothing to give
    MaxCount,  \* sectors in one call
    Polls,     \* polls before the driver gives up (16384)
    MaxBoots   \* bound: how often the power fails

ASSUME AtaAssumption ==
    /\ LastLba \in Nat /\ MaxCount \in Nat \ {0} /\ Polls \in Nat \ {0} /\ MaxBoots \in Nat
    /\ Zero \in Data /\ Identity \notin Data /\ Junk \notin Data \union {Identity}

VARIABLES
    pc,       \* where the driver is: see Places
    call,     \* the call that runs: op, the sector it is at, how many are left,
              \* and the data, of every sector of it, to be written
    got,      \* what the call has read from the sector it was at last
    polls,    \* polls since the last command
    drive,    \* status, command, sector and data register of the drive
    medium,   \* what each sector holds for good
    cache,    \* what each sector reads as
    expected, \* history: what each sector may hold, if the driver is right
    lapses,   \* history: see below
    boots     \* how often the power has failed

driverVars == <<pc, call, got, polls>>
driveVars == <<drive, medium, cache>>
vars == <<driverVars, driveVars, expected, lapses, boots>>

Lbas == 0 .. LastLba
Ops == {"read", "write", "identify"}
Places == {"boot", "idle", "select", "command", "drq", "transfer", "flush", "notBusy"}

\* "drq" is BSY = 0 and DRQ = 1; "error" BSY = 0 and ERR = 1.
Statuses == {"ready", "busy", "drq", "error", "absent"}
Commands == Ops \union {"store", "flush", "reset"}

CallRecords == [op : Ops, lba : Lbas, left : 0 .. MaxCount, data : Data]
DriveRecords == [status : Statuses, cmd : Commands, reg : Lbas, lba : Lbas, data : Data \union {Identity}]

TypeOK ==
    /\ pc \in Places
    /\ call \in CallRecords
    /\ got \in Data \union {Identity, Junk}
    /\ polls \in 0 .. Polls - 1
    /\ drive \in DriveRecords
    /\ medium \in [Lbas -> Data] /\ cache \in [Lbas -> Data]
    /\ expected \in [Lbas -> SUBSET Data]
    /\ lapses \subseteq {"gave up", "unheard", "unread"}
    /\ boots \in 0 .. MaxBoots

NoCall == [op |-> "read", lba |-> 0, left |-> 0, data |-> Zero]
Resetting == [status |-> "busy", cmd |-> "reset", reg |-> 0, lba |-> 0, data |-> Zero]

Init ==
    /\ pc = "boot" /\ call = NoCall /\ got = Zero /\ polls = 0
    /\ drive \in {Resetting, [Resetting EXCEPT !.status = "absent"]}
    /\ medium = [s \in Lbas |-> Zero] /\ cache = medium
    /\ expected = [s \in Lbas |-> {Zero}]
    /\ lapses = {} /\ boots = 0

-----------------------------------------------------------------------------
(* The drive.  A write goes on as "store" when the drive has the data. *)

\* Whether it takes what is written to its registers.
Takes == drive.status \in {"ready", "error"}
Given(cmd) ==
    IF Takes THEN [drive EXCEPT !.status = "busy", !.cmd = cmd, !.lba = drive.reg] ELSE drive

\* It is done with its command.
Rests(status) == [Resetting EXCEPT !.status = status, !.reg = drive.reg]

Works(cmds) ==
    /\ drive.status = "busy" /\ drive.cmd \in cmds
    /\ UNCHANGED <<driverVars, expected, boots>>

DriveFails ==
    /\ Works(Commands)
    /\ drive' = Rests("error")
    /\ UNCHANGED <<medium, cache, lapses>>

DriveOffers ==
    /\ Works(Ops)
    /\ drive' = [drive EXCEPT !.status = "drq",
                    !.data = CASE drive.cmd = "read" -> cache[drive.lba]
                               [] drive.cmd = "write" -> @
                               [] drive.cmd = "identify" -> Identity]
    /\ UNCHANGED <<medium, cache, lapses>>

DriveStores ==
    /\ Works({"store"})
    /\ drive' = Rests("ready")
    /\ cache' = [cache EXCEPT ![drive.lba] = drive.data]
    /\ UNCHANGED <<medium, lapses>>

\* A flush reaches every sector that was stored, whatever flush was unheard.
DriveFlushes ==
    /\ Works({"flush"})
    /\ drive' = Rests("ready")
    /\ medium' = cache
    /\ lapses' = lapses \ {"unheard"}
    /\ UNCHANGED cache

DriveResets ==
    /\ Works({"reset"})
    /\ drive' = Rests("ready")
    /\ UNCHANGED <<medium, cache, lapses>>

\* The drive empties its cache as it pleases, in any order.
DriveWritesBack ==
    /\ \E s \in Lbas : medium[s] # cache[s] /\ medium' = [medium EXCEPT ![s] = cache[s]]
    /\ UNCHANGED <<driverVars, drive, cache, expected, lapses, boots>>

Drive ==
    \/ DriveFails \/ DriveOffers \/ DriveStores \/ DriveFlushes \/ DriveResets
    \/ DriveWritesBack

\* What was not on the medium is gone.
PowerFails ==
    /\ boots < MaxBoots
    /\ boots' = boots + 1
    /\ drive' = Resetting
    /\ cache' = medium
    /\ pc' = "boot" /\ call' = NoCall /\ got' = Zero /\ polls' = 0
    /\ expected' = IF "unheard" \in lapses THEN [s \in Lbas |-> {medium[s]}] ELSE expected
    /\ lapses' = lapses \ {"unheard"}
    /\ UNCHANGED medium

-----------------------------------------------------------------------------
(* The driver.  lapses records what can come between it and the truth:     *)
(*   "gave up"  a poll ran out, and the drive goes on with that command;   *)
(*   "unheard"  the drive was still busy with the data when it was told to *)
(*              flush, and nothing has been flushed since;                 *)
(*   "unread"   the drive had failed at the data when it was told to       *)
(*              flush, and the flush cleared the error.                    *)

Return ==
    /\ pc' = "idle"
    /\ call' = NoCall
    /\ polls' = 0

\* Mutant: the polls are not counted.
Again_ForEver ==
    /\ polls' = polls
    /\ UNCHANGED <<pc, call, lapses>>

\* Still busy: once more, or never again.
Again ==
    IF polls + 1 = Polls
    THEN Return /\ lapses' = lapses \union {"gave up"}
    ELSE polls' = polls + 1 /\ UNCHANGED <<pc, call, lapses>>

\* The sector is done: the next one, or the call returns true.
SectorDone ==
    IF call.left > 1
    THEN /\ pc' = "select"
         /\ call' = [call EXCEPT !.lba = @ + 1, !.left = @ - 1]
         /\ UNCHANGED polls
    ELSE Return

\* ata_init: the reset has been sent, the drive must say it is ready.
ata_init ==
    /\ pc = "boot"
    /\ \/ drive.status = "absent" /\ Return /\ UNCHANGED lapses
       \/ Takes /\ Return /\ UNCHANGED lapses
       \/ drive.status \notin {"absent", "ready", "error"} /\ Again
    /\ UNCHANGED <<got, driveVars, expected, boots>>

\* ata_read_sectors, ata_write_sectors or ata_get_sector_count is called.
Call(op, lba, count, data) ==
    /\ pc = "idle"
    /\ pc' = "select"
    /\ call' = [op |-> op, lba |-> lba, left |-> count, data |-> data]
    /\ got' = Zero
    /\ UNCHANGED <<polls, driveVars, expected, lapses, boots>>

\* The five registers, of which the sector number is what matters.
Select ==
    /\ pc = "select"
    /\ pc' = "command"
    /\ drive' = IF Takes THEN [drive EXCEPT !.reg = call.lba] ELSE drive
    /\ UNCHANGED <<call, got, polls, medium, cache, expected, lapses, boots>>

Command ==
    /\ pc = "command"
    /\ pc' = "drq"
    /\ drive' = Given(call.op)
    /\ polls' = 0
    /\ UNCHANGED <<call, got, medium, cache, expected, lapses, boots>>

\* Mutant: the error bit is not looked at.
ata_wait_drq_NoError ==
    /\ pc = "drq"
    /\ \/ drive.status = "absent" /\ Return /\ UNCHANGED lapses
       \/ drive.status \in {"drq", "error"} /\ pc' = "transfer" /\ UNCHANGED <<call, polls, lapses>>
       \/ drive.status \in {"busy", "ready"} /\ Again
    /\ UNCHANGED <<got, driveVars, expected, boots>>

ata_wait_drq ==
    /\ pc = "drq"
    /\ \/ drive.status \in {"absent", "error"} /\ Return /\ UNCHANGED lapses
       \/ drive.status = "drq" /\ pc' = "transfer" /\ UNCHANGED <<call, polls, lapses>>
       \/ drive.status \in {"busy", "ready"} /\ Again
    /\ UNCHANGED <<got, driveVars, expected, boots>>

\* 256 words in.  A drive that offers nothing is read all the same.
ReadData ==
    LET offers == drive.status = "drq" /\ drive.cmd # "write"
    IN  /\ pc = "transfer" /\ call.op # "write"
        /\ got' = IF offers THEN drive.data ELSE Junk
        /\ drive' = IF offers THEN Rests("ready") ELSE drive
        /\ SectorDone
        /\ UNCHANGED <<medium, cache, expected, lapses, boots>>

\* 256 words out, to a drive that waits for them or to none.
WriteData ==
    LET waits == drive.status = "drq" /\ drive.cmd = "write"
    IN  /\ pc = "transfer" /\ call.op = "write"
        /\ pc' = "flush"
        /\ drive' = IF waits THEN [drive EXCEPT !.status = "busy", !.cmd = "store", !.data = call.data]
                     ELSE drive
        /\ expected' = [expected EXCEPT ![call.lba] = @ \union {call.data}]
        /\ UNCHANGED <<call, got, polls, medium, cache, lapses, boots>>

\* Mutant: no flush.
FlushCommand_Left ==
    /\ pc = "flush"
    /\ pc' = "notBusy"
    /\ polls' = 0
    /\ UNCHANGED <<call, got, driveVars, lapses, expected, boots>>

\* CACHE_FLUSH is written without a look at the status.
FlushCommand ==
    /\ pc = "flush"
    /\ pc' = "notBusy"
    /\ drive' = Given("flush")
    /\ polls' = 0
    /\ lapses' = lapses \union (IF Takes THEN {} ELSE {"unheard"})
                         \union (IF drive.status = "error" THEN {"unread"} ELSE {})
    /\ UNCHANGED <<call, got, medium, cache, expected, boots>>

\* Mutant: not busy is good enough.
ata_wait_not_busy_NoError ==
    /\ pc = "notBusy"
    /\ \/ drive.status = "absent" /\ Return /\ UNCHANGED <<expected, lapses>>
       \/ /\ drive.status \in {"ready", "drq", "error"}
          /\ SectorDone
          /\ expected' = [expected EXCEPT ![call.lba] = {call.data}]
          /\ UNCHANGED lapses
       \/ drive.status = "busy" /\ Again /\ UNCHANGED expected
    /\ UNCHANGED <<got, driveVars, boots>>

ata_wait_not_busy ==
    /\ pc = "notBusy"
    /\ \/ drive.status \in {"absent", "error"} /\ Return /\ UNCHANGED <<expected, lapses>>
       \/ /\ drive.status \in {"ready", "drq"}
          /\ SectorDone
          /\ expected' = [expected EXCEPT ![call.lba] = {call.data}]
          /\ UNCHANGED lapses
       \/ drive.status = "busy" /\ Again /\ UNCHANGED expected
    /\ UNCHANGED <<got, driveVars, boots>>

DriverStep ==
    \/ ata_init \/ Select \/ Command \/ ata_wait_drq \/ ReadData
    \/ WriteData \/ FlushCommand \/ ata_wait_not_busy

Calls ==
    \/ \E lba \in Lbas, count \in 1 .. MaxCount :
        /\ lba + count - 1 \in Lbas
        /\ \/ Call("read", lba, count, Zero)
           \/ \E data \in Data : Call("write", lba, count, data)
    \/ Call("identify", 0, 1, Zero)

Next == Calls \/ DriverStep \/ Drive \/ PowerFails

\* The driver runs on its own processor; nothing is asked of the drive.
Spec == Init /\ [][Next]_vars /\ WF_vars(DriverStep)

-----------------------------------------------------------------------------
(* What the filesystem may rely on *)

Sane == lapses \intersect {"gave up", "unread"} = {}

\* ata_read_sectors and ata_get_sector_count: what a call takes from the data
\* port is what the sector was last written with -- unless the driver has
\* ever given up on a command: then it may be the answer to that one.
ReadsWhatWasWritten ==
    [][ pc = "transfer" /\ pc' \in {"select", "idle"} /\ call.op # "write" /\ Sane
        => got' \in IF call.op = "identify" THEN {Identity} ELSE expected[call.lba] ]_vars

\* ata_write_sectors: a sector for which it has gone on or returned true
\* reads as what was written, one at which it failed as that or as before,
\* and every other one as before.
WritesOneSector == Sane => \A s \in Lbas : cache[s] \in expected[s]

\* CACHE_FLUSH: and so it does after a power failure, unless the drive was
\* busy when it was told to flush, which the driver does not ask.
WrittenIsDurable ==
    Sane /\ "unheard" \notin lapses => \A s \in Lbas : medium[s] \in expected[s]

\* The bounded polls: every call returns, whatever the drive does or does not.
CallsReturn == pc # "idle" ~> pc = "idle"
=============================================================================
