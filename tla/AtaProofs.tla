------------------------------ MODULE AtaProofs ------------------------------
(***************************************************************************)
(* Proofs about Ata, for every number of sectors, of polls and of power    *)
(* failures: what a sector reads as, what is on the medium, and what a     *)
(* call returns to its caller.                                             *)
(*                                                                         *)
(* The driver and the drive share nothing but the registers.  The          *)
(* invariant says, for each place the driver can be at, what the drive     *)
(* can be doing -- as long as the driver has not given up on a command.    *)
(***************************************************************************)
EXTENDS Ata, TLAPS

\* The call's sectors are sectors, and the drive stores only data.
CallFits == pc \notin {"boot", "idle"} => call.left >= 1 /\ call.lba + call.left - 1 \in Lbas
StoresData == drive.cmd = "store" => drive.data \in Data
Typed == TypeOK /\ CallFits /\ StoresData

\* What the drive can be doing while the driver is at pc.
Quiet == drive.status \in {"ready", "error", "absent"}
Obeys == drive.cmd = call.op /\ drive.lba = call.lba
Offers ==
    /\ call.op = "read" => drive.data = cache[call.lba]
    /\ call.op = "identify" => drive.data = Identity
Storing == drive.cmd = "store" /\ drive.lba = call.lba /\ drive.data = call.data
Stored == cache[call.lba] = call.data

AtBoot == pc = "boot" => drive.status \in {"ready", "error", "absent"} \/ (drive.status = "busy" /\ drive.cmd = "reset")
AtRest == pc \in {"idle", "select"} => Quiet
AtCommand == pc = "command" => Quiet /\ (drive.status # "absent" => drive.reg = call.lba)
AtDrq ==
    pc = "drq" => /\ drive.status \in {"busy", "drq", "error", "absent"}
                  /\ drive.status \in {"busy", "drq"} => Obeys
                  /\ drive.status = "drq" => Offers
AtTransfer == pc = "transfer" => drive.status = "drq" /\ Obeys /\ Offers
AtFlush ==
    pc = "flush" => /\ drive.status \in {"busy", "ready", "error"}
                    /\ drive.status = "busy" => Storing
                    /\ drive.status = "ready" => Stored
                    /\ call.data \in expected[call.lba]
AtNotBusy ==
    pc = "notBusy" =>
        /\ drive.status \in {"busy", "ready", "error"}
        /\ call.data \in expected[call.lba]
        /\ drive.status = "busy" => \/ Storing /\ "unheard" \in lapses
                                    \/ drive.cmd = "flush" /\ Stored
        /\ drive.status = "ready" => Stored /\ ("unheard" \in lapses \/ medium[call.lba] = call.data)

InStep == AtBoot /\ AtRest /\ AtCommand /\ AtDrq /\ AtTransfer /\ AtFlush /\ AtNotBusy

ReadsRight == \A s \in Lbas : cache[s] \in expected[s]
KeepsRight == "unheard" \notin lapses => \A s \in Lbas : medium[s] \in expected[s]

AtaInv == Typed /\ (Sane => InStep /\ ReadsRight /\ KeepsRight)
-----------------------------------------------------------------------------
(* Types *)

\* The numbers and records everything starts from.
LEMMA Constants ==
    /\ 0 \in Lbas /\ 0 \in 0 .. Polls - 1 /\ 1 \in 1 .. MaxCount /\ 0 \in 0 .. MaxBoots
    /\ Zero \in Data
  BY AtaAssumption DEF Lbas

LEMMA StartRecords == NoCall \in CallRecords /\ Resetting \in DriveRecords
  <1>1. 0 \in 0 .. MaxCount
    BY AtaAssumption
  <1> QED
    BY <1>1, Constants DEF NoCall, Resetting, CallRecords, DriveRecords, Ops, Statuses, Commands

\* Init, and the types it gives.
LEMMA TypedInit ==
    ASSUME Init PROVE Typed
  <1>1. drive \in DriveRecords /\ drive.cmd = "reset"
    BY StartRecords DEF Init, Resetting, DriveRecords, Statuses
  <1>2. TypeOK
    BY <1>1, StartRecords, Constants DEF Init, TypeOK, Places
  <1> QED
    BY <1>1, <1>2 DEF Init, Typed, CallFits, StoresData

\* Return, Again and SectorDone: what the end of a sector does to the call.
LEMMA ReturnTyped ==
    ASSUME Return
    PROVE  pc' = "idle" /\ call' \in CallRecords /\ polls' \in 0 .. Polls - 1
  BY StartRecords, Constants DEF Return

LEMMA AgainTyped ==
    ASSUME Typed, Again
    PROVE  /\ pc' = "idle" \/ (pc' = pc /\ call' = call)
           /\ call' \in CallRecords
           /\ polls' \in 0 .. Polls - 1
           /\ lapses' \subseteq {"gave up", "unheard", "unread"}
  <1>1. CASE polls + 1 = Polls
    BY <1>1, ReturnTyped DEF Again, Typed, TypeOK
  <1>2. CASE polls + 1 # Polls
    <2>1. polls' = polls + 1 /\ pc' = pc /\ call' = call /\ lapses' = lapses
      BY <1>2 DEF Again
    <2>2. polls \in 0 .. Polls - 1 /\ Polls \in Nat
      BY AtaAssumption DEF Typed, TypeOK
    <2>3. polls' \in 0 .. Polls - 1
      BY <1>2, <2>1, <2>2
    <2> QED
      BY <2>1, <2>3 DEF Typed, TypeOK
  <1> QED
    BY <1>1, <1>2

LEMMA NextSector ==
    ASSUME Typed, call.left > 1, pc \notin {"boot", "idle"},
           call' = [call EXCEPT !.lba = @ + 1, !.left = @ - 1]
    PROVE  call' \in CallRecords /\ call'.left >= 1 /\ call'.lba + call'.left - 1 \in Lbas
  <1>1. call.lba \in Lbas /\ call.left \in 0 .. MaxCount /\ call.lba + call.left - 1 \in Lbas
    BY DEF Typed, TypeOK, CallFits, CallRecords
  <1>2. call.lba + 1 \in Lbas /\ call.left - 1 \in 0 .. MaxCount
    BY <1>1, AtaAssumption DEF Lbas
  <1>3. call' \in CallRecords /\ call'.lba = call.lba + 1 /\ call'.left = call.left - 1
    BY <1>2 DEF Typed, TypeOK, CallRecords
  <1> QED
    BY <1>1, <1>2, <1>3, AtaAssumption DEF Lbas

LEMMA SectorDoneTyped ==
    ASSUME Typed, SectorDone, pc \notin {"boot", "idle"}
    PROVE  /\ pc' \in {"select", "idle"} /\ call' \in CallRecords
           /\ pc' = "select" => call'.left >= 1 /\ call'.lba + call'.left - 1 \in Lbas
           /\ polls' \in 0 .. Polls - 1
  <1>1. CASE call.left > 1
    BY <1>1, NextSector DEF SectorDone, Typed, TypeOK
  <1>2. CASE ~(call.left > 1)
    BY <1>2, ReturnTyped DEF SectorDone
  <1> QED
    BY <1>1, <1>2

\* A call's sectors are sectors.
LEMMA TypedCalls ==
    ASSUME Typed, Calls PROVE Typed'
  <1>1. ASSUME NEW op \in Ops, NEW lba \in Lbas, NEW count \in 1 .. MaxCount, NEW data \in Data,
               lba + count - 1 \in Lbas, Call(op, lba, count, data)
        PROVE  Typed'
    <2>1. count \in 0 .. MaxCount /\ count >= 1
      BY AtaAssumption
    <2>2. call' \in CallRecords /\ call'.left = count /\ call'.lba = lba
      BY <1>1, <2>1 DEF Call, CallRecords
    <2>3. TypeOK'
      BY <1>1, <2>2, Constants DEF Typed, TypeOK, Call, driveVars, Places
    <2> QED
      BY <1>1, <2>1, <2>2, <2>3 DEF Typed, CallFits, StoresData, Call, driveVars
  <1>2. 0 + 1 - 1 = 0
    OBVIOUS
  <1> QED
    BY <1>1, <1>2, Constants DEF Calls, Ops

\* The drive's own steps, and the registers it takes.
LEMMA GivenTyped ==
    ASSUME Typed, NEW cmd \in Ops \union {"flush"}
    PROVE  Given(cmd) \in DriveRecords /\ (Given(cmd).cmd = "store" => Given(cmd).data \in Data)
  <1>1. CASE Takes
    BY <1>1 DEF Given, Typed, TypeOK, StoresData, DriveRecords, Statuses, Commands, Ops
  <1>2. CASE ~Takes
    BY <1>2 DEF Given, Typed, TypeOK, StoresData
  <1> QED
    BY <1>1, <1>2

LEMMA RestsTyped ==
    ASSUME Typed, NEW status \in Statuses
    PROVE  Rests(status) \in DriveRecords /\ Rests(status).cmd = "reset" /\ Rests(status).status = status
  BY StartRecords DEF Rests, Resetting, Typed, TypeOK, DriveRecords

LEMMA TypedDrive ==
    ASSUME Typed, Drive PROVE Typed'
  <1> DEFINE Quits == drive' \in DriveRecords /\ drive'.cmd = "reset"
  <1>1. CASE DriveFails
    <2>1. Quits
      BY <1>1, RestsTyped DEF DriveFails, Statuses
    <2> QED
      BY <1>1, <2>1 DEF DriveFails, Works, Typed, TypeOK, CallFits, StoresData, driverVars
  <1>2. CASE DriveOffers
    <2>1. drive.lba \in Lbas /\ cache[drive.lba] \in Data /\ drive.cmd \in Ops
      BY <1>2 DEF DriveOffers, Works, Typed, TypeOK, DriveRecords
    <2>2. drive' \in DriveRecords /\ drive'.cmd = drive.cmd
      BY <1>2, <2>1 DEF DriveOffers, Typed, TypeOK, DriveRecords, Statuses, Ops
    <2> QED
      BY <1>2, <2>1, <2>2 DEF DriveOffers, Works, Typed, TypeOK, CallFits, StoresData, driverVars, Ops
  <1>3. CASE DriveStores
    <2>1. Quits
      BY <1>3, RestsTyped DEF DriveStores, Statuses
    <2>2. drive.data \in Data
      BY <1>3 DEF DriveStores, Works, Typed, StoresData
    <2>3. cache' \in [Lbas -> Data]
      BY <1>3, <2>2 DEF DriveStores, Typed, TypeOK
    <2> QED
      BY <1>3, <2>1, <2>3 DEF DriveStores, Works, Typed, TypeOK, CallFits, StoresData, driverVars
  <1>4. CASE DriveFlushes
    <2>1. Quits
      BY <1>4, RestsTyped DEF DriveFlushes, Statuses
    <2> QED
      BY <1>4, <2>1 DEF DriveFlushes, Works, Typed, TypeOK, CallFits, StoresData, driverVars
  <1>5. CASE DriveResets
    <2>1. Quits
      BY <1>5, RestsTyped DEF DriveResets, Statuses
    <2> QED
      BY <1>5, <2>1 DEF DriveResets, Works, Typed, TypeOK, CallFits, StoresData, driverVars
  <1>6. CASE DriveWritesBack
    <2>1. medium' \in [Lbas -> Data]
      BY <1>6 DEF DriveWritesBack, Typed, TypeOK
    <2> QED
      BY <1>6, <2>1 DEF DriveWritesBack, Typed, TypeOK, CallFits, StoresData, driverVars
  <1> QED
    BY <1>1, <1>2, <1>3, <1>4, <1>5, <1>6 DEF Drive

LEMMA TypedPower ==
    ASSUME Typed, PowerFails PROVE Typed'
  <1>1. boots \in 0 .. MaxBoots /\ MaxBoots \in Nat /\ boots < MaxBoots /\ boots' = boots + 1
    BY AtaAssumption DEF PowerFails, Typed, TypeOK
  <1>3. boots' \in 0 .. MaxBoots
    BY <1>1
  <1>2. expected' \in [Lbas -> SUBSET Data]
    BY DEF PowerFails, Typed, TypeOK
  <1> QED
    BY <1>2, <1>3, StartRecords, Constants DEF PowerFails, Typed, TypeOK, CallFits, StoresData, Places, Resetting

LEMMA TypedDriver ==
    ASSUME Typed, DriverStep PROVE Typed'
  <1>1. CASE ata_init
    <2>1. pc' \in {"idle", "boot"} /\ call' \in CallRecords /\ polls' \in 0 .. Polls - 1
          /\ lapses' \subseteq {"gave up", "unheard", "unread"}
      BY <1>1, ReturnTyped, AgainTyped DEF ata_init, Typed, TypeOK
    <2> QED
      BY <1>1, <2>1 DEF ata_init, driveVars, Typed, TypeOK, CallFits, StoresData, Places
  <1>2. CASE Select
    <2>1. call.lba \in Lbas
      BY DEF Typed, TypeOK, CallRecords
    <2>2. drive' \in DriveRecords /\ drive'.cmd = drive.cmd /\ drive'.data = drive.data
      BY <1>2, <2>1 DEF Select, Typed, TypeOK, DriveRecords
    <2> QED
      BY <1>2, <2>2 DEF Select, Typed, TypeOK, CallFits, StoresData, Places
  <1>3. CASE Command
    <2>1. call.op \in Ops
      BY DEF Typed, TypeOK, CallRecords
    <2> QED
      BY <1>3, <2>1, GivenTyped, Constants DEF Command, Typed, TypeOK, CallFits, StoresData, Places
  <1>4. CASE ata_wait_drq
    <2>1. pc' \in {"idle", "transfer"} \/ pc' = pc
      BY <1>4, AgainTyped DEF ata_wait_drq, Return
    <2>2. /\ pc' # "idle" => call' = call
          /\ call' \in CallRecords /\ polls' \in 0 .. Polls - 1
          /\ lapses' \subseteq {"gave up", "unheard", "unread"}
      BY <1>4, ReturnTyped, AgainTyped DEF ata_wait_drq, Typed, TypeOK
    <2> QED
      BY <1>4, <2>1, <2>2 DEF ata_wait_drq, driveVars, Typed, TypeOK, CallFits, StoresData, Places
  <1>5. CASE ReadData
    <2>1. got' \in Data \union {Identity, Junk}
      BY <1>5 DEF ReadData, Typed, TypeOK, DriveRecords
    <2>2. drive' \in DriveRecords /\ (drive'.cmd = "store" => drive'.data \in Data)
      BY <1>5, RestsTyped DEF ReadData, Typed, TypeOK, StoresData, Statuses
    <2> QED
      BY <1>5, <2>1, <2>2, SectorDoneTyped DEF ReadData, Typed, TypeOK, CallFits, StoresData, Places
  <1>6. CASE WriteData
    <2>1. call.lba \in Lbas /\ call.data \in Data
      BY DEF Typed, TypeOK, CallRecords
    <2>2. drive' \in DriveRecords /\ (drive'.cmd = "store" => drive'.data \in Data)
      BY <1>6, <2>1 DEF WriteData, Typed, TypeOK, StoresData, DriveRecords, Statuses, Commands
    <2>3. expected' \in [Lbas -> SUBSET Data]
      BY <1>6, <2>1 DEF WriteData, Typed, TypeOK
    <2> QED
      BY <1>6, <2>2, <2>3 DEF WriteData, Typed, TypeOK, CallFits, StoresData, Places
  <1>7. CASE FlushCommand
    <2>1. lapses' \subseteq {"gave up", "unheard", "unread"}
      BY <1>7 DEF FlushCommand, Typed, TypeOK
    <2> QED
      BY <1>7, <2>1, GivenTyped, Constants DEF FlushCommand, Typed, TypeOK, CallFits, StoresData, Places
  <1>8. CASE ata_wait_not_busy
    <2>1. expected' \in [Lbas -> SUBSET Data]
      <3>1. call.lba \in Lbas /\ call.data \in Data /\ expected \in [Lbas -> SUBSET Data]
        BY DEF Typed, TypeOK, CallRecords
      <3>2. expected' = expected \/ expected' = [expected EXCEPT ![call.lba] = {call.data}]
        BY <1>8 DEF ata_wait_not_busy
      <3> QED
        BY <3>1, <3>2
    <2>2. lapses' \subseteq {"gave up", "unheard", "unread"}
      BY <1>8, AgainTyped DEF ata_wait_not_busy, Typed, TypeOK
    <2>3. /\ pc' \in {"idle", "select", "notBusy"}
          /\ call' \in CallRecords /\ polls' \in 0 .. Polls - 1
          /\ pc' # "idle" => call'.left >= 1 /\ call'.lba + call'.left - 1 \in Lbas
      BY <1>8, ReturnTyped, AgainTyped, SectorDoneTyped DEF ata_wait_not_busy, Typed, CallFits
    <2> QED
      BY <1>8, <2>1, <2>2, <2>3 DEF ata_wait_not_busy, driveVars, Typed, TypeOK, CallFits, StoresData, Places
  <1> QED
    BY <1>1, <1>2, <1>3, <1>4, <1>5, <1>6, <1>7, <1>8 DEF DriverStep

\* No step of the driver, of the drive or of the power takes a register, a
\* sector number or a poll counter out of its range.
LEMMA TypedStep ==
    ASSUME Typed, [Next]_vars PROVE Typed'
  <1>1. CASE UNCHANGED vars
    BY <1>1 DEF vars, driverVars, driveVars, Typed, TypeOK, CallFits, StoresData
  <1> QED
    BY <1>1, TypedCalls, TypedDrive, TypedPower, TypedDriver DEF Next

-----------------------------------------------------------------------------
(* The driver and the drive in step *)

Good == InStep /\ ReadsRight /\ KeepsRight

\* Again, in a run in which the driver never gives up, only counts.
LEMMA AgainSane ==
    ASSUME Again, Sane' PROVE pc' = pc /\ call' = call /\ lapses' = lapses
  <1>1. polls + 1 # Polls
    BY DEF Again, Sane
  <1> QED
    BY <1>1 DEF Again

LEMMA SectorDoneAt ==
    ASSUME SectorDone PROVE pc' \in {"select", "idle"}
  BY DEF SectorDone, Return

\* After a step of the driver that ends a sector or a call.
LEMMA GoodAtRest ==
    ASSUME pc' \in {"select", "idle"}, Quiet', ReadsRight', KeepsRight'
    PROVE  Good'
  BY DEF Good, InStep, AtBoot, AtRest, AtCommand, AtDrq, AtTransfer, AtFlush, AtNotBusy

LEMMA GoodInit ==
    ASSUME Init PROVE Good
  <1>1. ReadsRight /\ KeepsRight
    BY DEF Init, ReadsRight, KeepsRight
  <1>2. AtBoot /\ pc = "boot"
    BY StartRecords DEF Init, AtBoot, Resetting, DriveRecords, Statuses
  <1> QED
    BY <1>1, <1>2 DEF Good, InStep, AtRest, AtCommand, AtDrq, AtTransfer, AtFlush, AtNotBusy

LEMMA GoodCalls ==
    ASSUME Good, Calls PROVE Good'
  <1>1. pc = "idle" /\ pc' = "select" /\ UNCHANGED <<driveVars, expected, lapses>>
    BY DEF Calls, Call
  <1> QED
    BY <1>1, GoodAtRest DEF Good, InStep, AtRest, Quiet, driveVars, ReadsRight, KeepsRight

\* The drive's steps, by where the driver can be.
LEMMA GoodDrive ==
    ASSUME Typed, Good, Drive PROVE Good'
  <1> DEFINE Where(places) == pc \in places /\ drive.status = "busy"
             Same == pc' = pc /\ call' = call /\ expected' = expected
  <1>0. call.lba \in Lbas /\ call.data \in Data /\ drive.status \in Statuses /\ pc \in Places
    BY DEF Typed, TypeOK, CallRecords, DriveRecords
  <1>1. CASE DriveFails
    <2>1. drive'.status = "error" /\ Same /\ drive.status = "busy"
          /\ UNCHANGED <<medium, cache, lapses>>
      BY <1>1, RestsTyped DEF DriveFails, Works, driverVars, Statuses
    <2> QED
      BY <2>1 DEF Good, InStep, AtBoot, AtRest, AtCommand, AtDrq, AtTransfer, AtFlush, AtNotBusy,
         Quiet, ReadsRight, KeepsRight
  <1>2. CASE DriveOffers
    <2>1. pc = "drq" /\ Obeys
      BY <1>2, <1>0 DEF DriveOffers, Works, Good, InStep, AtBoot, AtRest, AtCommand, AtDrq, AtTransfer,
         AtFlush, AtNotBusy, Quiet, Storing, Places, Ops
    <2>2. Same /\ UNCHANGED <<medium, cache, lapses>>
      BY <1>2 DEF DriveOffers, Works, driverVars
    <2>3. /\ drive'.status = "drq" /\ drive'.cmd = drive.cmd /\ drive'.lba = drive.lba
          /\ drive.cmd = "read" => drive'.data = cache[drive.lba]
          /\ drive.cmd = "identify" => drive'.data = Identity
      BY <1>2 DEF DriveOffers, Typed, TypeOK, DriveRecords
    <2> QED
      BY <2>1, <2>2, <2>3 DEF Good, InStep, AtBoot, AtRest, AtCommand, AtDrq, AtTransfer, AtFlush,
         AtNotBusy, Obeys, Offers, ReadsRight, KeepsRight
  <1>3. CASE DriveStores
    <2>1. /\ pc \in {"flush", "notBusy"} /\ Storing /\ call.data \in expected[call.lba]
          /\ pc = "notBusy" => "unheard" \in lapses
      BY <1>3, <1>0 DEF DriveStores, Works, Good, InStep, AtBoot, AtRest, AtCommand, AtDrq, AtTransfer,
         AtFlush, AtNotBusy, Quiet, Obeys, Places, Ops, Typed, TypeOK, CallRecords
    <2>2. Same /\ UNCHANGED <<medium, lapses>> /\ drive'.status = "ready"
      BY <1>3, RestsTyped DEF DriveStores, Works, driverVars, Statuses
    <2>3. cache' = [cache EXCEPT ![call.lba] = call.data]
      BY <1>3, <2>1 DEF DriveStores, Storing
    <2>4. cache'[call.lba] = call.data /\ ReadsRight'
      BY <1>0, <2>1, <2>2, <2>3 DEF Good, ReadsRight, Typed, TypeOK
    <2> QED
      BY <2>1, <2>2, <2>4 DEF Good, InStep, AtBoot, AtRest, AtCommand, AtDrq, AtTransfer, AtFlush,
         AtNotBusy, Stored, KeepsRight
  <1>4. CASE DriveFlushes
    <2>1. pc = "notBusy" /\ Stored /\ call.data \in expected[call.lba]
      BY <1>4, <1>0 DEF DriveFlushes, Works, Good, InStep, AtBoot, AtRest, AtCommand, AtDrq, AtTransfer,
         AtFlush, AtNotBusy, Quiet, Obeys, Storing, Places, Ops, Typed, TypeOK, CallRecords
    <2>2. Same /\ cache' = cache /\ medium' = cache /\ drive'.status = "ready"
      BY <1>4, RestsTyped DEF DriveFlushes, Works, driverVars, Statuses
    <2> QED
      BY <2>1, <2>2 DEF Good, InStep, AtBoot, AtRest, AtCommand, AtDrq, AtTransfer, AtFlush, AtNotBusy,
         Stored, ReadsRight, KeepsRight
  <1>5. CASE DriveResets
    <2>1. pc = "boot"
      BY <1>5, <1>0 DEF DriveResets, Works, Good, InStep, AtBoot, AtRest, AtCommand, AtDrq, AtTransfer,
         AtFlush, AtNotBusy, Quiet, Obeys, Storing, Places, Ops, Typed, TypeOK, CallRecords
    <2>2. Same /\ UNCHANGED <<medium, cache, lapses>> /\ drive'.status = "ready"
      BY <1>5, RestsTyped DEF DriveResets, Works, driverVars, Statuses
    <2> QED
      BY <2>1, <2>2 DEF Good, InStep, AtBoot, AtRest, AtCommand, AtDrq, AtTransfer, AtFlush, AtNotBusy,
         ReadsRight, KeepsRight
  <1>6. CASE DriveWritesBack
    <2>1. Same /\ UNCHANGED <<drive, cache, lapses>>
      BY <1>6 DEF DriveWritesBack, driverVars
    <2>2. \A s \in Lbas : medium'[s] \in {medium[s], cache[s]}
      BY <1>6 DEF DriveWritesBack, Typed, TypeOK
    <2>3. KeepsRight'
      BY <2>1, <2>2 DEF Good, ReadsRight, KeepsRight
    <2>4. AtNotBusy'
      BY <1>0, <2>1, <2>2 DEF Good, InStep, AtNotBusy, Storing, Stored
    <2> QED
      BY <2>1, <2>3, <2>4 DEF Good, InStep, AtBoot, AtRest, AtCommand, AtDrq, AtTransfer, AtFlush,
         Quiet, Obeys, Offers, Storing, Stored, ReadsRight
  <1> QED
    BY <1>1, <1>2, <1>3, <1>4, <1>5, <1>6 DEF Drive

\* What was flushed is what the sectors may hold after the power is back.
LEMMA GoodPower ==
    ASSUME Typed, Good, PowerFails PROVE Good'
  <1>1. \A s \in Lbas : medium[s] \in expected'[s]
    BY DEF PowerFails, Good, KeepsRight, Typed, TypeOK
  <1>2. ReadsRight' /\ KeepsRight'
    BY <1>1 DEF PowerFails, ReadsRight, KeepsRight
  <1>3. AtBoot' /\ pc' = "boot"
    BY DEF PowerFails, AtBoot, Resetting
  <1> QED
    BY <1>2, <1>3 DEF Good, InStep, AtRest, AtCommand, AtDrq, AtTransfer, AtFlush, AtNotBusy

LEMMA GoodDriver ==
    ASSUME Typed, Good, DriverStep, Sane' PROVE Good'
  <1>0. call.lba \in Lbas /\ call.data \in Data /\ drive.status \in Statuses
    BY DEF Typed, TypeOK, CallRecords, DriveRecords
  <1>1. CASE ata_init
    <2>1. UNCHANGED <<driveVars, expected>> /\ pc = "boot" /\ lapses' = lapses
          /\ (pc' = "boot" \/ (pc' = "idle" /\ Quiet))
      BY <1>1, AgainSane DEF ata_init, Return, Quiet, Takes
    <2> QED
      BY <2>1, GoodAtRest DEF Good, InStep, AtBoot, AtRest, AtCommand, AtDrq, AtTransfer, AtFlush,
         AtNotBusy, Quiet, driveVars, ReadsRight, KeepsRight
  <1>2. CASE Select
    <2>1. pc' = "command" /\ Quiet /\ UNCHANGED <<call, medium, cache, expected, lapses>>
      BY <1>2 DEF Select, Good, InStep, AtRest
    <2>2. drive'.status = drive.status /\ (drive.status # "absent" => drive'.reg = call.lba)
      BY <1>2, <2>1 DEF Select, Takes, Quiet, Typed, TypeOK, DriveRecords
    <2> QED
      BY <2>1, <2>2 DEF Good, InStep, AtBoot, AtRest, AtCommand, AtDrq, AtTransfer, AtFlush, AtNotBusy,
         Quiet, ReadsRight, KeepsRight
  <1>3. CASE Command
    <2>1. pc' = "drq" /\ Quiet /\ (drive.status # "absent" => drive.reg = call.lba)
          /\ drive' = Given(call.op) /\ UNCHANGED <<call, medium, cache, expected, lapses>>
      BY <1>3 DEF Command, Good, InStep, AtCommand
    <2>2. \/ drive' = drive /\ drive.status = "absent"
          \/ drive'.status = "busy" /\ drive'.cmd = call.op /\ drive'.lba = call.lba
      BY <2>1 DEF Given, Takes, Quiet, Typed, TypeOK, DriveRecords
    <2> QED
      BY <2>1, <2>2 DEF Good, InStep, AtBoot, AtRest, AtCommand, AtDrq, AtTransfer, AtFlush, AtNotBusy,
         Obeys, ReadsRight, KeepsRight
  <1>4. CASE ata_wait_drq
    <2>1. UNCHANGED <<driveVars, expected>> /\ lapses' = lapses /\ pc = "drq"
          /\ \/ pc' = "idle" /\ drive.status \in {"absent", "error"}
             \/ pc' = "transfer" /\ call' = call /\ drive.status = "drq"
             \/ pc' = pc /\ call' = call
      BY <1>4, AgainSane DEF ata_wait_drq, Return
    <2>2. CASE pc' = "idle" /\ drive.status \in {"absent", "error"}
      BY <2>1, <2>2, GoodAtRest DEF Good, Quiet, driveVars, ReadsRight, KeepsRight
    <2>3. CASE call' = call /\ (pc' = pc \/ (pc' = "transfer" /\ drive.status = "drq"))
      BY <2>1, <2>3 DEF Good, InStep, AtBoot, AtRest, AtCommand, AtDrq, AtTransfer, AtFlush, AtNotBusy,
         Quiet, Obeys, Offers, driveVars, ReadsRight, KeepsRight
    <2> QED
      BY <2>1, <2>2, <2>3
  <1>5. CASE ReadData
    <2>1. drive.status = "drq" /\ drive.cmd = call.op /\ call.op # "write"
      BY <1>5 DEF ReadData, Good, InStep, AtTransfer, Obeys
    <2>2. drive' = Rests("ready")
      BY <1>5, <2>1 DEF ReadData
    <2>3. drive'.status = "ready"
      BY <2>2, RestsTyped DEF Statuses
    <2>4. pc' \in {"select", "idle"} /\ UNCHANGED <<medium, cache, expected, lapses>>
      BY <1>5, SectorDoneAt DEF ReadData
    <2> QED
      BY <2>3, <2>4, GoodAtRest DEF Good, Quiet, ReadsRight, KeepsRight
  <1>6. CASE WriteData
    <2>1. drive.status = "drq" /\ drive.cmd = "write" /\ drive.lba = call.lba
      BY <1>6 DEF WriteData, Good, InStep, AtTransfer, Obeys
    <2>2. drive' = [drive EXCEPT !.status = "busy", !.cmd = "store", !.data = call.data]
      BY <1>6, <2>1 DEF WriteData
    <2>3. drive'.status = "busy" /\ drive'.cmd = "store" /\ drive'.lba = call.lba /\ drive'.data = call.data
      BY <2>1, <2>2 DEF Typed, TypeOK, DriveRecords
    <2>4. pc' = "flush" /\ UNCHANGED <<call, medium, cache, lapses>>
          /\ expected' = [expected EXCEPT ![call.lba] = @ \union {call.data}]
      BY <1>6 DEF WriteData
    <2>5. call.data \in expected'[call.lba] /\ \A s \in Lbas : expected[s] \subseteq expected'[s]
      BY <1>0, <2>4 DEF Typed, TypeOK
    <2> QED
      BY <2>3, <2>4, <2>5 DEF Good, InStep, AtBoot, AtRest, AtCommand, AtDrq, AtTransfer, AtFlush,
         AtNotBusy, Storing, ReadsRight, KeepsRight
  <1>7. CASE FlushCommand
    <2>1. pc' = "notBusy" /\ UNCHANGED <<call, medium, cache, expected>> /\ drive' = Given("flush")
          /\ "unread" \notin lapses'
      BY <1>7 DEF FlushCommand, Sane
    <2>2. drive.status \in {"busy", "ready"} /\ (drive.status = "busy" => "unheard" \in lapses')
          /\ ("unheard" \in lapses => "unheard" \in lapses')
      BY <1>7, <2>1 DEF FlushCommand, Takes, Good, InStep, AtFlush
    <2>3. CASE drive.status = "busy"
      <3>1. drive' = drive
        BY <2>1, <2>3 DEF Given, Takes
      <3> QED
        BY <1>7, <2>1, <2>2, <2>3, <3>1 DEF FlushCommand, Good, InStep, AtBoot, AtRest, AtCommand, AtDrq,
           AtTransfer, AtFlush, AtNotBusy, Storing, ReadsRight, KeepsRight
    <2>4. CASE drive.status = "ready"
      <3>1. drive'.status = "busy" /\ drive'.cmd = "flush"
        BY <2>1, <2>4 DEF Given, Takes, Typed, TypeOK, DriveRecords
      <3> QED
        BY <1>7, <2>1, <2>2, <2>4, <3>1 DEF FlushCommand, Good, InStep, AtBoot, AtRest, AtCommand, AtDrq,
           AtTransfer, AtFlush, AtNotBusy, Stored, ReadsRight, KeepsRight
    <2> QED
      BY <2>2, <2>3, <2>4
  <1>8. CASE ata_wait_not_busy
    <2>1. UNCHANGED driveVars /\ lapses' = lapses /\ pc = "notBusy"
          /\ \/ pc' = "idle" /\ expected' = expected /\ drive.status \in {"absent", "error"}
             \/ /\ pc' \in {"select", "idle"} /\ drive.status \in {"ready", "drq"}
                /\ expected' = [expected EXCEPT ![call.lba] = {call.data}]
             \/ pc' = pc /\ call' = call /\ expected' = expected
      BY <1>8, AgainSane, SectorDoneAt DEF ata_wait_not_busy, Return
    <2>2. CASE pc' = "idle" /\ expected' = expected /\ drive.status \in {"absent", "error"}
      BY <2>1, <2>2, GoodAtRest DEF Good, Quiet, driveVars, ReadsRight, KeepsRight
    <2>3. CASE /\ pc' \in {"select", "idle"} /\ drive.status \in {"ready", "drq"}
               /\ expected' = [expected EXCEPT ![call.lba] = {call.data}]
      <3>1. drive.status = "ready" /\ cache[call.lba] = call.data
            /\ ("unheard" \in lapses \/ medium[call.lba] = call.data)
        BY <2>1, <2>3 DEF Good, InStep, AtNotBusy, Stored
      <3>2. \A s \in Lbas : expected'[s] = IF s = call.lba THEN {call.data} ELSE expected[s]
        BY <1>0, <2>3 DEF Typed, TypeOK
      <3>3. ReadsRight' /\ KeepsRight'
        BY <2>1, <3>1, <3>2 DEF Good, ReadsRight, KeepsRight, driveVars
      <3> QED
        BY <2>1, <2>3, <3>1, <3>3, GoodAtRest DEF Quiet, driveVars
    <2>4. CASE pc' = pc /\ call' = call /\ expected' = expected
      BY <2>1, <2>4 DEF Good, InStep, AtBoot, AtRest, AtCommand, AtDrq, AtTransfer, AtFlush, AtNotBusy,
         Storing, Stored, driveVars, ReadsRight, KeepsRight
    <2> QED
      BY <2>1, <2>2, <2>3, <2>4
  <1> QED
    BY <1>1, <1>2, <1>3, <1>4, <1>5, <1>6, <1>7, <1>8 DEF DriverStep

\* A lapse that breaks the step between driver and drive is never forgotten.
LEMMA SaneBefore ==
    ASSUME [Next]_vars, Sane' PROVE Sane
  BY DEF Next, vars, Sane, Calls, Call, DriverStep, ata_init, Select, Command, ata_wait_drq, ReadData,
     WriteData, FlushCommand, ata_wait_not_busy, Again, Drive, DriveFails, DriveOffers, DriveStores,
     DriveFlushes, DriveResets, DriveWritesBack, PowerFails

LEMMA AtaInvStep ==
    ASSUME AtaInv, [Next]_vars PROVE AtaInv'
  <1>1. Typed'
    BY TypedStep DEF AtaInv
  <1>2. ASSUME Sane' PROVE Good'
    <2>1. Typed /\ Good
      BY <1>2, SaneBefore DEF AtaInv, Good
    <2>2. CASE UNCHANGED vars
      BY <2>1, <2>2 DEF vars, driverVars, driveVars, Good, InStep, AtBoot, AtRest, AtCommand, AtDrq,
         AtTransfer, AtFlush, AtNotBusy, Quiet, Obeys, Offers, Storing, Stored, ReadsRight, KeepsRight
    <2> QED
      BY <1>2, <2>1, <2>2, GoodCalls, GoodDrive, GoodPower, GoodDriver DEF Next
  <1> QED
    BY <1>1, <1>2 DEF AtaInv, Good

-----------------------------------------------------------------------------
\* The driver and the drive are in step, through any errors and power
\* failures, for as long as the driver has not given up on a command or
\* cleared an error unread (ata.cpp).
THEOREM InStepAlways == Spec => []AtaInv
  <1>1. Init => AtaInv
    BY TypedInit, GoodInit DEF AtaInv, Good
  <1>2. AtaInv /\ [Next]_vars => AtaInv'
    BY AtaInvStep
  <1> QED
    BY <1>1, <1>2, PTL DEF Spec

\* Registers, calls and polls stay in their ranges (ata.cpp).
THEOREM AtaTypes == Spec => []TypeOK
  <1>1. AtaInv => TypeOK
    BY DEF AtaInv, Typed
  <1> QED
    BY <1>1, InStepAlways, PTL

\* ata_write_sectors: every sector reads as it was last written, or, where a
\* call failed, as that or as before; and no other sector changes.
THEOREM WritesAreExact == Spec => []WritesOneSector
  <1>1. AtaInv => WritesOneSector
    BY DEF AtaInv, ReadsRight, WritesOneSector
  <1> QED
    BY <1>1, InStepAlways, PTL

\* CACHE_FLUSH: and so it does after a power failure, if the drive was told
\* to flush when it could hear it.
THEOREM WritesAreDurable == Spec => []WrittenIsDurable
  <1>1. AtaInv => WrittenIsDurable
    BY DEF AtaInv, KeepsRight, WrittenIsDurable
  <1> QED
    BY <1>1, InStepAlways, PTL

\* ata_read_sectors and ata_get_sector_count: what comes out of the data port
\* is the answer to this command, for the sector that was asked for.
THEOREM ReadsAreExact == Spec => ReadsWhatWasWritten
  <1>1. ASSUME AtaInv, [Next]_vars, pc = "transfer", pc' \in {"select", "idle"}, call.op # "write", Sane
        PROVE  got' \in IF call.op = "identify" THEN {Identity} ELSE expected[call.lba]
    <2>1. Good /\ call.lba \in Lbas /\ call.op \in Ops
      BY <1>1 DEF AtaInv, Good, Typed, TypeOK, CallRecords
    <2>2. drive.status = "drq" /\ drive.cmd = call.op /\ Offers
      BY <1>1, <2>1 DEF Good, InStep, AtTransfer, Obeys
    <2>3. ReadData
      BY <1>1 DEF Next, vars, driverVars, Calls, Call, DriverStep, ata_init, Select, Command,
         ata_wait_drq, WriteData, FlushCommand, ata_wait_not_busy, Drive, DriveFails, DriveOffers,
         DriveStores, DriveFlushes, DriveResets, DriveWritesBack, Works, PowerFails
    <2>4. got' = drive.data
      BY <1>1, <2>2, <2>3 DEF ReadData
    <2> QED
      BY <1>1, <2>1, <2>2, <2>4 DEF Good, Offers, ReadsRight, Ops
  <1>2. AtaInv /\ [Next]_vars
        => [pc = "transfer" /\ pc' \in {"select", "idle"} /\ call.op # "write" /\ Sane
            => got' \in IF call.op = "identify" THEN {Identity} ELSE expected[call.lba]]_vars
    BY <1>1
  <1> QED
    BY <1>2, InStepAlways, PTL DEF Spec, ReadsWhatWasWritten
=============================================================================
