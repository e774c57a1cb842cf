------------------------------- MODULE Disks -------------------------------
(***************************************************************************)
(* The IDE controller and the floppy controller on their common line, and  *)
(* a guest whose one disk driver, behind the operating system's lock, uses *)
(* either.  The driver follows the protocols of the two controllers: it    *)
(* waits for the line, reads the status, moves the data asked for.  It may *)
(* give up and reset the drives at any time.  Discs and floppies change    *)
(* whenever the user likes, and the host's files may fail.                 *)
(*                                                                         *)
(* Only the CPU thread accesses the controllers, so the register writes    *)
(* that lead to a command are one step with it.                            *)
(***************************************************************************)
EXTENDS Ata, Fdc

CONSTANTS
    Jobs,       \* bound: the driver's first job is one of Jobs[1], and so on
    MaxChanges  \* bound: discs and floppies changed, and resets

Commands ==
    {"read", "write", "identify", "packet", "calibrate", "verify", "parameters", "power",
     "seek", "diagnose", "multiple", "device reset", "identify disk", "unsupported"}

(* The jobs are ones the driver would give: a drive that exists, a known    *)
(* command, a count of 1 to Base sectors, for which the register of Base   *)
(* has 0, and packets and floppy transfers with numbers where they belong. *)
ASSUME JobsAssumption ==
    /\ Len(Jobs) \in Nat
    /\ \A i \in 1 .. Len(Jobs) : \A j \in Jobs[i] :
        /\ j.on = "ide" =>
            /\ j.d \in 0 .. 1 /\ device[j.d] # "none" /\ j.command \in Commands
            /\ j.registers \in [sector_count : Nat, sector_no : Nat, cylinder_no : Nat,
                                head_no : Nat, lba_mode : BOOLEAN]
            /\ j.command = "read" =>
                  j.n \in 1 .. Base /\ j.registers.sector_count = IF j.n = Base THEN 0 ELSE j.n
            /\ j.command = "packet" =>
                  /\ j.packet.op \in {"inform", "capacity", "read"} => j.packet.n \in Nat
                  /\ j.packet.op = "read" => j.packet.lba \in Nat
        /\ j.on = "floppy" /\ j.op \in {"read", "write"} =>
            j.track \in Nat /\ j.side \in Nat /\ j.sector \in Nat /\ j.n \in Nat

(* The driver knows its media.  It reads and writes disks; by cylinder,    *)
(* head and sector it gives addresses that exist and stays on the disk,    *)
(* because increment_address goes on at the beginning of the last cylinder *)
(* behind its end; and it reads a disc from a block that exists, or from   *)
(* the end on, because a later one makes the code's length wrap.           *)
ASSUME AddressAssumption ==
    \A i \in 1 .. Len(Jobs) : \A j \in Jobs[i] :
        j.on = "ide" =>
            /\ j.command \in {"read", "write"} =>
                  /\ device[j.d] = "disk"
                  /\ j.n \in 1 .. Base /\ j.registers.sector_count = IF j.n = Base THEN 0 ELSE j.n
                  /\ j.first = LogicalAddress(j.registers)
                  /\ ~j.registers.lba_mode =>
                        /\ j.registers.sector_no \in 1 .. Sectors
                        /\ j.registers.head_no < Heads
                        /\ j.first + j.n <= Total
            /\ j.command = "packet" /\ j.packet.op = "read" => j.packet.lba <= Capacity

VARIABLES
    at,       \* where the driver is
    job,      \* its job
    left,     \* words left to move before it looks at the status again
    got,      \* words read
    sent,     \* words written
    bad,      \* a block of the disc could not be read
    stale,    \* the line is held low since a disc was inserted
    jobs,     \* jobs begun
    changes   \* media changes and resets so far

driverVars == <<at, job, left, got, sent, bad, jobs>>
vars == <<ataVars, fdcVars, lineVars, driverVars, stale, changes>>

NoJob == [on |-> "none"]
SectorWords == SectorBytes \div 2
BlockWords == BlockBytes \div 2

Init ==
    /\ AtaInit /\ FdcInit /\ LineInit
    /\ at = "idle" /\ job = NoJob /\ left = 0 /\ got = <<>> /\ sent = 0
    /\ bad = FALSE /\ stale = FALSE /\ jobs = 0 /\ changes = 0

-----------------------------------------------------------------------------
Begin(j, where) ==
    /\ at = "idle"
    /\ at' = where /\ job' = j /\ jobs' = jobs + 1
    /\ UNCHANGED <<left, got, sent, bad, changes>>
    /\ stale' = (stale /\ line')

Goto(where, words) ==
    /\ at' = where /\ left' = words
    /\ UNCHANGED <<job, got, sent, bad, jobs, changes>>
    /\ stale' = (stale /\ line')

Rest ==
    /\ at' = "idle" /\ job' = NoJob /\ left' = 0 /\ got' = <<>> /\ sent' = 0
    /\ bad' = FALSE
    /\ UNCHANGED jobs

Finish == Rest /\ stale' = (stale /\ line') /\ UNCHANGED changes

(* IDE.  Commands that ask for data from the guest, and three others, do   *)
(* not interrupt: the driver polls the status register for them.           *)
Polled == {"write", "packet", "diagnose", "multiple", "device reset"}

StartIde(j) ==
    /\ j.on = "ide"
    /\ WriteCommand(j.d, WithRegisters(j.d, j.registers), j.command)
    /\ Begin(j, IF j.command \in Polled THEN "poll" ELSE "wait")
    /\ UNCHANGED fdcVars

(* The status tells what the drive wants. *)
SeeStatus ==
    IF Selected.err \/ ~Selected.drq THEN Finish
    ELSE IF job.command = "write" THEN Goto("out", SectorWords)
    ELSE IF job.command # "packet" THEN Goto("in", SectorWords)
    ELSE IF at = "poll" THEN Goto("packet", PacketBytes \div 2)
    ELSE Goto("in", (Selected.cylinder_no + 1) \div 2)

SeeIde ==
    /\ \/ at \in {"poll", "last"}
       \/ at = "wait" /\ (line \/ disable_irq)
    /\ ~Selected.busy
    /\ ReadStatus /\ pending' = FALSE
    /\ SeeStatus
    /\ UNCHANGED fdcVars

(* After the last word of a disk's job no interrupt comes. *)
AfterWords ==
    IF left > 1 THEN at
    ELSE IF job.command = "identify" \/ (job.command = "read" /\ Len(got') = job.n * SectorWords)
    THEN "last" ELSE "wait"

Moved ==
    /\ at' = AfterWords /\ left' = left - 1
    /\ stale' = (stale /\ line')
    /\ UNCHANGED <<job, jobs, fdcVars, changes>>

ReadWord ==
    /\ at = "in" /\ left > 0
    /\ ReadSectorWord \/ ReadIdentityWord \/ ReadPacketWord
    /\ got' = Append(got, DataWord)
    /\ bad' = (bad \/ (Loads /\ DataWord # <<"cd", Selected.next_lba, 1>>))
    /\ UNCHANGED sent
    /\ Moved

WriteWord ==
    /\ at = "out"
    /\ WriteSectorWord(<<"new", sent \div SectorWords, (sent % SectorWords) + 1>>)
    /\ sent' = sent + 1
    /\ UNCHANGED <<got, bad>>
    /\ Moved

WritePacket ==
    /\ at = "packet"
    /\ WritePacketWord(job.packet)
    /\ UNCHANGED <<got, sent, bad>>
    /\ Moved

(* The driver gives up and resets the drives; it chooses at rest whether   *)
(* they interrupt.                                                         *)
GiveUp ==
    /\ at \in {"poll", "wait", "in", "out", "packet", "last"}
    /\ WriteControl(TRUE, disable_irq)
    /\ Goto("reset", 0)
    /\ UNCHANGED fdcVars

EndReset ==
    /\ at = "reset"
    /\ WriteControl(FALSE, FALSE)
    /\ Finish
    /\ UNCHANGED fdcVars

ChooseIrq ==
    /\ at = "idle"
    /\ \E b \in BOOLEAN : b # disable_irq /\ WriteControl(FALSE, b)
    /\ UNCHANGED <<fdcVars, driverVars, stale, changes>>

-----------------------------------------------------------------------------
(* Floppy.  A transfer begins with a seek that verifies the track. *)
StartFdc(j) ==
    /\ j.on = "floppy"
    /\ \/ j.op \in {"read", "write"} /\ TypeI([op |-> "seek", track |-> j.track, verify |-> TRUE])
       \/ j.op = "notfound" /\ NotFound
       \/ j.op = "force" /\ ForceInterrupt
       \/ j.op \notin {"read", "write", "notfound", "force"} /\ TypeI(j)
    /\ Begin(j, IF j.op \in {"read", "write"} THEN "seeking" ELSE "fdc")
    /\ UNCHANGED ataVars

NewSectors == [i \in 1 .. job.n |-> <<"new", i>>]

Transfer ==
    /\ at = "transfer"
    /\ IF job.op = "read" THEN ReadSector(job.side, job.sector, job.n)
                          ELSE WriteSector(job.side, job.sector, job.n, NewSectors)
    /\ Goto("fdc", 0)
    /\ UNCHANGED ataVars

SeeFdc ==
    /\ at \in {"seeking", "fdc"} /\ line
    /\ ReadFdcStatus /\ pending' = FALSE
    /\ IF at = "seeking" /\ "notfound" \notin fdc_status THEN Goto("transfer", 0)
       ELSE Finish
    /\ UNCHANGED ataVars

-----------------------------------------------------------------------------
(* The handler of an interrupt nobody waits for leaves the controllers     *)
(* alone.                                                                  *)
Unclaimed ==
    /\ at = "idle" /\ pending
    /\ pending' = FALSE
    /\ UNCHANGED <<line, ataVars, fdcVars, driverVars, stale, changes>>

Change == changes < MaxChanges /\ changes' = changes + 1

User ==
    /\ Change
    /\ \/ EjectDisc /\ UNCHANGED <<fdcVars, driverVars, stale>>
       \/ InsertDisc /\ stale' = line' /\ UNCHANGED <<fdcVars, driverVars>>
       \/ (RemoveFloppy \/ InsertFloppy) /\ UNCHANGED <<ataVars, lineVars, driverVars, stale>>

Reset ==
    /\ Change
    /\ AtaReset /\ FdcReset
    /\ Rest /\ stale' = FALSE

Driver == SeeIde \/ ReadWord \/ WriteWord \/ WritePacket \/ EndReset \/ Transfer \/ SeeFdc

Next ==
    \/ jobs < Len(Jobs) /\ \E j \in Jobs[jobs + 1] : StartIde(j) \/ StartFdc(j)
    \/ Driver \/ GiveUp \/ ChooseIrq \/ Unclaimed \/ User \/ Reset

Spec == Init /\ [][Next]_vars

(* The driver goes on. *)
FairSpec == Spec /\ WF_vars(Driver)

-----------------------------------------------------------------------------
IdeJob(command) == job.on = "ide" /\ job.command = command
DiscJob == IdeJob("packet") /\ job.packet.op = "read"

(* The driver sees the end of an IDE command that reports no error. *)
Succeeds == SeeIde /\ at' = "idle" /\ ~Selected.err

(* What the driver has read so far are the words of the sectors or blocks  *)
(* it asked for, in order and from the first on; and all of them when the  *)
(* command ends without an error.  The address moves in increment_address, *)
(* in carries between three registers, and in next_lba; buffers are filled *)
(* by one access and emptied by others; bursts end inside a block.  (A     *)
(* block of a disc that cannot be read is not reported: read_block returns *)
(* nothing.)                                                               *)
ReadsInOrder ==
    [][/\ IdeJob("read") =>
            /\ \A i \in DOMAIN got : LET k == i - 1 IN
                  got[i] = image[job.d][job.first + k \div SectorWords][(k % SectorWords) + 1]
            /\ Succeeds => Len(got) = job.n * SectorWords
       /\ DiscJob /\ ~bad =>
            /\ \A i \in DOMAIN got : LET k == i - 1 IN
                  got[i] = <<"cd", job.packet.lba + k \div BlockWords, (k % BlockWords) + 1>>
            /\ Succeeds =>
                  Len(got) = Min({job.packet.n, Capacity - job.packet.lba}) * BlockWords]_vars

(* An image changes only by a write, in the sector whose turn it is, to    *)
(* the data sent; one that the host cut short is reported.  A write ends   *)
(* without an error only when all its sectors were sent.                   *)
WritesInOrder ==
    [][/\ image' # image =>
            /\ IdeJob("write")
            /\ LET s == job.first + sent \div SectorWords
                   data == [i \in 1 .. SectorWords |-> <<"new", sent \div SectorWords, i>>]
               IN  /\ image' = [image EXCEPT ![job.d][s] = image'[job.d][s]]
                   /\ image'[job.d][s] = data \/ ctl'[job.d].err
       /\ IdeJob("write") /\ Succeeds => sent = job.n * SectorWords]_vars

(* A floppy read that reports no error has moved exactly the sectors it    *)
(* names, a write changes no others, and a write without an error all of   *)
(* them: wherever the head was left, and whatever the user did to the      *)
(* drive between the seek and the transfer.  (Not before the image was     *)
(* first opened: fdc_exec_command then takes any sector for the boot       *)
(* sector.)                                                                *)
FloppyInOrder ==
    [][LET o == (job.track * Sides + job.side) * Spt + job.sector - 1
           ok == Transfer /\ fdc_status' = {} /\ tracks > 0
       IN  /\ ok /\ job.op = "read" => memory' = [i \in 1 .. job.n |-> floppy[o + i - 1]]
           /\ ok /\ job.op = "write" => \A i \in 1 .. job.n : floppy'[o + i - 1] = <<"new", i>>
           /\ \A s \in DOMAIN floppy : floppy'[s] # floppy[s] =>
                 Transfer /\ job.op = "write" /\ s \in o .. o + job.n - 1]_vars

(* A driver that waits finds its interrupt latched in the MFP.  The two    *)
(* controllers share the line and the MFP sees only its edges: a command   *)
(* that leaves the line low behind it would take away the next command's   *)
(* interrupt.  The one who does is set_cd_media_status, and only floppy    *)
(* commands, which do not release the line first, miss theirs.             *)
InterruptLatched ==
    /\ at = "wait" /\ ~disable_irq => pending
    /\ at \in {"seeking", "fdc"} => pending \/ stale

(* Every job ends: no command, burst or change of media leaves the driver  *)
(* waiting for an interrupt or a word that does not come.                  *)
JobEnds == (at # "idle") ~> (at = "idle")
=============================================================================
