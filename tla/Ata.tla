-------------------------------- MODULE Ata --------------------------------
(***************************************************************************)
(* The IDE controller with its two drives (src/src/ata.cpp), each a disk,  *)
(* a CD-ROM or absent.  The operators below are the register accesses of   *)
(* the guest, its commands and data words, and the change of a CD from the *)
(* set-up dialogue.  Module Disks says who calls them.                     *)
(*                                                                         *)
(* A register is a number modulo Base, 256 in the code, so that the count  *)
(* 0 stands for Base sectors and addresses carry from one register to the  *)
(* next.  Sectors, blocks and packets have SectorBytes, BlockBytes and     *)
(* PacketBytes, 512, 2048 and 12 in the code; data moves in words of two   *)
(* bytes.  A word of an image says where it comes from.                    *)
(***************************************************************************)
EXTENDS Integers, Sequences, FiniteSetsExt, DiskLine

CONSTANTS
    Base, Cylinders, Heads, Sectors, SectorBytes,
    BlockBytes, Capacity, PacketBytes, ReplyBytes,
    device    \* device[d] is "disk", "cd" or "none"

ASSUME AtaAssumption ==
    /\ {Base, Cylinders, Heads, Sectors, SectorBytes, BlockBytes, Capacity, PacketBytes,
        ReplyBytes} \subseteq Nat
    /\ Base > Sectors /\ Base * Base > Cylinders /\ 16 >= Heads
    /\ Cylinders > 0 /\ Heads > 0 /\ Sectors > 0 /\ ReplyBytes > 0
    /\ \A n \in {SectorBytes, BlockBytes, PacketBytes} : n > 0 /\ n % 2 = 0
    /\ device \in [0 .. 1 -> {"disk", "cd", "none"}]

VARIABLES
    drive_select,
    ctl,          \* ctl[d]: the registers and the state of drive d
    buffer,       \* buffer[d]: the words in its buffer
    image,        \* image[d]: the sectors of its image file
    ready,        \* cdrom.ready: a disc is in the CD-ROM
    locked,       \* cdrom.locked
    reset,        \* control.reset, equal in both drives
    disable_irq   \* control.disable_irq, equal in both drives

cdVars == <<ready, locked>>
ataVars == <<drive_select, ctl, buffer, image, ready, locked, reset, disable_irq>>

Total == Cylinders * Heads * Sectors
Signature == Base * Base - 2    \* 0xeb14

SectorOf(source, s) == [i \in 1 .. SectorBytes \div 2 |-> <<source, s, i>>]
BlockOf(s) == [i \in 1 .. BlockBytes \div 2 |-> <<"cd", s, i>>]

-----------------------------------------------------------------------------
(* bx_hard_drive_c::init *)
FreshController(d) ==
    [busy |-> FALSE, drq |-> FALSE, err |-> FALSE, current_command |-> "none",
     buffer_index |-> 0, sector_count |-> IF device[d] = "cd" THEN 0 ELSE 1,
     sector_no |-> 1, cylinder_no |-> 0, head_no |-> 0, lba_mode |-> FALSE,
     resetting |-> FALSE,
     drq_index |-> 0, drq_bytes |-> 0, remaining |-> 0, next_lba |-> 0, lazy |-> FALSE]

AtaInit ==
    /\ drive_select = 0
    /\ ctl = [d \in 0 .. 1 |-> FreshController(d)]
    /\ buffer = [d \in 0 .. 1 |-> SectorOf("none", 0)]
    /\ image = [d \in 0 .. 1 |-> [s \in 0 .. Total - 1 |-> SectorOf("disk", s)]]
    /\ ready \in BOOLEAN /\ locked = FALSE
    /\ reset = FALSE /\ disable_irq = FALSE

(* IDE::reset opens the images again and inserts the disc of the           *)
(* configuration, if the host can; MFP::reset releases the line.           *)
AtaReset ==
    /\ drive_select' = 0
    /\ ctl' = [d \in 0 .. 1 |-> FreshController(d)]
    /\ locked' = FALSE /\ reset' = FALSE /\ disable_irq' = FALSE
    /\ ready' \in BOOLEAN
    /\ line' = FALSE /\ pending' = FALSE
    /\ UNCHANGED <<buffer, image>>

-----------------------------------------------------------------------------
(* calculate_logical_address.  The address before the first sector, -1     *)
(* here, is 2^32 - 1 in the code: out of bounds as well.                   *)
LogicalAddress(c) ==
    IF c.lba_mode
    THEN c.head_no * Base * Base * Base + c.cylinder_no * Base + c.sector_no
    ELSE (c.cylinder_no * Heads + c.head_no) * Sectors + c.sector_no - 1

InBounds(c) == LogicalAddress(c) \in 0 .. Total - 1

(* The registers that address sector a of the disk in LBA mode. *)
LbaRegisters(c, a) ==
    [c EXCEPT !.head_no = (a \div (Base * Base * Base)) % 16,
              !.cylinder_no = (a \div Base) % (Base * Base),
              !.sector_no = a % Base]

(* increment_address in CHS mode.  At the end of the disk the cylinder     *)
(* stays what it is.                                                       *)
NextChs(c) ==
    LET s == (c.sector_no + 1) % Base
        h == c.head_no + 1
    IN  IF s # 0 /\ s <= Sectors THEN [c EXCEPT !.sector_no = s]
        ELSE IF h < Heads THEN [c EXCEPT !.sector_no = 1, !.head_no = h]
        ELSE [c EXCEPT !.sector_no = 1, !.head_no = 0,
                       !.cylinder_no = Min({@ + 1, Cylinders - 1})]

increment_address(c) ==
    LET n == [c EXCEPT !.sector_count = (@ + Base - 1) % Base]
    IN  IF c.lba_mode THEN LbaRegisters(n, LogicalAddress(c) + 1) ELSE NextChs(n)

command_aborted(c) ==
    [c EXCEPT !.current_command = "none", !.busy = FALSE, !.err = TRUE,
              !.drq = FALSE, !.buffer_index = 0]

(* A drive done with a command that moves no data. *)
Completed(c) == [c EXCEPT !.busy = FALSE, !.drq = FALSE, !.err = FALSE]

(* Data is in the buffer, or awaited in it. *)
Requesting(c, command) ==
    [c EXCEPT !.current_command = command, !.busy = FALSE, !.drq = TRUE,
              !.err = FALSE, !.buffer_index = 0]

(* raise_interrupt *)
Interrupt == SetLine(FALSE, ~disable_irq)
Quiet == UNCHANGED lineVars

-----------------------------------------------------------------------------
(* The command register.  cs are the controllers after the guest's writes  *)
(* to the other registers, d is the drive those writes selected.           *)

(* The write releases the line; the command then leaves drive d as c and   *)
(* interrupts when irq holds.                                              *)
(* Mutant: the line is left as it is. *)
AnswerHeld(d, cs, c, irq) ==
    /\ ctl' = [cs EXCEPT ![d] = c]
    /\ SetLine(FALSE, irq /\ ~disable_irq)
Answer(d, cs, c, irq) ==
    /\ ctl' = [cs EXCEPT ![d] = c]
    /\ SetLine(TRUE, irq /\ ~disable_irq)

(* READ SECTORS.  The host may fail to read the image. *)
ReadSectors(d, cs) ==
    LET c == cs[d]
        origin == ~c.lba_mode /\ c.head_no = 0 /\ c.cylinder_no = 0 /\ c.sector_no = 0
    IN  \/ /\ device[d] = "disk" /\ ~origin /\ InBounds(c)
           /\ buffer' = [buffer EXCEPT ![d] = image[d][LogicalAddress(c)]]
           /\ Answer(d, cs, Requesting(c, "read"), TRUE)
        \/ Answer(d, cs, command_aborted(c), TRUE) /\ UNCHANGED buffer

(* WRITE SECTORS asks for data and does not interrupt. *)
WriteSectors(d, cs) ==
    Answer(d, cs, Requesting(cs[d], "write"), FALSE) /\ UNCHANGED buffer

(* IDENTIFY DEVICE for a disk, IDENTIFY PACKET DEVICE for a CD-ROM. *)
Identify(d, cs) ==
    IF device[d] # "none"
    THEN /\ buffer' = [buffer EXCEPT ![d] = SectorOf("identity", d)]
         /\ Answer(d, cs, Requesting(cs[d], "identify"), TRUE)
    ELSE Answer(d, cs, command_aborted(cs[d]), TRUE) /\ UNCHANGED buffer

(* IDENTIFY DEVICE sent to a CD-ROM shows the signature and is aborted. *)
Signed(c, cylinder) ==
    [c EXCEPT !.head_no = 0, !.sector_count = 1, !.sector_no = 1, !.cylinder_no = cylinder]

(* SEND PACKET asks for the packet and does not interrupt. *)
SendPacket(d, cs) ==
    IF device[d] = "cd"
    THEN Answer(d, cs, [Requesting(cs[d], "packet") EXCEPT !.sector_count = 1], FALSE)
    ELSE Answer(d, cs, command_aborted(cs[d]), TRUE)

(* The commands that move no data. *)
WithoutData(d, cs, command) ==
    LET c == cs[d]
        multiple == c.sector_count \in {n \in 2 .. Base - 1 : \E k \in 1 .. 7 : n = 2 ^ k}
    IN  \/ command = "calibrate" /\ Answer(d, cs, Completed([c EXCEPT !.cylinder_no = 0]), TRUE)
        \/ command \in {"verify", "parameters"} /\ Answer(d, cs, Completed(c), TRUE)
        \/ command = "power" /\ Answer(d, cs, Completed([c EXCEPT !.sector_count = Base - 1]), TRUE)
        \/ /\ command = "seek"
           /\ Answer(d, cs, IF device[d] = "disk" /\ InBounds(c)
                            THEN [Completed(c) EXCEPT !.buffer_index = 0]
                            ELSE command_aborted(c), TRUE)
        \/ command = "diagnose" /\ Answer(d, cs, Completed(c), FALSE)
        \/ /\ command = "multiple"
           /\ Answer(d, cs, Completed(IF multiple THEN c ELSE command_aborted(c)), ~multiple)
        \/ /\ command = "device reset"
           /\ IF device[d] = "cd" THEN Answer(d, cs, Completed(Signed(c, Signature)), FALSE)
              ELSE Answer(d, cs, command_aborted(c), TRUE)
        \/ command = "identify disk" /\ Answer(d, cs, command_aborted(Signed(c, Signature)), TRUE)
        \/ command = "unsupported" /\ Answer(d, cs, command_aborted(c), TRUE)

(* A command for an absent second drive is ignored. *)
WriteCommand(d, cs, command) ==
    /\ IF d = 1 /\ device[1] = "none"
       THEN ctl' = cs /\ UNCHANGED <<buffer, lineVars>>
       ELSE \/ command = "read" /\ ReadSectors(d, cs)
            \/ command = "write" /\ WriteSectors(d, cs)
            \/ command = "identify" /\ Identify(d, cs)
            \/ command = "packet" /\ SendPacket(d, cs) /\ UNCHANGED buffer
            \/ WithoutData(d, cs, command) /\ UNCHANGED buffer
    /\ drive_select' = d
    /\ UNCHANGED <<image, cdVars, reset, disable_irq>>

(* The registers before the command: written to both drives.  Selecting an *)
(* absent drive sets its error bit.                                        *)
WithRegisters(d, f) ==
    [e \in 0 .. 1 |->
        [ctl[e] EXCEPT !.sector_count = f.sector_count, !.sector_no = f.sector_no,
                       !.cylinder_no = f.cylinder_no, !.head_no = f.head_no,
                       !.lba_mode = f.lba_mode,
                       !.err = @ \/ (e = d /\ device[d] = "none")]]

(* The control register.  Setting its reset bit stops both drives, clearing *)
(* it lets them show their signatures.                                     *)
WriteControl(r, nien) ==
    /\ reset' = r
    /\ IF ~reset /\ r
       THEN /\ ctl' = [d \in 0 .. 1 |->
                [ctl[d] EXCEPT !.busy = TRUE, !.drq = FALSE, !.err = FALSE,
                               !.current_command = "none", !.buffer_index = 0,
                               !.lba_mode = FALSE, !.resetting = TRUE]]
            /\ disable_irq' = FALSE
            /\ SetLine(TRUE, FALSE)
       ELSE /\ ctl' = IF ctl[drive_select].resetting /\ ~r
                      THEN [d \in 0 .. 1 |->
                              [Signed(ctl[d], IF device[d] = "disk" THEN 0 ELSE Signature)
                                  EXCEPT !.busy = FALSE, !.resetting = FALSE]]
                      ELSE ctl
            /\ disable_irq' = nien
            /\ UNCHANGED lineVars
    /\ UNCHANGED <<drive_select, buffer, image, cdVars>>

(* Reading the status register releases the line. *)
ReadStatus == line' = FALSE /\ UNCHANGED ataVars

-----------------------------------------------------------------------------
(* The data register.  Each access moves the word at buffer_index of the   *)
(* selected drive.                                                         *)
Selected == ctl[drive_select]
SetSelected(c) == ctl' = [ctl EXCEPT ![drive_select] = c]

(* A packet command that reads the disc loads the next block when the last *)
(* one is used up.  read_block tells nobody when it fails, as it does      *)
(* without a disc: the buffer then keeps what it holds.                    *)
Loads == Selected.current_command = "packet" /\ Selected.lazy /\ Selected.buffer_index >= BlockBytes
LoadBlock ==
    \/ ready /\ buffer' = [buffer EXCEPT ![drive_select] = BlockOf(Selected.next_lba)]
    \/ UNCHANGED buffer

(* The word the guest reads. *)
DataWord ==
    IF Loads THEN buffer'[drive_select][1]
    ELSE buffer[drive_select][Selected.buffer_index \div 2 + 1]

(* A disk's sector.  After its last word the address moves on and, unless   *)
(* that was the last sector, the next one is read; the host may fail.      *)
ReadSectorWord ==
    LET c == Selected
        n == increment_address([c EXCEPT !.buffer_index = 0, !.busy = FALSE, !.err = FALSE])
    IN  /\ c.drq /\ c.current_command = "read"
        /\ IF c.buffer_index + 2 < SectorBytes
           THEN SetSelected([c EXCEPT !.buffer_index = @ + 2]) /\ Quiet /\ UNCHANGED buffer
           ELSE IF n.sector_count = 0
           THEN SetSelected([n EXCEPT !.drq = FALSE]) /\ Quiet /\ UNCHANGED buffer
           ELSE /\ \/ /\ InBounds(n)
                      /\ buffer' = [buffer EXCEPT ![drive_select] = image[drive_select][LogicalAddress(n)]]
                      /\ SetSelected(n)
                   \/ SetSelected(command_aborted(n)) /\ UNCHANGED buffer
                /\ Interrupt
        /\ UNCHANGED <<drive_select, image, cdVars, reset, disable_irq>>

ReadIdentityWord ==
    LET c == Selected
    IN  /\ c.drq /\ c.current_command = "identify"
        /\ SetSelected([c EXCEPT !.buffer_index = @ + 2,
                                 !.drq = c.buffer_index + 2 < SectorBytes, !.err = FALSE])
        /\ UNCHANGED <<drive_select, buffer, image, cdVars, reset, disable_irq, lineVars>>

(* A packet command's answer comes in bursts of drq_bytes, each announced. *)
ReadPacketWord ==
    LET c == Selected
        loaded == IF Loads THEN [c EXCEPT !.buffer_index = 0, !.next_lba = @ + 1] ELSE c
        moved == [loaded EXCEPT !.buffer_index = @ + 2, !.drq_index = @ + 2]
        left == c.remaining - c.drq_bytes
        burst == Min({left, c.cylinder_no})
    IN  /\ c.drq /\ c.current_command = "packet"
        /\ IF Loads THEN LoadBlock ELSE UNCHANGED buffer
        /\ IF moved.drq_index < c.drq_bytes
           THEN SetSelected(moved) /\ Quiet
           ELSE /\ SetSelected(IF left > 0
                    THEN [moved EXCEPT !.drq_index = 0, !.remaining = left, !.sector_count = 2,
                                       !.cylinder_no = burst, !.drq_bytes = burst]
                    ELSE [Completed(moved) EXCEPT !.drq_index = 0, !.remaining = left,
                                                  !.sector_count = 3])
                /\ Interrupt
        /\ UNCHANGED <<drive_select, image, cdVars, reset, disable_irq>>

(* A disk that has written a sector asks for the next one, if any. *)
(* Mutant: off by one. *)
SectorWrittenEarly(c) ==
    LET n == increment_address([c EXCEPT !.buffer_index = 0])
    IN  [n EXCEPT !.busy = FALSE, !.err = FALSE, !.drq = n.sector_count > 1]
SectorWritten(c) ==
    LET n == increment_address([c EXCEPT !.buffer_index = 0])
    IN  [n EXCEPT !.busy = FALSE, !.err = FALSE, !.drq = n.sector_count # 0]

(* A word for a disk.  After the last of a sector the sector goes to the    *)
(* image; the host may fail to write it, or write a part.                  *)
WriteSectorWord(w) ==
    LET c == Selected
        d == drive_select
        data == [buffer[d] EXCEPT ![c.buffer_index \div 2 + 1] = w]
        a == LogicalAddress(c)
    IN  /\ c.current_command = "write"
        /\ buffer' = [buffer EXCEPT ![d] = data]
        /\ IF c.buffer_index + 2 < SectorBytes
           THEN SetSelected([c EXCEPT !.buffer_index = @ + 2]) /\ Quiet /\ UNCHANGED image
           ELSE /\ \/ /\ InBounds(c)
                      /\ image' = [image EXCEPT ![d][a] = data]
                      /\ SetSelected(SectorWritten(c))
                   \/ /\ \/ UNCHANGED image
                         \/ InBounds(c) /\ image' = [image EXCEPT ![d][a][1] = data[1]]
                      /\ SetSelected(command_aborted(c))
                /\ Interrupt
        /\ UNCHANGED <<drive_select, cdVars, reset, disable_irq>>

-----------------------------------------------------------------------------
(* Packet commands. *)

(* atapi_cmd_error, atapi_cmd_nop: sector_count is the interrupt reason, 3 *)
(* for a command that is over, 2 for data to read.                         *)
atapi_cmd_error(c) == [c EXCEPT !.sector_count = 3, !.busy = FALSE, !.drq = FALSE, !.err = TRUE]
atapi_cmd_nop(c) == [Completed(c) EXCEPT !.sector_count = 3]

(* init_send_atapi_command: cylinder_no is the byte count, which limits a  *)
(* burst; it is made even unless one burst is enough.  An allocation of 0  *)
(* stands for the limit.                                                   *)
(* Mutant: an odd limit stays odd. *)
BurstLimitOdd(c, alloc) == Min({c.cylinder_no, Base * Base - 2})
BurstLimit(c, alloc) ==
    LET limit == Min({c.cylinder_no, Base * Base - 2})
    IN  IF alloc > limit THEN limit - (limit % 2) ELSE limit

(* Mutant: an allocation of 0 is taken at its word. *)
WantedZero(alloc, limit) == alloc
Wanted(alloc, limit) == IF alloc = 0 THEN limit ELSE alloc

init_send_atapi_command(c, req, alloc, lazy) ==
    LET limit == BurstLimit(c, alloc)
        total == Min({req, Wanted(alloc, limit)})
        burst == Min({limit, total})
    IN  [c EXCEPT !.sector_count = 2, !.busy = FALSE, !.drq = TRUE, !.err = FALSE,
                  !.buffer_index = IF lazy THEN BlockBytes ELSE 0,
                  !.cylinder_no = burst, !.drq_index = 0, !.drq_bytes = burst,
                  !.remaining = total, !.lazy = lazy]

(* READ (10) and READ (12): clipped to the disc. *)
ReadDisc(c, p) ==
    LET n == Min({p.n, Capacity - p.lba})
    IN  IF n = 0 THEN atapi_cmd_nop(c)
        ELSE [init_send_atapi_command(c, n * BlockBytes, n * BlockBytes, TRUE)
                EXCEPT !.next_lba = p.lba]

(* What a packet leaves of the controller.  "inform" stands for the        *)
(* commands that always answer (REQUEST SENSE, INQUIRY, MODE SENSE,        *)
(* MECHANISM STATUS), "capacity" for those that need a disc (READ CAPACITY,*)
(* READ TOC, READ SUB-CHANNEL).                                            *)
AfterPacket(c, p) ==
    LET reply == init_send_atapi_command(c, ReplyBytes, p.n, FALSE)
        ok == \/ p.op \in {"start", "stop", "eject"}
              \/ p.op \in {"test", "lock", "unlock"} /\ ready
              \/ p.op = "seek" /\ ready /\ p.lba <= Capacity
    IN  IF p.op = "inform" \/ (p.op = "capacity" /\ ready) THEN reply
        ELSE IF p.op = "capacity" THEN atapi_cmd_error(reply)
        ELSE IF p.op = "read" /\ ready THEN ReadDisc(c, p)
        ELSE IF ok THEN atapi_cmd_nop(c) ELSE atapi_cmd_error(c)

(* A word of packet p; the last one has it executed. *)
WritePacketWord(p) ==
    LET c == [Selected EXCEPT !.buffer_index = @ + 2]
    IN  /\ Selected.current_command = "packet" /\ Selected.buffer_index < PacketBytes
        /\ IF c.buffer_index < PacketBytes
           THEN SetSelected(c) /\ Quiet /\ UNCHANGED <<buffer, cdVars>>
           ELSE /\ SetSelected(AfterPacket(c, p))
                /\ buffer' = [buffer EXCEPT ![drive_select] =
                                [i \in 1 .. (ReplyBytes + 1) \div 2 |-> <<"reply", 0, i>>]]
                /\ ready' = (ready /\ p.op # "eject")
                /\ locked' = IF ready /\ p.op \in {"lock", "unlock"} THEN p.op = "lock" ELSE locked
                /\ Interrupt
        /\ UNCHANGED <<drive_select, image, reset, disable_irq>>

(* set_cd_media_status, from the dialogue: a disc the guest has locked     *)
(* stays; one that is inserted interrupts, whichever drive is selected.    *)
EjectDisc ==
    /\ ready /\ ~locked
    /\ ready' = FALSE
    /\ UNCHANGED <<drive_select, ctl, buffer, image, locked, reset, disable_irq, lineVars>>

InsertDisc ==
    /\ ~ready
    /\ ready' = TRUE
    /\ Interrupt
    /\ UNCHANGED <<drive_select, ctl, buffer, image, locked, reset, disable_irq>>
=============================================================================
