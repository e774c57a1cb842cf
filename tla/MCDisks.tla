------------------------------ MODULE MCDisks ------------------------------
(***************************************************************************)
(* The jobs for model checking Disks: a disk as master, a CD-ROM as slave, *)
(* and a floppy.                                                           *)
(***************************************************************************)
EXTENDS Disks

MCDevice == [d \in 0 .. 1 |-> IF d = 0 THEN "disk" ELSE "cd"]

(* Registers for sector a of the disk, in either mode. *)
Lba(a, n) ==
    [lba_mode |-> TRUE, head_no |-> 0, cylinder_no |-> a \div Base, sector_no |-> a % Base,
     sector_count |-> n % Base]
Chs(a, n) ==
    [lba_mode |-> FALSE, head_no |-> (a \div Sectors) % Heads,
     cylinder_no |-> a \div (Sectors * Heads), sector_no |-> (a % Sectors) + 1,
     sector_count |-> n % Base]

Ide(d, command, registers, first, n) ==
    [on |-> "ide", d |-> d, command |-> command, registers |-> registers,
     first |-> first, n |-> n]

(* Runs of sectors that carry into the other registers, end with the disk *)
(* or, in LBA mode, run past its end; Base sectors are written as 0.       *)
DiskJobs ==
    {Ide(0, c, Lba(x[1], x[2]), x[1], x[2]) :
        c \in {"read", "write"}, x \in {<<0, Base>>, <<3, 2>>, <<Total - 1, 2>>}}
    \cup {Ide(0, c, Chs(1, Base), 1, Base) : c \in {"read", "write"}}

(* The other commands, for the disk and for the CD-ROM. *)
OtherJobs ==
    {Ide(0, c, Lba(1, 1), 1, 1) :
        c \in {"identify", "seek", "calibrate", "diagnose", "multiple", "power", "verify",
               "parameters", "unsupported"}}
    \cup {Ide(1, c, Lba(1, 1), 1, 1) :
        c \in {"identify", "device reset", "identify disk"}}
    \cup {Ide(0, "multiple", Lba(1, 2), 1, 2)}

(* Packets, with byte counts that cut blocks, are odd, or hold everything. *)
Packet(d, limit, p) ==
    [on |-> "ide", d |-> d, command |-> "packet", packet |-> p,
     registers |-> [lba_mode |-> FALSE, head_no |-> 0, cylinder_no |-> limit,
                    sector_no |-> 0, sector_count |-> 0]]
DiscJobs ==
    {Packet(1, limit, [op |-> "read", lba |-> 0, n |-> 2]) : limit \in {3, 6, 15}}
    \cup {Packet(1, 15, [op |-> "read", lba |-> Capacity - 1, n |-> n]) : n \in {0, 2}}
    \cup {Packet(1, 3, [op |-> op, n |-> n]) : op \in {"inform", "capacity"}, n \in {0, 3, 6}}
    \cup {Packet(1, 15, [op |-> op, lba |-> 0]) :
        op \in {"test", "lock", "unlock", "seek", "start", "eject", "unsupported"}}
    \cup {Packet(0, 15, [op |-> "test", lba |-> 0])}

(* Transfers within a track and beyond its end, on tracks that exist or    *)
(* do not, and commands that leave the head away from the track register.  *)
FloppyJobs ==
    {[on |-> "floppy", op |-> op, track |-> x[1], side |-> x[2], sector |-> x[3], n |-> x[4]] :
        op \in {"read", "write"},
        x \in {<<0, 0, 1, 1>>, <<0, 1, 2, 1>>, <<1, 0, 1, 2>>, <<1, 1, 2, 2>>, <<Tracks, 0, 1, 1>>}}
    \cup {[on |-> "floppy", op |-> op, update |-> u, verify |-> FALSE] :
        op \in {"step", "step in", "step out"}, u \in BOOLEAN}
    \cup {[on |-> "floppy", op |-> op, verify |-> TRUE] : op \in {"restore", "notfound", "force"}}

(* One of each kind, as a second job. *)
Again ==
    {Ide(0, "read", Lba(3, 2), 3, 2), Ide(0, "seek", Lba(1, 1), 1, 1),
     Packet(1, 3, [op |-> "read", lba |-> 0, n |-> 2]),
     [on |-> "floppy", op |-> "read", track |-> 1, side |-> 1, sector |-> 1, n |-> 1],
     [on |-> "floppy", op |-> "write", track |-> 1, side |-> 0, sector |-> 1, n |-> 2]}

MCJobs == <<DiskJobs \cup OtherJobs \cup DiscJobs \cup FloppyJobs, Again>>
=============================================================================
