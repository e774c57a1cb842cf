---------------------------- MODULE DisksProofs ----------------------------
(***************************************************************************)
(* The interrupts of the disk controllers and what they transfer, for      *)
(* every geometry, every list of jobs and any number of media changes.     *)
(***************************************************************************)
EXTENDS Disks, SequenceTheorems, TLAPS

(***************************************************************************)
(* The inductive invariant.                                                *)
(***************************************************************************)
Controller ==
    [busy : BOOLEAN, drq : BOOLEAN, err : BOOLEAN,
     current_command : {"none", "read", "write", "identify", "packet"},
     buffer_index : Int, sector_count : Int, sector_no : Int, cylinder_no : Int, head_no : Int,
     lba_mode : BOOLEAN, resetting : BOOLEAN,
     drq_index : Int, drq_bytes : Int, remaining : Int, next_lba : Int, lazy : BOOLEAN]

IdePlaces == {"poll", "wait", "in", "out", "packet", "last"}
FloppyPlaces == {"seeking", "transfer", "fdc"}

(* The words read are whatever they are. *)
Words == {got[i] : i \in DOMAIN got}

(* A job in progress is one of the list. *)
KnownJob ==
    at \in IdePlaces =>
        /\ job.on = "ide" /\ job.command \in Commands /\ job.d = drive_select
        /\ \E i \in 1 .. Len(Jobs) : job \in Jobs[i]

Controllers == drive_select \in 0 .. 1 /\ ctl \in [0 .. 1 -> Controller]

TypeOK ==
    /\ Controllers
    /\ line \in BOOLEAN /\ pending \in BOOLEAN /\ stale \in BOOLEAN /\ disable_irq \in BOOLEAN
    /\ reset \in BOOLEAN
    /\ at \in {"idle", "reset"} \cup IdePlaces \cup FloppyPlaces
    /\ left \in Int /\ jobs \in Nat
    /\ got \in Seq(Words)
    /\ KnownJob

(* The line.  It is held low without a request only since a disc was       *)
(* inserted, and never so during an IDE command, which releases it first.  *)
LineOK ==
    /\ reset => at = "reset"
    /\ stale => line
    /\ line /\ at \in {"idle", "reset"} => stale
    /\ line /\ at \in IdePlaces => pending
    /\ line /\ at \in FloppyPlaces => pending \/ stale

(* The count of sectors: m of them, the one being read included, are left. *)
CountIs(m) == Selected.sector_count = IF m = Base THEN 0 ELSE m

(* What the selected drive shows to a driver that looks at its status, if   *)
(* it asks for a transfer: the first word of a sector, packet or burst.    *)
AsksFor ==
    /\ job.command = "write" =>
          Selected.current_command = "write" /\ Selected.buffer_index = 0
    /\ job.command = "packet" =>
          /\ Selected.current_command = "packet"
          /\ IF at = "poll" THEN Selected.buffer_index = 0
             ELSE Selected.drq_index = 0 /\ Selected.cylinder_no = Selected.drq_bytes
    /\ job.command = "read" =>
          /\ Selected.current_command = "read" /\ Selected.buffer_index = 0
          /\ \E m \in 1 .. job.n : CountIs(m) /\ Len(got) = (job.n - m) * SectorWords
    /\ job.command \in {"write", "packet", "read", "identify"}

(* Driver and drive agree on how many words of it are left. *)
Agree ==
    /\ at = "out" =>
          /\ job.command = "write" /\ Selected.current_command = "write"
          /\ left >= 1 /\ 2 * left = SectorBytes - Selected.buffer_index
    /\ at = "packet" =>
          /\ job.command = "packet" /\ Selected.current_command = "packet"
          /\ left >= 1 /\ 2 * left = PacketBytes - Selected.buffer_index
    /\ at = "in" =>
          /\ job.command \in {"read", "packet", "identify"}
          /\ job.command = "read" =>
                /\ Selected.current_command = "read"
                /\ left >= 1 /\ 2 * left = SectorBytes - Selected.buffer_index
                /\ \E m \in 1 .. job.n : CountIs(m) /\ Len(got) + left = (job.n - m + 1) * SectorWords
          /\ job.command = "packet" =>
                /\ Selected.current_command = "packet"
                /\ 2 * left \in {Selected.drq_bytes - Selected.drq_index,
                                 Selected.drq_bytes - Selected.drq_index + 1}

Transfers ==
    /\ at = "idle" => got = <<>>
    /\ at \in {"poll", "wait", "last"} /\ Selected.drq => AsksFor
    /\ Agree

IInv == TypeOK /\ LineOK /\ InterruptLatched /\ Transfers

(***************************************************************************)
(* The operators on a controller.                                          *)
(***************************************************************************)
(* The smaller of two numbers is a number. *)
LEMMA MinInt ==
    ASSUME NEW a \in Int, NEW b \in Int
    PROVE  Min({a, b}) \in Int
    <1>1. \E x \in {a, b} : \A y \in {a, b} : x <= y
        OBVIOUS
    <1> QED
        BY <1>1, Zenon DEF Min

(* What the operators leave of a controller, as far as it matters here. *)
LEMMA IntZeroOne == 0 \in Int /\ 1 \in Int /\ 2 \in Int /\ 3 \in Int
    OBVIOUS

LEMMA CompletedIs ==
    ASSUME NEW c \in Controller
    PROVE  /\ Completed(c) \in Controller /\ ~Completed(c).drq
           /\ Completed(c).current_command = c.current_command
    BY Zenon DEF Controller, Completed

LEMMA AbortedIs ==
    ASSUME NEW c \in Controller
    PROVE  /\ command_aborted(c) \in Controller /\ ~command_aborted(c).drq
           /\ command_aborted(c).err /\ command_aborted(c).current_command = "none"
    BY IntZeroOne, Zenon DEF Controller, command_aborted

LEMMA RequestingIs ==
    ASSUME NEW c \in Controller, NEW x \in {"read", "write", "identify", "packet"}
    PROVE  /\ Requesting(c, x) \in Controller
           /\ Requesting(c, x).current_command = x
           /\ Requesting(c, x).buffer_index = 0
           /\ Requesting(c, x).sector_count = c.sector_count
    BY IntZeroOne, Zenon DEF Controller, Requesting

LEMMA SignedIs ==
    ASSUME NEW c \in Controller, NEW n \in Int
    PROVE  Signed(c, n) \in Controller /\ Signed(c, n).current_command = c.current_command
    BY IntZeroOne, Zenon DEF Controller, Signed

(* Addresses are numbers. *)
LEMMA AddressInt ==
    ASSUME NEW c \in Controller
    PROVE  LogicalAddress(c) \in Int
    <1>1. Base \in Int /\ Heads \in Int /\ Sectors \in Int
        BY AtaAssumption
    <1>2. c.head_no \in Int /\ c.cylinder_no \in Int /\ c.sector_no \in Int
        BY Zenon DEF Controller
    <1> QED
        BY <1>1, <1>2 DEF LogicalAddress

(* The address registers of LBA mode. *)
LEMMA LbaIs ==
    ASSUME NEW c \in Controller, NEW a \in Int
    PROVE  /\ LbaRegisters(c, a) \in Controller
           /\ LbaRegisters(c, a).sector_count = c.sector_count
           /\ LbaRegisters(c, a).buffer_index = c.buffer_index
           /\ LbaRegisters(c, a).current_command = c.current_command
           /\ LbaRegisters(c, a).drq = c.drq
    <1>1. Base \in Nat /\ Base > 0
        BY AtaAssumption
    <1>2. Base * Base \in Nat /\ Base * Base > 0
        BY <1>1
    <1>3. Base * Base * Base \in Nat /\ Base * Base * Base > 0
        BY <1>1, <1>2
    <1> DEFINE x == a \div (Base * Base * Base)
               y == a \div Base
    <1>4. x \in Int /\ y \in Int
        BY <1>1, <1>3
    <1>5. x % 16 \in Int /\ y % (Base * Base) \in Int /\ a % Base \in Int
        BY <1>1, <1>2, <1>4
    <1> QED
        BY <1>5, Zenon DEF LbaRegisters, Controller

(* The address registers of CHS mode. *)
LEMMA ChsIs ==
    ASSUME NEW c \in Controller
    PROVE  /\ NextChs(c) \in Controller
           /\ NextChs(c).sector_count = c.sector_count
           /\ NextChs(c).buffer_index = c.buffer_index
           /\ NextChs(c).current_command = c.current_command
           /\ NextChs(c).drq = c.drq
    <1>1. c.sector_no \in Int /\ c.head_no \in Int /\ c.cylinder_no \in Int /\ Base \in Nat
          /\ Base > 0 /\ Cylinders \in Nat
        BY AtaAssumption DEF Controller
    <1>2. (c.sector_no + 1) % Base \in Int /\ c.head_no + 1 \in Int
        BY <1>1
    <1>3. Min({c.cylinder_no + 1, Cylinders - 1}) \in Int
        BY <1>1, MinInt
    <1> DEFINE s == (c.sector_no + 1) % Base
               cyl == Min({c.cylinder_no + 1, Cylinders - 1})
    <1>4. \/ NextChs(c) = [c EXCEPT !.sector_no = s]
          \/ NextChs(c) = [c EXCEPT !.sector_no = 1, !.head_no = c.head_no + 1]
          \/ NextChs(c) = [c EXCEPT !.sector_no = 1, !.head_no = 0, !.cylinder_no = cyl]
        BY Zenon DEF NextChs
    <1> HIDE DEF s, cyl
    <1>5. s \in Int /\ cyl \in Int
        BY <1>2, <1>3, Zenon DEF s, cyl
    <1> DEFINE Keeps(r) == /\ r \in Controller
                           /\ r.sector_count = c.sector_count
                           /\ r.buffer_index = c.buffer_index
                           /\ r.current_command = c.current_command
                           /\ r.drq = c.drq
    <1>6. Keeps([c EXCEPT !.sector_no = s])
        BY <1>5, Zenon DEF Controller
    <1>7. Keeps([c EXCEPT !.sector_no = 1, !.head_no = c.head_no + 1])
        BY <1>2, IntZeroOne, Zenon DEF Controller
    <1>8. Keeps([c EXCEPT !.sector_no = 1, !.head_no = 0, !.cylinder_no = cyl])
        BY <1>5, IntZeroOne, Zenon DEF Controller
    <1>9. Keeps(NextChs(c))
        <2> HIDE DEF Keeps
        <2> QED
            BY <1>4, <1>6, <1>7, <1>8, Zenon
    <1> QED
        BY <1>9, Zenon

(* increment_address counts the sector. *)
LEMMA IncrementIs ==
    ASSUME NEW c \in Controller
    PROVE  /\ increment_address(c) \in Controller
           /\ increment_address(c).sector_count = (c.sector_count + Base - 1) % Base
           /\ increment_address(c).buffer_index = c.buffer_index
           /\ increment_address(c).current_command = c.current_command
           /\ increment_address(c).drq = c.drq
    <1> DEFINE n == [c EXCEPT !.sector_count = (c.sector_count + Base - 1) % Base]
    <1>1. c.sector_count \in Int /\ Base \in Nat /\ Base > 0
        BY AtaAssumption DEF Controller
    <1>2. (c.sector_count + Base - 1) % Base \in Int
        BY <1>1
    <1>3. /\ n \in Controller
          /\ n.sector_count = (c.sector_count + Base - 1) % Base
          /\ n.buffer_index = c.buffer_index
          /\ n.current_command = c.current_command
          /\ n.drq = c.drq
        BY <1>2, Zenon DEF Controller
    <1>4. increment_address(c) = LbaRegisters(n, LogicalAddress(c) + 1)
          \/ increment_address(c) = NextChs(n)
        BY Zenon DEF increment_address
    <1>5. LogicalAddress(c) + 1 \in Int
        BY AddressInt
    <1> HIDE DEF n
    <1> QED
        BY <1>3, <1>4, <1>5, LbaIs, ChsIs

(* The count of the sectors left goes down by one, from Base, written as 0, *)
(* to 0.                                                                   *)
LEMMA CountDown ==
    ASSUME NEW b \in Nat, NEW m \in 1 .. b
    PROVE  ((IF m = b THEN 0 ELSE m) + b - 1) % b = m - 1
    OBVIOUS

(* The first burst of a reply: the byte count the driver reads is its       *)
(* length.                                                                 *)
LEMMA ReplyIs ==
    ASSUME NEW c \in Controller, NEW req \in Int, NEW alloc \in Int, NEW lazy \in BOOLEAN
    PROVE  LET r == init_send_atapi_command(c, req, alloc, lazy)
           IN  /\ r \in Controller /\ r.current_command = c.current_command
               /\ r.drq_index = 0 /\ r.cylinder_no = r.drq_bytes
    <1>1. c.cylinder_no \in Int /\ Base * Base - 2 \in Int /\ BlockBytes \in Int
        BY AtaAssumption DEF Controller
    <1>2. Min({c.cylinder_no, Base * Base - 2}) \in Int
        BY <1>1, MinInt, Zenon
    <1>3. BurstLimit(c, alloc) \in Int
        BY <1>2 DEF BurstLimit
    <1> DEFINE limit == BurstLimit(c, alloc)
    <1>4. Wanted(alloc, limit) \in Int
        BY <1>3, Zenon DEF Wanted
    <1> DEFINE total == Min({req, Wanted(alloc, limit)})
    <1>5. total \in Int
        BY <1>4, MinInt, Zenon
    <1> DEFINE burst == Min({limit, total})
    <1>6. burst \in Int
        <2> HIDE DEF total, limit
        <2> QED
            BY <1>3, <1>5, MinInt, Zenon DEF limit
    <1>7. init_send_atapi_command(c, req, alloc, lazy) =
            [c EXCEPT !.sector_count = 2, !.busy = FALSE, !.drq = TRUE, !.err = FALSE,
                      !.buffer_index = IF lazy THEN BlockBytes ELSE 0,
                      !.cylinder_no = burst, !.drq_index = 0, !.drq_bytes = burst,
                      !.remaining = total, !.lazy = lazy]
        BY Zenon DEF init_send_atapi_command
    <1>8. (IF lazy THEN BlockBytes ELSE 0) \in Int
        BY <1>1
    <1> DEFINE index == IF lazy THEN BlockBytes ELSE 0
    <1> HIDE DEF burst, total, limit, index
    <1>9. index \in Int
        BY <1>8, Zenon DEF index
    <1>10. init_send_atapi_command(c, req, alloc, lazy) =
            [c EXCEPT !.sector_count = 2, !.busy = FALSE, !.drq = TRUE, !.err = FALSE,
                      !.buffer_index = index, !.cylinder_no = burst, !.drq_index = 0,
                      !.drq_bytes = burst, !.remaining = total, !.lazy = lazy]
        BY <1>7, Zenon DEF index
    <1> DEFINE r == init_send_atapi_command(c, req, alloc, lazy)
    <1> HIDE DEF r
    <1>11. r = [c EXCEPT !.sector_count = 2, !.busy = FALSE, !.drq = TRUE, !.err = FALSE,
                         !.buffer_index = index, !.cylinder_no = burst, !.drq_index = 0,
                         !.drq_bytes = burst, !.remaining = total, !.lazy = lazy]
        BY <1>10, Zenon DEF r
    <1>12. r \in Controller
        BY <1>5, <1>6, <1>9, <1>11, IntZeroOne, ZenonT(30) DEF Controller
    <1>13. r.current_command = c.current_command /\ r.drq_index = 0 /\ r.cylinder_no = burst
           /\ r.drq_bytes = burst
        BY <1>11, Zenon DEF Controller
    <1> QED
        BY <1>12, <1>13, Zenon DEF r

(***************************************************************************)
(* The accesses to the IDE controller.                                     *)
(***************************************************************************)
LEMMA SelectedIs ==
    ASSUME Controllers
    PROVE  Selected \in Controller
    BY Zenon DEF Controllers, Selected

(* Two controllers, or registers for one, with the same address. *)
SameAddress(c, r) ==
    /\ r.sector_no = c.sector_no /\ r.head_no = c.head_no /\ r.cylinder_no = c.cylinder_no
    /\ r.lba_mode = c.lba_mode

(* The registers before a command. *)
LEMMA RegistersAre ==
    ASSUME Controllers, NEW d \in 0 .. 1,
           NEW f \in [sector_count : Nat, sector_no : Nat, cylinder_no : Nat, head_no : Nat,
                      lba_mode : BOOLEAN]
    PROVE  /\ WithRegisters(d, f) \in [0 .. 1 -> Controller]
           /\ WithRegisters(d, f)[d].sector_count = f.sector_count
           /\ SameAddress(f, WithRegisters(d, f)[d])
           /\ \A e \in 0 .. 1 : WithRegisters(d, f)[e].current_command = ctl[e].current_command
    <1> DEFINE absent(e) == e = d /\ device[d] = "none"
               r(e) == [ctl[e] EXCEPT !.sector_count = f.sector_count, !.sector_no = f.sector_no,
                                      !.cylinder_no = f.cylinder_no, !.head_no = f.head_no,
                                      !.lba_mode = f.lba_mode,
                                      !.err = ctl[e].err \/ absent(e)]
    <1>1. /\ f.sector_count \in Int /\ f.sector_no \in Int /\ f.cylinder_no \in Int
          /\ f.head_no \in Int /\ f.lba_mode \in BOOLEAN
        OBVIOUS
    <1>2. ASSUME NEW e \in 0 .. 1
          PROVE  /\ r(e) \in Controller /\ r(e).sector_count = f.sector_count
                 /\ SameAddress(f, r(e)) /\ r(e).current_command = ctl[e].current_command
        <2> DEFINE c == ctl[e]
                   b == c.err \/ absent(e)
        <2>1. c \in Controller /\ b \in BOOLEAN
            BY Zenon DEF Controllers
        <2> HIDE DEF c, b
        <2> DEFINE x == [c EXCEPT !.sector_count = f.sector_count, !.sector_no = f.sector_no,
                                  !.cylinder_no = f.cylinder_no, !.head_no = f.head_no,
                                  !.lba_mode = f.lba_mode, !.err = b]
        <2>2. x \in Controller /\ x.sector_count = f.sector_count
            BY <1>1, <2>1, ZenonT(30) DEF Controller
        <2>3. SameAddress(f, x) /\ x.current_command = c.current_command
            BY <2>1, Zenon DEF Controller, SameAddress
        <2>4. x = r(e)
            BY Zenon DEF c, b
        <2> HIDE DEF x, r
        <2> QED
            BY <2>2, <2>3, <2>4, Zenon DEF c
    <1>3. WithRegisters(d, f) = [e \in 0 .. 1 |-> r(e)]
        BY Zenon DEF WithRegisters
    <1> HIDE DEF r
    <1> QED
        BY <1>2, <1>3, Zenon

(* The controllers of a machine that was reset. *)
LEMMA FreshIs ==
    ASSUME NEW d \in 0 .. 1
    PROVE  FreshController(d) \in Controller
    BY DEF FreshController, Controller

(* The commands that move no data end with no request. *)
LEMMA WithoutDataIs ==
    ASSUME NEW d \in 0 .. 1, NEW cs \in [0 .. 1 -> Controller], NEW command,
           WithoutData(d, cs, command)
    PROVE  \E c \in Controller, irq \in BOOLEAN :
              /\ Answer(d, cs, c, irq) /\ ~c.drq /\ (command \notin Polled => irq)
              /\ c.current_command \in {cs[d].current_command, "none"}
    <1> DEFINE c == cs[d]
               Silent(x) == /\ x \in Controller /\ ~x.drq
                            /\ x.current_command \in {c.current_command, "none"}
               Done(x, irq) == /\ Answer(d, cs, x, irq) /\ Silent(x) /\ irq \in BOOLEAN
                               /\ command \notin Polled => irq
    <1>1. c \in Controller /\ Signature \in Int /\ Base - 1 \in Int
        BY AtaAssumption DEF Signature
    <1> DEFINE cal == [c EXCEPT !.cylinder_no = 0]
               pow == [c EXCEPT !.sector_count = Base - 1]
               sought == [Completed(c) EXCEPT !.buffer_index = 0]
    <1>2. /\ cal \in Controller /\ cal.current_command = c.current_command
          /\ pow \in Controller /\ pow.current_command = c.current_command
        <2> HIDE DEF c
        <2> QED
            BY <1>1, IntZeroOne, Zenon DEF Controller
    <1>3. Silent(Completed(c)) /\ Silent(command_aborted(c)) /\ Silent(Completed(command_aborted(c)))
        BY <1>1, CompletedIs, AbortedIs, Zenon
    <1>4. Silent(Completed(cal)) /\ Silent(Completed(pow))
        <2> HIDE DEF cal, pow
        <2> QED
            BY <1>2, CompletedIs, Zenon
    <1>5. Silent(sought)
        <2> DEFINE x == Completed(c)
        <2>1. Silent(x)
            BY <1>3, Zenon
        <2> HIDE DEF x
        <2>2. Silent([x EXCEPT !.buffer_index = 0])
            BY <2>1, IntZeroOne, Zenon DEF Controller
        <2> QED
            BY <2>2, Zenon DEF x
    <1>6. Silent(Completed(Signed(c, Signature))) /\ Silent(command_aborted(Signed(c, Signature)))
        BY <1>1, SignedIs, CompletedIs, AbortedIs, Zenon
    <1> DEFINE multiple == c.sector_count \in {n \in 2 .. Base - 1 : \E k \in 1 .. 7 : n = 2 ^ k}
    <1>7. multiple \in BOOLEAN
        OBVIOUS
    <1>8. \/ command = "calibrate" /\ Answer(d, cs, Completed(cal), TRUE)
          \/ command \in {"verify", "parameters"} /\ Answer(d, cs, Completed(c), TRUE)
          \/ command = "power" /\ Answer(d, cs, Completed(pow), TRUE)
          \/ command = "seek" /\ Answer(d, cs, IF device[d] = "disk" /\ InBounds(c)
                                               THEN sought ELSE command_aborted(c), TRUE)
          \/ command = "diagnose" /\ Answer(d, cs, Completed(c), FALSE)
          \/ /\ command = "multiple"
             /\ Answer(d, cs, Completed(IF multiple THEN c ELSE command_aborted(c)), ~multiple)
          \/ /\ command = "device reset"
             /\ IF device[d] = "cd" THEN Answer(d, cs, Completed(Signed(c, Signature)), FALSE)
                ELSE Answer(d, cs, command_aborted(c), TRUE)
          \/ command = "identify disk" /\ Answer(d, cs, command_aborted(Signed(c, Signature)), TRUE)
          \/ command = "unsupported" /\ Answer(d, cs, command_aborted(c), TRUE)
        BY Zenon DEF WithoutData
    <1> HIDE DEF c, cal, pow, sought, multiple, Silent
    <1>9. command \in {"diagnose", "multiple", "device reset"} => command \in Polled
        BY Zenon DEF Polled
    <1>10. \E x, irq : Done(x, irq)
        <2>1. CASE command = "calibrate" /\ Answer(d, cs, Completed(cal), TRUE)
            BY <1>4, <2>1, Zenon
        <2>2. CASE command \in {"verify", "parameters"} /\ Answer(d, cs, Completed(c), TRUE)
            BY <1>3, <2>2, Zenon
        <2>3. CASE command = "power" /\ Answer(d, cs, Completed(pow), TRUE)
            BY <1>4, <2>3, Zenon
        <2>4. CASE command = "seek" /\ Answer(d, cs, IF device[d] = "disk" /\ InBounds(c)
                                               THEN sought ELSE command_aborted(c), TRUE)
            <3>1. Answer(d, cs, sought, TRUE) \/ Answer(d, cs, command_aborted(c), TRUE)
                BY <2>4, Zenon
            <3> QED
                BY <1>3, <1>5, <3>1, Zenon
        <2>5. CASE command = "diagnose" /\ Answer(d, cs, Completed(c), FALSE)
            BY <1>3, <1>9, <2>5, Zenon
        <2>6. CASE /\ command = "multiple"
                   /\ Answer(d, cs, Completed(IF multiple THEN c ELSE command_aborted(c)), ~multiple)
            <3>1. \/ Answer(d, cs, Completed(c), ~multiple)
                  \/ Answer(d, cs, Completed(command_aborted(c)), ~multiple)
                BY <2>6, Zenon
            <3> QED
                BY <1>3, <1>7, <1>9, <2>6, <3>1, Zenon
        <2>7. CASE /\ command = "device reset"
                   /\ IF device[d] = "cd" THEN Answer(d, cs, Completed(Signed(c, Signature)), FALSE)
                      ELSE Answer(d, cs, command_aborted(c), TRUE)
            BY <1>3, <1>6, <1>9, <2>7, Zenon
        <2>8. CASE command = "identify disk" /\ Answer(d, cs, command_aborted(Signed(c, Signature)), TRUE)
            BY <1>6, <2>8, Zenon
        <2>9. CASE command = "unsupported" /\ Answer(d, cs, command_aborted(c), TRUE)
            BY <1>3, <2>9, Zenon
        <2> QED
            BY <1>8, <2>1, <2>2, <2>3, <2>4, <2>5, <2>6, <2>7, <2>8, <2>9, Zenon
    <1> QED
        BY <1>10, Zenon DEF Silent, c

(***************************************************************************)
(* The line.                                                               *)
(***************************************************************************)
(***************************************************************************)
(* Numbers.                                                                *)
(***************************************************************************)
(* A sector has a whole number of words. *)
LEMMA Halves ==
    ASSUME NEW n \in Nat, n > 0, n % 2 = 0
    PROVE  n \div 2 \in Nat /\ n \div 2 >= 1 /\ 2 * (n \div 2) = n
    OBVIOUS

LEMMA SectorWordsAre ==
    /\ SectorWords \in Nat /\ SectorWords >= 1 /\ 2 * SectorWords = SectorBytes
    /\ PacketBytes \div 2 >= 1 /\ PacketBytes \div 2 \in Nat /\ 2 * (PacketBytes \div 2) = PacketBytes
    BY AtaAssumption, Halves, Zenon DEF SectorWords

LEMMA NoneLeft ==
    ASSUME NEW w \in Int
    PROVE  0 * w = 0
    OBVIOUS

(***************************************************************************)
(* The steps.                                                              *)
(***************************************************************************)
LEMMA InitIInv == Init => IInv
    <1> SUFFICES ASSUME Init
                 PROVE  IInv
        BY Zenon
    <1>1. /\ drive_select = 0 /\ ctl = [d \in 0 .. 1 |-> FreshController(d)]
          /\ reset = FALSE /\ disable_irq = FALSE /\ line = FALSE /\ pending = FALSE
          /\ at = "idle" /\ left = 0 /\ got = <<>> /\ jobs = 0 /\ stale = FALSE
        BY Zenon DEF Init, AtaInit, LineInit
    <1>2. Controllers
        BY <1>1, FreshIs DEF Controllers
    <1>3. got \in Seq(Words)
        BY <1>1, EmptySeq, Zenon DEF Words
    <1>4. KnownJob
        BY <1>1, Zenon DEF KnownJob, IdePlaces
    <1>5. /\ line \in BOOLEAN /\ pending \in BOOLEAN /\ disable_irq \in BOOLEAN
          /\ stale \in BOOLEAN /\ reset \in BOOLEAN
        BY <1>1, Zenon
    <1>6. TypeOK
        BY <1>1, <1>2, <1>3, <1>4, <1>5 DEF TypeOK
    <1>7. LineOK /\ InterruptLatched /\ Transfers
        BY <1>1, Zenon DEF LineOK, InterruptLatched, Transfers, Agree, IdePlaces, FloppyPlaces
    <1> QED
        BY <1>6, <1>7, Zenon DEF IInv

LEMMA NextIInv == IInv /\ [Next]_vars => IInv'
    <1>SetSelectedIs.
        ASSUME Controllers, NEW c \in Controller, SetSelected(c), UNCHANGED drive_select
        PROVE  Controllers' /\ Selected' = c
        BY <1>SetSelectedIs, Zenon DEF Controllers, Selected, SetSelected
    (* The control register. *)
    <1>ControlIs.
        ASSUME Controllers, NEW r \in BOOLEAN, NEW nien, WriteControl(r, nien)
        PROVE  Controllers' /\ UNCHANGED drive_select /\ reset' = r
        <2> USE <1>ControlIs
        <2>1. drive_select' \in 0 .. 1 /\ UNCHANGED drive_select /\ reset' = r
            BY Zenon DEF WriteControl, Controllers
        <2>2. Signature \in Int
            BY AtaAssumption DEF Signature
        <2>3. ASSUME NEW d \in 0 .. 1
              PROVE  /\ [ctl[d] EXCEPT !.busy = TRUE, !.drq = FALSE, !.err = FALSE,
                                       !.current_command = "none", !.buffer_index = 0,
                                       !.lba_mode = FALSE, !.resetting = TRUE] \in Controller
                     /\ [Signed(ctl[d], IF device[d] = "disk" THEN 0 ELSE Signature)
                            EXCEPT !.busy = FALSE, !.resetting = FALSE] \in Controller
            <3> DEFINE c == ctl[d]
                       n == IF device[d] = "disk" THEN 0 ELSE Signature
                       s == Signed(c, n)
            <3>1. c \in Controller /\ n \in Int
                BY <2>2 DEF Controllers
            <3> HIDE DEF c, n
            <3>2. s \in Controller
                BY <3>1, SignedIs, Zenon
            <3> HIDE DEF s
            <3>3. /\ [c EXCEPT !.busy = TRUE, !.drq = FALSE, !.err = FALSE,
                               !.current_command = "none", !.buffer_index = 0,
                               !.lba_mode = FALSE, !.resetting = TRUE] \in Controller
                  /\ [s EXCEPT !.busy = FALSE, !.resetting = FALSE] \in Controller
                BY <3>1, <3>2, IntZeroOne, ZenonT(30) DEF Controller
            <3> QED
                BY <3>3, Zenon DEF s, n, c
        <2> DEFINE Stopped(d) == [ctl[d] EXCEPT !.busy = TRUE, !.drq = FALSE, !.err = FALSE,
                                       !.current_command = "none", !.buffer_index = 0,
                                       !.lba_mode = FALSE, !.resetting = TRUE]
                   Awake(d) == [Signed(ctl[d], IF device[d] = "disk" THEN 0 ELSE Signature)
                                    EXCEPT !.busy = FALSE, !.resetting = FALSE]
        <2>4. \/ ctl' = [d \in 0 .. 1 |-> Stopped(d)]
              \/ ctl' = [d \in 0 .. 1 |-> Awake(d)]
              \/ ctl' = ctl
            BY Zenon DEF WriteControl
        <2>5. \A d \in 0 .. 1 : Stopped(d) \in Controller /\ Awake(d) \in Controller
            BY <2>3, Zenon
        <2> HIDE DEF Stopped, Awake
        <2> QED
            BY <2>1, <2>4, <2>5, Zenon DEF Controllers
    <1>Pulls.
        ASSUME line \in BOOLEAN, pending \in BOOLEAN, NEW pull \in BOOLEAN, SetLine(FALSE, pull)
        PROVE  /\ line' \in BOOLEAN /\ pending' \in BOOLEAN
               /\ line' = (line \/ pull)
               /\ pending => pending'
               /\ pull /\ ~line => pending'
        BY <1>Pulls, Zenon DEF SetLine
    <1>Releases.
        ASSUME line \in BOOLEAN, pending \in BOOLEAN, NEW pull \in BOOLEAN, SetLine(TRUE, pull)
        PROVE  /\ line' \in BOOLEAN /\ pending' \in BOOLEAN
               /\ line' = pull
               /\ pull => pending'
        BY <1>Releases, Zenon DEF SetLine
    (* What an access to the data register does to the line. *)
    <1>WordsPull.
        ASSUME TypeOK, LineOK, at \in IdePlaces, UNCHANGED disable_irq,
               Interrupt \/ UNCHANGED lineVars
        PROVE  /\ line' \in BOOLEAN /\ pending' \in BOOLEAN
               /\ line' => pending'
               /\ line => line'
               /\ Interrupt /\ ~disable_irq' => pending'
        <2> USE <1>WordsPull
        <2>1. line \in BOOLEAN /\ pending \in BOOLEAN /\ disable_irq \in BOOLEAN /\ (line => pending)
            BY Zenon DEF TypeOK, LineOK
        <2>2. CASE Interrupt
            <3>1. SetLine(FALSE, ~disable_irq) /\ (~disable_irq) \in BOOLEAN
                BY <2>1, <2>2, Zenon DEF Interrupt
            <3> QED
                BY <2>1, <2>2, <3>1, <1>Pulls, Zenon
        <2>3. CASE UNCHANGED lineVars /\ ~Interrupt
            BY <2>1, <2>3, Zenon DEF lineVars
        <2> QED
            BY <2>2, <2>3, Zenon
    <1>RoundUp.
        ASSUME NEW n \in Int
        PROVE  (n + 1) \div 2 \in Int /\ 2 * ((n + 1) \div 2) \in {n, n + 1}
        OBVIOUS
    <1>WordLessOf.
        ASSUME NEW n \in Int, NEW b \in Int, NEW i \in Int, n > 1, 2 * n = b - i
        PROVE  n - 1 >= 1 /\ 2 * (n - 1) = b - (i + 2)
        BY <1>WordLessOf
    (* One sector more. *)
    <1>OneMore.
        ASSUME NEW k \in Int, NEW w \in Int
        PROVE  k * w + w = (k + 1) * w
        BY <1>OneMore
    (* The driver gives a command. *)
    <1>StartIdeIInv.
        \A j \in Jobs[jobs + 1] :
            IInv /\ jobs < Len(Jobs) /\ StartIde(j) => IInv'
        (* The command register.  A command that is not polled interrupts, and a    *)
        (* drive that asks for data is at the start of what was asked for.         *)
        <2>CommandIs.
            ASSUME Controllers, NEW d \in 0 .. 1, device[d] # "none",
                   NEW cs \in [0 .. 1 -> Controller], NEW command,
                   WriteCommand(d, cs, command)
            PROVE  /\ Controllers' /\ drive_select' = d /\ UNCHANGED <<reset, disable_irq>>
                   /\ \E irq \in BOOLEAN :
                         SetLine(TRUE, irq /\ ~disable_irq) /\ (command \notin Polled => irq)
                   /\ Selected'.drq =>
                         /\ command \in {"write", "packet", "read", "identify"}
                         /\ Selected'.current_command = command
                         /\ Selected'.buffer_index = 0
                         /\ command = "read" => Selected'.sector_count = cs[d].sector_count
            <3> USE <2>CommandIs
            <3> DEFINE b == cs[d]
                       Asks(c) == /\ c \in Controller
                                  /\ c.drq => /\ command \in {"write", "packet", "read", "identify"}
                                              /\ c.current_command = command
                                              /\ c.buffer_index = 0
                                              /\ command = "read" => c.sector_count = b.sector_count
            <3>1. drive_select' = d /\ UNCHANGED <<reset, disable_irq>>
                BY Zenon DEF WriteCommand
            <3>2. \/ command = "read" /\ ReadSectors(d, cs)
                  \/ command = "write" /\ WriteSectors(d, cs)
                  \/ command = "identify" /\ Identify(d, cs)
                  \/ command = "packet" /\ SendPacket(d, cs)
                  \/ WithoutData(d, cs, command)
                BY Zenon DEF WriteCommand
            <3>3. b \in Controller /\ command_aborted(b) \in Controller /\ ~command_aborted(b).drq
                BY AbortedIs, Zenon
            <3>4. Asks(command_aborted(b))
                BY <3>3, Zenon
            <3>5. \A x \in {"read", "write", "identify", "packet"} : command = x => Asks(Requesting(b, x))
                BY <3>3, RequestingIs
            <3>6. command = "packet" => Asks([Requesting(b, "packet") EXCEPT !.sector_count = 1])
                <4> DEFINE x == Requesting(b, "packet")
                <4>1. x \in Controller /\ x.current_command = "packet" /\ x.buffer_index = 0
                    BY <3>3, RequestingIs, Zenon
                <4> HIDE DEF x
                <4>2. /\ [x EXCEPT !.sector_count = 1] \in Controller
                      /\ [x EXCEPT !.sector_count = 1].current_command = "packet"
                      /\ [x EXCEPT !.sector_count = 1].buffer_index = 0
                    BY <4>1, IntZeroOne, Zenon DEF Controller
                <4> QED
                    BY <4>2, Zenon DEF x
            <3>7. "write" \in Polled /\ "packet" \in Polled
                BY Zenon DEF Polled
            <3>8. \E c, irq : /\ Answer(d, cs, c, irq) /\ Asks(c) /\ irq \in BOOLEAN
                              /\ command \notin Polled => irq
                <4> HIDE DEF b, Asks
                <4>1. CASE command = "read" /\ ReadSectors(d, cs)
                    BY <3>4, <3>5, <4>1, Zenon DEF ReadSectors, b
                <4>2. CASE command = "write" /\ WriteSectors(d, cs)
                    BY <3>5, <3>7, <4>2, Zenon DEF WriteSectors, b
                <4>3. CASE command = "identify" /\ Identify(d, cs)
                    BY <3>4, <3>5, <4>3, Zenon DEF Identify, b
                <4>4. CASE command = "packet" /\ SendPacket(d, cs)
                    BY <3>4, <3>6, <3>7, <4>4, Zenon DEF SendPacket, b
                <4>5. CASE WithoutData(d, cs, command)
                    BY <4>5, WithoutDataIs DEF Asks
                <4> QED
                    BY <3>2, <4>1, <4>2, <4>3, <4>4, <4>5, Zenon
            <3>9. PICK c, irq : /\ Answer(d, cs, c, irq) /\ Asks(c) /\ irq \in BOOLEAN
                                /\ command \notin Polled => irq
                BY <3>8, Zenon
            <3>10. ctl' = [cs EXCEPT ![d] = c] /\ SetLine(TRUE, irq /\ ~disable_irq)
                BY <3>9, Zenon DEF Answer
            <3>11. Controllers' /\ Selected' = c
                BY <3>1, <3>9, <3>10, Zenon DEF Controllers, Selected
            <3> QED
                BY <3>1, <3>9, <3>10, <3>11, Zenon
        <2> SUFFICES ASSUME IInv, jobs < Len(Jobs), NEW j \in Jobs[jobs + 1], StartIde(j)
                 PROVE  IInv'
            BY Zenon
        <2> DEFINE cs == WithRegisters(j.d, j.registers)
                   where == IF j.command \in Polled THEN "poll" ELSE "wait"
        <2>1. /\ j.on = "ide" /\ WriteCommand(j.d, cs, j.command)
              /\ at = "idle" /\ at' = where /\ job' = j /\ jobs' = jobs + 1
              /\ left' = left /\ got' = got /\ stale' = (stale /\ line')
            BY Zenon DEF StartIde, Begin
        <2>2. jobs + 1 \in 1 .. Len(Jobs)
            BY JobsAssumption DEF IInv, TypeOK
        <2>3. /\ j.d \in 0 .. 1 /\ device[j.d] # "none" /\ j.command \in Commands
              /\ j.registers \in [sector_count : Nat, sector_no : Nat, cylinder_no : Nat,
                                  head_no : Nat, lba_mode : BOOLEAN]
              /\ j.command = "read" =>
                    j.n \in 1 .. Base /\ j.registers.sector_count = IF j.n = Base THEN 0 ELSE j.n
            BY <2>1, <2>2, JobsAssumption, Zenon
        <2>4. Controllers
            BY Zenon DEF IInv, TypeOK
        <2>5. cs \in [0 .. 1 -> Controller] /\ cs[j.d].sector_count = j.registers.sector_count
            BY <2>3, <2>4, RegistersAre, Zenon
        <2> HIDE DEF cs
        <2>6. /\ Controllers' /\ drive_select' = j.d /\ UNCHANGED <<reset, disable_irq>>
              /\ \E irq \in BOOLEAN :
                    SetLine(TRUE, irq /\ ~disable_irq) /\ (j.command \notin Polled => irq)
              /\ Selected'.drq =>
                     /\ j.command \in {"write", "packet", "read", "identify"}
                     /\ Selected'.current_command = j.command
                     /\ Selected'.buffer_index = 0
                     /\ j.command = "read" => Selected'.sector_count = cs[j.d].sector_count
            BY <2>1, <2>3, <2>4, <2>5, <2>CommandIs, Zenon
        <2>7. /\ line' \in BOOLEAN /\ pending' \in BOOLEAN /\ (line' => pending')
              /\ j.command \notin Polled /\ ~disable_irq => pending'
            <3>1. PICK irq \in BOOLEAN :
                    SetLine(TRUE, irq /\ ~disable_irq) /\ (j.command \notin Polled => irq)
                BY <2>6, Zenon
            <3>2. (irq /\ ~disable_irq) \in BOOLEAN /\ line \in BOOLEAN /\ pending \in BOOLEAN
                BY Zenon DEF IInv, TypeOK
            <3> QED
                BY <3>1, <3>2, <1>Releases, Zenon
        <2>8. at' \in {"poll", "wait"} /\ (at' = "wait" <=> j.command \notin Polled) /\ at' \in IdePlaces
            BY <2>1, Zenon DEF IdePlaces
        <2>9. TypeOK'
            <3>1. stale' \in BOOLEAN /\ disable_irq' \in BOOLEAN /\ reset' \in BOOLEAN
                  /\ left' \in Int /\ jobs' \in Nat
                BY <2>1, <2>6 DEF IInv, TypeOK
            <3>2. got' \in Seq(Words')
                BY <2>1, Zenon DEF IInv, TypeOK, Words
            <3>3. KnownJob'
                BY <2>1, <2>2, <2>3, <2>6, Zenon DEF KnownJob
            <3> QED
                BY <2>6, <2>7, <2>8, <3>1, <3>2, <3>3, Zenon DEF TypeOK
        <2>10. LineOK'
            BY <2>1, <2>6, <2>7, <2>8, Zenon DEF IInv, LineOK, IdePlaces, FloppyPlaces
        <2>11. InterruptLatched'
            BY <2>6, <2>7, <2>8, Zenon DEF InterruptLatched
        <2>12. Selected'.drq => AsksFor'
            <3> SUFFICES ASSUME Selected'.drq
                         PROVE  AsksFor'
                BY Zenon
            <3>1. j.command = "packet" => at' = "poll"
                BY <2>1, Zenon DEF Polled
            <3>2. ASSUME j.command = "read"
                  PROVE  \E m \in 1 .. j.n : CountIs(m)' /\ Len(got') = (j.n - m) * SectorWords
                <4>1. j.n \in 1 .. Base /\ Base \in Nat
                    BY <2>3, <3>2, AtaAssumption, Zenon
                <4>2. CountIs(j.n)'
                    BY <2>3, <2>5, <2>6, <3>2, Zenon DEF CountIs
                <4>3. Len(got') = 0
                    BY <2>1, EmptySeq, Zenon DEF IInv, Transfers
                <4>4. (j.n - j.n) * SectorWords = 0
                    BY <4>1, NoneLeft, SectorWordsAre
                <4> QED
                    BY <4>1, <4>2, <4>3, <4>4
            <3> QED
                BY <2>1, <2>6, <3>1, <3>2, Zenon DEF AsksFor
        <2> QED
            BY <2>8, <2>9, <2>10, <2>11, <2>12, Zenon DEF IInv, Transfers, Agree
    (* A driver at rest, with the line released or held since a disc came in. *)
    <1>AtRest.
        ASSUME Controllers', line' \in BOOLEAN, pending' \in BOOLEAN, disable_irq' \in BOOLEAN,
               stale' \in BOOLEAN, stale' <=> line', ~reset', reset' \in BOOLEAN,
               at' = "idle", left' \in Int, jobs' \in Nat, got' = <<>>
        PROVE  IInv'
        <2> USE <1>AtRest
        <2>1. Words' = {} /\ got' \in Seq(Words')
            BY EmptySeq DEF Words
        <2>2. TypeOK'
            BY <2>1, Zenon DEF TypeOK, KnownJob, IdePlaces
        <2>3. LineOK' /\ InterruptLatched' /\ Transfers'
            BY Zenon DEF LineOK, InterruptLatched, Transfers, Agree, IdePlaces, FloppyPlaces
        <2> QED
            BY <2>2, <2>3, Zenon DEF IInv
    (* The driver reads the status of a drive: it finds how much to move. *)
    <1>SeeIdeIInv.
        ASSUME IInv, SeeIde
        PROVE  IInv'
        <2> USE <1>SeeIdeIInv
        <2>1. /\ at \in {"poll", "wait", "last"} /\ at \in IdePlaces
              /\ line' = FALSE /\ pending' = FALSE
              /\ UNCHANGED <<drive_select, ctl, reset, disable_irq>> /\ SeeStatus
            BY Zenon DEF SeeIde, ReadStatus, ataVars, IdePlaces
        <2>2. Controllers' /\ Selected' = Selected /\ Selected \in Controller
            BY <2>1, SelectedIs, Zenon DEF IInv, TypeOK, Controllers, Selected
        <2>3. ~reset' /\ reset' \in BOOLEAN /\ disable_irq' \in BOOLEAN /\ left \in Int /\ jobs \in Nat
            BY <2>1, Zenon DEF IInv, TypeOK, LineOK
        <2>4. CASE Finish
            <3>1. at' = "idle" /\ left' = 0 /\ got' = <<>> /\ jobs' = jobs /\ stale' = FALSE
                BY <2>1, <2>4, Zenon DEF Finish, Rest
            <3>2. line' \in BOOLEAN /\ pending' \in BOOLEAN /\ stale' \in BOOLEAN /\ (stale' <=> line')
                BY <2>1, <3>1, Zenon
            <3>3. left' \in Int /\ jobs' \in Nat
                BY <2>3, <3>1
            <3> QED
                BY <2>2, <2>3, <3>1, <3>2, <3>3, <1>AtRest, Zenon
        <2>5. ASSUME Selected.drq,
                     NEW where \in {"out", "in", "packet"}, NEW words \in Int, Goto(where, words),
                     Agree'
              PROVE  IInv'
            <3>1. /\ at' = where /\ left' = words /\ stale' = FALSE
                  /\ UNCHANGED <<job, got, jobs>> /\ where \in IdePlaces
                BY <2>1, <2>5, Zenon DEF Goto, IdePlaces
            <3>2. got' \in Seq(Words')
                BY <3>1, Zenon DEF IInv, TypeOK, Words
            <3>3. KnownJob'
                BY <2>1, <3>1, Zenon DEF IInv, TypeOK, KnownJob
            <3>4. TypeOK'
                BY <2>1, <2>2, <2>3, <3>1, <3>2, <3>3, Zenon DEF TypeOK
            <3>5. LineOK' /\ InterruptLatched'
                BY <2>1, <2>3, <3>1, Zenon DEF LineOK, InterruptLatched, IdePlaces, FloppyPlaces
            <3>6. Transfers'
                BY <2>5, <3>1, Zenon DEF Transfers
            <3> QED
                BY <3>4, <3>5, <3>6, Zenon DEF IInv
        <2>6. CASE Selected.drq /\ job.command = "write" /\ Goto("out", SectorWords)
            <3>1. AsksFor
                BY <2>1, <2>6, Zenon DEF IInv, Transfers
            <3>2. Agree'
                BY <2>2, <2>6, <3>1, SectorWordsAre DEF Agree, AsksFor, Goto
            <3> QED
                BY <2>5, <2>6, <3>2, SectorWordsAre
        <2>7. CASE Selected.drq /\ job.command \notin {"write", "packet"} /\ Goto("in", SectorWords)
            <3>1. AsksFor
                BY <2>1, <2>7, Zenon DEF IInv, Transfers
            <3>2. job.command \in {"read", "identify"}
                BY <2>7, <3>1, Zenon DEF AsksFor
            <3>3. at' = "in" /\ left' = SectorWords /\ job' = job /\ got' = got
                BY <2>7, Zenon DEF Goto
            <3>4. ASSUME job.command = "read"
                  PROVE  /\ Selected'.current_command = "read"
                         /\ left' >= 1 /\ 2 * left' = SectorBytes - Selected'.buffer_index
                         /\ \E m \in 1 .. job'.n :
                              CountIs(m)' /\ Len(got') + left' = (job'.n - m + 1) * SectorWords
                <4>1. Selected.current_command = "read" /\ Selected.buffer_index = 0
                    BY <3>1, <3>4, Zenon DEF AsksFor
                <4>2. PICK m \in 1 .. job.n : CountIs(m) /\ Len(got) = (job.n - m) * SectorWords
                    BY <3>1, <3>4, Zenon DEF AsksFor
                <4>3. job.n \in Int
                    BY <2>1, <3>4, JobsAssumption DEF IInv, TypeOK, KnownJob
                <4>4. Len(got) + SectorWords = (job.n - m + 1) * SectorWords
                    <5>1. job.n - m \in Int /\ SectorWords \in Int
                        BY <4>3, SectorWordsAre
                    <5>2. (job.n - m) * SectorWords + SectorWords = (job.n - m + 1) * SectorWords
                        BY <5>1, <1>OneMore, Zenon
                    <5> QED
                        BY <4>2, <5>2, Zenon
                <4>5. CountIs(m)'
                    BY <2>2, <4>2, Zenon DEF CountIs
                <4> QED
                    BY <2>2, <3>3, <4>1, <4>2, <4>4, <4>5, SectorWordsAre
            <3>5. Agree'
                BY <3>2, <3>3, <3>4, Zenon DEF Agree
            <3> QED
                BY <2>5, <2>7, <3>5, SectorWordsAre
        <2>8. CASE Selected.drq /\ job.command = "packet" /\ at = "poll" /\ Goto("packet", PacketBytes \div 2)
            <3>1. AsksFor
                BY <2>1, <2>8, Zenon DEF IInv, Transfers
            <3>2. Agree'
                BY <2>2, <2>8, <3>1, SectorWordsAre DEF Agree, AsksFor, Goto
            <3> QED
                BY <2>5, <2>8, <3>2, SectorWordsAre
        <2>9. CASE /\ Selected.drq /\ job.command = "packet" /\ at # "poll"
                   /\ Goto("in", (Selected.cylinder_no + 1) \div 2)
            <3> DEFINE words == (Selected.cylinder_no + 1) \div 2
            <3>1. AsksFor
                BY <2>1, <2>9, Zenon DEF IInv, Transfers
            <3>2. Selected.cylinder_no \in Int
                BY <2>2, Zenon DEF Controller
            <3>3. words \in Int /\ 2 * words \in {Selected.cylinder_no, Selected.cylinder_no + 1}
                BY <3>2, <1>RoundUp, Zenon
            <3>4. Goto("in", words)
                BY <2>9, Zenon
            <3> HIDE DEF words
            <3>5. at' = "in" /\ left' = words /\ job' = job
                BY <3>4, Zenon DEF Goto
            <3>6. Selected.current_command = "packet" /\ Selected.drq_index = 0
                  /\ Selected.drq_bytes = Selected.cylinder_no
                BY <2>9, <3>1, Zenon DEF AsksFor
            <3>7. 2 * left' \in {Selected.drq_bytes - Selected.drq_index,
                                 Selected.drq_bytes - Selected.drq_index + 1}
                BY <3>2, <3>3, <3>5, <3>6
            <3>8. Agree'
                BY <2>2, <2>9, <3>5, <3>6, <3>7, Zenon DEF Agree
            <3> QED
                BY <2>5, <2>9, <3>3, <3>4, <3>8, Zenon
        <2> QED
            BY <2>1, <2>4, <2>6, <2>7, <2>8, <2>9, Zenon DEF SeeStatus
    (* Words move. *)
    <1>MovedIInv.
        ASSUME IInv, at \in {"in", "out", "packet"}, Moved,
               Controllers', UNCHANGED <<drive_select, reset, disable_irq>>,
               line' \in BOOLEAN, pending' \in BOOLEAN, line' => pending',
               got' \in Seq(Words'),
               at' = "wait" /\ ~disable_irq' => pending',
               at' \in {"wait", "last"} /\ Selected'.drq => AsksFor',
               Agree'
        PROVE  IInv'
        <2> USE <1>MovedIInv
        <2>1. at' \in {"in", "out", "packet", "wait", "last"} /\ at' \in IdePlaces /\ at \in IdePlaces
            BY Zenon DEF Moved, AfterWords, IdePlaces
        <2>2. left' = left - 1 /\ stale' = (stale /\ line') /\ UNCHANGED <<job, jobs>>
            BY Zenon DEF Moved
        <2>3. left' \in Int /\ jobs' \in Nat /\ stale' \in BOOLEAN /\ disable_irq' \in BOOLEAN
              /\ reset' \in BOOLEAN /\ ~reset'
            BY <2>1, <2>2 DEF IInv, TypeOK, LineOK, IdePlaces
        <2>4. KnownJob'
            BY <2>1, <2>2, Zenon DEF IInv, TypeOK, KnownJob
        <2>5. TypeOK'
            BY <2>1, <2>3, <2>4, Zenon DEF TypeOK
        <2>6. LineOK' /\ InterruptLatched'
            BY <2>1, <2>2, <2>3, Zenon DEF LineOK, InterruptLatched, IdePlaces, FloppyPlaces
        <2>7. Transfers'
            BY <2>1, Zenon DEF Transfers
        <2> QED
            BY <2>5, <2>6, <2>7, Zenon DEF IInv
    <1>ReadWordIInv.
        IInv /\ ReadWord => IInv'
        (* A word of a sector read: the drive interrupts at the end of a sector if *)
        (* there is another one.                                                   *)
        <2>ReadSectorIs.
            ASSUME Controllers, ReadSectorWord
            PROVE  /\ Controllers' /\ UNCHANGED <<drive_select, reset, disable_irq>>
                   /\ Selected.current_command = "read"
                   /\ Selected.buffer_index + 2 < SectorBytes =>
                         /\ UNCHANGED lineVars
                         /\ Selected'.current_command = "read"
                         /\ Selected'.buffer_index = Selected.buffer_index + 2
                         /\ Selected'.sector_count = Selected.sector_count
                   /\ ~(Selected.buffer_index + 2 < SectorBytes) =>
                         LET n == (Selected.sector_count + Base - 1) % Base
                         IN  \/ n = 0 /\ UNCHANGED lineVars /\ ~Selected'.drq
                             \/ /\ n # 0 /\ Interrupt
                                /\ Selected'.drq =>
                                      /\ Selected'.current_command = "read"
                                      /\ Selected'.buffer_index = 0
                                      /\ Selected'.sector_count = n
            <3> USE <2>ReadSectorIs
            <3> DEFINE c == Selected
                       m == [c EXCEPT !.buffer_index = 0, !.busy = FALSE, !.err = FALSE]
                       n == increment_address(m)
                       next == [c EXCEPT !.buffer_index = c.buffer_index + 2]
            <3>1. c \in Controller /\ c.current_command = "read" /\ UNCHANGED <<drive_select, reset, disable_irq>>
                BY SelectedIs, Zenon DEF ReadSectorWord
            <3>2. c.buffer_index \in Int /\ c.buffer_index + 2 \in Int /\ c.sector_count \in Int
                BY <3>1 DEF Controller
            <3>3. /\ m \in Controller /\ m.sector_count = c.sector_count /\ m.buffer_index = 0
                  /\ m.current_command = "read"
                <4> HIDE DEF c
                <4> QED
                    BY <3>1, IntZeroOne, Zenon DEF Controller
            <3>4. /\ n \in Controller /\ n.sector_count = (c.sector_count + Base - 1) % Base
                  /\ n.buffer_index = 0 /\ n.current_command = "read"
                <4> HIDE DEF m
                <4> QED
                    BY <3>3, IncrementIs, Zenon
            <3>5. /\ next \in Controller /\ next.current_command = "read"
                  /\ next.buffer_index = c.buffer_index + 2 /\ next.sector_count = c.sector_count
                <4> HIDE DEF c
                <4> QED
                    BY <3>1, <3>2, Zenon DEF Controller
            <3>6. /\ [n EXCEPT !.drq = FALSE] \in Controller /\ ~[n EXCEPT !.drq = FALSE].drq
                  /\ command_aborted(n) \in Controller /\ ~command_aborted(n).drq
                <4> HIDE DEF n
                <4> QED
                    BY <3>4, AbortedIs, Zenon DEF Controller
            <3>7. IF c.buffer_index + 2 < SectorBytes
                  THEN SetSelected(next) /\ UNCHANGED lineVars
                  ELSE IF n.sector_count = 0
                  THEN SetSelected([n EXCEPT !.drq = FALSE]) /\ UNCHANGED lineVars
                  ELSE (SetSelected(n) \/ SetSelected(command_aborted(n))) /\ Interrupt
                BY Zenon DEF ReadSectorWord, Quiet
            <3> HIDE DEF next, n, m
            <3>8. CASE c.buffer_index + 2 < SectorBytes
                BY <3>1, <3>5, <3>7, <3>8, <1>SetSelectedIs, Zenon
            <3>9. CASE ~(c.buffer_index + 2 < SectorBytes) /\ n.sector_count = 0
                <4>1. Controllers' /\ Selected' = [n EXCEPT !.drq = FALSE] /\ UNCHANGED lineVars
                    BY <3>1, <3>6, <3>7, <3>9, <1>SetSelectedIs, Zenon
                <4> QED
                    BY <3>1, <3>4, <3>6, <3>9, <4>1, Zenon
            <3>10. CASE ~(c.buffer_index + 2 < SectorBytes) /\ n.sector_count # 0
                <4>1. Controllers' /\ (Selected' = n \/ Selected' = command_aborted(n)) /\ Interrupt
                    BY <3>1, <3>4, <3>6, <3>7, <3>10, <1>SetSelectedIs, Zenon
                <4> QED
                    BY <3>1, <3>4, <3>6, <3>10, <4>1, Zenon
            <3> QED
                BY <3>8, <3>9, <3>10, Zenon
        (* A word of the identity. *)
        <2>ReadIdentityIs.
            ASSUME Controllers, ReadIdentityWord
            PROVE  /\ Controllers' /\ UNCHANGED <<drive_select, reset, disable_irq, lineVars>>
                   /\ Selected.current_command = "identify"
            <3> USE <2>ReadIdentityIs
            <3> DEFINE c == Selected
                       d == c.buffer_index + 2 < SectorBytes
                       n == [c EXCEPT !.buffer_index = c.buffer_index + 2, !.drq = d, !.err = FALSE]
            <3>1. c \in Controller /\ SetSelected(n) /\ UNCHANGED <<drive_select, reset, disable_irq, lineVars>>
                  /\ c.current_command = "identify"
                BY SelectedIs, Zenon DEF ReadIdentityWord
            <3>2. c.buffer_index + 2 \in Int /\ d \in BOOLEAN
                BY <3>1 DEF Controller
            <3>3. n \in Controller
                <4> HIDE DEF c, d
                <4> QED
                    BY <3>1, <3>2, Zenon DEF Controller
            <3> HIDE DEF n
            <3> QED
                BY <3>1, <3>3, <1>SetSelectedIs, Zenon
        (* A word of a packet command's answer: the drive interrupts at the end of *)
        (* a burst.                                                                *)
        <2>ReadPacketIs.
            ASSUME Controllers, ReadPacketWord
            PROVE  /\ Controllers' /\ UNCHANGED <<drive_select, reset, disable_irq>>
                   /\ Selected.current_command = "packet"
                   /\ Selected.drq_index + 2 < Selected.drq_bytes =>
                         /\ UNCHANGED lineVars
                         /\ Selected'.current_command = "packet"
                         /\ Selected'.drq_index = Selected.drq_index + 2
                         /\ Selected'.drq_bytes = Selected.drq_bytes
                   /\ ~(Selected.drq_index + 2 < Selected.drq_bytes) =>
                         /\ Interrupt
                         /\ Selected'.drq =>
                               /\ Selected'.current_command = "packet"
                               /\ Selected'.drq_index = 0
                               /\ Selected'.cylinder_no = Selected'.drq_bytes
            <3> USE <2>ReadPacketIs
            <3> DEFINE c == Selected
                       loaded == IF Loads THEN [c EXCEPT !.buffer_index = 0, !.next_lba = c.next_lba + 1] ELSE c
                       moved == [loaded EXCEPT !.buffer_index = loaded.buffer_index + 2,
                                               !.drq_index = loaded.drq_index + 2]
                       rest == c.remaining - c.drq_bytes
                       burst == Min({rest, c.cylinder_no})
                       more == [moved EXCEPT !.drq_index = 0, !.remaining = rest, !.sector_count = 2,
                                             !.cylinder_no = burst, !.drq_bytes = burst]
                       over == [Completed(moved) EXCEPT !.drq_index = 0, !.remaining = rest,
                                                        !.sector_count = 3]
            <3>1. /\ c \in Controller /\ c.current_command = "packet"
                  /\ UNCHANGED <<drive_select, reset, disable_irq>>
                  /\ IF moved.drq_index < c.drq_bytes
                     THEN SetSelected(moved) /\ UNCHANGED lineVars
                     ELSE SetSelected(IF rest > 0 THEN more ELSE over) /\ Interrupt
                BY SelectedIs, Zenon DEF ReadPacketWord, Quiet
            <3>2. c.next_lba + 1 \in Int /\ c.remaining \in Int /\ c.drq_bytes \in Int
                  /\ c.cylinder_no \in Int /\ c.drq_index \in Int
                BY <3>1 DEF Controller
            <3>3. rest \in Int /\ burst \in Int
                BY <3>2, MinInt
            <3>4. /\ loaded \in Controller /\ loaded.drq_index = c.drq_index
                  /\ loaded.drq_bytes = c.drq_bytes /\ loaded.current_command = "packet"
                <4> HIDE DEF c
                <4> QED
                    BY <3>1, <3>2, IntZeroOne, ZenonT(30) DEF Controller
            <3> HIDE DEF loaded
            <3>5. loaded.buffer_index + 2 \in Int /\ loaded.drq_index + 2 \in Int
                BY <3>4 DEF Controller
            <3>6. /\ moved \in Controller /\ moved.drq_index = c.drq_index + 2
                  /\ moved.drq_bytes = c.drq_bytes /\ moved.current_command = "packet"
                <4>1. moved \in Controller /\ moved.drq_index = loaded.drq_index + 2
                      /\ moved.drq_bytes = loaded.drq_bytes /\ moved.current_command = loaded.current_command
                    BY <3>4, <3>5, Zenon DEF Controller
                <4> QED
                    BY <3>4, <4>1, Zenon
            <3> HIDE DEF moved, rest, burst
            <3>7. /\ more \in Controller /\ more.current_command = "packet" /\ more.drq_index = 0
                  /\ more.cylinder_no = more.drq_bytes
                <4>1. more \in Controller /\ more.current_command = "packet" /\ more.drq_index = 0
                      /\ more.cylinder_no = burst /\ more.drq_bytes = burst
                    BY <3>3, <3>6, IntZeroOne, Zenon DEF Controller
                <4> QED
                    BY <4>1, Zenon
            <3>8. over \in Controller /\ ~over.drq
                <4>1. Completed(moved) \in Controller /\ ~Completed(moved).drq
                    BY <3>6, CompletedIs, Zenon
                <4> QED
                    BY <3>3, <4>1, IntZeroOne, Zenon DEF Controller
            <3> HIDE DEF more, over
            <3>9. CASE c.drq_index + 2 < c.drq_bytes
                BY <3>1, <3>6, <3>9, <1>SetSelectedIs, Zenon
            <3>10. CASE ~(c.drq_index + 2 < c.drq_bytes)
                <4>1. Interrupt /\ (SetSelected(more) \/ SetSelected(over))
                    BY <3>1, <3>6, <3>10, Zenon
                <4>2. Controllers' /\ (Selected' = more \/ Selected' = over)
                    BY <3>1, <3>7, <3>8, <4>1, <1>SetSelectedIs, Zenon
                <4> QED
                    BY <3>1, <3>7, <3>8, <3>10, <4>1, <4>2, Zenon
            <3> QED
                BY <3>9, <3>10, Zenon
        (* One word less. *)
        <2>WordLess.
            ASSUME NEW n \in Int, NEW b \in Int, NEW i \in Int, 2 * n \in {b - i, b - i + 1}
            PROVE  2 * (n - 1) \in {b - (i + 2), b - (i + 2) + 1}
            BY <2>WordLess
        (* So many sectors are all of them only if none is left. *)
        <2>AllSectors.
            ASSUME NEW n \in Int, NEW m \in Int, NEW w \in Nat, w >= 1, m > 0
            PROVE  (n - m) * w # n * w
            <3> USE <2>AllSectors
            <3>1. (n - m) * w = n * w - m * w
                OBVIOUS
            <3>2. m * w > 0
                OBVIOUS
            <3>3. n * w \in Int /\ m * w \in Int
                OBVIOUS
            <3> QED
                BY <3>1, <3>2, <3>3
        (* A word more has been read. *)
        <2>OneWord.
            ASSUME got \in Seq(Words), NEW w, got' = Append(got, w)
            PROVE  got' \in Seq(Words') /\ Len(got') = Len(got) + 1 /\ Len(got) \in Nat
            <3> USE <2>OneWord
            <3> DEFINE S == Words \cup {w}
            <3>1. got \in Seq(S) /\ w \in S
                BY SeqMonotonic, Zenon
            <3>2. Append(got, w) \in Seq(S) /\ Len(Append(got, w)) = Len(got) + 1
                BY <3>1, AppendProperties, Zenon
            <3>3. got' \in Seq(Words')
                <4>1. got' \in [1 .. Len(got') -> S] /\ Len(got') \in Nat
                    BY <3>2, LenProperties, Zenon
                <4>2. DOMAIN got' = 1 .. Len(got')
                    BY <4>1, Zenon
                <4>3. \A i \in 1 .. Len(got') : got'[i] \in Words'
                    BY <4>2, Zenon DEF Words
                <4> QED
                    BY <3>2, <4>1, <4>2, <4>3, SeqDef
            <3> QED
                BY <3>2, <3>3, LenProperties, Zenon
        <2> SUFFICES ASSUME IInv, ReadWord
                 PROVE  IInv'
            BY Zenon
        <2>1. /\ at = "in" /\ left > 0 /\ left \in Int /\ Moved
              /\ ReadSectorWord \/ ReadIdentityWord \/ ReadPacketWord
              /\ got' = Append(got, DataWord)
            BY Zenon DEF ReadWord, IInv, TypeOK
        <2>2. Controllers /\ TypeOK /\ LineOK /\ Agree /\ at \in IdePlaces
            BY <2>1, Zenon DEF IInv, TypeOK, Transfers, IdePlaces
        <2>3. /\ Controllers' /\ UNCHANGED <<drive_select, reset, disable_irq>>
              /\ Interrupt \/ UNCHANGED lineVars
            BY <2>1, <2>2, <2>ReadSectorIs, <2>ReadIdentityIs, <2>ReadPacketIs, Zenon
        <2>4. /\ line' \in BOOLEAN /\ pending' \in BOOLEAN /\ (line' => pending')
              /\ Interrupt /\ ~disable_irq' => pending'
            BY <2>2, <2>3, <1>WordsPull, Zenon
        <2>5. got' \in Seq(Words') /\ Len(got') = Len(got) + 1 /\ Len(got) \in Nat
            BY <2>1, <2>2, <2>OneWord, Zenon DEF TypeOK
        <2>6. job' = job /\ left' = left - 1 /\ at' = AfterWords
            BY <2>1, Zenon DEF Moved
        <2>7. job.command \in {"read", "packet", "identify"}
            BY <2>1, <2>2, Zenon DEF Agree
        <2>8. /\ left > 1 => at' = "in"
              /\ ~(left > 1) => at' \in {"wait", "last"}
            BY <2>1, <2>6, Zenon DEF AfterWords
        <2>9. SUFFICES /\ at' = "wait" /\ ~disable_irq' => pending'
                       /\ at' \in {"wait", "last"} /\ Selected'.drq => AsksFor'
                       /\ Agree'
            BY <2>1, <2>3, <2>4, <2>5, <1>MovedIInv, Zenon
        <2>10. CASE job.command = "identify"
            BY <2>1, <2>6, <2>8, <2>10, Zenon DEF Agree, AsksFor, AfterWords
        <2>11. CASE job.command = "packet"
            <3> DEFINE c == Selected
            <3>1. /\ c.current_command = "packet" /\ c \in Controller
                  /\ 2 * left \in {c.drq_bytes - c.drq_index, c.drq_bytes - c.drq_index + 1}
                BY <2>1, <2>2, <2>11, SelectedIs, Zenon DEF Agree
            <3>2. c.drq_index \in Int /\ c.drq_bytes \in Int
                BY <3>1, Zenon DEF Controller
            <3>3. ReadPacketWord
                BY <2>1, <2>2, <3>1, <2>ReadSectorIs, <2>ReadIdentityIs, Zenon
            <3>4. /\ c.drq_index + 2 < c.drq_bytes =>
                     /\ Selected'.current_command = "packet"
                     /\ Selected'.drq_index = c.drq_index + 2
                     /\ Selected'.drq_bytes = c.drq_bytes
                  /\ ~(c.drq_index + 2 < c.drq_bytes) =>
                     /\ Interrupt
                     /\ Selected'.drq =>
                           /\ Selected'.current_command = "packet"
                           /\ Selected'.drq_index = 0
                           /\ Selected'.cylinder_no = Selected'.drq_bytes
                BY <2>2, <3>3, <2>ReadPacketIs, Zenon
            <3> HIDE DEF c
            <3>5. CASE left > 1
                <4>1. c.drq_index + 2 < c.drq_bytes
                    BY <2>1, <3>1, <3>2, <3>5
                <4>2. 2 * left' \in {Selected'.drq_bytes - Selected'.drq_index,
                                     Selected'.drq_bytes - Selected'.drq_index + 1}
                    <5>1. 2 * (left - 1) \in {c.drq_bytes - (c.drq_index + 2),
                                              c.drq_bytes - (c.drq_index + 2) + 1}
                        BY <2>1, <3>1, <3>2, <2>WordLess, Zenon
                    <5> QED
                        BY <2>6, <3>4, <4>1, <5>1, Zenon
                <4>3. Selected'.current_command = "packet" /\ at' = "in"
                    BY <2>8, <3>4, <3>5, <4>1, Zenon
                <4> QED
                    BY <2>6, <2>11, <4>2, <4>3, Zenon DEF Agree
            <3>6. CASE ~(left > 1)
                <4>1. ~(c.drq_index + 2 < c.drq_bytes)
                    BY <2>1, <3>1, <3>2, <3>6
                <4>2. at' = "wait"
                    BY <2>6, <2>11, <3>6, Zenon DEF AfterWords
                <4>3. Selected'.drq => AsksFor'
                    BY <2>6, <2>11, <3>4, <4>1, <4>2, Zenon DEF AsksFor
                <4>4. Agree'
                    BY <4>2, Zenon DEF Agree
                <4> QED
                    BY <2>4, <3>4, <4>1, <4>2, <4>3, <4>4, Zenon
            <3> QED
                BY <3>5, <3>6, Zenon
        <2>12. CASE job.command = "read"
            <3> DEFINE c == Selected
            <3>1. /\ c.current_command = "read" /\ c \in Controller
                  /\ 2 * left = SectorBytes - c.buffer_index
                BY <2>1, <2>2, <2>12, SelectedIs, Zenon DEF Agree
            <3>2. PICK m \in 1 .. job.n : CountIs(m) /\ Len(got) + left = (job.n - m + 1) * SectorWords
                BY <2>1, <2>2, <2>12, Zenon DEF Agree
            <3>3. c.buffer_index \in Int /\ c.sector_count \in Int /\ SectorBytes \in Int /\ Base \in Nat
                BY <3>1, AtaAssumption, SMTT(30) DEF Controller
            <3>4. job.n \in 1 .. Base
                BY <2>2, <2>12, JobsAssumption, Zenon DEF TypeOK, KnownJob
            <3>5. m \in 1 .. Base /\ m \in Int /\ job.n \in Int
                BY <3>2, <3>3, <3>4
            <3>6. (c.sector_count + Base - 1) % Base = m - 1
                BY <3>2, <3>3, <3>5, CountDown, ZenonT(30) DEF CountIs
            <3>7. ReadSectorWord
                BY <2>1, <2>2, <3>1, <2>ReadPacketIs, <2>ReadIdentityIs, Zenon
            <3>8. /\ c.buffer_index + 2 < SectorBytes =>
                     /\ Selected'.current_command = "read"
                     /\ Selected'.buffer_index = c.buffer_index + 2
                     /\ Selected'.sector_count = c.sector_count
                  /\ ~(c.buffer_index + 2 < SectorBytes) =>
                     \/ m - 1 = 0 /\ ~Selected'.drq
                     \/ /\ m - 1 # 0 /\ Interrupt
                        /\ Selected'.drq =>
                                  /\ Selected'.current_command = "read"
                                  /\ Selected'.buffer_index = 0
                                  /\ Selected'.sector_count = m - 1
                BY <2>2, <3>6, <3>7, <2>ReadSectorIs, Zenon
            <3>9. c.sector_count = IF m = Base THEN 0 ELSE m
                BY <3>2, Zenon DEF CountIs
            <3> HIDE DEF c
            <3>10. CASE left > 1
                <4>1. c.buffer_index + 2 < SectorBytes
                    BY <2>1, <3>1, <3>3, <3>10
                <4>2. left' >= 1 /\ 2 * left' = SectorBytes - Selected'.buffer_index
                    <5>1. left - 1 >= 1 /\ 2 * (left - 1) = SectorBytes - (c.buffer_index + 2)
                        BY <2>1, <3>1, <3>3, <3>10, <1>WordLessOf, ZenonT(30)
                    <5> QED
                        BY <2>6, <3>8, <4>1, <5>1, Zenon
                <4>3. Len(got') + left' = (job.n - m + 1) * SectorWords
                    BY <2>1, <2>5, <2>6, <3>2
                <4>4. CountIs(m)'
                    BY <3>8, <3>9, <4>1, Zenon DEF CountIs
                <4>5. Selected'.current_command = "read" /\ at' = "in"
                    BY <2>8, <3>8, <3>10, <4>1, Zenon
                <4> QED
                    BY <2>6, <2>12, <3>2, <4>2, <4>3, <4>4, <4>5, ZenonT(30) DEF Agree
            <3>11. CASE ~(left > 1)
                <4>1. ~(c.buffer_index + 2 < SectorBytes)
                    BY <2>1, <3>1, <3>3, <3>11
                <4>2. Len(got') = (job.n - (m - 1)) * SectorWords
                    <5>1. Len(got') = (job.n - m + 1) * SectorWords
                        BY <2>1, <2>5, <3>2, <3>11
                    <5>2. job.n - m + 1 = job.n - (m - 1)
                        BY <3>5
                    <5> QED
                        BY <5>1, <5>2, Zenon
                <4>3. Agree'
                    BY <2>8, <3>11, Zenon DEF Agree
                <4>4. CASE m = 1
                    <5>1. job.n - (m - 1) = job.n
                        BY <3>5, <4>4
                    <5>2. Len(got') = job.n * SectorWords
                        BY <4>2, <5>1, Zenon
                    <5>3. at' = "last"
                        BY <2>6, <2>12, <3>11, <5>2, Zenon DEF AfterWords
                    <5>4. ~Selected'.drq
                        BY <3>8, <4>1, <4>4
                    <5> QED
                        BY <4>3, <5>3, <5>4, Zenon
                <4>5. CASE m # 1
                    <5>1. m - 1 > 0 /\ m - 1 # 0 /\ m - 1 \in Int /\ m - 1 # Base
                        BY <3>3, <3>5, <4>5
                    <5>2. Len(got') # job.n * SectorWords
                        <6>1. (job.n - (m - 1)) * SectorWords # job.n * SectorWords
                            BY <3>5, <5>1, <2>AllSectors, SectorWordsAre, Zenon
                        <6> QED
                            BY <4>2, <6>1, Zenon
                    <5>3. at' = "wait"
                        BY <2>6, <2>12, <3>11, <5>2, Zenon DEF AfterWords
                    <5>4. /\ Interrupt
                          /\ Selected'.drq => /\ Selected'.current_command = "read"
                                              /\ Selected'.buffer_index = 0
                                              /\ Selected'.sector_count = m - 1
                        BY <3>8, <4>1, <5>1, Zenon
                    <5>5. m - 1 \in 1 .. job.n
                        BY <3>2, <3>5, <5>1
                    <5>6. Selected'.drq => AsksFor'
                        <6> SUFFICES ASSUME Selected'.drq
                                     PROVE  AsksFor'
                            BY Zenon
                        <6>1. CountIs(m - 1)'
                            BY <5>1, <5>4, Zenon DEF CountIs
                        <6> QED
                            BY <2>6, <2>12, <4>2, <5>4, <5>5, <6>1, Zenon DEF AsksFor
                    <5> QED
                        BY <2>4, <4>3, <5>3, <5>4, <5>6, Zenon
                <4> QED
                    BY <4>4, <4>5, Zenon
            <3> QED
                BY <3>10, <3>11, Zenon
        <2> QED
            BY <2>7, <2>10, <2>11, <2>12, Zenon
    (* Words written leave what was read as it is. *)
    <1>SameWords.
        ASSUME TypeOK, UNCHANGED got
        PROVE  got' \in Seq(Words')
        BY <1>SameWords, Zenon DEF TypeOK, Words
    <1>WriteWordIInv.
        IInv /\ WriteWord => IInv'
        (* A word of a sector to write: the drive interrupts at its end. *)
        <2>WriteSectorIs.
            ASSUME Controllers, NEW w, WriteSectorWord(w)
            PROVE  /\ Controllers' /\ UNCHANGED <<drive_select, reset, disable_irq>>
                   /\ Selected.buffer_index + 2 < SectorBytes =>
                         /\ UNCHANGED lineVars
                         /\ Selected'.current_command = "write"
                         /\ Selected'.buffer_index = Selected.buffer_index + 2
                   /\ ~(Selected.buffer_index + 2 < SectorBytes) =>
                         /\ Interrupt
                         /\ Selected'.drq => /\ Selected'.current_command = "write"
                                             /\ Selected'.buffer_index = 0
            <3> USE <2>WriteSectorIs
            <3> DEFINE c == Selected
                       m == [c EXCEPT !.buffer_index = 0]
                       n == increment_address(m)
                       more == n.sector_count # 0
                       next == [c EXCEPT !.buffer_index = c.buffer_index + 2]
                       done == [n EXCEPT !.busy = FALSE, !.err = FALSE, !.drq = more]
            <3>1. /\ c \in Controller /\ c.current_command = "write"
                  /\ UNCHANGED <<drive_select, reset, disable_irq>>
                  /\ IF c.buffer_index + 2 < SectorBytes
                     THEN SetSelected(next) /\ UNCHANGED lineVars
                     ELSE (SetSelected(SectorWritten(c)) \/ SetSelected(command_aborted(c))) /\ Interrupt
                BY SelectedIs, Zenon DEF WriteSectorWord, Quiet
            <3>2. c.buffer_index + 2 \in Int
                BY <3>1 DEF Controller
            <3>3. /\ next \in Controller /\ next.current_command = "write"
                  /\ next.buffer_index = c.buffer_index + 2
                <4> HIDE DEF c
                <4> QED
                    BY <3>1, <3>2, Zenon DEF Controller
            <3>4. m \in Controller /\ m.buffer_index = 0 /\ m.current_command = "write"
                <4> HIDE DEF c
                <4> QED
                    BY <3>1, IntZeroOne, Zenon DEF Controller
            <3>5. n \in Controller /\ n.buffer_index = 0 /\ n.current_command = "write"
                <4> HIDE DEF m
                <4> QED
                    BY <3>4, IncrementIs, Zenon
            <3>6. SectorWritten(c) = done
                BY Zenon DEF SectorWritten
            <3>7. more \in BOOLEAN
                BY Zenon
            <3> HIDE DEF n, more
            <3>8. done \in Controller /\ done.buffer_index = 0 /\ done.current_command = "write"
                BY <3>5, <3>7, ZenonT(30) DEF Controller
            <3>9. command_aborted(c) \in Controller /\ ~command_aborted(c).drq
                BY <3>1, AbortedIs, Zenon
            <3> HIDE DEF done, next
            <3>10. CASE c.buffer_index + 2 < SectorBytes
                BY <3>1, <3>3, <3>10, <1>SetSelectedIs, Zenon
            <3>11. CASE ~(c.buffer_index + 2 < SectorBytes)
                <4>1. Controllers' /\ (Selected' = done \/ Selected' = command_aborted(c)) /\ Interrupt
                    BY <3>1, <3>6, <3>8, <3>9, <3>11, <1>SetSelectedIs, Zenon
                <4> QED
                    BY <3>1, <3>8, <3>9, <3>11, <4>1, Zenon
            <3> QED
                BY <3>10, <3>11, Zenon
        <2> SUFFICES ASSUME IInv, WriteWord
                 PROVE  IInv'
            BY Zenon
        <2> DEFINE w == <<"new", sent \div SectorWords, (sent % SectorWords) + 1>>
        <2>1. at = "out" /\ WriteSectorWord(w) /\ Moved /\ UNCHANGED got
            BY Zenon DEF WriteWord
        <2> HIDE DEF w
        <2>2. Controllers /\ TypeOK /\ LineOK /\ at \in IdePlaces /\ left \in Int
            BY <2>1, Zenon DEF IInv, TypeOK, IdePlaces
        <2>3. /\ job.command = "write" /\ left >= 1
              /\ 2 * left = SectorBytes - Selected.buffer_index
            BY <2>1, Zenon DEF IInv, Transfers, Agree
        <2>4. Selected.buffer_index \in Int /\ SectorBytes \in Int
            BY <2>2, SelectedIs, AtaAssumption DEF Controller
        <2>5. /\ Controllers' /\ UNCHANGED <<drive_select, reset, disable_irq>>
              /\ Selected.buffer_index + 2 < SectorBytes =>
                     /\ UNCHANGED lineVars
                     /\ Selected'.current_command = "write"
                     /\ Selected'.buffer_index = Selected.buffer_index + 2
              /\ ~(Selected.buffer_index + 2 < SectorBytes) =>
                     /\ Interrupt
                     /\ Selected'.drq => /\ Selected'.current_command = "write"
                                         /\ Selected'.buffer_index = 0
            BY <2>1, <2>2, <2>WriteSectorIs, Zenon
        <2>6. /\ line' \in BOOLEAN /\ pending' \in BOOLEAN /\ (line' => pending')
              /\ Interrupt /\ ~disable_irq' => pending'
            BY <2>2, <2>5, <1>WordsPull, Zenon
        <2>7. job' = job /\ left' = left - 1 /\ at' = AfterWords /\ got' \in Seq(Words')
            BY <2>1, <2>2, <1>SameWords, Zenon DEF Moved
        <2>8. CASE left > 1
            <3>1. Selected.buffer_index + 2 < SectorBytes
                BY <2>2, <2>3, <2>4, <2>8
            <3>2. at' = "out"
                BY <2>1, <2>7, <2>8, Zenon DEF AfterWords
            <3>3. left' >= 1 /\ 2 * left' = SectorBytes - Selected'.buffer_index
                <4>1. left - 1 >= 1 /\ 2 * (left - 1) = SectorBytes - (Selected.buffer_index + 2)
                    BY <2>2, <2>3, <2>4, <2>8, <1>WordLessOf, Zenon
                <4> QED
                    BY <2>5, <2>7, <3>1, <4>1, Zenon
            <3>4. Agree'
                BY <2>3, <2>5, <2>7, <3>1, <3>2, <3>3, Zenon DEF Agree
            <3> QED
                BY <2>1, <2>5, <2>6, <2>7, <3>2, <3>4, <1>MovedIInv, Zenon
        <2>9. CASE ~(left > 1)
            <3>1. ~(Selected.buffer_index + 2 < SectorBytes)
                BY <2>2, <2>3, <2>4, <2>9
            <3>2. at' = "wait"
                BY <2>3, <2>7, <2>9, Zenon DEF AfterWords
            <3>3. Selected'.drq => AsksFor'
                BY <2>3, <2>5, <2>7, <3>1, Zenon DEF AsksFor
            <3>4. Agree'
                BY <3>2, Zenon DEF Agree
            <3> QED
                BY <2>1, <2>5, <2>6, <2>7, <3>1, <3>2, <3>3, <3>4, <1>MovedIInv, Zenon
        <2> QED
            BY <2>8, <2>9, Zenon
    <1>WritePacketIInv.
        IInv /\ WritePacket => IInv'
        (* The answers to packets that move no data. *)
        <2>PacketOverIs.
            ASSUME NEW c \in Controller
            PROVE  /\ atapi_cmd_error(c) \in Controller /\ ~atapi_cmd_error(c).drq
                   /\ atapi_cmd_nop(c) \in Controller /\ ~atapi_cmd_nop(c).drq
            <3>1. atapi_cmd_error(c) \in Controller /\ ~atapi_cmd_error(c).drq
                BY IntZeroOne, Zenon DEF atapi_cmd_error, Controller
            <3>2. atapi_cmd_nop(c) \in Controller /\ ~atapi_cmd_nop(c).drq
                BY IntZeroOne, ZenonT(30) DEF atapi_cmd_nop, Completed, Controller
            <3> QED
                BY <3>1, <3>2, Zenon
        (* What a packet leaves behind: a reply begins with a whole burst. *)
        <2>AfterPacketIs.
            ASSUME NEW c \in Controller, NEW p,
                   p.op \in {"inform", "capacity", "read"} => p.n \in Nat,
                   p.op = "read" => p.lba \in Nat
            PROVE  /\ AfterPacket(c, p) \in Controller
                   /\ AfterPacket(c, p).drq =>
                        /\ AfterPacket(c, p).current_command = c.current_command
                        /\ AfterPacket(c, p).drq_index = 0
                        /\ AfterPacket(c, p).cylinder_no = AfterPacket(c, p).drq_bytes
            <3> USE <2>AfterPacketIs
            <3> DEFINE reply == init_send_atapi_command(c, ReplyBytes, p.n, FALSE)
                       Burst(r) == /\ r.current_command = c.current_command
                                   /\ r.drq_index = 0 /\ r.cylinder_no = r.drq_bytes
            <3>1. ASSUME p.op \in {"inform", "capacity"}
                  PROVE  /\ reply \in Controller /\ Burst(reply)
                         /\ atapi_cmd_error(reply) \in Controller /\ ~atapi_cmd_error(reply).drq
                <4>1. p.n \in Int /\ ReplyBytes \in Int /\ FALSE \in BOOLEAN
                    BY <3>1, AtaAssumption
                <4>2. reply \in Controller /\ Burst(reply)
                    BY <4>1, ReplyIs, Zenon
                <4> QED
                    BY <4>2, <2>PacketOverIs, Zenon
            <3>2. ASSUME p.op = "read"
                  PROVE  /\ ReadDisc(c, p) \in Controller
                         /\ ReadDisc(c, p).drq => Burst(ReadDisc(c, p))
                <4> DEFINE n == Min({p.n, Capacity - p.lba})
                           r == init_send_atapi_command(c, n * BlockBytes, n * BlockBytes, TRUE)
                <4>1. p.n \in Int /\ p.lba \in Int /\ Capacity \in Int /\ BlockBytes \in Int
                    BY <3>2, AtaAssumption
                <4>2. n \in Int
                    BY <4>1, MinInt
                <4>3. n * BlockBytes \in Int
                    <5> HIDE DEF n
                    <5> QED
                        BY <4>1, <4>2
                <4>4. r \in Controller /\ Burst(r)
                    BY <4>3, ReplyIs, Zenon
                <4>5. ReadDisc(c, p) = IF n = 0 THEN atapi_cmd_nop(c) ELSE [r EXCEPT !.next_lba = p.lba]
                    BY Zenon DEF ReadDisc
                <4>6. [r EXCEPT !.next_lba = p.lba] \in Controller /\ Burst([r EXCEPT !.next_lba = p.lba])
                    <5> HIDE DEF r
                    <5> QED
                        BY <4>1, <4>4, Zenon DEF Controller
                <4> HIDE DEF n, r
                <4> QED
                    BY <4>5, <4>6, <2>PacketOverIs, Zenon
            <3>3. \/ p.op \in {"inform", "capacity"} /\ AfterPacket(c, p) = reply
                  \/ p.op \in {"inform", "capacity"} /\ AfterPacket(c, p) = atapi_cmd_error(reply)
                  \/ p.op = "read" /\ AfterPacket(c, p) = ReadDisc(c, p)
                  \/ AfterPacket(c, p) = atapi_cmd_nop(c)
                  \/ AfterPacket(c, p) = atapi_cmd_error(c)
                BY Zenon DEF AfterPacket
            <3> HIDE DEF reply
            <3> QED
                BY <3>1, <3>2, <3>3, <2>PacketOverIs, Zenon
        (* A word of a packet: the drive interrupts when it has executed it. *)
        <2>WritePacketIs.
            ASSUME Controllers, NEW p, WritePacketWord(p),
                   p.op \in {"inform", "capacity", "read"} => p.n \in Nat,
                   p.op = "read" => p.lba \in Nat
            PROVE  /\ Controllers' /\ UNCHANGED <<drive_select, reset, disable_irq>>
                   /\ Selected.buffer_index + 2 < PacketBytes =>
                         /\ UNCHANGED lineVars
                         /\ Selected'.current_command = "packet"
                         /\ Selected'.buffer_index = Selected.buffer_index + 2
                   /\ ~(Selected.buffer_index + 2 < PacketBytes) =>
                         /\ Interrupt
                         /\ Selected'.drq =>
                               /\ Selected'.current_command = "packet"
                               /\ Selected'.drq_index = 0
                               /\ Selected'.cylinder_no = Selected'.drq_bytes
            <3> USE <2>WritePacketIs
            <3> DEFINE s == Selected
                       c == [s EXCEPT !.buffer_index = s.buffer_index + 2]
                       a == AfterPacket(c, p)
            <3>1. /\ s \in Controller /\ s.current_command = "packet"
                  /\ UNCHANGED <<drive_select, reset, disable_irq>>
                  /\ IF c.buffer_index < PacketBytes
                     THEN SetSelected(c) /\ UNCHANGED lineVars
                     ELSE SetSelected(a) /\ Interrupt
                BY SelectedIs, Zenon DEF WritePacketWord, Quiet
            <3>2. s.buffer_index + 2 \in Int
                BY <3>1 DEF Controller
            <3>3. c \in Controller /\ c.current_command = "packet" /\ c.buffer_index = s.buffer_index + 2
                <4> HIDE DEF s
                <4> QED
                    BY <3>1, <3>2, Zenon DEF Controller
            <3> HIDE DEF c
            <3>4. /\ a \in Controller
                  /\ a.drq => a.current_command = "packet" /\ a.drq_index = 0 /\ a.cylinder_no = a.drq_bytes
                BY <3>3, <2>AfterPacketIs, Zenon
            <3> HIDE DEF a
            <3>5. CASE s.buffer_index + 2 < PacketBytes
                BY <3>1, <3>3, <3>5, <1>SetSelectedIs, Zenon
            <3>6. CASE ~(s.buffer_index + 2 < PacketBytes)
                <4>1. Controllers' /\ Selected' = a /\ Interrupt
                    BY <3>1, <3>3, <3>4, <3>6, <1>SetSelectedIs, Zenon
                <4> QED
                    BY <3>1, <3>4, <3>6, <4>1, Zenon
            <3> QED
                BY <3>5, <3>6, Zenon
        <2> SUFFICES ASSUME IInv, WritePacket
                 PROVE  IInv'
            BY Zenon
        <2>1. at = "packet" /\ WritePacketWord(job.packet) /\ Moved /\ UNCHANGED got
            BY Zenon DEF WritePacket
        <2>2. Controllers /\ TypeOK /\ LineOK /\ at \in IdePlaces /\ left \in Int
            BY <2>1, Zenon DEF IInv, TypeOK, IdePlaces
        <2>3. /\ job.command = "packet" /\ left >= 1
              /\ 2 * left = PacketBytes - Selected.buffer_index
            BY <2>1, Zenon DEF IInv, Transfers, Agree
        <2>4. Selected.buffer_index \in Int /\ PacketBytes \in Int
            BY <2>2, SelectedIs, AtaAssumption DEF Controller
        <2>5. /\ job.packet.op \in {"inform", "capacity", "read"} => job.packet.n \in Nat
              /\ job.packet.op = "read" => job.packet.lba \in Nat
            BY <2>2, <2>3, JobsAssumption, Zenon DEF TypeOK, KnownJob
        <2>6. /\ Controllers' /\ UNCHANGED <<drive_select, reset, disable_irq>>
              /\ Selected.buffer_index + 2 < PacketBytes =>
                     /\ UNCHANGED lineVars
                     /\ Selected'.current_command = "packet"
                     /\ Selected'.buffer_index = Selected.buffer_index + 2
              /\ ~(Selected.buffer_index + 2 < PacketBytes) =>
                     /\ Interrupt
                     /\ Selected'.drq =>
                           /\ Selected'.current_command = "packet"
                           /\ Selected'.drq_index = 0
                           /\ Selected'.cylinder_no = Selected'.drq_bytes
            BY <2>1, <2>2, <2>5, <2>WritePacketIs, Zenon
        <2>7. /\ line' \in BOOLEAN /\ pending' \in BOOLEAN /\ (line' => pending')
              /\ Interrupt /\ ~disable_irq' => pending'
            BY <2>2, <2>6, <1>WordsPull, Zenon
        <2>8. job' = job /\ left' = left - 1 /\ at' = AfterWords /\ got' \in Seq(Words')
            BY <2>1, <2>2, <1>SameWords, Zenon DEF Moved
        <2>9. CASE left > 1
            <3>1. Selected.buffer_index + 2 < PacketBytes
                BY <2>2, <2>3, <2>4, <2>9
            <3>2. at' = "packet"
                BY <2>1, <2>8, <2>9, Zenon DEF AfterWords
            <3>3. left' >= 1 /\ 2 * left' = PacketBytes - Selected'.buffer_index
                <4>1. left - 1 >= 1 /\ 2 * (left - 1) = PacketBytes - (Selected.buffer_index + 2)
                    BY <2>2, <2>3, <2>4, <2>9, <1>WordLessOf, Zenon
                <4> QED
                    BY <2>6, <2>8, <3>1, <4>1, Zenon
            <3>4. job'.command = "packet" /\ Selected'.current_command = "packet"
                BY <2>3, <2>6, <2>8, <3>1, Zenon
            <3>5. Agree'
                BY <3>2, <3>3, <3>4, Zenon DEF Agree
            <3> QED
                BY <2>1, <2>6, <2>7, <2>8, <3>2, <3>5, <1>MovedIInv, Zenon
        <2>10. CASE ~(left > 1)
            <3>1. ~(Selected.buffer_index + 2 < PacketBytes)
                BY <2>2, <2>3, <2>4, <2>10
            <3>2. at' = "wait"
                BY <2>3, <2>8, <2>10, Zenon DEF AfterWords
            <3>3. Selected'.drq => AsksFor'
                BY <2>3, <2>6, <2>8, <3>1, <3>2, Zenon DEF AsksFor
            <3>4. Agree'
                BY <3>2, Zenon DEF Agree
            <3> QED
                BY <2>1, <2>6, <2>7, <2>8, <3>1, <3>2, <3>3, <3>4, <1>MovedIInv, Zenon
        <2> QED
            BY <2>9, <2>10, Zenon
    (* A driver that is at no IDE command. *)
    <1>Elsewhere.
        ASSUME Controllers', line' \in BOOLEAN, pending' \in BOOLEAN, disable_irq' \in BOOLEAN,
               stale' \in BOOLEAN, reset' \in BOOLEAN, reset' => at' = "reset",
               stale' => line',
               at' = "reset" /\ line' => stale',
               at' \in FloppyPlaces /\ line' => pending' \/ stale',
               at' \in {"seeking", "fdc"} => pending' \/ stale',
               at' \in {"reset"} \cup FloppyPlaces, left' \in Int, jobs' \in Nat, got' \in Seq(Words')
        PROVE  IInv'
        <2> USE <1>Elsewhere
        <2>1. at' \notin IdePlaces /\ at' # "idle"
            BY Zenon DEF IdePlaces, FloppyPlaces
        <2>2. TypeOK'
            BY <2>1, Zenon DEF TypeOK, KnownJob
        <2>3. LineOK'
            BY <2>1, Zenon DEF LineOK, FloppyPlaces
        <2>4. InterruptLatched'
            BY <2>1, Zenon DEF InterruptLatched, IdePlaces
        <2>5. Transfers'
            BY <2>1, Zenon DEF Transfers, Agree, IdePlaces
        <2> QED
            BY <2>2, <2>3, <2>4, <2>5, Zenon DEF IInv
    (* The driver gives up; the line is released. *)
    <1>GiveUpIInv.
        ASSUME IInv, GiveUp
        PROVE  IInv'
        <2> USE <1>GiveUpIInv
        <2>1. /\ at \in IdePlaces /\ WriteControl(TRUE, disable_irq)
              /\ at' = "reset" /\ left' = 0 /\ stale' = (stale /\ line') /\ UNCHANGED <<got, jobs>>
            BY Zenon DEF GiveUp, Goto, IdePlaces
        <2>2. TypeOK /\ Controllers /\ reset = FALSE /\ TRUE \in BOOLEAN
            <3>1. TypeOK /\ Controllers /\ reset \in BOOLEAN /\ ~reset
                BY <2>1, Zenon DEF IInv, TypeOK, LineOK, IdePlaces
            <3> QED
                BY <3>1, Zenon
        <2>3. Controllers' /\ reset' = TRUE
            BY <2>1, <2>2, <1>ControlIs, Zenon
        <2>4. disable_irq' = FALSE /\ SetLine(TRUE, FALSE)
            BY <2>1, <2>2, Zenon DEF WriteControl
        <2>5. line' = FALSE /\ pending' \in BOOLEAN
            <3>1. line \in BOOLEAN /\ pending \in BOOLEAN /\ FALSE \in BOOLEAN
                BY <2>2, Zenon DEF TypeOK
            <3> QED
                BY <2>4, <3>1, <1>Releases, Zenon
        <2>6. stale' = FALSE
            BY <2>1, <2>5, Zenon
        <2>7. got' \in Seq(Words')
            BY <2>1, <2>2, <1>SameWords, Zenon
        <2>8. jobs' \in Nat /\ left' \in Int
            BY <2>1, <2>2 DEF TypeOK
        <2>9. at' \notin FloppyPlaces /\ at' \in {"reset"} \cup FloppyPlaces /\ at' \notin {"seeking", "fdc"}
            BY <2>1, Zenon DEF FloppyPlaces
        <2>10. line' \in BOOLEAN /\ stale' \in BOOLEAN /\ disable_irq' \in BOOLEAN /\ reset' \in BOOLEAN
            BY <2>3, <2>4, <2>5, <2>6, Zenon
        <2>11. ~line' /\ ~stale'
            BY <2>5, <2>6, Zenon
        <2> QED
            BY <2>1, <2>3, <2>5, <2>7, <2>8, <2>9, <2>10, <2>11, <1>Elsewhere, Zenon
    (* Clearing the reset bit, or writing the control register without it,     *)
    (* leaves the line alone.                                                  *)
    <1>ControlKeepsLine.
        ASSUME TypeOK, NEW b \in BOOLEAN, WriteControl(FALSE, b)
        PROVE  /\ Controllers' /\ ~reset' /\ reset' \in BOOLEAN /\ disable_irq' \in BOOLEAN
               /\ UNCHANGED lineVars
        <2> USE <1>ControlKeepsLine
        <2>1. Controllers' /\ reset' = FALSE
            BY <1>ControlIs, Zenon DEF TypeOK
        <2>2. disable_irq' = b /\ UNCHANGED lineVars
            BY Zenon DEF WriteControl
        <2> QED
            BY <2>1, <2>2, Zenon
    <1>EndResetIInv.
        ASSUME IInv, EndReset
        PROVE  IInv'
        <2> USE <1>EndResetIInv
        <2>1. /\ at = "reset" /\ WriteControl(FALSE, FALSE) /\ FALSE \in BOOLEAN
              /\ at' = "idle" /\ left' = 0 /\ got' = <<>> /\ jobs' = jobs /\ stale' = (stale /\ line')
            BY Zenon DEF EndReset, Finish, Rest
        <2>2. TypeOK /\ line \in BOOLEAN /\ stale \in BOOLEAN /\ pending \in BOOLEAN /\ jobs \in Nat
              /\ (line <=> stale)
            BY <2>1, Zenon DEF IInv, TypeOK, LineOK
        <2>3. /\ Controllers' /\ ~reset' /\ reset' \in BOOLEAN /\ disable_irq' \in BOOLEAN
              /\ UNCHANGED lineVars
            BY <2>1, <2>2, <1>ControlKeepsLine, Zenon
        <2>4. /\ line' \in BOOLEAN /\ stale' \in BOOLEAN /\ pending' \in BOOLEAN /\ (stale' <=> line')
            BY <2>1, <2>2, <2>3, Zenon DEF lineVars
        <2>5. left' \in Int /\ jobs' \in Nat
            BY <2>1, <2>2
        <2> QED
            BY <2>1, <2>3, <2>4, <2>5, <1>AtRest, Zenon
    <1>ChooseIrqIInv.
        ASSUME IInv, ChooseIrq
        PROVE  IInv'
        <2> USE <1>ChooseIrqIInv
        <2>1. PICK b \in BOOLEAN : WriteControl(FALSE, b)
            BY Zenon DEF ChooseIrq
        <2>2. at = "idle" /\ UNCHANGED <<at, left, got, jobs, stale>>
            BY Zenon DEF ChooseIrq, driverVars
        <2>3. TypeOK /\ line \in BOOLEAN /\ stale \in BOOLEAN /\ pending \in BOOLEAN /\ jobs \in Nat
              /\ left \in Int /\ (line <=> stale) /\ got = <<>>
            BY <2>2, Zenon DEF IInv, TypeOK, LineOK, Transfers
        <2>4. /\ Controllers' /\ ~reset' /\ reset' \in BOOLEAN /\ disable_irq' \in BOOLEAN
              /\ UNCHANGED lineVars
            BY <2>1, <2>3, <1>ControlKeepsLine, Zenon
        <2>5. line' \in BOOLEAN /\ stale' \in BOOLEAN /\ pending' \in BOOLEAN /\ (stale' <=> line')
            BY <2>2, <2>3, <2>4, Zenon DEF lineVars
        <2>6. at' = "idle" /\ got' = <<>> /\ left' \in Int /\ jobs' \in Nat
            BY <2>2, <2>3, Zenon
        <2> QED
            BY <2>4, <2>5, <2>6, <1>AtRest, Zenon
    <1>UnclaimedIInv.
        ASSUME IInv, Unclaimed
        PROVE  IInv'
        <2> USE <1>UnclaimedIInv
        <2>1. at = "idle" /\ pending' = FALSE
              /\ UNCHANGED <<line, drive_select, ctl, reset, disable_irq, at, left, got, jobs, stale>>
            BY Zenon DEF Unclaimed, ataVars, driverVars
        <2>2. /\ Controllers /\ line \in BOOLEAN /\ stale \in BOOLEAN /\ jobs \in Nat /\ left \in Int
              /\ (line <=> stale) /\ got = <<>> /\ reset \in BOOLEAN /\ ~reset /\ disable_irq \in BOOLEAN
            BY <2>1, Zenon DEF IInv, TypeOK, LineOK, Transfers
        <2>3. Controllers'
            BY <2>1, <2>2, Zenon DEF Controllers
        <2> QED
            BY <2>1, <2>2, <2>3, <1>AtRest, Zenon
    (* A floppy command pulls the line, released or not. *)
    <1>FloppyPulls.
        ASSUME IInv, at = "idle" \/ at = "transfer", SetLine(FALSE, TRUE) \/ SetLine(TRUE, TRUE),
               stale' = (stale /\ line')
        PROVE  /\ line' \in BOOLEAN /\ pending' \in BOOLEAN /\ stale' \in BOOLEAN
               /\ line' /\ (pending' \/ stale')
        <2> USE <1>FloppyPulls
        <2>1. /\ line \in BOOLEAN /\ pending \in BOOLEAN /\ stale \in BOOLEAN
              /\ line => pending \/ stale
            BY Zenon DEF IInv, TypeOK, LineOK, FloppyPlaces
        <2>2. CASE SetLine(FALSE, TRUE)
            <3>1. /\ line' \in BOOLEAN /\ pending' \in BOOLEAN /\ line'
                  /\ pending => pending'
                  /\ ~line => pending'
                BY <2>1, <2>2, <1>Pulls, Zenon
            <3> QED
                BY <2>1, <3>1, Zenon
        <2>3. CASE SetLine(TRUE, TRUE)
            <3>1. line' \in BOOLEAN /\ pending' \in BOOLEAN /\ line' /\ pending'
                BY <2>1, <2>3, <1>Releases, ZenonT(30)
            <3> QED
                BY <2>1, <3>1, Zenon
        <2> QED
            BY <2>2, <2>3, Zenon
    <1>StartFdcIInv.
        ASSUME IInv, NEW j, StartFdc(j)
        PROVE  IInv'
        <2> USE <1>StartFdcIInv
        <2>1. /\ at = "idle" /\ at' \in {"seeking", "fdc"} /\ jobs' = jobs + 1
              /\ stale' = (stale /\ line')
              /\ UNCHANGED <<left, got, drive_select, ctl, reset, disable_irq>>
            BY Zenon DEF StartFdc, Begin, ataVars
        <2>2. SetLine(FALSE, TRUE) \/ SetLine(TRUE, TRUE)
            BY Zenon DEF StartFdc, TypeI, NotFound, ForceInterrupt
        <2>3. /\ line' \in BOOLEAN /\ pending' \in BOOLEAN /\ stale' \in BOOLEAN
              /\ line' /\ (pending' \/ stale')
            BY <2>1, <2>2, <1>FloppyPulls, ZenonT(30)
        <2>4. Controllers' /\ TypeOK
            BY <2>1, Zenon DEF IInv, TypeOK, Controllers
        <2>5. left' \in Int /\ jobs' \in Nat /\ reset' \in BOOLEAN /\ ~reset' /\ disable_irq' \in BOOLEAN
            BY <2>1 DEF IInv, TypeOK, LineOK
        <2>6. got' \in Seq(Words')
            BY <2>1, <2>4, <1>SameWords, Zenon
        <2>7. at' # "reset" /\ at' \in {"reset"} \cup FloppyPlaces
            BY <2>1, Zenon DEF FloppyPlaces
        <2> QED
            BY <2>3, <2>4, <2>5, <2>6, <2>7, <1>Elsewhere, Zenon
    <1>TransferIInv.
        ASSUME IInv, Transfer
        PROVE  IInv'
        <2> USE <1>TransferIInv
        <2>1. /\ at = "transfer" /\ at' = "fdc" /\ left' = 0
              /\ stale' = (stale /\ line')
              /\ UNCHANGED <<got, jobs, drive_select, ctl, reset, disable_irq>>
            BY Zenon DEF Transfer, Goto, ataVars
        <2>2. SetLine(FALSE, TRUE)
            BY Zenon DEF Transfer, ReadSector, WriteSector
        <2>3. /\ line' \in BOOLEAN /\ pending' \in BOOLEAN /\ stale' \in BOOLEAN
              /\ line' /\ (pending' \/ stale')
            BY <2>1, <2>2, <1>FloppyPulls, Zenon
        <2>4. Controllers' /\ TypeOK
            BY <2>1, Zenon DEF IInv, TypeOK, Controllers
        <2>5. left' \in Int /\ jobs' \in Nat /\ reset' \in BOOLEAN /\ ~reset' /\ disable_irq' \in BOOLEAN
            BY <2>1 DEF IInv, TypeOK, LineOK
        <2>6. got' \in Seq(Words')
            BY <2>1, <2>4, <1>SameWords, Zenon
        <2>7. at' # "reset" /\ at' \in {"reset"} \cup FloppyPlaces
            BY <2>1, Zenon DEF FloppyPlaces
        <2> QED
            BY <2>3, <2>4, <2>5, <2>6, <2>7, <1>Elsewhere, Zenon
    <1>SeeFdcIInv.
        ASSUME IInv, SeeFdc
        PROVE  IInv'
        <2> USE <1>SeeFdcIInv
        <2>1. /\ at \in {"seeking", "fdc"} /\ line' = FALSE /\ pending' = FALSE
              /\ UNCHANGED <<drive_select, ctl, reset, disable_irq>>
              /\ Goto("transfer", 0) \/ Finish
            BY Zenon DEF SeeFdc, ReadFdcStatus, ataVars
        <2>2. Controllers' /\ TypeOK
            BY <2>1, Zenon DEF IInv, TypeOK, Controllers
        <2>3. jobs \in Nat /\ reset' \in BOOLEAN /\ ~reset' /\ disable_irq' \in BOOLEAN /\ stale \in BOOLEAN
            BY <2>1, Zenon DEF IInv, TypeOK, LineOK
        <2>4. stale' = FALSE
            <3>1. stale' = (stale /\ line')
                BY <2>1, Zenon DEF Goto, Finish
            <3> QED
                BY <2>1, <3>1, Zenon
        <2>5. line' \in BOOLEAN /\ pending' \in BOOLEAN /\ stale' \in BOOLEAN /\ ~line' /\ ~stale'
            BY <2>1, <2>4, Zenon
        <2>6. CASE Goto("transfer", 0)
            <3>1. at' = "transfer" /\ left' \in Int /\ jobs' \in Nat /\ UNCHANGED got
                BY <2>3, <2>6 DEF Goto
            <3>2. got' \in Seq(Words')
                BY <2>2, <3>1, <1>SameWords, Zenon
            <3>3. at' # "reset" /\ at' \in {"reset"} \cup FloppyPlaces /\ at' \notin {"seeking", "fdc"}
                BY <3>1, Zenon DEF FloppyPlaces
            <3> QED
                BY <2>2, <2>3, <2>5, <3>1, <3>2, <3>3, <1>Elsewhere, Zenon
        <2>7. CASE Finish
            <3>1. at' = "idle" /\ left' \in Int /\ jobs' \in Nat /\ got' = <<>>
                BY <2>3, <2>7 DEF Finish, Rest
            <3> QED
                BY <2>2, <2>3, <2>5, <3>1, <1>AtRest, Zenon
        <2> QED
            BY <2>1, <2>6, <2>7, Zenon
    (* What the user does, and what changes nothing the invariant speaks of,    *)
    (* except that a disc inserted pulls the line.                             *)
    <1>BesidesIInv.
        ASSUME IInv, UNCHANGED <<drive_select, ctl, reset, disable_irq, driverVars>>,
               \/ UNCHANGED lineVars /\ UNCHANGED stale
               \/ Interrupt /\ stale' = line'
        PROVE  IInv'
        <2> USE <1>BesidesIInv
        <2>1. /\ UNCHANGED <<drive_select, ctl, reset, disable_irq, at, job, left, got, jobs>>
            BY Zenon DEF driverVars
        <2>2. /\ TypeOK /\ LineOK /\ InterruptLatched /\ Transfers
              /\ line \in BOOLEAN /\ pending \in BOOLEAN /\ stale \in BOOLEAN /\ disable_irq \in BOOLEAN
            BY Zenon DEF IInv, TypeOK
        <2>3. Transfers'
            <3>1. Selected' = Selected
                BY <2>1, Zenon DEF Selected
            <3>2. \A m : CountIs(m)' = CountIs(m)
                BY <3>1, Zenon DEF CountIs
            <3>3. AsksFor' = AsksFor
                BY <2>1, <3>1, <3>2, Zenon DEF AsksFor
            <3>4. Agree' = Agree
                BY <2>1, <3>1, <3>2, ZenonT(30) DEF Agree
            <3> QED
                BY <2>1, <2>2, <3>1, <3>3, <3>4, Zenon DEF Transfers
        <2>4. Controllers' /\ KnownJob' /\ got' \in Seq(Words')
            BY <2>1, <2>2, <1>SameWords, Zenon DEF TypeOK, Controllers, KnownJob
        <2>5. CASE UNCHANGED lineVars /\ UNCHANGED stale
            <3>1. TypeOK'
                BY <2>1, <2>2, <2>4, <2>5, Zenon DEF TypeOK, lineVars
            <3>2. LineOK' /\ InterruptLatched'
                BY <2>1, <2>2, <2>5 DEF LineOK, InterruptLatched, lineVars
            <3> QED
                BY <2>3, <3>1, <3>2, Zenon DEF IInv
        <2>6. CASE Interrupt /\ stale' = line'
            <3>1. SetLine(FALSE, ~disable_irq) /\ (~disable_irq) \in BOOLEAN
                BY <2>2, <2>6, Zenon DEF Interrupt
            <3>2. /\ line' \in BOOLEAN /\ pending' \in BOOLEAN
                  /\ line' = (line \/ ~disable_irq)
                  /\ pending => pending'
                  /\ ~disable_irq /\ ~line => pending'
                BY <2>2, <3>1, <1>Pulls, Zenon
            <3>3. TypeOK'
                BY <2>1, <2>2, <2>4, <2>6, <3>2, ZenonT(30) DEF TypeOK
            <3>4. LineOK' /\ InterruptLatched'
                BY <2>1, <2>2, <2>6, <3>2 DEF LineOK, InterruptLatched
            <3> QED
                BY <2>3, <3>3, <3>4, Zenon DEF IInv
        <2> QED
            BY <2>5, <2>6, Zenon
    <1>UserIInv.
        ASSUME IInv, User
        PROVE  IInv'
        <2> USE <1>UserIInv
        <2>1. /\ UNCHANGED <<drive_select, ctl, reset, disable_irq, driverVars>>
              /\ \/ UNCHANGED lineVars /\ UNCHANGED stale
                 \/ Interrupt /\ stale' = line'
            BY Zenon DEF User, EjectDisc, InsertDisc, RemoveFloppy, InsertFloppy, ataVars
        <2> QED
            BY <2>1, <1>BesidesIInv, Zenon
    <1>ResetIInv.
        ASSUME IInv, Reset
        PROVE  IInv'
        <2> USE <1>ResetIInv
        <2>1. /\ drive_select' = 0 /\ ctl' = [d \in 0 .. 1 |-> FreshController(d)]
              /\ reset' = FALSE /\ disable_irq' = FALSE /\ line' = FALSE /\ pending' = FALSE
              /\ at' = "idle" /\ left' = 0 /\ got' = <<>> /\ jobs' = jobs /\ stale' = FALSE
            BY Zenon DEF Reset, AtaReset, Rest
        <2>2. Controllers'
            BY <2>1, FreshIs DEF Controllers
        <2>3. /\ line' \in BOOLEAN /\ pending' \in BOOLEAN /\ disable_irq' \in BOOLEAN
              /\ stale' \in BOOLEAN /\ reset' \in BOOLEAN /\ (stale' <=> line') /\ ~reset'
            BY <2>1, Zenon
        <2>4. left' \in Int /\ jobs' \in Nat
            BY <2>1 DEF IInv, TypeOK
        <2> QED
            BY <2>1, <2>2, <2>3, <2>4, <1>AtRest, Zenon
    <1> SUFFICES ASSUME IInv, [Next]_vars
                 PROVE  IInv'
        BY Zenon
    <1>1. CASE UNCHANGED vars
        <2>1. UNCHANGED <<drive_select, ctl, reset, disable_irq, driverVars, lineVars, stale>>
            BY <1>1, Zenon DEF vars, ataVars
        <2> QED
            BY <2>1, <1>BesidesIInv, Zenon
    <1>2. CASE Next
        BY <1>2, <1>StartIdeIInv, <1>StartFdcIInv, <1>SeeIdeIInv, <1>ReadWordIInv, <1>WriteWordIInv,
           <1>WritePacketIInv, <1>EndResetIInv, <1>TransferIInv, <1>SeeFdcIInv, <1>GiveUpIInv,
           <1>ChooseIrqIInv,
           <1>UnclaimedIInv, <1>UserIInv, <1>ResetIInv, ZenonT(30) DEF Next, Driver
    <1> QED
        BY <1>1, <1>2, Zenon

(* The invariant holds in every reachable state, whatever the jobs are. *)
THEOREM Invariance == Spec => []IInv
    BY InitIInv, NextIInv, PTL DEF Spec

(* A driver that waits for the disk controllers' interrupt finds it latched *)
(* in the MFP, of every geometry, for every list of jobs, wherever the      *)
(* user changes discs and however often the driver gives up: an IDE         *)
(* command releases the line before it pulls it, raise_interrupt pulls it   *)
(* at the end of every sector and burst but the last of a read, and that is *)
(* the one the driver does not wait for.  A floppy command's interrupt is   *)
(* there too unless set_cd_media_status left the line low before.          *)
THEOREM InterruptsAreLatched == Spec => []InterruptLatched
    <1>1. IInv => InterruptLatched
        BY Zenon DEF IInv
    <1> QED
        BY <1>1, Invariance, PTL

(***************************************************************************)
(* Floppy transfers.                                                       *)
(***************************************************************************)
(* A job that moves sectors. *)
TransferJob(j) ==
    /\ j.op \in {"read", "write"}
    /\ j.track \in Nat /\ j.side \in Nat /\ j.sector \in Nat /\ j.n \in Nat

(* The head is where the job is, by the time of the transfer and before it, *)
(* once a seek has verified the track; an open image has its geometry.     *)
HeadPlaced ==
    at \in {"seeking", "transfer"} =>
        /\ TransferJob(job)
        /\ at = "transfer" \/ "notfound" \notin fdc_status =>
              head = job.track /\ fdc_track = job.track

Placed ==
    /\ inserted => tracks = Tracks
    /\ DOMAIN floppy = 0 .. FloppySize + Sides * Spt - 1
    /\ HeadPlaced

(* A floppy read that reports no error has put exactly the sectors it names *)
(* into the guest's memory, a write that reports none has put its data into *)
(* exactly those, and no sector of the image changes otherwise: for every   *)
(* geometry and every transfer, wherever the commands before left the head, *)
(* and whatever the user does to the drive between seek and transfer.       *)
THEOREM FloppyMovesWhatItNames == Spec => FloppyInOrder
    (* Only a transfer changes the image, and every step keeps the invariant. *)
    <1>NextPlaced.
        IInv /\ Placed /\ [Next]_vars => Placed' /\ (Transfer \/ UNCHANGED floppy)
        (* A step of the IDE controller or of its driver. *)
        <2>IdePlaced.
            ASSUME Placed, UNCHANGED fdcVars,
                   at' \notin {"seeking", "transfer"} \/ UNCHANGED <<at, job>>
            PROVE  Placed' /\ UNCHANGED floppy
            <3> USE <2>IdePlaced
            <3>1. UNCHANGED <<head, fdc_track, tracks, fdc_status, inserted, floppy>>
                BY Zenon DEF fdcVars, fdcRegisters
            <3>2. HeadPlaced'
                BY <3>1, Zenon DEF Placed, HeadPlaced
            <3> QED
                BY <3>1, <3>2, Zenon DEF Placed
        (* Type I commands put the head somewhere; a seek that verifies the track   *)
        (* tells whether it is there.                                              *)
        <2>StartFdcPlaced.
            ASSUME Placed, NEW j, StartFdc(j),
                   j.op \in {"read", "write"} => TransferJob(j)
            PROVE  Placed' /\ UNCHANGED floppy
            <3> USE <2>StartFdcPlaced
            <3>1. UNCHANGED <<tracks, inserted, floppy>>
                BY ZenonT(30) DEF StartFdc, TypeI, NotFound, ForceInterrupt
            <3>2. job' = j /\ at' = IF j.op \in {"read", "write"} THEN "seeking" ELSE "fdc"
                BY Zenon DEF StartFdc, Begin
            <3>3. CASE j.op \in {"read", "write"}
                <4> DEFINE c == [op |-> "seek", track |-> j.track, verify |-> TRUE]
                <4>1. TypeI(c)
                    BY <3>3, Zenon DEF StartFdc
                <4>2. c.op = "seek" /\ c.track = j.track /\ c.verify = TRUE
                    BY Zenon
                <4> HIDE DEF c
                <4>3. fdc_track' = j.track
                    <5>1. MoveHead(c)
                        BY <4>1, Zenon DEF TypeI
                    <5>2. Seek(c.track)
                        BY <4>2, <5>1, Zenon DEF MoveHead
                    <5> QED
                        BY <4>2, <5>2, Zenon DEF Seek
                <4>4. "notfound" \notin fdc_status' => head' = fdc_track'
                    BY <4>1, <4>2, Zenon DEF TypeI
                <4>5. HeadPlaced'
                    BY <3>2, <3>3, <4>3, <4>4, Zenon DEF HeadPlaced
                <4> QED
                    BY <3>1, <4>5, Zenon DEF Placed
            <3>4. CASE j.op \notin {"read", "write"}
                <4>1. HeadPlaced'
                    BY <3>2, <3>4, Zenon DEF HeadPlaced
                <4> QED
                    BY <3>1, <4>1, Zenon DEF Placed
            <3> QED
                BY <3>3, <3>4, Zenon
        (* The driver goes on to the transfer only when the track was found. *)
        <2>SeeFdcPlaced.
            ASSUME Placed, SeeFdc
            PROVE  Placed' /\ UNCHANGED floppy
            <3> USE <2>SeeFdcPlaced
            <3>1. UNCHANGED <<head, fdc_track, tracks, fdc_status, inserted, floppy>>
                BY Zenon DEF SeeFdc, ReadFdcStatus, fdcRegisters
            <3>2. CASE at = "seeking" /\ "notfound" \notin fdc_status
                <4>1. at' = "transfer" /\ job' = job
                    BY <3>2, Zenon DEF SeeFdc, Goto
                <4>2. HeadPlaced'
                    BY <3>1, <3>2, <4>1, Zenon DEF Placed, HeadPlaced
                <4> QED
                    BY <3>1, <4>2, Zenon DEF Placed
            <3>3. CASE ~(at = "seeking" /\ "notfound" \notin fdc_status)
                <4>1. at' = "idle"
                    BY <3>3, Zenon DEF SeeFdc, Finish, Rest
                <4>2. HeadPlaced'
                    BY <4>1, Zenon DEF HeadPlaced
                <4> QED
                    BY <3>1, <4>2, Zenon DEF Placed
            <3> QED
                BY <3>2, <3>3, Zenon
        (* The transfer itself leaves an image of the same size. *)
        <2>TransferPlaced.
            ASSUME Placed, Transfer
            PROVE  Placed'
            <3> USE <2>TransferPlaced
            <3>1. at' = "fdc" /\ at = "transfer"
                BY Zenon DEF Transfer, Goto
            <3>2. HeadPlaced'
                BY <3>1, Zenon DEF HeadPlaced
            <3>3. DOMAIN floppy' = DOMAIN floppy
                BY Zenon DEF Transfer, ReadSector, WriteSector
            <3>4. inserted' => tracks' = Tracks
                BY Zenon DEF Placed, Transfer, ReadSector, WriteSector, Remount, insert_floppy
            <3> QED
                BY <3>2, <3>3, <3>4, Zenon DEF Placed
        (* The user's changes of the floppy leave the head where it is. *)
        <2>UserPlaced.
            ASSUME Placed, User
            PROVE  Placed' /\ UNCHANGED floppy
            <3> USE <2>UserPlaced
            <3>1. CASE UNCHANGED fdcVars /\ UNCHANGED driverVars
                BY <3>1, <2>IdePlaced, Zenon DEF driverVars
            <3>2. CASE (RemoveFloppy \/ InsertFloppy) /\ UNCHANGED driverVars
                <4>1. UNCHANGED <<head, fdc_track, fdc_status, floppy, at, job>>
                    BY <3>2, Zenon DEF RemoveFloppy, InsertFloppy, fdcRegisters, driverVars
                <4>2. HeadPlaced'
                    BY <4>1, Zenon DEF Placed, HeadPlaced
                <4>3. inserted' => tracks' = Tracks
                    BY <3>2, Zenon DEF RemoveFloppy, InsertFloppy, insert_floppy
                <4> QED
                    BY <4>1, <4>2, <4>3, Zenon DEF Placed
            <3> QED
                BY <3>1, <3>2, Zenon DEF User
        <2>ResetPlaced.
            ASSUME Placed, Reset
            PROVE  Placed' /\ UNCHANGED floppy
            <3> USE <2>ResetPlaced
            <3>1. at' = "idle" /\ UNCHANGED floppy /\ (inserted' => tracks' = Tracks)
                BY DEF Reset, FdcReset, Rest
            <3>2. HeadPlaced'
                BY <3>1, Zenon DEF HeadPlaced
            <3> QED
                BY <3>1, <3>2, Zenon DEF Placed
        <2> SUFFICES ASSUME IInv, Placed, [Next]_vars
                 PROVE  Placed' /\ (Transfer \/ UNCHANGED floppy)
            BY Zenon
        <2>1. CASE UNCHANGED vars
            BY <2>1, <2>IdePlaced, Zenon DEF vars, driverVars
        <2>2. ASSUME NEW j \in Jobs[jobs + 1], jobs < Len(Jobs), StartIde(j)
              PROVE  Placed' /\ UNCHANGED floppy
            <3>1. UNCHANGED fdcVars /\ at' \in {"poll", "wait"}
                BY <2>2, Zenon DEF StartIde, Begin
            <3> QED
                BY <3>1, <2>IdePlaced, Zenon
        <2>3. ASSUME NEW j \in Jobs[jobs + 1], jobs < Len(Jobs), StartFdc(j)
              PROVE  Placed' /\ UNCHANGED floppy
            <3>1. jobs + 1 \in 1 .. Len(Jobs)
                BY <2>3, JobsAssumption, SMTT(30) DEF IInv, TypeOK
            <3>2. j.on = "floppy"
                BY <2>3, Zenon DEF StartFdc
            <3>3. j.op \in {"read", "write"} => TransferJob(j)
                BY <2>3, <3>1, <3>2, JobsAssumption, Zenon DEF TransferJob
            <3> QED
                BY <2>3, <3>3, <2>StartFdcPlaced, Zenon
        <2>4. CASE SeeIde
            <3>1. UNCHANGED fdcVars /\ at' \in {"idle", "out", "in", "packet"}
                BY <2>4, Zenon DEF SeeIde, SeeStatus, Goto, Finish, Rest
            <3> QED
                BY <3>1, <2>IdePlaced, Zenon
        <2>5. CASE ReadWord \/ WriteWord \/ WritePacket
            <3>1. UNCHANGED fdcVars /\ at \in {"in", "out", "packet"} /\ at' = AfterWords
                BY <2>5, Zenon DEF ReadWord, WriteWord, WritePacket, Moved
            <3>2. at' \in {"in", "out", "packet", "last", "wait"}
                BY <3>1, Zenon DEF AfterWords
            <3> QED
                BY <3>1, <3>2, <2>IdePlaced, Zenon
        <2>6. CASE GiveUp \/ EndReset
            <3>1. UNCHANGED fdcVars /\ at' \in {"reset", "idle"}
                BY <2>6, Zenon DEF GiveUp, EndReset, Goto, Finish, Rest
            <3> QED
                BY <3>1, <2>IdePlaced, Zenon
        <2>7. CASE ChooseIrq \/ Unclaimed
            <3>1. UNCHANGED fdcVars /\ UNCHANGED <<at, job>>
                BY <2>7, Zenon DEF ChooseIrq, Unclaimed, driverVars
            <3> QED
                BY <3>1, <2>IdePlaced, Zenon
        <2> QED
            BY <2>1, <2>2, <2>3, <2>4, <2>5, <2>6, <2>7, <2>SeeFdcPlaced, <2>TransferPlaced,
               <2>UserPlaced,
               <2>ResetPlaced, ZenonT(30) DEF Next, Driver
    <1>InitPlaced. Init => Placed
        BY Zenon DEF Init, FdcInit, Placed, HeadPlaced
    (* What Transfer does is what the driver asked for. *)
    <1>TransferInOrder.
        ASSUME Placed, Transfer
        PROVE  LET o == (job.track * Sides + job.side) * Spt + job.sector - 1
                   ok == fdc_status' = {} /\ tracks > 0
               IN  /\ ok /\ job.op = "read" => memory' = [i \in 1 .. job.n |-> floppy[o + i - 1]]
                   /\ ok /\ job.op = "write" => \A i \in 1 .. job.n : floppy'[o + i - 1] = <<"new", i>>
                   /\ \A s \in DOMAIN floppy : floppy'[s] # floppy[s] =>
                         job.op = "write" /\ s \in o .. o + job.n - 1
        <2> USE <1>TransferInOrder
        <2> DEFINE o == (job.track * Sides + job.side) * Spt + job.sector - 1
                   p == Offset(job.side, job.sector)
                   n == Clipped(job.sector, job.n)
                   ok == fdc_status' = {} /\ tracks > 0
        <2>1. at = "transfer" /\ TransferJob(job) /\ head = job.track
            BY Zenon DEF Transfer, Placed, HeadPlaced
        <2>2. /\ job.op \in {"read", "write"} /\ job.track \in Nat /\ job.side \in Nat
              /\ job.sector \in Nat /\ job.n \in Nat
            BY <2>1, Zenon DEF TransferJob
        <2>3. n \in Int /\ n <= job.n
            BY <2>2, FdcAssumption DEF Clipped
        <2>4. \A found : Found(found, job.sector, job.n) => found /\ n = job.n
            BY Zenon DEF Found
        <2>5. tracks > 0 => p = o
            <3>1. Sides \in Nat /\ Spt \in Nat
                BY FdcAssumption
            <3>2. tracks > 0 => p = Spt * Sides * job.track + Spt * job.side + job.sector - 1
                BY <2>1, Zenon DEF Offset
            <3>3. (job.track * Sides + job.side) * Spt = Spt * Sides * job.track + Spt * job.side
                BY <2>2, <3>1
            <3> QED
                BY <3>2, <3>3, Zenon
        <2>6. o \in Int
            BY <2>2, FdcAssumption
        <2>7. inserted => tracks > 0
            BY FdcAssumption, Zenon DEF Placed
        <2> HIDE DEF o, p, n
        <2>8. CASE job.op = "read"
            <3>1. ReadSector(job.side, job.sector, job.n)
                BY <2>8, Zenon DEF Transfer
            <3>2. UNCHANGED floppy
                BY <3>1, Zenon DEF ReadSector
            <3>3. PICK k \in Readable(p, n) :
                    /\ memory' = [i \in 1 .. k |-> floppy[p + i - 1]]
                    /\ fdc_status' = IF Found(k = n /\ inserted', job.sector, job.n) THEN {} ELSE {"notfound"}
                BY <3>1, Zenon DEF ReadSector, p, n
            <3>4. fdc_status' = {} => k = job.n
                BY <2>4, <3>3, Zenon
            <3>5. ok => memory' = [i \in 1 .. job.n |-> floppy[o + i - 1]]
                BY <2>5, <3>3, <3>4, Zenon
            <3> QED
                BY <2>8, <3>2, <3>5, Zenon DEF o
        <2>9. CASE job.op = "write"
            <3>1. WriteSector(job.side, job.sector, job.n, NewSectors)
                BY <2>9, Zenon DEF Transfer
            <3>2. PICK k \in 0 .. n :
                    /\ k > 0 => inserted /\ p \in DOMAIN floppy /\ p + k - 1 \in DOMAIN floppy
                    /\ floppy' = [t \in DOMAIN floppy |->
                                    IF t \in p .. p + k - 1 THEN NewSectors[t - p + 1] ELSE floppy[t]]
                    /\ fdc_status' = IF Found(k = n /\ inserted, job.sector, job.n) THEN {} ELSE {"notfound"}
                BY <3>1, Zenon DEF WriteSector, p, n
            <3>3. k \in Nat /\ k <= job.n
                BY <2>2, <2>3, SMTT(30)
            <3>4. k > 0 => p = o
                BY <2>5, <2>7, <3>2, Zenon
            <3>5. \A s \in DOMAIN floppy : floppy'[s] # floppy[s] => s \in o .. o + job.n - 1
                <4> SUFFICES ASSUME NEW s \in DOMAIN floppy, floppy'[s] # floppy[s]
                             PROVE  s \in o .. o + job.n - 1
                    BY Zenon
                <4>1. s \in p .. p + k - 1
                    BY <3>2, Zenon
                <4>2. s \in Int
                    BY DEF Placed
                <4>3. CASE k > 0
                    BY <2>2, <2>6, <3>3, <3>4, <4>1, <4>2, <4>3
                <4>4. CASE k = 0
                    <5>1. p \in Int
                        BY <2>1, <2>2, FdcAssumption DEF p, Offset
                    <5> QED
                        BY <4>1, <4>2, <4>4, <5>1
                <4> QED
                    BY <3>3, <4>3, <4>4
            <3>6. ASSUME ok, NEW i \in 1 .. job.n
                  PROVE  floppy'[o + i - 1] = <<"new", i>>
                <4>1. k = job.n
                    BY <2>4, <3>2, <3>6, Zenon
                <4>2. p = o /\ p \in DOMAIN floppy /\ p + k - 1 \in DOMAIN floppy
                    BY <2>2, <2>5, <3>2, <3>6, <4>1
                <4>3. o + i - 1 \in DOMAIN floppy /\ o + i - 1 \in p .. p + k - 1
                    <5> DEFINE last == FloppySize + Sides * Spt - 1
                    <5>1. DOMAIN floppy = 0 .. last /\ last \in Int
                        BY FdcAssumption DEF Placed, FloppySize
                    <5> HIDE DEF last
                    <5> QED
                        BY <2>2, <2>6, <4>1, <4>2, <5>1, SMTT(30)
                <4>4. (o + i - 1) - p + 1 = i
                    BY <2>6, <4>2
                <4>5. NewSectors[i] = <<"new", i>>
                    BY Zenon DEF NewSectors
                <4> QED
                    BY <3>2, <4>3, <4>4, <4>5, Zenon
            <3> QED
                BY <2>9, <3>5, <3>6, Zenon DEF o
        <2> QED
            BY <2>2, <2>8, <2>9, Zenon
    <1>1. IInv /\ Placed /\ [Next]_vars => Placed'
        BY <1>NextPlaced, Zenon
    <1>2. IInv /\ Placed /\ [Next]_vars =>
            [LET o == (job.track * Sides + job.side) * Spt + job.sector - 1
                 ok == Transfer /\ fdc_status' = {} /\ tracks > 0
             IN  /\ ok /\ job.op = "read" => memory' = [i \in 1 .. job.n |-> floppy[o + i - 1]]
                 /\ ok /\ job.op = "write" => \A i \in 1 .. job.n : floppy'[o + i - 1] = <<"new", i>>
                 /\ \A s \in DOMAIN floppy : floppy'[s] # floppy[s] =>
                       Transfer /\ job.op = "write" /\ s \in o .. o + job.n - 1]_vars
        BY <1>NextPlaced, <1>TransferInOrder, Zenon
    <1> QED
        BY <1>1, <1>2, <1>InitPlaced, Invariance, PTL DEF Spec, FloppyInOrder

(***************************************************************************)
(* Addresses.                                                              *)
(***************************************************************************)
(* The quotient and the remainder are the numbers one expects. *)
LEMMA DivIs ==
    ASSUME NEW n \in Nat, n > 0, NEW q \in Int, NEW r \in Int, 0 <= r, r < n
    PROVE  (q * n + r) \div n = q /\ (q * n + r) % n = r
    <1> DEFINE a == q * n + r
               p == a \div n
               s == a % n
    <1>1. q * n \in Int /\ a \in Int
        OBVIOUS
    <1>2. p \in Int /\ s \in Int /\ 0 <= s /\ s < n /\ a = n * p + s
        BY <1>1
    <1>3. n * (p - q) = r - s
        BY <1>2
    <1> HIDE DEF p, s, a
    <1>4. p - q \in Int
        BY <1>2
    <1> DEFINE t == p - q
    <1>5. n * t = r - s /\ t \in Int
        BY <1>3, <1>4, Zenon
    <1> HIDE DEF t
    <1>6. ~(t >= 1)
        <2> SUFFICES ASSUME t >= 1 PROVE FALSE
            BY Zenon
        <2>1. n * t >= n
            BY <1>5
        <2> QED
            BY <1>2, <1>5, <2>1
    <1>7. ~(t <= -1)
        <2> SUFFICES ASSUME t <= -1 PROVE FALSE
            BY Zenon
        <2>1. n * t <= -n
            BY <1>5
        <2> QED
            BY <1>2, <1>5, <2>1
    <1>8. t = 0
        BY <1>5, <1>6, <1>7
    <1>9. p = q /\ s = r
        <2>1. p = q
            BY <1>2, <1>8 DEF t
        <2>2. n * t = 0
            BY <1>8
        <2> QED
            BY <1>2, <1>5, <2>1, <2>2
    <1> QED
        BY <1>9, Zenon DEF p, s, a

(* The smaller of two numbers. *)
LEMMA MinLeft ==
    ASSUME NEW a \in Int, NEW b \in Int, a <= b
    PROVE  Min({a, b}) = a /\ Min({b, a}) = a
    <1>1. a \in {a, b} /\ \A y \in {a, b} : a <= y
        OBVIOUS
    <1>2. \A x \in {a, b} : (\A y \in {a, b} : x <= y) => x = a
        OBVIOUS
    <1>3. Min({a, b}) = a
        BY <1>1, <1>2, Zenon DEF Min
    <1>4. {b, a} = {a, b}
        BY Zenon
    <1> QED
        BY <1>3, <1>4, Zenon

(* The disk has fewer sectors than LBA registers can address. *)
LEMMA TotalIs ==
    Total \in Nat /\ Total > 0 /\ Total < 16 * (Base * Base * Base)
    <1> DEFINE c == Base * Base
    <1>1. /\ Base \in Nat /\ Cylinders \in Nat /\ Heads \in Nat /\ Sectors \in Nat
          /\ Base > Sectors /\ c > Cylinders /\ 16 >= Heads
          /\ Cylinders > 0 /\ Heads > 0 /\ Sectors > 0 /\ c \in Nat
        BY AtaAssumption
    <1> HIDE DEF c
    <1>2. Cylinders * Heads \in Nat /\ Cylinders * Heads > 0 /\ Cylinders * Heads <= c * 16
        <2>1. Cylinders * Heads <= Cylinders * 16
            BY <1>1
        <2> QED
            BY <1>1, <2>1
    <1> DEFINE h == Cylinders * Heads
               k == c * 16
    <1>3. h \in Nat /\ h > 0 /\ k \in Nat /\ h <= k /\ k > 0
        BY <1>1, <1>2
    <1> HIDE DEF h, k
    <1>4. h * Sectors \in Nat /\ h * Sectors > 0 /\ h * Sectors < k * Base
        <2>1. h * Sectors <= k * Sectors
            BY <1>1, <1>3
        <2>2. k * Sectors < k * Base
            BY <1>1, <1>3
        <2> QED
            BY <1>1, <1>3, <2>1, <2>2
    <1>5. k * Base = 16 * (c * Base)
        BY <1>1 DEF k
    <1> QED
        BY <1>4, <1>5, Zenon DEF h, c, Total

(* The registers address sector a, in CHS mode by numbers that exist. *)
Positioned(c, a) ==
    /\ LogicalAddress(c) = a
    /\ ~c.lba_mode =>
          c.sector_no \in 1 .. Sectors /\ c.head_no \in 0 .. Heads - 1 /\ c.cylinder_no \in Nat

(* increment_address, as long as it stays on the disk in CHS mode. *)
LEMMA AddressMoves ==
    \A c \in Controller, a \in 0 .. Total - 1 :
        Positioned(c, a) /\ (~c.lba_mode => a + 1 < Total) =>
            Positioned(increment_address(c), a + 1) /\ increment_address(c).lba_mode = c.lba_mode
    (* A number from its digits: the last, those between, the first. *)
    <1>Digits.
        ASSUME NEW a \in Nat, NEW b \in Nat, b > 0
        PROVE  (a \div (b * b * b)) * (b * b * b) + ((a \div b) % (b * b)) * b + (a % b) = a
        <2> USE <1>Digits
        <2> DEFINE y == a \div b
                   r == a % b
                   c == b * b
                   z == y \div c
                   w == y % c
                   m == w * b + r
        <2> SUFFICES (a \div (c * b)) * (c * b) + w * b + r = a
            BY Zenon
        <2>1. y \in Nat /\ r \in Nat /\ r < b /\ a = b * y + r
            OBVIOUS
        <2>2. c \in Nat /\ c > 0
            OBVIOUS
        <2> HIDE DEF y, r, c
        <2>3. z \in Nat /\ w \in Nat /\ w < c /\ y = c * z + w
            BY <2>1, <2>2
        <2> HIDE DEF z, w
        <2>4. m \in Nat /\ m < c * b
            <3>1. w * b \in Nat /\ m \in Nat
                BY <2>1, <2>3
            <3>2. w + 1 <= c
                BY <2>2, <2>3
            <3>3. (w + 1) * b <= c * b
                BY <2>2, <2>3, <3>2
            <3>4. (w + 1) * b = w * b + b
                BY <2>3
            <3> QED
                BY <2>1, <2>2, <3>1, <3>3, <3>4
        <2>5. a = z * (c * b) + m
            <3>1. b * y = b * (c * z) + b * w
                BY <2>2, <2>3
            <3>2. b * (c * z) = z * (c * b) /\ b * w = w * b
                BY <2>2, <2>3
            <3> QED
                BY <2>1, <2>2, <2>3, <3>1, <3>2
        <2>6. c * b \in Nat /\ c * b > 0
            BY <2>2
        <2> HIDE DEF m
        <2>7. a \div (c * b) = z
            <3> DEFINE k == c * b
            <3>1. k \in Nat /\ k > 0 /\ m < k /\ a = z * k + m
                BY <2>4, <2>5, <2>6, Zenon
            <3> HIDE DEF k
            <3>2. a \div k = z
                BY <2>3, <2>4, <3>1, DivIs
            <3> QED
                BY <3>2, Zenon DEF k
        <2> QED
            BY <2>1, <2>2, <2>3, <2>4, <2>5, <2>6, <2>7 DEF m
    (* increment_address in LBA mode. *)
    <1>LbaMoves.
        ASSUME NEW c \in Controller, c.lba_mode, NEW a \in 0 .. Total
        PROVE  LogicalAddress(LbaRegisters(c, a)) = a /\ LbaRegisters(c, a).lba_mode
        <2> USE <1>LbaMoves
        <2> DEFINE b == Base
                   k == b * b * b
                   h == a \div k
                   y == (a \div b) % (b * b)
                   s == a % b
        <2>1. b \in Nat /\ b > 0
            BY AtaAssumption
        <2>2. k \in Nat /\ k > 0
            <3>1. b * b \in Nat /\ b * b > 0
                BY <2>1
            <3> QED
                BY <2>1, <3>1
        <2>3. a \in Nat /\ a < 16 * k
            <3>1. Total \in Nat /\ Total < 16 * k
                BY TotalIs, Zenon
            <3> HIDE DEF k
            <3> QED
                BY <2>2, <3>1
        <2>4. h * k + y * b + s = a
            BY <2>3, <2>1, <1>Digits, Zenon
        <2>5. h % 16 = h /\ h \in Nat
            <3> HIDE DEF k
            <3>1. h \in Nat /\ h * k <= a
                BY <2>3, <2>2
            <3>2. h < 16
                <4> HIDE DEF h
                <4> SUFFICES ASSUME h >= 16 PROVE FALSE
                    BY <3>1
                <4>1. h * k >= 16 * k
                    BY <2>2, <3>1
                <4> QED
                    BY <2>3, <2>2, <3>1, <4>1
            <3> HIDE DEF h
            <3> QED
                BY <3>1, <3>2
        <2>6. h * b * b * b = h * k
            <3> HIDE DEF h
            <3> QED
                BY <2>1, <2>5
        <2> DEFINE r == LbaRegisters(c, a)
        <2>7. r.lba_mode = c.lba_mode /\ r.head_no = h % 16 /\ r.cylinder_no = y /\ r.sector_no = s
            BY Zenon DEF LbaRegisters, Controller
        <2> HIDE DEF r
        <2>8. LogicalAddress(r) = r.head_no * b * b * b + r.cylinder_no * b + r.sector_no
            BY <2>7, Zenon DEF LogicalAddress
        <2> HIDE DEF b, k, h, y, s
        <2>9. LogicalAddress(r) = h * b * b * b + y * b + s
            BY <2>5, <2>7, <2>8, Zenon
        <2> QED
            BY <2>4, <2>6, <2>7, <2>9, Zenon DEF r
    (* increment_address in CHS mode: carries from sector to head to cylinder. *)
    <1>ChsMoves.
        ASSUME NEW c \in Controller, ~c.lba_mode, NEW a \in Int, a + 1 < Total, Positioned(c, a)
        PROVE  Positioned(NextChs(c), a + 1) /\ ~NextChs(c).lba_mode
        <2> USE <1>ChsMoves
        <2> DEFINE s == c.sector_no
                   h == c.head_no
                   y == c.cylinder_no
                   r == NextChs(c)
        <2>1. /\ Base \in Nat /\ Cylinders \in Nat /\ Heads \in Nat /\ Sectors \in Nat
              /\ Base > Sectors /\ Cylinders > 0 /\ Heads > 0 /\ Sectors > 0
            BY AtaAssumption, Zenon
        <2>2. s \in 1 .. Sectors /\ h \in 0 .. Heads - 1 /\ y \in Nat
            BY Zenon DEF Positioned
        <2>3. a = (y * Heads + h) * Sectors + s - 1
            BY Zenon DEF Positioned, LogicalAddress
        <2>4. ASSUME NEW t, ~t.lba_mode, t.sector_no \in 1 .. Sectors, t.head_no \in 0 .. Heads - 1,
                     t.cylinder_no \in Nat,
                     (t.cylinder_no * Heads + t.head_no) * Sectors + t.sector_no - 1 = a + 1
              PROVE  Positioned(t, a + 1) /\ ~t.lba_mode
            BY <2>4, Zenon DEF Positioned, LogicalAddress
        <2>5. (s + 1) % Base = IF s + 1 = Base THEN 0 ELSE s + 1
            BY <2>1, <2>2
        <2>6. CASE s < Sectors
            <3>1. r = [c EXCEPT !.sector_no = s + 1]
                BY <2>1, <2>2, <2>5, <2>6 DEF NextChs
            <3>2. ~r.lba_mode /\ r.sector_no = s + 1 /\ r.head_no = h /\ r.cylinder_no = y
                BY <3>1, Zenon DEF Controller
            <3> HIDE DEF r
            <3>3. (y * Heads + h) * Sectors + (s + 1) - 1 = a + 1
                BY <2>1, <2>2, <2>3
            <3>4. s + 1 \in 1 .. Sectors
                BY <2>1, <2>2, <2>6
            <3> QED
                BY <2>2, <2>4, <3>2, <3>3, <3>4, Zenon DEF r
        <2>7. CASE s = Sectors /\ h + 1 < Heads
            <3>1. r = [c EXCEPT !.sector_no = 1, !.head_no = h + 1]
                BY <2>1, <2>2, <2>5, <2>7 DEF NextChs
            <3>2. ~r.lba_mode /\ r.sector_no = 1 /\ r.head_no = h + 1 /\ r.cylinder_no = y
                BY <3>1, Zenon DEF Controller
            <3> HIDE DEF r
            <3>3. (y * Heads + (h + 1)) * Sectors + 1 - 1 = a + 1
                <4>1. (y * Heads + (h + 1)) * Sectors = (y * Heads + h) * Sectors + Sectors
                    BY <2>1, <2>2
                <4> QED
                    BY <2>1, <2>2, <2>3, <2>7, <4>1
            <3>4. h + 1 \in 0 .. Heads - 1 /\ 1 \in 1 .. Sectors
                BY <2>1, <2>2, <2>7
            <3> QED
                BY <2>2, <2>4, <3>2, <3>3, <3>4, Zenon DEF r
        <2>8. CASE s = Sectors /\ h + 1 = Heads
            <3>1. a + 1 = ((y + 1) * Heads) * Sectors
                <4>1. (y + 1) * Heads = y * Heads + h + 1
                    BY <2>1, <2>2, <2>8
                <4>2. (y * Heads + h + 1) * Sectors = (y * Heads + h) * Sectors + Sectors
                    BY <2>1, <2>2
                <4> QED
                    BY <2>1, <2>2, <2>3, <2>8, <4>1, <4>2
            <3>2. y + 1 <= Cylinders - 1
                <4> SUFFICES ASSUME y + 1 >= Cylinders PROVE FALSE
                    BY <2>1, <2>2
                <4>1. (y + 1) * Heads >= Cylinders * Heads
                    BY <2>1, <2>2
                <4>2. ((y + 1) * Heads) * Sectors >= (Cylinders * Heads) * Sectors
                    BY <2>1, <2>2, <4>1
                <4> QED
                    BY <2>1, <3>1, <4>2, TotalIs DEF Total
            <3>3. Min({y + 1, Cylinders - 1}) = y + 1
                BY <2>1, <2>2, <3>2, MinLeft
            <3>4. r = [c EXCEPT !.sector_no = 1, !.head_no = 0, !.cylinder_no = y + 1]
                <4>1. ~((s + 1) % Base # 0 /\ (s + 1) % Base <= Sectors) /\ ~(h + 1 < Heads)
                    BY <2>1, <2>2, <2>5, <2>8
                <4>2. r = [c EXCEPT !.sector_no = 1, !.head_no = 0,
                                    !.cylinder_no = Min({y + 1, Cylinders - 1})]
                    BY <4>1, Zenon DEF NextChs
                <4> QED
                    BY <3>3, <4>2, Zenon
            <3>5. ~r.lba_mode /\ r.sector_no = 1 /\ r.head_no = 0 /\ r.cylinder_no = y + 1
                BY <3>4, Zenon DEF Controller
            <3> HIDE DEF r
            <3>6. ((y + 1) * Heads + 0) * Sectors + 1 - 1 = a + 1
                BY <2>1, <2>2, <3>1
            <3>7. 0 \in 0 .. Heads - 1 /\ 1 \in 1 .. Sectors /\ y + 1 \in Nat
                BY <2>1, <2>2
            <3> QED
                BY <2>4, <3>5, <3>6, <3>7, Zenon DEF r
        <2> QED
            BY <2>1, <2>2, <2>6, <2>7, <2>8
    <1> SUFFICES ASSUME NEW c \in Controller, NEW a \in 0 .. Total - 1, Positioned(c, a),
                        ~c.lba_mode => a + 1 < Total
                 PROVE  Positioned(increment_address(c), a + 1) /\ increment_address(c).lba_mode = c.lba_mode
        BY Zenon
    <1> DEFINE count == (c.sector_count + Base - 1) % Base
               n == [c EXCEPT !.sector_count = count]
    <1>1. count \in Int
        BY AtaAssumption DEF Controller
    <1> HIDE DEF count
    <1>2. /\ n \in Controller /\ n.lba_mode = c.lba_mode /\ n.sector_no = c.sector_no
          /\ n.head_no = c.head_no /\ n.cylinder_no = c.cylinder_no
        BY <1>1, Zenon DEF Controller
    <1>3. increment_address(c) = IF c.lba_mode THEN LbaRegisters(n, LogicalAddress(c) + 1) ELSE NextChs(n)
        BY Zenon DEF increment_address, count
    <1> HIDE DEF n
    <1>4. CASE c.lba_mode
        <2> DEFINE r == LbaRegisters(n, a + 1)
        <2>1. increment_address(c) = r
            BY <1>3, <1>4, Zenon DEF Positioned
        <2>2. a + 1 \in 0 .. Total
            BY TotalIs
        <2>3. LogicalAddress(r) = a + 1 /\ r.lba_mode
            BY <1>2, <1>4, <2>2, <1>LbaMoves, Zenon
        <2>4. r \in Controller
            BY <1>2, LbaIs
        <2> HIDE DEF r
        <2>5. r.lba_mode = c.lba_mode
            BY <1>4, <2>3, <2>4, Zenon DEF Controller
        <2> QED
            BY <2>1, <2>3, <2>5, Zenon DEF Positioned
    <1>5. CASE ~c.lba_mode
        <2>1. increment_address(c) = NextChs(n)
            BY <1>3, <1>5, Zenon
        <2>2. Positioned(n, a)
            BY <1>2, <1>5, Zenon DEF Positioned, LogicalAddress
        <2>3. Positioned(NextChs(n), a + 1) /\ ~NextChs(n).lba_mode
            BY <1>2, <1>5, <2>2, <1>ChsMoves, SMTT(30)
        <2>4. NextChs(n) \in Controller
            BY <1>2, ChsIs, Zenon
        <2>5. NextChs(n).lba_mode = c.lba_mode
            BY <1>5, <2>3, <2>4, ZenonT(30) DEF Controller
        <2> QED
            BY <2>1, <2>3, <2>5, Zenon
    <1> QED
        BY <1>4, <1>5, Zenon

(***************************************************************************)
(* The invariant of the transfers: what is on the media, in the buffers    *)
(* and with the driver.                                                    *)
(***************************************************************************)
Word == {"disk", "new", "identity", "none", "cd", "reply"} \X Int \X Int
SectorData == [1 .. SectorWords -> Word]

(* A buffer with the first word of a block has the whole block. *)
HoldsBlocks(b) == b[1][1] = "cd" => b = BlockOf(b[1][2])

(* Disks hold sectors, and only a CD-ROM executes packets. *)
Media ==
    /\ image \in [0 .. 1 -> [0 .. Total - 1 -> SectorData]]
    /\ DOMAIN buffer = 0 .. 1
    /\ \A d \in 0 .. 1 :
          /\ device[d] = "disk" => buffer[d] \in SectorData
          /\ device[d] = "cd" => HoldsBlocks(buffer[d])
          /\ ctl[d].current_command = "packet" => device[d] = "cd"
          /\ ctl[d].current_command \in {"read", "write"} => device[d] = "disk"

(* Drive c has k sectors of the job behind it. *)
Behind(j, c, k) ==
    /\ Positioned(c, j.first + k)
    /\ c.lba_mode = j.registers.lba_mode
    /\ c.sector_count = IF j.n - k = Base THEN 0 ELSE j.n - k

(* The sector being read is in the buffer. *)
Reading(k) ==
    /\ Behind(job, Selected, k)
    /\ job.first + k \in 0 .. Total - 1
    /\ buffer[job.d] = image[job.d][job.first + k]
    /\ Selected.buffer_index = 2 * (Len(got) - k * SectorWords)
    /\ 0 <= Selected.buffer_index /\ Selected.buffer_index < SectorBytes

(* The words of the sector being written are in the buffer. *)
Writing(k) ==
    /\ Behind(job, Selected, k)
    /\ Selected.buffer_index = 2 * (sent - k * SectorWords)
    /\ 0 <= Selected.buffer_index /\ Selected.buffer_index < SectorBytes
    /\ \A i \in 1 .. sent - k * SectorWords : buffer[job.d][i] = <<"new", k, i>>

InSectors ==
    \A i \in DOMAIN got :
        got[i] = image[job.d][job.first + (i - 1) \div SectorWords][((i - 1) % SectorWords) + 1]

SectorsRead ==
    IdeJob("read") =>
        /\ InSectors
        /\ at \in IdePlaces =>
              /\ Selected.drq => \E k \in 0 .. job.n - 1 : Reading(k)
              /\ ~Selected.drq /\ ~Selected.err => Len(got) = job.n * SectorWords

SectorsWritten ==
    /\ sent \in Nat
    /\ at = "idle" => sent = 0 /\ job = NoJob
    /\ IdeJob("write") /\ at \in IdePlaces =>
          /\ at = "out" => Selected.drq
          /\ Selected.drq => \E k \in 0 .. job.n - 1 : Writing(k)
          /\ ~Selected.drq /\ ~Selected.err => sent = job.n * SectorWords

InBlocks ==
    \A i \in DOMAIN got :
        got[i] = <<"cd", job.packet.lba + (i - 1) \div BlockWords, ((i - 1) % BlockWords) + 1>>

DiscBytes == Min({job.packet.n, Capacity - job.packet.lba}) * BlockBytes

(* A burst under way or asked for: the drive has delivered the words read,  *)
(* up to buffer_index of block next_lba - 1.                               *)
Streaming ==
    LET c == Selected
    IN  /\ c.lazy /\ c.cylinder_no = c.drq_bytes
        /\ c.drq_bytes % 2 = 0 /\ c.remaining % 2 = 0 /\ c.drq_bytes <= c.remaining
        /\ c.drq_index % 2 = 0 /\ c.buffer_index % 2 = 0
        /\ 2 * Len(got) = DiscBytes - c.remaining + c.drq_index
        /\ 0 <= c.buffer_index /\ c.buffer_index <= BlockBytes
        /\ 2 * Len(got) = (c.next_lba - job.packet.lba) * BlockBytes - BlockBytes + c.buffer_index
        /\ ~bad /\ c.buffer_index < BlockBytes => buffer[job.d] = BlockOf(c.next_lba - 1)

BlocksRead ==
    DiscJob =>
        /\ ~bad => InBlocks
        /\ at \in IdePlaces =>
              IF at \in {"poll", "packet"} THEN got = <<>> /\ (Selected.drq \/ Selected.err)
              ELSE /\ Selected.drq => Streaming
                   /\ ~Selected.drq /\ ~Selected.err => 2 * Len(got) = DiscBytes

Progress == Media /\ SectorsRead /\ SectorsWritten /\ BlocksRead

(* Steps that move no data. *)
LEMMA MediaSame ==
    ASSUME Media, UNCHANGED <<image, buffer>>,
           \A d \in 0 .. 1 : ctl'[d].current_command \in {ctl[d].current_command, "none"}
    PROVE  Media'
    BY Zenon DEF Media

(* A driver with no IDE job, or one that has left its job. *)
LEMMA OtherProgress ==
    ASSUME Media', sent' \in Nat, at' = "idle" => sent' = 0 /\ job' = NoJob, job'.on # "ide"
    PROVE  Progress'
    <1>1. ~IdeJob("read")' /\ ~IdeJob("write")' /\ ~DiscJob'
        BY Zenon DEF IdeJob, DiscJob
    <1> QED
        BY <1>1, Zenon DEF Progress, SectorsRead, SectorsWritten, BlocksRead

LEMMA AwayProgress ==
    ASSUME Progress, Media', at' \notin IdePlaces, at' # "idle",
           UNCHANGED <<image, job, got, sent, bad>>
    PROVE  Progress'
    <1>1. /\ IdeJob("read")' = IdeJob("read") /\ IdeJob("write")' = IdeJob("write")
          /\ DiscJob' = DiscJob /\ InSectors' = InSectors /\ InBlocks' = InBlocks
        BY Zenon DEF IdeJob, DiscJob, InSectors, InBlocks
    <1>2. SectorsRead'
        BY <1>1, Zenon DEF Progress, SectorsRead
    <1>3. SectorsWritten'
        BY Zenon DEF Progress, SectorsWritten
    <1>4. BlocksRead'
        BY <1>1, Zenon DEF Progress, BlocksRead
    <1> QED
        BY <1>2, <1>3, <1>4, Zenon DEF Progress

(* A driver that looks on. *)
LEMMA SameProgress ==
    ASSUME Progress, UNCHANGED <<drive_select, ctl, buffer, image, job, got, sent, bad>>,
           \/ UNCHANGED at
           \/ at \in {"poll", "wait", "last"} /\ at' \in {"in", "out", "packet"} /\ Selected.drq
                 /\ (job.command = "packet" => (at = "poll" <=> at' = "packet"))
    PROVE  Progress'
    <1>1. Media'
        BY Zenon DEF Progress, Media
    <1>2. /\ IdeJob("read")' = IdeJob("read") /\ IdeJob("write")' = IdeJob("write")
          /\ DiscJob' = DiscJob /\ InSectors' = InSectors /\ InBlocks' = InBlocks
          /\ Selected' = Selected
        BY Zenon DEF IdeJob, DiscJob, InSectors, InBlocks, Selected
    <1>3. at' \in IdePlaces <=> at \in IdePlaces
        BY Zenon DEF IdePlaces
    <1>4. \A k : Reading(k)' = Reading(k) /\ Writing(k)' = Writing(k)
        BY <1>2, ZenonT(30) DEF Reading, Writing
    <1>5. Streaming' = Streaming /\ DiscBytes' = DiscBytes
        BY <1>2, Zenon DEF Streaming, DiscBytes
    <1>6. SectorsRead'
        BY <1>2, <1>3, <1>4, Zenon DEF Progress, SectorsRead
    <1>7. SectorsWritten'
        BY <1>2, <1>3, <1>4, Zenon DEF Progress, SectorsWritten
    <1>8. BlocksRead'
        <2>1. DiscJob /\ at' # at => (at' \in {"poll", "packet"} <=> at \in {"poll", "packet"})
            BY Zenon DEF DiscJob, IdeJob
        <2> QED
            BY <1>2, <1>3, <1>5, <2>1, Zenon DEF Progress, BlocksRead
    <1> QED
        BY <1>1, <1>6, <1>7, <1>8, Zenon DEF Progress

(* The driver rests. *)
LEMMA RestProgress ==
    ASSUME Media', Rest
    PROVE  Progress'
    <1>1. sent' = 0 /\ job' = NoJob /\ job'.on # "ide"
        BY Zenon DEF Rest, NoJob
    <1> QED
        BY <1>1, OtherProgress, Zenon

LEMMA SeeIdeProgress ==
    ASSUME IInv, Progress, SeeIde
    PROVE  Progress'
    <1>1. /\ UNCHANGED <<drive_select, ctl, buffer, image>> /\ at \in {"poll", "wait", "last"}
          /\ SeeStatus
        BY Zenon DEF SeeIde, ReadStatus, ataVars
    <1>2. CASE Finish
        <2>1. Media'
            BY <1>1, Zenon DEF Progress, Media
        <2> QED
            BY <1>2, <2>1, RestProgress, Zenon DEF Finish
    <1>3. CASE ~Finish
        <2>1. /\ Selected.drq /\ UNCHANGED <<job, got, sent, bad>> /\ at' \in {"in", "out", "packet"}
              /\ job.command = "packet" => (at = "poll" <=> at' = "packet")
            BY <1>1, <1>3, Zenon DEF SeeStatus, Goto
        <2> QED
            BY <1>1, <2>1, SameProgress, Zenon
    <1> QED
        BY <1>2, <1>3, Zenon

(* The control register. *)
LEMMA ControlMedia ==
    ASSUME Controllers, Media, NEW r \in BOOLEAN, NEW nien, WriteControl(r, nien)
    PROVE  Media' /\ UNCHANGED image
    <1>1. UNCHANGED <<image, buffer>>
        BY Zenon DEF WriteControl
    <1> DEFINE stop(c) == [c EXCEPT !.busy = TRUE, !.drq = FALSE, !.err = FALSE,
                                    !.current_command = "none", !.buffer_index = 0,
                                    !.lba_mode = FALSE, !.resetting = TRUE]
               show(c, n) == [Signed(c, n) EXCEPT !.busy = FALSE, !.resetting = FALSE]
    <1>2. \A c \in Controller : stop(c).current_command = "none"
        BY Zenon DEF Controller
    <1>3. \A c \in Controller : \A n : show(c, n).current_command = c.current_command
        BY Zenon DEF Controller, Signed
    <1>4. \A d \in 0 .. 1 : ctl[d] \in Controller
        BY Zenon DEF Controllers
    <1>5. \/ ctl' = [d \in 0 .. 1 |-> stop(ctl[d])]
          \/ ctl' = [d \in 0 .. 1 |-> show(ctl[d], IF device[d] = "disk" THEN 0 ELSE Signature)]
          \/ ctl' = ctl
        BY Zenon DEF WriteControl
    <1> HIDE DEF stop, show
    <1>6. \A d \in 0 .. 1 : ctl'[d].current_command \in {ctl[d].current_command, "none"}
        BY <1>2, <1>3, <1>4, <1>5
    <1> QED
        BY <1>1, <1>6, MediaSame, Zenon

LEMMA GiveUpProgress ==
    ASSUME IInv, Progress, GiveUp
    PROVE  Progress'
    <1>1. /\ WriteControl(TRUE, disable_irq) /\ at' = "reset" /\ UNCHANGED <<job, got, sent, bad>>
        BY Zenon DEF GiveUp, Goto
    <1>2. Controllers /\ Media /\ TRUE \in BOOLEAN
        BY Zenon DEF IInv, TypeOK, Progress
    <1>3. Media' /\ UNCHANGED image
        BY <1>1, <1>2, ControlMedia, Zenon
    <1>4. at' \notin IdePlaces
        BY <1>1, Zenon DEF IdePlaces
    <1> QED
        BY <1>1, <1>3, <1>4, AwayProgress, Zenon

LEMMA EndResetProgress ==
    ASSUME IInv, Progress, EndReset
    PROVE  Progress'
    <1>1. WriteControl(FALSE, FALSE) /\ Rest
        BY Zenon DEF EndReset, Finish
    <1>2. Controllers /\ Media /\ FALSE \in BOOLEAN
        BY Zenon DEF IInv, TypeOK, Progress
    <1>3. Media'
        BY <1>1, <1>2, ControlMedia, Zenon
    <1> QED
        BY <1>1, <1>3, RestProgress, Zenon

(* A driver with no job has read and written nothing. *)
LEMMA ChooseIrqProgress ==
    ASSUME IInv, Progress, ChooseIrq
    PROVE  Progress'
    <1>1. PICK b \in BOOLEAN : WriteControl(FALSE, b)
        BY Zenon DEF ChooseIrq
    <1>2. Controllers /\ Media /\ FALSE \in BOOLEAN
        BY Zenon DEF IInv, TypeOK, Progress
    <1>3. Media'
        BY <1>1, <1>2, ControlMedia, Zenon
    <1>4. at' = "idle" /\ sent' = sent /\ job' = NoJob /\ sent = 0
        BY Zenon DEF ChooseIrq, driverVars, Progress, SectorsWritten
    <1> QED
        BY <1>3, <1>4, OtherProgress, Zenon DEF NoJob

LEMMA UnclaimedProgress ==
    ASSUME Progress, Unclaimed \/ UNCHANGED vars
    PROVE  Progress'
    <1>1. UNCHANGED <<drive_select, ctl, buffer, image, job, got, sent, bad, at>>
        BY Zenon DEF Unclaimed, vars, ataVars, driverVars
    <1> QED
        BY <1>1, SameProgress, Zenon

LEMMA UserProgress ==
    ASSUME Progress, User
    PROVE  Progress'
    <1>1. UNCHANGED <<drive_select, ctl, buffer, image>> /\ UNCHANGED driverVars
        BY Zenon DEF User, EjectDisc, InsertDisc, RemoveFloppy, InsertFloppy, ataVars
    <1> QED
        BY <1>1, SameProgress, Zenon DEF driverVars

LEMMA ResetProgress ==
    ASSUME Progress, Reset
    PROVE  Progress'
    <1>1. ctl' = [d \in 0 .. 1 |-> FreshController(d)] /\ UNCHANGED <<image, buffer>> /\ Rest
        BY Zenon DEF Reset, AtaReset
    <1>2. \A d \in 0 .. 1 : ctl'[d].current_command = "none"
        BY <1>1, Zenon DEF FreshController
    <1>3. Media'
        BY <1>1, <1>2, MediaSame, Zenon DEF Progress
    <1> QED
        BY <1>1, <1>3, RestProgress, Zenon

(* The floppy controller's steps. *)
LEMMA FloppyProgress ==
    ASSUME IInv, Progress, Transfer \/ SeeFdc \/ \E j : StartFdc(j)
    PROVE  Progress'
    <1>1. UNCHANGED <<drive_select, ctl, buffer, image>>
        BY Zenon DEF Transfer, SeeFdc, StartFdc, ataVars
    <1>2. Media'
        BY <1>1, Zenon DEF Progress, Media
    <1>3. CASE Rest
        BY <1>2, <1>3, RestProgress, Zenon
    <1>4. CASE \E j : StartFdc(j)
        <2>1. job'.on = "floppy" /\ at' # "idle" /\ sent' = sent
            BY <1>4, Zenon DEF StartFdc, Begin
        <2> QED
            BY <1>2, <2>1, OtherProgress, Zenon DEF Progress, SectorsWritten
    <1>5. CASE (Transfer \/ SeeFdc) /\ ~Rest
        <2>1. at' \in {"fdc", "transfer"} /\ UNCHANGED <<job, got, sent, bad>>
            BY <1>5, Zenon DEF Transfer, SeeFdc, Goto, Finish
        <2> QED
            BY <1>1, <1>2, <2>1, AwayProgress, Zenon DEF IdePlaces
    <1> QED
        BY <1>3, <1>4, <1>5, Zenon

(***************************************************************************)
(* The driver gives a command.                                             *)
(***************************************************************************)
(* A job that reads or writes sectors. *)
SectorJob(j) ==
    /\ device[j.d] = "disk" /\ j.d \in 0 .. 1 /\ j.n \in 1 .. Base /\ j.first \in Nat
    /\ j.registers.sector_count = IF j.n = Base THEN 0 ELSE j.n
    /\ j.registers.lba_mode \in BOOLEAN
    /\ Positioned(j.registers, j.first)
    /\ ~j.registers.lba_mode => j.first + j.n <= Total

LEMMA SectorJobIs ==
    ASSUME NEW i \in 1 .. Len(Jobs), NEW j \in Jobs[i], j.on = "ide",
           j.command \in {"read", "write"}
    PROVE  SectorJob(j)
    <1> DEFINE r == j.registers
    <1>1. /\ j.d \in 0 .. 1
          /\ r \in [sector_count : Nat, sector_no : Nat, cylinder_no : Nat, head_no : Nat,
                    lba_mode : BOOLEAN]
        BY JobsAssumption, Zenon
    <1>2. /\ device[j.d] = "disk" /\ j.n \in 1 .. Base
          /\ r.sector_count = IF j.n = Base THEN 0 ELSE j.n
          /\ j.first = LogicalAddress(r)
          /\ ~r.lba_mode => r.sector_no \in 1 .. Sectors /\ r.head_no < Heads /\ j.first + j.n <= Total
        BY AddressAssumption, Zenon
    <1> HIDE DEF r
    <1>3. /\ r.sector_no \in Nat /\ r.cylinder_no \in Nat /\ r.head_no \in Nat
          /\ r.lba_mode \in BOOLEAN
        BY <1>1, Zenon
    <1>4. Base \in Nat /\ Heads \in Nat /\ Sectors \in Nat
        BY AtaAssumption, Zenon
    <1>5. j.first \in Nat
        <2>1. CASE r.lba_mode
            <3> DEFINE x == r.head_no * Base * Base * Base
                       y == r.cylinder_no * Base
            <3>1. x \in Nat /\ y \in Nat
                BY <1>3, <1>4, SMTT(30)
            <3>2. j.first = x + y + r.sector_no
                BY <1>2, <2>1, Zenon DEF LogicalAddress
            <3> HIDE DEF x, y
            <3> QED
                BY <1>3, <3>1, <3>2
        <2>2. CASE ~r.lba_mode
            <3> DEFINE x == (r.cylinder_no * Heads + r.head_no) * Sectors
            <3>1. x \in Nat
                BY <1>3, <1>4, SMTT(30)
            <3>2. j.first = x + r.sector_no - 1
                BY <1>2, <2>2, Zenon DEF LogicalAddress
            <3> HIDE DEF x
            <3> QED
                BY <1>2, <1>3, <2>2, <3>1, <3>2
        <2> QED
            BY <2>1, <2>2, Zenon
    <1>6. Positioned(r, j.first)
        BY <1>2, <1>3, <1>4 DEF Positioned
    <1> QED
        BY <1>1, <1>2, <1>3, <1>5, <1>6, Zenon DEF SectorJob, r

(* A job that reads a disc. *)
BlocksJob(j) ==
    j.packet.n \in Nat /\ j.packet.lba \in Nat /\ j.packet.lba <= Capacity

LEMMA BlocksJobIs ==
    ASSUME NEW i \in 1 .. Len(Jobs), NEW j \in Jobs[i], j.on = "ide",
           j.command = "packet", j.packet.op = "read"
    PROVE  BlocksJob(j)
    BY JobsAssumption, AddressAssumption, Zenon DEF BlocksJob

LEMMA SamePosition ==
    ASSUME NEW r, NEW c, NEW a, SameAddress(r, c), Positioned(r, a)
    PROVE  Positioned(c, a)
    BY Zenon DEF SameAddress, Positioned, LogicalAddress

(* One drive changes. *)
LEMMA MediaStep ==
    ASSUME Media, NEW d \in 0 .. 1, UNCHANGED image, DOMAIN buffer' = 0 .. 1,
           \A e \in 0 .. 1 : e # d => /\ ctl'[e].current_command = ctl[e].current_command
                                      /\ buffer'[e] = buffer[e],
           device[d] = "disk" => buffer'[d] \in SectorData,
           device[d] = "cd" => HoldsBlocks(buffer'[d]),
           ctl'[d].current_command = "packet" => device[d] = "cd",
           ctl'[d].current_command \in {"read", "write"} => device[d] = "disk"
    PROVE  Media'
    BY Zenon DEF Media

(* What a command leaves in the drive it is for. *)
Begun(j, b, c) ==
    /\ c \in Controller
    /\ j.command = "read" =>
          \/ /\ c.drq /\ c.buffer_index = 0 /\ SameAddress(b, c) /\ c.sector_count = b.sector_count
             /\ InBounds(b) /\ buffer'[j.d] = image[j.d][LogicalAddress(b)]
             /\ device[j.d] = "disk"
          \/ ~c.drq /\ c.err
    /\ j.command = "write" =>
          c.drq /\ c.buffer_index = 0 /\ SameAddress(b, c) /\ c.sector_count = b.sector_count
    /\ j.command = "packet" => c.drq \/ c.err

Left(d, buf, c) ==
    /\ DOMAIN buf = 0 .. 1
    /\ \A e \in 0 .. 1 : e # d => buf[e] = buffer[e]
    /\ device[d] = "disk" => buf[d] \in SectorData
    /\ device[d] = "cd" => HoldsBlocks(buf[d])
    /\ c.current_command = "packet" => device[d] = "cd"
    /\ c.current_command \in {"read", "write"} => device[d] = "disk"

LEMMA StartIdeProgress ==
    \A j \in Jobs[jobs + 1] :
        IInv /\ Progress /\ jobs < Len(Jobs) /\ StartIde(j) => Progress'
    <1>RequestingHas.
        ASSUME NEW c \in Controller, NEW x \in {"read", "write", "identify", "packet"}
        PROVE  Requesting(c, x).drq /\ SameAddress(c, Requesting(c, x))
        BY <1>RequestingHas, Zenon DEF Controller, Requesting, SameAddress
    (* A buffer after a command. *)
    <1>SectorOfIs.
        ASSUME NEW n \in Int
        PROVE  /\ SectorOf("identity", n) \in SectorData
               /\ HoldsBlocks(SectorOf("identity", n))
        <2> DEFINE s == SectorOf("identity", n)
        <2>1. s = [i \in 1 .. SectorWords |-> <<"identity", n, i>>]
            BY Zenon DEF SectorOf, SectorWords
        <2>2. \A i \in 1 .. SectorWords : <<"identity", n, i>> \in Word
            BY SectorWordsAre DEF Word
        <2>3. s[1][1] = "identity"
            BY <2>1, SectorWordsAre
        <2> HIDE DEF s
        <2>4. s \in SectorData
            BY <2>1, <2>2, Zenon DEF SectorData
        <2>5. HoldsBlocks(s)
            BY <2>3, Zenon DEF HoldsBlocks
        <2> QED
            BY <2>4, <2>5, Zenon DEF s
    <1>BufferKept.
        ASSUME Media, NEW d \in 0 .. 1, NEW c,
               c.current_command \in {ctl[d].current_command, "none"}
        PROVE  Left(d, buffer, c)
        BY <1>BufferKept, Zenon DEF Media, Left
    <1>BufferFilled.
        ASSUME Media, NEW d \in 0 .. 1, NEW c, NEW data,
               device[d] = "disk" => data \in SectorData,
               device[d] = "cd" => HoldsBlocks(data),
               c.current_command = "packet" => device[d] = "cd",
               c.current_command \in {"read", "write"} => device[d] = "disk"
        PROVE  Left(d, [buffer EXCEPT ![d] = data], c) /\ [buffer EXCEPT ![d] = data][d] = data
        BY <1>BufferFilled, Zenon DEF Media, Left
    <1>CommandBegins.
        ASSUME Controllers, Media, NEW i \in 1 .. Len(Jobs), NEW j \in Jobs[i], j.on = "ide",
               NEW cs \in [0 .. 1 -> Controller],
               \A e \in 0 .. 1 : cs[e].current_command = ctl[e].current_command,
               WriteCommand(j.d, cs, j.command)
        PROVE  \E c : /\ ctl' = [cs EXCEPT ![j.d] = c]
                      /\ Begun(j, cs[j.d], c) /\ Left(j.d, buffer', c)
        <2> USE <1>CommandBegins
        <2> DEFINE d == j.d
                   b == cs[d]
                   command == j.command
                   Ends(c) == ctl' = [cs EXCEPT ![d] = c] /\ Begun(j, b, c) /\ Left(d, buffer', c)
        <2>1. d \in 0 .. 1 /\ device[d] # "none" /\ d \in Int
            BY JobsAssumption, SMTT(30)
        <2>2. command \in {"read", "write"} => device[d] = "disk"
            BY SectorJobIs, Zenon DEF SectorJob
        <2>3. b \in Controller /\ b.current_command = ctl[d].current_command
            BY <2>1, Zenon
        <2>4. \/ command = "read" /\ ReadSectors(d, cs)
              \/ command = "write" /\ WriteSectors(d, cs)
              \/ command = "identify" /\ Identify(d, cs)
              \/ command = "packet" /\ SendPacket(d, cs) /\ UNCHANGED buffer
              \/ WithoutData(d, cs, command) /\ UNCHANGED buffer
            BY <2>1, Zenon DEF WriteCommand
        <2> DEFINE off == command_aborted(b)
        <2>5. off \in Controller /\ ~off.drq /\ off.err /\ off.current_command = "none"
            BY <2>3, AbortedIs, Zenon
        <2>6. ASSUME Answer(d, cs, off, TRUE), UNCHANGED buffer, command # "write"
              PROVE  Ends(off)
            <3> HIDE DEF off
            <3>1. ctl' = [cs EXCEPT ![d] = off]
                BY <2>6, Zenon DEF Answer
            <3>2. Begun(j, b, off)
                BY <2>5, <2>6, ZenonT(30) DEF Begun
            <3>3. Left(d, buffer', off)
                BY <2>1, <2>5, <2>6, <1>BufferKept
            <3> QED
                BY <3>1, <3>2, <3>3, Zenon
        <2>7. CASE command = "read" /\ ReadSectors(d, cs)
            <3> DEFINE c == Requesting(b, "read")
            <3>1. /\ c \in Controller /\ c.current_command = "read" /\ c.buffer_index = 0
                  /\ c.sector_count = b.sector_count /\ c.drq /\ SameAddress(b, c)
                BY <2>3, RequestingIs, <1>RequestingHas, Zenon
            <3>2. CASE /\ InBounds(b) /\ buffer' = [buffer EXCEPT ![d] = image[d][LogicalAddress(b)]]
                       /\ Answer(d, cs, c, TRUE)
                <4> HIDE DEF c
                <4> DEFINE data == image[d][LogicalAddress(b)]
                <4>1. data \in SectorData
                    BY <2>1, <3>2, ZenonT(30) DEF Media, InBounds
                <4> HIDE DEF data
                <4>2. buffer' = [buffer EXCEPT ![d] = data]
                    BY <3>2, Zenon DEF data
                <4>3. Left(d, buffer', c) /\ buffer'[d] = data
                    <5>1. /\ device[d] = "disk" /\ device[d] # "cd" /\ data \in SectorData
                          /\ c.current_command # "packet"
                        BY <2>2, <2>7, <3>1, <4>1, Zenon
                    <5>2. Left(d, buffer', c)
                        BY <2>1, <4>2, <5>1, <1>BufferFilled, ZenonT(30)
                    <5>3. buffer'[d] = data
                        BY <2>1, <4>2, Zenon DEF Media
                    <5> QED
                        BY <5>2, <5>3, Zenon
                <4>4. Begun(j, b, c)
                    BY <2>2, <2>7, <3>1, <3>2, <4>3, Zenon DEF Begun, data
                <4>5. ctl' = [cs EXCEPT ![d] = c]
                    BY <3>2, Zenon DEF Answer
                <4> QED
                    BY <4>3, <4>4, <4>5, Zenon
            <3>3. CASE Answer(d, cs, off, TRUE) /\ UNCHANGED buffer
                BY <2>6, <2>7, <3>3, Zenon
            <3> QED
                BY <2>7, <3>2, <3>3, ZenonT(30) DEF ReadSectors
        <2>8. CASE command = "write" /\ WriteSectors(d, cs)
            <3> DEFINE c == Requesting(b, "write")
            <3>1. /\ c \in Controller /\ c.current_command = "write" /\ c.buffer_index = 0
                  /\ c.sector_count = b.sector_count /\ c.drq /\ SameAddress(b, c)
                BY <2>3, RequestingIs, <1>RequestingHas, ZenonT(30)
            <3>2. ctl' = [cs EXCEPT ![d] = c] /\ UNCHANGED buffer
                BY <2>8, ZenonT(30) DEF WriteSectors, Answer
            <3> HIDE DEF c
            <3>3. Left(d, buffer', c)
                BY <2>1, <2>2, <2>8, <3>1, <3>2, ZenonT(30) DEF Left, Media
            <3>4. Begun(j, b, c)
                BY <2>8, <3>1, ZenonT(30) DEF Begun
            <3> QED
                BY <3>2, <3>3, <3>4, Zenon
        <2>9. CASE command = "identify" /\ Identify(d, cs)
            <3> DEFINE c == Requesting(b, "identify")
                       data == SectorOf("identity", d)
            <3>1. c \in Controller /\ c.current_command = "identify"
                BY <2>3, RequestingIs, Zenon
            <3>2. ctl' = [cs EXCEPT ![d] = c] /\ buffer' = [buffer EXCEPT ![d] = data]
                BY <2>1, <2>9, Zenon DEF Identify, Answer
            <3>3. data \in SectorData /\ HoldsBlocks(data)
                BY <2>1, <1>SectorOfIs, Zenon
            <3> HIDE DEF c, data
            <3>4. Left(d, buffer', c)
                BY <2>1, <3>1, <3>2, <3>3, <1>BufferFilled, Zenon
            <3>5. Begun(j, b, c)
                BY <2>9, <3>1, Zenon DEF Begun
            <3> QED
                BY <3>2, <3>4, <3>5, ZenonT(30)
        <2>10. CASE command = "packet" /\ SendPacket(d, cs) /\ UNCHANGED buffer
            <3> DEFINE r == Requesting(b, "packet")
                       c == [r EXCEPT !.sector_count = 1]
            <3>1. r \in Controller /\ r.current_command = "packet" /\ r.drq
                BY <2>3, RequestingIs, <1>RequestingHas, Zenon
            <3>2. CASE device[d] = "cd" /\ Answer(d, cs, c, FALSE)
                <4>1. ctl' = [cs EXCEPT ![d] = c]
                    BY <3>2, Zenon DEF Answer
                <4> HIDE DEF r
                <4>2. c \in Controller /\ c.current_command = "packet" /\ c.drq
                    BY <3>1, IntZeroOne, Zenon DEF Controller
                <4> HIDE DEF c
                <4>3. Left(d, buffer', c)
                    BY <2>1, <2>10, <3>2, <4>2, Zenon DEF Left, Media
                <4>4. Begun(j, b, c)
                    BY <2>10, <4>2, Zenon DEF Begun
                <4> QED
                    BY <4>1, <4>3, <4>4, ZenonT(30)
            <3>3. CASE Answer(d, cs, off, TRUE)
                BY <2>6, <2>10, <3>3, ZenonT(30)
            <3> QED
                BY <2>10, <3>2, <3>3, ZenonT(30) DEF SendPacket
        <2>11. CASE WithoutData(d, cs, command) /\ UNCHANGED buffer
            <3>1. PICK c \in Controller, irq \in BOOLEAN :
                    Answer(d, cs, c, irq) /\ c.current_command \in {b.current_command, "none"}
                BY <2>1, <2>11, WithoutDataIs, Zenon
            <3>2. ctl' = [cs EXCEPT ![d] = c]
                BY <3>1, ZenonT(30) DEF Answer
            <3>3. Left(d, buffer', c)
                BY <2>1, <2>3, <2>11, <3>1, <1>BufferKept, SMTT(30)
            <3>4. command \notin {"read", "write", "packet"}
                BY <2>11, Zenon DEF WithoutData
            <3>5. Begun(j, b, c)
                BY <3>1, <3>4, Zenon DEF Begun
            <3> QED
                BY <3>2, <3>3, <3>5, Zenon
        <2> QED
            BY <2>4, <2>7, <2>8, <2>9, <2>10, <2>11, ZenonT(30)
    <1> SUFFICES ASSUME IInv, Progress, jobs < Len(Jobs), NEW j \in Jobs[jobs + 1], StartIde(j)
                 PROVE  Progress'
        BY Zenon
    <1> DEFINE cs == WithRegisters(j.d, j.registers)
               d == j.d
               b == cs[d]
    <1>1. /\ j.on = "ide" /\ WriteCommand(d, cs, j.command) /\ drive_select' = d /\ UNCHANGED image
          /\ at = "idle" /\ at' \in {"poll", "wait"} /\ (at' = "poll" <=> j.command \in Polled)
          /\ job' = j /\ got' = got /\ sent' = sent /\ bad' = bad
        BY ZenonT(30) DEF StartIde, Begin, WriteCommand
    <1>2. jobs + 1 \in 1 .. Len(Jobs)
        BY JobsAssumption, SMTT(30) DEF IInv, TypeOK
    <1>3. /\ d \in 0 .. 1
          /\ j.registers \in [sector_count : Nat, sector_no : Nat, cylinder_no : Nat,
                              head_no : Nat, lba_mode : BOOLEAN]
        BY <1>1, <1>2, JobsAssumption, Zenon
    <1>4. Controllers /\ Media /\ got = <<>> /\ sent = 0
        BY <1>1, Zenon DEF IInv, TypeOK, Progress, Transfers, SectorsWritten
    <1>5. /\ cs \in [0 .. 1 -> Controller] /\ b.sector_count = j.registers.sector_count
          /\ SameAddress(j.registers, b)
          /\ \A e \in 0 .. 1 : cs[e].current_command = ctl[e].current_command
        BY <1>3, <1>4, RegistersAre, Zenon
    <1> HIDE DEF cs
    <1>6. PICK c : ctl' = [cs EXCEPT ![d] = c] /\ Begun(j, b, c) /\ Left(d, buffer', c)
        BY <1>1, <1>2, <1>4, <1>5, <1>CommandBegins, Zenon
    <1>7. Selected' = c /\ ctl'[d] = c /\ \A e \in 0 .. 1 : e # d => ctl'[e] = cs[e]
        BY <1>1, <1>3, <1>5, <1>6, ZenonT(30) DEF Selected
    <1>8. Media'
        <2>1. \A e \in 0 .. 1 : e # d => ctl'[e].current_command = ctl[e].current_command
            BY <1>5, <1>7, Zenon
        <2> HIDE DEF d
        <2> QED
            BY <1>1, <1>3, <1>4, <1>6, <1>7, <2>1, MediaStep, ZenonT(30) DEF Left
    <1>9. at' \in IdePlaces /\ at' # "idle" /\ at' # "out"
        BY <1>1, ZenonT(30) DEF IdePlaces
    <1>10. DOMAIN got' = {} /\ Len(got') = 0
        BY <1>1, <1>4, EmptySeq
    <1>11. ASSUME j.command \in {"read", "write"}, SameAddress(b, c),
                  c.sector_count = b.sector_count
           PROVE  Behind(j, c, 0) /\ j.first + 0 = j.first /\ 0 \in 0 .. j.n - 1
        <2>1. SectorJob(j)
            BY <1>1, <1>2, <1>11, SectorJobIs, ZenonT(30)
        <2>2. j.first + 0 = j.first /\ j.n - 0 = j.n /\ 0 \in 0 .. j.n - 1
            <3>1. j.first \in Nat /\ j.n \in 1 .. Base /\ Base \in Nat
                BY <2>1, AtaAssumption, Zenon DEF SectorJob
            <3> QED
                BY <3>1, SMTT(30)
        <2>3. Positioned(c, j.first)
            BY <1>5, <1>11, <2>1, SamePosition, Zenon DEF SectorJob
        <2>4. c.lba_mode = j.registers.lba_mode
            BY <1>5, <1>11, Zenon DEF SameAddress
        <2>5. c.sector_count = IF j.n = Base THEN 0 ELSE j.n
            BY <1>5, <1>11, <2>1, Zenon DEF SectorJob
        <2> QED
            BY <2>2, <2>3, <2>4, <2>5, Zenon DEF Behind
    <1>12. SectorsRead'
        <2> SUFFICES ASSUME j.command = "read"
                     PROVE  SectorsRead'
            BY <1>1, Zenon DEF SectorsRead, IdeJob
        <2>1. InSectors'
            BY <1>10, Zenon DEF InSectors
        <2>2. Selected'.drq => \E k \in 0 .. j.n - 1 : Reading(k)'
            <3> SUFFICES ASSUME c.drq
                         PROVE  \E k \in 0 .. j.n - 1 : Reading(k)'
                BY <1>7, Zenon
            <3>1. /\ c.buffer_index = 0 /\ SameAddress(b, c) /\ c.sector_count = b.sector_count
                  /\ InBounds(b) /\ buffer'[d] = image[d][LogicalAddress(b)]
                BY <1>6, ZenonT(30) DEF Begun
            <3>2. Behind(j, c, 0) /\ j.first + 0 = j.first /\ 0 \in 0 .. j.n - 1
                BY <1>11, <3>1, Zenon
            <3>3. LogicalAddress(b) = j.first
                BY <3>1, <3>2, ZenonT(30) DEF Behind, Positioned, SameAddress, LogicalAddress
            <3>4. 2 * (Len(got') - 0 * SectorWords) = 0
                BY <1>10, NoneLeft, SectorWordsAre, SMTT(30)
            <3>5. 0 < SectorBytes
                BY AtaAssumption, ZenonT(30)
            <3>6. Reading(0)'
                <4>1. j.first + 0 \in 0 .. Total - 1
                    BY <3>1, <3>2, <3>3, Zenon DEF InBounds
                <4>2. 0 <= 0
                    BY SMTT(30)
                <4> QED
                    BY <1>1, <1>7, <3>1, <3>2, <3>3, <3>4, <3>5, <4>1, <4>2, ZenonT(30) DEF Reading
            <3> QED
                BY <3>2, <3>6, Zenon
        <2>3. ~Selected'.drq => Selected'.err
            BY <1>6, <1>7, Zenon DEF Begun
        <2> QED
            BY <1>1, <2>1, <2>2, <2>3, Zenon DEF SectorsRead
    <1>13. SectorsWritten'
        <2>1. sent' \in Nat
            BY <1>1, <1>4, Zenon
        <2> SUFFICES ASSUME j.command = "write"
                     PROVE  SectorsWritten'
            BY <1>1, <1>9, <2>1, Zenon DEF SectorsWritten, IdeJob
        <2>2. c.drq /\ c.buffer_index = 0 /\ SameAddress(b, c) /\ c.sector_count = b.sector_count
            BY <1>6, ZenonT(30) DEF Begun
        <2>3. Behind(j, c, 0) /\ 0 \in 0 .. j.n - 1
            BY <1>11, <2>2, ZenonT(30)
        <2>4. sent' - 0 * SectorWords = 0 /\ 0 < SectorBytes
            BY <1>1, <1>4, NoneLeft, SectorWordsAre, AtaAssumption, SMTT(30)
        <2>5. Writing(0)'
            BY <1>1, <1>7, <2>2, <2>3, <2>4, SMTT(30) DEF Writing
        <2> QED
            BY <1>1, <1>7, <1>9, <2>1, <2>2, <2>3, <2>5, ZenonT(30) DEF SectorsWritten
    <1>14. BlocksRead'
        <2> SUFFICES ASSUME j.command = "packet"
                     PROVE  BlocksRead'
            BY <1>1, Zenon DEF BlocksRead, DiscJob, IdeJob
        <2>1. InBlocks'
            BY <1>10, Zenon DEF InBlocks
        <2>2. at' = "poll"
            BY <1>1, Zenon DEF Polled
        <2>3. c.drq \/ c.err
            BY <1>6, ZenonT(30) DEF Begun
        <2> QED
            BY <1>1, <1>4, <1>7, <2>1, <2>2, <2>3, Zenon DEF BlocksRead
    <1> QED
        BY <1>8, <1>12, <1>13, <1>14, ZenonT(30) DEF Progress

(***************************************************************************)
(* Words of sectors.                                                       *)
(***************************************************************************)
(* Drive c has a sector more behind it, and asks for the next if there is  *)
(* one.                                                                    *)
Advanced(j, c, k) ==
    /\ c \in Controller /\ c.buffer_index = 0
    /\ c.sector_count = j.n - (k + 1)
    /\ k + 1 < j.n => k + 1 \in 0 .. j.n - 1 /\ Behind(j, c, k + 1)

LEMMA AdvancedIs ==
    ASSUME NEW j, SectorJob(j), NEW k \in 0 .. j.n - 1, NEW c \in Controller, Behind(j, c, k),
           j.first + k \in 0 .. Total - 1, c.buffer_index = 0
    PROVE  Advanced(j, increment_address(c), k)
    <1> DEFINE n == increment_address(c)
               a == j.first + k
    <1>1. /\ Base \in Nat /\ j.n \in 1 .. Base /\ j.first \in Nat /\ k \in Nat /\ k <= j.n - 1
          /\ ~j.registers.lba_mode => j.first + j.n <= Total
        BY AtaAssumption, SMTT(30) DEF SectorJob
    <1>2. /\ Positioned(c, a) /\ c.lba_mode = j.registers.lba_mode
          /\ c.sector_count = IF j.n - k = Base THEN 0 ELSE j.n - k
        BY Zenon DEF Behind
    <1>3. /\ n \in Controller /\ n.buffer_index = 0
          /\ n.sector_count = (c.sector_count + Base - 1) % Base
        BY IncrementIs, Zenon
    <1>4. n.sector_count = j.n - (k + 1)
        <2> DEFINE m == j.n - k
        <2>1. m \in 1 .. Base /\ m - 1 = j.n - (k + 1)
            BY <1>1, SMTT(30)
        <2> HIDE DEF m
        <2>2. ((IF m = Base THEN 0 ELSE m) + Base - 1) % Base = m - 1
            BY <1>1, <2>1, CountDown, Zenon
        <2>3. c.sector_count = IF m = Base THEN 0 ELSE m
            BY <1>2, Zenon DEF m
        <2> QED
            BY <1>3, <2>1, <2>2, <2>3, Zenon
    <1>5. ASSUME k + 1 < j.n
          PROVE  k + 1 \in 0 .. j.n - 1 /\ Behind(j, n, k + 1)
        <2>1. k + 1 \in 0 .. j.n - 1 /\ j.n - (k + 1) # Base /\ a + 1 = j.first + (k + 1)
            BY <1>1, <1>5, SMTT(30)
        <2>2. ~c.lba_mode => a + 1 < Total
            BY <1>1, <1>2, <1>5, TotalIs, SMTT(30)
        <2>3. Positioned(n, a + 1) /\ n.lba_mode = c.lba_mode
            BY <1>2, <2>2, AddressMoves, Zenon
        <2> QED
            BY <1>2, <1>4, <2>1, <2>3, Zenon DEF Behind
    <1> QED
        BY <1>3, <1>4, <1>5, ZenonT(30) DEF Advanced

(* A controller that differs in what does not address. *)
LEMMA SameBehind ==
    ASSUME NEW j, NEW c, NEW r, NEW k, Behind(j, c, k), SameAddress(c, r),
           r.sector_count = c.sector_count
    PROVE  Behind(j, r, k)
    <1>1. Positioned(r, j.first + k)
        BY SamePosition, Zenon DEF Behind
    <1> QED
        BY <1>1, Zenon DEF Behind, SameAddress

(* Where a word is in its sector. *)
LEMMA WordPlace ==
    ASSUME NEW s \in Nat, NEW k \in Nat, NEW i \in Int, i = 2 * (s - k * SectorWords),
           0 <= i, i < SectorBytes
    PROVE  LET m == s - k * SectorWords
           IN  /\ m \in Nat /\ m < SectorWords
               /\ s \div SectorWords = k /\ s % SectorWords = m
               /\ i \div 2 = m
               /\ i + 2 < SectorBytes <=> m + 1 < SectorWords
               /\ m + 1 = SectorWords => s + 1 = (k + 1) * SectorWords
    <1> DEFINE w == SectorWords
               x == k * w
               m == s - x
    <1>1. w \in Nat /\ w >= 1 /\ 2 * w = SectorBytes
        BY SectorWordsAre, Zenon
    <1> HIDE DEF w
    <1>2. x \in Nat
        BY <1>1
    <1>3. m \in Nat /\ m < w /\ i = 2 * m /\ s = x + m
        <2> HIDE DEF x
        <2> QED
            BY <1>1, <1>2 DEF w, x
    <1>4. (k * w + m) \div w = k /\ (k * w + m) % w = m
        <2> HIDE DEF m
        <2> QED
            BY <1>1, <1>3, DivIs
    <1>5. (k + 1) * w = x + w
        BY <1>1
    <1> HIDE DEF m, x
    <1>6. i \div 2 = m /\ (i + 2 < SectorBytes <=> m + 1 < w) /\ (m + 1 = w => s + 1 = (k + 1) * w)
        BY <1>1, <1>2, <1>3, <1>5
    <1>7. s \div w = k /\ s % w = m
        BY <1>3, <1>4, Zenon DEF x
    <1> QED
        BY <1>3, <1>6, <1>7, Zenon DEF w, m, x

(* What a write may do to the images. *)
ImageStep ==
    image' # image =>
        /\ IdeJob("write")
        /\ LET s == job.first + sent \div SectorWords
               data == [i \in 1 .. SectorWords |-> <<"new", sent \div SectorWords, i>>]
           IN  /\ image' = [image EXCEPT ![job.d][s] = image'[job.d][s]]
               /\ image'[job.d][s] = data \/ ctl'[job.d].err

LEMMA WriteWordProgress ==
    IInv /\ Progress /\ WriteWord => Progress' /\ ImageStep
    <1>SectorWrittenIs.
        ASSUME NEW j, SectorJob(j), NEW k \in 0 .. j.n - 1, NEW c \in Controller, Behind(j, c, k),
               j.first + k \in 0 .. Total - 1
        PROVE  /\ Advanced(j, SectorWritten(c), k)
               /\ SectorWritten(c).drq = (k + 1 < j.n) /\ ~SectorWritten(c).err
               /\ SectorWritten(c).current_command = c.current_command
        <2> USE <1>SectorWrittenIs
        <2> DEFINE m == [c EXCEPT !.buffer_index = 0]
                   n == increment_address(m)
                   more == n.sector_count # 0
                   done == [n EXCEPT !.busy = FALSE, !.err = FALSE, !.drq = more]
        <2>1. /\ m \in Controller /\ m.buffer_index = 0 /\ m.current_command = c.current_command
              /\ m.sector_count = c.sector_count /\ SameAddress(c, m)
            BY IntZeroOne, Zenon DEF Controller, SameAddress
        <2> HIDE DEF m
        <2>2. Behind(j, m, k)
            BY <2>1, SameBehind, Zenon
        <2>3. Advanced(j, n, k) /\ n.current_command = c.current_command
            BY <2>1, <2>2, AdvancedIs, IncrementIs, ZenonT(30)
        <2>4. more = (k + 1 < j.n) /\ more \in BOOLEAN
            <3>1. n.sector_count = j.n - (k + 1) /\ j.n \in Int /\ k \in Int /\ k <= j.n - 1
                BY <2>3, AtaAssumption DEF Advanced, SectorJob
            <3> QED
                BY <3>1, SMTT(30)
        <2>5. SectorWritten(c) = done
            BY Zenon DEF SectorWritten, m
        <2> HIDE DEF more, n
        <2>6. n \in Controller
            BY <2>3, Zenon DEF Advanced
        <2>7. /\ done \in Controller /\ done.buffer_index = n.buffer_index /\ SameAddress(n, done)
              /\ done.sector_count = n.sector_count /\ done.current_command = n.current_command
              /\ done.drq = more /\ ~done.err
            BY <2>4, <2>6, ZenonT(30) DEF Controller, SameAddress
        <2> HIDE DEF done
        <2>8. k + 1 < j.n => Behind(j, done, k + 1)
            BY <2>3, <2>7, SameBehind, Zenon DEF Advanced
        <2>9. Advanced(j, done, k)
            BY <2>3, <2>7, <2>8, Zenon DEF Advanced
        <2> QED
            BY <2>3, <2>4, <2>5, <2>7, <2>9, Zenon
    (* A word of an image. *)
    <1>MediaWritten.
        ASSUME Media, NEW d \in 0 .. 1, image' \in [0 .. 1 -> [0 .. Total - 1 -> SectorData]],
               NEW data \in SectorData, buffer' = [buffer EXCEPT ![d] = data], device[d] = "disk",
               \A e \in 0 .. 1 : e # d => ctl'[e].current_command = ctl[e].current_command,
               ctl'[d].current_command # "packet"
        PROVE  Media'
        BY <1>MediaWritten, Zenon DEF Media
    (* A sector of an image changes. *)
    <1>SectorChanges.
        ASSUME Media, NEW d \in 0 .. 1, NEW a \in 0 .. Total - 1, NEW x \in SectorData,
               image' = [image EXCEPT ![d][a] = x]
        PROVE  /\ image' \in [0 .. 1 -> [0 .. Total - 1 -> SectorData]]
               /\ image'[d][a] = x
               /\ image' = [image EXCEPT ![d][a] = image'[d][a]]
        <2> USE <1>SectorChanges
        <2>1. image \in [0 .. 1 -> [0 .. Total - 1 -> SectorData]]
            BY Zenon DEF Media
        <2>2. image'[d][a] = x
            BY <2>1, Zenon
        <2> QED
            BY <2>1, <2>2, Zenon
    <1>FirstWordChanges.
        ASSUME Media, NEW d \in 0 .. 1, NEW a \in 0 .. Total - 1, NEW w \in Word,
               image' = [image EXCEPT ![d][a][1] = w]
        PROVE  \E x \in SectorData : image' = [image EXCEPT ![d][a] = x]
        <2> USE <1>FirstWordChanges
        <2> DEFINE x == [image[d][a] EXCEPT ![1] = w]
        <2>1. image \in [0 .. 1 -> [0 .. Total - 1 -> SectorData]]
            BY Zenon DEF Media
        <2>2. image[d][a] \in SectorData
            BY <2>1, Zenon
        <2>3. x \in SectorData
            BY <2>2, Zenon DEF SectorData
        <2>4. image' = [image EXCEPT ![d][a] = x]
            BY Zenon
        <2> QED
            BY <2>3, <2>4, Zenon
    <1> SUFFICES ASSUME IInv, Progress, WriteWord
                 PROVE  Progress' /\ ImageStep
        BY Zenon
    <1> DEFINE c == Selected
               d == drive_select
               b == buffer[d]
    <1>1. /\ at = "out" /\ sent' = sent + 1 /\ job' = job /\ at' = AfterWords
          /\ WriteSectorWord(<<"new", sent \div SectorWords, (sent % SectorWords) + 1>>)
        BY Zenon DEF WriteWord, Moved
    <1>2. Controllers /\ Media /\ c \in Controller /\ d \in 0 .. 1 /\ sent \in Nat /\ left \in Int
        BY SelectedIs, Zenon DEF IInv, TypeOK, Controllers, Progress, SectorsWritten
    <1>3. /\ job.command = "write" /\ left >= 1 /\ 2 * left = SectorBytes - c.buffer_index
          /\ job.on = "ide" /\ job.d = d /\ \E i \in 1 .. Len(Jobs) : job \in Jobs[i]
          /\ at \in IdePlaces
        BY <1>1, Zenon DEF IInv, TypeOK, KnownJob, Transfers, Agree, IdePlaces
    <1>4. SectorJob(job)
        BY <1>3, SectorJobIs, Zenon
    <1>5. c.drq /\ \E k \in 0 .. job.n - 1 : Writing(k)
        BY <1>1, <1>3, Zenon DEF Progress, SectorsWritten, IdeJob
    <1>6. PICK k \in 0 .. job.n - 1 : Writing(k)
        BY <1>5, Zenon
    <1> DEFINE m == sent - k * SectorWords
               w == <<"new", k, m + 1>>
               data == [b EXCEPT ![m + 1] = w]
               a == job.first + k
    <1>7. /\ Behind(job, c, k) /\ c.buffer_index = 2 * m
          /\ 0 <= c.buffer_index /\ c.buffer_index < SectorBytes
          /\ \A i \in 1 .. m : b[i] = <<"new", k, i>>
        BY <1>3, <1>6, ZenonT(30) DEF Writing
    <1>8. k \in Nat /\ k <= job.n - 1 /\ job.n \in Nat /\ a \in Nat
        BY <1>4, AtaAssumption DEF SectorJob
    <1>9. c.buffer_index \in Int
        BY <1>2, Zenon DEF Controller
    <1>10. /\ m \in Nat /\ m < SectorWords
           /\ sent \div SectorWords = k /\ sent % SectorWords = m
           /\ c.buffer_index \div 2 = m
           /\ c.buffer_index + 2 < SectorBytes <=> m + 1 < SectorWords
           /\ m + 1 = SectorWords => sent + 1 = (k + 1) * SectorWords
        BY <1>2, <1>7, <1>8, <1>9, WordPlace, Zenon
    <1>11. LogicalAddress(c) = a
        BY <1>7, Zenon DEF Behind, Positioned
    <1>12. b \in SectorData /\ device[d] = "disk"
        BY <1>2, <1>3, <1>4, Zenon DEF SectorJob, Media
    <1> HIDE DEF m, a, b, c
    <1>13. WriteSectorWord(w)
        BY <1>1, <1>10, Zenon
    <1>14. /\ c.current_command = "write" /\ buffer' = [buffer EXCEPT ![d] = data]
           /\ UNCHANGED drive_select
           /\ IF m + 1 < SectorWords
              THEN ctl' = [ctl EXCEPT ![d] = [c EXCEPT !.buffer_index = c.buffer_index + 2]]
                   /\ UNCHANGED image
              ELSE \/ /\ InBounds(c) /\ image' = [image EXCEPT ![d][a] = data]
                      /\ ctl' = [ctl EXCEPT ![d] = SectorWritten(c)]
                   \/ /\ \/ UNCHANGED image
                         \/ InBounds(c) /\ image' = [image EXCEPT ![d][a][1] = data[1]]
                      /\ ctl' = [ctl EXCEPT ![d] = command_aborted(c)]
        <2> HIDE DEF w
        <2> QED
            BY <1>10, <1>11, <1>13, Zenon DEF WriteSectorWord, SetSelected, b, c
    <1>15. /\ data \in SectorData
           /\ \A i \in 1 .. m + 1 : data[i] = <<"new", k, i>>
        <2>1. SectorWords \in Nat /\ m + 1 \in 1 .. SectorWords /\ m + 1 \in Int /\ k \in Int
            BY <1>8, <1>10, SectorWordsAre
        <2>2. w \in Word
            BY <2>1, Zenon DEF Word
        <2>3. b \in [1 .. SectorWords -> Word]
            BY <1>12, Zenon DEF SectorData
        <2>4. \A i \in 1 .. m + 1 : i \in 1 .. SectorWords /\ (i \in 1 .. m \/ i = m + 1)
            BY <1>10, <2>1
        <2> HIDE DEF w
        <2>5. data \in SectorData
            BY <2>1, <2>2, <2>3, Zenon DEF SectorData
        <2>6. ASSUME NEW i \in 1 .. m + 1
              PROVE  data[i] = <<"new", k, i>>
            <3>1. CASE i = m + 1
                BY <2>1, <2>3, <3>1, Zenon DEF w
            <3>2. CASE i # m + 1
                <4>1. i \in 1 .. m /\ i \in 1 .. SectorWords
                    BY <2>4, <3>2, Zenon
                <4>2. data[i] = b[i]
                    BY <2>3, <3>2, <4>1, Zenon
                <4> QED
                    BY <1>7, <4>1, <4>2, Zenon
            <3> QED
                BY <3>1, <3>2, Zenon
        <2> QED
            BY <2>5, <2>6, Zenon
    <1> HIDE DEF data, w
    <1>16. ASSUME NEW x, ctl' = [ctl EXCEPT ![d] = x]
           PROVE  /\ Selected' = x /\ ctl'[d] = x
                  /\ \A e \in 0 .. 1 : e # d => ctl'[e].current_command = ctl[e].current_command
        BY <1>2, <1>14, <1>16, Zenon DEF Controllers, Selected
    <1>17. ASSUME image' \in [0 .. 1 -> [0 .. Total - 1 -> SectorData]],
                  NEW x, ctl' = [ctl EXCEPT ![d] = x], x.current_command \in {"write", "none"},
                  at' = "out" => x.drq,
                  x.drq => \E n \in 0 .. job.n - 1 : Writing(n)',
                  ~x.drq /\ ~x.err => sent' = job.n * SectorWords
           PROVE  Progress'
        <2>1. Media'
            BY <1>2, <1>12, <1>14, <1>15, <1>16, <1>17, <1>MediaWritten, ZenonT(30)
        <2>2. ~IdeJob("read")' /\ ~DiscJob' /\ sent' \in Nat /\ at' # "idle"
            BY <1>1, <1>2, <1>3 DEF IdeJob, DiscJob, AfterWords
        <2>3. SectorsWritten'
            BY <1>1, <1>16, <1>17, <2>2, Zenon DEF SectorsWritten
        <2> QED
            BY <2>1, <2>2, <2>3, Zenon DEF Progress, SectorsRead, BlocksRead
    <1>18. image \in [0 .. 1 -> [0 .. Total - 1 -> SectorData]]
        BY <1>2, Zenon DEF Media
    <1>19. CASE m + 1 < SectorWords
        <2> DEFINE x == [c EXCEPT !.buffer_index = c.buffer_index + 2]
        <2>1. ctl' = [ctl EXCEPT ![d] = x] /\ UNCHANGED image
            BY <1>14, <1>19, Zenon
        <2>2. c.buffer_index + 2 \in Int
            BY <1>9
        <2>3. /\ x.buffer_index = c.buffer_index + 2 /\ x.drq /\ x.current_command = "write"
              /\ x.sector_count = c.sector_count /\ SameAddress(c, x)
            BY <1>2, <1>5, <1>14, ZenonT(30) DEF Controller, SameAddress, c
        <2> HIDE DEF x
        <2>4. Behind(job, x, k)
            BY <1>7, <2>3, SameBehind, Zenon
        <2>5. sent' - k * SectorWords = m + 1
            BY <1>1, <1>2, <1>8, SectorWordsAre, SMTT(30) DEF m
        <2>6. x.buffer_index = 2 * (m + 1) /\ 0 <= x.buffer_index /\ x.buffer_index < SectorBytes
            BY <1>7, <1>10, <1>19, <2>3
        <2>7. \A i \in 1 .. m + 1 : buffer'[d][i] = <<"new", k, i>>
            BY <1>2, <1>14, <1>15, ZenonT(30) DEF Media
        <2>8. Writing(k)'
            BY <1>1, <1>3, <1>16, <2>1, <2>4, <2>5, <2>6, <2>7, ZenonT(30) DEF Writing
        <2>9. Progress'
            BY <1>17, <1>18, <2>1, <2>3, <2>8, ZenonT(30)
        <2> QED
            BY <2>1, <2>9, Zenon DEF ImageStep
    <1>20. CASE ~(m + 1 < SectorWords)
        <2>1. m + 1 = SectorWords /\ sent' = (k + 1) * SectorWords
            BY <1>1, <1>10, <1>20, SectorWordsAre, SMTT(30)
        <2>2. at' # "out"
            <3>1. left = 1
                BY <1>2, <1>3, <1>7, <1>10, <2>1, SectorWordsAre, SMTT(30)
            <3> QED
                BY <1>1, <1>3, <3>1, SMTT(30) DEF AfterWords
        <2>3. InBounds(c) => a \in 0 .. Total - 1
            BY <1>11, Zenon DEF InBounds
        <2>4. data = [i \in 1 .. SectorWords |-> <<"new", k, i>>]
            BY <1>15, <2>1, ZenonT(30) DEF SectorData
        <2>5. CASE /\ InBounds(c) /\ image' = [image EXCEPT ![d][a] = data]
                   /\ ctl' = [ctl EXCEPT ![d] = SectorWritten(c)]
            <3> DEFINE x == SectorWritten(c)
            <3>1. /\ Advanced(job, x, k) /\ x.drq = (k + 1 < job.n) /\ ~x.err
                  /\ x.current_command = c.current_command
                BY <1>2, <1>4, <1>7, <2>3, <2>5, <1>SectorWrittenIs, ZenonT(30) DEF a, c
            <3> HIDE DEF x
            <3>2. ctl' = [ctl EXCEPT ![d] = x]
                BY <2>5, Zenon DEF x
            <3>3. /\ image' \in [0 .. 1 -> [0 .. Total - 1 -> SectorData]]
                  /\ image'[d][a] = data
                  /\ image' = [image EXCEPT ![d][a] = image'[d][a]]
                BY <1>2, <1>15, <2>3, <2>5, <1>SectorChanges, ZenonT(30)
            <3>4. x.drq => \E n \in 0 .. job.n - 1 : Writing(n)'
                <4> SUFFICES ASSUME k + 1 < job.n
                             PROVE  \E n \in 0 .. job.n - 1 : Writing(n)'
                    BY <3>1, ZenonT(30)
                <4>1. k + 1 \in 0 .. job.n - 1 /\ Behind(job, x, k + 1) /\ x.buffer_index = 0
                    BY <3>1, ZenonT(30) DEF Advanced
                <4>2. sent' - (k + 1) * SectorWords = 0 /\ 0 < SectorBytes
                    BY <1>8, <2>1, SectorWordsAre, AtaAssumption
                <4>3. Writing(k + 1)'
                    <5> DEFINE z == sent' - (k + 1) * SectorWords
                    <5>1. z = 0
                        BY <4>2, Zenon
                    <5>2. /\ Behind(job', Selected', k + 1)
                          /\ Selected'.buffer_index = 0
                        BY <1>1, <1>16, <3>2, <4>1, ZenonT(30)
                    <5> HIDE DEF z
                    <5>3. /\ Selected'.buffer_index = 2 * z
                          /\ 0 <= Selected'.buffer_index /\ Selected'.buffer_index < SectorBytes
                          /\ \A i \in 1 .. z : buffer'[job'.d][i] = <<"new", k + 1, i>>
                        BY <4>2, <5>1, <5>2
                    <5> QED
                        BY <5>2, <5>3, ZenonT(30) DEF Writing, z
                <4> QED
                    BY <4>1, <4>3, Zenon
            <3>5. ~x.drq => sent' = job.n * SectorWords
                <4> SUFFICES ASSUME ~(k + 1 < job.n)
                             PROVE  sent' = job.n * SectorWords
                    BY <3>1, ZenonT(30)
                <4>1. k + 1 = job.n
                    BY <1>8
                <4> QED
                    BY <2>1, <4>1, Zenon
            <3>6. Progress'
                BY <1>14, <1>17, <2>2, <3>1, <3>2, <3>3, <3>4, <3>5, ZenonT(30)
            <3>7. ImageStep
                BY <1>3, <1>10, <2>4, <3>3, ZenonT(30) DEF ImageStep, IdeJob, a
            <3> QED
                BY <3>6, <3>7, Zenon
        <2>6. CASE /\ \/ UNCHANGED image
                      \/ InBounds(c) /\ image' = [image EXCEPT ![d][a][1] = data[1]]
                   /\ ctl' = [ctl EXCEPT ![d] = command_aborted(c)]
            <3> DEFINE x == command_aborted(c)
            <3>1. ~x.drq /\ x.err /\ x.current_command = "none"
                BY <1>2, AbortedIs, Zenon DEF c
            <3> HIDE DEF x
            <3>2. ctl' = [ctl EXCEPT ![d] = x]
                BY <2>6, Zenon DEF x
            <3>3. \/ UNCHANGED image
                  \/ /\ image' \in [0 .. 1 -> [0 .. Total - 1 -> SectorData]]
                     /\ image' = [image EXCEPT ![d][a] = image'[d][a]]
                <4> SUFFICES ASSUME InBounds(c), image' = [image EXCEPT ![d][a][1] = data[1]]
                             PROVE  /\ image' \in [0 .. 1 -> [0 .. Total - 1 -> SectorData]]
                                    /\ image' = [image EXCEPT ![d][a] = image'[d][a]]
                    BY <2>6, Zenon
                <4>1. data[1] \in Word
                    BY <1>15, SectorWordsAre DEF SectorData
                <4>2. \E y \in SectorData : image' = [image EXCEPT ![d][a] = y]
                    BY <1>2, <2>3, <4>1, <1>FirstWordChanges, Zenon
                <4> QED
                    BY <1>2, <2>3, <4>2, <1>SectorChanges, ZenonT(30)
            <3>4. image' \in [0 .. 1 -> [0 .. Total - 1 -> SectorData]]
                BY <1>18, <3>3, Zenon
            <3>5. Progress'
                BY <1>17, <2>2, <3>1, <3>2, <3>4, ZenonT(30)
            <3>6. ImageStep
                <4>1. IdeJob("write") /\ ctl'[job.d].err /\ job.first + sent \div SectorWords = a
                    BY <1>3, <1>10, <1>16, <3>1, <3>2, ZenonT(30) DEF IdeJob, a
                <4> QED
                    BY <1>3, <3>3, <4>1, ZenonT(30) DEF ImageStep
            <3> QED
                BY <3>5, <3>6, Zenon
        <2> QED
            BY <1>14, <1>20, <2>5, <2>6, ZenonT(30)
    <1> QED
        BY <1>19, <1>20, Zenon

(***************************************************************************)
(* Packets.                                                                *)
(***************************************************************************)
LEMMA MinIs ==
    ASSUME NEW a \in Int, NEW b \in Int
    PROVE  Min({a, b}) = IF a <= b THEN a ELSE b
    BY MinLeft

(* What a packet that reads the disc leaves: nothing to read, or the first *)
(* burst, an even number of bytes.                                         *)
DiscAnswer(p, r) ==
    LET bytes == Min({p.n, Capacity - p.lba}) * BlockBytes
    IN  \/ ~r.drq /\ r.err
        \/ ~r.drq /\ ~r.err /\ bytes = 0
        \/ /\ r.drq /\ r.lazy /\ r.cylinder_no = r.drq_bytes /\ r.drq_bytes % 2 = 0
           /\ r.drq_bytes <= r.remaining /\ r.remaining = bytes /\ r.remaining % 2 = 0
           /\ r.drq_index = 0 /\ r.buffer_index = BlockBytes /\ r.next_lba = p.lba

LEMMA WritePacketProgress ==
    IInv /\ Progress /\ WritePacket => Progress'
    <1>EvenProduct.
        ASSUME NEW n \in Nat, NEW b \in Nat, b % 2 = 0
        PROVE  (n * b) % 2 = 0 /\ n * b \in Int
        <2> USE <1>EvenProduct
        <2> DEFINE h == b \div 2
        <2>1. h \in Nat /\ b = 2 * h
            OBVIOUS
        <2> HIDE DEF h
        <2>2. n * b = 2 * (n * h) /\ n * h \in Int
            BY <2>1
        <2> DEFINE k == n * h
        <2>3. k \in Int /\ n * b = 2 * k
            BY <2>2, Zenon
        <2> HIDE DEF k
        <2> QED
            BY <2>3
    <1>DiscAnswerIs.
        ASSUME NEW c \in Controller, NEW p, p.op = "read", p.n \in Nat, p.lba \in Nat,
               p.lba <= Capacity
        PROVE  DiscAnswer(p, AfterPacket(c, p))
        <2> USE <1>DiscAnswerIs
        <2> DEFINE n == Min({p.n, Capacity - p.lba})
                   bytes == n * BlockBytes
        <2>1. BlockBytes \in Nat /\ BlockBytes > 0 /\ BlockBytes % 2 = 0 /\ Capacity \in Nat
            BY AtaAssumption, Zenon
        <2>2. n \in Nat
            BY <2>1, MinIs
        <2> HIDE DEF n
        <2>3. bytes \in Int /\ bytes % 2 = 0
            BY <2>1, <2>2, <1>EvenProduct, ZenonT(30)
        <2>4. n # 0 => bytes > 0
            BY <2>1, <2>2, SMTT(30)
        <2>5. AfterPacket(c, p) \in {ReadDisc(c, p), atapi_cmd_error(c)}
            BY Zenon DEF AfterPacket
        <2>6. ~atapi_cmd_error(c).drq /\ atapi_cmd_error(c).err
            BY ZenonT(30) DEF atapi_cmd_error, Controller
        <2>7. CASE n = 0
            <3>1. ReadDisc(c, p) = atapi_cmd_nop(c)
                BY <2>7, Zenon DEF ReadDisc, n
            <3>2. ~atapi_cmd_nop(c).drq /\ ~atapi_cmd_nop(c).err
                BY Zenon DEF atapi_cmd_nop, Completed, Controller
            <3>3. bytes = 0
                BY <2>1, <2>7
            <3> HIDE DEF bytes
            <3> QED
                BY <2>5, <2>6, <3>1, <3>2, <3>3, ZenonT(30) DEF DiscAnswer, bytes, n
        <2>8. CASE n # 0
            <3> HIDE DEF bytes
            <3> DEFINE low == Min({c.cylinder_no, Base * Base - 2})
                       limit == BurstLimit(c, bytes)
                       total == Min({bytes, Wanted(bytes, limit)})
                       burst == Min({limit, total})
                       s == init_send_atapi_command(c, bytes, bytes, TRUE)
                       r == [s EXCEPT !.next_lba = p.lba]
            <3>1. c.cylinder_no \in Int /\ Base * Base - 2 \in Int
                BY AtaAssumption DEF Controller
            <3>2. low \in Int
                BY <3>1, MinInt, Zenon
            <3>3. limit = IF bytes > low THEN low - (low % 2) ELSE low
                BY Zenon DEF BurstLimit
            <3> HIDE DEF low
            <3>4. limit \in Int /\ (limit < bytes => limit % 2 = 0)
                <4> HIDE DEF limit
                <4>1. CASE bytes > low
                    <5>1. limit = low - (low % 2)
                        BY <3>3, <4>1, Zenon
                    <5> QED
                        BY <3>2, <5>1
                <4>2. CASE ~(bytes > low)
                    BY <2>3, <3>2, <3>3, <4>2, ZenonT(30)
                <4> QED
                    BY <4>1, <4>2, ZenonT(30)
            <3> HIDE DEF limit
            <3>5. total = bytes
                BY <2>3, <2>4, <2>8, MinIs, SMTT(30) DEF Wanted
            <3> HIDE DEF total
            <3>6. burst \in Int /\ burst % 2 = 0 /\ burst <= bytes
                <4>1. burst = IF limit <= bytes THEN limit ELSE bytes
                    BY <2>3, <3>4, <3>5, MinIs, ZenonT(30)
                <4> HIDE DEF burst
                <4> QED
                    BY <2>3, <3>4, <4>1
            <3>7. s = [c EXCEPT !.sector_count = 2, !.busy = FALSE, !.drq = TRUE, !.err = FALSE,
                                !.buffer_index = BlockBytes, !.cylinder_no = burst, !.drq_index = 0,
                                !.drq_bytes = burst, !.remaining = total, !.lazy = TRUE]
                <4> HIDE DEF s
                <4>1. s = [c EXCEPT !.sector_count = 2, !.busy = FALSE, !.drq = TRUE, !.err = FALSE,
                                !.buffer_index = IF TRUE THEN BlockBytes ELSE 0,
                                !.cylinder_no = burst, !.drq_index = 0,
                                !.drq_bytes = burst, !.remaining = total, !.lazy = TRUE]
                    BY Zenon DEF s, init_send_atapi_command, total, limit
                <4> QED
                    BY <4>1, Zenon
            <3> HIDE DEF burst, s
            <3>8. /\ r.drq /\ r.lazy /\ r.cylinder_no = burst /\ r.drq_bytes = burst
                  /\ r.remaining = total /\ r.drq_index = 0 /\ r.buffer_index = BlockBytes
                  /\ r.next_lba = p.lba
                BY <3>7, Zenon DEF Controller
            <3>9. ReadDisc(c, p) = r
                BY <2>8, Zenon DEF ReadDisc, n, bytes, s
            <3> HIDE DEF r
            <3>10. DiscAnswer(p, r)
                BY <2>3, <3>5, <3>6, <3>8, Zenon DEF DiscAnswer, bytes, n
            <3>11. DiscAnswer(p, atapi_cmd_error(c))
                BY <2>6, Zenon DEF DiscAnswer
            <3> QED
                BY <2>5, <3>9, <3>10, <3>11, ZenonT(30)
        <2> QED
            BY <2>7, <2>8, Zenon
    (* Whatever the packet, the drive stays with its command. *)
    <1>PacketStays.
        ASSUME NEW c \in Controller, NEW p,
               p.op \in {"inform", "capacity", "read"} => p.n \in Nat,
               p.op = "read" => p.lba \in Nat
        PROVE  AfterPacket(c, p).current_command = c.current_command
        <2> USE <1>PacketStays
        <2> DEFINE reply == init_send_atapi_command(c, ReplyBytes, p.n, FALSE)
                   Stays(r) == r \in Controller /\ r.current_command = c.current_command
        <2>1. ASSUME NEW r, Stays(r)
              PROVE  Stays(atapi_cmd_error(r)) /\ Stays(atapi_cmd_nop(r))
            BY <2>1, IntZeroOne, ZenonT(30)
               DEF atapi_cmd_error, atapi_cmd_nop, Completed, Controller
        <2>2. ASSUME p.op \in {"inform", "capacity"}
              PROVE  Stays(reply)
            <3>1. p.n \in Int /\ ReplyBytes \in Int /\ FALSE \in BOOLEAN
                BY <2>2, AtaAssumption
            <3> QED
                BY <3>1, ReplyIs, Zenon
        <2>3. ASSUME p.op = "read"
              PROVE  Stays(ReadDisc(c, p))
            <3> DEFINE n == Min({p.n, Capacity - p.lba})
                       r == init_send_atapi_command(c, n * BlockBytes, n * BlockBytes, TRUE)
            <3>1. p.n \in Int /\ p.lba \in Int /\ Capacity \in Int /\ BlockBytes \in Int
                BY <2>3, AtaAssumption
            <3>2. n \in Int
                BY <3>1, MinInt
            <3>3. n * BlockBytes \in Int
                <4> HIDE DEF n
                <4> QED
                    BY <3>1, <3>2
            <3>4. Stays(r)
                BY <3>3, ReplyIs, ZenonT(30)
            <3>5. ReadDisc(c, p) = IF n = 0 THEN atapi_cmd_nop(c) ELSE [r EXCEPT !.next_lba = p.lba]
                BY Zenon DEF ReadDisc
            <3>6. Stays([r EXCEPT !.next_lba = p.lba])
                <4> HIDE DEF r
                <4> QED
                    BY <3>1, <3>4, Zenon DEF Controller
            <3>7. Stays(atapi_cmd_nop(c))
                BY <2>1, Zenon
            <3> HIDE DEF n, r, Stays
            <3> QED
                BY <3>5, <3>6, <3>7, ZenonT(30)
        <2>4. \/ p.op \in {"inform", "capacity"} /\ AfterPacket(c, p) = reply
              \/ p.op \in {"inform", "capacity"} /\ AfterPacket(c, p) = atapi_cmd_error(reply)
              \/ p.op = "read" /\ AfterPacket(c, p) = ReadDisc(c, p)
              \/ AfterPacket(c, p) = atapi_cmd_nop(c)
              \/ AfterPacket(c, p) = atapi_cmd_error(c)
            BY Zenon DEF AfterPacket
        <2>5. Stays(c)
            BY Zenon
        <2> HIDE DEF reply, Stays
        <2>6. Stays(AfterPacket(c, p))
            BY <2>1, <2>2, <2>3, <2>4, <2>5, ZenonT(30)
        <2> QED
            BY <2>6, Zenon DEF Stays
    <1> SUFFICES ASSUME IInv, Progress, WritePacket
                 PROVE  Progress'
        BY Zenon
    <1> DEFINE s == Selected
               d == drive_select
               p == job.packet
               c == [s EXCEPT !.buffer_index = s.buffer_index + 2]
               reply == [i \in 1 .. (ReplyBytes + 1) \div 2 |-> <<"reply", 0, i>>]
    <1>1. /\ at = "packet" /\ WritePacketWord(p) /\ at' = AfterWords
          /\ UNCHANGED <<got, sent, bad, job>>
        BY Zenon DEF WritePacket, Moved
    <1>2. Controllers /\ Media /\ s \in Controller /\ d \in 0 .. 1 /\ sent \in Nat /\ left \in Int
        BY SelectedIs, Zenon DEF IInv, TypeOK, Controllers, Progress, SectorsWritten
    <1>3. /\ job.command = "packet" /\ left >= 1 /\ 2 * left = PacketBytes - s.buffer_index
          /\ job.on = "ide" /\ job.d = d /\ \E i \in 1 .. Len(Jobs) : job \in Jobs[i]
          /\ s.current_command = "packet"
        BY <1>1, Zenon DEF IInv, TypeOK, KnownJob, Transfers, Agree, IdePlaces
    <1>4. device[d] = "cd" /\ device[d] # "disk"
        BY <1>2, <1>3, ZenonT(30) DEF Media, Selected
    <1>5. s.buffer_index \in Int /\ s.buffer_index + 2 \in Int /\ PacketBytes \in Int
        BY <1>2, AtaAssumption DEF Controller
    <1>6. /\ c \in Controller /\ c.buffer_index = s.buffer_index + 2
          /\ c.current_command = "packet" /\ c.drq = s.drq /\ c.err = s.err
        <2> HIDE DEF s
        <2> QED
            BY <1>2, <1>3, <1>5, Zenon DEF Controller
    <1>7. /\ UNCHANGED <<drive_select, image>>
          /\ IF c.buffer_index < PacketBytes
             THEN ctl' = [ctl EXCEPT ![d] = c] /\ UNCHANGED buffer
             ELSE /\ ctl' = [ctl EXCEPT ![d] = AfterPacket(c, p)]
                  /\ buffer' = [buffer EXCEPT ![d] = reply]
        BY <1>1, Zenon DEF WritePacketWord, SetSelected
    <1> HIDE DEF c
    <1>8. ASSUME NEW x, ctl' = [ctl EXCEPT ![d] = x]
          PROVE  /\ Selected' = x /\ ctl'[d] = x
                 /\ \A e \in 0 .. 1 : e # d => ctl'[e].current_command = ctl[e].current_command
        BY <1>2, <1>7, <1>8, Zenon DEF Controllers, Selected
    <1>9. ASSUME Media', BlocksRead', at' # "idle"
          PROVE  Progress'
        <2>1. ~IdeJob("read")' /\ ~IdeJob("write")' /\ sent' \in Nat
            BY <1>1, <1>2, <1>3, ZenonT(30) DEF IdeJob
        <2> QED
            BY <1>9, <2>1, Zenon DEF Progress, SectorsRead, SectorsWritten
    <1>10. DiscJob => BlocksJob(job) /\ got = <<>> /\ (s.drq \/ s.err) /\ p.op = "read"
        <2>1. at \in IdePlaces
            BY <1>1, Zenon DEF IdePlaces
        <2>2. DiscJob => got = <<>> /\ (s.drq \/ s.err) /\ p.op = "read"
            BY <1>1, <2>1, Zenon DEF Progress, BlocksRead, DiscJob
        <2>3. DiscJob => BlocksJob(job)
            BY <1>3, BlocksJobIs, Zenon DEF DiscJob
        <2> QED
            BY <2>2, <2>3, Zenon
    <1>11. DiscJob' = DiscJob /\ (DiscJob => InBlocks' /\ Len(got') = 0 /\ got' = <<>>)
        <2>1. DiscJob' = DiscJob
            BY <1>1, Zenon DEF DiscJob, IdeJob
        <2>2. DiscJob => DOMAIN got' = {} /\ Len(got') = 0 /\ got' = <<>>
            BY <1>1, <1>10, EmptySeq
        <2> QED
            BY <2>1, <2>2, Zenon DEF InBlocks
    <1> HIDE DEF s
    <1>12. CASE c.buffer_index < PacketBytes
        <2>1. ctl' = [ctl EXCEPT ![d] = c] /\ UNCHANGED buffer
            BY <1>7, <1>12, Zenon
        <2>2. at' = "packet"
            <3>1. left > 1
                BY <1>2, <1>3, <1>5, <1>6, <1>12, SMTT(30)
            <3> QED
                BY <1>1, <3>1, ZenonT(30) DEF AfterWords
        <2>3. Media'
            <3>1. DOMAIN buffer' = 0 .. 1 /\ buffer' = buffer
                BY <1>2, <2>1, Zenon DEF Media
            <3>2. HoldsBlocks(buffer'[d])
                BY <1>2, <1>4, <3>1, Zenon DEF Media
            <3>3. ctl'[d].current_command \notin {"read", "write"}
                BY <1>6, <1>8, <2>1, Zenon
            <3> QED
                BY <1>2, <1>4, <1>7, <1>8, <2>1, <3>1, <3>2, <3>3, MediaStep, ZenonT(30)
        <2>4. BlocksRead'
            BY <1>6, <1>8, <1>10, <1>11, <2>1, <2>2, ZenonT(30) DEF BlocksRead
        <2> QED
            BY <1>9, <2>2, <2>3, <2>4, ZenonT(30)
    <1>13. CASE ~(c.buffer_index < PacketBytes)
        <2> DEFINE r == AfterPacket(c, p)
        <2>1. ctl' = [ctl EXCEPT ![d] = r] /\ buffer' = [buffer EXCEPT ![d] = reply]
            BY <1>7, <1>13, ZenonT(30)
        <2>2. at' = "wait"
            <3>1. left = 1
                BY <1>2, <1>3, <1>5, <1>6, <1>13, SMTT(30)
            <3> QED
                BY <1>1, <1>3, <3>1, SMTT(30) DEF AfterWords
        <2>3. HoldsBlocks(reply)
            <3>1. 1 \in 1 .. (ReplyBytes + 1) \div 2
                BY AtaAssumption
            <3>2. reply[1][1] = "reply"
                BY <3>1, Zenon
            <3> HIDE DEF reply
            <3> QED
                BY <3>2, ZenonT(30) DEF HoldsBlocks
        <2>4. r.current_command \notin {"read", "write"}
            <3>1. /\ p.op \in {"inform", "capacity", "read"} => p.n \in Nat
                  /\ p.op = "read" => p.lba \in Nat
                BY <1>3, JobsAssumption, ZenonT(30)
            <3>2. r.current_command = "packet"
                BY <1>6, <3>1, <1>PacketStays, ZenonT(30)
            <3> QED
                BY <3>2, Zenon
        <2> HIDE DEF r, reply
        <2>5. Media'
            <3>1. DOMAIN buffer' = 0 .. 1 /\ buffer'[d] = reply /\ \A e \in 0 .. 1 : e # d => buffer'[e] = buffer[e]
                BY <1>2, <2>1, Zenon DEF Media
            <3> QED
                BY <1>2, <1>4, <1>7, <1>8, <2>1, <2>3, <2>4, <3>1, MediaStep, ZenonT(30)
        <2>6. DiscJob => DiscAnswer(p, r)
            BY <1>6, <1>10, <1>DiscAnswerIs, Zenon DEF BlocksJob, r
        <2>7. Selected' = r /\ job' = job
            BY <1>1, <1>8, <2>1, ZenonT(30)
        <2>8. BlocksRead'
            <3> SUFFICES ASSUME DiscJob
                         PROVE  BlocksRead'
                BY <1>11, Zenon DEF BlocksRead
            <3> DEFINE bytes == Min({p.n, Capacity - p.lba}) * BlockBytes
            <3>1. DiscBytes' = bytes
                BY <2>7, Zenon DEF DiscBytes
            <3>2. \/ ~r.drq /\ r.err
                  \/ ~r.drq /\ ~r.err /\ bytes = 0
                  \/ /\ r.drq /\ r.lazy /\ r.cylinder_no = r.drq_bytes /\ r.drq_bytes % 2 = 0
                     /\ r.drq_bytes <= r.remaining /\ r.remaining = bytes /\ r.remaining % 2 = 0
                     /\ r.drq_index = 0 /\ r.buffer_index = BlockBytes /\ r.next_lba = p.lba
                BY <2>6, ZenonT(30) DEF DiscAnswer
            <3>3. bytes \in Int /\ BlockBytes \in Nat /\ BlockBytes > 0 /\ BlockBytes % 2 = 0
                  /\ p.lba \in Nat
                <4>1. p.n \in Int /\ p.lba \in Nat /\ Capacity \in Nat /\ BlockBytes \in Nat
                    BY <1>10, AtaAssumption, SMTT(30) DEF BlocksJob
                <4>2. Min({p.n, Capacity - p.lba}) \in Int
                    BY <4>1, MinInt
                <4> QED
                    BY <4>1, <4>2, AtaAssumption, SMTT(30)
            <3> HIDE DEF bytes
            <3>4. r.drq => Streaming'
                <4> SUFFICES ASSUME r.drq
                             PROVE  Streaming'
                    BY Zenon
                <4>1. (p.lba - p.lba) * BlockBytes = 0
                    BY <3>3
                <4>2. 2 * Len(got') = 0
                    BY <1>11, SMTT(30)
                <4>3. /\ r.drq_index % 2 = 0 /\ r.buffer_index % 2 = 0
                      /\ 2 * Len(got') = bytes - r.remaining + r.drq_index
                      /\ 0 <= r.buffer_index /\ r.buffer_index <= BlockBytes
                      /\ 2 * Len(got') = (r.next_lba - p.lba) * BlockBytes - BlockBytes + r.buffer_index
                      /\ ~(r.buffer_index < BlockBytes)
                    <5> DEFINE z == (r.next_lba - p.lba) * BlockBytes
                    <5>1. r.drq_index = 0 /\ r.buffer_index = BlockBytes /\ r.next_lba = p.lba
                          /\ r.remaining = bytes
                        BY <3>2, Zenon
                    <5>2. z = 0
                        BY <4>1, <5>1, ZenonT(30)
                    <5> HIDE DEF z
                    <5>3. 2 * Len(got') = z - BlockBytes + r.buffer_index
                        BY <3>3, <4>2, <5>1, <5>2, SMTT(30)
                    <5>4. 2 * Len(got') = bytes - r.remaining + r.drq_index
                        BY <3>3, <4>2, <5>1, SMTT(30)
                    <5> QED
                        BY <3>3, <5>1, <5>3, <5>4, SMTT(30) DEF z
                <4> QED
                    BY <2>7, <3>1, <3>2, <4>3, Zenon DEF Streaming
            <3>5. ~r.drq /\ ~r.err => 2 * Len(got') = DiscBytes'
                BY <1>11, <3>1, <3>2, SMTT(30)
            <3> QED
                BY <1>11, <2>2, <2>7, <3>4, <3>5, ZenonT(30) DEF BlocksRead
        <2> QED
            BY <1>9, <2>2, <2>5, <2>8, ZenonT(30)
    <1> QED
        BY <1>12, <1>13, Zenon

(***************************************************************************)
(* Words read.                                                             *)
(***************************************************************************)
(* What the drive is after a word of a packet command's answer. *)
WordTaken(c, loads, x) ==
    LET rest == c.remaining - c.drq_bytes
    IN  /\ x \in Controller /\ x.current_command = c.current_command /\ x.lazy = c.lazy
        /\ x.next_lba = IF loads THEN c.next_lba + 1 ELSE c.next_lba
        /\ x.buffer_index = (IF loads THEN 0 ELSE c.buffer_index) + 2
        /\ IF c.drq_index + 2 < c.drq_bytes
           THEN /\ x.drq /\ x.drq_index = c.drq_index + 2 /\ x.drq_bytes = c.drq_bytes
                /\ x.remaining = c.remaining /\ x.cylinder_no = c.cylinder_no
           ELSE IF rest > 0
           THEN /\ x.drq /\ x.drq_index = 0 /\ x.remaining = rest
                /\ x.drq_bytes = Min({rest, c.cylinder_no}) /\ x.cylinder_no = x.drq_bytes
           ELSE ~x.drq /\ ~x.err

LEMMA WordTakenIs ==
    ASSUME Controllers, ReadPacketWord
    PROVE  \E x : SetSelected(x) /\ WordTaken(Selected, Loads, x)
    <1> DEFINE c == Selected
               loaded == IF Loads THEN [c EXCEPT !.buffer_index = 0, !.next_lba = c.next_lba + 1] ELSE c
               moved == [loaded EXCEPT !.buffer_index = loaded.buffer_index + 2,
                                       !.drq_index = loaded.drq_index + 2]
               rest == c.remaining - c.drq_bytes
               burst == Min({rest, c.cylinder_no})
               more == [moved EXCEPT !.drq_index = 0, !.remaining = rest, !.sector_count = 2,
                                     !.cylinder_no = burst, !.drq_bytes = burst]
               done == Completed(moved)
               over == [done EXCEPT !.drq_index = 0, !.remaining = rest, !.sector_count = 3]
               Same(r) == /\ r \in Controller /\ r.current_command = c.current_command
                          /\ r.lazy = c.lazy
    <1>1. /\ c \in Controller /\ c.drq
          /\ IF moved.drq_index < c.drq_bytes
             THEN SetSelected(moved)
             ELSE SetSelected(IF rest > 0 THEN more ELSE over)
        BY SelectedIs, Zenon DEF ReadPacketWord
    <1>2. /\ c.next_lba + 1 \in Int /\ c.remaining \in Int /\ c.drq_bytes \in Int
          /\ c.cylinder_no \in Int /\ c.drq_index \in Int
        BY <1>1 DEF Controller
    <1>3. rest \in Int /\ burst \in Int
        BY <1>2, MinInt
    <1> HIDE DEF c
    <1> DEFINE first == [c EXCEPT !.buffer_index = 0, !.next_lba = c.next_lba + 1]
    <1>4. /\ Same(first) /\ first.buffer_index = 0 /\ first.next_lba = c.next_lba + 1
          /\ first.drq_index = c.drq_index /\ first.drq_bytes = c.drq_bytes
          /\ first.remaining = c.remaining /\ first.cylinder_no = c.cylinder_no
          /\ first.drq
        BY <1>1, <1>2, IntZeroOne, ZenonT(30) DEF Controller
    <1> HIDE DEF first
    <1>5. /\ Same(loaded) /\ loaded.buffer_index = (IF Loads THEN 0 ELSE c.buffer_index)
          /\ loaded.next_lba = (IF Loads THEN c.next_lba + 1 ELSE c.next_lba)
          /\ loaded.drq_index = c.drq_index /\ loaded.drq_bytes = c.drq_bytes
          /\ loaded.remaining = c.remaining /\ loaded.cylinder_no = c.cylinder_no
          /\ loaded.drq
        <2>1. loaded = IF Loads THEN first ELSE c
            BY Zenon DEF first
        <2> HIDE DEF loaded
        <2>2. CASE Loads
            BY <1>4, <2>1, <2>2, Zenon
        <2>3. CASE ~Loads
            BY <1>1, <2>1, <2>3, ZenonT(30)
        <2> QED
            BY <2>2, <2>3, Zenon
    <1> HIDE DEF loaded
    <1>6. loaded.buffer_index + 2 \in Int /\ loaded.drq_index + 2 \in Int
        BY <1>5 DEF Controller
    <1>7. /\ Same(moved) /\ moved.buffer_index = loaded.buffer_index + 2
          /\ moved.drq_index = loaded.drq_index + 2
          /\ moved.next_lba = loaded.next_lba /\ moved.drq_bytes = loaded.drq_bytes
          /\ moved.remaining = loaded.remaining /\ moved.cylinder_no = loaded.cylinder_no
          /\ moved.drq
        BY <1>5, <1>6, Zenon DEF Controller
    <1> HIDE DEF moved, rest, burst
    <1>8. /\ Same(more) /\ more.buffer_index = moved.buffer_index
          /\ more.drq_index = 0 /\ more.next_lba = moved.next_lba /\ more.drq_bytes = burst
          /\ more.remaining = rest /\ more.cylinder_no = burst /\ more.drq
        BY <1>3, <1>7, IntZeroOne, Zenon DEF Controller
    <1>9. /\ Same(done) /\ done.buffer_index = moved.buffer_index /\ done.next_lba = moved.next_lba
          /\ ~done.drq /\ ~done.err
        BY <1>7, Zenon DEF Controller, Completed
    <1> HIDE DEF done, more
    <1>10. /\ Same(over) /\ over.buffer_index = done.buffer_index /\ over.next_lba = done.next_lba
           /\ ~over.drq /\ ~over.err
        BY <1>3, <1>9, IntZeroOne, ZenonT(30) DEF Controller
    <1> HIDE DEF over
    <1>11. moved.drq_index = c.drq_index + 2
        BY <1>5, <1>7, Zenon
    <1>12. CASE c.drq_index + 2 < c.drq_bytes
        <2>1. SetSelected(moved)
            BY <1>1, <1>11, <1>12, Zenon
        <2>2. WordTaken(c, Loads, moved)
            BY <1>5, <1>7, <1>12, Zenon DEF WordTaken
        <2> QED
            BY <2>1, <2>2, Zenon DEF c
    <1>13. CASE ~(c.drq_index + 2 < c.drq_bytes) /\ rest > 0
        <2>1. SetSelected(more)
            BY <1>1, <1>11, <1>13, Zenon
        <2>2. WordTaken(c, Loads, more)
            BY <1>5, <1>7, <1>8, <1>13, Zenon DEF WordTaken, rest, burst
        <2> QED
            BY <2>1, <2>2, Zenon DEF c
    <1>14. CASE ~(c.drq_index + 2 < c.drq_bytes) /\ ~(rest > 0)
        <2>1. SetSelected(over)
            BY <1>1, <1>11, <1>14, Zenon
        <2>2. WordTaken(c, Loads, over)
            BY <1>5, <1>7, <1>9, <1>10, <1>14, Zenon DEF WordTaken, rest
        <2> QED
            BY <2>1, <2>2, Zenon DEF c
    <1> QED
        BY <1>12, <1>13, <1>14, Zenon

LEMMA BlockWordsAre == BlockWords \in Nat /\ BlockWords >= 1 /\ 2 * BlockWords = BlockBytes
    BY AtaAssumption, Halves, Zenon DEF BlockWords

LEMMA BlockOfIs ==
    ASSUME NEW s
    PROVE  /\ HoldsBlocks(BlockOf(s))
           /\ \A i \in 1 .. BlockWords : BlockOf(s)[i] = <<"cd", s, i>>
    <1> DEFINE b == BlockOf(s)
    <1>1. b = [i \in 1 .. BlockWords |-> <<"cd", s, i>>]
        BY Zenon DEF BlockOf, BlockWords
    <1>2. 1 \in 1 .. BlockWords
        BY BlockWordsAre
    <1>3. b[1][2] = s
        BY <1>1, <1>2
    <1>4. b = BlockOf(b[1][2])
        BY <1>3, Zenon
    <1> HIDE DEF b
    <1>5. HoldsBlocks(b)
        BY <1>4, Zenon DEF HoldsBlocks
    <1> QED
        BY <1>1, <1>5, Zenon DEF b

LEMMA Appended ==
    ASSUME got \in Seq(Words), NEW w, got' = Append(got, w)
    PROVE  /\ Len(got) \in Nat /\ Len(got') = Len(got) + 1
           /\ DOMAIN got = 1 .. Len(got) /\ DOMAIN got' = 1 .. Len(got) + 1
           /\ \A i \in 1 .. Len(got) : got'[i] = got[i]
           /\ got'[Len(got) + 1] = w
    <1> DEFINE S == Words \cup {w}
    <1>1. got \in Seq(S) /\ w \in S
        BY SeqMonotonic, Zenon
    <1>2. /\ Len(got) \in Nat /\ Append(got, w) \in Seq(S) /\ Len(Append(got, w)) = Len(got) + 1
          /\ \A i \in 1 .. Len(got) : Append(got, w)[i] = got[i]
          /\ Append(got, w)[Len(got) + 1] = w
        BY <1>1, AppendProperties, LenProperties
    <1>3. DOMAIN got = 1 .. Len(got) /\ DOMAIN got' = 1 .. Len(got')
        BY <1>1, <1>2, LenProperties, Zenon
    <1> QED
        BY <1>2, <1>3, Zenon

(* The accesses to the data register leave the media in order. *)
LEMMA ReadMedia ==
    ASSUME Controllers, Media, ReadSectorWord \/ ReadIdentityWord \/ ReadPacketWord
    PROVE  Media'
    <1> DEFINE c == Selected
               d == drive_select
    <1>1. /\ d \in 0 .. 1 /\ c \in Controller /\ UNCHANGED image /\ UNCHANGED drive_select
          /\ c = ctl[d] /\ DOMAIN buffer = 0 .. 1
        BY SelectedIs, Zenon
           DEF Controllers, Selected, Media, ReadSectorWord, ReadIdentityWord, ReadPacketWord
    <1> HIDE DEF c
    <1>2. ASSUME NEW x, SetSelected(x), x.current_command \in {c.current_command, "none"},
                 \/ UNCHANGED buffer
                 \/ \E data : /\ buffer' = [buffer EXCEPT ![d] = data]
                              /\ device[d] = "disk" => data \in SectorData
                              /\ device[d] = "cd" => HoldsBlocks(data)
          PROVE  Media'
        <2>1. /\ ctl'[d] = x
              /\ \A e \in 0 .. 1 : e # d => ctl'[e].current_command = ctl[e].current_command
            BY <1>1, <1>2, Zenon DEF SetSelected, Controllers
        <2>2. /\ x.current_command = "packet" => device[d] = "cd"
              /\ x.current_command \in {"read", "write"} => device[d] = "disk"
            BY <1>1, <1>2, Zenon DEF Media
        <2>3. CASE UNCHANGED buffer
            BY <1>1, <2>1, <2>2, <2>3, MediaStep, ZenonT(30) DEF Media
        <2>4. CASE \E data : /\ buffer' = [buffer EXCEPT ![d] = data]
                             /\ device[d] = "disk" => data \in SectorData
                             /\ device[d] = "cd" => HoldsBlocks(data)
            <3>1. PICK data : /\ buffer' = [buffer EXCEPT ![d] = data]
                              /\ device[d] = "disk" => data \in SectorData
                              /\ device[d] = "cd" => HoldsBlocks(data)
                BY <2>4, Zenon
            <3>2. /\ DOMAIN buffer' = 0 .. 1 /\ buffer'[d] = data
                  /\ \A e \in 0 .. 1 : e # d => buffer'[e] = buffer[e]
                BY <1>1, <3>1, Zenon
            <3> QED
                BY <1>1, <2>1, <2>2, <3>1, <3>2, MediaStep, ZenonT(30)
        <2> QED
            BY <1>2, <2>3, <2>4, Zenon
    <1>3. CASE ReadIdentityWord
        <2> DEFINE more == c.buffer_index + 2 < SectorBytes
                   x == [c EXCEPT !.buffer_index = c.buffer_index + 2, !.drq = more, !.err = FALSE]
        <2>1. SetSelected(x) /\ UNCHANGED buffer
            BY <1>3, Zenon DEF ReadIdentityWord, c
        <2>2. x.current_command = c.current_command
            BY <1>1, Zenon DEF Controller
        <2> HIDE DEF x
        <2> QED
            BY <1>2, <2>1, <2>2, Zenon
    <1>4. CASE ReadSectorWord
        <2> DEFINE m == [c EXCEPT !.buffer_index = 0, !.busy = FALSE, !.err = FALSE]
                   n == increment_address(m)
                   next == [c EXCEPT !.buffer_index = c.buffer_index + 2]
                   last == [n EXCEPT !.drq = FALSE]
        <2>1. m \in Controller /\ m.current_command = c.current_command
            BY <1>1, IntZeroOne, ZenonT(30) DEF Controller
        <2>2. c.current_command = "read" /\ device[d] = "disk" /\ device[d] # "cd"
            BY <1>1, <1>4, Zenon DEF ReadSectorWord, Media, c
        <2>3. \/ SetSelected(next) /\ UNCHANGED buffer
              \/ SetSelected(last) /\ UNCHANGED buffer
              \/ /\ SetSelected(n) /\ InBounds(n)
                 /\ buffer' = [buffer EXCEPT ![d] = image[d][LogicalAddress(n)]]
              \/ SetSelected(command_aborted(n)) /\ UNCHANGED buffer
            BY <1>4, Zenon DEF ReadSectorWord, c
        <2>4. next.current_command = c.current_command
            BY <1>1, Zenon DEF Controller
        <2> HIDE DEF m, next
        <2>5. n \in Controller /\ n.current_command = c.current_command
            BY <2>1, IncrementIs, Zenon
        <2> HIDE DEF n
        <2>6. last.current_command = c.current_command
            BY <2>5, Zenon DEF Controller
        <2>7. command_aborted(n).current_command = "none"
            BY <2>5, AbortedIs, Zenon
        <2> HIDE DEF last
        <2>8. InBounds(n) => image[d][LogicalAddress(n)] \in SectorData
            BY <1>1, Zenon DEF Media, InBounds
        <2> QED
            BY <1>2, <2>2, <2>3, <2>4, <2>5, <2>6, <2>7, <2>8, ZenonT(30)
    <1>5. CASE ReadPacketWord
        <2>1. /\ c.current_command = "packet" /\ device[d] = "cd" /\ device[d] # "disk"
              /\ UNCHANGED buffer \/ buffer' = [buffer EXCEPT ![d] = BlockOf(c.next_lba)]
            BY <1>1, <1>5, Zenon DEF ReadPacketWord, LoadBlock, Media, c
        <2>2. PICK x : SetSelected(x) /\ x.current_command = c.current_command
            BY <1>5, WordTakenIs, Zenon DEF WordTaken, c
        <2>3. HoldsBlocks(BlockOf(c.next_lba))
            BY BlockOfIs, Zenon
        <2> QED
            BY <1>2, <2>1, <2>2, <2>3, ZenonT(30)
    <1> QED
        BY <1>3, <1>4, <1>5, Zenon

(* A word of a sector. *)
LEMMA ReadSectorProgress ==
    ASSUME IInv, Progress, ReadWord, job.command = "read"
    PROVE  SectorsRead'
    <1> DEFINE c == Selected
               d == drive_select
               b == buffer[d]
    <1>1. /\ at = "in" /\ got' = Append(got, DataWord) /\ job' = job
          /\ ReadSectorWord \/ ReadIdentityWord \/ ReadPacketWord
        BY Zenon DEF ReadWord, Moved
    <1>2. Controllers /\ Media /\ c \in Controller /\ d \in 0 .. 1 /\ got \in Seq(Words)
        BY SelectedIs, Zenon DEF IInv, TypeOK, Controllers, Progress
    <1>3. /\ job.on = "ide" /\ job.d = d /\ \E i \in 1 .. Len(Jobs) : job \in Jobs[i]
          /\ c.current_command = "read" /\ at \in IdePlaces
        <2>1. at \in IdePlaces
            BY <1>1, Zenon DEF IdePlaces
        <2>2. KnownJob /\ Agree
            BY Zenon DEF IInv, TypeOK, Transfers
        <2> QED
            BY <1>1, <2>1, <2>2, ZenonT(30) DEF KnownJob, Agree
    <1>4. SectorJob(job)
        BY <1>3, SectorJobIs, Zenon
    <1>5. ReadSectorWord /\ c.drq
        BY <1>1, <1>3, ZenonT(30) DEF ReadSectorWord, ReadIdentityWord, ReadPacketWord
    <1>6. InSectors /\ \E k \in 0 .. job.n - 1 : Reading(k)
        BY <1>3, <1>5, ZenonT(30) DEF Progress, SectorsRead, IdeJob
    <1>7. PICK k \in 0 .. job.n - 1 : Reading(k)
        BY <1>6, Zenon
    <1> DEFINE l == Len(got)
               m == l - k * SectorWords
               a == job.first + k
    <1>8. /\ Behind(job, c, k) /\ a \in 0 .. Total - 1 /\ b = image[d][a]
          /\ c.buffer_index = 2 * m /\ 0 <= c.buffer_index /\ c.buffer_index < SectorBytes
        BY <1>3, <1>7, ZenonT(30) DEF Reading
    <1>9. k \in Nat /\ k <= job.n - 1 /\ job.n \in Nat /\ job.first \in Nat
        <2>1. job.n \in 1 .. Base /\ Base \in Nat /\ job.first \in Nat
            BY <1>4, AtaAssumption, Zenon DEF SectorJob
        <2> QED
            BY <2>1
    <1>10. c.buffer_index \in Int
        BY <1>2, Zenon DEF Controller
    <1>11. /\ l \in Nat /\ Len(got') = l + 1
           /\ DOMAIN got = 1 .. l /\ DOMAIN got' = 1 .. l + 1
           /\ \A i \in 1 .. l : got'[i] = got[i]
           /\ got'[l + 1] = DataWord
        BY <1>1, <1>2, Appended, ZenonT(30)
    <1> HIDE DEF l
    <1>12. /\ m \in Nat /\ m < SectorWords
           /\ l \div SectorWords = k /\ l % SectorWords = m
           /\ c.buffer_index \div 2 = m
           /\ c.buffer_index + 2 < SectorBytes <=> m + 1 < SectorWords
           /\ m + 1 = SectorWords => l + 1 = (k + 1) * SectorWords
        BY <1>8, <1>9, <1>10, <1>11, WordPlace, ZenonT(30)
    <1>13. UNCHANGED <<drive_select, image>>
        BY <1>5, Zenon DEF ReadSectorWord
    <1>14. InSectors'
        <2>1. DataWord = b[m + 1]
            <3>1. ~Loads
                BY <1>3, Zenon DEF Loads
            <3> QED
                BY <1>12, <3>1, Zenon DEF DataWord
        <2> DEFINE word(i) == image[d][job.first + (i - 1) \div SectorWords][((i - 1) % SectorWords) + 1]
        <2>2. \A i \in 1 .. l : got[i] = word(i)
            BY <1>3, <1>6, <1>11, ZenonT(30) DEF InSectors
        <2>3. got'[l + 1] = word(l + 1)
            <3>1. (l + 1) - 1 = l
                BY <1>11, SMTT(30)
            <3>2. word(l + 1) = image[d][job.first + k][m + 1]
                BY <1>12, <3>1, ZenonT(30)
            <3> QED
                BY <1>8, <1>11, <2>1, <3>2, ZenonT(30)
        <2>4. \A i \in 1 .. l + 1 : i \in 1 .. l \/ i = l + 1
            BY <1>11, SMTT(30)
        <2> HIDE DEF word
        <2>5. \A i \in DOMAIN got' : got'[i] = word(i)
            BY <1>11, <2>2, <2>3, <2>4, ZenonT(30)
        <2> QED
            BY <1>1, <1>3, <1>13, <2>5, ZenonT(30) DEF InSectors, word
    <1>15. ASSUME NEW x, ctl' = [ctl EXCEPT ![d] = x],
                  x.drq => \E n \in 0 .. job.n - 1 : Reading(n)',
                  ~x.drq /\ ~x.err => Len(got') = job.n * SectorWords
           PROVE  SectorsRead'
        <2>1. Selected' = x
            BY <1>2, <1>13, <1>15, ZenonT(30) DEF Controllers, Selected
        <2> QED
            BY <1>1, <1>14, <1>15, <2>1, ZenonT(30) DEF SectorsRead
    <1> DEFINE z == [c EXCEPT !.buffer_index = 0, !.busy = FALSE, !.err = FALSE]
               n == increment_address(z)
    <1>16. IF m + 1 < SectorWords
           THEN ctl' = [ctl EXCEPT ![d] = [c EXCEPT !.buffer_index = c.buffer_index + 2]]
                /\ UNCHANGED buffer
           ELSE IF n.sector_count = 0
           THEN ctl' = [ctl EXCEPT ![d] = [n EXCEPT !.drq = FALSE]]
           ELSE \/ /\ InBounds(n) /\ buffer' = [buffer EXCEPT ![d] = image[d][LogicalAddress(n)]]
                   /\ ctl' = [ctl EXCEPT ![d] = n]
                \/ ctl' = [ctl EXCEPT ![d] = command_aborted(n)]
        BY <1>5, <1>12, Zenon DEF ReadSectorWord, SetSelected
    <1> HIDE DEF c, m, b, a
    <1>17. /\ z \in Controller /\ z.buffer_index = 0 /\ z.sector_count = c.sector_count
           /\ SameAddress(c, z) /\ z.drq
        BY <1>2, <1>5, IntZeroOne, ZenonT(30) DEF Controller, SameAddress, c
    <1> HIDE DEF z
    <1>18. Advanced(job, n, k) /\ n.drq
        <2>1. Behind(job, z, k)
            BY <1>8, <1>17, SameBehind, Zenon
        <2>2. Advanced(job, n, k)
            BY <1>4, <1>8, <1>17, <2>1, AdvancedIs, ZenonT(30) DEF a
        <2>3. n.drq = z.drq
            BY <1>17, IncrementIs, Zenon
        <2> QED
            BY <1>17, <2>2, <2>3, Zenon
    <1> HIDE DEF n
    <1>19. n \in Controller /\ n.sector_count = job.n - (k + 1) /\ n.buffer_index = 0
        BY <1>18, Zenon DEF Advanced
    <1>20. CASE m + 1 < SectorWords
        <2> DEFINE x == [c EXCEPT !.buffer_index = c.buffer_index + 2]
        <2>1. ctl' = [ctl EXCEPT ![d] = x] /\ UNCHANGED buffer
            BY <1>16, <1>20, Zenon
        <2>2. /\ x.buffer_index = c.buffer_index + 2 /\ x.drq
              /\ x.sector_count = c.sector_count /\ SameAddress(c, x)
            BY <1>2, <1>5, Zenon DEF Controller, SameAddress, c
        <2> HIDE DEF x
        <2>3. Behind(job, x, k)
            BY <1>8, <2>2, SameBehind, ZenonT(30)
        <2>4. Len(got') - k * SectorWords = m + 1
            BY <1>9, <1>11, SectorWordsAre, SMTT(30) DEF m
        <2>5. x.buffer_index = 2 * (m + 1) /\ 0 <= x.buffer_index /\ x.buffer_index < SectorBytes
            BY <1>8, <1>12, <1>20, <2>2, SMTT(30)
        <2>6. Selected' = x
            BY <1>2, <1>13, <2>1, Zenon DEF Controllers, Selected
        <2>7. Reading(k)'
            BY <1>1, <1>3, <1>8, <1>13, <2>1, <2>3, <2>4, <2>5, <2>6, ZenonT(30) DEF Reading, a, b
        <2> QED
            BY <1>15, <2>1, <2>2, <2>7, ZenonT(30)
    <1>21. CASE ~(m + 1 < SectorWords) /\ n.sector_count = 0
        <2> DEFINE x == [n EXCEPT !.drq = FALSE]
        <2>1. ctl' = [ctl EXCEPT ![d] = x]
            BY <1>16, <1>21, Zenon
        <2>2. ~x.drq
            BY <1>19, Zenon DEF Controller
        <2> HIDE DEF x
        <2>3. Len(got') = job.n * SectorWords
            <3>1. m + 1 = SectorWords /\ k + 1 = job.n
                BY <1>9, <1>12, <1>19, <1>21, SectorWordsAre
            <3> QED
                BY <1>11, <1>12, <3>1, ZenonT(30)
        <2> QED
            BY <1>15, <2>1, <2>2, <2>3, ZenonT(30)
    <1>22. CASE ~(m + 1 < SectorWords) /\ n.sector_count # 0
        <2>1. CASE ctl' = [ctl EXCEPT ![d] = command_aborted(n)]
            <3>1. ~command_aborted(n).drq /\ command_aborted(n).err
                BY <1>19, AbortedIs, Zenon
            <3> QED
                BY <1>15, <2>1, <3>1, Zenon
        <2>2. CASE /\ InBounds(n) /\ buffer' = [buffer EXCEPT ![d] = image[d][LogicalAddress(n)]]
                   /\ ctl' = [ctl EXCEPT ![d] = n]
            <3>1. m + 1 = SectorWords /\ k + 1 < job.n
                BY <1>9, <1>12, <1>19, <1>22, SectorWordsAre, SMTT(30)
            <3>2. k + 1 \in 0 .. job.n - 1 /\ Behind(job, n, k + 1)
                BY <1>18, <3>1, Zenon DEF Advanced
            <3>3. LogicalAddress(n) = job.first + (k + 1)
                BY <3>2, Zenon DEF Behind, Positioned
            <3>4. job.first + (k + 1) \in 0 .. Total - 1 /\ buffer'[d] = image[d][job.first + (k + 1)]
                BY <1>2, <2>2, <3>3, ZenonT(30) DEF InBounds, Media
            <3>5. Selected' = n
                BY <1>2, <1>13, <2>2, Zenon DEF Controllers, Selected
            <3>6. Reading(k + 1)'
                <4> DEFINE y == Len(got') - (k + 1) * SectorWords
                <4>1. y = 0 /\ 0 < SectorBytes
                    BY <1>9, <1>11, <1>12, <3>1, SectorWordsAre, AtaAssumption, SMTT(30)
                <4> HIDE DEF y
                <4>2. /\ n.buffer_index = 2 * y /\ 0 <= n.buffer_index
                      /\ n.buffer_index < SectorBytes
                    BY <1>19, <4>1, SMTT(30)
                <4> QED
                    BY <1>1, <1>3, <1>13, <3>2, <3>4, <3>5, <4>2, ZenonT(30) DEF Reading, y
            <3> QED
                BY <1>15, <2>2, <3>2, <3>6, <1>18, ZenonT(30)
        <2> QED
            BY <1>16, <1>22, <2>1, <2>2, ZenonT(30)
    <1> QED
        BY <1>20, <1>21, <1>22, ZenonT(30)

(* Bursts: l words of so many bytes have been read. *)
Bursts(c, l, bytes) ==
    /\ c.cylinder_no = c.drq_bytes /\ c.drq_bytes % 2 = 0 /\ c.remaining % 2 = 0
    /\ c.drq_bytes <= c.remaining /\ c.drq_index % 2 = 0
    /\ 2 * l = bytes - c.remaining + c.drq_index

(* A word of a disc. *)
LEMMA ReadBlockProgress ==
    IInv /\ Progress /\ Media' /\ ReadWord /\ DiscJob => BlocksRead'
    (* Where a word is in its block, when i bytes of block number q - 1, from   *)
    (* the first asked for on, have been read.                                 *)
    <1>BlockPlace.
        ASSUME NEW l \in Nat, NEW q \in Int, NEW i \in Int,
               2 * l = q * BlockBytes - BlockBytes + i, 0 <= i, i <= BlockBytes, i % 2 = 0
        PROVE  /\ i < BlockBytes => /\ l \div BlockWords = q - 1 /\ l % BlockWords = i \div 2
                                    /\ i \div 2 + 1 \in 1 .. BlockWords /\ i + 2 <= BlockBytes
               /\ i >= BlockBytes => l \div BlockWords = q /\ l % BlockWords = 0
        <2> USE <1>BlockPlace
        <2> DEFINE w == BlockWords
                   h == i \div 2
                   p == (q - 1) * w
        <2>1. w \in Nat /\ w >= 1 /\ 2 * w = BlockBytes
            BY BlockWordsAre, Zenon
        <2>2. h \in Nat /\ i = 2 * h
            OBVIOUS
        <2> HIDE DEF w, h
        <2>3. q * BlockBytes - BlockBytes = 2 * p /\ p \in Int
            <3>1. q * BlockBytes = 2 * (q * w)
                BY <2>1
            <3>2. p = q * w - w
                BY <2>1
            <3> HIDE DEF p
            <3>3. q * w \in Int
                BY <2>1
            <3> QED
                BY <2>1, <3>1, <3>2, <3>3
        <2>4. l = (q - 1) * w + h
            <3> HIDE DEF p
            <3>1. l = p + h
                BY <2>2, <2>3
            <3> QED
                BY <3>1, Zenon DEF p
        <2>5. CASE i < BlockBytes
            <3>1. h < w /\ h + 1 \in 1 .. w /\ i + 2 <= BlockBytes
                BY <2>1, <2>2, <2>5
            <3>2. l \div w = q - 1 /\ l % w = h
                BY <2>1, <2>2, <2>4, <3>1, DivIs, SMTT(30)
            <3>3. ~(i >= BlockBytes)
                BY <2>1, <2>5
            <3> QED
                BY <3>1, <3>2, <3>3, ZenonT(30) DEF w, h
        <2>6. CASE i >= BlockBytes
            <3>1. h = w
                BY <2>1, <2>2, <2>6
            <3>2. l = q * w + 0
                BY <2>1, <2>4, <3>1
            <3>3. l \div w = q /\ l % w = 0
                <4>1. w > 0 /\ 0 \in Int /\ 0 <= 0 /\ 0 < w
                    BY <2>1
                <4> QED
                    BY <2>1, <3>2, <4>1, DivIs, ZenonT(30)
            <3>4. ~(i < BlockBytes)
                BY <2>1, <2>6
            <3> QED
                BY <3>3, <3>4, Zenon DEF w
        <2> QED
            BY <2>5, <2>6, Zenon
    <1>BurstsGoOn.
        ASSUME NEW c \in Controller, NEW loads, NEW x, WordTaken(c, loads, x),
               NEW l \in Nat, NEW bytes \in Int, Bursts(c, l, bytes),
               NEW n \in Int, n > 0,
               2 * n \in {c.drq_bytes - c.drq_index, c.drq_bytes - c.drq_index + 1}
        PROVE  /\ x.drq => Bursts(x, l + 1, bytes)
               /\ ~x.drq => ~x.err /\ 2 * (l + 1) = bytes
        <2> USE <1>BurstsGoOn
        <2> DEFINE b == c.drq_bytes
                   i == c.drq_index
                   r == c.remaining
        <2>1. b \in Int /\ i \in Int /\ r \in Int
            BY Zenon DEF Controller
        <2>2. /\ c.cylinder_no = b /\ b % 2 = 0 /\ r % 2 = 0 /\ b <= r /\ i % 2 = 0
              /\ 2 * l = bytes - r + i
            BY Zenon DEF Bursts
        <2>3. /\ i + 2 < b => /\ x.drq /\ x.drq_index = i + 2 /\ x.drq_bytes = b
                              /\ x.remaining = r /\ x.cylinder_no = b
              /\ ~(i + 2 < b) /\ r - b > 0 =>
                    /\ x.drq /\ x.drq_index = 0 /\ x.remaining = r - b
                    /\ x.drq_bytes = Min({r - b, b}) /\ x.cylinder_no = x.drq_bytes
              /\ ~(i + 2 < b) /\ ~(r - b > 0) => ~x.drq /\ ~x.err
            BY <2>2, Zenon DEF WordTaken
        <2>4. 2 * n \in {b - i, b - i + 1}
            BY Zenon
        <2> HIDE DEF b, i, r
        <2>5. i + 2 <= b
            BY <2>1, <2>2, <2>4
        <2>6. CASE i + 2 < b
            <3>1. (i + 2) % 2 = 0 /\ 2 * (l + 1) = bytes - r + (i + 2)
                BY <2>1, <2>2, SMTT(30)
            <3> QED
                BY <2>2, <2>3, <2>6, <3>1, Zenon DEF Bursts
        <2>7. CASE ~(i + 2 < b) /\ r - b > 0
            <3> DEFINE y == Min({r - b, b})
            <3>1. y = IF r - b <= b THEN r - b ELSE b
                BY <2>1, MinIs, SMTT(30)
            <3> HIDE DEF y
            <3>2. y % 2 = 0 /\ (r - b) % 2 = 0 /\ y <= r - b
                BY <2>1, <2>2, <3>1
            <3>3. 2 * (l + 1) = bytes - (r - b) + 0 /\ 0 % 2 = 0
                BY <2>1, <2>2, <2>5, <2>7, SMTT(30)
            <3> QED
                BY <2>3, <2>7, <3>2, <3>3, Zenon DEF Bursts, y
        <2>8. CASE ~(i + 2 < b) /\ ~(r - b > 0)
            BY <2>1, <2>2, <2>3, <2>5, <2>8
        <2> QED
            BY <2>6, <2>7, <2>8, Zenon
    <1> SUFFICES ASSUME IInv, Progress, Media', ReadWord, DiscJob
                 PROVE  BlocksRead'
        BY Zenon
    <1> DEFINE c == Selected
               d == drive_select
               lba == job.packet.lba
               l == Len(got)
               bytes == DiscBytes
    <1>1. /\ at = "in" /\ left > 0 /\ got' = Append(got, DataWord) /\ job' = job
          /\ bad' = (bad \/ (Loads /\ DataWord # <<"cd", c.next_lba, 1>>))
          /\ at' = AfterWords
          /\ ReadSectorWord \/ ReadIdentityWord \/ ReadPacketWord
        BY Zenon DEF ReadWord, Moved
    <1>2. Controllers /\ Media /\ c \in Controller /\ d \in 0 .. 1 /\ got \in Seq(Words) /\ left \in Int
        BY SelectedIs, Zenon DEF IInv, TypeOK, Controllers, Progress
    <1>3. /\ job.on = "ide" /\ job.command = "packet" /\ job.packet.op = "read" /\ job.d = d
          /\ \E i \in 1 .. Len(Jobs) : job \in Jobs[i]
          /\ c.current_command = "packet" /\ at \in IdePlaces
          /\ 2 * left \in {c.drq_bytes - c.drq_index, c.drq_bytes - c.drq_index + 1}
        <2>1. at \in IdePlaces /\ job.command = "packet" /\ job.packet.op = "read"
            BY <1>1, Zenon DEF IdePlaces, DiscJob, IdeJob
        <2>2. KnownJob /\ Agree
            BY Zenon DEF IInv, TypeOK, Transfers
        <2> QED
            BY <1>1, <2>1, <2>2, Zenon DEF KnownJob, Agree
    <1>4. lba \in Nat /\ bytes \in Int /\ BlockBytes \in Nat
        <2>1. BlocksJob(job)
            BY <1>3, BlocksJobIs, ZenonT(30)
        <2>2. job.packet.n \in Int /\ lba \in Nat /\ Capacity \in Nat /\ BlockBytes \in Nat
            BY <2>1, AtaAssumption, SMTT(30) DEF BlocksJob
        <2>3. Min({job.packet.n, Capacity - lba}) \in Int
            BY <2>2, MinInt
        <2> QED
            BY <2>2, <2>3, SMTT(30) DEF DiscBytes
    <1>5. ReadPacketWord /\ c.drq /\ UNCHANGED drive_select
        BY <1>1, <1>3, ZenonT(30) DEF ReadSectorWord, ReadIdentityWord, ReadPacketWord
    <1>6. Streaming /\ (~bad => InBlocks)
        BY <1>1, <1>3, <1>5, Zenon DEF Progress, BlocksRead
    <1>7. PICK x : SetSelected(x) /\ WordTaken(c, Loads, x)
        BY <1>2, <1>5, WordTakenIs, ZenonT(30)
    <1>8. Selected' = x
        BY <1>2, <1>5, <1>7, Zenon DEF SetSelected, Controllers, Selected
    <1>9. /\ l \in Nat /\ Len(got') = l + 1
          /\ DOMAIN got = 1 .. l /\ DOMAIN got' = 1 .. l + 1
          /\ \A i \in 1 .. l : got'[i] = got[i]
          /\ got'[l + 1] = DataWord
        BY <1>1, <1>2, Appended, ZenonT(30)
    <1>10. Loads <=> c.buffer_index >= BlockBytes
        BY <1>3, <1>6, Zenon DEF Loads, Streaming
    <1>11. /\ c.lazy /\ Bursts(c, l, bytes)
           /\ c.buffer_index % 2 = 0 /\ 0 <= c.buffer_index /\ c.buffer_index <= BlockBytes
           /\ 2 * l = (c.next_lba - lba) * BlockBytes - BlockBytes + c.buffer_index
           /\ ~bad /\ c.buffer_index < BlockBytes => buffer[d] = BlockOf(c.next_lba - 1)
        BY <1>3, <1>6, Zenon DEF Streaming, Bursts
    <1>12. at' \notin {"poll", "packet"} /\ DiscJob' = DiscJob /\ DiscBytes' = bytes
        BY <1>1, <1>3, ZenonT(30) DEF AfterWords, DiscJob, IdeJob, DiscBytes
    <1> DEFINE i == c.buffer_index
               q == c.next_lba - lba
    <1>13. i \in Int /\ q \in Int /\ c.next_lba \in Int
        <2> HIDE DEF c, lba
        <2>1. c.buffer_index \in Int /\ c.next_lba \in Int
            BY <1>2, Zenon DEF Controller
        <2>2. lba \in Int
            BY <1>4
        <2> QED
            BY <2>1, <2>2
    <1>14. buffer' = buffer \/ Loads
        BY <1>5, Zenon DEF ReadPacketWord
    <1>15. /\ DataWord = IF Loads THEN buffer'[d][1] ELSE buffer[d][i \div 2 + 1]
        BY Zenon DEF DataWord
    <1> HIDE DEF c, l, bytes, lba
    <1>16. /\ i < BlockBytes => /\ l \div BlockWords = q - 1 /\ l % BlockWords = i \div 2
                                /\ i \div 2 + 1 \in 1 .. BlockWords /\ i + 2 <= BlockBytes
           /\ i >= BlockBytes => l \div BlockWords = q /\ l % BlockWords = 0
        <2> HIDE DEF i, q
        <2>1. 2 * l = q * BlockBytes - BlockBytes + i /\ 0 <= i /\ i <= BlockBytes /\ i % 2 = 0
            BY <1>11, Zenon DEF i, q
        <2> QED
            BY <1>9, <1>13, <2>1, <1>BlockPlace, ZenonT(30)
    <1>17. /\ x.drq => Bursts(x, l + 1, bytes)
           /\ ~x.drq => ~x.err /\ 2 * (l + 1) = bytes
        BY <1>1, <1>2, <1>3, <1>4, <1>7, <1>9, <1>11, <1>BurstsGoOn, ZenonT(30) DEF c
    <1>18. /\ x.lazy /\ x.next_lba = IF Loads THEN c.next_lba + 1 ELSE c.next_lba
           /\ x.buffer_index = (IF Loads THEN 0 ELSE i) + 2
        BY <1>7, <1>11, Zenon DEF WordTaken
    (* The word, and the block it is from. *)
    <1>19. ~bad' => /\ DataWord = <<"cd", lba + l \div BlockWords, (l % BlockWords) + 1>>
                    /\ x.buffer_index < BlockBytes => buffer'[d] = BlockOf(x.next_lba - 1)
        <2> SUFFICES ASSUME ~bad'
                     PROVE  /\ DataWord = <<"cd", lba + l \div BlockWords, (l % BlockWords) + 1>>
                            /\ x.buffer_index < BlockBytes => buffer'[d] = BlockOf(x.next_lba - 1)
            BY Zenon
        <2>1. CASE Loads
            <3>1. DataWord = <<"cd", c.next_lba, 1>> /\ buffer'[d][1] = DataWord
                BY <1>1, <1>15, <2>1, ZenonT(30) DEF c
            <3>2. i >= BlockBytes /\ lba + q = c.next_lba /\ 0 + 1 = 1
                BY <1>4, <1>10, <1>13, <2>1 DEF c
            <3>3. DataWord = <<"cd", lba + l \div BlockWords, (l % BlockWords) + 1>>
                BY <1>16, <3>1, <3>2, ZenonT(30)
            <3>4. HoldsBlocks(buffer'[d])
                <4>1. device[d] = "cd"
                    BY <1>2, <1>3, ZenonT(30) DEF Media, c, Selected
                <4> QED
                    BY <1>2, <4>1, Zenon DEF Media
            <3>5. buffer'[d] = BlockOf(c.next_lba)
                BY <3>1, <3>4 DEF HoldsBlocks
            <3>6. x.next_lba - 1 = c.next_lba
                BY <1>13, <1>18, <2>1
            <3> QED
                BY <3>3, <3>5, <3>6, ZenonT(30)
        <2>2. CASE ~Loads
            <3>1. i < BlockBytes /\ ~bad /\ buffer' = buffer /\ x.next_lba = c.next_lba
                <4>1. i < BlockBytes
                    BY <1>4, <1>10, <1>13, <2>2 DEF c
                <4> QED
                    BY <1>1, <1>14, <1>18, <2>2, <4>1, ZenonT(30)
            <3>2. buffer[d] = BlockOf(c.next_lba - 1)
                BY <1>11, <3>1, Zenon
            <3>3. DataWord = <<"cd", c.next_lba - 1, i \div 2 + 1>>
                BY <1>15, <1>16, <2>2, <3>1, <3>2, BlockOfIs, ZenonT(30)
            <3>4. lba + (q - 1) = c.next_lba - 1
                BY <1>4, <1>13, SMTT(30)
            <3>5. DataWord = <<"cd", lba + l \div BlockWords, (l % BlockWords) + 1>>
                BY <1>16, <3>1, <3>3, <3>4, ZenonT(30)
            <3> QED
                BY <3>1, <3>2, <3>5, ZenonT(30)
        <2> QED
            BY <2>1, <2>2, Zenon
    <1>20. ~bad' => InBlocks'
        <2> SUFFICES ASSUME ~bad'
                     PROVE  InBlocks'
            BY Zenon
        <2> DEFINE word(n) == <<"cd", lba + (n - 1) \div BlockWords, ((n - 1) % BlockWords) + 1>>
        <2>1. \A n \in 1 .. l : got[n] = word(n)
            BY <1>1, <1>6, <1>9, ZenonT(30) DEF InBlocks, lba
        <2>2. got'[l + 1] = word(l + 1)
            <3>1. (l + 1) - 1 = l
                BY <1>9
            <3> QED
                BY <1>9, <1>19, <3>1, ZenonT(30)
        <2>3. \A n \in 1 .. l + 1 : n \in 1 .. l \/ n = l + 1
            BY <1>9
        <2> HIDE DEF word
        <2>4. \A n \in DOMAIN got' : got'[n] = word(n)
            BY <1>9, <2>1, <2>2, <2>3, ZenonT(30)
        <2> QED
            BY <1>1, <2>4, Zenon DEF InBlocks, word, lba
    <1>21. /\ x.buffer_index % 2 = 0 /\ 0 <= x.buffer_index /\ x.buffer_index <= BlockBytes
           /\ 2 * (l + 1) = (x.next_lba - lba) * BlockBytes - BlockBytes + x.buffer_index
        <2>1. CASE Loads
            <3>1. x.buffer_index = 2 /\ i = BlockBytes /\ x.next_lba - lba = q + 1
                <4>1. i >= BlockBytes /\ i <= BlockBytes
                    BY <1>10, <1>11, <2>1, Zenon DEF c
                <4>2. x.buffer_index = 0 + 2 /\ x.next_lba = c.next_lba + 1
                    BY <1>18, <2>1, Zenon
                <4> QED
                    BY <1>4, <1>13, <4>1, <4>2
            <3>2. 2 <= BlockBytes
                BY BlockWordsAre
            <3>3. 2 * l = q * BlockBytes /\ q * BlockBytes \in Int
                <4> HIDE DEF i, q
                <4>1. 2 * l = q * BlockBytes - BlockBytes + i
                    BY <1>11, Zenon DEF i, q
                <4>2. q * BlockBytes \in Int
                    BY <1>4, <1>13
                <4> DEFINE z == q * BlockBytes
                <4> HIDE DEF z
                <4>3. 2 * l = z - BlockBytes + BlockBytes
                    BY <3>1, <4>1, ZenonT(30) DEF z
                <4>4. 2 * l = z
                    BY <1>4, <4>2, <4>3 DEF z
                <4> QED
                    BY <4>2, <4>4, Zenon DEF z
            <3>4. (q + 1) * BlockBytes = q * BlockBytes + BlockBytes
                BY <1>4, <1>13, SMTT(30)
            <3> DEFINE z == q * BlockBytes
            <3> HIDE DEF z
            <3>5. 2 * (l + 1) = (z + BlockBytes) - BlockBytes + 2
                BY <1>4, <1>9, <3>3 DEF z
            <3>6. 2 * (l + 1) = (x.next_lba - lba) * BlockBytes - BlockBytes + x.buffer_index
                BY <3>1, <3>4, <3>5, Zenon DEF z
            <3> QED
                BY <3>1, <3>2, <3>6
        <2>2. CASE ~Loads
            <3>1. x.buffer_index = i + 2 /\ i < BlockBytes /\ x.next_lba - lba = q
                BY <1>4, <1>10, <1>13, <1>18, <2>2, SMTT(30)
            <3>2. i + 2 <= BlockBytes /\ (i + 2) % 2 = 0 /\ 0 <= i + 2
                BY <1>11, <1>13, <1>16, <3>1
            <3> DEFINE z == q * BlockBytes
            <3>3. z \in Int /\ 2 * l = z - BlockBytes + i
                <4>1. 2 * l = z - BlockBytes + i
                    BY <1>11, Zenon
                <4>2. z \in Int
                    <5> HIDE DEF q
                    <5> QED
                        BY <1>4, <1>13
                <4> QED
                    BY <4>1, <4>2, Zenon
            <3> HIDE DEF z
            <3>4. 2 * (l + 1) = z - BlockBytes + (i + 2)
                <4> HIDE DEF i
                <4>1. l \in Nat /\ BlockBytes \in Nat /\ i \in Int
                    BY <1>4, <1>9, <1>13, ZenonT(30)
                <4> QED
                    BY <3>3, <4>1
            <3>5. 2 * (l + 1) = (x.next_lba - lba) * BlockBytes - BlockBytes + x.buffer_index
                BY <3>1, <3>4, ZenonT(30) DEF z
            <3> QED
                BY <3>1, <3>2, <3>5, ZenonT(30)
        <2> QED
            BY <2>1, <2>2, ZenonT(30)
    <1>22. x.drq => Streaming'
        <2> SUFFICES ASSUME x.drq
                     PROVE  Streaming'
            BY Zenon
        <2>1. Bursts(x, l + 1, bytes)
            BY <1>17, Zenon
        <2>2. job'.packet.lba = lba /\ job'.d = d
            BY <1>1, <1>3, Zenon DEF lba
        <2> QED
            BY <1>8, <1>9, <1>12, <1>18, <1>19, <1>21, <2>1, <2>2, ZenonT(30) DEF Streaming, Bursts
    <1>23. ~x.drq /\ ~x.err => 2 * Len(got') = DiscBytes'
        BY <1>9, <1>12, <1>17, ZenonT(30)
    <1> QED
        BY <1>8, <1>12, <1>20, <1>22, <1>23, ZenonT(30) DEF BlocksRead

(* A word read, of any kind. *)
LEMMA ReadWordProgress ==
    ASSUME IInv, Progress, ReadWord
    PROVE  Progress' /\ UNCHANGED image
    <1>1. /\ at = "in" /\ job' = job /\ sent' = sent /\ at' = AfterWords
          /\ ReadSectorWord \/ ReadIdentityWord \/ ReadPacketWord
        BY Zenon DEF ReadWord, Moved
    <1>2. UNCHANGED image
        BY <1>1, Zenon DEF ReadSectorWord, ReadIdentityWord, ReadPacketWord
    <1>3. Media'
        BY <1>1, ReadMedia, Zenon DEF IInv, TypeOK, Progress
    <1>4. job.command \in {"read", "packet", "identify"}
        BY <1>1, Zenon DEF IInv, Transfers, Agree
    <1>5. SectorsRead'
        <2>1. CASE job.command = "read"
            BY <2>1, ReadSectorProgress, Zenon
        <2>2. CASE job.command # "read"
            BY <1>1, <2>2, Zenon DEF SectorsRead, IdeJob
        <2> QED
            BY <2>1, <2>2, Zenon
    <1>6. SectorsWritten'
        <2>1. ~IdeJob("write")'
            BY <1>1, <1>4, Zenon DEF IdeJob
        <2>2. at' # "idle" /\ sent' \in Nat
            BY <1>1, Zenon DEF AfterWords, Progress, SectorsWritten
        <2> QED
            BY <2>1, <2>2, Zenon DEF SectorsWritten
    <1>7. BlocksRead'
        <2>1. CASE DiscJob
            BY <1>3, <2>1, ReadBlockProgress, Zenon
        <2>2. CASE ~DiscJob
            <3>1. ~DiscJob'
                BY <1>1, <2>2, Zenon DEF DiscJob, IdeJob
            <3> QED
                BY <3>1, Zenon DEF BlocksRead
        <2> QED
            BY <2>1, <2>2, Zenon
    <1> QED
        BY <1>2, <1>3, <1>5, <1>6, <1>7, ZenonT(30) DEF Progress

LEMMA InitProgress == Init => Progress
    (* Freshly opened images hold sectors. *)
    <1>FreshSectors.
        ASSUME NEW n \in Int
        PROVE  /\ SectorOf("none", n) \in SectorData /\ SectorOf("disk", n) \in SectorData
               /\ HoldsBlocks(SectorOf("none", n))
        <2>1. ASSUME NEW k \in {"none", "disk"}
              PROVE  SectorOf(k, n) \in SectorData
            <3>1. SectorOf(k, n) = [i \in 1 .. SectorWords |-> <<k, n, i>>]
                BY Zenon DEF SectorOf, SectorWords
            <3>2. \A i \in 1 .. SectorWords : <<k, n, i>> \in Word
                BY SectorWordsAre DEF Word
            <3> QED
                BY <3>1, <3>2, Zenon DEF SectorData
        <2>2. HoldsBlocks(SectorOf("none", n))
            <3>1. 1 \in 1 .. SectorWords
                BY SectorWordsAre
            <3>2. SectorOf("none", n)[1] = <<"none", n, 1>>
                BY <3>1, Zenon DEF SectorOf, SectorWords
            <3> QED
                BY <3>2 DEF HoldsBlocks
        <2> QED
            BY <2>1, <2>2, Zenon
    <1> SUFFICES ASSUME Init
                 PROVE  Progress
        BY Zenon
    <1>1. /\ ctl = [d \in 0 .. 1 |-> FreshController(d)]
          /\ buffer = [d \in 0 .. 1 |-> SectorOf("none", 0)]
          /\ image = [d \in 0 .. 1 |-> [s \in 0 .. Total - 1 |-> SectorOf("disk", s)]]
          /\ at = "idle" /\ job = NoJob /\ sent = 0
        BY Zenon DEF Init, AtaInit
    <1>2. /\ SectorOf("none", 0) \in SectorData /\ HoldsBlocks(SectorOf("none", 0))
          /\ \A s \in 0 .. Total - 1 : SectorOf("disk", s) \in SectorData
        BY <1>FreshSectors
    <1>3. image \in [0 .. 1 -> [0 .. Total - 1 -> SectorData]]
        BY <1>1, <1>2, Zenon
    <1>4. \A d \in 0 .. 1 : ctl[d].current_command = "none" /\ buffer[d] = SectorOf("none", 0)
        BY <1>1, Zenon DEF FreshController
    <1>5. Media
        BY <1>1, <1>2, <1>3, <1>4, ZenonT(30) DEF Media
    <1>6. ~IdeJob("read") /\ ~IdeJob("write") /\ ~DiscJob
        BY <1>1, Zenon DEF IdeJob, DiscJob, NoJob
    <1> QED
        BY <1>1, <1>5, <1>6, ZenonT(30) DEF Progress, SectorsRead, SectorsWritten, BlocksRead

(* Every step keeps the invariant of the transfers, and changes the images  *)
(* as a write may.                                                         *)
LEMMA NextProgress == IInv /\ Progress /\ [Next]_vars => Progress' /\ ImageStep
    <1> SUFFICES ASSUME IInv, Progress, [Next]_vars
                 PROVE  Progress' /\ ImageStep
        BY Zenon
    <1>1. UNCHANGED image => ImageStep
        BY Zenon DEF ImageStep
    <1>2. CASE UNCHANGED vars
        BY <1>1, <1>2, UnclaimedProgress, ZenonT(30) DEF vars, ataVars
    <1>3. ASSUME jobs < Len(Jobs), NEW j \in Jobs[jobs + 1], StartIde(j)
          PROVE  Progress' /\ ImageStep
        BY <1>1, <1>3, StartIdeProgress, Zenon DEF StartIde, WriteCommand
    <1>4. CASE Transfer \/ SeeFdc \/ \E j : StartFdc(j)
        <2>1. UNCHANGED image
            BY <1>4, Zenon DEF Transfer, SeeFdc, StartFdc, ataVars
        <2> QED
            BY <1>1, <1>4, <2>1, FloppyProgress, ZenonT(30)
    <1>5. CASE SeeIde
        BY <1>1, <1>5, SeeIdeProgress, ZenonT(30) DEF SeeIde, ReadStatus, ataVars
    <1>6. CASE ReadWord
        BY <1>1, <1>6, ReadWordProgress, Zenon
    <1>7. CASE WriteWord
        BY <1>7, WriteWordProgress, Zenon
    <1>8. CASE WritePacket
        BY <1>1, <1>8, WritePacketProgress, Zenon DEF WritePacket, WritePacketWord
    <1>9. CASE GiveUp
        BY <1>1, <1>9, GiveUpProgress, ZenonT(30) DEF GiveUp, WriteControl
    <1>10. CASE EndReset
        BY <1>1, <1>10, EndResetProgress, Zenon DEF EndReset, WriteControl
    <1>11. CASE ChooseIrq
        BY <1>1, <1>11, ChooseIrqProgress, Zenon DEF ChooseIrq, WriteControl
    <1>12. CASE Unclaimed
        BY <1>1, <1>12, UnclaimedProgress, Zenon DEF Unclaimed, ataVars
    <1>13. CASE User
        <2>1. UNCHANGED image
            BY <1>13, Zenon DEF User, EjectDisc, InsertDisc, RemoveFloppy, InsertFloppy, ataVars
        <2> QED
            BY <1>1, <1>13, <2>1, UserProgress, ZenonT(30)
    <1>14. CASE Reset
        BY <1>1, <1>14, ResetProgress, Zenon DEF Reset, AtaReset
    <1> QED
        BY <1>2, <1>3, <1>4, <1>5, <1>6, <1>7, <1>8, <1>9, <1>10, <1>11, <1>12, <1>13, <1>14,
           ZenonT(30)
           DEF Next, Driver

(* The driver sees a command succeed when the drive asks for nothing more. *)
LEMMA SucceedsIs ==
    ASSUME Succeeds
    PROVE  at \in IdePlaces /\ at # "packet" /\ ~Selected.drq /\ ~Selected.err
    <1>1. at \in {"poll", "wait", "last"} /\ SeeStatus /\ at' = "idle" /\ ~Selected.err
        BY Zenon DEF Succeeds, SeeIde
    <1>2. at \in IdePlaces /\ at # "packet"
        BY <1>1, Zenon DEF IdePlaces
    <1>3. ~Selected.drq
        BY <1>1, Zenon DEF SeeStatus, Goto
    <1> QED
        BY <1>1, <1>2, <1>3, Zenon

LEMMA InvariantOfTheTransfers == Spec => [](IInv /\ Progress)
    <1>1. IInv /\ Progress /\ [Next]_vars => Progress'
        BY NextProgress, Zenon
    <1> QED
        BY <1>1, InitProgress, Invariance, PTL DEF Spec

(* An image of a disk changes only by a write, in the sector whose turn it  *)
(* is and to the data the driver sent, unless the drive reports that the    *)
(* host cut it short; and a write that reports no error has sent all its    *)
(* sectors: for every geometry, both kinds of addresses and every transfer  *)
(* the registers can name, wherever the address carries in                  *)
(* increment_address.                                                       *)
THEOREM WritesGoWhereTheyBelong == Spec => WritesInOrder
    <1>1. IInv /\ Progress /\ [Next]_vars =>
            [/\ image' # image =>
                  /\ IdeJob("write")
                  /\ LET s == job.first + sent \div SectorWords
                         data == [i \in 1 .. SectorWords |-> <<"new", sent \div SectorWords, i>>]
                     IN  /\ image' = [image EXCEPT ![job.d][s] = image'[job.d][s]]
                         /\ image'[job.d][s] = data \/ ctl'[job.d].err
             /\ IdeJob("write") /\ Succeeds => sent = job.n * SectorWords]_vars
        <2> SUFFICES ASSUME IInv, Progress, [Next]_vars
                     PROVE  ImageStep /\ (IdeJob("write") /\ Succeeds => sent = job.n * SectorWords)
            BY Zenon DEF ImageStep
        <2>1. ImageStep
            BY NextProgress, Zenon
        <2>2. IdeJob("write") /\ Succeeds => sent = job.n * SectorWords
            BY SucceedsIs, Zenon DEF Progress, SectorsWritten
        <2> QED
            BY <2>1, <2>2, Zenon
    <1> QED
        BY <1>1, InvariantOfTheTransfers, PTL DEF Spec, WritesInOrder

(* What the driver has read are the words of the sectors, or of the disc's  *)
(* blocks, that it asked for, in order and from the first on, and all of    *)
(* them when the command ends without an error: for every geometry, block   *)
(* size, byte count limit and transfer, however the bursts cut the blocks,  *)
(* and whatever the user does to the disc in between.  (Blocks, unless      *)
(* read_block failed, which it tells nobody.)                               *)
THEOREM ReadsAreInOrder == Spec => ReadsInOrder
    <1>1. IInv /\ Progress /\ [Next]_vars =>
            [/\ IdeJob("read") =>
                  /\ \A i \in DOMAIN got : LET k == i - 1 IN
                        got[i] = image[job.d][job.first + k \div SectorWords][(k % SectorWords) + 1]
                  /\ Succeeds => Len(got) = job.n * SectorWords
             /\ DiscJob /\ ~bad =>
                  /\ \A i \in DOMAIN got : LET k == i - 1 IN
                        got[i] = <<"cd", job.packet.lba + k \div BlockWords, (k % BlockWords) + 1>>
                  /\ Succeeds =>
                        Len(got) = Min({job.packet.n, Capacity - job.packet.lba}) * BlockWords]_vars
        <2> SUFFICES ASSUME IInv, Progress, [Next]_vars
                     PROVE  /\ IdeJob("read") =>
                                  InSectors /\ (Succeeds => Len(got) = job.n * SectorWords)
                            /\ DiscJob /\ ~bad => InBlocks
                            /\ DiscJob /\ Succeeds =>
                                  Len(got) = Min({job.packet.n, Capacity - job.packet.lba}) * BlockWords
            BY Zenon DEF InSectors, InBlocks
        <2>1. IdeJob("read") => InSectors /\ (Succeeds => Len(got) = job.n * SectorWords)
            BY SucceedsIs, Zenon DEF Progress, SectorsRead
        <2>2. DiscJob /\ ~bad => InBlocks
            BY Zenon DEF Progress, BlocksRead
        <2>3. ASSUME DiscJob, Succeeds
              PROVE  Len(got) = Min({job.packet.n, Capacity - job.packet.lba}) * BlockWords
            <3> DEFINE m == Min({job.packet.n, Capacity - job.packet.lba})
            <3>1. at \in IdePlaces /\ at # "packet" /\ ~Selected.drq /\ ~Selected.err
                BY <2>3, SucceedsIs, Zenon
            <3>2. 2 * Len(got) = m * BlockBytes
                BY <2>3, <3>1, ZenonT(30) DEF Progress, BlocksRead, DiscBytes
            <3>3. m \in Int
                <4>1. BlocksJob(job)
                    <5>1. /\ job.on = "ide" /\ job.command = "packet" /\ job.packet.op = "read"
                          /\ \E i \in 1 .. Len(Jobs) : job \in Jobs[i]
                        BY <2>3, <3>1, ZenonT(30) DEF IInv, TypeOK, KnownJob, DiscJob, IdeJob
                    <5> QED
                        BY <5>1, BlocksJobIs, Zenon
                <4>2. job.packet.n \in Int /\ job.packet.lba \in Nat /\ Capacity \in Nat
                    BY <4>1, AtaAssumption DEF BlocksJob
                <4> QED
                    BY <4>2, MinInt, SMTT(30)
            <3>4. Len(got) \in Nat
                BY LenProperties, Zenon DEF IInv, TypeOK
            <3> HIDE DEF m
            <3>5. m * BlockBytes = 2 * (m * BlockWords) /\ m * BlockWords \in Int
                BY <3>3, BlockWordsAre
            <3>6. Len(got) = m * BlockWords
                BY <3>2, <3>4, <3>5
            <3> QED
                BY <3>6, Zenon DEF m
        <2> QED
            BY <2>1, <2>2, <2>3, Zenon
    <1> QED
        BY <1>1, InvariantOfTheTransfers, PTL DEF Spec, ReadsInOrder
=============================================================================
