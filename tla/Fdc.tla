-------------------------------- MODULE Fdc --------------------------------
(***************************************************************************)
(* The floppy controller WD1772 and its DMA chip (src/src/acsifdc.cpp),    *)
(* with one drive.  A command is executed as a whole when the guest writes *)
(* it, and the line is pulled at its end.  DMA moves whole sectors.  The   *)
(* sector and data registers and the DMA count, which the guest writes     *)
(* before every command that uses them, are parameters of the commands.    *)
(***************************************************************************)
EXTENDS Integers, Sequences, DiskLine

CONSTANTS Tracks, Sides, Spt

ASSUME FdcAssumption ==
    /\ Tracks \in Nat /\ Tracks > 0
    /\ Sides \in 1 .. 2
    /\ Spt \in Nat /\ Spt > 1

VARIABLES
    head, fdc_track,
    dir,            \* the direction of the last step, a static variable
    tracks,         \* like the other numbers of the geometry 0 until the
                    \* image has been opened
    fdc_status,     \* the set of "track0" and "notfound"
    inserted,       \* the image file is open
    floppy_changed,
    floppy,         \* the sectors of the image file; "none" is behind its end
    memory          \* the sectors the last command put into the guest's memory

fdcRegisters == <<head, fdc_track, dir>>
fdcVars == <<fdcRegisters, tracks, fdc_status, inserted, floppy_changed, floppy, memory>>

FloppySize == Tracks * Sides * Spt

(* insert_floppy: open is whether the host can open the image. *)
insert_floppy(open) ==
    /\ inserted' = open
    /\ floppy_changed' = (floppy_changed \/ open)
    /\ tracks' = IF open THEN Tracks ELSE tracks

FdcInit ==
    /\ head = 0 /\ fdc_track = 0 /\ dir = 1 /\ fdc_status = {}
    /\ inserted \in BOOLEAN
    /\ tracks = IF inserted THEN Tracks ELSE 0
    /\ floppy_changed = inserted
    /\ floppy = [s \in 0 .. FloppySize + Sides * Spt - 1 |->
                    IF s < FloppySize THEN <<"floppy", s>> ELSE <<"none", 0>>]
    /\ memory = <<>>

(* ACSIFDC::reset forgets the geometry and opens the image again. *)
FdcReset ==
    /\ head' = 0 /\ fdc_track' = 0 /\ fdc_status' = {}
    /\ \E open \in BOOLEAN :
          /\ inserted' = open /\ floppy_changed' = open
          /\ tracks' = IF open THEN Tracks ELSE 0
    /\ UNCHANGED <<dir, floppy, memory>>

(* The button of the dialogue: remove_floppy, which keeps the geometry, or *)
(* insert_floppy.                                                          *)
RemoveFloppy ==
    /\ inserted
    /\ inserted' = FALSE
    /\ UNCHANGED <<fdcRegisters, tracks, fdc_status, floppy_changed, floppy, memory>>

InsertFloppy ==
    /\ ~inserted
    /\ insert_floppy(TRUE)
    /\ UNCHANGED <<fdcRegisters, fdc_status, floppy, memory>>

-----------------------------------------------------------------------------
(* Type I commands move the head.  verify compares it with the track       *)
(* register.                                                               *)

(* An image has no tracks outside 0 .. tracks - 1: a seek there restores. *)
Seek(data) ==
    LET h == head + data - fdc_track
    IN  /\ head' = IF h < 0 \/ h >= tracks THEN 0 ELSE h
        /\ fdc_track' = data

(* The track register follows a step when update is set. *)
Step(by, update) ==
    /\ head' = head + by
    /\ fdc_track' = fdc_track + (IF update THEN by ELSE 0)

MoveHead(c) ==
    CASE c.op = "restore" -> head' = 0 /\ fdc_track' = 0 /\ UNCHANGED dir
      [] c.op = "seek" -> Seek(c.track) /\ UNCHANGED dir
      [] c.op = "step" -> Step(dir, c.update) /\ UNCHANGED dir
      [] c.op = "step in" ->
            /\ head' = IF head < tracks THEN head + 1 ELSE head
            /\ fdc_track' = fdc_track + (IF c.update THEN 1 ELSE 0)
            /\ dir' = 1
      [] c.op = "step out" ->
            /\ head' = IF head > 0 THEN head - 1 ELSE head
            /\ fdc_track' = fdc_track - (IF c.update THEN 1 ELSE 0)
            /\ dir' = -1

TypeI(c) ==
    /\ MoveHead(c)
    /\ fdc_status' = {b \in {"track0", "notfound"} :
                        \/ b = "track0" /\ head' = 0
                        \/ b = "notfound" /\ c.verify /\ head' # fdc_track'}
    /\ SetLine(FALSE, TRUE)
    /\ UNCHANGED <<tracks, inserted, floppy_changed, floppy, memory>>

-----------------------------------------------------------------------------
(* Type II commands move sectors from where the head is. *)

(* A transfer ends with the track, and where it begins is computed from   *)
(* the geometry: before the image was ever opened all its numbers are 0.   *)
Clipped(s, n) == IF tracks > 0 /\ Spt - s + 1 < n THEN Spt - s + 1 ELSE n
Offset(side, s) == IF tracks > 0 THEN Spt * Sides * head + Spt * side + s - 1 ELSE 0

(* The sectors from o on that the host can deliver, at most n. *)
Readable(o, n) ==
    {k \in 0 .. n : k = 0 \/ (inserted' /\ \A i \in 0 .. k - 1 :
                                  o + i \in DOMAIN floppy /\ floppy[o + i] # <<"none", 0>>)}

(* The status of a transfer that was asked for n sectors. *)
(* Mutant: one cut short by the end of the track counts as done. *)
FoundShort(ok, s, n) == ok /\ head = fdc_track
Found(ok, s, n) == ok /\ Clipped(s, n) = n /\ head = fdc_track

(* Reading one sector at the start of the image opens it again, in case it *)
(* is a physical disk that has been changed; whether or not it was open.   *)
Remount(o, n) ==
    IF o = 0 /\ n = 1
    THEN \E open \in BOOLEAN : insert_floppy(open)
    ELSE UNCHANGED <<inserted, floppy_changed, tracks>>

ReadSector(side, s, scr) ==
    LET n == Clipped(s, scr)
        o == Offset(side, s)
    IN  /\ Remount(o, n)
        /\ \E k \in Readable(o, n) :
              /\ memory' = [i \in 1 .. k |-> floppy[o + i - 1]]
              /\ fdc_status' = IF Found(k = n /\ inserted', s, scr) THEN {} ELSE {"notfound"}
        /\ SetLine(FALSE, TRUE)
        /\ UNCHANGED <<fdcRegisters, floppy>>

(* The host writes k of the n sectors, all of them unless it fails. *)
WriteSector(side, s, scr, data) ==
    LET n == Clipped(s, scr)
        o == Offset(side, s)
    IN  /\ \E k \in 0 .. n :
              /\ k > 0 => inserted /\ o \in DOMAIN floppy /\ o + k - 1 \in DOMAIN floppy
              /\ floppy' = [t \in DOMAIN floppy |->
                              IF t \in o .. o + k - 1 THEN data[t - o + 1] ELSE floppy[t]]
              /\ fdc_status' = IF Found(k = n /\ inserted, s, scr) THEN {} ELSE {"notfound"}
        /\ SetLine(FALSE, TRUE)
        /\ UNCHANGED <<fdcRegisters, tracks, inserted, floppy_changed, memory>>

(* READ ADDRESS, READ TRACK, WRITE TRACK, and any command for drive B. *)
NotFound ==
    /\ fdc_status' = {"notfound"}
    /\ SetLine(FALSE, TRUE)
    /\ UNCHANGED <<fdcRegisters, tracks, inserted, floppy_changed, floppy, memory>>

(* FORCE INTERRUPT without a condition releases the line, and then pulls   *)
(* it like every other command.                                            *)
ForceInterrupt ==
    /\ fdc_status' = {}
    /\ SetLine(TRUE, TRUE)
    /\ UNCHANGED <<fdcRegisters, tracks, inserted, floppy_changed, floppy, memory>>

(* Reading the status register tells once that the floppy was changed and  *)
(* releases the line.                                                      *)
ReadFdcStatus ==
    /\ floppy_changed' = FALSE
    /\ line' = FALSE
    /\ UNCHANGED <<fdcRegisters, tracks, fdc_status, inserted, floppy, memory>>
=============================================================================
