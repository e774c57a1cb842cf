------------------------------ MODULE DiskLine ------------------------------
(***************************************************************************)
(* Bit 5 of the MFP's port (MFP::setGPIPbit in src/src/mfp.cpp): the one   *)
(* line by which the IDE controller and the floppy controller tell that    *)
(* they are done.  The line is active low; line is TRUE while it is low.   *)
(* The MFP, with its edge register as the operating systems leave it,      *)
(* latches a request when the line falls.                                  *)
(***************************************************************************)

VARIABLES
    line,     \* the controllers hold the line low
    pending   \* the line has fallen since the guest last served it

lineVars == <<line, pending>>

LineInit == line = FALSE /\ pending = FALSE

(* A handler that first releases the line when release holds, and then     *)
(* pulls it when pull holds.                                               *)
SetLine(release, pull) ==
    LET low == line /\ ~release
    IN  /\ line' = (low \/ pull)
        /\ pending' = (pending \/ (pull /\ ~low))
=============================================================================
