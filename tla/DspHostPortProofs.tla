------------------------- MODULE DspHostPortProofs -------------------------
(***************************************************************************)
(* The invariants of the host port, for any number of words and commands,  *)
(* any length of the boot program and any choice of programs, except where *)
(* a theorem says otherwise.                                               *)
(***************************************************************************)
EXTENDS DspHostPort, SequenceTheorems, TLAPS

Handlers == {"receive handler", "transmit handler"}

(***************************************************************************)
(* The inductive invariants.                                               *)
(***************************************************************************)
IsrType == [TXDE : BOOLEAN, TRDY : BOOLEAN, RXDF : BOOLEAN]
HsrType == [HRDF : BOOLEAN, HTDE : BOOLEAN, HCP : BOOLEAN]
PortType == [TXH : Nat, TXL : Nat, RXH : Nat, RXL : Nat]

(* The registers hold what their bits and bytes can say, the semaphore is  *)
(* never posted twice, and a word half read is begun.                      *)
TypeOK ==
    /\ isr \in IsrType /\ hsr \in HsrType /\ port \in PortType
    /\ HRX \in Nat \X Nat /\ HTX \in Nat \X Nat
    /\ cvr \in [HC : BOOLEAN, vector : Nat]
    /\ sem \in {0, 1}
    /\ sent \in Nat /\ put \in Nat /\ issued \in Nat
    /\ got \in Seq(Nat \X Nat) /\ taken \in Seq(Seq(Nat)) /\ served \in Seq(Nat)
    /\ half = "read" => Len(taken) > 0

(* A fast interrupt runs between two instructions of the program and does  *)
(* not nest; what dsp_hi_interrupts has decided on is still so when it     *)
(* acts; and the receive interrupt is used by a program that does not poll *)
(* for HRDF.                                                               *)
Control ==
    /\ main \notin Handlers
    /\ at \in Handlers => thread \in {"loop", "execute", "exited"}
    /\ at = "receive handler" => "HRIE" \in hcr /\ main = "jmp self"
    /\ at = "transmit handler" => "HTIE" \in hcr /\ main # "setup"
    /\ at = "setup" => hcr = {}
    /\ "HRIE" \in hcr => at \in {"jmp self", "receive handler"} /\ "HTIE" \notin hcr
    /\ thread = "clear HC" => hsr.HCP
    /\ thread = "clear HRDF" => hsr.HRDF /\ "HRIE" \in hcr
    /\ thread = "clear HTDE" => "HTIE" \in hcr
    /\ thread = "start" => hcr = {}

(* A program reads HRX only after it has seen HRDF, though a transmit      *)
(* interrupt may come in between.                                          *)
ReadsWhenFull ==
    at = "movep HRX" \/ (at = "transmit handler" /\ main = "movep HRX") => hsr.HRDF

(* A word of the guest's waits for the DSP. *)
Full == hsr.HRDF \/ at = "receive handler"

(* A guest that waits for TRDY never leaves a word behind in TX; the word  *)
(* that waits is the last one it sent, and the only one not read.          *)
HostFlow ==
    /\ isr.TXDE
    /\ half = "write" => isr.TRDY /\ port.TXH = sent + 1
    /\ Full => HRX = <<sent, sent>> /\ sent = Len(got) + 1
    /\ ~Full => sent = Len(got)
    /\ \A k \in 1 .. Len(got) : got[k] = <<k, k>>

(* The words the guest has read both bytes of. *)
Whole == IF half = "read" THEN Len(taken) - 1 ELSE Len(taken)

(* The word in RX is the next for the guest, the one in HTX the next after *)
(* it and the last that the DSP wrote; HTX is full only behind a full RX.  *)
DspFlow ==
    "HTIE" \notin hcr =>
        /\ \A k \in 1 .. Whole : taken[k] = <<k, k>>
        /\ half = "read" => isr.RXDF /\ taken[Len(taken)] = <<Whole + 1>>
        /\ isr.RXDF => port.RXH = Whole + 1 /\ port.RXL = Whole + 1
        /\ ~isr.RXDF => hsr.HTDE /\ put = Whole
        /\ isr.RXDF /\ hsr.HTDE => put = Whole + 1
        /\ ~hsr.HTDE => put = Whole + 2 /\ HTX = <<put, put>>
        /\ at = "movep HTX" => hsr.HTDE

(* HC tells the guest whether HCP is set, CVR keeps the last command, and  *)
(* each command is served, pending in HCP or about to be vectored.         *)
CommandFlow ==
    /\ cvr.HC = hsr.HCP
    /\ issued > 0 => cvr.vector = issued
    /\ hsr.HCP /\ thread = "vector" => issued = Len(served) + 2
    /\ hsr.HCP /\ thread # "vector" => issued = Len(served) + 1
    /\ ~hsr.HCP /\ thread = "vector" => issued = Len(served) + 1
    /\ ~hsr.HCP /\ thread # "vector" => issued = Len(served)
    /\ issued = Len(served) /\ issued > 0 => served[issued] = issued

(* A command given after dsp_hi_interrupts looked has raised the semaphore, *)
(* and so has a transfer after the DSP found its bit clear.                *)
WakeFlow ==
    /\ at # "enddo" /\ main # "enddo"
    /\ "HCIE" \in hcr /\ hsr.HCP /\ cpu # "resume"
          => sem = 1 \/ thread \in {"interrupts", "clear HC"}
    /\ thread = "pause" /\ at = "jclr HRDF" /\ hsr.HRDF /\ cpu # "resume" => sem = 1
    /\ thread = "pause" /\ at = "jclr HTDE" /\ hsr.HTDE /\ cpu # "resume" => sem = 1

IInv == TypeOK /\ Control /\ ReadsWhenFull /\ TrdyTells

(***************************************************************************)
(* What the four transfers do to the bits.                                 *)
(***************************************************************************)

(* dsp_core_hostport_dspread empties HRX, or fills it with a word from TX. *)
LEMMA DspReadIs ==
    ASSUME isr \in IsrType, hsr \in HsrType, dspread
    PROVE  /\ isr' \in IsrType /\ hsr' \in HsrType
           /\ isr'.TXDE /\ isr'.RXDF = isr.RXDF
           /\ hsr'.HTDE = hsr.HTDE /\ hsr'.HCP = hsr.HCP
           /\ isr.TXDE => isr'.TRDY /\ ~hsr'.HRDF /\ HRX' = HRX
           /\ ~isr.TXDE => ~isr'.TRDY /\ hsr'.HRDF /\ HRX' = <<port.TXH, port.TXL>>
<1> DEFINE h == [hsr EXCEPT !.HRDF = FALSE]
           i == [isr EXCEPT !.TRDY = isr.TXDE /\ ~h.HRDF]
<1>1. /\ h \in HsrType /\ ~h.HRDF /\ h.HTDE = hsr.HTDE /\ h.HCP = hsr.HCP
      /\ i \in IsrType /\ i.TXDE = isr.TXDE /\ i.TRDY = isr.TXDE /\ i.RXDF = isr.RXDF
    BY Zenon DEF HsrType, IsrType
<1>2. port' = port /\ host2dsp(i, h)
    BY DEF dspread, update_trdy
<1> HIDE DEF h, i
<1>3. CASE isr.TXDE
    BY <1>1, <1>2, <1>3, Zenon DEF host2dsp
<1>4. CASE ~isr.TXDE
    <2>1. /\ HRX' = <<port.TXH, port.TXL>> /\ hsr' = [h EXCEPT !.HRDF = TRUE]
          /\ isr' = update_trdy([i EXCEPT !.TXDE = TRUE], hsr')
        BY <1>1, <1>2, <1>4 DEF host2dsp
    <2>2. hsr' \in HsrType /\ hsr'.HRDF /\ hsr'.HTDE = hsr.HTDE /\ hsr'.HCP = hsr.HCP
        BY <1>1, <2>1, Zenon DEF HsrType
    <2>3. isr' \in IsrType /\ isr'.TXDE /\ ~isr'.TRDY /\ isr'.RXDF = isr.RXDF
        BY <1>1, <2>1, <2>2, Zenon DEF IsrType, update_trdy
    <2> QED
        BY <1>4, <2>1, <2>2, <2>3
<1> QED
    BY <1>3, <1>4

(* dsp_core_hostport_cpuwrite passes the word on to an empty HRX. *)
LEMMA CpuWriteIs ==
    ASSUME isr \in IsrType, hsr \in HsrType, cpuwrite
    PROVE  /\ isr' \in IsrType /\ hsr' \in HsrType
           /\ ~isr'.TRDY /\ isr'.RXDF = isr.RXDF
           /\ hsr'.HRDF /\ hsr'.HTDE = hsr.HTDE /\ hsr'.HCP = hsr.HCP
           /\ hsr.HRDF => ~isr'.TXDE /\ HRX' = HRX
           /\ ~hsr.HRDF => isr'.TXDE /\ HRX' = <<port'.TXH, port'.TXL>>
<1> DEFINE i == update_trdy([isr EXCEPT !.TXDE = FALSE], hsr)
<1>1. i \in IsrType /\ ~i.TXDE /\ ~i.TRDY /\ i.RXDF = isr.RXDF
    BY Zenon DEF IsrType, update_trdy
<1>2. host2dsp(i, hsr)
    BY DEF cpuwrite
<1> HIDE DEF i
<1>3. CASE hsr.HRDF
    BY <1>1, <1>2, <1>3 DEF host2dsp
<1>4. CASE ~hsr.HRDF
    <2>1. /\ HRX' = <<port'.TXH, port'.TXL>> /\ hsr' = [hsr EXCEPT !.HRDF = TRUE]
          /\ isr' = update_trdy([i EXCEPT !.TXDE = TRUE], hsr')
        BY <1>1, <1>2, <1>4 DEF host2dsp
    <2>2. hsr' \in HsrType /\ hsr'.HRDF /\ hsr'.HTDE = hsr.HTDE /\ hsr'.HCP = hsr.HCP
        BY <2>1, Zenon DEF HsrType
    <2>3. isr' \in IsrType /\ isr'.TXDE /\ ~isr'.TRDY /\ isr'.RXDF = isr.RXDF
        BY <1>1, <2>1, <2>2, Zenon DEF IsrType, update_trdy
    <2> QED
        BY <1>4, <2>1, <2>2, <2>3
<1> QED
    BY <1>3, <1>4

(* dsp_core_hostport_dspwrite passes the word on to an empty RX. *)
LEMMA DspWriteIs ==
    ASSUME isr \in IsrType, hsr \in HsrType, port \in PortType, HTX' \in Nat \X Nat,
           dspwrite
    PROVE  /\ isr' \in IsrType /\ hsr' \in HsrType /\ port' \in PortType /\ HRX' = HRX
           /\ isr'.TXDE = isr.TXDE /\ isr'.TRDY = isr.TRDY /\ isr'.RXDF
           /\ hsr'.HRDF = hsr.HRDF /\ hsr'.HCP = hsr.HCP
           /\ port'.TXH = port.TXH
           /\ isr.RXDF => ~hsr'.HTDE /\ port' = port
           /\ ~isr.RXDF => hsr'.HTDE /\ port'.RXH = HTX'[1] /\ port'.RXL = HTX'[2]
<1> DEFINE h == [hsr EXCEPT !.HTDE = FALSE]
<1>1. h \in HsrType /\ ~h.HTDE /\ h.HRDF = hsr.HRDF /\ h.HCP = hsr.HCP
    BY Zenon DEF HsrType
<1>2. dsp2host(isr, h) /\ HRX' = HRX
    BY DEF dspwrite
<1> HIDE DEF h
<1>3. CASE isr.RXDF
    BY <1>1, <1>2, <1>3 DEF dsp2host
<1>4. CASE ~isr.RXDF
    <2>1. /\ port' = [port EXCEPT !.RXH = HTX'[1], !.RXL = HTX'[2]]
          /\ hsr' = [h EXCEPT !.HTDE = TRUE] /\ isr' = [isr EXCEPT !.RXDF = TRUE]
        BY <1>1, <1>2, <1>4 DEF dsp2host
    <2>2. hsr' \in HsrType /\ hsr'.HTDE /\ hsr'.HRDF = hsr.HRDF /\ hsr'.HCP = hsr.HCP
        BY <1>1, <2>1, Zenon DEF HsrType
    <2>3. isr' \in IsrType /\ isr'.TXDE = isr.TXDE /\ isr'.TRDY = isr.TRDY /\ isr'.RXDF
        BY <2>1, Zenon DEF IsrType
    <2>4. /\ port' \in PortType /\ port'.TXH = port.TXH
          /\ port'.RXH = HTX'[1] /\ port'.RXL = HTX'[2]
        BY <2>1, Zenon DEF PortType
    <2> QED
        BY <1>2, <1>4, <2>2, <2>3, <2>4
<1> QED
    BY <1>3, <1>4

(* dsp_core_hostport_cpuread empties RX, or fills it with a word from HTX. *)
LEMMA CpuReadIs ==
    ASSUME isr \in IsrType, hsr \in HsrType, port \in PortType, HTX \in Nat \X Nat,
           cpuread
    PROVE  /\ isr' \in IsrType /\ hsr' \in HsrType /\ port' \in PortType
           /\ HRX' = HRX /\ HTX' = HTX
           /\ isr'.TXDE = isr.TXDE /\ isr'.TRDY = isr.TRDY
           /\ hsr'.HRDF = hsr.HRDF /\ hsr'.HTDE /\ hsr'.HCP = hsr.HCP
           /\ port'.TXH = port.TXH
           /\ hsr.HTDE => ~isr'.RXDF /\ port' = port
           /\ ~hsr.HTDE => isr'.RXDF /\ port'.RXH = HTX[1] /\ port'.RXL = HTX[2]
<1> DEFINE i == [isr EXCEPT !.RXDF = FALSE]
<1>1. i \in IsrType /\ ~i.RXDF /\ i.TXDE = isr.TXDE /\ i.TRDY = isr.TRDY
    BY Zenon DEF IsrType
<1>2. dsp2host(i, hsr) /\ HRX' = HRX /\ HTX' = HTX
    BY DEF cpuread
<1> HIDE DEF i
<1>3. CASE hsr.HTDE
    BY <1>1, <1>2, <1>3 DEF dsp2host
<1>4. CASE ~hsr.HTDE
    <2>1. /\ port' = [port EXCEPT !.RXH = HTX[1], !.RXL = HTX[2]]
          /\ hsr' = [hsr EXCEPT !.HTDE = TRUE] /\ isr' = [i EXCEPT !.RXDF = TRUE]
        BY <1>1, <1>2, <1>4 DEF dsp2host
    <2>2. hsr' \in HsrType /\ hsr'.HTDE /\ hsr'.HRDF = hsr.HRDF /\ hsr'.HCP = hsr.HCP
        BY <2>1, Zenon DEF HsrType
    <2>3. isr' \in IsrType /\ isr'.TXDE = isr.TXDE /\ isr'.TRDY = isr.TRDY /\ isr'.RXDF
        BY <1>1, <2>1, Zenon DEF IsrType
    <2>4. /\ port' \in PortType /\ port'.TXH = port.TXH
          /\ port'.RXH = HTX[1] /\ port'.RXL = HTX[2]
        BY <2>1, Zenon DEF PortType
    <2> QED
        BY <1>2, <1>4, <2>2, <2>3, <2>4
<1> QED
    BY <1>3, <1>4

(***************************************************************************)
(* The types.                                                              *)
(***************************************************************************)
(* Every step keeps the types. *)
LEMMA NextType == TypeOK /\ [Next]_vars => TypeOK'
<1> SUFFICES ASSUME TypeOK, [Next]_vars PROVE TypeOK'
    OBVIOUS
<1>1. CASE WriteBootWord \/ Shutdown \/ Loop \/ Setup \/ PollHRDF \/ PollHTDE \/ Sleep
           \/ Interrupts \/ UNCHANGED vars
    <2>1. UNCHANGED <<registers, history, sem, half>>
        BY <1>1 DEF WriteBootWord, Shutdown, Loop, Setup, PollHRDF, PollHTDE, Poll, Sleep,
                    Interrupts, vars
    <2> QED
        BY <2>1 DEF TypeOK, registers, history
<1>2. CASE WriteTXH
    <2>1. /\ port' = [port EXCEPT !.TXH = sent + 1] /\ half' = "write"
          /\ UNCHANGED <<isr, hsr, HRX, HTX, cvr, history, sem>>
        BY <1>2, Zenon DEF WriteTXH
    <2>3. port \in PortType /\ sent + 1 \in Nat
        BY DEF TypeOK
    <2>2. port' \in PortType
        BY <2>1, <2>3 DEF PortType
    <2> QED
        BY <2>1, <2>2 DEF TypeOK, history
<1>3. CASE WriteTXL
    <2>1. /\ port' = [port EXCEPT !.TXL = sent + 1] /\ half' = "none" /\ sent' = sent + 1
          /\ UNCHANGED <<cvr, got, put, taken, issued, served, sem>>
          /\ cpuwrite
        BY <1>3 DEF WriteTXL
    <2>5. port \in PortType /\ sent + 1 \in Nat
        BY DEF TypeOK
    <2>2. port' \in PortType /\ port'.TXH \in Nat /\ port'.TXL \in Nat
        BY <2>1, <2>5 DEF PortType
    <2>3. isr' \in IsrType /\ hsr' \in HsrType /\ HRX' \in Nat \X Nat
        BY <2>1, <2>2, CpuWriteIs DEF TypeOK
    <2>4. HTX' = HTX
        BY <2>1 DEF cpuwrite
    <2> QED
        BY <2>1, <2>2, <2>3, <2>4 DEF TypeOK
<1>4. CASE ReadRXH
    <2>1. /\ taken' = Append(taken, <<port.RXH>>)
          /\ UNCHANGED <<registers, sent, got, put, issued, served, sem>>
        BY <1>4, Zenon DEF ReadRXH
    <2>2. <<port.RXH>> \in Seq(Nat)
        BY DEF TypeOK, PortType
    <2>3. taken' \in Seq(Seq(Nat)) /\ Len(taken') > 0
        BY <2>1, <2>2 DEF TypeOK
    <2> QED
        BY <2>1, <2>3 DEF TypeOK, registers
<1>5. CASE ReadRXL
    <2>1. /\ half = "read" /\ half' = "none"
          /\ taken' = [taken EXCEPT ![Len(taken)] = Append(taken[Len(taken)], port.RXL)]
          /\ UNCHANGED <<cvr, sent, got, put, issued, served, sem>>
          /\ cpuread
        BY <1>5 DEF ReadRXL
    <2>2. Len(taken) \in 1 .. Len(taken) /\ taken[Len(taken)] \in Seq(Nat)
        BY <2>1 DEF TypeOK
    <2>3. Append(taken[Len(taken)], port.RXL) \in Seq(Nat)
        BY <2>2 DEF TypeOK, PortType
    <2>4. taken' \in Seq(Seq(Nat))
        BY <2>1, <2>2, <2>3, ExceptSeq DEF TypeOK
    <2>5. /\ isr' \in IsrType /\ hsr' \in HsrType /\ port' \in PortType
          /\ HRX' = HRX /\ HTX' = HTX
        BY <2>1, CpuReadIs DEF TypeOK
    <2> QED
        BY <2>1, <2>4, <2>5 DEF TypeOK
<1>6. CASE WriteCVR
    <2>1. /\ issued' = issued + 1 /\ cvr' = [HC |-> TRUE, vector |-> issued + 1]
          /\ hsr' = [hsr EXCEPT !.HCP = TRUE]
          /\ UNCHANGED <<isr, port, HRX, HTX, sent, got, put, taken, served, sem, half>>
        BY <1>6, Zenon DEF WriteCVR
    <2>2. hsr' \in HsrType
        BY <2>1, Zenon DEF TypeOK, HsrType
    <2> QED
        BY <2>1, <2>2 DEF TypeOK
<1>7. CASE Resume \/ ShutdownResume
    <2>1. UNCHANGED <<registers, history, half>> /\ sem' = IF sem = 0 THEN 1 ELSE sem
        BY <1>7 DEF Resume, ShutdownResume, resumeThread
    <2> QED
        BY <2>1 DEF TypeOK, registers, history
<1>8. CASE Restart
    <2>1. isr' \in IsrType /\ hsr' \in HsrType /\ cvr' \in [HC : BOOLEAN, vector : Nat]
        BY <1>8 DEF Restart, ResetRegisters, IsrType, HsrType
    <2> QED
        BY <1>8, <2>1 DEF Restart, TypeOK
<1>9. CASE pauseThread
    <2>1. UNCHANGED <<registers, history, half>> /\ sem > 0 /\ sem' = sem - 1
        BY <1>9 DEF pauseThread
    <2>2. sem' \in {0, 1}
        BY <2>1 DEF TypeOK
    <2> QED
        BY <2>1, <2>2 DEF TypeOK, registers, history
<1>10. CASE ReadHRX
    <2>1. /\ dspread /\ got' = Append(got, HRX')
          /\ UNCHANGED <<cvr, sent, put, taken, issued, served, sem, half>>
        BY <1>10 DEF ReadHRX
    <2>2. isr' \in IsrType /\ hsr' \in HsrType /\ port' = port /\ HTX' = HTX
        BY <2>1, DspReadIs DEF TypeOK, dspread
    <2>3. HRX' \in Nat \X Nat
        <3>1. HRX' = HRX \/ HRX' = <<port.TXH, port.TXL>>
            BY <2>1, DspReadIs DEF TypeOK
        <3> QED
            BY <3>1 DEF TypeOK, PortType
    <2>4. got' \in Seq(Nat \X Nat)
        BY <2>1, <2>3 DEF TypeOK
    <2> QED
        BY <2>1, <2>2, <2>3, <2>4 DEF TypeOK
<1>11. CASE WriteHTX
    <2>1. /\ HTX' = <<put + 1, put + 1>> /\ put' = put + 1 /\ dspwrite
          /\ UNCHANGED <<cvr, sent, got, taken, issued, served, sem, half>>
        BY <1>11 DEF WriteHTX
    <2>2. HTX' \in Nat \X Nat /\ put' \in Nat
        BY <2>1 DEF TypeOK
    <2>3. isr' \in IsrType /\ hsr' \in HsrType /\ port' \in PortType /\ HRX' = HRX
        BY <2>1, <2>2, DspWriteIs DEF TypeOK
    <2> QED
        BY <2>1, <2>2, <2>3 DEF TypeOK
<1>12. CASE ClearHC
    <2>1. /\ hsr' = [hsr EXCEPT !.HCP = FALSE] /\ cvr' = [cvr EXCEPT !.HC = FALSE]
          /\ UNCHANGED <<isr, port, HRX, HTX, history, sem, half>>
        BY <1>12 DEF ClearHC
    <2>2. hsr' \in HsrType /\ cvr' \in [HC : BOOLEAN, vector : Nat]
        BY <2>1, Zenon DEF TypeOK, HsrType
    <2> QED
        BY <2>1, <2>2 DEF TypeOK, history
<1>13. CASE TakeVector
    <2>1. /\ served' = Append(served, cvr.vector)
          /\ UNCHANGED <<registers, sent, got, put, taken, issued, sem, half>>
        BY <1>13 DEF TakeVector
    <2>2. served' \in Seq(Nat)
        BY <2>1 DEF TypeOK
    <2> QED
        BY <2>1, <2>2 DEF TypeOK, registers
<1>14. CASE FastInterrupt
    <2>1. /\ hsr' = [hsr EXCEPT !.HRDF = FALSE] \/ hsr' = [hsr EXCEPT !.HTDE = FALSE]
          /\ UNCHANGED <<isr, port, HRX, HTX, cvr, history, sem, half>>
        BY <1>14 DEF FastInterrupt
    <2>2. hsr' \in HsrType
        BY <2>1, Zenon DEF TypeOK, HsrType
    <2> QED
        BY <2>1, <2>2 DEF TypeOK, history
<1> QED
    BY <1>1, <1>2, <1>3, <1>4, <1>5, <1>6, <1>7, <1>8, <1>9, <1>10, <1>11, <1>12, <1>13,
       <1>14 DEF Next, CpuCall, Guest, Dsp

(***************************************************************************)
(* Control of the DSP thread.                                              *)
(***************************************************************************)
(* The guest's calls leave the DSP thread alone and set bits of HSR only.  *)
LEMMA GuestControl ==
    ASSUME TypeOK, Control, ReadsWhenFull, Guest \/ Resume \/ ShutdownResume
    PROVE  UNCHANGED dspState /\ Control' /\ ReadsWhenFull'
<1>1. UNCHANGED dspState /\ (hsr.HRDF => hsr'.HRDF) /\ (hsr.HCP => hsr'.HCP)
    <2>1. CASE WriteBootWord \/ WriteTXH \/ ReadRXH \/ Shutdown \/ Resume \/ ShutdownResume
        BY <2>1 DEF WriteBootWord, WriteTXH, ReadRXH, Shutdown, Resume, ShutdownResume, registers
    <2>2. CASE WriteTXL
        <3>1. hsr'.HRDF /\ hsr'.HCP = hsr.HCP
            BY <2>2, CpuWriteIs DEF WriteTXL, TypeOK
        <3> QED
            BY <2>2, <3>1 DEF WriteTXL
    <2>3. CASE ReadRXL
        <3>1. hsr'.HRDF = hsr.HRDF /\ hsr'.HCP = hsr.HCP
            BY <2>3, CpuReadIs DEF ReadRXL, TypeOK
        <3> QED
            BY <2>3, <3>1 DEF ReadRXL
    <2>4. CASE WriteCVR
        <3>1. hsr'.HRDF = hsr.HRDF /\ hsr'.HCP
            BY <2>4, Zenon DEF WriteCVR, TypeOK, HsrType
        <3> QED
            BY <2>4, <3>1, Zenon DEF WriteCVR
    <2> QED
        BY <2>1, <2>2, <2>3, <2>4 DEF Guest
<1> QED
    BY <1>1 DEF Control, ReadsWhenFull, dspState

(* The DSP's own steps. *)
LEMMA DspControl ==
    ASSUME TypeOK, Control, ReadsWhenFull, Dsp
    PROVE  Control' /\ ReadsWhenFull'
<1> USE DEF Handlers
<1>1. CASE pauseThread
    BY <1>1 DEF pauseThread, registers, Control, ReadsWhenFull
<1>2. CASE Loop
    BY <1>2 DEF Loop, registers, Control, ReadsWhenFull
<1>3. CASE Setup
    <2>1. PICK p \in Programs :
            /\ thread = "execute" /\ at = "setup" /\ thread' = "interrupts"
            /\ hcr' = {"HCIE"} \cup (IF p = "transmit" THEN {"HTIE"} ELSE {})
                               \cup (IF p = "sleep" THEN {"HRIE"} ELSE {})
            /\ at' = IF p = "sleep" THEN "jmp self"
                     ELSE IF p = "enddo" THEN "enddo" ELSE "jclr HRDF"
            /\ UNCHANGED <<registers, main>>
        BY <1>3 DEF Setup, Executed
    <2>2. "HRIE" \in hcr' => at' = "jmp self" /\ "HTIE" \notin hcr'
        BY <2>1
    <2>3. at' \in {"jmp self", "enddo", "jclr HRDF"}
        BY <2>1
    <2> QED
        BY <2>1, <2>2, <2>3 DEF Control, ReadsWhenFull
<1>4. CASE PollHRDF
    BY <1>4 DEF PollHRDF, Poll, Executed, registers, Control, ReadsWhenFull
<1>5. CASE PollHTDE
    BY <1>5 DEF PollHTDE, Poll, Executed, registers, Control, ReadsWhenFull
<1>6. CASE Sleep
    BY <1>6 DEF Sleep, registers, Control, ReadsWhenFull
<1>7. CASE ReadHRX
    <2>1. hsr'.HCP = hsr.HCP
        BY <1>7, DspReadIs DEF ReadHRX, TypeOK
    <2>2. /\ thread = "execute" /\ hcr' = hcr /\ main' = main
          /\ \/ at = "movep HRX" /\ at' = "jclr HTDE" /\ thread' = "interrupts"
             \/ at = "receive handler" /\ at' = main /\ thread' = "loop"
        BY <1>7 DEF ReadHRX, Executed
    <2>3. CASE at = "movep HRX"
        BY <2>2, <2>3 DEF Control, ReadsWhenFull
    <2>4. CASE at = "receive handler"
        BY <2>2, <2>4 DEF Control, ReadsWhenFull
    <2> QED
        BY <2>2, <2>3, <2>4
<1>8. CASE WriteHTX
    <2>4. put + 1 \in Nat
        BY DEF TypeOK
    <2>1. HTX' \in Nat \X Nat
        BY <1>8, <2>4 DEF WriteHTX
    <2>2. hsr'.HRDF = hsr.HRDF /\ hsr'.HCP = hsr.HCP
        BY <1>8, <2>1, DspWriteIs DEF WriteHTX, TypeOK
    <2>3. /\ thread = "execute" /\ hcr' = hcr /\ main' = main
          /\ \/ at = "movep HTX" /\ at' = "jclr HRDF" /\ thread' = "interrupts"
             \/ at = "transmit handler" /\ at' = main /\ thread' = "loop"
        BY <1>8 DEF WriteHTX, Executed
    <2> QED
        BY <2>2, <2>3 DEF Control, ReadsWhenFull
<1>9. CASE Interrupts
    <2>1. /\ thread = "interrupts" /\ UNCHANGED <<hsr, hcr, at, main>>
          /\ \/ thread' = "clear HC" /\ hsr.HCP
             \/ thread' = "clear HRDF" /\ hsr.HRDF /\ "HRIE" \in hcr
             \/ thread' = "clear HTDE" /\ "HTIE" \in hcr
             \/ thread' = "loop"
        BY <1>9 DEF Interrupts, registers
    <2> QED
        BY <2>1 DEF Control, ReadsWhenFull
<1>10. CASE ClearHC
    <2>1. /\ thread = "clear HC" /\ thread' = "vector" /\ UNCHANGED <<hcr, at, main>>
          /\ hsr'.HRDF = hsr.HRDF
        BY <1>10 DEF ClearHC, TypeOK, HsrType
    <2> QED
        BY <2>1 DEF Control, ReadsWhenFull
<1>11. CASE TakeVector
    BY <1>11 DEF TakeVector, registers, Control, ReadsWhenFull
<1>12. CASE FastInterrupt
    <2>1. /\ main' = at /\ thread' = "loop" /\ hcr' = hcr
          /\ \/ thread = "clear HRDF" /\ at' = "receive handler"
             \/ /\ thread = "clear HTDE" /\ at' = "transmit handler"
                /\ hsr' = [hsr EXCEPT !.HTDE = FALSE]
        BY <1>12 DEF FastInterrupt
    <2>2. thread = "clear HTDE" => hsr'.HRDF = hsr.HRDF
        BY <2>1 DEF TypeOK, HsrType
    <2> QED
        BY <2>1, <2>2 DEF Control, ReadsWhenFull
<1> QED
    BY <1>1, <1>2, <1>3, <1>4, <1>5, <1>6, <1>7, <1>8, <1>9, <1>10, <1>11, <1>12 DEF Dsp

(***************************************************************************)
(* TRDY.                                                                   *)
(***************************************************************************)
(* A step that leaves TXDE, TRDY and HRDF alone, and the receive handler.  *)
LEMMA KeepsTrdy ==
    ASSUME TrdyTells, isr' = isr, hsr'.HRDF = hsr.HRDF,
           at' = "receive handler" <=> at = "receive handler"
    PROVE  TrdyTells'
BY DEF TrdyTells

(* Every step keeps TRDY true to the two registers. *)
LEMMA NextTrdy == TypeOK /\ Control /\ TrdyTells /\ [Next]_vars => TrdyTells'
<1> SUFFICES ASSUME TypeOK, Control, TrdyTells, [Next]_vars PROVE TrdyTells'
    OBVIOUS
<1>1. CASE \/ WriteBootWord \/ Shutdown \/ WriteTXH \/ ReadRXH \/ Resume \/ ShutdownResume
           \/ pauseThread \/ Loop \/ Setup \/ PollHRDF \/ PollHTDE \/ Sleep \/ Interrupts
           \/ TakeVector \/ UNCHANGED vars
    <2>1. isr' = isr /\ hsr' = hsr
        BY <1>1 DEF WriteBootWord, Shutdown, WriteTXH, ReadRXH, Resume, ShutdownResume,
                    pauseThread, Loop, Setup, PollHRDF, PollHTDE, Poll, Sleep, Interrupts,
                    TakeVector, vars, registers
    <2>2. at' = "receive handler" <=> at = "receive handler"
        BY <1>1 DEF WriteBootWord, Shutdown, WriteTXH, ReadRXH, Resume, ShutdownResume,
                    pauseThread, Loop, Setup, PollHRDF, PollHTDE, Poll, Sleep, Interrupts,
                    TakeVector, Executed, vars, dspState
    <2> QED
        BY <2>1, <2>2, KeepsTrdy
<1>2. CASE WriteTXL
    <2>1. ~isr'.TRDY /\ hsr'.HRDF /\ isr' \in IsrType
        BY <1>2, CpuWriteIs DEF WriteTXL, TypeOK
    <2> QED
        BY <2>1 DEF TrdyTells, IsrType
<1>3. CASE ReadRXL
    <2>1. /\ isr'.TXDE = isr.TXDE /\ isr'.TRDY = isr.TRDY /\ hsr'.HRDF = hsr.HRDF
        BY <1>3, CpuReadIs DEF ReadRXL, TypeOK
    <2>2. at' = at
        BY <1>3 DEF ReadRXL, dspState
    <2> QED
        BY <2>1, <2>2 DEF TrdyTells
<1>4. CASE WriteCVR
    <2>1. isr' = isr /\ at' = at /\ hsr'.HRDF = hsr.HRDF
        BY <1>4, Zenon DEF WriteCVR, TypeOK, HsrType, dspState
    <2> QED
        BY <2>1, KeepsTrdy
<1>5. CASE Restart
    BY <1>5 DEF Restart, ResetRegisters, TrdyTells
<1>6. CASE ReadHRX
    <2>1. /\ isr' \in IsrType /\ isr'.TXDE /\ hsr' \in HsrType
          /\ isr.TXDE => isr'.TRDY /\ ~hsr'.HRDF
          /\ ~isr.TXDE => ~isr'.TRDY /\ hsr'.HRDF
        BY <1>6, DspReadIs DEF ReadHRX, TypeOK
    <2>2. at' # "receive handler"
        BY <1>6 DEF ReadHRX, Executed, Control, Handlers
    <2> QED
        BY <2>1, <2>2 DEF TrdyTells, IsrType, HsrType
<1>7. CASE WriteHTX
    <2>1. put + 1 \in Nat
        BY DEF TypeOK
    <2>2. HTX' \in Nat \X Nat
        BY <1>7, <2>1 DEF WriteHTX
    <2>3. isr'.TXDE = isr.TXDE /\ isr'.TRDY = isr.TRDY /\ hsr'.HRDF = hsr.HRDF
        BY <1>7, <2>2, DspWriteIs DEF WriteHTX, TypeOK
    <2>4. at' # "receive handler" /\ at # "receive handler"
        BY <1>7 DEF WriteHTX, Executed, Control, Handlers
    <2> QED
        BY <2>3, <2>4 DEF TrdyTells
<1>8. CASE ClearHC
    <2>1. isr' = isr /\ at' = at /\ hsr'.HRDF = hsr.HRDF
        BY <1>8 DEF ClearHC, TypeOK, HsrType
    <2> QED
        BY <2>1, KeepsTrdy
<1>9. CASE FastInterrupt
    <2>1. CASE thread = "clear HRDF"
        <3>1. isr' = isr /\ at' = "receive handler" /\ hsr.HRDF
            BY <1>9, <2>1 DEF FastInterrupt, Control
        <3> QED
            BY <3>1 DEF TrdyTells
    <2>2. CASE thread = "clear HTDE"
        <3>1. /\ isr' = isr /\ at' = "transmit handler" /\ at # "receive handler"
              /\ hsr' = [hsr EXCEPT !.HTDE = FALSE]
            BY <1>9, <2>2 DEF FastInterrupt, Control, Handlers
        <3>2. hsr'.HRDF = hsr.HRDF
            BY <3>1 DEF TypeOK, HsrType
        <3> QED
            BY <3>1, <3>2, KeepsTrdy
    <2> QED
        BY <1>9, <2>1, <2>2 DEF FastInterrupt
<1> QED
    BY <1>1, <1>2, <1>3, <1>4, <1>5, <1>6, <1>7, <1>8, <1>9 DEF Next, CpuCall, Guest, Dsp

(* Control, types and TRDY hold in every reachable state. *)
THEOREM Invariance == Spec => []IInv
<1>1. Init => IInv
    <2>1. Init => TypeOK
        <3> SUFFICES ASSUME Init PROVE TypeOK
            OBVIOUS
        <3>1. isr \in IsrType /\ hsr \in HsrType /\ port \in PortType
              /\ cvr \in [HC : BOOLEAN, vector : Nat]
            BY DEF Init, ResetRegisters, IsrType, HsrType, PortType
        <3>2. /\ HRX \in Nat \X Nat /\ HTX \in Nat \X Nat /\ sem \in {0, 1} /\ half = "none"
              /\ sent \in Nat /\ put \in Nat /\ issued \in Nat
            BY DEF Init
        <3>3. got \in Seq(Nat \X Nat) /\ taken \in Seq(Seq(Nat)) /\ served \in Seq(Nat)
            BY DEF Init
        <3> QED
            BY <3>1, <3>2, <3>3 DEF TypeOK
    <2>2. Init => Control /\ ReadsWhenFull
        BY DEF Init, Control, Handlers, ReadsWhenFull
    <2>3. Init => TrdyTells
        <3> SUFFICES ASSUME Init PROVE TrdyTells
            OBVIOUS
        <3>1. isr.TRDY = TRUE /\ isr.TXDE = TRUE /\ hsr.HRDF = FALSE /\ at = "setup"
            BY DEF Init, ResetRegisters
        <3> QED
            BY <3>1, Zenon DEF TrdyTells
    <2> QED
        BY <2>1, <2>2, <2>3 DEF IInv
<1>2. IInv /\ [Next]_vars => IInv'
    <2> SUFFICES ASSUME IInv, [Next]_vars PROVE IInv'
        OBVIOUS
    <2>1. TypeOK'
        BY NextType DEF IInv
    <2>2. TrdyTells'
        BY NextTrdy DEF IInv
    <2>3. Control' /\ ReadsWhenFull'
        <3>1. CASE Guest \/ Resume \/ ShutdownResume
            BY <3>1, GuestControl DEF IInv
        <3>2. CASE Dsp
            BY <3>2, DspControl DEF IInv
        <3>3. CASE Restart
            BY <3>3 DEF Restart, Control, Handlers, ReadsWhenFull
        <3>4. CASE UNCHANGED vars
            BY <3>4 DEF IInv, vars, dspState, registers, Control, ReadsWhenFull
        <3> QED
            BY <3>1, <3>2, <3>3, <3>4 DEF Next, CpuCall
    <2> QED
        BY <2>1, <2>2, <2>3 DEF IInv
<1> QED
    BY <1>1, <1>2, PTL DEF Spec

(* The bit TRDY that dsp_core_hostport_update_trdy keeps in ISR is right,   *)
(* whatever bit the guest polls and whatever the DSP runs: set exactly when *)
(* a word would go straight to an empty HRX, except while a receive handler *)
(* has still to read.                                                       *)
THEOREM TrdyIsTrue == Spec => []TrdyTells
<1>1. IInv => TrdyTells
    BY DEF IInv
<1> QED
    BY <1>1, Invariance, PTL

(***************************************************************************)
(* Words from the guest.                                                   *)
(***************************************************************************)
(* A step that neither sends a word nor reads one. *)
LEMMA KeepsHost ==
    ASSUME HostFlow, isr'.TXDE = isr.TXDE, isr'.TRDY = isr.TRDY,
           half' = "write" => half = "write", port'.TXH = port.TXH,
           hsr'.HRDF = hsr.HRDF, at' = "receive handler" <=> at = "receive handler",
           HRX' = HRX, sent' = sent, got' = got
    PROVE  HostFlow'
<1>1. Full' <=> Full
    BY DEF Full
<1> QED
    BY <1>1 DEF HostFlow

(* The guest's calls. *)
LEMMA GuestHost ==
    ASSUME IInv, HostFlow, HostWaits = "TRDY", Guest \/ CpuCall
    PROVE  HostFlow'
<1>1. CASE WriteBootWord \/ Shutdown \/ Resume \/ ShutdownResume \/ ReadRXH
    <2>1. UNCHANGED <<registers, dspState, sent, got>> /\ (half' = half \/ half' = "read")
        BY <1>1 DEF WriteBootWord, Shutdown, Resume, ShutdownResume, ReadRXH, history
    <2> QED
        BY <2>1, KeepsHost DEF registers, dspState
<1>2. CASE WriteTXH
    <2>1. /\ isr["TRDY"] /\ port' = [port EXCEPT !.TXH = sent + 1]
          /\ UNCHANGED <<isr, hsr, HRX, at, sent, got>>
        BY <1>2, Zenon DEF WriteTXH, dspState, history
    <2>2. port'.TXH = sent + 1
        BY <2>1 DEF IInv, TypeOK, PortType
    <2>3. Full' <=> Full
        BY <2>1 DEF Full
    <2> QED
        BY <2>1, <2>2, <2>3 DEF HostFlow
<1>3. CASE WriteTXL
    <2>1. /\ half = "write" /\ half' = "none"
          /\ port' = [port EXCEPT !.TXL = sent + 1] /\ sent' = sent + 1
          /\ cpuwrite /\ UNCHANGED <<at, got>>
        BY <1>3 DEF WriteTXL, dspState
    <2>2. isr.TRDY /\ port.TXH = sent + 1
        BY <2>1 DEF HostFlow
    <2>3. ~hsr.HRDF /\ at # "receive handler"
        BY <2>2 DEF IInv, TrdyTells
    <2>4. sent = Len(got)
        BY <2>3 DEF HostFlow, Full
    <2>5. isr'.TXDE /\ hsr'.HRDF /\ HRX' = <<port'.TXH, port'.TXL>>
        BY <2>1, <2>3, CpuWriteIs DEF IInv, TypeOK
    <2>6. port'.TXH = sent + 1 /\ port'.TXL = sent + 1
        BY <2>1, <2>2 DEF IInv, TypeOK, PortType
    <2>7. Full'
        BY <2>5 DEF Full
    <2> QED
        BY <2>1, <2>4, <2>5, <2>6, <2>7 DEF HostFlow
<1>4. CASE ReadRXL
    <2>1. /\ isr'.TXDE = isr.TXDE /\ isr'.TRDY = isr.TRDY /\ hsr'.HRDF = hsr.HRDF
          /\ port'.TXH = port.TXH /\ HRX' = HRX
        BY <1>4, CpuReadIs DEF ReadRXL, IInv, TypeOK
    <2>2. half' = "none" /\ UNCHANGED <<at, sent, got>>
        BY <1>4 DEF ReadRXL, dspState
    <2> QED
        BY <2>1, <2>2, KeepsHost
<1>5. CASE WriteCVR
    <2>1. /\ hsr' = [hsr EXCEPT !.HCP = TRUE]
          /\ UNCHANGED <<isr, port, HRX, at, sent, got, half>>
        BY <1>5, Zenon DEF WriteCVR, dspState
    <2>2. hsr'.HRDF = hsr.HRDF
        BY <2>1 DEF IInv, TypeOK, HsrType
    <2> QED
        BY <2>1, <2>2, KeepsHost
<1>6. CASE Restart
    <2>1. /\ isr'.TXDE = TRUE /\ hsr'.HRDF = FALSE /\ at' = "setup" /\ half' = "none"
          /\ sent' = 0 /\ got' = <<>>
        BY <1>6 DEF Restart, ResetRegisters
    <2>2. ~Full'
        BY <2>1 DEF Full
    <2> QED
        BY <2>1, <2>2 DEF HostFlow
<1> QED
    BY <1>1, <1>2, <1>3, <1>4, <1>5, <1>6 DEF Guest, CpuCall

(* The DSP's steps. *)
LEMMA DspHost ==
    ASSUME IInv, HostFlow, Dsp
    PROVE  HostFlow'
<1>1. CASE \/ pauseThread \/ Loop \/ Setup \/ PollHRDF \/ PollHTDE \/ Sleep \/ Interrupts
           \/ TakeVector
    <2>1. UNCHANGED <<registers, sent, got, half>>
        BY <1>1 DEF pauseThread, Loop, Setup, PollHRDF, PollHTDE, Poll, Sleep, Interrupts,
                    TakeVector, history
    <2>2. at' = "receive handler" <=> at = "receive handler"
        BY <1>1 DEF pauseThread, Loop, Setup, PollHRDF, PollHTDE, Poll, Sleep, Interrupts,
                    TakeVector, Executed
    <2> QED
        BY <2>1, <2>2, KeepsHost DEF registers
<1>2. CASE ReadHRX
    <2>1. /\ dspread /\ got' = Append(got, HRX') /\ UNCHANGED <<sent, half>>
          /\ at \in {"movep HRX", "receive handler"}
        BY <1>2 DEF ReadHRX
    <2>2. Full
        BY <2>1 DEF IInv, ReadsWhenFull, Full
    <2>3. isr'.TXDE /\ isr'.TRDY /\ ~hsr'.HRDF /\ HRX' = HRX
        BY <2>1, DspReadIs DEF IInv, TypeOK, HostFlow
    <2>4. port' = port
        BY <2>1 DEF dspread
    <2>5. at' # "receive handler"
        BY <1>2 DEF ReadHRX, Executed, IInv, Control, Handlers
    <2>6. ~Full'
        BY <2>3, <2>5 DEF Full
    <2>7. HRX = <<sent, sent>> /\ sent = Len(got) + 1
        BY <2>2 DEF HostFlow
    <2>8. Len(got') = sent /\ \A k \in 1 .. Len(got') : got'[k] = <<k, k>>
        <3>1. got \in Seq(Nat \X Nat) /\ HRX \in Nat \X Nat
            BY DEF IInv, TypeOK
        <3>2. /\ Len(got') = Len(got) + 1 /\ got'[Len(got) + 1] = HRX
              /\ \A k \in 1 .. Len(got) : got'[k] = got[k]
            <4>1. got' = Append(got, HRX)
                BY <2>1, <2>3
            <4> QED
                BY <3>1, <4>1, AppendProperties
        <3>3. Len(got) \in Nat /\ \A k \in 1 .. Len(got) : got[k] = <<k, k>>
            BY <3>1 DEF HostFlow
        <3>4. \A k \in 1 .. Len(got) + 1 : k = Len(got) + 1 \/ k \in 1 .. Len(got)
            BY <3>3
        <3> QED
            BY <2>7, <3>2, <3>3, <3>4
    <2> QED
        BY <2>1, <2>3, <2>4, <2>6, <2>8 DEF HostFlow
<1>3. CASE WriteHTX
    <2>1. put + 1 \in Nat
        BY DEF IInv, TypeOK
    <2>2. HTX' \in Nat \X Nat
        BY <1>3, <2>1 DEF WriteHTX
    <2>3. /\ isr'.TXDE = isr.TXDE /\ isr'.TRDY = isr.TRDY /\ hsr'.HRDF = hsr.HRDF
          /\ port'.TXH = port.TXH /\ HRX' = HRX
        BY <1>3, <2>2, DspWriteIs DEF WriteHTX, IInv, TypeOK
    <2>4. at' # "receive handler" /\ at # "receive handler"
        BY <1>3 DEF WriteHTX, Executed, IInv, Control, Handlers
    <2>5. UNCHANGED <<sent, got, half>>
        BY <1>3 DEF WriteHTX
    <2> QED
        BY <2>3, <2>4, <2>5, KeepsHost
<1>4. CASE ClearHC
    <2>1. hsr' = [hsr EXCEPT !.HCP = FALSE] /\ UNCHANGED <<isr, port, HRX, at, sent, got, half>>
        BY <1>4 DEF ClearHC, history
    <2>2. hsr'.HRDF = hsr.HRDF
        BY <2>1 DEF IInv, TypeOK, HsrType
    <2> QED
        BY <2>1, <2>2, KeepsHost
<1>5. CASE FastInterrupt
    <2>1. UNCHANGED <<isr, port, HRX, sent, got, half>>
        BY <1>5 DEF FastInterrupt, history
    <2>2. CASE thread = "clear HRDF"
        <3>1. Full /\ Full'
            BY <1>5, <2>2 DEF FastInterrupt, IInv, Control, Full
        <3> QED
            BY <2>1, <3>1 DEF HostFlow
    <2>3. CASE thread = "clear HTDE"
        <3>1. /\ hsr' = [hsr EXCEPT !.HTDE = FALSE]
              /\ at' = "transmit handler" /\ at # "receive handler"
            BY <1>5, <2>3 DEF FastInterrupt, IInv, Control, Handlers
        <3>2. hsr'.HRDF = hsr.HRDF
            BY <3>1 DEF IInv, TypeOK, HsrType
        <3> QED
            BY <2>1, <3>1, <3>2, KeepsHost
    <2> QED
        BY <1>5, <2>2, <2>3 DEF FastInterrupt
<1> QED
    BY <1>1, <1>2, <1>3, <1>4, <1>5 DEF Dsp

(* A guest that waits for TRDY before it writes loses no word, and the DSP *)
(* reads each whole, once and in order: by polling or in its receive       *)
(* handler, and however the calls of the two threads interleave.  (A guest *)
(* that waits for TXDE may lose one: Dsp_txde.cfg.)                        *)
THEOREM HostWordsArrive ==
    ASSUME HostWaits = "TRDY"
    PROVE  Spec => []HostWordsKept
<1>1. Init => HostFlow
    <2> SUFFICES ASSUME Init PROVE HostFlow
        OBVIOUS
    <2>1. /\ isr.TXDE = TRUE /\ hsr.HRDF = FALSE /\ at = "setup" /\ half = "none"
          /\ sent = 0 /\ got = <<>>
        BY DEF Init, ResetRegisters
    <2>2. ~Full
        BY <2>1 DEF Full
    <2> QED
        BY <2>1, <2>2 DEF HostFlow
<1>2. IInv /\ HostFlow /\ [Next]_vars => HostFlow'
    <2>1. IInv /\ HostFlow /\ UNCHANGED vars => HostFlow'
        BY KeepsHost DEF vars, registers, dspState, history
    <2> QED
        BY <2>1, GuestHost, DspHost DEF Next
<1>3. IInv /\ HostFlow => HostWordsKept
    <2> SUFFICES ASSUME IInv, HostFlow PROVE HostWordsKept
        OBVIOUS
    <2>1. got \in Seq(Nat \X Nat) /\ DOMAIN got = 1 .. Len(got) /\ Len(got) \in Nat
        BY DEF IInv, TypeOK
    <2>2. One(~isr.TXDE) = 0 /\ One(Full) = IF Full THEN 1 ELSE 0
        BY DEF HostFlow, One
    <2>3. sent = Len(got) + One(Full)
        BY <2>1, <2>2 DEF HostFlow
    <2>4. sent = Len(got) + One(Full) + One(~isr.TXDE)
        <3>1. One(~isr.TXDE) = 0
            BY <2>2
        <3>2. Len(got) + One(Full) \in Nat
            BY <2>1, <2>2
        <3>3. \A n \in Nat : n + 0 = n
            OBVIOUS
        <3> QED
            BY <2>3, <3>1, <3>2, <3>3, Zenon
    <2> QED
        BY <2>1, <2>4 DEF HostWordsKept, HostFlow, Full
<1> QED
    BY <1>1, <1>2, <1>3, Invariance, PTL DEF Spec

(***************************************************************************)
(* Words from the DSP.                                                     *)
(***************************************************************************)
(* A step that neither writes a word nor reads one. *)
LEMMA KeepsDsp ==
    ASSUME DspFlow, "HTIE" \in hcr => "HTIE" \in hcr',
           isr'.RXDF = isr.RXDF, hsr'.HTDE = hsr.HTDE,
           port'.RXH = port.RXH, port'.RXL = port.RXL,
           half' = "read" <=> half = "read", HTX' = HTX, put' = put, taken' = taken,
           at' = "movep HTX" => at = "movep HTX" \/ hsr.HTDE
    PROVE  DspFlow'
<1>1. Whole' = Whole
    BY DEF Whole
<1> QED
    BY <1>1 DEF DspFlow

(* The guest reads the first byte of a word. *)
LEMMA FirstByteDsp ==
    ASSUME IInv, DspFlow, ReadRXH
    PROVE  DspFlow'
<1>1. /\ half = "none" /\ half' = "read" /\ isr.RXDF
      /\ taken' = Append(taken, <<port.RXH>>)
      /\ UNCHANGED <<isr, hsr, port, HTX, hcr, at, put>>
    BY Zenon DEF ReadRXH, registers, dspState
<1> SUFFICES ASSUME "HTIE" \notin hcr PROVE DspFlow'
    BY <1>1 DEF DspFlow
<1>2. taken \in Seq(Seq(Nat)) /\ Len(taken) \in Nat /\ <<port.RXH>> \in Seq(Nat)
    BY DEF IInv, TypeOK, PortType
<1>3. /\ Len(taken') = Len(taken) + 1 /\ taken'[Len(taken) + 1] = <<port.RXH>>
      /\ \A k \in 1 .. Len(taken) : taken'[k] = taken[k]
    BY <1>1, <1>2, AppendProperties
<1>4. Whole = Len(taken)
    BY <1>1 DEF Whole
<1>5. Whole' = Len(taken)
    <2>1. Whole' = Len(taken') - 1
        BY <1>1 DEF Whole
    <2> QED
        BY <1>2, <1>3, <2>1
<1>6. port.RXH = Len(taken) + 1
    BY <1>1, <1>4 DEF DspFlow
<1> QED
    BY <1>1, <1>3, <1>4, <1>5, <1>6 DEF DspFlow

(* Two bytes make a word. *)
LEMMA TwoBytes ==
    ASSUME NEW a \in Nat, NEW b \in Nat
    PROVE  Append(<<a>>, b) = <<a, b>>
<1>1. <<a>> \in Seq(Nat) /\ Len(<<a>>) = 1 /\ <<a, b>> \in Seq(Nat) /\ Len(<<a, b>>) = 2
    OBVIOUS
<1>2. /\ Append(<<a>>, b) \in Seq(Nat) /\ Len(Append(<<a>>, b)) = 2
      /\ Append(<<a>>, b)[1] = a /\ Append(<<a>>, b)[2] = b
    BY <1>1, AppendProperties
<1>3. \A k \in 1 .. 2 : Append(<<a>>, b)[k] = <<a, b>>[k]
    BY <1>2
<1> QED
    BY <1>1, <1>2, <1>3, SeqEqual, Zenon

(* The guest reads the second byte, and the word that waits in HTX moves on. *)
LEMMA SecondByteDsp ==
    ASSUME IInv, DspFlow, ReadRXL
    PROVE  DspFlow'
<1>1. /\ half = "read" /\ half' = "none" /\ cpuread
      /\ taken' = [taken EXCEPT ![Len(taken)] = Append(taken[Len(taken)], port.RXL)]
      /\ UNCHANGED <<hcr, at, put>>
    BY DEF ReadRXL, dspState
<1> SUFFICES ASSUME "HTIE" \notin hcr PROVE DspFlow'
    BY <1>1 DEF DspFlow
<1>2. taken \in Seq(Seq(Nat)) /\ Len(taken) \in Nat /\ Len(taken) > 0
    BY <1>1 DEF IInv, TypeOK
<1>3. Whole = Len(taken) - 1 /\ Whole \in Nat
    BY <1>1, <1>2 DEF Whole
<1>4. /\ isr.RXDF /\ taken[Len(taken)] = <<Len(taken)>> /\ port.RXL = Len(taken)
      /\ \A k \in 1 .. (Len(taken) - 1) : taken[k] = <<k, k>>
    <2>1. /\ isr.RXDF /\ taken[Len(taken)] = <<Whole + 1>> /\ port.RXL = Whole + 1
          /\ \A k \in 1 .. Whole : taken[k] = <<k, k>>
        BY <1>1 DEF DspFlow
    <2>2. Whole + 1 = Len(taken)
        BY <1>2, <1>3
    <2> QED
        BY <1>3, <2>1, <2>2
<1>5. taken' = [taken EXCEPT ![Len(taken)] = <<Len(taken), Len(taken)>>]
    <2>1. Append(<<Len(taken)>>, Len(taken)) = <<Len(taken), Len(taken)>>
        BY <1>2, TwoBytes
    <2> QED
        BY <1>1, <1>4, <2>1, Zenon
<1>6. /\ Len(taken') = Len(taken)
      /\ \A k \in 1 .. Len(taken) :
            taken'[k] = IF k = Len(taken) THEN <<Len(taken), Len(taken)>> ELSE taken[k]
    <2>1. <<Len(taken), Len(taken)>> \in Seq(Nat) /\ Len(taken) \in 1 .. Len(taken)
        BY <1>2
    <2> QED
        BY <1>2, <1>5, <2>1, ExceptSeq
<1>7. \A k \in 1 .. Len(taken) : taken'[k] = <<k, k>>
    <2>1. \A k \in 1 .. Len(taken) : k = Len(taken) \/ k \in 1 .. (Len(taken) - 1)
        BY <1>2
    <2> QED
        BY <1>4, <1>6, <2>1
<1>8. Whole' = Len(taken)
    BY <1>1, <1>6 DEF Whole
<1>9. /\ HTX' = HTX /\ hsr'.HTDE
      /\ hsr.HTDE => ~isr'.RXDF
      /\ ~hsr.HTDE => isr'.RXDF /\ port'.RXH = HTX[1] /\ port'.RXL = HTX[2]
    BY <1>1, CpuReadIs DEF IInv, TypeOK
<1>10. CASE hsr.HTDE
    <2>1. put = Whole + 1
        BY <1>4, <1>10 DEF DspFlow
    <2>2. put' = Whole'
        BY <1>1, <1>2, <1>3, <1>8, <2>1
    <2> QED
        BY <1>1, <1>7, <1>8, <1>9, <1>10, <2>2 DEF DspFlow
<1>11. CASE ~hsr.HTDE
    <2>1. put = Whole + 2 /\ HTX = <<put, put>>
        BY <1>11 DEF DspFlow
    <2>2. put = Len(taken) + 1
        BY <1>2, <1>3, <2>1
    <2>3. port'.RXH = put /\ port'.RXL = put
        BY <1>9, <1>11, <2>1
    <2> QED
        BY <1>1, <1>7, <1>8, <1>9, <1>11, <2>2, <2>3 DEF DspFlow
<1> QED
    BY <1>10, <1>11

(* The DSP writes a word. *)
LEMMA WriteDsp ==
    ASSUME IInv, DspFlow, WriteHTX
    PROVE  DspFlow'
<1>1. /\ HTX' = <<put + 1, put + 1>> /\ put' = put + 1 /\ dspwrite
      /\ UNCHANGED <<hcr, half, taken>>
      /\ at \in {"movep HTX", "transmit handler"}
      /\ at = "movep HTX" => at' = "jclr HRDF"
    BY DEF WriteHTX, Executed
<1> SUFFICES ASSUME "HTIE" \notin hcr PROVE DspFlow'
    BY <1>1 DEF DspFlow
<1>2. at = "movep HTX" /\ hsr.HTDE /\ at' = "jclr HRDF"
    BY <1>1 DEF IInv, Control, DspFlow
<1>3. put \in Nat /\ put + 1 \in Nat
    BY DEF IInv, TypeOK
<1>4. Whole' = Whole /\ Whole \in Nat
    <2>1. Len(taken) \in Nat /\ (half = "read" => Len(taken) > 0)
        BY DEF IInv, TypeOK
    <2>2. half' = half /\ taken' = taken
        BY <1>1
    <2>3. Whole' = Whole
        BY <2>2 DEF Whole
    <2> QED
        BY <2>1, <2>3 DEF Whole
<1>5. HTX' \in Nat \X Nat /\ HTX'[1] = put + 1 /\ HTX'[2] = put + 1
    BY <1>1, <1>3
<1>6. /\ isr'.RXDF
      /\ isr.RXDF => ~hsr'.HTDE /\ port' = port
      /\ ~isr.RXDF => hsr'.HTDE /\ port'.RXH = put + 1 /\ port'.RXL = put + 1
    BY <1>1, <1>5, DspWriteIs DEF IInv, TypeOK
<1>7. CASE isr.RXDF
    <2>1. put = Whole + 1 /\ port.RXH = Whole + 1 /\ port.RXL = Whole + 1
        BY <1>2, <1>7 DEF DspFlow
    <2>2. put' = Whole' + 2
        <3>1. put' = put + 1
            BY <1>1
        <3> QED
            BY <1>4, <2>1, <3>1
    <2> QED
        BY <1>1, <1>2, <1>4, <1>6, <1>7, <2>1, <2>2 DEF DspFlow
<1>8. CASE ~isr.RXDF
    <2>1. put = Whole /\ half # "read"
        BY <1>8 DEF DspFlow
    <2> QED
        BY <1>1, <1>2, <1>4, <1>6, <1>8, <2>1 DEF DspFlow
<1> QED
    BY <1>7, <1>8

(* Every step keeps the flow of words to the guest. *)
LEMMA NextDspFlow == IInv /\ DspFlow /\ [Next]_vars => DspFlow'
<1> SUFFICES ASSUME IInv, DspFlow, [Next]_vars PROVE DspFlow'
    OBVIOUS
<1>1. CASE WriteBootWord \/ Shutdown \/ Resume \/ ShutdownResume \/ Loop \/ Sleep
           \/ Interrupts \/ TakeVector \/ pauseThread \/ UNCHANGED vars
    <2>1. UNCHANGED <<registers, hcr, half, put, taken>>
        BY <1>1 DEF WriteBootWord, Shutdown, Resume, ShutdownResume, Loop, Sleep,
                    Interrupts, TakeVector, pauseThread, vars, dspState, history
    <2>2. at' = "movep HTX" => at = "movep HTX"
        BY <1>1 DEF WriteBootWord, Shutdown, Resume, ShutdownResume, Loop, Sleep,
                    Interrupts, TakeVector, pauseThread, vars, dspState
    <2> QED
        BY <2>1, <2>2, KeepsDsp DEF registers
<1>2. CASE Setup
    <2>1. UNCHANGED <<registers, half, put, taken>> /\ hcr = {} /\ at' # "movep HTX"
        BY <1>2 DEF Setup, Executed, IInv, Control, history
    <2> QED
        BY <2>1, KeepsDsp DEF registers
<1>3. CASE PollHRDF \/ PollHTDE
    <2>1. UNCHANGED <<registers, hcr, half, put, taken>>
        BY <1>3 DEF PollHRDF, PollHTDE, Poll, history
    <2>2. at' = "movep HTX" => at = "movep HTX" \/ hsr.HTDE
        BY <1>3 DEF PollHRDF, PollHTDE, Poll, Executed
    <2> QED
        BY <2>1, <2>2, KeepsDsp DEF registers
<1>4. CASE WriteTXH
    <2>1. /\ half = "none" /\ half' = "write" /\ port' = [port EXCEPT !.TXH = sent + 1]
          /\ UNCHANGED <<isr, hsr, HTX, hcr, at, put, taken>>
        BY <1>4, Zenon DEF WriteTXH, dspState, history
    <2>2. port'.RXH = port.RXH /\ port'.RXL = port.RXL
        BY <2>1 DEF IInv, TypeOK, PortType
    <2> QED
        BY <2>1, <2>2, KeepsDsp
<1>5. CASE WriteTXL
    <2>1. /\ half = "write" /\ half' = "none" /\ port' = [port EXCEPT !.TXL = sent + 1]
          /\ cpuwrite /\ UNCHANGED <<hcr, at, put, taken>>
        BY <1>5 DEF WriteTXL, dspState
    <2>2. port'.RXH = port.RXH /\ port'.RXL = port.RXL
        BY <2>1 DEF IInv, TypeOK, PortType
    <2>3. isr'.RXDF = isr.RXDF /\ hsr'.HTDE = hsr.HTDE
        BY <2>1, CpuWriteIs DEF IInv, TypeOK
    <2>4. HTX' = HTX
        BY <2>1 DEF cpuwrite
    <2> QED
        BY <2>1, <2>2, <2>3, <2>4, KeepsDsp
<1>6. CASE ReadRXH
    BY <1>6, FirstByteDsp
<1>7. CASE ReadRXL
    BY <1>7, SecondByteDsp
<1>8. CASE WriteCVR
    <2>1. hsr' = [hsr EXCEPT !.HCP = TRUE] /\ UNCHANGED <<isr, port, HTX, hcr, at, half, put, taken>>
        BY <1>8, Zenon DEF WriteCVR, dspState
    <2>2. hsr'.HTDE = hsr.HTDE
        BY <2>1 DEF IInv, TypeOK, HsrType
    <2> QED
        BY <2>1, <2>2, KeepsDsp
<1>9. CASE Restart
    <2>1. /\ isr'.RXDF = FALSE /\ hsr'.HTDE = TRUE /\ half' = "none"
          /\ put' = 0 /\ taken' = <<>> /\ at' = "setup"
        BY <1>9 DEF Restart, ResetRegisters
    <2>2. Whole' = 0
        <3>1. Len(<<>>) = 0
            OBVIOUS
        <3> QED
            BY <2>1, <3>1, Zenon DEF Whole
    <2>3. \A k \in 1 .. Whole' : taken'[k] = <<k, k>>
        BY <2>2
    <2> QED
        BY <2>1, <2>2, <2>3, Zenon DEF DspFlow
<1>10. CASE ReadHRX
    <2>1. dspread /\ UNCHANGED <<hcr, half, put, taken>>
        BY <1>10 DEF ReadHRX
    <2>2. isr'.RXDF = isr.RXDF /\ hsr'.HTDE = hsr.HTDE
        BY <2>1, DspReadIs DEF IInv, TypeOK
    <2>3. port' = port /\ HTX' = HTX
        BY <2>1 DEF dspread
    <2>4. at' # "movep HTX"
        BY <1>10 DEF ReadHRX, Executed, IInv, Control
    <2> QED
        BY <2>1, <2>2, <2>3, <2>4, KeepsDsp
<1>11. CASE WriteHTX
    BY <1>11, WriteDsp
<1>12. CASE ClearHC
    <2>1. /\ hsr' = [hsr EXCEPT !.HCP = FALSE]
          /\ UNCHANGED <<isr, port, HTX, hcr, at, half, put, taken>>
        BY <1>12 DEF ClearHC, history
    <2>2. hsr'.HTDE = hsr.HTDE
        BY <2>1 DEF IInv, TypeOK, HsrType
    <2> QED
        BY <2>1, <2>2, KeepsDsp
<1>13. CASE FastInterrupt
    <2>1. UNCHANGED <<isr, port, HTX, hcr, half, put, taken>> /\ at' # "movep HTX"
        BY <1>13 DEF FastInterrupt, history
    <2>2. CASE thread = "clear HRDF"
        <3>1. hsr' = [hsr EXCEPT !.HRDF = FALSE]
            BY <1>13, <2>2 DEF FastInterrupt
        <3>2. hsr'.HTDE = hsr.HTDE
            BY <3>1 DEF IInv, TypeOK, HsrType
        <3> QED
            BY <2>1, <3>2, KeepsDsp
    <2>3. CASE thread = "clear HTDE"
        BY <2>1, <2>3 DEF IInv, Control, DspFlow
    <2> QED
        BY <1>13, <2>2, <2>3 DEF FastInterrupt
<1> QED
    BY <1>1, <1>2, <1>3, <1>4, <1>5, <1>6, <1>7, <1>8, <1>9, <1>10, <1>11, <1>12, <1>13
       DEF Next, CpuCall, Guest, Dsp

(* Without the transmit interrupt the guest reads every word the DSP       *)
(* writes, whole, once and in order, whatever bit it polls before it       *)
(* writes.                                                                 *)
THEOREM DspWordsArrive == Spec => []DspWordsKept
<1>1. Init => DspFlow
    <2> SUFFICES ASSUME Init PROVE DspFlow
        OBVIOUS
    <2>1. /\ isr.RXDF = FALSE /\ hsr.HTDE = TRUE /\ half = "none"
          /\ put = 0 /\ taken = <<>> /\ at = "setup"
        BY DEF Init, ResetRegisters
    <2>2. Whole = 0
        BY <2>1 DEF Whole
    <2> QED
        BY <2>1, <2>2 DEF DspFlow
<1>2. IInv /\ DspFlow /\ [Next]_vars => DspFlow'
    BY NextDspFlow
<1>3. IInv /\ DspFlow => DspWordsKept
    <2> SUFFICES ASSUME IInv, DspFlow, "HTIE" \notin hcr
                 PROVE  /\ \A i \in 1 .. Len(taken) - One(half = "read") : taken[i] = <<i, i>>
                        /\ put = Len(taken) + One(isr.RXDF) - One(half = "read") + One(~hsr.HTDE)
        BY DEF DspWordsKept
    <2>1. Len(taken) \in Nat /\ (half = "read" => Len(taken) > 0)
        BY DEF IInv, TypeOK
    <2>2. /\ One(half = "read") = IF half = "read" THEN 1 ELSE 0
          /\ One(isr.RXDF) = IF isr.RXDF THEN 1 ELSE 0
          /\ One(~hsr.HTDE) = IF ~hsr.HTDE THEN 1 ELSE 0
        BY DEF One
    <2>3. Whole = Len(taken) - One(half = "read") /\ Whole \in Nat
        BY <2>1, <2>2 DEF Whole
    <2>4. put = Whole + One(isr.RXDF) + One(~hsr.HTDE)
        <3>1. CASE ~isr.RXDF
            <4>1. put = Whole /\ One(isr.RXDF) = 0 /\ One(~hsr.HTDE) = 0
                BY <3>1, Zenon DEF DspFlow, One
            <4> QED
                BY <2>3, <4>1
        <3>2. CASE isr.RXDF /\ hsr.HTDE
            <4>1. put = Whole + 1 /\ One(isr.RXDF) = 1 /\ One(~hsr.HTDE) = 0
                BY <3>2, Zenon DEF DspFlow, One
            <4> QED
                BY <2>3, <4>1
        <3>3. CASE isr.RXDF /\ ~hsr.HTDE
            <4>1. put = Whole + 2 /\ One(isr.RXDF) = 1 /\ One(~hsr.HTDE) = 1
                BY <3>3, Zenon DEF DspFlow, One
            <4> QED
                BY <2>3, <4>1
        <3> QED
            BY <3>1, <3>2, <3>3
    <2>5. One(isr.RXDF) \in Nat /\ One(half = "read") \in Nat /\ One(~hsr.HTDE) \in Nat
        BY <2>2
    <2>6. put = Len(taken) + One(isr.RXDF) - One(half = "read") + One(~hsr.HTDE)
        BY <2>1, <2>3, <2>4, <2>5
    <2> QED
        BY <2>3, <2>6 DEF DspFlow
<1> QED
    BY <1>1, <1>2, <1>3, Invariance, PTL DEF Spec

(***************************************************************************)
(* Commands.                                                               *)
(***************************************************************************)
(* A step that leaves the command registers and the DSP's vector alone. *)
LEMMA KeepsCommand ==
    ASSUME CommandFlow, hsr'.HCP = hsr.HCP, cvr' = cvr, issued' = issued, served' = served,
           thread' = "vector" <=> thread = "vector"
    PROVE  CommandFlow'
BY DEF CommandFlow

(* Every step keeps the flow of commands. *)
LEMMA NextCommand == IInv /\ CommandFlow /\ [Next]_vars => CommandFlow'
<1> SUFFICES ASSUME IInv, CommandFlow, [Next]_vars PROVE CommandFlow'
    OBVIOUS
<1>1. CASE WriteBootWord \/ Shutdown \/ Resume \/ ShutdownResume \/ WriteTXH \/ ReadRXH
           \/ UNCHANGED vars
    <2>1. UNCHANGED <<hsr, cvr, issued, served, thread>>
        BY <1>1 DEF WriteBootWord, Shutdown, Resume, ShutdownResume, WriteTXH, ReadRXH,
                    registers, dspState, history, vars
    <2> QED
        BY <2>1, KeepsCommand
<1>2. CASE \/ Loop \/ Sleep \/ Interrupts \/ pauseThread \/ Setup \/ PollHRDF \/ PollHTDE
    <2>1. UNCHANGED <<hsr, cvr, issued, served>>
        BY <1>2 DEF Loop, Sleep, Interrupts, pauseThread, Setup, PollHRDF, PollHTDE, Poll,
                    registers, history
    <2>2. thread # "vector" /\ thread' # "vector"
        BY <1>2 DEF Loop, Sleep, Interrupts, pauseThread, Setup, PollHRDF, PollHTDE, Poll,
                    Executed
    <2> QED
        BY <2>1, <2>2, KeepsCommand
<1>3. CASE WriteTXL
    <2>1. hsr'.HCP = hsr.HCP
        BY <1>3, CpuWriteIs DEF WriteTXL, IInv, TypeOK
    <2> QED
        BY <1>3, <2>1, KeepsCommand DEF WriteTXL, dspState
<1>4. CASE ReadRXL
    <2>1. hsr'.HCP = hsr.HCP
        BY <1>4, CpuReadIs DEF ReadRXL, IInv, TypeOK
    <2> QED
        BY <1>4, <2>1, KeepsCommand DEF ReadRXL, dspState
<1>5. CASE ReadHRX
    <2>1. hsr'.HCP = hsr.HCP
        BY <1>5, DspReadIs DEF ReadHRX, IInv, TypeOK
    <2>2. UNCHANGED <<cvr, issued, served>> /\ thread # "vector" /\ thread' # "vector"
        BY <1>5 DEF ReadHRX, Executed
    <2> QED
        BY <2>1, <2>2, KeepsCommand
<1>6. CASE WriteHTX
    <2>1. put + 1 \in Nat
        BY DEF IInv, TypeOK
    <2>2. HTX' \in Nat \X Nat
        BY <1>6, <2>1 DEF WriteHTX
    <2>3. hsr'.HCP = hsr.HCP
        BY <1>6, <2>2, DspWriteIs DEF WriteHTX, IInv, TypeOK
    <2>4. UNCHANGED <<cvr, issued, served>> /\ thread # "vector" /\ thread' # "vector"
        BY <1>6 DEF WriteHTX, Executed
    <2> QED
        BY <2>3, <2>4, KeepsCommand
<1>7. CASE FastInterrupt
    <2>1. /\ hsr' = [hsr EXCEPT !.HRDF = FALSE] \/ hsr' = [hsr EXCEPT !.HTDE = FALSE]
          /\ UNCHANGED <<cvr, issued, served>> /\ thread # "vector" /\ thread' # "vector"
        BY <1>7 DEF FastInterrupt, history
    <2>2. hsr'.HCP = hsr.HCP
        BY <2>1 DEF IInv, TypeOK, HsrType
    <2> QED
        BY <2>1, <2>2, KeepsCommand
<1>8. CASE Restart
    <2>1. /\ hsr'.HCP = FALSE /\ cvr'.HC = FALSE /\ thread' = "start"
          /\ issued' = 0 /\ served' = <<>>
        BY <1>8 DEF Restart, ResetRegisters
    <2>2. issued' = Len(served') /\ ~(issued' > 0)
        BY <2>1
    <2> QED
        BY <2>1, <2>2, Zenon DEF CommandFlow
<1>9. issued \in Nat /\ Len(served) \in Nat
    BY DEF IInv, TypeOK
<1>10. CASE WriteCVR
    <2>1. /\ ~cvr.HC /\ issued' = issued + 1 /\ served' = served /\ thread' = thread
          /\ cvr' = [HC |-> TRUE, vector |-> issued + 1]
          /\ hsr' = [hsr EXCEPT !.HCP = TRUE]
        BY <1>10, Zenon DEF WriteCVR, dspState
    <2>2. ~hsr.HCP
        BY <2>1 DEF CommandFlow
    <2>3. hsr'.HCP = TRUE /\ cvr'.HC = TRUE /\ cvr'.vector = issued'
        BY <2>1 DEF IInv, TypeOK, HsrType
    <2>4. CASE thread = "vector"
        <3>1. issued' = Len(served') + 2
            <4>1. issued = Len(served) + 1
                BY <2>2, <2>4 DEF CommandFlow
            <4> QED
                BY <1>9, <2>1, <4>1
        <3>2. issued' # Len(served')
            BY <1>9, <2>1, <3>1
        <3> QED
            BY <2>1, <2>3, <2>4, <3>1, <3>2, Zenon DEF CommandFlow
    <2>5. CASE thread # "vector"
        <3>1. issued' = Len(served') + 1
            <4>1. issued = Len(served)
                BY <2>2, <2>5 DEF CommandFlow
            <4> QED
                BY <1>9, <2>1, <4>1
        <3>2. issued' # Len(served')
            BY <1>9, <2>1, <3>1
        <3> QED
            BY <2>1, <2>3, <2>5, <3>1, <3>2, Zenon DEF CommandFlow
    <2> QED
        BY <2>4, <2>5
<1>11. CASE ClearHC
    <2>1. /\ thread = "clear HC" /\ thread' = "vector" /\ issued' = issued /\ served' = served
          /\ hsr' = [hsr EXCEPT !.HCP = FALSE] /\ cvr' = [cvr EXCEPT !.HC = FALSE]
        BY <1>11 DEF ClearHC, history
    <2>2. hsr.HCP
        BY <2>1 DEF IInv, Control
    <2>3. hsr'.HCP = FALSE /\ cvr'.HC = FALSE /\ cvr'.vector = cvr.vector
        BY <2>1 DEF IInv, TypeOK, HsrType
    <2>4. issued = Len(served) + 1
        BY <2>1, <2>2 DEF CommandFlow
    <2>5. issued' # Len(served')
        <3>1. issued # Len(served)
            BY <1>9, <2>4
        <3> QED
            BY <2>1, <3>1, Zenon
    <2>6. issued' > 0 => cvr'.vector = issued'
        BY <2>1, <2>3 DEF CommandFlow
    <2> QED
        BY <2>1, <2>3, <2>4, <2>5, <2>6, Zenon DEF CommandFlow
<1>12. CASE TakeVector
    <2>1. /\ thread = "vector" /\ thread' # "vector" /\ served' = Append(served, cvr.vector)
          /\ UNCHANGED <<hsr, cvr, issued>>
        BY <1>12 DEF TakeVector, registers
    <2>2. served \in Seq(Nat) /\ cvr.vector \in Nat
        BY DEF IInv, TypeOK
    <2>3. Len(served') = Len(served) + 1 /\ served'[Len(served) + 1] = cvr.vector
        BY <2>1, <2>2, AppendProperties
    <2>4. CASE hsr.HCP
        <3>1. issued = Len(served) + 2
            BY <2>1, <2>4, Zenon DEF CommandFlow
        <3>2. issued' = Len(served') + 1 /\ issued' # Len(served')
            BY <1>9, <2>1, <2>3, <3>1
        <3> QED
            BY <2>1, <2>4, <3>2, Zenon DEF CommandFlow
    <2>5. CASE ~hsr.HCP
        <3>1. issued = Len(served) + 1
            BY <2>1, <2>5 DEF CommandFlow
        <3>2. issued' = Len(served') /\ issued > 0
            BY <1>9, <2>1, <2>3, <3>1
        <3>3. cvr.vector = issued
            BY <3>2 DEF CommandFlow
        <3>4. served'[issued'] = issued'
            BY <2>1, <2>3, <3>1, <3>3
        <3> QED
            BY <2>1, <2>5, <3>2, <3>4 DEF CommandFlow
    <2> QED
        BY <2>4, <2>5
<1> QED
    BY <1>1, <1>2, <1>3, <1>4, <1>5, <1>6, <1>7, <1>8, <1>10, <1>11, <1>12
       DEF Next, CpuCall, Guest, Dsp

(* Each command written to CVR is answered by one interrupt, also when the *)
(* next is written before the DSP has read the vector of the last; then it *)
(* is the newer one whose vector is taken, and taken again.                *)
THEOREM CommandsAreServed == Spec => []CommandsServed
<1>1. Init => CommandFlow
    <2> SUFFICES ASSUME Init PROVE CommandFlow
        OBVIOUS
    <2>1. /\ hsr.HCP = FALSE /\ cvr.HC = FALSE /\ thread = "start"
          /\ issued = 0 /\ served = <<>>
        BY DEF Init, ResetRegisters
    <2>2. issued = Len(served) /\ ~(issued > 0)
        BY <2>1
    <2> QED
        BY <2>1, <2>2, Zenon DEF CommandFlow
<1>2. IInv /\ CommandFlow /\ [Next]_vars => CommandFlow'
    BY NextCommand
<1>3. IInv /\ CommandFlow => CommandsServed
    <2> SUFFICES ASSUME IInv, CommandFlow PROVE CommandsServed
        OBVIOUS
    <2>1. Len(served) \in Nat /\ issued \in Nat
        BY DEF IInv, TypeOK
    <2>2. issued = Len(served) + One(hsr.HCP) + One(thread = "vector")
        <3>1. CASE hsr.HCP /\ thread = "vector"
            <4>1. issued = Len(served) + 2 /\ One(hsr.HCP) = 1 /\ One(thread = "vector") = 1
                BY <3>1, Zenon DEF CommandFlow, One
            <4> QED
                BY <2>1, <4>1
        <3>2. CASE hsr.HCP /\ thread # "vector"
            <4>1. issued = Len(served) + 1 /\ One(hsr.HCP) = 1 /\ One(thread = "vector") = 0
                BY <3>2, Zenon DEF CommandFlow, One
            <4> QED
                BY <2>1, <4>1
        <3>3. CASE ~hsr.HCP /\ thread = "vector"
            <4>1. issued = Len(served) + 1 /\ One(hsr.HCP) = 0 /\ One(thread = "vector") = 1
                BY <3>3, Zenon DEF CommandFlow, One
            <4> QED
                BY <2>1, <4>1
        <3>4. CASE ~hsr.HCP /\ thread # "vector"
            <4>1. issued = Len(served) /\ One(hsr.HCP) = 0 /\ One(thread = "vector") = 0
                BY <3>4, Zenon DEF CommandFlow, One
            <4> QED
                BY <2>1, <4>1
        <3> QED
            BY <3>1, <3>2, <3>3, <3>4
    <2> QED
        BY <2>2, Zenon DEF CommandFlow, CommandsServed
<1> QED
    BY <1>1, <1>2, <1>3, Invariance, PTL DEF Spec

(***************************************************************************)
(* Sleep.                                                                  *)
(***************************************************************************)
(* The CPU's calls end with the semaphore up, or change nothing the DSP    *)
(* waits for.                                                              *)
LEMMA GuestWakes ==
    ASSUME IInv, WakeFlow, Guest \/ CpuCall
    PROVE  WakeFlow'
<1>1. CASE WriteBootWord \/ Shutdown \/ WriteTXH \/ ReadRXH
    <2>1. cpu = "idle" /\ UNCHANGED <<hsr, dspState, sem>>
        BY <1>1 DEF WriteBootWord, Shutdown, WriteTXH, ReadRXH, registers
    <2> QED
        BY <2>1 DEF WakeFlow, dspState
<1>2. CASE WriteTXL \/ ReadRXL \/ WriteCVR
    <2>1. cpu' = "resume" /\ UNCHANGED dspState
        BY <1>2 DEF WriteTXL, ReadRXL, WriteCVR
    <2> QED
        BY <2>1 DEF WakeFlow, dspState
<1>3. CASE Resume \/ ShutdownResume
    <2>1. sem' = 1 /\ UNCHANGED dspState
        BY <1>3 DEF Resume, ShutdownResume, resumeThread, IInv, TypeOK
    <2> QED
        BY <2>1 DEF WakeFlow, dspState
<1>4. CASE Restart
    BY <1>4 DEF Restart, WakeFlow
<1> QED
    BY <1>1, <1>2, <1>3, <1>4 DEF Guest, CpuCall

(* The DSP goes to sleep only with its bit clear, and takes the semaphore  *)
(* only to look for interrupts.                                            *)
LEMMA DspWakes ==
    ASSUME "enddo" \notin Programs, IInv, WakeFlow, Dsp
    PROVE  WakeFlow'
<1>1. CASE pauseThread
    <2>1. /\ thread \in {"start", "pause"} /\ UNCHANGED <<hcr, at, main>>
          /\ thread' = IF thread = "start" THEN "loop" ELSE "interrupts"
        BY <1>1 DEF pauseThread, WakeFlow
    <2> QED
        BY <2>1 DEF WakeFlow, IInv, Control
<1>2. CASE Loop
    <2>1. /\ thread = "loop" /\ thread' \in {"execute", "exited"}
          /\ UNCHANGED <<hsr, hcr, at, main, sem, cpu>>
        BY <1>2 DEF Loop, registers
    <2> QED
        BY <2>1 DEF WakeFlow
<1>3. CASE Setup
    <2>1. thread' = "interrupts" /\ at' # "enddo" /\ main' = main
        BY <1>3 DEF Setup, Executed
    <2> QED
        BY <2>1 DEF WakeFlow
<1>4. CASE PollHRDF
    <2>1. /\ thread = "execute" /\ at = "jclr HRDF" /\ UNCHANGED <<hsr, hcr, main, sem, cpu>>
          /\ \/ thread' = "interrupts" /\ at' = "movep HRX"
             \/ ~hsr.HRDF /\ thread' = "pause" /\ at' = at
        BY <1>4 DEF PollHRDF, Poll, Executed, registers
    <2> QED
        BY <2>1 DEF WakeFlow
<1>5. CASE PollHTDE
    <2>1. /\ thread = "execute" /\ at = "jclr HTDE" /\ UNCHANGED <<hsr, hcr, main, sem, cpu>>
          /\ \/ thread' = "interrupts" /\ at' = "movep HTX"
             \/ ~hsr.HTDE /\ thread' = "pause" /\ at' = at
        BY <1>5 DEF PollHTDE, Poll, Executed, registers
    <2> QED
        BY <2>1 DEF WakeFlow
<1>6. CASE Sleep
    <2>1. /\ thread = "execute" /\ at \in {"jmp self", "enddo"} /\ thread' = "pause"
          /\ UNCHANGED <<hsr, hcr, at, main, sem, cpu>>
        BY <1>6 DEF Sleep, registers
    <2> QED
        BY <2>1 DEF WakeFlow
<1>7. CASE ReadHRX
    <2>1. hsr'.HCP = hsr.HCP
        BY <1>7, DspReadIs DEF ReadHRX, IInv, TypeOK
    <2>2. /\ thread = "execute" /\ UNCHANGED <<hcr, main, sem, cpu>>
          /\ \/ at' = "jclr HTDE" /\ thread' = "interrupts"
             \/ at' = main /\ thread' = "loop"
        BY <1>7 DEF ReadHRX, Executed
    <2> QED
        BY <2>1, <2>2 DEF WakeFlow
<1>8. CASE WriteHTX
    <2>1. put + 1 \in Nat
        BY DEF IInv, TypeOK
    <2>2. HTX' \in Nat \X Nat
        BY <1>8, <2>1 DEF WriteHTX
    <2>3. hsr'.HCP = hsr.HCP
        BY <1>8, <2>2, DspWriteIs DEF WriteHTX, IInv, TypeOK
    <2>4. /\ thread = "execute" /\ UNCHANGED <<hcr, main, sem, cpu>>
          /\ \/ at' = "jclr HRDF" /\ thread' = "interrupts"
             \/ at' = main /\ thread' = "loop"
        BY <1>8 DEF WriteHTX, Executed
    <2> QED
        BY <2>3, <2>4 DEF WakeFlow
<1>9. CASE Interrupts
    <2>1. /\ UNCHANGED <<hsr, hcr, at, main, sem, cpu>> /\ thread' # "pause"
          /\ "HCIE" \in hcr /\ hsr.HCP => thread' = "clear HC"
        BY <1>9 DEF Interrupts, registers
    <2> QED
        BY <2>1 DEF WakeFlow
<1>10. CASE ClearHC
    <2>1. thread' = "vector" /\ UNCHANGED <<at, main>> /\ ~hsr'.HCP
        BY <1>10 DEF ClearHC, IInv, TypeOK, HsrType
    <2> QED
        BY <2>1 DEF WakeFlow
<1>11. CASE TakeVector
    <2>1. /\ thread = "vector" /\ thread' \in {"loop", "interrupts"}
          /\ UNCHANGED <<hsr, hcr, at, main, sem, cpu>>
        BY <1>11 DEF TakeVector, registers
    <2> QED
        BY <2>1 DEF WakeFlow
<1>12. CASE FastInterrupt
    <2>1. /\ thread \in {"clear HRDF", "clear HTDE"} /\ thread' = "loop"
          /\ main' = at /\ at' # "enddo" /\ UNCHANGED <<hcr, sem, cpu>>
          /\ hsr' = [hsr EXCEPT !.HRDF = FALSE] \/ hsr' = [hsr EXCEPT !.HTDE = FALSE]
        BY <1>12 DEF FastInterrupt
    <2>2. hsr'.HCP = hsr.HCP
        BY <2>1 DEF IInv, TypeOK, HsrType
    <2> QED
        BY <2>1, <2>2 DEF WakeFlow
<1> QED
    BY <1>1, <1>2, <1>3, <1>4, <1>5, <1>6, <1>7, <1>8, <1>9, <1>10, <1>11, <1>12 DEF Dsp

(* No wake-up of the DSP is lost between its look at a bit and its wait on  *)
(* the semaphore, in a program that does not pop an empty stack (dsp_enddo  *)
(* then waits twice, and its second wait takes the wake-up of the first).   *)
THEOREM NoWakeupLost ==
    ASSUME "enddo" \notin Programs
    PROVE  Spec => []PollWakes
<1>1. Init => WakeFlow
    BY DEF Init, WakeFlow
<1>2. IInv /\ WakeFlow /\ [Next]_vars => WakeFlow'
    <2>1. WakeFlow /\ UNCHANGED vars => WakeFlow'
        BY DEF vars, registers, dspState, WakeFlow
    <2> QED
        BY <2>1, GuestWakes, DspWakes DEF Next
<1>3. WakeFlow => PollWakes
    BY DEF WakeFlow, PollWakes
<1> QED
    BY <1>1, <1>2, <1>3, Invariance, PTL DEF Spec

=============================================================================
