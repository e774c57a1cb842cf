---------------------------- MODULE DspHostPort ----------------------------
(***************************************************************************)
(* The host port between the 68040 and the DSP56001 (src/src/dsp_core.c,   *)
(* and the parts of src/src/dsp_cpu.c that touch the port).  The CPU       *)
(* thread runs the register accesses of the guest, the DSP thread executes *)
(* DSP instructions.  A mutex protects the registers, a semaphore puts the *)
(* DSP thread to sleep, and a reset stops that thread and starts it again. *)
(*                                                                         *)
(* A 24-bit word crosses the port as bytes; two of the three are modelled, *)
(* TXH and TXL, RXH and RXL, because only the access to the low byte has   *)
(* an effect.  Word number n has n in both bytes, so that a torn, lost or  *)
(* repeated word shows.  A host command carries its own number as vector.  *)
(*                                                                         *)
(* The guest is a driver that polls before it acts: it writes a word when  *)
(* the bit HostWaits of ISR is set, reads one when RXDF is set and gives a *)
(* command when HC is clear.  The DSP runs one of Programs.                *)
(***************************************************************************)
EXTENDS Naturals, Sequences

CONSTANTS
    HostWaits,    \* "TRDY" or "TXDE": the bit the guest polls before writing
    Programs,     \* which of "echo", "transmit", "sleep", "enddo" may be loaded
    BootWords,    \* words of the boot program, 0x200 in the code
    MaxWords,     \* bound: words sent each way between two resets
    MaxCommands   \* bound: host commands between two resets

ASSUME PortAssumption ==
    /\ HostWaits \in {"TRDY", "TXDE"}
    /\ Programs \subseteq {"echo", "transmit", "sleep", "enddo"}
    /\ BootWords \in Nat \ {0}
    /\ MaxWords \in Nat /\ MaxCommands \in Nat

VARIABLES
    isr,       \* hostport[CPU_HOST_ISR]: TXDE, TRDY, RXDF
    hsr,       \* periph[X][DSP_HOST_HSR]: HRDF, HTDE, HCP
    port,      \* hostport: the bytes TXH, TXL, RXH, RXL
    HRX, HTX,  \* periph[X]: the DSP's data registers, pairs of bytes
    cvr,       \* hostport[CPU_HOST_CVR]: HC and the vector
    hcr,       \* periph[X][DSP_HOST_HCR]: the interrupts enabled
    running,   \* dsp_core->running
    bootPos,   \* dsp_core->bootstrap_pos
    sem,       \* the value of dsp_core->semaphore
    thread,    \* where the DSP thread is
    at,        \* the DSP's pc: the instruction to execute
    main,      \* interrupt_save_pc: the instruction a fast interrupt returns to
    cpu,       \* where the CPU thread is: "idle", or inside a call
    half,      \* the byte the guest has already transferred of a word
    sent, got,       \* words the guest wrote; the words the DSP read
    put, taken,      \* words the DSP wrote; the words the guest read
    issued, served   \* commands the guest gave; the vectors the DSP took

registers == <<isr, hsr, port, HRX, HTX, cvr>>
dspState == <<hcr, thread, at, main>>
history == <<sent, got, put, taken, issued, served>>
vars == <<registers, dspState, history, running, bootPos, sem, cpu, half>>

-----------------------------------------------------------------------------
(* The state after dsp_core_reset. *)
ResetRegisters ==
    [isr |-> [TXDE |-> TRUE, TRDY |-> TRUE, RXDF |-> FALSE],
     hsr |-> [HRDF |-> FALSE, HTDE |-> TRUE, HCP |-> FALSE],
     cvr |-> [HC |-> FALSE, vector |-> 0]]

Init ==
    /\ isr = ResetRegisters.isr /\ hsr = ResetRegisters.hsr /\ cvr = ResetRegisters.cvr
    /\ port = [TXH |-> 0, TXL |-> 0, RXH |-> 0, RXL |-> 0]
    /\ HRX = <<0, 0>> /\ HTX = <<0, 0>>
    /\ hcr = {} /\ running = FALSE /\ bootPos = 0 /\ sem = 0
    /\ thread = "start" /\ at = "setup" /\ main = "setup"
    /\ cpu = "idle" /\ half = "none"
    /\ sent = 0 /\ got = <<>> /\ put = 0 /\ taken = <<>> /\ issued = 0 /\ served = <<>>

(* A call that takes the mutex waits while the CPU holds it. *)
Unlocked == cpu # "resume"

-----------------------------------------------------------------------------
(* The transfers between the two sides of the port. *)

(* dsp_core_hostport_update_trdy *)
update_trdy(i, h) == [i EXCEPT !.TRDY = i.TXDE /\ ~h.HRDF]

(* dsp_core_host2dsp, from the bits i and h and the bytes of the guest. *)
host2dsp(i, h) ==
    IF i.TXDE \/ h.HRDF
    THEN isr' = i /\ hsr' = h /\ UNCHANGED HRX
    ELSE /\ HRX' = <<port'.TXH, port'.TXL>>
         /\ hsr' = [h EXCEPT !.HRDF = TRUE]
         /\ isr' = update_trdy([i EXCEPT !.TXDE = TRUE], hsr')

dsp2hostOver(i, h) ==
    IF h.HTDE
    THEN isr' = i /\ hsr' = h /\ UNCHANGED port
    ELSE /\ port' = [port EXCEPT !.RXH = HTX'[1], !.RXL = HTX'[2]]
         /\ hsr' = [h EXCEPT !.HTDE = TRUE]
         /\ isr' = [i EXCEPT !.RXDF = TRUE]

(* dsp_core_dsp2host *)
dsp2host(i, h) ==
    IF i.RXDF \/ h.HTDE
    THEN isr' = i /\ hsr' = h /\ UNCHANGED port
    ELSE /\ port' = [port EXCEPT !.RXH = HTX'[1], !.RXL = HTX'[2]]
         /\ hsr' = [h EXCEPT !.HTDE = TRUE]
         /\ isr' = [i EXCEPT !.RXDF = TRUE]

dspreadStaleTrdy ==
    UNCHANGED <<port, HTX>> /\ host2dsp(isr, [hsr EXCEPT !.HRDF = FALSE])

dspreadKeepsHRDF == UNCHANGED <<port, HTX>> /\ host2dsp(update_trdy(isr, hsr), hsr)

(* dsp_core_hostport_dspread *)
dspread ==
    LET h == [hsr EXCEPT !.HRDF = FALSE]
    IN  UNCHANGED <<port, HTX>> /\ host2dsp(update_trdy(isr, h), h)

(* dsp_core_hostport_dspwrite, after HTX was written. *)
dspwrite == UNCHANGED HRX /\ dsp2host(isr, [hsr EXCEPT !.HTDE = FALSE])

(* dsp_core_hostport_cpuread *)
cpuread == UNCHANGED <<HRX, HTX>> /\ dsp2host([isr EXCEPT !.RXDF = FALSE], hsr)

(* dsp_core_hostport_cpuwrite, after TXL was written. *)
cpuwrite ==
    LET i == [isr EXCEPT !.TXDE = FALSE]
    IN  UNCHANGED HTX /\ host2dsp(update_trdy(i, hsr), hsr)

-----------------------------------------------------------------------------
(* The guest.  Each access is a call of dsp_core_read_host or               *)
(* dsp_core_write_host; a call that wakes the DSP ends in Resume.          *)

(* Writing TXL before the boot program is complete stores a word of it. *)
WriteBootWord ==
    /\ cpu = "idle" /\ half = "none" /\ ~running
    /\ bootPos' = bootPos + 1
    /\ running' = (bootPos' = BootWords)
    /\ cpu' = IF running' THEN "resume" ELSE "idle"
    /\ UNCHANGED <<registers, dspState, history, sem, half>>

WriteTXH ==
    /\ cpu = "idle" /\ half = "none" /\ running /\ sent < MaxWords
    /\ isr[HostWaits]
    /\ port' = [port EXCEPT !.TXH = sent + 1]
    /\ half' = "write"
    /\ UNCHANGED <<isr, hsr, HRX, HTX, cvr, dspState, history, running, bootPos, sem, cpu>>

WriteTXLQuiet ==
    /\ cpu = "idle" /\ half = "write"
    /\ port' = [port EXCEPT !.TXL = sent + 1]
    /\ sent' = sent + 1
    /\ cpuwrite
    /\ half' = "none"
    /\ UNCHANGED <<cvr, dspState, got, put, taken, issued, served, running, bootPos, sem, cpu>>

WriteTXL ==
    /\ cpu = "idle" /\ half = "write"
    /\ port' = [port EXCEPT !.TXL = sent + 1]
    /\ sent' = sent + 1
    /\ cpuwrite
    /\ half' = "none" /\ cpu' = "resume"
    /\ UNCHANGED <<cvr, dspState, got, put, taken, issued, served, running, bootPos, sem>>

ReadRXH ==
    /\ cpu = "idle" /\ half = "none" /\ running /\ isr.RXDF
    /\ taken' = Append(taken, <<port.RXH>>)
    /\ half' = "read"
    /\ UNCHANGED <<registers, dspState, sent, got, put, issued, served, running, bootPos, sem, cpu>>

ReadRXL ==
    /\ cpu = "idle" /\ half = "read"
    /\ taken' = [taken EXCEPT ![Len(taken)] = Append(@, port.RXL)]
    /\ cpuread
    /\ half' = "none" /\ cpu' = "resume"
    /\ UNCHANGED <<cvr, dspState, sent, got, put, issued, served, running, bootPos, sem>>

(* Writing CVR with bit 7 set. *)
WriteCVR ==
    /\ cpu = "idle" /\ half = "none" /\ running /\ ~cvr.HC /\ issued < MaxCommands
    /\ issued' = issued + 1
    /\ cvr' = [HC |-> TRUE, vector |-> issued + 1]
    /\ hsr' = [hsr EXCEPT !.HCP = TRUE]
    /\ cpu' = "resume"
    /\ UNCHANGED <<isr, port, HRX, HTX, dspState, sent, got, put, taken, served, running, bootPos, sem, half>>

(* resumeThreadThread posts the semaphore unless it is already up. *)
resumeThread == sem' = IF sem = 0 THEN 1 ELSE sem

Resume ==
    /\ cpu = "resume"
    /\ resumeThread
    /\ cpu' = "idle"
    /\ UNCHANGED <<registers, dspState, history, running, bootPos, half>>

-----------------------------------------------------------------------------
(* dsp_core_reset: dsp_core_shutdown, then everything anew. *)

Shutdown ==
    /\ cpu = "idle"
    /\ running' = FALSE
    /\ cpu' = "shutdown"
    /\ UNCHANGED <<registers, dspState, history, bootPos, sem, half>>

ShutdownResume ==
    /\ cpu = "shutdown"
    /\ resumeThread
    /\ cpu' = "join"
    /\ UNCHANGED <<registers, dspState, history, running, bootPos, half>>

(* SDL_WaitThread returns; registers, semaphore and thread are made anew. *)
Restart ==
    /\ cpu = "join" /\ thread = "exited"
    /\ isr' = ResetRegisters.isr /\ hsr' = ResetRegisters.hsr /\ cvr' = ResetRegisters.cvr
    /\ HRX' = <<0, 0>> /\ HTX' = <<0, 0>>
    /\ hcr' = {} /\ bootPos' = 0 /\ sem' = 0
    /\ thread' = "start" /\ at' = "setup" /\ main' = "setup"
    /\ cpu' = "idle" /\ half' = "none"
    /\ sent' = 0 /\ got' = <<>> /\ put' = 0 /\ taken' = <<>> /\ issued' = 0 /\ served' = <<>>
    /\ UNCHANGED <<port, running>>

-----------------------------------------------------------------------------
(* The DSP thread. *)

(* pauseThreadThread: "start" is the wait for the boot program, "pause" the *)
(* wait inside an instruction.  The second pop of enddo waits as the next  *)
(* instruction, "jmp self", would.                                         *)
pauseThread ==
    /\ thread \in {"start", "pause"} /\ sem > 0
    /\ sem' = sem - 1
    /\ thread' = IF thread = "start" THEN "loop"
                 ELSE IF at = "enddo" THEN "pause"
                 ELSE "interrupts"
    /\ at' = IF at = "enddo" THEN "jmp self" ELSE at
    /\ UNCHANGED <<registers, history, hcr, main, running, bootPos, cpu, half>>

LoopForever ==
    /\ thread = "loop"
    /\ thread' = IF running THEN "execute" ELSE "loop"
    /\ UNCHANGED <<registers, history, hcr, at, main, running, bootPos, sem, cpu, half>>

(* The loop of dsp56k_exec_thread. *)
Loop ==
    /\ thread = "loop"
    /\ thread' = IF running THEN "execute" ELSE "exited"
    /\ UNCHANGED <<registers, history, hcr, at, main, running, bootPos, sem, cpu, half>>

(* The instruction at pc is done, the next one is n. *)
Executed(n) == at' = n /\ thread' = "interrupts"

(* The programs: "echo" polls and reads, polls and writes; "transmit" does  *)
(* so with the transmit interrupt enabled; "sleep" leaves reading to the   *)
(* receive interrupt; "enddo" pops an empty stack.                         *)
Setup ==
    /\ thread = "execute" /\ at = "setup" /\ Unlocked
    /\ \E p \in Programs :
          /\ hcr' = {"HCIE"} \cup (IF p = "transmit" THEN {"HTIE"} ELSE {})
                             \cup (IF p = "sleep" THEN {"HRIE"} ELSE {})
          /\ Executed(IF p = "sleep" THEN "jmp self"
                      ELSE IF p = "enddo" THEN "enddo" ELSE "jclr HRDF")
    /\ UNCHANGED <<registers, history, main, running, bootPos, sem, cpu, half>>

(* dsp_jclr on HSR, jumping to itself: asleep while the bit is clear. *)
Poll(bit, next) ==
    /\ thread = "execute" /\ Unlocked
    /\ IF bit THEN Executed(next) ELSE thread' = "pause" /\ UNCHANGED at
    /\ UNCHANGED <<registers, history, hcr, main, running, bootPos, sem, cpu, half>>

PollHRDF == at = "jclr HRDF" /\ Poll(hsr.HRDF, "movep HRX")

PollHTDE == at = "jclr HTDE" /\ Poll(hsr.HTDE, "movep HTX")

(* dsp_jmp to itself sleeps until the next wake-up.  dsp_enddo with an      *)
(* empty stack sleeps in both its calls of dsp_stack_pop.                  *)
Sleep ==
    /\ thread = "execute" /\ at \in {"jmp self", "enddo"}
    /\ thread' = "pause"
    /\ UNCHANGED <<registers, history, hcr, at, main, running, bootPos, sem, cpu, half>>

-----------------------------------------------------------------------------
(* read_memory of HRX: the transfer comes first, the value is read after. *)
ReadHRX ==
    /\ thread = "execute" /\ at \in {"movep HRX", "receive handler"} /\ Unlocked
    /\ dspread
    /\ got' = Append(got, HRX')
    /\ IF at = "movep HRX" THEN Executed("jclr HTDE")
       ELSE at' = main /\ thread' = "loop"
    /\ UNCHANGED <<cvr, sent, put, taken, issued, served, hcr, main, running, bootPos, sem, cpu, half>>

(* write_memory of HTX. *)
WriteHTX ==
    /\ thread = "execute" /\ at \in {"movep HTX", "transmit handler"} /\ Unlocked
    /\ HTX' = <<put + 1, put + 1>>
    /\ put' = put + 1
    /\ dspwrite
    /\ IF at = "movep HTX" THEN Executed("jclr HRDF")
       ELSE at' = main /\ thread' = "loop"
    /\ UNCHANGED <<cvr, sent, got, taken, issued, served, hcr, main, running, bootPos, sem, cpu, half>>

(* dsp_hi_interrupts, on values of HCR and HSR read without the mutex. *)
Interrupts ==
    /\ thread = "interrupts"
    /\ thread' = IF "HCIE" \in hcr /\ hsr.HCP THEN "clear HC"
                 ELSE IF "HRIE" \in hcr /\ hsr.HRDF THEN "clear HRDF"
                 ELSE IF "HTIE" \in hcr /\ ~hsr.HTDE /\ put < MaxWords THEN "clear HTDE"
                 ELSE "loop"
    /\ UNCHANGED <<registers, history, hcr, at, main, running, bootPos, sem, cpu, half>>

ClearHCOnly ==
    /\ thread = "clear HC" /\ Unlocked
    /\ cvr' = [cvr EXCEPT !.HC = FALSE] /\ thread' = "vector"
    /\ UNCHANGED <<isr, hsr, port, HRX, HTX, history, hcr, at, main, running, bootPos, sem, cpu, half>>

ClearHC ==
    /\ thread = "clear HC" /\ Unlocked
    /\ hsr' = [hsr EXCEPT !.HCP = FALSE]
    /\ cvr' = [cvr EXCEPT !.HC = FALSE]
    /\ thread' = "vector"
    /\ UNCHANGED <<isr, port, HRX, HTX, history, hcr, at, main, running, bootPos, sem, cpu, half>>

(* The vector is read after the mutex is released.  A handler of two       *)
(* instructions returns to the loop; after the rti of a longer one         *)
(* interrupts are looked at again.                                         *)
TakeVector ==
    /\ thread = "vector"
    /\ served' = Append(served, cvr.vector)
    /\ thread' \in {"loop", "interrupts"}
    /\ UNCHANGED <<registers, sent, got, put, taken, issued, hcr, at, main, running, bootPos, sem, cpu, half>>

(* A fast interrupt to p:0x0020 or p:0x0022, whose handler moves one word. *)
FastInterrupt ==
    /\ thread \in {"clear HRDF", "clear HTDE"} /\ Unlocked
    /\ hsr' = IF thread = "clear HRDF" THEN [hsr EXCEPT !.HRDF = FALSE]
                                       ELSE [hsr EXCEPT !.HTDE = FALSE]
    /\ main' = at
    /\ at' = IF thread = "clear HRDF" THEN "receive handler" ELSE "transmit handler"
    /\ thread' = "loop"
    /\ UNCHANGED <<isr, port, HRX, HTX, cvr, history, hcr, running, bootPos, sem, cpu, half>>

-----------------------------------------------------------------------------
CpuCall == Resume \/ ShutdownResume \/ Restart

Guest ==
    \/ WriteBootWord \/ WriteTXH \/ WriteTXL \/ ReadRXH \/ ReadRXL \/ WriteCVR \/ Shutdown

Dsp ==
    \/ pauseThread \/ Loop \/ Setup \/ PollHRDF \/ PollHTDE \/ Sleep
    \/ ReadHRX \/ WriteHTX \/ Interrupts \/ ClearHC \/ TakeVector \/ FastInterrupt

Next == CpuCall \/ Guest \/ Dsp

(* Both threads run: the host schedules the DSP thread, and the CPU thread *)
(* finishes the calls it is in.  What the guest does next is its own.      *)
Spec == Init /\ [][Next]_vars /\ WF_vars(Dsp) /\ WF_vars(CpuCall)

-----------------------------------------------------------------------------
One(b) == IF b THEN 1 ELSE 0

(* The words the guest writes to TXH and TXL reach the DSP (dspread) whole, *)
(* once and in order, and none is lost on the way: each is read, waits in  *)
(* HRX, or waits in TX behind it.                                          *)
HostWordsKept ==
    /\ \A i \in DOMAIN got : got[i] = <<i, i>>
    /\ sent = Len(got) + One(hsr.HRDF \/ at = "receive handler") + One(~isr.TXDE)

(* The words the DSP writes to HTX reach the guest (cpuread) whole, once   *)
(* and in order; none is lost between dspwrite and the guest's read.  A    *)
(* program that enables the transmit interrupt is not promised this.       *)
DspWordsKept ==
    "HTIE" \notin hcr =>
        /\ \A i \in 1 .. Len(taken) - One(half = "read") : taken[i] = <<i, i>>
        /\ put = Len(taken) + One(isr.RXDF) - One(half = "read") + One(~hsr.HTDE)

(* TRDY tells the guest that a word would go straight to an empty HRX: it  *)
(* is set exactly then, except while the receive handler has still to read *)
(* the word whose HRDF dsp_hi_interrupts has cleared.                      *)
TrdyTells ==
    isr.TRDY = (isr.TXDE /\ ~hsr.HRDF /\ at # "receive handler")

(* Every command written to CVR is answered by one interrupt: what the     *)
(* guest issued is served, or pending in HCP, or about to be vectored; and *)
(* when nothing is pending the last command served is the last one issued. *)
CommandsServed ==
    /\ issued = Len(served) + One(hsr.HCP) + One(thread = "vector")
    /\ issued = Len(served) /\ issued > 0 => served[issued] = issued

(* The DSP never sleeps through what it polls for, nor through a command: *)
(* when it is asleep in a jclr whose bit has come, or with a command to    *)
(* take, and the CPU is outside its call, the semaphore is up.             *)
PollWakes ==
    (/\ thread = "pause" /\ cpu # "resume"
     /\ \/ at = "jclr HRDF" /\ hsr.HRDF
        \/ at = "jclr HTDE" /\ hsr.HTDE
        \/ "HCIE" \in hcr /\ hsr.HCP)
    => sem = 1

(* A program that sleeps and leaves reading to the receive interrupt is    *)
(* awake, or about to be, while a word waits for it.                       *)
ReceiveWakes ==
    (thread = "pause" /\ cpu # "resume" /\ "HRIE" \in hcr /\ hsr.HRDF) => sem = 1

(* A reset comes back, whatever the DSP was doing: dsp_core_shutdown gets  *)
(* the thread out of its loop and SDL_WaitThread returns.                  *)
ResetReturns == cpu = "shutdown" ~> cpu = "idle"
=============================================================================
