--------------------------------- MODULE Mfp ---------------------------------
(***************************************************************************)
(* The MC68901 multi-function peripheral of the emulated Falcon            *)
(* (src/src/mfp.cpp), with the part of the CPU loop that asks it for a     *)
(* vector (SERVE_VBL_MFP in src/src/uae_cpu/newcpu.cpp).                   *)
(*                                                                         *)
(* A 16-bit interrupt register is the set of its interrupt levels, an      *)
(* 8-bit port register the set of its lines.  The SPCFLAG_MFP bit of       *)
(* regs.spcflags is the only thing the CPU loop looks at before it calls   *)
(* MFP::doInterrupt, so every theorem about delivery is about the relation *)
(* between that cached bit and the four interrupt registers.               *)
(***************************************************************************)
EXTENDS Integers, FiniteSets

CONSTANTS
  Level,        \* interrupt levels in use, a subset of 0..15
  Line,         \* GPIP lines in use, a subset of 0..7
  Timer,        \* timers in use, a subset of {"A", "B", "C", "D"}
  TimerControl, \* values written to a timer's control nibble
  TimerData,    \* values written to a timer's data register
  VectorBase,   \* values of VR & MFP_VR_VECTOR
  MaxTicks      \* bound on timerCounter, the backlog of Timer C ticks

ASSUME ConstantsAssumption ==
  /\ Level \subseteq 0..15
  /\ Line \subseteq 0..7
  /\ Timer \subseteq {"A", "B", "C", "D"}
  /\ TimerControl \subseteq 0..15
  /\ TimerData \subseteq 0..255
  /\ VectorBase \subseteq {16 * n : n \in 0..15}
  /\ 0 \in VectorBase
  /\ MaxTicks \in Nat

VARIABLES
  input,          \* MFP::input, the level the peripherals drive
  GPIP_data,      \* MFP::GPIP_data, the port as the guest reads it
  active_edge,    \* MFP::active_edge (AER): 1 rising, 0 falling
  data_direction, \* MFP::data_direction (DDR): 1 output, 0 input
  irq_enable,     \* MFP::irq_enable (IERA:IERB)
  irq_pending,    \* MFP::irq_pending (IPRA:IPRB)
  irq_inservice,  \* MFP::irq_inservice (ISRA:ISRB)
  irq_mask,       \* MFP::irq_mask (IMRA:IMRB)
  timerCounter,   \* MFP::timerCounter, Timer C ticks not yet passed to the CPU
  vr,             \* MFP::vr: the vector base and the MFP_VR_SEI bit
  timers,         \* MFP::A, B, C, D
  SPCFLAG_MFP     \* the SPCFLAG_MFP bit of regs.spcflags

port == <<input, GPIP_data, active_edge, data_direction>>
irqs == <<irq_enable, irq_pending, irq_inservice, irq_mask>>
vars == <<port, irqs, timerCounter, vr, timers, SPCFLAG_MFP>>

TimerC == 5

TimerState ==
  [control : 0..15, start_data : 0..255, current_data : 0..255,
   state : BOOLEAN]

(***************************************************************************)
(* Every register has its width.                                           *)
(***************************************************************************)
TypeOK ==
  /\ {input, GPIP_data, active_edge, data_direction} \subseteq SUBSET Line
  /\ {irq_enable, irq_pending, irq_inservice, irq_mask} \subseteq SUBSET Level
  /\ timerCounter \in Nat
  /\ vr \in [base : VectorBase, sei : BOOLEAN]
  /\ timers \in [Timer -> TimerState]
  /\ SPCFLAG_MFP \in BOOLEAN

(***************************************************************************)
(* Numeric comparisons of a register with the bit of one level.            *)
(***************************************************************************)

\* reg >= (1 << j)
AtLeast(reg, j) == \E k \in reg : k >= j

\* reg > (1 << j)
Exceeds(reg, j) == \/ \E k \in reg : k > j
                   \/ j \in reg /\ \E k \in reg : k < j

\* The two byte-wide registers of a 16-bit one.
ByteA == 8..15
ByteB == 0..7
Bytes == {ByteA, ByteB}

\* A byte write replaces the bits of its half and keeps the other half.
WriteByte(reg, byte, v) == (reg \ byte) \cup v

\* A byte write that can only clear bits: reg &= value of that half.
ClearByte(reg, byte, v) == reg \cap ((Level \ byte) \cup v)

\* The interrupt level of a GPIP line: the table of both edge detectors.
map_gpip_to_ier ==
  [j \in 0..7 |-> CASE j \in 0..3 -> j
                    [] j \in {4, 5} -> j + 2
                    [] OTHER -> j + 8]

(***************************************************************************)
(* Timers.                                                                 *)
(***************************************************************************)
timerReset ==
  [control |-> 0, start_data |-> 0, current_data |-> 0, state |-> FALSE]

isRunning(t) == t.control > 0

\* The control byte of A and B has a reset bit (0x10) the nibbles of C and D
\* do not reach.
setControl(t, value, resetBit) ==
  [t EXCEPT !.control = value,
            !.state = IF resetBit THEN FALSE ELSE @]

\* Mutant: a running timer is reloaded at once.
setDataAtOnce(t, value) ==
  [t EXCEPT !.start_data = value, !.current_data = value]

setData(t, value) ==
  [t EXCEPT !.start_data = value,
            !.current_data = IF isRunning(t) THEN @ ELSE value]

resetCounter(t) ==
  IF isRunning(t)
    THEN [t EXCEPT !.state = TRUE, !.current_data = t.start_data]
    ELSE t

\* Reading the data register of a running timer counts it down to 2.
getData(t) ==
  [t EXCEPT !.current_data =
     IF isRunning(t) /\ @ > 2 THEN @ - 1 ELSE @]

(***************************************************************************)
(* Initial state and reset.                                                *)
(***************************************************************************)
Init ==
  /\ input = Line /\ GPIP_data = Line
  /\ active_edge = {} /\ data_direction = {}
  /\ irq_enable = {} /\ irq_pending = {} /\ irq_inservice = {} /\ irq_mask = {}
  /\ timerCounter = 0
  /\ vr = [base |-> 0, sei |-> FALSE]
  /\ timers = [t \in Timer |-> timerReset]
  /\ SPCFLAG_MFP = FALSE

\* MFP::reset, reached by the guest's RESET instruction: the registers return
\* to their initial values, SPCFLAG_MFP is not touched.
reset ==
  /\ input' = Line /\ GPIP_data' = Line
  /\ active_edge' = {} /\ data_direction' = {}
  /\ irq_enable' = {} /\ irq_pending' = {} /\ irq_inservice' = {} /\ irq_mask' = {}
  /\ timerCounter' = 0
  /\ vr' = [base |-> 0, sei |-> FALSE]
  /\ timers' = [t \in Timer |-> timerReset]
  /\ UNCHANGED SPCFLAG_MFP

(***************************************************************************)
(* Interrupt requests.                                                     *)
(***************************************************************************)

\* The levels of S a request makes pending: enabled and not pending yet.
Fresh(S) == (S \cap irq_enable) \ irq_pending

\* MFP::IRQ for each level of S (no level of S is read by the call for
\* another one, so their order does not matter).
Request(S) ==
  /\ irq_pending' = irq_pending \cup Fresh(S)
  /\ SPCFLAG_MFP' = \/ SPCFLAG_MFP
                    \/ \E j \in Fresh(S) \cap irq_mask : ~Exceeds(irq_inservice, j)

\* MFP::IRQ(5, count), called by invoke200HzInterrupt: a Timer C tick reloads
\* the timer even when its interrupt is disabled, and is counted even when
\* one is already pending.
IRQTimerC(count) ==
  /\ TimerC \in Level
  /\ timerCounter + count <= MaxTicks
  /\ timers' = [t \in Timer |-> IF t = "C" THEN resetCounter(timers[t])
                                           ELSE timers[t]]
  /\ timerCounter' = IF TimerC \in irq_enable THEN timerCounter + count
                                              ELSE timerCounter
  /\ Request({TimerC})
  /\ UNCHANGED <<port, irq_enable, irq_inservice, irq_mask, vr>>

\* MFP::IRQ(13, 1) and MFP::IRQ(15, 1), called by the DMA sound callback.
IRQSound(int_level) ==
  /\ int_level \in Level \cap {13, 15}
  /\ Request({int_level})
  /\ UNCHANGED <<port, irq_enable, irq_inservice, irq_mask, timerCounter, vr,
                 timers>>

\* MFP::setGPIPbit for the one line j a peripheral drives to "high".
\* An output line (DDR) follows input only when it becomes an input again.
setGPIPbit(j, high) ==
  LET drive(port_) == IF high THEN port_ \cup {j} ELSE port_ \ {j}
      new == IF j \in data_direction THEN GPIP_data ELSE drive(GPIP_data)
      edge == {k \in Line : /\ (k \in GPIP_data) # (k \in new)
                            /\ (k \in active_edge) = (k \in new)}
  IN  /\ input' = drive(input)
      /\ GPIP_data' = new
      /\ Request({map_gpip_to_ier[k] : k \in edge} \cap Level)
      /\ UNCHANGED <<active_edge, data_direction, irq_enable, irq_inservice,
                     irq_mask, timerCounter, vr, timers>>

\* The lines the emulated peripherals drive: 4 (IKBD and MIDI ACIA, ikbd.cpp)
\* and 5 (FDC, SCSI and IDE, acsifdc.cpp and ata.cpp).
DrivenLines == Line \cap {4, 5}

(***************************************************************************)
(* The guest writes a register: MFP::handleWrite.                          *)
(***************************************************************************)

\* TriggerMFP(irq_pending & irq_mask) with the values after the write.
TriggerMFPUnmasked == SPCFLAG_MFP' = (irq_pending' \cap irq_mask' # {})

WriteGPIP(value) ==
  /\ GPIP_data' = (GPIP_data \ data_direction) \cup (value \cap data_direction)
  /\ UNCHANGED <<input, active_edge, data_direction, irqs, timerCounter, vr,
                 timers, SPCFLAG_MFP>>

\* Flipping the edge of an input line whose level differs from the old edge bit
\* is itself a transition.
\* Mutant: the comparison with the level is left out.
FlippedAny(value) == {j \in Line \ data_direction : (j \in active_edge) # (j \in value)}
Flipped(value) == {j \in Line : /\ (j \in active_edge) # (j \in value)
                                /\ j \notin data_direction
                                /\ (j \in active_edge) # (j \in input)}

\* MFP::set_active_edge.
WriteAER(value) ==
      /\ Request({map_gpip_to_ier[j] : j \in Flipped(value)} \cap Level)
      /\ active_edge' = value
      /\ UNCHANGED <<input, GPIP_data, data_direction, irq_enable,
                     irq_inservice, irq_mask, timerCounter, vr, timers>>

WriteDDR(value) ==
  /\ data_direction' = value
  /\ GPIP_data' = (GPIP_data \cap value) \cup (input \ value)
  /\ UNCHANGED <<input, active_edge, irqs, timerCounter, vr, timers,
                 SPCFLAG_MFP>>

\* Mutant: a disabled level stays pending.
WriteIERKeeps(byte, value) ==
  /\ irq_enable' = WriteByte(irq_enable, byte, value)
  /\ UNCHANGED <<port, irq_pending, irq_inservice, irq_mask, timerCounter, vr,
                 timers, SPCFLAG_MFP>>

\* IERA, IERB: a disabled level is no longer pending; SPCFLAG_MFP stays.
WriteIER(byte, value) ==
  /\ irq_enable' = WriteByte(irq_enable, byte, value)
  /\ irq_pending' = irq_pending \cap irq_enable'
  /\ UNCHANGED <<port, irq_inservice, irq_mask, timerCounter, vr, timers,
                 SPCFLAG_MFP>>

\* IPRA, IPRB: writing a zero cancels a pending level.
WriteIPR(byte, value) ==
  /\ irq_pending' = ClearByte(irq_pending, byte, value)
  /\ SPCFLAG_MFP' = (SPCFLAG_MFP /\ irq_pending' \cap irq_mask # {})
  /\ UNCHANGED <<port, irq_enable, irq_inservice, irq_mask, timerCounter, vr,
                 timers>>

\* Mutant: the flag is not raised again.
WriteISRQuiet(byte, value) ==
  /\ irq_inservice' = ClearByte(irq_inservice, byte, value)
  /\ UNCHANGED <<port, irq_enable, irq_pending, irq_mask, timerCounter, vr,
                 timers, SPCFLAG_MFP>>

\* ISRA, ISRB: writing a zero ends the service of a level.
WriteISR(byte, value) ==
  /\ irq_inservice' = ClearByte(irq_inservice, byte, value)
  /\ SPCFLAG_MFP' = (SPCFLAG_MFP \/ irq_pending \cap irq_mask # {})
  /\ UNCHANGED <<port, irq_enable, irq_pending, irq_mask, timerCounter, vr,
                 timers>>

WriteIMR(byte, value) ==
  /\ irq_mask' = WriteByte(irq_mask, byte, value)
  /\ irq_pending' = irq_pending
  /\ TriggerMFPUnmasked
  /\ UNCHANGED <<port, irq_enable, irq_inservice, timerCounter, vr, timers>>

\* VR: leaving software end-of-interrupt mode ends every service.
WriteVR(base, sei) ==
  /\ vr' = [base |-> base, sei |-> sei]
  /\ UNCHANGED <<irq_pending, irq_mask>>
  /\ IF sei THEN UNCHANGED <<irq_inservice, SPCFLAG_MFP>>
            ELSE irq_inservice' = {} /\ TriggerMFPUnmasked
  /\ UNCHANGED <<port, irq_enable, timerCounter, timers>>

\* TACR, TBCR.
WriteTABCR(t, value, resetBit) ==
  /\ t \in Timer \cap {"A", "B"}
  /\ timers' = [timers EXCEPT ![t] = setControl(@, value, resetBit)]
  /\ UNCHANGED <<port, irqs, timerCounter, vr, SPCFLAG_MFP>>

\* TCDCR: one byte with a nibble for C and one for D.
WriteTCDCR(c, d) ==
  /\ timers' = [t \in Timer |->
                  CASE t = "C" -> setControl(timers[t], c, FALSE)
                    [] t = "D" -> setControl(timers[t], d, FALSE)
                    [] OTHER -> timers[t]]
  /\ UNCHANGED <<port, irqs, timerCounter, vr, SPCFLAG_MFP>>

\* TADR, TBDR, TCDR, TDDR.
WriteTDR(t, value) ==
  /\ timers' = [timers EXCEPT ![t] = setData(@, value)]
  /\ UNCHANGED <<port, irqs, timerCounter, vr, SPCFLAG_MFP>>

\* MFP::handleRead changes state only for the data register of a timer.
ReadTDR(t) ==
  /\ timers' = [timers EXCEPT ![t] = getData(@)]
  /\ UNCHANGED <<port, irqs, timerCounter, vr, SPCFLAG_MFP>>

(***************************************************************************)
(* The CPU asks for a vector: the SPCFLAG_MFP part of SERVE_VBL_MFP, run   *)
(* when 6 > regs.intmask.                                                  *)
(***************************************************************************)
Unmasked == irq_pending \cap irq_mask

\* The level MFP::doInterrupt would pass: the highest unmasked pending one,
\* when it is above every level in service.
Deliverable(j) ==
  /\ j \in Unmasked
  /\ \A k \in Unmasked : k <= j
  /\ ~AtLeast(irq_inservice, j)

\* doInterrupt returns 0 and the CPU loop drops the flag.
doInterruptNone ==
  /\ SPCFLAG_MFP
  /\ \A j \in Level : ~Deliverable(j)
  /\ SPCFLAG_MFP' = FALSE
  /\ UNCHANGED <<port, irqs, timerCounter, vr, timers>>

\* The pass of level j uses up a Timer C tick.
UsesTick(j) == j = TimerC

\* Timer C stays pending until its backlog is used up.
\* Mutant: off by one.
LastPassLate(j) == j # TimerC \/ timerCounter - 1 < 0
LastPass(j) == j # TimerC \/ timerCounter - 1 <= 0

\* doInterrupt passes the vector of level j.  A vector of 0 counts as "none" in
\* the CPU loop.
doInterrupt(j) ==
  LET vector == vr.base + j
      last == LastPass(j)
      again == IF vr.sei THEN FALSE ELSE irq_pending' \cap irq_mask # {}
  IN  /\ SPCFLAG_MFP
      /\ Deliverable(j)
      /\ timerCounter' = IF UsesTick(j) THEN timerCounter - 1 ELSE timerCounter
      /\ irq_pending' = IF last THEN irq_pending \ {j} ELSE irq_pending
      /\ irq_inservice' = IF vr.sei THEN irq_inservice \cup {j}
                                    ELSE irq_inservice
      /\ SPCFLAG_MFP' = (vector # 0 /\ (again \/ ~last))
      /\ UNCHANGED <<port, irq_enable, irq_mask, vr, timers>>

ServeMFP == doInterruptNone \/ \E j \in Level : doInterrupt(j)

Device ==
  \/ \E count \in 1..MaxTicks : IRQTimerC(count)
  \/ \E j \in {13, 15} : IRQSound(j)
  \/ \E j \in DrivenLines, high \in BOOLEAN : setGPIPbit(j, high)

Guest ==
  \/ reset
  \/ \E value \in SUBSET Line : WriteGPIP(value) \/ WriteAER(value) \/ WriteDDR(value)
  \/ \E byte \in Bytes : \E value \in SUBSET (Level \cap byte) :
       \/ WriteIER(byte, value)
       \/ WriteIPR(byte, value)
       \/ WriteISR(byte, value)
       \/ WriteIMR(byte, value)
  \/ \E base \in VectorBase, sei \in BOOLEAN : WriteVR(base, sei)
  \/ \E t \in Timer, value \in TimerControl, resetBit \in BOOLEAN :
       WriteTABCR(t, value, resetBit)
  \/ \E c, d \in TimerControl : WriteTCDCR(c, d)
  \/ \E t \in Timer, value \in TimerData : WriteTDR(t, value)
  \/ \E t \in Timer : ReadTDR(t)

Next == Device \/ Guest \/ ServeMFP

Spec == Init /\ [][Next]_vars

\* A guest that does not keep its interrupt mask at 6 or above for ever lets the
\* CPU loop reach the SPCFLAG_MFP test again and again.
FairSpec == Spec /\ WF_vars(ServeMFP)

(***************************************************************************)
(* Properties.                                                             *)
(***************************************************************************)

\* Whenever an unmasked pending level is above every level in service, the
\* CPU loop will look: SPCFLAG_MFP is set.  The flag is raised and dropped in
\* nine places (IRQ, five register writes, doInterrupt and the CPU loop);
\* missing one of them loses the interrupt until something unrelated raises
\* the flag again.
NoLostInterrupt == (\E j \in Level : Deliverable(j)) => SPCFLAG_MFP

\* The Timer C backlog: a pending Timer C interrupt stands for at least one
\* tick and the backlog is never negative, however IERB and IPRB writes cancel
\* the interrupt between the ticks.
TicksBacked == TimerC \in irq_pending => timerCounter >= 1

\* In automatic end-of-interrupt mode no level stays in service: such a level
\* would block every lower one, and no handler would end it.
AutomaticMode == ~vr.sei => irq_inservice = {}

\* The guest reads the peripherals' level on every input line, whatever the
\* order of GPIP and DDR writes and of line changes was.
InputLinesRead == \A j \in Line \ data_direction : (j \in GPIP_data) = (j \in input)

\* The inputs of the 1-0 transition detector of the data sheet comment in
\* set_active_edge: the line's level exclusive-or its edge bit.
Detector == {j \in Line : (j \in input) # (j \in active_edge)}

\* The interrupt levels of a set of lines.
LineLevels(S) == {map_gpip_to_ier[j] : j \in S} \cap Level

\* A 1-0 transition of the detector of an enabled input line makes the line's
\* interrupt pending, whether the peripheral moved the line or the guest moved
\* the edge; and no line interrupt becomes pending without one (level 15 is
\* also requested by DMA sound).
EdgeDetected ==
  [][LET fell == {j \in Line \ data_direction : j \in Detector /\ j \notin Detector'}
     IN  ~reset =>
           /\ LineLevels(fell) \cap irq_enable' \subseteq irq_pending'
           /\ (irq_pending' \ irq_pending) \cap LineLevels(Line \ {7})
                \subseteq LineLevels(fell)]_vars

\* What a step may do to a running timer's count.
CountdownStep ==
  \A t \in Timer :
    /\ isRunning(timers[t]) /\ isRunning(timers'[t])
    /\ timers'[t].current_data > timers[t].current_data
    => /\ t = "C"
       /\ timers'[t].current_data = timers[t].start_data
       /\ timers'[t].state

\* The counter of a running timer, which the delay loops of the operating system
\* poll, only falls, except that Timer C's tick reloads it: neither a new data
\* value nor a rewritten control register makes a loop start over.
CountdownMonotone == [][CountdownStep]_vars

\* Some unmasked pending level is above every level in service.
Waiting == \E j \in Unmasked : \A k \in irq_inservice : k < j

\* The inductive invariant of the register writes, requests and passes: NoLostInterrupt
\* without "highest", the backlog, which doInterrupt may count down because a pending
\* Timer C interrupt stands for a tick, automatic mode and the port's two copies.
IInv ==
  /\ TypeOK
  /\ Waiting => SPCFLAG_MFP
  /\ TicksBacked
  /\ AutomaticMode
  /\ InputLinesRead

(***************************************************************************)
(* The promise to the guest.                                               *)
(***************************************************************************)
Ideal == INSTANCE InterruptController WITH
  Counting <- TimerC,
  enable <- irq_enable,
  pending <- irq_pending,
  inservice <- irq_inservice,
  mask <- irq_mask,
  sei <- vr.sei,
  backlog <- IF TimerC \in irq_pending THEN timerCounter ELSE 0

\* The registers move as those of a controller without a cached flag, and a
\* deliverable interrupt that is not cancelled is eventually passed to the CPU:
\* no call of doInterrupt, spurious or not, and no register write can leave it
\* waiting behind a dropped SPCFLAG_MFP.
ImplementsController == Ideal!Spec
=============================================================================
