------------------------------ MODULE MfpProofs ------------------------------
(***************************************************************************)
(* Proofs about the MFP for every set of levels, lines and timers, every   *)
(* vector base and every backlog.                                          *)
(*                                                                         *)
(* NoLostInterrupt speaks of the highest unmasked pending level and is not *)
(* inductive in a convenient form; Waiting drops "highest", and the        *)
(* maximum is needed only where doInterrupt finds nothing to pass.         *)
(***************************************************************************)
EXTENDS Mfp, TLAPS

-----------------------------------------------------------------------------
(***************************************************************************)
(* Sets of levels and timers.                                              *)
(***************************************************************************)

\* The scan of doInterrupt from level 15 down finds the highest level of any
\* non-empty register: either the level looked at is in it, or all are below.
LEMMA Highest ==
  ASSUME NEW S \in SUBSET (0..15), S # {}
  PROVE  \E m \in S : \A k \in S : k <= m
<1> DEFINE Max == \E m \in S : \A k \in S : k <= m
<1>0. \A k \in S : k \in 0..15
  OBVIOUS
<1>1. \A n \in 0..14 : (\A k \in S : k <= n + 1) => Max \/ \A k \in S : k <= n
  BY <1>0
<1>2. Max \/ \A k \in S : k <= 14
  BY <1>0, <1>1
<1>3. Max \/ \A k \in S : k <= 13
  BY <1>1, <1>2
<1>4. Max \/ \A k \in S : k <= 12
  BY <1>1, <1>3
<1>5. Max \/ \A k \in S : k <= 11
  BY <1>1, <1>4
<1>6. Max \/ \A k \in S : k <= 10
  BY <1>1, <1>5
<1>7. Max \/ \A k \in S : k <= 9
  BY <1>1, <1>6
<1>8. Max \/ \A k \in S : k <= 8
  BY <1>1, <1>7
<1>9. Max \/ \A k \in S : k <= 7
  BY <1>1, <1>8
<1>10. Max \/ \A k \in S : k <= 6
  BY <1>1, <1>9
<1>11. Max \/ \A k \in S : k <= 5
  BY <1>1, <1>10
<1>12. Max \/ \A k \in S : k <= 4
  BY <1>1, <1>11
<1>13. Max \/ \A k \in S : k <= 3
  BY <1>1, <1>12
<1>14. Max \/ \A k \in S : k <= 2
  BY <1>1, <1>13
<1>15. Max \/ \A k \in S : k <= 1
  BY <1>1, <1>14
<1>16. Max \/ \A k \in S : k <= 0
  BY <1>1, <1>15
<1>17. PICK x \in S : TRUE
  BY Zenon
<1>18. CASE \A k \in S : k <= 0
  BY <1>0, <1>17, <1>18
<1> QED
  BY <1>16, <1>18

\* A timer with another control nibble and output state is a timer.
LEMMA UpdateControl ==
  ASSUME NEW t \in TimerState, NEW d \in 0..15, NEW e \in BOOLEAN
  PROVE  [t EXCEPT !.control = d, !.state = e] \in TimerState
<1> DEFINE u == [t EXCEPT !.control = d]
<1>1. u \in TimerState
  BY DEF TimerState
<1>2. [u EXCEPT !.state = e] = [t EXCEPT !.control = d, !.state = e]
  BY DEF TimerState
<1> HIDE DEF u
<1>3. [u EXCEPT !.state = e] \in TimerState
  BY <1>1 DEF TimerState
<1> QED
  BY <1>2, <1>3

\* A timer with another data register and counter is a timer.
LEMMA UpdateData ==
  ASSUME NEW t \in TimerState, NEW d \in 0..255, NEW e \in 0..255
  PROVE  [t EXCEPT !.start_data = d, !.current_data = e] \in TimerState
<1> DEFINE u == [t EXCEPT !.start_data = d]
<1>1. u \in TimerState
  BY DEF TimerState
<1>2. [u EXCEPT !.current_data = e] = [t EXCEPT !.start_data = d, !.current_data = e]
  BY DEF TimerState
<1> HIDE DEF u
<1>3. [u EXCEPT !.current_data = e] \in TimerState
  BY <1>1 DEF TimerState
<1> QED
  BY <1>2, <1>3

\* A timer with another output state and counter is a timer.
LEMMA UpdateReload ==
  ASSUME NEW t \in TimerState, NEW d \in BOOLEAN, NEW e \in 0..255
  PROVE  [t EXCEPT !.state = d, !.current_data = e] \in TimerState
<1> DEFINE u == [t EXCEPT !.state = d]
<1>1. u \in TimerState
  BY DEF TimerState
<1>2. [u EXCEPT !.current_data = e] = [t EXCEPT !.state = d, !.current_data = e]
  BY DEF TimerState
<1> HIDE DEF u
<1>3. [u EXCEPT !.current_data = e] \in TimerState
  BY <1>1 DEF TimerState
<1> QED
  BY <1>2, <1>3

\* Writing the control register keeps a timer's registers in their widths.
LEMMA ControlKeepsTimer ==
  \A t \in TimerState, c \in 0..15, r \in BOOLEAN : setControl(t, c, r) \in TimerState
<1> SUFFICES ASSUME NEW t \in TimerState, NEW c \in 0..15, NEW r \in BOOLEAN
             PROVE  setControl(t, c, r) \in TimerState
  BY Zenon
<1>1. (IF r THEN FALSE ELSE t.state) \in BOOLEAN
  BY Zenon DEF TimerState
<1> QED
  BY <1>1, UpdateControl DEF setControl

\* So does writing the data register.
LEMMA DataKeepsTimer ==
  \A t \in TimerState, d \in 0..255 : setData(t, d) \in TimerState
<1> SUFFICES ASSUME NEW t \in TimerState, NEW d \in 0..255
             PROVE  setData(t, d) \in TimerState
  OBVIOUS
<1>1. (IF isRunning(t) THEN t.current_data ELSE d) \in 0..255
  BY DEF TimerState
<1> QED
  BY <1>1, UpdateData DEF setData

\* So do the tick that reloads the counter and the read that counts it down.
LEMMA CounterKeepsTimer ==
  \A t \in TimerState : resetCounter(t) \in TimerState /\ getData(t) \in TimerState
<1> SUFFICES ASSUME NEW t \in TimerState
             PROVE  resetCounter(t) \in TimerState /\ getData(t) \in TimerState
  OBVIOUS
<1>1. resetCounter(t) \in TimerState
  <2>1. t.start_data \in 0..255
    BY DEF TimerState
  <2>2. [t EXCEPT !.state = TRUE, !.current_data = t.start_data] \in TimerState
    BY <2>1, UpdateReload
  <2> QED
    BY <2>2 DEF resetCounter
<1>2. getData(t) \in TimerState
  <2>1. (IF isRunning(t) /\ t.current_data > 2 THEN t.current_data - 1
                                              ELSE t.current_data) \in 0..255
    <3>1. t.current_data \in 0..255
      BY DEF TimerState
    <3> QED
      BY <3>1
  <2>2. \A e \in 0..255 : [t EXCEPT !.current_data = e] \in TimerState
    BY DEF TimerState
  <2> QED
    BY <2>1, <2>2, Zenon DEF getData
<1> QED
  BY <1>1, <1>2

-----------------------------------------------------------------------------
(***************************************************************************)
(* The inductive invariant.                                                *)
(***************************************************************************)

\* Levels and vector bases are numbers.
LEMMA Numbers ==
  /\ \A j \in Level : j \in 0..15
  /\ \A b \in VectorBase : b \in Nat
BY ConstantsAssumption

\* MFP::IRQ raises SPCFLAG_MFP whenever it makes a level wait, and makes only
\* enabled levels pending.
LEMMA RequestKeeps ==
  ASSUME TypeOK, Waiting => SPCFLAG_MFP, NEW S, Request(S),
         UNCHANGED <<irq_enable, irq_inservice, irq_mask>>
  PROVE  /\ irq_pending' \in SUBSET Level
         /\ SPCFLAG_MFP' \in BOOLEAN
         /\ Waiting' => SPCFLAG_MFP'
<1>1. irq_pending' \in SUBSET Level
  BY Zenon DEF TypeOK, Request, Fresh
<1>2. SPCFLAG_MFP' \in BOOLEAN
  BY Zenon DEF TypeOK, Request
<1>3. ASSUME Waiting' PROVE SPCFLAG_MFP'
  <2>1. PICK j \in (irq_pending \cup Fresh(S)) \cap irq_mask :
               \A k \in irq_inservice : k < j
    BY <1>3, Zenon DEF Waiting, Unmasked, Request
  <2>2. CASE j \in irq_pending
    BY <2>1, <2>2, Zenon DEF Waiting, Unmasked, Request
  <2>3. CASE j \in Fresh(S)
    <3>1. j \in 0..15 /\ \A k \in irq_inservice : k \in 0..15
      BY <2>1, <2>3, Numbers DEF TypeOK, Fresh
    <3>2. ~Exceeds(irq_inservice, j)
      BY <2>1, <3>1 DEF Exceeds
    <3> QED
      BY <2>1, <2>3, <3>2, Zenon DEF Request
  <2> QED
    BY <2>1, <2>2, <2>3
<1> QED
  BY <1>1, <1>2, <1>3

\* The registers after power-up satisfy the invariant.
LEMMA InitIInv == Init => IInv
<1> SUFFICES ASSUME Init PROVE IInv
  OBVIOUS
<1>1. timers \in [Timer -> TimerState]
  BY DEF Init, timerReset, TimerState
<1>2. TypeOK
  BY <1>1, ConstantsAssumption, Zenon DEF Init, TypeOK
<1> QED
  BY <1>2 DEF Init, IInv, Waiting, Unmasked, TicksBacked, AutomaticMode,
              InputLinesRead

\* A Timer C tick.
LEMMA IRQTimerCIInv ==
  ASSUME IInv, NEW count \in 1..MaxTicks, IRQTimerC(count)
  PROVE  IInv'
<1>1. /\ irq_pending' \in SUBSET Level
      /\ SPCFLAG_MFP' \in BOOLEAN
      /\ Waiting' => SPCFLAG_MFP'
  BY RequestKeeps DEF IInv, IRQTimerC
<1>2. timers' \in [Timer -> TimerState]
  <2>1. \A t \in Timer : resetCounter(timers[t]) \in TimerState
    BY CounterKeepsTimer DEF IInv, TypeOK
  <2> QED
    BY <2>1 DEF IInv, TypeOK, IRQTimerC
<1>3. timerCounter' \in Nat /\ timerCounter' >= timerCounter
  BY ConstantsAssumption DEF IInv, TypeOK, IRQTimerC
<1>4. TypeOK'
  BY <1>1, <1>2, <1>3 DEF IInv, TypeOK, IRQTimerC, port
<1>5. TicksBacked'
  <2>1. ASSUME TimerC \in irq_pending' PROVE timerCounter' >= 1
    <3>1. CASE TimerC \in irq_enable
      BY <3>1, ConstantsAssumption DEF IInv, TypeOK, IRQTimerC
    <3>2. CASE TimerC \notin irq_enable
      BY <2>1, <3>2, Zenon DEF IInv, TypeOK, TicksBacked, IRQTimerC, Request, Fresh
    <3> QED
      BY <3>1, <3>2
  <2> QED
    BY <2>1 DEF TicksBacked
<1> QED
  BY <1>1, <1>4, <1>5 DEF IInv, IRQTimerC, AutomaticMode, InputLinesRead, port

\* The requests of DMA sound and of the lines never concern Timer C, so they
\* leave the backlog alone.
LEMMA OtherRequest ==
  ASSUME IInv, NEW S, Request(S), TimerC \notin S,
         UNCHANGED <<irq_enable, irq_inservice, irq_mask, timerCounter, vr,
                     timers>>,
         {input', GPIP_data', active_edge', data_direction'} \subseteq SUBSET Line,
         InputLinesRead'
  PROVE  IInv'
<1>1. /\ irq_pending' \in SUBSET Level
      /\ SPCFLAG_MFP' \in BOOLEAN
      /\ Waiting' => SPCFLAG_MFP'
  BY RequestKeeps DEF IInv
<1>2. TypeOK'
  BY <1>1 DEF IInv, TypeOK
<1>3. TicksBacked'
  BY Zenon DEF IInv, TicksBacked, Request, Fresh
<1> QED
  BY <1>1, <1>2, <1>3 DEF IInv, AutomaticMode

\* No line is wired to Timer C.
LEMMA LinesAreNotTimerC == \A j \in 0..7 : map_gpip_to_ier[j] # TimerC
BY DEF map_gpip_to_ier, TimerC

\* Peripherals.
LEMMA DeviceIInv == IInv /\ Device => IInv'
<1> SUFFICES ASSUME IInv, Device PROVE IInv'
  OBVIOUS
<1>1. CASE \E count \in 1..MaxTicks : IRQTimerC(count)
  BY <1>1, IRQTimerCIInv
<1>2. ASSUME NEW j \in {13, 15}, IRQSound(j) PROVE IInv'
  <2>1. TimerC \notin {j}
    BY DEF TimerC
  <2>2. {input', GPIP_data', active_edge', data_direction'} \subseteq SUBSET Line
    BY <1>2 DEF IInv, TypeOK, IRQSound, port
  <2>3. InputLinesRead'
    BY <1>2 DEF IInv, InputLinesRead, IRQSound, port
  <2> QED
    BY <1>2, <2>1, <2>2, <2>3, OtherRequest DEF IRQSound
<1>3. ASSUME NEW j \in DrivenLines, NEW high \in BOOLEAN, setGPIPbit(j, high)
      PROVE  IInv'
  <2>1. j \in Line
    BY DEF DrivenLines
  <2>2. PICK edge \in SUBSET Line :
               Request({map_gpip_to_ier[k] : k \in edge} \cap Level)
    BY <1>3, Zenon DEF setGPIPbit
  <2>3. TimerC \notin {map_gpip_to_ier[k] : k \in edge} \cap Level
    BY ConstantsAssumption, LinesAreNotTimerC
  <2>4. {input', GPIP_data', active_edge', data_direction'} \subseteq SUBSET Line
    BY <1>3, <2>1 DEF IInv, TypeOK, setGPIPbit
  <2>5. InputLinesRead'
    BY <1>3, <2>1 DEF IInv, TypeOK, InputLinesRead, setGPIPbit
  <2>6. UNCHANGED <<irq_enable, irq_inservice, irq_mask, timerCounter, vr, timers>>
    BY <1>3 DEF setGPIPbit
  <2> QED
    BY <2>2, <2>3, <2>4, <2>5, <2>6, OtherRequest
<1> QED
  BY <1>1, <1>2, <1>3 DEF Device

\* Writes to the port registers.
LEMMA PortWriteIInv ==
  ASSUME IInv, NEW value \in SUBSET Line,
         WriteGPIP(value) \/ WriteAER(value) \/ WriteDDR(value)
  PROVE  IInv'
<1>1. CASE WriteGPIP(value)
  <2>1. TypeOK'
    BY <1>1 DEF IInv, TypeOK, WriteGPIP, irqs
  <2> QED
    BY <1>1, <2>1 DEF IInv, TypeOK, WriteGPIP, irqs, Waiting, Unmasked,
                      TicksBacked, AutomaticMode, InputLinesRead
<1>2. CASE WriteAER(value)
  <2>1. TimerC \notin {map_gpip_to_ier[j] : j \in Flipped(value)} \cap Level
    BY ConstantsAssumption, LinesAreNotTimerC DEF Flipped
  <2>2. {input', GPIP_data', active_edge', data_direction'} \subseteq SUBSET Line
    BY <1>2 DEF IInv, TypeOK, WriteAER
  <2>3. InputLinesRead'
    BY <1>2 DEF IInv, InputLinesRead, WriteAER
  <2> QED
    BY <1>2, <2>1, <2>2, <2>3, OtherRequest DEF WriteAER
<1>3. CASE WriteDDR(value)
  <2>1. TypeOK'
    BY <1>3 DEF IInv, TypeOK, WriteDDR, irqs
  <2>2. InputLinesRead'
    BY <1>3 DEF IInv, TypeOK, InputLinesRead, WriteDDR
  <2> QED
    BY <1>3, <2>1, <2>2 DEF IInv, WriteDDR, irqs, Waiting, Unmasked,
                            TicksBacked, AutomaticMode
<1> QED
  BY <1>1, <1>2, <1>3

\* Writes to the interrupt registers: each of them that can make a level wait
\* also raises the flag, and each that drops the flag leaves nothing unmasked
\* pending.
LEMMA InterruptWriteIInv ==
  ASSUME IInv, NEW byte \in Bytes, NEW value \in SUBSET (Level \cap byte),
         \/ WriteIER(byte, value)
         \/ WriteIPR(byte, value)
         \/ WriteISR(byte, value)
         \/ WriteIMR(byte, value)
  PROVE  IInv'
<1> USE DEF WriteByte, ClearByte
<1>1. CASE WriteIER(byte, value)
  <2>1. TypeOK'
    BY <1>1 DEF IInv, TypeOK, WriteIER, port
  <2>2. Waiting' => SPCFLAG_MFP'
    BY <1>1 DEF IInv, WriteIER, Waiting, Unmasked
  <2> QED
    BY <1>1, <2>1, <2>2 DEF IInv, WriteIER, port, TicksBacked, AutomaticMode,
                            InputLinesRead
<1>2. CASE WriteIPR(byte, value)
  <2>1. TypeOK'
    BY <1>2 DEF IInv, TypeOK, WriteIPR, port
  <2>2. Waiting' => SPCFLAG_MFP'
    BY <1>2, Zenon DEF IInv, WriteIPR, Waiting, Unmasked
  <2> QED
    BY <1>2, <2>1, <2>2 DEF IInv, WriteIPR, port, TicksBacked, AutomaticMode,
                            InputLinesRead
<1>3. CASE WriteISR(byte, value)
  <2>1. TypeOK'
    BY <1>3 DEF IInv, TypeOK, WriteISR, port
  <2>2. Waiting' => SPCFLAG_MFP'
    BY <1>3, Zenon DEF WriteISR, Waiting, Unmasked
  <2> QED
    BY <1>3, <2>1, <2>2 DEF IInv, WriteISR, port, TicksBacked, AutomaticMode,
                            InputLinesRead
<1>4. CASE WriteIMR(byte, value)
  <2>1. TypeOK'
    BY <1>4 DEF IInv, TypeOK, WriteIMR, TriggerMFPUnmasked, port
  <2>2. Waiting' => SPCFLAG_MFP'
    BY <1>4, Zenon DEF WriteIMR, TriggerMFPUnmasked, Waiting, Unmasked
  <2> QED
    BY <1>4, <2>1, <2>2 DEF IInv, WriteIMR, port, TicksBacked, AutomaticMode,
                            InputLinesRead
<1> QED
  BY <1>1, <1>2, <1>3, <1>4

\* A write to VR.
LEMMA WriteVRIInv ==
  ASSUME IInv, NEW base \in VectorBase, NEW sei \in BOOLEAN, WriteVR(base, sei)
  PROVE  IInv'
<1>1. vr' \in [base : VectorBase, sei : BOOLEAN] /\ vr'.sei = sei
  BY DEF WriteVR
<1>2. CASE sei
  <2>1. UNCHANGED <<port, irqs, timerCounter, timers, SPCFLAG_MFP>>
    BY <1>2 DEF WriteVR, irqs
  <2> QED
    BY <1>1, <1>2, <2>1, Zenon DEF IInv, TypeOK, port, irqs, Waiting, Unmasked,
                            TicksBacked, AutomaticMode, InputLinesRead
<1>3. CASE ~sei
  <2>1. /\ irq_inservice' = {}
        /\ SPCFLAG_MFP' = (irq_pending' \cap irq_mask' # {})
        /\ UNCHANGED <<port, irq_enable, irq_pending, irq_mask, timerCounter,
                       timers>>
    BY <1>3 DEF WriteVR, TriggerMFPUnmasked
  <2>2. TypeOK'
    BY <1>1, <2>1 DEF IInv, TypeOK, port
  <2> QED
    BY <1>1, <1>3, <2>1, <2>2, Zenon DEF IInv, port, Waiting, Unmasked, TicksBacked,
                                  AutomaticMode, InputLinesRead
<1> QED
  BY <1>2, <1>3

\* An action that only touches the timers.
LEMMA TimersOnly ==
  ASSUME IInv, timers' \in [Timer -> TimerState],
         UNCHANGED <<port, irqs, timerCounter, vr, SPCFLAG_MFP>>
  PROVE  IInv'
BY DEF IInv, TypeOK, port, irqs, Waiting, Unmasked, TicksBacked, AutomaticMode,
       InputLinesRead

\* Accesses to the timer registers.
LEMMA TimerAccessIInv ==
  ASSUME IInv,
         \/ \E t \in Timer, value \in TimerControl, resetBit \in BOOLEAN :
              WriteTABCR(t, value, resetBit)
         \/ \E c, d \in TimerControl : WriteTCDCR(c, d)
         \/ \E t \in Timer, value \in TimerData : WriteTDR(t, value)
         \/ \E t \in Timer : ReadTDR(t)
  PROVE  IInv'
<1>1. /\ timers \in [Timer -> TimerState]
      /\ \A t \in Timer : timers[t] \in TimerState
  BY DEF IInv, TypeOK
<1>2. /\ \A c \in TimerControl : c \in 0..15
      /\ \A d \in TimerData : d \in 0..255
  BY ConstantsAssumption
<1>3. ASSUME NEW t \in Timer, NEW value \in TimerControl,
             NEW resetBit \in BOOLEAN, WriteTABCR(t, value, resetBit)
      PROVE  IInv'
  <2>0. timers[t] \in TimerState /\ value \in 0..15
    BY <1>1, <1>2, <1>3
  <2>1. setControl(timers[t], value, resetBit) \in TimerState
    BY <2>0, ControlKeepsTimer, Zenon
  <2> QED
    BY <1>1, <1>3, <2>1, TimersOnly DEF WriteTABCR
<1>4. ASSUME NEW c \in TimerControl, NEW d \in TimerControl, WriteTCDCR(c, d)
      PROVE  IInv'
  <2>0. c \in 0..15 /\ d \in 0..15 /\ FALSE \in BOOLEAN
    BY <1>2, <1>4
  <2>1. \A t \in Timer : /\ setControl(timers[t], c, FALSE) \in TimerState
                         /\ setControl(timers[t], d, FALSE) \in TimerState
    BY <1>1, <2>0, ControlKeepsTimer, Zenon
  <2>2. \A t \in Timer : (CASE t = "C" -> setControl(timers[t], c, FALSE)
                            [] t = "D" -> setControl(timers[t], d, FALSE)
                            [] OTHER -> timers[t]) \in TimerState
    BY <1>1, <2>1, Zenon
  <2>3. timers' \in [Timer -> TimerState]
    BY <1>4, <2>2, Zenon DEF WriteTCDCR
  <2> QED
    BY <1>4, <2>3, TimersOnly, Zenon DEF WriteTCDCR
<1>5. ASSUME NEW t \in Timer, NEW value \in TimerData, WriteTDR(t, value)
      PROVE  IInv'
  <2>1. setData(timers[t], value) \in TimerState
    BY <1>1, <1>2, DataKeepsTimer
  <2>2. timers' \in [Timer -> TimerState]
    BY <1>1, <1>5, <2>1 DEF WriteTDR
  <2> QED
    BY <1>5, <2>2, TimersOnly DEF WriteTDR
<1>6. ASSUME NEW t \in Timer, ReadTDR(t) PROVE IInv'
  <2>1. getData(timers[t]) \in TimerState
    BY <1>1, CounterKeepsTimer
  <2> QED
    BY <1>1, <1>6, <2>1, TimersOnly DEF ReadTDR
<1> QED
  BY <1>3, <1>4, <1>5, <1>6

\* The guest.
LEMMA GuestIInv == IInv /\ Guest => IInv'
<1> SUFFICES ASSUME IInv, Guest PROVE IInv'
  OBVIOUS
<1>1. CASE reset
  <2>1. timers' \in [Timer -> TimerState]
    BY <1>1 DEF reset, timerReset, TimerState
  <2>2. TypeOK'
    BY <1>1, <2>1, ConstantsAssumption DEF IInv, TypeOK, reset
  <2> QED
    BY <1>1, <2>2 DEF IInv, reset, Waiting, Unmasked, TicksBacked,
                      AutomaticMode, InputLinesRead
<1> QED
  BY <1>1, PortWriteIInv, InterruptWriteIInv, WriteVRIInv, TimerAccessIInv
     DEF Guest

\* The CPU loop: when doInterrupt finds nothing to pass nothing waits, and what
\* it passes leaves the flag up for everything that still may be passed.
LEMMA ServeIInv == IInv /\ ServeMFP => IInv'
<1> SUFFICES ASSUME IInv, ServeMFP PROVE IInv'
  OBVIOUS
<1>a. irq_pending \in SUBSET Level /\ irq_inservice \in SUBSET Level
  BY DEF IInv, TypeOK
<1>b. Level \subseteq 0..15
  BY ConstantsAssumption
<1>0. Unmasked \in SUBSET (0..15) /\ irq_inservice \in SUBSET (0..15)
  BY <1>a, <1>b, Zenon DEF Unmasked
<1>1. CASE doInterruptNone
  <2>1. ~Waiting
    <3> SUFFICES ASSUME Waiting PROVE FALSE
      OBVIOUS
    <3>1. PICK j \in Unmasked : \A k \in irq_inservice : k < j
      BY DEF Waiting
    <3>2. PICK m \in Unmasked : \A k \in Unmasked : k <= m
      BY <1>0, <3>1, Highest
    <3>3. \A k \in irq_inservice : k < m
      BY <1>0, <3>1, <3>2
    <3>4. Deliverable(m)
      BY <1>0, <3>2, <3>3 DEF Deliverable, AtLeast
    <3>5. m \in Level
      BY <3>2 DEF IInv, TypeOK, Unmasked
    <3> QED
      BY <1>1, <3>4, <3>5 DEF doInterruptNone
  <2> QED
    BY <1>1, <2>1, Zenon DEF IInv, TypeOK, doInterruptNone, port, irqs, Waiting,
                      Unmasked, TicksBacked, AutomaticMode, InputLinesRead
<1>2. ASSUME NEW j \in Level, doInterrupt(j) PROVE IInv'
  <2>1. /\ j \in Unmasked /\ j \in 0..15
        /\ \A k \in Unmasked : k \in 0..15 /\ k <= j
        /\ \A k \in irq_inservice : k \in 0..15 /\ k < j
    BY <1>0, <1>2 DEF doInterrupt, Deliverable, AtLeast
  <2>2. timerCounter' \in Nat
    BY <1>2, <2>1 DEF IInv, TypeOK, TicksBacked, Unmasked, doInterrupt, UsesTick
  <2>3. TypeOK'
    BY <1>2, <2>2 DEF IInv, TypeOK, doInterrupt, port
  <2>4. TicksBacked'
    BY <1>2, <2>1, <2>2 DEF IInv, TypeOK, TicksBacked, doInterrupt, UsesTick,
                            LastPass
  <2>5. AutomaticMode'
    BY <1>2 DEF IInv, AutomaticMode, doInterrupt
  <2>6. ASSUME Waiting' PROVE SPCFLAG_MFP'
    <3>1. PICK i \in irq_pending' \cap irq_mask : \A k \in irq_inservice' : k < i
      BY <1>2, <2>6 DEF Waiting, Unmasked, doInterrupt
    <3>2. i \in Unmasked
      BY <1>2, <3>1 DEF doInterrupt, Unmasked
    <3>3. ~vr.sei
      BY <1>2, <2>1, <3>1, <3>2 DEF doInterrupt
    <3>4. i <= j /\ i \in 0..15
      BY <2>1, <3>2
    <3>5. LastPass(j) => i # j
      BY <1>2, <3>1 DEF doInterrupt
    <3>6. j # 0
      BY <2>1, <3>4, <3>5 DEF LastPass, TimerC
    <3>7. vr.base + j # 0
      BY <2>1, <3>6, Numbers DEF IInv, TypeOK
    <3> QED
      BY <1>2, <3>1, <3>3, <3>7, Zenon DEF doInterrupt
  <2> QED
    BY <1>2, <2>3, <2>4, <2>5, <2>6 DEF IInv, InputLinesRead, doInterrupt, port
<1> QED
  BY <1>1, <1>2 DEF ServeMFP

\* The invariant is inductive.
LEMMA NextIInv == IInv /\ [Next]_vars => IInv'
<1> SUFFICES ASSUME IInv, [Next]_vars PROVE IInv'
  OBVIOUS
<1>1. CASE UNCHANGED vars
  BY <1>1 DEF IInv, TypeOK, vars, port, irqs, Waiting, Unmasked, TicksBacked,
              AutomaticMode, InputLinesRead
<1> QED
  BY <1>1, DeviceIInv, GuestIInv, ServeIInv DEF Next

\* Every behaviour of the MFP satisfies it.
THEOREM Invariance == Spec => []IInv
BY InitIInv, NextIInv, PTL DEF Spec

-----------------------------------------------------------------------------
(***************************************************************************)
(* The safety properties.                                                  *)
(***************************************************************************)

\* Every register of the MFP keeps its width and the Timer C backlog never
\* becomes negative.
THEOREM TypeCorrect == Spec => []TypeOK
BY Invariance, PTL DEF IInv

\* No sequence of requests, register writes and vector passes leaves a
\* deliverable interrupt behind a dropped SPCFLAG_MFP, for every set of levels.
THEOREM InterruptsAreNotLost == Spec => []NoLostInterrupt
<1>1. IInv => NoLostInterrupt
  <2> SUFFICES ASSUME IInv, NEW j \in Level, Deliverable(j) PROVE SPCFLAG_MFP
    BY DEF NoLostInterrupt
  <2>1. \A k \in irq_inservice : k \in 0..15
    BY Numbers DEF IInv, TypeOK
  <2>2. j \in 0..15
    BY Numbers
  <2>3. \A k \in irq_inservice : k < j
    BY <2>1, <2>2 DEF Deliverable, AtLeast
  <2> QED
    BY <2>3 DEF IInv, Waiting, Deliverable
<1> QED
  BY <1>1, Invariance, PTL

\* A pending Timer C interrupt always stands for at least one tick.
THEOREM TicksAreBacked == Spec => []TicksBacked
BY Invariance, PTL DEF IInv

\* No level stays in service in automatic end-of-interrupt mode.
THEOREM AutomaticModeIsClean == Spec => []AutomaticMode
BY Invariance, PTL DEF IInv

\* An input line reads as its peripheral drives it, for every set of lines.
THEOREM InputLinesAreRead == Spec => []InputLinesRead
BY Invariance, PTL DEF IInv

\* The lines whose transition detector sees a 1-0 transition in a step.
Fell == {j \in Line \ data_direction : j \in Detector /\ j \notin Detector'}

\* What EdgeDetected says of one step.
EdgeStep ==
  /\ LineLevels(Fell) \cap irq_enable' \subseteq irq_pending'
  /\ (irq_pending' \ irq_pending) \cap LineLevels(Line \ {7})
       \subseteq LineLevels(Fell)

\* A step that moves no line and no edge, and whose new requests are not of a
\* line other than 7.
LEMMA NoEdge ==
  ASSUME UNCHANGED <<input, active_edge>>,
         (irq_pending' \ irq_pending) \cap LineLevels(Line \ {7}) = {}
  PROVE  EdgeStep
BY DEF EdgeStep, Fell, Detector, LineLevels

\* A step that requests exactly the lines that fell.
LEMMA ExactEdge ==
  ASSUME Request({map_gpip_to_ier[j] : j \in Fell} \cap Level),
         UNCHANGED irq_enable
  PROVE  EdgeStep
BY Zenon DEF EdgeStep, LineLevels, Request, Fresh

\* A line interrupt becomes pending exactly when the line's detector, as the
\* data sheet describes it, sees a 1-0 transition.
THEOREM EdgesAreDetected == Spec => EdgeDetected
<1>1. IInv /\ [Next]_vars => [~reset => EdgeStep]_vars
  <2> SUFFICES ASSUME IInv, Next, ~reset PROVE EdgeStep
    OBVIOUS
  <2>0. Line \subseteq 0..7
    BY ConstantsAssumption
  <2>1. ASSUME NEW count \in 1..MaxTicks, IRQTimerC(count) PROVE EdgeStep
    <3>1. TimerC \notin LineLevels(Line \ {7})
      BY <2>0, LinesAreNotTimerC DEF LineLevels
    <3> QED
      BY <2>1, <3>1, NoEdge, Zenon DEF IRQTimerC, Request, Fresh, port
  <2>2. ASSUME NEW i \in {13, 15}, IRQSound(i) PROVE EdgeStep
    <3>1. \A k \in 0..6 : map_gpip_to_ier[k] # 13 /\ map_gpip_to_ier[k] # 15
      BY DEF map_gpip_to_ier
    <3>2. \A k \in Line \ {7} : k \in 0..6
      BY <2>0
    <3>3. i \notin LineLevels(Line \ {7})
      BY <3>1, <3>2 DEF LineLevels
    <3> QED
      BY <2>2, <3>3, NoEdge, Zenon DEF IRQSound, Request, Fresh, port
  <2>3. ASSUME NEW i \in DrivenLines, NEW high \in BOOLEAN, setGPIPbit(i, high)
        PROVE  EdgeStep
    <3> DEFINE edge == {k \in Line : /\ (k \in GPIP_data) # (k \in GPIP_data')
                                     /\ (k \in active_edge) = (k \in GPIP_data')}
    <3>1. /\ Request({map_gpip_to_ier[k] : k \in edge} \cap Level)
          /\ UNCHANGED <<active_edge, data_direction, irq_enable>>
      BY <2>3 DEF setGPIPbit
    <3>2. /\ \A k \in Line \ data_direction : (k \in GPIP_data) = (k \in input)
          /\ \A k \in Line \ data_direction : (k \in GPIP_data') = (k \in input')
      BY <2>3 DEF IInv, InputLinesRead, setGPIPbit
    <3>3. \A k \in data_direction : (k \in GPIP_data) = (k \in GPIP_data')
      BY <2>3 DEF setGPIPbit
    <3>4. edge = Fell
      <4>1. ASSUME NEW k \in Line PROVE k \in edge <=> k \in Fell
        <5>1. CASE k \in data_direction
          BY <3>3, <5>1 DEF Fell
        <5>2. CASE k \notin data_direction
          BY <3>1, <3>2, <5>2 DEF Fell, Detector
        <5> QED
          BY <5>1, <5>2
      <4> QED
        BY <4>1 DEF Fell
    <3> QED
      BY <3>1, <3>4, ExactEdge
  <2>4. ASSUME NEW value \in SUBSET Line, WriteAER(value) PROVE EdgeStep
    <3>1. Flipped(value) = Fell
      BY <2>4 DEF WriteAER, Flipped, Fell, Detector
    <3> QED
      BY <2>4, <3>1, ExactEdge DEF WriteAER
  <2>5. ASSUME NEW value \in SUBSET Line, WriteGPIP(value) \/ WriteDDR(value)
        PROVE  EdgeStep
    BY <2>5, NoEdge DEF WriteGPIP, WriteDDR, irqs
  <2>6. ASSUME NEW byte \in Bytes, NEW value \in SUBSET (Level \cap byte),
               \/ WriteIER(byte, value) \/ WriteIPR(byte, value)
               \/ WriteISR(byte, value) \/ WriteIMR(byte, value)
        PROVE  EdgeStep
    BY <2>6, NoEdge DEF WriteIER, WriteIPR, WriteISR, WriteIMR, ClearByte, port
  <2>7. ASSUME NEW base \in VectorBase, NEW sei \in BOOLEAN, WriteVR(base, sei)
        PROVE  EdgeStep
    BY <2>7, NoEdge DEF WriteVR, port
  <2>8. CASE \/ \E t \in Timer, value \in TimerControl, resetBit \in BOOLEAN :
                  WriteTABCR(t, value, resetBit)
             \/ \E c, d \in TimerControl : WriteTCDCR(c, d)
             \/ \E t \in Timer, value \in TimerData : WriteTDR(t, value)
             \/ \E t \in Timer : ReadTDR(t)
    BY <2>8, NoEdge, Zenon DEF WriteTABCR, WriteTCDCR, WriteTDR, ReadTDR, port, irqs
  <2>9. CASE ServeMFP
    BY <2>9, NoEdge DEF ServeMFP, doInterruptNone, doInterrupt, port, irqs
  <2> QED
    BY <2>1, <2>2, <2>3, <2>4, <2>5, <2>6, <2>7, <2>8, <2>9
       DEF Next, Device, Guest
<1> QED
  BY <1>1, Invariance, PTL DEF Spec, EdgeDetected, EdgeStep, Fell

-----------------------------------------------------------------------------
(***************************************************************************)
(* The MFP implements the safety part of InterruptController.              *)
(***************************************************************************)

\* The backlog the abstract controller sees.
Backlog == IF TimerC \in irq_pending THEN timerCounter ELSE 0

\* A request is the abstract Raise when only Timer C's own tick counts.
LEMMA RequestRaises ==
  ASSUME IInv, NEW S, Request(S), TimerC \notin S,
         UNCHANGED <<irq_enable, irq_inservice, irq_mask, timerCounter, vr>>
  PROVE  Ideal!Next
<1>1. irq_enable \in SUBSET Level
  BY DEF IInv, TypeOK
<1>2. irq_pending' = irq_pending \cup ((S \cap Level) \cap irq_enable)
  BY <1>1, Zenon DEF Request, Fresh
<1>3. Backlog' = Backlog
  BY <1>2 DEF Backlog
<1>4. Ideal!Raise(S \cap Level)
  BY <1>2, <1>3 DEF Ideal!Raise, Backlog
<1> QED
  BY <1>4 DEF Ideal!Next

\* Peripherals.
LEMMA DeviceRefines ==
  ASSUME IInv, Device
  PROVE  [Ideal!Next]_(Ideal!vars)
<1>1. ASSUME NEW count \in 1..MaxTicks, IRQTimerC(count)
      PROVE  [Ideal!Next]_(Ideal!vars)
  <2>1. CASE TimerC \in irq_enable
    <3>1. irq_pending' = irq_pending \cup ({TimerC} \cap irq_enable)
      BY <1>1, Zenon DEF IRQTimerC, Request, Fresh
    <3>2. Backlog' \in Nat /\ Backlog' > Backlog
      BY <1>1, <2>1, <3>1, ConstantsAssumption DEF IInv, TypeOK, IRQTimerC, Backlog
    <3>3. Ideal!Raise({TimerC})
      BY <1>1, <2>1, <3>1, <3>2 DEF IRQTimerC, Ideal!Raise, Backlog
    <3>4. {TimerC} \in SUBSET Level
      BY <1>1 DEF IRQTimerC
    <3> QED
      BY <3>3, <3>4 DEF Ideal!Next
  <2>2. CASE TimerC \notin irq_enable
    <3>1. UNCHANGED <<irqs, timerCounter, vr>>
      BY <1>1, <2>2, Zenon DEF IRQTimerC, Request, Fresh, irqs
    <3> QED
      BY <3>1 DEF Ideal!vars, irqs
  <2> QED
    BY <2>1, <2>2
<1>2. ASSUME NEW j \in {13, 15}, IRQSound(j)
      PROVE  [Ideal!Next]_(Ideal!vars)
  <2>1. TimerC \notin {j}
    BY DEF TimerC
  <2> QED
    BY <1>2, <2>1, RequestRaises DEF IRQSound
<1>3. ASSUME NEW j \in DrivenLines, NEW high \in BOOLEAN, setGPIPbit(j, high)
      PROVE  [Ideal!Next]_(Ideal!vars)
  <2>1. PICK edge \in SUBSET Line :
               Request({map_gpip_to_ier[k] : k \in edge} \cap Level)
    BY <1>3 DEF setGPIPbit
  <2>2. TimerC \notin {map_gpip_to_ier[k] : k \in edge} \cap Level
    BY ConstantsAssumption, LinesAreNotTimerC
  <2>3. UNCHANGED <<irq_enable, irq_inservice, irq_mask, timerCounter, vr>>
    BY <1>3 DEF setGPIPbit
  <2> QED
    BY <2>1, <2>2, <2>3, RequestRaises
<1> QED
  BY <1>1, <1>2, <1>3 DEF Device

\* A step that leaves the interrupt registers, the backlog and VR alone is a
\* stutter.
LEMMA Stutters ==
  ASSUME UNCHANGED <<irqs, timerCounter, vr>>
  PROVE  [Ideal!Next]_(Ideal!vars)
BY DEF Ideal!vars, irqs

\* Writes to the interrupt registers.
LEMMA InterruptWriteRefines ==
  ASSUME IInv, NEW byte \in Bytes, NEW value \in SUBSET (Level \cap byte),
         \/ WriteIER(byte, value)
         \/ WriteIPR(byte, value)
         \/ WriteISR(byte, value)
         \/ WriteIMR(byte, value)
  PROVE  Ideal!Next
<1> USE DEF WriteByte, ClearByte
<1>0. /\ irq_enable \in SUBSET Level /\ irq_pending \in SUBSET Level
      /\ irq_inservice \in SUBSET Level /\ irq_mask \in SUBSET Level
  BY DEF IInv, TypeOK
<1> DEFINE zeros == (Level \cap byte) \ value
<1>1. CASE WriteIER(byte, value)
  <2>1. irq_enable' \in SUBSET Level
    BY <1>0, <1>1 DEF WriteIER
  <2>2. Backlog' = IF TimerC \in irq_enable' THEN Backlog ELSE 0
    BY <1>1 DEF WriteIER, Backlog
  <2>3. Ideal!Enable(irq_enable')
    BY <1>1, <2>2 DEF WriteIER, Ideal!Enable, Ideal!Keep, Backlog
  <2> QED
    BY <2>1, <2>3 DEF Ideal!Next
<1>2. CASE WriteIPR(byte, value)
  <2>1. irq_pending' = irq_pending \cap (Level \ zeros)
    BY <1>0, <1>2 DEF WriteIPR
  <2>2. Backlog' = IF TimerC \in Level \ zeros THEN Backlog ELSE 0
    BY <1>0, <1>2, <2>1 DEF WriteIPR, Backlog
  <2>3. Ideal!Cancel(zeros)
    BY <1>2, <2>1, <2>2 DEF WriteIPR, Ideal!Cancel, Ideal!Keep, Backlog
  <2> QED
    BY <2>3 DEF Ideal!Next
<1>3. CASE WriteISR(byte, value)
  <2>1. irq_inservice' = irq_inservice \ zeros
    BY <1>0, <1>3 DEF WriteISR
  <2>2. Ideal!EndService(zeros)
    BY <1>3, <2>1 DEF WriteISR, Ideal!EndService
  <2> QED
    BY <2>2 DEF Ideal!Next
<1>4. CASE WriteIMR(byte, value)
  <2>1. irq_mask' \in SUBSET Level
    BY <1>0, <1>4 DEF WriteIMR
  <2>2. Ideal!Mask(irq_mask')
    BY <1>4 DEF WriteIMR, Ideal!Mask
  <2> QED
    BY <2>1, <2>2 DEF Ideal!Next
<1> QED
  BY <1>1, <1>2, <1>3, <1>4

\* The guest.
LEMMA GuestRefines ==
  ASSUME IInv, Guest
  PROVE  [Ideal!Next]_(Ideal!vars)
<1>1. CASE reset
  <2>1. Ideal!Reset
    BY <1>1 DEF reset, Ideal!Reset
  <2> QED
    BY <2>1 DEF Ideal!Next
<1>2. ASSUME NEW value \in SUBSET Line,
             WriteGPIP(value) \/ WriteAER(value) \/ WriteDDR(value)
      PROVE  [Ideal!Next]_(Ideal!vars)
  <2>1. CASE WriteGPIP(value) \/ WriteDDR(value)
    BY <2>1, Stutters DEF WriteGPIP, WriteDDR
  <2>2. CASE WriteAER(value)
    <3>1. TimerC \notin {map_gpip_to_ier[j] : j \in Flipped(value)} \cap Level
      BY ConstantsAssumption, LinesAreNotTimerC, Zenon DEF Flipped
    <3> QED
      BY <2>2, <3>1, RequestRaises DEF WriteAER
  <2> QED
    BY <1>2, <2>1, <2>2
<1>3. ASSUME NEW base \in VectorBase, NEW sei \in BOOLEAN, WriteVR(base, sei)
      PROVE  [Ideal!Next]_(Ideal!vars)
  <2>1. /\ vr'.sei = sei
        /\ irq_inservice' = IF sei THEN irq_inservice ELSE {}
        /\ UNCHANGED <<irq_enable, irq_pending, irq_mask, timerCounter>>
    BY <1>3 DEF WriteVR
  <2>2. Ideal!Mode(sei)
    BY <2>1 DEF Ideal!Mode
  <2> QED
    BY <2>2 DEF Ideal!Next
<1>4. CASE \/ \E t \in Timer, value \in TimerControl, resetBit \in BOOLEAN :
                WriteTABCR(t, value, resetBit)
           \/ \E c, d \in TimerControl : WriteTCDCR(c, d)
           \/ \E t \in Timer, value \in TimerData : WriteTDR(t, value)
           \/ \E t \in Timer : ReadTDR(t)
  BY <1>4, Stutters, Zenon DEF WriteTABCR, WriteTCDCR, WriteTDR, ReadTDR
<1> QED
  BY <1>1, <1>2, <1>3, <1>4, InterruptWriteRefines DEF Guest

\* The CPU loop: an unsuccessful call of doInterrupt is a stutter, a successful
\* one the abstract Pass.
LEMMA ServeRefines ==
  ASSUME IInv, ServeMFP
  PROVE  [Ideal!Next]_(Ideal!vars)
<1>1. CASE doInterruptNone
  BY <1>1, Stutters DEF doInterruptNone
<1>2. ASSUME NEW j \in Level, doInterrupt(j) PROVE [Ideal!Next]_(Ideal!vars)
  <2>1. j \in 0..15 /\ \A k \in irq_inservice : k \in 0..15
    BY Numbers DEF IInv, TypeOK
  <2>2. Ideal!Deliverable(j)
    BY <1>2, <2>1 DEF doInterrupt, Deliverable, AtLeast, Unmasked,
                      Ideal!Deliverable
  <2>3. j \in irq_pending
    BY <1>2 DEF doInterrupt, Deliverable, Unmasked
  <2>4. CASE j = TimerC
    <3>1. timerCounter \in Nat /\ timerCounter >= 1 /\ Backlog = timerCounter
      BY <2>3, <2>4 DEF IInv, TypeOK, TicksBacked, Backlog
    <3>2. irq_pending' = IF Backlog > 1 THEN irq_pending ELSE irq_pending \ {j}
      BY <1>2, <2>4, <3>1 DEF doInterrupt, LastPass
    <3>3. Backlog' = Backlog - 1
      BY <1>2, <2>3, <2>4, <3>1, <3>2 DEF doInterrupt, UsesTick, Backlog
    <3>4. Ideal!Pass(j)
      BY <1>2, <2>2, <2>4, <3>2, <3>3 DEF doInterrupt, Ideal!Pass, Backlog
    <3> QED
      BY <3>4 DEF Ideal!Next, Ideal!PassAny
  <2>5. CASE j # TimerC
    <3>1. irq_pending' = irq_pending \ {j} /\ Backlog' = Backlog
      BY <1>2, <2>5 DEF doInterrupt, LastPass, UsesTick, Backlog
    <3>2. Ideal!Pass(j)
      BY <1>2, <2>2, <2>5, <3>1 DEF doInterrupt, Ideal!Pass, Backlog
    <3> QED
      BY <3>2 DEF Ideal!Next, Ideal!PassAny
  <2> QED
    BY <2>4, <2>5
<1> QED
  BY <1>1, <1>2 DEF ServeMFP

\* Seen through its registers the MFP is a controller without a cached flag:
\* every step of it is a step of InterruptController or changes nothing there.
\* (That the controller's fairness is implemented too, ImplementsController, is
\* model-checked.)
THEOREM RefinesController == Spec => Ideal!Safety
<1>1. Init => Ideal!Init
  BY DEF Init, Ideal!Init
<1>2. IInv /\ [Next]_vars => [Ideal!Next]_(Ideal!vars)
  <2> SUFFICES ASSUME IInv, [Next]_vars PROVE [Ideal!Next]_(Ideal!vars)
    OBVIOUS
  <2>1. CASE UNCHANGED vars
    BY <2>1, Stutters DEF vars
  <2> QED
    BY <2>1, DeviceRefines, GuestRefines, ServeRefines DEF Next
<1> QED
  BY <1>1, <1>2, Invariance, PTL DEF Spec, Ideal!Safety
(***************************************************************************)
(* The timers' counts.                                                     *)
(***************************************************************************)

\* A step that raises no count, as every access to a timer but a write of its
\* data register while it stands still.
LEMMA NoHigher ==
  ASSUME \A t \in Timer : \/ timers'[t].current_data <= timers[t].current_data
                          \/ ~isRunning(timers[t])
                          \/ ~isRunning(timers'[t]),
         \A t \in Timer : /\ timers[t].current_data \in Int
                          /\ timers'[t].current_data \in Int
  PROVE  CountdownStep
BY DEF CountdownStep

\* What the operations on one timer do to its count.
LEMMA CountsAre ==
  ASSUME NEW t \in TimerState
  PROVE  /\ t.current_data \in Int
         /\ \A c, r : setControl(t, c, r).current_data = t.current_data
         /\ \A d : isRunning(t) => setData(t, d).current_data = t.current_data
         /\ getData(t).current_data \in {t.current_data, t.current_data - 1}
<1>1. t.current_data \in Int
  BY DEF TimerState
<1>2. \A c, r : setControl(t, c, r).current_data = t.current_data
  <2> SUFFICES ASSUME NEW c, NEW r PROVE setControl(t, c, r).current_data = t.current_data
    OBVIOUS
  <2> DEFINE s == IF r THEN FALSE ELSE t.state
  <2>1. setControl(t, c, r) = [t EXCEPT !.control = c, !.state = s]
    BY Zenon DEF setControl
  <2> HIDE DEF s
  <2> QED
    BY <2>1 DEF TimerState
<1>3. \A d : isRunning(t) => setData(t, d).current_data = t.current_data
  BY DEF setData, TimerState
<1>4. getData(t).current_data \in {t.current_data, t.current_data - 1}
  BY <1>1 DEF getData, TimerState
<1> QED
  BY <1>1, <1>2, <1>3, <1>4

\* The count of a running timer only falls, until Timer C's tick reloads it:
\* writes of its registers and reads of its data do not raise it.
THEOREM CountdownOnlyFalls == Spec => CountdownMonotone
<1>1. ASSUME IInv, IInv', [Next]_vars PROVE [CountdownStep]_vars
  <2> SUFFICES ASSUME Next PROVE CountdownStep
    BY <1>1
  <2>1. /\ timers \in [Timer -> TimerState] /\ timers' \in [Timer -> TimerState]
        /\ \A t \in Timer : timers[t] \in TimerState /\ timers'[t] \in TimerState
    BY <1>1 DEF IInv, TypeOK
  <2>2. \A t \in Timer : /\ timers[t].current_data \in Int
                         /\ timers'[t].current_data \in Int
    BY <2>1, CountsAre
  <2>3. ASSUME UNCHANGED timers PROVE CountdownStep
    BY <2>2, <2>3, NoHigher
  <2>4. ASSUME NEW count \in 1..MaxTicks, IRQTimerC(count) PROVE CountdownStep
    <3>1. \A t \in Timer : t # "C" => timers'[t] = timers[t]
      BY <2>4 DEF IRQTimerC
    <3>2. ASSUME "C" \in Timer, isRunning(timers["C"])
          PROVE  /\ timers'["C"].current_data = timers["C"].start_data
                 /\ timers'["C"].state = TRUE
      <4>1. timers'["C"] = [timers["C"] EXCEPT !.state = TRUE,
                                               !.current_data = timers["C"].start_data]
        BY <2>4, <3>2 DEF IRQTimerC, resetCounter
      <4> QED
        BY <2>1, <3>2, <4>1 DEF TimerState
    <3>3. \A t \in Timer : t # "C" => ~(timers'[t].current_data > timers[t].current_data)
      BY <2>2, <3>1
    <3> QED
      BY <3>2, <3>3, Zenon DEF CountdownStep
  <2>5. CASE reset
    <3>1. \A t \in Timer : ~isRunning(timers'[t])
      BY <2>5 DEF reset, timerReset, isRunning
    <3> QED
      BY <2>2, <3>1, NoHigher
  <2>6. ASSUME NEW t \in Timer, NEW value \in TimerControl, NEW resetBit \in BOOLEAN,
               WriteTABCR(t, value, resetBit)
        PROVE  CountdownStep
    <3>1. \A k \in Timer : timers'[k].current_data = timers[k].current_data
      <4>1. timers'[t] = setControl(timers[t], value, resetBit)
            /\ \A k \in Timer : k # t => timers'[k] = timers[k]
        BY <2>1, <2>6, Zenon DEF WriteTABCR
      <4> QED
        BY <2>1, <4>1, CountsAre
    <3> QED
      BY <2>2, <3>1, NoHigher
  <2>7. ASSUME NEW c \in TimerControl, NEW d \in TimerControl, WriteTCDCR(c, d)
        PROVE  CountdownStep
    <3>1. ASSUME NEW k \in Timer PROVE timers'[k].current_data = timers[k].current_data
      <4>0. timers[k] \in TimerState
        BY <2>1
      <4>a. \A v, r : setControl(timers[k], v, r).current_data = timers[k].current_data
        BY <4>0, CountsAre
      <4>1. /\ setControl(timers[k], c, FALSE).current_data = timers[k].current_data
            /\ setControl(timers[k], d, FALSE).current_data = timers[k].current_data
        BY <4>a, Zenon
      <4>2. \/ timers'[k] = setControl(timers[k], c, FALSE)
            \/ timers'[k] = setControl(timers[k], d, FALSE)
            \/ timers'[k] = timers[k]
        BY <2>7, Zenon DEF WriteTCDCR
      <4> QED
        BY <4>1, <4>2, Zenon
    <3> QED
      BY <2>2, <3>1, NoHigher
  <2>8. ASSUME NEW t \in Timer, NEW value \in TimerData, WriteTDR(t, value)
        PROVE  CountdownStep
    <3>1. \A k \in Timer : k # t => timers'[k] = timers[k]
      BY <2>1, <2>8 DEF WriteTDR
    <3>2. isRunning(timers[t]) => timers'[t].current_data = timers[t].current_data
      <4>0. timers[t] \in TimerState
        BY <2>1
      <4>1. timers'[t] = setData(timers[t], value)
        BY <2>1, <2>8, Zenon DEF WriteTDR
      <4> QED
        BY <4>0, <4>1, CountsAre
    <3> QED
      BY <2>2, <3>1, <3>2, NoHigher
  <2>9. ASSUME NEW t \in Timer, ReadTDR(t) PROVE CountdownStep
    <3>1. \A k \in Timer : k # t => timers'[k] = timers[k]
      BY <2>1, <2>9 DEF ReadTDR
    <3>2. timers'[t].current_data \in {timers[t].current_data, timers[t].current_data - 1}
      <4>1. timers'[t] = getData(timers[t])
        BY <2>1, <2>9, Zenon DEF ReadTDR
      <4> QED
        BY <2>1, <4>1, CountsAre, Zenon
    <3> QED
      BY <2>2, <3>1, <3>2, NoHigher
  <2>10. CASE Device
    BY <2>3, <2>4, <2>10 DEF Device, IRQSound, setGPIPbit
  <2>11. CASE ServeMFP
    BY <2>3, <2>11 DEF ServeMFP, doInterruptNone, doInterrupt
  <2>12. CASE Guest
    BY <2>3, <2>5, <2>6, <2>7, <2>8, <2>9, <2>12
       DEF Guest, WriteGPIP, WriteAER, WriteDDR, WriteIER, WriteIPR, WriteISR, WriteIMR, WriteVR
  <2> QED
    BY <2>10, <2>11, <2>12 DEF Next
<1> QED
  BY <1>1, Invariance, PTL DEF Spec, CountdownMonotone
=============================================================================
