---------------------------- MODULE AudioDmaProofs ----------------------------
(***************************************************************************)
(* Proofs about the DMA sound for every length of the host's buffer and    *)
(* every overrun of a conversion.                                          *)
(*                                                                         *)
(* EnabledIsPlaying speaks of the moments when both threads are at rest.   *)
(* It follows from BitTells, which holds while the callback runs and only  *)
(* pauses between the CPU's store of control and its updateControl.        *)
(* SourceInFrame speaks of the callback while it converts; Frame and       *)
(* InFrame follow the frame from updateControl through reload and stop.    *)
(***************************************************************************)
EXTENDS AudioDma, TLAPS

\* Where the callback is while it owes the guest a decision about the frame.
Active == {"convert", "end", "reload", "reload end", "stop", "stop store", "trigger"}

TypeOK ==
    /\ start \in Address /\ end \in Address
    /\ replay \in [start : Int, current : Int, end : Int]
    /\ cpu \in {"idle", "store", "updateControl"}
    /\ callback \in Active \cup {"idle", "irq"}

\* The ENABLE bit and the playing state agree except while the CPU is between
\* its store of control and updateControl.
BitTells ==
    /\ cpu # "updateControl" => (playing <=> "ENABLE" \in control)
    /\ callback = "stop store" => "ENABLE" \notin cleared

\* A sound the guest leaves alone is enabled and has a frame that is not empty,
\* of which the callback plays the copy.  It plays throughout a callback.
Frame ==
    ~disturbed =>
        /\ callback \in Active => playing
        /\ playing => /\ "ENABLE" \in control
                      /\ 0 < start /\ start < end
                      /\ replay.start = start /\ replay.end = end

\* The next sample is inside the frame, but for the time between the end of the
\* frame and its reload.
InFrame ==
    ~disturbed /\ playing =>
        /\ replay.start <= replay.current
        /\ callback \in {"idle", "irq", "convert", "trigger"} => replay.current < replay.end
        /\ callback = "reload end" => replay.current = replay.start

\* The inductive invariant.
IInv == TypeOK /\ BitTells /\ Frame /\ InFrame

-----------------------------------------------------------------------------

\* The two addresses a byte write can make of an address.
LEMMA ByteInAddress ==
    ASSUME NEW a \in Address, NEW v \in {0, 1}
    PROVE  WithByte(a, v) \subseteq Address
BY DEF Address, WithByte

\* A conversion reports whole lengths; it never steps back unless the frame is
\* already used up.
LEMMA ConvertedLengths ==
    ASSUME NEW src \in Int, NEW c \in Converted(src)
    PROVE  c[1] \in Int /\ (src >= 0 => c[1] >= 0)
BY AudioAssumption DEF Converted

LEMMA InitIInv == Init => IInv
BY DEF Init, IInv, TypeOK, BitTells, Frame, InFrame, Active, Address, NoReplay

\* What the invariant says of the frame's copy.
LEMMA ReplayType ==
    ASSUME IInv
    PROVE  /\ replay = [start |-> replay.start, current |-> replay.current, end |-> replay.end]
           /\ replay.start \in Int /\ replay.current \in Int /\ replay.end \in Int
           /\ start \in Int /\ end \in Int
           /\ replay.end - replay.current \in Int
BY DEF IInv, TypeOK, Address

\* The CPU thread.
LEMMA CpuIInv == IInv /\ (CpuCall \/ Guest) => IInv'
<1> SUFFICES ASSUME IInv, CpuCall \/ Guest PROVE IInv'
  OBVIOUS
<1>1. CASE StoreControl
  BY <1>1 DEF StoreControl, thread, IInv, TypeOK, BitTells, Frame, InFrame
<1>2. CASE updateControl
  <2>0. /\ callback = "idle" /\ UNCHANGED <<callback, cleared, control, start, end>>
        /\ cpu' = "idle" /\ playing' = ("ENABLE" \in control)
    BY <1>2 DEF updateControl, thread, Free
  <2>1. CASE "ENABLE" \in control /\ ~playing
    <3>1. /\ replay' = [start |-> start, current |-> start, end |-> end]
          /\ disturbed' = (start = 0 \/ start >= end)
      BY <1>2, <2>1 DEF updateControl
    <3>2. TypeOK'
      BY <2>0, <3>1, ReplayType DEF IInv, TypeOK
    <3>3. ~disturbed' => 0 < start /\ start < end
      <4>1. disturbed' \/ (start # 0 /\ ~(start >= end))
        BY <3>1, Zenon
      <4>2. start # 0 /\ ~(start >= end) => 0 < start /\ start < end
        BY DEF IInv, TypeOK, Address
      <4> QED
        BY <4>1, <4>2, Zenon
    <3>4. Frame' /\ InFrame'
      BY <2>0, <2>1, <3>1, <3>3, ReplayType DEF Frame, InFrame, Active
    <3> QED
      BY <2>0, <3>2, <3>4, Zenon DEF IInv, BitTells
  <2>2. CASE ~("ENABLE" \in control /\ ~playing)
    <3>1. UNCHANGED <<replay, disturbed>>
      BY <1>2, <2>2 DEF updateControl
    <3>2. TypeOK' /\ BitTells'
      BY <2>0, <3>1, Zenon DEF IInv, TypeOK, BitTells
    <3>3. playing' => playing
      BY <2>0, <2>2, Zenon
    <3>4. Frame' /\ InFrame'
      BY <2>0, <3>1, <3>3 DEF IInv, Frame, InFrame, Active
    <3> QED
      BY <3>2, <3>4 DEF IInv
  <2> QED
    BY <2>1, <2>2
<1>3. CASE LoadControl(Low) \/ LoadControl(High)
  <2>1. cpu = "idle" /\ cpu' = "store" /\ UNCHANGED <<dma, thread, disturbed>>
    BY <1>3 DEF LoadControl
  <2> QED
    BY <2>1 DEF dma, thread, IInv, TypeOK, BitTells, Frame, InFrame
<1>4. CASE WriteAddress
  <2>1. start' \in Address /\ end' \in Address
    BY <1>4, ByteInAddress DEF WriteAddress, IInv, TypeOK
  <2> QED
    BY <1>4, <2>1 DEF WriteAddress, cpuState, thread, IInv, TypeOK, BitTells, Frame, InFrame
<1>5. CASE updateMode
  BY <1>5 DEF updateMode, cpuState, thread, IInv, TypeOK, BitTells, Frame, InFrame
<1>6. CASE reset
  <2>1. TypeOK'
    BY <1>6 DEF reset, cpuState, thread, NoReplay, Address, IInv, TypeOK
  <2>2. BitTells'
    BY <1>6 DEF reset, cpuState, thread, IInv, BitTells
  <2>3. Frame' /\ InFrame'
    BY <1>6 DEF reset, cpuState, thread, Free, Active, Frame, InFrame
  <2> QED
    BY <2>1, <2>2, <2>3 DEF IInv
<1> QED
  BY <1>1, <1>2, <1>3, <1>4, <1>5, <1>6 DEF CpuCall, Guest

\* The audio thread.
LEMMA CallbackIInv == IInv /\ UpdateAudio => IInv'
<1> SUFFICES ASSUME IInv, UpdateAudio PROVE IInv'
  OBVIOUS
<1> USE DEF Active
<1>1. CASE Begin
  BY <1>1, Zenon DEF Begin, dma, cpuState, IInv, TypeOK, BitTells, Frame, InFrame
<1>2. CASE Convert
  <2>1. PICK c \in Converted(replay.end - replay.current) :
          /\ replay' = [replay EXCEPT !.current = @ + c[1]]
          /\ callback' = IF replay'.current >= replay.end THEN "end"
                         ELSE IF dest' > 0 THEN "convert" ELSE "irq"
    BY <1>2 DEF Convert
  <2>2. /\ c[1] \in Int
        /\ replay.end - replay.current >= 0 => c[1] >= 0
    BY ReplayType, ConvertedLengths
  <2>3. replay' = [start |-> replay.start, current |-> replay.current + c[1], end |-> replay.end]
    BY <2>1, ReplayType
  <2>4. /\ callback = "convert" /\ callback' \in {"end", "convert", "irq"}
        /\ callback' # "end" => replay'.current < replay.end
    BY <1>2, <2>1, <2>2, <2>3, ReplayType DEF Convert
  <2>5. UNCHANGED <<control, start, end, playing, cpu, cleared, disturbed>>
    BY <1>2 DEF Convert, cpuState
  <2>6. TypeOK'
    <3>1. replay' \in [start : Int, current : Int, end : Int]
      BY <2>2, <2>3, ReplayType
    <3> QED
      BY <2>4, <2>5, <3>1 DEF IInv, TypeOK
  <2>9. BitTells'
    BY <2>4, <2>5 DEF IInv, BitTells
  <2>7. Frame'
    BY <2>3, <2>4, <2>5, Zenon DEF IInv, Frame
  <2>8. InFrame'
    <3> SUFFICES ASSUME ~disturbed', playing' PROVE InFrame'
      BY DEF InFrame
    <3>1. /\ replay.start <= replay.current
          /\ replay.current < replay.end
      BY <2>4, <2>5 DEF IInv, InFrame
    <3>2. replay'.start = replay.start /\ replay'.end = replay.end
          /\ replay'.current = replay.current + c[1]
      BY <2>3
    <3>3. replay.start <= replay'.current
      BY <2>2, <3>1, <3>2, ReplayType
    <3> QED
      BY <2>4, <3>2, <3>3 DEF InFrame
  <2> QED
    BY <2>6, <2>7, <2>8, <2>9 DEF IInv
<1>3. CASE FrameEnd
  BY <1>3 DEF FrameEnd, dma, cpuState, IInv, TypeOK, BitTells, Frame, InFrame
<1>4. CASE ReloadStart
  <2>1. replay' = [start |-> start, current |-> start, end |-> replay.end]
    BY <1>4, ReplayType DEF ReloadStart
  <2>2. /\ callback = "reload" /\ callback' = "reload end"
        /\ UNCHANGED <<control, start, end, playing, cpu, cleared, disturbed>>
    BY <1>4 DEF ReloadStart, cpuState
  <2>3. TypeOK' /\ BitTells'
    BY <2>1, <2>2, ReplayType DEF IInv, TypeOK, BitTells
  <2>4. Frame'
    BY <2>1, <2>2 DEF IInv, Frame
  <2>5. InFrame'
    <3>1. replay'.current = start /\ replay'.start = start /\ start <= start
      BY <2>1, ReplayType
    <3> QED
      BY <2>2, <3>1 DEF InFrame
  <2> QED
    BY <2>3, <2>4, <2>5 DEF IInv
<1>5. CASE ReloadEnd
  <2>1. replay' = [start |-> replay.start, current |-> replay.current, end |-> end]
    BY <1>5, ReplayType DEF ReloadEnd
  <2>2. /\ callback = "reload end" /\ callback' = "trigger"
        /\ UNCHANGED <<control, start, end, playing, cpu, cleared, disturbed>>
    BY <1>5 DEF ReloadEnd, cpuState
  <2>3. TypeOK' /\ BitTells'
    BY <2>1, <2>2, ReplayType DEF IInv, TypeOK, BitTells
  <2>4. Frame' /\ InFrame'
    BY <2>1, <2>2, ReplayType DEF IInv, Frame, InFrame
  <2> QED
    BY <2>3, <2>4 DEF IInv
<1>6. CASE StopLoad
  BY <1>6 DEF StopLoad, dma, cpuState, IInv, TypeOK, BitTells, Frame, InFrame
<1>7. CASE StopStore
  BY <1>7 DEF StopStore, cpuState, IInv, TypeOK, BitTells, Frame, InFrame
<1>8. CASE Trigger
  BY <1>8 DEF Trigger, dma, cpuState, IInv, TypeOK, BitTells, Frame, InFrame
<1>9. CASE RaiseIRQ
  BY <1>9 DEF RaiseIRQ, dma, cpuState, IInv, TypeOK, BitTells, Frame, InFrame
<1> QED
  BY <1>1, <1>2, <1>3, <1>4, <1>5, <1>6, <1>7, <1>8, <1>9 DEF UpdateAudio

LEMMA NextIInv == IInv /\ [Next]_vars => IInv'
<1> SUFFICES ASSUME IInv, [Next]_vars PROVE IInv'
  OBVIOUS
<1>1. CASE UNCHANGED vars
  BY <1>1 DEF vars, dma, cpuState, thread, IInv, TypeOK, BitTells, Frame, InFrame
<1> QED
  BY <1>1, CpuIInv, CallbackIInv DEF Next

-----------------------------------------------------------------------------

\* The inductive invariant holds throughout.
THEOREM Invariance == Spec => []IInv
BY InitIInv, NextIInv, PTL DEF Spec

\* Between calls the ENABLE bit tells whether a sound is playing, although the
\* CPU and the callback change control by loads and stores without a lock.
THEOREM EnableBitTells == Spec => []EnabledIsPlaying
<1>1. IInv => EnabledIsPlaying
  BY DEF IInv, BitTells, EnabledIsPlaying
<1> QED
  BY <1>1, Invariance, PTL

\* While the guest leaves a sound alone the callback converts memory of the frame
\* it programmed and no other, for every buffer length and conversion rate.
THEOREM SourceStaysInFrame == Spec => []SourceInFrame
<1>1. IInv => SourceInFrame
  BY DEF IInv, TypeOK, Frame, InFrame, SourceInFrame, Active
<1> QED
  BY <1>1, Invariance, PTL
=============================================================================
