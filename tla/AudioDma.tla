----------------------------- MODULE AudioDma -----------------------------
(***************************************************************************)
(* The Falcon's DMA sound (src/src/audio_dma.cpp).  SDL's audio thread     *)
(* calls UpdateAudio (src/src/host_audio.cpp) with the audio lock held,    *)
(* which runs audio_callback.  The CPU thread runs the guest's register    *)
(* writes and the reset; only updateControl and updateMode take the lock.  *)
(*                                                                         *)
(* control is the set of bits the code tests.  CPU and callback change it  *)
(* by a load and a store, so that either may lose the other's change.      *)
(* Addresses are 0..3; handleWrite replaces one byte, here one bit, of     *)
(* start or end.  doConversion is modelled by the lengths it reports.      *)
(***************************************************************************)
EXTENDS Integers, FiniteSets

CONSTANTS
    Length,      \* the length of the host's audio buffer
    Overrun      \* bound: how far a conversion may step past the frame's end

ASSUME AudioAssumption == Length \in Nat \ {0} /\ Overrun \in Nat

Low == {"ENABLE", "REPEAT", "RECORD"}   \* bits of the byte at offset 1
High == {"IRQ"}                         \* bits of the byte at offset 0
Address == 0 .. 3

VARIABLES
    control, start, end,  \* AUDIODMA::control, start, end
    rate,                 \* TRUE when updateMode has set the conversion up
    playing,              \* playing of audio_dma.cpp is SDL_AUDIO_PLAYING
    replay,               \* start_replay, current_replay, end_replay
    cpu, loaded, written, \* the CPU's place, the bits it loaded, those it writes
    callback,             \* the audio thread's place; "idle": lock free
    dest,                 \* dest_len
    trigger,              \* trigger_interrupt
    cleared,              \* the control the callback is about to store
    irq,                  \* the MFP interrupt was raised
    disturbed             \* the guest changed a sound while it was playing

dma == <<control, start, end, rate, playing, replay>>
cpuState == <<cpu, loaded, written>>
thread == <<callback, dest, trigger, cleared>>
vars == <<dma, cpuState, thread, irq, disturbed>>

-----------------------------------------------------------------------------
NoReplay == [start |-> 0, current |-> 0, end |-> 0]

Init ==
    /\ control = {} /\ start = 0 /\ end = 0 /\ rate = FALSE
    /\ playing = FALSE /\ replay = NoReplay
    /\ cpu = "idle" /\ loaded = {} /\ written = {}
    /\ callback = "idle" /\ dest = 0 /\ trigger = FALSE /\ cleared = {}
    /\ irq = FALSE
    /\ disturbed = FALSE

Free == callback = "idle"

-----------------------------------------------------------------------------
(* AUDIODMA::handleWrite of control: the other byte is kept as loaded, the *)
(* store makes the new value visible, and updateControl waits for the      *)
(* lock.  A guest sets ENABLE with a non-empty frame in the registers.     *)
LoadControl(byte) ==
    /\ cpu = "idle"
    /\ loaded' = control \ byte
    /\ written' \in SUBSET byte
    /\ "ENABLE" \in written' => 0 < start /\ start < end
    /\ cpu' = "store"
    /\ UNCHANGED <<dma, thread, irq, disturbed>>

StoreControl ==
    /\ cpu = "store"
    /\ control' = loaded \cup written
    /\ disturbed' = (disturbed \/ (playing /\ "ENABLE" \notin control'))
    /\ cpu' = "updateControl"
    /\ UNCHANGED <<start, end, rate, playing, replay, loaded, written, thread, irq>>

updateControl ==
    /\ cpu = "updateControl" /\ Free
    /\ IF "ENABLE" \in control /\ ~playing
       THEN /\ replay' = [start |-> start, current |-> start, end |-> end]
            /\ disturbed' = (start = 0 \/ start >= end)
       ELSE UNCHANGED <<replay, disturbed>>
    /\ playing' = ("ENABLE" \in control)
    /\ cpu' = "idle" /\ loaded' = {} /\ written' = {}
    /\ UNCHANGED <<control, start, end, rate, thread, irq>>

(* a with its high or its low byte replaced by v. *)
WithByte(a, v) == {(2 * v) + (a % 2), (2 * (a \div 2)) + v}

WriteAddress ==
    /\ cpu = "idle" /\ "RECORD" \notin control
    /\ \E v \in {0, 1} :
          \/ start' \in WithByte(start, v) /\ UNCHANGED end
          \/ end' \in WithByte(end, v) /\ UNCHANGED start
    /\ disturbed' = (disturbed \/ playing)
    /\ UNCHANGED <<control, rate, playing, replay, cpuState, thread, irq>>

updateMode ==
    /\ cpu = "idle" /\ Free
    /\ rate' = TRUE
    /\ UNCHANGED <<control, start, end, playing, replay, cpuState, thread, irq, disturbed>>

(* AUDIODMA::reset, without the lock. *)
reset ==
    /\ cpu = "idle"
    /\ control' = {} /\ start' = 0 /\ end' = 0
    /\ playing' = FALSE /\ replay' = NoReplay
    /\ disturbed' = (disturbed \/ ~Free)
    /\ UNCHANGED <<rate, cpuState, thread, irq>>

-----------------------------------------------------------------------------
(* audio_callback of audio_dma.cpp. *)

Begin ==
    /\ callback = "idle"
    /\ playing /\ replay.start # 0 /\ replay.end # 0
    /\ callback' = "convert"
    /\ dest' = Length /\ trigger' = FALSE /\ irq' = FALSE
    /\ UNCHANGED <<dma, cpuState, cleared, disturbed>>

ConvertedWhole(src) ==
    IF ~rate THEN {<<src, dest>>}
    ELSE IF src <= 1 THEN {<<0, 0>>}
    ELSE {c \in (0 .. src + Overrun) \X (1 .. dest) :
              (c[2] = dest \/ c[1] >= src) /\ (c[2] = Length => c[1] > 0)}

(* The lengths doConversion reports: how much of the source it used and    *)
(* how much it wrote.  It stops when the buffer is full or the source used *)
(* up; upsampling may fill the last sample from source already counted.    *)
Converted(src) ==
    IF ~rate THEN {<<src, dest>>}
    ELSE IF src <= 0 THEN {<<0, 0>>}
    ELSE {c \in (0 .. src + Overrun) \X (1 .. dest) :
              (c[2] = dest \/ c[1] >= src) /\ (c[2] = Length => c[1] > 0)}

ConvertPastEnd ==
    /\ callback = "convert"
    /\ \E c \in Converted(replay.end - replay.current) :
          /\ replay' = [replay EXCEPT !.current = @ + c[1]]
          /\ dest' = dest - c[2]
          /\ callback' = IF replay'.current > replay.end THEN "end"
                         ELSE IF dest' > 0 THEN "convert" ELSE "irq"
    /\ UNCHANGED <<control, start, end, rate, playing, cpuState, trigger, cleared, irq, disturbed>>

Convert ==
    /\ callback = "convert"
    /\ \E c \in Converted(replay.end - replay.current) :
          /\ replay' = [replay EXCEPT !.current = @ + c[1]]
          /\ dest' = dest - c[2]
          /\ callback' = IF replay'.current >= replay.end THEN "end"
                         ELSE IF dest' > 0 THEN "convert" ELSE "irq"
    /\ UNCHANGED <<control, start, end, rate, playing, cpuState, trigger, cleared, irq, disturbed>>

FrameEndRepeats ==
    /\ callback = "end"
    /\ callback' = IF "ENABLE" \in control THEN "reload" ELSE "trigger"
    /\ UNCHANGED <<dma, cpuState, dest, trigger, cleared, irq, disturbed>>

(* End of the frame: repeat, stop, or neither when ENABLE is clear. *)
FrameEnd ==
    /\ callback = "end"
    /\ callback' = IF "ENABLE" \notin control THEN "trigger"
                   ELSE IF "REPEAT" \in control THEN "reload"
                   ELSE "stop"
    /\ UNCHANGED <<dma, cpuState, dest, trigger, cleared, irq, disturbed>>

ReloadStart ==
    /\ callback = "reload"
    /\ replay' = [replay EXCEPT !.start = start, !.current = start]
    /\ callback' = "reload end"
    /\ UNCHANGED <<control, start, end, rate, playing, cpuState, dest, trigger, cleared, irq, disturbed>>

ReloadEnd ==
    /\ callback = "reload end"
    /\ replay' = [replay EXCEPT !.end = end]
    /\ callback' = "trigger"
    /\ UNCHANGED <<control, start, end, rate, playing, cpuState, dest, trigger, cleared, irq, disturbed>>

StopLoad ==
    /\ callback = "stop"
    /\ cleared' = control \ {"ENABLE"}
    /\ callback' = "stop store"
    /\ UNCHANGED <<dma, cpuState, dest, trigger, irq, disturbed>>

StopKeepsBit ==
    /\ callback = "stop store" /\ playing' = FALSE /\ callback' = "irq"
    /\ UNCHANGED <<control, start, end, rate, replay, cpuState, dest, trigger, cleared, irq, disturbed>>

StopStore ==
    /\ callback = "stop store"
    /\ control' = cleared
    /\ playing' = FALSE
    /\ callback' = "irq" /\ cleared' = {}
    /\ UNCHANGED <<start, end, rate, replay, cpuState, dest, trigger, irq, disturbed>>

Trigger ==
    /\ callback = "trigger"
    /\ trigger' = (trigger \/ "IRQ" \in control)
    /\ callback' = IF dest > 0 THEN "convert" ELSE "irq"
    /\ UNCHANGED <<dma, cpuState, dest, cleared, irq, disturbed>>

RaiseIRQ ==
    /\ callback = "irq"
    /\ irq' = (irq \/ (trigger /\ "IRQ" \in control))
    /\ trigger' = FALSE /\ dest' = 0
    /\ callback' = "idle"
    /\ UNCHANGED <<dma, cpuState, cleared, disturbed>>

-----------------------------------------------------------------------------
UpdateAudio ==
    \/ Begin \/ Convert \/ FrameEnd \/ ReloadStart \/ ReloadEnd \/ StopLoad \/ StopStore
    \/ Trigger \/ RaiseIRQ

CpuCall == StoreControl \/ updateControl

Guest ==
    \/ LoadControl(Low) \/ LoadControl(High)
    \/ WriteAddress \/ updateMode \/ reset

Next == UpdateAudio \/ CpuCall \/ Guest

(* SDL calls the callback as long as audio is open; the CPU thread ends    *)
(* the calls it has begun.                                                 *)
Spec == Init /\ [][Next]_vars /\ WF_vars(UpdateAudio) /\ WF_vars(CpuCall)

-----------------------------------------------------------------------------

(* Between calls the guest can tell from the ENABLE bit whether a sound is *)
(* playing: updateControl, the callback's stop and the reset keep the bit  *)
(* and the playing state together, even when one loses the other's store.  *)
EnabledIsPlaying == Free /\ cpu = "idle" => (playing <=> "ENABLE" \in control)

(* While the guest leaves a sound alone, the callback converts memory from *)
(* inside the frame the guest programmed, also after the frame is reloaded. *)
SourceInFrame ==
    callback = "convert" /\ ~disturbed =>
        /\ replay.start = start /\ replay.end = end
        /\ replay.start <= replay.current /\ replay.current < replay.end

(* The callback gives the audio lock back, so that updateControl and SDL   *)
(* go on, as long as the guest leaves a playing sound alone.               *)
CallbackReturns == callback = "convert" ~> (callback = "idle" \/ disturbed)

(* A sound that is not repeated ends by itself. *)
OneShotEnds ==
    playing /\ "REPEAT" \notin control ~> (~playing \/ disturbed \/ "REPEAT" \in control)

(* The guest can stop a sound at any moment: once it has cleared ENABLE    *)
(* (the comment "Stop replay ?" in updateControl), replay stops.           *)
StopTakesEffect ==
    cpu = "updateControl" /\ "ENABLE" \notin control /\ playing ~> ~playing

=============================================================================
