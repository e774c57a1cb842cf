----------------------------- MODULE Specialties -----------------------------
(***************************************************************************)
(* The special-condition flags of the CPU loop: regs.spcflags and its lock *)
(* (src/src/uae_cpu/spcflags.h), m68k_do_specialties, m68k_do_execute and  *)
(* m68k_execute (src/src/uae_cpu/newcpu.cpp), and the threads that raise   *)
(* flags through the Trigger functions (src/src/uae_cpu/aranym_glue.cpp).  *)
(*                                                                         *)
(* The build is the default one: ENABLE_REALSTOP, no JIT.  SPCFLAGS_SET    *)
(* and SPCFLAGS_CLEAR run under spcflags_lock, SPCFLAGS_TEST and           *)
(* SPCFLAGS_INIT do not.  A set by another thread is two steps, the load   *)
(* and the store of its read-modify-write; a set or clear by the CPU thread*)
(* is one step, taken while the lock is free.  The guest program is        *)
(* arbitrary.                                                              *)
(***************************************************************************)
EXTENDS Integers

CONSTANTS
  Thread,       \* the host threads that raise flags
  Mask,         \* interrupt masks the guest loads into SR
  TraceBit,     \* values of the T1 bit the guest loads into SR
  MaxRestarts   \* bound on RestartAll requests

ASSUME ConstantsAssumption ==
  /\ Thread \subseteq {"timer", "ethernet", "audio"}
  /\ Mask \subseteq 0..7
  /\ TraceBit \subseteq BOOLEAN
  /\ MaxRestarts \in Nat

VARIABLES
  spcflags,     \* regs.spcflags, the set of raised flags
  rmw,          \* read-modify-write of another thread inside spcflags_lock
  pc,           \* where the CPU thread is
  inStop,       \* it is in the STOP loop of m68k_do_specialties
  intmask,      \* regs.intmask
  srmask,       \* the mask bits of regs.sr, refreshed only by MakeSR and STOP
  t1,           \* regs.t1
  stopped,      \* regs.stopped
  quit_program, \* 0 run, 1 quit, 2 reset
  restarts,     \* number of restarts requested
  owed,         \* requests of other threads the guest has not been told of
  entered       \* flags whose handler was entered since the guest last ran

regs == <<intmask, srmask, t1, stopped>>
vars == <<spcflags, rmw, pc, inStop, regs, quit_program, restarts, owed,
          entered>>

(***************************************************************************)
(* The flags, and the order in which SERVE_VBL_MFP looks at them.          *)
(***************************************************************************)
Interrupts == <<"INT3", "VBL", "INT5", "SCC", "MFP">>
InterruptFlags == {Interrupts[i] : i \in 1..5}
IntLevel == [INT3 |-> 3, VBL |-> 4, INT5 |-> 5, SCC |-> 5, MFP |-> 6]
Flags == InterruptFlags \cup {"STOP", "INTERNAL_IRQ", "BRK", "TRACE", "DOTRACE"}

\* What the threads raise: the 100 Hz timer, the Ethernet receive threads, and
\* the audio callback (NFAudio; DMA sound through MFP::IRQ).
Raises == [timer |-> {"INTERNAL_IRQ"}, ethernet |-> {"INT3"},
           audio |-> {"INT5", "MFP"}]
Idle == [thread |-> "none", seen |-> {}, flag |-> "none"]

\* Flags that are the only record of a request.  MFP and SCC are recomputed
\* from the registers of their chips.
Edge == {"INTERNAL_IRQ", "INT3", "VBL", "INT5"}

\* "wait" is inside SDL_CondWait, "woken" is its return; <<"serve", i>> and
\* <<"clear", i>> are the two halves of entry i of SERVE_VBL_MFP.
At(l) == pc = <<l, 0>>
Goto(l) == pc' = <<l, 0>>

Init ==
  /\ spcflags = {}
  /\ rmw = Idle
  /\ pc = <<"exec", 0>>
  /\ inStop = FALSE
  /\ intmask = 7 /\ srmask = 7 /\ t1 = FALSE /\ stopped = FALSE
  /\ quit_program = 0 /\ restarts = 0
  /\ owed = {} /\ entered = {}

(***************************************************************************)
(* Other threads: SPCFLAGS_SET.                                            *)
(***************************************************************************)
\* Mutant: spcflags without a lock.
LockFreeNever == TRUE

LockFree == rmw = Idle

\* Lock spcflags_lock and load the word.
SetLoad(t, f) ==
  /\ LockFree
  /\ f \in Raises[t]
  /\ rmw' = [thread |-> t, seen |-> spcflags, flag |-> f]
  /\ UNCHANGED <<spcflags, pc, inStop, regs, quit_program, restarts, owed,
                 entered>>

\* SDL_CondSignal finds a stopped CPU inside SDL_CondWait.
\* Mutant: no signal.
SignalNever == FALSE
Signal == "STOP" \in rmw.seen /\ At("wait")

\* Store it with the flag, signal a stopped CPU and unlock.
SetStore(t) ==
  /\ rmw.thread = t
  /\ spcflags' = rmw.seen \cup {rmw.flag}
  /\ owed' = owed \cup ({rmw.flag} \cap Edge)
  /\ IF Signal THEN Goto("woken") ELSE UNCHANGED pc
  /\ rmw' = Idle
  /\ UNCHANGED <<inStop, regs, quit_program, restarts, entered>>

(***************************************************************************)
(* CPU thread: one guest instruction, then the flag test of                *)
(* m68k_do_execute.                                                        *)
(***************************************************************************)

\* The guest runs: what it was told of is no longer owed.
Told ==
  /\ owed' = owed \ entered
  /\ entered' = {}

AfterInstruction == IF spcflags' = {} THEN Goto("exec") ELSE Goto("internal")

\* The SPCFLAG_TRACE half of MakeFromSR.
TraceFlag(f, t) == IF t THEN f \cup {"TRACE"} ELSE f \ {"TRACE"}

\* An instruction that does not touch the flags.
ExecPlain ==
  /\ At("exec")
  /\ UNCHANGED <<spcflags, rmw, inStop, regs, quit_program, restarts>>
  /\ Told /\ AfterInstruction

\* MOVE to SR, or RTE, whose saved SR is guest memory and so any value.
ExecLoadSR(m, t) ==
  /\ At("exec") /\ LockFree
  /\ intmask' = m /\ srmask' = m /\ t1' = t
  /\ spcflags' = TraceFlag(spcflags, t)
  /\ UNCHANGED <<rmw, inStop, stopped, quit_program, restarts>>
  /\ Told /\ AfterInstruction

\* A trap or fault: Exception, which leaves the mask alone.
ExecTrap ==
  /\ At("exec") /\ LockFree
  /\ srmask' = intmask /\ t1' = FALSE
  /\ spcflags' = spcflags \ {"TRACE", "DOTRACE"}
  /\ UNCHANGED <<rmw, inStop, intmask, stopped, quit_program, restarts>>
  /\ Told /\ AfterInstruction

\* STOP: a traced one (DOTRACE) does not stop.
ExecStop(m, t) ==
  /\ At("exec") /\ LockFree
  /\ intmask' = m /\ srmask' = m /\ t1' = t
  /\ stopped' = TRUE
  /\ spcflags' = TraceFlag(spcflags, t)
                   \cup (IF "DOTRACE" \in spcflags THEN {} ELSE {"STOP"})
  /\ UNCHANGED <<rmw, inStop, quit_program, restarts>>
  /\ Told /\ AfterInstruction

\* A write to an MFP or SCC register: TriggerMFP or TriggerSCC, either way.
ExecTrigger(f, enable) ==
  /\ At("exec") /\ LockFree
  /\ spcflags' = IF enable THEN spcflags \cup {f} ELSE spcflags \ {f}
  /\ UNCHANGED <<rmw, inStop, regs, quit_program, restarts>>
  /\ Told /\ AfterInstruction

\* TriggerNMI, by which Quit680x0 and Restart680x0 leave the CPU loop.
\* Mutant: it is forgotten.
TriggerNMINot == {}
TriggerNMI == {"BRK"}

\* The shutdown call of the guest (nf_basicset.cpp): Quit680x0.
ExecShutdown ==
  /\ At("exec") /\ LockFree
  /\ quit_program' = 1
  /\ spcflags' = spcflags \cup TriggerNMI
  /\ UNCHANGED <<rmw, inStop, regs, restarts>>
  /\ Told /\ AfterInstruction

(***************************************************************************)
(* CPU thread: m68k_do_specialties.                                        *)
(***************************************************************************)
AfterInternal == Goto(IF inStop THEN "entry" ELSE "dotrace")

\* SERVE_INTERNAL_IRQ: the flag is cleared before the tick is processed.
InternalIRQ ==
  /\ At("internal")
  /\ IF "INTERNAL_IRQ" \in spcflags
       THEN LockFree /\ spcflags' = spcflags \ {"INTERNAL_IRQ"} /\ Goto("invoke")
       ELSE UNCHANGED spcflags /\ AfterInternal
  /\ UNCHANGED <<rmw, inStop, regs, quit_program, restarts, owed, entered>>

\* invoke200HzInterrupt: raises any of MFP, SCC and VBL.
Invoke(raised) ==
  /\ At("invoke") /\ LockFree
  /\ spcflags' = spcflags \cup raised
  /\ owed' = (owed \ {"INTERNAL_IRQ"}) \cup (raised \cap Edge)
  /\ AfterInternal
  /\ UNCHANGED <<rmw, inStop, regs, quit_program, restarts, entered>>

\* As above, and check_event, which follows a VBL, sees a request of the user:
\* Quit680x0 (1) or RestartAll (2).
InvokeEvent(request) ==
  /\ At("invoke") /\ LockFree
  /\ request = 2 => restarts < MaxRestarts
  /\ restarts' = IF request = 2 THEN restarts + 1 ELSE restarts
  /\ quit_program' = request
  /\ spcflags' = spcflags \cup {"VBL"} \cup TriggerNMI
  /\ owed' = (owed \ {"INTERNAL_IRQ"}) \cup {"VBL"}
  /\ AfterInternal
  /\ UNCHANGED <<rmw, inStop, regs, entered>>

\* Exception(9).
DoTrace ==
  /\ At("dotrace")
  /\ IF "DOTRACE" \in spcflags
       THEN /\ LockFree
            /\ srmask' = intmask /\ t1' = FALSE
            /\ spcflags' = spcflags \ {"TRACE", "DOTRACE"}
       ELSE UNCHANGED <<srmask, t1, spcflags>>
  /\ Goto("stop")
  /\ UNCHANGED <<rmw, inStop, intmask, stopped, quit_program, restarts, owed,
                 entered>>

\* The head of the STOP loop.
StopLoop ==
  /\ At("stop")
  /\ CASE "STOP" \notin spcflags ->
              Goto("trace") /\ inStop' = FALSE /\ UNCHANGED quit_program
       [] "STOP" \in spcflags /\ srmask = 7 ->
              Goto("execute") /\ inStop' = FALSE /\ quit_program' = 1
       [] OTHER -> Goto("sleep") /\ inStop' = TRUE /\ UNCHANGED quit_program
  /\ UNCHANGED <<spcflags, rmw, regs, restarts, owed, entered>>

\* SleepAndWait: SDL_CondWait, entered with the lock, left with the lock.
Sleep ==
  /\ At("sleep") /\ LockFree
  /\ Goto("wait")
  /\ UNCHANGED <<spcflags, rmw, inStop, regs, quit_program, restarts, owed,
                 entered>>

WakeUp ==
  /\ At("woken") /\ LockFree
  /\ Goto("internal")
  /\ UNCHANGED <<spcflags, rmw, inStop, regs, quit_program, restarts, owed,
                 entered>>

\* SERVE_VBL_MFP(inStop).
AfterServe(i) ==
  IF i < 5 THEN pc' = <<"serve", i + 1>>
           ELSE Goto(IF inStop THEN "break" ELSE "brk")

ServeEntry ==
  /\ At("entry")
  /\ AfterServe(IF spcflags \cap InterruptFlags = {} THEN 5 ELSE 0)
  /\ UNCHANGED <<spcflags, rmw, inStop, regs, quit_program, restarts, owed,
                 entered>>

Accepted(i) ==
  Interrupts[i] \in spcflags /\ IntLevel[Interrupts[i]] > intmask

ServeSkip(i) ==
  /\ pc = <<"serve", i>>
  /\ ~Accepted(i)
  /\ AfterServe(i)
  /\ UNCHANGED <<spcflags, rmw, inStop, regs, quit_program, restarts, owed,
                 entered>>

\* The exception; doInterrupt of the MFP may drop its own flag.
ServeEnter(i) ==
  /\ pc = <<"serve", i>> /\ LockFree
  /\ Accepted(i)
  /\ \E dropped \in SUBSET ({"MFP"} \cap {Interrupts[i]}) :
       spcflags' = spcflags \ ({"TRACE", "DOTRACE"} \cup dropped)
  /\ srmask' = intmask /\ intmask' = IntLevel[Interrupts[i]]
  /\ t1' = FALSE /\ stopped' = FALSE
  /\ entered' = entered \cup {Interrupts[i]}
  /\ pc' = <<"clear", i>>
  /\ UNCHANGED <<rmw, inStop, quit_program, restarts, owed>>

\* The clears after the exception; the MFP keeps its flag.
ServeClear(i) ==
  /\ pc = <<"clear", i>> /\ LockFree
  /\ spcflags' = spcflags \ (({Interrupts[i]} \ {"MFP"})
                              \cup (IF inStop THEN {"STOP"} ELSE {}))
  /\ AfterServe(i)
  /\ UNCHANGED <<rmw, inStop, regs, quit_program, restarts, owed, entered>>

\* SCC or MFP had no vector to give.
ServeNone(i) ==
  /\ pc = <<"serve", i>> /\ LockFree
  /\ Accepted(i) /\ Interrupts[i] \in {"SCC", "MFP"}
  /\ spcflags' = spcflags \ {Interrupts[i]}
  /\ AfterServe(i)
  /\ UNCHANGED <<rmw, inStop, regs, quit_program, restarts, owed, entered>>

\* The tail of the STOP loop.
LeaveStop == "BRK" \in spcflags

StopBreak ==
  /\ At("break")
  /\ IF LeaveStop THEN Goto("trace") /\ inStop' = FALSE
                           ELSE Goto("stop") /\ UNCHANGED inStop
  /\ UNCHANGED <<spcflags, rmw, regs, quit_program, restarts, owed, entered>>

\* do_trace.
Trace ==
  /\ At("trace")
  /\ IF "TRACE" \in spcflags /\ t1
       THEN LockFree /\ spcflags' = (spcflags \ {"TRACE"}) \cup {"DOTRACE"}
       ELSE UNCHANGED spcflags
  /\ Goto("entry")
  /\ UNCHANGED <<rmw, inStop, regs, quit_program, restarts, owed, entered>>

Brk ==
  /\ At("brk")
  /\ IF "BRK" \in spcflags
       THEN LockFree /\ spcflags' = spcflags \ {"BRK"} /\ Goto("execute")
       ELSE UNCHANGED spcflags /\ Goto("exec")
  /\ UNCHANGED <<rmw, inStop, regs, quit_program, restarts, owed, entered>>

(***************************************************************************)
(* CPU thread: m68k_execute.                                               *)
(***************************************************************************)
Quit ==
  /\ At("execute")
  /\ quit_program = 1
  /\ Goto("halt")
  /\ UNCHANGED <<spcflags, rmw, inStop, regs, quit_program, restarts, owed,
                 entered>>

\* m68k_reset: SPCFLAGS_INIT takes no lock, and regs.sr keeps its value.
Reset ==
  /\ At("execute")
  /\ quit_program = 2
  /\ quit_program' = 0
  /\ spcflags' = {}
  /\ intmask' = 7 /\ t1' = FALSE /\ stopped' = FALSE
  /\ owed' = {} /\ entered' = {}
  /\ Goto("exec")
  /\ UNCHANGED <<rmw, inStop, srmask, restarts>>

(***************************************************************************)
(* The whole.                                                              *)
(***************************************************************************)
Guest ==
  \/ ExecPlain
  \/ ExecTrap
  \/ ExecShutdown
  \/ \E m \in Mask, t \in TraceBit : ExecLoadSR(m, t) \/ ExecStop(m, t)
  \/ \E f \in {"MFP", "SCC"}, enable \in BOOLEAN : ExecTrigger(f, enable)

Loop ==
  \/ InternalIRQ
  \/ \E raised \in SUBSET {"MFP", "SCC", "VBL"} : Invoke(raised)
  \/ \E request \in {1, 2} : InvokeEvent(request)
  \/ DoTrace \/ StopLoop \/ Sleep \/ WakeUp \/ ServeEntry
  \/ \E i \in 1..5 : ServeSkip(i) \/ ServeEnter(i) \/ ServeClear(i) \/ ServeNone(i)
  \/ StopBreak \/ Trace \/ Brk \/ Quit \/ Reset

Cpu == Guest \/ Loop

Other == \E t \in Thread : SetStore(t) \/ \E f \in Raises[t] : SetLoad(t, f)

Next == Cpu \/ Other

Spec == Init /\ [][Next]_vars

\* The host schedules the CPU thread and the thread that holds the lock, and
\* the 100 Hz timer keeps ticking.  The lock is held for a few instructions and
\* every thread that raises flags sleeps between two of them, so it is free
\* again and again and whoever waits for it gets it.
FairSpec ==
  /\ Spec
  /\ SF_vars(Cpu)
  /\ \A t \in Thread : WF_vars(SetStore(t))
  /\ SF_vars(SetLoad("timer", "INTERNAL_IRQ"))

(***************************************************************************)
(* Properties.                                                             *)
(***************************************************************************)

\* A request posted by any thread is still flagged until the guest has been
\* told of it: none of the clears of SERVE_VBL_MFP and SERVE_INTERNAL_IRQ, and
\* no concurrent set, loses one.
NoLostRequest ==
  owed \subseteq spcflags \cup entered
                 \cup (IF At("invoke") THEN {"INTERNAL_IRQ"} ELSE {})

\* A CPU that is not stopped, in particular one just reset by Restart680x0,
\* runs with SPCFLAG_STOP clear.
RestartStartsClean == At("exec") /\ ~stopped => "STOP" \notin spcflags

\* A stopped CPU with an interrupt above its mask resumes, also when the flag
\* was raised between the test of the STOP loop and SDL_CondWait.
Resumable ==
  inStop /\ \E f \in {"INT3", "VBL", "INT5"} :
               f \in spcflags /\ IntLevel[f] > intmask
StopWakes == Resumable ~> At("exec") \/ At("halt")

\* Quit680x0 ends the emulation, also when the CPU is stopped, unless a restart
\* is requested after it.
QuitHonoured == quit_program = 1 ~> At("halt") \/ quit_program = 2
=============================================================================
