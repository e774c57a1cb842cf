-------------------------- MODULE SpecialtiesProofs --------------------------
(***************************************************************************)
(* Proofs about the special-condition flags of the CPU loop, for every set *)
(* of threads that raise flags, every mask and any number of restarts.     *)
(*                                                                         *)
(* NoLostRequest is not inductive: a thread inside SPCFLAGS_SET stores the *)
(* word it loaded, and SERVE_VBL_MFP clears a flag long after it tested    *)
(* it.  What makes both harmless is that the loaded word still covers the  *)
(* flags, and that a flag about to be cleared has had its handler entered. *)
(***************************************************************************)
EXTENDS Specialties, TLAPS

\* A thread inside spcflags_lock has loaded every flag that is raised now.  (It
\* may have loaded more: SPCFLAGS_INIT of m68k_reset takes no lock.)
LoadCovers == rmw # Idle => spcflags \subseteq rmw.seen

\* The clear that follows an exception in SERVE_VBL_MFP is for a handler that
\* was entered and that the guest has not run since.
ClearIsEntered == \A i \in 1..5 : pc = <<"clear", i>> => Interrupts[i] \in entered

\* Quit680x0 and Restart680x0 are never forgotten: SPCFLAG_BRK of TriggerNMI stays
\* up until m68k_execute looks at quit_program.
QuitKept ==
  quit_program # 0 => "BRK" \in spcflags \/ At("execute") \/ At("halt")

\* The CPU loop is left, and SPCFLAG_BRK is up, only on such a request; after a
\* restart no BRK is left over, in the flags or in the word of another thread.
LeavesOnRequest ==
  /\ "BRK" \in spcflags \/ At("execute") \/ At("halt") => quit_program # 0
  /\ rmw # Idle =>
       /\ rmw.flag # "BRK"
       /\ "BRK" \in rmw.seen => quit_program # 0
       /\ "BRK" \in rmw.seen /\ At("execute") => quit_program = 1
  /\ "BRK" \in spcflags /\ At("execute") => quit_program = 1

\* The inductive invariant.
IInv ==
  /\ owed \subseteq Edge
  /\ LoadCovers
  /\ ClearIsEntered
  /\ NoLostRequest

-----------------------------------------------------------------------------
(***************************************************************************)
(* The invariant is inductive.                                             *)
(***************************************************************************)

LEMMA InitIInv == Init => IInv
BY DEF Init, IInv, LoadCovers, ClearIsEntered, NoLostRequest

\* Load and store of another thread's SPCFLAGS_SET.
LEMMA OtherIInv ==
  ASSUME IInv, NEW t \in Thread,
         SetStore(t) \/ \E f \in Raises[t] : SetLoad(t, f)
  PROVE  IInv'
<1>1. ASSUME NEW f \in Raises[t], SetLoad(t, f) PROVE IInv'
  BY <1>1 DEF IInv, LoadCovers, ClearIsEntered, NoLostRequest, SetLoad, At
<1>2. CASE SetStore(t)
  <2>1. rmw # Idle
    BY <1>2, ConstantsAssumption DEF SetStore, Idle
  <2>2. spcflags \cup {rmw.flag} \subseteq spcflags'
    BY <1>2, <2>1 DEF SetStore, IInv, LoadCovers
  <2>3. /\ pc' # pc => At("wait") /\ pc' = <<"woken", 0>>
        /\ UNCHANGED entered
    BY <1>2 DEF SetStore, Signal, Goto
  <2>4. owed' \subseteq owed \cup {rmw.flag} /\ owed' \subseteq Edge
    BY <1>2 DEF SetStore, IInv
  <2>5. LoadCovers'
    BY <1>2 DEF SetStore, LoadCovers
  <2>6. ClearIsEntered'
    BY <2>3 DEF IInv, ClearIsEntered
  <2>7. NoLostRequest'
    BY <2>2, <2>3, <2>4 DEF IInv, NoLostRequest, At
  <2> QED
    BY <2>4, <2>5, <2>6, <2>7 DEF IInv
<1> QED
  BY <1>1, <1>2

\* A step of the CPU thread with the lock, or without a change of the flags,
\* leaves the word of another thread as good as it was.
LEMMA LockKeepsLoad ==
  ASSUME LoadCovers, UNCHANGED rmw, LockFree \/ spcflags' \subseteq spcflags
  PROVE  LoadCovers'
BY DEF LoadCovers, LockFree

\* An instruction of the guest: what it was told of is no longer owed, and it
\* takes no request from the flags.
LEMMA GuestIInv == IInv /\ Guest => IInv'
<1> SUFFICES ASSUME IInv, Guest PROVE IInv'
  OBVIOUS
<1>1. /\ At("exec") /\ Told /\ AfterInstruction /\ UNCHANGED rmw
      /\ LockFree \/ spcflags' = spcflags
  BY DEF Guest, ExecPlain, ExecTrap, ExecShutdown, ExecLoadSR, ExecStop, ExecTrigger
<1>2. spcflags \cap Edge \subseteq spcflags'
  BY DEF Guest, ExecPlain, ExecTrap, ExecShutdown, ExecLoadSR, ExecStop, ExecTrigger,
         TraceFlag, Edge
<1>3. pc' \in {<<"exec", 0>>, <<"internal", 0>>}
  BY <1>1 DEF AfterInstruction, Goto
<1>4. LoadCovers'
  BY <1>1, LockKeepsLoad DEF IInv
<1>5. ClearIsEntered'
  BY <1>3 DEF ClearIsEntered
<1>6. NoLostRequest' /\ owed' \subseteq Edge
  BY <1>1, <1>2, <1>3 DEF IInv, NoLostRequest, Told, At
<1> QED
  BY <1>4, <1>5, <1>6 DEF IInv

\* m68k_do_specialties up to the interrupts: the flag of the 200 Hz tick goes
\* before the tick is processed, and is owed until it is.
LEMMA TickIInv ==
  ASSUME IInv,
         \/ InternalIRQ
         \/ \E raised \in SUBSET {"MFP", "SCC", "VBL"} : Invoke(raised)
         \/ \E request \in {1, 2} : InvokeEvent(request)
  PROVE  IInv'
<1>1. CASE InternalIRQ
  <2>1. LoadCovers'
    BY <1>1, LockKeepsLoad DEF IInv, InternalIRQ
  <2>2. ClearIsEntered'
    BY <1>1 DEF InternalIRQ, AfterInternal, Goto, ClearIsEntered
  <2>3. NoLostRequest'
    BY <1>1 DEF IInv, InternalIRQ, AfterInternal, Goto, At, NoLostRequest
  <2> QED
    BY <1>1, <2>1, <2>2, <2>3 DEF IInv, InternalIRQ
<1>2. ASSUME NEW raised \in SUBSET {"MFP", "SCC", "VBL"}, Invoke(raised)
      PROVE  IInv'
  <2>1. LoadCovers'
    BY <1>2, LockKeepsLoad DEF IInv, Invoke
  <2>2. ClearIsEntered'
    BY <1>2 DEF Invoke, AfterInternal, Goto, ClearIsEntered
  <2>3. NoLostRequest' /\ owed' \subseteq Edge
    BY <1>2 DEF IInv, Invoke, AfterInternal, Goto, At, NoLostRequest
  <2> QED
    BY <2>1, <2>2, <2>3 DEF IInv
<1>3. ASSUME NEW request \in {1, 2}, InvokeEvent(request) PROVE IInv'
  <2>1. LoadCovers'
    BY <1>3, LockKeepsLoad DEF IInv, InvokeEvent
  <2>2. ClearIsEntered'
    BY <1>3 DEF InvokeEvent, AfterInternal, Goto, ClearIsEntered
  <2>3. NoLostRequest' /\ owed' \subseteq Edge
    BY <1>3 DEF IInv, InvokeEvent, AfterInternal, Goto, At, NoLostRequest, Edge
  <2> QED
    BY <2>1, <2>2, <2>3 DEF IInv
<1> QED
  BY <1>1, <1>2, <1>3

\* A step of the loop that keeps the requests among the flags and goes to no
\* clear.
LEMMA KeepsIInv ==
  ASSUME IInv, UNCHANGED <<rmw, owed, entered>>,
         LockFree \/ spcflags' = spcflags,
         spcflags \cap Edge \subseteq spcflags',
         ~At("invoke"), \A i \in 1..5 : pc' # <<"clear", i>>
  PROVE  IInv'
<1>1. LoadCovers'
  BY LockKeepsLoad DEF IInv
<1>2. ClearIsEntered'
  BY DEF ClearIsEntered
<1>3. NoLostRequest'
  BY DEF IInv, NoLostRequest
<1> QED
  BY <1>1, <1>2, <1>3 DEF IInv

\* SERVE_VBL_MFP: the handler is entered before its flag is cleared.
LEMMA ServeIInv ==
  ASSUME IInv, NEW i \in 1..5,
         ServeSkip(i) \/ ServeEnter(i) \/ ServeClear(i) \/ ServeNone(i)
  PROVE  IInv'
<1>0. /\ ~At("invoke")
      /\ \A j \in 1..5 : AfterServe(i) => pc' # <<"clear", j>>
  BY DEF ServeSkip, ServeEnter, ServeClear, ServeNone, At, AfterServe, Goto
<1>1. CASE ServeSkip(i)
  BY <1>0, <1>1, KeepsIInv DEF ServeSkip
<1>2. CASE ServeEnter(i)
  <2>1. LoadCovers'
    BY <1>2, LockKeepsLoad DEF IInv, ServeEnter
  <2>2. ClearIsEntered'
    BY <1>2 DEF ServeEnter, ClearIsEntered
  <2>3. spcflags \cap Edge \subseteq spcflags'
    BY <1>2 DEF ServeEnter, Edge
  <2>4. NoLostRequest'
    BY <1>0, <1>2, <2>3 DEF IInv, ServeEnter, NoLostRequest
  <2> QED
    BY <1>2, <2>1, <2>2, <2>4 DEF IInv, ServeEnter
<1>3. CASE ServeClear(i)
  <2>1. LoadCovers'
    BY <1>3, LockKeepsLoad DEF IInv, ServeClear
  <2>2. ClearIsEntered'
    BY <1>0, <1>3 DEF ServeClear, ClearIsEntered
  <2>3. Interrupts[i] \in entered
    BY <1>3 DEF IInv, ServeClear, ClearIsEntered
  <2>4. NoLostRequest'
    BY <1>0, <1>3, <2>3 DEF IInv, ServeClear, NoLostRequest, Edge
  <2> QED
    BY <1>3, <2>1, <2>2, <2>4 DEF IInv, ServeClear
<1>4. CASE ServeNone(i)
  BY <1>0, <1>4, KeepsIInv DEF ServeNone, Edge
<1> QED
  BY <1>1, <1>2, <1>3, <1>4

\* The rest of m68k_do_specialties, and m68k_execute.
LEMMA LoopIInv == IInv /\ Loop => IInv'
<1> SUFFICES ASSUME IInv, Loop PROVE IInv'
  OBVIOUS
<1>1. CASE DoTrace \/ StopLoop \/ Sleep \/ WakeUp \/ ServeEntry \/ StopBreak
             \/ Trace \/ Brk \/ Quit
  <2>1. /\ UNCHANGED <<rmw, owed, entered>>
        /\ LockFree \/ spcflags' = spcflags
        /\ spcflags \cap Edge \subseteq spcflags'
    BY <1>1 DEF DoTrace, StopLoop, Sleep, WakeUp, ServeEntry, StopBreak, Trace, Brk,
                Quit, Edge
  <2>2. ~At("invoke") /\ \A i \in 1..5 : pc' # <<"clear", i>>
    BY <1>1 DEF DoTrace, StopLoop, Sleep, WakeUp, ServeEntry, StopBreak, Trace, Brk,
                Quit, At, Goto, AfterServe
  <2> QED
    BY <2>1, <2>2, KeepsIInv
<1>2. CASE Reset
  BY <1>2 DEF Reset, Goto, IInv, LoadCovers, ClearIsEntered, NoLostRequest
<1> QED
  BY <1>1, <1>2, TickIInv, ServeIInv DEF Loop

LEMMA NextIInv == IInv /\ [Next]_vars => IInv'
<1> SUFFICES ASSUME IInv, [Next]_vars PROVE IInv'
  OBVIOUS
<1>1. CASE UNCHANGED vars
  BY <1>1 DEF vars, IInv, LoadCovers, ClearIsEntered, NoLostRequest, At
<1> QED
  BY <1>1, GuestIInv, LoopIInv, OtherIInv DEF Next, Cpu, Other

-----------------------------------------------------------------------------
(***************************************************************************)
(* Quit680x0 and Restart680x0.                                             *)
(***************************************************************************)
BreakInv == QuitKept /\ LeavesOnRequest

\* A step that leaves SPCFLAG_BRK, quit_program and the other thread's word alone
\* and neither comes from nor goes to m68k_execute.
LEMMA KeepsBreak ==
  ASSUME BreakInv, UNCHANGED <<rmw, quit_program>>,
         "BRK" \in spcflags' <=> "BRK" \in spcflags,
         ~At("execute"), ~At("halt"), ~At("execute")', ~At("halt")'
  PROVE  BreakInv'
BY DEF BreakInv, QuitKept, LeavesOnRequest, At

LEMMA OtherBreak ==
  ASSUME IInv, BreakInv, NEW t \in Thread,
         SetStore(t) \/ \E f \in Raises[t] : SetLoad(t, f)
  PROVE  BreakInv'
<1>1. ASSUME NEW f \in Raises[t], SetLoad(t, f) PROVE BreakInv'
  <2>1. f # "BRK"
    BY ConstantsAssumption DEF Raises
  <2> QED
    BY <1>1, <2>1 DEF BreakInv, QuitKept, LeavesOnRequest, SetLoad, At
<1>2. CASE SetStore(t)
  <2>1. rmw # Idle /\ rmw' = Idle
    BY <1>2, ConstantsAssumption DEF SetStore, Idle
  <2>2. /\ "BRK" \in spcflags' <=> "BRK" \in rmw.seen
        /\ "BRK" \in spcflags => "BRK" \in rmw.seen
    BY <1>2, <2>1 DEF SetStore, IInv, LoadCovers, BreakInv, LeavesOnRequest
  <2>3. /\ At("execute")' <=> At("execute")
        /\ At("halt")' <=> At("halt")
    BY <1>2 DEF SetStore, Signal, At, Goto
  <2> QED
    BY <1>2, <2>1, <2>2, <2>3 DEF BreakInv, QuitKept, LeavesOnRequest, SetStore
<1> QED
  BY <1>1, <1>2

LEMMA GuestBreak == BreakInv /\ Guest => BreakInv'
<1> SUFFICES ASSUME BreakInv, Guest PROVE BreakInv'
  OBVIOUS
<1>0. /\ ~At("execute") /\ ~At("halt")
      /\ ~At("execute")' /\ ~At("halt")'
  BY DEF Guest, ExecPlain, ExecTrap, ExecShutdown, ExecLoadSR, ExecStop, ExecTrigger,
         At, AfterInstruction, Goto
<1>1. CASE ExecShutdown
  BY <1>0, <1>1 DEF ExecShutdown, TriggerNMI, LockFree, BreakInv, QuitKept,
                    LeavesOnRequest
<1>2. CASE ~ExecShutdown
  <2>1. /\ UNCHANGED <<rmw, quit_program>>
        /\ "BRK" \in spcflags' <=> "BRK" \in spcflags
    BY <1>2 DEF Guest, ExecPlain, ExecTrap, ExecLoadSR, ExecStop, ExecTrigger, TraceFlag
  <2> QED
    BY <1>0, <2>1, KeepsBreak
<1> QED
  BY <1>1, <1>2

LEMMA LoopBreak == BreakInv /\ Loop => BreakInv'
<1> SUFFICES ASSUME BreakInv, Loop PROVE BreakInv'
  OBVIOUS
<1>1. ASSUME NEW request \in {1, 2}, InvokeEvent(request) PROVE BreakInv'
  <2>1. ~At("execute")' /\ ~At("halt")'
    BY <1>1 DEF InvokeEvent, AfterInternal, Goto, At
  <2> QED
    BY <1>1, <2>1 DEF InvokeEvent, TriggerNMI, LockFree, BreakInv, QuitKept,
                      LeavesOnRequest
<1>2. CASE StopLoop
  <2>1. CASE "STOP" \in spcflags /\ srmask = 7
    BY <1>2, <2>1 DEF StopLoop, Goto, BreakInv, QuitKept, LeavesOnRequest, At
  <2>2. CASE ~("STOP" \in spcflags /\ srmask = 7)
    <3>1. UNCHANGED <<rmw, quit_program, spcflags>>
      BY <1>2, <2>2 DEF StopLoop
    <3>2. ~At("execute") /\ ~At("halt") /\ ~At("execute")' /\ ~At("halt")'
      BY <1>2, <2>2 DEF StopLoop, Goto, At
    <3> QED
      BY <3>1, <3>2, KeepsBreak
  <2> QED
    BY <2>1, <2>2
<1>3. CASE Brk
  BY <1>3 DEF Brk, Goto, At, LockFree, BreakInv, QuitKept, LeavesOnRequest
<1>4. CASE Quit
  BY <1>4 DEF Quit, Goto, At, BreakInv, QuitKept, LeavesOnRequest
<1>5. CASE Reset
  BY <1>5 DEF Reset, Goto, At, BreakInv, QuitKept, LeavesOnRequest
<1>6. ASSUME NEW i \in 1..5,
             ServeSkip(i) \/ ServeEnter(i) \/ ServeClear(i) \/ ServeNone(i)
      PROVE  BreakInv'
  <2>1. /\ UNCHANGED <<rmw, quit_program>>
        /\ "BRK" \in spcflags' <=> "BRK" \in spcflags
    BY <1>6 DEF ServeSkip, ServeEnter, ServeClear, ServeNone, Interrupts
  <2>2. ~At("execute") /\ ~At("halt") /\ ~At("execute")' /\ ~At("halt")'
    BY <1>6 DEF ServeSkip, ServeEnter, ServeClear, ServeNone, AfterServe, Goto, At
  <2> QED
    BY <2>1, <2>2, KeepsBreak
<1>7. CASE \/ InternalIRQ \/ DoTrace \/ Sleep \/ WakeUp \/ ServeEntry \/ StopBreak \/ Trace
           \/ \E raised \in SUBSET {"MFP", "SCC", "VBL"} : Invoke(raised)
  <2>1. /\ UNCHANGED <<rmw, quit_program>>
        /\ "BRK" \in spcflags' <=> "BRK" \in spcflags
    BY <1>7 DEF InternalIRQ, DoTrace, Sleep, WakeUp, ServeEntry, StopBreak, Trace, Invoke
  <2>2. ~At("execute") /\ ~At("halt") /\ ~At("execute")' /\ ~At("halt")'
    BY <1>7 DEF InternalIRQ, DoTrace, Sleep, WakeUp, ServeEntry, StopBreak, Trace, Invoke,
                AfterInternal, AfterServe, Goto, At
  <2> QED
    BY <2>1, <2>2, KeepsBreak
<1> QED
  BY <1>1, <1>2, <1>3, <1>4, <1>5, <1>6, <1>7 DEF Loop

-----------------------------------------------------------------------------
(***************************************************************************)
(* The theorems.                                                           *)
(***************************************************************************)

\* The inductive invariant holds throughout, whichever threads raise flags.
THEOREM Invariance == Spec => []IInv
BY InitIInv, NextIInv, PTL DEF Spec

\* A request posted through SPCFLAGS_SET by any thread stays flagged until the
\* guest has been told of it, for every interleaving of the threads with the
\* clears of m68k_do_specialties and the reset.
THEOREM RequestsAreNotLost == Spec => []NoLostRequest
BY Invariance, PTL DEF IInv

\* A request to quit or to restart survives until m68k_execute acts on it, and the
\* CPU loop is left for nothing else, whatever other threads do to the flags.
THEOREM QuitIsKept == Spec => [](QuitKept /\ LeavesOnRequest)
<1>1. Init => BreakInv
  BY DEF Init, BreakInv, QuitKept, LeavesOnRequest, At
<1>2. IInv /\ BreakInv /\ [Next]_vars => BreakInv'
  <2> SUFFICES ASSUME IInv, BreakInv, [Next]_vars PROVE BreakInv'
    OBVIOUS
  <2>1. CASE UNCHANGED vars
    BY <2>1 DEF vars, BreakInv, QuitKept, LeavesOnRequest, At
  <2> QED
    BY <2>1, GuestBreak, LoopBreak, OtherBreak DEF Next, Cpu, Other
<1> QED
  BY <1>1, <1>2, Invariance, PTL DEF Spec, BreakInv
=============================================================================
