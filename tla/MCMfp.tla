------------------------------- MODULE MCMfp -------------------------------
(***************************************************************************)
(* A bound for model checking Mfp with two timers and three levels.  A     *)
(* timer and the interrupt registers meet in the Timer C tick only, which  *)
(* reloads the timer whatever the registers hold.  So the timers run while *)
(* the registers and the port are as after a reset, and the registers and  *)
(* the port change while the timers are.                                   *)
(***************************************************************************)
EXTENDS Mfp

OneAtATime ==
  \/ timers = [t \in Timer |-> timerReset]
  \/ irqs = <<{}, {}, {}, {}>> /\ port = <<Line, Line, {}, {}>> /\ ~vr.sei /\ ~SPCFLAG_MFP
=============================================================================
