------------------------------- MODULE MCIkbd -------------------------------
(***************************************************************************)
(* Two instances of the keyboard processor for the model checker: the one  *)
(* the configuration describes, and a roomy one, whose queue never         *)
(* overflows, with more kinds of events and commands and a guest that      *)
(* polls.  Which one it is is decided at the beginning.                    *)
(***************************************************************************)
EXTENDS Ikbd

VARIABLE roomy

Event_(x, y, b, slow) == [x |-> x, y |-> y, b |-> b, slow |-> slow]

\* Two motions that merge or do not (the second byte of the one to the left, 246,
\* looks like the header of an eight byte packet), one that needs two packets, one
\* that is too long, and one in slow mode.
MouseMotions ==
  {Event_(5, 3, 0, FALSE), Event_(-10, 4, 0, FALSE), Event_(70, 0, 0, FALSE),
   Event_(2049, 0, 0, FALSE), Event_(2, -1, 0, TRUE)}

\* Motions of both signs along y.
VerticalMotions == {Event_(0, 3, 0, FALSE), Event_(1, -2, 0, FALSE)}

\* One motion; its second byte, 246, looks like the header of an eight byte
\* packet.
LeftMotion == {Event_(-10, 4, 0, FALSE)}

Roomy == INSTANCE Ikbd WITH
  inbufferlen <- 32, Wheel <- FALSE, Motion <- MouseMotions, Joys <- {0, 1},
  Command <- {8, 18, 22, 26, 28}, Enables <- {}, MaxEvents <- 3

MCInit == Init /\ roomy \in BOOLEAN
MCNext == UNCHANGED roomy /\ IF roomy THEN Roomy!Next ELSE Next
MCSpec == MCInit /\ [][MCNext]_<<vars, roomy>>
=============================================================================
