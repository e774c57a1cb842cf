--------------------------- MODULE MCIkbdInductive ---------------------------
(***************************************************************************)
(* The inductive invariant of the keyboard for the model checker.          *)
(***************************************************************************)
EXTENDS IkbdProofs

Motion_(x, y) == [x |-> x, y |-> y, b |-> 0, slow |-> FALSE]

\* Two motions that merge, and one with a byte, 246, that looks like the header of
\* an eight byte packet.
MouseMotions == {Motion_(5, 3), Motion_(-10, 4)}
=============================================================================
