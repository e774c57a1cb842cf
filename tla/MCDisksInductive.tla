-------------------------- MODULE MCDisksInductive --------------------------
(***************************************************************************)
(* The inductive invariant of DisksProofs on the jobs of MCDisks.          *)
(***************************************************************************)
EXTENDS MCDisks, DisksProofs
=============================================================================
