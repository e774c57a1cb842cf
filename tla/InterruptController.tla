------------------------- MODULE InterruptController -------------------------
(***************************************************************************)
(* What the MFP promises its guest, without the SPCFLAG_MFP cache: a       *)
(* request of an enabled level becomes pending, and whenever an unmasked   *)
(* pending level is above every level in service, the highest such level   *)
(* is passed to the CPU.  One level counts its requests and stays pending  *)
(* until each has been passed.  Mfp implements this specification.         *)
(***************************************************************************)
EXTENDS Integers

CONSTANTS Level,    \* interrupt levels, numbered by priority
          Counting  \* the level that counts its requests (Timer C)

VARIABLES enable, pending, inservice, mask,  \* sets of levels
          sei,      \* software end-of-interrupt mode
          backlog   \* requests the pending Counting level stands for

vars == <<enable, pending, inservice, mask, sei, backlog>>

Init ==
  /\ enable = {} /\ pending = {} /\ inservice = {} /\ mask = {}
  /\ sei = FALSE
  /\ backlog = 0

\* Peripherals request the levels S; a disabled level is ignored.
Raise(S) ==
  /\ pending' = pending \cup (S \cap enable)
  /\ IF Counting \in S \cap enable THEN backlog' \in Nat /\ backlog' > backlog
                                   ELSE backlog' = backlog
  /\ UNCHANGED <<enable, inservice, mask, sei>>

\* The pending set shrinks to S; a cancelled Counting level loses its backlog.
Keep(S) ==
  /\ pending' = pending \cap S
  /\ backlog' = IF Counting \in S THEN backlog ELSE 0

\* Disabling a level cancels its request.
Enable(S) ==
  /\ enable' = S
  /\ Keep(S)
  /\ UNCHANGED <<inservice, mask, sei>>

Cancel(S) ==
  /\ Keep(Level \ S)
  /\ UNCHANGED <<enable, inservice, mask, sei>>

EndService(S) ==
  /\ inservice' = inservice \ S
  /\ UNCHANGED <<enable, pending, mask, sei, backlog>>

Mask(S) ==
  /\ mask' = S
  /\ UNCHANGED <<enable, pending, inservice, sei, backlog>>

\* Only software end-of-interrupt mode keeps levels in service.
Mode(software) ==
  /\ sei' = software
  /\ inservice' = IF software THEN inservice ELSE {}
  /\ UNCHANGED <<enable, pending, mask, backlog>>

Reset ==
  /\ enable' = {} /\ pending' = {} /\ inservice' = {} /\ mask' = {}
  /\ sei' = FALSE
  /\ backlog' = 0

\* The highest unmasked pending level, when it is above all in service.
Deliverable(j) ==
  /\ j \in pending \cap mask
  /\ \A k \in pending \cap mask : k <= j
  /\ \A k \in inservice : k < j

\* The CPU takes the interrupt of level j.
Pass(j) ==
  /\ Deliverable(j)
  /\ pending' = IF j = Counting /\ backlog > 1 THEN pending ELSE pending \ {j}
  /\ backlog' = IF j = Counting THEN backlog - 1 ELSE backlog
  /\ inservice' = IF sei THEN inservice \cup {j} ELSE inservice
  /\ UNCHANGED <<enable, mask, sei>>

PassAny == \E j \in Level : Pass(j)

Next ==
  \/ \E S \in SUBSET Level :
       Raise(S) \/ Enable(S) \/ Cancel(S) \/ EndService(S) \/ Mask(S)
  \/ \E software \in BOOLEAN : Mode(software)
  \/ Reset
  \/ PassAny

Safety == Init /\ [][Next]_vars

Spec == Safety /\ WF_vars(PassAny)
=============================================================================
