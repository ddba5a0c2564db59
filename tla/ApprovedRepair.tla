--------------------------- MODULE ApprovedRepair ---------------------------
(***************************************************************************)
(* What a repair session promises about working_copy: the program itself   *)
(* changes it only by writing the exact result of a patch that was         *)
(* approved for the very tree it is applied to, once per approval, at most *)
(* MaxWrites times, and never after the session is over.                   *)
(***************************************************************************)
EXTENDS Naturals

CONSTANTS
  Patches,
  Trees,    \* contents of working_copy
  Patched,  \* <<patch, tree>> |-> the tree the exact patch yields
  MaxWrites

VARIABLES
  tree,
  approved, \* {} or {the approved [patch, tree]} not yet acted upon
  writes,
  over

vars == <<tree, approved, writes, over>>

Init == tree \in Trees /\ approved = {} /\ writes = 0 /\ over = FALSE

\* A human accepts a patch for the present tree.
Approve(p) ==
  /\ ~over /\ approved = {} /\ writes < MaxWrites
  /\ approved' = {[patch |-> p, tree |-> tree]}
  /\ UNCHANGED <<tree, writes, over>>

Write(r) ==
  /\ r \in approved /\ r.tree = tree
  /\ <<r.patch, tree>> \in DOMAIN Patched
  /\ tree' = Patched[<<r.patch, tree>>]
  /\ writes' = writes + 1 /\ approved' = {}
  /\ UNCHANGED over

\* The apply failed and was rolled back.
Withdraw ==
  /\ approved # {} /\ approved' = {}
  /\ UNCHANGED <<tree, writes, over>>

Close ==
  /\ ~over /\ over' = TRUE /\ approved' = {}
  /\ UNCHANGED <<tree, writes>>

\* Somebody else writes into working_copy while no approval is pending.
Interfere ==
  /\ ~over /\ approved = {} /\ tree' \in Trees
  /\ UNCHANGED <<approved, writes, over>>

Next ==
  \/ \E p \in Patches : Approve(p)
  \/ \E r \in approved : Write(r)
  \/ Withdraw \/ Close \/ Interfere

Spec == Init /\ [][Next]_vars
=============================================================================
