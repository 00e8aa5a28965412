---------------------------- MODULE MCCrmHygiene ----------------------------
(***************************************************************************)
(* Instances of CrmHygiene.                                                *)
(***************************************************************************)
EXTENDS CrmHygiene, TLC

Swaps == Permutations(Value) \cup Permutations(Run) \cup Permutations(Ask)
=============================================================================
