------------------------------ MODULE MCPayout ------------------------------
(***************************************************************************)
(* Model-checking instances of PayoutScheduler.  The cfg files give the    *)
(* faults, the slots and the bounds; slots are interchangeable.            *)
(***************************************************************************)
EXTENDS PayoutScheduler, TLC

CONSTANTS s1, s2, m1, m2

SlotSymmetry == Permutations({s1, s2})
=============================================================================
