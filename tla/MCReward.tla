------------------------------ MODULE MCReward ------------------------------
(***************************************************************************)
(* Model-checking instances of BlockReward; handlers are interchangeable.  *)
(***************************************************************************)
EXTENDS BlockReward, TLC

CONSTANTS h1, h2, m1, m2

HandlerSymmetry == Permutations({h1, h2})
=============================================================================
