------------------------------- MODULE MCPool -------------------------------
(***************************************************************************)
(* Model-checking instances of PplnsPool.  part, chosen once, says what a  *)
(* behaviour explores: "reward" is the rewards of two concurrent handlers  *)
(* with no payouts, "pool" the whole pool with one handler at a time.      *)
(***************************************************************************)
EXTENDS PplnsPool, TLC

CONSTANTS h1, h2, m1, m2, s1,
          Parts,         \* the parts of the run
          RewardTip,     \* bound: blocks of the "reward" part
          PoolShares     \* bound: shares of the "pool" part

VARIABLE part

mcVars == <<part, poolVars>>

MCInit == PoolInit /\ part \in Parts

WithinPart ==
  /\ UNCHANGED part
  /\ part = "reward" => tip' <= RewardTip
  /\ part = "pool" => handler'[h2] = handler[h2] /\ Len(shareLog') <= PoolShares

MCNext ==
  \/ RewardStep /\ WithinPart
  \/ part = "pool" /\ (PayoutStep \/ Orphan) /\ WithinPart

MCSpec == MCInit /\ [][MCNext]_mcVars

MinerSymmetry == Permutations({m1, m2})
=============================================================================
