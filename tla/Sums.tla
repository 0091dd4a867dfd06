-------------------------------- MODULE Sums --------------------------------
(***************************************************************************)
(* The sum of the values of a function over a finite set: the totals of    *)
(* the ledger, of the share log and of the pool's accounts.  What is known *)
(* about it is in SumTheorems.                                             *)
(***************************************************************************)
EXTENDS Integers, FiniteSetsExt

SumOver(f, S) == MapThenSumSet(LAMBDA x : f[x], S)
=============================================================================
