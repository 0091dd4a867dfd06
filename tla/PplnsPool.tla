------------------------------ MODULE PplnsPool ------------------------------
(***************************************************************************)
(* The PPLNS pool as a whole, from the block it mines to the lepton it     *)
(* pays: BlockReward fills the ledger PayoutScheduler empties, both follow *)
(* the same chain, and the wallet behind the payouts holds the coinbases   *)
(* of the accepted blocks and nothing else.  The network fee of a payout   *)
(* is taken from the wallet: sendmany is called without subtractfeefrom.   *)
(***************************************************************************)
EXTENDS BlockReward, PayoutScheduler

CONSTANTS
  NetworkFee,       \* what a payout transaction costs the wallet
  MaxOrphaned       \* bound: coinbase value lost to reorganisations

VARIABLE orphaned   \* value of the accepted blocks that left the chain again

poolVars == <<rewardVars, payoutVars, orphaned>>

\* Credits come from the handlers, in whatever order they reach the ledger.  The process
\* does not stop here: a stop would take the handlers and the cycles together; what it
\* does to each is in their own modules.
ASSUME PoolAssumption ==
  /\ NetworkFee \in Nat /\ MaxOrphaned \in Nat
  /\ OrderedCredits = FALSE
  /\ "crash" \notin Failures

PoolInit == RewardInit /\ PayoutInit /\ orphaned = 0

-----------------------------------------------------------------------------
(* The wallet.                                                             *)

\* Value of the coinbases with at least n confirmations.
Coinbases(n) ==
  SumOver([b \in accepted |-> b.coinbasevalue], {b \in accepted : b.height + n <= tip + 1})

BatchTotal(candidates) ==
  SumOver([c \in candidates |-> totalPendingSats(ledger, c)], candidates)

Outflow == SumOver([t \in 1..Len(txs) |-> BatchTotal(txs[t].candidates) + NetworkFee],
                   1..Len(txs))

\* getbalance, and getwalletinfo with the immature coinbases.  The wallet spends a
\* coinbase from Maturity confirmations on.
getWalletBalanceSats == Coinbases(Maturity) - Outflow
getWalletTotalBalanceSats == Coinbases(1) - Outflow

Requested(s) == BatchTotal(cycle[s].candidates)

\* What the wallet answers and does follows from what it holds.
AnswersFromBalance(s) ==
  /\ cycle[s].pc = "balance" /\ cycle'[s].pc # "idle"
       => getWalletBalanceSats >= Requested(s)
  /\ txs' # txs => getWalletBalanceSats >= Requested(s) + NetworkFee

-----------------------------------------------------------------------------
RewardStep ==
  /\ RewardNext
  /\ UNCHANGED <<overrides, txs, unlocked, cycle, recon, orphaned>>

PayoutStep ==
  /\ \/ AroundStep
     \/ \E s \in Slots : CycleStep(s) /\ AnswersFromBalance(s)
     \/ \E s \in Slots : ReconStep(s)
  /\ UNCHANGED <<clock, shareLog, pruned, accounting, accepted, handler, orphaned>>

\* A competing block replaces the pool's block at the tip.  Nothing in the pool
\* looks at a found block again: its credits stay and mature by height.
Orphan ==
  \E b \in accepted :
    /\ b.height = tip
    /\ orphaned + b.coinbasevalue <= MaxOrphaned
    /\ accepted' = accepted \ {b}
    /\ orphaned' = orphaned + b.coinbasevalue
    /\ UNCHANGED <<clock, shareLog, pruned, accounting, handler, payoutVars>>

PoolNext == RewardStep \/ PayoutStep \/ Orphan

PoolSpec == PoolInit /\ [][PoolNext]_poolVars

-----------------------------------------------------------------------------
(* Properties                                                              *)

Unpaid == {i \in 1..Len(ledger) : TxsPaying(i) = {}}
NetworkFees == NetworkFee * Len(txs)

\* Every lepton mined stays accounted for until a miner has it: what the wallet
\* holds, immature coinbases included, plus what network fees and reorganisations
\* took from it, is the credits not yet paid, the pool's fee and dust, and what the
\* handlers of accepted blocks have yet to book, however the handlers of two blocks
\* and the payouts interleave.
PoolConserved ==
  getWalletTotalBalanceSats + NetworkFees + orphaned =
    SumSats(ledger, Unpaid) + accounting.totalFeeSats + accounting.totalDustSats
      + StillUnbooked

\* When a batch is about to be sent, every lepton of it is backed by a matured block
\* of this pool, up to network fees and orphaned blocks: heights, credits and balance
\* are read at different times, and two blocks' credits may come out of order.
BackedUpToLosses ==
  \A s \in Slots : cycle[s].pc \in {"balance", "send", "resend"} =>
    getWalletBalanceSats + NetworkFees + orphaned >= Requested(s)

-----------------------------------------------------------------------------
(* The invariant behind BackedUpToLosses: the credits of the blocks up to  *)
(* any height H, booked or to come, are covered by the coinbases of those  *)
(* blocks and by what was orphaned, whatever order the handlers and the    *)
(* payouts run in.                                                         *)

CreditsUpTo(H) == SumSats(ledger, {i \in 1..Len(ledger) : ledger[i].blockHeight <= H})
UnbookedUpTo(H) ==
  SumOver([h \in Handlers |-> IF handler[h].height <= H THEN Unbooked(handler[h]) ELSE 0],
          Handlers)
MinedUpTo(H) ==
  SumOver([b \in accepted |-> b.coinbasevalue], {b \in accepted : b.height <= H})

BackedAt(H) == CreditsUpTo(H) + UnbookedUpTo(H) <= MinedUpTo(H) + orphaned
=============================================================================
