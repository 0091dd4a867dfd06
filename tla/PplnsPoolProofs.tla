--------------------------- MODULE PplnsPoolProofs ---------------------------
(***************************************************************************)
(* Theorems about PplnsPool, for any miners, handlers, coinbases, window,  *)
(* fee, maturity and bounds: the reward path and the payout path keep      *)
(* their invariants over each other's steps, the split of a block is fair, *)
(* no lepton is lost between coinbase and payout, and every batch is       *)
(* backed by matured blocks.                                               *)
(***************************************************************************)
EXTENDS PplnsPool, BlockRewardProofs, PayoutSchedulerProofs

-----------------------------------------------------------------------------
(* Each side sees the other's steps as its own.                            *)

\* What the handlers do to the ledger and the chain is a credit or a block to the
\* payout path; everything else they do it does not see.
LEMMA RewardStepIsAny ==
  ASSUME RewardTypeOK, RewardStep
  PROVE  [AnyStep]_payoutVars
<1>1. RewardNext /\ UNCHANGED <<overrides, txs, unlocked, cycle, recon>>
  BY DEF RewardStep
<1>2. ASSUME NEW h \in Handlers, NEW m \in handler[h].todo, CreditMiner(h, m)
      PROVE  AnyStep
  <2>1. handler[h] \in HandlerState
    BY DEF RewardTypeOK
  <2>2. m \in Miners /\ handler[h].perMinerTotals[m] \in Nat /\ handler[h].height \in Nat
    BY <2>1 DEF HandlerState
  <2>3. Credit(m, handler[h].perMinerTotals[m], handler[h].height)
    BY <1>1, <1>2, PoolAssumption DEF CreditMiner, Credit
  <2> QED BY <2>2, <2>3 DEF AnyStep, AnyEnv
<1>3. ASSUME tip' = tip + 1, ledger' = ledger PROVE AnyStep
  BY <1>1, <1>3 DEF AnyStep, AnyEnv, NewBlock
<1>4. ASSUME UNCHANGED <<tip, ledger>> PROVE UNCHANGED payoutVars
  BY <1>1, <1>4 DEF payoutVars
<1>5. ASSUME NEW h \in Handlers, HandlerStep(h) PROVE [AnyStep]_payoutVars
  <2>1. CASE SUBMIT_BLOCK(h) \/ SubmitReplyLost(h)
    BY <1>3, <2>1 DEF SUBMIT_BLOCK, SubmitReplyLost, NodeAccepts
  <2>2. CASE \E m \in handler[h].todo : CreditMiner(h, m)
    BY <1>2, <2>2
  <2> QED
    BY <1>4, <1>5, <2>1, <2>2 DEF HandlerStep, Respond, record, RecordFails, BlockRejected,
       Announce, AnnounceFails, ReportBlockFound, EmptyWindow, Split, InsertAccountingRow,
       addFeeAndDust, ProcessFails
<1>6. CASE OtherBlock
  BY <1>3, <1>6 DEF OtherBlock
<1> QED
  BY <1>1, <1>4, <1>5, <1>6 DEF RewardNext, Submit, Tick, pruneOlderThan, RewardCrash

\* Every step of the pool is one of the payout path, or outside it.
LEMMA PoolStepIsAny ==
  ASSUME RewardTypeOK, [PoolNext]_poolVars
  PROVE  [AnyStep]_payoutVars
<1>1. CASE PayoutStep
  BY <1>1 DEF PayoutStep, AnyStep, AnyEnv
<1>2. CASE Orphan
  BY <1>2 DEF Orphan
<1>3. CASE UNCHANGED poolVars
  BY <1>3 DEF poolVars
<1> QED BY <1>1, <1>2, <1>3, RewardStepIsAny DEF PoolNext

\* A timer of the payout path changes the status of rows, never the books.
LEMMA PayoutStepRows ==
  ASSUME PayoutTypeOK, PayoutTypeOK', PayoutInv, PayoutStep
  PROVE  /\ tip' = tip /\ Len(ledger') = Len(ledger)
         /\ \A i \in 1..Len(ledger) : /\ ledger'[i].amountSats = ledger[i].amountSats
                                      /\ ledger'[i].blockHeight = ledger[i].blockHeight
<1>1. [AnyStep]_payoutVars
  BY DEF PayoutStep, AnyStep, AnyEnv
<1>2. LedgerAdvances
  BY <1>1, StepAdvances DEF PayoutInv
<1>3. tip' = tip
  BY DEF PayoutStep, AroundStep, CycleStep, ReconStep, updateSettings, TxConfirmed,
         TxDisconnected, UnlockExpires, TimerFires, getMiningInfo, QueryMature,
         FilterByThreshold, CheckBalance, ReadFails, walletpassphrase,
         WalletpassphraseFails, sendmany, SendmanyRefused, SendmanyReplyLost, FeeFallback,
         walletlock, MarkSent, MarkFails, ListSent, getConfirmations, CheckFails,
         MarkConfirmed
<1>4. \/ ledger' = ledger
      \/ \E s \in Slots : \E c \in cycle[s].todo : MarkSent(s, c)
      \/ \E s \in Slots : MarkConfirmed(s)
  BY DEF PayoutStep, AroundStep, CycleStep, ReconStep, updateSettings, TxConfirmed,
         TxDisconnected, UnlockExpires, TimerFires, getMiningInfo, QueryMature,
         FilterByThreshold, CheckBalance, ReadFails, walletpassphrase,
         WalletpassphraseFails, sendmany, SendmanyRefused, SendmanyReplyLost, FeeFallback,
         walletlock, MarkFails, ListSent, getConfirmations, CheckFails
<1>5. ledger \in Seq(PayoutLedgerEntity)
  BY DEF PayoutTypeOK
<1>6. Len(ledger') = Len(ledger)
  <2>1. ASSUME NEW s \in Slots, NEW c \in cycle[s].todo, MarkSent(s, c)
        PROVE  Len(ledger') = Len(ledger)
    BY <1>5, <2>1, MarkSentType DEF MarkSent, PayoutTypeOK, CycleState
  <2>2. ASSUME NEW s \in Slots, MarkConfirmed(s) PROVE Len(ledger') = Len(ledger)
    BY <1>5, <2>2, MarkConfirmedType DEF MarkConfirmed, PayoutTypeOK, ReconState
  <2> QED BY <1>4, <2>1, <2>2
<1> QED BY <1>2, <1>3, <1>6 DEF LedgerAdvances, RowAdvances

\* Rows that keep their amounts keep their sums.
LEMMA SumSatsStable ==
  ASSUME NEW l \in Seq(PayoutLedgerEntity), NEW k \in Seq(PayoutLedgerEntity),
         NEW R \in SUBSET (1..Len(l)), Len(l) <= Len(k),
         \A i \in R : k[i].amountSats = l[i].amountSats
  PROVE  SumSats(k, R) = SumSats(l, R) /\ SumSats(l, R) \in Nat
<1> DEFINE f == [i \in DOMAIN l |-> l[i].amountSats]
           g == [i \in DOMAIN k |-> k[i].amountSats]
<1>1. /\ IsFiniteSet(1..Len(l)) /\ \A i \in 1..Len(l) : i \in DOMAIN l /\ l[i].amountSats \in Nat
      /\ Len(l) \in Nat
  BY LedgerSum
<1>2. Len(k) \in Nat /\ \A i \in 1..Len(k) : i \in DOMAIN k
  BY LedgerSum
<1>3. IsFiniteSet(R)
  BY <1>1, FS_Subset
<1>4. \A i \in R : i \in 1..Len(l) /\ i \in 1..Len(k)
  BY <1>1, <1>2
<1>5. \A i \in R : f[i] = l[i].amountSats /\ g[i] = k[i].amountSats
  BY <1>1, <1>2, <1>4
<1>6. \A i \in R : f[i] \in Nat /\ f[i] = g[i]
  BY <1>1, <1>4, <1>5
<1>7. SumSats(l, R) = SumOver(f, R) /\ SumSats(k, R) = SumOver(g, R)
  BY DEF SumSats
<1> HIDE DEF f, g
<1>8. SumOver(f, R) \in Nat
  BY <1>3, <1>6, SumNat
<1>9. SumOver(f, R) = SumOver(g, R)
  <2>1. \A i \in R : f[i] \in Int /\ f[i] = g[i]
    BY <1>6
  <2> QED BY <1>3, <2>1, SumAgree
<1> QED BY <1>7, <1>8, <1>9

\* The timers of the payout path leave the reward path's invariant and books as they are.
LEMMA PayoutStepKeepsReward ==
  ASSUME RewardTypeOK, RewardInv, PayoutTypeOK, PayoutTypeOK', PayoutInv, PayoutStep
  PROVE  RewardTypeOK' /\ RewardInv' /\ Surplus' = Surplus
<1>1. /\ tip' = tip /\ Len(ledger') = Len(ledger)
      /\ \A i \in 1..Len(ledger) : /\ ledger'[i].amountSats = ledger[i].amountSats
                                   /\ ledger'[i].blockHeight = ledger[i].blockHeight
  BY PayoutStepRows
<1>2. UNCHANGED <<clock, shareLog, pruned, accounting, accepted, handler>>
  BY DEF PayoutStep
<1>3. ledger \in Seq(PayoutLedgerEntity) /\ ledger' \in Seq(PayoutLedgerEntity)
  BY DEF PayoutTypeOK
<1>4. RewardTypeOK'
  BY <1>1, <1>2, <1>3 DEF RewardTypeOK
<1>5. RewardInv'
  <2>1. ShareLogInv' /\ IsFiniteSet(accepted')
    BY <1>2 DEF RewardInv, ShareLogInv, PruneCutoff
  <2>2. (\A h \in Handlers : HandlerOK(handler[h]))'
    BY <1>2 DEF RewardInv, HandlerOK
  <2>3. WindowComplete' /\ FairSplit'
    BY <1>2, ZenonT(60) DEF RewardInv, WindowComplete, WindowRead, FairSplit, SplitFairly,
                            TotalDifficulty
  <2> QED BY <2>1, <2>2, <2>3 DEF RewardInv
<1>6. SumSats(ledger, 1..Len(ledger))' = SumSats(ledger, 1..Len(ledger))
  <2>1. Len(ledger) \in Nat
    BY <1>3
  <2>2. SumSats(ledger', 1..Len(ledger)) = SumSats(ledger, 1..Len(ledger))
    BY <1>1, <1>3, <2>1, SumSatsStable
  <2> QED BY <1>1, <2>2
<1>7. Booked' = Booked /\ Mined' = Mined /\ StillUnbooked' = StillUnbooked
  BY <1>2, <1>6 DEF Booked, Mined, StillUnbooked, Unbooked
<1> QED BY <1>4, <1>5, <1>7 DEF Surplus

\* An orphaned block takes its coinbase from what was mined; the rest stays.
LEMMA OrphanKeepsReward ==
  ASSUME RewardTypeOK, RewardInv, Orphan, orphaned \in Nat
  PROVE  /\ RewardTypeOK' /\ RewardInv' /\ orphaned' \in Nat
         /\ Surplus' + orphaned' = Surplus + orphaned
<1>1. PICK b \in accepted : /\ accepted' = accepted \ {b}
                            /\ orphaned' = orphaned + b.coinbasevalue
                            /\ UNCHANGED <<clock, shareLog, pruned, accounting, handler, payoutVars>>
  BY DEF Orphan
<1>2. UNCHANGED <<clock, shareLog, pruned, accounting, handler, ledger, tip>>
  BY <1>1 DEF payoutVars
<1>3. accepted \subseteq [height : 1..tip, coinbasevalue : Nat] /\ IsFiniteSet(accepted)
  BY DEF RewardTypeOK, RewardInv
<1>4. b.coinbasevalue \in Nat
  BY <1>3
<1>5. RewardTypeOK'
  BY <1>1, <1>2, <1>3 DEF RewardTypeOK
<1>6. RewardInv'
  <2>1. ShareLogInv'
    BY <1>2 DEF RewardInv, ShareLogInv, PruneCutoff
  <2>2. (\A h \in Handlers : HandlerOK(handler[h]))'
    BY <1>2 DEF RewardInv, HandlerOK
  <2>3. WindowComplete' /\ FairSplit'
    BY <1>2, ZenonT(60) DEF RewardInv, WindowComplete, WindowRead, FairSplit, SplitFairly,
                            TotalDifficulty
  <2>4. IsFiniteSet(accepted')
    BY <1>1, <1>3, FS_Subset
  <2> QED BY <2>1, <2>2, <2>3, <2>4 DEF RewardInv
<1> DEFINE f == [x \in accepted |-> x.coinbasevalue]
           g == [x \in accepted' |-> x.coinbasevalue]
<1>7. f[b] = b.coinbasevalue /\ \A x \in accepted : f[x] \in Int
  BY <1>3
<1>8. \A x \in accepted \ {b} : f[x] \in Int /\ f[x] = g[x]
  BY <1>1, <1>3
<1>9. Mined = SumOver(f, accepted) /\ Mined' = SumOver(g, accepted \ {b})
  BY <1>1 DEF Mined
<1> HIDE DEF f, g
<1>10. IsFiniteSet(accepted \ {b})
  BY <1>3, FS_Subset
<1>11. SumOver(f, accepted) = f[b] + SumOver(f, accepted \ {b})
  BY <1>3, <1>7, SumRemove
<1>12. SumOver(f, accepted \ {b}) = SumOver(g, accepted \ {b})
  BY <1>8, <1>10, SumAgree
<1>13. Mined \in Nat /\ Booked \in Nat /\ StillUnbooked \in Nat
  BY BooksNat, StillUnbookedNat
<1>14. SumOver(f, accepted \ {b}) \in Int
  BY <1>8, <1>10, SumType
<1>15. Mined = b.coinbasevalue + Mined'
  BY <1>7, <1>9, <1>11, <1>12
<1>16. Mined' \in Int
  BY <1>9, <1>12, <1>14
<1>17. Booked' = Booked /\ StillUnbooked' = StillUnbooked
  BY <1>2 DEF Booked, StillUnbooked, Unbooked
<1>18. Surplus = Mined - (Booked + StillUnbooked) /\ Surplus' = Mined' - (Booked + StillUnbooked)
  BY <1>17 DEF Surplus
<1> QED BY <1>1, <1>4, <1>5, <1>6, <1>13, <1>15, <1>16, <1>18

-----------------------------------------------------------------------------
(* The invariant of the pool.                                              *)

\* What holds of the pool between any two steps, whatever fails.
PoolInv ==
  /\ RewardTypeOK /\ RewardInv
  /\ PayoutTypeOK /\ PayoutInv /\ BatchInv
  /\ orphaned \in Nat

\* The pool before its first share.
LEMMA PoolInvInit == PoolInit => PoolInv /\ Surplus = 0 /\ orphaned = 0
BY RewardInitHolds, PayoutTypeInit, PayoutInvInit, BatchInit DEF PoolInit, PoolInv

\* A step of the reward path, of the payout path or of the chain keeps all of it.  Only
\* a handler that gives something up changes what is mined or orphaned and not booked.
LEMMA PoolInvStep ==
  ASSUME PoolInv, [PoolNext]_poolVars
  PROVE  /\ PoolInv'
         /\ \/ Surplus' + orphaned' = Surplus + orphaned
            \/ \E h \in Handlers : GivesUp(h)
<1>1. [AnyStep]_payoutVars
  BY PoolStepIsAny DEF PoolInv
<1>2. PayoutTypeOK'
  BY <1>1, PayoutTypeStep DEF PoolInv
<1>3. PayoutInv' /\ BatchInv'
  BY <1>1, <1>2, PayoutInvStep, BatchInvStep DEF PoolInv
<1>4. Surplus \in Int /\ orphaned \in Nat
  BY SurplusInt DEF PoolInv
<1>5. CASE RewardStep
  <2>1. RewardNext /\ orphaned' = orphaned
    BY <1>5 DEF RewardStep
  <2>2. /\ RewardTypeOK' /\ RewardInv'
        /\ Surplus' = Surplus \/ RewardCrash \/ \E h \in Handlers : GivesUp(h)
    BY <2>1, RewardNextKeeps DEF PoolInv
  <2>3. ~RewardCrash
    BY PoolAssumption DEF RewardCrash
  <2> QED BY <1>2, <1>3, <1>4, <2>1, <2>2, <2>3 DEF PoolInv
<1>6. CASE PayoutStep
  <2>1. orphaned' = orphaned
    BY <1>6 DEF PayoutStep
  <2>2. RewardTypeOK' /\ RewardInv' /\ Surplus' = Surplus
    BY <1>2, <1>6, PayoutStepKeepsReward DEF PoolInv
  <2> QED BY <1>2, <1>3, <1>4, <2>1, <2>2 DEF PoolInv
<1>7. CASE Orphan
  <2>1. /\ RewardTypeOK' /\ RewardInv' /\ orphaned' \in Nat
        /\ Surplus' + orphaned' = Surplus + orphaned
    BY <1>7, OrphanKeepsReward DEF PoolInv
  <2> QED BY <1>2, <1>3, <2>1 DEF PoolInv
<1>8. CASE UNCHANGED poolVars
  <2>1. UNCHANGED rewardVars /\ orphaned' = orphaned
    BY <1>8 DEF poolVars
  <2>2. UNCHANGED <<clock, shareLog, pruned, ledger, accounting, tip, accepted, handler>>
    BY <2>1 DEF rewardVars
  <2>3. pruned' \subseteq 1..Len(shareLog) /\ \A i \in pruned' : shareLog[i].timestamp < PruneCutoff
    BY <2>2 DEF PoolInv, RewardTypeOK, RewardInv, ShareLogInv
  <2>4. tip' \in Nat /\ accepted \subseteq [height : 1..tip', coinbasevalue : Nat]
    BY <2>2 DEF PoolInv, RewardTypeOK
  <2>5. RewardTypeOK' /\ RewardInv' /\ Surplus' = Surplus
    BY <2>2, <2>3, <2>4, OutsideStep DEF PoolInv
  <2> QED BY <1>2, <1>3, <1>4, <2>1, <2>5 DEF PoolInv
<1> QED BY <1>5, <1>6, <1>7, <1>8 DEF PoolNext

\* In the pool as a whole the invariants of the reward path and of the payout path hold
\* together: neither a handler nor a payout timer disturbs what the other relies on.
THEOREM PoolInvariance == PoolSpec => []PoolInv
<1>1. PoolInit => PoolInv
  BY PoolInvInit
<1>2. PoolInv /\ [PoolNext]_poolVars => PoolInv'
  BY PoolInvStep
<1> QED BY <1>1, <1>2, PTL DEF PoolSpec

\* In the whole pool, with payouts and reorganisations between the steps of the handlers,
\* processBlockFound splits a block in proportion, up to less than a lepton too much or one
\* lepton per share and one too little, and never gives away more than is distributed.
THEOREM PoolFairSplit == PoolSpec => []FairSplit
<1>1. PoolInv => FairSplit
  BY DEF PoolInv, RewardInv
<1> QED BY <1>1, PoolInvariance, PTL

\* In the whole pool, where the handlers of two blocks credit in whatever order, only
\* credits of matured blocks are paid, overlapping firings and lost replies included.
THEOREM PoolNeverPaysImmature == PoolSpec => []NeverPaysImmature
<1>1. PoolInv => NeverPaysImmature
  BY DEF PoolInv, PayoutInv, TxsInv, Grounded, NeverPaysImmature, PaidRows
<1> QED BY <1>1, PoolInvariance, PTL

-----------------------------------------------------------------------------
(* What the wallet pays out.                                               *)

\* The rows of a set of candidates.
RowsIn(C) == UNION {c.rows : c \in C}

\* One candidate per miner, and finitely many miners.
LEMMA BatchFinite ==
  ASSUME NEW C \in SUBSET IPendingPayoutCandidate, OnePerMiner(C)
  PROVE  IsFiniteSet(C)
<1> DEFINE f == [c \in C |-> c.minerAddress]
<1>1. f \in [C -> Miners]
  BY DEF IPendingPayoutCandidate
<1>2. \A c, d \in C : f[c] = f[d] => c = d
  BY DEF OnePerMiner
<1>3. f \in Injection(C, Miners)
  BY <1>1, <1>2 DEF Injection, IsInjective
<1>4. IsFiniteSet(Miners)
  BY RewardAssumption
<1> HIDE DEF f
<1> QED BY <1>3, <1>4, FS_Injection

\* A row belongs to one candidate of a batch, so the amounts of a batch add up to the
\* sum of its rows.
LEMMA BatchIsRows ==
  ASSUME PayoutTypeOK, NEW C \in SUBSET IPendingPayoutCandidate, OnePerMiner(C),
         \A c \in C : Grounded(c)
  PROVE  /\ RowsIn(C) \subseteq 1..Len(ledger) /\ IsFiniteSet(RowsIn(C))
         /\ BatchTotal(C) = SumSats(ledger, RowsIn(C))
<1> DEFINE K == RowsIn(C)
           f == [i \in DOMAIN ledger |-> ledger[i].amountSats]
           g == [c \in C |-> totalPendingSats(ledger, c)]
           k == [i \in K |-> CHOOSE c \in C : i \in c.rows]
           G == [c \in C |-> c.rows]
<1>1. K \subseteq 1..Len(ledger)
  BY DEF RowsIn, Grounded
<1>2. /\ IsFiniteSet(1..Len(ledger))
      /\ \A i \in 1..Len(ledger) : i \in DOMAIN ledger /\ ledger[i].amountSats \in Nat
  BY LedgerSum DEF PayoutTypeOK
<1>3. IsFiniteSet(K) /\ IsFiniteSet(C)
  BY <1>1, <1>2, FS_Subset, BatchFinite
<1>4. \A i \in K : f[i] \in Int
  BY <1>1, <1>2
<1>5. ASSUME NEW i \in K, NEW c \in C PROVE k[i] \in C /\ (i \in c.rows <=> k[i] = c)
  <2>1. k[i] \in C /\ i \in k[i].rows
    BY DEF RowsIn
  <2>2. \A d \in C : i \in d.rows => d.minerAddress = ledger[i].minerAddress
    BY DEF Grounded
  <2>3. i \in c.rows => c = k[i]
    <3> HIDE DEF k
    <3> QED BY <2>1, <2>2 DEF OnePerMiner
  <2> QED BY <2>1, <2>3
<1>6. \A c \in C : G[c] = c.rows /\ c.rows \subseteq K
  BY DEF RowsIn
<1>7. \A c \in C : g[c] = SumOver(f, G[c])
  BY DEF totalPendingSats, SumSats
<1>8. BatchTotal(C) = SumOver(g, C) /\ SumSats(ledger, K) = SumOver(f, K)
  BY DEF BatchTotal, SumSats
<1> HIDE DEF K, f, g, k, G
<1>9. Grouped(K, C, k, G)
  <2>1. ASSUME NEW i \in K PROVE k[i] \in C
    <3>1. PICK c \in C : i \in c.rows
      BY <2>1 DEF K, RowsIn
    <3> QED BY <1>5, <3>1
  <2>2. \A c \in C : G[c] \subseteq K
    BY <1>6
  <2>3. \A c \in C : \A i \in K : i \in G[c] <=> k[i] = c
    BY <1>5, <1>6
  <2> QED BY <2>1, <2>2, <2>3 DEF Grouped
<1>10. SumOver(g, C) = SumOver(f, K)
  BY <1>3, <1>4, <1>7, <1>9, SumByGroup
<1> QED BY <1>1, <1>3, <1>8, <1>10 DEF K

\* The rows some transaction has paid.
Settled == {i \in 1..Len(ledger) : TxsPaying(i) # {}}

\* Without a row paid twice, what left the wallet is the paid rows and the network fees.
LEMMA OutflowIsRows ==
  ASSUME PayoutTypeOK, TxsInv, BatchInv, NeverPaidTwice
  PROVE  /\ SumSats(ledger, Settled) \in Nat
         /\ Outflow = SumSats(ledger, Settled) + NetworkFees /\ NetworkFees \in Nat
<1> DEFINE T == 1..Len(txs)
           f == [i \in DOMAIN ledger |-> ledger[i].amountSats]
           b == [t \in T |-> BatchTotal(txs[t].candidates)]
           o == [t \in T |-> BatchTotal(txs[t].candidates) + NetworkFee]
           n == [t \in T |-> NetworkFee]
           u == [t \in T |-> 1]
           k == [i \in Settled |-> CHOOSE t \in T : i \in PaidRows(t)]
           G == [t \in T |-> PaidRows(t)]
<1>1. /\ IsFiniteSet(1..Len(ledger))
      /\ \A i \in 1..Len(ledger) : i \in DOMAIN ledger /\ ledger[i].amountSats \in Nat
  BY LedgerSum DEF PayoutTypeOK
<1>2. txs \in Seq(Transaction) /\ Len(txs) \in Nat /\ NetworkFee \in Nat
  BY PoolAssumption DEF PayoutTypeOK
<1>3. IsFiniteSet(T) /\ Cardinality(T) = Len(txs)
  BY <1>2, FS_Interval, SMTT(40)
<1>4. IsFiniteSet(Settled) /\ \A i \in Settled : f[i] \in Nat
  BY <1>1, FS_Subset DEF Settled
<1>5. ASSUME NEW t \in T
      PROVE  /\ PaidRows(t) \subseteq 1..Len(ledger)
             /\ BatchTotal(txs[t].candidates) = SumOver(f, PaidRows(t))
             /\ BatchTotal(txs[t].candidates) \in Int
  <2>1. txs[t] \in Transaction
    BY <1>2
  <2>2. txs[t].candidates \in SUBSET IPendingPayoutCandidate
    BY <2>1 DEF Transaction
  <2>3. OnePerMiner(txs[t].candidates) /\ \A c \in txs[t].candidates : Grounded(c)
    BY DEF BatchInv, TxsInv
  <2>4. /\ RowsIn(txs[t].candidates) \subseteq 1..Len(ledger)
        /\ IsFiniteSet(RowsIn(txs[t].candidates))
        /\ BatchTotal(txs[t].candidates) = SumSats(ledger, RowsIn(txs[t].candidates))
    BY <2>2, <2>3, BatchIsRows
  <2>5. RowsIn(txs[t].candidates) = PaidRows(t)
    BY DEF RowsIn, PaidRows
  <2>6. \A i \in PaidRows(t) : f[i] \in Int
    BY <1>1, <2>4, <2>5
  <2> HIDE DEF f
  <2>7. SumOver(f, PaidRows(t)) \in Int
    BY <2>4, <2>5, <2>6, SumType
  <2>8. SumSats(ledger, PaidRows(t)) = SumOver(f, PaidRows(t))
    BY DEF SumSats, f
  <2> QED BY <2>4, <2>5, <2>7, <2>8
<1>6. \A t \in T : b[t] = SumOver(f, G[t])
  BY <1>5
<1>7. Grouped(Settled, T, k, G)
  <2>1. ASSUME NEW i \in Settled PROVE k[i] \in T /\ i \in PaidRows(k[i])
    BY DEF Settled, TxsPaying
  <2>2. \A t \in T : G[t] = PaidRows(t) /\ PaidRows(t) \subseteq Settled
    BY <1>5 DEF Settled, TxsPaying
  <2> HIDE DEF k, G
  <2>3. \A t \in T : \A i \in Settled : i \in PaidRows(t) => k[i] = t
    BY <2>1 DEF NeverPaidTwice
  <2> QED BY <2>1, <2>2, <2>3 DEF Grouped
<1>8. \A t \in T : b[t] \in Int /\ n[t] \in Int /\ o[t] = b[t] + n[t]
  <2>1. ASSUME NEW t \in T PROVE b[t] \in Int
    BY <1>5
  <2>2. \A t \in T : n[t] = NetworkFee /\ o[t] = b[t] + NetworkFee
    BY Zenon
  <2> HIDE DEF b, o, n
  <2> QED BY <1>2, <2>1, <2>2
<1>9. \A t \in T : u[t] = 1 /\ u[t] \in Int /\ n[t] = NetworkFee * u[t]
  BY <1>2
<1>10. Outflow = SumOver(o, T) /\ SumSats(ledger, Settled) = SumOver(f, Settled)
  BY DEF Outflow, SumSats
<1> HIDE DEF T, f, b, o, n, u, k, G
<1>11. SumOver(b, T) = SumOver(f, Settled) /\ SumOver(f, Settled) \in Nat
  <2>1. \A i \in Settled : f[i] \in Int
    BY <1>4
  <2> QED BY <1>3, <1>4, <1>6, <1>7, <2>1, SumByGroup, SumNat
<1>12. SumOver(o, T) = SumOver(b, T) + SumOver(n, T)
  BY <1>3, <1>8, SumPlus
<1>13. SumOver(n, T) = NetworkFee * Len(txs)
  <2>1. SumOver(u, T) = Len(txs)
    BY <1>3, <1>9, SumOnes
  <2>2. NetworkFee \in Int
    BY <1>2
  <2>3. SumOver(n, T) = NetworkFee * SumOver(u, T)
    BY <1>3, <1>9, <2>2, SumScale
  <2> QED BY <2>1, <2>3
<1>14. NetworkFee * Len(txs) \in Nat
  BY <1>2
<1> QED BY <1>10, <1>11, <1>12, <1>13, <1>14 DEF NetworkFees

\* In the whole pool, where firings do not overlap and no failure comes between sendmany
\* and the last markSentUpTo, no credit is part of two transactions, whatever the handlers
\* of the blocks add to the ledger while a batch is on its way.
THEOREM PoolNeverPaidTwice ==
  ASSUME Reliable
  PROVE  PoolSpec => []NeverPaidTwice
<1> DEFINE Inv == PoolInv /\ PayOnceInv
<1>1. PoolInit => Inv
  BY PoolInvInit, PayOnceInit DEF PoolInit
<1>2. Inv /\ [PoolNext]_poolVars => Inv'
  <2>1. SUFFICES ASSUME PoolInv, PayOnceInv, [PoolNext]_poolVars PROVE PoolInv' /\ PayOnceInv'
    OBVIOUS
  <2>2. PoolInv' /\ [AnyStep]_payoutVars
    BY <2>1, PoolInvStep, PoolStepIsAny DEF PoolInv
  <2>3. PayOnceInv'
    BY <2>1, <2>2, PayOnceInvStep DEF PoolInv
  <2> QED BY <2>2, <2>3
<1>3. Inv => NeverPaidTwice
  BY DEF PayOnceInv
<1> HIDE DEF Inv
<1> QED BY <1>1, <1>2, <1>3, PTL DEF PoolSpec

\* Every coinbase has a confirmation as soon as its block is in the chain.
LEMMA AllConfirmed ==
  ASSUME RewardTypeOK
  PROVE  Coinbases(1) = Mined
<1>1. {b \in accepted : b.height + 1 <= tip + 1} = accepted
  BY DEF RewardTypeOK
<1> QED BY <1>1 DEF Coinbases, Mined

\* Where nothing but the acknowledgement of a share fails, firings do not overlap and no
\* failure comes between sendmany and the last markSentUpTo: what the wallet holds, the
\* fees and the orphaned blocks are what is owed to miners, the pool's own, and what the
\* handlers of the blocks have yet to book.
THEOREM PoolIsConserved ==
  ASSUME Failures \subseteq {"write"}, Reliable
  PROVE  PoolSpec => []PoolConserved
<1> DEFINE Inv == PoolInv /\ PayOnceInv /\ Surplus + orphaned = 0
<1>1. PoolInit => Inv
  BY PoolInvInit, PayOnceInit DEF PoolInit
<1>2. Inv /\ [PoolNext]_poolVars => Inv'
  <2>1. SUFFICES ASSUME PoolInv, PayOnceInv, Surplus + orphaned = 0, [PoolNext]_poolVars
                 PROVE  PoolInv' /\ PayOnceInv' /\ Surplus' + orphaned' = 0
    OBVIOUS
  <2>2. \A h \in Handlers : ~GivesUp(h)
    BY DEF GivesUp, SubmitReplyLost, AnnounceFails, ProcessFails
  <2>3. PoolInv' /\ Surplus' + orphaned' = 0
    BY <2>1, <2>2, PoolInvStep
  <2>4. [AnyStep]_payoutVars
    BY <2>1, PoolStepIsAny DEF PoolInv
  <2>5. PayOnceInv'
    BY <2>1, <2>3, <2>4, PayOnceInvStep DEF PoolInv
  <2> QED BY <2>3, <2>5
<1>3. Inv => PoolConserved
  <2> SUFFICES ASSUME PoolInv, PayOnceInv, Surplus + orphaned = 0 PROVE PoolConserved
    OBVIOUS
  <2> DEFINE f == [i \in DOMAIN ledger |-> ledger[i].amountSats]
             N == 1..Len(ledger)
  <2>1. /\ SumSats(ledger, Settled) \in Nat
        /\ Outflow = SumSats(ledger, Settled) + NetworkFees /\ NetworkFees \in Nat
    BY OutflowIsRows DEF PoolInv, PayoutInv, PayOnceInv
  <2>2. Coinbases(1) = Mined
    BY AllConfirmed DEF PoolInv
  <2>3. /\ IsFiniteSet(N) /\ SumSats(ledger, N) \in Nat
        /\ \A i \in N : i \in DOMAIN ledger /\ ledger[i].amountSats \in Nat
    BY LedgerSum DEF PoolInv, PayoutTypeOK
  <2>4. \A i \in N : f[i] \in Int
    BY <2>3
  <2>5. Settled \in SUBSET N /\ Unpaid = N \ Settled
    BY DEF Settled, Unpaid
  <2>6. SumSats(ledger, N) = SumSats(ledger, Settled) + SumSats(ledger, Unpaid)
    <3> HIDE DEF f, N
    <3>1. SumOver(f, N) = SumOver(f, Settled) + SumOver(f, N \ Settled)
      BY <2>3, <2>4, <2>5, SumSplit
    <3> QED BY <2>5, <3>1 DEF SumSats, f
  <2>7. SumSats(ledger, Unpaid) \in Int
    <3>1. IsFiniteSet(Unpaid) /\ \A i \in Unpaid : f[i] \in Int
      BY <2>3, <2>4, <2>5, FS_Subset
    <3> HIDE DEF f
    <3>2. SumOver(f, Unpaid) \in Int
      BY <3>1, SumType
    <3> QED BY <3>2 DEF SumSats, f
  <2>8. Mined \in Nat /\ Booked \in Nat /\ StillUnbooked \in Nat /\ orphaned \in Nat
    BY BooksNat, StillUnbookedNat DEF PoolInv
  <2>9. accounting.totalFeeSats \in Nat /\ accounting.totalDustSats \in Nat
    BY DEF PoolInv, RewardTypeOK, PoolAccountingEntity
  <2>10. Booked = SumSats(ledger, N) + accounting.totalFeeSats + accounting.totalDustSats
    BY DEF Booked
  <2>11. Mined - (Booked + StillUnbooked) + orphaned = 0
    BY DEF Surplus
  <2> HIDE DEF N
  <2>12. (Mined - (SumSats(ledger, Settled) + NetworkFees)) + NetworkFees + orphaned =
           SumSats(ledger, Unpaid) + accounting.totalFeeSats + accounting.totalDustSats
             + StillUnbooked
    <3>1. Mined - (((SumSats(ledger, Settled) + SumSats(ledger, Unpaid)) + accounting.totalFeeSats
                      + accounting.totalDustSats) + StillUnbooked) + orphaned = 0
      BY <2>6, <2>10, <2>11
    <3>2. \A x \in Nat : x \in Int
      OBVIOUS
    <3>3. /\ Mined \in Int /\ orphaned \in Int /\ SumSats(ledger, Settled) \in Int
          /\ accounting.totalFeeSats \in Int /\ accounting.totalDustSats \in Int
          /\ StillUnbooked \in Int /\ NetworkFees \in Int
      BY <2>1, <2>8, <2>9, <3>2, Zenon
    <3> QED BY <2>7, <3>1, <3>3
  <2> QED BY <2>1, <2>2, <2>12 DEF PoolConserved, getWalletTotalBalanceSats
<1> HIDE DEF Inv
<1> QED BY <1>1, <1>2, <1>3, PTL DEF PoolSpec

-----------------------------------------------------------------------------
(* Backing.                                                                *)

\* The invariant behind BackedUpToLosses, for every height.
BackedInv == \A H \in Int : BackedAt(H)

\* What handler r has yet to book for blocks up to height H.
UnbookedAt(H, r) == IF r.height <= H THEN Unbooked(r) ELSE 0

\* A step of one handler changes what is unbooked up to H by what that handler has.
LEMMA UnbookedUpToChanges ==
  ASSUME RewardTypeOK, RewardInv, NEW h \in Handlers, NEW r \in HandlerState, r.dustSats >= 0,
         SetHandler(h, r), NEW H \in Int
  PROVE  /\ UnbookedUpTo(H) \in Nat
         /\ UnbookedAt(H, r) \in Nat /\ UnbookedAt(H, handler[h]) \in Nat
         /\ UnbookedUpTo(H)' = UnbookedUpTo(H) - UnbookedAt(H, handler[h]) + UnbookedAt(H, r)
<1> DEFINE f == [g \in Handlers |-> UnbookedAt(H, handler[g])]
           ff == [g \in Handlers |-> UnbookedAt(H, handler'[g])]
<1>1. IsFiniteSet(Handlers)
  BY RewardAssumption
<1>2. \A g \in Handlers : handler'[g] = IF g = h THEN r ELSE handler[g]
  BY DEF SetHandler, RewardTypeOK
<1>3. UnbookedAt(H, r) \in Nat
  BY UnbookedNat DEF UnbookedAt
<1>4. ASSUME NEW g \in Handlers PROVE UnbookedAt(H, handler[g]) \in Nat
  <2>1. handler[g] \in HandlerState /\ handler[g].dustSats >= 0
    BY DEF RewardTypeOK, RewardInv, HandlerOK
  <2> QED BY <2>1, UnbookedNat DEF UnbookedAt
<1>5. /\ f[h] = UnbookedAt(H, handler[h]) /\ ff[h] = UnbookedAt(H, r)
      /\ \A g \in Handlers : f[g] \in Nat /\ ff[g] \in Nat
      /\ \A g \in Handlers \ {h} : f[g] = ff[g]
  BY <1>2, <1>3, <1>4
<1>6. UnbookedUpTo(H) = SumOver(f, Handlers)
  BY DEF UnbookedUpTo, UnbookedAt
<1>7. UnbookedUpTo(H)' = SumOver(ff, Handlers)
  BY DEF UnbookedUpTo, UnbookedAt
<1> HIDE DEF f, ff
<1>8. SumOver(f, Handlers) \in Nat
  BY <1>1, <1>5, SumNat
<1>9. SumOver(ff, Handlers) = SumOver(f, Handlers) - f[h] + ff[h]
  <2>1. \A g \in Handlers : f[g] \in Int /\ ff[g] \in Int
    BY <1>5
  <2>2. \A g \in Handlers \ {h} : f[g] = ff[g]
    BY <1>5
  <2> QED BY <1>1, <2>1, <2>2, SumChange, SMT
<1> QED BY <1>3, <1>4, <1>5, <1>6, <1>7, <1>8, <1>9

\* The three sums of BackedAt are naturals.
LEMMA UpToNat ==
  ASSUME RewardTypeOK, RewardInv, NEW H \in Int
  PROVE  CreditsUpTo(H) \in Nat /\ UnbookedUpTo(H) \in Nat /\ MinedUpTo(H) \in Nat
<1>1. CreditsUpTo(H) \in Nat
  <2> DEFINE R == {i \in 1..Len(ledger) : ledger[i].blockHeight <= H}
  <2>1. ledger \in Seq(PayoutLedgerEntity) /\ R \in SUBSET (1..Len(ledger)) /\ Len(ledger) <= Len(ledger)
    BY DEF RewardTypeOK
  <2> HIDE DEF R
  <2>2. SumSats(ledger, R) \in Nat
    BY <2>1, SumSatsStable
  <2> QED BY <2>2 DEF CreditsUpTo, R
<1>2. UnbookedUpTo(H) \in Nat
  <2> DEFINE f == [g \in Handlers |-> UnbookedAt(H, handler[g])]
  <2>1. ASSUME NEW g \in Handlers PROVE f[g] \in Nat
    <3>1. handler[g] \in HandlerState /\ handler[g].dustSats >= 0
      BY DEF RewardTypeOK, RewardInv, HandlerOK
    <3> QED BY <3>1, UnbookedNat DEF UnbookedAt
  <2>2. UnbookedUpTo(H) = SumOver(f, Handlers) /\ IsFiniteSet(Handlers)
    BY RewardAssumption DEF UnbookedUpTo, UnbookedAt
  <2> HIDE DEF f
  <2> QED BY <2>1, <2>2, SumNat
<1>3. MinedUpTo(H) \in Nat
  <2> DEFINE f == [b \in accepted |-> b.coinbasevalue]
             B == {b \in accepted : b.height <= H}
  <2>1. IsFiniteSet(B)
    BY FS_Subset DEF RewardInv
  <2>2. \A b \in B : f[b] \in Nat
    BY DEF RewardTypeOK
  <2>3. MinedUpTo(H) = SumOver(f, B)
    BY DEF MinedUpTo
  <2> HIDE DEF f, B
  <2> QED BY <2>1, <2>2, <2>3, SumNat
<1> QED BY <1>1, <1>2, <1>3

\* More accepted blocks, no less mined at any height.
LEMMA MinedUpToGrows ==
  ASSUME RewardTypeOK', RewardInv', accepted \subseteq accepted', NEW H \in Int
  PROVE  MinedUpTo(H)' >= MinedUpTo(H) /\ MinedUpTo(H) \in Nat /\ MinedUpTo(H)' \in Nat
<1> DEFINE g == [b \in accepted |-> b.coinbasevalue]
           f == [b \in accepted' |-> b.coinbasevalue]
           T == {b \in accepted : b.height <= H}
           S == {b \in accepted' : b.height <= H}
<1>1. IsFiniteSet(S) /\ T \in SUBSET S
  <2>1. IsFiniteSet(accepted') /\ S \subseteq accepted'
    BY DEF RewardInv
  <2> QED BY <2>1, FS_Subset
<1>2. \A x \in S : f[x] \in Nat
  BY DEF RewardTypeOK
<1>3. \A x \in T : g[x] = f[x]
  OBVIOUS
<1>4. MinedUpTo(H) = SumOver(g, T) /\ MinedUpTo(H)' = SumOver(f, S)
  BY DEF MinedUpTo
<1> HIDE DEF f, g, S, T
<1>5. SumOver(g, T) <= SumOver(f, S) /\ SumOver(g, T) \in Nat /\ SumOver(f, S) \in Nat
  BY <1>1, <1>2, <1>3, SumPart
<1> QED BY <1>4, <1>5

\* A credit adds its amount to the credits of the heights from its block's on.
LEMMA CreditsUpToCredit ==
  ASSUME RewardTypeOK, NEW m \in Miners, NEW amount \in Nat, NEW height \in Nat,
         ledger' = credit(ledger, m, amount, height), NEW H \in Int
  PROVE  CreditsUpTo(H)' = CreditsUpTo(H) + (IF height <= H THEN amount ELSE 0)
<1> DEFINE n == Len(ledger)
           R == {i \in 1..n : ledger[i].blockHeight <= H}
           RR == {i \in 1..Len(ledger') : ledger'[i].blockHeight <= H}
           f == [i \in DOMAIN ledger' |-> ledger'[i].amountSats]
<1>1. ledger \in Seq(PayoutLedgerEntity) /\ n \in Nat
  BY DEF RewardTypeOK
<1>2. R \in SUBSET (1..n) /\ CreditsUpTo(H) = SumSats(ledger, R)
  BY DEF CreditsUpTo
<1>3. CreditsUpTo(H)' = SumSats(ledger', RR)
  BY DEF CreditsUpTo
<1>4. CASE amount = 0
  <2>1. ledger' = ledger
    BY <1>4 DEF credit
  <2>2. RR = R
    BY <2>1
  <2>3. SumSats(ledger, R) \in Nat
    <3> HIDE DEF R
    <3> QED BY <1>1, <1>2, SumSatsStable
  <2> HIDE DEF R, RR
  <2>4. CreditsUpTo(H)' = CreditsUpTo(H) /\ CreditsUpTo(H) \in Nat
    BY <1>2, <1>3, <2>1, <2>2, <2>3
  <2> QED BY <1>4, <2>4
<1>5. CASE amount > 0
  <2> DEFINE e == [minerAddress |-> m, blockHeight |-> height, amountSats |-> amount,
                   status |-> "PENDING", txid |-> NoTx]
  <2>1. ledger' = Append(ledger, e)
    BY <1>5 DEF credit
  <2>2. e \in PayoutLedgerEntity /\ e.amountSats = amount /\ e.blockHeight = height
    BY DEF PayoutLedgerEntity, ePayoutStatus, NoTx
  <2> HIDE DEF e
  <2>3. /\ ledger' \in Seq(PayoutLedgerEntity) /\ Len(ledger') = n + 1
        /\ ledger'[n + 1] = e /\ \A i \in 1..n : ledger'[i] = ledger[i]
    BY <1>1, <2>1, <2>2
  <2>4. SumSats(ledger', R) = SumSats(ledger, R) /\ SumSats(ledger, R) \in Nat
    <3>1. \A i \in R : ledger'[i].amountSats = ledger[i].amountSats
      BY <2>3
    <3>2. Len(ledger) <= Len(ledger')
      BY <1>1, <2>3
    <3> HIDE DEF R
    <3> QED BY <1>1, <1>2, <2>3, <3>1, <3>2, SumSatsStable
  <2>5. RR = R \cup (IF height <= H THEN {n + 1} ELSE {})
    <3>1. \A i : i \in 1..(n + 1) <=> i \in 1..n \/ i = n + 1
      BY <1>1
    <3>2. \A i \in 1..n : ledger'[i].blockHeight = ledger[i].blockHeight
      BY <2>3
    <3>3. ledger'[n + 1].blockHeight = height
      BY <2>2, <2>3
    <3> HIDE DEF n
    <3>4. RR = {i \in 1..(n + 1) : ledger'[i].blockHeight <= H}
      BY <2>3
    <3>5. ASSUME NEW i PROVE i \in RR <=> i \in R \/ (i = n + 1 /\ height <= H)
      <4>1. CASE i \in 1..n
        <5>1. i # n + 1
          BY <1>1, <4>1
        <5> QED BY <3>1, <3>2, <3>4, <4>1, <5>1
      <4>2. CASE i = n + 1
        <5>1. i \notin 1..n
          BY <1>1, <4>2
        <5> QED BY <3>1, <3>3, <3>4, <4>2, <5>1
      <4>3. CASE i \notin 1..n /\ i # n + 1
        BY <3>1, <3>4, <4>3
      <4> QED BY <4>1, <4>2, <4>3
    <3> HIDE DEF R, RR
    <3> QED BY <3>5
  <2>6. /\ IsFiniteSet(R) /\ n + 1 \notin R
        /\ f[n + 1] = amount /\ \A i \in R \cup {n + 1} : f[i] \in Int
    <3>1. /\ IsFiniteSet(1..Len(ledger'))
          /\ \A i \in 1..Len(ledger') : i \in DOMAIN ledger' /\ ledger'[i].amountSats \in Nat
      BY <2>3, LedgerSum
    <3>2. R \cup {n + 1} \subseteq 1..Len(ledger')
      BY <1>1, <2>3
    <3>3. IsFiniteSet(R) /\ n + 1 \notin R
      BY <1>1, <3>1, <3>2, FS_Subset
    <3> HIDE DEF R
    <3> QED BY <2>2, <2>3, <3>1, <3>2, <3>3
  <2>7. SumSats(ledger', R) = SumOver(f, R) /\ SumSats(ledger', R \cup {n + 1}) = SumOver(f, R \cup {n + 1})
    BY DEF SumSats
  <2> HIDE DEF R, RR, f, n
  <2>8. SumOver(f, R \cup {n + 1}) = f[n + 1] + SumOver(f, R)
    BY <2>6, SumAdd
  <2>9. CASE height <= H
    <3>1. RR = R \cup {n + 1}
      BY <2>5, <2>9
    <3> QED BY <1>2, <1>3, <2>4, <2>6, <2>7, <2>8, <2>9, <3>1
  <2>10. CASE ~(height <= H)
    <3>1. RR = R
      BY <2>5, <2>10
    <3> QED BY <1>2, <1>3, <2>4, <2>10, <3>1
  <2> QED BY <2>9, <2>10
<1> QED BY <1>4, <1>5

\* The node's new block adds its coinbase to the heights from its own on.
LEMMA AcceptedUpTo ==
  ASSUME RewardTypeOK, RewardInv, NEW h \in Handlers, NodeAccepts(h), NEW H \in Int
  PROVE  /\ MinedUpTo(H)' = MinedUpTo(H) + (IF tip + 1 <= H THEN handler[h].coinbasevalue ELSE 0)
         /\ handler[h].coinbasevalue \in Nat /\ handler[h].height = tip + 1
<1> DEFINE v == handler[h].coinbasevalue
           b == [height |-> tip + 1, coinbasevalue |-> v]
           B == {x \in accepted : x.height <= H}
           BB == {x \in accepted' : x.height <= H}
           f == [x \in accepted |-> x.coinbasevalue]
           ff == [x \in accepted' |-> x.coinbasevalue]
<1>1. tip \in Nat /\ v \in Nat /\ accepted \subseteq [height : 1..tip, coinbasevalue : Nat]
  BY DEF RewardTypeOK, HandlerState
<1>2. accepted' = accepted \cup {b} /\ handler[h].height = tip + 1
  BY DEF NodeAccepts
<1>3. b \notin accepted /\ b.coinbasevalue = v /\ b.height = tip + 1
  BY <1>1
<1>4. IsFiniteSet(B) /\ b \notin B
  BY <1>3, FS_Subset DEF RewardInv
<1>5. BB = B \cup (IF tip + 1 <= H THEN {b} ELSE {})
  <2> HIDE DEF b
  <2> QED BY <1>2, <1>3
<1>6. ff[b] = v /\ \A x \in B : f[x] \in Int /\ ff[x] = f[x]
  BY <1>1, <1>2, <1>3
<1>7. MinedUpTo(H) = SumOver(f, B) /\ MinedUpTo(H)' = SumOver(ff, BB)
  BY DEF MinedUpTo
<1> HIDE DEF v, b, B, BB, f, ff
<1>8. SumOver(f, B) = SumOver(ff, B) /\ SumOver(f, B) \in Int
  BY <1>4, <1>6, SumAgree, SumType
<1>9. CASE tip + 1 <= H
  <2>1. BB = B \cup {b}
    BY <1>5, <1>9
  <2>2. \A x \in B \cup {b} : ff[x] \in Int
    BY <1>1, <1>6
  <2>3. SumOver(ff, BB) = ff[b] + SumOver(ff, B)
    BY <1>4, <2>1, <2>2, SumAdd
  <2> QED BY <1>1, <1>2, <1>6, <1>7, <1>8, <1>9, <2>3 DEF v
<1>10. CASE ~(tip + 1 <= H)
  <2>1. BB = B
    BY <1>5, <1>10
  <2> QED BY <1>1, <1>2, <1>7, <1>8, <1>10, <2>1 DEF v
<1> QED BY <1>9, <1>10

\* A step of a handler that credits nobody, takes no block from the chain and keeps its
\* block, or has none left to book, backs every height it backed.
LEMMA QuietBacked ==
  ASSUME RewardTypeOK, RewardInv, RewardTypeOK', RewardInv', orphaned \in Nat,
         NEW h \in Handlers, NEW r \in HandlerState, r.dustSats >= 0, SetHandler(h, r),
         \/ Unbooked(r) = 0
         \/ r.height = handler[h].height /\ Unbooked(r) <= Unbooked(handler[h]),
         ledger' = ledger, accepted \subseteq accepted', orphaned' = orphaned,
         NEW H \in Int, BackedAt(H)
  PROVE  BackedAt(H)'
<1>1. /\ UnbookedUpTo(H) \in Nat
      /\ UnbookedAt(H, r) \in Nat /\ UnbookedAt(H, handler[h]) \in Nat
      /\ UnbookedUpTo(H)' = UnbookedUpTo(H) - UnbookedAt(H, handler[h]) + UnbookedAt(H, r)
  BY UnbookedUpToChanges
<1>2. UnbookedAt(H, r) <= UnbookedAt(H, handler[h])
  BY <1>1 DEF UnbookedAt
<1>3. MinedUpTo(H)' >= MinedUpTo(H) /\ MinedUpTo(H) \in Nat /\ MinedUpTo(H)' \in Nat
  BY MinedUpToGrows
<1>4. CreditsUpTo(H)' = CreditsUpTo(H) /\ CreditsUpTo(H) \in Nat
  BY UpToNat DEF CreditsUpTo
<1>5. CreditsUpTo(H) + UnbookedUpTo(H) <= MinedUpTo(H) + orphaned
  BY DEF BackedAt
<1>6. CreditsUpTo(H)' + UnbookedUpTo(H)' <= MinedUpTo(H)' + orphaned'
  BY <1>1, <1>2, <1>3, <1>4, <1>5
<1> QED BY <1>6 DEF BackedAt

\* What a handler has yet to book shrinks when the books and the blocks stay as they are.
LEMMA UnbookedShrinks ==
  ASSUME RewardTypeOK, RewardInv, Surplus' >= Surplus, NEW h \in Handlers,
         NEW r \in HandlerState, r.dustSats >= 0, SetHandler(h, r),
         UNCHANGED <<ledger, accepted>>,
         accounting'.totalFeeSats = accounting.totalFeeSats,
         accounting'.totalDustSats = accounting.totalDustSats
  PROVE  Unbooked(r) <= Unbooked(handler[h])
<1>1. /\ StillUnbooked \in Nat /\ Unbooked(r) \in Nat /\ Unbooked(handler[h]) \in Nat
      /\ StillUnbooked' = StillUnbooked - Unbooked(handler[h]) + Unbooked(r)
  BY StillUnbookedChanges
<1>2. Booked' = Booked /\ Mined' = Mined
  BY DEF Booked, Mined
<1>3. Booked \in Nat /\ Mined \in Nat
  BY BooksNat
<1>4. Mined - (Booked + StillUnbooked') >= Mined - (Booked + StillUnbooked)
  BY <1>2 DEF Surplus
<1> QED BY <1>1, <1>3, <1>4

\* A step of a handler between the node's answers and its credits: nothing is credited,
\* and what it has yet to book belongs to the same block or is given up.
LEMMA HandlerQuiet ==
  ASSUME RewardTypeOK, RewardInv, RewardTypeOK', RewardInv', Surplus' >= Surplus,
         NEW h \in Handlers, HandlerStep(h), ~SUBMIT_BLOCK(h),
         ~\E m \in handler[h].todo : CreditMiner(h, m)
  PROVE  /\ ledger' = ledger /\ accepted \subseteq accepted'
         /\ \E r \in HandlerState :
              /\ r.dustSats >= 0 /\ SetHandler(h, r)
              /\ \/ Unbooked(r) = 0
                 \/ r.height = handler[h].height /\ Unbooked(r) <= Unbooked(handler[h])
<1> DEFINE r == handler'[h]
<1>1. r \in HandlerState /\ r.dustSats >= 0
  BY DEF RewardTypeOK, RewardInv, HandlerOK
<1>2. ledger' = ledger /\ accepted \subseteq accepted'
  BY DEF HandlerStep, Respond, record, RecordFails, BlockRejected, SubmitReplyLost,
         NodeAccepts, Announce, AnnounceFails, ReportBlockFound, EmptyWindow, Split,
         InsertAccountingRow, addFeeAndDust, ProcessFails
<1>3. handler \in [Handlers -> HandlerState]
  BY DEF RewardTypeOK
<1>4. ASSUME NEW q, SetHandler(h, q) PROVE r = q /\ SetHandler(h, r)
  BY <1>3, <1>4 DEF SetHandler
<1>5. ASSUME Finish(h) PROVE SetHandler(h, r) /\ Unbooked(r) = 0
  <2>1. Idle.pc = "idle"
    BY IdleFacts DEF RewardTypeOK
  <2>2. Unbooked(Idle) = 0
    BY <2>1, UnbookedZero DEF Announcing, Splitting
  <2> QED BY <1>4, <1>5, <2>2 DEF Finish
<1>6. ASSUME SetHandler(h, r), r.height = handler[h].height, accepted' = accepted,
             accounting'.totalFeeSats = accounting.totalFeeSats,
             accounting'.totalDustSats = accounting.totalDustSats
      PROVE  r.height = handler[h].height /\ Unbooked(r) <= Unbooked(handler[h])
  <2> HIDE DEF r
  <2> QED BY <1>1, <1>2, <1>6, UnbookedShrinks
<1>7. ASSUME NEW pc, Goto(h, pc) PROVE SetHandler(h, r) /\ r.height = handler[h].height
  <2>1. handler[h] \in HandlerState
    BY <1>3
  <2>2. [handler[h] EXCEPT !.pc = pc].height = handler[h].height
    BY <2>1 DEF HandlerState
  <2> QED BY <1>4, <1>7, <2>2 DEF Goto
<1>8. SetHandler(h, r) /\ (Unbooked(r) = 0 \/ (r.height = handler[h].height
                                                /\ Unbooked(r) <= Unbooked(handler[h])))
  <2>1. ASSUME NEW w \in BOOLEAN, Respond(h, w)
        PROVE  SetHandler(h, r) /\ (Unbooked(r) = 0 \/ (r.height = handler[h].height
                                                         /\ Unbooked(r) <= Unbooked(handler[h])))
    <3> HIDE DEF r
    <3> QED BY <1>5, <1>6, <1>7, <2>1 DEF Respond
  <2>2. ASSUME NEW id, AfterRecord(h, id), UNCHANGED <<accounting, accepted>>
        PROVE  SetHandler(h, r) /\ (Unbooked(r) = 0 \/ (r.height = handler[h].height
                                                         /\ Unbooked(r) <= Unbooked(handler[h])))
    <3>1. handler[h] \in HandlerState
      BY <1>3
    <3>2. [handler[h] EXCEPT !.pc = "submitblock", !.share = id].height = handler[h].height
      BY <3>1 DEF HandlerState
    <3> HIDE DEF r
    <3> QED BY <1>4, <1>5, <1>6, <2>2, <3>2 DEF AfterRecord
  <2>3. CASE record(h) \/ RecordFails(h)
    <3> HIDE DEF r
    <3> QED BY <2>2, <2>3 DEF record, RecordFails
  <2>4. CASE BlockRejected(h) \/ SubmitReplyLost(h) \/ AnnounceFails(h) \/ addFeeAndDust(h) \/ ProcessFails(h)
    <3> HIDE DEF r
    <3> QED BY <1>5, <2>4 DEF BlockRejected, SubmitReplyLost, AnnounceFails, addFeeAndDust, ProcessFails
  <2>5. CASE Announce(h)
    <3> HIDE DEF r
    <3> QED BY <1>6, <1>7, <2>5 DEF Announce
  <2>6. CASE InsertAccountingRow(h)
    <3>1. accounting'.totalFeeSats = accounting.totalFeeSats /\ accounting'.totalDustSats = accounting.totalDustSats
      BY <2>6 DEF InsertAccountingRow, RewardTypeOK, PoolAccountingEntity
    <3> HIDE DEF r
    <3> QED BY <1>6, <1>7, <2>6, <3>1 DEF InsertAccountingRow
  <2>7. ASSUME ReportBlockFound(h) \/ EmptyWindow(h) \/ Split(h)
        PROVE  SetHandler(h, r) /\ r.height = handler[h].height
    <3>1. handler[h] \in HandlerState
      BY <1>3
    <3>2. CASE ReportBlockFound(h)
      <4>1. [handler[h] EXCEPT !.pc = "window", !.windowStart = WindowStart].height = handler[h].height
        BY <3>1 DEF HandlerState
      <4> HIDE DEF r
      <4> QED BY <1>4, <3>2, <4>1 DEF ReportBlockFound
    <3>3. CASE EmptyWindow(h)
      <4>1. [handler[h] EXCEPT !.pc = "insertRow", !.feeSats = 0,
                               !.dustSats = handler[h].coinbasevalue].height = handler[h].height
        BY <3>1 DEF HandlerState
      <4> HIDE DEF r
      <4> QED BY <1>4, <3>3, <4>1 DEF EmptyWindow
    <3>4. CASE Split(h)
      <4>1. PICK p, S, t, todo, fee, dust :
              SetHandler(h, [handler[h] EXCEPT !.pc = p, !.counted = S, !.perMinerTotals = t,
                               !.todo = todo, !.feeSats = fee, !.dustSats = dust])
        BY <3>4, ZenonT(60) DEF Split
      <4>2. [handler[h] EXCEPT !.pc = p, !.counted = S, !.perMinerTotals = t,
               !.todo = todo, !.feeSats = fee, !.dustSats = dust].height = handler[h].height
        BY <3>1 DEF HandlerState
      <4> HIDE DEF r
      <4> QED BY <1>4, <4>1, <4>2
    <3> QED BY <2>7, <3>2, <3>3, <3>4
  <2>8. CASE ReportBlockFound(h) \/ EmptyWindow(h) \/ Split(h)
    <3> HIDE DEF r
    <3> QED BY <1>6, <2>7, <2>8 DEF ReportBlockFound, EmptyWindow, Split
  <2> HIDE DEF r
  <2> QED BY <2>1, <2>3, <2>4, <2>5, <2>6, <2>8 DEF HandlerStep
<1> HIDE DEF r
<1> QED BY <1>1, <1>2, <1>8

\* An accepted block backs the reward its handler has yet to book.
LEMMA SubmitBacked ==
  ASSUME RewardTypeOK, RewardInv, RewardTypeOK', RewardInv', orphaned \in Nat,
         NEW h \in Handlers, SUBMIT_BLOCK(h), orphaned' = orphaned, NEW H \in Int, BackedAt(H)
  PROVE  BackedAt(H)'
<1> DEFINE o == handler[h]
           r == [o EXCEPT !.pc = "save"]
           x == IF tip + 1 <= H THEN o.coinbasevalue ELSE 0
<1>1. o \in HandlerState /\ o.dustSats >= 0
  BY DEF RewardTypeOK, RewardInv, HandlerOK
<1>2. /\ MinedUpTo(H)' = MinedUpTo(H) + x
      /\ o.coinbasevalue \in Nat /\ o.height = tip + 1
  BY AcceptedUpTo DEF SUBMIT_BLOCK
<1>3. o.pc = "submitblock" /\ SetHandler(h, r) /\ ledger' = ledger
  BY DEF SUBMIT_BLOCK, Goto
<1>4. /\ r \in HandlerState /\ r.dustSats >= 0 /\ r.pc = "save" /\ r.height = o.height
      /\ r.coinbasevalue = o.coinbasevalue
  <2> HIDE DEF o
  <2> QED BY <1>1 DEF HandlerState, HandlerPc
<1> HIDE DEF r
<1>5. UnbookedAt(H, o) = 0 /\ UnbookedAt(H, r) = x
  BY <1>2, <1>3, <1>4 DEF UnbookedAt, Unbooked, Announcing, Splitting
<1>6. /\ UnbookedUpTo(H) \in Nat
      /\ UnbookedUpTo(H)' = UnbookedUpTo(H) - UnbookedAt(H, o) + UnbookedAt(H, r)
  BY <1>3, <1>4, UnbookedUpToChanges
<1>7. x \in Nat
  BY <1>2
<1>8. CreditsUpTo(H)' = CreditsUpTo(H) /\ CreditsUpTo(H) \in Nat /\ MinedUpTo(H) \in Nat
  BY <1>3, UpToNat DEF CreditsUpTo
<1>9. CreditsUpTo(H) + UnbookedUpTo(H) <= MinedUpTo(H) + orphaned
  BY DEF BackedAt
<1> HIDE DEF x, o
<1>10. CreditsUpTo(H)' + UnbookedUpTo(H)' <= MinedUpTo(H)' + orphaned'
  BY <1>2, <1>5, <1>6, <1>7, <1>8, <1>9
<1> QED BY <1>10 DEF BackedAt

\* A credit moves its amount from what is to be booked to what is booked, for the same
\* block.
LEMMA CreditBacked ==
  ASSUME RewardTypeOK, RewardInv, orphaned \in Nat, NEW h \in Handlers, NEW m,
         CreditMiner(h, m), orphaned' = orphaned, NEW H \in Int, BackedAt(H)
  PROVE  BackedAt(H)'
<1> DEFINE o == handler[h]
           r == handler'[h]
           amount == o.perMinerTotals[m]
           x == IF o.height <= H THEN amount ELSE 0
<1>1. /\ m \in o.todo /\ ledger' = credit(ledger, m, amount, o.height)
      /\ SetHandler(h, [o EXCEPT !.todo = @ \ {m},
                                 !.pc = IF o.todo = {m} THEN "insertRow" ELSE "credit"])
      /\ UNCHANGED <<accounting, accepted>>
  BY DEF CreditMiner
<1>2. o \in HandlerState /\ ledger \in Seq(PayoutLedgerEntity)
  BY DEF RewardTypeOK
<1>3. m \in Miners /\ amount \in Nat /\ o.height \in Nat
  BY <1>1, <1>2 DEF HandlerState
<1>4. RewardTypeOK' /\ RewardInv' /\ Surplus' = Surplus
  BY CreditMinerKeeps
<1>5. r \in HandlerState /\ r.dustSats >= 0
  BY <1>4 DEF RewardTypeOK, RewardInv, HandlerOK
<1>6. SetHandler(h, r) /\ r.height = o.height
  <2>1. [o EXCEPT !.todo = @ \ {m}, !.pc = IF o.todo = {m} THEN "insertRow" ELSE "credit"].height
          = o.height
    BY <1>2 DEF HandlerState
  <2>2. handler \in [Handlers -> HandlerState]
    BY DEF RewardTypeOK
  <2> HIDE DEF o
  <2> QED BY <1>1, <2>1, <2>2 DEF SetHandler
<1> HIDE DEF r, o, amount
<1>7. SumSats(ledger', 1..Len(ledger')) = SumSats(ledger, 1..Len(ledger)) + amount
  BY <1>1, <1>2, <1>3, CreditAdds, ZenonT(60)
<1>8. Unbooked(o) = amount + Unbooked(r) /\ Unbooked(r) \in Nat /\ Unbooked(o) \in Nat
  <2> DEFINE s == SumSats(ledger, 1..Len(ledger))
             a == accounting.totalFeeSats
             b == accounting.totalDustSats
  <2>1. s \in Nat /\ a \in Nat /\ b \in Nat
    BY LedgerSum DEF RewardTypeOK, PoolAccountingEntity
  <2>2. Booked = s + a + b /\ Booked' = (s + amount) + a + b /\ Mined' = Mined
    BY <1>1, <1>7 DEF Booked, Mined
  <2>3. Booked' = Booked + amount
    <3> HIDE DEF s, a, b
    <3> QED BY <1>3, <2>1, <2>2
  <2> DEFINE y == Unbooked(o)
             z == Unbooked(r)
  <2>4. StillUnbooked \in Nat /\ z \in Nat /\ y \in Nat /\ StillUnbooked' = StillUnbooked - y + z
    BY <1>5, <1>6, StillUnbookedChanges DEF o
  <2>5. Mined - (Booked' + StillUnbooked') = Mined - (Booked + StillUnbooked)
    BY <1>4, <2>2 DEF Surplus
  <2>6. Mined \in Nat /\ Booked \in Nat
    BY BooksNat
  <2> HIDE DEF s, a, b, x, y, z
  <2>7. Mined - ((Booked + amount) + (StillUnbooked - y + z)) = Mined - (Booked + StillUnbooked)
    BY <2>3, <2>4, <2>5
  <2>8. y = amount + z
    BY <1>3, <2>4, <2>6, <2>7
  <2> QED BY <2>4, <2>8 DEF y, z
<1>9. /\ UnbookedUpTo(H) \in Nat
      /\ UnbookedUpTo(H)' = UnbookedUpTo(H) - UnbookedAt(H, o) + UnbookedAt(H, r)
  BY <1>5, <1>6, UnbookedUpToChanges DEF o
<1>10. UnbookedAt(H, o) = x + UnbookedAt(H, r) /\ x \in Nat /\ UnbookedAt(H, r) \in Nat
  BY <1>3, <1>6, <1>8 DEF UnbookedAt
<1>11. CreditsUpTo(H)' = CreditsUpTo(H) + x
  BY <1>1, <1>3, CreditsUpToCredit
<1>12. MinedUpTo(H)' = MinedUpTo(H) /\ MinedUpTo(H) \in Nat /\ CreditsUpTo(H) \in Nat
  BY <1>1, UpToNat DEF MinedUpTo
<1>13. CreditsUpTo(H) + UnbookedUpTo(H) <= MinedUpTo(H) + orphaned
  BY DEF BackedAt
<1> HIDE DEF x
<1>14. CreditsUpTo(H)' + UnbookedUpTo(H)' <= MinedUpTo(H)' + orphaned'
  BY <1>9, <1>10, <1>11, <1>12, <1>13
<1> QED BY <1>14 DEF BackedAt

\* Every step of the reward path backs every height it backed.
LEMMA RewardStepBacked ==
  ASSUME PoolInv, RewardStep, NEW H \in Int, BackedAt(H)
  PROVE  BackedAt(H)'
<1>1. RewardNext /\ orphaned' = orphaned /\ orphaned \in Nat /\ RewardTypeOK /\ RewardInv
  BY DEF RewardStep, PoolInv
<1>2. RewardTypeOK' /\ RewardInv' /\ Surplus' >= Surplus
  BY <1>1, RewardNextKeeps
<1>3. ASSUME NEW h \in Handlers, NEW m \in Miners, NEW d \in Difficulties,
             NEW v \in CoinbaseValues, Submit(h, m, d, v)
      PROVE  BackedAt(H)'
  <2> DEFINE r == handler'[h]
  <2>1. r \in HandlerState /\ r.dustSats >= 0
    BY <1>2 DEF RewardTypeOK, RewardInv, HandlerOK
  <2>2. SetHandler(h, r) /\ r.pc = "respond"
    BY <1>1, <1>3 DEF Submit, SetHandler, RewardTypeOK, IdleHandler
  <2>3. Unbooked(r) = 0
    <3> HIDE DEF r
    <3> QED BY <2>2, UnbookedZero DEF Announcing, Splitting
  <2>4. ledger' = ledger /\ accepted \subseteq accepted'
    BY <1>3 DEF Submit
  <2> HIDE DEF r
  <2> QED BY <1>1, <1>2, <2>1, <2>2, <2>3, <2>4, QuietBacked
<1>4. ASSUME NEW h \in Handlers, HandlerStep(h) PROVE BackedAt(H)'
  <2>1. CASE SUBMIT_BLOCK(h)
    BY <1>1, <1>2, <2>1, SubmitBacked
  <2>2. ASSUME NEW m \in handler[h].todo, CreditMiner(h, m) PROVE BackedAt(H)'
    BY <1>1, <2>2, CreditBacked
  <2>3. CASE ~SUBMIT_BLOCK(h) /\ ~\E m \in handler[h].todo : CreditMiner(h, m)
    <3>1. /\ ledger' = ledger /\ accepted \subseteq accepted'
          /\ \E r \in HandlerState :
               /\ r.dustSats >= 0 /\ SetHandler(h, r)
               /\ \/ Unbooked(r) = 0
                  \/ r.height = handler[h].height /\ Unbooked(r) <= Unbooked(handler[h])
      BY <1>1, <1>2, <1>4, <2>3, HandlerQuiet
    <3> QED BY <1>1, <1>2, <3>1, QuietBacked
  <2> QED BY <2>1, <2>2, <2>3
<1>5. CASE Tick \/ pruneOlderThan \/ OtherBlock
  <2>1. UNCHANGED <<ledger, handler, accepted>>
    BY <1>5 DEF Tick, pruneOlderThan, OtherBlock
  <2> QED BY <1>1, <2>1 DEF BackedAt, CreditsUpTo, UnbookedUpTo, Unbooked, MinedUpTo
<1>6. ~RewardCrash
  BY PoolAssumption DEF RewardCrash
<1> QED BY <1>1, <1>3, <1>4, <1>5, <1>6 DEF RewardNext

\* The timers of the payout path change the status of rows and nothing the backing is
\* counted from.
LEMMA PayoutStepBacked ==
  ASSUME PoolInv, PayoutTypeOK', PayoutStep, NEW H \in Int, BackedAt(H)
  PROVE  BackedAt(H)'
<1> DEFINE R == {i \in 1..Len(ledger) : ledger[i].blockHeight <= H}
<1>1. /\ Len(ledger') = Len(ledger)
      /\ \A i \in 1..Len(ledger) : /\ ledger'[i].amountSats = ledger[i].amountSats
                                   /\ ledger'[i].blockHeight = ledger[i].blockHeight
  BY PayoutStepRows DEF PoolInv
<1>2. ledger \in Seq(PayoutLedgerEntity) /\ ledger' \in Seq(PayoutLedgerEntity)
  BY DEF PoolInv, PayoutTypeOK
<1>3. {i \in 1..Len(ledger') : ledger'[i].blockHeight <= H} = R
  BY <1>1
<1>4. CreditsUpTo(H) = SumSats(ledger, R) /\ CreditsUpTo(H)' = SumSats(ledger', R)
  BY <1>3 DEF CreditsUpTo
<1>5. SumSats(ledger', R) = SumSats(ledger, R)
  <2>1. R \in SUBSET (1..Len(ledger)) /\ Len(ledger) <= Len(ledger')
    BY <1>1, <1>2
  <2>2. \A i \in R : ledger'[i].amountSats = ledger[i].amountSats
    BY <1>1
  <2> HIDE DEF R
  <2> QED BY <1>2, <2>1, <2>2, SumSatsStable
<1>6. UNCHANGED <<accepted, handler, orphaned>>
  BY DEF PayoutStep
<1> QED BY <1>4, <1>5, <1>6 DEF BackedAt, UnbookedUpTo, Unbooked, MinedUpTo

\* What an orphaned block takes from what was mined is counted as orphaned.
LEMMA OrphanBacked ==
  ASSUME PoolInv, Orphan, NEW H \in Int, BackedAt(H)
  PROVE  BackedAt(H)'
<1>1. PICK b \in accepted : /\ accepted' = accepted \ {b}
                            /\ orphaned' = orphaned + b.coinbasevalue
                            /\ UNCHANGED <<handler, payoutVars>>
  BY DEF Orphan
<1>2. UNCHANGED <<handler, ledger>>
  BY <1>1 DEF payoutVars
<1>3. /\ IsFiniteSet(accepted) /\ orphaned \in Nat /\ RewardTypeOK /\ RewardInv
      /\ \A x \in accepted : x.coinbasevalue \in Nat
  BY DEF PoolInv, RewardInv, RewardTypeOK
<1> DEFINE B == {x \in accepted : x.height <= H}
           BB == {x \in accepted' : x.height <= H}
           f == [x \in accepted |-> x.coinbasevalue]
           g == [x \in accepted' |-> x.coinbasevalue]
<1>4. BB = B \ {b} /\ B \subseteq accepted /\ IsFiniteSet(B) /\ IsFiniteSet(BB)
  BY <1>1, <1>3, FS_Subset
<1>5. /\ f[b] = b.coinbasevalue /\ \A x \in B : f[x] \in Int
      /\ \A x \in BB : f[x] \in Int /\ f[x] = g[x]
  BY <1>1, <1>3
<1>6. MinedUpTo(H) = SumOver(f, B) /\ MinedUpTo(H)' = SumOver(g, BB)
  BY DEF MinedUpTo
<1> HIDE DEF B, BB, f, g
<1>7. SumOver(f, BB) = SumOver(g, BB) /\ SumOver(f, BB) \in Int
  BY <1>4, <1>5, SumAgree, SumType
<1>8. SumOver(f, B) <= SumOver(f, BB) + b.coinbasevalue
  <2>1. CASE b \in B
    <3>1. SumOver(f, B) = f[b] + SumOver(f, B \ {b})
      BY <1>4, <1>5, <2>1, SumRemove
    <3> QED BY <1>3, <1>4, <1>5, <1>7, <3>1
  <2>2. CASE b \notin B
    <3>1. BB = B
      BY <1>4, <2>2
    <3> QED BY <1>3, <1>7, <3>1
  <2> QED BY <2>1, <2>2
<1>9. CreditsUpTo(H) \in Nat /\ UnbookedUpTo(H) \in Nat /\ MinedUpTo(H) \in Nat
  BY <1>3, UpToNat
<1>10. CreditsUpTo(H)' = CreditsUpTo(H) /\ UnbookedUpTo(H)' = UnbookedUpTo(H)
  BY <1>2 DEF CreditsUpTo, UnbookedUpTo, Unbooked
<1>11. CreditsUpTo(H) + UnbookedUpTo(H) <= MinedUpTo(H) + orphaned
  BY DEF BackedAt
<1>12. CreditsUpTo(H)' + UnbookedUpTo(H)' <= MinedUpTo(H)' + orphaned'
  BY <1>1, <1>3, <1>6, <1>7, <1>8, <1>9, <1>10, <1>11
<1> QED BY <1>12 DEF BackedAt

\* Whatever the pool does, the credits up to every height stay backed.
LEMMA BackedStep ==
  ASSUME PoolInv, PayoutTypeOK', BackedInv, [PoolNext]_poolVars
  PROVE  BackedInv'
<1>1. SUFFICES ASSUME NEW H \in Int PROVE BackedAt(H)'
  BY DEF BackedInv
<1>2. BackedAt(H)
  BY DEF BackedInv
<1>3. CASE UNCHANGED poolVars
  BY <1>2, <1>3 DEF poolVars, rewardVars, BackedAt, CreditsUpTo, UnbookedUpTo, Unbooked, MinedUpTo
<1> QED BY <1>2, <1>3, RewardStepBacked, PayoutStepBacked, OrphanBacked DEF PoolNext

\* Before the first block everything is zero.
LEMMA BackedInit == PoolInit => BackedInv
<1> SUFFICES ASSUME PoolInit, NEW H \in Int PROVE BackedAt(H)
  BY DEF BackedInv
<1>1. RewardInit /\ orphaned = 0
  BY DEF PoolInit
<1>2. CreditsUpTo(H) = 0
  <2>1. {i \in 1..Len(ledger) : ledger[i].blockHeight <= H} = {}
    BY <1>1 DEF RewardInit
  <2> QED BY <2>1, SumEmpty DEF CreditsUpTo, SumSats
<1>3. MinedUpTo(H) = 0
  <2>1. {b \in accepted : b.height <= H} = {}
    BY <1>1 DEF RewardInit
  <2> QED BY <2>1, SumEmpty DEF MinedUpTo
<1>4. UnbookedUpTo(H) = 0
  <2> DEFINE f == [g \in Handlers |-> IF handler[g].height <= H THEN Unbooked(handler[g]) ELSE 0]
  <2>1. Idle.pc = "idle"
    BY DEF Idle, IdleHandler
  <2>2. Unbooked(Idle) = 0
    BY <2>1, UnbookedZero DEF Announcing, Splitting
  <2>3. \A g \in Handlers : f[g] = 0
    BY <1>1, <2>2 DEF RewardInit
  <2> HIDE DEF f
  <2>4. SumOver(f, Handlers) = 0
    BY <2>3, RewardAssumption, SumZero
  <2> QED BY <2>4 DEF UnbookedUpTo, f
<1> QED BY <1>1, <1>2, <1>3, <1>4 DEF BackedAt

\* The rows of a batch that is not broadcast yet are in no transaction.
LEMMA BatchUnsettled ==
  ASSUME Reliable, PayoutTypeOK, PayoutInv, PayOnceInv, NEW s \in Slots,
         cycle[s].pc \in {"balance", "send", "resend"}
  PROVE  RowsIn(cycle[s].candidates) \cap Settled = {}
<1>1. cycle[s].txid = NoTx
  BY DEF PayoutInv, CycleOK
<1>2. \A i \in RowsIn(cycle[s].candidates) : ledger[i].status = "PENDING"
  BY <1>1 DEF PayOnceInv, UnpaidInv, RowsIn
<1>3. ASSUME NEW i \in Settled PROVE ledger[i].status # "PENDING"
  <2>1. PICK t \in 1..Len(txs) : i \in PaidRows(t)
    BY DEF Settled, TxsPaying
  <2>2. PICK c \in txs[t].candidates : i \in c.rows
    BY <2>1 DEF PaidRows
  <2>3. ~Unmarked(t, c)
    <3>1. \A u \in Slots : cycle[u].txid = NoTx
      BY <1>1 DEF Reliable
    <3>2. t # NoTx
      BY DEF NoTx
    <3> QED BY <3>1, <3>2 DEF Unmarked
  <2> QED BY <2>2, <2>3 DEF PayOnceInv, MarkedInv
<1> QED BY <1>2, <1>3

\* A batch and what was paid before are different mature credits: together they are no
\* more than the credits of the mature blocks.
LEMMA BatchWithinCredits ==
  ASSUME Reliable, PoolInv, PayOnceInv, NEW s \in Slots,
         cycle[s].pc \in {"balance", "send", "resend"}
  PROVE  /\ Requested(s) \in Nat /\ SumSats(ledger, Settled) \in Nat
         /\ Requested(s) + SumSats(ledger, Settled) <= CreditsUpTo(tip + 1 - Maturity)
<1> DEFINE H == tip + 1 - Maturity
           R == {i \in 1..Len(ledger) : ledger[i].blockHeight <= H}
           B == RowsIn(cycle[s].candidates)
           f == [i \in DOMAIN ledger |-> ledger[i].amountSats]
<1>1. PayoutTypeOK /\ PayoutInv /\ BatchInv /\ tip \in Nat
  BY DEF PoolInv, RewardTypeOK
<1>2. cycle[s].candidates \in SUBSET IPendingPayoutCandidate
  BY <1>1 DEF PayoutTypeOK, CycleState
<1>3. OnePerMiner(cycle[s].candidates) /\ \A c \in cycle[s].candidates : Grounded(c)
  BY <1>1 DEF BatchInv, BatchOK, PayoutInv, CycleOK
<1>4. /\ B \subseteq 1..Len(ledger) /\ IsFiniteSet(B)
      /\ Requested(s) = SumSats(ledger, B)
  BY <1>1, <1>2, <1>3, BatchIsRows DEF Requested
<1>5. B \cap Settled = {}
  BY <1>1, BatchUnsettled
<1>6. /\ IsFiniteSet(1..Len(ledger)) /\ ledger \in Seq(PayoutLedgerEntity)
      /\ \A i \in 1..Len(ledger) : i \in DOMAIN ledger /\ ledger[i].amountSats \in Nat
  BY <1>1, LedgerSum DEF PayoutTypeOK
<1>7. \A i \in 1..Len(ledger) : ledger[i].blockHeight + Maturity <= tip + 1 => i \in R
  <2>1. ASSUME NEW i \in 1..Len(ledger) PROVE ledger[i].blockHeight \in Nat
    <3>1. ledger[i] \in PayoutLedgerEntity
      BY <1>6
    <3> QED BY <3>1 DEF PayoutLedgerEntity
  <2>2. Maturity \in Nat
    BY ConstantsAssumption
  <2> QED BY <1>1, <2>1, <2>2
<1>8. B \subseteq R
  <2>1. \A i \in B : ledger[i].blockHeight + Maturity <= tip + 1
    BY <1>3 DEF RowsIn, Grounded
  <2> HIDE DEF B, R
  <2> QED BY <1>4, <1>7, <2>1
<1>9. Settled \subseteq R /\ IsFiniteSet(Settled)
  <2>1. \A i \in Settled : i \in 1..Len(ledger) /\ ledger[i].blockHeight + Maturity <= tip + 1
    <3>1. ASSUME NEW i \in Settled PROVE ledger[i].blockHeight + Maturity <= tip + 1
      <4>1. PICK t \in 1..Len(txs) : i \in PaidRows(t)
        BY DEF Settled, TxsPaying
      <4>2. PICK c \in txs[t].candidates : i \in c.rows
        BY <4>1 DEF PaidRows
      <4> QED BY <1>1, <4>2 DEF PayoutInv, TxsInv, Grounded
    <3> QED BY <3>1 DEF Settled
  <2> HIDE DEF R
  <2>2. Settled \subseteq R /\ Settled \subseteq 1..Len(ledger)
    BY <1>7, <2>1
  <2> QED BY <1>6, <2>2, FS_Subset
<1>10. R \subseteq 1..Len(ledger) /\ IsFiniteSet(R)
  BY <1>6, FS_Subset
<1>11. \A i \in R : f[i] \in Nat
  BY <1>6
<1>12. CreditsUpTo(H) = SumOver(f, R)
  BY DEF CreditsUpTo, SumSats
<1>13. SumSats(ledger, B) = SumOver(f, B) /\ SumSats(ledger, Settled) = SumOver(f, Settled)
  BY DEF SumSats
<1> HIDE DEF R, B, f, H
<1>14. SumOver(f, B \cup Settled) = SumOver(f, B) + SumOver(f, Settled)
  <2>1. \A i \in B \cup Settled : f[i] \in Int
    BY <1>8, <1>9, <1>11
  <2> QED BY <1>4, <1>5, <1>9, <2>1, SumUnion
<1>15. SumOver(f, B \cup Settled) <= SumOver(f, R)
  <2>1. B \cup Settled \in SUBSET R
    BY <1>8, <1>9
  <2> QED BY <1>10, <1>11, <2>1, SumPart
<1>16. SumOver(f, B) \in Nat /\ SumOver(f, Settled) \in Nat
  <2>1. (\A i \in B : f[i] \in Nat) /\ (\A i \in Settled : f[i] \in Nat)
    BY <1>8, <1>9, <1>11
  <2> QED BY <1>4, <1>9, <2>1, SumNat
<1> QED BY <1>4, <1>12, <1>13, <1>14, <1>15, <1>16 DEF H

\* What the invariants say of a wallet that is asked for a batch.
LEMMA BackedFromInv ==
  ASSUME Reliable, PoolInv, PayOnceInv, BackedInv
  PROVE  BackedUpToLosses
<1> SUFFICES ASSUME NEW s \in Slots, cycle[s].pc \in {"balance", "send", "resend"}
             PROVE  getWalletBalanceSats + NetworkFees + orphaned >= Requested(s)
  BY DEF BackedUpToLosses
<1> DEFINE H == tip + 1 - Maturity
           p == SumSats(ledger, Settled)
<1>1. /\ RewardTypeOK /\ RewardInv /\ orphaned \in Nat /\ tip \in Nat /\ Maturity \in Nat
  BY ConstantsAssumption DEF PoolInv, RewardTypeOK
<1>2. H \in Int
  BY <1>1
<1>3. Requested(s) \in Nat /\ p \in Nat /\ Requested(s) + p <= CreditsUpTo(H)
  BY BatchWithinCredits
<1>4. Outflow = p + NetworkFees /\ NetworkFees \in Nat
  BY OutflowIsRows DEF PoolInv, PayoutInv, PayOnceInv
<1>5. Coinbases(Maturity) = MinedUpTo(H)
  <2>1. \A b \in accepted : b.height + Maturity <= tip + 1 <=> b.height <= H
    BY <1>1 DEF RewardTypeOK
  <2> HIDE DEF H
  <2>2. {b \in accepted : b.height + Maturity <= tip + 1} = {b \in accepted : b.height <= H}
    BY <2>1
  <2> QED BY <2>2 DEF Coinbases, MinedUpTo
<1> HIDE DEF H, p
<1>6. CreditsUpTo(H) \in Nat /\ UnbookedUpTo(H) \in Nat /\ MinedUpTo(H) \in Nat
  BY <1>1, <1>2, UpToNat
<1>7. CreditsUpTo(H) + UnbookedUpTo(H) <= MinedUpTo(H) + orphaned
  BY <1>2 DEF BackedInv, BackedAt
<1>8. (MinedUpTo(H) - (p + NetworkFees)) + NetworkFees + orphaned >= Requested(s)
  BY <1>1, <1>3, <1>4, <1>6, <1>7
<1> QED BY <1>4, <1>5, <1>8 DEF getWalletBalanceSats

\* Where firings do not overlap and no failure comes between sendmany and the last
\* markSentUpTo, every lepton of a batch about to be sent is backed by a matured block of
\* this pool, up to network fees and orphaned blocks, whatever statement, notification or
\* reply fails in the reward path.
THEOREM PoolBacked ==
  ASSUME Reliable
  PROVE  PoolSpec => []BackedUpToLosses
<1> DEFINE Inv == PoolInv /\ PayOnceInv /\ BackedInv
<1>1. PoolInit => Inv
  BY PoolInvInit, PayOnceInit, BackedInit DEF PoolInit
<1>2. Inv /\ [PoolNext]_poolVars => Inv'
  <2>1. SUFFICES ASSUME PoolInv, PayOnceInv, BackedInv, [PoolNext]_poolVars
                 PROVE  PoolInv' /\ PayOnceInv' /\ BackedInv'
    OBVIOUS
  <2>2. PoolInv' /\ PayoutTypeOK'
    BY <2>1, PoolInvStep DEF PoolInv
  <2>3. [AnyStep]_payoutVars
    BY <2>1, PoolStepIsAny DEF PoolInv
  <2>4. PayOnceInv'
    BY <2>1, <2>2, <2>3, PayOnceInvStep DEF PoolInv
  <2> QED BY <2>1, <2>2, <2>4, BackedStep
<1>3. Inv => BackedUpToLosses
  BY BackedFromInv
<1> HIDE DEF Inv
<1> QED BY <1>1, <1>2, <1>3, PTL DEF PoolSpec
=============================================================================
