------------------------ MODULE PayoutSchedulerProofs ------------------------
(***************************************************************************)
(* Theorems about PayoutScheduler, for every set of miners, slots and      *)
(* faults and every bound: the ledger tells the truth, credits are paid    *)
(* once, the wallet is locked again, and the payout path implements        *)
(* PayoutPromise.                                                          *)
(***************************************************************************)
EXTENDS PayoutScheduler, SequenceTheorems, SumTheorems

\* The steps of PayoutNext with its bounds left out: a credit of any amount for a block
\* of any height, and a chain of any length.  What is proved of AnyStep holds wherever
\* the credits and the blocks come from.
AnyEnv ==
  \/ \E m \in Miners, a \in Nat, h \in Nat : Credit(m, a, h)
  \/ NewBlock \/ AroundStep \/ PayoutCrash

AnyStep == AnyEnv \/ \E s \in Slots : CycleStep(s) \/ ReconStep(s)

-----------------------------------------------------------------------------
(* The ledger's statements                                                 *)

\* credit inserts at most one row and touches no other.
LEMMA CreditType ==
  ASSUME NEW l \in Seq(PayoutLedgerEntity), NEW m \in Miners,
         NEW a \in Nat, NEW h \in Nat
  PROVE  credit(l, m, a, h) \in Seq(PayoutLedgerEntity)
<1> DEFINE r == [minerAddress |-> m, blockHeight |-> h, amountSats |-> a,
                 status |-> "PENDING", txid |-> NoTx]
<1>1. r \in PayoutLedgerEntity
  BY DEF PayoutLedgerEntity, ePayoutStatus, NoTx
<1>2. Append(l, r) \in Seq(PayoutLedgerEntity)
  <2> HIDE DEF r
  <2> QED BY <1>1
<1> QED
  BY <1>2 DEF credit

\* markSentUpTo keeps the table's type and length.
LEMMA MarkSentType ==
  ASSUME NEW l \in Seq(PayoutLedgerEntity), NEW m, NEW k, NEW t \in Nat
  PROVE  /\ markSentUpTo(l, m, k, t) \in Seq(PayoutLedgerEntity)
         /\ Len(markSentUpTo(l, m, k, t)) = Len(l)
<1> DEFINE F(i) == IF l[i].minerAddress = m /\ i <= k /\ l[i].status = "PENDING"
                   THEN [l[i] EXCEPT !.status = "SENT", !.txid = t]
                   ELSE l[i]
<1>1. ASSUME NEW i \in 1..Len(l) PROVE F(i) \in PayoutLedgerEntity
  <2>1. l[i] \in PayoutLedgerEntity
    BY ElementOfSeq
  <2> QED
    BY <2>1 DEF PayoutLedgerEntity, ePayoutStatus
<1>2. Len(l) \in Nat
  BY LenProperties
<1>3. [i \in 1..Len(l) |-> F(i)] \in Seq(PayoutLedgerEntity)
  <2> HIDE DEF F
  <2> QED BY <1>1, <1>2, IsASeq
<1>4. Len([i \in 1..Len(l) |-> F(i)]) = Len(l)
  <2> HIDE DEF F
  <2> QED BY <1>2, <1>3
<1>5. markSentUpTo(l, m, k, t) = [i \in 1..Len(l) |-> F(i)]
  BY DEF markSentUpTo
<1> QED
  BY <1>3, <1>4, <1>5

\* markConfirmed keeps the table's type and length.
LEMMA MarkConfirmedType ==
  ASSUME NEW l \in Seq(PayoutLedgerEntity), NEW t \in Nat
  PROVE  /\ markConfirmed(l, t) \in Seq(PayoutLedgerEntity)
         /\ Len(markConfirmed(l, t)) = Len(l)
<1> DEFINE F(i) == IF l[i].txid = t /\ l[i].status = "SENT"
                   THEN [l[i] EXCEPT !.status = "CONFIRMED"]
                   ELSE l[i]
<1>1. ASSUME NEW i \in 1..Len(l) PROVE F(i) \in PayoutLedgerEntity
  <2>1. l[i] \in PayoutLedgerEntity
    BY ElementOfSeq
  <2> QED
    BY <2>1 DEF PayoutLedgerEntity, ePayoutStatus
<1>2. Len(l) \in Nat
  BY LenProperties
<1>3. [i \in 1..Len(l) |-> F(i)] \in Seq(PayoutLedgerEntity)
  <2> HIDE DEF F
  <2> QED BY <1>1, <1>2, IsASeq
<1>4. Len([i \in 1..Len(l) |-> F(i)]) = Len(l)
  <2> HIDE DEF F
  <2> QED BY <1>2, <1>3
<1>5. markConfirmed(l, t) = [i \in 1..Len(l) |-> F(i)]
  BY DEF markConfirmed
<1> QED
  BY <1>3, <1>4, <1>5

\* What a candidate of getMaturePendingTotals is.
LEMMA MatureTotals ==
  ASSUME NEW l \in Seq(PayoutLedgerEntity), NEW upTo \in Int,
         NEW c \in getMaturePendingTotals(l, upTo)
  PROVE  /\ c \in IPendingPayoutCandidate
         /\ c.maxRowId \in c.rows
         /\ c.rows = {i \in 1..Len(l) : /\ l[i].status = "PENDING"
                                        /\ l[i].blockHeight <= upTo
                                        /\ l[i].minerAddress = c.minerAddress}
         /\ \A i \in c.rows : i <= c.maxRowId
<1>1. PICK k \in MatureRows(l, upTo) :
        /\ \A j \in RowsOf(l, l[k].minerAddress, upTo) : j <= k
        /\ c = [minerAddress |-> l[k].minerAddress, maxRowId |-> k,
                rows |-> RowsOf(l, l[k].minerAddress, upTo)]
  BY DEF getMaturePendingTotals
<1>2. k \in 1..Len(l) /\ l[k] \in PayoutLedgerEntity
  BY DEF MatureRows, PendingRows
<1> QED
  BY <1>1, <1>2, SMTT(40) DEF RowsOf, MatureRows, PendingRows, IPendingPayoutCandidate,
                              PayoutLedgerEntity

-----------------------------------------------------------------------------
(* Type correctness                                                        *)

\* A slot at rest is well typed.
LEMMA IdleTypes == IdleCycle \in CycleState /\ IdleRecon \in ReconState
BY DEF IdleCycle, IdleRecon, CycleState, ReconState, CyclePc, ReconPc, NoTx

\* Replacing a slot's cycle by a well-typed one.
LEMMA SetCycleType ==
  ASSUME cycle \in [Slots -> CycleState], NEW s \in Slots, NEW r \in CycleState,
         SetCycle(s, r)
  PROVE  cycle' \in [Slots -> CycleState]
BY DEF SetCycle

\* The steps of a payout cycle keep every variable in its type.
LEMMA CycleStepType ==
  ASSUME PayoutTypeOK, NEW s \in Slots, CycleStep(s)
  PROVE  PayoutTypeOK'
<1> USE DEF PayoutTypeOK
<1>0. cycle[s] \in CycleState
  OBVIOUS
<1>e. EndCycle(s) => cycle' \in [Slots -> CycleState]
  BY IdleTypes, SetCycleType DEF EndCycle
<1>g. ASSUME NEW pc \in CyclePc, CycleGoto(s, pc)
      PROVE  cycle' \in [Slots -> CycleState]
  <2>1. [cycle[s] EXCEPT !.pc = pc] \in CycleState
    BY <1>0 DEF CycleState
  <2> QED BY <2>1, <1>g, SetCycleType DEF CycleGoto
<1>a. ASSUME NEW t \in Nat, AfterSend(s, t)
      PROVE  cycle' \in [Slots -> CycleState]
  <2>1. [cycle[s] EXCEPT !.pc = "lock", !.txid = t] \in CycleState
    BY <1>0 DEF CycleState, CyclePc
  <2>2. [cycle[s] EXCEPT !.pc = "mark", !.txid = t, !.todo = cycle[s].candidates]
          \in CycleState
    BY <1>0 DEF CycleState, CyclePc
  <2> QED BY <2>1, <2>2, <1>a, <1>e, SetCycleType DEF AfterSend
<1>b. ASSUME Broadcast(s) PROVE txs' \in Seq(Transaction)
  <2> DEFINE x == [candidates |-> cycle[s].candidates,
                   confirmations |-> 0, peak |-> 0]
  <2>1. x \in Transaction
    BY DEF Transaction, CycleState
  <2>2. txs' = Append(txs, x)
    BY <1>b DEF Broadcast
  <2> HIDE DEF x
  <2> QED BY <2>1, <2>2
<1>1. CASE TimerFires(s)
  BY <1>1, <1>g DEF TimerFires, CyclePc, ReconState, ReconPc
<1>2. CASE getMiningInfo(s)
  <2> DEFINE upTo == tip - Maturity + 1
  <2>1. [cycle[s] EXCEPT !.pc = "mature", !.matureUpToHeight = upTo] \in CycleState
    <3>1. upTo \in Int
      BY ConstantsAssumption
    <3> HIDE DEF upTo
    <3> QED BY <3>1, <1>0 DEF CycleState, CyclePc
  <2> QED BY <2>1, <1>2, SetCycleType DEF getMiningInfo
<1>3. CASE QueryMature(s)
  <2> DEFINE all == getMaturePendingTotals(ledger, cycle[s].matureUpToHeight)
  <2>1. all \subseteq IPendingPayoutCandidate
    <3>1. cycle[s].matureUpToHeight \in Int
      BY <1>0 DEF CycleState
    <3> QED BY <3>1, MatureTotals
  <2>2. EndCycle(s) \/ SetCycle(s, [cycle[s] EXCEPT !.pc = "overrides", !.candidates = all])
    BY <1>3 DEF QueryMature
  <2>3. [cycle[s] EXCEPT !.pc = "overrides", !.candidates = all] \in CycleState
    <3> HIDE DEF all
    <3> QED BY <2>1, <1>0 DEF CycleState, CyclePc
  <2>4. cycle' \in [Slots -> CycleState]
    BY <2>2, <2>3, <1>e, SetCycleType
  <2> QED BY <2>4, <1>3 DEF QueryMature
<1>4. CASE FilterByThreshold(s)
  <2> DEFINE some == AboveThreshold(cycle[s].candidates)
  <2>1. some \subseteq cycle[s].candidates
    BY DEF AboveThreshold
  <2>2. EndCycle(s) \/ SetCycle(s, [cycle[s] EXCEPT !.pc = "balance", !.candidates = some])
    BY <1>4 DEF FilterByThreshold
  <2>3. [cycle[s] EXCEPT !.pc = "balance", !.candidates = some] \in CycleState
    <3> HIDE DEF some
    <3> QED BY <2>1, <1>0 DEF CycleState, CyclePc
  <2>4. cycle' \in [Slots -> CycleState]
    BY <2>2, <2>3, <1>e, SetCycleType
  <2> QED BY <2>4, <1>4 DEF FilterByThreshold
<1>5. CASE \E covers \in BOOLEAN : CheckBalance(s, covers)
  BY <1>5, <1>e, <1>g DEF CheckBalance, CyclePc
<1>6. CASE ReadFails(s)
  BY <1>6, <1>e DEF ReadFails
<1>7. CASE walletpassphrase(s)
  BY <1>7, <1>g DEF walletpassphrase, CyclePc
<1>8. CASE WalletpassphraseFails(s)
  BY <1>8, <1>e DEF WalletpassphraseFails
<1>9. CASE sendmany(s)
  BY <1>9, <1>a, <1>b DEF sendmany
<1>10. CASE SendmanyRefused(s)
  BY <1>10, <1>a DEF SendmanyRefused, NoTx
<1>11. CASE SendmanyReplyLost(s)
  BY <1>11, <1>a, <1>b DEF SendmanyReplyLost, NoTx
<1>12. CASE FeeFallback(s)
  BY <1>12, <1>g DEF FeeFallback, CyclePc
<1>13. CASE \E works \in BOOLEAN : walletlock(s, works)
  <2>1. [cycle[s] EXCEPT !.pc = "mark", !.todo = cycle[s].candidates] \in CycleState
    BY <1>0 DEF CycleState, CyclePc
  <2> QED BY <2>1, <1>13, <1>e, SetCycleType DEF walletlock
<1>14. CASE \E c \in cycle[s].todo : MarkSent(s, c)
  <2>1. PICK c \in cycle[s].todo : MarkSent(s, c)
    BY <1>14
  <2>2. cycle' \in [Slots -> CycleState]
    <3>1. [cycle[s] EXCEPT !.todo = @ \ {c}] \in CycleState
      BY <1>0 DEF CycleState
    <3> QED BY <2>1, <3>1, <1>e, SetCycleType DEF MarkSent
  <2>3. ledger' \in Seq(PayoutLedgerEntity)
    BY <2>1, MarkSentType DEF MarkSent, CycleState
  <2> QED BY <2>1, <2>2, <2>3 DEF MarkSent
<1>15. CASE MarkFails(s)
  BY <1>15, <1>e DEF MarkFails
<1> QED
  BY <1>1, <1>2, <1>3, <1>4, <1>5, <1>6, <1>7, <1>8, <1>9, <1>10, <1>11, <1>12,
     <1>13, <1>14, <1>15 DEF CycleStep

\* The steps of the confirmation check keep every variable in its type.
LEMMA ReconStepType ==
  ASSUME PayoutTypeOK, NEW s \in Slots, ReconStep(s)
  PROVE  PayoutTypeOK'
<1> USE DEF PayoutTypeOK
<1>0. recon[s] \in ReconState
  OBVIOUS
<1>n. ASSUME NEW t, NextTxid(s, t) PROVE recon' \in [Slots -> ReconState]
  <2>1. [pc |-> "check", todo |-> recon[s].todo \ {t}, txid |-> NoTx] \in ReconState
    BY <1>0 DEF ReconState, ReconPc, NoTx
  <2> QED BY <2>1, <1>n, IdleTypes DEF NextTxid
<1>1. CASE ListSent(s)
  <2> DEFINE ids == getDistinctSentTxids(ledger)
  <2>1. ids \subseteq Nat
    <3>1. \A i \in 1..Len(ledger) : ledger[i] \in PayoutLedgerEntity
      BY ElementOfSeq
    <3> QED BY <3>1 DEF getDistinctSentTxids, PayoutLedgerEntity
  <2>2. [pc |-> "check", todo |-> ids, txid |-> NoTx] \in ReconState
    <3> HIDE DEF ids
    <3> QED BY <2>1 DEF ReconState, ReconPc, NoTx
  <2> QED BY <2>2, <1>1, IdleTypes DEF ListSent
<1>2. CASE \E t \in recon[s].todo : getConfirmations(s, t)
  <2>1. PICK t \in recon[s].todo : getConfirmations(s, t)
    BY <1>2
  <2>2. [recon[s] EXCEPT !.pc = "confirm", !.txid = t] \in ReconState
    BY <1>0 DEF ReconState, ReconPc
  <2> QED BY <2>1, <2>2, <1>n DEF getConfirmations
<1>3. CASE \E t \in recon[s].todo : CheckFails(s, t)
  BY <1>3, <1>n DEF CheckFails
<1>4. CASE MarkConfirmed(s)
  <2>1. ledger' \in Seq(PayoutLedgerEntity)
    BY <1>4, <1>0, MarkConfirmedType DEF MarkConfirmed, ReconState
  <2> QED BY <2>1, <1>4, <1>n DEF MarkConfirmed
<1> QED
  BY <1>1, <1>2, <1>3, <1>4 DEF ReconStep

\* So do the steps of everything else.
LEMMA AnyEnvType ==
  ASSUME PayoutTypeOK, AnyEnv
  PROVE  PayoutTypeOK'
<1> USE DEF PayoutTypeOK
<1>1. CASE \E m \in Miners, a \in Nat, h \in Nat : Credit(m, a, h)
  <2>1. PICK m \in Miners, a \in Nat, h \in Nat : Credit(m, a, h)
    BY <1>1
  <2> QED BY <2>1, CreditType DEF Credit
<1>2. CASE NewBlock
  BY <1>2 DEF NewBlock
<1>3. CASE \E m \in Miners, th \in Thresholds \cup {NoOverride} : updateSettings(m, th)
  BY <1>3 DEF updateSettings
<1>4. ASSUME NEW t \in 1..Len(txs), TxConfirmed(t) PROVE PayoutTypeOK'
  <2> DEFINE n == txs[t].confirmations + 1
             p == IF n > txs[t].peak THEN n ELSE txs[t].peak
             x == [txs[t] EXCEPT !.confirmations = n, !.peak = p]
  <2>1. txs[t] \in Transaction
    BY ElementOfSeq
  <2>2. n \in Nat /\ p \in Nat
    BY <2>1 DEF Transaction
  <2>3. x \in Transaction
    <3> HIDE DEF n, p
    <3> QED BY <2>1, <2>2 DEF Transaction
  <2>4. txs' = [txs EXCEPT ![t] = x]
    BY <1>4 DEF TxConfirmed
  <2>5. txs' \in Seq(Transaction)
    <3> HIDE DEF x
    <3> QED BY <2>3, <2>4, ExceptSeq
  <2> QED BY <2>5, <1>4 DEF TxConfirmed
<1>5. ASSUME NEW t \in 1..Len(txs), TxDisconnected(t) PROVE PayoutTypeOK'
  <2> DEFINE x == [txs[t] EXCEPT !.confirmations = 0]
  <2>1. txs[t] \in Transaction
    BY ElementOfSeq
  <2>2. x \in Transaction
    BY <2>1 DEF Transaction
  <2>3. txs' = [txs EXCEPT ![t] = x]
    BY <1>5 DEF TxDisconnected
  <2>4. txs' \in Seq(Transaction)
    <3> HIDE DEF x
    <3> QED BY <2>2, <2>3, ExceptSeq
  <2> QED BY <2>4, <1>5 DEF TxDisconnected
<1>6. CASE UnlockExpires
  BY <1>6 DEF UnlockExpires
<1>7. CASE PayoutCrash
  BY <1>7, IdleTypes DEF PayoutCrash
<1> QED
  BY <1>1, <1>2, <1>3, <1>4, <1>5, <1>6, <1>7 DEF AnyEnv, AroundStep

\* A step of the payout path, its credits and blocks unbounded, keeps every type.
LEMMA PayoutTypeStep ==
  ASSUME PayoutTypeOK, [AnyStep]_payoutVars
  PROVE  PayoutTypeOK'
<1>1. CASE AnyEnv
  BY <1>1, AnyEnvType
<1>2. CASE \E s \in Slots : CycleStep(s)
  BY <1>2, CycleStepType
<1>3. CASE \E s \in Slots : ReconStep(s)
  BY <1>3, ReconStepType
<1>4. CASE UNCHANGED payoutVars
  BY <1>4 DEF payoutVars, PayoutTypeOK
<1> QED BY <1>1, <1>2, <1>3, <1>4 DEF AnyStep

\* A fresh pool is well typed.
LEMMA PayoutTypeInit == PayoutInit => PayoutTypeOK
<1>1. << >> \in Seq(PayoutLedgerEntity) /\ << >> \in Seq(Transaction)
  BY EmptySeq
<1>2. PayoutInit => ledger \in Seq(PayoutLedgerEntity) /\ txs \in Seq(Transaction)
  BY <1>1, Zenon DEF PayoutInit
<1>3. PayoutInit => tip \in Nat
  BY DEF PayoutInit
<1>4. PayoutInit => unlocked \in BOOLEAN
  BY Zenon DEF PayoutInit
<1>5. PayoutInit => overrides \in [Miners -> Thresholds \cup {NoOverride}]
  BY DEF PayoutInit
<1>6. PayoutInit => cycle \in [Slots -> CycleState] /\ recon \in [Slots -> ReconState]
  BY IdleTypes DEF PayoutInit
<1> QED BY <1>2, <1>3, <1>4, <1>5, <1>6 DEF PayoutTypeOK

\* The bounds only restrict which credits and blocks come.
LEMMA NextIsAny ==
  ASSUME PayoutTypeOK, [PayoutNext]_payoutVars
  PROVE  [AnyStep]_payoutVars
<1>1. CASE BoundedCredit
  <2>1. Amounts \subseteq Nat /\ tip \in Nat
    BY ConstantsAssumption DEF PayoutTypeOK
  <2>2. PICK m \in Miners, a \in Amounts, h \in 1..tip : Credit(m, a, h)
    BY <1>1 DEF BoundedCredit
  <2>3. a \in Nat /\ h \in Nat
    BY <2>1
  <2> QED BY <2>2, <2>3 DEF AnyStep, AnyEnv
<1> QED BY <1>1 DEF PayoutNext, EnvStep, BoundedBlock, AnyStep, AnyEnv

\* Every variable of the payout path keeps its type (a row its ePayoutStatus, a cycle
\* and a check one of their steps), whatever fails and however cycles overlap.
THEOREM TypeCorrect == PayoutSpec => []PayoutTypeOK
<1>1. PayoutTypeOK /\ [PayoutNext]_payoutVars => PayoutTypeOK'
  BY NextIsAny, PayoutTypeStep
<1> QED
  BY <1>1, PayoutTypeInit, PTL DEF PayoutSpec

-----------------------------------------------------------------------------
(* What one step can do to the ledger, to the transactions and to a        *)
(* candidate computed earlier.                                             *)

\* credit keeps the existing rows; a new row is PENDING, without txid, at height h.
LEMMA CreditRows ==
  ASSUME NEW l \in Seq(PayoutLedgerEntity), NEW m \in Miners,
         NEW a \in Nat, NEW h \in Nat
  PROVE  /\ \A i \in 1..Len(l) : i \in 1..Len(credit(l, m, a, h))
                                 /\ credit(l, m, a, h)[i] = l[i]
         /\ \A i \in 1..Len(credit(l, m, a, h)) :
              i \in 1..Len(l) \/ /\ i = Len(l) + 1
                                 /\ credit(l, m, a, h)[i].status = "PENDING"
                                 /\ credit(l, m, a, h)[i].txid = NoTx
                                 /\ credit(l, m, a, h)[i].blockHeight = h
<1> DEFINE r == [minerAddress |-> m, blockHeight |-> h, amountSats |-> a,
                 status |-> "PENDING", txid |-> NoTx]
<1>1. r \in PayoutLedgerEntity
  BY DEF PayoutLedgerEntity, ePayoutStatus, NoTx
<1>2. r.status = "PENDING" /\ r.txid = NoTx /\ r.blockHeight = h
  OBVIOUS
<1>3. credit(l, m, a, h) = l \/ credit(l, m, a, h) = Append(l, r)
  BY DEF credit
<1> HIDE DEF r
<1>4. /\ Len(Append(l, r)) = Len(l) + 1 /\ Len(l) \in Nat
      /\ \A i \in 1..Len(l) : Append(l, r)[i] = l[i]
      /\ Append(l, r)[Len(l) + 1] = r
  BY <1>1, AppendProperties, LenProperties
<1> QED
  BY <1>2, <1>3, <1>4

\* markSentUpTo row by row.
LEMMA MarkSentRows ==
  ASSUME NEW l \in Seq(PayoutLedgerEntity), NEW m, NEW k, NEW t \in Nat,
         NEW i \in 1..Len(l)
  PROVE  LET r == markSentUpTo(l, m, k, t)[i]
             hit == l[i].minerAddress = m /\ i <= k /\ l[i].status = "PENDING"
         IN  /\ r.minerAddress = l[i].minerAddress /\ r.blockHeight = l[i].blockHeight
             /\ r.amountSats = l[i].amountSats
             /\ hit => r.status = "SENT" /\ r.txid = t
             /\ ~hit => r = l[i]
<1>1. l[i] \in PayoutLedgerEntity
  BY ElementOfSeq
<1> QED
  BY <1>1 DEF markSentUpTo, PayoutLedgerEntity

\* markConfirmed row by row.
LEMMA MarkConfirmedRows ==
  ASSUME NEW l \in Seq(PayoutLedgerEntity), NEW t \in Nat, NEW i \in 1..Len(l)
  PROVE  LET r == markConfirmed(l, t)[i]
             hit == l[i].txid = t /\ l[i].status = "SENT"
         IN  /\ r.minerAddress = l[i].minerAddress /\ r.blockHeight = l[i].blockHeight
             /\ r.amountSats = l[i].amountSats /\ r.txid = l[i].txid
             /\ hit => r.status = "CONFIRMED"
             /\ ~hit => r = l[i]
<1>1. l[i] \in PayoutLedgerEntity
  BY ElementOfSeq
<1> QED
  BY <1>1 DEF markConfirmed, PayoutLedgerEntity

\* Only three operations write to the ledger.
LEMMA LedgerWriters ==
  ASSUME [AnyStep]_payoutVars
  PROVE  \/ ledger' = ledger
         \/ \E m \in Miners, a \in Nat, h \in Nat : Credit(m, a, h)
         \/ \E s \in Slots : \E c \in cycle[s].todo : MarkSent(s, c)
         \/ \E s \in Slots : MarkConfirmed(s)
BY DEF AnyStep, payoutVars, AnyEnv, AroundStep, CycleStep, ReconStep, NewBlock, updateSettings,
       TxConfirmed, TxDisconnected, UnlockExpires, PayoutCrash, TimerFires, getMiningInfo,
       QueryMature, FilterByThreshold, CheckBalance, ReadFails, walletpassphrase,
       WalletpassphraseFails, sendmany, SendmanyRefused, SendmanyReplyLost,
       FeeFallback, walletlock, MarkFails, ListSent, getConfirmations, CheckFails

\* Only two kinds of steps write to the wallet's transactions.
LEMMA TxWriters ==
  ASSUME [AnyStep]_payoutVars
  PROVE  \/ txs' = txs
         \/ \E t \in 1..Len(txs) : TxConfirmed(t) \/ TxDisconnected(t)
         \/ \E s \in Slots : sendmany(s) \/ SendmanyReplyLost(s)
BY DEF AnyStep, payoutVars, AnyEnv, AroundStep, CycleStep, ReconStep, NewBlock, updateSettings, Credit,
       UnlockExpires, PayoutCrash, TimerFires, getMiningInfo,
       QueryMature, FilterByThreshold, CheckBalance, ReadFails, walletpassphrase,
       WalletpassphraseFails, SendmanyRefused, MarkSent, MarkConfirmed,
       FeeFallback, walletlock, MarkFails, ListSent, getConfirmations, CheckFails

\* The chain never gets shorter.
LEMMA HeightGrows ==
  ASSUME PayoutTypeOK, [AnyStep]_payoutVars
  PROVE  tip' >= tip
<1>1. tip' = tip \/ NewBlock
  BY DEF AnyStep, payoutVars, AnyEnv, AroundStep, CycleStep, ReconStep, updateSettings, Credit,
         TxConfirmed, TxDisconnected, UnlockExpires, PayoutCrash, TimerFires, getMiningInfo,
         QueryMature, FilterByThreshold, CheckBalance, ReadFails, walletpassphrase,
         WalletpassphraseFails, sendmany, SendmanyRefused, SendmanyReplyLost,
         FeeFallback, walletlock, MarkSent, MarkFails, ListSent, getConfirmations,
         CheckFails, MarkConfirmed
<1> QED
  BY <1>1 DEF NewBlock, PayoutTypeOK

\* The rows in the table before a step.
LedgerAdvances ==
  \A i \in 1..Len(ledger) :
    RowAdvances(i) /\ (ledger'[i].status = "PENDING" => ledger[i].status = "PENDING")

\* A step advances rows and changes nothing else of them.
LEMMA StepAdvances ==
  ASSUME PayoutTypeOK, LedgerInv, [AnyStep]_payoutVars
  PROVE  LedgerAdvances
<1> SUFFICES ASSUME NEW i \in 1..Len(ledger)
             PROVE  RowAdvances(i)
                    /\ (ledger'[i].status = "PENDING" => ledger[i].status = "PENDING")
  BY DEF LedgerAdvances
<1>0. /\ ledger \in Seq(PayoutLedgerEntity)
      /\ ledger[i].status \in {"PENDING", "SENT", "CONFIRMED"}
      /\ ledger[i].status = "PENDING" => ledger[i].txid = NoTx
  <2>1. ledger \in Seq(PayoutLedgerEntity)
    BY DEF PayoutTypeOK
  <2>2. ledger[i] \in PayoutLedgerEntity
    BY <2>1, ElementOfSeq
  <2> QED BY <2>1, <2>2 DEF LedgerInv, PayoutLedgerEntity, ePayoutStatus
<1>1. CASE ledger' = ledger
  BY <1>0, <1>1 DEF RowAdvances, Rank
<1>2. CASE \E m \in Miners, a \in Nat, h \in Nat : Credit(m, a, h)
  <2>1. PICK m \in Miners, a \in Nat, h \in Nat : Credit(m, a, h)
    BY <1>2
  <2>3. ledger'[i] = ledger[i] /\ i \in 1..Len(ledger')
    BY <2>1, <1>0, CreditRows DEF Credit
  <2> QED BY <2>3, <1>0 DEF RowAdvances, Rank
<1>3. CASE \E s \in Slots : \E c \in cycle[s].todo : MarkSent(s, c)
  <2>1. PICK s \in Slots : \E c \in cycle[s].todo : MarkSent(s, c)
    BY <1>3
  <2>2. PICK c \in cycle[s].todo : MarkSent(s, c)
    BY <2>1
  <2>3. cycle[s].txid \in Nat
    BY DEF PayoutTypeOK, CycleState
  <2>4. i \in 1..Len(ledger')
    BY <2>2, <2>3, <1>0, MarkSentType DEF MarkSent
  <2> QED BY <2>2, <2>3, <2>4, <1>0, MarkSentRows DEF MarkSent, RowAdvances, Rank
<1>4. CASE \E s \in Slots : MarkConfirmed(s)
  <2>1. PICK s \in Slots : MarkConfirmed(s)
    BY <1>4
  <2>2. recon[s].txid \in Nat
    BY DEF PayoutTypeOK, ReconState
  <2>3. i \in 1..Len(ledger')
    BY <2>1, <2>2, <1>0, MarkConfirmedType DEF MarkConfirmed
  <2> QED BY <2>1, <2>2, <2>3, <1>0, MarkConfirmedRows DEF MarkConfirmed, RowAdvances, Rank
<1> QED
  BY <1>1, <1>2, <1>3, <1>4, LedgerWriters

\* The wallet forgets no transaction and changes none of its outputs; a new one
\* carries the candidates of the cycle that sent it.
TxsAdvance ==
  /\ \A t \in 1..Len(txs) : /\ t \in 1..Len(txs')
                             /\ txs'[t].candidates = txs[t].candidates
                             /\ txs'[t].peak >= txs[t].peak
  /\ \A t \in 1..Len(txs') : t \in 1..Len(txs) \/
        /\ t = Len(txs) + 1
        /\ txs'[t].confirmations = 0 /\ txs'[t].peak = 0
        /\ \E s \in Slots : /\ cycle[s].pc \in Sending
                            /\ txs'[t].candidates = cycle[s].candidates
  /\ \A t \in 1..Len(txs) : txs[t].confirmations <= txs[t].peak
                             => txs'[t].confirmations <= txs'[t].peak

\* Every step advances the transactions that way: only sendmany adds one, and a
\* confirmation or a reorganisation changes nothing but the counts.
LEMMA StepTxsAdvance ==
  ASSUME PayoutTypeOK, [AnyStep]_payoutVars
  PROVE  TxsAdvance
<1>0. /\ txs \in Seq(Transaction) /\ Len(txs) \in Nat
      /\ \A t \in 1..Len(txs) : txs[t] \in Transaction
  BY ElementOfSeq, LenProperties DEF PayoutTypeOK
<1>1. CASE txs' = txs
  BY <1>0, <1>1 DEF TxsAdvance, Transaction
<1>2. CASE \E t \in 1..Len(txs) : TxConfirmed(t) \/ TxDisconnected(t)
  <2>1. PICK t \in 1..Len(txs) : TxConfirmed(t) \/ TxDisconnected(t)
    BY <1>2
  <2>2. txs[t] \in Transaction
    BY <1>0
  <2>3. /\ Len(txs') = Len(txs)
        /\ \A u \in 1..Len(txs) : u # t => txs'[u] = txs[u]
        /\ txs'[t].candidates = txs[t].candidates
        /\ txs'[t].peak >= txs[t].peak
        /\ txs[t].confirmations <= txs[t].peak => txs'[t].confirmations <= txs'[t].peak
    <3>1. CASE TxConfirmed(t)
      <4> DEFINE n == txs[t].confirmations + 1
                 p == IF n > txs[t].peak THEN n ELSE txs[t].peak
                 y == [txs[t] EXCEPT !.confirmations = n, !.peak = p]
      <4>1. txs' = [txs EXCEPT ![t] = y]
        BY <3>1 DEF TxConfirmed
      <4>2. y.candidates = txs[t].candidates /\ y.confirmations = n /\ y.peak = p
        BY <2>2 DEF Transaction
      <4>3. p >= txs[t].peak /\ n <= p
        BY <2>2 DEF Transaction
      <4> HIDE DEF n, p, y
      <4> QED BY <1>0, <4>1, <4>2, <4>3
    <3>2. CASE TxDisconnected(t)
      <4> DEFINE y == [txs[t] EXCEPT !.confirmations = 0]
      <4>1. txs' = [txs EXCEPT ![t] = y]
        BY <3>2 DEF TxDisconnected
      <4>2. /\ y.candidates = txs[t].candidates /\ y.confirmations = 0
            /\ y.peak = txs[t].peak /\ txs[t].peak \in Nat
        BY <2>2 DEF Transaction
      <4> HIDE DEF y
      <4> QED BY <1>0, <4>1, <4>2
    <3> QED BY <2>1, <3>1, <3>2
  <2>4. \A u \in 1..Len(txs) : txs[u].peak \in Nat
    BY <1>0 DEF Transaction
  <2> QED BY <2>3, <2>4, SMTT(40) DEF TxsAdvance
<1>3. CASE \E s \in Slots : sendmany(s) \/ SendmanyReplyLost(s)
  <2>1. PICK s \in Slots : sendmany(s) \/ SendmanyReplyLost(s)
    BY <1>3
  <2> DEFINE x == [candidates |-> cycle[s].candidates, confirmations |-> 0, peak |-> 0]
  <2>2. txs' = Append(txs, x) /\ cycle[s].pc \in Sending
    BY <2>1 DEF sendmany, SendmanyReplyLost, Broadcast
  <2>3. x.candidates = cycle[s].candidates /\ x.confirmations = 0 /\ x.peak = 0
    OBVIOUS
  <2>4. x \in Transaction
    BY DEF PayoutTypeOK, CycleState, Transaction
  <2> HIDE DEF x
  <2>5. /\ Len(txs') = Len(txs) + 1 /\ txs'[Len(txs) + 1] = x
        /\ \A t \in 1..Len(txs) : txs'[t] = txs[t]
    BY <1>0, <2>2, <2>4, AppendProperties
  <2>6. \A u \in 1..Len(txs) : txs[u].peak \in Nat
    BY <1>0 DEF Transaction
  <2> QED BY <1>0, <2>2, <2>3, <2>5, <2>6 DEF TxsAdvance
<1> QED
  BY <1>1, <1>2, <1>3, TxWriters

\* The facts about the table that arithmetic on it needs.
LEMMA LedgerFacts ==
  ASSUME PayoutTypeOK
  PROVE  /\ ledger \in Seq(PayoutLedgerEntity)
         /\ Len(ledger) \in Nat
         /\ tip \in Nat /\ Maturity \in Nat
         /\ \A i \in 1..Len(ledger) : ledger[i].blockHeight \in Nat
<1>1. ledger \in Seq(PayoutLedgerEntity) /\ tip \in Nat
  BY DEF PayoutTypeOK
<1>2. Len(ledger) \in Nat
  BY <1>1, LenProperties
<1>3. \A i \in 1..Len(ledger) : ledger[i] \in PayoutLedgerEntity
  BY <1>1, ElementOfSeq
<1>4. Maturity \in Nat
  BY ConstantsAssumption
<1> QED
  BY <1>1, <1>2, <1>3, <1>4 DEF PayoutLedgerEntity

\* A candidate computed earlier stays grounded, and goes on covering the rows it
\* will mark: rows only leave PENDING, and new rows are above its cutoff.
LEMMA CandidateStable ==
  ASSUME PayoutTypeOK, PayoutTypeOK', LedgerAdvances, tip' >= tip,
         NEW c \in IPendingPayoutCandidate, Grounded(c)
  PROVE  Grounded(c)' /\ (Covered(c) => Covered(c)')
<1>0. /\ Len(ledger) \in Nat /\ Len(ledger') \in Nat
      /\ tip \in Nat /\ tip' \in Nat /\ Maturity \in Nat
      /\ \A i \in 1..Len(ledger) : ledger[i].blockHeight \in Nat
  BY LedgerFacts, LenProperties DEF PayoutTypeOK
<1>1. \A i \in 1..Len(ledger) :
        /\ i \in 1..Len(ledger')
        /\ ledger'[i].minerAddress = ledger[i].minerAddress
        /\ ledger'[i].blockHeight = ledger[i].blockHeight
        /\ ledger[i].blockHeight \in Nat
        /\ ledger'[i].status = "PENDING" => ledger[i].status = "PENDING"
  BY <1>0 DEF LedgerAdvances, RowAdvances
<1>2. Grounded(c)'
  BY <1>0, <1>1, SMTT(40) DEF Grounded
<1>3. ASSUME Covered(c) PROVE Covered(c)'
  BY <1>0, <1>1, <1>3 DEF Grounded, Covered, IPendingPayoutCandidate
<1> QED
  BY <1>2, <1>3

\* A fresh candidate is grounded; with ordered credits it covers its rows.
LEMMA CandidateFresh ==
  ASSUME PayoutTypeOK, HeightsInv, NEW upTo \in Int, upTo + Maturity <= tip + 1,
         NEW c \in getMaturePendingTotals(ledger, upTo)
  PROVE  Grounded(c) /\ (OrderedCredits => Covered(c))
<1>0. /\ ledger \in Seq(PayoutLedgerEntity) /\ Len(ledger) \in Nat
      /\ tip \in Nat /\ Maturity \in Nat
      /\ \A i \in 1..Len(ledger) : ledger[i].blockHeight \in Nat
  BY LedgerFacts
<1>1. /\ c.maxRowId \in c.rows
      /\ c.rows = {i \in 1..Len(ledger) : /\ ledger[i].status = "PENDING"
                                          /\ ledger[i].blockHeight <= upTo
                                          /\ ledger[i].minerAddress = c.minerAddress}
      /\ \A i \in c.rows : i <= c.maxRowId
  BY <1>0, MatureTotals
<1>2. Grounded(c)
  BY <1>0, <1>1 DEF Grounded
<1>3. ASSUME OrderedCredits PROVE Covered(c)
  BY <1>0, <1>1, <1>3 DEF HeightsInv, Covered
<1> QED
  BY <1>2, <1>3

-----------------------------------------------------------------------------
(* The inductive invariant                                                 *)

\* The invariant holds of the empty tables and the idle slots the pool starts with.
LEMMA PayoutInvInit == PayoutInit => PayoutInv
<1> SUFFICES ASSUME PayoutInit PROVE PayoutInv
  OBVIOUS
<1>1. ledger = << >> /\ txs = << >> /\ 1..Len(ledger) = {} /\ 1..Len(txs) = {}
  BY EmptySeq DEF PayoutInit
<1>2. LedgerInv /\ HeightsInv /\ TxsInv /\ SentRowsWerePaid /\ ConfirmedWasConfirmed
  BY <1>1 DEF LedgerInv, HeightsInv, TxsInv, SentRowsWerePaid, ConfirmedWasConfirmed
<1>3. \A s \in Slots : cycle[s] = IdleCycle /\ recon[s] = IdleRecon
  BY DEF PayoutInit
<1>4. \A s \in Slots : CycleOK(s)
  BY <1>3 DEF CycleOK, IdleCycle
<1>5. \A s \in Slots : ReconOK(s)
  BY <1>3 DEF ReconOK, IdleRecon
<1> QED
  BY <1>2, <1>4, <1>5 DEF PayoutInv

\* A slot whose cycle the step does not touch.
LEMMA CycleOKStable ==
  ASSUME PayoutTypeOK, PayoutTypeOK', LedgerAdvances, TxsAdvance, tip' >= tip,
         NEW s \in Slots, CycleOK(s), cycle'[s] = cycle[s]
  PROVE  CycleOK(s)'
<1>1. \A c \in cycle[s].candidates : c \in IPendingPayoutCandidate
  BY DEF PayoutTypeOK, CycleState
<1>2. \A c \in cycle'[s].candidates : Grounded(c)' /\ (OrderedCredits => Covered(c)')
  BY <1>1, CandidateStable DEF CycleOK
<1>3. cycle'[s].pc = "mature" => cycle'[s].matureUpToHeight + Maturity <= tip' + 1
  <2>1. cycle[s].matureUpToHeight \in Int /\ tip \in Nat /\ tip' \in Nat
        /\ Maturity \in Nat
    BY LedgerFacts DEF PayoutTypeOK, CycleState
  <2>2. cycle[s].pc = "mature" => cycle[s].matureUpToHeight + Maturity <= tip + 1
    BY DEF CycleOK
  <2> QED BY <2>1, <2>2
<1>4. cycle'[s].txid # NoTx =>
        /\ cycle'[s].txid \in 1..Len(txs')
        /\ cycle'[s].candidates = txs'[cycle'[s].txid].candidates
  BY DEF CycleOK, TxsAdvance
<1> QED
  BY <1>2, <1>3, <1>4 DEF CycleOK

\* A slot whose check the step does not touch.
LEMMA ReconOKStable ==
  ASSUME PayoutTypeOK, PayoutTypeOK', TxsAdvance, NEW s \in Slots, ReconOK(s), recon'[s] = recon[s]
  PROVE  ReconOK(s)'
<1>1. \A t \in 1..Len(txs) : txs[t].peak \in Nat /\ txs'[t].peak \in Nat
  <2>1. \A t \in 1..Len(txs) : txs[t] \in Transaction /\ txs'[t] \in Transaction
    BY ElementOfSeq DEF PayoutTypeOK, TxsAdvance
  <2> QED BY <2>1 DEF Transaction
<1>2. Confirmations \in Nat
  BY ConstantsAssumption
<1> QED
  BY <1>1, <1>2 DEF ReconOK, TxsAdvance

\* The cycle that takes a step keeps its part of the invariant.
LEMMA CycleStepOK ==
  ASSUME PayoutTypeOK, PayoutTypeOK', LedgerAdvances, TxsAdvance, tip' >= tip,
         HeightsInv, NEW s \in Slots, CycleOK(s), CycleStep(s)
  PROVE  CycleOK(s)'
<1>0. cycle[s] \in CycleState /\ Maturity \in Nat /\ tip \in Nat
  BY LedgerFacts DEF PayoutTypeOK
<1>1. \A c \in cycle[s].candidates : Grounded(c)' /\ (OrderedCredits => Covered(c)')
  BY <1>0, CandidateStable DEF CycleOK, CycleState
<1>s. ASSUME NEW r, SetCycle(s, r) PROVE cycle'[s] = r
  BY <1>s DEF SetCycle, PayoutTypeOK
<1>e. ASSUME EndCycle(s) PROVE CycleOK(s)'
  <2>1. cycle'[s] = IdleCycle
    BY <1>e, <1>s DEF EndCycle
  <2> QED BY <2>1 DEF CycleOK, IdleCycle
<1>g. ASSUME NEW pc, CycleGoto(s, pc), pc \notin {"mature", "mark"},
             cycle[s].pc \notin {"lock", "mark"}
      PROVE  CycleOK(s)'
  <2>1. cycle'[s] = [cycle[s] EXCEPT !.pc = pc]
    BY <1>g, <1>s DEF CycleGoto
  <2>2. /\ cycle'[s].pc = pc /\ cycle'[s].candidates = cycle[s].candidates
        /\ cycle'[s].txid = cycle[s].txid /\ cycle'[s].todo = cycle[s].todo
    BY <2>1, <1>0 DEF CycleState
  <2>3. cycle[s].txid = NoTx /\ cycle[s].todo = {}
    BY <1>g DEF CycleOK
  <2> QED BY <2>2, <2>3, <1>g, <1>1 DEF CycleOK
<1>a. ASSUME NEW t \in Nat, AfterSend(s, t), cycle[s].pc \in Sending,
             t # NoTx => t \in 1..Len(txs') /\ txs'[t].candidates = cycle[s].candidates
      PROVE  CycleOK(s)'
  <2>1. CASE SetCycle(s, [cycle[s] EXCEPT !.pc = "lock", !.txid = t])
    <3>1. cycle'[s] = [cycle[s] EXCEPT !.pc = "lock", !.txid = t]
      BY <2>1, <1>s
    <3> QED BY <3>1, <1>a, <1>0, <1>1 DEF CycleOK, CycleState, Sending
  <2>2. CASE t # NoTx /\ SetCycle(s, [cycle[s] EXCEPT !.pc = "mark", !.txid = t,
                                                  !.todo = cycle[s].candidates])
    <3>1. cycle'[s] = [cycle[s] EXCEPT !.pc = "mark", !.txid = t,
                                       !.todo = cycle[s].candidates]
      BY <2>2, <1>s
    <3> QED BY <3>1, <2>2, <1>a, <1>0, <1>1 DEF CycleOK, CycleState
  <2> QED BY <2>1, <2>2, <1>a, <1>e DEF AfterSend
<1>b. ASSUME Broadcast(s)
      PROVE  /\ Len(txs) + 1 \in 1..Len(txs')
             /\ txs'[Len(txs) + 1].candidates = cycle[s].candidates
  <2> DEFINE x == [candidates |-> cycle[s].candidates, confirmations |-> 0, peak |-> 0]
  <2>1. txs' = Append(txs, x)
    BY <1>b DEF Broadcast
  <2>2. x.candidates = cycle[s].candidates
    OBVIOUS
  <2> HIDE DEF x
  <2> QED BY <2>1, <2>2 DEF PayoutTypeOK
<1>2. CASE TimerFires(s)
  BY <1>2, <1>g DEF TimerFires, CycleOK
<1>3. CASE getMiningInfo(s)
  <2> DEFINE upTo == tip - Maturity + 1
  <2>1. cycle'[s] = [cycle[s] EXCEPT !.pc = "mature", !.matureUpToHeight = upTo]
    BY <1>3, <1>s DEF getMiningInfo
  <2>2. upTo + Maturity <= tip' + 1
    BY <1>0, <1>3 DEF getMiningInfo
  <2> HIDE DEF upTo
  <2> QED BY <2>1, <2>2, <1>0, <1>1, <1>3 DEF CycleOK, CycleState, getMiningInfo
<1>4. CASE QueryMature(s)
  <2> DEFINE all == getMaturePendingTotals(ledger, cycle[s].matureUpToHeight)
  <2>1. CASE EndCycle(s)
    BY <2>1, <1>e
  <2>2. CASE SetCycle(s, [cycle[s] EXCEPT !.pc = "overrides", !.candidates = all])
    <3>1. \A c \in all : Grounded(c) /\ (OrderedCredits => Covered(c))
      BY <1>0, <1>4, CandidateFresh DEF QueryMature, CycleOK, CycleState
    <3>2. \A c \in all : c \in IPendingPayoutCandidate
      BY <1>0, LedgerFacts, MatureTotals DEF CycleState
    <3> HIDE DEF all
    <3>3. \A c \in all : Grounded(c)' /\ (OrderedCredits => Covered(c)')
      BY <3>1, <3>2, CandidateStable
    <3>4. cycle'[s] = [cycle[s] EXCEPT !.pc = "overrides", !.candidates = all]
      BY <2>2, <1>s
    <3>5. cycle[s].todo = {} /\ cycle[s].txid = NoTx
      BY <1>4 DEF CycleOK, QueryMature
    <3> QED BY <3>3, <3>4, <3>5, <1>0 DEF CycleOK, CycleState
  <2> QED BY <2>1, <2>2, <1>4 DEF QueryMature
<1>5. CASE FilterByThreshold(s)
  <2> DEFINE some == AboveThreshold(cycle[s].candidates)
  <2>1. some \subseteq cycle[s].candidates
    BY DEF AboveThreshold
  <2>2. CASE EndCycle(s)
    BY <2>2, <1>e
  <2>3. CASE SetCycle(s, [cycle[s] EXCEPT !.pc = "balance", !.candidates = some])
    <3> HIDE DEF some
    <3>1. cycle'[s] = [cycle[s] EXCEPT !.pc = "balance", !.candidates = some]
      BY <2>3, <1>s
    <3>2. cycle[s].todo = {} /\ cycle[s].txid = NoTx
      BY <1>5 DEF CycleOK, FilterByThreshold
    <3> QED BY <2>1, <3>1, <3>2, <1>0, <1>1 DEF CycleOK, CycleState
  <2> QED BY <2>2, <2>3, <1>5 DEF FilterByThreshold
<1>6. CASE \E covers \in BOOLEAN : CheckBalance(s, covers)
  BY <1>6, <1>e, <1>g DEF CheckBalance, CycleOK
<1>7. CASE ReadFails(s)
  BY <1>7, <1>e DEF ReadFails
<1>8. CASE walletpassphrase(s)
  BY <1>8, <1>g DEF walletpassphrase, CycleOK
<1>9. CASE WalletpassphraseFails(s)
  BY <1>9, <1>e DEF WalletpassphraseFails
<1>10. CASE sendmany(s)
  BY <1>10, <1>a, <1>b DEF sendmany, PayoutTypeOK
<1>11. CASE SendmanyRefused(s)
  BY <1>11, <1>a DEF SendmanyRefused, NoTx
<1>12. CASE SendmanyReplyLost(s)
  BY <1>12, <1>a DEF SendmanyReplyLost, NoTx
<1>13. CASE FeeFallback(s)
  BY <1>13, <1>g DEF FeeFallback, CycleOK
<1>14. CASE \E works \in BOOLEAN : walletlock(s, works)
  <2>1. CASE EndCycle(s)
    BY <2>1, <1>e
  <2>2. CASE /\ cycle[s].txid # NoTx /\ txs' = txs
             /\ SetCycle(s, [cycle[s] EXCEPT !.pc = "mark", !.todo = cycle[s].candidates])
    <3>1. cycle'[s] = [cycle[s] EXCEPT !.pc = "mark", !.todo = cycle[s].candidates]
      BY <2>2, <1>s
    <3> QED BY <3>1, <2>2, <1>0, <1>1 DEF CycleOK, CycleState
  <2> QED BY <2>1, <2>2, <1>14 DEF walletlock
<1>15. CASE \E c \in cycle[s].todo : MarkSent(s, c)
  <2>1. PICK c \in cycle[s].todo : MarkSent(s, c)
    BY <1>15
  <2>2. CASE EndCycle(s)
    BY <2>2, <1>e
  <2>3. CASE SetCycle(s, [cycle[s] EXCEPT !.todo = @ \ {c}])
    <3>1. cycle'[s] = [cycle[s] EXCEPT !.todo = @ \ {c}]
      BY <2>3, <1>s
    <3> QED BY <3>1, <2>1, <1>0, <1>1 DEF CycleOK, CycleState, MarkSent
  <2> QED BY <2>1, <2>2, <2>3 DEF MarkSent
<1>16. CASE MarkFails(s)
  BY <1>16, <1>e DEF MarkFails
<1> QED
  BY <1>2, <1>3, <1>4, <1>5, <1>6, <1>7, <1>8, <1>9, <1>10, <1>11, <1>12,
     <1>13, <1>14, <1>15, <1>16 DEF CycleStep

\* The check that takes a step keeps its part of the invariant.
LEMMA ReconStepOK ==
  ASSUME PayoutTypeOK, LedgerInv, TxsInv, NEW s \in Slots, ReconOK(s), ReconStep(s)
  PROVE  ReconOK(s)'
<1>0. recon[s] \in ReconState /\ recon \in [Slots -> ReconState]
  BY DEF PayoutTypeOK
<1>n. ASSUME NEW t, NextTxid(s, t), txs' = txs PROVE ReconOK(s)'
  <2>1. recon'[s] = IdleRecon \/
        recon'[s] = [pc |-> "check", todo |-> recon[s].todo \ {t}, txid |-> NoTx]
    BY <1>n, <1>0 DEF NextTxid
  <2> QED BY <2>1, <1>n DEF ReconOK, IdleRecon
<1>1. CASE ListSent(s)
  <2> DEFINE ids == getDistinctSentTxids(ledger)
  <2>1. ids \subseteq 1..Len(txs)
    BY DEF getDistinctSentTxids, LedgerInv
  <2>2. /\ txs' = txs
        /\ \/ recon'[s] = IdleRecon
           \/ recon'[s] = [pc |-> "check", todo |-> ids, txid |-> NoTx]
    BY <1>0, <1>1 DEF ListSent
  <2> HIDE DEF ids
  <2> QED BY <2>1, <2>2 DEF ReconOK, IdleRecon
<1>2. CASE \E t \in recon[s].todo : getConfirmations(s, t)
  <2>1. PICK t \in recon[s].todo : getConfirmations(s, t)
    BY <1>2
  <2>2. t \in 1..Len(txs) /\ txs' = txs
    BY <2>1 DEF ReconOK, getConfirmations
  <2>3. txs[t] \in Transaction /\ Confirmations \in Nat
    BY <2>2, ElementOfSeq, ConstantsAssumption DEF PayoutTypeOK
  <2>4. CASE txs[t].confirmations >= Confirmations
    <3>1. txs[t].peak >= Confirmations
      BY <2>2, <2>3, <2>4 DEF TxsInv, Transaction
    <3>2. recon'[s] = [recon[s] EXCEPT !.pc = "confirm", !.txid = t]
      BY <1>0, <2>1, <2>4 DEF getConfirmations
    <3> QED BY <3>1, <3>2, <2>1, <2>2, <1>0 DEF ReconOK, ReconState
  <2> QED BY <2>1, <2>2, <2>4, <1>n DEF getConfirmations
<1>3. CASE \E t \in recon[s].todo : CheckFails(s, t)
  BY <1>3, <1>n DEF CheckFails
<1>4. CASE MarkConfirmed(s)
  BY <1>4, <1>n DEF MarkConfirmed
<1> QED
  BY <1>1, <1>2, <1>3, <1>4 DEF ReconStep

\* Every slot keeps its part of the invariant over every step.
LEMMA SlotsStep ==
  ASSUME PayoutTypeOK, PayoutTypeOK', PayoutInv, [AnyStep]_payoutVars,
         LedgerAdvances, TxsAdvance, tip' >= tip
  PROVE  \A s \in Slots : CycleOK(s)' /\ ReconOK(s)'
<1> SUFFICES ASSUME NEW u \in Slots PROVE CycleOK(u)' /\ ReconOK(u)'
  OBVIOUS
<1>0. /\ LedgerInv /\ HeightsInv /\ TxsInv /\ CycleOK(u) /\ ReconOK(u)
      /\ cycle \in [Slots -> CycleState] /\ recon \in [Slots -> ReconState]
  BY DEF PayoutInv, PayoutTypeOK
<1>1. CASE \E s \in Slots : CycleStep(s)
  <2>1. PICK s \in Slots : CycleStep(s)
    BY <1>1
  <2>2. u # s => cycle'[u] = cycle[u] /\ recon'[u] = recon[u]
    BY <1>0, <2>1 DEF CycleStep, TimerFires, getMiningInfo, QueryMature, FilterByThreshold,
       CheckBalance, ReadFails, walletpassphrase, WalletpassphraseFails, sendmany,
       SendmanyRefused, SendmanyReplyLost, FeeFallback, walletlock, MarkSent,
       MarkFails, AfterSend, CycleGoto, EndCycle, SetCycle
  <2>3. u = s => CycleOK(u)'
    BY <1>0, <2>1, CycleStepOK
  <2>4. u = s => ReconOK(u)'
    <3>1. recon' = recon \/ TimerFires(s)
      BY <2>1 DEF CycleStep, getMiningInfo, QueryMature, FilterByThreshold,
         CheckBalance, ReadFails, walletpassphrase, WalletpassphraseFails, sendmany,
         SendmanyRefused, SendmanyReplyLost, FeeFallback, walletlock, MarkSent, MarkFails
    <3>2. CASE TimerFires(s)
      <4>1. recon'[s] = [recon[s] EXCEPT !.pc = "list"] /\ txs' = txs
        BY <3>2, <1>0 DEF TimerFires
      <4>2. recon[s] \in ReconState
        BY <1>0
      <4> QED BY <4>1, <4>2, <1>0 DEF ReconOK, ReconState
    <3> QED BY <3>1, <3>2, <1>0, ReconOKStable
  <2> QED BY <2>2, <2>3, <2>4, <1>0, CycleOKStable, ReconOKStable
<1>2. CASE \E s \in Slots : ReconStep(s)
  <2>1. PICK s \in Slots : ReconStep(s)
    BY <1>2
  <2>2. cycle' = cycle /\ (u # s => recon'[u] = recon[u])
    BY <1>0, <2>1 DEF ReconStep, ListSent, getConfirmations, CheckFails, MarkConfirmed, NextTxid
  <2>3. u = s => ReconOK(u)'
    BY <1>0, <2>1, ReconStepOK
  <2> QED BY <2>2, <2>3, <1>0, CycleOKStable, ReconOKStable
<1>3. CASE PayoutCrash
  <2>1. cycle'[u] = IdleCycle /\ recon'[u] = IdleRecon
    BY <1>3 DEF PayoutCrash
  <2>2. CycleOK(u)'
    BY <2>1 DEF CycleOK, IdleCycle
  <2>3. ReconOK(u)'
    BY <2>1 DEF ReconOK, IdleRecon
  <2> QED BY <2>2, <2>3
<1>4. CASE (AnyEnv /\ ~PayoutCrash) \/ UNCHANGED payoutVars
  <2>1. cycle' = cycle /\ recon' = recon
    BY <1>4 DEF AnyEnv, AroundStep, payoutVars, Credit, NewBlock, updateSettings, TxConfirmed,
       TxDisconnected, UnlockExpires
  <2> QED BY <2>1, <1>0, CycleOKStable, ReconOKStable
<1> QED
  BY <1>1, <1>2, <1>3, <1>4 DEF AnyStep

\* Three writers, one table: what is PENDING has no txid, what is not has a txid of
\* the wallet.
LEMMA LedgerInvStep ==
  ASSUME PayoutTypeOK, PayoutTypeOK', PayoutInv, [AnyStep]_payoutVars, TxsAdvance
  PROVE  LedgerInv'
<1> SUFFICES ASSUME NEW i \in 1..Len(ledger')
             PROVE  /\ ledger'[i].status = "PENDING" => ledger'[i].txid = NoTx
                    /\ ledger'[i].status # "PENDING" => ledger'[i].txid \in 1..Len(txs')
  BY DEF LedgerInv
<1>0. /\ ledger \in Seq(PayoutLedgerEntity)
      /\ \A j \in 1..Len(ledger) :
           /\ ledger[j].status = "PENDING" => ledger[j].txid = NoTx
           /\ ledger[j].status # "PENDING" => ledger[j].txid \in 1..Len(txs')
  BY DEF PayoutInv, LedgerInv, TxsAdvance, PayoutTypeOK
<1>1. CASE ledger' = ledger
  BY <1>0, <1>1
<1>2. CASE \E m \in Miners, a \in Nat, h \in Nat : Credit(m, a, h)
  <2>1. PICK m \in Miners, a \in Nat, h \in Nat : Credit(m, a, h)
    BY <1>2
  <2> QED BY <2>1, <1>0, CreditRows DEF Credit
<1>3. CASE \E s \in Slots : \E c \in cycle[s].todo : MarkSent(s, c)
  <2>1. PICK s \in Slots : \E c \in cycle[s].todo : MarkSent(s, c)
    BY <1>3
  <2>2. PICK c \in cycle[s].todo : MarkSent(s, c)
    BY <2>1
  <2>3. cycle[s].txid \in Nat /\ cycle[s].txid \in 1..Len(txs')
    BY <2>2 DEF PayoutTypeOK, CycleState, PayoutInv, CycleOK, MarkSent, TxsAdvance
  <2>4. i \in 1..Len(ledger)
    BY <2>2, <2>3, <1>0, MarkSentType DEF MarkSent
  <2> QED BY <2>2, <2>3, <2>4, <1>0, MarkSentRows DEF MarkSent
<1>4. CASE \E s \in Slots : MarkConfirmed(s)
  <2>1. PICK s \in Slots : MarkConfirmed(s)
    BY <1>4
  <2>2. recon[s].txid \in Nat
    BY DEF PayoutTypeOK, ReconState
  <2>3. i \in 1..Len(ledger)
    BY <2>1, <2>2, <1>0, MarkConfirmedType DEF MarkConfirmed
  <2> QED BY <2>1, <2>2, <2>3, <1>0, MarkConfirmedRows DEF MarkConfirmed
<1> QED
  BY <1>1, <1>2, <1>3, <1>4, LedgerWriters

\* Ordered credits keep ids and heights in agreement.
LEMMA HeightsInvStep ==
  ASSUME PayoutTypeOK, PayoutTypeOK', PayoutInv, [AnyStep]_payoutVars, LedgerAdvances
  PROVE  HeightsInv'
<1> SUFFICES ASSUME OrderedCredits, NEW i \in 1..Len(ledger'), NEW j \in 1..Len(ledger'), i <= j
             PROVE  ledger'[i].blockHeight <= ledger'[j].blockHeight
  BY DEF HeightsInv
<1>0. /\ ledger \in Seq(PayoutLedgerEntity) /\ Len(ledger) \in Nat
      /\ \A k \in 1..Len(ledger) : ledger[k].blockHeight \in Nat
      /\ \A k, n \in 1..Len(ledger) :
           k <= n => ledger[k].blockHeight <= ledger[n].blockHeight
      /\ \A k \in 1..Len(ledger) : ledger'[k].blockHeight = ledger[k].blockHeight
  BY LedgerFacts DEF PayoutInv, HeightsInv, LedgerAdvances, RowAdvances
<1>1. CASE Len(ledger') = Len(ledger)
  BY <1>0, <1>1
<1>2. CASE \E m \in Miners, a \in Nat, h \in Nat : Credit(m, a, h)
  <2>1. PICK m \in Miners, a \in Nat, h \in Nat : Credit(m, a, h)
    BY <1>2
  <2>3. \A k \in 1..Len(ledger) : ledger[k].blockHeight <= h
    BY <2>1 DEF Credit
  <2>4. \A k \in 1..Len(ledger') :
          k \in 1..Len(ledger) \/ (k = Len(ledger) + 1 /\ ledger'[k].blockHeight = h)
    BY <2>1, <1>0, CreditRows DEF Credit
  <2> QED BY <1>0, <2>3, <2>4, SMTT(40)
<1>3. CASE \E s \in Slots : \E c \in cycle[s].todo : MarkSent(s, c)
  <2>1. Len(ledger') = Len(ledger)
    BY <1>0, <1>3, MarkSentType DEF MarkSent, PayoutTypeOK, CycleState
  <2> QED BY <2>1, <1>1
<1>4. CASE \E s \in Slots : MarkConfirmed(s)
  <2>1. Len(ledger') = Len(ledger)
    BY <1>0, <1>4, MarkConfirmedType DEF MarkConfirmed, PayoutTypeOK, ReconState
  <2> QED BY <2>1, <1>1
<1> QED
  BY <1>1, <1>2, <1>3, <1>4, LedgerWriters

\* The outputs of a transaction stay grounded, those of a new one come from a cycle.
LEMMA TxsInvStep ==
  ASSUME PayoutTypeOK, PayoutTypeOK', PayoutInv, LedgerAdvances, TxsAdvance, tip' >= tip
  PROVE  TxsInv'
<1> SUFFICES ASSUME NEW t \in 1..Len(txs')
             PROVE  /\ \A c \in txs'[t].candidates : Grounded(c)'
                    /\ txs'[t].confirmations <= txs'[t].peak
  BY DEF TxsInv
<1>1. CASE t \in 1..Len(txs)
  <2>1. txs[t] \in Transaction
    BY <1>1, ElementOfSeq DEF PayoutTypeOK
  <2>2. \A c \in txs'[t].candidates : c \in IPendingPayoutCandidate /\ Grounded(c)
    BY <1>1, <2>1 DEF TxsAdvance, Transaction, PayoutInv, TxsInv
  <2>3. txs'[t].confirmations <= txs'[t].peak
    BY <1>1 DEF TxsAdvance, PayoutInv, TxsInv
  <2> QED BY <2>2, <2>3, CandidateStable
<1>2. CASE t \notin 1..Len(txs)
  <2>1. PICK s \in Slots : txs'[t].candidates = cycle[s].candidates
    BY <1>2 DEF TxsAdvance
  <2>2. \A c \in txs'[t].candidates : c \in IPendingPayoutCandidate /\ Grounded(c)
    BY <2>1 DEF PayoutInv, CycleOK, PayoutTypeOK, CycleState
  <2>3. txs'[t].confirmations <= txs'[t].peak
    BY <1>2 DEF TxsAdvance
  <2> QED BY <2>2, <2>3, CandidateStable
<1> QED
  BY <1>1, <1>2

\* A row leaves PENDING only through the candidate that contains it.
LEMMA SentRowsStep ==
  ASSUME PayoutTypeOK, PayoutTypeOK', PayoutInv, [AnyStep]_payoutVars, OrderedCredits, TxsAdvance
  PROVE  SentRowsWerePaid'
<1> DEFINE Paid(i, l, x) == /\ l[i].txid \in 1..Len(x)
                            /\ \E c \in x[l[i].txid].candidates :
                                 c.minerAddress = l[i].minerAddress /\ i \in c.rows
<1> SUFFICES ASSUME NEW i \in 1..Len(ledger'), ledger'[i].status # "PENDING"
             PROVE  Paid(i, ledger', txs')
  BY DEF SentRowsWerePaid
<1>0. /\ ledger \in Seq(PayoutLedgerEntity)
      /\ \A j \in 1..Len(ledger) : ledger[j].status # "PENDING" => Paid(j, ledger, txs')
  BY DEF PayoutInv, SentRowsWerePaid, TxsAdvance, PayoutTypeOK
<1>1. CASE ledger' = ledger
  BY <1>0, <1>1
<1>2. CASE \E m \in Miners, a \in Nat, h \in Nat : Credit(m, a, h)
  <2>1. PICK m \in Miners, a \in Nat, h \in Nat : Credit(m, a, h)
    BY <1>2
  <2>2. ledger \in Seq(PayoutLedgerEntity) /\ ledger' = credit(ledger, m, a, h)
    BY <2>1, <1>0 DEF Credit
  <2>3. i \in 1..Len(ledger) /\ ledger'[i] = ledger[i]
    <3> HIDE DEF Paid
    <3> QED BY <2>2, CreditRows
  <2> QED BY <2>3, <1>0
<1>3. CASE \E s \in Slots : \E c \in cycle[s].todo : MarkSent(s, c)
  <2>1. PICK s \in Slots : \E c \in cycle[s].todo : MarkSent(s, c)
    BY <1>3
  <2>2. PICK c \in cycle[s].todo : MarkSent(s, c)
    BY <2>1
  <2>3. /\ cycle[s].txid \in Nat /\ cycle[s].txid \in 1..Len(txs)
        /\ c \in txs[cycle[s].txid].candidates /\ Covered(c)
        /\ c \in IPendingPayoutCandidate
    BY <2>2 DEF PayoutTypeOK, CycleState, PayoutInv, CycleOK, MarkSent
  <2>4. i \in 1..Len(ledger)
    BY <2>2, <2>3, <1>0, MarkSentType DEF MarkSent
  <2>5. CASE ledger[i].minerAddress = c.minerAddress /\ i <= c.maxRowId
             /\ ledger[i].status = "PENDING"
    <3>1. i \in c.rows
      BY <2>3, <2>4, <2>5 DEF Covered, IPendingPayoutCandidate
    <3>2. ledger'[i].txid = cycle[s].txid /\ ledger'[i].minerAddress = c.minerAddress
      BY <2>2, <2>3, <2>4, <2>5, <1>0, MarkSentRows DEF MarkSent
    <3> QED BY <3>1, <3>2, <2>3 DEF TxsAdvance
  <2>6. CASE ~(ledger[i].minerAddress = c.minerAddress /\ i <= c.maxRowId
               /\ ledger[i].status = "PENDING")
    <3>1. ledger'[i] = ledger[i]
      BY <2>2, <2>3, <2>4, <2>6, <1>0, MarkSentRows DEF MarkSent
    <3> QED BY <3>1, <2>4, <1>0
  <2> QED BY <2>5, <2>6
<1>4. CASE \E s \in Slots : MarkConfirmed(s)
  <2>1. PICK s \in Slots : MarkConfirmed(s)
    BY <1>4
  <2>2. recon[s].txid \in Nat
    BY DEF PayoutTypeOK, ReconState
  <2>3. i \in 1..Len(ledger)
    BY <2>1, <2>2, <1>0, MarkConfirmedType DEF MarkConfirmed
  <2>4. /\ ledger'[i].txid = ledger[i].txid /\ ledger'[i].minerAddress = ledger[i].minerAddress
        /\ ledger[i].status # "PENDING"
    BY <2>1, <2>2, <2>3, <1>0, MarkConfirmedRows DEF MarkConfirmed
  <2> QED BY <2>3, <2>4, <1>0
<1> QED
  BY <1>1, <1>2, <1>3, <1>4, LedgerWriters

\* A row becomes CONFIRMED only for a txid whose confirmations were read.
LEMMA ConfirmedStep ==
  ASSUME PayoutTypeOK, PayoutTypeOK', PayoutInv, [AnyStep]_payoutVars, TxsAdvance
  PROVE  ConfirmedWasConfirmed'
<1> SUFFICES ASSUME NEW i \in 1..Len(ledger'), ledger'[i].status = "CONFIRMED"
             PROVE  /\ ledger'[i].txid \in 1..Len(txs')
                    /\ txs'[ledger'[i].txid].peak >= Confirmations
  BY DEF ConfirmedWasConfirmed
<1>0. /\ ledger \in Seq(PayoutLedgerEntity) /\ Confirmations \in Nat
      /\ \A t \in 1..Len(txs) : t \in 1..Len(txs') /\ txs[t].peak \in Nat
                                /\ txs'[t].peak \in Nat /\ txs'[t].peak >= txs[t].peak
  <2>1. \A t \in 1..Len(txs) : txs[t] \in Transaction /\ txs'[t] \in Transaction
    BY ElementOfSeq DEF PayoutTypeOK, TxsAdvance
  <2>2. ledger \in Seq(PayoutLedgerEntity) /\ Confirmations \in Nat
    BY ConstantsAssumption DEF PayoutTypeOK
  <2> QED BY <2>1, <2>2 DEF Transaction, TxsAdvance
<1>1. ASSUME NEW j \in 1..Len(ledger), ledger[j].status = "CONFIRMED"
      PROVE  /\ ledger[j].txid \in 1..Len(txs')
             /\ txs'[ledger[j].txid].peak >= Confirmations
  BY <1>0, <1>1, SMTT(40) DEF PayoutInv, ConfirmedWasConfirmed
<1>2. CASE ledger' = ledger
  BY <1>1, <1>2
<1>3. CASE \E m \in Miners, a \in Nat, h \in Nat : Credit(m, a, h)
  <2>1. PICK m \in Miners, a \in Nat, h \in Nat : Credit(m, a, h)
    BY <1>3
  <2>3. i \in 1..Len(ledger) /\ ledger'[i] = ledger[i]
    BY <2>1, <1>0, CreditRows DEF Credit
  <2> QED BY <2>3, <1>1
<1>4. CASE \E s \in Slots : \E c \in cycle[s].todo : MarkSent(s, c)
  <2>1. PICK s \in Slots : \E c \in cycle[s].todo : MarkSent(s, c)
    BY <1>4
  <2>2. PICK c \in cycle[s].todo : MarkSent(s, c)
    BY <2>1
  <2>3. cycle[s].txid \in Nat
    BY DEF PayoutTypeOK, CycleState
  <2>4. i \in 1..Len(ledger)
    BY <2>2, <2>3, <1>0, MarkSentType DEF MarkSent
  <2>5. ledger'[i] = ledger[i]
    BY <2>2, <2>3, <2>4, <1>0, MarkSentRows DEF MarkSent
  <2> QED BY <2>4, <2>5, <1>1
<1>5. CASE \E s \in Slots : MarkConfirmed(s)
  <2>1. PICK s \in Slots : MarkConfirmed(s)
    BY <1>5
  <2>2. /\ recon[s].txid \in Nat /\ recon[s].txid \in 1..Len(txs)
        /\ txs[recon[s].txid].peak >= Confirmations
    BY <2>1 DEF PayoutTypeOK, ReconState, PayoutInv, ReconOK, MarkConfirmed
  <2>3. i \in 1..Len(ledger)
    BY <2>1, <2>2, <1>0, MarkConfirmedType DEF MarkConfirmed
  <2>4. ledger'[i].txid = recon[s].txid \/ ledger'[i] = ledger[i]
    BY <2>1, <2>2, <2>3, <1>0, MarkConfirmedRows DEF MarkConfirmed
  <2>5. CASE ledger'[i].txid = recon[s].txid
    <3>1. /\ recon[s].txid \in 1..Len(txs')
          /\ txs'[recon[s].txid].peak >= Confirmations
      BY <2>2, <1>0, SMTT(40)
    <3> QED BY <3>1, <2>5
  <2>6. CASE ledger'[i] = ledger[i]
    BY <2>3, <2>6, <1>1
  <2> QED BY <2>4, <2>5, <2>6
<1> QED
  BY <1>2, <1>3, <1>4, <1>5, LedgerWriters

\* A step, its credits and blocks unbounded, keeps PayoutInv.
LEMMA PayoutInvStep ==
  ASSUME PayoutTypeOK, PayoutTypeOK', PayoutInv, [AnyStep]_payoutVars
  PROVE  PayoutInv'
<1>1. LedgerAdvances /\ TxsAdvance /\ tip' >= tip
  BY StepAdvances, StepTxsAdvance, HeightGrows DEF PayoutInv
<1>2. LedgerInv' /\ HeightsInv' /\ TxsInv' /\ ConfirmedWasConfirmed'
  BY <1>1, LedgerInvStep, HeightsInvStep, TxsInvStep, ConfirmedStep
<1>3. \A s \in Slots : CycleOK(s)' /\ ReconOK(s)'
  BY <1>1, SlotsStep
<1>4. OrderedCredits => SentRowsWerePaid'
  BY <1>1, SentRowsStep
<1> QED BY <1>2, <1>3, <1>4 DEF PayoutInv

\* runPayoutCycle and reconcileSentPayouts keep PayoutInv, for any number of
\* overlapping firings, whatever fails and wherever the process stops.
THEOREM PayoutInvariance == PayoutSpec => []PayoutInv
<1>1. PayoutTypeOK /\ PayoutTypeOK' /\ PayoutInv /\ [PayoutNext]_payoutVars => PayoutInv'
  BY NextIsAny, PayoutInvStep
<1> QED
  BY <1>1, PayoutInvInit, TypeCorrect, PTL DEF PayoutSpec

\* With ordered credits a row markSentUpTo shows as SENT was part of the payment it
\* names, under every fault and any number of overlapping cycles.
THEOREM SentRowsWerePaidThm ==
  ASSUME OrderedCredits PROVE PayoutSpec => []SentRowsWerePaid
<1>1. PayoutInv => SentRowsWerePaid
  BY DEF PayoutInv
<1> QED
  BY <1>1, PayoutInvariance, PTL

\* runPayoutCycle never pays a credit before its block has matured.
THEOREM NeverPaysImmatureThm == PayoutSpec => []NeverPaysImmature
<1>1. PayoutInv => NeverPaysImmature
  BY DEF PayoutInv, NeverPaysImmature, TxsInv, PaidRows, Grounded
<1> QED
  BY <1>1, PayoutInvariance, PTL

\* reconcileSentPayouts never reports a credit CONFIRMED unless its payment had the
\* confirmations.
THEOREM ConfirmedWasConfirmedThm == PayoutSpec => []ConfirmedWasConfirmed
<1>1. PayoutInv => ConfirmedWasConfirmed
  BY DEF PayoutInv
<1> QED
  BY <1>1, PayoutInvariance, PTL

\* No step of the pool deletes, rewrites or moves back a row.
THEOREM RowsOnlyAdvanceThm == PayoutSpec => RowsOnlyAdvance
<1>1. PayoutTypeOK /\ PayoutInv /\ [PayoutNext]_payoutVars
        => [\A i \in 1..Len(ledger) : RowAdvances(i)]_payoutVars
  BY NextIsAny, StepAdvances DEF PayoutInv, LedgerAdvances
<1> QED
  BY <1>1, TypeCorrect, PayoutInvariance, PTL DEF PayoutSpec, RowsOnlyAdvance

-----------------------------------------------------------------------------
(* Paying once                                                             *)

\* Rows keep PENDING unless the one cycle marks them.
LEMMA PendingStays ==
  ASSUME PayoutTypeOK, LedgerInv, [AnyStep]_payoutVars,
         ~ \E s \in Slots : \E c \in cycle[s].todo : MarkSent(s, c),
         NEW i \in 1..Len(ledger), ledger[i].status = "PENDING"
  PROVE  ledger'[i].status = "PENDING"
<1>0. ledger \in Seq(PayoutLedgerEntity)
  BY DEF PayoutTypeOK
<1>1. CASE ledger' = ledger
  BY <1>1
<1>2. CASE \E m \in Miners, a \in Nat, h \in Nat : Credit(m, a, h)
  <2>1. PICK m \in Miners, a \in Nat, h \in Nat : Credit(m, a, h)
    BY <1>2
  <2> QED BY <2>1, <1>0, CreditRows DEF Credit
<1>3. CASE \E s \in Slots : MarkConfirmed(s)
  <2>1. PICK s \in Slots : MarkConfirmed(s)
    BY <1>3
  <2>2. recon[s].txid \in Nat
    BY DEF PayoutTypeOK, ReconState
  <2> QED BY <2>1, <2>2, <1>0, MarkConfirmedRows DEF MarkConfirmed
<1> QED
  BY <1>1, <1>2, <1>3, LedgerWriters

\* The ways a reliable step can change the one cycle.
LEMMA ReliableSteps ==
  ASSUME PayoutTypeOK, PayoutInv, Reliable, [AnyStep]_payoutVars, NEW s \in Slots
  PROVE  \/ cycle'[s] = cycle[s] /\ Len(txs') = Len(txs)
         \/ sendmany(s)
         \/ QueryMature(s)
         \/ \E c \in cycle[s].todo : MarkSent(s, c)
         \/ /\ Len(txs') = Len(txs)
            /\ cycle[s].txid = NoTx /\ cycle'[s].txid = NoTx
            /\ cycle'[s].candidates \subseteq cycle[s].candidates
         \/ /\ Len(txs') = Len(txs)
            /\ cycle[s].txid # NoTx /\ cycle'[s].txid = cycle[s].txid
            /\ cycle'[s].candidates = cycle[s].candidates
            /\ cycle'[s].todo = cycle[s].candidates
<1>0. /\ cycle \in [Slots -> CycleState] /\ cycle[s] \in CycleState
      /\ CycleOK(s) /\ txs \in Seq(Transaction)
  BY DEF PayoutTypeOK, PayoutInv
<1>s. ASSUME NEW r, SetCycle(s, r) PROVE cycle'[s] = r
  BY <1>s, <1>0 DEF SetCycle
<1>e. ASSUME EndCycle(s), cycle[s].txid = NoTx
      PROVE  cycle'[s].txid = NoTx /\ cycle'[s].candidates \subseteq cycle[s].candidates
  BY <1>e, <1>s DEF EndCycle, IdleCycle
<1>g. ASSUME NEW pc, CycleGoto(s, pc)
      PROVE  cycle'[s].txid = cycle[s].txid /\ cycle'[s].candidates = cycle[s].candidates
  BY <1>g, <1>s, <1>0 DEF CycleGoto, CycleState
<1>1. CASE CycleStep(s)
  <2>1. CASE TimerFires(s) \/ walletpassphrase(s) \/ FeeFallback(s)
    BY <2>1, <1>0, <1>g DEF TimerFires, walletpassphrase, FeeFallback, CycleOK
  <2>2. CASE getMiningInfo(s)
    <3> DEFINE upTo == tip - Maturity + 1
    <3>1. cycle'[s] = [cycle[s] EXCEPT !.pc = "mature", !.matureUpToHeight = upTo]
      BY <2>2, <1>s DEF getMiningInfo
    <3> HIDE DEF upTo
    <3> QED BY <3>1, <2>2, <1>0 DEF getMiningInfo, CycleOK, CycleState
  <2>3. CASE FilterByThreshold(s)
    <3> DEFINE some == AboveThreshold(cycle[s].candidates)
    <3>1. some \subseteq cycle[s].candidates
      BY DEF AboveThreshold
    <3>2. cycle[s].txid = NoTx /\ txs' = txs
      BY <2>3, <1>0 DEF FilterByThreshold, CycleOK
    <3>3. CASE SetCycle(s, [cycle[s] EXCEPT !.pc = "balance", !.candidates = some])
      <4>1. cycle'[s] = [cycle[s] EXCEPT !.pc = "balance", !.candidates = some]
        BY <3>3, <1>s
      <4> HIDE DEF some
      <4> QED BY <3>1, <3>2, <4>1, <1>0 DEF CycleState
    <3> QED BY <2>3, <3>2, <3>3, <1>e DEF FilterByThreshold
  <2>4. CASE \E covers \in BOOLEAN : CheckBalance(s, covers)
    BY <2>4, <1>0, <1>e, <1>g DEF CheckBalance, CycleOK
  <2>5. CASE ReadFails(s) \/ WalletpassphraseFails(s)
    BY <2>5, <1>0, <1>e DEF ReadFails, WalletpassphraseFails, CycleOK
  <2>6. CASE SendmanyRefused(s)
    <3>1. cycle[s].txid = NoTx /\ txs' = txs
      BY <2>6, <1>0 DEF SendmanyRefused, CycleOK, Sending
    <3>2. CASE SetCycle(s, [cycle[s] EXCEPT !.pc = "lock", !.txid = NoTx])
      <4>1. cycle'[s] = [cycle[s] EXCEPT !.pc = "lock", !.txid = NoTx]
        BY <3>2, <1>s
      <4> QED BY <3>1, <4>1, <1>0 DEF CycleState
    <3> QED BY <2>6, <3>1, <3>2, <1>e DEF SendmanyRefused, AfterSend
  <2>7. CASE \E works \in BOOLEAN : walletlock(s, works)
    <3>1. txs' = txs
      BY <2>7 DEF walletlock
    <3>2. CASE cycle[s].txid # NoTx
      <4>1. cycle'[s] = [cycle[s] EXCEPT !.pc = "mark", !.todo = cycle[s].candidates]
        BY <2>7, <3>2, <1>s DEF walletlock
      <4> QED BY <3>1, <3>2, <4>1, <1>0 DEF CycleState
    <3> QED BY <2>7, <3>1, <3>2, <1>e DEF walletlock
  <2> QED BY <1>1, <2>1, <2>2, <2>3, <2>4, <2>5, <2>6, <2>7
          DEF CycleStep, Reliable, SendmanyReplyLost, MarkFails
<1>2. CASE \E u \in Slots : ReconStep(u)
  BY <1>2 DEF ReconStep, ListSent, getConfirmations, CheckFails, MarkConfirmed
<1>3. CASE AnyEnv
  <2>1. CASE \E t \in 1..Len(txs) : TxConfirmed(t) \/ TxDisconnected(t)
    <3>1. cycle' = cycle
      BY <2>1 DEF TxConfirmed, TxDisconnected
    <3>2. \E t, x : txs' = [txs EXCEPT ![t] = x]
      BY <2>1 DEF TxConfirmed, TxDisconnected
    <3> QED BY <3>1, <3>2, <1>0
  <2> QED BY <1>3, <2>1 DEF AnyEnv, AroundStep, Credit, NewBlock, updateSettings, UnlockExpires,
          PayoutCrash, Reliable
<1> QED
  BY <1>1, <1>2, <1>3 DEF AnyStep, payoutVars, Reliable

\* A reliable step keeps PayOnceInv: a batch is broadcast from PENDING rows only, and
\* its cycle marks all of them before the next one reads the ledger.
LEMMA PayOnceInvStep ==
  ASSUME PayoutTypeOK, PayoutTypeOK', PayoutInv, Reliable, [AnyStep]_payoutVars, PayOnceInv
  PROVE  PayOnceInv'
<1>0. LedgerAdvances /\ TxsAdvance
  BY StepAdvances, StepTxsAdvance DEF PayoutInv
<1>1. CASE Slots = {}
  <2>1. 1..Len(txs') = 1..Len(txs)
    BY <1>0, <1>1 DEF TxsAdvance
  <2>2. \A t \in 1..Len(txs) : PaidRows(t)' = PaidRows(t)
    BY <1>0 DEF TxsAdvance, PaidRows
  <2>3. NeverPaidTwice'
    BY <2>1, <2>2 DEF PayOnceInv, NeverPaidTwice
  <2>4. MarkedInv'
    <3> SUFFICES ASSUME NEW t \in 1..Len(txs'), NEW c \in txs'[t].candidates, NEW i \in c.rows
                 PROVE  ledger'[i].status # "PENDING"
      BY DEF MarkedInv
    <3>1. t \in 1..Len(txs) /\ c \in txs[t].candidates
      BY <2>1, <1>0 DEF TxsAdvance
    <3>2. ledger[i].status # "PENDING" /\ i \in 1..Len(ledger)
      BY <3>1, <1>1 DEF PayOnceInv, MarkedInv, Unmarked, PayoutInv, TxsInv, Grounded
    <3> QED BY <3>2, <1>0 DEF LedgerAdvances
  <2> QED BY <1>1, <2>3, <2>4 DEF PayOnceInv, UnpaidInv
<1>2. CASE Slots # {}
  <2>s. PICK s \in Slots : \A u \in Slots : u = s
    BY <1>2 DEF Reliable
  <2>0. /\ UnpaidInv /\ MarkedInv /\ NeverPaidTwice /\ LedgerInv /\ CycleOK(s)
        /\ cycle[s] \in CycleState
    BY DEF PayOnceInv, PayoutInv, PayoutTypeOK
  \* The rows of a broadcast candidate are rows of the ledger.
  <2>g. \A t \in 1..Len(txs) : \A c \in txs[t].candidates : Grounded(c)
    BY DEF PayoutInv, TxsInv
  \* What was marked stays marked.
  <2>m. \A t \in 1..Len(txs) : \A c \in txs[t].candidates :
          (\A i \in c.rows : ledger[i].status # "PENDING")
            => (\A i \in c.rows : ledger'[i].status # "PENDING")
    BY <2>g, <1>0 DEF Grounded, LedgerAdvances
  \* A step that broadcasts nothing keeps payments disjoint.
  <2>n. ASSUME Len(txs') = Len(txs) PROVE NeverPaidTwice'
    <3>1. \A t \in 1..Len(txs) : PaidRows(t)' = PaidRows(t)
      BY <1>0 DEF TxsAdvance, PaidRows
    <3> QED BY <2>n, <2>0, <3>1 DEF NeverPaidTwice
  \* A step that does not mark keeps the rows of candidates it kept PENDING.
  <2>p. ASSUME ~ \E c \in cycle[s].todo : MarkSent(s, c),
               cycle[s].txid = NoTx, NEW C \in SUBSET cycle[s].candidates
        PROVE  \A c \in C : \A i \in c.rows : ledger'[i].status = "PENDING"
    <3> SUFFICES ASSUME NEW c \in C, NEW i \in c.rows
                 PROVE  ledger'[i].status = "PENDING"
      OBVIOUS
    <3>1. ledger[i].status = "PENDING" /\ i \in 1..Len(ledger)
      BY <2>0, <2>p DEF UnpaidInv, CycleOK, Grounded
    <3> QED BY <2>s, <2>p, <3>1, <2>0, PendingStays
  \* If every unmarked candidate is still unmarked, MarkedInv is kept.
  <2>u. ASSUME Len(txs') = Len(txs),
               \A t \in 1..Len(txs) : \A c \in txs[t].candidates :
                 Unmarked(t, c) => Unmarked(t, c)'
        PROVE  MarkedInv'
    BY <1>0, <2>0, <2>m, <2>u DEF MarkedInv, TxsAdvance
  <2>1. CASE cycle'[s] = cycle[s] /\ Len(txs') = Len(txs)
             /\ ~ \E c \in cycle[s].todo : MarkSent(s, c)
    <3>1. UnpaidInv'
      BY <2>s, <2>1, <2>p DEF UnpaidInv
    <3>2. MarkedInv'
      BY <2>s, <2>1, <2>u DEF Unmarked
    <3> QED BY <2>1, <2>n, <3>1, <3>2 DEF PayOnceInv
  <2>2. CASE sendmany(s)
    <3>1. cycle[s].txid = NoTx /\ cycle[s].pc \in Sending /\ Broadcast(s)
      BY <2>2, <2>0 DEF sendmany, CycleOK, Sending
    <3>2. ledger' = ledger
      BY <2>2 DEF sendmany
    <3>3. \A t \in 1..Len(txs) : \A c \in txs[t].candidates :
            \A i \in c.rows : ledger[i].status # "PENDING"
      BY <2>s, <2>0, <3>1 DEF MarkedInv, Unmarked, NoTx
    <3>4. \A c \in cycle[s].candidates : \A i \in c.rows : ledger[i].status = "PENDING"
      BY <2>0, <3>1 DEF UnpaidInv
    <3>n. PICK n : n = Len(txs) + 1
      OBVIOUS
    <3> DEFINE x == [candidates |-> cycle[s].candidates, confirmations |-> 0, peak |-> 0]
    <3>5. txs' = Append(txs, x) /\ x.candidates = cycle[s].candidates
      BY <3>1 DEF Broadcast
    <3>6. /\ Len(txs) \in Nat /\ Len(txs') = n /\ txs'[n].candidates = cycle[s].candidates
          /\ \A t \in 1..Len(txs) : txs'[t] = txs[t]
      <4> HIDE DEF x
      <4> QED BY <3>n, <3>5, LenProperties DEF PayoutTypeOK
    <3>7. /\ cycle'[s].txid = n
          /\ cycle'[s].pc = "lock" \/ cycle'[s].todo = cycle[s].candidates
      <4>1. \/ cycle'[s] = [cycle[s] EXCEPT !.pc = "lock", !.txid = n]
            \/ cycle'[s] = [cycle[s] EXCEPT !.pc = "mark", !.txid = n,
                                            !.todo = cycle[s].candidates]
        BY <2>2, <3>n, <3>6 DEF sendmany, AfterSend, SetCycle, PayoutTypeOK, NoTx
      <4> QED BY <4>1, <2>0 DEF CycleState
    <3> HIDE DEF x
    <3>8. UnpaidInv'
      BY <2>s, <3>n, <3>6, <3>7 DEF UnpaidInv, NoTx
    <3>9. MarkedInv'
      <4> SUFFICES ASSUME NEW t \in 1..Len(txs'), NEW c \in txs'[t].candidates
                   PROVE  Unmarked(t, c)' \/ \A i \in c.rows : ledger'[i].status # "PENDING"
        BY DEF MarkedInv
      <4>1. CASE t \in 1..Len(txs)
        BY <4>1, <3>2, <3>3, <3>6
      <4>2. CASE t = n
        BY <4>2, <3>6, <3>7 DEF Unmarked
      <4> QED BY <4>1, <4>2, <3>n, <3>6
    <3>10. NeverPaidTwice'
      <4>1. \A t \in 1..Len(txs) : PaidRows(t)' = PaidRows(t)
        BY <3>6 DEF PaidRows
      <4>2. \A t \in 1..Len(txs) : \A i \in PaidRows(t) : ledger[i].status # "PENDING"
        BY <3>3 DEF PaidRows
      <4>3. \A i \in PaidRows(n)' : ledger[i].status = "PENDING"
        BY <3>4, <3>6 DEF PaidRows
      <4>4. 1..Len(txs') = 1..Len(txs) \cup {n}
        BY <3>n, <3>6
      <4> QED BY <2>0, <4>1, <4>2, <4>3, <4>4 DEF NeverPaidTwice
    <3> QED BY <3>8, <3>9, <3>10 DEF PayOnceInv
  <2>3. CASE QueryMature(s)
    <3>1. /\ ledger' = ledger /\ txs' = txs /\ cycle[s].txid = NoTx
          /\ cycle[s].matureUpToHeight \in Int
      BY <2>3, <2>0 DEF QueryMature, CycleOK, CycleState
    <3> DEFINE all == getMaturePendingTotals(ledger, cycle[s].matureUpToHeight)
    <3>2. \A c \in all : \A i \in c.rows : ledger[i].status = "PENDING"
      BY <3>1, MatureTotals DEF PayoutTypeOK
    <3>3. cycle'[s] = IdleCycle
          \/ cycle'[s] = [cycle[s] EXCEPT !.pc = "overrides", !.candidates = all]
      BY <2>3 DEF QueryMature, EndCycle, SetCycle, PayoutTypeOK
    <3> HIDE DEF all
    <3>4. cycle'[s].candidates = {} \/ cycle'[s].candidates = all
      <4>1. [cycle[s] EXCEPT !.pc = "overrides", !.candidates = all].candidates = all
        BY <2>0 DEF CycleState
      <4>2. IdleCycle.candidates = {}
        BY DEF IdleCycle
      <4> QED BY <3>3, <4>1, <4>2
    <3>5. UnpaidInv'
      BY <2>s, <3>1, <3>2, <3>4 DEF UnpaidInv
    <3>6. \A t \in 1..Len(txs) : \A c \in txs[t].candidates : ~Unmarked(t, c)
      BY <2>s, <3>1 DEF Unmarked, NoTx
    <3>7. MarkedInv'
      BY <3>1, <3>6, <2>u
    <3> QED BY <3>1, <3>5, <3>7, <2>n DEF PayOnceInv
  <2>4. CASE \E c \in cycle[s].todo : MarkSent(s, c)
    <3>1. PICK c \in cycle[s].todo : MarkSent(s, c)
      BY <2>4
    <3>2. /\ txs' = txs /\ cycle[s].pc = "mark" /\ cycle[s].txid # NoTx
          /\ cycle[s].txid \in Nat /\ ledger \in Seq(PayoutLedgerEntity) /\ Grounded(c)
      BY <3>1, <2>0 DEF MarkSent, CycleOK, CycleState, PayoutTypeOK
    <3>3. \A i \in c.rows : ledger'[i].status # "PENDING"
      <4> SUFFICES ASSUME NEW i \in c.rows PROVE ledger'[i].status # "PENDING"
        OBVIOUS
      <4>1. i \in 1..Len(ledger) /\ i <= c.maxRowId /\ ledger[i].minerAddress = c.minerAddress
        BY <3>2 DEF Grounded
      <4> QED BY <4>1, <3>1, <3>2, MarkSentRows DEF MarkSent
    <3>4. \/ cycle'[s] = IdleCycle /\ cycle[s].todo = {c}
          \/ cycle'[s] = [cycle[s] EXCEPT !.todo = @ \ {c}]
      BY <3>1 DEF MarkSent, EndCycle, SetCycle, PayoutTypeOK
    <3>5. UnpaidInv'
      <4>1. cycle'[s].txid = NoTx => cycle'[s].candidates = {}
        BY <3>2, <3>4, <2>0 DEF CycleState, IdleCycle
      <4> QED BY <4>1, <2>s DEF UnpaidInv
    <3>6. MarkedInv'
      <4> SUFFICES ASSUME NEW t \in 1..Len(txs), NEW d \in txs[t].candidates
                   PROVE  Unmarked(t, d)' \/ \A i \in d.rows : ledger'[i].status # "PENDING"
        BY <3>2 DEF MarkedInv
      <4>1. CASE d = c
        BY <4>1, <3>3
      <4>2. CASE \A i \in d.rows : ledger[i].status # "PENDING"
        BY <4>2, <2>m
      <4>3. CASE Unmarked(t, d) /\ d # c
        <5>1. cycle[s].txid = t /\ d \in cycle[s].todo
          BY <4>3, <2>s, <3>2 DEF Unmarked
        <5>2. cycle'[s].txid = t /\ d \in cycle'[s].todo
          BY <5>1, <4>3, <3>4, <2>0 DEF CycleState
        <5> QED BY <5>2 DEF Unmarked
      <4> QED BY <4>1, <4>2, <4>3, <2>0 DEF MarkedInv
    <3> QED BY <3>2, <3>5, <3>6, <2>n DEF PayOnceInv
  <2>5. CASE /\ Len(txs') = Len(txs)
             /\ cycle[s].txid = NoTx /\ cycle'[s].txid = NoTx
             /\ cycle'[s].candidates \subseteq cycle[s].candidates
             /\ ~ \E c \in cycle[s].todo : MarkSent(s, c)
    <3>1. UnpaidInv'
      BY <2>s, <2>5, <2>p DEF UnpaidInv
    <3>2. \A t \in 1..Len(txs) : \A c \in txs[t].candidates : ~Unmarked(t, c)
      BY <2>s, <2>5 DEF Unmarked, NoTx
    <3>3. MarkedInv'
      BY <3>2, <2>5, <2>u
    <3> QED BY <2>5, <2>n, <3>1, <3>3 DEF PayOnceInv
  <2>6. CASE /\ Len(txs') = Len(txs)
             /\ cycle[s].txid # NoTx /\ cycle'[s].txid = cycle[s].txid
             /\ cycle'[s].candidates = cycle[s].candidates
             /\ cycle'[s].todo = cycle[s].candidates
    <3>1. UnpaidInv'
      BY <2>s, <2>6 DEF UnpaidInv
    <3>2. \A t \in 1..Len(txs) : \A c \in txs[t].candidates :
            Unmarked(t, c) => Unmarked(t, c)'
      BY <2>s, <2>6, <2>0 DEF Unmarked, CycleOK
    <3>3. MarkedInv'
      BY <3>2, <2>6, <2>u
    <3> QED BY <2>6, <2>n, <3>1, <3>3 DEF PayOnceInv
  <2> QED BY <2>1, <2>2, <2>3, <2>4, <2>5, <2>6, ReliableSteps
<1> QED
  BY <1>1, <1>2

\* A fresh pool has paid nothing.
LEMMA PayOnceInit == PayoutInit => PayOnceInv
<1>1. ASSUME PayoutInit PROVE txs = << >> /\ 1..Len(txs) = {}
                        /\ \A s \in Slots : cycle[s] = IdleCycle
  BY <1>1, EmptySeq DEF PayoutInit
<1> QED BY <1>1 DEF PayOnceInv, UnpaidInv, MarkedInv, NeverPaidTwice, IdleCycle

\* With firings that do not overlap and no failure between the broadcast and the last
\* markSentUpTo, the next cycle never finds a credit PENDING that was paid.
LEMMA PayOnceInvariance ==
  ASSUME Reliable PROVE PayoutSpec => []PayOnceInv
<1>1. PayoutTypeOK /\ PayoutTypeOK' /\ PayoutInv /\ [PayoutNext]_payoutVars /\ PayOnceInv
        => PayOnceInv'
  BY NextIsAny, PayOnceInvStep
<1> QED
  BY <1>1, PayOnceInit, TypeCorrect, PayoutInvariance, PTL DEF PayoutSpec

\* With firings that do not overlap and no failure between sendmany and the last
\* markSentUpTo, no credit is part of two payments.
THEOREM NeverPaidTwiceThm ==
  ASSUME Reliable PROVE PayoutSpec => []NeverPaidTwice
<1>1. PayOnceInv => NeverPaidTwice
  BY DEF PayOnceInv
<1> QED
  BY <1>1, PayOnceInvariance, PTL

-----------------------------------------------------------------------------
(* The wallet's lock                                                       *)

\* Only these steps unlock the wallet or leave the states in which it may be unlocked.
LEMMA LockSteps ==
  ASSUME PayoutTypeOK, LockInv, WalletAnswers, [AnyStep]_payoutVars
  PROVE  LockInv'
<1> DEFINE Paying == {"send", "resend", "lock"}
<1>0. cycle \in [Slots -> CycleState] /\ unlocked \in BOOLEAN /\ Encrypted \in BOOLEAN
  BY ConstantsAssumption DEF PayoutTypeOK
<1>f. "lost" \notin Faults /\ "crash" \notin Faults /\ "lock" \notin Faults
  BY DEF WalletAnswers
<1>r. \A s \in Slots : \A r : SetCycle(s, r) =>
        cycle'[s] = r /\ \A u \in Slots : u # s => cycle'[u] = cycle[u]
  BY <1>0 DEF SetCycle
\* A step of one slot that unlocks nothing, and keeps the slot among those that pay if
\* it was one.
<1>k. ASSUME NEW s \in Slots, NEW r, SetCycle(s, r), r.pc = "unlock" => Encrypted,
             unlocked' => unlocked, unlocked' /\ cycle[s].pc \in Paying => r.pc \in Paying
      PROVE  LockInv'
  <2>1. cycle'[s] = r /\ \A u \in Slots : u # s => cycle'[u] = cycle[u]
    BY <1>r, <1>k
  <2>2. \A u \in Slots : cycle'[u].pc = "unlock" => Encrypted
    BY <1>k, <2>1 DEF LockInv
  <2>3. unlocked' => \E u \in Slots : cycle'[u].pc \in Paying
    <3> SUFFICES ASSUME unlocked' PROVE \E u \in Slots : cycle'[u].pc \in Paying
      OBVIOUS
    <3>1. PICK u \in Slots : cycle[u].pc \in Paying
      BY <1>k DEF LockInv, UnlockedOnlyWhilePaying
    <3> QED BY <1>k, <2>1, <3>1
  <2> QED BY <1>k, <2>2, <2>3 DEF LockInv, UnlockedOnlyWhilePaying
<1>g. \A s \in Slots : \A pc : [cycle[s] EXCEPT !.pc = pc].pc = pc
  BY <1>0 DEF CycleState
<1>i. IdleCycle.pc = "idle"
  BY DEF IdleCycle
<1>1. ASSUME NEW s \in Slots, CycleStep(s) PROVE LockInv'
  <2>e. ASSUME EndCycle(s), UNCHANGED unlocked, cycle[s].pc \notin Paying PROVE LockInv'
    BY <1>k, <1>i, <2>e DEF EndCycle
  <2>1. CASE TimerFires(s)
    BY <1>k, <1>g, <2>1, ZenonT(60) DEF TimerFires, CycleGoto
  <2>2. CASE getMiningInfo(s)
    <3> DEFINE h == tip - Maturity + 1
               r == [cycle[s] EXCEPT !.pc = "mature", !.matureUpToHeight = h]
    <3>1. SetCycle(s, r) /\ UNCHANGED unlocked /\ cycle[s].pc = "height"
      BY <2>2 DEF getMiningInfo
    <3>2. r.pc = "mature"
      <4> HIDE DEF h
      <4> QED BY <1>0 DEF CycleState
    <3> HIDE DEF r
    <3> QED BY <1>k, <3>1, <3>2
  <2>3. CASE QueryMature(s)
    <3> DEFINE all == getMaturePendingTotals(ledger, cycle[s].matureUpToHeight)
               r == [cycle[s] EXCEPT !.pc = "overrides", !.candidates = all]
    <3>1. (EndCycle(s) \/ SetCycle(s, r)) /\ UNCHANGED unlocked /\ cycle[s].pc = "mature"
      BY <2>3 DEF QueryMature
    <3>2. r.pc = "overrides"
      <4> HIDE DEF all
      <4> QED BY <1>0 DEF CycleState
    <3> HIDE DEF r
    <3> QED BY <1>k, <2>e, <3>1, <3>2
  <2>4. CASE FilterByThreshold(s)
    <3> DEFINE some == AboveThreshold(cycle[s].candidates)
               r == [cycle[s] EXCEPT !.pc = "balance", !.candidates = some]
    <3>1. (EndCycle(s) \/ SetCycle(s, r)) /\ UNCHANGED unlocked /\ cycle[s].pc = "overrides"
      BY <2>4 DEF FilterByThreshold
    <3>2. r.pc = "balance"
      <4> HIDE DEF some
      <4> QED BY <1>0 DEF CycleState
    <3> HIDE DEF r
    <3> QED BY <1>k, <2>e, <3>1, <3>2
  <2>5. CASE \E covers \in BOOLEAN : CheckBalance(s, covers)
    <3>1. /\ EndCycle(s) \/ CycleGoto(s, IF Encrypted THEN "unlock" ELSE "send")
          /\ UNCHANGED unlocked /\ cycle[s].pc = "balance"
      BY <2>5 DEF CheckBalance
    <3> QED BY <1>k, <1>g, <2>e, <3>1 DEF CycleGoto
  <2>6. CASE ReadFails(s)
    BY <2>e, <2>6 DEF ReadFails
  <2>7. CASE walletpassphrase(s)
    <3> DEFINE r == [cycle[s] EXCEPT !.pc = "send"]
    <3>1. SetCycle(s, r) /\ unlocked' = TRUE /\ cycle[s].pc = "unlock" /\ r.pc = "send"
      BY <1>g, <2>7 DEF walletpassphrase, CycleGoto
    <3> HIDE DEF r
    <3>2. cycle'[s].pc = "send" /\ \A u \in Slots : u # s => cycle'[u] = cycle[u]
      BY <1>r, <3>1
    <3> QED BY <3>1, <3>2 DEF LockInv, UnlockedOnlyWhilePaying
  <2>8. CASE WalletpassphraseFails(s)
    BY <1>f, <2>e, <2>8 DEF WalletpassphraseFails
  <2>9. CASE sendmany(s) \/ SendmanyRefused(s) \/ SendmanyReplyLost(s)
    <3>1. PICK t : AfterSend(s, t)
      BY <2>9 DEF sendmany, SendmanyRefused, SendmanyReplyLost
    <3>2. cycle[s].pc \in Sending /\ UNCHANGED unlocked
      BY <2>9 DEF sendmany, SendmanyRefused, SendmanyReplyLost
    <3>3. CASE Encrypted
      <4> DEFINE r == [cycle[s] EXCEPT !.pc = "lock", !.txid = t]
      <4>1. SetCycle(s, r)
        BY <3>1, <3>3 DEF AfterSend
      <4>2. r.pc = "lock"
        BY <1>0 DEF CycleState
      <4> HIDE DEF r
      <4> QED BY <1>k, <3>2, <4>1, <4>2
    <3>4. CASE ~Encrypted
      <4> DEFINE r == [cycle[s] EXCEPT !.pc = "mark", !.txid = t,
                                       !.todo = cycle[s].candidates]
      <4>1. SetCycle(s, r) \/ SetCycle(s, IdleCycle)
        BY <3>1, <3>4 DEF AfterSend, EndCycle
      <4>2. r.pc = "mark"
        BY <1>0 DEF CycleState
      <4>3. ~unlocked'
        BY <3>2, <3>4 DEF LockInv
      <4> HIDE DEF r
      <4> QED BY <1>k, <1>i, <4>1, <4>2, <4>3
    <3> QED BY <3>3, <3>4
  <2>10. CASE FeeFallback(s)
    BY <1>k, <1>g, <2>10 DEF FeeFallback, CycleGoto
  <2>11. CASE \E works \in BOOLEAN : walletlock(s, works)
    <3> DEFINE r == [cycle[s] EXCEPT !.pc = "mark", !.todo = cycle[s].candidates]
    <3>1. unlocked' = FALSE /\ (SetCycle(s, IdleCycle) \/ SetCycle(s, r))
      BY <1>f, <2>11 DEF walletlock, EndCycle
    <3>2. r.pc = "mark"
      BY <1>0 DEF CycleState
    <3> HIDE DEF r
    <3> QED BY <1>k, <1>i, <3>1, <3>2
  <2>12. CASE \E c \in cycle[s].todo : MarkSent(s, c)
    <3>1. PICK c \in cycle[s].todo : MarkSent(s, c)
      BY <2>12
    <3> DEFINE r == [cycle[s] EXCEPT !.todo = @ \ {c}]
    <3>2. cycle[s].pc = "mark" /\ UNCHANGED unlocked /\ (EndCycle(s) \/ SetCycle(s, r))
      BY <3>1 DEF MarkSent
    <3>3. r.pc = cycle[s].pc
      BY <1>0 DEF CycleState
    <3> HIDE DEF r
    <3> QED BY <1>k, <2>e, <3>2, <3>3
  <2>13. CASE MarkFails(s)
    BY <2>e, <2>13 DEF MarkFails
  <2> QED BY <1>1, <2>1, <2>2, <2>3, <2>4, <2>5, <2>6, <2>7, <2>8, <2>9, <2>10, <2>11,
             <2>12, <2>13 DEF CycleStep
<1>2. CASE cycle' = cycle /\ (unlocked' = unlocked \/ unlocked' = FALSE)
  BY <1>2 DEF LockInv, UnlockedOnlyWhilePaying
<1>3. ASSUME NEW s \in Slots, ReconStep(s) PROVE LockInv'
  <2>1. cycle' = cycle /\ unlocked' = unlocked
    BY <1>3 DEF ReconStep, ListSent, getConfirmations, CheckFails, MarkConfirmed
  <2> QED BY <1>2, <2>1
<1>4. CASE AnyEnv
  <2>1. cycle' = cycle /\ (unlocked' = unlocked \/ unlocked' = FALSE)
    BY <1>4, <1>f DEF AnyEnv, AroundStep, Credit, NewBlock, updateSettings, TxConfirmed, TxDisconnected,
                      UnlockExpires, PayoutCrash
  <2> QED BY <1>2, <2>1
<1>5. CASE UNCHANGED payoutVars
  BY <1>2, <1>5 DEF payoutVars
<1> QED BY <1>1, <1>3, <1>4, <1>5 DEF AnyStep

\* If the wallet's answers arrive, walletlock works and the process does not stop, the
\* wallet is unlocked only while some firing is paying, however firings overlap.
THEOREM UnlockedOnlyWhilePayingThm ==
  ASSUME WalletAnswers PROVE PayoutSpec => []UnlockedOnlyWhilePaying
<1>1. PayoutInit => LockInv
  BY DEF PayoutInit, LockInv, UnlockedOnlyWhilePaying, IdleCycle
<1>2. PayoutTypeOK /\ LockInv /\ [PayoutNext]_payoutVars => LockInv'
  BY NextIsAny, LockSteps
<1>3. LockInv => UnlockedOnlyWhilePaying
  BY DEF LockInv
<1> QED
  BY <1>1, <1>2, <1>3, TypeCorrect, PTL DEF PayoutSpec

-----------------------------------------------------------------------------
(* The batch of a cycle                                                    *)

\* A slot's cycle moves on with the same candidates, some of them, or none.
LEMMA BatchShrinks ==
  ASSUME NEW C, NEW D \in SUBSET C,
         \A c \in C : c.maxRowId \in c.rows,
         OnePerMiner(C)
  PROVE  (\A c \in D : c.maxRowId \in c.rows) /\ OnePerMiner(D)
BY DEF OnePerMiner

\* What getMaturePendingTotals returns: one candidate per miner, none without rows.
LEMMA CandidatePerMiner ==
  ASSUME NEW l \in Seq(PayoutLedgerEntity), NEW upTo \in Int,
         NEW c \in getMaturePendingTotals(l, upTo), NEW d \in getMaturePendingTotals(l, upTo)
  PROVE  c.maxRowId \in c.rows /\ (c.minerAddress = d.minerAddress => c = d)
<1>1. /\ c \in IPendingPayoutCandidate /\ c.maxRowId \in c.rows /\ \A i \in c.rows : i <= c.maxRowId
      /\ c.rows = {i \in 1..Len(l) : /\ l[i].status = "PENDING" /\ l[i].blockHeight <= upTo
                                     /\ l[i].minerAddress = c.minerAddress}
  BY MatureTotals
<1>2. /\ d \in IPendingPayoutCandidate /\ d.maxRowId \in d.rows /\ \A i \in d.rows : i <= d.maxRowId
      /\ d.rows = {i \in 1..Len(l) : /\ l[i].status = "PENDING" /\ l[i].blockHeight <= upTo
                                     /\ l[i].minerAddress = d.minerAddress}
  BY MatureTotals
<1>3. ASSUME c.minerAddress = d.minerAddress PROVE c = d
  <2>1. c.rows = d.rows
    BY <1>1, <1>2, <1>3
  <2>2. c.maxRowId \in Nat /\ d.maxRowId \in Nat
    BY <1>1, <1>2 DEF IPendingPayoutCandidate
  <2>3. c.maxRowId = d.maxRowId
    BY <1>1, <1>2, <2>1, <2>2
  <2>4. \A x \in IPendingPayoutCandidate :
          x = [minerAddress |-> x.minerAddress, maxRowId |-> x.maxRowId, rows |-> x.rows]
    BY DEF IPendingPayoutCandidate
  <2> QED BY <1>1, <1>2, <1>3, <2>1, <2>3, <2>4
<1> QED BY <1>1, <1>3

\* A slot's new state keeps BatchOK: idle, the same candidates, or some of them.
LEMMA BatchNext ==
  ASSUME NEW s \in Slots, BatchOK(s), NEW r, cycle'[s] = r,
         \/ r = IdleCycle
         \/ r.candidates \subseteq cycle[s].candidates /\ r.candidates # {}
         \/ r.candidates = cycle[s].candidates /\ r.pc \in {"height", "mature"}
  PROVE  BatchOK(s)'
<1> DEFINE C == cycle[s].candidates
           D == r.candidates
<1>1. IdleCycle.pc = "idle" /\ IdleCycle.candidates = {}
  BY DEF IdleCycle
<1>2. D \in SUBSET C
  BY <1>1
<1>3. (\A c \in C : c.maxRowId \in c.rows) /\ OnePerMiner(C)
  BY DEF BatchOK
<1>4. r.pc \notin {"idle", "height", "mature"} => D # {}
  BY <1>1
<1> HIDE DEF C, D
<1>5. (\A c \in D : c.maxRowId \in c.rows) /\ OnePerMiner(D)
  BY <1>2, <1>3, BatchShrinks
<1> QED BY <1>4, <1>5 DEF BatchOK, D

\* Every step keeps BatchInv.
LEMMA BatchInvStep ==
  ASSUME PayoutTypeOK, BatchInv, [AnyStep]_payoutVars
  PROVE  BatchInv'
<1>t. \A t \in 1..Len(txs') : OnePerMiner(txs'[t].candidates)
  BY StepTxsAdvance DEF TxsAdvance, BatchInv, BatchOK, OnePerMiner
<1> SUFFICES ASSUME NEW s \in Slots PROVE BatchOK(s)'
  BY <1>t DEF BatchInv, OnePerMiner
<1>0. cycle \in [Slots -> CycleState] /\ cycle[s] \in CycleState /\ BatchOK(s)
  BY DEF PayoutTypeOK, BatchInv
<1>b. \A c \in {cycle[s]} : c.pc \notin {"idle", "height", "mature"} => c.candidates # {}
  BY <1>0 DEF BatchOK
<1>r. \A r : SetCycle(s, r) => cycle'[s] = r
  BY <1>0 DEF SetCycle
<1>e. ASSUME EndCycle(s) PROVE BatchOK(s)'
  BY <1>0, <1>e, <1>r, BatchNext DEF EndCycle
\* The cycle goes on with the same candidates.
<1>g. ASSUME NEW r, SetCycle(s, r), r.candidates = cycle[s].candidates,
             r.pc \in {"height", "mature"} \/ cycle[s].pc \notin {"idle", "height", "mature"}
      PROVE  BatchOK(s)'
  BY <1>0, <1>b, <1>g, <1>r, BatchNext
<1>p. \A pc : [cycle[s] EXCEPT !.pc = pc].pc = pc
              /\ [cycle[s] EXCEPT !.pc = pc].candidates = cycle[s].candidates
  BY <1>0 DEF CycleState
<1>1. CASE CycleStep(s)
  <2>1. CASE TimerFires(s) \/ FeeFallback(s) \/ walletpassphrase(s)
    BY <1>g, <1>p, <2>1 DEF TimerFires, FeeFallback, walletpassphrase, CycleGoto
  <2>2. CASE getMiningInfo(s)
    <3> DEFINE h == tip - Maturity + 1
               r == [cycle[s] EXCEPT !.pc = "mature", !.matureUpToHeight = h]
    <3>1. SetCycle(s, r)
      BY <2>2 DEF getMiningInfo
    <3>2. r.pc = "mature" /\ r.candidates = cycle[s].candidates
      <4> HIDE DEF h
      <4> QED BY <1>0 DEF CycleState
    <3> HIDE DEF r
    <3> QED BY <1>g, <3>1, <3>2
  <2>3. CASE QueryMature(s)
    <3> DEFINE upTo == cycle[s].matureUpToHeight
               all == getMaturePendingTotals(ledger, upTo)
               r == [cycle[s] EXCEPT !.pc = "overrides", !.candidates = all]
    <3>1. EndCycle(s) \/ (all # {} /\ SetCycle(s, r))
      BY <2>3 DEF QueryMature
    <3>2. r.pc = "overrides" /\ r.candidates = all
      <4> HIDE DEF all
      <4> QED BY <1>0 DEF CycleState
    <3>3. upTo \in Int /\ ledger \in Seq(PayoutLedgerEntity)
      BY <1>0 DEF CycleState, PayoutTypeOK
    <3>4. (\A c \in all : c.maxRowId \in c.rows) /\ OnePerMiner(all)
      BY <3>3, CandidatePerMiner DEF OnePerMiner
    <3> HIDE DEF r, all
    <3>5. CASE all # {} /\ SetCycle(s, r)
      <4>1. cycle'[s] = r
        BY <1>r, <3>5
      <4> QED BY <3>2, <3>4, <3>5, <4>1 DEF BatchOK
    <3> QED BY <1>e, <3>1, <3>5
  <2>4. CASE FilterByThreshold(s)
    <3> DEFINE some == AboveThreshold(cycle[s].candidates)
               r == [cycle[s] EXCEPT !.pc = "balance", !.candidates = some]
    <3>1. EndCycle(s) \/ (some # {} /\ SetCycle(s, r))
      BY <2>4 DEF FilterByThreshold
    <3>2. some \subseteq cycle[s].candidates
      BY DEF AboveThreshold
    <3>3. r.pc = "balance" /\ r.candidates = some
      <4> HIDE DEF some
      <4> QED BY <1>0 DEF CycleState
    <3> HIDE DEF r, some
    <3> QED BY <1>0, <1>e, <1>r, <3>1, <3>2, <3>3, BatchNext
  <2>5. CASE \E covers \in BOOLEAN : CheckBalance(s, covers)
    <3>1. /\ EndCycle(s) \/ CycleGoto(s, IF Encrypted THEN "unlock" ELSE "send")
          /\ cycle[s].pc = "balance"
      BY <2>5 DEF CheckBalance
    <3> QED BY <1>e, <1>g, <1>p, <3>1 DEF CycleGoto
  <2>6. CASE ReadFails(s) \/ WalletpassphraseFails(s) \/ MarkFails(s)
    BY <1>e, <2>6 DEF ReadFails, WalletpassphraseFails, MarkFails
  <2>7. CASE sendmany(s) \/ SendmanyRefused(s) \/ SendmanyReplyLost(s)
    <3>1. PICK t : AfterSend(s, t)
      BY <2>7 DEF sendmany, SendmanyRefused, SendmanyReplyLost
    <3>2. cycle[s].pc \in Sending
      BY <2>7 DEF sendmany, SendmanyRefused, SendmanyReplyLost
    <3> DEFINE r == [cycle[s] EXCEPT !.pc = "lock", !.txid = t]
               q == [cycle[s] EXCEPT !.pc = "mark", !.txid = t, !.todo = cycle[s].candidates]
    <3>3. EndCycle(s) \/ SetCycle(s, r) \/ SetCycle(s, q)
      BY <3>1 DEF AfterSend
    <3>4. r.candidates = cycle[s].candidates /\ q.candidates = cycle[s].candidates
      BY <1>0 DEF CycleState
    <3> HIDE DEF r, q
    <3> QED BY <1>e, <1>g, <3>2, <3>3, <3>4 DEF Sending
  <2>8. CASE \E works \in BOOLEAN : walletlock(s, works)
    <3> DEFINE r == [cycle[s] EXCEPT !.pc = "mark", !.todo = cycle[s].candidates]
    <3>1. cycle[s].pc = "lock" /\ (EndCycle(s) \/ SetCycle(s, r))
      BY <2>8 DEF walletlock
    <3>2. r.candidates = cycle[s].candidates
      BY <1>0 DEF CycleState
    <3> HIDE DEF r
    <3> QED BY <1>e, <1>g, <3>1, <3>2
  <2>9. CASE \E c \in cycle[s].todo : MarkSent(s, c)
    <3>1. PICK c \in cycle[s].todo : MarkSent(s, c)
      BY <2>9
    <3> DEFINE r == [cycle[s] EXCEPT !.todo = @ \ {c}]
    <3>2. cycle[s].pc = "mark" /\ (EndCycle(s) \/ SetCycle(s, r))
      BY <3>1 DEF MarkSent
    <3>3. r.candidates = cycle[s].candidates
      BY <1>0 DEF CycleState
    <3> HIDE DEF r
    <3> QED BY <1>e, <1>g, <3>2, <3>3
  <2> QED BY <1>1, <2>1, <2>2, <2>3, <2>4, <2>5, <2>6, <2>7, <2>8, <2>9 DEF CycleStep
<1>2. CASE cycle'[s] = cycle[s]
  BY <1>0, <1>2 DEF BatchOK, OnePerMiner
<1>3. ASSUME NEW u \in Slots, u # s, CycleStep(u) PROVE cycle'[s] = cycle[s]
  BY <1>0, <1>3 DEF CycleStep, TimerFires, getMiningInfo, QueryMature, FilterByThreshold, CheckBalance,
     ReadFails, walletpassphrase, WalletpassphraseFails, sendmany, SendmanyRefused,
     SendmanyReplyLost, FeeFallback, walletlock, MarkSent, MarkFails, AfterSend, CycleGoto, EndCycle,
     SetCycle
<1>4. ASSUME NEW u \in Slots, ReconStep(u) PROVE cycle'[s] = cycle[s]
  BY <1>4 DEF ReconStep, ListSent, getConfirmations, CheckFails, MarkConfirmed
<1>5. CASE AnyEnv
  <2>1. CASE PayoutCrash
    BY <2>1, <1>0, BatchNext DEF PayoutCrash
  <2> QED
    BY <1>2, <1>5, <2>1 DEF AnyEnv, AroundStep, Credit, NewBlock, updateSettings, TxConfirmed,
                            TxDisconnected, UnlockExpires
<1> QED BY <1>1, <1>2, <1>3, <1>4, <1>5 DEF AnyStep, payoutVars

\* A fresh pool has no batch.
LEMMA BatchInit == PayoutInit => BatchInv
<1>1. ASSUME PayoutInit PROVE 1..Len(txs) = {} /\ \A s \in Slots : cycle[s] = IdleCycle
  BY <1>1, EmptySeq DEF PayoutInit
<1> QED BY <1>1 DEF BatchInv, BatchOK, OnePerMiner, IdleCycle

-----------------------------------------------------------------------------
(* The refinement of PayoutPromise                                         *)

\* The sum in PayoutPromise is the one of this module.
LEMMA PromiseSum == \A f, S : Promise!SumOver(f, S) = SumOver(f, S)
BY DEF Promise!SumOver, SumOver, Promise!MapThenSumSet, MapThenSumSet,
       Promise!MapThenFoldSet, MapThenFoldSet

\* What PayoutPromise's variables stand for.
credits == [i \in 1..Len(ledger) |-> [minerAddress |-> ledger[i].minerAddress,
                                      amountSats |-> ledger[i].amountSats]]
paid == {i \in 1..Len(ledger) : TxsPaying(i) # {}}
confirmed == {i \in 1..Len(ledger) : \E t \in TxsPaying(i) : txs[t].peak >= Confirmations}
received == [m \in Miners |-> SumOver([t \in 1..Len(txs) |-> SentTo(m, t)], 1..Len(txs))]
shown == [i \in 1..Len(ledger) |-> ledger[i].status]

\* The rows of a candidate, and its amount.
LEMMA AmountInt ==
  ASSUME PayoutTypeOK, NEW c, Grounded(c)
  PROVE  /\ IsFiniteSet(c.rows) /\ c.rows \subseteq DOMAIN ledger
         /\ \A i \in c.rows : ledger[i].amountSats \in Int
         /\ totalPendingSats(ledger, c) \in Int
<1> DEFINE f == [i \in DOMAIN ledger |-> ledger[i].amountSats]
<1>1. /\ ledger \in Seq(PayoutLedgerEntity) /\ Len(ledger) \in Nat
      /\ DOMAIN ledger = 1..Len(ledger)
  BY LenProperties DEF PayoutTypeOK
<1>2. c.rows \subseteq 1..Len(ledger)
  BY DEF Grounded
<1>3. IsFiniteSet(c.rows)
  <2>1. IsFiniteSet(1..Len(ledger))
    BY <1>1, FS_Interval
  <2> QED BY <1>2, <2>1, FS_Subset
<1>4. \A i \in c.rows : ledger[i].amountSats \in Int
  <2>1. \A i \in c.rows : ledger[i] \in PayoutLedgerEntity
    BY <1>1, <1>2, ElementOfSeq
  <2> QED BY <2>1 DEF PayoutLedgerEntity
<1>5. \A i \in c.rows : f[i] \in Int
  BY <1>1, <1>2, <1>4
<1>6. totalPendingSats(ledger, c) = SumOver(f, c.rows)
  BY DEF totalPendingSats, SumSats
<1> HIDE DEF f
<1>7. SumOver(f, c.rows) \in Int
  BY <1>3, <1>5, SumType
<1> QED BY <1>1, <1>2, <1>3, <1>4, <1>6, <1>7

\* A candidate's amount does not change while its rows keep their amounts.
LEMMA AmountStable ==
  ASSUME PayoutTypeOK, PayoutTypeOK', LedgerAdvances, NEW c, Grounded(c)
  PROVE  totalPendingSats(ledger, c)' = totalPendingSats(ledger, c)
<1> DEFINE f == [i \in DOMAIN ledger |-> ledger[i].amountSats]
           g == [i \in DOMAIN ledger' |-> ledger'[i].amountSats]
<1>1. /\ IsFiniteSet(c.rows) /\ c.rows \subseteq DOMAIN ledger
      /\ \A i \in c.rows : ledger[i].amountSats \in Int
  BY AmountInt
<1>2. DOMAIN ledger = 1..Len(ledger) /\ DOMAIN ledger' = 1..Len(ledger')
  BY LenProperties DEF PayoutTypeOK
<1>3. \A i \in c.rows : f[i] \in Int /\ f[i] = g[i]
  BY <1>1, <1>2 DEF LedgerAdvances, RowAdvances
<1>4. /\ totalPendingSats(ledger, c) = SumOver(f, c.rows)
      /\ totalPendingSats(ledger, c)' = SumOver(g, c.rows)
  BY DEF totalPendingSats, SumSats
<1> HIDE DEF f, g
<1>5. SumOver(f, c.rows) = SumOver(g, c.rows)
  BY <1>1, <1>3, SumAgree
<1> QED BY <1>4, <1>5

\* What a transaction sends a miner is fixed when it is broadcast.
LEMMA SentToStable ==
  ASSUME PayoutTypeOK, PayoutTypeOK', LedgerAdvances, TxsInv, NEW t \in 1..Len(txs),
         txs'[t].candidates = txs[t].candidates, NEW m
  PROVE  SentTo(m, t)' = SentTo(m, t)
<1> DEFINE own == {c \in txs[t].candidates : c.minerAddress = m}
           A(c) == totalPendingSats(ledger, c)
           B(c) == totalPendingSats(ledger', c)
<1>1. \A c \in own : A(c) = B(c)
  <2> SUFFICES ASSUME NEW c \in own PROVE A(c) = B(c)
    OBVIOUS
  <2>1. Grounded(c)
    BY DEF TxsInv
  <2>2. totalPendingSats(ledger, c)' = totalPendingSats(ledger, c)
    BY <2>1, AmountStable
  <2> QED BY <2>2
<1>2. SentTo(m, t) = SumOver([c \in own |-> A(c)], own)
  BY DEF SentTo
<1>3. SentTo(m, t)' = SumOver([c \in own |-> B(c)], own)
  BY DEF SentTo
<1> HIDE DEF own, A, B
<1>4. [c \in own |-> A(c)] = [c \in own |-> B(c)]
  BY <1>1
<1> QED BY <1>2, <1>3, <1>4

\* A sum over at most one candidate.
LEMMA SentToOne ==
  ASSUME PayoutTypeOK, BatchInv, TxsInv, NEW t \in 1..Len(txs), NEW m
  PROVE  /\ SentTo(m, t) \in Int
         /\ \A c \in txs[t].candidates : c.minerAddress = m =>
              SentTo(m, t) = totalPendingSats(ledger, c)
         /\ (\A c \in txs[t].candidates : c.minerAddress # m) => SentTo(m, t) = 0
<1> DEFINE own == {c \in txs[t].candidates : c.minerAddress = m}
           f == [c \in own |-> totalPendingSats(ledger, c)]
<1>1. SentTo(m, t) = SumOver(f, own)
  BY DEF SentTo
<1>2. \A c \in own : f[c] \in Int
  <2> SUFFICES ASSUME NEW c \in own PROVE totalPendingSats(ledger, c) \in Int
    OBVIOUS
  <2>1. Grounded(c)
    BY DEF TxsInv
  <2> QED BY <2>1, AmountInt
<1>3. \A c, d \in own : c = d
  BY DEF BatchInv, OnePerMiner
<1>4. CASE own = {}
  <2>1. SentTo(m, t) = 0
    BY <1>1, <1>4, SumEmpty
  <2> QED BY <1>4, <2>1
<1>5. ASSUME NEW c \in own PROVE SentTo(m, t) = totalPendingSats(ledger, c)
  <2>1. own = {c} /\ f[c] = totalPendingSats(ledger, c)
    BY <1>3, <1>5
  <2>2. IsFiniteSet({c}) /\ {c} \ {c} = {}
    BY FS_Singleton
  <2>3. \A x \in {c} : f[x] \in Int
    BY <1>2, <2>1
  <2> HIDE DEF f, own
  <2>4. SumOver(f, {c}) = f[c] + SumOver(f, {c} \ {c})
    BY <2>2, <2>3, SumRemove
  <2>5. SumOver(f, {c} \ {c}) = 0
    BY <2>2, SumEmpty
  <2>6. SumOver(f, {c}) = f[c]
    BY <2>3, <2>4, <2>5
  <2> QED BY <1>1, <2>1, <2>6
<1>6. \A c \in own : totalPendingSats(ledger, c) \in Int
  BY <1>2
<1> QED BY <1>4, <1>5, <1>6

\* A step that broadcasts nothing pays nothing.
LEMMA PaidStable ==
  ASSUME PayoutTypeOK, PayoutTypeOK', TxsInv, LedgerAdvances, TxsAdvance, Len(txs') = Len(txs)
  PROVE  /\ \A i : TxsPaying(i)' = TxsPaying(i)
         /\ \A i : TxsPaying(i) # {} => i \in 1..Len(ledger)
         /\ paid' = paid /\ received' = received
<1>1. \A t \in 1..Len(txs) : t \in 1..Len(txs') /\ txs'[t].candidates = txs[t].candidates
  BY DEF TxsAdvance
<1>2. \A t \in 1..Len(txs) : PaidRows(t)' = PaidRows(t)
  BY <1>1 DEF PaidRows
<1>3. \A i : TxsPaying(i)' = TxsPaying(i)
  BY <1>2 DEF TxsPaying
<1>4. \A i : TxsPaying(i) # {} => i \in 1..Len(ledger)
  BY DEF TxsPaying, PaidRows, TxsInv, Grounded
<1>5. \A i \in 1..Len(ledger) : i \in 1..Len(ledger')
  BY DEF LedgerAdvances, RowAdvances
<1>6. paid' = paid
  <2>1. paid' = {i \in 1..Len(ledger') : TxsPaying(i)' # {}}
    BY DEF paid
  <2> QED BY <1>3, <1>4, <1>5, <2>1 DEF paid
<1>7. received' = received
  <2>1. ASSUME NEW m PROVE [t \in 1..Len(txs') |-> SentTo(m, t)'] = [t \in 1..Len(txs) |-> SentTo(m, t)]
    <3>1. \A t \in 1..Len(txs) : SentTo(m, t)' = SentTo(m, t)
      BY <1>1, SentToStable
    <3> QED BY <3>1
  <2> DEFINE f(m) == SumOver([t \in 1..Len(txs) |-> SentTo(m, t)], 1..Len(txs))
             g(m) == SumOver([t \in 1..Len(txs') |-> SentTo(m, t)'], 1..Len(txs'))
  <2>2. \A m : f(m) = g(m)
    BY <2>1
  <2>3. received = [m \in Miners |-> f(m)]
    BY DEF received
  <2>4. received' = [m \in Miners |-> g(m)]
    BY DEF received
  <2> HIDE DEF f, g
  <2> QED BY <2>2, <2>3, <2>4
<1> QED BY <1>3, <1>4, <1>6, <1>7

\* A confirmation can only add to what is confirmed, and only what was paid is.
LEMMA ConfirmedGrows ==
  ASSUME PayoutTypeOK, PayoutTypeOK', TxsInv, LedgerAdvances, TxsAdvance, Len(txs') = Len(txs)
  PROVE  /\ confirmed \subseteq confirmed' /\ confirmed' \subseteq paid
         /\ txs' = txs => confirmed' = confirmed
<1>1. /\ \A i : TxsPaying(i)' = TxsPaying(i)
      /\ \A i : TxsPaying(i) # {} => i \in 1..Len(ledger)
  BY PaidStable
<1>2. confirmed' = {i \in 1..Len(ledger') : \E t \in TxsPaying(i)' : txs'[t].peak >= Confirmations}
  BY DEF confirmed
<1>3. \A i \in 1..Len(ledger) : i \in 1..Len(ledger')
  BY DEF LedgerAdvances, RowAdvances
<1>4. \A t \in 1..Len(txs) : txs[t].peak >= Confirmations => txs'[t].peak >= Confirmations
  <2>1. \A t \in 1..Len(txs) : txs[t] \in Transaction /\ txs'[t] \in Transaction
    BY ElementOfSeq DEF PayoutTypeOK, TxsAdvance
  <2>2. \A t \in 1..Len(txs) : txs[t].peak \in Nat /\ txs'[t].peak \in Nat
    BY <2>1 DEF Transaction
  <2> QED BY <2>2, ConstantsAssumption DEF TxsAdvance
<1>5. \A i : TxsPaying(i) \subseteq 1..Len(txs)
  BY DEF TxsPaying
<1>6. confirmed \subseteq confirmed'
  BY <1>1, <1>2, <1>3, <1>4, <1>5 DEF confirmed
<1>7. confirmed' \subseteq paid
  BY <1>1, <1>2 DEF paid
<1>8. ASSUME txs' = txs PROVE confirmed' = confirmed
  BY <1>1, <1>2, <1>3, <1>8 DEF confirmed
<1> QED BY <1>6, <1>7, <1>8

\* Steps that touch neither the ledger nor the wallet's transactions are stutters.
LEMMA QuietIsStutter ==
  ASSUME ledger' = ledger, txs' = txs
  PROVE  UNCHANGED Promise!vars
BY DEF Promise!vars, TxsPaying, PaidRows, SentTo, totalPendingSats, SumSats

\* Append as a function.
LEMMA AppendIs ==
  ASSUME NEW R, NEW q \in Seq(R), NEW e \in R
  PROVE  Append(q, e) = [i \in 1..(Len(q) + 1) |-> IF i = Len(q) + 1 THEN e ELSE q[i]]
<1> DEFINE a == Append(q, e)
           n == Len(q) + 1
<1>1. /\ a \in Seq(R) /\ Len(a) = n /\ a[n] = e /\ \A i \in 1..Len(q) : a[i] = q[i]
  BY AppendProperties
<1>2. Len(q) \in Nat /\ 1..n = (1..Len(q)) \cup {n} /\ n \notin 1..Len(q)
  BY LenProperties
<1>3. DOMAIN a = 1..n /\ a = [i \in DOMAIN a |-> a[i]]
  BY <1>1, LenProperties
<1> HIDE DEF a, n
<1>4. a = [i \in 1..n |-> IF i = n THEN e ELSE q[i]]
  BY <1>1, <1>2, <1>3
<1> QED BY <1>4 DEF a, n

\* A credit is earned.
LEMMA CreditIsEarn ==
  ASSUME PayoutTypeOK, PayoutTypeOK', TxsInv, LedgerAdvances, TxsAdvance, NEW m \in Miners,
         NEW a \in Amounts, NEW h \in 1..tip, Len(ledger) < MaxRows, Credit(m, a, h)
  PROVE  Promise!Earn \/ UNCHANGED Promise!vars
<1>0. /\ a \in Nat /\ h \in Nat /\ ledger \in Seq(PayoutLedgerEntity) /\ Len(ledger) \in Nat
  BY ConstantsAssumption, LenProperties DEF PayoutTypeOK
<1>1. txs' = txs /\ ledger' = credit(ledger, m, a, h)
  BY DEF Credit
<1>2. CASE a = 0
  <2>1. ledger' = ledger
    BY <1>1, <1>2 DEF credit
  <2> QED BY <1>1, <2>1, QuietIsStutter
<1>3. CASE a # 0
  <2> DEFINE n == Len(ledger) + 1
             r == [minerAddress |-> m, blockHeight |-> h, amountSats |-> a,
                   status |-> "PENDING", txid |-> NoTx]
             x == [minerAddress |-> m, amountSats |-> a]
  <2>1. ledger' = Append(ledger, r)
    BY <1>0, <1>1, <1>3 DEF credit
  <2>2. r.minerAddress = m /\ r.amountSats = a /\ r.status = "PENDING"
    OBVIOUS
  <2> HIDE DEF r
  <2>3. /\ Len(ledger') = n /\ ledger'[n] = r
        /\ \A i \in 1..Len(ledger) : ledger'[i] = ledger[i]
    BY <1>0, <2>1
  <2>4. 1..n = (1..Len(ledger)) \cup {n} /\ n \notin 1..Len(ledger)
    BY <1>0
  <2>5. x \in [minerAddress : Miners, amountSats : Nat \ {0}]
    BY <1>0, <1>3
  <2>6. credits' = Append(credits, x) /\ Len(credits) = Len(ledger) /\ Len(credits') = n
        /\ credits'[n] = x
    <3> DEFINE R == [minerAddress : Miners, amountSats : Nat]
    <3>1. \A i \in 1..Len(ledger) : ledger[i] \in PayoutLedgerEntity
      BY <1>0
    <3>2. \A i \in 1..Len(ledger) :
            [minerAddress |-> ledger[i].minerAddress, amountSats |-> ledger[i].amountSats] \in R
      BY <3>1 DEF PayoutLedgerEntity
    <3> HIDE DEF R
    <3>3. credits \in Seq(R) /\ Len(credits) = Len(ledger)
      <4>1. credits \in [1..Len(ledger) -> R]
        BY <3>2 DEF credits
      <4>2. credits \in Seq(R)
        BY <1>0, <4>1
      <4>3. DOMAIN credits = 1..Len(ledger)
        BY <4>1
      <4> QED BY <1>0, <4>2, <4>3
    <3>4. credits' = [i \in 1..n |-> [minerAddress |-> ledger'[i].minerAddress,
                                      amountSats |-> ledger'[i].amountSats]]
      BY <2>3 DEF credits
    <3>5. credits'[n] = x /\ \A i \in 1..Len(ledger) : credits'[i] = credits[i]
      BY <2>2, <2>3, <2>4, <3>4 DEF credits
    <3>6. Append(credits, x) = [i \in 1..n |-> IF i = n THEN x ELSE credits[i]]
      <4>1. x \in R
        BY <2>5 DEF R
      <4> QED BY <3>3, <4>1, AppendIs
    <3> HIDE DEF x
    <3>7. credits' = Append(credits, x)
      BY <2>4, <3>4, <3>5, <3>6
    <3> QED BY <1>0, <3>3, <3>5, <3>7
  <2>7. shown' = Append(shown, "PENDING")
    <3>1. shown \in Seq(ePayoutStatus) /\ Len(shown) = Len(ledger)
      <4>1. \A i \in 1..Len(ledger) : ledger[i] \in PayoutLedgerEntity
        BY <1>0
      <4>2. shown \in [1..Len(ledger) -> ePayoutStatus]
        BY <4>1 DEF shown, PayoutLedgerEntity
      <4>3. shown \in Seq(ePayoutStatus) /\ DOMAIN shown = 1..Len(ledger)
        BY <1>0, <4>2
      <4> QED BY <1>0, <4>3
    <3>2. Append(shown, "PENDING") = [i \in 1..n |-> IF i = n THEN "PENDING" ELSE shown[i]]
      <4>1. "PENDING" \in ePayoutStatus
        BY DEF ePayoutStatus
      <4> QED BY <3>1, <4>1, AppendIs
    <3>3. shown' = [i \in 1..n |-> ledger'[i].status]
      BY <2>3 DEF shown
    <3> QED BY <2>2, <2>3, <2>4, <3>2, <3>3 DEF shown
  <2>8. paid' = paid /\ received' = received /\ confirmed' = confirmed
    BY <1>1, PaidStable, ConfirmedGrows
  <2> HIDE DEF x, n
  <2>9. /\ Len(credits') = Len(credits) + 1 /\ credits' = Append(credits, credits'[Len(credits) + 1])
        /\ credits'[Len(credits) + 1] \in [minerAddress : Miners, amountSats : Nat \ {0}]
    BY <2>5, <2>6 DEF n
  <2> QED BY <2>7, <2>8, <2>9 DEF Promise!Earn, credits, shown, paid, received, confirmed
<1> QED BY <1>2, <1>3

\* The ledger shows what is paid, then what is confirmed.
LEMMA LedgerShows ==
  ASSUME PayoutTypeOK, PayoutTypeOK', TxsInv, LedgerAdvances, TxsAdvance, txs' = txs, Len(ledger') = Len(ledger),
         NEW from, NEW to, NEW truth, NEW S \in SUBSET truth, truth \subseteq 1..Len(ledger),
         \A i \in S : ledger[i].status = from /\ ledger'[i].status = to,
         \A i \in (1..Len(ledger)) \ S : ledger'[i].status = ledger[i].status
  PROVE  Promise!Show(S, from, to, truth)
<1>1. paid' = paid /\ received' = received /\ confirmed' = confirmed
  BY PaidStable, ConfirmedGrows
<1>2. credits' = credits
  <2>1. \A i \in 1..Len(ledger) : /\ ledger'[i].minerAddress = ledger[i].minerAddress
                                  /\ ledger'[i].amountSats = ledger[i].amountSats
    BY DEF LedgerAdvances, RowAdvances
  <2> QED BY <2>1 DEF credits
<1>3. shown' = [i \in DOMAIN shown |-> IF i \in S THEN to ELSE shown[i]]
  BY DEF shown
<1>4. \A i \in S : shown[i] = from
  BY DEF shown
<1> QED BY <1>1, <1>2, <1>3, <1>4 DEF Promise!Show, credits, shown, paid, received, confirmed

\* markSentUpTo shows as SENT only credits its transaction paid.
LEMMA MarkSentIsShow ==
  ASSUME PayoutTypeOK, PayoutTypeOK', PayoutInv, OrderedCredits, LedgerAdvances, TxsAdvance,
         NEW s \in Slots, NEW c \in cycle[s].todo, MarkSent(s, c)
  PROVE  \E S \in SUBSET (1..Len(ledger)) : Promise!Show(S, "PENDING", "SENT", paid)
<1> DEFINE t == cycle[s].txid
<1>0. PICK S : S = {i \in 1..Len(ledger) :
                   /\ ledger[i].minerAddress = c.minerAddress /\ i <= c.maxRowId
                   /\ ledger[i].status = "PENDING"}
  OBVIOUS
<1>00. PICK truth : truth = paid
  OBVIOUS
<1>1. /\ txs' = txs /\ cycle[s].pc = "mark"
      /\ ledger' = markSentUpTo(ledger, c.minerAddress, c.maxRowId, t)
  BY DEF MarkSent
<1>2. ledger \in Seq(PayoutLedgerEntity) /\ t \in Nat /\ c \in IPendingPayoutCandidate
  BY DEF PayoutTypeOK, CycleState
<1>3. CycleOK(s) /\ TxsInv
  BY DEF PayoutInv
<1>4. /\ t \in 1..Len(txs) /\ c \in txs[t].candidates /\ Covered(c)
  BY <1>1, <1>3 DEF CycleOK
<1>5. S \subseteq paid
  <2> SUFFICES ASSUME NEW i \in S PROVE i \in paid
    OBVIOUS
  <2>1. i \in 1..c.maxRowId
    BY <1>0, <1>2 DEF IPendingPayoutCandidate
  <2>2. i \in c.rows
    BY <1>0, <1>4, <2>1 DEF Covered
  <2>3. t \in TxsPaying(i)
    BY <1>4, <2>2 DEF TxsPaying, PaidRows
  <2> QED BY <1>0, <2>3 DEF paid
<1>6. Len(ledger') = Len(ledger)
  BY <1>1, <1>2, MarkSentType
<1>7. \A i \in 1..Len(ledger) :
        /\ i \in S => ledger'[i].status = "SENT"
        /\ i \notin S => ledger'[i] = ledger[i]
  <2> SUFFICES ASSUME NEW i \in 1..Len(ledger)
               PROVE  /\ i \in S => ledger'[i].status = "SENT"
                      /\ i \notin S => ledger'[i] = ledger[i]
    OBVIOUS
  <2> DEFINE m == c.minerAddress
             k == c.maxRowId
  <2>1. LET r == markSentUpTo(ledger, m, k, t)[i]
            hit == ledger[i].minerAddress = m /\ i <= k /\ ledger[i].status = "PENDING"
        IN  /\ hit => r.status = "SENT" /\ r.txid = t
            /\ ~hit => r = ledger[i]
    BY <1>2, MarkSentRows
  <2> QED BY <1>0, <1>1, <2>1
<1>8. /\ \A i \in S : ledger[i].status = "PENDING" /\ ledger'[i].status = "SENT"
      /\ \A i \in (1..Len(ledger)) \ S : ledger'[i].status = ledger[i].status
      /\ paid \subseteq 1..Len(ledger) /\ S \in SUBSET (1..Len(ledger)) /\ S \in SUBSET paid
  BY <1>0, <1>5, <1>7 DEF paid
<1>9. Promise!Show(S, "PENDING", "SENT", truth)
  <2>1. truth \subseteq 1..Len(ledger) /\ S \in SUBSET truth
    BY <1>00, <1>8
  <2> QED BY <1>1, <1>3, <1>6, <1>8, <2>1, LedgerShows
<1>10. Promise!Show(S, "PENDING", "SENT", paid)
  BY <1>00, <1>9 DEF Promise!Show, paid
<1> QED BY <1>8, <1>10

\* markConfirmed shows as CONFIRMED only credits whose transaction is.
LEMMA MarkConfirmedIsShow ==
  ASSUME PayoutTypeOK, PayoutTypeOK', PayoutInv, OrderedCredits, LedgerAdvances, TxsAdvance,
         NEW s \in Slots, MarkConfirmed(s)
  PROVE  \E S \in SUBSET (1..Len(ledger)) : Promise!Show(S, "SENT", "CONFIRMED", confirmed)
<1> DEFINE t == recon[s].txid
<1>0. PICK S : S = {i \in 1..Len(ledger) : ledger[i].txid = t /\ ledger[i].status = "SENT"}
  OBVIOUS
<1>00. PICK truth : truth = confirmed
  OBVIOUS
<1>1. /\ txs' = txs /\ recon[s].pc = "confirm" /\ ledger' = markConfirmed(ledger, t)
  BY DEF MarkConfirmed
<1>2. ledger \in Seq(PayoutLedgerEntity) /\ t \in Nat
  BY DEF PayoutTypeOK, ReconState
<1>3. ReconOK(s) /\ SentRowsWerePaid /\ TxsInv
  BY DEF PayoutInv
<1>4. t \in 1..Len(txs) /\ txs[t].peak >= Confirmations
  BY <1>1, <1>3 DEF ReconOK
<1>5. S \subseteq confirmed
  <2> SUFFICES ASSUME NEW i \in S PROVE i \in confirmed
    OBVIOUS
  <2>1. t \in TxsPaying(i)
    BY <1>0, <1>3, <1>4 DEF SentRowsWerePaid, TxsPaying, PaidRows
  <2> QED BY <1>0, <1>4, <2>1 DEF confirmed
<1>6. Len(ledger') = Len(ledger)
  BY <1>1, <1>2, MarkConfirmedType
<1>7. \A i \in 1..Len(ledger) :
        /\ i \in S => ledger'[i].status = "CONFIRMED"
        /\ i \notin S => ledger'[i] = ledger[i]
  <2> SUFFICES ASSUME NEW i \in 1..Len(ledger)
               PROVE  /\ i \in S => ledger'[i].status = "CONFIRMED"
                      /\ i \notin S => ledger'[i] = ledger[i]
    OBVIOUS
  <2>1. LET r == markConfirmed(ledger, t)[i]
            hit == ledger[i].txid = t /\ ledger[i].status = "SENT"
        IN  /\ hit => r.status = "CONFIRMED"
            /\ ~hit => r = ledger[i]
    BY <1>2, MarkConfirmedRows
  <2> QED BY <1>0, <1>1, <2>1
<1>8. /\ \A i \in S : ledger[i].status = "SENT" /\ ledger'[i].status = "CONFIRMED"
      /\ \A i \in (1..Len(ledger)) \ S : ledger'[i].status = ledger[i].status
      /\ confirmed \subseteq 1..Len(ledger) /\ S \in SUBSET (1..Len(ledger)) /\ S \in SUBSET confirmed
  BY <1>0, <1>5, <1>7 DEF confirmed
<1>9. Promise!Show(S, "SENT", "CONFIRMED", truth)
  <2>1. truth \subseteq 1..Len(ledger) /\ S \in SUBSET truth
    BY <1>00, <1>8
  <2> QED BY <1>1, <1>3, <1>6, <1>8, <2>1, LedgerShows
<1>10. Promise!Show(S, "SENT", "CONFIRMED", confirmed)
  BY <1>00, <1>9 DEF Promise!Show, confirmed
<1> QED BY <1>8, <1>10

\* A confirmation or a reorganisation.
LEMMA TxChangeIsConfirm ==
  ASSUME PayoutTypeOK, PayoutTypeOK', PayoutInv, TxsAdvance, LedgerAdvances, NEW t \in 1..Len(txs),
         TxConfirmed(t) \/ TxDisconnected(t)
  PROVE  \E S \in SUBSET (1..Len(ledger)) : Promise!Confirm(S)
<1>1. ledger' = ledger /\ TxsInv /\ txs \in Seq(Transaction)
  BY DEF TxConfirmed, TxDisconnected, PayoutInv, PayoutTypeOK
<1>2. Len(txs') = Len(txs)
  <2>1. \E x : txs' = [txs EXCEPT ![t] = x]
    BY DEF TxConfirmed, TxDisconnected
  <2> QED BY <1>1, <2>1
<1>3. paid' = paid /\ received' = received
  BY <1>1, <1>2, PaidStable
<1>4. confirmed \subseteq confirmed' /\ confirmed' \subseteq paid
  BY <1>1, <1>2, ConfirmedGrows
<1>5. credits' = credits /\ shown' = shown
  BY <1>1 DEF credits, shown
<1>0. PICK S : S = confirmed'
  OBVIOUS
<1>6. S \subseteq paid /\ confirmed' = confirmed \cup S /\ S \in SUBSET (1..Len(ledger))
  BY <1>0, <1>4 DEF paid
<1>7. Promise!Confirm(S)
  BY <1>3, <1>5, <1>6 DEF Promise!Confirm, credits, shown, paid, received, confirmed
<1> QED BY <1>6, <1>7

\* What every transaction sends every miner: the pending credits of the miner's one
\* candidate, or nothing.
SentToExact ==
  \A t \in 1..Len(txs) : \A m \in Miners :
    /\ SentTo(m, t) \in Int
    /\ \A c \in txs[t].candidates : c.minerAddress = m =>
         SentTo(m, t) = totalPendingSats(ledger, c)
    /\ (\A c \in txs[t].candidates : c.minerAddress # m) => SentTo(m, t) = 0

\* SentToOne for all transactions and miners at once.
LEMMA SentToAll == PayoutTypeOK /\ BatchInv /\ TxsInv => SentToExact
BY SentToOne DEF SentToExact

\* SentToOne, for the state after a step.
LEMMA SentToOneNext ==
  ASSUME PayoutTypeOK', BatchInv', TxsInv', NEW t \in 1..Len(txs'), NEW m \in Miners
  PROVE  /\ SentTo(m, t)' \in Int
         /\ \A c \in txs'[t].candidates : c.minerAddress = m =>
              SentTo(m, t)' = totalPendingSats(ledger', c)
         /\ (\A c \in txs'[t].candidates : c.minerAddress # m) => SentTo(m, t)' = 0
<1>1. (PayoutTypeOK /\ BatchInv /\ TxsInv)' => SentToExact'
  BY SentToAll, PTL
<1>2. SentToExact'
  BY <1>1
<1> QED BY <1>2 DEF SentToExact

\* The rows of a batch that are a miner's.
LEMMA OwnRows ==
  ASSUME NEW C, OnePerMiner(C), \A c \in C : Grounded(c), NEW m
  PROVE  LET own == {i \in UNION {c.rows : c \in C} : ledger[i].minerAddress = m}
         IN  /\ \A c \in C : c.minerAddress = m => own = c.rows
             /\ (\A c \in C : c.minerAddress # m) => own = {}
BY DEF OnePerMiner, Grounded

\* What the new transaction sends a miner is the sum of its credits in the batch.
LEMMA BatchAmount ==
  ASSUME PayoutTypeOK', BatchInv', TxsInv', PayoutTypeOK, ledger' = ledger, NEW n \in 1..Len(txs'),
         NEW m \in Miners, NEW S, S = UNION {c.rows : c \in txs'[n].candidates},
         OnePerMiner(txs'[n].candidates), \A c \in txs'[n].candidates : Grounded(c)
  PROVE  SentTo(m, n)' = SumOver([i \in DOMAIN credits |-> credits[i].amountSats],
                                 {i \in S : credits[i].minerAddress = m})
<1> DEFINE f == [i \in DOMAIN ledger |-> ledger[i].amountSats]
           g == [i \in DOMAIN credits |-> credits[i].amountSats]
           C == txs'[n].candidates
           own == {i \in S : ledger[i].minerAddress = m}
<1>1. DOMAIN ledger = 1..Len(ledger)
  BY LenProperties DEF PayoutTypeOK
<1>2. f = g
  BY <1>1 DEF credits
<1>3. {i \in S : credits[i].minerAddress = m} = own
  <2>1. S \subseteq 1..Len(ledger)
    BY DEF Grounded
  <2> QED BY <2>1 DEF credits
<1>4. /\ \A c \in C : c.minerAddress = m => SentTo(m, n)' = totalPendingSats(ledger', c)
      /\ (\A c \in C : c.minerAddress # m) => SentTo(m, n)' = 0
  BY SentToOneNext
<1>5. /\ \A c \in C : c.minerAddress = m => own = c.rows
      /\ (\A c \in C : c.minerAddress # m) => own = {}
  BY OwnRows
<1>6. \A c : totalPendingSats(ledger', c) = SumOver(f, c.rows)
  BY DEF totalPendingSats, SumSats
<1> HIDE DEF f, g, own, C
<1>7. SentTo(m, n)' = SumOver(f, own)
  <2>1. CASE \A c \in C : c.minerAddress # m
    BY <1>4, <1>5, <2>1, SumEmpty
  <2>2. CASE \E c \in C : c.minerAddress = m
    <3>1. PICK c \in C : c.minerAddress = m
      BY <2>2
    <3> QED BY <1>4, <1>5, <1>6, <3>1
  <2> QED BY <2>1, <2>2
<1> QED BY <1>2, <1>3, <1>7 DEF g

\* sendmany pays credits that no transaction had paid, and sends every miner their sum.
LEMMA SendmanyIsPay ==
  ASSUME PayoutTypeOK, PayoutTypeOK', PayoutInv, TxsInv', NeverPaidTwice', BatchInv, BatchInv',
         TxsAdvance, LedgerAdvances, NEW s \in Slots, sendmany(s)
  PROVE  \E S \in SUBSET (1..Len(ledger)) : Promise!Pay(S)
<1> DEFINE N == Len(txs)
<1>n. PICK n : n = N + 1
  OBVIOUS
<1>0. PICK S : S = UNION {c.rows : c \in cycle[s].candidates}
  OBVIOUS
<1> DEFINE x == [candidates |-> cycle[s].candidates, confirmations |-> 0, peak |-> 0]
<1>1. ledger' = ledger /\ txs' = Append(txs, x) /\ cycle[s].pc \in Sending
  BY DEF sendmany, Broadcast
<1>2. N \in Nat /\ txs \in Seq(Transaction) /\ x.candidates = cycle[s].candidates /\ x.peak = 0
  BY LenProperties DEF PayoutTypeOK
<1> HIDE DEF x
<1>3. /\ Len(txs') = n /\ txs'[n].candidates = cycle[s].candidates /\ txs'[n].peak = 0
      /\ \A t \in 1..N : txs'[t] = txs[t]
  BY <1>n, <1>1, <1>2
<1>4. 1..n = (1..N) \cup {n} /\ n \notin 1..N
  BY <1>n, <1>2
<1>5. /\ \A c \in cycle[s].candidates : Grounded(c)
      /\ cycle[s].candidates # {} /\ \A c \in cycle[s].candidates : c.maxRowId \in c.rows
      /\ OnePerMiner(cycle[s].candidates) /\ TxsInv
  BY <1>1 DEF PayoutInv, CycleOK, BatchInv, BatchOK, Sending
<1>6. S # {} /\ S \subseteq 1..Len(ledger)
  BY <1>0, <1>5 DEF Grounded
<1>7. (\A t \in 1..N : PaidRows(t)' = PaidRows(t)) /\ PaidRows(n)' = S
  BY <1>0, <1>3 DEF PaidRows
<1>8. \A t \in 1..N : PaidRows(t) \cap S = {}
  BY <1>3, <1>4, <1>7 DEF NeverPaidTwice
<1>9. \A i : TxsPaying(i)' = TxsPaying(i) \cup (IF i \in S THEN {n} ELSE {})
  BY <1>3, <1>4, <1>7 DEF TxsPaying
<1>10. S \cap paid = {} /\ paid' = paid \cup S
  <2>1. S \cap paid = {}
    BY <1>8 DEF paid, TxsPaying
  <2>2. paid' = {i \in 1..Len(ledger) : TxsPaying(i)' # {}}
    BY <1>1 DEF paid
  <2> QED BY <1>6, <1>9, <2>1, <2>2 DEF paid
<1>11. confirmed' = confirmed
  <2>1. confirmed' = {i \in 1..Len(ledger) : \E t \in TxsPaying(i)' : txs'[t].peak >= Confirmations}
    BY <1>1 DEF confirmed
  <2>2. ~(txs'[n].peak >= Confirmations)
    BY <1>3, ConstantsAssumption
  <2>3. \A i : TxsPaying(i) \subseteq 1..N
    BY DEF TxsPaying
  <2> QED BY <1>3, <1>9, <2>1, <2>2, <2>3 DEF confirmed
<1>12. credits' = credits /\ shown' = shown
  BY <1>1 DEF credits, shown
<1> DEFINE a == [i \in DOMAIN credits |-> credits[i].amountSats]
           R(m) == {i \in S : credits[i].minerAddress = m}
<1>13. ASSUME NEW m \in Miners
       PROVE  received'[m] = received[m] + SumOver(a, R(m))
  <2> DEFINE f == [t \in 1..N |-> SentTo(m, t)]
             g == [t \in 1..n |-> SentTo(m, t)']
  <2>1. received[m] = SumOver(f, 1..N)
    BY DEF received
  <2>2. received'[m] = SumOver(g, 1..n)
    BY <1>3 DEF received
  <2>3. \A t \in 1..N : f[t] \in Int /\ f[t] = g[t]
    <3> SUFFICES ASSUME NEW t \in 1..N PROVE SentTo(m, t) \in Int /\ SentTo(m, t)' = SentTo(m, t)
      BY <1>4
    <3>1. SentTo(m, t) \in Int
      BY <1>5, SentToOne
    <3>2. SentTo(m, t)' = SentTo(m, t)
      BY <1>3, <1>5, SentToStable
    <3> QED BY <3>1, <3>2
  <2>4. g[n] = SumOver(a, R(m))
    <3>1. SentTo(m, n)' = SumOver([i \in DOMAIN credits |-> credits[i].amountSats],
                                  {i \in S : credits[i].minerAddress = m})
      <4>1. n \in 1..Len(txs')
        BY <1>3, <1>4
      <4>2. /\ OnePerMiner(txs'[n].candidates) /\ \A c \in txs'[n].candidates : Grounded(c)
            /\ S = UNION {c.rows : c \in txs'[n].candidates}
        BY <1>0, <1>3, <1>5
      <4> QED BY <1>1, <4>1, <4>2, BatchAmount
    <3>2. g[n] = SentTo(m, n)'
      BY <1>4
    <3> QED BY <3>1, <3>2
  <2>5. g[n] \in Int
    <3>1. SentTo(m, n)' \in Int
      BY <1>3, <1>4, SentToOneNext
    <3> QED BY <1>4, <3>1
  <2> HIDE DEF f, g, a, R
  <2>6. SumOver(g, (1..N) \cup {n}) = g[n] + SumOver(g, 1..N)
    <3>1. IsFiniteSet(1..N)
      BY <1>2, FS_Interval
    <3>2. \A t \in (1..N) \cup {n} : g[t] \in Int
      BY <2>3, <2>5
    <3> QED BY <1>4, <3>1, <3>2, SumAdd
  <2>7. SumOver(f, 1..N) = SumOver(g, 1..N) /\ SumOver(f, 1..N) \in Int
    <3>1. IsFiniteSet(1..N) /\ \A t \in 1..N : f[t] \in Int
      BY <1>2, <2>3, FS_Interval
    <3>2. SumOver(f, 1..N) \in Int
      BY <3>1, SumType
    <3>3. SumOver(f, 1..N) = SumOver(g, 1..N)
      BY <2>3, <3>1, SumAgree
    <3> QED BY <3>2, <3>3
  <2>8. received'[m] = SumOver(a, R(m)) + received[m]
    <3>1. SumOver(g, 1..n) = SumOver(g, (1..N) \cup {n})
      BY <1>4
    <3> QED BY <2>1, <2>2, <2>4, <2>6, <2>7, <3>1
  <2>9. received[m] \in Int /\ SumOver(a, R(m)) \in Int
    BY <2>1, <2>4, <2>5, <2>7
  <2>10. \A u, v \in Int : u + v = v + u
    OBVIOUS
  <2>11. SumOver(a, R(m)) + received[m] = received[m] + SumOver(a, R(m))
    BY <2>9, <2>10
  <2> QED BY <2>8, <2>11
<1>14. received' = [m \in Miners |-> received[m] + Promise!SumOver(a, R(m))]
  <2>1. \A m : Promise!SumOver(a, R(m)) = SumOver(a, R(m))
    BY PromiseSum
  <2>2. \A m \in Miners : received'[m] = received[m] + SumOver(a, R(m))
    BY <1>13
  <2> DEFINE h(m) == received[m] + SumOver(a, R(m))
             k(m) == received[m] + Promise!SumOver(a, R(m))
  <2>3. \A m \in Miners : received'[m] = k(m)
    BY <2>1, <2>2
  <2>4. received' = [m \in Miners |-> received'[m]]
    BY DEF received
  <2> HIDE DEF k
  <2>5. received' = [m \in Miners |-> k(m)]
    BY <2>3, <2>4
  <2> QED BY <2>5 DEF k
<1>15. Promise!Pay(S)
  BY <1>6, <1>10, <1>11, <1>12, <1>14 DEF Promise!Pay, credits, shown, paid, received, confirmed
<1> QED BY <1>6, <1>15

\* A step that changes the ledger leaves the wallet's transactions alone.
LEMMA OneWriter ==
  ASSUME PayoutTypeOK, [PayoutNext]_payoutVars, Reliable
  PROVE  \/ ledger' = ledger /\ txs' = txs
         \/ BoundedCredit
         \/ \E s \in Slots : \E c \in cycle[s].todo : MarkSent(s, c)
         \/ \E s \in Slots : MarkConfirmed(s)
         \/ \E t \in 1..Len(txs) : TxConfirmed(t) \/ TxDisconnected(t)
         \/ \E s \in Slots : sendmany(s)
<1>1. ASSUME NEW s \in Slots PROVE ~SendmanyReplyLost(s)
  BY DEF SendmanyReplyLost, Reliable
<1>2. [PayoutNext /\ ~BoundedCredit]_payoutVars =>
        \/ ledger' = ledger
        \/ \E s \in Slots : \E c \in cycle[s].todo : MarkSent(s, c)
        \/ \E s \in Slots : MarkConfirmed(s)
  BY DEF PayoutNext, payoutVars, EnvStep, BoundedBlock, AroundStep, CycleStep, ReconStep,
         NewBlock, updateSettings, TxConfirmed, TxDisconnected, UnlockExpires, PayoutCrash,
         TimerFires, getMiningInfo, QueryMature, FilterByThreshold, CheckBalance, ReadFails,
         walletpassphrase, WalletpassphraseFails, sendmany, SendmanyRefused,
         SendmanyReplyLost, FeeFallback, walletlock, MarkFails, ListSent, getConfirmations,
         CheckFails
<1> QED BY <1>1, <1>2, NextIsAny, TxWriters

\* Every step of the payout path is a step of PayoutPromise or a stutter.
LEMMA PromiseStep ==
  ASSUME PayoutTypeOK, PayoutTypeOK', PayoutInv, PayoutInv', NeverPaidTwice', BatchInv, BatchInv',
         Reliable, OrderedCredits, [PayoutNext]_payoutVars
  PROVE  [Promise!Next]_(Promise!vars)
<1>0. LedgerAdvances /\ TxsAdvance /\ TxsInv /\ TxsInv'
  BY NextIsAny, StepAdvances, StepTxsAdvance DEF PayoutInv
<1>d. DOMAIN credits = 1..Len(ledger)
  BY DEF credits
<1>1. CASE ledger' = ledger /\ txs' = txs
  BY <1>1, QuietIsStutter
<1>2. ASSUME NEW m \in Miners, NEW a \in Amounts, NEW h \in 1..tip, Len(ledger) < MaxRows,
             Credit(m, a, h)
      PROVE  [Promise!Next]_(Promise!vars)
  <2>1. Promise!Earn \/ UNCHANGED Promise!vars
    BY <1>0, <1>2, CreditIsEarn
  <2> QED BY <2>1 DEF Promise!Next
<1>3. ASSUME NEW s \in Slots, NEW c \in cycle[s].todo, MarkSent(s, c)
      PROVE  Promise!Next
  <2>1. PICK S \in SUBSET (1..Len(ledger)) : Promise!Show(S, "PENDING", "SENT", paid)
    BY <1>0, <1>3, MarkSentIsShow
  <2> QED BY <1>d, <2>1 DEF Promise!Next, credits, paid
<1>4. ASSUME NEW s \in Slots, MarkConfirmed(s)
      PROVE  Promise!Next
  <2>1. PICK S \in SUBSET (1..Len(ledger)) : Promise!Show(S, "SENT", "CONFIRMED", confirmed)
    BY <1>0, <1>4, MarkConfirmedIsShow
  <2> QED BY <1>d, <2>1 DEF Promise!Next, credits, confirmed
<1>5. ASSUME NEW t \in 1..Len(txs), TxConfirmed(t) \/ TxDisconnected(t)
      PROVE  Promise!Next
  <2>1. PICK S \in SUBSET (1..Len(ledger)) : Promise!Confirm(S)
    BY <1>0, <1>5, TxChangeIsConfirm
  <2> QED BY <1>d, <2>1 DEF Promise!Next, credits
<1>6. ASSUME NEW s \in Slots, sendmany(s)
      PROVE  Promise!Next
  <2>1. PICK S \in SUBSET (1..Len(ledger)) : Promise!Pay(S)
    BY <1>0, <1>6, SendmanyIsPay
  <2> QED BY <1>d, <2>1 DEF Promise!Next, credits
<1> QED
  BY <1>1, <1>2, <1>3, <1>4, <1>5, <1>6, OneWriter DEF BoundedCredit

\* With firings that do not overlap, no failure between the broadcast and the last
\* markSentUpTo, and credits in the order of their blocks, the payout path implements
\* PayoutPromise: credits are paid once, every miner is sent exactly the sum of its
\* credits, and the ledger never claims more than what happened.
THEOREM KeepsPromiseThm ==
  ASSUME Reliable, OrderedCredits PROVE PayoutSpec => KeepsPromise
<1>1. PayoutInit => Promise!Init
  <2> SUFFICES ASSUME PayoutInit PROVE Promise!Init
    OBVIOUS
  <2>1. ledger = << >> /\ txs = << >> /\ Len(ledger) = 0 /\ Len(txs) = 0 /\ 1..0 = {}
    BY EmptySeq DEF PayoutInit
  <2>2. credits = << >> /\ shown = << >>
    BY <2>1 DEF credits, shown
  <2>3. paid = {} /\ confirmed = {}
    BY <2>1 DEF paid, confirmed
  <2>4. received = [m \in Miners |-> 0]
    BY <2>1, SumEmpty DEF received
  <2> QED BY <2>2, <2>3, <2>4 DEF Promise!Init, credits, shown, paid, confirmed, received
<1>3. PayoutTypeOK /\ BatchInv /\ [PayoutNext]_payoutVars => BatchInv'
  BY NextIsAny, BatchInvStep
<1>4. PayoutTypeOK /\ PayoutTypeOK' /\ PayoutInv /\ PayoutInv' /\ PayOnceInv' /\ BatchInv /\ BatchInv'
        /\ [PayoutNext]_payoutVars => [Promise!Next]_(Promise!vars)
  BY PromiseStep DEF PayOnceInv
<1> QED
  BY <1>1, BatchInit, <1>3, <1>4, TypeCorrect, PayoutInvariance, PayOnceInvariance, PTL
     DEF PayoutSpec, KeepsPromise, Promise!Spec
=============================================================================
