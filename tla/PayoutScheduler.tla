--------------------------- MODULE PayoutScheduler ---------------------------
(***************************************************************************)
(* The payout path of the pool: PayoutSchedulerService (the hourly cycle   *)
(* and the confirmation check), the payout ledger it reads and updates,    *)
(* the miners' threshold overrides, and the wallet it pays from through    *)
(* WalletRpcService.                                                       *)
(*                                                                         *)
(* Every await of the code is a step boundary: between two steps of a      *)
(* cycle anything else may happen (credits, new blocks, settings changes,  *)
(* the confirmation check, another cycle, a crash).  The wallet and the    *)
(* node are external; a request to the wallet is one step that chooses     *)
(* what the wallet did and what the caller learned about it.               *)
(***************************************************************************)
EXTENDS PayoutLedger

CONSTANTS
  Slots,            \* timer firings whose work may overlap (setInterval has no guard)
  Amounts,          \* amounts a block can credit to a miner, in lepton
  Thresholds,       \* values a miner may set as payoutThresholdSatsOverride
  NoOverride,       \* the override column is NULL
  PoolThreshold,    \* MIN_PAYOUT_THRESHOLD_SATS
  Maturity,         \* COINBASE_MATURITY
  Confirmations,    \* PAYOUT_CONFIRMATIONS_REQUIRED
  DryRun,           \* PAYOUT_DRY_RUN
  Encrypted,        \* WALLET_PASSPHRASE is configured
  OrderedCredits,   \* credits reach the ledger in the order of their blocks
  Faults,           \* the failures that may happen
  MaxHeight, MaxRows, MaxTxs     \* bounds of the model

\* "lost":  the wallet executes a call and the reply never arrives (the client
\*          times out after WALLET_RPC_TIMEOUT);
\* "crash": the pool process stops and is restarted;
\* "db":    an UPDATE of the ledger throws;
\* "lock":  the wallet refuses walletlock;
\* "reorg": a payout transaction loses its confirmations.
FaultKinds == {"lost", "crash", "db", "lock", "reorg"}

ASSUME ConstantsAssumption ==
  /\ Amounts \subseteq Nat
  /\ Thresholds \subseteq Nat \ {0}
  /\ NoOverride \notin Nat
  /\ PoolThreshold \in Nat \ {0}
  /\ Maturity \in Nat \ {0}
  /\ Confirmations \in Nat \ {0}
  /\ DryRun \in BOOLEAN
  /\ Encrypted \in BOOLEAN
  /\ OrderedCredits \in BOOLEAN
  /\ Faults \subseteq FaultKinds
  /\ MaxHeight \in Nat /\ MaxRows \in Nat /\ MaxTxs \in Nat

VARIABLES
  overrides,    \* payoutThresholdSatsOverride per miner
  txs,          \* transactions the wallet has broadcast; a txid is an index
  unlocked,     \* the wallet's decryption key is in memory
  cycle,        \* per timer firing: the state of its runPayoutCycle
  recon         \* per timer firing: the state of its reconcileSentPayouts

payoutVars == <<ledger, tip, overrides, txs, unlocked, cycle, recon>>

CyclePc == {"idle", "height", "mature", "overrides", "balance",
            "unlock", "send", "resend", "lock", "mark"}
ReconPc == {"idle", "list", "check", "confirm"}

CycleState == [pc : CyclePc, matureUpToHeight : Int,
               candidates : SUBSET IPendingPayoutCandidate,
               todo : SUBSET IPendingPayoutCandidate, txid : Nat]
ReconState == [pc : ReconPc, todo : SUBSET Nat, txid : Nat]

IdleCycle == [pc |-> "idle", matureUpToHeight |-> 0, candidates |-> {},
              todo |-> {}, txid |-> NoTx]
IdleRecon == [pc |-> "idle", todo |-> {}, txid |-> NoTx]

\* "peak" is a ghost: the most confirmations the transaction ever had.
Transaction == [candidates : SUBSET IPendingPayoutCandidate,
                confirmations : Nat, peak : Nat]

PayoutInit ==
  /\ ledger = << >>
  /\ tip = 0
  /\ overrides = [m \in Miners |-> NoOverride]
  /\ txs = << >>
  /\ unlocked = FALSE
  /\ cycle = [s \in Slots |-> IdleCycle]
  /\ recon = [s \in Slots |-> IdleRecon]

-----------------------------------------------------------------------------
(* The rest of the pool and the chain.                                     *)

\* RewardCalculatorService credits a miner for a block of the chain.  Crediting
\* runs behind the block (notifications are awaited first) and two blocks'
\* credits may interleave; OrderedCredits says that they do not.
Credit(m, amount, h) ==
  /\ OrderedCredits => \A i \in 1..Len(ledger) : ledger[i].blockHeight <= h
  /\ ledger' = credit(ledger, m, amount, h)
  /\ UNCHANGED <<tip, overrides, txs, unlocked, cycle, recon>>

NewBlock ==
  /\ tip' = tip + 1
  /\ UNCHANGED <<ledger, overrides, txs, unlocked, cycle, recon>>

\* PATCH /api/miner/:address/account-settings.
updateSettings(m, threshold) ==
  /\ overrides' = [overrides EXCEPT ![m] = threshold]
  /\ UNCHANGED <<ledger, tip, txs, unlocked, cycle, recon>>

-----------------------------------------------------------------------------
(* runPayoutCycle                                                          *)

SetCycle(s, r) == cycle' = [cycle EXCEPT ![s] = r]
CycleGoto(s, pc) == SetCycle(s, [cycle[s] EXCEPT !.pc = pc])
EndCycle(s) == SetCycle(s, IdleCycle)

\* The timer fires: a payout cycle and a confirmation check start together.  (The
\* balance comparison started with them only logs.)
TimerFires(s) ==
  /\ cycle[s].pc = "idle" /\ recon[s].pc = "idle"
  /\ CycleGoto(s, "height")
  /\ recon' = [recon EXCEPT ![s] = [@ EXCEPT !.pc = "list"]]
  /\ UNCHANGED <<ledger, tip, overrides, txs, unlocked>>

\* Mutant of getMiningInfo: a block needs one confirmation more than COINBASE_MATURITY.
getMiningInfoLate(s) ==
  /\ cycle[s].pc = "height"
  /\ SetCycle(s, [cycle[s] EXCEPT !.pc = "mature", !.matureUpToHeight = tip - Maturity])
  /\ UNCHANGED <<ledger, tip, overrides, txs, unlocked, recon>>

getMiningInfo(s) ==
  /\ cycle[s].pc = "height"
  /\ SetCycle(s, [cycle[s] EXCEPT !.pc = "mature",
                                  !.matureUpToHeight = tip - Maturity + 1])
  /\ UNCHANGED <<ledger, tip, overrides, txs, unlocked, recon>>

QueryMature(s) ==
  /\ cycle[s].pc = "mature"
  /\ LET allPending == getMaturePendingTotals(ledger, cycle[s].matureUpToHeight)
     IN  IF allPending = {}
         THEN EndCycle(s)
         ELSE SetCycle(s, [cycle[s] EXCEPT !.pc = "overrides",
                                           !.candidates = allPending])
  /\ UNCHANGED <<ledger, tip, overrides, txs, unlocked, recon>>

EffectiveThreshold(m) ==
  IF overrides[m] = NoOverride THEN PoolThreshold ELSE overrides[m]

AboveThreshold(cands) ==
  {c \in cands : totalPendingSats(ledger, c) >= EffectiveThreshold(c.minerAddress)}

FilterByThreshold(s) ==
  /\ cycle[s].pc = "overrides"
  /\ LET candidates == AboveThreshold(cycle[s].candidates)
     IN  IF candidates = {} \/ DryRun
         THEN EndCycle(s)
         ELSE SetCycle(s, [cycle[s] EXCEPT !.pc = "balance",
                                           !.candidates = candidates])
  /\ UNCHANGED <<ledger, tip, overrides, txs, unlocked, recon>>

\* getWalletBalanceSats answers; "covers" is whether the spendable balance
\* suffices for the whole batch.  If not, the batch is deferred.
CheckBalance(s, covers) ==
  /\ cycle[s].pc = "balance"
  /\ IF covers THEN CycleGoto(s, IF Encrypted THEN "unlock" ELSE "send")
               ELSE EndCycle(s)
  /\ UNCHANGED <<ledger, tip, overrides, txs, unlocked, recon>>

\* Any of the reads above fails (for the height: getMiningInfo returned null).
ReadFails(s) ==
  /\ cycle[s].pc \in {"height", "mature", "overrides", "balance"}
  /\ EndCycle(s)
  /\ UNCHANGED <<ledger, tip, overrides, txs, unlocked, recon>>

walletpassphrase(s) ==
  /\ cycle[s].pc = "unlock"
  /\ unlocked' = TRUE
  /\ CycleGoto(s, "send")
  /\ UNCHANGED <<ledger, tip, overrides, txs, recon>>

\* The call is outside the try/finally that re-locks: whatever the wallet did,
\* the cycle just ends.
WalletpassphraseFails(s) ==
  /\ cycle[s].pc = "unlock"
  /\ \/ UNCHANGED unlocked
     \/ "lost" \in Faults /\ unlocked' = TRUE
  /\ EndCycle(s)
  /\ UNCHANGED <<ledger, tip, overrides, txs, recon>>

Sending == {"send", "resend"}

\* Mutant of AfterSend: no "finally", an exception leaves the wallet unlocked.
AfterSendNoFinally(s, t) ==
  IF t = NoTx THEN EndCycle(s)
  ELSE IF Encrypted
       THEN SetCycle(s, [cycle[s] EXCEPT !.pc = "lock", !.txid = t])
       ELSE SetCycle(s, [cycle[s] EXCEPT !.pc = "mark", !.txid = t,
                                         !.todo = cycle[s].candidates])

\* Where sendManySats continues once sendmany has answered or thrown: an encrypted
\* wallet is re-locked first ("finally"), with t the txid the caller knows.
AfterSend(s, t) ==
  IF Encrypted
  THEN SetCycle(s, [cycle[s] EXCEPT !.pc = "lock", !.txid = t])
  ELSE IF t = NoTx
       THEN EndCycle(s)
       ELSE SetCycle(s, [cycle[s] EXCEPT !.pc = "mark", !.txid = t,
                                         !.todo = cycle[s].candidates])

Broadcast(s) ==
  /\ Encrypted => unlocked
  /\ Len(txs) < MaxTxs
  /\ txs' = Append(txs, [candidates |-> cycle[s].candidates,
                         confirmations |-> 0, peak |-> 0])

sendmany(s) ==
  /\ cycle[s].pc \in Sending
  /\ Broadcast(s)
  /\ AfterSend(s, Len(txs) + 1)
  /\ UNCHANGED <<ledger, tip, overrides, unlocked, recon>>

\* The wallet refuses: locked, insufficient funds, a fee it cannot estimate twice.
SendmanyRefused(s) ==
  /\ cycle[s].pc \in Sending
  /\ AfterSend(s, NoTx)
  /\ UNCHANGED <<ledger, tip, overrides, txs, unlocked, recon>>

\* The wallet broadcasts and the caller's request times out.  (Whether it does so
\* before or after the timeout makes no difference: the pool never looks.)
SendmanyReplyLost(s) ==
  /\ "lost" \in Faults
  /\ cycle[s].pc \in Sending
  /\ Broadcast(s)
  /\ AfterSend(s, NoTx)
  /\ UNCHANGED <<ledger, tip, overrides, unlocked, recon>>

\* "Fee estimation failed": sendManyWithFeeFallback tries once more.
FeeFallback(s) ==
  /\ cycle[s].pc = "send"
  /\ CycleGoto(s, "resend")
  /\ UNCHANGED <<ledger, tip, overrides, txs, unlocked, recon>>

\* The explicit re-lock after the payment; its failure is only logged.
walletlock(s, works) ==
  /\ works \/ "lock" \in Faults
  /\ cycle[s].pc = "lock"
  /\ unlocked' = IF works THEN FALSE ELSE unlocked
  /\ IF cycle[s].txid = NoTx
     THEN EndCycle(s)
     ELSE SetCycle(s, [cycle[s] EXCEPT !.pc = "mark",
                                       !.todo = cycle[s].candidates])
  /\ UNCHANGED <<ledger, tip, overrides, txs, recon>>

\* One turn of the loop over the candidates, in whatever order the query listed
\* them.  The notifications after the last one change nothing modelled here.
MarkSent(s, c) ==
  /\ cycle[s].pc = "mark"
  /\ c \in cycle[s].todo
  /\ ledger' = markSentUpTo(ledger, c.minerAddress, c.maxRowId, cycle[s].txid)
  /\ IF cycle[s].todo = {c}
     THEN EndCycle(s)
     ELSE SetCycle(s, [cycle[s] EXCEPT !.todo = @ \ {c}])
  /\ UNCHANGED <<tip, overrides, txs, unlocked, recon>>

\* An UPDATE throws: the loop and the cycle end, later candidates are not marked.
MarkFails(s) ==
  /\ "db" \in Faults
  /\ cycle[s].pc = "mark"
  /\ EndCycle(s)
  /\ UNCHANGED <<ledger, tip, overrides, txs, unlocked, recon>>

-----------------------------------------------------------------------------
(* reconcileSentPayouts                                                    *)

ListSent(s) ==
  /\ recon[s].pc = "list"
  /\ LET txids == getDistinctSentTxids(ledger)
     IN  recon' = [recon EXCEPT ![s] =
                     IF txids = {} THEN IdleRecon
                     ELSE [pc |-> "check", todo |-> txids, txid |-> NoTx]]
  /\ UNCHANGED <<ledger, tip, overrides, txs, unlocked, cycle>>

\* Leaves txid t: the loop goes on with the remaining ones or ends.
NextTxid(s, t) ==
  recon' = [recon EXCEPT ![s] =
              IF recon[s].todo = {t} THEN IdleRecon
              ELSE [pc |-> "check", todo |-> recon[s].todo \ {t}, txid |-> NoTx]]

\* Mutant of getConfirmations: one confirmation less than required is enough.
getConfirmationsFew(s, t) ==
  /\ recon[s].pc = "check"
  /\ t \in recon[s].todo
  /\ IF txs[t].confirmations >= Confirmations - 1
     THEN recon' = [recon EXCEPT ![s] = [@ EXCEPT !.pc = "confirm", !.txid = t]]
     ELSE NextTxid(s, t)
  /\ UNCHANGED <<ledger, tip, overrides, txs, unlocked, cycle>>

\* gettransaction answers with the confirmations t has now.
getConfirmations(s, t) ==
  /\ recon[s].pc = "check"
  /\ t \in recon[s].todo
  /\ IF txs[t].confirmations >= Confirmations
     THEN recon' = [recon EXCEPT ![s] = [@ EXCEPT !.pc = "confirm", !.txid = t]]
     ELSE NextTxid(s, t)
  /\ UNCHANGED <<ledger, tip, overrides, txs, unlocked, cycle>>

\* gettransaction or the UPDATE throws: logged, the loop continues.
CheckFails(s, t) ==
  /\ \/ recon[s].pc = "check" /\ t \in recon[s].todo
     \/ "db" \in Faults /\ recon[s].pc = "confirm" /\ t = recon[s].txid
  /\ NextTxid(s, t)
  /\ UNCHANGED <<ledger, tip, overrides, txs, unlocked, cycle>>

MarkConfirmed(s) ==
  /\ recon[s].pc = "confirm"
  /\ ledger' = markConfirmed(ledger, recon[s].txid)
  /\ NextTxid(s, recon[s].txid)
  /\ UNCHANGED <<tip, overrides, txs, unlocked, cycle>>

-----------------------------------------------------------------------------
(* The wallet on its own, and the process.                                 *)

\* A block confirms a payout transaction once more (counted up to the number
\* required).
TxConfirmed(t) ==
  /\ t \in 1..Len(txs)
  /\ txs[t].confirmations < Confirmations
  /\ LET n == txs[t].confirmations + 1
         p == IF n > txs[t].peak THEN n ELSE txs[t].peak
     IN  txs' = [txs EXCEPT ![t] = [txs[t] EXCEPT !.confirmations = n, !.peak = p]]
  /\ UNCHANGED <<ledger, tip, overrides, unlocked, cycle, recon>>

TxDisconnected(t) ==
  /\ "reorg" \in Faults
  /\ t \in 1..Len(txs)
  /\ txs[t].confirmations > 0
  /\ txs' = [txs EXCEPT ![t] = [txs[t] EXCEPT !.confirmations = 0]]
  /\ UNCHANGED <<ledger, tip, overrides, unlocked, cycle, recon>>

\* WALLET_UNLOCK_SECONDS have passed since the last walletpassphrase.
UnlockExpires ==
  /\ unlocked
  /\ unlocked' = FALSE
  /\ UNCHANGED <<ledger, tip, overrides, txs, cycle, recon>>

\* The process stops and restarts: only the tables, the wallet and the chain stay.
PayoutCrash ==
  /\ "crash" \in Faults
  /\ cycle' = [s \in Slots |-> IdleCycle]
  /\ recon' = [s \in Slots |-> IdleRecon]
  /\ cycle' # cycle \/ recon' # recon
  /\ UNCHANGED <<ledger, tip, overrides, txs, unlocked>>

-----------------------------------------------------------------------------
CycleStep(s) ==
  \/ TimerFires(s) \/ getMiningInfo(s) \/ QueryMature(s) \/ FilterByThreshold(s)
  \/ \E covers \in BOOLEAN : CheckBalance(s, covers)
  \/ ReadFails(s)
  \/ walletpassphrase(s) \/ WalletpassphraseFails(s)
  \/ sendmany(s) \/ SendmanyRefused(s) \/ SendmanyReplyLost(s) \/ FeeFallback(s)
  \/ \E works \in BOOLEAN : walletlock(s, works)
  \/ \E c \in cycle[s].todo : MarkSent(s, c)
  \/ MarkFails(s)

ReconStep(s) ==
  \/ ListSent(s)
  \/ \E t \in recon[s].todo : getConfirmations(s, t) \/ CheckFails(s, t)
  \/ MarkConfirmed(s)

BoundedCredit ==
  /\ Len(ledger) < MaxRows
  /\ \E m \in Miners, a \in Amounts, h \in 1..tip : Credit(m, a, h)

BoundedBlock == tip < MaxHeight /\ NewBlock

\* What miners, the payout transactions and the wallet do on their own.
AroundStep ==
  \/ \E m \in Miners, th \in Thresholds \cup {NoOverride} : updateSettings(m, th)
  \/ \E t \in 1..Len(txs) : TxConfirmed(t) \/ TxDisconnected(t)
  \/ UnlockExpires

EnvStep == BoundedCredit \/ BoundedBlock \/ AroundStep \/ PayoutCrash

PayoutNext == EnvStep \/ \E s \in Slots : CycleStep(s) \/ ReconStep(s)

PayoutSpec == PayoutInit /\ [][PayoutNext]_payoutVars

\* Fairness: the timer keeps firing and the pool's own steps are taken (WF); reads that
\* are repeated are answered now and then, and so are the calls to the wallet, which may
\* well answer that the balance is too low or refuse the batch (SF); blocks keep being
\* found, until the bound, and confirm what was broadcast.
Fairness ==
  /\ WF_payoutVars(BoundedBlock)
  /\ \A t \in 1..MaxTxs : WF_payoutVars(TxConfirmed(t))
  /\ \A s \in Slots :
       /\ WF_payoutVars(CycleStep(s)) /\ WF_payoutVars(ReconStep(s))
       /\ SF_payoutVars(getMiningInfo(s)) /\ SF_payoutVars(QueryMature(s))
       /\ SF_payoutVars(FilterByThreshold(s))
       /\ SF_payoutVars(\E covers \in BOOLEAN : CheckBalance(s, covers))
       /\ SF_payoutVars(walletpassphrase(s))
       /\ SF_payoutVars(sendmany(s) \/ SendmanyRefused(s))
       /\ SF_payoutVars(\E t \in 1..MaxTxs : getConfirmations(s, t))
       /\ SF_payoutVars(MarkConfirmed(s))

PayoutFairSpec == PayoutSpec /\ Fairness

-----------------------------------------------------------------------------
(* Properties                                                              *)

PayoutTypeOK ==
  /\ ledger \in Seq(PayoutLedgerEntity)
  /\ tip \in Nat
  /\ overrides \in [Miners -> Thresholds \cup {NoOverride}]
  /\ txs \in Seq(Transaction)
  /\ unlocked \in BOOLEAN
  /\ cycle \in [Slots -> CycleState]
  /\ recon \in [Slots -> ReconState]

\* The rows a transaction paid: the rows its amounts were summed from.
PaidRows(t) == UNION {c.rows : c \in txs[t].candidates}

\* A row the ledger shows as SENT or CONFIRMED carries the txid of a broadcast
\* transaction whose amount for that very miner includes this very row: a miner
\* never loses a credit to a payment that did not contain it (markSentUpTo marks
\* by id, the amount was summed by maturity, and other cycles, credits and
\* crashes come between the two).
SentRowsWerePaid ==
  \A i \in 1..Len(ledger) :
    ledger[i].status # "PENDING" =>
      /\ ledger[i].txid \in 1..Len(txs)
      /\ \E c \in txs[ledger[i].txid].candidates :
            c.minerAddress = ledger[i].minerAddress /\ i \in c.rows

\* No credit is part of two broadcast transactions: however cycles, retries and
\* refusals interleave, the pool pays a credit once.
NeverPaidTwice ==
  \A t, u \in 1..Len(txs) : t # u => PaidRows(t) \cap PaidRows(u) = {}

\* Only credits whose block has matured are ever paid: the height used for the
\* query was read earlier, and it is still a bound when the batch is sent.
NeverPaysImmature ==
  \A t \in 1..Len(txs) : \A i \in PaidRows(t) :
    /\ i \in 1..Len(ledger)
    /\ ledger[i].blockHeight + Maturity <= tip + 1

\* A row reported CONFIRMED belongs to a transaction that did have the required
\* confirmations, although they are read two awaits before the row is updated.
ConfirmedWasConfirmed ==
  \A i \in 1..Len(ledger) :
    ledger[i].status = "CONFIRMED" =>
      ledger[i].txid \in 1..Len(txs) /\ txs[ledger[i].txid].peak >= Confirmations

\* The wallet is unlocked only around a payment (the unlock is outside the
\* try/finally; another firing may lock in between).
UnlockedOnlyWhilePaying ==
  unlocked => \E s \in Slots : cycle[s].pc \in {"send", "resend", "lock"}

Rank(status) == CASE status = "PENDING" -> 0 [] status = "SENT" -> 1
                  [] status = "CONFIRMED" -> 2

\* What a step may do to row i.
RowAdvances(i) ==
  /\ i \in 1..Len(ledger')
  /\ ledger'[i].minerAddress = ledger[i].minerAddress
  /\ ledger'[i].amountSats = ledger[i].amountSats
  /\ ledger'[i].blockHeight = ledger[i].blockHeight
  /\ Rank(ledger'[i].status) >= Rank(ledger[i].status)
  /\ ledger[i].txid # NoTx => ledger'[i].txid = ledger[i].txid

\* Rows are never deleted or rewritten; a status only advances, and once a row has
\* a txid it keeps it: a late or overlapping cycle cannot claim a sent row again.
RowsOnlyAdvance == [][\A i \in 1..Len(ledger) : RowAdvances(i)]_payoutVars

\* Miner m is owed at least its threshold in matured credits.
Payable(m) ==
  \E c \in AboveThreshold(getMaturePendingTotals(ledger, tip - Maturity + 1)) :
     c.minerAddress = m

\* The wallet has too little for a batch, or refuses it.
TurnedAway == \E s \in Slots : CheckBalance(s, FALSE) \/ SendmanyRefused(s)

\* A miner whose matured balance is above its threshold is eventually paid (or
\* raises its threshold), unless the wallet turns batches away for ever, which nothing
\* in the pool prevents: no failed read, failed unlock, fee estimate, newer credit or
\* other miner starves it.
EventuallyPaid ==
  \/ \A m \in Miners : Payable(m) ~> ~Payable(m)
  \/ []<><<TurnedAway>>_payoutVars

-----------------------------------------------------------------------------
(* The abstract specification the payout path implements: a credit counts  *)
(* as paid from the broadcast on, whether or not the ledger knows.         *)

TxsPaying(i) == {t \in 1..Len(txs) : i \in PaidRows(t)}

\* What transaction t sends miner m: one output per candidate.
SentTo(m, t) ==
  LET own == {c \in txs[t].candidates : c.minerAddress = m}
  IN  SumOver([c \in own |-> totalPendingSats(ledger, c)], own)

Promise == INSTANCE PayoutPromise WITH
  MaxCredits <- MaxRows,
  credits    <- [i \in 1..Len(ledger) |-> [minerAddress |-> ledger[i].minerAddress,
                                          amountSats |-> ledger[i].amountSats]],
  paid       <- {i \in 1..Len(ledger) : TxsPaying(i) # {}},
  confirmed  <- {i \in 1..Len(ledger) :
                   \E t \in TxsPaying(i) : txs[t].peak >= Confirmations},
  received   <- [m \in Miners |-> SumOver([t \in 1..Len(txs) |-> SentTo(m, t)], 1..Len(txs))],
  shown      <- [i \in 1..Len(ledger) |-> ledger[i].status]

\* The payout path implements PayoutPromise: every step of the timers, the queries,
\* the wallet and the ledger updates is a step of it or a stutter.  A batch pays
\* only credits not paid before, each miner receives exactly the sum of its own,
\* and the ledger shows SENT and CONFIRMED only once they are true.
KeepsPromise == Promise!Spec

\* Every credit a broadcast transaction has paid is in the end shown CONFIRMED: the
\* txid reaches its row and the confirmation check finds it.
EventuallySettled == Promise!Settled

-----------------------------------------------------------------------------
(* The inductive invariant behind SentRowsWerePaid, NeverPaysImmature and  *)
(* ConfirmedWasConfirmed, for any slots and any faults.                    *)

\* The rows of a candidate exist, are its miner's, do not exceed its cutoff and
\* were mature when it was computed.
Grounded(c) ==
  /\ c.maxRowId \in 1..Len(ledger)
  /\ \A i \in c.rows :
       /\ i \in 1..Len(ledger) /\ i <= c.maxRowId
       /\ ledger[i].minerAddress = c.minerAddress
       /\ ledger[i].blockHeight + Maturity <= tip + 1

\* Every row markSentUpTo would mark for the candidate is one of its rows.
Covered(c) ==
  \A i \in 1..c.maxRowId :
    ledger[i].minerAddress = c.minerAddress /\ ledger[i].status = "PENDING"
      => i \in c.rows

LedgerInv ==
  \A i \in 1..Len(ledger) :
    /\ ledger[i].status = "PENDING" => ledger[i].txid = NoTx
    /\ ledger[i].status # "PENDING" => ledger[i].txid \in 1..Len(txs)

\* With ordered credits, ids and block heights agree.
HeightsInv ==
  OrderedCredits =>
    \A i, j \in 1..Len(ledger) :
      i <= j => ledger[i].blockHeight <= ledger[j].blockHeight

CycleOK(s) ==
  /\ cycle[s].pc = "mature" => cycle[s].matureUpToHeight + Maturity <= tip + 1
  /\ \A c \in cycle[s].candidates : Grounded(c) /\ (OrderedCredits => Covered(c))
  /\ cycle[s].pc \notin {"lock", "mark"} => cycle[s].txid = NoTx
  /\ cycle[s].txid # NoTx =>
       /\ cycle[s].txid \in 1..Len(txs)
       /\ cycle[s].candidates = txs[cycle[s].txid].candidates
  /\ cycle[s].pc = "mark" => cycle[s].txid # NoTx
  /\ cycle[s].pc # "mark" => cycle[s].todo = {}
  /\ cycle[s].todo \subseteq cycle[s].candidates

ReconOK(s) ==
  /\ recon[s].todo \subseteq 1..Len(txs)
  /\ recon[s].pc = "confirm" =>
       recon[s].txid \in recon[s].todo /\ txs[recon[s].txid].peak >= Confirmations

TxsInv ==
  \A t \in 1..Len(txs) :
    /\ \A c \in txs[t].candidates : Grounded(c)
    /\ txs[t].confirmations <= txs[t].peak

\* The ledger never shows a credit as paid or confirmed that was not, and every
\* cycle in progress still covers what it is about to mark: the state the payout
\* path keeps through overlapping cycles, lost replies, failures and crashes.
PayoutInv ==
  /\ LedgerInv /\ HeightsInv /\ TxsInv
  /\ \A s \in Slots : CycleOK(s) /\ ReconOK(s)
  /\ OrderedCredits => SentRowsWerePaid
  /\ ConfirmedWasConfirmed

-----------------------------------------------------------------------------
(* The inductive invariant behind NeverPaidTwice.  It needs what the code  *)
(* does not ensure by itself: firings that do not overlap, and no failure  *)
(* between the broadcast and the last markSentUpTo.                        *)

Reliable ==
  /\ Faults \cap {"lost", "crash", "db"} = {}
  /\ \A s, u \in Slots : s = u

\* Until its batch is broadcast, a cycle's rows are all still PENDING.
UnpaidInv ==
  \A s \in Slots : cycle[s].txid = NoTx =>
    \A c \in cycle[s].candidates : \A i \in c.rows : ledger[i].status = "PENDING"

\* The cycle that broadcast t has yet to mark candidate c.
Unmarked(t, c) ==
  \E s \in Slots : cycle[s].txid = t /\ (cycle[s].pc = "lock" \/ c \in cycle[s].todo)

\* Everything a transaction paid is marked, or about to be.
MarkedInv ==
  \A t \in 1..Len(txs) : \A c \in txs[t].candidates :
    Unmarked(t, c) \/ \A i \in c.rows : ledger[i].status # "PENDING"

\* At no time is a PENDING row part of a payment other than the one being marked:
\* why the next cycle cannot pay it again.
PayOnceInv == UnpaidInv /\ MarkedInv /\ NeverPaidTwice

OnePerMiner(C) == \A c, d \in C : c.minerAddress = d.minerAddress => c = d

\* A batch is never empty, has one candidate per miner, and pays each of them something:
\* what KeepsPromise needs besides PayOnceInv.
BatchOK(s) ==
  /\ cycle[s].pc \notin {"idle", "height", "mature"} => cycle[s].candidates # {}
  /\ \A c \in cycle[s].candidates : c.maxRowId \in c.rows
  /\ OnePerMiner(cycle[s].candidates)

BatchInv ==
  /\ \A s \in Slots : BatchOK(s)
  /\ \A t \in 1..Len(txs) : OnePerMiner(txs[t].candidates)

-----------------------------------------------------------------------------
(* The inductive invariant behind UnlockedOnlyWhilePaying: only a wallet   *)
(* with a passphrase is ever unlocked, and a cycle that unlocked it goes   *)
(* through the re-lock.  It needs a wallet that answers and re-locks, and  *)
(* a process that does not stop; firings may overlap.                      *)

WalletAnswers == Faults \cap {"lost", "crash", "lock"} = {}

LockInv ==
  /\ \A s \in Slots : cycle[s].pc = "unlock" => Encrypted
  /\ unlocked => Encrypted
  /\ UnlockedOnlyWhilePaying
=============================================================================
