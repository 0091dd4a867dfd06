---------------------------- MODULE PayoutLedger ----------------------------
(***************************************************************************)
(* The payout ledger of the pool: one row per reward credit, kept in one   *)
(* database table (PayoutLedgerService, PayoutLedgerEntity).  The table is *)
(* a sequence of rows; a row's auto-incremented id is its index.  Each     *)
(* operator below is one query or one UPDATE/INSERT statement, hence       *)
(* atomic.  BlockReward and PayoutScheduler share the table and the chain. *)
(***************************************************************************)
EXTENDS Integers, Sequences, Sums

CONSTANT Miners            \* payout addresses credited by the pool

VARIABLES
  ledger,                  \* the payout ledger table
  tip                      \* height of the node's best block (getmininginfo.blocks)

\* The txid column of a row no transaction has paid yet (SQL NULL).
NoTx == 0

ePayoutStatus == {"PENDING", "SENT", "CONFIRMED"}

PayoutLedgerEntity ==
  [minerAddress : Miners, blockHeight : Nat, amountSats : Nat,
   status : ePayoutStatus, txid : Nat]

\* One element of what getMaturePendingTotals returns.  "rows" holds the ids whose
\* amounts the SUM added up; it stands for the field totalPendingSats, which the
\* operator of that name computes (a row's amount never changes).
IPendingPayoutCandidate ==
  [minerAddress : Miners, maxRowId : Nat, rows : SUBSET Nat]

\* SUM(amountSats) over the rows with an id in R.
SumSats(l, R) == SumOver([i \in DOMAIN l |-> l[i].amountSats], R)

credit(l, m, amount, h) ==
  IF amount <= 0 THEN l
  ELSE Append(l, [minerAddress |-> m, blockHeight |-> h, amountSats |-> amount,
                  status |-> "PENDING", txid |-> NoTx])

PendingRows(l) == {i \in 1..Len(l) : l[i].status = "PENDING"}

\* Mutant of MatureRows: one block too early.
MatureRowsEarly(l, upTo) == {i \in PendingRows(l) : l[i].blockHeight <= upTo + 1}

MatureRows(l, upTo) == {i \in PendingRows(l) : l[i].blockHeight <= upTo}

RowsOf(l, m, upTo) == {i \in MatureRows(l, upTo) : l[i].minerAddress = m}

\* GROUP BY minerAddress: one candidate per miner with a mature PENDING row; the
\* row i with the highest id stands for its miner's group.
getMaturePendingTotals(l, upTo) ==
  {[minerAddress |-> l[i].minerAddress,
    maxRowId     |-> i,
    rows         |-> RowsOf(l, l[i].minerAddress, upTo)] :
     i \in {k \in MatureRows(l, upTo) :
              \A j \in RowsOf(l, l[k].minerAddress, upTo) : j <= k}}

totalPendingSats(l, c) == SumSats(l, c.rows)

\* Mutants of markSentUpTo: without the cutoff, without the status filter, with a
\* strict comparison.
markSentUpToAll(l, m, maxRowId, t) ==
  [i \in 1..Len(l) |->
     IF l[i].minerAddress = m /\ l[i].status = "PENDING"
     THEN [l[i] EXCEPT !.status = "SENT", !.txid = t] ELSE l[i]]
markSentUpToAgain(l, m, maxRowId, t) ==
  [i \in 1..Len(l) |->
     IF l[i].minerAddress = m /\ i <= maxRowId
     THEN [l[i] EXCEPT !.status = "SENT", !.txid = t] ELSE l[i]]
markSentUpToBelow(l, m, maxRowId, t) ==
  [i \in 1..Len(l) |->
     IF l[i].minerAddress = m /\ i < maxRowId /\ l[i].status = "PENDING"
     THEN [l[i] EXCEPT !.status = "SENT", !.txid = t] ELSE l[i]]

\* UPDATE ... SET status = SENT, txid WHERE minerAddress, id <= maxRowId and
\* status = PENDING.  The block height of a row plays no part.
markSentUpTo(l, m, maxRowId, t) ==
  [i \in 1..Len(l) |->
     IF l[i].minerAddress = m /\ i <= maxRowId /\ l[i].status = "PENDING"
     THEN [l[i] EXCEPT !.status = "SENT", !.txid = t]
     ELSE l[i]]

getDistinctSentTxids(l) ==
  {l[i].txid : i \in {k \in 1..Len(l) : l[k].status = "SENT" /\ l[k].txid # NoTx}}

\* Mutant of markConfirmed: the wrong status filter.
markConfirmedPending(l, t) ==
  [i \in 1..Len(l) |->
     IF l[i].txid = t /\ l[i].status = "PENDING"
     THEN [l[i] EXCEPT !.status = "CONFIRMED"] ELSE l[i]]

markConfirmed(l, t) ==
  [i \in 1..Len(l) |->
     IF l[i].txid = t /\ l[i].status = "SENT"
     THEN [l[i] EXCEPT !.status = "CONFIRMED"]
     ELSE l[i]]
=============================================================================
