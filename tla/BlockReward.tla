----------------------------- MODULE BlockReward -----------------------------
(***************************************************************************)
(* From an accepted share to the credits of a block: the tail of           *)
(* StratumV1Client.handleMiningSubmission (acknowledge, log the share,     *)
(* submit a solved block, save it, notify, split), the PPLNS share log,    *)
(* RewardCalculatorService and PoolAccountingService.                      *)
(*                                                                         *)
(* A handler is one submission being processed; every await is a step      *)
(* boundary, so handlers of several connections interleave.  Whether the   *)
(* share is a valid one (job, duplicate, difficulty) is decided before,    *)
(* and the per-session statistics come after; neither touches this state.  *)
(***************************************************************************)
EXTENDS PayoutLedger

CONSTANTS
  Handlers,           \* submissions in progress at the same time
  Difficulties,       \* difficulties of accepted shares
  NetworkDifficulty,  \* a share at least this difficult solves the block
  CoinbaseValues,     \* what a block can pay, in lepton
  FeeParts, FeeUnit,  \* POOL_FEE_PERCENT / 100, as FeeParts / FeeUnit
  Precision,          \* the split is computed to one part in Precision
  Window,             \* PPLNS_WINDOW_MINUTES
  PruneMargin,        \* PRUNE_SAFETY_MARGIN_MS
  Failures,           \* what may fail
  MaxDelay,           \* bound: the time a handler takes
  MaxTime, MaxShares, MaxTip    \* bounds of the model

\* "write":  the miner's socket is gone when the share is acknowledged;
\* "db":     a database statement throws;
\* "notify": Discord or Telegram throws;
\* "lost":   the node accepts a block and its reply never arrives;
\* "crash":  the process stops and is restarted.
FailureKinds == {"write", "db", "notify", "lost", "crash"}

\* A double is off by at most one part in 2^53 after each operation.  The sum of the
\* difficulties of n shares takes n - 1 of them, a share's proportion and amount one
\* each, so Precision is 2^53 / (n + 2) for windows of n shares.  A reward is smaller:
\* one of 5 * 10^9 lepton leaves room for 1.8 million shares.  Difficulties are counted
\* in any unit that makes them whole.
ASSUME RewardAssumption ==
  /\ Miners # {} /\ IsFiniteSet(Miners) /\ IsFiniteSet(Handlers)
  /\ Difficulties \subseteq Nat \ {0}
  /\ NetworkDifficulty \in Nat \ {0}
  /\ Precision \in Nat \ {0}
  /\ CoinbaseValues \subseteq 0..(Precision - 1)
  /\ FeeUnit \in Nat \ {0} /\ FeeParts \in 0..(FeeUnit - 1)
  /\ Window \in Nat \ {0} /\ PruneMargin \in Nat
  /\ Failures \subseteq FailureKinds
  /\ MaxDelay \in Nat /\ MaxDelay <= PruneMargin
  /\ MaxTime \in Nat /\ MaxShares \in Nat /\ MaxTip \in Nat

VARIABLES
  clock,        \* Date.now()
  shareLog,     \* every share ever recorded; its id is its index
  pruned,       \* ids deleted by the pruning timer
  accounting,   \* the single row of the pool accounting table
  accepted,     \* blocks of this pool the node accepted: height and coinbase value
  handler       \* the submissions in progress

rewardVars == <<clock, shareLog, pruned, ledger, accounting, tip, accepted, handler>>

PplnsShareEntity == [minerAddress : Miners, difficulty : Nat, timestamp : Nat]

NoRow == [exists |-> FALSE, totalFeeSats |-> 0, totalDustSats |-> 0]
PoolAccountingEntity == [exists : BOOLEAN, totalFeeSats : Nat, totalDustSats : Nat]

HandlerPc == {"idle", "respond", "record", "submitblock", "save", "notify", "reset",
              "report", "window", "credit", "insertRow", "increment"}

\* share: id of the share's own row, 0 when there is none.  counted: ids read from
\* the window.  The other names are those of processBlockFound.
HandlerState ==
  [pc : HandlerPc, since : Nat, minerAddress : Miners, difficulty : Nat,
   height : Nat, coinbasevalue : {v \in Nat : v < Precision}, share : Nat,
   windowStart : Int, counted : SUBSET Nat, perMinerTotals : [Miners -> Nat],
   todo : SUBSET Miners, feeSats : Nat, dustSats : Int]

NoSplit == [m \in Miners |-> 0]

IdleHandler(m) ==
  [pc |-> "idle", since |-> 0, minerAddress |-> m, difficulty |-> 0, height |-> 0,
   coinbasevalue |-> 0, share |-> 0, windowStart |-> 0, counted |-> {},
   perMinerTotals |-> NoSplit, todo |-> {}, feeSats |-> 0, dustSats |-> 0]

\* The value an idle handler holds (which miner's does not matter).
Idle == IdleHandler(CHOOSE m \in Miners : TRUE)

RewardInit ==
  /\ clock = 0
  /\ shareLog = << >> /\ pruned = {}
  /\ ledger = << >>
  /\ accounting = NoRow
  /\ tip = 0 /\ accepted = {}
  /\ handler = [h \in Handlers |-> Idle]

-----------------------------------------------------------------------------
SetHandler(h, r) == handler' = [handler EXCEPT ![h] = r]
Goto(h, pc) == SetHandler(h, [handler[h] EXCEPT !.pc = pc])
Finish(h) == SetHandler(h, Idle)

\* A miner submits a share that meets its session difficulty, on the template of
\* the next block.
Submit(h, m, d, v) ==
  /\ handler[h].pc = "idle"
  /\ Len(shareLog) + Cardinality({g \in Handlers : handler[g].pc \in {"respond", "record"}})
       < MaxShares
  /\ SetHandler(h, [IdleHandler(m) EXCEPT !.pc = "respond", !.since = clock,
                      !.difficulty = d, !.height = tip + 1, !.coinbasevalue = v])
  /\ UNCHANGED <<clock, shareLog, pruned, ledger, accounting, tip, accepted>>

\* The share is acknowledged.  If the write fails the handler returns: the share
\* is not logged, and a block it solves is not submitted.
Respond(h, written) ==
  /\ handler[h].pc = "respond"
  /\ written \/ "write" \in Failures
  /\ IF written THEN Goto(h, "record") ELSE Finish(h)
  /\ UNCHANGED <<clock, shareLog, pruned, ledger, accounting, tip, accepted>>

\* Where the handler goes after the share log: only a solved block goes on.
AfterRecord(h, id) ==
  IF handler[h].difficulty >= NetworkDifficulty
  THEN SetHandler(h, [handler[h] EXCEPT !.pc = "submitblock", !.share = id])
  ELSE Finish(h)

record(h) ==
  /\ handler[h].pc = "record"
  /\ shareLog' = Append(shareLog, [minerAddress |-> handler[h].minerAddress,
                                   difficulty |-> handler[h].difficulty,
                                   timestamp |-> clock])
  /\ AfterRecord(h, Len(shareLog) + 1)
  /\ UNCHANGED <<clock, pruned, ledger, accounting, tip, accepted>>

\* The INSERT throws: logged, and the handler goes on without a row.
RecordFails(h) ==
  /\ "db" \in Failures
  /\ handler[h].pc = "record"
  /\ AfterRecord(h, 0)
  /\ UNCHANGED <<clock, shareLog, pruned, ledger, accounting, tip, accepted>>

\* The node accepts a block on top of its tip.
NodeAccepts(h) ==
  /\ handler[h].height = tip + 1
  /\ tip < MaxTip
  /\ tip' = tip + 1
  /\ accepted' = accepted \cup {[height |-> tip + 1,
                                 coinbasevalue |-> handler[h].coinbasevalue]}

SUBMIT_BLOCK(h) ==
  /\ handler[h].pc = "submitblock"
  /\ NodeAccepts(h)
  /\ Goto(h, "save")
  /\ UNCHANGED <<clock, shareLog, pruned, ledger, accounting>>

\* The node answers with a reason (stale, bad attestation, ...) or not at all:
\* everything but 'SUCCESS!' is a rejection.
BlockRejected(h) ==
  /\ handler[h].pc = "submitblock"
  /\ Finish(h)
  /\ UNCHANGED <<clock, shareLog, pruned, ledger, accounting, tip, accepted>>

SubmitReplyLost(h) ==
  /\ "lost" \in Failures
  /\ handler[h].pc = "submitblock"
  /\ NodeAccepts(h)
  /\ Finish(h)
  /\ UNCHANGED <<clock, shareLog, pruned, ledger, accounting>>

\* blocksService.save, notifySubscribersBlockFound, resetBestDifficultyAndShares:
\* three awaits outside any try.  None of them changes the state modelled here.
Announce(h) ==
  /\ \/ handler[h].pc = "save"   /\ Goto(h, "notify")
     \/ handler[h].pc = "notify" /\ Goto(h, "reset")
     \/ handler[h].pc = "reset"  /\ Goto(h, "report")
  /\ UNCHANGED <<clock, shareLog, pruned, ledger, accounting, tip, accepted>>

\* One of them throws: the exception leaves handleMiningSubmission.
AnnounceFails(h) ==
  /\ \/ "db" \in Failures /\ handler[h].pc \in {"save", "notify", "reset"}
     \/ "notify" \in Failures /\ handler[h].pc = "notify"
  /\ Finish(h)
  /\ UNCHANGED <<clock, shareLog, pruned, ledger, accounting, tip, accepted>>

\* reportBlockFound returns (it catches its own errors) and processBlockFound
\* computes the start of the window, from the time now.
WindowStart == clock - Window

ReportBlockFound(h) ==
  /\ handler[h].pc = "report"
  /\ SetHandler(h, [handler[h] EXCEPT !.pc = "window", !.windowStart = WindowStart])
  /\ UNCHANGED <<clock, shareLog, pruned, ledger, accounting, tip, accepted>>

-----------------------------------------------------------------------------
(* RewardCalculatorService.processBlockFound                               *)

getSharesInWindow(start) ==
  {i \in 1..Len(shareLog) : i \notin pruned /\ shareLog[i].timestamp >= start}

TotalDifficulty(S) == SumOver([i \in DOMAIN shareLog |-> shareLog[i].difficulty], S)

\* Mutant of FloorOf: Math.ceil.
CeilOf(num, den, err) == {(num + den - 1) \div den}

\* Math.floor of num / den computed in doubles that may be off by err / (den * Precision)
\* either way: just below an integer the floor can be one too high, at or just above one
\* it can be one too low.
FloorOf(num, den, err) ==
  {f \in 0..((num + err) \div den) :
     /\ f * den * Precision <= num * Precision + err
     /\ (f + 1) * den * Precision > num * Precision - err}

\* Math.floor(blockRewardSats * (1 - feePercent / 100)): exact without a fee, otherwise
\* the error of the difference is relative to 1.
Distributable(reward) ==
  IF FeeParts = 0 THEN {reward}
  ELSE FloorOf(reward * (FeeUnit - FeeParts), FeeUnit, reward * FeeUnit)

\* The ways the amounts of the shares in S can be rounded.
ShareAmounts(S, distributable) ==
  LET total == TotalDifficulty(S)
      exact(i) == distributable * shareLog[i].difficulty
  IN  {f \in [S -> 0..distributable] : \A i \in S : f[i] \in FloorOf(exact(i), total, exact(i))}

PerMinerTotals(S, amount) ==
  [m \in Miners |->
     SumOver(amount, {i \in S : shareLog[i].minerAddress = m})]

CreditedTotal(totals) == SumOver(totals, Miners)

\* A window without difficulty: the whole reward goes to pool accounting.
EmptyWindow(h) ==
  /\ handler[h].pc = "window"
  /\ TotalDifficulty(getSharesInWindow(handler[h].windowStart)) <= 0
  /\ SetHandler(h, [handler[h] EXCEPT !.pc = "insertRow", !.feeSats = 0,
                                      !.dustSats = handler[h].coinbasevalue])
  /\ UNCHANGED <<clock, shareLog, pruned, ledger, accounting, tip, accepted>>

\* dustSats is computed when the last credit returned, from the sum of the amounts
\* credited; nothing changes it in between, so it is set here.
Split(h) ==
  /\ handler[h].pc = "window"
  /\ LET S == getSharesInWindow(handler[h].windowStart)
     IN  /\ TotalDifficulty(S) > 0
         /\ \E distributable \in Distributable(handler[h].coinbasevalue) :
            \E amount \in ShareAmounts(S, distributable) :
              LET totals == PerMinerTotals(S, amount)
                  paid   == {m \in Miners : totals[m] > 0}
              IN  SetHandler(h, [handler[h] EXCEPT
                    !.pc = IF paid = {} THEN "insertRow" ELSE "credit",
                    !.counted = S, !.perMinerTotals = totals, !.todo = paid,
                    !.feeSats = handler[h].coinbasevalue - distributable,
                    !.dustSats = distributable - CreditedTotal(totals)])
  /\ UNCHANGED <<clock, shareLog, pruned, ledger, accounting, tip, accepted>>

\* One turn of the loop over the miners, in whatever order the map lists them.
CreditMiner(h, m) ==
  /\ handler[h].pc = "credit"
  /\ m \in handler[h].todo
  /\ ledger' = credit(ledger, m, handler[h].perMinerTotals[m], handler[h].height)
  /\ SetHandler(h, [handler[h] EXCEPT
                      !.todo = @ \ {m},
                      !.pc = IF handler[h].todo = {m} THEN "insertRow" ELSE "credit"])
  /\ UNCHANGED <<clock, shareLog, pruned, accounting, tip, accepted>>

\* Mutant of InsertAccountingRow: the row is saved, not inserted if missing.
SaveAccountingRow(h) ==
  /\ handler[h].pc = "insertRow"
  /\ accounting' = [NoRow EXCEPT !.exists = TRUE]
  /\ Goto(h, "increment")
  /\ UNCHANGED <<clock, shareLog, pruned, ledger, tip, accepted>>

\* addFeeAndDust: make sure that the row exists ...
InsertAccountingRow(h) ==
  /\ handler[h].pc = "insertRow"
  /\ accounting' = [accounting EXCEPT !.exists = TRUE]
  /\ Goto(h, "increment")
  /\ UNCHANGED <<clock, shareLog, pruned, ledger, tip, accepted>>

\* ... then add to its columns in one UPDATE.
addFeeAndDust(h) ==
  /\ handler[h].pc = "increment"
  /\ accounting' = [accounting EXCEPT !.totalFeeSats = @ + handler[h].feeSats,
                                      !.totalDustSats = @ + handler[h].dustSats]
  /\ Finish(h)
  /\ UNCHANGED <<clock, shareLog, pruned, ledger, tip, accepted>>

\* Mutant of ProcessFails: the split is started again.
ProcessRetries(h) ==
  /\ "db" \in Failures
  /\ handler[h].pc \in {"window", "credit", "insertRow", "increment"}
  /\ Goto(h, "window")
  /\ UNCHANGED <<clock, shareLog, pruned, ledger, accounting, tip, accepted>>

\* A statement of processBlockFound throws: caught and logged by the caller; what
\* was credited stays, the rest is never credited.
ProcessFails(h) ==
  /\ "db" \in Failures
  /\ handler[h].pc \in {"window", "credit", "insertRow", "increment"}
  /\ Finish(h)
  /\ UNCHANGED <<clock, shareLog, pruned, ledger, accounting, tip, accepted>>

-----------------------------------------------------------------------------
(* The rest of the world.                                                  *)

\* Time passes; no handler takes longer than MaxDelay.
Tick ==
  /\ clock < MaxTime
  /\ \A h \in Handlers : handler[h].pc # "idle" => clock < handler[h].since + MaxDelay
  /\ clock' = clock + 1
  /\ UNCHANGED <<shareLog, pruned, ledger, accounting, tip, accepted, handler>>

\* Mutant of PruneCutoff: without the safety margin.
PruneCutoffTight == clock - Window

PruneCutoff == clock - Window - PruneMargin

\* The hourly timer of the share log.
pruneOlderThan ==
  /\ pruned' = pruned \cup {i \in 1..Len(shareLog) : shareLog[i].timestamp < PruneCutoff}
  /\ UNCHANGED <<clock, shareLog, ledger, accounting, tip, accepted, handler>>

\* Another pool finds a block.
OtherBlock ==
  /\ tip < MaxTip
  /\ tip' = tip + 1
  /\ UNCHANGED <<clock, shareLog, pruned, ledger, accounting, accepted, handler>>

RewardCrash ==
  /\ "crash" \in Failures
  /\ \E h \in Handlers : handler[h].pc # "idle"
  /\ handler' = [h \in Handlers |-> Idle]
  /\ UNCHANGED <<clock, shareLog, pruned, ledger, accounting, tip, accepted>>

-----------------------------------------------------------------------------
HandlerStep(h) ==
  \/ \E written \in BOOLEAN : Respond(h, written)
  \/ record(h) \/ RecordFails(h)
  \/ SUBMIT_BLOCK(h) \/ BlockRejected(h) \/ SubmitReplyLost(h)
  \/ Announce(h) \/ AnnounceFails(h) \/ ReportBlockFound(h)
  \/ EmptyWindow(h) \/ Split(h)
  \/ \E m \in handler[h].todo : CreditMiner(h, m)
  \/ InsertAccountingRow(h) \/ addFeeAndDust(h) \/ ProcessFails(h)

RewardNext ==
  \/ \E h \in Handlers :
       \/ \E m \in Miners, d \in Difficulties, v \in CoinbaseValues : Submit(h, m, d, v)
       \/ HandlerStep(h)
  \/ Tick \/ pruneOlderThan \/ OtherBlock \/ RewardCrash

RewardSpec == RewardInit /\ [][RewardNext]_rewardVars

-----------------------------------------------------------------------------
(* Properties                                                              *)

RewardTypeOK ==
  /\ clock \in Nat
  /\ shareLog \in Seq(PplnsShareEntity) /\ pruned \subseteq 1..Len(shareLog)
  /\ ledger \in Seq(PayoutLedgerEntity)
  /\ accounting \in PoolAccountingEntity
  /\ tip \in Nat /\ accepted \subseteq [height : 1..tip, coinbasevalue : Nat]
  /\ handler \in [Handlers -> HandlerState]

\* Handlers between the node's acceptance and the end of processBlockFound, and
\* what they have yet to book.
Announcing == {"save", "notify", "reset", "report", "window"}
Splitting == {"credit", "insertRow", "increment"}

Unbooked(r) ==
  CASE r.pc \in Announcing -> r.coinbasevalue
    [] r.pc \in Splitting  -> r.feeSats + r.dustSats + SumOver(r.perMinerTotals, r.todo)
    [] OTHER -> 0

Booked == SumSats(ledger, 1..Len(ledger)) + accounting.totalFeeSats
            + accounting.totalDustSats
Mined == SumOver([b \in accepted |-> b.coinbasevalue], accepted)
StillUnbooked == SumOver([h \in Handlers |-> Unbooked(handler[h])], Handlers)

\* Every lepton the pool mined is a miner's credit, the pool's fee or dust, or is
\* about to be booked by the handler of its block: none is lost or created, however
\* the handlers of two blocks interleave.
RewardConserved ==
  Booked + StillUnbooked = Mined

\* Whatever fails, and wherever the process stops, the pool never books more than
\* it mined: its debts are covered by its coinbases.
NeverOvercredits ==
  Booked + StillUnbooked <= Mined

SplitFairly(r) ==
  r.pc \in Splitting /\ r.counted # {} =>
    LET dist == r.coinbasevalue - r.feeSats
        Own(m)   == {i \in r.counted : shareLog[i].minerAddress = m}
        Exact(m) == dist * TotalDifficulty(Own(m))
    IN  /\ \A m \in Miners :
             /\ r.perMinerTotals[m] * TotalDifficulty(r.counted)
                  < Exact(m) + TotalDifficulty(r.counted)
             /\ (r.perMinerTotals[m] + Cardinality(Own(m)) + 1)
                    * TotalDifficulty(r.counted) > Exact(m)
        /\ r.dustSats \in 0..Cardinality(r.counted)

\* The split of a block, although every amount is rounded, up or down, on its own: the
\* miners together never get more than is distributed, what is left over (dust) is at
\* most one lepton per share, and a miner gets its proportion up to less than a lepton
\* more, or less by less than one lepton per share of its own and one.
FairSplit == \A h \in Handlers : SplitFairly(handler[h])

WindowRead(r) ==
  r.pc \in Splitting =>
    /\ \A i \in 1..Len(shareLog) :
         shareLog[i].timestamp \in r.windowStart..(r.windowStart + Window - 1)
           => i \in r.counted
    /\ r.share # 0 /\ shareLog[r.share].timestamp >= r.windowStart
         => r.share \in r.counted

\* No share that belongs to the window of a block is missing from its split: the
\* pruning timer, running with a later clock, never deletes one that a handler has yet
\* to read, and the share that solved the block, logged before the block is submitted,
\* is counted itself unless its handler takes longer than the whole window.
WindowComplete == \A h \in Handlers : WindowRead(handler[h])

-----------------------------------------------------------------------------
(* The inductive invariant behind WindowComplete and FairSplit, for any    *)
(* handlers and any failures.                                              *)

\* Shares have weight and are not from the future; what was pruned is older than the
\* window and the margin.
ShareLogInv ==
  /\ \A i \in 1..Len(shareLog) : shareLog[i].difficulty > 0 /\ shareLog[i].timestamp <= clock
  /\ \A i \in pruned : shareLog[i].timestamp < PruneCutoff

\* A handler's clock readings are at most MaxDelay old, what it holds of the share log
\* exists and is read at the split, and it has miners to credit only while it credits.
HandlerOK(r) ==
  /\ r.pc # "idle" => r.since <= clock /\ clock <= r.since + MaxDelay /\ r.difficulty > 0
  /\ r.pc \in Splitting \cup {"window"} =>
       r.windowStart >= r.since - Window /\ r.windowStart <= clock - Window
  /\ r.share <= Len(shareLog)
  /\ r.counted \subseteq 1..Len(shareLog)
  /\ r.pc \notin Splitting => r.counted = {}
  /\ r.pc # "credit" => r.todo = {}
  /\ r.dustSats >= 0

\* What holds between any two steps of the handlers and timers: a split in progress has
\* read its whole window and divides it fairly.
RewardInv ==
  /\ IsFiniteSet(accepted)
  /\ ShareLogInv
  /\ \A h \in Handlers : HandlerOK(handler[h])
  /\ WindowComplete /\ FairSplit
=============================================================================
