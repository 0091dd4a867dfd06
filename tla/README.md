# Elektron PPLNS pool: a TLA+ model

This directory specifies the parts of the pool that decide who is paid, how much
and how often, checks them with TLC on small instances, and proves the main
results with TLAPS for every value of the constants. Paths below are relative to
the repository's `src/`.

## The system

Miners connect over Stratum V1. Each session fetches block templates from the
node (all for the one `POOL_WALLET_ADDRESS`), sends jobs, and checks submitted
shares. An accepted share goes to the PPLNS share log; one that solves a block is
submitted to the node, and if the node accepts it the reward is split over the
shares of the last `PPLNS_WINDOW_MINUTES` and credited in the payout ledger. A
timer pays matured credits with `sendmany`, marks them sent and later confirmed.

Everything runs in one Node process. There are no threads; the concurrency is
that of `async` functions: between two awaits code is atomic, at an await anything
else may run. The database serialises its statements. Calls to the node and the
wallet may fail, or succeed and lose their reply.

| Component | State | Operations | Talks to | What makes it correct |
|---|---|---|---|---|
| Payout ledger (`ORM/payout-ledger`) | one row per credit: PENDING, SENT, CONFIRMED, txid | credit, getMaturePendingTotals, markSentUpTo, markConfirmed | reward calculator, scheduler | rows only advance; a SENT row was paid by its txid |
| Payout scheduler (`pplns/payout-scheduler.service.ts`) | none but its running cycles | runPayoutCycle, reconcileSentPayouts on a timer | ledger, settings, wallet, node | pays mature credits, once, and all of them in the end |
| Wallet RPC (`services/wallet-rpc.service.ts`) | the wallet's lock | sendManySats with unlock, fee fallback, re-lock | wallet | unlocked only around a payment |
| Account settings | threshold override per miner | upsert at any time | scheduler | the override in force decides |
| Share log (`ORM/pplns-shares`) | shares with time and difficulty | record, window query, pruning timer | sessions, reward calculator | a window is read completely |
| Reward calculator, pool accounting | one accounting row | processBlockFound, addFeeAndDust | share log, ledger | every lepton is booked once; proportional split |
| Stratum jobs (`services/stratum-v1-jobs.service.ts`) | templates and jobs shared by all sessions, last height | buildTemplateFor, addJob, lookups | node, sessions | jobs of an old tip are not accepted |
| Stratum session (`models/StratumV1Client.ts`) | subscription, authorization, timers, template, job counter, duplicate set, difficulty | subscribe, authorize, configure, suggest, refreshes, checkDifficulty, submission, destroy | all of the above | no share counted twice; a found block is credited; one set of timers, gone with the session; the miner knows its difficulty |
| Mining job (`models/MiningJob.ts`) | coinbase, merkle branch | notify, header of a share, block | jobs, sessions | the share judged is the one a NORMAL session hashed, and its block is valid |
| Session statistics, vardiff | counters per time slot, cache of submissions | addShares, getSuggestedDifficulty | client statistics | no share lost at a slot change; a difficulty that fits the miner |
| Client registry (`ORM/client`, `ORM/address-settings`) | queued inserts, session rows, best difficulty | batch insert, heartbeat, delete, kill dead | sessions, timers | live sessions are shown, closed ones vanish, the better share is kept |
| Stratum server | listeners, pause state | backpressure check | sessions | pauses under load, resumes after |
| Login (`auth/`) | challenges, tokens | challenge, login by signature, login by payment | node, settings | a token stands for an answered challenge that is gone; only with one are settings changed |
| Tip polling (`services/bitcoin-rpc.service.ts`) | last height | pollMiningInfo, by timer or ZMQ | sessions | sessions get to the tip |
| Pool registry (`services/pool-registry.service.ts`) | list of explorers, recently found blocks | refresh, report, confirm | explorers | a report is confirmed when asked |
| Telegram bot (`services/telegram.service.ts`) | update offset, subscriptions | pollUpdates, commands | Telegram | each update handled once per start, in order |
| Discord, external shares, HTTP API, log rotation | small caches and tables | notifications, reports, views | | best effort |

The behaviours that are hard to test are listed with their source lines under
`hazards` in `PROJECT.json`: a lost `sendmany` or `submitblock` reply, a stop
between the broadcast and the ledger update, overlapping timer firings, values
read before an await and used after it (height, cutoff id, confirmations), a
failure between an accepted block and its split, the pruning timer against a
window not yet read, template answers out of order, a registry that all sessions
share while the duplicate sets and counters are per session, messages and shares of
one session handled concurrently because they arrived in different packets, rows
inserted or revived after the session they belong to was closed, a login challenge
consumed after an await, words that wrap in the difficulty arithmetic, a block
rebuilt from a job sent long ago, and tips whose announcement is lost.

## Modules

| Module | Models | Extends |
|---|---|---|
| `PayoutLedger` | the ledger's statements as operators on a sequence of rows | |
| `PayoutPromise` | what the payout path promises, without the machinery | |
| `PayoutScheduler` | the payout cycle, the confirmation check, wallet lock, settings; implements `PayoutPromise` | `PayoutLedger` |
| `BlockReward` | from an accepted share to the credits of a block | `PayoutLedger` |
| `PplnsPool` | `BlockReward` and `PayoutScheduler` over one ledger and chain, with the wallet's balance | both |
| `StratumJobs` | the job registry and the part of a session that uses it | |
| `MiningWork` | what a job contains: coinbase, merkle branch, version bits, header, block | |
| `StratumSession` | messages of a connection, from accept to destroy | |
| `ClientRegistry` | what an accepted share does to the dashboard's tables | |
| `ShareStatistics` | the work of a session per time slot | |
| `VarDiff` | the difficulty suggested from the cached submissions | |
| `Backpressure` | the listener under load | |
| `ChainTip` | new blocks from the node to a session's work | |
| `AddressLogin` | challenges and their answers, tokens, account settings | |
| `PoolRegistry` | the list of explorers, reports and their confirmation | |
| `TelegramBot` | the polling of updates, subscriptions | |
| `Sums` | the sum of a function's values over a finite set | |
| `SumTheorems` | lemmas about sums | `Sums` |
| `PayoutSchedulerProofs`, `BlockRewardProofs`, `StratumSessionProofs`, `ClientRegistryProofs` | theorems | their component |
| `PplnsPoolProofs` | theorems about the composed pool | `PplnsPool`, `BlockRewardProofs`, `PayoutSchedulerProofs` |
| `StratumJobsProofs` | theorems | `StratumJobs`, `MiningWork` |
| `MinerServicesProofs` | theorems | `TelegramBot`, `AddressLogin`, `ShareStatistics`, `PoolRegistry` |
| `MCPayout`, `MCReward` | instances for TLC | their component |
| `MCPool` | instances of the whole pool | `PplnsPool` |
| `MCJobs` | instances of the jobs and of the work | `StratumJobs`, `MiningWork` |
| `MCServer` | instances of session, registry, statistics, backpressure, bot | the five |
| `MCServices` | instances of login, vardiff, tip, pool registry | the four |

Operators named "Mutant of ..." stand before the definition they alter. No
specification uses them; each is a plausible mistake in that code, and replacing
the definition by it must break the property `PROJECT.json` names with it.

### PayoutPromise

A credit is earned, paid, confirmed, and shown as SENT and CONFIRMED; each step is
allowed only when it is true. `Promise` in `PayoutScheduler` maps the ledger and the
transactions to it: `paid` is the rows of all broadcast transactions, `received` the
sum of their outputs per miner, `confirmed` the rows of transactions that ever had
enough confirmations, `shown` the status column. Timers, queries, the wallet's lock
and retries are stutters.

### PayoutScheduler

A slot is one timer firing. Its `cycle` record holds the program counter (one
value per await of `runPayoutCycle` and of `sendManySats`) and the locals used
after the await: `matureUpToHeight`, `candidates`, `txid`, the candidates still to
be marked. `recon` does the same for `reconcileSentPayouts`. The two start
together in `TimerFires`, as in the `setInterval` callback; several slots are firings
that overlap. A candidate's `totalPendingSats` is represented by the set of rows
it was summed from, which is what the properties are about; amounts and
thresholds are still compared as numbers.

The wallet appends to `txs`; a txid is an index. A call to the wallet is one step
that chooses what the wallet did and what the caller learned: `sendmany`,
`SendmanyRefused`, `SendmanyReplyLost`. `CheckBalance` chooses whether the balance
suffices; nothing in the code restores a balance that does not. `PayoutCrash` resets all slots and nothing else. The ghost field `peak`
records the most confirmations a transaction ever had.

`Faults` selects what may go wrong. `OrderedCredits` says that credits reach the
ledger in the order of their blocks. The code does not enforce that: crediting
runs behind several awaits in the handler of the share that found the block, so
two blocks found by two sessions can be credited in either order.

### BlockReward

A handler is one submission in progress, from the moment it is known to meet the
session's difficulty. Its program counter has one value per await: acknowledge,
record, submit, save, notify, reset, report, read the window, credit miner by
miner, insert the accounting row, add to it. The database time of a share is the
clock when it is recorded. Whatever follows the split in the code (client entity,
statistics, best difficulty) does not touch this state.

The arithmetic is that of doubles. Difficulties are natural numbers, which stand for the
code's real ones on a common scale; the fee is the fraction `FeeParts / FeeUnit`, since
`POOL_FEE_PERCENT` is parsed as a real. `FloorOf` is `Math.floor` of a quotient that may
be off either way by a relative error: just below an integer the floor may come out one
too high, at or just above an integer one too low. The error of the code's expression
(a float sum over n shares, a division, a product) is at most about n + 2 roundings of
2^-53, which `Precision` = 2^53 / (n + 2) stands for, and a reward is assumed smaller
than that (for a million shares, about 9 * 10^9 lepton, 90 coins). Then the
roundings up cannot add up to a lepton, which is what `FairSplit` and its proof
establish; with a larger reward the roundings the model allows can.

`MaxDelay` bounds how long a handler runs, and `MaxDelay <= PruneMargin` is an
assumption: the pruning margin is one hour, and a handler that took longer than
that between computing its window and reading it could miss shares.

### PplnsPool

The two components interact through the ledger and the height of the chain; the
composition adds what neither has alone, the wallet behind `getbalance` and
`sendmany`. It holds the coinbases of accepted blocks that have matured, less what was
sent and one network fee per transaction (`sendmany` is called without
`subtractfeefrom`). `AnswersFromBalance` makes the outcomes that `PayoutScheduler` chooses
freely follow from that balance. `Orphan` replaces a found block at the tip: the code
never looks at a found block again, so its credits stay and mature by height.

The module extends both components, so that their theorems' lemmas apply to its steps:
a step of the rewards is, for the payouts, a credit, a new block or nothing, and the
other way round. Credits come in any order (`OrderedCredits = FALSE`), and the process
does not stop: a stop takes handlers and cycles together, and each module has its own.

### StratumJobs

All sessions fetch for the same address, so `lastHeight` stands for
`lastTemplateHeightByAddress`. A request is sent, answered with the height of the
node's tip at that moment, and handled later; several may be in flight and are
handled in any order. The clock starts at 1, so that 0 is never a job's time. The registry keeps sets of ids (`blocks`, `jobs`); every
template and job ever made stays in `templates` and `mined`, so that a session can
hold one the registry has dropped. A job is described by what distinguishes two
headers: the template's height, the rotation of the pool's version bits and the
time. A submission is identified by the text the code joins (job id and the other
fields); two spellings of the same number are two submissions, in the code and
here. So are two with a different extraNonce2, although the header does not depend on it
(`MiningJob.ts:153`): `NoDuplicateShare` is about the text, and one header submitted with
another extraNonce2 is credited again.

A write of a job returns later (`JobWritten`); a failing write or template request
ends the session, which is a `destroy` step. Writing answers to rejected shares is
left out. The 350 ms guard of `refreshLocalMiningWork` is below the resolution of
the clock.

### MiningWork

Hashes are symbolic: `Hash(a, b)` is the pair, so two hashes are equal only if what
they commit to is. The merkle tree is built level by level with the last node
doubled, the branch is taken from a tree with a placeholder coinbase, and the root of
a share is folded from the coinbase, as in the code. The bytes of a coinbase are two
chunks, cut where the code cuts them. The miner puts what it was told at its subscription
between `coinb1` and `coinb2`: nothing in a NORMAL session; in a HOBBY session
extranonce1, and the extranonce2 of that firmware (`Spliced`, from the comment of
`SubscriptionMessage.response`). The pool reassembles the two parts alone, so
`HeadersAgree` says that its header is the one hashed exactly in the NORMAL sessions: as
that comment says, no share of a HOBBY session is judged by what was hashed. A version is the set
of its bits. A version mask that does not parse (NaN in JavaScript) acts as no bits.
The pool's bits (13 to 16, `StratumV1Client.ts:41`) lie outside the mask given to the
miner (17 to 28), which `WorkAssumption` states; it also rules out templates whose version
has bits inside the miner's mask. The byte layout, the weight limit and the headers logged for diagnosis are left out.

### StratumSession

Every packet starts its own loop over its messages, so two messages of a connection
are handled at the same time when they come in two packets. A `loop` is one message
in progress; its awaits are those of `validate` and of `write`. The fields of
`session` are those of `StratumV1Client`; `timers` counts how often the block
subscription and the three intervals were set up. A socket that was ended or
destroyed refuses writes, and the handler returns. The ghost `told` is the
difficulty last sent. `quiet` marks the two changes that the code makes without
telling the miner (see below). Whether a message is valid, and whether a submission
throws, is a choice; user agents are the four kinds the code tells apart.

### ClientRegistry

A submission is one accepted share on its way through the end of
`handleMiningSubmission`. Times are ages in minutes that `Minute` increases;
`entity` is the object the session holds in memory (and the promise for it), `row`
the database row. The initial state is that after `deleteAll` at the start of the
process. The ghost `persisted` records the best difficulty of the writes that
succeeded. `LiveSessionShown` speaks of sessions whose row exists: a row that stayed
soft-deleted for a day is removed physically, and a session that comes back after that
has none.

### ShareStatistics

An adder is one share in `addShares`. There is one database connection, so a
statement takes effect when it is issued and its await returns later.

### Backpressure and TelegramBot

`Backpressure` reduces the measured event-loop delay and memory to three loads; a
`listen` that fails (`stratum-v1.service.ts:132`) counts as listening. In
`TelegramBot` a firing of the timer is a poll with its await as program counter;
Telegram redelivers updates until a request confirms them with a higher offset; a
restart resets the offset and the flags. The subscriptions are the number of rows per
chat and address: `save` adds one, `delete` removes them all. An update counts as handled
when its handling began; one whose reply throws is not repeated.

### VarDiff

Difficulties are fractions, so that nothing is lost to rounding. The width of the
words in `nearestPowerOfTwo` is a constant (32 in the code) and shifts wrap. `Estimate`
is the target computed from the cached shares; when all of them fall into one
instant the divisor is 0 and the target is infinite. Below `2^(WordBits - 1)` the result
is right (`RetargetFits`). Beyond, the model shows that the code may throw (unbounded
recursion) or end below the minimum.

### ChainTip

One session and the calls it and the service have under way. The node's tip has a
height and an identity, since a block may replace another of the same height; that is
never announced, and only the 30-second refresh brings the session to it. With ZMQ a
message may be lost and the service polls once at the start, without ZMQ a timer polls.
The instance has one template request in flight; answers out of order are the subject of
`StratumJobs`.

### AddressLogin

A challenge has a nonce and an amount, both random; two challenges may ask for the same
amount. It is answered by a signature over the nonce, which takes the key of the address,
or by an output of the amount. The scan looks for an unspent output of that amount at the
address and at nothing else, so outputs appear and are spent here at any time, before a
challenge or after, and nobody is recorded as their sender. `TokensEarned` therefore says
that such an output was there; that the owner of the address sent it, as the comments
about a self-send expect, is not checked by the code and not claimed here. `login`
consumes at once, `loginOnChain` looks the challenge up, scans the chain (an await) and
then consumes whatever the address has pending. A settings request passes the guard once
and is then two statements, the insert of a missing row and the update of the fields
named. Challenges lost by a restart and tokens that end after a day only take something
away and are left out.

### PoolRegistry

The list in memory and in the cache file, fetched, answered or not, saved or not; a
found block is recorded and reported to every explorer, which may call back at any
time. `denied` collects the callbacks answered with no.

### MC modules with parts

The components of `MCServer` and of `MCServices` share no variable. `part` (or
`service`) is chosen initially and only that component steps, so the run explores the
sum of the state spaces instead of their product, and nothing is lost by it. `MCJobs`
and `MCPool` do the same for instances of different shape.

## Runs

All bounds are constants named `Max...`; those of one part of a run (`SharedJobs`,
`RewardTip`, `PoolShares`) are declared in its MC module. Values are chosen so that each event of
interest can happen at least twice, or once before and once after another.

| Run | Instance | Shows |
|---|---|---|
| PayoutFaults | 2 slots, 1 miner, 2 rows, 2 transactions, encrypted wallet, all faults | `SentRowsWerePaid`, `ConfirmedWasConfirmed`, `NeverPaysImmature` and `RowsOnlyAdvance` with overlapping firings. Two rows let one mature while the other is not; two transactions allow a payment and its repetition after a fault. |
| PayoutReliable | 1 slot, 2 miners, changing threshold, 2 rows credited in the order of their blocks, failing reads, unlocks and payments, a balance that may be too low | `NeverPaidTwice`, `KeepsPromise` (the refinement), `UnlockedOnlyWhilePaying`, `EventuallyPaid`, `EventuallySettled` |
| RewardFaults | 2 handlers, 2 shares of 2 miners, up to 2 blocks, no fee, 4 instants, pruning, every failure | `NeverOvercredits`, `WindowComplete`. Two shares are the one that solves a block and one that might be pruned, or two solved blocks. |
| Pool, reward | 2 handlers, 3 shares of 2 miners with 2 difficulties, up to 2 blocks of 6 lepton, 10% fee, `Precision` 15 | `FairSplit`, `PoolConserved`. So coarse a precision makes both roundings happen: 15/4 becomes 4, and an exact integer one less. |
| Pool, pool | 1 handler, 2 shares, 1 timer slot, 3 heights, maturity 2, network fee 1, 2 transactions, 1 orphaned block | `PoolConserved`, `BackedUpToLosses`: two blocks matured and paid in one batch or in two. |
| Jobs, session | 1 session, 2 requests, 3 templates, 3 jobs, expiry | `NoDuplicateShare`, `NoStaleShare` |
| Jobs, shared | 2 sessions, 1 request, 3 templates, 2 jobs, 2 shares | the same with a shared registry |
| Jobs, work | 2 templates of 0, 2 or 5 transactions, 3 jobs, 2 pool bits, 1 miner bit, NORMAL and HOBBY | `HeadersAgree`, `DisjointWork`. Five transactions and the coinbase double nodes on one level of the tree, two on another; three jobs let an old one be submitted after two others. |
| Server, session | 1 connection, 2 concurrent messages of at most 3, 4 kinds of agent, 4 difficulties | `TimersOwned`, `DifficultyTold`, `EventuallyServed`: a third message can arrive while subscribe and authorize are in progress. |
| Server, registry | 1 session, 2 concurrent shares with 2 difficulties, failing statements | `InsertedOnce`, `LiveSessionShown`, `BestShareKept`, `SubmissionsEnd`, `ClosedSessionVanishes`. All limits are 0 minutes, so a row is fresh or past every limit. |
| Server, statistics | 4 shares one after the other, time slots of 3 instants, failing statements | `AccumulatedWork` over two slots |
| Server, backpressure | 2 healthy checks needed, 3 loads | `EventuallyAccepting` |
| Server, telegram | 2 firings, 1 chat, 2 addresses, 2 updates, 1 restart | `SubscribedOnce`, `HandledInOrder`, `EventuallyHandled`. Two updates and a restart allow a batch that is dropped half-way and redelivered. |
| Services, login | 1 address, 2 challenges, 2 amounts, 2 requests | `TokensEarned`, `PaidLogsIn`: a challenge can be replaced, by one of the same or another amount, while a scan is under way, and outputs of either amount come and go. |
| Services, settings | 2 addresses, 1 challenge answered by a signature, 2 requests, 3 patches | `FieldsIndependent`, `TokensEarned` |
| Services, vardiff | 10-bit words, a cache of 2, shares of 1 and 300, 3 seconds | `RetargetFits`, `NewMinerLowered`. Targets from below the minimum to beyond the width. |
| Services, chain | 2 polls, 1 template request, 2 blocks, with and without ZMQ | `EventuallyOnTip` |
| Services, poolregistry | 1 explorer, 2 blocks, 1 minute to live, 1 restart | `ReportConfirmed` |

Slots, handlers, requests and miners are interchangeable where no part of a run names
one, and the safety runs use that symmetry. Server and Services check the type
invariants of their components (`PoolRegistry` has none); those of `PayoutScheduler`, `BlockReward` and
`StratumJobs` are proved and in no run. Jobs, Server and
Services do not check for deadlock: once every session is closed and the bounds are
reached nothing is left to do. The other runs do.

Five runs state what a comment or the README says and find it violated
(`findings` in `PROJECT.json`):

* **PayoutLostReply**: the comment in `runPayoutCycle` says never to resend
  without confirming what happened at the wallet; the rows stay PENDING and are
  resent without asking, so a lost reply pays twice.
* **PayoutLateCredit**: immature rows are said to stay PENDING; `markSentUpTo`
  goes by row id only and marks an immature row that was inserted before the
  newest mature one.
* **RewardNotify**: a found block is said to be split; a notification, save or
  reset that throws skips the split.
* **JobsCleanFlag**: only the first session to fetch after a new block is told to
  drop its old jobs, since all share one address.
* **StatisticsOverlap**: the hashrate is said to be right because `shares` is the
  sum of the share difficulties. Two shares that meet the change of a slot together
  both see the old slot during the update of the first: the new slot is inserted twice, and what the
  second carries replaces the work of the first.

More behaviours are visible in the model that no run asks about:

* A template answer of a lower height that is handled late clears the newer jobs
  (`!==` in `buildTemplateFor`).
* With a pool fee of zero the network fees of payouts leave the wallet short of what it
  owes; then the whole batch is deferred, for ever if nobody refills the wallet
  (`EventuallyPaid` excepts a wallet that keeps turning batches away). And an orphaned block stays credited, although the comment at
  `payout-scheduler.service.ts:93` calls every candidate backed by a matured block.
  `BackedUpToLosses` counts both losses.
* Two sessions with an empty extranonce can be given the same work; and when the
  difficulty of a session changes before the write of its previous clean job has
  returned, the time of that job is not stored yet and the same work is sent again.
* A miner that falls silent with enough shares in its cache keeps its difficulty: the
  estimate does not depend on the time that passes, although the comment at
  `StratumV1ClientStatistics.ts:132` says that a miner that "hasn't submitted shares in
  one minute" is lowered. `NewMinerLowered` is about the others.
* A template request that fails in the timer of `checkDifficulty` is an unhandled
  rejection (`StratumV1Client.ts:520` has no try).
* A login by payment consumes the challenge pending after the scan, which may be newer
  than the one that was paid.
* The best difficulty in memory is raised before the address's row is written. If
  that write throws, no later share that is not better repeats it, and the address
  keeps the lower value.
* A slow agent that suggested a difficulty gets the lower one of its kind, and a
  second authorize with a higher difficulty raises it, both without
  `mining.set_difficulty`. `DifficultyTold` excepts these until the next one.

### Fairness

`PayoutScheduler`: the timer keeps firing and an async function that can continue
does (weak fairness on the cycle and the check); calls to node and wallet that are
made again and again are answered now and then (strong fairness). Without the latter a
node that is down for ever refutes every liveness property. Which answer comes is not
assumed where the code does not decide it: the balance may be too low every time, and
`sendmany` may be refused every time. `EventuallyPaid` says that these two are the only
ways a payable miner can wait for ever. Blocks keep coming up to the bound, and confirm what was broadcast.
`MCServer`: messages and shares in progress are continued, the timers of the
registry (batch, cleaning), of the load check and of the bot keep firing, time
passes, a backoff ends (weak fairness); requests to Telegram that are repeated
succeed now and then (strong fairness on `getUpdates`). The batch timer is assumed
to fire, not to succeed. `MCServices`: the polling timer, the vardiff timer and the clock
go on (weak fairness); a miner repeats its login until it has a token, and of the
requests to the node that are repeated (tip, template, scan) some are answered (strong
fairness). No fairness is assumed of what else miners do, of other
pools, failures or crashes.

## Proofs

`PayoutSchedulerProofs` proves, for any sets of miners and slots, any thresholds,
maturity and bounds, and any faults:

* `TypeCorrect` and `PayoutInvariance`. `SentRowsWerePaid` is not inductive: what
  a step marks depends on candidates computed earlier. `PayoutInv` adds that every
  candidate held by a cycle or a transaction is grounded (its rows exist, are its
  miner's, lie below its cutoff and were mature) and, with ordered credits, covers
  every PENDING row its cutoff reaches; that a cycle with a txid holds that
  transaction's candidates; and that ids and heights agree. Rows only leave
  PENDING and new rows lie above every cutoff, so candidates stay grounded and
  covering whatever else happens (`CandidateStable`).
* `SentRowsWerePaidThm`, under `OrderedCredits`: the run PayoutLateCredit shows
  that the assumption is needed.
* `NeverPaysImmatureThm`, `ConfirmedWasConfirmedThm` and `RowsOnlyAdvanceThm`,
  without it.
* `NeverPaidTwiceThm`, under `Reliable`: firings do not overlap, and no reply is
  lost, no statement fails and the process does not stop. Its invariant,
  `PayOnceInv`, says that a batch not yet broadcast consists of PENDING rows, and
  that what a transaction paid is marked or about to be. PayoutLostReply shows
  that the assumption is needed.
* `UnlockedOnlyWhilePayingThm`, under `WalletAnswers` (the wallet's answers arrive,
  `walletlock` works, the process does not stop), with overlapping firings. `LockInv`
  adds that only a wallet with a passphrase is unlocked.
* `KeepsPromiseThm`, the refinement, under `Reliable` and `OrderedCredits`. Besides
  `PayOnceInv` it needs `BatchInv`: a batch has one candidate per miner, whose cutoff is
  one of its rows. Then `sendmany` is a `Pay` step, since what a miner receives grows by
  the sum over exactly the rows that become paid; `markSentUpTo` and `markConfirmed`
  are `Show` steps, each miner's rows together; the reading and locking are stutters.

`StratumJobsProofs` proves, for any number of sessions and requests:

* `JobsInvariance`: registered templates all have the height of the last one
  built, and whatever a session was credited for on a registered job its duplicate
  set remembers. The second holds because the set is emptied only in the step that
  empties the registry.
* `NoStaleShareThm` and `NoDuplicateShareThm` from it.

and about the content of the work (`MiningWork`):

* `WorkHeadersAgree`, for templates with any number of transactions, with NORMAL sessions
  agreeing and HOBBY sessions never. `WorkInv` says that a
  template keeps the branch of its own transactions, and that a job and its notify are
  those of its template with the version bits of its state. The rest is about merkle
  trees: two lists that differ only in the first leaf have trees of one height whose
  levels differ only in the first node (`TreesAgree`), so the branch taken with the
  placeholder is that of the miner's coinbase, and folding a leaf up its branch gives the
  root (`BranchCommits`). For HOBBY sessions the converse is needed: along one branch
  different coinbases give different roots (`RootTellsLeaf`). That is an induction over the levels, which the provers do when
  it is put as one over a set of numbers (`NatSetInduction`).
* `WorkIsDisjoint`, for one to four pool bits (the code has four): the state is read back
  from the bits (`BitsTellStates`), and the miner's mask does not reach them.
  Powers of two of an unknown exponent are opaque to the provers, hence the bound.

`SumTheorems` is what the proofs about money and work rest on. The provers cannot apply
an induction principle that takes a predicate as parameter, so induction is restated
with sets, from the well-foundedness of the natural numbers: a set of numbers closed
under successor (`NatSetInduction`), a family of subsets closed under adding an element
(`SubsetInduction`). From them follow that the sum of `Sums` exists, is unique and
unfolds, and then the lemmas in use: adding or changing an element, splitting,
monotony, scaling, grouping.

`BlockRewardProofs` proves, for any handlers, miners, difficulties, rewards, fee and
window, and any failures:

* `RewardInvariant` (with `RewardTyped`). `WindowComplete` needs that what was pruned
  is older than the window and the margin, and that a handler's clock readings are at
  most `MaxDelay` old, no more than the margin (`ShareLogInv`, `HandlerOK`).
  `NeverOvercredits` is not part of `RewardInv`: an orphaned block breaks it, and the
  composition needs what is left. It follows from `Surplus`, what was mined less what was
  booked or is to be booked, which no step makes negative.
* `RewardNeverOvercredits`, `RewardWindowComplete`, `RewardFairSplit`. The split is the
  arithmetical part. Each floor may be one too high or one too low, so a miner's amount
  is bounded on both sides by its proportion. That all amounts together do not exceed
  what is distributed follows for the total, not share by share: their excess over the
  exact values is less than `distributable / Precision`, hence less than one lepton, and
  both sides are integers (`RoundingTotal`).
* `RewardIsConserved`: if nothing fails but writes to a miner's socket, nothing mined
  is lost. The run RewardNotify shows that other failures lose the split.

`PplnsPoolProofs` proves of the whole pool, for any handlers, slots, miners, rewards,
fees, maturity and orphaned blocks:

* `PoolInvariance`: the inductive invariants of both components hold together
  (`PoolInv`). Each step of the rewards is an `AnyStep` of the payout path (one of its own,
  or rows appended and blocks added in any order), which is all its lemmas need.
* `PoolFairSplit` and `PoolNeverPaysImmature` from it, with every failure.
* `PoolNeverPaidTwice`, under `Reliable`.
* `PoolIsConserved`, under `Reliable` and if nothing fails in the handlers but writes to a
  miner: `Surplus + orphaned` stays 0, and what the transactions took from the wallet is
  the sum over the paid rows, each of which is paid once.
* `PoolBacked`, under `Reliable`, whatever fails in the handlers. `BackedUpToLosses` is not
  inductive, since blocks mature while batches wait. `BackedInv` says for every height H
  that the credits of the blocks up to H, booked or still to be booked, do not exceed the
  coinbases of those blocks and what was orphaned (`BackedAt`). Instantiated at the height
  that has matured, it covers the batch and everything paid before.

`StratumSessionProofs` (any connections and concurrent messages): `SessionInvariance`,
`TimersOwnedThm`, `DifficultyToldThm`. `SessionInv` says that of the messages of
a session at most one is between writing the first difficulty and starting the timers,
that the session counts as initialised by then, and that a session that is initialised or
has suggested a difficulty was told the one in force.

`ClientRegistryProofs` (any sessions, shares and limits): `RegistryInvariance`,
`InsertedOnceThm`, `LiveSessionShownThm`, `BestShareKeptThm`. `RegistryInv` says that
the queue holds only sessions whose promise is pending, each once, that a row exists only
when the promise was resolved, and that the row's `updatedAt` is never behind the one the
session remembers.

`MinerServicesProofs`:

* `TelegramInvariance`, `SubscribedOnceThm`, `HandledInOrderThm` (any chats, polls,
  updates, restarts). `TelegramInv` says that at most one poll is under way, that
  what is left of its batch is consecutive and starts at or after the offset, and that it
  saves only a subscription that does not exist.
* `LoginInvariance`, `TokensEarnedThm`, `FieldsIndependentThm` (any addresses and
  requests). `LoginInv` adds that the challenge in the store and the one a scan is under way
  for are those issued under their nonces, with their amounts, so that the amount a scan
  looks for is that of the token's own challenge; that a settings request in progress
  belongs to an address with a token; and that its UPDATE finds the row its INSERT left.
* `StatisticsInvariance`, `AccumulatedWorkThm`, under `OneAtATime`: shares of a session
  do not overlap in `addShares`. `StatisticsInv` says that slots are entered in order,
  that only the last row may be behind the memory, and that the closed rows, the memory
  and a share waiting for the old slot add up to the work. StatisticsOverlap shows that
  the assumption is needed.
* `ReportsInvariance`, `ReportConfirmedThm` (any explorers, blocks and restarts).

The assumptions on constants (`ConstantsAssumption`, `RewardAssumption`,
`JobsAssumption`, `PoolAssumption` and those of the other components) are evaluated by
TLC in every run of their module. Several say that a set of sessions, addresses or
miners is not empty, since a record of an idle slot names one. The inductive invariants
are in no run; they were checked with TLC on the runs' instances before they were proved.

Only model-checked:

* Liveness (`Eventually...`, `SubmissionsEnd`, `ClosedSessionVanishes`, `PaidLogsIn`,
  `NewMinerLowered`): outside the prover's reach.
* `RetargetFits` of `VarDiff`: recursion over words whose width is a constant; powers of
  two of an unknown exponent are opaque to the provers.
* `ServerTypeOK` and `ServicesTypeOK`, which are about the instances of the MC modules. The
  types of the session, the registry, the statistics (one share at a time), the bot and
  the login are proved of those components; those of `VarDiff`, `ChainTip` and
  `Backpressure` are only checked.

## Not modelled

* Message parsing and validation, byte layout, amounts as decimal strings, the HTTP
  views, log rotation, Discord, external shares and the thin HTTP clients: data and I/O
  without an ordering question.
* `checkPoolWalletReconciliation`, which only logs.
* The connection limit: `net.Server` enforces it, per `Server` object, so that the one
  created on resuming (`stratum-v1.service.ts:232`) counts from 0 again.
* The deletion of old statistics and blocks: rows that no modelled step reads.
* A cluster of processes. The registry starts from an empty table because the first
  instance (or the master) deletes it; the others do not.
* In `StratumJobs` and `StratumSession` the result of vardiff is any difficulty;
  `VarDiff` says which.

## Plan

Everything planned is modelled and proved, the composition included. A next step would be
a pool that may stop (`RewardCrash` and `PayoutCrash` in one step), for which
`BackedUpToLosses` has to count the payments that a stop repeats.
