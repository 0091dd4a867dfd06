------------------------------ MODULE ChainTip ------------------------------
(***************************************************************************)
(* How the pool learns of a new best block and moves a session's work onto *)
(* it: BitcoinRpcService (the 500 ms timer or the ZMQ listener, and        *)
(* pollMiningInfo) and, of a session, the subscription to newBlock$ and    *)
(* the timer that fetches a template every 30 s.                           *)
(*                                                                         *)
(* The chain is external: it grows, and its tip may be replaced by another *)
(* block of the same height.  ZMQ may lose messages.                       *)
(***************************************************************************)
EXTENDS Integers, Sequences

CONSTANTS
  ChainPolls,     \* getmininginfo calls in flight at the same time
  Refreshes,      \* getblocktemplate calls of the session in flight
  MaxBlocks       \* bound: blocks the node adopts

ASSUME ChainAssumption == ChainPolls # {} /\ Refreshes # {} /\ MaxBlocks \in Nat

VARIABLES
  zmq,            \* whether a ZMQ host is configured
  best,           \* the node's tip: its height, and a number no other tip has
  rawblock,       \* whether a ZMQ message waits to be handled
  blockHeight,    \* BitcoinRpcService.blockHeight
  chainPoll,      \* the getmininginfo calls
  miner,          \* the session: its state, and the tip its work builds on (0: none)
  refresh         \* the getblocktemplate calls of the session

chainVars == <<zmq, best, rawblock, blockHeight, chainPoll, miner, refresh>>

IdlePoll == [pc |-> "idle", by |-> "timer", blocks |-> 0]
IdleRefresh == [pc |-> "idle", by |-> "timer", tip |-> 0]

\* With ZMQ the tip is polled once at the start.
ChainInit ==
  /\ zmq \in BOOLEAN
  /\ best = [height |-> 1, id |-> 1]
  /\ rawblock = FALSE
  /\ blockHeight = 0
  /\ chainPoll \in
       {[[p \in ChainPolls |-> IdlePoll] EXCEPT
           ![q] = IF zmq THEN [pc |-> "asked", by |-> "start", blocks |-> 0] ELSE IdlePoll]
        : q \in ChainPolls}
  /\ miner = [state |-> "new", tip |-> 0]
  /\ refresh = [r \in Refreshes |-> IdleRefresh]

-----------------------------------------------------------------------------
(* The node                                                                *)

\* A block is added to the tip or replaces it, and is published.
NewBlock ==
  /\ best.id < MaxBlocks
  /\ \E h \in {best.height, best.height + 1} : best' = [height |-> h, id |-> best.id + 1]
  /\ rawblock' \in {rawblock, zmq}
  /\ UNCHANGED <<zmq, blockHeight, chainPoll, miner, refresh>>

\* getmininginfo and getblocktemplate answer with the tip of that moment.
InfoAnswered(p) ==
  /\ chainPoll[p].pc = "asked"
  /\ chainPoll' = [chainPoll EXCEPT ![p] = [@ EXCEPT !.pc = "answered",
                                                     !.blocks = best.height]]
  /\ UNCHANGED <<zmq, best, rawblock, blockHeight, miner, refresh>>

TemplateAnswered(r) ==
  /\ refresh[r].pc = "asked"
  /\ refresh' = [refresh EXCEPT ![r] = [@ EXCEPT !.pc = "answered", !.tip = best.id]]
  /\ UNCHANGED <<zmq, best, rawblock, blockHeight, chainPoll, miner>>

-----------------------------------------------------------------------------
(* BitcoinRpcService                                                       *)

StartPoll(p, by) ==
  /\ chainPoll[p].pc = "idle"
  /\ chainPoll' = [chainPoll EXCEPT ![p] = [pc |-> "asked", by |-> by, blocks |-> 0]]

\* The 500 ms timer does not wait for an earlier poll.
TimerPolls(p) ==
  /\ ~zmq
  /\ StartPoll(p, "timer")
  /\ UNCHANGED <<zmq, best, rawblock, blockHeight, miner, refresh>>

\* listenForNewBlocks handles one message after the other.
listenForNewBlocks(p) ==
  /\ rawblock /\ \A q \in ChainPolls : chainPoll[q].by = "listener" => chainPoll[q].pc = "idle"
  /\ rawblock' = FALSE
  /\ StartPoll(p, "listener")
  /\ UNCHANGED <<zmq, best, blockHeight, miner, refresh>>

\* getMiningInfo logs an error and yields null.
PollFails(p) ==
  /\ chainPoll[p].pc = "asked"
  /\ chainPoll' = [chainPoll EXCEPT ![p] = IdlePoll]
  /\ UNCHANGED <<zmq, best, rawblock, blockHeight, miner, refresh>>

AskTemplate(r, by) ==
  /\ refresh[r].pc = "idle"
  /\ refresh' = [refresh EXCEPT ![r] = [pc |-> "asked", by |-> by, tip |-> 0]]

\* What an emission of newBlock$ does: an open session asks for a template.
Emit == IF miner.state = "open" THEN \E r \in Refreshes : AskTemplate(r, "block")
        ELSE UNCHANGED refresh

Higher(blocks) == blocks > blockHeight

\* pollMiningInfo after its await.
pollMiningInfo(p) ==
  /\ chainPoll[p].pc = "answered"
  /\ LET blocks == chainPoll[p].blocks
     IN  IF Higher(blocks)
         THEN /\ blockHeight' = blocks
              /\ Emit
         ELSE UNCHANGED <<blockHeight, refresh>>
  /\ chainPoll' = [chainPoll EXCEPT ![p] = IdlePoll]
  /\ UNCHANGED <<zmq, best, rawblock, miner>>

-----------------------------------------------------------------------------
(* The session                                                             *)

\* initStratum subscribes; newBlock$ replays its last value.
SessionOpens ==
  /\ miner.state = "new"
  /\ miner' = [miner EXCEPT !.state = "open"]
  /\ IF blockHeight # 0 THEN \E r \in Refreshes : AskTemplate(r, "block")
     ELSE UNCHANGED refresh
  /\ UNCHANGED <<zmq, best, rawblock, blockHeight, chainPoll>>

\* Mutant of TimerRefreshes: the timer only helps a session that has no work.
TimerRefreshesFirst(r) ==
  /\ miner.state = "open" /\ miner.tip = 0
  /\ AskTemplate(r, "timer")
  /\ UNCHANGED <<zmq, best, rawblock, blockHeight, chainPoll, miner>>

\* The timer of refreshMiningJob.
TimerRefreshes(r) ==
  /\ miner.state = "open"
  /\ AskTemplate(r, "timer")
  /\ UNCHANGED <<zmq, best, rawblock, blockHeight, chainPoll, miner>>

\* The rest of refreshMiningJob: answers are handled in any order.
refreshArrives(r) ==
  /\ refresh[r].pc = "answered"
  /\ miner' = IF miner.state = "open" THEN [miner EXCEPT !.tip = refresh[r].tip] ELSE miner
  /\ refresh' = [refresh EXCEPT ![r] = IdleRefresh]
  /\ UNCHANGED <<zmq, best, rawblock, blockHeight, chainPoll>>

\* The request fails: after a new block the socket is ended, on the timer the failure
\* is logged.
refreshFails(r) ==
  /\ refresh[r].pc = "asked"
  /\ miner' = IF refresh[r].by = "block" THEN [miner EXCEPT !.state = "closed"] ELSE miner
  /\ refresh' = [refresh EXCEPT ![r] = IdleRefresh]
  /\ UNCHANGED <<zmq, best, rawblock, blockHeight, chainPoll>>

-----------------------------------------------------------------------------
ChainNext ==
  \/ NewBlock \/ SessionOpens
  \/ \E p \in ChainPolls : \/ TimerPolls(p) \/ listenForNewBlocks(p)
                           \/ InfoAnswered(p) \/ PollFails(p) \/ pollMiningInfo(p)
  \/ \E r \in Refreshes : \/ TimerRefreshes(r) \/ TemplateAnswered(r)
                          \/ refreshArrives(r) \/ refreshFails(r)

ChainSpec == ChainInit /\ [][ChainNext]_chainVars

-----------------------------------------------------------------------------
(* Properties                                                              *)

ChainTypeOK ==
  /\ zmq \in BOOLEAN /\ rawblock \in BOOLEAN
  /\ best \in [height : 1..MaxBlocks, id : 1..MaxBlocks]
  /\ blockHeight \in 0..best.height
  /\ chainPoll \in [ChainPolls -> [pc : {"idle", "asked", "answered"},
                                   by : {"timer", "start", "listener"},
                                   blocks : 0..MaxBlocks]]
  /\ miner \in [state : {"new", "open", "closed"}, tip : 0..MaxBlocks]
  /\ refresh \in [Refreshes -> [pc : {"idle", "asked", "answered"},
                                by : {"timer", "block"}, tip : 0..MaxBlocks]]

\* When the chain comes to rest, an open session gets to work on its tip and stays
\* there, although ZMQ lost the message or the tip was replaced at the same height,
\* which is never announced.
EventuallyOnTip == <>[](miner.state = "open" => miner.tip = best.id)
=============================================================================
