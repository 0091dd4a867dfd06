---------------------------- MODULE TelegramBot ----------------------------
(***************************************************************************)
(* TelegramService: the polling of getUpdates and the commands it handles, *)
(* with the subscriptions they change.  Updates are numbered from 1.       *)
(* Telegram keeps an update until a request asks for later ones; the       *)
(* offset of the bot is in memory only.                                    *)
(***************************************************************************)
EXTENDS Integers, Sequences, FiniteSets

CONSTANTS
  Polls,             \* firings of the polling timer in progress
  Chats, Addresses,
  MaxUpdates, MaxRestarts   \* bounds

ASSUME TelegramAssumption ==
  /\ Addresses # {}
  /\ MaxUpdates \in Nat /\ MaxRestarts \in Nat

VARIABLES
  updates,        \* what users sent
  confirmed,      \* Telegram: updates before this one are forgotten
  bot,            \* the fields of TelegramService
  poll,           \* the firings in pollUpdates
  subscriptions,  \* telegram_subscriptions_entity: how many rows each chat and address has
  begun,          \* ghost: updates whose handling began since the start, in order
  everBegun,      \* ghost: the same over all starts
  restarts

telegramVars == <<updates, confirmed, bot, poll, subscriptions, begun, everBegun, restarts>>

\* "query" is any command that only answers (list, balance, help, a wrong address),
\* "ignored" a message that is not a command.
Commands ==
  [command : {"subscribe", "unsubscribe"}, chat : Chats, address : Addresses]
  \cup [command : {"unsubscribeAll", "query", "ignored"}, chat : Chats,
        address : {CHOOSE a \in Addresses : TRUE}]

PollState == [pc : {"idle", "getUpdates", "next", "find", "save", "delete", "sendMessage"},
              offset : Nat, batch : Seq(Nat), current : Nat]
IdlePoll == [pc |-> "idle", offset |-> 0, batch |-> << >>, current |-> 0]

NewBot == [updateOffset |-> 0, isPolling |-> FALSE, conflictBackoff |-> FALSE]

TelegramInit ==
  /\ updates = << >> /\ confirmed = 1
  /\ bot = NewBot
  /\ poll = [p \in Polls |-> IdlePoll]
  /\ subscriptions = [r \in Chats \X Addresses |-> 0]
  /\ begun = << >> /\ everBegun = {} /\ restarts = 0

SetPoll(p, r) == poll' = [poll EXCEPT ![p] = r]
PollPc(p, pc) == SetPoll(p, [poll[p] EXCEPT !.pc = pc])
Current(p) == updates[poll[p].current]

-----------------------------------------------------------------------------
(* pollUpdates                                                             *)

\* Mutant of pollUpdates: without the isPolling guard.
pollUpdatesUnguarded(p) ==
  /\ poll[p].pc = "idle"
  /\ ~bot.conflictBackoff
  /\ SetPoll(p, [IdlePoll EXCEPT !.pc = "getUpdates", !.offset = bot.updateOffset])
  /\ UNCHANGED <<updates, confirmed, bot, subscriptions, begun, everBegun, restarts>>

\* The timer fires; during a backoff, or a poll in progress, it does nothing.
pollUpdates(p) ==
  /\ poll[p].pc = "idle"
  /\ ~bot.conflictBackoff /\ ~bot.isPolling
  /\ bot' = [bot EXCEPT !.isPolling = TRUE]
  /\ SetPoll(p, [IdlePoll EXCEPT !.pc = "getUpdates", !.offset = bot.updateOffset])
  /\ UNCHANGED <<updates, confirmed, subscriptions, begun, everBegun, restarts>>

\* What Telegram returns for an offset, and forgets.
Forgotten(offset) == IF offset > confirmed THEN offset ELSE confirmed
Unread(offset) == [i \in 1..(Len(updates) + 1 - Forgotten(offset)) |-> Forgotten(offset) + i - 1]

getUpdates(p) ==
  /\ poll[p].pc = "getUpdates"
  /\ confirmed' = Forgotten(poll[p].offset)
  /\ SetPoll(p, [poll[p] EXCEPT !.pc = "next", !.batch = Unread(poll[p].offset)])
  /\ UNCHANGED <<updates, bot, subscriptions, begun, everBegun, restarts>>

\* The catch and finally of pollUpdates.
PollEnds(p) ==
  /\ bot' = [bot EXCEPT !.isPolling = FALSE]
  /\ SetPoll(p, IdlePoll)

\* Any other request or statement throws: the rest of the batch is dropped.  A
\* request may have reached Telegram before its answer was lost.
PollThrows(p) ==
  /\ poll[p].pc \notin {"idle", "next"}
  /\ PollEnds(p)
  /\ confirmed' \in {confirmed} \cup
       (IF poll[p].pc = "getUpdates" THEN {Forgotten(poll[p].offset)} ELSE {})
  /\ UNCHANGED <<updates, subscriptions, begun, everBegun, restarts>>

\* Mutant of Conflict: the return leaves isPolling set.
ConflictKeepsPolling(p) ==
  /\ poll[p].pc = "getUpdates"
  /\ bot' = [bot EXCEPT !.conflictBackoff = TRUE]
  /\ SetPoll(p, IdlePoll)
  /\ UNCHANGED <<updates, confirmed, subscriptions, begun, everBegun, restarts>>

\* Another process polls with the same token.
Conflict(p) ==
  /\ poll[p].pc = "getUpdates"
  /\ bot' = [bot EXCEPT !.conflictBackoff = TRUE, !.isPolling = FALSE]
  /\ SetPoll(p, IdlePoll)
  /\ UNCHANGED <<updates, confirmed, subscriptions, begun, everBegun, restarts>>

\* A minute later.
BackoffEnds ==
  /\ bot.conflictBackoff
  /\ bot' = [bot EXCEPT !.conflictBackoff = FALSE]
  /\ UNCHANGED <<updates, confirmed, poll, subscriptions, begun, everBegun, restarts>>

BatchDone(p) ==
  /\ poll[p].pc = "next" /\ poll[p].batch = << >>
  /\ PollEnds(p)
  /\ UNCHANGED <<updates, confirmed, subscriptions, begun, everBegun, restarts>>

-----------------------------------------------------------------------------
(* handleMessage                                                           *)

FirstAwait(command) ==
  CASE command = "subscribe" -> "find"
    [] command \in {"unsubscribe", "unsubscribeAll"} -> "delete"
    [] command = "query" -> "sendMessage"
    [] command = "ignored" -> "next"

\* Mutant of OffsetAfter: the update itself is asked for again.
OffsetAt(i) == i

OffsetAfter(i) == i + 1

\* The offset moves on before the update is handled.
NextUpdate(p) ==
  LET i == Head(poll[p].batch)
  IN  /\ poll[p].pc = "next" /\ poll[p].batch # << >>
      /\ bot' = [bot EXCEPT !.updateOffset = OffsetAfter(i)]
      /\ SetPoll(p, [poll[p] EXCEPT !.pc = FirstAwait(updates[i].command),
                                    !.batch = Tail(@), !.current = i])
      /\ begun' = Append(begun, i) /\ everBegun' = everBegun \cup {i}
      /\ UNCHANGED <<updates, confirmed, subscriptions, restarts>>

Row(p) == <<Current(p).chat, Current(p).address>>

\* saveSubscription: findOne ...
FindSubscription(p) ==
  /\ poll[p].pc = "find"
  /\ PollPc(p, IF subscriptions[Row(p)] > 0 THEN "sendMessage" ELSE "save")
  /\ UNCHANGED <<updates, confirmed, bot, subscriptions, begun, everBegun, restarts>>

\* ... and save.
SaveSubscription(p) ==
  /\ poll[p].pc = "save"
  /\ subscriptions' = [subscriptions EXCEPT ![Row(p)] = @ + 1]
  /\ PollPc(p, "sendMessage")
  /\ UNCHANGED <<updates, confirmed, bot, begun, everBegun, restarts>>

\* The rows /unsubscribe leaves: of the chat, or of the chat and the address.
Kept(p, r) ==
  \/ r[1] # Current(p).chat
  \/ Current(p).command = "unsubscribe" /\ r[2] # Current(p).address

DeleteSubscriptions(p) ==
  /\ poll[p].pc = "delete"
  /\ subscriptions' = [r \in Chats \X Addresses |-> IF Kept(p, r) THEN subscriptions[r] ELSE 0]
  /\ PollPc(p, "sendMessage")
  /\ UNCHANGED <<updates, confirmed, bot, begun, everBegun, restarts>>

sendMessage(p) ==
  /\ poll[p].pc = "sendMessage"
  /\ PollPc(p, "next")
  /\ UNCHANGED <<updates, confirmed, bot, subscriptions, begun, everBegun, restarts>>

-----------------------------------------------------------------------------
UserSends ==
  /\ Len(updates) < MaxUpdates
  /\ \E c \in Commands : updates' = Append(updates, c)
  /\ UNCHANGED <<confirmed, bot, poll, subscriptions, begun, everBegun, restarts>>

\* The process restarts: the offset is forgotten, the table and Telegram are not.
BotRestart ==
  /\ restarts < MaxRestarts
  /\ restarts' = restarts + 1
  /\ bot' = NewBot
  /\ poll' = [p \in Polls |-> IdlePoll]
  /\ begun' = << >>
  /\ UNCHANGED <<updates, confirmed, subscriptions, everBegun>>

\* The steps of a poll after its request.
PollStep(p) ==
  \/ NextUpdate(p) \/ BatchDone(p) \/ FindSubscription(p) \/ SaveSubscription(p)
  \/ DeleteSubscriptions(p) \/ sendMessage(p)

TelegramNext ==
  \/ \E p \in Polls : pollUpdates(p) \/ getUpdates(p) \/ Conflict(p) \/ PollThrows(p) \/ PollStep(p)
  \/ BackoffEnds \/ UserSends \/ BotRestart

TelegramSpec == TelegramInit /\ [][TelegramNext]_telegramVars

-----------------------------------------------------------------------------
(* Properties                                                              *)

\* The type invariant: among the rest, the offset is at most that of the next update
\* to come.
TelegramTypeOK ==
  /\ updates \in Seq(Commands)
  /\ confirmed \in 1..(Len(updates) + 1)
  /\ bot \in [updateOffset : 0..(Len(updates) + 1), isPolling : BOOLEAN, conflictBackoff : BOOLEAN]
  /\ poll \in [Polls -> PollState]
  /\ subscriptions \in [Chats \X Addresses -> Nat]

\* However often /subscribe is sent, and although an update is handled again after a
\* restart or a lost answer, a chat has one row per address: findOne and save of two
\* updates never overlap.
SubscribedOnce == \A r \in Chats \X Addresses : subscriptions[r] <= 1

\* Between two starts of the process every update is handled at most once, in the
\* order the users sent them, whatever requests fail in between.
HandledInOrder == \A i, j \in 1..Len(begun) : i < j => begun[i] < begun[j]

\* Every update is handled eventually, if requests succeed again and again: neither a
\* failure nor a conflict stops the polling, and none is skipped by dropping a batch.
EventuallyHandled ==
  \A i \in 1..MaxUpdates : (i <= Len(updates)) ~> (i \in everBegun)

-----------------------------------------------------------------------------
(* The inductive invariant behind SubscribedOnce and HandledInOrder.       *)

\* A poll holds isPolling; while it awaits the answer no one moves the offset; what is
\* left of its batch are consecutive updates from the offset on; and it saves only a
\* subscription that does not exist.
PollGood(r) ==
  /\ r.pc # "idle" => bot.isPolling
  /\ r.pc = "idle" => r.batch = << >>
  /\ r.pc = "getUpdates" => r.offset = bot.updateOffset
  /\ \A k \in 1..Len(r.batch) :
       /\ r.batch[k] \in 1..Len(updates) /\ r.batch[k] >= bot.updateOffset
       /\ r.batch[k] = r.batch[1] + k - 1
  /\ r.pc \in {"find", "save", "delete", "sendMessage"} => r.current \in 1..Len(updates)
  /\ r.pc = "save" =>
       subscriptions[<<updates[r.current].chat, updates[r.current].address>>] = 0

TelegramInv ==
  /\ \A p \in Polls : PollGood(poll[p])
  /\ \A p, r \in Polls : poll[p].pc # "idle" /\ poll[r].pc # "idle" => p = r
  /\ begun \in Seq(Nat) /\ \A i \in 1..Len(begun) : begun[i] < bot.updateOffset
  /\ SubscribedOnce /\ HandledInOrder
=============================================================================
