------------------------- MODULE MinerServicesProofs -------------------------
(***************************************************************************)
(* Theorems about the services around the pool that keep state for its     *)
(* miners, each about its own specification: TelegramBot, AddressLogin,    *)
(* ShareStatistics and PoolRegistry.                                       *)
(***************************************************************************)
EXTENDS TelegramBot, AddressLogin, ShareStatistics, PoolRegistry, SequenceTheorems, SumTheorems

-----------------------------------------------------------------------------
(* TelegramBot: the types                                                  *)

\* What the bot and Telegram say of an offset stays within the updates.
LEMMA ForgottenRange ==
  ASSUME TelegramTypeOK, NEW o \in 0..(Len(updates) + 1)
  PROVE  /\ Forgotten(o) \in 1..(Len(updates) + 1)
         /\ Forgotten(o) >= o
BY LenProperties DEF TelegramTypeOK, Forgotten

\* The answer to getUpdates: the consecutive updates from the offset on.
LEMMA UnreadIs ==
  ASSUME TelegramTypeOK, NEW o \in 0..(Len(updates) + 1)
  PROVE  /\ Unread(o) \in Seq(Nat)
         /\ \A k \in 1..Len(Unread(o)) :
              /\ Unread(o)[k] \in 1..Len(updates) /\ Unread(o)[k] >= o
              /\ Unread(o)[k] = Unread(o)[1] + k - 1
<1>1. PICK f : f = Forgotten(o)
  OBVIOUS
<1>2. PICK n : n = Len(updates)
  OBVIOUS
<1>3. n \in Nat /\ f \in 1..(n + 1) /\ f >= o
  BY <1>1, <1>2, ForgottenRange, LenProperties DEF TelegramTypeOK
<1>4. Unread(o) = [i \in 1..(n + 1 - f) |-> f + i - 1]
  BY <1>1, <1>2 DEF Unread
<1>5. n + 1 - f \in Nat /\ \A i \in 1..(n + 1 - f) : f + i - 1 \in Nat
  BY <1>3
<1>6. Unread(o) \in Seq(Nat) /\ Len(Unread(o)) = n + 1 - f
  BY <1>4, <1>5, IsASeq
<1>7. ASSUME NEW k \in 1..Len(Unread(o))
      PROVE  /\ Unread(o)[k] \in 1..n /\ Unread(o)[k] >= o
             /\ Unread(o)[k] = Unread(o)[1] + k - 1
  <2>1. k \in 1..(n + 1 - f) /\ 1 \in 1..(n + 1 - f)
    BY <1>3, <1>6
  <2>2. Unread(o)[k] = f + k - 1 /\ Unread(o)[1] = f + 1 - 1
    BY <1>4, <2>1
  <2> QED BY <1>3, <2>1, <2>2
<1> QED BY <1>2, <1>6, <1>7

\* What an update names.
LEMMA CommandTypes ==
  ASSUME NEW c \in Commands
  PROVE  /\ c.chat \in Chats /\ c.address \in Addresses
         /\ FirstAwait(c.command) \in {"find", "delete", "sendMessage", "next"}
<1>1. (CHOOSE a \in Addresses : TRUE) \in Addresses
  BY TelegramAssumption
<1> QED BY <1>1 DEF Commands, FirstAwait

-----------------------------------------------------------------------------
(* TelegramBot: frames                                                     *)

\* The type of the bot's fields, for n updates.
BotType(n) == [updateOffset : 0..(n + 1), isPolling : BOOLEAN, conflictBackoff : BOOLEAN]

\* While one poll is not idle, all others are.
LEMMA OthersIdle ==
  ASSUME TelegramInv, NEW p \in Polls, poll[p].pc # "idle" \/ ~bot.isPolling
  PROVE  \A q \in Polls : q # p => poll[q].pc = "idle"
BY DEF TelegramInv, PollGood

\* What a step of poll p has to show when all others are idle.
LEMMA PollFrame ==
  ASSUME TelegramTypeOK, TelegramInv, NEW p \in Polls, NEW r \in PollState, SetPoll(p, r),
         \A q \in Polls : q # p => poll[q].pc = "idle",
         UNCHANGED updates, confirmed' \in 1..(Len(updates) + 1),
         bot' \in BotType(Len(updates)), subscriptions' \in [Chats \X Addresses -> Nat],
         PollGood(r)', begun' \in Seq(Nat),
         \A i \in 1..Len(begun') : begun'[i] < bot'.updateOffset,
         SubscribedOnce', HandledInOrder'
  PROVE  TelegramTypeOK' /\ TelegramInv'
<1>1. poll \in [Polls -> PollState] /\ poll' = [poll EXCEPT ![p] = r]
  BY DEF TelegramTypeOK, SetPoll
<1>2. poll' \in [Polls -> PollState] /\ poll'[p] = r /\ \A q \in Polls : q # p => poll'[q] = poll[q]
  BY <1>1
<1>3. TelegramTypeOK'
  BY <1>2 DEF TelegramTypeOK, BotType
<1>4. ASSUME NEW q \in Polls, q # p PROVE PollGood(poll[q])'
  <2>1. poll'[q] = poll[q] /\ poll[q].pc = "idle" /\ poll[q].batch = << >>
    BY <1>2, <1>4 DEF TelegramInv, PollGood
  <2> QED BY <2>1 DEF PollGood
<1>5. \A q \in Polls : PollGood(poll[q])'
  <2>1. PollGood(poll[p])'
    BY <1>2 DEF PollGood
  <2> QED BY <1>4, <2>1
<1>6. \A q, s \in Polls : poll'[q].pc # "idle" /\ poll'[s].pc # "idle" => q = s
  BY <1>2
<1> QED BY <1>3, <1>5, <1>6 DEF TelegramInv

\* A step of poll p that starts no update and leaves the offset alone.
LEMMA QuietPollFrame ==
  ASSUME TelegramTypeOK, TelegramInv, NEW p \in Polls, NEW r \in PollState, SetPoll(p, r),
         poll[p].pc # "idle" \/ ~bot.isPolling,
         UNCHANGED <<updates, begun>>, confirmed' \in 1..(Len(updates) + 1),
         bot' \in BotType(Len(updates)), bot'.updateOffset = bot.updateOffset,
         subscriptions' \in [Chats \X Addresses -> Nat], PollGood(r)', SubscribedOnce'
  PROVE  TelegramTypeOK' /\ TelegramInv'
<1>1. \A q \in Polls : q # p => poll[q].pc = "idle"
  BY OthersIdle
<1>2. begun' \in Seq(Nat) /\ (\A i \in 1..Len(begun') : begun'[i] < bot'.updateOffset)
      /\ HandledInOrder'
  BY DEF TelegramInv, HandledInOrder
<1> QED BY <1>1, <1>2, PollFrame

-----------------------------------------------------------------------------
(* TelegramBot: the steps                                                  *)

\* A poll slot that is not in use.
LEMMA IdlePollType == IdlePoll \in PollState /\ IdlePoll.pc = "idle" /\ IdlePoll.batch = << >>
<1>1. << >> \in Seq(Nat)
  BY EmptySeq
<1> QED BY <1>1 DEF IdlePoll, PollState

\* The ends of a poll.
LEMMA PollEndsInv ==
  ASSUME TelegramTypeOK, TelegramInv, NEW p \in Polls, poll[p].pc # "idle",
         SetPoll(p, IdlePoll), UNCHANGED <<updates, begun, subscriptions>>,
         confirmed' \in 1..(Len(updates) + 1), NEW b \in BOOLEAN,
         bot' = [bot EXCEPT !.isPolling = FALSE, !.conflictBackoff = b]
  PROVE  TelegramTypeOK' /\ TelegramInv'
<1>1. bot' \in BotType(Len(updates)) /\ bot'.updateOffset = bot.updateOffset
  BY DEF TelegramTypeOK, BotType
<1>2. PollGood(IdlePoll)'
  BY IdlePollType DEF PollGood
<1>3. SubscribedOnce' /\ subscriptions' \in [Chats \X Addresses -> Nat]
  BY DEF TelegramInv, SubscribedOnce, TelegramTypeOK
<1> QED BY <1>1, <1>2, <1>3, IdlePollType, QuietPollFrame

\* The timer starts a poll, if none is running.
LEMMA PollStartInv ==
  ASSUME TelegramTypeOK, TelegramInv, NEW p \in Polls, pollUpdates(p)
  PROVE  TelegramTypeOK' /\ TelegramInv'
<1>1. PICK r : r = [IdlePoll EXCEPT !.pc = "getUpdates", !.offset = bot.updateOffset]
  OBVIOUS
<1>2. bot.updateOffset \in Nat /\ bot \in BotType(Len(updates))
  BY LenProperties DEF TelegramTypeOK, BotType
<1>3. r \in PollState /\ r.pc = "getUpdates" /\ r.offset = bot.updateOffset /\ r.batch = << >>
  BY <1>1, <1>2, IdlePollType DEF PollState
<1>4. /\ bot' = [bot EXCEPT !.isPolling = TRUE] /\ ~bot.isPolling /\ SetPoll(p, r)
      /\ UNCHANGED <<updates, confirmed, subscriptions, begun>>
  BY <1>1 DEF pollUpdates
<1>5. bot' \in BotType(Len(updates)) /\ bot'.updateOffset = bot.updateOffset /\ bot'.isPolling
  BY <1>2, <1>4 DEF BotType
<1>6. PollGood(r)'
  BY <1>3, <1>5 DEF PollGood
<1>7. SubscribedOnce' /\ subscriptions' \in [Chats \X Addresses -> Nat]
      /\ confirmed' \in 1..(Len(updates) + 1)
  BY <1>4 DEF TelegramInv, SubscribedOnce, TelegramTypeOK
<1> QED BY <1>3, <1>4, <1>5, <1>6, <1>7, QuietPollFrame

\* Telegram answers with the updates from the offset on.
LEMMA GetUpdatesInv ==
  ASSUME TelegramTypeOK, TelegramInv, NEW p \in Polls, getUpdates(p)
  PROVE  TelegramTypeOK' /\ TelegramInv'
<1>0. PICK o : o = poll[p].offset
  OBVIOUS
<1>1. PICK b : b = Unread(o)
  OBVIOUS
<1>2. PICK r : r = [poll[p] EXCEPT !.pc = "next", !.batch = b]
  OBVIOUS
<1>3. /\ poll[p].pc = "getUpdates" /\ PollGood(poll[p]) /\ poll[p] \in PollState
      /\ bot \in BotType(Len(updates))
  BY DEF getUpdates, TelegramInv, TelegramTypeOK, BotType
<1>4. o = bot.updateOffset /\ o \in 0..(Len(updates) + 1) /\ bot.isPolling
  BY <1>0, <1>3 DEF PollGood, BotType
<1>5. /\ b \in Seq(Nat)
      /\ \A k \in 1..Len(b) : b[k] \in 1..Len(updates) /\ b[k] >= o /\ b[k] = b[1] + k - 1
  BY <1>1, <1>4, UnreadIs
<1>6. r \in PollState /\ r.pc = "next" /\ r.batch = b
  BY <1>2, <1>3, <1>5 DEF PollState
<1>7. /\ confirmed' = Forgotten(o) /\ SetPoll(p, r)
      /\ UNCHANGED <<updates, bot, subscriptions, begun>>
  BY <1>0, <1>1, <1>2 DEF getUpdates
<1>8. PollGood(r)'
  BY <1>4, <1>5, <1>6, <1>7 DEF PollGood
<1>9. SubscribedOnce' /\ subscriptions' \in [Chats \X Addresses -> Nat]
      /\ confirmed' \in 1..(Len(updates) + 1) /\ bot' \in BotType(Len(updates))
  BY <1>3, <1>4, <1>7, ForgottenRange DEF TelegramInv, SubscribedOnce, TelegramTypeOK
<1> QED BY <1>3, <1>6, <1>7, <1>8, <1>9, QuietPollFrame

\* A poll is over: its batch is done, a call throws or Telegram reports a conflict.
LEMMA PollThrowsInv ==
  ASSUME TelegramTypeOK, TelegramInv, NEW p \in Polls,
         PollThrows(p) \/ Conflict(p) \/ BatchDone(p)
  PROVE  TelegramTypeOK' /\ TelegramInv'
<1>0. bot \in BotType(Len(updates)) /\ confirmed \in 1..(Len(updates) + 1) /\ PollGood(poll[p])
  BY DEF TelegramTypeOK, BotType, TelegramInv
<1>1. PICK b \in BOOLEAN : bot' = [bot EXCEPT !.isPolling = FALSE, !.conflictBackoff = b]
  <2>1. bot.conflictBackoff \in BOOLEAN
        /\ [bot EXCEPT !.isPolling = FALSE] =
              [bot EXCEPT !.isPolling = FALSE, !.conflictBackoff = bot.conflictBackoff]
    BY <1>0 DEF BotType
  <2>2. [bot EXCEPT !.conflictBackoff = TRUE, !.isPolling = FALSE] =
           [bot EXCEPT !.isPolling = FALSE, !.conflictBackoff = TRUE]
    BY <1>0 DEF BotType
  <2> QED BY <2>1, <2>2 DEF PollThrows, Conflict, BatchDone, PollEnds
<1>2. /\ poll[p].pc # "idle" /\ SetPoll(p, IdlePoll)
      /\ UNCHANGED <<updates, begun, subscriptions>>
  BY DEF PollThrows, Conflict, BatchDone, PollEnds
<1>3. confirmed' \in 1..(Len(updates) + 1)
  <2>1. CASE confirmed' = confirmed
    BY <1>0, <2>1
  <2>2. CASE poll[p].pc = "getUpdates" /\ confirmed' = Forgotten(poll[p].offset)
    <3>1. poll[p].offset \in 0..(Len(updates) + 1)
      BY <1>0, <2>2 DEF PollGood, BotType
    <3> QED BY <2>2, <3>1, ForgottenRange
  <2> QED BY <2>1, <2>2 DEF PollThrows, Conflict, BatchDone
<1> QED BY <1>1, <1>2, <1>3, PollEndsInv

\* The next update of a batch is at the offset or later, so it is later than every one
\* begun before; the rest of the batch stays ahead of the new offset.
LEMMA NextUpdateInv ==
  ASSUME TelegramTypeOK, TelegramInv, NEW p \in Polls, NextUpdate(p)
  PROVE  TelegramTypeOK' /\ TelegramInv'
<1>0. PICK b : b = poll[p].batch
  OBVIOUS
<1>1. PICK i : i = Head(b)
  OBVIOUS
<1>2. PICK r : r = [poll[p] EXCEPT !.pc = FirstAwait(updates[i].command),
                                   !.batch = Tail(b), !.current = i]
  OBVIOUS
<1>3. PICK n : n = Len(updates)
  OBVIOUS
<1>4. /\ poll[p].pc = "next" /\ PollGood(poll[p]) /\ poll[p] \in PollState
      /\ bot \in BotType(n) /\ b \in Seq(Nat) /\ b # << >> /\ n \in Nat
      /\ updates \in Seq(Commands)
  BY <1>0, <1>3, LenProperties DEF NextUpdate, TelegramInv, TelegramTypeOK, BotType, PollState
<1>5. \A k \in 1..Len(b) : b[k] \in 1..n /\ b[k] >= bot.updateOffset /\ b[k] = b[1] + k - 1
  BY <1>0, <1>3, <1>4 DEF PollGood
<1>6. i = b[1] /\ i \in 1..n /\ i >= bot.updateOffset /\ Len(b) \in Nat \ {0}
  BY <1>1, <1>4, <1>5
<1>7. /\ Tail(b) \in Seq(Nat) /\ Len(Tail(b)) = Len(b) - 1
      /\ \A k \in 1..Len(Tail(b)) : Tail(b)[k] = b[k + 1] /\ k + 1 \in 1..Len(b)
  BY <1>4, <1>6
<1>8. \A k \in 1..Len(Tail(b)) :
        Tail(b)[k] \in 1..n /\ Tail(b)[k] >= i + 1 /\ Tail(b)[k] = Tail(b)[1] + k - 1
  <2> SUFFICES ASSUME NEW k \in 1..Len(Tail(b))
               PROVE  Tail(b)[k] \in 1..n /\ Tail(b)[k] >= i + 1
                      /\ Tail(b)[k] = Tail(b)[1] + k - 1
    OBVIOUS
  <2>1. k \in Nat \ {0} /\ 1 \in 1..Len(Tail(b))
    BY <1>6, <1>7
  <2>2. /\ Tail(b)[k] = b[k + 1] /\ Tail(b)[1] = b[2] /\ k + 1 \in 1..Len(b) /\ 2 \in 1..Len(b)
    BY <1>7, <2>1
  <2>3. b[k + 1] \in 1..n /\ b[k + 1] = b[1] + (k + 1) - 1 /\ b[2] = b[1] + 2 - 1
    BY <1>5, <2>2
  <2>4. \A u, v \in Nat : u >= 1 => v + (u + 1) - 1 >= v + 1 /\ v + (u + 1) - 1 = (v + 2 - 1) + u - 1
    OBVIOUS
  <2>5. b[1] \in Nat
    BY <1>6
  <2>6. b[k + 1] >= b[1] + 1 /\ b[k + 1] = b[2] + k - 1
    BY <2>1, <2>3, <2>4, <2>5
  <2> QED BY <1>6, <2>2, <2>3, <2>6
<1>9. PICK w : w = FirstAwait(updates[i].command)
  OBVIOUS
<1>10. w \in {"find", "delete", "sendMessage", "next"}
  <2>1. updates[i] \in Commands
    BY <1>3, <1>4, <1>6
  <2> QED BY <1>9, <2>1, CommandTypes
<1>11. r \in PollState /\ r.pc = w /\ r.batch = Tail(b) /\ r.current = i
  <2>1. r = [poll[p] EXCEPT !.pc = w, !.batch = Tail(b), !.current = i]
    BY <1>2, <1>9
  <2>2. i \in Nat /\ Tail(b) \in Seq(Nat) /\ poll[p] \in PollState
    BY <1>3, <1>4, <1>6, <1>7
  <2> QED BY <1>10, <2>1, <2>2 DEF PollState
<1>12. /\ bot' = [bot EXCEPT !.updateOffset = i + 1] /\ SetPoll(p, r)
       /\ begun' = Append(begun, i) /\ UNCHANGED <<updates, confirmed, subscriptions>>
  BY <1>0, <1>1, <1>2 DEF NextUpdate, OffsetAfter
<1>13. bot' \in BotType(n) /\ bot'.updateOffset = i + 1 /\ bot'.isPolling
  <2>1. bot.isPolling /\ i + 1 \in 0..(n + 1)
    BY <1>4, <1>6 DEF PollGood
  <2> QED BY <1>4, <1>12, <2>1 DEF BotType
<1>14. PollGood(r)'
  BY <1>3, <1>6, <1>8, <1>10, <1>11, <1>12, <1>13 DEF PollGood
<1>15. \A q \in Polls : q # p => poll[q].pc = "idle"
  BY <1>4, OthersIdle
<1>16. /\ begun \in Seq(Nat) /\ Len(begun) \in Nat /\ \A k \in 1..Len(begun) : begun[k] \in Nat
       /\ \A k \in 1..Len(begun) : begun[k] < bot.updateOffset
       /\ \A k, m \in 1..Len(begun) : k < m => begun[k] < begun[m]
  BY LenProperties DEF TelegramInv, HandledInOrder
<1>17. /\ begun' \in Seq(Nat) /\ Len(begun') = Len(begun) + 1 /\ begun'[Len(begun) + 1] = i
       /\ \A k \in 1..Len(begun) : begun'[k] = begun[k]
  BY <1>6, <1>12, <1>16
<1>18. bot.updateOffset \in Nat
  BY <1>4 DEF BotType
<1>19. \A k \in 1..Len(begun) : begun[k] < i
  BY <1>6, <1>16, <1>18
<1>20. \A k \in 1..Len(begun') : begun'[k] < bot'.updateOffset
  <2> SUFFICES ASSUME NEW k \in 1..Len(begun') PROVE begun'[k] < i + 1
    BY <1>13
  <2>1. CASE k \in 1..Len(begun)
    BY <1>6, <1>16, <1>17, <1>19, <2>1
  <2>2. CASE k = Len(begun) + 1
    BY <1>6, <1>17, <2>2
  <2> QED BY <1>16, <1>17, <2>1, <2>2
<1>21. HandledInOrder'
  <2> SUFFICES ASSUME NEW k \in 1..Len(begun'), NEW m \in 1..Len(begun'), k < m
               PROVE  begun'[k] < begun'[m]
    BY DEF HandledInOrder
  <2>1. k \in 1..Len(begun)
    BY <1>16, <1>17
  <2>2. CASE m \in 1..Len(begun)
    BY <1>16, <1>17, <2>1, <2>2
  <2>3. CASE m = Len(begun) + 1
    BY <1>17, <1>19, <2>1, <2>3
  <2> QED BY <1>16, <1>17, <2>2, <2>3
<1>22. SubscribedOnce' /\ subscriptions' \in [Chats \X Addresses -> Nat]
       /\ confirmed' \in 1..(Len(updates) + 1)
  BY <1>12 DEF TelegramInv, SubscribedOnce, TelegramTypeOK
<1> QED BY <1>3, <1>11, <1>12, <1>13, <1>14, <1>15, <1>17, <1>20, <1>21, <1>22, PollFrame

\* The statements of a command, and its answer: only the one poll in progress touches
\* the table, so what findOne found still holds when save runs.
LEMMA HandlingInv ==
  ASSUME TelegramTypeOK, TelegramInv, NEW p \in Polls,
         \/ FindSubscription(p) \/ SaveSubscription(p) \/ DeleteSubscriptions(p)
         \/ sendMessage(p)
  PROVE  TelegramTypeOK' /\ TelegramInv'
<1>0. /\ poll[p].pc \in {"find", "save", "delete", "sendMessage"} /\ PollGood(poll[p])
      /\ poll[p] \in PollState /\ updates \in Seq(Commands)
      /\ subscriptions \in [Chats \X Addresses -> Nat]
      /\ bot \in BotType(Len(updates)) /\ confirmed \in 1..(Len(updates) + 1)
  BY DEF FindSubscription, SaveSubscription, DeleteSubscriptions, sendMessage,
         TelegramInv, TelegramTypeOK, BotType
<1>1. PICK x : x = Row(p)
  OBVIOUS
<1>2. x \in Chats \X Addresses /\ poll[p].current \in 1..Len(updates)
  <2>1. poll[p].current \in 1..Len(updates)
    BY <1>0 DEF PollGood
  <2>2. updates[poll[p].current] \in Commands
    BY <1>0, <2>1
  <2> QED BY <1>1, <2>1, <2>2, CommandTypes DEF Row, Current
<1>3. /\ UNCHANGED <<updates, begun, bot, confirmed>>
  BY DEF FindSubscription, SaveSubscription, DeleteSubscriptions, sendMessage
<1>4. ASSUME NEW pc \in {"next", "save", "sendMessage"}, PollPc(p, pc),
             subscriptions' \in [Chats \X Addresses -> Nat], SubscribedOnce',
             pc = "save" => subscriptions'[x] = 0
      PROVE  TelegramTypeOK' /\ TelegramInv'
  <2>1. PICK r : r = [poll[p] EXCEPT !.pc = pc]
    OBVIOUS
  <2>2. /\ r \in PollState /\ r.pc = pc /\ r.batch = poll[p].batch /\ r.current = poll[p].current
    BY <1>0, <2>1 DEF PollState
  <2>3. SetPoll(p, r)
    BY <1>4, <2>1 DEF PollPc
  <2>4. <<updates[r.current].chat, updates[r.current].address>> = x
    BY <1>1, <2>2 DEF Row, Current
  <2>5. PollGood(r)'
    BY <1>0, <1>2, <1>3, <1>4, <2>2, <2>4 DEF PollGood
  <2>6. poll[p].pc # "idle" /\ bot' \in BotType(Len(updates)) /\ confirmed' \in 1..(Len(updates) + 1)
    BY <1>0, <1>3
  <2> QED BY <1>3, <1>4, <2>2, <2>3, <2>5, <2>6, QuietPollFrame
<1>5. SubscribedOnce
  BY DEF TelegramInv
<1>6. CASE FindSubscription(p)
  <2>1. PollPc(p, IF subscriptions[x] > 0 THEN "sendMessage" ELSE "save") /\ subscriptions' = subscriptions
    BY <1>1, <1>6 DEF FindSubscription
  <2>2. SubscribedOnce' /\ subscriptions' \in [Chats \X Addresses -> Nat]
    BY <1>0, <1>5, <2>1 DEF SubscribedOnce
  <2>3. CASE subscriptions[x] > 0
    BY <1>4, <2>1, <2>2, <2>3
  <2>4. CASE ~(subscriptions[x] > 0)
    <3>1. subscriptions'[x] = 0
      BY <1>0, <1>2, <2>1, <2>4
    <3> QED BY <1>4, <2>1, <2>2, <2>4, <3>1
  <2> QED BY <2>3, <2>4
<1>7. CASE SaveSubscription(p)
  <2>1. /\ poll[p].pc = "save" /\ subscriptions' = [subscriptions EXCEPT ![x] = @ + 1]
        /\ PollPc(p, "sendMessage")
    BY <1>1, <1>7 DEF SaveSubscription
  <2>2. subscriptions[x] = 0
    BY <1>0, <1>1, <2>1 DEF PollGood, Row, Current
  <2>3. subscriptions' \in [Chats \X Addresses -> Nat] /\ subscriptions'[x] = 1
        /\ \A y \in Chats \X Addresses : y # x => subscriptions'[y] = subscriptions[y]
    BY <1>0, <1>2, <2>1, <2>2
  <2>4. SubscribedOnce'
    BY <1>5, <2>3 DEF SubscribedOnce
  <2> QED BY <1>4, <2>1, <2>3, <2>4
<1>8. CASE DeleteSubscriptions(p)
  <2>1. /\ subscriptions' = [y \in Chats \X Addresses |-> IF Kept(p, y) THEN subscriptions[y] ELSE 0]
        /\ PollPc(p, "sendMessage")
    BY <1>8 DEF DeleteSubscriptions
  <2>2. subscriptions' \in [Chats \X Addresses -> Nat]
    BY <1>0, <2>1
  <2>3. SubscribedOnce'
    BY <1>0, <1>5, <2>1 DEF SubscribedOnce
  <2> QED BY <1>4, <2>1, <2>2, <2>3
<1>9. CASE sendMessage(p)
  <2>1. PollPc(p, "next") /\ subscriptions' = subscriptions
    BY <1>9 DEF sendMessage
  <2>2. SubscribedOnce' /\ subscriptions' \in [Chats \X Addresses -> Nat]
    BY <1>0, <1>5, <2>1 DEF SubscribedOnce
  <2> QED BY <1>4, <2>1, <2>2
<1> QED BY <1>6, <1>7, <1>8, <1>9

\* The end of a backoff, a user, a restart.
LEMMA TelegramEnvInv ==
  ASSUME TelegramTypeOK, TelegramInv, BackoffEnds \/ UserSends \/ BotRestart
  PROVE  TelegramTypeOK' /\ TelegramInv'
<1>0. /\ bot \in BotType(Len(updates)) /\ poll \in [Polls -> PollState]
      /\ updates \in Seq(Commands) /\ Len(updates) \in Nat
  BY LenProperties DEF TelegramTypeOK, BotType
<1>1. CASE BackoffEnds
  <2>1. /\ bot' \in BotType(Len(updates)) /\ bot'.updateOffset = bot.updateOffset
        /\ bot'.isPolling = bot.isPolling
        /\ UNCHANGED <<updates, confirmed, poll, subscriptions, begun>>
    BY <1>0, <1>1 DEF BackoffEnds, BotType
  <2>2. TelegramTypeOK'
    BY <2>1 DEF TelegramTypeOK, BotType
  <2>3. \A p \in Polls : PollGood(poll[p])'
    BY <2>1 DEF PollGood, TelegramInv
  <2> QED BY <2>1, <2>2, <2>3 DEF TelegramInv, SubscribedOnce, HandledInOrder
<1>2. CASE UserSends
  <2>1. PICK c \in Commands : updates' = Append(updates, c)
    BY <1>2 DEF UserSends
  <2>2. /\ updates' \in Seq(Commands) /\ Len(updates') = Len(updates) + 1
        /\ \A i \in 1..Len(updates) : updates'[i] = updates[i] /\ i \in 1..Len(updates')
    BY <1>0, <2>1
  <2>3. UNCHANGED <<confirmed, bot, poll, subscriptions, begun>>
    BY <1>2 DEF UserSends
  <2>4. TelegramTypeOK'
    BY <1>0, <2>2, <2>3 DEF TelegramTypeOK, BotType
  <2>5. \A p \in Polls : PollGood(poll[p])'
    <3> SUFFICES ASSUME NEW p \in Polls PROVE PollGood(poll[p])'
      OBVIOUS
    <3>1. PollGood(poll[p])
      BY DEF TelegramInv
    <3> QED BY <2>2, <2>3, <3>1 DEF PollGood
  <2> QED BY <2>3, <2>4, <2>5 DEF TelegramInv, SubscribedOnce, HandledInOrder
<1>3. CASE BotRestart
  <2>1. /\ bot' = NewBot /\ begun' = << >> /\ UNCHANGED <<updates, confirmed, subscriptions>>
        /\ poll' = [p \in Polls |-> IdlePoll]
    BY <1>3 DEF BotRestart
  <2>2. bot' \in BotType(Len(updates)) /\ poll' \in [Polls -> PollState]
        /\ \A p \in Polls : poll'[p] = IdlePoll
    BY <1>0, <2>1, IdlePollType DEF NewBot, BotType
  <2>3. TelegramTypeOK'
    BY <2>1, <2>2 DEF TelegramTypeOK, BotType
  <2>4. \A p \in Polls : PollGood(poll[p])'
    BY <2>2, IdlePollType DEF PollGood
  <2>5. begun' \in Seq(Nat) /\ 1..Len(begun') = {}
    BY <2>1, EmptySeq
  <2> QED BY <2>1, <2>2, <2>3, <2>4, <2>5, IdlePollType DEF TelegramInv, SubscribedOnce, HandledInOrder
<1> QED BY <1>1, <1>2, <1>3

\* The polling and the commands keep their types and TelegramInv, through lost answers,
\* conflicts, dropped batches and restarts.
THEOREM TelegramInvariance == TelegramSpec => [](TelegramTypeOK /\ TelegramInv)
<1>1. TelegramInit => TelegramTypeOK /\ TelegramInv
  <2> SUFFICES ASSUME TelegramInit PROVE TelegramTypeOK /\ TelegramInv
    OBVIOUS
  <2>1. /\ updates \in Seq(Commands) /\ Len(updates) = 0 /\ begun \in Seq(Nat) /\ 1..Len(begun) = {}
    BY EmptySeq DEF TelegramInit
  <2>2. poll \in [Polls -> PollState] /\ \A p \in Polls : poll[p] = IdlePoll
    BY IdlePollType DEF TelegramInit
  <2>3. TelegramTypeOK
    BY <2>1, <2>2 DEF TelegramInit, TelegramTypeOK, NewBot
  <2>4. \A p \in Polls : PollGood(poll[p])
    BY <2>2, IdlePollType DEF PollGood
  <2>5. SubscribedOnce /\ HandledInOrder
    BY <2>1 DEF TelegramInit, SubscribedOnce, HandledInOrder
  <2> QED BY <2>1, <2>2, <2>3, <2>4, <2>5, IdlePollType DEF TelegramInv
<1>2. TelegramTypeOK /\ TelegramInv /\ [TelegramNext]_telegramVars
        => TelegramTypeOK' /\ TelegramInv'
  <2> SUFFICES ASSUME TelegramTypeOK, TelegramInv, [TelegramNext]_telegramVars
               PROVE  TelegramTypeOK' /\ TelegramInv'
    OBVIOUS
  <2>1. CASE UNCHANGED telegramVars
    BY <2>1 DEF telegramVars, TelegramTypeOK, TelegramInv, PollGood, SubscribedOnce, HandledInOrder
  <2>2. ASSUME NEW p \in Polls,
               \/ pollUpdates(p) \/ getUpdates(p) \/ Conflict(p) \/ PollThrows(p) \/ PollStep(p)
        PROVE  TelegramTypeOK' /\ TelegramInv'
    BY <2>2, PollStartInv, GetUpdatesInv, PollThrowsInv, NextUpdateInv, HandlingInv DEF PollStep
  <2> QED BY <2>1, <2>2, TelegramEnvInv DEF TelegramNext
<1> QED
  BY <1>1, <1>2, PTL DEF TelegramSpec

\* saveSubscription never adds a second row for a chat and an address.
THEOREM SubscribedOnceThm == TelegramSpec => []SubscribedOnce
<1>1. TelegramInv => SubscribedOnce
  BY DEF TelegramInv
<1> QED
  BY <1>1, TelegramInvariance, PTL

\* pollUpdates handles the updates in order, none twice between two starts.
THEOREM HandledInOrderThm == TelegramSpec => []HandledInOrder
<1>1. TelegramInv => HandledInOrder
  BY DEF TelegramInv
<1> QED
  BY <1>1, TelegramInvariance, PTL

-----------------------------------------------------------------------------
(* AddressLogin: the types                                                 *)

CallType == [pc : {"idle", "scan", "insert", "update"}, address : Accounts,
             nonce : 0..MaxNonces, requiredAmountSats : LoginAmounts \cup {0},
             changes : AllPatches]
IssueType == [address : Accounts, requiredAmountSats : LoginAmounts]
ChallengeType == IChallenge \cup {NoChallenge}
SettingsType == {NoSettings} \cup [SettingsFields -> 0..1]

\* The settings and the changes a request may ask for.
LEMMA SettingsFacts ==
  /\ NoSettings \in AllPatches
  /\ Defaults \in [SettingsFields -> 0..1]
  /\ \A s \in [SettingsFields -> 0..1] : s # NoSettings
  /\ \A c \in AllPatches : \A f \in SettingsFields : f \in DOMAIN c => c[f] \in 0..1
<1>1. NoSettings \in [{} -> 0..1] /\ {} \in SUBSET SettingsFields
  BY DEF NoSettings
<1>2. NoSettings \in AllPatches
  BY <1>1 DEF AllPatches
<1>3. Defaults \in [SettingsFields -> 0..1]
  BY DEF Defaults
<1>4. ASSUME NEW s \in [SettingsFields -> 0..1] PROVE s # NoSettings
  <2>1. DOMAIN s = SettingsFields /\ DOMAIN NoSettings = {} /\ "notifyOnPayout" \in SettingsFields
    BY DEF NoSettings, SettingsFields
  <2> QED BY <2>1
<1>5. ASSUME NEW c \in AllPatches, NEW f \in SettingsFields, f \in DOMAIN c PROVE c[f] \in 0..1
  <2>1. PICK F \in SUBSET SettingsFields : c \in [F -> 0..1]
    BY DEF AllPatches
  <2> QED BY <1>5, <2>1
<1> QED BY <1>2, <1>3, <1>4, <1>5

\* A request slot that is not in use.
LEMMA IdleCallType ==
  IdleCall \in CallType /\ IdleCall.pc = "idle" /\ IdleCall.nonce = 0
<1>1. (CHOOSE a \in Accounts : TRUE) \in Accounts
  BY LoginAssumption
<1> QED BY <1>1, SettingsFacts, LoginAssumption DEF IdleCall, CallType

\* What peek returns and leaves in the store.
LEMMA PeekFacts ==
  ASSUME LoginTypeOK, NEW a \in Accounts
  PROVE  /\ peek(a) \in ChallengeType /\ peek(a) \in {NoChallenge, challenges[a]}
         /\ peek(a).nonce \in 0..MaxNonces /\ peek(a).requiredAmountSats \in LoginAmounts \cup {0}
         /\ Peeked(a) \in [Accounts -> ChallengeType]
         /\ \A b \in Accounts : Peeked(a)[b] \in {NoChallenge, challenges[b]}
         /\ consume(Peeked(a), a) \in [Accounts -> ChallengeType]
         /\ consume(Peeked(a), a)[a].nonce = 0
         /\ \A b \in Accounts : consume(Peeked(a), a)[b] \in {NoChallenge, challenges[b]}
         /\ consume(challenges, a) \in [Accounts -> ChallengeType]
         /\ consume(challenges, a)[a].nonce = 0
         /\ \A b \in Accounts : consume(challenges, a)[b] \in {NoChallenge, challenges[b]}
<1>1. challenges \in [Accounts -> ChallengeType] /\ challenges[a] \in ChallengeType
      /\ NoChallenge \in ChallengeType /\ NoChallenge.nonce = 0
  BY DEF LoginTypeOK, ChallengeType, NoChallenge
<1>2. \A c \in ChallengeType : c.nonce \in 0..MaxNonces /\ c.requiredAmountSats \in LoginAmounts \cup {0}
  BY LoginAssumption DEF ChallengeType, IChallenge, NoChallenge
<1>3. PICK k : k = peek(a)
  OBVIOUS
<1>4. k \in ChallengeType /\ k \in {NoChallenge, challenges[a]}
  BY <1>1, <1>3 DEF peek
<1>5. PICK s : s = Peeked(a)
  OBVIOUS
<1>6. s = [challenges EXCEPT ![a] = k]
  BY <1>3, <1>5 DEF Peeked
<1>7. s \in [Accounts -> ChallengeType] /\ \A b \in Accounts : s[b] \in {NoChallenge, challenges[b]}
  BY <1>1, <1>4, <1>6
<1>8. ASSUME NEW u \in [Accounts -> ChallengeType],
             \A b \in Accounts : u[b] \in {NoChallenge, challenges[b]}
      PROVE  /\ consume(u, a) \in [Accounts -> ChallengeType] /\ consume(u, a)[a].nonce = 0
             /\ \A b \in Accounts : consume(u, a)[b] \in {NoChallenge, challenges[b]}
  BY <1>1, <1>8 DEF consume
<1>9. /\ consume(challenges, a) \in [Accounts -> ChallengeType]
      /\ consume(challenges, a)[a].nonce = 0
      /\ \A b \in Accounts : consume(challenges, a)[b] \in {NoChallenge, challenges[b]}
  BY <1>1, <1>8
<1> QED BY <1>2, <1>3, <1>4, <1>5, <1>7, <1>8, <1>9

-----------------------------------------------------------------------------
(* AddressLogin: frames                                                    *)

\* The histories only grow.
HistoryKept ==
  /\ nonces' \in Nat /\ nonces <= nonces' /\ \A n \in 1..nonces : issued'[n] = issued[n]
  /\ signed \subseteq signed' /\ received \subseteq received' /\ tokens \subseteq tokens'

\* So what they say of a challenge or an address stays.
LEMMA HistoryFacts ==
  ASSUME LoginTypeOK, HistoryKept
  PROVE  /\ nonces \in Nat /\ 1..nonces \subseteq 1..nonces'
         /\ \A n \in 1..nonces : \A a, m : IssuedAs(n, a, m) => IssuedAs(n, a, m)'
         /\ \A n \in 1..nonces : \A a : Answered(a, n) => Answered(a, n)'
         /\ \A a : LoggedIn(a) => LoggedIn(a)'
<1>1. nonces \in Nat
  BY LenProperties DEF LoginTypeOK, nonces
<1>2. 1..nonces \subseteq 1..nonces'
  BY <1>1 DEF HistoryKept
<1>3. ASSUME NEW n \in 1..nonces, NEW a, NEW m, IssuedAs(n, a, m) PROVE IssuedAs(n, a, m)'
  BY <1>1, <1>3 DEF HistoryKept, IssuedAs
<1>4. ASSUME NEW n \in 1..nonces, NEW a, Answered(a, n) PROVE Answered(a, n)'
  BY <1>4 DEF HistoryKept, Answered
<1>5. ASSUME NEW a, LoggedIn(a) PROVE LoggedIn(a)'
  BY <1>2, <1>5 DEF HistoryKept, LoggedIn
<1> QED BY <1>1, <1>2, <1>3, <1>4, <1>5

\* A step of the store and the tokens: challenges may disappear, a scan may start or end,
\* and a token may be issued for a challenge that was answered and is gone.
LEMMA StoreFrame ==
  ASSUME LoginTypeOK, LoginInv, challenges' \in [Accounts -> ChallengeType],
         \A a \in Accounts : challenges'[a] \in {NoChallenge, challenges[a]},
         tokens \subseteq tokens', tokens' \subseteq Accounts \X (1..nonces),
         \A t \in tokens' : \/ t \in tokens
                            \/ Answered(t[1], t[2]) /\ challenges'[t[1]].nonce = 0,
         call' \in [LoginCalls -> CallType],
         \A q \in LoginCalls :
           /\ call'[q].pc = "scan" <=> call'[q].nonce # 0
           /\ \/ call'[q] = call[q]
              \/ call'[q].pc = "idle"
              \/ /\ call'[q].pc = "scan"
                 /\ IssuedAs(call'[q].nonce, call'[q].address, call'[q].requiredAmountSats),
         UNCHANGED <<issued, signed, unspent, received, settings>>
  PROVE  LoginTypeOK' /\ LoginInv'
<1>0. nonces \in Nat /\ nonces' = nonces
  BY LenProperties DEF LoginTypeOK, nonces
<1>1. LoginTypeOK'
  BY <1>0 DEF LoginTypeOK, CallType, ChallengeType
<1>2. HistoryKept
  BY <1>0 DEF HistoryKept
<1>3. \A n, a, m : IssuedAs(n, a, m) => IssuedAs(n, a, m)'
  BY <1>0 DEF IssuedAs
<1>4. \A a \in Accounts : challenges'[a].nonce # 0 =>
        IssuedAs(challenges[a].nonce, a, challenges[a].requiredAmountSats)'
  BY <1>3 DEF LoginInv, NoChallenge
<1>5. \A q \in LoginCalls : call'[q].nonce # 0 =>
        IssuedAs(call[q].nonce, call[q].address, call[q].requiredAmountSats)'
  BY <1>3 DEF LoginInv
<1>6. ASSUME NEW t \in tokens' PROVE Answered(t[1], t[2])' /\ challenges'[t[1]].nonce # t[2]
  <2>1. t[1] \in Accounts /\ t[2] \in 1..nonces /\ t[2] # 0
    BY <1>0
  <2>2. Answered(t[1], t[2]) /\ (challenges'[t[1]].nonce = 0 \/ challenges[t[1]].nonce # t[2])
    BY DEF LoginInv
  <2>3. challenges'[t[1]].nonce \in {0, challenges[t[1]].nonce}
    BY <2>1 DEF NoChallenge
  <2> QED BY <1>2, <2>1, <2>2, <2>3, HistoryFacts
<1>7. \A a \in Accounts : settings'[a] # NoSettings => LoggedIn(a)'
  BY <1>2, HistoryFacts DEF LoginInv
<1>8. \A q \in LoginCalls :
        /\ call'[q].pc \in {"insert", "update"} => LoggedIn(call[q].address)'
        /\ call'[q].pc = "update" => settings'[call'[q].address] # NoSettings
  BY <1>2, HistoryFacts DEF LoginInv
<1> QED BY <1>1, <1>4, <1>5, <1>6, <1>7, <1>8 DEF LoginInv, LoggedIn, Answered, IssuedAs

\* A step outside the pool or a new challenge: the histories grow, and a challenge in the
\* store is the old one, at most older, or the one just issued.
LEMMA MinerFrame ==
  ASSUME LoginTypeOK, LoginInv, LoginTypeOK', HistoryKept,
         \A a \in Accounts :
           \/ /\ challenges'[a].nonce = challenges[a].nonce
              /\ challenges'[a].requiredAmountSats = challenges[a].requiredAmountSats
           \/ /\ challenges'[a].nonce > nonces
              /\ IssuedAs(challenges[a].nonce, a, challenges[a].requiredAmountSats)',
         UNCHANGED <<tokens, settings, call>>
  PROVE  LoginInv'
<1>0. /\ nonces \in Nat /\ tokens \subseteq Accounts \X (1..nonces)
      /\ \A a \in Accounts : challenges[a].nonce \in Nat
      /\ \A q \in LoginCalls : call[q].nonce \in Nat
  BY LenProperties, LoginAssumption DEF LoginTypeOK, nonces, IChallenge, NoChallenge
<1>1. ASSUME NEW a \in Accounts, challenges'[a].nonce # 0
      PROVE  IssuedAs(challenges[a].nonce, a, challenges[a].requiredAmountSats)'
  <2>1. CASE IssuedAs(challenges[a].nonce, a, challenges[a].requiredAmountSats)'
    BY <2>1
  <2>2. CASE /\ challenges'[a].nonce = challenges[a].nonce
             /\ challenges'[a].requiredAmountSats = challenges[a].requiredAmountSats
    <3>1. IssuedAs(challenges[a].nonce, a, challenges[a].requiredAmountSats)
      BY <1>1, <2>2 DEF LoginInv
    <3>2. challenges[a].nonce \in 1..nonces
      BY <1>0, <1>1, <2>2, <3>1 DEF IssuedAs
    <3>3. IssuedAs(challenges[a].nonce, a, challenges[a].requiredAmountSats)
            => nonces' \in Nat /\ challenges[a].nonce <= nonces'
               /\ issued'[challenges[a].nonce] = [address |-> a,
                                    requiredAmountSats |-> challenges[a].requiredAmountSats]
      BY <1>0, <3>2 DEF IssuedAs, HistoryKept
    <3> QED BY <2>2, <3>1, <3>3 DEF IssuedAs
  <2> QED BY <2>1, <2>2
<1>2. ASSUME NEW q \in LoginCalls, call'[q].nonce # 0
      PROVE  IssuedAs(call[q].nonce, call[q].address, call[q].requiredAmountSats)'
  <2>1. IssuedAs(call[q].nonce, call[q].address, call[q].requiredAmountSats)
    BY <1>2 DEF LoginInv
  <2>2. call[q].nonce \in 1..nonces
    BY <1>0, <1>2, <2>1 DEF IssuedAs
  <2> QED BY <1>0, <2>1, <2>2 DEF IssuedAs, HistoryKept
<1>3. ASSUME NEW t \in tokens' PROVE Answered(t[1], t[2])' /\ challenges'[t[1]].nonce # t[2]
  <2>1. /\ Answered(t[1], t[2]) /\ challenges[t[1]].nonce # t[2]
        /\ t[1] \in Accounts /\ t[2] \in 1..nonces
    BY <1>0 DEF LoginInv
  <2>2. ~(t[2] > nonces)
    BY <1>0, <2>1
  <2> QED BY <2>1, <2>2, HistoryFacts
<1>4. \A a \in Accounts : settings'[a] # NoSettings => LoggedIn(a)'
  BY HistoryFacts DEF LoginInv
<1>5. \A q \in LoginCalls :
        /\ call'[q].pc \in {"insert", "update"} => LoggedIn(call[q].address)'
        /\ call'[q].pc = "update" => settings'[call'[q].address] # NoSettings
  BY HistoryFacts DEF LoginInv
<1> QED BY <1>1, <1>2, <1>3, <1>4, <1>5 DEF LoginInv, IssuedAs, Answered, LoggedIn

\* A step of a request to the settings: rows of addresses that logged in are written, and
\* none is taken away.
LEMMA SettingsFrame ==
  ASSUME LoginTypeOK, LoginInv, NEW q \in LoginCalls, NEW r \in CallType,
         call' = [call EXCEPT ![q] = r], r.nonce = 0, r.pc \in {"idle", "insert", "update"},
         r.pc # "idle" => LoggedIn(r.address),
         r.pc = "update" => settings'[r.address] # NoSettings,
         settings' \in [Accounts -> SettingsType],
         \A a \in Accounts : settings'[a] = settings[a]
                              \/ (LoggedIn(a) /\ settings'[a] # NoSettings),
         UNCHANGED <<challenges, issued, signed, unspent, received, tokens>>
  PROVE  LoginTypeOK' /\ LoginInv'
<1>1. call \in [LoginCalls -> CallType]
  BY DEF LoginTypeOK, CallType
<1>2. call' \in [LoginCalls -> CallType] /\ call'[q] = r
      /\ \A p \in LoginCalls : p # q => call'[p] = call[p]
  BY <1>1
<1>3. \A p \in LoginCalls : call'[p].pc = "scan" <=> call'[p].nonce # 0
  BY <1>2 DEF LoginTypeOK
<1>4. LoginTypeOK'
  BY <1>2, <1>3 DEF LoginTypeOK, CallType, SettingsType, nonces
<1>5. \A a \in Accounts : settings'[a] # NoSettings => LoggedIn(a)'
  BY DEF LoginInv, LoggedIn, nonces
<1>6. ASSUME NEW p \in LoginCalls
      PROVE  /\ call'[p].pc \in {"insert", "update"} => LoggedIn(call[p].address)'
             /\ call'[p].pc = "update" => settings'[call'[p].address] # NoSettings
  <2>1. CASE p = q
    BY <1>2, <2>1 DEF LoggedIn, nonces
  <2>2. CASE p # q
    <3>1. call'[p] = call[p] /\ call[p].address \in Accounts
      BY <1>1, <1>2, <2>2 DEF CallType
    <3>2. /\ call[p].pc \in {"insert", "update"} => LoggedIn(call[p].address)
          /\ call[p].pc = "update" => settings[call[p].address] # NoSettings
      BY DEF LoginInv
    <3>3. LoggedIn(call[p].address) => LoggedIn(call[p].address)'
      BY <3>1 DEF LoggedIn, nonces
    <3>4. settings[call[p].address] # NoSettings => settings'[call[p].address] # NoSettings
      BY <3>1
    <3> QED BY <3>1, <3>2, <3>3, <3>4
  <2> QED BY <2>1, <2>2
<1>7. /\ \A a, n, m : IssuedAs(n, a, m) = IssuedAs(n, a, m)'
      /\ \A a, n : Answered(a, n) = Answered(a, n)'
  BY DEF IssuedAs, Answered, nonces
<1>8. \A a \in Accounts : challenges'[a].nonce # 0 =>
        IssuedAs(challenges[a].nonce, a, challenges[a].requiredAmountSats)'
  BY DEF LoginInv, IssuedAs, nonces
<1>9. \A p \in LoginCalls : call'[p].nonce # 0 =>
        IssuedAs(call[p].nonce, call[p].address, call[p].requiredAmountSats)'
  BY <1>2 DEF LoginInv, IssuedAs, nonces
<1> QED BY <1>4, <1>5, <1>6, <1>7, <1>8, <1>9 DEF LoginInv

-----------------------------------------------------------------------------
(* AddressLogin: the steps                                                 *)

\* A challenge is created.
LEMMA CreateInv ==
  ASSUME LoginTypeOK, LoginInv, NEW a \in Accounts, NEW amount \in LoginAmounts,
         createChallenge(a, amount)
  PROVE  LoginTypeOK' /\ LoginInv'
<1>0. /\ challenges \in [Accounts -> ChallengeType] /\ issued \in Seq(IssueType)
      /\ nonces \in Nat /\ nonces < MaxNonces /\ MaxNonces \in Nat
  BY LenProperties, LoginAssumption
  DEF LoginTypeOK, ChallengeType, IssueType, nonces, createChallenge
<1>1. PICK c : c = [nonce |-> nonces + 1, requiredAmountSats |-> amount, expired |-> FALSE]
  OBVIOUS
<1>2. PICK i : i = [address |-> a, requiredAmountSats |-> amount]
  OBVIOUS
<1>3. /\ issued' = Append(issued, i) /\ challenges' = [challenges EXCEPT ![a] = c]
      /\ UNCHANGED <<signed, unspent, received, tokens, settings, call>>
  BY <1>1, <1>2 DEF createChallenge
<1>4. i \in IssueType /\ c \in ChallengeType /\ c.nonce = nonces + 1 /\ c.requiredAmountSats = amount
  <2>1. nonces + 1 \in 1..MaxNonces
    BY <1>0
  <2> QED BY <1>1, <1>2, <2>1 DEF IssueType, ChallengeType, IChallenge
<1>5. /\ issued' \in Seq(IssueType) /\ nonces' = nonces + 1
      /\ \A n \in 1..nonces : issued'[n] = issued[n]
      /\ issued'[nonces + 1] = i
  BY <1>0, <1>3, <1>4, AppendProperties DEF nonces
<1>6. HistoryKept
  <2>1. nonces' \in Nat /\ nonces <= nonces'
    BY <1>0, <1>5
  <2> QED BY <1>3, <1>5, <2>1 DEF HistoryKept
<1>7. /\ challenges' \in [Accounts -> ChallengeType] /\ challenges'[a] = c
      /\ \A b \in Accounts : b # a => challenges'[b] = challenges[b]
  BY <1>0, <1>3, <1>4
<1>8. LoginTypeOK'
  <2>1. 1..nonces \subseteq 1..nonces'
    BY <1>6, HistoryFacts
  <2>2. nonces' <= MaxNonces
    BY <1>0, <1>5
  <2> QED BY <1>3, <1>5, <1>7, <2>1, <2>2 DEF LoginTypeOK, IssueType, ChallengeType
<1>9. IssuedAs(c.nonce, a, c.requiredAmountSats)' /\ c.nonce > nonces
  BY <1>0, <1>2, <1>4, <1>5 DEF IssuedAs
<1>10. \A b \in Accounts :
         \/ /\ challenges'[b].nonce = challenges[b].nonce
            /\ challenges'[b].requiredAmountSats = challenges[b].requiredAmountSats
         \/ /\ challenges'[b].nonce > nonces
            /\ IssuedAs(challenges[b].nonce, b, challenges[b].requiredAmountSats)'
  BY <1>7, <1>9 DEF IssuedAs
<1> QED BY <1>3, <1>6, <1>8, <1>10, MinerFrame

\* A challenge expires or is signed, or an output appears or is spent.
LEMMA OutsideInv ==
  ASSUME LoginTypeOK, LoginInv,
         \/ \E a \in Accounts : \/ ChallengeExpires(a) \/ OwnerSigns(a)
                                \/ \E amount \in LoginAmounts : OutputConfirms(a, amount)
         \/ OutputSpent
  PROVE  LoginTypeOK' /\ LoginInv'
<1>0. /\ challenges \in [Accounts -> ChallengeType] /\ nonces \in Nat
      /\ signed \subseteq Accounts \X (1..nonces)
      /\ unspent \subseteq received /\ received \subseteq Accounts \X LoginAmounts
  BY LenProperties DEF LoginTypeOK, ChallengeType, nonces
<1>1. UNCHANGED <<issued, tokens, settings, call>> /\ nonces' = nonces
  BY DEF ChallengeExpires, OwnerSigns, OutputConfirms, OutputSpent, nonces
<1>2. /\ challenges' \in [Accounts -> ChallengeType]
      /\ \A b \in Accounts : /\ challenges'[b].nonce = challenges[b].nonce
                              /\ challenges'[b].requiredAmountSats = challenges[b].requiredAmountSats
  <2>1. ASSUME NEW a \in Accounts, ChallengeExpires(a)
        PROVE  /\ challenges' \in [Accounts -> ChallengeType]
               /\ \A b \in Accounts :
                    /\ challenges'[b].nonce = challenges[b].nonce
                    /\ challenges'[b].requiredAmountSats = challenges[b].requiredAmountSats
    <3>1. PICK c : c = [challenges[a] EXCEPT !.expired = TRUE]
      OBVIOUS
    <3>2. challenges[a].nonce # 0 /\ challenges' = [challenges EXCEPT ![a] = c]
      BY <2>1, <3>1 DEF ChallengeExpires
    <3>3. challenges[a] \in IChallenge
      BY <1>0, <3>2 DEF ChallengeType, NoChallenge
    <3>4. /\ c \in ChallengeType /\ c.nonce = challenges[a].nonce
          /\ c.requiredAmountSats = challenges[a].requiredAmountSats
      BY <3>1, <3>3 DEF IChallenge, ChallengeType
    <3> QED BY <1>0, <3>2, <3>4
  <2>2. challenges' = challenges \/ \E a \in Accounts : ChallengeExpires(a)
    BY DEF OwnerSigns, OutputConfirms, OutputSpent
  <2> QED BY <1>0, <2>1, <2>2
<1>3. signed \subseteq signed' /\ signed' \subseteq Accounts \X (1..nonces)
  <2>1. ASSUME NEW a \in Accounts, OwnerSigns(a)
        PROVE  signed \subseteq signed' /\ signed' \subseteq Accounts \X (1..nonces)
    <3>1. PICK n : n = challenges[a].nonce
      OBVIOUS
    <3>2. n # 0 /\ signed' = signed \cup {<<a, n>>}
      BY <2>1, <3>1 DEF OwnerSigns
    <3>3. challenges[a] \in IChallenge
      BY <1>0, <3>1, <3>2 DEF ChallengeType, NoChallenge
    <3>4. n \in 1..MaxNonces /\ n <= nonces /\ MaxNonces \in Nat
      BY <3>1, <3>2, <3>3, LoginAssumption DEF IChallenge, LoginInv, IssuedAs
    <3>5. n \in 1..nonces
      BY <1>0, <3>4
    <3> QED BY <1>0, <3>2, <3>5
  <2>2. signed' = signed \/ \E a \in Accounts : OwnerSigns(a)
    BY DEF ChallengeExpires, OutputConfirms, OutputSpent
  <2> QED BY <1>0, <2>1, <2>2
<1>4. /\ received \subseteq received' /\ received' \subseteq Accounts \X LoginAmounts
      /\ unspent' \subseteq received'
  BY <1>0 DEF ChallengeExpires, OwnerSigns, OutputConfirms, OutputSpent
<1>5. LoginTypeOK'
  BY <1>1, <1>2, <1>3, <1>4 DEF LoginTypeOK, ChallengeType
<1>6. HistoryKept
  BY <1>0, <1>1, <1>3, <1>4 DEF HistoryKept
<1> QED BY <1>1, <1>2, <1>5, <1>6, MinerFrame

\* What the store has pending for the address of a token is consumed when it is issued.
LEMMA LoginStepInv ==
  ASSUME LoginTypeOK, LoginInv, NEW a \in Accounts, NEW n \in 1..MaxNonces, login(a, n)
  PROVE  LoginTypeOK' /\ LoginInv'
<1>1. /\ call' \in [LoginCalls -> CallType]
      /\ \A q \in LoginCalls : /\ call'[q].pc = "scan" <=> call'[q].nonce # 0
                               /\ call'[q] = call[q]
      /\ UNCHANGED <<issued, signed, unspent, received, settings>>
      /\ <<a, n>> \in signed /\ n \in 1..nonces
      /\ tokens \subseteq Accounts \X (1..nonces)
  BY DEF login, LoginTypeOK, CallType
<1>2. CASE /\ peek(a).nonce = n
           /\ challenges' = consume(Peeked(a), a) /\ tokens' = tokens \cup {<<a, n>>}
  <2>1. /\ challenges' \in [Accounts -> ChallengeType]
        /\ \A b \in Accounts : challenges'[b] \in {NoChallenge, challenges[b]}
        /\ challenges'[a].nonce = 0
    BY <1>2, PeekFacts
  <2>2. challenges[a].nonce = n /\ n # 0
    BY <1>2, PeekFacts DEF NoChallenge
  <2>3. Answered(a, n)
    <3>1. IssuedAs(n, a, challenges[a].requiredAmountSats)
      BY <2>2 DEF LoginInv
    <3> QED BY <1>1, <3>1 DEF IssuedAs, Answered
  <2>4. /\ tokens \subseteq tokens' /\ tokens' \subseteq Accounts \X (1..nonces)
        /\ \A t \in tokens' : \/ t \in tokens
                              \/ Answered(t[1], t[2]) /\ challenges'[t[1]].nonce = 0
    BY <1>1, <1>2, <2>1, <2>3
  <2> QED BY <1>1, <2>1, <2>4, StoreFrame
<1>3. CASE challenges' = Peeked(a) /\ tokens' = tokens
  <2>1. /\ challenges' \in [Accounts -> ChallengeType]
        /\ \A b \in Accounts : challenges'[b] \in {NoChallenge, challenges[b]}
    BY <1>3, PeekFacts
  <2> QED BY <1>1, <1>3, <2>1, StoreFrame
<1> QED BY <1>2, <1>3 DEF login, issueToken

\* The login by payment looks up the challenge of the address and starts its scan.
LEMMA OnChainInv ==
  ASSUME LoginTypeOK, LoginInv, NEW q \in LoginCalls, NEW a \in Accounts, loginOnChain(q, a)
  PROVE  LoginTypeOK' /\ LoginInv'
<1>0. /\ call \in [LoginCalls -> CallType] /\ tokens \subseteq Accounts \X (1..nonces)
      /\ \A p \in LoginCalls : call[p].pc = "scan" <=> call[p].nonce # 0
  BY DEF LoginTypeOK, CallType
<1>1. PICK n : n = peek(a).nonce
  OBVIOUS
<1>2. PICK m : m = peek(a).requiredAmountSats
  OBVIOUS
<1>3. PICK r : r = [IdleCall EXCEPT !.pc = "scan", !.address = a, !.nonce = n,
                                    !.requiredAmountSats = m]
  OBVIOUS
<1>4. r \in CallType /\ r.pc = "scan" /\ r.nonce = n /\ r.address = a /\ r.requiredAmountSats = m
  <2>1. n \in 0..MaxNonces /\ m \in LoginAmounts \cup {0}
    BY <1>1, <1>2, PeekFacts
  <2> QED BY <1>3, <2>1, IdleCallType DEF CallType
<1>5. /\ challenges' = Peeked(a)
      /\ call' = IF n = 0 THEN call ELSE [call EXCEPT ![q] = r]
      /\ UNCHANGED <<issued, signed, unspent, received, tokens, settings>>
  BY <1>1, <1>2, <1>3 DEF loginOnChain
<1>6. n # 0 => IssuedAs(n, a, m)
  BY <1>1, <1>2, PeekFacts DEF NoChallenge, LoginInv
<1>7. /\ call' \in [LoginCalls -> CallType]
      /\ \A p \in LoginCalls :
           /\ call'[p].pc = "scan" <=> call'[p].nonce # 0
           /\ \/ call'[p] = call[p]
              \/ /\ call'[p].pc = "scan"
                 /\ IssuedAs(call'[p].nonce, call'[p].address, call'[p].requiredAmountSats)
  <2>1. CASE n = 0
    BY <1>0, <1>5, <2>1
  <2>2. CASE n # 0
    BY <1>0, <1>4, <1>5, <1>6, <2>2
  <2> QED BY <2>1, <2>2
<1>8. /\ challenges' \in [Accounts -> ChallengeType]
      /\ \A b \in Accounts : challenges'[b] \in {NoChallenge, challenges[b]}
  BY <1>5, PeekFacts
<1> QED BY <1>0, <1>5, <1>7, <1>8, StoreFrame

\* The scan of a request ends, also after a new challenge was issued meanwhile.
LEMMA ScanInv ==
  ASSUME LoginTypeOK, LoginInv, NEW q \in LoginCalls, ScanEnds(q) \/ ScanFails(q)
  PROVE  LoginTypeOK' /\ LoginInv'
<1>0. /\ call \in [LoginCalls -> CallType] /\ call[q].address \in Accounts
      /\ call[q].nonce \in 0..MaxNonces /\ call[q].nonce # 0 /\ nonces \in Nat
      /\ \A p \in LoginCalls : call[p].pc = "scan" <=> call[p].nonce # 0
  BY LenProperties DEF LoginTypeOK, CallType, ScanEnds, ScanFails, nonces
<1>1. /\ call' = [call EXCEPT ![q] = IdleCall]
      /\ UNCHANGED <<issued, signed, unspent, received, settings>>
  BY DEF ScanEnds, ScanFails
<1>2. /\ call' \in [LoginCalls -> CallType]
      /\ \A p \in LoginCalls : /\ call'[p].pc = "scan" <=> call'[p].nonce # 0
                               /\ call'[p] = call[p] \/ call'[p].pc = "idle"
  BY <1>0, <1>1, IdleCallType
<1>3. /\ challenges \in [Accounts -> ChallengeType] /\ unspent \subseteq received
      /\ tokens \subseteq Accounts \X (1..nonces)
  BY DEF LoginTypeOK, ChallengeType
<1>4. PICK a : a = call[q].address
  OBVIOUS
<1>5. PICK n : n = call[q].nonce
  OBVIOUS
<1>6. IssuedAs(n, a, call[q].requiredAmountSats) /\ n \in 1..nonces
  BY <1>0, <1>4, <1>5 DEF LoginInv, IssuedAs
<1>7. CASE /\ <<a, call[q].requiredAmountSats>> \in unspent
           /\ challenges' = consume(challenges, a) /\ tokens' = tokens \cup {<<a, n>>}
  <2>1. /\ challenges' \in [Accounts -> ChallengeType]
        /\ \A b \in Accounts : challenges'[b] \in {NoChallenge, challenges[b]}
        /\ challenges'[a].nonce = 0
    BY <1>0, <1>4, <1>7, PeekFacts
  <2>2. Answered(a, n)
    BY <1>3, <1>6, <1>7 DEF IssuedAs, Answered
  <2>3. /\ tokens \subseteq tokens' /\ tokens' \subseteq Accounts \X (1..nonces)
        /\ \A t \in tokens' : \/ t \in tokens
                              \/ Answered(t[1], t[2]) /\ challenges'[t[1]].nonce = 0
    BY <1>0, <1>3, <1>4, <1>6, <1>7, <2>1, <2>2
  <2> QED BY <1>1, <1>2, <2>1, <2>3, StoreFrame
<1>8. CASE UNCHANGED <<challenges, tokens>>
  BY <1>1, <1>2, <1>3, <1>8, StoreFrame
<1> QED BY <1>4, <1>5, <1>7, <1>8 DEF ScanEnds, ScanFails, issueToken, scanAddressForAmountSats

\* The two statements of a settings request.
LEMMA SettingsInv ==
  ASSUME LoginTypeOK, LoginInv, NEW q \in LoginCalls,
         \/ \E a \in Accounts : \E t \in tokens, c \in Patches : updateSettings(q, t, a, c)
         \/ upsertInsert(q) \/ upsertUpdate(q) \/ UpsertFails(q)
  PROVE  LoginTypeOK' /\ LoginInv'
<1>0. /\ call \in [LoginCalls -> CallType] /\ call[q] \in CallType /\ call[q].address \in Accounts
      /\ settings \in [Accounts -> SettingsType]
      /\ (call[q].pc # "scan" => call[q].nonce = 0)
  BY DEF LoginTypeOK, CallType, SettingsType
<1>1. UNCHANGED <<challenges, issued, signed, unspent, received, tokens>>
  BY DEF updateSettings, upsertInsert, upsertUpdate, UpsertFails
<1>2. ASSUME NEW a \in Accounts, NEW t \in tokens, NEW c \in Patches, updateSettings(q, t, a, c)
      PROVE  LoginTypeOK' /\ LoginInv'
  <2>1. PICK r : r = [IdleCall EXCEPT !.pc = "insert", !.address = a, !.changes = c]
    OBVIOUS
  <2>2. r \in CallType /\ r.pc = "insert" /\ r.nonce = 0 /\ r.address = a
    BY <2>1, IdleCallType, LoginAssumption DEF CallType
  <2>3. LoggedIn(a)
    <3>1. t \in Accounts \X (1..nonces) /\ t[1] = a
      BY <1>2 DEF LoginTypeOK, updateSettings, canActivate
    <3>2. t = <<a, t[2]>> /\ t[2] \in 1..nonces
      BY <3>1
    <3> QED BY <3>1, <3>2 DEF LoggedIn
  <2>4. call' = [call EXCEPT ![q] = r] /\ settings' = settings
    BY <1>2, <2>1 DEF updateSettings
  <2> QED BY <1>0, <1>1, <2>2, <2>3, <2>4, SettingsFrame
<1>3. CASE upsertInsert(q)
  <2>0. PICK a : a = call[q].address
    OBVIOUS
  <2>1. LoggedIn(a) /\ call[q].pc = "insert" /\ a \in Accounts
    BY <1>0, <1>3, <2>0 DEF upsertInsert, LoginInv
  <2>2. settings' = IF settings[a] = NoSettings THEN [settings EXCEPT ![a] = Defaults] ELSE settings
    BY <1>3, <2>0 DEF upsertInsert, InsertRow
  <2>3. Defaults \in SettingsType /\ Defaults # NoSettings
    BY SettingsFacts DEF SettingsType
  <2>4. /\ settings' \in [Accounts -> SettingsType] /\ settings'[a] # NoSettings
        /\ \A b \in Accounts : settings'[b] = settings[b]
                               \/ (LoggedIn(b) /\ settings'[b] # NoSettings)
    BY <1>0, <2>1, <2>2, <2>3
  <2>5. CASE call' = [call EXCEPT ![q] = IdleCall]
    BY <1>1, <2>4, <2>5, IdleCallType, SettingsFrame
  <2>6. CASE call' = [call EXCEPT ![q] = [@ EXCEPT !.pc = "update"]]
    <3>1. PICK r : r = [call[q] EXCEPT !.pc = "update"]
      OBVIOUS
    <3>2. r \in CallType /\ r.pc = "update" /\ r.nonce = 0 /\ r.address = a
      BY <1>0, <2>0, <2>1, <3>1 DEF CallType
    <3>3. call' = [call EXCEPT ![q] = r]
      BY <2>6, <3>1
    <3> QED BY <1>1, <2>1, <2>4, <3>2, <3>3, SettingsFrame
  <2> QED BY <1>3, <2>5, <2>6 DEF upsertInsert
<1>4. CASE upsertUpdate(q)
  <2>0. PICK a : a = call[q].address
    OBVIOUS
  <2>1. PICK c : c = call[q].changes
    OBVIOUS
  <2>2. PICK v : v = [f \in SettingsFields |-> IF f \in DOMAIN c THEN c[f] ELSE settings[a][f]]
    OBVIOUS
  <2>3. settings' = [settings EXCEPT ![a] = v] /\ call' = [call EXCEPT ![q] = IdleCall]
    BY <1>4, <2>0, <2>1, <2>2 DEF upsertUpdate
  <2>4. LoggedIn(a) /\ settings[a] # NoSettings /\ a \in Accounts /\ c \in AllPatches
    BY <1>0, <1>4, <2>0, <2>1 DEF upsertUpdate, LoginInv, CallType
  <2>5. settings[a] \in [SettingsFields -> 0..1]
    BY <1>0, <2>4 DEF SettingsType
  <2>6. v \in [SettingsFields -> 0..1]
    BY <2>2, <2>4, <2>5, SettingsFacts
  <2>7. v \in SettingsType /\ v # NoSettings
    BY <2>6, SettingsFacts DEF SettingsType
  <2>8. /\ settings' \in [Accounts -> SettingsType]
        /\ \A b \in Accounts : settings'[b] = settings[b]
                               \/ (LoggedIn(b) /\ settings'[b] # NoSettings)
    BY <1>0, <2>3, <2>4, <2>7
  <2> QED BY <1>1, <2>3, <2>8, IdleCallType, SettingsFrame
<1>5. CASE UpsertFails(q)
  <2>1. call' = [call EXCEPT ![q] = IdleCall] /\ settings' = settings
    BY <1>5 DEF UpsertFails
  <2> QED BY <1>0, <1>1, <2>1, IdleCallType, SettingsFrame
<1> QED BY <1>2, <1>3, <1>4, <1>5

-----------------------------------------------------------------------------
(* AddressLogin: the theorems                                              *)

\* The challenges, tokens and settings keep their types and LoginInv, however the
\* requests overlap and whatever fails.
THEOREM LoginInvariance == LoginSpec => [](LoginTypeOK /\ LoginInv)
<1>1. LoginInit => LoginTypeOK /\ LoginInv
  <2> SUFFICES ASSUME LoginInit PROVE LoginTypeOK /\ LoginInv
    OBVIOUS
  <2>1. call \in [LoginCalls -> CallType] /\ \A q \in LoginCalls : call[q] = IdleCall
    BY IdleCallType DEF LoginInit
  <2>2. LoginTypeOK
    <3>1. issued \in Seq(IssueType) /\ nonces = 0
      BY EmptySeq DEF LoginInit, nonces
    <3>2. nonces <= MaxNonces
      BY <3>1, LoginAssumption
    <3>3. \A q \in LoginCalls : call[q].pc = "scan" <=> call[q].nonce # 0
      BY <2>1, IdleCallType
    <3> QED BY <2>1, <3>1, <3>2, <3>3 DEF LoginInit, LoginTypeOK, CallType, IssueType
  <2>3. \A a \in Accounts : challenges[a].nonce = 0
    BY DEF LoginInit, NoChallenge
  <2> QED BY <2>1, <2>2, <2>3, IdleCallType DEF LoginInit, LoginInv
<1>2. LoginTypeOK /\ LoginInv /\ [LoginNext]_loginVars => LoginTypeOK' /\ LoginInv'
  <2> SUFFICES ASSUME LoginTypeOK, LoginInv, [LoginNext]_loginVars
               PROVE  LoginTypeOK' /\ LoginInv'
    OBVIOUS
  <2>1. CASE UNCHANGED loginVars
    BY <2>1 DEF loginVars, LoginTypeOK, LoginInv, LoggedIn, IssuedAs, Answered, nonces
  <2>2. ASSUME NEW a \in Accounts, NEW amount \in LoginAmounts, createChallenge(a, amount)
        PROVE  LoginTypeOK' /\ LoginInv'
    BY <2>2, CreateInv
  <2>3. ASSUME NEW a \in Accounts, NEW n \in 1..MaxNonces, login(a, n)
        PROVE  LoginTypeOK' /\ LoginInv'
    BY <2>3, LoginStepInv
  <2>4. ASSUME NEW q \in LoginCalls, NEW a \in Accounts, loginOnChain(q, a)
        PROVE  LoginTypeOK' /\ LoginInv'
    BY <2>4, OnChainInv
  <2>5. ASSUME NEW q \in LoginCalls, ScanEnds(q) \/ ScanFails(q)
        PROVE  LoginTypeOK' /\ LoginInv'
    BY <2>5, ScanInv
  <2>6. ASSUME NEW q \in LoginCalls,
               \/ \E a \in Accounts : \E t \in tokens, c \in Patches : updateSettings(q, t, a, c)
               \/ upsertInsert(q) \/ upsertUpdate(q) \/ UpsertFails(q)
        PROVE  LoginTypeOK' /\ LoginInv'
    BY <2>6, SettingsInv
  <2> QED BY <2>1, <2>2, <2>3, <2>4, <2>5, <2>6, OutsideInv DEF LoginNext
<1> QED
  BY <1>1, <1>2, PTL DEF LoginSpec

\* AuthService issues a token only for a challenge of that address that was signed with
\* the address's key or whose exact amount the address has held in an output, whoever
\* sent it, and that is gone from the store; and only an address a token was issued for
\* gets settings of its own.
THEOREM TokensEarnedThm == LoginSpec => []TokensEarned
<1>1. LoginTypeOK /\ LoginInv => TokensEarned
  BY DEF LoginInv, TokensEarned
<1> QED
  BY <1>1, LoginInvariance, PTL

\* updateSettings changes no field of an existing row but those its request names,
\* however the INSERT and the UPDATE of two requests interleave.
THEOREM FieldsIndependentThm == LoginSpec => FieldsIndependent
<1> DEFINE Named == \A a \in Accounts, f \in SettingsFields :
                      settings[a] # NoSettings /\ settings'[a][f] # settings[a][f] =>
                        \E q \in LoginCalls :
                          call[q].address = a /\ f \in DOMAIN call[q].changes
<1>1. LoginTypeOK /\ LoginInv /\ [LoginNext]_loginVars => [Named]_loginVars
  <2> SUFFICES ASSUME LoginTypeOK, LoginInv, LoginNext,
                      NEW a \in Accounts, NEW f \in SettingsFields,
                      settings[a] # NoSettings, settings'[a][f] # settings[a][f]
               PROVE  \E q \in LoginCalls : call[q].address = a /\ f \in DOMAIN call[q].changes
    OBVIOUS
  <2>0. settings \in [Accounts -> SettingsType] /\ \A q \in LoginCalls : call[q].address \in Accounts
    BY DEF LoginTypeOK, SettingsType
  <2>1. settings' = settings \/ \E q \in LoginCalls : upsertInsert(q) \/ upsertUpdate(q)
    BY DEF LoginNext, createChallenge, ChallengeExpires, OwnerSigns, OutputConfirms, login,
           OutputSpent, loginOnChain, updateSettings, ScanEnds, ScanFails, UpsertFails
  <2>2. PICK q \in LoginCalls : upsertInsert(q) \/ upsertUpdate(q)
    BY <2>1
  <2>3. CASE upsertInsert(q)
    <3>1. settings'[a] = settings[a]
      BY <2>0, <2>3 DEF upsertInsert, InsertRow
    <3> QED BY <3>1
  <2>4. CASE upsertUpdate(q)
    <3>0. PICK b : b = call[q].address
      OBVIOUS
    <3>1. PICK v : v = [g \in SettingsFields |->
                         IF g \in DOMAIN call[q].changes THEN call[q].changes[g] ELSE settings[b][g]]
      OBVIOUS
    <3>2. settings' = [settings EXCEPT ![b] = v]
      BY <2>4, <3>0, <3>1 DEF upsertUpdate
    <3>3. b = a
      BY <2>0, <3>2
    <3>4. settings'[a] = v
      BY <2>0, <3>2, <3>3
    <3>5. f \in DOMAIN call[q].changes
      BY <3>1, <3>3, <3>4
    <3> QED BY <3>0, <3>3, <3>5
  <2> QED BY <2>2, <2>3, <2>4
<1> QED
  BY <1>1, LoginInvariance, PTL DEF LoginSpec, FieldsIndependent

-----------------------------------------------------------------------------
(* ShareStatistics: the rows                                               *)

RowShares(R) == [i \in DOMAIN R |-> R[i].shares]
InOrder(R) == \A i, j \in 1..Len(R) : i < j => R[i].time < R[j].time
Closed(R, t) == {i \in 1..Len(R) : R[i].time # t}

\* Q is R with the row of a new slot t, which closes all others.
Inserted(Q, R, t, s) ==
  /\ Q \in Seq(StatRow) /\ Len(Q) = Len(R) + 1 /\ InOrder(Q)
  /\ Q[Len(Q)] = [time |-> t, shares |-> s]
  /\ \A i \in 1..Len(R) : Q[i] = R[i]
  /\ Closed(Q, t) = 1..Len(R)
  /\ SumOver(RowShares(Q), 1..Len(R)) = SumOver(RowShares(R), 1..Len(R))

\* Q is R with s written to the rows of slot t, the other rows left alone.
Written(Q, R, t, s) ==
  /\ Q \in Seq(StatRow) /\ Len(Q) = Len(R)
  /\ \A i \in 1..Len(R) : /\ Q[i].time = R[i].time
                          /\ R[i].time = t => Q[i].shares = s
  /\ Closed(Q, t) = Closed(R, t)
  /\ SumOver(RowShares(Q), Closed(R, t)) = SumOver(RowShares(R), Closed(R, t))

\* Every sum over rows is that of natural numbers over a finite set.
LEMMA RowsSummable ==
  ASSUME NEW R \in Seq(StatRow), NEW S \in SUBSET (1..Len(R))
  PROVE  /\ IsFiniteSet(S)
         /\ \A i \in S : RowShares(R)[i] \in Nat /\ RowShares(R)[i] = R[i].shares
         /\ SumOver(RowShares(R), S) \in Nat
<1>1. Len(R) \in Nat /\ DOMAIN R = 1..Len(R) /\ \A i \in 1..Len(R) : R[i] \in StatRow
  BY LenProperties, ElementOfSeq
<1>2. IsFiniteSet(S)
  <2>1. IsFiniteSet(1..Len(R))
    BY <1>1, FS_Interval
  <2> QED BY <2>1, FS_Subset
<1>3. \A i \in S : RowShares(R)[i] \in Nat /\ RowShares(R)[i] = R[i].shares
  BY <1>1 DEF RowShares, StatRow
<1> QED BY <1>2, <1>3, SumNat

\* The INSERT of the row of a new slot closes all others.
LEMMA RowsInserted ==
  ASSUME NEW R \in Seq(StatRow), InOrder(R), NEW t \in Nat, NEW s \in Nat,
         \A i \in 1..Len(R) : R[i].time < t,
         NEW Q, Q = Append(R, [time |-> t, shares |-> s])
  PROVE  Inserted(Q, R, t, s)
<1>1. Len(R) \in Nat /\ \A i \in 1..Len(R) : R[i] \in StatRow
  BY LenProperties, ElementOfSeq
<1>2. Q \in Seq(StatRow) /\ Len(Q) = Len(R) + 1 /\ Q[Len(Q)] = [time |-> t, shares |-> s]
      /\ \A i \in 1..Len(R) : Q[i] = R[i]
  <2>1. [time |-> t, shares |-> s] \in StatRow
    BY DEF StatRow
  <2> QED BY <2>1, AppendProperties
<1>3. InOrder(Q)
  <2> SUFFICES ASSUME NEW i \in 1..Len(Q), NEW j \in 1..Len(Q), i < j
               PROVE  Q[i].time < Q[j].time
    BY DEF InOrder
  <2>1. i \in 1..Len(R)
    BY <1>1, <1>2
  <2>2. j \in 1..Len(R) \/ j = Len(Q)
    <3>1. PICK n : n = Len(R) /\ n \in Nat
      BY <1>1
    <3>2. Len(Q) = n + 1
      BY <1>2, <3>1
    <3>3. j \in 1..n \/ j = n + 1
      BY <3>1, <3>2
    <3> QED BY <3>1, <3>2, <3>3
  <2> QED BY <1>2, <2>1, <2>2 DEF InOrder
<1>4. Closed(Q, t) = 1..Len(R)
  <2>1. \A i \in 1..Len(R) : Q[i].time # t /\ i \in 1..Len(Q)
    BY <1>1, <1>2 DEF StatRow
  <2>2. \A i \in 1..Len(Q) : i \in 1..Len(R) \/ i = Len(Q)
    BY <1>1, <1>2
  <2>3. Q[Len(Q)].time = t
    BY <1>2
  <2> QED BY <2>1, <2>2, <2>3 DEF Closed
<1>5. SumOver(RowShares(Q), 1..Len(R)) = SumOver(RowShares(R), 1..Len(R))
  <2>1. \A i \in 1..Len(R) : RowShares(R)[i] \in Int /\ RowShares(R)[i] = RowShares(Q)[i]
    <3>1. \A i \in 1..Len(R) : RowShares(R)[i] \in Nat /\ RowShares(R)[i] = R[i].shares
      BY RowsSummable
    <3>2. 1..Len(R) \in SUBSET (1..Len(Q))
      BY <1>1, <1>2
    <3>3. \A i \in 1..Len(R) : RowShares(Q)[i] = Q[i].shares
      BY <1>2, <3>2, RowsSummable
    <3> QED BY <1>2, <3>1, <3>3
  <2>2. IsFiniteSet(1..Len(R))
    BY RowsSummable
  <2> QED BY <2>1, <2>2, SumAgree
<1> QED BY <1>2, <1>3, <1>4, <1>5 DEF Inserted

\* The UPDATE of the rows of slot t leaves the other rows alone.
LEMMA RowsWritten ==
  ASSUME NEW R \in Seq(StatRow), NEW t \in Int, NEW s \in Nat,
         NEW Q, Q = [i \in 1..Len(R) |-> IF R[i].time = t THEN [R[i] EXCEPT !.shares = s] ELSE R[i]]
  PROVE  Written(Q, R, t, s)
<1>1. Len(R) \in Nat /\ \A i \in 1..Len(R) : R[i] \in StatRow
  BY LenProperties, ElementOfSeq
<1>2. \A i \in 1..Len(R) : Q[i] \in StatRow /\ Q[i].time = R[i].time
                           /\ (R[i].time = t => Q[i].shares = s) /\ (R[i].time # t => Q[i] = R[i])
  BY <1>1 DEF StatRow
<1>3. Q \in Seq(StatRow) /\ Len(Q) = Len(R)
  BY <1>1, <1>2, IsASeq
<1>4. Closed(Q, t) = Closed(R, t)
  BY <1>2, <1>3 DEF Closed
<1>5. SumOver(RowShares(Q), Closed(R, t)) = SumOver(RowShares(R), Closed(R, t))
  <2>1. Closed(R, t) \in SUBSET (1..Len(R)) /\ \A i \in Closed(R, t) : R[i].time # t
    BY DEF Closed
  <2>2. /\ IsFiniteSet(Closed(R, t))
        /\ \A i \in Closed(R, t) : RowShares(R)[i] \in Nat /\ RowShares(R)[i] = R[i].shares
    BY <2>1, RowsSummable
  <2>3. \A i \in Closed(R, t) : RowShares(Q)[i] = Q[i].shares
    BY <1>3, <2>1, RowsSummable
  <2>4. \A i \in Closed(R, t) : RowShares(R)[i] \in Int /\ RowShares(R)[i] = RowShares(Q)[i]
    <3> SUFFICES ASSUME NEW i \in Closed(R, t)
                 PROVE  RowShares(R)[i] \in Int /\ RowShares(R)[i] = RowShares(Q)[i]
      OBVIOUS
    <3>1. Q[i] = R[i]
      BY <1>2, <2>1
    <3>2. RowShares(R)[i] = R[i].shares /\ RowShares(Q)[i] = Q[i].shares
      BY <2>2, <2>3, Zenon
    <3>3. RowShares(R)[i] = RowShares(Q)[i]
      BY <3>1, <3>2, Zenon
    <3>4. RowShares(R)[i] \in Nat
      BY <2>2
    <3> QED BY <3>3, <3>4
  <2> QED BY <2>2, <2>4, SumAgree
<1> QED BY <1>2, <1>3, <1>4, <1>5 DEF Written

\* All rows together: the closed slots and at most one row of the current one.
LEMMA RowsTotal ==
  ASSUME NEW R \in Seq(StatRow), InOrder(R), NEW t \in Int, NEW s \in Nat,
         \A i \in 1..Len(R) : R[i].time = t => R[i].shares <= s
  PROVE  /\ SumOver(RowShares(R), 1..Len(R)) <= SumOver(RowShares(R), Closed(R, t)) + s
         /\ Len(R) > 0 /\ R[Len(R)].time = t /\ R[Len(R)].shares = s =>
              SumOver(RowShares(R), 1..Len(R)) = SumOver(RowShares(R), Closed(R, t)) + s
<1>1. Len(R) \in Nat /\ \A i \in 1..Len(R) : R[i] \in StatRow
  BY LenProperties, ElementOfSeq
<1>2. Closed(R, t) \in SUBSET (1..Len(R))
  BY DEF Closed
<1>3. SumOver(RowShares(R), Closed(R, t)) \in Nat /\ IsFiniteSet(Closed(R, t))
  BY <1>2, RowsSummable
<1>4. CASE \E i \in 1..Len(R) : R[i].time = t
  <2>1. PICK i \in 1..Len(R) : R[i].time = t
    BY <1>4
  <2>2. \A j \in 1..Len(R) : j # i => R[j].time # t
    <3> SUFFICES ASSUME NEW j \in 1..Len(R), j # i PROVE R[j].time # R[i].time
      BY <2>1
    <3>1. i < j \/ j < i
      BY <1>1
    <3>2. R[i].time \in Nat /\ R[j].time \in Nat
      BY <1>1 DEF StatRow
    <3> QED BY <3>1, <3>2 DEF InOrder
  <2>3. 1..Len(R) = Closed(R, t) \cup {i} /\ i \notin Closed(R, t)
    BY <2>1, <2>2 DEF Closed
  <2>4. \A x \in 1..Len(R) : RowShares(R)[x] \in Nat /\ RowShares(R)[x] = R[x].shares
    BY RowsSummable
  <2>5. SumOver(RowShares(R), 1..Len(R)) = R[i].shares + SumOver(RowShares(R), Closed(R, t))
    <3>1. \A x \in Closed(R, t) \cup {i} : RowShares(R)[x] \in Int
      BY <2>3, <2>4
    <3>2. SumOver(RowShares(R), Closed(R, t) \cup {i})
            = RowShares(R)[i] + SumOver(RowShares(R), Closed(R, t))
      BY <1>3, <2>3, <3>1, SumAdd
    <3> QED BY <2>3, <2>4, <3>2
  <2>6. R[i].shares \in Nat /\ R[i].shares <= s
    BY <1>1, <2>1 DEF StatRow
  <2>7. Len(R) > 0 /\ R[Len(R)].time = t => i = Len(R)
    BY <1>1, <2>2
  <2> QED BY <1>3, <2>5, <2>6, <2>7
<1>5. CASE \A i \in 1..Len(R) : R[i].time # t
  <2>1. Closed(R, t) = 1..Len(R)
    BY <1>5 DEF Closed
  <2>2. ~(Len(R) > 0 /\ R[Len(R)].time = t)
    BY <1>1, <1>5
  <2> QED BY <1>3, <2>1, <2>2
<1> QED BY <1>4, <1>5

-----------------------------------------------------------------------------
(* ShareStatistics: the invariant of values, for one adder                 *)

Pending(p) == IF p.pc = "closeSlot" THEN p.difficulty ELSE 0
ClosedSum(R, m) == SumOver(RowShares(R), Closed(R, m.currentTimeSlot))

\* SlotsInv of rows R, memory m and the slot T of now.
SlotsGood(R, m, T, l) ==
  /\ m.currentTimeSlot = NoSlot => m.shares = 0 /\ R = << >>
  /\ m.currentTimeSlot <= T /\ m.currentTimeSlot >= NoSlot
  /\ InOrder(R)
  /\ \A i \in 1..Len(R) : /\ R[i].time <= m.currentTimeSlot
                          /\ R[i].time = m.currentTimeSlot => R[i].shares <= m.shares
  /\ ~l /\ m.currentTimeSlot # NoSlot => Len(R) > 0 /\ R[Len(R)].time = m.currentTimeSlot

\* The adder p that waits for the old slot to be closed.
CloseGood(R, m, p, T, l) ==
  p.pc = "closeSlot" =>
    /\ m.currentTimeSlot < p.timeSlot /\ p.timeSlot <= T /\ m.currentTimeSlot # NoSlot
    /\ ~l => R[Len(R)].shares = m.shares

\* The sums, with the work c of the closed slots.
SumsGood(c, m, p, w, l) ==
  /\ c + m.shares + Pending(p) <= w
  /\ ~l => c + m.shares + Pending(p) = w

ValuesTyped(R, m, p, T, w, l) ==
  /\ R \in Seq(StatRow) /\ m \in Statistics /\ p \in AdderState
  /\ T \in Nat /\ w \in Nat /\ l \in BOOLEAN

Values(R, m, p, T, w, l) ==
  /\ ValuesTyped(R, m, p, T, w, l)
  /\ SlotsGood(R, m, T, l) /\ CloseGood(R, m, p, T, l)
  /\ SumsGood(ClosedSum(R, m), m, p, w, l)

\* The fields of the values.
LEMMA ValueTypes ==
  ASSUME NEW R, NEW m, NEW p, NEW T, NEW w, NEW l, ValuesTyped(R, m, p, T, w, l)
  PROVE  /\ m.currentTimeSlot \in Int /\ m.shares \in Nat
         /\ p.pc \in {"idle", "closeSlot", "save"} /\ p.difficulty \in Nat /\ p.timeSlot \in Nat
         /\ Len(R) \in Nat /\ \A i \in 1..Len(R) : R[i].time \in Nat /\ R[i].shares \in Nat
         /\ ClosedSum(R, m) \in Nat /\ Pending(p) \in Nat
<1>1. /\ m.currentTimeSlot \in Int /\ m.shares \in Nat
      /\ p.pc \in {"idle", "closeSlot", "save"} /\ p.difficulty \in Nat /\ p.timeSlot \in Nat
  BY DEF ValuesTyped, Statistics, AdderState
<1>2. Len(R) \in Nat /\ \A i \in 1..Len(R) : R[i].time \in Nat /\ R[i].shares \in Nat
  <2>1. R \in Seq(StatRow)
    BY DEF ValuesTyped
  <2>2. Len(R) \in Nat /\ \A i \in 1..Len(R) : R[i] \in StatRow
    BY <2>1, LenProperties, ElementOfSeq
  <2> QED BY <2>2 DEF StatRow
<1>3. ClosedSum(R, m) \in Nat
  <2>1. Closed(R, m.currentTimeSlot) \in SUBSET (1..Len(R))
    BY DEF Closed
  <2> QED BY <2>1, RowsSummable DEF ClosedSum, ValuesTyped
<1>4. Pending(p) \in Nat
  BY <1>1 DEF Pending
<1> QED BY <1>1, <1>2, <1>3, <1>4

\* addShares gives up, and its share with it, at any statement: memory m2 has the share
\* or not, the row of the current slot falls behind, and lost is set.
LEMMA GivesUp ==
  ASSUME NEW R, NEW m, NEW p, NEW T, NEW w, NEW l, Values(R, m, p, T, w, l),
         NEW m2 \in Statistics, NEW d \in Nat, NEW q \in AdderState, q.pc = "idle",
         m2.currentTimeSlot = m.currentTimeSlot \/ R = << >>,
         m2.currentTimeSlot <= T, m2.currentTimeSlot >= m.currentTimeSlot,
         m2.shares = m.shares \/ m2.currentTimeSlot # NoSlot,
         m2.shares >= m.shares, m2.shares <= m.shares + d
  PROVE  Values(R, m2, q, T, w + d, TRUE)
<1>0. ValuesTyped(R, m, p, T, w, l) /\ ValuesTyped(R, m2, q, T, w + d, TRUE)
  BY DEF Values, ValuesTyped
<1>1. /\ m.currentTimeSlot \in Int /\ m.shares \in Nat /\ m2.currentTimeSlot \in Int
      /\ m2.shares \in Nat /\ Len(R) \in Nat /\ ClosedSum(R, m) \in Nat /\ Pending(p) \in Nat
      /\ \A i \in 1..Len(R) : R[i].time \in Nat /\ R[i].shares \in Nat
      /\ T \in Nat /\ w \in Nat
  BY <1>0, ValueTypes DEF ValuesTyped
<1>2. R = << >> => Len(R) = 0
  OBVIOUS
<1>3. Pending(q) = 0
  BY DEF Pending
<1>4. SlotsGood(R, m2, T, TRUE)
  <2>1. /\ m.currentTimeSlot = NoSlot => m.shares = 0 /\ R = << >>
        /\ m.currentTimeSlot >= NoSlot /\ InOrder(R)
        /\ \A i \in 1..Len(R) : /\ R[i].time <= m.currentTimeSlot
                                /\ R[i].time = m.currentTimeSlot => R[i].shares <= m.shares
    BY Zenon DEF Values, SlotsGood
  <2>2. m2.currentTimeSlot >= NoSlot
    BY <1>1, <2>1 DEF NoSlot
  <2>3. m2.currentTimeSlot = NoSlot => m2.shares = 0 /\ R = << >>
    <3> SUFFICES ASSUME m2.currentTimeSlot = NoSlot PROVE m2.shares = 0 /\ R = << >>
      OBVIOUS
    <3>1. m.currentTimeSlot = NoSlot
      BY <1>1, <2>1 DEF NoSlot
    <3> QED BY <2>1, <3>1
  <2>4. ASSUME NEW i \in 1..Len(R)
        PROVE  /\ R[i].time <= m2.currentTimeSlot
               /\ R[i].time = m2.currentTimeSlot => R[i].shares <= m2.shares
    <3>1. m2.currentTimeSlot = m.currentTimeSlot
      BY <1>2
    <3>2. R[i].shares \in Nat /\ (R[i].time = m.currentTimeSlot => R[i].shares <= m.shares)
      BY <1>1, <2>1
    <3>3. R[i].time = m2.currentTimeSlot => R[i].shares <= m2.shares
      BY <1>1, <3>1, <3>2, SMTT(40)
    <3>4. R[i].time <= m2.currentTimeSlot
      BY <2>1, <3>1, Zenon
    <3> QED BY <3>3, <3>4
  <2> QED BY <2>1, <2>2, <2>3, <2>4, Zenon DEF SlotsGood
<1>5. ClosedSum(R, m2) = ClosedSum(R, m)
  <2>1. CASE m2.currentTimeSlot = m.currentTimeSlot
    BY <2>1 DEF ClosedSum
  <2>2. CASE R = << >>
    <3>1. Closed(R, m2.currentTimeSlot) = {} /\ Closed(R, m.currentTimeSlot) = {}
      BY <1>2, <2>2 DEF Closed
    <3> QED BY <3>1 DEF ClosedSum
  <2> QED BY <2>1, <2>2
<1>6. SumsGood(ClosedSum(R, m2), m2, q, w + d, TRUE)
  BY <1>1, <1>3, <1>5, SMTT(40) DEF Values, SumsGood
<1>7. CloseGood(R, m2, q, T, TRUE)
  BY DEF CloseGood
<1> QED BY <1>0, <1>4, <1>6, <1>7 DEF Values

\* A slot is opened: its row is inserted, with the work w2 so far.
LEMMA OpensSlot ==
  ASSUME NEW R, NEW m, NEW p, NEW T, NEW w, NEW l, Values(R, m, p, T, w, l),
         NEW t \in Nat, t <= T, m.currentTimeSlot < t,
         NEW m2 \in Statistics, m2.currentTimeSlot = t,
         NEW q \in AdderState, q.pc = "save", NEW w2 \in Nat,
         SumOver(RowShares(R), 1..Len(R)) + m2.shares <= w2,
         ~l => SumOver(RowShares(R), 1..Len(R)) + m2.shares = w2,
         NEW Q, Inserted(Q, R, t, m2.shares)
  PROVE  Values(Q, m2, q, T, w2, l)
<1>0. ValuesTyped(R, m, p, T, w, l)
  BY DEF Values
<1>1. /\ m.currentTimeSlot \in Int /\ m2.shares \in Nat /\ Len(R) \in Nat
      /\ \A i \in 1..Len(R) : R[i].time \in Nat /\ R[i].shares \in Nat
      /\ T \in Nat /\ R \in Seq(StatRow) /\ l \in BOOLEAN
  BY <1>0, ValueTypes DEF ValuesTyped, Statistics
<1>2. InOrder(R) /\ \A i \in 1..Len(R) : R[i].time < t
  BY <1>1 DEF Values, SlotsGood
<1>3. /\ Q \in Seq(StatRow) /\ Len(Q) = Len(R) + 1 /\ InOrder(Q)
      /\ Q[Len(Q)] = [time |-> t, shares |-> m2.shares]
      /\ \A i \in 1..Len(R) : Q[i] = R[i]
      /\ Closed(Q, t) = 1..Len(R)
      /\ SumOver(RowShares(Q), 1..Len(R)) = SumOver(RowShares(R), 1..Len(R))
  BY DEF Inserted
<1>4. ValuesTyped(Q, m2, q, T, w2, l)
  BY <1>1, <1>3 DEF ValuesTyped
<1>5. ASSUME NEW i \in 1..Len(Q)
      PROVE  Q[i].time <= t /\ (Q[i].time = t => Q[i].shares <= m2.shares)
  <2>1. i \in 1..Len(R) \/ i = Len(Q)
    <3>1. PICK n : n = Len(R) /\ n \in Nat
      BY <1>1
    <3>2. Len(Q) = n + 1
      BY <1>3, <3>1
    <3>3. i \in 1..n \/ i = n + 1
      BY <3>1, <3>2
    <3> QED BY <3>1, <3>2, <3>3
  <2>2. CASE i \in 1..Len(R)
    <3>1. R[i].time \in Nat /\ R[i].time < t /\ Q[i] = R[i]
      BY <1>1, <1>2, <1>3, <2>2
    <3>2. Q[i].time \in Nat /\ Q[i].time < t
      BY <3>1, Zenon
    <3> QED BY <3>2
  <2>3. CASE i = Len(Q)
    <3>1. Q[i].time = t /\ Q[i].shares = m2.shares
      BY <1>3, <2>3
    <3> QED BY <1>1, <3>1
  <2> QED BY <2>1, <2>2, <2>3
<1>6. SlotsGood(Q, m2, T, l)
  <2>1. Len(Q) > 0 /\ Q[Len(Q)].time = t
    BY <1>1, <1>3
  <2>2. t # NoSlot /\ t >= NoSlot
    BY DEF NoSlot
  <2> QED BY <1>3, <1>5, <2>1, <2>2 DEF SlotsGood
<1>7. CloseGood(Q, m2, q, T, l)
  BY DEF CloseGood
<1>8. SumsGood(ClosedSum(Q, m2), m2, q, w2, l)
  <2>1. ClosedSum(Q, m2) = SumOver(RowShares(R), 1..Len(R))
    BY <1>3, Zenon DEF ClosedSum
  <2>2. Pending(q) = 0
    BY DEF Pending
  <2>3. SumOver(RowShares(R), 1..Len(R)) \in Nat
    BY <1>1, RowsSummable
  <2> HIDE DEF ClosedSum
  <2>4. PICK c \in Nat : c = ClosedSum(Q, m2) /\ c + m2.shares <= w2 /\ (~l => c + m2.shares = w2)
    BY <2>1, <2>3
  <2> QED BY <1>1, <2>2, <2>4 DEF SumsGood
<1> QED BY <1>4, <1>6, <1>7, <1>8 DEF Values

\* The row of the current slot is written, with what memory m2 has of it; q waits for it.
LEMMA WritesSlot ==
  ASSUME NEW R, NEW m, NEW p, NEW T, NEW w, NEW l, Values(R, m, p, T, w, l),
         NEW m2 \in Statistics, NEW d \in Nat, NEW q \in AdderState,
         m2.currentTimeSlot = m.currentTimeSlot, m.currentTimeSlot # NoSlot,
         p.pc = "idle", m2.shares + Pending(q) = m.shares + d,
         q.pc = "closeSlot" => m.currentTimeSlot < q.timeSlot /\ q.timeSlot <= T,
         NEW Q, Written(Q, R, m2.currentTimeSlot, m2.shares)
  PROVE  Values(Q, m2, q, T, w + d, l)
<1>0. ValuesTyped(R, m, p, T, w, l)
  BY DEF Values
<1>1. /\ m.currentTimeSlot \in Int /\ m.shares \in Nat /\ m2.shares \in Nat /\ Len(R) \in Nat
      /\ \A i \in 1..Len(R) : R[i].time \in Nat /\ R[i].shares \in Nat
      /\ T \in Nat /\ w \in Nat /\ R \in Seq(StatRow) /\ l \in BOOLEAN /\ ClosedSum(R, m) \in Nat
  BY <1>0, ValueTypes DEF ValuesTyped, Statistics
<1>2. /\ Q \in Seq(StatRow) /\ Len(Q) = Len(R)
      /\ \A i \in 1..Len(R) : /\ Q[i].time = R[i].time
                              /\ R[i].time = m.currentTimeSlot => Q[i].shares = m2.shares
      /\ Closed(Q, m.currentTimeSlot) = Closed(R, m.currentTimeSlot)
      /\ SumOver(RowShares(Q), Closed(R, m.currentTimeSlot))
           = SumOver(RowShares(R), Closed(R, m.currentTimeSlot))
  BY Zenon DEF Written
<1>3. ValuesTyped(Q, m2, q, T, w + d, l)
  BY <1>1, <1>2 DEF ValuesTyped
<1>4. SlotsGood(R, m, T, l) /\ SumsGood(ClosedSum(R, m), m, p, w, l)
  BY DEF Values
<1>5. ~l => Len(R) > 0 /\ Len(R) \in 1..Len(R) /\ R[Len(R)].time = m.currentTimeSlot
  BY <1>1, <1>4 DEF SlotsGood
<1>6. SlotsGood(Q, m2, T, l)
  <2>1. InOrder(Q)
    <3> SUFFICES ASSUME NEW i \in 1..Len(R), NEW j \in 1..Len(R), i < j
                 PROVE  Q[i].time < Q[j].time
      BY <1>2 DEF InOrder
    <3>1. R[i].time < R[j].time
      BY <1>4 DEF SlotsGood, InOrder
    <3>2. Q[i].time = R[i].time /\ Q[j].time = R[j].time
      BY <1>2
    <3> QED BY <3>1, <3>2
  <2>2. ASSUME NEW i \in 1..Len(R)
        PROVE  /\ Q[i].time <= m2.currentTimeSlot
               /\ Q[i].time = m2.currentTimeSlot => Q[i].shares <= m2.shares
    <3>1. Q[i].time = R[i].time /\ (R[i].time = m.currentTimeSlot => Q[i].shares = m2.shares)
      BY <1>2
    <3>2. R[i].time <= m.currentTimeSlot
      BY <1>4 DEF SlotsGood
    <3>3. CASE R[i].time = m.currentTimeSlot
      <4>1. Q[i].shares = m2.shares
        BY <3>1, <3>3
      <4> QED BY <1>1, <3>1, <3>2, <4>1
    <3>4. CASE R[i].time # m.currentTimeSlot
      BY <3>1, <3>2, <3>4
    <3> QED BY <3>3, <3>4
  <2>3. ~l => Len(Q) > 0 /\ Q[Len(Q)].time = m2.currentTimeSlot
    <3> SUFFICES ASSUME ~l PROVE Len(Q) > 0 /\ Q[Len(Q)].time = m2.currentTimeSlot
      OBVIOUS
    <3>1. Q[Len(R)].time = R[Len(R)].time
      BY <1>2, <1>5
    <3> QED BY <1>2, <1>5, <3>1
  <2> QED BY <1>2, <1>4, <2>1, <2>2, <2>3 DEF SlotsGood
<1>7. CloseGood(Q, m2, q, T, l)
  <2>1. ~l => Q[Len(Q)].shares = m2.shares
    BY <1>2, <1>5
  <2> QED BY <2>1 DEF CloseGood
<1>8. SumsGood(ClosedSum(Q, m2), m2, q, w + d, l)
  <2>1. ClosedSum(Q, m2) = ClosedSum(R, m)
    BY <1>2, Zenon DEF ClosedSum
  <2>2. Pending(p) = 0 /\ Pending(q) \in Nat
    BY DEF Pending, AdderState
  <2>3. ClosedSum(R, m) + m.shares <= w /\ (~l => ClosedSum(R, m) + m.shares = w)
    BY <1>1, <1>4, <2>2 DEF SumsGood
  <2>4. ClosedSum(Q, m2) + m2.shares + Pending(q) = ClosedSum(R, m) + m.shares + d
    <3>1. \A c, x, e, y, z \in Nat : x + e = y + z => c + x + e = c + y + z
      OBVIOUS
    <3>2. ClosedSum(R, m) + m2.shares + Pending(q) = ClosedSum(R, m) + m.shares + d
      <4>1. /\ ClosedSum(R, m) \in Nat /\ m2.shares \in Nat /\ Pending(q) \in Nat
            /\ m.shares \in Nat
        BY <1>1, <2>2
      <4> QED BY <3>1, <4>1
    <3> QED BY <2>1, <3>2, Zenon
  <2>5. ClosedSum(R, m) + m.shares + d <= w + d
    BY <1>1, <2>3
  <2>6. ~l => ClosedSum(R, m) + m.shares + d = w + d
    BY <2>3
  <2> QED BY <2>4, <2>5, <2>6, Zenon DEF SumsGood
<1> QED BY <1>3, <1>6, <1>7, <1>8 DEF Values

\* A share is counted in memory only, and a save returns.
LEMMA CountsShare ==
  ASSUME NEW R, NEW m, NEW p, NEW T, NEW w, NEW l, Values(R, m, p, T, w, l),
         NEW m2 \in Statistics, NEW d \in Nat, NEW q \in AdderState,
         m2.currentTimeSlot = m.currentTimeSlot, m2.shares = m.shares + d,
         m.currentTimeSlot = NoSlot => d = 0,
         p.pc # "closeSlot", q.pc # "closeSlot"
  PROVE  Values(R, m2, q, T, w + d, l)
<1>0. ValuesTyped(R, m, p, T, w, l) /\ ValuesTyped(R, m2, q, T, w + d, l)
  BY DEF Values, ValuesTyped
<1>1. /\ m.currentTimeSlot \in Int /\ m.shares \in Nat /\ Len(R) \in Nat
      /\ \A i \in 1..Len(R) : R[i].time \in Nat /\ R[i].shares \in Nat
      /\ T \in Nat /\ w \in Nat /\ ClosedSum(R, m) \in Nat
  BY <1>0, ValueTypes DEF ValuesTyped
<1>2. SlotsGood(R, m2, T, l)
  BY <1>1 DEF Values, SlotsGood
<1>3. ClosedSum(R, m2) = ClosedSum(R, m) /\ Pending(p) = 0 /\ Pending(q) = 0
  BY DEF ClosedSum, Pending
<1>4. SumsGood(ClosedSum(R, m2), m2, q, w + d, l)
  <2>1. ClosedSum(R, m) + m.shares <= w /\ (~l => ClosedSum(R, m) + m.shares = w)
    BY <1>1, <1>3 DEF Values, SumsGood
  <2>2. ClosedSum(R, m2) + m2.shares + Pending(q) = ClosedSum(R, m) + m.shares + d
    BY <1>1, <1>3
  <2>3. ClosedSum(R, m) + m.shares + d <= w + d
    BY <1>1, <2>1
  <2>4. ~l => ClosedSum(R, m) + m.shares + d = w + d
    BY <2>1
  <2> QED BY <2>2, <2>3, <2>4, Zenon DEF SumsGood
<1> QED BY <1>0, <1>2, <1>4 DEF Values, CloseGood

-----------------------------------------------------------------------------
(* ShareStatistics: the specification                                      *)

OneAdder(a) == Values(statRows, stats, adder[a], TimeSlot, work, lost)
Frame == statTime \in Nat /\ added \in Nat /\ adder \in [Adders -> AdderState]

\* The slot of a point in time.
LEMMA SlotOfTime ==
  /\ \A t \in Nat : t \div SlotLength \in Nat
  /\ \A t \in Nat : t \div SlotLength <= (t + 1) \div SlotLength
<1>1. SlotLength \in Nat /\ SlotLength > 0
  BY StatisticsAssumption
<1>2. ASSUME NEW t \in Nat
      PROVE  /\ t \div SlotLength \in Nat
             /\ t \div SlotLength <= (t + 1) \div SlotLength
  <2>1. PICK q \in Int : q = t \div SlotLength
    BY <1>1
  <2>2. PICK r \in Int : r = (t + 1) \div SlotLength
    BY <1>1
  <2>3. /\ SlotLength * q <= t /\ t < SlotLength * (q + 1)
        /\ SlotLength * r <= t + 1 /\ t + 1 < SlotLength * (r + 1)
    BY <1>1, <2>1, <2>2
  <2>4. q >= 0
    <3> SUFFICES ASSUME q + 1 <= 0 PROVE FALSE
      BY <2>1
    <3>1. SlotLength * (q + 1) <= 0
      BY <1>1
    <3> QED BY <1>1, <2>3, <3>1
  <2>5. q <= r
    <3> SUFFICES ASSUME r + 1 <= q PROVE FALSE
      BY <2>1, <2>2
    <3>1. SlotLength * (r + 1) <= SlotLength * q
      BY <1>1
    <3> QED BY <1>1, <2>3, <3>1
  <2> QED BY <2>1, <2>2, <2>4, <2>5
<1> QED BY <1>2

\* The invariant, written out for the only adder.
LEMMA InvIsValues ==
  ASSUME NEW a, Adders = {a}
  PROVE  /\ StatisticsTypeOK /\ StatisticsInv <=> Frame /\ OneAdder(a)
         /\ (StatisticsTypeOK /\ StatisticsInv)' <=> (Frame /\ OneAdder(a))'
<1>1. StatisticsTypeOK /\ StatisticsInv <=> Frame /\ OneAdder(a)
  <2>1. ClosedWork = ClosedSum(statRows, stats)
    BY DEF ClosedWork, SumRows, Rows, ClosedSum, RowShares, Closed
  <2>2. PendingWork(a) = Pending(adder[a])
    BY DEF PendingWork, Pending
  <2>3. SlotsInv <=> SlotsGood(statRows, stats, TimeSlot, lost)
    BY DEF SlotsInv, SlotsGood, InOrder, Rows
  <2>4. AdderGood(a) <=> /\ CloseGood(statRows, stats, adder[a], TimeSlot, lost)
                         /\ SumsGood(ClosedSum(statRows, stats), stats, adder[a], work, lost)
    BY <2>1, <2>2, Zenon DEF AdderGood, CloseGood, SumsGood
  <2>5. StatisticsTypeOK <=> Frame /\ ValuesTyped(statRows, stats, adder[a], TimeSlot, work, lost)
    <3>1. statTime \in Nat => TimeSlot \in Nat
      BY SlotOfTime DEF TimeSlot
    <3>2. adder \in [Adders -> AdderState] => adder[a] \in AdderState
      OBVIOUS
    <3> QED BY <3>1, <3>2, Zenon DEF StatisticsTypeOK, Frame, ValuesTyped
  <2>6. StatisticsInv <=> SlotsInv /\ AdderGood(a)
    BY Zenon DEF StatisticsInv
  <2> QED BY <2>3, <2>4, <2>5, <2>6, Zenon DEF OneAdder, Values
<1>2. (StatisticsTypeOK /\ StatisticsInv)' <=> (Frame /\ OneAdder(a))'
  <2>1. ClosedWork' = ClosedSum(statRows', stats')
    BY DEF ClosedWork, SumRows, Rows, ClosedSum, RowShares, Closed
  <2>2. PendingWork(a)' = Pending(adder'[a])
    BY DEF PendingWork, Pending
  <2>3. SlotsInv' <=> SlotsGood(statRows', stats', TimeSlot', lost')
    BY DEF SlotsInv, SlotsGood, InOrder, Rows
  <2>4. AdderGood(a)' <=> /\ CloseGood(statRows', stats', adder'[a], TimeSlot', lost')
                          /\ SumsGood(ClosedSum(statRows', stats'), stats', adder'[a], work', lost')
    BY <2>1, <2>2, Zenon DEF AdderGood, CloseGood, SumsGood
  <2>5. StatisticsTypeOK' <=>
          Frame' /\ ValuesTyped(statRows', stats', adder'[a], TimeSlot', work', lost')
    <3>1. statTime' \in Nat => TimeSlot' \in Nat
      BY SlotOfTime DEF TimeSlot
    <3>2. adder' \in [Adders -> AdderState] => adder'[a] \in AdderState
      OBVIOUS
    <3> QED BY <3>1, <3>2, Zenon DEF StatisticsTypeOK, Frame, ValuesTyped
  <2>6. StatisticsInv' <=> SlotsInv' /\ AdderGood(a)'
    BY Zenon DEF StatisticsInv
  <2> QED BY <2>3, <2>4, <2>5, <2>6, Zenon DEF OneAdder, Values
<1> QED BY <1>1, <1>2

\* The states of an adder.
LEMMA AdderTypes ==
  /\ IdleAdder \in AdderState /\ IdleAdder.pc = "idle"
  /\ \A pc \in {"closeSlot", "save"}, d \in Nat, t \in Nat :
       /\ Awaiting(pc, d, t) \in AdderState
       /\ Awaiting(pc, d, t).pc = pc /\ Awaiting(pc, d, t).difficulty = d
       /\ Awaiting(pc, d, t).timeSlot = t
BY DEF IdleAdder, Awaiting, AdderState

\* A statement is executed or throws.
LEMMA ExecuteIs ==
  ASSUME NEW a, Adders = {a}, Frame, NEW rows, NEW p \in AdderState, Execute(a, rows, p)
  PROVE  /\ adder' \in [Adders -> AdderState]
         /\ \/ statRows' = rows /\ adder'[a] = p /\ lost' = lost
            \/ statRows' = statRows /\ adder'[a] = IdleAdder /\ lost' = TRUE
<1>1. adder \in [Adders -> AdderState] /\ IdleAdder \in AdderState
  BY AdderTypes DEF Frame
<1>2. CASE statRows' = rows /\ SetAdder(a, p) /\ lost' = lost
  BY <1>1, <1>2 DEF SetAdder
<1>3. CASE SetAdder(a, IdleAdder) /\ lost' = TRUE /\ statRows' = statRows
  BY <1>1, <1>3 DEF SetAdder
<1> QED BY <1>2, <1>3 DEF Execute

\* The rows an INSERT and an UPDATE leave.
LEMMA RowsOf ==
  ASSUME NEW a, Frame, OneAdder(a), NEW m \in Statistics
  PROVE  /\ m.currentTimeSlot > stats.currentTimeSlot /\ m.currentTimeSlot \in Nat =>
              Inserted(RowInserted(m), statRows, m.currentTimeSlot, m.shares)
         /\ Written(RowsUpdated(m), statRows, m.currentTimeSlot, m.shares)
<1>0. ValuesTyped(statRows, stats, adder[a], TimeSlot, work, lost)
  BY DEF OneAdder, Values
<1>1. /\ statRows \in Seq(StatRow) /\ stats.currentTimeSlot \in Int
      /\ \A i \in 1..Len(statRows) : statRows[i].time \in Nat
  BY <1>0, ValueTypes DEF ValuesTyped
<1>2. m.currentTimeSlot \in Int /\ m.shares \in Nat
  BY DEF Statistics
<1>3. InOrder(statRows) /\ \A i \in 1..Len(statRows) : statRows[i].time <= stats.currentTimeSlot
  BY DEF OneAdder, Values, SlotsGood
<1>4. ASSUME m.currentTimeSlot > stats.currentTimeSlot, m.currentTimeSlot \in Nat
      PROVE  Inserted(RowInserted(m), statRows, m.currentTimeSlot, m.shares)
  <2>1. \A i \in 1..Len(statRows) : statRows[i].time < m.currentTimeSlot
    BY <1>1, <1>3, <1>4
  <2> QED BY <1>1, <1>2, <1>3, <1>4, <2>1, RowsInserted DEF RowInserted
<1>5. Written(RowsUpdated(m), statRows, m.currentTimeSlot, m.shares)
  BY <1>1, <1>2, RowsWritten DEF RowsUpdated
<1> QED BY <1>4, <1>5

\* A share that enters addShares: the four ways through it to the first await.
LEMMA AddSharesKeeps ==
  ASSUME NEW a, Adders = {a}, Frame, OneAdder(a), NEW d \in StatDifficulties, addShares(a, d)
  PROVE  (Frame /\ OneAdder(a))'
<1>0. ValuesTyped(statRows, stats, adder[a], TimeSlot, work, lost)
  BY DEF OneAdder, Values
<1>1. /\ stats \in Statistics /\ stats.currentTimeSlot \in Int /\ stats.shares \in Nat
      /\ d \in Nat /\ TimeSlot \in Nat /\ work \in Nat /\ lost \in BOOLEAN
      /\ statRows \in Seq(StatRow) /\ Len(statRows) \in Nat
  BY <1>0, ValueTypes, StatisticsAssumption DEF ValuesTyped
<1>2. /\ TimeSlot' = TimeSlot /\ work' = work + d /\ statTime' = statTime /\ added' = added + 1
      /\ adder[a].pc = "idle" /\ adder \in [Adders -> AdderState]
      /\ statTime \in Nat /\ added \in Nat
  BY DEF addShares, TimeSlot, Frame
<1>3. /\ stats.currentTimeSlot = NoSlot => stats.shares = 0 /\ statRows = << >>
      /\ stats.currentTimeSlot <= TimeSlot /\ stats.currentTimeSlot >= NoSlot
  BY DEF OneAdder, Values, SlotsGood
<1>4. Pending(adder[a]) = 0
  BY <1>2 DEF Pending
<1>5. SumsGood(ClosedSum(statRows, stats), stats, adder[a], work, lost)
  BY DEF OneAdder, Values
<1>6. CASE FirstShare(a, d)
  <2>1. /\ stats' \in Statistics /\ stats'.currentTimeSlot = TimeSlot /\ stats'.shares = d
        /\ stats.currentTimeSlot = NoSlot
    <3>1. stats.currentTimeSlot = NoSlot /\ stats.shares + d = d
      BY <1>1, <1>3, <1>6 DEF FirstShare
    <3>2. stats' = [[stats EXCEPT !.shares = @ + d] EXCEPT !.currentTimeSlot = TimeSlot]
      BY <1>6 DEF FirstShare, WithShare
    <3>3. TimeSlot \in Int
      BY <1>1
    <3>4. stats' = [currentTimeSlot |-> TimeSlot, shares |-> stats.shares + d,
                    lastSave |-> stats.lastSave]
      BY <1>1, <3>2 DEF Statistics
    <3>5. stats.lastSave \in Int
      BY <1>1 DEF Statistics
    <3> HIDE DEF TimeSlot
    <3> QED BY <1>1, <3>1, <3>3, <3>4, <3>5 DEF Statistics
  <2>2. /\ Awaiting("save", d, TimeSlot) \in AdderState
        /\ Awaiting("save", d, TimeSlot).pc = "save"
    BY <1>1, AdderTypes
  <2>3. Execute(a, RowInserted(stats'), Awaiting("save", d, TimeSlot))
    BY <1>6 DEF FirstShare
  <2>4. adder' \in [Adders -> AdderState]
    BY <2>2, <2>3, ExecuteIs
  <2>5. statRows = << >> /\ stats.shares = 0 /\ Len(statRows) = 0 /\ TimeSlot > NoSlot
    BY <1>1, <1>3, <2>1 DEF NoSlot
  <2>6. CASE statRows' = RowInserted(stats') /\ adder'[a] = Awaiting("save", d, TimeSlot)
             /\ lost' = lost
    <3>1. Inserted(statRows', statRows, TimeSlot, stats'.shares)
      BY <1>1, <2>1, <2>5, <2>6, RowsOf
    <3>2. 1..Len(statRows) = {} /\ Closed(statRows, stats.currentTimeSlot) = {}
      BY <2>5 DEF Closed
    <3>3. SumOver(RowShares(statRows), 1..Len(statRows)) = 0 /\ ClosedSum(statRows, stats) = 0
      BY <3>2, SumEmpty DEF ClosedSum
    <3>4. ~lost => work = 0
      BY <1>4, <1>5, <2>5, <3>3 DEF SumsGood
    <3>5. /\ SumOver(RowShares(statRows), 1..Len(statRows)) + stats'.shares <= work + d
          /\ ~lost => SumOver(RowShares(statRows), 1..Len(statRows)) + stats'.shares = work + d
      BY <1>1, <2>1, <3>3, <3>4
    <3>6. TimeSlot <= TimeSlot /\ stats.currentTimeSlot < TimeSlot /\ work + d \in Nat
      BY <1>1, <2>1, <2>5
    <3>7. Values(statRows', stats', Awaiting("save", d, TimeSlot), TimeSlot, work + d, lost)
      BY <1>1, <2>1, <2>2, <3>1, <3>5, <3>6, OpensSlot DEF OneAdder
    <3> QED BY <1>2, <2>4, <2>6, <3>7 DEF OneAdder, Frame
  <2>7. CASE statRows' = statRows /\ adder'[a] = IdleAdder /\ lost' = TRUE
    <3>1. /\ stats'.currentTimeSlot <= TimeSlot
          /\ stats'.currentTimeSlot >= stats.currentTimeSlot
          /\ stats'.currentTimeSlot # NoSlot
          /\ stats'.shares >= stats.shares /\ stats'.shares <= stats.shares + d
      BY <1>1, <2>1, <2>5 DEF NoSlot
    <3>2. Values(statRows, stats', IdleAdder, TimeSlot, work + d, TRUE)
      BY <1>1, <2>1, <2>5, <2>7, <3>1, GivesUp, AdderTypes, Zenon DEF OneAdder
    <3>3. OneAdder(a)'
      BY <1>2, <2>7, <3>2, Zenon DEF OneAdder
    <3> QED BY <1>2, <2>4, <3>3 DEF Frame
  <2> QED BY <2>2, <2>3, <2>6, <2>7, ExecuteIs
<1>7. CASE SlotChange(a, d)
  <2>1. stats.currentTimeSlot # NoSlot /\ stats.currentTimeSlot < TimeSlot /\ stats' = stats
    BY <1>1, <1>3, <1>7 DEF SlotChange
  <2>2. PICK p : p = Awaiting("closeSlot", d, TimeSlot)
    OBVIOUS
  <2>3. p \in AdderState /\ p.pc = "closeSlot" /\ p.difficulty = d /\ p.timeSlot = TimeSlot
    BY <1>1, <2>2, AdderTypes
  <2>4. Execute(a, RowsUpdated(stats), p)
    BY <1>7, <2>2 DEF SlotChange
  <2>5. adder' \in [Adders -> AdderState]
    BY <2>3, <2>4, ExecuteIs
  <2>6. CASE statRows' = RowsUpdated(stats) /\ adder'[a] = p /\ lost' = lost
    <3>1. Written(statRows', statRows, stats.currentTimeSlot, stats.shares)
      BY <1>1, <2>6, RowsOf
    <3>2. Pending(p) = d
      BY <2>3 DEF Pending
    <3>3. p.timeSlot <= TimeSlot /\ stats.currentTimeSlot < p.timeSlot
      BY <1>1, <2>1, <2>3
    <3>4. Values(statRows', stats, p, TimeSlot, work + d, lost)
      BY <1>1, <1>2, <2>1, <2>3, <3>1, <3>2, <3>3, WritesSlot DEF OneAdder
    <3> QED BY <1>2, <2>1, <2>5, <2>6, <3>4 DEF OneAdder, Frame
  <2>7. CASE statRows' = statRows /\ adder'[a] = IdleAdder /\ lost' = TRUE
    <3>1. stats.currentTimeSlot >= stats.currentTimeSlot
          /\ stats.shares >= stats.shares /\ stats.shares <= stats.shares + d
      BY <1>1
    <3>2. Values(statRows, stats, IdleAdder, TimeSlot, work + d, TRUE)
      BY <1>1, <1>3, <2>7, <3>1, GivesUp, AdderTypes, Zenon DEF OneAdder
    <3>3. OneAdder(a)'
      BY <1>2, <2>1, <2>7, <3>2, Zenon DEF OneAdder
    <3> QED BY <1>2, <2>5, <3>3 DEF Frame
  <2> QED BY <2>3, <2>4, <2>6, <2>7, ExecuteIs
<1>8. CASE SaveShare(a, d)
  <2>1. /\ stats.currentTimeSlot # NoSlot /\ stats' \in Statistics
        /\ stats'.currentTimeSlot = stats.currentTimeSlot /\ stats'.shares = stats.shares + d
    BY <1>1, <1>8 DEF SaveShare, WithShare, Statistics, NoSlot
  <2>2. PICK p : p = Awaiting("save", d, TimeSlot)
    OBVIOUS
  <2>3. p \in AdderState /\ p.pc = "save"
    BY <1>1, <2>2, AdderTypes
  <2>4. Execute(a, RowsUpdated(stats'), p)
    BY <1>8, <2>2 DEF SaveShare
  <2>5. adder' \in [Adders -> AdderState]
    BY <2>3, <2>4, ExecuteIs
  <2>6. CASE statRows' = RowsUpdated(stats') /\ adder'[a] = p /\ lost' = lost
    <3>1. Written(statRows', statRows, stats'.currentTimeSlot, stats'.shares)
      BY <2>1, <2>6, RowsOf
    <3>2. stats'.shares + Pending(p) = stats.shares + d
      BY <1>1, <2>1, <2>3 DEF Pending
    <3>3. Values(statRows', stats', p, TimeSlot, work + d, lost)
      BY <1>1, <1>2, <2>1, <2>3, <3>1, <3>2, WritesSlot DEF OneAdder
    <3> QED BY <1>2, <2>5, <2>6, <3>3 DEF OneAdder, Frame
  <2>7. CASE statRows' = statRows /\ adder'[a] = IdleAdder /\ lost' = TRUE
    <3>1. /\ stats'.currentTimeSlot <= TimeSlot
          /\ stats'.currentTimeSlot >= stats.currentTimeSlot
          /\ stats'.currentTimeSlot # NoSlot
          /\ stats'.shares >= stats.shares /\ stats'.shares <= stats.shares + d
      BY <1>1, <1>3, <2>1
    <3>2. Values(statRows, stats', IdleAdder, TimeSlot, work + d, TRUE)
      BY <1>1, <2>1, <2>7, <3>1, GivesUp, AdderTypes, Zenon DEF OneAdder
    <3>3. OneAdder(a)'
      BY <1>2, <2>7, <3>2, Zenon DEF OneAdder
    <3> QED BY <1>2, <2>5, <3>3 DEF Frame
  <2> QED BY <2>3, <2>4, <2>6, <2>7, ExecuteIs
<1>9. CASE CountShare(a, d)
  <2>1. /\ stats.currentTimeSlot # NoSlot /\ stats' \in Statistics
        /\ stats'.currentTimeSlot = stats.currentTimeSlot /\ stats'.shares = stats.shares + d
        /\ adder' = adder /\ statRows' = statRows /\ lost' = lost
    BY <1>1, <1>9 DEF CountShare, WithShare, Statistics, NoSlot
  <2>2. adder[a] \in AdderState
    BY <1>0 DEF ValuesTyped
  <2>3. Values(statRows, stats', adder[a], TimeSlot, work + d, lost)
    BY <1>1, <1>2, <2>1, <2>2, CountsShare DEF OneAdder
  <2> QED BY <1>2, <2>1, <2>3 DEF OneAdder, Frame
<1> QED BY <1>6, <1>7, <1>8, <1>9 DEF addShares

\* The UPDATE of the old slot has returned.
LEMMA SlotClosedKeeps ==
  ASSUME NEW a, Adders = {a}, Frame, OneAdder(a), SlotClosed(a)
  PROVE  (Frame /\ OneAdder(a))'
<1>0. ValuesTyped(statRows, stats, adder[a], TimeSlot, work, lost)
  BY DEF OneAdder, Values
<1>1. /\ stats \in Statistics /\ stats.currentTimeSlot \in Int /\ stats.shares \in Nat
      /\ TimeSlot \in Nat /\ work \in Nat /\ lost \in BOOLEAN
      /\ statRows \in Seq(StatRow) /\ Len(statRows) \in Nat
      /\ adder[a].difficulty \in Nat /\ adder[a].timeSlot \in Nat
      /\ ClosedSum(statRows, stats) \in Nat
  BY <1>0, ValueTypes DEF ValuesTyped
<1>2. /\ TimeSlot' = TimeSlot /\ work' = work /\ statTime' = statTime /\ added' = added
      /\ adder[a].pc = "closeSlot" /\ statTime \in Nat /\ added \in Nat
  BY DEF SlotClosed, TimeSlot, Frame
<1>3. SlotsGood(statRows, stats, TimeSlot, lost) /\ CloseGood(statRows, stats, adder[a], TimeSlot, lost)
      /\ SumsGood(ClosedSum(statRows, stats), stats, adder[a], work, lost)
  BY DEF OneAdder, Values
<1>4. /\ stats.currentTimeSlot < adder[a].timeSlot /\ adder[a].timeSlot <= TimeSlot
      /\ stats.currentTimeSlot # NoSlot
      /\ ~lost => statRows[Len(statRows)].shares = stats.shares
  BY <1>2, <1>3 DEF CloseGood
<1>5. /\ stats' \in Statistics /\ stats'.currentTimeSlot = adder[a].timeSlot
      /\ stats'.shares = adder[a].difficulty
  <2>1. stats' = [stats EXCEPT !.currentTimeSlot = adder[a].timeSlot,
                               !.shares = adder[a].difficulty]
    BY DEF SlotClosed, NewSlot
  <2>2. stats.lastSave \in Int /\ adder[a].timeSlot \in Int
    BY <1>1 DEF Statistics
  <2>3. stats' = [currentTimeSlot |-> adder[a].timeSlot, shares |-> adder[a].difficulty,
                  lastSave |-> stats.lastSave]
    BY <1>1, <2>1 DEF Statistics
  <2> QED BY <1>1, <2>2, <2>3 DEF Statistics
<1>6. PICK d \in Nat : d = adder[a].difficulty
  BY <1>1
<1>7. PICK t \in Nat : t = adder[a].timeSlot
  BY <1>1
<1>8. PICK p : p = Awaiting("save", d, t)
  OBVIOUS
<1>9. p \in AdderState /\ p.pc = "save"
  BY <1>8, AdderTypes
<1>10. Execute(a, RowInserted(stats'), p)
  BY <1>6, <1>7, <1>8 DEF SlotClosed
<1>11. adder' \in [Adders -> AdderState]
  BY <1>9, <1>10, ExecuteIs
<1>12. PICK all : all = SumOver(RowShares(statRows), 1..Len(statRows))
  OBVIOUS
<1>13. PICK c \in Nat : c = ClosedSum(statRows, stats)
  BY <1>1
<1>14. /\ all <= c + stats.shares
       /\ ~lost => all = c + stats.shares
  <2>1. /\ InOrder(statRows)
        /\ \A i \in 1..Len(statRows) :
             statRows[i].time = stats.currentTimeSlot => statRows[i].shares <= stats.shares
        /\ ~lost => Len(statRows) > 0 /\ statRows[Len(statRows)].time = stats.currentTimeSlot
    BY <1>3, <1>4 DEF SlotsGood
  <2>2. /\ all <= c + stats.shares
        /\ Len(statRows) > 0 /\ statRows[Len(statRows)].time = stats.currentTimeSlot
             /\ statRows[Len(statRows)].shares = stats.shares => all = c + stats.shares
    BY <1>1, <1>12, <1>13, <2>1, RowsTotal DEF ClosedSum
  <2> QED BY <1>4, <2>1, <2>2
<1>15. all \in Nat
  BY <1>1, <1>12, RowsSummable
<1>16. all + d <= work /\ (~lost => all + d = work)
  <2>1. Pending(adder[a]) = d
    BY <1>2, <1>6 DEF Pending
  <2>2. c + stats.shares + d <= work /\ (~lost => c + stats.shares + d = work)
    BY <1>3, <1>13, <2>1 DEF SumsGood
  <2> QED BY <1>1, <1>14, <1>15, <2>2
<1>17. CASE statRows' = RowInserted(stats') /\ adder'[a] = p /\ lost' = lost
  <2>1. Inserted(statRows', statRows, t, stats'.shares)
    BY <1>4, <1>5, <1>7, <1>17, RowsOf
  <2>2. Values(statRows', stats', p, TimeSlot, work, lost)
    BY <1>1, <1>4, <1>5, <1>6, <1>7, <1>9, <1>12, <1>16, <2>1, OpensSlot DEF OneAdder
  <2> QED BY <1>2, <1>11, <1>17, <2>2 DEF OneAdder, Frame
<1>18. CASE statRows' = statRows /\ adder'[a] = IdleAdder /\ lost' = TRUE
  <2>1. SlotsGood(statRows, stats', TimeSlot, TRUE)
    <3>1. \A i \in 1..Len(statRows) : statRows[i].time \in Nat
      BY <1>0, ValueTypes
    <3>2. \A i \in 1..Len(statRows) : statRows[i].time < t
      BY <1>1, <1>3, <1>4, <1>7, <3>1 DEF SlotsGood
    <3>3. stats'.currentTimeSlot = t /\ t <= TimeSlot /\ t # NoSlot /\ t >= NoSlot
      BY <1>4, <1>5, <1>7 DEF NoSlot
    <3> QED BY <1>3, <3>1, <3>2, <3>3 DEF SlotsGood
  <2>2. ClosedSum(statRows, stats') = all
    <3>1. \A i \in 1..Len(statRows) : statRows[i].time \in Nat /\ statRows[i].time # t
      <4>1. \A i \in 1..Len(statRows) : statRows[i].time \in Nat
        BY <1>0, ValueTypes
      <4> QED BY <1>1, <1>3, <1>4, <1>7, <4>1 DEF SlotsGood
    <3>2. Closed(statRows, t) = 1..Len(statRows)
      BY <3>1 DEF Closed
    <3> QED BY <1>5, <1>7, <1>12, <3>2, Zenon DEF ClosedSum
  <2>3. SumsGood(ClosedSum(statRows, stats'), stats', IdleAdder, work, TRUE)
    <3>1. Pending(IdleAdder) = 0
      BY AdderTypes DEF Pending
    <3> QED BY <1>1, <1>5, <1>6, <1>15, <1>16, <2>2, <3>1 DEF SumsGood
  <2>4. CloseGood(statRows, stats', IdleAdder, TimeSlot, TRUE)
    BY AdderTypes DEF CloseGood
  <2>5. ValuesTyped(statRows, stats', IdleAdder, TimeSlot, work, TRUE)
    BY <1>1, <1>5, AdderTypes DEF ValuesTyped
  <2>6. Values(statRows, stats', IdleAdder, TimeSlot, work, TRUE)
    BY <2>1, <2>3, <2>4, <2>5 DEF Values
  <2> QED BY <1>2, <1>11, <1>18, <2>6 DEF OneAdder, Frame
<1> QED BY <1>9, <1>10, <1>17, <1>18, ExecuteIs

\* The save has returned.
LEMMA SavedKeeps ==
  ASSUME NEW a, Adders = {a}, Frame, OneAdder(a), Saved(a)
  PROVE  (Frame /\ OneAdder(a))'
<1>0. ValuesTyped(statRows, stats, adder[a], TimeSlot, work, lost)
  BY DEF OneAdder, Values
<1>1. /\ stats \in Statistics /\ statTime \in Nat /\ stats.shares \in Nat /\ work \in Nat
      /\ adder \in [Adders -> AdderState] /\ IdleAdder \in AdderState /\ IdleAdder.pc = "idle"
  BY <1>0, ValueTypes, AdderTypes DEF ValuesTyped, Frame
<1>2. /\ stats' \in Statistics /\ stats'.currentTimeSlot = stats.currentTimeSlot
      /\ stats'.shares = stats.shares
  BY <1>1 DEF Saved, Statistics
<1>3. /\ adder' \in [Adders -> AdderState] /\ adder'[a] = IdleAdder
      /\ adder[a].pc = "save" /\ statRows' = statRows /\ lost' = lost /\ work' = work
      /\ TimeSlot' = TimeSlot
  BY <1>1 DEF Saved, SetAdder, TimeSlot
<1>4. Values(statRows, stats', IdleAdder, TimeSlot, work + 0, lost)
  BY <1>1, <1>2, <1>3, CountsShare DEF OneAdder
<1> QED BY <1>1, <1>3, <1>4 DEF OneAdder, Frame, Saved

\* Time passes: the current slot may fall behind.
LEMMA StatTickKeeps ==
  ASSUME NEW a, Adders = {a}, Frame, OneAdder(a), StatTick
  PROVE  (Frame /\ OneAdder(a))'
<1>0. ValuesTyped(statRows, stats, adder[a], TimeSlot, work, lost)
  BY DEF OneAdder, Values
<1>1. TimeSlot \in Nat /\ TimeSlot' \in Nat /\ TimeSlot <= TimeSlot' /\ statTime' \in Nat
  BY SlotOfTime DEF StatTick, TimeSlot, Frame
<1>2. stats.currentTimeSlot \in Int /\ adder[a].timeSlot \in Nat
  BY <1>0, ValueTypes
<1>3. Values(statRows, stats, adder[a], TimeSlot', work, lost)
  BY <1>1, <1>2 DEF OneAdder, Values, ValuesTyped, SlotsGood, CloseGood
<1> QED BY <1>1, <1>3 DEF OneAdder, Frame, StatTick

\* The rows and the memory of one session's statistics between any two steps, for
\* shares that do not overlap: SlotsInv and the sums of AdderGood.
THEOREM StatisticsInvariance ==
  ASSUME OneAtATime
  PROVE  StatisticsSpec => [](StatisticsTypeOK /\ StatisticsInv)
<1>0. PICK a : Adders = {a}
  BY DEF OneAtATime
<1>1. StatisticsInit => StatisticsTypeOK /\ StatisticsInv
  <2> SUFFICES ASSUME StatisticsInit PROVE Frame /\ OneAdder(a)
    BY <1>0, InvIsValues
  <2>1. TimeSlot \in Nat
    BY SlotOfTime DEF StatisticsInit, TimeSlot
  <2>2. /\ statRows = << >> /\ Len(statRows) = 0 /\ statRows \in Seq(StatRow)
        /\ stats \in Statistics /\ stats.currentTimeSlot = NoSlot /\ stats.shares = 0
        /\ adder[a] = IdleAdder /\ work = 0 /\ lost = FALSE /\ Frame
    BY <1>0, AdderTypes DEF StatisticsInit, Statistics, Frame, NoSlot, Never
  <2>3. Closed(statRows, NoSlot) = {}
    BY <2>2 DEF Closed
  <2>4. ClosedSum(statRows, stats) = 0
    BY <2>2, <2>3, SumEmpty DEF ClosedSum
  <2>5. Pending(IdleAdder) = 0 /\ IdleAdder \in AdderState /\ IdleAdder.pc = "idle"
    BY AdderTypes DEF Pending
  <2>6. SumsGood(ClosedSum(statRows, stats), stats, adder[a], work, lost)
    BY <2>2, <2>4, <2>5 DEF SumsGood
  <2>7. SlotsGood(statRows, stats, TimeSlot, lost)
    BY <2>1, <2>2 DEF SlotsGood, InOrder, NoSlot
  <2>8. CloseGood(statRows, stats, adder[a], TimeSlot, lost)
    BY <2>2, <2>5 DEF CloseGood
  <2>9. ValuesTyped(statRows, stats, adder[a], TimeSlot, work, lost)
    BY <2>1, <2>2, <2>5 DEF ValuesTyped
  <2> QED BY <2>2, <2>6, <2>7, <2>8, <2>9 DEF OneAdder, Values
<1>2. StatisticsTypeOK /\ StatisticsInv /\ [StatisticsNext]_statisticsVars
        => (StatisticsTypeOK /\ StatisticsInv)'
  <2> SUFFICES ASSUME Frame, OneAdder(a), [StatisticsNext]_statisticsVars
               PROVE  (Frame /\ OneAdder(a))'
    BY <1>0, InvIsValues
  <2>1. CASE UNCHANGED statisticsVars
    BY <2>1 DEF statisticsVars, Frame, OneAdder, TimeSlot
  <2>2. ASSUME NEW d \in StatDifficulties, addShares(a, d) PROVE (Frame /\ OneAdder(a))'
    BY <1>0, <2>2, AddSharesKeeps
  <2>3. CASE SlotClosed(a)
    BY <1>0, <2>3, SlotClosedKeeps
  <2>4. CASE Saved(a)
    BY <1>0, <2>4, SavedKeeps
  <2>5. CASE StatTick
    BY <1>0, <2>5, StatTickKeeps
  <2> QED BY <1>0, <2>1, <2>2, <2>3, <2>4, <2>5 DEF StatisticsNext
<1> QED BY <1>1, <1>2, PTL DEF StatisticsSpec

\* addShares, one share at a time: the table never shows more work than was done, and
\* between two shares with no failed statement nothing is lost and no slot has two rows.
\* (Shares that overlap break it: run StatisticsOverlap.)
THEOREM AccumulatedWorkThm ==
  ASSUME OneAtATime
  PROVE  StatisticsSpec => []AccumulatedWork
<1>0. PICK a : Adders = {a}
  BY DEF OneAtATime
<1>1. StatisticsTypeOK /\ StatisticsInv => AccumulatedWork
  <2> SUFFICES ASSUME Frame, OneAdder(a) PROVE AccumulatedWork
    BY <1>0, InvIsValues
  <2>0. ValuesTyped(statRows, stats, adder[a], TimeSlot, work, lost)
    BY DEF OneAdder, Values
  <2>1. /\ statRows \in Seq(StatRow) /\ stats.currentTimeSlot \in Int /\ stats.shares \in Nat
        /\ work \in Nat /\ ClosedSum(statRows, stats) \in Nat /\ Pending(adder[a]) \in Nat
        /\ Len(statRows) \in Nat /\ \A i \in 1..Len(statRows) : statRows[i].time \in Nat
    BY <2>0, ValueTypes DEF ValuesTyped
  <2>2. SlotsGood(statRows, stats, TimeSlot, lost)
        /\ SumsGood(ClosedSum(statRows, stats), stats, adder[a], work, lost)
    BY DEF OneAdder, Values
  <2>3. SumRows(Rows) <= ClosedSum(statRows, stats) + stats.shares /\ SumRows(Rows) \in Nat
    <3>1. SumRows(Rows) = SumOver(RowShares(statRows), 1..Len(statRows))
      BY DEF SumRows, Rows, RowShares
    <3>2. SumOver(RowShares(statRows), 1..Len(statRows)) \in Nat
      BY <2>1, RowsSummable
    <3>3. SumOver(RowShares(statRows), 1..Len(statRows))
            <= ClosedSum(statRows, stats) + stats.shares
      BY <2>1, <2>2, RowsTotal DEF SlotsGood, ClosedSum
    <3> QED BY <3>1, <3>2, <3>3
  <2>4. SumRows(Rows) <= work
    BY <2>1, <2>2, <2>3 DEF SumsGood
  <2>5. ASSUME adder[a].pc = "idle", ~lost
        PROVE  SumRows({i \in Rows : statRows[i].time # stats.currentTimeSlot}) + stats.shares = work
    <3>1. SumRows({i \in Rows : statRows[i].time # stats.currentTimeSlot}) = ClosedSum(statRows, stats)
      BY DEF SumRows, Rows, ClosedSum, RowShares, Closed
    <3>2. Pending(adder[a]) = 0
      BY <2>5 DEF Pending
    <3> QED BY <2>1, <2>2, <2>5, <3>1, <3>2 DEF SumsGood
  <2>6. \A i, j \in Rows : statRows[i].time = statRows[j].time => i = j
    <3> SUFFICES ASSUME NEW i \in 1..Len(statRows), NEW j \in 1..Len(statRows), i # j
                 PROVE  statRows[i].time # statRows[j].time
      BY DEF Rows
    <3>1. i < j \/ j < i
      BY <2>1
    <3> QED BY <2>1, <2>2, <3>1 DEF SlotsGood, InOrder
  <2>7. a \in Adders
    BY <1>0
  <2> QED BY <2>4, <2>5, <2>6, <2>7 DEF AccumulatedWork
<1> QED BY <1>1, StatisticsInvariance, PTL

-----------------------------------------------------------------------------
(* PoolRegistry                                                            *)

\* What was found stays remembered in a map whose old entries are pruned, when time
\* passes and other blocks are found.
LEMMA StaysRemembered ==
  ASSUME ReportsInv, NEW b \in FoundBlocks,
         minute' \in Nat, minute' >= minute, foundAt'[b] = foundAt[b],
         b \in forgotten => b \in forgotten',
         \A e \in recentlyFoundBlocks : Recent(e) => e \in recentlyFoundBlocks'
  PROVE  foundAt'[b] <= minute' /\ Remembered(b)'
<1>1. foundAt[b] \in Int /\ minute \in Nat /\ RecentTtl \in Nat /\ foundAt[b] <= minute
  BY PoolRegistryAssumption DEF ReportsInv
<1>2. CASE [hash |-> b, time |-> foundAt[b]] \in recentlyFoundBlocks
  <2>1. PICK e : e = [hash |-> b, time |-> foundAt[b]]
    OBVIOUS
  <2>2. e.time = foundAt[b] /\ e \in recentlyFoundBlocks
    BY <1>2, <2>1
  <2>3. Recent(e) \/ minute' - foundAt'[b] > RecentTtl
    BY <1>1, <2>2 DEF Recent
  <2> QED BY <1>1, <2>1, <2>2, <2>3 DEF Remembered
<1>3. CASE foundAt[b] = -1 \/ b \in forgotten \/ minute - foundAt[b] > RecentTtl
  BY <1>1, <1>3 DEF Remembered
<1> QED BY <1>2, <1>3 DEF ReportsInv, Remembered

\* PoolRegistryService remembers what it reported.
THEOREM ReportsInvariance == PoolRegistrySpec => []ReportsInv
<1>1. PoolRegistryInit => ReportsInv
  BY DEF PoolRegistryInit, ReportsInv, Remembered
<1>2. ReportsInv /\ [PoolRegistryNext]_poolRegistryVars => ReportsInv'
  <2> SUFFICES ASSUME ReportsInv, [PoolRegistryNext]_poolRegistryVars PROVE ReportsInv'
    OBVIOUS
  <2>0. minute \in Nat
    BY DEF ReportsInv
  <2>1. CASE refreshRegistry \/ RegistryUnreachable \/ UNCHANGED poolRegistryVars
    BY <2>1 DEF refreshRegistry, RegistryUnreachable, poolRegistryVars, ReportsInv, Remembered
  <2>2. ASSUME NEW entries \in SUBSET Explorers, RegistryAnswers(entries) PROVE ReportsInv'
    BY <2>2 DEF RegistryAnswers, ReportsInv, Remembered
  <2>3. CASE RegistryRestarts
    BY <2>3 DEF RegistryRestarts, ReportsInv, Remembered
  <2>4. CASE Minutes
    <3>1. minute' \in Nat /\ minute' >= minute
      BY <2>0, <2>4 DEF Minutes
    <3>2. \A b \in FoundBlocks : foundAt'[b] <= minute' /\ Remembered(b)'
      BY <2>4, <3>1, StaysRemembered DEF Minutes
    <3> QED BY <2>4, <3>1, <3>2 DEF Minutes, ReportsInv
  <2>5. ASSUME NEW b \in FoundBlocks, reportBlockFound(b) PROVE ReportsInv'
    <3>1. minute' = minute /\ mempools' = mempools /\ cacheFile' = cacheFile
          /\ forgotten' = forgotten /\ foundAt' = [foundAt EXCEPT ![b] = minute]
          /\ reports' = reports \cup {<<e, b>> : e \in mempools}
          /\ recentlyFoundBlocks' =
               pruneOldEntries(recentlyFoundBlocks \cup {[hash |-> b, time |-> minute]})
      BY <2>5 DEF reportBlockFound
    <3>2. foundAt \in [FoundBlocks -> Int] /\ foundAt' \in [FoundBlocks -> Int]
          /\ foundAt'[b] = minute /\ \A c \in FoundBlocks \ {b} : foundAt'[c] = foundAt[c]
      BY <2>0, <3>1 DEF ReportsInv
    <3>3. \A e \in recentlyFoundBlocks : Recent(e) => e \in recentlyFoundBlocks'
      BY <3>1 DEF pruneOldEntries
    <3>4. [hash |-> b, time |-> minute] \in recentlyFoundBlocks'
      <4>1. Recent([hash |-> b, time |-> minute])
        BY <2>0, PoolRegistryAssumption DEF Recent
      <4> QED BY <3>1, <4>1 DEF pruneOldEntries
    <3>5. ASSUME NEW c \in FoundBlocks PROVE foundAt'[c] <= minute' /\ Remembered(c)'
      <4>1. CASE c = b
        <5>1. foundAt'[c] = minute' /\ [hash |-> c, time |-> foundAt'[c]] \in recentlyFoundBlocks'
          BY <3>1, <3>2, <3>4, <4>1
        <5> QED BY <2>0, <3>1, <5>1 DEF Remembered
      <4>2. CASE c # b
        <5>1. minute' \in Nat /\ minute' >= minute /\ forgotten' = forgotten
          BY <2>0, <3>1
        <5>2. foundAt'[c] = foundAt[c]
          BY <3>2, <4>2
        <5> QED BY <3>3, <5>1, <5>2, StaysRemembered
      <4> QED BY <4>1, <4>2
    <3>6. ASSUME NEW r \in reports' PROVE r \in Explorers \X FoundBlocks /\ foundAt'[r[2]] # -1
      <4>1. CASE r \in reports
        <5>1. r \in Explorers \X FoundBlocks /\ r[2] \in FoundBlocks /\ foundAt[r[2]] # -1
          BY <4>1 DEF ReportsInv
        <5> QED BY <2>0, <3>2, <5>1
      <4>2. CASE r \in {<<e, b>> : e \in mempools}
        <5>1. PICK e \in mempools : r = <<e, b>>
          BY <4>2
        <5>2. e \in Explorers /\ r[2] = b
          BY <5>1 DEF ReportsInv
        <5> QED BY <2>0, <3>2, <5>1, <5>2
      <4> QED BY <3>1, <4>1, <4>2
    <3>7. mempools' \subseteq Explorers /\ cacheFile' \subseteq Explorers
      BY <3>1 DEF ReportsInv
    <3>8. reports' \subseteq Explorers \X FoundBlocks
      BY <3>6
    <3> QED BY <2>0, <3>1, <3>2, <3>5, <3>6, <3>7, <3>8 DEF ReportsInv
  <2>6. ASSUME NEW r \in reports, Callback(r) PROVE ReportsInv'
    <3>1. \A e \in recentlyFoundBlocks : Recent(e) => e \in recentlyFoundBlocks'
      BY <2>6 DEF Callback, pruneOldEntries
    <3>2. \A b \in FoundBlocks : foundAt'[b] <= minute' /\ Remembered(b)'
      BY <2>0, <2>6, <3>1, StaysRemembered DEF Callback
    <3> QED BY <2>6, <3>2 DEF Callback, ReportsInv
  <2>7. ASSUME NEW r \in reports, ReportLost(r) PROVE ReportsInv'
    BY <2>7 DEF ReportLost, ReportsInv, Remembered
  <2> QED BY <2>1, <2>2, <2>3, <2>4, <2>5, <2>6, <2>7 DEF PoolRegistryNext
<1> QED BY <1>1, <1>2, PTL DEF PoolRegistrySpec

\* A callback within the time allowed is answered with yes, unless the process restarted
\* since the block was found, however its map was pruned.
THEOREM ReportConfirmedThm == PoolRegistrySpec => ReportConfirmed
<1> DEFINE Confirmed == \A r \in denied' \ denied :
                          r[2] \in forgotten \/ minute - foundAt[r[2]] > RecentTtl
<1>1. ReportsInv /\ [PoolRegistryNext]_poolRegistryVars => [Confirmed]_poolRegistryVars
  <2> SUFFICES ASSUME ReportsInv, PoolRegistryNext, NEW r \in denied' \ denied
               PROVE  r[2] \in forgotten \/ minute - foundAt[r[2]] > RecentTtl
    OBVIOUS
  <2>1. denied' = denied \/ \E q \in reports : Callback(q)
    BY DEF PoolRegistryNext, refreshRegistry, RegistryUnreachable, RegistryRestarts, Minutes,
           RegistryAnswers, reportBlockFound, ReportLost
  <2>2. PICK q \in reports : Callback(q)
    BY <2>1
  <2>3. r = q /\ ~wasRecentlyFound(r[2])
    BY <2>2 DEF Callback
  <2>4. PICK b : b = r[2]
    OBVIOUS
  <2>5. /\ b \in FoundBlocks /\ foundAt[b] # -1 /\ foundAt[b] \in Int /\ minute \in Nat
        /\ RecentTtl \in Nat
    BY <2>3, <2>4, PoolRegistryAssumption DEF ReportsInv
  <2>6. CASE [hash |-> b, time |-> foundAt[b]] \in recentlyFoundBlocks
    <3>1. ~Recent([hash |-> b, time |-> foundAt[b]])
      BY <2>3, <2>4, <2>6 DEF wasRecentlyFound, pruneOldEntries
    <3> QED BY <2>4, <2>5, <3>1 DEF Recent
  <2> QED BY <2>4, <2>5, <2>6 DEF ReportsInv, Remembered
<1> QED BY <1>1, ReportsInvariance, PTL DEF PoolRegistrySpec, ReportConfirmed
=============================================================================
