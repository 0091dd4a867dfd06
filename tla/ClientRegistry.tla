--------------------------- MODULE ClientRegistry ---------------------------
(***************************************************************************)
(* What an accepted share does to the tables the dashboard shows: the row  *)
(* of its session (ClientService, with its batched INSERT), the best       *)
(* difficulty of the session and of its address, and how rows disappear    *)
(* again: destroy, killDeadClients, deleteOldClients.                      *)
(*                                                                         *)
(* All sessions are of one address.  A submission is one share being       *)
(* processed, from the write of its acknowledgement to the end of          *)
(* handleMiningSubmission; a database statement takes effect in the step   *)
(* that ends its await.  Times are ages in minutes, saturated at Old.      *)
(***************************************************************************)
EXTENDS Integers, Sequences, FiniteSets

CONSTANTS
  Sessions,          \* connections that have subscribed
  Submissions,       \* shares in progress at the same time
  ShareDifficulties, \* difficulties of accepted shares
  HeartbeatAfter,    \* a heartbeat at most every minute
  DeadAfter,         \* killDeadClients: five minutes
  KeepDeleted,       \* deleteOldClients: one day
  RegistryFaults,    \* {"db"}: statements may throw
  MaxSubmissions     \* bound: shares in all

ASSUME RegistryAssumption ==
  /\ Sessions # {}
  /\ ShareDifficulties \subseteq Nat \ {0}
  /\ HeartbeatAfter \in Nat /\ DeadAfter \in Nat /\ KeepDeleted \in Nat
  /\ HeartbeatAfter <= DeadAfter /\ DeadAfter <= KeepDeleted
  /\ RegistryFaults \subseteq {"db"}
  /\ MaxSubmissions \in Nat

VARIABLES
  conn,         \* the session's socket
  deleting,     \* sessions whose destroy awaits its softDelete
  insertQueue,  \* rows waiting for the next batch
  entity,       \* what the session holds in memory: creatingEntity and entity
  row,          \* client_entity: the session's row
  address,      \* address_settings_entity: the address's row
  submission,   \* the shares in progress
  submitted,    \* number of shares so far
  persisted     \* ghost: the best share whose updates all succeeded

registryVars == <<conn, deleting, insertQueue, entity, row, address, submission,
                  submitted, persisted>>

Old == KeepDeleted + 1
Age == 0..Old
Null == -1

ClientEntity == [exists : BOOLEAN, deletedAt : Age \cup {Null}, updatedAt : Age,
                 bestDifficulty : Nat]

\* state is that of the promise creatingEntity; the other fields are those of the
\* entity it resolves to.  An unknown updatedAt is as good as an old one.
SessionEntity == [state : {"none", "pending", "resolved", "rejected"},
                  bestDifficulty : Nat, updatedAt : Age]

SubmissionState == [pc : {"idle", "accepted", "creating", "addShares", "heartbeat",
                          "best", "insertAddress", "updateAddress"},
                    session : Sessions, difficulty : Nat, now : Age]

IdleSubmission == [pc |-> "idle", session |-> CHOOSE s \in Sessions : TRUE,
                   difficulty |-> 0, now |-> 0]

RegistryInit ==
  /\ conn = [s \in Sessions |-> "open"]
  /\ deleting = {}
  /\ insertQueue = << >>
  /\ entity = [s \in Sessions |-> [state |-> "none", bestDifficulty |-> 0, updatedAt |-> Old]]
  /\ row = [s \in Sessions |-> [exists |-> FALSE, deletedAt |-> Null, updatedAt |-> 0,
                                bestDifficulty |-> 0]]
  /\ address = [exists |-> FALSE, bestDifficulty |-> 0]
  /\ submission = [u \in Submissions |-> IdleSubmission]
  /\ submitted = 0
  /\ persisted = [session |-> [s \in Sessions |-> 0], address |-> 0]

Larger(a, b) == IF a >= b THEN a ELSE b
SessionOf(u) == submission[u].session
SetSubmission(u, r) == submission' = [submission EXCEPT ![u] = r]
ToPc(u, pc) == SetSubmission(u, [submission[u] EXCEPT !.pc = pc])
Done(u) == SetSubmission(u, IdleSubmission)
SetRow(s, r) == row' = [row EXCEPT ![s] = r]
MayThrow == "db" \in RegistryFaults

-----------------------------------------------------------------------------
(* The tail of handleMiningSubmission                                      *)

\* A share is acknowledged.  Logging it, and a block it may solve, take a while.
Share(u, s, d) ==
  /\ submission[u].pc = "idle"
  /\ conn[s] = "open"
  /\ submitted < MaxSubmissions
  /\ submitted' = submitted + 1
  /\ SetSubmission(u, [IdleSubmission EXCEPT !.pc = "accepted", !.session = s,
                                             !.difficulty = d])
  /\ UNCHANGED <<conn, deleting, insertQueue, entity, row, address, persisted>>

\* Mutant of ensureClientEntity: only the entity is checked, not its promise.
ensureClientEntityTwice(u) ==
  /\ submission[u].pc = "accepted"
  /\ IF entity[SessionOf(u)].state = "resolved"
     THEN ToPc(u, "addShares") /\ UNCHANGED <<insertQueue, entity>>
     ELSE /\ insertQueue' = Append(insertQueue, SessionOf(u))
          /\ entity' = [entity EXCEPT ![SessionOf(u)].state = "pending"]
          /\ ToPc(u, "creating")
  /\ UNCHANGED <<conn, deleting, row, address, submitted, persisted>>

\* The first share of a session queues its row; the others await the same promise.
ensureClientEntity(u) ==
  /\ submission[u].pc = "accepted"
  /\ \/ /\ entity[SessionOf(u)].state = "resolved"
        /\ ToPc(u, "addShares")
        /\ UNCHANGED <<insertQueue, entity>>
     \/ /\ entity[SessionOf(u)].state = "none"
        /\ insertQueue' = Append(insertQueue, SessionOf(u))
        /\ entity' = [entity EXCEPT ![SessionOf(u)].state = "pending"]
        /\ ToPc(u, "creating")
     \/ /\ entity[SessionOf(u)].state \in {"pending", "rejected"}
        /\ ToPc(u, "creating")
        /\ UNCHANGED <<insertQueue, entity>>
  /\ UNCHANGED <<conn, deleting, row, address, submitted, persisted>>

EntityReady(u) ==
  /\ submission[u].pc = "creating"
  /\ entity[SessionOf(u)].state = "resolved"
  /\ ToPc(u, "addShares")
  /\ UNCHANGED <<conn, deleting, insertQueue, entity, row, address, submitted, persisted>>

\* The promise is rejected: the exception reaches the loop over the messages, which
\* ends the socket.
EntityFailed(u) ==
  /\ submission[u].pc = "creating"
  /\ entity[SessionOf(u)].state = "rejected"
  /\ conn' = [conn EXCEPT ![SessionOf(u)] = IF @ = "open" THEN "ended" ELSE @]
  /\ Done(u)
  /\ UNCHANGED <<deleting, insertQueue, entity, row, address, submitted, persisted>>

\* After the statistics: persist a best share, or be done with it.
BestOrDone(u, r) ==
  IF r.difficulty > entity[r.session].bestDifficulty
  THEN SetSubmission(u, [r EXCEPT !.pc = "best"])
  ELSE Done(u)

\* addShares returned; a heartbeat is due when none was sent for a minute.
AddedShares(u) ==
  /\ submission[u].pc = "addShares"
  /\ IF entity[SessionOf(u)].updatedAt > HeartbeatAfter
     THEN SetSubmission(u, [submission[u] EXCEPT !.pc = "heartbeat", !.now = 0])
     ELSE BestOrDone(u, submission[u])
  /\ UNCHANGED <<conn, deleting, insertQueue, entity, row, address, submitted, persisted>>

\* Mutant of heartbeat: it does not revive a row killDeadClients has deleted.
heartbeatKeepsDeleted(u) ==
  LET s == SessionOf(u)
  IN  /\ submission[u].pc = "heartbeat"
      /\ IF row[s].exists
         THEN SetRow(s, [row[s] EXCEPT !.updatedAt = submission[u].now])
         ELSE UNCHANGED row
      /\ entity' = [entity EXCEPT ![s].updatedAt = submission[u].now]
      /\ BestOrDone(u, submission[u])
      /\ UNCHANGED <<conn, deleting, insertQueue, address, submitted, persisted>>

\* The UPDATE clears deletedAt as well; without a row it changes nothing.
heartbeat(u) ==
  LET s == SessionOf(u)
  IN  /\ submission[u].pc = "heartbeat"
      /\ IF row[s].exists
         THEN SetRow(s, [row[s] EXCEPT !.updatedAt = submission[u].now, !.deletedAt = Null])
         ELSE UNCHANGED row
      /\ entity' = [entity EXCEPT ![s].updatedAt = submission[u].now]
      /\ BestOrDone(u, submission[u])
      /\ UNCHANGED <<conn, deleting, insertQueue, address, submitted, persisted>>

\* addShares or the heartbeat throws: logged, and the share goes on.
StatisticsThrow(u) ==
  /\ MayThrow
  /\ submission[u].pc \in {"addShares", "heartbeat"}
  /\ BestOrDone(u, submission[u])
  /\ UNCHANGED <<conn, deleting, insertQueue, entity, row, address, submitted, persisted>>

\* Mutant of WithBest: updateBestDifficulty, without the comparison.
WithAnyBest(r, d) ==
  IF r.exists THEN [r EXCEPT !.bestDifficulty = d, !.updatedAt = 0] ELSE r

\* UPDATE ... SET bestDifficulty = d WHERE bestDifficulty < d; a QueryBuilder's
\* UPDATE also sets updatedAt.
WithBest(r, d) ==
  IF r.exists /\ r.bestDifficulty < d
  THEN [r EXCEPT !.bestDifficulty = d, !.updatedAt = 0]
  ELSE r

\* The session's row first, then the entity in memory.
updateBestDifficultyIfHigher(u) ==
  LET s == SessionOf(u)
      d == submission[u].difficulty
  IN  /\ submission[u].pc = "best"
      /\ SetRow(s, WithBest(row[s], d))
      /\ entity' = [entity EXCEPT ![s].bestDifficulty = d]
      /\ persisted' = [persisted EXCEPT !.session[s] = Larger(@, d)]
      /\ ToPc(u, "insertAddress")
      /\ UNCHANGED <<conn, deleting, insertQueue, address, submitted>>

\* Then the address's row: INSERT OR IGNORE ...
InsertAddressRow(u) ==
  /\ submission[u].pc = "insertAddress"
  /\ address' = [address EXCEPT !.exists = TRUE]
  /\ ToPc(u, "updateAddress")
  /\ UNCHANGED <<conn, deleting, insertQueue, entity, row, submitted, persisted>>

\* ... and an UPDATE with the same comparison.
UpdateAddressRow(u) ==
  LET d == submission[u].difficulty
  IN  /\ submission[u].pc = "updateAddress"
      /\ address' = [address EXCEPT !.bestDifficulty = Larger(@, d)]
      /\ persisted' = [persisted EXCEPT !.address = Larger(@, d)]
      /\ Done(u)
      /\ UNCHANGED <<conn, deleting, insertQueue, entity, row, submitted>>

\* One of the three throws: logged, and what was written stays.
BestThrows(u) ==
  /\ MayThrow
  /\ submission[u].pc \in {"best", "insertAddress", "updateAddress"}
  /\ Done(u)
  /\ UNCHANGED <<conn, deleting, insertQueue, entity, row, address, submitted, persisted>>

-----------------------------------------------------------------------------
(* ClientService and its timers                                            *)

InBatch(s) == \E i \in 1..Len(insertQueue) : insertQueue[i] = s

\* No row of the batch violates the primary key.
BatchFits ==
  /\ \A i, j \in 1..Len(insertQueue) : i # j => insertQueue[i] # insertQueue[j]
  /\ \A s \in Sessions : InBatch(s) => ~row[s].exists

\* The five-second timer inserts all queued rows in one statement and resolves
\* their promises.  Whether the driver returns the new updatedAt is left open.
insertClients ==
  /\ insertQueue # << >>
  /\ BatchFits
  /\ row' = [s \in Sessions |->
               IF InBatch(s)
               THEN [exists |-> TRUE, deletedAt |-> Null, updatedAt |-> 0, bestDifficulty |-> 0]
               ELSE row[s]]
  /\ \E known \in {0, Old} :
       entity' = [s \in Sessions |->
                    IF InBatch(s)
                    THEN [state |-> "resolved", bestDifficulty |-> 0, updatedAt |-> known]
                    ELSE entity[s]]
  /\ insertQueue' = << >>
  /\ UNCHANGED <<conn, deleting, address, submission, submitted, persisted>>

\* Mutant of InsertFails: the subjects of the batch are dropped without an error.
InsertForgets ==
  /\ MayThrow
  /\ insertQueue # << >>
  /\ insertQueue' = << >>
  /\ UNCHANGED <<conn, deleting, entity, row, address, submission, submitted, persisted>>

\* The statement throws: every session of the batch gets the error.
InsertFails ==
  /\ MayThrow
  /\ insertQueue # << >>
  /\ entity' = [s \in Sessions |->
                  IF InBatch(s) THEN [entity[s] EXCEPT !.state = "rejected"] ELSE entity[s]]
  /\ insertQueue' = << >>
  /\ UNCHANGED <<conn, deleting, row, address, submission, submitted, persisted>>

\* Mutant of Dead: rows already deleted are looked for.
DeadDeleted(r) == r.exists /\ r.deletedAt # Null /\ r.updatedAt > DeadAfter

Dead(r) == r.exists /\ r.deletedAt = Null /\ r.updatedAt > DeadAfter

killDeadClients ==
  /\ row' = [s \in Sessions |->
               IF Dead(row[s]) THEN [row[s] EXCEPT !.deletedAt = 0, !.updatedAt = 0]
                               ELSE row[s]]
  /\ UNCHANGED <<conn, deleting, insertQueue, entity, address, submission, submitted, persisted>>

deleteOldClients ==
  /\ row' = [s \in Sessions |->
               IF row[s].deletedAt > KeepDeleted
               THEN [exists |-> FALSE, deletedAt |-> Null, updatedAt |-> 0, bestDifficulty |-> 0]
               ELSE row[s]]
  /\ UNCHANGED <<conn, deleting, insertQueue, entity, address, submission, submitted, persisted>>

\* A block is found: resetBestDifficultyAndShares.
resetBestDifficultyAndShares ==
  /\ address' = [address EXCEPT !.bestDifficulty = 0]
  /\ persisted' = [persisted EXCEPT !.address = 0]
  /\ UNCHANGED <<conn, deleting, insertQueue, entity, row, submission, submitted>>

\* The socket is closed; destroy starts the softDelete of the session's row.
destroy(s) ==
  /\ conn[s] # "closed"
  /\ conn' = [conn EXCEPT ![s] = "closed"]
  /\ deleting' = deleting \cup {s}
  /\ UNCHANGED <<insertQueue, entity, row, address, submission, submitted, persisted>>

softDelete(s) ==
  /\ s \in deleting
  /\ deleting' = deleting \ {s}
  /\ IF row[s].exists
     THEN SetRow(s, [row[s] EXCEPT !.deletedAt = 0, !.updatedAt = 0])
     ELSE UNCHANGED row
  /\ UNCHANGED <<conn, insertQueue, entity, address, submission, submitted, persisted>>

\* It throws: caught by destroy.
SoftDeleteFails(s) ==
  /\ MayThrow
  /\ s \in deleting
  /\ deleting' = deleting \ {s}
  /\ UNCHANGED <<conn, insertQueue, entity, row, address, submission, submitted, persisted>>

Older(a) == IF a = Null \/ a = Old THEN a ELSE a + 1

\* A minute passes.
Minute ==
  /\ row' = [s \in Sessions |-> [row[s] EXCEPT !.updatedAt = Older(@), !.deletedAt = Older(@)]]
  /\ entity' = [s \in Sessions |-> [entity[s] EXCEPT !.updatedAt = Older(@)]]
  /\ submission' = [u \in Submissions |->
                      IF submission[u].pc = "heartbeat"
                      THEN [submission[u] EXCEPT !.now = Older(@)] ELSE submission[u]]
  /\ UNCHANGED <<conn, deleting, insertQueue, address, submitted, persisted>>

-----------------------------------------------------------------------------
SubmissionStep(u) ==
  \/ ensureClientEntity(u) \/ EntityReady(u) \/ EntityFailed(u)
  \/ AddedShares(u) \/ heartbeat(u) \/ StatisticsThrow(u)
  \/ updateBestDifficultyIfHigher(u) \/ InsertAddressRow(u) \/ UpdateAddressRow(u)
  \/ BestThrows(u)

Flush == insertClients \/ InsertFails

RegistryNext ==
  \/ \E u \in Submissions :
       \/ \E s \in Sessions, d \in ShareDifficulties : Share(u, s, d)
       \/ SubmissionStep(u)
  \/ Flush
  \/ killDeadClients \/ deleteOldClients \/ resetBestDifficultyAndShares
  \/ \E s \in Sessions : destroy(s) \/ softDelete(s) \/ SoftDeleteFails(s)
  \/ Minute

RegistrySpec == RegistryInit /\ [][RegistryNext]_registryVars

-----------------------------------------------------------------------------
(* Properties                                                              *)

\* The type invariant of the tables and of what the sessions hold of them.
RegistryTypeOK ==
  /\ conn \in [Sessions -> {"open", "ended", "closed"}]
  /\ deleting \subseteq Sessions
  /\ insertQueue \in Seq(Sessions)
  /\ entity \in [Sessions -> SessionEntity]
  /\ row \in [Sessions -> ClientEntity]
  /\ address \in [exists : BOOLEAN, bestDifficulty : Nat]
  /\ submission \in [Submissions -> SubmissionState]
  /\ submitted \in Nat
  /\ persisted \in [session : [Sessions -> Nat], address : Nat]

Visible(s) == row[s].exists /\ row[s].deletedAt = Null

\* However many shares of a session are in progress, its row is queued once: one
\* session cannot make the INSERT of a whole batch fail on its primary key.
InsertedOnce == BatchFits

\* A connected session that sent a heartbeat (or was inserted) less than five
\* minutes ago is shown, although killDeadClients may have deleted its row before.
\* A row that stayed deleted for a day is removed for good; such a session is not covered.
LiveSessionShown ==
  \A s \in Sessions :
    conn[s] # "closed" /\ row[s].exists /\ entity[s].state = "resolved"
      /\ entity[s].updatedAt <= DeadAfter => Visible(s)

\* Two shares, of one session or of two, may be persisted in any order: the tables
\* keep the better one.
BestShareKept ==
  /\ \A s \in Sessions : row[s].exists => row[s].bestDifficulty >= persisted.session[s]
  /\ address.bestDifficulty >= persisted.address

\* A share that is being processed comes to an end, also when its session's row is
\* in a batch that fails.
SubmissionsEnd ==
  \A u \in Submissions : submission[u].pc # "idle" ~> submission[u].pc = "idle"

\* A closed session disappears for good, even if its row is inserted, or revived by
\* a heartbeat, after destroy deleted it, or if that deletion failed.
ClosedSessionVanishes ==
  \A s \in Sessions : conn[s] = "closed" ~> [](~Visible(s))

-----------------------------------------------------------------------------
(* The inductive invariant behind InsertedOnce, LiveSessionShown and       *)
(* BestShareKept.                                                          *)

\* A row exists only for a session whose promise was resolved, a best share was
\* persisted only after that, and the row's updatedAt is never behind the one the
\* session remembers, which is what killDeadClients goes by.
RowGood(s) ==
  /\ row[s].exists => entity[s].state = "resolved"
  /\ entity[s].state # "resolved" => persisted.session[s] = 0
  /\ row[s].exists => row[s].bestDifficulty >= persisted.session[s]
  /\ conn[s] # "closed" /\ row[s].exists =>
       /\ row[s].updatedAt <= entity[s].updatedAt
       /\ Visible(s) \/ entity[s].updatedAt > DeadAfter
  /\ s \in deleting => conn[s] = "closed"

\* Only sessions whose promise is pending are queued, each once.
QueueGood ==
  /\ \A i \in 1..Len(insertQueue) : entity[insertQueue[i]].state = "pending"
  /\ \A i, j \in 1..Len(insertQueue) : i # j => insertQueue[i] # insertQueue[j]

\* A share past ensureClientEntity has its session's entity.
SubmissionGood(u) ==
  submission[u].pc \notin {"idle", "accepted", "creating"} =>
    entity[SessionOf(u)].state = "resolved"

RegistryInv ==
  /\ \A s \in Sessions : RowGood(s)
  /\ QueueGood
  /\ \A u \in Submissions : SubmissionGood(u)
  /\ address.bestDifficulty >= persisted.address
=============================================================================
