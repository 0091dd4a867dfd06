------------------------ MODULE ClientRegistryProofs ------------------------
(***************************************************************************)
(* Theorems about ClientRegistry, for every number of sessions and of      *)
(* shares in progress, every timeout, and with failing statements or not.  *)
(***************************************************************************)
EXTENDS ClientRegistry, SequenceTheorems, TLAPS

-----------------------------------------------------------------------------
(* Frames                                                                  *)

\* Ages: growing older keeps their order and passes every limit in the end.
LEMMA Ages ==
  /\ Old \in Nat /\ KeepDeleted < Old /\ DeadAfter < Old /\ 0 \in Age /\ Old \in Age
  /\ \A a \in Age \cup {Null} : Older(a) \in Age \cup {Null}
  /\ \A a \in Age : a \in Nat /\ Older(a) \in Age /\ a <= Older(a)
  /\ \A a, b \in Age : a <= b => Older(a) <= Older(b)
  /\ \A a \in Age \cup {Null} : Older(a) = Null <=> a = Null
  /\ \A a \in Age : a > DeadAfter => Older(a) > DeadAfter
BY RegistryAssumption DEF Old, Age, Older, Null

\* A submission slot that is not in use.
LEMMA IdleType == IdleSubmission \in SubmissionState /\ IdleSubmission.pc = "idle"
<1>1. (CHOOSE s \in Sessions : TRUE) \in Sessions
  BY RegistryAssumption
<1> QED BY <1>1, Ages DEF IdleSubmission, SubmissionState

\* A session none of whose records changed.
LEMMA RowSame ==
  ASSUME NEW s \in Sessions, RowGood(s), row'[s] = row[s], entity'[s] = entity[s],
         conn'[s] = conn[s], persisted'.session[s] = persisted.session[s],
         s \in deleting' => s \in deleting
  PROVE  RowGood(s)'
BY DEF RowGood, Visible

\* A step that moves one share keeps the others, as promises stay resolved.
LEMMA SubmissionFrame ==
  ASSUME RegistryTypeOK, RegistryInv, NEW u \in Submissions, NEW r \in SubmissionState,
         SetSubmission(u, r),
         r.pc \notin {"idle", "accepted", "creating"} => entity'[r.session].state = "resolved",
         \A s \in Sessions : entity[s].state = "resolved" => entity'[s].state = "resolved"
  PROVE  /\ submission' \in [Submissions -> SubmissionState]
         /\ \A v \in Submissions : SubmissionGood(v)'
<1>1. submission \in [Submissions -> SubmissionState] /\ submission' = [submission EXCEPT ![u] = r]
  BY DEF RegistryTypeOK, SetSubmission
<1>2. submission'[u] = r /\ \A v \in Submissions : v # u => submission'[v] = submission[v]
  BY <1>1
<1>3. \A v \in Submissions : submission[v].session \in Sessions
  BY <1>1 DEF SubmissionState
<1>4. ASSUME NEW v \in Submissions PROVE SubmissionGood(v)'
  BY <1>2, <1>3 DEF SubmissionGood, SessionOf, RegistryInv
<1> QED BY <1>1, <1>4

\* A step that leaves the shares alone, likewise.
LEMMA SubmissionsSame ==
  ASSUME RegistryTypeOK, RegistryInv, UNCHANGED submission,
         \A s \in Sessions : entity[s].state = "resolved" => entity'[s].state = "resolved"
  PROVE  \A v \in Submissions : SubmissionGood(v)'
<1>1. \A v \in Submissions : submission[v].session \in Sessions
  BY DEF RegistryTypeOK, SubmissionState
<1> QED BY <1>1 DEF SubmissionGood, SessionOf, RegistryInv

\* A step that moves one share and changes nothing else but the count of shares.
LEMMA SubmissionOnly ==
  ASSUME RegistryTypeOK, RegistryInv, NEW u \in Submissions, NEW r \in SubmissionState,
         SetSubmission(u, r), submitted' \in Nat,
         r.pc \notin {"idle", "accepted", "creating"} => entity[r.session].state = "resolved",
         UNCHANGED <<conn, deleting, insertQueue, entity, row, address, persisted>>
  PROVE  RegistryTypeOK' /\ RegistryInv'
<1>1. /\ submission' \in [Submissions -> SubmissionState]
      /\ \A v \in Submissions : SubmissionGood(v)'
  BY SubmissionFrame
<1>2. RegistryTypeOK'
  BY <1>1 DEF RegistryTypeOK
<1>3. \A s \in Sessions : RowGood(s)'
  BY RowSame DEF RegistryInv
<1> QED BY <1>1, <1>2, <1>3 DEF RegistryInv, QueueGood

\* What the end of the statistics makes of a share.
LEMMA BestOrDoneIs ==
  ASSUME RegistryTypeOK, NEW u \in Submissions, BestOrDone(u, submission[u])
  PROVE  \E r \in SubmissionState :
           SetSubmission(u, r) /\ (r.pc # "idle" => r.session = SessionOf(u))
<1>1. submission[u] \in SubmissionState
  BY DEF RegistryTypeOK
<1>2. [submission[u] EXCEPT !.pc = "best"] \in SubmissionState
      /\ [submission[u] EXCEPT !.pc = "best"].session = SessionOf(u)
  BY <1>1 DEF SubmissionState, SessionOf
<1> QED BY <1>2, IdleType DEF BestOrDone, Done

\* ToPc in terms of the record it leaves.
LEMMA ToPcIs ==
  ASSUME RegistryTypeOK, NEW u \in Submissions,
         NEW pc \in {"creating", "addShares", "insertAddress", "updateAddress"}, ToPc(u, pc)
  PROVE  \E r \in SubmissionState : SetSubmission(u, r) /\ r.pc = pc /\ r.session = SessionOf(u)
<1>1. submission[u] \in SubmissionState
  BY DEF RegistryTypeOK
<1>2. PICK r : r = [submission[u] EXCEPT !.pc = pc]
  OBVIOUS
<1>3. r \in SubmissionState /\ r.pc = pc /\ r.session = SessionOf(u)
  BY <1>1, <1>2 DEF SubmissionState, SessionOf
<1> QED BY <1>2, <1>3 DEF ToPc

-----------------------------------------------------------------------------
(* The steps of a share                                                    *)

\* A share enters the handler.
LEMMA ShareInv ==
  ASSUME RegistryTypeOK, RegistryInv, NEW u \in Submissions, NEW s \in Sessions,
         NEW d \in ShareDifficulties, Share(u, s, d)
  PROVE  RegistryTypeOK' /\ RegistryInv'
<1>1. PICK r : r = [IdleSubmission EXCEPT !.pc = "accepted", !.session = s, !.difficulty = d]
  OBVIOUS
<1>2. r \in SubmissionState /\ r.pc = "accepted"
  BY <1>1, IdleType, RegistryAssumption DEF SubmissionState
<1>3. submitted' \in Nat
  BY DEF Share, RegistryTypeOK
<1>4. SetSubmission(u, r) /\ UNCHANGED <<conn, deleting, insertQueue, entity, row, address, persisted>>
  BY <1>1 DEF Share
<1> QED BY <1>2, <1>3, <1>4, SubmissionOnly

\* The first share of a session queues it and makes its promise pending.
LEMMA QueuedInv ==
  ASSUME RegistryTypeOK, RegistryInv, NEW u \in Submissions, NEW q, q = SessionOf(u),
         entity[q].state = "none", insertQueue' = Append(insertQueue, q),
         entity' = [entity EXCEPT ![q].state = "pending"], ToPc(u, "creating"),
         UNCHANGED <<conn, deleting, row, address, submitted, persisted>>
  PROVE  RegistryTypeOK' /\ RegistryInv'
<1>0. /\ q \in Sessions /\ entity \in [Sessions -> SessionEntity] /\ insertQueue \in Seq(Sessions)
      /\ Len(insertQueue) \in Nat /\ entity[q] \in SessionEntity
  BY LenProperties DEF RegistryTypeOK, SessionOf, SubmissionState
<1>1. PICK e : e = [entity[q] EXCEPT !.state = "pending"]
  OBVIOUS
<1>2. e \in SessionEntity /\ e.state = "pending"
  BY <1>0, <1>1 DEF SessionEntity
<1>3. entity' = [entity EXCEPT ![q] = e]
  BY <1>1
<1>4. /\ entity' \in [Sessions -> SessionEntity] /\ entity'[q] = e
      /\ \A s \in Sessions : s # q => entity'[s] = entity[s]
  BY <1>0, <1>2, <1>3
<1>5. /\ insertQueue' \in Seq(Sessions) /\ Len(insertQueue') = Len(insertQueue) + 1
      /\ insertQueue'[Len(insertQueue) + 1] = q
      /\ \A i \in 1..Len(insertQueue) : insertQueue'[i] = insertQueue[i]
      /\ \A i \in 1..Len(insertQueue) : insertQueue[i] \in Sessions
  BY <1>0
<1>6. /\ submission' \in [Submissions -> SubmissionState]
      /\ \A v \in Submissions : SubmissionGood(v)'
  <2>1. PICK r \in SubmissionState : SetSubmission(u, r) /\ r.pc = "creating"
    BY ToPcIs
  <2>2. \A s \in Sessions : entity[s].state = "resolved" => entity'[s].state = "resolved"
    BY <1>4
  <2> QED BY <2>1, <2>2, SubmissionFrame
<1>7. RegistryTypeOK'
  BY <1>4, <1>5, <1>6 DEF RegistryTypeOK
<1>8. ASSUME NEW s \in Sessions PROVE RowGood(s)'
  <2>1. RowGood(s)
    BY DEF RegistryInv
  <2>2. CASE s = q
    BY <1>2, <1>4, <2>1, <2>2 DEF RowGood
  <2>3. CASE s # q
    BY <1>4, <2>1, <2>3, RowSame
  <2> QED BY <2>2, <2>3
<1>9. QueueGood'
  <2>1. \A i \in 1..Len(insertQueue) :
          insertQueue[i] # q /\ entity[insertQueue[i]].state = "pending"
    BY DEF RegistryInv, QueueGood
  <2>2. 1..Len(insertQueue') = (1..Len(insertQueue)) \cup {Len(insertQueue) + 1}
    BY <1>0, <1>5
  <2>3. \A i \in 1..Len(insertQueue') : entity'[insertQueue'[i]].state = "pending"
    BY <1>2, <1>4, <1>5, <2>1, <2>2
  <2>4. \A i, j \in 1..Len(insertQueue') : i # j => insertQueue'[i] # insertQueue'[j]
    BY <1>5, <2>1, <2>2 DEF RegistryInv, QueueGood
  <2> QED BY <2>3, <2>4 DEF QueueGood
<1> QED BY <1>6, <1>7, <1>8, <1>9 DEF RegistryInv

\* The session looks for its row, and leaves an insert of it to the queue.
LEMMA EnsureInv ==
  ASSUME RegistryTypeOK, RegistryInv, NEW u \in Submissions, ensureClientEntity(u)
  PROVE  RegistryTypeOK' /\ RegistryInv'
<1>1. CASE entity[SessionOf(u)].state = "resolved" /\ ToPc(u, "addShares")
           /\ UNCHANGED <<insertQueue, entity>>
  <2>1. PICK r \in SubmissionState : SetSubmission(u, r) /\ r.pc = "addShares"
                                     /\ r.session = SessionOf(u)
    BY <1>1, ToPcIs
  <2>2. submitted' \in Nat /\ UNCHANGED <<conn, deleting, insertQueue, entity, row, address, persisted>>
    BY <1>1 DEF ensureClientEntity, RegistryTypeOK
  <2> QED BY <1>1, <2>1, <2>2, SubmissionOnly
<1>2. CASE entity[SessionOf(u)].state = "none"
           /\ insertQueue' = Append(insertQueue, SessionOf(u))
           /\ entity' = [entity EXCEPT ![SessionOf(u)].state = "pending"]
           /\ ToPc(u, "creating")
  <2>1. PICK q : q = SessionOf(u)
    OBVIOUS
  <2>2. UNCHANGED <<conn, deleting, row, address, submitted, persisted>>
    BY DEF ensureClientEntity
  <2> QED BY <1>2, <2>1, <2>2, QueuedInv
<1>3. CASE ToPc(u, "creating") /\ UNCHANGED <<insertQueue, entity>>
  <2>1. PICK r \in SubmissionState : SetSubmission(u, r) /\ r.pc = "creating"
    BY <1>3, ToPcIs
  <2>2. submitted' \in Nat /\ UNCHANGED <<conn, deleting, insertQueue, entity, row, address, persisted>>
    BY <1>3 DEF ensureClientEntity, RegistryTypeOK
  <2> QED BY <2>1, <2>2, SubmissionOnly
<1> QED BY <1>1, <1>2, <1>3 DEF ensureClientEntity

\* The share finds that its session has no row, and ends the session.
LEMMA EntityFailedInv ==
  ASSUME RegistryTypeOK, RegistryInv, NEW u \in Submissions, EntityFailed(u)
  PROVE  RegistryTypeOK' /\ RegistryInv'
<1>1. /\ conn \in [Sessions -> {"open", "ended", "closed"}]
      /\ conn' = [conn EXCEPT ![SessionOf(u)] = IF @ = "open" THEN "ended" ELSE @]
      /\ SetSubmission(u, IdleSubmission)
      /\ UNCHANGED <<deleting, insertQueue, entity, row, address, submitted, persisted>>
  BY DEF RegistryTypeOK, EntityFailed, Done
<1>2. /\ conn' \in [Sessions -> {"open", "ended", "closed"}]
      /\ \A s \in Sessions : conn'[s] = "closed" <=> conn[s] = "closed"
  BY <1>1
<1>3. /\ submission' \in [Submissions -> SubmissionState]
      /\ \A v \in Submissions : SubmissionGood(v)'
  BY <1>1, IdleType, SubmissionFrame
<1>4. RegistryTypeOK'
  BY <1>1, <1>2, <1>3 DEF RegistryTypeOK
<1>5. \A s \in Sessions : RowGood(s)'
  BY <1>1, <1>2 DEF RegistryInv, RowGood, Visible
<1> QED BY <1>1, <1>3, <1>4, <1>5 DEF RegistryInv, QueueGood

\* The row is touched, with the best difficulty of its session.
LEMMA HeartbeatInv ==
  ASSUME RegistryTypeOK, RegistryInv, NEW u \in Submissions, heartbeat(u)
  PROVE  RegistryTypeOK' /\ RegistryInv'
<1>0. PICK q : q = SessionOf(u)
  OBVIOUS
<1>1. PICK now : now = submission[u].now
  OBVIOUS
<1>2. /\ q \in Sessions /\ now \in Age /\ row \in [Sessions -> ClientEntity]
      /\ entity \in [Sessions -> SessionEntity] /\ row[q] \in ClientEntity
      /\ entity[q] \in SessionEntity
  BY <1>0, <1>1 DEF RegistryTypeOK, SubmissionState, SessionOf
<1>3. PICK e : e = [entity[q] EXCEPT !.updatedAt = now]
  OBVIOUS
<1>4. e \in SessionEntity /\ e.updatedAt = now /\ e.state = entity[q].state
  BY <1>2, <1>3 DEF SessionEntity
<1>5. PICK r : r = IF row[q].exists THEN [row[q] EXCEPT !.updatedAt = now, !.deletedAt = Null]
                                    ELSE row[q]
  OBVIOUS
<1>6. /\ r \in ClientEntity /\ r.exists = row[q].exists /\ r.bestDifficulty = row[q].bestDifficulty
      /\ r.exists => r.updatedAt = now /\ r.deletedAt = Null
  BY <1>2, <1>5 DEF ClientEntity
<1>7. /\ row' = [row EXCEPT ![q] = r] /\ entity' = [entity EXCEPT ![q] = e]
      /\ UNCHANGED <<conn, deleting, insertQueue, address, submitted, persisted>>
  <2>1. entity' = [entity EXCEPT ![q] = e]
        /\ UNCHANGED <<conn, deleting, insertQueue, address, submitted, persisted>>
    BY <1>0, <1>1, <1>3 DEF heartbeat
  <2>2. row' = [row EXCEPT ![q] = r]
    <3>1. CASE row[q].exists
      BY <1>0, <1>1, <1>5, <3>1 DEF heartbeat, SetRow
    <3>2. CASE ~row[q].exists
      BY <1>0, <1>2, <1>5, <3>2 DEF heartbeat
    <3> QED BY <3>1, <3>2
  <2> QED BY <2>1, <2>2
<1>8. /\ row' \in [Sessions -> ClientEntity] /\ entity' \in [Sessions -> SessionEntity]
      /\ row'[q] = r /\ entity'[q] = e
      /\ \A s \in Sessions : s # q => row'[s] = row[s] /\ entity'[s] = entity[s]
      /\ \A s \in Sessions : entity'[s].state = entity[s].state
  BY <1>2, <1>4, <1>6, <1>7
<1>9. /\ submission' \in [Submissions -> SubmissionState]
      /\ \A v \in Submissions : SubmissionGood(v)'
  <2>1. PICK t \in SubmissionState : SetSubmission(u, t) /\ (t.pc # "idle" => t.session = q)
    BY <1>0, BestOrDoneIs DEF heartbeat
  <2>2. entity[q].state = "resolved"
    BY <1>0 DEF RegistryInv, SubmissionGood, heartbeat
  <2> QED BY <1>2, <1>8, <2>1, <2>2, SubmissionFrame
<1>10. RegistryTypeOK'
  BY <1>7, <1>8, <1>9 DEF RegistryTypeOK
<1>11. ASSUME NEW s \in Sessions PROVE RowGood(s)'
  <2>1. RowGood(s)
    BY DEF RegistryInv
  <2>2. CASE s = q
    <3>1. now <= now
      BY <1>2, Ages
    <3> QED BY <1>4, <1>6, <1>7, <1>8, <2>1, <2>2, <3>1 DEF RowGood, Visible
  <2>3. CASE s # q
    BY <1>7, <1>8, <2>1, <2>3, RowSame
  <2> QED BY <2>2, <2>3
<1>12. QueueGood'
  <2>1. \A i \in 1..Len(insertQueue) : insertQueue[i] \in Sessions
    BY DEF RegistryTypeOK
  <2> QED BY <1>7, <1>8, <2>1 DEF RegistryInv, QueueGood
<1> QED BY <1>7, <1>9, <1>10, <1>11, <1>12 DEF RegistryInv

\* updateBestDifficultyIfHigher raises the row and the entity of the session.
LEMMA UpdateBestInv ==
  ASSUME RegistryTypeOK, RegistryInv, NEW u \in Submissions, updateBestDifficultyIfHigher(u)
  PROVE  RegistryTypeOK' /\ RegistryInv'
<1>0. PICK q : q = SessionOf(u)
  OBVIOUS
<1>1. PICK d : d = submission[u].difficulty
  OBVIOUS
<1>2. /\ q \in Sessions /\ d \in Nat /\ row \in [Sessions -> ClientEntity]
      /\ entity \in [Sessions -> SessionEntity] /\ row[q] \in ClientEntity
      /\ entity[q] \in SessionEntity /\ persisted \in [session : [Sessions -> Nat], address : Nat]
      /\ persisted.session \in [Sessions -> Nat]
  BY <1>0, <1>1 DEF RegistryTypeOK, SubmissionState, SessionOf
<1>3. PICK e : e = [entity[q] EXCEPT !.bestDifficulty = d]
  OBVIOUS
<1>4. e \in SessionEntity /\ e.updatedAt = entity[q].updatedAt /\ e.state = entity[q].state
  BY <1>2, <1>3 DEF SessionEntity
<1>5. PICK r : r = WithBest(row[q], d)
  OBVIOUS
<1>6. /\ r \in ClientEntity /\ r.exists = row[q].exists /\ r.deletedAt = row[q].deletedAt
      /\ r.updatedAt = row[q].updatedAt \/ r.updatedAt = 0
      /\ r.exists => r.bestDifficulty >= d /\ r.bestDifficulty >= row[q].bestDifficulty
  <2>1. 0 \in Age
    BY Ages
  <2>2. PICK w : w = row[q]
    OBVIOUS
  <2>3. w \in ClientEntity /\ w.bestDifficulty \in Nat
    BY <1>2, <2>2 DEF ClientEntity
  <2>4. CASE w.exists /\ w.bestDifficulty < d
    <3>1. r = [w EXCEPT !.bestDifficulty = d, !.updatedAt = 0]
      BY <1>5, <2>2, <2>4 DEF WithBest
    <3>2. /\ r \in ClientEntity /\ r.exists = w.exists /\ r.deletedAt = w.deletedAt
          /\ r.updatedAt = 0 /\ r.bestDifficulty = d
      BY <1>2, <2>1, <2>3, <3>1 DEF ClientEntity
    <3>3. d >= d /\ d >= w.bestDifficulty
      BY <1>2, <2>3, <2>4
    <3> QED BY <2>2, <3>2, <3>3
  <2>5. CASE ~(w.exists /\ w.bestDifficulty < d)
    BY <1>2, <1>5, <2>2, <2>3, <2>5 DEF WithBest
  <2> QED BY <2>4, <2>5
<1>7. PICK b : b = Larger(persisted.session[q], d)
  OBVIOUS
<1>8. b \in Nat /\ b \in {d, persisted.session[q]} /\ persisted.session[q] \in Nat
  BY <1>2, <1>7 DEF Larger
<1>9. /\ row' = [row EXCEPT ![q] = r] /\ entity' = [entity EXCEPT ![q] = e]
      /\ persisted' = [persisted EXCEPT !.session[q] = b] /\ ToPc(u, "insertAddress")
      /\ UNCHANGED <<conn, deleting, insertQueue, address, submitted>>
  BY <1>0, <1>1, <1>3, <1>5, <1>7 DEF updateBestDifficultyIfHigher, SetRow
<1>10. /\ row' \in [Sessions -> ClientEntity] /\ entity' \in [Sessions -> SessionEntity]
       /\ row'[q] = r /\ entity'[q] = e
       /\ \A s \in Sessions : s # q => row'[s] = row[s] /\ entity'[s] = entity[s]
       /\ \A s \in Sessions : entity'[s].state = entity[s].state
  BY <1>2, <1>4, <1>6, <1>9
<1>11. /\ persisted' \in [session : [Sessions -> Nat], address : Nat]
       /\ persisted'.address = persisted.address /\ persisted'.session[q] = b
       /\ \A s \in Sessions : s # q => persisted'.session[s] = persisted.session[s]
  BY <1>2, <1>8, <1>9
<1>12. entity[q].state = "resolved"
  BY <1>0 DEF RegistryInv, SubmissionGood, updateBestDifficultyIfHigher
<1>13. /\ submission' \in [Submissions -> SubmissionState]
       /\ \A v \in Submissions : SubmissionGood(v)'
  <2>1. PICK t \in SubmissionState : SetSubmission(u, t) /\ t.session = q
    BY <1>0, <1>9, ToPcIs
  <2> QED BY <1>2, <1>10, <1>12, <2>1, SubmissionFrame
<1>14. RegistryTypeOK'
  BY <1>9, <1>10, <1>11, <1>13 DEF RegistryTypeOK
<1>15. ASSUME NEW s \in Sessions PROVE RowGood(s)'
  <2>1. RowGood(s)
    BY DEF RegistryInv
  <2>2. CASE s = q
    <3>1. entity[q].updatedAt \in Nat /\ row[q].updatedAt \in Nat /\ row[q].bestDifficulty \in Nat
          /\ r.bestDifficulty \in Nat
      BY <1>2, <1>6, Ages DEF ClientEntity, SessionEntity
    <3>2. r.exists => r.bestDifficulty >= b
      BY <1>2, <1>6, <1>8, <2>1, <2>2, <3>1 DEF RowGood
    <3>3. conn[q] # "closed" /\ r.exists => r.updatedAt <= e.updatedAt
      BY <1>4, <1>6, <2>1, <2>2, <3>1 DEF RowGood
    <3> QED BY <1>4, <1>6, <1>9, <1>10, <1>11, <1>12, <2>1, <2>2, <3>2, <3>3 DEF RowGood, Visible
  <2>3. CASE s # q
    BY <1>9, <1>10, <1>11, <2>1, <2>3, RowSame
  <2> QED BY <2>2, <2>3
<1>16. QueueGood'
  <2>1. \A i \in 1..Len(insertQueue) : insertQueue[i] \in Sessions
    BY DEF RegistryTypeOK
  <2> QED BY <1>9, <1>10, <2>1 DEF RegistryInv, QueueGood
<1> QED BY <1>9, <1>11, <1>13, <1>14, <1>15, <1>16 DEF RegistryInv

\* A step that writes the address's row, and perhaps moves a share.
LEMMA AddressInv ==
  ASSUME RegistryTypeOK, RegistryInv, address' \in [exists : BOOLEAN, bestDifficulty : Nat],
         persisted' \in [session : [Sessions -> Nat], address : Nat],
         persisted'.session = persisted.session,
         address'.bestDifficulty >= persisted'.address,
         submission' \in [Submissions -> SubmissionState],
         \A v \in Submissions : SubmissionGood(v)',
         UNCHANGED <<conn, deleting, insertQueue, entity, row, submitted>>
  PROVE  RegistryTypeOK' /\ RegistryInv'
<1>1. RegistryTypeOK'
  BY DEF RegistryTypeOK
<1>2. \A s \in Sessions : RowGood(s)'
  BY RowSame DEF RegistryInv
<1> QED BY <1>1, <1>2 DEF RegistryInv, QueueGood

\* The row of the address is inserted if missing, and raised to a better share.
LEMMA AddressStepsInv ==
  ASSUME RegistryTypeOK, RegistryInv, NEW u \in Submissions,
         InsertAddressRow(u) \/ UpdateAddressRow(u)
  PROVE  RegistryTypeOK' /\ RegistryInv'
<1>0. /\ address \in [exists : BOOLEAN, bestDifficulty : Nat]
      /\ persisted \in [session : [Sessions -> Nat], address : Nat]
      /\ address.bestDifficulty >= persisted.address
  BY DEF RegistryTypeOK, RegistryInv
<1>1. CASE InsertAddressRow(u)
  <2>1. /\ address' = [address EXCEPT !.exists = TRUE] /\ ToPc(u, "updateAddress")
        /\ UNCHANGED <<conn, deleting, insertQueue, entity, row, submitted, persisted>>
        /\ submission[u].pc = "insertAddress"
    BY <1>1 DEF InsertAddressRow
  <2>2. /\ address' \in [exists : BOOLEAN, bestDifficulty : Nat]
        /\ address'.bestDifficulty = address.bestDifficulty
    BY <1>0, <2>1
  <2>3. PICK t \in SubmissionState : SetSubmission(u, t) /\ t.session = SessionOf(u)
    BY <2>1, ToPcIs
  <2>4. entity[SessionOf(u)].state = "resolved"
    BY <2>1 DEF RegistryInv, SubmissionGood
  <2>5. /\ submission' \in [Submissions -> SubmissionState]
        /\ \A v \in Submissions : SubmissionGood(v)'
    BY <2>1, <2>3, <2>4, SubmissionFrame
  <2> QED BY <1>0, <2>1, <2>2, <2>5, AddressInv
<1>2. CASE UpdateAddressRow(u)
  <2>0. PICK d : d = submission[u].difficulty
    OBVIOUS
  <2>1. /\ address' = [address EXCEPT !.bestDifficulty = Larger(@, d)]
        /\ persisted' = [persisted EXCEPT !.address = Larger(@, d)]
        /\ SetSubmission(u, IdleSubmission)
        /\ UNCHANGED <<conn, deleting, insertQueue, entity, row, submitted>>
    BY <1>2, <2>0 DEF UpdateAddressRow, Done
  <2>2. d \in Nat
    BY <2>0 DEF RegistryTypeOK, SubmissionState
  <2>3. /\ Larger(address.bestDifficulty, d) \in Nat /\ Larger(persisted.address, d) \in Nat
        /\ Larger(address.bestDifficulty, d) >= Larger(persisted.address, d)
    BY <1>0, <2>2 DEF Larger
  <2>4. /\ address' \in [exists : BOOLEAN, bestDifficulty : Nat]
        /\ address'.bestDifficulty = Larger(address.bestDifficulty, d)
    BY <1>0, <2>1, <2>3
  <2>5. /\ persisted' \in [session : [Sessions -> Nat], address : Nat]
        /\ persisted'.session = persisted.session
        /\ persisted'.address = Larger(persisted.address, d)
    BY <1>0, <2>1, <2>3
  <2>6. /\ submission' \in [Submissions -> SubmissionState]
        /\ \A v \in Submissions : SubmissionGood(v)'
    BY <2>1, IdleType, SubmissionFrame
  <2> QED BY <2>1, <2>3, <2>4, <2>5, <2>6, AddressInv
<1> QED BY <1>1, <1>2

\* Any step of one share keeps the invariant.
LEMMA SubmissionStepInv ==
  ASSUME RegistryTypeOK, RegistryInv, NEW u \in Submissions, SubmissionStep(u)
  PROVE  RegistryTypeOK' /\ RegistryInv'
<1>0. submission[u] \in SubmissionState /\ submitted \in Nat
  BY DEF RegistryTypeOK
<1>1. CASE EntityReady(u)
  <2>1. PICK r \in SubmissionState : SetSubmission(u, r) /\ r.session = SessionOf(u)
    BY <1>1, ToPcIs DEF EntityReady
  <2>2. /\ entity[SessionOf(u)].state = "resolved" /\ submitted' \in Nat
        /\ UNCHANGED <<conn, deleting, insertQueue, entity, row, address, persisted>>
    BY <1>0, <1>1 DEF EntityReady
  <2> QED BY <2>1, <2>2, SubmissionOnly
<1>2. ASSUME submission[u].pc \in {"addShares", "heartbeat"}, BestOrDone(u, submission[u]),
             UNCHANGED <<conn, deleting, insertQueue, entity, row, address, submitted, persisted>>
      PROVE  RegistryTypeOK' /\ RegistryInv'
  <2>1. PICK r \in SubmissionState :
          SetSubmission(u, r) /\ (r.pc # "idle" => r.session = SessionOf(u))
    BY <1>2, BestOrDoneIs
  <2>2. entity[SessionOf(u)].state = "resolved"
    BY <1>2 DEF RegistryInv, SubmissionGood
  <2> QED BY <1>0, <1>2, <2>1, <2>2, SubmissionOnly
<1>3. CASE AddedShares(u)
  <2>1. CASE entity[SessionOf(u)].updatedAt > HeartbeatAfter
    <3>1. PICK r : r = [submission[u] EXCEPT !.pc = "heartbeat", !.now = 0]
      OBVIOUS
    <3>2. r \in SubmissionState /\ r.session = SessionOf(u)
      BY <1>0, <3>1, Ages DEF SubmissionState, SessionOf
    <3>3. /\ SetSubmission(u, r) /\ submitted' \in Nat
          /\ UNCHANGED <<conn, deleting, insertQueue, entity, row, address, persisted>>
      BY <1>0, <1>3, <2>1, <3>1 DEF AddedShares
    <3>4. entity[SessionOf(u)].state = "resolved"
      BY <1>3 DEF RegistryInv, SubmissionGood, AddedShares
    <3> QED BY <3>2, <3>3, <3>4, SubmissionOnly
  <2> QED BY <1>2, <1>3, <2>1 DEF AddedShares
<1>4. CASE StatisticsThrow(u)
  BY <1>2, <1>4 DEF StatisticsThrow
<1>5. CASE BestThrows(u)
  <2>1. /\ SetSubmission(u, IdleSubmission) /\ submitted' \in Nat
        /\ UNCHANGED <<conn, deleting, insertQueue, entity, row, address, persisted>>
    BY <1>0, <1>5 DEF BestThrows, Done
  <2> QED BY <2>1, IdleType, SubmissionOnly
<1> QED
  BY <1>1, <1>3, <1>4, <1>5, EnsureInv, EntityFailedInv, HeartbeatInv, UpdateBestInv,
     AddressStepsInv DEF SubmissionStep

-----------------------------------------------------------------------------
(* The timers and destroy                                                  *)

\* The queue inserts a row: the first of its session.
LEMMA InsertInv ==
  ASSUME RegistryTypeOK, RegistryInv, insertClients
  PROVE  RegistryTypeOK' /\ RegistryInv'
<1>0. PICK known \in {0, Old} :
        entity' = [s \in Sessions |->
                     IF InBatch(s)
                     THEN [state |-> "resolved", bestDifficulty |-> 0, updatedAt |-> known]
                     ELSE entity[s]]
  BY DEF insertClients
<1>1. PICK e : e = [state |-> "resolved", bestDifficulty |-> 0, updatedAt |-> known]
  OBVIOUS
<1>2. PICK r : r = [exists |-> TRUE, deletedAt |-> Null, updatedAt |-> 0, bestDifficulty |-> 0]
  OBVIOUS
<1>3. e \in SessionEntity /\ e.state = "resolved" /\ e.updatedAt = known /\ known \in Nat
  BY <1>1, Ages DEF SessionEntity
<1>4. /\ r \in ClientEntity /\ r.exists /\ r.deletedAt = Null /\ r.updatedAt = 0
      /\ r.bestDifficulty = 0
  BY <1>2, Ages DEF ClientEntity
<1>5. /\ entity \in [Sessions -> SessionEntity] /\ row \in [Sessions -> ClientEntity]
      /\ entity' = [s \in Sessions |-> IF InBatch(s) THEN e ELSE entity[s]]
      /\ row' = [s \in Sessions |-> IF InBatch(s) THEN r ELSE row[s]]
      /\ insertQueue' = << >>
      /\ UNCHANGED <<conn, deleting, address, submission, submitted, persisted>>
  BY <1>0, <1>1, <1>2 DEF insertClients, RegistryTypeOK
<1>6. /\ entity' \in [Sessions -> SessionEntity] /\ row' \in [Sessions -> ClientEntity]
  BY <1>3, <1>4, <1>5
<1>7. RegistryTypeOK'
  BY <1>5, <1>6, EmptySeq DEF RegistryTypeOK
<1>8. ASSUME NEW s \in Sessions PROVE RowGood(s)'
  <2>0. RowGood(s)
    BY DEF RegistryInv
  <2>1. CASE InBatch(s)
    <3>1. entity'[s] = e /\ row'[s] = r
      BY <1>5, <2>1
    <3>2. entity[s].state = "pending"
      BY <2>1 DEF InBatch, RegistryInv, QueueGood
    <3>3. persisted.session[s] = 0
      BY <2>0, <3>2 DEF RowGood
    <3>4. 0 <= known
      BY <1>3
    <3> QED BY <1>3, <1>4, <1>5, <2>0, <3>1, <3>3, <3>4 DEF RowGood, Visible
  <2>2. CASE ~InBatch(s)
    <3>1. entity'[s] = entity[s] /\ row'[s] = row[s]
      BY <1>5, <2>2
    <3> QED BY <1>5, <2>0, <3>1, RowSame
  <2> QED BY <2>1, <2>2
<1>9. QueueGood'
  BY <1>5 DEF QueueGood
<1>10. \A v \in Submissions : SubmissionGood(v)'
  BY <1>3, <1>5, SubmissionsSame
<1> QED BY <1>5, <1>7, <1>8, <1>9, <1>10 DEF RegistryInv

\* The INSERT throws, and the queue goes on with the next one.
LEMMA InsertFailsInv ==
  ASSUME RegistryTypeOK, RegistryInv, InsertFails
  PROVE  RegistryTypeOK' /\ RegistryInv'
<1>1. /\ entity \in [Sessions -> SessionEntity]
      /\ entity' = [s \in Sessions |->
                      IF InBatch(s) THEN [entity[s] EXCEPT !.state = "rejected"] ELSE entity[s]]
      /\ insertQueue' = << >>
      /\ UNCHANGED <<conn, deleting, row, address, submission, submitted, persisted>>
  BY DEF InsertFails, RegistryTypeOK
<1>2. ASSUME NEW s \in Sessions
      PROVE  /\ entity'[s] \in SessionEntity
             /\ InBatch(s) => entity'[s].state = "rejected" /\ entity[s].state = "pending"
             /\ ~InBatch(s) => entity'[s] = entity[s]
  <2>1. InBatch(s) => entity[s].state = "pending"
    BY DEF InBatch, RegistryInv, QueueGood
  <2> QED BY <1>1, <2>1 DEF SessionEntity
<1>3. entity' \in [Sessions -> SessionEntity]
  BY <1>1, <1>2
<1>4. RegistryTypeOK'
  BY <1>1, <1>3, EmptySeq DEF RegistryTypeOK
<1>5. ASSUME NEW s \in Sessions PROVE RowGood(s)'
  <2>0. RowGood(s)
    BY DEF RegistryInv
  <2>1. CASE InBatch(s)
    BY <1>1, <1>2, <2>0, <2>1 DEF RowGood
  <2>2. CASE ~InBatch(s)
    BY <1>1, <1>2, <2>0, <2>2, RowSame
  <2> QED BY <2>1, <2>2
<1>6. QueueGood'
  BY <1>1 DEF QueueGood
<1>7. \A v \in Submissions : SubmissionGood(v)'
  BY <1>1, <1>2, SubmissionsSame
<1> QED BY <1>1, <1>4, <1>5, <1>6, <1>7 DEF RegistryInv

\* A step that writes rows alone has to show what becomes of each.
LEMMA RowsFrame ==
  ASSUME RegistryTypeOK, RegistryInv, row' \in [Sessions -> ClientEntity],
         deleting' \subseteq deleting,
         \A s \in Sessions :
           \/ row'[s] = row[s]
           \/ ~row'[s].exists
           \/ /\ row[s].exists /\ row'[s].bestDifficulty = row[s].bestDifficulty
              /\ row'[s].updatedAt = 0
              /\ conn[s] = "closed" \/ row[s].updatedAt > DeadAfter,
         UNCHANGED <<conn, insertQueue, entity, address, submission, submitted, persisted>>
  PROVE  RegistryTypeOK' /\ RegistryInv'
<1>1. RegistryTypeOK'
  BY DEF RegistryTypeOK
<1>2. ASSUME NEW s \in Sessions PROVE RowGood(s)'
  <2>1. RowGood(s)
    BY DEF RegistryInv
  <2>2. entity[s].updatedAt \in Nat /\ row[s].updatedAt \in Nat /\ DeadAfter \in Nat
    BY Ages, RegistryAssumption DEF RegistryTypeOK, SessionEntity, ClientEntity
  <2>3. CASE row'[s] = row[s]
    BY <2>1, <2>3, RowSame
  <2>4. CASE ~row'[s].exists
    BY <2>1, <2>4 DEF RowGood
  <2>5. CASE /\ row[s].exists /\ row'[s].bestDifficulty = row[s].bestDifficulty
             /\ row'[s].updatedAt = 0
             /\ conn[s] = "closed" \/ row[s].updatedAt > DeadAfter
    <3>1. conn[s] # "closed" => entity[s].updatedAt > DeadAfter /\ 0 <= entity[s].updatedAt
      BY <2>1, <2>2, <2>5 DEF RowGood
    <3> QED BY <2>1, <2>5, <3>1 DEF RowGood
  <2> QED BY <2>3, <2>4, <2>5
<1>3. \A v \in Submissions : SubmissionGood(v)'
  BY SubmissionsSame
<1> QED BY <1>1, <1>2, <1>3 DEF RegistryInv, QueueGood

\* Rows are soft-deleted, by the timer or for a closed session, and later removed.
LEMMA CleanupInv ==
  ASSUME RegistryTypeOK, RegistryInv,
         \/ killDeadClients \/ deleteOldClients
         \/ \E s \in Sessions : softDelete(s) \/ SoftDeleteFails(s)
  PROVE  RegistryTypeOK' /\ RegistryInv'
<1>0. row \in [Sessions -> ClientEntity] /\ \A s \in Sessions : row[s] \in ClientEntity
  BY DEF RegistryTypeOK
<1>r. ASSUME NEW r \in ClientEntity
      PROVE  LET d == [r EXCEPT !.deletedAt = 0, !.updatedAt = 0]
             IN  d \in ClientEntity /\ d.bestDifficulty = r.bestDifficulty /\ d.updatedAt = 0
  BY Ages DEF ClientEntity
<1>1. CASE killDeadClients
  <2>1. \A s \in Sessions : row'[s] = IF Dead(row[s])
                                       THEN [row[s] EXCEPT !.deletedAt = 0, !.updatedAt = 0]
                                       ELSE row[s]
    BY <1>1 DEF killDeadClients
  <2>2. row' \in [Sessions -> ClientEntity]
    BY <1>0, <1>1, <1>r DEF killDeadClients
  <2>3. UNCHANGED <<conn, deleting, insertQueue, entity, address, submission, submitted, persisted>>
    BY <1>1 DEF killDeadClients
  <2>4. \A s \in Sessions :
          \/ row'[s] = row[s]
          \/ /\ row[s].exists /\ row'[s].bestDifficulty = row[s].bestDifficulty
             /\ row'[s].updatedAt = 0 /\ row[s].updatedAt > DeadAfter
    BY <1>0, <1>r, <2>1 DEF Dead
  <2> QED BY <2>2, <2>3, <2>4, RowsFrame
<1>2. CASE deleteOldClients
  <2>0. PICK r : r = [exists |-> FALSE, deletedAt |-> Null, updatedAt |-> 0, bestDifficulty |-> 0]
    OBVIOUS
  <2>1. r \in ClientEntity /\ ~r.exists
    BY <2>0, Ages DEF ClientEntity
  <2>2. /\ row' = [s \in Sessions |-> IF row[s].deletedAt > KeepDeleted THEN r ELSE row[s]]
        /\ UNCHANGED <<conn, deleting, insertQueue, entity, address, submission, submitted, persisted>>
    BY <1>2, <2>0 DEF deleteOldClients
  <2>3. row' \in [Sessions -> ClientEntity] /\ \A s \in Sessions : row'[s] = row[s] \/ row'[s] = r
    BY <1>0, <2>1, <2>2
  <2> QED BY <2>1, <2>2, <2>3, RowsFrame
<1>3. ASSUME NEW s \in Sessions, softDelete(s) PROVE RegistryTypeOK' /\ RegistryInv'
  <2>0. PICK d : d = [row[s] EXCEPT !.deletedAt = 0, !.updatedAt = 0]
    OBVIOUS
  <2>1. d \in ClientEntity /\ d.bestDifficulty = row[s].bestDifficulty /\ d.updatedAt = 0
    BY <1>0, <1>r, <2>0
  <2>2. conn[s] = "closed"
    BY <1>3 DEF RegistryInv, RowGood, softDelete
  <2>3. /\ row' = row \/ (row[s].exists /\ row' = [row EXCEPT ![s] = d])
        /\ deleting' \subseteq deleting
        /\ UNCHANGED <<conn, insertQueue, entity, address, submission, submitted, persisted>>
    BY <1>3, <2>0 DEF softDelete, SetRow
  <2>4. row' \in [Sessions -> ClientEntity]
    BY <1>0, <2>1, <2>3
  <2>5. \A t \in Sessions :
          \/ row'[t] = row[t]
          \/ /\ row[t].exists /\ row'[t].bestDifficulty = row[t].bestDifficulty
             /\ row'[t].updatedAt = 0 /\ conn[t] = "closed"
    BY <1>0, <2>1, <2>2, <2>3
  <2> QED BY <2>3, <2>4, <2>5, RowsFrame
<1>4. ASSUME NEW s \in Sessions, SoftDeleteFails(s) PROVE RegistryTypeOK' /\ RegistryInv'
  <2>1. /\ row' = row /\ deleting' \subseteq deleting
        /\ UNCHANGED <<conn, insertQueue, entity, address, submission, submitted, persisted>>
    BY <1>4 DEF SoftDeleteFails
  <2> QED BY <1>0, <2>1, RowsFrame
<1> QED BY <1>1, <1>2, <1>3, <1>4

\* A session is closed, and its row is to be deleted.
LEMMA DestroyInv ==
  ASSUME RegistryTypeOK, RegistryInv, NEW s \in Sessions, destroy(s)
  PROVE  RegistryTypeOK' /\ RegistryInv'
<1>1. /\ conn \in [Sessions -> {"open", "ended", "closed"}]
      /\ conn' = [conn EXCEPT ![s] = "closed"] /\ deleting' = deleting \cup {s}
      /\ UNCHANGED <<insertQueue, entity, row, address, submission, submitted, persisted>>
  BY DEF destroy, RegistryTypeOK
<1>2. /\ conn' \in [Sessions -> {"open", "ended", "closed"}] /\ conn'[s] = "closed"
      /\ \A t \in Sessions : t # s => conn'[t] = conn[t]
  BY <1>1
<1>3. RegistryTypeOK'
  BY <1>1, <1>2 DEF RegistryTypeOK
<1>4. ASSUME NEW t \in Sessions PROVE RowGood(t)'
  <2>1. RowGood(t)
    BY DEF RegistryInv
  <2>2. CASE t = s
    BY <1>1, <1>2, <2>1, <2>2 DEF RowGood
  <2>3. CASE t # s
    BY <1>1, <1>2, <2>1, <2>3, RowSame
  <2> QED BY <2>2, <2>3
<1>5. \A v \in Submissions : SubmissionGood(v)'
  BY <1>1, SubmissionsSame
<1> QED BY <1>1, <1>3, <1>4, <1>5 DEF RegistryInv, QueueGood

\* A found block resets the best difficulty of the address.
LEMMA ResetInv ==
  ASSUME RegistryTypeOK, RegistryInv, resetBestDifficultyAndShares
  PROVE  RegistryTypeOK' /\ RegistryInv'
<1>1. /\ address' = [address EXCEPT !.bestDifficulty = 0]
      /\ persisted' = [persisted EXCEPT !.address = 0]
      /\ UNCHANGED <<conn, deleting, insertQueue, entity, row, submission, submitted>>
  BY DEF resetBestDifficultyAndShares
<1>2. /\ address' \in [exists : BOOLEAN, bestDifficulty : Nat] /\ address'.bestDifficulty = 0
      /\ persisted' \in [session : [Sessions -> Nat], address : Nat]
      /\ persisted'.session = persisted.session /\ persisted'.address = 0
  BY <1>1 DEF RegistryTypeOK
<1>3. \A v \in Submissions : SubmissionGood(v)'
  BY <1>1, SubmissionsSame
<1>4. submission' \in [Submissions -> SubmissionState]
  BY <1>1 DEF RegistryTypeOK
<1> QED BY <1>1, <1>2, <1>3, <1>4, AddressInv

\* A minute ages the row and the entity of a session alike.
LEMMA MinuteInv ==
  ASSUME RegistryTypeOK, RegistryInv, Minute
  PROVE  RegistryTypeOK' /\ RegistryInv'
<1>1. ASSUME NEW s \in Sessions
      PROVE  /\ row'[s] \in ClientEntity /\ entity'[s] \in SessionEntity
             /\ row'[s].exists = row[s].exists /\ row'[s].bestDifficulty = row[s].bestDifficulty
             /\ row'[s].updatedAt = Older(row[s].updatedAt)
             /\ row'[s].deletedAt = Older(row[s].deletedAt)
             /\ entity'[s].state = entity[s].state
             /\ entity'[s].updatedAt = Older(entity[s].updatedAt)
  <2>1. row[s] \in ClientEntity /\ entity[s] \in SessionEntity
    BY DEF RegistryTypeOK
  <2>2. /\ row'[s] = [row[s] EXCEPT !.updatedAt = Older(@), !.deletedAt = Older(@)]
        /\ entity'[s] = [entity[s] EXCEPT !.updatedAt = Older(@)]
    BY DEF Minute
  <2>3. /\ Older(row[s].updatedAt) \in Age /\ Older(row[s].deletedAt) \in Age \cup {Null}
        /\ Older(entity[s].updatedAt) \in Age
    BY <2>1, Ages DEF ClientEntity, SessionEntity
  <2> QED BY <2>1, <2>2, <2>3 DEF ClientEntity, SessionEntity
<1>2. ASSUME NEW u \in Submissions
      PROVE  /\ submission'[u] \in SubmissionState /\ submission'[u].pc = submission[u].pc
             /\ submission'[u].session = submission[u].session
  <2>1. submission[u] \in SubmissionState
    BY DEF RegistryTypeOK
  <2>2. submission'[u] = IF submission[u].pc = "heartbeat"
                         THEN [submission[u] EXCEPT !.now = Older(@)] ELSE submission[u]
    BY DEF Minute
  <2>3. Older(submission[u].now) \in Age
    BY <2>1, Ages DEF SubmissionState
  <2> QED BY <2>1, <2>2, <2>3 DEF SubmissionState
<1>3. /\ row' \in [Sessions -> ClientEntity] /\ entity' \in [Sessions -> SessionEntity]
      /\ submission' \in [Submissions -> SubmissionState]
      /\ UNCHANGED <<conn, deleting, insertQueue, address, submitted, persisted>>
  <2>1. /\ row' = [s \in Sessions |-> row'[s]] /\ entity' = [s \in Sessions |-> entity'[s]]
        /\ submission' = [u \in Submissions |-> submission'[u]]
        /\ UNCHANGED <<conn, deleting, insertQueue, address, submitted, persisted>>
    BY DEF Minute
  <2> QED BY <1>1, <1>2, <2>1
<1>4. RegistryTypeOK'
  BY <1>3 DEF RegistryTypeOK
<1>5. ASSUME NEW s \in Sessions PROVE RowGood(s)'
  <2>1. RowGood(s)
    BY DEF RegistryInv
  <2>2. row[s].updatedAt \in Age /\ entity[s].updatedAt \in Age
        /\ row[s].deletedAt \in Age \cup {Null}
    BY DEF RegistryTypeOK, ClientEntity, SessionEntity
  <2>3. row[s].updatedAt <= entity[s].updatedAt => row'[s].updatedAt <= entity'[s].updatedAt
    BY <1>1, <2>2, Ages
  <2>4. entity[s].updatedAt > DeadAfter => entity'[s].updatedAt > DeadAfter
    BY <1>1, <2>2, Ages
  <2>5. row[s].deletedAt = Null => row'[s].deletedAt = Null
    BY <1>1, <2>2, Ages
  <2> QED BY <1>1, <1>3, <2>1, <2>3, <2>4, <2>5 DEF RowGood, Visible
<1>6. QueueGood'
  <2>1. \A i \in 1..Len(insertQueue) : insertQueue[i] \in Sessions
    BY DEF RegistryTypeOK
  <2> QED BY <1>1, <1>3, <2>1 DEF RegistryInv, QueueGood
<1>7. \A v \in Submissions : SubmissionGood(v)'
  <2>1. \A v \in Submissions : submission[v].session \in Sessions
    BY DEF RegistryTypeOK, SubmissionState
  <2> QED BY <1>1, <1>2, <2>1 DEF RegistryInv, SubmissionGood, SessionOf
<1> QED BY <1>3, <1>4, <1>5, <1>6, <1>7 DEF RegistryInv

-----------------------------------------------------------------------------
(* The theorems                                                            *)

\* The tables, the insert batch and the shares in progress keep their types and
\* RegistryInv, whichever statements throw.
THEOREM RegistryInvariance == RegistrySpec => [](RegistryTypeOK /\ RegistryInv)
<1>1. RegistryInit => RegistryTypeOK /\ RegistryInv
  <2> SUFFICES ASSUME RegistryInit PROVE RegistryTypeOK /\ RegistryInv
    OBVIOUS
  <2>1. RegistryTypeOK
    BY IdleType, Ages, EmptySeq DEF RegistryInit, RegistryTypeOK, SessionEntity, ClientEntity
  <2>2. \A s \in Sessions : RowGood(s)
    BY DEF RegistryInit, RowGood
  <2>3. QueueGood
    BY DEF RegistryInit, QueueGood
  <2>4. \A u \in Submissions : SubmissionGood(u)
    BY IdleType DEF RegistryInit, SubmissionGood
  <2>5. address.bestDifficulty >= persisted.address
    BY DEF RegistryInit
  <2> QED BY <2>1, <2>2, <2>3, <2>4, <2>5 DEF RegistryInv
<1>2. RegistryTypeOK /\ RegistryInv /\ [RegistryNext]_registryVars
        => RegistryTypeOK' /\ RegistryInv'
  <2> SUFFICES ASSUME RegistryTypeOK, RegistryInv, [RegistryNext]_registryVars
               PROVE  RegistryTypeOK' /\ RegistryInv'
    OBVIOUS
  <2>1. CASE UNCHANGED registryVars
    BY <2>1 DEF registryVars, RegistryTypeOK, RegistryInv, RowGood, Visible, QueueGood,
                SubmissionGood, SessionOf
  <2>2. ASSUME NEW u \in Submissions, SubmissionStep(u) PROVE RegistryTypeOK' /\ RegistryInv'
    BY <2>2, SubmissionStepInv
  <2>3. ASSUME NEW u \in Submissions, NEW s \in Sessions, NEW d \in ShareDifficulties, Share(u, s, d)
        PROVE  RegistryTypeOK' /\ RegistryInv'
    BY <2>3, ShareInv
  <2>4. CASE Flush
    BY <2>4, InsertInv, InsertFailsInv DEF Flush
  <2>5. ASSUME NEW s \in Sessions, destroy(s) PROVE RegistryTypeOK' /\ RegistryInv'
    BY <2>5, DestroyInv
  <2> QED
    BY <2>1, <2>2, <2>3, <2>4, <2>5, CleanupInv, ResetInv, MinuteInv DEF RegistryNext
<1> QED
  BY <1>1, <1>2, PTL DEF RegistrySpec

\* The tables and what the sessions hold of them keep their types.
THEOREM RegistryTyped == RegistrySpec => []RegistryTypeOK
BY RegistryInvariance, PTL

\* The batch ClientService inserts never names a session twice, nor one that has a row.
THEOREM InsertedOnceThm == RegistrySpec => []InsertedOnce
<1>1. RegistryTypeOK /\ RegistryInv => InsertedOnce
  BY DEF RegistryInv, QueueGood, RowGood, InsertedOnce, BatchFits, InBatch
<1> QED
  BY <1>1, RegistryInvariance, PTL

\* killDeadClients hides no connected session whose last heartbeat is recent, and
\* a heartbeat brings back one that was hidden.
THEOREM LiveSessionShownThm == RegistrySpec => []LiveSessionShown
<1>1. RegistryTypeOK /\ RegistryInv => LiveSessionShown
  <2> SUFFICES ASSUME RegistryTypeOK, RegistryInv, NEW s \in Sessions, conn[s] # "closed",
                      row[s].exists, entity[s].updatedAt <= DeadAfter
               PROVE  Visible(s)
    BY DEF LiveSessionShown
  <2>1. entity[s].updatedAt \in Nat /\ DeadAfter \in Nat
    BY Ages, RegistryAssumption DEF RegistryTypeOK, SessionEntity
  <2>2. RowGood(s)
    BY DEF RegistryInv
  <2> QED BY <2>1, <2>2 DEF RowGood
<1> QED
  BY <1>1, RegistryInvariance, PTL

\* The tables never lose a best share that was persisted, in whichever order the
\* updates of concurrent shares arrive.
THEOREM BestShareKeptThm == RegistrySpec => []BestShareKept
<1>1. RegistryTypeOK /\ RegistryInv => BestShareKept
  BY DEF RegistryInv, RowGood, BestShareKept
<1> QED
  BY <1>1, RegistryInvariance, PTL
=============================================================================
