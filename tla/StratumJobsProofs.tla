-------------------------- MODULE StratumJobsProofs --------------------------
(***************************************************************************)
(* Proofs about StratumJobs and MiningWork.  StratumJobs: type             *)
(* correctness, the invariant JobsInv, and from it that no submission is   *)
(* credited twice and no stale share is accepted, for any sessions,        *)
(* requests, bounds and order of answers.  MiningWork: that pool, node and *)
(* the miner of a NORMAL session hash the same header, which commits to    *)
(* the block's transactions for any number of them, and that the rotation  *)
(* of version bits gives disjoint work.                                    *)
(***************************************************************************)
EXTENDS StratumJobs, MiningWork, SumTheorems, SequenceTheorems, TLAPS

\* What appending to a sequence leaves in place and adds.
LEMMA AppendFacts ==
  ASSUME NEW S, NEW q \in Seq(S), NEW e \in S
  PROVE  /\ Append(q, e) \in Seq(S)
         /\ Len(Append(q, e)) = Len(q) + 1
         /\ \A i \in 1..Len(q) : Append(q, e)[i] = q[i]
         /\ Append(q, e)[Len(q) + 1] = e
         /\ 1..Len(q) \subseteq 1..Len(Append(q, e))
         /\ Len(q) \in Nat
  BY AppendProperties, LenProperties

\* The idle request is well typed: there is a session to name.
LEMMA IdleRequestType == IdleRequest \in RequestState
  BY JobsAssumption DEF IdleRequest, RequestState

\* The effect of sending a job on the jobs and the sessions.
JobSent(c, s, registry, id) ==
  /\ mined' \in Seq(MiningJob)
  /\ jobs' \subseteq 1..Len(mined')
  /\ client' \in [Clients -> Session]
  /\ Len(mined) \in Nat /\ Len(mined') = Len(mined) + 1
  /\ \A j \in 1..Len(mined) : mined'[j] = mined[j]
  /\ mined'[Len(mined) + 1].jobTemplateId = id
  /\ jobs' = registry \cup {Len(mined) + 1}
  /\ \A d \in Clients :
       /\ client'[d].miningSubmissionHashes =
            IF d = c THEN s.miningSubmissionHashes
                     ELSE client[d].miningSubmissionHashes
       /\ client'[d].currentJobTemplate =
            IF d = c THEN s.currentJobTemplate ELSE client[d].currentJobTemplate

\* sendNewMiningJob has that effect.
LEMMA SendFacts ==
  ASSUME TypeOK, NEW c \in Clients, NEW s \in Session, NEW registry \in SUBSET jobs,
         NEW id \in Nat, NEW ts \in Nat, NEW clean \in BOOLEAN,
         sendNewMiningJob(c, s, registry, id, ts, clean)
  PROVE  JobSent(c, s, registry, id)
  <1> DEFINE counter == IF clean THEN 0 ELSE s.elektronPoolVersionCounter
             e == [client |-> c, jobTemplateId |-> id, rotation |-> counter % Rotations,
                   timestamp |-> ts, creation |-> clock, clean |-> clean]
             n == [s EXCEPT !.elektronPoolVersionCounter = counter + 1,
                            !.unwritten = @ \cup {Len(mined) + 1}]
  <1>1. /\ mined' = Append(mined, e)
        /\ jobs' = registry \cup {Len(mined) + 1}
        /\ client' = [client EXCEPT ![c] = n]
    BY DEF sendNewMiningJob
  <1>2. /\ mined \in Seq(MiningJob) /\ jobs \subseteq 1..Len(mined)
        /\ client \in [Clients -> Session] /\ clock \in Nat
    BY DEF TypeOK
  <1>3. counter \in Nat
    BY DEF Session
  <1>4. counter % Rotations \in Nat
    BY <1>3, JobsAssumption
  <1>5. e \in MiningJob
    BY <1>2, <1>4 DEF MiningJob
  <1> HIDE DEF e, counter
  <1>6. /\ n \in Session
        /\ n.miningSubmissionHashes = s.miningSubmissionHashes
        /\ n.currentJobTemplate = s.currentJobTemplate
    <2>1. counter + 1 \in Nat /\ Len(mined) + 1 \in Nat
      BY <1>2, <1>3, LenProperties
    <2>2. \A k, l \in Nat :
            LET v == [s EXCEPT !.elektronPoolVersionCounter = k,
                               !.unwritten = @ \cup {l}]
            IN  /\ v \in Session
                /\ v.miningSubmissionHashes = s.miningSubmissionHashes
                /\ v.currentJobTemplate = s.currentJobTemplate
      BY DEF Session
    <2> QED
      BY <2>1, <2>2
  <1> HIDE DEF n
  <1>7. /\ Append(mined, e) \in Seq(MiningJob)
        /\ Len(Append(mined, e)) = Len(mined) + 1
        /\ \A i \in 1..Len(mined) : Append(mined, e)[i] = mined[i]
        /\ Append(mined, e)[Len(mined) + 1] = e
        /\ Len(mined) \in Nat
    BY <1>2, <1>5, AppendFacts
  <1>8. e.jobTemplateId = id
    BY DEF e
  <1>9. client' \in [Clients -> Session]
    BY <1>1, <1>2, <1>6
  <1>10. jobs' \subseteq 1..Len(mined')
    <2>1. Len(mined') = Len(mined) + 1
      BY <1>1, <1>7
    <2>2. 1..Len(mined) \subseteq 1..(Len(mined) + 1) /\ Len(mined) + 1 \in 1..(Len(mined) + 1)
      BY <1>7
    <2> QED
      BY <1>1, <1>2, <2>1, <2>2
  <1> QED
    BY <1>1, <1>2, <1>6, <1>7, <1>8, <1>9, <1>10 DEF JobSent

\* What building a template does to the registry of templates.
LEMMA BuildFacts ==
  ASSUME TypeOK, NEW h \in Nat, buildTemplateFor(h)
  PROVE  /\ templates' \in Seq(IJobTemplate)
         /\ Len(templates) \in Nat /\ Len(templates') = Len(templates) + 1
         /\ \A t \in 1..Len(templates) : templates'[t] = templates[t]
         /\ templates'[Len(templates) + 1].height = h
         /\ lastHeight' = h
         /\ blocks' \subseteq 1..Len(templates')
         /\ \A t \in blocks' : t = Len(templates) + 1 \/ (t \in blocks /\ lastHeight = h)
  <1> DEFINE e == [height |-> h, timestamp |-> clock, creation |-> clock,
                   clearJobs |-> ClearJobs(h)]
  <1>1. /\ templates' = Append(templates, e) /\ lastHeight' = h
        /\ blocks' = KeptBlocks(ClearJobs(h)) \cup {Len(templates) + 1}
    BY DEF buildTemplateFor
  <1>2. /\ templates \in Seq(IJobTemplate) /\ blocks \subseteq 1..Len(templates)
        /\ clock \in Nat
    BY DEF TypeOK
  <1>3. e \in IJobTemplate /\ e.height = h
    BY <1>2 DEF IJobTemplate, ClearJobs
  <1> HIDE DEF e
  <1>4. /\ Append(templates, e) \in Seq(IJobTemplate)
        /\ Len(Append(templates, e)) = Len(templates) + 1
        /\ \A i \in 1..Len(templates) : Append(templates, e)[i] = templates[i]
        /\ Append(templates, e)[Len(templates) + 1] = e
        /\ Len(templates) \in Nat
    BY <1>2, <1>3, AppendFacts
  <1>5. \A t \in KeptBlocks(ClearJobs(h)) : t \in blocks /\ lastHeight = h
    BY DEF KeptBlocks, LiveBlocks, ClearJobs
  <1>6. blocks' \subseteq 1..Len(templates')
    <2>1. Len(templates') = Len(templates) + 1
      BY <1>1, <1>4
    <2>2. /\ 1..Len(templates) \subseteq 1..(Len(templates) + 1)
          /\ Len(templates) + 1 \in 1..(Len(templates) + 1)
      BY <1>4
    <2> QED
      BY <1>1, <1>2, <1>5, <2>1, <2>2
  <1> QED
    BY <1>1, <1>3, <1>4, <1>5, <1>6

\* The jobs kept are registered ones, none of them when the registry is cleared.
LEMMA KeptFacts ==
  ASSUME NEW clear \in BOOLEAN
  PROVE  KeptJobs(clear) \in SUBSET jobs /\ (clear => KeptJobs(clear) = {})
  BY DEF KeptJobs, LiveJobs

-----------------------------------------------------------------------------
(* An answer of the node, handled to the end.                              *)

\* A template that arrives extends the templates and the jobs, keeps the registry
\* at one height, and drops the jobs of every session whose duplicate set it clears.
LEMMA ArrivalFacts ==
  ASSUME TypeOK, NEW r \in Requests, TemplateArrives(r) \/ CheckDifficultyResumes(r)
  PROVE  /\ TypeOK'
         /\ Len(templates') = Len(templates) + 1 /\ Len(templates) \in Nat
         /\ \A t \in 1..Len(templates) : templates'[t] = templates[t]
         /\ templates'[Len(templates) + 1].height = lastHeight'
         /\ \A t \in blocks' : \/ t = Len(templates) + 1
                               \/ t \in blocks /\ lastHeight = lastHeight'
         /\ Len(mined) \in Nat /\ Len(mined') \in {Len(mined), Len(mined) + 1}
         /\ \A j \in 1..Len(mined) : mined'[j] = mined[j]
         /\ Len(mined') = Len(mined) + 1 =>
              mined'[Len(mined) + 1].jobTemplateId = Len(templates) + 1
         /\ jobs' \subseteq jobs \cup {Len(mined) + 1}
         /\ \A d \in Clients :
              /\ client'[d].currentJobTemplate \in
                   {client[d].currentJobTemplate, Len(templates) + 1}
              /\ \/ client'[d].miningSubmissionHashes = client[d].miningSubmissionHashes
                 \/ jobs' \subseteq {Len(mined) + 1}
         /\ shares' = shares
  <1> DEFINE c == request[r].client
             h == request[r].height
             clear == ClearJobs(h)
             id == Len(templates) + 1
             sr == [client[c] EXCEPT !.currentJobTemplate = id,
                      !.miningSubmissionHashes = IF clear THEN {} ELSE @]
             sd == [client[c] EXCEPT !.currentJobTemplate = id]
  <1>1. /\ tip \in Nat /\ clock \in Nat /\ request \in [Requests -> RequestState]
        /\ shares \in Seq(Share) /\ client \in [Clients -> Session]
        /\ mined \in Seq(MiningJob) /\ jobs \subseteq 1..Len(mined)
    BY DEF TypeOK
  <1>2. c \in Clients /\ h \in Nat
    BY <1>1 DEF RequestState
  <1>3. clear \in BOOLEAN
    BY DEF ClearJobs
  <1>4. buildTemplateFor(h) /\ request' = [request EXCEPT ![r] = IdleRequest]
        /\ UNCHANGED <<tip, clock, shares>>
    BY DEF TemplateArrives, CheckDifficultyResumes
  <1> HIDE DEF h
  <1>5. /\ templates' \in Seq(IJobTemplate)
        /\ Len(templates) \in Nat /\ Len(templates') = id
        /\ \A t \in 1..Len(templates) : templates'[t] = templates[t]
        /\ templates'[id].height = h
        /\ lastHeight' = h
        /\ blocks' \subseteq 1..Len(templates')
        /\ \A t \in blocks' : t = Len(templates) + 1 \/ (t \in blocks /\ lastHeight = h)
    BY <1>2, <1>4, BuildFacts
  <1>6. client[c] \in Session /\ id \in Nat
    BY <1>1, <1>2, <1>5
  <1>7. /\ sr \in Session /\ sr.currentJobTemplate = id
        /\ sr.miningSubmissionHashes = IF clear THEN {} ELSE client[c].miningSubmissionHashes
    <2> HIDE DEF clear, id, c
    <2>1. client[c].miningSubmissionHashes \in SUBSET SubmissionHash
      BY <1>6 DEF Session
    <2>2. (IF clear THEN {} ELSE client[c].miningSubmissionHashes) \in SUBSET SubmissionHash
      BY <2>1
    <2> QED
      BY <1>6, <2>2 DEF Session
  <1>8. /\ sd \in Session /\ sd.currentJobTemplate = id
        /\ sd.miningSubmissionHashes = client[c].miningSubmissionHashes
    <2> HIDE DEF id, c
    <2> QED
      BY <1>6 DEF Session
  <1>9. PICK s \in {sr, sd}, ts \in Nat, clean \in BOOLEAN :
          \/ sendNewMiningJob(c, s, KeptJobs(clear), id, ts, clean)
          \/ SendsNothing(c, s, KeptJobs(clear))
    <2>1. CASE TemplateArrives(r)
      BY <2>1, <1>1, <1>3 DEF TemplateArrives, h
    <2>2. CASE CheckDifficultyResumes(r)
      <3>1. NextTimestamp(c, clock) \in Nat
        BY <1>1, <1>6 DEF NextTimestamp, Later, Session
      <3> QED
        BY <2>2, <3>1 DEF CheckDifficultyResumes, h
    <2> QED
      BY <2>1, <2>2
  <1>10. /\ s \in Session /\ s.currentJobTemplate = id
         /\ s.miningSubmissionHashes \in {{}, client[c].miningSubmissionHashes}
         /\ ~clear => s.miningSubmissionHashes = client[c].miningSubmissionHashes
    BY <1>7, <1>8
  <1>11. KeptJobs(clear) \in SUBSET jobs /\ (clear => KeptJobs(clear) = {})
    BY <1>3, KeptFacts
  <1>12. request' \in [Requests -> RequestState]
    BY <1>1, <1>4, IdleRequestType
  <1> HIDE DEF sr, sd, clear, c
  <1>13. /\ mined' \in Seq(MiningJob)
         /\ jobs' \subseteq 1..Len(mined')
         /\ client' \in [Clients -> Session]
         /\ Len(mined) \in Nat /\ Len(mined') \in {Len(mined), Len(mined) + 1}
         /\ \A j \in 1..Len(mined) : mined'[j] = mined[j]
         /\ Len(mined') = Len(mined) + 1 => mined'[Len(mined) + 1].jobTemplateId = id
         /\ jobs' \subseteq KeptJobs(clear) \cup {Len(mined) + 1}
         /\ \A d \in Clients :
              /\ client'[d].miningSubmissionHashes =
                   IF d = c THEN s.miningSubmissionHashes
                            ELSE client[d].miningSubmissionHashes
              /\ client'[d].currentJobTemplate =
                   IF d = c THEN s.currentJobTemplate ELSE client[d].currentJobTemplate
    <2>1. CASE sendNewMiningJob(c, s, KeptJobs(clear), id, ts, clean)
      <3>1. PICK d \in Clients, u \in Session, registry \in SUBSET jobs, i \in Nat :
              /\ d = c /\ u = s /\ registry = KeptJobs(clear) /\ i = id
              /\ sendNewMiningJob(d, u, registry, i, ts, clean)
        BY <2>1, <1>2, <1>6, <1>10, <1>11
      <3>2. sendNewMiningJob(d, u, registry, i, ts, clean)
        BY <3>1
      <3>3. JobSent(d, u, registry, i)
        BY <3>2, SendFacts
      <3> QED
        BY <3>1, <3>3 DEF JobSent
    <2>2. CASE SendsNothing(c, s, KeptJobs(clear))
      <3>1. /\ jobs' = KeptJobs(clear) /\ client' = [client EXCEPT ![c] = s]
            /\ mined' = mined
        BY <2>2 DEF SendsNothing
      <3>2. Len(mined) \in Nat
        BY <1>1, LenProperties
      <3>3. client' \in [Clients -> Session]
        BY <3>1, <1>1, <1>2, <1>10
      <3>4. \A d \in Clients : client'[d] = IF d = c THEN s ELSE client[d]
        BY <3>1, <1>1, <1>2
      <3>5. jobs' \subseteq 1..Len(mined')
        BY <3>1, <1>1, <1>11
      <3>6. Len(mined') # Len(mined) + 1
        BY <3>1, <3>2
      <3> QED
        BY <3>1, <3>2, <3>3, <3>4, <3>5, <3>6, <1>1
    <2> QED
      BY <1>9, <2>1, <2>2
  <1>14. TypeOK'
    BY <1>1, <1>2, <1>4, <1>5, <1>12, <1>13 DEF TypeOK
  <1>15. \A d \in Clients :
           \/ client'[d].miningSubmissionHashes = client[d].miningSubmissionHashes
           \/ jobs' \subseteq {Len(mined) + 1}
    BY <1>3, <1>10, <1>11, <1>13
  <1> QED
    BY <1>4, <1>5, <1>10, <1>11, <1>13, <1>14, <1>15

\* A job on the session's own template: the local refresh or a new difficulty.
LEMMA LocalFacts ==
  ASSUME TypeOK, ReferencesInv, NEW c \in Clients,
         refreshLocalMiningWork(c) \/ checkDifficulty(c)
  PROVE  /\ TypeOK'
         /\ Len(mined) \in Nat /\ Len(mined') = Len(mined) + 1
         /\ \A j \in 1..Len(mined) : mined'[j] = mined[j]
         /\ mined'[Len(mined) + 1].jobTemplateId \in 1..Len(templates)
         /\ jobs' \subseteq jobs \cup {Len(mined) + 1}
         /\ \A d \in Clients :
              /\ client'[d].currentJobTemplate = client[d].currentJobTemplate
              /\ client'[d].miningSubmissionHashes = client[d].miningSubmissionHashes
         /\ UNCHANGED <<lastHeight, templates, blocks, shares>>
  <1> DEFINE id == client[c].currentJobTemplate
  <1>1. /\ templates \in Seq(IJobTemplate) /\ client \in [Clients -> Session]
        /\ clock \in Nat
    BY DEF TypeOK
  <1>2. client[c] \in Session
    BY <1>1
  <1>3. id # NoTemplate /\ UNCHANGED <<tip, clock, lastHeight, templates, blocks, request, shares>>
    BY DEF refreshLocalMiningWork, checkDifficulty
  <1>4. Len(templates) \in Nat
    BY <1>1, LenProperties
  <1>5. id \in 1..Len(templates)
    BY <1>3, <1>4 DEF ReferencesInv, NoTemplate
  <1>6. templates[id] \in IJobTemplate
    BY <1>1, <1>5, ElementOfSeq
  <1>7. templates[id].timestamp \in Nat
    BY <1>6 DEF IJobTemplate
  <1>8. PICK ts \in Nat, clean \in BOOLEAN :
          sendNewMiningJob(c, client[c], jobs, id, ts, clean)
    <2>1. /\ Later(templates[id].timestamp, clock) \in Nat
          /\ NextTimestamp(c, templates[id].timestamp) \in Nat
      BY <1>1, <1>2, <1>7 DEF Later, NextTimestamp, Session
    <2> QED
      BY <2>1 DEF refreshLocalMiningWork, checkDifficulty
  <1>9. id \in Nat /\ jobs \in SUBSET jobs
    BY <1>4, <1>5
  <1> HIDE DEF id
  <1>10. /\ mined' \in Seq(MiningJob)
         /\ jobs' \subseteq 1..Len(mined')
         /\ client' \in [Clients -> Session]
         /\ Len(mined) \in Nat /\ Len(mined') = Len(mined) + 1
         /\ \A j \in 1..Len(mined) : mined'[j] = mined[j]
         /\ mined'[Len(mined) + 1].jobTemplateId = id
         /\ jobs' = jobs \cup {Len(mined) + 1}
         /\ \A d \in Clients :
              /\ client'[d].miningSubmissionHashes =
                   IF d = c THEN client[c].miningSubmissionHashes
                            ELSE client[d].miningSubmissionHashes
              /\ client'[d].currentJobTemplate =
                   IF d = c THEN client[c].currentJobTemplate
                            ELSE client[d].currentJobTemplate
    <2>1. PICK s \in Session, registry \in SUBSET jobs, i \in Nat :
            /\ s = client[c] /\ registry = jobs /\ i = id
            /\ sendNewMiningJob(c, s, registry, i, ts, clean)
      BY <1>2, <1>8, <1>9
    <2>2. sendNewMiningJob(c, s, registry, i, ts, clean)
      BY <2>1
    <2>3. JobSent(c, s, registry, i)
      BY <2>2, SendFacts
    <2> QED
      BY <2>1, <2>3 DEF JobSent
  <1>11. TypeOK'
    BY <1>3, <1>10 DEF TypeOK
  <1> QED
    BY <1>3, <1>5, <1>10, <1>11

-----------------------------------------------------------------------------
(* The invariant.                                                          *)

IInv == TypeOK /\ JobsInv

\* The initial state is well typed and satisfies the invariant.
LEMMA JobsInit == Init => IInv
  <1> SUFFICES ASSUME Init PROVE IInv
    OBVIOUS
  <1>1. TypeOK
    <2>1. \A S : << >> \in Seq(S) /\ Len(<< >>) = 0
      BY EmptySeq
    <2>2. [c \in Clients |->
             [open |-> TRUE, currentJobTemplate |-> NoTemplate,
              elektronPoolVersionCounter |-> 0, miningSubmissionHashes |-> {},
              unwritten |-> {}, lastSentMiningJobTimestamp |-> 0]] \in [Clients -> Session]
      BY DEF Session, NoTemplate
    <2>3. [r \in Requests |-> IdleRequest] \in [Requests -> RequestState]
      BY IdleRequestType
    <2> QED
      BY <2>1, <2>2, <2>3 DEF Init, TypeOK
  <1>2. JobsInv
    BY DEF Init, JobsInv, ReferencesInv, OneHeight, Remembered, NoDuplicateShare, NoTemplate
  <1> QED
    BY <1>1, <1>2 DEF IInv

\* Why a step that accepts no share keeps the invariant: templates and jobs are only
\* added, the templates registered keep one height, and a session's duplicate set
\* shrinks only when the old jobs leave the registry.
LEMMA RegistryStep ==
  ASSUME IInv, TypeOK',
         Len(templates) \in Nat, Len(templates') \in Nat, Len(templates') >= Len(templates),
         \A t \in 1..Len(templates) : templates'[t] = templates[t],
         \A t \in blocks' : \/ t \in blocks /\ lastHeight' = lastHeight
                            \/ templates'[t].height = lastHeight',
         Len(mined) \in Nat, Len(mined') \in {Len(mined), Len(mined) + 1},
         \A j \in 1..Len(mined) : mined'[j] = mined[j],
         Len(mined') = Len(mined) + 1 =>
           mined'[Len(mined) + 1].jobTemplateId \in 1..Len(templates'),
         jobs' \subseteq jobs \cup {Len(mined) + 1},
         \A d \in Clients :
           /\ client'[d].currentJobTemplate \in 0..Len(templates')
           /\ \/ client[d].miningSubmissionHashes \subseteq
                   client'[d].miningSubmissionHashes
              \/ jobs' \subseteq {Len(mined) + 1},
         shares' = shares
  PROVE  JobsInv'
  <1>1. ReferencesInv'
    <2>1. \A j \in 1..Len(mined') : mined'[j].jobTemplateId \in 1..Len(templates')
      <3> SUFFICES ASSUME NEW j \in 1..Len(mined')
                   PROVE  mined'[j].jobTemplateId \in 1..Len(templates')
        OBVIOUS
      <3>1. CASE j \in 1..Len(mined)
        <4>1. mined[j].jobTemplateId \in 1..Len(templates)
          BY <3>1 DEF IInv, JobsInv, ReferencesInv
        <4> QED
          BY <3>1, <4>1
      <3>2. CASE j \notin 1..Len(mined)
        <4>1. j = Len(mined) + 1 /\ Len(mined') = Len(mined) + 1
          BY <3>2
        <4> QED
          BY <4>1
      <3> QED
        BY <3>1, <3>2
    <2> QED
      BY <2>1 DEF ReferencesInv
  <1>2. OneHeight'
    <2> SUFFICES ASSUME NEW t \in blocks' PROVE templates'[t].height = lastHeight'
      BY DEF OneHeight
    <2>1. CASE t \in blocks /\ lastHeight' = lastHeight
      <3>1. t \in 1..Len(templates) /\ templates[t].height = lastHeight
        BY <2>1 DEF IInv, TypeOK, JobsInv, OneHeight
      <3> QED
        BY <2>1, <3>1
    <2>2. CASE templates'[t].height = lastHeight'
      BY <2>2
    <2> QED
      BY <2>1, <2>2
  <1>3. Remembered'
    <2> SUFFICES ASSUME NEW i \in 1..Len(shares)
                 PROVE  /\ shares[i].job \in 1..Len(mined')
                        /\ shares[i].job \in jobs' =>
                             <<shares[i].job, shares[i].nonce>>
                               \in client'[shares[i].client].miningSubmissionHashes
      BY DEF Remembered
    <2>1. /\ shares[i].job \in 1..Len(mined)
          /\ shares[i].job \in jobs =>
               <<shares[i].job, shares[i].nonce>>
                 \in client[shares[i].client].miningSubmissionHashes
      BY DEF IInv, JobsInv, Remembered
    <2>2. shares[i].client \in Clients
      <3>1. shares[i] \in Share
        BY ElementOfSeq DEF IInv, TypeOK
      <3> QED
        BY <3>1 DEF Share
    <2>3. shares[i].job # Len(mined) + 1 /\ shares[i].job \in 1..Len(mined')
      BY <2>1
    <2> QED
      BY <2>1, <2>2, <2>3
  <1>4. NoDuplicateShare'
    BY DEF IInv, JobsInv, NoDuplicateShare
  <1> QED
    BY <1>1, <1>2, <1>3, <1>4 DEF JobsInv

\* An accepted share is a new one, and its session remembers it.
LEMMA SubmissionStep ==
  ASSUME IInv, NEW c \in Clients, NEW j \in 1..Len(mined), NEW n \in Nonces,
         NEW meets \in BOOLEAN, handleMiningSubmission(c, j, n, meets)
  PROVE  /\ IInv'
         /\ shares' # shares => JobHeight(shares'[Len(shares')].job) = lastHeight
  <1> DEFINE s == [client[c] EXCEPT !.miningSubmissionHashes = @ \cup {<<j, n>>}]
             e == [client |-> c, job |-> j, nonce |-> n]
  <1>1. /\ templates \in Seq(IJobTemplate) /\ mined \in Seq(MiningJob)
        /\ client \in [Clients -> Session] /\ shares \in Seq(Share)
        /\ blocks \subseteq 1..Len(templates)
    BY DEF IInv, TypeOK
  <1>2. /\ j \in jobs /\ mined[j].jobTemplateId \in blocks
        /\ <<j, n>> \notin client[c].miningSubmissionHashes
        /\ client' = [client EXCEPT ![c] = s]
        /\ shares' = IF meets THEN Append(shares, e) ELSE shares
        /\ UNCHANGED <<tip, clock, lastHeight, templates, blocks, mined, jobs, request>>
    BY DEF handleMiningSubmission, Submittable
  <1>3. client[c] \in Session
    BY <1>1
  <1>4. j \in Nat /\ Len(mined) \in Nat
    BY <1>1, LenProperties
  <1>5. <<j, n>> \in SubmissionHash
    BY <1>4 DEF SubmissionHash
  <1>6. /\ s \in Session /\ s.currentJobTemplate = client[c].currentJobTemplate
        /\ s.miningSubmissionHashes = client[c].miningSubmissionHashes \cup {<<j, n>>}
    <2>1. client[c].miningSubmissionHashes \cup {<<j, n>>} \in SUBSET SubmissionHash
      BY <1>3, <1>5 DEF Session
    <2> QED
      BY <1>3, <2>1 DEF Session
  <1>7. e \in Share /\ e.client = c /\ e.job = j /\ e.nonce = n
    BY <1>4 DEF Share
  <1> HIDE DEF s, e
  <1>8. client' \in [Clients -> Session]
        /\ \A d \in Clients : client'[d] = IF d = c THEN s ELSE client[d]
    BY <1>1, <1>2, <1>6
  <1>9. /\ Append(shares, e) \in Seq(Share)
        /\ Len(Append(shares, e)) = Len(shares) + 1
        /\ \A i \in 1..Len(shares) : Append(shares, e)[i] = shares[i]
        /\ Append(shares, e)[Len(shares) + 1] = e
        /\ Len(shares) \in Nat
    BY <1>1, <1>7, AppendFacts
  <1>10. shares' \in Seq(Share)
    BY <1>1, <1>2, <1>9
  <1>11. TypeOK'
    BY <1>2, <1>8, <1>10 DEF IInv, TypeOK
  <1>12. ReferencesInv' /\ OneHeight'
    BY <1>2, <1>6, <1>8 DEF IInv, JobsInv, ReferencesInv, OneHeight
  <1>13. \A i \in 1..Len(shares) :
           /\ shares[i].client \in Clients
           /\ shares[i].job \in 1..Len(mined)
           /\ shares[i].job \in jobs =>
                <<shares[i].job, shares[i].nonce>>
                  \in client[shares[i].client].miningSubmissionHashes
           /\ shares[i] # e
    <2> SUFFICES ASSUME NEW i \in 1..Len(shares)
                 PROVE  /\ shares[i].client \in Clients
                        /\ shares[i].job \in 1..Len(mined)
                        /\ shares[i].job \in jobs =>
                             <<shares[i].job, shares[i].nonce>>
                               \in client[shares[i].client].miningSubmissionHashes
                        /\ shares[i] # e
      OBVIOUS
    <2>1. shares[i] \in Share
      BY <1>1, ElementOfSeq
    <2>2. shares[i].client \in Clients
      BY <2>1 DEF Share
    <2>3. /\ shares[i].job \in 1..Len(mined)
          /\ shares[i].job \in jobs =>
               <<shares[i].job, shares[i].nonce>>
                 \in client[shares[i].client].miningSubmissionHashes
      BY DEF IInv, JobsInv, Remembered
    <2>4. shares[i] # e
      <3> SUFFICES ASSUME shares[i] = e PROVE FALSE
        OBVIOUS
      <3>1. shares[i].client = c /\ shares[i].job = j /\ shares[i].nonce = n
        BY <1>7
      <3> QED
        BY <3>1, <2>3, <1>2
    <2> QED
      BY <2>2, <2>3, <2>4
  <1>14. \A d \in Clients :
           client[d].miningSubmissionHashes \subseteq client'[d].miningSubmissionHashes
    BY <1>6, <1>8
  <1>15. <<j, n>> \in client'[c].miningSubmissionHashes
    BY <1>6, <1>8
  <1>16. Remembered' /\ NoDuplicateShare'
    <2>1. CASE meets
      <3>1. shares' = Append(shares, e)
        BY <2>1, <1>2
      <3>2. \A i \in 1..Len(shares') : i \in 1..Len(shares) \/ i = Len(shares) + 1
        BY <3>1, <1>9
      <3>3. Remembered'
        <4> SUFFICES ASSUME NEW i \in 1..Len(shares')
                     PROVE  /\ shares'[i].job \in 1..Len(mined')
                            /\ shares'[i].job \in jobs' =>
                                 <<shares'[i].job, shares'[i].nonce>>
                                   \in client'[shares'[i].client].miningSubmissionHashes
          BY DEF Remembered
        <4>1. CASE i \in 1..Len(shares)
          <5>1. shares'[i] = shares[i]
            BY <4>1, <3>1, <1>9
          <5> QED
            BY <4>1, <5>1, <1>2, <1>13, <1>14
        <4>2. CASE i = Len(shares) + 1
          <5>1. shares'[i] = e
            BY <4>2, <3>1, <1>9
          <5> QED
            BY <5>1, <1>2, <1>7, <1>15
        <4> QED
          BY <3>2, <4>1, <4>2
      <3>4. NoDuplicateShare'
        <4> SUFFICES ASSUME NEW i \in 1..Len(shares'), NEW k \in 1..Len(shares'),
                            shares'[i] = shares'[k]
                     PROVE  i = k
          BY DEF NoDuplicateShare
        <4>1. \A a, b \in 1..Len(shares) : shares[a] = shares[b] => a = b
          BY DEF IInv, JobsInv, NoDuplicateShare
        <4> QED
          BY <4>1, <3>1, <3>2, <1>9, <1>13
      <3> QED
        BY <3>3, <3>4
    <2>2. CASE ~meets
      <3>1. shares' = shares
        BY <2>2, <1>2
      <3>2. Remembered'
        BY <3>1, <1>2, <1>13, <1>14 DEF Remembered
      <3>3. NoDuplicateShare'
        BY <3>1 DEF IInv, JobsInv, NoDuplicateShare
      <3> QED
        BY <3>2, <3>3
    <2> QED
      BY <2>1, <2>2
  <1>17. shares' # shares => JobHeight(shares'[Len(shares')].job) = lastHeight
    <2> SUFFICES ASSUME shares' # shares
                 PROVE  JobHeight(shares'[Len(shares')].job) = lastHeight
      OBVIOUS
    <2>1. shares' = Append(shares, e)
      BY <1>2
    <2>2. shares'[Len(shares')].job = j
      BY <2>1, <1>7, <1>9
    <2>3. templates[mined[j].jobTemplateId].height = lastHeight
      BY <1>2 DEF IInv, JobsInv, OneHeight
    <2> QED
      BY <2>2, <2>3 DEF JobHeight
  <1> QED
    BY <1>11, <1>12, <1>16, <1>17 DEF IInv, JobsInv

\* Steps that touch neither the registry nor the shares: requests, a write that
\* returns, the end of a session, the tip and the clock.
LEMMA QuietStep ==
  ASSUME IInv, TypeOK',
         UNCHANGED <<lastHeight, templates, blocks, mined, jobs, shares>>,
         \A d \in Clients :
           /\ client'[d].currentJobTemplate \in {NoTemplate, client[d].currentJobTemplate}
           /\ client'[d].miningSubmissionHashes = client[d].miningSubmissionHashes
  PROVE  JobsInv'
  <1>1. Len(templates) \in Nat /\ Len(mined) \in Nat
    BY LenProperties DEF IInv, TypeOK
  <1>2. \A d \in Clients : client'[d].currentJobTemplate \in 0..Len(templates)
    BY <1>1 DEF IInv, JobsInv, ReferencesInv, NoTemplate
  <1> QED
    BY <1>1, <1>2, RegistryStep

\* A request being made, answered or failing only changes its own record.
LEMMA RequestTypes ==
  ASSUME IInv, NEW r \in Requests, NEW v \in RequestState,
         request' = [request EXCEPT ![r] = v],
         UNCHANGED <<tip, clock, lastHeight, templates, blocks, mined, jobs, client, shares>>
  PROVE  IInv'
  <1>1. request' \in [Requests -> RequestState]
    BY DEF IInv, TypeOK
  <1>2. TypeOK'
    BY <1>1 DEF IInv, TypeOK
  <1>3. JobsInv'
    BY <1>2, QuietStep
  <1> QED
    BY <1>2, <1>3 DEF IInv

\* Every step keeps the invariant, and a share it accepts is not stale.
LEMMA JobsStep ==
  ASSUME IInv, [Next]_vars
  PROVE  /\ IInv'
         /\ shares' # shares => JobHeight(shares'[Len(shares')].job) = lastHeight
  <1>1. /\ tip \in Nat /\ clock \in Nat
        /\ client \in [Clients -> Session] /\ request \in [Requests -> RequestState]
        /\ Len(templates) \in Nat /\ Len(mined) \in Nat
    BY LenProperties DEF IInv, TypeOK
  <1>2. ASSUME NEW r \in Requests, NEW c \in Clients, NEW kind \in {"refresh", "difficulty"},
               StartRequest(r, c, kind),
               UNCHANGED <<tip, clock, lastHeight, templates, blocks, mined, jobs, client, shares>>
        PROVE  IInv'
    <2>1. [pc |-> "sent", client |-> c, kind |-> kind, height |-> 0] \in RequestState
      BY DEF RequestState
    <2> QED
      BY <1>2, <2>1, RequestTypes DEF StartRequest
  <1>3. ASSUME NEW r \in Requests, NodeReplies(r) \/ RequestFails(r)
        PROVE  IInv' /\ shares' = shares
    <2>1. CASE NodeReplies(r)
      <3>1. PICK v \in RequestState :
              v = [request[r] EXCEPT !.pc = "answered", !.height = tip + 1]
        <4>1. request[r] \in RequestState /\ tip + 1 \in Nat
          BY <1>1
        <4>2. \A k \in Nat : [request[r] EXCEPT !.pc = "answered", !.height = k] \in RequestState
          BY <4>1 DEF RequestState
        <4> QED
          BY <4>1, <4>2
      <3>2. /\ request' = [request EXCEPT ![r] = v]
            /\ UNCHANGED <<tip, clock, lastHeight, templates, blocks, mined, jobs, client, shares>>
        BY <2>1, <3>1 DEF NodeReplies
      <3> QED
        BY <3>2, RequestTypes
    <2>2. CASE RequestFails(r)
      <3>1. /\ request' = [request EXCEPT ![r] = IdleRequest]
            /\ UNCHANGED <<tip, clock, lastHeight, templates, blocks, mined, jobs, client, shares>>
        BY <2>2 DEF RequestFails
      <3> QED
        BY <3>1, IdleRequestType, RequestTypes
    <2> QED
      BY <1>3, <2>1, <2>2
  <1>4. ASSUME NEW r \in Requests, TemplateArrives(r) \/ CheckDifficultyResumes(r)
        PROVE  IInv' /\ shares' = shares
    <2>1. TypeOK
      BY DEF IInv
    <2>2. /\ TypeOK'
          /\ Len(templates') = Len(templates) + 1
          /\ \A t \in 1..Len(templates) : templates'[t] = templates[t]
          /\ templates'[Len(templates) + 1].height = lastHeight'
          /\ \A t \in blocks' : \/ t = Len(templates) + 1
                                \/ t \in blocks /\ lastHeight = lastHeight'
          /\ Len(mined') \in {Len(mined), Len(mined) + 1}
          /\ \A j \in 1..Len(mined) : mined'[j] = mined[j]
          /\ Len(mined') = Len(mined) + 1 =>
               mined'[Len(mined) + 1].jobTemplateId = Len(templates) + 1
          /\ jobs' \subseteq jobs \cup {Len(mined) + 1}
          /\ \A d \in Clients :
               /\ client'[d].currentJobTemplate \in
                    {client[d].currentJobTemplate, Len(templates) + 1}
               /\ \/ client'[d].miningSubmissionHashes = client[d].miningSubmissionHashes
                  \/ jobs' \subseteq {Len(mined) + 1}
          /\ shares' = shares
      BY <1>4, <2>1, ArrivalFacts
    <2>3. \A d \in Clients : client'[d].currentJobTemplate \in 0..Len(templates')
      BY <1>1, <2>2 DEF IInv, JobsInv, ReferencesInv
    <2>4. Len(templates') \in Nat /\ Len(templates') >= Len(templates)
          /\ Len(templates) + 1 \in 1..Len(templates')
      BY <1>1, <2>2
    <2>5. JobsInv'
      BY <1>1, <2>2, <2>3, <2>4, RegistryStep
    <2> QED
      BY <2>2, <2>5 DEF IInv
  <1>5. ASSUME NEW c \in Clients, refreshLocalMiningWork(c) \/ checkDifficulty(c)
        PROVE  IInv' /\ shares' = shares
    <2>1. TypeOK /\ ReferencesInv
      BY DEF IInv, JobsInv
    <2>2. /\ TypeOK'
          /\ Len(mined') = Len(mined) + 1
          /\ \A j \in 1..Len(mined) : mined'[j] = mined[j]
          /\ mined'[Len(mined) + 1].jobTemplateId \in 1..Len(templates)
          /\ jobs' \subseteq jobs \cup {Len(mined) + 1}
          /\ \A d \in Clients :
               /\ client'[d].currentJobTemplate = client[d].currentJobTemplate
               /\ client'[d].miningSubmissionHashes = client[d].miningSubmissionHashes
          /\ UNCHANGED <<lastHeight, templates, blocks, shares>>
      BY <1>5, <2>1, LocalFacts
    <2>3. \A d \in Clients : client'[d].currentJobTemplate \in 0..Len(templates')
      BY <2>1, <2>2 DEF ReferencesInv
    <2>4. JobsInv'
      BY <1>1, <2>2, <2>3, RegistryStep
    <2> QED
      BY <2>2, <2>4 DEF IInv
  <1>6. ASSUME NEW c \in Clients, destroy(c) \/ \E j \in 1..Len(mined) : JobWritten(c, j)
        PROVE  IInv' /\ shares' = shares
    <2>1. PICK s \in Session :
            /\ client' = [client EXCEPT ![c] = s]
            /\ s.currentJobTemplate \in {NoTemplate, client[c].currentJobTemplate}
            /\ s.miningSubmissionHashes = client[c].miningSubmissionHashes
      <3>1. client[c] \in Session
        BY <1>1
      <3>2. CASE destroy(c)
        <4> DEFINE v == [client[c] EXCEPT !.open = FALSE, !.unwritten = {},
                                          !.currentJobTemplate = NoTemplate]
        <4>1. /\ v \in Session /\ v.currentJobTemplate = NoTemplate
              /\ v.miningSubmissionHashes = client[c].miningSubmissionHashes
          BY <3>1 DEF Session, NoTemplate
        <4>2. client' = [client EXCEPT ![c] = v]
          BY <3>2 DEF destroy
        <4> QED
          BY <4>1, <4>2
      <3>3. ASSUME NEW j \in 1..Len(mined), JobWritten(c, j)
            PROVE  \E v \in Session :
                     /\ client' = [client EXCEPT ![c] = v]
                     /\ v.currentJobTemplate \in {NoTemplate, client[c].currentJobTemplate}
                     /\ v.miningSubmissionHashes = client[c].miningSubmissionHashes
        <4> DEFINE v == [client[c] EXCEPT !.unwritten = @ \ {j},
                                          !.lastSentMiningJobTimestamp = mined[j].timestamp]
        <4>1. mined[j] \in MiningJob
          BY ElementOfSeq DEF IInv, TypeOK
        <4>2. mined[j].timestamp \in Nat
          BY <4>1 DEF MiningJob
        <4>3. /\ v \in Session /\ v.currentJobTemplate = client[c].currentJobTemplate
              /\ v.miningSubmissionHashes = client[c].miningSubmissionHashes
          BY <3>1, <4>2 DEF Session
        <4>4. client' = [client EXCEPT ![c] = v]
          BY <3>3 DEF JobWritten
        <4> QED
          BY <4>3, <4>4
      <3> QED
        BY <1>6, <3>2, <3>3
    <2>2. UNCHANGED <<tip, clock, lastHeight, templates, blocks, mined, jobs, request, shares>>
      BY <1>6 DEF destroy, JobWritten
    <2>3. TypeOK'
      BY <1>1, <2>1, <2>2 DEF IInv, TypeOK
    <2>4. \A d \in Clients : client'[d] = IF d = c THEN s ELSE client[d]
      BY <1>1, <2>1
    <2>5. JobsInv'
      BY <2>1, <2>2, <2>3, <2>4, QuietStep
    <2> QED
      BY <2>2, <2>3, <2>5 DEF IInv
  <1>7. ASSUME NewTip \/ Tick \/ UNCHANGED vars
        PROVE  IInv' /\ shares' = shares
    <2>1. /\ tip' \in Nat /\ clock' \in Nat
          /\ UNCHANGED <<lastHeight, templates, blocks, mined, jobs, client, request, shares>>
      BY <1>1, <1>7 DEF NewTip, Tick, vars
    <2>2. TypeOK'
      BY <2>1 DEF IInv, TypeOK
    <2>3. JobsInv'
      BY <2>1, <2>2, QuietStep
    <2> QED
      BY <2>1, <2>2, <2>3 DEF IInv
  <1>8. ASSUME NEW c \in Clients, ClientStep(c)
        PROVE  /\ IInv'
               /\ shares' # shares => JobHeight(shares'[Len(shares')].job) = lastHeight
    <2>1. CASE \E r \in Requests : refreshMiningJob(c, r)
      BY <2>1, <1>2 DEF refreshMiningJob
    <2>2. CASE \E r \in Requests : CheckDifficultyFetches(c, r)
      BY <2>2, <1>2 DEF CheckDifficultyFetches
    <2>3. CASE refreshLocalMiningWork(c) \/ checkDifficulty(c)
      BY <2>3, <1>5
    <2>4. CASE \E j \in 1..Len(mined), n \in Nonces, meets \in BOOLEAN :
                 handleMiningSubmission(c, j, n, meets)
      BY <2>4, SubmissionStep
    <2>5. CASE destroy(c) \/ \E j \in 1..Len(mined) : JobWritten(c, j)
      BY <2>5, <1>6
    <2> QED
      BY <1>8, <2>1, <2>2, <2>3, <2>4, <2>5 DEF ClientStep
  <1>9. ASSUME NEW r \in Requests, RequestStep(r)
        PROVE  IInv' /\ shares' = shares
    BY <1>3, <1>4, <1>9 DEF RequestStep
  <1> QED
    BY <1>7, <1>8, <1>9 DEF Next

-----------------------------------------------------------------------------
(* The theorems.                                                           *)

\* The registry, the sessions and the duplicate sets agree in every reachable
\* state, whatever the number of sessions and the order of the node's answers.
THEOREM JobsInvariance == Spec => [](TypeOK /\ JobsInv)
  <1>1. Init => IInv
    BY JobsInit
  <1>2. IInv /\ [Next]_vars => IInv'
    BY JobsStep
  <1> QED
    BY <1>1, <1>2, PTL DEF Spec, IInv

\* handleMiningSubmission never credits a session twice for the same submission,
\* although refreshMiningJob empties miningSubmissionHashes.
THEOREM NoDuplicateShareThm == Spec => []NoDuplicateShare
  <1>1. TypeOK /\ JobsInv => NoDuplicateShare
    BY DEF JobsInv
  <1> QED
    BY <1>1, JobsInvariance, PTL

\* A share is accepted only for a template of the height last fetched, for every
\* session: clearing the registry once protects all of them.
THEOREM NoStaleShareThm == Spec => NoStaleShare
  <1>1. IInv /\ [Next]_vars =>
          [shares' # shares => JobHeight(shares'[Len(shares')].job) = lastHeight]_vars
    BY JobsStep
  <1>2. Spec => []IInv
    BY JobsInvariance DEF IInv
  <1> QED
    BY <1>1, <1>2, PTL DEF Spec, NoStaleShare

-----------------------------------------------------------------------------
(* Merkle trees.                                                           *)

\* A function on 1..n is a sequence of length n.
LEMMA SequenceFacts ==
  ASSUME NEW n \in Nat, NEW q, q = [i \in 1..n |-> q[i]]
  PROVE  Len(q) = n /\ IsSequence(q) /\ q \in Seq({q[i] : i \in 1..n})
<1> DEFINE S == {q[i] : i \in 1..n}
<1>1. q \in [1..n -> S]
  OBVIOUS
<1>2. q \in Seq(S)
  <2> HIDE DEF S
  <2> QED BY <1>1, SeqDef
<1>3. DOMAIN q = 1..n /\ Len(q) \in Nat /\ DOMAIN q = 1..Len(q)
  <2> HIDE DEF S
  <2> QED BY <1>1, <1>2, LenProperties
<1>4. Len(q) = n
  BY <1>3
<1> QED BY <1>2, <1>4 DEF IsSequence

\* The level above one of n nodes has half as many, rounded up; its first node is the
\* hash of the first two, where there are two.
LEMMA ParentsFacts ==
  ASSUME NEW v, Len(v) \in Nat \ {0}
  PROVE  /\ Len(Parents(v)) = (Len(v) + 1) \div 2 /\ Len(Parents(v)) \in Nat \ {0}
         /\ Len(v) > 1 => /\ Len(Parents(v)) < Len(v)
                          /\ Parents(v)[1] = Hash(v[1], v[2])
<1> DEFINE n == Len(v)
           m == (n + 1) \div 2
           p == Parents(v)
<1>1. m \in Nat \ {0} /\ (n > 1 => m < n)
  OBVIOUS
<1>2. p = [i \in 1..m |-> Hash(v[2 * i - 1], v[IF 2 * i <= n THEN 2 * i ELSE 2 * i - 1])]
  BY DEF Parents
<1> HIDE DEF p
<1>3. p = [i \in 1..m |-> p[i]]
  BY <1>2
<1>4. Len(p) = m
  <2> HIDE DEF m
  <2> QED BY <1>1, <1>3, SequenceFacts
<1>5. ASSUME n > 1 PROVE p[1] = Hash(v[1], v[2])
  <2>1. 1 \in 1..m /\ 2 * 1 - 1 = 1 /\ 2 * 1 <= n /\ 2 * 1 = 2
    BY <1>1, <1>5
  <2>2. p[1] = Hash(v[2 * 1 - 1], v[IF 2 * 1 <= n THEN 2 * 1 ELSE 2 * 1 - 1])
    <3> HIDE DEF m, n
    <3> QED BY <1>2, <2>1, Zenon
  <2> QED BY <2>1, <2>2
<1> QED BY <1>1, <1>4, <1>5 DEF p

\* Two levels of the same length that differ at most in the first node.
SameButFirst(v, w) ==
  Len(v) \in Nat \ {0} /\ Len(w) = Len(v) /\ \A j \in 2..Len(v) : v[j] = w[j]

\* The parents of such levels are such levels.
LEMMA ParentsAgree ==
  ASSUME NEW v, NEW w, SameButFirst(v, w)
  PROVE  SameButFirst(Parents(v), Parents(w))
<1> DEFINE n == Len(v)
           m == (n + 1) \div 2
<1>0. n \in Nat \ {0} /\ Len(w) = n /\ \A j \in 2..n : v[j] = w[j]
  BY DEF SameButFirst
<1>1. Len(Parents(v)) = m /\ Len(Parents(w)) = m /\ m \in Nat \ {0}
  BY <1>0, ParentsFacts
<1>2. ASSUME NEW j \in 2..m PROVE Parents(v)[j] = Parents(w)[j]
  <2> DEFINE k == IF 2 * j <= n THEN 2 * j ELSE 2 * j - 1
  <2>1. j \in 1..m /\ 2 * j - 1 \in 2..n /\ k \in 2..n
    BY <1>0, <1>2
  <2>2. Parents(v)[j] = Hash(v[2 * j - 1], v[k])
    BY <2>1 DEF Parents
  <2>3. Parents(w)[j] = Hash(w[2 * j - 1], w[k])
    BY <1>0, <2>1 DEF Parents
  <2> HIDE DEF k, n
  <2> QED BY <1>0, <2>1, <2>2, <2>3
<1> HIDE DEF m
<1> QED BY <1>1, <1>2 DEF SameButFirst

\* f holds the levels of the tree over the leaves.
IsTree(f, leaves) ==
  f = [i \in 1..(Len(leaves) + 1) |-> IF i = 1 THEN leaves ELSE Parents(f[i - 1])]

Tree(leaves) == CHOOSE f : IsTree(f, leaves)

Height(leaves) ==
  CHOOSE h \in 1..(Len(leaves) + 1) : /\ Len(Tree(leaves)[h]) = 1
                                      /\ \A i \in 1..(h - 1) : Len(Tree(leaves)[i]) > 1

\* Levels in terms of these.
LEMMA LevelsDef ==
  ASSUME NEW leaves
  PROVE  Levels(leaves) = [i \in 1..Height(leaves) |-> Tree(leaves)[i]]
BY DEF Levels, Height, Tree, IsTree

\* The recursion of the levels has a solution, for any number of leaves.
LEMMA TreeExists ==
  ASSUME NEW leaves, Len(leaves) \in Nat
  PROVE  IsTree(Tree(leaves), leaves)
<1> DEFINE Good(f, n) == \A i \in 1..n : f[i] = IF i = 1 THEN leaves ELSE Parents(f[i - 1])
           T == {n \in Nat : \E f : Good(f, n)}
<1>1. 0 \in T
  <2>1. Good([i \in {} |-> 0], 0)
    OBVIOUS
  <2> QED BY <2>1
<1>2. ASSUME NEW n \in T PROVE n + 1 \in T
  <2>1. n \in Nat
    OBVIOUS
  <2>2. PICK f : Good(f, n)
    OBVIOUS
  <2> DEFINE last == IF n + 1 = 1 THEN leaves ELSE Parents(f[n])
             g == [i \in 1..(n + 1) |-> IF i = n + 1 THEN last ELSE f[i]]
  <2>3. ASSUME NEW i \in 1..(n + 1)
        PROVE  g[i] = IF i = 1 THEN leaves ELSE Parents(g[i - 1])
    <3>1. CASE i = n + 1
      <4>1. n + 1 # 1 => n \in 1..(n + 1) /\ n # n + 1 /\ (n + 1) - 1 = n
        BY <2>1
      <4>2. n + 1 # 1 => g[(n + 1) - 1] = f[n]
        BY <4>1
      <4> QED BY <3>1, <4>2
    <3>2. CASE i # n + 1
      <4>1. i \in 1..n /\ i # n + 1
        BY <2>1, <3>2
      <4>2. i # 1 => i - 1 \in 1..(n + 1) /\ i - 1 # n + 1
        BY <2>1, <4>1
      <4>3. g[i] = f[i] /\ (i # 1 => g[i - 1] = f[i - 1])
        BY <4>1, <4>2
      <4> HIDE DEF g
      <4> QED BY <2>2, <4>1, <4>3
    <3> QED BY <3>1, <3>2
  <2> HIDE DEF g
  <2>4. Good(g, n + 1)
    BY <2>3
  <2> QED BY <2>1, <2>4
<1>3. T = Nat
  <2>1. T \subseteq Nat
    OBVIOUS
  <2> HIDE DEF T
  <2> QED BY <1>1, <1>2, <2>1, NatSetInduction
<1>4. Len(leaves) + 1 \in T
  <2>1. Len(leaves) + 1 \in Nat
    OBVIOUS
  <2> HIDE DEF T
  <2> QED BY <1>3, <2>1
<1>5. PICK f : Good(f, Len(leaves) + 1)
  BY <1>4
<1> DEFINE g == [i \in 1..(Len(leaves) + 1) |-> f[i]]
<1>6. ASSUME NEW i \in 1..(Len(leaves) + 1)
      PROVE  g[i] = IF i = 1 THEN leaves ELSE Parents(g[i - 1])
  <2>1. i # 1 => i - 1 \in 1..(Len(leaves) + 1)
    OBVIOUS
  <2>2. g[i] = f[i] /\ (i # 1 => g[i - 1] = f[i - 1])
    BY <2>1
  <2> HIDE DEF g
  <2> QED BY <1>5, <2>2
<1>7. IsTree(g, leaves)
  BY <1>6 DEF IsTree
<1> QED BY <1>7 DEF Tree

\* The first level is the leaves, each other one the parents of the one below.
LEMMA TreeLevels ==
  ASSUME NEW leaves, Len(leaves) \in Nat \ {0}
  PROVE  /\ Tree(leaves)[1] = leaves
         /\ \A i \in 1..Len(leaves) : Tree(leaves)[i + 1] = Parents(Tree(leaves)[i])
<1> DEFINE t == Tree(leaves)
<1>1. t = [i \in 1..(Len(leaves) + 1) |-> IF i = 1 THEN leaves ELSE Parents(t[i - 1])]
  BY TreeExists DEF IsTree
<1> HIDE DEF t
<1>2. t[1] = leaves
  <2>1. 1 \in 1..(Len(leaves) + 1)
    OBVIOUS
  <2> QED BY <1>1, <2>1
<1>3. ASSUME NEW i \in 1..Len(leaves) PROVE t[i + 1] = Parents(t[i])
  <2>1. i + 1 \in 1..(Len(leaves) + 1) /\ i + 1 # 1 /\ (i + 1) - 1 = i
    OBVIOUS
  <2>2. t[i + 1] = Parents(t[(i + 1) - 1])
    BY <1>1, <2>1, Zenon
  <2> QED BY <2>1, <2>2
<1> QED BY <1>2, <1>3 DEF t

\* Trees over leaves that differ in the first one differ in the first node of each level;
\* a level has at least one node less than the one below, until there is one.
LEMMA TreesAgree ==
  ASSUME NEW v, NEW w, SameButFirst(v, w)
  PROVE  \A i \in 1..Len(v) : /\ SameButFirst(Tree(v)[i], Tree(w)[i])
                              /\ Len(Tree(v)[i]) <= Len(v) + 1 - i
<1> DEFINE N == Len(v)
           s == Tree(v)
           t == Tree(w)
           Q(i) == SameButFirst(s[i], t[i]) /\ Len(s[i]) <= N + 1 - i
           T == {n \in Nat : n + 1 \in 1..N => Q(n + 1)}
<1>0. N \in Nat \ {0} /\ Len(w) = N
  BY DEF SameButFirst
<1>1. /\ s[1] = v /\ t[1] = w
      /\ \A i \in 1..N : s[i + 1] = Parents(s[i]) /\ t[i + 1] = Parents(t[i])
  BY <1>0, TreeLevels
<1> HIDE DEF s, t
<1>2. 0 \in T
  <2>1. 0 + 1 = 1 /\ N <= N + 1 - 1
    BY <1>0
  <2>2. Q(1)
    BY <1>1, <2>1
  <2> HIDE DEF Q
  <2> QED BY <2>1, <2>2
<1>3. ASSUME NEW n \in T PROVE n + 1 \in T
  <2>1. SUFFICES ASSUME (n + 1) + 1 \in 1..N PROVE Q((n + 1) + 1)
    OBVIOUS
  <2> DEFINE i == n + 1
  <2>2. i \in 1..N /\ i \in Nat /\ i + 1 <= N /\ N \in Nat
    BY <1>0, <2>1
  <2>3. SameButFirst(s[i], t[i]) /\ Len(s[i]) <= N + 1 - i
    BY <2>2
  <2> HIDE DEF i
  <2>4. Len(s[i]) \in Nat \ {0}
    BY <2>3 DEF SameButFirst
  <2>5. s[i + 1] = Parents(s[i]) /\ t[i + 1] = Parents(t[i])
    BY <1>1, <2>2
  <2>6. SameButFirst(s[i + 1], t[i + 1])
    BY <2>3, <2>5, ParentsAgree
  <2>7. Len(s[i + 1]) <= N + 1 - (i + 1)
    <3> DEFINE a == Len(s[i])
               b == Len(Parents(s[i]))
    <3>1. a <= N + 1 - i /\ a \in Nat \ {0} /\ b = (a + 1) \div 2 /\ (a > 1 => b < a) /\ b \in Nat
      BY <2>3, <2>4, ParentsFacts
    <3> HIDE DEF a, b, N
    <3>2. CASE a > 1
      <4>1. b <= N + 1 - (i + 1)
        BY <2>2, <3>1, <3>2
      <4> QED BY <2>5, <4>1 DEF b
    <3>3. CASE a = 1
      <4>1. b = 1 /\ 1 <= N + 1 - (i + 1)
        BY <2>2, <3>1, <3>3
      <4> QED BY <2>5, <4>1 DEF b
    <3> QED BY <3>1, <3>2, <3>3
  <2> QED BY <2>6, <2>7 DEF i
<1>4. T = Nat
  <2>1. T \subseteq Nat
    OBVIOUS
  <2> HIDE DEF T
  <2> QED BY <1>2, <1>3, <2>1, NatSetInduction
<1>5. ASSUME NEW i \in 1..N PROVE Q(i)
  <2>1. i - 1 \in Nat /\ (i - 1) + 1 = i
    BY <1>0
  <2>2. i - 1 \in T
    <3> HIDE DEF T
    <3> QED BY <1>4, <2>1
  <2>3. (i - 1) + 1 \in 1..N => Q((i - 1) + 1)
    BY <2>2
  <2> HIDE DEF Q
  <2> QED BY <2>1, <2>3
<1> QED BY <1>5 DEF s, t

\* A tree has a first level with one node, its height.
LEMMA HeightFacts ==
  ASSUME NEW v, Len(v) \in Nat \ {0}
  PROVE  /\ Height(v) \in 1..Len(v) /\ Len(Tree(v)[Height(v)]) = 1
         /\ \A i \in 1..(Height(v) - 1) : Len(Tree(v)[i]) > 1
<1> DEFINE N == Len(v)
           t == Tree(v)
           Top(h) == Len(t[h]) = 1 /\ \A i \in 1..(h - 1) : Len(t[i]) > 1
           T == {n \in Nat : n <= N => \/ \A i \in 1..n : Len(t[i]) > 1
                                       \/ \E h \in 1..n : Top(h)}
<1>1. \A i \in 1..N : Len(t[i]) \in Nat \ {0} /\ Len(t[i]) <= N + 1 - i
  <2>1. SameButFirst(v, v)
    BY DEF SameButFirst
  <2> QED BY <2>1, TreesAgree DEF SameButFirst
<1> HIDE DEF t
<1>2. 0 \in T
  OBVIOUS
<1>3. ASSUME NEW n \in T PROVE n + 1 \in T
  <2>1. SUFFICES ASSUME n + 1 <= N
                 PROVE  \/ \A i \in 1..(n + 1) : Len(t[i]) > 1
                        \/ \E h \in 1..(n + 1) : Top(h)
    OBVIOUS
  <2>2. n \in Nat /\ n <= N /\ n + 1 \in 1..N /\ 1..n \subseteq 1..(n + 1)
        /\ (n + 1) - 1 = n /\ \A i \in 1..(n + 1) : i \in 1..n \/ i = n + 1
    BY <2>1
  <2>3. CASE \E h \in 1..n : Top(h)
    BY <2>2, <2>3
  <2>4. CASE \A i \in 1..n : Len(t[i]) > 1
    <3>1. Len(t[n + 1]) = 1 \/ Len(t[n + 1]) > 1
      <4>1. Len(t[n + 1]) \in Nat \ {0}
        BY <1>1, <2>2
      <4>2. \A x \in Nat \ {0} : x = 1 \/ x > 1
        OBVIOUS
      <4> QED BY <4>1, <4>2, Zenon
    <3>2. CASE Len(t[n + 1]) = 1
      <4>1. Top(n + 1) /\ n + 1 \in 1..(n + 1)
        BY <2>2, <2>4, <3>2
      <4> QED BY <4>1
    <3>3. CASE Len(t[n + 1]) > 1
      BY <2>2, <2>4, <3>3
    <3> QED BY <3>1, <3>2, <3>3
  <2> QED BY <2>2, <2>3, <2>4
<1>4. T = Nat
  <2>1. T \subseteq Nat
    OBVIOUS
  <2> HIDE DEF T
  <2> QED BY <1>2, <1>3, <2>1, NatSetInduction
<1>5. N \in T
  <2> HIDE DEF T
  <2> QED BY <1>4
<1>6. N \in 1..N /\ ~(Len(t[N]) > 1)
  BY <1>1
<1>7. \E h \in 1..N : Top(h)
  BY <1>5, <1>6
<1>8. Height(v) = CHOOSE h \in 1..(N + 1) : Top(h)
  BY DEF Height, t
<1>9. Height(v) \in 1..(N + 1) /\ Top(Height(v))
  <2>1. \E h \in 1..(N + 1) : Top(h)
    BY <1>7
  <2> HIDE DEF Top
  <2> QED BY <1>8, <2>1
<1>10. Height(v) # N + 1
  <2>1. N \in 1..((N + 1) - 1)
    OBVIOUS
  <2> QED BY <1>6, <1>9, <2>1
<1>11. Height(v) \in 1..N
  BY <1>9, <1>10
<1> QED BY <1>9, <1>11 DEF t

\* Trees over leaves that differ in the first one have the same height.
LEMMA HeightsAgree ==
  ASSUME NEW v, NEW w, SameButFirst(v, w)
  PROVE  Height(w) = Height(v)
<1> DEFINE g == Height(v)
           h == Height(w)
<1>0. /\ Len(v) \in Nat \ {0} /\ Len(w) = Len(v)
      /\ \A i \in 1..Len(v) : Len(Tree(w)[i]) = Len(Tree(v)[i])
  BY TreesAgree DEF SameButFirst
<1>1. /\ g \in 1..Len(v) /\ Len(Tree(v)[g]) = 1
      /\ \A i \in 1..(g - 1) : Len(Tree(v)[i]) > 1
  BY <1>0, HeightFacts
<1>2. /\ h \in 1..Len(v) /\ Len(Tree(w)[h]) = 1
      /\ \A i \in 1..(h - 1) : Len(Tree(w)[i]) > 1
  BY <1>0, HeightFacts
<1> HIDE DEF g, h
<1>3. Len(Tree(w)[g]) = Len(Tree(v)[g]) /\ Len(Tree(w)[h]) = Len(Tree(v)[h])
  BY <1>0, <1>1, <1>2
<1>4. ~(g < h)
  <2>1. g < h => g \in 1..(h - 1)
    BY <1>1, <1>2
  <2>2. Len(Tree(w)[g]) = 1
    BY <1>1, <1>3
  <2>3. ~(Len(Tree(w)[g]) > 1)
    BY <2>2
  <2> QED BY <1>2, <2>1, <2>3
<1>5. ~(h < g)
  <2>1. h < g => h \in 1..(g - 1)
    BY <1>1, <1>2
  <2>2. Len(Tree(v)[h]) = 1
    BY <1>2, <1>3
  <2>3. ~(Len(Tree(v)[h]) > 1)
    BY <2>2
  <2> QED BY <1>1, <2>1, <2>3
<1> QED BY <1>1, <1>2, <1>4, <1>5 DEF g, h

\* f holds the nodes on the way from the new first leaf to the root.
IsPath(f, leaf, branch) ==
  f = [i \in 0..Len(branch) |-> IF i = 0 THEN leaf ELSE Hash(f[i - 1], branch[i])]

\* calculateMerkleRootHash in terms of these.
LEMMA PathDef ==
  ASSUME NEW leaf, NEW branch
  PROVE  calculateMerkleRootHash(leaf, branch) =
           (CHOOSE f : IsPath(f, leaf, branch))[Len(branch)]
BY DEF calculateMerkleRootHash, IsPath

\* The recursion of a path, node by node.
LEMMA PathNodes ==
  \A leaf, branch, f : Len(branch) \in Nat /\ IsPath(f, leaf, branch) =>
    f[0] = leaf /\ \A i \in 1..Len(branch) : f[i] = Hash(f[i - 1], branch[i])
<1> SUFFICES ASSUME NEW leaf, NEW branch, NEW f, Len(branch) \in Nat, IsPath(f, leaf, branch)
             PROVE  f[0] = leaf /\ \A i \in 1..Len(branch) : f[i] = Hash(f[i - 1], branch[i])
  OBVIOUS
<1> DEFINE n == Len(branch)
<1>1. f = [i \in 0..n |-> IF i = 0 THEN leaf ELSE Hash(f[i - 1], branch[i])]
  BY DEF IsPath
<1>2. 0 \in 0..n /\ \A i \in 1..n : i \in 0..n /\ i # 0
  OBVIOUS
<1> HIDE DEF n
<1>3. f[0] = leaf /\ \A i \in 1..n : f[i] = Hash(f[i - 1], branch[i])
  BY <1>1, <1>2, Zenon
<1> QED BY <1>3 DEF n

\* Two paths up one branch that meet at the root have the same leaf.
LEMMA PathsMeet ==
  ASSUME NEW a, NEW b, NEW branch, Len(branch) \in Nat,
         NEW f, IsPath(f, a, branch), NEW g, IsPath(g, b, branch),
         f[Len(branch)] = g[Len(branch)]
  PROVE  a = b
<1> DEFINE n == Len(branch)
           T == {k \in Nat : k <= n => f[n - k] = g[n - k]}
<1>1. /\ f[0] = a /\ \A i \in 1..n : f[i] = Hash(f[i - 1], branch[i])
      /\ g[0] = b /\ \A i \in 1..n : g[i] = Hash(g[i - 1], branch[i])
  <2>1. f[0] = a /\ \A i \in 1..Len(branch) : f[i] = Hash(f[i - 1], branch[i])
    BY PathNodes
  <2>2. g[0] = b /\ \A i \in 1..Len(branch) : g[i] = Hash(g[i - 1], branch[i])
    BY PathNodes
  <2> QED BY <2>1, <2>2
<1>2. 0 \in T
  <2>1. n - 0 = n
    OBVIOUS
  <2> QED BY <2>1
<1>3. ASSUME NEW k \in T PROVE k + 1 \in T
  <2>1. k \in Nat
    OBVIOUS
  <2>2. ASSUME k + 1 <= n PROVE f[n - (k + 1)] = g[n - (k + 1)]
    <3> DEFINE i == n - k
    <3>1. i \in 1..n /\ i - 1 = n - (k + 1) /\ k <= n
      BY <2>1, <2>2
    <3>2. f[i] = g[i]
      BY <3>1
    <3> HIDE DEF i, n
    <3>3. Hash(f[i - 1], branch[i]) = Hash(g[i - 1], branch[i])
      BY <1>1, <3>1, <3>2
    <3>4. Hash(f[i - 1], branch[i]).left = f[i - 1] /\ Hash(g[i - 1], branch[i]).left = g[i - 1]
      BY DEF Hash
    <3>5. f[i - 1] = g[i - 1]
      BY <3>3, <3>4
    <3> QED BY <3>1, <3>5
  <2> QED BY <2>1, <2>2
<1>4. T = Nat
  <2>1. T \subseteq Nat
    OBVIOUS
  <2> HIDE DEF T
  <2> QED BY <1>2, <1>3, <2>1, NatSetInduction
<1>5. n \in T
  <2> HIDE DEF T
  <2> QED BY <1>4
<1>6. f[0] = g[0]
  <2>1. n <= n /\ n - n = 0
    OBVIOUS
  <2>2. f[n - n] = g[n - n]
    BY <1>5, <2>1
  <2> QED BY <2>1, <2>2
<1> QED BY <1>1, <1>6

\* A function that satisfies the recursion of the path ends where calculateMerkleRootHash
\* does.
LEMMA PathIs ==
  ASSUME NEW leaf, NEW branch, Len(branch) \in Nat, NEW g, IsPath(g, leaf, branch)
  PROVE  calculateMerkleRootHash(leaf, branch) = g[Len(branch)]
<1> DEFINE n == Len(branch)
           f == CHOOSE x : IsPath(x, leaf, branch)
           T == {k \in Nat : k <= n => f[k] = g[k]}
<1>1. IsPath(f, leaf, branch)
  OBVIOUS
<1> HIDE DEF f
<1>2. ASSUME NEW x, IsPath(x, leaf, branch)
      PROVE  x[0] = leaf /\ \A i \in 1..n : x[i] = Hash(x[i - 1], branch[i])
  <2>1. x[0] = leaf /\ \A i \in 1..Len(branch) : x[i] = Hash(x[i - 1], branch[i])
    BY <1>2, PathNodes
  <2> QED BY <2>1
<1>3. 0 \in T
  BY <1>1, <1>2
<1>4. ASSUME NEW k \in T PROVE k + 1 \in T
  <2>1. k \in Nat /\ (k + 1) - 1 = k /\ (k + 1 <= n => k <= n /\ k + 1 \in 1..n)
    OBVIOUS
  <2>2. ASSUME k + 1 <= n PROVE f[k + 1] = g[k + 1]
    <3>1. f[k + 1] = Hash(f[(k + 1) - 1], branch[k + 1]) /\ g[k + 1] = Hash(g[(k + 1) - 1], branch[k + 1])
      BY <1>1, <1>2, <2>1, <2>2
    <3> QED BY <2>1, <2>2, <3>1
  <2> QED BY <2>1, <2>2
<1>5. T = Nat
  <2>1. T \subseteq Nat
    OBVIOUS
  <2> HIDE DEF T
  <2> QED BY <1>3, <1>4, <2>1, NatSetInduction
<1>6. f[n] = g[n]
  <2>1. n \in T
    <3> HIDE DEF T
    <3> QED BY <1>5
  <2> QED BY <2>1
<1> QED BY <1>6, PathDef DEF f

\* A branch computed with any first leaf gives, with a new first leaf, the root of the
\* tree over the new leaves, for every number of leaves.
LEMMA BranchCommits ==
  ASSUME NEW v, NEW w, SameButFirst(v, w)
  PROVE  /\ calculateMerkleRootHash(w[1], merkleBranch(v)) = calculateMerkleRoot(w)
         /\ Len(merkleBranch(v)) \in Nat
         /\ \E g : IsPath(g, w[1], merkleBranch(v))
<1> DEFINE h == Height(v)
           s == Tree(v)
           t == Tree(w)
           b == [i \in 1..(h - 1) |-> s[i][2]]
           g == [i \in 0..(h - 1) |-> t[i + 1][1]]
<1>1. Height(w) = h
  BY HeightsAgree
<1>2. /\ h \in 1..Len(v) /\ h - 1 \in Nat
      /\ \A i \in 1..(h - 1) : Len(s[i]) > 1
  <2>1. h \in 1..Len(v) /\ \A i \in 1..(h - 1) : Len(s[i]) > 1
    BY HeightFacts DEF SameButFirst
  <2> HIDE DEF h, s
  <2> QED BY <2>1
<1>0. \A i \in 1..Len(v) : SameButFirst(s[i], t[i])
  BY TreesAgree
<1>3. \A i \in 1..(h - 1) : /\ Len(t[i]) > 1 /\ Len(t[i]) \in Nat \ {0} /\ s[i][2] = t[i][2]
                            /\ t[i + 1] = Parents(t[i])
  <2>1. ASSUME NEW i \in 1..(h - 1)
        PROVE  /\ Len(t[i]) > 1 /\ Len(t[i]) \in Nat \ {0} /\ s[i][2] = t[i][2]
               /\ t[i + 1] = Parents(t[i])
    <3>1. i \in 1..Len(v)
      BY <1>2
    <3>2. /\ Len(s[i]) \in Nat \ {0} /\ Len(t[i]) = Len(s[i])
          /\ \A j \in 2..Len(s[i]) : s[i][j] = t[i][j]
      BY <1>0, <3>1 DEF SameButFirst
    <3>3. 2 \in 2..Len(s[i])
      BY <1>2, <3>2
    <3>4. t[i + 1] = Parents(t[i])
      BY <3>1, TreeLevels DEF SameButFirst
    <3> HIDE DEF s, t
    <3>5. Len(t[i]) > 1 /\ Len(t[i]) \in Nat \ {0}
      BY <1>2, <3>2, <3>3
    <3> QED BY <3>2, <3>3, <3>4, <3>5
  <2> QED BY <2>1
<1>4. t[1] = w
  BY TreeLevels DEF SameButFirst
<1> HIDE DEF h, s, t
<1>5. Levels(v) = [i \in 1..h |-> s[i]] /\ Levels(w) = [i \in 1..h |-> t[i]]
  BY <1>1, LevelsDef DEF h, s, t
<1>6. Len(Levels(v)) = h /\ Len(Levels(w)) = h
  <2>1. h \in Nat
    BY <1>2
  <2>2. Levels(v) = [i \in 1..h |-> Levels(v)[i]] /\ Levels(w) = [i \in 1..h |-> Levels(w)[i]]
    BY <1>5
  <2> QED BY <2>1, <2>2, SequenceFacts
<1>7. merkleBranch(v) = b
  <2>1. \A i \in 1..(h - 1) : Levels(v)[i] = s[i]
    BY <1>2, <1>5
  <2> QED BY <1>6, <2>1 DEF merkleBranch
<1>8. Len(b) = h - 1
  <2>1. b = [i \in 1..(h - 1) |-> b[i]]
    OBVIOUS
  <2> HIDE DEF b
  <2> QED BY <1>2, <2>1, SequenceFacts
<1>9. calculateMerkleRoot(w) = t[h][1]
  <2>1. h \in 1..h
    BY <1>2
  <2> QED BY <1>5, <1>6, <2>1 DEF calculateMerkleRoot
<1>10. IsPath(g, w[1], b)
  <2>1. ASSUME NEW i \in 0..(h - 1)
        PROVE  g[i] = IF i = 0 THEN w[1] ELSE Hash(g[i - 1], b[i])
    <3>1. CASE i = 0
      <4>1. g[0] = t[0 + 1][1] /\ 0 + 1 = 1
        BY <1>2
      <4> QED BY <1>4, <3>1, <4>1
    <3>2. CASE i # 0
      <4>1. i \in 1..(h - 1) /\ i - 1 \in 0..(h - 1) /\ (i - 1) + 1 = i
        BY <1>2, <3>2
      <4>2. g[i] = t[i + 1][1] /\ g[i - 1] = t[i][1] /\ b[i] = s[i][2]
        BY <4>1
      <4>3. Parents(t[i])[1] = Hash(t[i][1], t[i][2])
        BY <1>3, <4>1, ParentsFacts
      <4>4. g[i] = Hash(g[i - 1], b[i])
        BY <1>3, <4>1, <4>2, <4>3
      <4> HIDE DEF g, b
      <4> QED BY <3>2, <4>4
    <3> QED BY <3>1, <3>2
  <2>2. g = [i \in 0..(h - 1) |-> g[i]]
    OBVIOUS
  <2> HIDE DEF g, b
  <2>3. g = [i \in 0..(h - 1) |-> IF i = 0 THEN w[1] ELSE Hash(g[i - 1], b[i])]
    BY <2>1, <2>2
  <2> QED BY <1>8, <2>3 DEF IsPath
<1>11. g[h - 1] = t[h][1]
  <2>1. h - 1 \in 0..(h - 1) /\ (h - 1) + 1 = h
    BY <1>2
  <2> QED BY <2>1
<1> HIDE DEF g, b
<1>12. Len(b) \in Nat
  BY <1>2, <1>8
<1>13. calculateMerkleRootHash(w[1], b) = g[h - 1]
  BY <1>8, <1>10, <1>12, PathIs
<1> QED BY <1>7, <1>9, <1>10, <1>11, <1>12, <1>13

\* With one branch, different first leaves have different roots.
LEMMA RootTellsLeaf ==
  ASSUME NEW u, NEW v, NEW w, SameButFirst(u, v), SameButFirst(u, w),
         calculateMerkleRootHash(v[1], merkleBranch(u)) =
           calculateMerkleRootHash(w[1], merkleBranch(u))
  PROVE  v[1] = w[1]
<1> DEFINE b == merkleBranch(u)
<1>1. Len(b) \in Nat /\ \E g : IsPath(g, v[1], b)
  BY BranchCommits
<1>2. \E g : IsPath(g, w[1], b)
  BY BranchCommits
<1> HIDE DEF b
<1>3. PICK f : IsPath(f, v[1], b)
  BY <1>1
<1>4. PICK g : IsPath(g, w[1], b)
  BY <1>2
<1>5. calculateMerkleRootHash(v[1], b) = f[Len(b)]
  BY <1>1, <1>3, PathIs
<1>6. calculateMerkleRootHash(w[1], b) = g[Len(b)]
  BY <1>1, <1>4, PathIs
<1>7. f[Len(b)] = g[Len(b)]
  BY <1>5, <1>6 DEF b
<1> QED BY <1>1, <1>3, <1>4, <1>7, PathsMeet

-----------------------------------------------------------------------------
(* Jobs and shares.                                                        *)

\* What appending to a sequence of whatever values leaves in place and adds.
LEMMA AppendAny ==
  ASSUME NEW q, IsSequence(q), NEW e
  PROVE  /\ IsSequence(Append(q, e)) /\ Len(Append(q, e)) = Len(q) + 1
         /\ \A i \in 1..Len(q) : Append(q, e)[i] = q[i]
         /\ Append(q, e)[Len(q) + 1] = e
<1> DEFINE S == {q[i] : i \in 1..Len(q)} \cup {e}
           a == Append(q, e)
<1>1. Len(q) \in Nat /\ q = [i \in 1..Len(q) |-> q[i]]
  BY DEF IsSequence
<1>2. q \in Seq({q[i] : i \in 1..Len(q)})
  BY <1>1, SequenceFacts
<1>3. q \in Seq(S) /\ e \in S
  BY <1>2, SeqMonotonic
<1> HIDE DEF S
<1>4. /\ a \in Seq(S) /\ Len(a) = Len(q) + 1
      /\ \A i \in 1..Len(q) : a[i] = q[i]
      /\ a[Len(q) + 1] = e
  BY <1>3, AppendProperties
<1>5. IsSequence(a)
  <2>1. Len(a) \in Nat /\ a \in [1..Len(a) -> S]
    BY <1>4, LenProperties
  <2> QED BY <2>1 DEF IsSequence
<1> QED BY <1>4, <1>5

\* A block with its own coinbase differs from its template in the first transaction.
LEMMA ReplaceFirst ==
  ASSUME NEW x, IsSequence(x), Len(x) > 0, NEW c
  PROVE  SameButFirst(x, << c >> \o Tail(x)) /\ (<< c >> \o Tail(x))[1] = c
<1> DEFINE S == {x[i] : i \in 1..Len(x)} \cup {c}
           w == << c >> \o Tail(x)
<1>1. Len(x) \in Nat /\ x = [i \in 1..Len(x) |-> x[i]]
  BY DEF IsSequence
<1>2. x \in Seq({x[i] : i \in 1..Len(x)})
  BY <1>1, SequenceFacts
<1>3. x \in Seq(S) /\ << c >> \in Seq(S) /\ Len(<< c >>) = 1 /\ << c >>[1] = c
  BY <1>2, SeqMonotonic
<1> HIDE DEF S
<1>4. x # << >>
  BY <1>3
<1>5. /\ Tail(x) \in Seq(S) /\ Len(Tail(x)) = Len(x) - 1
      /\ \A i \in 1..(Len(x) - 1) : Tail(x)[i] = x[i + 1]
  BY <1>3, <1>4, HeadTailProperties
<1>6. /\ Len(w) = Len(x)
      /\ \A i \in 1..Len(w) : w[i] = IF i <= 1 THEN << c >>[i] ELSE Tail(x)[i - 1]
  BY <1>1, <1>3, <1>5, ConcatProperties
<1>7. w[1] = c
  BY <1>1, <1>3, <1>6
<1>8. \A j \in 2..Len(x) : x[j] = w[j]
  <2>1. ASSUME NEW j \in 2..Len(x) PROVE x[j] = w[j]
    <3>1. j - 1 \in 1..(Len(x) - 1) /\ (j - 1) + 1 = j /\ j \in 1..Len(w) /\ ~(j <= 1)
      BY <1>1, <1>6
    <3>2. Tail(x)[j - 1] = x[(j - 1) + 1]
      BY <1>5, <3>1
    <3> HIDE DEF w
    <3> QED BY <1>6, <3>1, <3>2
  <2> QED BY <2>1
<1> QED BY <1>1, <1>6, <1>7, <1>8 DEF SameButFirst

\* A new template is a good one: its transactions are the placeholder and n others.
LEMMA TemplateBuilt ==
  ASSUME NEW n \in Nat, NEW t
  PROVE  LET x == << Placeholder >> \o [i \in 1..n |-> [template |-> t, nr |-> i]]
         IN  IsSequence(x) /\ Len(x) > 0
<1> DEFINE r == [i \in 1..n |-> [template |-> t, nr |-> i]]
           S == {r[i] : i \in 1..n} \cup {Placeholder}
           x == << Placeholder >> \o r
<1>1. r = [i \in 1..n |-> r[i]]
  OBVIOUS
<1>2. Len(r) = n /\ r \in Seq({r[i] : i \in 1..n})
  <2> HIDE DEF r
  <2> QED BY <1>1, SequenceFacts
<1>3. r \in Seq(S) /\ << Placeholder >> \in Seq(S) /\ Len(<< Placeholder >>) = 1
  <2> HIDE DEF r
  <2> QED BY <1>2, SeqMonotonic
<1> HIDE DEF r, S
<1>4. x \in Seq(S) /\ Len(x) = 1 + n
  BY <1>2, <1>3, ConcatProperties
<1> HIDE DEF x
<1>5. Len(x) \in Nat /\ x \in [1..Len(x) -> S]
  BY <1>4, LenProperties
<1>6. IsSequence(x)
  BY <1>5 DEF IsSequence
<1>7. IsSequence(x) /\ Len(x) > 0
  BY <1>4, <1>6
<1> QED BY <1>7 DEF x, r

\* No version of a job uses a bit of the miner's mask.
LEMMA VersionOutsideMask ==
  ASSUME NEW v \in NodeVersions, NEW state
  PROVE  jobVersion(v, state) \cap MinerBits = {}
BY WorkAssumption DEF jobVersion

\* Templates and jobs stay as they were when they were made.
LEMMA WorkInvStep ==
  ASSUME WorkInv, [WorkNext]_workVars
  PROVE  WorkInv'
<1>0. /\ IsSequence(fetched) /\ \A t \in 1..Len(fetched) : TemplateOK(fetched[t])
      /\ IsSequence(notified) /\ \A j \in 1..Len(notified) : JobOK(notified[j])
      /\ Len(fetched) \in Nat /\ Len(notified) \in Nat
      /\ isHobbyMinerSession \in BOOLEAN
  BY DEF WorkInv, IsSequence
<1>1. ASSUME NEW n \in Transactions, NEW v \in NodeVersions, NEW o \in NodeOutputs,
             NEW p \in NodePrefixes, buildTemplate(n, v, o, p)
      PROVE  WorkInv'
  <2> DEFINE t == Len(fetched) + 1
             transactions == << Placeholder >> \o [i \in 1..n |-> [template |-> t, nr |-> i]]
             x == [prevHash |-> t, height |-> t, coinbasevalue |-> t, version |-> v,
                   transactions |-> transactions, merkle_branch |-> merkleBranch(transactions),
                   coinbase_required_outputs |-> o, coinbase_script_sig_prefix |-> p]
  <2>1. /\ fetched' = Append(fetched, x) /\ notified' = notified
        /\ isHobbyMinerSession' = isHobbyMinerSession
    BY <1>1 DEF buildTemplate
  <2>2. n \in Nat
    BY WorkAssumption
  <2>3. IsSequence(transactions) /\ Len(transactions) > 0
    BY <2>2, TemplateBuilt
  <2> HIDE DEF transactions
  <2>4. TemplateOK(x)
    BY <2>3 DEF TemplateOK
  <2> HIDE DEF x
  <2>5. /\ IsSequence(fetched') /\ Len(fetched') = Len(fetched) + 1
        /\ \A i \in 1..Len(fetched) : fetched'[i] = fetched[i]
        /\ fetched'[Len(fetched) + 1] = x
    BY <1>0, <2>1, AppendAny
  <2>6. ASSUME NEW i \in 1..Len(fetched') PROVE TemplateOK(fetched'[i])
    <3>1. i \in 1..Len(fetched) \/ i = Len(fetched) + 1
      BY <1>0, <2>5
    <3> QED BY <1>0, <2>4, <2>5, <3>1
  <2>7. ASSUME NEW j \in 1..Len(notified) PROVE JobOK(notified[j])'
    <3>1. notified[j].template \in 1..Len(fetched)
      BY <1>0 DEF JobOK
    <3>2. fetched'[notified[j].template] = fetched[notified[j].template]
      BY <2>5, <3>1
    <3>3. notified[j].template \in 1..Len(fetched')
      BY <1>0, <2>5, <3>1
    <3> QED BY <1>0, <2>1, <3>2, <3>3 DEF JobOK
  <2>8. (\A i \in 1..Len(fetched) : TemplateOK(fetched[i]))'
    BY <2>6 DEF TemplateOK
  <2>9. (\A j \in 1..Len(notified) : JobOK(notified[j]))'
    BY <2>1, <2>7
  <2> QED BY <1>0, <2>1, <2>5, <2>8, <2>9 DEF WorkInv
<1>2. ASSUME NEW t \in 1..Len(fetched), NEW clear \in BOOLEAN, sendJob(t, clear)
      PROVE  WorkInv'
  <2> DEFINE state == (IF clear THEN 0 ELSE rotation) % 2^PoolWidth
             job == newMiningJob(fetched[t], jobVersion(fetched[t].version, state))
             e == [template |-> t, state |-> state, job |-> job,
                   notify |-> response(job, fetched[t])]
  <2>1. /\ notified' = Append(notified, e) /\ fetched' = fetched
        /\ isHobbyMinerSession' = isHobbyMinerSession
    BY <1>2 DEF sendJob
  <2> HIDE DEF state
  <2>2. e.template = t /\ e.state = state /\ e.job = job /\ e.notify = response(job, fetched[t])
    OBVIOUS
  <2> HIDE DEF e
  <2>3. JobOK(e)
    BY <1>2, <2>2 DEF JobOK
  <2>4. /\ IsSequence(notified') /\ Len(notified') = Len(notified) + 1
        /\ \A i \in 1..Len(notified) : notified'[i] = notified[i]
        /\ notified'[Len(notified) + 1] = e
    BY <1>0, <2>1, AppendAny
  <2>5. ASSUME NEW i \in 1..Len(notified') PROVE JobOK(notified'[i])
    <3>1. i \in 1..Len(notified) \/ i = Len(notified) + 1
      BY <1>0, <2>4
    <3> QED BY <1>0, <2>3, <2>4, <3>1
  <2>6. (\A j \in 1..Len(notified) : JobOK(notified[j]))'
    BY <2>1, <2>5 DEF JobOK
  <2>7. (\A i \in 1..Len(fetched) : TemplateOK(fetched[i]))'
    BY <1>0, <2>1 DEF TemplateOK
  <2> QED BY <1>0, <2>1, <2>4, <2>6, <2>7 DEF WorkInv
<1>3. ASSUME UNCHANGED <<isHobbyMinerSession, fetched, notified>> PROVE WorkInv'
  <2>1. (\A i \in 1..Len(fetched) : TemplateOK(fetched[i]))'
    BY <1>0, <1>3 DEF TemplateOK
  <2>2. (\A j \in 1..Len(notified) : JobOK(notified[j]))'
    BY <1>0, <1>3 DEF JobOK
  <2> QED BY <1>0, <1>3, <2>1, <2>2 DEF WorkInv
<1> QED BY <1>1, <1>2, <1>3 DEF WorkNext, submitShare, workVars

\* The two parts of a coinbase make it up, and what is spliced between them changes it.
LEMMA CoinbaseParts ==
  ASSUME NEW a, NEW b, NEW hobby \in BOOLEAN
  PROVE  LET c == << a, b >>
             part1 == SubSeq(c, 1, coinbaseSplitOffset)
             part2 == SubSeq(c, coinbaseSplitOffset + 1, Len(c))
         IN  /\ part1 \o part2 = c
             /\ part1 \o Spliced(hobby) \o part2 = c <=> ~hobby
<1> DEFINE c == << a, b >>
           part1 == SubSeq(c, 1, coinbaseSplitOffset)
           part2 == SubSeq(c, coinbaseSplitOffset + 1, Len(c))
           S == {a, b, "clientId", "00000001"}
           sp == Spliced(hobby)
<1>1. /\ c \in Seq(S) /\ Len(c) = 2 /\ << >> \in Seq(S) /\ Len(<< >>) = 0
      /\ << "clientId" >> \in Seq(S) /\ Len(<< "clientId" >>) = 1
      /\ << "00000001" >> \in Seq(S) /\ Len(<< "00000001" >>) = 1
  OBVIOUS
<1>2. sp \in Seq(S) /\ (IF hobby THEN Len(sp) = 2 ELSE sp = << >>)
  <2> HIDE DEF S
  <2>1. CASE hobby
    <3>1. sp = << "clientId" >> \o << "00000001" >>
      BY <2>1 DEF Spliced, extranonce1
    <3> HIDE DEF sp
    <3>2. sp \in Seq(S) /\ Len(sp) = 1 + 1
      BY <1>1, <3>1, ConcatProperties
    <3> QED BY <2>1, <3>2
  <2>2. CASE ~hobby
    <3>1. sp = << >> \o << >>
      BY <2>2 DEF Spliced, extranonce1
    <3>2. << >> \o << >> = << >>
      BY <1>1, ConcatEmptySeq
    <3> HIDE DEF sp
    <3> QED BY <1>1, <2>2, <3>1, <3>2
  <2> QED BY <2>1, <2>2
<1>3. \A i \in 1..2 : c[i] \in S
  OBVIOUS
<1> HIDE DEF c, S, sp
<1>4. /\ SubSeq(c, 1, 1) \in Seq(S) /\ Len(SubSeq(c, 1, 1)) = 1
      /\ SubSeq(c, 1, 1)[1] = c[1]
  <2>1. \A i \in 1..1 : c[i] \in S
    BY <1>3
  <2>2. /\ SubSeq(c, 1, 1) \in Seq(S)
        /\ Len(SubSeq(c, 1, 1)) = IF 1 <= 1 THEN 1 - 1 + 1 ELSE 0
        /\ \A i \in 1..(1 - 1 + 1) : SubSeq(c, 1, 1)[i] = c[1 + i - 1]
    BY <2>1, SubSeqProperties
  <2> QED BY <2>2
<1>5. /\ SubSeq(c, 2, 2) \in Seq(S) /\ Len(SubSeq(c, 2, 2)) = 1
      /\ SubSeq(c, 2, 2)[1] = c[2]
  <2>1. \A i \in 2..2 : c[i] \in S
    BY <1>3
  <2>2. /\ SubSeq(c, 2, 2) \in Seq(S)
        /\ Len(SubSeq(c, 2, 2)) = IF 2 <= 2 THEN 2 - 2 + 1 ELSE 0
        /\ \A i \in 1..(2 - 2 + 1) : SubSeq(c, 2, 2)[i] = c[2 + i - 1]
    BY <2>1, SubSeqProperties
  <2> QED BY <2>2
<1>6. part1 = SubSeq(c, 1, 1) /\ part2 = SubSeq(c, 2, 2)
  <2>1. 1 + 1 = 2
    OBVIOUS
  <2> QED BY <1>1, <2>1 DEF coinbaseSplitOffset
<1> HIDE DEF part1, part2
<1>7. /\ part1 \in Seq(S) /\ Len(part1) = 1 /\ part1[1] = c[1]
      /\ part2 \in Seq(S) /\ Len(part2) = 1 /\ part2[1] = c[2]
  BY <1>4, <1>5, <1>6
<1>8. part1 \o part2 = c
  <2> DEFINE q == part1 \o part2
  <2>1. /\ q \in Seq(S) /\ Len(q) = Len(part1) + Len(part2)
        /\ \A i \in 1..(Len(part1) + Len(part2)) :
             q[i] = IF i <= Len(part1) THEN part1[i] ELSE part2[i - Len(part1)]
    BY <1>7, ConcatProperties
  <2> HIDE DEF q
  <2>2. Len(q) = 2 /\ q[1] = c[1] /\ q[2] = c[2]
    BY <1>7, <2>1
  <2>3. \A i \in 1..Len(q) : q[i] = c[i]
    BY <2>2
  <2>4. q = c
    BY <1>1, <2>1, <2>2, <2>3, SeqEqual
  <2> QED BY <2>4 DEF q
<1>9. part1 \o sp \o part2 = c <=> ~hobby
  <2>1. CASE ~hobby
    <3>1. sp = << >> /\ part1 \o << >> = part1
      BY <1>2, <1>7, <2>1, ConcatEmptySeq
    <3> QED BY <1>8, <2>1, <3>1
  <2>2. CASE hobby
    <3>1. part1 \o sp \in Seq(S) /\ Len(part1 \o sp) = 3
      <4>1. sp \in Seq(S) /\ Len(sp) = 2
        BY <1>2, <2>2
      <4>2. part1 \o sp \in Seq(S) /\ Len(part1 \o sp) = Len(part1) + Len(sp)
        BY <1>7, <4>1, ConcatProperties, Zenon
      <4> QED BY <1>7, <4>1, <4>2
    <3>2. Len((part1 \o sp) \o part2) = 4
      BY <1>7, <3>1, ConcatProperties
    <3> QED BY <1>1, <2>2, <3>2
  <2> QED BY <2>1, <2>2
<1> QED BY <1>8, <1>9 DEF c, part1, part2, sp

\* The header of a share is the block's, and commits to its transactions; it is the
\* miner's exactly if nothing is spliced into the coinbase.
LEMMA ShareAgrees ==
  ASSUME WorkInv, NEW j \in 1..Len(notified), NEW rolled \in SUBSET MinerBits,
         submitShare(j, rolled)
  PROVE  HeadersAgree'
<1> DEFINE n == notified[j]
           x == fetched[n.template]
           v == jobVersion(x.version, n.state)
           hobby == isHobbyMinerSession
           s == [miner |-> MinerHeader(n.notify, Spliced(hobby), rolled),
                 pool |-> buildHeaderBuffer(n.job, x, rolled),
                 block |-> copyAndUpdateBlock(n.job, x, rolled)]
<1>1. JobOK(n) /\ TemplateOK(x) /\ hobby \in BOOLEAN
  BY DEF WorkInv, JobOK
<1>2. submitted' = << s >> /\ hobby' = hobby
  BY DEF submitShare
<1>3. /\ n.job = newMiningJob(x, v) /\ n.notify = response(n.job, x)
      /\ x.version \in NodeVersions /\ IsSequence(x.transactions) /\ Len(x.transactions) > 0
      /\ x.merkle_branch = merkleBranch(x.transactions)
  BY <1>1 DEF JobOK, TemplateOK
<1> DEFINE c == n.job.coinbaseTransaction
           d == n.notify.coinb1 \o Spliced(hobby) \o n.notify.coinb2
<1>4. /\ n.job.version = v /\ n.job.merkle_branch = x.merkle_branch
      /\ n.notify.prevHash = x.prevHash
      /\ n.notify.coinb1 = n.job.coinbasePart1 /\ n.notify.coinb2 = n.job.coinbasePart2
      /\ n.job.coinbasePart1 = SubSeq(c, 1, coinbaseSplitOffset)
      /\ n.job.coinbasePart2 = SubSeq(c, coinbaseSplitOffset + 1, Len(c))
      /\ c = createCoinbaseTransaction(x)
      /\ n.notify.merkle_branch = x.merkle_branch /\ n.notify.version = v
  <2> DEFINE k == createCoinbaseTransaction(x)
             p1 == SubSeq(k, 1, coinbaseSplitOffset)
             p2 == SubSeq(k, coinbaseSplitOffset + 1, Len(k))
             o == n.job
             z == n.notify
  <2>1. o = [version |-> v, merkle_branch |-> x.merkle_branch, coinbaseTransaction |-> k,
             coinbasePart1 |-> p1, coinbasePart2 |-> p2]
    BY <1>3 DEF newMiningJob
  <2>2. z = [prevHash |-> x.prevHash, coinb1 |-> o.coinbasePart1, coinb2 |-> o.coinbasePart2,
             merkle_branch |-> x.merkle_branch, version |-> o.version]
    BY <1>3 DEF response
  <2> HIDE DEF n, x, v, k, p1, p2, o, z
  <2>3. /\ o.version = v /\ o.merkle_branch = x.merkle_branch /\ o.coinbaseTransaction = k
        /\ o.coinbasePart1 = p1 /\ o.coinbasePart2 = p2
    BY <2>1
  <2>4. /\ z.prevHash = x.prevHash /\ z.coinb1 = o.coinbasePart1
        /\ z.coinb2 = o.coinbasePart2 /\ z.merkle_branch = x.merkle_branch
        /\ z.version = o.version
    BY <2>2
  <2> QED BY <2>3, <2>4 DEF k, p1, p2, o, z
<1>5. v \cap MinerBits = {}
  <2> HIDE DEF x, n
  <2> QED BY <1>3, VersionOutsideMask
<1> HIDE DEF n, x, v, hobby
<1>6. Xor(v, rolled) = (v \ MinerBits) \cup rolled
  BY <1>5 DEF Xor
<1>7. /\ n.job.coinbasePart1 \o n.job.coinbasePart2 = c
      /\ d = c <=> ~hobby
  <2>1. PICK a, b : c = << a, b >>
    BY <1>4 DEF createCoinbaseTransaction
  <2> HIDE DEF c
  <2> QED BY <1>1, <1>4, <2>1, CoinbaseParts
<1> HIDE DEF c, d
<1> DEFINE root(leaf) == calculateMerkleRootHash(leaf, x.merkle_branch)
           header(leaf) == [version |-> Xor(v, rolled), prevHash |-> x.prevHash,
                            merkleRoot |-> root(leaf)]
           u == x.transactions
           w == << c >> \o Tail(u)
           m == << d >> \o Tail(u)
<1>8. MinerHeader(n.notify, Spliced(hobby), rolled) = header(d)
  BY <1>4, <1>6 DEF MinerHeader, d
<1>9. buildHeaderBuffer(n.job, x, rolled) = header(c)
  BY <1>4, <1>7 DEF buildHeaderBuffer
<1>10. copyAndUpdateBlock(n.job, x, rolled) = [header |-> header(c), transactions |-> w]
  BY <1>4 DEF copyAndUpdateBlock, c
<1>11. SameButFirst(u, w) /\ w[1] = c /\ SameButFirst(u, m) /\ m[1] = d
  BY <1>3, ReplaceFirst
<1>12. root(c) = calculateMerkleRoot(w)
  <2> HIDE DEF u, w
  <2>1. calculateMerkleRootHash(w[1], merkleBranch(u)) = calculateMerkleRoot(w)
    BY <1>11, BranchCommits
  <2> QED BY <1>3, <1>11, <2>1 DEF u
<1>13. root(c) = root(d) => c = d
  <2> HIDE DEF u, w, m
  <2>1. calculateMerkleRootHash(w[1], merkleBranch(u)) = calculateMerkleRootHash(m[1], merkleBranch(u))
          => w[1] = m[1]
    BY <1>11, RootTellsLeaf
  <2> QED BY <1>3, <1>11, <2>1 DEF u
<1>14. header(c).merkleRoot = root(c) /\ header(d).merkleRoot = root(d)
  OBVIOUS
<1>15. header(c) = header(d) <=> ~hobby
  <2>1. c = d => header(c) = header(d)
    OBVIOUS
  <2>2. header(c) = header(d) => root(c) = root(d)
    <3> HIDE DEF header, root
    <3> QED BY <1>14
  <2> HIDE DEF header, root
  <2> QED BY <1>7, <1>13, <2>1, <2>2
<1> HIDE DEF header, root, w
<1>16. /\ s.block.header = s.pool
       /\ s.block.header.merkleRoot = calculateMerkleRoot(s.block.transactions)
       /\ s.pool = s.miner <=> ~hobby
  BY <1>8, <1>9, <1>10, <1>12, <1>14, <1>15
<1> HIDE DEF s
<1>17. DOMAIN submitted' = {1} /\ submitted'[1] = s /\ isHobbyMinerSession' = hobby
  BY <1>2 DEF hobby
<1> QED BY <1>16, <1>17 DEF HeadersAgree

\* Whatever was fetched and sent since, the header that MiningJob.buildHeaderBuffer judges
\* a share by is the one of the block copyAndUpdateBlock makes of it, its merkle root is
\* that of the block's transactions, and it is the header the miner hashed if the session
\* is a NORMAL one and never if it is a HOBBY one, for any number of transactions and any
\* version bits the miner rolls.
THEOREM WorkHeadersAgree == WorkSpec => []HeadersAgree
<1>1. WorkInit => WorkInv /\ HeadersAgree
  BY DEF WorkInit, WorkInv, HeadersAgree, IsSequence
<1>2. WorkInv /\ HeadersAgree /\ [WorkNext]_workVars => WorkInv' /\ HeadersAgree'
  <2> SUFFICES ASSUME WorkInv, HeadersAgree, [WorkNext]_workVars
               PROVE  WorkInv' /\ HeadersAgree'
    OBVIOUS
  <2>0. isHobbyMinerSession' = isHobbyMinerSession
    BY DEF WorkNext, buildTemplate, sendJob, submitShare, workVars
  <2>1. CASE submitted' = submitted
    BY <2>0, <2>1, WorkInvStep DEF HeadersAgree
  <2>2. CASE submitted' # submitted
    <3>1. PICK j \in 1..Len(notified), rolled \in SUBSET MinerBits : submitShare(j, rolled)
      BY <2>2 DEF WorkNext, buildTemplate, sendJob, workVars
    <3> QED BY <3>1, ShareAgrees, WorkInvStep
  <2> QED BY <2>1, <2>2
<1> QED BY <1>1, <1>2, PTL DEF WorkSpec

\* The powers of two that four bits need.
LEMMA PowersOfTwo == 2^0 = 1 /\ 2^1 = 2 /\ 2^2 = 4 /\ 2^3 = 8 /\ 2^4 = 16
OBVIOUS

\* Two states of the rotation with the same version bits are the same.
LEMMA BitsTellStates ==
  ASSUME PoolWidth \in 1..4, NEW a \in 0..(2^PoolWidth - 1), NEW b \in 0..(2^PoolWidth - 1),
         poolVersionBits(a) = poolVersionBits(b)
  PROVE  a = b
<1>1. ASSUME NEW k \in 0..(PoolWidth - 1)
      PROVE  (a \div 2^k) % 2 = 1 <=> (b \div 2^k) % 2 = 1
  <2> DEFINE i == PoolShift + k
  <2>1. i \in PoolBits /\ i - PoolShift = k
    BY WorkAssumption DEF PoolBits
  <2> HIDE DEF i
  <2>2. i \in poolVersionBits(a) <=> (a \div 2^(i - PoolShift)) % 2 = 1
    BY <2>1 DEF poolVersionBits
  <2>3. i \in poolVersionBits(b) <=> (b \div 2^(i - PoolShift)) % 2 = 1
    BY <2>1 DEF poolVersionBits
  <2> QED BY <2>1, <2>2, <2>3
<1>2. CASE PoolWidth = 1
  <2>1. 0 \in 0..(PoolWidth - 1) /\ 2^PoolWidth = 2
    BY <1>2, PowersOfTwo
  <2>2. (a \div 1) % 2 = 1 <=> (b \div 1) % 2 = 1
    BY <1>1, <2>1, PowersOfTwo
  <2>3. a \in 0..1 /\ b \in 0..1
    BY <2>1
  <2> QED BY <2>2, <2>3
<1>3. CASE PoolWidth = 2
  <2>1. {0, 1} \subseteq 0..(PoolWidth - 1) /\ 2^PoolWidth = 4
    BY <1>3, PowersOfTwo
  <2>2. /\ (a \div 1) % 2 = 1 <=> (b \div 1) % 2 = 1
        /\ (a \div 2) % 2 = 1 <=> (b \div 2) % 2 = 1
    BY <1>1, <2>1, PowersOfTwo
  <2>3. a \in 0..3 /\ b \in 0..3
    BY <2>1
  <2> QED BY <2>2, <2>3
<1>4. CASE PoolWidth = 3
  <2>1. {0, 1, 2} \subseteq 0..(PoolWidth - 1) /\ 2^PoolWidth = 8
    BY <1>4, PowersOfTwo
  <2>2. /\ (a \div 1) % 2 = 1 <=> (b \div 1) % 2 = 1
        /\ (a \div 2) % 2 = 1 <=> (b \div 2) % 2 = 1
        /\ (a \div 4) % 2 = 1 <=> (b \div 4) % 2 = 1
    BY <1>1, <2>1, PowersOfTwo
  <2>3. a \in 0..7 /\ b \in 0..7
    BY <2>1
  <2> QED BY <2>2, <2>3
<1>5. CASE PoolWidth = 4
  <2>1. {0, 1, 2, 3} \subseteq 0..(PoolWidth - 1) /\ 2^PoolWidth = 16
    BY <1>5, PowersOfTwo
  <2>2. /\ (a \div 1) % 2 = 1 <=> (b \div 1) % 2 = 1
        /\ (a \div 2) % 2 = 1 <=> (b \div 2) % 2 = 1
        /\ (a \div 4) % 2 = 1 <=> (b \div 4) % 2 = 1
        /\ (a \div 8) % 2 = 1 <=> (b \div 8) % 2 = 1
    BY <1>1, <2>1, PowersOfTwo
  <2>3. a \in 0..15 /\ b \in 0..15
    BY <2>1
  <2> QED BY <2>2, <2>3
<1> QED BY <1>2, <1>3, <1>4, <1>5

\* The counter only grows or starts again, and a job's state is its last bits.
LEMMA RotationStep ==
  ASSUME PoolWidth \in 1..4, WorkInv, RotationInv, [WorkNext]_workVars
  PROVE  RotationInv'
<1>1. ASSUME NEW t \in 1..Len(fetched), NEW clear \in BOOLEAN, sendJob(t, clear)
      PROVE  RotationInv'
  <2> DEFINE counter == IF clear THEN 0 ELSE rotation
             state == counter % 2^PoolWidth
             job == newMiningJob(fetched[t], jobVersion(fetched[t].version, state))
             e == [template |-> t, state |-> state, job |-> job,
                   notify |-> response(job, fetched[t])]
  <2>1. notified' = Append(notified, e) /\ rotation' = counter + 1
    BY <1>1 DEF sendJob
  <2>2. counter \in Nat
    BY DEF RotationInv
  <2> HIDE DEF counter
  <2>3. 2^PoolWidth \in {2, 4, 8, 16}
    <3>1. PoolWidth = 1 \/ PoolWidth = 2 \/ PoolWidth = 3 \/ PoolWidth = 4
      OBVIOUS
    <3> QED BY <3>1, PowersOfTwo, Zenon
  <2>4. state \in 0..(2^PoolWidth - 1)
    <3> DEFINE p == 2^PoolWidth
    <3>1. p \in Nat \ {0}
      BY <2>3
    <3> HIDE DEF p
    <3>2. counter % p \in 0..(p - 1)
      BY <2>2, <3>1
    <3> QED BY <3>2 DEF p
  <2>5. e.state = state
    OBVIOUS
  <2> HIDE DEF state, e
  <2>6. IsSequence(notified) /\ Len(notified) \in Nat
    BY DEF WorkInv, IsSequence
  <2>7. /\ Len(notified') = Len(notified) + 1
        /\ \A i \in 1..Len(notified) : notified'[i] = notified[i]
        /\ notified'[Len(notified) + 1] = e
    BY <2>1, <2>6, AppendAny
  <2>8. ASSUME NEW i \in 1..Len(notified') PROVE notified'[i].state \in 0..(2^PoolWidth - 1)
    <3>1. i \in 1..Len(notified) \/ i = Len(notified) + 1
      BY <2>6, <2>7
    <3>2. CASE i \in 1..Len(notified)
      BY <2>7, <3>2 DEF RotationInv
    <3>3. CASE i = Len(notified) + 1
      BY <2>4, <2>5, <2>7, <3>3
    <3> QED BY <3>1, <3>2, <3>3
  <2>9. rotation' \in Nat
    BY <2>1, <2>2
  <2> QED BY <2>8, <2>9 DEF RotationInv
<1>2. CASE UNCHANGED <<rotation, notified>>
  BY <1>2 DEF RotationInv
<1> QED BY <1>1, <1>2 DEF WorkNext, buildTemplate, submitShare, workVars

\* Jobs with different states have different pool bits, which no miner can change.
LEMMA StatesDisjoint ==
  ASSUME PoolWidth \in 1..4, WorkInv, RotationInv
  PROVE  DisjointWork
<1>1. SUFFICES ASSUME NEW i \in 1..Len(notified), NEW j \in 1..Len(notified),
                      NEW x \in SUBSET MinerBits, NEW y \in SUBSET MinerBits,
                      MinerHeader(notified[i].notify, Spliced(isHobbyMinerSession), x).version =
                        MinerHeader(notified[j].notify, Spliced(isHobbyMinerSession), y).version
               PROVE  notified[i].state = notified[j].state
  BY DEF DisjointWork
<1>2. ASSUME NEW k \in 1..Len(notified), NEW z \in SUBSET MinerBits
      PROVE  MinerHeader(notified[k].notify, Spliced(isHobbyMinerSession), z).version \cap PoolBits
               = poolVersionBits(notified[k].state)
  <2> DEFINE n == notified[k]
             u == fetched[n.template]
             v == jobVersion(u.version, n.state)
  <2>1. n.job = newMiningJob(u, v) /\ n.notify = response(n.job, u)
    BY DEF WorkInv, JobOK
  <2> HIDE DEF u, v
  <2>2. n.notify.version = v
    <3> HIDE DEF n
    <3> QED BY <2>1 DEF newMiningJob, response
  <2>3. MinerHeader(n.notify, Spliced(isHobbyMinerSession), z).version = (v \ MinerBits) \cup z
    BY <2>2 DEF MinerHeader
  <2>4. poolVersionBits(n.state) \subseteq PoolBits
    BY DEF poolVersionBits
  <2>5. v \cap PoolBits = poolVersionBits(n.state)
    BY <2>4 DEF v, jobVersion
  <2>6. PoolBits \cap MinerBits = {}
    BY WorkAssumption
  <2> QED BY <2>3, <2>5, <2>6
<1>3. poolVersionBits(notified[i].state) = poolVersionBits(notified[j].state)
  BY <1>1, <1>2
<1> QED BY <1>3, BitsTellStates DEF RotationInv

\* For the four bits of ELEKTRON_POOL_VERSION_BITS_MASK (and for fewer), two jobs with
\* different states of the rotation share no header, whatever bits the miner rolls.
THEOREM WorkIsDisjoint ==
  ASSUME PoolWidth \in 1..4
  PROVE  WorkSpec => []DisjointWork
<1>1. WorkInit => WorkInv /\ RotationInv
  BY DEF WorkInit, WorkInv, RotationInv, IsSequence
<1>2. WorkInv /\ RotationInv /\ [WorkNext]_workVars => WorkInv' /\ RotationInv'
  BY WorkInvStep, RotationStep
<1>3. WorkInv /\ RotationInv => DisjointWork
  BY StatesDisjoint
<1> QED BY <1>1, <1>2, <1>3, PTL DEF WorkSpec
=============================================================================
