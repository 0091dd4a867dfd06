----------------------------- MODULE StratumJobs -----------------------------
(***************************************************************************)
(* The work the pool hands out: StratumV1JobsService, the registry of      *)
(* templates and jobs that all sessions share, and the part of             *)
(* StratumV1Client that fetches templates, sends jobs and looks submitted  *)
(* shares up (refreshMiningJob, refreshLocalMiningWork, checkDifficulty,   *)
(* sendNewMiningJob, the checks of handleMiningSubmission).                *)
(*                                                                         *)
(* A getblocktemplate call is an await: the node answers with the height   *)
(* of its tip at some moment, and the answers are handled in any order.    *)
(* Every session asks for the same address (POOL_WALLET_ADDRESS), so one   *)
(* height stands for lastTemplateHeightByAddress.                          *)
(***************************************************************************)
EXTENDS Integers, Sequences

CONSTANTS
  Clients,        \* sessions that completed initStratum
  Requests,       \* getblocktemplate calls in flight at the same time
  Nonces,         \* what distinguishes the submissions for one job
  Rotations,      \* states of the pool-reserved version bits (16)
  Expiry,         \* five minutes
  MaxTip, MaxTime, MaxTemplates, MaxJobs, MaxShares   \* bounds of the model

ASSUME JobsAssumption ==
  /\ Clients # {}
  /\ Rotations \in Nat \ {0}
  /\ Expiry \in Nat
  /\ MaxTip \in Nat /\ MaxTime \in Nat
  /\ MaxTemplates \in Nat /\ MaxJobs \in Nat /\ MaxShares \in Nat

VARIABLES
  tip,          \* height of the node's best block
  clock,        \* Date.now(), in seconds; from 1 on, 0 stands for null
  lastHeight,   \* lastTemplateHeightByAddress, 0 when there is none
  templates,    \* every template ever built; its id is its index
  blocks,       \* ids of the templates in the registry
  mined,        \* every job ever made; its id is its index
  jobs,         \* ids of the jobs in the registry
  client,       \* the sessions
  request,      \* the getblocktemplate calls
  shares        \* the shares accepted so far

vars == <<tip, clock, lastHeight, templates, blocks, mined, jobs, client, request, shares>>

NoTemplate == 0

IJobTemplate == [height : Nat, timestamp : Nat, creation : Nat, clearJobs : BOOLEAN]

\* clean: the clean_jobs flag of the job's mining.notify.
MiningJob == [client : Clients, jobTemplateId : Nat, rotation : Nat,
              timestamp : Nat, creation : Nat, clean : BOOLEAN]

\* What handleMiningSubmission joins into a submission's hash.
SubmissionHash == Nat \X Nonces

\* unwritten: the jobs whose mining.notify is being written to the socket.
Session == [open : BOOLEAN, currentJobTemplate : Nat, elektronPoolVersionCounter : Nat,
            miningSubmissionHashes : SUBSET SubmissionHash,
            unwritten : SUBSET Nat, lastSentMiningJobTimestamp : Nat]

Share == [client : Clients, job : Nat, nonce : Nonces]

\* kind: whether refreshMiningJob or checkDifficulty made the call.
RequestState == [pc : {"idle", "sent", "answered"}, client : Clients,
                 kind : {"refresh", "difficulty"}, height : Nat]

IdleRequest == [pc |-> "idle", client |-> CHOOSE c \in Clients : TRUE,
                kind |-> "refresh", height |-> 0]

Init ==
  /\ tip = 0 /\ clock = 1 /\ lastHeight = 0
  /\ templates = << >> /\ blocks = {}
  /\ mined = << >> /\ jobs = {}
  /\ client = [c \in Clients |->
                 [open |-> TRUE, currentJobTemplate |-> NoTemplate,
                  elektronPoolVersionCounter |-> 0, miningSubmissionHashes |-> {},
                  unwritten |-> {}, lastSentMiningJobTimestamp |-> 0]]
  /\ request = [r \in Requests |-> IdleRequest]
  /\ shares = << >>

-----------------------------------------------------------------------------
Later(a, b) == IF a >= b THEN a ELSE b

\* The job made from a template: "registry" are the jobs it joins, "s" is the
\* session's state, ts and clean those of the notify.  The counter restarts when
\* clean.  Up to the await of the write.
sendNewMiningJob(c, s, registry, id, ts, clean) ==
  LET counter == IF clean THEN 0 ELSE s.elektronPoolVersionCounter
  IN  /\ Len(mined) < MaxJobs
      /\ mined' = Append(mined, [client |-> c, jobTemplateId |-> id,
                                 rotation |-> counter % Rotations, timestamp |-> ts,
                                 creation |-> clock, clean |-> clean])
      /\ jobs' = registry \cup {Len(mined) + 1}
      /\ client' = [client EXCEPT ![c] =
                      [s EXCEPT !.elektronPoolVersionCounter = counter + 1,
                                !.unwritten = @ \cup {Len(mined) + 1}]]

\* The write of job j returned; a socket writes in order.  (A write that fails
\* destroys the session.)
JobWritten(c, j) ==
  /\ j \in client[c].unwritten
  /\ \A k \in client[c].unwritten : j <= k
  /\ client' = [client EXCEPT ![c] =
                  [client[c] EXCEPT !.unwritten = @ \ {j},
                                    !.lastSentMiningJobTimestamp = mined[j].timestamp]]
  /\ UNCHANGED <<tip, clock, lastHeight, templates, blocks, mined, jobs, request, shares>>

\* A closed session sends nothing.
SendsNothing(c, s, registry) ==
  /\ jobs' = registry
  /\ client' = [client EXCEPT ![c] = s]
  /\ UNCHANGED mined

StartRequest(r, c, kind) ==
  /\ request[r].pc = "idle"
  /\ request' = [request EXCEPT ![r] = [pc |-> "sent", client |-> c, kind |-> kind,
                                        height |-> 0]]

\* refreshMiningJob up to its await: on a new block, or on the 30 s timer.
refreshMiningJob(c, r) ==
  /\ client[c].open
  /\ StartRequest(r, c, "refresh")
  /\ UNCHANGED <<tip, clock, lastHeight, templates, blocks, mined, jobs, client, shares>>

\* The node builds a template on its tip.
NodeReplies(r) ==
  /\ request[r].pc = "sent"
  /\ request' = [request EXCEPT ![r] = [@ EXCEPT !.pc = "answered", !.height = tip + 1]]
  /\ UNCHANGED <<tip, clock, lastHeight, templates, blocks, mined, jobs, client, shares>>

\* The call fails: on the timer that is logged, after a new block the socket is
\* ended (a destroy step right after).
RequestFails(r) ==
  /\ request[r].pc = "sent"
  /\ request' = [request EXCEPT ![r] = IdleRequest]
  /\ UNCHANGED <<tip, clock, lastHeight, templates, blocks, mined, jobs, client, shares>>

LiveBlocks == {t \in blocks : clock - templates[t].creation <= Expiry}
LiveJobs == {j \in jobs : clock - mined[j].creation <= Expiry}

\* Mutant of KeptBlocks: a new tip clears the jobs but not the templates.
KeptBlocksAlways(clear) == LiveBlocks

\* What buildTemplateFor leaves in the registry, besides the new template.
KeptBlocks(clear) == IF clear THEN {} ELSE LiveBlocks
KeptJobs(clear) == IF clear THEN {} ELSE LiveJobs

\* Whether the template's height differs from that of the last one.
ClearJobs(height) == lastHeight # height

\* buildTemplateFor after its await, up to the registration of the template.
buildTemplateFor(height) ==
  /\ Len(templates) < MaxTemplates
  /\ templates' = Append(templates, [height |-> height, timestamp |-> clock,
                                     creation |-> clock, clearJobs |-> ClearJobs(height)])
  /\ lastHeight' = height
  /\ blocks' = KeptBlocks(ClearJobs(height)) \cup {Len(templates) + 1}

\* Mutant of TemplateArrives: the duplicate set is emptied at every refresh.
TemplateArrivesForgets(r) ==
  /\ request[r].pc = "answered" /\ request[r].kind = "refresh"
  /\ LET c == request[r].client
         h == request[r].height
         s == [client[c] EXCEPT !.currentJobTemplate = Len(templates) + 1,
                                !.miningSubmissionHashes = {}]
     IN  /\ buildTemplateFor(h)
         /\ IF client[c].open
            THEN sendNewMiningJob(c, s, KeptJobs(ClearJobs(h)), Len(templates) + 1, clock,
                                  ClearJobs(h))
            ELSE SendsNothing(c, s, KeptJobs(ClearJobs(h)))
  /\ request' = [request EXCEPT ![r] = IdleRequest]
  /\ UNCHANGED <<tip, clock, shares>>

\* The answer of request r is handled, to the end of refreshMiningJob.
TemplateArrives(r) ==
  /\ request[r].pc = "answered" /\ request[r].kind = "refresh"
  /\ LET c     == request[r].client
         h     == request[r].height
         clear == ClearJobs(h)
         s     == [client[c] EXCEPT
                     !.currentJobTemplate = Len(templates) + 1,
                     !.miningSubmissionHashes = IF clear THEN {} ELSE @]
     IN  /\ buildTemplateFor(h)
         /\ IF client[c].open
            THEN sendNewMiningJob(c, s, KeptJobs(clear), Len(templates) + 1, clock,
                                  clear)
            ELSE SendsNothing(c, s, KeptJobs(clear))
  /\ request' = [request EXCEPT ![r] = IdleRequest]
  /\ UNCHANGED <<tip, clock, shares>>

\* The timer of the local work refresh: a new job on the session's template, no
\* call to the node.  (That 350 ms must have passed since the last job is below the
\* resolution of the clock, a second.)
refreshLocalMiningWork(c) ==
  /\ client[c].open
  /\ client[c].currentJobTemplate # NoTemplate
  /\ LET id == client[c].currentJobTemplate
     IN  sendNewMiningJob(c, client[c], jobs, id, Later(templates[id].timestamp, clock),
                          FALSE)
  /\ UNCHANGED <<tip, clock, lastHeight, templates, blocks, request, shares>>

\* The timestamp of the job that announces a new difficulty.
NextTimestamp(c, ts) == Later(Later(ts, clock), client[c].lastSentMiningJobTimestamp + 1)

\* checkDifficulty found a new difficulty: the session's template is sent again
\* with clean_jobs set, the registry is left alone.
checkDifficulty(c) ==
  /\ client[c].open
  /\ client[c].currentJobTemplate # NoTemplate
  /\ LET id == client[c].currentJobTemplate
     IN  sendNewMiningJob(c, client[c], jobs, id, NextTimestamp(c, templates[id].timestamp),
                          TRUE)
  /\ UNCHANGED <<tip, clock, lastHeight, templates, blocks, request, shares>>

\* A session without a template fetches one for that.
CheckDifficultyFetches(c, r) ==
  /\ client[c].open
  /\ client[c].currentJobTemplate = NoTemplate
  /\ StartRequest(r, c, "difficulty")
  /\ UNCHANGED <<tip, clock, lastHeight, templates, blocks, mined, jobs, client, shares>>

CheckDifficultyResumes(r) ==
  /\ request[r].pc = "answered" /\ request[r].kind = "difficulty"
  /\ LET c == request[r].client
         h == request[r].height
         s == [client[c] EXCEPT !.currentJobTemplate = Len(templates) + 1]
     IN  /\ buildTemplateFor(h)
         /\ IF client[c].open
            THEN sendNewMiningJob(c, s, KeptJobs(ClearJobs(h)), Len(templates) + 1,
                                  NextTimestamp(c, clock), TRUE)
            ELSE SendsNothing(c, s, KeptJobs(ClearJobs(h)))
  /\ request' = [request EXCEPT ![r] = IdleRequest]
  /\ UNCHANGED <<tip, clock, shares>>

\* handleMiningSubmission rejects unless the job and its template are registered
\* and this session has not submitted the same before ...
Submittable(c, j, n) ==
  /\ j \in jobs
  /\ mined[j].jobTemplateId \in blocks
  /\ <<j, n>> \notin client[c].miningSubmissionHashes

\* ... and accepts the share if it meets the session's difficulty.
handleMiningSubmission(c, j, n, meets) ==
  /\ client[c].open
  /\ Submittable(c, j, n)
  /\ Len(shares) < MaxShares
  /\ client' = [client EXCEPT ![c] =
                  [client[c] EXCEPT !.miningSubmissionHashes = @ \cup {<<j, n>>}]]
  /\ shares' = IF meets THEN Append(shares, [client |-> c, job |-> j, nonce |-> n])
                        ELSE shares
  /\ UNCHANGED <<tip, clock, lastHeight, templates, blocks, mined, jobs, request>>

\* The connection ends; a write that returns later stores nothing.
destroy(c) ==
  /\ client[c].open
  /\ client' = [client EXCEPT ![c] = [client[c] EXCEPT !.open = FALSE, !.unwritten = {},
                                         !.currentJobTemplate = NoTemplate]]
  /\ UNCHANGED <<tip, clock, lastHeight, templates, blocks, mined, jobs, request, shares>>

NewTip ==
  /\ tip < MaxTip
  /\ tip' = tip + 1
  /\ UNCHANGED <<clock, lastHeight, templates, blocks, mined, jobs, client, request, shares>>

Tick ==
  /\ clock < MaxTime
  /\ clock' = clock + 1
  /\ UNCHANGED <<tip, lastHeight, templates, blocks, mined, jobs, client, request, shares>>

-----------------------------------------------------------------------------
ClientStep(c) ==
  \/ \E r \in Requests : refreshMiningJob(c, r) \/ CheckDifficultyFetches(c, r)
  \/ refreshLocalMiningWork(c) \/ checkDifficulty(c)
  \/ \E j \in 1..Len(mined), n \in Nonces, meets \in BOOLEAN :
       handleMiningSubmission(c, j, n, meets)
  \/ \E j \in 1..Len(mined) : JobWritten(c, j)
  \/ destroy(c)

RequestStep(r) ==
  \/ NodeReplies(r) \/ RequestFails(r)
  \/ TemplateArrives(r) \/ CheckDifficultyResumes(r)

Next ==
  \/ \E c \in Clients : ClientStep(c)
  \/ \E r \in Requests : RequestStep(r)
  \/ NewTip \/ Tick

Spec == Init /\ [][Next]_vars

-----------------------------------------------------------------------------
(* Properties                                                              *)

TypeOK ==
  /\ tip \in Nat /\ clock \in Nat /\ lastHeight \in Nat
  /\ templates \in Seq(IJobTemplate) /\ blocks \subseteq 1..Len(templates)
  /\ mined \in Seq(MiningJob) /\ jobs \subseteq 1..Len(mined)
  /\ client \in [Clients -> Session]
  /\ request \in [Requests -> RequestState]
  /\ shares \in Seq(Share)

JobHeight(j) == templates[mined[j].jobTemplateId].height

\* A share is only accepted for a job of the height the registry is at: once any
\* session has fetched a template on a new tip, shares for the old one are turned
\* down for every session, local refreshes of an old template included.
NoStaleShare ==
  [][shares' # shares => JobHeight(shares'[Len(shares')].job) = lastHeight]_vars

\* A session is never credited twice for the same submission, although its
\* duplicate set is emptied when a template clears the registry.
NoDuplicateShare ==
  \A i, k \in 1..Len(shares) : shares[i] = shares[k] => i = k

\* A session that gets its first job of a higher height is told to drop the old
\* ones (clean_jobs).
CleanOnNewHeight ==
  \A j \in 1..Len(mined) :
    (\E i \in 1..(j - 1) :
       /\ mined[i].client = mined[j].client
       /\ \A k \in i..(j - 1) : mined[k].client = mined[j].client =>
                                  JobHeight(k) < JobHeight(j))
    => mined[j].clean

-----------------------------------------------------------------------------
(* The inductive invariant behind NoStaleShare and NoDuplicateShare.       *)

\* Jobs refer to templates that were built, sessions too.
ReferencesInv ==
  /\ \A j \in 1..Len(mined) : mined[j].jobTemplateId \in 1..Len(templates)
  /\ \A c \in Clients : client[c].currentJobTemplate \in 0..Len(templates)

\* All registered templates have the height of the last one built.
OneHeight == \A t \in blocks : templates[t].height = lastHeight

\* Whatever a session was credited for on a registered job, its duplicate set
\* still knows.
Remembered ==
  \A i \in 1..Len(shares) :
    /\ shares[i].job \in 1..Len(mined)
    /\ shares[i].job \in jobs =>
         <<shares[i].job, shares[i].nonce>>
           \in client[shares[i].client].miningSubmissionHashes

\* The registry, the sessions and the duplicate sets agree, however the answers of
\* the node are reordered.
JobsInv == ReferencesInv /\ OneHeight /\ Remembered /\ NoDuplicateShare
=============================================================================
