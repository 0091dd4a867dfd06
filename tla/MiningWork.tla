----------------------------- MODULE MiningWork -----------------------------
(***************************************************************************)
(* What the miner of one session hashes and what the pool makes of its     *)
(* answer: the extranonce1 of its subscription, the template block of      *)
(* StratumV1JobsService.buildTemplateFor, the rotation of version bits in  *)
(* StratumV1Client.sendNewMiningJob, and MiningJob (coinbase and its two   *)
(* parts, notify, header of a share, block to submit).                     *)
(*                                                                         *)
(* Hashes are symbolic: a hash is the value it was made from, so equal     *)
(* hashes have equal preimages.  The bytes of a coinbase are a sequence of *)
(* chunks.  A version is the set of its bits that are 1.  The byte order   *)
(* of the fields and the diagnostic headers are left out, and so is the    *)
(* limit on the weight of a block, which a template of the node keeps.     *)
(***************************************************************************)
EXTENDS Integers, Sequences

CONSTANTS
  PoolShift,       \* the lowest of the version bits the pool rotates (13)
  PoolWidth,       \* how many they are (4)
  MinerBits,       \* the version-rolling mask of mining.configure: bits 17 to 28
  NodeVersions,    \* versions a template may have
  Transactions,    \* how many transactions a template may have, without the coinbase
  MaxWork,         \* bound: templates fetched
  MaxNotified      \* bound: jobs sent

\* ELEKTRON_POOL_VERSION_BITS_MASK.
PoolBits == PoolShift..(PoolShift + PoolWidth - 1)

\* The pool's bits are outside the mask the miner is given; BIP9 signals of the node in
\* the range of that mask are left out.
ASSUME WorkAssumption ==
  /\ PoolShift \in Nat /\ PoolWidth \in Nat \ {0}
  /\ MinerBits \subseteq Nat /\ PoolBits \cap MinerBits = {}
  /\ \A v \in NodeVersions : v \subseteq Nat \ MinerBits
  /\ Transactions \subseteq Nat /\ MaxWork \in Nat /\ MaxNotified \in Nat

VARIABLES
  isHobbyMinerSession,  \* the mode of the session
  fetched,      \* the templates, in the order they were built
  rotation,     \* elektronPoolVersionCounter
  notified,     \* the jobs sent: the MiningJob, its template and its notify
  submitted     \* what the last share became, if there was one

workVars == <<isHobbyMinerSession, fetched, rotation, notified, submitted>>

-----------------------------------------------------------------------------
(* Merkle trees                                                            *)

Hash(l, r) == [left |-> l, right |-> r]

\* One level up: an odd last node is paired with itself.
Parents(level) ==
  [i \in 1..((Len(level) + 1) \div 2) |->
     Hash(level[2 * i - 1], level[IF 2 * i <= Len(level) THEN 2 * i ELSE 2 * i - 1])]

\* The levels of the tree over the leaves, from the leaves to the root.
Levels(leaves) ==
  LET level[i \in 1..(Len(leaves) + 1)] == IF i = 1 THEN leaves ELSE Parents(level[i - 1])
      height == CHOOSE h \in 1..(Len(leaves) + 1) : /\ Len(level[h]) = 1
                                                   /\ \A i \in 1..(h - 1) : Len(level[i]) > 1
  IN  [i \in 1..height |-> level[i]]

calculateMerkleRoot(leaves) == LET levels == Levels(leaves) IN levels[Len(levels)][1]

\* What is left of merkle-lib's proof for the first leaf without the leaf and the
\* root: its sibling on every level.
merkleBranch(leaves) ==
  LET levels == Levels(leaves)
  IN  [i \in 1..(Len(levels) - 1) |-> levels[i][2]]

\* The root from a new first leaf and a branch.
calculateMerkleRootHash(newRoot, branch) ==
  LET root[i \in 0..Len(branch)] == IF i = 0 THEN newRoot ELSE Hash(root[i - 1], branch[i])
  IN  root[Len(branch)]

-----------------------------------------------------------------------------
(* Templates and jobs                                                      *)

\* The coinbase of the template's own tree, replaced in every job.
Placeholder == << >>

\* coinbase_required_outputs, which a template may lack.
NodeOutputs == {<< >>, << "utxoAttestation", "witnessCommitment" >>}

\* coinbase_script_sig_prefix, which a template may lack too.
NodePrefixes == {<< >>, << "prefix" >>}

\* The mode is set by the first mining.subscribe, which comes before any job, from the
\* user agent, and never changes.
WorkInit ==
  /\ isHobbyMinerSession \in BOOLEAN
  /\ fetched = << >> /\ rotation = 0 /\ notified = << >>
  /\ submitted = << >>

\* buildTemplateFor: n transactions; the number of the template stands for the
\* block before it, its height and the coinbase value.
buildTemplate(n, version, outputs, prefix) ==
  /\ Len(fetched) < MaxWork
  /\ LET t == Len(fetched) + 1
         transactions == << Placeholder >> \o [i \in 1..n |-> [template |-> t, nr |-> i]]
     IN  fetched' = Append(fetched,
           [prevHash |-> t, height |-> t, coinbasevalue |-> t, version |-> version,
            transactions |-> transactions, merkle_branch |-> merkleBranch(transactions),
            coinbase_required_outputs |-> outputs, coinbase_script_sig_prefix |-> prefix])
  /\ UNCHANGED <<isHobbyMinerSession, rotation, notified, submitted>>

\* Mutant of poolVersionBits: one place too far to the left.
poolVersionBitsLeft(state) ==
  {b \in (PoolShift + 1)..(PoolShift + PoolWidth) : (state \div 2^(b - PoolShift - 1)) % 2 = 1}

poolVersionBits(state) == {b \in PoolBits : (state \div 2^(b - PoolShift)) % 2 = 1}

jobVersion(version, state) == (version \ PoolBits) \cup (poolVersionBits(state) \cap PoolBits)

\* The bytes of a job's coinbase: up to the end of the scriptSig, and the rest.  The
\* payout gets all of the value; without required outputs the witness commitment is
\* added.
createCoinbaseTransaction(template) ==
  << [scriptSig |-> IF template.coinbase_script_sig_prefix # << >>
                    THEN template.coinbase_script_sig_prefix ELSE << "height" >>],
     [payout |-> template.coinbasevalue,
      outputs |-> IF template.coinbase_required_outputs # << >>
                  THEN template.coinbase_required_outputs ELSE << "witnessCommit" >>,
      locktime |-> template.height - 1] >>

\* The bytes of version, prevout and scriptSig, in chunks.
coinbaseSplitOffset == 1

\* A MiningJob: its version and branch are frozen.
newMiningJob(template, version) ==
  LET coinbase == createCoinbaseTransaction(template)
  IN  [version |-> version, merkle_branch |-> template.merkle_branch,
       coinbaseTransaction |-> coinbase,
       coinbasePart1 |-> SubSeq(coinbase, 1, coinbaseSplitOffset),
       coinbasePart2 |-> SubSeq(coinbase, coinbaseSplitOffset + 1, Len(coinbase))]

\* The mining.notify of a job.
response(job, template) ==
  [prevHash |-> template.prevHash, coinb1 |-> job.coinbasePart1, coinb2 |-> job.coinbasePart2,
   merkle_branch |-> template.merkle_branch, version |-> job.version]

\* A job is made from template t with the next state of the rotation, and sent.  The
\* registered template keeps its own version.
sendJob(t, clearJobs) ==
  /\ Len(notified) < MaxNotified
  /\ LET counter == IF clearJobs THEN 0 ELSE rotation
         state   == counter % 2^PoolWidth
         job     == newMiningJob(fetched[t], jobVersion(fetched[t].version, state))
     IN  /\ rotation' = counter + 1
         /\ notified' = Append(notified, [template |-> t, state |-> state, job |-> job,
                                          notify |-> response(job, fetched[t])])
  /\ UNCHANGED <<isHobbyMinerSession, fetched, submitted>>

-----------------------------------------------------------------------------
(* Shares.  Nonce and time are taken from the submission everywhere.       *)

Xor(a, b) == (a \ b) \cup (b \ a)

\* The extranonce1 of the answer to mining.subscribe; EXTRANONCE2_SIZE_BYTES is 0.
extranonce1(hobbyMode) == IF hobbyMode THEN << "clientId" >> ELSE << >>

\* What the firmware puts between coinb1 and coinb2: extranonce1 and an extranonce2 of
\* the size it was told, but the firmware of hobby miners has one of its own.
Spliced(hobbyMode) ==
  extranonce1(hobbyMode) \o (IF hobbyMode THEN << "00000001" >> ELSE << >>)

\* What a miner hashes that may set the bits of its mask, from what it was sent alone.
MinerHeader(notify, spliced, rolled) ==
  [version |-> (notify.version \ MinerBits) \cup rolled, prevHash |-> notify.prevHash,
   merkleRoot |-> calculateMerkleRootHash(notify.coinb1 \o spliced \o notify.coinb2,
                                          notify.merkle_branch)]

\* Mutant of buildHeaderBuffer: the version of the registered template.
buildHeaderBufferTemplate(job, template, mask) ==
  [version |-> Xor(template.version, mask), prevHash |-> template.prevHash,
   merkleRoot |-> calculateMerkleRootHash(job.coinbasePart1 \o job.coinbasePart2,
                                          job.merkle_branch)]

\* The header the difficulty of a share is computed from.
buildHeaderBuffer(job, template, mask) ==
  [version |-> Xor(job.version, mask), prevHash |-> template.prevHash,
   merkleRoot |-> calculateMerkleRootHash(job.coinbasePart1 \o job.coinbasePart2,
                                          job.merkle_branch)]

\* The block submitted to the node when the share solves it.
copyAndUpdateBlock(job, template, mask) ==
  [header |-> [version |-> Xor(job.version, mask), prevHash |-> template.prevHash,
               merkleRoot |-> calculateMerkleRootHash(job.coinbaseTransaction,
                                                      job.merkle_branch)],
   transactions |-> << job.coinbaseTransaction >> \o Tail(template.transactions)]

\* A share for job j; the miner submits the version bits it changed.
submitShare(j, rolled) ==
  /\ LET job      == notified[j].job
         template == fetched[notified[j].template]
     IN  submitted' =
           << [miner |-> MinerHeader(notified[j].notify, Spliced(isHobbyMinerSession), rolled),
               pool |-> buildHeaderBuffer(job, template, rolled),
               block |-> copyAndUpdateBlock(job, template, rolled)] >>
  /\ UNCHANGED <<isHobbyMinerSession, fetched, rotation, notified>>

WorkNext ==
  \/ \E n \in Transactions, v \in NodeVersions, o \in NodeOutputs, p \in NodePrefixes :
       buildTemplate(n, v, o, p)
  \/ \E t \in 1..Len(fetched), clear \in BOOLEAN : sendJob(t, clear)
  \/ \E j \in 1..Len(notified), rolled \in SUBSET MinerBits : submitShare(j, rolled)

WorkSpec == WorkInit /\ [][WorkNext]_workVars

-----------------------------------------------------------------------------
(* Properties                                                              *)

\* Whatever was fetched and sent since, the header a share is judged by is the header
\* of the block the pool would submit, which commits to the block's transactions, for
\* every number of them, although the branch was computed with another coinbase.  It is
\* the header the miner hashed in every NORMAL session and in no HOBBY session: with an
\* extranonce1 in its coinbase a share is never judged by what was hashed.
HeadersAgree ==
  \A i \in DOMAIN submitted :
    LET s == submitted[i]
    IN  /\ s.block.header = s.pool
        /\ s.block.header.merkleRoot = calculateMerkleRoot(s.block.transactions)
        /\ s.pool = s.miner <=> ~isHobbyMinerSession

\* Two jobs with different states of the rotation share no header, whatever bits the
\* miner rolls in either.
DisjointWork ==
  \A i, j \in 1..Len(notified) :
    notified[i].state # notified[j].state =>
      \A x, y \in SUBSET MinerBits :
        MinerHeader(notified[i].notify, Spliced(isHobbyMinerSession), x).version #
          MinerHeader(notified[j].notify, Spliced(isHobbyMinerSession), y).version

-----------------------------------------------------------------------------
(* The inductive invariants behind HeadersAgree and DisjointWork.          *)

IsSequence(q) == Len(q) \in Nat /\ q = [i \in 1..Len(q) |-> q[i]]

\* The branch a template keeps is that of its own transactions.
TemplateOK(x) ==
  /\ x.version \in NodeVersions
  /\ IsSequence(x.transactions) /\ Len(x.transactions) > 0
  /\ x.merkle_branch = merkleBranch(x.transactions)

\* A job and its notify are those of its template, with the version bits of its state.
JobOK(n) ==
  /\ n.template \in 1..Len(fetched)
  /\ LET x == fetched[n.template]
     IN  /\ n.job = newMiningJob(x, jobVersion(x.version, n.state))
         /\ n.notify = response(n.job, x)

WorkInv ==
  /\ isHobbyMinerSession \in BOOLEAN
  /\ IsSequence(fetched) /\ \A t \in 1..Len(fetched) : TemplateOK(fetched[t])
  /\ IsSequence(notified) /\ \A j \in 1..Len(notified) : JobOK(notified[j])

\* The rotation stays within the pool's bits.
RotationInv ==
  /\ rotation \in Nat
  /\ \A j \in 1..Len(notified) : notified[j].state \in 0..(2^PoolWidth - 1)
=============================================================================
