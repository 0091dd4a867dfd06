---------------------------- MODULE PoolRegistry ----------------------------
(***************************************************************************)
(* PoolRegistryService: the list of mempool explorers, fetched from a      *)
(* shared registry and cached in a file, and the report of a found block   *)
(* to every one of them, which an explorer checks by calling back          *)
(* (wasRecentlyFound).  The registry and the explorers are external; that  *)
(* the pool is given a name (POOL_IDENTIFIER) is assumed.                  *)
(***************************************************************************)
EXTENDS Integers

CONSTANTS
  Explorers,       \* entries a registry file may list
  FoundBlocks,     \* blocks the pool finds
  RecentTtl,       \* RECENT_BLOCK_TTL_MS
  MaxRegistryTime, \* bound: the clock
  MaxStops         \* bound: restarts of the process

ASSUME PoolRegistryAssumption ==
  /\ RecentTtl \in Nat
  /\ MaxRegistryTime \in Nat /\ MaxStops \in Nat

VARIABLES
  minute,              \* Date.now()
  mempools,            \* the explorers known
  cacheFile,           \* the explorers listed in the local file, if it can be parsed
  fetching,            \* whether refreshRegistry awaits the registry
  recentlyFoundBlocks, \* hash and time of blocks found, as a set of pairs
  reports,             \* <<explorer, block>>: reports under way
  denied,              \* <<explorer, block>>: callbacks answered with no
  foundAt,             \* history: when each block was found, -1 before
  forgotten,           \* history: blocks found before the last restart
  stops                \* restarts so far

poolRegistryVars == <<minute, mempools, cacheFile, fetching, recentlyFoundBlocks,
                      reports, denied, foundAt, forgotten, stops>>

\* A process that has just started reads what is on disk; its refresh comes next.
PoolRegistryInit ==
  /\ minute = 0
  /\ cacheFile \in SUBSET Explorers
  /\ mempools = cacheFile
  /\ fetching = TRUE
  /\ recentlyFoundBlocks = {} /\ reports = {} /\ denied = {}
  /\ foundAt = [b \in FoundBlocks |-> -1]
  /\ forgotten = {} /\ stops = 0

-----------------------------------------------------------------------------
\* The 15 minute timer; a fetch times out long before the next one.
refreshRegistry ==
  /\ ~fetching
  /\ fetching' = TRUE
  /\ UNCHANGED <<minute, mempools, cacheFile, recentlyFoundBlocks, reports, denied,
                 foundAt, forgotten, stops>>

\* Only an answer with an entry in it replaces the list.
Accepted(entries) == entries # {}

\* The answer, parsed: none of its lines may be an entry.  Saving it may fail.
RegistryAnswers(entries) ==
  /\ fetching
  /\ fetching' = FALSE
  /\ IF Accepted(entries)
     THEN mempools' = entries /\ cacheFile' \in {entries, cacheFile}
     ELSE UNCHANGED <<mempools, cacheFile>>
  /\ UNCHANGED <<minute, recentlyFoundBlocks, reports, denied, foundAt, forgotten, stops>>

RegistryUnreachable ==
  /\ fetching
  /\ fetching' = FALSE
  /\ UNCHANGED <<minute, mempools, cacheFile, recentlyFoundBlocks, reports, denied,
                 foundAt, forgotten, stops>>

\* Mutant of Recent: entries go as soon as the clock has moved on.
RecentNow(entry) == entry.time >= minute

\* Whether pruneOldEntries keeps an entry.
Recent(entry) == entry.time >= minute - RecentTtl

pruneOldEntries(entries) == {e \in entries : Recent(e)}

\* Mutant of reportBlockFound: the block is not recorded before it is reported.
reportBlockFoundUnrecorded(b) ==
  /\ foundAt[b] = -1
  /\ foundAt' = [foundAt EXCEPT ![b] = minute]
  /\ reports' = reports \cup {<<e, b>> : e \in mempools}
  /\ UNCHANGED <<minute, mempools, cacheFile, fetching, recentlyFoundBlocks, denied,
                 forgotten, stops>>

\* The block is recorded, and a report to each explorer is under way.
reportBlockFound(b) ==
  /\ foundAt[b] = -1
  /\ foundAt' = [foundAt EXCEPT ![b] = minute]
  /\ recentlyFoundBlocks' =
       pruneOldEntries(recentlyFoundBlocks \cup {[hash |-> b, time |-> minute]})
  /\ reports' = reports \cup {<<e, b>> : e \in mempools}
  /\ UNCHANGED <<minute, mempools, cacheFile, fetching, denied, forgotten, stops>>

wasRecentlyFound(b) == \E e \in pruneOldEntries(recentlyFoundBlocks) : e.hash = b

\* The explorer got the report and asks the pool whether it is true ...
Callback(r) ==
  /\ recentlyFoundBlocks' = pruneOldEntries(recentlyFoundBlocks)
  /\ denied' = IF wasRecentlyFound(r[2]) THEN denied ELSE denied \cup {r}
  /\ reports' = reports \ {r}
  /\ UNCHANGED <<minute, mempools, cacheFile, fetching, foundAt, forgotten, stops>>

\* ... or the report is lost.
ReportLost(r) ==
  /\ reports' = reports \ {r}
  /\ UNCHANGED <<minute, mempools, cacheFile, fetching, recentlyFoundBlocks, denied,
                 foundAt, forgotten, stops>>

\* The process stops, perhaps while it writes the file, and starts again; reports that
\* were sent still arrive.
RegistryRestarts ==
  /\ stops < MaxStops
  /\ stops' = stops + 1
  /\ cacheFile' \in {cacheFile, {}}
  /\ mempools' = cacheFile'
  /\ fetching' = TRUE
  /\ recentlyFoundBlocks' = {}
  /\ forgotten' = {b \in FoundBlocks : foundAt[b] # -1}
  /\ UNCHANGED <<minute, reports, denied, foundAt>>

Minutes ==
  /\ minute < MaxRegistryTime
  /\ minute' = minute + 1
  /\ UNCHANGED <<mempools, cacheFile, fetching, recentlyFoundBlocks, reports, denied,
                 foundAt, forgotten, stops>>

PoolRegistryNext ==
  \/ refreshRegistry \/ RegistryUnreachable \/ RegistryRestarts \/ Minutes
  \/ \E entries \in SUBSET Explorers : RegistryAnswers(entries)
  \/ \E b \in FoundBlocks : reportBlockFound(b)
  \/ \E r \in reports : Callback(r) \/ ReportLost(r)

PoolRegistrySpec == PoolRegistryInit /\ [][PoolRegistryNext]_poolRegistryVars

-----------------------------------------------------------------------------
(* Properties                                                              *)

\* An explorer that got a report and asks within the time allowed is told yes, however
\* late other blocks and callbacks prune the map, unless the process restarted since.
ReportConfirmed ==
  [][\A r \in denied' \ denied :
       r[2] \in forgotten \/ minute - foundAt[r[2]] > RecentTtl]_poolRegistryVars

-----------------------------------------------------------------------------
(* The inductive invariant behind ReportConfirmed.                         *)

\* A block found since the last restart is remembered, with the time it was found, for
\* as long as it has to be; and only blocks that were found are reported.
Remembered(b) ==
  \/ foundAt[b] = -1 \/ b \in forgotten
  \/ minute - foundAt[b] > RecentTtl
  \/ [hash |-> b, time |-> foundAt[b]] \in recentlyFoundBlocks

ReportsInv ==
  /\ minute \in Nat /\ mempools \subseteq Explorers /\ cacheFile \subseteq Explorers
  /\ foundAt \in [FoundBlocks -> Int]
  /\ reports \subseteq Explorers \X FoundBlocks
  /\ \A b \in FoundBlocks : foundAt[b] <= minute /\ Remembered(b)
  /\ \A r \in reports : foundAt[r[2]] # -1
=============================================================================
