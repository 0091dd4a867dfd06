--------------------------- MODULE ShareStatistics ---------------------------
(***************************************************************************)
(* StratumV1ClientStatistics.addShares: the work of a session is summed in *)
(* memory per ten-minute slot and written to client_statistics_entity now  *)
(* and then.  An adder is one share in addShares; shares of one session    *)
(* that arrive in different packets are processed concurrently.            *)
(*                                                                         *)
(* The one database connection executes statements in the order they are  *)
(* issued, so a statement takes effect when it is issued and its await     *)
(* ends later.  acceptedCount is assigned wherever shares is, with 1 for   *)
(* the difficulty, and is left out.                                        *)
(***************************************************************************)
EXTENDS Integers, Sequences, Sums

CONSTANTS
  Adders,            \* shares in addShares at the same time
  StatDifficulties,  \* their difficulties
  SlotLength,        \* ten minutes
  SaveAfter,         \* one minute
  StatFaults,        \* {"db"}: statements may throw
  MaxStatTime, MaxAdded   \* bounds: the clock, the number of shares

ASSUME StatisticsAssumption ==
  /\ StatDifficulties \subseteq Nat \ {0}
  /\ SlotLength \in Nat \ {0} /\ SaveAfter \in Nat
  /\ StatFaults \subseteq {"db"}
  /\ MaxStatTime \in Nat /\ MaxAdded \in Nat

VARIABLES
  statTime,   \* Date.now()
  stats,      \* the fields of the session's statistics object
  statRows,   \* the session's rows of client_statistics_entity
  adder,      \* the shares in addShares
  added,      \* number of shares so far
  work,       \* ghost: the difficulties of all of them
  lost        \* ghost: a statement has thrown

statisticsVars == <<statTime, stats, statRows, adder, added, work, lost>>

NoSlot == -1
Never == -1

Statistics == [currentTimeSlot : Int, shares : Nat, lastSave : Int]
StatRow == [time : Nat, shares : Nat]

\* pc names the statement whose await has not returned.
AdderState == [pc : {"idle", "closeSlot", "save"}, difficulty : Nat, timeSlot : Nat]
IdleAdder == [pc |-> "idle", difficulty |-> 0, timeSlot |-> 0]

StatisticsInit ==
  /\ statTime = 0
  /\ stats = [currentTimeSlot |-> NoSlot, shares |-> 0, lastSave |-> Never]
  /\ statRows = << >>
  /\ adder = [a \in Adders |-> IdleAdder]
  /\ added = 0 /\ work = 0 /\ lost = FALSE

TimeSlot == statTime \div SlotLength
SetAdder(a, r) == adder' = [adder EXCEPT ![a] = r]

\* A statement is issued; if it throws, the caller logs it and addShares is over.
Execute(a, rows, awaiting) ==
  \/ /\ statRows' = rows
     /\ SetAdder(a, awaiting)
     /\ UNCHANGED lost
  \/ /\ "db" \in StatFaults
     /\ SetAdder(a, IdleAdder)
     /\ lost' = TRUE
     /\ UNCHANGED statRows

Awaiting(pc, d, timeSlot) == [pc |-> pc, difficulty |-> d, timeSlot |-> timeSlot]

\* INSERT, and UPDATE of the rows of one slot: of all of them, should there be two.
RowInserted(m) == Append(statRows, [time |-> m.currentTimeSlot, shares |-> m.shares])
RowsUpdated(m) ==
  [i \in 1..Len(statRows) |->
     IF statRows[i].time = m.currentTimeSlot THEN [statRows[i] EXCEPT !.shares = m.shares]
                                             ELSE statRows[i]]

WithShare(d) == [stats EXCEPT !.shares = @ + d]
SaveDue == stats.lastSave = Never \/ statTime - SaveAfter > stats.lastSave

\* The first share: a row for the current slot is inserted.
FirstShare(a, d) ==
  /\ stats.currentTimeSlot = NoSlot
  /\ stats' = [WithShare(d) EXCEPT !.currentTimeSlot = TimeSlot]
  /\ Execute(a, RowInserted(stats'), Awaiting("save", d, TimeSlot))

\* The first share of a new slot: the old slot's row gets its last update first,
\* and memory changes only when that has returned.
SlotChange(a, d) ==
  /\ stats.currentTimeSlot \notin {NoSlot, TimeSlot}
  /\ Execute(a, RowsUpdated(stats), Awaiting("closeSlot", d, TimeSlot))
  /\ UNCHANGED stats

\* A minute since the last save: the row is updated.
SaveShare(a, d) ==
  /\ stats.currentTimeSlot = TimeSlot /\ SaveDue
  /\ stats' = WithShare(d)
  /\ Execute(a, RowsUpdated(stats'), Awaiting("save", d, TimeSlot))

\* Otherwise the share is only counted in memory.
CountShare(a, d) ==
  /\ stats.currentTimeSlot = TimeSlot /\ ~SaveDue
  /\ stats' = WithShare(d)
  /\ UNCHANGED <<adder, statRows, lost>>

addShares(a, d) ==
  /\ adder[a].pc = "idle"
  /\ added < MaxAdded
  /\ added' = added + 1 /\ work' = work + d
  /\ FirstShare(a, d) \/ SlotChange(a, d) \/ SaveShare(a, d) \/ CountShare(a, d)
  /\ UNCHANGED statTime

\* Mutant of NewSlot: the shares of the old slot are carried over.
NewSlotCarries(a) == [stats EXCEPT !.currentTimeSlot = adder[a].timeSlot,
                                   !.shares = @ + adder[a].difficulty]

\* The new slot starts with this share alone.
NewSlot(a) == [stats EXCEPT !.currentTimeSlot = adder[a].timeSlot,
                            !.shares = adder[a].difficulty]

\* The old slot is written: a row for the new one is inserted.
SlotClosed(a) ==
  /\ adder[a].pc = "closeSlot"
  /\ stats' = NewSlot(a)
  /\ Execute(a, RowInserted(stats'), Awaiting("save", adder[a].difficulty, adder[a].timeSlot))
  /\ UNCHANGED <<statTime, added, work>>

Saved(a) ==
  /\ adder[a].pc = "save"
  /\ stats' = [stats EXCEPT !.lastSave = statTime]
  /\ SetAdder(a, IdleAdder)
  /\ UNCHANGED <<statTime, statRows, added, work, lost>>

StatTick ==
  /\ statTime < MaxStatTime
  /\ statTime' = statTime + 1
  /\ UNCHANGED <<stats, statRows, adder, added, work, lost>>

StatisticsNext ==
  \/ \E a \in Adders :
       \/ \E d \in StatDifficulties : addShares(a, d)
       \/ SlotClosed(a) \/ Saved(a)
  \/ StatTick

StatisticsSpec == StatisticsInit /\ [][StatisticsNext]_statisticsVars

-----------------------------------------------------------------------------
(* Properties                                                              *)

\* The type invariant: among the rest, every row has a slot.
StatisticsTypeOK ==
  /\ statTime \in Nat /\ added \in Nat /\ work \in Nat /\ lost \in BOOLEAN
  /\ stats \in Statistics
  /\ statRows \in Seq(StatRow)
  /\ adder \in [Adders -> AdderState]

SumRows(S) == SumOver([i \in DOMAIN statRows |-> statRows[i].shares], S)
Rows == 1..Len(statRows)

\* The work shown never exceeds the work done; and between two shares, unless a
\* statement threw, what the closed slots have in the table and the current slot in
\* memory is exactly the work done, each slot having one row.
AccumulatedWork ==
  /\ SumRows(Rows) <= work
  /\ (\A a \in Adders : adder[a].pc = "idle") /\ ~lost =>
       /\ SumRows({i \in Rows : statRows[i].time # stats.currentTimeSlot}) + stats.shares = work
       /\ \A i, j \in Rows : statRows[i].time = statRows[j].time => i = j

-----------------------------------------------------------------------------
(* The inductive invariant behind AccumulatedWork, for shares that do not  *)
(* overlap.                                                                *)

OneAtATime == \E a : Adders = {a}

\* The work of the closed slots, as the table has it.
ClosedWork == SumRows({i \in Rows : statRows[i].time # stats.currentTimeSlot})

\* A share that waits for the old slot to be closed is in no slot yet.
PendingWork(a) == IF adder[a].pc = "closeSlot" THEN adder[a].difficulty ELSE 0

\* Slots are entered in the order of time, each at most once, and only the row of the
\* current one, the last, may be behind the memory.
SlotsInv ==
  /\ stats.currentTimeSlot = NoSlot => stats.shares = 0 /\ statRows = << >>
  /\ stats.currentTimeSlot <= TimeSlot /\ stats.currentTimeSlot >= NoSlot
  /\ \A i, j \in Rows : i < j => statRows[i].time < statRows[j].time
  /\ \A i \in Rows : /\ statRows[i].time <= stats.currentTimeSlot
                     /\ statRows[i].time = stats.currentTimeSlot => statRows[i].shares <= stats.shares
  /\ ~lost /\ stats.currentTimeSlot # NoSlot =>
       Len(statRows) > 0 /\ statRows[Len(statRows)].time = stats.currentTimeSlot

AdderGood(a) ==
  /\ adder[a].pc = "closeSlot" =>
       /\ stats.currentTimeSlot < adder[a].timeSlot /\ adder[a].timeSlot <= TimeSlot
       /\ stats.currentTimeSlot # NoSlot
       /\ ~lost => statRows[Len(statRows)].shares = stats.shares
  /\ ClosedWork + stats.shares + PendingWork(a) <= work
  /\ ~lost => ClosedWork + stats.shares + PendingWork(a) = work

StatisticsInv ==
  /\ SlotsInv
  /\ \A a \in Adders : AdderGood(a)
=============================================================================
