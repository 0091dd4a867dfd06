--------------------------- MODULE StratumSession ---------------------------
(***************************************************************************)
(* A Stratum connection from accept to destroy: subscribe, configure,      *)
(* authorize, suggest_difficulty, the start of the job timers, the ways a  *)
(* socket ends.  When the server accepts connections is in Backpressure.   *)
(*                                                                         *)
(* Each packet starts a loop over its messages, so messages of different   *)
(* packets are handled concurrently; a loop here carries one message.  The *)
(* awaits are those of validate and of write.  When a write returns, its   *)
(* check of the socket and what follows run without interruption.          *)
(***************************************************************************)
EXTENDS Integers, FiniteSets

CONSTANTS
  Connections,       \* connections over the life of the server
  Loops,             \* messages being handled at the same time
  Agents,            \* kinds of user agent, see AgentKinds
  DefaultDifficulty, HobbyDifficulty, LowDifficulty,   \* starting difficulties
  AskedDifficulties, \* those a miner asks for (authorize, suggest) or vardiff sets
  MaxMessages        \* bound: messages of a connection

AgentKinds == {"asic", "hobby", "cpu", "blocked"}

ASSUME SessionAssumption ==
  /\ Connections # {}
  /\ Agents \subseteq AgentKinds
  /\ {DefaultDifficulty, HobbyDifficulty, LowDifficulty} \subseteq Nat \ {0}
  /\ AskedDifficulties \subseteq Nat \ {0}
  /\ MaxMessages \in Nat

VARIABLES
  session,    \* the fields of each StratumV1Client
  loop        \* the messages being handled

sessionVars == <<session, loop>>

NoAgent == "none"
NotTold == 0

\* timers: how often the three intervals and the block subscription are set up.
\* Ghosts: told, the difficulty last sent; quiet, one of the two changes the miner is
\* not told of was made since; received, the number of messages.
SessionState ==
  [socket : {"none", "open", "ended", "destroyed"}, clientSubscription : AgentKinds \cup {NoAgent},
   isHobbyMinerSession : BOOLEAN, clientAuthorization : BOOLEAN,
   clientSuggestedDifficulty : BOOLEAN, usedSuggestedDifficulty : BOOLEAN, stratumInitialized : BOOLEAN,
   timers : Nat, sessionDifficulty : Nat \ {0}, told : Nat, quiet : BOOLEAN, received : Nat]

\* "junk" is not JSON, "other" a method handleMessage does not know.  A difficulty of
\* 0 is none.
Messages ==
  [method : {"subscribe"}, agent : Agents, difficulty : {0}]
  \cup [method : {"configure", "submit", "other", "junk"}, agent : {NoAgent}, difficulty : {0}]
  \cup [method : {"authorize"}, agent : {NoAgent}, difficulty : AskedDifficulties \cup {0}]
  \cup [method : {"suggest"}, agent : {NoAgent}, difficulty : AskedDifficulties]

NoMessage == [method |-> "junk", agent |-> NoAgent, difficulty |-> 0]

LoopState == [pc : {"idle", "validate", "reply", "replySuggest", "rejectSubmit",
                    "setDifficulty"},
              connection : Connections, message : Messages]
IdleLoop == [pc |-> "idle", connection |-> CHOOSE c \in Connections : TRUE,
             message |-> NoMessage]

NewSession ==
  [socket |-> "none", clientSubscription |-> NoAgent, isHobbyMinerSession |-> FALSE,
   clientAuthorization |-> FALSE, clientSuggestedDifficulty |-> FALSE,
   usedSuggestedDifficulty |-> FALSE, stratumInitialized |-> FALSE, timers |-> 0, sessionDifficulty |-> DefaultDifficulty,
   told |-> NotTold, quiet |-> FALSE, received |-> 0]

SessionInit ==
  /\ session = [c \in Connections |-> NewSession]
  /\ loop = [l \in Loops |-> IdleLoop]

Open(c) == session[c].socket = "open"
SetSession(c, s) == session' = [session EXCEPT ![c] = s]
SetLoop(l, r) == loop' = [loop EXCEPT ![l] = r]
LoopPc(l, pc) == SetLoop(l, [loop[l] EXCEPT !.pc = pc])
LoopDone(l) == SetLoop(l, IdleLoop)
ConnectionOf(l) == loop[l].connection

\* destroy: the intervals are cleared and the subscription is ended.
Destroyed(s) == [s EXCEPT !.socket = "destroyed", !.timers = 0]
\* socket.end(): nothing more is read or written; the close event comes later.
Ended(s) == IF s.socket = "open" THEN [s EXCEPT !.socket = "ended"] ELSE s

-----------------------------------------------------------------------------
(* initStratum                                                             *)

MustInit(s) ==
  s.clientSubscription # NoAgent /\ s.clientAuthorization /\ ~s.stratumInitialized

\* Agents known to be slow start lower.  Being a hobby miner is decided by the first
\* subscribe, being a CPU miner by the latest.
StartingDifficulty(s) ==
  CASE s.isHobbyMinerSession -> HobbyDifficulty
    [] ~s.isHobbyMinerSession /\ s.clientSubscription = "cpu" -> LowDifficulty
    [] OTHER -> s.sessionDifficulty

Initialized(s) ==
  [s EXCEPT !.stratumInitialized = TRUE,
            !.sessionDifficulty = StartingDifficulty(s),
            !.quiet = @ \/ (s.clientSuggestedDifficulty /\ StartingDifficulty(s) # s.sessionDifficulty)]

\* What a set_difficulty with the current difficulty leaves.
Told(c, s) == IF Open(c) THEN [s EXCEPT !.told = s.sessionDifficulty, !.quiet = FALSE] ELSE s

\* The block subscription and the three intervals.
StartTimers(s) == [s EXCEPT !.timers = @ + 1]

\* The end of handleMessage: initStratum, when the session has both subscribed and
\* authorized.  A difficulty is sent first unless the miner suggested one.  (Its
\* check for a blocked agent is repeated from subscribe and cannot fire.)
InitStratum(l, c, s) ==
  LET i == Initialized(s)
  IN  IF ~MustInit(s)
      THEN SetSession(c, s) /\ LoopDone(l)
      ELSE IF i.clientSuggestedDifficulty
      THEN SetSession(c, StartTimers(i)) /\ LoopDone(l)
      ELSE /\ SetSession(c, Told(c, i))
           /\ SetLoop(l, [pc |-> "setDifficulty", connection |-> c, message |-> NoMessage])

\* Mutant of DifficultySet: whether the write succeeded is not looked at.
DifficultySetAnyway(l) ==
  LET c == ConnectionOf(l)
  IN  /\ loop[l].pc = "setDifficulty"
      /\ SetSession(c, StartTimers(session[c]))
      /\ LoopDone(l)

\* initStratum goes on after the write of the difficulty, unless the socket closed.
DifficultySet(l) ==
  LET c == ConnectionOf(l)
  IN  /\ loop[l].pc = "setDifficulty"
      /\ SetSession(c, IF Open(c) THEN StartTimers(session[c]) ELSE session[c])
      /\ LoopDone(l)

-----------------------------------------------------------------------------
(* handleMessage                                                           *)

\* Text that is not JSON and a submit before the session is initialised.
EndsSocket(s, m) ==
  \/ m.method = "junk"
  \/ m.method = "submit" /\ ~s.stratumInitialized

\* A second suggestion.
Ignored(s, m) == m.method = "suggest" /\ s.usedSuggestedDifficulty

\* The next message of a packet, up to its validation.
Receive(l, c, m) ==
  LET s == [session[c] EXCEPT !.received = @ + 1]
  IN  /\ loop[l].pc = "idle"
      /\ Open(c)
      /\ session[c].received < MaxMessages
      /\ CASE EndsSocket(s, m) -> SetSession(c, Ended(s)) /\ UNCHANGED loop
           [] Ignored(s, m) -> SetSession(c, s) /\ UNCHANGED loop
           [] m.method = "other" -> InitStratum(l, c, s)
           [] OTHER -> /\ SetSession(c, s)
                       /\ SetLoop(l, [pc |-> "validate", connection |-> c, message |-> m])

\* write called on a socket that is closed returns false, and the handler returns.
Writing(l, pc) == IF Open(ConnectionOf(l)) THEN LoopPc(l, pc) ELSE LoopDone(l)

\* The message is not valid: an error is written; a submit then loses its socket.
Invalid(l) ==
  /\ loop[l].pc = "validate"
  /\ Writing(l, IF loop[l].message.method = "submit" THEN "rejectSubmit" ELSE "reply")
  /\ UNCHANGED session

Subscribe(l) ==
  LET c == ConnectionOf(l)
      m == loop[l].message
  IN  /\ loop[l].pc = "validate" /\ m.method = "subscribe"
      /\ IF m.agent = "blocked"
         THEN SetSession(c, Destroyed(session[c])) /\ LoopDone(l)
         ELSE /\ SetSession(c, [session[c] EXCEPT
                   !.clientSubscription = m.agent,
                   !.isHobbyMinerSession =
                     IF session[c].clientSubscription = NoAgent THEN m.agent = "hobby" ELSE @])
              /\ Writing(l, "reply")

Configure(l) ==
  /\ loop[l].pc = "validate" /\ loop[l].message.method = "configure"
  /\ Writing(l, "reply")
  /\ UNCHANGED session

\* A starting difficulty in the password counts if it is higher and none was
\* suggested.
Authorize(l) ==
  LET c == ConnectionOf(l)
      d == loop[l].message.difficulty
      raises == ~session[c].clientSuggestedDifficulty /\ d > session[c].sessionDifficulty
  IN  /\ loop[l].pc = "validate" /\ loop[l].message.method = "authorize"
      /\ SetSession(c, [session[c] EXCEPT
           !.clientAuthorization = TRUE,
           !.sessionDifficulty = IF raises THEN d ELSE @,
           !.quiet = @ \/ (raises /\ session[c].stratumInitialized)])
      /\ Writing(l, "reply")

\* Mutant of SuggestDifficulty: the answer repeats the difficulty before it.
SuggestDifficultyStale(l) ==
  LET c == ConnectionOf(l)
  IN  /\ loop[l].pc = "validate" /\ loop[l].message.method = "suggest"
      /\ SetSession(c, [Told(c, session[c]) EXCEPT
           !.clientSuggestedDifficulty = TRUE,
           !.sessionDifficulty = loop[l].message.difficulty])
      /\ Writing(l, "replySuggest")

SuggestDifficulty(l) ==
  LET c == ConnectionOf(l)
      d == loop[l].message.difficulty
  IN  /\ loop[l].pc = "validate" /\ loop[l].message.method = "suggest"
      /\ SetSession(c, Told(c, [session[c] EXCEPT !.clientSuggestedDifficulty = TRUE,
                                                  !.sessionDifficulty = d]))
      /\ Writing(l, "replySuggest")

\* handleMiningSubmission returns, or throws and the loop ends the socket.
SubmitHandled(l, throws) ==
  /\ loop[l].pc = "validate" /\ loop[l].message.method = "submit"
  /\ SetSession(ConnectionOf(l), IF throws THEN Ended(session[ConnectionOf(l)])
                                           ELSE session[ConnectionOf(l)])
  /\ LoopDone(l)

\* Mutant of Replied: a subscribe returns instead of going on to initStratum.
RepliedEarly(l) ==
  LET c == ConnectionOf(l)
  IN  /\ loop[l].pc \in {"reply", "replySuggest"}
      /\ IF ~Open(c) \/ loop[l].message.method = "subscribe"
         THEN LoopDone(l) /\ UNCHANGED session
         ELSE InitStratum(l, c, session[c])

\* The write of an answer returns: on a closed socket the handler returns.  Only an
\* answered suggestion, not an invalid one, is the last.
Replied(l) ==
  LET c == ConnectionOf(l)
  IN  /\ loop[l].pc \in {"reply", "replySuggest"}
      /\ IF ~Open(c)
         THEN LoopDone(l) /\ UNCHANGED session
         ELSE InitStratum(l, c, [session[c] EXCEPT
                !.usedSuggestedDifficulty = @ \/ loop[l].pc = "replySuggest"])

SubmitRejected(l) ==
  LET c == ConnectionOf(l)
  IN  /\ loop[l].pc = "rejectSubmit"
      /\ SetSession(c, IF Open(c) THEN Destroyed(session[c]) ELSE session[c])
      /\ LoopDone(l)

\* A write fails: destroy, and false is returned.
WriteFails(l) ==
  /\ loop[l].pc \in {"reply", "replySuggest", "rejectSubmit", "setDifficulty"}
  /\ SetSession(ConnectionOf(l), Destroyed(session[ConnectionOf(l)]))
  /\ LoopDone(l)

\* The interval of checkDifficulty: vardiff wants another difficulty.
CheckDifficulty(c, d) ==
  /\ session[c].timers > 0
  /\ d # session[c].sessionDifficulty
  /\ SetSession(c, Told(c, [session[c] EXCEPT !.sessionDifficulty = d]))
  /\ UNCHANGED loop

-----------------------------------------------------------------------------
(* The socket                                                              *)

Accepted == {c \in Connections : session[c].socket \in {"open", "ended"}}

Connect(c) ==
  /\ session[c].socket = "none"
  /\ SetSession(c, [session[c] EXCEPT !.socket = "open"])
  /\ UNCHANGED loop

\* The miner ends its side.
RemoteEnd(c) ==
  /\ Open(c)
  /\ SetSession(c, Ended(session[c]))
  /\ UNCHANGED loop

\* The close event, also after the five-minute timeout: destroy.
SocketClosed(c) ==
  /\ c \in Accepted
  /\ SetSession(c, Destroyed(session[c]))
  /\ UNCHANGED loop

-----------------------------------------------------------------------------
LoopStep(l) ==
  \/ Invalid(l) \/ Subscribe(l) \/ Configure(l) \/ Authorize(l) \/ SuggestDifficulty(l)
  \/ \E throws \in BOOLEAN : SubmitHandled(l, throws)
  \/ Replied(l) \/ SubmitRejected(l) \/ DifficultySet(l) \/ WriteFails(l)

SessionNext ==
  \/ \E l \in Loops :
       \/ \E c \in Connections, m \in Messages : Receive(l, c, m)
       \/ LoopStep(l)
  \/ \E c \in Connections :
       \/ \E d \in AskedDifficulties : CheckDifficulty(c, d)
       \/ Connect(c) \/ RemoteEnd(c) \/ SocketClosed(c)

SessionSpec == SessionInit /\ [][SessionNext]_sessionVars

-----------------------------------------------------------------------------
(* Properties                                                              *)

\* The type invariant: among the rest, the configuration gives no session a
\* difficulty of 0.  (A miner may suggest one; AskedDifficulties leaves that out.)
SessionTypeOK ==
  /\ session \in [Connections -> SessionState]
  /\ loop \in [Loops -> LoopState]

\* The intervals and the block subscription of a session are set up at most once,
\* however its messages interleave, and none outlives the session: a closed
\* connection does not go on asking the node for templates.
TimersOwned ==
  \A c \in Connections :
    /\ session[c].timers <= 1
    /\ session[c].socket = "destroyed" => session[c].timers = 0

\* Once it gets jobs, a miner has been told the difficulty its shares are checked
\* against, whichever of initStratum, a suggestion and vardiff spoke last.  The two
\* changes nobody tells it of are excepted until the next set_difficulty: a slow
\* agent that suggested a difficulty, and a later authorize with a higher one.
DifficultyTold ==
  \A c \in Connections :
    LET s == session[c]
    IN  Open(c) /\ s.timers > 0 /\ ~s.quiet => s.told = s.sessionDifficulty

\* A miner that has subscribed and authorized, in whatever order and packets, gets
\* its timers, unless the connection ends.
EventuallyServed ==
  \A c \in Connections :
    (Open(c) /\ MustInit(session[c])) ~> (session[c].timers > 0 \/ ~Open(c))

-----------------------------------------------------------------------------
(* The inductive invariant behind TimersOwned and DifficultyTold.          *)

\* A connection that was not accepted yet is new; timers belong to an initialised
\* session that is not destroyed; the difficulty is told from the moment one was
\* suggested or initStratum ran.
SessionGood(s) ==
  /\ s.socket = "none" => s = NewSession
  /\ s.timers \in {0, 1}
  /\ s.timers = 1 => s.stratumInitialized
  /\ s.socket = "destroyed" => s.timers = 0
  /\ s.socket = "open" /\ (s.stratumInitialized \/ s.clientSuggestedDifficulty) /\ ~s.quiet
       => s.told = s.sessionDifficulty

\* Between the first write of a difficulty and the timers it lets start, the session is
\* initialised, which keeps every other message from starting them as well.
LoopGood(l) ==
  LET s == session[ConnectionOf(l)]
  IN  /\ loop[l].pc # "idle" => s.socket # "none"
      /\ loop[l].pc = "setDifficulty" => s.stratumInitialized /\ s.timers = 0

SessionInv ==
  /\ \A c \in Connections : SessionGood(session[c])
  /\ \A l \in Loops : LoopGood(l)
  /\ \A l, k \in Loops :
       /\ loop[l].pc = "setDifficulty" /\ loop[k].pc = "setDifficulty"
       /\ ConnectionOf(l) = ConnectionOf(k)
       => l = k
=============================================================================
