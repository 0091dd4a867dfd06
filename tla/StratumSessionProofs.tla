------------------------ MODULE StratumSessionProofs ------------------------
(***************************************************************************)
(* Theorems about StratumSession, for every number of connections and of   *)
(* messages handled at the same time, and every set of difficulties.       *)
(***************************************************************************)
EXTENDS StratumSession, TLAPS

-----------------------------------------------------------------------------
(* The states of a session and of a loop                                   *)

\* A new connection, and a timer loop that does not run.
LEMMA NewTypes ==
  /\ NewSession \in SessionState /\ SessionGood(NewSession)
  /\ NoMessage \in Messages /\ IdleLoop \in LoopState /\ IdleLoop.pc = "idle"
<1>1. NewSession \in SessionState /\ SessionGood(NewSession)
  BY SessionAssumption DEF NewSession, SessionState, NoAgent, NotTold, SessionGood
<1>2. NoMessage \in Messages
  BY DEF NoMessage, Messages
<1>3. (CHOOSE c \in Connections : TRUE) \in Connections
  BY SessionAssumption
<1> QED BY <1>1, <1>2, <1>3 DEF IdleLoop, LoopState

\* destroy keeps what the invariant says of a session.
LEMMA DestroyedGood ==
  ASSUME NEW s \in SessionState, SessionGood(s)
  PROVE  /\ Destroyed(s) \in SessionState /\ SessionGood(Destroyed(s))
         /\ Destroyed(s).socket = "destroyed" /\ Destroyed(s).timers = 0
         /\ Destroyed(s).stratumInitialized = s.stratumInitialized
BY DEF Destroyed, SessionState, SessionGood

\* So does socket.end.
LEMMA EndedGood ==
  ASSUME NEW s \in SessionState, SessionGood(s)
  PROVE  /\ Ended(s) \in SessionState /\ SessionGood(Ended(s))
         /\ (s.socket # "none" => Ended(s).socket # "none")
         /\ Ended(s).timers = s.timers /\ Ended(s).stratumInitialized = s.stratumInitialized
BY DEF Ended, SessionState, SessionGood

-----------------------------------------------------------------------------
(* Steps that write one session, and one loop                              *)

\* What a step that leaves the loops alone has to show.
LEMMA SessionFrame ==
  ASSUME SessionTypeOK, SessionInv, NEW c \in Connections, NEW s \in SessionState,
         SessionGood(s), session[c].socket # "none" => s.socket # "none",
         session[c].stratumInitialized => s.stratumInitialized,
         session[c].stratumInitialized /\ session[c].timers = 0 => s.timers = 0,
         SetSession(c, s), UNCHANGED loop
  PROVE  SessionTypeOK' /\ SessionInv'
<1>1. session' = [session EXCEPT ![c] = s] /\ session \in [Connections -> SessionState]
      /\ loop \in [Loops -> LoopState] /\ loop' = loop
  BY DEF SetSession, SessionTypeOK
<1>2. SessionTypeOK'
  BY <1>1 DEF SessionTypeOK
<1>3. session'[c] = s /\ \A d \in Connections : d # c => session'[d] = session[d]
  BY <1>1
<1>4. \A d \in Connections : SessionGood(session'[d])
  BY <1>3 DEF SessionInv
<1>5. ASSUME NEW k \in Loops PROVE LoopGood(k)'
  <2>1. loop[k].connection \in Connections /\ LoopGood(k)
    BY <1>1 DEF LoopState, SessionInv
  <2> QED BY <1>1, <1>3, <2>1 DEF LoopGood, ConnectionOf
<1> QED BY <1>1, <1>2, <1>4, <1>5 DEF SessionInv, ConnectionOf

\* What a step that also moves loop l has to show: only one that initialises the
\* session may go on to the write of the difficulty.
LEMMA LoopFrame ==
  ASSUME SessionTypeOK, SessionInv, NEW c \in Connections, NEW s \in SessionState,
         SessionGood(s), session[c].socket # "none" => s.socket # "none",
         session[c].stratumInitialized => s.stratumInitialized,
         NEW l \in Loops, NEW r \in LoopState,
         r.pc # "idle" => r.connection = c /\ s.socket # "none",
         r.pc = "setDifficulty" => s.stratumInitialized /\ s.timers = 0
                                   /\ ~session[c].stratumInitialized,
         \/ session[c].stratumInitialized /\ session[c].timers = 0 => s.timers = 0
         \/ loop[l].pc = "setDifficulty" /\ loop[l].connection = c,
         SetSession(c, s), SetLoop(l, r)
  PROVE  SessionTypeOK' /\ SessionInv'
<1>1. session' = [session EXCEPT ![c] = s] /\ session \in [Connections -> SessionState]
      /\ loop \in [Loops -> LoopState] /\ loop' = [loop EXCEPT ![l] = r]
  BY DEF SetSession, SessionTypeOK, SetLoop
<1>2. SessionTypeOK'
  BY <1>1 DEF SessionTypeOK
<1>3. session'[c] = s /\ (\A d \in Connections : d # c => session'[d] = session[d])
      /\ loop'[l] = r /\ (\A k \in Loops : k # l => loop'[k] = loop[k])
  BY <1>1
<1>4. \A d \in Connections : SessionGood(session'[d])
  BY <1>3 DEF SessionInv
<1>5. \A k \in Loops : loop[k].connection \in Connections /\ LoopGood(k)
  BY <1>1 DEF LoopState, SessionInv
<1>6. LoopGood(l)'
  BY <1>3 DEF LoopGood, ConnectionOf
<1>7. ASSUME NEW k \in Loops, k # l PROVE LoopGood(k)'
  <2>1. loop'[k] = loop[k] /\ LoopGood(k) /\ loop[k].connection \in Connections
    BY <1>3, <1>5, <1>7
  <2>2. CASE loop[k].connection # c
    BY <1>3, <2>1, <2>2 DEF LoopGood, ConnectionOf
  <2>3. CASE loop[k].connection = c
    <3>1. loop[k].pc = "setDifficulty" =>
            ~(loop[l].pc = "setDifficulty" /\ loop[l].connection = c)
      BY <1>7, <2>3 DEF SessionInv, ConnectionOf
    <3> QED BY <1>3, <2>1, <2>3, <3>1 DEF LoopGood, ConnectionOf
  <2> QED BY <2>2, <2>3
<1>8. ASSUME NEW k \in Loops, NEW j \in Loops, loop'[k].pc = "setDifficulty",
             loop'[j].pc = "setDifficulty", loop'[k].connection = loop'[j].connection
      PROVE  k = j
  BY <1>3, <1>5, <1>8 DEF LoopGood, ConnectionOf, SessionInv
<1> QED BY <1>2, <1>4, <1>6, <1>7, <1>8 DEF SessionInv, ConnectionOf

-----------------------------------------------------------------------------
(* initStratum                                                             *)

\* A session that has just been initialized satisfies the invariant.
LEMMA InitializedGood ==
  ASSUME NEW s \in SessionState, SessionGood(s), s.socket = "open", MustInit(s)
  PROVE  LET i == Initialized(s)
         IN  /\ i \in SessionState /\ i.socket = "open" /\ i.timers = 0
             /\ i.stratumInitialized
             /\ i.clientSuggestedDifficulty /\ ~i.quiet => i.told = i.sessionDifficulty
             /\ i.clientSuggestedDifficulty = s.clientSuggestedDifficulty
<1>1. StartingDifficulty(s) \in Nat \ {0}
  BY SessionAssumption DEF StartingDifficulty, SessionState
<1>2. s.timers = 0
  BY DEF SessionGood, MustInit
<1> QED BY <1>1, <1>2, ZenonT(60) DEF Initialized, SessionState, SessionGood

\* The end of handleMessage, for a message that changed neither the socket nor what
\* initStratum sets.
LEMMA InitStratumInv ==
  ASSUME SessionTypeOK, SessionInv, NEW c \in Connections, NEW l \in Loops,
         NEW s \in SessionState, SessionGood(s), s.socket = "open", Open(c),
         s.stratumInitialized = session[c].stratumInitialized, s.timers = session[c].timers,
         InitStratum(l, c, s)
  PROVE  SessionTypeOK' /\ SessionInv'
<1>1. CASE ~MustInit(s)
  <2>1. SetSession(c, s) /\ SetLoop(l, IdleLoop)
    BY <1>1 DEF InitStratum, LoopDone
  <2> QED BY <2>1, NewTypes, LoopFrame
<1>2. CASE MustInit(s)
  <2>0. PICK i : i = Initialized(s)
    OBVIOUS
  <2>1. /\ i \in SessionState /\ i.socket = "open" /\ i.timers = 0 /\ i.stratumInitialized
        /\ i.clientSuggestedDifficulty /\ ~i.quiet => i.told = i.sessionDifficulty
    BY <1>2, <2>0, InitializedGood
  <2>2. ~session[c].stratumInitialized
    BY <1>2 DEF MustInit
  <2>3. CASE i.clientSuggestedDifficulty
    <3>0. PICK t : t = StartTimers(i)
      OBVIOUS
    <3>1. SetSession(c, t) /\ SetLoop(l, IdleLoop)
      BY <1>2, <2>0, <2>3, <3>0 DEF InitStratum, LoopDone
    <3>2. /\ t \in SessionState /\ SessionGood(t) /\ t.socket = "open"
          /\ t.stratumInitialized
      BY <2>1, <2>3, <3>0 DEF StartTimers, SessionState, SessionGood
    <3> QED BY <2>2, <3>1, <3>2, NewTypes, LoopFrame
  <2>4. CASE ~i.clientSuggestedDifficulty
    <3>0. PICK t : t = Told(c, i)
      OBVIOUS
    <3>1. PICK r : r = [pc |-> "setDifficulty", connection |-> c, message |-> NoMessage]
      OBVIOUS
    <3>2. SetSession(c, t) /\ SetLoop(l, r)
      BY <1>2, <2>0, <2>4, <3>0, <3>1 DEF InitStratum
    <3>3. /\ t \in SessionState /\ SessionGood(t) /\ t.socket = "open"
          /\ t.stratumInitialized /\ t.timers = 0
      BY <2>1, <2>4, <3>0 DEF Told, SessionState, SessionGood
    <3>4. r \in LoopState /\ r.connection = c /\ r.pc = "setDifficulty"
      BY <3>1, NewTypes DEF LoopState
    <3> QED BY <2>2, <3>2, <3>3, <3>4, LoopFrame
  <2> QED BY <2>3, <2>4
<1> QED BY <1>1, <1>2

-----------------------------------------------------------------------------
(* The steps                                                               *)

\* A write, after a change of the session that neither opens the socket nor touches
\* what initStratum sets.
LEMMA WritingInv ==
  ASSUME SessionTypeOK, SessionInv, NEW l \in Loops, NEW s \in SessionState, SessionGood(s),
         NEW pc \in {"reply", "replySuggest", "rejectSubmit"}, loop[l].pc # "idle",
         s.socket = session[ConnectionOf(l)].socket,
         s.stratumInitialized = session[ConnectionOf(l)].stratumInitialized,
         s.timers = session[ConnectionOf(l)].timers,
         SetSession(ConnectionOf(l), s), Writing(l, pc)
  PROVE  SessionTypeOK' /\ SessionInv'
<1> DEFINE c == ConnectionOf(l)
<1>1. c \in Connections /\ loop[l] \in LoopState
  BY DEF ConnectionOf, SessionTypeOK, LoopState
<1>2. CASE Open(c)
  <2>0. PICK r : r = [loop[l] EXCEPT !.pc = pc]
    OBVIOUS
  <2>1. r \in LoopState /\ r.connection = c /\ r.pc \notin {"idle", "setDifficulty"}
    BY <1>1, <2>0 DEF LoopState, ConnectionOf
  <2>2. SetLoop(l, r) /\ s.socket # "none"
    BY <1>2, <2>0 DEF Writing, LoopPc, Open
  <2> QED BY <1>1, <2>1, <2>2, LoopFrame
<1>3. CASE ~Open(c)
  <2>1. SetLoop(l, IdleLoop)
    BY <1>3 DEF Writing, LoopDone
  <2> QED BY <1>1, <2>1, NewTypes, LoopFrame
<1> QED BY <1>2, <1>3

\* The steps of a timer loop keep the invariant.
LEMMA LoopStepInv ==
  ASSUME SessionTypeOK, SessionInv, NEW l \in Loops, LoopStep(l)
  PROVE  SessionTypeOK' /\ SessionInv'
<1>0. PICK c : c = ConnectionOf(l)
  OBVIOUS
<1>1. PICK s : s = session[c]
  OBVIOUS
<1>2. /\ c \in Connections /\ loop[l] \in LoopState /\ s \in SessionState /\ SessionGood(s)
      /\ session \in [Connections -> SessionState] /\ loop \in [Loops -> LoopState]
  BY <1>0, <1>1 DEF ConnectionOf, SessionTypeOK, LoopState, SessionInv
<1>3. /\ loop[l].pc # "idle" => s.socket # "none"
      /\ loop[l].pc = "setDifficulty" => s.stratumInitialized /\ s.timers = 0
  BY <1>0, <1>1 DEF SessionInv, LoopGood
<1>4. session = [session EXCEPT ![c] = s]
  BY <1>1, <1>2
<1>5. ASSUME NEW pc \in {"reply", "replySuggest", "rejectSubmit"}, loop[l].pc # "idle",
             UNCHANGED session, Writing(l, pc)
      PROVE  SessionTypeOK' /\ SessionInv'
  <2>1. SetSession(ConnectionOf(l), s)
    BY <1>0, <1>4, <1>5 DEF SetSession
  <2> QED BY <1>0, <1>1, <1>2, <1>5, <2>1, WritingInv
<1>6. CASE Invalid(l)
  <2>1. PICK pc \in {"reply", "replySuggest", "rejectSubmit"} : Writing(l, pc)
    BY <1>6 DEF Invalid
  <2> QED BY <1>5, <1>6, <2>1 DEF Invalid
<1>7. CASE Subscribe(l)
  <2>1. CASE loop[l].message.agent = "blocked"
    <3>1. SetSession(c, Destroyed(s)) /\ SetLoop(l, IdleLoop)
      BY <1>0, <1>1, <1>7, <2>1 DEF Subscribe, LoopDone
    <3>2. PICK t : t = Destroyed(s)
      OBVIOUS
    <3>3. /\ t \in SessionState /\ SessionGood(t) /\ t.socket = "destroyed" /\ t.timers = 0
          /\ t.stratumInitialized = s.stratumInitialized
      BY <1>2, <3>2, DestroyedGood
    <3> QED BY <1>1, <1>2, <3>1, <3>2, <3>3, NewTypes, LoopFrame
  <2>2. CASE loop[l].message.agent # "blocked"
    <3>1. PICK t : t = [s EXCEPT
                     !.clientSubscription = loop[l].message.agent,
                     !.isHobbyMinerSession =
                       IF s.clientSubscription = NoAgent THEN loop[l].message.agent = "hobby" ELSE @]
      OBVIOUS
    <3>2. loop[l].message.agent \in AgentKinds \cup {NoAgent}
      BY <1>2, SessionAssumption DEF LoopState, Messages
    <3>3. loop[l].pc # "idle" /\ SetSession(ConnectionOf(l), t) /\ Writing(l, "reply")
      BY <1>0, <1>1, <1>7, <2>2, <3>1 DEF Subscribe
    <3>4. s.socket # "none"
      BY <1>3, <3>3
    <3>5. /\ t \in SessionState /\ SessionGood(t) /\ t.socket = s.socket
          /\ t.stratumInitialized = s.stratumInitialized /\ t.timers = s.timers
      BY <1>2, <3>1, <3>2, <3>4 DEF SessionState, SessionGood
    <3> QED BY <1>0, <1>1, <3>3, <3>5, WritingInv
  <2> QED BY <2>1, <2>2
<1>8. CASE Configure(l)
  BY <1>5, <1>8 DEF Configure
<1>9. CASE Authorize(l)
  <2> DEFINE d == loop[l].message.difficulty
             raises == ~s.clientSuggestedDifficulty /\ d > s.sessionDifficulty
  <2>1. PICK t : t = [s EXCEPT !.clientAuthorization = TRUE,
                       !.sessionDifficulty = IF raises THEN d ELSE @,
                       !.quiet = @ \/ (raises /\ s.stratumInitialized)]
    OBVIOUS
  <2>2. d \in Nat
    <3>1. loop[l].message \in Messages
      BY <1>2 DEF LoopState
    <3>2. \A m \in Messages : m.difficulty \in AskedDifficulties \cup {0}
      BY DEF Messages
    <3>3. d \in AskedDifficulties \cup {0}
      BY <3>1, <3>2
    <3>4. AskedDifficulties \subseteq Nat
      BY SessionAssumption
    <3> HIDE DEF d
    <3> QED BY <3>3, <3>4
  <2>3. loop[l].pc # "idle" /\ SetSession(ConnectionOf(l), t) /\ Writing(l, "reply")
    BY <1>0, <1>1, <1>9, <2>1 DEF Authorize
  <2>4. s.socket # "none"
    BY <1>3, <2>3
  <2>5. /\ t \in SessionState /\ SessionGood(t) /\ t.socket = s.socket
        /\ t.stratumInitialized = s.stratumInitialized /\ t.timers = s.timers
    <3>1. PICK b \in BOOLEAN : b <=> raises
      OBVIOUS
    <3>2. PICK e : e = IF b THEN d ELSE s.sessionDifficulty
      OBVIOUS
    <3>3. e \in Nat \ {0} /\ (b => ~s.clientSuggestedDifficulty) /\ (~b => e = s.sessionDifficulty)
      BY <1>2, <2>2, <3>1, <3>2 DEF SessionState
    <3>4. t = [s EXCEPT !.clientAuthorization = TRUE, !.sessionDifficulty = e,
                        !.quiet = @ \/ (b /\ s.stratumInitialized)]
      BY <2>1, <3>1, <3>2
    <3> QED BY <1>2, <2>4, <3>3, <3>4 DEF SessionState, SessionGood
  <2> QED BY <1>0, <1>1, <2>3, <2>5, WritingInv
<1>10. CASE SuggestDifficulty(l)
  <2> DEFINE d == loop[l].message.difficulty
  <2>0. PICK u : u = [s EXCEPT !.clientSuggestedDifficulty = TRUE, !.sessionDifficulty = d]
    OBVIOUS
  <2>1. PICK t : t = Told(c, u)
    OBVIOUS
  <2>2. loop[l].pc # "idle" /\ SetSession(ConnectionOf(l), t) /\ Writing(l, "replySuggest")
    BY <1>0, <1>1, <1>10, <2>0, <2>1 DEF SuggestDifficulty
  <2>3. d \in Nat \ {0}
    BY <1>2, <1>10, SessionAssumption DEF LoopState, Messages, SuggestDifficulty
  <2>4. s.socket # "none"
    BY <1>3, <2>2
  <2>5. /\ u \in SessionState /\ u.socket = s.socket /\ u.sessionDifficulty = d
        /\ u.stratumInitialized = s.stratumInitialized /\ u.timers = s.timers
    BY <1>2, <2>0, <2>3 DEF SessionState
  <2>6. /\ t \in SessionState /\ SessionGood(t) /\ t.socket = s.socket
        /\ t.stratumInitialized = s.stratumInitialized /\ t.timers = s.timers
    BY <1>1, <1>2, <2>1, <2>4, <2>5 DEF Told, Open, SessionState, SessionGood
  <2> QED BY <1>0, <1>1, <2>2, <2>6, WritingInv
<1>11. ASSUME NEW t \in SessionState, SessionGood(t), s.socket # "none" => t.socket # "none",
             t.stratumInitialized = s.stratumInitialized,
             \/ s.stratumInitialized /\ s.timers = 0 => t.timers = 0
             \/ loop[l].pc = "setDifficulty",
             SetSession(c, t), LoopDone(l)
       PROVE SessionTypeOK' /\ SessionInv'
  <2>1. SetLoop(l, IdleLoop) /\ loop[l].connection = c
    BY <1>0, <1>11 DEF LoopDone, ConnectionOf
  <2> QED BY <1>1, <1>2, <1>11, <2>1, NewTypes, LoopFrame
<1>12. ASSUME NEW throws \in BOOLEAN, SubmitHandled(l, throws)
       PROVE  SessionTypeOK' /\ SessionInv'
  <2>1. PICK t : t = IF throws THEN Ended(s) ELSE s
    OBVIOUS
  <2>2. SetSession(c, t) /\ LoopDone(l)
    BY <1>0, <1>1, <1>12, <2>1 DEF SubmitHandled
  <2>3. /\ t \in SessionState /\ SessionGood(t) /\ (s.socket # "none" => t.socket # "none")
        /\ t.timers = s.timers /\ t.stratumInitialized = s.stratumInitialized
    BY <1>2, <2>1, EndedGood
  <2> QED BY <1>11, <2>2, <2>3
<1>13. CASE Replied(l)
  <2>1. CASE ~Open(c)
    <3>1. SetSession(c, s) /\ LoopDone(l)
      BY <1>0, <1>4, <1>13, <2>1 DEF Replied, SetSession
    <3> QED BY <1>2, <1>11, <3>1
  <2>2. CASE Open(c)
    <3>1. PICK t : t = [s EXCEPT !.usedSuggestedDifficulty = @ \/ loop[l].pc = "replySuggest"]
      OBVIOUS
    <3>2. InitStratum(l, c, t) /\ s.socket = "open"
      BY <1>0, <1>1, <1>13, <2>2, <3>1 DEF Replied, Open
    <3>3. /\ t \in SessionState /\ SessionGood(t) /\ t.socket = "open"
          /\ t.stratumInitialized = s.stratumInitialized /\ t.timers = s.timers
      BY <1>2, <3>1, <3>2 DEF SessionState, SessionGood
    <3> QED BY <1>1, <1>2, <2>2, <3>2, <3>3, InitStratumInv
  <2> QED BY <2>1, <2>2
<1>14. CASE SubmitRejected(l)
  <2>1. PICK t : t = IF Open(c) THEN Destroyed(s) ELSE s
    OBVIOUS
  <2>2. SetSession(c, t) /\ LoopDone(l)
    BY <1>0, <1>1, <1>14, <2>1 DEF SubmitRejected
  <2>3. /\ t \in SessionState /\ SessionGood(t) /\ (s.socket # "none" => t.socket # "none")
        /\ (s.timers = 0 => t.timers = 0) /\ t.stratumInitialized = s.stratumInitialized
    BY <1>2, <2>1, DestroyedGood
  <2> QED BY <1>11, <2>2, <2>3
<1>15. CASE DifficultySet(l)
  <2>1. PICK t : t = IF Open(c) THEN StartTimers(s) ELSE s
    OBVIOUS
  <2>2. SetSession(c, t) /\ LoopDone(l) /\ loop[l].pc = "setDifficulty"
    BY <1>0, <1>1, <1>15, <2>1 DEF DifficultySet
  <2>3. /\ t \in SessionState /\ SessionGood(t) /\ (s.socket # "none" => t.socket # "none")
        /\ t.stratumInitialized = s.stratumInitialized
    BY <1>1, <1>2, <1>3, <2>1, <2>2 DEF StartTimers, SessionState, SessionGood, Open
  <2> QED BY <1>11, <2>2, <2>3
<1>16. CASE WriteFails(l)
  <2>1. PICK t : t = Destroyed(s)
    OBVIOUS
  <2>2. SetSession(c, t) /\ LoopDone(l)
    BY <1>0, <1>1, <1>16, <2>1 DEF WriteFails
  <2>3. /\ t \in SessionState /\ SessionGood(t) /\ t.socket # "none"
        /\ t.timers = 0 /\ t.stratumInitialized = s.stratumInitialized
    BY <1>2, <2>1, DestroyedGood
  <2> QED BY <1>11, <2>2, <2>3
<1> QED
  BY <1>6, <1>7, <1>8, <1>9, <1>10, <1>12, <1>13, <1>14, <1>15, <1>16 DEF LoopStep

\* The messages of the miner keep the invariant.
LEMMA ReceiveInv ==
  ASSUME SessionTypeOK, SessionInv, NEW l \in Loops, NEW c \in Connections,
         NEW m \in Messages, Receive(l, c, m)
  PROVE  SessionTypeOK' /\ SessionInv'
<1>0. PICK s : s = [session[c] EXCEPT !.received = @ + 1]
  OBVIOUS
<1>1. session[c] \in SessionState /\ SessionGood(session[c]) /\ session[c].socket = "open"
  BY DEF SessionTypeOK, SessionInv, Receive, Open
<1>2. /\ s \in SessionState /\ SessionGood(s) /\ s.socket = "open"
      /\ s.stratumInitialized = session[c].stratumInitialized /\ s.timers = session[c].timers
  BY <1>0, <1>1 DEF SessionState, SessionGood
<1>3. \/ SetSession(c, Ended(s)) /\ UNCHANGED loop
      \/ SetSession(c, s) /\ UNCHANGED loop
      \/ InitStratum(l, c, s)
      \/ /\ SetSession(c, s)
         /\ SetLoop(l, [pc |-> "validate", connection |-> c, message |-> m])
  BY <1>0 DEF Receive
<1>4. CASE SetSession(c, Ended(s)) /\ UNCHANGED loop
  <2>1. PICK t : t = Ended(s)
    OBVIOUS
  <2>2. /\ t \in SessionState /\ SessionGood(t) /\ t.socket # "none"
        /\ t.timers = s.timers /\ t.stratumInitialized = s.stratumInitialized
    BY <1>2, <2>1, EndedGood
  <2> QED BY <1>2, <1>4, <2>1, <2>2, SessionFrame
<1>5. CASE SetSession(c, s) /\ UNCHANGED loop
  BY <1>2, <1>5, SessionFrame
<1>6. CASE InitStratum(l, c, s)
  BY <1>1, <1>2, <1>6, InitStratumInv DEF Open
<1>7. CASE SetSession(c, s) /\ SetLoop(l, [pc |-> "validate", connection |-> c, message |-> m])
  <2>1. PICK r : r = [pc |-> "validate", connection |-> c, message |-> m]
    OBVIOUS
  <2>2. r \in LoopState /\ r.pc = "validate" /\ r.connection = c
    BY <2>1 DEF LoopState
  <2> QED BY <1>2, <1>7, <2>1, <2>2, LoopFrame
<1> QED BY <1>3, <1>4, <1>5, <1>6, <1>7

\* Vardiff and what happens to the socket.
LEMMA ConnectionStepInv ==
  ASSUME SessionTypeOK, SessionInv, NEW c \in Connections,
         \/ \E d \in AskedDifficulties : CheckDifficulty(c, d)
         \/ Connect(c) \/ RemoteEnd(c) \/ SocketClosed(c)
  PROVE  SessionTypeOK' /\ SessionInv'
<1>0. PICK s : s = session[c]
  OBVIOUS
<1>1. s \in SessionState /\ SessionGood(s)
  BY <1>0 DEF SessionTypeOK, SessionInv
<1>2. ASSUME NEW d \in AskedDifficulties, CheckDifficulty(c, d)
      PROVE  SessionTypeOK' /\ SessionInv'
  <2>1. PICK u : u = [s EXCEPT !.sessionDifficulty = d]
    OBVIOUS
  <2>2. PICK t : t = Told(c, u)
    OBVIOUS
  <2>3. SetSession(c, t) /\ UNCHANGED loop /\ s.timers > 0
    BY <1>0, <1>2, <2>1, <2>2 DEF CheckDifficulty
  <2>4. s.socket # "none" /\ s.timers = 1
    BY <1>1, <2>3 DEF SessionGood, NewSession
  <2>5. d \in Nat \ {0}
    BY SessionAssumption
  <2>6. /\ u \in SessionState /\ u.socket = s.socket /\ u.sessionDifficulty = d
        /\ u.stratumInitialized = s.stratumInitialized /\ u.timers = s.timers
    BY <1>1, <2>1, <2>5 DEF SessionState
  <2>7. /\ t \in SessionState /\ SessionGood(t) /\ t.socket = s.socket
        /\ t.stratumInitialized = s.stratumInitialized /\ t.timers = s.timers
    BY <1>0, <1>1, <2>2, <2>4, <2>6, ZenonT(60) DEF Told, Open, SessionState, SessionGood
  <2> QED BY <1>0, <2>3, <2>7, SessionFrame
<1>3. CASE Connect(c)
  <2>1. PICK t : t = [s EXCEPT !.socket = "open"]
    OBVIOUS
  <2>2. SetSession(c, t) /\ UNCHANGED loop /\ s.socket = "none"
    BY <1>0, <1>3, <2>1 DEF Connect
  <2>3. /\ ~s.stratumInitialized /\ ~s.clientSuggestedDifficulty /\ s.timers = 0
    BY <1>1, <2>2 DEF SessionGood, NewSession
  <2>4. /\ t \in SessionState /\ SessionGood(t) /\ t.socket = "open"
        /\ t.stratumInitialized = s.stratumInitialized /\ t.timers = s.timers
    BY <1>1, <2>1, <2>3 DEF SessionState, SessionGood
  <2> QED BY <1>0, <2>2, <2>4, SessionFrame
<1>4. CASE RemoteEnd(c)
  <2>1. PICK t : t = Ended(s)
    OBVIOUS
  <2>2. SetSession(c, t) /\ UNCHANGED loop
    BY <1>0, <1>4, <2>1 DEF RemoteEnd
  <2>3. /\ t \in SessionState /\ SessionGood(t) /\ (s.socket # "none" => t.socket # "none")
        /\ t.timers = s.timers /\ t.stratumInitialized = s.stratumInitialized
    BY <1>1, <2>1, EndedGood
  <2> QED BY <1>0, <2>2, <2>3, SessionFrame
<1>5. CASE SocketClosed(c)
  <2>1. PICK t : t = Destroyed(s)
    OBVIOUS
  <2>2. SetSession(c, t) /\ UNCHANGED loop
    BY <1>0, <1>5, <2>1 DEF SocketClosed
  <2>3. /\ t \in SessionState /\ SessionGood(t) /\ t.socket # "none"
        /\ t.timers = 0 /\ t.stratumInitialized = s.stratumInitialized
    BY <1>1, <2>1, DestroyedGood
  <2> QED BY <1>0, <2>2, <2>3, SessionFrame
<1> QED BY <1>2, <1>3, <1>4, <1>5

-----------------------------------------------------------------------------
(* The theorems                                                            *)

\* Sessions keep their types and SessionInv through any interleaving of messages,
\* failed writes and closed sockets.
THEOREM SessionInvariance == SessionSpec => [](SessionTypeOK /\ SessionInv)
<1>1. SessionInit => SessionTypeOK /\ SessionInv
  <2> SUFFICES ASSUME SessionInit PROVE SessionTypeOK /\ SessionInv
    OBVIOUS
  <2>1. SessionTypeOK
    BY NewTypes DEF SessionInit, SessionTypeOK
  <2>2. /\ \A c \in Connections : session[c] = NewSession
        /\ \A l \in Loops : loop[l] = IdleLoop
    BY DEF SessionInit
  <2>3. \A c \in Connections : SessionGood(session[c])
    BY <2>2, NewTypes
  <2>4. \A l \in Loops : loop[l].pc = "idle"
    BY <2>2, NewTypes
  <2> QED BY <2>1, <2>3, <2>4 DEF SessionInv, LoopGood
<1>2. SessionTypeOK /\ SessionInv /\ [SessionNext]_sessionVars
        => SessionTypeOK' /\ SessionInv'
  <2> SUFFICES ASSUME SessionTypeOK, SessionInv, [SessionNext]_sessionVars
               PROVE  SessionTypeOK' /\ SessionInv'
    OBVIOUS
  <2>1. CASE UNCHANGED sessionVars
    BY <2>1 DEF sessionVars, SessionTypeOK, SessionInv, LoopGood, ConnectionOf
  <2>2. ASSUME NEW l \in Loops, LoopStep(l) PROVE SessionTypeOK' /\ SessionInv'
    BY <2>2, LoopStepInv
  <2>3. ASSUME NEW l \in Loops, NEW c \in Connections, NEW m \in Messages, Receive(l, c, m)
        PROVE  SessionTypeOK' /\ SessionInv'
    BY <2>3, ReceiveInv
  <2>4. ASSUME NEW c \in Connections,
               \/ \E d \in AskedDifficulties : CheckDifficulty(c, d)
               \/ Connect(c) \/ RemoteEnd(c) \/ SocketClosed(c)
        PROVE  SessionTypeOK' /\ SessionInv'
    BY <2>4, ConnectionStepInv
  <2> QED BY <2>1, <2>2, <2>3, <2>4 DEF SessionNext
<1> QED
  BY <1>1, <1>2, PTL DEF SessionSpec

\* The fields of a session and the messages being handled keep their types.
THEOREM SessionTyped == SessionSpec => []SessionTypeOK
BY SessionInvariance, PTL

\* initStratum sets up the intervals and the block subscription of a session at most
\* once, and destroy leaves none behind, however the messages of its packets interleave.
THEOREM TimersOwnedThm == SessionSpec => []TimersOwned
<1>1. SessionTypeOK /\ SessionInv => TimersOwned
  BY DEF SessionInv, SessionGood, TimersOwned
<1> QED
  BY <1>1, SessionInvariance, PTL

\* A miner with jobs was told the difficulty that handleMiningSubmission checks its
\* shares against, apart from the two changes the code keeps to itself.
THEOREM DifficultyToldThm == SessionSpec => []DifficultyTold
<1>1. SessionTypeOK /\ SessionInv => DifficultyTold
  BY DEF SessionInv, SessionGood, DifficultyTold, Open
<1> QED
  BY <1>1, SessionInvariance, PTL
=============================================================================
