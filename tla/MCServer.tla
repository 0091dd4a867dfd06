------------------------------ MODULE MCServer ------------------------------
(***************************************************************************)
(* Model-checking instances of StratumSession, ClientRegistry,             *)
(* ShareStatistics, Backpressure and TelegramBot.  They share no variable, *)
(* so what one of them can do does not depend on the others: part, chosen  *)
(* once, is the one that takes steps, and a run explores the sum of the    *)
(* state spaces.                                                           *)
(***************************************************************************)
EXTENDS StratumSession, ClientRegistry, ShareStatistics,
        Backpressure, TelegramBot, TLC

CONSTANTS c1, l1, l2, s1, u1, u2, a1, a2, p1, p2, t1, b1, b2,
          Parts      \* the components of the run

VARIABLE part

serverVars == <<part, sessionVars, registryVars, statisticsVars, backpressureVars,
                telegramVars>>

ServerInit ==
  /\ part \in Parts
  /\ SessionInit /\ RegistryInit /\ StatisticsInit /\ BackpressureInit
  /\ TelegramInit

SessionOnly ==
  /\ part = "session"
  /\ UNCHANGED <<part, registryVars, statisticsVars, backpressureVars, telegramVars>>
RegistryOnly ==
  /\ part = "registry"
  /\ UNCHANGED <<part, sessionVars, statisticsVars, backpressureVars, telegramVars>>
StatisticsOnly ==
  /\ part = "statistics"
  /\ UNCHANGED <<part, sessionVars, registryVars, backpressureVars, telegramVars>>
BackpressureOnly ==
  /\ part = "backpressure"
  /\ UNCHANGED <<part, sessionVars, registryVars, statisticsVars, telegramVars>>
TelegramOnly ==
  /\ part = "telegram"
  /\ UNCHANGED <<part, sessionVars, registryVars, statisticsVars, backpressureVars>>

ServerNext ==
  \/ SessionOnly /\ SessionNext
  \/ RegistryOnly /\ RegistryNext
  \/ StatisticsOnly /\ StatisticsNext
  \/ BackpressureOnly /\ BackpressureNext
  \/ TelegramOnly /\ TelegramNext

\* Timers fire again and again, what a handler awaits is answered, and of all the
\* requests to Telegram some succeed.
ServerFairness ==
  /\ \A l \in Loops : WF_serverVars(SessionOnly /\ LoopStep(l))
  /\ WF_serverVars(RegistryOnly /\ Minute)
  /\ WF_serverVars(RegistryOnly /\ killDeadClients)
  /\ WF_serverVars(RegistryOnly /\ Flush)
  /\ \A u \in Submissions : WF_serverVars(RegistryOnly /\ SubmissionStep(u))
  /\ WF_serverVars(BackpressureOnly /\ checkBackpressure)
  /\ WF_serverVars(TelegramOnly /\ BackoffEnds)
  /\ \A p \in Polls : /\ WF_serverVars(TelegramOnly /\ PollStep(p))
                      /\ SF_serverVars(TelegramOnly /\ getUpdates(p))
  /\ WF_serverVars(TelegramOnly /\ \E p \in Polls : pollUpdates(p))

ServerTypeOK ==
  /\ SessionTypeOK /\ RegistryTypeOK /\ StatisticsTypeOK /\ BackpressureTypeOK
  /\ TelegramTypeOK

ServerSpec == ServerInit /\ [][ServerNext]_serverVars
ServerFairSpec == ServerSpec /\ ServerFairness
=============================================================================
