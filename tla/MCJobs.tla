------------------------------- MODULE MCJobs -------------------------------
(***************************************************************************)
(* Model-checking instances of StratumJobs and MiningWork, which share no  *)
(* variable.  part, chosen once, says what a behaviour explores: "session" *)
(* is one session with several requests in flight, expiry and more jobs,   *)
(* "shared" two sessions and one request at a time, "work" is MiningWork.  *)
(* Sessions cannot be permuted (IdleRequest chooses one); requests can.    *)
(***************************************************************************)
EXTENDS StratumJobs, MiningWork, FiniteSets, TLC

CONSTANTS c1, c2, r1, r2, n1,
          Parts,         \* the parts of the run
          SharedJobs     \* bound: jobs of the "shared" part

VARIABLE part

jobsVars == <<part, vars, workVars>>

Active(req) == {r \in Requests : req[r].pc # "idle"}

WithinPart ==
  /\ UNCHANGED <<part, workVars>>
  /\ part = "session" =>
       \A c \in Clients \ {c1} : /\ client'[c] = client[c]
                                 /\ \A r \in Active(request') : request'[r].client # c
  /\ part = "shared" =>
       /\ Cardinality(Active(request')) <= 1
       /\ clock' = clock
       /\ Len(mined') <= SharedJobs

JobsInit == /\ Init /\ WorkInit /\ part \in Parts
            /\ part # "work" => ~isHobbyMinerSession
JobsNext ==
  \/ part # "work" /\ Next /\ WithinPart
  \/ part = "work" /\ WorkNext /\ UNCHANGED <<part, vars>>
JobsSpec == JobsInit /\ [][JobsNext]_jobsVars

RequestSymmetry == Permutations({r1, r2})
=============================================================================
