----------------------------- MODULE MCServices -----------------------------
(***************************************************************************)
(* Model-checking instances of AddressLogin, VarDiff, ChainTip and         *)
(* PoolRegistry.  They share no variable, so service, chosen once, is the  *)
(* one that takes steps.  The login is explored twice, once with several   *)
(* challenges and outputs of one address and no settings, once with one    *)
(* challenge, answered by a signature.                                     *)
(***************************************************************************)
EXTENDS AddressLogin, VarDiff, ChainTip, PoolRegistry, TLC

CONSTANTS x1, x2, q1, q2, k1, k2, f1, e1, g1, g2,
          Services   \* the components of the run

VARIABLE service

servicesVars == <<service, loginVars, vardiffVars, chainVars, poolRegistryVars>>

MCPatches == {[payoutThresholdSatsOverride |-> 1], [payoutThresholdSatsOverride |-> 0],
              [notifyOnPayout |-> 1]}

\* A component that takes no steps has one initial state.
ServicesInit ==
  /\ service \in Services
  /\ LoginInit /\ VarDiffInit /\ ChainInit /\ PoolRegistryInit
  /\ service # "chain" => zmq = FALSE
  /\ service # "poolregistry" => cacheFile = {}

LoginOnly ==
  /\ service \in {"login", "settings"}
  /\ UNCHANGED <<service, vardiffVars, chainVars, poolRegistryVars>>
LoginBounds ==
  /\ service = "login" => /\ \A q \in LoginCalls : call'[q].pc \in {"idle", "scan"}
                          /\ \A a \in Accounts \ {x1} : challenges'[a] = NoChallenge
                          /\ \A o \in received' : o[1] = x1
  /\ service = "settings" => nonces' <= 1 /\ received' = {}
VarDiffOnly ==
  /\ service = "vardiff"
  /\ UNCHANGED <<service, loginVars, chainVars, poolRegistryVars>>
ChainOnly ==
  /\ service = "chain"
  /\ UNCHANGED <<service, loginVars, vardiffVars, poolRegistryVars>>
PoolRegistryOnly ==
  /\ service = "poolregistry"
  /\ UNCHANGED <<service, loginVars, vardiffVars, chainVars>>

ServicesNext ==
  \/ LoginOnly /\ LoginNext /\ LoginBounds
  \/ VarDiffOnly /\ VarDiffNext
  \/ ChainOnly /\ ChainNext
  \/ PoolRegistryOnly /\ PoolRegistryNext

\* Timers fire again and again, a miner keeps polling its login, and of all the
\* requests to the node some succeed.
ServicesFairness ==
  /\ \A a \in Accounts :
       /\ SF_servicesVars(LoginOnly /\ \E q \in LoginCalls : call[q].address = a /\ ScanEnds(q))
       /\ SF_servicesVars(LoginOnly /\ \E q \in LoginCalls : loginOnChain(q, a))
  /\ WF_servicesVars(VarDiffOnly /\ CheckTarget)
  /\ WF_servicesVars(VarDiffOnly /\ Second)
  /\ WF_servicesVars(ChainOnly /\ \E p \in ChainPolls : TimerPolls(p))
  /\ \A p \in ChainPolls : /\ SF_servicesVars(ChainOnly /\ InfoAnswered(p))
                           /\ SF_servicesVars(ChainOnly /\ pollMiningInfo(p))
  /\ SF_servicesVars(ChainOnly /\ \E r \in Refreshes : TimerRefreshes(r))
  /\ \A r \in Refreshes : /\ SF_servicesVars(ChainOnly /\ TemplateAnswered(r))
                          /\ WF_servicesVars(ChainOnly /\ refreshArrives(r))

ServicesTypeOK == LoginTypeOK /\ VarDiffTypeOK /\ ChainTypeOK

ServicesSpec == ServicesInit /\ [][ServicesNext]_servicesVars
ServicesFairSpec == ServicesSpec /\ ServicesFairness
=============================================================================
