---------------------------- MODULE PayoutPromise ----------------------------
(***************************************************************************)
(* What the payout path promises a miner, without timers, queries, wallet  *)
(* or confirmations check: a credit is paid once, a miner receives exactly *)
(* its paid credits, and the ledger never tells it more than has happened. *)
(* PayoutScheduler implements it (Promise in that module).                 *)
(***************************************************************************)
EXTENDS Integers, Sequences, Sums

CONSTANTS Miners, MaxCredits

VARIABLES
  credits,      \* whom a credit belongs to and its amount, in the order earned
  paid,         \* the credits some transaction has paid
  confirmed,    \* the credits whose transaction is confirmed
  received,     \* what each miner was sent, in lepton
  shown         \* the status the ledger shows for each credit

vars == <<credits, paid, confirmed, received, shown>>

Init ==
  /\ credits = << >> /\ shown = << >>
  /\ paid = {} /\ confirmed = {}
  /\ received = [m \in Miners |-> 0]

Earn ==
  /\ Len(credits') = Len(credits) + 1
  /\ LET credit == credits'[Len(credits) + 1]
     IN  /\ credits' = Append(credits, credit)
         /\ credit \in [minerAddress : Miners, amountSats : Nat \ {0}]
  /\ shown' = Append(shown, "PENDING")
  /\ UNCHANGED <<paid, confirmed, received>>

\* One transaction pays the credits in S, none of which was paid before, and sends
\* every miner the sum of its own.
Pay(S) ==
  /\ S # {} /\ S \cap paid = {}
  /\ paid' = paid \cup S
  /\ received' =
       [m \in Miners |-> received[m] +
          SumOver([i \in DOMAIN credits |-> credits[i].amountSats],
                  {i \in S : credits[i].minerAddress = m})]
  /\ UNCHANGED <<credits, confirmed, shown>>

Confirm(S) ==
  /\ S \subseteq paid
  /\ confirmed' = confirmed \cup S
  /\ UNCHANGED <<credits, paid, received, shown>>

\* The ledger moves the credits in S to the next status, once it is true of them.
Show(S, from, to, truth) ==
  /\ \A i \in S : shown[i] = from
  /\ S \subseteq truth
  /\ shown' = [i \in DOMAIN shown |-> IF i \in S THEN to ELSE shown[i]]
  /\ UNCHANGED <<credits, paid, confirmed, received>>

Next ==
  \/ Earn
  \/ \E S \in SUBSET DOMAIN credits :
       \/ Pay(S) \/ Confirm(S)
       \/ Show(S, "PENDING", "SENT", paid)
       \/ Show(S, "SENT", "CONFIRMED", confirmed)

Spec == Init /\ [][Next]_vars

\* Every payment is in the end shown to the miner as confirmed.
Settled ==
  \A i \in 1..MaxCredits :
    (i \in paid) ~> (i \in DOMAIN shown /\ shown[i] = "CONFIRMED")
=============================================================================
