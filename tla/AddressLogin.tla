---------------------------- MODULE AddressLogin ----------------------------
(***************************************************************************)
(* The login of a miner and what it unlocks: AuthController, AuthService   *)
(* and AuthChallengeStore (a challenge per address, answered by a          *)
(* signature over its nonce or by an output of its amount), JwtAuthGuard,  *)
(* and the account settings that MinerAccountController changes.           *)
(*                                                                         *)
(* Signatures and the chain are external.  A signature needs the key of    *)
(* the address.  An output does not: the scan sees the outputs of an       *)
(* address and their amounts, not who sent them or when, so outputs appear *)
(* here at any time, and two challenges may ask for the same amount.  Left *)
(* out are a restart, which only forgets the challenges, and the end of a  *)
(* token after a day.                                                      *)
(***************************************************************************)
EXTENDS Integers, FiniteSets, Sequences

CONSTANTS
  Accounts,     \* miner addresses
  LoginCalls,   \* HTTP requests in progress at the same time
  LoginFaults,  \* what may fail: "scan", "db"
  LoginAmounts, \* the amounts a challenge may ask for
  Patches,      \* the bodies of updates: the new value of each field named
  MaxNonces     \* bound: challenges issued

SettingsFields == {"payoutThresholdSatsOverride", "notifyOnPayout"}

\* 0 stands for null or false, the default.
AllPatches == UNION {[F -> 0..1] : F \in SUBSET SettingsFields}

ASSUME LoginAssumption ==
  /\ Accounts # {}
  /\ LoginFaults \subseteq {"scan", "db"}
  /\ LoginAmounts \subseteq Nat \ {0}
  /\ Patches \subseteq AllPatches
  /\ MaxNonces \in Nat

VARIABLES
  challenges,   \* AuthChallengeStore.challenges, at most one per address
  issued,       \* history: the address and the amount of each challenge, by its nonce
  signed,       \* <<address, nonce>>: messages signed with the key of the address
  unspent,      \* <<address, amount>>: the confirmed, unspent outputs
  received,     \* history: <<address, amount>> ever in unspent
  tokens,       \* <<sub, nonce>>: tokens issued, and the challenge behind each
  settings,     \* the account settings table
  call          \* the requests

loginVars == <<challenges, issued, signed, unspent, received, tokens, settings, call>>

\* A nonce is the place of its challenge among those issued.
nonces == Len(issued)

NoChallenge == [nonce |-> 0, requiredAmountSats |-> 0, expired |-> FALSE]
IChallenge == [nonce : 1..MaxNonces, requiredAmountSats : LoginAmounts, expired : BOOLEAN]

Defaults == [f \in SettingsFields |-> 0]
NoSettings == [f \in {} |-> 0]

IdleCall == [pc |-> "idle", address |-> CHOOSE a \in Accounts : TRUE, nonce |-> 0,
             requiredAmountSats |-> 0, changes |-> NoSettings]

LoginInit ==
  /\ challenges = [a \in Accounts |-> NoChallenge]
  /\ issued = <<>>
  /\ signed = {} /\ unspent = {} /\ received = {} /\ tokens = {}
  /\ settings = [a \in Accounts |-> NoSettings]
  /\ call = [q \in LoginCalls |-> IdleCall]

-----------------------------------------------------------------------------
(* Challenges and the world outside                                        *)

\* POST /auth/challenge, by anyone: a random nonce and amount, and the new challenge
\* replaces a pending one.
createChallenge(a, amount) ==
  /\ nonces < MaxNonces
  /\ issued' = Append(issued, [address |-> a, requiredAmountSats |-> amount])
  /\ challenges' = [challenges EXCEPT ![a] =
                      [nonce |-> nonces + 1, requiredAmountSats |-> amount, expired |-> FALSE]]
  /\ UNCHANGED <<signed, unspent, received, tokens, settings, call>>

\* Half an hour passes.
ChallengeExpires(a) ==
  /\ challenges[a].nonce # 0
  /\ challenges' = [challenges EXCEPT ![a] = [@ EXCEPT !.expired = TRUE]]
  /\ UNCHANGED <<issued, signed, unspent, received, tokens, settings, call>>

OwnerSigns(a) ==
  /\ challenges[a].nonce # 0
  /\ signed' = signed \cup {<<a, challenges[a].nonce>>}
  /\ UNCHANGED <<challenges, issued, unspent, received, tokens, settings, call>>

\* An output of some amount at the address gets its confirmation, whoever sent it and
\* whether or not a challenge asks for it ...
OutputConfirms(a, amount) ==
  /\ unspent' = unspent \cup {<<a, amount>>}
  /\ received' = received \cup {<<a, amount>>}
  /\ UNCHANGED <<challenges, issued, signed, tokens, settings, call>>

\* ... and an output may be spent.
OutputSpent ==
  /\ \E o \in unspent : unspent' = unspent \ {o}
  /\ UNCHANGED <<challenges, issued, signed, received, tokens, settings, call>>

-----------------------------------------------------------------------------
(* Logging in                                                              *)

\* The challenge of an address, null when it is expired.
peek(a) == IF challenges[a].expired THEN NoChallenge ELSE challenges[a]

\* What peek leaves in the store: an expired challenge is deleted.
Peeked(a) == [challenges EXCEPT ![a] = peek(a)]

\* Mutant of consume: nothing is removed.
consumeNothing(store, a) == store

consume(store, a) == [store EXCEPT ![a] = NoChallenge]

issueToken(a, n) == tokens' = tokens \cup {<<a, n>>}

\* POST /auth/login with the signature over nonce n by address a: no await before
\* the challenge is consumed.
login(a, n) ==
  /\ <<a, n>> \in signed
  /\ IF peek(a).nonce = n
     THEN challenges' = consume(Peeked(a), a) /\ issueToken(a, n)
     ELSE challenges' = Peeked(a) /\ UNCHANGED tokens
  /\ UNCHANGED <<issued, signed, unspent, received, settings, call>>

\* POST /auth/onchain-login up to the scan of the chain.
loginOnChain(q, a) ==
  /\ call[q].pc = "idle"
  /\ challenges' = Peeked(a)
  /\ call' = IF peek(a).nonce = 0 THEN call
             ELSE [call EXCEPT ![q] = [IdleCall EXCEPT
                      !.pc = "scan", !.address = a, !.nonce = peek(a).nonce,
                      !.requiredAmountSats = peek(a).requiredAmountSats]]
  /\ UNCHANGED <<issued, signed, unspent, received, tokens, settings>>

\* Mutant of scanAddressForAmountSats: any unspent output of the address will do.
scanAnyAmount(a, amount) == \E m \in LoginAmounts : <<a, m>> \in unspent

scanAddressForAmountSats(a, amount) == <<a, amount>> \in unspent

\* Mutant of ScanEnds: the challenge is consumed before the outcome is known.
ScanEndsConsumes(q) ==
  /\ call[q].pc = "scan"
  /\ LET a == call[q].address
     IN  /\ challenges' = consume(challenges, a)
         /\ IF scanAddressForAmountSats(a, call[q].requiredAmountSats)
            THEN issueToken(a, call[q].nonce)
            ELSE UNCHANGED tokens
  /\ call' = [call EXCEPT ![q] = IdleCall]
  /\ UNCHANGED <<issued, signed, unspent, received, settings>>

\* The answer of the node: what the address has pending by now is consumed.
ScanEnds(q) ==
  /\ call[q].pc = "scan"
  /\ LET a == call[q].address
     IN  IF scanAddressForAmountSats(a, call[q].requiredAmountSats)
         THEN challenges' = consume(challenges, a) /\ issueToken(a, call[q].nonce)
         ELSE UNCHANGED <<challenges, tokens>>
  /\ call' = [call EXCEPT ![q] = IdleCall]
  /\ UNCHANGED <<issued, signed, unspent, received, settings>>

\* The scan fails, also because another one is running.
ScanFails(q) ==
  /\ "scan" \in LoginFaults
  /\ call[q].pc = "scan"
  /\ call' = [call EXCEPT ![q] = IdleCall]
  /\ UNCHANGED <<challenges, issued, signed, unspent, received, tokens, settings>>

-----------------------------------------------------------------------------
(* The account settings                                                    *)

\* The token's address must be that of the route.
canActivate(sub, a) == sub = a

\* PATCH /miner/:address/account-settings with the token t, past the guard.
updateSettings(q, t, a, changes) ==
  /\ call[q].pc = "idle"
  /\ t \in tokens /\ canActivate(t[1], a)
  /\ call' = [call EXCEPT ![q] = [IdleCall EXCEPT !.pc = "insert", !.address = a,
                                                    !.changes = changes]]
  /\ UNCHANGED <<challenges, issued, signed, unspent, received, tokens, settings>>

\* Mutant of InsertRow: INSERT OR REPLACE.
InsertRowReplaces(a) == [settings EXCEPT ![a] = Defaults]

\* The INSERT OR IGNORE.
InsertRow(a) == IF settings[a] = NoSettings THEN [settings EXCEPT ![a] = Defaults] ELSE settings

upsertInsert(q) ==
  /\ call[q].pc = "insert"
  /\ settings' = InsertRow(call[q].address)
  /\ call' = IF call[q].changes = NoSettings THEN [call EXCEPT ![q] = IdleCall]
             ELSE [call EXCEPT ![q] = [@ EXCEPT !.pc = "update"]]
  /\ UNCHANGED <<challenges, issued, signed, unspent, received, tokens>>

\* The UPDATE sets the columns the request names.
upsertUpdate(q) ==
  /\ call[q].pc = "update"
  /\ LET a == call[q].address
         c == call[q].changes
     IN  settings' = [settings EXCEPT ![a] =
                        [f \in SettingsFields |-> IF f \in DOMAIN c THEN c[f] ELSE @[f]]]
  /\ call' = [call EXCEPT ![q] = IdleCall]
  /\ UNCHANGED <<challenges, issued, signed, unspent, received, tokens>>

\* A statement throws; what was written stays.
UpsertFails(q) ==
  /\ "db" \in LoginFaults
  /\ call[q].pc \in {"insert", "update"}
  /\ call' = [call EXCEPT ![q] = IdleCall]
  /\ UNCHANGED <<challenges, issued, signed, unspent, received, tokens, settings>>

-----------------------------------------------------------------------------
LoginNext ==
  \/ \E a \in Accounts : \/ ChallengeExpires(a) \/ OwnerSigns(a)
                         \/ \E n \in 1..MaxNonces : login(a, n)
                         \/ \E amount \in LoginAmounts : \/ createChallenge(a, amount)
                                                        \/ OutputConfirms(a, amount)
  \/ OutputSpent
  \/ \E q \in LoginCalls :
       \/ \E a \in Accounts : \/ loginOnChain(q, a)
                              \/ \E t \in tokens, c \in Patches : updateSettings(q, t, a, c)
       \/ ScanEnds(q) \/ ScanFails(q)
       \/ upsertInsert(q) \/ upsertUpdate(q) \/ UpsertFails(q)

LoginSpec == LoginInit /\ [][LoginNext]_loginVars

-----------------------------------------------------------------------------
(* Properties                                                              *)

LoginTypeOK ==
  /\ challenges \in [Accounts -> IChallenge \cup {NoChallenge}]
  /\ issued \in Seq([address : Accounts, requiredAmountSats : LoginAmounts])
  /\ nonces <= MaxNonces
  /\ signed \subseteq Accounts \X (1..nonces)
  /\ unspent \subseteq received /\ received \subseteq Accounts \X LoginAmounts
  /\ tokens \subseteq Accounts \X (1..nonces)
  /\ settings \in [Accounts -> {NoSettings} \cup [SettingsFields -> 0..1]]
  /\ call \in [LoginCalls -> [pc : {"idle", "scan", "insert", "update"}, address : Accounts,
                              nonce : 0..MaxNonces, requiredAmountSats : LoginAmounts \cup {0},
                              changes : AllPatches]]
  /\ \A q \in LoginCalls : call[q].pc = "scan" <=> call[q].nonce # 0

\* The challenge n was issued for address a, and it was signed with the key of a, or
\* a has held an output of the amount it asks for.
Answered(a, n) ==
  /\ issued[n].address = a
  /\ \/ <<a, n>> \in signed
     \/ <<a, issued[n].requiredAmountSats>> \in received

LoggedIn(a) == \E n \in 1..nonces : <<a, n>> \in tokens

\* From the challenge to the settings: a token stands for a challenge of its own address
\* that is gone from the store and was answered, by the key of the address or by an
\* output there of exactly the amount that challenge asks for, however the scans of
\* several requests overlap with each other and with new challenges; and an address no
\* token was issued for has no settings of its own.  Who sent the output is not part of
\* the claim: the code does not look at it.
TokensEarned ==
  \A a \in Accounts :
    /\ \A n \in 1..nonces : <<a, n>> \in tokens => Answered(a, n) /\ challenges[a].nonce # n
    /\ settings[a] # NoSettings => LoggedIn(a)

\* A request changes no field of an existing row but those it names, so that updates
\* of different fields by overlapping requests are both kept.
FieldsIndependent ==
  [][\A a \in Accounts, f \in SettingsFields :
       settings[a] # NoSettings /\ settings'[a][f] # settings[a][f] =>
         \E q \in LoginCalls : call[q].address = a /\ f \in DOMAIN call[q].changes]_loginVars

Paid(a) == <<a, challenges[a].requiredAmountSats>> \in unspent /\ ~challenges[a].expired

\* A paid challenge leads to a token for its address while its owner keeps polling,
\* scans that fail or came too early notwithstanding, unless it expires, is replaced
\* by one that is not paid, or the output is spent.
PaidLogsIn ==
  \A a \in Accounts :
    Paid(a) ~> \/ \E n \in 1..MaxNonces : <<a, n>> \in tokens
               \/ challenges[a].nonce # 0 /\ ~Paid(a)

-----------------------------------------------------------------------------
(* The inductive invariant behind TokensEarned and FieldsIndependent.      *)

\* The challenge with nonce n is for address a and asks for amount.
IssuedAs(n, a, amount) ==
  n <= nonces /\ issued[n] = [address |-> a, requiredAmountSats |-> amount]

\* A challenge in the store, and one a scan is under way for, is the one issued under its
\* nonce; a token's challenge was answered and is gone from the store; an update in
\* progress, and a row, belong to an address that logged in; the UPDATE finds the row its
\* INSERT left.
LoginInv ==
  /\ \A a \in Accounts : challenges[a].nonce # 0 =>
       IssuedAs(challenges[a].nonce, a, challenges[a].requiredAmountSats)
  /\ \A q \in LoginCalls : call[q].nonce # 0 =>
       IssuedAs(call[q].nonce, call[q].address, call[q].requiredAmountSats)
  /\ \A t \in tokens : Answered(t[1], t[2]) /\ challenges[t[1]].nonce # t[2]
  /\ \A a \in Accounts : settings[a] # NoSettings => LoggedIn(a)
  /\ \A q \in LoginCalls :
       /\ call[q].pc \in {"insert", "update"} => LoggedIn(call[q].address)
       /\ call[q].pc = "update" => settings[call[q].address] # NoSettings
=============================================================================
