------------------------------ MODULE TokenJob -------------------------------
(***************************************************************************)
(* The catalogue's token Job (charts/ckan/files/api-token.py): it keeps a  *)
(* working CKAN API token of the site administrator in one Secret, and one *)
(* of the harvest user in another.  Helm recreates the Job on every apply  *)
(* (a post-install,post-upgrade hook), one run at a time; a pod that exits *)
(* with an error, or dies between two calls, is run again from the start.  *)
(*                                                                         *)
(* Only tokens of the Job's own names are modelled: the Job filters every  *)
(* list by name and touches no other.                                      *)
(***************************************************************************)
EXTENDS Naturals

CONSTANTS
    Tokens,       \* what CKAN may mint
    Nothing,      \* no token: no Secret, or one without a value
    MaxChanges,   \* bound of the model: things done by others
    MaxTrouble    \* bound of the model: calls that fail for a moment

Accounts == {"admin", "harvest"}

ASSUME NothingAssumption == Nothing \notin Tokens
ASSUME BoundsAssumption == MaxChanges \in Nat /\ MaxTrouble \in Nat

VARIABLES
    live,       \* account -> the tokens of the Job's name CKAN accepts
    minted,     \* account -> every token of that name there ever was
    stored,     \* account -> what its Secret holds
    call,       \* the call the run makes next; "idle" between runs
    acct,       \* the account it is at
    admin,      \* the administrator's token the run uses for the harvest user
    pending,    \* the listed tokens it still has to revoke
    token,      \* the token it just minted
    ended,      \* how the last run ended
    changes, trouble

jobVars == <<live, minted, stored, call, acct, admin, pending, token, ended,
          changes, trouble>>

run == <<call, acct, admin, pending, token, ended>>

-----------------------------------------------------------------------------
JobInit ==
    /\ live = [a \in Accounts |-> {}]
    /\ minted = [a \in Accounts |-> {}]
    /\ stored = [a \in Accounts |-> Nothing]
    /\ call = "idle"
    /\ acct = "admin"
    /\ admin = Nothing
    /\ pending = {}
    /\ token = Nothing
    /\ ended = "none"
    /\ changes = 0
    /\ trouble = 0

\* An apply of the release starts the Job.
Start ==
    /\ call = "idle"
    /\ call' = "check"
    /\ acct' = "admin"
    /\ admin' = Nothing
    /\ pending' = {}
    /\ token' = Nothing
    /\ ended' = "none"
    /\ UNCHANGED <<live, minted, stored, changes, trouble>>

\* The administrator acts on a session of its own, the harvest user's part on
\* the administrator's token, which somebody may have revoked meanwhile.
Allowed == acct = "harvest" => admin \in live["admin"]

\* 200 to the list of the account's tokens: the token is the account's, or an
\* administrator's.
Authenticates(t, a) == t \in live[a] \/ t \in live["admin"]

\* The run goes on with the harvest user once the administrator's part is done.
PartDone(t) ==
    /\ call' = IF acct = "admin" THEN "check" ELSE "idle"
    /\ acct' = "harvest"
    /\ admin' = IF acct = "admin" THEN t ELSE admin
    /\ ended' = IF acct = "admin" THEN ended ELSE "ok"

\* Mutated: any stored token is left alone.
KeepStored_Unasked ==
    /\ call = "check"
    /\ Allowed
    /\ stored[acct] # Nothing
    /\ PartDone(stored[acct])
    /\ UNCHANGED <<live, minted, stored, pending, token, changes, trouble>>

\* The stored token still authenticates: it is left alone.
KeepStored ==
    /\ call = "check"
    /\ Allowed
    /\ Authenticates(stored[acct], acct)
    /\ PartDone(stored[acct])
    /\ UNCHANGED <<live, minted, stored, pending, token, changes, trouble>>

\* Mutated: the list holds the token the Secret names and no other.
List_StoredOnly ==
    /\ call = "check"
    /\ Allowed
    /\ IF Authenticates(stored[acct], acct)
       THEN trouble < MaxTrouble /\ trouble' = trouble + 1
       ELSE UNCHANGED trouble
    /\ pending' = live[acct] \cap {stored[acct]}
    /\ call' = "revoke"
    /\ UNCHANGED <<live, minted, stored, acct, admin, token, ended, changes>>

\* It does not, or there is none, or CKAN answered the question with anything
\* but 200: the tokens of the name are listed to be revoked.
List ==
    /\ call = "check"
    /\ Allowed
    /\ IF Authenticates(stored[acct], acct)
       THEN trouble < MaxTrouble /\ trouble' = trouble + 1
       ELSE UNCHANGED trouble
    /\ pending' = live[acct]
    /\ call' = "revoke"
    /\ UNCHANGED <<live, minted, stored, acct, admin, token, ended, changes>>

Revoke ==
    /\ call = "revoke"
    /\ Allowed
    /\ \E t \in pending \cap live[acct] :
         /\ live' = [live EXCEPT ![acct] = live[acct] \ {t}]
         /\ pending' = pending \ {t}
    /\ UNCHANGED <<minted, stored, call, acct, admin, token, ended, changes, trouble>>

\* Mutated: an answer that carries no token is taken for one.
MintToken_Unchecked ==
    /\ call = "revoke"
    /\ pending = {}
    /\ Allowed
    /\ token' = Nothing
    /\ call' = "store"
    /\ UNCHANGED <<live, minted, stored, acct, admin, pending, ended, changes, trouble>>

MintToken ==
    /\ call = "revoke"
    /\ pending = {}
    /\ Allowed
    /\ \E t \in Tokens \ (minted["admin"] \cup minted["harvest"]) :
         /\ live' = [live EXCEPT ![acct] = live[acct] \cup {t}]
         /\ minted' = [minted EXCEPT ![acct] = minted[acct] \cup {t}]
         /\ token' = t
    /\ call' = "store"
    /\ UNCHANGED <<stored, acct, admin, pending, ended, changes, trouble>>

\* Mutated: both tokens go to the harvest user's Secret.
Store_OneSecret ==
    /\ call = "store"
    /\ acct = "admin" => Authenticates(token, "admin")
    /\ stored' = [stored EXCEPT !["harvest"] = token]
    /\ PartDone(token)
    /\ UNCHANGED <<live, minted, pending, token, changes, trouble>>

\* The administrator's new token is tried before it is stored.
Store ==
    /\ call = "store"
    /\ acct = "admin" => Authenticates(token, "admin")
    /\ stored' = [stored EXCEPT ![acct] = token]
    /\ PartDone(token)
    /\ UNCHANGED <<live, minted, pending, token, changes, trouble>>

\* What CKAN must refuse: the administrator's token is gone, or the token to
\* revoke or to try is.
Refused ==
    \/ call \in {"check", "revoke"} /\ ~Allowed
    \/ call = "revoke" /\ pending # {} /\ pending \cap live[acct] = {}
    \/ call = "store" /\ acct = "admin" /\ ~Authenticates(token, "admin")

\* A call answers an error, or the pod dies: the run is over.
Fail ==
    /\ call # "idle"
    /\ \/ Refused /\ UNCHANGED trouble
       \/ trouble < MaxTrouble /\ trouble' = trouble + 1
    /\ call' = "idle"
    /\ ended' = "failed"
    /\ UNCHANGED <<live, minted, stored, acct, admin, pending, token, changes>>

(***************************************************************************)
(* What others do: rotate-secret.sh deletes the Secret, or puts an old one *)
(* back; a person revokes a token in CKAN; the catalogue's database is     *)
(* restored to an earlier day, between runs, with the token of that day.   *)
(***************************************************************************)
Others ==
    /\ changes < MaxChanges
    /\ changes' = changes + 1
    /\ UNCHANGED <<minted, trouble>>

SecretReplaced ==
    /\ Others
    /\ \E a \in Accounts : \E t \in minted[a] \cup {Nothing} :
         stored' = [stored EXCEPT ![a] = t]
    /\ UNCHANGED <<live, run>>

TokenRevoked ==
    /\ Others
    /\ \E a \in Accounts : \E t \in live[a] :
         live' = [live EXCEPT ![a] = live[a] \ {t}]
    /\ UNCHANGED <<stored, run>>

CatalogueRestored ==
    /\ Others
    /\ call = "idle"
    /\ \E old \in [Accounts -> Tokens \cup {Nothing}] :
         live' = [a \in Accounts |-> {old[a]} \cap minted[a]]
    /\ UNCHANGED <<stored, run>>

Step == KeepStored \/ List \/ Revoke \/ MintToken \/ Store \/ Fail

JobNext == Start \/ Step \/ SecretReplaced \/ TokenRevoked \/ CatalogueRestored

JobSpec == JobInit /\ [][JobNext]_jobVars

-----------------------------------------------------------------------------
\* Every variable has its type; a token is at hand whenever one is to be stored.
JobTypeOK ==
    /\ live \in [Accounts -> SUBSET Tokens]
    /\ minted \in [Accounts -> SUBSET Tokens]
    /\ stored \in [Accounts -> Tokens \cup {Nothing}]
    /\ call \in {"idle", "check", "revoke", "store"}
    /\ acct \in Accounts
    /\ admin \in Tokens \cup {Nothing}
    /\ pending \subseteq Tokens
    /\ token \in Tokens \cup {Nothing}
    /\ call = "store" => token \in Tokens
    /\ ended \in {"none", "ok", "failed"}
    /\ changes \in 0..MaxChanges
    /\ trouble \in 0..MaxTrouble

\* "One token of this name": at no moment, whatever was cut off, does CKAN
\* accept two tokens of one of the Job's names.
OneTokenOfThisName ==
    \A a \in Accounts : \A t, u \in live[a] : t = u

\* "A harvest pod parsing outside data never holds the site administrator's
\* token": a Secret only ever holds tokens minted for its own account.
SecretsKeepApart ==
    /\ \A a \in Accounts : stored[a] \in minted[a] \cup {Nothing}
    /\ minted["admin"] \cap minted["harvest"] = {}

\* The strengthening of the two: what the run knows while it revokes and mints.
RunInv ==
    /\ \A a \in Accounts : live[a] \subseteq minted[a]
    /\ call = "revoke" => live[acct] \subseteq pending
    /\ call = "store" => token \in minted[acct]

JobInv == JobTypeOK /\ OneTokenOfThisName /\ SecretsKeepApart /\ RunInv

\* Each Secret holds the one token CKAN accepts of the name, or the Job has run out of tokens to mint.
SecretsAgree ==
    minted["admin"] \cup minted["harvest"] # Tokens => \A a \in Accounts : live[a] = {stored[a]}

=============================================================================
