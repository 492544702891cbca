------------------------------- MODULE Preview --------------------------------
(***************************************************************************)
(* Branch previews on the dev cluster: scripts/preview.sh (up, down, gc),  *)
(* run by developers from their own terminals, and the sandbox reaper      *)
(* (components/sandbox-reaper), a CronJob that deletes expired namespaces. *)
(* A preview is a namespace, a database and its role in dev's Postgres,    *)
(* and a Keycloak client; the four systems share no transaction, and       *)
(* nothing but the namespace says which previews there are.                *)
(*                                                                         *)
(* A step is one call of the script: every one may fail, and `set -e` ends *)
(* the run there, save for the calls whose failure it takes for an answer. *)
(***************************************************************************)
EXTENDS Naturals, FiniteSets, TLC

CONSTANTS
    Slugs,         \* the names a preview may have
    Terminals,     \* where the script may run at the same time
    MAX_PREVIEWS,  \* PREVIEW_MAX (2)
    None,
    MaxRuns, MaxTrouble   \* bounds of the model

ASSUME PreviewBoundsAssumption ==
    /\ MAX_PREVIEWS \in Nat /\ MaxRuns \in Nat /\ MaxTrouble \in Nat
    /\ IsFiniteSet(Slugs) /\ None \notin Slugs \cup {"up", "down", "gc"}

VARIABLES
    spaces,     \* slug -> its namespace: "none", "live" or "ending"
    databases,  \* the databases pv_<slug>
    roles,      \* the roles pv_<slug>
    password,   \* role -> the password Postgres has of it, 0 without a role
    clients,    \* the Keycloak clients pv-<slug>-portal
    key,        \* client -> its secret, 0 without a client
    secret,     \* slug -> the Secret preview-credentials
    deployed,   \* the namespaces that hold the Portal's Deployment
    pods,       \* slug -> the credentials its pod started with
    listed,     \* the namespaces the reaper's run still has to delete
    run,        \* terminal -> the script's run
    made,       \* how many random values there are
    runs, trouble

cluster == <<spaces, secret, deployed, pods>>
postgres == <<databases, roles, password>>
keycloak == <<clients, key>>
bounds == <<made, runs, trouble>>
vars == <<cluster, postgres, keycloak, listed, run, bounds>>

Steps == {"idle", "check", "list", "pick", "drop_database", "drop_role",
          "drop_client", "role", "database", "client", "space",
          "secret", "apply", "restart", "wait", "delete", "gone"}

\* A terminal without a run; a run resets what it will not read again.
Idle == [command |-> None, slug |-> None, pc |-> "idle", at |-> None,
         todo |-> {}, existed |-> FALSE, password |-> 0, key |-> 0]

Init ==
    /\ spaces = [s \in Slugs |-> "none"]
    /\ databases = {} /\ roles = {} /\ password = [s \in Slugs |-> 0]
    /\ clients = {} /\ key = [s \in Slugs |-> 0]
    /\ secret = [s \in Slugs |-> None]
    /\ deployed = {}
    /\ pods = [s \in Slugs |-> None]
    /\ listed = {}
    /\ run = [t \in Terminals |-> Idle]
    /\ made = 0
    /\ runs = 0 /\ trouble = 0

-----------------------------------------------------------------------------
(***************************************************************************)
(* The cluster and the reaper                                              *)
(***************************************************************************)
Exists(s) == spaces[s] # "none"

\* A call or a pod fails, as often as the model allows.
CallFails ==
    /\ trouble < MaxTrouble
    /\ trouble' = trouble + 1

\* A deleted namespace is gone once everything in it is.
SpaceGone(s) ==
    /\ spaces[s] = "ending"
    /\ spaces' = [spaces EXCEPT ![s] = "none"]
    /\ secret' = [secret EXCEPT ![s] = None]
    /\ deployed' = deployed \ {s}
    /\ pods' = [pods EXCEPT ![s] = None]
    /\ UNCHANGED <<postgres, keycloak, listed, run, bounds>>

\* A pod reads the Secret when it starts.
PodStarts(s) ==
    /\ s \in deployed /\ pods[s] = None /\ secret[s] # None
    /\ pods' = [pods EXCEPT ![s] = secret[s]]
    /\ UNCHANGED <<spaces, secret, deployed, postgres, keycloak, listed,
                   run, bounds>>

PodDies(s) ==
    /\ pods[s] # None
    /\ CallFails
    /\ pods' = [pods EXCEPT ![s] = None]
    /\ UNCHANGED <<spaces, secret, deployed, postgres, keycloak, listed,
                   run, made, runs>>

\* The reaper lists the namespaces once, and those older than their TTL
\* (whichever they are), ...
ReapList ==
    /\ listed = {}
    /\ listed' \in SUBSET {s \in Slugs : Exists(s)} \ {{}}
    /\ UNCHANGED <<cluster, postgres, keycloak, run, bounds>>

\* ... and deletes by name, one after the other, waiting for none; a name that
\* is gone by then ends its run.  (A call that fails ends it too: the run is
\* then one that listed fewer.)
ReapDelete(s) ==
    /\ s \in listed
    /\ IF Exists(s) THEN /\ spaces' = [spaces EXCEPT ![s] = "ending"]
                         /\ listed' = listed \ {s}
                    ELSE /\ listed' = {}
                         /\ UNCHANGED spaces
    /\ UNCHANGED <<secret, deployed, pods, postgres, keycloak, run, bounds>>

-----------------------------------------------------------------------------
(***************************************************************************)
(* preview.sh                                                              *)
(***************************************************************************)
At(t, step) == run[t].pc = step

Goes(t, step) == run' = [run EXCEPT ![t].pc = step]

Ends(t) == run' = [run EXCEPT ![t] = Idle]

Begin(t, command, s) ==
    /\ At(t, "idle") /\ runs < MaxRuns
    /\ runs' = runs + 1
    /\ run' = [run EXCEPT ![t] =
                 [Idle EXCEPT
                    !.command = command, !.slug = s,
                    !.at = IF command = "down" THEN s ELSE None,
                    !.pc = CASE command = "up" -> "check"
                             [] command = "down" -> "delete"
                             [] command = "gc" -> "list"]]
    /\ UNCHANGED <<cluster, postgres, keycloak, listed, made, trouble>>

\* Mutated: as many others as the cap are let through.
Room_OneMore(s) == Cardinality({q \in Slugs \ {s} : Exists(q)}) <= MAX_PREVIEWS

\* The cap, counted over the other previews' namespaces.
Room(s) == Cardinality({q \in Slugs \ {s} : Exists(q)}) < MAX_PREVIEWS

Check(t) ==
    /\ At(t, "check")
    /\ IF Room(run[t].slug) THEN Goes(t, "list") ELSE Ends(t)
    /\ UNCHANGED <<cluster, postgres, keycloak, listed, bounds>>

\* gc: the previews are the roles there are; whose namespace is gone is
\* removed, and the caller goes on.
\* A list that fails is an empty one: `for role in $(...)` drops its status.
List(t) ==
    /\ At(t, "list")
    /\ \E all \in {roles, {}} :
         /\ run' = [run EXCEPT ![t].todo = all, ![t].pc = "pick"]
         /\ IF all = roles THEN UNCHANGED trouble ELSE CallFails
    /\ UNCHANGED <<cluster, postgres, keycloak, listed, made, runs>>

\* What a look at a namespace finds; one that fails finds none.
Finds(s, found) ==
    IF found = Exists(s) THEN UNCHANGED trouble ELSE ~found /\ CallFails

Pick(t) ==
    /\ At(t, "pick")
    /\ \E s \in run[t].todo, found \in BOOLEAN :
         /\ Finds(s, found)
         /\ run' = [run EXCEPT ![t].todo = @ \ {s},
                               ![t].at = IF found THEN @ ELSE s,
                               ![t].pc = IF found THEN @ ELSE "drop_database"]
    /\ UNCHANGED <<cluster, postgres, keycloak, listed, made, runs>>

\* A gc is over; an up looks whether its preview is there already and makes a
\* password.
Collected(t) ==
    /\ At(t, "pick") /\ run[t].todo = {}
    /\ IF run[t].command = "up"
       THEN /\ made' = made + 1
            /\ \E found \in BOOLEAN :
                 /\ Finds(run[t].slug, found)
                 /\ run' = [run EXCEPT ![t].existed = found,
                                       ![t].password = made', ![t].pc = "role"]
       ELSE Ends(t) /\ UNCHANGED <<made, trouble>>
    /\ UNCHANGED <<cluster, postgres, keycloak, listed, runs>>

\* database_down, one statement after the other; Postgres keeps a role that
\* owns a database.
DropDatabase(t) ==
    /\ At(t, "drop_database")
    /\ databases' = databases \ {run[t].at}
    /\ Goes(t, "drop_role")
    /\ UNCHANGED <<cluster, roles, password, keycloak, listed, bounds>>

DropRole(t) ==
    /\ At(t, "drop_role")
    /\ run[t].at \notin databases
    /\ roles' = roles \ {run[t].at}
    /\ password' = [password EXCEPT ![run[t].at] = 0]
    /\ Goes(t, "drop_client")
    /\ UNCHANGED <<cluster, databases, keycloak, listed, bounds>>

\* One preview is removed; `down` then only tells what is left of it.
Removed(t) ==
    IF run[t].command = "down" THEN Ends(t)
    ELSE run' = [run EXCEPT ![t].at = None, ![t].pc = "pick"]

\* Mutated: the client is deleted by `down` alone.
DropClient_DownOnly(t) ==
    /\ At(t, "drop_client")
    /\ clients' = IF run[t].command = "down" THEN clients \ {run[t].at} ELSE clients
    /\ key' = [s \in Slugs |-> IF s \in clients' THEN key[s] ELSE 0]
    /\ Removed(t)
    /\ UNCHANGED <<cluster, postgres, listed, bounds>>

\* client_down; a realm or client Keycloak does not answer for is not there.
DropClient(t) ==
    /\ At(t, "drop_client")
    /\ \/ /\ clients' = clients \ {run[t].at}
          /\ key' = [key EXCEPT ![run[t].at] = 0]
          /\ UNCHANGED trouble
       \/ CallFails /\ UNCHANGED keycloak
    /\ Removed(t)
    /\ UNCHANGED <<cluster, postgres, listed, made, runs>>

\* Mutated: the role is created and its password left to a later run.
CreateRole_NoPassword(t) ==
    /\ At(t, "role")
    /\ roles' = roles \cup {run[t].slug}
    /\ Goes(t, "database")
    /\ UNCHANGED <<cluster, databases, password, keycloak, listed, bounds>>

\* database_up: the role if there is none, always its password, the database
\* if there is none.
CreateRole(t) ==
    /\ At(t, "role")
    /\ roles' = roles \cup {run[t].slug}
    /\ password' = [password EXCEPT ![run[t].slug] = run[t].password]
    /\ Goes(t, "database")
    /\ UNCHANGED <<cluster, databases, keycloak, listed, bounds>>

CreateDatabase(t) ==
    /\ At(t, "database")
    /\ run[t].slug \in roles
    /\ databases' = databases \cup {run[t].slug}
    /\ Goes(t, "client")
    /\ UNCHANGED <<cluster, roles, password, keycloak, listed, bounds>>

\* client_up: a client that exists keeps its secret.
CreateClient(t) ==
    LET s == run[t].slug IN
    /\ At(t, "client")
    /\ clients' = clients \cup {s}
    /\ IF s \in clients THEN UNCHANGED <<key, made>>
       ELSE /\ made' = made + 1
            /\ key' = [key EXCEPT ![s] = made']
    /\ run' = [run EXCEPT ![t].key = key'[s], ![t].pc = "space"]
    /\ UNCHANGED <<cluster, postgres, listed, runs, trouble>>

CreateSpace(t) ==
    /\ At(t, "space")
    /\ spaces' = [spaces EXCEPT ![run[t].slug] = IF @ = "none" THEN "live" ELSE @]
    /\ Goes(t, "secret")
    /\ UNCHANGED <<secret, deployed, pods, postgres, keycloak, listed,
                   bounds>>

\* Nothing is created in a namespace that ends; what it still holds may change.
Takes(s, holds) == spaces[s] = "live" \/ (spaces[s] = "ending" /\ holds)

WriteSecret(t) ==
    LET s == run[t].slug IN
    /\ At(t, "secret")
    /\ Takes(s, secret[s] # None)
    /\ secret' = [secret EXCEPT ![s] =
                    [password |-> run[t].password, key |-> run[t].key]]
    /\ run' = [run EXCEPT ![t].pc = "apply", ![t].password = 0, ![t].key = 0]
    /\ UNCHANGED <<spaces, deployed, pods, postgres, keycloak, listed,
                   bounds>>

\* The whole render, the Namespace among it.
Apply(t) ==
    LET s == run[t].slug IN
    /\ At(t, "apply")
    /\ Takes(s, s \in deployed) \/ spaces[s] = "none"
    /\ spaces' = [spaces EXCEPT ![s] = IF @ = "none" THEN "live" ELSE @]
    /\ deployed' = deployed \cup {s}
    /\ Goes(t, IF run[t].existed THEN "restart" ELSE "wait")
    /\ UNCHANGED <<secret, pods, postgres, keycloak, listed, bounds>>

\* Mutated: the pods of a preview that was there are left alone.
Restart_Never(t) ==
    /\ At(t, "restart")
    /\ Goes(t, "wait")
    /\ UNCHANGED <<cluster, postgres, keycloak, listed, bounds>>

\* The pods of a preview that was there read the new credentials.
Restart(t) ==
    LET s == run[t].slug IN
    /\ At(t, "restart")
    /\ s \in deployed
    /\ pods' = [pods EXCEPT ![s] = None]
    /\ run' = [run EXCEPT ![t].existed = FALSE, ![t].pc = "wait"]
    /\ UNCHANGED <<spaces, secret, deployed, postgres, keycloak, listed,
                   bounds>>

Finish(t) ==
    /\ At(t, "wait") /\ pods[run[t].slug] # None
    /\ Ends(t)
    /\ UNCHANGED <<cluster, postgres, keycloak, listed, bounds>>

\* down: the namespace first, and it waits for it to be gone.
Delete(t) ==
    LET s == run[t].slug IN
    /\ At(t, "delete")
    /\ spaces' = [spaces EXCEPT ![s] = IF @ = "none" THEN @ ELSE "ending"]
    /\ Goes(t, IF Exists(s) THEN "gone" ELSE "drop_database")
    /\ UNCHANGED <<secret, deployed, pods, postgres, keycloak, listed,
                   bounds>>

Gone(t) ==
    /\ At(t, "gone") /\ spaces[run[t].slug] # "ending"
    /\ Goes(t, "drop_database")
    /\ UNCHANGED <<cluster, postgres, keycloak, listed, bounds>>

\* A call that must fail as things are.
Refused(t) ==
    LET s == run[t].slug IN
    \/ At(t, "drop_role") /\ run[t].at \in databases
    \/ At(t, "database") /\ s \notin roles
    \/ At(t, "secret") /\ ~Takes(s, secret[s] # None)
    \/ At(t, "apply") /\ spaces[s] = "ending" /\ s \notin deployed
    \/ At(t, "restart") /\ s \notin deployed
    \/ At(t, "wait") /\ s \notin deployed

\* A call fails, or the developer interrupts the run.
Fails(t) ==
    /\ ~At(t, "idle")
    /\ \/ Refused(t) /\ UNCHANGED trouble
       \/ CallFails
    /\ Ends(t)
    /\ UNCHANGED <<cluster, postgres, keycloak, listed, made, runs>>

Step(t) ==
    \/ Check(t) \/ List(t) \/ Pick(t) \/ Collected(t)
    \/ DropDatabase(t) \/ DropRole(t) \/ DropClient(t)
    \/ CreateRole(t) \/ CreateDatabase(t) \/ CreateClient(t)
    \/ CreateSpace(t) \/ WriteSecret(t) \/ Apply(t) \/ Restart(t) \/ Finish(t)
    \/ Delete(t) \/ Gone(t) \/ Fails(t)

World ==
    \/ ReapList
    \/ \E s \in Slugs : SpaceGone(s) \/ PodStarts(s) \/ PodDies(s)
                        \/ ReapDelete(s)

Orders == {<<c, s>> : c \in {"up", "down"}, s \in Slugs} \cup {<<"gc", None>>}

Next ==
    \/ World
    \/ \E t \in Terminals : Step(t)
    \/ \E t \in Terminals : \E order \in Orders : Begin(t, order[1], order[2])

Spec == Init /\ [][Next]_vars

-----------------------------------------------------------------------------
Credentials == [password : Nat, key : Nat]

Runs == [command : {"up", "down", "gc", None}, slug : Slugs \cup {None}, pc : Steps,
         at : Slugs \cup {None}, todo : SUBSET Slugs, existed : BOOLEAN,
         password : Nat, key : Nat]

\* Every variable has its type; a database has its role, and a role and a client
\* their password and secret.
TypeOK ==
    /\ spaces \in [Slugs -> {"none", "live", "ending"}]
    /\ databases \subseteq roles /\ roles \subseteq Slugs /\ clients \subseteq Slugs
    /\ password \in [Slugs -> Nat] /\ roles = {s \in Slugs : password[s] # 0}
    /\ key \in [Slugs -> Nat] /\ clients = {s \in Slugs : key[s] # 0}
    /\ secret \in [Slugs -> Credentials \cup {None}]
    /\ deployed \subseteq {s \in Slugs : Exists(s)}
    /\ pods \in [Slugs -> Credentials \cup {None}]
    /\ listed \subseteq Slugs
    /\ run \in [Terminals -> Runs]
    /\ made \in Nat /\ runs \in Nat /\ trouble \in Nat

-----------------------------------------------------------------------------
(***************************************************************************)
(* Why it holds: what a run has in hand at each step, and that a namespace *)
(* takes its Secret and its pod with it.                                   *)
(***************************************************************************)
Raising == {"check", "role", "database", "client", "space", "secret",
            "apply", "restart", "wait"}

Dropping == {"drop_database", "drop_role", "drop_client"}

InHand(r) ==
    /\ r.pc \in Raising => r.command = "up"
    /\ r.command = "up" => r.slug \in Slugs
    /\ r.pc \in {"delete", "gone"} => r.command = "down" /\ r.slug \in Slugs
    /\ r.command = "down" => r.at = r.slug /\ r.pc \notin {"list", "pick"}
    /\ r.pc \in Dropping => r.at \in Slugs
    /\ r.pc \in {"role", "database", "client", "space", "secret"} => r.password # 0
    /\ r.pc \in {"space", "secret"} => r.key # 0

SpaceTakesAll ==
    \A s \in Slugs : (~Exists(s) => secret[s] = None) /\ (s \notin deployed => pods[s] = None)

IInv == TypeOK /\ SpaceTakesAll /\ \A t \in Terminals : InHand(run[t])

-----------------------------------------------------------------------------
(***************************************************************************)
(* What a developer expects of preview.sh.  The variables from here on     *)
(* watch its runs; no step of it depends on them.                          *)
(***************************************************************************)
VARIABLES
    alone,   \* the terminals whose run no other run has overlapped
    misled,  \* the terminals whose run took a failed call for an answer
    stale    \* terminal -> what its gc has to remove: roles without a namespace
             \* that no `up` has worked on since it listed them

seen == <<alone, misled, stale>>

Busy == {t \in Terminals : ~At(t, "idle")}

InitRuns ==
    /\ Init
    /\ alone = {}
    /\ misled = {}
    /\ stale = [t \in Terminals |-> {}]

SeeBegin(t, command, s) ==
    /\ Begin(t, command, s)
    /\ alone' = IF Busy = {} THEN {t} ELSE {}
    /\ UNCHANGED misled
    /\ stale' = [u \in Terminals |-> IF command = "up" THEN stale[u] \ {s} ELSE stale[u]]

\* The run goes on; nothing is watched of one that is over.
GoesOn(t) == run'[t].pc # "idle"

SeeStep(t) ==
    /\ Step(t)
    /\ alone' = IF GoesOn(t) THEN alone ELSE alone \ {t}
    /\ misled' = IF GoesOn(t) /\ trouble' # trouble THEN misled \cup {t}
                 ELSE IF GoesOn(t) THEN misled ELSE misled \ {t}
    /\ stale' = [stale EXCEPT ![t] =
                   IF run'[t].pc \in {"role", "idle"} THEN {}
                   ELSE IF At(t, "list")
                   THEN {s \in roles : ~Exists(s) /\
                           ~\E u \in Terminals \ {t} : run[u].slug = s /\ run[u].command = "up"}
                   ELSE @]

SeeWorld ==
    /\ World
    /\ UNCHANGED seen

NextRuns ==
    \/ SeeWorld
    \/ \E t \in Terminals : SeeStep(t)
    \/ \E t \in Terminals : \E order \in Orders : SeeBegin(t, order[1], order[2])

SpecRuns == InitRuns /\ [][NextRuns]_<<vars, seen>>

\* Neither previews nor terminals are told apart.
Symmetric == Permutations(Slugs) \cup Permutations(Terminals)

-----------------------------------------------------------------------------
\* The credentials Postgres and Keycloak have of a preview.
InForce(s) == [password |-> password[s], key |-> key[s]]

\* An `up` that nobody overlapped and no failed call misled serves: the pod runs
\* with the password Postgres has and the secret Keycloak has, whatever an
\* earlier run left behind and the reaper deleted meanwhile.
UpMeansServing ==
    [][\A t \in Terminals : Finish(t) =>
          LET s == run[t].slug
          IN t \in alone \ misled =>
               /\ s \in databases /\ s \in clients
               /\ pods[s] = InForce(s)]_<<vars, seen>>

\* A gc that ends, misled by no failed call, has removed database, role and
\* client of every preview whose namespace was gone when it began, whatever
\* else ran.
CollectedMeansGone ==
    [][\A t \in Terminals : (Collected(t) /\ t \notin misled) =>
          stale[t] \cap (databases \cup roles \cup clients) = {}]_<<vars, seen>>

\* Developers who take turns never have more previews than the cap.
CapHoldsInTurns ==
    [][\A t \in alone : \A s \in Slugs :
          (spaces[s] = "none" /\ spaces'[s] = "live") =>
              Cardinality({q \in Slugs : spaces'[q] # "none"}) <= MAX_PREVIEWS]_<<vars, seen>>

\* preview.sh: gc "removes the database, role and client of a namespace that
\* is gone": with nobody else at work, what it takes is of no preview that is
\* there.
GcSparesTheLive ==
    [][\A t \in alone : (DropDatabase(t) /\ run[t].command # "down") =>
          (run[t].at \in databases => spaces[run[t].at] # "live")]_<<vars, seen>>

-----------------------------------------------------------------------------
(***************************************************************************)
(* Why they hold.  A run that is alone keeps the room it found; what a gc  *)
(* has to remove is among what it listed, at hand, or gone, and nobody     *)
(* makes it anew; and what an `up` has made stays what it made.            *)
(***************************************************************************)
SeenOK ==
    /\ alone \subseteq Terminals /\ misled \subseteq Terminals
    /\ stale \in [Terminals -> SUBSET Slugs]

AloneIsAlone == \A t \in alone : Busy = {t}

HasRoom ==
    \A t \in alone : (run[t].command = "up" /\ run[t].pc # "check") => Room(run[t].slug)

Undone(t, s) ==
    \/ s \in run[t].todo
    \/ run[t].pc = "drop_database" /\ run[t].at = s
    \/ run[t].pc = "drop_role" /\ run[t].at = s /\ s \notin databases
    \/ run[t].pc = "drop_client" /\ run[t].at = s /\ s \notin roles
    \/ s \notin roles \cup clients

Removes(t, s) ==
    /\ run[t].pc \in {"pick"} \cup Dropping
    /\ ~Exists(s)
    /\ \A u \in Terminals \ {t} : run[u].command = "up" => run[u].slug # s
    /\ t \notin misled => Undone(t, s)

Removing == \A t \in Terminals : \A s \in stale[t] : Removes(t, s)

Raised(t) ==
    LET r == run[t]
        s == run[t].slug
    IN  /\ r.pc \in {"database", "client", "space", "secret"} => password[s] = r.password
        /\ r.pc \in {"client", "space", "secret", "apply", "restart", "wait"} => s \in databases
        /\ r.pc \in {"space", "secret"} => key[s] = r.key
        /\ r.pc \in {"apply", "restart", "wait"} => s \in clients /\ secret[s] \in {None, InForce(s)}
        /\ (r.pc \in {"role", "database", "client", "space", "secret", "apply"} /\ ~r.existed) =>
              s \notin deployed
        /\ r.pc = "wait" => pods[s] \in {None, InForce(s)}

Serving == \A t \in alone \ misled : Raised(t)

RunsInv == SeenOK /\ AloneIsAlone /\ HasRoom /\ Removing /\ Serving

=============================================================================
