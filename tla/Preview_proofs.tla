---------------------------- MODULE Preview_proofs ----------------------------
(***************************************************************************)
(* Proofs about Preview and what watches its runs, for every number of     *)
(* previews, terminals, runs and failing calls, and every cap.             *)
(***************************************************************************)
EXTENDS Preview, FiniteSetTheorems, TLAPS

USE PreviewBoundsAssumption

(***************************************************************************)
(* A step of one terminal: its run becomes r, the others stay.             *)
(***************************************************************************)
BecomesRun(t, r) ==
    /\ run' \in [Terminals -> Runs]
    /\ run'[t] = r
    /\ \A u \in Terminals \ {t} : run'[u] = run[u]
    /\ \A u \in Terminals : InHand(run'[u])

LEMMA OneRun ==
    ASSUME IInv, NEW t \in Terminals, NEW r \in Runs, InHand(r),
           run' = [run EXCEPT ![t] = r]
    PROVE  BecomesRun(t, r)
<1>1. run \in [Terminals -> Runs] /\ \A u \in Terminals : InHand(run[u])
  BY DEF IInv, TypeOK
<1>2. run' \in [Terminals -> Runs] /\ run'[t] = r /\ \A u \in Terminals \ {t} : run'[u] = run[u]
  BY <1>1
<1>3. \A u \in Terminals : InHand(run'[u])
  BY <1>1, <1>2
<1> QED
  BY <1>2, <1>3 DEF BecomesRun

LEMMA IdleIs == Idle \in Runs /\ InHand(Idle)
<1>1. Idle \in Runs
  BY DEF Idle, Runs, Steps
<1>2. InHand(Idle)
  BY DEF Idle, InHand, Raising, Dropping
<1> QED
  BY <1>1, <1>2

LEMMA RunIs ==
    ASSUME IInv, NEW t \in Terminals
    PROVE  run[t] \in Runs /\ InHand(run[t])
BY DEF IInv, TypeOK

LEMMA EndsRun ==
    ASSUME IInv, NEW t \in Terminals, Ends(t)
    PROVE  BecomesRun(t, Idle)
BY IdleIs, OneRun DEF Ends

\* A run that goes on to another step and holds what that step needs.
LEMMA GoesRun ==
    ASSUME IInv, NEW t \in Terminals, NEW step \in Steps, Goes(t, step),
           InHand([run[t] EXCEPT !.pc = step])
    PROVE  BecomesRun(t, [run[t] EXCEPT !.pc = step])
<1>1. PICK r : r = [run[t] EXCEPT !.pc = step]
  OBVIOUS
<1>2. r \in Runs
  BY <1>1, RunIs DEF Runs
<1>3. run' = [run EXCEPT ![t] = r]
  BY <1>1 DEF Goes
<1> QED
  BY <1>1, <1>2, <1>3, OneRun

(***************************************************************************)
(* The invariant by the system it is about.                                *)
(***************************************************************************)
ClusterOK ==
    /\ spaces \in [Slugs -> {"none", "live", "ending"}]
    /\ secret \in [Slugs -> Credentials \cup {None}]
    /\ deployed \subseteq {s \in Slugs : Exists(s)}
    /\ pods \in [Slugs -> Credentials \cup {None}]
    /\ SpaceTakesAll

PostgresOK ==
    /\ databases \subseteq roles /\ roles \subseteq Slugs
    /\ password \in [Slugs -> Nat] /\ roles = {s \in Slugs : password[s] # 0}

KeycloakOK ==
    /\ clients \subseteq Slugs
    /\ key \in [Slugs -> Nat] /\ clients = {s \in Slugs : key[s] # 0}

CountsOK == listed \subseteq Slugs /\ made \in Nat /\ runs \in Nat /\ trouble \in Nat

LEMMA Parts ==
    ASSUME IInv
    PROVE  ClusterOK /\ PostgresOK /\ KeycloakOK /\ CountsOK
BY DEF IInv, TypeOK, ClusterOK, PostgresOK, KeycloakOK, CountsOK

LEMMA FromParts ==
    ASSUME IInv, ClusterOK', PostgresOK', KeycloakOK', CountsOK',
           NEW t \in Terminals, NEW r, BecomesRun(t, r)
    PROVE  IInv'
BY DEF IInv, TypeOK, ClusterOK, PostgresOK, KeycloakOK, CountsOK, BecomesRun

LEMMA SameCluster ==
    ASSUME ClusterOK, UNCHANGED cluster
    PROVE  ClusterOK'
BY DEF ClusterOK, cluster, SpaceTakesAll, Exists

LEMMA SamePostgres ==
    ASSUME PostgresOK, UNCHANGED postgres
    PROVE  PostgresOK'
BY DEF PostgresOK, postgres

LEMMA SameKeycloak ==
    ASSUME KeycloakOK, UNCHANGED keycloak
    PROVE  KeycloakOK'
BY DEF KeycloakOK, keycloak

LEMMA OneFailure ==
    ASSUME CountsOK, CallFails
    PROVE  trouble' \in Nat /\ trouble' # trouble
BY DEF CountsOK, CallFails

(***************************************************************************)
(* The cluster and the reaper.                                             *)
(***************************************************************************)
LEMMA WorldKeeps ==
    ASSUME IInv, World
    PROVE  IInv'
<1>1. ClusterOK /\ PostgresOK /\ KeycloakOK /\ CountsOK
  BY Parts
<1>2. UNCHANGED <<postgres, keycloak, run>>
  BY DEF World, ReapList, SpaceGone, PodStarts, PodDies, ReapDelete
<1>3. PostgresOK' /\ KeycloakOK'
  BY <1>1, <1>2, SamePostgres, SameKeycloak
<1>4. ClusterOK' /\ CountsOK'
  <2>1. CASE ReapList
    <3>1. ClusterOK'
      BY <1>1, <2>1, SameCluster DEF ReapList
    <3> QED
      BY <1>1, <2>1, <3>1 DEF ReapList, CountsOK, bounds
  <2>2. ASSUME NEW s \in Slugs, SpaceGone(s)
        PROVE  ClusterOK' /\ CountsOK'
    BY <1>1, <2>2 DEF SpaceGone, ClusterOK, CountsOK, SpaceTakesAll, Exists, bounds
  <2>3. ASSUME NEW s \in Slugs, PodStarts(s)
        PROVE  ClusterOK' /\ CountsOK'
    BY <1>1, <2>3 DEF PodStarts, ClusterOK, CountsOK, SpaceTakesAll, Exists, bounds
  <2>4. ASSUME NEW s \in Slugs, PodDies(s)
        PROVE  ClusterOK' /\ CountsOK'
    BY <1>1, <2>4 DEF PodDies, CallFails, ClusterOK, CountsOK, SpaceTakesAll, Exists
  <2>5. ASSUME NEW s \in Slugs, ReapDelete(s)
        PROVE  ClusterOK' /\ CountsOK'
    BY <1>1, <2>5 DEF ReapDelete, ClusterOK, CountsOK, SpaceTakesAll, Exists, bounds
  <2> QED
    BY <2>1, <2>2, <2>3, <2>4, <2>5 DEF World
<1>5. run' \in [Terminals -> Runs] /\ \A t \in Terminals : InHand(run'[t])
  BY <1>2 DEF IInv, TypeOK
<1> QED
  BY <1>3, <1>4, <1>5 DEF IInv, TypeOK, ClusterOK, PostgresOK, KeycloakOK, CountsOK

(***************************************************************************)
(* The script, call by call.  A call that changes only the run: ...        *)
(***************************************************************************)
LEMMA OnlyRun ==
    ASSUME IInv, NEW t \in Terminals, NEW r, BecomesRun(t, r),
           UNCHANGED <<cluster, postgres, keycloak, listed>>,
           made' \in Nat, runs' \in Nat, trouble' \in Nat
    PROVE  IInv'
<1>1. ClusterOK' /\ PostgresOK' /\ KeycloakOK' /\ CountsOK'
  BY Parts, SameCluster, SamePostgres, SameKeycloak DEF CountsOK
<1> QED
  BY <1>1, FromParts

LEMMA BeginKeeps ==
    ASSUME IInv, NEW t \in Terminals, NEW order \in Orders, Begin(t, order[1], order[2])
    PROVE  /\ IInv'
           /\ \E r : /\ BecomesRun(t, r) /\ r.pc \in {"check", "delete", "list"} /\ r.todo = {}
                     /\ r.command = order[1] /\ r.slug = order[2]
                     /\ r.command = "up" => r.pc = "check"
<1>1. PICK r : r = [Idle EXCEPT
                      !.command = order[1], !.slug = order[2],
                      !.at = IF order[1] = "down" THEN order[2] ELSE None,
                      !.pc = CASE order[1] = "up" -> "check"
                               [] order[1] = "down" -> "delete"
                               [] order[1] = "gc" -> "list"]
  OBVIOUS
<1>2. \/ order[1] \in {"up", "down"} /\ order[2] \in Slugs
      \/ order[1] = "gc" /\ order[2] = None
  BY DEF Orders
<1>3. r \in Runs /\ InHand(r) /\ r.pc \in {"check", "delete", "list"}
  <2>1. CASE order[1] = "up"
    BY <1>1, <1>2, <2>1 DEF Idle, Runs, Steps, InHand, Raising, Dropping
  <2>2. CASE order[1] = "down"
    BY <1>1, <1>2, <2>2 DEF Idle, Runs, Steps, InHand, Raising, Dropping
  <2>3. CASE order[1] = "gc"
    BY <1>1, <1>2, <2>3 DEF Idle, Runs, Steps, InHand, Raising, Dropping
  <2> QED
    BY <1>2, <2>1, <2>2, <2>3
<1>4. run' = [run EXCEPT ![t] = r]
  BY <1>1 DEF Begin
<1>5. BecomesRun(t, r)
  BY <1>3, <1>4, OneRun
<1>6. made' \in Nat /\ runs' \in Nat /\ trouble' \in Nat
  BY Parts DEF Begin, CountsOK
<1>7. IInv'
  BY <1>5, <1>6, OnlyRun DEF Begin
<1>8. r.todo = {} /\ r.command = order[1] /\ r.slug = order[2] /\ (r.command = "up" => r.pc = "check")
  BY <1>1 DEF Idle
<1> QED
  BY <1>3, <1>5, <1>7, <1>8

LEMMA CheckKeeps ==
    ASSUME IInv, NEW t \in Terminals, Check(t)
    PROVE  /\ IInv'
           /\ \/ Room(run[t].slug) /\ BecomesRun(t, [run[t] EXCEPT !.pc = "list"])
              \/ BecomesRun(t, Idle)
<1>1. run[t] \in Runs /\ InHand(run[t]) /\ run[t].pc = "check"
  BY RunIs DEF Check, At
<1>2. made' \in Nat /\ runs' \in Nat /\ trouble' \in Nat
  BY Parts DEF Check, CountsOK, bounds
<1>3. CASE Room(run[t].slug)
  <2>1. InHand([run[t] EXCEPT !.pc = "list"])
    BY <1>1 DEF InHand, Runs, Raising, Dropping
  <2>2. BecomesRun(t, [run[t] EXCEPT !.pc = "list"])
    BY <1>3, <2>1, GoesRun DEF Check, Steps
  <2> QED
    BY <1>2, <1>3, <2>2, OnlyRun DEF Check
<1>4. CASE ~Room(run[t].slug)
  <2>1. BecomesRun(t, Idle)
    BY <1>4, EndsRun DEF Check
  <2> QED
    BY <1>2, <2>1, OnlyRun DEF Check
<1> QED
  BY <1>3, <1>4

LEMMA ListKeeps ==
    ASSUME IInv, NEW t \in Terminals, List(t)
    PROVE  /\ IInv'
           /\ \E all \in {roles, {}} :
                 /\ all = roles \/ trouble' # trouble
                 /\ BecomesRun(t, [run[t] EXCEPT !.todo = all, !.pc = "pick"])
<1>1. run[t] \in Runs /\ InHand(run[t]) /\ run[t].pc = "list"
  BY RunIs DEF List, At
<1>2. PICK all \in {roles, {}} :
         /\ run' = [run EXCEPT ![t].todo = all, ![t].pc = "pick"]
         /\ IF all = roles THEN UNCHANGED trouble ELSE CallFails
  BY DEF List
<1>3. made' \in Nat /\ runs' \in Nat /\ trouble' \in Nat /\ (all = roles \/ trouble' # trouble)
  BY <1>2, Parts, OneFailure DEF List, CountsOK
<1>4. all \subseteq Slugs
  BY Parts DEF PostgresOK
<1>5. PICK r : r = [run[t] EXCEPT !.todo = all, !.pc = "pick"]
  OBVIOUS
<1>6. r \in Runs /\ InHand(r)
  BY <1>1, <1>4, <1>5 DEF Runs, Steps, InHand, Raising, Dropping
<1>7. run' = [run EXCEPT ![t] = r]
  BY <1>2, <1>5
<1>8. BecomesRun(t, r)
  BY <1>6, <1>7, OneRun
<1>9. IInv'
  BY <1>3, <1>8, OnlyRun DEF List
<1> QED
  BY <1>3, <1>5, <1>8, <1>9

LEMMA FoundIs ==
    ASSUME IInv, NEW s, NEW found \in BOOLEAN, Finds(s, found)
    PROVE  /\ trouble' \in Nat
           /\ found = Exists(s) \/ trouble' # trouble
           /\ found => Exists(s)
<1>1. CountsOK
  BY Parts
<1>2. CASE found = Exists(s)
  BY <1>1, <1>2 DEF Finds, CountsOK
<1>3. CASE found # Exists(s)
  <2>1. ~found /\ CallFails
    BY <1>3 DEF Finds
  <2> QED
    BY <1>1, <2>1, OneFailure
<1> QED
  BY <1>2, <1>3

LEMMA PickKeeps ==
    ASSUME IInv, NEW t \in Terminals, Pick(t)
    PROVE  /\ IInv'
           /\ \E s \in run[t].todo, found \in BOOLEAN :
                 /\ found = Exists(s) \/ trouble' # trouble
                 /\ found => Exists(s)
                 /\ BecomesRun(t, [run[t] EXCEPT !.todo = @ \ {s}, !.at = IF found THEN @ ELSE s,
                                                 !.pc = IF found THEN @ ELSE "drop_database"])
<1>1. run[t] \in Runs /\ InHand(run[t]) /\ run[t].pc = "pick"
  BY RunIs DEF Pick, At
<1>2. PICK s \in run[t].todo, found \in BOOLEAN :
         /\ Finds(s, found)
         /\ run' = [run EXCEPT ![t].todo = @ \ {s}, ![t].at = IF found THEN @ ELSE s,
                               ![t].pc = IF found THEN @ ELSE "drop_database"]
  BY DEF Pick
<1>3. /\ made' \in Nat /\ runs' \in Nat /\ trouble' \in Nat
      /\ found = Exists(s) \/ trouble' # trouble
      /\ found => Exists(s)
  BY <1>2, Parts, FoundIs DEF Pick, CountsOK
<1>4. s \in Slugs
  BY <1>1 DEF Runs
<1>5. PICK r : r = [run[t] EXCEPT !.todo = @ \ {s}, !.at = IF found THEN @ ELSE s,
                                  !.pc = IF found THEN @ ELSE "drop_database"]
  OBVIOUS
<1>6. r \in Runs
  <2>1. CASE found
    BY <1>1, <1>5, <2>1 DEF Runs
  <2>2. CASE ~found
    BY <1>1, <1>4, <1>5, <2>2 DEF Runs, Steps
  <2> QED
    BY <2>1, <2>2
<1>7. r.command # "down"
  BY <1>1, <1>5 DEF InHand
<1>8. InHand(r)
  BY <1>1, <1>4, <1>5, <1>7 DEF Runs, InHand, Raising, Dropping
<1>9. run' = [run EXCEPT ![t] = r]
  BY <1>1, <1>2, <1>5 DEF IInv, TypeOK
<1>10. BecomesRun(t, r)
  BY <1>6, <1>8, <1>9, OneRun
<1>11. IInv'
  BY <1>3, <1>10, OnlyRun DEF Pick
<1> QED
  BY <1>2, <1>3, <1>5, <1>10, <1>11

LEMMA CollectedKeeps ==
    ASSUME IInv, NEW t \in Terminals, Collected(t)
    PROVE  /\ IInv'
           /\ \/ BecomesRun(t, Idle)
              \/ \E r \in Runs, found \in BOOLEAN :
                    /\ BecomesRun(t, r)
                    /\ r.pc = "role" /\ r.command = "up" /\ r.slug = run[t].slug /\ r.existed = found
                    /\ found = Exists(r.slug) \/ trouble' # trouble
<1>1. run[t] \in Runs /\ InHand(run[t]) /\ run[t].pc = "pick"
  BY RunIs DEF Collected, At
<1>2. CASE run[t].command = "up"
  <2>1. PICK found \in BOOLEAN :
          /\ Finds(run[t].slug, found)
          /\ run' = [run EXCEPT ![t].existed = found, ![t].password = made', ![t].pc = "role"]
    BY <1>2 DEF Collected
  <2>2. /\ made' \in Nat /\ made' # 0 /\ runs' \in Nat /\ trouble' \in Nat
        /\ found = Exists(run[t].slug) \/ trouble' # trouble
    <3>1. made' = made + 1 /\ runs' = runs
      BY <1>2 DEF Collected
    <3>2. made \in Nat /\ runs \in Nat
      BY Parts DEF CountsOK
    <3>3. PICK s : s = run[t].slug
      OBVIOUS
    <3>4. trouble' \in Nat /\ (found = Exists(s) \/ trouble' # trouble)
      BY <2>1, <3>3, FoundIs
    <3> QED
      BY <3>1, <3>2, <3>3, <3>4
  <2>3. PICK password0 : password0 = made'
    OBVIOUS
  <2>4. PICK r : r = [run[t] EXCEPT !.existed = found, !.password = password0, !.pc = "role"]
    OBVIOUS
  <2>5. r \in Runs /\ InHand(r)
    BY <1>1, <1>2, <2>2, <2>3, <2>4 DEF Runs, Steps, InHand, Raising, Dropping
  <2>6. run' = [run EXCEPT ![t] = r]
    BY <1>1, <2>1, <2>3, <2>4 DEF IInv, TypeOK
  <2>7. BecomesRun(t, r)
    BY <2>5, <2>6, OneRun
  <2>8. IInv'
    BY <2>2, <2>7, OnlyRun DEF Collected
  <2>9. r.pc = "role" /\ r.command = "up" /\ r.slug = run[t].slug /\ r.existed = found
    BY <1>1, <1>2, <2>4 DEF Runs
  <2>10. found = Exists(r.slug) \/ trouble' # trouble
    BY <2>2, <2>9
  <2> QED
    BY <2>5, <2>7, <2>8, <2>9, <2>10
<1>3. CASE run[t].command # "up"
  <2>1. Ends(t) /\ UNCHANGED <<cluster, postgres, keycloak, listed, runs, made, trouble>>
    BY <1>3 DEF Collected
  <2>2. BecomesRun(t, Idle)
    BY <2>1, EndsRun
  <2> QED
    BY <2>1, <2>2, Parts, OnlyRun DEF CountsOK
<1> QED
  BY <1>2, <1>3

(***************************************************************************)
(* ... those that take a preview away, ...                                 *)
(***************************************************************************)
LEMMA DropDatabaseKeeps ==
    ASSUME IInv, NEW t \in Terminals, DropDatabase(t)
    PROVE  IInv' /\ BecomesRun(t, [run[t] EXCEPT !.pc = "drop_role"])
<1>1. run[t] \in Runs /\ InHand(run[t]) /\ run[t].pc = "drop_database"
  BY RunIs DEF DropDatabase, At
<1>2. InHand([run[t] EXCEPT !.pc = "drop_role"])
  BY <1>1 DEF Runs, InHand, Raising, Dropping
<1>3. BecomesRun(t, [run[t] EXCEPT !.pc = "drop_role"])
  BY <1>2, GoesRun DEF DropDatabase, Steps
<1>4. PostgresOK'
  BY Parts DEF DropDatabase, PostgresOK
<1>5. ClusterOK' /\ KeycloakOK' /\ CountsOK'
  BY Parts, SameCluster, SameKeycloak DEF DropDatabase, CountsOK, bounds
<1> QED
  BY <1>3, <1>4, <1>5, FromParts

LEMMA DropRoleKeeps ==
    ASSUME IInv, NEW t \in Terminals, DropRole(t)
    PROVE  IInv' /\ BecomesRun(t, [run[t] EXCEPT !.pc = "drop_client"])
<1>1. run[t] \in Runs /\ InHand(run[t]) /\ run[t].pc = "drop_role"
  BY RunIs DEF DropRole, At
<1>2. InHand([run[t] EXCEPT !.pc = "drop_client"])
  BY <1>1 DEF Runs, InHand, Raising, Dropping
<1>3. BecomesRun(t, [run[t] EXCEPT !.pc = "drop_client"])
  BY <1>2, GoesRun DEF DropRole, Steps
<1>4. PostgresOK'
  <2>1. run[t].at \in Slugs
    BY <1>1 DEF InHand, Dropping
  <2> QED
    BY <2>1, Parts DEF DropRole, PostgresOK
<1>5. ClusterOK' /\ KeycloakOK' /\ CountsOK'
  BY Parts, SameCluster, SameKeycloak DEF DropRole, CountsOK, bounds
<1> QED
  BY <1>3, <1>4, <1>5, FromParts

LEMMA RemovedRun ==
    ASSUME IInv, NEW t \in Terminals, Removed(t)
    PROVE  \/ BecomesRun(t, Idle)
           \/ run[t].command # "down" /\ BecomesRun(t, [run[t] EXCEPT !.at = None, !.pc = "pick"])
<1>1. run[t] \in Runs /\ InHand(run[t])
  BY RunIs
<1>2. CASE run[t].command = "down"
  BY <1>2, EndsRun DEF Removed
<1>3. CASE run[t].command # "down"
  <2>1. PICK r : r = [run[t] EXCEPT !.at = None, !.pc = "pick"]
    OBVIOUS
  <2>2. r \in Runs /\ InHand(r)
    BY <1>1, <1>3, <2>1 DEF Runs, Steps, InHand, Raising, Dropping
  <2>3. run' = [run EXCEPT ![t] = r]
    BY <1>3, <2>1 DEF Removed
  <2> QED
    BY <1>3, <2>1, <2>2, <2>3, OneRun
<1> QED
  BY <1>2, <1>3

LEMMA DropClientKeeps ==
    ASSUME IInv, NEW t \in Terminals, DropClient(t)
    PROVE  /\ IInv'
           /\ run[t].at \notin clients' \/ trouble' # trouble
<1>1. run[t] \in Runs /\ InHand(run[t]) /\ run[t].pc = "drop_client"
  BY RunIs DEF DropClient, At
<1>2. PICK r : BecomesRun(t, r)
  BY RemovedRun DEF DropClient
<1>3. KeycloakOK' /\ trouble' \in Nat /\ (run[t].at \notin clients' \/ trouble' # trouble)
  <2>1. run[t].at \in Slugs
    BY <1>1 DEF InHand, Dropping
  <2>2. CASE /\ clients' = clients \ {run[t].at}
             /\ key' = [key EXCEPT ![run[t].at] = 0]
             /\ UNCHANGED trouble
    BY <2>1, <2>2, Parts DEF KeycloakOK, CountsOK
  <2>3. CASE CallFails /\ UNCHANGED keycloak
    BY <2>3, Parts, SameKeycloak, OneFailure
  <2> QED
    BY <2>2, <2>3 DEF DropClient
<1>4. ClusterOK' /\ PostgresOK' /\ CountsOK'
  BY <1>3, Parts, SameCluster, SamePostgres DEF DropClient, CountsOK
<1> QED
  BY <1>2, <1>3, <1>4, FromParts

(***************************************************************************)
(* ... those that make one, ...                                            *)
(***************************************************************************)
LEMMA CreateRoleKeeps ==
    ASSUME IInv, NEW t \in Terminals, CreateRole(t)
    PROVE  IInv' /\ BecomesRun(t, [run[t] EXCEPT !.pc = "database"])
<1>1. run[t] \in Runs /\ InHand(run[t]) /\ run[t].pc = "role"
  BY RunIs DEF CreateRole, At
<1>2. InHand([run[t] EXCEPT !.pc = "database"])
  BY <1>1 DEF Runs, InHand, Raising, Dropping
<1>3. BecomesRun(t, [run[t] EXCEPT !.pc = "database"])
  BY <1>2, GoesRun DEF CreateRole, Steps
<1>4. PostgresOK'
  <2>1. run[t].slug \in Slugs /\ run[t].password \in Nat \ {0}
    BY <1>1 DEF InHand, Raising, Runs
  <2> QED
    BY <2>1, Parts DEF CreateRole, PostgresOK
<1>5. ClusterOK' /\ KeycloakOK' /\ CountsOK'
  BY Parts, SameCluster, SameKeycloak DEF CreateRole, CountsOK, bounds
<1> QED
  BY <1>3, <1>4, <1>5, FromParts

LEMMA CreateDatabaseKeeps ==
    ASSUME IInv, NEW t \in Terminals, CreateDatabase(t)
    PROVE  IInv' /\ BecomesRun(t, [run[t] EXCEPT !.pc = "client"])
<1>1. run[t] \in Runs /\ InHand(run[t]) /\ run[t].pc = "database"
  BY RunIs DEF CreateDatabase, At
<1>2. InHand([run[t] EXCEPT !.pc = "client"])
  BY <1>1 DEF Runs, InHand, Raising, Dropping
<1>3. BecomesRun(t, [run[t] EXCEPT !.pc = "client"])
  BY <1>2, GoesRun DEF CreateDatabase, Steps
<1>4. PostgresOK'
  BY Parts DEF CreateDatabase, PostgresOK
<1>5. ClusterOK' /\ KeycloakOK' /\ CountsOK'
  BY Parts, SameCluster, SameKeycloak DEF CreateDatabase, CountsOK, bounds
<1> QED
  BY <1>3, <1>4, <1>5, FromParts

LEMMA CreateClientKeeps ==
    ASSUME IInv, NEW t \in Terminals, CreateClient(t)
    PROVE  /\ IInv'
           /\ BecomesRun(t, [run[t] EXCEPT !.key = key'[run[t].slug], !.pc = "space"])
<1>1. run[t] \in Runs /\ InHand(run[t]) /\ run[t].pc = "client"
  BY RunIs DEF CreateClient, At
<1>2. PICK s : s = run[t].slug
  OBVIOUS
<1>3. s \in Slugs
  BY <1>1, <1>2 DEF InHand, Raising
<1>4. clients' = clients \cup {s} /\ run' = [run EXCEPT ![t].key = key'[s], ![t].pc = "space"]
  BY <1>2 DEF CreateClient
<1>5. KeycloakOK' /\ made' \in Nat
  <2>1. CASE s \in clients
    <3>1. UNCHANGED <<key, made>>
      BY <1>2, <2>1 DEF CreateClient
    <3> QED
      BY <1>4, <2>1, <3>1, Parts DEF KeycloakOK, CountsOK
  <2>2. CASE s \notin clients
    <3>1. made' = made + 1 /\ key' = [key EXCEPT ![s] = made']
      BY <1>2, <2>2 DEF CreateClient
    <3>2. made' \in Nat /\ made' # 0
      BY <3>1, Parts DEF CountsOK
    <3> QED
      BY <1>3, <1>4, <3>1, <3>2, Parts DEF KeycloakOK
  <2> QED
    BY <2>1, <2>2
<1>6. PICK value : value = key'[s]
  OBVIOUS
<1>7. value \in Nat \ {0}
  BY <1>3, <1>4, <1>5, <1>6 DEF KeycloakOK
<1>8. PICK r : r = [run[t] EXCEPT !.key = value, !.pc = "space"]
  OBVIOUS
<1>9. r \in Runs /\ InHand(r)
  BY <1>1, <1>7, <1>8 DEF Runs, Steps, InHand, Raising, Dropping
<1>10. run' = [run EXCEPT ![t] = r]
  BY <1>4, <1>6, <1>8 DEF IInv, TypeOK
<1>11. BecomesRun(t, r)
  BY <1>9, <1>10, OneRun
<1>12. ClusterOK' /\ PostgresOK' /\ CountsOK'
  BY <1>5, Parts, SameCluster, SamePostgres DEF CreateClient, CountsOK
<1>13. IInv'
  BY <1>5, <1>11, <1>12, FromParts
<1> QED
  BY <1>2, <1>6, <1>8, <1>11, <1>13

LEMMA CreateSpaceKeeps ==
    ASSUME IInv, NEW t \in Terminals, CreateSpace(t)
    PROVE  IInv' /\ BecomesRun(t, [run[t] EXCEPT !.pc = "secret"])
<1>1. run[t] \in Runs /\ InHand(run[t]) /\ run[t].pc = "space"
  BY RunIs DEF CreateSpace, At
<1>2. InHand([run[t] EXCEPT !.pc = "secret"])
  BY <1>1 DEF Runs, InHand, Raising, Dropping
<1>3. BecomesRun(t, [run[t] EXCEPT !.pc = "secret"])
  BY <1>2, GoesRun DEF CreateSpace, Steps
<1>4. ClusterOK'
  <2>1. PICK s : s = run[t].slug
    OBVIOUS
  <2>2. s \in Slugs
    BY <1>1, <2>1 DEF InHand, Raising
  <2>3. spaces' = [spaces EXCEPT ![s] = IF spaces[s] = "none" THEN "live" ELSE spaces[s]]
        /\ UNCHANGED <<secret, deployed, pods>>
    BY <2>1 DEF CreateSpace
  <2> QED
    BY <2>2, <2>3, Parts DEF ClusterOK, SpaceTakesAll, Exists
<1>5. PostgresOK' /\ KeycloakOK' /\ CountsOK'
  BY Parts, SamePostgres, SameKeycloak DEF CreateSpace, CountsOK, bounds
<1> QED
  BY <1>3, <1>4, <1>5, FromParts

LEMMA WriteSecretKeeps ==
    ASSUME IInv, NEW t \in Terminals, WriteSecret(t)
    PROVE  /\ IInv'
           /\ BecomesRun(t, [run[t] EXCEPT !.pc = "apply", !.password = 0, !.key = 0])
<1>1. run[t] \in Runs /\ InHand(run[t]) /\ run[t].pc = "secret"
  BY RunIs DEF WriteSecret, At
<1>2. PICK r : r = [run[t] EXCEPT !.pc = "apply", !.password = 0, !.key = 0]
  OBVIOUS
<1>3. r \in Runs /\ InHand(r)
  BY <1>1, <1>2 DEF Runs, Steps, InHand, Raising, Dropping
<1>4. run' = [run EXCEPT ![t] = r]
  BY <1>2 DEF WriteSecret, IInv, TypeOK
<1>5. BecomesRun(t, r)
  BY <1>3, <1>4, OneRun
<1>6. ClusterOK'
  <2>1. PICK s : s = run[t].slug
    OBVIOUS
  <2>2. PICK credentials : credentials = [password |-> run[t].password, key |-> run[t].key]
    OBVIOUS
  <2>3. s \in Slugs /\ credentials \in Credentials
    BY <1>1, <2>1, <2>2 DEF InHand, Raising, Runs, Credentials
  <2>4. /\ spaces[s] \in {"live", "ending"}
        /\ secret' = [secret EXCEPT ![s] = credentials]
        /\ UNCHANGED <<spaces, deployed, pods>>
    BY <2>1, <2>2 DEF WriteSecret, Takes
  <2> QED
    BY <2>3, <2>4, Parts DEF ClusterOK, SpaceTakesAll, Exists
<1>7. PostgresOK' /\ KeycloakOK' /\ CountsOK'
  BY Parts, SamePostgres, SameKeycloak DEF WriteSecret, CountsOK, bounds
<1> QED
  BY <1>2, <1>5, <1>6, <1>7, FromParts

LEMMA ApplyKeeps ==
    ASSUME IInv, NEW t \in Terminals, Apply(t)
    PROVE  /\ IInv'
           /\ BecomesRun(t, [run[t] EXCEPT !.pc = IF run[t].existed THEN "restart" ELSE "wait"])
<1>1. run[t] \in Runs /\ InHand(run[t]) /\ run[t].pc = "apply"
  BY RunIs DEF Apply, At
<1>2. PICK step : step = IF run[t].existed THEN "restart" ELSE "wait"
  OBVIOUS
<1>3. step \in {"restart", "wait"}
  BY <1>2
<1>4. InHand([run[t] EXCEPT !.pc = step])
  BY <1>1, <1>3 DEF Runs, InHand, Raising, Dropping
<1>5. BecomesRun(t, [run[t] EXCEPT !.pc = step])
  BY <1>2, <1>3, <1>4, GoesRun DEF Apply, Steps
<1>6. ClusterOK'
  <2>1. PICK s : s = run[t].slug
    OBVIOUS
  <2>2. s \in Slugs
    BY <1>1, <2>1 DEF InHand, Raising
  <2>3. /\ spaces' = [spaces EXCEPT ![s] = IF spaces[s] = "none" THEN "live" ELSE spaces[s]]
        /\ deployed' = deployed \cup {s}
        /\ UNCHANGED <<secret, pods>>
    BY <2>1 DEF Apply
  <2> QED
    BY <2>2, <2>3, Parts DEF ClusterOK, SpaceTakesAll, Exists
<1>7. PostgresOK' /\ KeycloakOK' /\ CountsOK'
  BY Parts, SamePostgres, SameKeycloak DEF Apply, CountsOK, bounds
<1> QED
  BY <1>2, <1>5, <1>6, <1>7, FromParts

LEMMA RestartKeeps ==
    ASSUME IInv, NEW t \in Terminals, Restart(t)
    PROVE  IInv' /\ BecomesRun(t, [run[t] EXCEPT !.existed = FALSE, !.pc = "wait"])
<1>1. run[t] \in Runs /\ InHand(run[t]) /\ run[t].pc = "restart"
  BY RunIs DEF Restart, At
<1>2. PICK r : r = [run[t] EXCEPT !.existed = FALSE, !.pc = "wait"]
  OBVIOUS
<1>3. r \in Runs /\ InHand(r)
  BY <1>1, <1>2 DEF Runs, Steps, InHand, Raising, Dropping
<1>4. run' = [run EXCEPT ![t] = r]
  BY <1>2 DEF Restart, IInv, TypeOK
<1>5. BecomesRun(t, r)
  BY <1>3, <1>4, OneRun
<1>6. ClusterOK'
  <2>1. run[t].slug \in Slugs
    BY <1>1 DEF InHand, Raising
  <2> QED
    BY <2>1, Parts DEF Restart, ClusterOK, SpaceTakesAll, Exists
<1>7. PostgresOK' /\ KeycloakOK' /\ CountsOK'
  BY Parts, SamePostgres, SameKeycloak DEF Restart, CountsOK, bounds
<1> QED
  BY <1>2, <1>5, <1>6, <1>7, FromParts

LEMMA FinishKeeps ==
    ASSUME IInv, NEW t \in Terminals, Finish(t)
    PROVE  IInv' /\ BecomesRun(t, Idle)
<1>1. BecomesRun(t, Idle)
  BY EndsRun DEF Finish
<1> QED
  BY <1>1, Parts, OnlyRun DEF Finish, bounds, CountsOK

(***************************************************************************)
(* ... down's own, and a call that fails.                                  *)
(***************************************************************************)
LEMMA DeleteKeeps ==
    ASSUME IInv, NEW t \in Terminals, Delete(t)
    PROVE  /\ IInv'
           /\ BecomesRun(t, [run[t] EXCEPT !.pc = IF Exists(run[t].slug) THEN "gone" ELSE "drop_database"])
<1>1. run[t] \in Runs /\ InHand(run[t]) /\ run[t].pc = "delete"
  BY RunIs DEF Delete, At
<1>2. PICK s : s = run[t].slug
  OBVIOUS
<1>3. PICK step : step = IF Exists(s) THEN "gone" ELSE "drop_database"
  OBVIOUS
<1>4. step \in {"gone", "drop_database"} /\ s \in Slugs
  BY <1>1, <1>2, <1>3 DEF InHand
<1>5. InHand([run[t] EXCEPT !.pc = step])
  BY <1>1, <1>4 DEF Runs, InHand, Raising, Dropping
<1>6. BecomesRun(t, [run[t] EXCEPT !.pc = step])
  BY <1>2, <1>3, <1>4, <1>5, GoesRun DEF Delete, Steps
<1>7. ClusterOK'
  <2>1. /\ spaces' = [spaces EXCEPT ![s] = IF spaces[s] = "none" THEN spaces[s] ELSE "ending"]
        /\ UNCHANGED <<secret, deployed, pods>>
    BY <1>2 DEF Delete
  <2> QED
    BY <1>4, <2>1, Parts DEF ClusterOK, SpaceTakesAll, Exists
<1>8. PostgresOK' /\ KeycloakOK' /\ CountsOK'
  BY Parts, SamePostgres, SameKeycloak DEF Delete, CountsOK, bounds
<1> QED
  BY <1>2, <1>3, <1>6, <1>7, <1>8, FromParts

LEMMA GoneKeeps ==
    ASSUME IInv, NEW t \in Terminals, Gone(t)
    PROVE  IInv' /\ BecomesRun(t, [run[t] EXCEPT !.pc = "drop_database"])
<1>1. run[t] \in Runs /\ InHand(run[t]) /\ run[t].pc = "gone"
  BY RunIs DEF Gone, At
<1>2. InHand([run[t] EXCEPT !.pc = "drop_database"])
  BY <1>1 DEF Runs, InHand, Raising, Dropping
<1>3. BecomesRun(t, [run[t] EXCEPT !.pc = "drop_database"])
  BY <1>2, GoesRun DEF Gone, Steps
<1> QED
  BY <1>3, Parts, OnlyRun DEF Gone, bounds, CountsOK

LEMMA FailsKeeps ==
    ASSUME IInv, NEW t \in Terminals, Fails(t)
    PROVE  IInv' /\ BecomesRun(t, Idle)
<1>1. BecomesRun(t, Idle)
  BY EndsRun DEF Fails
<1>2. made' \in Nat /\ runs' \in Nat /\ trouble' \in Nat
  BY Parts, OneFailure DEF Fails, CountsOK
<1> QED
  BY <1>1, <1>2, OnlyRun DEF Fails

LEMMA StepKeeps ==
    ASSUME IInv, NEW t \in Terminals, Step(t)
    PROVE  IInv'
BY CheckKeeps, ListKeeps, PickKeeps, CollectedKeeps, DropDatabaseKeeps, DropRoleKeeps,
   DropClientKeeps, CreateRoleKeeps, CreateDatabaseKeeps, CreateClientKeeps, CreateSpaceKeeps,
   WriteSecretKeeps, ApplyKeeps, RestartKeeps, FinishKeeps, DeleteKeeps, GoneKeeps, FailsKeeps,
   Zenon DEF Step

LEMMA InitIInv == Init => IInv
<1> SUFFICES ASSUME Init
             PROVE  IInv
  OBVIOUS
<1>1. run \in [Terminals -> Runs] /\ \A t \in Terminals : InHand(run[t])
  BY IdleIs DEF Init
<1> QED
  BY <1>1 DEF Init, IInv, TypeOK, SpaceTakesAll, Exists

LEMMA StutterIInv ==
    ASSUME IInv, UNCHANGED vars
    PROVE  IInv'
<1>1. ClusterOK' /\ PostgresOK' /\ KeycloakOK'
  BY Parts, SameCluster, SamePostgres, SameKeycloak DEF vars
<1>2. UNCHANGED <<listed, run, made, runs, trouble>>
  BY DEF vars, bounds
<1> QED
  BY <1>1, <1>2 DEF IInv, TypeOK, ClusterOK, PostgresOK, KeycloakOK

LEMMA NextIInv ==
    ASSUME IInv, [Next]_vars
    PROVE  IInv'
<1>1. ASSUME NEW t \in Terminals, NEW order \in Orders, Begin(t, order[1], order[2])
      PROVE  IInv'
  BY <1>1, BeginKeeps
<1> QED
  BY <1>1, WorldKeeps, StepKeeps, StutterIInv DEF Next

(***************************************************************************)
(* What a step of one terminal leaves alone: the other terminals' runs,    *)
(* and that what is not there stays so, save for the preview it raises.    *)
(***************************************************************************)
Raises(t, s) == run[t].command = "up" /\ run[t].slug = s

Touches(t) ==
    /\ run[t].pc # "idle"
    /\ \A u \in Terminals \ {t} : run'[u] = run[u]
    /\ run'[t].command = "up" => run[t].command = "up" /\ run'[t].slug = run[t].slug
    /\ \A s \in Slugs : ~Raises(t, s) =>
          /\ s \notin databases => s \notin databases'
          /\ s \notin roles => s \notin roles'
          /\ s \notin clients => s \notin clients'
          /\ ~Exists(s) => ~Exists(s)'

LEMMA LeavesAlone ==
    ASSUME IInv, NEW t \in Terminals, NEW r, BecomesRun(t, r), run[t].pc # "idle",
           r.command = "up" => run[t].command = "up" /\ r.slug = run[t].slug,
           \A s \in Slugs : ~Raises(t, s) =>
               /\ s \notin databases => s \notin databases'
               /\ s \notin roles => s \notin roles'
               /\ s \notin clients => s \notin clients'
               /\ ~Exists(s) => ~Exists(s)'
    PROVE  Touches(t)
BY DEF Touches, BecomesRun

LEMMA MakesNothing ==
    ASSUME IInv, NEW t \in Terminals, NEW r, BecomesRun(t, r), run[t].pc # "idle",
           r.command = "up" => run[t].command = "up" /\ r.slug = run[t].slug,
           UNCHANGED spaces, databases' \subseteq databases, roles' \subseteq roles,
           clients' \subseteq clients
    PROVE  Touches(t)
BY LeavesAlone DEF Exists

LEMMA StepTouches ==
    ASSUME IInv, NEW t \in Terminals, Step(t)
    PROVE  Touches(t)
<1>1. run[t] \in Runs /\ InHand(run[t]) /\ Idle.command # "up"
  BY RunIs DEF Idle
<1>2. CASE Check(t)
  <2>1. UNCHANGED <<spaces, databases, roles, clients>> /\ run[t].pc # "idle"
    BY <1>2 DEF Check, cluster, postgres, keycloak, At
  <2>2. CASE BecomesRun(t, Idle)
    BY <1>1, <2>1, <2>2, MakesNothing
  <2>3. CASE BecomesRun(t, [run[t] EXCEPT !.pc = "list"])
    BY <1>1, <2>1, <2>3, MakesNothing DEF Runs
  <2> QED
    BY <1>2, <2>2, <2>3, CheckKeeps
<1>3. CASE List(t)
  <2>1. UNCHANGED <<spaces, databases, roles, clients>> /\ run[t].pc # "idle"
    BY <1>3 DEF List, cluster, postgres, keycloak, At
  <2>2. PICK all \in {roles, {}} : BecomesRun(t, [run[t] EXCEPT !.todo = all, !.pc = "pick"])
    BY <1>3, ListKeeps
  <2> QED
    BY <1>1, <2>1, <2>2, MakesNothing DEF Runs
<1>4. CASE Pick(t)
  <2>1. UNCHANGED <<spaces, databases, roles, clients>> /\ run[t].pc # "idle"
    BY <1>4 DEF Pick, cluster, postgres, keycloak, At
  <2>2. PICK s \in run[t].todo, found \in BOOLEAN :
           BecomesRun(t, [run[t] EXCEPT !.todo = @ \ {s}, !.at = IF found THEN @ ELSE s,
                                        !.pc = IF found THEN @ ELSE "drop_database"])
    BY <1>4, PickKeeps
  <2> QED
    BY <1>1, <2>1, <2>2, MakesNothing DEF Runs
<1>5. CASE Collected(t)
  <2>1. UNCHANGED <<spaces, databases, roles, clients>> /\ run[t].pc # "idle"
    BY <1>5 DEF Collected, cluster, postgres, keycloak, At
  <2>2. CASE BecomesRun(t, Idle)
    BY <1>1, <2>1, <2>2, MakesNothing
  <2>3. CASE run[t].command = "up"
    <3>1. ASSUME NEW r \in Runs, BecomesRun(t, r), r.slug = run[t].slug
          PROVE  Touches(t)
      BY <2>1, <2>3, <3>1, MakesNothing
    <3> QED
      BY <1>5, <2>2, <3>1, CollectedKeeps
  <2>4. CASE run[t].command # "up"
    BY <1>5, <2>2, <2>4, EndsRun DEF Collected
  <2> QED
    BY <2>3, <2>4
<1>6. CASE DropDatabase(t)
  BY <1>1, <1>6, DropDatabaseKeeps, MakesNothing DEF DropDatabase, cluster, keycloak, At, Runs
<1>7. CASE DropRole(t)
  BY <1>1, <1>7, DropRoleKeeps, MakesNothing DEF DropRole, cluster, keycloak, At, Runs
<1>8. CASE DropClient(t)
  <2>1. /\ UNCHANGED <<spaces, databases, roles>> /\ clients' \subseteq clients
        /\ run[t].pc # "idle" /\ Removed(t)
    BY <1>8 DEF DropClient, cluster, postgres, keycloak, At
  <2>2. CASE BecomesRun(t, Idle)
    BY <1>1, <2>1, <2>2, MakesNothing
  <2>3. CASE BecomesRun(t, [run[t] EXCEPT !.at = None, !.pc = "pick"])
    BY <1>1, <2>1, <2>3, MakesNothing DEF Runs
  <2> QED
    BY <2>1, <2>2, <2>3, RemovedRun
<1>9. CASE CreateRole(t)
  BY <1>1, <1>9, CreateRoleKeeps, LeavesAlone
     DEF CreateRole, cluster, keycloak, At, Runs, InHand, Raising, Raises, Exists
<1>10. CASE CreateDatabase(t)
  BY <1>1, <1>10, CreateDatabaseKeeps, LeavesAlone
     DEF CreateDatabase, cluster, keycloak, At, Runs, InHand, Raising, Raises, Exists
<1>11. CASE CreateClient(t)
  <2>1. PICK value : BecomesRun(t, [run[t] EXCEPT !.key = value, !.pc = "space"])
    BY <1>11, CreateClientKeeps
  <2> QED
    BY <1>1, <1>11, <2>1, LeavesAlone
       DEF CreateClient, cluster, postgres, At, Runs, InHand, Raising, Raises, Exists
<1>12. CASE CreateSpace(t)
  BY <1>1, <1>12, CreateSpaceKeeps, LeavesAlone, Parts
     DEF CreateSpace, postgres, keycloak, At, Runs, InHand, Raising, Raises, Exists, ClusterOK
<1>13. CASE WriteSecret(t)
  BY <1>1, <1>13, WriteSecretKeeps, MakesNothing DEF WriteSecret, postgres, keycloak, At, Runs
<1>14. CASE Apply(t)
  <2>1. PICK step : BecomesRun(t, [run[t] EXCEPT !.pc = step])
    BY <1>14, ApplyKeeps
  <2> QED
    BY <1>1, <1>14, <2>1, LeavesAlone, Parts
       DEF Apply, postgres, keycloak, At, Runs, InHand, Raising, Raises, Exists, ClusterOK
<1>15. CASE Restart(t)
  BY <1>1, <1>15, RestartKeeps, MakesNothing DEF Restart, postgres, keycloak, At, Runs
<1>16. CASE Finish(t)
  BY <1>1, <1>16, FinishKeeps, MakesNothing DEF Finish, cluster, postgres, keycloak, At
<1>17. CASE Delete(t)
  <2>1. PICK step : BecomesRun(t, [run[t] EXCEPT !.pc = step])
    BY <1>17, DeleteKeeps
  <2> QED
    BY <1>1, <1>17, <2>1, LeavesAlone, Parts
       DEF Delete, postgres, keycloak, At, Runs, InHand, Exists, ClusterOK
<1>18. CASE Gone(t)
  BY <1>1, <1>18, GoneKeeps, MakesNothing DEF Gone, cluster, postgres, keycloak, At, Runs
<1>19. CASE Fails(t)
  BY <1>1, <1>19, FailsKeeps, MakesNothing DEF Fails, cluster, postgres, keycloak, At
<1> QED
  BY <1>2, <1>3, <1>4, <1>5, <1>6, <1>7, <1>8, <1>9, <1>10, <1>11, <1>12, <1>13, <1>14, <1>15,
     <1>16, <1>17, <1>18, <1>19 DEF Step

(***************************************************************************)
(* The runs watched.  The cap first: other previews only go.               *)
(***************************************************************************)
LEMMA RoomStays ==
    ASSUME NEW s, Room(s), \A q \in Slugs \ {s} : ~Exists(q) => ~Exists(q)'
    PROVE  Room(s)'
<1> DEFINE others == {q \in Slugs \ {s} : Exists(q)}
           after == {q \in Slugs \ {s} : Exists(q)'}
<1>1. after \subseteq others /\ IsFiniteSet(others)
  BY FS_Subset
<1>2. Cardinality(after) <= Cardinality(others) /\ Cardinality(after) \in Nat /\ Cardinality(others) \in Nat
  BY <1>1, FS_Subset, FS_CardinalityType
<1>3. Cardinality(others) < MAX_PREVIEWS
  BY DEF Room
<1>4. Cardinality(after) < MAX_PREVIEWS
  BY <1>2, <1>3
<1> QED
  BY <1>4 DEF Room, Exists

LEMMA RoomForOne ==
    ASSUME NEW s, Room(s), \A q \in Slugs \ {s} : ~Exists(q) => ~Exists(q)'
    PROVE  Cardinality({q \in Slugs : Exists(q)'}) <= MAX_PREVIEWS
<1> DEFINE others == {q \in Slugs \ {s} : Exists(q)}
           after == {q \in Slugs : Exists(q)'}
<1>1. after \subseteq others \cup {s} /\ IsFiniteSet(others) /\ s \notin others
  BY FS_Subset
<1>2. IsFiniteSet(others \cup {s}) /\ Cardinality(others \cup {s}) = Cardinality(others) + 1
  BY <1>1, FS_AddElement
<1>3. Cardinality(after) <= Cardinality(others \cup {s}) /\ Cardinality(after) \in Nat
  BY <1>1, <1>2, FS_Subset, FS_CardinalityType
<1>4. Cardinality(others) < MAX_PREVIEWS /\ Cardinality(others) \in Nat
  BY <1>1, FS_CardinalityType DEF Room
<1> QED
  BY <1>2, <1>3, <1>4

(***************************************************************************)
(* Whoever is alone is the only one with a run.                            *)
(***************************************************************************)
LEMMA NobodyElse ==
    ASSUME SeenOK, AloneIsAlone, NEW t \in alone, NEW u \in Terminals, run[u].pc # "idle"
    PROVE  u = t
BY DEF AloneIsAlone, Busy, At

LEMMA SeenStaysOK ==
    ASSUME SeenOK, PostgresOK, [NextRuns]_<<vars, seen>>
    PROVE  SeenOK'
<1>1. CASE SeeWorld
  BY <1>1 DEF SeeWorld, SeenOK, seen
<1>2. ASSUME NEW t \in Terminals, SeeStep(t)
      PROVE  SeenOK'
  <2>1. alone' \subseteq Terminals /\ misled' \subseteq Terminals
    BY <1>2 DEF SeeStep, SeenOK
  <2>2. stale' \in [Terminals -> SUBSET Slugs]
    BY <1>2 DEF SeeStep, SeenOK, PostgresOK
  <2> QED
    BY <2>1, <2>2 DEF SeenOK
<1>3. ASSUME NEW t \in Terminals, NEW order \in Orders, SeeBegin(t, order[1], order[2])
      PROVE  SeenOK'
  BY <1>3 DEF SeeBegin, SeenOK
<1>4. CASE UNCHANGED <<vars, seen>>
  BY <1>4 DEF SeenOK, seen
<1> QED
  BY <1>1, <1>2, <1>3, <1>4 DEF NextRuns

LEMMA AloneStaysAlone ==
    ASSUME IInv, SeenOK, AloneIsAlone, [NextRuns]_<<vars, seen>>
    PROVE  AloneIsAlone'
<1>1. CASE SeeWorld
  BY <1>1 DEF SeeWorld, World, ReapList, SpaceGone, PodStarts, PodDies, ReapDelete,
              AloneIsAlone, Busy, At, seen
<1>2. ASSUME NEW t \in Terminals, SeeStep(t)
      PROVE  AloneIsAlone'
  <2>1. Touches(t)
    BY <1>2, StepTouches DEF SeeStep
  <2>2. ASSUME NEW u \in Terminals, u \in alone'
        PROVE  Busy' = {u}
    <3>1. u \in alone /\ u = t /\ Busy = {u} /\ run'[t].pc # "idle"
      BY <1>2, <2>1, <2>2, NobodyElse DEF SeeStep, GoesOn, Touches, AloneIsAlone
    <3> QED
      BY <2>1, <3>1 DEF Busy, At, Touches
  <2> QED
    BY <2>2, SeenStaysOK, Parts DEF AloneIsAlone, SeenOK
<1>3. ASSUME NEW t \in Terminals, NEW order \in Orders, SeeBegin(t, order[1], order[2])
      PROVE  AloneIsAlone'
  <2>1. PICK r : BecomesRun(t, r) /\ r.pc \in {"check", "delete", "list"}
    BY <1>3, BeginKeeps DEF SeeBegin
  <2>2. CASE Busy = {}
    <3>1. alone' = {t}
      BY <1>3, <2>2 DEF SeeBegin
    <3>2. Busy' = {t}
      BY <2>1, <2>2 DEF Busy, At, BecomesRun
    <3> QED
      BY <3>1, <3>2 DEF AloneIsAlone
  <2>3. CASE Busy # {}
    BY <1>3, <2>3 DEF SeeBegin, AloneIsAlone
  <2> QED
    BY <2>2, <2>3
<1>4. CASE UNCHANGED <<vars, seen>>
  BY <1>4 DEF AloneIsAlone, Busy, At, seen, vars
<1> QED
  BY <1>1, <1>2, <1>3, <1>4 DEF NextRuns

(***************************************************************************)
(* Room for one more.                                                      *)
(***************************************************************************)
LEMMA WorldTakes ==
    ASSUME IInv, World
    PROVE  UNCHANGED <<run, postgres, keycloak>> /\ \A s \in Slugs : ~Exists(s) => ~Exists(s)'
<1>1. UNCHANGED <<run, postgres, keycloak>>
  BY DEF World, ReapList, SpaceGone, PodStarts, PodDies, ReapDelete
<1>2. spaces \in [Slugs -> {"none", "live", "ending"}]
  BY Parts DEF ClusterOK
<1>3. CASE ReapList
  BY <1>3 DEF ReapList, cluster, Exists
<1>4. ASSUME NEW s \in Slugs, SpaceGone(s) \/ ReapDelete(s)
      PROVE  \A q \in Slugs : ~Exists(q) => ~Exists(q)'
  BY <1>2, <1>4 DEF SpaceGone, ReapDelete, Exists
<1>5. ASSUME NEW s \in Slugs, PodStarts(s) \/ PodDies(s)
      PROVE  \A q \in Slugs : ~Exists(q) => ~Exists(q)'
  BY <1>5 DEF PodStarts, PodDies, Exists
<1> QED
  BY <1>1, <1>3, <1>4, <1>5 DEF World

LEMMA FromCheck ==
    ASSUME NEW t \in Terminals, Step(t), run[t].pc = "check"
    PROVE  Check(t) \/ Fails(t)
BY DEF Step, At, List, Pick, Collected, DropDatabase, DropRole, DropClient, CreateRole,
       CreateDatabase, CreateClient, CreateSpace, WriteSecret, Apply, Restart, Finish, Delete, Gone

LEMMA RoomIsKept ==
    ASSUME IInv, SeenOK, AloneIsAlone, HasRoom, [NextRuns]_<<vars, seen>>
    PROVE  HasRoom'
<1>1. CASE SeeWorld
  <2>1. /\ UNCHANGED <<run, alone>>
        /\ \A s \in Slugs : ~Exists(s) => ~Exists(s)'
    BY <1>1, WorldTakes DEF SeeWorld, seen
  <2>2. ASSUME NEW u \in alone, run[u].command = "up", run[u].pc # "check"
        PROVE  Room(run[u].slug)'
    BY <2>1, <2>2, RoomStays DEF HasRoom
  <2> QED
    BY <2>1, <2>2 DEF HasRoom
<1>2. ASSUME NEW t \in Terminals, SeeStep(t)
      PROVE  HasRoom'
  <2>1. Touches(t)
    BY <1>2, StepTouches DEF SeeStep
  <2>2. ASSUME NEW u \in Terminals, u \in alone', run'[u].command = "up", run'[u].pc # "check"
        PROVE  Room(run[u].slug)'
    <3>1. u \in alone /\ u = t /\ run'[t].pc # "idle"
      BY <1>2, <2>1, <2>2, NobodyElse DEF SeeStep, GoesOn, Touches
    <3>2. run[t].command = "up" /\ run'[t].slug = run[t].slug
      BY <2>1, <2>2, <3>1 DEF Touches
    <3>3. PICK s : s = run[t].slug
      OBVIOUS
    <3>4. Room(s)
      <4>1. CASE run[t].pc = "check"
        <5>1. CASE Check(t)
          <6>1. run'[t] # Idle
            BY <3>1 DEF Idle
          <6>2. Room(run[t].slug)
            BY <5>1, <6>1, CheckKeeps DEF BecomesRun
          <6> QED
            BY <3>3, <6>2 DEF Room
        <5>2. CASE Fails(t)
          BY <3>1, <5>2, FailsKeeps DEF BecomesRun, Idle
        <5> QED
          BY <1>2, <4>1, <5>1, <5>2, FromCheck DEF SeeStep
      <4>2. CASE run[t].pc # "check"
        BY <3>1, <3>2, <3>3, <4>2 DEF HasRoom
      <4> QED
        BY <4>1, <4>2
    <3>5. \A q \in Slugs \ {s} : ~Exists(q) => ~Exists(q)'
      BY <2>1, <3>3 DEF Touches, Raises
    <3>6. Room(s)'
      BY <3>4, <3>5, RoomStays
    <3> QED
      BY <3>1, <3>2, <3>3, <3>6
  <2>3. SeenOK'
    BY SeenStaysOK, Parts
  <2> QED
    BY <2>2, <2>3 DEF HasRoom, SeenOK
<1>3. ASSUME NEW t \in Terminals, NEW order \in Orders, SeeBegin(t, order[1], order[2])
      PROVE  HasRoom'
  <2>1. PICK r : BecomesRun(t, r) /\ (r.command = "up" => r.pc = "check")
    BY <1>3, BeginKeeps DEF SeeBegin
  <2>2. alone' \subseteq {t}
    BY <1>3 DEF SeeBegin
  <2> QED
    BY <2>1, <2>2 DEF HasRoom, BecomesRun
<1>4. CASE UNCHANGED <<vars, seen>>
  BY <1>4 DEF HasRoom, Room, Exists, seen, vars, cluster
<1> QED
  BY <1>1, <1>2, <1>3, <1>4 DEF NextRuns

LEMMA CapStep ==
    ASSUME IInv, SeenOK, AloneIsAlone, HasRoom, [NextRuns]_<<vars, seen>>,
           NEW t \in alone, NEW s \in Slugs, spaces[s] = "none", spaces'[s] = "live"
    PROVE  Cardinality({q \in Slugs : spaces'[q] # "none"}) <= MAX_PREVIEWS
<1>1. ~Exists(s) /\ Exists(s)'
  BY DEF Exists
<1>2. ~SeeWorld
  BY <1>1, WorldTakes DEF SeeWorld
<1>3. ~ UNCHANGED <<vars, seen>>
  BY DEF vars, cluster
<1>4. ~ \E u \in Terminals, order \in Orders : SeeBegin(u, order[1], order[2])
  BY DEF SeeBegin, Begin, cluster
<1>5. PICK u \in Terminals : SeeStep(u)
  BY <1>2, <1>3, <1>4 DEF NextRuns
<1>6. Touches(u)
  BY <1>5, StepTouches DEF SeeStep
<1>7. u = t /\ run[t].command = "up" /\ run[t].slug = s
  BY <1>1, <1>6, NobodyElse DEF Touches, Raises
<1>8. run[t].pc # "check"
  <2>1. ASSUME run[t].pc = "check"
        PROVE  FALSE
    <3>1. Check(t) \/ Fails(t)
      BY <1>5, <1>7, <2>1, FromCheck DEF SeeStep
    <3>2. UNCHANGED spaces
      BY <3>1 DEF Check, Fails, cluster
    <3> QED
      BY <3>2
  <2> QED
    BY <2>1
<1>9. Room(s)
  BY <1>7, <1>8 DEF HasRoom
<1>10. \A q \in Slugs \ {s} : ~Exists(q) => ~Exists(q)'
  BY <1>6, <1>7 DEF Touches, Raises
<1> QED
  BY <1>9, <1>10, RoomForOne DEF Exists

(***************************************************************************)
(* What a gc has to remove.                                                *)
(***************************************************************************)
LEMMA FromList ==
    ASSUME NEW t \in Terminals, Step(t), run[t].pc = "list"
    PROVE  List(t) \/ Fails(t)
BY DEF Step, At, Check, Pick, Collected, DropDatabase, DropRole, DropClient, CreateRole,
       CreateDatabase, CreateClient, CreateSpace, WriteSecret, Apply, Restart, Finish, Delete, Gone

LEMMA FromRemoving ==
    ASSUME NEW t \in Terminals, Step(t), run[t].pc \in {"pick"} \cup Dropping
    PROVE  Pick(t) \/ Collected(t) \/ DropDatabase(t) \/ DropRole(t) \/ DropClient(t) \/ Fails(t)
BY DEF Dropping, Step, At, Check, List, CreateRole, CreateDatabase, CreateClient, CreateSpace,
       WriteSecret, Apply, Restart, Finish, Delete, Gone

\* What another terminal does leaves a gc's work as far as it was.
LEMMA OthersLeaveIt ==
    ASSUME IInv, NEW t \in Terminals, NEW u \in Terminals \ {t}, NEW s \in Slugs,
           Touches(u), Removes(t, s), t \in misled <=> t \in misled'
    PROVE  Removes(t, s)'
<1>1. ~Raises(u, s) /\ run'[t] = run[t]
  BY DEF Removes, Raises, Touches
<1>2. /\ s \notin databases => s \notin databases'
      /\ s \notin roles => s \notin roles'
      /\ s \notin clients => s \notin clients'
      /\ ~Exists(s)'
  BY <1>1 DEF Touches, Removes
<1>3. \A v \in Terminals \ {t} : run'[v].command = "up" => run'[v].slug # s
  BY DEF Touches, Removes
<1>4. t \notin misled' => Undone(t, s)'
  BY <1>1, <1>2 DEF Removes, Undone
<1> QED
  BY <1>1, <1>2, <1>3, <1>4 DEF Removes

\* A gc that goes on has the preview behind it or still to come.
LEMMA OwnStepLeavesIt ==
    ASSUME IInv, NEW t \in Terminals, NEW s \in Slugs, Step(t), Removes(t, s),
           run'[t].pc \notin {"role", "idle"},
           t \notin misled' => t \notin misled /\ trouble' = trouble
    PROVE  Removes(t, s)'
<1>1. run[t] \in Runs /\ Touches(t) /\ PostgresOK
  BY RunIs, StepTouches, Parts
<1>2. \A v \in Terminals \ {t} : run'[v].command = "up" => run'[v].slug # s
  BY <1>1 DEF Touches, Removes
<1>3. SUFFICES /\ run'[t].pc \in {"pick"} \cup Dropping
               /\ UNCHANGED spaces
               /\ t \notin misled' => Undone(t, s)'
  BY <1>2, <1>3 DEF Removes, Exists
<1>4. CASE Pick(t)
  <2>1. PICK q \in run[t].todo, found \in BOOLEAN :
           /\ found = Exists(q) \/ trouble' # trouble
           /\ found => Exists(q)
           /\ BecomesRun(t, [run[t] EXCEPT !.todo = @ \ {q}, !.at = IF found THEN @ ELSE q,
                                           !.pc = IF found THEN @ ELSE "drop_database"])
    BY <1>4, PickKeeps
  <2>2. UNCHANGED <<spaces, databases, roles, clients>> /\ run[t].pc = "pick"
    BY <1>4 DEF Pick, cluster, postgres, keycloak, At
  <2>3. CASE found
    <3>1. q # s
      BY <2>1, <2>3 DEF Removes
    <3>2. run'[t].pc = "pick" /\ run'[t].todo = run[t].todo \ {q}
      BY <1>1, <2>1, <2>2, <2>3 DEF BecomesRun, Runs
    <3> QED
      BY <2>2, <3>1, <3>2 DEF Removes, Undone
  <2>4. CASE ~found
    <3>1. run'[t].pc = "drop_database" /\ run'[t].todo = run[t].todo \ {q} /\ run'[t].at = q
      BY <1>1, <2>1, <2>4 DEF BecomesRun, Runs
    <3> QED
      BY <2>2, <3>1 DEF Removes, Undone, Dropping
  <2> QED
    BY <2>3, <2>4
<1>5. CASE Collected(t)
  BY <1>5, CollectedKeeps DEF BecomesRun, Idle
<1>6. CASE DropDatabase(t)
  <2>1. BecomesRun(t, [run[t] EXCEPT !.pc = "drop_role"])
    BY <1>6, DropDatabaseKeeps
  <2>2. /\ run'[t].pc = "drop_role" /\ run'[t].todo = run[t].todo /\ run'[t].at = run[t].at
    BY <1>1, <2>1 DEF BecomesRun, Runs
  <2> QED
    BY <1>6, <2>2 DEF DropDatabase, At, Removes, Undone, Dropping, cluster, keycloak
<1>7. CASE DropRole(t)
  <2>1. BecomesRun(t, [run[t] EXCEPT !.pc = "drop_client"])
    BY <1>7, DropRoleKeeps
  <2>2. /\ run'[t].pc = "drop_client" /\ run'[t].todo = run[t].todo /\ run'[t].at = run[t].at
    BY <1>1, <2>1 DEF BecomesRun, Runs
  <2> QED
    BY <1>7, <2>2 DEF DropRole, At, Removes, Undone, Dropping, cluster, keycloak
<1>8. CASE DropClient(t)
  <2>1. Removed(t) /\ UNCHANGED <<spaces, databases, roles>> /\ clients' \subseteq clients
        /\ run[t].pc = "drop_client"
    BY <1>8 DEF DropClient, At, cluster, postgres, keycloak
  <2>2. ~BecomesRun(t, Idle)
    BY DEF BecomesRun, Idle
  <2>3. BecomesRun(t, [run[t] EXCEPT !.at = None, !.pc = "pick"])
    BY <2>1, <2>2, RemovedRun
  <2>4. run'[t].pc = "pick" /\ run'[t].todo = run[t].todo
    BY <1>1, <2>3 DEF BecomesRun, Runs
  <2>5. run[t].at \notin clients' \/ trouble' # trouble
    BY <1>8, DropClientKeeps
  <2> QED
    BY <2>1, <2>4, <2>5 DEF Removes, Undone
<1>9. CASE Fails(t)
  BY <1>9, FailsKeeps DEF BecomesRun, Idle
<1> QED
  BY <1>4, <1>5, <1>6, <1>7, <1>8, <1>9, FromRemoving DEF Removes

LEMMA RemovingIsKept ==
    ASSUME IInv, SeenOK, Removing, [NextRuns]_<<vars, seen>>
    PROVE  Removing'
<1>1. PostgresOK /\ SeenOK'
  BY Parts, SeenStaysOK
<1>2. SUFFICES ASSUME NEW t \in Terminals, NEW s \in Slugs, s \in stale'[t]
               PROVE  Removes(t, s)'
  BY <1>1, <1>2 DEF Removing, SeenOK
<1>3. CASE SeeWorld
  <2>1. UNCHANGED <<run, postgres, keycloak, seen>> /\ (~Exists(s) => ~Exists(s)')
    BY <1>3, WorldTakes DEF SeeWorld
  <2>2. Removes(t, s)
    BY <1>2, <2>1 DEF Removing, seen
  <2> QED
    BY <2>1, <2>2 DEF Removes, Undone, seen, postgres, keycloak
<1>4. ASSUME NEW u \in Terminals, SeeStep(u)
      PROVE  Removes(t, s)'
  <2>1. Step(u) /\ Touches(u)
    BY <1>4, StepTouches DEF SeeStep
  <2>2. CASE u # t
    <3>1. stale'[t] = stale[t] /\ (t \in misled <=> t \in misled')
      BY <1>4, <2>2 DEF SeeStep, SeenOK
    <3>2. Removes(t, s)
      BY <1>2, <3>1 DEF Removing
    <3> QED
      BY <2>1, <2>2, <3>1, <3>2, OthersLeaveIt
  <2>3. CASE u = t
    <3>1. run'[t].pc \notin {"role", "idle"}
      BY <1>2, <1>4, <2>3 DEF SeeStep, SeenOK
    <3>2. t \notin misled' => t \notin misled /\ trouble' = trouble
      BY <1>4, <2>3, <3>1 DEF SeeStep, GoesOn
    <3>3. CASE run[t].pc = "list"
      <4>1. /\ s \in roles /\ ~Exists(s)
            /\ \A v \in Terminals \ {t} : run[v].command = "up" => run[v].slug # s
        BY <1>2, <1>4, <2>3, <3>1, <3>3 DEF SeeStep, SeenOK, At
      <4>2. ~Fails(t)
        BY <3>1, FailsKeeps DEF BecomesRun, Idle
      <4>3. List(t)
        BY <2>1, <2>3, <3>3, <4>2, FromList
      <4>4. PICK all \in {roles, {}} :
              /\ all = roles \/ trouble' # trouble
              /\ BecomesRun(t, [run[t] EXCEPT !.todo = all, !.pc = "pick"])
        BY <4>3, ListKeeps
      <4>5. run'[t].pc = "pick" /\ run'[t].todo = all
        BY <4>4, RunIs DEF BecomesRun, Runs
      <4>6. UNCHANGED spaces
        BY <4>3 DEF List, cluster
      <4> QED
        BY <2>1, <2>3, <3>2, <4>1, <4>4, <4>5, <4>6 DEF Removes, Undone, Exists, Touches
    <3>4. CASE run[t].pc # "list"
      <4>1. s \in stale[t]
        BY <1>2, <1>4, <2>3, <3>1, <3>4 DEF SeeStep, SeenOK, At
      <4>2. Removes(t, s)
        BY <4>1 DEF Removing
      <4> QED
        BY <2>1, <2>3, <3>1, <3>2, <4>2, OwnStepLeavesIt
    <3> QED
      BY <3>3, <3>4
  <2> QED
    BY <2>2, <2>3
<1>5. ASSUME NEW u \in Terminals, NEW order \in Orders, SeeBegin(u, order[1], order[2])
      PROVE  Removes(t, s)'
  <2>1. PICK r : BecomesRun(u, r) /\ r.command = order[1] /\ r.slug = order[2]
    BY <1>5, BeginKeeps DEF SeeBegin
  <2>2. s \in stale[t] /\ (order[1] = "up" => s # order[2]) /\ UNCHANGED misled
    BY <1>2, <1>5 DEF SeeBegin, SeenOK
  <2>3. Removes(t, s)
    BY <2>2 DEF Removing
  <2>4. u # t
    BY <1>5, <2>3 DEF SeeBegin, Begin, At, Removes, Dropping
  <2>5. UNCHANGED <<spaces, databases, roles, clients>>
    BY <1>5 DEF SeeBegin, Begin, cluster, postgres, keycloak
  <2>6. run'[t] = run[t] /\ \A v \in Terminals \ {t} : run'[v].command = "up" => run'[v].slug # s
    BY <2>1, <2>2, <2>3, <2>4 DEF BecomesRun, Removes
  <2> QED
    BY <2>2, <2>3, <2>5, <2>6 DEF Removes, Undone, Exists
<1>6. CASE UNCHANGED <<vars, seen>>
  BY <1>2, <1>6 DEF Removing, Removes, Undone, Exists, seen, vars, cluster, postgres, keycloak
<1> QED
  BY <1>3, <1>4, <1>5, <1>6 DEF NextRuns

LEMMA CollectedStep ==
    ASSUME IInv, SeenOK, Removing, NEW t \in Terminals, Collected(t), t \notin misled
    PROVE  stale[t] \cap (databases \cup roles \cup clients) = {}
<1>1. run[t].pc = "pick" /\ run[t].todo = {}
  BY DEF Collected, At
<1>2. ASSUME NEW s \in stale[t]
      PROVE  s \notin roles \cup clients
  BY <1>1 DEF Removing, Removes, Undone
<1>3. databases \subseteq roles
  BY Parts DEF PostgresOK
<1> QED
  BY <1>2, <1>3

(***************************************************************************)
(* What an `up` that nobody overlapped has made.                           *)
(***************************************************************************)
\* The cluster by itself: a Secret goes with its namespace, a pod starts with
\* the Secret that is there.
LEMMA WorldTurns ==
    ASSUME IInv, World, NEW s \in Slugs
    PROVE  /\ secret'[s] \in {None, secret[s]} /\ pods'[s] \in {None, pods[s], secret[s]}
           /\ s \notin deployed => s \notin deployed'
<1>1. ClusterOK
  BY Parts
<1>2. CASE ReapList
  BY <1>2 DEF ReapList, cluster
<1>3. ASSUME NEW q \in Slugs, SpaceGone(q)
      PROVE  /\ secret'[s] \in {None, secret[s]} /\ pods'[s] \in {None, pods[s], secret[s]}
             /\ s \notin deployed => s \notin deployed'
  BY <1>1, <1>3 DEF SpaceGone, ClusterOK
<1>4. ASSUME NEW q \in Slugs, PodStarts(q) \/ PodDies(q) \/ ReapDelete(q)
      PROVE  /\ secret'[s] \in {None, secret[s]} /\ pods'[s] \in {None, pods[s], secret[s]}
             /\ s \notin deployed => s \notin deployed'
  BY <1>1, <1>4 DEF PodStarts, PodDies, ReapDelete, ClusterOK
<1> QED
  BY <1>2, <1>3, <1>4 DEF World

Making == {"role", "database", "client", "space", "secret", "apply", "restart", "wait"}

LEMMA NothingRaised ==
    ASSUME NEW t, run[t].pc \notin Making
    PROVE  Raised(t)
BY DEF Raised, Making

LEMMA WorldLeavesRaised ==
    ASSUME IInv, World, NEW t \in Terminals, Raised(t)
    PROVE  Raised(t)'
<1>1. UNCHANGED <<run, postgres, keycloak>>
  BY WorldTakes
<1>2. CASE run[t].pc \notin Making
  BY <1>1, <1>2 DEF Raised, Making
<1>3. CASE run[t].pc \in Making
  <2>1. PICK s : s = run[t].slug
    OBVIOUS
  <2>2. s \in Slugs
    BY <1>3, <2>1, RunIs DEF InHand, Raising, Making, Runs
  <2>3. /\ secret'[s] \in {None, secret[s]} /\ pods'[s] \in {None, pods[s], secret[s]}
        /\ s \notin deployed => s \notin deployed'
    BY <2>2, WorldTurns
  <2>4. run'[t] = run[t] /\ run'[t].slug = s /\ databases' = databases /\ clients' = clients
        /\ password' = password /\ key' = key
    BY <1>1, <2>1 DEF postgres, keycloak
  <2> QED
    BY <2>1, <2>3, <2>4 DEF Raised, InForce
<1> QED
  BY <1>2, <1>3

\* An `up` goes on with nothing failing: what it has made stays made.
LEMMA UpRaises ==
    ASSUME IInv, NEW t \in Terminals, Step(t), Raised(t),
           run'[t].pc # "idle", trouble' = trouble
    PROVE  Raised(t)'
<1>1. run[t] \in Runs /\ InHand(run[t]) /\ ClusterOK /\ KeycloakOK /\ PostgresOK
  BY RunIs, Parts
<1>2. CASE run'[t].pc \notin Making
  BY <1>2 DEF Raised, Making
<1>3. CASE run'[t].pc \in Making
  <2>1. PICK s : s = run[t].slug
    OBVIOUS
  <2>2. ~BecomesRun(t, Idle)
    BY <1>3 DEF BecomesRun, Idle, Making
  <2>3. CASE Collected(t)
    <3>1. PICK r \in Runs, found \in BOOLEAN :
             /\ BecomesRun(t, r)
             /\ r.pc = "role" /\ r.slug = run[t].slug /\ r.existed = found
             /\ found = Exists(r.slug) \/ trouble' # trouble
      BY <2>2, <2>3, CollectedKeeps
    <3>2. r.slug = s /\ found = Exists(s)
      BY <2>1, <3>1
    <3>3. ~found => s \notin deployed
      BY <1>1, <3>2 DEF ClusterOK
    <3>4. deployed' = deployed
      BY <2>3 DEF Collected, cluster
    <3> QED
      BY <3>1, <3>2, <3>3, <3>4 DEF Raised, BecomesRun
  <2>4. CASE CreateRole(t)
    <3>1. /\ run'[t].pc = "database" /\ run'[t].slug = s /\ run'[t].existed = run[t].existed
          /\ run'[t].password = run[t].password
      <4>1. BecomesRun(t, [run[t] EXCEPT !.pc = "database"])
        BY <2>4, CreateRoleKeeps
      <4> QED
        BY <1>1, <2>1, <4>1 DEF BecomesRun, Runs
    <3>2. s \in Slugs
      BY <1>1, <2>1, <2>4 DEF CreateRole, At, InHand, Raising
    <3> QED
      BY <1>1, <2>1, <2>4, <3>1, <3>2 DEF CreateRole, At, Raised, cluster, PostgresOK
  <2>5. CASE CreateDatabase(t)
    <3>1. /\ run'[t].pc = "client" /\ run'[t].slug = s /\ run'[t].existed = run[t].existed
          /\ run'[t].password = run[t].password
      <4>1. BecomesRun(t, [run[t] EXCEPT !.pc = "client"])
        BY <2>5, CreateDatabaseKeeps
      <4> QED
        BY <1>1, <2>1, <4>1 DEF BecomesRun, Runs
    <3> QED
      BY <2>1, <2>5, <3>1 DEF CreateDatabase, At, Raised, cluster
  <2>6. CASE CreateClient(t)
    <3>1. PICK value : value = key'[s]
      OBVIOUS
    <3>2. /\ run'[t].pc = "space" /\ run'[t].slug = s /\ run'[t].existed = run[t].existed
          /\ run'[t].password = run[t].password /\ run'[t].key = value
      <4>1. BecomesRun(t, [run[t] EXCEPT !.key = value, !.pc = "space"])
        BY <2>1, <2>6, <3>1, CreateClientKeeps
      <4> QED
        BY <1>1, <2>1, <4>1 DEF BecomesRun, Runs
    <3>3. /\ password[s] = run[t].password /\ s \in databases
          /\ ~run[t].existed => s \notin deployed
      BY <2>1, <2>6 DEF CreateClient, At, Raised
    <3>4. UNCHANGED <<databases, password, deployed>>
      BY <2>6 DEF CreateClient, cluster, postgres
    <3> QED
      BY <3>1, <3>2, <3>3, <3>4 DEF Raised
  <2>7. CASE CreateSpace(t)
    <3>1. /\ run'[t].pc = "secret" /\ run'[t].slug = s /\ run'[t].existed = run[t].existed
          /\ run'[t].password = run[t].password /\ run'[t].key = run[t].key
      <4>1. BecomesRun(t, [run[t] EXCEPT !.pc = "secret"])
        BY <2>7, CreateSpaceKeeps
      <4> QED
        BY <1>1, <2>1, <4>1 DEF BecomesRun, Runs
    <3>2. /\ password[s] = run[t].password /\ key[s] = run[t].key /\ s \in databases
          /\ ~run[t].existed => s \notin deployed
      BY <2>1, <2>7 DEF CreateSpace, At, Raised
    <3>3. UNCHANGED <<databases, password, key, deployed>>
      BY <2>7 DEF CreateSpace, postgres, keycloak
    <3> QED
      BY <3>1, <3>2, <3>3 DEF Raised
  <2>8. CASE WriteSecret(t)
    <3>1. run'[t].pc = "apply" /\ run'[t].slug = s /\ run'[t].existed = run[t].existed
      <4>1. BecomesRun(t, [run[t] EXCEPT !.pc = "apply", !.password = 0, !.key = 0])
        BY <2>8, WriteSecretKeeps
      <4> QED
        BY <1>1, <2>1, <4>1 DEF BecomesRun, Runs
    <3>2. s \in Slugs /\ run[t].key # 0
      BY <1>1, <2>1, <2>8 DEF WriteSecret, At, InHand, Raising
    <3>3. /\ password[s] = run[t].password /\ key[s] = run[t].key /\ s \in databases
          /\ ~run[t].existed => s \notin deployed
      BY <2>1, <2>8 DEF WriteSecret, At, Raised
    <3>4. s \in clients
      BY <1>1, <3>2, <3>3 DEF KeycloakOK
    <3>5. secret'[s] = [password |-> password[s], key |-> key[s]]
      BY <1>1, <2>1, <2>8, <3>2, <3>3 DEF WriteSecret, ClusterOK
    <3>6. UNCHANGED <<databases, password, key, clients, deployed>>
      BY <2>8 DEF WriteSecret, postgres, keycloak
    <3> QED
      BY <3>1, <3>3, <3>4, <3>5, <3>6 DEF Raised, InForce
  <2>9. CASE Apply(t)
    <3>1. PICK step : step = IF run[t].existed THEN "restart" ELSE "wait"
      OBVIOUS
    <3>2. run'[t].pc = step /\ run'[t].slug = s /\ run'[t].existed = run[t].existed
      <4>1. BecomesRun(t, [run[t] EXCEPT !.pc = step])
        BY <2>9, <3>1, ApplyKeeps
      <4> QED
        BY <1>1, <2>1, <4>1 DEF BecomesRun, Runs
    <3>3. /\ s \in databases /\ s \in clients /\ secret[s] \in {None, InForce(s)}
          /\ ~run[t].existed => s \notin deployed
      BY <2>1, <2>9 DEF Apply, At, Raised
    <3>4. s \in Slugs
      BY <1>1, <2>1, <2>9 DEF Apply, At, InHand, Raising
    <3>5. step \in {"restart", "wait"} /\ (step = "wait" => pods[s] = None)
      BY <1>1, <3>1, <3>3, <3>4 DEF ClusterOK, SpaceTakesAll
    <3>6. UNCHANGED <<databases, password, key, clients, secret, pods>>
      BY <2>9 DEF Apply, postgres, keycloak
    <3> QED
      BY <3>2, <3>3, <3>5, <3>6 DEF Raised, InForce
  <2>10. CASE Restart(t)
    <3>1. run'[t].pc = "wait" /\ run'[t].slug = s
      <4>1. BecomesRun(t, [run[t] EXCEPT !.existed = FALSE, !.pc = "wait"])
        BY <2>10, RestartKeeps
      <4> QED
        BY <1>1, <2>1, <4>1 DEF BecomesRun, Runs
    <3>2. s \in databases /\ s \in clients /\ secret[s] \in {None, InForce(s)}
      BY <2>1, <2>10 DEF Restart, At, Raised
    <3>3. s \in Slugs
      BY <1>1, <2>1, <2>10 DEF Restart, At, InHand, Raising
    <3>4. pods'[s] = None /\ UNCHANGED <<databases, password, key, clients, secret>>
      BY <1>1, <2>1, <2>10, <3>3 DEF Restart, ClusterOK, postgres, keycloak
    <3> QED
      BY <3>1, <3>2, <3>4 DEF Raised, InForce
  <2>11. CASE Check(t) \/ List(t) \/ Pick(t)
    <3>1. run'[t].pc \in {"list", "pick", "drop_database"}
      <4>1. CASE Check(t)
        <5>1. ~Ends(t)
          BY <2>2, EndsRun
        <5>2. Goes(t, "list")
          BY <4>1, <5>1 DEF Check
        <5> QED
          BY <5>2 DEF Goes, IInv, TypeOK
      <4>2. CASE List(t)
        <5>1. PICK all \in {roles, {}} : BecomesRun(t, [run[t] EXCEPT !.todo = all, !.pc = "pick"])
          BY <4>2, ListKeeps
        <5> QED
          BY <1>1, <5>1 DEF BecomesRun, Runs
      <4>3. CASE Pick(t)
        <5>1. run[t].pc = "pick"
          BY <4>3 DEF Pick, At
        <5>2. PICK q \in run[t].todo, found \in BOOLEAN :
                BecomesRun(t, [run[t] EXCEPT !.todo = @ \ {q}, !.at = IF found THEN @ ELSE q,
                                             !.pc = IF found THEN @ ELSE "drop_database"])
          BY <4>3, PickKeeps
        <5> QED
          BY <1>1, <5>1, <5>2 DEF BecomesRun, Runs
      <4> QED
        BY <2>11, <4>1, <4>2, <4>3
    <3> QED
      BY <1>3, <3>1 DEF Making
  <2>12. CASE DropDatabase(t) \/ DropRole(t) \/ Gone(t)
    <3>1. run'[t].pc \in {"drop_role", "drop_client", "drop_database"}
      <4>1. \E step \in {"drop_role", "drop_client", "drop_database"} :
              BecomesRun(t, [run[t] EXCEPT !.pc = step])
        BY <2>12, DropDatabaseKeeps, DropRoleKeeps, GoneKeeps
      <4> QED
        BY <1>1, <4>1 DEF BecomesRun, Runs
    <3> QED
      BY <1>3, <3>1 DEF Making
  <2>13. CASE DropClient(t)
    <3>1. BecomesRun(t, [run[t] EXCEPT !.at = None, !.pc = "pick"])
      BY <2>2, <2>13, RemovedRun DEF DropClient
    <3> QED
      BY <1>1, <1>3, <3>1 DEF BecomesRun, Runs, Making
  <2>14. CASE Delete(t)
    <3>1. PICK step : step = IF Exists(run[t].slug) THEN "gone" ELSE "drop_database"
      OBVIOUS
    <3>2. run'[t].pc = step
      <4>1. BecomesRun(t, [run[t] EXCEPT !.pc = step])
        BY <2>14, <3>1, DeleteKeeps
      <4> QED
        BY <1>1, <4>1 DEF BecomesRun, Runs
    <3> QED
      BY <1>3, <3>1, <3>2 DEF Making
  <2>15. CASE Finish(t) \/ Fails(t)
    BY <2>2, <2>15, FinishKeeps, FailsKeeps
  <2> QED
    BY <2>3, <2>4, <2>5, <2>6, <2>7, <2>8, <2>9, <2>10, <2>11, <2>12, <2>13, <2>14, <2>15 DEF Step
<1> QED
  BY <1>2, <1>3

LEMMA ServingIsKept ==
    ASSUME IInv, SeenOK, AloneIsAlone, Serving, [NextRuns]_<<vars, seen>>
    PROVE  Serving'
<1>1. SeenOK'
  BY Parts, SeenStaysOK
<1>2. SUFFICES ASSUME NEW t \in Terminals, t \in alone', t \notin misled'
               PROVE  Raised(t)'
  BY <1>1, <1>2 DEF Serving, SeenOK
<1>3. CASE SeeWorld
  <2>1. Raised(t)
    BY <1>2, <1>3 DEF SeeWorld, seen, Serving
  <2> QED
    BY <1>3, <2>1, WorldLeavesRaised DEF SeeWorld
<1>4. ASSUME NEW u \in Terminals, SeeStep(u)
      PROVE  Raised(t)'
  <2>1. Step(u) /\ Touches(u) /\ t \in alone
    BY <1>2, <1>4, StepTouches DEF SeeStep
  <2>2. u = t
    BY <2>1, NobodyElse DEF Touches
  <2>3. run'[t].pc # "idle" /\ trouble' = trouble /\ t \notin misled
    BY <1>2, <1>4, <2>2 DEF SeeStep, GoesOn
  <2>4. Raised(t)
    BY <2>1, <2>3 DEF Serving
  <2> QED
    BY <2>1, <2>2, <2>3, <2>4, UpRaises
<1>5. ASSUME NEW u \in Terminals, NEW order \in Orders, SeeBegin(u, order[1], order[2])
      PROVE  Raised(t)'
  <2>1. PICK r : BecomesRun(u, r) /\ r.pc \in {"check", "delete", "list"}
    BY <1>5, BeginKeeps DEF SeeBegin
  <2>2. u = t
    BY <1>2, <1>5 DEF SeeBegin
  <2>3. run'[t].pc \notin Making
    BY <2>1, <2>2 DEF BecomesRun, Making
  <2> QED
    BY <2>3 DEF Raised, Making
<1>6. CASE UNCHANGED <<vars, seen>>
  <2>1. Raised(t)
    BY <1>2, <1>6 DEF seen, Serving
  <2> QED
    BY <1>6, <2>1 DEF vars, cluster, postgres, keycloak, Raised, InForce
<1> QED
  BY <1>3, <1>4, <1>5, <1>6 DEF NextRuns

LEMMA ServingStep ==
    ASSUME IInv, SeenOK, Serving, NEW t \in Terminals, Finish(t), t \in alone \ misled, NEW s,
           s = run[t].slug
    PROVE  s \in databases /\ s \in clients /\ pods[s] = InForce(s)
<1>1. run[t].pc = "wait" /\ pods[s] # None /\ Raised(t)
  BY DEF Finish, At, Serving
<1> QED
  BY <1>1 DEF Raised

(***************************************************************************)
(* The invariants of the runs watched.                                     *)
(***************************************************************************)
LEMMA InitRunsInv == InitRuns => IInv /\ RunsInv
<1> SUFFICES ASSUME InitRuns
             PROVE  IInv /\ RunsInv
  OBVIOUS
<1>1. IInv
  BY InitIInv DEF InitRuns
<1>2. alone = {} /\ misled = {} /\ stale = [t \in Terminals |-> {}]
  BY DEF InitRuns
<1>3. SeenOK /\ AloneIsAlone /\ HasRoom /\ Removing /\ Serving
  BY <1>2 DEF SeenOK, AloneIsAlone, HasRoom, Removing, Serving
<1> QED
  BY <1>1, <1>3 DEF RunsInv

LEMMA NextRunsInv ==
    ASSUME IInv, RunsInv, [NextRuns]_<<vars, seen>>
    PROVE  IInv' /\ RunsInv'
<1>1. [Next]_vars
  BY DEF NextRuns, SeeWorld, SeeStep, SeeBegin, Next
<1>2. IInv'
  BY <1>1, NextIInv
<1>3. SeenOK' /\ AloneIsAlone' /\ HasRoom' /\ Removing' /\ Serving'
  BY Parts, SeenStaysOK, AloneStaysAlone, RoomIsKept, RemovingIsKept, ServingIsKept DEF RunsInv
<1> QED
  BY <1>2, <1>3 DEF RunsInv

LEMMA Invariance == SpecRuns => [](IInv /\ RunsInv)
<1>1. IInv /\ RunsInv /\ [NextRuns]_<<vars, seen>> => (IInv /\ RunsInv)'
  BY NextRunsInv
<1> QED
  BY <1>1, InitRunsInv, PTL DEF SpecRuns

(***************************************************************************)
(* Whatever fails and however the runs of preview.sh and of the reaper     *)
(* interleave, a database has its role, a role and a client have their     *)
(* password and secret, and only a namespace that is there holds the       *)
(* Portal's Deployment.                                                    *)
(***************************************************************************)
THEOREM TypeCorrect == Spec => []TypeOK
<1>1. IInv /\ [Next]_vars => IInv'
  BY NextIInv
<1>2. IInv => TypeOK
  BY DEF IInv
<1> QED
  BY <1>1, <1>2, InitIInv, PTL DEF Spec

(***************************************************************************)
(* The cap of cmd_up holds for developers who take turns: no step of a run *)
(* that nobody overlaps makes a namespace beyond PREVIEW_MAX, although the *)
(* count is taken many calls before the namespace is made.                 *)
(***************************************************************************)
THEOREM CapHolds == SpecRuns => CapHoldsInTurns
<1>1. IInv /\ RunsInv /\ [NextRuns]_<<vars, seen>> =>
        [\A t \in alone : \A s \in Slugs :
           (spaces[s] = "none" /\ spaces'[s] = "live") =>
               Cardinality({q \in Slugs : spaces'[q] # "none"}) <= MAX_PREVIEWS]_<<vars, seen>>
  BY CapStep DEF RunsInv
<1> QED
  BY <1>1, Invariance, PTL DEF SpecRuns, CapHoldsInTurns

(***************************************************************************)
(* A gc that ends, misled by no failed call, leaves no database, role or   *)
(* client of a preview whose namespace was gone when it listed the roles   *)
(* and that no `up` has worked on since, whatever else ran meanwhile.      *)
(***************************************************************************)
THEOREM CollectedIsGone == SpecRuns => CollectedMeansGone
<1>1. IInv /\ RunsInv /\ [NextRuns]_<<vars, seen>> =>
        [\A t \in Terminals : (Collected(t) /\ t \notin misled) =>
            stale[t] \cap (databases \cup roles \cup clients) = {}]_<<vars, seen>>
  BY CollectedStep DEF RunsInv
<1> QED
  BY <1>1, Invariance, PTL DEF SpecRuns, CollectedMeansGone

(***************************************************************************)
(* An `up` that ends, overlapped by nobody and misled by no failed call,   *)
(* leaves a pod that runs with the password Postgres has and the secret    *)
(* Keycloak has, whatever earlier runs left half done, whichever pods died *)
(* and whichever namespaces the reaper deleted.                            *)
(***************************************************************************)
THEOREM UpServes == SpecRuns => UpMeansServing
<1>1. IInv /\ RunsInv /\ [NextRuns]_<<vars, seen>> =>
        [\A t \in Terminals : Finish(t) =>
           LET s == run[t].slug
           IN t \in alone \ misled =>
                /\ s \in databases /\ s \in clients
                /\ pods[s] = InForce(s)]_<<vars, seen>>
  <2>1. ASSUME IInv, RunsInv, NEW t \in Terminals, Finish(t), t \in alone \ misled
        PROVE  LET s == run[t].slug
               IN s \in databases /\ s \in clients /\ pods[s] = InForce(s)
    <3>1. PICK s : s = run[t].slug
      OBVIOUS
    <3>2. s \in databases /\ s \in clients /\ pods[s] = InForce(s)
      BY <2>1, <3>1, ServingStep DEF RunsInv
    <3> QED
      BY <3>1, <3>2 DEF InForce
  <2> QED
    BY <2>1
<1> QED
  BY <1>1, Invariance, PTL DEF SpecRuns, UpMeansServing

=============================================================================
