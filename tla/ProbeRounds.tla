----------------------------- MODULE ProbeRounds -----------------------------
(***************************************************************************)
(* One target's rounds in the synthetic probe (components/probes/files/    *)
(* probe.py, Prober.round and Prober.run): the three fixed checks, the     *)
(* catalogue read that lists the public Endpoints, the refresh of their    *)
(* records, and the round-robin plan over the surface kinds.               *)
(*                                                                         *)
(* Endpoint slugs are numbers, so that sorted(known) is their order.  The  *)
(* clock counts request slots of 60/BUDGET seconds, what _paced makes of   *)
(* one request; a request that runs into TIMEOUT takes SLOW slots.  Every  *)
(* answer is nondeterministic: the target is not part of the model.        *)
(***************************************************************************)
EXTENDS Integers, Sequences, FiniteSets, SequencesExt

CONSTANTS
    Slugs,      \* the Endpoints the catalogue may list
    KindOrder,  \* the surface kinds, sorted
    Typed,      \* TYPED: the kinds whose query names an entity type
    BUDGET,     \* PROBE_BUDGET: requests a minute (12..200 in main; smaller scales
                \* the instance down)
    DISCOVERY,  \* PROBE_DISCOVERY_SECONDS, in slots
    SLOW,       \* TIMEOUT, in slots
    HEALTH,     \* the three minutes of /healthz, in slots
    MaxClock,   \* bound of the model: no round starts after it
    None        \* no entity type learned

Kinds == {KindOrder[i] : i \in 1..Len(KindOrder)}

ASSUME SlugsAssumption == IsFiniteSet(Slugs) /\ Slugs \subseteq Nat
ASSUME KindsAssumption ==
    /\ KindOrder \in Seq(Kinds) /\ Typed \subseteq Kinds
    /\ \A i, j \in 1..Len(KindOrder) : KindOrder[i] = KindOrder[j] => i = j
ASSUME BudgetAssumption ==
    /\ BUDGET \in 1..200
    /\ DISCOVERY \in Nat \ {0}
    /\ SLOW \in Nat \ {0}
    /\ HEALTH \in Nat
    /\ MaxClock \in Nat
ASSUME NoneAssumption == None \notin {"empty", "type"}

VARIABLES
    clock,      \* slots since the pod's first round could start
    pc,         \* the part of the round that is next
    spent,      \* requests of this round
    visited,    \* the records refreshed in this round
    known,      \* Prober.endpoints: slug -> its surfaces, type and age
    listedAt,   \* Prober.listed_at
    cursors,    \* Prober.cursors
    results,    \* the Endpoint rows of Prober.results
    todo,       \* the plan's picks still to be probed
    finished    \* Prober.rounds, or Prober.started before the first one

vars == <<clock, pc, spent, visited, known, listedAt, cursors, results, todo,
          finished>>

\* What `type` of a record may hold: nothing learned, "", or a usable type.
Types == {None, "empty", "type"}

-----------------------------------------------------------------------------
(***************************************************************************)
(* The plan                                                                *)
(***************************************************************************)
\* Who serves a kind now; a typed surface counts once its type was read.
Serves(s, k) ==
    /\ k \in known[s].surfaces
    /\ ~(k \in Typed /\ known[s].type = None)

\* sorted(slugs).
Ordered(slugs) ==
    CHOOSE seq \in [1..Cardinality(slugs) -> slugs] :
        \A i, j \in 1..Cardinality(slugs) : i < j => seq[i] < seq[j]

\* holders[kind], in the order of sorted(known).
Holders(k) == Ordered({s \in DOMAIN known : Serves(s, k)})

HeldKinds == {k \in Kinds : \E s \in DOMAIN known : Serves(s, k)}

\* Mutated: a budget smaller than the kinds leaves kinds out.
Share_LeavesOut(budget, kinds) == budget \div kinds

\* Every kind gets one probe even when the budget is smaller than the kinds.
Share(budget, kinds) == LET even == budget \div kinds
                        IN IF even < 1 THEN 1 ELSE even

Take(share, slugs) == IF share < Len(slugs) THEN share ELSE Len(slugs)

\* The next slugs of one kind, from its cursor on.
PicksOf(k, slugs, cursor, share) ==
    [i \in 1..Take(share, slugs) |->
        <<k, slugs[((cursor + i - 1) % Len(slugs)) + 1]>>]

PlanShare == Share(BUDGET - spent, Cardinality(HeldKinds))

PicksOfNext(k) ==
    IF k \in HeldKinds THEN PicksOf(k, Holders(k), cursors[k], PlanShare) ELSE <<>>

Picks == FlattenSeq([i \in 1..Len(KindOrder) |-> PicksOfNext(KindOrder[i])])

\* Mutated: the position is not carried to the next round.
Cursors_Reset == [k \in Kinds |-> 0]

\* cursors[kind] = start + take; a kind nobody holds keeps its cursor.
Cursors ==
    [k \in Kinds |->
        IF k \in HeldKinds
        THEN (cursors[k] % Len(Holders(k))) + Take(PlanShare, Holders(k))
        ELSE cursors[k]]

-----------------------------------------------------------------------------
Init ==
    /\ clock = DISCOVERY     \* the wall clock: far from 0, a record's first `at`
    /\ pc = "fixed"
    /\ spent = 0
    /\ visited = {}
    /\ known = <<>>
    /\ listedAt = 0
    /\ cursors = [k \in Kinds |-> 0]
    /\ results = {}
    /\ todo = <<>>
    /\ finished = clock

\* Slots n paced requests take, each answered at once or timed out.
Slots(n) == {n - late + late * SLOW : late \in 0..n}

\* Catalogue search, assistant's config, portal's health.
FixedChecks ==
    /\ pc = "fixed"
    /\ clock <= MaxClock
    /\ \E d \in Slots(3) : clock' = clock + d
    /\ spent' = 3
    /\ pc' = "list"
    /\ UNCHANGED <<visited, known, listedAt, cursors, results, todo, finished>>

ListDue == clock - listedAt >= DISCOVERY

\* What a catalogue that answers may list.
EndpointSlugs == SUBSET Slugs

Unlisted == [surfaces |-> {}, type |-> None, at |-> 0]

\* Mutated: the rows of an Endpoint outlive it.
Listed_KeepsRows(slugs) ==
    /\ known' = [s \in slugs |-> IF s \in DOMAIN known THEN known[s] ELSE Unlisted]
    /\ results' = results
    /\ listedAt' = clock'

\* The catalogue answered: what it no longer lists is forgotten with its rows.
Listed(slugs) ==
    /\ known' = [s \in slugs |-> IF s \in DOMAIN known THEN known[s] ELSE Unlisted]
    /\ results' = {row \in results : row[1] \in slugs}
    /\ listedAt' = clock'

List ==
    /\ pc = "list"
    /\ pc' = "refresh"
    /\ IF ListDue
       THEN /\ spent' = spent + 1
            /\ \E d \in Slots(1) : clock' = clock + d
            /\ \/ UNCHANGED <<known, results, listedAt>>    \* no answer to use
               \/ \E slugs \in EndpointSlugs : Listed(slugs)
       ELSE UNCHANGED <<spent, clock, known, results, listedAt>>
    /\ UNCHANGED <<visited, cursors, todo, finished>>

\* The oldest records the round has not refreshed yet (ties in any order).
Oldest ==
    LET left == DOMAIN known \ visited
    IN {s \in left : \A t \in left : known[s].at <= known[t].at}

Due(s) == clock - known[s].at >= DISCOVERY

\* A quarter of the budget refreshes, at least one record a round.
RefreshRoom == visited = {} \/ spent + 2 <= BUDGET \div 4

Refreshes == {s \in Oldest : Due(s) /\ RefreshRoom}

\* What a record that answers may list.
RecordSurfaces == SUBSET Kinds

\* What a refresh makes of a record, and the requests it spent: the record
\* read may fail; its typed surfaces ask for the types, which may fail too
\* and then keep the type and the age.
Refreshed(s, rec, requests) ==
    \/ /\ requests = 1
       /\ rec = known[s]
    \/ \E surfaces \in RecordSurfaces :
         \/ /\ requests = 1
            /\ surfaces \cap Typed = {}
            /\ rec = [surfaces |-> surfaces, type |-> None, at |-> clock']
         \/ /\ requests = 2
            /\ surfaces \cap Typed # {}
            /\ \/ rec = [known[s] EXCEPT !.surfaces = surfaces]
               \/ \E type \in {"empty", "type"} :
                    rec = [surfaces |-> surfaces, type |-> type, at |-> clock']

Refresh ==
    /\ pc = "refresh"
    /\ \E s \in Refreshes, requests \in 1..2 :
         /\ \E d \in Slots(requests) : clock' = clock + d
         /\ \E surfaces \in RecordSurfaces, type \in Types, at \in {known[s].at, clock'} :
              LET rec == [surfaces |-> surfaces, type |-> type, at |-> at]
              IN /\ Refreshed(s, rec, requests)
                 /\ known' = [known EXCEPT ![s] = rec]
         /\ visited' = visited \cup {s}
         /\ spent' = spent + requests
    /\ UNCHANGED <<pc, listedAt, cursors, results, todo, finished>>

\* No record is left to refresh: plan the probes, the cursors moving at once.
Plan ==
    /\ pc = "refresh"
    /\ Refreshes = {}
    /\ pc' = "probe"
    /\ todo' = Picks
    /\ cursors' = Cursors
    /\ UNCHANGED <<clock, spent, visited, known, listedAt, results, finished>>

\* An Endpoint that lists no entity type fails its typed surfaces unasked.
Unasked(pick) == pick[1] \in Typed /\ known[pick[2]].type # "type"

\* The row of Prober.results a probe records: a newer one replaces it, and what
\* it says is not told apart.
Row(pick) == <<pick[2], pick[1]>>

Probe ==
    /\ pc = "probe"
    /\ todo # <<>>
    /\ LET pick == Head(todo)
       IN /\ IF Unasked(pick) THEN clock' = clock
                              ELSE \E d \in Slots(1) : clock' = clock + d
          /\ results' = results \cup {Row(pick)}
    /\ todo' = Tail(todo)
    /\ UNCHANGED <<pc, spent, visited, known, listedAt, cursors, finished>>

\* Mutated: what a round refreshed is remembered into the next one.
NextRound_KeepsVisited ==
    /\ pc' = "fixed"
    /\ spent' = 0
    /\ visited' = visited
    /\ todo' = <<>>

\* The next round starts at once.
NextRound ==
    /\ pc' = "fixed"
    /\ spent' = 0
    /\ visited' = {}
    /\ todo' = <<>>

EndRound ==
    /\ pc = "probe"
    /\ todo = <<>>
    /\ finished' = clock
    /\ NextRound
    /\ UNCHANGED <<clock, known, listedAt, cursors, results>>

\* A request is under way.
Asking ==
    \/ pc = "fixed" /\ clock <= MaxClock
    \/ pc = "list" /\ ListDue
    \/ pc = "refresh" /\ Refreshes # {}
    \/ pc = "probe" /\ todo # <<>> /\ ~Unasked(Head(todo))

\* fetch lets an http.client exception through (an answer cut off inside its
\* chunks): run() logs it, sleeps ten seconds and starts over.
Abort ==
    /\ Asking
    /\ clock' = clock + BUDGET \div 6
    /\ NextRound
    /\ UNCHANGED <<known, listedAt, cursors, results, finished>>

\* /healthz answers 503: no round finished in the last three minutes.
Unhealthy == clock - finished >= HEALTH

\* The kubelet may restart the pod whose /healthz keeps answering 503;
\* everything the probe knows is in memory.
Restart ==
    /\ Unhealthy
    /\ clock <= MaxClock
    /\ known' = <<>>
    /\ listedAt' = 0
    /\ cursors' = [k \in Kinds |-> 0]
    /\ results' = {}
    /\ finished' = clock
    /\ NextRound
    /\ UNCHANGED clock

Next ==
    \/ FixedChecks \/ List \/ Refresh \/ Plan \/ Probe \/ EndRound
    \/ Abort \/ Restart

Spec == Init /\ [][Next]_vars

-----------------------------------------------------------------------------
Records == [surfaces : SUBSET Kinds, type : Types, at : Nat]

\* Every variable has its type; a record refreshed in a round is of an Endpoint
\* still known in it, and no time lies ahead of the clock.
TypeOK ==
    /\ clock \in Nat
    /\ pc \in {"fixed", "list", "refresh", "probe"}
    /\ spent \in Nat
    /\ visited \subseteq DOMAIN known
    /\ DOMAIN known \subseteq Slugs
    /\ \A s \in DOMAIN known : known[s] \in Records /\ known[s].at <= clock
    /\ listedAt \in 0..clock
    /\ cursors \in [Kinds -> Nat]
    /\ results \subseteq Slugs \X Kinds
    /\ todo \in Seq(Kinds \X Slugs)
    /\ finished \in 0..clock

\* No row outlives its Endpoint: the probe reports, on /metrics and to the
\* status page, only Endpoints the last catalogue it could read lists, and a
\* pick it still has to probe is of a record it holds.
RowsOfKnownEndpoints ==
    /\ \A row \in results : row[1] \in DOMAIN known
    /\ \A i \in 1..Len(todo) : todo[i][2] \in DOMAIN known

-----------------------------------------------------------------------------
(***************************************************************************)
(* Why they hold: a round forgets Endpoints only before it refreshes or    *)
(* plans anything.                                                         *)
(***************************************************************************)
IInv ==
    /\ TypeOK
    /\ RowsOfKnownEndpoints
    /\ pc \in {"fixed", "list"} => visited = {}
    /\ pc # "probe" => todo = <<>>

-----------------------------------------------------------------------------
(***************************************************************************)
(* What an operator reads out of the rounds: whether every surface kind    *)
(* and every Endpoint gets its turn.  The variables here only watch; no    *)
(* step of the rounds depends on them.                                     *)
(***************************************************************************)
VARIABLES
    held,      \* kind -> its holders at the last plan
    heard,     \* the kinds recorded since the last plan
    missed     \* <<kind, slug>> -> plans in a row over these holders that passed it by

seen == <<held, heard, missed>>

Pairs == Kinds \X Slugs

InitTurns ==
    /\ Init
    /\ held = [k \in Kinds |-> <<>>]
    /\ heard = {}
    /\ missed = [p \in Pairs |-> 0]

PickedNext == {todo'[i] : i \in 1..Len(todo')}

\* The plan was drawn: who holds what, and who was left out of it.
SeePlan ==
    /\ Plan
    /\ held' = [k \in Kinds |-> Holders(k)]
    /\ heard' = {}
    /\ missed' = [p \in Pairs |->
                    IF p \in PickedNext \/ ~\E i \in 1..Len(held'[p[1]]) : held'[p[1]][i] = p[2]
                    THEN 0
                    ELSE IF held'[p[1]] = held[p[1]] THEN missed[p] + 1 ELSE 1]

SeeProbe ==
    /\ Probe
    /\ heard' = heard \cup {Head(todo)[1]}
    /\ UNCHANGED <<held, missed>>

SeeRestart ==
    /\ Restart
    /\ held' = [k \in Kinds |-> <<>>]
    /\ heard' = {}
    /\ missed' = [p \in Pairs |-> 0]

SeeNothing ==
    /\ FixedChecks \/ List \/ Refresh \/ EndRound \/ Abort
    /\ UNCHANGED seen

NextTurns == SeePlan \/ SeeProbe \/ SeeRestart \/ SeeNothing

SpecTurns == InitTurns /\ [][NextTurns]_<<vars, seen>>

-----------------------------------------------------------------------------
\* The round robin of plan() serves every holder: while the holders of a kind
\* do not change, no Endpoint is passed by as often as there are holders.
HoldersTakeTurns ==
    \A p \in Pairs : missed[p] = 0 \/ missed[p] < Len(held[p[1]])

\* A finished round recorded something of every kind it found a holder of,
\* however small the budget is (T-5184).
RoundsCoverKinds ==
    [][EndRound => \A k \in Kinds : held[k] # <<>> => k \in heard]_<<vars, seen>>

-----------------------------------------------------------------------------
(***************************************************************************)
(* Why they hold.  The kind's cursor comes nearer to a holder with every   *)
(* plan that passes it by, so that it cannot be passed by as often as      *)
(* there are holders; and what a round has not recorded it still has to    *)
(* probe.                                                                  *)
(***************************************************************************)
TurnsOK ==
    /\ held \in [Kinds -> Seq(Slugs)]
    /\ heard \subseteq Kinds
    /\ missed \in [Pairs -> Nat]

\* The holders between the cursor and this place, of n.
Before(place, cursor, n) ==
    LET start == cursor % n
    IN IF place > start THEN place - 1 - start ELSE n + place - 1 - start

InLine(p) ==
    LET line == held[p[1]]
    IN \E place \in 1..Len(line) :
          line[place] = p[2] /\ missed[p] + Before(place, cursors[p[1]], Len(line)) < Len(line)

Pending == {todo[i][1] : i \in 1..Len(todo)}

TurnsInv ==
    /\ TurnsOK
    /\ \A p \in Pairs : missed[p] = 0 \/ InLine(p)
    /\ pc = "probe" => \A k \in Kinds : held[k] # <<>> => k \in heard \cup Pending

-----------------------------------------------------------------------------
(***************************************************************************)
(* For TLC, two surface kinds, one of them typed.  The budget is scaled    *)
(* down to six requests a round, so that the three fixed checks, the       *)
(* catalogue read and a refresh leave less than the kinds need; a timeout  *)
(* is one slot.                                                            *)
(***************************************************************************)
SortedKinds == <<"csv", "ogc">>
TypedKinds == {"ogc"}
=============================================================================
