---------------------------- MODULE RotateSecret -----------------------------
(***************************************************************************)
(* The rotation of one credential (scripts/rotate-secret.sh): a Secret has *)
(* one copy per namespace, workloads read their copy when they start, and  *)
(* another system accepts or refuses the value.  The script deletes every  *)
(* copy, has an apply make it again, restarts the readers and measures.    *)
(*                                                                         *)
(* Values are numbers, a new one larger than all before.  Beside the       *)
(* script run the workloads' own restarts, other applies of the generator  *)
(* release (components/secrets) and CloudNativePG; any call may fail and   *)
(* the script may be interrupted between two of them.                      *)
(***************************************************************************)
EXTENDS Naturals, FiniteSets

CONSTANTS
    Namespaces,   \* where the Secret has a copy, as numbers: kubectl lists them sorted
    Readers,      \* the workloads that read it
    HomeOf,       \* reader -> its namespace
    Place,        \* namespace -> its place in the list the generator release has
    Home,         \* the namespace of the other side's own copy
    Classes,      \* which classes of credential to look at
    Gone,         \* no Secret; no pod that could start
    None,         \* no value
    MaxValue, MaxRuns, MaxDeaths, MaxFailures   \* bounds of the model

ASSUME NamespacesAssumption ==
    IsFiniteSet(Namespaces) /\ Namespaces \subseteq Nat /\ Namespaces # {}
ASSUME ReadersAssumption == HomeOf \in [Readers -> Namespaces]
ASSUME PlaceAssumption == Place \in [Namespaces -> Nat] /\ Home \in Namespaces
ASSUME ClassesAssumption == Classes \subseteq {"client", "database", "cookie", "minted"}
ASSUME RotationBoundsAssumption ==
    /\ MaxValue \in Nat /\ MaxRuns \in Nat /\ MaxDeaths \in Nat /\ MaxFailures \in Nat
    /\ None \notin Nat

VARIABLES
    class,      \* what kind of credential it is
    copies,     \* namespace -> its copy
    pods,       \* reader -> the copy it started with
    accepts,    \* the values the other side accepts
    newest,     \* the last value generated
    applied,    \* observer: another apply wrote copies since the script began to put its own back
    pc,         \* what the script does next; "idle" when none runs
    left,       \* the namespaces the current loop still has to visit
    unread,     \* the readers still to restart
    names,      \* the namespaces it found a copy in
    old, new,   \* the values it read
    saved,      \* the copies it holds in memory
    lost,       \* the namespaces it said it could not put back
    outcome,    \* how the last run ended
    runs, deaths, failures

world == <<class, copies, pods, accepts, newest, applied>>
script == <<pc, left, unread, names, old, new, saved, lost, outcome>>
bounds == <<runs, deaths, failures>>
vars == <<world, script, bounds>>

Values == 0..MaxValue
Copies == [val : Values, prev : Values \cup {None}]

ASSUME GoneAssumption == Gone \notin Copies

Lowest(ns) == CHOOSE n \in ns : \A m \in ns : n <= m

\* Where the generator release looks first.
FirstListed(ns) == CHOOSE n \in ns : \A m \in ns : Place[n] <= Place[m]

Init ==
    /\ class \in Classes
    /\ copies = [n \in Namespaces |-> [val |-> 0, prev |-> None]]
    /\ pods = [r \in Readers |-> [val |-> 0, prev |-> None]]
    /\ accepts = {0}
    /\ newest = 0 /\ applied = FALSE
    /\ pc = "idle"
    /\ left = {} /\ unread = {} /\ names = {}
    /\ old = None /\ new = None
    /\ saved = [n \in Namespaces |-> Gone]
    /\ lost = {}
    /\ outcome = "none"
    /\ runs = 0 /\ deaths = 0 /\ failures = 0

-----------------------------------------------------------------------------
(***************************************************************************)
(* The world                                                               *)
(***************************************************************************)
Existing == {n \in Namespaces : copies[n] # Gone}

\* What the generator release writes: the first value it finds, everywhere;
\* a fresh one only where no copy exists.  Other keys of a copy stay.
GeneratedValue ==
    IF Existing = {} THEN newest + 1
    ELSE copies[FirstListed(Existing)].val

Filled(ns) ==
    [n \in Namespaces |->
        IF n \notin ns THEN copies[n]
        ELSE [val |-> GeneratedValue,
              prev |-> IF copies[n] = Gone THEN None ELSE copies[n].prev]]

Generate(ns) ==
    /\ GeneratedValue <= MaxValue
    /\ copies' = Filled(ns)
    /\ newest' = IF GeneratedValue > newest THEN GeneratedValue ELSE newest

\* Another apply runs the generator release meanwhile.
OtherApply ==
    /\ class # "minted"
    /\ Existing # Namespaces
    /\ Generate(Namespaces)
    /\ applied' = (pc \in {"idle", "restore"})
    /\ UNCHANGED <<class, pods, accepts, script, bounds>>

\* CloudNativePG sets the role's password to what its copy holds.
Reload ==
    /\ class = "database"
    /\ copies[Home] # Gone
    /\ accepts # {copies[Home].val}
    /\ accepts' = {copies[Home].val}
    /\ UNCHANGED <<class, applied, copies, pods, newest, script, bounds>>

\* A workload's pod dies by itself; the next one reads the Secret, or waits
\* for it.
PodDies(r) ==
    /\ deaths < MaxDeaths
    /\ deaths' = deaths + 1
    /\ pods' = [pods EXCEPT ![r] = copies[HomeOf[r]]]
    /\ UNCHANGED <<class, applied, copies, accepts, newest, script, runs, failures>>

PodStarts(r) ==
    /\ pods[r] = Gone
    /\ copies[HomeOf[r]] # Gone
    /\ pods' = [pods EXCEPT ![r] = copies[HomeOf[r]]]
    /\ UNCHANGED <<class, applied, copies, accepts, newest, script, bounds>>

-----------------------------------------------------------------------------
(***************************************************************************)
(* The script                                                              *)
(***************************************************************************)
\* One of its calls fails, in a model that bounds how often.
CallFails ==
    /\ failures < MaxFailures
    /\ failures' = failures + 1
    /\ UNCHANGED <<runs, deaths>>

\* The step the script goes on with, over these namespaces.
Goes(step, over) ==
    /\ pc' = step
    /\ left' = over
    /\ UNCHANGED <<unread, names, old, new, saved, lost, outcome>>

\* A loop over the namespaces, in the order kubectl listed them, is at this one.
This == Lowest(left)

Visited(next) == Goes(IF left = {This} THEN next ELSE pc, left \ {This})

Ends(how) ==
    /\ pc' = "idle"
    /\ outcome' = how
    /\ UNCHANGED <<left, unread, names, old, new, saved, lost>>

\* Mutated: a deletion that fails ends the run as it stands.
GivesUp_Ends == CallFails /\ Ends("died")

\* restore_and_die, for a call that failed.
GivesUp == CallFails /\ Goes("restore", names)

\* Mutated: what the last run could not put back is not forgotten.
NothingLost_Kept == lost' = lost

NothingLost == lost' = {}

\* It lists the copies, reads the old value and keeps every copy in memory.
Begin ==
    /\ pc = "idle" /\ runs < MaxRuns /\ Existing # {}
    /\ runs' = runs + 1
    /\ pc' = "delete"
    /\ names' = Existing /\ left' = Existing /\ unread' = {}
    /\ old' = copies[Lowest(Existing)].val /\ new' = None
    /\ saved' = copies
    /\ NothingLost
    /\ outcome' = "none" /\ applied' = FALSE
    /\ UNCHANGED <<class, copies, pods, accepts, newest, deaths, failures>>

Delete ==
    /\ pc = "delete"
    /\ \/ /\ copies' = [copies EXCEPT ![This] = Gone]
          /\ Visited("make")
          /\ UNCHANGED bounds
       \/ GivesUp /\ UNCHANGED copies
    /\ UNCHANGED <<class, applied, pods, accepts, newest>>

\* The generator release is applied, and may stop half way.
Make ==
    /\ pc = "make" /\ class # "minted"
    /\ \/ /\ Generate(Namespaces)
          /\ Goes(IF class = "client" THEN "push" ELSE "compare", {})
          /\ UNCHANGED bounds
       \/ GivesUp /\ \E some \in SUBSET Namespaces : Generate(some)
    /\ UNCHANGED <<class, applied, pods, accepts>>

\* The bootstrap or the catalogue's Job revokes the token, mints one and
\* stores it; it may fail after any of the three (TokenJob).
Mint ==
    /\ pc = "make" /\ class = "minted"
    /\ newest < MaxValue
    /\ newest' = newest + 1
    /\ \/ /\ accepts' = {newest'}
          /\ copies' = [n \in Namespaces |-> [val |-> newest', prev |-> None]]
          /\ Goes("compare", {})
          /\ UNCHANGED bounds
       \/ /\ GivesUp
          /\ accepts' \in {accepts, {}, {newest'}}
          /\ UNCHANGED copies
    /\ UNCHANGED <<class, applied, pods>>

\* keycloak-config-cli gives the client the secret of Keycloak's own copy; a
\* failing run may have done so.
Push ==
    /\ pc = "push"
    /\ copies[Home] # Gone
    /\ \/ /\ accepts' = {copies[Home].val}
          /\ Goes("compare", {})
          /\ UNCHANGED bounds
       \/ GivesUp /\ accepts' \in {accepts, {copies[Home].val}}
    /\ UNCHANGED <<class, applied, copies, pods, newest>>

\* Every copy holds the value of the first, and it is not the old one; a copy
\* that cannot be read is one that does not.
AllNew ==
    LET first == copies[Lowest(names)]
    IN \A n \in names : copies[n] # Gone /\ copies[n].val = first.val /\ first.val # old

Compare ==
    /\ pc = "compare"
    /\ \/ copies[Lowest(names)] = Gone /\ Goes("restore", names) /\ UNCHANGED bounds
       \/ copies[Lowest(names)] # Gone /\ ~AllNew /\ Ends("died") /\ UNCHANGED bounds
       \/ GivesUp
       \/ copies[Lowest(names)] # Gone /\ CallFails /\ Ends("died")
       \/ /\ copies[Lowest(names)] # Gone /\ AllNew
          /\ new' = copies[Lowest(names)].val
          /\ saved' = [n \in Namespaces |-> Gone]
          /\ unread' = {r \in Readers : HomeOf[r] \in names}
          /\ IF class = "cookie" THEN pc' = "keep" /\ left' = names
                                 ELSE pc' = "restart" /\ left' = {}
          /\ UNCHANGED <<names, old, lost, outcome>>
          /\ UNCHANGED bounds
    /\ UNCHANGED world

\* Mutated: the patch that keeps the retired key writes the new one again.
Retired_New == new

Retired == old

\* The session key's old value stays readable under `previous`.
Keep ==
    /\ pc = "keep"
    /\ \/ /\ copies[This] # Gone
          /\ copies' = [copies EXCEPT ![This].prev = Retired]
          /\ Visited("restart")
          /\ UNCHANGED bounds
       \/ CallFails /\ Ends("died") /\ UNCHANGED copies
    /\ UNCHANGED <<class, applied, pods, accepts, newest>>

\* One reader after the other; the first that does not come back ends it.
RestartReader(r) ==
    /\ pc = "restart" /\ r \in unread
    /\ copies[HomeOf[r]] # Gone
    /\ pods' = [pods EXCEPT ![r] = copies[HomeOf[r]]]
    /\ unread' = unread \ {r}
    /\ UNCHANGED <<class, applied, copies, accepts, newest, pc, left, names, old, new,
                   saved, lost, outcome, bounds>>

RestartFails(r) ==
    /\ pc = "restart" /\ r \in unread
    /\ pods' \in {pods, [pods EXCEPT ![r] = copies[HomeOf[r]]]}
    /\ CallFails /\ Ends("died")
    /\ UNCHANGED <<class, applied, copies, accepts, newest>>

\* The old value must be refused within the bound, and the new one accepted;
\* nothing outside checks a session key.
Measured == class = "cookie" \/ (old \notin accepts /\ new \in accepts)

\* A login that cannot be tried counts as refused, a grant or a token that
\* cannot be tried as not refused: one failed call may make up an answer.
Misread == IF class = "database" THEN new \in accepts ELSE old \notin accepts

Measure ==
    /\ pc = "restart" /\ unread = {}
    /\ \/ Ends(IF Measured THEN "rotated" ELSE "died") /\ UNCHANGED bounds
       \/ /\ class # "cookie"
          /\ CallFails
          /\ Ends(IF Misread THEN "rotated" ELSE "died")
    /\ UNCHANGED world

\* Mutated: the loop that puts the copies back skips them.
PutBack_Skips(n) == copies

\* Deleted, and created as it was.
PutBack(n) == [copies EXCEPT ![n] = saved[n]]

\* A copy that cannot be created is named on stderr and the loop goes on.
Restore ==
    /\ pc = "restore"
    /\ \/ copies' = PutBack(This) /\ lost' = lost /\ UNCHANGED bounds
       \/ /\ CallFails
          /\ copies' \in {copies, [copies EXCEPT ![This] = Gone]}
          /\ lost' = lost \cup {This}
    /\ left' = left \ {This}
    /\ IF left' = {} THEN pc' = "idle" /\ outcome' = "back"
                     ELSE UNCHANGED <<pc, outcome>>
    /\ UNCHANGED <<class, applied, pods, accepts, newest, unread, names, old, new, saved>>

\* Interrupted: nothing traps it, what it held in memory is gone.
Killed ==
    /\ pc # "idle"
    /\ CallFails
    /\ pc' = "idle"
    /\ outcome' = "killed"
    /\ saved' = [n \in Namespaces |-> Gone]
    /\ UNCHANGED <<world, left, unread, names, old, new, lost>>

Next ==
    \/ OtherApply \/ Reload
    \/ \E r \in Readers : PodDies(r) \/ PodStarts(r) \/ RestartReader(r) \/ RestartFails(r)
    \/ Begin \/ Delete \/ Make \/ Mint \/ Push \/ Compare \/ Keep
    \/ Measure \/ Restore \/ Killed

Spec == Init /\ [][Next]_vars

-----------------------------------------------------------------------------
WorldOK ==
    /\ class \in Classes
    /\ copies \in [Namespaces -> Copies \cup {Gone}]
    /\ pods \in [Readers -> Copies \cup {Gone}]
    /\ accepts \subseteq Values
    /\ newest \in Values
    /\ applied \in BOOLEAN

ScriptOK ==
    /\ pc \in {"idle", "delete", "make", "push", "compare", "keep", "restart",
               "restore"}
    /\ left \subseteq names /\ names \subseteq Namespaces /\ lost \subseteq names
    /\ unread \subseteq Readers
    /\ old \in Values \cup {None} /\ new \in Values \cup {None}
    /\ saved \in [Namespaces -> Copies \cup {Gone}]
    /\ outcome \in {"none", "rotated", "back", "died", "killed"}

BoundsOK == runs \in 0..MaxRuns /\ deaths \in 0..MaxDeaths /\ failures \in 0..MaxFailures

\* Every variable has its type; what a loop has left to visit is of what was found.
TypeOK == WorldOK /\ ScriptOK /\ BoundsOK

\* The pods the rotation is about.
Rotated == {r \in Readers : HomeOf[r] \in names}

\* "$secret rotated": every copy and every reader holds one new value, the
\* other side accepts it and refuses the old one, also where the script took a
\* call that failed for the answer; a session key's old value is still read by
\* every reader.
RotatedMeansRotated ==
    outcome = "rotated" =>
        /\ new # old
        /\ \A n \in names : copies[n] # Gone /\ copies[n].val = new
        /\ \A r \in Rotated : pods[r] # Gone /\ pods[r].val = new
        /\ class # "cookie" => old \notin accepts /\ new \in accepts
        /\ class = "cookie" => \A r \in Rotated : pods[r].prev = old

\* A run that gives up puts back what it deleted: every copy it did not name
\* as lost is the one it found, unless another apply has written copies since.
BackMeansBack ==
    outcome = "back" /\ ~applied => \A n \in names \ lost : copies[n] = saved[n]

\* Whatever failed, a run that ended by itself leaves a Secret for a reader to
\* start with in every namespace it found one in and did not name.
ReadersCanStart ==
    (pc = "idle" /\ outcome # "killed") => \A n \in names \ lost : copies[n] # Gone

-----------------------------------------------------------------------------
(***************************************************************************)
(* Why they hold.  Once the copies are made again they are one value       *)
(* everywhere, and no apply changes them, for none is missing; what the    *)
(* other side accepts follows the class; each loop has done its part for   *)
(* what it has visited; and what was deleted is in memory until then.      *)
(***************************************************************************)
OneValue == \A n \in Namespaces : copies[n] # Gone /\ copies[n].val = copies[Home].val

\* What holds for one reader when the copies are new.
Reads(r) == /\ pods[r] # Gone /\ pods[r].val = new
            /\ class = "cookie" => pods[r].prev = old

Replaced == OneValue /\ new = copies[Home].val /\ new # old

\* Where the script is, and what it still holds.
Phases ==
    /\ pc = "idle" /\ outcome = "none" <=> names = {}
    /\ pc # "idle" => outcome = "none"
    /\ pc \in {"delete", "keep", "restore"} => left # {}
    /\ pc = "push" => class = "client"
    /\ pc = "keep" => class = "cookie"
    /\ pc \in {"delete", "make", "push", "compare", "restore"} =>
           \A n \in names : saved[n] # Gone

Done == outcome = "rotated"

Made ==
    /\ pc \in {"push", "compare"} => OneValue
    /\ pc \in {"keep", "restart"} \/ Done => Replaced

Accepted ==
    /\ class = "database" => \E v \in Values : accepts = {v}
    /\ class \in {"client", "minted"} /\ pc \in {"compare", "restart"} =>
           accepts = {copies[Home].val}
    /\ class # "cookie" /\ Done => old \notin accepts /\ new \in accepts

Kept ==
    /\ pc = "keep" => \A n \in names \ left : copies[n].prev = old
    /\ class = "cookie" /\ (pc = "restart" \/ Done) => \A n \in names : copies[n].prev = old

Restarted ==
    /\ pc = "keep" => Rotated \subseteq unread
    /\ pc = "restart" => \A r \in Rotated \ unread : Reads(r)
    /\ Done => \A r \in Rotated : Reads(r)

PutBackSoFar ==
    pc = "restore" => \A n \in names \ (left \cup lost) :
                         copies[n] # Gone /\ (~applied => copies[n] = saved[n])

IInv ==
    /\ TypeOK
    /\ Phases /\ Made /\ Accepted /\ Kept /\ Restarted /\ PutBackSoFar
    /\ BackMeansBack /\ ReadersCanStart

-----------------------------------------------------------------------------
(* For TLC, two namespaces with a reader in each: the release lists them in another order than kubectl. *)
ListedBackwards == [n \in Namespaces |-> 2 - n]

EachAtHome == [r \in Readers |-> r]
=============================================================================
