----------------------------- MODULE StatusPage -----------------------------
(***************************************************************************)
(* The status page process, class Page of                                  *)
(* components/probes/files/status.py: the thread that ticks once a minute, *)
(* the incidents it keeps in watch.json on its volume, the page the HTTP   *)
(* threads read, and the pod around it that may die between any two steps. *)
(* The tick's other document, history.json, shares no datum with these and *)
(* has a module of its own, StatusHistory.                                 *)
(*                                                                         *)
(* A tick captures the time once, counts the minute in memory, saves and   *)
(* only then swaps the page.  A save the volume refuses is logged and the  *)
(* tick goes on.  A tick that raises before it counts is caught by run(),  *)
(* and the minute is lost.                                                 *)
(***************************************************************************)
EXTENDS StatusWatch

CONSTANTS
    Notes,        \* the deployer's notes (files/incidents.yaml)
    Damaged,      \* a file that does not parse
    MaxMinute     \* bound of the model: the last minute

ASSUME NotesAssumption == Notes \subseteq LoadedNotes
ASSUME MaxMinuteAssumption == MaxMinute \in Nat
ASSUME DamagedAssumption == Damaged \notin Watch

VARIABLES
    now,      \* the minute of the clock
    pc,       \* the step the tick is at, or "down": no pod
    watch,    \* Page.watch
    disk,     \* watch.json on the volume
    page,     \* Page.files: the incidents a visitor reads
    intact    \* observer: the volume took the last save of watch.json and kept it

vars == <<now, pc, watch, disk, page, intact>>

-----------------------------------------------------------------------------
(***************************************************************************)
(* Mutated forms of the definitions below, one plausible slip each.        *)
(***************************************************************************)
\* The page is swapped before the watch is saved.
Count_RendersFirst(states) ==
    /\ pc = "idle"
    /\ now < MaxMinute
    /\ now' = now + 1
    /\ watch' = WatchMinute(watch, states, now')
    /\ page' = IncidentsShown(Notes, watch')
    /\ pc' = "save_watch"
    /\ UNCHANGED <<disk, intact>>

-----------------------------------------------------------------------------
Init ==
    /\ now = 0
    /\ pc = "down"
    /\ watch = NewWatch
    /\ disk = NewWatch
    /\ page = {}
    /\ intact = TRUE

\* load_watch: "a damaged file starts a new watch, never stops the page".
StartWatch == IF disk = Damaged THEN NewWatch ELSE disk

\* Page.__init__: read the file; tick(count=False) renders and counts nothing.
Start ==
    /\ pc = "down"
    /\ pc' = "idle"
    /\ watch' = StartWatch
    /\ page' = IncidentsShown(Notes, StartWatch)
    /\ UNCHANGED <<now, disk, intact>>

(***************************************************************************)
(* The next minute's tick up to the save: the time is captured, the        *)
(* probe's results become states (all "unknown" when it does not answer)   *)
(* and watch_minute changes the memory.                                    *)
(***************************************************************************)
Count(states) ==
    /\ pc = "idle"
    /\ now < MaxMinute
    /\ now' = now + 1
    /\ watch' = WatchMinute(watch, states, now')
    /\ pc' = "save_watch"
    /\ UNCHANGED <<disk, page, intact>>

\* _save("watch.json"): written beside and renamed over, or refused and logged.
SaveWatch(ok) ==
    /\ pc = "save_watch"
    /\ pc' = "render"
    /\ disk' = IF ok THEN watch ELSE disk
    /\ intact' = ok
    /\ UNCHANGED <<now, watch, page>>

\* The rendered files replace the page under the lock.
Render ==
    /\ pc = "render"
    /\ pc' = "idle"
    /\ page' = IncidentsShown(Notes, watch)
    /\ UNCHANGED <<now, watch, disk, intact>>

(***************************************************************************)
(* A minute without a counted tick: no pod, a tick that raised before it   *)
(* counted, or one still busy when the next was due.                       *)
(***************************************************************************)
MinutePasses ==
    /\ pc \in {"down", "idle"}
    /\ now < MaxMinute
    /\ now' = now + 1
    /\ UNCHANGED <<pc, watch, disk, page, intact>>

\* The pod dies at any step; visitors read the edge's cached copy of the page.
Crash ==
    /\ pc # "down"
    /\ pc' = "down"
    /\ watch' = NewWatch
    /\ UNCHANGED <<now, disk, page, intact>>

\* The node dies: a file renamed without an fsync may be cut short.
NodeCrash ==
    /\ pc # "down"
    /\ pc' = "down"
    /\ watch' = NewWatch
    /\ disk' = Damaged
    /\ intact' = FALSE
    /\ UNCHANGED <<now, page>>

Next ==
    \/ Start
    \/ \E states \in States : Count(states)
    \/ \E ok \in BOOLEAN : SaveWatch(ok)
    \/ Render
    \/ MinutePasses
    \/ Crash
    \/ NodeCrash

Spec == Init /\ [][Next]_vars

-----------------------------------------------------------------------------
(***************************************************************************)
(* Properties.                                                             *)
(***************************************************************************)
Watches == {watch} \cup ({disk} \ {Damaged})

\* Every variable has its type.
TypeOK ==
    /\ now \in Nat
    /\ pc \in {"down", "idle", "save_watch", "render"}
    /\ watch \in Watch
    /\ disk \in Watch \cup {Damaged}
    /\ page \subseteq Note
    /\ intact \in BOOLEAN

(***************************************************************************)
(* Two automatic incidents never overlap, in memory or on the volume: the  *)
(* list a visitor reads tells one outage at a time, and ids, made from the *)
(* start minute, are unique.  start is reckoned back from a count of bad   *)
(* minutes and end from the last bad one, so nothing in watch_minute       *)
(* compares the two.                                                       *)
(***************************************************************************)
DisjointIn(w) ==
    /\ \A i, j \in w.closed : i = j \/ i.end <= j.start \/ j.end <= i.start
    /\ w.open # NoIncident => \A i \in w.closed : i.end <= w.open.start

IncidentsDisjoint == \A w \in Watches : DisjointIn(w)

(***************************************************************************)
(* The open incident and the runs agree, also after a restart with the     *)
(* stored pair: every surface with AUTO_OPEN_MINUTES bad minutes is in an  *)
(* open incident, and an open incident has a surface that has not          *)
(* recovered, so no outage is overlooked and no incident outstays it.      *)
(***************************************************************************)
RunsMatchIncident ==
    \A w \in Watches :
        /\ \A s \in Failing(w.runs) : w.open # NoIncident /\ s \in w.open.surfaces
        /\ w.open # NoIncident => ~ Recovered(w.open, w.runs)

(***************************************************************************)
(* Why they hold, as a fact about one watch at minute t: the strengthening *)
(* the proofs need.  While an incident is open one of its surfaces, the    *)
(* one bad last, has no more up minutes than have passed since; with none  *)
(* open every told end lies so far back that even an incident opening next *)
(* minute, reckoned back to its first bad minute, starts after it.         *)
(***************************************************************************)
OpenInv(w, t) ==
    /\ w.open.start <= w.open.lastBad
    /\ w.open.lastBad <= t
    /\ \E s \in w.open.surfaces : w.runs[s].up + w.open.lastBad <= t
    /\ \A i \in w.closed : i.end <= w.open.start
    /\ ~ Recovered(w.open, w.runs)

WatchInv(w, t) ==
    /\ w \in Watch
    /\ \A s \in SURFACES : /\ w.runs[s].bad <= t
                           /\ w.runs[s].bad = 0 \/ w.runs[s].up = 0
    /\ \A s \in Failing(w.runs) : w.open # NoIncident /\ s \in w.open.surfaces
    /\ w.open # NoIncident => OpenInv(w, t)
    /\ w.open = NoIncident => \A i \in w.closed : i.end + AUTO_OPEN_MINUTES <= t + 2
    /\ \A i \in w.closed : i.start <= i.end
    /\ \A i, j \in w.closed : i = j \/ i.end <= j.start \/ j.end <= i.start

IInv ==
    /\ TypeOK
    /\ WatchInv(watch, now)
    /\ disk # Damaged => WatchInv(disk, now)

(***************************************************************************)
(* An incident ends only after AUTO_CLOSE_MINUTES minutes without a bad    *)
(* one: no up minute that let it close lies before its last bad minute.    *)
(***************************************************************************)
ClosesAfterRecovery ==
    [][pc = "idle" =>
          \A i \in watch'.closed \ watch.closed :
             now' >= i.end - 1 + AUTO_CLOSE_MINUTES]_vars

(***************************************************************************)
(* What a watch tells of an incident someone has read: the same, or, of    *)
(* one read while it was open, an incident of the same start that has only *)
(* gained surfaces; or it is too old to be told.                           *)
(***************************************************************************)
ToldIn(i, w) ==
    \/ now > i.end + KeepMinutes
    \/ i \in Automatic(w)
    \/ /\ i.end = Forever
       /\ \/ now > i.start + KeepMinutes
          \/ \E j \in Automatic(w) : j.start = i.start /\ i.surfaces \subseteq j.surfaces

(***************************************************************************)
(* While the volume takes the writes, the page never runs ahead of it: an  *)
(* incident a visitor has read survives any crash while it is young enough *)
(* to be shown, a closed one as it was, an open one at least as an         *)
(* incident of the same start.                                             *)
(***************************************************************************)
PageIsDurable == intact => \A i \in page \ Notes : ToldIn(i, disk)

(***************************************************************************)
(* Why it holds.  A process tells what its page shows, saved or not, so    *)
(* the save that ends a time of refused ones makes it durable again; and   *)
(* what is rendered after a save that was taken is what was saved.         *)
(***************************************************************************)
DurableInv ==
    /\ pc # "down" => \A i \in page \ Notes : ToldIn(i, watch)
    /\ intact => disk # Damaged
    /\ intact /\ pc = "render" => disk = watch
    /\ PageIsDurable

(***************************************************************************)
(* The page implements the ledger.  Without a pod the ledger is what the   *)
(* next one will start from.                                               *)
(***************************************************************************)
Told(w) == [open |-> w.open, closed |-> w.closed]

Ledger == INSTANCE IncidentLedger
              WITH ledger <- Told(IF pc = "down" THEN StartWatch ELSE watch),
                   stored <- Told(StartWatch)

ImplementsLedger == Ledger!Spec

=============================================================================
