----------------------------- MODULE StatusWatch -----------------------------
(***************************************************************************)
(* The minute of the public status page, components/probes/files/status.py:*)
(* what one minute of surface states does to the 90-day history and to the *)
(* incidents the page opens and closes itself, and which incidents the     *)
(* page then shows.  Everything here is a function of its arguments; the   *)
(* server around it (ticks, files, crashes) is StatusPage.                 *)
(*                                                                         *)
(* Time is counted in minutes: run() ticks once per minute, and the code's *)
(* "60 *" and "+ 60" are one minute here.                                  *)
(***************************************************************************)
EXTENDS Naturals, FiniteSets

CONSTANTS
    SURFACES,            \* the surfaces of the page
    AUTO_OPEN_MINUTES,   \* bad minutes that open an incident (3)
    AUTO_CLOSE_MINUTES,  \* up minutes that close it (10)
    DAYS,                \* days the history and a closed incident are kept (90)
    DayMinutes,          \* minutes of a day (1440)
    NoIncident           \* "open": None

(***************************************************************************)
(* The code opens after 3 minutes and closes after 10; what the incidents  *)
(* promise needs only that closing is not much easier than opening.        *)
(***************************************************************************)
ASSUME MinutesAssumption ==
    /\ AUTO_OPEN_MINUTES \in Nat \ {0}
    /\ AUTO_CLOSE_MINUTES \in Nat \ {0}
    /\ AUTO_OPEN_MINUTES <= AUTO_CLOSE_MINUTES + 1

ASSUME DaysAssumption == DAYS \in Nat \ {0} /\ DayMinutes \in Nat \ {0}

Bad == {"degraded", "down"}
State == Bad \cup {"up", "unknown"}

\* What a minute found, one state per surface: the result of current().
States == [SURFACES -> State]

Run == [bad : Nat, up : Nat]

Incident == [start : Nat, lastBad : Nat, worst : Bad, surfaces : SUBSET SURFACES]
Closed == [start : Nat, lastBad : Nat, worst : Bad, surfaces : SUBSET SURFACES,
           end : Nat]

ASSUME NoIncidentAssumption == NoIncident \notin Incident

Watch == [runs   : [SURFACES -> Run],
          open   : Incident \cup {NoIncident},
          closed : SUBSET Closed]

KeepMinutes == DAYS * DayMinutes


-----------------------------------------------------------------------------
(***************************************************************************)
(* Mutated forms of the definitions below, one plausible slip each.        *)
(***************************************************************************)
\* An up minute keeps the count of bad minutes.
NextRun_KeepsBad(run, state) ==
    CASE state \in Bad     -> [bad |-> run.bad + 1, up |-> 0]
      [] state = "up"      -> [bad |-> run.bad, up |-> run.up + 1]
      [] state = "unknown" -> run

\* One recovered surface is enough to close.
Recovered_AnySurface(incident, runs) ==
    \E s \in incident.surfaces : runs[s].up >= AUTO_CLOSE_MINUTES

\* The incident's surfaces are those failing now, not those that have failed.
Joined_FailingOnly(incident, failing) == failing

\* A surface that starts to fail while an incident is open is left out of it.
Joined_FirstOnly(incident, failing) ==
    IF incident.surfaces = {} THEN failing ELSE incident.surfaces

\* The page is given the stored entries as they are.
Automatic_Stored(watch) ==
    watch.closed \cup (IF watch.open = NoIncident THEN {} ELSE {watch.open})

-----------------------------------------------------------------------------
(***************************************************************************)
(* The history: surface -> day -> minutes.  The page draws two things from *)
(* the three counts of a day, the measured minutes and those that were     *)
(* down, so those two are kept.                                            *)
(***************************************************************************)
DayOf(now) == now \div DayMinutes

KeptDays(now) == {d \in 0 .. DayOf(now) : d + DAYS > DayOf(now)}

Minutes == [measured : Nat, down : Nat]

NoMinutes == [measured |-> 0, down |-> 0]

DayCounts(days, day) == IF day \in DOMAIN days THEN days[day] ELSE NoMinutes

AddMinute(history, states, now) ==
    LET counted(s) == states[s] # "unknown"
        days(s) == (DOMAIN history[s] \cup (IF counted(s) THEN {DayOf(now)} ELSE {}))
                       \cap KeptDays(now)
        counts(s, d) ==
            IF counted(s) /\ d = DayOf(now)
            THEN [measured |-> DayCounts(history[s], d).measured + 1,
                  down |-> DayCounts(history[s], d).down
                               + IF states[s] = "down" THEN 1 ELSE 0]
            ELSE history[s][d]
    IN  [s \in SURFACES |-> [d \in days(s) |-> counts(s, d)]]

NewHistory == [s \in SURFACES |-> [d \in {} |-> NoMinutes]]

-----------------------------------------------------------------------------
(***************************************************************************)
(* The automatic incidents.                                                *)
(***************************************************************************)
NewWatch == [runs   |-> [s \in SURFACES |-> [bad |-> 0, up |-> 0]],
             open   |-> NoIncident,
             closed |-> {}]

\* "An unknown minute changes no run."
NextRun(run, state) ==
    CASE state \in Bad     -> [bad |-> run.bad + 1, up |-> 0]
      [] state = "up"      -> [bad |-> 0, up |-> run.up + 1]
      [] state = "unknown" -> run

NextRuns(runs, states) == [s \in SURFACES |-> NextRun(runs[s], states[s])]

Failing(runs) == {s \in SURFACES : runs[s].bad >= AUTO_OPEN_MINUTES}

\* The earliest start of the runs that open the incident.
FirstBad(runs, failing, now) ==
    CHOOSE t \in {(now + 1) - runs[s].bad : s \in failing} :
        \A s \in failing : t <= (now + 1) - runs[s].bad

Opened(runs, now) ==
    [start |-> FirstBad(runs, Failing(runs), now), lastBad |-> now,
     worst |-> "degraded", surfaces |-> {}]

Joined(incident, failing) == incident.surfaces \cup failing

\* The open incident after this minute, before it may close.
Noted(incident, failing, states, now) ==
    LET joined == Joined(incident, failing)
        badNow == {s \in joined : states[s] \in Bad}
    IN  [start    |-> incident.start,
         lastBad  |-> IF badNow # {} THEN now ELSE incident.lastBad,
         worst    |-> IF \E s \in badNow : states[s] = "down"
                      THEN "down" ELSE incident.worst,
         surfaces |-> joined]

Recovered(incident, runs) ==
    \A s \in incident.surfaces : runs[s].up >= AUTO_CLOSE_MINUTES

Ended(incident) ==
    [start |-> incident.start, lastBad |-> incident.lastBad,
     worst |-> incident.worst, surfaces |-> incident.surfaces,
     end |-> incident.lastBad + 1]

\* The incident this minute works on: the open one, or one it opens now.
Current(watch, runs, states, now) ==
    CASE watch.open # NoIncident ->
             Noted(watch.open, Failing(runs), states, now)
      [] watch.open = NoIncident /\ Failing(runs) # {} ->
             Noted(Opened(runs, now), Failing(runs), states, now)
      [] OTHER -> NoIncident

Unexpired(closed, now) == {i \in closed : now <= i.end + KeepMinutes}

WatchMinute(watch, states, now) ==
    LET runs == NextRuns(watch.runs, states)
        incident == Current(watch, runs, states, now)
        ends == incident # NoIncident /\ Recovered(incident, runs)
    IN  [runs   |-> runs,
         open   |-> IF ends THEN NoIncident ELSE incident,
         closed |-> Unexpired(watch.closed \cup
                                  (IF ends THEN {Ended(incident)} ELSE {}), now)]

-----------------------------------------------------------------------------
(***************************************************************************)
(* What a visitor reads: the deployer's notes and the automatic incidents  *)
(* no note covers.  A note without an end has end = Forever, as has the    *)
(* open automatic incident.                                                *)
(***************************************************************************)
CONSTANT Forever  \* later than every minute: "end or float('inf')"

ASSUME ForeverAssumption == Forever \in Nat

\* An incident as the page shows it; one without an end ends at Forever.
Note == [start : Nat, end : Nat, surfaces : SUBSET SURFACES]

\* What load_incidents lets through of the deployer's notes.
LoadedNotes == {n \in Note : n.surfaces # {} /\ n.start <= n.end}

Automatic(watch) ==
    {[start |-> i.start, end |-> i.end, surfaces |-> i.surfaces] : i \in watch.closed}
    \cup (IF watch.open = NoIncident THEN {}
          ELSE {[start |-> watch.open.start, end |-> Forever,
                 surfaces |-> watch.open.surfaces]})

Covered(incident, notes) ==
    \E n \in notes : /\ incident.surfaces \subseteq n.surfaces
                     /\ n.start <= incident.end
                     /\ incident.start <= n.end

IncidentsShown(notes, watch) ==
    notes \cup {i \in Automatic(watch) : ~ Covered(i, notes)}

\* split_incidents: what stands at the top of the page.
Ongoing(incidents, now) == {i \in incidents : i.start <= now /\ now < i.end}

=============================================================================
