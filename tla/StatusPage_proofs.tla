-------------------------- MODULE StatusPage_proofs --------------------------
(***************************************************************************)
(* Proofs about StatusPage, for every number of surfaces, every pair of    *)
(* thresholds with AUTO_OPEN_MINUTES <= AUTO_CLOSE_MINUTES + 1, every      *)
(* retention and every set of notes.                                       *)
(***************************************************************************)
EXTENDS StatusPage, StatusHistory, TLAPS

USE MinutesAssumption, DaysAssumption, NoIncidentAssumption, ForeverAssumption,
    NotesAssumption, MaxMinuteAssumption, DamagedAssumption

\* Runs stay runs, an up count grows by at most one, and a bad count too.
LEMMA NextRunsType ==
    ASSUME NEW runs \in [SURFACES -> Run], NEW states \in States
    PROVE  /\ NextRuns(runs, states) \in [SURFACES -> Run]
           /\ \A s \in SURFACES :
                /\ NextRuns(runs, states)[s].bad <= runs[s].bad + 1
                /\ NextRuns(runs, states)[s].up <= runs[s].up + 1
                /\ states[s] \in Bad => NextRuns(runs, states)[s].up = 0
                /\ states[s] \notin Bad => NextRuns(runs, states)[s].bad <= runs[s].bad
                /\ runs[s].bad = 0 \/ runs[s].up = 0 =>
                       \/ NextRuns(runs, states)[s].bad = 0
                       \/ NextRuns(runs, states)[s].up = 0
  BY DEF NextRuns, NextRun, Run, States, State, Bad

\* load_watch's fresh watch satisfies the invariant at every minute.
LEMMA NewWatchInv ==
    ASSUME NEW t \in Nat
    PROVE  WatchInv(NewWatch, t)
  BY DEF WatchInv, NewWatch, Watch, Run, Failing

\* A watch that satisfies the invariant keeps it while the clock runs on.
LEMMA WatchInvMonotone ==
    ASSUME NEW w, NEW t \in Nat, WatchInv(w, t)
    PROVE  WatchInv(w, t + 1)
  BY DEF WatchInv, OpenInv, Watch, Incident, Closed, Run

(***************************************************************************)
(* An incident that opens has run for exactly AUTO_OPEN_MINUTES bad        *)
(* minutes: no surface had as many before, and a minute adds one.          *)
(***************************************************************************)
LEMMA FirstBadExact ==
    ASSUME NEW runs, NEW t \in Nat, NEW failing, failing # {},
           \A s \in failing : runs[s].bad = AUTO_OPEN_MINUTES
    PROVE  FirstBad(runs, failing, t) = (t + 1) - AUTO_OPEN_MINUTES
<1> DEFINE T == {(t + 1) - runs[s].bad : s \in failing}
           v == (t + 1) - AUTO_OPEN_MINUTES
<1>1. \A x \in T : x = v
  OBVIOUS
<1>2. v \in T /\ \A s \in failing : v <= (t + 1) - runs[s].bad
  <2>1. v <= v
    OBVIOUS
  <2> QED
    BY <2>1
<1>3. \E x \in T : \A s \in failing : x <= (t + 1) - runs[s].bad
  BY <1>2
<1>4. FirstBad(runs, failing, t) \in T
  BY <1>3 DEF FirstBad
<1> QED
  BY <1>1, <1>4

(***************************************************************************)
(* The incident a minute works on, whether it was open before or opens     *)
(* now, and what makes it end: the runs are those after the minute.        *)
(***************************************************************************)
LEMMA CurrentIncident ==
    ASSUME NEW w, NEW t \in Nat, NEW states \in States, WatchInv(w, t),
           NEW runs, runs = NextRuns(w.runs, states),
           NEW incident, incident = Current(w, runs, states, t + 1)
    PROVE  /\ incident # NoIncident =>
                 /\ incident \in Incident
                 /\ Failing(runs) \subseteq incident.surfaces
                 /\ incident.start <= incident.lastBad
                 /\ incident.lastBad <= t + 1
                 /\ \E s \in incident.surfaces : runs[s].up + incident.lastBad <= t + 1
                 /\ \A i \in w.closed : i.end <= incident.start
           /\ incident = NoIncident <=> Failing(runs) = {} /\ w.open = NoIncident
<1> DEFINE failing == Failing(runs)
<1>1. /\ w.runs \in [SURFACES -> Run]
      /\ w.open \in Incident \cup {NoIncident}
      /\ w.closed \in SUBSET Closed
  BY DEF WatchInv, Watch
<1>2. /\ runs \in [SURFACES -> Run]
      /\ \A s \in SURFACES :
           /\ runs[s].bad <= w.runs[s].bad + 1
           /\ runs[s].up <= w.runs[s].up + 1
           /\ states[s] \in Bad => runs[s].up = 0
           /\ states[s] \notin Bad => runs[s].bad <= w.runs[s].bad
           /\ w.runs[s].bad = 0 \/ w.runs[s].up = 0 => runs[s].bad = 0 \/ runs[s].up = 0
  BY <1>1, NextRunsType
<1>3. \A s \in SURFACES : runs[s].bad <= t + 1 /\ (runs[s].bad = 0 \/ runs[s].up = 0)
  BY <1>1, <1>2 DEF WatchInv, Run
<1>5. failing \subseteq SURFACES
  BY DEF Failing
<1>6. ASSUME w.open # NoIncident \/ failing # {}
      PROVE  /\ incident \in Incident
             /\ failing \subseteq incident.surfaces
             /\ incident.start <= incident.lastBad
             /\ incident.lastBad <= t + 1
             /\ \E s \in incident.surfaces : runs[s].up + incident.lastBad <= t + 1
             /\ \A i \in w.closed : i.end <= incident.start
  <2>1. CASE w.open # NoIncident
    <3> DEFINE joined == w.open.surfaces \cup failing
               badNow == {s \in joined : states[s] \in Bad}
    <3>1. w.open \in Incident /\ OpenInv(w, t)
      BY <1>1, <2>1 DEF WatchInv
    <3>2. incident = Noted(w.open, failing, states, t + 1)
      BY <2>1 DEF Current
    <3>3. /\ incident.start = w.open.start
          /\ incident.lastBad = IF badNow # {} THEN t + 1 ELSE w.open.lastBad
          /\ incident.worst \in {w.open.worst, "down"}
          /\ incident.surfaces = joined
          /\ incident = [start |-> incident.start, lastBad |-> incident.lastBad,
                         worst |-> incident.worst, surfaces |-> incident.surfaces]
      BY <3>2 DEF Noted, Joined
    <3>4. incident \in Incident
      BY <3>1, <3>3, <1>5 DEF Incident, Bad
    <3>5. \A i \in w.closed : i.end <= incident.start
      BY <3>1, <3>3 DEF OpenInv
    <3>6. /\ incident.start <= incident.lastBad
          /\ incident.lastBad <= t + 1
      BY <3>1, <3>3 DEF OpenInv, Incident
    <3>7. \E s \in incident.surfaces : runs[s].up + incident.lastBad <= t + 1
      <4>1. CASE badNow # {}
        <5>1. PICK s \in joined : states[s] \in Bad
          BY <4>1
        <5>2. s \in SURFACES
          BY <5>1, <1>5, <3>1 DEF Incident
        <5>3. runs[s].up = 0 /\ incident.lastBad = t + 1
          BY <5>1, <5>2, <1>2, <3>3, <4>1
        <5> QED
          BY <5>1, <5>3, <3>3
      <4>2. CASE badNow = {}
        <5>1. PICK s \in w.open.surfaces : w.runs[s].up + w.open.lastBad <= t
          BY <3>1 DEF OpenInv
        <5>2. s \in SURFACES /\ s \in incident.surfaces
          BY <5>1, <3>1, <3>3 DEF Incident
        <5>3. incident.lastBad = w.open.lastBad /\ w.open.lastBad \in Nat
          BY <4>2, <3>3, <3>1 DEF Incident
        <5>4. runs[s].up <= w.runs[s].up + 1 /\ runs[s].up \in Nat /\ w.runs[s].up \in Nat
          BY <5>2, <1>1, <1>2 DEF Run
        <5>5. runs[s].up + incident.lastBad <= t + 1
          BY <5>1, <5>3, <5>4
        <5> QED
          BY <5>2, <5>5
      <4> QED
        BY <4>1, <4>2
    <3> QED
      BY <3>3, <3>4, <3>5, <3>6, <3>7
  <2>2. CASE w.open = NoIncident
    <3> DEFINE new == Opened(runs, t + 1)
               badNow == {s \in failing : states[s] \in Bad}
    <3>1. failing # {} /\ incident = Noted(new, failing, states, t + 1)
      BY <1>6, <2>2 DEF Current
    <3>2. \A s \in SURFACES : w.runs[s].bad < AUTO_OPEN_MINUTES
      BY <2>2, <1>1 DEF WatchInv, Failing, Run
    <3>3. \A s \in failing : runs[s].bad = AUTO_OPEN_MINUTES
      <4> SUFFICES ASSUME NEW s \in failing
                   PROVE  runs[s].bad = AUTO_OPEN_MINUTES
        OBVIOUS
      <4>1. s \in SURFACES /\ runs[s].bad >= AUTO_OPEN_MINUTES
        BY DEF Failing
      <4>2. w.runs[s].bad \in Nat /\ runs[s].bad \in Nat
        BY <4>1, <1>1, <1>2 DEF Run
      <4>3. w.runs[s].bad < AUTO_OPEN_MINUTES /\ runs[s].bad <= w.runs[s].bad + 1
        BY <4>1, <3>2, <1>2
      <4> QED
        BY <4>1, <4>2, <4>3
    <3>4. FirstBad(runs, failing, t + 1) = (t + 2) - AUTO_OPEN_MINUTES
      BY <3>1, <3>3, FirstBadExact
    <3>5. /\ new.start = (t + 2) - AUTO_OPEN_MINUTES
          /\ new.lastBad = t + 1
          /\ new.surfaces = {}
          /\ new.worst = "degraded"
      BY <3>4 DEF Opened
    <3>6. /\ incident.start = new.start
          /\ incident.lastBad = t + 1
          /\ incident.worst \in Bad
          /\ incident.surfaces = failing
          /\ incident = [start |-> incident.start, lastBad |-> incident.lastBad,
                         worst |-> incident.worst, surfaces |-> incident.surfaces]
      <4>1. Joined(new, failing) = failing
        BY <3>5 DEF Joined
      <4>2. incident = [start |-> new.start,
                        lastBad |-> IF badNow # {} THEN t + 1 ELSE new.lastBad,
                        worst |-> IF \E s \in badNow : states[s] = "down"
                                  THEN "down" ELSE new.worst,
                        surfaces |-> failing]
        BY <3>1, <4>1 DEF Noted
      <4>3. incident.start = new.start /\ incident.surfaces = failing
        BY <4>2
      <4>4. incident.lastBad = t + 1
        BY <4>2, <3>5
      <4>5. incident.worst \in Bad
        BY <4>2, <3>5 DEF Bad
      <4>6. incident = [start |-> incident.start, lastBad |-> incident.lastBad,
                        worst |-> incident.worst, surfaces |-> incident.surfaces]
        BY <4>2
      <4> QED
        BY <4>3, <4>4, <4>5, <4>6
    <3>7. PICK s \in failing : TRUE
      BY <3>1
    <3>8. AUTO_OPEN_MINUTES <= t + 1 /\ s \in SURFACES
      BY <3>3, <3>7, <1>3, <1>5
    <3>9. new.start \in Nat /\ new.start <= t + 1
      BY <3>5, <3>8
    <3>10. incident \in Incident
      BY <3>6, <3>9, <1>5 DEF Incident
    <3>11. states[s] \in Bad
      <4>1. w.runs[s].bad \in Nat /\ w.runs[s].bad < AUTO_OPEN_MINUTES
        BY <3>2, <3>8, <1>1 DEF Run
      <4>2. runs[s].bad = AUTO_OPEN_MINUTES
        BY <3>3, <3>7
      <4>3. states[s] \notin Bad => runs[s].bad <= w.runs[s].bad
        BY <3>8, <1>2
      <4> QED
        BY <4>1, <4>2, <4>3
    <3>12. runs[s].up + incident.lastBad <= t + 1
      BY <3>11, <3>8, <3>6, <1>2
    <3>13. \A i \in w.closed : i.end <= incident.start
      <4> SUFFICES ASSUME NEW i \in w.closed
                   PROVE  i.end <= incident.start
        OBVIOUS
      <4>1. i.end \in Nat /\ i.end + AUTO_OPEN_MINUTES <= t + 2
        BY <2>2, <1>1 DEF WatchInv, Closed
      <4> QED
        BY <4>1, <3>5, <3>6
    <3> QED
      BY <3>6, <3>7, <3>9, <3>10, <3>12, <3>13
  <2> QED
    BY <2>1, <2>2
<1>7. /\ incident = NoIncident => failing = {} /\ w.open = NoIncident
      /\ incident # NoIncident => w.open # NoIncident \/ failing # {}
  <2>1. w.open = NoIncident /\ failing = {} => incident = NoIncident
    BY DEF Current
  <2> QED
    BY <2>1, <1>6, NoIncidentAssumption
<1> QED
  BY <1>6, <1>7, NoIncidentAssumption

(***************************************************************************)
(* An incident ends in a minute without a bad surface of it, so it was     *)
(* open before and ends as it was, AUTO_CLOSE_MINUTES after its last bad   *)
(* minute or later.                                                        *)
(***************************************************************************)
LEMMA EndedIncident ==
    ASSUME NEW w, NEW t \in Nat, NEW states \in States, WatchInv(w, t),
           NEW runs, runs = NextRuns(w.runs, states),
           NEW incident, incident = Current(w, runs, states, t + 1),
           incident # NoIncident, Recovered(incident, runs)
    PROVE  /\ Ended(incident) \in Closed
           /\ Ended(incident).start = incident.start
           /\ Ended(incident).end = incident.lastBad + 1
           /\ incident.lastBad + AUTO_CLOSE_MINUTES <= t + 1
           /\ w.open # NoIncident /\ incident = w.open
<1>1. /\ incident \in Incident
      /\ Failing(runs) \subseteq incident.surfaces
  BY CurrentIncident
<1>2. runs \in [SURFACES -> Run] /\ w.runs \in [SURFACES -> Run]
  BY NextRunsType DEF WatchInv, Watch
<1>3. PICK s \in incident.surfaces : runs[s].up + incident.lastBad <= t + 1
  BY CurrentIncident
<1>4. runs[s].up >= AUTO_CLOSE_MINUTES /\ runs[s].up \in Nat
  BY <1>1, <1>2, <1>3 DEF Recovered, Incident, Run
<1>5. incident.lastBad + AUTO_CLOSE_MINUTES <= t + 1
  BY <1>1, <1>3, <1>4 DEF Incident
<1>6. \A r \in incident.surfaces :
         runs[r].up # 0 /\ r \in SURFACES /\ states[r] \notin Bad /\ runs[r].bad = 0
  <2> SUFFICES ASSUME NEW r \in incident.surfaces
               PROVE  runs[r].up # 0 /\ r \in SURFACES /\ states[r] \notin Bad /\ runs[r].bad = 0
    OBVIOUS
  <2>1. r \in SURFACES /\ runs[r].up >= AUTO_CLOSE_MINUTES /\ runs[r] \in Run
    BY <1>1, <1>2 DEF Recovered, Incident
  <2>2. runs[r].up # 0
    BY <2>1 DEF Run
  <2>3. states[r] \notin Bad
    BY <1>2, <2>1, <2>2, NextRunsType
  <2>4. w.runs[r].bad = 0 \/ w.runs[r].up = 0
    BY <2>1 DEF WatchInv
  <2>5. runs[r].bad = 0
    BY <1>2, <2>1, <2>2, <2>4, NextRunsType
  <2> QED
    BY <2>1, <2>2, <2>3, <2>5
<1>7. Failing(runs) = {}
  <2> SUFFICES ASSUME NEW r \in Failing(runs) PROVE FALSE
    OBVIOUS
  <2>1. runs[r].bad >= AUTO_OPEN_MINUTES /\ runs[r].bad = 0
    BY <1>1, <1>6 DEF Failing
  <2> QED
    BY <2>1
<1>8. w.open # NoIncident
  BY <1>7, CurrentIncident
<1>9. incident = Noted(w.open, Failing(runs), states, t + 1)
  BY <1>8 DEF Current
<1>10. w.open \in Incident
  BY <1>8 DEF WatchInv, Watch
<1>11. incident.surfaces = w.open.surfaces
  BY <1>7, <1>9 DEF Noted, Joined
<1>12. {r \in w.open.surfaces : states[r] \in Bad} = {}
  BY <1>6, <1>11
<1>13. Joined(w.open, Failing(runs)) = w.open.surfaces
  BY <1>7 DEF Joined
<1>14. incident = [start |-> w.open.start, lastBad |-> w.open.lastBad,
                   worst |-> w.open.worst, surfaces |-> w.open.surfaces]
  BY <1>9, <1>12, <1>13 DEF Noted
<1>15. incident = w.open
  BY <1>10, <1>14 DEF Incident
<1> QED
  BY <1>1, <1>5, <1>8, <1>15 DEF Ended, Closed, Incident

(***************************************************************************)
(* One minute of watch_minute preserves the invariant.                     *)
(***************************************************************************)
LEMMA WatchMinuteInv ==
    ASSUME NEW w, NEW t \in Nat, NEW states \in States, WatchInv(w, t)
    PROVE  WatchInv(WatchMinute(w, states, t + 1), t + 1)
<1> DEFINE runs == NextRuns(w.runs, states)
           failing == Failing(runs)
           incident == Current(w, runs, states, t + 1)
           next == WatchMinute(w, states, t + 1)
           ends == incident # NoIncident /\ Recovered(incident, runs)
<1>1. /\ w.runs \in [SURFACES -> Run]
      /\ w.open \in Incident \cup {NoIncident}
      /\ w.closed \in SUBSET Closed
  BY DEF WatchInv, Watch
<1>2. /\ runs \in [SURFACES -> Run]
      /\ \A s \in SURFACES :
           /\ runs[s].bad <= w.runs[s].bad + 1
           /\ runs[s].up <= w.runs[s].up + 1
           /\ states[s] \in Bad => runs[s].up = 0
           /\ states[s] \notin Bad => runs[s].bad <= w.runs[s].bad
           /\ w.runs[s].bad = 0 \/ w.runs[s].up = 0 => runs[s].bad = 0 \/ runs[s].up = 0
  BY <1>1, NextRunsType
<1>3. \A s \in SURFACES : runs[s].bad <= t + 1 /\ (runs[s].bad = 0 \/ runs[s].up = 0)
  BY <1>1, <1>2 DEF WatchInv, Run
<1>4. /\ next.runs = runs
      /\ next.open = IF ends THEN NoIncident ELSE incident
      /\ next.closed = Unexpired(w.closed \cup (IF ends THEN {Ended(incident)} ELSE {}), t + 1)
      /\ next = [runs |-> next.runs, open |-> next.open, closed |-> next.closed]
  BY DEF WatchMinute
<1>5. failing \subseteq SURFACES
  BY DEF Failing
<1> HIDE DEF runs, next, incident
<1>6. incident # NoIncident =>
         /\ incident \in Incident
         /\ failing \subseteq incident.surfaces
         /\ incident.start <= incident.lastBad
         /\ incident.lastBad <= t + 1
         /\ \E s \in incident.surfaces : runs[s].up + incident.lastBad <= t + 1
         /\ \A i \in w.closed : i.end <= incident.start
  BY CurrentIncident DEF runs, incident
<1>7. incident = NoIncident <=> failing = {} /\ w.open = NoIncident
  BY CurrentIncident DEF runs, incident
<1>8. ASSUME ends
      PROVE  /\ Ended(incident) \in Closed
             /\ Ended(incident).start = incident.start
             /\ Ended(incident).end = incident.lastBad + 1
             /\ incident.lastBad + AUTO_CLOSE_MINUTES <= t + 1
  BY <1>8, EndedIncident DEF runs, incident
<1>9. next.closed \subseteq w.closed \cup (IF ends THEN {Ended(incident)} ELSE {})
  BY <1>4 DEF Unexpired
<1>10. next \in Watch
  <2>1. next.open \in Incident \cup {NoIncident}
    BY <1>4, <1>6, <1>7
  <2>2. next.closed \subseteq Closed
    BY <1>1, <1>8, <1>9
  <2> QED
    BY <1>2, <1>4, <2>1, <2>2 DEF Watch
<1>11. \A s \in Failing(next.runs) : next.open # NoIncident /\ s \in next.open.surfaces
  <2> SUFFICES ASSUME NEW s \in failing
               PROVE  next.open # NoIncident /\ s \in next.open.surfaces
    BY <1>4
  <2>1. incident # NoIncident /\ s \in incident.surfaces /\ s \in SURFACES
    BY <1>6, <1>7, <1>5
  <2>2. ~ (runs[s].up >= AUTO_CLOSE_MINUTES)
    <3>1. runs[s].bad >= AUTO_OPEN_MINUTES
      BY DEF Failing
    <3>2. runs[s].bad = 0 \/ runs[s].up = 0
      BY <2>1, <1>3
    <3> QED
      BY <3>1, <3>2
  <2> QED
    <3>1. ~ ends
      BY <2>1, <2>2 DEF Recovered
    <3> QED
      BY <3>1, <2>1, <1>4
<1>12. next.open # NoIncident => OpenInv(next, t + 1)
  <2> SUFFICES ASSUME next.open # NoIncident
               PROVE  OpenInv(next, t + 1)
    OBVIOUS
  <2>1. next.open = incident /\ ~ ends /\ incident # NoIncident
    BY <1>4
  <2>2. next.closed \subseteq w.closed
    BY <1>9, <2>1
  <2> QED
    BY <1>4, <1>6, <1>7, <2>1, <2>2 DEF OpenInv
<1>13. next.open = NoIncident =>
          \A i \in next.closed : i.end + AUTO_OPEN_MINUTES <= (t + 1) + 2
  <2> SUFFICES ASSUME next.open = NoIncident, NEW i \in next.closed
               PROVE  i.end + AUTO_OPEN_MINUTES <= (t + 1) + 2
    OBVIOUS
  <2>1. CASE ends
    <3>1. incident \in Incident /\ incident.start <= incident.lastBad
      BY <1>6, <1>7, <2>1
    <3>2. i.end \in Nat /\ i.end <= incident.lastBad + 1
      <4>1. CASE i = Ended(incident)
        BY <4>1, <1>8, <2>1, <3>1 DEF Incident
      <4>2. CASE i \in w.closed
        BY <4>2, <1>1, <1>6, <1>7, <2>1, <3>1 DEF Incident, Closed
      <4> QED
        BY <4>1, <4>2, <1>9, <2>1
    <3> QED
      BY <3>1, <3>2, <1>8, <2>1 DEF Incident
  <2>2. CASE ~ ends
    <3>1. incident = NoIncident /\ i \in w.closed
      BY <2>2, <1>4, <1>9
    <3> QED
      BY <3>1, <1>1, <1>7 DEF WatchInv, Closed
  <2> QED
    BY <2>1, <2>2
<1>14. \A i, j \in next.closed : i = j \/ i.end <= j.start \/ j.end <= i.start
  <2>1. \A i, j \in w.closed : i = j \/ i.end <= j.start \/ j.end <= i.start
    BY DEF WatchInv
  <2>2. ends => \A i \in w.closed : i.end <= Ended(incident).start
    BY <1>6, <1>7, <1>8
  <2> QED
    BY <2>1, <2>2, <1>9
<1>15. \A i \in next.closed : i.start <= i.end
  <2>1. \A i \in w.closed : i.start <= i.end
    BY DEF WatchInv
  <2>2. ends => Ended(incident).start <= Ended(incident).end
    BY <1>6, <1>8 DEF Incident
  <2> QED
    BY <2>1, <2>2, <1>9
<1> QED
  BY <1>3, <1>4, <1>10, <1>11, <1>12, <1>13, <1>14, <1>15 DEF WatchInv, next

\* Any number of minutes that count nothing keep the invariant.
LEMMA WatchTypes ==
    ASSUME NEW w, NEW t \in Nat, WatchInv(w, t)
    PROVE  w \in Watch /\ w # Damaged
  BY DEF WatchInv

LEMMA ShownType ==
    ASSUME NEW w \in Watch
    PROVE  IncidentsShown(Notes, w) \subseteq Note
<1>1. \A i \in w.closed : i \in Closed
  BY DEF Watch
<1>2. w.open # NoIncident => w.open \in Incident
  BY DEF Watch
<1>3. Automatic(w) \subseteq Note
  BY <1>1, <1>2 DEF Automatic, Note, Closed, Incident
<1> QED
  BY <1>3 DEF IncidentsShown, LoadedNotes

(***************************************************************************)
(* The invariant of the specification.                                     *)
(***************************************************************************)
LEMMA InitIInv == Init => IInv
  <1> SUFFICES ASSUME Init PROVE IInv
    OBVIOUS
  <1>1. WatchInv(NewWatch, 0)
    BY NewWatchInv
  <1>2. NewWatch \in Watch
    BY <1>1 DEF WatchInv
  <1> QED
    BY <1>1, <1>2 DEF Init, IInv, TypeOK

LEMMA NextIInv == IInv /\ [Next]_vars => IInv'
<1> SUFFICES ASSUME IInv, [Next]_vars
             PROVE  IInv'
  OBVIOUS
<1>1. /\ TypeOK
      /\ now \in Nat
      /\ WatchInv(watch, now)
      /\ disk # Damaged => WatchInv(disk, now)
  BY DEF IInv, TypeOK
<1>2. WatchInv(NewWatch, now) /\ NewWatch \in Watch
  BY <1>1, NewWatchInv DEF WatchInv
<1>3. WatchInv(StartWatch, now) /\ StartWatch \in Watch
  BY <1>1, <1>2, WatchTypes DEF StartWatch
<1>4. CASE Start
  <2>1. page' \subseteq Note
    BY <1>3, <1>4, ShownType DEF Start
  <2> QED
    BY <1>1, <1>3, <1>4, <2>1 DEF Start, IInv, TypeOK
<1>5. ASSUME NEW states \in States, Count(states)
      PROVE  IInv'
  <2>1. /\ now' = now + 1
        /\ watch' = WatchMinute(watch, states, now + 1)
        /\ disk' = disk
    BY <1>5 DEF Count
  <2>2. WatchInv(watch', now')
    BY <1>1, <2>1, WatchMinuteInv
  <2>3. disk' # Damaged => WatchInv(disk', now')
    BY <1>1, <2>1, WatchInvMonotone
  <2>4. watch' \in Watch
    BY <2>2 DEF WatchInv
  <2> QED
    BY <1>1, <1>5, <2>1, <2>2, <2>3, <2>4 DEF Count, IInv, TypeOK
<1>6. ASSUME NEW ok \in BOOLEAN, SaveWatch(ok)
      PROVE  IInv'
  BY <1>1, <1>6 DEF SaveWatch, IInv, TypeOK
<1>7. CASE Render
  <2>1. page' \subseteq Note
    BY <1>1, <1>7, ShownType DEF Render, TypeOK
  <2> QED
    BY <1>1, <1>7, <2>1 DEF Render, IInv, TypeOK
<1>8. CASE MinutePasses
  <2>1. WatchInv(watch, now + 1) /\ (disk # Damaged => WatchInv(disk, now + 1))
    BY <1>1, WatchInvMonotone
  <2> QED
    BY <1>1, <1>8, <2>1 DEF MinutePasses, IInv, TypeOK
<1>9. CASE Crash
  BY <1>1, <1>2, <1>9 DEF Crash, IInv, TypeOK
<1>10. CASE NodeCrash
  BY <1>1, <1>2, <1>10 DEF NodeCrash, IInv, TypeOK
<1>11. CASE UNCHANGED vars
  BY <1>1, <1>11 DEF vars, IInv, TypeOK
<1> QED
  BY <1>4, <1>5, <1>6, <1>7, <1>8, <1>9, <1>10, <1>11 DEF Next

LEMMA Invariance == Spec => []IInv
  BY InitIInv, NextIInv, PTL DEF Spec

\* Every variable of the page process keeps its type.
THEOREM TypeCorrect == Spec => []TypeOK
<1>1. IInv => TypeOK
  BY DEF IInv
<1> QED
  BY <1>1, Invariance, PTL

(***************************************************************************)
(* Whatever the probe answers, whenever the pod dies and whatever the      *)
(* volume refuses, the automatic incidents never overlap: watch_minute     *)
(* opens the next one after the end it gave the last.                      *)
(***************************************************************************)
THEOREM Disjoint == Spec => []IncidentsDisjoint
<1>1. ASSUME NEW w, WatchInv(w, now)
      PROVE  DisjointIn(w)
  BY <1>1 DEF WatchInv, OpenInv, DisjointIn
<1>2. IInv => IncidentsDisjoint
  BY <1>1 DEF IInv, IncidentsDisjoint, Watches
<1> QED
  BY <1>2, Invariance, PTL

(***************************************************************************)
(* The stored runs and the stored incident agree across restarts: no       *)
(* failing surface without an open incident, no incident that outstays its *)
(* surfaces' recovery.                                                     *)
(***************************************************************************)
THEOREM RunsMatch == Spec => []RunsMatchIncident
<1>1. ASSUME NEW w, WatchInv(w, now)
      PROVE  /\ \A s \in Failing(w.runs) : w.open # NoIncident /\ s \in w.open.surfaces
             /\ w.open # NoIncident => ~ Recovered(w.open, w.runs)
  BY <1>1 DEF WatchInv, OpenInv
<1>2. IInv => RunsMatchIncident
  BY <1>1 DEF IInv, RunsMatchIncident, Watches
<1> QED
  BY <1>2, Invariance, PTL

(***************************************************************************)
(* An incident ends AUTO_CLOSE_MINUTES after its last bad minute or later, *)
(* whichever of its surfaces was the last to recover.                      *)
(***************************************************************************)
LEMMA MinuteCloses ==
    ASSUME NEW w, NEW t \in Nat, NEW states \in States, WatchInv(w, t),
           NEW i \in WatchMinute(w, states, t + 1).closed \ w.closed
    PROVE  t + 1 >= i.end - 1 + AUTO_CLOSE_MINUTES
<1> DEFINE runs == NextRuns(w.runs, states)
           incident == Current(w, runs, states, t + 1)
<1>1. incident # NoIncident /\ Recovered(incident, runs) /\ i = Ended(incident)
  BY DEF WatchMinute, Unexpired
<1>2. i.end = incident.lastBad + 1 /\ incident.lastBad + AUTO_CLOSE_MINUTES <= t + 1
  BY <1>1, EndedIncident
<1>3. incident \in Incident
  BY <1>1, CurrentIncident
<1> QED
  BY <1>2, <1>3 DEF Incident

(***************************************************************************)
(* No incident ends before its surfaces have been up for                   *)
(* AUTO_CLOSE_MINUTES since its last bad minute: watch_minute closes on    *)
(* counts of up minutes and ends at lastBad, and the two agree.            *)
(***************************************************************************)
THEOREM ClosesLate == Spec => ClosesAfterRecovery
<1>1. ASSUME IInv, Next, pc = "idle", NEW i \in watch'.closed \ watch.closed
      PROVE  now' >= i.end - 1 + AUTO_CLOSE_MINUTES
  <2>1. PICK states \in States : Count(states)
    BY <1>1 DEF Next, Start, SaveWatch, Render, MinutePasses, Crash, NodeCrash, NewWatch
  <2>2. now' = now + 1 /\ watch' = WatchMinute(watch, states, now + 1)
    BY <2>1 DEF Count
  <2>3. now \in Nat /\ WatchInv(watch, now)
    BY <1>1 DEF IInv, TypeOK
  <2> QED
    BY <1>1, <2>2, <2>3, MinuteCloses
<1>2. IInv /\ [Next]_vars =>
        [pc = "idle" => \A i \in watch'.closed \ watch.closed :
                           now' >= i.end - 1 + AUTO_CLOSE_MINUTES]_vars
  BY <1>1
<1> QED
  BY <1>2, Invariance, PTL DEF Spec, ClosesAfterRecovery

(***************************************************************************)
(* A counted minute opens an incident, goes on with the one open, closes   *)
(* it as it was last told or does nothing to it.                           *)
(***************************************************************************)
LEMMA MinuteIsLedgerStep ==
    ASSUME IInv, NEW states \in States, Count(states)
    PROVE  Ledger!Open \/ Ledger!GoOn \/ Ledger!Close \/ Ledger!Quiet
<1> DEFINE runs == NextRuns(watch.runs, states)
           failing == Failing(runs)
           incident == Current(watch, runs, states, now + 1)
           ends == incident # NoIncident /\ Recovered(incident, runs)
<1>1. /\ now \in Nat /\ now' = now + 1
      /\ watch' = WatchMinute(watch, states, now + 1)
      /\ disk' = disk /\ pc = "idle" /\ pc' = "save_watch"
      /\ WatchInv(watch, now)
  BY DEF IInv, TypeOK, Count
<1>2. WatchInv(watch', now + 1)
  BY <1>1, WatchMinuteInv
<1>3. /\ watch'.open = IF ends THEN NoIncident ELSE incident
      /\ watch'.closed \subseteq watch.closed \cup (IF ends THEN {Ended(incident)} ELSE {})
  BY <1>1 DEF WatchMinute, Unexpired
<1>4. UNCHANGED Told(StartWatch)
  BY <1>1 DEF StartWatch
<1>5. /\ Told(watch).open = watch.open /\ Told(watch).closed = watch.closed
      /\ Told(watch').open = watch'.open /\ Told(watch').closed = watch'.closed
  BY DEF Told
<1> DEFINE ledger == Told(IF pc = "down" THEN StartWatch ELSE watch)
<1>6. /\ ledger.open = watch.open /\ ledger.closed = watch.closed
      /\ ledger'.open = watch'.open /\ ledger'.closed = watch'.closed
  BY <1>1, <1>5
<1> HIDE DEF incident, runs, ledger
<1>7. incident = NoIncident <=> failing = {} /\ watch.open = NoIncident
  BY <1>1, CurrentIncident DEF incident, runs
<1>8. CASE watch.open = NoIncident /\ incident # NoIncident
  <2>1. ~ ends
    BY <1>1, <1>8, EndedIncident DEF incident, runs
  <2>2. watch'.open # NoIncident /\ watch'.closed \subseteq watch.closed
    BY <1>3, <1>8, <2>1
  <2>3. \A i \in watch'.closed : i.end <= watch'.open.start
    BY <1>2, <2>2 DEF WatchInv, OpenInv
  <2> QED
    BY <1>4, <1>6, <1>8, <2>2, <2>3 DEF Ledger!Open, Ledger!Forget, ledger
<1>9. CASE watch.open = NoIncident /\ incident = NoIncident
  <2>1. watch'.open = NoIncident /\ watch'.closed \subseteq watch.closed
    BY <1>3, <1>9
  <2> QED
    BY <1>4, <1>6, <1>9, <2>1 DEF Ledger!Quiet, Ledger!Forget, ledger
<1>10. CASE watch.open # NoIncident /\ ~ ends
  <2>1. /\ watch'.open = incident /\ watch'.open # NoIncident
        /\ watch'.closed \subseteq watch.closed
    BY <1>3, <1>7, <1>10
  <2>2. incident = Noted(watch.open, failing, states, now + 1)
    BY <1>10 DEF Current, incident, runs
  <2>3. watch.open \in Incident /\ watch.open.lastBad <= now
    BY <1>1, <1>10 DEF WatchInv, OpenInv, Watch
  <2>4. /\ incident.start = watch.open.start
        /\ incident.lastBad \in {watch.open.lastBad, now + 1}
        /\ incident.worst \in {watch.open.worst, "down"}
        /\ incident.surfaces = watch.open.surfaces \cup failing
    BY <2>2 DEF Noted, Joined
  <2>5. watch.open.lastBad <= incident.lastBad
    BY <1>1, <2>3, <2>4 DEF Incident
  <2> QED
    BY <1>4, <1>6, <1>10, <2>1, <2>4, <2>5 DEF Ledger!GoOn, Ledger!Forget, ledger
<1>11. CASE watch.open # NoIncident /\ ends
  <2>1. /\ incident = watch.open
        /\ Ended(incident).end = incident.lastBad + 1
    BY <1>1, <1>11, EndedIncident DEF incident, runs
  <2>2. /\ watch.open \in Incident
        /\ watch.open.start <= watch.open.lastBad
    BY <1>1, <1>11 DEF WatchInv, OpenInv, Watch
  <2>3. \A i \in watch'.closed \ watch.closed : i = Ended(watch.open)
    BY <1>3, <1>11, <2>1
  <2>4. watch'.open = NoIncident
    BY <1>3, <1>11
  <2>5. /\ Ended(watch.open).start = watch.open.start
        /\ Ended(watch.open).surfaces = watch.open.surfaces
        /\ Ended(watch.open).worst = watch.open.worst
        /\ Ended(watch.open).end = watch.open.lastBad + 1
        /\ Ended(watch.open).end > Ended(watch.open).start
    BY <2>2 DEF Ended, Incident
  <2> QED
    BY <1>4, <1>6, <1>11, <2>3, <2>4, <2>5 DEF Ledger!Close, ledger
<1> QED
  BY <1>8, <1>9, <1>10, <1>11

(***************************************************************************)
(* The page implements the ledger: a counted minute is one of the ledger's *)
(* steps, a save stores it, a crash falls back to what is stored, and a    *)
(* damaged file ruins it.                                                  *)
(***************************************************************************)
THEOREM Implements == Spec => ImplementsLedger
<1>1. Init => Ledger!Init
  <2>1. NewWatch \in Watch
    BY NewWatchInv DEF WatchInv
  <2> QED
    BY <2>1 DEF Init, Ledger!Init, Ledger!Empty, Told, StartWatch, NewWatch
<1>2. IInv /\ [Next]_vars => [Ledger!Next]_(Ledger!vars)
  <2> SUFFICES ASSUME IInv, [Next]_vars
               PROVE  Ledger!Next \/ UNCHANGED Ledger!vars
    OBVIOUS
  <2>1. CASE Start
    BY <2>1 DEF Start, Ledger!vars, StartWatch
  <2>2. ASSUME NEW states \in States, Count(states)
        PROVE  Ledger!Next
    BY <2>2, MinuteIsLedgerStep DEF Ledger!Next
  <2>3. ASSUME NEW ok \in BOOLEAN, SaveWatch(ok)
        PROVE  Ledger!Next \/ UNCHANGED Ledger!vars
    <3>1. watch # Damaged
      BY DEF IInv, TypeOK
    <3> QED
      BY <2>3, <3>1 DEF SaveWatch, StartWatch, Ledger!Next, Ledger!Store, Ledger!vars
  <2>4. CASE Render
    BY <2>4 DEF Render, Ledger!vars, StartWatch
  <2>5. CASE MinutePasses
    BY <2>5 DEF MinutePasses, Ledger!vars, StartWatch
  <2>6. CASE Crash
    BY <2>6 DEF Crash, Ledger!Next, Ledger!FallBack, StartWatch
  <2>7. CASE NodeCrash
    <3>1. StartWatch' = NewWatch /\ pc' = "down"
      BY <2>7 DEF NodeCrash, StartWatch
    <3> QED
      BY <3>1 DEF Ledger!Next, Ledger!Ruin, Ledger!Empty, Told, NewWatch
  <2>8. CASE UNCHANGED vars
    BY <2>8 DEF vars, Ledger!vars, StartWatch
  <2> QED
    BY <2>1, <2>2, <2>3, <2>4, <2>5, <2>6, <2>7, <2>8 DEF Next
<1> QED
  BY <1>1, <1>2, Invariance, PTL DEF Spec, ImplementsLedger, Ledger!Spec

(***************************************************************************)
(* What a watch tells, it or the next minute's watch tells until it is too *)
(* old.                                                                    *)
(***************************************************************************)
LEMMA KeepType == KeepMinutes \in Nat
  BY DEF KeepMinutes

LEMMA AutomaticOf ==
    ASSUME NEW w
    PROVE  /\ \A i \in w.closed :
                 [start |-> i.start, end |-> i.end, surfaces |-> i.surfaces] \in Automatic(w)
           /\ w.open # NoIncident =>
                 [start |-> w.open.start, end |-> Forever,
                  surfaces |-> w.open.surfaces] \in Automatic(w)
           /\ \A j \in Automatic(w) :
                 \/ \E i \in w.closed :
                       j = [start |-> i.start, end |-> i.end, surfaces |-> i.surfaces]
                 \/ /\ w.open # NoIncident
                    /\ j = [start |-> w.open.start, end |-> Forever,
                            surfaces |-> w.open.surfaces]
  BY DEF Automatic

\* A told end stays told for KeepMinutes.
LEMMA MinuteKeepsClosed ==
    ASSUME NEW w, NEW t \in Nat, NEW states \in States, WatchInv(w, t),
           NEW i \in w.closed
    PROVE  \/ t + 1 > i.end + KeepMinutes
           \/ i \in WatchMinute(w, states, t + 1).closed
<1>1. i.end \in Nat
  BY DEF WatchInv, Watch, Closed
<1> QED
  BY <1>1, KeepType DEF WatchMinute, Unexpired

\* An open incident stays open, or is told as closed, with at least its surfaces.
LEMMA MinuteKeepsOpen ==
    ASSUME NEW w, NEW t \in Nat, NEW states \in States, WatchInv(w, t),
           w.open # NoIncident
    PROVE  \/ t + 1 > w.open.start + KeepMinutes
           \/ \E j \in Automatic(WatchMinute(w, states, t + 1)) :
                 j.start = w.open.start /\ w.open.surfaces \subseteq j.surfaces
<1> DEFINE runs == NextRuns(w.runs, states)
           incident == Current(w, runs, states, t + 1)
           next == WatchMinute(w, states, t + 1)
           ends == incident # NoIncident /\ Recovered(incident, runs)
<1>1. /\ next.open = IF ends THEN NoIncident ELSE incident
      /\ next.closed = Unexpired(w.closed \cup (IF ends THEN {Ended(incident)} ELSE {}), t + 1)
  BY DEF WatchMinute
<1> HIDE DEF incident, runs, next
<1>2. incident # NoIncident
  BY CurrentIncident DEF incident, runs
<1>3. w.open \in Incident /\ w.open.start <= w.open.lastBad
  BY DEF WatchInv, OpenInv, Watch
<1>4. CASE ends
  <2>1. incident = w.open /\ Ended(incident).end = w.open.lastBad + 1
    BY <1>4, EndedIncident DEF incident, runs
  <2>2. Ended(incident).start = w.open.start /\ Ended(incident).surfaces = w.open.surfaces
    BY <2>1 DEF Ended
  <2>3. CASE t + 1 <= Ended(incident).end + KeepMinutes
    <3>1. Ended(incident) \in next.closed
      BY <1>1, <1>4, <2>3 DEF Unexpired
    <3>2. [start |-> w.open.start, end |-> Ended(incident).end,
           surfaces |-> w.open.surfaces] \in Automatic(next)
      BY <2>2, <3>1, AutomaticOf
    <3> QED
      BY <3>2 DEF next
  <2>4. CASE ~ (t + 1 <= Ended(incident).end + KeepMinutes)
    BY <1>3, <2>1, <2>4, KeepType DEF Incident
  <2> QED
    BY <2>3, <2>4
<1>5. CASE ~ ends
  <2>1. next.open = incident /\ next.open # NoIncident
    BY <1>1, <1>2, <1>5
  <2>2. incident = Noted(w.open, Failing(runs), states, t + 1)
    BY DEF Current, incident
  <2>3. incident.start = w.open.start /\ w.open.surfaces \subseteq incident.surfaces
    BY <2>2 DEF Noted, Joined
  <2>4. [start |-> incident.start, end |-> Forever,
         surfaces |-> incident.surfaces] \in Automatic(next)
    BY <2>1, AutomaticOf
  <2> QED
    BY <2>3, <2>4 DEF next
<1> QED
  BY <1>4, <1>5

\* What has been told stays told, or is too old, as the clock and the watch go on.
LEMMA ToldByNextMinute ==
    ASSUME IInv, now' = now + 1,
           NEW states \in States, watch' = WatchMinute(watch, states, now + 1),
           NEW i \in Note, ToldIn(i, watch)
    PROVE  ToldIn(i, watch)'
<1>1. now \in Nat /\ WatchInv(watch, now) /\ i.start \in Nat /\ i.end \in Nat
  BY DEF IInv, TypeOK, Note
<1>2. ASSUME NEW j \in Automatic(watch)
      PROVE  \/ now + 1 > j.start + KeepMinutes
             \/ \E k \in Automatic(watch') : j.start = k.start /\ j.surfaces \subseteq k.surfaces
  <2>1. CASE \E c \in watch.closed :
                j = [start |-> c.start, end |-> c.end, surfaces |-> c.surfaces]
    <3>1. PICK c \in watch.closed :
                j = [start |-> c.start, end |-> c.end, surfaces |-> c.surfaces]
      BY <2>1
    <3>2. c.start \in Nat /\ c.end \in Nat /\ c.start <= c.end
      BY <1>1 DEF WatchInv, Watch, Closed
    <3>3. CASE now + 1 > c.end + KeepMinutes
      BY <1>1, <3>1, <3>2, <3>3, KeepType
    <3>4. CASE c \in watch'.closed
      <4>1. j \in Automatic(watch')
        BY <3>1, <3>4, AutomaticOf
      <4> QED
        BY <4>1
    <3> QED
      BY <1>1, <3>3, <3>4, MinuteKeepsClosed
  <2>2. CASE watch.open # NoIncident /\ j = [start |-> watch.open.start, end |-> Forever,
                                             surfaces |-> watch.open.surfaces]
    BY <1>1, <2>2, MinuteKeepsOpen
  <2> QED
    BY <2>1, <2>2, AutomaticOf
<1>3. CASE now > i.end + KeepMinutes
  BY <1>1, <1>3, KeepType DEF ToldIn
<1>4. CASE i \in Automatic(watch)
  <2>1. CASE \E c \in watch.closed :
                i = [start |-> c.start, end |-> c.end, surfaces |-> c.surfaces]
    <3>1. PICK c \in watch.closed :
                i = [start |-> c.start, end |-> c.end, surfaces |-> c.surfaces]
      BY <2>1
    <3>2. CASE now + 1 > c.end + KeepMinutes
      BY <3>1, <3>2 DEF ToldIn
    <3>3. CASE c \in watch'.closed
      <4>1. i \in Automatic(watch')
        BY <3>1, <3>3, AutomaticOf
      <4> QED
        BY <4>1 DEF ToldIn
    <3> QED
      BY <1>1, <3>2, <3>3, MinuteKeepsClosed
  <2>2. CASE watch.open # NoIncident /\ i = [start |-> watch.open.start, end |-> Forever,
                                             surfaces |-> watch.open.surfaces]
    <3>1. \/ now + 1 > i.start + KeepMinutes
          \/ \E k \in Automatic(watch') : i.start = k.start /\ i.surfaces \subseteq k.surfaces
      BY <1>2, <1>4
    <3>2. i.end = Forever
      BY <2>2
    <3> QED
      BY <3>1, <3>2 DEF ToldIn
  <2> QED
    BY <1>4, <2>1, <2>2, AutomaticOf
<1>5. CASE i.end = Forever /\ now > i.start + KeepMinutes
  BY <1>1, <1>5, KeepType DEF ToldIn
<1>6. CASE /\ i.end = Forever
           /\ \E j \in Automatic(watch) : j.start = i.start /\ i.surfaces \subseteq j.surfaces
  <2>1. PICK j \in Automatic(watch) : j.start = i.start /\ i.surfaces \subseteq j.surfaces
    BY <1>6
  <2>2. \/ now + 1 > j.start + KeepMinutes
        \/ \E k \in Automatic(watch') : j.start = k.start /\ j.surfaces \subseteq k.surfaces
    BY <1>2
  <2>3. \/ now + 1 > i.start + KeepMinutes
        \/ \E k \in Automatic(watch') : k.start = i.start /\ i.surfaces \subseteq k.surfaces
    BY <2>1, <2>2
  <2> QED
    BY <1>6, <2>3 DEF ToldIn
<1> QED
  BY <1>3, <1>4, <1>5, <1>6 DEF ToldIn

LEMMA ToldAsTimePasses ==
    ASSUME now \in Nat, now' \in Nat, now' >= now,
           NEW i \in Note, NEW w, ToldIn(i, w)
    PROVE  \/ now' > i.end + KeepMinutes
           \/ i \in Automatic(w)
           \/ /\ i.end = Forever
              /\ \/ now' > i.start + KeepMinutes
                 \/ \E j \in Automatic(w) : j.start = i.start /\ i.surfaces \subseteq j.surfaces
  BY KeepType DEF ToldIn, Note

\* What is rendered is told.
LEMMA ShownIsTold ==
    ASSUME NEW w, NEW i \in IncidentsShown(Notes, w) \ Notes
    PROVE  i \in Automatic(w)
  BY DEF IncidentsShown

LEMMA DurableStep == IInv /\ DurableInv /\ [Next]_vars => DurableInv'
<1> SUFFICES ASSUME IInv, DurableInv, [Next]_vars
             PROVE  DurableInv'
  OBVIOUS
<1>1. now \in Nat /\ page \subseteq Note
  BY DEF IInv, TypeOK
<1>2. CASE Start
  <2>1. page' = IncidentsShown(Notes, watch') /\ disk' = disk /\ watch' = StartWatch
    BY <1>2 DEF Start
  <2>2. \A i \in page' \ Notes : i \in Automatic(watch')
    BY <2>1, ShownIsTold
  <2>3. intact' => disk' # Damaged /\ disk' = watch'
    BY <1>2, <2>1 DEF DurableInv, Start, StartWatch
  <2> QED
    BY <1>2, <2>2, <2>3 DEF Start, DurableInv, PageIsDurable, ToldIn
<1>3. ASSUME NEW states \in States, Count(states)
      PROVE  DurableInv'
  <2>1. /\ now' = now + 1 /\ watch' = WatchMinute(watch, states, now + 1)
        /\ page' = page /\ disk' = disk /\ intact' = intact
        /\ pc = "idle" /\ pc' = "save_watch"
    BY <1>3 DEF Count
  <2>2. \A i \in page' \ Notes : ToldIn(i, watch)'
    BY <1>1, <2>1, ToldByNextMinute DEF DurableInv
  <2>3. intact => \A i \in page \ Notes : ToldIn(i, disk)'
    BY <1>1, <2>1, ToldAsTimePasses DEF DurableInv, PageIsDurable, ToldIn
  <2> QED
    BY <2>1, <2>2, <2>3 DEF DurableInv, PageIsDurable
<1>4. ASSUME NEW ok \in BOOLEAN, SaveWatch(ok)
      PROVE  DurableInv'
  <2>1. watch # Damaged
    BY DEF IInv, TypeOK
  <2> QED
    BY <1>4, <2>1 DEF SaveWatch, DurableInv, PageIsDurable, ToldIn
<1>5. CASE Render
  <2>1. \A i \in page' \ Notes : i \in Automatic(watch')
    BY <1>5, ShownIsTold DEF Render
  <2>2. intact' => disk' = watch' /\ disk' # Damaged
    BY <1>5 DEF Render, DurableInv
  <2> QED
    BY <1>5, <2>1, <2>2 DEF Render, DurableInv, PageIsDurable, ToldIn
<1>6. CASE MinutePasses
  <2>1. /\ now' = now + 1 /\ UNCHANGED <<pc, watch, disk, page, intact>>
        /\ pc # "render"
    BY <1>6 DEF MinutePasses
  <2>2. pc # "down" => \A i \in page \ Notes : ToldIn(i, watch)'
    BY <1>1, <2>1, ToldAsTimePasses DEF DurableInv, ToldIn
  <2>3. intact => \A i \in page \ Notes : ToldIn(i, disk)'
    BY <1>1, <2>1, ToldAsTimePasses DEF DurableInv, PageIsDurable, ToldIn
  <2> QED
    BY <2>1, <2>2, <2>3 DEF DurableInv, PageIsDurable
<1>7. CASE Crash
  BY <1>7 DEF Crash, DurableInv, PageIsDurable, ToldIn
<1>8. CASE NodeCrash
  BY <1>8 DEF NodeCrash, DurableInv, PageIsDurable
<1>9. CASE UNCHANGED vars
  BY <1>9 DEF vars, DurableInv, PageIsDurable, ToldIn
<1> QED
  BY <1>2, <1>3, <1>4, <1>5, <1>6, <1>7, <1>8, <1>9 DEF Next

(***************************************************************************)
(* While the volume takes the writes the page never runs ahead of it,      *)
(* however often the pod dies, saves were refused before, or the deployer's*)
(* notes cover an incident.                                                *)
(***************************************************************************)
THEOREM Durable == Spec => []PageIsDurable
<1>1. Init => DurableInv
  <2>1. NewWatch \in Watch
    BY NewWatchInv DEF WatchInv
  <2> QED
    BY <2>1 DEF Init, DurableInv, PageIsDurable
<1>2. DurableInv => PageIsDurable
  BY DEF DurableInv
<1> QED
  BY <1>1, <1>2, DurableStep, Invariance, PTL DEF Spec

(***************************************************************************)
(* The other document, history.json (StatusHistory), for every set of      *)
(* surfaces, every length of a day and every number of days kept.          *)
(***************************************************************************)
USE DaysAssumption, SurfacesAssumption, LastMinuteAssumption

(***************************************************************************)
(* The day of a minute: the minute lies in it, and the next minute lies in *)
(* it or starts the next one.                                              *)
(***************************************************************************)
LEMMA DayBounds ==
    ASSUME NEW t \in Nat
    PROVE  /\ DayOf(t) \in Nat
           /\ DayOf(t) * DayMinutes <= t
           /\ t < DayOf(t) * DayMinutes + DayMinutes
  BY DEF DayOf

LEMMA NextDay ==
    ASSUME NEW t \in Nat
    PROVE  DayOf(t + 1) = DayOf(t) \/ DayOf(t + 1) = DayOf(t) + 1
<1> DEFINE a == DayOf(t)
           b == DayOf(t + 1)
<1>1. /\ a \in Nat /\ a * DayMinutes <= t /\ t < a * DayMinutes + DayMinutes
      /\ b \in Nat /\ b * DayMinutes <= t + 1 /\ t + 1 < b * DayMinutes + DayMinutes
  BY DayBounds
<1> HIDE DEF a, b
<1>2. a <= b
  <2> SUFFICES ASSUME b + 1 <= a PROVE FALSE
    BY <1>1
  <2>1. (b + 1) * DayMinutes <= a * DayMinutes
    BY <1>1
  <2>2. (b + 1) * DayMinutes = b * DayMinutes + DayMinutes
    BY <1>1
  <2> QED
    BY <1>1, <2>1, <2>2
<1>3. b <= a + 1
  <2> SUFFICES ASSUME a + 2 <= b PROVE FALSE
    BY <1>1
  <2>1. (a + 2) * DayMinutes <= b * DayMinutes
    BY <1>1
  <2>2. (a + 2) * DayMinutes = a * DayMinutes + DayMinutes + DayMinutes
    BY <1>1
  <2> QED
    BY <1>1, <2>1, <2>2
<1>4. a \in Nat /\ b \in Nat
  BY <1>1
<1>5. b = a \/ b = a + 1
  BY <1>2, <1>3, <1>4
<1> QED
  BY <1>5 DEF a, b

\* A day that is kept at the next minute and is not to come is kept now.
LEMMA KeptBefore ==
    ASSUME NEW t \in Nat, NEW d \in KeptDays(t + 1), d <= DayOf(t)
    PROVE  d \in KeptDays(t)
  BY DayBounds, NextDay DEF KeptDays

(***************************************************************************)
(* add_minute: the days it leaves and what it counts in each.              *)
(***************************************************************************)
LEMMA AddedMinute ==
    ASSUME NEW h, IsHistory(h), NEW states \in States, NEW t \in Nat,
           NEW s \in SURFACES
    PROVE  /\ DOMAIN AddMinute(h, states, t)[s] \subseteq KeptDays(t)
           /\ DOMAIN h[s] \cap KeptDays(t) \subseteq DOMAIN AddMinute(h, states, t)[s]
           /\ \A d \in DOMAIN AddMinute(h, states, t)[s] :
                 \/ /\ states[s] # "unknown" /\ d = DayOf(t)
                    /\ AddMinute(h, states, t)[s][d].measured = DayCounts(h[s], d).measured + 1
                    /\ AddMinute(h, states, t)[s][d].down
                           \in {DayCounts(h[s], d).down, DayCounts(h[s], d).down + 1}
                    /\ AddMinute(h, states, t)[s][d] \in Minutes
                 \/ d \in DOMAIN h[s] /\ AddMinute(h, states, t)[s][d] = h[s][d]
<1> DEFINE g == AddMinute(h, states, t)[s]
           counted == states[s] # "unknown"
           days == (DOMAIN h[s] \cup (IF counted THEN {DayOf(t)} ELSE {})) \cap KeptDays(t)
           counts(d) == IF counted /\ d = DayOf(t)
                        THEN [measured |-> DayCounts(h[s], d).measured + 1,
                              down |-> DayCounts(h[s], d).down
                                           + IF states[s] = "down" THEN 1 ELSE 0]
                        ELSE h[s][d]
<1>1. g = [d \in days |-> counts(d)]
  BY DEF AddMinute
<1>2. \A d \in days : g[d] = counts(d)
  BY <1>1
<1>3. DOMAIN g = days
  BY <1>1
<1>4. ASSUME NEW d \in days, counted, d = DayOf(t)
      PROVE  /\ g[d].measured = DayCounts(h[s], d).measured + 1
             /\ g[d].down \in {DayCounts(h[s], d).down, DayCounts(h[s], d).down + 1}
             /\ g[d] \in Minutes
  <2>1. DayCounts(h[s], d) \in Minutes
    BY DEF DayCounts, IsHistory, Minutes, NoMinutes
  <2>2. g[d] = [measured |-> DayCounts(h[s], d).measured + 1,
                down |-> DayCounts(h[s], d).down + IF states[s] = "down" THEN 1 ELSE 0]
    BY <1>2, <1>4
  <2> QED
    BY <2>1, <2>2 DEF Minutes
<1>5. ASSUME NEW d \in days, ~ (counted /\ d = DayOf(t))
      PROVE  d \in DOMAIN h[s] /\ g[d] = h[s][d]
  BY <1>2, <1>5
<1> HIDE DEF counts
<1>6. DOMAIN g \subseteq KeptDays(t) /\ DOMAIN h[s] \cap KeptDays(t) \subseteq DOMAIN g
  BY <1>3
<1> HIDE DEF g
<1>7. \A d \in DOMAIN g :
         \/ /\ counted /\ d = DayOf(t)
            /\ g[d].measured = DayCounts(h[s], d).measured + 1
            /\ g[d].down \in {DayCounts(h[s], d).down, DayCounts(h[s], d).down + 1}
            /\ g[d] \in Minutes
         \/ d \in DOMAIN h[s] /\ g[d] = h[s][d]
  BY <1>3, <1>4, <1>5
<1> QED
  BY <1>6, <1>7 DEF g

LEMMA AddedMinuteType ==
    ASSUME NEW h, IsHistory(h), NEW states \in States, NEW t \in Nat
    PROVE  IsHistory(AddMinute(h, states, t))
<1> DEFINE next == AddMinute(h, states, t)
<1>1. DOMAIN next = SURFACES
  BY DEF AddMinute
<1>2. ASSUME NEW s \in SURFACES
      PROVE  /\ DOMAIN next[s] \subseteq Nat
             /\ \A d \in DOMAIN next[s] : next[s][d] \in Minutes
  <2>1. /\ DOMAIN next[s] \subseteq KeptDays(t)
        /\ \A d \in DOMAIN next[s] :
              next[s][d] \in Minutes \/ (d \in DOMAIN h[s] /\ next[s][d] = h[s][d])
    BY <1>2, AddedMinute
  <2> QED
    BY <2>1 DEF IsHistory, KeptDays
<1> QED
  BY <1>1, <1>2 DEF IsHistory

(***************************************************************************)
(* One minute preserves what is true of a history.                         *)
(***************************************************************************)
LEMMA AddMinuteInv ==
    ASSUME NEW h, NEW states \in States, NEW t \in Nat, HistoryInv(h, t)
    PROVE  HistoryInv(AddMinute(h, states, t + 1), t + 1)
<1> DEFINE next == AddMinute(h, states, t + 1)
           today == DayOf(t + 1)
<1>1. IsHistory(next) /\ IsHistory(h)
  BY AddedMinuteType DEF HistoryInv
<1>2. /\ today \in Nat
      /\ today * DayMinutes <= t + 1
      /\ t + 1 < today * DayMinutes + DayMinutes
      /\ DayOf(t) \in Nat
      /\ today = DayOf(t) \/ today = DayOf(t) + 1
  BY DayBounds, NextDay
<1> HIDE DEF today
<1>3. ASSUME NEW s \in SURFACES, NEW d \in DOMAIN next[s]
      PROVE  /\ d <= today
             /\ next[s][d].down <= next[s][d].measured
             /\ next[s][d].measured <= DayMinutes
             /\ d = today => next[s][d].measured + d * DayMinutes <= t + 2
  <2> DEFINE g == next[s]
  <2>1. d \in KeptDays(t + 1) /\ d \in Nat /\ d <= today
    <3>1. DOMAIN next[s] \subseteq KeptDays(t + 1)
      BY <1>1, <1>3, AddedMinute
    <3> QED
      BY <1>3, <3>1 DEF KeptDays, today
  <2> DEFINE was == DayCounts(h[s], d)
  <2>2. CASE /\ d = today
             /\ g[d].measured = was.measured + 1
             /\ g[d].down \in {was.down, was.down + 1}
    <3>2. /\ was \in Minutes
          /\ was.down <= was.measured
          /\ was.measured + d * DayMinutes <= t + 1
      <4>1. CASE d \in DOMAIN h[s]
        <5>1. d <= DayOf(t) /\ was = h[s][d]
          BY <4>1, <1>3 DEF HistoryInv, DayCounts
        <5>2. d = DayOf(t)
          BY <1>2, <2>2, <5>1
        <5>3. /\ h[s][d].down <= h[s][d].measured
              /\ h[s][d].measured + d * DayMinutes <= t + 1
              /\ h[s][d] \in Minutes
          BY <4>1, <1>1, <1>3, <5>2 DEF HistoryInv, IsHistory
        <5> QED
          BY <5>1, <5>3
      <4>2. CASE d \notin DOMAIN h[s]
        <5>1. was = NoMinutes
          BY <4>2 DEF DayCounts
        <5> QED
          BY <5>1, <1>2, <2>2 DEF NoMinutes, Minutes
      <4> QED
        BY <4>1, <4>2
    <3>3. was.measured \in Nat /\ was.down \in Nat
      BY <3>2 DEF Minutes
    <3> DEFINE dM == d * DayMinutes
    <3>4. dM \in Nat /\ was.measured + dM <= t + 1 /\ t + 1 < dM + DayMinutes
      BY <1>2, <2>1, <2>2, <3>2
    <3> HIDE DEF was, dM, g
    <3>5. /\ g[d].down <= g[d].measured
          /\ g[d].measured <= DayMinutes
          /\ g[d].measured + dM <= t + 2
      BY <2>2, <3>2, <3>3, <3>4
    <3> QED
      BY <2>1, <3>5 DEF g, dM
  <2>3. CASE d \in DOMAIN h[s] /\ g[d] = h[s][d]
    <3>2. /\ d <= DayOf(t)
          /\ h[s][d] \in Minutes
          /\ h[s][d].down <= h[s][d].measured
          /\ h[s][d].measured <= DayMinutes
          /\ d = DayOf(t) => h[s][d].measured + d * DayMinutes <= t + 1
      BY <1>1, <1>3, <2>3 DEF HistoryInv, IsHistory
    <3>3. d = today => d = DayOf(t)
      BY <1>2, <2>1, <3>2
    <3> DEFINE dM == d * DayMinutes
    <3>4. dM \in Nat /\ h[s][d].measured \in Nat
      BY <2>1, <3>2 DEF Minutes
    <3>5. d = today => h[s][d].measured + dM <= t + 2
      <4> HIDE DEF dM
      <4>1. d = today => h[s][d].measured + dM <= t + 1
        BY <3>2, <3>3 DEF dM
      <4> QED
        BY <3>4, <4>1
    <3> QED
      BY <2>1, <2>3, <3>2, <3>5
  <2> QED
    BY <1>1, <1>3, <2>2, <2>3, AddedMinute DEF today
<1> QED
  BY <1>1, <1>3 DEF HistoryInv, today

\* And so does a minute that counts nothing.
LEMMA HistoryInvMonotone ==
    ASSUME NEW h, NEW t \in Nat, HistoryInv(h, t)
    PROVE  HistoryInv(h, t + 1)
<1>1. IsHistory(h)
  BY DEF HistoryInv
<1>2. DayOf(t) \in Nat /\ (DayOf(t + 1) = DayOf(t) \/ DayOf(t + 1) = DayOf(t) + 1)
  BY DayBounds, NextDay
<1>3. ASSUME NEW s \in SURFACES, NEW d \in DOMAIN h[s]
      PROVE  /\ d <= DayOf(t + 1)
             /\ h[s][d].down <= h[s][d].measured
             /\ h[s][d].measured <= DayMinutes
             /\ d = DayOf(t + 1) => h[s][d].measured + d * DayMinutes <= t + 2
  <2>1. /\ d \in Nat /\ h[s][d] \in Minutes
        /\ d <= DayOf(t)
        /\ h[s][d].down <= h[s][d].measured
        /\ h[s][d].measured <= DayMinutes
        /\ d = DayOf(t) => h[s][d].measured + d * DayMinutes <= t + 1
    BY <1>1, <1>3 DEF HistoryInv, IsHistory
  <2> DEFINE dM == d * DayMinutes
  <2>2. dM \in Nat /\ h[s][d].measured \in Nat
    BY <2>1 DEF Minutes
  <2>3. d = DayOf(t) => h[s][d].measured + dM <= t + 1
    BY <2>1
  <2> HIDE DEF dM
  <2>4. d = DayOf(t + 1) => h[s][d].measured + dM <= t + 2
    BY <1>2, <2>1, <2>2, <2>3
  <2> QED
    BY <1>2, <2>1, <2>4 DEF dM
<1> QED
  BY <1>1, <1>3 DEF HistoryInv

LEMMA NewHistoryInv ==
    ASSUME NEW t \in Nat
    PROVE  HistoryInv(NewHistory, t)
  BY DEF HistoryInv, NewHistory, IsHistory

\* A history has surfaces, a damaged file has none.
LEMMA NotDamaged ==
    ASSUME NEW h, IsHistory(h)
    PROVE  h # DamagedHistory
<1>1. DOMAIN DamagedHistory = {} /\ DOMAIN h = SURFACES
  BY DEF DamagedHistory, IsHistory
<1> QED
  BY <1>1

(***************************************************************************)
(* What covers a file still covers it a minute later, counted or not.      *)
(***************************************************************************)
LEMMA AddMinuteCovers ==
    ASSUME NEW h, NEW f, NEW states \in States, NEW t \in Nat,
           IsHistory(h), HistoryInv(f, t), Covers(h, f, t)
    PROVE  Covers(AddMinute(h, states, t + 1), f, t + 1)
<1> DEFINE next == AddMinute(h, states, t + 1)
<1> SUFFICES ASSUME NEW s \in SURFACES, NEW d \in DOMAIN f[s], d \in KeptDays(t + 1)
             PROVE  /\ d \in DOMAIN next[s]
                    /\ f[s][d].measured <= next[s][d].measured
                    /\ f[s][d].down <= next[s][d].down
  BY DEF Covers
<1>1. d \in Nat /\ f[s][d] \in Minutes /\ d <= DayOf(t)
  BY DEF HistoryInv, IsHistory
<1>2. d \in KeptDays(t)
  BY <1>1, KeptBefore
<1>3. /\ d \in DOMAIN h[s]
      /\ f[s][d].measured <= h[s][d].measured
      /\ f[s][d].down <= h[s][d].down
      /\ h[s][d] \in Minutes
  BY <1>2 DEF Covers, IsHistory
<1>4. d \in DOMAIN next[s]
  BY <1>3, AddedMinute
<1>5. /\ next[s][d].measured \in {h[s][d].measured, h[s][d].measured + 1}
      /\ next[s][d].down \in {h[s][d].down, h[s][d].down + 1}
  <2>1. DayCounts(h[s], d) = h[s][d]
    BY <1>3 DEF DayCounts
  <2> QED
    BY <1>4, <2>1, AddedMinute
<1> QED
  BY <1>1, <1>3, <1>4, <1>5 DEF Minutes

LEMMA CoversMonotone ==
    ASSUME NEW h, NEW f, NEW t \in Nat, HistoryInv(f, t), Covers(h, f, t)
    PROVE  Covers(h, f, t + 1)
  BY KeptBefore DEF Covers, HistoryInv

LEMMA CoversItself ==
    ASSUME NEW h, NEW t \in Nat, IsHistory(h)
    PROVE  Covers(h, h, t)
<1>1. \A s \in SURFACES : \A d \in DOMAIN h[s] :
         h[s][d].measured \in Nat /\ h[s][d].down \in Nat
  BY DEF IsHistory, Minutes
<1> QED
  BY <1>1 DEF Covers

(***************************************************************************)
(* The invariant of the specification.                                     *)
(***************************************************************************)
LEMMA HistoryStarts == InitHistory => HistoryIInv
<1> SUFFICES ASSUME InitHistory PROVE HistoryIInv
  OBVIOUS
<1>1. HistoryInv(NewHistory, 0) /\ IsHistory(NewHistory) /\ NewHistory # DamagedHistory
  BY NewHistoryInv, NotDamaged DEF HistoryInv
<1> QED
  BY <1>1 DEF InitHistory, HistoryIInv

LEMMA HistorySteps == HistoryIInv /\ [NextHistory]_historyVars => HistoryIInv'
<1> SUFFICES ASSUME HistoryIInv, [NextHistory]_historyVars
             PROVE  HistoryIInv'
  OBVIOUS
<1>1. /\ clock \in Nat
      /\ HistoryInv(history, clock) /\ IsHistory(history) /\ history # DamagedHistory
      /\ volume # DamagedHistory => HistoryInv(volume, clock) /\ IsHistory(volume)
      /\ HistoryInv(rendered.days, clock)
      /\ step # "down" /\ volume # DamagedHistory => Covers(history, volume, clock)
  BY DEF HistoryIInv, HistoryInv
<1>2. HistoryInv(NewHistory, clock) /\ IsHistory(NewHistory) /\ NewHistory # DamagedHistory
  BY <1>1, NewHistoryInv, NotDamaged DEF HistoryInv
<1>3. CASE StartPage
  <2>1. HistoryInv(history', clock) /\ IsHistory(history') /\ history' # DamagedHistory
    BY <1>1, <1>2, <1>3 DEF StartPage, StartHistory
  <2>2. volume # DamagedHistory => history' = volume
    BY <1>3 DEF StartPage, StartHistory
  <2>3. volume # DamagedHistory => Covers(history', volume, clock)
    BY <1>1, <2>2, CoversItself
  <2> QED
    BY <1>1, <1>3, <2>1, <2>3 DEF StartPage, HistoryIInv
<1>4. ASSUME NEW states \in States, CountMinute(states)
      PROVE  HistoryIInv'
  <2>1. /\ clock' = clock + 1 /\ history' = AddMinute(history, states, clock + 1)
        /\ volume' = volume /\ rendered' = rendered /\ step = "idle" /\ step' = "save_history"
    BY <1>4 DEF CountMinute
  <2>2. HistoryInv(history', clock')
    BY <1>1, <2>1, AddMinuteInv
  <2>3. IsHistory(history') /\ history' # DamagedHistory
    BY <2>2, NotDamaged DEF HistoryInv
  <2>4. volume' # DamagedHistory => HistoryInv(volume', clock')
    BY <1>1, <2>1, HistoryInvMonotone
  <2>5. volume' # DamagedHistory => Covers(history', volume', clock')
    BY <1>1, <2>1, AddMinuteCovers
  <2>6. HistoryInv(rendered'.days, clock')
    BY <1>1, <2>1, HistoryInvMonotone
  <2> QED
    BY <1>1, <2>1, <2>2, <2>3, <2>4, <2>5, <2>6 DEF HistoryIInv
<1>5. ASSUME NEW ok \in BOOLEAN, SaveHistory(ok)
      PROVE  HistoryIInv'
  <2>1. Covers(history, history, clock)
    BY <1>1, CoversItself
  <2> QED
    BY <1>1, <1>5, <2>1 DEF SaveHistory, HistoryIInv
<1>6. CASE RenderHistory
  BY <1>1, <1>6 DEF RenderHistory, HistoryIInv
<1>7. CASE UncountedMinute
  <2>1. clock' = clock + 1 /\ UNCHANGED <<step, history, volume, rendered>>
    BY <1>7 DEF UncountedMinute
  <2>2. /\ HistoryInv(history, clock + 1)
        /\ volume # DamagedHistory => HistoryInv(volume, clock + 1)
        /\ HistoryInv(rendered.days, clock + 1)
        /\ step # "down" /\ volume # DamagedHistory => Covers(history, volume, clock + 1)
    BY <1>1, HistoryInvMonotone, CoversMonotone
  <2> QED
    BY <1>1, <2>1, <2>2 DEF HistoryIInv
<1>8. ASSUME NEW damages \in BOOLEAN, PodDies(damages)
      PROVE  HistoryIInv'
  BY <1>1, <1>2, <1>8 DEF PodDies, HistoryIInv
<1>9. CASE UNCHANGED historyVars
  BY <1>1, <1>9 DEF historyVars, HistoryIInv
<1> QED
  BY <1>3, <1>4, <1>5, <1>6, <1>7, <1>8, <1>9 DEF NextHistory

LEMMA HistoryInvariance == SpecHistory => []HistoryIInv
  BY HistoryStarts, HistorySteps, PTL DEF SpecHistory

LEMMA HistoryTypes == HistoryIInv => HistoryTypeOK
<1>1. ASSUME NEW h, HistoryInv(h, clock), clock \in Nat
      PROVE  IsHistory(h) /\ NoDayToCome(h)
  BY <1>1, DayBounds DEF HistoryInv, IsHistory, NoDayToCome
<1> QED
  BY <1>1 DEF HistoryIInv, HistoryTypeOK

\* Memory, file and page stay histories of the page's surfaces, with counts of
\* days up to today only.
THEOREM HistoryTypeCorrect == SpecHistory => []HistoryTypeOK
  BY HistoryTypes, HistoryInvariance, PTL

(***************************************************************************)
(* However often the page restarts, within a minute or over midnight, a    *)
(* day never holds more minutes than it has had.                           *)
(***************************************************************************)
THEOREM CountsOnce == SpecHistory => []NoMinuteCountedTwice
<1>1. ASSUME NEW h, IsHistory(h), HistoryInv(h, clock), clock \in Nat
      PROVE  CountedOnce(h)
  <2> SUFFICES ASSUME NEW s \in SURFACES, NEW d \in 0 .. DayOf(clock), d \in DOMAIN h[s]
               PROVE  /\ h[s][d].down <= h[s][d].measured
                      /\ h[s][d].measured <= DayMinutes
                      /\ d = DayOf(clock) => h[s][d].measured <= clock + 1 - d * DayMinutes
    BY DEF CountedOnce, DaysOf
  <2>1. /\ h[s][d].measured \in Nat
        /\ h[s][d].down <= h[s][d].measured
        /\ h[s][d].measured <= DayMinutes
        /\ d = DayOf(clock) => h[s][d].measured + d * DayMinutes <= clock + 1
    BY <1>1 DEF HistoryInv, IsHistory, Minutes
  <2>2. d \in Nat /\ d * DayMinutes \in Nat
    BY <1>1, DayBounds
  <2> DEFINE dM == d * DayMinutes
  <2> HIDE DEF dM
  <2>3. d = DayOf(clock) => h[s][d].measured <= clock + 1 - dM
    BY <1>1, <2>1, <2>2 DEF dM
  <2> QED
    BY <2>1, <2>3 DEF dM
<1>2. HistoryIInv => NoMinuteCountedTwice
  BY <1>1 DEF HistoryIInv, NoMinuteCountedTwice, HistoryInv
<1> QED
  BY <1>2, HistoryInvariance, PTL

(***************************************************************************)
(* No crash, refused save or restart takes a stored minute of a kept day   *)
(* from the volume.                                                        *)
(***************************************************************************)
THEOREM NeverShrink == SpecHistory => StoredMinutesNeverShrink
<1>1. ASSUME HistoryIInv, NextHistory, volume # DamagedHistory, volume' # DamagedHistory,
             NEW s \in SURFACES, NEW d \in 0 .. DayOf(clock), d \in DOMAIN volume[s],
             d \in KeptDays(clock')
      PROVE  /\ d \in DOMAIN volume'[s]
             /\ volume[s][d].measured <= volume'[s][d].measured
             /\ volume[s][d].down <= volume'[s][d].down
  <2>1. clock \in Nat /\ IsHistory(volume) /\ Covers(volume, volume, clock)
    BY <1>1, CoversItself DEF HistoryIInv, HistoryInv
  <2>2. CASE volume' = volume
    <3>1. volume[s][d].measured \in Nat /\ volume[s][d].down \in Nat
      BY <1>1, <2>1 DEF IsHistory, Minutes
    <3> QED
      BY <1>1, <2>2, <3>1
  <2>3. CASE SaveHistory(TRUE)
    <3>1. Covers(history, volume, clock) /\ volume' = history /\ clock' = clock
      BY <1>1, <2>3 DEF SaveHistory, HistoryIInv
    <3> QED
      BY <1>1, <3>1 DEF Covers
  <2>4. volume' = volume \/ SaveHistory(TRUE)
    BY <1>1 DEF NextHistory, StartPage, CountMinute, SaveHistory, RenderHistory, UncountedMinute, PodDies
  <2> QED
    BY <2>2, <2>3, <2>4
<1>2. ASSUME HistoryIInv, NextHistory
      PROVE  volume # DamagedHistory /\ volume' # DamagedHistory =>
                \A sd \in DaysOf(volume) :
                   LET s == sd[1]
                       d == sd[2]
                   IN  d \in KeptDays(clock') =>
                          /\ d \in DOMAIN volume'[s]
                          /\ volume[s][d].measured <= volume'[s][d].measured
                          /\ volume[s][d].down <= volume'[s][d].down
  BY <1>1, <1>2 DEF DaysOf
<1> QED
  BY <1>2, HistoryInvariance, PTL DEF SpecHistory, StoredMinutesNeverShrink
=============================================================================
