------------------------------- MODULE EventList -------------------------------
(***************************************************************************)
(* The city's events (helsinki-events): a search and a range of days, the  *)
(* events per day and per register, the map and the list. A bar picks its  *)
(* day or register; the charts and the map are drawn again by effects.     *)
(***************************************************************************)
EXTENDS Naturals, FiniteSets

CONSTANTS
  Events,    \* id |-> [first, last, register, at]: days, 0 for a date not given; whether it has a place
  Days,      \* the last day followed
  Window,    \* days of the chart, 30
  Many,      \* rows from which the map draws with the overlay, 50 000
  Finds,     \* the ids each search finds
  MaxInputs

Ids == DOMAIN Events
ConstantsOK ==
  /\ Days \in Nat \ {0} /\ Window \in 1..Days /\ Many \in Nat /\ Finds \subseteq SUBSET Ids /\ MaxInputs \in Nat
  /\ \A id \in Ids : Events[id].first \in 0..Days /\ Events[id].last \in 0..Days /\ Events[id].at \in BOOLEAN

VARIABLES
  page,    \* [rows, loading, error, finds, from, to, day, register, open]
  server,  \* what the page draws with: [days, registers, map]
  calls,   \* [rows, map]: the read of the events, the map being made
  seen     \* [inputs, moved]: turns of the reader, among them of the map

vars == <<page, server, calls, seen>>

None == "none"
Today == 1

\* The first and the last day of an event; a missing date is the other one.
DaysOf(id) ==
  LET e == Events[id] IN
  IF e.first = 0 /\ e.last = 0 THEN {} ELSE (IF e.first = 0 THEN e.last ELSE e.first)..(IF e.last = 0 THEN e.first ELSE e.last)
OnDay(id, day) == day \in DaysOf(id)
\* The events a reader asked for: overlapping the range, found by the search, of the day and the register.
Overlaps(id, from, to) == DaysOf(id) = {} \/ ((from = 0 \/ \E d \in DaysOf(id) : d >= from) /\ (to = 0 \/ \E d \in DaysOf(id) : d <= to))
FilterEvents(rows, finds, from, to, day, register) ==
  {id \in rows : id \in finds /\ Overlaps(id, from, to) /\ (day # 0 => OnDay(id, day)) /\ (register # None => Events[id].register = register)}

\* Mutant before it: a day counts the events that open on it.
PerDay_Opening(rows, from) == [d \in from..(from + Window - 1) |-> Cardinality({id \in rows : Events[id].first = d})]
\* How many events take place on each day of the chart, the empty days included.
PerDay(rows, from) == [d \in from..(from + Window - 1) |-> Cardinality({id \in rows : OnDay(id, d)})]
ByRegister(rows) == [r \in {Events[id].register : id \in rows} |-> Cardinality({id \in rows : Events[id].register = r})]
Located(id) == Events[id].at

Ranged(p) == FilterEvents(p.rows, p.finds, p.from, p.to, 0, None)
Shown(p) == FilterEvents(Ranged(p), Ids, 0, 0, p.day, p.register)
Mapped(p) == {id \in Shown(p) : Located(id)}
Waiting(p) == p.loading /\ p.rows = {}

\* The bars of the chart, nothing when no day has one; the registers', nothing when there is none.
Nothing == << >>
PerDayOption(counts) == IF \A d \in DOMAIN counts : counts[d] = 0 THEN Nothing ELSE counts
RegisterOption(counts) == IF DOMAIN counts = {} THEN Nothing ELSE counts
DayBars(p) == IF p.error THEN Nothing ELSE PerDayOption(PerDay(Ranged(p), IF p.from = 0 THEN Today ELSE p.from))
RegisterBars(p) == IF p.error THEN Nothing ELSE RegisterOption(ByRegister(Ranged(p)))

NoChart == [canvas |-> FALSE, option |-> Nothing, drawn |-> Nothing]
\* A canvas that appears is a new chart with nothing on it; the option is set when it or the canvas changes.
Drawn(c, canvas, option) ==
  IF canvas /\ (option # c.option \/ canvas # c.canvas) THEN option ELSE IF canvas # c.canvas THEN Nothing ELSE c.drawn
ChartCard(c, option, loading) ==
  LET canvas == ~loading /\ option # Nothing IN
  [canvas |-> canvas, option |-> option, drawn |-> Drawn(c, canvas, option)]

NoMap == [ready |-> FALSE, source |-> {}, overlay |-> {}, fitted |-> FALSE, camera |-> {}]
RenderPath(n) == IF n >= Many THEN "deck-points" ELSE "maplibre"
\* Mutant before it: the overlay takes over and the source keeps its rows.
Painted_Both(m, rows) ==
  IF RenderPath(Cardinality(rows)) = "maplibre" THEN [m EXCEPT !.overlay = {}, !.source = rows] ELSE [m EXCEPT !.overlay = rows]
\* The rows go to the source, or from Many of them to the overlay, and leave the other.
Painted(m, rows) ==
  IF RenderPath(Cardinality(rows)) = "maplibre" THEN [m EXCEPT !.overlay = {}, !.source = rows] ELSE [m EXCEPT !.source = {}, !.overlay = rows]
\* Mutant before it: every drawing fits the camera.
Fits_Again(m, rows) == IF rows # {} THEN [m EXCEPT !.fitted = TRUE, !.camera = rows] ELSE m
\* The camera fits the first rows there are, once.
Fits(m, rows) == IF ~m.fitted /\ rows # {} THEN [m EXCEPT !.fitted = TRUE, !.camera = rows] ELSE m
EntityMap(m, rows) == IF m.ready THEN Fits(Painted(m, rows), rows) ELSE m

Renders(p, s) ==
  [days |-> ChartCard(s.days, DayBars(p), Waiting(p)), registers |-> ChartCard(s.registers, RegisterBars(p), Waiting(p)), map |-> EntityMap(s.map, Mapped(p))]
Shows(p) == page' = p /\ server' = Renders(p, server)

Init ==
  /\ page = [rows |-> {}, loading |-> TRUE, error |-> FALSE, finds |-> Ids, from |-> Today, to |-> 0, day |-> 0, register |-> None, open |-> None]
  /\ server = [days |-> NoChart, registers |-> NoChart, map |-> NoMap]
  /\ calls = [rows |-> TRUE, map |-> "asked"]
  /\ seen = [inputs |-> 0, moved |-> FALSE]

Input == seen.inputs < MaxInputs /\ seen' = [seen EXCEPT !.inputs = @ + 1]
RowsArrive(rows, ok) ==
  /\ calls.rows
  /\ Shows([page EXCEPT !.loading = FALSE, !.error = ~ok, !.rows = IF ok THEN {id \in rows : DaysOf(id) # {} => \E d \in DaysOf(id) : d >= Today} ELSE @])
  /\ calls' = [calls EXCEPT !.rows = FALSE] /\ UNCHANGED seen
Retry == page.error /\ Input /\ Shows([page EXCEPT !.loading = TRUE, !.error = FALSE]) /\ calls' = [calls EXCEPT !.rows = TRUE]

\* The map is made when its worker is there, and takes rows when it has loaded.
MapReady == calls.map = "asked" /\ calls' = [calls EXCEPT !.map = "made"] /\ UNCHANGED <<page, server, seen>>
MapLoads ==
  /\ calls.map = "made" /\ calls' = [calls EXCEPT !.map = "done"]
  /\ server' = [server EXCEPT !.map = EntityMap([@ EXCEPT !.ready = TRUE], Mapped(page))]
  /\ UNCHANGED <<page, seen>>
\* The reader moves the map, or clicks a circle of several events, which zooms in.
MapMoved ==
  /\ server.map.fitted /\ ~seen.moved /\ seen.inputs < MaxInputs /\ seen' = [inputs |-> seen.inputs + 1, moved |-> TRUE]
  /\ server' = [server EXCEPT !.map.camera = {None}] /\ UNCHANGED <<page, calls>>

Turn(p) == p # page /\ Input /\ Shows(p) /\ UNCHANGED calls
Search(finds) == Turn([page EXCEPT !.finds = finds])
From(day) == Turn([page EXCEPT !.from = day])
To(day) == Turn([page EXCEPT !.to = day])
\* A bar that is picked already is let go.
PickDay(day) == server.days.canvas /\ day \in DOMAIN server.days.drawn /\ Turn([page EXCEPT !.day = IF @ = day THEN 0 ELSE day])
PickRegister(r) == server.registers.canvas /\ r \in DOMAIN server.registers.drawn /\ Turn([page EXCEPT !.register = IF @ = r THEN None ELSE r])
LetGo ==
  \/ page.day # 0 /\ Turn([page EXCEPT !.day = 0])
  \/ page.register # None /\ Turn([page EXCEPT !.register = None])
Reset == Turn([page EXCEPT !.finds = Ids, !.from = Today, !.to = 0, !.day = 0, !.register = None])
\* An event opens from its card in the list, or from its point: the row the page holds now.
Cards == IF Waiting(page) THEN {} ELSE Shown(page)
Open(id) == id \in Cards \cup ((server.map.source \cup server.map.overlay) \cap Mapped(page)) /\ Turn([page EXCEPT !.open = id])

Next ==
  \/ \E rows \in SUBSET Ids, ok \in BOOLEAN : RowsArrive(rows, ok)
  \/ Retry \/ MapReady \/ MapLoads \/ MapMoved \/ LetGo \/ Reset
  \/ \E finds \in Finds : Search(finds)
  \/ \E day \in 0..Days : From(day) \/ To(day) \/ PickDay(day)
  \/ \E r \in {Events[id].register : id \in Ids} : PickRegister(r)
  \/ \E id \in Ids : Open(id)

Spec == Init /\ [][Next]_vars

TypeOK ==
  /\ page.rows \subseteq Ids /\ page.from \in 0..Days /\ page.to \in 0..Days /\ page.day \in 0..(Days + Window) /\ page.open \in Ids \cup {None}
  /\ server.map.source \cup server.map.overlay \subseteq Ids /\ seen.inputs \in 0..MaxInputs

\* events.ts:119 -- a bar promises as many events as its click lists: the chart counts, and the list filters,
\* the same days of the same events, a festival on every one of its days.
BarsAreTheList ==
  /\ server.days.canvas /\ page.day \in DOMAIN server.days.drawn /\ page.register = None => Cardinality(Shown(page)) = server.days.drawn[page.day]
  /\ server.registers.canvas /\ page.register \in DOMAIN server.registers.drawn /\ page.day = 0
     => Cardinality(Shown(page)) = server.registers.drawn[page.register]
\* ChartCard.tsx:51, EntityMap.tsx:266 -- what is drawn is what is shown: a canvas that came back, a map that
\* was ready late, the overlay taking over from the source. The camera stays where the reader put it.
DrawnIsShown ==
  /\ server.days.canvas => server.days.drawn = server.days.option
  /\ server.registers.canvas => server.registers.drawn = server.registers.option
  /\ server.map.ready => server.map.source \cup server.map.overlay = Mapped(page) /\ {} \in {server.map.source, server.map.overlay}
  /\ seen.moved => server.map.camera = {None}

(***************************************************************************)
(* Why: a chart is drawn again whenever its canvas or its option changes,  *)
(* and the camera is fitted before the reader can move it.                 *)
(***************************************************************************)
AgendaInv ==
  /\ server = [days |-> server.days, registers |-> server.registers, map |-> server.map]
  /\ server.map = [ready |-> server.map.ready, source |-> server.map.source, overlay |-> server.map.overlay,
                   fitted |-> server.map.fitted, camera |-> server.map.camera]
  /\ seen = [inputs |-> seen.inputs, moved |-> seen.moved]
  /\ DrawnIsShown /\ (seen.moved => server.map.fitted)
=============================================================================
