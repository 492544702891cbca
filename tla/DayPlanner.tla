------------------------------- MODULE DayPlanner -------------------------------
(***************************************************************************)
(* A visitor's day (event-day-planner): the day, the words, the hour and   *)
(* the picks in the address, the events read from the day on, the plan a   *)
(* worker makes of them, its line on the map, and days shared by a link.   *)
(* Times are hours; a day is 24 of them.                                   *)
(***************************************************************************)
EXTENDS Integers, FiniteSets, Sequences, TLC
LOCAL INSTANCE SequencesExt
LOCAL INSTANCE Functions
LOCAL INSTANCE FiniteSetsExt

CONSTANTS
  Ids,        \* the events, in the order of their ids
  Events,     \* event |-> [first, last, cancelled, at: a place or ""]
  Named,      \* words |-> the events that have them
  Featured,   \* the events a steward featured
  Walks,      \* pairs of places |-> the hours on foot between them, rounded up
  Now,        \* the hour it is
  Links,      \* what an address may carry: [day, q, hour, pick, share]
  Shared,     \* the codes kept already |-> [day, picks]
  Suggested,  \* how many events a suggested day holds at most
  MaxInputs

None == -2
Bad == -1
Default == [day |-> None, q |-> "", hour |-> None, pick |-> << >>, share |-> ""]
ConstantsOK ==
  /\ ToSet(Ids) = DOMAIN Events /\ \A e \in DOMAIN Events : Events[e].first <= Events[e].last
  /\ \A link \in Links : DOMAIN link = DOMAIN Default /\ (link.q = "" \/ link.q \in DOMAIN Named)
  /\ Now \in Nat /\ Suggested \in Nat /\ MaxInputs \in Nat

VARIABLES
  page,    \* the components' state, see Init
  server,  \* [kept: code |-> [day, picks]]
  calls,   \* [rows: the hour the events are read from, None without; runs: the worker's queue, the newest marked; opens; shares: under way]
  seen     \* [inputs: turns of the visitor, a shared day opened one of them; opened: the view is a share's; sent: what the plan had when it was shared]

vars == <<page, server, calls, seen>>

Lower(a, b) == IF a < b THEN a ELSE b
Higher(a, b) == IF a > b THEN a ELSE b
Place(e) == SelectInSeq(Ids, LAMBDA id : id = e)
InTurn(es) == SelectSeq(Ids, LAMBDA id : id \in es)
SlotsInTurn(slots) == LET ids == InTurn({s.id : s \in slots}) IN [i \in DOMAIN ids |-> CHOOSE s \in slots : s.id = ids[i]]

-----------------------------------------------------------------------------
\* The planner. An event's part of the day, and whether the visitor sits through it or drops by for an hour.
Slot(e, start) ==
  LET from == Higher(Events[e].first, start)  to == Lower(Events[e].last, start + 24)  whole == to - from <= 3 IN
  [id |-> e, start |-> from, end |-> to, whole |-> whole, stay |-> IF whole THEN to - from ELSE 1]
Walk(from, to) == IF from = "" \/ to = "" \/ from = to THEN 0 ELSE Walks[from, to]
\* One stop more: there on foot from the last one, in time, late, or not at all; one missed costs nothing.
Stopped(day, s, here) ==
  LET at == Events[s.id].at  walk == IF day.first THEN 0 ELSE Walk(day.here, at)
      arrive == IF day.clock = None THEN s.start ELSE day.clock + walk
      begin == Higher(arrive, s.start)  late == Higher(arrive - s.start, 0)
      fit == IF s.whole THEN (IF arrive >= s.end THEN "missed" ELSE IF late > 0 THEN "late" ELSE "ok")
             ELSE IF begin + s.stay <= s.end THEN "ok" ELSE "missed"
      finish == IF fit = "missed" THEN (IF s.whole THEN arrive ELSE begin) ELSE IF s.whole THEN s.end ELSE begin + s.stay
      items == Append(day.items, [id |-> s.id, begin |-> begin, finish |-> finish, walk |-> walk, fit |-> fit]) IN
  IF fit = "missed" THEN [day EXCEPT !.items = items]
  ELSE [items |-> items, clock |-> finish, here |-> here, first |-> FALSE,
        fitted |-> day.fitted + 1, late |-> day.late + (IF fit = "late" THEN late ELSE 0), walked |-> day.walked + walk]
\* Mutant before it: after an event without a place nobody knows where the visitor is.
Stop_Lost(day, s) == Stopped(day, s, Events[s.id].at)
Stop(day, s) == Stopped(day, s, IF Events[s.id].at = "" THEN day.here ELSE Events[s.id].at)
Schedule(order, start) ==
  FoldLeft(Stop, [items |-> << >>, clock |-> start, here |-> "", first |-> TRUE, fitted |-> 0, late |-> 0, walked |-> 0], order)
\* More stops in time, then fewer hours late, then less walking.
Better(a, b) ==
  \/ a.fitted > b.fitted
  \/ a.fitted = b.fitted /\ (a.late < b.late \/ (a.late = b.late /\ a.walked < b.walked))
Starting(a, b) == a.start < b.start \/ (a.start = b.start /\ (a.end < b.end \/ (a.end = b.end /\ Place(a.id) < Place(b.id))))
Ending(a, b) == a.end < b.end \/ (a.end = b.end /\ (a.start < b.start \/ (a.start = b.start /\ Place(a.id) < Place(b.id))))
\* The order of their starts, unless another is better; every order of up to eight is tried.
BestOrder(slots, start) ==
  LET byStart == SortSeq(SlotsInTurn(slots), Starting)
      tried == {[order |-> order, day |-> Schedule(order, start)] : order \in SetToSeqs(slots)}
      better == {try \in tried : Better(try.day, Schedule(byStart, start))} IN
  IF better = {} THEN byStart ELSE (CHOOSE try \in better : \A other \in better : ~Better(other.day, try.day)).order
\* A day for who chose nothing: by their end, those reached on foot before they start.
Suggest(slots, start) ==
  FoldLeft(LAMBDA day, s :
             IF Len(day.picked) < Suggested
                /\ (day.clock = None \/ day.clock + (IF day.picked = << >> THEN 0 ELSE Walk(day.here, Events[s.id].at)) <= s.start)
             THEN [picked |-> Append(day.picked, s), clock |-> s.end, here |-> IF Events[s.id].at = "" THEN day.here ELSE Events[s.id].at] ELSE day,
           [picked |-> << >>, clock |-> start, here |-> ""], SortSeq(SlotsInTurn({s \in slots : s.whole}), Ending)).picked
\* What the worker is given, and its answer.
Run(input) ==
  LET slots(es) == {Slot(e, input.start) : e \in es}  chosen == input.chosen \cap input.events IN
  [input |-> input, suggested |-> input.chosen = {},
   items |-> Schedule(IF input.chosen = {} THEN Suggest(slots(input.events), input.now) ELSE BestOrder(slots(chosen), input.now), input.now).items,
   conflicts |-> {{a.id, b.id} : a \in slots(chosen), b \in slots(chosen)} \cap
                 {{pair[1].id, pair[2].id} : pair \in {two \in slots(chosen) \X slots(chosen) : two[1] # two[2] /\ two[1].whole /\ two[2].whole /\ two[1].start < two[2].end /\ two[2].start < two[1].end}}]
Met(plan) == SelectSeq(plan.items, LAMBDA item : item.fit # "missed")

-----------------------------------------------------------------------------
\* The page. A day of the address that is none is today.
Today == Now \div 24
DayShown(p) == IF p.day = Bad THEN Today ELSE p.day
Start(p) == 24 * DayShown(p)
From(p) == Lower(Start(p), Now)
HourOf(p) == IF p.hour \in 0..23 THEN p.hour ELSE None
\* An event of the day: begun before its end, and not over at its start.
During(e, start) ==
  LET first == Events[e].first  last == Events[e].last IN first < start + 24 /\ (last > start \/ (last = first /\ first >= start))
StartHour(e, start) == IF Events[e].first <= start THEN 0 ELSE Events[e].first - start
EventsOfDay(es, start, q, hour) ==
  {e \in es : During(e, start) /\ (hour # None => StartHour(e, start) = hour) /\ (q # "" => e \in Named[q])}
OfDay(p) == EventsOfDay(p.rows, Start(p), "", None)
Listed(p) == EventsOfDay(OfDay(p), Start(p), p.q, HourOf(p))
\* Mutant before it: the bars are of all the day's events.
PerHour_All(p) == [h \in 0..23 |-> Cardinality({e \in OfDay(p) : StartHour(e, Start(p)) = h})]
\* How many of those the words leave start in each hour.
PerHour(p) ==
  LET counted == EventsOfDay(OfDay(p), Start(p), p.q, None) IN [h \in 0..23 |-> Cardinality({e \in counted : Lower(StartHour(e, Start(p)), 23) = h})]

Picked(p) == ToSet(p.pick)
\* Mutant before it: a cancelled event is planned like any other.
Plannable_All(p) == OfDay(p)
\* A cancelled event is planned only when the visitor chose it anyway.
Plannable(p) == {e \in OfDay(p) : Events[e].cancelled => e \in Picked(p)}
\* The visitor's hour counts today only. The reading is part of it: the same events read again are planned again.
Input(p) == [events |-> Plannable(p), start |-> Start(p), chosen |-> Picked(p) \cap p.rows, now |-> IF DayShown(p) = Today THEN Now ELSE None, gen |-> p.gen]
NoPlan == [input |-> << >>, suggested |-> TRUE, items |-> << >>, conflicts |-> {}]
Points(p) == SelectSeq(p.plan.items, LAMBDA item : item.id \in p.rows /\ Events[item.id].at # "")
\* Mutant before it: the line goes through what is missed.
Line_All(p) == [i \in DOMAIN Points(p) |-> Points(p)[i].id]
\* The line joins the stops made.
Line(p) == LET met == SelectSeq(Points(p), LAMBDA item : item.fit # "missed") IN [i \in DOMAIN met |-> met[i].id]
Drawn(p) == [points |-> {[id |-> i.id, fit |-> i.fit] : i \in ToSet(Points(p))}, line |-> IF Len(Line(p)) > 1 THEN Line(p) ELSE << >>]
Waiting(p) == p.loading /\ p.rows = {}
Says(p) == IF Waiting(p) THEN "reading" ELSE IF p.plan = NoPlan THEN "planning" ELSE IF p.plan.items = << >> THEN "noEvents" ELSE "plan"
ShareIds(p) == SelectSeq(p.pick, LAMBDA e : e \in p.rows)

\* The address: what is the default is left out.
Value(link) == [link EXCEPT !.day = IF @ = None THEN Today ELSE @]
Written(p, name, value) ==
  [p EXCEPT ![name] = value, !.address[name] = IF name = "day" /\ value = Today THEN None ELSE value]

Old(runs) == [i \in DOMAIN runs |-> [runs[i] EXCEPT !.new = FALSE]]
\* Another input is handed to the worker; the events are read anew from another hour; a link's code is opened, in the
\* language of the page; the map draws what is new and is fitted once.
Rendered(p, c) ==
  LET read == From(p) # From(page)
      opens == p.share # page.share \/ p.lang # page.lang
      bad == opens /\ p.share # "" /\ p.share = "?"
      q == [p EXCEPT !.loading = @ \/ read, !.error = @ /\ ~read, !.note = IF opens /\ p.share # "" THEN (IF bad THEN "gone" ELSE "opening") ELSE @,
                     !.share = IF bad THEN "" ELSE @, !.address.share = IF bad THEN "" ELSE @,
                     !.code = IF Says(p) = "plan" THEN @ ELSE "", !.busy = @ /\ Says(p) = "plan"]
      draws == q.ready /\ (~page.ready \/ Drawn(q) # q.drawn) IN
  /\ page' = IF draws THEN [q EXCEPT !.drawn = Drawn(q), !.fits = IF @ = 0 /\ Points(q) # << >> THEN 1 ELSE @] ELSE q
  /\ calls' = [c EXCEPT !.rows = IF read THEN From(p) ELSE @,
                        !.runs = IF Input(p) # Input(page) THEN Append(Old(@), [input |-> Input(p), new |-> TRUE]) ELSE @,
                        !.opens = IF opens THEN {[o EXCEPT !.new = FALSE] : o \in @} \cup (IF p.share = "" \/ bad THEN {} ELSE {[code |-> p.share, lang |-> p.lang, new |-> TRUE]}) ELSE @,
                        !.shares = {[s EXCEPT !.mine = @ /\ Says(p) = "plan"] : s \in @}]

Opened(link) ==
  [day |-> Value(link).day, q |-> link.q, hour |-> link.hour, pick |-> link.pick, share |-> link.share, address |-> link,
   lang |-> 1, rows |-> {}, loading |-> TRUE, error |-> FALSE, gen |-> 0, plan |-> NoPlan, failed |-> FALSE, note |-> "",
   code |-> "", busy |-> FALSE, ready |-> FALSE, drawn |-> [points |-> {}, line |-> << >>], fits |-> 0]
Init ==
  /\ \E link \in Links :
       LET p == Opened(link)  opens == link.share \notin {"", "?"} IN
       /\ page = IF link.share = "?" THEN [p EXCEPT !.share = "", !.address.share = "", !.note = "gone"] ELSE [p EXCEPT !.note = IF opens THEN "opening" ELSE ""]
       /\ calls = [rows |-> From(p), runs |-> <<[input |-> Input(p), new |-> TRUE]>>, shares |-> {},
                   opens |-> IF opens THEN {[code |-> link.share, lang |-> 1, new |-> TRUE]} ELSE {}]
  /\ server = [kept |-> Shared]
  /\ seen = [inputs |-> Cardinality(calls.opens), opened |-> "", sent |-> {}]

RowsArrive(ok) ==
  /\ calls.rows # None /\ UNCHANGED <<server, seen>>
  /\ Rendered([page EXCEPT !.loading = FALSE, !.error = ~ok, !.rows = IF ok THEN {e \in DOMAIN Events : Events[e].last >= calls.rows} ELSE @, !.gen = IF ok THEN 1 - @ ELSE @],
              [calls EXCEPT !.rows = None])
Current(run) == run.new
Answered(p, run, ok) == IF ~Current(run) THEN p ELSE IF ok THEN [p EXCEPT !.plan = Run(run.input), !.failed = FALSE] ELSE [p EXCEPT !.failed = TRUE]
WorkerAnswers(ok) ==
  /\ calls.runs # << >> /\ Rendered(Answered(page, Head(calls.runs), ok), [calls EXCEPT !.runs = Tail(@)]) /\ UNCHANGED <<server, seen>>
\* The worker stops: all that wait are refused, and another starts with the next input.
WorkerStops ==
  /\ calls.runs # << >> /\ Rendered(Answered(page, Last(calls.runs), FALSE), [calls EXCEPT !.runs = << >>]) /\ UNCHANGED <<server, seen>>

\* A shared day is put into the address, day by day and pick by pick, and the code is dropped whatever the answer was.
OpenAnswers(o, ok) ==
  LET shared == server.kept[o.code]
      put == Written(Written([page EXCEPT !.note = "opened"], "day", shared.day), "pick", shared.picks)
      p == IF ok THEN put ELSE [page EXCEPT !.note = "failed"] IN
  /\ ok => o.code \in DOMAIN server.kept
  /\ UNCHANGED server /\ seen' = IF o.new /\ ok THEN [seen EXCEPT !.opened = o.code] ELSE seen
  /\ IF o.new THEN Rendered(Written(p, "share", ""), [calls EXCEPT !.opens = @ \ {o}]) ELSE page' = page /\ calls' = [calls EXCEPT !.opens = @ \ {o}]

Input1 == seen.inputs < MaxInputs /\ seen' = [inputs |-> seen.inputs + 1, opened |-> "", sent |-> {}] /\ UNCHANGED server
Turn(p) == p # page /\ Input1 /\ Rendered(p, calls)
SetDay == \E day \in 0..(Today + 1) : Turn(Written(page, "day", day))
SetSearch == \E q \in DOMAIN Named \cup {""} : Turn(Written(page, "q", q))
HourClick ==
  \E h \in {Lower(StartHour(e, Start(page)), 23) : e \in EventsOfDay(OfDay(page), Start(page), page.q, None)} :
    ~page.error /\ Turn(Written(page, "hour", IF page.hour = h THEN None ELSE h))
ShowAll == HourOf(page) # None /\ Turn(Written(page, "hour", None))
\* An event of the list, or a featured one of the day; a cancelled one can only be let go of in the list.
Toggle ==
  \E e \in Listed(page) \cup (Featured \cap OfDay(page)) :
    /\ Events[e].cancelled => e \in Picked(page) \/ e \in Featured
    /\ Turn(Written(page, "pick", IF e \in Picked(page) THEN SelectSeq(page.pick, LAMBDA x : x # e) ELSE Append(page.pick, e)))
Reset == Turn(Written(Written(Written(Written(page, "day", Today), "q", ""), "hour", None), "pick", << >>))
Retry == page.error /\ Input1 /\ Rendered([page EXCEPT !.loading = TRUE, !.error = FALSE], [calls EXCEPT !.rows = From(page)])
Language == Turn([page EXCEPT !.lang = 3 - @])
MapLoads == ~page.ready /\ Rendered([page EXCEPT !.ready = TRUE], calls) /\ UNCHANGED <<server, seen>>

\* The picks the page holds are shared; what the plan has is what the visitor sees shared.
Settled(p, c) == Says(p) = "plan" /\ ~p.failed /\ ~p.loading /\ p.plan.input = Input(p)
Share ==
  /\ Says(page) = "plan" /\ ~page.busy /\ ShareIds(page) # << >> /\ UNCHANGED server /\ seen.inputs < MaxInputs
  /\ page' = [page EXCEPT !.busy = TRUE] /\ calls' = [calls EXCEPT !.shares = @ \cup {[n |-> seen.inputs, day |-> DayShown(page), ids |-> ToSet(ShareIds(page)), mine |-> TRUE]}]
  /\ seen' = [inputs |-> seen.inputs + 1, opened |-> "", sent |-> IF Settled(page, calls) THEN {[n |-> seen.inputs, items |-> {i.id : i \in ToSet(page.plan.items)}]} ELSE {}]
\* Mutant before it: events of another day are shared with it.
Kept_All(s) == s.ids
\* The server keeps those of the picks that take place that day, under a new code; without one it refuses.
Kept(s) == {e \in s.ids : During(e, 24 * s.day)}
Code(s) == <<"c0", "c1", "c2", "c3">>[s.n + 1]
ShareAnswers(s, ok) ==
  LET code == Code(s) IN
  /\ ok => Kept(s) # {} /\ code \notin DOMAIN server.kept
  /\ server' = IF ok THEN [kept |-> (code :> [day |-> s.day, picks |-> InTurn(Kept(s))]) @@ server.kept] ELSE server
  /\ page' = IF s.mine THEN [page EXCEPT !.busy = FALSE, !.code = IF ok THEN code ELSE @] ELSE page
  /\ calls' = [calls EXCEPT !.shares = @ \ {s}] /\ UNCHANGED seen

Next ==
  \/ \E ok \in BOOLEAN : RowsArrive(ok) \/ WorkerAnswers(ok)
  \/ \E o \in calls.opens, ok \in BOOLEAN : OpenAnswers(o, ok)
  \/ \E s \in calls.shares, ok \in BOOLEAN : ShareAnswers(s, ok)
  \/ WorkerStops \/ SetDay \/ SetSearch \/ HourClick \/ ShowAll \/ Toggle \/ Reset \/ Retry \/ Language \/ MapLoads \/ Share

Spec == Init /\ [][Next]_vars

TypeOK ==
  /\ page.day \in {Bad} \cup 0..(Today + 1) /\ page.rows \subseteq DOMAIN Events /\ Picked(page) \subseteq DOMAIN Events
  /\ page.note \in {"", "gone", "opening", "opened", "failed"} /\ calls.rows \in {None} \cup Nat /\ page.fits \in 0..1 /\ seen.inputs \in 0..MaxInputs

\* MyDay.tsx:141 -- with no input unanswered the plan is of the day, the picks and the events on screen, unless the worker failed;
\* an answer to an earlier choice is never taken for it. Every pick of the day has its stop, no event has two, and a
\* cancelled one is there only when picked.
PlanOfTheChoice ==
  (\A i \in DOMAIN calls.runs : ~calls.runs[i].new) /\ ~page.failed =>
    LET ids == [i \in DOMAIN page.plan.items |-> page.plan.items[i].id] IN
    /\ page.plan.input = Input(page) /\ Len(ids) = Cardinality(ToSet(ids))
    /\ Picked(page) \cap page.rows # {} => ToSet(ids) = Picked(page) \cap OfDay(page)
    /\ \A e \in ToSet(ids) : Events[e].cancelled => e \in Picked(page)
\* wasm/src/lib.rs:191, :340 -- a plan can be walked: a stop made begins no sooner than the one made before it ended and the way to
\* it was walked, none ends after its event, late is only who comes after its start; and a suggested day misses nothing.
\* (An event that ends as it starts is missed whenever it is reached at its start.)
PlanCanBeWalked ==
  LET met == Met(page.plan)  placed(i) == {j \in 1..(i - 1) : Events[met[j].id].at # ""}
      way(i) == IF placed(i) = {} THEN 0 ELSE Walk(Events[met[Max(placed(i))].id].at, Events[met[i].id].at) IN
  /\ \A i \in 2..Len(met) : met[i].begin >= met[i - 1].finish + way(i)
  /\ \A i \in DOMAIN met : met[i].finish <= Events[met[i].id].last /\ (met[i].fit = "late") = (met[i].begin > Events[met[i].id].first /\ Slot(met[i].id, page.plan.input.start).whole /\ met[i].begin > page.plan.input.start)
  /\ page.plan.suggested => \A i \in DOMAIN page.plan.items : page.plan.items[i].fit = "ok" \/ Events[page.plan.items[i].id].first = Events[page.plan.items[i].id].last
\* events.ts:129, MyDay.tsx:133 -- the bars add up to the day's events the words leave, and an hour chosen lists as many as its bar.
BarsAddUp ==
  LET bars == PerHour(page) IN
  /\ FoldFunctionOnSet(+, 0, bars, {h \in 0..23 : bars[h] > 0}) = Cardinality(EventsOfDay(OfDay(page), Start(page), page.q, None))
  /\ HourOf(page) # None => Cardinality(Listed(page)) = bars[HourOf(page)]
\* MapView.tsx:94 -- a map that is ready draws the stops of the plan on screen.
MapIsThePlan == page.ready => page.drawn = Drawn(page)
\* MyDay.tsx:173 -- the map's line joins only the stops made.
LineIsMade ==
  \A i \in DOMAIN page.plan.items : page.plan.items[i].fit = "missed" => page.plan.items[i].id \notin ToSet(page.drawn.line)
\* MyDay.tsx:93 -- a link opened shows the day and the picks it was shared with until the visitor turns, in any order of answers and
\* languages; its code never stays without a read of it; and what was shared is what the plan had.
SharedIsOpened ==
  /\ seen.opened # "" => page.day = server.kept[seen.opened].day /\ page.pick = server.kept[seen.opened].picks
  /\ page.share # "" => \E o \in calls.opens : o.new /\ o.code = page.share
  /\ \A sent \in seen.sent : LET code == Code([n |-> sent.n]) IN code \in DOMAIN server.kept \ DOMAIN Shared => ToSet(server.kept[code].picks) = sent.items
\* url.ts:19 -- the address read again is the view on screen.
AddressIsView == Value(page.address) = [name \in DOMAIN Default |-> page[name]]
\* With every message answered nothing is said to be read, planned or opened.
NothingHangs ==
  /\ calls.rows = None => Says(page) # "reading"
  /\ calls.runs = << >> /\ ~page.failed => Says(page) # "planning"
  /\ calls.opens = {} => page.note # "opening"

(***************************************************************************)
(* Why the map keeps up: it is drawn again whenever what it would draw     *)
(* differs from what it drew.                                              *)
(***************************************************************************)
Fields == DOMAIN Default \cup
  {"address", "lang", "rows", "loading", "error", "gen", "plan", "failed", "note", "code", "busy", "ready", "drawn", "fits"}
IsPage(p) == p = [field \in Fields |-> p[field]]
PlanInv == IsPage(page) /\ MapIsThePlan
=============================================================================
