------------------------------ MODULE TransitReach ------------------------------
(***************************************************************************)
(* How far one gets from a point (transit-reach/src): the view in the      *)
(* address, HSL's network or else the vehicles' history, the analysis a    *)
(* worker makes of them, the map of it, the areas the server keeps of a    *)
(* stop, and the point a reader keeps with its areas.                      *)
(***************************************************************************)
EXTENDS Integers, FiniteSets, Sequences
LOCAL INSTANCE SequencesExt

CONSTANTS
  Points,    \* points of the region; the centre and the stops' among them
  Centre,
  Asked,     \* what the address may name: a point, one outside the region
  Stops,     \* HSL's stops in the order they are listed
  At,        \* stop |-> its point, no two the same
  Networks,  \* what the space may hold: [stops: how many are listed, lines: the lengths of its lines]
  PageSize, MaxPages, \* a page of a list, and the most pages read: 1000 and 50
  Samples,   \* histories: [located: times, routes: pairs <<time, route>>]
  MaxInputs

Hours == {3, 6}
ConstantsOK ==
  /\ Centre \in Points /\ \A i, j \in DOMAIN Stops : At[Stops[i]] \in Points /\ (i # j => At[Stops[i]] # At[Stops[j]])
  /\ PageSize \in Nat \ {0} /\ MaxPages \in Nat \ {0} /\ MaxInputs \in Nat

VARIABLES
  page,    \* the components' state, see Init
  server,  \* [net: what the space holds; known: the App's server has read it; origins: points kept with their areas]
  calls,   \* [net, hist: reads, the newest marked; runs: the worker's queue; kept, save]
  seen     \* [inputs, part]: turns; the part that is followed

vars == <<page, server, calls, seen>>

\* The areas, the map, the areas kept and the points kept hang on the view and not on each other: a behaviour follows one.
Parts == {"reach", "map", "kept", "save"}
NoNet == [stops |-> << >>, lines |-> {}]
NoOut == [source |-> "", at |-> "", of |-> << >>]

\* Every page of a list, up to the most that are read.
ReadAll(list) == SubSeq(list, 1, IF Len(list) < PageSize * MaxPages THEN Len(list) ELSE PageSize * MaxPages)
\* A line with fewer than two stops is none.
ToNetwork(net) == [stops |-> ReadAll(SubSeq(Stops, 1, net.stops)), lines |-> {n \in net.lines : n >= 2}]
OnNetwork(p) == ~p.netLoading /\ p.net.stops # << >> /\ p.net.lines # {}
Entity(p, at) == {id \in ToSet(p.net.stops) : At[id] = at}

\* Mutant before it: a route named at the reading's time comes too late for it.
Walk_Before(routes, next, t) == CHOOSE n \in next..(Len(routes) + 1) : (n > Len(routes) \/ routes[n][1] >= t) /\ \A m \in next..(n - 1) : routes[m][1] < t
\* A reading has the route the vehicle last named at or before it: both lists in time order, one pointer along the routes.
Walk(routes, next, t) == CHOOSE n \in next..(Len(routes) + 1) : (n > Len(routes) \/ routes[n][1] > t) /\ \A m \in next..(n - 1) : routes[m][1] <= t
ToVehicles(sample) ==
  LET located == SetToSortSeq(sample.located, LAMBDA a, b : a < b)
      routes == SetToSortSeq(sample.routes, LAMBDA a, b : a[1] < b[1])
      past[i \in 0..Len(located)] == IF i = 0 THEN 1 ELSE Walk(routes, past[i - 1], located[i]) IN
  {[t |-> located[i], route |-> IF past[i] = 1 THEN "" ELSE routes[past[i] - 1][2]] : i \in DOMAIN located}

\* The address: the region's points and the offered hours, else where the page starts.
Opened(asked) == IF asked \in Points THEN asked ELSE Centre
Written(view) == [at |-> IF view.at = Centre THEN "" ELSE view.at, hours |-> IF view.hours = 3 THEN 0 ELSE view.hours]

\* What is analysed: the network once it is read, else the history once it is; nothing before.
NoInput == [source |-> "", at |-> "", of |-> << >>]
Input(p) ==
  IF p.netLoading THEN NoInput
  ELSE IF OnNetwork(p) THEN [source |-> "network", at |-> p.at, of |-> p.net.stops]
  ELSE IF p.histLoading THEN NoInput ELSE [source |-> "vehicles", at |-> p.at, of |-> <<p.hist>>]
StopsOf(out) == IF out.source = "network" THEN {At[out.of[i]] : i \in DOMAIN out.of} ELSE {}
\* The stop the view starts from, and the stops offered: those reached and it, or the few derived.
PickedStop(p) == {at \in StopsOf(p.out) : at = p.at}
Reached(p) == StopsOf(p.out)
Offered(p) == IF p.out.source = "network" THEN Reached(p) \cup PickedStop(p) ELSE StopsOf(p.out)
KeptStop(p) == IF OnNetwork(p) /\ p.out # NoOut /\ PickedStop(p) # {} THEN Entity(p, p.at) ELSE {}
Summary(out) == <<"reached from", out.at>>
Says(p) == IF p.out # NoOut THEN Summary(p.out) ELSE IF p.netLoading \/ p.histLoading THEN <<"loading">> ELSE IF p.running THEN <<"analysing">> ELSE << >>

Cells(p) == IF p.out = NoOut THEN {} ELSE {p.out.at}
\* Mutant before it: the starting point is drawn once.
Painted_Once(p) == IF p.ready THEN [p EXCEPT !.cells = Cells(p), !.stops = StopsOf(p.out), !.origin = IF @ = "" THEN p.at ELSE @] ELSE p
Painted(p) == IF p.ready THEN [p EXCEPT !.cells = Cells(p), !.stops = StopsOf(p.out), !.origin = p.at] ELSE p
\* The whole reach in view: the cells' extent, else the starting point.
Framed(p) ==
  IF p.ready /\ (~page.ready \/ Cells(p) # Cells(page) \/ p.at # page.at) THEN [p EXCEPT !.frame = IF Cells(p) = {} THEN {p.at} ELSE Cells(p)] ELSE p

Old(reads) == {[r EXCEPT !.new = FALSE] : r \in {o \in reads : o.new}}
OldRuns(runs) == IF runs = << >> THEN runs ELSE <<[runs[Len(runs)] EXCEPT !.new = FALSE]>>
\* The history is read when there is no network, over the hours chosen.
MayRead(p) == ~p.netLoading /\ ~OnNetwork(p)
\* The effects: the address, the history's read, the analysis, the name offered, the map.
Rendered(new, c, again) ==
  LET reads == MayRead(new) /\ (again \/ ~MayRead(page) \/ new.hours # page.hours)
      q == [new EXCEPT !.histLoading = @ \/ reads, !.histError = @ /\ ~reads]
      turned == Input(q) # Input(page)
      runs == turned /\ Input(q) # NoInput
      r == [q EXCEPT !.running = @ \/ runs, !.failed = @ /\ ~runs, !.address = Written([at |-> q.at, hours |-> q.hours]),
                     !.typed = @ /\ q.at = page.at] IN
  /\ page' = Framed(Painted(r))
  /\ calls' = [c EXCEPT !.hist = (IF reads \/ (~MayRead(q) /\ MayRead(page)) THEN Old(@) ELSE @) \cup (IF reads THEN {[hours |-> q.hours, new |-> TRUE]} ELSE {}),
                        !.runs = (IF turned THEN OldRuns(@) ELSE @) \o (IF runs THEN <<[input |-> Input(q), new |-> TRUE]>> ELSE << >>)]

Init ==
  /\ \E asked \in Asked : LET at == Opened(asked) IN
       page = [at |-> at, hours |-> 3, address |-> Written([at |-> at, hours |-> 3]), netLoading |-> TRUE, netError |-> FALSE, net |-> NoNet,
               histLoading |-> TRUE, histError |-> FALSE, hist |-> {}, out |-> NoOut, running |-> FALSE, failed |-> FALSE,
               kept |-> [busy |-> FALSE, of |-> {}], saving |-> FALSE, typed |-> FALSE,
               ready |-> FALSE, cells |-> {}, stops |-> {}, origin |-> "", frame |-> {}]
  /\ \E net \in Networks, known \in BOOLEAN : server = [net |-> net, known |-> known, origins |-> {}]
  /\ calls = [net |-> {[new |-> TRUE]}, hist |-> {}, runs |-> << >>, kept |-> {}, save |-> {}]
  /\ \E part \in Parts : seen = [inputs |-> 0, part |-> part]

\* Every page of both lists, or an error beside an empty network.
NetArrives(read, ok) ==
  /\ Rendered(IF ~read.new THEN page
              ELSE [page EXCEPT !.netLoading = FALSE, !.netError = ~ok, !.net = IF ok THEN ToNetwork(server.net) ELSE NoNet],
              [calls EXCEPT !.net = @ \ {read}], FALSE)
  /\ UNCHANGED <<server, seen>>
\* A refused or failed read is an error beside an empty history: walking alone.
HistArrives(read, sample) ==
  /\ Rendered(IF ~read.new THEN page
              ELSE [page EXCEPT !.histLoading = FALSE, !.histError = sample = {}, !.hist = UNION {ToVehicles(s) : s \in sample}],
              [calls EXCEPT !.hist = @ \ {read}], FALSE)
  /\ UNCHANGED <<server, seen>>
\* Mutant before it: the answer to an older input is taken.
Current_Any(run) == TRUE
\* The answer to an older input that arrives late is dropped.
Current(run) == run.new
WorkerAnswers(ok) ==
  /\ calls.runs # << >>
  /\ LET run == Head(calls.runs) IN
       Rendered(IF ~Current(run) THEN page ELSE [page EXCEPT !.out = IF ok THEN run.input ELSE NoOut, !.running = FALSE, !.failed = ~ok],
                [calls EXCEPT !.runs = Tail(@)], FALSE)
  /\ UNCHANGED <<server, seen>>
\* A worker that died answers nobody: every waiting call is told, and the next one starts a new worker.
WorkerStops ==
  /\ calls.runs # << >>
  /\ Rendered(IF \A i \in DOMAIN calls.runs : ~calls.runs[i].new THEN page ELSE [page EXCEPT !.out = NoOut, !.running = FALSE, !.failed = TRUE],
              [calls EXCEPT !.runs = << >>], FALSE)
  /\ UNCHANGED <<server, seen>>

Input1 == seen.inputs < MaxInputs /\ seen' = [seen EXCEPT !.inputs = @ + 1] /\ UNCHANGED server
Turn(p) == p # page /\ Input1 /\ Rendered(p, calls, FALSE)
\* A stop of the list, the stops reached, a click on the map beside the stops, the centre again.
StartStop == \E at \in Offered(page) : Turn([page EXCEPT !.at = at])
StartReached == \E at \in Reached(page) : Turn([page EXCEPT !.at = at])
PickOnMap == page.ready /\ \E at \in Points \ page.stops : Turn([page EXCEPT !.at = at])
ToCentre == page.at # Centre /\ Turn([page EXCEPT !.at = Centre])
ChooseHours == page.out.source # "network" /\ \E hours \in Hours : Turn([page EXCEPT !.hours = hours])
NetRetry ==
  /\ page.netError /\ Input1 /\ Rendered([page EXCEPT !.netLoading = TRUE, !.netError = FALSE], [calls EXCEPT !.net = Old(@) \cup {[new |-> TRUE]}], FALSE)
\* On the network it reads nothing.
HistRetry == page.histError /\ Input1 /\ Rendered(page, calls, TRUE)
MapLoads == seen.part = "map" /\ ~page.ready /\ page' = Framed(Painted([page EXCEPT !.ready = TRUE])) /\ UNCHANGED <<server, calls, seen>>

\* The kept areas of the stop: a server without the network is asked to read it, once, and then for them again.
MayKeep == ~page.kept.busy /\ KeptStop(page) # {}
Keep ==
  /\ seen.part = "kept" /\ MayKeep /\ Input1
  /\ page' = [page EXCEPT !.kept.busy = TRUE] /\ calls' = [calls EXCEPT !.kept = {[stop |-> KeptStop(page), step |-> "reach"]}]
KeptEnds(ok, call) == page' = [page EXCEPT !.kept = [busy |-> FALSE, of |-> IF ok THEN call.stop ELSE @.of]] /\ calls' = [calls EXCEPT !.kept = {}]
KeptAnswers(call, ok) ==
  /\ UNCHANGED seen
  /\ server' = IF ok /\ call.step = "refresh" THEN [server EXCEPT !.known = TRUE] ELSE server
  /\ IF ok /\ call.step = "reach" /\ ~server.known THEN calls' = [calls EXCEPT !.kept = {[call EXCEPT !.step = "refresh"]}] /\ UNCHANGED page
     ELSE IF ok /\ call.step = "refresh" THEN calls' = [calls EXCEPT !.kept = {[call EXCEPT !.step = "again"]}] /\ UNCHANGED page
     ELSE KeptEnds(ok /\ server.known, call)

\* The point the view starts from, with its areas, under a name; a new point offers its own name.
Type == seen.part = "save" /\ ~page.typed /\ page' = [page EXCEPT !.typed = TRUE] /\ UNCHANGED <<server, calls, seen>>
AreasOf(p) == p.out
Save ==
  /\ seen.part = "save" /\ ~page.saving /\ AreasOf(page) # NoOut /\ Input1
  /\ page' = [page EXCEPT !.saving = TRUE] /\ calls' = [calls EXCEPT !.save = {[at |-> page.at, areas |-> AreasOf(page).at]}]
SaveAnswers(origin, ok) ==
  /\ server' = IF ok THEN [server EXCEPT !.origins = @ \cup {origin}] ELSE server
  /\ page' = [page EXCEPT !.saving = FALSE] /\ calls' = [calls EXCEPT !.save = {}] /\ UNCHANGED seen

Next ==
  \/ \E read \in calls.net, ok \in BOOLEAN : NetArrives(read, ok)
  \/ \E read \in calls.hist, sample \in {{}} \cup {{s} : s \in Samples} : HistArrives(read, sample)
  \/ \E ok \in BOOLEAN : WorkerAnswers(ok)
  \/ \E call \in calls.kept, ok \in BOOLEAN : KeptAnswers(call, ok)
  \/ \E origin \in calls.save, ok \in BOOLEAN : SaveAnswers(origin, ok)
  \/ WorkerStops \/ StartStop \/ StartReached \/ PickOnMap \/ ToCentre \/ ChooseHours \/ NetRetry \/ HistRetry \/ MapLoads \/ Keep \/ Type \/ Save

Spec == Init /\ [][Next]_vars

TypeOK ==
  /\ page.at \in Points /\ page.hours \in Hours /\ page.origin \in Points \cup {""} /\ page.cells \subseteq Points /\ page.frame \subseteq Points
  /\ Len(page.net.stops) <= PageSize * MaxPages /\ Cardinality(calls.kept) <= 1 /\ Cardinality(calls.save) <= 1 /\ seen.inputs \in 0..MaxInputs

\* analysis.ts:130 -- the area shown while nothing runs is that of the point and of the data on the page: a late answer
\* to a point left behind is never shown; a stop whose areas are to be kept is the one the view starts from.
AreaIsOfThePoint ==
  /\ page.out # NoOut /\ ~page.running /\ Input(page) # NoInput => page.out = Input(page)
  /\ \A id \in KeptStop(page) : At[id] = page.at
\* vehicles.ts:57 -- a reading has the route last named at or before it, and none before the first is named.
RouteInForce ==
  \A sample \in Samples : \A reading \in ToVehicles(sample) :
    LET named == {r \in sample.routes : r[1] <= reading.t} IN
    IF named = {} THEN reading.route = "" ELSE \E r \in named : reading.route = r[2] /\ \A other \in named : other[1] <= r[1]
\* Reach.tsx:146 -- once every read and every run is answered, and the analysis has not failed, the answer is there.
Answered == (\A r \in calls.net : ~r.new) /\ (\A r \in calls.hist : ~r.new) /\ (\A i \in DOMAIN calls.runs : ~calls.runs[i].new)
NothingHangs == Answered /\ ~page.failed => page.out # NoOut /\ ~page.running
\* ReachMap.tsx:178 -- the map shows the area and the stops of the answer and the point of the view, the whole area in sight.
MapIsTheReach == page.ready => page.cells = Cells(page) /\ page.stops = StopsOf(page.out) /\ page.origin = page.at /\ page.frame # {}

\* SaveOrigin.tsx:16 -- "The areas reached from it and what they rest on; `null` until they are worked out.": a point is kept with its own areas.
AreasOfTheirPoint == \A origin \in server.origins : origin.areas = origin.at

(***************************************************************************)
(* Why the map keeps up: whatever changes the page, the map is painted     *)
(* again after it, and framed when its cells or the point have changed.    *)
(***************************************************************************)
Fields == {"at", "hours", "address", "netLoading", "netError", "net", "histLoading", "histError", "hist", "out", "running",
           "failed", "kept", "saving", "typed", "ready", "cells", "stops", "origin", "frame"}
IsPage(p) == p = [field \in Fields |-> p[field]]
ReachInv == IsPage(page) /\ MapIsTheReach
=============================================================================
