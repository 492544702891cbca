------------------------------- MODULE AirExplore -------------------------------
(***************************************************************************)
(* How the weather moves the air (air-weather-explorer/src): the choices   *)
(* in the address, the saved comparison a link opens, the hours of the two *)
(* stations, the marks left out of them, the analysis a worker makes, what *)
(* the page says and draws of it, and the link it keeps.                   *)
(***************************************************************************)
EXTENDS Integers, FiniteSets, Sequences, TLC

CONSTANTS
  Airs,      \* air stations, by name
  Weathers,  \* weather stations, by name
  Near,      \* air station |-> the weather station nearest to it
  Measured,  \* station |-> what it measures, in the page's order
  Silent,    \* pairs <<pollutant, variable>> without enough hours for a correlation
  Codes,     \* the codes the server makes, in turn; the first is a comparison kept before
  Links,     \* the codes an address may carry: "", one kept, one gone, one no code at all
  Saved,     \* the comparison kept before
  MaxInputs

AirIds == {Airs[i] : i \in DOMAIN Airs}
WeatherIds == {Weathers[i] : i \in DOMAIN Weathers}
ConstantsOK ==
  /\ Near \in [AirIds -> WeatherIds] /\ DOMAIN Measured = AirIds \cup WeatherIds /\ Len(Codes) >= 1 /\ MaxInputs \in Nat
  /\ Saved.station \in AirIds /\ Saved.weather \in WeatherIds

VARIABLES
  page,    \* the components' state, see Init
  server,  \* [airs, weathers: what the endpoint lists; saved: the comparisons kept by code; marks: stations marked]
  calls,   \* [lists, open, series, marks: reads, the newest marked; runs: the worker's queue; keep: a save or an export]
  seen     \* [inputs, moved, part]: turns; the reader moved the map after it was fitted; the part that is followed

vars == <<page, server, calls, seen>>

\* What is said of the hours, the map and the kept link hang on the choices and not on each other: a behaviour follows one.
Parts == {"hours", "map", "link"}
Nothing == [of |-> << >>, marks |-> 0, window |-> 0]
Days == {1, 3}
Windows == {1, 3}
\* A number of the allowed ones, else the fallback.
ChoiceOf(value, allowed) == IF value \in allowed THEN value ELSE 3
IsCode(code) == code # "?"

First(listed, byName) == IF listed = {} THEN "" ELSE byName[CHOOSE i \in DOMAIN byName : byName[i] \in listed /\ \A j \in 1..(i - 1) : byName[j] \notin listed]
Station(p) == IF p.choice.station \in p.airs THEN p.choice.station ELSE First(p.airs, Airs)
\* The weather station nearest the air station, the first by name when places are missing.
Nearest(p) == IF Station(p) # "" /\ Near[Station(p)] \in p.weathers THEN Near[Station(p)] ELSE First(p.weathers, Weathers)
Weather(p) == IF p.choice.weather \in p.weathers THEN p.choice.weather ELSE Nearest(p)
Both(p) == Station(p) # "" /\ Weather(p) # ""
Asked(p) == <<Station(p), Weather(p), ChoiceOf(p.choice.days, Days)>>

\* The analysis: what both stations measure, a pair for each two, the strongest first.
Pairs(a) == {<<Measured[a.of[1]][i], Measured[a.of[2]][j]>> : i \in DOMAIN Measured[a.of[1]], j \in DOMAIN Measured[a.of[2]]}
AirOf(a) == Measured[a.of[1]]
WeatherOf(a) == Measured[a.of[2]]
Strongest(a) ==
  LET told == Pairs(a) \ Silent IN IF told = {} THEN << >> ELSE CHOOSE pair \in told : TRUE
Among(seq) == {seq[i] : i \in DOMAIN seq}
Or(best, seq) == IF best # "" THEN best ELSE IF seq = << >> THEN "" ELSE seq[1]
BestOf(a, i) == IF Strongest(a) = << >> THEN "" ELSE Strongest(a)[i]
Pollutant(p) ==
  IF p.analysis = Nothing THEN "" ELSE IF p.choice.air \in Among(AirOf(p.analysis)) THEN p.choice.air ELSE Or(BestOf(p.analysis, 1), AirOf(p.analysis))
Variable(p) ==
  IF p.analysis = Nothing THEN "" ELSE IF p.choice.variable \in Among(WeatherOf(p.analysis)) THEN p.choice.variable ELSE Or(BestOf(p.analysis, 2), WeatherOf(p.analysis))

\* What the page says and draws.
Error(p) == p.listError \/ p.seriesError
Reading(p) == (calls.lists # {} /\ p.airs = {}) \/ (calls.lists # {} /\ p.weathers = {}) \/ (Both(p) /\ p.series = << >> /\ ~Error(p))
EmptyHistory(p) == p.analysis # Nothing /\ (AirOf(p.analysis) = << >> \/ WeatherOf(p.analysis) = << >>)
Sentence(p) == IF p.analysis = Nothing \/ <<Pollutant(p), Variable(p)>> \notin Pairs(p.analysis) \ Silent THEN << >> ELSE <<Station(p), Pollutant(p), Variable(p)>>
Says(p) ==
  CASE Reading(p) -> <<"reading">>
    [] ~Reading(p) /\ p.airs = {} /\ ~Error(p) -> <<"no stations">>
    [] OTHER -> IF EmptyHistory(p) THEN <<"no history">>
                ELSE IF Sentence(p) # << >> THEN Sentence(p)
                ELSE IF p.analysis # Nothing THEN <<"not enough">> ELSE IF ~Error(p) THEN <<"computing">> ELSE << >>
\* A cell for each pair with a correlation; the pair's hours with their outliers.
Heatmap(p) == IF p.analysis = Nothing THEN {} ELSE Pairs(p.analysis) \ Silent
TimeChart(p) == IF p.analysis = Nothing \/ Pollutant(p) = "" \/ Variable(p) = "" THEN {} ELSE {<<Pollutant(p), Variable(p)>>}
ChartCard(loading, option) == IF loading THEN {"reading"} ELSE IF option = {} THEN {"empty"} ELSE option
Charts(p) == <<ChartCard(Reading(p), IF Error(p) THEN {} ELSE TimeChart(p)), ChartCard(Reading(p), IF Error(p) THEN {} ELSE Heatmap(p))>>
\* The table marks the pair on screen.
Table(p) == IF p.analysis = Nothing THEN {} ELSE {[pair |-> pair, selected |-> pair = <<Pollutant(p), Variable(p)>>] : pair \in Pairs(p.analysis)}
Points(p) == {[id |-> s, chosen |-> s \in {Station(p), Weather(p)}] : s \in p.airs \cup p.weathers}

\* Mutant before it: the map is fitted to every change.
Fitted_Again(p) == IF p.drawn = {} THEN p ELSE [p EXCEPT !.fitted = TRUE, !.camera = "points"]
\* The map fits its points once, when they first arrive.
Fitted(p) == IF p.fitted \/ p.drawn = {} THEN p ELSE [p EXCEPT !.fitted = TRUE, !.camera = "points"]
Painted(p) == IF p.ready THEN Fitted([p EXCEPT !.drawn = Points(p)]) ELSE p

Old(reads) == {[r EXCEPT !.new = FALSE] : r \in {o \in reads : o.new}}
OldRuns(runs) == IF runs = << >> THEN runs ELSE <<[runs[Len(runs)] EXCEPT !.new = FALSE]>>
\* What the analysis is made of: the hours, the marks left out of them, the smoothing.
Input(p) == [of |-> p.series, marks |-> p.marks, window |-> ChoiceOf(p.choice.window, Windows)]

\* Mutant before it: the hours read of the stations before stay.
SeriesAgain_Kept(p) == p
\* Other stations or days: the hours are read again, and none are shown meanwhile.
SeriesAgain(p) == [p EXCEPT !.series = << >>]
\* The effects, as they stand: the hours, the marks, the analysis, the map.
Rendered(new, c, again) ==
  LET reads == seen.part = "hours" /\ Both(new) /\ (again \/ ~Both(page) \/ Asked(new) # Asked(page))
      marks == seen.part = "hours" /\ Station(new) # Station(page)
      q == [(IF reads THEN SeriesAgain(new) ELSE new) EXCEPT !.marks = IF marks THEN -1 ELSE @]
      runs == Input(q) # Input(page) IN
  /\ page' = Painted([q EXCEPT !.analysis = IF q.series = << >> THEN Nothing ELSE @])
  /\ calls' = [c EXCEPT !.series = IF reads THEN Old(@) \cup {[of |-> Asked(q), new |-> TRUE]} ELSE @,
                        !.marks = IF marks THEN Old(@) \cup {[of |-> Station(q), new |-> TRUE]} ELSE @,
                        !.runs = (IF runs THEN OldRuns(@) ELSE @) \o (IF runs /\ q.series # << >> THEN <<[input |-> Input(q), new |-> TRUE]>> ELSE << >>)]

NoChoice == [station |-> "", weather |-> "", days |-> 3, window |-> 3, air |-> "", variable |-> ""]
Init ==
  /\ \E part \in Parts : seen = [inputs |-> 0, moved |-> FALSE, part |-> part]
  /\ \E link \in (IF seen.part = "link" THEN Links ELSE {""}) :
       /\ page = [airs |-> {}, weathers |-> {}, listError |-> FALSE, choice |-> NoChoice, compare |-> IF IsCode(link) THEN link ELSE "",
                  note |-> IF link = "" THEN "" ELSE IF IsCode(link) THEN "opening" ELSE "gone", series |-> << >>, seriesError |-> FALSE, marks |-> -1,
                  analysis |-> Nothing, failed |-> FALSE, keep |-> [busy |-> "", code |-> "", word |-> ""],
                  ready |-> FALSE, drawn |-> {}, fitted |-> FALSE, camera |-> "start"]
       /\ calls = [lists |-> {"air", "weather"}, open |-> IF IsCode(link) THEN {link} \ {""} ELSE {}, series |-> {}, marks |-> {}, runs |-> << >>, keep |-> {}]
  /\ \E weathers \in {{}, WeatherIds}, marked \in SUBSET {Airs[1]} :
       server = [airs |-> AirIds, weathers |-> weathers, marks |-> marked, saved |-> (Codes[1] :> Saved)]

ListRead(kind, ok) ==
  /\ kind \in calls.lists
  /\ Rendered(IF ~ok THEN [page EXCEPT !.listError = TRUE]
              ELSE IF kind = "air" THEN [page EXCEPT !.airs = server.airs] ELSE [page EXCEPT !.weathers = server.weathers],
              [calls EXCEPT !.lists = @ \ {kind}], FALSE)
  /\ UNCHANGED <<server, seen>>

\* Mutant before it: the hours of a choice left behind are taken.
Current_Any(read) == TRUE
\* An answer to a choice left behind counts for nothing.
Current(read) == read.new
SeriesAnswers(read, ok) ==
  /\ Rendered(IF ~Current(read) THEN page ELSE IF ok THEN [page EXCEPT !.series = read.of, !.seriesError = FALSE] ELSE [page EXCEPT !.seriesError = TRUE],
              [calls EXCEPT !.series = @ \ {read}], FALSE)
  /\ UNCHANGED <<server, seen>>
\* Marks that cannot be read leave no hour out.
MarksAnswer(read, ok) ==
  /\ Rendered(IF ~read.new THEN page ELSE [page EXCEPT !.marks = IF ok /\ read.of \in server.marks THEN 1 ELSE 0], [calls EXCEPT !.marks = @ \ {read}], FALSE)
  /\ UNCHANGED <<server, seen>>
\* The worker answers in turn, or cannot; when it stops, every run is refused.
RunAnswers(ok) ==
  /\ calls.runs # << >>
  /\ LET run == Head(calls.runs) IN
       page' = IF ~run.new THEN page ELSE IF ok THEN [page EXCEPT !.analysis = run.input, !.failed = FALSE] ELSE [page EXCEPT !.failed = TRUE]
  /\ calls' = [calls EXCEPT !.runs = Tail(@)]
  /\ UNCHANGED <<server, seen>>
WorkerStops ==
  /\ calls.runs # << >>
  /\ page' = IF \E i \in DOMAIN calls.runs : calls.runs[i].new THEN [page EXCEPT !.failed = TRUE] ELSE page
  /\ calls' = [calls EXCEPT !.runs = << >>]
  /\ UNCHANGED <<server, seen>>

\* A saved comparison: its choices go into the address.
Opened(saved) == [station |-> saved.station, weather |-> saved.weather, days |-> saved.days, window |-> saved.window, air |-> saved.air, variable |-> saved.variable]
\* Mutant before it: the code is left when the comparison could not be opened.
Dropped_Opened(p) == IF p.note = "failed" THEN p ELSE [p EXCEPT !.compare = ""]
\* The code is dropped from the address, whatever the answer was.
Dropped(p) == [p EXCEPT !.compare = ""]
OpenAnswers(code, ok) ==
  /\ code \in calls.open
  /\ Rendered(Dropped(IF ok /\ code \in DOMAIN server.saved THEN [page EXCEPT !.choice = Opened(server.saved[code]), !.note = "opened"] ELSE [page EXCEPT !.note = "failed"]),
              [calls EXCEPT !.open = @ \ {code}], FALSE)
  /\ UNCHANGED <<server, seen>>

Input1 == seen.inputs < MaxInputs /\ seen' = [seen EXCEPT !.inputs = @ + 1] /\ UNCHANGED server
Turn(p) == p # page /\ Input1 /\ Rendered(p, calls, FALSE)
\* A choice of the form: stations, period, smoothing, the pair.
Choose ==
  \/ \E s \in page.airs : Turn([page EXCEPT !.choice.station = s])
  \/ \E s \in page.weathers : Turn([page EXCEPT !.choice.weather = s])
  \/ \E n \in Days : Turn([page EXCEPT !.choice.days = n])
  \/ \E n \in Windows : Turn([page EXCEPT !.choice.window = n])
\* A cell of the matrix, or a row of the table.
PickPair == \E pair \in Heatmap(page) \cup {row.pair : row \in Table(page)} : Turn([page EXCEPT !.choice.air = pair[1], !.choice.variable = pair[2]])
\* A station on the map.
Pick == \E s \in {point.id : point \in page.drawn} :
  Turn(IF s \in page.airs THEN [page EXCEPT !.choice.station = s] ELSE [page EXCEPT !.choice.weather = s])
Retry ==
  /\ Error(page) /\ Input1
  /\ Rendered([page EXCEPT !.listError = FALSE], [calls EXCEPT !.lists = {"air", "weather"}], TRUE)
MapLoads == seen.part = "map" /\ ~page.ready /\ page' = Painted([page EXCEPT !.ready = TRUE]) /\ UNCHANGED <<server, calls, seen>>
MapMoved ==
  /\ page.ready /\ page.camera # "reader" /\ page' = [page EXCEPT !.camera = "reader"]
  /\ seen' = [seen EXCEPT !.moved = page.fitted] /\ UNCHANGED <<server, calls>>

\* The comparison on screen, as a link keeps it.
Comparison(p) == [station |-> Station(p), weather |-> Weather(p), days |-> ChoiceOf(p.choice.days, Days), window |-> ChoiceOf(p.choice.window, Windows),
                  air |-> Pollutant(p), variable |-> Variable(p)]
MayKeep == Both(page) /\ page.keep.busy = ""
Run(what, call) ==
  /\ seen.part = "link" /\ MayKeep /\ Input1
  /\ page' = [page EXCEPT !.keep.busy = what, !.keep.word = ""] /\ calls' = [calls EXCEPT !.keep = {call}]
Save == Run("save", Comparison(page))
Export == Run("export", Comparison(page))
NewCode == Codes[Cardinality(DOMAIN server.saved) + 1]
KeepServed(call) == IF page.keep.busy = "save" THEN [server EXCEPT !.saved = (NewCode :> call) @@ @] ELSE server
KeepAnswers(call, ok) ==
  /\ page.keep.busy = "save" => Cardinality(DOMAIN server.saved) < Len(Codes)
  /\ calls' = [calls EXCEPT !.keep = {}] /\ UNCHANGED seen
  /\ server' = IF ok THEN KeepServed(call) ELSE server
  /\ page' = [page EXCEPT !.keep = [busy |-> "", word |-> IF ok THEN "done" ELSE "failed", code |-> IF ok /\ page.keep.busy = "save" THEN NewCode ELSE @.code]]
Copy == page.keep.code # "" /\ page.keep.word # "copied" /\ page' = [page EXCEPT !.keep.word = "copied"] /\ UNCHANGED <<server, calls, seen>>

Next ==
  \/ \E kind \in {"air", "weather"}, ok \in BOOLEAN : ListRead(kind, ok)
  \/ \E read \in calls.series, ok \in BOOLEAN : SeriesAnswers(read, ok)
  \/ \E read \in calls.marks, ok \in BOOLEAN : MarksAnswer(read, ok)
  \/ \E ok \in BOOLEAN : RunAnswers(ok)
  \/ \E code \in calls.open, ok \in BOOLEAN : OpenAnswers(code, ok)
  \/ \E call \in calls.keep, ok \in BOOLEAN : KeepAnswers(call, ok)
  \/ WorkerStops \/ Choose \/ PickPair \/ Pick \/ Retry \/ MapLoads \/ MapMoved \/ Save \/ Export \/ Copy

Spec == Init /\ [][Next]_vars

TypeOK ==
  /\ page.airs \subseteq AirIds /\ page.weathers \subseteq WeatherIds /\ page.marks \in -1..1
  /\ page.keep.busy \in {"", "save", "export"} /\ page.camera \in {"start", "points", "reader"} /\ seen.inputs \in 0..MaxInputs

\* Explore.tsx:334 -- a sentence under a station's name is of that station, the weather station and the period chosen;
\* once nothing is read or computed, also of the smoothing, and without the hours marked. A chart draws what the sentence says.
Quiet ==
  /\ calls.lists = {}
  /\ \A read \in calls.series : ~read.new
  /\ \A read \in calls.marks : ~read.new
  /\ \A i \in DOMAIN calls.runs : ~calls.runs[i].new
SaidIsOfTheChoice ==
  page.analysis # Nothing =>
    /\ page.analysis.of = Asked(page)
    /\ Quiet /\ ~page.failed => page.analysis = Input(page)
    /\ Len(Says(page)) = 3 /\ ~Error(page) => Charts(page)[1] = {<<Says(page)[2], Says(page)[3]>>} /\ \E row \in Table(page) : row.selected
\* Explore.tsx:158 -- the code of a saved comparison stands in the address only while it is opened, so a reload keeps the
\* reader's own changes; what a link keeps, opened, asks for the stations, the period and the smoothing that were on screen.
CodeIsDropped ==
  /\ page.compare # "" => calls.open = {page.compare}
  /\ page.compare = "" => page.note # "opening"
  /\ \A code \in DOMAIN server.saved :
       LET there == Comparison([page EXCEPT !.choice = Opened(server.saved[code])]) IN
       {server.saved[code].station, server.saved[code].weather} \subseteq page.airs \cup page.weathers =>
         <<there.station, there.weather, there.days, there.window>> =
         <<server.saved[code].station, server.saved[code].weather, server.saved[code].days, server.saved[code].window>>
\* Explore.tsx:341 -- nothing is said to be read or computed for ever: with both stations known and no analysis failed.
NothingHangs == seen.part = "hours" /\ Quiet /\ Both(page) /\ ~page.failed => Says(page) \notin {<<"reading">>, <<"computing">>}
\* MapView.tsx:108 -- the map shows every station, the chosen two marked, and never moves the view the reader has taken.
DrawnIsPoints == page.ready => page.drawn = Points(page) /\ (seen.moved => page.camera = "reader")

(***************************************************************************)
(* Why the map keeps up: it is painted after every change of the page, and *)
(* the camera is fitted before the reader can move a fitted map.           *)
(***************************************************************************)
Fields == {"airs", "weathers", "listError", "choice", "compare", "note", "series", "seriesError", "marks", "analysis",
           "failed", "keep", "ready", "drawn", "fitted", "camera"}
IsPage(p) == p = [field \in Fields |-> p[field]]
AirInv ==
  /\ IsPage(page) /\ seen = [inputs |-> seen.inputs, moved |-> seen.moved, part |-> seen.part]
  /\ DrawnIsPoints /\ (seen.moved => page.fitted /\ page.camera = "reader")
=============================================================================
