------------------------------ MODULE BikeDemand ------------------------------
(***************************************************************************)
(* A bike station and its weather (bike-weather-demand/src): the station   *)
(* on screen, the model inputs a steward gave it, the history read with    *)
(* them, the estimate a worker makes of that history, the models kept.     *)
(***************************************************************************)
EXTENDS Naturals, Sequences, FiniteSets

CONSTANTS
  Stations,  \* bike stations
  Asked,     \* what the address may name: a station, none, or one that is not listed
  Slots,     \* docks of each
  Named,     \* a station's place in the order of names
  Vals,      \* model inputs: weather station, radius, days; "default" among them
  Near,      \* pairs <<station, inputs>> that find a weather station
  Steps,     \* shades of the week's grid
  MaxInputs  \* turns of the reader

ConstantsOK ==
  /\ Stations # {} /\ Asked # {} /\ "" \notin Stations /\ "default" \in Vals /\ Near \subseteq Stations \X Vals
  /\ Slots \in [Stations -> Nat] /\ Named \in [Stations -> Nat] /\ Steps \in Nat \ {0} /\ MaxInputs \in Nat

VARIABLES
  page,    \* the components' state, see Init
  server,  \* [Stations -> Vals]: the inputs kept of each station
  calls,   \* [inputs, hist, kept]: reads, the newest marked; [runs]: the worker's queue; [write]
  seen     \* [inputs, part, lost, crossed]: turns; the part that is followed; a done write counted as
           \* refused; a write's answer hid another station's inputs

vars == <<page, server, calls, seen>>

\* The estimate, the kept models and the map hang on the page and not on each other: a behaviour follows one of them.
Parts == {"estimate", "models", "map"}

NoHist == [of |-> "", val |-> ""]
NoWrite == [kind |-> "none"]

Init ==
  /\ \E asked \in Asked :
       page = [station |-> asked, rows |-> "reading", weather |-> FALSE, inputs |-> {}, ifail |-> FALSE, draft |-> "default",
               word |-> "", hist |-> NoHist, loading |-> FALSE, herr |-> FALSE, out |-> {}, running |-> FALSE, broken |-> FALSE,
               kept |-> {}, ready |-> FALSE, painted |-> {}]
  /\ server \in [Stations -> Vals]
  /\ calls = [inputs |-> IF page.station = "" THEN {} ELSE {[of |-> page.station, new |-> TRUE]}, hist |-> {}, kept |-> {}, runs |-> <<>>, write |-> NoWrite]
  /\ \E part \in Parts : seen = [inputs |-> 0, part |-> part, lost |-> FALSE, crossed |-> FALSE]

\* The inputs read of the station on screen; those of another are none.
Used(p) == {i \in p.inputs : i.of = p.station}
Known(p) == Used(p) # {} \/ p.ifail
Val(p) == IF Used(p) = {} THEN "default" ELSE (CHOOSE i \in Used(p) : TRUE).val
Weather(p) == IF p.rows = "read" /\ p.weather /\ <<p.station, Val(p)>> \in Near THEN {<<p.station, Val(p)>>} ELSE {}

\* The station with the most docks, the first by name among equals.
DefaultStation ==
  CHOOSE s \in Stations : \A o \in Stations \ {s} : Slots[o] < Slots[s] \/ (Slots[o] = Slots[s] /\ Named[s] < Named[o])

\* What the page reads anew over: the fetch's dependencies, the estimate's input.
Fetch(p) == [of |-> p.station, known |-> Known(p), val |-> Val(p), near |-> Weather(p)]
Input(p) == IF p.rows = "read" /\ p.hist.of # "" THEN {[slots |-> p.station, hist |-> p.hist]} ELSE {}

\* Of the calls left behind only the last is followed: the page takes the answer of none.
Old(reads) == {[r EXCEPT !.new = FALSE] : r \in {o \in reads : o.new}}
OldRuns(runs) == IF runs = <<>> THEN runs ELSE <<[runs[Len(runs)] EXCEPT !.new = FALSE]>>

\* What the map is given: every station, the chosen one marked.
Drawn(p) == IF p.rows = "read" THEN {[id |-> s, selected |-> s = p.station] : s \in Stations} ELSE {}

Painted(p) == IF p.ready THEN [p EXCEPT !.painted = Drawn(p)] ELSE p

\* The effects, in the order they stand: the default station, its inputs and kept models, the form, the history, the estimate, the map.
Settled(p) == IF p.rows = "read" /\ p.station \notin Stations THEN [p EXCEPT !.station = DefaultStation] ELSE p
Turned(p) ==
  IF p.station = page.station THEN p
  ELSE [p EXCEPT !.inputs = {}, !.ifail = FALSE, !.word = "", !.kept = {}]
Formed(p) == IF {i.of : i \in Used(p)} = {i.of : i \in Used(page)} THEN p ELSE [p EXCEPT !.draft = Val(p)]
Rendered(new, c, again) ==
  LET p == Formed(Turned(Settled(new)))
      turn == p.station # page.station
      fetch == (again \/ Fetch(p) # Fetch(page)) /\ p.station # ""
      reads == fetch /\ Known(p)
      est == seen.part = "estimate" /\ Input(p) # Input(page)
      keep == seen.part = "models" /\ p.rows = "read" /\ (turn \/ page.rows # "read")
      q == [p EXCEPT !.loading = @ \/ reads, !.herr = @ /\ ~reads,
                     !.out = IF Input(p) = {} THEN {} ELSE @, !.running = IF est THEN Input(p) # {} ELSE @, !.broken = @ /\ ~est] IN
  /\ page' = Painted(q)
  /\ calls' = [c EXCEPT !.inputs = IF turn THEN Old(@) \cup {[of |-> p.station, new |-> TRUE]} ELSE @,
                        !.kept = IF keep THEN Old(@) \cup {[of |-> p.station, new |-> TRUE]} ELSE @,
                        !.hist = (IF fetch THEN Old(@) ELSE @) \cup (IF reads THEN {[of |-> p.station, val |-> Val(p), new |-> TRUE]} ELSE {}),
                        !.runs = (IF est THEN OldRuns(@) ELSE @) \o (IF est /\ Input(p) # {} THEN <<[input |-> Input(p), new |-> TRUE]>> ELSE <<>>)]

\* The lists of bike and weather stations are read; the kept models are shown from then on.
RowsRead(ok) ==
  /\ page.rows = "reading"
  /\ Rendered([page EXCEPT !.rows = IF ok THEN "read" ELSE "failed"], calls, FALSE)
  /\ UNCHANGED <<server, seen>>
WeatherRead ==
  /\ ~page.weather
  /\ Rendered([page EXCEPT !.weather = TRUE], calls, FALSE)
  /\ UNCHANGED <<server, seen>>
MapLoads ==
  /\ seen.part = "map" /\ page.rows = "read" /\ ~page.ready
  /\ page' = Painted([page EXCEPT !.ready = TRUE])
  /\ UNCHANGED <<server, calls, seen>>

\* The inputs of a station arrive, or cannot be read: the page goes on with the defaults.
InputsArrive(read, ok) ==
  /\ Rendered(IF ~read.new THEN page ELSE IF ok /\ read.of \in Stations THEN [page EXCEPT !.inputs = {[of |-> read.of, val |-> server[read.of]]}]
              ELSE [page EXCEPT !.ifail = TRUE], [calls EXCEPT !.inputs = @ \ {read}], FALSE)
  /\ UNCHANGED <<server, seen>>

\* Mutant before it: a read of a station left behind is taken.
Active_Any(read) == TRUE
\* A read the page has turned from counts for nothing.
Active(read) == read.new
\* The history, read over the wire in two calls: bikes, then the weather.
HistoryArrives(read, ok) ==
  /\ Rendered(IF ~Active(read) THEN page
              ELSE [page EXCEPT !.loading = FALSE, !.herr = ~ok,
                                !.hist = IF ok THEN [of |-> read.of, val |-> read.val] ELSE NoHist],
              [calls EXCEPT !.hist = @ \ {read}], FALSE)
  /\ UNCHANGED <<server, seen>>

\* The worker answers in turn, or stops and rejects what waits.
RunAnswers ==
  /\ calls.runs # <<>>
  /\ LET run == Head(calls.runs) IN
       page' = IF run.new THEN [page EXCEPT !.out = run.input, !.running = FALSE, !.broken = FALSE] ELSE page
  /\ calls' = [calls EXCEPT !.runs = Tail(@)]
  /\ UNCHANGED <<server, seen>>
WorkerStops ==
  /\ calls.runs # <<>>
  /\ page' = IF \E i \in DOMAIN calls.runs : calls.runs[i].new THEN [page EXCEPT !.out = {}, !.running = FALSE, !.broken = TRUE] ELSE page
  /\ calls' = [calls EXCEPT !.runs = <<>>]
  /\ UNCHANGED <<server, seen>>

\* The models kept of the station.
KeptArrives(read, ok) ==
  /\ page' = IF read.new /\ ok THEN [page EXCEPT !.kept = {read.of}] ELSE page
  /\ calls' = [calls EXCEPT !.kept = @ \ {read}]
  /\ UNCHANGED <<server, seen>>

\* The reader picks a station, in the list or on the map, the address names one, or they read the history again.
Input1 == seen.inputs < MaxInputs /\ seen' = [seen EXCEPT !.inputs = @ + 1] /\ UNCHANGED server
Select(s) == s # page.station /\ Input1 /\ Rendered([page EXCEPT !.station = s], calls, FALSE)
Retry == page.herr /\ Input1 /\ Rendered(page, calls, TRUE)

\* What the form offers a steward: a save of what is typed, a reset of inputs of their own; nothing while a write is under way.
Offered(kind) == calls.write = NoWrite /\ page.rows = "read" /\ Used(page) # {} /\ (kind = "reset" => Val(page) # "default")
\* Saved or reset inputs are shown at once.
Change(kind, val) ==
  /\ Offered(kind) /\ Input1
  /\ Rendered([page EXCEPT !.inputs = {[of |-> page.station, val |-> val]}, !.word = "", !.draft = IF kind = "save" THEN val ELSE @],
              [calls EXCEPT !.write = [kind |-> kind, of |-> page.station, val |-> val, before |-> Val(page), done |-> FALSE]], FALSE)
Save(val) == Change("save", val)
Reset == Change("reset", "default")
WriteServed ==
  /\ calls.write # NoWrite /\ ~calls.write.done
  /\ server' = [server EXCEPT ![calls.write.of] = calls.write.val]
  /\ calls' = [calls EXCEPT !.write.done = TRUE]
  /\ UNCHANGED <<page, seen>>

\* Mutant before it: a refused change stays on screen.
Inputs_Kept(w, ok) == {[of |-> w.of, val |-> w.val]}
\* What the answer leaves as the page's inputs: those saved, or those before.
Inputs(w, ok) == {[of |-> w.of, val |-> IF ok THEN w.val ELSE w.before]}
\* The answer: done, refused, or done and its answer (a reset's second read) lost.
WriteAnswers(ok) ==
  LET w == calls.write
      hides == w.of # page.station /\ Used(page) # {} IN
  /\ w # NoWrite /\ (ok => w.done)
  /\ Rendered([page EXCEPT !.inputs = Inputs(w, ok), !.draft = IF ok THEN w.val ELSE @, !.word = IF ok THEN "done" ELSE "problem",
                           !.kept = IF ok THEN {} ELSE @],
              [calls EXCEPT !.write = NoWrite, !.kept = IF ok /\ seen.part = "models" THEN Old(@) \cup {[of |-> page.station, new |-> TRUE]} ELSE @], FALSE)
  /\ seen' = [seen EXCEPT !.lost = @ \/ (w.done /\ ~ok), !.crossed = @ \/ hides]
  /\ UNCHANGED server

Next ==
  \/ \E ok \in BOOLEAN : RowsRead(ok) \/ WriteAnswers(ok)
  \/ \E ok \in BOOLEAN : \E read \in calls.inputs : InputsArrive(read, ok)
  \/ \E ok \in BOOLEAN : \E read \in calls.kept : KeptArrives(read, ok)
  \/ \E ok \in BOOLEAN : \E read \in calls.hist : HistoryArrives(read, ok)
  \/ WeatherRead \/ MapLoads \/ RunAnswers \/ WorkerStops \/ Retry \/ Reset \/ WriteServed
  \/ \E s \in Stations : Select(s)
  \/ \E v \in Vals : Save(v)

Spec == Init /\ [][Next]_vars

TypeOK ==
  /\ page.station \in Stations \cup Asked /\ Cardinality(page.inputs) <= 1 /\ page.draft \in Vals /\ page.hist.of \in Stations \cup Asked \cup {""}
  /\ server \in [Stations -> Vals] /\ \A reads \in {calls.inputs, calls.hist, calls.kept} : Cardinality({r \in reads : r.new}) <= 1

\* What the page shows: its lists, the line of bikes with the estimate, the grid of the week.
Page(p) == IF p.rows = "reading" THEN "loading" ELSE IF p.rows = "failed" THEN "problem, none" ELSE "stations"
Chart(p) == IF p.hist = NoHist THEN "none" ELSE IF p.out = {} THEN "history" ELSE "history, estimate"
Profile(p) == IF p.out # {} THEN "grid" ELSE IF p.loading THEN "reading" ELSE "none"
Models(p) == IF p.kept = {} THEN "reading" ELSE "table"

\* Station.tsx:258 -- "another entity's series is never shown as this one's": once the inputs are known and
\* nothing is being read, the history is the station's, read with its inputs, and the estimate and
\* the kept models are of it; the map marks the station.
ShownIsOfTheStation ==
  /\ ~page.loading /\ Known(page) => page.hist \in {NoHist, [of |-> page.station, val |-> Val(page)]}
  /\ seen.part = "estimate" /\ ~page.running => page.out \in {{}, Input(page)}
  /\ ~page.running /\ Page(page) = "stations" => (Profile(page) = "grid" <=> Chart(page) = "history, estimate")
  /\ page.kept \subseteq {page.station} /\ (Models(page) = "table" => Page(page) = "stations")
  /\ page.ready => page.painted = Drawn(page)
\* ModelInputs.tsx:26 -- "saved at once on screen and taken back when the server refuses": with no write
\* and no read under way the page's inputs are the server's.
InputsAgree ==
  calls.write = NoWrite /\ ~seen.lost => \A i \in Used(page) : i.val = server[page.station]
\* "Reading" has a read behind it, as long as no write's answer came for a station left behind.
NothingHangs ==
  /\ page.station # "" /\ ~Known(page) /\ ~seen.crossed => \E read \in calls.inputs : read.new
  /\ page.loading /\ ~seen.crossed /\ Known(page) => \E read \in calls.hist : read.new
  /\ page.running => calls.runs # <<>>

\* The week's grid: the shade of a mean between the profile's lowest and highest; the shades span that range.
HeatStep(mean, low, high) == IF high = low THEN Steps \div 2 ELSE ((mean - low) * (100 * Steps - 1)) \div (100 * (high - low))
ShadesSpan == \A low, high \in 0..4 : low < high => HeatStep(low, low, high) = 0 /\ HeatStep(high, low, high) = Steps - 1
=============================================================================
