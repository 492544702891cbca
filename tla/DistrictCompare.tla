---------------------------- MODULE DistrictCompare --------------------------
(***************************************************************************)
(* What the district comparison shows (district-compare/src): the entities *)
(* of several types, the comparison run in a worker over those in hand,    *)
(* and the districts and measure it opens on and is turned to: a shared    *)
(* link, the address, a pinned comparison, the default, the reader.        *)
(***************************************************************************)
EXTENDS Naturals, Sequences, FiniteSets

CONSTANTS
  Codes,     \* the districts
  Measures,  \* "events" among them
  EventsOf,  \* the events of a district, and
  Ahead,     \* pairs <<c, d>> of districts, c before d by name
  Types,     \* entity types beside the districts
  Choices,   \* the choices an address, a pin or a link may name: [codes, measure]
  MaxInputs  \* turns of the reader and the address

ConstantsOK ==
  /\ "events" \in Measures /\ EventsOf \in [Codes -> Nat] /\ MaxInputs \in Nat
  /\ \A c \in Choices : c.codes \subseteq Codes /\ c.measure \in Measures

VARIABLES
  page,    \* the component's state, see Opened
  server,  \* [pin, link]: the pinned comparison and the one the link names, {} or {choice}
  calls,   \* [runs, pin, me, link, days]: runs of the worker, reads under way
  seen     \* [inputs, chosen, moved]: what the reader chose since the page stands, {} or {choice}; the address was changed

vars == <<page, server, calls, seen>>

NoDays == [of |-> {}, state |-> "none"]
All == Types \cup {"district"}

\* The page as it is built from its address and link.
Opened(choice, link) ==
  [codes |-> choice.codes, measure |-> choice.measure, initialized |-> FALSE, touched |-> FALSE,
   from |-> choice.codes # {} \/ link, link |-> link, pinned |-> {}, shared |-> {}, problem |-> FALSE,
   types |-> [t \in All |-> "reading"], output |-> {}, running |-> FALSE, broken |-> FALSE, kept |-> NoDays, turn |-> 0]

Init ==
  \E address \in Choices \cup {[codes |-> {}, measure |-> "events"]}, link \in BOOLEAN :
    /\ page = Opened(address, link)
    /\ server \in [pin : {{}} \cup {{c} : c \in Choices}, link : {{c} : c \in Choices}]
    /\ calls = [runs |-> <<>>, pin |-> "out", me |-> "out", link |-> "", days |-> {}]
    /\ seen = [inputs |-> 0, chosen |-> {}, moved |-> FALSE]

\* The history reads the districts it is shown for, once the page stands beneath the words "loading".
Asked(p) == IF p.types["district"] = "reading" THEN {} ELSE p.codes
Rendered(p, c) ==
  /\ page' = IF Asked(p) = Asked(page) THEN p ELSE [p EXCEPT !.kept = NoDays, !.turn = @ + 1]
  /\ calls' = IF Asked(p) = Asked(page) \/ Asked(p) = {} THEN c
              ELSE [c EXCEPT !.days = @ \cup {[turn |-> p.turn + 1, of |-> Asked(p)]}]

\* A type is read or fails; over the districts and what else is in hand the comparison runs anew.
InputOf(types) == IF types["district"] = "read" THEN {t \in All : types[t] = "read"} ELSE {}
TypeRead(t, ok) ==
  LET types == [page.types EXCEPT ![t] = IF ok THEN "read" ELSE "failed"]
      anew == InputOf(types) # InputOf(page.types) IN
  /\ page.types[t] = "reading"
  /\ Rendered([page EXCEPT !.types = types, !.running = @ \/ anew, !.broken = @ /\ ~anew],
              [calls EXCEPT !.runs = IF anew THEN Append(@, InputOf(types)) ELSE @])
  /\ UNCHANGED <<server, seen>>

\* The districts before c in the order of a measure, ties by name.
Before(c) == {d \in Codes : EventsOf[d] > EventsOf[c] \/ (EventsOf[d] = EventsOf[c] /\ <<d, c>> \in Ahead)}
\* The two districts with the most events.
DefaultSelection == {c \in Codes : Cardinality(Before(c)) < 2}
\* The first output fills an empty selection, once.
Initialised(p) ==
  IF p.initialized \/ p.output = {} THEN p
  ELSE [p EXCEPT !.initialized = TRUE, !.codes = IF @ = {} THEN DefaultSelection ELSE @]

\* Mutant before it: an older run's answer is shown and ends the wait.
Fresh_Any == TRUE
\* The worker answers in turn; only the newest run's answer is taken.
Fresh == Len(calls.runs) = 1
RunAnswers ==
  /\ calls.runs # <<>>
  /\ Rendered(IF Fresh THEN Initialised([page EXCEPT !.output = Head(calls.runs), !.running = FALSE, !.broken = FALSE]) ELSE page,
              [calls EXCEPT !.runs = Tail(@)])
  /\ UNCHANGED <<server, seen>>
\* The worker stops: every waiting run is rejected, and the next one starts another.
WorkerStops ==
  /\ calls.runs # <<>>
  /\ Rendered([page EXCEPT !.output = {}, !.running = FALSE, !.broken = TRUE], [calls EXCEPT !.runs = <<>>])
  /\ UNCHANGED <<server, seen>>

Turned(p, choice) == [p EXCEPT !.initialized = TRUE, !.codes = choice.codes, !.measure = choice.measure]

\* Mutant before it: the pin moves a choice the reader made.
MayPin_Always(found) == found # {} /\ ~page.from
\* The pin is taken where neither the address, nor a link, nor the reader chose.
MayPin(found) == found # {} /\ ~page.from /\ ~page.touched
PinAnswers(ok) ==
  LET found == IF ok THEN server.pin ELSE {} IN
  /\ calls.pin = "out"
  /\ Rendered(IF MayPin(found) THEN Turned([page EXCEPT !.pinned = found], CHOOSE c \in found : TRUE)
              ELSE [page EXCEPT !.pinned = found], [calls EXCEPT !.pin = "done"])
  /\ UNCHANGED <<server, seen>>

\* Who reads: a link's comparison is read for someone signed in only.
MeAnswers(signedIn) ==
  /\ calls.me = "out"
  /\ page' = [page EXCEPT !.problem = page.link /\ ~signedIn]
  /\ calls' = [calls EXCEPT !.me = "done", !.link = IF page.link /\ signedIn THEN "out" ELSE @]
  /\ UNCHANGED <<server, seen>>
\* openComparison counts as a choice of the reader.
LinkAnswers(ok) ==
  LET opens == ok /\ ~page.touched IN
  /\ calls.link = "out"
  /\ Rendered(IF ~ok THEN [page EXCEPT !.problem = TRUE]
              ELSE IF opens THEN Turned([page EXCEPT !.shared = server.link, !.touched = TRUE], CHOOSE c \in server.link : TRUE)
              ELSE [page EXCEPT !.shared = server.link], [calls EXCEPT !.link = "done"])
  /\ seen' = IF opens THEN [seen EXCEPT !.chosen = server.link] ELSE seen
  /\ UNCHANGED server

\* Mutant before it: the history of districts left behind is shown.
DaysOf_Any(call) == TRUE
DaysOf(call) == call.turn = page.turn
DaysAnswer(call, ok) ==
  /\ page' = IF DaysOf(call) THEN [page EXCEPT !.kept = [of |-> call.of, state |-> IF ok THEN "kept" ELSE "failed"]] ELSE page
  /\ calls' = [calls EXCEPT !.days = @ \ {call}]
  /\ UNCHANGED <<server, seen>>

\* The reader turns the page: a district toggled on the map, the chart, the list or a chip, all of
\* them cleared, another measure, or a kept comparison opened.
Turn(choice, initialized) ==
  /\ seen.inputs < MaxInputs
  /\ Rendered([page EXCEPT !.touched = TRUE, !.initialized = @ \/ initialized, !.codes = choice.codes, !.measure = choice.measure], calls)
  /\ seen' = [seen EXCEPT !.inputs = @ + 1, !.chosen = {choice}]
  /\ UNCHANGED server
Toggle(c) == page.output # {} /\ Turn([codes |-> IF c \in page.codes THEN page.codes \ {c} ELSE page.codes \cup {c}, measure |-> page.measure], FALSE)
Clear == page.types["district"] # "reading" /\ page.codes # {} /\ Turn([codes |-> {}, measure |-> page.measure], FALSE)
Measure(m) == page.types["district"] # "reading" /\ m # page.measure /\ Turn([codes |-> page.codes, measure |-> m], FALSE)
OpenPinned == page.types["district"] # "reading" /\ \E choice \in page.pinned : Turn(choice, TRUE)

\* Someone changes the address; it counts as no choice of the reader, and an empty list moves the measure only.
Address(choice) ==
  /\ seen.inputs < MaxInputs
  /\ Rendered([page EXCEPT !.codes = IF choice.codes = {} THEN @ ELSE choice.codes, !.measure = choice.measure], calls)
  /\ seen' = [seen EXCEPT !.inputs = @ + 1, !.chosen = {}, !.moved = TRUE]
  /\ UNCHANGED server

\* The choice as the page writes it in its address, and reads it back.
Written(p) == [codes |-> p.codes, measure |-> p.measure]
\* The system turns dark or light: the page is built anew from the address it wrote itself.
Scheme ==
  /\ seen.inputs < MaxInputs
  /\ page' = Opened(Written(page), page.link)
  /\ calls' = [runs |-> <<>>, pin |-> "out", me |-> calls.me, link |-> IF calls.link = "" THEN "" ELSE "out", days |-> {}]
  /\ seen' = [inputs |-> seen.inputs + 1, chosen |-> {}, moved |-> TRUE]
  /\ UNCHANGED server

Next ==
  \/ \E ok \in BOOLEAN : PinAnswers(ok) \/ LinkAnswers(ok) \/ MeAnswers(ok) \/ \E t \in All : TypeRead(t, ok)
  \/ \E ok \in BOOLEAN, call \in calls.days : DaysAnswer(call, ok)
  \/ RunAnswers \/ WorkerStops \/ Clear \/ OpenPinned \/ Scheme
  \/ \E c \in Codes : Toggle(c)
  \/ \E m \in Measures : Measure(m)
  \/ \E choice \in Choices : Address(choice)

Spec == Init /\ [][Next]_vars

TypeOK ==
  /\ page.codes \subseteq Codes /\ page.measure \in Measures /\ page.types \in [All -> {"reading", "read", "failed"}]
  /\ page.output \subseteq All /\ page.kept.state \in {"none", "kept", "failed"} /\ seen.inputs \in 0..MaxInputs

\* A cell of a type that failed or is being read says so: it is not taken for zero.
Cell(p, t) == IF p.types[t] = "failed" THEN "unreadable" ELSE IF t \in p.output THEN "value" ELSE "none"
\* The table's rows, one a chosen district once an output has come.
Table(p) == IF p.output = {} THEN {} ELSE {[of |-> c, cells |-> [t \in Types |-> Cell(p, t)]] : c \in p.codes}
Idle == calls.runs = <<>> /\ calls.pin = "done" /\ calls.me = "done" /\ calls.link # "out"

\* Compare.tsx:131 -- whatever order the answers come in, the page opens on the link's comparison, else the
\* address's districts, else the pin, else the districts with the most events.
OpensAsAsked ==
  Idle /\ ~seen.moved /\ seen.inputs = 0 =>
    IF page.shared # {} THEN page.codes = (CHOOSE c \in page.shared : TRUE).codes
    ELSE IF page.from THEN page.output # {} => page.codes # {}
    ELSE IF page.pinned # {} THEN page.codes = (CHOOSE c \in page.pinned : TRUE).codes
    ELSE page.output # {} => page.codes = DefaultSelection

\* Compare.tsx:133 -- what the reader chose stays, whatever answers late; only the first output fills districts they left empty.
ChoiceKept == \A c \in seen.chosen : page.measure = c.measure /\ page.codes \in {c.codes} \cup (IF c.codes = {} THEN {DefaultSelection} ELSE {})

\* compare.ts:64 and History.tsx:46 -- what is shown was computed from every type in hand and read for the
\* districts that are chosen, and words that say "reading" have a read behind them.
ShownIsNewest ==
  /\ ~page.running => page.output \in {InputOf(page.types), {}} /\ (page.output = {} => page.broken \/ InputOf(page.types) = {})
  /\ page.kept.state = "kept" => page.kept.of = Asked(page)
  /\ ~page.running => \A row \in Table(page), t \in Types : row.cells[t] = "value" <=> page.types[t] = "read"
NothingHangs ==
  /\ page.running => calls.runs # <<>>
  /\ page.kept.state = "none" /\ Asked(page) # {} => \E call \in calls.days : call.turn = page.turn
=============================================================================
