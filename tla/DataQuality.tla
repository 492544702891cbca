------------------------------ MODULE DataQuality ------------------------------
(***************************************************************************)
(* The quality of the data (data-quality-inspector/src): the types of the  *)
(* schema read two at a time, what a worker finds in them, the type chosen *)
(* and the address, and a steward's answers to the findings.               *)
(***************************************************************************)
EXTENDS Integers, FiniteSets, Sequences
LOCAL INSTANCE SequencesExt
LOCAL INSTANCE TLC

CONSTANTS
  Order,      \* the types there are, in the order of their names
  Known,      \* those dev holds, for a schema that cannot be read
  Checked,    \* those whose definition has properties
  Score,      \* type |-> the share of its entities that are valid
  Complete,   \* type |-> how complete they are
  Schemas,    \* the types a published schema may define
  Findings,   \* type |-> the findings in it
  Links,      \* what an address may say |-> the type that is, "" for none
  Texts,      \* what a steward types for a value: text |-> the kinds it is a value of
  MaxInputs

ConstantsOK ==
  /\ Len(Order) = Cardinality(ToSet(Order)) /\ Known # << >> /\ ToSet(Known) \subseteq ToSet(Order)
  /\ \A t \in ToSet(Order) : t \in DOMAIN Score /\ t \in DOMAIN Complete /\ t \in DOMAIN Findings
  /\ \A schema \in Schemas : schema \subseteq ToSet(Order)
  /\ {"", "true"} \subseteq DOMAIN Texts /\ MaxInputs \in Nat

\* The address read: blanks around the type are no part of it. It is written as the type.
ReadHash(hash) == IF hash \in DOMAIN Links THEN Links[hash] ELSE hash
Kinds == {"text", "number", "boolean"}

VARIABLES
  page,    \* the components' state, see Init
  server,  \* [schema: the types it defines; rows: the resolutions, the newest first; next: the next id]
  calls,   \* [schema, me, list: under way; reads: [gen, type]; runs: the worker's queue, the newest marked; writes]
  seen     \* [inputs, odd: what the code does not mend]

vars == <<page, server, calls, seen>>

InOrder(types) == SelectSeq(Order, LAMBDA t : t \in types)
\* The types the page reads: the schema's, those dev holds without one, none until it answers.
Types(p) ==
  IF p.schema = "reading" THEN << >> ELSE IF p.schema = "failed" \/ server.schema = {} THEN Known ELSE InOrder(server.schema)
Failed(p) == {t \in DOMAIN p.map : p.map[t] = "failed"}
Read(p) == DOMAIN p.map \ Failed(p)

\* What the worker is given: a reading's types that could be read, and the schema.
NoInput == [gen |-> 0, types |-> {}, schema |-> "reading"]
Input(p) == IF p.loading \/ Read(p) = {} THEN NoInput ELSE [gen |-> p.gen, types |-> Read(p), schema |-> p.schema]
\* What it finds stands for what it was given; a type without a published schema is not judged.
Judged(p, t) == p.output.schema = "ok" /\ t \in server.schema /\ t \in Checked
Valid(p, t) == IF Judged(p, t) THEN Score[t] ELSE -1
\* Mutant before it: the types not judged stand first.
Worse_NullFirst(p, a, b) == Valid(p, a) < Valid(p, b)
\* The worst first, those not judged at the end.
Worse(p, a, b) ==
  IF Judged(p, a) # Judged(p, b) THEN Judged(p, a)
  ELSE \/ Valid(p, a) < Valid(p, b)
       \/ Valid(p, a) = Valid(p, b) /\ (Complete[a] < Complete[b] \/ (Complete[a] = Complete[b] /\ SelectInSeq(Order, LAMBDA t : t = a) < SelectInSeq(Order, LAMBDA t : t = b)))
SortTypesByQuality(p) == SetToSortSeq(p.output.types, LAMBDA a, b : Worse(p, a, b))

\* What the page shows.
AllTypesFailed(p) == ~p.loading /\ Types(p) # << >> /\ Cardinality(Failed(p)) = Len(Types(p))
Says(p) ==
  CASE p.schema = "reading" \/ (p.loading /\ Cardinality(DOMAIN p.map) < Len(Types(p))) -> "loading"
    [] OTHER -> IF p.running /\ p.output = NoInput THEN "analysing"
                ELSE IF p.selected = "" THEN "overview"
                ELSE IF p.selected \in Failed(p) THEN "failed" ELSE IF p.selected \in p.output.types THEN "detail" ELSE "none"
Tiles(p) == IF Says(p) = "overview" THEN SortTypesByQuality(p) ELSE << >>
FailedTiles(p) == IF Says(p) = "overview" THEN Failed(p) ELSE {}
Bars(p) == IF Tiles(p) = << >> THEN << >> ELSE [i \in DOMAIN Tiles(p) |-> [type |-> Tiles(p)[i], height |-> Complete[Tiles(p)[i]]]]
FindingsOf(p) == IF Says(p) = "detail" /\ Judged(p, p.selected) THEN Findings[p.selected] ELSE {}
\* The newest resolution of a finding.
Answers(rows, f) == SelectSeq(rows, LAMBDA r : r.finding = f)
Resolved(p, f) == Answers(p.list, f) # << >>
Steward(p) == p.me = "steward"

\* The form under the findings: it is a new one for another finding, and whenever it was away.
FreshForm == [note |-> FALSE, kind |-> "text", text |-> "", busy |-> FALSE, message |-> FALSE]
FormShown(p) == p.acting # "" /\ Steward(p) /\ FindingsOf(p) # {}
SameForm(p) == FormShown(p) /\ FormShown(page) /\ p.acting = page.acting

Old(runs) == [i \in DOMAIN runs |-> [runs[i] EXCEPT !.new = FALSE]]
\* Mutant before it: what was found before stays the newest while another input is looked into.
Inspected_Kept(p, c) ==
  IF Input(p) = Input(page) \/ Input(p) = NoInput THEN [page |-> p, runs |-> c.runs]
  ELSE [page |-> [p EXCEPT !.running = TRUE, !.error = FALSE], runs |-> Append(c.runs, [input |-> Input(p), new |-> TRUE])]
\* Another input is handed to the worker, what it found before stays; without one no answer is waited for.
Inspected(p, c) ==
  IF Input(p) = Input(page) THEN [page |-> p, runs |-> c.runs]
  ELSE IF Input(p) = NoInput THEN [page |-> p, runs |-> Old(c.runs)]
  ELSE [page |-> [p EXCEPT !.running = TRUE, !.error = FALSE], runs |-> Append(Old(c.runs), [input |-> Input(p), new |-> TRUE])]
Rendered(p, c) ==
  LET done == Inspected(p, c) IN
  /\ page' = [done.page EXCEPT !.form = IF SameForm(done.page) THEN @ ELSE FreshForm]
  /\ calls' = [c EXCEPT !.runs = done.runs, !.writes = {[w EXCEPT !.mine = @ /\ SameForm(done.page)] : w \in @}]

Init ==
  /\ \E link \in DOMAIN Links :
       page = [schema |-> "reading", selected |-> ReadHash(link), hash |-> link, map |-> << >>, current |-> << >>, queue |-> << >>, gen |-> 1, loading |-> FALSE,
               output |-> NoInput, running |-> FALSE, error |-> FALSE, me |-> "asked", list |-> << >>, listFailed |-> FALSE,
               acting |-> "", form |-> FreshForm]
  /\ \E schema \in Schemas, rows \in {<< >>, <<[id |-> 1, finding |-> CHOOSE f \in UNION {Findings[t] : t \in Checked} : TRUE, corrected |-> FALSE]>>} :
       server = [schema |-> schema, rows |-> rows, next |-> 2]
  /\ calls = [schema |-> TRUE, me |-> TRUE, list |-> TRUE, reads |-> {}, runs |-> << >>, writes |-> {}]
  /\ seen = [inputs |-> 0, odd |-> {}]

\* Mutant before it: a reader for each type.
Readers_Each == Len(Order)
Readers == 2
\* The types are read anew, two at a time; a reading under way is left.
Started(p, c) ==
  LET types == Types(p)  first == SubSeq(types, 1, IF Len(types) < Readers THEN Len(types) ELSE Readers) IN
  Rendered([p EXCEPT !.gen = @ + 1, !.loading = TRUE, !.current = << >>, !.queue = SubSeq(types, Len(first) + 1, Len(types))],
           [c EXCEPT !.reads = @ \cup {[gen |-> p.gen + 1, type |-> t] : t \in ToSet(first)}])
SchemaAnswers(ok) ==
  /\ calls.schema /\ Started([page EXCEPT !.schema = IF ok THEN "ok" ELSE "failed"], [calls EXCEPT !.schema = FALSE]) /\ UNCHANGED <<server, seen>>
\* A type is read, or cannot be; its reader takes the next. With both done the page has the data.
ReadAnswers(read, ok) ==
  LET rest == calls.reads \ {read}
      current == (read.type :> (IF ok THEN "rows" ELSE "failed")) @@ page.current
      next == IF page.queue = << >> THEN {} ELSE {[gen |-> read.gen, type |-> Head(page.queue)]}
      done == next = {} /\ \A r \in rest : r.gen # page.gen IN
  /\ UNCHANGED <<server, seen>>
  /\ IF read.gen # page.gen THEN page' = page /\ calls' = [calls EXCEPT !.reads = rest]
     ELSE Rendered([page EXCEPT !.current = current, !.queue = IF @ = << >> THEN @ ELSE Tail(@), !.loading = ~done, !.map = IF done THEN current ELSE @],
                   [calls EXCEPT !.reads = rest \cup next])

\* The worker takes its messages in turn; only the answer to the newest input counts.
Found(p, run, ok) ==
  IF ~run.new THEN p ELSE [p EXCEPT !.running = FALSE, !.error = ~ok, !.output = IF ok THEN run.input ELSE NoInput]
WorkerAnswers(ok) ==
  /\ calls.runs # << >> /\ Rendered(Found(page, Head(calls.runs), ok), [calls EXCEPT !.runs = Tail(@)]) /\ UNCHANGED <<server, seen>>
\* It stops: all that wait are refused, the next input starts another.
WorkerStops ==
  /\ calls.runs # << >> /\ Rendered(Found(page, Last(calls.runs), FALSE), [calls EXCEPT !.runs = << >>]) /\ UNCHANGED <<server, seen>>

MeAnswers(who) == calls.me /\ Rendered([page EXCEPT !.me = who], [calls EXCEPT !.me = FALSE]) /\ UNCHANGED <<server, seen>>
\* Who resolved what, read once.
ListAnswers(ok) ==
  /\ calls.list /\ Rendered([page EXCEPT !.list = IF ok THEN server.rows ELSE @, !.listFailed = ~ok], [calls EXCEPT !.list = FALSE]) /\ UNCHANGED <<server, seen>>

Odd(what, so) == IF so THEN seen.odd \cup {what} ELSE seen.odd
Input1(odd) == seen.inputs < MaxInputs /\ seen' = [inputs |-> seen.inputs + 1, odd |-> odd] /\ UNCHANGED server
Turn(p) == Input1(seen.odd) /\ Rendered(p, calls)

SelectType(t) == t # page.selected /\ Turn([page EXCEPT !.selected = t, !.hash = t])
\* The bar of types, the tiles and the chart, and the way back.
TypeBar == \E t \in ToSet(Types(page)) : SelectType(IF page.selected = t THEN "" ELSE t)
Back == page.selected # "" /\ Says(page) \in {"detail", "failed", "none"} /\ SelectType("")
HashChange == \E link \in DOMAIN Links : link # page.hash /\ Turn([page EXCEPT !.selected = ReadHash(link), !.hash = link])
MayRetry == AllTypesFailed(page) \/ FailedTiles(page) # {} \/ Says(page) = "failed"
Reload == MayRetry /\ Input1(seen.odd) /\ Started(page, calls)

\* A steward answers a finding that is open.
Act(f) == Steward(page) /\ f \in FindingsOf(page) /\ ~Resolved(page, f) /\ f # page.acting /\ Turn([page EXCEPT !.acting = f])
Cancel == FormShown(page) /\ Turn([page EXCEPT !.acting = ""])
\* Mutant before it: the text typed stays for another kind.
Kind_Kept(p, kind) == [p EXCEPT !.form.kind = kind]
\* Another kind empties the text, or chooses yes.
Kind(p, kind) == [p EXCEPT !.form.kind = kind, !.form.text = IF kind = "boolean" THEN "true" ELSE ""]
Typed(p) == page' = p /\ UNCHANGED <<server, calls, seen>>
Note == FormShown(page) /\ ~page.form.note /\ Typed([page EXCEPT !.form.note = TRUE])
ChooseKind(kind) == FormShown(page) /\ kind # page.form.kind /\ Typed(Kind(page, kind))
Offered(p) == {text \in DOMAIN Texts : p.form.kind = "boolean" => "boolean" \in Texts[text]}
Type(text) == FormShown(page) /\ text \in Offered(page) /\ text # page.form.text /\ Typed([page EXCEPT !.form.text = text])
ValueOf(p) == p.form.kind \in Texts[p.form.text]

Sent(kind, finding, id, mine, p) ==
  /\ Input1(Odd("early", calls.list) \cup Odd("overlap", calls.writes # {}))
  /\ Rendered(p, [calls EXCEPT !.writes = @ \cup {[n |-> seen.inputs, kind |-> kind, finding |-> finding, id |-> id, mine |-> mine, before |-> page.list, done |-> "out", made |-> << >>]}])
Busy(p) == [p EXCEPT !.form.busy = TRUE, !.form.message = FALSE]
Resolve == FormShown(page) /\ page.form.note /\ ~page.form.busy /\ Sent("resolve", page.acting, 0, TRUE, Busy(page))
Correct == FormShown(page) /\ page.form.note /\ ~page.form.busy /\ ValueOf(page) /\ Sent("correct", page.acting, 0, TRUE, Busy(page))
\* Open again at once.
Reopen(f) ==
  /\ Steward(page) /\ f \in FindingsOf(page) /\ Resolved(page, f)
  /\ LET id == Answers(page.list, f)[1].id IN
     Sent("reopen", f, id, FALSE, [page EXCEPT !.list = SelectSeq(@, LAMBDA r : r.id # id)])

\* The server: a finding is resolved once; a correction of one resolved already makes no row.
WriteServed(w, ok) ==
  LET stands == Answers(server.rows, w.finding) # << >>
      made == IF ok /\ w.kind # "reopen" /\ ~stands THEN <<[id |-> server.next, finding |-> w.finding, corrected |-> w.kind = "correct"]>> ELSE << >>
      gone == w.kind = "reopen" /\ \A i \in DOMAIN server.rows : server.rows[i].id # w.id IN
  /\ w.done = "out" /\ (ok => ~(w.kind = "resolve" /\ stands) /\ ~gone)
  /\ server' = [server EXCEPT !.rows = IF ok /\ w.kind = "reopen" THEN SelectSeq(@, LAMBDA r : r.id # w.id) ELSE made \o @, !.next = @ + Len(made)]
  /\ calls' = [calls EXCEPT !.writes = (@ \ {w}) \cup {[w EXCEPT !.done = IF ok THEN "yes" ELSE "no", !.made = made]}]
  /\ UNCHANGED <<page, seen>>
\* Mutant before it: a refused reopening leaves the finding open.
PutBack_Not(w) == page.list
\* A refused reopening puts the whole list back.
PutBack(w) == IF w.kind = "reopen" THEN w.before ELSE page.list
\* Done, refused, or done with its answer lost. A done answer closes the form, whichever finding it is then of.
WriteAnswers(w, heard) ==
  LET ok == w.done = "yes" /\ heard  form == w.kind # "reopen"
      told == IF w.mine THEN [page EXCEPT !.form.busy = FALSE, !.form.message = TRUE] ELSE page IN
  /\ w.done # "out"
  /\ Rendered(IF ok /\ form THEN [page EXCEPT !.list = w.made \o @, !.acting = ""]
              ELSE IF ok THEN page
              ELSE IF form THEN told ELSE [page EXCEPT !.list = PutBack(w)],
              [calls EXCEPT !.writes = @ \ {w}])
  /\ seen' = [seen EXCEPT !.odd = @ \cup (IF w.done = "yes" /\ ~heard THEN {"lost"} ELSE {})] /\ UNCHANGED server

Next ==
  \/ \E ok \in BOOLEAN : SchemaAnswers(ok) \/ WorkerAnswers(ok) \/ ListAnswers(ok)
  \/ \E read \in calls.reads, ok \in BOOLEAN : ReadAnswers(read, ok)
  \/ WorkerStops \/ (\E who \in {"steward", "nobody"} : MeAnswers(who))
  \/ TypeBar \/ Back \/ HashChange \/ Reload
  \/ \E f \in FindingsOf(page) : Act(f) \/ Reopen(f)
  \/ Cancel \/ Note \/ (\E kind \in Kinds : ChooseKind(kind)) \/ (\E text \in DOMAIN Texts : Type(text)) \/ Resolve \/ Correct
  \/ \E w \in calls.writes, ok \in BOOLEAN : WriteServed(w, ok) \/ WriteAnswers(w, ok)

Spec == Init /\ [][Next]_vars

TypeOK ==
  /\ page.schema \in {"reading", "ok", "failed"} /\ page.me \in {"asked", "steward", "nobody"}
  /\ DOMAIN page.map \cup DOMAIN page.current \cup page.output.types \subseteq ToSet(Order) /\ page.form.kind \in Kinds /\ page.form.text \in DOMAIN Texts
  /\ seen.inputs \in 0..MaxInputs

Settled == ~page.loading /\ \A i \in DOMAIN calls.runs : ~calls.runs[i].new
\* inspect.ts:66, Quality.tsx:177 -- when nothing is under way, what is shown was found in the newest reading of the types and
\* with the schema now held: never an older answer, never a type that could not be read. Each type then has one tile,
\* with the findings or with Retry, and those judged stand before those without a schema. (A reading in which no type
\* could be read leaves what was found before.) And until the newest input is answered none is taken for its answer.
FoundInTheNewest ==
  /\ (\E i \in DOMAIN calls.runs : calls.runs[i].new) => page.running
  /\ Settled /\ Read(page) # {} =>
       /\ ~page.error => page.output = Input(page)
       /\ Says(page) = "overview" /\ ~page.error => ToSet(Tiles(page)) \cup FailedTiles(page) = ToSet(Types(page)) /\ ToSet(Tiles(page)) \cap FailedTiles(page) = {}
       /\ \A i, j \in DOMAIN Tiles(page) : i < j /\ Judged(page, Tiles(page)[j]) => Judged(page, Tiles(page)[i]) /\ Score[Tiles(page)[i]] <= Score[Tiles(page)[j]]
       /\ Len(Bars(page)) = Len(Tiles(page))
\* Quality.tsx:148 -- two types at a time: of one reading at most two are under way, and each type is read once in it.
TwoAtATime ==
  LET now == {r \in calls.reads : r.gen = page.gen} IN
  /\ Cardinality(now) <= 2
  /\ page.loading => Cardinality({r.type : r \in now}) + Len(page.queue) + Cardinality(DOMAIN page.current) = Len(Types(page))
\* With nothing under way no word says that something is loaded or analysed.
NothingHangs ==
  calls.reads = {} /\ calls.runs = << >> /\ ~calls.schema => Says(page) \notin {"loading", "analysing"}
\* resolutions.ts:19, FindingAction.tsx:41 -- with no write under way a finding is resolved on the page as it is on the server,
\* refusals taken back; a write sent before the first read, one that overlaps another and a lost answer are the code's own gaps.
\* What is sent for a value is of the kind chosen, and an open form with nothing under way can be sent.
ResolutionsAgree ==
  /\ ~calls.list /\ ~page.listFailed /\ calls.writes = {} /\ seen.odd = {} => page.list = server.rows
  /\ page.form.text \in Offered(page)
  /\ page.form.busy => FormShown(page) /\ \E w \in calls.writes : w.mine
\* Quality.tsx:110 -- the address read again is the type on screen, whether the reader chose it or came by a link.
AddressIsView == ReadHash(page.hash) = page.selected
=============================================================================
