------------------------------- MODULE NewsTopics -------------------------------
(***************************************************************************)
(* What the news is about (news-topics/src): the articles of the period    *)
(* and of the words searched, the topics a worker fits to them, those a    *)
(* steward named alike shown as one, the topic chosen, the view in the     *)
(* address, and the weeks the App's server has kept.                       *)
(***************************************************************************)
EXTENDS Integers, FiniteSets, Sequences
LOCAL INSTANCE SequencesExt

CONSTANTS
  Articles,  \* the articles, in the order they are listed
  Published, \* article |-> the weeks since it was published, -1 without a readable date
  Titled,    \* words |-> the articles whose title has them
  Term,      \* article |-> the keyword a topic beginning with it gets
  Named,     \* what the stewards' names may be: term |-> name, "" without one
  Links,     \* what an address may carry: [weeks, k, topic, q], k 0 and topic -1 where there is no number
  Searches,  \* what a reader types: pairs <<typed, trimmed>>
  Weeks,     \* the weeks the App's server has kept
  MaxInputs

Periods == {"4", "all"}
Ks == 3..8
ConstantsOK ==
  /\ \A i \in DOMAIN Articles : Articles[i] \in DOMAIN Published \cap DOMAIN Term
  /\ Len(Articles) = Cardinality(ToSet(Articles)) /\ \A s \in Searches : s[2] = "" \/ s[2] \in DOMAIN Titled
  /\ MaxInputs \in Nat

VARIABLES
  page,    \* the components' state, see Init
  server,  \* [rows: what the space lists; worker: "up" until it answers, "ok", "dead", "none"]
  calls,   \* [rows: the list is being read; runs: the worker's queue, the newest marked; kept: the weeks' read; corpus: weeks asked for]
  seen     \* [inputs]

vars == <<page, server, calls, seen>>

Trimmed(q) == IF q = "" THEN "" ELSE (CHOOSE s \in Searches : s[1] = q)[2]
\* Mutant before it: any number of topics is taken.
ReadHash_Any(hash) == [weeks |-> IF hash.weeks \in Periods THEN hash.weeks ELSE "all", k |-> IF hash.k > 0 THEN hash.k ELSE 5, topic |-> hash.topic, q |-> hash.q]
\* The address as it is read: what is offered, else the default.
ReadHash(hash) == [weeks |-> IF hash.weeks \in Periods THEN hash.weeks ELSE "all", k |-> IF hash.k \in Ks THEN hash.k ELSE 5, topic |-> hash.topic, q |-> hash.q]
\* Mutant before it: the topic chosen is not written.
WriteHash_NoTopic(view) == [weeks |-> IF view.weeks = "all" THEN "" ELSE view.weeks, k |-> IF view.k = 5 THEN 0 ELSE view.k, topic |-> -1, q |-> Trimmed(view.q)]
\* The address as it is written: the defaults left out.
WriteHash(view) == [weeks |-> IF view.weeks = "all" THEN "" ELSE view.weeks, k |-> IF view.k = 5 THEN 0 ELSE view.k, topic |-> view.topic, q |-> Trimmed(view.q)]

InPeriod(a, weeks) == weeks = "all" \/ Published[a] \in 0..4
FilterRows(rows, weeks, q) == SelectSeq(rows, LAMBDA a : InPeriod(a, weeks) /\ (Trimmed(q) = "" \/ a \in Titled[Trimmed(q)]))
Filtered(p) == FilterRows(p.rows, p.view.weeks, p.view.q)
\* What the worker is given.
Input(p) == [articles |-> Filtered(p), k |-> p.view.k]

\* A fitting stands for what it is made of; before any there is none, and without articles an empty one.
NoFit == [articles |-> << >>, k |-> -1]
EmptyFit == [articles |-> << >>, k |-> 0]
\* The topics the module fits: k parts of the articles, each with its keyword; a week's shares in articles.
Fitted(fit) ==
  [i \in 1..(IF fit.k < Len(fit.articles) THEN fit.k ELSE Len(fit.articles)) |->
     [id |-> i - 1, terms |-> <<Term[fit.articles[i]]>>, articles |-> {fit.articles[j] : j \in {n \in DOMAIN fit.articles : n % fit.k = i % fit.k}}]]
WeeksOf(fit) == {Published[fit.articles[i]] : i \in DOMAIN fit.articles} \ {-1}
Share(topic, week) == Cardinality({a \in topic.articles : Published[a] = week})

TopTerm(topic) == topic.terms[1]
NameOf(p, topic) == p.names[TopTerm(topic)]
\* A steward's name, else the topic's own.
TopicLabel(p, topic) == IF NameOf(p, topic) # "" THEN <<NameOf(p, topic)>> ELSE <<"topic", topic.id + 1>>

\* Topics a steward gave one name, as one: the first one's number, the keywords and the articles of all.
Groups(p) == {SelectSeq(Fitted(p.fit), LAMBDA other : TopicLabel(p, other) = TopicLabel(p, topic)) : topic \in ToSet(Fitted(p.fit))}
Joined(group) ==
  [id |-> group[1].id, terms |-> FoldLeft(LAMBDA all, t : IF TopTerm(t) \in ToSet(all) THEN all ELSE Append(all, TopTerm(t)), << >>, group),
   articles |-> UNION {group[i].articles : i \in DOMAIN group}]
Merged(p) == SetToSortSeq({Joined(group) : group \in Groups(p)}, LAMBDA a, b : a.id < b.id)
Shares(p, week) == [i \in DOMAIN Fitted(p.fit) |-> Share(Fitted(p.fit)[i], week)]
\* Mutant before it: the first one's share stays its own.
MergedShares_First(p, week) == Shares(p, week)
\* A week's shares: the first one's is the sum of all, the others' stay where they were.
MergedShares(p, week) ==
  [i \in DOMAIN Shares(p, week) |->
     IF \E group \in Groups(p) : group[1].id = i - 1
                    THEN LET group == CHOOSE g \in Groups(p) : g[1].id = i - 1 IN FoldLeft(+, 0, [n \in DOMAIN group |-> Share(group[n], week)])
                    ELSE Shares(p, week)[i]]

\* The topic of the address when it is among those shown, else the first.
SelectedTopic(p) ==
  LET asked == {topic \in ToSet(Merged(p)) : topic.id = p.view.topic} IN
  IF asked # {} THEN asked ELSE IF Merged(p) = << >> THEN {} ELSE {Merged(p)[1]}
\* Its articles among the rows, the newest first, those without a date last.
Rank(a) == IF Published[a] = -1 THEN 1000 ELSE Published[a]
SortArticles(articles) == SortSeq(SetToSeq(articles), LAMBDA a, b : Rank(a) < Rank(b))
SelectedArticles(p) == SortArticles(UNION {topic.articles \cap ToSet(p.rows) : topic \in SelectedTopic(p)})

\* What the page says and draws: a stack of each topic for each week, the same in figures.
Says(p) ==
  IF p.reading /\ p.rows = << >> THEN "reading"
  ELSE IF Filtered(p) = << >> THEN "empty"
  ELSE IF p.status = "loading" /\ p.fit = NoFit THEN "loading"
  ELSE IF p.fit # NoFit /\ Merged(p) # << >> THEN "topics" ELSE "empty"
List(p) == IF Says(p) # "topics" THEN {} ELSE {[id |-> t.id, name |-> TopicLabel(p, t), count |-> Cardinality(t.articles), pressed |-> t \in SelectedTopic(p)] : t \in ToSet(Merged(p))}
Table(p) == [w \in WeeksOf(p.fit) |-> [t \in ToSet(Merged(p)) |-> MergedShares(p, w)[t.id + 1]]]
WeeklyChart(p) == IF WeeksOf(p.fit) = {} \/ Merged(p) = << >> THEN << >> ELSE [i \in DOMAIN Merged(p) |-> [w \in WeeksOf(p.fit) |-> MergedShares(p, w)[Merged(p)[i].id + 1]]]
ArticleCards(p) == IF Says(p) # "topics" THEN << >> ELSE SelectedArticles(p)
\* A followed keyword is present when a topic shown has it.
Present(p, term) == p.fit # NoFit /\ \E topic \in ToSet(Merged(p)) : term \in ToSet(topic.terms)

OldRuns(runs) == [i \in DOMAIN runs |-> [runs[i] EXCEPT !.new = FALSE]]
\* Mutant before it: without articles the run under way stays the newest.
Nothing_Running(p, c) == [page |-> [p EXCEPT !.status = "ready", !.fit = EmptyFit, !.error = FALSE], runs |-> c.runs]
\* Without articles there is nothing to fit, and no answer is waited for.
Nothing(p, c) == [page |-> [p EXCEPT !.status = "ready", !.fit = EmptyFit, !.error = FALSE], runs |-> OldRuns(c.runs)]
\* Another input is handed to the worker; the topics before stay until it answers.
Posted(p, c) ==
  IF Filtered(p) = << >> THEN Nothing(p, c)
  ELSE IF server.worker = "none" THEN [page |-> p, runs |-> c.runs]
  ELSE [page |-> [p EXCEPT !.status = "loading"], runs |-> IF server.worker = "dead" THEN << >> ELSE Append(OldRuns(c.runs), [input |-> Input(p), new |-> TRUE])]
Rendered(p, c) ==
  LET posted == IF Input(p) # Input(page) THEN Posted(p, c) ELSE [page |-> p, runs |-> c.runs] IN
  page' = posted.page /\ calls' = [c EXCEPT !.runs = posted.runs]

Init ==
  /\ \E hash \in Links :
       page = [view |-> ReadHash(hash), hash |-> hash, rows |-> << >>, reading |-> TRUE, rowsError |-> FALSE, names |-> [t \in DOMAIN Named[1] |-> ""],
               status |-> "ready", fit |-> EmptyFit, error |-> FALSE, table |-> FALSE, kept |-> "reading", download |-> ""]
  /\ \E rows \in {<< >>, Articles}, worker \in {"up", "none"} : server = [rows |-> rows, worker |-> worker]
  /\ calls = [rows |-> TRUE, runs |-> << >>, kept |-> TRUE, corpus |-> {}]
  /\ seen = [inputs |-> 0]

RowsArrive(ok) ==
  /\ calls.rows /\ UNCHANGED <<server, seen>>
  /\ Rendered([page EXCEPT !.reading = FALSE, !.rowsError = ~ok, !.rows = IF ok THEN server.rows ELSE @], [calls EXCEPT !.rows = FALSE])
\* Mutant before it: the answer to an older input is taken.
Current_Any(run) == TRUE
\* Only the answer to the newest input counts.
Current(run) == run.new
Answered(p, run, ok) ==
  IF ~Current(run) THEN p
  ELSE IF ok THEN [p EXCEPT !.status = "ready", !.fit = run.input, !.error = FALSE] ELSE [p EXCEPT !.status = "error", !.fit = NoFit, !.error = TRUE]
\* The worker takes its messages in turn; each is answered with topics or with an error.
WorkerAnswers(ok) ==
  /\ calls.runs # << >> /\ server' = [server EXCEPT !.worker = "ok"]
  /\ page' = Answered(page, Head(calls.runs), ok) /\ calls' = [calls EXCEPT !.runs = Tail(@)] /\ UNCHANGED seen
\* Its script cannot be loaded: an error, and no message is ever answered.
WorkerFails ==
  /\ server.worker = "up" /\ server' = [server EXCEPT !.worker = "dead"]
  /\ page' = [page EXCEPT !.status = "error", !.error = TRUE] /\ calls' = [calls EXCEPT !.runs = << >>] /\ UNCHANGED seen

Input1 == seen.inputs < MaxInputs /\ seen' = [seen EXCEPT !.inputs = @ + 1] /\ UNCHANGED server
\* A choice of the reader is shown and written into the address.
Turn(view) == view # page.view /\ Input1 /\ Rendered([page EXCEPT !.view = view, !.hash = WriteHash(view)], calls)
Period == \E weeks \in Periods : Turn([page.view EXCEPT !.weeks = weeks])
Count == \E k \in {3, 5} : Turn([page.view EXCEPT !.k = k])
Search == \E s \in Searches \cup {<<"", "">>} : Turn([page.view EXCEPT !.q = s[1]])
TopicClick == \E topic \in List(page) : Turn([page.view EXCEPT !.topic = topic.id])
HashChange == \E hash \in Links : hash # page.hash /\ Input1 /\ Rendered([page EXCEPT !.view = ReadHash(hash), !.hash = hash], calls)
Reload == page.rowsError /\ Input1 /\ Rendered([page EXCEPT !.reading = TRUE, !.rowsError = FALSE], [calls EXCEPT !.rows = TRUE])
ShowTable == Says(page) = "topics" /\ ~page.table /\ page' = [page EXCEPT !.table = TRUE] /\ UNCHANGED <<server, calls, seen>>
\* A steward's name given or taken back, or the names read.
NamesArrive == \E i \in DOMAIN Named : Named[i] # page.names /\ Input1 /\ page' = [page EXCEPT !.names = Named[i]] /\ UNCHANGED calls

\* The weeks the server has kept, read once; a week's articles as a file.
KeptArrive(ok) == calls.kept /\ page' = [page EXCEPT !.kept = IF ok THEN "weeks" ELSE "failed"] /\ calls' = [calls EXCEPT !.kept = FALSE] /\ UNCHANGED <<server, seen>>
Corpus == \E week \in Weeks \ calls.corpus : page.kept = "weeks" /\ Input1 /\ page' = [page EXCEPT !.download = ""] /\ calls' = [calls EXCEPT !.corpus = @ \cup {week}]
CorpusAnswers(week, ok) == page' = (IF ok THEN page ELSE [page EXCEPT !.download = "failed"]) /\ calls' = [calls EXCEPT !.corpus = @ \ {week}] /\ UNCHANGED <<server, seen>>

Next ==
  \/ \E ok \in BOOLEAN : RowsArrive(ok) \/ WorkerAnswers(ok) \/ KeptArrive(ok)
  \/ \E week \in calls.corpus, ok \in BOOLEAN : CorpusAnswers(week, ok)
  \/ WorkerFails \/ Period \/ Count \/ Search \/ TopicClick \/ HashChange \/ Reload \/ ShowTable \/ NamesArrive \/ Corpus

Spec == Init /\ [][Next]_vars

TypeOK ==
  /\ page.view.weeks \in Periods /\ page.view.k \in Ks /\ page.status \in {"loading", "ready", "error"} /\ page.kept \in {"reading", "weeks", "failed"}
  /\ server.worker \in {"up", "ok", "dead", "none"} /\ seen.inputs \in 0..MaxInputs

\* topics.ts:101 -- topics said to be ready are those of the articles and the number chosen now: no answer to a choice left
\* behind is shown for them, however the answers and the choices interleave. Without a worker none are shown at all.
TopicsOfTheChoice ==
  /\ page.status = "ready" /\ server.worker # "none" => page.fit = IF Filtered(page) = << >> THEN EmptyFit ELSE Input(page)
  /\ ToSet(ArticleCards(page)) \subseteq ToSet(page.rows)
\* topics.ts:164 -- topics shown as one lose nothing and count nothing twice: each article of the fitting is in one topic
\* shown, a week's shares add up to the same, a followed keyword stays present, and one topic is pressed.
MergedOnce ==
  page.fit # NoFit =>
    /\ \A i \in DOMAIN page.fit.articles : Cardinality({t \in ToSet(Merged(page)) : page.fit.articles[i] \in t.articles}) = 1
    /\ \A w \in WeeksOf(page.fit) :
         FoldLeft(+, 0, [i \in DOMAIN WeeklyChart(page) |-> WeeklyChart(page)[i][w]]) = FoldLeft(+, 0, Shares(page, w))
    /\ \A t \in ToSet(Fitted(page.fit)) : Present(page, TopTerm(t))
    /\ Says(page) = "topics" => Cardinality({t \in List(page) : t.pressed}) = 1
\* Topics.tsx:38 -- the address read again is the view on screen, but for blanks around the words.
AddressIsView == [ReadHash(page.hash) EXCEPT !.q = Trimmed(@)] = [page.view EXCEPT !.q = Trimmed(@)]
\* topics.ts:73 -- with every message answered nothing is said to be loading, as long as the worker's script was not refused.
NothingHangs ==
  /\ calls.runs = << >> /\ server.worker # "dead" => page.status # "loading"
  /\ ~calls.rows => Says(page) # "reading" /\ (~calls.kept => page.kept # "reading")
=============================================================================
