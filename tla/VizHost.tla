------------------------------- MODULE VizHost -------------------------------
(***************************************************************************)
(* The charts of one page (host.js, each in a frame of its own, and        *)
(* render.js in the frame inside): every chart reads its published view    *)
(* and then its source, page by page or window by window, through the few  *)
(* slots all charts of the page share, and hands the rows to its renderer. *)
(***************************************************************************)
EXTENDS Naturals, Sequences, FiniteSets, FiniteSetsExt

CONSTANTS
  Charts,
  Kind,       \* per chart: "csv", "ogc", "odata" or "temporal"
  READS,      \* reads the page runs at once
  Pages,      \* pages of an ogc or odata source
  Counts,     \* a temporal source: the instants each of its entities has, entity by entity
  PAGE,       \* entities of one temporal answer
  FirstN,     \* instants of an entity in one window
  LimitRows

ConstantsOK ==
  /\ Kind \in [Charts -> {"csv", "ogc", "odata", "temporal"}]
  /\ {READS, Pages, PAGE, FirstN} \subseteq Nat \ {0} /\ LimitRows \in Nat /\ Counts \in Seq(Nat)

VARIABLES
  chart,    \* per chart: [stage, io, line, tried, aborted, late, up, words]
  url,      \* per chart: the page, or the entity block and where its window starts: [page, block, from]
  merged,   \* per temporal chart: how often each instant of each entity is in its rows
  counted,  \* per chart: rows of the budget spent
  linked    \* per chart: its broker names the next window itself (Link), else its range (Content-Range)

vars == <<chart, url, merged, counted, linked>>

Entities == DOMAIN Counts
Instants == UNION {{e} \X (1..Counts[e]) : e \in Entities}
Nothing == [i \in Instants |-> 0]
Start == [page |-> 1, block |-> 0, from |-> [e \in Entities |-> 1]]
Settled == {"drawn", "failed"}

Init ==
  /\ chart = [c \in Charts |-> [stage |-> "view", io |-> "none", line |-> 0, tried |-> FALSE, aborted |-> FALSE,
                                late |-> FALSE, up |-> FALSE, words |-> ""]]
  /\ url = [c \in Charts |-> Start]
  /\ merged = [c \in Charts |-> Nothing]
  /\ counted = [c \in Charts |-> 0]
  /\ linked \in [Charts -> BOOLEAN]
  /\ \A c \in Charts : Kind[c] # "temporal" => linked[c]

\* Mutant before it: a read that fails keeps its slot.
Fails_Holds(c) == chart' = [chart EXCEPT ![c].stage = "failed", ![c].words = "failed"]
\* fail: the words stand where the chart would.
Fails(c) == chart' = [chart EXCEPT ![c].stage = "failed", ![c].words = "failed", ![c].io = "none", ![c].line = 0]

-----------------------------------------------------------------------------
(* slot and retried.                                                       *)

Holders(slot) == {c \in Charts : chart[c].line = slot /\ chart[c].io \in {"fetching", "resting"}}
Free == {slot \in 1..READS : Holders(slot) = {}}

\* A read wants a slot: the first that is free, else the line of one of them.
Asking(record, slot) == [record EXCEPT !.io = IF slot \in Free THEN "fetching" ELSE "queued", !.line = slot, !.tried = FALSE]
Slots == IF Free # {} THEN {Min(Free)} ELSE 1..READS

Granted(c) ==
  /\ chart[c].io = "queued" /\ chart[c].line \in Free
  /\ chart' = [chart EXCEPT ![c].io = "fetching"]
  /\ UNCHANGED <<url, merged, counted, linked>>

\* Mutant before it: the wait before the second try gives the slot away.
Refused_Releases(c) ==
  /\ chart[c].io = "fetching" /\ ~chart[c].tried /\ ~chart[c].aborted
  /\ chart' = [chart EXCEPT ![c].io = "resting", ![c].tried = TRUE, ![c].line = 0]
  /\ UNCHANGED <<url, merged, counted, linked>>

\* A 429 or a network error: one more try after a while, the slot held.
Refused(c) ==
  /\ chart[c].io = "fetching" /\ ~chart[c].tried /\ ~chart[c].aborted
  /\ chart' = [chart EXCEPT ![c].io = "resting", ![c].tried = TRUE]
  /\ UNCHANGED <<url, merged, counted, linked>>

Again(c) ==
  /\ chart[c].io = "resting"
  /\ chart' = [chart EXCEPT ![c].io = "fetching"]
  /\ UNCHANGED <<url, merged, counted, linked>>

-----------------------------------------------------------------------------
(* The source.                                                             *)

\* The published view, checked: a temporal source may have too long a window, a spec be refused.
View(c) ==
  /\ chart[c].stage = "view" /\ ~chart[c].aborted
  /\ \E slot \in Slots : chart' = [chart EXCEPT ![c] = Asking([@ EXCEPT !.stage = "data"], slot)]
  /\ UNCHANGED <<url, merged, counted, linked>>

ViewFails(c) ==
  /\ chart[c].stage = "view"
  /\ Fails(c)
  /\ UNCHANGED <<url, merged, counted, linked>>

Arrives(c) == chart[c].stage = "data" /\ chart[c].io = "fetching" /\ ~chart[c].aborted

\* The data is here: its entities' names are read too, unless the rows carry them.
Named(c, record) ==
  IF Kind[c] \in {"csv", "ogc"} THEN chart' = [chart EXCEPT ![c] = [record EXCEPT !.stage = "ready", !.io = "none", !.line = 0]]
  ELSE \E slot \in Slots \cup {record.line} : chart' = [chart EXCEPT ![c] = Asking([record EXCEPT !.stage = "names"], slot)]

\* A page of a csv, ogc or odata source, counted, and the next one.
Page(c, rows) ==
  /\ Arrives(c) /\ Kind[c] # "temporal"
  /\ counted' = [counted EXCEPT ![c] = @ + rows]
  /\ IF counted[c] + rows > LimitRows THEN Fails(c) /\ UNCHANGED url
     ELSE IF Kind[c] # "csv" /\ url[c].page < Pages
     THEN /\ url' = [url EXCEPT ![c].page = @ + 1]
          /\ \E slot \in Slots \cup {chart[c].line} : chart' = [chart EXCEPT ![c] = Asking(@, slot)]
     ELSE Named(c, chart[c]) /\ UNCHANGED url
  /\ UNCHANGED <<merged, linked>>

Block(c) == {e \in Entities : e > url[c].block /\ e <= url[c].block + PAGE}
Until(c, e) == Min({url[c].from[e] + FirstN - 1, Counts[e]})
Window(c) == {i \in Instants : i[1] \in Block(c) /\ i[2] \in url[c].from[i[1]]..Until(c, i[1])}
Cut(c) == \E e \in Block(c) : Until(c, e) < Counts[e]

\* nextWindow: after each attribute's last instant where the broker names it, else after the
\* newest instant of any of them, which comes again.
NextFrom(c) ==
  IF linked[c] THEN [e \in Entities |-> url[c].from[e] + FirstN]
  ELSE LET end == Max({i[2] : i \in Window(c)}) IN [e \in Entities |-> end]

\* Mutant before it: an instant served twice is in the rows twice.
Merge_Twice(rows, window) == [i \in Instants |-> rows[i] + IF i \in window THEN 1 ELSE 0]
\* merger: an instant served twice is kept once.
Merge(rows, window) == [i \in Instants |-> IF i \in window THEN 1 ELSE rows[i]]

\* Mutant before it: what is read in time is drawn without a word.
Partial_Silent(record) == record
Partial(record) == [record EXCEPT !.words = "partial"]

Some(c) == \E i \in Instants : merged[c][i] > 0

\* A window over the budget: what came before is drawn as a part; nothing came, no chart.
OverLimit(c) == counted[c] + Cardinality(Window(c)) > LimitRows
WindowOver(c) ==
  /\ Arrives(c) /\ Kind[c] = "temporal" /\ OverLimit(c)
  /\ IF Some(c) THEN Named(c, Partial(chart[c])) ELSE Fails(c)
  /\ UNCHANGED <<url, merged, counted, linked>>

\* A window merged; the next one of these entities, unless the deadline passed; then the next
\* entities, after a full block of them.
WindowComes(c) ==
  /\ Arrives(c) /\ Kind[c] = "temporal" /\ ~OverLimit(c)
  /\ counted' = [counted EXCEPT ![c] = @ + Cardinality(Window(c))]
  /\ merged' = [merged EXCEPT ![c] = Merge(@, Window(c))]
  /\ LET stuck == Cut(c) /\ NextFrom(c) = url[c].from
         full == Cardinality(Block(c)) = PAGE
         asks == \E slot \in Slots \cup {chart[c].line} : chart' = [chart EXCEPT ![c] = Asking(@, slot)]
     IN CASE Cut(c) /\ (stuck \/ chart[c].late) -> Named(c, Partial(chart[c])) /\ UNCHANGED url
          [] Cut(c) /\ ~(stuck \/ chart[c].late) -> asks /\ url' = [url EXCEPT ![c].from = NextFrom(c)]
          [] ~Cut(c) /\ full -> asks /\ url' = [url EXCEPT ![c] = [Start EXCEPT !.block = url[c].block + PAGE]]
          [] OTHER -> Named(c, chart[c]) /\ UNCHANGED url
  /\ UNCHANGED linked

\* Any other answer, or the second refusal.
ReadFails(c) ==
  /\ Arrives(c)
  /\ Fails(c)
  /\ UNCHANGED <<url, merged, counted, linked>>

\* Past fifteen seconds every fetch ends: what a temporal source has brought is drawn as a part.
ReadAborted(c) ==
  /\ chart[c].aborted
  /\ \/ chart[c].stage = "view" /\ Fails(c)
     \/ /\ chart[c].stage = "data" /\ chart[c].io = "fetching"
        /\ IF Kind[c] = "temporal" /\ Some(c) THEN Named(c, Partial(chart[c])) ELSE Fails(c)
  /\ UNCHANGED <<url, merged, counted, linked>>

\* The names, or none: a read that fails leaves the entities' identifiers.
NamesEnd(c) ==
  /\ chart[c].stage = "names" /\ chart[c].io = "fetching"
  /\ chart' = [chart EXCEPT ![c].stage = "ready", ![c].io = "none", ![c].line = 0]
  /\ UNCHANGED <<url, merged, counted, linked>>

\* The deadline for another window, three seconds short of the timer; the timer.
Late(c) ==
  /\ ~chart[c].late /\ chart[c].stage \in {"view", "data", "names"}
  /\ chart' = [chart EXCEPT ![c].late = TRUE]
  /\ UNCHANGED <<url, merged, counted, linked>>

Timer(c) ==
  /\ chart[c].late /\ ~chart[c].aborted /\ chart[c].stage \in {"view", "data", "names"}
  /\ chart' = [chart EXCEPT ![c].aborted = TRUE]
  /\ UNCHANGED <<url, merged, counted, linked>>

-----------------------------------------------------------------------------
(* The renderer.                                                           *)

Up(c) ==
  /\ ~chart[c].up
  /\ chart' = [chart EXCEPT ![c].up = TRUE]
  /\ UNCHANGED <<url, merged, counted, linked>>

\* Spec and rows to a renderer that said it is there.
Sends(c) ==
  /\ chart[c].stage = "ready" /\ chart[c].up
  /\ chart' = [chart EXCEPT ![c].stage = "sent"]
  /\ UNCHANGED <<url, merged, counted, linked>>

Draws(c) ==
  /\ chart[c].stage = "sent"
  /\ chart' = [chart EXCEPT ![c].stage = "drawn"]
  /\ UNCHANGED <<url, merged, counted, linked>>

RenderFails(c) ==
  /\ chart[c].stage = "sent"
  /\ Fails(c)
  /\ UNCHANGED <<url, merged, counted, linked>>

Steps(c) ==
  \/ Granted(c) \/ Refused(c) \/ Again(c) \/ View(c) \/ ViewFails(c) \/ Page(c, 1)
  \/ WindowOver(c) \/ WindowComes(c) \/ ReadFails(c) \/ ReadAborted(c) \/ NamesEnd(c)
  \/ Up(c) \/ Sends(c) \/ Draws(c) \/ RenderFails(c)

Next == \E c \in Charts : Steps(c) \/ Late(c) \/ Timer(c)

\* Answers come and frames load; the timers only cut them short.
Fairness == \A c \in Charts : SF_vars(Granted(c)) /\ WF_vars(Steps(c))
Spec == Init /\ [][Next]_vars /\ Fairness

-----------------------------------------------------------------------------
TypeOK ==
  /\ \A c \in Charts :
       /\ chart[c].stage \in {"view", "data", "names", "ready", "sent", "drawn", "failed"}
       /\ chart[c].io \in {"none", "queued", "fetching", "resting"} /\ chart[c].line \in 0..READS
       /\ chart[c].words \in {"", "partial", "failed"} /\ merged[c] \in [Instants -> Nat] /\ counted[c] \in Nat
       /\ url[c].page \in 1..Pages

\* The page never runs more reads than READS, the retried ones included: the edge would refuse
\* one of its own charts.
AtMostReads == Cardinality({c \in Charts : chart[c].io \in {"fetching", "resting"}}) <= READS

\* A chart of a broker that names its next window draws every instant of every entity once, or
\* says that it is partial, whichever limit, deadline or timer cut it.
WholeOrSaid ==
  \A c \in Charts : Kind[c] = "temporal" /\ chart[c].stage \in {"ready", "sent", "drawn"} =>
    /\ \A i \in Instants : merged[c][i] <= 1
    /\ linked[c] => chart[c].words = "partial" \/ \A i \in Instants : merged[c][i] = 1

\* The charts of a page share its slots, and none is drawn short or doubled without a word.
ChartsWholeOrSaid == AtMostReads /\ WholeOrSaid

\* Every chart is drawn, or says why not.
AllSettled == \A c \in Charts : chart[c].stage \in Settled
EveryChartSettles == <>[]AllSettled

-----------------------------------------------------------------------------
(***************************************************************************)
(* Why they hold: a slot is held by one read, the resting ones included;   *)
(* and a source that names its next window has brought every instant of    *)
(* the entities before the block, and of those in it what lies before the  *)
(* window.                                                                 *)
(***************************************************************************)
Records ==
  [stage : {"view", "data", "names", "ready", "sent", "drawn", "failed"},
   io : {"none", "queued", "fetching", "resting"}, line : 0..READS,
   tried : BOOLEAN, aborted : BOOLEAN, late : BOOLEAN, up : BOOLEAN,
   words : {"", "partial", "failed"}]

Running == {"fetching", "resting"}

SlotsHeld ==
  \A c \in Charts : chart[c].io \in Running =>
    /\ chart[c].line \in 1..READS
    /\ \A d \in Charts \ {c} : chart[d].io \in Running => chart[d].line # chart[c].line

Brought(c) ==
  /\ url[c] \in [page : Nat, block : Nat, from : [Entities -> Nat \ {0}]]
  /\ \A i \in Instants :
       i[1] <= url[c].block \/ (i[1] \in Block(c) /\ i[2] < url[c].from[i[1]]) => merged[c][i] = 1

HeldBack == {"names", "ready", "sent", "drawn"}

Told(c) ==
  /\ chart[c].stage \in {"view", "data"} => Brought(c)
  /\ chart[c].stage \in HeldBack => chart[c].words = "partial" \/ \A i \in Instants : merged[c][i] = 1

\* What is counted and what is asked for.
Counted ==
  /\ counted \in [Charts -> Nat]
  /\ \A c \in Charts :
       url[c] = [page |-> url[c].page, block |-> url[c].block, from |-> url[c].from] /\ url[c].page \in 1..Pages

HostInv ==
  /\ chart \in [Charts -> Records] /\ merged \in [Charts -> [Instants -> {0, 1}]]
  /\ url = [c \in Charts |-> url[c]]
  /\ SlotsHeld
  /\ \A c \in Charts : Kind[c] = "temporal" /\ linked[c] => Told(c)
=============================================================================
