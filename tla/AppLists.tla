------------------------------- MODULE AppLists -------------------------------
(***************************************************************************)
(* The lists readers and stewards keep in the city apps, and the ways      *)
(* these change them: shown at once and the whole list put back on a       *)
(* refusal, or only the row; or written first and shown when done.         *)
(***************************************************************************)
EXTENDS Integers, FiniteSets

CONSTANTS
  Lists,     \* the lists below that are followed
  Keys,      \* what a list is of: a station, an indicator, an operator; "all" among them
  Subjects,  \* what a row is about: a term, an alert, an event, a name
  Vals,      \* what it says of it
  MaxInputs  \* writes and turns of the reader

Keyed == {"faults", "published", "plans"}
OneAtATime == {"published", "plans", "reports", "faults"}
Unkeyed == {"places", "origins", "follows", "featured", "days", "acks", "filters", "terms", "names", "reports"}
ConstantsOK == Lists \subseteq Keyed \cup Unkeyed /\ "all" \in Keys /\ Subjects # {} /\ Vals # {} /\ MaxInputs \in Nat

VARIABLES
  page,    \* [of, key, list, read, failed]: the list on screen and what it is of; read is FALSE while it shows "reading"
  server,  \* [rows, next]: the rows kept, the next id
  calls,   \* [reads, writes]
  seen     \* [inputs, odd]: turns; what happened that the code does not mend

vars == <<page, server, calls, seen>>

Row(id, key, k, v) == [id |-> id, key |-> key, k |-> k, v |-> v]

\* What the server lists: the rows of a station, an indicator or an operator, every operator's under "all".
Listed(of, key) == IF of = "plans" /\ key = "all" THEN server.rows ELSE {r \in server.rows : r.key = key}

\* A read of the list; the plans' writes wait for the one after them.
Read(key, held) == [key |-> key, new |-> TRUE, held |-> held, got |-> {}, served |-> FALSE]

Init ==
  /\ \E of \in Lists, key \in Keys :
       /\ of # "plans" => key = "all"
       /\ page = [of |-> of, key |-> key, list |-> {}, read |-> FALSE, failed |-> FALSE]
       /\ server = [rows |-> {Row(1, key, CHOOSE k \in Subjects : TRUE, CHOOSE v \in Vals : TRUE)}, next |-> 2]
       /\ calls = [reads |-> {Read(key, FALSE)}, writes |-> {}]
  /\ seen = [inputs |-> 0, odd |-> {}]

Odd(what, so) == IF so THEN seen.odd \cup {what} ELSE seen.odd
ReadServed(read) ==
  /\ ~read.served
  /\ calls' = [calls EXCEPT !.reads = (@ \ {read}) \cup {[read EXCEPT !.served = TRUE, !.got = Listed(page.of, read.key)]}]
  /\ UNCHANGED <<page, server, seen>>

\* Mutant before it: whatever read answers last is shown.
Current_Any(read) == TRUE
\* A read the list has turned from is dropped; the saved plans' is not.
Current(read) == read.new \/ page.of = "plans"
\* The lists whose failed read empties nothing.
LeftAlone == {"acks", "filters", "terms", "names", "reports"}
ReadAnswers(read, ok) ==
  /\ read.served
  /\ page' = IF ~Current(read) THEN page
             ELSE [page EXCEPT !.list = IF ok THEN read.got ELSE IF page.of \in LeftAlone THEN @ ELSE {}, !.read = TRUE, !.failed = ~ok]
  /\ calls' = [calls EXCEPT !.reads = @ \ {read}]
  /\ UNCHANGED <<server, seen>>

\* The reader turns to another station, indicator or operator: the list is read again.
Turned(key) ==
  /\ page.of \in Keyed /\ key # page.key /\ seen.inputs < MaxInputs
  /\ page' = [page EXCEPT !.key = key, !.read = page.of = "plans" /\ @]
  /\ calls' = [calls EXCEPT !.reads = {[r EXCEPT !.new = FALSE] : r \in @} \cup {Read(key, FALSE)}]
  /\ seen' = [inputs |-> seen.inputs + 1,
              odd |-> Odd("crossed", calls.writes # {}) \cup Odd("overtook", page.of = "plans" /\ calls.reads # {})]
  /\ UNCHANGED server

\* A write begins: what is shown meanwhile, and what a refusal puts back.
Sent(kind, row, undo, shown, then) ==
  /\ seen.inputs < MaxInputs /\ (page.of \in OneAtATime => calls.writes = {} /\ \A read \in calls.reads : ~read.held)
  /\ page' = [page EXCEPT !.list = shown, !.read = @ \/ undo = "whole"]
  /\ calls' = [calls EXCEPT !.writes = @ \cup {[n |-> seen.inputs, kind |-> kind, key |-> page.key, row |-> row, undo |-> undo, before |-> page.list, then |-> then, done |-> "out"]}]
  /\ seen' = [inputs |-> seen.inputs + 1,
              odd |-> Odd("early", calls.reads # {}) \cup Odd("overlap", calls.writes # {})
                      \cup Odd("same", \E w \in calls.writes : ({w.row.k} \cup w.then) \cap ({row.k} \cup then) # {})]
  /\ UNCHANGED server

New(k, v) == Row(-1 - seen.inputs, page.key, k, v)
With(row) == page.list \cup {row}
Without(row) == page.list \ {row}
Changed(row, to) == Without(row) \cup {to}
Shown == IF page.read THEN {r \in page.list : r.id > 0} ELSE {}

\* Shown at once, the whole list back on a refusal.
PlacesChange(row, v) == page.of = "places" /\ Sent("change", [row EXCEPT !.v = v], "whole", Changed(row, [row EXCEPT !.v = v]), {})
PlacesRemove(row) == page.of = "places" /\ Sent("remove", row, "whole", Without(row), {})
OriginsRename(row, v) == page.of = "origins" /\ Sent("change", [row EXCEPT !.v = v], "whole", Changed(row, [row EXCEPT !.v = v]), {})
OriginsPublish(row, v) == page.of = "origins" /\ Sent("change", [row EXCEPT !.v = v], "whole", Changed(row, [row EXCEPT !.v = v]), {})
OriginsRemove(row) == page.of = "origins" /\ Sent("remove", row, "whole", Without(row), {})
FeaturedAdd(k, v) == page.of = "featured" /\ Sent("keep", New(k, v), "whole", With(New(k, v)), {})
FeaturedNote(row, v) == page.of = "featured" /\ Sent("change", [row EXCEPT !.v = v], "whole", Changed(row, [row EXCEPT !.v = v]), {})
FeaturedRemove(row) == page.of = "featured" /\ Sent("remove", row, "whole", Without(row), {})
DaysForget(row) == page.of = "days" /\ Sent("remove", row, "whole", Without(row), {})
Unfollow(row) == page.of = "follows" /\ Sent("remove", row, "whole", Without(row), {})
Unmark(row) == page.of = "faults" /\ Sent("remove", row, "whole", Without(row), {})
Withdraw(row) == page.of = "published" /\ Sent("remove", row, "whole", Without(row), {})
HandOver(row, key) == page.of = "plans" /\ Sent("hand", [row EXCEPT !.key = key], "whole", Changed(row, [row EXCEPT !.key = key]), {})

\* Shown at once, the one row back on a refusal.
Acknowledge(k, v) == page.of = "acks" /\ (\A r \in page.list : r.k # k) /\ Sent("keep", New(k, v), "row", With(New(k, v)), {})
TakeBack(row) == page.of = "acks" /\ Sent("remove", row, "row", Without(row), {})
FilterKeep(k, v) == page.of = "filters" /\ Sent("keep", New(k, v), "row", With(New(k, v)), {})
FilterForget(row) == page.of = "filters" /\ Sent("remove", row, "row", Without(row), {})
Toggle(k, v) ==
  /\ page.of = "terms"
  /\ \/ \E row \in Shown : row.k = k /\ Sent("remove", row, "row", Without(row), {})
     \/ (\A row \in page.list : row.k # k) /\ Sent("keep", New(k, v), "row", With(New(k, v)), {})
\* A steward names a topic; merging two gives the other one's name to both, one after the other.
Draft(list, k, v) == IF \E r \in list : r.k = k THEN [CHOOSE r \in list : r.k = k EXCEPT !.v = v] ELSE New(k, v)
Give(k, v, then) ==
  page.of = "names" /\ Sent("give", Draft(page.list, k, v), "row", {r \in page.list : r.k # k} \cup {Draft(page.list, k, v)}, then)
Merge(k, into, v) == k # into /\ (\A r \in page.list : r.k # into) /\ Give(into, v, {k})
Unname(row) == page.of = "names" /\ Sent("remove", row, "row", Without(row), {})

\* Written first, shown when the server has made it; the plans are read again.
PlacesAdd(k, v) == page.of = "places" /\ Sent("add", New(k, v), "none", page.list, {})
Follow(k, v) == page.of = "follows" /\ Sent("add", New(k, v), "none", page.list, {})
Mark(k, v) == page.of = "faults" /\ Sent("add", New(k, v), "none", page.list, {})
Publish(k, v) == page.of = "published" /\ Sent("add", New(k, v), "none", page.list, {})
ReportSave(k, v) == page.of = "reports" /\ Sent("add", New(k, v), "none", page.list, {})
PlansSave(k, v) == page.of = "plans" /\ page.key # "all" /\ Sent("save", New(k, v), "none", page.list, {})
PlansDriven(row, v) == page.of = "plans" /\ Sent("drive", [row EXCEPT !.v = v], "none", page.list, {})
PlansRemove(row) == page.of = "plans" /\ Sent("erase", row, "none", page.list, {})

\* The server does it, or refuses.
Makes(w) == w.kind \in {"keep", "add", "save"} \/ (w.kind = "give" /\ \A r \in server.rows : r.k # w.row.k)
Stored(w) ==
  IF Makes(w) THEN [w.row EXCEPT !.id = server.next]
  ELSE IF w.kind = "give" THEN [CHOOSE r \in server.rows : r.k = w.row.k EXCEPT !.v = w.row.v] ELSE w.row
Served(w, ok) ==
  /\ w.done = "out" /\ (ok /\ ~Makes(w) => \E r \in server.rows : r.id = Stored(w).id)
  /\ server' = IF ~ok THEN server
               ELSE [rows |-> {r \in server.rows : r.id # Stored(w).id} \cup (IF w.kind \in {"remove", "erase"} THEN {} ELSE {Stored(w)}),
                     next |-> server.next + (IF Makes(w) THEN 1 ELSE 0)]
  /\ calls' = [calls EXCEPT !.writes = (@ \ {w}) \cup {[w EXCEPT !.done = IF ok THEN "yes" ELSE "no", !.row = IF ok /\ w.kind \notin {"remove", "erase"} THEN Stored(w) ELSE @]}]
  /\ UNCHANGED <<page, seen>>

\* Mutant before it: a removed row's refusal puts nothing back.
RowBack_Lost(w) == {r \in page.list : r.id # -1 - w.n}
\* The row as it was before the write: gone for a draft, the earlier one for a name or a removal.
RowBack(w) ==
  IF w.kind = "remove" THEN page.list \cup {w.row}
  ELSE {r \in page.list : IF w.kind = "give" THEN r.k # w.row.k ELSE r.id # -1 - w.n} \cup {r \in w.before : w.kind = "give" /\ r.k = w.row.k}
\* Mutant before it: the list put back is the one shown.
WholeBack_Kept(w) == page.list
WholeBack(w) == w.before
Undone(w) == CASE w.undo = "whole" -> WholeBack(w) [] w.undo = "row" -> RowBack(w) [] OTHER -> page.list

\* What a done write shows.
Made(w) ==
  CASE w.kind = "keep" -> {IF r.id = -1 - w.n THEN w.row ELSE r : r \in page.list}
    [] w.kind = "give" -> {IF r.k = w.row.k THEN w.row ELSE r : r \in page.list}
    [] w.kind = "add" -> page.list \cup {w.row}
    [] OTHER -> page.list

\* The write answers: done, refused, or done with its answer lost.
Answered(w, heard) ==
  LET ok == w.done = "yes" /\ heard
      rest == calls.writes \ {w}
      second == {[n |-> w.n, kind |-> "give", key |-> w.key, row |-> Draft(w.before, k, w.row.v), undo |-> "row", before |-> w.before, then |-> {}, done |-> "out"] : k \in IF ok THEN w.then ELSE {}}
      shows == (ok /\ w.kind = "add") \/ (~ok /\ w.undo = "whole")
      reload == ok /\ w.kind \in {"save", "drive", "erase"} IN
  /\ w.done \in {"yes", "no"}
  /\ page' = [page EXCEPT !.read = IF shows THEN page.of = "published" => w.key = page.key ELSE @,
                          !.list = IF ~ok THEN Undone(w) ELSE {r \in Made(w) : \A s \in second : r.k # s.row.k} \cup {s.row : s \in second}]
  /\ calls' = [reads |-> calls.reads \cup (IF reload THEN {Read(w.key, TRUE)} ELSE {}), writes |-> rest \cup second]
  /\ seen' = [seen EXCEPT !.odd = @ \cup (IF w.done = "no" THEN {"refused"} ELSE IF ~heard THEN {"lost"} ELSE {})
                                   \cup (IF reload /\ calls.reads # {} THEN {"overtook"} ELSE {})
                                   \cup (IF ok /\ w.kind = "hand" /\ page.key # "all" THEN {"handed"} ELSE {})]
  /\ UNCHANGED server

Next ==
  \/ \E read \in calls.reads : ReadServed(read) \/ \E ok \in BOOLEAN : ReadAnswers(read, ok)
  \/ \E key \in Keys : Turned(key)
  \/ \E w \in calls.writes : \E ok \in BOOLEAN : Served(w, ok) \/ Answered(w, ok)
  \/ \E k \in Subjects, v \in Vals :
       \/ PlacesAdd(k, v) \/ Follow(k, v) \/ Mark(k, v) \/ Publish(k, v) \/ ReportSave(k, v) \/ PlansSave(k, v)
       \/ FeaturedAdd(k, v) \/ Acknowledge(k, v) \/ FilterKeep(k, v) \/ Toggle(k, v) \/ Give(k, v, {})
       \/ \E into \in Subjects : Merge(k, into, v)
  \/ \E row \in Shown :
       \/ PlacesRemove(row) \/ OriginsRemove(row) \/ FeaturedRemove(row) \/ DaysForget(row) \/ Unfollow(row) \/ Unmark(row)
       \/ Withdraw(row) \/ TakeBack(row) \/ FilterForget(row) \/ Unname(row) \/ PlansRemove(row)
       \/ \E key \in Keys \ {"all"} : HandOver(row, key)
       \/ \E v \in Vals \ {row.v} : PlacesChange(row, v) \/ OriginsRename(row, v) \/ OriginsPublish(row, v) \/ FeaturedNote(row, v) \/ PlansDriven(row, v)

Spec == Init /\ [][Next]_vars

TypeOK ==
  /\ page.of \in Lists /\ page.key \in Keys /\ seen.inputs \in 0..MaxInputs
  /\ \A r \in page.list \cup server.rows : r.k \in Subjects /\ r.v \in Vals
  /\ Cardinality({r.id : r \in server.rows}) = Cardinality(server.rows)

\* origins.ts:23, Acks.tsx:20, Names.tsx:19, Filters.tsx:14 -- "shown at once, taken back when refused": with
\* nothing under way a list shows what the server keeps. A list put back whole holds to that for writes
\* one at a time, one put back by the row for writes of different rows; a write sent before the first
\* read, an answer that is lost and a turn to another list in between are the code's own gaps.
Gaps ==
  {"early", "lost", "crossed", "overtook", "handed", "same"}
  \cup (IF {"overlap", "refused"} \subseteq seen.odd /\ page.of \notin {"acks", "filters", "terms", "names"} THEN {"overlap"} ELSE {})
ListAgrees ==
  calls.reads = {} /\ calls.writes = {} /\ page.read /\ ~page.failed /\ seen.odd \cap Gaps = {} => page.list = Listed(page.of, page.key)
\* With no write under way no draft is left on the list, whatever was refused or lost, unless two writes overlapped.
NoDraftStays == calls.writes = {} /\ seen.odd \cap {"overlap", "same", "crossed"} = {} => \A r \in page.list : r.id > 0
\* A list that says "reading" has a read behind it, unless an indicator's forecast was published after the reader turned from it.
NothingHangs == ~page.read /\ ~(page.of = "published" /\ "crossed" \in seen.odd) => \E read \in calls.reads : read.new
=============================================================================
