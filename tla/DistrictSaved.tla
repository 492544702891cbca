---------------------------- MODULE DistrictSaved ----------------------------
(***************************************************************************)
(* The comparisons a reader keeps and the one a steward pins               *)
(* (district-compare/src/components/Saved.tsx): each change is shown at    *)
(* once, sent, and taken back when the server refuses it.                  *)
(***************************************************************************)
EXTENDS Naturals, Sequences, FiniteSets

CONSTANTS
  Bodies,    \* name, districts and measure of a comparison
  MaxInputs  \* writes of the reader

ConstantsOK == Bodies # {} /\ MaxInputs \in Nat

VARIABLES
  page,    \* [me, list, loaded, failed, busy, pinned, problem]
  server,  \* [rows, pins, next]: the reader's rows, the pins under the newest, the next id
  calls,   \* [list, pin, write]: two reads and the one write under way
  seen     \* [inputs, early, half, lost]: wrote before a first read answered, unpinned but the next pin unread, a done write's answer lost

vars == <<page, server, calls, seen>>

Row(id, body) == [id |-> id, body |-> body]
Draft(body) == Row(0, body)
Idle == [kind |-> "none"]
Top(pins) == IF pins = <<>> THEN {} ELSE {pins[Len(pins)]}

Init ==
  /\ page = [me |-> "asked", list |-> <<>>, loaded |-> FALSE, failed |-> FALSE, busy |-> FALSE, pinned |-> {}, problem |-> FALSE]
  /\ \E rows \in {<<>>, <<Row(1, CHOOSE b \in Bodies : TRUE)>>}, pins \in {<<>>, <<Row(2, CHOOSE b \in Bodies : TRUE)>>} :
       server = [rows |-> rows, pins |-> pins, next |-> 3]
  /\ calls = [list |-> Idle, pin |-> [kind |-> "out"], write |-> Idle]
  /\ seen = [inputs |-> 0, early |-> FALSE, half |-> FALSE, lost |-> FALSE]

\* Who reads: a viewer keeps, a steward pins too; signed out, nothing is read.
MeAnswers(who) ==
  /\ page.me = "asked"
  /\ page' = [page EXCEPT !.me = who]
  /\ calls' = IF who = "out" THEN calls ELSE [calls EXCEPT !.list = [kind |-> "out"]]
  /\ UNCHANGED <<server, seen>>

\* The first read of the reader's rows, and of the pin, which Compare reads.
ListServed ==
  /\ calls.list.kind = "out" /\ calls' = [calls EXCEPT !.list = [kind |-> "got", rows |-> server.rows]] /\ UNCHANGED <<page, server, seen>>
ListAnswers(ok) ==
  /\ calls.list.kind = "got"
  /\ page' = IF ok THEN [page EXCEPT !.loaded = TRUE, !.list = calls.list.rows] ELSE [page EXCEPT !.loaded = TRUE, !.failed = TRUE]
  /\ calls' = [calls EXCEPT !.list = Idle]
  /\ UNCHANGED <<server, seen>>
PinServed ==
  /\ calls.pin.kind = "out" /\ calls' = [calls EXCEPT !.pin = [kind |-> "got", pin |-> Top(server.pins)]] /\ UNCHANGED <<page, server, seen>>
PinAnswers(ok) ==
  /\ calls.pin.kind = "got"
  /\ page' = [page EXCEPT !.pinned = IF ok THEN calls.pin.pin ELSE @]
  /\ calls' = [calls EXCEPT !.pin = Idle]
  /\ seen' = [seen EXCEPT !.half = @ \/ ~ok]
  /\ UNCHANGED server

\* run(): one write at a time, shown at once, with what takes it back.
Run(kind, row, shown) ==
  /\ ~page.busy /\ seen.inputs < MaxInputs
  /\ page' = [shown EXCEPT !.busy = TRUE, !.problem = FALSE]
  /\ calls' = [calls EXCEPT !.write = [kind |-> kind, row |-> row, list |-> page.list, pinned |-> page.pinned, done |-> "out"]]
  /\ seen' = [seen EXCEPT !.inputs = @ + 1,
                          !.early = @ \/ (kind = "keep" /\ ~page.loaded) \/ (kind \in {"pin", "unpin"} /\ calls.pin # Idle)]
  /\ UNCHANGED server

Signed == page.me \in {"viewer", "steward"}
\* The rows that can be opened, updated and deleted: a comparison still being kept has nothing to act on yet.
Listed == IF page.loaded THEN {page.list[i] : i \in {j \in DOMAIN page.list : page.list[j].id > 0}} ELSE {}
Keep(body) == Signed /\ Run("keep", Draft(body), [page EXCEPT !.list = <<Draft(body)>> \o @])
Update(row, body) ==
  Run("update", Row(row.id, body), [page EXCEPT !.list = [i \in DOMAIN @ |-> IF @[i].id = row.id THEN Row(row.id, body) ELSE @[i]]])
Forget(row) ==
  Run("forget", row, [page EXCEPT !.list = SelectSeq(@, LAMBDA r : r.id # row.id)])
Pin(body) == page.me = "steward" /\ Run("pin", Draft(body), [page EXCEPT !.pinned = {Draft(body)}])
Unpin == page.me = "steward" /\ page.pinned # {} /\ Run("unpin", Draft(CHOOSE b \in Bodies : TRUE), [page EXCEPT !.pinned = {}])

\* The server does what it is asked, or refuses.
Applied(s, w) ==
  CASE w.kind = "keep" -> [s EXCEPT !.rows = <<Row(s.next, w.row.body)>> \o @, !.next = @ + 1]
    [] w.kind = "update" -> [s EXCEPT !.rows = [i \in DOMAIN @ |-> IF @[i].id = w.row.id THEN w.row ELSE @[i]]]
    [] w.kind = "forget" -> [s EXCEPT !.rows = SelectSeq(@, LAMBDA r : r.id # w.row.id)]
    [] w.kind = "pin" -> [s EXCEPT !.pins = Append(@, Row(s.next, w.row.body)), !.next = @ + 1]
    [] w.kind = "unpin" -> [s EXCEPT !.pins = IF @ = <<>> THEN @ ELSE SubSeq(@, 1, Len(@) - 1)]
Serves(ok) ==
  /\ calls.write # Idle /\ calls.write.done = "out"
  /\ server' = IF ok THEN Applied(server, calls.write) ELSE server
  /\ calls' = [calls EXCEPT !.write.done = IF ok THEN "yes" ELSE "no", !.write.row = IF ok /\ calls.write.kind \in {"keep", "pin"} THEN Row(server.next, @.body) ELSE @]
  /\ UNCHANGED <<page, seen>>

\* Mutant before it: a refused change of a row leaves what was shown.
Undone_Kept(w) ==
  CASE w.kind = "keep" -> [page EXCEPT !.list = SelectSeq(@, LAMBDA r : r.id # 0)]
    [] w.kind = "forget" -> [page EXCEPT !.list = w.list]
    [] w.kind = "update" -> page
    [] OTHER -> [page EXCEPT !.pinned = w.pinned]
\* What each change takes back.
Undone(w) ==
  CASE w.kind = "keep" -> [page EXCEPT !.list = SelectSeq(@, LAMBDA r : r.id # 0)]
    [] w.kind = "forget" -> [page EXCEPT !.list = w.list]
    [] w.kind = "update" -> [page EXCEPT !.list = [i \in DOMAIN @ |-> IF @[i].id = w.row.id THEN (CHOOSE r \in {w.list[j] : j \in DOMAIN w.list} : r.id = w.row.id) ELSE @[i]]]
    [] OTHER -> [page EXCEPT !.pinned = w.pinned]
\* What the server's answer puts in place of the draft.
Made(w) ==
  CASE w.kind = "keep" -> [page EXCEPT !.list = [i \in DOMAIN @ |-> IF @[i].id = 0 THEN w.row ELSE @[i]]]
    [] w.kind = "pin" -> [page EXCEPT !.pinned = {w.row}]
    [] OTHER -> page

WriteAnswers ==
  LET w == calls.write IN
  /\ w # Idle /\ w.done \in {"yes", "no"} /\ ~(w.kind = "unpin" /\ w.done = "yes")
  /\ page' = [IF w.done = "yes" THEN Made(w) ELSE Undone(w) EXCEPT !.busy = FALSE, !.problem = w.done = "no"]
  /\ calls' = [calls EXCEPT !.write = Idle]
  /\ UNCHANGED <<server, seen>>
\* The write was done, and its answer is lost.
AnswerLost ==
  LET w == calls.write IN
  /\ w # Idle /\ w.done = "yes"
  /\ page' = [Undone(w) EXCEPT !.busy = FALSE, !.problem = TRUE]
  /\ calls' = [calls EXCEPT !.write = Idle]
  /\ seen' = [seen EXCEPT !.lost = TRUE]
  /\ UNCHANGED server
\* After an unpin, the pin beneath it is read; when that fails, the unpin counts as refused.
OlderPin(ok) ==
  LET w == calls.write IN
  /\ w # Idle /\ w.kind = "unpin" /\ w.done = "yes"
  /\ page' = [IF ok THEN [page EXCEPT !.pinned = Top(server.pins)] ELSE Undone(w) EXCEPT !.busy = FALSE, !.problem = ~ok]
  /\ calls' = [calls EXCEPT !.write = Idle]
  /\ seen' = [seen EXCEPT !.half = @ \/ ~ok]
  /\ UNCHANGED server

Next ==
  \/ \E who \in {"out", "viewer", "steward"} : MeAnswers(who)
  \/ ListServed \/ PinServed \/ WriteAnswers \/ AnswerLost \/ Unpin
  \/ \E ok \in BOOLEAN : ListAnswers(ok) \/ PinAnswers(ok) \/ Serves(ok) \/ OlderPin(ok)
  \/ \E body \in Bodies : Keep(body) \/ Pin(body) \/ \E row \in Listed : Update(row, body)
  \/ \E row \in Listed : Forget(row)

Spec == Init /\ [][Next]_vars

TypeOK ==
  /\ page.me \in {"asked", "out", "viewer", "steward"} /\ Cardinality(page.pinned) <= 1 /\ page.busy = (calls.write # Idle)
  /\ \A i \in DOMAIN page.list : page.list[i].id \in 0..(server.next - 1) /\ page.list[i].body \in Bodies

\* Saved.tsx:28 -- "Each change shows at once and is taken back when the server refuses": once nothing is
\* under way, the page shows the reader's rows in the server's order and the newest pin, unless a
\* first read failed, was overtaken by a write, or a write was done whose answer never came.
SavedAgrees ==
  /\ calls.list = Idle /\ calls.write = Idle /\ page.loaded /\ ~page.failed /\ ~seen.early /\ ~seen.lost => page.list = server.rows
  /\ calls.pin = Idle /\ calls.write = Idle /\ ~seen.half /\ ~seen.early /\ ~seen.lost => page.pinned = Top(server.pins)
\* No draft outlives its write, and a change that failed says so.
NoDraftStays == ~page.busy => \A i \in DOMAIN page.list : page.list[i].id # 0
=============================================================================
