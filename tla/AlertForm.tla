------------------------------- MODULE AlertForm -------------------------------
(***************************************************************************)
(* The stewards' form of the traffic alerts (helsinki-alerts): a new alert *)
(* or a correction of one, its names language by language, and the         *)
(* deletion of a steward's own. An attribute is written whole, so a name   *)
(* is read in every language before it may be written. That it has         *)
(* languages the schema of the type says, which may come after the form.   *)
(***************************************************************************)
EXTENDS Naturals, FiniteSets

CONSTANTS
  Ids,       \* the alerts of the feed
  Own,       \* the ones a steward added, the new one among them
  Texts,     \* what a plain field may say; "outside" is not among its options, below its minimum, no place
  Words,     \* what a name may say in a language
  Kinds,     \* the kinds of the plain field
  Required,  \* of "v", the plain field, and "name"
  MaxInputs

New == "new"
Langs == {"fi", "en"}
ConstantsOK ==
  /\ New \notin Ids /\ Own \subseteq Ids \cup {New} /\ {"", "outside"} \subseteq Texts /\ "" \in Words
  /\ Kinds \subseteq {"number", "checkbox", "geo", "select", "date", "text"} /\ Required \subseteq {"v", "name"} /\ MaxInputs \in Nat

VARIABLES
  page,    \* [rows, selected, panel, mode, deleting, form]
  server,  \* the alerts the endpoint holds
  calls,   \* [read, langs, writes]
  seen     \* [inputs, kind, elsewhere, wiped, plain]: whether others wrote, what a write took with it, and the
           \* languages a name written as plain text did

vars == <<page, server, calls, seen>>

None == "none"
Alert(v, fi, en) == [v |-> v, fi |-> fi, en |-> en]
Blank == Alert("", "", "")
NoForm == [id |-> None]
Unread == [fi |-> "?", en |-> "?"]
Names(alert) == [l \in Langs |-> alert[l]]

\* The draft a form opens with: the attribute in words, blank when the alert has none.
GetInitialDraft(alert) == alert.v
\* A row holds one language of a name, the reader's where it has it.
LangOf(alert) == IF alert.en = "" /\ alert.fi # "" THEN "fi" ELSE "en"
NameOf(alert) == alert[LangOf(alert)]
\* A form opens before its type's schema is there: no field has languages then, and a name is plain text.
Fresh(id, alert) ==
  [id |-> id, draft |-> GetInitialDraft(alert), first |-> GetInitialDraft(alert), lang |-> LangOf(alert), name |-> NameOf(alert),
   named |-> NameOf(alert), known |-> FALSE, stored |-> Names(Blank), names |-> Names(Blank), typed |-> {}, errors |-> {}, saving |-> FALSE,
   problem |-> FALSE, unread |-> FALSE]

\* What a text becomes: nothing, a value, or an error of its kind; the rows tell a place, the schema the rest.
ParseInput(f, text) ==
  IF text = "" THEN "null"
  ELSE IF text = "outside" /\ (seen.kind = "geo" \/ (f.known /\ seen.kind \notin {"date", "checkbox"})) THEN "error" ELSE text

Init ==
  /\ page = [rows |-> << >>, selected |-> None, panel |-> None, mode |-> "view", deleting |-> FALSE, form |-> NoForm]
  /\ \E v \in Texts \ {""}, w \in Words \ {""}, e \in Words : server = [id \in Ids |-> Alert(v, w, e)]
  /\ calls = [read |-> [at |-> "out"], langs |-> [at |-> "idle"], writes |-> {}]
  /\ \E kind \in Kinds : seen = [inputs |-> 0, kind |-> kind, elsewhere |-> FALSE, wiped |-> {}, plain |-> {}]

\* A form is there in its mode, the edit form while its alert is among the rows; another alert starts over.
Rendered(p) ==
  LET wanted == IF p.mode = "new" THEN New ELSE IF p.mode = "edit" /\ p.selected \in DOMAIN p.rows THEN p.selected ELSE None IN
  IF wanted = p.form.id THEN p
  ELSE [p EXCEPT !.form = IF wanted = None THEN NoForm ELSE IF wanted = New THEN Fresh(New, Blank) ELSE Fresh(wanted, p.rows[wanted])]
\* A form that closes forgets its reads, not its writes.
Effects(p, c) ==
  IF p.form.id = page.form.id THEN c ELSE [c EXCEPT !.langs = [at |-> "idle"], !.writes = {[w EXCEPT !.live = FALSE] : w \in @}]
Shows(p, c) == page' = Rendered(p) /\ calls' = Effects(Rendered(p), c)
Reload(c) == [c EXCEPT !.read = [at |-> "out"]]
Input == seen.inputs < MaxInputs /\ seen' = [seen EXCEPT !.inputs = @ + 1]

\* The rows, read once and again after every change of the reader's.
RowsServed ==
  /\ calls.read.at = "out" /\ calls' = [calls EXCEPT !.read = [at |-> "got", rows |-> server]] /\ UNCHANGED <<page, server, seen>>
RowsArrive ==
  /\ calls.read.at = "got" /\ Shows([page EXCEPT !.rows = calls.read.rows], [calls EXCEPT !.read = [at |-> "idle"]])
  /\ UNCHANGED <<server, seen>>

\* An alert on the map or in the table opens in the panel; a form makes room for itself.
Opened(p, id) == [p EXCEPT !.selected = id, !.panel = id, !.mode = "view"]
Open(id) == id \in DOMAIN page.rows /\ id # page.selected /\ Input /\ Shows(Opened(page, id), calls) /\ UNCHANGED server
StartForm(mode) ==
  /\ mode # page.mode /\ (mode = "edit" => page.mode = "view" /\ page.selected \in DOMAIN page.rows)
  /\ Input /\ Shows([page EXCEPT !.panel = None, !.mode = mode], calls)
  /\ UNCHANGED server
Cancel == page.form # NoForm /\ Shows([page EXCEPT !.mode = "view"], calls) /\ UNCHANGED <<server, seen>>

\* The schema comes, unless its read fails: the name has languages. A new alert has none to read; of another,
\* every language is read before any is written. What was typed as plain text is not looked at again.
SchemaArrives ==
  /\ page.form # NoForm /\ ~page.form.known
  /\ page' = [page EXCEPT !.form.known = TRUE, !.form.stored = IF page.form.id = New THEN Names(Blank) ELSE Unread,
                          !.form.names = Names(Blank), !.form.typed = @ \cap {"v"}]
  /\ calls' = [calls EXCEPT !.langs = IF page.form.id = New THEN [at |-> "idle"] ELSE [at |-> "out"]]
  /\ UNCHANGED <<server, seen>>
LanguagesServed ==
  /\ calls.langs.at = "out"
  /\ calls' = [calls EXCEPT !.langs = IF page.form.id \in DOMAIN server THEN [at |-> "got", names |-> Names(server[page.form.id])] ELSE [at |-> "failed"]]
  /\ UNCHANGED <<page, server, seen>>
LanguagesArrive ==
  /\ calls.langs.at \in {"got", "failed"}
  /\ page' = [page EXCEPT !.form = IF calls.langs.at = "got" THEN [@ EXCEPT !.stored = calls.langs.names, !.names = calls.langs.names]
                                   ELSE [@ EXCEPT !.unread = TRUE]]
  /\ calls' = [calls EXCEPT !.langs = [at |-> "idle"]]
  /\ UNCHANGED <<server, seen>>

Type(text) ==
  /\ page.form # NoForm /\ text # page.form.draft /\ Input
  /\ page' = [page EXCEPT !.form.draft = text, !.form.typed = @ \cup {"v"}] /\ UNCHANGED <<server, calls>>
TypePlain(word) ==
  /\ page.form # NoForm /\ ~page.form.known /\ word # page.form.name /\ Input
  /\ page' = [page EXCEPT !.form.name = word, !.form.typed = @ \cup {page.form.lang}] /\ UNCHANGED <<server, calls>>
TypeName(l, word) ==
  /\ page.form # NoForm /\ page.form.known /\ page.form.stored # Unread /\ word # page.form.names[l] /\ Input
  /\ page' = [page EXCEPT !.form.names[l] = word, !.form.typed = @ \cup {l}] /\ UNCHANGED <<server, calls>>

\* Mutant before it: the map a write sends holds only the languages typed.
MapOf_Typed(f) == [l \in Langs |-> IF l \in f.typed THEN f.names[l] ELSE ""]
\* The map a write sends: every language kept, the ones emptied dropped.
MapOf(f) == [l \in Langs |-> f.names[l]]
Named(f) == MapOf(f) # Names(Blank)

\* Whether a write sends the name: its languages if any is filled, or its plain text.
NameFilled(f) == IF f.known THEN Named(f) ELSE f.name # ""
NameChanged(f) == IF f.known THEN Named(f) /\ MapOf(f) # f.stored ELSE f.name # f.named

\* Mutant before it: every value is judged, a stored one too.
Judged_All(f) == TRUE
\* A value the edit leaves as it was is not sent, so it is not judged either.
Judged(f) == ~(f.id # New /\ f.draft = f.first)
Errors(f) ==
  (IF f.known /\ "v" \in Required /\ f.draft = "" THEN {"v"} ELSE {})
  \cup (IF Judged(f) /\ ParseInput(f, f.draft) = "error" THEN {"v"} ELSE {})
  \cup (IF f.known /\ "name" \in Required /\ ~Named(f) THEN {"name"} ELSE {})
\* Mutant before it: an edit sends the whole draft.
Changed_All(f) == {"v"} \cup (IF NameFilled(f) THEN {"name"} ELSE {})
\* What an edit sends: the fields that changed; emptying every language sends nothing.
Changed(f) == (IF f.draft # f.first THEN {"v"} ELSE {}) \cup (IF NameChanged(f) THEN {"name"} ELSE {})
\* What a new alert is made of.
Filled(f) == (IF f.draft # "" THEN {"v"} ELSE {}) \cup (IF NameFilled(f) THEN {"name"} ELSE {})
Sends(f) == IF f.id = New THEN Filled(f) ELSE Changed(f)
\* The values of what is sent. A name written as plain text is that text, in the language it was read in, and no other.
Attrs(f) ==
  [v |-> IF ParseInput(f, f.draft) = "null" THEN "" ELSE f.draft,
   fi |-> IF f.known THEN MapOf(f).fi ELSE IF f.lang = "fi" THEN f.name ELSE "",
   en |-> IF f.known THEN MapOf(f).en ELSE IF f.lang = "en" THEN f.name ELSE ""]

MaySubmit == page.form # NoForm /\ ~page.form.saving /\ page.form.stored # Unread
Done(id, c) == Shows(Opened(page, id), Reload(c))
SubmitRefused ==
  /\ MaySubmit /\ Errors(page.form) \notin {{}, page.form.errors}
  /\ page' = [page EXCEPT !.form.errors = Errors(page.form)] /\ UNCHANGED <<server, calls, seen>>
\* A save that changes nothing is done at once.
SubmitNothing ==
  /\ MaySubmit /\ Errors(page.form) = {} /\ page.form.id # New /\ Sends(page.form) = {}
  /\ Done(page.form.id, calls) /\ UNCHANGED <<server, seen>>
Write(kind, id, f) ==
  [kind |-> kind, id |-> id, set |-> IF f = NoForm THEN {} ELSE Sends(f), to |-> IF f = NoForm THEN Blank ELSE Attrs(f),
   typed |-> IF f = NoForm THEN {} ELSE f.typed, read |-> IF f = NoForm THEN Unread ELSE f.stored,
   plain |-> f # NoForm /\ ~f.known, live |-> TRUE, done |-> "out"]
Submit ==
  /\ MaySubmit /\ Errors(page.form) = {} /\ (page.form.id = New \/ Sends(page.form) # {}) /\ Input
  /\ page' = [page EXCEPT !.form.saving = TRUE, !.form.errors = {}, !.form.problem = FALSE]
  /\ calls' = [calls EXCEPT !.writes = @ \cup {Write(IF page.form.id = New THEN "create" ELSE "update", page.form.id, page.form)}]
  /\ UNCHANGED server
\* A steward deletes an alert a steward added.
IsOwn(id) == id \in Own
Delete ==
  /\ page.mode = "view" /\ page.selected \in DOMAIN page.rows /\ IsOwn(page.selected) /\ ~page.deleting /\ Input
  /\ page' = [page EXCEPT !.deleting = TRUE]
  /\ calls' = [calls EXCEPT !.writes = @ \cup {Write("remove", page.selected, NoForm)}]
  /\ UNCHANGED server

\* The endpoint does it, or refuses.
Written(w) ==
  LET old == IF w.id \in DOMAIN server THEN server[w.id] ELSE Blank IN
  [v |-> IF "v" \in w.set THEN w.to.v ELSE old.v, fi |-> IF "name" \in w.set THEN w.to.fi ELSE old.fi, en |-> IF "name" \in w.set THEN w.to.en ELSE old.en]
Serves(w, ok) ==
  /\ w.done = "out" /\ (ok => (w.id \in DOMAIN server) = (w.kind # "create"))
  /\ server' = IF ~ok THEN server
               ELSE IF w.kind = "remove" THEN [id \in DOMAIN server \ {w.id} |-> server[id]]
               ELSE [id \in DOMAIN server \cup {w.id} |-> IF id = w.id THEN Written(w) ELSE server[id]]
  /\ calls' = [calls EXCEPT !.writes = (@ \ {w}) \cup {[w EXCEPT !.done = IF ok THEN "yes" ELSE "no"]}]
  /\ LET taken == IF ok /\ w.kind = "update" THEN {f \in {"v", "fi", "en"} \ w.typed : Written(w)[f] # server[w.id][f]} ELSE {} IN
     seen' = [seen EXCEPT !.wiped = @ \cup {f \in taken : f \in Langs => ~w.plain /\ w.read[f] = server[w.id][f]},
                          !.plain = @ \cup {f \in taken : f \in Langs /\ w.plain}]
  /\ UNCHANGED page

\* Mutant before it: a done deletion leaves the rows as they were read.
Removed_Unread(c) == Shows([page EXCEPT !.selected = None, !.panel = None, !.deleting = FALSE], c)
Removed(c) == Shows([page EXCEPT !.selected = None, !.panel = None, !.deleting = FALSE], Reload(c))
Answered(w) ==
  LET c == [calls EXCEPT !.writes = @ \ {w}] IN
  /\ w.done # "out"
  /\ CASE w.done = "yes" /\ w.kind = "remove" -> Removed(c)
       [] w.done = "yes" /\ w.kind # "remove" -> Done(w.id, c)
       [] w.done = "no" /\ w.kind = "remove" -> page' = [page EXCEPT !.deleting = FALSE] /\ calls' = c
       [] OTHER -> page' = (IF w.live THEN [page EXCEPT !.form.saving = FALSE, !.form.problem = TRUE] ELSE page) /\ calls' = c
  /\ UNCHANGED <<server, seen>>

\* The reader saves the plain field in the shell's panel: the rows are read again.
PanelSaves(text) ==
  /\ page.panel \in DOMAIN server /\ text # server[page.panel].v /\ Input
  /\ server' = [server EXCEPT ![page.panel].v = text] /\ calls' = Reload(calls) /\ UNCHANGED page
\* Somebody else changes an alert, or a name in a language.
Elsewhere(id, f, text) ==
  /\ id \in DOMAIN server /\ text # server[id][f] /\ seen.inputs < MaxInputs
  /\ server' = [server EXCEPT ![id][f] = text]
  /\ seen' = [seen EXCEPT !.inputs = @ + 1, !.elsewhere = TRUE]
  /\ UNCHANGED <<page, calls>>

Next ==
  \/ RowsServed \/ RowsArrive \/ SchemaArrives \/ LanguagesServed \/ LanguagesArrive
  \/ \E id \in Ids \cup {New} : Open(id) \/ \E l \in Langs, word \in Words : Elsewhere(id, l, word)
  \/ \E id \in Ids \cup {New}, text \in Texts : Elsewhere(id, "v", text)
  \/ \E mode \in {"edit", "new"} : StartForm(mode)
  \/ Cancel \/ SubmitRefused \/ SubmitNothing \/ Submit \/ Delete
  \/ \E text \in Texts : Type(text) \/ PanelSaves(text)
  \/ \E word \in Words : TypePlain(word) \/ \E l \in Langs : TypeName(l, word)
  \/ \E w \in calls.writes : Answered(w) \/ \E ok \in BOOLEAN : Serves(w, ok)

Spec == Init /\ [][Next]_vars

TypeOK ==
  /\ page.mode \in {"view", "edit", "new"} /\ DOMAIN page.rows \subseteq Ids \cup {New} /\ DOMAIN server \subseteq Ids \cup {New}
  /\ page.form.id \in Ids \cup {New, None} /\ (page.form # NoForm => page.form.errors \subseteq {"v", "name"})
  /\ seen.inputs \in 0..MaxInputs

\* EntityForm.tsx:146 -- "a write replaces the attribute whole, so an edit reads every language first and
\* writes them all back": an edit saved once the schema is there changes nothing the steward did not type.
\* Only a language somebody else wrote after that read is lost.
NothingWiped == seen.wiped = {}
\* The same of every edit, one saved before the schema came or after its read failed among them: the code
\* takes the name for plain text then, and the text written replaces every language.
LanguagesKept == seen.wiped = {} /\ seen.plain = {}
\* EntityForm.tsx:227 -- a stored value the enum no longer lists does not stop a save of the other fields.
OldValueStops == page.form # NoForm /\ "v" \in page.form.errors => "v" \in page.form.typed \/ page.form.first = ""
\* With nothing under way the rows are the endpoint's, as long as only this reader writes.
RowsFollow == calls.read.at = "idle" /\ calls.writes = {} /\ ~seen.elsewhere => page.rows = server
\* A form that waits for its names or its save has a call behind it.
NothingHangs ==
  page.form # NoForm =>
    /\ page.form.stored = Unread /\ ~page.form.unread => calls.langs.at # "idle"
    /\ page.form.saving => \E w \in calls.writes : w.live /\ w.kind # "remove"
=============================================================================
