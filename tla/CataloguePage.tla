---------------------------- MODULE CataloguePage ----------------------------
(***************************************************************************)
(* What else runs on a page of the catalogue: its copy buttons             *)
(* (jc-copy.js), the live preview of an API (jc-preview.js), the framed    *)
(* table views that say how tall they are (jc-frame.js), and the resource  *)
(* form's Upload, Link and Remove (jc-forms.js).                           *)
(***************************************************************************)
EXTENDS Integers, Sequences, FiniteSets

CONSTANTS
  Buttons,     \* copy buttons with a label of their own
  Frames,      \* the framed table views
  Tries,       \* looks for DataTables' wrapper before a view is taken for dead
  Low, High,   \* the bounds of a frame's height
  Tall,        \* the heights a table may have
  Shown,       \* rows the preview shows
  Totals,      \* entities the API may hold
  MaxClicks, MaxSaid   \* TLC's bounds: clicks on a copy button, height messages under way

ConstantsOK ==
  /\ Low \in Nat /\ High \in Nat /\ Low <= High /\ Tall \subseteq Nat /\ Tries \in Nat
  /\ Shown \in Nat \ {0} /\ Totals \subseteq Nat /\ MaxClicks \in Nat /\ MaxSaid \in Nat

VARIABLES
  label,    \* per button: [text, kept, back]: its words, data-label, what the timer puts back
  copying,  \* clipboard writes under way, per button
  clicks,
  preview,  \* [status, rows, count]: the words, rows drawn, the page's count ("" is hidden)
  tables,     \* per frame, inside: [tries, built, tall]
  said,     \* heights posted and not heard yet: [frame, height]
  height,   \* per frame, outside; 0 is the stylesheet's
  source    \* the resource form: [radio, url, file]

vars == <<label, copying, clicks, preview, tables, said, height, source>>
copies == <<label, copying, clicks>>
frames == <<tables, said, height>>

None == ""

Init ==
  /\ label = [b \in Buttons |-> [text |-> "own", kept |-> None, back |-> None]]
  /\ copying = [b \in Buttons |-> 0] /\ clicks = 0
  /\ preview = [status |-> "loading", rows |-> 0, count |-> -1]
  /\ tables = [f \in Frames |-> [tries |-> 0, built |-> FALSE, tall |-> 0]]
  /\ said = <<>> /\ height = [f \in Frames |-> 0]
  /\ source = [radio |-> None, url |-> None, file |-> None]

-----------------------------------------------------------------------------
(* The copy buttons.                                                       *)

\* Mutant before it: what the button reads now is taken for its own words.
Says_Now(b, words) ==
  label' = [label EXCEPT ![b] = [text |-> words, kept |-> @.text, back |-> @.text]]

\* say: the words for a while; the button's own ones are remembered the first time.
Says(b, words) ==
  LET was == IF label[b].kept # None THEN label[b].kept ELSE label[b].text
  IN label' = [label EXCEPT ![b] = [text |-> words, kept |-> was, back |-> was]]

\* The browser's own copy command, else the text is left selected.
Fallback(b) == \E done \in BOOLEAN : Says(b, IF done THEN "copied" ELSE "select")

Click(b, api) ==
  /\ clicks < MaxClicks
  /\ clicks' = clicks + 1
  /\ IF api THEN copying' = [copying EXCEPT ![b] = @ + 1] /\ UNCHANGED label
     ELSE Fallback(b) /\ UNCHANGED copying
  /\ UNCHANGED <<preview, frames, source>>

\* The clipboard's promise: written, or refused by a frame or a policy.
Copied(b, written) ==
  /\ copying[b] > 0
  /\ copying' = [copying EXCEPT ![b] = @ - 1]
  /\ IF written THEN Says(b, "copied") ELSE Fallback(b)
  /\ UNCHANGED <<clicks, preview, frames, source>>

\* The last timer set; an earlier one was cleared.
Back(b) ==
  /\ label[b].back # None
  /\ label' = [label EXCEPT ![b].text = label[b].back, ![b].back = None]
  /\ UNCHANGED <<copying, clicks, preview, frames, source>>

-----------------------------------------------------------------------------
(* The preview.                                                            *)

\* Its answer: `total` entities, when the API counts them (-1: it does not), `rows` of them here.
Preview(rows, total) ==
  /\ preview.status = "loading"
  /\ total = -1 \/ rows <= total
  /\ preview' = IF rows = 0 THEN [preview EXCEPT !.status = "empty"]
                ELSE [rows |-> IF rows < Shown THEN rows ELSE Shown, count |-> total,
                      status |-> IF total = -1 THEN "hidden" ELSE "shown"]
  /\ UNCHANGED <<copies, frames, source>>

PreviewFails ==
  /\ preview.status = "loading"
  /\ preview' = [preview EXCEPT !.status = "failed"]
  /\ UNCHANGED <<copies, frames, source>>

-----------------------------------------------------------------------------
(* The framed tables.                                                      *)

Post(f, tall) == Len(said) < MaxSaid /\ said' = Append(said, [frame |-> f, height |-> tall])

\* watch: DataTables has not drawn yet; the view is given up after so many looks.
Looks(f) ==
  /\ ~tables[f].built /\ tables[f].tries < Tries
  /\ tables' = [tables EXCEPT ![f].tries = @ + 1]
  /\ UNCHANGED <<copies, preview, said, height, source>>

\* The wrapper is there in time: watched from now on, and said.
Built(f, tall) ==
  /\ ~tables[f].built /\ tables[f].tries < Tries
  /\ tables' = [tables EXCEPT ![f].built = TRUE, ![f].tall = tall]
  /\ Post(f, tall)
  /\ UNCHANGED <<copies, preview, height, source>>

Grows(f, tall) ==
  /\ tables[f].built /\ tall # tables[f].tall
  /\ tables' = [tables EXCEPT ![f].tall = tall]
  /\ Post(f, tall)
  /\ UNCHANGED <<copies, preview, height, source>>

\* Mutant before it: what a broken view says is taken as it is.
Clamped_Raw(tall) == tall
Clamped(tall) == IF tall < Low THEN Low ELSE IF tall > High THEN High ELSE tall

\* Mutant before it: the first frame of the page takes every height.
HearHeight_First ==
  /\ said # <<>>
  /\ said' = Tail(said)
  /\ height' = [height EXCEPT ![CHOOSE f \in Frames : TRUE] = Clamped(Head(said).height)]
  /\ UNCHANGED <<copies, preview, tables, source>>

\* The frame whose window said it.
HearHeight ==
  /\ said # <<>>
  /\ said' = Tail(said)
  /\ height' = IF Head(said).height <= 0 THEN height
               ELSE [height EXCEPT ![Head(said).frame] = Clamped(Head(said).height)]
  /\ UNCHANGED <<copies, preview, tables, source>>

-----------------------------------------------------------------------------
(* The resource form: one press ticks a radio, empties a field, and clicks *)
(* or focuses one. CKAN's stylesheet shows the part of the ticked radio.   *)

\* Upload or Link, offered while neither is chosen.
Takes(field) ==
  /\ source.radio = None
  /\ source' = [source EXCEPT !.radio = field]
  /\ UNCHANGED <<copies, preview, frames>>

Fill(field) ==
  /\ source.radio = field /\ source[field] = None
  /\ source' = [source EXCEPT ![field] = "given"]
  /\ UNCHANGED <<copies, preview, frames>>

\* Mutant before it: the field keeps what it holds.
Remove_Keeps(field) ==
  /\ source.radio = field
  /\ source' = [source EXCEPT !.radio = None]
  /\ UNCHANGED <<copies, preview, frames>>

\* Remove: the field is emptied, not only hidden.
Remove(field) ==
  /\ source.radio = field
  /\ source' = [source EXCEPT !.radio = None, ![field] = None]
  /\ UNCHANGED <<copies, preview, frames>>

Next ==
  \/ \E b \in Buttons : Back(b) \/ \E yes \in BOOLEAN : Click(b, yes) \/ Copied(b, yes)
  \/ \E rows \in Totals, total \in Totals \cup {-1} : Preview(rows, total)
  \/ PreviewFails
  \/ \E f \in Frames : Looks(f) \/ \E tall \in Tall : Built(f, tall) \/ Grows(f, tall)
  \/ HearHeight
  \/ \E field \in {"url", "file"} : Takes(field) \/ Fill(field) \/ Remove(field)

Spec == Init /\ [][Next]_vars

-----------------------------------------------------------------------------
TypeOK ==
  /\ \A b \in Buttons : copying[b] \in 0..MaxClicks /\ label[b].text \in {"own", "copied", "select"}
  /\ preview.status \in {"loading", "empty", "failed", "shown", "hidden"} /\ preview.rows \in 0..Shown
  /\ \A f \in Frames : tables[f].tries \in 0..Tries /\ height[f] \in {0} \cup Low..High
  /\ Len(said) <= MaxSaid /\ source.radio \in {None, "url", "file"}

\* A copy button that waits for nothing wears its own words again, however its clicks, the answers
\* of the clipboard and the timers interleaved.
OwnWordsReturn == \A b \in Buttons : label[b].back = None => label[b].text = "own"

\* Once every height is heard, each frame is as tall as its own table, within the bounds.
FramesFitTheirTables ==
  said = <<>> => \A f \in Frames : tables[f].built /\ tables[f].tall > 0 => height[f] = Clamped(tables[f].tall)

\* A resource is a link or a file, never both: what was chosen first and taken back is not sent
\* with the form, whatever is pressed in between.
OneSource == source.url = None \/ source.file = None
=============================================================================
