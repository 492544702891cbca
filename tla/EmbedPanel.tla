------------------------------ MODULE EmbedPanel ------------------------------
(***************************************************************************)
(* The launcher a city site includes (embed.js), the page it frames        *)
(* (app.js) and the panel's own state in it (widget.js): the panel opened, *)
(* sized and closed from both sides, and the language its empty chat       *)
(* speaks. The two sides share nothing but the messages in `posted`.       *)
(***************************************************************************)
EXTENDS Naturals, Sequences

CONSTANTS
  Languages,   \* the languages the deployment offers
  First,       \* the first of them
  Asks,        \* widget.language: ask
  MaxPages,    \* pages of the host site visited in this tab
  MaxPosted    \* messages under way: TLC's bound

ConstantsOK ==
  /\ First \in Languages /\ Asks \in BOOLEAN
  /\ MaxPages \in Nat /\ MaxPosted \in Nat \ {0}

VARIABLES
  panel,      \* the launcher: [frame, hidden, full, silenced, phone, turned]
  posted,     \* messages of the frame the launcher has not heard yet
  widget,       \* the frame: [up, expanded, choosing, shows, greets, lang, turns, busy, text]
  size,     \* sessionStorage of the frame: the size chosen in this tab
  picked,     \* localStorage of the frame: the language chosen in this browser; "" is none
  pages

vars == <<panel, posted, widget, size, picked, pages>>

NoPanel(phone) == [frame |-> FALSE, hidden |-> TRUE, full |-> FALSE, silenced |-> FALSE,
                   phone |-> phone, turned |-> FALSE]
NoChat == [up |-> "no", expanded |-> FALSE, choosing |-> FALSE, shows |-> "nothing",
           greets |-> First, lang |-> First, turns |-> 0, busy |-> FALSE, text |-> FALSE]

Init ==
  /\ panel \in {NoPanel(phone) : phone \in BOOLEAN} /\ posted = <<>> /\ widget = NoChat
  /\ size = "panel" /\ picked = "" /\ pages = 0

Post(message) == Len(posted) < MaxPosted /\ posted' = Append(posted, message)

\* Below 640 px, or expanded, the open panel takes the whole screen.
TakesTheScreen(p) == ~p.hidden /\ (p.phone \/ p.full)

\* silence(on): the page behind is inert where the panel takes the screen now.
Silenced(p) == [p EXCEPT !.silenced = TakesTheScreen(p), !.turned = FALSE]

\* The window crosses 640 px (a tablet turned): the panel's style follows at once, silence() does not
\* run. `turned` remembers that the width is not the one it saw.
Turn ==
  /\ panel' = [panel EXCEPT !.phone = ~@, !.turned = ~panel.hidden /\ ~@]
  /\ UNCHANGED <<posted, widget, size, picked, pages>>

Open ==
  /\ panel.hidden
  /\ panel' = Silenced([panel EXCEPT !.frame = TRUE, !.hidden = FALSE])
  /\ widget' = IF panel.frame THEN widget ELSE [widget EXCEPT !.up = "starting"]
  /\ UNCHANGED <<posted, size, picked, pages>>

Closed(p) == Silenced([p EXCEPT !.hidden = TRUE])

\* The launcher's button, or Escape on the host page.
Close ==
  /\ ~panel.hidden
  /\ panel' = Closed(panel)
  /\ UNCHANGED <<posted, widget, size, picked, pages>>

\* Mutant before it: a new size does not silence the page behind.
\* A message of our own frame: the panel closes, or changes its size.
Hear_Unsilenced ==
  /\ posted # <<>>
  /\ posted' = Tail(posted)
  /\ panel' = CASE Head(posted) = "close" -> Closed(panel)
                [] Head(posted) = "full" -> [panel EXCEPT !.full = TRUE]
                [] OTHER -> [panel EXCEPT !.full = FALSE]
  /\ UNCHANGED <<widget, size, picked, pages>>

Hear ==
  /\ posted # <<>>
  /\ posted' = Tail(posted)
  /\ panel' = IF Head(posted) = "close" THEN Closed(panel)
              ELSE Silenced([panel EXCEPT !.full = Head(posted) = "full"])
  /\ UNCHANGED <<widget, size, picked, pages>>

-----------------------------------------------------------------------------
(* The framed page.                                                        *)

\* Mutant: the choice kept in this browser is not read.
Loaded_Asks ==
  [NoChat EXCEPT !.up = "up", !.expanded = size = "full", !.choosing = Asks, !.shows = IF Asks THEN "chooser" ELSE "welcome"]

\* The chat a load shows: the language kept in this browser, else the first; the chooser only in
\* `ask` mode, where nothing was chosen and there is a choice.
Loaded ==
  LET lang == IF picked = "" THEN First ELSE picked
      ask == Asks /\ picked = "" /\ \E l \in Languages : l # First
  IN [NoChat EXCEPT !.up = "up", !.expanded = size = "full", !.lang = lang, !.greets = lang,
        !.choosing = ask, !.shows = IF ask THEN "chooser" ELSE "welcome"]

\* Mutant: the launcher is not told the size the chat remembers.
Start_Silent ==
  /\ widget.up = "starting"
  /\ widget' = Loaded
  /\ UNCHANGED <<posted, panel, size, picked, pages>>

\* The deployment's configuration came and names the framing page: widget.js runs.
Start ==
  /\ widget.up = "starting"
  /\ widget' = Loaded
  /\ IF Loaded.expanded THEN Post("full") ELSE UNCHANGED posted
  /\ UNCHANGED <<panel, size, picked, pages>>

\* No configuration, or a page that is none of the deployment's origins.
Missing ==
  /\ widget.up = "starting"
  /\ widget' = [widget EXCEPT !.up = "missing"]
  /\ UNCHANGED <<panel, posted, size, picked, pages>>

\* relabel: bound words change in place; an empty chat is greeted again.
Relabelled(c, lang) ==
  LET empty == c.turns = 0 /\ ~c.busy
  IN [c EXCEPT !.lang = lang, !.shows = IF empty THEN "welcome" ELSE @, !.greets = IF empty THEN lang ELSE @]

\* The toggle; hidden while the chooser stands.
Pick(lang) ==
  /\ widget.up = "up" /\ ~widget.choosing
  /\ picked' = lang
  /\ widget' = Relabelled(widget, lang)
  /\ UNCHANGED <<panel, posted, size, pages>>

Choose(lang) ==
  /\ widget.up = "up" /\ widget.shows = "chooser"
  /\ picked' = lang
  /\ widget' = Relabelled([widget EXCEPT !.choosing = FALSE], lang)
  /\ UNCHANGED <<panel, posted, size, pages>>

\* place: the size kept, every word again, the launcher told.
Resize(full) ==
  /\ size' = IF full THEN "full" ELSE "panel"
  /\ widget' = Relabelled([widget EXCEPT !.expanded = full], widget.lang)
  /\ Post(size')
  /\ UNCHANGED <<panel, picked, pages>>

Size == widget.up = "up" /\ ~panel.hidden /\ ~panel.phone /\ Resize(~widget.expanded)

\* Escape in the chat: expanded, it first brings the panel back to its size; then it closes.
Escape ==
  /\ widget.up = "up" /\ ~panel.hidden
  /\ IF widget.expanded THEN Resize(FALSE)
     ELSE Post("close") /\ UNCHANGED <<panel, widget, size, picked, pages>>

Ask ==
  /\ widget.up = "up" /\ ~widget.choosing /\ ~widget.busy
  /\ widget.turns = 0
  /\ widget' = [widget EXCEPT !.busy = TRUE, !.shows = "talk", !.text = FALSE]
  /\ UNCHANGED <<panel, posted, size, picked, pages>>

\* An answer's first words, and its end.
Answers ==
  /\ widget.busy
  /\ \/ ~widget.text /\ widget' = [widget EXCEPT !.text = TRUE]
     \/ widget.text /\ widget' = [widget EXCEPT !.busy = FALSE, !.turns = 1]
  /\ UNCHANGED <<panel, posted, size, picked, pages>>

\* New conversation: an answer that streamed is aborted, and its end counts one more shown.
Fresh ==
  /\ widget.up = "up" /\ ~widget.choosing /\ widget.shows = "talk"
  /\ widget' = [widget EXCEPT !.busy = FALSE, !.shows = "welcome", !.greets = widget.lang,
                          !.turns = IF widget.busy /\ widget.text THEN 1 ELSE 0]
  /\ UNCHANGED <<panel, posted, size, picked, pages>>

\* The host page goes: its launcher and the frame with it.
PageChange ==
  /\ pages < MaxPages
  /\ pages' = pages + 1
  /\ panel' = NoPanel(panel.phone) /\ posted' = <<>> /\ widget' = NoChat
  /\ UNCHANGED <<size, picked>>

Next ==
  \/ Turn \/ Open \/ Close \/ Hear \/ Start \/ Missing
  \/ \E l \in Languages : Pick(l) \/ Choose(l)
  \/ Size \/ Escape \/ Ask \/ Answers \/ Fresh
  \/ PageChange

Spec == Init /\ [][Next]_vars

-----------------------------------------------------------------------------
Panels == [frame : BOOLEAN, hidden : BOOLEAN, full : BOOLEAN, silenced : BOOLEAN,
           phone : BOOLEAN, turned : BOOLEAN]
Widgets ==
  [up : {"no", "starting", "up", "missing"}, expanded : BOOLEAN, choosing : BOOLEAN,
   shows : {"nothing", "chooser", "welcome", "talk"}, greets : Languages, lang : Languages,
   turns : {0, 1}, busy : BOOLEAN, text : BOOLEAN]

TypeOK ==
  /\ panel \in Panels /\ widget \in Widgets /\ posted \in Seq({"full", "panel", "close"})
  /\ size \in {"panel", "full"} /\ picked \in Languages \cup {""}

\* The page behind is inert exactly where the open panel takes the screen at the width silence()
\* last saw, whichever side changed the size last and however late its message is heard: focus never
\* lands under the chat, and a closed chat never leaves a dead page.
InertAsSeen(p) == p.silenced = (~p.hidden /\ ((p.phone # p.turned) \/ p.full))
InertOnlyBehindThePanel == InertAsSeen(panel)

\* Once every message is heard, the launcher and the chat agree on the size, also after a page
\* change, where the chat remembers and the launcher does not.
SizesAgree == widget.up = "up" /\ posted = <<>> => panel.full = widget.expanded

\* A language chosen once is never asked for again in this browser.
ChosenOnce == widget.up = "up" /\ picked # "" => ~widget.choosing
=============================================================================
