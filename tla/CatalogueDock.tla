----------------------------- MODULE CatalogueDock -----------------------------
(***************************************************************************)
(* The assistant docked beside the catalogue's pages: jc-dock.js before    *)
(* the first paint, jc-assistant.js on the page, and in the frame the      *)
(* sizes, and the dataset an answer opens, of widget.js. The catalogue's   *)
(* page and the frame go together on every page change; what survives is   *)
(* the tab's storage of each.                                              *)
(***************************************************************************)
EXTENDS Naturals, Sequences

CONSTANTS
  Pages,       \* the catalogue's pages, Home among them
  Home,
  Assistants,  \* the widgets a page may frame; a page frames Framed[page]
  Framed,
  Docking,     \* the screen is wide enough to dock
  MaxPages     \* page changes: TLC's bound

ConstantsOK ==
  /\ Home \in Pages /\ Framed \in [Pages -> Assistants] /\ "" \notin Assistants
  /\ Docking \in BOOLEAN /\ MaxPages \in Nat
  /\ Pages \cap {"panel", "dock", "full", "close", ""} = {}    \* messages are told apart by their type

Sizes == {"panel", "dock", "full"}

VARIABLES
  at,       \* [page, ready, ran]: the page open, parsed, and whether jc-assistant.js ran on it
  box,      \* the panel on it: [open, mode, frame, room, leaving]
  held,     \* the catalogue's sessionStorage: [open, mode, widget]
  chat,     \* the frame: [up, mode, opening, late]
  placed,   \* the frame's sessionStorage, per assistant: its size; "" is none
  up, down, \* messages to the page, and to the frame
  noted,    \* the pages noted as opened by an answer
  opened,   \* observer: the pages the catalogue opened for an answer
  began,    \* observer: the assistant the panel was last opened with
  changes

vars == <<at, box, held, chat, placed, up, down, noted, opened, began, changes>>

NoChat == [up |-> FALSE, mode |-> "panel", opening |-> "", late |-> FALSE]
Mode0 == IF Docking THEN "dock" ELSE "panel"

\* The size the frame's storage remembers; a docking frame is docked unless the visitor undid it.
SizeOf(p) == IF p = "full" THEN "full" ELSE IF Docking /\ p # "panel" THEN "dock" ELSE "panel"

\* Mutant before it: the page is not told the size a load takes.
Says_Never(s) == <<>>
\* What a load says to the page: its size, when it is not the plain panel's.
Says(s) == IF s = "full" \/ Docking THEN <<s>> ELSE <<>>

Room(open, mode) == open /\ mode = "dock"

Init ==
  /\ at = [page |-> Home, ready |-> TRUE, ran |-> TRUE]
  /\ box = [open |-> FALSE, mode |-> Mode0, frame |-> Framed[Home], room |-> FALSE, leaving |-> FALSE]
  /\ held = [open |-> FALSE, mode |-> Mode0, widget |-> ""]
  /\ chat = NoChat /\ placed = [a \in Assistants |-> ""] /\ up = <<>> /\ down = <<>>
  /\ noted = {} /\ opened = {} /\ began = "" /\ changes = 0

-----------------------------------------------------------------------------
(* The page.                                                               *)

\* toggle: the summary, Escape or the chat's ✕ opened or closed the panel.
Toggled(open) ==
  /\ box' = [box EXCEPT !.open = open, !.room = Room(open, box.mode)]
  /\ held' = [open |-> open, mode |-> box.mode, widget |-> IF open THEN box.frame ELSE ""]
  /\ began' = IF open THEN box.frame ELSE began

\* Opened for the first time on this page, the frame loads.
Toggle ==
  /\ at.ready /\ at.ran
  /\ Toggled(~box.open)
  /\ LET first == ~box.open /\ ~chat.up
     IN /\ chat' = IF first THEN [NoChat EXCEPT !.up = TRUE, !.mode = SizeOf(placed[box.frame])] ELSE chat
        /\ up' = IF first THEN up \o Says(SizeOf(placed[box.frame])) ELSE up
  /\ UNCHANGED <<at, placed, down, noted, opened, changes>>

\* opens: a dataset page that is not the one open, while the visitor neither types nor selects.
Opens(page) == {page} \cap (Pages \ {at.page, Home})

HearSize ==
  /\ up # <<>> /\ Head(up) \in Sizes
  /\ box' = [box EXCEPT !.mode = Head(up), !.room = Room(box.open, Head(up))]
  /\ held' = [held EXCEPT !.mode = Head(up)]
  /\ up' = Tail(up)
  /\ UNCHANGED <<at, chat, placed, down, noted, opened, began, changes>>

HearClose ==
  /\ up # <<>> /\ Head(up) = "close"
  /\ up' = Tail(up)
  /\ IF box.open THEN Toggled(FALSE) ELSE UNCHANGED <<box, held, began>>
  /\ UNCHANGED <<at, chat, placed, down, noted, opened, changes>>

\* The visitor may be typing on the page (busy): then, and for its own page, nothing happens.
HearDataset(busy) ==
  /\ up # <<>> /\ Head(up) \in Pages
  /\ up' = Tail(up)
  /\ IF box.open /\ ~busy /\ Opens(Head(up)) # {}
     THEN /\ down' = Append(down, Head(up))
          /\ box' = [box EXCEPT !.leaving = TRUE]
          /\ opened' = opened \cup {Head(up)}
     ELSE UNCHANGED <<down, box, opened>>
  /\ UNCHANGED <<at, held, chat, placed, noted, began, changes>>

-----------------------------------------------------------------------------
(* The frame.                                                              *)

\* place: the size kept in this tab, the page told.
Place(mode) ==
  /\ chat.up /\ box.open /\ chat.mode # mode /\ Len(up) < 2
  /\ mode = "dock" => Docking
  /\ chat' = [chat EXCEPT !.mode = mode]
  /\ placed' = [placed EXCEPT ![box.frame] = mode]
  /\ up' = Append(up, mode)
  /\ UNCHANGED <<at, box, held, down, noted, opened, began, changes>>

Close ==
  /\ chat.up /\ box.open /\ Len(up) < 2
  /\ up' = Append(up, "close")
  /\ UNCHANGED <<at, box, held, chat, placed, down, noted, opened, began, changes>>

Asked == down # <<>> \/ \E i \in DOMAIN up : up[i] \in Pages

\* follow: a done answer about one dataset, on a docking page, with an empty input. The next answer
\* takes longer than the message about this one and the message back.
Follow(page) ==
  /\ chat.up /\ Docking /\ box.open /\ ~Asked /\ Len(up) < 2
  /\ page \in Pages \ {Home}
  /\ chat' = [chat EXCEPT !.opening = page, !.late = FALSE]
  /\ up' = Append(up, page)
  /\ UNCHANGED <<at, box, held, placed, down, noted, opened, began, changes>>

\* Two seconds pass; a message takes no such time.
Late ==
  /\ chat.opening # "" /\ ~chat.late
  /\ up = <<>> /\ down = <<>>
  /\ chat' = [chat EXCEPT !.late = TRUE]
  /\ UNCHANGED <<at, box, held, placed, up, down, noted, opened, began, changes>>

\* jc-assistant-opened: noted with the answer it belongs to.
HearOpened ==
  /\ down # <<>>
  /\ down' = Tail(down)
  /\ IF chat.opening = Head(down)
     THEN chat' = [chat EXCEPT !.opening = ""] /\ noted' = noted \cup {Head(down)}
     ELSE UNCHANGED <<chat, noted>>
  /\ UNCHANGED <<at, box, held, placed, up, opened, began, changes>>

\* pagehide in the frame: a page that goes within two seconds of the request is the answer's.
HidesNoted_Never == noted
HidesNoted == IF chat.opening # "" /\ ~chat.late THEN noted \cup {chat.opening} ELSE noted

-----------------------------------------------------------------------------
(* A page change, and the load after it.                                   *)

\* The visitor's own link, also while a page assigned for an answer is on its way, or that page.
Leave(page) ==
  /\ at.ready /\ changes < MaxPages
  /\ page # at.page
  /\ changes' = changes + 1
  /\ noted' = HidesNoted
  /\ held' = IF at.ran THEN [open |-> box.open, mode |-> box.mode, widget |-> held.widget] ELSE held
  /\ chat' = NoChat /\ up' = <<>> /\ down' = <<>>
  /\ at' = [page |-> page, ready |-> FALSE, ran |-> FALSE]
  /\ box' = [open |-> FALSE, mode |-> Mode0, frame |-> Framed[page],
             room |-> Room(held'.open, held'.mode), leaving |-> FALSE]    \* jc-dock.js
  /\ UNCHANGED <<placed, opened, began>>

\* Mutant before it: every page frames its own assistant.
Frame_Own == box.frame
\* The assistant the tab's storage kept, for a panel that is open.
Frame == IF held.open /\ held.widget # "" THEN held.widget ELSE box.frame

\* jc-assistant.js runs as soon as the frame is parsed: open again, on the assistant it had.
Runs ==
  /\ ~at.ready
  /\ at' = [at EXCEPT !.ready = TRUE, !.ran = TRUE]
  /\ LET frame == Frame
     IN /\ box' = [box EXCEPT !.open = held.open, !.mode = held.mode, !.frame = frame, !.room = Room(held.open, held.mode)]
        /\ held' = IF held.open THEN [held EXCEPT !.widget = frame] ELSE held
        /\ chat' = IF held.open THEN [NoChat EXCEPT !.up = TRUE, !.mode = SizeOf(placed[frame])] ELSE NoChat
        /\ up' = IF held.open THEN Says(SizeOf(placed[frame])) ELSE <<>>
  /\ UNCHANGED <<placed, down, noted, opened, began, changes>>

\* A rollout that fails the script: at DOMContentLoaded jc-dock.js gives the room back.
Failed_Shrunk ==
  /\ ~at.ready
  /\ at' = [at EXCEPT !.ready = TRUE]
  /\ UNCHANGED <<box, held, chat, placed, up, down, noted, opened, began, changes>>

Failed ==
  /\ ~at.ready
  /\ at' = [at EXCEPT !.ready = TRUE]
  /\ box' = [box EXCEPT !.room = FALSE]
  /\ UNCHANGED <<held, chat, placed, up, down, noted, opened, began, changes>>

Next ==
  \/ Toggle \/ HearSize \/ HearClose \/ \E busy \in BOOLEAN : HearDataset(busy)
  \/ \E mode \in Sizes : Place(mode)
  \/ Close \/ \E page \in Pages : Follow(page)
  \/ Late \/ HearOpened
  \/ (\E page \in Pages : Leave(page)) \/ Runs \/ Failed

Spec == Init /\ [][Next]_vars

-----------------------------------------------------------------------------
TypeOK ==
  /\ at \in [page : Pages, ready : BOOLEAN, ran : BOOLEAN]
  /\ box \in [open : BOOLEAN, mode : Sizes, frame : Assistants, room : BOOLEAN, leaving : BOOLEAN]
  /\ held \in [open : BOOLEAN, mode : Sizes, widget : Assistants \cup {""}]
  /\ chat \in [up : BOOLEAN, mode : Sizes, opening : Pages \cup {""}, late : BOOLEAN]
  /\ placed \in [Assistants -> Sizes \cup {""}] /\ noted \subseteq Pages /\ opened \subseteq Pages

\* A parsed page gives room to the panel exactly when the panel is there, open and docked: a page
\* whose script failed, or whose panel was closed or undocked late, is never left shrunk.
RoomOnlyForThePanel == at.ready => box.room = Room(box.open, box.mode)

\* On a screen that docks, the page and the chat in it agree on the size once every message is
\* heard, whatever was under way when the page before went. On a narrower one only a chat at full
\* size says its size when it loads.
SizesAgree == Docking /\ at.ready /\ chat.up /\ up = <<>> => box.mode = chat.mode

\* The panel stays with the assistant it was opened with for as long as it stays open.
StaysWithItsAssistant == at.ready /\ at.ran /\ box.open => box.frame = began

\* A dataset page the catalogue opened for an answer is noted with that answer once the page
\* before is gone, whether the note's message came in time or the page went first.
OpenedIsNoted == ~box.leaving => opened \subseteq noted
=============================================================================
