--------------------------------- MODULE Site ---------------------------------
(***************************************************************************)
(* The scripts a visitor's page carries, one behaviour of one of them at a *)
(* time: the chat launcher of a city site, the assistant docked beside the *)
(* catalogue, the catalogue's dataset map and the rest of its pages, the   *)
(* charts of a page, and the chart or map the assistant shows.             *)
(***************************************************************************)
EXTENDS Naturals, Sequences

CONSTANTS
  Languages, First, Asks, HostPages, MaxPosted,                      \* EmbedPanel
  CataloguePages, Home, Assistants, Framed, Docking, MaxChanges,     \* CatalogueDock
  Layers, Bare, Cap, TileCap, PageSize, Views, Within, Card, MaxMoves, \* CatalogueMap
  Buttons, TableFrames, Tries, TableLow, TableHigh, TableTall, ShownRows, Totals, MaxClicks, MaxSaid, \* CataloguePage
  Charts, Kind, READS, Pages, Counts, PAGE, FirstN, LimitRows,       \* VizHost
  Specs, Low, High, Tall                                             \* VizShow

VARIABLES
  which,
  panel, posted, widget, size, picked, pages,
  at, box, held, chat, placed, up, down, noted, opened, began, changes,
  all, latest, tilesets, stage, tiled, drawn, capped, state, note,
  seen, lastView, asked, loads, feature, marked, wholes,
  label, copying, clicks, preview, tables, said, height, source,
  chart, url, merged, counted, linked,
  host, inner, given, lost, heard, tall, high, told

Embed == INSTANCE EmbedPanel WITH MaxPages <- HostPages
Dock == INSTANCE CatalogueDock WITH Pages <- CataloguePages, MaxPages <- MaxChanges
Map == INSTANCE CatalogueMap
Page == INSTANCE CataloguePage WITH Frames <- TableFrames, Shown <- ShownRows, Low <- TableLow, High <- TableHigh, Tall <- TableTall
Host == INSTANCE VizHost
Shows == INSTANCE VizShow

ASSUME ConstantsAssumption ==
  /\ Embed!ConstantsOK /\ Dock!ConstantsOK /\ Map!ConstantsOK /\ Page!ConstantsOK
  /\ Host!ConstantsOK /\ Shows!ConstantsOK

embedVars == <<panel, posted, widget, size, picked, pages>>
dockVars == <<at, box, held, chat, placed, up, down, noted, opened, began, changes>>
mapVars == <<all, latest, tilesets, stage, tiled, drawn, capped, state, note,
             seen, lastView, asked, loads, feature, marked, wholes>>
pageVars == <<label, copying, clicks, preview, tables, said, height, source>>
hostVars == <<chart, url, merged, counted, linked>>
showVars == <<host, inner, given, lost, heard, tall, high, told>>
vars == <<which, embedVars, dockVars, mapVars, pageVars, hostVars, showVars>>

Init ==
  /\ which \in {"embed", "dock", "map", "page", "host", "show"}
  /\ Embed!Init /\ (which # "embed" => ~panel.phone)
  /\ Dock!Init
  /\ Map!Init /\ (which # "map" => ~tilesets.every)
  /\ Page!Init
  /\ Host!Init /\ (which # "host" => linked = [c \in Charts |-> TRUE])
  /\ Shows!Init

EmbedNext == which = "embed" /\ Embed!Next /\ UNCHANGED <<which, dockVars, mapVars, pageVars, hostVars, showVars>>
DockNext == which = "dock" /\ Dock!Next /\ UNCHANGED <<which, embedVars, mapVars, pageVars, hostVars, showVars>>
MapNext == which = "map" /\ Map!Next /\ UNCHANGED <<which, embedVars, dockVars, pageVars, hostVars, showVars>>
PageNext == which = "page" /\ Page!Next /\ UNCHANGED <<which, embedVars, dockVars, mapVars, hostVars, showVars>>
HostNext == which = "host" /\ Host!Next /\ UNCHANGED <<which, embedVars, dockVars, mapVars, pageVars, showVars>>
ShowNext == which = "show" /\ Shows!Next /\ UNCHANGED <<which, embedVars, dockVars, mapVars, pageVars, hostVars>>

Next == EmbedNext \/ DockNext \/ MapNext \/ PageNext \/ HostNext \/ ShowNext

\* The map's reads end, one way or the other; a page's answers come, and a slot given back is
\* given on to who waits for it.
OthersThanMap == <<which, embedVars, dockVars, pageVars, hostVars, showVars>>
OthersThanHost == <<which, embedVars, dockVars, mapVars, pageVars, showVars>>
Fairness ==
  /\ WF_vars(which = "map" /\ Map!Reads /\ UNCHANGED OthersThanMap)
  /\ \A c \in Charts :
       /\ SF_vars(which = "host" /\ Host!Granted(c) /\ UNCHANGED OthersThanHost)
       /\ WF_vars(which = "host" /\ Host!Steps(c) /\ UNCHANGED OthersThanHost)
Spec == Init /\ [][Next]_vars /\ Fairness

-----------------------------------------------------------------------------
\* Every variable of the six keeps its type.
TypeOK == Embed!TypeOK /\ Dock!TypeOK /\ Map!TypeOK /\ Page!TypeOK /\ Host!TypeOK /\ Shows!TypeOK

\* embed.js, jc-assistant.js, jc-dock.js, widget.js, host.js: a page and the frame it carries, which
\* only have messages between them, agree once every message is heard: focus never lands under the
\* chat and no page is left inert or shrunk beside no panel, both know the panel's size and the
\* drawing's height, an open panel keeps its assistant and its language from page to page, a page
\* opened for an answer is noted with it, and a spec handed over reaches the frame that draws it.
PanelsAgree ==
  /\ Embed!InertOnlyBehindThePanel /\ Embed!SizesAgree /\ Embed!ChosenOnce
  /\ Dock!RoomOnlyForThePanel /\ Dock!SizesAgree /\ Dock!StaysWithItsAssistant /\ Dock!OpenedIsNoted
  /\ Shows!NoSpecIsLost /\ Shows!WidgetKnows
  /\ Page!FramesFitTheirTables /\ Page!OwnWordsReturn /\ Page!OneSource

\* jc-map.js: whatever order the answers of the pages and the views come in, the map draws the
\* dataset or the view asked for last, whole or cut at its cap with the words that say so, and marks
\* only the feature in the panel.  The view looked at is that one, unless the reader has left a view
\* whose read stayed under the cap: no view is read after it (EveryViewIsHere).
MapDrawsTheNewest ==
  /\ Map!NeverOverCap /\ Map!ReadyIsNewest /\ Map!WholeOrCut /\ Map!OnlyTheOpenIsMarked
  /\ Map!CoveredUnlessLeft

\* jc-map.js, as its comment has it: under the cap everything is already here, so every view is drawn
\* whole or said to be cut.
EveryViewIsHere == Map!ViewIsCovered

\* host.js: the charts of a page never run more reads than its slots, and a chart draws every
\* instant once or says that it is partial.
ChartsWholeOrSaid == Host!ChartsWholeOrSaid

\* jc-map.js, host.js: the loading words come to an end, and every chart is drawn or says why not.
LoadingEnds == <>[]((which = "map" => Map!NoteSettled) /\ (which = "host" => Host!AllSettled))

-----------------------------------------------------------------------------
(***************************************************************************)
(* Why they hold.  A page and its frame agree once every message is heard, *)
(* because the newest message of a kind under way says what its sender     *)
(* holds, and where none is under way the hearer holds it already.         *)
(***************************************************************************)
NoneOf(queue, kind) == \A i \in DOMAIN queue : queue[i] \notin kind

Newest(queue, kind, message) ==
  \E i \in DOMAIN queue :
    queue[i] = message /\ message \in kind /\ \A j \in DOMAIN queue : j > i => queue[j] \notin kind

\* The launcher hears nothing before its frame is up, and starts at the panel's size.
EmbedSizes == {"full", "panel"}
EmbedAgrees ==
  \/ Newest(posted, EmbedSizes, IF widget.expanded THEN "full" ELSE "panel")
  \/ NoneOf(posted, EmbedSizes) /\ panel.full = widget.expanded

EmbedInv ==
  /\ panel \in Embed!Panels /\ widget \in Embed!Widgets /\ posted \in Seq({"full", "panel", "close"})
  /\ size \in {"panel", "full"} /\ picked \in Languages \cup {""}
  /\ Embed!InertAsSeen(panel)
  /\ widget.up = "up" /\ picked # "" => ~widget.choosing
  /\ ~panel.frame => widget.up = "no"
  /\ widget.up \in {"no", "starting"} => posted = <<>> /\ ~panel.full
  /\ widget.up = "up" => EmbedAgrees

\* A page whose script did not run has a closed panel and no chat; what the storage holds open is
\* the assistant the panel was opened with.
DockHeld ==
  /\ at.ran => at.ready
  /\ ~at.ran => ~box.open /\ ~box.leaving /\ ~chat.up /\ up = <<>>
  /\ ~chat.up => chat = Dock!NoChat
  /\ held.open => held.widget = began /\ began # ""
  /\ at.ran => held.open = box.open /\ (box.open => box.frame = began)

DockAgrees ==
  Docking /\ chat.up =>
    Newest(up, Dock!Sizes, chat.mode) \/ (NoneOf(up, Dock!Sizes) /\ box.mode = chat.mode)

\* A dataset asked for is on its way to the page, on its way back, or noted.
DockAsked ==
  /\ \A i \in DOMAIN up : up[i] \in CataloguePages =>
       /\ up[i] = chat.opening /\ ~chat.late /\ down = <<>>
       /\ \A j \in DOMAIN up : up[j] \in CataloguePages => i = j
  /\ down # <<>> => down = <<chat.opening>> /\ ~chat.late /\ NoneOf(up, CataloguePages)
  /\ ~box.leaving => down = <<>>
  /\ \A p \in opened : p \in noted \/ down = <<p>>

DockInv ==
  /\ Dock!TypeOK /\ up \in Seq(Dock!Sizes \cup CataloguePages \cup {"close"}) /\ down \in Seq(CataloguePages)
  /\ Dock!RoomOnlyForThePanel
  /\ DockHeld /\ DockAgrees /\ DockAsked

\* A button keeps its own words from its first click on; a frame's newest height is under way, or
\* the page has it; what is filled in is what is chosen.
PageButtons ==
  /\ label \in [Buttons -> [text : {"own", "copied", "select"}, kept : {"", "own"}, back : {"", "own"}]]
  /\ \A b \in Buttons : (label[b].kept = "" => label[b].text = "own") /\ (label[b].back = "" => label[b].text = "own")
  /\ copying \in [Buttons -> Nat] /\ clicks \in 0..MaxClicks /\ \A b \in Buttons : copying[b] <= clicks

PagePreview ==
  /\ preview.status \in {"loading", "empty", "failed", "shown", "hidden"} /\ preview.rows \in 0..ShownRows
  /\ preview = [status |-> preview.status, rows |-> preview.rows, count |-> preview.count]

Heights(f) == {[frame |-> f, height |-> h] : h \in TableTall}
PageTables ==
  /\ tables \in [TableFrames -> [tries : 0..Tries, built : BOOLEAN, tall : TableTall \cup {0}]]
  /\ said \in Seq([frame : TableFrames, height : TableTall]) /\ Len(said) <= MaxSaid
  /\ height \in [TableFrames -> {0} \cup TableLow..TableHigh]
  /\ \A f \in TableFrames : tables[f].built =>
       \/ Newest(said, Heights(f), [frame |-> f, height |-> tables[f].tall])
       \/ NoneOf(said, Heights(f)) /\ (tables[f].tall > 0 => height[f] = Page!Clamped(tables[f].tall))

PageSource ==
  /\ source \in [radio : {"", "url", "file"}, url : {"", "given"}, file : {"", "given"}]
  /\ source.url # "" => source.radio = "url"
  /\ source.file # "" => source.radio = "file"

PageInv == PageButtons /\ PagePreview /\ PageTables /\ PageSource

\* The renderer goes only for the map page; a frame that said it is ready is there, or gone with
\* the renderer; only the frame that draws was given a spec.
FrameMessages ==
  [from : Shows!Frames, says : {"ready", "error"}, tall : {0}] \cup [from : Shows!Frames, says : {"height"}, tall : Tall]

ShowTypes ==
  /\ host \in [parent : BOOLEAN, map : BOOLEAN, ready : BOOLEAN, pending : Specs \cup {""}]
  /\ inner \in [Shows!Frames -> {"none", "loading", "up", "gone"}]
  /\ given \in [Shows!Frames -> Specs \cup {"", "drawn", "failed"}] /\ lost = FALSE
  /\ heard \in Seq(FrameMessages) /\ tall \in Tall \cup {0} /\ high \in {0} \cup Low..High
  /\ told \in [words : {"", "failed"}, height : Nat]

WhoDraws ==
  /\ inner["renderer"] = "gone" => host.map
  /\ inner["mapPage"] # "gone" /\ (~host.map => inner["mapPage"] = "none")
  /\ ~host.parent => ~host.map /\ host.pending = ""
  /\ host.ready => inner[Shows!Drawer(host)] = "up"
  /\ \A i \in DOMAIN heard : heard[i].says = "ready" => inner[heard[i].from] \in {"up", "gone"}
  /\ \A f \in Shows!Frames : given[f] # "" => host.parent /\ f = Shows!Drawer(host)

\* The newest height of what is drawn, or its error, is under way or told.
Said(f) == {[from |-> f, says |-> "height", tall |-> h] : h \in Tall}
DrawingTold(f) ==
  /\ given[f] = "drawn" =>
       \/ Newest(heard, Said(f), [from |-> f, says |-> "height", tall |-> tall])
       \/ NoneOf(heard, Said(f)) /\ told.height = Shows!Clamped(tall) /\ high = told.height
  /\ given[f] = "failed" =>
       told.words = "failed" \/ \E i \in DOMAIN heard : heard[i].from = f /\ heard[i].says = "error"

ShowsInv == ShowTypes /\ WhoDraws /\ \A f \in Shows!Frames : DrawingTold(f)

-----------------------------------------------------------------------------
(***************************************************************************)
(* For TLC: three pages with two assistants, two layers of a map with a    *)
(* cap of two, and two charts, one of them temporal.                       *)
(***************************************************************************)
FramedAssistants == [p \in CataloguePages |-> IF p = "d1" THEN "space" ELSE "city"]

MapLayers == << <<"a1", "a2", "a3">>, <<"b1">> >>
MapWithin == [west |-> {"a1", "a2"}, east |-> {"a3"}, all |-> {"a1", "a2", "a3", "b1"}]

HostKind == [c1 |-> "temporal", c2 |-> "ogc"]
HostCounts == <<4, 1, 1>>
=============================================================================
