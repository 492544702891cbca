------------------------------ MODULE CatalogueMap ------------------------------
(***************************************************************************)
(* The dataset map of the catalogue (jc-map.js): the first read of every   *)
(* layer, page by page, beside the library and the tilesets; the reads of  *)
(* the views the reader moves to; and the panel of the feature opened.     *)
(***************************************************************************)
EXTENDS Naturals, Sequences, FiniteSets, Functions

CONSTANTS
  Layers,      \* per layer, its features in the Endpoint's order
  Bare,        \* those of them without a geometry
  Cap,         \* CAP: features drawn of one view
  TileCap,     \* TILE_CAP: features in a tile
  PageSize,    \* PAGE
  Views,       \* the boxes the reader may move to
  Within,      \* the features of a box
  Card,        \* the map stands on a dataset's page, not on the embed page
  MaxMoves     \* moves of the map: TLC's bound

NoFeature == "none"
NoView == "none"

Everything == UNION {Range(Layers[l]) : l \in DOMAIN Layers}

ConstantsOK ==
  /\ Cap \in Nat /\ PageSize \in 1..Cap /\ TileCap \in Nat /\ MaxMoves \in Nat
  /\ Layers \in Seq(Seq(Everything)) \ {<<>>} /\ NoView \notin Views
  /\ Bare \subseteq Everything /\ Within \in [Views -> SUBSET Everything] /\ Card \in BOOLEAN

VARIABLES
  all,      \* the first read: [phase, layer, from, first]
  latest,   \* what it has read: [features, matched]
  tilesets, \* [known, every]: the layers' tilesets, once they are known
  stage,    \* start: "library", "nothing", "map", "paging", "live", "stopped", "dead"
  tiled,    \* the layers are drawn as vector tiles
  drawn,    \* the features put on the map, in order
  capped,   \* the last read put reached Cap
  state,    \* box.dataset.state
  note,     \* the words under the map
  seen, lastView, asked, loads,   \* the reads of views under way: [n, view]
  feature,    \* the feature shown, or NoFeature
  marked,   \* the features drawn as selected
  wholes    \* features of tiles asked for whole, not here yet

vars == <<all, latest, tilesets, stage, tiled, drawn, capped, state, note,
          seen, lastView, asked, loads, feature, marked, wholes>>
firstRead == <<all, latest, tilesets>>
moves == <<seen, lastView, asked, loads>>
opened == <<feature, marked, wholes>>

Init ==
  /\ all = [phase |-> "paging", layer |-> 1, from |-> 1, first |-> TRUE]
  /\ latest = [features |-> <<>>, matched |-> 0]
  /\ tilesets \in {[known |-> FALSE, every |-> every] : every \in BOOLEAN}
  /\ stage = "library" /\ tiled = FALSE /\ drawn = <<>> /\ capped = FALSE
  /\ state = "loading" /\ note = "loading"
  /\ seen = NoView /\ lastView = NoView /\ asked = 0 /\ loads = {}
  /\ feature = NoFeature /\ marked = {} /\ wholes = {}

\* The loop over a page's features: those wanted are pushed while there is room.
Pushed(features, page, wanted) ==
  LET read[n \in 0..Len(page)] ==
        IF n = 0 THEN features
        ELSE IF page[n] \in wanted /\ Len(read[n - 1]) < Cap THEN Append(read[n - 1], page[n])
        ELSE read[n - 1]
  IN read[Len(page)]

\* put and done: what a read brought is drawn, and the words say when it is not everything.
Put(features) == drawn' = features /\ capped' = (Len(features) >= Cap)
Done(cut) == state' = "ready" /\ note' = IF cut THEN "cap" ELSE ""

-----------------------------------------------------------------------------
(* fetchAll without a box: every layer, page by page.                      *)

Arrived == ~all.first \/ all.layer > 1 \/ all.phase # "paging"

\* One page: its features that have a shape, up to Cap in all; past Cap the next page only when
\* the tilesets cannot draw the rest; then the next layer.
Page ==
  LET layer == Layers[all.layer]
      more == all.from + PageSize <= Len(layer)
      page == SubSeq(layer, all.from, IF more THEN all.from + PageSize - 1 ELSE Len(layer))
      features == Pushed(latest.features, page, Everything \ Bare)
      matched == latest.matched + IF all.first THEN Len(layer) ELSE 0
      enough == all.layer = 1 /\ all.first /\ matched > Cap
  IN /\ all.phase = "paging"
     /\ latest' = [features |-> features, matched |-> matched]
     /\ all' = IF enough /\ ~tilesets.known THEN [all EXCEPT !.phase = "enough"]
               ELSE IF (enough /\ tilesets.every) \/ Len(features) >= Cap \/ (~more /\ all.layer = Len(Layers))
               THEN [all EXCEPT !.phase = "done"]
               ELSE IF more THEN [all EXCEPT !.from = all.from + PageSize, !.first = FALSE]
               ELSE [all EXCEPT !.layer = all.layer + 1, !.from = 1, !.first = TRUE]
     /\ IF stage = "paging" THEN Put(features) ELSE UNCHANGED <<drawn, capped>>
     /\ UNCHANGED <<tilesets, stage, tiled, state, note, moves, opened>>

\* Mutant before it: past Cap nothing more is read, tiles or not.
Enough_Stops ==
  /\ all.phase = "enough" /\ tilesets.known
  /\ all' = [all EXCEPT !.phase = "done"]
  /\ UNCHANGED <<latest, tilesets, stage, tiled, drawn, capped, state, note, moves, opened>>

\* The tilesets are known after the first page asked for them.
Enough ==
  /\ all.phase = "enough" /\ tilesets.known
  /\ all' = IF tilesets.every \/ Len(latest.features) >= Cap THEN [all EXCEPT !.phase = "done"]
            ELSE [all EXCEPT !.phase = "paging", !.from = all.from + PageSize, !.first = FALSE]
  /\ UNCHANGED <<latest, tilesets, stage, tiled, drawn, capped, state, note, moves, opened>>

PageFails ==
  /\ all.phase = "paging"
  /\ all' = [all EXCEPT !.phase = "failed"]
  /\ UNCHANGED <<latest, tilesets, stage, tiled, drawn, capped, state, note, moves, opened>>

\* tileTemplate of every layer: an answer, or none, is a tileset or no tileset, never a failure.
Tilesets ==
  /\ ~tilesets.known
  /\ tilesets' = [tilesets EXCEPT !.known = TRUE]
  /\ UNCHANGED <<all, latest, stage, tiled, drawn, capped, state, note, moves, opened>>

-----------------------------------------------------------------------------
(* start.                                                                  *)

Dies == stage' = "dead" /\ note' = "failed"

LibraryFails ==
  /\ stage = "library"
  /\ Dies
  /\ UNCHANGED <<firstRead, tiled, drawn, capped, state, moves, opened>>

Library ==
  /\ stage = "library" /\ tilesets.known /\ Arrived
  /\ tiled' = (latest.matched > Cap /\ tilesets.every)
  /\ stage' = IF latest.features = <<>> THEN "nothing" ELSE "map"
  /\ UNCHANGED <<firstRead, drawn, capped, state, note, moves, opened>>

\* Mutant before it: a first read that fails is not waited for.
Nothing_Waits ==
  /\ stage = "nothing" /\ all.phase = "done"
  /\ IF latest.features # <<>> THEN stage' = "map" /\ UNCHANGED <<state, note>>
     ELSE stage' = "dead" /\ state' = "empty" /\ note' = IF Card THEN note ELSE "empty"
  /\ UNCHANGED <<firstRead, tiled, drawn, capped, moves, opened>>

\* Nothing with a shape yet: all of it is waited for, and nothing to draw is no failure.
Nothing ==
  /\ stage = "nothing" /\ all.phase \in {"done", "failed"}
  /\ IF all.phase = "failed" THEN Dies /\ UNCHANGED state
     ELSE IF latest.features # <<>> THEN stage' = "map" /\ UNCHANGED <<state, note>>
     ELSE stage' = "dead" /\ state' = "empty" /\ note' = IF Card THEN note ELSE "empty"
  /\ UNCHANGED <<firstRead, tiled, drawn, capped, moves, opened>>

CutTile(far) == latest.matched > TileCap /\ far

\* The map is up: tiles draw everything, or the pages so far are drawn and the rest awaited.
MapUp(far) ==
  /\ stage = "map"
  /\ IF tiled THEN /\ Put(<<>>) /\ Done(CutTile(far))
                   /\ stage' = "live"
              ELSE /\ Put(latest.features)
                   /\ stage' = "paging"
                   /\ UNCHANGED <<state, note>>
  /\ UNCHANGED <<firstRead, tiled, moves, opened>>

AllRead ==
  /\ stage = "paging" /\ all.phase = "done"
  /\ stage' = "live"
  /\ Put(latest.features) /\ Done(Len(latest.features) >= Cap)
  /\ UNCHANGED <<firstRead, tiled, moves, opened>>

AllFailed ==
  /\ stage = "paging" /\ all.phase = "failed"
  /\ stage' = "stopped" /\ state' = "failed" /\ note' = "failed"
  /\ UNCHANGED <<firstRead, tiled, drawn, capped, moves, opened>>

-----------------------------------------------------------------------------
(* The views.                                                              *)

\* fetchAll of a box: each layer's features in it, up to Cap in all.
InView(box) ==
  LET read[l \in 0..Len(Layers)] ==
        IF l = 0 THEN <<>> ELSE Pushed(read[l - 1], Layers[l], Within[box] \ Bare)
  IN read[Len(Layers)]

\* moveend, and load of the view it ends on; zoomend on tiles says whether one may be cut.
MoveEnd(box, far) ==
  /\ stage = "live" /\ asked < MaxMoves /\ box # seen
  /\ seen' = box
  /\ IF tiled THEN Done(CutTile(far)) /\ UNCHANGED <<lastView, asked, loads>>
     ELSE IF capped /\ box # lastView
     THEN /\ lastView' = box
          /\ asked' = asked + 1
          /\ loads' = loads \cup {[n |-> asked + 1, view |-> box]}
          /\ state' = "loading" /\ note' = "loading"
     ELSE UNCHANGED <<lastView, asked, loads, state, note>>
  /\ UNCHANGED <<firstRead, stage, tiled, drawn, capped, opened>>

\* Mutant before it: an answer is drawn whichever view was asked for last.
LoadAnswers_Any(load) ==
  /\ load \in loads
  /\ loads' = loads \ {load}
  /\ Put(InView(load.view)) /\ Done(Len(InView(load.view)) >= Cap)
  /\ UNCHANGED <<firstRead, stage, tiled, seen, lastView, asked, opened>>

LoadAnswers(load) ==
  /\ load \in loads
  /\ loads' = loads \ {load}
  /\ IF load.n = asked THEN Put(InView(load.view)) /\ Done(Len(InView(load.view)) >= Cap)
     ELSE UNCHANGED <<drawn, capped, state, note>>
  /\ UNCHANGED <<firstRead, stage, tiled, seen, lastView, asked, opened>>

\* Any read that fails says so, the newest or not.
LoadFails(load) ==
  /\ load \in loads
  /\ loads' = loads \ {load}
  /\ state' = "failed" /\ note' = "failed"
  /\ UNCHANGED <<firstRead, stage, tiled, drawn, capped, seen, lastView, asked, opened>>

-----------------------------------------------------------------------------
(* The panel.                                                              *)

\* Mutant before it: what was selected stays drawn so.
Select_AlsoOld(f) == feature' = f /\ marked' = marked \cup {f}
\* makePanel.open: what was selected is no longer, what is shown is.
Select(f) == feature' = f /\ marked' = (marked \ {feature}) \cup {f}

\* A drawn feature, by a click or by Enter in the middle of the view.
Click(f) ==
  /\ stage = "live" /\ ~tiled /\ f \in Range(drawn) /\ f # feature
  /\ Select(f)
  /\ UNCHANGED <<firstRead, stage, tiled, drawn, capped, state, note, moves, wholes>>

\* A tile carries a part: the whole feature is read first.
ClickTile(f) ==
  /\ stage = "live" /\ tiled /\ f \in Everything \ (Bare \cup wholes)
  /\ Cardinality(wholes) < 2
  /\ wholes' = wholes \cup {f}
  /\ UNCHANGED <<firstRead, stage, tiled, drawn, capped, state, note, moves, feature, marked>>

Whole(f, here) ==
  /\ f \in wholes
  /\ wholes' = wholes \ {f}
  /\ IF here THEN Select(f) ELSE UNCHANGED <<feature, marked>>
  /\ UNCHANGED <<firstRead, stage, tiled, drawn, capped, state, note, moves>>

\* shut, by its button or Escape.
Shut ==
  /\ feature # NoFeature
  /\ feature' = NoFeature /\ marked' = marked \ {feature}
  /\ UNCHANGED <<firstRead, stage, tiled, drawn, capped, state, note, moves, wholes>>

-----------------------------------------------------------------------------
Reads == Page \/ Enough \/ PageFails \/ Tilesets \/ LibraryFails \/ Library \/ Nothing
         \/ (\E far \in BOOLEAN : MapUp(far)) \/ AllRead \/ AllFailed
         \/ \E load \in loads : LoadAnswers(load) \/ LoadFails(load)

Next ==
  \/ Reads
  \/ \E box \in Views, far \in BOOLEAN : MoveEnd(box, far)
  \/ \E f \in Everything : Click(f) \/ ClickTile(f) \/ (\E here \in BOOLEAN : Whole(f, here))
  \/ Shut

\* A browser's fetch and import end, one way or the other.
Fairness == WF_vars(Reads)
Spec == Init /\ [][Next]_vars /\ Fairness

-----------------------------------------------------------------------------
TypeOK ==
  /\ all \in [phase : {"paging", "enough", "done", "failed"}, layer : DOMAIN Layers, from : Nat \ {0}, first : BOOLEAN]
  /\ latest.features \in Seq(Everything \ Bare) /\ latest.matched \in Nat
  /\ tilesets \in [known : BOOLEAN, every : BOOLEAN] /\ tiled \in BOOLEAN /\ capped \in BOOLEAN
  /\ stage \in {"library", "nothing", "map", "paging", "live", "stopped", "dead"}
  /\ drawn \in Seq(Everything \ Bare)
  /\ state \in {"loading", "ready", "failed", "empty"} /\ note \in {"loading", "failed", "empty", "cap", ""}
  /\ seen \in Views \cup {NoView} /\ lastView \in Views \cup {NoView}
  /\ asked \in Nat /\ loads \subseteq [n : 1..asked, view : Views]
  /\ feature \in Everything \cup {NoFeature} /\ marked \subseteq Everything /\ wholes \subseteq Everything

\* No view draws more than Cap features, whichever page or layer brings the one too many.
NeverOverCap == Len(drawn) <= Cap

\* A map that calls itself ready draws what was read of the view asked for last, however the answers
\* overtake each other.
ReadyIsNewest == state = "ready" /\ lastView # NoView => drawn = InView(lastView)

\* What the code says of the view looked at: "past the cap the view loads what it shows; under it
\* everything is already here".
ViewIsCovered ==
  state = "ready" /\ ~tiled /\ seen # NoView =>
    Within[seen] \ Bare \subseteq Range(drawn) \/ note = "cap"

\* The reader left the last view read for one that nothing reads: that read stayed under the cap.
LeftUnread == lastView # NoView /\ ~capped /\ seen # lastView

\* So it is in every other case: the view looked at is drawn whole, or the words say that it is cut.
CoveredUnlessLeft == LeftUnread \/ ViewIsCovered

\* A dataset read whole, and drawn without tiles, is drawn whole: no page or layer is lost
\* between the first read and the map's own start.
WholeOrCut ==
  stage = "live" /\ ~tiled /\ lastView = NoView =>
    Range(drawn) = Everything \ Bare \/ (Len(drawn) = Cap /\ note = "cap")

\* Only the feature in the panel is drawn as selected, however late a tile's whole feature came.
OnlyTheOpenIsMarked == marked \subseteq {feature}

\* Every map comes to an end of its loading words, or is hidden for want of anything to draw.
NoteSettled == stage \in {"live", "stopped", "dead"} /\ (note # "loading" \/ state = "empty")
NoteSettles == <>[]NoteSettled

-----------------------------------------------------------------------------
(***************************************************************************)
(* Why a ready map draws the newest view: only the views are read once it  *)
(* is live, the newest of those reads is of the view asked for last, and   *)
(* the words are "loading" from when it is asked for to its end.           *)
(***************************************************************************)
ViewsInv ==
  /\ stage \in {"library", "nothing", "map", "paging", "live", "stopped", "dead"}
  /\ asked \in Nat /\ loads \subseteq [n : Nat, view : Views]
  /\ lastView # NoView => stage = "live" /\ ~tiled
  /\ \A load \in loads : load.n <= asked /\ (load.n = asked => load.view = lastView)
  /\ state = "ready" /\ lastView # NoView => drawn = InView(lastView)
  /\ marked \subseteq {feature}

\* Why it covers that view: only past the cap is one asked for, and a read that ends under it is
\* the last one.
CoverInv ==
  /\ seen # NoView => stage = "live"
  /\ lastView = NoView /\ seen # NoView /\ ~tiled => ~capped
  /\ lastView # NoView /\ capped => seen = lastView
  /\ \A load \in loads : load.n = asked => capped
  /\ stage = "live" /\ ~tiled => (capped <=> Len(drawn) >= Cap)
  /\ stage = "live" /\ ~tiled /\ state = "ready" /\ capped => note = "cap"

(***************************************************************************)
(* Why it draws the whole dataset or says that it is cut: what was read so *)
(* far is there as far as the cap lets it, and the read ends early only    *)
(* for tiles that the map's own start, after the first page, takes too.    *)
(***************************************************************************)
ReadUpTo(layer, from) ==
  \A l \in DOMAIN Layers : \A i \in DOMAIN Layers[l] :
    l < layer \/ (l = layer /\ i < from) => Layers[l][i] \in Bare \cup Range(latest.features)

Full == Len(latest.features) = Cap
FirstOver == all.layer = 1 /\ all.first /\ latest.matched > Cap

Types == TypeOK /\ latest = [features |-> latest.features, matched |-> latest.matched]

Progress ==
  /\ Len(latest.features) <= Cap
  /\ all.phase = "paging" => Full \/ ReadUpTo(all.layer, all.from)
  /\ all.phase = "enough" => FirstOver /\ (Full \/ ReadUpTo(all.layer, all.from + PageSize))
  /\ all.phase = "done" =>
       Full \/ (FirstOver /\ tilesets.every) \/ Everything \ Bare \subseteq Range(latest.features)

Started ==
  /\ stage \in {"nothing", "map", "paging", "live", "stopped"} /\ ~tiled =>
       Arrived /\ (all.phase \in {"enough", "done"} /\ tilesets.every => ~FirstOver)
  /\ stage = "paging" => ~tiled
  /\ stage = "live" /\ ~tiled => all.phase = "done"

Drawn ==
  /\ Len(drawn) <= Cap
  /\ lastView = NoView =>
       loads = {} /\ (stage = "live" /\ ~tiled => drawn = latest.features /\ (Full => note = "cap"))

ReadInv == Types /\ Progress /\ Started /\ Drawn
=============================================================================
