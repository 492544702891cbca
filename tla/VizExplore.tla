------------------------------ MODULE VizExplore ------------------------------
(***************************************************************************)
(* The live explorer of one Endpoint (explore.js): a table of its own      *)
(* component says which type and query it shows; the address, the map of   *)
(* the same query, its count line and its tiles follow. Nothing is         *)
(* awaited in turn: the type list, a type's description, the map library,  *)
(* the first bounds, the features, the tilesets and the totals answer in   *)
(* any order while the reader filters, pans and sets the map.              *)
(***************************************************************************)
EXTENDS Naturals, Sequences, SequencesExt

CONSTANTS
  Types, Queries,  \* "" is no query
  Geos,      \* per type: its GeoProperties in the mapping's order
  Published, \* per type: the geometry its publisher chose, known with the row card
  Slots,     \* per type: the fields a map may be coloured by, known with the row card
  Links,     \* the map choices a link may carry: [geo, color], "" for none
  Many,      \* the types whose views hold more than one read draws
  MaxMoves

ConstantsOK ==
  /\ "" \notin Types /\ Geos \in [Types -> Seq(STRING)] /\ "" \in Queries
  /\ \A t \in Types : Geos[t] # <<>> => Published[t] \in ToSet(Geos[t])
  /\ MaxMoves \in Nat /\ \A link \in Links : link = [geo |-> link.geo, color |-> link.color]

VARIABLES
  table,    \* what the table says: [type, q]
  raw,      \* mapRaw: the reader's map choices, "" where there is none
  hash,     \* the address: the view and the choices it names
  card,     \* the type of the row card in hand, "" before the first
  listed,   \* the type list: "asked", "read", "failed"
  infos,    \* per type, its description: "none", "asked", "read"
  drawing,  \* the types whose drawMap waits for the description
  section,  \* the map's section is shown
  mapping,  \* [type, geo, color] the map draws by; type "" before the first
  gl,       \* [at, built, ask]: where the map is, how many were built, the newest read
  fitting,  \* reads of the first bounds under way
  reads,    \* the map's reads under way: [ask, kind, view]
  painted,  \* the view whose features are drawn, or NoView
  tiles,    \* [of, known, waits]: the type drawn as tiles, its tilesets, the reads that asked for tiles
  totals,   \* [key, asked, of, here, line, lost]: the query the count is for, the totals asked, whose
            \* totals stand; the read whose number in view stands; the count line's own; the last newest
            \* read that ended without a number
  words,    \* map-note: "", "hint", "failed"
  moves     \* what the reader has done so far

vars == <<table, raw, hash, card, listed, infos, drawing, section, mapping, gl, fitting, reads,
          painted, tiles, totals, words, moves>>

NoChoice == [geo |-> "", color |-> ""]
NoView == [type |-> "", q |-> "", geo |-> ""]
\* The count line is hidden.
NoLine == [here |-> 0, of |-> NoView]
\* address: the table's view and the reader's choices.
Address(t, r) == [type |-> t.type, q |-> t.q, geo |-> r.geo, color |-> r.color]

Init ==
  /\ table \in [type : Types, q : {""}] /\ raw \in Links /\ hash = Address(table, raw)
  /\ card = "" /\ listed = "asked" /\ infos = [t \in Types |-> "none"] /\ drawing = {}
  /\ section = FALSE /\ mapping = [type |-> "", geo |-> "location", color |-> "type"]
  /\ gl = [at |-> "none", built |-> 0, ask |-> 0] /\ fitting = 0 /\ reads = {} /\ painted = NoView
  /\ tiles = [of |-> "", known |-> [t \in Types |-> "none"], waits |-> {}]
  /\ totals = [key |-> NoView, asked |-> {}, of |-> NoView, here |-> 0, line |-> NoLine, lost |-> 0] /\ words = "" /\ moves = 0

View == [type |-> table.type, q |-> table.q, geo |-> mapping.geo]

-----------------------------------------------------------------------------
(* mapOptions and mapChoice: what the type's model offers, what is kept.   *)

Model(type) == card = type
DefaultGeo(type) == IF Model(type) THEN Published[type] ELSE Geos[type][1]
Colours(type) == {"none", "type"} \cup IF Model(type) THEN Slots[type] ELSE {}
Unknown(type) ==
  {k \in DOMAIN raw : raw[k] # "" /\ raw[k] \notin (IF k = "geo" THEN ToSet(Geos[type]) ELSE Colours(type))}
Choice(type) ==
  [type |-> type,
   geo |-> IF raw.geo = "" \/ "geo" \in Unknown(type) THEN DefaultGeo(type) ELSE raw.geo,
   color |-> IF raw.color = "" \/ "color" \in Unknown(type) THEN "type" ELSE raw.color]

-----------------------------------------------------------------------------
(* The map of the view.                                                    *)

\* drawMap, as far as the type's description: it is asked for once per type.
DrawMap(t, list) ==
  IF list # "read" THEN section' = FALSE /\ UNCHANGED <<infos, drawing>>
  ELSE /\ drawing' = drawing \cup {t.type}
       /\ infos' = [infos EXCEPT ![t.type] = IF @ = "none" THEN "asked" ELSE @]
       /\ UNCHANGED section

\* Mutant before it: tiles of one type stay when the table shows another.
TilesStay_Type(m) == tiles.of # "" /\ table.q = "" /\ m.geo = "location"
\* Tiles draw one type's every entity at its location: another view takes them away.
TilesStay(m) == tiles.of = table.type /\ table.q = "" /\ m.geo = "location"

\* mapMoved: the view is read once the map has its sources, the features unless tiles draw them.
MapMoved(m) ==
  IF gl.at # "up" \/ m.type = "" THEN UNCHANGED <<gl, reads, tiles, totals>>
  ELSE LET view == [type |-> table.type, q |-> table.q, geo |-> m.geo]
           of == IF TilesStay(m) THEN tiles.of ELSE "" IN
    /\ tiles' = [tiles EXCEPT !.of = of]
    /\ gl' = [gl EXCEPT !.ask = @ + 1]
    /\ reads' = reads \cup {[ask |-> gl.ask + 1, kind |-> IF of # "" THEN "count" ELSE "features", view |-> view]}
    /\ totals' = IF totals.key = view THEN totals
                 ELSE [totals EXCEPT !.key = view, !.asked = @ \cup {view}, !.of = NoView]

\* drawMap once the description is read: the mapping, the choices the model does not have dropped
\* from the address, another geometry's first bounds, the view; or the one map's start.
Drawn(type) ==
  /\ type \in drawing /\ infos[type] = "read"
  /\ drawing' = drawing \ {type}
  /\ IF table.type # type THEN UNCHANGED <<raw, hash, section, mapping, gl, fitting, reads, tiles, totals>>
     ELSE IF Geos[type] = <<>> THEN section' = FALSE /\ UNCHANGED <<raw, hash, mapping, gl, fitting, reads, tiles, totals>>
     ELSE LET m == Choice(type) IN
       /\ section' = TRUE /\ mapping' = m
       /\ raw' = IF Model(type) THEN [k \in DOMAIN raw |-> IF k \in Unknown(type) THEN "" ELSE raw[k]] ELSE raw
       /\ hash' = IF Model(type) /\ Unknown(type) # {} THEN Address(table, raw') ELSE hash
       /\ CASE gl.at = "none" -> gl' = [gl EXCEPT !.at = "waiting"] /\ UNCHANGED <<fitting, reads, tiles, totals>>
            [] gl.at = "up" /\ mapping.type # "" /\ mapping.geo # m.geo ->
                 fitting' = fitting + 1 /\ UNCHANGED <<gl, reads, tiles, totals>>
            [] OTHER -> MapMoved(m) /\ UNCHANGED fitting
  /\ UNCHANGED <<table, card, listed, infos, painted, words, moves>>

InfoRead(type) ==
  /\ infos[type] = "asked"
  /\ infos' = [infos EXCEPT ![type] = "read"]
  /\ UNCHANGED <<table, raw, hash, card, listed, drawing, section, mapping, gl, fitting, reads, painted, tiles, totals, words, moves>>

TypesRead(answer) ==
  /\ listed = "asked"
  /\ listed' = answer
  /\ IF answer = "read" THEN DrawMap(table, "read") ELSE UNCHANGED <<infos, drawing, section>>
  /\ UNCHANGED <<table, raw, hash, card, mapping, gl, fitting, reads, painted, tiles, totals, words, moves>>

\* startMap and loadMap: the map stayed in view, the library came, the style and its sources are up.
MapGoes ==
  /\ \/ gl.at = "waiting" /\ gl' = [gl EXCEPT !.at = "loading"]
     \/ gl.at = "loading" /\ gl' = [gl EXCEPT !.at = "built", !.built = @ + 1]
  /\ UNCHANGED <<table, raw, hash, card, listed, infos, drawing, section, mapping, fitting, reads, painted, tiles, totals, words, moves>>

MapLoads ==
  /\ gl.at = "built"
  /\ gl' = [gl EXCEPT !.at = "up"] /\ fitting' = fitting + 1
  /\ UNCHANGED <<table, raw, hash, card, listed, infos, drawing, section, mapping, reads, painted, tiles, totals, words, moves>>

NoLibrary ==
  /\ gl.at = "loading"
  /\ gl' = [gl EXCEPT !.at = "failed"] /\ words' = "failed"
  /\ UNCHANGED <<table, raw, hash, card, listed, infos, drawing, section, mapping, fitting, reads, painted, tiles, totals, moves>>

\* fitFirst, read or not, and the view after it.
Fitted ==
  /\ fitting > 0
  /\ fitting' = fitting - 1 /\ MapMoved(mapping)
  /\ UNCHANGED <<table, raw, hash, card, listed, infos, drawing, section, mapping, painted, words, moves>>

\* Mutant before it: the features of any view read are drawn.
Newest_Any(read) == TRUE
Newest(read) == read.ask = gl.ask

\* showCount: the line is written when both numbers are there, and hidden when one is not.
Line(here, of) == IF here = 0 \/ of = NoView THEN NoLine ELSE [here |-> here, of |-> of]
ShowsCount(here, of) == totals' = [totals EXCEPT !.here = here, !.of = of, !.line = Line(here, of)]

\* tile: the type's tileset is read once; the reads that want tiles wait for it.
AsksTiles(ask, type) ==
  tiles' = [tiles EXCEPT !.waits = @ \cup {[ask |-> ask, type |-> type]}, !.known[type] = IF @ = "none" THEN "asked" ELSE @]

\* The features of the newest view are painted; more than one read holds, unfiltered, wants tiles.
Features(read) ==
  /\ read \in reads /\ read.kind = "features"
  /\ reads' = reads \ {read}
  /\ IF Newest(read)
     THEN /\ painted' = read.view /\ words' = "hint" /\ ShowsCount(read.ask, totals.of)
          /\ IF read.view.type \in Many /\ table.q = "" THEN AsksTiles(read.ask, table.type) ELSE UNCHANGED tiles
     ELSE UNCHANGED <<painted, words, tiles, totals>>
  /\ UNCHANGED <<table, raw, hash, card, listed, infos, drawing, section, mapping, gl, fitting, moves>>

\* The number of the view that tiles draw.
CountRead(read) ==
  /\ read \in reads /\ read.kind = "count"
  /\ reads' = reads \ {read}
  /\ IF Newest(read) THEN ShowsCount(read.ask, totals.of) ELSE UNCHANGED totals
  /\ UNCHANGED <<table, raw, hash, card, listed, infos, drawing, section, mapping, gl, fitting, painted, tiles, words, moves>>

\* A read fails, or brings no number: the count line stays as it was.
ReadEnds(read) ==
  /\ read \in reads
  /\ reads' = reads \ {read}
  /\ totals' = IF Newest(read) THEN [totals EXCEPT !.lost = read.ask] ELSE totals
  /\ words' = IF read.kind = "features" /\ Newest(read) THEN "failed" ELSE words
  /\ UNCHANGED <<table, raw, hash, card, listed, infos, drawing, section, mapping, gl, fitting, painted, tiles, moves>>

TilesetRead(type, answer) ==
  /\ tiles.known[type] = "asked"
  /\ tiles' = [tiles EXCEPT !.known[type] = answer]
  /\ UNCHANGED <<table, raw, hash, card, listed, infos, drawing, section, mapping, gl, fitting, reads, painted, totals, words, moves>>

\* Mutant before it: the tiles of a type are drawn whatever the map shows by then.
TilesFit_Late(type) == tiles.known[type] = "yes"
TilesFit(type) == tiles.known[type] = "yes" /\ table.type = type /\ table.q = "" /\ mapping.geo = "location"

\* The tiles in the features' place, if the view still is the one they draw.
Tiled(wait) ==
  /\ wait \in tiles.waits /\ tiles.known[wait.type] \in {"yes", "no"}
  /\ IF TilesFit(wait.type) /\ tiles.of # wait.type
     THEN /\ tiles' = [tiles EXCEPT !.of = wait.type, !.waits = @ \ {wait}] /\ painted' = NoView
          /\ ShowsCount(totals.here, totals.of)
     ELSE tiles' = [tiles EXCEPT !.waits = @ \ {wait}] /\ UNCHANGED <<painted, totals>>
  /\ words' = IF tiles'.of = wait.type /\ wait.ask = gl.ask THEN "hint" ELSE words
  /\ UNCHANGED <<table, raw, hash, card, listed, infos, drawing, section, mapping, gl, fitting, reads, moves>>

\* Mutant before it: totals that come late stand for the query of now.
TotalsFit_Any(view) == TRUE
TotalsFit(view) == totals.key = view

\* The totals of the query, with their numbers or without; NoTotals is their read that fails.
Totals(view, told) ==
  LET of == IF told THEN view ELSE NoView IN
  /\ view \in totals.asked
  /\ totals' = IF TotalsFit(view)
               THEN [totals EXCEPT !.asked = @ \ {view}, !.of = of, !.line = Line(totals.here, of)]
               ELSE [totals EXCEPT !.asked = @ \ {view}]
  /\ UNCHANGED <<table, raw, hash, card, listed, infos, drawing, section, mapping, gl, fitting, reads, painted, tiles, words, moves>>

NoTotals(view) ==
  /\ view \in totals.asked
  /\ totals' = [totals EXCEPT !.asked = @ \ {view}]
  /\ UNCHANGED <<table, raw, hash, card, listed, infos, drawing, section, mapping, gl, fitting, reads, painted, tiles, words, moves>>

-----------------------------------------------------------------------------
(* The reader.                                                             *)

Moves == moves < MaxMoves /\ moves' = moves + 1

\* A map choice names the slots of one type: another type starts from its own default.
Kept(next) == IF next.type = table.type THEN raw ELSE NoChoice

\* onLink: the table says which view it shows.
OnLink(next) ==
  /\ Moves /\ next # table
  /\ table' = next /\ raw' = Kept(next)
  /\ hash' = Address(next, raw')
  /\ DrawMap(next, listed)
  /\ UNCHANGED <<card, listed, mapping, gl, fitting, reads, painted, tiles, totals, words>>

\* onCard: the table's row card of a type.
OnCard(type) ==
  /\ card # type /\ type = table.type
  /\ card' = type
  /\ DrawMap(table, listed)
  /\ UNCHANGED <<table, raw, hash, listed, mapping, gl, fitting, reads, painted, tiles, totals, words, moves>>

Pan ==
  /\ Moves /\ gl.at = "up"
  /\ MapMoved(mapping)
  /\ UNCHANGED <<table, raw, hash, card, listed, infos, drawing, section, mapping, fitting, painted, words>>

\* fromPanel: what differs from the mapping's default; a chip's removal, the reset.
Differs(type, r) ==
  [geo |-> IF r.geo = DefaultGeo(type) THEN "" ELSE r.geo, color |-> IF r.color = "type" THEN "" ELSE r.color]
Choose(r) ==
  /\ Moves /\ section /\ mapping.type = table.type
  /\ r.geo \in ToSet(Geos[mapping.type]) /\ r.color \in Colours(mapping.type)
  /\ raw' = Differs(mapping.type, r) /\ raw' # raw
  /\ hash' = Address(table, raw')
  /\ DrawMap(table, listed)
  /\ UNCHANGED <<table, card, listed, mapping, gl, fitting, reads, painted, tiles, totals, words>>

Unpick(k) ==
  /\ Moves /\ section /\ raw[k] # ""
  /\ raw' = [raw EXCEPT ![k] = ""]
  /\ hash' = Address(table, raw')
  /\ DrawMap(table, listed)
  /\ UNCHANGED <<table, card, listed, mapping, gl, fitting, reads, painted, tiles, totals, words>>

Settings == [geo : UNION {ToSet(Geos[t]) : t \in Types}, color : UNION {{"none", "type"} \cup Slots[t] : t \in Types}]

Next ==
  \/ \E t \in Types : Drawn(t) \/ InfoRead(t) \/ OnCard(t) \/ \E answer \in {"yes", "no"} : TilesetRead(t, answer)
  \/ \E answer \in {"read", "failed"} : TypesRead(answer)
  \/ MapGoes \/ MapLoads \/ NoLibrary \/ Fitted
  \/ \E read \in reads : Features(read) \/ CountRead(read) \/ ReadEnds(read)
  \/ \E wait \in tiles.waits : Tiled(wait)
  \/ \E view \in totals.asked : NoTotals(view) \/ \E told \in BOOLEAN : Totals(view, told)
  \/ \E next \in [type : Types, q : Queries] : OnLink(next)
  \/ Pan \/ \E r \in Settings : Choose(r) \/ \E k \in DOMAIN raw : Unpick(k)

Spec == Init /\ [][Next]_vars

-----------------------------------------------------------------------------
TypeOK ==
  /\ table \in [type : Types, q : Queries] /\ card \in Types \cup {""} /\ listed \in {"asked", "read", "failed"}
  /\ gl.at \in {"none", "waiting", "loading", "built", "up", "failed"} /\ gl.built \in 0..1
  /\ tiles.of \in Types \cup {""} /\ words \in {"", "hint", "failed"} /\ drawing \subseteq Types

Quiet == drawing = {} /\ fitting = 0 /\ reads = {} /\ tiles.waits = {} /\ totals.asked = {}

\* With every answer in, the map draws the table's type and query at the chosen geometry, as its
\* features or as its tiles, or says that the read failed: whatever order the answers came in. (Under
\* tiles the features read just before them may stay; the tiles are what is asked of.)
MapFollowsTheTable ==
  Quiet /\ gl.at = "up" /\ section =>
    \/ tiles.of = table.type /\ table.q = "" /\ mapping.geo = "location"
    \/ tiles.of = "" /\ (painted = View \/ words = "failed")

\* With every answer in, the count line gives the number of the view on screen and the totals of its
\* type, query and geometry, or is hidden, whatever order the answers came in; unless the newest read of
\* the view failed or brought no number: then the line stays as it was before, of another view it may be.
CountLineOfTheView ==
  Quiet /\ gl.at = "up" /\ section /\ totals.lost # gl.ask =>
    totals.line = NoLine \/ totals.line = [here |-> gl.ask, of |-> View]

\* The link a reader copies opens the view on the screen: its type and query, and only map choices
\* the type has, once its model is in hand; a choice made on one type's map never sets another's.
LinkIsTheView ==
  /\ hash = Address(table, raw)
  /\ mapping.type \notin {"", table.type} => raw = NoChoice
  /\ section /\ drawing = {} /\ card = table.type /\ mapping.type = table.type => mapping = Choice(table.type) /\ Unknown(table.type) = {}

(***************************************************************************)
(* Why they hold.  Once the type on screen is drawn, the mapping is of it, *)
(* and the newest read, asked or answered, is of the view on screen,       *)
(* unless tiles that fit this view are in its place.                       *)
(***************************************************************************)
Records ==
  /\ table \in [type : Types, q : Queries] /\ card \in Types \cup {""} /\ drawing \subseteq Types /\ section \in BOOLEAN
  /\ raw = [geo |-> raw.geo, color |-> raw.color]
  /\ mapping = [type |-> mapping.type, geo |-> mapping.geo, color |-> mapping.color] /\ mapping.type \in Types \cup {""}
  /\ gl = [at |-> gl.at, built |-> gl.built, ask |-> gl.ask] /\ gl.ask \in Nat /\ fitting \in Nat
  /\ tiles = [of |-> tiles.of, known |-> tiles.known, waits |-> tiles.waits] /\ tiles.of \in Types \cup {""}
  /\ \A wait \in tiles.waits : wait.type \in Types
  /\ totals = [key |-> totals.key, asked |-> totals.asked, of |-> totals.of, here |-> totals.here, line |-> totals.line,
               lost |-> totals.lost]
  /\ \A read \in reads : read = [ask |-> read.ask, kind |-> read.kind, view |-> read.view] /\ read.ask \in 0..gl.ask

Settled == section /\ table.type \notin drawing
MappingOfTheTable == Settled => mapping.type = table.type
NewestOfTheView ==
  Settled /\ fitting = 0 /\ gl.at = "up" =>
    /\ totals.key = View
    /\ tiles.of # "" => tiles.of = table.type /\ table.q = "" /\ mapping.geo = "location"
    /\ \A read \in reads : read.ask = gl.ask => read.view = View
    /\ tiles.of = "" => painted = View \/ words = "failed" \/ \E read \in reads : read.ask = gl.ask /\ read.kind = "features"
ChosenOfTheTable ==
  /\ hash = Address(table, raw)
  /\ mapping.type \notin {"", table.type} => raw = NoChoice
  /\ Settled /\ card = table.type => mapping = Choice(table.type) /\ Unknown(table.type) = {}

\* The newest read is out, or was lost, or its number stands; and then the line is of it and of the
\* totals of the query it was asked for.
TotalsOfTheKey == totals.of # NoView => totals.of = totals.key
LineOfTheNewest ==
  \/ \E read \in reads : read.ask = gl.ask
  \/ totals.lost = gl.ask
  \/ totals.here = gl.ask /\ totals.line \in {NoLine, [here |-> gl.ask, of |-> totals.key]}

ExploreInv == Records /\ MappingOfTheTable /\ NewestOfTheView /\ ChosenOfTheTable /\ TotalsOfTheKey /\ LineOfTheNewest
=============================================================================
