------------------------------ MODULE Apps_proofs ------------------------------
(***************************************************************************)
(* Proofs about the pages of the Apps and the charts' explorer (Apps), for *)
(* every value of the constants that the ConstantsOK of each machine       *)
(* allows.                                                                 *)
(***************************************************************************)
EXTENDS Apps, TLAPS

(***************************************************************************)
(* The explorer of the charts (VizExplore).                                *)
(***************************************************************************)
(***************************************************************************)
(* The explorer of the charts: its map, its totals and its link.           *)
(***************************************************************************)
LEMMA ExploreStarts ==
    ASSUME Explore!ConstantsOK, Explore!Init
    PROVE  Explore!ExploreInv
<1>1. raw = [geo |-> raw.geo, color |-> raw.color] /\ "" \notin ExploreTypes /\ "" \in ExploreQueries
  BY DEF Explore!ConstantsOK, Explore!Init
<1>2. table \in [type : ExploreTypes, q : ExploreQueries] /\ drawing = {} /\ section = FALSE /\ card = "" /\ reads = {} /\ fitting = 0
  BY <1>1 DEF Explore!Init
<1>3. Explore!Records
  <2>1. /\ mapping = [type |-> "", geo |-> "location", color |-> "type"] /\ gl = [at |-> "none", built |-> 0, ask |-> 0]
        /\ tiles = [of |-> "", known |-> [t \in ExploreTypes |-> "none"], waits |-> {}]
        /\ totals = [key |-> Explore!NoView, asked |-> {}, of |-> Explore!NoView, here |-> 0, line |-> Explore!NoLine, lost |-> 0]
    BY DEF Explore!Init
  <2>2. mapping = [type |-> mapping.type, geo |-> mapping.geo, color |-> mapping.color] /\ mapping.type = ""
    BY <2>1
  <2>3. gl = [at |-> gl.at, built |-> gl.built, ask |-> gl.ask] /\ gl.ask = 0
    BY <2>1
  <2>4. tiles = [of |-> tiles.of, known |-> tiles.known, waits |-> tiles.waits] /\ tiles.of = "" /\ tiles.waits = {}
    BY <2>1
  <2>5. totals = [key |-> totals.key, asked |-> totals.asked, of |-> totals.of, here |-> totals.here, line |-> totals.line, lost |-> totals.lost]
    BY <2>1
  <2>6. gl.ask \in Nat /\ fitting \in Nat /\ drawing \subseteq ExploreTypes /\ section \in BOOLEAN
    <3>1. section \in BOOLEAN
      BY <1>2, Zenon
    <3>2. gl.ask \in Nat
      BY <2>3
    <3>3. fitting \in Nat
      BY <1>2
    <3>4. drawing \subseteq ExploreTypes
      BY <1>2
    <3> QED
      BY <3>1, <3>2, <3>3, <3>4
  <2>7. /\ table \in [type : ExploreTypes, q : ExploreQueries] /\ card \in ExploreTypes \cup {""} /\ mapping.type \in ExploreTypes \cup {""}
        /\ tiles.of \in ExploreTypes \cup {""}
    BY <1>2, <2>2, <2>4
  <2>8. /\ \A wait \in tiles.waits : wait.type \in ExploreTypes
        /\ \A read \in reads : read = [ask |-> read.ask, kind |-> read.kind, view |-> read.view] /\ read.ask \in 0..gl.ask
    BY <1>2, <2>4
  <2> QED
    BY <1>1, <2>2, <2>3, <2>4, <2>5, <2>6, <2>7, <2>8 DEF Explore!Records
<1>4. Explore!ChosenOfTheTable
  BY <1>2 DEF Explore!Init, Explore!ChosenOfTheTable, Explore!Settled
<1>5. Explore!MappingOfTheTable /\ Explore!NewestOfTheView
  BY <1>2 DEF Explore!MappingOfTheTable, Explore!NewestOfTheView, Explore!Settled
<1>6. Explore!TotalsOfTheKey /\ Explore!LineOfTheNewest
  BY DEF Explore!Init, Explore!TotalsOfTheKey, Explore!LineOfTheNewest
<1> QED
  BY <1>3, <1>4, <1>5, <1>6 DEF Explore!ExploreInv

\* mapMoved leaves the map's types, asks for the view and no other, and starts totals of their own.
LEMMA MapMovedAsks ==
    ASSUME Explore!ConstantsOK, Explore!Records, Explore!TotalsOfTheKey, Explore!LineOfTheNewest, NEW m, Explore!MapMoved(m)
    PROVE  /\ gl' = [at |-> gl'.at, built |-> gl'.built, ask |-> gl'.ask] /\ gl'.ask \in Nat /\ gl'.at = gl.at
           /\ tiles' = [of |-> tiles'.of, known |-> tiles'.known, waits |-> tiles'.waits] /\ tiles'.of \in ExploreTypes \cup {""}
           /\ tiles'.waits = tiles.waits
           /\ totals' = [key |-> totals'.key, asked |-> totals'.asked, of |-> totals'.of, here |-> totals'.here, line |-> totals'.line, lost |-> totals'.lost]
           /\ Explore!TotalsOfTheKey' /\ Explore!LineOfTheNewest'
           /\ \A read \in reads' : read = [ask |-> read.ask, kind |-> read.kind, view |-> read.view] /\ read.ask \in 0..gl'.ask
           /\ gl.at = "up" /\ m.type # "" =>
                /\ totals'.key = [type |-> table.type, q |-> table.q, geo |-> m.geo]
                /\ tiles'.of # "" => tiles'.of = table.type /\ table.q = "" /\ m.geo = "location"
                /\ \A read \in reads' : read.ask = gl'.ask => read.view = [type |-> table.type, q |-> table.q, geo |-> m.geo]
                /\ tiles'.of = "" => \E read \in reads' : read.ask = gl'.ask /\ read.kind = "features"
<1>1. CASE gl.at # "up" \/ m.type = ""
  BY <1>1 DEF Explore!MapMoved, Explore!Records, Explore!TotalsOfTheKey, Explore!LineOfTheNewest
<1>2. CASE ~(gl.at # "up" \/ m.type = "")
  <2> DEFINE view == [type |-> table.type, q |-> table.q, geo |-> m.geo]
             of == IF Explore!TilesStay(m) THEN tiles.of ELSE ""
             new == [ask |-> gl.ask + 1, kind |-> IF of # "" THEN "count" ELSE "features", view |-> view]
  <2>1. /\ tiles' = [tiles EXCEPT !.of = of] /\ gl' = [gl EXCEPT !.ask = @ + 1] /\ reads' = reads \cup {new}
        /\ totals' = IF totals.key = view THEN totals ELSE [totals EXCEPT !.key = view, !.asked = @ \cup {view}, !.of = Explore!NoView]
    BY <1>2 DEF Explore!MapMoved
  <2>2. of # "" => of = table.type /\ table.q = "" /\ m.geo = "location"
    BY DEF Explore!TilesStay
  <2>3. of \in ExploreTypes \cup {""}
    BY DEF Explore!Records
  <2>4. new.ask = gl.ask + 1 /\ new.view = view /\ (of = "" => new.kind = "features")
        /\ new = [ask |-> new.ask, kind |-> new.kind, view |-> new.view]
    OBVIOUS
  <2> HIDE DEF new, of, view
  <2>5. /\ tiles'.of = of /\ tiles'.waits = tiles.waits
        /\ tiles' = [of |-> tiles'.of, known |-> tiles'.known, waits |-> tiles'.waits]
    BY <2>1 DEF Explore!Records
  <2>6. gl'.ask = gl.ask + 1 /\ gl'.at = gl.at /\ gl' = [at |-> gl'.at, built |-> gl'.built, ask |-> gl'.ask] /\ gl.ask \in Nat
    BY <2>1 DEF Explore!Records
  <2>7. /\ totals' = [key |-> totals'.key, asked |-> totals'.asked, of |-> totals'.of, here |-> totals'.here, line |-> totals'.line, lost |-> totals'.lost]
        /\ totals'.key = view /\ Explore!TotalsOfTheKey'
    BY <2>1 DEF Explore!Records, Explore!TotalsOfTheKey
  <2>18. Explore!LineOfTheNewest'
    BY <2>1, <2>4, <2>6 DEF Explore!LineOfTheNewest
  <2>8. \A read \in reads : read = [ask |-> read.ask, kind |-> read.kind, view |-> read.view] /\ read.ask \in 0..gl.ask
    BY DEF Explore!Records
  <2>12. PICK n, o : n = gl.ask /\ o = gl'.ask
    OBVIOUS
  <2>13. n \in Nat /\ o = n + 1
    BY <2>6, <2>12
  <2>14. \A read \in reads' : read \in reads \/ read = new
    BY <2>1
  <2>15. ASSUME NEW read \in reads'
         PROVE  /\ read = [ask |-> read.ask, kind |-> read.kind, view |-> read.view]
                /\ read.ask \in 0..o /\ (read.ask = o => read.view = view)
    <3>1. CASE read \in reads
      <4>1. PICK a : a = read.ask
        OBVIOUS
      <4>2. a \in 0..n /\ read = [ask |-> read.ask, kind |-> read.kind, view |-> read.view]
        BY <2>8, <2>12, <3>1, <4>1
      <4>3. a \in 0..o /\ a # o
        BY <2>13, <4>2
      <4> QED
        BY <4>1, <4>2, <4>3
    <3>2. CASE read = new
      <4>1. o \in 0..o
        BY <2>13
      <4> QED
        BY <2>4, <2>12, <2>13, <3>2, <4>1
    <3> QED
      BY <2>14, <3>1, <3>2
  <2>9. \A read \in reads' : read = [ask |-> read.ask, kind |-> read.kind, view |-> read.view] /\ read.ask \in 0..gl'.ask
    BY <2>12, <2>15
  <2>10. \A read \in reads' : read.ask = gl'.ask => read.view = view
    BY <2>12, <2>15
  <2>11. of = "" => \E read \in reads' : read.ask = gl'.ask /\ read.kind = "features"
    BY <2>1, <2>4, <2>6
  <2>16. gl'.ask \in Nat
    BY <2>6
  <2>17. /\ tiles'.of # "" => tiles'.of = table.type /\ table.q = "" /\ m.geo = "location"
         /\ tiles'.of \in ExploreTypes \cup {""}
         /\ tiles'.of = "" => \E read \in reads' : read.ask = gl'.ask /\ read.kind = "features"
    BY <2>2, <2>3, <2>5, <2>11
  <2> QED
    BY <2>5, <2>6, <2>7, <2>9, <2>10, <2>16, <2>17, <2>18 DEF view
<1> QED
  BY <1>1, <1>2

\* The map is moved to the mapping there is: a pan, or the first bounds.
LEMMA MapMovedKeeps ==
    ASSUME Explore!ConstantsOK, Explore!ExploreInv, Explore!MapMoved(mapping), fitting' \in Nat,
           UNCHANGED <<table, raw, hash, card, listed, infos, drawing, section, mapping, painted, words>>
    PROVE  Explore!ExploreInv'
<1>1. Explore!Records /\ Explore!TotalsOfTheKey /\ Explore!LineOfTheNewest /\ Explore!MappingOfTheTable /\ Explore!ChosenOfTheTable
  BY DEF Explore!ExploreInv
<1>2. Explore!Records'
  BY <1>1, MapMovedAsks DEF Explore!Records
<1>3. Explore!MappingOfTheTable' /\ Explore!ChosenOfTheTable'
  BY <1>1 DEF Explore!MappingOfTheTable, Explore!ChosenOfTheTable, Explore!Settled, Explore!Choice, Explore!Unknown, Explore!Model, Explore!Colours, Explore!DefaultGeo, Explore!Address
<1>4. Explore!NewestOfTheView'
  <2> SUFFICES ASSUME Explore!Settled', fitting' = 0, gl'.at = "up"
               PROVE  /\ totals'.key = [type |-> table.type, q |-> table.q, geo |-> mapping.geo]
                      /\ tiles'.of # "" => tiles'.of = table.type /\ table.q = "" /\ mapping.geo = "location"
                      /\ \A read \in reads' : read.ask = gl'.ask => read.view = [type |-> table.type, q |-> table.q, geo |-> mapping.geo]
                      /\ tiles'.of = "" => \E read \in reads' : read.ask = gl'.ask /\ read.kind = "features"
    BY DEF Explore!NewestOfTheView, Explore!View
  <2>1. mapping.type = table.type /\ table.type \in ExploreTypes /\ "" \notin ExploreTypes
    BY <1>1 DEF Explore!Settled, Explore!MappingOfTheTable, Explore!Records, Explore!ConstantsOK
  <2>2. gl.at = "up"
    BY <1>1, MapMovedAsks
  <2> QED
    BY <1>1, <2>1, <2>2, MapMovedAsks
<1> QED
  BY <1>1, <1>2, <1>3, <1>4, MapMovedAsks DEF Explore!ExploreInv
\* drawMap takes the view on screen as not drawn yet, or hides the map.
LEMMA DrawMapWaits ==
    ASSUME Explore!Records, NEW t, NEW list, t.type \in ExploreTypes, Explore!DrawMap(t, list)
    PROVE  drawing' \subseteq ExploreTypes /\ section' \in BOOLEAN /\ (section' => t.type \in drawing')
BY DEF Explore!DrawMap, Explore!Records

\* A view that is not drawn yet makes no promise of its map.
LEMMA NotSettled ==
    ASSUME ~Explore!Settled'
    PROVE  Explore!MappingOfTheTable' /\ Explore!NewestOfTheView'
BY DEF Explore!MappingOfTheTable, Explore!NewestOfTheView

LEMMA ExploreTheLinks ==
    ASSUME Explore!ConstantsOK, Explore!ExploreInv, NEW next \in [type : ExploreTypes, q : ExploreQueries], Explore!OnLink(next)
    PROVE  Explore!ExploreInv'
<1>1. Explore!Records /\ Explore!TotalsOfTheKey /\ Explore!LineOfTheNewest /\ Explore!ChosenOfTheTable
  BY DEF Explore!ExploreInv
<1>2. /\ table' = next /\ raw' = Explore!Kept(next) /\ hash' = Explore!Address(next, raw') /\ Explore!DrawMap(next, listed)
      /\ UNCHANGED <<card, listed, mapping, gl, fitting, reads, painted, tiles, totals, words>>
  BY DEF Explore!OnLink
<1>3. drawing' \subseteq ExploreTypes /\ section' \in BOOLEAN /\ (section' => next.type \in drawing')
  BY <1>1, <1>2, DrawMapWaits
<1>4. ~Explore!Settled'
  BY <1>2, <1>3 DEF Explore!Settled
<1>5. raw' = [geo |-> raw'.geo, color |-> raw'.color]
  BY <1>1, <1>2 DEF Explore!Kept, Explore!NoChoice, Explore!Records
<1>6. Explore!Records'
  BY <1>1, <1>2, <1>3, <1>5 DEF Explore!Records
<1>7. mapping'.type \notin {"", table'.type} => raw' = Explore!NoChoice
  BY <1>1, <1>2 DEF Explore!Kept, Explore!ChosenOfTheTable
<1>8. Explore!ChosenOfTheTable'
  BY <1>2, <1>4, <1>7 DEF Explore!ChosenOfTheTable
<1>9. Explore!TotalsOfTheKey' /\ Explore!LineOfTheNewest'
  BY <1>1, <1>2 DEF Explore!TotalsOfTheKey, Explore!LineOfTheNewest
<1> QED
  BY <1>4, <1>6, <1>8, <1>9, NotSettled DEF Explore!ExploreInv

LEMMA ExploreCards ==
    ASSUME Explore!ConstantsOK, Explore!ExploreInv, NEW type \in ExploreTypes, Explore!OnCard(type)
    PROVE  Explore!ExploreInv'
<1>1. Explore!Records /\ Explore!TotalsOfTheKey /\ Explore!LineOfTheNewest /\ Explore!ChosenOfTheTable
  BY DEF Explore!ExploreInv
<1>2. /\ card' = type /\ Explore!DrawMap(table, listed)
      /\ UNCHANGED <<table, raw, hash, listed, mapping, gl, fitting, reads, painted, tiles, totals, words>>
  BY DEF Explore!OnCard
<1>3. drawing' \subseteq ExploreTypes /\ section' \in BOOLEAN /\ (section' => table.type \in drawing')
  <2>1. table.type \in ExploreTypes
    BY <1>1 DEF Explore!Records
  <2> QED
    BY <1>1, <1>2, <2>1, DrawMapWaits
<1>4. ~Explore!Settled'
  BY <1>2, <1>3 DEF Explore!Settled
<1>6. Explore!Records'
  BY <1>1, <1>2, <1>3 DEF Explore!Records
<1>8. Explore!ChosenOfTheTable'
  BY <1>1, <1>2, <1>4 DEF Explore!ChosenOfTheTable, Explore!Address
<1>9. Explore!TotalsOfTheKey' /\ Explore!LineOfTheNewest'
  BY <1>1, <1>2 DEF Explore!TotalsOfTheKey, Explore!LineOfTheNewest
<1> QED
  BY <1>4, <1>6, <1>8, <1>9, NotSettled DEF Explore!ExploreInv

\* A choice made on the map, in its panel or by a chip's removal.
LEMMA ExploreSets ==
    ASSUME Explore!ConstantsOK, Explore!ExploreInv, Explore!DrawMap(table, listed), hash' = Explore!Address(table, raw'),
           raw' = [geo |-> raw'.geo, color |-> raw'.color], mapping.type \notin {"", table.type} => raw' = Explore!NoChoice,
           UNCHANGED <<table, card, listed, mapping, gl, fitting, reads, painted, tiles, totals, words>>
    PROVE  Explore!ExploreInv'
<1>1. Explore!Records /\ Explore!TotalsOfTheKey /\ Explore!LineOfTheNewest
  BY DEF Explore!ExploreInv
<1>3. drawing' \subseteq ExploreTypes /\ section' \in BOOLEAN /\ (section' => table.type \in drawing')
  <2>1. table.type \in ExploreTypes
    BY <1>1 DEF Explore!Records
  <2> QED
    BY <1>1, <2>1, DrawMapWaits
<1>4. ~Explore!Settled'
  BY <1>3 DEF Explore!Settled
<1>6. Explore!Records'
  BY <1>1, <1>3 DEF Explore!Records
<1>8. Explore!ChosenOfTheTable'
  BY <1>4 DEF Explore!ChosenOfTheTable, Explore!Address
<1>9. Explore!TotalsOfTheKey' /\ Explore!LineOfTheNewest'
  BY <1>1 DEF Explore!TotalsOfTheKey, Explore!LineOfTheNewest
<1> QED
  BY <1>4, <1>6, <1>8, <1>9, NotSettled DEF Explore!ExploreInv

LEMMA ExploreChooses ==
    ASSUME Explore!ConstantsOK, Explore!ExploreInv, NEW r, Explore!Choose(r)
    PROVE  Explore!ExploreInv'
<1>1. /\ mapping.type = table.type /\ raw' = Explore!Differs(mapping.type, r)
      /\ hash' = Explore!Address(table, raw') /\ Explore!DrawMap(table, listed)
      /\ UNCHANGED <<table, card, listed, mapping, gl, fitting, reads, painted, tiles, totals, words>>
  BY DEF Explore!Choose
<1>2. raw' = [geo |-> raw'.geo, color |-> raw'.color]
  BY <1>1 DEF Explore!Differs
<1>3. mapping.type \notin {"", table.type} => raw' = Explore!NoChoice
  BY <1>1
<1> QED
  BY <1>1, <1>2, <1>3, ExploreSets

LEMMA ExploreUnpicks ==
    ASSUME Explore!ConstantsOK, Explore!ExploreInv, NEW k \in DOMAIN raw, Explore!Unpick(k)
    PROVE  Explore!ExploreInv'
<1>1. /\ raw[k] # "" /\ raw' = [raw EXCEPT ![k] = ""] /\ hash' = Explore!Address(table, raw') /\ Explore!DrawMap(table, listed)
      /\ UNCHANGED <<table, card, listed, mapping, gl, fitting, reads, painted, tiles, totals, words>>
  BY DEF Explore!Unpick
<1>2. raw = [geo |-> raw.geo, color |-> raw.color]
  BY DEF Explore!ExploreInv, Explore!Records
<1>3. k \in {"geo", "color"}
  BY <1>2
<1>4. raw' = [geo |-> raw'.geo, color |-> raw'.color]
  BY <1>1, <1>2, <1>3
<1>5. mapping.type \notin {"", table.type} => raw = Explore!NoChoice
  BY DEF Explore!ExploreInv, Explore!ChosenOfTheTable
<1>6. raw # Explore!NoChoice
  <2>1. Explore!NoChoice["geo"] = "" /\ Explore!NoChoice["color"] = ""
    BY DEF Explore!NoChoice
  <2> QED
    BY <1>1, <1>3, <2>1
<1> QED
  BY <1>1, <1>4, <1>5, <1>6, ExploreSets
\* The mapping drawn is of the choices the model has, and those alone are kept.
LEMMA ChoiceIsKept ==
    ASSUME NEW type, Explore!Model(type), raw = [geo |-> raw.geo, color |-> raw.color],
           raw' = [k \in DOMAIN raw |-> IF k \in Explore!Unknown(type) THEN "" ELSE raw[k]], card' = card
    PROVE  /\ Explore!Choice(type)' = Explore!Choice(type) /\ Explore!Unknown(type)' = {} /\ raw' = [geo |-> raw'.geo, color |-> raw'.color]
           /\ Explore!Unknown(type) = {} => raw' = raw
<1> DEFINE Known(k) == IF k = "geo" THEN Explore!ToSet(ExploreGeos[type]) ELSE Explore!Colours(type)
           NewKnown(k) == IF k = "geo" THEN Explore!ToSet(ExploreGeos[type]) ELSE Explore!Colours(type)'
<1>1. Explore!Colours(type)' = Explore!Colours(type) /\ Explore!DefaultGeo(type)' = Explore!DefaultGeo(type)
  BY DEF Explore!Colours, Explore!DefaultGeo, Explore!Model
<1>2. DOMAIN raw = {"geo", "color"} /\ DOMAIN raw' = {"geo", "color"}
  OBVIOUS
<1>3. Explore!Unknown(type) = {k \in DOMAIN raw : raw[k] # "" /\ raw[k] \notin Known(k)}
  BY Zenon DEF Explore!Unknown
<1>4. Explore!Unknown(type)' = {k \in DOMAIN raw' : raw'[k] # "" /\ raw'[k] \notin Known(k)}
  BY <1>1, Zenon DEF Explore!Unknown
<1> HIDE DEF Known
<1>5. \A k \in {"geo", "color"} : k \in Explore!Unknown(type) <=> raw[k] # "" /\ raw[k] \notin Known(k)
  BY <1>2, <1>3
<1>6. \A k \in {"geo", "color"} : raw'[k] = IF k \in Explore!Unknown(type) THEN "" ELSE raw[k]
  BY <1>2
<1>7. Explore!Unknown(type)' = {}
  BY <1>2, <1>4, <1>5, <1>6
<1>8. raw' = [geo |-> raw'.geo, color |-> raw'.color]
  BY <1>2
<1>9. Explore!Unknown(type) = {} => raw' = raw
  BY <1>2, <1>6, <1>8
<1>10. Explore!Choice(type)' = Explore!Choice(type)
  <2>1. /\ raw'.geo = IF "geo" \in Explore!Unknown(type) THEN "" ELSE raw.geo
        /\ raw'.color = IF "color" \in Explore!Unknown(type) THEN "" ELSE raw.color
    BY <1>6
  <2>2. Explore!Choice(type)' = [type |-> type,
          geo |-> IF raw'.geo = "" THEN Explore!DefaultGeo(type) ELSE raw'.geo,
          color |-> IF raw'.color = "" THEN "type" ELSE raw'.color]
    BY <1>1, <1>7 DEF Explore!Choice
  <2>3. (raw'.geo = "" <=> raw.geo = "" \/ "geo" \in Explore!Unknown(type)) /\ (raw'.color = "" <=> raw.color = "" \/ "color" \in Explore!Unknown(type))
    BY <2>1
  <2> QED
    BY <2>1, <2>2, <2>3 DEF Explore!Choice
<1> QED
  BY <1>7, <1>8, <1>9, <1>10

LEMMA ExploreDraws ==
    ASSUME Explore!ConstantsOK, Explore!ExploreInv, NEW type \in ExploreTypes, Explore!Drawn(type)
    PROVE  Explore!ExploreInv'
<1>1. Explore!Records /\ Explore!TotalsOfTheKey /\ Explore!LineOfTheNewest /\ Explore!MappingOfTheTable /\ Explore!NewestOfTheView /\ Explore!ChosenOfTheTable
  BY DEF Explore!ExploreInv
<1>2. /\ drawing' = drawing \ {type} /\ UNCHANGED <<table, card, listed, infos, painted, words, moves>>
  BY DEF Explore!Drawn
<1>3. CASE table.type # type
  <2>1. UNCHANGED <<raw, hash, section, mapping, gl, fitting, reads, tiles, totals>>
    BY <1>3 DEF Explore!Drawn
  <2>2. Explore!Settled' <=> Explore!Settled
    BY <1>2, <1>3, <2>1 DEF Explore!Settled
  <2>3. Explore!Records'
    BY <1>1, <1>2, <2>1 DEF Explore!Records
  <2>4. Explore!MappingOfTheTable' /\ Explore!TotalsOfTheKey' /\ Explore!LineOfTheNewest'
    BY <1>1, <1>2, <2>1, <2>2 DEF Explore!MappingOfTheTable, Explore!TotalsOfTheKey, Explore!LineOfTheNewest
  <2>5. Explore!NewestOfTheView'
    BY <1>1, <1>2, <2>1, <2>2 DEF Explore!NewestOfTheView, Explore!View
  <2>6. Explore!ChosenOfTheTable'
    BY <1>1, <1>2, <2>1, <2>2 DEF Explore!ChosenOfTheTable, Explore!Choice, Explore!Unknown, Explore!Model, Explore!Colours, Explore!DefaultGeo, Explore!Address
  <2> QED
    BY <2>3, <2>4, <2>5, <2>6 DEF Explore!ExploreInv
<1>4. CASE table.type = type /\ ExploreGeos[type] = <<>>
  <2>1. section' = FALSE /\ UNCHANGED <<raw, hash, mapping, gl, fitting, reads, tiles, totals>>
    BY <1>4 DEF Explore!Drawn
  <2>2. ~Explore!Settled'
    BY <2>1 DEF Explore!Settled
  <2>3. Explore!Records'
    <3>1. section' \in BOOLEAN
      BY <2>1, Zenon
    <3> QED
      BY <1>1, <1>2, <2>1, <3>1 DEF Explore!Records
  <2>6. Explore!ChosenOfTheTable' /\ Explore!TotalsOfTheKey' /\ Explore!LineOfTheNewest'
    BY <1>1, <1>2, <2>1, <2>2 DEF Explore!ChosenOfTheTable, Explore!TotalsOfTheKey, Explore!LineOfTheNewest, Explore!Address
  <2> QED
    BY <2>2, <2>3, <2>6, NotSettled DEF Explore!ExploreInv
<1>5. CASE table.type = type /\ ExploreGeos[type] # <<>>
  <2> DEFINE m == Explore!Choice(type)
  <2>1. /\ section' = TRUE /\ mapping' = m
        /\ raw' = IF Explore!Model(type) THEN [k \in DOMAIN raw |-> IF k \in Explore!Unknown(type) THEN "" ELSE raw[k]] ELSE raw
        /\ hash' = IF Explore!Model(type) /\ Explore!Unknown(type) # {} THEN Explore!Address(table, raw') ELSE hash
        /\ \/ gl.at = "none" /\ gl' = [gl EXCEPT !.at = "waiting"] /\ UNCHANGED <<fitting, reads, tiles, totals>>
           \/ /\ gl.at = "up" /\ mapping.type # "" /\ mapping.geo # m.geo
              /\ fitting' = fitting + 1 /\ UNCHANGED <<gl, reads, tiles, totals>>
           \/ Explore!MapMoved(m) /\ UNCHANGED fitting
    BY <1>5 DEF Explore!Drawn
  <2>2. m.type = type /\ m = [type |-> m.type, geo |-> m.geo, color |-> m.color]
    BY DEF Explore!Choice
  <2>3. raw = [geo |-> raw.geo, color |-> raw.color]
    BY <1>1 DEF Explore!Records
  <2>4. /\ raw' = [geo |-> raw'.geo, color |-> raw'.color] /\ hash' = Explore!Address(table', raw')
        /\ card = type => Explore!Choice(type)' = m /\ Explore!Unknown(type)' = {}
    <3>1. CASE Explore!Model(type)
      BY <1>1, <1>2, <2>1, <2>3, <3>1, ChoiceIsKept DEF Explore!ChosenOfTheTable
    <3>2. CASE ~Explore!Model(type)
      BY <1>1, <1>2, <2>1, <2>3, <3>2 DEF Explore!ChosenOfTheTable, Explore!Model
    <3> QED
      BY <3>1, <3>2
  <2> HIDE DEF m
  <2>5. Explore!ChosenOfTheTable' /\ Explore!MappingOfTheTable'
    BY <1>2, <1>5, <2>1, <2>2, <2>4 DEF Explore!ChosenOfTheTable, Explore!MappingOfTheTable
  <2>6. section' \in BOOLEAN /\ drawing' \subseteq ExploreTypes /\ mapping'.type \in ExploreTypes \cup {""}
        /\ mapping' = [type |-> mapping'.type, geo |-> mapping'.geo, color |-> mapping'.color]
    <3>1. section' \in BOOLEAN
      BY <2>1, Zenon
    <3> QED
      BY <1>1, <1>2, <2>1, <2>2, <3>1 DEF Explore!Records
  <2>7. CASE gl.at = "none" /\ gl' = [gl EXCEPT !.at = "waiting"] /\ UNCHANGED <<fitting, reads, tiles, totals>>
    <3>1. gl' = [at |-> gl'.at, built |-> gl'.built, ask |-> gl'.ask] /\ gl'.ask = gl.ask /\ gl'.at = "waiting"
      BY <1>1, <2>7 DEF Explore!Records
    <3>2. Explore!Records'
      BY <1>1, <1>2, <2>4, <2>6, <2>7, <3>1 DEF Explore!Records
    <3>3. Explore!NewestOfTheView' /\ Explore!TotalsOfTheKey' /\ Explore!LineOfTheNewest'
      BY <1>1, <2>7, <3>1 DEF Explore!NewestOfTheView, Explore!TotalsOfTheKey, Explore!LineOfTheNewest
    <3> QED
      BY <2>5, <3>2, <3>3 DEF Explore!ExploreInv
  <2>8. CASE fitting' = fitting + 1 /\ UNCHANGED <<gl, reads, tiles, totals>>
    <3>1. fitting' \in Nat /\ fitting' # 0
      <4>1. PICK n, o : n = fitting /\ o = fitting'
        OBVIOUS
      <4>2. n \in Nat /\ o = n + 1
        BY <1>1, <2>8, <4>1 DEF Explore!Records
      <4> QED
        BY <4>1, <4>2
    <3>2. Explore!Records'
      BY <1>1, <1>2, <2>4, <2>6, <2>8, <3>1 DEF Explore!Records
    <3>3. Explore!NewestOfTheView' /\ Explore!TotalsOfTheKey' /\ Explore!LineOfTheNewest'
      BY <1>1, <2>8, <3>1 DEF Explore!NewestOfTheView, Explore!TotalsOfTheKey, Explore!LineOfTheNewest
    <3> QED
      BY <2>5, <3>2, <3>3 DEF Explore!ExploreInv
  <2>9. CASE Explore!MapMoved(m) /\ UNCHANGED fitting
    <3>1. m.type # "" /\ m.type = table.type
      BY <1>5, <2>2 DEF Explore!ConstantsOK
    <3>2. Explore!Records' /\ Explore!TotalsOfTheKey' /\ Explore!LineOfTheNewest'
      BY <1>1, <1>2, <2>4, <2>6, <2>9, MapMovedAsks DEF Explore!Records
    <3>3. Explore!NewestOfTheView'
      <4> SUFFICES ASSUME gl'.at = "up"
                   PROVE  /\ totals'.key = [type |-> table.type, q |-> table.q, geo |-> m.geo]
                          /\ tiles'.of # "" => tiles'.of = table.type /\ table.q = "" /\ m.geo = "location"
                          /\ \A read \in reads' : read.ask = gl'.ask => read.view = [type |-> table.type, q |-> table.q, geo |-> m.geo]
                          /\ tiles'.of = "" => \E read \in reads' : read.ask = gl'.ask /\ read.kind = "features"
        BY <1>2, <2>1 DEF Explore!NewestOfTheView, Explore!View
      <4>1. gl.at = "up"
        BY <1>1, <2>9, MapMovedAsks
      <4> QED
        BY <1>1, <2>9, <3>1, <4>1, MapMovedAsks
    <3> QED
      BY <2>5, <3>2, <3>3 DEF Explore!ExploreInv
  <2> QED
    BY <2>1, <2>7, <2>8, <2>9
<1> QED
  BY <1>3, <1>4, <1>5
LEMMA ExploreLists ==
    ASSUME Explore!ConstantsOK, Explore!ExploreInv, NEW answer, Explore!TypesRead(answer)
    PROVE  Explore!ExploreInv'
<1>1. Explore!Records /\ Explore!TotalsOfTheKey /\ Explore!LineOfTheNewest /\ Explore!MappingOfTheTable /\ Explore!NewestOfTheView /\ Explore!ChosenOfTheTable
  BY DEF Explore!ExploreInv
<1>2. UNCHANGED <<table, raw, hash, card, mapping, gl, fitting, reads, painted, tiles, totals, words, moves>>
  BY DEF Explore!TypesRead
<1>3. drawing' \subseteq ExploreTypes /\ section' \in BOOLEAN /\ (Explore!Settled' => Explore!Settled)
  <2>1. CASE answer = "read"
    <3>1. Explore!DrawMap(table, "read") /\ table.type \in ExploreTypes
      BY <1>1, <2>1 DEF Explore!TypesRead, Explore!Records
    <3>2. ~Explore!Settled'
      BY <1>1, <1>2, <3>1, DrawMapWaits DEF Explore!Settled
    <3> QED
      BY <1>1, <3>1, <3>2, DrawMapWaits
  <2>2. CASE answer # "read"
    <3>1. drawing' = drawing /\ section' = section
      BY <2>2 DEF Explore!TypesRead
    <3>2. Explore!Settled' <=> Explore!Settled
      BY <1>2, <3>1 DEF Explore!Settled
    <3> QED
      BY <1>1, <3>1, <3>2 DEF Explore!Records
  <2> QED
    BY <2>1, <2>2
<1>4. Explore!Records'
  BY <1>1, <1>2, <1>3 DEF Explore!Records
<1>5. Explore!MappingOfTheTable' /\ Explore!NewestOfTheView' /\ Explore!TotalsOfTheKey' /\ Explore!LineOfTheNewest'
  BY <1>1, <1>2, <1>3 DEF Explore!MappingOfTheTable, Explore!NewestOfTheView, Explore!TotalsOfTheKey, Explore!LineOfTheNewest, Explore!View
<1>6. Explore!ChosenOfTheTable'
  BY <1>1, <1>2, <1>3 DEF Explore!ChosenOfTheTable, Explore!Choice, Explore!Unknown, Explore!Model, Explore!Colours, Explore!DefaultGeo, Explore!Address
<1> QED
  BY <1>4, <1>5, <1>6 DEF Explore!ExploreInv

\* What leaves the table, its choices and the map's section alone leaves the mapping and the link.
LEMMA ExploreSameChoice ==
    ASSUME Explore!ExploreInv, UNCHANGED <<table, raw, hash, card, drawing, section, mapping>>
    PROVE  Explore!MappingOfTheTable' /\ Explore!ChosenOfTheTable' /\ (Explore!Settled' <=> Explore!Settled) /\ Explore!View' = Explore!View
BY DEF Explore!ExploreInv, Explore!MappingOfTheTable, Explore!ChosenOfTheTable, Explore!Settled, Explore!Choice, Explore!Unknown, Explore!Model, Explore!Colours, Explore!DefaultGeo, Explore!Address, Explore!View

LEMMA ExploreDescribes ==
    ASSUME Explore!ExploreInv, UNCHANGED <<table, raw, hash, card, drawing, section, mapping, gl, fitting, reads, painted, tiles, totals, words>>
    PROVE  Explore!ExploreInv'
<1>1. Explore!Records /\ Explore!TotalsOfTheKey /\ Explore!LineOfTheNewest /\ Explore!NewestOfTheView
  BY DEF Explore!ExploreInv
<1>2. Explore!Records'
  BY <1>1 DEF Explore!Records
<1>3. Explore!NewestOfTheView' /\ Explore!TotalsOfTheKey' /\ Explore!LineOfTheNewest'
  BY <1>1, ExploreSameChoice DEF Explore!NewestOfTheView, Explore!TotalsOfTheKey, Explore!LineOfTheNewest
<1> QED
  BY <1>2, <1>3, ExploreSameChoice DEF Explore!ExploreInv

\* The map's own start: it is not up yet, or its first bounds are asked for.
LEMMA ExploreStartsTheMap ==
    ASSUME Explore!ExploreInv, UNCHANGED <<table, raw, hash, card, drawing, section, mapping, reads, painted, tiles, totals>>,
           gl' = [at |-> gl'.at, built |-> gl'.built, ask |-> gl'.ask], gl'.ask = gl.ask, fitting' \in Nat,
           fitting' # 0 \/ gl'.at # "up"
    PROVE  Explore!ExploreInv'
<1>1. Explore!Records /\ Explore!TotalsOfTheKey /\ Explore!LineOfTheNewest
  BY DEF Explore!ExploreInv
<1>2. Explore!Records'
  BY <1>1 DEF Explore!Records
<1>3. Explore!NewestOfTheView' /\ Explore!TotalsOfTheKey' /\ Explore!LineOfTheNewest'
  BY <1>1 DEF Explore!NewestOfTheView, Explore!TotalsOfTheKey, Explore!LineOfTheNewest
<1> QED
  BY <1>2, <1>3, ExploreSameChoice DEF Explore!ExploreInv

LEMMA ExploreMapComes ==
    ASSUME Explore!ExploreInv, Explore!MapGoes \/ Explore!MapLoads \/ Explore!NoLibrary
    PROVE  Explore!ExploreInv'
<1>1. gl = [at |-> gl.at, built |-> gl.built, ask |-> gl.ask] /\ fitting \in Nat
  BY DEF Explore!ExploreInv, Explore!Records
<1>2. CASE Explore!MapGoes
  <2>1. UNCHANGED <<table, raw, hash, card, drawing, section, mapping, fitting, reads, painted, tiles, totals>>
    BY <1>2 DEF Explore!MapGoes
  <2>2. gl' = [at |-> gl'.at, built |-> gl'.built, ask |-> gl'.ask] /\ gl'.ask = gl.ask /\ gl'.at # "up"
    <3>1. CASE gl' = [gl EXCEPT !.at = "loading"]
      BY <1>1, <3>1
    <3>2. CASE gl' = [gl EXCEPT !.at = "built", !.built = @ + 1]
      BY <1>1, <3>2
    <3> QED
      BY <1>2, <3>1, <3>2 DEF Explore!MapGoes
  <2> QED
    BY <1>1, <2>1, <2>2, ExploreStartsTheMap
<1>3. CASE Explore!MapLoads
  <2>1. UNCHANGED <<table, raw, hash, card, drawing, section, mapping, reads, painted, tiles, totals>>
    BY <1>3 DEF Explore!MapLoads
  <2>2. gl' = [at |-> gl'.at, built |-> gl'.built, ask |-> gl'.ask] /\ gl'.ask = gl.ask
    BY <1>1, <1>3 DEF Explore!MapLoads
  <2>3. PICK n, o : n = fitting /\ o = fitting'
    OBVIOUS
  <2>4. n \in Nat /\ o = n + 1
    BY <1>1, <1>3, <2>3 DEF Explore!MapLoads
  <2>5. fitting' \in Nat /\ fitting' # 0
    BY <2>3, <2>4
  <2> QED
    BY <2>1, <2>2, <2>5, ExploreStartsTheMap
<1>4. CASE Explore!NoLibrary
  <2>1. UNCHANGED <<table, raw, hash, card, drawing, section, mapping, fitting, reads, painted, tiles, totals>>
    BY <1>4 DEF Explore!NoLibrary
  <2>2. gl' = [at |-> gl'.at, built |-> gl'.built, ask |-> gl'.ask] /\ gl'.ask = gl.ask /\ gl'.at # "up"
    BY <1>1, <1>4 DEF Explore!NoLibrary
  <2> QED
    BY <1>1, <2>1, <2>2, ExploreStartsTheMap
<1> QED
  BY <1>2, <1>3, <1>4

LEMMA ExploreFits ==
    ASSUME Explore!ConstantsOK, Explore!ExploreInv, Explore!Fitted \/ Explore!Pan
    PROVE  Explore!ExploreInv'
<1>1. /\ Explore!MapMoved(mapping)
      /\ UNCHANGED <<table, raw, hash, card, listed, infos, drawing, section, mapping, painted, words>>
  BY DEF Explore!Fitted, Explore!Pan
<1>2. fitting' \in Nat
  <2>1. PICK n, o : n = fitting /\ o = fitting'
    OBVIOUS
  <2>2. n \in Nat /\ (o = n \/ (n > 0 /\ o = n - 1))
    BY <2>1 DEF Explore!Fitted, Explore!Pan, Explore!ExploreInv, Explore!Records
  <2> QED
    BY <2>1, <2>2
<1> QED
  BY <1>1, <1>2, MapMovedKeeps

\* The count line is written of the totals of the query, or hidden.
LEMMA CountShows ==
    ASSUME Explore!Records, NEW here, NEW of, of # Explore!NoView => of = totals.key, Explore!ShowsCount(here, of)
    PROVE  /\ totals' = [key |-> totals'.key, asked |-> totals'.asked, of |-> totals'.of, here |-> totals'.here, line |-> totals'.line, lost |-> totals'.lost]
           /\ totals'.key = totals.key /\ totals'.lost = totals.lost /\ totals'.here = here
           /\ totals'.line \in {Explore!NoLine, [here |-> here, of |-> totals'.key]} /\ Explore!TotalsOfTheKey'
<1>1. totals' = [totals EXCEPT !.here = here, !.of = of, !.line = Explore!Line(here, of)]
  BY DEF Explore!ShowsCount
<1>2. Explore!Line(here, of) \in {Explore!NoLine, [here |-> here, of |-> totals.key]}
  BY DEF Explore!Line
<1>3. /\ totals' = [key |-> totals'.key, asked |-> totals'.asked, of |-> totals'.of, here |-> totals'.here, line |-> totals'.line, lost |-> totals'.lost]
      /\ totals'.key = totals.key /\ totals'.lost = totals.lost /\ totals'.here = here /\ totals'.of = of
      /\ totals'.line = Explore!Line(here, of)
  BY <1>1 DEF Explore!Records
<1> QED
  BY <1>2, <1>3 DEF Explore!TotalsOfTheKey

\* A read that ends, whatever it brought.
LEMMA ExploreReadLess ==
    ASSUME Explore!ExploreInv, NEW read \in reads, reads' = reads \ {read},
           UNCHANGED <<table, raw, hash, card, drawing, section, mapping, gl, fitting>>,
           totals' = [key |-> totals'.key, asked |-> totals'.asked, of |-> totals'.of, here |-> totals'.here, line |-> totals'.line, lost |-> totals'.lost],
           totals'.key = totals.key, Explore!TotalsOfTheKey',
           \/ read.ask # gl.ask /\ totals' = totals
           \/ totals'.lost = gl.ask
           \/ totals'.here = gl.ask /\ totals'.line \in {Explore!NoLine, [here |-> gl.ask, of |-> totals'.key]},
           tiles' = [of |-> tiles'.of, known |-> tiles'.known, waits |-> tiles'.waits], tiles'.of = tiles.of,
           \A wait \in tiles'.waits : wait.type \in ExploreTypes,
           IF read.kind = "features" /\ read.ask = gl.ask THEN painted' = read.view \/ words' = "failed"
           ELSE painted' = painted /\ words' = words
    PROVE  Explore!ExploreInv'
<1>1. Explore!Records /\ Explore!LineOfTheNewest /\ Explore!NewestOfTheView
  BY DEF Explore!ExploreInv
<1>2. Explore!Records'
  BY <1>1 DEF Explore!Records
<1>3. Explore!NewestOfTheView'
  <2> SUFFICES ASSUME Explore!Settled', fitting' = 0, gl'.at = "up"
               PROVE  /\ totals'.key = Explore!View
                      /\ tiles'.of # "" => tiles'.of = table.type /\ table.q = "" /\ mapping.geo = "location"
                      /\ \A r \in reads' : r.ask = gl.ask => r.view = Explore!View
                      /\ tiles'.of = "" => painted' = Explore!View \/ words' = "failed" \/ \E r \in reads' : r.ask = gl.ask /\ r.kind = "features"
    BY ExploreSameChoice DEF Explore!NewestOfTheView
  <2>1. /\ totals.key = Explore!View
        /\ tiles.of # "" => tiles.of = table.type /\ table.q = "" /\ mapping.geo = "location"
        /\ \A r \in reads : r.ask = gl.ask => r.view = Explore!View
        /\ tiles.of = "" => painted = Explore!View \/ words = "failed" \/ \E r \in reads : r.ask = gl.ask /\ r.kind = "features"
    BY <1>1, ExploreSameChoice DEF Explore!NewestOfTheView
  <2>2. CASE read.kind = "features" /\ read.ask = gl.ask
    BY <2>1, <2>2
  <2>3. CASE ~(read.kind = "features" /\ read.ask = gl.ask)
    BY <2>1, <2>3
  <2> QED
    BY <2>2, <2>3
<1>4. Explore!LineOfTheNewest'
  <2>1. CASE read.ask # gl.ask /\ totals' = totals
    <3>1. \A r \in reads : r.ask = gl.ask => r \in reads'
      BY <2>1
    <3> QED
      BY <1>1, <2>1, <3>1 DEF Explore!LineOfTheNewest
  <2>2. CASE totals'.lost = gl.ask
    BY <2>2 DEF Explore!LineOfTheNewest
  <2>3. CASE totals'.here = gl.ask /\ totals'.line \in {Explore!NoLine, [here |-> gl.ask, of |-> totals'.key]}
    BY <2>3 DEF Explore!LineOfTheNewest, Explore!NoLine, Explore!NoView
  <2> QED
    BY <2>1, <2>2, <2>3
<1> QED
  BY <1>2, <1>3, <1>4, ExploreSameChoice DEF Explore!ExploreInv

LEMMA ExploreReads ==
    ASSUME Explore!ExploreInv, NEW read \in reads, Explore!Features(read) \/ Explore!CountRead(read) \/ Explore!ReadEnds(read)
    PROVE  Explore!ExploreInv'
<1>1. /\ tiles = [of |-> tiles.of, known |-> tiles.known, waits |-> tiles.waits] /\ \A wait \in tiles.waits : wait.type \in ExploreTypes
      /\ read = [ask |-> read.ask, kind |-> read.kind, view |-> read.view] /\ table.type \in ExploreTypes
  BY DEF Explore!ExploreInv, Explore!Records
<1>2. reads' = reads \ {read} /\ UNCHANGED <<table, raw, hash, card, drawing, section, mapping, gl, fitting>>
  BY DEF Explore!Features, Explore!CountRead, Explore!ReadEnds
<1>5. /\ totals = [key |-> totals.key, asked |-> totals.asked, of |-> totals.of, here |-> totals.here, line |-> totals.line, lost |-> totals.lost]
      /\ Explore!TotalsOfTheKey /\ Explore!Records
  BY DEF Explore!ExploreInv, Explore!Records
<1>6. ASSUME IF read.ask = gl.ask THEN Explore!ShowsCount(read.ask, totals.of) ELSE UNCHANGED totals
      PROVE  /\ totals' = [key |-> totals'.key, asked |-> totals'.asked, of |-> totals'.of, here |-> totals'.here, line |-> totals'.line, lost |-> totals'.lost]
             /\ totals'.key = totals.key /\ Explore!TotalsOfTheKey'
             /\ \/ read.ask # gl.ask /\ totals' = totals
                \/ totals'.here = gl.ask /\ totals'.line \in {Explore!NoLine, [here |-> gl.ask, of |-> totals'.key]}
  <2>1. totals.of # Explore!NoView => totals.of = totals.key
    BY <1>5 DEF Explore!TotalsOfTheKey
  <2>2. CASE read.ask = gl.ask
    BY <1>5, <1>6, <2>1, <2>2, CountShows
  <2>3. CASE read.ask # gl.ask
    BY <1>5, <1>6, <2>3 DEF Explore!TotalsOfTheKey
  <2> QED
    BY <2>2, <2>3
<1>3. CASE Explore!ReadEnds(read)
  <2>1. UNCHANGED <<painted, tiles>> /\ words' = IF read.kind = "features" /\ read.ask = gl.ask THEN "failed" ELSE words
    BY <1>3 DEF Explore!ReadEnds, Explore!Newest
  <2>2. totals' = IF read.ask = gl.ask THEN [totals EXCEPT !.lost = read.ask] ELSE totals
    BY <1>3 DEF Explore!ReadEnds, Explore!Newest
  <2>3. /\ totals' = [key |-> totals'.key, asked |-> totals'.asked, of |-> totals'.of, here |-> totals'.here, line |-> totals'.line, lost |-> totals'.lost]
        /\ totals'.key = totals.key /\ Explore!TotalsOfTheKey'
        /\ (read.ask # gl.ask /\ totals' = totals) \/ totals'.lost = gl.ask
    BY <1>5, <2>2 DEF Explore!TotalsOfTheKey
  <2> QED
    BY <1>1, <1>2, <2>1, <2>3, ExploreReadLess
<1>7. CASE Explore!CountRead(read)
  <2>1. UNCHANGED <<painted, words, tiles>> /\ read.kind # "features"
    BY <1>7 DEF Explore!CountRead
  <2>2. IF read.ask = gl.ask THEN Explore!ShowsCount(read.ask, totals.of) ELSE UNCHANGED totals
    BY <1>7 DEF Explore!CountRead, Explore!Newest
  <2> QED
    BY <1>1, <1>2, <1>6, <2>1, <2>2, ExploreReadLess
<1>4. CASE Explore!Features(read)
  <2>1. read.kind = "features" /\ IF read.ask = gl.ask THEN painted' = read.view ELSE UNCHANGED <<painted, words>>
    BY <1>4 DEF Explore!Features, Explore!Newest
  <2>2. UNCHANGED tiles \/ Explore!AsksTiles(read.ask, table.type)
    BY <1>4 DEF Explore!Features
  <2>4. IF read.ask = gl.ask THEN Explore!ShowsCount(read.ask, totals.of) ELSE UNCHANGED totals
    BY <1>4 DEF Explore!Features, Explore!Newest
  <2>3. /\ tiles' = [of |-> tiles'.of, known |-> tiles'.known, waits |-> tiles'.waits] /\ tiles'.of = tiles.of
        /\ \A wait \in tiles'.waits : wait.type \in ExploreTypes
    <3>1. CASE UNCHANGED tiles
      BY <1>1, <3>1
    <3>2. CASE Explore!AsksTiles(read.ask, table.type)
      <4> DEFINE now == [ask |-> read.ask, type |-> table.type]
      <4>1. PICK known : tiles' = [tiles EXCEPT !.waits = @ \cup {now}, !.known = known]
        <5> DEFINE known == [tiles.known EXCEPT ![table.type] = IF @ = "none" THEN "asked" ELSE @]
        <5>1. tiles' = [tiles EXCEPT !.waits = @ \cup {now}, !.known = known]
          BY <1>1, <3>2 DEF Explore!AsksTiles
        <5> QED
          BY <5>1
      <4>2. now.type \in ExploreTypes
        BY <1>1
      <4> HIDE DEF now
      <4>3. /\ tiles' = [of |-> tiles'.of, known |-> tiles'.known, waits |-> tiles'.waits] /\ tiles'.of = tiles.of
            /\ tiles'.waits = tiles.waits \cup {now}
        BY <1>1, <4>1
      <4> QED
        BY <1>1, <4>2, <4>3
    <3> QED
      BY <2>2, <3>1, <3>2
  <2> QED
    BY <1>2, <1>6, <2>1, <2>3, <2>4, ExploreReadLess
<1> QED
  BY <1>3, <1>4, <1>7
LEMMA ExploreTiles ==
    ASSUME Explore!ExploreInv, Explore!ConstantsOK, NEW wait \in tiles.waits, Explore!Tiled(wait)
    PROVE  Explore!ExploreInv'
<1>1. Explore!Records /\ Explore!TotalsOfTheKey /\ Explore!LineOfTheNewest /\ Explore!NewestOfTheView
  BY DEF Explore!ExploreInv
<1>2. UNCHANGED <<table, raw, hash, card, drawing, section, mapping, gl, fitting, reads>>
  BY DEF Explore!Tiled
<1>3. tiles = [of |-> tiles.of, known |-> tiles.known, waits |-> tiles.waits] /\ wait.type \in ExploreTypes /\ wait.type # ""
  BY <1>1 DEF Explore!Records, Explore!ConstantsOK
<1>4. CASE Explore!TilesFit(wait.type) /\ tiles.of # wait.type
  <2>1. tiles' = [tiles EXCEPT !.of = wait.type, !.waits = @ \ {wait}] /\ painted' = Explore!NoView
        /\ Explore!ShowsCount(totals.here, totals.of)
    BY <1>4 DEF Explore!Tiled
  <2>5. totals.of # Explore!NoView => totals.of = totals.key
    BY <1>1 DEF Explore!TotalsOfTheKey
  <2>6. /\ totals' = [key |-> totals'.key, asked |-> totals'.asked, of |-> totals'.of, here |-> totals'.here, line |-> totals'.line, lost |-> totals'.lost]
        /\ totals'.key = totals.key /\ totals'.lost = totals.lost /\ totals'.here = totals.here
        /\ totals'.line \in {Explore!NoLine, [here |-> totals.here, of |-> totals'.key]} /\ Explore!TotalsOfTheKey'
    BY <1>1, <2>1, <2>5, CountShows
  <2>7. Explore!LineOfTheNewest'
    BY <1>1, <1>2, <2>6 DEF Explore!LineOfTheNewest
  <2>2. /\ tiles' = [of |-> tiles'.of, known |-> tiles'.known, waits |-> tiles'.waits]
        /\ tiles'.of = wait.type /\ tiles'.waits \subseteq tiles.waits
    BY <1>3, <2>1
  <2>3. Explore!Records'
    BY <1>1, <1>2, <1>3, <2>2, <2>6 DEF Explore!Records
  <2>4. Explore!NewestOfTheView'
    BY <1>1, <1>2, <1>3, <1>4, <2>2, <2>6, ExploreSameChoice DEF Explore!NewestOfTheView, Explore!TilesFit
  <2> QED
    BY <1>2, <2>3, <2>4, <2>6, <2>7, ExploreSameChoice DEF Explore!ExploreInv
<1>5. CASE ~(Explore!TilesFit(wait.type) /\ tiles.of # wait.type)
  <2>1. tiles' = [tiles EXCEPT !.waits = @ \ {wait}] /\ painted' = painted /\ totals' = totals
    BY <1>5 DEF Explore!Tiled
  <2>2. /\ tiles' = [of |-> tiles'.of, known |-> tiles'.known, waits |-> tiles'.waits]
        /\ tiles'.of = tiles.of /\ tiles'.waits \subseteq tiles.waits
    BY <1>3, <2>1
  <2>3. tiles.of = "" => words' = words
    BY <1>3, <2>2 DEF Explore!Tiled
  <2>4. Explore!Records'
    BY <1>1, <1>2, <1>3, <2>1, <2>2 DEF Explore!Records
  <2>5. Explore!NewestOfTheView'
    BY <1>1, <1>2, <2>1, <2>2, <2>3, ExploreSameChoice DEF Explore!NewestOfTheView
  <2> QED
    BY <1>1, <1>2, <2>1, <2>4, <2>5, ExploreSameChoice DEF Explore!ExploreInv, Explore!TotalsOfTheKey, Explore!LineOfTheNewest
<1> QED
  BY <1>4, <1>5

LEMMA ExploreAnswers ==
    ASSUME Explore!ExploreInv, NEW type, NEW answer, Explore!TilesetRead(type, answer)
    PROVE  Explore!ExploreInv'
<1>1. Explore!Records /\ Explore!TotalsOfTheKey /\ Explore!LineOfTheNewest /\ Explore!NewestOfTheView
  BY DEF Explore!ExploreInv
<1>2. UNCHANGED <<table, raw, hash, card, drawing, section, mapping, gl, fitting, reads, totals, painted, words>>
  BY DEF Explore!TilesetRead
<1>3. tiles' = [of |-> tiles'.of, known |-> tiles'.known, waits |-> tiles'.waits] /\ tiles'.of = tiles.of /\ tiles'.waits = tiles.waits
  <2>1. tiles = [of |-> tiles.of, known |-> tiles.known, waits |-> tiles.waits]
    BY <1>1 DEF Explore!Records
  <2>2. PICK known : tiles' = [tiles EXCEPT !.known = known]
    <3> DEFINE known == [tiles.known EXCEPT ![type] = answer]
    <3>1. tiles' = [tiles EXCEPT !.known = known]
      BY <2>1 DEF Explore!TilesetRead
    <3> QED
      BY <3>1
  <2> QED
    BY <2>1, <2>2
<1>4. Explore!Records'
  BY <1>1, <1>2, <1>3 DEF Explore!Records
<1>5. Explore!NewestOfTheView'
  BY <1>1, <1>2, <1>3, ExploreSameChoice DEF Explore!NewestOfTheView
<1> QED
  BY <1>1, <1>2, <1>4, <1>5, ExploreSameChoice DEF Explore!ExploreInv, Explore!TotalsOfTheKey, Explore!LineOfTheNewest

LEMMA ExploreCounts ==
    ASSUME Explore!ExploreInv, NEW view, Explore!NoTotals(view) \/ \E told \in BOOLEAN : Explore!Totals(view, told)
    PROVE  Explore!ExploreInv'
<1>1. Explore!Records /\ Explore!TotalsOfTheKey /\ Explore!LineOfTheNewest /\ Explore!NewestOfTheView
  BY DEF Explore!ExploreInv
<1>2. UNCHANGED <<table, raw, hash, card, listed, drawing, section, mapping, gl, fitting, reads, tiles, painted, words>>
  BY DEF Explore!Totals, Explore!NoTotals
<1>3. totals = [key |-> totals.key, asked |-> totals.asked, of |-> totals.of, here |-> totals.here, line |-> totals.line, lost |-> totals.lost]
  BY <1>1 DEF Explore!Records
<1>4. /\ totals' = [key |-> totals'.key, asked |-> totals'.asked, of |-> totals'.of, here |-> totals'.here, line |-> totals'.line, lost |-> totals'.lost]
      /\ totals'.key = totals.key /\ Explore!TotalsOfTheKey' /\ Explore!LineOfTheNewest'
  <2>1. CASE totals' = [totals EXCEPT !.asked = @ \ {view}]
    <3>1. /\ totals' = [key |-> totals'.key, asked |-> totals'.asked, of |-> totals'.of, here |-> totals'.here, line |-> totals'.line, lost |-> totals'.lost]
          /\ totals'.key = totals.key /\ totals'.of = totals.of /\ totals'.here = totals.here /\ totals'.line = totals.line
          /\ totals'.lost = totals.lost
      BY <1>3, <2>1
    <3> QED
      BY <1>1, <1>2, <3>1 DEF Explore!TotalsOfTheKey, Explore!LineOfTheNewest
  <2>2. ASSUME NEW of, of # Explore!NoView => of = totals.key,
               totals' = [totals EXCEPT !.asked = @ \ {view}, !.of = of, !.line = Explore!Line(totals.here, of)]
        PROVE  /\ totals' = [key |-> totals'.key, asked |-> totals'.asked, of |-> totals'.of, here |-> totals'.here, line |-> totals'.line, lost |-> totals'.lost]
               /\ totals'.key = totals.key /\ Explore!TotalsOfTheKey' /\ Explore!LineOfTheNewest'
    <3>1. /\ totals' = [key |-> totals'.key, asked |-> totals'.asked, of |-> totals'.of, here |-> totals'.here, line |-> totals'.line, lost |-> totals'.lost]
          /\ totals'.key = totals.key /\ totals'.of = of /\ totals'.here = totals.here /\ totals'.lost = totals.lost
          /\ totals'.line = Explore!Line(totals.here, of)
      BY <1>3, <2>2
    <3>2. Explore!Line(totals.here, of) \in {Explore!NoLine, [here |-> totals.here, of |-> totals.key]}
      BY <2>2 DEF Explore!Line
    <3> QED
      BY <1>1, <1>2, <2>2, <3>1, <3>2 DEF Explore!TotalsOfTheKey, Explore!LineOfTheNewest
  <2>3. CASE Explore!NoTotals(view)
    BY <2>1, <2>3 DEF Explore!NoTotals
  <2>4. ASSUME NEW told \in BOOLEAN, Explore!Totals(view, told)
        PROVE  /\ totals' = [key |-> totals'.key, asked |-> totals'.asked, of |-> totals'.of, here |-> totals'.here, line |-> totals'.line, lost |-> totals'.lost]
               /\ totals'.key = totals.key /\ Explore!TotalsOfTheKey' /\ Explore!LineOfTheNewest'
    <3> DEFINE of == IF told THEN view ELSE Explore!NoView
    <3>1. totals' = IF totals.key = view
                    THEN [totals EXCEPT !.asked = @ \ {view}, !.of = of, !.line = Explore!Line(totals.here, of)]
                    ELSE [totals EXCEPT !.asked = @ \ {view}]
      BY <2>4, Zenon DEF Explore!Totals, Explore!TotalsFit
    <3>2. totals.key = view => (of # Explore!NoView => of = totals.key)
      OBVIOUS
    <3> HIDE DEF of
    <3> QED
      BY <2>1, <2>2, <3>1, <3>2
  <2> QED
    BY <2>3, <2>4
<1>5. Explore!Records'
  BY <1>1, <1>2, <1>4 DEF Explore!Records
<1>6. Explore!NewestOfTheView'
  BY <1>1, <1>2, <1>4, ExploreSameChoice DEF Explore!NewestOfTheView
<1> QED
  BY <1>2, <1>4, <1>5, <1>6, ExploreSameChoice DEF Explore!ExploreInv

LEMMA ExploreSteps ==
    ASSUME Explore!ConstantsOK, Explore!ExploreInv, [Explore!Next]_(Explore!vars)
    PROVE  Explore!ExploreInv'
<1>1. CASE \E t \in ExploreTypes : Explore!Drawn(t) \/ Explore!InfoRead(t) \/ Explore!OnCard(t) \/ \E answer \in {"yes", "no"} : Explore!TilesetRead(t, answer)
  <2>1. PICK t \in ExploreTypes : Explore!Drawn(t) \/ Explore!InfoRead(t) \/ Explore!OnCard(t) \/ \E answer \in {"yes", "no"} : Explore!TilesetRead(t, answer)
    BY <1>1
  <2>2. CASE Explore!InfoRead(t)
    BY <2>2, ExploreDescribes DEF Explore!InfoRead
  <2> QED
    BY <2>1, <2>2, ExploreDraws, ExploreCards, ExploreAnswers
<1>2. CASE \E answer \in {"read", "failed"} : Explore!TypesRead(answer)
  BY <1>2, ExploreLists
<1>3. CASE Explore!MapGoes \/ Explore!MapLoads \/ Explore!NoLibrary \/ Explore!Fitted \/ Explore!Pan
  BY <1>3, ExploreMapComes, ExploreFits
<1>4. CASE \E read \in reads : Explore!Features(read) \/ Explore!CountRead(read) \/ Explore!ReadEnds(read)
  BY <1>4, ExploreReads
<1>5. CASE \E wait \in tiles.waits : Explore!Tiled(wait)
  BY <1>5, ExploreTiles
<1>6. CASE \E view \in totals.asked : Explore!NoTotals(view) \/ \E told \in BOOLEAN : Explore!Totals(view, told)
  BY <1>6, ExploreCounts
<1>7. CASE \E next \in [type : ExploreTypes, q : ExploreQueries] : Explore!OnLink(next)
  BY <1>7, ExploreTheLinks
<1>8. CASE (\E r \in Explore!Settings : Explore!Choose(r)) \/ (\E k \in DOMAIN raw : Explore!Unpick(k))
  BY <1>8, ExploreChooses, ExploreUnpicks
<1>9. CASE UNCHANGED Explore!vars
  BY <1>9, ExploreDescribes DEF Explore!vars
<1> QED
  BY <1>1, <1>2, <1>3, <1>4, <1>5, <1>6, <1>7, <1>8, <1>9 DEF Explore!Next

\* With every answer in the map is the table's, its count line too, and the link opens the view.
LEMMA ExploreShows ==
    ASSUME Explore!ExploreInv
    PROVE  Explore!MapFollowsTheTable /\ Explore!CountLineOfTheView /\ Explore!LinkIsTheView
<1>1. Explore!NewestOfTheView /\ Explore!ChosenOfTheTable /\ Explore!LineOfTheNewest
  BY DEF Explore!ExploreInv
<1>2. Explore!MapFollowsTheTable
  BY <1>1 DEF Explore!NewestOfTheView, Explore!MapFollowsTheTable, Explore!Quiet, Explore!Settled
<1>3. Explore!LinkIsTheView
  BY <1>1 DEF Explore!ChosenOfTheTable, Explore!LinkIsTheView, Explore!Settled
<1>4. Explore!CountLineOfTheView
  <2> SUFFICES ASSUME Explore!Quiet, gl.at = "up", section, totals.lost # gl.ask
               PROVE  totals.line = Explore!NoLine \/ totals.line = [here |-> gl.ask, of |-> Explore!View]
    BY DEF Explore!CountLineOfTheView
  <2>1. reads = {} /\ fitting = 0 /\ drawing = {}
    BY DEF Explore!Quiet
  <2>2. totals.key = Explore!View
    BY <1>1, <2>1 DEF Explore!NewestOfTheView, Explore!Settled
  <2> QED
    BY <1>1, <2>1, <2>2 DEF Explore!LineOfTheNewest
<1> QED
  BY <1>2, <1>3, <1>4

(***************************************************************************)
(* The events and their map (EventList).                                   *)
(***************************************************************************)
LEMMA CardIsDrawn ==
    ASSUME NEW c, NEW option, NEW loading, c.canvas => c.drawn = c.option
    PROVE  Agenda!ChartCard(c, option, loading).canvas => Agenda!ChartCard(c, option, loading).drawn = Agenda!ChartCard(c, option, loading).option
<1> DEFINE canvas == ~loading /\ option # Agenda!Nothing
<1>1. Agenda!ChartCard(c, option, loading) = [canvas |-> canvas, option |-> option, drawn |-> Agenda!Drawn(c, canvas, option)]
  BY DEF Agenda!ChartCard
<1>2. canvas => Agenda!Drawn(c, canvas, option) = option
  <2>1. CASE option = c.option /\ canvas = c.canvas
    BY <2>1 DEF Agenda!Drawn
  <2>2. CASE ~(option = c.option /\ canvas = c.canvas)
    BY <2>2 DEF Agenda!Drawn
  <2> QED
    BY <2>1, <2>2
<1> HIDE DEF canvas
<1> QED
  BY <1>1, <1>2

\* A map that is ready holds the rows, in its source or in its overlay; once fitted its camera stays.
LEMMA EntityMapDraws ==
    ASSUME NEW m, m = [ready |-> m.ready, source |-> m.source, overlay |-> m.overlay, fitted |-> m.fitted, camera |-> m.camera],
           NEW rows
    PROVE  LET d == Agenda!EntityMap(m, rows) IN
           /\ d = [ready |-> d.ready, source |-> d.source, overlay |-> d.overlay, fitted |-> d.fitted, camera |-> d.camera]
           /\ d.ready = m.ready
           /\ m.ready => d.source \cup d.overlay = rows /\ {} \in {d.source, d.overlay}
           /\ m.fitted => d.fitted /\ d.camera = m.camera
<1> DEFINE laid == Agenda!Painted(m, rows)
<1>1. /\ laid = [ready |-> laid.ready, source |-> laid.source, overlay |-> laid.overlay, fitted |-> laid.fitted, camera |-> laid.camera]
      /\ laid.ready = m.ready /\ laid.fitted = m.fitted /\ laid.camera = m.camera
      /\ laid.source \cup laid.overlay = rows /\ {} \in {laid.source, laid.overlay}
  <2>1. laid = [m EXCEPT !.overlay = {}, !.source = rows] \/ laid = [m EXCEPT !.source = {}, !.overlay = rows]
    BY DEF Agenda!Painted
  <2> HIDE DEF laid
  <2>2. CASE laid = [m EXCEPT !.overlay = {}, !.source = rows]
    BY <2>2
  <2>3. CASE laid = [m EXCEPT !.source = {}, !.overlay = rows]
    BY <2>3
  <2> QED
    BY <2>1, <2>2, <2>3
<1>2. Agenda!EntityMap(m, rows) = IF m.ready THEN Agenda!Fits(laid, rows) ELSE m
  BY DEF Agenda!EntityMap
<1> HIDE DEF laid
<1>3. Agenda!Fits(laid, rows) = IF ~laid.fitted /\ rows # {} THEN [laid EXCEPT !.fitted = TRUE, !.camera = rows] ELSE laid
  BY DEF Agenda!Fits
<1>4. CASE m.ready
  <2>1. PICK d : d = Agenda!EntityMap(m, rows)
    OBVIOUS
  <2>2. d = laid \/ (~laid.fitted /\ d = [laid EXCEPT !.fitted = TRUE, !.camera = rows])
    BY <1>2, <1>3, <1>4, <2>1
  <2>3. CASE d = laid
    BY <1>1, <1>4, <2>1, <2>3
  <2>4. CASE ~laid.fitted /\ d = [laid EXCEPT !.fitted = TRUE, !.camera = rows]
    BY <1>1, <1>4, <2>1, <2>4
  <2> QED
    BY <2>2, <2>3, <2>4
<1>5. CASE ~m.ready
  BY <1>2, <1>5
<1> QED
  BY <1>4, <1>5

LEMMA AgendaStarts ==
    ASSUME Agenda!Init
    PROVE  Agenda!AgendaInv
<1>1. /\ server = [days |-> Agenda!NoChart, registers |-> Agenda!NoChart, map |-> Agenda!NoMap]
      /\ seen = [inputs |-> 0, moved |-> FALSE]
  BY DEF Agenda!Init
<1>2. server = [days |-> server.days, registers |-> server.registers, map |-> server.map] /\ server.map = Agenda!NoMap
      /\ server.days.canvas = FALSE /\ server.registers.canvas = FALSE
  BY <1>1 DEF Agenda!NoChart
<1>3. /\ Agenda!NoMap = [ready |-> Agenda!NoMap.ready, source |-> Agenda!NoMap.source, overlay |-> Agenda!NoMap.overlay, fitted |-> Agenda!NoMap.fitted, camera |-> Agenda!NoMap.camera]
      /\ Agenda!NoMap.ready = FALSE
  BY DEF Agenda!NoMap
<1>4. seen = [inputs |-> seen.inputs, moved |-> seen.moved] /\ seen.moved = FALSE
  BY <1>1
<1> QED
  BY <1>2, <1>3, <1>4 DEF Agenda!AgendaInv, Agenda!DrawnIsShown

\* Every turn of the page ends with what is shown drawn.
LEMMA ShowsAreDrawn ==
    ASSUME Agenda!AgendaInv, NEW p, Agenda!Shows(p), seen' = [inputs |-> seen'.inputs, moved |-> seen'.moved], seen'.moved = seen.moved
    PROVE  Agenda!AgendaInv'
<1> DEFINE days == Agenda!ChartCard(server.days, Agenda!DayBars(p), Agenda!Waiting(p))
           registers == Agenda!ChartCard(server.registers, Agenda!RegisterBars(p), Agenda!Waiting(p))
           map == Agenda!EntityMap(server.map, Agenda!Mapped(p))
<1>1. page' = p /\ server' = [days |-> days, registers |-> registers, map |-> map]
  BY DEF Agenda!Shows, Agenda!Renders
<1>2. (days.canvas => days.drawn = days.option) /\ (registers.canvas => registers.drawn = registers.option)
  BY CardIsDrawn DEF Agenda!AgendaInv, Agenda!DrawnIsShown
<1>3. /\ map = [ready |-> map.ready, source |-> map.source, overlay |-> map.overlay, fitted |-> map.fitted, camera |-> map.camera]
      /\ map.ready = server.map.ready
      /\ server.map.ready => map.source \cup map.overlay = Agenda!Mapped(p) /\ {} \in {map.source, map.overlay}
      /\ server.map.fitted => map.fitted /\ map.camera = server.map.camera
  BY EntityMapDraws DEF Agenda!AgendaInv
<1>4. Agenda!Mapped(page)' = Agenda!Mapped(p)
  BY <1>1 DEF Agenda!Mapped, Agenda!Shown, Agenda!Ranged, Agenda!Located, Agenda!FilterEvents, Agenda!Overlaps, Agenda!OnDay, Agenda!DaysOf
<1> HIDE DEF days, registers, map
<1>5. server'.days = days /\ server'.registers = registers /\ server'.map = map
      /\ server' = [days |-> server'.days, registers |-> server'.registers, map |-> server'.map]
  BY <1>1
<1>6. /\ map.ready => map.source \cup map.overlay = Agenda!Mapped(page)' /\ {} \in {map.source, map.overlay}
      /\ seen'.moved => map.fitted /\ map.camera = {Agenda!None}
  BY <1>3, <1>4 DEF Agenda!AgendaInv, Agenda!DrawnIsShown
<1>7. Agenda!DrawnIsShown'
  BY <1>2, <1>5, <1>6 DEF Agenda!DrawnIsShown
<1> QED
  BY <1>3, <1>5, <1>6, <1>7 DEF Agenda!AgendaInv

LEMMA AgendaMapComes ==
    ASSUME Agenda!AgendaInv, Agenda!MapLoads \/ Agenda!MapMoved \/ Agenda!MapReady
    PROVE  Agenda!AgendaInv'
<1>1. page' = page
  BY DEF Agenda!MapLoads, Agenda!MapMoved, Agenda!MapReady
<1>2. Agenda!Mapped(page)' = Agenda!Mapped(page)
  BY <1>1 DEF Agenda!Mapped, Agenda!Shown, Agenda!Ranged, Agenda!Located, Agenda!FilterEvents, Agenda!Overlaps, Agenda!OnDay, Agenda!DaysOf
<1>3. CASE Agenda!MapReady
  BY <1>2, <1>3 DEF Agenda!AgendaInv, Agenda!DrawnIsShown, Agenda!MapReady
<1>4. CASE Agenda!MapMoved
  <2>1. server' = [server EXCEPT !.map.camera = {Agenda!None}] /\ server.map.fitted /\ seen' = [inputs |-> seen.inputs + 1, moved |-> TRUE]
    BY <1>4 DEF Agenda!MapMoved
  <2>2. PICK map : map = [server.map EXCEPT !.camera = {Agenda!None}]
    OBVIOUS
  <2>3. server' = [server EXCEPT !.map = map]
    BY <2>1, <2>2 DEF Agenda!AgendaInv
  <2>4. /\ server'.map = map /\ server'.days = server.days /\ server'.registers = server.registers
        /\ server' = [days |-> server'.days, registers |-> server'.registers, map |-> server'.map]
    BY <2>3 DEF Agenda!AgendaInv
  <2>5. /\ map = [ready |-> map.ready, source |-> map.source, overlay |-> map.overlay, fitted |-> map.fitted, camera |-> map.camera]
        /\ map.camera = {Agenda!None} /\ map.fitted = server.map.fitted /\ map.ready = server.map.ready
        /\ map.source = server.map.source /\ map.overlay = server.map.overlay
    BY <2>2 DEF Agenda!AgendaInv
  <2>6. seen' = [inputs |-> seen'.inputs, moved |-> seen'.moved]
    BY <2>1
  <2>7. Agenda!DrawnIsShown'
    BY <1>2, <2>4, <2>5 DEF Agenda!AgendaInv, Agenda!DrawnIsShown
  <2> QED
    BY <2>1, <2>4, <2>5, <2>6, <2>7 DEF Agenda!AgendaInv
<1>5. CASE Agenda!MapLoads
  <2>6. PICK m : m = [server.map EXCEPT !.ready = TRUE]
    OBVIOUS
  <2> DEFINE map == Agenda!EntityMap(m, Agenda!Mapped(page))
  <2>1. server' = [server EXCEPT !.map = map] /\ seen' = seen
    BY <1>5, <2>6 DEF Agenda!MapLoads
  <2>2. /\ m = [ready |-> m.ready, source |-> m.source, overlay |-> m.overlay, fitted |-> m.fitted, camera |-> m.camera]
        /\ m.ready = TRUE /\ m.fitted = server.map.fitted /\ m.camera = server.map.camera
    BY <2>6 DEF Agenda!AgendaInv
  <2>3. /\ map = [ready |-> map.ready, source |-> map.source, overlay |-> map.overlay, fitted |-> map.fitted, camera |-> map.camera]
        /\ map.source \cup map.overlay = Agenda!Mapped(page) /\ {} \in {map.source, map.overlay}
        /\ m.fitted => map.fitted /\ map.camera = m.camera
    BY <2>2, EntityMapDraws
  <2> HIDE DEF map
  <2>4. /\ server'.map = map /\ server'.days = server.days /\ server'.registers = server.registers
        /\ server' = [days |-> server'.days, registers |-> server'.registers, map |-> server'.map]
    BY <2>1 DEF Agenda!AgendaInv
  <2>5. Agenda!DrawnIsShown'
    BY <1>2, <2>1, <2>2, <2>3, <2>4 DEF Agenda!AgendaInv, Agenda!DrawnIsShown
  <2> QED
    BY <2>1, <2>2, <2>3, <2>4, <2>5 DEF Agenda!AgendaInv
<1> QED
  BY <1>3, <1>4, <1>5

LEMMA AgendaSteps ==
    ASSUME Agenda!AgendaInv, [Agenda!Next]_(Agenda!vars)
    PROVE  Agenda!AgendaInv'
<1>1. seen = [inputs |-> seen.inputs, moved |-> seen.moved]
  BY DEF Agenda!AgendaInv
<1>2. ASSUME Agenda!Input
      PROVE  seen' = [inputs |-> seen'.inputs, moved |-> seen'.moved] /\ seen'.moved = seen.moved
  <2>1. seen' = [seen EXCEPT !.inputs = @ + 1]
    BY <1>2 DEF Agenda!Input
  <2> QED
    BY <1>1, <2>1
<1>3. ASSUME NEW p, Agenda!Turn(p)
      PROVE  Agenda!AgendaInv'
  <2>1. Agenda!Shows(p) /\ Agenda!Input
    BY <1>3 DEF Agenda!Turn
  <2> QED
    BY <1>2, <2>1, ShowsAreDrawn
<1>4. CASE \E rows \in SUBSET Agenda!Ids, ok \in BOOLEAN : Agenda!RowsArrive(rows, ok)
  <2>1. PICK rows, ok : Agenda!RowsArrive(rows, ok)
    BY <1>4
  <2>2. seen' = seen /\ \E p : Agenda!Shows(p)
    BY <2>1 DEF Agenda!RowsArrive
  <2> QED
    BY <1>1, <2>2, ShowsAreDrawn
<1>5. CASE Agenda!Retry
  <2>1. Agenda!Input /\ \E p : Agenda!Shows(p)
    BY <1>5 DEF Agenda!Retry
  <2> QED
    BY <1>2, <2>1, ShowsAreDrawn
<1>6. CASE Agenda!MapReady \/ Agenda!MapLoads \/ Agenda!MapMoved
  BY <1>6, AgendaMapComes
<1>7. CASE Agenda!LetGo
  BY <1>3, <1>7 DEF Agenda!LetGo
<1>8. CASE Agenda!Reset
  BY <1>3, <1>8 DEF Agenda!Reset
<1>9. CASE \E finds \in AgendaFinds : Agenda!Search(finds)
  BY <1>3, <1>9 DEF Agenda!Search
<1>10. CASE \E day \in 0..AgendaDays : Agenda!From(day) \/ Agenda!To(day) \/ Agenda!PickDay(day)
  BY <1>3, <1>10 DEF Agenda!From, Agenda!To, Agenda!PickDay
<1>11. CASE \E r \in {AgendaEvents[id].register : id \in Agenda!Ids} : Agenda!PickRegister(r)
  BY <1>3, <1>11 DEF Agenda!PickRegister
<1>12. CASE \E id \in Agenda!Ids : Agenda!Open(id)
  BY <1>3, <1>12 DEF Agenda!Open
<1>13. CASE UNCHANGED Agenda!vars
  BY <1>13 DEF Agenda!vars, Agenda!AgendaInv, Agenda!DrawnIsShown, Agenda!Mapped, Agenda!Shown, Agenda!Ranged, Agenda!Located, Agenda!FilterEvents, Agenda!Overlaps, Agenda!OnDay, Agenda!DaysOf
<1> QED
  BY <1>4, <1>5, <1>6, <1>7, <1>8, <1>9, <1>10, <1>11, <1>12, <1>13 DEF Agenda!Next

(***************************************************************************)
(* Air and weather (AirExplore).                                           *)
(***************************************************************************)
\* The points are of the stations listed and of the two chosen.
LEMMA PointsOf ==
    ASSUME NEW p, NEW q, q.airs = p.airs, q.weathers = p.weathers, q.choice = p.choice
    PROVE  Air!Points(q) = Air!Points(p)
BY DEF Air!Points, Air!Station, Air!Weather, Air!Nearest, Air!First

LEMMA PaintedDraws ==
    ASSUME NEW p, Air!IsPage(p)
    PROVE  LET q == Air!Painted(p) IN
           /\ Air!IsPage(q) /\ q.ready = p.ready /\ q.airs = p.airs /\ q.weathers = p.weathers /\ q.choice = p.choice
           /\ p.ready => q.drawn = Air!Points(q)
           /\ p.fitted => q.fitted /\ q.camera = p.camera
<1>1. CASE ~p.ready
  BY <1>1 DEF Air!Painted
<1>2. CASE p.ready
  <2>1. PICK d : d = [p EXCEPT !.drawn = Air!Points(p)]
    OBVIOUS
  <2>2. Air!IsPage(d)
    BY <2>1 DEF Air!IsPage, Air!Fields
  <2>3. /\ d.ready = p.ready /\ d.airs = p.airs /\ d.weathers = p.weathers /\ d.choice = p.choice
        /\ d.drawn = Air!Points(p) /\ d.fitted = p.fitted /\ d.camera = p.camera
    BY <2>1 DEF Air!IsPage, Air!Fields
  <2>4. PICK q : q = Air!Painted(p)
    OBVIOUS
  <2>5. q = Air!Fitted(d)
    BY <1>2, <2>1, <2>4 DEF Air!Painted
  <2>6. CASE q = d
    BY <2>2, <2>3, <2>4, <2>6, PointsOf
  <2>7. CASE ~d.fitted /\ q = [d EXCEPT !.fitted = TRUE, !.camera = "points"]
    <3>1. Air!IsPage(q)
      BY <2>2, <2>7 DEF Air!IsPage, Air!Fields
    <3>2. /\ q.ready = d.ready /\ q.airs = d.airs /\ q.weathers = d.weathers /\ q.choice = d.choice
          /\ q.drawn = d.drawn
      BY <2>2, <2>7 DEF Air!IsPage, Air!Fields
    <3>3. Air!Points(q) = Air!Points(p) /\ ~p.fitted
      BY <2>3, <2>7, <3>2, PointsOf
    <3>4. q.ready = p.ready /\ q.airs = p.airs /\ q.weathers = p.weathers /\ q.choice = p.choice /\ q.drawn = Air!Points(q)
      BY <2>3, <3>2, <3>3
    <3> QED
      BY <2>4, <3>1, <3>3, <3>4
  <2> QED
    BY <2>5, <2>6, <2>7 DEF Air!Fitted
<1> QED
  BY <1>1, <1>2

\* A change of the page that goes through the effects.
LEMMA RenderedDraws ==
    ASSUME Air!AirInv, NEW new, NEW c, NEW again, Air!Rendered(new, c, again), Air!IsPage(new),
           new.ready = page.ready, new.fitted = page.fitted, new.camera = page.camera,
           seen'.moved = seen.moved, seen' = [inputs |-> seen'.inputs, moved |-> seen'.moved, part |-> seen'.part]
    PROVE  Air!AirInv'
<1> DEFINE asks == seen.part = "hours" /\ Air!Both(new) /\ (again \/ ~Air!Both(page) \/ Air!Asked(new) # Air!Asked(page))
           marks == seen.part = "hours" /\ Air!Station(new) # Air!Station(page)
           old == IF asks THEN Air!SeriesAgain(new) ELSE new
           left == [old EXCEPT !.marks = IF marks THEN -1 ELSE @]
<1>1. page' = Air!Painted([left EXCEPT !.analysis = IF left.series = << >> THEN Air!Nothing ELSE @])
  BY Zenon DEF Air!Rendered
<1>2. PICK s : s = old
  OBVIOUS
<1>3. Air!IsPage(s) /\ s.ready = page.ready /\ s.fitted = page.fitted /\ s.camera = page.camera
  BY <1>2 DEF Air!SeriesAgain, Air!IsPage, Air!Fields
<1>4. PICK q : q = [s EXCEPT !.marks = IF marks THEN -1 ELSE @] /\ q = left
  BY <1>2
<1>5. Air!IsPage(q) /\ q.ready = page.ready /\ q.fitted = page.fitted /\ q.camera = page.camera
  BY <1>3, <1>4 DEF Air!IsPage, Air!Fields
<1>6. PICK r : r = [q EXCEPT !.analysis = IF q.series = << >> THEN Air!Nothing ELSE @]
  OBVIOUS
<1>7. Air!IsPage(r) /\ r.ready = page.ready /\ r.fitted = page.fitted /\ r.camera = page.camera
  BY <1>5, <1>6 DEF Air!IsPage, Air!Fields
<1>8. page' = Air!Painted(r)
  BY <1>1, <1>2, <1>4, <1>6
<1> QED
  BY <1>7, <1>8, PaintedDraws DEF Air!AirInv, Air!DrawnIsPoints, Air!IsPage
\* What leaves the map, the lists and the choices alone leaves the drawing.
LEMMA AirSame ==
    ASSUME Air!AirInv, Air!IsPage(page'), page'.ready = page.ready, page'.fitted = page.fitted, page'.camera = page.camera,
           page'.drawn = page.drawn, page'.airs = page.airs, page'.weathers = page.weathers, page'.choice = page.choice,
           seen'.moved = seen.moved, seen' = [inputs |-> seen'.inputs, moved |-> seen'.moved, part |-> seen'.part]
    PROVE  Air!AirInv'
<1>1. Air!Points(page)' = Air!Points(page)
  BY DEF Air!Points, Air!Station, Air!Weather, Air!Nearest, Air!First
<1> QED
  BY <1>1 DEF Air!AirInv, Air!DrawnIsPoints, Air!IsPage

LEMMA AirStarts ==
    ASSUME Air!Init
    PROVE  Air!AirInv
<1>1. PICK part : seen = [inputs |-> 0, moved |-> FALSE, part |-> part]
  BY DEF Air!Init
<1>2. PICK link : page = [airs |-> {}, weathers |-> {}, listError |-> FALSE, choice |-> Air!NoChoice, compare |-> IF Air!IsCode(link) THEN link ELSE "",
                  note |-> IF link = "" THEN "" ELSE IF Air!IsCode(link) THEN "opening" ELSE "gone", series |-> << >>, seriesError |-> FALSE, marks |-> -1,
                  analysis |-> Air!Nothing, failed |-> FALSE, keep |-> [busy |-> "", code |-> "", word |-> ""],
                  ready |-> FALSE, drawn |-> {}, fitted |-> FALSE, camera |-> "start"]
  BY DEF Air!Init
<1>3. PICK compare, note, keep : page = [airs |-> {}, weathers |-> {}, listError |-> FALSE, choice |-> Air!NoChoice, compare |-> compare,
                  note |-> note, series |-> << >>, seriesError |-> FALSE, marks |-> -1,
                  analysis |-> Air!Nothing, failed |-> FALSE, keep |-> keep, ready |-> FALSE, drawn |-> {}, fitted |-> FALSE, camera |-> "start"]
  BY <1>2
<1>4. Air!IsPage(page) /\ page.ready = FALSE
  BY <1>3 DEF Air!IsPage, Air!Fields
<1>5. seen = [inputs |-> seen.inputs, moved |-> seen.moved, part |-> seen.part] /\ seen.moved = FALSE
  BY <1>1
<1> QED
  BY <1>4, <1>5 DEF Air!AirInv, Air!DrawnIsPoints

\* A turn of the reader counts, and moves nothing.
LEMMA AirTurns ==
    ASSUME Air!AirInv, Air!Input1
    PROVE  seen'.moved = seen.moved /\ seen' = [inputs |-> seen'.inputs, moved |-> seen'.moved, part |-> seen'.part]
<1>1. seen' = [seen EXCEPT !.inputs = @ + 1] /\ seen = [inputs |-> seen.inputs, moved |-> seen.moved, part |-> seen.part]
  BY DEF Air!Input1, Air!AirInv
<1> QED
  BY <1>1

LEMMA AirReads ==
    ASSUME Air!AirInv,
           \/ \E kind, ok : Air!ListRead(kind, ok)
           \/ \E read, ok : Air!SeriesAnswers(read, ok) \/ Air!MarksAnswer(read, ok)
           \/ \E code, ok : Air!OpenAnswers(code, ok)
    PROVE  Air!AirInv'
<1>1. Air!IsPage(page) /\ seen = [inputs |-> seen.inputs, moved |-> seen.moved, part |-> seen.part]
  BY DEF Air!AirInv
<1>2. ASSUME NEW kind, NEW ok, Air!ListRead(kind, ok)
      PROVE  Air!AirInv'
  <2>1. PICK new, c, again : /\ Air!Rendered(new, c, again) /\ seen' = seen
                             /\ \/ new = [page EXCEPT !.listError = TRUE]
                                \/ new = [page EXCEPT !.airs = server.airs]
                                \/ new = [page EXCEPT !.weathers = server.weathers]
    BY <1>2 DEF Air!ListRead
  <2>2. Air!IsPage(new) /\ new.ready = page.ready /\ new.fitted = page.fitted /\ new.camera = page.camera
    BY <1>1, <2>1 DEF Air!IsPage, Air!Fields
  <2> QED
    BY <1>1, <2>1, <2>2, RenderedDraws
<1>3. ASSUME NEW read, NEW ok, Air!SeriesAnswers(read, ok)
      PROVE  Air!AirInv'
  <2>1. PICK new, c, again : /\ Air!Rendered(new, c, again) /\ seen' = seen
                             /\ \/ new = page
                                \/ new = [page EXCEPT !.series = read.of, !.seriesError = FALSE]
                                \/ new = [page EXCEPT !.seriesError = TRUE]
    BY <1>3 DEF Air!SeriesAnswers
  <2>2. Air!IsPage(new) /\ new.ready = page.ready /\ new.fitted = page.fitted /\ new.camera = page.camera
    BY <1>1, <2>1 DEF Air!IsPage, Air!Fields
  <2> QED
    BY <1>1, <2>1, <2>2, RenderedDraws
<1>4. ASSUME NEW read, NEW ok, Air!MarksAnswer(read, ok)
      PROVE  Air!AirInv'
  <2>1. PICK new, c, again, marks : /\ Air!Rendered(new, c, again) /\ seen' = seen
                                    /\ new = page \/ new = [page EXCEPT !.marks = marks]
    BY <1>4 DEF Air!MarksAnswer
  <2>2. Air!IsPage(new) /\ new.ready = page.ready /\ new.fitted = page.fitted /\ new.camera = page.camera
    BY <1>1, <2>1 DEF Air!IsPage, Air!Fields
  <2> QED
    BY <1>1, <2>1, <2>2, RenderedDraws
<1>5. ASSUME NEW code, NEW ok, Air!OpenAnswers(code, ok)
      PROVE  Air!AirInv'
  <2>1. PICK p, c, again, choice : /\ Air!Rendered(Air!Dropped(p), c, again) /\ seen' = seen
                                   /\ p = [page EXCEPT !.note = "failed"] \/ p = [page EXCEPT !.choice = choice, !.note = "opened"]
    BY <1>5 DEF Air!OpenAnswers
  <2>2. Air!IsPage(p) /\ p.ready = page.ready /\ p.fitted = page.fitted /\ p.camera = page.camera
    BY <1>1, <2>1 DEF Air!IsPage, Air!Fields
  <2>3. PICK new : new = Air!Dropped(p)
    OBVIOUS
  <2>4. Air!IsPage(new) /\ new.ready = page.ready /\ new.fitted = page.fitted /\ new.camera = page.camera
    BY <2>2, <2>3 DEF Air!IsPage, Air!Fields, Air!Dropped
  <2> QED
    BY <1>1, <2>1, <2>3, <2>4, RenderedDraws
<1> QED
  BY <1>2, <1>3, <1>4, <1>5

LEMMA AirChooses ==
    ASSUME Air!AirInv, Air!Choose \/ Air!PickPair \/ Air!Pick \/ Air!Retry
    PROVE  Air!AirInv'
<1>1. Air!IsPage(page)
  BY DEF Air!AirInv
<1>2. ASSUME NEW choice, Air!Turn([page EXCEPT !.choice = choice])
      PROVE  Air!AirInv'
  <2>1. PICK new : new = [page EXCEPT !.choice = choice]
    OBVIOUS
  <2>2. Air!IsPage(new) /\ new.ready = page.ready /\ new.fitted = page.fitted /\ new.camera = page.camera
    BY <1>1, <2>1 DEF Air!IsPage, Air!Fields
  <2>3. Air!Input1 /\ Air!Rendered(new, calls, FALSE)
    BY <1>2, <2>1 DEF Air!Turn
  <2> QED
    BY <2>2, <2>3, AirTurns, RenderedDraws
<1>3. CASE Air!Choose
  <2>1. PICK choice : Air!Turn([page EXCEPT !.choice = choice])
    BY <1>1, <1>3 DEF Air!Choose, Air!IsPage, Air!Fields
  <2> QED
    BY <1>2, <2>1
<1>4. CASE Air!PickPair
  <2>1. PICK choice : Air!Turn([page EXCEPT !.choice = choice])
    BY <1>1, <1>4 DEF Air!PickPair, Air!IsPage, Air!Fields
  <2> QED
    BY <1>2, <2>1
<1>5. CASE Air!Pick
  <2>1. PICK choice : Air!Turn([page EXCEPT !.choice = choice])
    BY <1>1, <1>5 DEF Air!Pick, Air!IsPage, Air!Fields
  <2> QED
    BY <1>2, <2>1
<1>6. CASE Air!Retry
  <2>1. PICK new, c, again : new = [page EXCEPT !.listError = FALSE] /\ Air!Rendered(new, c, again) /\ Air!Input1
    BY <1>6 DEF Air!Retry
  <2>2. Air!IsPage(new) /\ new.ready = page.ready /\ new.fitted = page.fitted /\ new.camera = page.camera
    BY <1>1, <2>1 DEF Air!IsPage, Air!Fields
  <2> QED
    BY <2>1, <2>2, AirTurns, RenderedDraws
<1> QED
  BY <1>3, <1>4, <1>5, <1>6

LEMMA AirSteps ==
    ASSUME Air!AirInv, [Air!Next]_(Air!vars)
    PROVE  Air!AirInv'
<1>1. Air!IsPage(page) /\ seen = [inputs |-> seen.inputs, moved |-> seen.moved, part |-> seen.part]
  BY DEF Air!AirInv
<1>2. CASE (\E ok : Air!RunAnswers(ok)) \/ Air!WorkerStops
  <2>1. /\ seen' = seen
        /\ \/ page' = page
           \/ \E analysis : page' = [page EXCEPT !.analysis = analysis, !.failed = FALSE]
           \/ page' = [page EXCEPT !.failed = TRUE]
    BY <1>2 DEF Air!RunAnswers, Air!WorkerStops
  <2>2. /\ Air!IsPage(page') /\ page'.ready = page.ready /\ page'.fitted = page.fitted /\ page'.camera = page.camera
        /\ page'.drawn = page.drawn /\ page'.airs = page.airs /\ page'.weathers = page.weathers /\ page'.choice = page.choice
    BY <1>1, <2>1 DEF Air!IsPage, Air!Fields
  <2> QED
    BY <1>1, <2>1, <2>2, AirSame
<1>3. CASE (\E call, ok : Air!KeepAnswers(call, ok)) \/ Air!Save \/ Air!Export \/ Air!Copy
  <2>1. \E keep : page' = [page EXCEPT !.keep = keep]
    BY <1>1, <1>3 DEF Air!KeepAnswers, Air!Save, Air!Export, Air!Run, Air!Copy, Air!IsPage, Air!Fields
  <2>2. /\ Air!IsPage(page') /\ page'.ready = page.ready /\ page'.fitted = page.fitted /\ page'.camera = page.camera
        /\ page'.drawn = page.drawn /\ page'.airs = page.airs /\ page'.weathers = page.weathers /\ page'.choice = page.choice
    BY <1>1, <2>1 DEF Air!IsPage, Air!Fields
  <2>3. seen' = seen \/ Air!Input1
    BY <1>3 DEF Air!KeepAnswers, Air!Save, Air!Export, Air!Run, Air!Copy
  <2> QED
    BY <1>1, <2>2, <2>3, AirTurns, AirSame
<1>4. CASE Air!MapLoads
  <2>1. PICK p : p = [page EXCEPT !.ready = TRUE] /\ page' = Air!Painted(p) /\ seen' = seen
    BY <1>4 DEF Air!MapLoads
  <2>2. Air!IsPage(p) /\ p.ready = TRUE /\ p.fitted = page.fitted /\ p.camera = page.camera
    BY <1>1, <2>1 DEF Air!IsPage, Air!Fields
  <2> QED
    BY <1>1, <2>1, <2>2, PaintedDraws DEF Air!AirInv, Air!DrawnIsPoints, Air!IsPage
<1>5. CASE Air!MapMoved
  <2>1. page' = [page EXCEPT !.camera = "reader"] /\ seen' = [seen EXCEPT !.moved = page.fitted] /\ page.ready
    BY <1>5 DEF Air!MapMoved
  <2>2. /\ Air!IsPage(page') /\ page'.fitted = page.fitted /\ page'.camera = "reader" /\ page'.ready = page.ready
        /\ page'.drawn = page.drawn /\ page'.airs = page.airs /\ page'.weathers = page.weathers /\ page'.choice = page.choice
    BY <1>1, <2>1 DEF Air!IsPage, Air!Fields
  <2>3. seen' = [inputs |-> seen'.inputs, moved |-> seen'.moved, part |-> seen'.part] /\ seen'.moved = page.fitted
    BY <1>1, <2>1
  <2>4. Air!Points(page)' = Air!Points(page)
    BY <2>2 DEF Air!Points, Air!Station, Air!Weather, Air!Nearest, Air!First
  <2> QED
    BY <2>2, <2>3, <2>4 DEF Air!AirInv, Air!DrawnIsPoints, Air!IsPage
<1>6. CASE UNCHANGED Air!vars
  BY <1>1, <1>6, AirSame DEF Air!vars, Air!IsPage
<1> QED
  BY <1>2, <1>3, <1>4, <1>5, <1>6, AirReads, AirChooses DEF Air!Next

(***************************************************************************)
(* The reach of transit (TransitReach).                                    *)
(***************************************************************************)
\* Painted and framed, a page that is ready draws its answer and its point.
LEMMA FramedDraws ==
    ASSUME NEW p, Reach!IsPage(p), page.ready => page.frame # {}, p.frame = page.frame
    PROVE  LET q == Reach!Framed(Reach!Painted(p)) IN
           Reach!IsPage(q) /\ (q.ready => q.cells = Reach!Cells(q) /\ q.stops = Reach!StopsOf(q.out) /\ q.origin = q.at /\ q.frame # {})
<1>1. PICK d : d = Reach!Painted(p)
  OBVIOUS
<1>2. Reach!IsPage(d) /\ d.ready = p.ready /\ d.out = p.out /\ d.at = p.at /\ d.frame = p.frame
  <2>1. CASE d = [p EXCEPT !.cells = Reach!Cells(p), !.stops = Reach!StopsOf(p.out), !.origin = p.at]
    BY <2>1 DEF Reach!IsPage, Reach!Fields
  <2>2. CASE d = p
    BY <2>2
  <2> QED
    BY <1>1, <2>1, <2>2 DEF Reach!Painted
<1>3. d.ready => d.cells = Reach!Cells(p) /\ d.stops = Reach!StopsOf(p.out) /\ d.origin = p.at
  <2>1. SUFFICES ASSUME d.ready
                 PROVE  d.cells = Reach!Cells(p) /\ d.stops = Reach!StopsOf(p.out) /\ d.origin = p.at
    OBVIOUS
  <2>2. d = [p EXCEPT !.cells = Reach!Cells(p), !.stops = Reach!StopsOf(p.out), !.origin = p.at]
    BY <1>1, <1>2, <2>1 DEF Reach!Painted
  <2> QED
    BY <2>2 DEF Reach!IsPage, Reach!Fields
<1>4. Reach!Cells(d) = Reach!Cells(p)
  BY <1>2 DEF Reach!Cells
<1>5. PICK q : q = Reach!Framed(d)
  OBVIOUS
<1>6. CASE d.ready /\ (~page.ready \/ Reach!Cells(d) # Reach!Cells(page) \/ d.at # page.at)
  <2>1. PICK frame : q = [d EXCEPT !.frame = frame] /\ frame # {}
    BY <1>5, <1>6 DEF Reach!Framed
  <2>2. /\ Reach!IsPage(q) /\ q.ready = d.ready /\ q.out = d.out /\ q.at = d.at /\ q.frame # {}
        /\ q.cells = d.cells /\ q.stops = d.stops /\ q.origin = d.origin
    BY <1>2, <2>1 DEF Reach!IsPage, Reach!Fields
  <2>3. Reach!Cells(q) = Reach!Cells(d)
    BY <2>2 DEF Reach!Cells
  <2> QED
    BY <1>1, <1>2, <1>3, <1>4, <1>5, <2>2, <2>3
<1>7. CASE ~(d.ready /\ (~page.ready \/ Reach!Cells(d) # Reach!Cells(page) \/ d.at # page.at))
  <2>1. q = d
    BY <1>5, <1>7 DEF Reach!Framed
  <2> QED
    BY <1>1, <1>2, <1>3, <1>4, <1>5, <1>7, <2>1
<1> QED
  BY <1>6, <1>7

LEMMA ReachRendered ==
    ASSUME Reach!ReachInv, NEW new, NEW c, NEW again, Reach!Rendered(new, c, again), Reach!IsPage(new), new.frame = page.frame
    PROVE  Reach!ReachInv'
<1> DEFINE asks == Reach!MayRead(new) /\ (again \/ ~Reach!MayRead(page) \/ new.hours # page.hours)
           read == [new EXCEPT !.histLoading = @ \/ asks, !.histError = @ /\ ~asks]
           runs == Reach!Input(read) # Reach!Input(page) /\ Reach!Input(read) # Reach!NoInput
<1>1. page' = Reach!Framed(Reach!Painted([read EXCEPT !.running = @ \/ runs, !.failed = @ /\ ~runs, !.address = Reach!Written([at |-> read.at, hours |-> read.hours]),
                                          !.typed = @ /\ read.at = page.at]))
  BY Zenon DEF Reach!Rendered
<1> HIDE DEF runs
<1>2. PICK q : q = read
  OBVIOUS
<1>3. PICK loading, error : q = [new EXCEPT !.histLoading = loading, !.histError = error]
  BY <1>2
<1>4. Reach!IsPage(q) /\ q.frame = page.frame
  BY <1>3 DEF Reach!IsPage, Reach!Fields
<1>5. PICK r : r = [q EXCEPT !.running = @ \/ runs, !.failed = @ /\ ~runs, !.address = Reach!Written([at |-> q.at, hours |-> q.hours]), !.typed = @ /\ q.at = page.at]
  OBVIOUS
<1>6. PICK running, failed, address, typed : r = [q EXCEPT !.running = running, !.failed = failed, !.address = address, !.typed = typed]
  BY <1>5
<1>7. Reach!IsPage(r) /\ r.frame = page.frame
  BY <1>4, <1>6 DEF Reach!IsPage, Reach!Fields
<1>8. page' = Reach!Framed(Reach!Painted(r))
  BY <1>1, <1>2, <1>5
<1>9. (page.ready => page.frame # {})
  BY DEF Reach!ReachInv, Reach!MapIsTheReach
<1> QED
  BY <1>7, <1>8, <1>9, FramedDraws DEF Reach!ReachInv, Reach!MapIsTheReach, Reach!IsPage, Reach!Cells
LEMMA ReachStarts ==
    ASSUME Reach!Init
    PROVE  Reach!ReachInv
<1>1. PICK start, address, net, kept, out : page = [at |-> start, hours |-> 3, address |-> address, netLoading |-> TRUE, netError |-> FALSE, net |-> net,
               histLoading |-> TRUE, histError |-> FALSE, hist |-> {}, out |-> out, running |-> FALSE, failed |-> FALSE,
               kept |-> kept, saving |-> FALSE, typed |-> FALSE,
               ready |-> FALSE, cells |-> {}, stops |-> {}, origin |-> "", frame |-> {}]
  BY DEF Reach!Init
<1>2. Reach!IsPage(page) /\ page.ready = FALSE
  BY <1>1 DEF Reach!IsPage, Reach!Fields
<1> QED
  BY <1>2 DEF Reach!ReachInv, Reach!MapIsTheReach

\* What leaves the point, the answer and the map alone leaves the drawing.
LEMMA ReachSame ==
    ASSUME Reach!ReachInv, Reach!IsPage(page'), page'.ready = page.ready, page'.out = page.out, page'.at = page.at, page'.frame = page.frame,
           page'.cells = page.cells, page'.stops = page.stops, page'.origin = page.origin
    PROVE  Reach!ReachInv'
BY DEF Reach!ReachInv, Reach!MapIsTheReach, Reach!IsPage, Reach!Cells, Reach!StopsOf

LEMMA ReachReads ==
    ASSUME Reach!ReachInv,
           \/ \E read, ok : Reach!NetArrives(read, ok)
           \/ \E read, sample : Reach!HistArrives(read, sample)
           \/ \E ok : Reach!WorkerAnswers(ok)
           \/ Reach!WorkerStops \/ Reach!NetRetry \/ Reach!HistRetry
    PROVE  Reach!ReachInv'
<1>1. Reach!IsPage(page)
  BY DEF Reach!ReachInv
<1>2. ASSUME NEW new, NEW c, NEW again, Reach!Rendered(new, c, again),
             \/ new = page
             \/ \E a, b, d : new = [page EXCEPT !.netLoading = a, !.netError = b, !.net = d]
             \/ \E a, b, d : new = [page EXCEPT !.histLoading = a, !.histError = b, !.hist = d]
             \/ \E a, b, d : new = [page EXCEPT !.out = a, !.running = b, !.failed = d]
             \/ \E a, b : new = [page EXCEPT !.netLoading = a, !.netError = b]
      PROVE  Reach!ReachInv'
  <2>1. Reach!IsPage(new) /\ new.frame = page.frame
    <3>1. CASE new = page
      BY <1>1, <3>1
    <3>2. CASE \E a, b, d : new = [page EXCEPT !.netLoading = a, !.netError = b, !.net = d]
      BY <1>1, <3>2 DEF Reach!IsPage, Reach!Fields
    <3>3. CASE \E a, b, d : new = [page EXCEPT !.histLoading = a, !.histError = b, !.hist = d]
      BY <1>1, <3>3 DEF Reach!IsPage, Reach!Fields
    <3>4. CASE \E a, b, d : new = [page EXCEPT !.out = a, !.running = b, !.failed = d]
      BY <1>1, <3>4 DEF Reach!IsPage, Reach!Fields
    <3>5. CASE \E a, b : new = [page EXCEPT !.netLoading = a, !.netError = b]
      BY <1>1, <3>5 DEF Reach!IsPage, Reach!Fields
    <3> QED
      BY <1>2, <3>1, <3>2, <3>3, <3>4, <3>5
  <2> QED
    BY <1>2, <2>1, ReachRendered
<1>3. CASE \E read, ok : Reach!NetArrives(read, ok)
  <2>1. PICK new, c : Reach!Rendered(new, c, FALSE) /\ (new = page \/ \E a, b, d : new = [page EXCEPT !.netLoading = a, !.netError = b, !.net = d])
    BY <1>3 DEF Reach!NetArrives
  <2> QED
    BY <1>2, <2>1
<1>4. CASE \E read, sample : Reach!HistArrives(read, sample)
  <2>1. PICK read, sample : Reach!HistArrives(read, sample)
    BY <1>4
  <2> DEFINE error == sample = {}
             hist == UNION {Reach!ToVehicles(s) : s \in sample}
             new == IF ~read.new THEN page ELSE [page EXCEPT !.histLoading = FALSE, !.histError = error, !.hist = hist]
  <2>2. Reach!Rendered(new, [calls EXCEPT !.hist = @ \ {read}], FALSE)
    BY <2>1, Zenon DEF Reach!HistArrives
  <2> HIDE DEF error, hist
  <2>3. new = page \/ \E a, b, d : new = [page EXCEPT !.histLoading = a, !.histError = b, !.hist = d]
    OBVIOUS
  <2> QED
    BY <1>2, <2>2, <2>3
<1>5. CASE (\E ok : Reach!WorkerAnswers(ok)) \/ Reach!WorkerStops
  <2>1. PICK new, c : Reach!Rendered(new, c, FALSE) /\ (new = page \/ \E a, b, d : new = [page EXCEPT !.out = a, !.running = b, !.failed = d])
    BY <1>5 DEF Reach!WorkerAnswers, Reach!WorkerStops
  <2> QED
    BY <1>2, <2>1
<1>6. CASE Reach!NetRetry
  <2>1. PICK new, c : Reach!Rendered(new, c, FALSE) /\ \E a, b : new = [page EXCEPT !.netLoading = a, !.netError = b]
    BY <1>6 DEF Reach!NetRetry
  <2> QED
    BY <1>2, <2>1
<1>7. CASE Reach!HistRetry
  BY <1>2, <1>7 DEF Reach!HistRetry
<1> QED
  BY <1>3, <1>4, <1>5, <1>6, <1>7

LEMMA ReachSteps ==
    ASSUME Reach!ReachInv, [Reach!Next]_(Reach!vars)
    PROVE  Reach!ReachInv'
<1>1. Reach!IsPage(page)
  BY DEF Reach!ReachInv
<1>2. CASE Reach!StartStop \/ Reach!StartReached \/ Reach!PickOnMap \/ Reach!ToCentre \/ Reach!ChooseHours
  <2>1. PICK new : Reach!Rendered(new, calls, FALSE) /\ ((\E a : new = [page EXCEPT !.at = a]) \/ (\E a : new = [page EXCEPT !.hours = a]))
    BY <1>2 DEF Reach!StartStop, Reach!StartReached, Reach!PickOnMap, Reach!ToCentre, Reach!ChooseHours, Reach!Turn
  <2>2. Reach!IsPage(new) /\ new.frame = page.frame
    <3>1. CASE \E a : new = [page EXCEPT !.at = a]
      BY <1>1, <3>1 DEF Reach!IsPage, Reach!Fields
    <3>2. CASE \E a : new = [page EXCEPT !.hours = a]
      BY <1>1, <3>2 DEF Reach!IsPage, Reach!Fields
    <3> QED
      BY <2>1, <3>1, <3>2
  <2> QED
    BY <2>1, <2>2, ReachRendered
<1>3. CASE Reach!MapLoads
  <2>1. PICK p : p = [page EXCEPT !.ready = TRUE] /\ page' = Reach!Framed(Reach!Painted(p)) /\ (page.ready => FALSE)
    BY <1>3 DEF Reach!MapLoads
  <2>2. Reach!IsPage(p) /\ p.frame = page.frame
    BY <1>1, <2>1 DEF Reach!IsPage, Reach!Fields
  <2> QED
    BY <2>1, <2>2, FramedDraws DEF Reach!ReachInv, Reach!MapIsTheReach, Reach!IsPage, Reach!Cells
<1>4. CASE Reach!Keep \/ Reach!Type \/ Reach!Save \/ (\E call, ok : Reach!KeptAnswers(call, ok)) \/ (\E origin, ok : Reach!SaveAnswers(origin, ok))
  <2>1. \/ page' = page
        \/ \E kept : page' = [page EXCEPT !.kept = kept]
        \/ page' = [page EXCEPT !.typed = TRUE]
        \/ \E saving : page' = [page EXCEPT !.saving = saving]
    BY <1>1, <1>4 DEF Reach!Keep, Reach!Type, Reach!Save, Reach!KeptAnswers, Reach!KeptEnds, Reach!SaveAnswers, Reach!IsPage, Reach!Fields
  <2>2. /\ Reach!IsPage(page') /\ page'.ready = page.ready /\ page'.out = page.out /\ page'.at = page.at /\ page'.frame = page.frame
        /\ page'.cells = page.cells /\ page'.stops = page.stops /\ page'.origin = page.origin
    BY <1>1, <2>1 DEF Reach!IsPage, Reach!Fields
  <2> QED
    BY <2>2, ReachSame
<1>5. CASE UNCHANGED Reach!vars
  BY <1>1, <1>5, ReachSame DEF Reach!vars, Reach!IsPage
<1> QED
  BY <1>2, <1>3, <1>4, <1>5, ReachReads DEF Reach!Next

(***************************************************************************)
(* A planned day (DayPlanner).                                             *)
(***************************************************************************)
\* Drawn reads the plan's stops and the rows, and nothing else of the page.
LEMMA DrawnOf ==
    ASSUME NEW p, NEW q, q.plan = p.plan, q.rows = p.rows
    PROVE  Plan!Drawn(q) = Plan!Drawn(p)
BY DEF Plan!Drawn, Plan!Points, Plan!Line

LEMMA PlanRendered ==
    ASSUME Plan!PlanInv, NEW p, NEW c, Plan!Rendered(p, c), Plan!IsPage(p), p.drawn = page.drawn
    PROVE  Plan!PlanInv'
<1> DEFINE read == Plan!From(p) # Plan!From(page)
           opens == p.share # page.share \/ p.lang # page.lang
           bad == opens /\ p.share # "" /\ p.share = "?"
           new == [p EXCEPT !.loading = @ \/ read, !.error = @ /\ ~read, !.note = IF opens /\ p.share # "" THEN (IF bad THEN "gone" ELSE "opening") ELSE @,
                     !.share = IF bad THEN "" ELSE @, !.address.share = IF bad THEN "" ELSE @,
                     !.code = IF Plan!Says(p) = "plan" THEN @ ELSE "", !.busy = @ /\ Plan!Says(p) = "plan"]
<1>1. page' = IF new.ready /\ (~page.ready \/ Plan!Drawn(new) # new.drawn)
              THEN [new EXCEPT !.drawn = Plan!Drawn(new), !.fits = IF @ = 0 /\ Plan!Points(new) # << >> THEN 1 ELSE @] ELSE new
  BY Zenon DEF Plan!Rendered
<1> DEFINE loading == p.loading \/ read
           error == p.error /\ ~read
           note == IF opens /\ p.share # "" THEN (IF bad THEN "gone" ELSE "opening") ELSE p.note
           share == IF bad THEN "" ELSE p.share
           code == IF Plan!Says(p) = "plan" THEN p.code ELSE ""
           busy == p.busy /\ Plan!Says(p) = "plan"
<1>2. PICK q : q = new
  OBVIOUS
<1>7. q = [p EXCEPT !.loading = loading, !.error = error, !.note = note, !.share = share,
                    !.address.share = IF bad THEN "" ELSE @, !.code = code, !.busy = busy]
  BY <1>2
<1> HIDE DEF loading, error, note, share, code, busy, read, opens, bad
<1>3. PICK address : q = [p EXCEPT !.loading = loading, !.error = error, !.note = note, !.share = share, !.address = address, !.code = code, !.busy = busy]
  <2> DEFINE address == [p.address EXCEPT !.share = IF bad THEN "" ELSE @]
  <2>1. q = [p EXCEPT !.loading = loading, !.error = error, !.note = note, !.share = share, !.address = address, !.code = code, !.busy = busy]
    BY <1>7 DEF Plan!IsPage, Plan!Fields, Plan!Default
  <2> QED
    BY <2>1
<1> HIDE DEF new
<1>4. Plan!IsPage(q) /\ q.drawn = page.drawn
  BY <1>3 DEF Plan!IsPage, Plan!Fields, Plan!Default
<1>5. CASE q.ready /\ (~page.ready \/ Plan!Drawn(q) # q.drawn)
  <2>1. PICK fits : page' = [q EXCEPT !.drawn = Plan!Drawn(q), !.fits = fits]
    BY <1>1, <1>2, <1>5
  <2>2. Plan!IsPage(page') /\ page'.drawn = Plan!Drawn(q) /\ page'.plan = q.plan /\ page'.rows = q.rows
    BY <1>4, <2>1 DEF Plan!IsPage, Plan!Fields, Plan!Default
  <2>3. Plan!Drawn(page') = Plan!Drawn(q)
    BY <2>2, DrawnOf
  <2> QED
    BY <2>2, <2>3 DEF Plan!PlanInv, Plan!MapIsThePlan, Plan!IsPage
<1>6. CASE ~(q.ready /\ (~page.ready \/ Plan!Drawn(q) # q.drawn))
  BY <1>1, <1>2, <1>4, <1>6 DEF Plan!PlanInv, Plan!MapIsThePlan, Plan!IsPage
<1> QED
  BY <1>5, <1>6
\* What is written into the address is written into the view.
LEMMA WrittenPage ==
    ASSUME NEW p, Plan!IsPage(p), NEW name \in DOMAIN Plan!Default, NEW value
    PROVE  Plan!IsPage(Plan!Written(p, name, value)) /\ Plan!Written(p, name, value).drawn = p.drawn
<1>1. PICK q : q = Plan!Written(p, name, value)
  OBVIOUS
<1>2. PICK put : q = [p EXCEPT ![name] = value, !.address[name] = put]
  BY <1>1 DEF Plan!Written
<1>3. PICK address : q = [p EXCEPT ![name] = value, !.address = address]
  <2> DEFINE address == [p.address EXCEPT ![name] = put]
  <2>1. name # "address"
    BY DEF Plan!Default
  <2>2. q = [p EXCEPT ![name] = value, !.address = address]
    BY <1>2, <2>1 DEF Plan!IsPage, Plan!Fields, Plan!Default
  <2> QED
    BY <2>2
<1>4. name \in Plan!Fields /\ name # "drawn"
  BY DEF Plan!Fields, Plan!Default
<1> QED
  BY <1>1, <1>3, <1>4 DEF Plan!IsPage, Plan!Fields, Plan!Default

LEMMA PlanStarts ==
    ASSUME Plan!Init
    PROVE  Plan!PlanInv
<1>1. PICK link \in PlanLinks : page = IF link.share = "?" THEN [Plan!Opened(link) EXCEPT !.share = "", !.address.share = "", !.note = "gone"]
                                   ELSE [Plan!Opened(link) EXCEPT !.note = IF link.share \notin {"", "?"} THEN "opening" ELSE ""]
  BY DEF Plan!Init
<1>2. PICK p : p = Plan!Opened(link)
  OBVIOUS
<1>3. PICK value, plan : p = [day |-> value.day, q |-> link.q, hour |-> link.hour, pick |-> link.pick, share |-> link.share, address |-> link,
                              lang |-> 1, rows |-> {}, loading |-> TRUE, error |-> FALSE, gen |-> 0, plan |-> plan, failed |-> FALSE, note |-> "",
                              code |-> "", busy |-> FALSE, ready |-> FALSE, drawn |-> [points |-> {}, line |-> << >>], fits |-> 0]
  BY <1>2 DEF Plan!Opened
<1>10. Plan!IsPage(p) /\ p.ready = FALSE
  BY <1>3 DEF Plan!IsPage, Plan!Fields, Plan!Default
<1>12. Plan!IsPage(page) /\ page.ready = FALSE
  <2>1. CASE link.share = "?"
    <3>1. PICK address : page = [p EXCEPT !.share = "", !.address = address, !.note = "gone"]
      <4> DEFINE address == [p.address EXCEPT !.share = ""]
      <4>1. page = [p EXCEPT !.share = "", !.address = address, !.note = "gone"]
        BY <1>1, <1>2, <1>10, <2>1 DEF Plan!IsPage, Plan!Fields, Plan!Default
      <4> QED
        BY <4>1
    <3> QED
      BY <1>10, <3>1 DEF Plan!IsPage, Plan!Fields, Plan!Default
  <2>2. CASE link.share # "?"
    <3>1. PICK note : page = [p EXCEPT !.note = note]
      BY <1>1, <1>2, <2>2
    <3> QED
      BY <1>10, <3>1 DEF Plan!IsPage, Plan!Fields, Plan!Default
  <2> QED
    BY <2>1, <2>2
<1> QED
  BY <1>12 DEF Plan!PlanInv, Plan!MapIsThePlan

LEMMA PlanReads ==
    ASSUME Plan!PlanInv, (\E ok : Plan!RowsArrive(ok) \/ Plan!WorkerAnswers(ok)) \/ Plan!WorkerStops \/ Plan!Retry \/ Plan!Language \/ Plan!MapLoads
    PROVE  Plan!PlanInv'
<1>1. Plan!IsPage(page)
  BY DEF Plan!PlanInv
<1>2. ASSUME NEW p, NEW c, Plan!Rendered(p, c),
             \/ p = page
             \/ \E a, b, d, e : p = [page EXCEPT !.loading = a, !.error = b, !.rows = d, !.gen = e]
             \/ \E a, b : p = [page EXCEPT !.plan = a, !.failed = b]
             \/ \E a : p = [page EXCEPT !.failed = a]
             \/ \E a, b : p = [page EXCEPT !.loading = a, !.error = b]
             \/ \E a : p = [page EXCEPT !.lang = a]
             \/ \E a : p = [page EXCEPT !.ready = a]
      PROVE  Plan!PlanInv'
  <2>1. Plan!IsPage(p) /\ p.drawn = page.drawn
    <3>1. CASE p = page
      BY <1>1, <3>1
    <3>2. CASE \E a, b, d, e : p = [page EXCEPT !.loading = a, !.error = b, !.rows = d, !.gen = e]
      BY <1>1, <3>2 DEF Plan!IsPage, Plan!Fields, Plan!Default
    <3>3. CASE \E a, b : p = [page EXCEPT !.plan = a, !.failed = b]
      BY <1>1, <3>3 DEF Plan!IsPage, Plan!Fields, Plan!Default
    <3>4. CASE \E a : p = [page EXCEPT !.failed = a]
      BY <1>1, <3>4 DEF Plan!IsPage, Plan!Fields, Plan!Default
    <3>5. CASE \E a, b : p = [page EXCEPT !.loading = a, !.error = b]
      BY <1>1, <3>5 DEF Plan!IsPage, Plan!Fields, Plan!Default
    <3>6. CASE \E a : p = [page EXCEPT !.lang = a]
      BY <1>1, <3>6 DEF Plan!IsPage, Plan!Fields, Plan!Default
    <3>7. CASE \E a : p = [page EXCEPT !.ready = a]
      BY <1>1, <3>7 DEF Plan!IsPage, Plan!Fields, Plan!Default
    <3> QED
      BY <1>2, <3>1, <3>2, <3>3, <3>4, <3>5, <3>6, <3>7
  <2> QED
    BY <1>2, <2>1, PlanRendered
<1>3. CASE \E ok : Plan!RowsArrive(ok)
  <2>1. PICK ok : Plan!RowsArrive(ok)
    BY <1>3
  <2> DEFINE error == ~ok
             rows == IF ok THEN {e \in DOMAIN PlanEvents : PlanEvents[e].last >= calls.rows} ELSE page.rows
             gen == IF ok THEN 1 - page.gen ELSE page.gen
             p == [page EXCEPT !.loading = FALSE, !.error = error, !.rows = rows, !.gen = gen]
  <2>2. Plan!Rendered(p, [calls EXCEPT !.rows = Plan!None])
    BY <2>1, Zenon DEF Plan!RowsArrive
  <2> HIDE DEF error, rows, gen
  <2>3. \E a, b, d, e : p = [page EXCEPT !.loading = a, !.error = b, !.rows = d, !.gen = e]
    OBVIOUS
  <2> HIDE DEF p
  <2> QED
    BY <1>2, <2>2, <2>3
<1>4. CASE (\E ok : Plan!WorkerAnswers(ok)) \/ Plan!WorkerStops
  <2>1. PICK run, ok, c : Plan!Rendered(Plan!Answered(page, run, ok), c)
    BY <1>4 DEF Plan!WorkerAnswers, Plan!WorkerStops
  <2>2. PICK p : p = Plan!Answered(page, run, ok)
    OBVIOUS
  <2>3. p = page \/ (\E a, b : p = [page EXCEPT !.plan = a, !.failed = b]) \/ (\E a : p = [page EXCEPT !.failed = a])
    BY <2>2 DEF Plan!Answered
  <2> QED
    BY <1>2, <2>1, <2>2, <2>3
<1>5. CASE Plan!Retry
  <2>1. PICK p, c : Plan!Rendered(p, c) /\ \E a, b : p = [page EXCEPT !.loading = a, !.error = b]
    BY <1>5 DEF Plan!Retry
  <2> QED
    BY <1>2, <2>1
<1>6. CASE Plan!Language
  <2>1. PICK p, c : Plan!Rendered(p, c) /\ \E a : p = [page EXCEPT !.lang = a]
    BY <1>6 DEF Plan!Language, Plan!Turn
  <2> QED
    BY <1>2, <2>1
<1>7. CASE Plan!MapLoads
  <2>1. PICK p, c : Plan!Rendered(p, c) /\ \E a : p = [page EXCEPT !.ready = a]
    BY <1>7 DEF Plan!MapLoads
  <2> QED
    BY <1>2, <2>1
<1> QED
  BY <1>3, <1>4, <1>5, <1>6, <1>7

LEMMA PlanSteps ==
    ASSUME Plan!PlanInv, [Plan!Next]_(Plan!vars)
    PROVE  Plan!PlanInv'
<1>1. Plan!IsPage(page) /\ {"day", "q", "hour", "pick", "share"} = DOMAIN Plan!Default
  BY DEF Plan!PlanInv, Plan!Default
<1>2. CASE \E o, ok : Plan!OpenAnswers(o, ok)
  <2>1. PICK o, ok : Plan!OpenAnswers(o, ok)
    BY <1>2
  <2>2. CASE o.new
    <3> DEFINE shared == server.kept[o.code]
               opened == [page EXCEPT !.note = "opened"]
               put == Plan!Written(Plan!Written(opened, "day", shared.day), "pick", shared.picks)
               failed == [page EXCEPT !.note = "failed"]
               p == IF ok THEN put ELSE failed
    <3>1. \E c : Plan!Rendered(Plan!Written(p, "share", ""), c)
      BY <2>1, <2>2 DEF Plan!OpenAnswers
    <3>2. Plan!IsPage(opened) /\ opened.drawn = page.drawn /\ Plan!IsPage(failed) /\ failed.drawn = page.drawn
      BY <1>1 DEF Plan!IsPage, Plan!Fields, Plan!Default
    <3> HIDE DEF opened, failed, shared
    <3>3. Plan!IsPage(Plan!Written(opened, "day", shared.day)) /\ Plan!Written(opened, "day", shared.day).drawn = page.drawn
      BY <1>1, <3>2, WrittenPage
    <3>4. Plan!IsPage(put) /\ put.drawn = page.drawn
      BY <1>1, <3>3, WrittenPage
    <3>5. Plan!IsPage(p) /\ p.drawn = page.drawn
      BY <3>2, <3>4
    <3> HIDE DEF p
    <3> QED
      BY <1>1, <3>1, <3>5, WrittenPage, PlanRendered
  <2>3. CASE ~o.new
    BY <1>1, <2>1, <2>3, DrawnOf DEF Plan!OpenAnswers, Plan!PlanInv, Plan!MapIsThePlan, Plan!IsPage
  <2> QED
    BY <2>2, <2>3
<1>3. CASE Plan!Share \/ \E s, ok : Plan!ShareAnswers(s, ok)
  <2>1. page' = page \/ (\E a : page' = [page EXCEPT !.busy = a]) \/ (\E a, b : page' = [page EXCEPT !.busy = a, !.code = b])
    BY <1>3 DEF Plan!Share, Plan!ShareAnswers
  <2>2. Plan!IsPage(page') /\ page'.ready = page.ready /\ page'.drawn = page.drawn /\ page'.plan = page.plan /\ page'.rows = page.rows
    <3>1. CASE page' = page
      BY <1>1, <3>1
    <3>2. CASE \E a : page' = [page EXCEPT !.busy = a]
      BY <1>1, <3>2 DEF Plan!IsPage, Plan!Fields, Plan!Default
    <3>3. CASE \E a, b : page' = [page EXCEPT !.busy = a, !.code = b]
      BY <1>1, <3>3 DEF Plan!IsPage, Plan!Fields, Plan!Default
    <3> QED
      BY <2>1, <3>1, <3>2, <3>3
  <2>3. Plan!Drawn(page') = Plan!Drawn(page)
    BY <2>2, DrawnOf
  <2> QED
    BY <2>2, <2>3 DEF Plan!PlanInv, Plan!MapIsThePlan, Plan!IsPage
<1>4. CASE Plan!SetDay \/ Plan!SetSearch \/ Plan!HourClick \/ Plan!ShowAll \/ Plan!Toggle
  <2>1. \E name \in DOMAIN Plan!Default : \E value : Plan!Turn(Plan!Written(page, name, value))
    BY <1>1, <1>4 DEF Plan!SetDay, Plan!SetSearch, Plan!HourClick, Plan!ShowAll, Plan!Toggle
  <2>a. PICK name \in DOMAIN Plan!Default : \E value : Plan!Turn(Plan!Written(page, name, value))
    BY <2>1
  <2>b. PICK value : Plan!Turn(Plan!Written(page, name, value))
    BY <2>a
  <2>2. Plan!Rendered(Plan!Written(page, name, value), calls)
    BY <2>b DEF Plan!Turn
  <2> QED
    BY <1>1, <2>2, WrittenPage, PlanRendered
<1>5. CASE Plan!Reset
  <2> DEFINE day == Plan!Written(page, "day", Plan!Today)
             q == Plan!Written(day, "q", "")
             hour == Plan!Written(q, "hour", Plan!None)
             pick == Plan!Written(hour, "pick", << >>)
  <2>1. Plan!Rendered(pick, calls)
    BY <1>5 DEF Plan!Reset, Plan!Turn
  <2>2. Plan!IsPage(day) /\ day.drawn = page.drawn
    BY <1>1, WrittenPage
  <2> HIDE DEF day
  <2>3. Plan!IsPage(q) /\ q.drawn = page.drawn
    BY <1>1, <2>2, WrittenPage
  <2> HIDE DEF q
  <2>4. Plan!IsPage(hour) /\ hour.drawn = page.drawn
    BY <1>1, <2>3, WrittenPage
  <2> HIDE DEF hour
  <2>5. Plan!IsPage(pick) /\ pick.drawn = page.drawn
    BY <1>1, <2>4, WrittenPage
  <2> HIDE DEF pick
  <2> QED
    BY <2>1, <2>5, PlanRendered
<1>6. CASE UNCHANGED Plan!vars
  BY <1>1, <1>6, DrawnOf DEF Plan!vars, Plan!PlanInv, Plan!MapIsThePlan, Plan!IsPage
<1> QED
  BY <1>2, <1>3, <1>4, <1>5, <1>6, PlanReads DEF Plan!Next

(***************************************************************************)
(* The pages together (Apps): one behaviour of one of them.                *)
(***************************************************************************)
MapsInv ==
  /\ app = "explore" => Explore!ExploreInv
  /\ app = "events" => Agenda!AgendaInv
  /\ app = "air" => Air!AirInv
  /\ app = "reach" => Reach!ReachInv
  /\ app = "day" => Plan!PlanInv

LEMMA MapsStart ==
    ASSUME AppsInit
    PROVE  MapsInv
<1>1. Explore!ConstantsOK
  BY AppsAssumption
<1>2. app = "explore" => Explore!Init
  BY DEF AppsInit, AppPages
<1>3. app = "events" => Agenda!Init
  BY DEF AppsInit, AppPages
<1>4. app = "air" => Air!Init
  BY DEF AppsInit, AppPages
<1>5. app = "reach" => Reach!Init
  BY DEF AppsInit, AppPages
<1>6. app = "day" => Plan!Init
  BY DEF AppsInit, AppPages
<1>7. app = "explore" => Explore!ExploreInv
  BY <1>1, <1>2, ExploreStarts
<1>8. app = "events" => Agenda!AgendaInv
  BY <1>3, AgendaStarts
<1>9. app = "air" => Air!AirInv
  BY <1>4, AirStarts
<1>10. app = "reach" => Reach!ReachInv
  BY <1>5, ReachStarts
<1>11. app = "day" => Plan!PlanInv
  BY <1>6, PlanStarts
<1> QED
  BY <1>7, <1>8, <1>9, <1>10, <1>11 DEF MapsInv

LEMMA MapsStep ==
    ASSUME MapsInv, [AppsNext]_appsVars
    PROVE  MapsInv'
<1>1. app' = app
  BY DEF AppsNext, appsVars
<1>2. app = "explore" => [Explore!Next]_(Explore!vars)
  BY DEF AppsNext, AppNext, appsVars, exploreVars, Explore!vars
<1>3. app = "events" => [Agenda!Next]_(Agenda!vars)
  BY DEF AppsNext, AppNext, appsVars, appVars, Agenda!vars
<1>4. app = "air" => [Air!Next]_(Air!vars)
  BY DEF AppsNext, AppNext, appsVars, appVars, Air!vars
<1>5. app = "reach" => [Reach!Next]_(Reach!vars)
  BY DEF AppsNext, AppNext, appsVars, appVars, Reach!vars
<1>6. app = "day" => [Plan!Next]_(Plan!vars)
  BY DEF AppsNext, AppNext, appsVars, appVars, Plan!vars
<1>7. app = "explore" => Explore!ExploreInv'
  BY <1>2, AppsAssumption, ExploreSteps DEF MapsInv
<1>8. app = "events" => Agenda!AgendaInv'
  BY <1>3, AgendaSteps DEF MapsInv
<1>9. app = "air" => Air!AirInv'
  BY <1>4, AirSteps DEF MapsInv
<1>10. app = "reach" => Reach!ReachInv'
  BY <1>5, ReachSteps DEF MapsInv
<1>11. app = "day" => Plan!PlanInv'
  BY <1>6, PlanSteps DEF MapsInv
<1> QED
  BY <1>1, <1>7, <1>8, <1>9, <1>10, <1>11 DEF MapsInv

LEMMA MapsShow ==
    ASSUME MapsInv
    PROVE  MapsFollowThePage
<1>1. app = "explore" => Explore!MapFollowsTheTable /\ Explore!CountLineOfTheView /\ Explore!LinkIsTheView
  BY ExploreShows DEF MapsInv
<1>2. app = "events" => Agenda!DrawnIsShown
  BY DEF MapsInv, Agenda!AgendaInv
<1>3. app = "air" => Air!DrawnIsPoints
  BY DEF MapsInv, Air!AirInv
<1>4. app = "reach" => Reach!MapIsTheReach
  BY DEF MapsInv, Reach!ReachInv
<1>5. app = "day" => Plan!MapIsThePlan
  BY DEF MapsInv, Plan!PlanInv
<1> QED
  BY <1>1, <1>2, <1>3, <1>4, <1>5 DEF MapsFollowThePage

(***************************************************************************)
(* explore.js, EntityMap.tsx, ReachMap.tsx, MapView.tsx: whatever order    *)
(* the map's readiness, the answers and the reader's choices come in, the  *)
(* map draws the view on screen, the explorer's count line gives the       *)
(* number and the totals of that view or is hidden (unless the view's      *)
(* newest read failed or brought no number: then the old line stays), its  *)
(* link opens the view, and the camera stays where the reader put it.      *)
(***************************************************************************)
THEOREM MapsFollow == AppsSpec => []MapsFollowThePage
<1>1. AppsInit => MapsInv
  BY MapsStart
<1>2. MapsInv /\ [AppsNext]_appsVars => MapsInv'
  BY MapsStep
<1>3. MapsInv => MapsFollowThePage
  BY MapsShow
<1> QED
  BY <1>1, <1>2, <1>3, PTL DEF AppsSpec
=============================================================================
