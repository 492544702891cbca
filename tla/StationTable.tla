------------------------------ MODULE StationTable ------------------------------
(***************************************************************************)
(* The tables and tiles of the city's records: the bike stations           *)
(* (helsinki-bikes) with their totals, bands and ranking, and the desk of  *)
(* traffic alerts (alerts-desk) with its filters, pages and exports.       *)
(***************************************************************************)
EXTENDS Integers, FiniteSets, Sequences
LOCAL INSTANCE FiniteSetsExt

CONSTANTS
  Stations,  \* id |-> [bikes, docks, kind, day]: numbers, -1 for one not given
  PageSize,  \* rows of a page of the table, 50
  MaxLines,  \* lines of a PDF, 500
  Top,       \* stations of a ranking, 10
  Last,      \* the last day a date filter is given
  MaxInputs

Ids == DOMAIN Stations
ConstantsOK ==
  /\ Ids \subseteq Nat \ {0} /\ PageSize \in Nat \ {0} /\ MaxLines \in Nat \ {0} /\ Top \in Nat /\ Last \in Nat /\ MaxInputs \in Nat
  /\ \A id \in Ids : Stations[id].bikes \in Int /\ Stations[id].docks \in Int /\ Stations[id].day \in 0..Last

VARIABLES
  page,    \* [rows, loading, error, select, bikesOnly, dates, sort, page, chosen, export]
  server,  \* the stations the endpoint answers
  calls,   \* whether the rows are being read
  seen     \* [inputs, typed]: turns; the days the reader typed

vars == <<page, server, calls, seen>>

None == "none"
Infinity == 1000
Known(n) == n >= 0
Bikes(id) == Stations[id].bikes
HasBikes(id) == Known(Bikes(id)) /\ Bikes(id) > 0
IsEmpty(id) == Bikes(id) = 0
Capacity(id) == IF Stations[id].docks > 0 THEN Stations[id].docks ELSE -1
\* The share of docks with a bike, in percent; none when a count is missing.
Share(id) ==
  IF ~Known(Bikes(id)) \/ ~Known(Capacity(id)) THEN -1
  ELSE LET percent == (200 * Bikes(id) + Capacity(id)) \div (2 * Capacity(id)) IN IF percent > 100 THEN 100 ELSE percent
WithShare(rows) == [id \in rows |-> Share(id)]

SumOf(rows) == FoldSet(LAMBDA id, sum : sum + (IF Known(Bikes(id)) THEN Bikes(id) ELSE 0), 0, rows)
Totals(rows) == [stations |-> Cardinality(rows), bikes |-> SumOf(rows), empty |-> Cardinality({id \in rows : IsEmpty(id)})]

\* Mutant before it: a band starts where the one before it ends.
Bands_Gap == << <<0, 0>>, <<1, 2>>, <<4, 5>>, <<6, 10>>, <<11, 20>>, <<21, Infinity>> >>
Bands == << <<0, 0>>, <<1, 2>>, <<3, 5>>, <<6, 10>>, <<11, 20>>, <<21, Infinity>> >>
BandOf(n) == {b \in DOMAIN Bands : Bands[b][1] <= n /\ n <= Bands[b][2]}
Histogram(rows) == [b \in DOMAIN Bands |-> Cardinality({id \in rows : Known(Bikes(id)) /\ b \in BandOf(Bikes(id))})]
\* The fullest or the emptiest stations; ties go to the more bikes, or the fewer, then by name.
Before(a, b, order) ==
  LET sign == IF order = "fullest" THEN -1 ELSE 1 IN
  \/ sign * Share(a) < sign * Share(b)
  \/ Share(a) = Share(b) /\ (sign * Bikes(a) < sign * Bikes(b) \/ (Bikes(a) = Bikes(b) /\ a < b))
Ranked(rows, order) ==
  LET known == {id \in rows : Known(Share(id)) /\ Known(Bikes(id))} IN
  {id \in known : Cardinality({other \in known : Before(other, id, order)}) < Top}

\* What is on the overview: the tiles, the bars, the two rankings, the map's shades.
Tiles(p) == IF p.loading THEN [stations |-> -1, bikes |-> -1, empty |-> -1] ELSE Totals(p.rows)
Bars(p) == Histogram(p.rows)
Rankings(p) == [order \in {"fullest", "emptiest"} |-> Ranked(p.rows, order)]
Overview(p) == [tiles |-> Tiles(p), bars |-> Bars(p), ranked |-> Rankings(p), shades |-> WithShare(p.rows)]

\* The filters: one value of an attribute, stations with bikes only, a range of days.
NoDates == << >>
SelectFits(id, kind) == kind = None \/ Stations[id].kind = kind
DatesFit(id, dates) ==
  dates # NoDates =>
    /\ dates[1] = 0 \/ Stations[id].day >= dates[1]
    /\ dates[2] = 0 \/ Stations[id].day <= dates[2]
Shown(p) == {id \in p.rows : SelectFits(id, p.select) /\ (p.bikesOnly => HasBikes(id)) /\ DatesFit(id, p.dates)}
\* The values there are to choose among the rows.
Options(p) == {Stations[id].kind : id \in p.rows}
\* Mutant before it: a day set keeps no other.
DateRange_One(from, to) == IF from = 0 /\ to = 0 THEN NoDates ELSE IF from # 0 THEN <<from, 0>> ELSE <<0, to>>
\* Two open sides are no filter; a last day is sent to its last moment and shown as the day.
DateRange(from, to) == IF from = 0 /\ to = 0 THEN NoDates ELSE <<from, to>>
Side(dates, i) == IF dates = NoDates THEN 0 ELSE dates[i]

\* The table: sorted by a column, a page of it.
SortKey(id, attr) == IF attr = "bikes" THEN Bikes(id) ELSE id
Precedes(a, b, sort) ==
  LET up == SortKey(a, sort.attr) < SortKey(b, sort.attr) \/ (SortKey(a, sort.attr) = SortKey(b, sort.attr) /\ a < b) IN
  IF sort.dir = "asc" THEN up ELSE SortKey(a, sort.attr) > SortKey(b, sort.attr) \/ (SortKey(a, sort.attr) = SortKey(b, sort.attr) /\ a < b)
Place(id, p) == Cardinality({other \in Shown(p) : Precedes(other, id, p.sort)})
TotalPages(p) == LET n == (Cardinality(Shown(p)) + PageSize - 1) \div PageSize IN IF n < 1 THEN 1 ELSE n
SafePage(p) == IF p.page < TotalPages(p) THEN p.page ELSE TotalPages(p)
Paged(p) == IF p.error \/ (p.loading /\ p.rows = {}) THEN {} ELSE {id \in Shown(p) : Place(id, p) \div PageSize = SafePage(p) - 1}

\* Mutant before it: the page stays whatever the rows.
Turned_Page(p) == p
\* Another number of rows shows the first page.
Turned(p) == IF Cardinality(Shown(p)) # Cardinality(Shown(page)) THEN [p EXCEPT !.page = 1] ELSE p

Init ==
  /\ page = [rows |-> {}, loading |-> TRUE, error |-> FALSE, select |-> None, bikesOnly |-> FALSE, dates |-> NoDates,
             sort |-> [attr |-> "name", dir |-> "asc"], page |-> 1, chosen |-> 0, export |-> {}]
  /\ server \in SUBSET Ids /\ calls = TRUE /\ seen = [inputs |-> 0, typed |-> <<0, 0>>]

RowsArrive(ok) ==
  /\ calls /\ calls' = FALSE
  /\ page' = Turned([page EXCEPT !.loading = FALSE, !.error = ~ok, !.rows = IF ok THEN server ELSE @])
  /\ UNCHANGED <<server, seen>>
Retry == page.error /\ calls' = TRUE /\ page' = [page EXCEPT !.error = FALSE, !.loading = TRUE] /\ UNCHANGED <<server, seen>>

Input == seen.inputs < MaxInputs /\ UNCHANGED <<server, calls>>
Turn(p) == p # page /\ Input /\ page' = Turned(p) /\ seen' = [seen EXCEPT !.inputs = @ + 1]
Select(kind) == kind \in Options(page) \cup {None} /\ Turn([page EXCEPT !.select = kind])
BikesOnly == Turn([page EXCEPT !.bikesOnly = ~@])
\* A day typed on one side; the other stays as the filter has it.
Dates(side, day) ==
  /\ seen.typed[side] # day /\ Input
  /\ page' = Turned([page EXCEPT !.dates = IF side = 1 THEN DateRange(day, Side(page.dates, 2)) ELSE DateRange(Side(page.dates, 1), day)])
  /\ seen' = [inputs |-> seen.inputs + 1, typed |-> [seen.typed EXCEPT ![side] = day]]
Reset ==
  /\ Input /\ page' = Turned([page EXCEPT !.select = None, !.bikesOnly = FALSE, !.dates = NoDates])
  /\ seen' = [inputs |-> seen.inputs + 1, typed |-> <<0, 0>>]
\* A column sorts upwards first, then the other way; the first page is shown.
Toggled(sort, attr) == [attr |-> attr, dir |-> IF sort.attr = attr /\ sort.dir = "asc" THEN "desc" ELSE "asc"]
ToggleSort(attr) == Turn([page EXCEPT !.sort = Toggled(@, attr), !.page = 1])
Next1 == SafePage(page) < TotalPages(page) /\ Turn([page EXCEPT !.page = IF @ + 1 > TotalPages(page) THEN TotalPages(page) ELSE @ + 1])
Previous == SafePage(page) > 1 /\ Turn([page EXCEPT !.page = IF @ - 1 < 1 THEN 1 ELSE @ - 1])
Open(id) == id \in Paged(page) /\ Turn([page EXCEPT !.chosen = id])
\* The rows shown, of every page; a PDF takes the first lines of them.
ExportCsv == Shown(page) # {} /\ Turn([page EXCEPT !.export = Shown(page)])
ExportPdf == Shown(page) # {} /\ \E lines \in SUBSET Shown(page) :
  /\ Cardinality(lines) = (IF Cardinality(Shown(page)) < MaxLines THEN Cardinality(Shown(page)) ELSE MaxLines)
  /\ Turn([page EXCEPT !.export = lines])

Next ==
  \/ \E ok \in BOOLEAN : RowsArrive(ok)
  \/ Retry \/ BikesOnly \/ Reset \/ Next1 \/ Previous \/ ExportCsv \/ ExportPdf
  \/ \E kind \in {Stations[id].kind : id \in Ids} \cup {None} : Select(kind)
  \/ \E side \in 1..2, day \in 0..Last : Dates(side, day)
  \/ \E attr \in {"name", "bikes"} : ToggleSort(attr)
  \/ \E id \in Ids : Open(id)

Spec == Init /\ [][Next]_vars

TypeOK ==
  /\ page.rows \subseteq Ids /\ page.sort.dir \in {"asc", "desc"} /\ page.page \in Nat \ {0} /\ page.export \subseteq Ids
  /\ seen.inputs \in 0..MaxInputs /\ server \subseteq Ids

\* stations.ts:69 -- every station that sent a count is in one bar: the bars add up to them, the first bar is
\* the tile of the empty ones, the rankings hold no station without both counts.
BarsAddUp ==
  ~page.loading =>
    LET o == Overview(page) IN
    /\ o.tiles.empty = o.bars[1]
    /\ \A id \in page.rows : Known(Bikes(id)) => Cardinality(BandOf(Bikes(id))) = 1
    /\ \A order \in {"fullest", "emptiest"} : \A id \in o.ranked[order] : o.shades[id] \in 0..100
    /\ \A id \in o.ranked["fullest"], other \in page.rows \ o.ranked["fullest"] : Known(Share(other)) => Share(other) <= Share(id)
\* filters.tsx:142 -- what the reader typed is what the filter holds, on both sides, whatever order it was typed in.
TypedIsFiltered == <<Side(page.dates, 1), Side(page.dates, 2)>> = seen.typed
\* EntityTable.tsx:71 -- the page shown is one the rows have: never past the last, whatever the filters left.
PageIsThere == page.page <= TotalPages(page) /\ (Shown(page) # {} /\ ~page.error /\ ~page.loading => Paged(page) # {})
=============================================================================
