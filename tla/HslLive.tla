------------------------------- MODULE HslLive -------------------------------
(***************************************************************************)
(* The live transport page (hsl-transport/ui, App.tsx and api.ts): a fleet *)
(* seeded by a snapshot and kept by a stream, and the filter, view and     *)
(* charts over it. The backend (HslFeed) appears as what it answers.       *)
(***************************************************************************)
EXTENDS Naturals, Sequences, FiniteSets, FiniteSetsExt

CONSTANTS
  Vehicles, Modes, Bands,
  ModeOf,    \* a vehicle's mode, "" for one written before modes were
  LineOf,    \* its line, "" when the Policy hides it
  BandOf,    \* its speed band, 0 for a speed it does not report
  Ahead,     \* a set of pairs <<l, m>>: line l sorts before line m
  Depth,     \* BROADCAST_DEPTH: batches kept for a slow viewer
  Top,       \* lines with a bar of their own
  MaxInputs  \* moves, drops and turns of the reader, all together

ConstantsOK ==
  /\ {MaxInputs, Top} \subseteq Nat /\ Depth \in Nat \ {0}
  /\ "bus" \in Modes /\ ModeOf \in [Vehicles -> Modes \cup {""}] /\ BandOf \in [Vehicles -> Bands \cup {0}]

VARIABLES
  page,    \* [byId, live, lost, modes, view, selected]; the map is up once it said a view
  server,  \* [fleet, feed]: what the backend would answer
  calls,   \* [snapshot, opened, first, batches, due, stream]: the snapshot read, the fleet the stream
           \* opens with, once it is sent, the batches after it, a feed event due
  seen     \* [inputs, late, lagged]: inputs so far; a snapshot came after the stream moved what it held;
           \* the vehicles of batches dropped for this viewer and not streamed since

vars == <<page, server, calls, seen>>

NoFleet == [v \in Vehicles |-> 0]
Known(fleet) == {v \in Vehicles : fleet[v] > 0}
Over(fleet, batch) == [v \in Vehicles |-> IF batch[v] > 0 THEN batch[v] ELSE fleet[v]]

\* useVehicles as the page opens: the snapshot and the stream.
Init ==
  /\ page = [byId |-> NoFleet, live |-> FALSE, lost |-> FALSE, modes |-> Modes, view |-> "unsaid", selected |-> [of |-> "", at |-> 0]]
  /\ server = [fleet |-> NoFleet, feed |-> "lost"]
  /\ seen = [inputs |-> 0, late |-> FALSE, lagged |-> {}]
  /\ calls = [snapshot |-> [state |-> "out", answer |-> NoFleet], opened |-> TRUE,
            first |-> NoFleet, batches |-> <<>>, due |-> FALSE, stream |-> FALSE]

\* The backend: a vehicle moves and every open stream is told, the oldest batch of a full queue dropped
\* for it; the feed is lost or live.
Moves(v) ==
  LET queued == IF calls.stream THEN Append(calls.batches, [NoFleet EXCEPT ![v] = seen.inputs + 1]) ELSE <<>>
      lags == Len(queued) > Depth
  IN /\ seen.inputs < MaxInputs
     /\ server' = [server EXCEPT !.fleet[v] = seen.inputs + 1]
     /\ seen' = [seen EXCEPT !.inputs = @ + 1, !.lagged = IF lags THEN @ \cup Known(Head(queued)) ELSE @]
     /\ calls' = [calls EXCEPT !.batches = IF lags THEN Tail(queued) ELSE queued]
     /\ UNCHANGED page
FeedTurns ==
  /\ seen.inputs < MaxInputs
  /\ server' = [server EXCEPT !.feed = IF @ = "live" THEN "lost" ELSE "live"]
  /\ seen' = [seen EXCEPT !.inputs = @ + 1]
  /\ calls' = [calls EXCEPT !.due = calls.stream]
  /\ UNCHANGED page

\* The EventSource connects, first or again: the whole fleet comes first, and the feed's word.
Connects ==
  /\ ~calls.stream
  /\ calls' = [calls EXCEPT !.stream = TRUE, !.opened = FALSE, !.first = server.fleet, !.due = TRUE]
  /\ seen' = [seen EXCEPT !.lagged = {}]
  /\ UNCHANGED <<page, server>>
Drops ==
  /\ calls.stream /\ seen.inputs < MaxInputs
  /\ calls' = [calls EXCEPT !.stream = FALSE, !.opened = TRUE, !.batches = <<>>, !.due = FALSE]
  /\ seen' = [seen EXCEPT !.inputs = @ + 1]
  /\ UNCHANGED <<page, server>>

\* Mutant before it: a batch replaces what is on the map.
Merged_Replaces(fleet, batch) == IF Known(batch) = {} THEN fleet ELSE batch
\* merge: a batch moves the vehicles it names and leaves the others.
Merged(fleet, batch) == Over(fleet, batch)

Hears(batch) == page' = [page EXCEPT !.live = TRUE, !.byId = Merged(@, batch)]
Opened ==
  /\ ~calls.opened
  /\ Hears(calls.first)
  /\ calls' = [calls EXCEPT !.opened = TRUE]
  /\ UNCHANGED <<server, seen>>
Streamed ==
  /\ calls.opened /\ calls.batches # <<>>
  /\ Hears(Head(calls.batches))
  /\ calls' = [calls EXCEPT !.batches = Tail(@)]
  /\ seen' = [seen EXCEPT !.lagged = @ \ Known(Head(calls.batches))]
  /\ UNCHANGED server

\* The feed event carries since when the feed is lost, or null once it is live.
FeedHeard ==
  /\ calls.due
  /\ page' = [page EXCEPT !.lost = server.feed = "lost"]
  /\ calls' = [calls EXCEPT !.due = FALSE]
  /\ UNCHANGED <<server, seen>>

\* getVehicles: answered at the backend, 503 while its fleet is empty; a failure is an empty batch.
SnapshotServed(ok) ==
  /\ calls.snapshot.state = "out"
  /\ calls' = [calls EXCEPT !.snapshot = [state |-> "answered", answer |-> IF ok THEN server.fleet ELSE NoFleet]]
  /\ UNCHANGED <<page, server, seen>>
SnapshotArrives ==
  LET answer == calls.snapshot.answer IN
  /\ calls.snapshot.state = "answered"
  /\ calls' = [calls EXCEPT !.snapshot.state = "done"]
  /\ seen' = [seen EXCEPT !.late = \E v \in Known(answer) : page.byId[v] > answer[v]]
  /\ page' = [page EXCEPT !.byId = Merged(@, answer)]
  /\ UNCHANGED server

\* The map loads and says where it looks, and again after a pan; a view holds the even or the odd positions.
Looks(view) ==
  /\ seen.inputs < MaxInputs
  /\ page' = [page EXCEPT !.view = view]
  /\ seen' = [seen EXCEPT !.inputs = @ + 1]
  /\ UNCHANGED <<server, calls>>

OfModes(vs, modes) == {v \in vs : (IF ModeOf[v] = "" THEN "bus" ELSE ModeOf[v]) \in modes}
\* The vehicles on the map, and of those the ones in view; all of them until the map says where it looks.
Drawn == OfModes(Known(page.byId), page.modes)
InView == IF page.view = "unsaid" THEN Drawn ELSE {v \in Drawn : (page.byId[v] % 2 = 0) = (page.view = "even")}

Tick(mode) ==
  /\ seen.inputs < MaxInputs
  /\ page' = [page EXCEPT !.modes = IF mode \in @ THEN @ \ {mode} ELSE @ \cup {mode}]
  /\ seen' = [seen EXCEPT !.inputs = @ + 1]
  /\ UNCHANGED <<server, calls>>

\* The panel's read finds the vehicle where the backend has it now, or answers that it is no longer reported.
PanelRow(v) == [of |-> v, at |-> server.fleet[v]]
\* A vehicle is opened from the map or the list of those in view; the shell's panel reads it anew.
Pick(v) ==
  /\ seen.inputs < MaxInputs /\ v \in InView
  /\ page' = [page EXCEPT !.selected = PanelRow(v)]
  /\ seen' = [seen EXCEPT !.inputs = @ + 1]
  /\ UNCHANGED <<server, calls>>

Next ==
  \/ \E v \in Vehicles : Moves(v) \/ Pick(v)
  \/ FeedTurns \/ Connects \/ Drops \/ Opened \/ Streamed \/ FeedHeard \/ SnapshotArrives
  \/ \E ok \in BOOLEAN : SnapshotServed(ok)
  \/ \E view \in {"even", "odd"} : Looks(view)
  \/ \E mode \in Modes : Tick(mode)

Spec == Init /\ [][Next]_vars

----------------------------------------------------------------------------
\* The charts beside the map.
Lines(vs) == {LineOf[v] : v \in vs}
CountOf(vs, line) == Cardinality({v \in vs : LineOf[v] = line})
Before(vs, l, m) == CountOf(vs, l) > CountOf(vs, m) \/ (CountOf(vs, l) = CountOf(vs, m) /\ <<l, m>> \in Ahead)
\* Mutant before it: the lines past the first bars are not summed.
PerLine_NoRest(vs) ==
  LET barred == {l \in Lines(vs) : Cardinality({m \in Lines(vs) : Before(vs, m, l)}) < Top} IN
  [bars |-> [l \in barred |-> CountOf(vs, l)], rest |-> 0]
\* perLine: most first, ties in line order, at most Top bars and one for the rest.
PerLine(vs) ==
  LET barred == {l \in Lines(vs) : Cardinality({m \in Lines(vs) : Before(vs, m, l)}) < Top} IN
  [bars |-> [l \in barred |-> CountOf(vs, l)],
   rest |-> MapThenSumSet(LAMBDA l : CountOf(vs, l), Lines(vs) \ barred)]
SpeedBands(vs) ==
  [bars |-> [b \in Bands |-> Cardinality({v \in vs : BandOf[v] = b})], unknown |-> Cardinality({v \in vs : BandOf[v] = 0})]

FeedState == IF page.lost THEN "lost" ELSE IF page.live THEN "live" ELSE ""
\* The status line: how many, how live, how many of them in view.
Status ==
  IF Drawn = {} THEN [words |-> IF Known(page.byId) = {} THEN "waiting" ELSE "none chosen", drawn |-> 0, feed |-> "", inView |-> 0]
  ELSE [words |-> "vehicles", drawn |-> Cardinality(Drawn),
        feed |-> FeedState, inView |-> Cardinality(InView)]

TypeOK ==
  /\ page.byId \in [Vehicles -> 0..MaxInputs]
  /\ page.modes \subseteq Modes /\ page.selected \in [of : Vehicles \cup {""}, at : 0..MaxInputs]
  /\ server.fleet \in [Vehicles -> 0..MaxInputs] /\ Len(calls.batches) <= Depth

Quiet == calls.stream /\ calls.opened /\ calls.batches = <<>> /\ ~calls.due

\* App.tsx:130 -- once the stream is read the page knows the backend's fleet, and where each vehicle is
\* unless a snapshot older than the stream came after it, but for the vehicles of batches dropped while
\* the viewer lagged, which it has right again once they move.
FleetShown ==
  Quiet => \A v \in Vehicles \ seen.lagged :
    /\ v \in Known(page.byId) <=> v \in Known(server.fleet)
    /\ page.byId[v] = server.fleet[v] \/ seen.late

\* App.tsx:136 -- the status line says the feed is lost exactly while the backend says so.
FeedSaid == Quiet /\ Drawn # {} => (Status.feed = "lost") = (server.feed = "lost")

\* api.ts:135 and 158 -- whatever modes and view are chosen, the bars and the rest, and the bands and the
\* vehicles without a speed, add up to the vehicles in view.
Conserved ==
  LET lines == PerLine(InView) speeds == SpeedBands(InView) IN
  /\ MapThenSumSet(LAMBDA l : lines.bars[l], DOMAIN lines.bars) + lines.rest = Status.inView
  /\ MapThenSumSet(LAMBDA b : speeds.bars[b], Bands) + speeds.unknown = Status.inView
  /\ Cardinality(DOMAIN lines.bars) <= Top /\ (lines.rest > 0 => \A l \in DOMAIN lines.bars, m \in Lines(InView) \ DOMAIN lines.bars : CountOf(InView, l) >= CountOf(InView, m))
=============================================================================
