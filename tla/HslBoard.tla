------------------------------- MODULE HslBoard ------------------------------
(***************************************************************************)
(* The departures and alerts beside the live map: the backend reads them   *)
(* every half minute and keeps the last board (lib.rs, board.rs), the page *)
(* reads them from the backend as often (useBoard of App.tsx, api.ts).     *)
(***************************************************************************)
EXTENDS Naturals, FiniteSets

CONSTANTS
  Stops,     \* stops that may have departures
  Alerts,    \* alerts HSL may have
  LineOf,    \* the line each alert is on
  MaxInputs  \* boards, timers and choices, all together

ConstantsOK == MaxInputs \in Nat /\ DOMAIN LineOf = Alerts

VARIABLES
  page,    \* [stops, alerts, chosen, line]: what is shown and the two choices over it
  server,  \* [read, stops, alerts]: the last board read, if any was
  calls,   \* the page's reads: [op, turn, state, list]
  seen     \* [inputs]: inputs so far

vars == <<page, server, calls, seen>>

Reads(turn) == {[op |-> o, turn |-> turn, state |-> "out", list |-> {}] : o \in {"departures", "alerts"}}

Init ==
  /\ page = [stops |-> {}, alerts |-> {}, chosen |-> "", line |-> ""]
  /\ server = [read |-> FALSE, stops |-> {}, alerts |-> {}]
  /\ calls = Reads(0)
  /\ seen = [inputs |-> 0]

Input == seen.inputs < MaxInputs /\ seen' = [seen EXCEPT !.inputs = @ + 1]

\* poll_board: a read that worked replaces the board; one that failed keeps it.
PollBoard(stops, alerts) ==
  /\ Input
  /\ server' = [read |-> TRUE, stops |-> stops, alerts |-> alerts]
  /\ UNCHANGED <<page, calls>>

\* The page's timer: both are read again, whether or not the last reads answered.
Timer ==
  /\ Input
  /\ calls' = calls \cup Reads(seen.inputs + 1)
  /\ UNCHANGED <<page, server>>

\* The backend answers the board it has; before the first, and on any failure, there is an empty list.
Serves(call, reached) ==
  LET ok == reached /\ server.read IN
  /\ call.state = "out"
  /\ calls' = (calls \ {call}) \cup
       {[call EXCEPT !.state = "answered",
                     !.list = IF ~ok THEN {} ELSE IF call.op = "departures" THEN server.stops ELSE server.alerts]}
  /\ UNCHANGED <<page, server, seen>>

\* useBoard: departures that came back empty are not set.
StopsOf(next) == IF next = {} THEN page.stops ELSE next

Arrives(call) ==
  /\ call.state = "answered"
  /\ calls' = calls \ {call}
  /\ page' = IF call.op = "departures" THEN [page EXCEPT !.stops = StopsOf(call.list)] ELSE [page EXCEPT !.alerts = call.list]
  /\ UNCHANGED <<server, seen>>

\* The stop chosen, and the line the alerts are filtered by; both choices outlive what they were made from.
Choose(stop) ==
  /\ stop \in page.stops /\ Input
  /\ page' = [page EXCEPT !.chosen = stop]
  /\ UNCHANGED <<server, calls>>
Filter(line) ==
  /\ line \in {LineOf[a] : a \in page.alerts} \cup {""} /\ Input
  /\ page' = [page EXCEPT !.line = line]
  /\ UNCHANGED <<server, calls>>

\* The stop whose departures are listed: the chosen one while it has any, else the first.
Board == IF page.chosen \in page.stops \/ page.stops = {} THEN page.chosen ELSE CHOOSE s \in page.stops : TRUE
Filtered == {a \in page.alerts : page.line \in {"", LineOf[a]}}

Next ==
  \/ \E stops \in SUBSET Stops, alerts \in SUBSET Alerts : PollBoard(stops, alerts)
  \/ Timer
  \/ \E call \in calls : Arrives(call) \/ \E reached \in BOOLEAN : Serves(call, reached)
  \/ \E stop \in Stops : Choose(stop)
  \/ \E line \in {LineOf[a] : a \in Alerts} \cup {""} : Filter(line)

Spec == Init /\ [][Next]_vars

TypeOK ==
  /\ page.stops \subseteq Stops /\ page.alerts \subseteq Alerts
  /\ server.stops \subseteq Stops /\ server.alerts \subseteq Alerts /\ seen.inputs \in 0..MaxInputs

\* App.tsx:157 -- departures once shown are never emptied, whatever fails, is late or overtakes.
DeparturesStay == page.stops # {} => page'.stops # {}
=============================================================================
