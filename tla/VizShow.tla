------------------------------- MODULE VizShow -------------------------------
(***************************************************************************)
(* A chart or a map the assistant's widget hands over by message (show of  *)
(* host.js, opened as `#show`): the renderer frame (render.js), or the map *)
(* page (map.js) that takes its place, may be up before or after the       *)
(* widget speaks.                                                          *)
(***************************************************************************)
EXTENDS Naturals, Sequences

CONSTANTS
  Specs,     \* what a widget may hand over: "vega", "map", or "refused" by the checks
  Low, High, \* the bounds of a drawing's height
  Tall       \* the heights a drawing may have

ConstantsOK == Specs \subseteq {"vega", "map", "refused"} /\ {Low, High} \subseteq Nat /\ Low <= High /\ Tall \subseteq Nat

VARIABLES
  host,     \* [parent, map, ready, pending]: what the page knows
  inner,    \* per frame: "none", "loading", "up", "gone"
  given,    \* per frame: the spec it took, "" none yet, "drawn" and "failed" after it
  lost,     \* a spec was posted to a frame that was not there to take it
  heard,    \* the frames' messages the page has not heard yet: [from, says, tall]
  tall,     \* the height of what is drawn
  high,     \* the height the page gave its frame
  told      \* [words, height]: what the parent was told

vars == <<host, inner, given, lost, heard, tall, high, told>>

Frames == {"renderer", "mapPage"}
Says(from, what, h) == Append(heard, [from |-> from, says |-> what, tall |-> h])

Init ==
  /\ host = [parent |-> FALSE, map |-> FALSE, ready |-> FALSE, pending |-> ""]
  /\ inner = [renderer |-> "loading", mapPage |-> "none"]
  /\ given = [f \in Frames |-> ""] /\ lost = FALSE
  /\ heard = <<>> /\ tall = 0 /\ high = 0 /\ told = [words |-> "", height |-> 0]

\* A frame's page has loaded and says so.
FrameUp(f) ==
  /\ inner[f] = "loading"
  /\ inner' = [inner EXCEPT ![f] = "up"]
  /\ heard' = Says(f, "ready", 0)
  /\ UNCHANGED <<host, given, lost, tall, high, told>>

Drawer(h) == IF h.map THEN "mapPage" ELSE "renderer"

\* send: the spec to the frame that draws it, once it is known to be there.
Send(h) ==
  IF h.pending = "" \/ ~h.ready THEN host' = h /\ UNCHANGED <<given, lost>>
  ELSE /\ host' = [h EXCEPT !.pending = ""]
       /\ IF inner'[Drawer(h)] = "up" THEN given' = [given EXCEPT ![Drawer(h)] = h.pending] /\ UNCHANGED lost
          ELSE lost' = TRUE /\ UNCHANGED given

\* Mutant before it: a renderer that was ready makes the map page count as ready.
Shown_KeepsReady(spec) == [parent |-> TRUE, map |-> spec = "map", ready |-> host.ready, pending |-> IF spec = "refused" THEN "" ELSE spec]
\* What the page knows once it was handed a spec; the map page has to say itself that it is ready.
Shown(spec) ==
  [parent |-> TRUE, map |-> spec = "map", ready |-> host.ready /\ spec # "map", pending |-> IF spec = "refused" THEN "" ELSE spec]

\* The widget speaks, once.
Show(spec) ==
  /\ ~host.parent
  /\ inner' = IF spec = "map" THEN [renderer |-> "gone", mapPage |-> "loading"] ELSE inner
  /\ Send(Shown(spec))
  /\ told' = IF spec = "refused" THEN [told EXCEPT !.words = "failed"] ELSE told
  /\ UNCHANGED <<heard, tall, high>>

Clamped(h) == IF h < Low THEN Low ELSE IF h > High THEN High ELSE h

\* Mutant before it: any frame's message counts.
Mine_Any(message) == TRUE
\* Only the frame that draws is listened to; the one it replaced may still have spoken.
Mine(message) == message.from = Drawer(host)

Hear ==
  /\ heard # <<>>
  /\ heard' = Tail(heard)
  /\ LET message == Head(heard) IN
     IF ~Mine(message) THEN UNCHANGED <<host, inner, given, lost, high, told>>
     ELSE CASE message.says = "ready" -> /\ UNCHANGED <<inner, high, told>>
                                         /\ Send([host EXCEPT !.ready = TRUE])
            [] message.says = "height" -> /\ high' = Clamped(message.tall)
                                          /\ told' = [told EXCEPT !.height = Clamped(message.tall)]
                                          /\ UNCHANGED <<host, inner, given, lost>>
            [] message.says = "error" -> /\ told' = [told EXCEPT !.words = "failed"]
                                         /\ UNCHANGED <<host, inner, given, lost, high>>
  /\ UNCHANGED tall

\* draw of the renderer or the map page: the height, or the error.
Draw(f, h) ==
  /\ given[f] \in {"vega", "map"} /\ inner[f] = "up"
  /\ given' = [given EXCEPT ![f] = "drawn"]
  /\ tall' = h /\ heard' = Says(f, "height", h)
  /\ UNCHANGED <<host, inner, lost, high, told>>

DrawFails(f) ==
  /\ given[f] \in {"vega", "map"} /\ inner[f] = "up"
  /\ given' = [given EXCEPT ![f] = "failed"]
  /\ heard' = Says(f, "error", 0)
  /\ UNCHANGED <<host, inner, lost, tall, high, told>>

\* The renderer's ResizeObserver; the map page says its height once.
Grows(h) ==
  /\ given["renderer"] = "drawn" /\ h # tall /\ Len(heard) < 2
  /\ tall' = h /\ heard' = Says("renderer", "height", h)
  /\ UNCHANGED <<host, inner, given, lost, high, told>>

Next ==
  \/ \E f \in Frames : FrameUp(f) \/ DrawFails(f) \/ \E h \in Tall : Draw(f, h)
  \/ \E spec \in Specs : Show(spec)
  \/ Hear \/ \E h \in Tall : Grows(h)

Spec == Init /\ [][Next]_vars

-----------------------------------------------------------------------------
TypeOK ==
  /\ host.pending \in Specs \cup {""} /\ lost \in BOOLEAN
  /\ \A f \in Frames : inner[f] \in {"none", "loading", "up", "gone"} /\ given[f] \in Specs \cup {"", "drawn", "failed"}
  /\ told.words \in {"", "failed"} /\ high \in {0} \cup Low..High

\* The spec reaches the frame that draws it, whichever of the three pages was up first.
NoSpecIsLost == ~lost

\* Once everything is heard, the widget knows the height of the drawing, or that there is none.
WidgetKnows ==
  heard = <<>> => \A f \in Frames :
    /\ given[f] = "drawn" => told.height = Clamped(tall) /\ high = told.height
    /\ given[f] = "failed" => told.words = "failed"
=============================================================================
