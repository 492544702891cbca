------------------------------- MODULE HslFeed -------------------------------
(***************************************************************************)
(* The live transport app's backend (hsl-transport/src/live.rs and lib.rs):*)
(* one socket to the Endpoint for every viewer, resumed after a close, and *)
(* the whole fleet read over REST when the stream cannot be trusted.       *)
(* `server` is the process, `calls` what the Endpoint holds for its        *)
(* subscription, `seen` what happened, `page` is not used here.            *)
(***************************************************************************)
EXTENDS Naturals, Sequences, FiniteSets

CONSTANTS
  Vehicles,   \* the vehicles of the space
  Fleet,      \* FLEET: vehicles asked for, and taken up from the stream
  MaxMoves,   \* moves of the vehicles, all together
  MaxSockets  \* sockets opened

ConstantsOK == IsFiniteSet(Vehicles) /\ Fleet \in Nat /\ MaxMoves \in Nat /\ MaxSockets \in Nat

VARIABLES
  page,    \* the page's own state, which is HslLive's
  server,  \* [fleet, feed, socket, resume, prev]: the positions it holds, the feed's word, the
           \* socket's stage, the connection it would resume and the one it is resuming
  calls,   \* [held, wire]: the Endpoint keeps a subscription, and its notifications not yet read
  seen     \* [world, moves, sockets, unread]: where the vehicles are, 0 out of the space; those the
           \* last REST read did not bring, as it failed or was cut, and the stream has not since

vars == <<page, server, calls, seen>>

Init ==
  /\ page = "unused"
  /\ server = [fleet |-> [v \in Vehicles |-> 0], feed |-> "lost", socket |-> "down", resume |-> "none", prev |-> "none"]
  /\ calls = [held |-> FALSE, wire |-> <<>>]
  /\ seen = [world |-> [v \in Vehicles |-> 0], moves |-> 0, sockets |-> 0, unread |-> {}]

\* A vehicle moves; the subscription, attached or within the resume window, is told.
Moves(v) ==
  /\ seen.moves < MaxMoves
  /\ seen' = [seen EXCEPT !.moves = @ + 1, !.world[v] = seen.moves + 1]
  /\ calls' = IF calls.held THEN [calls EXCEPT !.wire = Append(@, [of |-> v, at |-> seen.moves + 1])] ELSE calls
  /\ UNCHANGED <<page, server>>

\* A vehicle leaves the space: no notification tells it.
Leaves(v) ==
  /\ seen.moves < MaxMoves /\ seen.world[v] > 0
  /\ seen' = [seen EXCEPT !.moves = @ + 1, !.world[v] = 0]
  /\ UNCHANGED <<page, server, calls>>

\* x-welcome: the resume of the last connection is sent, or a fresh subscription; the new
\* connection becomes the one to resume, subscribed or not.
Welcomed ==
  /\ server.socket = "down" /\ seen.sockets < MaxSockets
  /\ server' = [server EXCEPT !.socket = IF server.resume = "none" THEN "subscribing" ELSE "resuming",
                              !.prev = server.resume, !.resume = "blank"]
  /\ seen' = [seen EXCEPT !.sockets = @ + 1]
  /\ UNCHANGED <<page, calls>>

\* follow after a session: a socket that lived past the longest wait is resumed at once and the
\* feed's word stays; any other end loses the feed.
Word(long) == IF server.resume # "none" /\ long THEN server.feed ELSE "lost"

\* The upgrade fails, at once or after hanging past the longest wait.
OpenFails(long) ==
  /\ server.socket = "down" /\ seen.sockets < MaxSockets
  /\ server' = [server EXCEPT !.feed = Word(long)]
  /\ seen' = [seen EXCEPT !.sockets = @ + 1]
  /\ UNCHANGED <<page, calls>>

\* The socket closes, with x-closing or without, or a subscription is refused.
Closes(long) ==
  /\ server.socket \in {"resuming", "subscribing", "on"}
  /\ server' = [server EXCEPT !.socket = "down", !.feed = Word(long), !.prev = "none"]
  /\ UNCHANGED <<page, calls, seen>>

\* The Endpoint keeps a closed subscription for a window only.
Expires ==
  /\ calls.held /\ server.socket \in {"down", "resuming"}
  /\ calls' = [held |-> FALSE, wire |-> <<>>]
  /\ UNCHANGED <<page, server, seen>>

Resumed ==
  /\ server.socket = "resuming" /\ server.prev = "held" /\ calls.held
  /\ server' = [server EXCEPT !.socket = "on", !.feed = "live", !.resume = "held", !.prev = "none"]
  /\ UNCHANGED <<page, calls, seen>>

\* The window passed: a fresh subscription on the same socket.
ResumeRefused ==
  /\ server.socket = "resuming" /\ (server.prev = "held" => ~calls.held)
  /\ server' = [server EXCEPT !.socket = "subscribing", !.prev = "none"]
  /\ UNCHANGED <<page, calls, seen>>

\* Mutant before it: the answered subscription goes on without reading what the gap hid.
Subscribed_NoRead ==
  /\ server.socket = "subscribing"
  /\ server' = [server EXCEPT !.socket = "on", !.feed = "live", !.resume = "held"]
  /\ calls' = [held |-> TRUE, wire |-> <<>>]
  /\ UNCHANGED <<page, seen>>
Subscribed ==
  /\ server.socket = "subscribing"
  /\ server' = [server EXCEPT !.socket = "reading", !.resume = "held"]
  /\ calls' = [held |-> TRUE, wire |-> <<>>]
  /\ UNCHANGED <<page, seen>>

\* The Endpoint answers at most Fleet of the vehicles of the space, those it likes.
Placed == {v \in Vehicles : seen.world[v] > 0}
Answers == {answer \in SUBSET Placed : Cardinality(answer) <= Fleet /\ (answer = Placed \/ Cardinality(answer) = Fleet)}

\* reread: what the Endpoint answers over REST, then the feed is live; a vehicle gone from the answer stays.
Reread(answer) ==
  /\ server.socket = "reading" /\ answer \in Answers
  /\ server' = [server EXCEPT !.socket = "on", !.feed = "live",
                              !.fleet = [v \in Vehicles |-> IF v \in answer THEN seen.world[v] ELSE server.fleet[v]]]
  /\ seen' = [seen EXCEPT !.unread = Placed \ answer]
  /\ UNCHANGED <<page, calls>>

\* A failed read is logged: the feed's word stays what it was and nothing reads again.
RereadFails ==
  /\ server.socket = "reading"
  /\ server' = [server EXCEPT !.socket = "on"]
  /\ seen' = [seen EXCEPT !.unread = Vehicles]
  /\ UNCHANGED <<page, calls>>

\* The fleet holds all the vehicles it takes up from the stream.
Known == {v \in Vehicles : server.fleet[v] > 0}
Full == Cardinality(Known) >= Fleet

\* notified: the vehicle the notification names moves, unless it is a new one and the fleet is full.
Notified ==
  LET move == Head(calls.wire) IN
  /\ server.socket = "on" /\ calls.wire # <<>>
  /\ server' = IF move.of \notin Known /\ Full THEN server ELSE [server EXCEPT !.fleet[move.of] = move.at]
  /\ calls' = [calls EXCEPT !.wire = Tail(@)]
  /\ seen' = [seen EXCEPT !.unread = @ \ {move.of}]
  /\ UNCHANGED page

\* x-gap: notifications were dropped; the feed is lost until the fleet is read.
Gap ==
  /\ server.socket = "on" /\ calls.wire # <<>>
  /\ calls' = [calls EXCEPT !.wire = <<>>]
  /\ server' = [server EXCEPT !.socket = "reading", !.feed = "lost"]
  /\ UNCHANGED <<page, seen>>

Next ==
  \/ \E v \in Vehicles : Moves(v) \/ Leaves(v)
  \/ \E answer \in SUBSET Vehicles : Reread(answer)
  \/ \E long \in BOOLEAN : OpenFails(long) \/ Closes(long)
  \/ Welcomed \/ Expires \/ Resumed \/ ResumeRefused \/ Subscribed \/ RereadFails \/ Notified \/ Gap

Spec == Init /\ [][Next]_vars

TypeOK ==
  /\ server \in [fleet : [Vehicles -> 0..MaxMoves], feed : {"live", "lost"},
                 socket : {"down", "resuming", "subscribing", "reading", "on"},
                 resume : {"none", "blank", "held"}, prev : {"none", "blank", "held"}]
  /\ calls.held \in BOOLEAN /\ calls.wire \in Seq([of : Vehicles, at : 1..MaxMoves])
  /\ seen.moves \in 0..MaxMoves /\ seen.sockets \in 0..MaxSockets /\ seen.unread \subseteq Vehicles

\* A vehicle is where the server has it, or is one more than the fleet takes up.
Shown(v) == seen.world[v] > 0 => server.fleet[v] = seen.world[v] \/ (v \notin Known /\ Full)
CaughtUp == server.feed = "live" /\ server.socket = "on" /\ calls.wire = <<>>

\* live.rs:7 -- a feed called live, on a socket with nothing left to read, has every vehicle of the space
\* where it is, but for those the read that was to fill a gap did not bring, as it failed or stopped at
\* the fleet's size, and for new ones beyond a full fleet.
LiveIsComplete == CaughtUp => \A v \in Vehicles \ seen.unread : Shown(v)

\* lib.rs:128 says the feed is lost while the map may have missed a move. A refused resume whose
\* REST read fails, or a resume after such a read, is called live all the same.
LiveMissesNothing == CaughtUp => \A v \in Known : Shown(v)

-----------------------------------------------------------------------------
(***************************************************************************)
(* Why LiveIsComplete holds: what the subscription has told of a vehicle,  *)
(* and the server not read yet, ends where the vehicle is; and a vehicle   *)
(* it has not told of is where the server has it, but for a fleet that is  *)
(* about to be read or full, and what its last read did not bring. A full  *)
(* fleet stays so: no vehicle leaves it.                                   *)
(***************************************************************************)
Untold(v) == \A k \in DOMAIN calls.wire : calls.wire[k].of # v
Newest(v, k) ==
  /\ calls.wire[k].of = v /\ calls.wire[k].at = seen.world[v]
  /\ \A j \in DOMAIN calls.wire : j > k => calls.wire[j].of # v

FeedInv ==
  /\ server \in [fleet : [Vehicles -> Nat], feed : {"live", "lost"},
                 socket : {"down", "resuming", "subscribing", "reading", "on"},
                 resume : {"none", "blank", "held"}, prev : {"none", "blank", "held"}]
  /\ calls \in [held : BOOLEAN, wire : Seq([of : Vehicles, at : Nat \ {0}])]
  /\ seen \in [world : [Vehicles -> Nat], moves : Nat, sockets : Nat, unread : SUBSET Vehicles]
  /\ server.socket \in {"reading", "on"} => calls.held
  /\ \A v \in Vehicles : calls.held /\ seen.world[v] > 0 =>
       /\ Untold(v) \/ \E k \in DOMAIN calls.wire : Newest(v, k)
       /\ Untold(v) /\ server.socket # "reading" /\ v \notin seen.unread => Shown(v)
=============================================================================
