--------------------------- MODULE IncidentLedger ---------------------------
(***************************************************************************)
(* What the status page promises about the incidents it opens itself, with *)
(* no surfaces' runs, no probe and no files: one ledger, at most one       *)
(* incident open, incidents told one after the other, a closed one never   *)
(* rewritten.  The ledger has a stored copy; the process may fall back to  *)
(* it, and the copy may be ruined, which starts an empty ledger.           *)
(***************************************************************************)
EXTENDS Naturals

CONSTANT NoIncident

VARIABLES
    ledger,  \* [open, closed] as the process has it
    stored   \* the copy it starts from

vars == <<ledger, stored>>

Empty == [open |-> NoIncident, closed |-> {}]

Init == ledger = Empty /\ stored = Empty

\* Closed incidents only leave: no step but Close adds or changes one.
Forget == ledger'.closed \subseteq ledger.closed

\* An incident opens, after every incident told so far.
Open ==
    /\ ledger.open = NoIncident
    /\ ledger'.open # NoIncident
    /\ \A i \in ledger'.closed : i.end <= ledger'.open.start
    /\ Forget
    /\ UNCHANGED stored

\* The open incident goes on: the same start, its surfaces and last bad minute only grow.
GoOn ==
    /\ ledger.open # NoIncident
    /\ ledger'.open # NoIncident
    /\ ledger'.open.start = ledger.open.start
    /\ ledger.open.surfaces \subseteq ledger'.open.surfaces
    /\ ledger.open.lastBad <= ledger'.open.lastBad
    /\ ledger.open.worst = "down" => ledger'.open.worst = "down"
    /\ Forget
    /\ UNCHANGED stored

\* It closes as it was last told, one minute after its last bad one.
Close ==
    /\ ledger.open # NoIncident
    /\ ledger'.open = NoIncident
    /\ \A i \in ledger'.closed \ ledger.closed :
          /\ i.start = ledger.open.start
          /\ i.surfaces = ledger.open.surfaces
          /\ i.worst = ledger.open.worst
          /\ i.end = ledger.open.lastBad + 1
          /\ i.end > i.start
    /\ UNCHANGED stored

\* A minute with none open only drops what is too old.
Quiet == ledger.open = NoIncident /\ ledger'.open = NoIncident /\ Forget /\ UNCHANGED stored

Store == stored' = ledger /\ UNCHANGED ledger

FallBack == ledger' = stored /\ UNCHANGED stored

Ruin == ledger' = Empty /\ stored' = Empty

Next == Open \/ GoOn \/ Close \/ Quiet \/ Store \/ FallBack \/ Ruin

Spec == Init /\ [][Next]_vars

=============================================================================
