------------------------- MODULE RotateSecret_proofs -------------------------
(***************************************************************************)
(* Proofs about RotateSecret, for every number of namespaces and readers,  *)
(* every class of credential and any number of runs, failing calls,        *)
(* interruptions and pods that die; and, at the end, about the other       *)
(* keeper of a credential, the catalogue's token Job (TokenJob).           *)
(***************************************************************************)
EXTENDS RotateSecret, TokenJob, WellFoundedInduction, TLAPS

USE NamespacesAssumption, ReadersAssumption, PlaceAssumption, ClassesAssumption,
    RotationBoundsAssumption, GoneAssumption

(***************************************************************************)
(* A loop's next namespace and the generator's first are namespaces.       *)
(***************************************************************************)
LEMMA LeastExists ==
    ASSUME NEW S, S \subseteq Nat, S # {}
    PROVE  \E x \in S : \A y \in S : x <= y
<1>1. \E x \in S : \A y \in S : <<y, x>> \notin OpToRel(<, Nat)
  BY NatLessThanWellFounded, WFMin
<1>2. PICK x \in S : \A y \in S : <<y, x>> \notin OpToRel(<, Nat)
  BY <1>1
<1>3. \A y \in S : ~ (y < x)
  BY <1>2 DEF OpToRel
<1>4. \A y \in S : x <= y
  BY <1>3
<1> QED
  BY <1>4

LEMMA LowestIn ==
    ASSUME NEW ns, ns \subseteq Namespaces, ns # {}
    PROVE  Lowest(ns) \in ns
<1>1. \E n \in ns : \A m \in ns : n <= m
  BY LeastExists
<1> QED
  BY <1>1 DEF Lowest

LEMMA FirstListedIn ==
    ASSUME NEW ns, ns \subseteq Namespaces, ns # {}
    PROVE  FirstListed(ns) \in ns
<1> DEFINE places == {Place[n] : n \in ns}
<1>1. places \subseteq Nat /\ places # {}
  <2>1. PICK n \in ns : TRUE
    OBVIOUS
  <2>2. Place[n] \in places
    BY <2>1
  <2> QED
    BY <2>2
<1>2. PICK p \in places : \A q \in places : p <= q
  BY <1>1, LeastExists
<1>3. \E n \in ns : \A m \in ns : Place[n] <= Place[m]
  BY <1>2
<1> QED
  BY <1>3 DEF FirstListed

(***************************************************************************)
(* What the generator release writes.                                      *)
(***************************************************************************)
LEMMA Generated ==
    ASSUME TypeOK, NEW ns \in SUBSET Namespaces, Generate(ns)
    PROVE  /\ GeneratedValue \in Values
           /\ copies' \in [Namespaces -> Copies \cup {Gone}]
           /\ newest' \in Values
           /\ \A n \in ns : copies'[n] # Gone /\ copies'[n].val = GeneratedValue
           /\ \A n \in Namespaces \ ns : copies'[n] = copies[n]
<1>1. copies \in [Namespaces -> Copies \cup {Gone}] /\ newest \in Values
  BY DEF TypeOK, WorldOK
<1>2. GeneratedValue \in Values
  <2>1. CASE Existing = {}
    BY <1>1, <2>1 DEF GeneratedValue, Values, Generate
  <2>2. CASE Existing # {}
    <3>1. FirstListed(Existing) \in Existing
      BY <2>2, FirstListedIn DEF Existing
    <3>2. copies[FirstListed(Existing)] \in Copies
      BY <1>1, <3>1 DEF Existing
    <3> QED
      BY <2>2, <3>2 DEF GeneratedValue, Copies
  <2> QED
    BY <2>1, <2>2
<1>3. \A n \in ns :
         [val |-> GeneratedValue,
          prev |-> IF copies[n] = Gone THEN None ELSE copies[n].prev] \in Copies
  BY <1>1, <1>2 DEF Copies
<1>4. copies' = Filled(ns) /\ newest' \in {newest, GeneratedValue}
  BY DEF Generate
<1>5. /\ Filled(ns) \in [Namespaces -> Copies \cup {Gone}]
      /\ \A n \in ns : Filled(ns)[n] \in Copies /\ Filled(ns)[n].val = GeneratedValue
      /\ \A n \in Namespaces \ ns : Filled(ns)[n] = copies[n]
  BY <1>1, <1>3 DEF Filled
<1> QED
  BY <1>1, <1>2, <1>4, <1>5

\* A release that makes every copy leaves one value.
LEMMA GeneratedEverywhere ==
    ASSUME TypeOK, Generate(Namespaces)
    PROVE  OneValue'
<1>1. \A n \in Namespaces : copies'[n] # Gone /\ copies'[n].val = GeneratedValue
  BY Generated
<1> QED
  BY <1>1 DEF OneValue

(***************************************************************************)
(* The invariant.                                                          *)
(***************************************************************************)
LEMMA InitIInv == Init => IInv
<1> SUFFICES ASSUME Init PROVE IInv
  OBVIOUS
<1>1. TypeOK
  <2>1. [val |-> 0, prev |-> None] \in Copies /\ 0 \in Values
    BY DEF Copies, Values
  <2>2. copies \in [Namespaces -> Copies \cup {Gone}] /\ pods \in [Readers -> Copies \cup {Gone}]
    BY <2>1 DEF Init
  <2>3. saved \in [Namespaces -> Copies \cup {Gone}]
    BY DEF Init
  <2>4. accepts \subseteq Values /\ newest \in Values /\ old \in Values \cup {None} /\ new \in Values \cup {None}
    BY <2>1 DEF Init
  <2>5. runs \in 0..MaxRuns /\ deaths \in 0..MaxDeaths /\ failures \in 0..MaxFailures
    BY DEF Init
  <2> QED
    BY <2>2, <2>3, <2>4, <2>5 DEF Init, TypeOK, WorldOK, ScriptOK, BoundsOK
<1>2. Accepted
  BY DEF Init, Accepted, Done, Values
<1> QED
  BY <1>1, <1>2 DEF Init, IInv, Phases, Made, Done, Kept, Restarted, PutBackSoFar,
                    BackMeansBack, ReadersCanStart

(***************************************************************************)
(* The type of every variable.                                             *)
(***************************************************************************)
LEMMA ThisIn ==
    ASSUME TypeOK, left # {}
    PROVE  This \in left /\ This \in names /\ This \in Namespaces
  BY LowestIn DEF This, TypeOK, ScriptOK

LEMMA CallFailsType ==
    ASSUME BoundsOK, CallFails
    PROVE  BoundsOK'
  BY DEF BoundsOK, CallFails

LEMMA EndsType ==
    ASSUME ScriptOK, NEW how \in {"rotated", "died"}, Ends(how)
    PROVE  ScriptOK'
  BY DEF ScriptOK, Ends

LEMMA GoesType ==
    ASSUME ScriptOK, NEW step \in {"make", "push", "compare", "restore", "restart", pc},
           NEW over \in SUBSET names, Goes(step, over)
    PROVE  ScriptOK'
  BY DEF ScriptOK, Goes

\* restore_and_die.
LEMMA GivesUpType ==
    ASSUME ScriptOK, BoundsOK, GivesUp
    PROVE  ScriptOK' /\ BoundsOK'
  BY GoesType, CallFailsType DEF GivesUp

\* The same where the script only goes on.
LEMMA GoesOnType ==
    ASSUME ScriptOK, BoundsOK, UNCHANGED bounds,
           NEW step \in {"make", "push", "compare", "restore", "restart", pc},
           NEW over \in SUBSET names, Goes(step, over)
    PROVE  ScriptOK' /\ BoundsOK'
  BY GoesType DEF bounds, BoundsOK

LEMMA NextTypeOK == IInv /\ [Next]_vars => TypeOK'
<1> SUFFICES ASSUME IInv, [Next]_vars
             PROVE  TypeOK'
  OBVIOUS
<1>1. TypeOK /\ WorldOK /\ ScriptOK /\ BoundsOK
  BY DEF IInv, TypeOK
<1>2. CASE OtherApply
  BY <1>1, <1>2, Generated DEF OtherApply, TypeOK, WorldOK, ScriptOK, BoundsOK, script, bounds
<1>3. CASE Reload
  <2>1. copies[Home].val \in Values
    BY <1>1, <1>3 DEF Reload, WorldOK, Copies
  <2> QED
    BY <1>1, <1>3, <2>1 DEF Reload, TypeOK, WorldOK, ScriptOK, BoundsOK, script, bounds
<1>4. ASSUME NEW r \in Readers, PodDies(r)
      PROVE  TypeOK'
  <2>1. WorldOK'
    BY <1>1, <1>4 DEF PodDies, WorldOK
  <2>2. BoundsOK'
    BY <1>1, <1>4 DEF PodDies, BoundsOK
  <2> QED
    BY <1>1, <1>4, <2>1, <2>2 DEF PodDies, TypeOK, ScriptOK, script
<1>5. ASSUME NEW r \in Readers, PodStarts(r)
      PROVE  TypeOK'
  BY <1>1, <1>5 DEF PodStarts, TypeOK, WorldOK, ScriptOK, BoundsOK, script, bounds
<1>6. ASSUME NEW r \in Readers, RestartReader(r)
      PROVE  TypeOK'
  BY <1>1, <1>6 DEF RestartReader, TypeOK, WorldOK, ScriptOK, BoundsOK, bounds
<1>7. ASSUME NEW r \in Readers, RestartFails(r)
      PROVE  TypeOK'
  <2>1. WorldOK'
    BY <1>1, <1>7 DEF RestartFails, WorldOK
  <2> QED
    BY <1>1, <1>7, <2>1, CallFailsType, EndsType DEF RestartFails, TypeOK
<1>8. CASE Begin
  <2>1. Lowest(Existing) \in Existing
    BY <1>8, LowestIn DEF Begin, Existing
  <2>2. copies[Lowest(Existing)].val \in Values
    BY <1>1, <2>1 DEF WorldOK, Copies, Existing
  <2>3. WorldOK'
    BY <1>1, <1>8 DEF Begin, WorldOK
  <2>4. BoundsOK'
    BY <1>1, <1>8 DEF Begin, BoundsOK
  <2>5. ScriptOK'
    BY <1>1, <1>8, <2>2 DEF Begin, NothingLost, WorldOK, ScriptOK, Existing
  <2> QED
    BY <2>3, <2>4, <2>5 DEF TypeOK
<1>9. CASE Delete
  <2>1. WorldOK'
    BY <1>1, <1>9 DEF Delete, WorldOK
  <2>2. CASE Visited("make") /\ UNCHANGED bounds
    <3>1. left \ {This} \in SUBSET names
      BY <1>1 DEF ScriptOK
    <3> QED
      BY <1>1, <2>1, <2>2, <3>1, GoesOnType DEF Visited, TypeOK
  <2> QED
    BY <1>1, <1>9, <2>1, <2>2, GivesUpType DEF Delete, TypeOK
<1>10. CASE Make
  <2>1. WorldOK'
    BY <1>1, <1>10, Generated DEF Make, WorldOK
  <2>2. CASE Goes(IF class = "client" THEN "push" ELSE "compare", {}) /\ UNCHANGED bounds
    BY <1>1, <2>1, <2>2, GoesOnType DEF TypeOK
  <2> QED
    BY <1>1, <1>10, <2>1, <2>2, GivesUpType DEF Make, TypeOK
<1>11. CASE Mint
  <2>1. newest' \in Values /\ [val |-> newest', prev |-> None] \in Copies
    BY <1>1, <1>11 DEF Mint, WorldOK, Values, Copies
  <2>2. WorldOK'
    BY <1>1, <1>11, <2>1 DEF Mint, WorldOK
  <2> QED
    BY <1>1, <1>11, <2>2, GivesUpType, GoesOnType DEF Mint, TypeOK
<1>12. CASE Push
  <2>1. copies[Home].val \in Values
    BY <1>1, <1>12 DEF Push, WorldOK, Copies
  <2>2. WorldOK'
    BY <1>1, <1>12, <2>1 DEF Push, WorldOK
  <2> QED
    BY <1>1, <1>12, <2>2, GivesUpType, GoesOnType DEF Push, TypeOK
<1>13. CASE Compare
  <2>1. names # {}
    BY <1>13 DEF Compare, IInv, Phases
  <2>2. Lowest(names) \in Namespaces
    BY <1>1, <2>1, LowestIn DEF ScriptOK
  <2>3. copies[Lowest(names)] # Gone => copies[Lowest(names)].val \in Values
    BY <1>1, <2>2 DEF WorldOK, Copies
  <2>4. WorldOK'
    BY <1>1, <1>13 DEF Compare, WorldOK, world
  <2>5. CASE Goes("restore", names) /\ UNCHANGED bounds
    BY <1>1, <2>4, <2>5, GoesOnType DEF TypeOK
  <2>6. CASE Ends("died") /\ UNCHANGED bounds
    BY <1>1, <2>4, <2>6, EndsType DEF TypeOK, BoundsOK, bounds
  <2>7. CASE GivesUp
    BY <1>1, <2>4, <2>7, GivesUpType DEF TypeOK
  <2>8. CASE CallFails /\ Ends("died")
    BY <1>1, <2>4, <2>8, CallFailsType, EndsType DEF TypeOK
  <2>9. CASE /\ copies[Lowest(names)] # Gone
             /\ new' = copies[Lowest(names)].val
             /\ saved' = [n \in Namespaces |-> Gone]
             /\ unread' = {r \in Readers : HomeOf[r] \in names}
             /\ IF class = "cookie" THEN pc' = "keep" /\ left' = names
                                    ELSE pc' = "restart" /\ left' = {}
             /\ UNCHANGED <<names, old, lost, outcome>>
             /\ UNCHANGED bounds
    <3>1. ScriptOK'
      BY <1>1, <2>3, <2>9 DEF ScriptOK
    <3> QED
      BY <1>1, <2>4, <2>9, <3>1 DEF TypeOK, BoundsOK, bounds
  <2> QED
    BY <1>13, <2>5, <2>6, <2>7, <2>8, <2>9 DEF Compare
<1>14. CASE Keep
  <2>1. This \in Namespaces
    BY <1>1, <1>14, ThisIn DEF Keep, IInv, Phases
  <2>2. copies[This] # Gone => [copies[This] EXCEPT !.prev = old] \in Copies
    BY <1>1, <2>1 DEF WorldOK, ScriptOK, Copies
  <2>3. WorldOK'
    BY <1>1, <1>14, <2>1, <2>2 DEF Keep, Retired, WorldOK
  <2>4. CASE Visited("restart") /\ UNCHANGED bounds
    <3>1. left \ {This} \in SUBSET names
      BY <1>1 DEF ScriptOK
    <3> QED
      BY <1>1, <2>3, <2>4, <3>1, GoesOnType DEF Visited, TypeOK
  <2>5. CASE CallFails /\ Ends("died")
    BY <1>1, <2>3, <2>5, CallFailsType, EndsType DEF TypeOK
  <2> QED
    BY <1>14, <2>4, <2>5 DEF Keep
<1>15. CASE Measure
  <2>1. WorldOK'
    BY <1>1, <1>15 DEF Measure, WorldOK, world
  <2>2. PICK how \in {"rotated", "died"} : Ends(how) /\ (UNCHANGED bounds \/ CallFails)
    BY <1>15 DEF Measure
  <2>3. ScriptOK'
    BY <1>1, <2>2, EndsType
  <2>4. BoundsOK'
    BY <1>1, <2>2, CallFailsType DEF BoundsOK, bounds
  <2> QED
    BY <2>1, <2>3, <2>4 DEF TypeOK
<1>16. CASE Restore
  <2>1. This \in Namespaces /\ This \in names
    BY <1>1, <1>16, ThisIn DEF Restore, IInv, Phases
  <2>2. WorldOK'
    BY <1>1, <1>16, <2>1 DEF Restore, PutBack, CallFails, WorldOK, ScriptOK
  <2>3. ScriptOK'
    BY <1>1, <1>16, <2>1 DEF Restore, ScriptOK
  <2>4. BoundsOK'
    BY <1>1, <1>16, CallFailsType DEF Restore, BoundsOK, bounds
  <2> QED
    BY <2>2, <2>3, <2>4 DEF TypeOK
<1>17. CASE Killed
  <2>1. WorldOK' /\ ScriptOK'
    BY <1>1, <1>17 DEF Killed, WorldOK, ScriptOK, world
  <2> QED
    BY <1>1, <1>17, <2>1, CallFailsType DEF Killed, TypeOK
<1>18. CASE UNCHANGED vars
  BY <1>1, <1>18 DEF vars, world, script, bounds, TypeOK, WorldOK, ScriptOK, BoundsOK
<1> QED
  BY <1>2, <1>3, <1>4, <1>5, <1>6, <1>7, <1>8, <1>9, <1>10, <1>11, <1>12, <1>13, <1>14,
     <1>15, <1>16, <1>17, <1>18 DEF Next

(***************************************************************************)
(* Where the script is.                                                    *)
(***************************************************************************)
\* A loop goes on until it has visited everything.
LEMMA LoopPhases ==
    ASSUME IInv, NEW next, left # {}, Visited(next)
    PROVE  /\ left' = left \ {This}
           /\ pc' = IF left' = {} THEN next ELSE pc
           /\ UNCHANGED <<unread, names, old, new, saved, lost, outcome>>
<1>1. This \in left
  BY ThisIn DEF IInv
<1>2. left = {This} <=> left \ {This} = {}
  BY <1>1
<1> QED
  BY <1>2 DEF Visited, Goes

LEMMA GivesUpPhases ==
    ASSUME IInv, pc \in {"delete", "make", "push", "compare"}, GivesUp, UNCHANGED class
    PROVE  Phases' /\ pc' = "restore" /\ left' = names
<1>1. pc' = "restore" /\ left' = names /\ UNCHANGED <<names, outcome, saved>>
  BY DEF GivesUp, Goes
<1>2. names # {} /\ outcome = "none" /\ \A n \in names : saved[n] # Gone
  BY DEF IInv, Phases
<1> QED
  BY <1>1, <1>2 DEF Phases

LEMMA EndsPhases ==
    ASSUME IInv, pc # "idle", NEW how \in {"rotated", "died"}, Ends(how), UNCHANGED class
    PROVE  Phases' /\ pc' = "idle"
BY DEF Ends, IInv, Phases

LEMMA NextPhases == IInv /\ [Next]_vars => Phases'
<1> SUFFICES ASSUME IInv, [Next]_vars
             PROVE  Phases'
  OBVIOUS
<1>1. Phases
  BY DEF IInv
<1>2. CASE UNCHANGED script /\ UNCHANGED class
  BY <1>1, <1>2 DEF Phases, script
<1>3. ASSUME NEW r \in Readers, RestartReader(r)
      PROVE  Phases'
  BY <1>1, <1>3 DEF RestartReader, Phases
<1>4. ASSUME NEW r \in Readers, RestartFails(r)
      PROVE  Phases'
  BY <1>4, EndsPhases DEF RestartFails
<1>5. CASE Begin
  BY <1>5 DEF Begin, Phases, Existing
<1>6. CASE Delete
  <2>1. CASE Visited("make") /\ UNCHANGED class
    BY <1>1, <1>6, <2>1, LoopPhases DEF Delete, Phases
  <2> QED
    BY <1>6, <2>1, GivesUpPhases DEF Delete
<1>7. CASE Make
  <2>1. CASE Goes(IF class = "client" THEN "push" ELSE "compare", {}) /\ UNCHANGED class
    BY <1>1, <1>7, <2>1 DEF Make, Goes, Phases
  <2> QED
    BY <1>7, <2>1, GivesUpPhases DEF Make
<1>8. CASE Mint
  <2>1. CASE Goes("compare", {}) /\ UNCHANGED class
    BY <1>1, <1>8, <2>1 DEF Mint, Goes, Phases
  <2> QED
    BY <1>8, <2>1, GivesUpPhases DEF Mint
<1>9. CASE Push
  <2>1. CASE Goes("compare", {}) /\ UNCHANGED class
    BY <1>1, <1>9, <2>1 DEF Push, Goes, Phases
  <2> QED
    BY <1>9, <2>1, GivesUpPhases DEF Push
<1>10. CASE Compare
  <2>1. CASE Goes("restore", names)
    BY <1>1, <1>10, <2>1 DEF Compare, world, Goes, Phases
  <2>2. CASE Ends("died")
    BY <1>10, <2>2, EndsPhases DEF Compare, world
  <2>3. CASE GivesUp
    BY <1>10, <2>3, GivesUpPhases DEF Compare, world
  <2>4. CASE /\ IF class = "cookie" THEN pc' = "keep" /\ left' = names
                                    ELSE pc' = "restart" /\ left' = {}
             /\ UNCHANGED <<names, old, lost, outcome>>
    BY <1>1, <1>10, <2>4 DEF Compare, world, Phases
  <2> QED
    BY <1>10, <2>1, <2>2, <2>3, <2>4 DEF Compare
<1>11. CASE Keep
  <2>1. CASE Visited("restart")
    BY <1>1, <1>11, <2>1, LoopPhases DEF Keep, Phases
  <2> QED
    BY <1>11, <2>1, EndsPhases DEF Keep
<1>12. CASE Measure
  BY <1>12, EndsPhases DEF Measure, world
<1>13. CASE Restore
  BY <1>1, <1>13 DEF Restore, Phases
<1>14. CASE Killed
  BY <1>1, <1>14 DEF Killed, Phases, world
<1> QED
  BY <1>2, <1>3, <1>4, <1>5, <1>6, <1>7, <1>8, <1>9, <1>10, <1>11, <1>12, <1>13, <1>14
     DEF Next, OtherApply, Reload, PodDies, PodStarts, vars, world

(***************************************************************************)
(* The copies, once they are made again.                                   *)
(***************************************************************************)
\* No other apply finds anything to write then.
LEMMA NothingToApply ==
    ASSUME OneValue
    PROVE  ~ OtherApply
BY DEF OneValue, OtherApply, Existing

\* The copies are one value, whatever the script does next, until they are deleted.
LEMMA OneValueStays ==
    ASSUME OneValue, UNCHANGED copies
    PROVE  OneValue'
BY DEF OneValue

LEMMA ReplacedStays ==
    ASSUME Replaced, UNCHANGED <<copies, new, old>>
    PROVE  Replaced'
BY DEF OneValue, Replaced

LEMMA KeepWrites ==
    ASSUME IInv, Keep
    PROVE  /\ This \in left /\ This \in Namespaces
           /\ \A n \in Namespaces : copies'[n].val = copies[n].val /\ copies'[n] # Gone
           /\ \A n \in Namespaces \ {This} : copies'[n] = copies[n]
           /\ (copies'[This].prev = old /\ Visited("restart")) \/ Ends("died")
<1>1. TypeOK /\ WorldOK /\ ScriptOK /\ left # {} /\ OneValue
  BY DEF IInv, TypeOK, Phases, Made, Replaced, Keep
<1>2. This \in left /\ This \in Namespaces
  BY <1>1, ThisIn
<1>3. copies[This] \in Copies
  BY <1>1, <1>2 DEF WorldOK, OneValue
<1>4. [copies[This] EXCEPT !.prev = old] \in Copies
  BY <1>1, <1>3 DEF ScriptOK, Copies
<1>5. CASE UNCHANGED copies /\ Ends("died")
  BY <1>1, <1>2, <1>5 DEF OneValue
<1>6. CASE copies' = [copies EXCEPT ![This].prev = Retired] /\ Visited("restart")
  <2>1. copies'[This] = [copies[This] EXCEPT !.prev = old]
    BY <1>1, <1>2, <1>6 DEF WorldOK, Retired
  <2>2. copies'[This].val = copies[This].val /\ copies'[This].prev = old /\ copies'[This] # Gone
    BY <1>3, <1>4, <2>1 DEF Copies
  <2>3. \A n \in Namespaces \ {This} : copies'[n] = copies[n]
    BY <1>1, <1>2, <1>6 DEF WorldOK
  <2> QED
    BY <1>1, <1>2, <1>6, <2>2, <2>3 DEF OneValue
<1> QED
  BY <1>5, <1>6 DEF Keep

LEMMA NextMade == IInv /\ [Next]_vars => Made'
<1> SUFFICES ASSUME IInv, [Next]_vars
             PROVE  Made'
  OBVIOUS
<1>1. TypeOK /\ Phases /\ Made
  BY DEF IInv
<1>2. CASE UNCHANGED <<copies, pc, old, new, outcome>>
  BY <1>1, <1>2 DEF Made, Done, OneValue, Replaced
<1>3. CASE OtherApply
  <2>1. ~ OneValue /\ UNCHANGED <<pc, old, new, outcome>>
    BY <1>3, NothingToApply DEF OtherApply, script
  <2> QED
    BY <1>1, <2>1 DEF Made, Done, Replaced
<1>4. ASSUME NEW r \in Readers, RestartFails(r)
      PROVE  Made'
  BY <1>4 DEF RestartFails, Ends, Made, Done
<1>5. CASE Begin
  BY <1>5 DEF Begin, Made, Done
<1>6. CASE Delete
  <2>1. pc' \in {"delete", "make", "restore"} /\ outcome' = "none"
    BY <1>1, <1>6, LoopPhases DEF Delete, GivesUp, Goes, Phases, IInv
  <2> QED
    BY <2>1 DEF Made, Done
<1>7. CASE Make
  <2>1. outcome' = "none" /\ pc' \in {"push", "compare", "restore"}
    BY <1>1, <1>7 DEF Make, GivesUp, Goes, Phases
  <2>2. CASE pc' = "restore"
    BY <2>1, <2>2 DEF Made, Done
  <2>3. CASE Generate(Namespaces)
    BY <1>1, <2>1, <2>3, GeneratedEverywhere DEF Made, Done
  <2> QED
    BY <1>7, <2>2, <2>3 DEF Make, GivesUp, Goes
<1>8. CASE Mint
  <2>1. outcome' = "none" /\ pc' \in {"compare", "restore"}
    BY <1>1, <1>8 DEF Mint, GivesUp, Goes, Phases
  <2>2. CASE pc' = "restore"
    BY <2>1, <2>2 DEF Made, Done
  <2>3. CASE copies' = [n \in Namespaces |-> [val |-> newest', prev |-> None]]
    <3>1. newest' \in Values
      BY <1>1, <1>8 DEF Mint, TypeOK, WorldOK, Values
    <3>2. [val |-> newest', prev |-> None] \in Copies
      BY <3>1 DEF Copies
    <3> QED
      BY <2>1, <2>3, <3>2 DEF Made, Done, OneValue
  <2> QED
    BY <1>8, <2>2, <2>3 DEF Mint, GivesUp, Goes
<1>9. CASE Push
  BY <1>1, <1>9, OneValueStays DEF Push, GivesUp, Goes, Made, Done, Phases
<1>10. CASE Compare
  <2>1. OneValue /\ outcome = "none" /\ UNCHANGED copies /\ names # {} /\ names \subseteq Namespaces
    BY <1>1, <1>10 DEF Compare, world, Made, Phases, TypeOK, ScriptOK
  <2>2. CASE pc' \in {"idle", "restore"} /\ outcome' \in {"none", "died"}
    BY <2>2 DEF Made, Done
  <2>3. CASE /\ AllNew /\ new' = copies[Lowest(names)].val
             /\ pc' \in {"keep", "restart"} /\ UNCHANGED <<old, outcome>>
    <3>1. Lowest(names) \in names
      BY <2>1, LowestIn
    <3>2. new' = copies[Home].val /\ new' # old
      BY <2>1, <2>3, <3>1 DEF AllNew, OneValue
    <3> QED
      BY <2>1, <2>3, <3>2 DEF Made, Done, Replaced, OneValue
  <2> QED
    BY <1>10, <2>1, <2>2, <2>3 DEF Compare, Goes, GivesUp, Ends
<1>11. CASE Keep
  <2>1. OneValue' /\ copies'[Home].val = copies[Home].val
    BY <1>1, <1>11, KeepWrites DEF Keep, Made, Replaced, OneValue
  <2>2. UNCHANGED <<old, new>> /\ Replaced
    BY <1>1, <1>11 DEF Keep, Made, Visited, Goes, Ends
  <2>3. pc' \in {"keep", "restart", "idle"} /\ outcome' # "rotated"
    BY <1>1, <1>11 DEF Keep, Visited, Goes, Ends, Phases
  <2> QED
    BY <2>1, <2>2, <2>3 DEF Made, Done, Replaced
<1>12. CASE Measure
  <2>1. Replaced /\ UNCHANGED <<copies, old, new>> /\ pc' = "idle"
    BY <1>1, <1>12 DEF Measure, world, Ends, Made
  <2> QED
    BY <2>1, ReplacedStays DEF Made
<1>13. CASE Restore
  BY <1>1, <1>13 DEF Restore, Made, Done, Phases
<1>14. CASE Killed
  BY <1>14 DEF Killed, Made, Done
<1> QED
  BY <1>2, <1>3, <1>4, <1>5, <1>6, <1>7, <1>8, <1>9, <1>10, <1>11, <1>12, <1>13, <1>14
     DEF Next, Reload, PodDies, PodStarts, RestartReader, vars, world, script

\* While the copies are one value no apply changes anything.
LEMMA NoApplyMeanwhile ==
    ASSUME IInv, pc \in {"push", "compare", "keep", "restart"} \/ Done
    PROVE  ~ OtherApply
BY NothingToApply DEF IInv, Made, Replaced

(***************************************************************************)
(* What the other side accepts.                                            *)
(***************************************************************************)
LEMMA NextAccepted == IInv /\ [Next]_vars => Accepted'
<1> SUFFICES ASSUME IInv, [Next]_vars
             PROVE  Accepted'
  OBVIOUS
<1>1. TypeOK /\ WorldOK /\ Phases /\ Made /\ Accepted
  BY DEF IInv, TypeOK
<1>2. CASE UNCHANGED <<class, copies, accepts, pc, old, new, outcome>>
  BY <1>1, <1>2 DEF Accepted, Done
<1>3. CASE OtherApply
  <2>1. ~ Done /\ pc \notin {"compare", "restart"}
    BY <1>3, NoApplyMeanwhile
  <2> QED
    BY <1>1, <1>3, <2>1 DEF OtherApply, script, Accepted, Done
<1>4. CASE Reload
  <2>1. copies[Home].val \in Values
    BY <1>1, <1>4 DEF Reload, WorldOK, Copies
  <2>2. Done => copies[Home].val = new /\ new # old
    BY <1>1 DEF Made, Replaced
  <2> QED
    BY <1>4, <2>1, <2>2 DEF Reload, script, Accepted, Done
<1>5. ASSUME NEW r \in Readers, RestartFails(r)
      PROVE  Accepted'
  BY <1>1, <1>5 DEF RestartFails, Ends, Accepted, Done
<1>6. CASE Begin
  BY <1>1, <1>6 DEF Begin, Accepted, Done
<1>7. CASE Delete
  <2>1. pc' \in {"delete", "make", "restore"} /\ outcome' = "none"
    BY <1>1, <1>7, LoopPhases DEF Delete, GivesUp, Goes, Phases, IInv
  <2> QED
    BY <1>1, <1>7, <2>1 DEF Delete, Accepted, Done
<1>8. CASE Make
  <2>1. outcome' = "none" /\ (pc' = "restore" \/ pc' = "push" \/ class \notin {"client", "minted"})
    BY <1>1, <1>8 DEF Make, GivesUp, Goes, Phases
  <2> QED
    BY <1>1, <1>8, <2>1 DEF Make, Accepted, Done
<1>9. CASE Mint
  <2>1. outcome' = "none" /\ pc' \in {"compare", "restore"} /\ class' = "minted"
    BY <1>1, <1>9 DEF Mint, GivesUp, Goes, Phases
  <2>2. pc' = "compare" => accepts' = {copies'[Home].val}
    BY <1>9 DEF Mint, GivesUp, Goes
  <2> QED
    BY <2>1, <2>2 DEF Accepted, Done
<1>10. CASE Push
  <2>1. outcome' = "none" /\ class' = "client" /\ UNCHANGED copies
    BY <1>1, <1>10 DEF Push, GivesUp, Goes, Phases
  <2>2. pc' \in {"compare", "restart"} => accepts' = {copies[Home].val}
    BY <1>10 DEF Push, GivesUp, Goes
  <2> QED
    BY <2>1, <2>2 DEF Accepted, Done
<1>11. CASE Compare
  <2>1. outcome' # "rotated" /\ UNCHANGED <<class, copies, accepts>>
    BY <1>1, <1>11 DEF Compare, world, Goes, GivesUp, Ends, Phases
  <2> QED
    BY <1>1, <1>11, <2>1 DEF Compare, Accepted, Done
<1>12. CASE Keep
  <2>1. outcome' # "rotated" /\ class' = "cookie"
    BY <1>1, <1>12 DEF Keep, Visited, Goes, Ends, Phases
  <2> QED
    BY <2>1 DEF Accepted
<1>13. CASE Measure
  <2>1. UNCHANGED <<class, accepts, old, new>> /\ pc' = "idle" /\ pc = "restart"
    BY <1>13 DEF Measure, world, Ends
  <2>2. new = copies[Home].val /\ new # old
    BY <1>1, <2>1 DEF Made, Replaced
  <2>3. Done' => Measured \/ (Misread /\ class # "cookie")
    BY <1>13 DEF Measure, Ends, Done
  <2>4. Done' /\ class \in {"client", "minted"} => accepts = {new}
    BY <1>1, <2>1, <2>2 DEF Accepted
  <2>5. Done' /\ class = "database" => old \notin accepts /\ new \in accepts
    BY <1>1, <2>2, <2>3 DEF Accepted, Measured, Misread
  <2>6. class \in {"client", "database", "cookie", "minted"}
    BY <1>1 DEF WorldOK
  <2>7. class # "cookie" /\ Done' => old \notin accepts /\ new \in accepts
    BY <2>2, <2>4, <2>5, <2>6
  <2> QED
    BY <1>1, <2>1, <2>7 DEF Accepted
<1>14. CASE Restore
  BY <1>1, <1>14 DEF Restore, Accepted, Done, Phases
<1>15. CASE Killed
  BY <1>1, <1>15 DEF Killed, world, Accepted, Done
<1> QED
  BY <1>2, <1>3, <1>4, <1>5, <1>6, <1>7, <1>8, <1>9, <1>10, <1>11, <1>12, <1>13, <1>14, <1>15
     DEF Next, PodDies, PodStarts, RestartReader, vars, world, script

(***************************************************************************)
(* The session key's old value, under `previous`.                          *)
(***************************************************************************)
LEMMA NextKept == IInv /\ [Next]_vars => Kept'
<1> SUFFICES ASSUME IInv, [Next]_vars
             PROVE  Kept'
  OBVIOUS
<1>1. TypeOK /\ ScriptOK /\ Phases /\ Kept
  BY DEF IInv, TypeOK
<1>2. CASE UNCHANGED <<class, copies, pc, left, names, old, outcome>>
  BY <1>1, <1>2 DEF Kept, Done
<1>3. CASE OtherApply
  <2>1. ~ Done /\ pc \notin {"keep", "restart"}
    BY <1>3, NoApplyMeanwhile
  <2> QED
    BY <2>1, <1>3 DEF OtherApply, script, Kept, Done
<1>4. ASSUME NEW r \in Readers, RestartFails(r)
      PROVE  Kept'
  BY <1>4 DEF RestartFails, Ends, Kept, Done
<1>5. CASE Begin
  BY <1>5 DEF Begin, Kept, Done
<1>6. CASE Delete
  <2>1. pc' \in {"delete", "make", "restore"} /\ outcome' = "none"
    BY <1>1, <1>6, LoopPhases DEF Delete, GivesUp, Goes, Phases, IInv
  <2> QED
    BY <2>1 DEF Kept, Done
<1>7. CASE Make \/ Mint \/ Push
  <2>1. pc' \in {"push", "compare", "restore"} /\ outcome' = "none"
    BY <1>1, <1>7 DEF Make, Mint, Push, GivesUp, Goes, Phases
  <2> QED
    BY <2>1 DEF Kept, Done
<1>8. CASE Compare
  <2>1. outcome' # "rotated" /\ UNCHANGED <<class, names>>
    BY <1>1, <1>8 DEF Compare, world, Goes, GivesUp, Ends, Phases
  <2>2. \/ pc' \in {"idle", "restore"}
        \/ pc' = "keep" /\ left' = names'
        \/ pc' = "restart" /\ class # "cookie"
    BY <1>8 DEF Compare, Goes, GivesUp, Ends
  <2> QED
    BY <2>1, <2>2 DEF Kept, Done
<1>9. CASE Keep
  <2>1. pc = "keep" /\ \A n \in names \ left : copies[n].prev = old
    BY <1>1, <1>9 DEF Keep, Kept
  <2>2. CASE copies'[This].prev = old /\ Visited("restart")
    <3>1. left' = left \ {This} /\ UNCHANGED <<names, old, outcome>>
      BY <1>1, <2>1, <2>2, LoopPhases DEF Phases
    <3>2. \A n \in names \ left' : copies'[n].prev = old
      BY <1>1, <1>9, <2>1, <2>2, <3>1, KeepWrites DEF ScriptOK
    <3>3. pc' = "restart" => left' = {}
      BY <1>1, <2>1, <2>2, LoopPhases DEF Phases
    <3>4. outcome' = "none"
      BY <1>1, <2>1, <3>1 DEF Phases
    <3> QED
      BY <3>1, <3>2, <3>3, <3>4 DEF Kept, Done
  <2>3. CASE Ends("died")
    BY <2>3 DEF Ends, Kept, Done
  <2> QED
    BY <1>9, <2>2, <2>3, KeepWrites
<1>10. CASE Measure
  BY <1>1, <1>10 DEF Measure, world, Ends, Kept, Done
<1>11. CASE Restore
  BY <1>1, <1>11 DEF Restore, Kept, Done, Phases
<1>12. CASE Killed
  BY <1>12 DEF Killed, Kept, Done
<1> QED
  BY <1>2, <1>3, <1>4, <1>5, <1>6, <1>7, <1>8, <1>9, <1>10, <1>11, <1>12
     DEF Next, Reload, PodDies, PodStarts, RestartReader, vars, world, script

(***************************************************************************)
(* The readers, one restarted after the other.                             *)
(***************************************************************************)
\* A reader that starts while the copies are new reads what the rotation made.
LEMMA StartsWithTheNew ==
    ASSUME IInv, pc = "restart" \/ Done, NEW r \in Rotated,
           pods' = [pods EXCEPT ![r] = copies[HomeOf[r]]],
           UNCHANGED <<class, old, new>>
    PROVE  Reads(r)'
<1>1. TypeOK /\ WorldOK /\ Replaced /\ Kept
  BY DEF IInv, TypeOK, Made
<1>2. r \in Readers /\ HomeOf[r] \in names /\ HomeOf[r] \in Namespaces
  BY DEF Rotated
<1>3. pods'[r] = copies[HomeOf[r]]
  BY <1>1, <1>2 DEF WorldOK
<1>4. copies[HomeOf[r]] # Gone /\ copies[HomeOf[r]].val = new
  BY <1>1, <1>2 DEF Replaced, OneValue
<1>5. class = "cookie" => copies[HomeOf[r]].prev = old
  BY <1>1, <1>2 DEF Kept
<1> QED
  BY <1>3, <1>4, <1>5 DEF Reads

\* Whoever else restarts meanwhile, the others keep what they read.
LEMMA OthersKeepReading ==
    ASSUME IInv, NEW r \in Readers, NEW s \in Readers, s # r, Reads(s),
           pods' \in {pods, [pods EXCEPT ![r] = copies[HomeOf[r]]]},
           UNCHANGED <<class, old, new>>
    PROVE  Reads(s)'
BY DEF IInv, TypeOK, WorldOK, Reads

LEMMA NextRestarted == IInv /\ [Next]_vars => Restarted'
<1> SUFFICES ASSUME IInv, [Next]_vars
             PROVE  Restarted'
  OBVIOUS
<1>1. TypeOK /\ ScriptOK /\ Phases /\ Restarted
  BY DEF IInv, TypeOK
<1>2. CASE UNCHANGED <<class, pods, pc, unread, names, old, new, outcome>>
  BY <1>1, <1>2 DEF Restarted, Rotated, Reads, Done
<1>3. ASSUME NEW r \in Readers, PodDies(r) \/ PodStarts(r) \/ RestartReader(r)
      PROVE  Restarted'
  <2>1. /\ pods' = [pods EXCEPT ![r] = copies[HomeOf[r]]]
        /\ UNCHANGED <<class, pc, names, old, new, outcome>>
        /\ unread' \in {unread, unread \ {r}}
        /\ pc = "keep" => unread' = unread
    BY <1>3 DEF PodDies, PodStarts, RestartReader, script
  <2>2. \A s \in Rotated : s # r /\ Reads(s) => Reads(s)'
    BY <2>1, OthersKeepReading DEF Rotated
  <2>3. pc = "restart" \/ Done => (r \in Rotated => Reads(r)')
    BY <2>1, StartsWithTheNew
  <2> QED
    BY <1>1, <2>1, <2>2, <2>3 DEF Restarted, Rotated, Done
<1>4. ASSUME NEW r \in Readers, RestartFails(r)
      PROVE  Restarted'
  BY <1>4 DEF RestartFails, Ends, Restarted, Done
<1>5. CASE Begin
  BY <1>5 DEF Begin, Restarted, Done
<1>6. CASE Delete
  <2>1. pc' \in {"delete", "make", "restore"} /\ outcome' = "none"
    BY <1>1, <1>6, LoopPhases DEF Delete, GivesUp, Goes, Phases, IInv
  <2> QED
    BY <2>1 DEF Restarted, Done
<1>7. CASE Make \/ Mint \/ Push
  <2>1. pc' \in {"push", "compare", "restore"} /\ outcome' = "none"
    BY <1>1, <1>7 DEF Make, Mint, Push, GivesUp, Goes, Phases
  <2> QED
    BY <2>1 DEF Restarted, Done
<1>8. CASE Compare
  <2>1. outcome' # "rotated"
    BY <1>1, <1>8 DEF Compare, Goes, GivesUp, Ends, Phases
  <2>2. \/ pc' \in {"idle", "restore"}
        \/ unread' = Rotated /\ UNCHANGED names
    BY <1>8 DEF Compare, Goes, GivesUp, Ends, Rotated
  <2> QED
    BY <2>1, <2>2 DEF Restarted, Rotated, Done
<1>9. CASE Keep
  <2>1. pc = "keep" /\ outcome' # "rotated"
    BY <1>1, <1>9 DEF Keep, Visited, Goes, Ends, Phases
  <2>2. pc' = "idle" \/ UNCHANGED <<unread, names>>
    BY <1>9 DEF Keep, Visited, Goes, Ends
  <2> QED
    BY <1>1, <2>1, <2>2 DEF Restarted, Rotated, Done
<1>10. CASE Measure
  <2>1. /\ pc = "restart" /\ unread = {} /\ pc' = "idle"
        /\ UNCHANGED <<class, pods, names, old, new>>
    BY <1>10 DEF Measure, world, Ends
  <2> QED
    BY <1>1, <2>1 DEF Restarted, Rotated, Reads
<1>11. CASE Restore
  BY <1>1, <1>11 DEF Restore, Restarted, Done, Phases
<1>12. CASE Killed
  BY <1>12 DEF Killed, Restarted, Done
<1> QED
  BY <1>2, <1>3, <1>4, <1>5, <1>6, <1>7, <1>8, <1>9, <1>10, <1>11, <1>12
     DEF Next, OtherApply, Reload, vars, world, script

(***************************************************************************)
(* What a run that gives up puts back.                                     *)
(***************************************************************************)
LEMMA RestoreStep ==
    ASSUME IInv, Restore
    PROVE  \A n \in names \ (left' \cup lost') :
               copies'[n] # Gone /\ (~ applied => copies'[n] = saved[n])
<1>1. TypeOK /\ WorldOK /\ ScriptOK /\ left # {} /\ PutBackSoFar
  BY DEF IInv, TypeOK, Phases, Restore
<1>2. This \in left /\ This \in names /\ This \in Namespaces
  BY <1>1, ThisIn
<1>3. saved[This] # Gone
  BY <1>2 DEF IInv, Phases, Restore
<1>4. \A n \in names \ (left \cup lost) :
          copies[n] # Gone /\ (~ applied => copies[n] = saved[n])
  BY <1>1 DEF PutBackSoFar, Restore
<1>5. left' = left \ {This}
  BY DEF Restore
<1>6. CASE copies' = PutBack(This) /\ lost' = lost
  BY <1>1, <1>2, <1>3, <1>4, <1>5, <1>6 DEF PutBack, WorldOK, ScriptOK
<1>7. CASE /\ copies' \in {copies, [copies EXCEPT ![This] = Gone]}
           /\ lost' = lost \cup {This}
  BY <1>1, <1>2, <1>4, <1>5, <1>7 DEF WorldOK, ScriptOK
<1> QED
  BY <1>6, <1>7 DEF Restore

LEMMA NextPutBackSoFar == IInv /\ [Next]_vars => PutBackSoFar'
<1> SUFFICES ASSUME IInv, [Next]_vars, pc' = "restore"
             PROVE  PutBackSoFar'
  BY DEF PutBackSoFar
<1>1. CASE pc # "restore"
  <2>1. left' = names'
    BY <1>1 DEF Next, OtherApply, Reload, PodDies, PodStarts, RestartReader, RestartFails,
                Begin, Delete, Make, Mint, Push, Compare, Keep, Measure, Restore, Killed,
                Visited, GivesUp, Goes, Ends, vars, script
  <2> QED
    BY <2>1 DEF PutBackSoFar
<1>2. CASE pc = "restore"
  <2>1. TypeOK /\ ScriptOK /\ PutBackSoFar
    BY DEF IInv, TypeOK
  <2>2. CASE OtherApply
    <3>1. applied' /\ UNCHANGED script /\ Generate(Namespaces)
      BY <1>2, <2>2 DEF OtherApply
    <3>2. \A n \in Namespaces : copies'[n] # Gone
      BY <2>1, <3>1, Generated
    <3> QED
      BY <2>1, <3>1, <3>2 DEF PutBackSoFar, script, ScriptOK
  <2>3. CASE Restore
    <3>1. UNCHANGED <<names, saved, applied>>
      BY <2>3 DEF Restore
    <3> QED
      BY <2>3, <3>1, RestoreStep DEF PutBackSoFar
  <2>4. CASE UNCHANGED <<copies, left, names, saved, lost, applied>>
    BY <1>2, <2>1, <2>4 DEF PutBackSoFar
  <2> QED
    BY <1>2, <2>2, <2>3, <2>4
       DEF Next, Reload, PodDies, PodStarts, RestartReader, RestartFails, Begin, Delete, Make,
           Mint, Push, Compare, Keep, Measure, Killed, vars, world, script
<1> QED
  BY <1>1, <1>2

LEMMA NextBackMeansBack == IInv /\ [Next]_vars => BackMeansBack'
<1> SUFFICES ASSUME IInv, [Next]_vars, outcome' = "back", ~ applied'
             PROVE  BackMeansBack'
  BY DEF BackMeansBack
<1>1. Phases /\ BackMeansBack
  BY DEF IInv
<1>2. CASE Restore
  <2>1. left' = {} /\ UNCHANGED <<names, saved, applied>>
    BY <1>1, <1>2 DEF Restore, Phases
  <2> QED
    BY <1>2, <2>1, RestoreStep DEF BackMeansBack
<1>3. CASE outcome = "back" /\ ~ Restore
  <2>1. pc = "idle"
    BY <1>1, <1>3 DEF Phases
  <2>2. UNCHANGED <<copies, names, saved, lost, applied>>
    BY <1>3, <2>1 DEF Next, OtherApply, Reload, PodDies, PodStarts, RestartReader, RestartFails,
                Begin, Delete, Make, Mint, Push, Compare, Keep, Measure, Killed, vars, world, script
  <2> QED
    BY <1>1, <1>3, <2>2 DEF BackMeansBack
<1> QED
  BY <1>2, <1>3 DEF Next, OtherApply, Reload, PodDies, PodStarts, RestartReader, RestartFails,
                Begin, Delete, Make, Mint, Push, Compare, Keep, Measure, Killed,
                Visited, GivesUp, Goes, Ends, vars, world, script

LEMMA NextReadersCanStart == IInv /\ [Next]_vars => ReadersCanStart'
<1> SUFFICES ASSUME IInv, [Next]_vars, pc' = "idle", outcome' # "killed"
             PROVE  ReadersCanStart'
  BY DEF ReadersCanStart
<1>1. TypeOK /\ ScriptOK /\ Phases /\ Made /\ ReadersCanStart
  BY DEF IInv, TypeOK
<1>2. CASE Restore
  <2>1. left' = {} /\ UNCHANGED names
    BY <1>2 DEF Restore
  <2> QED
    BY <1>2, <2>1, RestoreStep DEF ReadersCanStart
<1>3. CASE OtherApply
  <2>1. UNCHANGED script /\ Generate(Namespaces)
    BY <1>3 DEF OtherApply
  <2>2. \A n \in Namespaces : copies'[n] # Gone
    BY <1>1, <2>1, Generated
  <2> QED
    BY <1>1, <2>1, <2>2 DEF ReadersCanStart, script, ScriptOK
<1>4. CASE pc \in {"compare", "keep", "restart"} /\ ~ Restore /\ ~ OtherApply
  <2>1. OneValue /\ UNCHANGED names
    BY <1>1, <1>4 DEF Made, Replaced, Next, Reload, PodDies, PodStarts, RestartReader,
          RestartFails, Begin, Delete, Make, Mint, Push, Compare, Keep, Measure, Killed,
          Visited, GivesUp, Goes, Ends, vars, world, script
  <2>2. \A n \in Namespaces : copies'[n] # Gone
    <3>1. CASE Keep
      BY <3>1, KeepWrites
    <3>2. CASE UNCHANGED copies
      BY <2>1, <3>2 DEF OneValue
    <3> QED
      BY <1>4, <3>1, <3>2 DEF Next, Reload, PodDies, PodStarts, RestartReader,
          RestartFails, Begin, Delete, Make, Mint, Push, Compare, Measure, Killed,
          vars, world, script
  <2> QED
    BY <1>1, <2>1, <2>2 DEF ReadersCanStart, ScriptOK
<1>5. CASE UNCHANGED <<copies, pc, names, lost, outcome>>
  BY <1>1, <1>5 DEF ReadersCanStart
<1> QED
  BY <1>2, <1>3, <1>4, <1>5 DEF Next, Reload, PodDies, PodStarts, RestartReader, RestartFails,
                Begin, Delete, Make, Mint, Push, Compare, Keep, Measure, Killed,
                Visited, GivesUp, Goes, Ends, vars, world, script

LEMMA NextIInv == IInv /\ [Next]_vars => IInv'
BY NextTypeOK, NextPhases, NextMade, NextAccepted, NextKept, NextRestarted,
   NextPutBackSoFar, NextBackMeansBack, NextReadersCanStart DEF IInv

LEMMA Invariance == Spec => []IInv
<1>1. Init => IInv
  BY InitIInv
<1>2. IInv /\ [Next]_vars => IInv'
  BY NextIInv
<1> QED
  BY <1>1, <1>2, PTL DEF Spec

(***************************************************************************)
(* Every variable of the rotation, the copies, pods and loops of           *)
(* rotate-secret.sh, keeps its type.                                       *)
(***************************************************************************)
THEOREM TypeCorrect == Spec => []TypeOK
<1>1. IInv => TypeOK
  BY DEF IInv
<1> QED
  BY <1>1, Invariance, PTL

(***************************************************************************)
(* "$secret rotated" is never said of a half-done rotation: every copy     *)
(* and every reader has the one new value, the other side accepts it and   *)
(* refuses the old one, and a session key's readers keep the old one too,  *)
(* however often pods died, other applies ran and calls failed.            *)
(***************************************************************************)
THEOREM RotatedMeans == Spec => []RotatedMeansRotated
<1>1. IInv => RotatedMeansRotated
  <2> SUFFICES ASSUME IInv, Done
               PROVE  RotatedMeansRotated
    BY DEF RotatedMeansRotated, Done
  <2>1. TypeOK /\ ScriptOK /\ Made /\ Accepted /\ Restarted
    BY DEF IInv, TypeOK
  <2>2. Replaced /\ \A r \in Rotated : Reads(r)
    BY <2>1 DEF Made, Restarted
  <2> QED
    BY <2>1, <2>2 DEF Replaced, OneValue, Reads, Accepted, ScriptOK, RotatedMeansRotated
<1> QED
  BY <1>1, Invariance, PTL

(***************************************************************************)
(* restore_and_die puts back what it held in memory: a copy it did not     *)
(* name as lost is the one it found, unless another apply wrote since.     *)
(***************************************************************************)
THEOREM BackMeans == Spec => []BackMeansBack
<1>1. IInv => BackMeansBack
  BY DEF IInv
<1> QED
  BY <1>1, Invariance, PTL

(***************************************************************************)
(* A run that ended by itself, however it went, leaves a Secret in every   *)
(* namespace it found one in and did not name as lost.                     *)
(***************************************************************************)
THEOREM CanStart == Spec => []ReadersCanStart
<1>1. IInv => ReadersCanStart
  BY DEF IInv
<1> QED
  BY <1>1, Invariance, PTL

-----------------------------------------------------------------------------
(***************************************************************************)
(* The catalogue's token Job, for every set of tokens and every number of  *)
(* changes and of failing calls.                                           *)
(***************************************************************************)
\* The first run starts with no token anywhere.
LEMMA JobStart == JobInit => JobInv
BY NothingAssumption, BoundsAssumption
   DEF JobInit, JobInv, JobTypeOK, OneTokenOfThisName, SecretsKeepApart, RunInv, Accounts

\* Every step keeps the invariant: revoking empties what was listed, so the
\* one token minted then is the only one.
LEMMA JobStep == JobInv /\ [JobNext]_jobVars => JobInv'
<1> SUFFICES ASSUME JobInv, [JobNext]_jobVars PROVE JobInv'
    OBVIOUS
<1> USE NothingAssumption, BoundsAssumption
        DEF JobInv, JobTypeOK, OneTokenOfThisName, SecretsKeepApart, RunInv, Accounts
<1>1. CASE Start
  BY <1>1 DEF Start
<1>2. CASE KeepStored
  BY <1>2 DEF KeepStored, PartDone, Allowed
<1>3. CASE List
  BY <1>3 DEF List, Allowed
<1>4. CASE Revoke
  BY <1>4 DEF Revoke, Allowed
<1>5. CASE MintToken
  BY <1>5 DEF MintToken, Allowed
<1>6. CASE Store
  BY <1>6 DEF Store, PartDone
<1>7. CASE Fail
  BY <1>7 DEF Fail
<1>8. CASE SecretReplaced
  BY <1>8 DEF SecretReplaced, Others, run
<1>9. CASE TokenRevoked
  BY <1>9 DEF TokenRevoked, Others, run
<1>10. CASE CatalogueRestored
  BY <1>10 DEF CatalogueRestored, Others, run
<1>11. CASE UNCHANGED jobVars
  BY <1>11 DEF jobVars
<1>12. QED
  BY <1>1, <1>2, <1>3, <1>4, <1>5, <1>6, <1>7, <1>8, <1>9, <1>10, <1>11
     DEF JobNext, Step

\* The invariant holds of every behaviour of the Job.
LEMMA JobInvariance == JobSpec => []JobInv
BY JobStart, JobStep, PTL DEF JobSpec

\* Every variable keeps its type, and a token is stored only if one was
\* minted (the shape check before store_token).
THEOREM JobTypeCorrect == JobSpec => []JobTypeOK
BY JobInvariance, PTL DEF JobInv

\* However many runs fail or die between two calls, CKAN never accepts two
\* tokens of one name (step 4 of the Job).
THEOREM OneToken == JobSpec => []OneTokenOfThisName
BY JobInvariance, PTL DEF JobInv

\* The administrator's token never lands in the harvest user's Secret.
THEOREM Apart == JobSpec => []SecretsKeepApart
BY JobInvariance, PTL DEF JobInv

=============================================================================
