------------------------------ MODULE Pages_proofs ------------------------------
(***************************************************************************)
(* Proofs about what runs on a visitor's page (Site) and about the feed of *)
(* live transport (HslFeed), for every value of the constants that the     *)
(* ConstantsOK of each machine allows.                                     *)
(***************************************************************************)
EXTENDS Site, FiniteSets, FiniteSetTheorems, SequenceTheorems, WellFoundedInduction, TLAPS

\* `page` is not used by the feed, and `seen` is each machine's own.
CONSTANTS Vehicles, Fleet, MaxSockets
VARIABLES page, server, calls

Feed == INSTANCE HslFeed

(***************************************************************************)
(* The charts of a page.  The slots first.                                 *)
(***************************************************************************)
LEMMA LeastExists ==
    ASSUME NEW S, S \subseteq Nat, S # {}
    PROVE  \E x \in S : \A y \in S : x <= y
<1>1. PICK x \in S : \A y \in S : <<y, x>> \notin OpToRel(<, Nat)
  BY NatLessThanWellFounded, WFMin
<1>2. \A y \in S : ~ (y < x)
  BY <1>1 DEF OpToRel
<1> QED
  BY <1>2

\* VizHost counts with the Cardinality of its own instance of FiniteSets.
LEMMA SameCount ==
    ASSUME NEW S
    PROVE  Host!Cardinality(S) = Cardinality(S)
BY DEF Host!Cardinality, Cardinality

LEMMA Numbers ==
    ASSUME Host!ConstantsOK
    PROVE  READS \in Nat \ {0} /\ PAGE \in Nat \ {0} /\ FirstN \in Nat \ {0}
BY DEF Host!ConstantsOK

LEMMA SlotsAre ==
    ASSUME Host!ConstantsOK
    PROVE  Host!Free \subseteq 1..READS /\ Host!Slots \subseteq 1..READS
<1>1. READS \in Nat
  BY Numbers
<1>2. Host!Free \subseteq 1..READS
  BY DEF Host!Free
<1>3. CASE Host!Free # {}
  <2>1. \E x \in Host!Free : \A y \in Host!Free : x <= y
    <3>1. PICK free : free = Host!Free
      OBVIOUS
    <3>2. free \subseteq Nat /\ free # {}
      BY <1>1, <1>2, <1>3, <3>1
    <3> QED
      BY <3>1, <3>2, LeastExists
  <2>2. Host!Min(Host!Free) \in Host!Free
    BY <2>1 DEF Host!Min
  <2> QED
    BY <1>2, <1>3, <2>2 DEF Host!Slots
<1>4. CASE Host!Free = {}
  BY <1>4 DEF Host!Slots
<1> QED
  BY <1>2, <1>3, <1>4

\* A chart goes on to r, with no slot that is not free or its own.
Moves(c, r) ==
    /\ r \in Host!Records
    /\ chart' = [chart EXCEPT ![c] = r]
    /\ r.io \in Host!Running =>
         r.line \in Host!Free \/ (chart[c].io \in Host!Running /\ r.line = chart[c].line)

LEMMA SlotsStayHeld ==
    ASSUME Host!ConstantsOK, Host!HostInv, NEW c \in Charts, NEW r, Moves(c, r)
    PROVE  chart' \in [Charts -> Host!Records] /\ Host!SlotsHeld'
<1>1. /\ chart \in [Charts -> Host!Records] /\ Host!SlotsHeld
      /\ chart' \in [Charts -> Host!Records]
      /\ chart'[c] = r /\ \A d \in Charts \ {c} : chart'[d] = chart[d]
  BY DEF Host!HostInv, Moves
<1>2. ASSUME r.line \in Host!Free
      PROVE  r.line \in 1..READS /\ \A d \in Charts : chart[d].io \in Host!Running => chart[d].line # r.line
  BY <1>2, SlotsAre DEF Host!Free, Host!Holders, Host!Running
<1>3. ASSUME r.io \in Host!Running
      PROVE  /\ r.line \in 1..READS
             /\ \A d \in Charts \ {c} : chart[d].io \in Host!Running => chart[d].line # r.line
  <2>1. CASE r.line \in Host!Free
    BY <1>2, <2>1
  <2>2. CASE chart[c].io \in Host!Running /\ r.line = chart[c].line
    BY <1>1, <2>2 DEF Host!SlotsHeld
  <2> QED
    BY <1>3, <2>1, <2>2 DEF Moves
<1> QED
  BY <1>1, <1>3 DEF Host!SlotsHeld

(***************************************************************************)
(* Asking for a slot, and data that is here.                               *)
(***************************************************************************)
LEMMA AskingMoves ==
    ASSUME Host!ConstantsOK, NEW c \in Charts, NEW record \in Host!Records,
           NEW slot \in Host!Slots \cup {record.line},
           chart' = [chart EXCEPT ![c] = Host!Asking(record, slot)]
    PROVE  \E r : /\ Moves(c, r) /\ r.stage = record.stage /\ r.words = record.words
<1>1. slot \in 0..READS
  <2>1. READS \in Nat /\ record.line \in 0..READS /\ Host!Slots \subseteq 1..READS
    BY Numbers, SlotsAre DEF Host!Records
  <2> QED
    BY <2>1
<1>2. PICK r : r = Host!Asking(record, slot)
  OBVIOUS
<1>3. r \in Host!Records /\ r.stage = record.stage /\ r.words = record.words
  BY <1>1, <1>2 DEF Host!Asking, Host!Records
<1>4. r.io \in Host!Running => r.line \in Host!Free
  BY <1>2 DEF Host!Asking, Host!Records, Host!Running
<1>5. chart' = [chart EXCEPT ![c] = r]
  BY <1>2
<1>6. Moves(c, r)
  BY <1>3, <1>4, <1>5 DEF Moves
<1> QED
  BY <1>3, <1>6

LEMMA NamedMoves ==
    ASSUME Host!ConstantsOK, NEW c \in Charts, NEW record \in Host!Records, Host!Named(c, record)
    PROVE  \E r : /\ Moves(c, r) /\ r.stage \in {"names", "ready"} /\ r.words = record.words
<1>1. CASE Kind[c] \in {"csv", "ogc"}
  <2>1. PICK r : r = [record EXCEPT !.stage = "ready", !.io = "none", !.line = 0]
    OBVIOUS
  <2>2. 0 \in 0..READS
    BY Numbers
  <2>3. r \in Host!Records /\ r.stage = "ready" /\ r.words = record.words /\ r.io = "none"
    BY <2>1, <2>2 DEF Host!Records
  <2>4. chart' = [chart EXCEPT ![c] = r]
    BY <1>1, <2>1 DEF Host!Named
  <2>5. Moves(c, r)
    BY <2>3, <2>4 DEF Moves, Host!Running
  <2> QED
    BY <2>3, <2>5
<1>2. CASE Kind[c] \notin {"csv", "ogc"}
  <2>1. PICK named : named = [record EXCEPT !.stage = "names"]
    OBVIOUS
  <2>2. named \in Host!Records /\ named.stage = "names" /\ named.words = record.words /\ named.line = record.line
    BY <2>1 DEF Host!Records
  <2>3. PICK slot \in Host!Slots \cup {record.line} :
          chart' = [chart EXCEPT ![c] = Host!Asking(named, slot)]
    BY <1>2, <2>1 DEF Host!Named
  <2>4. slot \in Host!Slots \cup {named.line}
    BY <2>2
  <2>5. \E r : Moves(c, r) /\ r.stage = named.stage /\ r.words = named.words
    BY <2>2, <2>3, <2>4, AskingMoves
  <2> QED
    BY <2>2, <2>5
<1> QED
  BY <1>1, <1>2

LEMMA FailsMoves ==
    ASSUME Host!ConstantsOK, Host!HostInv, NEW c \in Charts, Host!Fails(c)
    PROVE  \E r : Moves(c, r) /\ r.stage = "failed"
<1>1. PICK r : r = [chart[c] EXCEPT !.stage = "failed", !.words = "failed", !.io = "none", !.line = 0]
  OBVIOUS
<1>2. chart[c] \in Host!Records /\ 0 \in 0..READS
  BY Numbers DEF Host!HostInv
<1>3. r \in Host!Records /\ r.stage = "failed" /\ r.io = "none"
  BY <1>1, <1>2 DEF Host!Records
<1>4. chart' = [chart EXCEPT ![c] = r]
  BY <1>1 DEF Host!Fails, Host!HostInv
<1>5. Moves(c, r)
  BY <1>3, <1>4 DEF Moves, Host!Running
<1> QED
  BY <1>3, <1>5

LEMMA PartialIs ==
    ASSUME NEW record \in Host!Records
    PROVE  Host!Partial(record) \in Host!Records /\ Host!Partial(record).words = "partial"
BY DEF Host!Partial, Host!Records

(***************************************************************************)
(* A step of one chart leaves what the others tell.                        *)
(***************************************************************************)
LEMMA OneChart ==
    ASSUME Host!ConstantsOK, Host!HostInv, NEW c \in Charts, NEW r, Moves(c, r),
           merged' \in [Charts -> [Host!Instants -> {0, 1}]],
           url' = [d \in Charts |-> url'[d]],
           \A d \in Charts \ {c} : url'[d] = url[d] /\ merged'[d] = merged[d],
           UNCHANGED linked,
           Kind[c] = "temporal" /\ linked[c] => Host!Told(c)'
    PROVE  Host!HostInv'
<1>1. chart' \in [Charts -> Host!Records] /\ Host!SlotsHeld'
  BY SlotsStayHeld
<1>2. \A d \in Charts \ {c} : chart'[d] = chart[d]
  BY DEF Moves, Host!HostInv
<1>3. ASSUME NEW d \in Charts, Kind[d] = "temporal", linked'[d]
      PROVE  Host!Told(d)'
  <2>1. CASE d # c
    <3>1. Host!Told(d)
      BY <1>3 DEF Host!HostInv
    <3> QED
      BY <1>2, <2>1, <3>1 DEF Host!Told, Host!Brought, Host!Block
  <2>2. CASE d = c
    BY <1>3, <2>2
  <2> QED
    BY <2>1, <2>2
<1> QED
  BY <1>1, <1>3 DEF Host!HostInv

\* Nothing read: it failed, asks on, says that it is partial, or goes on with what it has.
Follows(c, r) ==
    \/ r.stage = "failed"
    \/ {r.stage, chart[c].stage} \subseteq {"view", "data"}
    \/ r.words = "partial" /\ r.stage \in Host!HeldBack
    \/ {r.stage, chart[c].stage} \subseteq Host!HeldBack /\ r.words = chart[c].words

LEMMA QuietKeeps ==
    ASSUME Host!ConstantsOK, Host!HostInv, NEW c \in Charts, NEW r, Moves(c, r), Follows(c, r),
           UNCHANGED <<url, merged, linked>>
    PROVE  Host!HostInv'
<1>1. chart'[c] = r
  BY DEF Moves, Host!HostInv
<1>2. ASSUME Kind[c] = "temporal", linked[c]
      PROVE  Host!Told(c)'
  <2>1. Host!Told(c)
    BY <1>2 DEF Host!HostInv
  <2> QED
    BY <1>1, <2>1 DEF Follows, Host!Told, Host!Brought, Host!Block, Host!HeldBack
<1>3. merged' \in [Charts -> [Host!Instants -> {0, 1}]] /\ url' = [d \in Charts |-> url'[d]]
  BY DEF Host!HostInv
<1> QED
  BY <1>2, <1>3, OneChart

\* A step that changes a chart's own record only: no slot but its own or a free one, and no stage.
LEMMA SameStageKeeps ==
    ASSUME Host!ConstantsOK, Host!HostInv, NEW c \in Charts, NEW r \in Host!Records,
           chart' = [chart EXCEPT ![c] = r],
           r.io \in Host!Running =>
               r.line = chart[c].line /\ (r.line \in Host!Free \/ chart[c].io \in Host!Running),
           r.stage = chart[c].stage \/ {r.stage, chart[c].stage} \subseteq Host!HeldBack,
           r.words = chart[c].words, UNCHANGED <<url, merged, linked>>
    PROVE  Host!HostInv'
<1>1. Moves(c, r)
  BY DEF Moves
<1>2. Follows(c, r)
  BY DEF Follows, Host!Records, Host!HeldBack
<1> QED
  BY <1>1, <1>2, QuietKeeps

LEMMA OwnRecordKeeps ==
    ASSUME Host!ConstantsOK, Host!HostInv, NEW c \in Charts,
           \/ Host!Granted(c) \/ Host!Refused(c) \/ Host!Again(c) \/ Host!NamesEnd(c)
           \/ Host!Late(c) \/ Host!Timer(c) \/ Host!Up(c) \/ Host!Sends(c) \/ Host!Draws(c)
    PROVE  Host!HostInv'
<1>1. chart \in [Charts -> Host!Records] /\ chart[c] \in Host!Records /\ 0 \in 0..READS
  BY Numbers DEF Host!HostInv
<1>2. CASE Host!Granted(c)
  <2>1. PICK r : r = [chart[c] EXCEPT !.io = "fetching"]
    OBVIOUS
  <2>2. r \in Host!Records
    BY <1>1, <2>1 DEF Host!Records
  <2>3. chart' = [chart EXCEPT ![c] = r] /\ chart[c].line \in Host!Free
    BY <1>1, <1>2, <2>1 DEF Host!Granted
  <2>4. r.line = chart[c].line /\ r.stage = chart[c].stage /\ r.words = chart[c].words
    BY <1>1, <2>1 DEF Host!Records
  <2>5. UNCHANGED <<url, merged, linked>>
    BY <1>2 DEF Host!Granted
  <2> QED
    BY <2>2, <2>3, <2>4, <2>5, SameStageKeeps
<1>3. CASE Host!Refused(c)
  <2>1. PICK r : r = [chart[c] EXCEPT !.io = "resting", !.tried = TRUE]
    OBVIOUS
  <2>2. r \in Host!Records /\ r.line = chart[c].line /\ r.stage = chart[c].stage /\ r.words = chart[c].words
    BY <1>1, <2>1 DEF Host!Records
  <2>3. chart' = [chart EXCEPT ![c] = r] /\ chart[c].io = "fetching" /\ UNCHANGED <<url, merged, linked>>
    BY <1>1, <1>3, <2>1 DEF Host!Refused
  <2> QED
    BY <2>2, <2>3, SameStageKeeps DEF Host!Running
<1>4. CASE Host!Again(c)
  <2>1. PICK r : r = [chart[c] EXCEPT !.io = "fetching"]
    OBVIOUS
  <2>2. r \in Host!Records /\ r.line = chart[c].line /\ r.stage = chart[c].stage /\ r.words = chart[c].words
    BY <1>1, <2>1 DEF Host!Records
  <2>3. chart' = [chart EXCEPT ![c] = r] /\ chart[c].io = "resting" /\ UNCHANGED <<url, merged, linked>>
    BY <1>1, <1>4, <2>1 DEF Host!Again
  <2> QED
    BY <2>2, <2>3, SameStageKeeps DEF Host!Running
<1>5. CASE Host!NamesEnd(c)
  <2>1. PICK r : r = [chart[c] EXCEPT !.stage = "ready", !.io = "none", !.line = 0]
    OBVIOUS
  <2>2. r \in Host!Records /\ r.io = "none" /\ r.stage = "ready" /\ r.words = chart[c].words
    BY <1>1, <2>1 DEF Host!Records
  <2>3. chart' = [chart EXCEPT ![c] = r] /\ chart[c].stage = "names" /\ UNCHANGED <<url, merged, linked>>
    BY <1>1, <1>5, <2>1 DEF Host!NamesEnd
  <2> QED
    BY <2>2, <2>3, SameStageKeeps DEF Host!Running, Host!HeldBack
<1>6. ASSUME NEW r \in Host!Records, chart' = [chart EXCEPT ![c] = r], UNCHANGED <<url, merged, linked>>,
             r.io = chart[c].io, r.line = chart[c].line, r.words = chart[c].words,
             r.stage = chart[c].stage \/ {r.stage, chart[c].stage} \subseteq Host!HeldBack
      PROVE  Host!HostInv'
  BY <1>6, SameStageKeeps
<1>7. CASE Host!Late(c) \/ Host!Timer(c) \/ Host!Up(c)
  <2>1. PICK late \in BOOLEAN, aborted \in BOOLEAN, there \in BOOLEAN :
          chart' = [chart EXCEPT ![c] = [chart[c] EXCEPT !.late = late, !.aborted = aborted, !.up = there]]
    <3>1. CASE Host!Late(c)
      <4>1. chart' = [chart EXCEPT ![c] = [chart[c] EXCEPT !.late = TRUE, !.aborted = chart[c].aborted, !.up = chart[c].up]]
        BY <1>1, <3>1 DEF Host!Late, Host!Records
      <4> QED
        BY <1>1, <4>1 DEF Host!Records
    <3>2. CASE Host!Timer(c)
      <4>1. chart' = [chart EXCEPT ![c] = [chart[c] EXCEPT !.late = chart[c].late, !.aborted = TRUE, !.up = chart[c].up]]
        BY <1>1, <3>2 DEF Host!Timer, Host!Records
      <4> QED
        BY <1>1, <4>1 DEF Host!Records
    <3>3. CASE Host!Up(c)
      <4>1. chart' = [chart EXCEPT ![c] = [chart[c] EXCEPT !.late = chart[c].late, !.aborted = chart[c].aborted, !.up = TRUE]]
        BY <1>1, <3>3 DEF Host!Up, Host!Records
      <4> QED
        BY <1>1, <4>1 DEF Host!Records
    <3> QED
      BY <1>7, <3>1, <3>2, <3>3
  <2>2. PICK r : r = [chart[c] EXCEPT !.late = late, !.aborted = aborted, !.up = there]
    OBVIOUS
  <2>3. /\ r \in Host!Records /\ r.io = chart[c].io /\ r.line = chart[c].line
        /\ r.words = chart[c].words /\ r.stage = chart[c].stage
    BY <1>1, <2>2 DEF Host!Records
  <2>4. UNCHANGED <<url, merged, linked>>
    BY <1>7 DEF Host!Late, Host!Timer, Host!Up
  <2> QED
    BY <1>6, <2>1, <2>2, <2>3, <2>4
<1>8. CASE Host!Sends(c) \/ Host!Draws(c)
  <2>1. PICK next \in {"sent", "drawn"} : chart' = [chart EXCEPT ![c] = [chart[c] EXCEPT !.stage = next]]
    BY <1>1, <1>8 DEF Host!Sends, Host!Draws
  <2>2. PICK r : r = [chart[c] EXCEPT !.stage = next]
    OBVIOUS
  <2>3. /\ r \in Host!Records /\ r.io = chart[c].io /\ r.line = chart[c].line
        /\ r.words = chart[c].words /\ r.stage = next
    BY <1>1, <2>1, <2>2 DEF Host!Records
  <2>4. chart[c].stage \in {"ready", "sent"} /\ UNCHANGED <<url, merged, linked>>
    BY <1>8 DEF Host!Sends, Host!Draws
  <2> QED
    BY <1>6, <2>1, <2>2, <2>3, <2>4 DEF Host!HeldBack
<1> QED
  BY <1>2, <1>3, <1>4, <1>5, <1>7, <1>8

LEMMA QuietStepKeeps ==
    ASSUME Host!ConstantsOK, Host!HostInv, NEW c \in Charts,
           \/ Host!View(c) \/ Host!ViewFails(c) \/ Host!WindowOver(c) \/ Host!ReadFails(c)
           \/ Host!ReadAborted(c) \/ Host!RenderFails(c)
    PROVE  Host!HostInv'
<1>1. chart[c] \in Host!Records /\ UNCHANGED <<url, merged, linked>>
  BY DEF Host!HostInv, Host!View, Host!ViewFails, Host!WindowOver, Host!ReadFails,
         Host!ReadAborted, Host!RenderFails
<1>2. CASE Host!Fails(c)
  <2>1. PICK r : Moves(c, r) /\ r.stage = "failed"
    BY <1>2, FailsMoves
  <2> QED
    BY <1>1, <2>1, QuietKeeps DEF Follows
<1>3. CASE Host!Named(c, Host!Partial(chart[c]))
  <2>1. PICK record \in Host!Records : record = Host!Partial(chart[c]) /\ record.words = "partial"
    BY <1>1, PartialIs
  <2>2. PICK r : Moves(c, r) /\ r.stage \in {"names", "ready"} /\ r.words = record.words
    BY <1>3, <2>1, NamedMoves
  <2> QED
    BY <1>1, <2>1, <2>2, QuietKeeps DEF Follows, Host!HeldBack
<1>4. CASE Host!View(c)
  <2>1. PICK record : record = [chart[c] EXCEPT !.stage = "data"]
    OBVIOUS
  <2>2. record \in Host!Records /\ record.stage = "data"
    BY <1>1, <2>1 DEF Host!Records
  <2>3. PICK slot \in Host!Slots : chart' = [chart EXCEPT ![c] = Host!Asking(record, slot)]
    BY <1>4, <2>1 DEF Host!View
  <2>4. PICK r : Moves(c, r) /\ r.stage = "data"
    <3>1. slot \in Host!Slots \cup {record.line}
      OBVIOUS
    <3>2. \E r : Moves(c, r) /\ r.stage = record.stage /\ r.words = record.words
      BY <2>2, <2>3, <3>1, AskingMoves
    <3> QED
      BY <2>2, <3>2
  <2>5. chart[c].stage = "view"
    BY <1>4 DEF Host!View
  <2> QED
    BY <1>1, <2>4, <2>5, QuietKeeps DEF Follows
<1> QED
  BY <1>2, <1>3, <1>4 DEF Host!ViewFails, Host!WindowOver, Host!ReadFails, Host!ReadAborted, Host!RenderFails

LEMMA PageKeeps ==
    ASSUME Host!ConstantsOK, Host!HostInv, NEW c \in Charts, Host!Page(c, 1)
    PROVE  Host!HostInv'
<1>1. chart[c] \in Host!Records /\ Kind[c] # "temporal" /\ UNCHANGED <<merged, linked>>
  BY DEF Host!HostInv, Host!Page
<1>2. \E r : Moves(c, r)
  <2>1. CASE Host!Fails(c)
    BY <2>1, FailsMoves
  <2>2. CASE Host!Named(c, chart[c])
    BY <1>1, <2>2, NamedMoves
  <2>3. ASSUME NEW slot \in Host!Slots \cup {chart[c].line},
               chart' = [chart EXCEPT ![c] = Host!Asking(chart[c], slot)]
        PROVE  \E r : Moves(c, r)
    <3>1. PICK record \in Host!Records : record = chart[c]
      BY <1>1
    <3> QED
      BY <2>3, <3>1, AskingMoves
  <2> QED
    BY <2>1, <2>2, <2>3 DEF Host!Page
<1>3. url' = [d \in Charts |-> url'[d]] /\ \A d \in Charts \ {c} : url'[d] = url[d]
  <2>1. UNCHANGED url \/ url' = [url EXCEPT ![c] = [url[c] EXCEPT !.page = url[c].page + 1]]
    BY DEF Host!Page
  <2>2. url = [d \in Charts |-> url[d]]
    BY DEF Host!HostInv
  <2> QED
    BY <2>1, <2>2
<1>4. merged' \in [Charts -> [Host!Instants -> {0, 1}]]
  BY <1>1 DEF Host!HostInv
<1> QED
  BY <1>1, <1>2, <1>3, <1>4, OneChart

(***************************************************************************)
(* The windows.                                                            *)
(***************************************************************************)
LEMMA MinOfTwo ==
    ASSUME NEW m \in Nat, NEW n \in Nat
    PROVE  Host!Min({m, n}) = IF m <= n THEN m ELSE n
BY DEF Host!Min

LEMMA InstantIs ==
    ASSUME Host!ConstantsOK, NEW i \in Host!Instants
    PROVE  /\ i[1] \in 1..Len(Counts) /\ i[2] \in 1..Counts[i[1]] /\ Counts[i[1]] \in Nat
           /\ i[1] \in Host!Entities
<1>1. Counts \in Seq(Nat)
  BY DEF Host!ConstantsOK
<1>2. PICK e \in Host!Entities : i \in {e} \X (1..Counts[e])
  BY DEF Host!Instants
<1>3. Host!Entities = 1..Len(Counts)
  BY <1>1 DEF Host!Entities
<1> QED
  BY <1>1, <1>2, <1>3

\* A window brings what lies from where it starts, and all of its entities that is left, unless it is cut.
LEMMA WindowBrings ==
    ASSUME Host!ConstantsOK, NEW c \in Charts, Host!Brought(c), NEW i \in Host!Instants,
           i[1] \in Host!Block(c), i[2] >= url[c].from[i[1]],
           ~Host!Cut(c) \/ i[2] < url[c].from[i[1]] + FirstN
    PROVE  i \in Host!Window(c)
<1>1. PICK e, t : e = i[1] /\ t = i[2]
  OBVIOUS
<1>2. PICK from : from = url[c].from[e]
  OBVIOUS
<1>3. /\ e \in Host!Entities /\ t \in Nat /\ Counts[e] \in Nat /\ t <= Counts[e]
      /\ from \in Nat \ {0} /\ FirstN \in Nat \ {0} /\ t >= from
      /\ ~Host!Cut(c) \/ t < from + FirstN
  BY <1>1, <1>2, InstantIs, Numbers DEF Host!Brought
<1>4. PICK until : until = Host!Until(c, e)
  OBVIOUS
<1>5. until = IF from + FirstN - 1 <= Counts[e] THEN from + FirstN - 1 ELSE Counts[e]
  <2>1. from + FirstN - 1 \in Nat
    BY <1>3
  <2> QED
    BY <1>2, <1>3, <1>4, <2>1, MinOfTwo DEF Host!Until
<1>6. t <= until
  <2>1. CASE Host!Cut(c)
    BY <1>3, <1>5, <2>1
  <2>2. CASE ~Host!Cut(c)
    <3>1. ~(until < Counts[e])
      BY <1>1, <1>4, <2>2 DEF Host!Cut
    <3> QED
      BY <1>3, <1>5, <3>1
  <2> QED
    BY <2>1, <2>2
<1>7. t \in from..until
  BY <1>3, <1>5, <1>6
<1> QED
  BY <1>1, <1>2, <1>4, <1>7 DEF Host!Window

\* What a window leaves in the rows.
LEMMA WindowLeaves ==
    ASSUME Host!ConstantsOK, Host!HostInv, NEW c \in Charts, Host!Brought(c),
           merged' = [merged EXCEPT ![c] = Host!Merge(merged[c], Host!Window(c))]
    PROVE  /\ merged' \in [Charts -> [Host!Instants -> {0, 1}]]
           /\ \A d \in Charts \ {c} : merged'[d] = merged[d]
           /\ \A i \in Host!Instants :
                \/ i[1] <= url[c].block
                \/ /\ i[1] \in Host!Block(c)
                   /\ ~Host!Cut(c) \/ i[2] < url[c].from[i[1]] + FirstN
                => merged'[c][i] = 1
<1>1. merged \in [Charts -> [Host!Instants -> {0, 1}]]
  BY DEF Host!HostInv
<1>2. PICK rows : rows = Host!Merge(merged[c], Host!Window(c))
  OBVIOUS
<1>3. /\ rows \in [Host!Instants -> {0, 1}]
      /\ \A i \in Host!Instants : (i \in Host!Window(c) \/ merged[c][i] = 1) => rows[i] = 1
  BY <1>1, <1>2 DEF Host!Merge
<1>4. merged' = [merged EXCEPT ![c] = rows]
  BY <1>2
<1>5. ASSUME NEW i \in Host!Instants,
             \/ i[1] <= url[c].block
             \/ i[1] \in Host!Block(c) /\ (~Host!Cut(c) \/ i[2] < url[c].from[i[1]] + FirstN)
      PROVE  i \in Host!Window(c) \/ merged[c][i] = 1
  <2>1. CASE i[1] <= url[c].block \/ (i[1] \in Host!Block(c) /\ i[2] < url[c].from[i[1]])
    BY <2>1 DEF Host!Brought
  <2>2. CASE i[1] \in Host!Block(c) /\ ~(i[2] < url[c].from[i[1]])
    <3>1. i[2] \in Nat /\ url[c].from[i[1]] \in Nat
      <4>1. PICK e, t : e = i[1] /\ t = i[2]
        OBVIOUS
      <4>2. e \in Host!Entities /\ t \in 1..Counts[e] /\ Counts[e] \in Nat
        BY <4>1, InstantIs
      <4> QED
        BY <4>1, <4>2 DEF Host!Brought
    <3>2. i[2] >= url[c].from[i[1]]
      <4>1. PICK from, t : from = url[c].from[i[1]] /\ t = i[2]
        OBVIOUS
      <4> QED
        BY <2>2, <3>1, <4>1
    <3>3. ~Host!Cut(c) \/ i[2] < url[c].from[i[1]] + FirstN
      <4>1. ~(i[1] <= url[c].block)
        BY <2>2, InstantIs DEF Host!Block, Host!Brought
      <4> QED
        BY <1>5, <4>1
    <3> QED
      BY <2>2, <3>2, <3>3, WindowBrings
  <2> QED
    BY <1>5, <2>1, <2>2
<1> QED
  BY <1>1, <1>3, <1>4, <1>5

\* After a block that is not full no entity is left.
LEMMA LastBlock ==
    ASSUME Host!ConstantsOK, NEW c \in Charts, Host!Brought(c), Cardinality(Host!Block(c)) # PAGE,
           NEW i \in Host!Instants
    PROVE  i[1] <= url[c].block \/ i[1] \in Host!Block(c)
<1>1. PICK e, block : e = i[1] /\ block = url[c].block
  OBVIOUS
<1>2. e \in 1..Len(Counts) /\ Len(Counts) \in Nat /\ block \in Nat /\ PAGE \in Nat /\ Host!Entities = 1..Len(Counts)
  <2>1. Counts \in Seq(Nat)
    BY DEF Host!ConstantsOK
  <2>2. Host!Entities = 1..Len(Counts)
    BY <2>1 DEF Host!Entities
  <2> QED
    BY <1>1, <2>1, <2>2, InstantIs, Numbers DEF Host!Brought
<1>3. SUFFICES ASSUME e > block + PAGE
               PROVE  FALSE
  BY <1>1, <1>2 DEF Host!Block
<1>4. Host!Block(c) = (block + 1)..(block + PAGE)
  BY <1>1, <1>2, <1>3 DEF Host!Block
<1>5. Cardinality((block + 1)..(block + PAGE)) = PAGE
  BY <1>2, FS_Interval
<1> QED
  BY <1>4, <1>5

LEMMA WindowComesKeeps ==
    ASSUME Host!ConstantsOK, Host!HostInv, NEW c \in Charts, Host!WindowComes(c)
    PROVE  Host!HostInv'
<1>1. /\ chart[c] \in Host!Records /\ chart[c].stage = "data" /\ UNCHANGED linked
      /\ merged' = [merged EXCEPT ![c] = Host!Merge(merged[c], Host!Window(c))]
      /\ chart \in [Charts -> Host!Records] /\ url = [d \in Charts |-> url[d]]
  BY DEF Host!HostInv, Host!WindowComes, Host!Arrives
<1>2. ASSUME NEW slot \in Host!Slots \cup {chart[c].line},
             chart' = [chart EXCEPT ![c] = Host!Asking(chart[c], slot)]
      PROVE  \E r : Moves(c, r) /\ r.stage = "data"
  <2>1. PICK record \in Host!Records : record = chart[c]
    BY <1>1
  <2>2. \E r : Moves(c, r) /\ r.stage = record.stage /\ r.words = record.words
    BY <1>2, <2>1, AskingMoves
  <2> QED
    BY <1>1, <2>1, <2>2
<1>3. /\ merged' \in [Charts -> [Host!Instants -> {0, 1}]] /\ \A d \in Charts \ {c} : merged'[d] = merged[d]
  <2>1. merged \in [Charts -> [Host!Instants -> {0, 1}]]
    BY DEF Host!HostInv
  <2>2. Host!Merge(merged[c], Host!Window(c)) \in [Host!Instants -> {0, 1}]
    BY <2>1 DEF Host!Merge
  <2> QED
    BY <1>1, <2>1, <2>2
<1>4. ASSUME Kind[c] = "temporal", linked[c]
      PROVE  /\ Host!Brought(c)
             /\ \A i \in Host!Instants :
                  \/ i[1] <= url[c].block
                  \/ /\ i[1] \in Host!Block(c)
                     /\ ~Host!Cut(c) \/ i[2] < url[c].from[i[1]] + FirstN
                  => merged'[c][i] = 1
  <2>1. Host!Brought(c)
    BY <1>1, <1>4 DEF Host!HostInv, Host!Told
  <2> QED
    BY <1>1, <2>1, WindowLeaves
<1>5. CASE Host!Cut(c) /\ (Host!NextFrom(c) = url[c].from \/ chart[c].late)
  <2>1. Host!Named(c, Host!Partial(chart[c])) /\ UNCHANGED url
    BY <1>5 DEF Host!WindowComes
  <2>2. PICK record \in Host!Records : record = Host!Partial(chart[c]) /\ record.words = "partial"
    BY <1>1, PartialIs
  <2>3. PICK r : Moves(c, r) /\ r.stage \in {"names", "ready"} /\ r.words = record.words
    BY <2>1, <2>2, NamedMoves
  <2>4. chart'[c] = r
    BY <1>1, <2>3 DEF Moves
  <2>5. Host!Told(c)'
    BY <2>2, <2>3, <2>4 DEF Host!Told
  <2> QED
    BY <1>1, <1>3, <2>1, <2>3, <2>5, OneChart
<1>6. CASE Host!Cut(c) /\ ~(Host!NextFrom(c) = url[c].from \/ chart[c].late)
  <2>1. /\ \E slot \in Host!Slots \cup {chart[c].line} :
             chart' = [chart EXCEPT ![c] = Host!Asking(chart[c], slot)]
        /\ url' = [url EXCEPT ![c] = [url[c] EXCEPT !.from = Host!NextFrom(c)]]
    BY <1>6 DEF Host!WindowComes
  <2>2. PICK r : Moves(c, r) /\ r.stage = "data"
    BY <1>2, <2>1
  <2>3. chart'[c] = r /\ url' = [d \in Charts |-> url'[d]] /\ \A d \in Charts \ {c} : url'[d] = url[d]
    BY <1>1, <2>1, <2>2 DEF Moves
  <2>4. ASSUME Kind[c] = "temporal", linked[c]
        PROVE  Host!Told(c)'
    <3>1. PICK u, from : u = url[c] /\ from = [e \in Host!Entities |-> u.from[e] + FirstN]
      OBVIOUS
    <3>2. u \in [page : Nat, block : Nat, from : [Host!Entities -> Nat \ {0}]] /\ FirstN \in Nat \ {0}
      BY <1>4, <2>4, <3>1, Numbers DEF Host!Brought
    <3>3. url'[c] = [u EXCEPT !.from = from]
      BY <1>1, <2>1, <2>4, <3>1 DEF Host!NextFrom
    <3>4. from \in [Host!Entities -> Nat \ {0}]
      BY <3>1, <3>2
    <3>5. url'[c] \in [page : Nat, block : Nat, from : [Host!Entities -> Nat \ {0}]]
      BY <3>2, <3>3, <3>4
    <3>6. url'[c].block = u.block /\ url'[c].from = from
      BY <3>2, <3>3
    <3>7. Host!Block(c)' = Host!Block(c)
      BY <3>1, <3>6 DEF Host!Block
    <3>8. ASSUME NEW i \in Host!Instants, i[1] <= u.block \/ (i[1] \in Host!Block(c) /\ i[2] < from[i[1]])
          PROVE  merged'[c][i] = 1
      <4>1. i[1] \in Host!Entities
        BY InstantIs
      <4>2. from[i[1]] = url[c].from[i[1]] + FirstN
        BY <3>1, <4>1
      <4> QED
        BY <1>4, <2>4, <3>1, <3>8, <4>2
    <3>9. Host!Brought(c)'
      BY <3>5, <3>6, <3>7, <3>8 DEF Host!Brought
    <3> QED
      BY <2>2, <2>3, <3>9 DEF Host!Told, Host!HeldBack
  <2> QED
    BY <1>1, <1>3, <2>2, <2>3, <2>4, OneChart
<1>7. CASE ~Host!Cut(c) /\ Host!Cardinality(Host!Block(c)) = PAGE
  <2>1. /\ \E slot \in Host!Slots \cup {chart[c].line} :
             chart' = [chart EXCEPT ![c] = Host!Asking(chart[c], slot)]
        /\ url' = [url EXCEPT ![c] = [Host!Start EXCEPT !.block = url[c].block + PAGE]]
    BY <1>7 DEF Host!WindowComes
  <2>2. PICK r : Moves(c, r) /\ r.stage = "data"
    BY <1>2, <2>1
  <2>3. chart'[c] = r /\ url' = [d \in Charts |-> url'[d]] /\ \A d \in Charts \ {c} : url'[d] = url[d]
    BY <1>1, <2>1, <2>2 DEF Moves
  <2>4. ASSUME Kind[c] = "temporal", linked[c]
        PROVE  Host!Told(c)'
    <3>1. PICK block : block = url[c].block
      OBVIOUS
    <3>2. block \in Nat /\ PAGE \in Nat \ {0}
      BY <1>4, <2>4, <3>1, Numbers DEF Host!Brought
    <3>3. url'[c] = [page |-> 1, block |-> block + PAGE, from |-> [e \in Host!Entities |-> 1]]
      BY <1>1, <2>1, <3>1 DEF Host!Start
    <3>4. url'[c] \in [page : Nat, block : Nat, from : [Host!Entities -> Nat \ {0}]]
      BY <3>2, <3>3
    <3>5. ASSUME NEW i \in Host!Instants,
                 i[1] <= url'[c].block \/ (i[1] \in Host!Block(c)' /\ i[2] < url'[c].from[i[1]])
          PROVE  merged'[c][i] = 1
      <4>1. PICK e, t : e = i[1] /\ t = i[2]
        OBVIOUS
      <4>2. e \in Nat /\ e \in Host!Entities /\ t \in Nat \ {0}
        <5>1. Counts \in Seq(Nat)
          BY DEF Host!ConstantsOK
        <5>2. e \in 1..Len(Counts) /\ t \in 1..Counts[e] /\ e \in Host!Entities /\ Counts[e] \in Nat /\ Len(Counts) \in Nat
          BY <4>1, <5>1, InstantIs
        <5> QED
          BY <5>2
      <4>3. e <= block + PAGE
        BY <3>3, <3>5, <4>1, <4>2
      <4>4. e <= block \/ e \in Host!Block(c)
        BY <3>1, <3>2, <4>2, <4>3 DEF Host!Block
      <4> QED
        BY <1>4, <1>7, <2>4, <3>1, <4>1, <4>4
    <3>6. Host!Brought(c)'
      BY <3>4, <3>5 DEF Host!Brought
    <3> QED
      BY <2>2, <2>3, <3>6 DEF Host!Told, Host!HeldBack
  <2> QED
    BY <1>1, <1>3, <2>2, <2>3, <2>4, OneChart
<1>8. CASE ~Host!Cut(c) /\ Host!Cardinality(Host!Block(c)) # PAGE
  <2>1. Host!Named(c, chart[c]) /\ UNCHANGED url
    BY <1>8 DEF Host!WindowComes
  <2>2. PICK r : Moves(c, r) /\ r.stage \in {"names", "ready"}
    BY <1>1, <2>1, NamedMoves
  <2>3. chart'[c] = r
    BY <1>1, <2>2 DEF Moves
  <2>4. ASSUME Kind[c] = "temporal", linked[c]
        PROVE  Host!Told(c)'
    <3>1. \A i \in Host!Instants : merged'[c][i] = 1
      BY <1>4, <1>8, <2>4, LastBlock, SameCount
    <3> QED
      BY <2>2, <2>3, <3>1 DEF Host!Told
  <2> QED
    BY <1>1, <1>3, <2>1, <2>2, <2>4, OneChart
<1> QED
  BY <1>5, <1>6, <1>7, <1>8

(***************************************************************************)
(* The inductive invariant.                                                *)
(***************************************************************************)
LEMMA InitHostInv ==
    ASSUME Host!ConstantsOK, Host!Init
    PROVE  Host!HostInv
<1>1. 0 \in 0..READS
  BY Numbers
<1>2. chart \in [Charts -> Host!Records] /\ \A c \in Charts : chart[c].stage = "view" /\ chart[c].io = "none"
  BY <1>1 DEF Host!Init, Host!Records
<1>3. merged \in [Charts -> [Host!Instants -> {0, 1}]] /\ url = [c \in Charts |-> url[c]]
  BY DEF Host!Init, Host!Nothing
<1>4. ASSUME NEW c \in Charts
      PROVE  Host!Told(c)
  <2>1. url[c] = [page |-> 1, block |-> 0, from |-> [e \in Host!Entities |-> 1]]
    BY DEF Host!Init, Host!Start
  <2>2. url[c] \in [page : Nat, block : Nat, from : [Host!Entities -> Nat \ {0}]]
    BY <2>1
  <2>3. ASSUME NEW i \in Host!Instants
        PROVE  ~(i[1] <= url[c].block) /\ ~(i[2] < url[c].from[i[1]])
    <3>1. PICK e, t : e = i[1] /\ t = i[2]
      OBVIOUS
    <3>2. e \in Host!Entities /\ e \in Nat \ {0} /\ t \in Nat \ {0}
      <4>1. Counts \in Seq(Nat)
        BY DEF Host!ConstantsOK
      <4>2. e \in 1..Len(Counts) /\ t \in 1..Counts[e] /\ e \in Host!Entities /\ Counts[e] \in Nat /\ Len(Counts) \in Nat
        BY <3>1, <4>1, InstantIs
      <4> QED
        BY <4>2
    <3>3. ~(e <= url[c].block) /\ ~(t < url[c].from[e])
      BY <2>1, <3>2
    <3> QED
      BY <3>1, <3>3
  <2>4. Host!Brought(c)
    BY <2>2, <2>3 DEF Host!Brought
  <2> QED
    BY <1>2, <2>4 DEF Host!Told, Host!HeldBack
<1>5. Host!SlotsHeld
  BY <1>2 DEF Host!SlotsHeld, Host!Running
<1> QED
  BY <1>2, <1>3, <1>4, <1>5 DEF Host!HostInv

LEMMA NextHostInv ==
    ASSUME Host!ConstantsOK, Host!HostInv, [Host!Next]_(Host!vars)
    PROVE  Host!HostInv'
<1>1. CASE UNCHANGED Host!vars
  BY <1>1 DEF Host!vars, Host!HostInv, Host!SlotsHeld, Host!Told, Host!Brought, Host!Block
<1>2. CASE Host!Next
  <2>1. PICK c \in Charts : Host!Steps(c) \/ Host!Late(c) \/ Host!Timer(c)
    BY <1>2 DEF Host!Next
  <2>2. CASE Host!Page(c, 1)
    BY <2>2, PageKeeps
  <2>3. CASE Host!WindowComes(c)
    BY <2>3, WindowComesKeeps
  <2>4. CASE \/ Host!View(c) \/ Host!ViewFails(c) \/ Host!WindowOver(c) \/ Host!ReadFails(c)
             \/ Host!ReadAborted(c) \/ Host!RenderFails(c)
    BY <2>4, QuietStepKeeps
  <2>5. CASE \/ Host!Granted(c) \/ Host!Refused(c) \/ Host!Again(c) \/ Host!NamesEnd(c)
             \/ Host!Late(c) \/ Host!Timer(c) \/ Host!Up(c) \/ Host!Sends(c) \/ Host!Draws(c)
    BY <2>5, OwnRecordKeeps
  <2> QED
    BY <2>1, <2>2, <2>3, <2>4, <2>5 DEF Host!Steps
<1> QED
  BY <1>1, <1>2

\* As many reads run as there are slots held: the slot is an injection of them into 1..READS.
LEMMA ReadsAreFew ==
    ASSUME Host!ConstantsOK, Host!HostInv
    PROVE  Host!AtMostReads
<1>1. PICK running : running = {c \in Charts : chart[c].io \in {"fetching", "resting"}}
  OBVIOUS
<1>2. PICK slot : slot = [c \in running |-> chart[c].line]
  OBVIOUS
<1>3. READS \in Nat
  BY Numbers
<1>4. \A c \in running : chart[c].line \in 1..READS
  BY <1>1 DEF Host!HostInv, Host!SlotsHeld, Host!Running
<1>5. \A c, d \in running : chart[c].line = chart[d].line => c = d
  BY <1>1 DEF Host!HostInv, Host!SlotsHeld, Host!Running
<1>6. slot \in Injection(running, 1..READS)
  BY <1>2, <1>4, <1>5 DEF Injection, IsInjective
<1>7. IsFiniteSet(1..READS) /\ Cardinality(1..READS) = READS
  BY <1>3, FS_Interval
<1>8. Cardinality(running) <= READS
  BY <1>6, <1>7, FS_Injection
<1> QED
  BY <1>1, <1>8, SameCount DEF Host!AtMostReads

LEMMA RowsAreWhole ==
    ASSUME Host!ConstantsOK, Host!HostInv
    PROVE  Host!WholeOrSaid
<1>1. SUFFICES ASSUME NEW c \in Charts, Kind[c] = "temporal", chart[c].stage \in {"ready", "sent", "drawn"}
               PROVE  /\ \A i \in Host!Instants : merged[c][i] <= 1
                      /\ linked[c] => chart[c].words = "partial" \/ \A i \in Host!Instants : merged[c][i] = 1
  BY DEF Host!WholeOrSaid
<1>2. merged[c] \in [Host!Instants -> {0, 1}]
  BY DEF Host!HostInv
<1>3. \A i \in Host!Instants : merged[c][i] <= 1
  BY <1>2
<1>4. linked[c] => chart[c].words = "partial" \/ \A i \in Host!Instants : merged[c][i] = 1
  BY <1>1 DEF Host!HostInv, Host!Told, Host!HeldBack
<1> QED
  BY <1>3, <1>4

\* However many charts a page has, and however long their sources are: it never runs more reads
\* than READS at once, the refused ones it tries again included, and a chart drawn from a source
\* that names its next window has every instant of every entity once or says that it is partial.
THEOREM ChartsAreWhole ==
    ASSUME Host!ConstantsOK
    PROVE  Host!Spec => []Host!ChartsWholeOrSaid
<1>1. Host!Init => Host!HostInv
  BY InitHostInv
<1>2. Host!HostInv /\ [Host!Next]_(Host!vars) => Host!HostInv'
  BY NextHostInv
<1>3. Host!HostInv => Host!ChartsWholeOrSaid
  BY ReadsAreFew, RowsAreWhole DEF Host!ChartsWholeOrSaid
<1> QED
  BY <1>1, <1>2, <1>3, PTL DEF Host!Spec

(***************************************************************************)
(* The live transport feed (HslFeed).                                      *)
(***************************************************************************)
LEMMA InitFeedInv ==
    ASSUME Feed!ConstantsOK, Feed!Init
    PROVE  Feed!FeedInv
BY DEF Feed!Init, Feed!FeedInv, Feed!Untold

\* The feed counts with the Cardinality of its own instance of FiniteSets.
LEMMA FeedCounts ==
    ASSUME NEW S
    PROVE  Feed!Cardinality(S) = Cardinality(S) /\ (Feed!IsFiniteSet(S) <=> IsFiniteSet(S))
<1>1. Feed!Cardinality(S) = Cardinality(S)
  BY DEF Feed!Cardinality, Cardinality
<1>2. Feed!IsFiniteSet(S) <=> IsFiniteSet(S)
  BY DEF Feed!IsFiniteSet, IsFiniteSet
<1> QED
  BY <1>1, <1>2

\* A full fleet stays full, as no vehicle leaves it.
LEMMA FullStays ==
    ASSUME Feed!ConstantsOK, Feed!Full, \A v \in Vehicles : server.fleet[v] > 0 => server'.fleet[v] > 0
    PROVE  Feed!Full'
<1>1. PICK X, Y : X = Feed!Known /\ Y = Feed!Known'
  OBVIOUS
<1>2. X \subseteq Y /\ Y \subseteq Vehicles
  BY <1>1 DEF Feed!Known
<1>3. IsFiniteSet(Vehicles) /\ Fleet \in Nat
  BY FeedCounts DEF Feed!ConstantsOK
<1>4. IsFiniteSet(Y) /\ Cardinality(X) \in Nat /\ Cardinality(Y) \in Nat /\ Cardinality(X) <= Cardinality(Y)
  BY <1>2, <1>3, FS_Subset, FS_CardinalityType
<1>5. Cardinality(X) >= Fleet
  BY <1>1, FeedCounts DEF Feed!Full
<1>6. Cardinality(Y) >= Fleet
  BY <1>3, <1>4, <1>5
<1>7. Feed!Cardinality(Y) = Cardinality(Y)
  BY FeedCounts
<1> QED
  BY <1>1, <1>6, <1>7 DEF Feed!Full

LEMMA ShownStays ==
    ASSUME Feed!ConstantsOK, NEW v \in Vehicles, Feed!Shown(v),
           server'.fleet[v] = server.fleet[v], seen'.world[v] = seen.world[v],
           \A u \in Vehicles : server.fleet[u] > 0 => server'.fleet[u] > 0
    PROVE  Feed!Shown(v)'
<1>1. v \in Feed!Known' <=> v \in Feed!Known
  BY DEF Feed!Known
<1>2. Feed!Full => Feed!Full'
  BY FullStays
<1> QED
  BY <1>1, <1>2, Zenon DEF Feed!Shown

\* Nothing of what the subscription has told is touched.
LEMMA SameWireKeeps ==
    ASSUME Feed!ConstantsOK, Feed!FeedInv, UNCHANGED calls,
           server' \in [fleet : [Vehicles -> Nat], feed : {"live", "lost"},
                        socket : {"down", "resuming", "subscribing", "reading", "on"},
                        resume : {"none", "blank", "held"}, prev : {"none", "blank", "held"}],
           seen' \in [world : [Vehicles -> Nat], moves : Nat, sockets : Nat, unread : SUBSET Vehicles],
           seen'.world = seen.world,
           server'.socket \in {"reading", "on"} => calls.held,
           \/ server'.fleet = server.fleet /\ seen'.unread = seen.unread /\ server.socket # "reading"
           \/ seen'.unread = Vehicles
           \/ server'.socket = "reading"
           \/ \A v \in Vehicles \ seen'.unread : seen.world[v] > 0 => server'.fleet[v] = seen.world[v]
    PROVE  Feed!FeedInv'
<1>1. ASSUME NEW v \in Vehicles, calls'.held, seen'.world[v] > 0
      PROVE  /\ Feed!Untold(v)' \/ \E k \in DOMAIN calls'.wire : Feed!Newest(v, k)'
             /\ Feed!Untold(v)' /\ server'.socket # "reading" /\ v \notin seen'.unread => Feed!Shown(v)'
  <2>1. Feed!Untold(v)' = Feed!Untold(v) /\ \A k : Feed!Newest(v, k)' = Feed!Newest(v, k)
    BY DEF Feed!Untold, Feed!Newest
  <2>2. /\ Feed!Untold(v) \/ \E k \in DOMAIN calls.wire : Feed!Newest(v, k)
        /\ Feed!Untold(v) /\ server.socket # "reading" /\ v \notin seen.unread => Feed!Shown(v)
    BY <1>1 DEF Feed!FeedInv
  <2>3. ASSUME Feed!Untold(v)', server'.socket # "reading", v \notin seen'.unread
        PROVE  Feed!Shown(v)'
    <3>1. CASE server'.fleet = server.fleet /\ seen'.unread = seen.unread /\ server.socket # "reading"
      <4>1. Feed!Shown(v)
        BY <2>1, <2>2, <2>3, <3>1
      <4> QED
        BY <3>1, <4>1, ShownStays
    <3>2. CASE \A u \in Vehicles \ seen'.unread : seen.world[u] > 0 => server'.fleet[u] = seen.world[u]
      BY <2>3, <3>2 DEF Feed!Shown
    <3> QED
      BY <2>3, <3>1, <3>2
  <2> QED
    BY <2>1, <2>2, <2>3
<1> QED
  BY <1>1 DEF Feed!FeedInv

LEMMA SocketKeeps ==
    ASSUME Feed!ConstantsOK, Feed!FeedInv,
           \/ Feed!Welcomed \/ Feed!Resumed \/ Feed!ResumeRefused \/ Feed!RereadFails
           \/ \E answer \in SUBSET Vehicles : Feed!Reread(answer)
           \/ \E long \in BOOLEAN : Feed!OpenFails(long) \/ Feed!Closes(long)
    PROVE  Feed!FeedInv'
<1>1. /\ server \in [fleet : [Vehicles -> Nat], feed : {"live", "lost"},
                    socket : {"down", "resuming", "subscribing", "reading", "on"},
                    resume : {"none", "blank", "held"}, prev : {"none", "blank", "held"}]
      /\ seen \in [world : [Vehicles -> Nat], moves : Nat, sockets : Nat, unread : SUBSET Vehicles]
      /\ server.socket \in {"reading", "on"} => calls.held
  BY DEF Feed!FeedInv
<1>2. CASE Feed!Welcomed
  <2>1. /\ server' \in [fleet : [Vehicles -> Nat], feed : {"live", "lost"},
                         socket : {"down", "resuming", "subscribing", "reading", "on"},
                         resume : {"none", "blank", "held"}, prev : {"none", "blank", "held"}]
        /\ seen' \in [world : [Vehicles -> Nat], moves : Nat, sockets : Nat, unread : SUBSET Vehicles]
        /\ seen'.world = seen.world /\ seen'.unread = seen.unread /\ UNCHANGED calls
        /\ server'.fleet = server.fleet /\ server'.socket \in {"subscribing", "resuming"} /\ server.socket = "down"
    <3>1. PICK socket : socket = IF server.resume = "none" THEN "subscribing" ELSE "resuming"
      OBVIOUS
    <3>2. /\ server' = [server EXCEPT !.socket = socket, !.prev = server.resume, !.resume = "blank"]
          /\ seen' = [seen EXCEPT !.sockets = seen.sockets + 1]
          /\ server.socket = "down" /\ UNCHANGED calls
      BY <1>2, <3>1 DEF Feed!Welcomed
    <3>3. socket \in {"subscribing", "resuming"}
      BY <3>1
    <3>4. server.resume \in {"none", "blank", "held"}
      BY <1>1
    <3>5. server' \in [fleet : [Vehicles -> Nat], feed : {"live", "lost"},
                       socket : {"down", "resuming", "subscribing", "reading", "on"},
                       resume : {"none", "blank", "held"}, prev : {"none", "blank", "held"}]
      BY <1>1, <3>2, <3>3, <3>4
    <3>6. server'.fleet = server.fleet /\ server'.socket = socket
      BY <1>1, <3>2
    <3>7. /\ seen' \in [world : [Vehicles -> Nat], moves : Nat, sockets : Nat, unread : SUBSET Vehicles]
          /\ seen'.world = seen.world /\ seen'.unread = seen.unread
      BY <1>1, <3>2
    <3> QED
      BY <3>2, <3>3, <3>5, <3>6, <3>7
  <2> QED
    BY <2>1, SameWireKeeps
<1>3. CASE Feed!Resumed
  BY <1>1, <1>3, SameWireKeeps DEF Feed!Resumed
<1>4. CASE Feed!ResumeRefused
  BY <1>1, <1>4, SameWireKeeps DEF Feed!ResumeRefused
<1>5. CASE Feed!RereadFails
  BY <1>1, <1>5, SameWireKeeps DEF Feed!RereadFails
<1>6. ASSUME NEW answer \in SUBSET Vehicles, Feed!Reread(answer)
      PROVE  Feed!FeedInv'
  <2>1. PICK fleet : fleet = [v \in Vehicles |-> IF v \in answer THEN seen.world[v] ELSE server.fleet[v]]
    OBVIOUS
  <2>2. PICK unread : unread = Feed!Placed \ answer
    OBVIOUS
  <2>3. fleet \in [Vehicles -> Nat] /\ \A v \in answer : fleet[v] = seen.world[v]
    BY <1>1, <2>1
  <2>4. unread \subseteq Vehicles /\ \A v \in Vehicles : v \notin unread /\ seen.world[v] > 0 => v \in answer
    BY <2>2 DEF Feed!Placed
  <2>5. /\ server' = [server EXCEPT !.socket = "on", !.feed = "live", !.fleet = fleet]
        /\ seen' = [seen EXCEPT !.unread = unread] /\ UNCHANGED calls /\ server.socket = "reading"
    BY <1>6, <2>1, <2>2 DEF Feed!Reread
  <2>6. /\ server' \in [fleet : [Vehicles -> Nat], feed : {"live", "lost"},
                         socket : {"down", "resuming", "subscribing", "reading", "on"},
                         resume : {"none", "blank", "held"}, prev : {"none", "blank", "held"}]
        /\ server'.fleet = fleet /\ seen'.unread = unread /\ seen'.world = seen.world
        /\ seen' \in [world : [Vehicles -> Nat], moves : Nat, sockets : Nat, unread : SUBSET Vehicles]
    BY <1>1, <2>3, <2>4, <2>5
  <2>7. \A v \in Vehicles \ seen'.unread : seen.world[v] > 0 => server'.fleet[v] = seen.world[v]
    BY <2>3, <2>4, <2>6
  <2> QED
    BY <1>1, <2>5, <2>6, <2>7, SameWireKeeps
<1>7. ASSUME NEW long \in BOOLEAN, Feed!OpenFails(long) \/ Feed!Closes(long)
      PROVE  Feed!FeedInv'
  <2>1. Feed!Word(long) \in {"live", "lost"}
    BY <1>1 DEF Feed!Word
  <2>2. CASE Feed!OpenFails(long)
    BY <1>1, <2>1, <2>2, SameWireKeeps DEF Feed!OpenFails
  <2>3. CASE Feed!Closes(long)
    BY <1>1, <2>1, <2>3, SameWireKeeps DEF Feed!Closes
  <2> QED
    BY <1>7, <2>2, <2>3
<1> QED
  BY <1>2, <1>3, <1>4, <1>5, <1>6, <1>7

LEMMA MoveKeeps ==
    ASSUME Feed!ConstantsOK, Feed!FeedInv, NEW v \in Vehicles, Feed!Moves(v)
    PROVE  Feed!FeedInv'
<1>1. PICK wire, moves : wire = calls.wire /\ moves = seen.moves + 1
  OBVIOUS
<1>2. /\ wire \in Seq([of : Vehicles, at : Nat \ {0}]) /\ moves \in Nat \ {0}
      /\ seen \in [world : [Vehicles -> Nat], moves : Nat, sockets : Nat, unread : SUBSET Vehicles]
      /\ calls \in [held : BOOLEAN, wire : Seq([of : Vehicles, at : Nat \ {0}])]
  BY <1>1 DEF Feed!FeedInv
<1>3. /\ seen' = [seen EXCEPT !.moves = moves, !.world[v] = moves]
      /\ UNCHANGED server
      /\ calls' = IF calls.held THEN [calls EXCEPT !.wire = Append(wire, [of |-> v, at |-> moves])] ELSE calls
  BY <1>1 DEF Feed!Moves
<1>4. /\ seen' \in [world : [Vehicles -> Nat], moves : Nat, sockets : Nat, unread : SUBSET Vehicles]
      /\ seen'.unread = seen.unread
      /\ seen'.world = [seen.world EXCEPT ![v] = moves]
  BY <1>2, <1>3
<1>5. PICK wired : wired = Append(wire, [of |-> v, at |-> moves])
  OBVIOUS
<1>6. /\ wired \in Seq([of : Vehicles, at : Nat \ {0}])
      /\ Len(wired) = Len(wire) + 1 /\ Len(wire) \in Nat /\ DOMAIN wired = 1..Len(wired) /\ DOMAIN wire = 1..Len(wire)
      /\ wired[Len(wired)] = [of |-> v, at |-> moves]
      /\ \A k \in DOMAIN wire : wired[k] = wire[k]
  BY <1>2, <1>5
<1>7. /\ calls' \in [held : BOOLEAN, wire : Seq([of : Vehicles, at : Nat \ {0}])] /\ calls'.held = calls.held
      /\ calls.held => calls'.wire = wired
  BY <1>2, <1>3, <1>5, <1>6
<1>8. ASSUME NEW u \in Vehicles, calls.held, seen'.world[u] > 0
      PROVE  /\ Feed!Untold(u)' \/ \E k \in DOMAIN calls'.wire : Feed!Newest(u, k)'
             /\ Feed!Untold(u)' => Feed!Untold(u) /\ u # v
  <2>1. calls'.wire = wired /\ DOMAIN wired = 1..Len(wired)
    BY <1>6, <1>7, <1>8
  <2>2. CASE u = v
    <3>1. Len(wired) \in DOMAIN wired /\ \A j \in DOMAIN wired : ~(j > Len(wired))
      BY <1>6
    <3>2. wired[Len(wired)].of = v /\ wired[Len(wired)].at = seen'.world[v]
      BY <1>2, <1>4, <1>6
    <3>3. Feed!Newest(u, Len(wired))'
      BY <2>1, <2>2, <3>1, <3>2 DEF Feed!Newest
    <3>4. ~Feed!Untold(u)'
      BY <2>1, <2>2, <3>1, <3>2 DEF Feed!Untold
    <3> QED
      BY <2>1, <3>1, <3>3, <3>4
  <2>3. CASE u # v
    <3>1. Feed!Untold(u)' <=> Feed!Untold(u)
      <4>1. wired[Len(wired)].of # u
        BY <1>6, <2>3
      <4>2. \A k \in DOMAIN wired : k = Len(wired) \/ k \in DOMAIN wire
        BY <1>6
      <4>3. DOMAIN wire \subseteq DOMAIN wired
        BY <1>6
      <4>4. (\A k \in DOMAIN wired : wired[k].of # u) <=> (\A k \in DOMAIN wire : wire[k].of # u)
        BY <1>6, <4>1, <4>2, <4>3
      <4> QED
        BY <1>1, <2>1, <4>4 DEF Feed!Untold
    <3>2. ASSUME NEW k \in DOMAIN wire, Feed!Newest(u, k)
          PROVE  k \in DOMAIN wired /\ Feed!Newest(u, k)'
      <4>1. seen'.world[u] = seen.world[u] /\ wired[k] = wire[k] /\ k \in DOMAIN wired
        BY <1>2, <1>4, <1>6, <2>3
      <4>2. ASSUME NEW j \in DOMAIN wired, j > k
            PROVE  wired[j].of # u
        <5>1. CASE j = Len(wired)
          <6>1. wired[j].of = v
            BY <1>6, <5>1
          <6> QED
            BY <2>3, <6>1
        <5>2. CASE j # Len(wired)
          <6>1. j \in DOMAIN wire
            BY <1>6, <5>2
          <6> QED
            BY <1>1, <1>6, <3>2, <4>2, <6>1 DEF Feed!Newest
        <5> QED
          BY <5>1, <5>2
      <4> QED
        BY <1>1, <2>1, <3>2, <4>1, <4>2 DEF Feed!Newest
    <3>3. Feed!Untold(u) \/ \E k \in DOMAIN wire : Feed!Newest(u, k)
      <4>1. seen.world[u] > 0
        BY <1>2, <1>4, <1>8, <2>3
      <4> QED
        BY <1>1, <1>8, <4>1 DEF Feed!FeedInv
    <3> QED
      BY <2>1, <2>3, <3>1, <3>2, <3>3
  <2> QED
    BY <2>2, <2>3
<1>9. ASSUME NEW u \in Vehicles, calls'.held, seen'.world[u] > 0
      PROVE  /\ Feed!Untold(u)' \/ \E k \in DOMAIN calls'.wire : Feed!Newest(u, k)'
             /\ Feed!Untold(u)' /\ server'.socket # "reading" /\ u \notin seen'.unread => Feed!Shown(u)'
  <2>1. /\ Feed!Untold(u)' \/ \E k \in DOMAIN calls'.wire : Feed!Newest(u, k)'
        /\ Feed!Untold(u)' => Feed!Untold(u) /\ u # v
    BY <1>7, <1>8, <1>9
  <2>2. ASSUME Feed!Untold(u)', server'.socket # "reading", u \notin seen'.unread
        PROVE  Feed!Shown(u)'
    <3>1. seen'.world[u] = seen.world[u] /\ Feed!Untold(u)
      BY <1>2, <1>4, <2>1, <2>2
    <3>2. Feed!Shown(u)
      BY <1>3, <1>4, <1>7, <1>9, <2>2, <3>1 DEF Feed!FeedInv
    <3> QED
      BY <1>3, <3>1, <3>2, ShownStays
  <2> QED
    BY <2>1, <2>2
<1>10. server'.socket \in {"reading", "on"} => calls'.held
  BY <1>3, <1>7 DEF Feed!FeedInv
<1>11. server' \in [fleet : [Vehicles -> Nat], feed : {"live", "lost"},
                    socket : {"down", "resuming", "subscribing", "reading", "on"},
                    resume : {"none", "blank", "held"}, prev : {"none", "blank", "held"}]
  BY <1>3 DEF Feed!FeedInv
<1> QED
  BY <1>4, <1>7, <1>9, <1>10, <1>11 DEF Feed!FeedInv

\* A vehicle that leaves the space is not told of, and is not looked for.
LEMMA VehicleLeavesKeeps ==
    ASSUME Feed!ConstantsOK, Feed!FeedInv, NEW v \in Vehicles, Feed!Leaves(v)
    PROVE  Feed!FeedInv'
<1>1. /\ seen' = [seen EXCEPT !.moves = seen.moves + 1, !.world[v] = 0] /\ UNCHANGED <<server, calls>>
      /\ seen \in [world : [Vehicles -> Nat], moves : Nat, sockets : Nat, unread : SUBSET Vehicles]
  BY DEF Feed!Leaves, Feed!FeedInv
<1>2. /\ seen' \in [world : [Vehicles -> Nat], moves : Nat, sockets : Nat, unread : SUBSET Vehicles]
      /\ seen'.unread = seen.unread /\ seen'.world = [seen.world EXCEPT ![v] = 0]
  <2>1. PICK world, moves : world = [seen.world EXCEPT ![v] = 0] /\ moves = seen.moves + 1
    OBVIOUS
  <2>2. world \in [Vehicles -> Nat] /\ moves \in Nat
    BY <1>1, <2>1
  <2>3. seen' = [seen EXCEPT !.moves = moves, !.world = world]
    BY <1>1, <2>1
  <2> QED
    BY <1>1, <2>1, <2>2, <2>3
<1>3. ASSUME NEW u \in Vehicles, calls'.held, seen'.world[u] > 0
      PROVE  /\ Feed!Untold(u)' \/ \E k \in DOMAIN calls'.wire : Feed!Newest(u, k)'
             /\ Feed!Untold(u)' /\ server'.socket # "reading" /\ u \notin seen'.unread => Feed!Shown(u)'
  <2>1. seen'.world[u] = seen.world[u]
    BY <1>1, <1>2, <1>3
  <2>2. Feed!Untold(u)' = Feed!Untold(u) /\ \A k : Feed!Newest(u, k)' = Feed!Newest(u, k)
    BY <1>1, <2>1 DEF Feed!Untold, Feed!Newest
  <2>3. /\ Feed!Untold(u) \/ \E k \in DOMAIN calls.wire : Feed!Newest(u, k)
        /\ Feed!Untold(u) /\ server.socket # "reading" /\ u \notin seen.unread => Feed!Shown(u)
    BY <1>1, <1>3, <2>1 DEF Feed!FeedInv
  <2>4. Feed!Shown(u) => Feed!Shown(u)'
    BY <1>1, <2>1, ShownStays
  <2> QED
    BY <1>1, <1>2, <2>2, <2>3, <2>4
<1> QED
  BY <1>1, <1>2, <1>3 DEF Feed!FeedInv

LEMMA AtIn ==
    ASSUME NEW S, NEW s \in Seq(S), NEW k \in DOMAIN s
    PROVE  s[k] \in S
OBVIOUS

LEMMA NotifiedKeeps ==
    ASSUME Feed!ConstantsOK, Feed!FeedInv, Feed!Notified
    PROVE  Feed!FeedInv'
<1>1. PICK wire, rest, move : wire = calls.wire /\ rest = Tail(wire) /\ move = Head(wire)
  OBVIOUS
<1>2. /\ wire \in Seq([of : Vehicles, at : Nat \ {0}]) /\ wire # <<>> /\ calls.held
      /\ server \in [fleet : [Vehicles -> Nat], feed : {"live", "lost"},
                    socket : {"down", "resuming", "subscribing", "reading", "on"},
                    resume : {"none", "blank", "held"}, prev : {"none", "blank", "held"}]
      /\ calls \in [held : BOOLEAN, wire : Seq([of : Vehicles, at : Nat \ {0}])]
      /\ server.socket = "on"
  BY <1>1 DEF Feed!FeedInv, Feed!Notified
<1>3. /\ server' = IF move.of \notin Feed!Known /\ Feed!Full THEN server ELSE [server EXCEPT !.fleet[move.of] = move.at]
      /\ calls' = [calls EXCEPT !.wire = rest]
      /\ seen' = [seen EXCEPT !.unread = seen.unread \ {move.of}]
      /\ seen \in [world : [Vehicles -> Nat], moves : Nat, sockets : Nat, unread : SUBSET Vehicles]
  BY <1>1 DEF Feed!Notified, Feed!FeedInv
<1>4. /\ rest \in Seq([of : Vehicles, at : Nat \ {0}])
      /\ Len(wire) \in Nat \ {0} /\ DOMAIN wire = 1..Len(wire) /\ DOMAIN rest = 1..(Len(wire) - 1)
      /\ move = wire[1] /\ move.of \in Vehicles /\ move.at \in Nat \ {0}
      /\ \A k \in DOMAIN rest : rest[k] = wire[k + 1]
  <2>1. Len(wire) \in Nat \ {0} /\ DOMAIN wire = 1..Len(wire)
    BY <1>2
  <2>2. rest \in Seq([of : Vehicles, at : Nat \ {0}]) /\ Len(rest) = Len(wire) - 1
    BY <1>1, <1>2
  <2>3. DOMAIN rest = 1..(Len(wire) - 1)
    BY <2>2
  <2>4. move = wire[1] /\ move \in [of : Vehicles, at : Nat \ {0}]
    <3>1. PICK Notes : Notes = [of : Vehicles, at : Nat \ {0}]
      OBVIOUS
    <3>2. wire \in Seq(Notes) /\ 1 \in DOMAIN wire /\ wire # <<>>
      BY <1>2, <2>1, <3>1
    <3>3. wire[1] \in Notes
      BY <3>2, AtIn
    <3>4. move = wire[1]
      BY <1>1, <3>2, HeadTailProperties
    <3> QED
      BY <3>1, <3>3, <3>4
  <2>5. move.of \in Vehicles /\ move.at \in Nat \ {0}
    BY <2>4
  <2>6. \A k \in DOMAIN rest : rest[k] = wire[k + 1]
    BY <1>1, <1>2, <2>3
  <2> QED
    BY <2>1, <2>2, <2>3, <2>4, <2>5, <2>6
<1>5. /\ server' \in [fleet : [Vehicles -> Nat], feed : {"live", "lost"},
                     socket : {"down", "resuming", "subscribing", "reading", "on"},
                     resume : {"none", "blank", "held"}, prev : {"none", "blank", "held"}]
      /\ server'.socket = "on"
      /\ \/ server'.fleet = [server.fleet EXCEPT ![move.of] = move.at]
         \/ server'.fleet = server.fleet /\ move.of \notin Feed!Known /\ Feed!Full
      /\ calls' \in [held : BOOLEAN, wire : Seq([of : Vehicles, at : Nat \ {0}])]
      /\ calls'.held /\ calls'.wire = rest
      /\ seen' \in [world : [Vehicles -> Nat], moves : Nat, sockets : Nat, unread : SUBSET Vehicles]
      /\ seen'.world = seen.world /\ seen'.unread = seen.unread \ {move.of}
  <2>1. PICK fleet : fleet = [server.fleet EXCEPT ![move.of] = move.at]
    OBVIOUS
  <2>2. fleet \in [Vehicles -> Nat]
    BY <1>2, <1>4, <2>1
  <2>3. CASE server' = [server EXCEPT !.fleet = fleet]
    BY <1>2, <1>3, <1>4, <2>1, <2>2, <2>3
  <2>4. CASE server' = server /\ move.of \notin Feed!Known /\ Feed!Full
    BY <1>2, <1>3, <1>4, <2>4
  <2> QED
    BY <1>3, <2>1, <2>3, <2>4
<1>0. \A u \in Vehicles : server.fleet[u] > 0 => server'.fleet[u] > 0
  <2> SUFFICES ASSUME NEW u \in Vehicles, server.fleet[u] > 0
               PROVE  server'.fleet[u] > 0
    OBVIOUS
  <2>1. CASE server'.fleet = server.fleet
    BY <2>1
  <2>2. CASE server'.fleet = [server.fleet EXCEPT ![move.of] = move.at]
    <3>1. server.fleet \in [Vehicles -> Nat] /\ move.at > 0
      BY <1>2, <1>4
    <3> QED
      BY <2>2, <3>1
  <2> QED
    BY <1>5, <2>1, <2>2
<1>6. ASSUME NEW k \in DOMAIN wire, NEW i, i = k - 1, k # 1
      PROVE  i \in DOMAIN rest /\ rest[i] = wire[k]
  <2>1. i \in DOMAIN rest /\ k = i + 1
    BY <1>4, <1>6
  <2> QED
    BY <1>4, <2>1
<1>7. ASSUME NEW u \in Vehicles, seen.world[u] > 0
      PROVE  /\ Feed!Untold(u)' \/ \E k \in DOMAIN calls'.wire : Feed!Newest(u, k)'
             /\ Feed!Untold(u)' /\ u \notin seen'.unread => Feed!Shown(u)'
  <2>1. CASE Feed!Untold(u)
    <3>1. u # move.of /\ server'.fleet[u] = server.fleet[u]
      <4>1. 1 \in DOMAIN wire
        BY <1>4
      <4>2. move.of # u
        BY <1>1, <1>4, <2>1, <4>1 DEF Feed!Untold
      <4> QED
        BY <1>2, <1>5, <4>2
    <3>2. Feed!Untold(u)'
      <4>1. ASSUME NEW k \in DOMAIN rest
            PROVE  rest[k].of # u
        <5>1. k + 1 \in DOMAIN wire /\ rest[k] = wire[k + 1]
          BY <1>4
        <5> QED
          BY <1>1, <2>1, <5>1 DEF Feed!Untold
      <4> QED
        BY <1>5, <4>1 DEF Feed!Untold
    <3>3. ASSUME u \notin seen'.unread
          PROVE  Feed!Shown(u)'
      <4>1. u \notin seen.unread
        BY <1>5, <3>1, <3>3
      <4>2. Feed!Shown(u)
        BY <1>2, <1>7, <2>1, <4>1 DEF Feed!FeedInv
      <4> QED
        BY <1>0, <1>5, <3>1, <4>2, ShownStays
    <3> QED
      BY <3>2, <3>3
  <2>2. CASE ~Feed!Untold(u)
    <3>1. PICK k \in DOMAIN wire : Feed!Newest(u, k)
      BY <1>1, <1>2, <1>7, <2>2 DEF Feed!FeedInv
    <3>2. wire[k].of = u /\ wire[k].at = seen.world[u] /\ \A j \in DOMAIN wire : j > k => wire[j].of # u
      BY <1>1, <3>1 DEF Feed!Newest
    <3>4. CASE k = 1
      <4>1. move.of = u /\ move.at = seen.world[u]
        BY <1>4, <3>2, <3>4
      <4>2. ASSUME NEW j \in DOMAIN rest
            PROVE  rest[j].of # u
        <5>1. j + 1 \in DOMAIN wire /\ j + 1 > 1 /\ rest[j] = wire[j + 1]
          BY <1>4
        <5> QED
          BY <3>2, <3>4, <5>1
      <4>3. Feed!Untold(u)'
        BY <1>5, <4>2 DEF Feed!Untold
      <4>4. CASE server'.fleet = [server.fleet EXCEPT ![move.of] = move.at]
        <5>1. server'.fleet[u] = seen'.world[u]
          BY <1>2, <1>5, <4>1, <4>4
        <5> QED
          BY <4>3, <5>1 DEF Feed!Shown
      <4>5. CASE server'.fleet = server.fleet /\ move.of \notin Feed!Known /\ Feed!Full
        <5>1. Feed!Shown(u)
          BY <4>1, <4>5 DEF Feed!Shown
        <5>2. Feed!Shown(u)'
          BY <1>0, <1>5, <4>5, <5>1, ShownStays
        <5> QED
          BY <4>3, <5>2
      <4> QED
        BY <1>5, <4>4, <4>5
    <3>5. CASE k # 1
      <4>1. PICK i : i = k - 1
        OBVIOUS
      <4>2. i \in DOMAIN rest /\ rest[i] = wire[k]
        BY <1>6, <3>5, <4>1
      <4>3. ASSUME NEW j \in DOMAIN rest, j > i
            PROVE  rest[j].of # u
        <5>1. j + 1 \in DOMAIN wire /\ j + 1 > k /\ rest[j] = wire[j + 1]
          BY <1>4, <4>1, <4>3
        <5> QED
          BY <3>2, <5>1
      <4>4. Feed!Newest(u, i)'
        BY <1>3, <1>5, <3>2, <4>2, <4>3 DEF Feed!Newest
      <4>5. ~Feed!Untold(u)'
        BY <1>5, <3>2, <4>2 DEF Feed!Untold
      <4> QED
        BY <1>5, <4>2, <4>4, <4>5
    <3> QED
      BY <3>4, <3>5
  <2> QED
    BY <2>1, <2>2
<1> QED
  BY <1>5, <1>7 DEF Feed!FeedInv

\* The Endpoint lets go of the subscription, starts it anew, or says what it dropped.
LEMMA EndpointKeeps ==
    ASSUME Feed!ConstantsOK, Feed!FeedInv, Feed!Expires \/ Feed!Subscribed \/ Feed!Gap
    PROVE  Feed!FeedInv'
<1>1. /\ server \in [fleet : [Vehicles -> Nat], feed : {"live", "lost"},
                    socket : {"down", "resuming", "subscribing", "reading", "on"},
                    resume : {"none", "blank", "held"}, prev : {"none", "blank", "held"}]
      /\ calls \in [held : BOOLEAN, wire : Seq([of : Vehicles, at : Nat \ {0}])]
      /\ server.socket \in {"reading", "on"} => calls.held
  BY DEF Feed!FeedInv
<1>2. /\ calls' \in [held : BOOLEAN, wire : Seq([of : Vehicles, at : Nat \ {0}])]
      /\ calls'.wire = <<>> /\ UNCHANGED seen
      /\ (~calls'.held /\ UNCHANGED server /\ server.socket \in {"down", "resuming"})
         \/ (calls'.held /\ server'.socket = "reading" /\ server'.fleet = server.fleet)
  <2>1. <<>> \in Seq([of : Vehicles, at : Nat \ {0}])
    OBVIOUS
  <2>2. CASE Feed!Expires
    BY <1>1, <2>1, <2>2 DEF Feed!Expires
  <2>3. CASE Feed!Subscribed
    BY <1>1, <2>1, <2>3 DEF Feed!Subscribed
  <2>4. CASE Feed!Gap
    BY <1>1, <2>1, <2>4 DEF Feed!Gap
  <2> QED
    BY <2>2, <2>3, <2>4
<1>3. server' \in [fleet : [Vehicles -> Nat], feed : {"live", "lost"},
                  socket : {"down", "resuming", "subscribing", "reading", "on"},
                  resume : {"none", "blank", "held"}, prev : {"none", "blank", "held"}]
  BY <1>1 DEF Feed!Expires, Feed!Subscribed, Feed!Gap
<1>4. \A v \in Vehicles : Feed!Untold(v)'
  BY <1>2 DEF Feed!Untold
<1>5. seen' \in [world : [Vehicles -> Nat], moves : Nat, sockets : Nat, unread : SUBSET Vehicles]
  BY <1>2 DEF Feed!FeedInv
<1> QED
  BY <1>2, <1>3, <1>4, <1>5 DEF Feed!FeedInv

\* However often the socket closes, is resumed, is refused or drops notifications: a feed called
\* live, on a socket with nothing left to read, has every vehicle of the space where it is, however
\* vehicles come and leave, but for those the read that was to fill a gap did not bring, as it failed
\* or stopped at the fleet's size, and for new ones beyond a full fleet.
THEOREM LiveFeedIsComplete ==
    ASSUME Feed!ConstantsOK
    PROVE  Feed!Spec => []Feed!LiveIsComplete
<1>1. Feed!Init => Feed!FeedInv
  BY InitFeedInv
<1>2. Feed!FeedInv /\ [Feed!Next]_(Feed!vars) => Feed!FeedInv'
  <2>1. SUFFICES ASSUME Feed!FeedInv, [Feed!Next]_(Feed!vars)
                 PROVE  Feed!FeedInv'
    OBVIOUS
  <2>2. CASE UNCHANGED Feed!vars
    <3>1. UNCHANGED <<server, calls, seen>>
      BY <2>2 DEF Feed!vars
    <3>2. /\ server \in [fleet : [Vehicles -> Nat], feed : {"live", "lost"},
                         socket : {"down", "resuming", "subscribing", "reading", "on"},
                         resume : {"none", "blank", "held"}, prev : {"none", "blank", "held"}]
          /\ seen \in [world : [Vehicles -> Nat], moves : Nat, sockets : Nat, unread : SUBSET Vehicles]
          /\ server.socket \in {"reading", "on"} => calls.held
      BY <2>1 DEF Feed!FeedInv
    <3> QED
      BY <2>1, <3>1, <3>2, SameWireKeeps
  <2>3. CASE Feed!Next
    BY <2>1, <2>3, MoveKeeps, VehicleLeavesKeeps, SocketKeeps, NotifiedKeeps, EndpointKeeps DEF Feed!Next
  <2> QED
    BY <2>1, <2>2, <2>3
<1>3. Feed!FeedInv => Feed!LiveIsComplete
  <2>1. SUFFICES ASSUME Feed!FeedInv, Feed!CaughtUp, NEW v \in Vehicles \ seen.unread
                 PROVE  Feed!Shown(v)
    BY DEF Feed!LiveIsComplete
  <2>2. calls.held /\ Feed!Untold(v) /\ server.socket # "reading"
    BY <2>1 DEF Feed!FeedInv, Feed!CaughtUp, Feed!Untold
  <2>3. CASE seen.world[v] > 0
    BY <2>1, <2>2, <2>3 DEF Feed!FeedInv
  <2>4. CASE ~(seen.world[v] > 0)
    BY <2>4 DEF Feed!Shown
  <2> QED
    BY <2>3, <2>4
<1> QED
  BY <1>1, <1>2, <1>3, PTL DEF Feed!Spec

(***************************************************************************)
(* The dataset map (CatalogueMap).                                         *)
(***************************************************************************)
LEMMA InitViewsInv ==
    ASSUME Map!ConstantsOK, Map!Init
    PROVE  Map!ViewsInv
BY DEF Map!Init, Map!ViewsInv, Map!NoView, Map!NoFeature

\* Before it is live, and when a read only goes on or fails, the map asks for no view.
LEMMA StartKeeps ==
    ASSUME Map!ViewsInv, UNCHANGED <<lastView, asked, loads, feature, marked>>,
           stage' \in {"library", "nothing", "map", "paging", "live", "stopped", "dead"},
           \/ stage # "live"
           \/ UNCHANGED <<stage, tiled, drawn>> /\ (UNCHANGED state \/ state' # "ready" \/ tiled)
    PROVE  Map!ViewsInv'
BY DEF Map!ViewsInv, Map!NoView

LEMMA ReadsKeep ==
    ASSUME Map!ViewsInv,
           \/ Map!Page \/ Map!Enough \/ Map!PageFails \/ Map!Tilesets \/ Map!LibraryFails \/ Map!Library
           \/ Map!Nothing \/ Map!AllRead \/ Map!AllFailed \/ \E far \in BOOLEAN : Map!MapUp(far)
    PROVE  Map!ViewsInv'
<1>1. UNCHANGED <<lastView, asked, loads, feature, marked>>
  BY DEF Map!Page, Map!Enough, Map!PageFails, Map!Tilesets, Map!LibraryFails, Map!Library, Map!Nothing,
         Map!AllRead, Map!AllFailed, Map!MapUp, Map!moves, Map!opened
<1>2. stage \in {"library", "nothing", "map", "paging", "live", "stopped", "dead"}
  BY DEF Map!ViewsInv
<1>3. CASE Map!Page
  <2>1. UNCHANGED <<stage, tiled, state>> /\ (stage # "paging" => UNCHANGED drawn)
    BY <1>3 DEF Map!Page
  <2> QED
    BY <1>1, <1>2, <2>1, StartKeeps
<1>4. CASE Map!Enough \/ Map!PageFails \/ Map!Tilesets
  <2>1. UNCHANGED <<stage, tiled, drawn, state>>
    BY <1>4 DEF Map!Enough, Map!PageFails, Map!Tilesets
  <2> QED
    BY <1>1, <1>2, <2>1, StartKeeps
<1>5. CASE \/ Map!LibraryFails \/ Map!Library \/ Map!Nothing \/ Map!AllRead \/ Map!AllFailed
           \/ \E far \in BOOLEAN : Map!MapUp(far)
  <2>1. /\ stage # "live"
        /\ stage' \in {"library", "nothing", "map", "paging", "live", "stopped", "dead"}
    BY <1>5 DEF Map!LibraryFails, Map!Library, Map!Nothing, Map!AllRead, Map!AllFailed, Map!MapUp, Map!Dies
  <2> QED
    BY <1>1, <2>1, StartKeeps
<1> QED
  BY <1>3, <1>4, <1>5

LEMMA ViewsKeep ==
    ASSUME Map!ViewsInv,
           \/ \E load \in loads : Map!LoadAnswers(load) \/ Map!LoadFails(load)
           \/ \E view \in Views, far \in BOOLEAN : Map!MoveEnd(view, far)
    PROVE  Map!ViewsInv'
<1>1. ASSUME NEW load \in loads, Map!LoadAnswers(load)
      PROVE  Map!ViewsInv'
  <2>1. /\ loads' = loads \ {load} /\ UNCHANGED <<stage, tiled, lastView, asked, feature, marked>>
        /\ \/ load.n = asked /\ drawn' = Map!InView(load.view)
           \/ UNCHANGED <<drawn, state>>
    BY <1>1 DEF Map!LoadAnswers, Map!Put, Map!opened
  <2>2. load.n = asked => load.view = lastView
    BY DEF Map!ViewsInv
  <2>3. state' = "ready" /\ lastView # Map!NoView => drawn' = Map!InView(lastView)
    BY <2>1, <2>2 DEF Map!ViewsInv
  <2>4. Map!InView(lastView)' = Map!InView(lastView)
    BY <2>1
  <2> QED
    BY <2>1, <2>3, <2>4 DEF Map!ViewsInv
<1>2. ASSUME NEW load \in loads, Map!LoadFails(load)
      PROVE  Map!ViewsInv'
  BY <1>2 DEF Map!LoadFails, Map!opened, Map!ViewsInv
<1>3. ASSUME NEW view \in Views, NEW far \in BOOLEAN, Map!MoveEnd(view, far)
      PROVE  Map!ViewsInv'
  <2>1. stage = "live" /\ UNCHANGED <<stage, tiled, drawn, feature, marked>>
    BY <1>3 DEF Map!MoveEnd, Map!opened
  <2>2. CASE UNCHANGED <<lastView, asked, loads>>
    <3>1. UNCHANGED state \/ tiled
      BY <1>3, <2>2 DEF Map!MoveEnd
    <3> QED
      BY <2>1, <2>2, <3>1, StartKeeps
  <2>3. CASE ~UNCHANGED <<lastView, asked, loads>>
    <3>1. /\ lastView' = view /\ asked' = asked + 1 /\ state' = "loading" /\ ~tiled
          /\ loads' = loads \cup {[n |-> asked + 1, view |-> view]}
      BY <1>3, <2>3 DEF Map!MoveEnd
    <3>2. asked \in Nat /\ loads \subseteq [n : Nat, view : Views] /\ \A load \in loads : load.n <= asked
      BY DEF Map!ViewsInv
    <3>3. PICK new : new = [n |-> asked + 1, view |-> view]
      OBVIOUS
    <3>4. new \in [n : Nat, view : Views] /\ new.n = asked' /\ new.view = lastView'
      BY <3>1, <3>2, <3>3
    <3>5. \A load \in loads : load.n <= asked' /\ load.n # asked'
      BY <3>1, <3>2
    <3>6. asked' \in Nat /\ loads' \subseteq [n : Nat, view : Views]
      BY <3>1, <3>2, <3>3, <3>4
    <3>7. \A load \in loads' : load.n <= asked' /\ (load.n = asked' => load.view = lastView')
      BY <3>1, <3>3, <3>4, <3>5, <3>6
    <3> QED
      BY <2>1, <3>1, <3>6, <3>7 DEF Map!ViewsInv
  <2> QED
    BY <2>2, <2>3
<1> QED
  BY <1>1, <1>2, <1>3

LEMMA PanelKeeps ==
    ASSUME Map!ViewsInv,
           \/ Map!Shut
           \/ \E f \in Map!Everything : \/ Map!Click(f) \/ Map!ClickTile(f)
                                        \/ \E here \in BOOLEAN : Map!Whole(f, here)
    PROVE  Map!ViewsInv'
<1>1. UNCHANGED <<stage, tiled, drawn, state, lastView, asked, loads>>
  BY DEF Map!Shut, Map!Click, Map!ClickTile, Map!Whole, Map!moves
<1>2. marked' \subseteq {feature'}
  BY DEF Map!Shut, Map!Click, Map!ClickTile, Map!Whole, Map!Select, Map!ViewsInv
<1> QED
  BY <1>1, <1>2 DEF Map!ViewsInv

\* However the answers of the views overtake each other, and however late a tile's whole feature
\* comes: a map that calls itself ready draws the view asked for last, and marks no feature but the
\* one in its panel.
THEOREM ReadyMapIsNewest ==
    ASSUME Map!ConstantsOK
    PROVE  Map!Spec => [](Map!ReadyIsNewest /\ Map!OnlyTheOpenIsMarked)
<1>1. Map!Init => Map!ViewsInv
  BY InitViewsInv
<1>2. Map!ViewsInv /\ [Map!Next]_(Map!vars) => Map!ViewsInv'
  <2>1. SUFFICES ASSUME Map!ViewsInv, [Map!Next]_(Map!vars)
                 PROVE  Map!ViewsInv'
    OBVIOUS
  <2>2. CASE UNCHANGED Map!vars
    BY <2>1, <2>2 DEF Map!vars, Map!ViewsInv
  <2>3. CASE Map!Next
    BY <2>1, <2>3, ReadsKeep, ViewsKeep, PanelKeeps DEF Map!Next, Map!Reads
  <2> QED
    BY <2>1, <2>2, <2>3
<1>3. Map!ViewsInv => Map!ReadyIsNewest /\ Map!OnlyTheOpenIsMarked
  BY DEF Map!ViewsInv, Map!ReadyIsNewest, Map!OnlyTheOpenIsMarked
<1> QED
  BY <1>1, <1>2, <1>3, PTL DEF Map!Spec

(***************************************************************************)
(* The messages under way: what Append and Tail do to the newest of them.  *)
(***************************************************************************)
LEMMA QueueIs ==
    ASSUME NEW X, NEW q \in Seq(X)
    PROVE  /\ Len(q) \in Nat /\ DOMAIN q = 1..Len(q) /\ \A i \in DOMAIN q : q[i] \in X
           /\ q # <<>> => /\ Head(q) = q[1] /\ 1 \in DOMAIN q /\ Tail(q) \in Seq(X) /\ Len(Tail(q)) = Len(q) - 1
                          /\ DOMAIN Tail(q) = 1..(Len(q) - 1)
                          /\ \A i \in 1..(Len(q) - 1) : Tail(q)[i] = q[i + 1]
OBVIOUS

LEMMA QueueTail ==
    ASSUME NEW X, NEW q \in Seq(X), q # <<>>, NEW kind
    PROVE  /\ Tail(q) \in Seq(X) /\ Head(q) \in X
           /\ NoneOf(q, kind) => NoneOf(Tail(q), kind) /\ Head(q) \notin kind
           /\ \A m : Newest(q, kind, m) =>
                Newest(Tail(q), kind, m) \/ (Head(q) = m /\ NoneOf(Tail(q), kind))
<1> DEFINE t == Tail(q)
<1>1. /\ Len(q) \in Nat /\ DOMAIN q = 1..Len(q) /\ Head(q) = q[1] /\ 1 \in DOMAIN q /\ q[1] \in X
      /\ t \in Seq(X) /\ DOMAIN t = 1..(Len(q) - 1) /\ \A i \in 1..(Len(q) - 1) : t[i] = q[i + 1]
  BY QueueIs
<1> HIDE DEF t
<1>2. \A i \in DOMAIN t : i + 1 \in DOMAIN q /\ t[i] = q[i + 1]
  BY <1>1
<1>3. NoneOf(q, kind) => NoneOf(t, kind) /\ Head(q) \notin kind
  BY <1>1, <1>2 DEF NoneOf
<1>4. ASSUME NEW m, Newest(q, kind, m)
      PROVE  Newest(t, kind, m) \/ (Head(q) = m /\ NoneOf(t, kind))
  <2>1. PICK i \in DOMAIN q : q[i] = m /\ m \in kind /\ \A j \in DOMAIN q : j > i => q[j] \notin kind
    BY <1>4 DEF Newest
  <2>2. CASE i = 1
    <3>1. \A j \in DOMAIN t : t[j] \notin kind
      <4> TAKE j \in DOMAIN t
      <4>1. j + 1 > 1
        BY <1>1
      <4> QED
        BY <1>2, <2>1, <2>2, <4>1
    <3> QED
      BY <1>1, <2>1, <2>2, <3>1 DEF NoneOf
  <2>3. CASE i # 1
    <3>1. i - 1 \in DOMAIN t /\ t[i - 1] = m
      <4>1. i - 1 \in 1..(Len(q) - 1) /\ (i - 1) + 1 = i
        BY <1>1, <2>1, <2>3
      <4> QED
        BY <1>1, <2>1, <4>1
    <3>2. ASSUME NEW j \in DOMAIN t, j > i - 1
          PROVE  t[j] \notin kind
      <4>1. j + 1 > i
        BY <1>1, <3>2
      <4> QED
        BY <1>2, <2>1, <4>1
    <3> QED
      BY <2>1, <3>1, <3>2 DEF Newest
  <2> QED
    BY <2>2, <2>3
<1> QED
  BY <1>1, <1>3, <1>4 DEF t

LEMMA QueueAppend ==
    ASSUME NEW X, NEW q \in Seq(X), NEW m \in X, NEW kind
    PROVE  /\ Append(q, m) \in Seq(X)
           /\ m \in kind => Newest(Append(q, m), kind, m)
           /\ m \notin kind => /\ NoneOf(q, kind) => NoneOf(Append(q, m), kind)
                               /\ \A w : Newest(q, kind, w) => Newest(Append(q, m), kind, w)
<1> DEFINE a == Append(q, m)
<1>1. /\ Len(q) \in Nat /\ DOMAIN q = 1..Len(q) /\ a \in Seq(X) /\ DOMAIN a = 1..(Len(q) + 1)
      /\ a[Len(q) + 1] = m /\ \A i \in DOMAIN q : a[i] = q[i]
  OBVIOUS
<1> HIDE DEF a
<1>2. \A i \in DOMAIN a : i = Len(q) + 1 \/ i \in DOMAIN q
  BY <1>1
<1>3. Len(q) + 1 \in DOMAIN a /\ \A j \in DOMAIN a : ~(j > Len(q) + 1)
  BY <1>1
<1>4. m \in kind => Newest(a, kind, m)
  BY <1>1, <1>3 DEF Newest
<1>5. m \notin kind /\ NoneOf(q, kind) => NoneOf(a, kind)
  BY <1>1, <1>2 DEF NoneOf
<1>6. ASSUME m \notin kind, NEW w, Newest(q, kind, w)
      PROVE  Newest(a, kind, w)
  <2>1. PICK i \in DOMAIN q : q[i] = w /\ w \in kind /\ \A j \in DOMAIN q : j > i => q[j] \notin kind
    BY <1>6 DEF Newest
  <2>2. i \in DOMAIN a /\ a[i] = w
    BY <1>1, <2>1
  <2>3. \A j \in DOMAIN a : j > i => a[j] \notin kind
    BY <1>1, <1>2, <1>6, <2>1
  <2> QED
    BY <2>1, <2>2, <2>3 DEF Newest
<1> QED
  BY <1>1, <1>4, <1>5, <1>6 DEF a

LEMMA QueueEmpty ==
    ASSUME NEW kind
    PROVE  NoneOf(<<>>, kind) /\ \A m : ~Newest(<<>>, kind, m)
BY DEF NoneOf, Newest

LEMMA QueueSays ==
    ASSUME NEW X, NEW q \in Seq(X), NEW m \in X
    PROVE  q \o <<>> = q /\ q \o <<m>> = Append(q, m)
OBVIOUS

LEMMA OneIs ==
    ASSUME NEW v, NEW q, q = <<v>>
    PROVE  1 \in DOMAIN q /\ q[1] = v /\ Head(q) = v /\ Tail(q) = <<>>
OBVIOUS

LEMMA EmptyIs ==
    ASSUME NEW S, NEW q, q = <<>>
    PROVE  q \in Seq(S) /\ DOMAIN q = {}
OBVIOUS

(***************************************************************************)
(* The launcher and the chat it frames.                                    *)
(***************************************************************************)
LEMMA EmbedInit ==
    ASSUME Embed!ConstantsOK, Embed!Init
    PROVE  EmbedInv
<1>0. PICK phone \in BOOLEAN : panel = Embed!NoPanel(phone)
  BY DEF Embed!Init
<1>1. panel \in Embed!Panels /\ widget \in Embed!Widgets /\ Embed!InertAsSeen(panel)
  BY <1>0 DEF Embed!Init, Embed!ConstantsOK, Embed!NoPanel, Embed!NoChat, Embed!InertAsSeen, Embed!Panels, Embed!Widgets
<1>2. posted = <<>> /\ widget.up = "no" /\ size = "panel" /\ picked = "" /\ ~panel.full
  BY <1>0 DEF Embed!Init, Embed!NoPanel, Embed!NoChat
<1>3. posted \in Seq({"full", "panel", "close"})
  <2>1. posted = <<>>
    BY DEF Embed!Init
  <2> QED
    BY <2>1
<1> QED
  BY <1>1, <1>2, <1>3 DEF EmbedInv

\* The panel is opened, closed, or resized by what it hears.
LEMMA LauncherKeeps ==
    ASSUME EmbedInv, Embed!Turn \/ Embed!Open \/ Embed!Close \/ Embed!Hear
    PROVE  EmbedInv'
<1>1. CASE Embed!Open
  <2>1. /\ panel' \in Embed!Panels /\ panel'.frame /\ panel'.full = panel.full /\ Embed!InertAsSeen(panel')
        /\ UNCHANGED <<posted, size, picked>>
        /\ widget' = IF panel.frame THEN widget ELSE [widget EXCEPT !.up = "starting"]
    BY <1>1 DEF EmbedInv, Embed!Open, Embed!Panels, Embed!Silenced, Embed!TakesTheScreen, Embed!InertAsSeen
  <2>2. CASE panel.frame
    BY <2>1, <2>2 DEF EmbedInv, EmbedAgrees
  <2>3. CASE ~panel.frame
    <3>1. widget' \in Embed!Widgets /\ widget'.up = "starting" /\ widget.up = "no"
      BY <2>1, <2>3 DEF EmbedInv, Embed!Widgets
    <3> QED
      BY <2>1, <3>1 DEF EmbedInv
  <2> QED
    BY <2>2, <2>3
<1>2. CASE Embed!Close
  <2>1. /\ panel' \in Embed!Panels /\ panel'.frame = panel.frame /\ panel'.full = panel.full
        /\ Embed!InertAsSeen(panel')
        /\ UNCHANGED <<posted, widget, size, picked>>
    BY <1>2 DEF EmbedInv, Embed!Close, Embed!Closed, Embed!Panels, Embed!Silenced, Embed!TakesTheScreen, Embed!InertAsSeen
  <2> QED
    BY <2>1 DEF EmbedInv, EmbedAgrees
<1>3. CASE Embed!Hear
  <2>1. /\ posted # <<>> /\ posted' = Tail(posted) /\ UNCHANGED <<widget, size, picked>>
        /\ posted \in Seq({"full", "panel", "close"})
    BY <1>3 DEF EmbedInv, Embed!Hear
  <2>2. /\ posted' \in Seq({"full", "panel", "close"}) /\ Head(posted) \in {"full", "panel", "close"}
        /\ NoneOf(posted, EmbedSizes) => NoneOf(posted', EmbedSizes) /\ Head(posted) \notin EmbedSizes
        /\ \A m : Newest(posted, EmbedSizes, m) =>
             Newest(posted', EmbedSizes, m) \/ (Head(posted) = m /\ NoneOf(posted', EmbedSizes))
    BY <2>1, QueueTail
  <2>3. /\ panel' \in Embed!Panels /\ panel'.frame = panel.frame /\ Embed!InertAsSeen(panel')
        /\ panel'.full = IF Head(posted) = "close" THEN panel.full ELSE Head(posted) = "full"
    <3>1. CASE Head(posted) = "close"
      BY <1>3, <3>1 DEF EmbedInv, Embed!Hear, Embed!Closed, Embed!Panels, Embed!Silenced, Embed!TakesTheScreen, Embed!InertAsSeen
    <3>2. CASE Head(posted) # "close"
      BY <1>3, <3>2 DEF EmbedInv, Embed!Hear, Embed!Panels, Embed!Silenced, Embed!TakesTheScreen, Embed!InertAsSeen
    <3> QED
      BY <3>1, <3>2
  <2>4. widget.up = "up" => EmbedAgrees'
    <3> SUFFICES ASSUME widget.up = "up"
                 PROVE  EmbedAgrees'
      OBVIOUS
    <3>1. EmbedAgrees
      BY DEF EmbedInv
    <3>2. CASE NoneOf(posted, EmbedSizes) /\ panel.full = widget.expanded
      BY <2>1, <2>2, <2>3, <3>2 DEF EmbedAgrees, EmbedSizes
    <3>3. PICK m : m = IF widget.expanded THEN "full" ELSE "panel"
      OBVIOUS
    <3>4. CASE Newest(posted, EmbedSizes, m)
      <4>1. CASE Newest(posted', EmbedSizes, m)
        BY <2>1, <3>3, <4>1 DEF EmbedAgrees
      <4>2. CASE Head(posted) = m /\ NoneOf(posted', EmbedSizes)
        <5>1. widget.expanded \in BOOLEAN /\ widget' = widget
          BY <2>1 DEF EmbedInv, Embed!Widgets
        <5>2. panel'.full = widget.expanded
          BY <2>3, <3>3, <4>2, <5>1
        <5> QED
          BY <4>2, <5>1, <5>2 DEF EmbedAgrees
      <4> QED
        BY <2>2, <3>4, <4>1, <4>2
    <3> QED
      BY <3>1, <3>2, <3>3, <3>4 DEF EmbedAgrees
  <2>5. widget.up \notin {"no", "starting"}
    BY <2>1 DEF EmbedInv
  <2> QED
    BY <2>1, <2>2, <2>3, <2>4, <2>5 DEF EmbedInv
<1>4. CASE Embed!Turn
  <2>1. panel \in Embed!Panels /\ Embed!InertAsSeen(panel)
    BY DEF EmbedInv
  <2>2. /\ panel' = [panel EXCEPT !.phone = ~panel.phone, !.turned = ~panel.hidden /\ ~panel.turned]
        /\ UNCHANGED <<posted, widget, size, picked>>
    BY <1>4 DEF Embed!Turn
  <2>3. /\ panel' \in Embed!Panels /\ panel'.frame = panel.frame /\ panel'.full = panel.full
        /\ panel'.silenced = panel.silenced /\ panel'.hidden = panel.hidden
        /\ panel'.phone = ~panel.phone /\ panel'.turned = (~panel.hidden /\ ~panel.turned)
    BY <2>1, <2>2 DEF Embed!Panels
  <2>4. Embed!InertAsSeen(panel')
    BY <2>1, <2>3, Zenon DEF Embed!InertAsSeen, Embed!Panels
  <2> QED
    BY <2>2, <2>3, <2>4 DEF EmbedInv, EmbedAgrees
<1> QED
  BY <1>1, <1>2, <1>3, <1>4

\* A chat that is up changes with no size of its own.
LEMMA SameSizeKeeps ==
    ASSUME EmbedInv, widget' \in Embed!Widgets, widget.up = "up", widget'.up = "up", widget'.expanded = widget.expanded,
           UNCHANGED <<panel, posted, size>>,
           picked' \in Languages \cup {""}, picked' # "" => ~widget'.choosing
    PROVE  EmbedInv'
BY DEF EmbedInv, EmbedAgrees

\* A size the chat takes, and says.
LEMMA ResizeKeeps ==
    ASSUME Embed!ConstantsOK, EmbedInv, widget.up = "up", NEW full \in BOOLEAN, Embed!Resize(full)
    PROVE  EmbedInv'
<1>1. /\ size' \in {"panel", "full"} /\ size' = (IF full THEN "full" ELSE "panel")
      /\ widget' \in Embed!Widgets /\ widget'.up = "up" /\ widget'.expanded = full /\ widget'.choosing = widget.choosing
      /\ posted' = Append(posted, size') /\ UNCHANGED <<panel, picked>>
  BY DEF EmbedInv, Embed!Resize, Embed!Relabelled, Embed!Post, Embed!Widgets
<1>2. posted' \in Seq({"full", "panel", "close"}) /\ Newest(posted', EmbedSizes, size')
  <2>1. posted \in Seq({"full", "panel", "close"}) /\ size' \in EmbedSizes
    BY <1>1 DEF EmbedInv, EmbedSizes
  <2> QED
    BY <1>1, <2>1, QueueAppend
<1>3. EmbedAgrees'
  BY <1>1, <1>2 DEF EmbedAgrees
<1> QED
  BY <1>1, <1>2, <1>3 DEF EmbedInv

LEMMA ChatKeeps ==
    ASSUME Embed!ConstantsOK, EmbedInv,
           \/ Embed!Size \/ Embed!Escape \/ Embed!Ask \/ Embed!Answers \/ Embed!Fresh
           \/ \E l \in Languages : Embed!Pick(l) \/ Embed!Choose(l)
    PROVE  EmbedInv'
<1>1. CASE Embed!Size
  <2>1. widget.expanded \in BOOLEAN
    BY DEF EmbedInv, Embed!Widgets
  <2> QED
    BY <1>1, <2>1, ResizeKeeps DEF Embed!Size
<1>2. CASE Embed!Escape
  <2>1. CASE widget.expanded
    BY <1>2, <2>1, ResizeKeeps DEF Embed!Escape
  <2>2. CASE ~widget.expanded
    <3>1. widget.up = "up" /\ posted' = Append(posted, "close") /\ UNCHANGED <<panel, widget, size, picked>>
      BY <1>2, <2>2 DEF Embed!Escape, Embed!Post
    <3>2. /\ posted' \in Seq({"full", "panel", "close"})
          /\ NoneOf(posted, EmbedSizes) => NoneOf(posted', EmbedSizes)
          /\ \A m : Newest(posted, EmbedSizes, m) => Newest(posted', EmbedSizes, m)
      <4>1. posted \in Seq({"full", "panel", "close"}) /\ "close" \notin EmbedSizes
        BY DEF EmbedInv, EmbedSizes
      <4> QED
        BY <3>1, <4>1, QueueAppend
    <3> QED
      BY <3>1, <3>2 DEF EmbedInv, EmbedAgrees
  <2> QED
    BY <2>1, <2>2
<1>3. CASE Embed!Ask
  <2>1. widget' \in Embed!Widgets /\ widget'.up = widget.up /\ widget'.expanded = widget.expanded /\ widget'.choosing = widget.choosing
    BY <1>3 DEF EmbedInv, Embed!Ask, Embed!Widgets
  <2> QED
    BY <1>3, <2>1, SameSizeKeeps DEF EmbedInv, Embed!Ask
<1>4. CASE Embed!Answers
  <2>1. /\ widget' \in Embed!Widgets /\ widget'.up = widget.up /\ widget'.expanded = widget.expanded
        /\ widget'.choosing = widget.choosing
    BY <1>4 DEF EmbedInv, Embed!Answers, Embed!Widgets
  <2> QED
    BY <1>4, <2>1 DEF EmbedInv, Embed!Answers, EmbedAgrees
<1>5. CASE Embed!Fresh
  <2>1. widget' \in Embed!Widgets /\ widget'.up = widget.up /\ widget'.expanded = widget.expanded /\ widget'.choosing = widget.choosing
    BY <1>5 DEF EmbedInv, Embed!Fresh, Embed!Widgets
  <2> QED
    BY <1>5, <2>1, SameSizeKeeps DEF EmbedInv, Embed!Fresh
<1>6. ASSUME NEW l \in Languages, Embed!Pick(l)
      PROVE  EmbedInv'
  <2>1. widget' \in Embed!Widgets /\ widget'.up = widget.up /\ widget'.expanded = widget.expanded /\ ~widget'.choosing
    BY <1>6 DEF EmbedInv, Embed!Pick, Embed!Relabelled, Embed!Widgets
  <2> QED
    BY <1>6, <2>1, SameSizeKeeps DEF Embed!Pick
<1>7. ASSUME NEW l \in Languages, Embed!Choose(l)
      PROVE  EmbedInv'
  <2>1. widget' \in Embed!Widgets /\ widget'.up = widget.up /\ widget'.expanded = widget.expanded /\ ~widget'.choosing
    BY <1>7 DEF EmbedInv, Embed!Choose, Embed!Relabelled, Embed!Widgets
  <2> QED
    BY <1>7, <2>1, SameSizeKeeps DEF Embed!Choose
<1> QED
  BY <1>1, <1>2, <1>3, <1>4, <1>5, <1>6, <1>7

\* The frame starts with nothing under way; what it says then is the size it remembers.
LEMMA LoadsKeep ==
    ASSUME Embed!ConstantsOK, EmbedInv, Embed!Start \/ Embed!Missing \/ Embed!PageChange
    PROVE  EmbedInv'
<1>1. CASE Embed!Start
  <2>1. /\ widget.up = "starting" /\ widget' = Embed!Loaded /\ UNCHANGED <<panel, size, picked>>
        /\ posted = <<>> /\ ~panel.full /\ panel.full \in BOOLEAN
    BY <1>1 DEF EmbedInv, Embed!Start, Embed!Panels
  <2>2. /\ widget' \in Embed!Widgets /\ widget'.up = "up" /\ widget'.expanded = (size = "full")
        /\ picked # "" => ~widget'.choosing
    BY <2>1, ZenonT(60) DEF EmbedInv, Embed!Loaded, Embed!NoChat, Embed!ConstantsOK, Embed!Widgets
  <2>3. CASE Embed!Loaded.expanded
    <3>1. posted' = Append(posted, "full") /\ widget'.expanded
      BY <1>1, <2>1, <2>3 DEF Embed!Start, Embed!Post
    <3>2. posted' \in Seq({"full", "panel", "close"}) /\ Newest(posted', EmbedSizes, "full")
      <4>1. posted \in Seq({"full", "panel", "close"}) /\ "full" \in EmbedSizes
        BY DEF EmbedInv, EmbedSizes
      <4> QED
        BY <3>1, <4>1, QueueAppend
    <3> QED
      BY <2>1, <2>2, <3>1, <3>2 DEF EmbedInv, EmbedAgrees
  <2>4. CASE ~Embed!Loaded.expanded
    <3>1. posted' = posted /\ ~widget'.expanded /\ widget'.expanded \in BOOLEAN
      BY <1>1, <2>1, <2>2, <2>4 DEF Embed!Start, Embed!Widgets
    <3>2. NoneOf(posted', EmbedSizes)
      BY <2>1, <3>1, QueueEmpty
    <3> QED
      BY <2>1, <2>2, <3>1, <3>2 DEF EmbedInv, EmbedAgrees
  <2> QED
    BY <2>3, <2>4
<1>2. CASE Embed!Missing
  <2>1. widget' \in Embed!Widgets /\ widget'.up = "missing" /\ UNCHANGED <<panel, posted, size, picked>> /\ panel.frame
    BY <1>2 DEF EmbedInv, Embed!Missing, Embed!Widgets, Embed!Panels
  <2> QED
    BY <2>1 DEF EmbedInv
<1>3. CASE Embed!PageChange
  <2>1. panel' \in Embed!Panels /\ widget' \in Embed!Widgets /\ Embed!InertAsSeen(panel')
    BY <1>3 DEF EmbedInv, Embed!PageChange, Embed!ConstantsOK, Embed!NoPanel, Embed!NoChat, Embed!InertAsSeen, Embed!Panels, Embed!Widgets
  <2>2. posted' = <<>> /\ widget'.up = "no" /\ ~panel'.full /\ UNCHANGED <<size, picked>>
    BY <1>3 DEF Embed!PageChange, Embed!NoPanel, Embed!NoChat
  <2>3. posted' \in Seq({"full", "panel", "close"})
    BY <2>2
  <2> QED
    BY <2>1, <2>2, <2>3 DEF EmbedInv
<1> QED
  BY <1>1, <1>2, <1>3

LEMMA EmbedKeeps ==
    ASSUME Embed!ConstantsOK, EmbedInv, Embed!Next
    PROVE  EmbedInv'
BY LauncherKeeps, ChatKeeps, LoadsKeep DEF Embed!Next

LEMMA EmbedShows ==
    ASSUME EmbedInv
    PROVE  Embed!TypeOK /\ Embed!InertOnlyBehindThePanel /\ Embed!SizesAgree /\ Embed!ChosenOnce
<1>1. ASSUME widget.up = "up", posted = <<>>
      PROVE  panel.full = widget.expanded
  BY <1>1, QueueEmpty DEF EmbedInv, EmbedAgrees
<1> QED
  BY <1>1 DEF EmbedInv, Embed!SizesAgree, Embed!TypeOK, Embed!InertOnlyBehindThePanel, Embed!InertAsSeen, Embed!ChosenOnce

(***************************************************************************)
(* The assistant docked beside the catalogue's pages.                      *)
(***************************************************************************)
Uppers == Dock!Sizes \cup CataloguePages \cup {"close"}

LEMMA DockNames ==
    ASSUME Dock!ConstantsOK
    PROVE  /\ Home \in CataloguePages /\ Framed \in [CataloguePages -> Assistants] /\ "" \notin Assistants
           /\ Docking \in BOOLEAN
           /\ CataloguePages \cap Dock!Sizes = {} /\ "close" \notin CataloguePages \cup Dock!Sizes
           /\ "" \notin CataloguePages
BY DEF Dock!ConstantsOK, Dock!Sizes

LEMMA SizeOfIs ==
    ASSUME NEW p
    PROVE  /\ Dock!SizeOf(p) \in Dock!Sizes /\ Dock!Mode0 \in Dock!Sizes
           /\ Docking => Dock!Says(Dock!SizeOf(p)) = <<Dock!SizeOf(p)>>
           /\ Dock!Says(Dock!SizeOf(p)) \in {<<>>, <<Dock!SizeOf(p)>>}
BY DEF Dock!SizeOf, Dock!Says, Dock!Sizes, Dock!Mode0

LEMMA DockInit ==
    ASSUME Dock!ConstantsOK, Dock!Init
    PROVE  DockInv
<1>1. Dock!TypeOK
  BY DockNames, SizeOfIs DEF Dock!Init, Dock!TypeOK, Dock!NoChat, Dock!Sizes
<1>2. up = <<>> /\ down = <<>>
  BY DEF Dock!Init
<1>3. up \in Seq(Uppers) /\ down \in Seq(CataloguePages)
  BY <1>2
<1>4. Dock!RoomOnlyForThePanel /\ DockHeld /\ DockAgrees
  BY DEF Dock!Init, Dock!RoomOnlyForThePanel, Dock!Room, Dock!NoChat, DockHeld, DockAgrees
<1>5. DockAsked
  <2>1. DOMAIN up = {}
    BY <1>2
  <2>2. down = <<>> /\ opened = {}
    BY DEF Dock!Init
  <2> QED
    BY <2>1, <2>2 DEF DockAsked
<1> QED
  BY <1>1, <1>3, <1>4, <1>5 DEF DockInv, Uppers

\* A message of one kind more at the end of the queue, or the first one less.
LEMMA UpGrows ==
    ASSUME DockInv, NEW m \in Uppers, up' = Append(up, m)
    PROVE  /\ up' \in Seq(Uppers)
           /\ m \in Dock!Sizes => Newest(up', Dock!Sizes, m)
           /\ m \notin Dock!Sizes => /\ NoneOf(up, Dock!Sizes) => NoneOf(up', Dock!Sizes)
                                     /\ \A w : Newest(up, Dock!Sizes, w) => Newest(up', Dock!Sizes, w)
           /\ m \notin CataloguePages => /\ NoneOf(up, CataloguePages) => NoneOf(up', CataloguePages)
           /\ DOMAIN up \subseteq DOMAIN up' /\ Len(up) + 1 \in DOMAIN up' /\ up'[Len(up) + 1] = m
           /\ \A i \in DOMAIN up' : i = Len(up) + 1 \/ (i \in DOMAIN up /\ up'[i] = up[i])
<1>1. up \in Seq(Uppers)
  BY DEF DockInv, Uppers
<1>2. /\ up' \in Seq(Uppers)
      /\ m \in Dock!Sizes => Newest(up', Dock!Sizes, m)
      /\ m \notin Dock!Sizes => /\ NoneOf(up, Dock!Sizes) => NoneOf(up', Dock!Sizes)
                                /\ \A w : Newest(up, Dock!Sizes, w) => Newest(up', Dock!Sizes, w)
      /\ m \notin CataloguePages => (NoneOf(up, CataloguePages) => NoneOf(up', CataloguePages))
  BY <1>1, QueueAppend
<1>3. PICK q : q = up
  OBVIOUS
<1>4. /\ DOMAIN q \subseteq DOMAIN Append(q, m) /\ Len(q) + 1 \in DOMAIN Append(q, m) /\ Append(q, m)[Len(q) + 1] = m
      /\ \A i \in DOMAIN Append(q, m) : i = Len(q) + 1 \/ (i \in DOMAIN q /\ Append(q, m)[i] = q[i])
  <2>1. q \in Seq(Uppers)
    BY <1>1, <1>3
  <2> HIDE DEF Uppers
  <2> QED
    BY <2>1
<1> QED
  BY <1>2, <1>3, <1>4

LEMMA UpShrinks ==
    ASSUME DockInv, up # <<>>, up' = Tail(up)
    PROVE  /\ up' \in Seq(Uppers) /\ Head(up) \in Uppers /\ 1 \in DOMAIN up /\ up[1] = Head(up)
           /\ NoneOf(up, Dock!Sizes) => NoneOf(up', Dock!Sizes) /\ Head(up) \notin Dock!Sizes
           /\ \A w : Newest(up, Dock!Sizes, w) =>
                Newest(up', Dock!Sizes, w) \/ (Head(up) = w /\ NoneOf(up', Dock!Sizes))
           /\ NoneOf(up, CataloguePages) => NoneOf(up', CataloguePages)
           /\ \A i \in DOMAIN up' : i + 1 \in DOMAIN up /\ up'[i] = up[i + 1] /\ i + 1 # 1
<1>1. up \in Seq(Uppers)
  BY DEF DockInv, Uppers
<1>2. /\ Tail(up) \in Seq(Uppers) /\ Head(up) \in Uppers
      /\ NoneOf(up, Dock!Sizes) => NoneOf(Tail(up), Dock!Sizes) /\ Head(up) \notin Dock!Sizes
      /\ \A w : Newest(up, Dock!Sizes, w) =>
           Newest(Tail(up), Dock!Sizes, w) \/ (Head(up) = w /\ NoneOf(Tail(up), Dock!Sizes))
      /\ NoneOf(up, CataloguePages) => NoneOf(Tail(up), CataloguePages)
  BY <1>1, QueueTail
<1>3. /\ Len(up) \in Nat /\ DOMAIN up = 1..Len(up) /\ 1 \in DOMAIN up /\ up[1] = Head(up)
      /\ DOMAIN Tail(up) = 1..(Len(up) - 1)
      /\ \A i \in 1..(Len(up) - 1) : Tail(up)[i] = up[i + 1]
  BY <1>1, QueueIs
<1>4. \A i \in DOMAIN Tail(up) : i + 1 \in DOMAIN up /\ Tail(up)[i] = up[i + 1] /\ i + 1 # 1
  BY <1>3
<1> QED
  BY <1>2, <1>3, <1>4

\* A size or a close heard: what was asked for stays where it is.
LEMMA AskedStays ==
    ASSUME DockInv, chat'.opening = chat.opening, chat'.late = chat.late, box'.leaving = box.leaving,
           UNCHANGED <<down, opened, noted>>,
           \/ up' = up
           \/ up # <<>> /\ up' = Tail(up)
           \/ \E m \in Uppers \ CataloguePages : up' = Append(up, m)
    PROVE  DockAsked'
<1>1. DockAsked
  BY DEF DockInv
<1>2. CASE up' = up
  BY <1>1, <1>2 DEF DockAsked, NoneOf
<1>3. CASE up # <<>> /\ up' = Tail(up)
  <2>1. /\ \A i \in DOMAIN up' : i + 1 \in DOMAIN up /\ up'[i] = up[i + 1]
        /\ NoneOf(up, CataloguePages) => NoneOf(up', CataloguePages)
    BY <1>3, UpShrinks
  <2>2. DOMAIN up' \subseteq Int
    BY <1>3, UpShrinks
  <2>3. ASSUME NEW i \in DOMAIN up', up'[i] \in CataloguePages
        PROVE  /\ up'[i] = chat'.opening /\ ~chat'.late /\ down' = <<>>
               /\ \A j \in DOMAIN up' : up'[j] \in CataloguePages => i = j
    <3>1. /\ up[i + 1] = chat.opening /\ ~chat.late /\ down = <<>>
          /\ \A j \in DOMAIN up : up[j] \in CataloguePages => i + 1 = j
      BY <1>1, <2>1, <2>3 DEF DockAsked
    <3>2. ASSUME NEW j \in DOMAIN up', up'[j] \in CataloguePages
          PROVE  i = j
      <4>1. i + 1 = j + 1
        BY <2>1, <3>1, <3>2
      <4> QED
        BY <2>2, <4>1
    <3> QED
      BY <2>1, <2>3, <3>1, <3>2
  <2> QED
    BY <1>1, <2>1, <2>3 DEF DockAsked
<1>4. CASE \E m \in Uppers \ CataloguePages : up' = Append(up, m)
  <2>1. PICK m \in Uppers \ CataloguePages : up' = Append(up, m)
    BY <1>4
  <2>2. /\ NoneOf(up, CataloguePages) => NoneOf(up', CataloguePages)
        /\ \A i \in DOMAIN up' : up'[i] = m \/ (i \in DOMAIN up /\ up'[i] = up[i])
    BY <2>1, UpGrows
  <2>3. \A i \in DOMAIN up' : up'[i] \in CataloguePages => i \in DOMAIN up /\ up'[i] = up[i]
    BY <2>1, <2>2
  <2> QED
    BY <1>1, <2>2, <2>3 DEF DockAsked
<1> QED
  BY <1>2, <1>3, <1>4

LEMMA ToggleKeeps ==
    ASSUME Dock!ConstantsOK, DockInv, Dock!Toggle
    PROVE  DockInv'
<1> DEFINE first == ~box.open /\ ~chat.up
           mode == Dock!SizeOf(placed[box.frame])
<1>0. mode \in Dock!Sizes /\ (Docking => Dock!Says(mode) = <<mode>>) /\ Dock!Says(mode) \in {<<>>, <<mode>>}
  BY SizeOfIs
<1>1. /\ at.ready /\ at.ran
      /\ box' = [box EXCEPT !.open = ~box.open, !.room = Dock!Room(~box.open, box.mode)]
      /\ held' = [open |-> ~box.open, mode |-> box.mode, widget |-> IF ~box.open THEN box.frame ELSE ""]
      /\ began' = IF ~box.open THEN box.frame ELSE began
      /\ chat' = IF first THEN [Dock!NoChat EXCEPT !.up = TRUE, !.mode = mode] ELSE chat
      /\ up' = IF first THEN up \o Dock!Says(mode) ELSE up
      /\ UNCHANGED <<at, placed, down, noted, opened>>
  BY DEF Dock!Toggle, Dock!Toggled
<1> HIDE DEF mode
<1>2. Dock!TypeOK /\ up \in Seq(Uppers) /\ down \in Seq(CataloguePages) /\ DockHeld /\ DockAgrees /\ DockAsked
  BY DEF DockInv, Uppers
<1>3. Dock!TypeOK' /\ Dock!RoomOnlyForThePanel'
  BY <1>0, <1>1, <1>2 DEF Dock!TypeOK, Dock!RoomOnlyForThePanel, Dock!Room, Dock!NoChat
<1>4. DockHeld'
  <2>1. box.frame # ""
    BY <1>2, DockNames DEF Dock!TypeOK
  <2>2. box.open \in BOOLEAN /\ box \in [open : BOOLEAN, mode : Dock!Sizes, frame : Assistants, room : BOOLEAN, leaving : BOOLEAN]
    BY <1>2 DEF Dock!TypeOK
  <2>3. box'.open = ~box.open /\ box'.frame = box.frame
    BY <1>1, <2>2
  <2>4. ~chat'.up => chat' = Dock!NoChat
    BY <1>1, <1>2 DEF DockHeld, Dock!NoChat
  <2> QED
    BY <1>1, <1>2, <2>1, <2>2, <2>3, <2>4 DEF DockHeld
<1>5. mode \in Uppers /\ up \o <<>> = up /\ up \o <<mode>> = Append(up, mode)
  <2>1. mode \in Uppers
    BY <1>0 DEF Uppers
  <2> QED
    BY <1>2, <2>1, QueueSays
<1>6. mode \in Uppers \ CataloguePages /\ (up' = up \/ up' = Append(up, mode))
  BY <1>0, <1>1, <1>5, DockNames DEF Uppers
<1>7. up' \in Seq(Uppers)
  BY <1>2, <1>6, UpGrows
<1>8. DockAgrees'
  <2> SUFFICES ASSUME Docking, chat'.up
               PROVE  Newest(up', Dock!Sizes, chat'.mode) \/ (NoneOf(up', Dock!Sizes) /\ box'.mode = chat'.mode)
    BY DEF DockAgrees
  <2>1. CASE first
    <3>1. up' = Append(up, mode) /\ chat'.mode = mode
      BY <1>0, <1>1, <1>5, <2>1 DEF Dock!NoChat
    <3> QED
      BY <1>0, <1>6, <3>1, UpGrows
  <2>2. CASE ~first
    <3>1. box'.mode = box.mode
      BY <1>1, <1>2 DEF Dock!TypeOK
    <3> QED
      BY <1>1, <1>2, <2>2, <3>1 DEF DockAgrees
  <2> QED
    BY <2>1, <2>2
<1>9. DockAsked'
  <2>1. chat'.opening = chat.opening /\ chat'.late = chat.late
    BY <1>1, <1>2 DEF DockHeld, Dock!NoChat
  <2>2. box'.leaving = box.leaving
    BY <1>1, <1>2 DEF Dock!TypeOK
  <2> QED
    BY <1>1, <1>6, <2>1, <2>2, AskedStays
<1> QED
  BY <1>1, <1>2, <1>3, <1>4, <1>7, <1>8, <1>9 DEF DockInv, Uppers

\* While the page stays: what a message that is no size leaves agreed.
LEMMA AgreesStays ==
    ASSUME DockInv, chat'.up = chat.up, chat'.mode = chat.mode, box'.mode = box.mode,
           \/ up' = up
           \/ up # <<>> /\ up' = Tail(up) /\ Head(up) \notin Dock!Sizes
           \/ \E m \in Uppers \ Dock!Sizes : up' = Append(up, m)
    PROVE  DockAgrees'
<1> SUFFICES ASSUME Docking, chat.up
             PROVE  Newest(up', Dock!Sizes, chat.mode) \/ (NoneOf(up', Dock!Sizes) /\ box.mode = chat.mode)
  BY DEF DockAgrees
<1>1. Newest(up, Dock!Sizes, chat.mode) \/ (NoneOf(up, Dock!Sizes) /\ box.mode = chat.mode)
  BY DEF DockInv, DockAgrees
<1>2. chat.mode \in Dock!Sizes
  BY DEF DockInv, Dock!TypeOK
<1>3. CASE up' = up
  BY <1>1, <1>3
<1>4. CASE up # <<>> /\ up' = Tail(up) /\ Head(up) \notin Dock!Sizes
  BY <1>1, <1>2, <1>4, UpShrinks
<1>5. CASE \E m \in Uppers \ Dock!Sizes : up' = Append(up, m)
  BY <1>1, <1>5, UpGrows
<1> QED
  BY <1>3, <1>4, <1>5

LEMMA HearSizeKeeps ==
    ASSUME Dock!ConstantsOK, DockInv, Dock!HearSize
    PROVE  DockInv'
<1>1. /\ up # <<>> /\ Head(up) \in Dock!Sizes /\ up' = Tail(up)
      /\ box' = [box EXCEPT !.mode = Head(up), !.room = Dock!Room(box.open, Head(up))]
      /\ held' = [held EXCEPT !.mode = Head(up)]
      /\ UNCHANGED <<at, chat, placed, down, noted, opened, began>>
  BY DEF Dock!HearSize
<1>2. Dock!TypeOK /\ down \in Seq(CataloguePages) /\ DockHeld /\ DockAgrees
  BY DEF DockInv
<1>3. Dock!TypeOK' /\ Dock!RoomOnlyForThePanel'
  BY <1>1, <1>2 DEF Dock!TypeOK, Dock!RoomOnlyForThePanel, Dock!Room
<1>4. /\ box'.open = box.open /\ box'.frame = box.frame /\ box'.leaving = box.leaving /\ box'.mode = Head(up)
      /\ held'.open = held.open /\ held'.widget = held.widget
  BY <1>1, <1>2 DEF Dock!TypeOK
<1>5. DockHeld'
  BY <1>1, <1>2, <1>4 DEF DockHeld
<1>6. up' \in Seq(Uppers) /\ DockAsked'
  BY <1>1, <1>4, UpShrinks, AskedStays
<1>7. DockAgrees'
  <2> SUFFICES ASSUME Docking, chat.up
               PROVE  Newest(up', Dock!Sizes, chat.mode) \/ (NoneOf(up', Dock!Sizes) /\ box'.mode = chat.mode)
    BY <1>1 DEF DockAgrees
  <2>1. Newest(up, Dock!Sizes, chat.mode)
    BY <1>1, <1>2, UpShrinks DEF DockAgrees
  <2> QED
    BY <1>1, <1>4, <2>1, UpShrinks
<1> QED
  BY <1>1, <1>2, <1>3, <1>5, <1>6, <1>7 DEF DockInv, Uppers

LEMMA HearCloseKeeps ==
    ASSUME Dock!ConstantsOK, DockInv, Dock!HearClose
    PROVE  DockInv'
<1>1. up # <<>> /\ Head(up) = "close" /\ up' = Tail(up) /\ UNCHANGED <<at, chat, placed, down, noted, opened>>
  BY DEF Dock!HearClose
<1>2. Dock!TypeOK /\ Dock!RoomOnlyForThePanel /\ down \in Seq(CataloguePages) /\ DockHeld /\ DockAgrees /\ at.ran /\ at.ready
  BY <1>1 DEF DockInv, DockHeld
<1>3. /\ Dock!TypeOK' /\ Dock!RoomOnlyForThePanel' /\ DockHeld'
      /\ box'.leaving = box.leaving /\ box'.mode = box.mode
  <2>1. CASE box.open
    <3>1. /\ box' = [box EXCEPT !.open = FALSE, !.room = Dock!Room(FALSE, box.mode)]
          /\ held' = [open |-> FALSE, mode |-> box.mode, widget |-> ""] /\ began' = began
      BY <2>1 DEF Dock!HearClose, Dock!Toggled
    <3> QED
      BY <1>1, <1>2, <3>1 DEF Dock!TypeOK, Dock!RoomOnlyForThePanel, Dock!Room, DockHeld
  <2>2. CASE ~box.open
    <3>1. UNCHANGED <<box, held, began>>
      BY <2>2 DEF Dock!HearClose
    <3> QED
      BY <1>1, <1>2, <3>1 DEF Dock!TypeOK, Dock!RoomOnlyForThePanel, Dock!Room, DockHeld
  <2> QED
    BY <2>1, <2>2
<1>4. "close" \notin Dock!Sizes
  BY DockNames
<1>5. up' \in Seq(Uppers) /\ DockAsked'
  BY <1>1, <1>3, UpShrinks, AskedStays
<1>6. DockAgrees'
  BY <1>1, <1>3, <1>4, AgreesStays
<1> QED
  BY <1>1, <1>2, <1>3, <1>5, <1>6 DEF DockInv, Uppers

\* The page opens what was asked for, and says so; or stays.
LEMMA HearDatasetKeeps ==
    ASSUME Dock!ConstantsOK, DockInv, NEW busy \in BOOLEAN, Dock!HearDataset(busy)
    PROVE  DockInv'
<1>1. /\ up # <<>> /\ Head(up) \in CataloguePages /\ up' = Tail(up)
      /\ UNCHANGED <<at, held, chat, placed, noted, began>>
      /\ \/ UNCHANGED <<down, box, opened>>
         \/ /\ down' = Append(down, Head(up)) /\ box' = [box EXCEPT !.leaving = TRUE]
            /\ opened' = opened \cup {Head(up)}
  BY DEF Dock!HearDataset
<1>2. Dock!TypeOK /\ Dock!RoomOnlyForThePanel /\ down \in Seq(CataloguePages) /\ DockHeld /\ DockAsked /\ at.ran
  BY <1>1 DEF DockInv, DockHeld
<1>3. /\ Dock!TypeOK' /\ box'.open = box.open /\ box'.mode = box.mode /\ box'.frame = box.frame /\ box'.room = box.room
  BY <1>1, <1>2, ZenonT(60) DEF Dock!TypeOK
<1>4. Dock!RoomOnlyForThePanel' /\ DockHeld'
  BY <1>1, <1>2, <1>3 DEF Dock!RoomOnlyForThePanel, Dock!Room, DockHeld
<1>5. Head(up) \notin Dock!Sizes
  BY <1>1, DockNames
<1>6. DockAgrees' /\ up' \in Seq(Uppers)
  BY <1>1, <1>3, <1>5, AgreesStays, UpShrinks
<1>7. /\ Head(up) = chat.opening /\ ~chat.late /\ down = <<>>
      /\ \A i \in DOMAIN up' : up'[i] \notin CataloguePages
  <2>1. /\ 1 \in DOMAIN up /\ up[1] = Head(up)
        /\ \A i \in DOMAIN up' : i + 1 \in DOMAIN up /\ up'[i] = up[i + 1] /\ i + 1 # 1
    BY <1>1, UpShrinks
  <2>2. /\ up[1] = chat.opening /\ ~chat.late /\ down = <<>>
        /\ \A j \in DOMAIN up : up[j] \in CataloguePages => 1 = j
    BY <1>1, <1>2, <2>1 DEF DockAsked
  <2> QED
    BY <2>1, <2>2
<1>8. CASE UNCHANGED <<down, box, opened>>
  <2>1. DockAsked'
    BY <1>1, <1>2, <1>7, <1>8 DEF DockAsked
  <2> QED
    BY <1>1, <1>2, <1>3, <1>4, <1>6, <1>8, <2>1 DEF DockInv, Uppers
<1>9. CASE /\ down' = Append(down, Head(up)) /\ box' = [box EXCEPT !.leaving = TRUE]
           /\ opened' = opened \cup {Head(up)}
  <2>1. PICK asks : asks = Head(up)
    OBVIOUS
  <2>2. down' = <<asks>> /\ asks \in CataloguePages /\ asks = chat.opening
    BY <1>1, <1>7, <1>9, <2>1
  <2>3. down' \in Seq(CataloguePages)
    BY <2>2
  <2>4. box'.leaving
    BY <1>2, <1>9 DEF Dock!TypeOK
  <2>5. \A p \in opened' : p \in noted \/ down' = <<p>>
    BY <1>2, <1>7, <1>9, <2>1, <2>2 DEF DockAsked
  <2>6. DockAsked'
    BY <1>1, <1>7, <2>2, <2>4, <2>5 DEF DockAsked, NoneOf
  <2> QED
    BY <1>3, <1>4, <1>6, <2>3, <2>6 DEF DockInv, Uppers
<1> QED
  BY <1>1, <1>8, <1>9

\* The frame says a size, a close, or the dataset of an answer.
LEMMA FrameSaysKeeps ==
    ASSUME Dock!ConstantsOK, DockInv, Dock!Close \/ \E mode \in Dock!Sizes : Dock!Place(mode)
    PROVE  DockInv'
<1>1. Dock!TypeOK /\ Dock!RoomOnlyForThePanel /\ down \in Seq(CataloguePages) /\ DockHeld
  BY DEF DockInv
<1>2. CASE Dock!Close
  <2>1. up' = Append(up, "close") /\ UNCHANGED <<at, box, held, chat, placed, down, noted, opened, began>>
    BY <1>2 DEF Dock!Close
  <2>2. "close" \in (Uppers \ CataloguePages) \ Dock!Sizes
    BY DockNames DEF Uppers
  <2>3. up' \in Seq(Uppers) /\ DockAsked' /\ DockAgrees'
    BY <2>1, <2>2, UpGrows, AskedStays, AgreesStays
  <2>4. Dock!TypeOK' /\ Dock!RoomOnlyForThePanel' /\ DockHeld'
    <3>1. chat.up
      BY <1>2 DEF Dock!Close
    <3> QED
      BY <1>1, <2>1, <3>1 DEF Dock!TypeOK, Dock!RoomOnlyForThePanel, Dock!Room, DockHeld
  <2> QED
    BY <1>1, <2>1, <2>3, <2>4 DEF DockInv, Uppers
<1>3. ASSUME NEW mode \in Dock!Sizes, Dock!Place(mode)
      PROVE  DockInv'
  <2>1. /\ chat.up /\ chat' = [chat EXCEPT !.mode = mode] /\ placed' = [placed EXCEPT ![box.frame] = mode]
        /\ up' = Append(up, mode) /\ UNCHANGED <<at, box, held, down, noted, opened, began>>
    BY <1>3 DEF Dock!Place
  <2>2. mode \in Uppers \ CataloguePages
    BY DockNames DEF Uppers
  <2>3. /\ Dock!TypeOK' /\ chat'.up = chat.up /\ chat'.mode = mode
        /\ chat'.opening = chat.opening /\ chat'.late = chat.late
    BY <1>1, <2>1 DEF Dock!TypeOK
  <2>4. up' \in Seq(Uppers) /\ Newest(up', Dock!Sizes, mode) /\ DockAsked'
    BY <2>1, <2>2, <2>3, UpGrows, AskedStays
  <2>5. Dock!RoomOnlyForThePanel' /\ DockHeld' /\ DockAgrees'
    BY <1>1, <2>1, <2>3, <2>4 DEF Dock!RoomOnlyForThePanel, Dock!Room, DockHeld, DockAgrees
  <2> QED
    BY <1>1, <2>1, <2>3, <2>4, <2>5 DEF DockInv, Uppers
<1> QED
  BY <1>2, <1>3

LEMMA FollowKeeps ==
    ASSUME Dock!ConstantsOK, DockInv, NEW p \in CataloguePages, Dock!Follow(p)
    PROVE  DockInv'
<1>1. /\ chat.up /\ ~Dock!Asked /\ chat' = [chat EXCEPT !.opening = p, !.late = FALSE]
      /\ up' = Append(up, p) /\ UNCHANGED <<at, box, held, placed, down, noted, opened, began>>
  BY DEF Dock!Follow
<1>2. Dock!TypeOK /\ Dock!RoomOnlyForThePanel /\ down \in Seq(CataloguePages) /\ DockHeld /\ DockAsked
  BY DEF DockInv
<1>3. /\ Dock!TypeOK' /\ chat'.up = chat.up /\ chat'.mode = chat.mode /\ chat'.opening = p /\ ~chat'.late
  BY <1>1, <1>2 DEF Dock!TypeOK
<1>4. p \in Uppers \ Dock!Sizes
  BY DockNames DEF Uppers
<1>5. up' \in Seq(Uppers) /\ DockAgrees'
  BY <1>1, <1>3, <1>4, UpGrows, AgreesStays
<1>6. Dock!RoomOnlyForThePanel' /\ DockHeld'
  BY <1>1, <1>2, <1>3 DEF Dock!RoomOnlyForThePanel, Dock!Room, DockHeld
<1>7. DockAsked'
  <2>1. NoneOf(up, CataloguePages) /\ down = <<>>
    BY <1>1 DEF Dock!Asked, NoneOf
  <2>2. \A i \in DOMAIN up' : i = Len(up) + 1 \/ (i \in DOMAIN up /\ up'[i] = up[i])
    BY <1>1, <1>4, UpGrows
  <2>3. Len(up) + 1 \in DOMAIN up' /\ up'[Len(up) + 1] = p
    BY <1>1, <1>4, UpGrows
  <2>4. \A i \in DOMAIN up' : up'[i] \in CataloguePages => i = Len(up) + 1
    BY <2>1, <2>2 DEF NoneOf
  <2>5. down' = <<>> /\ \A i \in DOMAIN up' : up'[i] \in CataloguePages => up'[i] = chat'.opening /\ ~chat'.late
    BY <1>1, <1>3, <2>1, <2>3, <2>4
  <2> QED
    BY <1>1, <1>2, <2>4, <2>5 DEF DockAsked
<1> QED
  BY <1>1, <1>2, <1>3, <1>5, <1>6, <1>7 DEF DockInv, Uppers

LEMMA LateKeeps ==
    ASSUME Dock!ConstantsOK, DockInv, Dock!Late
    PROVE  DockInv'
<1>1. /\ chat.opening # "" /\ up = <<>> /\ down = <<>> /\ chat' = [chat EXCEPT !.late = TRUE]
      /\ UNCHANGED <<at, box, held, placed, up, down, noted, opened, began>>
  BY DEF Dock!Late
<1>2. /\ Dock!TypeOK /\ Dock!RoomOnlyForThePanel /\ up \in Seq(Uppers) /\ down \in Seq(CataloguePages)
      /\ DockHeld /\ DockAsked
  BY DEF DockInv, Uppers
<1>3. Dock!TypeOK' /\ chat'.up = chat.up /\ chat'.mode = chat.mode /\ chat.up
  <2>1. chat.up
    <3>1. chat = Dock!NoChat => chat.opening = ""
      <4>1. Dock!NoChat.opening = ""
        BY DEF Dock!NoChat
      <4> QED
        BY <4>1
    <3> QED
      BY <1>1, <1>2, <3>1 DEF DockHeld
  <2> QED
    BY <1>1, <1>2, <2>1 DEF Dock!TypeOK
<1>4. Dock!RoomOnlyForThePanel' /\ DockHeld' /\ DockAgrees'
  BY <1>1, <1>2, <1>3, AgreesStays DEF Dock!RoomOnlyForThePanel, Dock!Room, DockHeld
<1>5. DockAsked'
  <2>1. up' = <<>>
    BY <1>1
  <2>2. DOMAIN up' = {}
    BY <2>1
  <2> QED
    BY <1>1, <1>2, <2>2 DEF DockAsked
<1> QED
  BY <1>1, <1>2, <1>3, <1>4, <1>5 DEF DockInv, Uppers

\* The page's answer: what it opened is noted.
LEMMA HearOpenedKeeps ==
    ASSUME Dock!ConstantsOK, DockInv, Dock!HearOpened
    PROVE  DockInv'
<1>1. /\ down # <<>> /\ down' = Tail(down) /\ UNCHANGED <<at, box, held, placed, up, opened, began>>
      /\ IF chat.opening = Head(down)
         THEN chat' = [chat EXCEPT !.opening = ""] /\ noted' = noted \cup {Head(down)}
         ELSE UNCHANGED <<chat, noted>>
  BY DEF Dock!HearOpened
<1>2. /\ Dock!TypeOK /\ Dock!RoomOnlyForThePanel /\ up \in Seq(Uppers) /\ down \in Seq(CataloguePages)
      /\ DockHeld /\ DockAsked
  BY DEF DockInv, Uppers
<1>3. PICK asks : asks = chat.opening
  OBVIOUS
<1>4. down = <<asks>> /\ asks \in CataloguePages /\ NoneOf(up, CataloguePages)
  <2>1. down = <<asks>> /\ NoneOf(up, CataloguePages)
    BY <1>1, <1>2, <1>3 DEF DockAsked
  <2>2. PICK q : q = down
    OBVIOUS
  <2>3. 1 \in DOMAIN q /\ q[1] = asks
    BY <2>1, <2>2
  <2> QED
    BY <1>2, <2>1, <2>2, <2>3, AtIn
<1>5. Head(down) = asks /\ Tail(down) = <<>>
  BY <1>4
<1>6. chat' = [chat EXCEPT !.opening = ""] /\ noted' = noted \cup {asks} /\ down' = <<>>
  BY <1>1, <1>3, <1>5
<1>7. Dock!TypeOK' /\ chat'.up = chat.up /\ chat'.mode = chat.mode /\ chat.up
  <2>1. chat.up
    <3>1. chat = Dock!NoChat => chat.opening = ""
      <4>1. Dock!NoChat.opening = ""
        BY DEF Dock!NoChat
      <4> QED
        BY <4>1
    <3>2. chat.opening # ""
      BY <1>3, <1>4, DockNames
    <3> QED
      BY <1>2, <3>1, <3>2 DEF DockHeld
  <2> QED
    BY <1>1, <1>2, <1>4, <1>6, <2>1 DEF Dock!TypeOK
<1>8. Dock!RoomOnlyForThePanel' /\ DockHeld' /\ DockAgrees'
  BY <1>1, <1>2, <1>6, <1>7, AgreesStays DEF Dock!RoomOnlyForThePanel, Dock!Room, DockHeld
<1>9. DockAsked'
  <2>1. \A p \in opened : p \in noted'
    <3> TAKE p \in opened
    <3>1. p \in noted \/ down = <<p>>
      BY <1>2 DEF DockAsked
    <3>2. down = <<p>> => p = asks
      BY <1>4
    <3> QED
      BY <1>6, <3>1, <3>2
  <2>2. \A i \in DOMAIN up' : up'[i] \notin CataloguePages
    BY <1>1, <1>4 DEF NoneOf
  <2> QED
    BY <1>1, <1>6, <2>1, <2>2 DEF DockAsked
<1>10. down' \in Seq(CataloguePages)
  <2>1. down' = <<>>
    BY <1>6
  <2> QED
    BY <2>1
<1> QED
  BY <1>1, <1>2, <1>7, <1>8, <1>9, <1>10 DEF DockInv, Uppers

\* The page goes, and what it opened for an answer is noted by the frame that goes with it.
LEMMA LeaveKeeps ==
    ASSUME Dock!ConstantsOK, DockInv, NEW p \in CataloguePages, Dock!Leave(p)
    PROVE  DockInv'
<1>1. /\ at.ready /\ noted' = Dock!HidesNoted
      /\ held' = IF at.ran THEN [open |-> box.open, mode |-> box.mode, widget |-> held.widget] ELSE held
      /\ chat' = Dock!NoChat /\ up' = <<>> /\ down' = <<>>
      /\ at' = [page |-> p, ready |-> FALSE, ran |-> FALSE]
      /\ box' = [open |-> FALSE, mode |-> Dock!Mode0, frame |-> Framed[p],
                 room |-> Dock!Room(held'.open, held'.mode), leaving |-> FALSE]
      /\ UNCHANGED <<placed, opened, began>>
  BY DEF Dock!Leave
<1>2. Dock!TypeOK /\ down \in Seq(CataloguePages) /\ DockHeld /\ DockAsked
  BY DEF DockInv
<1>3. held' \in [open : BOOLEAN, mode : Dock!Sizes, widget : Assistants \cup {""}]
  BY <1>1, <1>2 DEF Dock!TypeOK
<1>4. noted' \subseteq CataloguePages
  BY <1>1, <1>2 DEF Dock!TypeOK, Dock!HidesNoted
<1>5. Dock!TypeOK'
  <2>1. Dock!Room(held'.open, held'.mode) \in BOOLEAN
    BY DEF Dock!Room
  <2>2. Dock!NoChat \in [up : BOOLEAN, mode : Dock!Sizes, opening : CataloguePages \cup {""}, late : BOOLEAN]
    BY DEF Dock!NoChat, Dock!Sizes
  <2> QED
    BY <1>1, <1>2, <1>3, <1>4, <2>1, <2>2, DockNames, SizeOfIs DEF Dock!TypeOK
<1>6. Dock!RoomOnlyForThePanel' /\ DockAgrees'
  BY <1>1 DEF Dock!RoomOnlyForThePanel, DockAgrees, Dock!NoChat
<1>7. DockHeld'
  BY <1>1, <1>2 DEF DockHeld, Dock!NoChat
<1>8. DockAsked'
  <2>1. ASSUME NEW opens \in opened
        PROVE  opens \in noted'
    <3>1. CASE opens \in noted
      BY <1>1, <3>1 DEF Dock!HidesNoted
    <3>2. CASE down = <<opens>>
      <4>1. down = <<chat.opening>> /\ ~chat.late
        BY <1>2, <3>2 DEF DockAsked
      <4>2. PICK asks : asks = chat.opening
        OBVIOUS
      <4>3. <<opens>> = <<asks>> => opens = asks
        OBVIOUS
      <4>4. opens = chat.opening
        BY <3>2, <4>1, <4>2, <4>3
      <4>5. opens # ""
        BY <1>2, DockNames, ZenonT(60) DEF Dock!TypeOK
      <4> QED
        BY <1>1, <4>1, <4>4, <4>5 DEF Dock!HidesNoted
    <3> QED
      BY <1>2, <3>1, <3>2 DEF DockAsked
  <2>2. DOMAIN up' = {} /\ down' = <<>>
    BY <1>1
  <2> QED
    BY <1>1, <2>1, <2>2 DEF DockAsked
<1>9. up' \in Seq(Uppers) /\ down' \in Seq(CataloguePages)
  BY <1>1
<1> QED
  BY <1>5, <1>6, <1>7, <1>8, <1>9 DEF DockInv, Uppers

\* The page after: its script runs and opens the panel it finds open, or the room is given back.
LEMMA LoadKeeps ==
    ASSUME Dock!ConstantsOK, DockInv, Dock!Runs \/ Dock!Failed
    PROVE  DockInv'
<1>1. /\ Dock!TypeOK /\ up \in Seq(Uppers) /\ down \in Seq(CataloguePages) /\ DockHeld /\ DockAsked
      /\ Dock!RoomOnlyForThePanel
  BY DEF DockInv, Uppers
<1>2. ~at.ready /\ UNCHANGED <<placed, down, noted, opened, began>>
  BY DEF Dock!Runs, Dock!Failed
<1>3. ~at.ran /\ ~box.open /\ ~box.leaving /\ chat = Dock!NoChat /\ up = <<>> /\ down = <<>>
  BY <1>1, <1>2 DEF DockHeld, DockAsked
<1>4. CASE Dock!Runs
  <2>1. PICK frame, mode : frame = Dock!Frame /\ mode = Dock!SizeOf(placed[frame])
    OBVIOUS
  <2>2. /\ at' = [at EXCEPT !.ready = TRUE, !.ran = TRUE]
        /\ box' = [box EXCEPT !.open = held.open, !.mode = held.mode, !.frame = frame,
                              !.room = Dock!Room(held.open, held.mode)]
        /\ held' = IF held.open THEN [held EXCEPT !.widget = frame] ELSE held
        /\ chat' = IF held.open THEN [Dock!NoChat EXCEPT !.up = TRUE, !.mode = mode] ELSE Dock!NoChat
        /\ up' = IF held.open THEN Dock!Says(mode) ELSE <<>>
    BY <1>4, <2>1 DEF Dock!Runs
  <2>3. mode \in Dock!Sizes /\ (Docking => Dock!Says(mode) = <<mode>>) /\ Dock!Says(mode) \in {<<>>, <<mode>>}
    BY <2>1, SizeOfIs
  <2>4. frame \in Assistants /\ (held.open => frame = began)
    BY <1>1, <2>1 DEF Dock!Frame, Dock!TypeOK, DockHeld
  <2>5. Dock!TypeOK' /\ Dock!RoomOnlyForThePanel'
    <3>1. at' \in [page : CataloguePages, ready : BOOLEAN, ran : BOOLEAN] /\ held.open \in BOOLEAN
      BY <1>1, <2>2 DEF Dock!TypeOK
    <3>2. Dock!Room(held.open, held.mode) \in BOOLEAN
      BY DEF Dock!Room
    <3>3. /\ box' \in [open : BOOLEAN, mode : Dock!Sizes, frame : Assistants, room : BOOLEAN, leaving : BOOLEAN]
          /\ box'.open = held.open /\ box'.mode = held.mode /\ box'.room = Dock!Room(held.open, held.mode)
      BY <1>1, <2>2, <2>4, <3>2 DEF Dock!TypeOK
    <3>4. held' \in [open : BOOLEAN, mode : Dock!Sizes, widget : Assistants \cup {""}]
      BY <1>1, <2>2, <2>4 DEF Dock!TypeOK
    <3>5. chat' \in [up : BOOLEAN, mode : Dock!Sizes, opening : CataloguePages \cup {""}, late : BOOLEAN]
      <4>1. Dock!NoChat \in [up : BOOLEAN, mode : Dock!Sizes, opening : CataloguePages \cup {""}, late : BOOLEAN]
        BY DEF Dock!NoChat, Dock!Sizes
      <4> QED
        BY <2>2, <2>3, <4>1
    <3>6. Dock!TypeOK'
      BY <1>1, <1>2, <3>1, <3>3, <3>4, <3>5 DEF Dock!TypeOK
    <3> QED
      BY <3>3, <3>6 DEF Dock!RoomOnlyForThePanel, Dock!Room
  <2>6. DockHeld'
    <3>1. /\ at'.ready /\ at'.ran /\ box'.open = held.open /\ box'.frame = frame /\ held'.open = held.open
          /\ held.open => held'.widget = frame
          /\ ~held.open => chat' = Dock!NoChat
          /\ held.open => chat'.up
      BY <1>1, <2>2 DEF Dock!TypeOK, Dock!NoChat
    <3> QED
      BY <1>1, <1>2, <2>4, <3>1 DEF DockHeld
  <2>7. mode \in Uppers \ CataloguePages
    BY <2>3, DockNames DEF Uppers
  <2>8. up' \in Seq(Uppers) /\ NoneOf(up', CataloguePages) /\ (Docking /\ held.open => Newest(up', Dock!Sizes, mode))
    <3>1. <<>> \in Seq(Uppers) /\ <<mode>> = Append(<<>>, mode)
      OBVIOUS
    <3>2. /\ <<mode>> \in Seq(Uppers) /\ Newest(<<mode>>, Dock!Sizes, mode)
          /\ NoneOf(<<>>, CataloguePages) => NoneOf(<<mode>>, CataloguePages)
      BY <2>3, <2>7, <3>1, QueueAppend
    <3>3. NoneOf(<<>>, CataloguePages)
      BY QueueEmpty
    <3> QED
      BY <2>2, <2>3, <3>1, <3>2, <3>3
  <2>9. DockAgrees'
    BY <2>2, <2>8 DEF DockAgrees, Dock!NoChat
  <2>10. box'.leaving = box.leaving
    BY <1>1, <2>2 DEF Dock!TypeOK
  <2>11. DockAsked'
    BY <1>1, <1>2, <1>3, <2>8, <2>10 DEF DockAsked, NoneOf
  <2> QED
    BY <1>1, <1>2, <2>5, <2>6, <2>8, <2>9, <2>11 DEF DockInv, Uppers
<1>5. CASE Dock!Failed
  <2>1. at' = [at EXCEPT !.ready = TRUE] /\ box' = [box EXCEPT !.room = FALSE] /\ UNCHANGED <<held, chat, up>>
    BY <1>5 DEF Dock!Failed
  <2>2. /\ Dock!TypeOK' /\ box'.open = FALSE /\ box'.room = FALSE /\ ~box'.leaving /\ box'.mode = box.mode /\ at'.ready /\ ~at'.ran
    BY <1>1, <1>2, <1>3, <2>1 DEF Dock!TypeOK
  <2>3. Dock!RoomOnlyForThePanel' /\ DockHeld' /\ DockAgrees'
    <3>1. Dock!RoomOnlyForThePanel'
      BY <2>2 DEF Dock!RoomOnlyForThePanel, Dock!Room
    <3>2. ~chat.up /\ chat' = chat /\ up' = <<>>
      BY <1>3, <2>1 DEF Dock!NoChat
    <3>3. DockHeld'
      BY <1>1, <1>2, <1>3, <2>1, <2>2, <3>2 DEF DockHeld
    <3> QED
      BY <3>1, <3>2, <3>3 DEF DockAgrees
  <2>4. DockAsked'
    BY <1>1, <1>2, <1>3, <2>1, <2>2 DEF DockAsked, NoneOf
  <2> QED
    BY <1>1, <1>2, <2>1, <2>2, <2>3, <2>4 DEF DockInv, Uppers
<1> QED
  BY <1>4, <1>5

LEMMA DockKeeps ==
    ASSUME Dock!ConstantsOK, DockInv, Dock!Next
    PROVE  DockInv'
<1>1. CASE Dock!Toggle \/ Dock!HearSize \/ Dock!HearClose \/ \E busy \in BOOLEAN : Dock!HearDataset(busy)
  BY <1>1, ToggleKeeps, HearSizeKeeps, HearCloseKeeps, HearDatasetKeeps
<1>2. CASE \/ Dock!Close \/ Dock!Late \/ Dock!HearOpened \/ \E mode \in Dock!Sizes : Dock!Place(mode)
           \/ \E p \in CataloguePages : Dock!Follow(p)
  BY <1>2, FrameSaysKeeps, FollowKeeps, LateKeeps, HearOpenedKeeps
<1>3. CASE \E p \in CataloguePages : Dock!Leave(p)
  BY <1>3, LeaveKeeps
<1>4. CASE Dock!Runs \/ Dock!Failed
  BY <1>4, LoadKeeps
<1> QED
  BY <1>1, <1>2, <1>3, <1>4 DEF Dock!Next

LEMMA DockShows ==
    ASSUME Dock!ConstantsOK, DockInv
    PROVE  /\ Dock!TypeOK /\ Dock!RoomOnlyForThePanel /\ Dock!SizesAgree /\ Dock!StaysWithItsAssistant
           /\ Dock!OpenedIsNoted
<1>1. Dock!SizesAgree
  BY QueueEmpty DEF DockInv, DockAgrees, Dock!SizesAgree
<1>2. Dock!StaysWithItsAssistant
  BY DEF DockInv, DockHeld, Dock!StaysWithItsAssistant
<1>3. Dock!OpenedIsNoted
  BY DEF DockInv, DockAsked, Dock!OpenedIsNoted
<1> QED
  BY <1>1, <1>2, <1>3 DEF DockInv

(***************************************************************************)
(* The catalogue's pages: buttons, preview, framed tables, resource form.  *)
(***************************************************************************)
LEMMA PageInit ==
    ASSUME Page!ConstantsOK, Page!Init
    PROVE  PageInv
<1>1. PageButtons
  <2>1. /\ label = [b \in Buttons |-> [text |-> "own", kept |-> "", back |-> ""]]
        /\ copying = [b \in Buttons |-> 0] /\ clicks = 0
    BY DEF Page!Init, Page!None
  <2>2. 0 \in 0..MaxClicks
    BY DEF Page!ConstantsOK
  <2> QED
    <3>1. /\ label \in [Buttons -> [text : {"own", "copied", "select"}, kept : {"", "own"}, back : {"", "own"}]]
          /\ \A b \in Buttons : label[b].text = "own"
      BY <2>1
    <3>2. copying \in [Buttons -> Nat] /\ \A b \in Buttons : copying[b] <= clicks
      <4>1. copying = [b \in Buttons |-> 0] /\ clicks = 0
        BY <2>1
      <4>2. copying \in [Buttons -> Nat] /\ \A b \in Buttons : copying[b] = 0
        BY <4>1
      <4>3. 0 <= clicks
        BY <4>1
      <4> QED
        BY <4>2, <4>3
    <3> QED
      BY <2>1, <2>2, <3>1, <3>2 DEF PageButtons
<1>2. PagePreview
  BY DEF Page!Init, PagePreview, Page!ConstantsOK
<1>3. PageTables
  <2>1. tables = [f \in TableFrames |-> [tries |-> 0, built |-> FALSE, tall |-> 0]] /\ height = [f \in TableFrames |-> 0]
    BY DEF Page!Init
  <2>2. said = <<>>
    BY DEF Page!Init
  <2>3. said \in Seq([frame : TableFrames, height : TableTall]) /\ Len(said) <= MaxSaid
    BY <2>2 DEF Page!ConstantsOK
  <2>4. 0 \in 0..Tries
    BY DEF Page!ConstantsOK
  <2> QED
    BY <2>1, <2>3, <2>4 DEF PageTables
<1>4. PageSource
  BY DEF Page!Init, PageSource, Page!None
<1> QED
  BY <1>1, <1>2, <1>3, <1>4 DEF PageInv

\* Words for a while: the button's own ones are kept.
LEMMA SaysKeeps ==
    ASSUME PageButtons, NEW b \in Buttons, NEW words \in {"own", "copied", "select"}, Page!Says(b, words)
    PROVE  /\ label' \in [Buttons -> [text : {"own", "copied", "select"}, kept : {"", "own"}, back : {"", "own"}]]
           /\ \A o \in Buttons : (label'[o].kept = "" => label'[o].text = "own")
                                 /\ (label'[o].back = "" => label'[o].text = "own")
<1> DEFINE was == IF label[b].kept # "" THEN label[b].kept ELSE label[b].text
<1>1. label' = [label EXCEPT ![b] = [text |-> words, kept |-> was, back |-> was]]
  BY DEF Page!Says, Page!None
<1>2. was = "own"
  BY DEF PageButtons
<1> HIDE DEF was
<1>3. label \in [Buttons -> [text : {"own", "copied", "select"}, kept : {"", "own"}, back : {"", "own"}]]
  BY DEF PageButtons
<1>4. ASSUME NEW o \in Buttons
      PROVE  /\ label'[o] \in [text : {"own", "copied", "select"}, kept : {"", "own"}, back : {"", "own"}]
             /\ label'[o].kept = "" => label'[o].text = "own"
             /\ label'[o].back = "" => label'[o].text = "own"
  <2>1. CASE o = b
    BY <1>1, <1>2, <1>3, <2>1
  <2>2. CASE o # b
    BY <1>1, <1>3, <2>2 DEF PageButtons
  <2> QED
    BY <2>1, <2>2
<1> QED
  BY <1>1, <1>3, <1>4

LEMMA ButtonsKeep ==
    ASSUME Page!ConstantsOK, PageInv, NEW b \in Buttons, NEW yes \in BOOLEAN, Page!Back(b) \/ Page!Click(b, yes) \/ Page!Copied(b, yes)
    PROVE  PageInv'
<1>0. /\ PageButtons /\ PagePreview /\ PageTables /\ PageSource
  BY DEF PageInv
<1>1. UNCHANGED <<preview, tables, said, height, source>>
  BY DEF Page!Back, Page!Click, Page!Copied, Page!frames
<1>2. PagePreview' /\ PageTables' /\ PageSource'
  BY <1>0, <1>1 DEF PagePreview, PageTables, PageSource
<1>3. PageButtons'
  <2>1. CASE Page!Back(b)
    BY <1>0, <2>1 DEF Page!Back, Page!None, PageButtons
  <2>2. CASE Page!Click(b, yes)
    <3>1. clicks < MaxClicks /\ clicks' = clicks + 1 /\ clicks \in 0..MaxClicks /\ MaxClicks \in Nat
      BY <1>0, <2>2 DEF Page!Click, PageButtons, Page!ConstantsOK
    <3>0. /\ copying \in [Buttons -> Nat] /\ \A o \in Buttons : copying[o] <= clicks
      BY <1>0 DEF PageButtons
    <3>2. clicks' \in 0..MaxClicks
      BY <3>1
    <3>3. CASE yes
      <4>1. copying' = [copying EXCEPT ![b] = copying[b] + 1] /\ label' = label
        BY <2>2, <3>3 DEF Page!Click
      <4>2. copying' \in [Buttons -> Nat]
        BY <3>0, <4>1
      <4>3. ASSUME NEW o \in Buttons
            PROVE  copying'[o] <= clicks'
        <5>1. copying[o] \in Nat /\ copying[o] <= clicks /\ (copying'[o] = copying[o] \/ copying'[o] = copying[o] + 1)
          BY <3>0, <4>1
        <5> QED
          BY <3>1, <5>1
      <4> QED
        BY <1>0, <3>2, <4>1, <4>2, <4>3 DEF PageButtons
    <3>4. CASE ~yes
      <4>1. Page!Fallback(b) /\ copying' = copying
        BY <2>2, <3>4 DEF Page!Click
      <4>2. \E words \in {"own", "copied", "select"} : Page!Says(b, words)
        BY <4>1 DEF Page!Fallback
      <4>3. copying' \in [Buttons -> Nat] /\ \A o \in Buttons : copying'[o] <= clicks'
        <5>1. \A o \in Buttons : copying[o] \in Nat /\ copying[o] <= clicks
          BY <3>0
        <5>2. \A o \in Buttons : copying[o] <= clicks'
          BY <3>1, <5>1
        <5> QED
          BY <3>0, <4>1, <5>2
      <4> QED
        BY <1>0, <3>2, <4>2, <4>3, SaysKeeps DEF PageButtons
    <3> QED
      BY <3>3, <3>4
  <2>3. CASE Page!Copied(b, yes)
    <3>1. copying[b] > 0 /\ copying' = [copying EXCEPT ![b] = copying[b] - 1] /\ clicks' = clicks
      BY <2>3 DEF Page!Copied
    <3>2. \E words \in {"own", "copied", "select"} : Page!Says(b, words)
      <4>1. CASE yes
        BY <2>3, <4>1 DEF Page!Copied
      <4>2. CASE ~yes
        BY <2>3, <4>2 DEF Page!Copied, Page!Fallback
      <4> QED
        BY <4>1, <4>2
    <3>3. copying' \in [Buttons -> Nat] /\ \A o \in Buttons : copying'[o] <= clicks'
      <4>1. copying \in [Buttons -> Nat] /\ (\A o \in Buttons : copying[o] <= clicks) /\ clicks \in Nat
        <5>1. clicks \in 0..MaxClicks /\ MaxClicks \in Nat
          BY <1>0 DEF PageButtons, Page!ConstantsOK
        <5>2. clicks \in Nat
          BY <5>1
        <5> QED
          BY <1>0, <5>2 DEF PageButtons
      <4>2. copying[b] - 1 \in Nat /\ copying[b] - 1 <= clicks
        BY <3>1, <4>1
      <4> QED
        BY <3>1, <4>1, <4>2
    <3> QED
      BY <1>0, <3>1, <3>2, <3>3, SaysKeeps DEF PageButtons
  <2> QED
    BY <2>1, <2>2, <2>3
<1> QED
  BY <1>2, <1>3 DEF PageInv

LEMMA PreviewKeeps ==
    ASSUME Page!ConstantsOK, PageInv,
           Page!PreviewFails \/ \E rows \in Totals, total \in Totals \cup {-1} : Page!Preview(rows, total)
    PROVE  PageInv'
<1>0. /\ PageButtons /\ PagePreview /\ PageTables /\ PageSource
  BY DEF PageInv
<1>1. UNCHANGED <<label, copying, clicks, tables, said, height, source>>
  BY DEF Page!PreviewFails, Page!Preview, Page!frames, Page!copies
<1>2. PageButtons' /\ PageTables' /\ PageSource'
  BY <1>0, <1>1 DEF PageButtons, PageTables, PageSource
<1>3. PagePreview'
  <2>1. ASSUME NEW status \in {"empty", "failed"}, preview' = [preview EXCEPT !.status = status]
        PROVE  PagePreview'
    <3>1. PICK p : p = preview
      OBVIOUS
    <3>2. p = [status |-> p.status, rows |-> p.rows, count |-> p.count] /\ p.rows \in 0..ShownRows
      BY <1>0, <3>1 DEF PagePreview
    <3>3. preview' = [status |-> status, rows |-> p.rows, count |-> p.count]
      BY <2>1, <3>1, <3>2
    <3>4. preview'.status = status /\ preview'.rows = p.rows /\ preview'.count = p.count
      BY <3>3
    <3> QED
      BY <2>1, <3>2, <3>3, <3>4 DEF PagePreview
  <2>2. ASSUME NEW rows \in Totals, NEW total, Page!Preview(rows, total)
        PROVE  PagePreview'
    <3>1. CASE rows = 0
      <4>1. preview' = [preview EXCEPT !.status = "empty"]
        BY <2>2, <3>1 DEF Page!Preview
      <4> QED
        BY <2>1, <4>1
    <3>2. CASE rows # 0
      <4>1. PICK few, status : /\ preview' = [rows |-> few, count |-> total, status |-> status]
                               /\ few = IF rows < ShownRows THEN rows ELSE ShownRows
                               /\ status \in {"hidden", "shown"}
        BY <2>2, <3>2 DEF Page!Preview
      <4>2. few \in 0..ShownRows
        BY <4>1 DEF Page!ConstantsOK
      <4> QED
        BY <4>1, <4>2 DEF PagePreview
    <3> QED
      BY <3>1, <3>2
  <2>3. CASE Page!PreviewFails
    BY <2>1, <2>3 DEF Page!PreviewFails
  <2> QED
    BY <2>2, <2>3
<1> QED
  BY <1>2, <1>3 DEF PageInv

LEMMA SourceKeeps ==
    ASSUME PageInv, NEW field \in {"url", "file"}, Page!Takes(field) \/ Page!Fill(field) \/ Page!Remove(field)
    PROVE  PageInv'
<1>0. /\ PageButtons /\ PagePreview /\ PageTables /\ PageSource
  BY DEF PageInv
<1>1. UNCHANGED <<label, copying, clicks, preview, tables, said, height>>
  BY DEF Page!Takes, Page!Fill, Page!Remove, Page!frames, Page!copies
<1>2. PageButtons' /\ PagePreview' /\ PageTables'
  BY <1>0, <1>1 DEF PageButtons, PagePreview, PageTables
<1>3. PageSource'
  <2>1. PICK r : r = source
    OBVIOUS
  <2>2. /\ r \in [radio : {"", "url", "file"}, url : {"", "given"}, file : {"", "given"}]
        /\ (r.url # "" => r.radio = "url") /\ (r.file # "" => r.radio = "file")
    BY <1>0, <2>1 DEF PageSource
  <2>3. CASE field = "url"
    <3>1. \/ r.radio = "" /\ source' = [r EXCEPT !.radio = "url"]
          \/ r.radio = "url" /\ source' = [r EXCEPT !.url = "given"]
          \/ r.radio = "url" /\ source' = [r EXCEPT !.radio = "", !.url = ""]
      BY <2>1, <2>3 DEF Page!Takes, Page!Fill, Page!Remove, Page!None
    <3> QED
      BY <2>2, <3>1 DEF PageSource
  <2>4. CASE field = "file"
    <3>1. \/ r.radio = "" /\ source' = [r EXCEPT !.radio = "file"]
          \/ r.radio = "file" /\ source' = [r EXCEPT !.file = "given"]
          \/ r.radio = "file" /\ source' = [r EXCEPT !.radio = "", !.file = ""]
      BY <2>1, <2>4 DEF Page!Takes, Page!Fill, Page!Remove, Page!None
    <3> QED
      BY <2>2, <3>1 DEF PageSource
  <2> QED
    BY <2>3, <2>4
<1> QED
  BY <1>2, <1>3 DEF PageInv

\* A table that is there, or grew, says its height; the other frames' heights stay where they were.
LEMMA TableSays ==
    ASSUME Page!ConstantsOK, PageTables, NEW f \in TableFrames, NEW h \in TableTall, Page!Post(f, h), height' = height,
           tables' = [tables EXCEPT ![f].built = TRUE, ![f].tall = h]
    PROVE  PageTables'
<1> DEFINE Notes == [frame : TableFrames, height : TableTall]
           m == [frame |-> f, height |-> h]
<1>1. /\ tables \in [TableFrames -> [tries : 0..Tries, built : BOOLEAN, tall : TableTall \cup {0}]]
      /\ said \in Seq(Notes) /\ Len(said) <= MaxSaid /\ height \in [TableFrames -> {0} \cup TableLow..TableHigh]
  BY DEF PageTables
<1>2. Len(said) < MaxSaid /\ said' = Append(said, m) /\ m \in Notes
  BY DEF Page!Post
<1>3. said' \in Seq(Notes) /\ Len(said') <= MaxSaid
  <2>1. MaxSaid \in Nat
    BY DEF Page!ConstantsOK
  <2>2. PICK q, Mine : q = said /\ Mine = Notes
    OBVIOUS
  <2>3. q \in Seq(Mine) /\ m \in Mine /\ Len(q) < MaxSaid
    BY <1>1, <1>2, <2>2
  <2>4. Append(q, m) \in Seq(Mine) /\ Len(Append(q, m)) = Len(q) + 1 /\ Len(q) \in Nat
    BY <2>3
  <2> QED
    BY <1>2, <2>1, <2>2, <2>3, <2>4
<1>4. tables' \in [TableFrames -> [tries : 0..Tries, built : BOOLEAN, tall : TableTall \cup {0}]]
  BY <1>1
<1>5. ASSUME NEW g \in TableFrames, tables'[g].built
      PROVE  \/ Newest(said', Heights(g), [frame |-> g, height |-> tables'[g].tall])
             \/ NoneOf(said', Heights(g)) /\ (tables'[g].tall > 0 => height'[g] = Page!Clamped(tables'[g].tall))
  <2>1. CASE g = f
    <3>1. tables'[g].tall = h /\ m \in Heights(f)
      BY <1>1, <2>1 DEF Heights
    <3>2. Newest(said', Heights(f), m)
      BY <1>1, <1>2, <3>1, QueueAppend
    <3> QED
      BY <2>1, <3>1, <3>2
  <2>2. CASE g # f
    <3>1. tables'[g] = tables[g]
      BY <1>1, <2>2
    <3>2. m \notin Heights(g)
      BY <2>2 DEF Heights
    <3>3. /\ NoneOf(said, Heights(g)) => NoneOf(said', Heights(g))
          /\ \A w : Newest(said, Heights(g), w) => Newest(said', Heights(g), w)
      BY <1>1, <1>2, <3>2, QueueAppend
    <3>4. \/ Newest(said, Heights(g), [frame |-> g, height |-> tables[g].tall])
          \/ NoneOf(said, Heights(g)) /\ (tables[g].tall > 0 => height[g] = Page!Clamped(tables[g].tall))
      BY <1>5, <3>1 DEF PageTables
    <3> QED
      BY <3>1, <3>3, <3>4
  <2> QED
    BY <2>1, <2>2
<1> QED
  BY <1>1, <1>3, <1>4, <1>5 DEF PageTables

LEMMA ClampedIs ==
    ASSUME Page!ConstantsOK, NEW h \in Nat
    PROVE  Page!Clamped(h) \in TableLow..TableHigh
BY DEF Page!ConstantsOK, Page!Clamped

LEMMA HeightHeard ==
    ASSUME Page!ConstantsOK, PageTables, Page!HearHeight
    PROVE  PageTables'
<1> DEFINE Notes == [frame : TableFrames, height : TableTall]
<1>1. /\ tables \in [TableFrames -> [tries : 0..Tries, built : BOOLEAN, tall : TableTall \cup {0}]]
      /\ said \in Seq(Notes) /\ Len(said) <= MaxSaid /\ height \in [TableFrames -> {0} \cup TableLow..TableHigh]
  BY DEF PageTables
<1>2. PICK h : h = Head(said)
  OBVIOUS
<1>3. /\ said # <<>> /\ said' = Tail(said) /\ tables' = tables
      /\ height' = IF h.height <= 0 THEN height ELSE [height EXCEPT ![h.frame] = Page!Clamped(h.height)]
  BY <1>2 DEF Page!HearHeight
<1>4. said' \in Seq(Notes) /\ h \in Notes /\ Len(said') <= MaxSaid
  <2>1. MaxSaid \in Nat
    BY DEF Page!ConstantsOK
  <2>2. PICK q, Mine : q = said /\ Mine = Notes
    OBVIOUS
  <2>3. q \in Seq(Mine) /\ q # <<>> /\ Len(q) <= MaxSaid
    BY <1>1, <1>3, <2>2
  <2>4. Tail(q) \in Seq(Mine) /\ Head(q) \in Mine /\ Len(Tail(q)) = Len(q) - 1 /\ Len(q) \in Nat
    BY <2>3, QueueIs, QueueTail
  <2> QED
    BY <1>2, <1>3, <2>1, <2>2, <2>3, <2>4
<1>5. h.height \in Nat /\ h.frame \in TableFrames /\ h = [frame |-> h.frame, height |-> h.height] /\ h.height \in TableTall
  BY <1>4 DEF Page!ConstantsOK
<1>6. height' \in [TableFrames -> {0} \cup TableLow..TableHigh]
  BY <1>1, <1>3, <1>5, ClampedIs
<1>7. ASSUME NEW g \in TableFrames, tables[g].built
      PROVE  \/ Newest(said', Heights(g), [frame |-> g, height |-> tables[g].tall])
             \/ NoneOf(said', Heights(g)) /\ (tables[g].tall > 0 => height'[g] = Page!Clamped(tables[g].tall))
  <2> DEFINE w == [frame |-> g, height |-> tables[g].tall]
  <2>1. Newest(said, Heights(g), w) \/ (NoneOf(said, Heights(g)) /\ (tables[g].tall > 0 => height[g] = Page!Clamped(tables[g].tall)))
    BY <1>7 DEF PageTables
  <2>2. /\ NoneOf(said, Heights(g)) => NoneOf(said', Heights(g)) /\ h \notin Heights(g)
        /\ Newest(said, Heights(g), w) => Newest(said', Heights(g), w) \/ (h = w /\ NoneOf(said', Heights(g)))
    <3>1. /\ NoneOf(said, Heights(g)) => NoneOf(Tail(said), Heights(g)) /\ Head(said) \notin Heights(g)
          /\ \A v : Newest(said, Heights(g), v) =>
               Newest(Tail(said), Heights(g), v) \/ (Head(said) = v /\ NoneOf(Tail(said), Heights(g)))
      BY <1>1, <1>3, QueueTail
    <3> HIDE DEF w
    <3> QED
      BY <1>2, <1>3, <3>1
  <2>3. CASE Newest(said', Heights(g), w)
    BY <2>3
  <2>4. CASE h = w /\ NoneOf(said', Heights(g))
    <3>1. h.frame = g /\ h.height = tables[g].tall
      BY <2>4
    <3>2. tables[g].tall > 0 => height'[g] = Page!Clamped(tables[g].tall)
      BY <1>1, <1>3, <1>5, <3>1
    <3> QED
      BY <2>4, <3>2
  <2>5. CASE NoneOf(said, Heights(g)) /\ (tables[g].tall > 0 => height[g] = Page!Clamped(tables[g].tall))
    <3>1. h.frame # g
      BY <1>5, <2>2, <2>5 DEF Heights
    <3>2. height'[g] = height[g]
      BY <1>1, <1>3, <1>5, <3>1
    <3> QED
      BY <2>2, <2>5, <3>2
  <2> QED
    BY <2>1, <2>2, <2>3, <2>4, <2>5
<1> QED
  BY <1>1, <1>3, <1>4, <1>6, <1>7 DEF PageTables

LEMMA FramesKeep ==
    ASSUME Page!ConstantsOK, PageInv,
           Page!HearHeight \/ \E f \in TableFrames : Page!Looks(f) \/ \E h \in TableTall : Page!Built(f, h) \/ Page!Grows(f, h)
    PROVE  PageInv'
<1>0. /\ PageButtons /\ PagePreview /\ PageTables /\ PageSource
  BY DEF PageInv
<1>1. UNCHANGED <<label, copying, clicks, preview, source>>
  BY DEF Page!HearHeight, Page!Looks, Page!Built, Page!Grows, Page!copies
<1>2. PageButtons' /\ PagePreview' /\ PageSource'
  BY <1>0, <1>1 DEF PageButtons, PagePreview, PageSource
<1>3. CASE Page!HearHeight
  BY <1>0, <1>2, <1>3, HeightHeard DEF PageInv
<1>4. ASSUME NEW f \in TableFrames, Page!Looks(f)
      PROVE  PageTables'
  <2>1. /\ tables[f].tries < Tries /\ tables' = [tables EXCEPT ![f].tries = tables[f].tries + 1]
        /\ UNCHANGED <<said, height>>
    BY <1>4 DEF Page!Looks
  <2>2. tables \in [TableFrames -> [tries : 0..Tries, built : BOOLEAN, tall : TableTall \cup {0}]] /\ Tries \in Nat
    BY <1>0 DEF PageTables, Page!ConstantsOK
  <2>3. tables[f].tries + 1 \in 0..Tries
    BY <2>1, <2>2
  <2>4. /\ tables' \in [TableFrames -> [tries : 0..Tries, built : BOOLEAN, tall : TableTall \cup {0}]]
        /\ \A g \in TableFrames : tables'[g].built = tables[g].built /\ tables'[g].tall = tables[g].tall
    BY <2>1, <2>2, <2>3
  <2> QED
    BY <1>0, <2>1, <2>4 DEF PageTables
<1>5. ASSUME NEW f \in TableFrames, NEW h \in TableTall, Page!Built(f, h) \/ Page!Grows(f, h)
      PROVE  PageTables'
  <2>1. Page!Post(f, h) /\ height' = height
    BY <1>5 DEF Page!Built, Page!Grows
  <2>2. tables \in [TableFrames -> [tries : 0..Tries, built : BOOLEAN, tall : TableTall \cup {0}]]
    BY <1>0 DEF PageTables
  <2>3. CASE Page!Built(f, h)
    BY <1>0, <2>1, <2>3, TableSays DEF Page!Built
  <2>4. CASE Page!Grows(f, h)
    <3>1. tables[f].built /\ tables' = [tables EXCEPT ![f].tall = h]
      BY <2>4 DEF Page!Grows
    <3>2. tables' = [tables EXCEPT ![f].built = TRUE, ![f].tall = h]
      BY <2>2, <3>1
    <3> QED
      BY <1>0, <2>1, <3>2, TableSays
  <2> QED
    BY <1>5, <2>3, <2>4
<1> QED
  BY <1>2, <1>3, <1>4, <1>5 DEF PageInv

LEMMA PagesKeep ==
    ASSUME Page!ConstantsOK, PageInv, Page!Next
    PROVE  PageInv'
BY ButtonsKeep, PreviewKeeps, FramesKeep, SourceKeeps DEF Page!Next

LEMMA PagesShow ==
    ASSUME Page!ConstantsOK, PageInv
    PROVE  Page!TypeOK /\ Page!FramesFitTheirTables /\ Page!OwnWordsReturn /\ Page!OneSource
<1>0. /\ PageButtons /\ PagePreview /\ PageTables /\ PageSource
  BY DEF PageInv
<1>1. \A b \in Buttons : copying[b] \in 0..MaxClicks /\ label[b].text \in {"own", "copied", "select"}
  <2>1. clicks \in Nat /\ clicks <= MaxClicks /\ MaxClicks \in Nat
    <3>1. clicks \in 0..MaxClicks /\ MaxClicks \in Nat
      BY <1>0 DEF PageButtons, Page!ConstantsOK
    <3> QED
      BY <3>1
  <2>2. \A b \in Buttons : copying[b] \in Nat /\ copying[b] <= clicks
    BY <1>0 DEF PageButtons
  <2>3. \A b \in Buttons : copying[b] \in 0..MaxClicks
    BY <2>1, <2>2
  <2> QED
    BY <1>0, <2>3 DEF PageButtons
<1>2. \A f \in TableFrames : tables[f].tries \in 0..Tries /\ height[f] \in {0} \cup TableLow..TableHigh
  BY <1>0 DEF PageTables
<1>3. Page!TypeOK
  BY <1>0, <1>1, <1>2 DEF Page!TypeOK, Page!None, PagePreview, PageTables, PageSource
<1>4. Page!FramesFitTheirTables
  BY <1>0, QueueEmpty DEF PageTables, Page!FramesFitTheirTables
<1>5. Page!OwnWordsReturn /\ Page!OneSource
  BY <1>0 DEF PageButtons, PageSource, Page!OwnWordsReturn, Page!OneSource, Page!None
<1> QED
  BY <1>3, <1>4, <1>5

(***************************************************************************)
(* The chart or map the assistant shows.                                   *)
(***************************************************************************)
LEMMA TwoFrames ==
    ASSUME NEW a, NEW b
    PROVE  [renderer |-> a, mapPage |-> b] = [f \in Shows!Frames |-> IF f = "renderer" THEN a ELSE b]
BY DEF Shows!Frames

LEMMA ShowsInit ==
    ASSUME Shows!ConstantsOK, Shows!Init
    PROVE  ShowsInv
<1>1. /\ host = [parent |-> FALSE, map |-> FALSE, ready |-> FALSE, pending |-> ""]
      /\ inner = [renderer |-> "loading", mapPage |-> "none"]
      /\ given = [f \in Shows!Frames |-> ""] /\ lost = FALSE
      /\ heard = <<>> /\ tall = 0 /\ high = 0 /\ told = [words |-> "", height |-> 0]
  BY DEF Shows!Init
<1>2. heard \in Seq(FrameMessages) /\ DOMAIN heard = {}
  <2>1. heard = <<>>
    BY <1>1
  <2> QED
    BY <2>1, EmptyIs
<1>3. inner \in [Shows!Frames -> {"none", "loading", "up", "gone"}] /\ inner["renderer"] = "loading" /\ inner["mapPage"] = "none"
  <2>1. inner = [f \in Shows!Frames |-> IF f = "renderer" THEN "loading" ELSE "none"]
    <3>1. inner = [renderer |-> "loading", mapPage |-> "none"]
      BY <1>1
    <3>2. [renderer |-> "loading", mapPage |-> "none"] = [f \in Shows!Frames |-> IF f = "renderer" THEN "loading" ELSE "none"]
      BY TwoFrames
    <3> QED
      BY <3>1, <3>2
  <2> QED
    BY <2>1 DEF Shows!Frames
<1>4. ShowTypes
  BY <1>1, <1>2, <1>3 DEF ShowTypes
<1>5. WhoDraws
  BY <1>1, <1>2, <1>3 DEF WhoDraws
<1>6. \A f \in Shows!Frames : DrawingTold(f)
  BY <1>1 DEF DrawingTold
<1> QED
  BY <1>4, <1>5, <1>6 DEF ShowsInv

LEMMA HeardGrows ==
    ASSUME ShowTypes, NEW m \in FrameMessages, heard' = Append(heard, m)
    PROVE  /\ heard' \in Seq(FrameMessages)
           /\ \A f \in Shows!Frames :
                /\ m \in Said(f) => Newest(heard', Said(f), m)
                /\ m \notin Said(f) => /\ NoneOf(heard, Said(f)) => NoneOf(heard', Said(f))
                                       /\ \A w : Newest(heard, Said(f), w) => Newest(heard', Said(f), w)
           /\ \A i \in DOMAIN heard : i \in DOMAIN heard' /\ heard'[i] = heard[i]
           /\ \E i \in DOMAIN heard' : heard'[i] = m
           /\ \A i \in DOMAIN heard' : heard'[i] = m \/ (i \in DOMAIN heard /\ heard'[i] = heard[i])
<1>1. heard \in Seq(FrameMessages)
  BY DEF ShowTypes
<1>2. /\ heard' \in Seq(FrameMessages)
      /\ \A f \in Shows!Frames :
           /\ m \in Said(f) => Newest(heard', Said(f), m)
           /\ m \notin Said(f) => /\ NoneOf(heard, Said(f)) => NoneOf(heard', Said(f))
                                  /\ \A w : Newest(heard, Said(f), w) => Newest(heard', Said(f), w)
  BY <1>1, QueueAppend
<1>3. PICK q, Mine : q = heard /\ Mine = FrameMessages
  OBVIOUS
<1>4. q \in Seq(Mine) /\ m \in Mine
  BY <1>1, <1>3
<1>5. /\ \A i \in DOMAIN q : i \in DOMAIN Append(q, m) /\ Append(q, m)[i] = q[i]
      /\ Len(q) + 1 \in DOMAIN Append(q, m) /\ Append(q, m)[Len(q) + 1] = m
      /\ \A i \in DOMAIN Append(q, m) : i = Len(q) + 1 \/ i \in DOMAIN q
  BY <1>4
<1> QED
  BY <1>2, <1>3, <1>5

LEMMA HeardShrinks ==
    ASSUME ShowTypes, heard # <<>>, heard' = Tail(heard)
    PROVE  /\ heard' \in Seq(FrameMessages) /\ Head(heard) \in FrameMessages
           /\ \A f \in Shows!Frames :
                /\ NoneOf(heard, Said(f)) => NoneOf(heard', Said(f)) /\ Head(heard) \notin Said(f)
                /\ \A w : Newest(heard, Said(f), w) =>
                     Newest(heard', Said(f), w) \/ (Head(heard) = w /\ NoneOf(heard', Said(f)))
           /\ 1 \in DOMAIN heard /\ heard[1] = Head(heard)
           /\ \A i \in DOMAIN heard' : i + 1 \in DOMAIN heard /\ heard'[i] = heard[i + 1]
           /\ \A i \in DOMAIN heard : heard[i] = Head(heard) \/ \E j \in DOMAIN heard' : heard'[j] = heard[i]
<1>1. heard \in Seq(FrameMessages)
  BY DEF ShowTypes
<1>2. /\ heard' \in Seq(FrameMessages) /\ Head(heard) \in FrameMessages
      /\ \A f \in Shows!Frames :
           /\ NoneOf(heard, Said(f)) => NoneOf(heard', Said(f)) /\ Head(heard) \notin Said(f)
           /\ \A w : Newest(heard, Said(f), w) =>
                Newest(heard', Said(f), w) \/ (Head(heard) = w /\ NoneOf(heard', Said(f)))
  BY <1>1, QueueTail
<1>3. /\ Len(heard) \in Nat /\ DOMAIN heard = 1..Len(heard) /\ 1 \in DOMAIN heard /\ heard[1] = Head(heard)
      /\ DOMAIN Tail(heard) = 1..(Len(heard) - 1)
      /\ \A i \in 1..(Len(heard) - 1) : Tail(heard)[i] = heard[i + 1]
  BY <1>1, QueueIs
<1>4. \A i \in DOMAIN heard' : i + 1 \in DOMAIN heard /\ heard'[i] = heard[i + 1]
  BY <1>3
<1>5. ASSUME NEW i \in DOMAIN heard
      PROVE  heard[i] = Head(heard) \/ \E j \in DOMAIN heard' : heard'[j] = heard[i]
  <2>1. CASE i = 1
    BY <1>3, <2>1
  <2>2. CASE i # 1
    <3>1. i - 1 \in 1..(Len(heard) - 1) /\ (i - 1) + 1 = i
      BY <1>3, <2>2
    <3> QED
      BY <1>3, <3>1
  <2> QED
    BY <2>1, <2>2
<1> QED
  BY <1>2, <1>3, <1>4, <1>5

\* A message that is no height of this frame leaves what it told.
LEMMA StillTold ==
    ASSUME ShowTypes, NEW f \in Shows!Frames, DrawingTold(f), given'[f] = given[f], UNCHANGED <<tall, high, told>>,
           \/ heard' = heard
           \/ \E m \in FrameMessages \ Said(f) : heard' = Append(heard, m)
    PROVE  DrawingTold(f)'
<1>1. CASE heard' = heard
  BY <1>1 DEF DrawingTold
<1>2. CASE \E m \in FrameMessages \ Said(f) : heard' = Append(heard, m)
  <2>1. /\ NoneOf(heard, Said(f)) => NoneOf(heard', Said(f))
        /\ \A w : Newest(heard, Said(f), w) => Newest(heard', Said(f), w)
        /\ \A i \in DOMAIN heard : i \in DOMAIN heard' /\ heard'[i] = heard[i]
    BY <1>2, HeardGrows
  <2>2. given[f] = "drawn" =>
       \/ Newest(heard', Said(f), [from |-> f, says |-> "height", tall |-> tall])
       \/ NoneOf(heard', Said(f)) /\ told.height = Shows!Clamped(tall) /\ high = told.height
    BY <2>1 DEF DrawingTold
  <2>3. given[f] = "failed" =>
       told.words = "failed" \/ \E i \in DOMAIN heard' : heard'[i].from = f /\ heard'[i].says = "error"
    BY <2>1 DEF DrawingTold
  <2> QED
    BY <2>2, <2>3 DEF DrawingTold
<1> QED
  BY <1>1, <1>2

LEMMA FrameUpKeeps ==
    ASSUME ShowsInv, NEW f \in Shows!Frames, Shows!FrameUp(f)
    PROVE  ShowsInv'
<1> DEFINE m == [from |-> f, says |-> "ready", tall |-> 0]
<1>0. ShowTypes /\ WhoDraws /\ \A g \in Shows!Frames : DrawingTold(g)
  BY DEF ShowsInv
<1>1. /\ inner[f] = "loading" /\ inner' = [inner EXCEPT ![f] = "up"] /\ heard' = Append(heard, m)
      /\ UNCHANGED <<host, given, lost, tall, high, told>>
  BY DEF Shows!FrameUp, Shows!Says
<1>2. m \in FrameMessages /\ \A g \in Shows!Frames : m \notin Said(g)
  BY DEF FrameMessages, Said
<1> HIDE DEF m
<1>3. inner \in [Shows!Frames -> {"none", "loading", "up", "gone"}] /\ {"renderer", "mapPage"} = Shows!Frames
  BY <1>0 DEF ShowTypes, Shows!Frames
<1>4. heard' \in Seq(FrameMessages)
  BY <1>0, <1>1, <1>2, HeardGrows
<1>5. ShowTypes'
  BY <1>0, <1>1, <1>3, <1>4 DEF ShowTypes
<1>6. WhoDraws'
  <2>1. \A g \in Shows!Frames : inner'[g] = inner[g] \/ (inner[g] = "loading" /\ inner'[g] = "up")
    BY <1>1, <1>3
  <2>2. Shows!Drawer(host) \in Shows!Frames
    BY DEF Shows!Drawer, Shows!Frames
  <2>3. m.says = "ready" /\ m.from = f /\ inner'[f] = "up"
    BY <1>1, <1>3 DEF m
  <2>4. ASSUME NEW i \in DOMAIN heard', heard'[i].says = "ready"
        PROVE  inner'[heard'[i].from] \in {"up", "gone"}
    <3>1. CASE heard'[i] = m
      BY <2>3, <3>1
    <3>2. CASE i \in DOMAIN heard /\ heard'[i] = heard[i]
      <4>1. inner[heard[i].from] \in {"up", "gone"}
        BY <1>0, <2>4, <3>2 DEF WhoDraws
      <4>2. heard[i] \in FrameMessages
        BY <1>0, <3>2, AtIn DEF ShowTypes
      <4>3. heard[i].from \in Shows!Frames
        BY <4>2 DEF FrameMessages
      <4> QED
        BY <2>1, <3>2, <4>1, <4>3
    <3> QED
      BY <1>0, <1>1, <1>2, <3>1, <3>2, HeardGrows
  <2> QED
    BY <1>0, <1>1, <1>3, <2>1, <2>2, <2>4 DEF WhoDraws
<1>7. ASSUME NEW g \in Shows!Frames
      PROVE  DrawingTold(g)'
  BY <1>0, <1>1, <1>2, StillTold
<1> QED
  BY <1>5, <1>6, <1>7 DEF ShowsInv

LEMMA DrawerIs ==
    ASSUME NEW h
    PROVE  Shows!Drawer(h) \in Shows!Frames /\ (h.map => Shows!Drawer(h) = "mapPage") /\ (~h.map => Shows!Drawer(h) = "renderer")
BY DEF Shows!Drawer, Shows!Frames

\* A spec sent to a frame that is there is not lost.
LEMMA SendKeeps ==
    ASSUME ShowTypes, NEW h, Shows!Send(h),
           h \in [parent : BOOLEAN, map : BOOLEAN, ready : BOOLEAN, pending : Specs \cup {""}],
           h.ready => inner'[Shows!Drawer(h)] = "up"
    PROVE  /\ host' = h \/ host' = [h EXCEPT !.pending = ""]
           /\ lost' = lost
           /\ given' = given \/ \E spec \in Specs \ {""} : given' = [given EXCEPT ![Shows!Drawer(h)] = spec]
BY DEF Shows!Send

LEMMA ShowKeeps ==
    ASSUME ShowsInv, NEW spec \in Specs, Shows!Show(spec), Shows!ConstantsOK
    PROVE  ShowsInv'
<1>0. ShowTypes /\ WhoDraws /\ \A g \in Shows!Frames : DrawingTold(g)
  BY DEF ShowsInv
<1>1. /\ ~host.parent /\ inner' = IF spec = "map" THEN [renderer |-> "gone", mapPage |-> "loading"] ELSE inner
      /\ Shows!Send(Shows!Shown(spec))
      /\ told' = IF spec = "refused" THEN [told EXCEPT !.words = "failed"] ELSE told
      /\ UNCHANGED <<heard, tall, high>>
  BY DEF Shows!Show
<1>2. PICK h : h = Shows!Shown(spec)
  OBVIOUS
<1>3. /\ h = [parent |-> TRUE, map |-> spec = "map", ready |-> host.ready /\ spec # "map",
              pending |-> IF spec = "refused" THEN "" ELSE spec]
      /\ Shows!Send(h)
  BY <1>1, <1>2 DEF Shows!Shown
<1>4. h \in [parent : BOOLEAN, map : BOOLEAN, ready : BOOLEAN, pending : Specs \cup {""}]
  BY <1>0, <1>3 DEF ShowTypes
<1>5. /\ h.parent = TRUE /\ h.map = (spec = "map") /\ h.ready = (host.ready /\ spec # "map")
  BY <1>3
<1>6. ~host.map /\ host.pending = "" /\ inner["mapPage"] = "none" /\ inner["renderer"] # "gone"
  BY <1>0, <1>1 DEF WhoDraws
<1>7. \A f \in Shows!Frames : given[f] = ""
  BY <1>0, <1>1 DEF WhoDraws
<1>8. h.ready => inner'[Shows!Drawer(h)] = "up"
  BY <1>0, <1>1, <1>5, <1>6, DrawerIs DEF WhoDraws
<1>9. /\ host' = h \/ host' = [h EXCEPT !.pending = ""]
      /\ lost' = lost
      /\ given' = given \/ \E s \in Specs \ {""} : given' = [given EXCEPT ![Shows!Drawer(h)] = s]
  <2>1. ShowTypes /\ Shows!Send(h)
    BY <1>0, <1>3
  <2> QED
    BY <1>4, <1>8, <2>1, SendKeeps, Zenon
<1>10. /\ host' \in [parent : BOOLEAN, map : BOOLEAN, ready : BOOLEAN, pending : Specs \cup {""}]
       /\ host'.parent = TRUE /\ host'.map = h.map /\ host'.ready = h.ready
  BY <1>4, <1>5, <1>9
<1>11. Shows!Drawer(host') = Shows!Drawer(h) /\ Shows!Drawer(h) \in Shows!Frames
  BY <1>10, DrawerIs DEF Shows!Drawer
<1>12. given \in [Shows!Frames -> Specs \cup {"", "drawn", "failed"}] /\ told \in [words : {"", "failed"}, height : Nat]
       /\ inner \in [Shows!Frames -> {"none", "loading", "up", "gone"}]
  BY <1>0 DEF ShowTypes
<1>13. /\ given' \in [Shows!Frames -> Specs \cup {"", "drawn", "failed"}]
       /\ \A f \in Shows!Frames : given'[f] = "" \/ f = Shows!Drawer(h)
       /\ \A f \in Shows!Frames : given'[f] \notin {"drawn", "failed"}
  <2>1. "drawn" \notin Specs /\ "failed" \notin Specs
    BY DEF Shows!ConstantsOK
  <2> QED
    BY <1>7, <1>9, <1>11, <1>12, <2>1, ZenonT(60)
<1>14. inner' \in [Shows!Frames -> {"none", "loading", "up", "gone"}]
       /\ inner'["mapPage"] = (IF spec = "map" THEN "loading" ELSE "none")
       /\ (inner'["renderer"] = "gone" => spec = "map")
       /\ \A f \in Shows!Frames : inner[f] \in {"up", "gone"} => inner'[f] \in {"up", "gone"}
  <2>1. CASE spec = "map"
    <3>1. inner' = [f \in Shows!Frames |-> IF f = "renderer" THEN "gone" ELSE "loading"]
      BY <1>1, <2>1, TwoFrames
    <3>2. \A f \in Shows!Frames : f # "renderer" => inner[f] = "none"
      BY <1>6 DEF Shows!Frames
    <3> QED
      BY <2>1, <3>1, <3>2 DEF Shows!Frames
  <2>2. CASE spec # "map"
    BY <1>1, <1>6, <1>12, <2>2 DEF Shows!Frames
  <2> QED
    BY <2>1, <2>2
<1>15. told' \in [words : {"", "failed"}, height : Nat]
  BY <1>1, <1>12
<1>16. ShowTypes'
  BY <1>0, <1>1, <1>9, <1>10, <1>13, <1>14, <1>15 DEF ShowTypes
<1>17. WhoDraws'
  <2>1. ASSUME NEW i \in DOMAIN heard, heard[i].says = "ready"
        PROVE  inner'[heard[i].from] \in {"up", "gone"}
    <3>1. heard[i] \in FrameMessages
      BY <1>0, AtIn DEF ShowTypes
    <3>2. heard[i].from \in Shows!Frames
      BY <3>1 DEF FrameMessages
    <3> QED
      BY <1>0, <1>14, <2>1, <3>2 DEF WhoDraws
  <2> QED
    BY <1>1, <1>5, <1>8, <1>10, <1>11, <1>13, <1>14, <2>1 DEF WhoDraws
<1>18. \A f \in Shows!Frames : DrawingTold(f)'
  BY <1>13 DEF DrawingTold
<1> QED
  BY <1>16, <1>17, <1>18 DEF ShowsInv

\* The frame that draws says its height, or that it failed.
LEMMA DrawsKeep ==
    ASSUME ShowsInv, NEW f \in Shows!Frames, NEW h, NEW m \in FrameMessages,
           given[f] # "", heard' = Append(heard, m), m.from = f, m.says # "ready", UNCHANGED <<host, inner, lost, high, told>>,
           \/ /\ given'= [given EXCEPT ![f] = "drawn"] /\ tall' = h /\ h \in Tall
              /\ m = [from |-> f, says |-> "height", tall |-> h]
           \/ given' = [given EXCEPT ![f] = "failed"] /\ tall' = tall /\ m.says = "error"
    PROVE  ShowsInv'
<1>0. ShowTypes /\ WhoDraws
  BY DEF ShowsInv
<1>1. /\ heard' \in Seq(FrameMessages)
      /\ m \in Said(f) => Newest(heard', Said(f), m)
      /\ \E i \in DOMAIN heard' : heard'[i] = m
      /\ \A i \in DOMAIN heard' : heard'[i] = m \/ (i \in DOMAIN heard /\ heard'[i] = heard[i])
  BY <1>0, HeardGrows
<1>2. /\ given \in [Shows!Frames -> Specs \cup {"", "drawn", "failed"}]
      /\ host.parent /\ f = Shows!Drawer(host) /\ \A g \in Shows!Frames : given[g] # "" => g = f
  BY <1>0 DEF ShowTypes, WhoDraws
<1>3. /\ given' \in [Shows!Frames -> Specs \cup {"", "drawn", "failed"}]
      /\ \A g \in Shows!Frames \ {f} : given'[g] = ""
  BY <1>2
<1>4. \A i \in DOMAIN heard' : heard'[i].says = "ready" => i \in DOMAIN heard /\ heard'[i] = heard[i]
  BY <1>1
<1>5. ShowTypes'
  BY <1>0, <1>1, <1>3, ZenonT(60) DEF ShowTypes
<1>6. WhoDraws'
  <2>1. \A i \in DOMAIN heard' : heard'[i].says = "ready" => inner[heard'[i].from] \in {"up", "gone"}
    BY <1>0, <1>4 DEF WhoDraws
  <2>2. \A g \in Shows!Frames : given'[g] # "" => host.parent /\ g = Shows!Drawer(host)
    BY <1>2, <1>3
  <2> QED
    BY <1>0, <2>1, <2>2 DEF WhoDraws
<1>7. DrawingTold(f)'
  <2>1. CASE given' = [given EXCEPT ![f] = "drawn"] /\ tall' = h /\ h \in Tall /\ m = [from |-> f, says |-> "height", tall |-> h]
    <3>1. given'[f] = "drawn" /\ m \in Said(f)
      BY <1>2, <2>1 DEF Said
    <3>2. Newest(heard', Said(f), [from |-> f, says |-> "height", tall |-> tall'])
      BY <1>1, <2>1, <3>1
    <3> QED
      BY <3>1, <3>2 DEF DrawingTold
  <2>2. CASE given' = [given EXCEPT ![f] = "failed"] /\ m.says = "error"
    <3>1. given'[f] = "failed"
      BY <1>2, <2>2
    <3>2. \E i \in DOMAIN heard' : heard'[i].from = f /\ heard'[i].says = "error"
      BY <1>1, <2>2
    <3> QED
      BY <3>1, <3>2 DEF DrawingTold
  <2> QED
    BY <2>1, <2>2
<1>8. \A g \in Shows!Frames \ {f} : DrawingTold(g)'
  BY <1>3 DEF DrawingTold
<1> QED
  BY <1>5, <1>6, <1>7, <1>8 DEF ShowsInv

LEMMA DrawingKeeps ==
    ASSUME ShowsInv,
           \/ \E f \in Shows!Frames : Shows!DrawFails(f) \/ \E h \in Tall : Shows!Draw(f, h)
           \/ \E h \in Tall : Shows!Grows(h)
    PROVE  ShowsInv'
<1>1. ASSUME NEW f \in Shows!Frames, NEW h \in Tall, Shows!Draw(f, h)
      PROVE  ShowsInv'
  <2>1. PICK m : m = [from |-> f, says |-> "height", tall |-> h]
    OBVIOUS
  <2>2. m \in FrameMessages /\ m.from = f /\ m.says # "ready"
    BY <2>1 DEF FrameMessages
  <2>3. /\ given[f] # "" /\ given' = [given EXCEPT ![f] = "drawn"] /\ tall' = h /\ heard' = Append(heard, m)
        /\ UNCHANGED <<host, inner, lost, high, told>>
    BY <1>1, <2>1 DEF Shows!Draw, Shows!Says
  <2> QED
    BY <2>1, <2>2, <2>3, DrawsKeep
<1>2. ASSUME NEW f \in Shows!Frames, Shows!DrawFails(f)
      PROVE  ShowsInv'
  <2>1. PICK m : m = [from |-> f, says |-> "error", tall |-> 0]
    OBVIOUS
  <2>2. m \in FrameMessages /\ m.from = f /\ m.says = "error"
    BY <2>1 DEF FrameMessages
  <2>3. /\ given[f] # "" /\ given' = [given EXCEPT ![f] = "failed"] /\ heard' = Append(heard, m)
        /\ UNCHANGED <<host, inner, lost, tall, high, told>>
    BY <1>2, <2>1 DEF Shows!DrawFails, Shows!Says
  <2> QED
    BY <2>2, <2>3, DrawsKeep
<1>3. ASSUME NEW h \in Tall, Shows!Grows(h)
      PROVE  ShowsInv'
  <2>1. PICK m : m = [from |-> "renderer", says |-> "height", tall |-> h]
    OBVIOUS
  <2>2. m \in FrameMessages /\ m.from = "renderer" /\ m.says # "ready" /\ "renderer" \in Shows!Frames
    BY <2>1 DEF FrameMessages, Shows!Frames
  <2>3. /\ given["renderer"] = "drawn" /\ given' = given /\ tall' = h /\ heard' = Append(heard, m)
        /\ UNCHANGED <<host, inner, lost, high, told>>
    BY <1>3, <2>1 DEF Shows!Grows, Shows!Says
  <2>4. given' = [given EXCEPT !["renderer"] = "drawn"]
    BY <2>2, <2>3 DEF ShowsInv, ShowTypes
  <2> QED
    BY <2>1, <2>2, <2>3, <2>4, DrawsKeep
<1> QED
  BY <1>1, <1>2, <1>3

\* What is heard of a frame that does not draw says nothing of the one that does.
LEMMA HearKeeps ==
    ASSUME Shows!ConstantsOK, ShowsInv, Shows!Hear
    PROVE  ShowsInv'
<1>0. ShowTypes /\ WhoDraws /\ \A g \in Shows!Frames : DrawingTold(g)
  BY DEF ShowsInv
<1>1. PICK m : m = Head(heard)
  OBVIOUS
<1>2. /\ heard # <<>> /\ heard' = Tail(heard) /\ tall' = tall
      /\ IF m.from # Shows!Drawer(host) THEN UNCHANGED <<host, inner, given, lost, high, told>>
         ELSE CASE m.says = "ready" -> UNCHANGED <<inner, high, told>> /\ Shows!Send([host EXCEPT !.ready = TRUE])
                [] m.says = "height" -> /\ high' = Shows!Clamped(m.tall) /\ told' = [told EXCEPT !.height = Shows!Clamped(m.tall)]
                                        /\ UNCHANGED <<host, inner, given, lost>>
                [] m.says = "error" -> told' = [told EXCEPT !.words = "failed"] /\ UNCHANGED <<host, inner, given, lost, high>>
  BY <1>1 DEF Shows!Hear, Shows!Mine
<1>3. /\ heard' \in Seq(FrameMessages) /\ m \in FrameMessages
      /\ \A f \in Shows!Frames :
           /\ NoneOf(heard, Said(f)) => NoneOf(heard', Said(f)) /\ m \notin Said(f)
           /\ \A w : Newest(heard, Said(f), w) =>
                Newest(heard', Said(f), w) \/ (m = w /\ NoneOf(heard', Said(f)))
      /\ 1 \in DOMAIN heard /\ heard[1] = m
      /\ \A i \in DOMAIN heard' : i + 1 \in DOMAIN heard /\ heard'[i] = heard[i + 1]
      /\ \A i \in DOMAIN heard : heard[i] = m \/ \E j \in DOMAIN heard' : heard'[j] = heard[i]
  BY <1>0, <1>1, <1>2, HeardShrinks
<1>4. /\ m.from \in Shows!Frames /\ m.says \in {"ready", "height", "error"}
      /\ m.says = "height" => m \in Said(m.from) /\ m.tall \in Tall
  <2>1. CASE m \in [from : Shows!Frames, says : {"ready", "error"}, tall : {0}]
    BY <2>1
  <2>2. CASE m \in [from : Shows!Frames, says : {"height"}, tall : Tall]
    <3>1. m = [from |-> m.from, says |-> "height", tall |-> m.tall] /\ m.from \in Shows!Frames /\ m.tall \in Tall /\ m.says = "height"
      BY <2>2
    <3> QED
      BY <3>1 DEF Said
  <2> QED
    BY <1>3, <2>1, <2>2 DEF FrameMessages
<1>5. /\ host \in [parent : BOOLEAN, map : BOOLEAN, ready : BOOLEAN, pending : Specs \cup {""}]
      /\ inner \in [Shows!Frames -> {"none", "loading", "up", "gone"}]
      /\ given \in [Shows!Frames -> Specs \cup {"", "drawn", "failed"}] /\ lost = FALSE
      /\ told \in [words : {"", "failed"}, height : Nat] /\ high \in {0} \cup Low..High
  BY <1>0 DEF ShowTypes
\* Nothing told by it stands while the frame told of is not the one that drew.
<1>6. ASSUME UNCHANGED <<high, told>> \/ (m.says = "error" /\ m.from = Shows!Drawer(host) /\ told'.words = "failed"
                                            /\ told'.height = told.height /\ high' = high),
             m.says = "height" => m.from # Shows!Drawer(host),
             NEW f \in Shows!Frames, given'[f] = given[f],
             m.says = "error" => m.from # Shows!Drawer(host) \/ told'.words = "failed"
      PROVE  DrawingTold(f)'
  <2>1. CASE given[f] = "drawn"
    <3>1. f = Shows!Drawer(host)
      BY <1>0, <2>1 DEF WhoDraws
    <3>2. m # [from |-> f, says |-> "height", tall |-> tall]
      BY <1>6, <3>1
    <3>3. \/ Newest(heard, Said(f), [from |-> f, says |-> "height", tall |-> tall])
          \/ NoneOf(heard, Said(f)) /\ told.height = Shows!Clamped(tall) /\ high = told.height
      BY <1>0, <2>1 DEF DrawingTold
    <3>4. \/ Newest(heard', Said(f), [from |-> f, says |-> "height", tall |-> tall])
          \/ NoneOf(heard', Said(f)) /\ told.height = Shows!Clamped(tall) /\ high = told.height
      BY <1>3, <3>2, <3>3
    <3>5. told'.height = told.height /\ high' = high
      BY <1>6
    <3> QED
      BY <1>2, <1>6, <2>1, <3>4, <3>5 DEF DrawingTold
  <2>2. CASE given[f] = "failed"
    <3>1. f = Shows!Drawer(host)
      BY <1>0, <2>2 DEF WhoDraws
    <3>2. CASE told.words = "failed"
      BY <1>6, <2>2, <3>2 DEF DrawingTold
    <3>3. CASE told.words # "failed"
      <4>1. PICK i \in DOMAIN heard : heard[i].from = f /\ heard[i].says = "error"
        BY <1>0, <2>2, <3>3 DEF DrawingTold
      <4>2. CASE heard[i] = m
        BY <1>6, <2>2, <3>1, <4>1, <4>2 DEF DrawingTold
      <4>3. CASE \E j \in DOMAIN heard' : heard'[j] = heard[i]
        BY <1>6, <2>2, <4>1, <4>3 DEF DrawingTold
      <4> QED
        BY <1>3, <4>2, <4>3
    <3> QED
      BY <3>2, <3>3
  <2> QED
    BY <1>6, <2>1, <2>2 DEF DrawingTold
<1>7. \A i \in DOMAIN heard' : heard'[i].says = "ready" => inner[heard'[i].from] \in {"up", "gone"}
  <2> SUFFICES ASSUME NEW i \in DOMAIN heard', heard'[i].says = "ready"
               PROVE  inner[heard'[i].from] \in {"up", "gone"}
    OBVIOUS
  <2>1. i + 1 \in DOMAIN heard /\ heard'[i] = heard[i + 1]
    BY <1>3
  <2>2. \A j \in DOMAIN heard : heard[j].says = "ready" => inner[heard[j].from] \in {"up", "gone"}
    BY <1>0 DEF WhoDraws
  <2> QED
    BY <2>1, <2>2
<1>8. CASE m.from # Shows!Drawer(host)
  <2>1. UNCHANGED <<host, inner, given, lost, high, told>>
    BY <1>2, <1>8
  <2>2. ShowTypes' /\ WhoDraws'
    BY <1>0, <1>2, <1>3, <1>7, <2>1 DEF ShowTypes, WhoDraws
  <2>3. \A f \in Shows!Frames : DrawingTold(f)'
    BY <1>6, <1>8, <2>1
  <2> QED
    BY <2>2, <2>3 DEF ShowsInv
<1>9. CASE m.from = Shows!Drawer(host) /\ m.says = "ready"
  <2>1. PICK h : h = [host EXCEPT !.ready = TRUE]
    OBVIOUS
  <2>2. /\ Shows!Send(h) /\ UNCHANGED <<inner, high, told>>
        /\ h \in [parent : BOOLEAN, map : BOOLEAN, ready : BOOLEAN, pending : Specs \cup {""}]
        /\ h.parent = host.parent /\ h.map = host.map /\ h.pending = host.pending
    BY <1>2, <1>5, <1>9, <2>1
  <2>3. Shows!Drawer(h) = Shows!Drawer(host) /\ Shows!Drawer(h) \in Shows!Frames
    BY <2>2, DrawerIs DEF Shows!Drawer
  <2>4. inner[Shows!Drawer(h)] = "up"
    <3>1. inner[Shows!Drawer(host)] \in {"up", "gone"}
      BY <1>0, <1>3, <1>9 DEF WhoDraws
    <3> QED
      BY <1>0, <2>3, <3>1, DrawerIs DEF WhoDraws
  <2>5. /\ host' = h \/ host' = [h EXCEPT !.pending = ""]
        /\ lost' = lost
        /\ given' = given \/ \E s \in Specs \ {""} : given' = [given EXCEPT ![Shows!Drawer(h)] = s]
    BY <1>0, <2>2, <2>4, SendKeeps
  <2>6. /\ host' \in [parent : BOOLEAN, map : BOOLEAN, ready : BOOLEAN, pending : Specs \cup {""}]
        /\ host'.parent = host.parent /\ host'.map = host.map /\ (host.pending = "" => host'.pending = "")
    BY <2>2, <2>5
  <2>7. Shows!Drawer(host') = Shows!Drawer(host)
    BY <2>6 DEF Shows!Drawer
  <2>8. given' = given \/ host.pending # ""
    BY <2>2 DEF Shows!Send
  <2>9. "drawn" \notin Specs /\ "failed" \notin Specs
    BY DEF Shows!ConstantsOK
  <2>10. /\ given' \in [Shows!Frames -> Specs \cup {"", "drawn", "failed"}]
         /\ \A f \in Shows!Frames : given'[f] = given[f] \/ (f = Shows!Drawer(host) /\ given'[f] \notin {"drawn", "failed"})
    <3>1. CASE given' = given
      BY <1>5, <3>1
    <3>2. CASE \E s \in Specs \ {""} : given' = [given EXCEPT ![Shows!Drawer(h)] = s]
      <4>1. PICK s \in Specs \ {""} : given' = [given EXCEPT ![Shows!Drawer(h)] = s]
        BY <3>2
      <4>2. \A f \in Shows!Frames : given'[f] = IF f = Shows!Drawer(host) THEN s ELSE given[f]
        BY <1>5, <2>3, <4>1
      <4>3. given' \in [Shows!Frames -> Specs \cup {"", "drawn", "failed"}]
        BY <1>5, <2>3, <4>1
      <4>4. s \notin {"drawn", "failed"}
        BY <2>9
      <4> QED
        BY <4>2, <4>3, <4>4
    <3> QED
      BY <2>5, <3>1, <3>2
  <2>11. \A f \in Shows!Frames : given'[f] # "" => host.parent /\ f = Shows!Drawer(host)
    BY <1>0, <2>8, <2>10 DEF WhoDraws
  <2>12. ShowTypes'
    BY <1>0, <1>2, <1>3, <2>2, <2>5, <2>6, <2>10 DEF ShowTypes
  <2>13. WhoDraws'
    BY <1>0, <1>7, <2>2, <2>3, <2>4, <2>6, <2>7, <2>11 DEF WhoDraws
  <2>14. ASSUME NEW f \in Shows!Frames
         PROVE  DrawingTold(f)'
    <3>1. CASE given'[f] = given[f]
      BY <1>6, <1>9, <2>2, <3>1
    <3>2. CASE given'[f] \notin {"drawn", "failed"}
      BY <3>2 DEF DrawingTold
    <3> QED
      BY <2>10, <3>1, <3>2
  <2> QED
    BY <2>12, <2>13, <2>14 DEF ShowsInv
<1>10. CASE m.from = Shows!Drawer(host) /\ m.says = "height"
  <2>1. /\ high' = Shows!Clamped(m.tall) /\ told' = [told EXCEPT !.height = Shows!Clamped(m.tall)]
        /\ UNCHANGED <<host, inner, given, lost>>
    BY <1>2, <1>10
  <2>2. Shows!Clamped(m.tall) \in Low..High /\ Shows!Clamped(m.tall) \in Nat
    <3>1. m.tall \in Nat /\ Low \in Nat /\ High \in Nat /\ Low <= High
      BY <1>4, <1>10 DEF Shows!ConstantsOK
    <3> QED
      BY <3>1 DEF Shows!Clamped
  <2>3. ShowTypes' /\ WhoDraws'
    <3>1. told' \in [words : {"", "failed"}, height : Nat] /\ high' \in {0} \cup Low..High
      BY <1>5, <2>1, <2>2
    <3>2. ShowTypes'
      BY <1>0, <1>2, <1>3, <2>1, <3>1 DEF ShowTypes
    <3> QED
      BY <1>0, <1>7, <2>1, <3>2 DEF WhoDraws
  <2>4. told'.height = Shows!Clamped(m.tall) /\ told'.words = told.words /\ high' = told'.height
    BY <1>5, <2>1
  <2>5. ASSUME NEW f \in Shows!Frames
        PROVE  DrawingTold(f)'
    <3>1. CASE given[f] = "drawn"
      <4>1. f = m.from /\ m \in Said(f)
        BY <1>0, <1>4, <1>10, <3>1 DEF WhoDraws
      <4>2. Newest(heard, Said(f), [from |-> f, says |-> "height", tall |-> tall])
        BY <1>0, <1>3, <3>1, <4>1 DEF DrawingTold
      <4>3. \/ Newest(heard', Said(f), [from |-> f, says |-> "height", tall |-> tall])
            \/ m = [from |-> f, says |-> "height", tall |-> tall] /\ NoneOf(heard', Said(f))
        BY <1>3, <4>2
      <4>4. m = [from |-> f, says |-> "height", tall |-> tall] => m.tall = tall
        OBVIOUS
      <4> QED
        BY <1>2, <2>1, <2>4, <3>1, <4>3, <4>4 DEF DrawingTold
    <3>2. CASE given[f] = "failed"
      <4>1. told.words = "failed" \/ \E i \in DOMAIN heard : heard[i].from = f /\ heard[i].says = "error"
        BY <1>0, <3>2 DEF DrawingTold
      <4>2. told.words = "failed" \/ \E j \in DOMAIN heard' : heard'[j].from = f /\ heard'[j].says = "error"
        BY <1>3, <1>10, <4>1
      <4> QED
        BY <2>1, <2>4, <3>2, <4>2 DEF DrawingTold
    <3> QED
      BY <2>1, <3>1, <3>2 DEF DrawingTold
  <2> QED
    BY <2>3, <2>5 DEF ShowsInv
<1>11. CASE m.from = Shows!Drawer(host) /\ m.says = "error"
  <2>1. told' = [told EXCEPT !.words = "failed"] /\ UNCHANGED <<host, inner, given, lost, high>>
    BY <1>2, <1>11
  <2>2. told' \in [words : {"", "failed"}, height : Nat] /\ told'.words = "failed" /\ told'.height = told.height
    BY <1>5, <2>1
  <2>3. ShowTypes' /\ WhoDraws'
    <3>1. ShowTypes'
      BY <1>0, <1>2, <1>3, <2>1, <2>2 DEF ShowTypes
    <3> QED
      BY <1>0, <1>7, <2>1, <3>1 DEF WhoDraws
  <2>4. \A f \in Shows!Frames : DrawingTold(f)'
    BY <1>6, <1>11, <2>1, <2>2
  <2> QED
    BY <2>3, <2>4 DEF ShowsInv
<1> QED
  BY <1>4, <1>8, <1>9, <1>10, <1>11

LEMMA ShowsKeep ==
    ASSUME Shows!ConstantsOK, ShowsInv, Shows!Next
    PROVE  ShowsInv'
BY FrameUpKeeps, ShowKeeps, DrawingKeeps, HearKeeps DEF Shows!Next

LEMMA ShowsShow ==
    ASSUME Shows!ConstantsOK, ShowsInv
    PROVE  Shows!TypeOK /\ Shows!NoSpecIsLost /\ Shows!WidgetKnows
<1>1. Shows!TypeOK /\ Shows!NoSpecIsLost
  BY DEF ShowsInv, ShowTypes, Shows!TypeOK, Shows!NoSpecIsLost
<1>2. Shows!WidgetKnows
  <2>1. ASSUME heard = <<>>, NEW f \in Shows!Frames
        PROVE  /\ given[f] = "drawn" => told.height = Shows!Clamped(tall) /\ high = told.height
               /\ given[f] = "failed" => told.words = "failed"
    <3>1. DOMAIN heard = {}
      BY <2>1
    <3>2. DrawingTold(f)
      BY DEF ShowsInv
    <3> QED
      BY <2>1, <3>1, <3>2, QueueEmpty DEF DrawingTold
  <2> QED
    BY <2>1 DEF Shows!WidgetKnows
<1> QED
  BY <1>1, <1>2

(***************************************************************************)
(* What the charts of a page count.                                        *)
(***************************************************************************)
LEMMA InstantsAreFinite ==
    ASSUME Host!ConstantsOK
    PROVE  IsFiniteSet(Host!Instants)
<1>1. PICK row : row = [e \in Host!Entities |-> {e} \X (1..Counts[e])]
  OBVIOUS
<1>2. PICK rows : rows = {{e} \X (1..Counts[e]) : e \in Host!Entities}
  OBVIOUS
<1>3. row \in Surjection(Host!Entities, rows)
  BY <1>1, <1>2 DEF Surjection
<1>4. Counts \in Seq(Nat)
  BY DEF Host!ConstantsOK
<1>5. IsFiniteSet(Host!Entities)
  <2>1. Host!Entities = 1..Len(Counts) /\ Len(Counts) \in Nat
    BY <1>4 DEF Host!Entities
  <2> QED
    BY <2>1, FS_Interval
<1>6. IsFiniteSet(rows)
  BY <1>3, <1>5, FS_Surjection
<1>7. \A some \in rows : IsFiniteSet(some)
  <2> SUFFICES ASSUME NEW e \in Host!Entities
               PROVE  IsFiniteSet({e} \X (1..Counts[e]))
    BY <1>2
  <2>1. Counts[e] \in Nat
    BY <1>4 DEF Host!Entities
  <2>2. IsFiniteSet({e}) /\ IsFiniteSet(1..Counts[e])
    <3>1. PICK n \in Nat : n = Counts[e]
      BY <2>1
    <3>2. IsFiniteSet(1..n)
      BY FS_Interval
    <3>3. IsFiniteSet({e})
      BY FS_Singleton
    <3> QED
      BY <3>1, <3>2, <3>3
  <2> QED
    BY <2>2, FS_Product
<1> QED
  BY <1>2, <1>6, <1>7, FS_UNION DEF Host!Instants

LEMMA InitCounted ==
    ASSUME Host!ConstantsOK, Host!Init
    PROVE  Host!Counted
<1>1. /\ counted = [c \in Charts |-> 0]
      /\ url = [c \in Charts |-> [page |-> 1, block |-> 0, from |-> [e \in Host!Entities |-> 1]]]
  BY DEF Host!Init, Host!Start
<1>2. 1 \in 1..Pages
  BY DEF Host!ConstantsOK
<1> QED
  BY <1>1, <1>2 DEF Host!Counted

LEMMA PageCounts ==
    ASSUME Host!ConstantsOK, Host!HostInv, Host!Counted, NEW c \in Charts, Host!Page(c, 1)
    PROVE  Host!Counted'
<1>0. /\ counted \in [Charts -> Nat] /\ url = [d \in Charts |-> url[d]] /\ Pages \in Nat
      /\ \A d \in Charts :
           url[d] = [page |-> url[d].page, block |-> url[d].block, from |-> url[d].from] /\ url[d].page \in 1..Pages
  BY DEF Host!HostInv, Host!Counted, Host!ConstantsOK
<1>1. /\ counted' = [counted EXCEPT ![c] = counted[c] + 1]
      /\ url' = url \/ (url[c].page < Pages /\ url' = [url EXCEPT ![c].page = url[c].page + 1])
  BY DEF Host!Page
<1>2. counted' \in [Charts -> Nat]
  BY <1>0, <1>1
<1>3. CASE url' = url
  BY <1>0, <1>2, <1>3 DEF Host!Counted
<1>4. CASE url[c].page < Pages /\ url' = [url EXCEPT ![c].page = url[c].page + 1]
  <2>1. PICK at1 : at1 = url[c]
    OBVIOUS
  <2>2. at1 = [page |-> at1.page, block |-> at1.block, from |-> at1.from] /\ at1.page + 1 \in 1..Pages
    BY <1>0, <1>4, <2>1
  <2>3. PICK at2 : at2 = [page |-> at1.page + 1, block |-> at1.block, from |-> at1.from]
    OBVIOUS
  <2>4. [at1 EXCEPT !.page = at1.page + 1] = at2
    BY <2>2, <2>3
  <2>5. \A d \in Charts : url'[d] = IF d = c THEN at2 ELSE url[d]
    BY <1>0, <1>4, <2>1, <2>4
  <2>6. at2 = [page |-> at2.page, block |-> at2.block, from |-> at2.from] /\ at2.page \in 1..Pages
    BY <2>2, <2>3
  <2> QED
    BY <1>0, <1>2, <2>5, <2>6 DEF Host!Counted
<1> QED
  BY <1>1, <1>3, <1>4

LEMMA WindowCounts ==
    ASSUME Host!ConstantsOK, Host!HostInv, Host!Counted, NEW c \in Charts, Host!WindowComes(c)
    PROVE  Host!Counted'
<1>0. /\ counted \in [Charts -> Nat] /\ url = [d \in Charts |-> url[d]] /\ Pages \in Nat /\ 1 \in 1..Pages
      /\ \A d \in Charts :
           url[d] = [page |-> url[d].page, block |-> url[d].block, from |-> url[d].from] /\ url[d].page \in 1..Pages
  BY DEF Host!HostInv, Host!Counted, Host!ConstantsOK
<1>1. PICK n : n = Host!Cardinality(Host!Window(c))
  OBVIOUS
<1>2. n \in Nat
  <2>1. Host!Window(c) \in SUBSET Host!Instants
    BY DEF Host!Window
  <2>2. IsFiniteSet(Host!Window(c))
    BY <2>1, InstantsAreFinite, FS_Subset
  <2> QED
    BY <1>1, <2>2, FS_CardinalityType, SameCount
<1>3. counted' = [counted EXCEPT ![c] = counted[c] + n]
  BY <1>1 DEF Host!WindowComes
<1>4. counted' \in [Charts -> Nat]
  BY <1>0, <1>2, <1>3
<1>5. \/ url' = url
      \/ \E from : url' = [url EXCEPT ![c].from = from]
      \/ \E block : url' = [url EXCEPT ![c] = [Host!Start EXCEPT !.block = block]]
  <2>1. CASE Host!Cut(c) /\ ((Host!Cut(c) /\ Host!NextFrom(c) = url[c].from) \/ chart[c].late)
    BY <2>1 DEF Host!WindowComes
  <2>2. CASE Host!Cut(c) /\ ~((Host!Cut(c) /\ Host!NextFrom(c) = url[c].from) \/ chart[c].late)
    BY <2>2 DEF Host!WindowComes
  <2>3. CASE ~Host!Cut(c)
    <3>1. \/ url' = url
          \/ url' = [url EXCEPT ![c] = [Host!Start EXCEPT !.block = url[c].block + PAGE]]
      BY <2>3 DEF Host!WindowComes
    <3> QED
      BY <3>1
  <2> QED
    BY <2>1, <2>2, <2>3
<1>6. ASSUME NEW at2, url' = [url EXCEPT ![c] = at2], at2.page \in 1..Pages,
             at2 = [page |-> at2.page, block |-> at2.block, from |-> at2.from]
      PROVE  Host!Counted'
  <2>1. \A d \in Charts : url'[d] = IF d = c THEN at2 ELSE url[d]
    BY <1>0, <1>6
  <2> QED
    BY <1>0, <1>4, <1>6, <2>1 DEF Host!Counted
<1>7. CASE url' = url
  BY <1>0, <1>4, <1>7 DEF Host!Counted
<1>8. CASE \E from : url' = [url EXCEPT ![c].from = from]
  <2>1. PICK from : url' = [url EXCEPT ![c].from = from]
    BY <1>8
  <2>2. PICK at1 : at1 = url[c]
    OBVIOUS
  <2>3. at1 = [page |-> at1.page, block |-> at1.block, from |-> at1.from] /\ at1.page \in 1..Pages
    BY <1>0, <2>2
  <2>4. PICK at2 : at2 = [page |-> at1.page, block |-> at1.block, from |-> from]
    OBVIOUS
  <2>5. [at1 EXCEPT !.from = from] = at2
    BY <2>3, <2>4
  <2>6. url' = [url EXCEPT ![c] = at2]
    BY <2>1, <2>2, <2>5
  <2>7. at2.page \in 1..Pages /\ at2 = [page |-> at2.page, block |-> at2.block, from |-> at2.from]
    BY <2>3, <2>4
  <2> QED
    BY <1>6, <2>6, <2>7
<1>9. CASE \E block : url' = [url EXCEPT ![c] = [Host!Start EXCEPT !.block = block]]
  <2>1. PICK block : url' = [url EXCEPT ![c] = [Host!Start EXCEPT !.block = block]]
    BY <1>9
  <2>2. PICK at2 : at2 = [page |-> 1, block |-> block, from |-> [e \in Host!Entities |-> 1]]
    OBVIOUS
  <2>3. [Host!Start EXCEPT !.block = block] = at2
    BY <2>2 DEF Host!Start
  <2>4. url' = [url EXCEPT ![c] = at2]
    BY <2>1, <2>3
  <2>5. at2.page \in 1..Pages /\ at2 = [page |-> at2.page, block |-> at2.block, from |-> at2.from]
    BY <1>0, <2>2
  <2> QED
    BY <1>6, <2>4, <2>5
<1> QED
  BY <1>5, <1>7, <1>8, <1>9

LEMMA NextCounted ==
    ASSUME Host!ConstantsOK, Host!HostInv, Host!Counted, [Host!Next]_(Host!vars)
    PROVE  Host!Counted'
<1>1. CASE UNCHANGED <<url, counted>>
  BY <1>1 DEF Host!Counted
<1>2. CASE \E c \in Charts : Host!Page(c, 1) \/ Host!WindowComes(c)
  BY <1>2, PageCounts, WindowCounts
<1>3. UNCHANGED <<url, counted>> \/ \E c \in Charts : Host!Page(c, 1) \/ Host!WindowComes(c)
  <2>1. CASE UNCHANGED Host!vars
    BY <2>1 DEF Host!vars
  <2>2. CASE Host!Next
    <3>1. PICK c \in Charts : Host!Steps(c) \/ Host!Late(c) \/ Host!Timer(c)
      BY <2>2 DEF Host!Next
    <3>2. CASE \/ Host!View(c) \/ Host!ViewFails(c) \/ Host!WindowOver(c) \/ Host!ReadFails(c)
               \/ Host!ReadAborted(c) \/ Host!RenderFails(c)
      BY <3>2 DEF Host!View, Host!ViewFails, Host!WindowOver, Host!ReadFails, Host!ReadAborted, Host!RenderFails
    <3>3. CASE \/ Host!Granted(c) \/ Host!Refused(c) \/ Host!Again(c) \/ Host!NamesEnd(c)
               \/ Host!Late(c) \/ Host!Timer(c) \/ Host!Up(c) \/ Host!Sends(c) \/ Host!Draws(c)
      BY <3>3 DEF Host!Granted, Host!Refused, Host!Again, Host!NamesEnd, Host!Late, Host!Timer, Host!Up, Host!Sends, Host!Draws
    <3> QED
      BY <3>1, <3>2, <3>3 DEF Host!Steps
  <2> QED
    BY <2>1, <2>2
<1> QED
  BY <1>1, <1>2, <1>3

LEMMA HostShows ==
    ASSUME Host!ConstantsOK, Host!HostInv, Host!Counted
    PROVE  Host!TypeOK /\ Host!ChartsWholeOrSaid
<1>1. Host!ChartsWholeOrSaid
  BY ReadsAreFew, RowsAreWhole DEF Host!ChartsWholeOrSaid
<1>2. ASSUME NEW c \in Charts
      PROVE  /\ chart[c].stage \in {"view", "data", "names", "ready", "sent", "drawn", "failed"}
             /\ chart[c].io \in {"none", "queued", "fetching", "resting"} /\ chart[c].line \in 0..READS
             /\ chart[c].words \in {"", "partial", "failed"} /\ merged[c] \in [Host!Instants -> Nat]
             /\ counted[c] \in Nat /\ url[c].page \in 1..Pages
  <2>1. chart[c] \in Host!Records
    BY DEF Host!HostInv
  <2>2. merged[c] \in [Host!Instants -> {0, 1}]
    BY DEF Host!HostInv
  <2>3. merged[c] \in [Host!Instants -> Nat]
    BY <2>2
  <2> QED
    BY <2>1, <2>3 DEF Host!Records, Host!Counted
<1> QED
  BY <1>1, <1>2 DEF Host!TypeOK

(***************************************************************************)
(* What the dataset map reads: the loop over a page keeps what was read    *)
(* and pushes what is wanted while there is room.                          *)
(***************************************************************************)
LEMMA RangeIs ==
    ASSUME NEW q, NEW e
    PROVE  e \in Map!Range(q) <=> \E i \in DOMAIN q : q[i] = e
BY DEF Map!Range

LEMMA PushOne ==
    ASSUME NEW X, NEW q \in Seq(X), NEW m \in X
    PROVE  /\ Append(q, m) \in Seq(X) /\ Len(Append(q, m)) = Len(q) + 1 /\ Len(q) \in Nat
           /\ \A e : e \in Map!Range(Append(q, m)) <=> e \in Map!Range(q) \/ e = m
<1> DEFINE a == Append(q, m)
<1>1. /\ a \in Seq(X) /\ Len(a) = Len(q) + 1 /\ Len(q) \in Nat /\ DOMAIN q = 1..Len(q) /\ DOMAIN a = 1..(Len(q) + 1)
      /\ a[Len(q) + 1] = m /\ \A i \in 1..Len(q) : a[i] = q[i]
  OBVIOUS
<1> HIDE DEF a
<1>2. ASSUME NEW e, e \in Map!Range(a)
      PROVE  e \in Map!Range(q) \/ e = m
  <2>1. PICK i \in DOMAIN a : a[i] = e
    BY <1>2, RangeIs
  <2>2. i = Len(q) + 1 \/ i \in DOMAIN q
    BY <1>1
  <2> QED
    BY <1>1, <2>1, <2>2, RangeIs
<1>3. ASSUME NEW e, e \in Map!Range(q)
      PROVE  e \in Map!Range(a)
  <2>1. PICK i \in DOMAIN q : q[i] = e
    BY <1>3, RangeIs
  <2>2. i \in DOMAIN a /\ a[i] = e
    BY <1>1, <2>1
  <2> QED
    BY <2>2, RangeIs
<1>4. m \in Map!Range(a)
  <2>1. Len(q) + 1 \in DOMAIN a
    BY <1>1
  <2> QED
    BY <1>1, <2>1, RangeIs
<1> QED
  BY <1>1, <1>2, <1>3, <1>4 DEF a

\* The loop's state after n features of the page.
Reading(features, seq, wanted, n, f) ==
    f = [i \in 0..n |-> IF i = 0 THEN features
                        ELSE IF seq[i] \in wanted /\ Len(f[i - 1]) < Cap THEN Append(f[i - 1], seq[i])
                        ELSE f[i - 1]]

LEMMA ReadingExists ==
    ASSUME NEW features, NEW seq, NEW wanted, NEW n \in Nat
    PROVE  \E f : Reading(features, seq, wanted, n, f)
<1> DEFINE Step(i, before) == IF seq[i] \in wanted /\ Len(before) < Cap THEN Append(before, seq[i]) ELSE before
           without == {m \in Nat : ~ \E f : Reading(features, seq, wanted, m, f)}
<1>0. \A m, f : Reading(features, seq, wanted, m, f) <=> f = [i \in 0..m |-> IF i = 0 THEN features ELSE Step(i, f[i - 1])]
  BY DEF Reading
<1> HIDE DEF Step
<1> SUFFICES ASSUME without # {}
             PROVE  FALSE
  OBVIOUS
<1>1. PICK m \in without : \A l \in without : m <= l
  BY LeastExists
<1>2. m # 0
  <2>1. PICK f : f = [i \in 0..0 |-> features]
    OBVIOUS
  <2>2. f = [i \in 0..0 |-> IF i = 0 THEN features ELSE Step(i, f[i - 1])]
    BY <2>1
  <2> QED
    BY <1>0, <1>1, <2>2
<1>3. PICK f : Reading(features, seq, wanted, m - 1, f)
  BY <1>1, <1>2
<1>4. \A i \in 0..(m - 1) : f[i] = IF i = 0 THEN features ELSE Step(i, f[i - 1])
  BY <1>0, <1>3
<1>5. PICK g : g = [i \in 0..m |-> IF i = m THEN Step(m, f[m - 1]) ELSE f[i]]
  OBVIOUS
<1>6. \A i \in 0..m : g[i] = IF i = 0 THEN features ELSE Step(i, g[i - 1])
  <2> SUFFICES ASSUME NEW i \in 0..m
               PROVE  g[i] = IF i = 0 THEN features ELSE Step(i, g[i - 1])
    OBVIOUS
  <2>1. i # 0 => i - 1 \in 0..m /\ g[i - 1] = f[i - 1]
    BY <1>1, <1>5
  <2>2. CASE i = m
    BY <1>2, <1>5, <2>1, <2>2
  <2>3. CASE i # m
    <3>1. i \in 0..(m - 1) /\ g[i] = f[i]
      BY <1>1, <1>5, <2>3
    <3> QED
      BY <1>4, <2>1, <3>1
  <2> QED
    BY <2>2, <2>3
<1>7. Reading(features, seq, wanted, m, g)
  <2>1. g = [i \in 0..m |-> IF i = 0 THEN features ELSE Step(i, g[i - 1])]
    BY <1>5, <1>6
  <2> QED
    BY <1>0, <2>1
<1> QED
  BY <1>1, <1>7

LEMMA PushedIs ==
    ASSUME NEW X, NEW features \in Seq(X), NEW seq, NEW n \in Nat, Len(seq) = n, NEW wanted,
           \A i \in 1..n : seq[i] \in wanted => seq[i] \in X,
           Cap \in Nat, Len(features) <= Cap
    PROVE  LET p == Map!Pushed(features, seq, wanted)
           IN  /\ p \in Seq(X) /\ Len(features) <= Len(p) /\ Len(p) <= Cap
               /\ Map!Range(features) \subseteq Map!Range(p)
               /\ Len(p) = Cap \/ \A i \in 1..n : seq[i] \in wanted => seq[i] \in Map!Range(p)
<1> DEFINE f == CHOOSE f : Reading(features, seq, wanted, n, f)
<1>1. Map!Pushed(features, seq, wanted) = f[n]
  BY DEF Map!Pushed, Reading
<1>2. Reading(features, seq, wanted, n, f)
  BY ReadingExists
<1> HIDE DEF f
<1>3. \A i \in 0..n : f[i] = IF i = 0 THEN features
                             ELSE IF seq[i] \in wanted /\ Len(f[i - 1]) < Cap THEN Append(f[i - 1], seq[i])
                             ELSE f[i - 1]
  BY <1>2 DEF Reading
<1> DEFINE Good(i) ==
             /\ f[i] \in Seq(X) /\ Len(features) <= Len(f[i]) /\ Len(f[i]) <= Cap
             /\ Map!Range(features) \subseteq Map!Range(f[i])
             /\ Len(f[i]) = Cap \/ \A j \in 1..i : seq[j] \in wanted => seq[j] \in Map!Range(f[i])
           wrong == {i \in 0..n : ~ Good(i)}
<1>4. ASSUME wrong # {}
      PROVE  FALSE
  <2>0. wrong \subseteq Nat
    <3> HIDE DEF Good
    <3> QED
      OBVIOUS
  <2>1. PICK i \in wrong : \A l \in wrong : i <= l
    <3> HIDE DEF wrong
    <3> QED
      BY <2>0, <1>4, LeastExists
  <2>2. CASE i = 0
    <3>1. f[0] = features /\ Len(features) \in Nat
      BY <1>3
    <3>2. Good(0)
      BY <3>1
    <3> QED
      BY <2>1, <2>2, <3>2
  <2>3. CASE i # 0
    <3>1. i \in 1..n /\ i - 1 \in 0..n /\ Good(i - 1)
      <4>1. i \in 1..n /\ i - 1 \in 0..n /\ ~ (i <= i - 1)
        BY <2>1, <2>3
      <4> HIDE DEF Good
      <4> QED
        BY <2>1, <4>1
    <3>2. PICK q, p : q = f[i - 1] /\ p = f[i]
      OBVIOUS
    <3>3. /\ q \in Seq(X) /\ Len(features) <= Len(q) /\ Len(q) <= Cap /\ Len(q) \in Nat /\ Len(features) \in Nat
          /\ Map!Range(features) \subseteq Map!Range(q)
          /\ Len(q) = Cap \/ \A j \in 1..(i - 1) : seq[j] \in wanted => seq[j] \in Map!Range(q)
      BY <3>1, <3>2
    <3>4. p = IF seq[i] \in wanted /\ Len(q) < Cap THEN Append(q, seq[i]) ELSE q
      BY <1>3, <2>1, <2>3, <3>2
    <3>5. \A j \in 1..i : j = i \/ j \in 1..(i - 1)
      BY <3>1
    <3>6. CASE seq[i] \in wanted /\ Len(q) < Cap
      <4>1. PICK m : m = seq[i]
        OBVIOUS
      <4>2. m \in X /\ p = Append(q, m)
        BY <3>1, <3>4, <3>6, <4>1
      <4>3. /\ p \in Seq(X) /\ Len(p) = Len(q) + 1
            /\ \A e : e \in Map!Range(p) <=> e \in Map!Range(q) \/ e = m
        BY <3>3, <4>2, PushOne
      <4>4. Len(features) <= Len(p) /\ Len(p) <= Cap
        BY <3>3, <3>6, <4>3
      <4>5. \A j \in 1..i : seq[j] \in wanted => seq[j] \in Map!Range(p)
        BY <3>3, <3>5, <3>6, <4>1, <4>3
      <4>6. Map!Range(features) \subseteq Map!Range(p)
        BY <3>3, <4>3
      <4> QED
        BY <2>1, <3>2, <4>3, <4>4, <4>5, <4>6
    <3>7. CASE ~(seq[i] \in wanted /\ Len(q) < Cap)
      <4>1. p = q
        BY <3>4, <3>7
      <4>2. Len(q) = Cap \/ \A j \in 1..i : seq[j] \in wanted => seq[j] \in Map!Range(q)
        BY <3>3, <3>5, <3>7
      <4> QED
        BY <2>1, <3>2, <3>3, <4>1, <4>2
    <3> QED
      BY <3>6, <3>7
  <2> QED
    BY <2>2, <2>3
<1>5. Good(n)
  BY <1>4
<1> QED
  BY <1>1, <1>5

\* The layers of a view, one after the other, through the same loop.
Viewing(view, n, f) ==
    f = [l \in 0..n |-> IF l = 0 THEN <<>> ELSE Map!Pushed(f[l - 1], Layers[l], Within[view] \ Bare)]

LEMMA ViewingExists ==
    ASSUME NEW view, NEW n \in Nat
    PROVE  \E f : Viewing(view, n, f)
<1> DEFINE Step(i, before) == Map!Pushed(before, Layers[i], Within[view] \ Bare)
           without == {m \in Nat : ~ \E f : Viewing(view, m, f)}
<1>0. \A m, f : Viewing(view, m, f) <=> f = [i \in 0..m |-> IF i = 0 THEN <<>> ELSE Step(i, f[i - 1])]
  BY DEF Viewing
<1> HIDE DEF Step
<1> SUFFICES ASSUME without # {}
             PROVE  FALSE
  OBVIOUS
<1>1. PICK m \in without : \A l \in without : m <= l
  BY LeastExists
<1>2. m # 0
  <2>1. PICK f : f = [i \in 0..0 |-> <<>>]
    OBVIOUS
  <2>2. f = [i \in 0..0 |-> IF i = 0 THEN <<>> ELSE Step(i, f[i - 1])]
    BY <2>1
  <2> QED
    BY <1>0, <1>1, <2>2
<1>3. PICK f : Viewing(view, m - 1, f)
  BY <1>1, <1>2
<1>4. \A i \in 0..(m - 1) : f[i] = IF i = 0 THEN <<>> ELSE Step(i, f[i - 1])
  BY <1>0, <1>3
<1>5. PICK g : g = [i \in 0..m |-> IF i = m THEN Step(m, f[m - 1]) ELSE f[i]]
  OBVIOUS
<1>6. \A i \in 0..m : g[i] = IF i = 0 THEN <<>> ELSE Step(i, g[i - 1])
  <2> SUFFICES ASSUME NEW i \in 0..m
               PROVE  g[i] = IF i = 0 THEN <<>> ELSE Step(i, g[i - 1])
    OBVIOUS
  <2>1. i # 0 => i - 1 \in 0..m /\ g[i - 1] = f[i - 1]
    BY <1>1, <1>5
  <2>2. CASE i = m
    BY <1>2, <1>5, <2>1, <2>2
  <2>3. CASE i # m
    <3>1. i \in 0..(m - 1) /\ g[i] = f[i]
      BY <1>1, <1>5, <2>3
    <3> QED
      BY <1>4, <2>1, <3>1
  <2> QED
    BY <2>2, <2>3
<1>7. Viewing(view, m, g)
  <2>1. g = [i \in 0..m |-> IF i = 0 THEN <<>> ELSE Step(i, g[i - 1])]
    BY <1>5, <1>6
  <2> QED
    BY <1>0, <2>1
<1> QED
  BY <1>1, <1>7

LEMMA LayersAre ==
    ASSUME Map!ConstantsOK
    PROVE  /\ Len(Layers) \in Nat \ {0} /\ DOMAIN Layers = 1..Len(Layers)
           /\ Cap \in Nat \ {0} /\ PageSize \in Nat \ {0} /\ Bare \subseteq Map!Everything
           /\ \A l \in DOMAIN Layers :
                /\ Layers[l] \in Seq(Map!Everything) /\ Len(Layers[l]) \in Nat /\ DOMAIN Layers[l] = 1..Len(Layers[l])
                /\ \A i \in DOMAIN Layers[l] : Layers[l][i] \in Map!Everything
           /\ \A e \in Map!Everything : \E l \in DOMAIN Layers : \E i \in DOMAIN Layers[l] : Layers[l][i] = e
<1>1. Layers \in Seq(Seq(Map!Everything)) /\ Layers # <<>> /\ Cap \in Nat /\ PageSize \in 1..Cap /\ Bare \subseteq Map!Everything
  BY DEF Map!ConstantsOK
<1>2. Len(Layers) \in Nat \ {0} /\ DOMAIN Layers = 1..Len(Layers)
  BY <1>1
<1>3. Cap \in Nat \ {0} /\ PageSize \in Nat \ {0}
  BY <1>1
<1>4. ASSUME NEW l \in DOMAIN Layers
      PROVE  /\ Layers[l] \in Seq(Map!Everything) /\ Len(Layers[l]) \in Nat /\ DOMAIN Layers[l] = 1..Len(Layers[l])
             /\ \A i \in DOMAIN Layers[l] : Layers[l][i] \in Map!Everything
  <2>1. PICK seq, every : seq = Layers[l] /\ every = Map!Everything
    OBVIOUS
  <2>2. seq \in Seq(every)
    BY <1>1, <2>1, AtIn
  <2>3. Len(seq) \in Nat /\ DOMAIN seq = 1..Len(seq) /\ \A i \in DOMAIN seq : seq[i] \in every
    BY <2>2
  <2> QED
    BY <2>1, <2>2, <2>3
<1>5. ASSUME NEW e \in Map!Everything
      PROVE  \E l \in DOMAIN Layers : \E i \in DOMAIN Layers[l] : Layers[l][i] = e
  <2>1. PICK l \in DOMAIN Layers : e \in Map!Range(Layers[l])
    BY DEF Map!Everything
  <2> QED
    BY <2>1, RangeIs
<1> QED
  BY <1>1, <1>2, <1>3, <1>4, <1>5

LEMMA InViewIs ==
    ASSUME Map!ConstantsOK, NEW view
    PROVE  /\ Map!InView(view) \in Seq(Map!Everything \ Bare) /\ Len(Map!InView(view)) <= Cap
           /\ \/ Len(Map!InView(view)) = Cap
              \/ \A k \in DOMAIN Layers : \A i \in DOMAIN Layers[k] :
                   Layers[k][i] \in Within[view] \ Bare => Layers[k][i] \in Map!Range(Map!InView(view))
<1> DEFINE n == Len(Layers)
           f == CHOOSE f : Viewing(view, n, f)
           X == Map!Everything \ Bare
           W == Within[view] \ Bare
<1>0. n \in Nat /\ Cap \in Nat
  BY LayersAre
<1>1. Map!InView(view) = f[n]
  BY DEF Map!InView, Viewing
<1>2. Viewing(view, n, f)
  BY <1>0, ViewingExists
<1> HIDE DEF f
<1>3. \A l \in 0..n : f[l] = IF l = 0 THEN <<>> ELSE Map!Pushed(f[l - 1], Layers[l], Within[view] \ Bare)
  BY <1>2 DEF Viewing
<1> DEFINE Good(l) ==
             /\ f[l] \in Seq(X) /\ Len(f[l]) <= Cap
             /\ \/ Len(f[l]) = Cap
                \/ \A k \in 1..l : \A i \in 1..Len(Layers[k]) : Layers[k][i] \in W => Layers[k][i] \in Map!Range(f[l])
           wrong == {l \in 0..n : ~ Good(l)}
<1>4. ASSUME wrong # {}
      PROVE  FALSE
  <2>0. wrong \subseteq Nat
    <3> HIDE DEF Good, X
    <3> QED
      BY <1>0
  <2>1. PICK l \in wrong : \A k \in wrong : l <= k
    <3> HIDE DEF wrong
    <3> QED
      BY <2>0, <1>4, LeastExists
  <2>2. CASE l = 0
    <3>1. f[0] = <<>>
      BY <1>0, <1>3
    <3>2. f[0] \in Seq(X) /\ Len(f[0]) = 0 /\ 1..0 = {}
      <4> HIDE DEF X
      <4> QED
        BY <3>1
    <3>3. Good(0)
      <4> HIDE DEF X
      <4> QED
        BY <1>0, <3>2
    <3> QED
      BY <2>1, <2>2, <3>3
  <2>3. CASE l # 0
    <3>1. l \in 1..n /\ l \in DOMAIN Layers /\ Good(l - 1)
      <4>1. l \in 1..n /\ l - 1 \in 0..n /\ ~ (l <= l - 1)
        BY <1>0, <2>1, <2>3
      <4> HIDE DEF Good
      <4> QED
        BY <2>1, <4>1, LayersAre
    <3>2. PICK q, layer : q = f[l - 1] /\ layer = Layers[l]
      OBVIOUS
    <3>3. /\ Len(layer) \in Nat
          /\ \A i \in 1..Len(layer) : layer[i] \in Within[view] \ Bare => layer[i] \in X
      BY <3>1, <3>2, LayersAre
    <3>4. /\ q \in Seq(X) /\ Len(q) <= Cap /\ Len(q) \in Nat
          /\ \/ Len(q) = Cap
             \/ \A k \in 1..(l - 1) : \A i \in 1..Len(Layers[k]) : Layers[k][i] \in W => Layers[k][i] \in Map!Range(q)
      BY <3>1, <3>2
    <3>5. PICK p : p = Map!Pushed(q, layer, W) /\ p = f[l]
      BY <1>3, <2>1, <2>3, <3>2
    <3>6. /\ p \in Seq(X) /\ Len(q) <= Len(p) /\ Len(p) <= Cap /\ Len(p) \in Nat
          /\ Map!Range(q) \subseteq Map!Range(p)
          /\ Len(p) = Cap \/ \A i \in 1..Len(layer) : layer[i] \in W => layer[i] \in Map!Range(p)
      <4> HIDE DEF X, W
      <4>1. \A i \in 1..Len(layer) : layer[i] \in W => layer[i] \in X
        BY <3>3 DEF W
      <4>2. PICK m \in Nat : m = Len(layer)
        BY <3>3
      <4>3. /\ Map!Pushed(q, layer, W) \in Seq(X) /\ Len(q) <= Len(Map!Pushed(q, layer, W))
            /\ Len(Map!Pushed(q, layer, W)) <= Cap
            /\ Map!Range(q) \subseteq Map!Range(Map!Pushed(q, layer, W))
            /\ \/ Len(Map!Pushed(q, layer, W)) = Cap
               \/ \A i \in 1..m : layer[i] \in W => layer[i] \in Map!Range(Map!Pushed(q, layer, W))
        <5>1. \A i \in 1..m : layer[i] \in W => layer[i] \in X
          BY <4>1, <4>2
        <5>2. q \in Seq(X) /\ Len(q) <= Cap /\ Len(layer) = m /\ Cap \in Nat
          BY <1>0, <3>4, <4>2
        <5> QED
          BY ONLY <4>2, <5>1, <5>2, PushedIs, Zenon
      <4> QED
        BY ONLY <3>5, <4>2, <4>3, LenProperties
    <3>7. ASSUME Len(p) # Cap
          PROVE  \A k \in 1..l : \A i \in 1..Len(Layers[k]) : Layers[k][i] \in W => Layers[k][i] \in Map!Range(p)
      <4> HIDE DEF X, W
      <4>1. Len(q) # Cap
        BY <1>0, <3>4, <3>6, <3>7
      <4>2. \A k \in 1..l : k = l \/ k \in 1..(l - 1)
        BY <3>1
      <4>3. \A k \in 1..(l - 1) : \A i \in 1..Len(Layers[k]) : Layers[k][i] \in W => Layers[k][i] \in Map!Range(p)
        BY <3>4, <3>6, <4>1
      <4>4. \A i \in 1..Len(Layers[l]) : Layers[l][i] \in W => Layers[l][i] \in Map!Range(p)
        BY <3>2, <3>6, <3>7
      <4> QED
        BY <4>2, <4>3, <4>4
    <3>8. Good(l)
      <4> HIDE DEF X, W
      <4> QED
        BY <3>5, <3>6, <3>7
    <3> QED
      BY <2>1, <3>8
  <2> QED
    BY <2>2, <2>3
<1>5. Good(n)
  <2> HIDE DEF Good
  <2> QED
    BY <1>0, <1>4
<1>6. DOMAIN Layers = 1..n /\ \A k \in DOMAIN Layers : DOMAIN Layers[k] = 1..Len(Layers[k])
  BY LayersAre
<1> QED
  <2>1. PICK p : p = f[n] /\ p = Map!InView(view)
    BY <1>1
  <2>2. /\ p \in Seq(X) /\ Len(p) <= Cap
        /\ \/ Len(p) = Cap
           \/ \A k \in 1..n : \A i \in 1..Len(Layers[k]) : Layers[k][i] \in W => Layers[k][i] \in Map!Range(p)
    <3> HIDE DEF X, W, n
    <3> QED
      BY <1>5, <2>1
  <2>3. \/ Len(p) = Cap
        \/ \A k \in DOMAIN Layers : \A i \in DOMAIN Layers[k] : Layers[k][i] \in W => Layers[k][i] \in Map!Range(p)
    <3> HIDE DEF X, W, n
    <3> QED
      BY ONLY <1>6, <2>2
  <2> QED
    BY ONLY <2>1, <2>2, <2>3

\* The features of one page of a layer: those from the first asked for, as many as a page holds.
Piece(layer, first, many) ==
    SubSeq(layer, first, IF first + many <= Len(layer) THEN first + many - 1 ELSE Len(layer))

HoldsPiece(piece, layer, first, many, length) ==
    /\ Len(piece) = length
    /\ \A i \in 1..length : first + i - 1 \in 1..Len(layer) /\ piece[i] = layer[first + i - 1]
    /\ \A i \in 1..Len(layer) : first <= i /\ i < first + many => i - first + 1 \in 1..length

LEMMA PieceIs ==
    ASSUME NEW S, NEW layer \in Seq(S), NEW first \in Nat \ {0}, NEW many \in Nat \ {0},
           NEW piece, piece = Piece(layer, first, many)
    PROVE  \E length \in Nat : HoldsPiece(piece, layer, first, many, length)
<1>1. PICK len \in Nat : len = Len(layer)
  OBVIOUS
<1>2. PICK n : n = IF first + many <= len THEN first + many - 1 ELSE len
  OBVIOUS
<1>3. n \in Nat /\ n <= len /\ (first + many <= len => n = first + many - 1) /\ (len < first + many => n = len)
  BY <1>1, <1>2
<1>4. PICK length \in Nat : length = IF first <= n THEN n - first + 1 ELSE 0
  <2>1. (IF first <= n THEN n - first + 1 ELSE 0) \in Nat
    BY <1>3
  <2> QED
    BY <2>1
<1>5. piece = SubSeq(layer, first, n)
  BY <1>1, <1>2 DEF Piece
<1>6. first \in Int /\ n \in Int /\ \A i \in first..n : layer[i] \in S
  BY <1>1, <1>3
<1>7. Len(piece) = length /\ \A i \in 1..(n - first + 1) : piece[i] = layer[first + i - 1]
  BY <1>4, <1>5, <1>6, SubSeqProperties
<1>8. ASSUME NEW i \in 1..length
      PROVE  i \in 1..(n - first + 1) /\ first + i - 1 \in 1..len
  BY <1>1, <1>3, <1>4
<1>9. ASSUME NEW i \in 1..len, first <= i, i < first + many
      PROVE  i - first + 1 \in 1..length
  <2>1. i <= n
    BY <1>1, <1>3, <1>9
  <2> QED
    BY <1>3, <1>4, <1>9, <2>1
<1> QED
  BY <1>1, <1>7, <1>8, <1>9 DEF HoldsPiece

\* What a page adds to what was read.
Brings(got, few, lay, first) ==
    /\ few \in Seq(Map!Everything \ Bare) /\ Len(got) <= Len(few) /\ Len(few) <= Cap
    /\ Map!Range(got) \subseteq Map!Range(few)
    /\ \/ Len(few) = Cap
       \/ \A i \in DOMAIN Layers[lay] : first <= i /\ i < first + PageSize => Layers[lay][i] \in Bare \cup Map!Range(few)

LEMMA PageBrings ==
    ASSUME Map!ConstantsOK, NEW lay \in DOMAIN Layers, NEW first \in Nat \ {0},
           NEW got \in Seq(Map!Everything \ Bare), Len(got) <= Cap, NEW few,
           few = Map!Pushed(got, Piece(Layers[lay], first, PageSize), Map!Everything \ Bare)
    PROVE  Brings(got, few, lay, first)
<1> DEFINE X == Map!Everything \ Bare
<1>1. PICK layer, piece : layer = Layers[lay] /\ piece = Piece(Layers[lay], first, PageSize)
  OBVIOUS
<1>2. /\ layer \in Seq(Map!Everything) /\ DOMAIN layer = 1..Len(layer) /\ PageSize \in Nat \ {0} /\ Cap \in Nat
      /\ \A i \in DOMAIN layer : layer[i] \in Map!Everything
  BY <1>1, LayersAre
<1>3. piece = Piece(layer, first, PageSize)
  BY <1>1
<1>4. PICK length \in Nat :
        /\ Len(piece) = length
        /\ \A i \in 1..length : first + i - 1 \in 1..Len(layer) /\ piece[i] = layer[first + i - 1]
        /\ \A i \in 1..Len(layer) : first <= i /\ i < first + PageSize => i - first + 1 \in 1..length
  <2>1. PICK length \in Nat : HoldsPiece(piece, layer, first, PageSize, length)
    BY <1>2, <1>3, PieceIs
  <2> QED
    BY <2>1 DEF HoldsPiece
<1>5. few = Map!Pushed(got, piece, X)
  BY <1>1
<1>6. /\ few \in Seq(X) /\ Len(got) <= Len(few) /\ Len(few) <= Cap
      /\ Map!Range(got) \subseteq Map!Range(few)
      /\ Len(few) = Cap \/ \A i \in 1..length : piece[i] \in X => piece[i] \in Map!Range(few)
  <2>1. got \in Seq(X) /\ Len(got) <= Cap /\ Cap \in Nat
    BY <1>2
  <2>2. \A i \in 1..length : piece[i] \in X => piece[i] \in X
    OBVIOUS
  <2>3. Len(piece) = length /\ length \in Nat
    BY <1>4
  <2> HIDE DEF X
  <2>4. LET p == Map!Pushed(got, piece, X)
        IN  /\ p \in Seq(X) /\ Len(got) <= Len(p) /\ Len(p) <= Cap
            /\ Map!Range(got) \subseteq Map!Range(p)
            /\ Len(p) = Cap \/ \A i \in 1..length : piece[i] \in X => piece[i] \in Map!Range(p)
    BY <2>1, <2>2, <2>3, PushedIs, ZenonT(60)
  <2> QED
    BY <1>5, <2>4
<1>7. ASSUME Len(few) # Cap, NEW i \in DOMAIN layer, first <= i, i < first + PageSize
      PROVE  layer[i] \in Bare \cup Map!Range(few)
  <2>1. PICK j : j = i - first + 1
    OBVIOUS
  <2>2. j \in 1..length /\ first + j - 1 = i
    BY <1>2, <1>4, <1>7, <2>1
  <2>3. piece[j] = layer[i]
    BY <1>4, <2>2
  <2> QED
    BY <1>2, <1>6, <1>7, <2>2, <2>3
<1> QED
  BY <1>1, <1>6, <1>7 DEF Brings

\* A page read, case by case: past Cap on the first page its tilesets are waited for, or end the
\* read; so does the cap; else the next page of the layer is next, or the next layer.
PageRead(few, many, more) ==
    /\ all.phase = "paging"
    /\ latest' = [features |-> few, matched |-> many]
    /\ few = Map!Pushed(latest.features, Piece(Layers[all.layer], all.from, PageSize), Map!Everything \ Bare)
    /\ more = (all.from + PageSize <= Len(Layers[all.layer]))
    /\ many = latest.matched + IF all.first THEN Len(Layers[all.layer]) ELSE 0
    /\ \/ (all.layer = 1 /\ all.first /\ many > Cap) /\ ~tilesets.known /\ all' = [all EXCEPT !.phase = "enough"]
       \/ /\ \/ (all.layer = 1 /\ all.first /\ many > Cap) /\ tilesets.every
             \/ Len(few) >= Cap
             \/ ~more /\ all.layer = Len(Layers)
          /\ all' = [all EXCEPT !.phase = "done"]
       \/ more /\ all' = [all EXCEPT !.from = all.from + PageSize, !.first = FALSE]
       \/ ~more /\ all.layer # Len(Layers) /\ all' = [all EXCEPT !.layer = all.layer + 1, !.from = 1, !.first = TRUE]
    /\ (stage = "paging" /\ drawn' = few /\ capped' = (Len(few) >= Cap)) \/ (stage # "paging" /\ UNCHANGED <<drawn, capped>>)
    /\ UNCHANGED <<tilesets, stage, tiled, state, note, seen, lastView, asked, loads, feature, marked, wholes>>

LEMMA PageReads ==
    ASSUME Map!Page
    PROVE  \E few, many, more : PageRead(few, many, more)
<1>1. PICK few, many, more :
        /\ few = Map!Pushed(latest.features, Piece(Layers[all.layer], all.from, PageSize), Map!Everything \ Bare)
        /\ more = (all.from + PageSize <= Len(Layers[all.layer]))
        /\ many = latest.matched + IF all.first THEN Len(Layers[all.layer]) ELSE 0
  OBVIOUS
<1>2. /\ all.phase = "paging"
      /\ latest' = [features |-> few, matched |-> many]
  BY <1>1 DEF Map!Page, Piece
<1>3. all' = IF (all.layer = 1 /\ all.first /\ many > Cap) /\ ~tilesets.known THEN [all EXCEPT !.phase = "enough"]
             ELSE IF ((all.layer = 1 /\ all.first /\ many > Cap) /\ tilesets.every)
                     \/ Len(few) >= Cap \/ (~more /\ all.layer = Len(Layers))
             THEN [all EXCEPT !.phase = "done"]
             ELSE IF more THEN [all EXCEPT !.from = all.from + PageSize, !.first = FALSE]
             ELSE [all EXCEPT !.layer = all.layer + 1, !.from = 1, !.first = TRUE]
  BY <1>1 DEF Map!Page, Piece
<1>4. IF stage = "paging" THEN drawn' = few /\ capped' = (Len(few) >= Cap) ELSE UNCHANGED <<drawn, capped>>
  BY <1>1 DEF Map!Page, Piece, Map!Put
<1>5. UNCHANGED <<tilesets, stage, tiled, state, note, seen, lastView, asked, loads, feature, marked, wholes>>
  BY DEF Map!Page, Map!moves, Map!opened
<1> HIDE DEF Piece
<1>6. PageRead(few, many, more)
  BY <1>1, <1>2, <1>3, <1>4, <1>5 DEF PageRead
<1> QED
  BY <1>6

\* What the first read has brought, as it stands after the step, up to a place of a layer.
NowRead(lay, first) ==
  \A l \in DOMAIN Layers : \A i \in DOMAIN Layers[l] :
    l < lay \/ (l = lay /\ i < first) => Layers[l][i] \in Bare \cup Map!Range(latest'.features)

\* A record of the first read, and each change of it.
LEMMA ReadingMoves ==
    ASSUME Map!Types
    PROVE  /\ all = [phase |-> all.phase, layer |-> all.layer, from |-> all.from, first |-> all.first]
           /\ all.layer \in DOMAIN Layers /\ all.from \in Nat \ {0} /\ all.first \in BOOLEAN
           /\ \A p : [all EXCEPT !.phase = p] = [phase |-> p, layer |-> all.layer, from |-> all.from, first |-> all.first]
           /\ [all EXCEPT !.from = all.from + PageSize, !.first = FALSE] =
                [phase |-> all.phase, layer |-> all.layer, from |-> all.from + PageSize, first |-> FALSE]
           /\ [all EXCEPT !.phase = "paging", !.from = all.from + PageSize, !.first = FALSE] =
                [phase |-> "paging", layer |-> all.layer, from |-> all.from + PageSize, first |-> FALSE]
           /\ [all EXCEPT !.layer = all.layer + 1, !.from = 1, !.first = TRUE] =
                [phase |-> all.phase, layer |-> all.layer + 1, from |-> 1, first |-> TRUE]
<1>1. all \in [phase : {"paging", "enough", "done", "failed"}, layer : DOMAIN Layers, from : Nat \ {0}, first : BOOLEAN]
  BY DEF Map!Types, Map!TypeOK
<1>2. PICK p, l, i, f : all = [phase |-> p, layer |-> l, from |-> i, first |-> f] /\ l \in DOMAIN Layers /\ i \in Nat \ {0} /\ f \in BOOLEAN
  BY <1>1
<1>3. all.phase = p /\ all.layer = l /\ all.from = i /\ all.first = f
  BY <1>2
<1>4. PICK next, more : next = all.layer + 1 /\ more = all.from + PageSize
  OBVIOUS
<1>5. \A w : [all EXCEPT !.phase = w] = [phase |-> w, layer |-> l, from |-> i, first |-> f]
  BY <1>2
<1>6. PICK one, two : one = [all EXCEPT !.from = more] /\ two = [all EXCEPT !.phase = "paging"]
  OBVIOUS
<1>7a. PICK three : three = [two EXCEPT !.from = more]
  OBVIOUS
<1>7b. PICK four : four = [all EXCEPT !.layer = next]
  OBVIOUS
<1>7c. PICK five : five = [four EXCEPT !.from = 1]
  OBVIOUS
<1>8a. one = [phase |-> p, layer |-> l, from |-> more, first |-> f] /\ two = [phase |-> "paging", layer |-> l, from |-> i, first |-> f]
  BY <1>2, <1>6
<1>8b. four = [phase |-> p, layer |-> next, from |-> i, first |-> f]
  BY <1>2, <1>7b
<1>9a. three = [phase |-> "paging", layer |-> l, from |-> more, first |-> f]
  BY <1>7a, <1>8a
<1>9b. five = [phase |-> p, layer |-> next, from |-> 1, first |-> f]
  BY <1>7c, <1>8b
<1>10. PICK no, yes : no = FALSE /\ yes = TRUE
  OBVIOUS
<1>10a. [one EXCEPT !.first = no] = [phase |-> p, layer |-> l, from |-> more, first |-> no]
  BY <1>8a
<1>10b. [three EXCEPT !.first = no] = [phase |-> "paging", layer |-> l, from |-> more, first |-> no]
  BY <1>9a
<1>10c. [five EXCEPT !.first = yes] = [phase |-> p, layer |-> next, from |-> 1, first |-> yes]
  BY <1>9b
<1>11. /\ [all EXCEPT !.from = more, !.first = no] = [one EXCEPT !.first = no]
       /\ [all EXCEPT !.phase = "paging", !.from = more, !.first = no] = [three EXCEPT !.first = no]
       /\ [all EXCEPT !.layer = next, !.from = 1, !.first = yes] = [five EXCEPT !.first = yes]
  BY <1>6, <1>7a, <1>7b, <1>7c
<1>12. /\ [all EXCEPT !.from = more, !.first = FALSE] = [phase |-> p, layer |-> l, from |-> more, first |-> FALSE]
       /\ [all EXCEPT !.phase = "paging", !.from = more, !.first = FALSE] = [phase |-> "paging", layer |-> l, from |-> more, first |-> FALSE]
       /\ [all EXCEPT !.layer = next, !.from = 1, !.first = TRUE] = [phase |-> p, layer |-> next, from |-> 1, first |-> TRUE]
  BY <1>10a, <1>10b, <1>10c, <1>11, <1>10
<1> QED
  BY <1>2, <1>3, <1>4, <1>5, <1>12

\* What is known of the first read before a step.
LEMMA ReadingIs ==
    ASSUME Map!ConstantsOK, Map!Types, Map!Progress
    PROVE  /\ latest.features \in Seq(Map!Everything \ Bare) /\ latest.matched \in Nat
           /\ Len(latest.features) \in Nat /\ Len(latest.features) <= Cap
           /\ drawn \in Seq(Map!Everything \ Bare) /\ capped \in BOOLEAN
           /\ tilesets \in [known : BOOLEAN, every : BOOLEAN]
           /\ all.phase = "paging" => Map!Full \/ Map!ReadUpTo(all.layer, all.from)
<1>1. latest.features \in Seq(Map!Everything \ Bare)
  BY DEF Map!Types, Map!TypeOK
<1>2. PICK q, X : q = latest.features /\ X = Map!Everything \ Bare
  OBVIOUS
<1>3. q \in Seq(X)
  BY <1>1, <1>2
<1>4. Len(q) \in Nat
  BY <1>3
<1> QED
  BY <1>2, <1>4 DEF Map!Types, Map!TypeOK, Map!Progress

\* A page keeps the types.
LEMMA PageTypes ==
    ASSUME Map!ConstantsOK, Map!Types, Map!Progress, NEW few, NEW many, NEW more, PageRead(few, many, more)
    PROVE  /\ Map!Types' /\ Len(few) \in Nat /\ Len(few) <= Cap
           /\ latest'.features = few /\ latest'.matched = many
<1>1. latest' = [features |-> few, matched |-> many]
  BY DEF PageRead
<1>2. latest'.features = few /\ latest'.matched = many
  BY <1>1
<1>3. PICK X : X = Map!Everything \ Bare
  OBVIOUS
<1>4. few \in Seq(X) /\ Len(few) <= Cap
  <2>1. all.layer \in DOMAIN Layers /\ all.from \in Nat \ {0}
    BY ReadingMoves
  <2>2. PICK lay, first, got : lay = all.layer /\ first = all.from /\ got = latest.features
    OBVIOUS
  <2>3. lay \in DOMAIN Layers /\ first \in Nat \ {0} /\ got \in Seq(Map!Everything \ Bare) /\ Len(got) <= Cap
    BY <2>1, <2>2, ReadingIs
  <2>4. few = Map!Pushed(got, Piece(Layers[lay], first, PageSize), Map!Everything \ Bare)
    BY <2>2 DEF PageRead
  <2>5. few \in Seq(Map!Everything \ Bare) /\ Len(few) <= Cap
    BY <2>3, <2>4, PageBrings DEF Brings
  <2> QED
    BY <1>3, <2>5
<1>5. Len(few) \in Nat
  BY <1>4
<1>6. many \in Nat
  <2>1. PICK k : k = IF all.first THEN Len(Layers[all.layer]) ELSE 0
    OBVIOUS
  <2>2. k \in Nat
    BY <2>1, ReadingMoves, LayersAre
  <2>3. latest.matched \in Nat /\ many = latest.matched + k
    BY <2>1, ReadingIs DEF PageRead
  <2> QED
    BY <2>2, <2>3
<1>7. drawn' \in Seq(X) /\ capped' \in BOOLEAN
  <2>1. (drawn' = few /\ capped' = (Len(few) >= Cap)) \/ UNCHANGED <<drawn, capped>>
    BY DEF PageRead
  <2>2. drawn \in Seq(X) /\ capped \in BOOLEAN
    BY <1>3, ReadingIs
  <2>3. CASE drawn' = few /\ capped' = (Len(few) >= Cap)
    BY <1>4, <2>3
  <2>4. CASE UNCHANGED <<drawn, capped>>
    BY <2>2, <2>4
  <2> QED
    BY <2>1, <2>3, <2>4
<1>8. all' \in [phase : {"paging", "enough", "done", "failed"}, layer : DOMAIN Layers, from : Nat \ {0}, first : BOOLEAN]
  <2>1. PICK p, l, i, f : p = all.phase /\ l = all.layer /\ i = all.from /\ f = all.first
    OBVIOUS
  <2>2. /\ p = "paging" /\ l \in DOMAIN Layers /\ i \in Nat \ {0} /\ f \in BOOLEAN
        /\ DOMAIN Layers = 1..Len(Layers) /\ Len(Layers) \in Nat /\ PageSize \in Nat \ {0}
    BY <2>1, ReadingMoves, LayersAre DEF PageRead
  <2>3. i + PageSize \in Nat \ {0} /\ (l # Len(Layers) => l + 1 \in DOMAIN Layers)
    BY <2>2
  <2>4. \/ \E w \in {"enough", "done"} : all' = [phase |-> w, layer |-> l, from |-> i, first |-> f]
        \/ all' = [phase |-> p, layer |-> l, from |-> i + PageSize, first |-> FALSE]
        \/ l # Len(Layers) /\ all' = [phase |-> p, layer |-> l + 1, from |-> 1, first |-> TRUE]
    BY <2>1, ReadingMoves DEF PageRead
  <2>5. PICK to, next : to = i + PageSize /\ next = l + 1
    OBVIOUS
  <2>6. CASE \E w \in {"enough", "done"} : all' = [phase |-> w, layer |-> l, from |-> i, first |-> f]
    BY <2>2, <2>6
  <2>7. CASE all' = [phase |-> p, layer |-> l, from |-> to, first |-> FALSE]
    BY <2>2, <2>3, <2>5, <2>7
  <2>8. CASE l # Len(Layers) /\ all' = [phase |-> p, layer |-> next, from |-> 1, first |-> TRUE]
    BY <2>2, <2>3, <2>5, <2>8
  <2> QED
    BY <2>4, <2>5, <2>6, <2>7, <2>8
<1>9. UNCHANGED <<tilesets, stage, tiled, state, note, seen, lastView, asked, loads, feature, marked, wholes>>
  BY DEF PageRead
<1>10. Map!TypeOK'
  <2>1. latest'.features \in Seq(Map!Everything \ Bare) /\ drawn' \in Seq(Map!Everything \ Bare)
    BY <1>2, <1>3, <1>4, <1>7
  <2>2. /\ tilesets \in [known : BOOLEAN, every : BOOLEAN] /\ tiled \in BOOLEAN
        /\ stage \in {"library", "nothing", "map", "paging", "live", "stopped", "dead"}
        /\ state \in {"loading", "ready", "failed", "empty"} /\ note \in {"loading", "failed", "empty", "cap", ""}
        /\ seen \in Views \cup {Map!NoView} /\ lastView \in Views \cup {Map!NoView}
        /\ asked \in Nat /\ loads \subseteq [n : 1..asked, view : Views]
        /\ feature \in Map!Everything \cup {Map!NoFeature} /\ marked \subseteq Map!Everything /\ wholes \subseteq Map!Everything
    BY DEF Map!Types, Map!TypeOK
  <2>3. /\ tilesets' \in [known : BOOLEAN, every : BOOLEAN] /\ tiled' \in BOOLEAN
        /\ stage' \in {"library", "nothing", "map", "paging", "live", "stopped", "dead"}
        /\ state' \in {"loading", "ready", "failed", "empty"} /\ note' \in {"loading", "failed", "empty", "cap", ""}
    BY <1>9, <2>2
  <2>4. seen' \in Views \cup {Map!NoView} /\ lastView' \in Views \cup {Map!NoView}
    BY <1>9, <2>2
  <2>5. asked' \in Nat /\ loads' \subseteq [n : 1..asked', view : Views]
    BY <1>9, <2>2, Zenon
  <2>6. feature' \in Map!Everything \cup {Map!NoFeature} /\ marked' \subseteq Map!Everything /\ wholes' \subseteq Map!Everything
    BY <1>9, <2>2
  <2> QED
    BY <1>2, <1>6, <1>7, <1>8, <2>1, <2>3, <2>4, <2>5, <2>6 DEF Map!TypeOK
<1>11. latest' = [features |-> latest'.features, matched |-> latest'.matched]
  BY <1>1, <1>2
<1> QED
  BY <1>2, <1>4, <1>5, <1>10, <1>11 DEF Map!Types

LEMMA PlacesAre ==
    ASSUME Map!ConstantsOK, NEW l \in DOMAIN Layers
    PROVE  l \in Nat \ {0} /\ \A i \in DOMAIN Layers[l] : i \in Nat \ {0}
<1>1. PICK len, many : len = Len(Layers[l]) /\ many = Len(Layers)
  OBVIOUS
<1>2. len \in Nat /\ DOMAIN Layers[l] = 1..len /\ many \in Nat /\ DOMAIN Layers = 1..many
  BY <1>1, LayersAre
<1> QED
  BY <1>2

\* What was read stays, and what the page has is there as far as the cap lets it.
LEMMA PageReadsOn ==
    ASSUME Map!ConstantsOK, Map!Types, Map!Progress, NEW few, NEW many, NEW more, PageRead(few, many, more),
           NEW lay, lay = all.layer, NEW first, first = all.from
    PROVE  Len(few) = Cap \/ NowRead(lay, first + PageSize)
<1>1. lay \in DOMAIN Layers /\ first \in Nat \ {0}
  BY ReadingMoves
<1>2. PICK got : got = latest.features
  OBVIOUS
<1>3. got \in Seq(Map!Everything \ Bare) /\ Len(got) <= Cap
  BY <1>2, ReadingIs
<1>4. few = Map!Pushed(got, Piece(Layers[lay], first, PageSize), Map!Everything \ Bare)
  BY <1>2 DEF PageRead
<1>5. /\ Len(got) <= Len(few) /\ Len(few) <= Cap /\ Map!Range(got) \subseteq Map!Range(few)
      /\ \/ Len(few) = Cap
         \/ \A i \in DOMAIN Layers[lay] : first <= i /\ i < first + PageSize => Layers[lay][i] \in Bare \cup Map!Range(few)
  <2>1. Brings(got, few, lay, first)
    BY <1>1, <1>3, <1>4, PageBrings
  <2> QED
    BY <2>1 DEF Brings
<1>6. Len(got) \in Nat /\ Len(few) \in Nat /\ Cap \in Nat \ {0} /\ latest'.features = few
  BY <1>2, ReadingIs, PageTypes, LayersAre
<1>7. ASSUME Len(few) # Cap
      PROVE  NowRead(lay, first + PageSize)
  <2>1. ~Map!Full
    BY <1>2, <1>5, <1>6, <1>7 DEF Map!Full
  <2>2. Map!ReadUpTo(lay, first)
    BY <2>1, ReadingIs DEF PageRead
  <2>3. ASSUME NEW l \in DOMAIN Layers, NEW i \in DOMAIN Layers[l], l < lay \/ (l = lay /\ i < first + PageSize)
        PROVE  Layers[l][i] \in Bare \cup Map!Range(few)
    <3>1. CASE l < lay \/ (l = lay /\ i < first)
      <4>1. Layers[l][i] \in Bare \cup Map!Range(got)
        BY <1>2, <2>2, <3>1 DEF Map!ReadUpTo
      <4> QED
        BY <1>5, <4>1
    <3>2. CASE l = lay /\ ~(i < first) /\ i < first + PageSize
      <4>1. i \in Nat /\ first \in Nat
        BY <1>1, PlacesAre
      <4>2. first <= i /\ i < first + PageSize
        BY <3>2, <4>1
      <4> QED
        BY <1>5, <1>7, <3>2, <4>2
    <3> QED
      BY <2>3, <3>1, <3>2
  <2> QED
    BY <1>6, <2>3 DEF NowRead
<1> QED
  BY <1>7

\* Where the read stands after a page.
LEMMA PageProgress ==
    ASSUME Map!ConstantsOK, Map!Types, Map!Progress, NEW few, NEW many, NEW more, PageRead(few, many, more)
    PROVE  Map!Progress'
<1>1. PICK lay, first, one : lay = all.layer /\ first = all.from /\ one = all.first
  OBVIOUS
<1>2. /\ latest'.features = few /\ latest'.matched = many /\ Len(few) \in Nat /\ Len(few) <= Cap
      /\ Cap \in Nat \ {0} /\ PageSize \in Nat \ {0} /\ tilesets' = tilesets
  <2>1. latest'.features = few /\ latest'.matched = many /\ Len(few) \in Nat /\ Len(few) <= Cap
    BY PageTypes
  <2>2. tilesets' = tilesets
    BY DEF PageRead
  <2> QED
    BY <2>1, <2>2, LayersAre
<1>3. Len(few) = Cap \/ NowRead(lay, first + PageSize)
  BY <1>1, PageReadsOn
<1>4. Map!Full' <=> Len(few) = Cap
  BY <1>2 DEF Map!Full
<1>5. Len(few) >= Cap => Len(few) = Cap
  BY <1>2
<1>6. /\ lay \in DOMAIN Layers /\ first \in Nat \ {0} /\ DOMAIN Layers = 1..Len(Layers) /\ Len(Layers) \in Nat
      /\ Len(Layers[lay]) \in Nat /\ DOMAIN Layers[lay] = 1..Len(Layers[lay])
  BY <1>1, ReadingMoves, LayersAre
<1>7. ~more => \A i \in DOMAIN Layers[lay] : i < first + PageSize
  <2>1. PICK len : len = Len(Layers[lay])
    OBVIOUS
  <2>2. more = (first + PageSize <= len)
    BY <1>1, <2>1 DEF PageRead
  <2>3. ASSUME ~more, NEW i \in 1..len
        PROVE  i < first + PageSize
    <3>1. ~(first + PageSize <= len)
      BY <2>2, <2>3
    <3>2. first \in Nat /\ PageSize \in Nat /\ len \in Nat
      BY <1>2, <1>6, <2>1
    <3> QED
      BY <2>3, <3>1, <3>2
  <2> QED
    BY <1>6, <2>1, <2>3
<1>8. Len(latest'.features) <= Cap
  BY <1>2
<1>9. \/ (lay = 1 /\ one /\ many > Cap) /\ all' = [phase |-> "enough", layer |-> lay, from |-> first, first |-> one]
      \/ /\ \/ (lay = 1 /\ one /\ many > Cap) /\ tilesets.every
            \/ Len(few) >= Cap
            \/ ~more /\ lay = Len(Layers)
         /\ all' = [phase |-> "done", layer |-> lay, from |-> first, first |-> one]
      \/ more /\ all' = [phase |-> "paging", layer |-> lay, from |-> first + PageSize, first |-> FALSE]
      \/ ~more /\ all' = [phase |-> "paging", layer |-> lay + 1, from |-> 1, first |-> TRUE]
  BY <1>1, ReadingMoves DEF PageRead
<1>10. CASE (lay = 1 /\ one /\ many > Cap) /\ all' = [phase |-> "enough", layer |-> lay, from |-> first, first |-> one]
  <2>1. all'.phase = "enough" /\ all'.layer = lay /\ all'.from = first /\ all'.first = one
    BY <1>10
  <2>2. Map!FirstOver'
    BY <1>2, <1>10, <2>1 DEF Map!FirstOver
  <2>3. NowRead(lay, first + PageSize) => Map!ReadUpTo(all.layer, all.from + PageSize)'
    BY <2>1 DEF NowRead, Map!ReadUpTo
  <2> QED
    BY <1>3, <1>4, <1>8, <2>1, <2>2, <2>3 DEF Map!Progress
<1>11. CASE /\ \/ (lay = 1 /\ one /\ many > Cap) /\ tilesets.every
               \/ Len(few) >= Cap
               \/ ~more /\ lay = Len(Layers)
            /\ all' = [phase |-> "done", layer |-> lay, from |-> first, first |-> one]
  <2>1. all'.phase = "done" /\ all'.layer = lay /\ all'.first = one
    BY <1>11
  <2>2. CASE (lay = 1 /\ one /\ many > Cap) /\ tilesets.every
    <3>1. Map!FirstOver' /\ tilesets'.every
      BY <1>2, <2>1, <2>2 DEF Map!FirstOver
    <3> QED
      BY <1>8, <2>1, <3>1 DEF Map!Progress
  <2>3. CASE Len(few) >= Cap
    BY <1>4, <1>5, <1>8, <2>1, <2>3 DEF Map!Progress
  <2>4. CASE ~more /\ lay = Len(Layers) /\ Len(few) # Cap
    <3>1. ASSUME NEW e \in Map!Everything \ Bare
          PROVE  e \in Map!Range(few)
      <4>1. PICK l \in DOMAIN Layers : \E i \in DOMAIN Layers[l] : Layers[l][i] = e
        BY LayersAre
      <4>2. PICK i \in DOMAIN Layers[l] : Layers[l][i] = e
        BY <4>1
      <4>3. l < lay \/ l = lay
        BY <1>6, <2>4
      <4>4. l < lay \/ (l = lay /\ i < first + PageSize)
        BY <1>7, <2>4, <4>3
      <4> QED
        BY <1>2, <1>3, <2>4, <4>2, <4>4 DEF NowRead
    <3> QED
      BY <1>2, <1>8, <2>1, <3>1 DEF Map!Progress
  <2> QED
    BY <1>5, <1>11, <2>2, <2>3, <2>4
<1>12. CASE more /\ all' = [phase |-> "paging", layer |-> lay, from |-> first + PageSize, first |-> FALSE]
  <2>1. all'.phase = "paging" /\ all'.layer = lay /\ all'.from = first + PageSize
    BY <1>12
  <2>2. NowRead(lay, first + PageSize) => Map!ReadUpTo(all.layer, all.from)'
    BY <2>1 DEF NowRead, Map!ReadUpTo
  <2> QED
    BY <1>3, <1>4, <1>8, <2>1, <2>2 DEF Map!Progress
<1>13. CASE ~more /\ all' = [phase |-> "paging", layer |-> lay + 1, from |-> 1, first |-> TRUE]
  <2>1. all'.phase = "paging" /\ all'.layer = lay + 1 /\ all'.from = 1
    BY <1>13
  <2>2. ASSUME NowRead(lay, first + PageSize), NEW l \in DOMAIN Layers, NEW i \in DOMAIN Layers[l], l < lay + 1 \/ (l = lay + 1 /\ i < 1)
        PROVE  Layers[l][i] \in Bare \cup Map!Range(latest'.features)
    <3>1. i \in Nat \ {0} /\ l \in Nat /\ lay \in Nat
      BY <1>6, PlacesAre
    <3>2. l < lay \/ l = lay
      BY <2>2, <3>1
    <3>3. l < lay \/ (l = lay /\ i < first + PageSize)
      BY <1>7, <1>13, <3>2
    <3> QED
      BY <2>2, <3>3 DEF NowRead
  <2>3. NowRead(lay, first + PageSize) => Map!ReadUpTo(all.layer, all.from)'
    BY <2>1, <2>2 DEF Map!ReadUpTo
  <2> QED
    BY <1>3, <1>4, <1>8, <2>1, <2>3 DEF Map!Progress
<1> QED
  BY <1>9, <1>10, <1>11, <1>12, <1>13

\* A page keeps what the map's start and its drawing rest on.
LEMMA PageStarted ==
    ASSUME Map!ConstantsOK, Map!Types, Map!Progress, Map!Started, NEW few, NEW many, NEW more, PageRead(few, many, more)
    PROVE  Map!Started'
<1>1. /\ all.phase = "paging" /\ UNCHANGED <<tilesets, stage, tiled>>
  BY DEF PageRead
<1>2. PICK lay, first, one : lay = all.layer /\ first = all.from /\ one = all.first
  OBVIOUS
<1>3. lay \in Nat \ {0}
  BY <1>2, ReadingMoves, PlacesAre
<1>4. \/ \E w \in {"enough", "done"} : all' = [phase |-> w, layer |-> lay, from |-> first, first |-> one]
      \/ all' = [phase |-> "paging", layer |-> lay, from |-> first + PageSize, first |-> FALSE]
      \/ all' = [phase |-> "paging", layer |-> lay + 1, from |-> 1, first |-> TRUE]
  BY <1>2, ReadingMoves DEF PageRead
<1>5. \/ all'.phase \in {"enough", "done"} /\ all'.layer = lay /\ all'.first = one
      \/ all'.phase = "paging" /\ all'.first = FALSE
      \/ all'.phase = "paging" /\ all'.layer = lay + 1
  BY <1>4
<1>6. stage = "live" => tiled
  BY <1>1 DEF Map!Started
<1>7. ASSUME stage \in {"nothing", "map", "paging", "live", "stopped"}, ~tiled
      PROVE  Map!Arrived' /\ (all'.phase \in {"enough", "done"} /\ tilesets.every => ~Map!FirstOver')
  <2>1. Map!Arrived
    BY <1>7 DEF Map!Started
  <2>2. ~one \/ lay > 1
    BY <1>1, <1>2, <2>1 DEF Map!Arrived
  <2> QED
    BY <1>3, <1>5, <2>2 DEF Map!Arrived, Map!FirstOver
<1> QED
  BY <1>1, <1>6, <1>7 DEF Map!Started

LEMMA PageDrawn ==
    ASSUME Map!ConstantsOK, Map!Types, Map!Progress, Map!Started, Map!Drawn, NEW few, NEW many, NEW more, PageRead(few, many, more)
    PROVE  Map!Drawn'
<1>1. /\ all.phase = "paging" /\ UNCHANGED <<stage, tiled, loads, lastView>>
      /\ drawn' = few \/ UNCHANGED drawn
  BY DEF PageRead
<1>2. Len(few) <= Cap
  BY PageTypes
<1>3. stage = "live" => tiled
  BY <1>1 DEF Map!Started
<1> QED
  BY <1>1, <1>2, <1>3 DEF Map!Drawn

LEMMA MapPageKeeps ==
    ASSUME Map!ConstantsOK, Map!ReadInv, Map!Page
    PROVE  Map!ReadInv'
<1>1. PICK few, many, more : PageRead(few, many, more)
  BY PageReads
<1>2. Map!Types /\ Map!Progress /\ Map!Started /\ Map!Drawn
  BY DEF Map!ReadInv
<1>3. Map!Types' /\ Map!Progress' /\ Map!Started' /\ Map!Drawn'
  BY <1>1, <1>2, PageTypes, PageProgress, PageStarted, PageDrawn
<1> QED
  BY <1>3 DEF Map!ReadInv

\* The types, part by part.
AllTyped == all \in [phase : {"paging", "enough", "done", "failed"}, layer : DOMAIN Layers, from : Nat \ {0}, first : BOOLEAN]
LatestTyped ==
    /\ latest.features \in Seq(Map!Everything \ Bare) /\ latest.matched \in Nat
    /\ latest = [features |-> latest.features, matched |-> latest.matched]
DrawnTyped == drawn \in Seq(Map!Everything \ Bare) /\ capped \in BOOLEAN
StageTyped ==
    /\ tilesets \in [known : BOOLEAN, every : BOOLEAN] /\ tiled \in BOOLEAN
    /\ stage \in {"library", "nothing", "map", "paging", "live", "stopped", "dead"}
    /\ state \in {"loading", "ready", "failed", "empty"} /\ note \in {"loading", "failed", "empty", "cap", ""}
MovesTyped ==
    /\ seen \in Views \cup {Map!NoView} /\ lastView \in Views \cup {Map!NoView}
    /\ asked \in Nat /\ loads \subseteq [n : 1..asked, view : Views]
PanelTyped == feature \in Map!Everything \cup {Map!NoFeature} /\ marked \subseteq Map!Everything /\ wholes \subseteq Map!Everything

LEMMA TypedParts ==
    /\ Map!Types <=> AllTyped /\ LatestTyped /\ DrawnTyped /\ StageTyped /\ MovesTyped /\ PanelTyped
    /\ Map!Types' <=> AllTyped' /\ LatestTyped' /\ DrawnTyped' /\ StageTyped' /\ MovesTyped' /\ PanelTyped'
<1>1. Map!Types <=> AllTyped /\ LatestTyped /\ DrawnTyped /\ StageTyped /\ MovesTyped /\ PanelTyped
  BY Zenon DEF Map!Types, Map!TypeOK, AllTyped, LatestTyped, DrawnTyped, StageTyped, MovesTyped, PanelTyped
<1>2. Map!Types' <=> AllTyped' /\ LatestTyped' /\ DrawnTyped' /\ StageTyped' /\ MovesTyped' /\ PanelTyped'
  BY Zenon DEF Map!Types, Map!TypeOK, AllTyped, LatestTyped, DrawnTyped, StageTyped, MovesTyped, PanelTyped
<1> QED
  BY <1>1, <1>2

LEMMA PartsStay ==
    /\ AllTyped /\ UNCHANGED all => AllTyped'
    /\ LatestTyped /\ UNCHANGED latest => LatestTyped'
    /\ DrawnTyped /\ UNCHANGED <<drawn, capped>> => DrawnTyped'
    /\ MovesTyped /\ UNCHANGED <<seen, lastView, asked, loads>> => MovesTyped'
    /\ PanelTyped /\ UNCHANGED <<feature, marked, wholes>> => PanelTyped'
    /\ StageTyped /\ UNCHANGED <<tilesets, tiled, stage, state, note>> => StageTyped'
<1>1. AllTyped /\ UNCHANGED all => AllTyped'
  BY DEF AllTyped
<1>2. LatestTyped /\ UNCHANGED latest => LatestTyped'
  BY DEF LatestTyped
<1>3. DrawnTyped /\ UNCHANGED <<drawn, capped>> => DrawnTyped'
  BY DEF DrawnTyped
<1>4. MovesTyped /\ UNCHANGED <<seen, lastView, asked, loads>> => MovesTyped'
  BY Zenon DEF MovesTyped
<1>5. PanelTyped /\ UNCHANGED <<feature, marked, wholes>> => PanelTyped'
  BY Zenon DEF PanelTyped
<1>6. StageTyped /\ UNCHANGED <<tilesets, tiled, stage, state, note>> => StageTyped'
  BY Zenon DEF StageTyped
<1> QED
  BY <1>1, <1>2, <1>3, <1>4, <1>5, <1>6

\* What was read, and how far, as long as the first read rests.
LEMMA ProgressStays ==
    ASSUME Map!Progress, UNCHANGED <<all, latest>>, tilesets'.every = tilesets.every
    PROVE  Map!Progress' /\ (Map!FirstOver' <=> Map!FirstOver) /\ (Map!Full' <=> Map!Full) /\ (Map!Arrived' <=> Map!Arrived)
<1>1. (Map!FirstOver' <=> Map!FirstOver) /\ (Map!Full' <=> Map!Full) /\ (Map!Arrived' <=> Map!Arrived)
  BY DEF Map!FirstOver, Map!Full, Map!Arrived
<1>2. /\ Map!ReadUpTo(all.layer, all.from)' <=> Map!ReadUpTo(all.layer, all.from)
      /\ Map!ReadUpTo(all.layer, all.from + PageSize)' <=> Map!ReadUpTo(all.layer, all.from + PageSize)
  BY DEF Map!ReadUpTo
<1> QED
  BY <1>1, <1>2 DEF Map!Progress

\* The panel's actions touch nothing of it.
LEMMA PanelReads ==
    ASSUME Map!ReadInv,
           \/ Map!Shut
           \/ \E f \in Map!Everything : \/ Map!Click(f) \/ Map!ClickTile(f)
                                        \/ \E here \in BOOLEAN : Map!Whole(f, here)
    PROVE  Map!ReadInv'
<1>1. UNCHANGED <<all, latest, tilesets, stage, tiled, drawn, capped, state, note, seen, lastView, asked, loads>>
  BY DEF Map!Shut, Map!Click, Map!ClickTile, Map!Whole, Map!moves, Map!firstRead
<1>2. Map!Types /\ Map!Progress /\ Map!Started /\ Map!Drawn
  BY DEF Map!ReadInv
<1>3. PanelTyped
  BY <1>2, TypedParts
<1>4. PanelTyped'
  <2>1. \/ feature' = Map!NoFeature /\ marked' \subseteq marked /\ wholes' = wholes
        \/ UNCHANGED <<feature, marked>> /\ \E f \in Map!Everything : wholes' = wholes \cup {f}
        \/ /\ UNCHANGED <<feature, marked>> \/ \E f \in Map!Everything : feature' = f /\ marked' \subseteq marked \cup {f}
           /\ wholes' \subseteq wholes
    <3>1. CASE Map!Shut
      BY <3>1 DEF Map!Shut
    <3>2. ASSUME NEW f \in Map!Everything, Map!Click(f)
          PROVE  wholes' = wholes /\ feature' = f /\ marked' \subseteq marked \cup {f}
      BY <3>2 DEF Map!Click, Map!Select
    <3>3. ASSUME NEW f \in Map!Everything, Map!ClickTile(f)
          PROVE  UNCHANGED <<feature, marked>> /\ wholes' = wholes \cup {f}
      BY <3>3 DEF Map!ClickTile
    <3>4. ASSUME NEW f \in Map!Everything, NEW here \in BOOLEAN, Map!Whole(f, here)
          PROVE  /\ UNCHANGED <<feature, marked>> \/ (feature' = f /\ marked' \subseteq marked \cup {f})
                 /\ wholes' \subseteq wholes
      BY <3>4 DEF Map!Whole, Map!Select
    <3> QED
      BY <3>1, <3>2, <3>3, <3>4
  <2> QED
    BY <1>3, <2>1 DEF PanelTyped
<1>5. Map!Types'
  BY <1>1, <1>2, <1>4, TypedParts, PartsStay
<1>6. Map!Progress' /\ (Map!FirstOver' <=> Map!FirstOver) /\ (Map!Full' <=> Map!Full) /\ (Map!Arrived' <=> Map!Arrived)
  BY <1>1, <1>2, ProgressStays
<1>7. Map!Started'
  BY <1>1, <1>2, <1>6 DEF Map!Started
<1>8. Map!Drawn'
  BY <1>1, <1>2, <1>6 DEF Map!Drawn
<1> QED
  BY <1>5, <1>6, <1>7, <1>8 DEF Map!ReadInv

\* The words and the stage, once a step says which it sets.
LEMMA StageSet ==
    ASSUME StageTyped, tilesets' \in [known : BOOLEAN, every : BOOLEAN], tiled' \in BOOLEAN,
           stage' \in {"library", "nothing", "map", "paging", "live", "stopped", "dead"},
           state' \in {"loading", "ready", "failed", "empty"}, note' \in {"loading", "failed", "empty", "cap", ""}
    PROVE  StageTyped'
BY Zenon DEF StageTyped

\* The read beside the map: it waits for the tilesets, goes on, ends or fails.
LEMMA EnoughReads ==
    ASSUME Map!ConstantsOK, Map!ReadInv, Map!Enough
    PROVE  Map!ReadInv'
<1>1. /\ all.phase = "enough"
      /\ UNCHANGED <<latest, tilesets, stage, tiled, drawn, capped, state, note, seen, lastView, asked, loads, feature, marked, wholes>>
  BY DEF Map!Enough, Map!moves, Map!opened
<1>2. Map!Types /\ Map!Progress /\ Map!Started /\ Map!Drawn
  BY DEF Map!ReadInv
<1>3. PICK lay, first, one : lay = all.layer /\ first = all.from /\ one = all.first
  OBVIOUS
<1>4. lay \in DOMAIN Layers /\ first \in Nat \ {0} /\ one \in BOOLEAN /\ PageSize \in Nat \ {0}
  BY <1>2, <1>3, ReadingMoves, LayersAre
<1>5. \/ (tilesets.every \/ Len(latest.features) >= Cap) /\ all' = [phase |-> "done", layer |-> lay, from |-> first, first |-> one]
      \/ all' = [phase |-> "paging", layer |-> lay, from |-> first + PageSize, first |-> FALSE]
  BY <1>2, <1>3, ReadingMoves DEF Map!Enough
<1>6. Map!FirstOver /\ (Map!Full \/ Map!ReadUpTo(all.layer, all.from + PageSize)) /\ Len(latest.features) <= Cap
  BY <1>1, <1>2 DEF Map!Progress
<1>7. Map!Full' <=> Map!Full
  BY <1>1 DEF Map!Full
<1>8. Len(latest.features) >= Cap => Map!Full
  BY <1>2, ReadingIs, LayersAre DEF Map!Full
<1>9. Map!Types'
  <2>1. AllTyped'
    <3>1. PICK to : to = first + PageSize
      OBVIOUS
    <3>2. to \in Nat \ {0}
      BY <1>4, <3>1
    <3>3. CASE all' = [phase |-> "done", layer |-> lay, from |-> first, first |-> one]
      BY <1>4, <3>3 DEF AllTyped
    <3>4. CASE all' = [phase |-> "paging", layer |-> lay, from |-> to, first |-> FALSE]
      BY <1>4, <3>2, <3>4 DEF AllTyped
    <3> QED
      BY <1>5, <3>1, <3>3, <3>4
  <2> QED
    BY <1>1, <1>2, <2>1, TypedParts, PartsStay
<1>10. CASE (tilesets.every \/ Len(latest.features) >= Cap) /\ all' = [phase |-> "done", layer |-> lay, from |-> first, first |-> one]
  <2>1. all'.phase = "done" /\ all'.layer = lay /\ all'.first = one
    BY <1>10
  <2>2. Map!FirstOver' /\ Map!Arrived'
    BY <1>1, <1>3, <1>6, <2>1 DEF Map!FirstOver, Map!Arrived
  <2>3. Map!Progress'
    BY <1>1, <1>6, <1>7, <1>8, <1>10, <2>1, <2>2 DEF Map!Progress
  <2>4. Map!Started'
    BY <1>1, <1>2, <1>6, <2>1, <2>2 DEF Map!Started
  <2>5. Map!Drawn'
    BY <1>1, <1>2, <1>7 DEF Map!Drawn
  <2> QED
    BY <1>9, <2>3, <2>4, <2>5 DEF Map!ReadInv
<1>11. CASE all' = [phase |-> "paging", layer |-> lay, from |-> first + PageSize, first |-> FALSE]
  <2>1. all'.phase = "paging" /\ all'.layer = lay /\ all'.from = first + PageSize /\ all'.first = FALSE
    BY <1>11
  <2>2. Map!Arrived' /\ ~Map!FirstOver'
    BY <2>1 DEF Map!FirstOver, Map!Arrived
  <2>3. Map!ReadUpTo(all.layer, all.from + PageSize) => Map!ReadUpTo(all.layer, all.from)'
    BY <1>1, <1>3, <2>1 DEF Map!ReadUpTo
  <2>4. Map!Progress'
    BY <1>1, <1>6, <1>7, <2>1, <2>3 DEF Map!Progress
  <2>5. Map!Started'
    BY <1>1, <1>2, <2>1, <2>2 DEF Map!Started
  <2>6. Map!Drawn'
    BY <1>1, <1>2, <1>7 DEF Map!Drawn
  <2> QED
    BY <1>9, <2>4, <2>5, <2>6 DEF Map!ReadInv
<1> QED
  BY <1>5, <1>10, <1>11

LEMMA PageFailsReads ==
    ASSUME Map!ConstantsOK, Map!ReadInv, Map!PageFails
    PROVE  Map!ReadInv'
<1>1. /\ all.phase = "paging" /\ all' = [all EXCEPT !.phase = "failed"]
      /\ UNCHANGED <<latest, tilesets, stage, tiled, drawn, capped, state, note, seen, lastView, asked, loads, feature, marked, wholes>>
  BY DEF Map!PageFails, Map!moves, Map!opened
<1>2. Map!Types /\ Map!Progress /\ Map!Started /\ Map!Drawn
  BY DEF Map!ReadInv
<1>3. AllTyped' /\ all'.phase = "failed"
  BY <1>1, <1>2, TypedParts DEF AllTyped
<1>4. Map!Types'
  BY <1>1, <1>2, <1>3, TypedParts, PartsStay
<1>5. (Map!Full' <=> Map!Full) /\ Map!Arrived'
  BY <1>1, <1>3 DEF Map!Full, Map!Arrived
<1>6. Map!Progress'
  BY <1>1, <1>2, <1>3 DEF Map!Progress
<1>7. Map!Started'
  BY <1>1, <1>2, <1>3, <1>5 DEF Map!Started
<1>8. Map!Drawn'
  BY <1>1, <1>2, <1>5 DEF Map!Drawn
<1> QED
  BY <1>4, <1>6, <1>7, <1>8 DEF Map!ReadInv

LEMMA TilesetsReads ==
    ASSUME Map!ReadInv, Map!Tilesets
    PROVE  Map!ReadInv'
<1>1. /\ tilesets' = [tilesets EXCEPT !.known = TRUE]
      /\ UNCHANGED <<all, latest, stage, tiled, drawn, capped, state, note, seen, lastView, asked, loads, feature, marked, wholes>>
  BY DEF Map!Tilesets, Map!moves, Map!opened
<1>2. Map!Types /\ Map!Progress /\ Map!Started /\ Map!Drawn
  BY DEF Map!ReadInv
<1>3. tilesets \in [known : BOOLEAN, every : BOOLEAN] /\ StageTyped
  BY <1>2, TypedParts DEF StageTyped
<1>4. tilesets' \in [known : BOOLEAN, every : BOOLEAN] /\ tilesets'.every = tilesets.every
  BY <1>1, <1>3
<1>5. StageTyped'
  BY <1>1, <1>3, <1>4 DEF StageTyped
<1>6. Map!Types'
  BY <1>1, <1>2, <1>5, TypedParts, PartsStay
<1>7. Map!Progress' /\ (Map!FirstOver' <=> Map!FirstOver) /\ (Map!Full' <=> Map!Full) /\ (Map!Arrived' <=> Map!Arrived)
  BY <1>1, <1>2, <1>4, ProgressStays
<1>8. Map!Started'
  BY <1>1, <1>2, <1>4, <1>7 DEF Map!Started
<1>9. Map!Drawn'
  BY <1>1, <1>2, <1>7 DEF Map!Drawn
<1> QED
  BY <1>6, <1>7, <1>8, <1>9 DEF Map!ReadInv

\* The map's start: what was read stays, and so does the rest once the start keeps its own part.
LEMMA StartReads ==
    ASSUME Map!ReadInv, UNCHANGED <<all, latest, tilesets, seen, lastView, asked, loads, feature, marked, wholes>>,
           DrawnTyped', StageTyped', Map!Started', Len(drawn') <= Cap,
           lastView = Map!NoView /\ stage' = "live" /\ ~tiled' => drawn' = latest.features /\ (Map!Full => note' = "cap")
    PROVE  Map!ReadInv'
<1>1. Map!Types /\ Map!Progress /\ Map!Started /\ Map!Drawn
  BY DEF Map!ReadInv
<1>2. Map!Types'
  BY <1>1, TypedParts, PartsStay
<1>3. Map!Progress' /\ (Map!Full' <=> Map!Full)
  BY <1>1, ProgressStays
<1>4. Map!Drawn'
  BY <1>1, <1>3 DEF Map!Drawn
<1> QED
  BY <1>2, <1>3, <1>4 DEF Map!ReadInv

LEMMA LibraryReads ==
    ASSUME Map!ReadInv, Map!LibraryFails \/ Map!Library
    PROVE  Map!ReadInv'
<1>1. /\ UNCHANGED <<all, latest, tilesets, drawn, capped, state, seen, lastView, asked, loads, feature, marked, wholes>>
      /\ \/ stage' = "dead" /\ note' = "failed" /\ tiled' = tiled
         \/ /\ stage' \in {"nothing", "map"} /\ note' = note /\ Map!Arrived
            /\ tiled' = (latest.matched > Cap /\ tilesets.every)
  BY DEF Map!LibraryFails, Map!Library, Map!Dies, Map!moves, Map!opened, Map!firstRead
<1>2. Map!Types /\ Map!Progress /\ Map!Started /\ Map!Drawn
  BY DEF Map!ReadInv
<1>3. DrawnTyped' /\ StageTyped
  BY <1>1, <1>2, TypedParts, PartsStay
<1>4. StageTyped'
  <2>1. tiled' \in BOOLEAN
    BY <1>1, <1>3 DEF StageTyped
  <2> QED
    BY <1>1, <1>3, <2>1 DEF StageTyped
<1>5. (Map!FirstOver' <=> Map!FirstOver) /\ (Map!Arrived' <=> Map!Arrived)
  BY <1>1, <1>2, ProgressStays
<1>6. Map!Started'
  <2>1. CASE stage' = "dead"
    BY <2>1 DEF Map!Started
  <2>2. CASE stage' \in {"nothing", "map"} /\ Map!Arrived /\ tiled' = (latest.matched > Cap /\ tilesets.every)
    <3>1. ~tiled' /\ tilesets.every => ~Map!FirstOver
      BY <2>2 DEF Map!FirstOver
    <3> QED
      BY <1>1, <1>5, <2>2, <3>1 DEF Map!Started
  <2> QED
    BY <1>1, <2>1, <2>2
<1>7. Len(drawn') <= Cap /\ stage' # "live"
  BY <1>1, <1>2 DEF Map!Drawn
<1> QED
  BY <1>1, <1>3, <1>4, <1>6, <1>7, StartReads

LEMMA NothingReads ==
    ASSUME Map!ReadInv, Map!Nothing \/ Map!AllFailed
    PROVE  Map!ReadInv'
<1>1. /\ UNCHANGED <<all, latest, tilesets, tiled, drawn, capped, seen, lastView, asked, loads, feature, marked, wholes>>
      /\ \/ stage = "nothing" /\ stage' \in {"dead", "map"}
         \/ stage = "paging" /\ stage' = "stopped"
      /\ state' \in {state, "empty", "failed"} /\ note' \in {note, "empty", "failed"}
  BY DEF Map!Nothing, Map!AllFailed, Map!Dies, Map!moves, Map!opened, Map!firstRead
<1>2. Map!Types /\ Map!Progress /\ Map!Started /\ Map!Drawn
  BY DEF Map!ReadInv
<1>3. DrawnTyped' /\ StageTyped
  BY <1>1, <1>2, TypedParts, PartsStay
<1>4. StageTyped'
  BY <1>1, <1>3 DEF StageTyped
<1>5. (Map!FirstOver' <=> Map!FirstOver) /\ (Map!Arrived' <=> Map!Arrived)
  BY <1>1, <1>2, ProgressStays
<1>6. Map!Started'
  BY <1>1, <1>2, <1>5 DEF Map!Started
<1>7. Len(drawn') <= Cap /\ stage' # "live"
  BY <1>1, <1>2 DEF Map!Drawn
<1> QED
  BY <1>1, <1>3, <1>4, <1>6, <1>7, StartReads

LEMMA MapUpReads ==
    ASSUME Map!ConstantsOK, Map!ReadInv, NEW far \in BOOLEAN, Map!MapUp(far)
    PROVE  Map!ReadInv'
<1>1. /\ stage = "map" /\ UNCHANGED <<all, latest, tilesets, tiled, seen, lastView, asked, loads, feature, marked, wholes>>
      /\ \/ /\ tiled /\ drawn' = <<>> /\ capped' = (Len(<<>>) >= Cap) /\ stage' = "live" /\ state' = "ready" /\ note' \in {"cap", ""}
         \/ /\ ~tiled /\ drawn' = latest.features /\ capped' = (Len(latest.features) >= Cap)
            /\ stage' = "paging" /\ UNCHANGED <<state, note>>
  BY DEF Map!MapUp, Map!Put, Map!Done, Map!moves, Map!opened, Map!firstRead
<1>2. Map!Types /\ Map!Progress /\ Map!Started /\ Map!Drawn
  BY DEF Map!ReadInv
<1>3. StageTyped /\ LatestTyped
  BY <1>2, TypedParts
<1>4. StageTyped'
  BY <1>1, <1>3 DEF StageTyped
<1>5. DrawnTyped' /\ Len(drawn') <= Cap
  <2>1. PICK X : X = Map!Everything \ Bare
    OBVIOUS
  <2>2. CASE drawn' = <<>> /\ capped' = (Len(<<>>) >= Cap)
    <3>1. drawn' \in Seq(X) /\ Len(drawn') = 0
      BY <2>2
    <3>2. Cap \in Nat
      BY LayersAre
    <3> QED
      BY <2>1, <2>2, <3>1, <3>2 DEF DrawnTyped
  <2>3. CASE drawn' = latest.features /\ capped' = (Len(latest.features) >= Cap)
    BY <1>2, <1>3, <2>3 DEF DrawnTyped, LatestTyped, Map!Progress
  <2> QED
    BY <1>1, <2>2, <2>3
<1>6. (Map!FirstOver' <=> Map!FirstOver) /\ (Map!Arrived' <=> Map!Arrived)
  BY <1>1, <1>2, ProgressStays
<1>7. Map!Started'
  BY <1>1, <1>2, <1>6 DEF Map!Started
<1> QED
  BY <1>1, <1>4, <1>5, <1>7, StartReads

LEMMA AllReadReads ==
    ASSUME Map!ConstantsOK, Map!ReadInv, Map!AllRead
    PROVE  Map!ReadInv'
<1>1. /\ stage = "paging" /\ all.phase = "done"
      /\ UNCHANGED <<all, latest, tilesets, tiled, seen, lastView, asked, loads, feature, marked, wholes>>
      /\ drawn' = latest.features /\ capped' = (Len(latest.features) >= Cap) /\ stage' = "live" /\ state' = "ready"
      /\ note' = IF Len(latest.features) >= Cap THEN "cap" ELSE ""
  BY DEF Map!AllRead, Map!Put, Map!Done, Map!moves, Map!opened, Map!firstRead
<1>2. Map!Types /\ Map!Progress /\ Map!Started /\ Map!Drawn
  BY DEF Map!ReadInv
<1>3. StageTyped /\ LatestTyped
  BY <1>2, TypedParts
<1>4. StageTyped'
  BY <1>1, <1>3 DEF StageTyped
<1>5. DrawnTyped' /\ Len(drawn') <= Cap
  <2>1. drawn' = latest.features /\ capped' \in BOOLEAN
    <3>1. drawn' = latest.features /\ capped' = (Len(latest.features) >= Cap)
      BY DEF Map!AllRead, Map!Put
    <3> QED
      BY <3>1
  <2>2. latest.features \in Seq(Map!Everything \ Bare) /\ Len(latest.features) <= Cap
    BY <1>2, <1>3 DEF LatestTyped, Map!Progress
  <2> QED
    BY <2>1, <2>2 DEF DrawnTyped
<1>6. Map!Full => note' = "cap"
  <2>1. PICK k : k = Len(latest.features)
    OBVIOUS
  <2>2. k = Cap /\ Cap \in Nat => k >= Cap
    OBVIOUS
  <2> QED
    BY <1>1, <2>1, <2>2, LayersAre DEF Map!Full
<1>7. (Map!FirstOver' <=> Map!FirstOver) /\ (Map!Arrived' <=> Map!Arrived)
  BY <1>1, <1>2, ProgressStays
<1>8. Map!Started'
  BY <1>1, <1>2, <1>7 DEF Map!Started
<1> QED
  BY <1>1, <1>4, <1>5, <1>6, <1>8, StartReads

\* The views: no read of one before the reader moved, and none draws more than the cap.
LEMMA AnswersRead ==
    ASSUME Map!ConstantsOK, Map!ReadInv, NEW load \in loads, Map!LoadAnswers(load) \/ Map!LoadFails(load)
    PROVE  Map!ReadInv'
<1>1. /\ UNCHANGED <<all, latest, tilesets, stage, tiled, seen, lastView, asked, feature, marked, wholes>>
      /\ loads' = loads \ {load}
      /\ \/ drawn' = Map!InView(load.view) /\ capped' = (Len(Map!InView(load.view)) >= Cap)
         \/ UNCHANGED <<drawn, capped>>
      /\ state' \in {state, "ready", "failed"} /\ note' \in {note, "cap", "", "failed"}
  BY DEF Map!LoadAnswers, Map!LoadFails, Map!Put, Map!Done, Map!moves, Map!opened, Map!firstRead
<1>2. Map!Types /\ Map!Progress /\ Map!Started /\ Map!Drawn
  BY DEF Map!ReadInv
<1>3. lastView # Map!NoView
  BY <1>2 DEF Map!Drawn
<1>4. StageTyped /\ DrawnTyped /\ MovesTyped
  BY <1>2, TypedParts
<1>5. StageTyped'
  BY <1>1, <1>4, ZenonT(60) DEF StageTyped
<1>6. MovesTyped'
  <2>1. /\ UNCHANGED <<seen, lastView, asked>> /\ loads' \subseteq loads
    BY <1>1
  <2> QED
    BY <1>4, <2>1, Zenon DEF MovesTyped
<1>7. DrawnTyped' /\ Len(drawn') <= Cap
  <2>1. CASE UNCHANGED <<drawn, capped>>
    BY <1>2, <1>4, <2>1 DEF DrawnTyped, Map!Drawn
  <2>2. CASE drawn' = Map!InView(load.view) /\ capped' = (Len(Map!InView(load.view)) >= Cap)
    <3>1. PICK view : view = load.view
      OBVIOUS
    <3>2. drawn' = Map!InView(view) /\ capped' \in BOOLEAN
      BY <2>2, <3>1
    <3>3. Map!InView(view) \in Seq(Map!Everything \ Bare) /\ Len(Map!InView(view)) <= Cap
      BY InViewIs
    <3> QED
      BY <3>2, <3>3 DEF DrawnTyped
  <2> QED
    BY <1>1, <2>1, <2>2
<1>8. Map!Types'
  BY <1>1, <1>2, <1>5, <1>6, <1>7, TypedParts, PartsStay
<1>9. Map!Progress' /\ (Map!FirstOver' <=> Map!FirstOver) /\ (Map!Full' <=> Map!Full) /\ (Map!Arrived' <=> Map!Arrived)
  BY <1>1, <1>2, ProgressStays
<1>10. Map!Started'
  BY <1>1, <1>2, <1>9 DEF Map!Started
<1>11. Map!Drawn'
  BY <1>1, <1>3, <1>7 DEF Map!Drawn
<1> QED
  BY <1>8, <1>9, <1>10, <1>11 DEF Map!ReadInv

LEMMA MovesRead ==
    ASSUME Map!ConstantsOK, Map!ReadInv, NEW view \in Views, NEW far \in BOOLEAN, Map!MoveEnd(view, far)
    PROVE  Map!ReadInv'
<1>1. /\ UNCHANGED <<all, latest, tilesets, stage, tiled, drawn, capped, feature, marked, wholes>>
      /\ seen' = view
      /\ \/ tiled /\ UNCHANGED <<lastView, asked, loads>> /\ state' = "ready" /\ note' \in {"cap", ""}
         \/ /\ lastView' = view /\ asked' = asked + 1 /\ loads' = loads \cup {[n |-> asked + 1, view |-> view]}
            /\ state' = "loading" /\ note' = "loading"
         \/ UNCHANGED <<lastView, asked, loads, state, note>>
  BY DEF Map!MoveEnd, Map!Done, Map!opened, Map!firstRead
<1>2. Map!Types /\ Map!Progress /\ Map!Started /\ Map!Drawn
  BY DEF Map!ReadInv
<1>3. StageTyped /\ DrawnTyped /\ MovesTyped
  BY <1>2, TypedParts
<1>4. StageTyped'
  BY <1>1, <1>3 DEF StageTyped
<1>5. MovesTyped'
  <2>1. seen' \in Views \cup {Map!NoView} /\ lastView' \in Views \cup {Map!NoView}
    BY <1>1, <1>3 DEF MovesTyped
  <2>2. PICK k, new : k = asked /\ new = [n |-> asked + 1, view |-> view]
    OBVIOUS
  <2>3. k \in Nat /\ loads \subseteq [n : 1..k, view : Views]
    BY <1>3, <2>2 DEF MovesTyped
  <2>4. new \in [n : 1..(k + 1), view : Views]
    BY <2>2, <2>3
  <2>5. ASSUME NEW load \in loads
        PROVE  load \in [n : 1..(k + 1), view : Views]
    BY <2>3
  <2>6. \/ asked' = k /\ loads' = loads
        \/ asked' = k + 1 /\ loads' = loads \cup {new}
    BY <1>1, <2>2
  <2>7. k + 1 \in Nat /\ loads \cup {new} \subseteq [n : 1..(k + 1), view : Views]
    BY <2>3, <2>4, <2>5
  <2>8. asked' \in Nat /\ loads' \subseteq [n : 1..asked', view : Views]
    BY <2>3, <2>6, <2>7
  <2> QED
    BY <2>1, <2>8 DEF MovesTyped
<1>6. Map!Types'
  BY <1>1, <1>2, <1>4, <1>5, TypedParts, PartsStay
<1>7. Map!Progress' /\ (Map!FirstOver' <=> Map!FirstOver) /\ (Map!Full' <=> Map!Full) /\ (Map!Arrived' <=> Map!Arrived)
  BY <1>1, <1>2, ProgressStays
<1>8. Map!Started'
  BY <1>1, <1>2, <1>7 DEF Map!Started
<1>9. Map!Drawn'
  <2>1. Map!NoView \notin Views
    BY DEF Map!ConstantsOK
  <2> QED
    BY <1>1, <1>2, <1>7, <2>1 DEF Map!Drawn
<1> QED
  BY <1>6, <1>7, <1>8, <1>9 DEF Map!ReadInv

\* At the start nothing is read, drawn or asked for.
LEMMA MapInit ==
    ASSUME Map!ConstantsOK, Map!Init
    PROVE  Map!ReadInv
<1>1. /\ all = [phase |-> "paging", layer |-> 1, from |-> 1, first |-> TRUE]
      /\ latest = [features |-> <<>>, matched |-> 0] /\ drawn = <<>> /\ capped = FALSE
      /\ stage = "library" /\ tiled = FALSE /\ state = "loading" /\ note = "loading"
      /\ seen = Map!NoView /\ lastView = Map!NoView /\ asked = 0 /\ loads = {}
      /\ feature = Map!NoFeature /\ marked = {} /\ wholes = {}
      /\ tilesets \in {[known |-> FALSE, every |-> every] : every \in BOOLEAN}
  BY DEF Map!Init
<1>2. /\ all.phase = "paging" /\ all.layer = 1 /\ all.from = 1
      /\ latest.features = <<>> /\ latest.matched = 0
  BY <1>1
<1>3. Cap \in Nat /\ DOMAIN Layers = 1..Len(Layers) /\ Len(Layers) \in Nat \ {0}
  BY LayersAre
<1>4. PICK X : X = Map!Everything \ Bare
  OBVIOUS
<1>5. latest.features \in Seq(X) /\ Len(latest.features) = 0 /\ drawn \in Seq(X) /\ Len(drawn) = 0
  <2>1. PICK q : q = latest.features
    OBVIOUS
  <2>2. q = <<>>
    BY <1>2, <2>1
  <2>3. q \in Seq(X) /\ Len(q) = 0
    BY <2>2
  <2>4. drawn = <<>>
    BY <1>1
  <2>5. drawn \in Seq(X) /\ Len(drawn) = 0
    BY <2>4
  <2> QED
    BY <2>1, <2>3, <2>5
<1>6. Map!Types
  <2>1. AllTyped
    BY <1>1, <1>3 DEF AllTyped
  <2>2. LatestTyped
    BY <1>1, <1>2, <1>4, <1>5 DEF LatestTyped
  <2>3. DrawnTyped
    BY <1>1, <1>4, <1>5 DEF DrawnTyped
  <2>4. StageTyped
    <3>1. tilesets \in [known : BOOLEAN, every : BOOLEAN]
      <4>1. PICK every \in BOOLEAN : tilesets = [known |-> FALSE, every |-> every]
        BY <1>1, Zenon
      <4>2. PICK no \in BOOLEAN : no = FALSE
        OBVIOUS
      <4>3. tilesets = [known |-> no, every |-> every]
        BY <4>1, <4>2
      <4> QED
        BY <4>3
    <3> QED
      BY <1>1, <3>1, Zenon DEF StageTyped
  <2>5. MovesTyped
    BY <1>1 DEF MovesTyped
  <2>6. PanelTyped
    BY <1>1 DEF PanelTyped
  <2> QED
    BY <2>1, <2>2, <2>3, <2>4, <2>5, <2>6, TypedParts
<1>7. Map!Progress
  <2>1. Map!ReadUpTo(all.layer, all.from)
    <3>1. ASSUME NEW l \in DOMAIN Layers, NEW i \in DOMAIN Layers[l], l < 1 \/ (l = 1 /\ i < 1)
          PROVE  FALSE
      <4>1. l \in Nat \ {0} /\ i \in Nat \ {0}
        BY PlacesAre
      <4> QED
        BY <3>1, <4>1
    <3> QED
      BY <1>2, <3>1 DEF Map!ReadUpTo
  <2> QED
    BY <1>2, <1>3, <1>5, <2>1 DEF Map!Progress
<1>8. Map!Started
  BY <1>1 DEF Map!Started
<1>9. Map!Drawn
  BY <1>1, <1>3, <1>5 DEF Map!Drawn
<1> QED
  BY <1>6, <1>7, <1>8, <1>9 DEF Map!ReadInv

\* The map's own step, whichever it is.
LEMMA MapKeeps ==
    ASSUME Map!ConstantsOK, Map!ViewsInv, Map!ReadInv, Map!Next
    PROVE  Map!ViewsInv' /\ Map!ReadInv'
<1>1. Map!ViewsInv'
  BY ReadsKeep, ViewsKeep, PanelKeeps DEF Map!Next, Map!Reads
<1>2. CASE Map!Page \/ Map!Enough \/ Map!PageFails \/ Map!Tilesets
  BY <1>1, <1>2, MapPageKeeps, EnoughReads, PageFailsReads, TilesetsReads
<1>3. CASE Map!LibraryFails \/ Map!Library \/ Map!Nothing \/ (\E far \in BOOLEAN : Map!MapUp(far)) \/ Map!AllRead \/ Map!AllFailed
  BY <1>1, <1>3, LibraryReads, NothingReads, MapUpReads, AllReadReads
<1>4. CASE \E load \in loads : Map!LoadAnswers(load) \/ Map!LoadFails(load)
  BY <1>1, <1>4, AnswersRead
<1>5. CASE \E view \in Views, far \in BOOLEAN : Map!MoveEnd(view, far)
  BY <1>1, <1>5, MovesRead
<1>6. CASE \/ Map!Shut
           \/ \E f \in Map!Everything : \/ Map!Click(f) \/ Map!ClickTile(f)
                                        \/ \E here \in BOOLEAN : Map!Whole(f, here)
  BY <1>1, <1>6, PanelReads
<1> QED
  BY <1>1, <1>2, <1>3, <1>4, <1>5, <1>6 DEF Map!Next, Map!Reads

(***************************************************************************)
(* The view looked at: only past the cap is a view read, and the read that *)
(* ends under it is the last.                                              *)
(***************************************************************************)
LEMMA CoverStays ==
    ASSUME Map!CoverInv, UNCHANGED <<stage, tiled, drawn, capped, seen, lastView, asked, loads>>,
           UNCHANGED <<state, note>> \/ state' # "ready"
    PROVE  Map!CoverInv'
BY DEF Map!CoverInv

\* Until the map is live, no view is looked at.
LEMMA CoverStarts ==
    ASSUME Map!CoverInv, stage # "live", UNCHANGED <<seen, lastView, asked, loads>>, loads = {}, lastView = Map!NoView,
           stage' = "live" /\ ~tiled' => (capped' <=> Len(drawn') >= Cap),
           stage' = "live" /\ ~tiled' /\ state' = "ready" /\ capped' => note' = "cap"
    PROVE  Map!CoverInv'
<1>1. seen' = Map!NoView /\ lastView' = Map!NoView /\ loads' = {}
  BY DEF Map!CoverInv
<1> QED
  BY <1>1, Zenon DEF Map!CoverInv

LEMMA CoverReads ==
    ASSUME Map!CoverInv, Map!ReadInv, Map!ViewsInv,
           \/ Map!Page \/ Map!Enough \/ Map!PageFails \/ Map!Tilesets \/ Map!LibraryFails \/ Map!Library
           \/ Map!Nothing \/ Map!AllRead \/ Map!AllFailed \/ \E far \in BOOLEAN : Map!MapUp(far)
    PROVE  Map!CoverInv'
<1>1. UNCHANGED <<seen, lastView, asked, loads>>
  BY DEF Map!Page, Map!Enough, Map!PageFails, Map!Tilesets, Map!LibraryFails, Map!Library, Map!Nothing,
         Map!AllRead, Map!AllFailed, Map!MapUp, Map!moves
<1>2. stage # "live" => lastView = Map!NoView /\ loads = {}
  BY DEF Map!ViewsInv, Map!ReadInv, Map!Drawn
<1>3. CASE Map!Page \/ Map!Enough \/ Map!PageFails \/ Map!Tilesets
  <2>1. UNCHANGED <<stage, tiled, state, note>> /\ (stage = "live" => UNCHANGED <<drawn, capped>>)
    BY <1>3 DEF Map!Page, Map!Enough, Map!PageFails, Map!Tilesets
  <2>2. CASE stage = "live"
    BY <1>1, <2>1, <2>2, CoverStays
  <2>3. CASE stage # "live"
    BY <1>1, <1>2, <2>1, <2>3, CoverStarts
  <2> QED
    BY <2>2, <2>3
<1>4. CASE Map!LibraryFails \/ Map!Library \/ Map!Nothing \/ Map!AllFailed
  <2>1. stage # "live" /\ stage' # "live"
    BY <1>4 DEF Map!LibraryFails, Map!Library, Map!Nothing, Map!AllFailed, Map!Dies
  <2> QED
    BY <1>1, <1>2, <2>1, CoverStarts
<1>5. ASSUME NEW far \in BOOLEAN, Map!MapUp(far)
      PROVE  Map!CoverInv'
  <2>1. stage # "live" /\ tiled' = tiled /\ (stage' = "live" => tiled)
    BY <1>5 DEF Map!MapUp
  <2> QED
    BY <1>1, <1>2, <2>1, CoverStarts
<1>6. CASE Map!AllRead
  <2>1. /\ stage # "live" /\ capped' = (Len(drawn') >= Cap)
        /\ capped' => note' = "cap"
    BY <1>6 DEF Map!AllRead, Map!Put, Map!Done
  <2> QED
    BY <1>1, <1>2, <2>1, CoverStarts
<1> QED
  BY <1>3, <1>4, <1>5, <1>6

LEMMA CoverViews ==
    ASSUME Map!ConstantsOK, Map!CoverInv, Map!ViewsInv,
           \/ \E load \in loads : Map!LoadAnswers(load) \/ Map!LoadFails(load)
           \/ \E view \in Views, far \in BOOLEAN : Map!MoveEnd(view, far)
    PROVE  Map!CoverInv'
<1>1. ASSUME NEW load \in loads, Map!LoadAnswers(load)
      PROVE  Map!CoverInv'
  <2>1. /\ loads' = loads \ {load} /\ UNCHANGED <<stage, tiled, seen, lastView, asked>>
        /\ load.n # asked => UNCHANGED <<drawn, capped, state, note>>
        /\ load.n = asked => /\ drawn' = Map!InView(load.view) /\ capped' = (Len(drawn') >= Cap)
                             /\ capped' => note' = "cap"
    BY <1>1 DEF Map!LoadAnswers, Map!Put, Map!Done
  <2>2. CASE load.n # asked
    BY <2>1, <2>2 DEF Map!CoverInv
  <2>3. CASE load.n = asked
    <3>1. loads \subseteq [n : Nat, view : Views] /\ \A l \in loads : l.n = asked => l.view = lastView
      BY DEF Map!ViewsInv
    <3>2. \A l \in loads' : l.n # asked
      <4> SUFFICES ASSUME NEW l \in loads, l.n = asked
                   PROVE  l = load
        BY <2>1
      <4>1. l.view = load.view /\ l.n = load.n
        BY <2>3, <3>1
      <4>2. l \in [n : Nat, view : Views] /\ load \in [n : Nat, view : Views]
        BY <3>1
      <4> QED
        BY <4>1, <4>2
    <3>3. lastView # Map!NoView => seen = lastView
      BY <2>3 DEF Map!CoverInv
    <3>4. lastView # Map!NoView /\ stage = "live"
      <4>1. load.view = lastView /\ load.view \in Views
        BY <2>3, <3>1
      <4> QED
        BY <4>1 DEF Map!ConstantsOK, Map!ViewsInv
    <3> QED
      BY <2>1, <2>3, <3>2, <3>3, <3>4 DEF Map!CoverInv
  <2> QED
    BY <2>2, <2>3
<1>2. ASSUME NEW load \in loads, Map!LoadFails(load)
      PROVE  Map!CoverInv'
  BY <1>2 DEF Map!LoadFails, Map!CoverInv
<1>3. ASSUME NEW view \in Views, NEW far \in BOOLEAN, Map!MoveEnd(view, far)
      PROVE  Map!CoverInv'
  <2>1. stage = "live" /\ UNCHANGED <<stage, tiled, drawn, capped>> /\ seen' = view
    BY <1>3 DEF Map!MoveEnd
  <2>2. CASE tiled
    <3>1. UNCHANGED <<lastView, asked, loads>> /\ lastView = Map!NoView
      BY <1>3, <2>2 DEF Map!MoveEnd, Map!ViewsInv
    <3> QED
      BY <2>1, <2>2, <3>1 DEF Map!CoverInv
  <2>3. CASE ~tiled /\ capped /\ view # lastView
    <3>1. /\ lastView' = view /\ asked' = asked + 1 /\ state' = "loading"
      BY <1>3, <2>3 DEF Map!MoveEnd
    <3> QED
      BY <2>1, <2>3, <3>1 DEF Map!CoverInv
  <2>4. CASE ~tiled /\ ~(capped /\ view # lastView)
    <3>1. UNCHANGED <<lastView, asked, loads, state, note>>
      BY <1>3, <2>4 DEF Map!MoveEnd
    <3>2. lastView = Map!NoView => ~capped
      BY <1>3, <2>4 DEF Map!ConstantsOK
    <3> QED
      BY <2>1, <2>4, <3>1, <3>2 DEF Map!CoverInv
  <2> QED
    BY <2>2, <2>3, <2>4
<1> QED
  BY <1>1, <1>2, <1>3

LEMMA CoverPanel ==
    ASSUME Map!CoverInv,
           \/ Map!Shut
           \/ \E f \in Map!Everything : \/ Map!Click(f) \/ Map!ClickTile(f)
                                        \/ \E here \in BOOLEAN : Map!Whole(f, here)
    PROVE  Map!CoverInv'
BY CoverStays DEF Map!Shut, Map!Click, Map!ClickTile, Map!Whole, Map!moves

LEMMA CoverKeeps ==
    ASSUME Map!ConstantsOK, Map!CoverInv, Map!ViewsInv, Map!ReadInv, Map!Next
    PROVE  Map!CoverInv'
BY CoverReads, CoverViews, CoverPanel DEF Map!Next, Map!Reads

LEMMA ViewCovered ==
    ASSUME Map!ConstantsOK, Map!CoverInv, Map!ViewsInv, Map!TypeOK, Map!WholeOrCut
    PROVE  Map!CoveredUnlessLeft
<1> SUFFICES ASSUME state = "ready", ~tiled, seen # Map!NoView, ~Map!LeftUnread, note # "cap"
             PROVE  Within[seen] \ Bare \subseteq Map!Range(drawn)
  BY Zenon DEF Map!CoveredUnlessLeft, Map!ViewIsCovered
<1>0. seen \in Views
  BY DEF Map!TypeOK
<1>1. stage = "live" /\ ~capped /\ ~(Len(drawn) >= Cap)
  BY DEF Map!CoverInv
<1>2. Within[seen] \subseteq Map!Everything
  BY <1>0 DEF Map!ConstantsOK
<1>3. CASE lastView = Map!NoView
  BY <1>1, <1>2, <1>3 DEF Map!WholeOrCut
<1>4. CASE lastView # Map!NoView
  <2>1. seen = lastView /\ drawn = Map!InView(seen)
    BY <1>1, <1>4 DEF Map!LeftUnread, Map!ViewsInv
  <2>2. Len(drawn) # Cap
    BY <1>0, <1>1, <2>1, InViewIs, LayersAre
  <2>3. \A k \in DOMAIN Layers : \A i \in DOMAIN Layers[k] :
          Layers[k][i] \in Within[seen] \ Bare => Layers[k][i] \in Map!Range(drawn)
    BY <1>0, <2>1, <2>2, InViewIs
  <2> QED
    BY <1>2, <2>3, LayersAre
<1> QED
  BY <1>3, <1>4

LEMMA MapShows ==
    ASSUME Map!ConstantsOK, Map!ViewsInv, Map!ReadInv, Map!CoverInv
    PROVE  /\ Map!TypeOK /\ Map!NeverOverCap /\ Map!ReadyIsNewest /\ Map!WholeOrCut /\ Map!OnlyTheOpenIsMarked
           /\ Map!CoveredUnlessLeft
<1>1. Map!Types /\ Map!Progress /\ Map!Started /\ Map!Drawn
  BY DEF Map!ReadInv
<1>2. Map!TypeOK /\ Map!NeverOverCap /\ Map!ReadyIsNewest /\ Map!OnlyTheOpenIsMarked
  BY <1>1 DEF Map!Types, Map!Drawn, Map!NeverOverCap, Map!ViewsInv, Map!ReadyIsNewest, Map!OnlyTheOpenIsMarked
<1>3. ASSUME stage = "live", ~tiled, lastView = Map!NoView
      PROVE  Map!Range(drawn) = Map!Everything \ Bare \/ (Len(drawn) = Cap /\ note = "cap")
  <2>1. all.phase = "done" /\ drawn = latest.features /\ (Map!Full => note = "cap")
    BY <1>1, <1>3 DEF Map!Started, Map!Drawn
  <2>2. ~(Map!FirstOver /\ tilesets.every)
    BY <1>1, <1>3, <2>1 DEF Map!Started
  <2>3. Map!Full \/ Map!Everything \ Bare \subseteq Map!Range(latest.features)
    BY <1>1, <2>1, <2>2 DEF Map!Progress
  <2>4. Map!Range(drawn) \subseteq Map!Everything \ Bare
    <3>1. PICK q, X : q = drawn /\ X = Map!Everything \ Bare
      OBVIOUS
    <3>2. q \in Seq(X)
      BY <1>2, <3>1 DEF Map!TypeOK
    <3>3. \A i \in DOMAIN q : q[i] \in X
      BY <3>2
    <3>4. Map!Range(q) \subseteq X
      BY <3>3, RangeIs
    <3> QED
      BY <3>1, <3>4
  <2> QED
    BY <2>1, <2>3, <2>4 DEF Map!Full
<1>4. Map!WholeOrCut
  BY <1>3 DEF Map!WholeOrCut
<1>5. Map!CoveredUnlessLeft
  BY <1>2, <1>4, ViewCovered
<1> QED
  BY <1>2, <1>4, <1>5

(***************************************************************************)
(* The page's scripts together (Site): one behaviour of one of them.       *)
(***************************************************************************)
LEMMA EmbedRests ==
    ASSUME EmbedInv, UNCHANGED embedVars
    PROVE  EmbedInv'
BY Zenon DEF embedVars, EmbedInv, EmbedAgrees, Embed!InertAsSeen

LEMMA DockRests ==
    ASSUME DockInv, UNCHANGED dockVars
    PROVE  DockInv'
<1>1. Dock!TypeOK' /\ Dock!RoomOnlyForThePanel'
  BY Zenon DEF DockInv, dockVars, Dock!TypeOK, Dock!RoomOnlyForThePanel
<1>2. DockHeld'
  BY Zenon DEF DockInv, dockVars, DockHeld
<1>3. DockAgrees'
  BY Zenon DEF DockInv, dockVars, DockAgrees
<1>4. DockAsked'
  BY Zenon DEF DockInv, dockVars, DockAsked
<1> QED
  BY <1>1, <1>2, <1>3, <1>4 DEF DockInv, dockVars

LEMMA PageRests ==
    ASSUME PageInv, UNCHANGED pageVars
    PROVE  PageInv'
<1>1. PageButtons' /\ PagePreview' /\ PageSource'
  BY Zenon DEF PageInv, pageVars, PageButtons, PagePreview, PageSource
<1>2. PageTables'
  BY Zenon DEF PageInv, pageVars, PageTables
<1> QED
  BY <1>1, <1>2 DEF PageInv

LEMMA ShowsRest ==
    ASSUME ShowsInv, UNCHANGED showVars
    PROVE  ShowsInv'
<1>1. ShowTypes'
  BY Zenon DEF ShowsInv, showVars, ShowTypes
<1>2. WhoDraws'
  BY Zenon DEF ShowsInv, showVars, WhoDraws, Shows!Drawer
<1>3. \A f \in Shows!Frames : DrawingTold(f)'
  BY Zenon DEF ShowsInv, showVars, DrawingTold
<1> QED
  BY <1>1, <1>2, <1>3, Zenon DEF ShowsInv

LEMMA MapRests ==
    ASSUME Map!ConstantsOK, Map!ViewsInv, Map!ReadInv, Map!CoverInv, UNCHANGED mapVars
    PROVE  Map!ViewsInv' /\ Map!ReadInv' /\ Map!CoverInv'
<1>1. Map!ViewsInv'
  BY DEF mapVars, Map!ViewsInv
<1>2. Map!Types /\ Map!Progress /\ Map!Started /\ Map!Drawn
  BY DEF Map!ReadInv
<1>3. Map!Types'
  BY <1>2, TypedParts, PartsStay DEF mapVars
<1>4. Map!Progress' /\ (Map!FirstOver' <=> Map!FirstOver) /\ (Map!Full' <=> Map!Full) /\ (Map!Arrived' <=> Map!Arrived)
  BY <1>2, ProgressStays DEF mapVars
<1>5. Map!Started'
  BY <1>2, <1>4 DEF Map!Started, mapVars
<1>6. Map!Drawn'
  BY <1>2, <1>4 DEF Map!Drawn, mapVars
<1>7. Map!CoverInv'
  BY CoverStays DEF mapVars
<1> QED
  BY <1>1, <1>3, <1>4, <1>5, <1>6, <1>7 DEF Map!ReadInv

\* What every step of the site keeps.
SiteInv ==
    /\ EmbedInv /\ DockInv /\ PageInv /\ ShowsInv
    /\ Host!HostInv /\ Host!Counted /\ Map!ViewsInv /\ Map!ReadInv /\ Map!CoverInv

LEMMA SiteInit == Init => SiteInv
<1> SUFFICES ASSUME Init
             PROVE  SiteInv
  OBVIOUS
<1>1. Embed!Init /\ Dock!Init /\ Map!Init /\ Page!Init /\ Host!Init /\ Shows!Init
  BY DEF Init
<1>2. EmbedInv /\ DockInv
  BY <1>1, ConstantsAssumption, EmbedInit, DockInit
<1>3. PageInv /\ ShowsInv
  BY <1>1, ConstantsAssumption, PageInit, ShowsInit
<1>4. Host!HostInv /\ Host!Counted
  BY <1>1, ConstantsAssumption, InitHostInv, InitCounted
<1>5. Map!ViewsInv /\ Map!ReadInv
  BY <1>1, ConstantsAssumption, InitViewsInv, MapInit
<1>6. Map!CoverInv
  BY <1>1 DEF Map!Init, Map!CoverInv
<1> QED
  BY <1>2, <1>3, <1>4, <1>5, <1>6 DEF SiteInv

LEMMA SiteKeeps == SiteInv /\ [Next]_vars => SiteInv'
<1> SUFFICES ASSUME SiteInv, [Next]_vars
             PROVE  SiteInv'
  OBVIOUS
<1>0. /\ EmbedInv /\ DockInv /\ PageInv /\ ShowsInv
      /\ Host!HostInv /\ Host!Counted /\ Map!ViewsInv /\ Map!ReadInv /\ Map!CoverInv
  BY DEF SiteInv
<1>1. /\ Embed!Next \/ UNCHANGED embedVars
      /\ Dock!Next \/ UNCHANGED dockVars
      /\ Map!Next \/ UNCHANGED mapVars
      /\ Page!Next \/ UNCHANGED pageVars
      /\ Host!Next \/ UNCHANGED hostVars
      /\ Shows!Next \/ UNCHANGED showVars
  <2>1. CASE UNCHANGED vars
    BY <2>1 DEF vars
  <2>2. CASE EmbedNext
    BY <2>2 DEF EmbedNext
  <2>3. CASE DockNext
    BY <2>3 DEF DockNext
  <2>4. CASE MapNext
    BY <2>4 DEF MapNext
  <2>5. CASE PageNext
    BY <2>5 DEF PageNext
  <2>6. CASE HostNext
    BY <2>6 DEF HostNext
  <2>7. CASE ShowNext
    BY <2>7 DEF ShowNext
  <2> QED
    BY <2>1, <2>2, <2>3, <2>4, <2>5, <2>6, <2>7 DEF Next
<1>2. EmbedInv'
  BY <1>0, <1>1, ConstantsAssumption, EmbedKeeps, EmbedRests
<1>3. DockInv'
  BY <1>0, <1>1, ConstantsAssumption, DockKeeps, DockRests
<1>4. PageInv'
  BY <1>0, <1>1, ConstantsAssumption, PagesKeep, PageRests
<1>5. ShowsInv'
  BY <1>0, <1>1, ConstantsAssumption, ShowsKeep, ShowsRest
<1>6. Host!HostInv' /\ Host!Counted'
  <2>1. [Host!Next]_(Host!vars)
    BY <1>1 DEF hostVars, Host!vars
  <2> QED
    BY <1>0, <2>1, ConstantsAssumption, NextHostInv, NextCounted
<1>7. Map!ViewsInv' /\ Map!ReadInv' /\ Map!CoverInv'
  BY <1>0, <1>1, ConstantsAssumption, MapKeeps, MapRests, CoverKeeps
<1> QED
  BY <1>2, <1>3, <1>4, <1>5, <1>6, <1>7 DEF SiteInv

\* Every variable of the six scripts keeps its type, whatever runs on the page.
THEOREM SiteTypes == Spec => []TypeOK
<1>1. SiteInv => TypeOK
  BY ConstantsAssumption, EmbedShows, DockShows, PagesShow, ShowsShow, HostShows, MapShows DEF SiteInv, TypeOK
<1> QED
  BY SiteInit, SiteKeeps, <1>1, PTL DEF Spec

\* embed.js, jc-assistant.js, jc-dock.js, widget.js, host.js: a page and the frame it carries agree
\* once every message between them is heard, however many messages are under way and however often
\* the frame or the page goes: focus never lands under the chat, both know the panel's size and the
\* drawing's height, an open panel keeps its assistant and its language from page to page, a page
\* opened for an answer is noted with it, and a spec handed over reaches the frame that draws it.
THEOREM PageAndFrameAgree == Spec => []PanelsAgree
<1>1. SiteInv => PanelsAgree
  BY ConstantsAssumption, EmbedShows, DockShows, PagesShow, ShowsShow DEF SiteInv, PanelsAgree
<1> QED
  BY SiteInit, SiteKeeps, <1>1, PTL DEF Spec

\* jc-map.js: however many layers and pages a dataset has, wherever its cap falls among them, and
\* whatever order the answers of the pages and the views come in, a ready map draws what was read of
\* the view asked for last, and the view looked at whole or with the words that it is cut, unless
\* the reader left a view that stayed under the cap: then no other is read (CoveredUnlessLeft names
\* that case). It marks only the feature in the panel.
THEOREM MapDrawsAll == Spec => []MapDrawsTheNewest
<1>1. SiteInv => MapDrawsTheNewest
  BY ConstantsAssumption, MapShows DEF SiteInv, MapDrawsTheNewest
<1> QED
  BY SiteInit, SiteKeeps, <1>1, PTL DEF Spec

\* host.js: the charts of a page, beside everything else on it, never run more reads than its slots,
\* and each draws every instant once or says that it is partial.
THEOREM SiteChartsAreWhole == Spec => []ChartsWholeOrSaid
<1>1. SiteInv => ChartsWholeOrSaid
  BY ConstantsAssumption, HostShows DEF SiteInv, ChartsWholeOrSaid
<1> QED
  BY SiteInit, SiteKeeps, <1>1, PTL DEF Spec

=============================================================================
