---------------------------- MODULE StatusHistory ----------------------------
(***************************************************************************)
(* The other document of the status page's tick, history.json              *)
(* (components/probes/files/status.py): how many minutes of each UTC day a *)
(* surface was measured and how many of them it was down.  The tick counts *)
(* in memory, saves, and swaps the page; the pod may die between any two.  *)
(* Days are KeptDays of the minute the tick captured.                      *)
(***************************************************************************)
EXTENDS StatusWatch

CONSTANT LastMinute     \* bound of the model: the last minute

ASSUME LastMinuteAssumption == LastMinute \in Nat

\* The page has a fixed list of them.
ASSUME SurfacesAssumption == SURFACES # {}

\* A file that does not parse: no surface can be read from it.
DamagedHistory == [s \in {} |-> {}]

VARIABLES
    clock,     \* the minute of the clock
    step,      \* the step the tick is at, or "down": no pod
    history,   \* Page.history
    volume,    \* history.json on the volume
    rendered   \* the history the page was rendered from, and when

historyVars == <<clock, step, history, volume, rendered>>

-----------------------------------------------------------------------------
(***************************************************************************)
(* Mutated forms of the definitions below.                                 *)
(***************************************************************************)
\* A page that starts counts the minute it starts in: tick() for tick(count=False).
StartHistory_Counts ==
    AddMinute(IF volume = DamagedHistory THEN NewHistory ELSE volume,
              [s \in SURFACES |-> "up"], clock)

\* A page that starts takes its file as it is.
StartHistory_Unchecked == volume

\* A page that starts does not read its file.
StartHistory_Forgets == NewHistory

-----------------------------------------------------------------------------
InitHistory ==
    /\ clock = 0
    /\ step = "down"
    /\ history = NewHistory
    /\ volume = NewHistory
    /\ rendered = [days |-> NewHistory, at |-> 0]

\* load_history: "a damaged file costs history, never the page".
StartHistory == IF volume = DamagedHistory THEN NewHistory ELSE volume

\* Page.__init__: read the file; tick(count=False) renders and counts nothing.
StartPage ==
    /\ step = "down"
    /\ step' = "idle"
    /\ history' = StartHistory
    /\ rendered' = [days |-> history', at |-> clock]
    /\ UNCHANGED <<clock, volume>>

\* The next minute's tick up to the save.
CountMinute(states) ==
    /\ step = "idle"
    /\ clock < LastMinute
    /\ clock' = clock + 1
    /\ history' = AddMinute(history, states, clock')
    /\ step' = "save_history"
    /\ UNCHANGED <<volume, rendered>>

\* _save("history.json"): written beside and renamed over, or refused and logged.
SaveHistory(ok) ==
    /\ step = "save_history"
    /\ step' = "render"
    /\ volume' = IF ok THEN history ELSE volume
    /\ UNCHANGED <<clock, history, rendered>>

\* The rendered files replace the page under the lock.
RenderHistory ==
    /\ step = "render"
    /\ step' = "idle"
    /\ rendered' = [days |-> history, at |-> clock]
    /\ UNCHANGED <<clock, history, volume>>

\* A minute without a counted tick.
UncountedMinute ==
    /\ step \in {"down", "idle"}
    /\ clock < LastMinute
    /\ clock' = clock + 1
    /\ UNCHANGED <<step, history, volume, rendered>>

\* The pod dies at any step; with the node, the file may be cut short.
PodDies(damages) ==
    /\ step # "down"
    /\ step' = "down"
    /\ history' = NewHistory
    /\ volume' = IF damages THEN DamagedHistory ELSE volume
    /\ UNCHANGED <<clock, rendered>>

NextHistory ==
    \/ StartPage
    \/ \E states \in States : CountMinute(states)
    \/ \E ok \in BOOLEAN : SaveHistory(ok)
    \/ RenderHistory
    \/ UncountedMinute
    \/ \E damages \in BOOLEAN : PodDies(damages)

SpecHistory == InitHistory /\ [][NextHistory]_historyVars

-----------------------------------------------------------------------------
(***************************************************************************)
(* Properties.                                                             *)
(***************************************************************************)
DaysOf(h) == {sd \in SURFACES \X (0 .. DayOf(clock)) : sd[2] \in DOMAIN h[sd[1]]}

IsHistory(h) ==
    /\ DOMAIN h = SURFACES
    /\ \A s \in SURFACES : DOMAIN h[s] \subseteq Nat
    /\ \A s \in SURFACES : \A d \in DOMAIN h[s] : h[s][d] \in Minutes

NoDayToCome(h) == \A s \in SURFACES : DOMAIN h[s] \subseteq 0..DayOf(clock)

\* Every variable has its type; no file, memory or page names a day to come.
HistoryTypeOK ==
    /\ clock \in Nat
    /\ step \in {"down", "idle", "save_history", "render"}
    /\ history # DamagedHistory /\ IsHistory(history) /\ NoDayToCome(history)
    /\ volume # DamagedHistory => IsHistory(volume) /\ NoDayToCome(volume)
    /\ IsHistory(rendered.days) /\ NoDayToCome(rendered.days)

(***************************************************************************)
(* No minute is counted twice, whatever restarts in it: a day never holds  *)
(* more measured minutes than it has had, nor more down than measured.     *)
(***************************************************************************)
CountedOnce(h) ==
    \A sd \in DaysOf(h) :
        LET counts == h[sd[1]][sd[2]]
        IN  /\ counts.down <= counts.measured
            /\ counts.measured <= DayMinutes
            /\ sd[2] = DayOf(clock) => counts.measured <= clock + 1 - sd[2] * DayMinutes

NoMinuteCountedTwice ==
    CountedOnce(history) /\ (volume # DamagedHistory => CountedOnce(volume))

(***************************************************************************)
(* A crash never takes a stored minute away: while a day is young enough   *)
(* to be kept, what the volume holds of it only grows, unless the file     *)
(* itself is damaged.                                                      *)
(***************************************************************************)
StoredMinutesNeverShrink ==
    [][volume # DamagedHistory /\ volume' # DamagedHistory =>
          \A sd \in DaysOf(volume) :
             LET s == sd[1]
                 d == sd[2]
             IN  d \in KeptDays(clock') =>
                    /\ d \in DOMAIN volume'[s]
                    /\ volume[s][d].measured <= volume'[s][d].measured
                    /\ volume[s][d].down <= volume'[s][d].down]_historyVars

(***************************************************************************)
(* Why they hold.  No history names a day to come, so a new day starts     *)
(* from nothing; and what a process has in memory covers the file it       *)
(* started from, also after saves the volume refused.                      *)
(***************************************************************************)
HistoryInv(h, t) ==
    /\ IsHistory(h)
    /\ \A s \in SURFACES : \A d \in DOMAIN h[s] :
          /\ d <= DayOf(t)
          /\ h[s][d].down <= h[s][d].measured
          /\ h[s][d].measured <= DayMinutes
          /\ d = DayOf(t) => h[s][d].measured + d * DayMinutes <= t + 1

Covers(h, stored, t) ==
    \A s \in SURFACES : \A d \in DOMAIN stored[s] :
       d \in KeptDays(t) =>
          /\ d \in DOMAIN h[s]
          /\ stored[s][d].measured <= h[s][d].measured
          /\ stored[s][d].down <= h[s][d].down

HistoryIInv ==
    /\ clock \in Nat
    /\ step \in {"down", "idle", "save_history", "render"}
    /\ history # DamagedHistory /\ HistoryInv(history, clock)
    /\ volume # DamagedHistory => HistoryInv(volume, clock)
    /\ HistoryInv(rendered.days, clock)
    /\ step # "down" /\ volume # DamagedHistory => Covers(history, volume, clock)

=============================================================================
