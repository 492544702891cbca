--------------------------- MODULE StatusDocuments ---------------------------
(***************************************************************************)
(* The two documents of the status page's tick, one behaviour of one of    *)
(* them at a time: the watch with its incidents (StatusPage) and the       *)
(* history of the days (StatusHistory).  The tick saves them one after the *)
(* other, and neither is computed or rendered from the other.              *)
(***************************************************************************)
EXTENDS StatusPage, StatusHistory

VARIABLE which

allVars == <<which, vars, historyVars>>

DocumentsInit == which \in {"watch", "history"} /\ Init /\ InitHistory

WatchTick == which = "watch" /\ Next /\ UNCHANGED <<which, historyVars>>
HistoryTick == which = "history" /\ NextHistory /\ UNCHANGED <<which, vars>>

DocumentsSpec == DocumentsInit /\ [][WatchTick \/ HistoryTick]_allVars
=============================================================================
