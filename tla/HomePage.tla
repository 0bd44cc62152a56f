----------------------------- MODULE HomePage ------------------------------
(***************************************************************************)
(* The session of a browser: CgiRoot, CgiEnv and Home, whose link shows    *)
(* and hides the table of the latest quotes and whose timer refreshes it.  *)
(*                                                                         *)
(* Wt runs one event of a session at a time and renders when its handler   *)
(* has returned; an exception out of a handler ends the session, and an    *)
(* event of a timer that was stopped meanwhile is dropped.                 *)
(***************************************************************************)
EXTENDS Naturals

CONSTANTS Sessions,
          Queries,      \* the query strings browsers come with, each the set
                        \* of those of Marks that it contains
          NoTable,      \* the link's place for the table is empty
          Nowhere       \* the process of a session that does not exist

Marks == {"<", ">", "%3C", "%3E", "%3c", "%3e"}

ASSUME QueryAssumption == Queries \subseteq SUBSET Marks

VARIABLE page   \* the state of every session

\* In handler: what runs for the session; tick: an event of the timer is under
\* way from the browser.
Closed == [on |-> Nowhere, shows |-> "nothing", visible |-> FALSE, timer |-> FALSE,
           table |-> NoTable, tick |-> FALSE, handler |-> "none"]

FoundXSS(query) == query # {}

\* What CgiRoot's constructor makes of a session: Home, Alice's message, or an
\* empty page when anything throws, which is logged.
CgiRoot(query) == IF FoundXSS(query) THEN {"alice", "nothing"} ELSE {"home", "nothing"}

Visit(s, p) ==
    /\ page[s] = Closed
    /\ \E query \in Queries : \E shows \in CgiRoot(query) :
          page' = [page EXCEPT ![s] = [Closed EXCEPT !.on = p, !.shows = shows]]

\* The browser goes away or is silent for too long.
EndSession(s) == page' = [page EXCEPT ![s] = Closed]

Ready(s) == page[s].shows = "home" /\ page[s].handler = "none"

\* Mutant of HideTable: the timer goes on.
HideTableOnly(s) ==
    /\ Ready(s) /\ page[s].visible
    /\ page' = [page EXCEPT ![s].table = NoTable, ![s].visible = FALSE]

\* OnStockDataTableLinkTextClicked while the table is visible.
HideTable(s) ==
    /\ Ready(s) /\ page[s].visible
    /\ page' = [page EXCEPT ![s].timer = FALSE, ![s].table = NoTable,
                            ![s].visible = FALSE]

\* The browser's timer.
Timeout(s) ==
    /\ page[s].timer /\ ~page[s].tick
    /\ page' = [page EXCEPT ![s].tick = TRUE]

\* A click while the table is hidden, a timeout of the timer while it runs.
Asks(s, handler) ==
    /\ Ready(s)
    /\ IF handler = "click" THEN ~page[s].visible ELSE page[s].tick /\ page[s].timer

\* The handler up to the transaction: the flag is set before the table is read.
BeginHandler(s, handler) ==
    page' = [page EXCEPT ![s].handler = handler, ![s].visible = TRUE,
                         ![s].tick = @ /\ handler # "tick"]

\* Wt's answer to an event of a timer that does not run.
DropTick(s) ==
    /\ Ready(s) /\ page[s].tick /\ ~page[s].timer
    /\ page' = [page EXCEPT ![s].tick = FALSE]

\* Mutant of ShownTable: the first refresh does not start the timer.
ShownTableOnce(s, sheet) ==
    page' = [page EXCEPT ![s].table = sheet, ![s].handler = "none"]

\* RefreshStockDataTable has returned: a click starts the timer.
ShownTable(s, sheet) ==
    page' = [page EXCEPT ![s].table = sheet, ![s].handler = "none",
                         ![s].timer = @ \/ page[s].handler = "click"]

\* The sessions of a process end with it.
EndSessionsOf(p) ==
    page' = [s \in Sessions |-> IF page[s].on = p THEN Closed ELSE page[s]]

PageInit == page = [s \in Sessions |-> Closed]
=============================================================================
