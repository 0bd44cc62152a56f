-------------------------------- MODULE Site --------------------------------
(***************************************************************************)
(* The site as its visitors have it: processes that come and go with the   *)
(* process lock, the update worker of one of them, and home pages that     *)
(* read the quotes on the connection that worker and pages of a process    *)
(* share.                                                                  *)
(*                                                                         *)
(* Sheets are numbered as they are published. That a transaction sees one  *)
(* sheet, whole, is what QuoteService shows; here a page reads it in one   *)
(* step between its BEGIN and its rollback.                                *)
(***************************************************************************)
EXTENDS HomePage, ProcessLock

CONSTANTS Importing, Requesting,  \* uses of a connection beside the sessions
          Free,
          LastSheet               \* the bound of the sheets of the source

ASSUME UseAssumption ==
    /\ LastSheet \in Nat
    /\ NoTable \notin Nat
    /\ Nowhere \notin Processes
    /\ {Importing, Requesting, Free} \cap Sessions = {}
    /\ Importing # Requesting /\ Importing # Free /\ Requesting # Free

VARIABLES live,    \* the number of the published sheet, 0 before the first
          conn     \* who is in a transaction of each process's connection

vars == <<lock, stage, updating, page, live, conn>>

Use(p, user) == conn' = [conn EXCEPT ![p] = user]

\* What SELECT sees in process p: its worker's import, too.
View(p) == IF conn[p] = Importing THEN live + 1 ELSE live

---------------------------------------------------------------------------
(* The worker, and the requests of the API. *)

BeginImport(p) ==
    /\ p \in updating /\ conn[p] = Free
    /\ Use(p, Importing)
    /\ UNCHANGED <<lockVars, page, live>>

Commit(p) ==
    /\ conn[p] = Importing
    /\ live < LastSheet
    /\ live' = live + 1
    /\ Use(p, Free)
    /\ UNCHANGED <<lockVars, page>>

\* The sheet is the published one, a statement fails, or COMMIT meets a reader
\* of another process.
Rollback(p) ==
    /\ conn[p] = Importing
    /\ Use(p, Free)
    /\ UNCHANGED <<lockVars, page, live>>

BeginRequest(p) ==
    /\ stage[p] = "up" /\ conn[p] = Free
    /\ Use(p, Requesting)
    /\ UNCHANGED <<lockVars, page, live>>

EndRequest(p) ==
    /\ conn[p] = Requesting
    /\ Use(p, Free)
    /\ UNCHANGED <<lockVars, page, live>>

---------------------------------------------------------------------------
(* The pages. *)

Come(s) ==
    /\ \E p \in Processes : stage[p] = "up" /\ Visit(s, p)
    /\ UNCHANGED <<lockVars, live, conn>>

Leave(s) ==
    /\ page[s] # Closed /\ page[s].handler = "none"
    /\ EndSession(s)
    /\ UNCHANGED <<lockVars, live, conn>>

Hide(s) == HideTable(s) /\ UNCHANGED <<lockVars, live, conn>>

\* Mutant of BeginRefresh: without a transaction.
BeginRefreshUnguarded(s, handler) ==
    /\ Asks(s, handler)
    /\ BeginHandler(s, handler)
    /\ UNCHANGED <<lockVars, live, conn>>

\* RefreshStockDataTable up to BEGIN, called by the click or the timeout.
BeginRefresh(s, handler) ==
    /\ Asks(s, handler)
    /\ conn[page[s].on] = Free
    /\ BeginHandler(s, handler)
    /\ Use(page[s].on, s)
    /\ UNCHANGED <<lockVars, live>>

\* BEGIN throws while the connection is in use, and the session ends with the
\* flag set and the timer off.
BeginThrows(s, handler) ==
    /\ Asks(s, handler)
    /\ conn[page[s].on] # Free
    /\ EndSession(s)
    /\ UNCHANGED <<lockVars, live, conn>>

\* The SELECTs, the rollback and the return to the handler.
FinishRefresh(s) ==
    /\ page[s].handler # "none"
    /\ View(page[s].on) # 0
    /\ ShownTable(s, View(page[s].on))
    /\ Use(page[s].on, Free)
    /\ UNCHANGED <<lockVars, live>>

\* Mutant of RefreshThrows: no guard that rolls back on the way out.
RefreshThrowsOpen(s) ==
    /\ page[s].handler # "none"
    /\ EndSession(s)
    /\ UNCHANGED <<lockVars, live, conn>>

\* A SELECT fails, as it does before the first sheet is there: the guard rolls
\* back on the way out of the handler.
RefreshThrows(s) ==
    /\ page[s].handler # "none"
    /\ EndSession(s)
    /\ Use(page[s].on, Free)
    /\ UNCHANGED <<lockVars, live>>

SendTick(s) == Timeout(s) /\ UNCHANGED <<lockVars, live, conn>>

LoseTick(s) == DropTick(s) /\ UNCHANGED <<lockVars, live, conn>>

---------------------------------------------------------------------------
(* The processes. *)

Begin(p) ==
    /\ Launch(p) \/ StartUpdating(p) \/ ServerStart(p)
    /\ UNCHANGED <<page, live, conn>>

\* The transaction of a process is rolled back with its end.
EndProcess(p) ==
    /\ End(p)
    /\ EndSessionsOf(p)
    /\ Use(p, Free)
    /\ UNCHANGED live

Init ==
    /\ LockInit
    /\ PageInit
    /\ live = 0
    /\ conn = [p \in Processes |-> Free]

OfProcess(p) == Begin(p) \/ EndProcess(p) \/ BeginImport(p) \/ Commit(p)
                         \/ Rollback(p) \/ BeginRequest(p) \/ EndRequest(p)

OfSession(s) ==
    \/ Come(s) \/ Leave(s) \/ Hide(s)
    \/ \E handler \in {"click", "tick"} : BeginRefresh(s, handler) \/ BeginThrows(s, handler)
    \/ FinishRefresh(s) \/ RefreshThrows(s)
    \/ SendTick(s) \/ LoseTick(s)

Next == \/ \E p \in Processes : OfProcess(p)
        \/ \E s \in Sessions : OfSession(s)

Spec == Init /\ [][Next]_vars

\* A browser that shows a table goes on sending its ticks, and whatever runs on
\* a connection comes to its end.
FairSpec ==
    /\ Spec
    /\ \A s \in Sessions :
          /\ WF_vars(SendTick(s))
          /\ WF_vars(BeginRefresh(s, "tick") \/ BeginThrows(s, "tick"))
          /\ WF_vars(FinishRefresh(s) \/ RefreshThrows(s))
    /\ \A p \in Processes : WF_vars(Commit(p) \/ Rollback(p)) /\ WF_vars(EndRequest(p))

---------------------------------------------------------------------------
(* Properties. *)

PageOK(s) ==
    /\ page[s] \in [on : Processes \cup {Nowhere}, shows : {"nothing", "alice", "home"},
                    visible : BOOLEAN, timer : BOOLEAN, table : Nat \cup {NoTable},
                    tick : BOOLEAN, handler : {"none", "click", "tick"}]
    /\ page[s].on = Nowhere => page[s] = Closed
    /\ page[s].on # Nowhere => stage[page[s].on] = "up"

\* The state is well typed; a session lives in a process that is up, a lock, a
\* worker and a transaction in one that is not down.
TypeOK ==
    /\ lock \in Processes \cup {Nobody}
    /\ stage \in [Processes -> Stages]
    /\ updating \subseteq Processes
    /\ live \in 0..LastSheet
    /\ conn \in [Processes -> Sessions \cup {Importing, Requesting, Free}]
    /\ DOMAIN page = Sessions
    /\ \A s \in Sessions : PageOK(s)
    /\ \A p \in Processes :
          stage[p] = "down" => lock # p /\ p \notin updating /\ conn[p] = Free

\* At most one process updates the quotes, however often processes end and are
\* started again while others serve on: it is the one with the lock, and what
\* is imported is imported by it.
OneUpdater ==
    /\ updating \subseteq {lock}
    /\ \A p \in Processes : conn[p] = Importing => p \in updating

\* A connection is in use by a session exactly while a handler of that session
\* is inside its transaction: no page leaves one open behind it.
SessionHoldsConn ==
    \A s \in Sessions, p \in Processes :
        conn[p] = s <=> page[s].on = p /\ page[s].handler # "none"

\* What a click does next, what the timer does and what the visitor sees stay
\* in step, whatever click, timeout, failure and restart came before: outside
\* of a handler the flag is set, the timer runs and a table is shown, or none.
PageInStep ==
    \A s \in Sessions :
        page[s].handler # "click" =>
            /\ page[s].visible = page[s].timer
            /\ page[s].timer <=> page[s].table # NoTable

\* A table that is refreshed never goes back to an older sheet, and no visitor
\* is shown a sheet that is not published.
TablesAdvance ==
    [][\A s \in Sessions :
          page'[s].table # NoTable =>
              /\ page'[s].table <= live'
              /\ page[s].table # NoTable => page'[s].table >= page[s].table]_vars

\* A table that stays on a page comes up to every sheet that is published: its
\* timer neither stops nor waits for a connection that nobody frees.
TablesAreLive ==
    \A s \in Sessions : \A n \in 1..LastSheet :
        page[s].table # NoTable /\ live >= n ~>
            page[s].table = NoTable \/ page[s].table >= n
=============================================================================
