----------------------------- MODULE SiteProofs -----------------------------
(***************************************************************************)
(* Proofs about Site, for any sets of processes and sessions.              *)
(***************************************************************************)
EXTENDS Site, TLAPS

\* Who is between GetLock and the worker's start has the lock.
LockedHolds == \A p \in Processes : stage[p] = "locked" => lock = p

\* A handler of the timer runs while the timer does, one of a click has set the
\* flag, and both belong to a session that exists.
HandlerOK(s) ==
    /\ page[s].handler = "click" => page[s].visible
    /\ page[s].handler = "tick" => page[s].timer

\* A table that is shown is a published one.
TablesPublished == \A s \in Sessions : page[s].table # NoTable => page[s].table <= live

IInv ==
    /\ TypeOK /\ OneUpdater /\ LockedHolds
    /\ SessionHoldsConn /\ PageInStep
    /\ \A s \in Sessions : HandlerOK(s)
    /\ TablesPublished

LEMMA InitIInv == Init => IInv
  <1> SUFFICES ASSUME Init PROVE IInv  OBVIOUS
  <1> USE DEF Init, LockInit, PageInit
  <1>1. \A s \in Sessions : page[s] = Closed
    OBVIOUS
  <1>2. TypeOK
    BY <1>1, UseAssumption, NobodyAssumption DEF TypeOK, PageOK, Closed, Stages
  <1>3. OneUpdater /\ LockedHolds
    BY UseAssumption DEF OneUpdater, LockedHolds
  <1>4. SessionHoldsConn
    BY <1>1, UseAssumption DEF SessionHoldsConn, Closed
  <1>5. PageInStep
    BY <1>1 DEF PageInStep, Closed
  <1>6. \A s \in Sessions : HandlerOK(s)
    BY <1>1 DEF HandlerOK, Closed
  <1>7. TablesPublished
    BY <1>1 DEF TablesPublished, Closed
  <1> QED BY <1>2, <1>3, <1>4, <1>5, <1>6, <1>7 DEF IInv

-----------------------------------------------------------------------------
(* What holds of one session. *)

PageInv(s) ==
    /\ PageOK(s) /\ HandlerOK(s)
    /\ page[s].handler # "click" =>
          /\ page[s].visible = page[s].timer
          /\ page[s].timer <=> page[s].table # NoTable
    /\ page[s].table # NoTable => page[s].table <= live

Holds(p, s) == conn[p] = s <=> page[s].on = p /\ page[s].handler # "none"

\* The invariant of the sessions, taken apart.
LEMMA Pages ==
    (/\ \A s \in Sessions : PageOK(s) /\ HandlerOK(s)
     /\ PageInStep /\ TablesPublished)
    <=> \A s \in Sessions : PageInv(s)
BY DEF PageInv, PageInStep, TablesPublished

\* What a step of session s has to show: its page, and the connection of its
\* process if it is used or freed.
LEMMA SessionStep ==
    ASSUME IInv, NEW s \in Sessions, UNCHANGED <<lockVars, live>>,
           \A t \in Sessions \ {s} : page'[t] = page[t],
           DOMAIN page' = Sessions, PageInv(s)',
           page[s].on \in Processes \/ conn' = conn,
           page'[s].on \in {page[s].on, Nowhere} \/ conn' = conn,
           \/ conn' = conn
           \/ Use(page[s].on, s) /\ conn[page[s].on] = Free
           \/ Use(page[s].on, Free) /\ conn[page[s].on] = s,
           \A p \in Processes : Holds(p, s)'
    PROVE  IInv'
  <1>1. \A t \in Sessions : PageInv(t)
    BY Pages DEF IInv, TypeOK
  <1>2. \A t \in Sessions : PageInv(t)'
    <2> SUFFICES ASSUME NEW t \in Sessions, t # s PROVE PageInv(t)'
      OBVIOUS
    <2>1. page'[t] = page[t] /\ stage' = stage /\ live' = live
      BY DEF lockVars
    <2>2. PageInv(t)
      BY <1>1
    <2>3. PageOK(t)'
      BY <2>1, <2>2 DEF PageInv, PageOK
    <2> QED BY <2>1, <2>2, <2>3 DEF PageInv, HandlerOK
  <1>3. conn' \in [Processes -> Sessions \cup {Importing, Requesting, Free}]
    BY DEF IInv, TypeOK, Use
  <1>4. \A p \in Processes : \/ conn'[p] = conn[p]
                            \/ /\ p = page[s].on
                               /\ \/ conn[p] = s /\ conn'[p] = Free
                                  \/ conn[p] = Free /\ conn'[p] = s
    BY DEF IInv, TypeOK, Use
  <1>5. TypeOK'
    <2>1. \A p \in Processes : stage[p] = "down" => lock # p /\ p \notin updating /\ conn'[p] = Free
      <3> SUFFICES ASSUME NEW p \in Processes, stage[p] = "down", conn'[p] # Free PROVE FALSE
        BY DEF IInv, TypeOK
      <3>1. conn[p] = Free /\ p = page[s].on
        BY <1>4 DEF IInv, TypeOK
      <3> QED BY <3>1, UseAssumption DEF IInv, TypeOK, PageOK
    <2> QED BY <1>2, <1>3, <2>1 DEF IInv, TypeOK, lockVars, PageInv
  <1>6. OneUpdater'
    BY <1>4, UseAssumption DEF IInv, OneUpdater, lockVars
  <1>7. SessionHoldsConn'
    <2> SUFFICES ASSUME NEW t \in Sessions, NEW p \in Processes, t # s
                 PROVE  conn'[p] = t <=> page[t].on = p /\ page[t].handler # "none"
      BY DEF SessionHoldsConn, Holds
    <2> QED BY <1>4, UseAssumption DEF IInv, SessionHoldsConn
  <1>8. LockedHolds'
    BY DEF IInv, LockedHolds, lockVars
  <1>9. PageInStep' /\ TablesPublished' /\ \A t \in Sessions : HandlerOK(t)'
    BY <1>2 DEF PageInv, PageInStep, TablesPublished
  <1> QED BY <1>5, <1>6, <1>7, <1>8, <1>9 DEF IInv

-----------------------------------------------------------------------------
(* The steps of a session. *)

PageType == [on : Processes \cup {Nowhere}, shows : {"nothing", "alice", "home"},
             visible : BOOLEAN, timer : BOOLEAN, table : Nat \cup {NoTable},
             tick : BOOLEAN, handler : {"none", "click", "tick"}]

\* The facts every one of them starts from.
LEMMA SessionBefore ==
    ASSUME IInv, NEW s \in Sessions
    PROVE  /\ PageInv(s)
           /\ DOMAIN page = Sessions
           /\ page[s] \in PageType
           /\ \A p \in Processes : Holds(p, s)
           /\ Ready(s) => page[s].on \in Processes /\ stage[page[s].on] = "up"
           /\ page[s].handler # "none" =>
                 /\ page[s].on \in Processes /\ stage[page[s].on] = "up"
                 /\ conn[page[s].on] = s
           /\ live \in Nat
BY Pages DEF IInv, TypeOK, SessionHoldsConn, Holds, PageInv, PageOK, Ready, Closed, PageType

\* A session that ends leaves nothing behind.
LEMMA ClosedInv ==
    ASSUME NEW s \in Sessions, page'[s] = Closed
    PROVE  PageInv(s)'
BY UseAssumption DEF PageInv, PageOK, HandlerOK, Closed

LEMMA ComeStep == ASSUME IInv, NEW s \in Sessions, Come(s) PROVE IInv'
  <1>1. PICK p \in Processes, shows \in {"nothing", "alice", "home"} :
            /\ stage[p] = "up" /\ page[s] = Closed
            /\ page' = [page EXCEPT ![s] = [Closed EXCEPT !.on = p, !.shows = shows]]
    BY DEF Come, Visit, CgiRoot
  <1>3. UNCHANGED <<lockVars, live, conn>>
    BY DEF Come
  <1>4. page'[s] = [on |-> p, shows |-> shows, visible |-> FALSE, timer |-> FALSE,
                    table |-> NoTable, tick |-> FALSE, handler |-> "none"]
    BY <1>1, SessionBefore DEF Closed
  <1>5. PageInv(s)'
    <2>1. PageOK(s)'
      <3>1. page'[s] \in PageType
        BY <1>4 DEF PageType
      <3>2. page'[s].on = p /\ p # Nowhere /\ stage' = stage
        BY <1>3, <1>4, UseAssumption DEF lockVars
      <3> QED BY <1>1, <3>1, <3>2 DEF PageOK, PageType
    <2>2. /\ page'[s].handler = "none" /\ page'[s].visible = FALSE
          /\ page'[s].timer = FALSE /\ page'[s].table = NoTable
      BY <1>4
    <2> QED BY <2>1, <2>2 DEF PageInv, HandlerOK
  <1>6. \A q \in Processes : Holds(q, s)'
    <2>1. page[s].handler = "none" /\ page'[s].handler = "none"
      BY <1>1, <1>4 DEF Closed
    <2> QED BY <1>3, <2>1, SessionBefore DEF Holds
  <1> QED BY <1>1, <1>3, <1>5, <1>6, SessionBefore, SessionStep

LEMMA LeaveStep == ASSUME IInv, NEW s \in Sessions, Leave(s) PROVE IInv'
  <1>1. /\ page[s].handler = "none" /\ page' = [page EXCEPT ![s] = Closed]
        /\ UNCHANGED <<lockVars, live, conn>>
    BY DEF Leave, EndSession
  <1>2. \A q \in Processes : Holds(q, s)'
    BY <1>1, SessionBefore DEF Holds, Closed
  <1> QED BY <1>1, <1>2, SessionBefore, ClosedInv, SessionStep

LEMMA HideStep == ASSUME IInv, NEW s \in Sessions, Hide(s) PROVE IInv'
  <1>1. /\ Ready(s) /\ UNCHANGED <<lockVars, live, conn>>
        /\ page' = [page EXCEPT ![s].timer = FALSE, ![s].table = NoTable,
                                ![s].visible = FALSE]
    BY DEF Hide, HideTable
  <1>2. page'[s] = [page[s] EXCEPT !.timer = FALSE, !.table = NoTable, !.visible = FALSE]
    BY <1>1, SessionBefore
  <1>3. PageInv(s)'
    <2>1. PageOK(s)'
      <3>1. page'[s] \in PageType
        BY <1>2, SessionBefore DEF PageType
      <3>2. page'[s].on = page[s].on /\ stage' = stage
        BY <1>1, <1>2, SessionBefore DEF PageType, lockVars
      <3> QED BY <1>1, <3>1, <3>2, SessionBefore, UseAssumption DEF PageOK, PageType
    <2>2. /\ page'[s].handler = "none" /\ page'[s].visible = FALSE
          /\ page'[s].timer = FALSE /\ page'[s].table = NoTable
      BY <1>1, <1>2, SessionBefore DEF Ready
    <2> QED BY <2>1, <2>2 DEF PageInv, HandlerOK
  <1>4. \A q \in Processes : Holds(q, s)'
    BY <1>1, <1>2, SessionBefore DEF Holds
  <1> QED BY <1>1, <1>3, <1>4, SessionBefore, SessionStep

LEMMA BeginRefreshStep ==
    ASSUME IInv, NEW s \in Sessions, NEW handler \in {"click", "tick"},
           BeginRefresh(s, handler)
    PROVE  IInv'
  <1>1. /\ Asks(s, handler) /\ Ready(s) /\ UNCHANGED <<lockVars, live>>
        /\ conn[page[s].on] = Free /\ Use(page[s].on, s)
        /\ page' = [page EXCEPT ![s].handler = handler, ![s].visible = TRUE,
                                ![s].tick = @ /\ handler # "tick"]
    BY DEF BeginRefresh, BeginHandler, Asks
  <1>2. page'[s] = [page[s] EXCEPT !.handler = handler, !.visible = TRUE,
                                   !.tick = @ /\ handler # "tick"]
    BY <1>1, SessionBefore
  <1>3. PageInv(s)'
    BY <1>1, <1>2, SessionBefore, UseAssumption
    DEF PageInv, PageOK, HandlerOK, Closed, Ready, Asks, lockVars
  <1>4. \A q \in Processes : Holds(q, s)'
    BY <1>1, <1>2, SessionBefore DEF Holds, Use, IInv, TypeOK, Ready
  <1> QED BY <1>1, <1>2, <1>3, <1>4, SessionBefore, SessionStep

LEMMA BeginThrowsStep ==
    ASSUME IInv, NEW s \in Sessions, NEW handler \in {"click", "tick"},
           BeginThrows(s, handler)
    PROVE  IInv'
  <1>1. /\ Ready(s) /\ page' = [page EXCEPT ![s] = Closed]
        /\ UNCHANGED <<lockVars, live, conn>>
    BY DEF BeginThrows, EndSession, Asks
  <1>2. \A q \in Processes : Holds(q, s)'
    BY <1>1, SessionBefore DEF Holds, Closed, Ready
  <1> QED BY <1>1, <1>2, SessionBefore, ClosedInv, SessionStep

LEMMA FinishRefreshStep == ASSUME IInv, NEW s \in Sessions, FinishRefresh(s) PROVE IInv'
  <1>1. /\ page[s].handler # "none" /\ UNCHANGED <<lockVars, live>>
        /\ Use(page[s].on, Free)
        /\ page' = [page EXCEPT ![s].table = View(page[s].on), ![s].handler = "none",
                                ![s].timer = @ \/ page[s].handler = "click"]
    BY DEF FinishRefresh, ShownTable
  <1>2. View(page[s].on) = live
    BY <1>1, SessionBefore, UseAssumption DEF View
  <1>3. page'[s] = [page[s] EXCEPT !.table = live, !.handler = "none",
                                   !.timer = @ \/ page[s].handler = "click"]
    BY <1>1, <1>2, SessionBefore
  <1>4. PageInv(s)'
    BY <1>1, <1>3, SessionBefore, UseAssumption
    DEF PageInv, PageOK, HandlerOK, Closed, lockVars
  <1>5. \A q \in Processes : Holds(q, s)'
    BY <1>1, <1>3, SessionBefore, UseAssumption DEF Holds, Use, IInv, TypeOK
  <1> QED BY <1>1, <1>3, <1>4, <1>5, SessionBefore, SessionStep

LEMMA RefreshThrowsStep == ASSUME IInv, NEW s \in Sessions, RefreshThrows(s) PROVE IInv'
  <1>1. /\ page[s].handler # "none" /\ UNCHANGED <<lockVars, live>>
        /\ Use(page[s].on, Free) /\ page' = [page EXCEPT ![s] = Closed]
    BY DEF RefreshThrows, EndSession
  <1>2. page'[s] = Closed /\ PageInv(s)'
    BY <1>1, SessionBefore, ClosedInv
  <1>3. \A q \in Processes : Holds(q, s)'
    BY <1>1, <1>2, SessionBefore, UseAssumption DEF Holds, Use, IInv, TypeOK, Closed
  <1>4. page'[s].on = Nowhere
    BY <1>2 DEF Closed
  <1> QED BY <1>1, <1>2, <1>3, <1>4, SessionBefore, SessionStep

\* A timeout on its way from the browser, or dropped.
LEMMA TickStep ==
    ASSUME IInv, NEW s \in Sessions, SendTick(s) \/ LoseTick(s)
    PROVE  IInv'
  <1>1. PICK tick \in BOOLEAN : page' = [page EXCEPT ![s].tick = tick]
    BY DEF SendTick, LoseTick, Timeout, DropTick
  <1>2. UNCHANGED <<lockVars, live, conn>> /\ page[s] # Closed
    BY DEF SendTick, LoseTick, Timeout, DropTick, Closed
  <1>3. page'[s] = [page[s] EXCEPT !.tick = tick]
    BY <1>1, SessionBefore
  <1>4. PageInv(s)'
    BY <1>1, <1>2, <1>3, SessionBefore, UseAssumption
    DEF PageInv, PageOK, HandlerOK, lockVars
  <1>5. \A q \in Processes : Holds(q, s)'
    BY <1>2, <1>3, SessionBefore DEF Holds
  <1> QED BY <1>1, <1>2, <1>4, <1>5, SessionBefore, SessionStep

-----------------------------------------------------------------------------
(* The steps of a process. *)

\* Processes that begin: pages need theirs to be up, and it stays up.
LEMMA BeginStep == ASSUME IInv, NEW p \in Processes, Begin(p) PROVE IInv'
  <1>1. PICK next \in {"locked", "start", "up"} :
            /\ stage[p] # "up" /\ stage' = [stage EXCEPT ![p] = next]
            /\ \/ next = "locked" /\ lock' = p /\ lock \in {Nobody, p}
               \/ next # "locked" /\ lock' = lock
            /\ \/ updating' = updating
               \/ updating' = updating \cup {p} /\ lock = p /\ lock' = lock
    BY DEF Begin, Launch, StartUpdating, ServerStart, GetLock, GetLockFails, Reach,
           IInv, LockedHolds
  <1>2. UNCHANGED <<page, live, conn>>
    BY DEF Begin
  <1>3. \A q \in Processes : stage'[q] = IF q = p THEN next ELSE stage[q]
    BY <1>1 DEF IInv, TypeOK
  <1>4. \A s \in Sessions : PageInv(s)'
    <2> SUFFICES ASSUME NEW s \in Sessions PROVE PageInv(s)'
      OBVIOUS
    <2>1. PageInv(s) /\ page' = page /\ live' = live
      BY <1>2, Pages DEF IInv, TypeOK
    <2>2. page[s].on # Nowhere => stage'[page[s].on] = "up"
      BY <1>1, <1>3, <2>1 DEF PageInv, PageOK
    <2>3. PageOK(s)'
      BY <2>1, <2>2 DEF PageInv, PageOK
    <2> QED BY <2>1, <2>3 DEF PageInv, HandlerOK
  <1>5. TypeOK'
    BY <1>1, <1>2, <1>3, <1>4 DEF IInv, TypeOK, Stages, PageInv
  <1>6. OneUpdater' /\ LockedHolds'
    BY <1>1, <1>2, <1>3, NobodyAssumption DEF IInv, TypeOK, OneUpdater, LockedHolds
  <1>7. SessionHoldsConn'
    BY <1>2 DEF IInv, SessionHoldsConn
  <1>8. PageInStep' /\ TablesPublished' /\ \A s \in Sessions : HandlerOK(s)'
    BY <1>4 DEF PageInv, PageInStep, TablesPublished
  <1> QED BY <1>5, <1>6, <1>7, <1>8 DEF IInv

\* The worker and the requests of the API: the connection goes between them and
\* nobody, and a sheet may be published.
LEMMA ConnStep ==
    ASSUME IInv, NEW p \in Processes,
           \/ BeginImport(p) \/ Commit(p) \/ Rollback(p)
           \/ BeginRequest(p) \/ EndRequest(p)
    PROVE  IInv'
  <1> DEFINE Own == {Importing, Requesting, Free}
  <1>1. PICK user \in Own :
            /\ conn' = [conn EXCEPT ![p] = user] /\ conn[p] \in Own
            /\ user = Importing => p \in updating
            /\ user # Free => stage[p] # "down"
    <2>1. CASE BeginImport(p)
      BY <2>1 DEF BeginImport, Use, IInv, TypeOK
    <2>2. CASE Commit(p) \/ Rollback(p) \/ EndRequest(p)
      BY <2>2, UseAssumption DEF Commit, Rollback, EndRequest, Use
    <2>3. CASE BeginRequest(p)
      BY <2>3, UseAssumption DEF BeginRequest, Use
    <2> QED BY <2>1, <2>2, <2>3
  <1>2. /\ UNCHANGED <<lockVars, page>> /\ live' \in 0..LastSheet /\ live <= live'
    BY UseAssumption
    DEF BeginImport, Commit, Rollback, BeginRequest, EndRequest, IInv, TypeOK
  <1>3. \A q \in Processes : conn'[q] = IF q = p THEN user ELSE conn[q]
    BY <1>1 DEF IInv, TypeOK
  <1>4. TypeOK'
    <2>1. \A s \in Sessions : PageOK(s)'
      BY <1>2 DEF IInv, TypeOK, PageOK, lockVars
    <2>2. conn' \in [Processes -> Sessions \cup {Importing, Requesting, Free}]
      BY <1>1 DEF IInv, TypeOK
    <2>3. \A q \in Processes : stage[q] = "down" => conn'[q] = Free
      BY <1>1, <1>3 DEF IInv, TypeOK
    <2> QED BY <1>2, <2>1, <2>2, <2>3 DEF IInv, TypeOK, lockVars
  <1>5. OneUpdater' /\ LockedHolds'
    BY <1>1, <1>2, <1>3 DEF IInv, OneUpdater, LockedHolds, lockVars
  <1>6. SessionHoldsConn'
    <2> SUFFICES ASSUME NEW s \in Sessions, NEW q \in Processes
                 PROVE  (conn'[q] = s) <=> (conn[q] = s)
      BY <1>2 DEF IInv, SessionHoldsConn
    <2> QED BY <1>1, <1>3, UseAssumption
  <1>7. PageInStep' /\ \A s \in Sessions : HandlerOK(s)'
    BY <1>2 DEF IInv, PageInStep, HandlerOK
  <1>8. TablesPublished'
    BY <1>2, UseAssumption DEF IInv, TablesPublished, TypeOK, PageOK
  <1> QED BY <1>4, <1>5, <1>6, <1>7, <1>8 DEF IInv

\* The end of a process, with its lock, its transaction and its sessions.
LEMMA EndStep == ASSUME IInv, NEW p \in Processes, EndProcess(p) PROVE IInv'
  <1>1. /\ stage' = [stage EXCEPT ![p] = "down"] /\ updating' = updating \ {p}
        /\ lock' = IF lock = p THEN Nobody ELSE lock
        /\ conn' = [conn EXCEPT ![p] = Free] /\ live' = live
        /\ page' = [s \in Sessions |-> IF page[s].on = p THEN Closed ELSE page[s]]
    BY DEF EndProcess, End, Reach, ReleaseLock, EndSessionsOf, Use
  <1>2. \A q \in Processes : /\ stage'[q] = IF q = p THEN "down" ELSE stage[q]
                            /\ conn'[q] = IF q = p THEN Free ELSE conn[q]
    BY <1>1 DEF IInv, TypeOK
  <1>3. \A s \in Sessions : PageInv(s)'
    <2> SUFFICES ASSUME NEW s \in Sessions PROVE PageInv(s)'
      OBVIOUS
    <2>1. CASE page[s].on = p
      BY <1>1, <2>1, ClosedInv
    <2>2. CASE page[s].on # p
      <3>1. PageInv(s) /\ page'[s] = page[s] /\ live' = live
        BY <1>1, <2>2, Pages DEF IInv, TypeOK
      <3>2. page[s].on # Nowhere => stage'[page[s].on] = "up"
        BY <1>2, <2>2, <3>1 DEF PageInv, PageOK
      <3>3. PageOK(s)'
        BY <3>1, <3>2 DEF PageInv, PageOK
      <3> QED BY <3>1, <3>3 DEF PageInv, HandlerOK
    <2> QED BY <2>1, <2>2
  <1>4. TypeOK'
    <2>1. /\ stage' \in [Processes -> Stages]
          /\ conn' \in [Processes -> Sessions \cup {Importing, Requesting, Free}]
      BY <1>1 DEF IInv, TypeOK, Stages
    <2>2. lock' \in Processes \cup {Nobody} /\ updating' \subseteq Processes
      BY <1>1 DEF IInv, TypeOK
    <2>3. \A q \in Processes : stage'[q] = "down" =>
              lock' # q /\ q \notin updating' /\ conn'[q] = Free
      BY <1>1, <1>2, NobodyAssumption DEF IInv, TypeOK
    <2> QED BY <1>1, <1>3, <2>1, <2>2, <2>3 DEF IInv, TypeOK, PageInv
  <1>5. OneUpdater' /\ LockedHolds'
    BY <1>1, <1>2, UseAssumption DEF IInv, OneUpdater, LockedHolds
  <1>6. SessionHoldsConn'
    <2> SUFFICES ASSUME NEW s \in Sessions, NEW q \in Processes
                 PROVE  conn'[q] = s <=> page'[s].on = q /\ page'[s].handler # "none"
      BY DEF SessionHoldsConn
    <2>1. CASE page[s].on = p
      <3>1. page'[s].handler = "none"
        BY <1>1, <2>1 DEF Closed
      <3>2. conn'[q] # s
        BY <1>2, <2>1, UseAssumption DEF IInv, SessionHoldsConn
      <3> QED BY <3>1, <3>2
    <2>2. CASE page[s].on # p
      BY <1>1, <1>2, <2>2, UseAssumption DEF IInv, SessionHoldsConn
    <2> QED BY <2>1, <2>2
  <1>7. PageInStep' /\ TablesPublished' /\ \A s \in Sessions : HandlerOK(s)'
    BY <1>3 DEF PageInv, PageInStep, TablesPublished
  <1> QED BY <1>4, <1>5, <1>6, <1>7 DEF IInv

-----------------------------------------------------------------------------
LEMMA NextIInv == IInv /\ [Next]_vars => IInv'
  <1> SUFFICES ASSUME IInv, [Next]_vars PROVE IInv'
    OBVIOUS
  <1>1. CASE UNCHANGED vars
    BY <1>1
    DEF vars, IInv, TypeOK, PageOK, OneUpdater, LockedHolds, SessionHoldsConn,
        PageInStep, HandlerOK, TablesPublished
  <1>2. ASSUME NEW p \in Processes, OfProcess(p) PROVE IInv'
    BY <1>2, BeginStep, ConnStep, EndStep DEF OfProcess
  <1>3. ASSUME NEW s \in Sessions, OfSession(s) PROVE IInv'
    <2>1. ASSUME NEW handler \in {"click", "tick"},
                 BeginRefresh(s, handler) \/ BeginThrows(s, handler)
          PROVE  IInv'
      BY <2>1, BeginRefreshStep, BeginThrowsStep
    <2> QED BY <1>3, <2>1, ComeStep, LeaveStep, HideStep, FinishRefreshStep,
               RefreshThrowsStep, TickStep DEF OfSession
  <1> QED BY <1>1, <1>2, <1>3 DEF Next

\* The inductive invariant.
LEMMA Invariance == Spec => []IInv
BY InitIInv, NextIInv, PTL DEF Spec

\* Sessions live in processes that are up, and what ends leaves no lock, no
\* worker and no transaction behind.
THEOREM SiteTypeCorrect == Spec => []TypeOK
  <1>1. IInv => TypeOK
    BY DEF IInv
  <1> QED BY <1>1, Invariance, PTL

\* However many processes are started and ended, one at most updates.
THEOREM UpdaterIsOne == Spec => []OneUpdater
  <1>1. IInv => OneUpdater
    BY DEF IInv
  <1> QED BY <1>1, Invariance, PTL

\* No session leaves its transaction open.
THEOREM SessionsFreeConn == Spec => []SessionHoldsConn
  <1>1. IInv => SessionHoldsConn
    BY DEF IInv
  <1> QED BY <1>1, Invariance, PTL

\* Flag, timer and table of every page stay in step.
THEOREM PagesStayInStep == Spec => []PageInStep
  <1>1. IInv => PageInStep
    BY DEF IInv
  <1> QED BY <1>1, Invariance, PTL

\* What a step does to the table that a session shows.
LEMMA TableSteps ==
    ASSUME IInv, [Next]_vars, NEW s \in Sessions, page'[s].table # NoTable
    PROVE  page'[s].table = page[s].table \/ page'[s].table = live
  <1>1. CASE UNCHANGED vars
    BY <1>1 DEF vars
  <1>2. ASSUME NEW p \in Processes, OfProcess(p)
        PROVE  page'[s].table = page[s].table
    <2>1. CASE EndProcess(p)
      BY <2>1 DEF EndProcess, EndSessionsOf, Closed
    <2>2. CASE ~EndProcess(p)
      <3>1. page' = page
        BY <1>2, <2>2 DEF OfProcess, Begin, BeginImport, Commit, Rollback,
                          BeginRequest, EndRequest
      <3> QED BY <3>1
    <2> QED BY <2>1, <2>2
  <1>3. ASSUME NEW t \in Sessions, OfSession(t)
        PROVE  page'[s].table = page[s].table \/ page'[s].table = live
    <2> DEFINE Kept == page'[s].table = page[s].table
    <2>1. CASE s # t
      BY <1>3, <2>1, SessionBefore
      DEF OfSession, Come, Visit, Leave, EndSession, Hide, HideTable, BeginRefresh,
          BeginHandler, BeginThrows, FinishRefresh, ShownTable, RefreshThrows,
          SendTick, Timeout, LoseTick, DropTick
    <2>2. CASE s = t
      <3>0. page[s] \in PageType /\ DOMAIN page = Sessions
        BY SessionBefore
      <3>1. CASE Come(s)
        BY <3>0, <3>1 DEF Come, Visit, Closed
      <3>2. CASE Leave(s) \/ RefreshThrows(s)
                 \/ \E handler \in {"click", "tick"} : BeginThrows(s, handler)
        BY <3>0, <3>2 DEF Leave, RefreshThrows, BeginThrows, EndSession, Closed
      <3>3. CASE Hide(s)
        BY <3>0, <3>3 DEF Hide, HideTable, PageType
      <3>4. CASE \E handler \in {"click", "tick"} : BeginRefresh(s, handler)
        BY <3>0, <3>4 DEF BeginRefresh, BeginHandler, PageType
      <3>5. CASE FinishRefresh(s)
        <4>1. View(page[s].on) = live
          BY <3>5, SessionBefore, UseAssumption DEF FinishRefresh, View
        <4>2. page'[s].table = View(page[s].on)
          BY <3>0, <3>5 DEF FinishRefresh, ShownTable, PageType
        <4> QED BY <4>1, <4>2
      <3>6. CASE SendTick(s) \/ LoseTick(s)
        BY <3>0, <3>6 DEF SendTick, LoseTick, Timeout, DropTick, PageType
      <3> QED BY <1>3, <2>2, <3>1, <3>2, <3>3, <3>4, <3>5, <3>6 DEF OfSession
    <2> QED BY <2>1, <2>2
  <1> QED BY <1>1, <1>2, <1>3 DEF Next

\* What visitors are shown is published and never goes back.
THEOREM TablesOnlyAdvance == Spec => TablesAdvance
  <1> DEFINE Advance == \A s \in Sessions :
                 page'[s].table # NoTable =>
                     /\ page'[s].table <= live'
                     /\ page[s].table # NoTable => page'[s].table >= page[s].table
  <1>1. IInv /\ IInv' /\ [Next]_vars => Advance
    <2> SUFFICES ASSUME IInv, IInv', [Next]_vars, NEW s \in Sessions,
                        page'[s].table # NoTable
                 PROVE  /\ page'[s].table <= live'
                        /\ page[s].table # NoTable => page'[s].table >= page[s].table
      OBVIOUS
    <2>1. page'[s].table <= live'
      BY DEF IInv, TablesPublished
    <2>2. /\ page[s].table # NoTable => page[s].table \in Nat /\ page[s].table <= live
          /\ live \in Nat
      BY UseAssumption DEF IInv, TablesPublished, TypeOK, PageOK
    <2>3. page'[s].table = page[s].table \/ page'[s].table = live
      BY TableSteps
    <2> QED BY <2>1, <2>2, <2>3
  <1>2. IInv /\ IInv' /\ [Next]_vars => [Advance]_vars
    BY <1>1
  <1> QED BY <1>2, Invariance, PTL DEF Spec, TablesAdvance
=============================================================================
