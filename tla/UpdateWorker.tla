---------------------------- MODULE UpdateWorker -----------------------------
(***************************************************************************)
(* StockUpdateWorker: the thread that calls Update every two minutes, and  *)
(* the calls that start it, stop it and change its settings.               *)
(*                                                                         *)
(* Start detaches the thread it creates, so the handle that Stop keeps     *)
(* interrupts nothing: a thread finds out that it was stopped only when it *)
(* has slept to the end and updated once more, and a Start in between      *)
(* gives it company.  Creating the thread may throw when Running is set:   *)
(* the worker then runs without one, a later Start returns early, and Stop *)
(* goes through a handle that is null, which ends the process.  Update is  *)
(* one step here; QuoteService has its steps.                              *)
(***************************************************************************)
EXTENDS Naturals, FiniteSets

CONSTANTS
    Callers,           \* threads that call the worker's methods
    Threads,           \* the cron threads that may be alive at a time
    Sources,           \* values of SourceURL, Interval and TempFile
    StartImmediately,
    None               \* no caller, no thread, no call

ASSUME ActorAssumption ==
    /\ Callers \cap Threads = {}
    /\ None \notin Callers \cup Threads
    /\ Sources # {}

ASSUME StartAssumption == StartImmediately \in BOOLEAN

VARIABLES
    running,      \* Running
    source,       \* the settings
    thread,       \* WorkerThread, a handle that is detached
    mutex,        \* who is inside a section of WorkerMutex
    call,         \* for every caller, the method it is in, or None
    pc,           \* for every cron thread, where it is in Cron
    ended         \* whether Stop has ended the process

vars == <<running, source, thread, mutex, call, pc, ended>>

Calls == [method : {"Start", "Stop", "Get"}] \cup [method : {"Set"}, value : Sources]

Free == {t \in Threads : pc[t] = "none"}

Waiting(method) == {c \in Callers : call[c] # None /\ call[c].method = method}

\* The bound of the model: a Start is made only while a cron thread is left.
Call(c) ==
    /\ ~ended
    /\ call[c] = None
    /\ \E op \in Calls :
          /\ op.method = "Start" => Cardinality(Waiting("Start")) < Cardinality(Free)
          /\ call' = [call EXCEPT ![c] = op]
    /\ UNCHANGED <<running, source, thread, mutex, pc, ended>>

\* The body of a method runs under the mutex from its first line to its last.
Body(c, method) ==
    /\ c \in Waiting(method)
    /\ mutex = None
    /\ call' = [call EXCEPT ![c] = None]
    /\ UNCHANGED mutex

\* Mutant of Start: Running is set after the thread has been created, and the
\* test for it is forgotten.
StartAgain(c) ==
    /\ Body(c, "Start")
    /\ Free # {}
    /\ \E t \in Free : thread' = t /\ pc' = [pc EXCEPT ![t] = "wake"]
    /\ UNCHANGED <<running, source, ended>>

Start(c) ==
    /\ Body(c, "Start")
    /\ IF running
       THEN UNCHANGED <<running, thread, pc>>
       ELSE /\ running' = TRUE
            /\ \E t \in Free :
                  /\ thread' = t
                  /\ pc' = [pc EXCEPT ![t] = IF StartImmediately THEN "wake" ELSE "sleep"]
    /\ UNCHANGED <<source, ended>>

\* The system has no thread or no memory to give: Running is set already.
StartThrows(c) ==
    /\ Body(c, "Start")
    /\ ~running
    /\ running' = TRUE
    /\ UNCHANGED <<source, thread, pc, ended>>

\* interrupt() on a detached handle does nothing.
Stop(c) ==
    /\ Body(c, "Stop")
    /\ running => thread # None
    /\ IF running
       THEN running' = FALSE /\ thread' = None
       ELSE UNCHANGED <<running, thread>>
    /\ UNCHANGED <<source, pc, ended>>

\* interrupt() on the handle of a worker whose thread could not be created.
StopCrashes(c) ==
    /\ c \in Waiting("Stop")
    /\ mutex = None
    /\ running /\ thread = None
    /\ ended' = TRUE
    /\ running' = FALSE
    /\ call' = [d \in Callers |-> None]
    /\ pc' = [t \in Threads |-> "none"]
    /\ UNCHANGED <<source, thread, mutex>>

\* IsRunning and the getters.
Get(c) == Body(c, "Get") /\ UNCHANGED <<running, source, thread, pc, ended>>

\* Mutant of Set: the setters do not ask whether the worker runs.
SetAnyway(c) ==
    /\ Body(c, "Set")
    /\ source' = call[c].value
    /\ UNCHANGED <<running, thread, pc, ended>>

Set(c) ==
    /\ Body(c, "Set")
    /\ source' = IF running THEN source ELSE call[c].value
    /\ UNCHANGED <<running, thread, pc, ended>>

\* The end of sleep_for, first or later.
Wake(t) ==
    /\ pc[t] = "sleep"
    /\ pc' = [pc EXCEPT ![t] = "wake"]
    /\ UNCHANGED <<running, source, thread, mutex, call, ended>>

\* Mutant of BeginUpdate: Update runs outside the mutex.
BeginUpdateUnlocked(t) ==
    /\ pc[t] = "wake"
    /\ pc' = [pc EXCEPT ![t] = "update"]
    /\ UNCHANGED <<running, source, thread, mutex, call, ended>>

BeginUpdate(t) ==
    /\ pc[t] = "wake"
    /\ mutex = None
    /\ mutex' = t
    /\ pc' = [pc EXCEPT ![t] = "update"]
    /\ UNCHANGED <<running, source, thread, call, ended>>

\* Mutant of EndUpdate: the loop is left when the worker runs.
EndUpdateInverted(t) ==
    /\ pc[t] = "update"
    /\ mutex' = None
    /\ pc' = [pc EXCEPT ![t] = IF running THEN "none" ELSE "sleep"]
    /\ UNCHANGED <<running, source, thread, call, ended>>

\* Mutant of EndUpdate: the lock is taken once, around the loop.
EndUpdateLocked(t) ==
    /\ pc[t] = "update"
    /\ IF running
       THEN UNCHANGED <<mutex, pc>>
       ELSE mutex' = None /\ pc' = [pc EXCEPT ![t] = "none"]
    /\ UNCHANGED <<running, source, thread, call, ended>>

\* Running is read in the section in which Update ran.
EndUpdate(t) ==
    /\ pc[t] = "update"
    /\ mutex' = None
    /\ pc' = [pc EXCEPT ![t] = IF running THEN "sleep" ELSE "none"]
    /\ UNCHANGED <<running, source, thread, call, ended>>

Init ==
    /\ running = FALSE
    /\ source \in Sources
    /\ thread = None
    /\ mutex = None
    /\ call = [c \in Callers |-> None]
    /\ pc = [t \in Threads |-> "none"]
    /\ ended = FALSE

Method(c) ==
    \/ Start(c) \/ StartThrows(c)
    \/ Stop(c) \/ StopCrashes(c)
    \/ Get(c) \/ Set(c)

Cron(t) == Wake(t) \/ BeginUpdate(t) \/ EndUpdate(t)

Next ==
    \/ \E c \in Callers : Call(c) \/ Method(c)
    \/ \E t \in Threads : Cron(t)

Spec == Init /\ [][Next]_vars

\* Sleeping and Update end.  Whoever waits for the mutex gets it in the end,
\* since each thread that holds it sleeps two minutes before it asks again.
FairSpec ==
    /\ Spec
    /\ \A c \in Callers : SF_vars(Method(c))
    /\ \A t \in Threads : WF_vars(Wake(t)) /\ WF_vars(EndUpdate(t)) /\ SF_vars(BeginUpdate(t))

-----------------------------------------------------------------------------
TypeOK ==
    /\ running \in BOOLEAN
    /\ source \in Sources
    /\ thread \in Threads \cup {None}
    /\ mutex \in Threads \cup {None}
    /\ call \in [Callers -> Calls \cup {None}]
    /\ pc \in [Threads -> {"none", "sleep", "wake", "update"}]
    /\ thread # None => running
    /\ ended \in BOOLEAN

\* Two cron threads may be alive, but they never update at the same time: there
\* is one import on the shared session.
OneUpdate ==
    \A t, u \in Threads : pc[t] = "update" /\ pc[u] = "update" => t = u

\* A worker that says it runs has a cron thread that goes on, whatever Starts
\* and Stops were made while older threads were asleep; the one exception is a
\* worker whose Start has thrown, which has no handle either.
RunningHasThread ==
    running => thread = None \/ \E t \in Threads : pc[t] # "none"

\* The settings of an update do not change under it, nor those of a worker that
\* runs.
SettingsFixed ==
    [][source' # source => ~running /\ \A t \in Threads : pc[t] # "update"]_vars

\* A worker that was given its thread and is not stopped again updates for ever;
\* one that is not started again comes to rest, all of its threads.
RunsAndStops ==
    /\ <>[](thread # None) => []<>(\E t \in Threads : pc[t] = "update")
    /\ <>[](~running) => <>[](\A t \in Threads : pc[t] = "none")

\* Every call returns, once the update that holds the mutex has ended.
CallsReturn == \A c \in Callers : call[c] # None ~> call[c] = None
=============================================================================
