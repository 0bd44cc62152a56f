-------------------------- MODULE UpdateWorkerProofs --------------------------
(***************************************************************************)
(* The worker's mutex and its flag, for any number of callers, threads and *)
(* settings.                                                               *)
(***************************************************************************)
EXTENDS UpdateWorker, TLAPS

\* WorkerMutex is held by the thread that is inside Update, and by no other.
MutexIsUpdates == \A t \in Threads : pc[t] = "update" <=> mutex = t

Inv == TypeOK /\ MutexIsUpdates /\ RunningHasThread

\* The first state.
LEMMA InvInit == Init => Inv
BY ActorAssumption DEF Init, Inv, TypeOK, MutexIsUpdates, RunningHasThread

\* A body runs outside every update: the mutex is free.
LEMMA BodyOutside ==
    ASSUME Inv, NEW c \in Callers, NEW method, Body(c, method)
    PROVE  /\ \A t \in Threads : pc[t] # "update"
           /\ mutex' = mutex
           /\ call' \in [Callers -> Calls \cup {None}]
           /\ call[c] \in Calls /\ call[c].method = method
BY ActorAssumption DEF Body, Waiting, Inv, TypeOK, MutexIsUpdates

\* A caller gets in line.
LEMMA CallStep == ASSUME Inv, NEW c \in Callers, Call(c) PROVE Inv'
<1>1. call' \in [Callers -> Calls \cup {None}]  BY DEF Call, Inv, TypeOK
<1>. QED  BY <1>1 DEF Call, Inv, TypeOK, MutexIsUpdates, RunningHasThread

\* Start, which is the only way to a new thread.
LEMMA StartStep == ASSUME Inv, NEW c \in Callers, Start(c) PROVE Inv'
<1>1. Body(c, "Start") /\ source' = source /\ ended' = ended  BY DEF Start
<1>2. /\ \A t \in Threads : pc[t] # "update"
      /\ mutex' = mutex
      /\ call' \in [Callers -> Calls \cup {None}]
  BY <1>1, BodyOutside
<1>3. CASE running
  BY <1>1, <1>2, <1>3 DEF Start, Inv, TypeOK, MutexIsUpdates, RunningHasThread
<1>4. CASE ~running
  <2>1. PICK t \in Threads :
            /\ running' = TRUE /\ thread' = t
            /\ pc' = [pc EXCEPT ![t] = IF StartImmediately THEN "wake" ELSE "sleep"]
    BY <1>4 DEF Start, Free
  <2>2. pc'[t] # "none" /\ pc' \in [Threads -> {"none", "sleep", "wake", "update"}]
    BY <2>1 DEF Inv, TypeOK
  <2>3. \A u \in Threads : pc'[u] # "update" /\ mutex # u
    BY <1>2, <2>1 DEF Inv, TypeOK, MutexIsUpdates
  <2>. QED
    BY <1>1, <1>2, <2>1, <2>2, <2>3, ActorAssumption
    DEF Inv, TypeOK, MutexIsUpdates, RunningHasThread
<1>. QED  BY <1>3, <1>4

\* Start, when the thread cannot be created: there is no handle.
LEMMA StartThrowsStep == ASSUME Inv, NEW c \in Callers, StartThrows(c) PROVE Inv'
<1>1. Body(c, "Start") /\ ~running /\ UNCHANGED <<source, thread, pc, ended>>
  BY DEF StartThrows
<1>2. mutex' = mutex /\ call' \in [Callers -> Calls \cup {None}]
  BY <1>1, BodyOutside
<1>3. thread = None /\ running' = TRUE
  BY <1>1, ActorAssumption DEF StartThrows, Inv, TypeOK
<1>. QED
  BY <1>1, <1>2, <1>3 DEF Inv, TypeOK, MutexIsUpdates, RunningHasThread

\* Stop, when there is no handle: nothing is left of the process.
LEMMA StopCrashesStep == ASSUME Inv, NEW c \in Callers, StopCrashes(c) PROVE Inv'
<1>1. call' \in [Callers -> Calls \cup {None}]  BY DEF StopCrashes
<1>2. pc' \in [Threads -> {"none", "sleep", "wake", "update"}]
  BY DEF StopCrashes
<1>3. \A t \in Threads : pc'[t] = "none" /\ mutex' # t
  BY ActorAssumption DEF StopCrashes
<1>. QED
  BY <1>1, <1>2, <1>3
  DEF StopCrashes, Inv, TypeOK, MutexIsUpdates, RunningHasThread

\* Stop.
LEMMA StopStep == ASSUME Inv, NEW c \in Callers, Stop(c) PROVE Inv'
<1>1. Body(c, "Stop") /\ UNCHANGED <<source, pc, ended>>  BY DEF Stop
<1>2. mutex' = mutex /\ call' \in [Callers -> Calls \cup {None}]
  BY <1>1, BodyOutside
<1>. QED
  BY <1>1, <1>2, ActorAssumption
  DEF Stop, Inv, TypeOK, MutexIsUpdates, RunningHasThread

\* A getter.
LEMMA GetStep == ASSUME Inv, NEW c \in Callers, Get(c) PROVE Inv'
<1>1. Body(c, "Get")  BY DEF Get
<1>2. mutex' = mutex /\ call' \in [Callers -> Calls \cup {None}]
  BY <1>1, BodyOutside
<1>. QED
  BY <1>2 DEF Get, Inv, TypeOK, MutexIsUpdates, RunningHasThread

\* A setter.
LEMMA SetStep == ASSUME Inv, NEW c \in Callers, Set(c) PROVE Inv'
<1>1. Body(c, "Set")  BY DEF Set
<1>2. /\ mutex' = mutex /\ call' \in [Callers -> Calls \cup {None}]
      /\ call[c] \in Calls /\ call[c].method = "Set"
  BY <1>1, BodyOutside
<1>3. call[c].value \in Sources
  BY <1>2 DEF Calls
<1>. QED
  BY <1>2, <1>3 DEF Set, Inv, TypeOK, MutexIsUpdates, RunningHasThread

\* The thread.
LEMMA CronStep == ASSUME Inv, NEW t \in Threads, Cron(t) PROVE Inv'
<1>1. CASE Wake(t)
  BY <1>1 DEF Wake, Inv, TypeOK, MutexIsUpdates, RunningHasThread
<1>2. CASE BeginUpdate(t)
  BY <1>2, ActorAssumption
  DEF BeginUpdate, Inv, TypeOK, MutexIsUpdates, RunningHasThread
<1>3. CASE EndUpdate(t)
  BY <1>3, ActorAssumption
  DEF EndUpdate, Inv, TypeOK, MutexIsUpdates, RunningHasThread
<1>. QED  BY <1>1, <1>2, <1>3 DEF Cron

\* The invariant is inductive.
LEMMA InvStep == Inv /\ [Next]_vars => Inv'
<1>. SUFFICES ASSUME Inv, [Next]_vars PROVE Inv'
  OBVIOUS
<1>1. CASE \E c \in Callers : Call(c) \/ Method(c)
  BY <1>1, CallStep, StartStep, StartThrowsStep, StopStep, StopCrashesStep,
     GetStep, SetStep DEF Method
<1>2. CASE \E t \in Threads : Cron(t)
  BY <1>2, CronStep
<1>3. CASE UNCHANGED vars
  BY <1>3 DEF vars, Inv, TypeOK, MutexIsUpdates, RunningHasThread
<1>. QED  BY <1>1, <1>2, <1>3 DEF Next

\* It holds in every state.
LEMMA Invariant == Spec => []Inv
BY InvInit, InvStep, PTL DEF Spec

\* Every state of the worker is well typed, and it has a handle only if it runs.
THEOREM WorkerTypeCorrect == Spec => []TypeOK
<1>1. Inv => TypeOK  BY DEF Inv
<1>. QED  BY <1>1, Invariant, PTL

\* However often the worker is stopped and started while older threads sleep,
\* no two of them are inside Update: WorkerMutex is the one that they share.
THEOREM UpdatesExclude == Spec => []OneUpdate
<1>1. Inv => OneUpdate  BY DEF Inv, MutexIsUpdates, OneUpdate
<1>. QED  BY <1>1, Invariant, PTL

\* IsRunning tells the truth: while it returns true there is a thread that will
\* update again, unless the worker has no handle because Start has thrown.
THEOREM RunningIsAlive == Spec => []RunningHasThread
<1>1. Inv => RunningHasThread  BY DEF Inv
<1>. QED  BY <1>1, Invariant, PTL

\* The URL and the files of an update are those it began with.
THEOREM SettingsStay == Spec => SettingsFixed
<1>. DEFINE Fixed ==
              source' # source => ~running /\ \A t \in Threads : pc[t] # "update"
<1>1. Inv /\ [Next]_vars => [Fixed]_vars
  <2>. SUFFICES ASSUME Inv, Next, source' # source
                PROVE  ~running /\ \A t \in Threads : pc[t] # "update"
    OBVIOUS
  <2>1. PICK c \in Callers : Set(c)
    BY DEF Next, Call, Method, Start, StartThrows, Stop, StopCrashes, Get, Cron, Wake, BeginUpdate, EndUpdate
  <2>2. Body(c, "Set") /\ ~running  BY <2>1 DEF Set
  <2>. QED  BY <2>2, BodyOutside
<1>. QED  BY <1>1, Invariant, PTL DEF Spec, SettingsFixed
=============================================================================
