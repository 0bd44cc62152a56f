---------------------------- MODULE ServerProcess ----------------------------
(***************************************************************************)
(* One process from main to the end of its static objects: the threads,    *)
(* the mutexes they nest, the objects that RT creates when they are first  *)
(* asked for, and SIGTERM.                                                 *)
(*                                                                         *)
(* A thread has a list of instructions left, written below as the source   *)
(* nests them.  A signal handler runs on the thread that it interrupts, so *)
(* its instructions come before those of the thread.                       *)
(***************************************************************************)
EXTENDS Naturals, Sequences, FiniteSets

CONSTANTS
    Main, Cron,       \* the thread of main and the update worker's
    Requests,         \* the threads of the HTTP server
    Interruptible,    \* those of Main and Cron that a handler may run on
    None

ASSUME ThreadAssumption ==
    /\ Main # Cron
    /\ {Main, Cron, None} \cap Requests = {}
    /\ None \notin {Main, Cron}
    /\ Interruptible \subseteq {Main, Cron}

VARIABLES
    todo,         \* for every thread, the instructions it has left
    holder,       \* for every mutex, the thread that holds it
    alive,        \* the objects that exist
    created,      \* how often each object of RT was created
    initialized,  \* Log's Initialized
    signal,       \* "none", "pending" or "taken"
    ended         \* "no", "exit" or "abort"

vars == <<todo, holder, alive, created, initialized, signal, ended>>

Threads == {Main, Cron} \cup Requests

\* The instances of RT.
Objects == {"Storage", "DB", "DBTables", "StockUpdateWorker", "TokenClient",
            "TokenServer"}

\* The static paths inside RT::DB and Update, set by the first call.
Statics == {"DB_FILE", "TEMP_FILE"}

\* The mutex of an instance goes by the name of the instance.
Mutexes == Objects \cup {"WorkerMutex", "LogMutex", "LogStorage"}

-----------------------------------------------------------------------------
(***************************************************************************)
(* The code as instructions.                                               *)
(***************************************************************************)
Words == {"lock", "unlock", "initialize", "assert", "ifnull", "create", "free", "destroy",
          "interrupt", "spawn", "download", "start", "serve", "stop", "end"}

Instructions == [what : Words, on : Mutexes \cup Statics \cup {Cron, None}]

Do(what, on) == <<[what |-> what, on |-> on]>>

Section(mutex, body) == Do("lock", mutex) \o body \o Do("unlock", mutex)

\* Log::Impl::Storage.
LogStorage == Section("LogStorage", << >>)

\* Log::Initialize asks for the Storage again and again; once stands for all.
LogInitialize == LogStorage \o Do("initialize", None)

\* LOG_...: the constructor asserts, the destructor writes.
LogEntry ==
    LogStorage \o Do("assert", None) \o Section("LogMutex", LogStorage)

\* Mutant of Instance: it is looked for without the mutex.
InstanceUnlocked(object) == Do("ifnull", object)

Instance(object) == Section(object, Do("ifnull", object))

Static(path) == Do("ifnull", path)

Storage == Instance("Storage")

DB == Instance("DB")

DBTables == Instance("DBTables")

StockUpdateWorker == Instance("StockUpdateWorker")

TokenClient == Instance("TokenClient")

TokenServer == Instance("TokenServer")

\* The bodies behind ifnull: the paths are in the Storage, and DB has one.
Creation(object) ==
    (CASE object = "DB" -> Static("DB_FILE")
       [] object \in Statics -> Storage
       [] OTHER -> << >>) \o Do("create", object)

InitTables == DBTables \o DB

Start == Section("WorkerMutex", LogEntry \o Do("spawn", Cron))

\* exit or the return from main: the body of RT::Impl's destructor, its members
\* in reverse order, those included that a thread created again, and Log's.
Exit ==
    Do("free", "Storage") \o Do("free", "DB") \o Do("destroy", "StockUpdateWorker")
        \o Do("free", "TokenClient") \o Do("free", "TokenServer")
        \o Do("free", "DBTables") \o Do("free", "DB") \o Do("free", "Storage")
        \o LogStorage \o Do("end", None)

MainProgram(gotLock) ==
    Storage \o LogInitialize \o LogEntry \o LogEntry
        \o (IF gotLock THEN InitTables \o StockUpdateWorker \o Start ELSE << >>)
        \o LogEntry \o Do("start", None) \o Do("serve", None) \o Do("stop", None) \o Exit

\* Mutant of Update: it calls the getter of the URL.
UpdateByGetter ==
    Static("TEMP_FILE") \o Section("WorkerMutex", << >>) \o Do("download", None)
        \o DB \o DBTables \o LogEntry

\* An update that fails logs; one that does not is a part of this.  It asks for
\* its instances over and over: once stands for all.
Update ==
    Static("TEMP_FILE") \o Do("download", None) \o DB \o DBTables \o LogEntry

CronRound == Section("WorkerMutex", Update)

RequestQuotes == TokenClient \o DB \o DBTables

RequestToken == TokenServer

Terminate == LogEntry \o Exit

\* What is left when the database cannot be opened: main logs and returns, Update
\* logs under WorkerMutex, a request is answered with 500.
AfterThrow(t) ==
    CASE t = Main -> LogEntry \o Exit
      [] t = Cron -> LogEntry \o Do("unlock", "WorkerMutex")
      [] OTHER    -> << >>

-----------------------------------------------------------------------------
Instruction(t) == Head(todo[t])

At(t, what) == ended = "no" /\ todo[t] # << >> /\ Instruction(t).what = what

Done(t) == todo' = [todo EXCEPT ![t] = Tail(@)]

\* Mutant of Lock: a mutex that is held is taken over.
LockTakenOver(t) ==
    /\ At(t, "lock")
    /\ holder' = [holder EXCEPT ![Instruction(t).on] = t]
    /\ Done(t)
    /\ UNCHANGED <<alive, created, initialized, signal, ended>>

\* A mutex that the thread itself holds is as closed as one of another thread.
Lock(t) ==
    /\ At(t, "lock")
    /\ holder[Instruction(t).on] = None
    /\ holder' = [holder EXCEPT ![Instruction(t).on] = t]
    /\ Done(t)
    /\ UNCHANGED <<alive, created, initialized, signal, ended>>

Unlock(t) ==
    /\ At(t, "unlock")
    /\ holder' = [holder EXCEPT ![Instruction(t).on] = None]
    /\ Done(t)
    /\ UNCHANGED <<alive, created, initialized, signal, ended>>

Initialize(t) ==
    /\ At(t, "initialize")
    /\ initialized' = TRUE
    /\ Done(t)
    /\ UNCHANGED <<holder, alive, created, signal, ended>>

AssertInitialized(t) ==
    /\ At(t, "assert")
    /\ ended' = IF initialized THEN "no" ELSE "abort"
    /\ Done(t)
    /\ UNCHANGED <<holder, alive, created, initialized, signal>>

\* The creation is passed over when the instance exists.
IfNull(t) ==
    /\ At(t, "ifnull")
    /\ LET object == Instruction(t).on
       IN  todo' = [todo EXCEPT ![t] =
                       IF object \in alive THEN Tail(@) ELSE Creation(object) \o Tail(@)]
    /\ UNCHANGED <<holder, alive, created, initialized, signal, ended>>

\* The bound of the model: two creations are counted like three.
Create(t) ==
    /\ At(t, "create")
    /\ alive' = alive \cup {Instruction(t).on}
    /\ created' = [created EXCEPT ![Instruction(t).on] = IF @ < 2 THEN @ + 1 ELSE @]
    /\ Done(t)
    /\ UNCHANGED <<holder, initialized, signal, ended>>

\* The database cannot be opened: the instance stays null, its mutex is freed.
CreateThrows(t) ==
    /\ At(t, "create")
    /\ Instruction(t).on = "DB"
    /\ todo' = [todo EXCEPT ![t] = AfterThrow(t)]
    /\ holder' = [holder EXCEPT !["DB"] = None]
    /\ UNCHANGED <<alive, created, initialized, signal, ended>>

Free(t) ==
    /\ At(t, "free")
    /\ alive' = alive \ {Instruction(t).on}
    /\ Done(t)
    /\ UNCHANGED <<holder, created, initialized, signal, ended>>

\* ~Impl of the worker takes WorkerMutex, and calls interrupt() through a
\* handle that is null when no thread was created.
Destroy(t) ==
    /\ At(t, "destroy")
    /\ IF Instruction(t).on \in alive
       THEN todo' = [todo EXCEPT ![t] =
                Section("WorkerMutex", Do("interrupt", Cron))
                    \o Do("free", Instruction(t).on) \o Tail(@)]
       ELSE Done(t)
    /\ UNCHANGED <<holder, alive, created, initialized, signal, ended>>

Spawned == "cron" \in alive

Interrupt(t) ==
    /\ At(t, "interrupt")
    /\ ended' = IF Spawned THEN "no" ELSE "abort"
    /\ Done(t)
    /\ UNCHANGED <<holder, alive, created, initialized, signal>>

Spawn(t) ==
    /\ At(t, "spawn")
    /\ alive' = alive \cup {"cron"}
    /\ Done(t)
    /\ UNCHANGED <<holder, created, initialized, signal, ended>>

\* The thread cannot be created: Start frees its mutex and main logs and returns.
SpawnThrows(t) ==
    /\ At(t, "spawn")
    /\ todo' = [todo EXCEPT ![t] = Do("unlock", "WorkerMutex") \o LogEntry \o Exit]
    /\ UNCHANGED <<holder, alive, created, initialized, signal, ended>>

\* HTTP::DownloadFile, which sets no timeout, returns.
Download(t) ==
    /\ At(t, "download")
    /\ Done(t)
    /\ UNCHANGED <<holder, alive, created, initialized, signal, ended>>

End(t) ==
    /\ At(t, "end")
    /\ ended' = "exit"
    /\ Done(t)
    /\ UNCHANGED <<holder, alive, created, initialized, signal>>

\* The next round of Cron, after its sleep.
Wake ==
    /\ ended = "no"
    /\ Spawned
    /\ todo[Cron] = << >>
    /\ todo' = [todo EXCEPT ![Cron] = CronRound]
    /\ UNCHANGED <<holder, alive, created, initialized, signal, ended>>

\* server.start() may refuse or throw: nothing is served and nothing stopped.
ServerStart(t) ==
    /\ At(t, "start")
    /\ \/ Done(t)
       \/ \E rest \in {Exit, LogEntry \o Exit} : todo' = [todo EXCEPT ![t] = rest]
    /\ UNCHANGED <<holder, alive, created, initialized, signal, ended>>

Serving == At(Main, "serve")

Receive(r) ==
    /\ Serving
    /\ todo[r] = << >>
    /\ \E request \in {RequestQuotes, RequestToken} : todo' = [todo EXCEPT ![r] = request]
    /\ UNCHANGED <<holder, alive, created, initialized, signal, ended>>

-----------------------------------------------------------------------------
(***************************************************************************)
(* SIGTERM.  waitForShutdown takes it without the handler; the threads of  *)
(* the HTTP server block it.                                               *)
(***************************************************************************)
Kill ==
    /\ ended = "no"
    /\ signal = "none"
    /\ signal' = "pending"
    /\ UNCHANGED <<todo, holder, alive, created, initialized, ended>>

WaitForShutdown ==
    /\ Serving
    /\ signal = "pending"
    /\ signal' = "taken"
    /\ Done(Main)
    /\ UNCHANGED <<holder, alive, created, initialized, ended>>

Handle(t) ==
    /\ ended = "no"
    /\ signal = "pending"
    /\ t \in Interruptible
    /\ t = Main => ~Serving
    /\ t = Cron => Spawned
    /\ signal' = "taken"
    /\ todo' = [todo EXCEPT ![t] = Terminate \o @]
    /\ UNCHANGED <<holder, alive, created, initialized, ended>>

\* server.stop() joins the threads of the server.
Stop(t) ==
    /\ At(t, "stop")
    /\ \A r \in Requests : todo[r] = << >>
    /\ Done(t)
    /\ UNCHANGED <<holder, alive, created, initialized, signal, ended>>

-----------------------------------------------------------------------------
Init ==
    /\ \E gotLock \in BOOLEAN :
          todo = [t \in Threads |-> IF t = Main THEN MainProgram(gotLock) ELSE << >>]
    /\ holder = [m \in Mutexes |-> None]
    /\ alive = {}
    /\ created = [o \in Objects \cup Statics |-> 0]
    /\ initialized = FALSE
    /\ signal = "none"
    /\ ended = "no"

Step(t) ==
    \/ Lock(t) \/ Unlock(t)
    \/ Initialize(t) \/ AssertInitialized(t)
    \/ IfNull(t) \/ Create(t) \/ CreateThrows(t)
    \/ Free(t) \/ Destroy(t) \/ Interrupt(t)
    \/ Spawn(t) \/ SpawnThrows(t) \/ Download(t)
    \/ ServerStart(t) \/ Stop(t) \/ End(t)

Next ==
    \/ \E t \in Threads : Step(t) \/ Handle(t)
    \/ \E r \in Requests : Receive(r)
    \/ Wake \/ Kill \/ WaitForShutdown

Spec == Init /\ [][Next]_vars

\* Threads run, and one that waits for a mutex that is freed again and again
\* gets it: its holders sleep for minutes or wait for requests in between.  That
\* a download ends is an assumption, since no timeout makes it end.
FairSpec ==
    /\ Spec
    /\ \A t \in Threads : SF_vars(Step(t))
    /\ WF_vars(WaitForShutdown)

-----------------------------------------------------------------------------
Count(program, what, on) ==
    Cardinality({i \in DOMAIN program : program[i] = [what |-> what, on |-> on]})

\* The type of the state, and that a mutex is held by the one thread that is
\* inside its section, handlers and the teardown included.
TypeOK ==
    /\ todo \in [Threads -> Seq(Instructions)]
    /\ holder \in [Mutexes -> Threads \cup {None}]
    /\ alive \subseteq Objects \cup Statics \cup {"cron"}
    /\ created \in [Objects \cup Statics -> 0..2]
    /\ initialized \in BOOLEAN
    /\ signal \in {"none", "pending", "taken"}
    /\ ended \in {"no", "exit", "abort"}
    /\ \A t \in Threads, m \in Mutexes :
          holder[m] = t <=> Count(todo[t], "unlock", m) > Count(todo[t], "lock", m)

\* Some thread destroys the members of RT, at the end of main or by exit().
Leaving ==
    \/ ended # "no"
    \/ \E t \in Threads :
          2 * Count(todo[t], "end", None) > Count(todo[t], "free", "Storage")

\* Whoever asks first creates it, and only one does: until it takes them down the
\* process has one session with the database, one worker, one of each instance,
\* although opening the database may fail at the first tries.
OneInstance == ~Leaving => \A o \in DOMAIN created : created[o] <= 1

\* However the threads nest their mutexes, each gets on: what one holds it gives
\* back, provided that every download ends.
SectionsEnd == \A m \in Mutexes : []<>(holder[m] = None \/ ended # "no")

\* SIGTERM ends the process, once the download that goes on, if any, has ended.
TerminatesOnSignal == signal = "pending" ~> ended # "no"
=============================================================================
