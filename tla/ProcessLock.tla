---------------------------- MODULE ProcessLock ----------------------------
(***************************************************************************)
(* System::GetLock and ReleaseLock, and who calls them in main: the        *)
(* processes of the server that share a lock file, and so a database.      *)
(* Only the one that gets the lock starts the update worker; the others    *)
(* serve without it, and none asks again.                                  *)
(***************************************************************************)
CONSTANTS Processes,
          Nobody        \* no process holds the lock

ASSUME NobodyAssumption == Nobody \notin Processes

VARIABLES lock,       \* the process that holds the record lock on the file
          stage,      \* how far main has come in every process
          updating    \* the processes whose worker runs

lockVars == <<lock, stage, updating>>

Stages == {"down", "locked", "start", "up"}

\* Mutant of GetLock: open() is taken for the lock, and F_SETLK is left out.
GetLockOfFile(p) == lock' = p

\* F_SETLK takes the lock at once when no other process has it.
GetLock(p) == lock \in {Nobody, p} /\ lock' = p

\* open() or fcntl() fails; the former also while the lock is free.
GetLockFails(p) == UNCHANGED lock

\* Mutant of ReleaseLock: a lock file that stays behind.
ReleaseLockNever(p) == UNCHANGED lock

\* The handle is closed by the end of the process alone, however it ends.
ReleaseLock(p) == lock' = IF lock = p THEN Nobody ELSE lock

Reach(p, next) == stage' = [stage EXCEPT ![p] = next]

Launch(p) ==
    /\ stage[p] = "down"
    /\ \/ GetLock(p) /\ Reach(p, "locked")
       \/ GetLockFails(p) /\ Reach(p, "start")
    /\ UNCHANGED updating

\* InitTables, then Start of the worker.
StartUpdating(p) ==
    /\ stage[p] = "locked"
    /\ Reach(p, "start")
    /\ updating' = updating \cup {p}
    /\ UNCHANGED lock

ServerStart(p) ==
    /\ stage[p] = "start"
    /\ Reach(p, "up")
    /\ UNCHANGED <<lock, updating>>

\* The end of main, after an exception or waitForShutdown, or a signal at any
\* time.
End(p) ==
    /\ stage[p] # "down"
    /\ Reach(p, "down")
    /\ updating' = updating \ {p}
    /\ ReleaseLock(p)

LockInit ==
    /\ lock = Nobody
    /\ stage = [p \in Processes |-> "down"]
    /\ updating = {}
=============================================================================
