SPECIFICATION FairSpec
CONSTANTS
    Callers = {c1, c2}
    Threads = {t1, t2}
    Sources = {s1, s2}
    StartImmediately = TRUE
    None = None
INVARIANTS
    TypeOK
    OneUpdate
    RunningHasThread
PROPERTIES
    SettingsFixed
    RunsAndStops
    CallsReturn
CHECK_DEADLOCK FALSE
