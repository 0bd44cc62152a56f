SPECIFICATION FairSpec
CONSTANTS
    Main = Main
    Cron = Cron
    Requests = {r1, r2}
    Interruptible = {}
    None = None
PROPERTIES
    SectionsEnd
    TerminatesOnSignal
CHECK_DEADLOCK FALSE
