SPECIFICATION FairSpec
CONSTANTS
    Main = Main
    Cron = Cron
    Requests = {r1}
    Interruptible = {Main, Cron}
    None = None
PROPERTIES
    TerminatesOnSignal
CHECK_DEADLOCK FALSE
