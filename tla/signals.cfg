SPECIFICATION Spec
CONSTANTS
    Main = Main
    Cron = Cron
    Requests = {r1, r2}
    Interruptible = {Main, Cron}
    None = None
INVARIANTS
    TypeOK
    OneInstance
SYMMETRY SwapRequests
CHECK_DEADLOCK FALSE
