SPECIFICATION FairSpec
CONSTANTS
    Processes = {p1, p2}
    Nobody = Nobody
    Sessions = {s1, s2}
    Queries <- MCQueries
    NoTable = NoTable
    Nowhere = Nowhere
    Importing = Importing
    Requesting = Requesting
    Free = Free
    LastSheet = 3
INVARIANTS
    TypeOK
    OneUpdater
    SessionHoldsConn
    PageInStep
PROPERTIES
    TablesAdvance
    TablesAreLive
