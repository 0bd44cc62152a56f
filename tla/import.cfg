SPECIFICATION Spec
CONSTANTS
    a = a
    b = b
    c = c
    noHeader = noHeader
    noRow3 = noRow3
    day1 = day1
    day2 = day2
    early = early
    late = late
    Blank = Blank
    Live = Live
    Worker = Worker
    NoTxn = NoTxn
    BrokenFile = BrokenFile
    BareFile = BareFile
    None = None
    Dates <- MCDates
    Sheets <- WholeSheets
    Rows <- MCRows
    DateOf <- MCDateOf
    TimeOf <- MCTimeOf
    LocalReaders = {r1}
    ForeignReaders = {f1}
    Requests <- MCRequests
    Faults = {"statement", "network", "crash"}
INVARIANTS
    TypeOK
    AnswersWhole
    ImportsDownloaded
    SessionOwner
    RepeatableRead
PROPERTIES
    DayArchivedOnRollover
    ImplementsStore
