SPECIFICATION Spec
CONSTANTS
    a = a
    b = b
    c = c
    noHeader = noHeader
    noRow3 = noRow3
    day1 = day1
    day2 = day2
    early = early
    late = late
    Blank = Blank
    Live = Live
    Worker = Worker
    NoTxn = NoTxn
    BrokenFile = BrokenFile
    BareFile = BareFile
    None = None
    Dates <- MCDates
    Sheets <- GapSheets
    Rows <- MCRows
    DateOf <- MCDateOf
    TimeOf <- MCTimeOf
    LocalReaders = {}
    ForeignReaders = {}
    Requests <- LatestOnly
    Faults = {"statement"}
INVARIANTS
    TablesSetEachTime
