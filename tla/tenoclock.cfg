SPECIFICATION FairSpec
CONSTANTS
    a = a
    b = b
    c = c
    day9 = day9
    day12 = day12
    Blank = Blank
    Live = Live
    Worker = Worker
    NoTxn = NoTxn
    BrokenFile = BrokenFile
    BareFile = BareFile
    None = None
    Dates <- MCDates
    Sheets <- MCSheets
    Rows <- MCRows
    DateOf <- TenOClockDates
    TimeOf <- TenOClockTimes
    LocalReaders = {r1}
    ForeignReaders = {}
    Requests <- MCRequests
    Faults = {"network"}
PROPERTIES
    LiveQuotes
