SPECIFICATION FairSpec
CONSTANTS
    a = a
    b = b
    c = c
    day9 = day9
    day12 = day12
    Blank = Blank
    Live = Live
    Worker = Worker
    NoTxn = NoTxn
    BrokenFile = BrokenFile
    BareFile = BareFile
    None = None
    Dates <- MCDates
    Sheets <- MCSheets
    Rows <- MCRows
    DateOf <- MorningDates
    TimeOf <- MorningTimes
    LocalReaders = {r1}
    ForeignReaders = {f1}
    Requests <- MCRequests
    Faults = {"network"}
PROPERTIES
    EveryoneFinishes
    Published
    LiveQuotes
