--------------------------- MODULE QuoteRefinement ---------------------------
(***************************************************************************)
(* QuoteService implements QuoteStore, for every set of sheets that have   *)
(* all their rows, as long as the statements of the archiving do not fail. *)
(***************************************************************************)
EXTENDS QuoteStoreProofs

\* Which statements the archiving is made of is used wherever it goes on.
USE DEF InsideArchiving

ArchivingWorks == "archive" \notin Faults

-----------------------------------------------------------------------------
(***************************************************************************)
(* The day that ends is archived.                                          *)
(***************************************************************************)
Archive == Table("ARCHIVE")

RenamedIds == {"STOCK_DATA", "DATA_TITLES"}

\* A table with the name of a day is one of an archived day, but for the days D.
NamesListed(d, D) ==
    \A id \in RenamedIds, date \in Dates \ D :
        TableFromDate(id, date) \in DOMAIN d => date \in DOMAIN d[Archive]

LastDay == LastUpdate(committed).date

LiveDay == [time   |-> LastUpdate(committed).time,
            titles |-> committed[TitlesTable],
            stock  |-> committed[StockTable]]

\* The import of a sheet of another day than the one which is live.
DayEnds == HasLabel(committed) /\ LastDay # DateOf[work]

\* From row 2 on the import has archived the day that ends, and only that.
Rolled ==
    /\ DOMAIN working[Archive] =
           IF DayEnds THEN DOMAIN committed[Archive] \cup {LastDay}
                      ELSE DOMAIN committed[Archive]
    /\ DayEnds /\ LastDay \notin DOMAIN committed[Archive] =>
           ArchivedDay(working, LastDay) = LiveDay

RolloverInv ==
    /\ NamesListed(committed, {})
    /\ IF wpc \in {"rename_titles", "insert_archive"}
       THEN /\ NamesListed(working, {LastDay})
            /\ LastDay \notin DOMAIN committed[Archive]
       ELSE NamesListed(working, {})
    /\ wpc = "rename_titles" => TableFromDate("DATA_TITLES", LastDay) \notin DOMAIN working
    /\ wpc \in {"rename_stock", "rename_titles", "insert_archive"} => DayEnds
    /\ wpc \in InsideImport /\ row > 1 => Rolled

\* The facts of an import that its rollover rests on.
LEMMA LiveDayFacts ==
    ASSUME WholeRows, StoreInv, HasLabel(committed)
    PROVE  /\ LastDay \in Dates
           /\ {LabelTable, TitlesTable, StockTable} \subseteq DOMAIN committed
<1>1. PICK s \in Sheets : /\ LastUpdate(committed) = Label(s)
                          /\ Label(s) = [date |-> DateOf[s], time |-> TimeOf[s]]
                          /\ Holds(committed, TitlesTable, TitlesOf(s))
                          /\ Holds(committed, StockTable, StockOf(s))
  BY LiveLabel DEF StoreInv
<1>. QED  BY <1>1, SheetAssumption DEF LastDay, Holds, HasLabel, LabelTable

\* A statement about a live table adds no table with the name of a day.
LEMMA NamesKept ==
    ASSUME NEW d, NEW e, NEW D, NamesListed(d, D), e[Archive] = d[Archive],
           \A t \in DOMAIN e : t \in DOMAIN d \/ t[2] = Live
    PROVE  NamesListed(e, D)
BY LiveIsNoDate DEF NamesListed, TableFromDate

\* No statement that imports a sheet adds one.
LEMMA ImportAddsNoNames ==
    ASSUME ArchiveInv, ImportSheet, ~HeaderUnchanged
    PROVE  \A t \in DOMAIN working' : t \in DOMAIN working \/ t[2] = Live
<1>1. \A id : Table(id)[2] = Live
  BY DEF Table
<1>2. CASE HeaderSameDay \/ ArchivingFails
  BY <1>2 DEF HeaderSameDay, ArchivingFails, EndOfRow, Statement
<1>3. CASE DropTitles \/ DropStock \/ DropLabel
  BY <1>3 DEF DropTitles, DropStock, DropLabel, Statement, DropTable
<1>4. CASE CreateTitles \/ CreateStock \/ CreateLabel
  BY <1>1, <1>4 DEF CreateTitles, CreateStock, CreateLabel, Statement, CreateTable
<1>5. CASE InsertTitles \/ InsertLabel
  BY <1>5 DEF InsertTitles, InsertLabel, EndOfRow, Statement, Insert
<1>6. CASE InsertRow
  BY <1>6 DEF InsertRow, EndOfRow, Statement, Insert, Update
<1>. QED  BY <1>2, <1>3, <1>4, <1>5, <1>6 DEF ImportSheet

\* The first row of a sheet of the day that is live, or of the first sheet.
LEMMA SameDayRolls ==
    ASSUME WholeRows, StoreInv, RolloverInv, HeaderSameDay
    PROVE  RolloverInv'
<1>1. wpc = "row" /\ row = 1 /\ wpc \in InsideImport
  <2>1. wpc \in InsideImport /\ AtRow(1)
    BY DEF HeaderSameDay, AtRow, InLoop, InsideImport
  <2>. QED  BY <2>1, RowNumber DEF StoreInv, ArchiveInv, TypeInv, TypeOK, ImportOK
<1>2. working = committed
  BY <1>1 DEF StoreInv, Closing
<1>3. wpc' = "row" /\ working' = working /\ committed' = committed /\ work' = work
  BY DEF HeaderSameDay, EndOfRow, Statement, disk
<1>4. ~DayEnds
  BY <1>2 DEF HeaderSameDay, DayEnds, LastDay
<1>5. Rolled'
  BY <1>2, <1>3, <1>4 DEF Rolled, DayEnds, LastDay, HasLabel, LastUpdate
<1>. QED  BY <1>1, <1>3, <1>5 DEF RolloverInv, NamesListed

\* The archiving of the day that ends, statement after statement.
LEMMA ArchivingRolls ==
    ASSUME WholeRows, StoreInv, RolloverInv, Archiving
    PROVE  RolloverInv'
<1>. DEFINE stockName == TableFromDate("STOCK_DATA", LastDay)
            titlesName == TableFromDate("DATA_TITLES", LastDay)
<1>1. /\ committed' = committed /\ work' = work
      /\ Archive \in DOMAIN committed /\ Archive \in DOMAIN working
      /\ wpc \in InsideImport /\ row = 1
  <2>1. ControlOK /\ Archive \in DOMAIN committed /\ Archive \in DOMAIN working
    BY DEF StoreInv, ArchiveInv, TypeInv, TypeOK, DatabaseOK, Archive
  <2>2. wpc \in {"rename_stock", "rename_titles", "insert_archive"} \/ AtRow(1)
    BY DEF Archiving, HeaderNewDay, RenameStock, RenameTitles, InsertArchive
  <2>3. wpc \in InsideImport
    BY <2>2 DEF AtRow, InLoop, InsideImport
  <2>4. row = 1
    BY <2>1, <2>2, <2>3, RowNumber DEF StoreInv, ImportOK, Imported
  <2>. QED  BY <2>1, <2>3, <2>4
            DEF Archiving, HeaderNewDay, RenameStock, RenameTitles, InsertArchive,
                ArchiveTable, EndOfRow, Statement, disk
<1>2. DayEnds' = DayEnds /\ LastDay' = LastDay /\ LiveDay' = LiveDay
      /\ NamesListed(committed, {})'
  BY <1>1 DEF DayEnds, LastDay, LiveDay, HasLabel, LastUpdate, RolloverInv, NamesListed
<1>3. CASE HeaderNewDay
  <2>1. wpc = "row" /\ working = committed
    BY <1>1, <1>3 DEF HeaderNewDay, AtRow, InLoop, StoreInv, Closing
  <2>2. DayEnds /\ wpc' = "rename_stock" /\ working' = working /\ row' = row
    BY <1>3, <2>1 DEF HeaderNewDay, Statement, DayEnds, LastDay
  <2>. QED  BY <1>1, <1>2, <2>1, <2>2 DEF RolloverInv, NamesListed
<1>4. CASE RenameStock
  <2>1. /\ DayEnds /\ HasLabel(committed) /\ working = committed
        /\ ArchiveTable("STOCK_DATA", "rename_titles")
    BY <1>4 DEF RenameStock, RolloverInv, StoreInv, Closing
  <2>2. LastDay \in Dates /\ StockTable \in DOMAIN committed
    BY <2>1, LiveDayFacts
  <2>3. CASE CanRename(working, StockTable, stockName)
    <3>. DEFINE renamed == RenameTable(working, StockTable, stockName)
    <3>1. working' = renamed /\ wpc' = "rename_titles" /\ row' = row
      BY <2>1, <2>3 DEF ArchiveTable, Statement, StockTable, LastDay
    <3>2. stockName \notin DOMAIN committed
      BY <2>1, <2>3 DEF CanRename
    <3>3. LastDay \notin DOMAIN committed[Archive]
      BY <3>2 DEF StoreInv, ArchiveInv, Resolves, Archive
    <3>4. titlesName \notin DOMAIN renamed
      <4>1. titlesName \notin DOMAIN committed
        BY <2>2, <3>3 DEF RolloverInv, NamesListed, RenamedIds
      <4>2. titlesName # stockName
        BY DEF TableFromDate
      <4>. QED  BY <2>1, <4>1, <4>2 DEF RenameTable
    <3>5. renamed[Archive] = committed[Archive]
      <4>1. Archive # stockName /\ Archive # StockTable
        BY DEF Archive, StockTable, Table, TableFromDate
      <4>. QED  BY <1>1, <2>1, <4>1 DEF RenameTable
    <3>6. NamesListed(renamed, {LastDay})
      BY <2>1, <3>5 DEF RolloverInv, NamesListed, RenameTable, TableFromDate
    <3>. QED  BY <1>1, <1>2, <2>1, <3>1, <3>3, <3>4, <3>6
              DEF RolloverInv, NamesListed, LastDay, LastUpdate
  <2>4. CASE ~CanRename(working, StockTable, stockName)
    <3>1. working' = working /\ wpc' = "row"
      BY <2>1, <2>4 DEF ArchiveTable, EndOfRow, Statement, StockTable, LastDay
    <3>2. stockName \in DOMAIN committed
      BY <2>1, <2>2, <2>4 DEF CanRename
    <3>3. LastDay \in DOMAIN committed[Archive]
      BY <2>2, <3>2 DEF RolloverInv, NamesListed, RenamedIds
    <3>4. Rolled'
      BY <1>1, <1>2, <2>1, <3>1, <3>3 DEF Rolled, LastDay
    <3>. QED  BY <1>1, <1>2, <2>1, <3>1, <3>4 DEF RolloverInv, NamesListed
  <2>. QED  BY <2>3, <2>4
<1>5. CASE RenameTitles
  <2>1. /\ DayEnds /\ HasLabel(committed)
        /\ Kept(LabelTable) /\ Kept(Archive) /\ Kept(TitlesTable)
        /\ NamesListed(working, {LastDay}) /\ LastDay \notin DOMAIN committed[Archive]
        /\ titlesName \notin DOMAIN working
        /\ ArchiveTable("DATA_TITLES", "insert_archive")
    BY <1>5 DEF RenameTitles, RolloverInv, StoreInv, Closing, Archive
  <2>2. LastUpdate(working).date = LastDay /\ LastDay \in Dates
    BY <2>1, LiveDayFacts DEF Kept, Holds, LastUpdate, LabelTable, Table, LastDay
  <2>. DEFINE renamed == RenameTable(working, TitlesTable, titlesName)
  <2>3. CanRename(working, TitlesTable, titlesName)
    BY <2>1 DEF CanRename, Kept, Holds
  <2>4. working' = renamed /\ wpc' = "insert_archive" /\ row' = row
    BY <2>1, <2>2, <2>3 DEF ArchiveTable, Statement, TitlesTable
  <2>5. renamed[Archive] = working[Archive]
    BY <1>1, <2>2, LiveIsNoDate DEF RenameTable, Archive, Table, TableFromDate, TitlesTable
  <2>6. NamesListed(renamed, {LastDay})
    BY <2>1, <2>5 DEF NamesListed, RenameTable, TableFromDate
  <2>. QED  BY <1>1, <1>2, <2>1, <2>4, <2>6 DEF RolloverInv, NamesListed
<1>6. CASE InsertArchive
  <2>. DEFINE last == LastUpdate(committed)
              day == [time   |-> last.time, titles |-> titlesName, stock |-> stockName]
              d == Insert(working, Archive, LastDay, day)
  <2>1. /\ DayEnds /\ Kept(LabelTable) /\ Kept(Archive) /\ Kept(titlesName) /\ Kept(stockName)
        /\ NamesListed(working, {LastDay}) /\ LastDay \notin DOMAIN committed[Archive]
    BY <1>6 DEF InsertArchive, RolloverInv, StoreInv, Closing, Archive, LastDay
  <2>2. LastUpdate(working) = last
    BY <2>1 DEF Kept, Holds, LastUpdate, LabelTable, Table
  <2>3. working' = d /\ wpc' = "row"
    BY <1>6, <2>2 DEF InsertArchive, EndOfRow, Statement, LastDay, Archive
  <2>4. working[Archive] = committed[Archive]
    BY <2>1 DEF Kept, Holds, Archive, Table
  <2>5. /\ DOMAIN d = DOMAIN working
        /\ \A t \in DOMAIN working \ {Archive} : d[t] = working[t]
        /\ DOMAIN d[Archive] = DOMAIN working[Archive] \cup {LastDay}
        /\ d[Archive][LastDay] = day
    BY <1>1, <2>1, <2>4 DEF Insert
  <2>6. titlesName # Archive /\ stockName # Archive
    BY DEF Archive, Table, TableFromDate
  <2>7. d[titlesName] = committed[TitlesTable] /\ d[stockName] = committed[StockTable]
    BY <2>1, <2>5, <2>6 DEF Kept, Holds, TableFromDate, TitlesTable, StockTable
  <2>8. ArchivedDay(d, LastDay) = LiveDay
    BY <2>5, <2>7 DEF ArchivedDay, LiveDay, Archive
  <2>9. NamesListed(d, {})
    BY <2>1, <2>5 DEF NamesListed
  <2>10. Rolled'
    BY <1>1, <1>2, <2>1, <2>3, <2>4, <2>5, <2>8 DEF Rolled, ArchivedDay
  <2>. QED  BY <1>1, <1>2, <2>3, <2>9, <2>10 DEF RolloverInv, NamesListed
<1>. QED  BY <1>3, <1>4, <1>5, <1>6 DEF Archiving

\* The other rows leave the archive as row 1 left it.
LEMMA SheetRolls ==
    ASSUME WholeRows, StoreInv, RolloverInv, ArchivingWorks,
           ImportSheet, ~HeaderUnchanged, ~HeaderSameDay
    PROVE  RolloverInv'
<1>1. /\ \/ wpc = "row" /\ InLoop /\ row > 1
         \/ wpc \in {"create_titles", "insert_titles", "create_stock", "insert_row",
                    "create_label", "insert_label"}
         \/ wpc = "row" /\ row \notin DOMAIN Rows[work]
      /\ wpc' \in {"row", "create_titles", "insert_titles", "create_stock", "insert_row",
                   "create_label", "insert_label", "commit"}
      /\ wpc \in InsideImport /\ committed' = committed /\ work' = work
  <2>1. \/ AtRow(2) \/ AtRow(3) \/ AtDataRow
        \/ wpc \in {"create_titles", "insert_titles", "create_stock", "insert_row",
                   "create_label", "insert_label"}
        \/ wpc = "row" /\ row \notin DOMAIN Rows[work]
    <3>1. ~ArchivingFails
      BY DEF ArchivingFails, ArchivingWorks
    <3>2. /\ DropTitles => AtRow(2)
          /\ DropStock => AtRow(3)
          /\ DropLabel => wpc = "row" /\ row \notin DOMAIN Rows[work]
      BY DEF DropTitles, DropStock, DropLabel
    <3>3. InsertRow => wpc = "insert_row" \/ AtDataRow
      BY DEF InsertRow
    <3>4. /\ CreateTitles => wpc = "create_titles"
          /\ InsertTitles => wpc = "insert_titles"
          /\ CreateStock => wpc = "create_stock"
          /\ CreateLabel => wpc = "create_label"
          /\ InsertLabel => wpc = "insert_label"
      BY DEF CreateTitles, InsertTitles, CreateStock, CreateLabel, InsertLabel
    <3>. QED  BY <3>1, <3>2, <3>3, <3>4 DEF ImportSheet
  <2>2. wpc \in InsideImport
    BY <2>1 DEF AtRow, AtDataRow, InLoop, InsideImport
  <2>3. ControlOK /\ Imported(work, working, wpc, row)
    BY <2>2 DEF StoreInv, ArchiveInv, TypeInv, TypeOK, ImportOK
  <2>4. AtRow(2) \/ AtRow(3) \/ AtDataRow => wpc = "row" /\ InLoop /\ row > 1
    BY <2>2, <2>3, RowNumber DEF AtRow, AtDataRow
  <2>5. committed' = committed /\ work' = work
        /\ wpc' \in {"row", "create_titles", "insert_titles", "create_stock", "insert_row",
                   "create_label", "insert_label", "commit"}
    BY DEF ImportSheet, ArchivingFails, ArchivingWorks, DropTitles, CreateTitles,
       InsertTitles, DropStock, CreateStock, InsertRow, DropLabel, CreateLabel, InsertLabel,
       EndOfRow, Statement, disk
  <2>. QED  BY <2>1, <2>2, <2>4, <2>5
<1>2. row > 1
  <2>1. Imported(work, working, wpc, row) /\ work \in Sheets
    BY <1>1 DEF StoreInv, ArchiveInv, TypeInv, TypeOK, ImportOK, ControlOK
  <2>2. Len(Rows[work]) \in Nat /\ Len(Rows[work]) >= 3 /\ DOMAIN Rows[work] = 1..Len(Rows[work])
    BY <2>1, WholeSheet
  <2>. QED  BY <1>1, <2>1, <2>2 DEF Imported
<1>3. Keeps(working, working') /\ working'[Archive] = working[Archive]
  BY <1>1, ImportKeepsDays DEF StoreInv, Archive, InsertArchive
<1>4. NamesListed(working', {})
  <2>1. NamesListed(working, {})
    BY <1>1 DEF RolloverInv
  <2>. QED  BY <1>3, <2>1, ImportAddsNoNames, NamesKept DEF StoreInv
<1>5. Rolled'
  <2>1. Rolled
    BY <1>1, <1>2 DEF RolloverInv
  <2>2. LastDay' = LastDay /\ LiveDay' = LiveDay /\ DayEnds' = DayEnds
    BY <1>1 DEF LastDay, LiveDay, DayEnds, HasLabel, LastUpdate
  <2>3. \A date \in DOMAIN working[Archive] :
           ArchivedDay(working', date) = ArchivedDay(working, date)
    BY <1>3 DEF Keeps, Archive
  <2>. QED  BY <1>1, <1>3, <2>1, <2>2, <2>3 DEF Rolled, ArchivedDay
<1>. QED  BY <1>1, <1>4, <1>5 DEF RolloverInv, NamesListed

\* Every step keeps the rollover on its way.
LEMMA RolloverStep ==
    ASSUME WholeRows, ArchivingWorks, StoreInv, RolloverInv, [Next]_vars
    PROVE  RolloverInv'
<1>. USE DEF StoreInv, ArchiveInv, TypeInv
<1>1. CASE Archiving
  BY <1>1, ArchivingRolls
<1>2. CASE ImportSheet /\ ~HeaderUnchanged
  BY <1>2, SheetRolls, SameDayRolls
<1>3. CASE HeaderUnchanged \/ ImportThrows \/ Crash
  <2>1. committed' = committed /\ working' = committed /\ wpc' \in {"sleep", "cleanup"}
    BY <1>3 DEF HeaderUnchanged, ImportThrows, Rollback, Crash, InitTables, CreateTable,
                TypeOK, DatabaseOK
  <2>. QED  BY <2>1 DEF RolloverInv, NamesListed, InsideImport
<1>4. CASE Commit
  <2>1. committed' = working /\ working' = working /\ wpc' = "cleanup"
        /\ NamesListed(working, {})
    BY <1>4 DEF Commit, RolloverInv
  <2>. QED  BY <2>1 DEF RolloverInv, NamesListed, InsideImport
<1>5. CASE Prepare \/ Cleanup
  <2>1. /\ wpc' \notin InsideImport /\ UNCHANGED db
        /\ wpc \notin {"rename_titles", "insert_archive"}
    BY <1>5 DEF Prepare, Cleanup, StartUpdate, Download, DownloadFails, UnZip, ParseXML,
                InsideImport
  <2>. QED  BY <2>1 DEF RolloverInv, NamesListed, InsideImport, db
<1>6. CASE BeginImport
  <2>1. UNCHANGED <<committed, working>> /\ wpc = "begin"
        /\ (wpc' = "cleanup" \/ (wpc' = "row" /\ row' = 1))
    BY <1>6 DEF BeginImport
  <2>. QED  BY <2>1 DEF RolloverInv, NamesListed, InsideImport
<1>7. ASSUME UNCHANGED <<committed, working, work, worker>>
      PROVE  RolloverInv'
  BY <1>7 DEF RolloverInv, NamesListed, LastDay, LastUpdate, DayEnds, HasLabel, Rolled,
              ArchivedDay, LiveDay, worker
<1>8. ASSUME NEW r \in Readers, BeginRead(r) \/ Reading(r)
      PROVE  RolloverInv'
  <2>1. /\ UNCHANGED <<disk, worker, committed>>
        /\ working' = working \/ (Release(r) /\ rpc[r] # "idle")
    BY <1>8, BeginSteps, ReadingSteps DEF ReaderFrame, TypeOK
  <2>2. CASE working' = working
    BY <1>7, <2>1, <2>2 DEF disk
  <2>3. CASE Release(r) /\ rpc[r] # "idle" /\ working' # working
    <3>1. wpc \notin InsideImport /\ working' = committed
      BY <2>3, ThreadAssumption DEF Release, Rollback, db, SessionOwner, Readers
    <3>. QED  BY <2>1, <3>1 DEF RolloverInv, NamesListed, worker, InsideImport
  <2>. QED  BY <2>1, <2>2, <2>3
<1>9. CASE UNCHANGED vars
  BY <1>7, <1>9 DEF vars, worker
<1>. QED  BY <1>1, <1>2, <1>3, <1>4, <1>5, <1>6, <1>8, <1>9 DEF Next, WorkerStep

\* What the commit of an import does to the days.
LEMMA CommitRolls ==
    ASSUME WholeRows, StoreInv, RolloverInv, Commit
    PROVE  /\ committed' = working /\ work \in Sheets /\ reader' = reader
           /\ Holds(working, LabelTable, Filled({1}, Label(work)))
           /\ Holds(working, TitlesTable, TitlesOf(work))
           /\ Rolled
<1>1. wpc = "commit" /\ committed' = working /\ reader' = reader
  BY DEF Commit
<1>2. work \in Sheets /\ Imported(work, working, "commit", row)
  BY <1>1 DEF StoreInv, ArchiveInv, TypeInv, TypeOK, ControlOK, ImportOK, InsideImport
<1>3. row > 1
  BY <1>2, WholeSheet DEF Imported
<1>. QED  BY <1>1, <1>2, <1>3, CommitIsWhole
          DEF StoreInv, ArchiveInv, RolloverInv, InsideImport

RefineInv == AnswerInv /\ RolloverInv

\* The invariant is inductive.
LEMMA RefineStep == WholeRows /\ ArchivingWorks /\ RefineInv /\ [Next]_vars => RefineInv'
BY AnswerStep, RolloverStep DEF RefineInv, AnswerInv

\* Nothing is renamed at the start.
LEMMA RefineInit == ASSUME WholeRows, Init PROVE RefineInv
<1>1. \A t \in DOMAIN NewDatabase : t[2] = Live
  BY DEF NewDatabase, InitTables, CreateTable, NoRows, Table
<1>2. NamesListed(NewDatabase, {})
  BY <1>1, LiveIsNoDate DEF NamesListed, TableFromDate
<1>. QED  BY <1>2, AnswerInit DEF Init, RefineInv, RolloverInv, InsideImport

\* When the statements of the archiving do not fail, the day that ends is in the
\* archive in the very commit which publishes the first sheet of the next day.
THEOREM DaysAreArchived ==
    ASSUME WholeRows, ArchivingWorks
    PROVE  Spec => DayArchivedOnRollover
<1>1. Init => RefineInv
  BY RefineInit
<1>2. RefineInv /\ [Next]_vars => RefineInv'
  BY RefineStep
<1>3. RefineInv /\ [Next]_vars =>
        [HasLabel(committed) /\ LastUpdate(committed').date # LastUpdate(committed).date =>
          LET date == LastUpdate(committed).date
          IN  /\ date \in DOMAIN committed'[Table("ARCHIVE")]
              /\ date \in DOMAIN committed[Table("ARCHIVE")]
                 \/ ArchivedDay(committed', date) =
                       [time   |-> LastUpdate(committed).time,
                        titles |-> committed[Table("DATA_TITLES")],
                        stock  |-> committed[Table("STOCK_DATA")]]]_vars
  <2>. SUFFICES ASSUME RefineInv, [Next]_vars, HasLabel(committed),
                       LastUpdate(committed').date # LastUpdate(committed).date
                PROVE  LET date == LastUpdate(committed).date
                       IN  /\ date \in DOMAIN committed'[Table("ARCHIVE")]
                           /\ date \in DOMAIN committed[Table("ARCHIVE")]
                              \/ ArchivedDay(committed', date) =
                                    [time   |-> LastUpdate(committed).time,
                                     titles |-> committed[Table("DATA_TITLES")],
                                     stock  |-> committed[Table("STOCK_DATA")]]
    OBVIOUS
  <2>1. Commit
    BY DatabaseSteps DEF RefineInv, AnswerInv, StoreInv, ArchiveInv
  <2>2. /\ committed' = working /\ work \in Sheets /\ Rolled
        /\ Holds(working, LabelTable, Filled({1}, Label(work)))
    BY <2>1, CommitRolls DEF RefineInv, AnswerInv
  <2>3. LastUpdate(committed').date = DateOf[work]
    BY <2>2, WholeSheet DEF Holds, Filled, LastUpdate, LabelTable
  <2>. QED  BY <2>2, <2>3 DEF Rolled, DayEnds, LastDay, LiveDay, Archive, TitlesTable,
                              StockTable
<1>. QED  BY <1>1, <1>2, <1>3, PTL DEF Spec, DayArchivedOnRollover

-----------------------------------------------------------------------------
(***************************************************************************)
(* The store that readers see.                                             *)
(***************************************************************************)
Latest == IF HasLabel(committed) THEN committed[TitlesTable][2] ELSE None

Past == [date \in DOMAIN committed[Archive] |->
            committed[committed[Archive][date].titles][2]]

Held(r) == [status  |-> out[r].status,
            content |-> IF out[r].status = "200"
                        THEN [label |-> out[r].label, titles |-> out[r].titles,
                              data |-> out[r].data]
                        ELSE None]

\* The latest sheet is the live one.
LEMMA LatestIsLive ==
    ASSUME WholeRows, StoreInv, HasLabel(committed)
    PROVE  /\ Latest \in Sheets /\ Latest # None
           /\ LastDay = DateOf[Latest]
           /\ committed[TitlesTable] = TitlesOf(Latest)
<1>1. PICK s \in Sheets : /\ LastUpdate(committed) = Label(s)
                          /\ Label(s) = [date |-> DateOf[s], time |-> TimeOf[s]]
                          /\ Holds(committed, TitlesTable, TitlesOf(s))
  BY LiveLabel DEF StoreInv
<1>2. committed[TitlesTable] = TitlesOf(s) /\ TitlesOf(s)[2] = s
  BY <1>1 DEF Holds, TitlesOf
<1>. QED  BY <1>1, <1>2, SheetAssumption DEF Latest, LastDay

\* The initial state is the empty store.
LEMMA InitRefines == Init => Store!Init
<1>1. ~HasLabel(NewDatabase) /\ NewDatabase[Archive] = NoRows
  BY DEF NewDatabase, InitTables, CreateTable, NoRows, Table, HasLabel, Archive
<1>. QED  BY <1>1 DEF Init, Store!Init, Idle, Asking, Store!Reply, NoRows, Archive

\* Every commit publishes the sheet that was imported.
LEMMA CommitRefines ==
    ASSUME WholeRows, RefineInv, Commit
    PROVE  Store!Next
<1>1. /\ committed' = working /\ work \in Sheets /\ out' = out /\ Rolled
      /\ Holds(working, LabelTable, Filled({1}, Label(work)))
      /\ Holds(working, TitlesTable, TitlesOf(work))
  BY CommitRolls DEF RefineInv, AnswerInv, reader
<1>2. HasLabel(committed') /\ committed'[TitlesTable][2] = work
  BY <1>1 DEF HasLabel, Holds, Filled, TitlesOf, LabelTable
<1>3. Latest' = work
  BY <1>2 DEF Latest
<1>4. \A date \in DOMAIN committed[Archive] : Past'[date] = Past[date]
  <2>. SUFFICES ASSUME NEW date \in DOMAIN committed[Archive]
                PROVE  Past'[date] = Past[date]
    OBVIOUS
  <2>1. date \in DOMAIN working[Archive]
        /\ ArchivedDay(working, date) = ArchivedDay(committed, date)
    BY DEF RefineInv, AnswerInv, StoreInv, ArchiveInv, Keeps, Archive
  <2>2. working[working[Archive][date].titles] = committed[committed[Archive][date].titles]
    BY <2>1 DEF ArchivedDay, Archive
  <2>. QED  BY <1>1, <2>1, <2>2 DEF Past
<1>5. DOMAIN Past = DOMAIN committed[Archive] /\ DOMAIN Past' = DOMAIN working[Archive]
  BY <1>1 DEF Past
<1>. DEFINE closed == IF Latest = None \/ DateOf[Latest] \in DOMAIN Past
                      THEN Past
                      ELSE [d \in DOMAIN Past \cup {DateOf[Latest]} |->
                               IF d = DateOf[Latest] THEN Latest ELSE Past[d]]
<1>6. Past' = IF Latest # None /\ DateOf[Latest] # DateOf[work] THEN closed ELSE Past
  <2>1. CASE DayEnds
    <3>1. Latest # None /\ LastDay = DateOf[Latest] /\ DateOf[Latest] # DateOf[work]
          /\ committed[TitlesTable] = TitlesOf(Latest)
      BY <2>1, LatestIsLive DEF DayEnds, RefineInv, AnswerInv
    <3>2. DOMAIN Past' = DOMAIN Past \cup {DateOf[Latest]}
      BY <1>1, <1>5, <2>1, <3>1 DEF Rolled
    <3>3. DateOf[Latest] \notin DOMAIN Past => Past'[DateOf[Latest]] = Latest
      <4>1. SUFFICES ASSUME DateOf[Latest] \notin DOMAIN Past
                     PROVE  Past'[DateOf[Latest]] = Latest
        OBVIOUS
      <4>2. ArchivedDay(working, LastDay) = LiveDay
        BY <1>1, <1>5, <2>1, <3>1, <4>1 DEF Rolled
      <4>3. working[working[Archive][LastDay].titles] = TitlesOf(Latest)
        BY <3>1, <4>2 DEF ArchivedDay, LiveDay, Archive
      <4>4. TitlesOf(Latest)[2] = Latest
        BY DEF TitlesOf
      <4>. QED  BY <1>1, <1>5, <3>1, <3>2, <4>3, <4>4 DEF Past
    <3>4. Past' = closed
      BY <1>4, <1>5, <3>1, <3>2, <3>3 DEF Past
    <3>. QED  BY <3>1, <3>4
  <2>2. CASE ~DayEnds
    <3>1. Latest = None \/ DateOf[Latest] = DateOf[work]
      BY <2>2, LatestIsLive DEF DayEnds, RefineInv, AnswerInv, Latest
    <3>2. Past' = Past
      BY <1>1, <1>4, <1>5, <2>2 DEF Past, Rolled
    <3>. QED  BY <3>1, <3>2
  <2>. QED  BY <2>1, <2>2
<1>7. PICK s \in Sheets : s = work
  BY <1>1
<1>8. Store!Publish(s)
  <2>1. Store!Closed = closed
    BY DEF Store!Closed, Latest, Past, TitlesTable, Archive
  <2>2. Store!Publish(s)!1
    BY <1>3, <1>7 DEF Latest, TitlesTable
  <2>3. Store!Publish(s)!2
    BY <1>6, <1>7, <2>1 DEF Latest, Past, TitlesTable, Archive
  <2>4. Store!Publish(s)!3
    BY <1>1
  <2>. QED  BY <2>2, <2>3, <2>4 DEF Store!Publish
<1>. QED  BY <1>8 DEF Store!Next

\* The store is left alone where what is committed is; a reader that is given
\* nothing new leaves the answers alone.
LEMMA StoreKept ==
    ASSUME committed' = committed
    PROVE  /\ Latest' = Latest /\ Past' = Past
           /\ (\A r \in Readers : Held(r)' = Held(r)) => UNCHANGED Store!vars
           /\ \A R \in SUBSET Readers, status \in Store!Refusals :
                 (\A r \in Readers : Held(r)' = IF r \in R THEN Store!Reply(status, None)
                                                        ELSE Held(r)) => Store!Next
<1>1. Latest' = Latest /\ Past' = Past
  BY DEF Latest, Past, HasLabel
<1>2. ASSUME \A r \in Readers : Held(r)' = Held(r)
      PROVE  UNCHANGED Store!vars
  BY <1>1, <1>2 DEF Store!vars, Latest, Past, Held, TitlesTable, Archive
<1>3. ASSUME NEW R \in SUBSET Readers, NEW status \in Store!Refusals,
             \A r \in Readers : Held(r)' = IF r \in R THEN Store!Reply(status, None)
                                                   ELSE Held(r)
      PROVE  Store!Next
  <2>1. Store!Refuse(R)
    BY <1>1, <1>3 DEF Store!Refuse, Latest, Past, Held, TitlesTable, Archive
  <2>. QED  BY <2>1 DEF Store!Next
<1>. QED  BY <1>1, <1>2, <1>3

\* The last SELECT of a request answers it with a sheet of the store.
LEMMA AnswerRefines ==
    ASSUME WholeRows, RefineInv, NEW r \in Readers, ReadData(r)
    PROVE  Store!Next
<1>1. /\ committed' = committed
      /\ out' = [out EXCEPT ![r] = out'[r]]
      /\ out'[r].status = "200" /\ out'[r].request = out[r].request
  BY WholeAnswer DEF RefineInv, AnswerInv
<1>2. PICK s \in Sheets :
         /\ Given(r, s)'
         /\ IF Archived(r)
            THEN LET date == out[r].request
                 IN  /\ date \in DOMAIN committed[Table("ARCHIVE")]
                     /\ DateOf[s] = date
                     /\ ArchivedDay(committed, date) = DayOf(s)
            ELSE /\ HasLabel(committed)
                 /\ Holds(committed, TitlesTable, TitlesOf(s))
  BY WholeAnswer DEF RefineInv, AnswerInv
<1>3. DOMAIN out = Readers
  BY DEF RefineInv, AnswerInv, ReadInv, TypeInv, TypeOK, ControlOK
<1>4. /\ Held(r)' = Store!Reply("200", Whole(s))
      /\ \A q \in Readers \ {r} : Held(q)' = Held(q)
  BY <1>1, <1>2, <1>3 DEF Held, Given, Whole, Store!Reply
<1>5. Latest' = Latest /\ Past' = Past
  BY <1>1, StoreKept
<1>6. Store!Answer(r, s)
  BY <1>4, <1>5 DEF Store!Answer, Held, Latest, Past, TitlesTable, Archive
<1>7. CASE Archived(r)
  <2>. DEFINE date == out[r].request
  <2>1. date \in DOMAIN committed[Archive] /\ ArchivedDay(committed, date) = DayOf(s)
    BY <1>2, <1>7 DEF Archive
  <2>2. committed[committed[Archive][date].titles] = TitlesOf(s) /\ TitlesOf(s)[2] = s
    BY <2>1 DEF ArchivedDay, DayOf, Archive, TitlesOf
  <2>3. \E d \in DOMAIN Past : s = Past[d]
    BY <2>1, <2>2 DEF Past
  <2>4. Store!AnswerPast(r)
    BY <1>6, <2>3 DEF Store!AnswerPast, Store!Answer, Past, Archive
  <2>. QED  BY <2>4 DEF Store!Next
<1>8. CASE ~Archived(r)
  <2>1. HasLabel(committed) /\ committed[TitlesTable] = TitlesOf(s) /\ TitlesOf(s)[2] = s
    BY <1>2, <1>8 DEF Holds, TitlesOf
  <2>2. Latest = s /\ s # None
    BY <2>1, SheetAssumption DEF Latest
  <2>3. Store!AnswerLatest(r)
    BY <1>6, <2>2 DEF Store!AnswerLatest, Store!Answer, Latest, TitlesTable
  <2>. QED  BY <2>3 DEF Store!Next
<1>. QED  BY <1>7, <1>8

\* Every other step of a request leaves its answer alone or refuses it.
LEMMA RequestRefines ==
    ASSUME WholeRows, RefineInv, NEW r \in Readers, BeginRead(r) \/ Reading(r)
    PROVE  Store!Next \/ UNCHANGED Store!vars
<1>. DEFINE fields == {"request", "status", "from", "label", "titles", "data"}
<1>1. /\ TypeInv /\ ControlOK /\ DOMAIN out = Readers /\ DOMAIN out[r] = fields
      /\ rpc[r] # "idle" => out[r].status = "asked"
  BY DEF RefineInv, AnswerInv, ReadInv, TypeInv, TypeOK, ControlOK, ReaderOK
<1>2. committed' = committed /\ \A q \in Readers \ {r} : Held(q)' = Held(q)
  BY <1>1, BeginSteps, ReadingSteps DEF ReaderFrame, Held
<1>3. ASSUME NEW status \in {"asked", "404", "500"}, out'[r].status = status
      PROVE  Store!Next
  <2>1. status \in Store!Refusals /\ Held(r)' = Store!Reply(status, None)
    BY <1>3 DEF Store!Refusals, Store!Reply, Held
  <2>2. \A q \in Readers : Held(q)' = IF q \in {r} THEN Store!Reply(status, None)
                                                   ELSE Held(q)
    BY <1>2, <2>1
  <2>. QED  BY <1>2, <2>1, <2>2, StoreKept
<1>4. CASE BeginRead(r)
  <2>1. out'[r].status \in {"asked", "500"}
    <3>1. PICK request \in Requests :
             \/ out'[r] = [Asking(request) EXCEPT !.status = "500"]
             \/ out'[r] = Asking(request)
      BY <1>1, <1>4, BeginSteps
    <3>. QED  BY <3>1 DEF Asking
  <2>. QED  BY <1>3, <2>1
<1>5. CASE ReadData(r)
  BY <1>5, AnswerRefines
<1>6. CASE ReadLabel(r) \/ ReadArchiveRow(r) \/ ReadTitles(r) \/ ReadThrows(r)
  <2>1. out'[r].status \in {"asked", "404", "500"}
    <3>1. \A status \in {"404", "500"} : Refused(r, status).status = status
      BY DEF Refused, Asking
    <3>2. CASE ReadLabel(r) \/ ReadTitles(r)
      BY <1>1, <3>2 DEF ReadLabel, ReadTitles, Advance
    <3>3. CASE ReadArchiveRow(r)
      BY <1>1, <3>1, <3>3 DEF ReadArchiveRow, Advance, Finish
    <3>4. CASE ReadThrows(r)
      BY <1>1, <3>1, <3>4 DEF ReadThrows, Finish
    <3>. QED  BY <1>6, <3>2, <3>3, <3>4
  <2>. QED  BY <1>3, <2>1
<1>. QED  BY <1>4, <1>5, <1>6 DEF Reading

\* A restart refuses the requests of its process.
LEMMA CrashRefines ==
    ASSUME RefineInv, Crash
    PROVE  Store!Next
<1>1. committed' = committed
  BY DEF Crash, InitTables, CreateTable, RefineInv, AnswerInv, ReadInv, TypeInv, TypeOK,
         DatabaseOK
<1>2. \A r \in Readers : Held(r)' = IF r \in LocalReaders THEN Store!Reply("none", None)
                                                        ELSE Held(r)
  BY DEF Crash, Held, Idle, Asking, Store!Reply
<1>3. LocalReaders \in SUBSET Readers /\ "none" \in Store!Refusals
  BY DEF Readers, Store!Refusals
<1>. QED  BY <1>1, <1>2, <1>3, StoreKept

\* Every step of the service is a step of the store, or none of it.
LEMMA NextRefines ==
    ASSUME WholeRows, RefineInv, [Next]_vars
    PROVE  Store!Next \/ UNCHANGED Store!vars
<1>1. CASE Commit
  BY <1>1, CommitRefines
<1>2. CASE WorkerStep /\ ~Commit
  <2>1. committed' = committed /\ out' = out
    BY <1>2, ImportSteps
       DEF WorkerStep, Prepare, StartUpdate, Download, DownloadFails, UnZip, reader,
           ParseXML, BeginImport, Cleanup, ImportFrame, ImportEnds, Rollback, db
  <2>. QED  BY <2>1, StoreKept DEF Held
<1>3. CASE \E r \in Readers : BeginRead(r) \/ Reading(r)
  BY <1>3, RequestRefines
<1>4. CASE Crash
  BY <1>4, CrashRefines
<1>5. CASE UNCHANGED vars
  BY <1>5, StoreKept DEF vars, Held
<1>. QED  BY <1>1, <1>2, <1>3, <1>4, <1>5 DEF Next

\* The service implements the abstract store, for any sheets that have all
\* their rows, any threads, requests and faults but those of the archiving.
THEOREM ServiceImplementsStore ==
    ASSUME WholeRows, ArchivingWorks
    PROVE  Spec => ImplementsStore
<1>1. Init => RefineInv /\ Store!Init
  BY RefineInit, InitRefines
<1>2. RefineInv /\ [Next]_vars => RefineInv'
  BY RefineStep
<1>3. RefineInv /\ [Next]_vars => [Store!Next]_(Store!vars)
  BY NextRefines
<1>. QED  BY <1>1, <1>2, <1>3, PTL DEF Spec, ImplementsStore, Store!Spec
=============================================================================
