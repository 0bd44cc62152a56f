----------------------------- MODULE QuoteService ----------------------------
(***************************************************************************)
(* The stock quote database between its one writer, the update worker, and *)
(* its readers, the REST handlers and the home page.                       *)
(*                                                                         *)
(* The worker and the readers of a process share one cppdb session, hence  *)
(* one SQLite connection, with no lock around it.  BEGIN on a connection   *)
(* with an open transaction is an error, so a transaction is also what     *)
(* keeps the threads of the process apart.  A process that did not get the *)
(* process lock runs no worker, yet it serves requests on a connection of  *)
(* its own; between them only SQLite's file locks decide.                  *)
(***************************************************************************)
EXTENDS Database, Sequences, Naturals

CONSTANTS
    Sheets,           \* the spreadsheets the source may serve
    Rows,             \* for every sheet, the r attributes of its rows
    DateOf, TimeOf,   \* for every sheet, what the header's regexes find
    Blank,            \* the date or time of a sheet where they find none
    LocalReaders,     \* request threads of the process that has the worker
    ForeignReaders,   \* request threads of the other processes
    Requests,         \* of {"latest", "home"} and the dates to ask for
    Faults,           \* of {"statement", "archive", "network", "crash"}
    Worker, NoTxn,    \* the owner of the local transaction, if not a reader
    BrokenFile,       \* a download that is no zip archive
    BareFile,         \* a zip archive without the parts of a spreadsheet
    None              \* no file, no sheet, nothing read yet

Readers == LocalReaders \cup ForeignReaders

\* Rows from 3 on have no more cells than row 2: what tableFieldsId[col] is
\* beyond its end, the code does not say.
ASSUME SheetAssumption ==
    /\ Rows \in [Sheets -> Seq(Nat \ {0})]
    /\ DateOf \in [Sheets -> Dates]
    /\ Blank \in Dates
    /\ None \notin Sheets

ASSUME ThreadAssumption ==
    /\ LocalReaders \cap ForeignReaders = {}
    /\ {Worker, NoTxn} \cap Readers = {}
    /\ Worker # NoTxn

ASSUME RequestAssumption ==
    /\ Requests \subseteq {"latest", "home"} \cup Dates
    /\ {"latest", "home"} \cap Dates = {}

VARIABLES
    committed,   \* the database file
    working,     \* the database as the local connection sees it
    txn,         \* whose BEGIN opened the local connection's transaction
    file, work,  \* TEMP_FILE, and the sheet whose parts are in WORK_DIR
    wpc, row,    \* the worker's next statement, the row it imports
    rpc, out     \* every reader's next statement, what it has read so far

db     == <<committed, working, txn>>
disk   == <<file, work>>
worker == <<wpc, row>>
reader == <<rpc, out>>
vars   == <<committed, working, txn, file, work, wpc, row, rpc, out>>

(***************************************************************************)
(* The label of a sheet: the date and time that Update found in cell A1 of *)
(* row 1, both empty when there is no such row.                            *)
(***************************************************************************)
HasHeader(s) == \E i \in DOMAIN Rows[s] : Rows[s][i] = 1

Label(s) == IF HasHeader(s)
            THEN [date |-> DateOf[s], time |-> TimeOf[s]]
            ELSE [date |-> Blank, time |-> Blank]

LastUpdate(d) == d[Table("LAST_UPDATE")][1]

HasLabel(d) == /\ Table("LAST_UPDATE") \in DOMAIN d
               /\ 1 \in DOMAIN d[Table("LAST_UPDATE")]

(***************************************************************************)
(* Transactions.  rollback() acts on the connection, whoever has begun the *)
(* transaction.  A foreign reader holds SQLite's SHARED lock from its      *)
(* first SELECT to its ROLLBACK, and no COMMIT gets past it.               *)
(***************************************************************************)
\* Mutant of SharedLock: the lock is given up between two SELECTs.
SharedLockPerSelect == FALSE

SharedLock == \E r \in ForeignReaders : rpc[r] \in {"titles", "data"}

Rollback == /\ txn' = NoTxn
            /\ working' = committed
            /\ UNCHANGED committed

\* Mutant of View: a shared cache lets the other processes read uncommitted.
ViewUncommitted(r) == working

View(r) == IF r \in LocalReaders THEN working ELSE committed

\* Mutant of Release: a handler that returns without rolling back.
ReleaseForgotten(r) == UNCHANGED db

Release(r) == IF r \in LocalReaders THEN Rollback ELSE UNCHANGED db

(***************************************************************************)
(* Update, up to the transaction: files.                                   *)
(***************************************************************************)
\* Mutant of StartUpdate: WORK_DIR is left as it is.
StartUpdateKeepsParts ==
    /\ wpc = "sleep"
    /\ wpc' = "download"
    /\ file' = None
    /\ UNCHANGED <<work, row, db, reader>>

StartUpdate ==
    /\ wpc = "sleep"
    /\ wpc' = "download"
    /\ file' = None
    /\ work' = None
    /\ UNCHANGED <<row, db, reader>>

\* DownloadFile stores whatever the server sends, an error page included.
Download ==
    /\ wpc = "download"
    /\ \E f \in Sheets \cup {BrokenFile, BareFile} : file' = f
    /\ wpc' = "unzip"
    /\ UNCHANGED <<work, row, db, reader>>

DownloadFails ==
    /\ wpc = "download"
    /\ "network" \in Faults
    /\ \E f \in {None, BrokenFile} : file' = f
    /\ wpc' = "cleanup"
    /\ UNCHANGED <<work, row, db, reader>>

\* unzip -o: parts the archive does not have stay as they were.
UnZip ==
    /\ wpc = "unzip"
    /\ \/ file \in Sheets /\ work' = file /\ wpc' = "parse"
       \/ file = BareFile /\ work' = work /\ wpc' = "parse"
       \/ file = BrokenFile /\ work' = work /\ wpc' = "cleanup"
    /\ UNCHANGED <<file, row, db, reader>>

\* Mutant of ParseXML: missing parts are no error.
ParseXMLUnchecked ==
    wpc = "parse" /\ wpc' = "begin" /\ UNCHANGED <<row, disk, db, reader>>

ParseXML ==
    /\ wpc = "parse"
    /\ wpc' = IF work = None THEN "cleanup" ELSE "begin"
    /\ UNCHANGED <<row, disk, db, reader>>

BeginImport ==
    /\ wpc = "begin"
    /\ IF txn = NoTxn
       THEN txn' = Worker /\ wpc' = "row" /\ row' = 1
       ELSE UNCHANGED <<txn, row>> /\ wpc' = "cleanup"
    /\ UNCHANGED <<committed, working, disk, reader>>

(***************************************************************************)
(* Update, inside the transaction: the loop over the rows of sheet1.xml.   *)
(* The columns of a row are abstracted: a row holds the sheet it is from.  *)
(***************************************************************************)
InsideImport == {"row", "rename_stock", "rename_titles", "insert_archive",
                 "create_titles", "insert_titles", "create_stock", "insert_row",
                 "create_label", "insert_label", "commit"}

\* The statements behind the SELECT of the label, in its try block.
InsideArchiving == {"rename_stock", "rename_titles", "insert_archive"}

InLoop == wpc = "row" /\ row \in DOMAIN Rows[work]

AtRow(r) == InLoop /\ Rows[work][row] = r

AtDataRow == InLoop /\ Rows[work][row] > 3

\* One statement of the import takes the connection's view to d.
Statement(d, next) ==
    /\ working' = d
    /\ wpc' = next
    /\ UNCHANGED <<committed, txn, disk, reader>>

EndOfRow(d) == Statement(d, "row") /\ row' = row + 1

\* Mutant of HeaderUnchanged: only the time of the label is compared.
HeaderTimeUnchanged ==
    /\ AtRow(1)
    /\ HasLabel(working)
    /\ LastUpdate(working).time = Label(work).time
    /\ wpc' = "sleep"
    /\ Rollback
    /\ UNCHANGED <<row, disk, reader>>

\* Cell A1, the SELECT of the last label: the same label ends the update with
\* the files still there.
HeaderUnchanged ==
    /\ AtRow(1)
    /\ HasLabel(working)
    /\ LastUpdate(working) = Label(work)
    /\ wpc' = "sleep"
    /\ Rollback
    /\ UNCHANGED <<row, disk, reader>>

\* Mutant of HeaderSameDay: a new day is taken for another time of the day.
HeaderAnyDay == AtRow(1) /\ EndOfRow(working)

\* The first update finds no table, and the catch-all drops the error.
HeaderSameDay ==
    /\ AtRow(1)
    /\ \/ ~HasLabel(working)
       \/ /\ HasLabel(working)
          /\ LastUpdate(working) # Label(work)
          /\ LastUpdate(working).date = DateOf[work]
    /\ EndOfRow(working)

HeaderNewDay ==
    /\ AtRow(1)
    /\ HasLabel(working)
    /\ LastUpdate(working).date # DateOf[work]
    /\ Statement(working, "rename_stock") /\ UNCHANGED row

ArchiveTable(id, next) ==
    LET name == TableFromDate(id, LastUpdate(working).date)
    IN  IF CanRename(working, Table(id), name)
        THEN /\ Statement(RenameTable(working, Table(id), name), next)
             /\ UNCHANGED row
        ELSE EndOfRow(working)

RenameStock == wpc = "rename_stock" /\ ArchiveTable("STOCK_DATA", "rename_titles")

RenameTitles == wpc = "rename_titles" /\ ArchiveTable("DATA_TITLES", "insert_archive")

InsertArchive ==
    /\ wpc = "insert_archive"
    /\ LET last == LastUpdate(working)
       IN  EndOfRow(Insert(working, Table("ARCHIVE"), last.date,
                [time   |-> last.time,
                 titles |-> TableFromDate("DATA_TITLES", last.date),
                 stock  |-> TableFromDate("STOCK_DATA", last.date)]))

\* Mutant of ArchivingFails: each statement has a catch of its own.
ArchivingFailsAndGoesOn ==
    /\ "archive" \in Faults
    /\ wpc \in {"rename_stock", "rename_titles"}
    /\ Statement(working, IF wpc = "rename_stock" THEN "rename_titles"
                                                 ELSE "insert_archive")
    /\ UNCHANGED row

\* catch (...) {} around the archiving: what was done is kept, the row ends.
ArchivingFails ==
    /\ "archive" \in Faults
    /\ AtRow(1) \/ wpc \in InsideArchiving
    /\ EndOfRow(working)

\* Mutant of DropTitles: the titles of the last sheet are not dropped.
KeepTitles ==
    AtRow(2) /\ Statement(working, "create_titles") /\ UNCHANGED row

DropTitles ==
    /\ AtRow(2)
    /\ Statement(DropTable(working, Table("DATA_TITLES")), "create_titles")
    /\ UNCHANGED row

CreateTitles ==
    /\ wpc = "create_titles"
    /\ Statement(CreateTable(working, Table("DATA_TITLES")), "insert_titles")
    /\ UNCHANGED row

\* The titles of row 2, one INSERT per cell.
InsertTitles ==
    /\ wpc = "insert_titles"
    /\ EndOfRow(Insert(working, Table("DATA_TITLES"), 2, work))

DropStock ==
    /\ AtRow(3)
    /\ Statement(DropTable(working, Table("STOCK_DATA")), "create_stock")
    /\ UNCHANGED row

CreateStock ==
    /\ wpc = "create_stock"
    /\ Statement(CreateTable(working, Table("STOCK_DATA")), "insert_row")
    /\ UNCHANGED row

\* INSERT OR IGNORE of the row's number, then one UPDATE per cell.
InsertRow ==
    /\ wpc = "insert_row" \/ AtDataRow
    /\ Table("STOCK_DATA") \in DOMAIN working
    /\ LET r == Rows[work][row]
           inserted == Insert(working, Table("STOCK_DATA"), r, work)
       IN  EndOfRow(Update(inserted, Table("STOCK_DATA"), r, work))

DropLabel ==
    /\ wpc = "row" /\ row \notin DOMAIN Rows[work]
    /\ Statement(DropTable(working, Table("LAST_UPDATE")), "create_label")
    /\ UNCHANGED row

CreateLabel ==
    /\ wpc = "create_label"
    /\ Statement(CreateTable(working, Table("LAST_UPDATE")), "insert_label")
    /\ UNCHANGED row

InsertLabel ==
    /\ wpc = "insert_label"
    /\ Statement(Insert(working, Table("LAST_UPDATE"), 1, Label(work)), "commit")
    /\ UNCHANGED row

Commit ==
    /\ wpc = "commit"
    /\ ~SharedLock
    /\ committed' = working
    /\ txn' = NoTxn
    /\ wpc' = "cleanup"
    /\ UNCHANGED <<working, row, disk, reader>>

\* Mutant of ImportThrows: COMMIT waits for the readers of other processes.
ImportWaits ==
    /\ wpc \in InsideImport \ InsideArchiving
    /\ "statement" \in Faults
    /\ wpc' = "cleanup"
    /\ Rollback
    /\ UNCHANGED <<row, disk, reader>>

\* A statement that must fail, or may: the catch blocks log the exception and
\* the guard of the transaction, on its way out, rolls back.  At row 1 it is the
\* reading of cell A1; what fails in the archiving is ArchivingFails.
ImportThrows ==
    /\ wpc \in InsideImport \ InsideArchiving
    /\ \/ "statement" \in Faults
       \/ wpc = "commit" /\ SharedLock
       \/ AtDataRow /\ Table("STOCK_DATA") \notin DOMAIN working
    /\ wpc' = "cleanup"
    /\ Rollback
    /\ UNCHANGED <<row, disk, reader>>

Cleanup ==
    /\ wpc = "cleanup"
    /\ wpc' = "sleep"
    /\ file' = None
    /\ work' = None
    /\ UNCHANGED <<row, db, reader>>

(***************************************************************************)
(* Readers: GetLatestData and RefreshStockDataTable read the live tables,  *)
(* GetDataByDate the tables that the ARCHIVE row of a date names.          *)
(***************************************************************************)
LiveTables == [titles |-> Table("DATA_TITLES"), stock |-> Table("STOCK_DATA")]

Asking(request) == [request |-> request, status |-> "asked", from |-> LiveTables,
                    label |-> None, titles |-> None, data |-> None]

Idle == [Asking(None) EXCEPT !.status = "none"]

Refused(r, status) == [Asking(out[r].request) EXCEPT !.status = status]

Archived(r) == out[r].request \in Dates

Finish(r, reply) ==
    /\ rpc' = [rpc EXCEPT ![r] = "idle"]
    /\ out' = [out EXCEPT ![r] = reply]
    /\ UNCHANGED <<disk, worker>>

Advance(r, next, read) ==
    /\ rpc' = [rpc EXCEPT ![r] = next]
    /\ out' = [out EXCEPT ![r] = read]
    /\ UNCHANGED <<disk, worker>>

BeginRead(r) ==
    /\ rpc[r] = "idle"
    /\ \E request \in Requests :
          IF r \in LocalReaders /\ txn # NoTxn
          THEN /\ Finish(r, [Asking(request) EXCEPT !.status = "500"])
               /\ UNCHANGED db
          ELSE /\ Advance(r, "label", Asking(request))
               /\ txn' = IF r \in LocalReaders THEN r ELSE txn
               /\ UNCHANGED <<committed, working>>

\* LAST_UPDATE, where a reader sees it, has its row: it is created and filled
\* in one transaction, and the branches for an empty table are never taken.
ReadLabel(r) ==
    /\ rpc[r] = "label"
    /\ ~Archived(r)
    /\ HasLabel(View(r))
    /\ Advance(r, "titles", [out[r] EXCEPT !.label = LastUpdate(View(r))])
    /\ UNCHANGED db

ReadArchiveRow(r) ==
    /\ rpc[r] = "label"
    /\ Archived(r)
    /\ LET date == out[r].request
           days == View(r)[Table("ARCHIVE")]
       IN  IF date \in DOMAIN days
           THEN /\ Advance(r, "titles", [out[r] EXCEPT
                        !.label = [date |-> date, time |-> days[date].time],
                        !.from  = [titles |-> days[date].titles,
                                   stock  |-> days[date].stock]])
                /\ UNCHANGED db
           ELSE Finish(r, Refused(r, "404")) /\ Release(r)

ReadTitles(r) ==
    /\ rpc[r] = "titles"
    /\ out[r].from.titles \in DOMAIN View(r)
    /\ Advance(r, "data", [out[r] EXCEPT !.titles = View(r)[out[r].from.titles]])
    /\ UNCHANGED db

\* The last SELECT and the rollback after it.
ReadData(r) ==
    /\ rpc[r] = "data"
    /\ out[r].from.stock \in DOMAIN View(r)
    /\ Finish(r, [out[r] EXCEPT !.data = View(r)[out[r].from.stock],
                                !.status = "200"])
    /\ Release(r)

\* A SELECT from a table that does not exist, or that SQLite refuses: HTTP 500
\* from the API, the end of the session for the home page.
ReadThrows(r) ==
    /\ \/ rpc[r] = "label" /\ ~Archived(r) /\ ~HasLabel(View(r))
       \/ rpc[r] = "titles" /\ out[r].from.titles \notin DOMAIN View(r)
       \/ rpc[r] = "data" /\ out[r].from.stock \notin DOMAIN View(r)
       \/ rpc[r] # "idle" /\ "statement" \in Faults
    /\ Finish(r, Refused(r, "500"))
    /\ Release(r)

(***************************************************************************)
(* The end of the process at any moment, and its restart: the files and    *)
(* what was committed survive.                                             *)
(***************************************************************************)
Crash ==
    /\ "crash" \in Faults
    /\ wpc' = "sleep" /\ row' = 1
    /\ txn' = NoTxn
    /\ committed' = InitTables(committed)
    /\ working' = InitTables(committed)
    /\ rpc' = [r \in Readers |-> IF r \in LocalReaders THEN "idle" ELSE rpc[r]]
    /\ out' = [r \in Readers |-> IF r \in LocalReaders THEN Idle ELSE out[r]]
    /\ UNCHANGED disk

(***************************************************************************)
(* The specification.                                                      *)
(***************************************************************************)
Init ==
    /\ committed = NewDatabase
    /\ working = NewDatabase
    /\ txn = NoTxn
    /\ file = None
    /\ work = None
    /\ wpc = "sleep"
    /\ row = 1
    /\ rpc = [r \in Readers |-> "idle"]
    /\ out = [r \in Readers |-> Idle]

Prepare == StartUpdate \/ Download \/ DownloadFails \/ UnZip \/ ParseXML

Archiving == HeaderNewDay \/ RenameStock \/ RenameTitles \/ InsertArchive

ImportSheet ==
    \/ HeaderUnchanged \/ HeaderSameDay \/ ArchivingFails
    \/ DropTitles \/ CreateTitles \/ InsertTitles
    \/ DropStock \/ CreateStock \/ InsertRow
    \/ DropLabel \/ CreateLabel \/ InsertLabel

WorkerStep ==
    Prepare \/ BeginImport \/ Archiving \/ ImportSheet \/ Commit
            \/ ImportThrows \/ Cleanup

Reading(r) ==
    ReadLabel(r) \/ ReadArchiveRow(r) \/ ReadTitles(r) \/ ReadData(r)
                 \/ ReadThrows(r)

Next ==
    \/ WorkerStep
    \/ \E r \in Readers : BeginRead(r) \/ Reading(r)
    \/ Crash

Spec == Init /\ [][Next]_vars

\* The timer of the worker and the request threads run on; the network comes
\* back, nothing is assumed about when the database is free.
FairSpec ==
    /\ Spec
    /\ WF_vars(WorkerStep)
    /\ SF_vars(Download)
    /\ \A r \in Readers : WF_vars(Reading(r))

-----------------------------------------------------------------------------
(***************************************************************************)
(* Properties.                                                             *)
(***************************************************************************)
Labels == {Label(s) : s \in Sheets}

RowsOf(id) ==
    CASE id = "LAST_UPDATE" -> Labels
      [] id = "ARCHIVE"     -> [time : {l.time : l \in Labels},
                                titles : TableName, stock : TableName]
      [] OTHER              -> Sheets

DatabaseOK(d) ==
    /\ DOMAIN d \subseteq TableName
    /\ \A t \in DOMAIN d : d[t] \in [DOMAIN d[t] -> RowsOf(t[1])]
    /\ Table("ARCHIVE") \in DOMAIN d

ReaderOK(r) ==
    /\ rpc[r] \in {"idle", "label", "titles", "data"}
    /\ DOMAIN out[r] = {"request", "status", "from", "label", "titles", "data"}
    /\ out[r].request \in Requests \cup {None}
    /\ out[r].status \in {"none", "asked", "200", "404", "500"}
    /\ rpc[r] # "idle" => out[r].request \in Requests /\ out[r].status = "asked"

ControlOK ==
    /\ txn \in {Worker, NoTxn} \cup LocalReaders
    /\ file \in Sheets \cup {BrokenFile, BareFile, None}
    /\ work \in Sheets \cup {None}
    /\ wpc \in InsideImport \cup
               {"sleep", "download", "unzip", "parse", "begin", "cleanup"}
    /\ row \in Nat \ {0}
    /\ wpc \in InsideImport \cup {"begin"} => work \in Sheets
    /\ DOMAIN rpc = Readers /\ DOMAIN out = Readers
    /\ \A r \in Readers : ReaderOK(r)

\* What a statement of the import is about exists when it is reached.
StatementsApply ==
    /\ wpc \in InsideArchiving => HasLabel(working)
    /\ wpc = "insert_titles" => Table("DATA_TITLES") \in DOMAIN working
    /\ wpc = "insert_row" => Table("STOCK_DATA") \in DOMAIN working
    /\ wpc = "insert_label" => Table("LAST_UPDATE") \in DOMAIN working

\* The type of the state, with the one thing that makes the import's steps
\* safe to take: ARCHIVE and the tables of the next statement are there.
TypeOK ==
    /\ DatabaseOK(committed)
    /\ DatabaseOK(working)
    /\ ControlOK
    /\ StatementsApply

\* Who is inside a transaction of the shared session owns it, and only one
\* thread is: no thread's statement or rollback() ever acts on the
\* transaction another thread began.
SessionOwner ==
    /\ txn = Worker <=> wpc \in InsideImport
    /\ \A r \in LocalReaders : txn = r <=> rpc[r] # "idle"

\* The SELECTs of one request see one state of the database although the
\* worker imports and other threads begin and roll back on the connection in
\* between: what a request has read is what is committed, until it ends.
RepeatableRead ==
    \A r \in Readers :
        /\ rpc[r] \in {"titles", "data"} =>
               IF Archived(r)
               THEN LET days == committed[Table("ARCHIVE")]
                        date == out[r].request
                    IN  /\ date \in DOMAIN days
                        /\ out[r].label = [date |-> date, time |-> days[date].time]
               ELSE HasLabel(committed) /\ out[r].label = LastUpdate(committed)
        /\ rpc[r] = "data" => /\ out[r].from.titles \in DOMAIN committed
                              /\ out[r].titles = committed[out[r].from.titles]

\* A row of ARCHIVE names tables that exist, so a day that is listed can be
\* read: renaming them and inserting the row take effect together or not.
ArchiveRowsResolve ==
    \A date \in DOMAIN committed[Table("ARCHIVE")] :
        LET day == committed[Table("ARCHIVE")][date]
        IN  {day.titles, day.stock} \subseteq DOMAIN committed

TitlesOf(s) == [k \in {2} |-> s]

StockOf(s) == [k \in {Rows[s][i] : i \in DOMAIN Rows[s]} \ {1, 2} |-> s]

\* For sheets that have all their rows from 1 on: the label, the titles and
\* the data that are live, and those of every archived day, are the rows of
\* one sheet, all of them.
StoreConsistent ==
    /\ Table("LAST_UPDATE") \in DOMAIN committed =>
          \E s \in Sheets :
              /\ committed[Table("LAST_UPDATE")] = [k \in {1} |-> Label(s)]
              /\ committed[Table("DATA_TITLES")] = TitlesOf(s)
              /\ committed[Table("STOCK_DATA")] = StockOf(s)
    /\ \A date \in DOMAIN committed[Table("ARCHIVE")] :
          LET day == committed[Table("ARCHIVE")][date]
          IN  \E s \in Sheets :
                 /\ Label(s) = [date |-> date, time |-> day.time]
                 /\ committed[day.titles] = TitlesOf(s)
                 /\ committed[day.stock] = StockOf(s)

\* The table of the quotes is set up each and every time a sheet is imported:
\* the live titles and the live data come from one sheet.
TablesSetEachTime ==
    {Table("DATA_TITLES"), Table("STOCK_DATA")} \subseteq DOMAIN committed =>
        \A k \in DOMAIN committed[Table("STOCK_DATA")] :
            committed[Table("STOCK_DATA")][k] = committed[Table("DATA_TITLES")][2]

\* Every answer with status 200 is a whole sheet, and the sheet of the day
\* that was asked for: titles and data of two sheets are never mixed.
AnswersWhole ==
    \A r \in Readers : out[r].status = "200" =>
        \E s \in Sheets :
            /\ out[r].label = Label(s)
            /\ out[r].titles = TitlesOf(s)
            /\ out[r].data = StockOf(s)
            /\ Archived(r) => DateOf[s] = out[r].request

\* What Update imports is what this very cycle downloaded, although parts of
\* an earlier sheet are left in WORK_DIR by the early return and by crashes.
ImportsDownloaded == wpc \in InsideImport => work = file

ArchivedDay(d, date) ==
    LET day == d[Table("ARCHIVE")][date]
    IN  [time |-> day.time, titles |-> d[day.titles], stock |-> d[day.stock]]

\* An archived day is never changed or dropped, whatever is imported later,
\* a sheet of that same day included.
ArchiveImmutable ==
    [][\A date \in DOMAIN committed[Table("ARCHIVE")] :
          /\ date \in DOMAIN committed'[Table("ARCHIVE")]
          /\ ArchivedDay(committed', date) = ArchivedDay(committed, date)]_vars

\* When the date of the live quotes changes, the quotes of the day that ended
\* are in the archive in the same commit, as they last were; only a day that
\* had been archived before keeps its first version.
DayArchivedOnRollover ==
    [][HasLabel(committed) /\ LastUpdate(committed').date # LastUpdate(committed).date =>
          LET date == LastUpdate(committed).date
          IN  /\ date \in DOMAIN committed'[Table("ARCHIVE")]
              /\ date \in DOMAIN committed[Table("ARCHIVE")]
                 \/ ArchivedDay(committed', date) =
                       [time   |-> LastUpdate(committed).time,
                        titles |-> committed[Table("DATA_TITLES")],
                        stock  |-> committed[Table("STOCK_DATA")]]]_vars

\* Every update ends and every request gets an answer, be it that the session
\* or the file is taken, whoever holds them at the time.  A refusal is an answer
\* here, and that the download ends is assumed.
EveryoneFinishes ==
    /\ wpc # "sleep" ~> wpc = "sleep"
    /\ \A r \in Readers : rpc[r] # "idle" ~> rpc[r] = "idle"

\* Once the source serves one sheet for good and requests pause, that sheet
\* becomes the published one and stays it.
Published ==
    \A s \in Sheets :
        <>[](file \in {None, s} /\ \A r \in Readers : rpc[r] = "idle") =>
            <>[](HasLabel(committed) /\ LastUpdate(committed) = Label(s))

\* The quotes that readers are shown are live: those of the sheet that the
\* source serves for good, once requests pause.
LiveQuotes ==
    \A s \in Sheets :
        <>[](file \in {None, s} /\ \A r \in Readers : rpc[r] = "idle") =>
            <>[](/\ Table("STOCK_DATA") \in DOMAIN committed
                 /\ committed[Table("STOCK_DATA")] = StockOf(s))

-----------------------------------------------------------------------------
(***************************************************************************)
(* What the service promises: the abstract store, for sheets that have all *)
(* their rows. Its latest sheet is the one whose titles are live, its past *)
(* the sheets the rows of ARCHIVE lead to.                                 *)
(***************************************************************************)
Whole(s) == [label |-> Label(s), titles |-> TitlesOf(s), data |-> StockOf(s)]

Store == INSTANCE QuoteStore WITH
    Content <- Whole,
    latest  <- IF HasLabel(committed)
               THEN committed[Table("DATA_TITLES")][2] ELSE None,
    past    <- [date \in DOMAIN committed[Table("ARCHIVE")] |->
                   committed[committed[Table("ARCHIVE")][date].titles][2]],
    answer  <- [r \in Readers |->
                   [status  |-> out[r].status,
                    content |-> IF out[r].status = "200"
                                THEN [label |-> out[r].label,
                                      titles |-> out[r].titles,
                                      data |-> out[r].data]
                                ELSE None]]

\* The service implements the abstract store: every commit publishes one sheet
\* and closes the day before it, every other step leaves the store alone, and
\* every reply is a whole sheet of the store or a refusal.
ImplementsStore == Store!Spec
=============================================================================
