-------------------------- MODULE QuoteServiceProofs -------------------------
(***************************************************************************)
(* What holds of QuoteService for every set of sheets, readers and faults. *)
(***************************************************************************)
EXTENDS QuoteService, TLAPS

\* Which statements the archiving is made of is used wherever it goes on.
USE DEF InsideArchiving

-----------------------------------------------------------------------------
(***************************************************************************)
(* The statements keep a database a database.                              *)
(***************************************************************************)

\* The names of live tables and of archived ones never meet.
LEMMA TableNames ==
    ASSUME NEW id \in TableIds
    PROVE  /\ Table(id) \in TableName
           /\ Table(id)[1] = id
           /\ \A date \in Dates : /\ TableFromDate(id, date) \in TableName
                                  /\ TableFromDate(id, date)[1] = id
                                  /\ TableFromDate(id, date) # Table("ARCHIVE")
BY LiveIsNoDate DEF TableName, Table, TableFromDate

\* The label of a sheet is a label, with a date of the calendar.
LEMMA LabelType == \A s \in Sheets : Label(s) \in Labels /\ Label(s).date \in Dates
BY SheetAssumption DEF Label, Labels

\* What LAST_UPDATE holds in a typed database is a label.
LEMMA LastUpdateType ==
    ASSUME NEW d, DatabaseOK(d), HasLabel(d)
    PROVE  LastUpdate(d) \in Labels /\ LastUpdate(d).date \in Dates
<1>1. LastUpdate(d) \in Labels
  BY TableNames DEF DatabaseOK, HasLabel, LastUpdate, RowsOf, TableIds
<1>. QED  BY <1>1, LabelType DEF Labels

\* CREATE TABLE IF NOT EXISTS keeps a database well typed.
LEMMA CreateTableOK ==
    ASSUME NEW d, DatabaseOK(d), NEW id \in TableIds
    PROVE  DatabaseOK(CreateTable(d, Table(id)))
<1>1. CASE Table(id) \in DOMAIN d
  BY <1>1 DEF CreateTable
<1>2. CASE Table(id) \notin DOMAIN d
  BY <1>2, TableNames DEF CreateTable, DatabaseOK, NoRows
<1>. QED  BY <1>1, <1>2

\* DROP TABLE IF EXISTS does, unless it drops ARCHIVE.
LEMMA DropTableOK ==
    ASSUME NEW d, DatabaseOK(d), NEW id \in TableIds \ {"ARCHIVE"}
    PROVE  DatabaseOK(DropTable(d, Table(id)))
BY DEF DropTable, DatabaseOK, Table

\* ALTER TABLE ... RENAME does, where it is no error.
LEMMA RenameTableOK ==
    ASSUME NEW d, DatabaseOK(d), NEW id \in TableIds \ {"ARCHIVE"},
           NEW date \in Dates, CanRename(d, Table(id), TableFromDate(id, date))
    PROVE  DatabaseOK(RenameTable(d, Table(id), TableFromDate(id, date)))
BY TableNames DEF RenameTable, DatabaseOK, CanRename, Table

\* INSERT OR IGNORE does, for a row of the right kind.
LEMMA InsertOK ==
    ASSUME NEW d, DatabaseOK(d), NEW id \in TableIds, Table(id) \in DOMAIN d,
           NEW key, NEW value \in RowsOf(id)
    PROVE  DatabaseOK(Insert(d, Table(id), key, value))
BY TableNames DEF Insert, DatabaseOK

\* UPDATE does, for a row of the right kind.
LEMMA UpdateOK ==
    ASSUME NEW d, DatabaseOK(d), NEW id \in TableIds, Table(id) \in DOMAIN d,
           NEW key, NEW value \in RowsOf(id)
    PROVE  DatabaseOK(Update(d, Table(id), key, value))
BY TableNames DEF Update, DatabaseOK
-----------------------------------------------------------------------------
(***************************************************************************)
(* The steps of the system, by what they do to the control state.          *)
(***************************************************************************)
\* Any statement of the import but those that end the transaction.
ImportFrame ==
    /\ wpc \in InsideImport /\ wpc' \in InsideImport
    /\ row' \in {row, row + 1}
    /\ UNCHANGED <<committed, txn, disk, reader>>

\* The import is over, without effect.
ImportEnds ==
    /\ wpc \in InsideImport /\ wpc' \in {"sleep", "cleanup"}
    /\ Rollback
    /\ UNCHANGED <<row, disk, reader>>

\* A step of the import leaves everything but the view of the database and the
\* worker's control alone, or ends the import without effect.
LEMMA ImportSteps ==
    ASSUME Archiving \/ ImportSheet \/ ImportThrows
    PROVE  ImportFrame \/ ImportEnds
<1>1. ASSUME NEW d, NEW next \in InsideImport, wpc \in InsideImport,
             Statement(d, next), row' \in {row, row + 1}
      PROVE  ImportFrame
  BY <1>1 DEF Statement, ImportFrame
<1>2. ASSUME NEW d, wpc \in InsideImport, EndOfRow(d)
      PROVE  ImportFrame
  BY <1>1, <1>2 DEF EndOfRow, InsideImport
<1>3. ASSUME NEW id, NEW next \in InsideImport, wpc \in InsideImport,
             ArchiveTable(id, next)
      PROVE  ImportFrame
  BY <1>1, <1>2, <1>3 DEF ArchiveTable
<1>4. CASE Archiving
  BY <1>1, <1>2, <1>3, <1>4 DEF Archiving, HeaderNewDay, RenameStock, RenameTitles,
     InsertArchive, AtRow, InLoop, InsideImport
<1>5. CASE HeaderUnchanged \/ ImportThrows
  BY <1>5 DEF HeaderUnchanged, ImportThrows, ImportEnds, AtRow, InLoop, InsideImport
<1>6. CASE HeaderSameDay \/ ArchivingFails
  BY <1>2, <1>6 DEF HeaderSameDay, ArchivingFails, AtRow, InLoop, InsideImport
<1>7. CASE DropTitles \/ CreateTitles \/ InsertTitles
  BY <1>1, <1>2, <1>7 DEF DropTitles, CreateTitles, InsertTitles, AtRow, InLoop,
     InsideImport
<1>8. CASE DropStock \/ CreateStock \/ InsertRow
  BY <1>1, <1>2, <1>8 DEF DropStock, CreateStock, InsertRow, AtRow, AtDataRow, InLoop,
     InsideImport
<1>9. CASE DropLabel \/ CreateLabel \/ InsertLabel
  BY <1>1, <1>9 DEF DropLabel, CreateLabel, InsertLabel, InsideImport
<1>. QED  BY <1>4, <1>5, <1>6, <1>7, <1>8, <1>9 DEF ImportSheet

\* A reader's step in terms of its next statement and what it has then read.
ReaderFrame(r, next, read) ==
    /\ UNCHANGED <<disk, worker, committed>>
    /\ rpc[r] # "idle"
    /\ next \in {"idle", "titles", "data"}
    /\ rpc' = [rpc EXCEPT ![r] = next]
    /\ out' = [out EXCEPT ![r] = read]
    /\ DOMAIN read = {"request", "status", "from", "label", "titles", "data"}
    /\ read.request = out[r].request
    /\ next # "idle" => read.status = out[r].status /\ UNCHANGED <<working, txn>>
    /\ next = "idle" => read.status \in {"200", "404", "500"} /\ Release(r)

\* A step of a request changes that reader alone, and at its end rolls back.
LEMMA ReadingSteps ==
    ASSUME ControlOK, NEW r \in Readers, Reading(r)
    PROVE  \E next, read : ReaderFrame(r, next, read)
<1>. DEFINE fields == {"request", "status", "from", "label", "titles", "data"}
<1>1. DOMAIN out[r] = fields
  BY DEF ControlOK, ReaderOK
<1>2. Release(r) => committed' = committed
  BY DEF Release, Rollback, db
<1>3. \A status \in {"404", "500"} :
         /\ DOMAIN Refused(r, status) = fields
         /\ Refused(r, status).request = out[r].request
         /\ Refused(r, status).status = status
  BY DEF Refused, Asking
<1>4. CASE ReadLabel(r)
  <2>. DEFINE read == [out[r] EXCEPT !.label = LastUpdate(View(r))]
  <2>1. /\ DOMAIN read = fields
        /\ read.request = out[r].request
        /\ read.status = out[r].status
    BY <1>1
  <2>. QED  BY <1>4, <2>1 DEF ReadLabel, ReaderFrame, Advance, db
<1>5. CASE ReadArchiveRow(r)
  <2>. DEFINE date == out[r].request
              days == View(r)[Table("ARCHIVE")]
              read == [out[r] EXCEPT
                        !.label = [date |-> date, time |-> days[date].time],
                        !.from  = [titles |-> days[date].titles,
                                   stock  |-> days[date].stock]]
  <2>1. /\ DOMAIN read = fields
        /\ read.request = out[r].request
        /\ read.status = out[r].status
    BY <1>1
  <2>2. CASE date \in DOMAIN days
    BY <1>5, <2>1, <2>2 DEF ReadArchiveRow, ReaderFrame, Advance, db
  <2>3. CASE date \notin DOMAIN days
    <3>1. ReaderFrame(r, "idle", Refused(r, "404"))
      BY <1>2, <1>3, <1>5, <2>3 DEF ReadArchiveRow, ReaderFrame, Finish
    <3>. QED  BY <3>1
  <2>. QED  BY <2>2, <2>3
<1>6. CASE ReadTitles(r)
  <2>. DEFINE read == [out[r] EXCEPT !.titles = View(r)[out[r].from.titles]]
  <2>1. /\ DOMAIN read = fields
        /\ read.request = out[r].request
        /\ read.status = out[r].status
    BY <1>1
  <2>. QED  BY <1>6, <2>1 DEF ReadTitles, ReaderFrame, Advance, db
<1>7. CASE ReadData(r)
  <2>. DEFINE read == [out[r] EXCEPT !.data = View(r)[out[r].from.stock],
                                     !.status = "200"]
  <2>1. DOMAIN read = fields /\ read.request = out[r].request /\ read.status = "200"
    BY <1>1
  <2>2. ReaderFrame(r, "idle", read)
    BY <1>2, <1>7, <2>1 DEF ReadData, ReaderFrame, Finish
  <2>. QED  BY <2>2
<1>8. CASE ReadThrows(r)
  <2>1. ReaderFrame(r, "idle", Refused(r, "500"))
    BY <1>2, <1>3, <1>8 DEF ReadThrows, ReaderFrame, Finish
  <2>. QED  BY <2>1
<1>. QED  BY <1>4, <1>5, <1>6, <1>7, <1>8 DEF Reading

\* A request begins its transaction or is refused.
LEMMA BeginSteps ==
    ASSUME NEW r \in Readers, BeginRead(r)
    PROVE  /\ UNCHANGED <<disk, worker, committed, working>>
           /\ rpc[r] = "idle"
           /\ \E request \in Requests :
                 IF r \in LocalReaders /\ txn # NoTxn
                 THEN /\ rpc' = [rpc EXCEPT ![r] = "idle"] /\ txn' = txn
                      /\ out' = [out EXCEPT ![r] =
                                     [Asking(request) EXCEPT !.status = "500"]]
                 ELSE /\ rpc' = [rpc EXCEPT ![r] = "label"]
                      /\ out' = [out EXCEPT ![r] = Asking(request)]
                      /\ txn' = IF r \in LocalReaders THEN r ELSE txn
BY DEF BeginRead, Finish, Advance, db

-----------------------------------------------------------------------------
(***************************************************************************)
(* Who is where, and who owns the session's transaction.                   *)
(***************************************************************************)
\* What has not been committed is the import's.
OnlyImportIsDirty == txn # Worker => working = committed

OwnerInv == ControlOK /\ SessionOwner /\ OnlyImportIsDirty

\* Nobody owns a transaction at the start.
LEMMA OwnerInit == Init => OwnerInv
BY ThreadAssumption
   DEF Init, OwnerInv, ControlOK, ReaderOK, SessionOwner, OnlyImportIsDirty, Idle,
       Asking, InsideImport, Readers

\* Every step of the worker but the import itself: files, BEGIN and COMMIT.
LEMMA OwnerFiles ==
    ASSUME OwnerInv, Prepare \/ BeginImport \/ Commit \/ Cleanup
    PROVE  OwnerInv'
<1>. USE DEF OwnerInv, db, disk, reader, InsideImport
<1>1. CASE Prepare
  BY <1>1 DEF Prepare, StartUpdate, Download, DownloadFails, UnZip, ParseXML,
              ControlOK, ReaderOK, SessionOwner, OnlyImportIsDirty
<1>2. CASE BeginImport
  BY <1>2, ThreadAssumption
     DEF BeginImport, ControlOK, ReaderOK, SessionOwner, OnlyImportIsDirty, Readers
<1>3. CASE Commit
  BY <1>3, ThreadAssumption
     DEF Commit, ControlOK, ReaderOK, SessionOwner, OnlyImportIsDirty, Readers
<1>4. CASE Cleanup
  BY <1>4 DEF Cleanup, ControlOK, ReaderOK, SessionOwner, OnlyImportIsDirty
<1>. QED  BY <1>1, <1>2, <1>3, <1>4

\* The import keeps its transaction until it ends it.
LEMMA OwnerImport ==
    ASSUME OwnerInv, ImportFrame \/ ImportEnds
    PROVE  OwnerInv'
<1>. USE DEF OwnerInv, disk, reader
<1>1. CASE ImportFrame
  BY <1>1 DEF ImportFrame, ControlOK, ReaderOK, SessionOwner, OnlyImportIsDirty
<1>2. CASE ImportEnds
  BY <1>2, ThreadAssumption
     DEF ImportEnds, Rollback, ControlOK, ReaderOK, SessionOwner, OnlyImportIsDirty,
         Readers, InsideImport
<1>. QED  BY <1>1, <1>2

\* A request gets the transaction only if nobody has it.
LEMMA OwnerBegin ==
    ASSUME OwnerInv, NEW r \in Readers, BeginRead(r)
    PROVE  OwnerInv'
<1>1. PICK request \in Requests :
         IF r \in LocalReaders /\ txn # NoTxn
         THEN /\ rpc' = [rpc EXCEPT ![r] = "idle"] /\ txn' = txn
              /\ out' = [out EXCEPT ![r] = [Asking(request) EXCEPT !.status = "500"]]
         ELSE /\ rpc' = [rpc EXCEPT ![r] = "label"]
              /\ out' = [out EXCEPT ![r] = Asking(request)]
              /\ txn' = IF r \in LocalReaders THEN r ELSE txn
  BY BeginSteps
<1>2. UNCHANGED <<disk, worker, committed, working>> /\ rpc[r] = "idle"
  BY BeginSteps
<1>3. ControlOK'
  BY <1>1, <1>2 DEF OwnerInv, ControlOK, ReaderOK, Asking, disk, worker
<1>4. SessionOwner'
  BY <1>1, <1>2, ThreadAssumption
     DEF OwnerInv, ControlOK, SessionOwner, worker, Readers
<1>5. OnlyImportIsDirty'
  BY <1>1, <1>2, ThreadAssumption DEF OwnerInv, OnlyImportIsDirty, Readers
<1>. QED  BY <1>3, <1>4, <1>5 DEF OwnerInv

\* A request rolls back its own transaction.
LEMMA OwnerReading ==
    ASSUME OwnerInv, NEW r \in Readers, Reading(r)
    PROVE  OwnerInv'
<1>1. PICK next, read : ReaderFrame(r, next, read)
  BY ReadingSteps DEF OwnerInv
<1>2. ControlOK'
  BY <1>1 DEF OwnerInv, ControlOK, ReaderOK, ReaderFrame, Release, Rollback, db,
              disk, worker
<1>3. SessionOwner'
  BY <1>1, ThreadAssumption
     DEF OwnerInv, ControlOK, SessionOwner, ReaderFrame, Release, Rollback, db,
         worker, Readers
<1>4. OnlyImportIsDirty'
  BY <1>1 DEF OwnerInv, OnlyImportIsDirty, ReaderFrame, Release, Rollback, db
<1>. QED  BY <1>2, <1>3, <1>4 DEF OwnerInv

\* A restart frees the connection of the process.
LEMMA OwnerCrash == ASSUME OwnerInv, Crash PROVE OwnerInv'
BY ThreadAssumption
   DEF OwnerInv, Crash, ControlOK, ReaderOK, SessionOwner, OnlyImportIsDirty, Idle,
       Asking, disk, InsideImport, Readers

\* Ownership is preserved by every step.
LEMMA OwnerStep == OwnerInv /\ [Next]_vars => OwnerInv'
<1>. SUFFICES ASSUME OwnerInv, [Next]_vars PROVE OwnerInv'
  OBVIOUS
<1>1. CASE WorkerStep
  BY <1>1, OwnerFiles, OwnerImport, ImportSteps DEF WorkerStep
<1>2. CASE \E r \in Readers : BeginRead(r) \/ Reading(r)
  BY <1>2, OwnerBegin, OwnerReading
<1>3. CASE Crash
  BY <1>3, OwnerCrash
<1>4. CASE UNCHANGED vars
  BY <1>4 DEF vars, OwnerInv, ControlOK, ReaderOK, SessionOwner, OnlyImportIsDirty
<1>. QED  BY <1>1, <1>2, <1>3, <1>4 DEF Next

\* Whatever the threads do, and whatever fails, a transaction of the shared
\* session belongs to the one thread that is inside it: BEGIN's refusal to nest
\* is enough to keep the threads of a process apart.
THEOREM SessionIsOwned == Spec => []SessionOwner
<1>1. OwnerInv => SessionOwner
  BY DEF OwnerInv
<1>. QED  BY <1>1, OwnerInit, OwnerStep, PTL DEF Spec
-----------------------------------------------------------------------------
(***************************************************************************)
(* Type correctness.                                                       *)
(***************************************************************************)
TypeInv == TypeOK /\ SessionOwner /\ OnlyImportIsDirty

DataOK == DatabaseOK(committed) /\ DatabaseOK(working) /\ StatementsApply

\* The first state is well typed.
LEMMA TypeInit == Init => TypeInv
<1>. SUFFICES ASSUME Init PROVE TypeInv
  OBVIOUS
<1>1. DatabaseOK(NewDatabase)
  BY TableNames DEF NewDatabase, InitTables, CreateTable, DatabaseOK, NoRows,
                    TableIds
<1>2. StatementsApply
  BY DEF Init, StatementsApply
<1>. QED  BY <1>1, <1>2, OwnerInit DEF Init, TypeInv, TypeOK, OwnerInv

\* A database that is what another one was has its type.
LEMMA DataKept ==
    ASSUME TypeOK, committed' \in {committed, working},
           working' \in {committed, working}, StatementsApply'
    PROVE  DataOK'
BY DEF TypeOK, DataOK, DatabaseOK, RowsOf

\* One statement of the import, given the type of its result.
LEMMA StatementType ==
    ASSUME TypeInv, NEW d, DatabaseOK(d), NEW next, Statement(d, next),
           StatementsApply'
    PROVE  DataOK'
BY DEF TypeInv, TypeOK, Statement, DataOK, DatabaseOK, RowsOf

\* The same for the last statement of a row, after which anything may come.
LEMMA EndOfRowType ==
    ASSUME TypeInv, NEW d, DatabaseOK(d), EndOfRow(d)
    PROVE  DataOK'
BY StatementType DEF EndOfRow, Statement, StatementsApply

\* Archiving a day keeps the data well typed.
LEMMA ArchivingType ==
    ASSUME TypeInv, Archiving
    PROVE  DataOK'
<1>. DEFINE last == LastUpdate(working)
<1>1. HasLabel(working)
  BY DEF TypeInv, TypeOK, StatementsApply, Archiving, HeaderNewDay, RenameStock,
         RenameTitles, InsertArchive
<1>2. last \in Labels /\ last.date \in Dates
  BY <1>1, LastUpdateType DEF TypeInv, TypeOK
<1>3. ASSUME NEW id \in {"STOCK_DATA", "DATA_TITLES"},
             NEW next \in {"rename_titles", "insert_archive"},
             ArchiveTable(id, next)
      PROVE  DataOK'
  <2>. DEFINE name == TableFromDate(id, last.date)
              renamed == RenameTable(working, Table(id), name)
  <2>1. CASE CanRename(working, Table(id), name)
    <3>1. DatabaseOK(renamed)
      BY <1>2, <2>1, RenameTableOK DEF TypeInv, TypeOK, TableIds
    <3>2. Statement(renamed, next)
      BY <1>3, <2>1 DEF ArchiveTable
    <3>3. HasLabel(renamed)
      BY <1>1, <2>1 DEF HasLabel, RenameTable, CanRename, Table, TableFromDate
    <3>4. StatementsApply'
      BY <3>2, <3>3 DEF Statement, StatementsApply, HasLabel
    <3>. QED  BY <3>1, <3>2, <3>4, StatementType
  <2>2. CASE ~CanRename(working, Table(id), name)
    BY <1>3, <2>2, EndOfRowType DEF ArchiveTable, TypeInv, TypeOK
  <2>. QED  BY <2>1, <2>2
<1>4. CASE HeaderNewDay
  <2>1. Statement(working, "rename_stock") /\ StatementsApply'
    BY <1>1, <1>4 DEF HeaderNewDay, Statement, StatementsApply, HasLabel
  <2>. QED  BY <2>1, StatementType DEF TypeInv, TypeOK
<1>5. CASE RenameStock
  BY <1>3, <1>5 DEF RenameStock
<1>6. CASE RenameTitles
  BY <1>3, <1>6 DEF RenameTitles
<1>7. CASE InsertArchive
  <2>. DEFINE day == [time   |-> last.time,
                      titles |-> TableFromDate("DATA_TITLES", last.date),
                      stock  |-> TableFromDate("STOCK_DATA", last.date)]
  <2>1. day \in RowsOf("ARCHIVE")
    BY <1>2, TableNames DEF RowsOf, TableIds
  <2>2. DatabaseOK(Insert(working, Table("ARCHIVE"), last.date, day))
    BY <2>1, InsertOK DEF TypeInv, TypeOK, DatabaseOK, TableIds
  <2>. QED  BY <1>7, <2>2, EndOfRowType DEF InsertArchive
<1>. QED  BY <1>4, <1>5, <1>6, <1>7 DEF Archiving

\* So do the statements that import a sheet.
LEMMA ImportType ==
    ASSUME TypeInv, ImportSheet, ~HeaderUnchanged
    PROVE  DataOK'
<1>. USE DEF TypeInv, TypeOK
<1>1. work \in Sheets
  BY DEF ImportSheet, HeaderSameDay, ArchivingFails, DropTitles, CreateTitles,
     InsertTitles, DropStock, CreateStock, InsertRow, DropLabel, CreateLabel,
     InsertLabel, AtRow, AtDataRow, InLoop, ControlOK, InsideImport
<1>2. work \in RowsOf("DATA_TITLES") /\ work \in RowsOf("STOCK_DATA")
      /\ Label(work) \in RowsOf("LAST_UPDATE")
  BY <1>1, LabelType DEF RowsOf
<1>3. CASE HeaderSameDay \/ ArchivingFails
  BY <1>3, EndOfRowType DEF HeaderSameDay, ArchivingFails
<1>4. ASSUME NEW id \in {"LAST_UPDATE", "DATA_TITLES", "STOCK_DATA"},
             NEW next \in {"create_titles", "create_stock", "create_label"},
             Statement(DropTable(working, Table(id)), next)
      PROVE  DataOK'
  <2>1. StatementsApply'
    BY <1>4 DEF Statement, StatementsApply
  <2>. QED  BY <1>4, <2>1, DropTableOK, StatementType DEF TableIds
<1>5. CASE DropTitles \/ DropStock \/ DropLabel
  BY <1>4, <1>5 DEF DropTitles, DropStock, DropLabel
<1>6. CASE CreateTitles
  <2>. DEFINE d == CreateTable(working, Table("DATA_TITLES"))
  <2>1. Table("DATA_TITLES") \in DOMAIN d
    BY DEF CreateTable
  <2>2. Statement(d, "insert_titles") /\ StatementsApply'
    BY <1>6, <2>1 DEF CreateTitles, Statement, StatementsApply
  <2>. QED  BY <2>2, CreateTableOK, StatementType DEF TableIds
<1>7. CASE CreateStock
  <2>. DEFINE d == CreateTable(working, Table("STOCK_DATA"))
  <2>1. Table("STOCK_DATA") \in DOMAIN d
    BY DEF CreateTable
  <2>2. Statement(d, "insert_row") /\ StatementsApply'
    BY <1>7, <2>1 DEF CreateStock, Statement, StatementsApply, disk
  <2>. QED  BY <2>2, CreateTableOK, StatementType DEF TableIds
<1>8. CASE CreateLabel
  <2>. DEFINE d == CreateTable(working, Table("LAST_UPDATE"))
  <2>1. Table("LAST_UPDATE") \in DOMAIN d
    BY DEF CreateTable
  <2>2. Statement(d, "insert_label") /\ StatementsApply'
    BY <1>8, <2>1 DEF CreateLabel, Statement, StatementsApply
  <2>. QED  BY <2>2, CreateTableOK, StatementType DEF TableIds
<1>9. CASE InsertTitles
  <2>1. DatabaseOK(Insert(working, Table("DATA_TITLES"), 2, work))
    BY <1>2, <1>9, InsertOK, SMTT(30) DEF InsertTitles, StatementsApply, TableIds
  <2>. QED  BY <1>9, <2>1, EndOfRowType DEF InsertTitles
<1>10. CASE InsertRow
  <2>. DEFINE r == Rows[work][row]
              inserted == Insert(working, Table("STOCK_DATA"), r, work)
  <2>1. DatabaseOK(inserted) /\ Table("STOCK_DATA") \in DOMAIN inserted
    BY <1>2, <1>10, InsertOK, SMTT(30) DEF InsertRow, TableIds, Insert
  <2>2. DatabaseOK(Update(inserted, Table("STOCK_DATA"), r, work))
    BY <1>2, <2>1, UpdateOK DEF TableIds
  <2>. QED  BY <1>10, <2>2, EndOfRowType DEF InsertRow
<1>11. CASE InsertLabel
  <2>1. DatabaseOK(Insert(working, Table("LAST_UPDATE"), 1, Label(work)))
    BY <1>2, <1>11, InsertOK DEF InsertLabel, StatementsApply, TableIds
  <2>2. StatementsApply'
    BY <1>11 DEF InsertLabel, Statement, StatementsApply
  <2>. QED  BY <1>11, <2>1, <2>2, StatementType DEF InsertLabel
<1>. QED  BY <1>3, <1>5, <1>6, <1>7, <1>8, <1>9, <1>10, <1>11 DEF ImportSheet

\* Requests change the view at most by their rollback.
LEMMA ReadingKeepsData ==
    ASSUME TypeInv, NEW r \in Readers, BeginRead(r) \/ Reading(r)
    PROVE  DataOK'
<1>1. /\ committed' = committed
      /\ wpc' = wpc
      /\ working' = working \/ (Release(r) /\ rpc[r] # "idle")
  BY BeginSteps, ReadingSteps DEF ReaderFrame, worker, TypeInv, TypeOK
<1>2. CASE working' = working
  <2>1. StatementsApply'
    BY <1>1, <1>2 DEF TypeInv, TypeOK, StatementsApply, HasLabel, LastUpdate
  <2>. QED  BY <1>1, <1>2, <2>1, DataKept DEF TypeInv
<1>3. CASE Release(r) /\ rpc[r] # "idle" /\ working' # working
  <2>1. txn = r /\ r \in LocalReaders /\ working' = committed
    BY <1>3 DEF Release, Rollback, db, TypeInv, SessionOwner
  <2>2. wpc \notin InsideImport
    BY <2>1, ThreadAssumption DEF TypeInv, SessionOwner, Readers
  <2>3. StatementsApply'
    BY <1>1, <2>2 DEF StatementsApply, InsideImport
  <2>. QED  BY <1>1, <2>1, <2>3, DataKept DEF TypeInv
<1>. QED  BY <1>1, <1>2, <1>3

\* The data stays well typed in every step.
LEMMA DataStep ==
    ASSUME TypeInv, [Next]_vars
    PROVE  DataOK'
<1>1. CASE Prepare \/ BeginImport \/ Commit \/ Cleanup
  <2>1. committed' \in {committed, working} /\ working' = working
        /\ wpc' \in {"download", "unzip", "parse", "begin", "row", "cleanup", "sleep"}
    BY <1>1 DEF Prepare, StartUpdate, Download, DownloadFails, UnZip, ParseXML,
                BeginImport, Commit, Cleanup, db
  <2>2. StatementsApply'
    BY <2>1 DEF StatementsApply
  <2>. QED  BY <2>1, <2>2, DataKept DEF TypeInv
<1>2. CASE Archiving
  BY <1>2, ArchivingType
<1>3. CASE ImportSheet /\ ~HeaderUnchanged
  BY <1>3, ImportType
<1>4. CASE HeaderUnchanged \/ ImportThrows
  <2>1. committed' = committed /\ working' = committed /\ wpc' \in {"sleep", "cleanup"}
    BY <1>4 DEF HeaderUnchanged, ImportThrows, Rollback
  <2>2. StatementsApply'
    BY <2>1 DEF StatementsApply
  <2>. QED  BY <2>1, <2>2, DataKept DEF TypeInv
<1>5. CASE \E r \in Readers : BeginRead(r) \/ Reading(r)
  BY <1>5, ReadingKeepsData
<1>6. CASE Crash
  <2>1. committed' = committed /\ working' = committed
    BY <1>6 DEF Crash, InitTables, CreateTable, TypeInv, TypeOK, DatabaseOK
  <2>2. StatementsApply'
    BY <1>6 DEF Crash, StatementsApply
  <2>. QED  BY <2>1, <2>2, DataKept DEF TypeInv
<1>7. CASE UNCHANGED vars
  <2>1. StatementsApply'
    BY <1>7 DEF vars, TypeInv, TypeOK, StatementsApply, HasLabel
  <2>. QED  BY <1>7, <2>1, DataKept DEF vars, TypeInv
<1>. QED  BY <1>1, <1>2, <1>3, <1>4, <1>5, <1>6, <1>7 DEF Next, WorkerStep

\* The type invariant is inductive.
LEMMA TypeStep == TypeInv /\ [Next]_vars => TypeInv'
BY DataStep, OwnerStep DEF TypeInv, TypeOK, OwnerInv, DataOK

\* It holds in every state.
LEMMA TypeInvariant == Spec => []TypeInv
BY TypeInit, TypeStep, PTL DEF Spec

\* Every state is well typed, and every statement of an import finds the tables
\* it is about: what other threads roll back is never the import's.
THEOREM TypeCorrect == Spec => []TypeOK
<1>1. TypeInv => TypeOK
  BY DEF TypeInv
<1>. QED  BY <1>1, TypeInvariant, PTL
-----------------------------------------------------------------------------
(***************************************************************************)
(* One request sees one state of the database.                             *)
(***************************************************************************)
\* What reader r has read so far is what is committed.
ReadIsCommitted(r) ==
    /\ rpc[r] \in {"titles", "data"} =>
           IF Archived(r)
           THEN LET days == committed[Table("ARCHIVE")]
                    date == out[r].request
                IN  /\ date \in DOMAIN days
                    /\ out[r].label = [date |-> date, time |-> days[date].time]
           ELSE HasLabel(committed) /\ out[r].label = LastUpdate(committed)
    /\ rpc[r] = "data" => /\ out[r].from.titles \in DOMAIN committed
                          /\ out[r].titles = committed[out[r].from.titles]

\* RepeatableRead, reader by reader.
LEMMA RepeatableReadOfEach == RepeatableRead <=> \A r \in Readers : ReadIsCommitted(r)
BY DEF RepeatableRead, ReadIsCommitted

\* A reader whose state is left alone keeps what it has read.
LEMMA OtherReaders ==
    ASSUME NEW r, ReadIsCommitted(r),
           rpc'[r] = rpc[r], out'[r] = out[r], committed' = committed
    PROVE  ReadIsCommitted(r)'
BY DEF ReadIsCommitted, Archived, HasLabel, LastUpdate

\* Inside its transaction a reader's view is what is committed.
LEMMA ViewIsCommitted ==
    ASSUME OwnerInv, NEW r \in Readers, rpc[r] # "idle"
    PROVE  View(r) = committed
BY ThreadAssumption DEF OwnerInv, SessionOwner, OnlyImportIsDirty, View, Readers

\* A step of a request keeps what it has read equal to what is committed.
LEMMA OwnRead ==
    ASSUME OwnerInv, NEW r \in Readers, ReadIsCommitted(r), Reading(r)
    PROVE  ReadIsCommitted(r)'
<1>1. PICK next, read : ReaderFrame(r, next, read)
  BY ReadingSteps DEF OwnerInv
<1>2. View(r) = committed
  BY <1>1, ViewIsCommitted DEF ReaderFrame
<1>3. DOMAIN rpc = Readers /\ DOMAIN out = Readers
      /\ DOMAIN out[r] = {"request", "status", "from", "label", "titles", "data"}
  BY DEF OwnerInv, ControlOK, ReaderOK
<1>4. CASE next = "idle"
  BY <1>1, <1>3, <1>4 DEF ReaderFrame, ReadIsCommitted
<1>5. CASE ReadLabel(r)
  <2>1. /\ committed' = committed /\ rpc'[r] = "titles" /\ ~Archived(r)
        /\ HasLabel(committed)
        /\ out'[r] = [out[r] EXCEPT !.label = LastUpdate(committed)]
    BY <1>2, <1>3, <1>5 DEF ReadLabel, Advance, db
  <2>2. out'[r].label = LastUpdate(committed) /\ out'[r].request = out[r].request
    BY <1>3, <2>1
  <2>. QED  BY <2>1, <2>2 DEF ReadIsCommitted, Archived, HasLabel, LastUpdate
<1>6. CASE ReadArchiveRow(r) /\ next # "idle"
  <2>. DEFINE date == out[r].request
              days == committed[Table("ARCHIVE")]
              new  == [out[r] EXCEPT
                        !.label = [date |-> date, time |-> days[date].time],
                        !.from  = [titles |-> days[date].titles,
                                   stock  |-> days[date].stock]]
  <2>1. committed' = committed /\ Archived(r)
    BY <1>1, <1>6 DEF ReadArchiveRow, ReaderFrame
  <2>2. rpc'[r] = next
    BY <1>1, <1>3 DEF ReaderFrame
  <2>3. date \in DOMAIN days /\ rpc'[r] = "titles" /\ out'[r] = new
    BY <1>2, <1>3, <1>6, <2>2 DEF ReadArchiveRow, Advance, Finish
  <2>4. /\ new.label = [date |-> date, time |-> days[date].time]
        /\ new.request = date
    BY <1>3
  <2>. QED  BY <2>1, <2>3, <2>4 DEF ReadIsCommitted, Archived
<1>7. CASE ReadTitles(r)
  <2>. DEFINE new == [out[r] EXCEPT !.titles = committed[out[r].from.titles]]
  <2>1. /\ committed' = committed /\ rpc[r] = "titles" /\ rpc'[r] = "data"
        /\ out[r].from.titles \in DOMAIN committed /\ out'[r] = new
    BY <1>2, <1>3, <1>7 DEF ReadTitles, Advance, db
  <2>2. /\ new.titles = committed[out[r].from.titles] /\ new.from = out[r].from
        /\ new.label = out[r].label /\ new.request = out[r].request
    BY <1>3
  <2>. QED  BY <2>1, <2>2 DEF ReadIsCommitted, Archived, HasLabel, LastUpdate
<1>8. CASE ReadData(r) \/ ReadThrows(r)
  <2>1. rpc'[r] = "idle"
    BY <1>3, <1>8 DEF ReadData, ReadThrows, Finish
  <2>. QED  BY <2>1 DEF ReadIsCommitted
<1>. QED  BY <1>4, <1>5, <1>6, <1>7, <1>8 DEF Reading

ReadInv == TypeInv /\ \A r \in Readers : ReadIsCommitted(r)

\* Nobody's step changes what a request in progress has read: no COMMIT gets
\* past it.
LEMMA ReadStep == ReadInv /\ [Next]_vars => ReadInv'
<1>. SUFFICES ASSUME ReadInv, [Next]_vars, NEW q \in Readers
              PROVE  ReadIsCommitted(q)'
  BY TypeStep DEF ReadInv
<1>. USE DEF ReadInv, TypeInv, TypeOK, OwnerInv
<1>1. DOMAIN rpc = Readers /\ DOMAIN out = Readers
  BY DEF OwnerInv, ControlOK
<1>2. CASE Commit
  <2>1. rpc[q] \notin {"titles", "data"}
    BY <1>2, ThreadAssumption
       DEF Commit, SharedLock, OwnerInv, SessionOwner, InsideImport, Readers
  <2>. QED  BY <1>2, <2>1 DEF Commit, reader, ReadIsCommitted
<1>3. CASE WorkerStep /\ ~Commit
  <2>1. committed' = committed /\ reader' = reader
    BY <1>3, ImportSteps
       DEF WorkerStep, Prepare, StartUpdate, Download, DownloadFails, UnZip,
           ParseXML, BeginImport, Cleanup, ImportFrame, ImportEnds, Rollback, db
  <2>. QED  BY <2>1, OtherReaders DEF reader
<1>4. ASSUME NEW r \in Readers, BeginRead(r)
      PROVE  ReadIsCommitted(q)'
  <2>1. CASE q = r
    BY <1>1, <1>4, <2>1, BeginSteps DEF ReadIsCommitted
  <2>2. CASE q # r
    BY <1>1, <1>4, <2>2, BeginSteps, OtherReaders
  <2>. QED  BY <2>1, <2>2
<1>5. ASSUME NEW r \in Readers, Reading(r)
      PROVE  ReadIsCommitted(q)'
  <2>1. CASE q = r
    BY <1>5, <2>1, OwnRead
  <2>2. CASE q # r
    BY <1>1, <1>5, <2>2, ReadingSteps, OtherReaders DEF ReaderFrame, OwnerInv
  <2>. QED  BY <2>1, <2>2
<1>6. CASE Crash
  <2>1. committed' = committed
    BY <1>6 DEF Crash, InitTables, CreateTable, DatabaseOK
  <2>2. CASE q \in LocalReaders
    BY <1>6, <2>2 DEF Crash, ReadIsCommitted, Readers
  <2>3. CASE q \notin LocalReaders
    BY <1>6, <2>1, <2>3, OtherReaders DEF Crash
  <2>. QED  BY <2>2, <2>3
<1>7. CASE UNCHANGED vars
  BY <1>7, OtherReaders DEF vars
<1>. QED  BY <1>2, <1>3, <1>4, <1>5, <1>6, <1>7 DEF Next

\* Every SELECT of a request sees the same committed state, for any number of
\* threads and processes, whatever the sheets look like and whatever fails.
THEOREM ReadsRepeat == Spec => []RepeatableRead
<1>1. Init => ReadInv
  BY TypeInit DEF Init, ReadInv, ReadIsCommitted
<1>2. ReadInv => RepeatableRead
  BY RepeatableReadOfEach DEF ReadInv
<1>. QED  BY <1>1, <1>2, ReadStep, PTL DEF Spec

-----------------------------------------------------------------------------
(***************************************************************************)
(* The archive.                                                            *)
(***************************************************************************)
\* Every row of ARCHIVE names the tables of its own date, and they exist.
Resolves(d) ==
    \A date \in DOMAIN d[Table("ARCHIVE")] :
        LET day == d[Table("ARCHIVE")][date]
        IN  /\ date \in Dates
            /\ day.titles = TableFromDate("DATA_TITLES", date)
            /\ day.stock = TableFromDate("STOCK_DATA", date)
            /\ {day.titles, day.stock} \subseteq DOMAIN d

\* The days archived in d are archived in e, and unchanged.
Keeps(d, e) ==
    \A date \in DOMAIN d[Table("ARCHIVE")] :
        /\ date \in DOMAIN e[Table("ARCHIVE")]
        /\ ArchivedDay(e, date) = ArchivedDay(d, date)

\* d and e differ in one table at most.
SameBut(d, e, table) == \A t \in DOMAIN d \ {table} : t \in DOMAIN e /\ e[t] = d[t]

\* A change of a live table other than ARCHIVE is none of the archive's.
LEMMA LiveTableChanges ==
    ASSUME NEW d, NEW e, Resolves(d), Table("ARCHIVE") \in DOMAIN d,
           NEW id, id # "ARCHIVE", SameBut(d, e, Table(id))
    PROVE  Resolves(e) /\ Keeps(d, e)
BY LiveIsNoDate DEF Resolves, Keeps, SameBut, ArchivedDay, Table, TableFromDate

\* What is kept twice is kept.
LEMMA KeepsTransitive ==
    ASSUME NEW c, NEW d, NEW e, Keeps(c, d), Keeps(d, e)
    PROVE  Keeps(c, e)
BY DEF Keeps

\* A statement changes the table that it names, RENAME also adds one.
LEMMA StatementsAreLocal ==
    ASSUME NEW d, NEW table, NEW key, NEW value
    PROVE  /\ SameBut(d, d, table)
           /\ SameBut(d, CreateTable(d, table), table)
           /\ SameBut(d, DropTable(d, table), table)
           /\ SameBut(d, Insert(d, table, key, value), table)
           /\ SameBut(d, Update(d, table, key, value), table)
           /\ \A new : CanRename(d, table, new) => SameBut(d, RenameTable(d, table, new), table)
BY DEF SameBut, CreateTable, DropTable, Insert, Update, CanRename, RenameTable

\* The tables of the day that ends are renamed before its row is inserted.
RenamedFirst ==
    LET date == LastUpdate(working).date
    IN  /\ wpc \in {"rename_titles", "insert_archive"} =>
               TableFromDate("STOCK_DATA", date) \in DOMAIN working
        /\ wpc = "insert_archive" =>
               TableFromDate("DATA_TITLES", date) \in DOMAIN working

ArchiveInv ==
    /\ TypeInv
    /\ Resolves(committed) /\ Resolves(working)
    /\ Keeps(committed, working)
    /\ RenamedFirst

\* A statement about a live table, at a place where nothing is being archived.
LEMMA LiveStatement ==
    ASSUME ArchiveInv, NEW d, NEW id \in {"LAST_UPDATE", "DATA_TITLES", "STOCK_DATA"},
           SameBut(working, d, Table(id)), working' = d, committed' = committed,
           RenamedFirst'
    PROVE  Resolves(working)' /\ Keeps(committed, working)' /\ RenamedFirst'
<1>1. Table("ARCHIVE") \in DOMAIN working
  BY DEF ArchiveInv, TypeInv, TypeOK, DatabaseOK
<1>2. Resolves(d) /\ Keeps(working, d)
  BY <1>1, LiveTableChanges DEF ArchiveInv
<1>3. Keeps(committed, d)
  BY <1>2, KeepsTransitive DEF ArchiveInv
<1>. QED  BY <1>2, <1>3 DEF Resolves, Keeps, ArchivedDay

\* Renaming a table of the day that ends.
LEMMA ArchiveTableResolves ==
    ASSUME ArchiveInv, HasLabel(working), NEW id, NEW next, ArchiveTable(id, next),
           \/ id = "STOCK_DATA" /\ next = "rename_titles"
           \/ id = "DATA_TITLES" /\ next = "insert_archive" /\ wpc = "rename_titles"
    PROVE  Resolves(working)' /\ Keeps(committed, working)' /\ RenamedFirst'
<1>. DEFINE name == TableFromDate(id, LastUpdate(working).date)
            renamed == RenameTable(working, Table(id), name)
<1>1. CASE CanRename(working, Table(id), name)
  <2>1. working' = renamed /\ committed' = committed /\ wpc' = next
    BY <1>1 DEF ArchiveTable, Statement
  <2>2. LastUpdate(renamed) = LastUpdate(working)
    BY <1>1 DEF LastUpdate, HasLabel, RenameTable, CanRename, Table, TableFromDate
  <2>3. name \in DOMAIN renamed
    BY DEF RenameTable
  <2>4. next = "insert_archive" =>
          TableFromDate("STOCK_DATA", LastUpdate(working).date) \in DOMAIN renamed
    BY <1>1 DEF ArchiveInv, RenamedFirst, RenameTable, Table, TableFromDate
  <2>5. RenamedFirst'
    BY <2>1, <2>2, <2>3, <2>4 DEF RenamedFirst, LastUpdate
  <2>. QED  BY <1>1, <2>1, <2>5, LiveStatement, StatementsAreLocal
<1>2. CASE ~CanRename(working, Table(id), name)
  <2>1. working' = working /\ committed' = committed /\ wpc' = "row"
    BY <1>2 DEF ArchiveTable, EndOfRow, Statement
  <2>. QED  BY <2>1, LiveStatement, StatementsAreLocal DEF RenamedFirst
<1>. QED  BY <1>1, <1>2

\* The row of the day that ends, whose tables have been renamed before.
LEMMA InsertArchiveResolves ==
    ASSUME ArchiveInv, InsertArchive
    PROVE  Resolves(working)' /\ Keeps(committed, working)' /\ RenamedFirst'
<1>. DEFINE last == LastUpdate(working)
            day == [time   |-> last.time,
                    titles |-> TableFromDate("DATA_TITLES", last.date),
                    stock  |-> TableFromDate("STOCK_DATA", last.date)]
            d == Insert(working, Table("ARCHIVE"), last.date, day)
<1>1. working' = d /\ committed' = committed /\ wpc' = "row"
  BY DEF InsertArchive, EndOfRow, Statement
<1>2. Table("ARCHIVE") \in DOMAIN working
  BY DEF ArchiveInv, TypeInv, TypeOK, DatabaseOK
<1>3. last.date \in Dates
  BY LastUpdateType DEF ArchiveInv, TypeInv, TypeOK, StatementsApply, InsertArchive
<1>4. {day.titles, day.stock} \subseteq DOMAIN working
  BY DEF ArchiveInv, RenamedFirst, InsertArchive
<1>5. DOMAIN d = DOMAIN working /\ \A t \in DOMAIN working \ {Table("ARCHIVE")} : d[t] = working[t]
  BY DEF Insert
<1>6. /\ DOMAIN d[Table("ARCHIVE")] = DOMAIN working[Table("ARCHIVE")] \cup {last.date}
      /\ \A date \in DOMAIN working[Table("ARCHIVE")] :
            d[Table("ARCHIVE")][date] = working[Table("ARCHIVE")][date]
      /\ last.date \notin DOMAIN working[Table("ARCHIVE")] =>
            d[Table("ARCHIVE")][last.date] = day
  BY <1>2 DEF Insert
<1>7. Resolves(d)
  BY <1>3, <1>4, <1>5, <1>6 DEF ArchiveInv, Resolves
<1>8. Keeps(working, d)
  BY <1>2, <1>5, <1>6, LiveIsNoDate, SMTT(30)
     DEF ArchiveInv, Resolves, Keeps, ArchivedDay, Table, TableFromDate
<1>9. Keeps(committed, d)
  BY <1>8, KeepsTransitive DEF ArchiveInv
<1>. QED  BY <1>1, <1>7, <1>9 DEF Resolves, Keeps, ArchivedDay, RenamedFirst

\* Every statement of an import keeps the archive as it is, or adds a day.
LEMMA ImportResolves ==
    ASSUME ArchiveInv, Archiving \/ (ImportSheet /\ ~HeaderUnchanged)
    PROVE  Resolves(working)' /\ Keeps(committed, working)' /\ RenamedFirst'
<1>1. ASSUME NEW d, NEW id \in {"LAST_UPDATE", "DATA_TITLES", "STOCK_DATA"},
             SameBut(working, d, Table(id)), NEW next, Statement(d, next),
             next \notin {"rename_titles", "insert_archive"}
      PROVE  Resolves(working)' /\ Keeps(committed, working)' /\ RenamedFirst'
  BY <1>1, LiveStatement DEF Statement, RenamedFirst
<1>2. CASE HeaderNewDay \/ HeaderSameDay \/ ArchivingFails
  BY <1>1, <1>2, StatementsAreLocal
     DEF HeaderNewDay, HeaderSameDay, ArchivingFails, EndOfRow
<1>3. CASE RenameStock
  <2>1. HasLabel(working) /\ ArchiveTable("STOCK_DATA", "rename_titles")
    BY <1>3 DEF RenameStock, ArchiveInv, TypeInv, TypeOK, StatementsApply
  <2>. QED  BY <2>1, ArchiveTableResolves
<1>4. CASE RenameTitles
  <2>1. HasLabel(working) /\ ArchiveTable("DATA_TITLES", "insert_archive")
        /\ wpc = "rename_titles"
    BY <1>4 DEF RenameTitles, ArchiveInv, TypeInv, TypeOK, StatementsApply
  <2>. QED  BY <2>1, ArchiveTableResolves
<1>5. CASE InsertArchive
  BY <1>5, InsertArchiveResolves
<1>6. \A table \in TableName :
         /\ SameBut(working, DropTable(working, table), table)
         /\ SameBut(working, CreateTable(working, table), table)
         /\ \A key, value : SameBut(working, Insert(working, table, key, value), table)
  BY StatementsAreLocal
<1>. DEFINE titles == Table("DATA_TITLES")
            stock == Table("STOCK_DATA")
<1>7. /\ SameBut(working, DropTable(working, titles), titles)
      /\ SameBut(working, CreateTable(working, titles), titles)
      /\ SameBut(working, Insert(working, titles, 2, work), titles)
      /\ SameBut(working, DropTable(working, stock), stock)
      /\ SameBut(working, CreateTable(working, stock), stock)
  BY <1>6, TableNames DEF TableIds
<1>8. CASE DropTitles \/ CreateTitles \/ InsertTitles
  BY <1>1, <1>7, <1>8 DEF DropTitles, CreateTitles, InsertTitles, EndOfRow
<1>9. CASE DropStock \/ CreateStock
  BY <1>1, <1>7, <1>9 DEF DropStock, CreateStock
<1>10. CASE InsertRow
  <2>. DEFINE r == Rows[work][row]
              inserted == Insert(working, Table("STOCK_DATA"), r, work)
              updated == Update(inserted, Table("STOCK_DATA"), r, work)
  <2>1. SameBut(working, inserted, Table("STOCK_DATA"))
        /\ SameBut(inserted, updated, Table("STOCK_DATA"))
    BY StatementsAreLocal
  <2>2. SameBut(working, updated, Table("STOCK_DATA"))
    BY <2>1 DEF SameBut
  <2>. QED  BY <1>1, <1>10, <2>2 DEF InsertRow, EndOfRow
<1>11. CASE DropLabel \/ CreateLabel \/ InsertLabel
  BY <1>1, <1>11, StatementsAreLocal DEF DropLabel, CreateLabel, InsertLabel
<1>. QED  BY <1>2, <1>3, <1>4, <1>5, <1>8, <1>9, <1>10, <1>11 DEF Archiving, ImportSheet

\* Every step keeps the archive.
LEMMA ArchiveStep == ArchiveInv /\ [Next]_vars => ArchiveInv' /\ Keeps(committed, committed')
<1>. SUFFICES ASSUME ArchiveInv, [Next]_vars
              PROVE  ArchiveInv' /\ Keeps(committed, committed')
  OBVIOUS
<1>. USE DEF ArchiveInv
<1>0. TypeInv' /\ Keeps(committed, committed) /\ Keeps(working, working)
  BY TypeStep DEF Keeps
\* The database is left alone, or a rollback, or the commit.
<1>1. ASSUME committed' \in {committed, working}, working' \in {committed, working},
             committed' = committed \/ working' = working, RenamedFirst'
      PROVE  ArchiveInv' /\ Keeps(committed, committed')
  BY <1>0, <1>1 DEF Resolves, Keeps, ArchivedDay
<1>2. CASE Prepare \/ BeginImport \/ Commit \/ Cleanup
  <2>1. committed' \in {committed, working} /\ working' = working /\ RenamedFirst'
    BY <1>2 DEF Prepare, StartUpdate, Download, DownloadFails, UnZip, ParseXML,
                BeginImport, Commit, Cleanup, db, RenamedFirst
  <2>. QED  BY <1>1, <2>1
<1>3. CASE Archiving \/ (ImportSheet /\ ~HeaderUnchanged)
  <2>1. committed' = committed
    BY <1>3, ImportSteps, ThreadAssumption
       DEF ImportFrame, ImportEnds, Rollback
  <2>2. Resolves(working)' /\ Keeps(committed, working)' /\ RenamedFirst'
    BY <1>3, ImportResolves
  <2>. QED  BY <1>0, <2>1, <2>2 DEF Resolves
<1>4. CASE HeaderUnchanged \/ ImportThrows
  <2>1. committed' = committed /\ working' = committed /\ RenamedFirst'
    BY <1>4 DEF HeaderUnchanged, ImportThrows, Rollback, RenamedFirst
  <2>. QED  BY <1>1, <2>1
<1>5. ASSUME NEW r \in Readers, BeginRead(r) \/ Reading(r)
      PROVE  ArchiveInv' /\ Keeps(committed, committed')
  <2>1. /\ committed' = committed
        /\ wpc' = wpc
        /\ working' = working \/ (Release(r) /\ rpc[r] # "idle")
    BY <1>5, BeginSteps, ReadingSteps DEF ReaderFrame, worker, TypeInv, TypeOK
  <2>2. CASE working' = working
    <3>1. RenamedFirst'
      BY <2>1, <2>2 DEF RenamedFirst, LastUpdate
    <3>. QED  BY <1>1, <2>1, <2>2, <3>1
  <2>3. CASE Release(r) /\ rpc[r] # "idle" /\ working' # working
    <3>1. txn = r /\ r \in LocalReaders /\ working' = committed
      BY <2>3 DEF Release, Rollback, db, TypeInv, SessionOwner
    <3>2. wpc \notin InsideImport
      BY <3>1, ThreadAssumption DEF TypeInv, SessionOwner, Readers
    <3>3. RenamedFirst'
      BY <2>1, <3>2 DEF RenamedFirst, InsideImport
    <3>. QED  BY <1>1, <2>1, <3>1, <3>3
  <2>. QED  BY <2>1, <2>2, <2>3
<1>6. CASE Crash
  <2>1. committed' = committed /\ working' = committed /\ RenamedFirst'
    BY <1>6 DEF Crash, InitTables, CreateTable, TypeInv, TypeOK, DatabaseOK, RenamedFirst
  <2>. QED  BY <1>1, <2>1
<1>7. CASE UNCHANGED vars
  <2>1. committed' = committed /\ working' = working /\ RenamedFirst'
    BY <1>7 DEF vars, RenamedFirst, LastUpdate
  <2>. QED  BY <1>1, <2>1
<1>. QED  BY <1>2, <1>3, <1>4, <1>5, <1>6, <1>7 DEF Next, WorkerStep

\* There is no archive at the start.
LEMMA ArchiveInit == Init => ArchiveInv
<1>. SUFFICES ASSUME Init PROVE ArchiveInv
  OBVIOUS
<1>1. DOMAIN NewDatabase[Table("ARCHIVE")] = {}
  BY DEF NewDatabase, InitTables, CreateTable, NoRows
<1>. QED  BY <1>1, TypeInit DEF Init, ArchiveInv, Resolves, Keeps, RenamedFirst

\* A day that the archive lists can be read, even when archiving fails halfway,
\* when sheets lack rows, and across crashes.
THEOREM ArchiveResolves == Spec => []ArchiveRowsResolve
<1>1. ArchiveInv => ArchiveRowsResolve
  BY DEF ArchiveInv, Resolves, ArchiveRowsResolve
<1>. QED  BY <1>1, ArchiveInit, ArchiveStep, PTL DEF Spec

\* No step of any thread changes or removes a day that is archived.
THEOREM ArchiveNeverChanges == Spec => ArchiveImmutable
<1>1. ArchiveInv /\ [Next]_vars =>
        [\A date \in DOMAIN committed[Table("ARCHIVE")] :
           /\ date \in DOMAIN committed'[Table("ARCHIVE")]
           /\ ArchivedDay(committed', date) = ArchivedDay(committed, date)]_vars
  BY ArchiveStep DEF Keeps
<1>. QED  BY <1>1, ArchiveInit, ArchiveStep, PTL DEF Spec, ArchiveImmutable
=============================================================================
