-------------------------- MODULE QuoteStoreProofs --------------------------
(***************************************************************************)
(* What holds of QuoteService for every set of sheets that have all their  *)
(* rows: the tables are those of one sheet, answers are whole sheets, and  *)
(* the service implements QuoteStore.                                      *)
(***************************************************************************)
EXTENDS QuoteServiceProofs

\* Which statements the archiving is made of is used wherever it goes on.
USE DEF InsideArchiving

WholeRows ==
    \A s \in Sheets : Len(Rows[s]) >= 3 /\ \A i \in DOMAIN Rows[s] : Rows[s][i] = i

-----------------------------------------------------------------------------
(***************************************************************************)
(* What an import has made of the database when it comes to a statement.   *)
(***************************************************************************)
LabelTable == Table("LAST_UPDATE")
TitlesTable == Table("DATA_TITLES")
StockTable  == Table("STOCK_DATA")

Holds(d, table, content) == table \in DOMAIN d /\ d[table] = content

\* A table with rows for the keys K, all of sheet s.
Filled(K, s) == [k \in K |-> s]

\* The import of s that is at row n, and at the statement next of it, has made d.
Imported(s, d, next, n) ==
    /\ n \in 1..(Len(Rows[s]) + 1)
    /\ next \in {"rename_stock", "rename_titles", "insert_archive"} => n = 1
    /\ next \in {"create_titles", "insert_titles"} => n = 2
    /\ next \in {"create_stock", "insert_row"} => n = 3
    /\ next \in {"create_label", "insert_label", "commit"} => n = Len(Rows[s]) + 1
    /\ next = "create_titles" => TitlesTable \notin DOMAIN d
    /\ next = "insert_titles" => Holds(d, TitlesTable, NoRows)
    /\ n > 2 => Holds(d, TitlesTable, TitlesOf(s))
    /\ next = "create_stock" => StockTable \notin DOMAIN d
    /\ next = "insert_row" => Holds(d, StockTable, NoRows)
    /\ n > 3 => Holds(d, StockTable, Filled(3..(n - 1), s))
    /\ next = "create_label" => LabelTable \notin DOMAIN d
    /\ next = "insert_label" => Holds(d, LabelTable, NoRows)
    /\ next = "commit" => Holds(d, LabelTable, Filled({1}, Label(s)))

\* The state of the import under way.
ImportOK == wpc \in InsideImport => Imported(work, working, wpc, row)

\* A whole sheet has a label, and its n-th row is numbered n.
LEMMA WholeSheet ==
    ASSUME WholeRows, NEW s \in Sheets
    PROVE  /\ Rows[s] \in Seq(Nat) /\ Len(Rows[s]) \in Nat /\ Len(Rows[s]) >= 3
           /\ DOMAIN Rows[s] = 1..Len(Rows[s])
           /\ \A i \in 1..Len(Rows[s]) : Rows[s][i] = i
           /\ HasHeader(s)
           /\ Label(s) = [date |-> DateOf[s], time |-> TimeOf[s]]
<1>1. Rows[s] \in Seq(Nat)
  BY SheetAssumption
<1>2. Len(Rows[s]) \in Nat /\ DOMAIN Rows[s] = 1..Len(Rows[s])
  BY <1>1
<1>3. Len(Rows[s]) >= 3 /\ \A i \in 1..Len(Rows[s]) : Rows[s][i] = i
  BY <1>2 DEF WholeRows
<1>4. HasHeader(s)
  BY <1>2, <1>3 DEF HasHeader
<1>. QED  BY <1>1, <1>2, <1>3, <1>4 DEF Label

\* Its rows from 3 on.
LEMMA WholeStock ==
    ASSUME WholeRows, NEW s \in Sheets
    PROVE  StockOf(s) = Filled(3..Len(Rows[s]), s)
<1>. DEFINE numbers == {Rows[s][i] : i \in DOMAIN Rows[s]}
<1>1. numbers = 1..Len(Rows[s])
  <2>1. ASSUME NEW n \in 1..Len(Rows[s])
        PROVE  n \in numbers
    <3>1. n \in DOMAIN Rows[s] /\ Rows[s][n] = n
      BY WholeSheet
    <3>. QED  BY <3>1
  <2>2. ASSUME NEW n \in numbers
        PROVE  n \in 1..Len(Rows[s])
    <3>1. PICK i \in DOMAIN Rows[s] : n = Rows[s][i]
      OBVIOUS
    <3>. QED  BY <3>1, WholeSheet
  <2>. QED  BY <2>1, <2>2
<1>2. (1..Len(Rows[s])) \ {1, 2} = 3..Len(Rows[s])
  BY WholeSheet
<1>. QED  BY <1>1, <1>2 DEF StockOf, Filled

\* The row that the import is at, by its number.
LEMMA RowNumber ==
    ASSUME WholeRows, ControlOK, wpc \in InsideImport, Imported(work, working, wpc, row)
    PROVE  /\ work \in Sheets /\ row \in 1..(Len(Rows[work]) + 1)
           /\ Len(Rows[work]) \in Nat /\ Len(Rows[work]) >= 3
           /\ \A r \in Nat : AtRow(r) => wpc = "row" /\ row = r /\ row <= Len(Rows[work])
           /\ AtDataRow => wpc = "row" /\ row > 3 /\ row <= Len(Rows[work])
                           /\ Rows[work][row] = row
           /\ wpc = "insert_row" => Rows[work][row] = row
           /\ row \notin DOMAIN Rows[work] => row = Len(Rows[work]) + 1
<1>1. work \in Sheets /\ row \in 1..(Len(Rows[work]) + 1)
  BY DEF ControlOK, Imported
<1>2. /\ Len(Rows[work]) \in Nat /\ Len(Rows[work]) >= 3
      /\ DOMAIN Rows[work] = 1..Len(Rows[work])
      /\ \A i \in 1..Len(Rows[work]) : Rows[work][i] = i
  BY <1>1, WholeSheet
<1>3. InLoop => wpc = "row" /\ row \in 1..Len(Rows[work]) /\ Rows[work][row] = row
  BY <1>2 DEF InLoop
<1>4. wpc = "insert_row" => Rows[work][row] = row
  BY <1>2 DEF Imported
<1>. QED  BY <1>1, <1>2, <1>3, <1>4 DEF AtRow, AtDataRow
-----------------------------------------------------------------------------
\* Row 1, whatever it makes of the archive, leaves the import at row 2.
LEMMA ImportedHeader ==
    ASSUME WholeRows, TypeInv, ImportOK,
           Archiving \/ HeaderSameDay \/ ArchivingFails
    PROVE  ImportOK'
<1>. USE DEF TypeInv, TypeOK
<1>1. wpc \in InsideImport /\ Imported(work, working, wpc, row)
  BY DEF ImportOK, Archiving, HeaderNewDay, RenameStock, RenameTitles, InsertArchive,
         HeaderSameDay, ArchivingFails, AtRow, InLoop, InsideImport
<1>2. row = 1 /\ Len(Rows[work]) \in Nat /\ Len(Rows[work]) >= 3
  BY <1>1, RowNumber
     DEF Archiving, HeaderNewDay, RenameStock, RenameTitles, InsertArchive,
         HeaderSameDay, ArchivingFails, Imported
<1>3. ASSUME NEW d, NEW next \in {"rename_stock", "rename_titles", "insert_archive"},
             Statement(d, next), row' = row
      PROVE  ImportOK'
  BY <1>2, <1>3 DEF Statement, ImportOK, Imported, disk
<1>4. ASSUME NEW d, EndOfRow(d)
      PROVE  ImportOK'
  BY <1>2, <1>4 DEF EndOfRow, Statement, ImportOK, Imported, disk
<1>. QED  BY <1>3, <1>4 DEF Archiving, HeaderNewDay, RenameStock, RenameTitles,
              InsertArchive, HeaderSameDay, ArchivingFails, ArchiveTable

\* The three live tables are three tables.
LEMMA LiveTablesDiffer ==
    /\ LabelTable # TitlesTable /\ LabelTable # StockTable /\ TitlesTable # StockTable
    /\ \A table \in {LabelTable, TitlesTable, StockTable} : table # Table("ARCHIVE")
BY DEF LabelTable, TitlesTable, StockTable, Table

\* What the statements make of the table that they name and of every other.
LEMMA StatementResults ==
    ASSUME NEW d, NEW table, NEW key, NEW value
    PROVE  /\ table \notin DOMAIN DropTable(d, table)
           /\ table \notin DOMAIN d => Holds(CreateTable(d, table), table, NoRows)
           /\ \A t, content : t # table /\ Holds(d, t, content) =>
                 /\ Holds(DropTable(d, table), t, content)
                 /\ Holds(CreateTable(d, table), t, content)
                 /\ Holds(Insert(d, table, key, value), t, content)
                 /\ Holds(Update(d, table, key, value), t, content)
BY DEF Holds, DropTable, CreateTable, Insert, Update

\* An insertion into a table with rows for other keys.
LEMMA InsertResult ==
    ASSUME NEW d, NEW table, NEW K, NEW s, NEW key, key \notin K,
           Holds(d, table, Filled(K, s)), NEW L, L = K \cup {key}
    PROVE  Holds(Insert(d, table, key, s), table, Filled(L, s))
BY DEF Holds, Insert, Filled

\* An update of a row with what it holds.
LEMMA UpdateResult ==
    ASSUME NEW d, NEW table, NEW K, NEW s, NEW key,
           Holds(d, table, Filled(K, s))
    PROVE  Holds(Update(d, table, key, s), table, Filled(K, s))
BY DEF Holds, Update, Filled

\* The titles.
LEMMA ImportedTitles ==
    ASSUME WholeRows, TypeInv, ImportOK,
           DropTitles \/ CreateTitles \/ InsertTitles
    PROVE  ImportOK'
<1>1. wpc \in InsideImport /\ Imported(work, working, wpc, row) /\ work' = work
  BY DEF ImportOK, DropTitles, CreateTitles, InsertTitles, AtRow, InLoop, InsideImport,
         EndOfRow, Statement, disk
<1>2. row = 2 /\ Len(Rows[work]) \in Nat /\ Len(Rows[work]) >= 3
  <2>1. wpc \in {"create_titles", "insert_titles"} \/ AtRow(2)
    BY DEF DropTitles, CreateTitles, InsertTitles
  <2>2. wpc \in {"create_titles", "insert_titles"} => row = 2
    BY <1>1 DEF Imported
  <2>. QED  BY <1>1, <2>1, <2>2, RowNumber DEF TypeInv, TypeOK
<1>3. CASE DropTitles
  <2>1. TitlesTable \notin DOMAIN working'
    BY <1>3, StatementResults DEF DropTitles, Statement, TitlesTable
  <2>. QED  BY <1>1, <1>2, <1>3, <2>1 DEF DropTitles, Statement, ImportOK, Imported
<1>4. CASE CreateTitles
  BY <1>1, <1>2, <1>4, StatementResults
     DEF CreateTitles, Statement, ImportOK, Imported, TitlesTable
<1>5. CASE InsertTitles
  <2>1. Holds(working', TitlesTable, TitlesOf(work))
    <3>1. Holds(working, TitlesTable, Filled({}, work))
      BY <1>1, <1>5 DEF InsertTitles, Imported, Holds, NoRows, Filled
    <3>2. Holds(Insert(working, TitlesTable, 2, work), TitlesTable, Filled({2}, work))
      BY <3>1, InsertResult
    <3>. QED  BY <1>5, <3>2 DEF InsertTitles, EndOfRow, Statement, TitlesTable,
                  TitlesOf, Filled
  <2>. QED  BY <1>1, <1>2, <1>5, <2>1 DEF InsertTitles, EndOfRow, Statement, ImportOK, Imported
<1>. QED  BY <1>3, <1>4, <1>5

\* The quotes, row after row.
LEMMA ImportedStock ==
    ASSUME WholeRows, TypeInv, ImportOK,
           DropStock \/ CreateStock \/ InsertRow
    PROVE  ImportOK'
<1>1. wpc \in InsideImport /\ Imported(work, working, wpc, row) /\ work' = work
  BY DEF ImportOK, DropStock, CreateStock, InsertRow, AtRow, AtDataRow, InLoop,
         InsideImport, EndOfRow, Statement, disk
<1>2. /\ row \in Nat /\ row > 2 /\ row <= Len(Rows[work])
      /\ Len(Rows[work]) \in Nat /\ Len(Rows[work]) >= 3
      /\ Rows[work][row] = row
      /\ DropStock \/ CreateStock \/ wpc = "insert_row" => row = 3
      /\ InsertRow /\ wpc # "insert_row" => wpc = "row" /\ row > 3
  <2>1. DropStock => AtRow(3)
    BY DEF DropStock
  <2>2. CreateStock => wpc = "create_stock"
    BY DEF CreateStock
  <2>3. InsertRow => wpc = "insert_row" \/ AtDataRow
    BY DEF InsertRow
  <2>4. ControlOK
    BY DEF TypeInv, TypeOK
  <2>5. /\ work \in Sheets /\ row \in Nat
        /\ Len(Rows[work]) \in Nat /\ Len(Rows[work]) >= 3
        /\ AtRow(3) => row = 3
        /\ AtDataRow => wpc = "row" /\ row > 3 /\ row <= Len(Rows[work])
    BY <1>1, <2>4, RowNumber
  <2>6. wpc \in {"create_stock", "insert_row"} => row = 3
    BY <1>1 DEF Imported
  <2>7. row > 2 /\ row <= Len(Rows[work])
    BY <2>1, <2>2, <2>3, <2>5, <2>6
  <2>8. Rows[work][row] = row
    BY <2>5, <2>7, WholeSheet
  <2>. QED  BY <2>1, <2>2, <2>3, <2>5, <2>6, <2>7, <2>8
<1>3. Holds(working, TitlesTable, TitlesOf(work))
  BY <1>1, <1>2 DEF Imported
<1>4. CASE DropStock
  <2>1. Holds(working', TitlesTable, TitlesOf(work)) /\ StockTable \notin DOMAIN working'
    BY <1>3, <1>4, StatementResults, LiveTablesDiffer DEF DropStock, Statement, StockTable
  <2>. QED  BY <1>1, <1>2, <1>4, <2>1 DEF DropStock, Statement, ImportOK, Imported
<1>5. CASE CreateStock
  <2>1. Holds(working', TitlesTable, TitlesOf(work)) /\ Holds(working', StockTable, NoRows)
    BY <1>1, <1>3, <1>5, StatementResults, LiveTablesDiffer
       DEF CreateStock, Statement, StockTable, Imported
  <2>. QED  BY <1>1, <1>2, <1>5, <2>1 DEF CreateStock, Statement, ImportOK, Imported
<1>6. CASE InsertRow
  <2>. DEFINE inserted == Insert(working, StockTable, row, work)
              updated == Update(inserted, StockTable, row, work)
  <2>1. working' = updated /\ row' = row + 1 /\ wpc' = "row"
    BY <1>2, <1>6 DEF InsertRow, EndOfRow, Statement, StockTable
  <2>2. Holds(updated, TitlesTable, TitlesOf(work))
    <3>1. Holds(inserted, TitlesTable, TitlesOf(work))
      BY <1>3, StatementResults, LiveTablesDiffer
    <3>. QED  BY <3>1, StatementResults, LiveTablesDiffer
  <2>3. Holds(working, StockTable, Filled(3..(row - 1), work))
    <3>1. CASE wpc = "insert_row"
      <4>1. 3..(row - 1) = {}
        BY <1>2, <3>1
      <4>2. Holds(working, StockTable, NoRows)
        BY <1>1, <3>1 DEF Imported
      <4>3. Filled({}, work) = NoRows
        BY DEF Filled, NoRows
      <4>. QED  BY <4>1, <4>2, <4>3
    <3>2. CASE wpc # "insert_row"
      BY <1>1, <1>2, <1>6, <3>2 DEF Imported
    <3>. QED  BY <3>1, <3>2
  <2>4. Holds(updated, StockTable, Filled(3..row, work))
    <3>1. row \notin 3..(row - 1) /\ (3..(row - 1)) \cup {row} = 3..row
      BY <1>2
    <3>2. Holds(inserted, StockTable, Filled(3..row, work))
      BY <2>3, <3>1, InsertResult
    <3>. QED  BY <3>2, UpdateResult
  <2>5. Holds(working', StockTable, Filled(3..(row' - 1), work))
    BY <1>2, <2>1, <2>4
  <2>. QED  BY <1>1, <1>2, <2>1, <2>2, <2>5 DEF ImportOK, Imported
<1>. QED  BY <1>4, <1>5, <1>6

\* The label, after the last row.
LEMMA ImportedLabel ==
    ASSUME WholeRows, TypeInv, ImportOK,
           DropLabel \/ CreateLabel \/ InsertLabel
    PROVE  ImportOK'
<1>1. wpc \in InsideImport /\ Imported(work, working, wpc, row) /\ work' = work /\ row' = row
  BY DEF ImportOK, DropLabel, CreateLabel, InsertLabel, InsideImport, Statement, disk
<1>2. row = Len(Rows[work]) + 1 /\ Len(Rows[work]) \in Nat /\ Len(Rows[work]) >= 3
  BY <1>1, RowNumber
     DEF DropLabel, CreateLabel, InsertLabel, Imported, TypeInv, TypeOK
<1>. DEFINE stock == Filled(3..(row - 1), work)
<1>3. Holds(working, TitlesTable, TitlesOf(work)) /\ Holds(working, StockTable, stock)
  BY <1>1, <1>2 DEF Imported
<1>4. Holds(working', TitlesTable, TitlesOf(work)) /\ Holds(working', StockTable, stock)
  BY <1>3, StatementResults, LiveTablesDiffer
     DEF DropLabel, CreateLabel, InsertLabel, Statement, LabelTable
<1>5. CASE DropLabel
  <2>1. LabelTable \notin DOMAIN working'
    BY <1>5, StatementResults DEF DropLabel, Statement, LabelTable
  <2>. QED  BY <1>1, <1>2, <1>4, <1>5, <2>1 DEF DropLabel, Statement, ImportOK, Imported
<1>6. CASE CreateLabel
  <2>1. Holds(working', LabelTable, NoRows)
    BY <1>1, <1>6, StatementResults DEF CreateLabel, Statement, LabelTable, Imported
  <2>. QED  BY <1>1, <1>2, <1>4, <1>6, <2>1 DEF CreateLabel, Statement, ImportOK, Imported
<1>7. CASE InsertLabel
  <2>1. Holds(working, LabelTable, Filled({}, Label(work)))
    BY <1>1, <1>7 DEF InsertLabel, Imported, Holds, NoRows, Filled
  <2>2. Holds(working', LabelTable, Filled({1}, Label(work)))
    <3>1. Holds(Insert(working, LabelTable, 1, Label(work)), LabelTable,
                Filled({1}, Label(work)))
      BY <2>1, InsertResult
    <3>. QED  BY <1>7, <3>1 DEF InsertLabel, Statement, LabelTable
  <2>. QED  BY <1>1, <1>2, <1>4, <1>7, <2>2 DEF InsertLabel, Statement, ImportOK, Imported
<1>. QED  BY <1>5, <1>6, <1>7

\* Every step keeps the import's database what it should be.
LEMMA ImportedStep ==
    ASSUME WholeRows, TypeInv, ImportOK, [Next]_vars
    PROVE  ImportOK'
<1>1. CASE Archiving \/ (ImportSheet /\ ~HeaderUnchanged)
  BY <1>1, ImportedHeader, ImportedTitles, ImportedStock, ImportedLabel DEF ImportSheet
<1>2. CASE HeaderUnchanged \/ ImportThrows \/ Commit \/ Cleanup \/ Crash
  <2>1. wpc' \notin InsideImport
    BY <1>2 DEF HeaderUnchanged, ImportThrows, Commit, Cleanup, Crash, InsideImport
  <2>. QED  BY <2>1 DEF ImportOK
<1>3. CASE Prepare
  <2>1. wpc' \notin InsideImport
    BY <1>3 DEF Prepare, StartUpdate, Download, DownloadFails, UnZip, ParseXML, InsideImport
  <2>. QED  BY <2>1 DEF ImportOK
<1>4. CASE BeginImport
  <2>1. CASE txn = NoTxn
    <3>1. wpc' = "row" /\ row' = 1 /\ work' = work /\ work \in Sheets
      BY <1>4, <2>1 DEF BeginImport, disk, TypeInv, TypeOK, ControlOK
    <3>2. Len(Rows[work]) \in Nat
      BY <3>1, WholeSheet
    <3>. QED  BY <3>1, <3>2 DEF ImportOK, Imported
  <2>2. CASE txn # NoTxn
    BY <1>4, <2>2 DEF BeginImport, ImportOK, InsideImport
  <2>. QED  BY <2>1, <2>2
<1>5. ASSUME NEW r \in Readers, BeginRead(r) \/ Reading(r)
      PROVE  ImportOK'
  <2>1. UNCHANGED <<disk, worker>> /\ (working' = working \/ (Release(r) /\ rpc[r] # "idle"))
    BY <1>5, BeginSteps, ReadingSteps DEF ReaderFrame, TypeInv, TypeOK
  <2>2. CASE working' = working
    BY <2>1, <2>2 DEF ImportOK, Imported, disk, worker
  <2>3. CASE Release(r) /\ rpc[r] # "idle" /\ working' # working
    <3>1. txn = r /\ r \in LocalReaders
      BY <2>3 DEF Release, db, TypeInv, SessionOwner
    <3>2. wpc \notin InsideImport
      BY <3>1, ThreadAssumption DEF TypeInv, SessionOwner, Readers
    <3>. QED  BY <2>1, <3>2 DEF ImportOK, worker
  <2>. QED  BY <2>1, <2>2, <2>3
<1>6. CASE UNCHANGED vars
  BY <1>6 DEF vars, ImportOK, Imported
<1>. QED  BY <1>1, <1>2, <1>3, <1>4, <1>5, <1>6 DEF Next, WorkerStep

-----------------------------------------------------------------------------
(***************************************************************************)
(* What is live and what is archived is whole.                             *)
(***************************************************************************)
\* The live tables of d, if it was ever committed to, are those of one sheet.
LiveOK(d) ==
    LabelTable \in DOMAIN d =>
        \E s \in Sheets : /\ Holds(d, LabelTable, Filled({1}, Label(s)))
                         /\ Holds(d, TitlesTable, TitlesOf(s))
                         /\ Holds(d, StockTable, StockOf(s))

DayOf(s) == [time |-> Label(s).time, titles |-> TitlesOf(s), stock |-> StockOf(s)]

\* So are the tables of every archived day.
DaysOK(d) ==
    \A date \in DOMAIN d[Table("ARCHIVE")] :
        \E s \in Sheets : DateOf[s] = date /\ ArchivedDay(d, date) = DayOf(s)

\* A table of the import holds what the committed live one does.
Kept(table) == Holds(working, table, committed[Table(table[1])])

\* The tables of the day that ends, under their old and their new names, while
\* they are renamed.
Closing ==
    LET name(id) == TableFromDate(id, LastUpdate(committed).date)
    IN  /\ wpc = "row" /\ row = 1 => working = committed
        /\ wpc = "rename_stock" => HasLabel(committed) /\ working = committed
        /\ wpc \in {"rename_titles", "insert_archive"} =>
               /\ HasLabel(committed)
               /\ Kept(LabelTable)
               /\ Kept(name("STOCK_DATA"))
               /\ Kept(Table("ARCHIVE"))
        /\ wpc = "rename_titles" => Kept(TitlesTable)
        /\ wpc = "insert_archive" => Kept(name("DATA_TITLES"))

StoreInv ==
    /\ ArchiveInv
    /\ ImportOK
    /\ LiveOK(committed)
    /\ DaysOK(committed) /\ DaysOK(working)
    /\ Closing

\* The import that comes to its commit has made a live sheet.
LEMMA CommitIsWhole ==
    ASSUME WholeRows, TypeInv, ImportOK, wpc = "commit"
    PROVE  /\ work \in Sheets
           /\ Holds(working, LabelTable, Filled({1}, Label(work)))
           /\ Holds(working, TitlesTable, TitlesOf(work))
           /\ Holds(working, StockTable, StockOf(work))
<1>1. work \in Sheets /\ Imported(work, working, "commit", row)
  BY DEF TypeInv, TypeOK, ControlOK, ImportOK, InsideImport
<1>2. row = Len(Rows[work]) + 1 /\ Len(Rows[work]) \in Nat /\ Len(Rows[work]) >= 3
  BY <1>1, WholeSheet DEF Imported
<1>3. row > 2 /\ row > 3 /\ 3..(row - 1) = 3..Len(Rows[work])
  BY <1>2
<1>. QED  BY <1>1, <1>3, WholeStock DEF Imported

\* A database with the same archive has the same days.
LEMMA SameDays ==
    ASSUME NEW d, NEW e, DaysOK(d), Keeps(d, e),
           DOMAIN e[Table("ARCHIVE")] \subseteq DOMAIN d[Table("ARCHIVE")]
    PROVE  DaysOK(e)
BY DEF DaysOK, Keeps

\* What is live is the label of its sheet.
LEMMA LiveLabel ==
    ASSUME WholeRows, LiveOK(committed), HasLabel(committed)
    PROVE  \E s \in Sheets :
              /\ LastUpdate(committed) = Label(s)
              /\ Label(s) = [date |-> DateOf[s], time |-> TimeOf[s]]
              /\ Holds(committed, TitlesTable, TitlesOf(s))
              /\ Holds(committed, StockTable, StockOf(s))
<1>1. PICK s \in Sheets :
         /\ Holds(committed, LabelTable, Filled({1}, Label(s)))
         /\ Holds(committed, TitlesTable, TitlesOf(s))
         /\ Holds(committed, StockTable, StockOf(s))
  BY DEF LiveOK, HasLabel, LabelTable
<1>2. LastUpdate(committed) = Label(s)
  BY <1>1 DEF LastUpdate, Holds, Filled, LabelTable
<1>. QED  BY <1>1, <1>2, WholeSheet

\* A RENAME leaves other tables alone.
LEMMA RenameResult ==
    ASSUME NEW d, NEW table, NEW new, CanRename(d, table, new)
    PROVE  /\ Holds(RenameTable(d, table, new), new, d[table])
           /\ \A t, content : t # table /\ Holds(d, t, content) =>
                 Holds(RenameTable(d, table, new), t, content)
BY DEF CanRename, RenameTable, Holds

\* Renaming the tables of a day that ends.
LEMMA ClosingArchiving ==
    ASSUME WholeRows, StoreInv, Archiving
    PROVE  Closing'
<1>. DEFINE date == LastUpdate(committed).date
            stockName == TableFromDate("STOCK_DATA", date)
            titlesName == TableFromDate("DATA_TITLES", date)
<1>. USE DEF StoreInv
<1>1. committed' = committed /\ row \in Nat \ {0}
  BY ImportSteps, ThreadAssumption
     DEF Archiving, HeaderNewDay, RenameStock, RenameTitles, InsertArchive,
         ArchiveTable, EndOfRow, Statement, ArchiveInv, TypeInv, TypeOK, ControlOK
<1>2. ASSUME NEW d, EndOfRow(d)
      PROVE  Closing'
  BY <1>1, <1>2 DEF EndOfRow, Statement, Closing
<1>3. CASE HeaderNewDay
  <2>1. ControlOK /\ wpc \in InsideImport /\ AtRow(1)
    BY <1>3 DEF HeaderNewDay, AtRow, InLoop, InsideImport, ArchiveInv, TypeInv, TypeOK
  <2>2. wpc = "row" /\ row = 1
    BY <2>1, RowNumber DEF ImportOK
  <2>. QED  BY <1>1, <1>3, <2>2 DEF HeaderNewDay, Statement, Closing, HasLabel
<1>4. CASE RenameStock /\ ~InsertArchive
  <2>1. HasLabel(committed) /\ working = committed
        /\ ArchiveTable("STOCK_DATA", "rename_titles")
    BY <1>4 DEF RenameStock, Closing
  <2>2. CASE CanRename(working, StockTable, stockName)
    <3>. DEFINE renamed == RenameTable(working, StockTable, stockName)
    <3>1. working' = renamed /\ wpc' = "rename_titles"
      BY <2>1, <2>2 DEF ArchiveTable, Statement, StockTable
    <3>2. Holds(renamed, stockName, committed[StockTable])
      BY <2>1, <2>2, RenameResult
    <3>3. \A t \in {LabelTable, TitlesTable, Table("ARCHIVE")} :
            t \in DOMAIN committed => Holds(renamed, t, committed[t])
      BY <2>1, <2>2, RenameResult, LiveTablesDiffer DEF Holds
    <3>4. {LabelTable, TitlesTable, Table("ARCHIVE")} \subseteq DOMAIN committed
      BY <2>1, LiveLabel DEF HasLabel, LabelTable, Holds, ArchiveInv, TypeInv, TypeOK,
                             DatabaseOK
    <3>. QED  BY <1>1, <2>1, <3>1, <3>2, <3>3, <3>4
              DEF Closing, Kept, HasLabel, LastUpdate, LabelTable, TitlesTable, StockTable,
                  Table, TableFromDate
  <2>3. CASE ~CanRename(working, StockTable, stockName)
    BY <1>2, <2>1, <2>3 DEF ArchiveTable, StockTable
  <2>. QED  BY <2>2, <2>3
<1>5. CASE RenameTitles
  <2>1. /\ HasLabel(committed) /\ Kept(LabelTable) /\ Kept(stockName)
        /\ Kept(Table("ARCHIVE")) /\ Kept(TitlesTable)
        /\ ArchiveTable("DATA_TITLES", "insert_archive")
    BY <1>5 DEF RenameTitles, Closing
  <2>2. LastUpdate(working).date = date
    BY <2>1 DEF Kept, Holds, LastUpdate, LabelTable, Table
  <2>3. CASE CanRename(working, TitlesTable, titlesName)
    <3>. DEFINE renamed == RenameTable(working, TitlesTable, titlesName)
    <3>1. working' = renamed /\ wpc' = "insert_archive"
      BY <2>1, <2>2, <2>3 DEF ArchiveTable, Statement, TitlesTable
    <3>2. Holds(renamed, titlesName, committed[TitlesTable])
      <4>1. working[TitlesTable] = committed[TitlesTable]
        BY <2>1 DEF Kept, Holds, TitlesTable, Table
      <4>. QED  BY <2>3, <4>1, RenameResult
    <3>3. \A t \in {LabelTable, stockName, Table("ARCHIVE")} :
            Holds(renamed, t, committed[Table(t[1])])
      <4>1. \A t \in {LabelTable, stockName, Table("ARCHIVE")} : t # TitlesTable
        BY DEF LabelTable, TitlesTable, Table, TableFromDate
      <4>. QED  BY <2>1, <2>3, <4>1, RenameResult DEF Kept
    <3>. QED  BY <1>1, <2>1, <3>1, <3>2, <3>3
              DEF Closing, Kept, HasLabel, LastUpdate, LabelTable, TitlesTable,
                  Table, TableFromDate
  <2>4. CASE ~CanRename(working, TitlesTable, titlesName)
    BY <1>2, <2>1, <2>2, <2>4 DEF ArchiveTable, TitlesTable
  <2>. QED  BY <2>3, <2>4
<1>6. CASE InsertArchive
  BY <1>2, <1>6 DEF InsertArchive
<1>. QED  BY <1>3, <1>4, <1>5, <1>6 DEF Archiving

\* The row of ARCHIVE for the day that ends leads to that day's sheet.
LEMMA InsertedDay ==
    ASSUME WholeRows, StoreInv, InsertArchive
    PROVE  DaysOK(working)'
<1>. DEFINE last == LastUpdate(committed)
            archive == Table("ARCHIVE")
            day == [time   |-> last.time,
                    titles |-> TableFromDate("DATA_TITLES", last.date),
                    stock  |-> TableFromDate("STOCK_DATA", last.date)]
            d == Insert(working, archive, last.date, day)
<1>. USE DEF StoreInv
<1>1. /\ HasLabel(committed) /\ Kept(LabelTable)
      /\ Kept(day.stock) /\ Kept(day.titles) /\ Kept(archive)
  BY DEF InsertArchive, Closing
<1>2. LastUpdate(working) = last
  BY <1>1 DEF Kept, Holds, LastUpdate, LabelTable, Table
<1>3. working' = d
  BY <1>2 DEF InsertArchive, EndOfRow, Statement
<1>4. archive \in DOMAIN working
  BY <1>1 DEF Kept, Holds
<1>5. DOMAIN d = DOMAIN working /\ \A t \in DOMAIN working \ {archive} : d[t] = working[t]
  BY DEF Insert
<1>6. /\ DOMAIN d[archive] = DOMAIN working[archive] \cup {last.date}
      /\ \A date \in DOMAIN working[archive] : d[archive][date] = working[archive][date]
      /\ last.date \notin DOMAIN working[archive] => d[archive][last.date] = day
  BY <1>4 DEF Insert
<1>7. PICK s \in Sheets : /\ last = Label(s)
                          /\ Label(s) = [date |-> DateOf[s], time |-> TimeOf[s]]
                          /\ Holds(committed, TitlesTable, TitlesOf(s))
                          /\ Holds(committed, StockTable, StockOf(s))
  BY <1>1, LiveLabel
<1>8. ASSUME NEW date \in DOMAIN working[archive]
      PROVE  ArchivedDay(d, date) = ArchivedDay(working, date)
  BY <1>5, <1>6, <1>8, LiveIsNoDate, SMTT(30)
     DEF ArchiveInv, Resolves, ArchivedDay, Table, TableFromDate
<1>9. ASSUME last.date \notin DOMAIN working[archive]
      PROVE  DateOf[s] = last.date /\ ArchivedDay(d, last.date) = DayOf(s)
  <2>1. day.stock # archive /\ day.titles # archive
    BY <1>7, SheetAssumption, TableNames DEF TableIds
  <2>2. d[day.titles] = TitlesOf(s) /\ d[day.stock] = StockOf(s)
    BY <1>1, <1>5, <1>7, <2>1 DEF Kept, Holds, TableFromDate, TitlesTable, StockTable
  <2>. QED  BY <1>6, <1>7, <1>9, <2>2 DEF ArchivedDay, DayOf
<1>10. DaysOK(d)
  <2>. SUFFICES ASSUME NEW date \in DOMAIN d[archive]
                PROVE  \E t \in Sheets : DateOf[t] = date /\ ArchivedDay(d, date) = DayOf(t)
    BY DEF DaysOK
  <2>1. CASE date \in DOMAIN working[archive]
    BY <1>8, <2>1 DEF DaysOK
  <2>2. CASE date \notin DOMAIN working[archive]
    BY <1>6, <1>9, <2>2
  <2>. QED  BY <2>1, <2>2
<1>. QED  BY <1>3, <1>10 DEF DaysOK, ArchivedDay

\* Every other statement of an import changes one live table, or renames it.
LEMMA ImportIsLocal ==
    ASSUME TypeInv, Archiving \/ (ImportSheet /\ ~HeaderUnchanged), ~InsertArchive
    PROVE  \E id \in {"LAST_UPDATE", "DATA_TITLES", "STOCK_DATA"} :
              SameBut(working, working', Table(id))
<1>1. CASE HeaderNewDay \/ HeaderSameDay \/ ArchivingFails
  BY <1>1, StatementsAreLocal
     DEF HeaderNewDay, HeaderSameDay, ArchivingFails, EndOfRow, Statement
<1>2. ASSUME NEW id, NEW next, ArchiveTable(id, next)
      PROVE  SameBut(working, working', Table(id))
  BY <1>2, StatementsAreLocal DEF ArchiveTable, EndOfRow, Statement
<1>3. CASE RenameStock \/ RenameTitles
  BY <1>2, <1>3 DEF RenameStock, RenameTitles
<1>4. CASE DropTitles \/ CreateTitles \/ InsertTitles
  BY <1>4, StatementsAreLocal DEF DropTitles, CreateTitles, InsertTitles, EndOfRow, Statement
<1>5. CASE DropStock \/ CreateStock
  BY <1>5, StatementsAreLocal DEF DropStock, CreateStock, EndOfRow, Statement
<1>6. CASE InsertRow
  <2>. DEFINE r == Rows[work][row]
              inserted == Insert(working, StockTable, r, work)
              updated == Update(inserted, StockTable, r, work)
  <2>1. SameBut(working, inserted, StockTable) /\ SameBut(inserted, updated, StockTable)
    BY StatementsAreLocal
  <2>2. SameBut(working, updated, StockTable)
    BY <2>1 DEF SameBut
  <2>. QED  BY <1>6, <2>2 DEF InsertRow, EndOfRow, Statement, StockTable
<1>7. CASE DropLabel \/ CreateLabel \/ InsertLabel
  BY <1>7, StatementsAreLocal DEF DropLabel, CreateLabel, InsertLabel, Statement
<1>. QED  BY <1>1, <1>3, <1>4, <1>5, <1>6, <1>7 DEF Archiving, ImportSheet

\* So it keeps the archive.
LEMMA ImportKeepsDays ==
    ASSUME ArchiveInv, Archiving \/ (ImportSheet /\ ~HeaderUnchanged), ~InsertArchive
    PROVE  Keeps(working, working') /\ working'[Table("ARCHIVE")] = working[Table("ARCHIVE")]
<1>1. Table("ARCHIVE") \in DOMAIN working /\ Resolves(working)
  BY DEF ArchiveInv, TypeInv, TypeOK, DatabaseOK
<1>2. PICK id \in {"LAST_UPDATE", "DATA_TITLES", "STOCK_DATA"} :
         SameBut(working, working', Table(id))
  BY ImportIsLocal DEF ArchiveInv
<1>3. id # "ARCHIVE" /\ Table("ARCHIVE") # Table(id)
  BY DEF Table
<1>4. Keeps(working, working')
  BY <1>1, <1>2, <1>3, LiveTableChanges
<1>. QED  BY <1>1, <1>2, <1>3, <1>4 DEF SameBut

\* A step outside the archiving leaves the renamed tables alone.
LEMMA ClosingStep ==
    ASSUME WholeRows, StoreInv, [Next]_vars
    PROVE  Closing'
<1>. USE DEF StoreInv, ArchiveInv, TypeInv
<1>1. CASE Archiving
  BY <1>1, ClosingArchiving
<1>2. CASE ImportSheet /\ ~HeaderUnchanged
  <2>1. \/ row' = row + 1 /\ wpc' = "row"
        \/ wpc' \in {"create_titles", "insert_titles", "create_stock", "insert_row",
                     "create_label", "insert_label", "commit"}
    BY <1>2 DEF ImportSheet, HeaderSameDay, ArchivingFails, DropTitles, CreateTitles,
       InsertTitles, DropStock, CreateStock, InsertRow, DropLabel, CreateLabel,
       InsertLabel, EndOfRow, Statement
  <2>2. row \in Nat \ {0}
    BY DEF TypeOK, ControlOK
  <2>. QED  BY <2>1, <2>2 DEF Closing
<1>3. CASE HeaderUnchanged \/ ImportThrows \/ Commit \/ Cleanup \/ Crash \/ Prepare
  <2>1. wpc' \notin InsideImport
    BY <1>3 DEF HeaderUnchanged, ImportThrows, Commit, Cleanup, Crash, Prepare,
       StartUpdate, Download, DownloadFails, UnZip, ParseXML, InsideImport
  <2>. QED  BY <2>1 DEF Closing, InsideImport
<1>4. CASE BeginImport
  BY <1>4, ThreadAssumption DEF BeginImport, Closing, OnlyImportIsDirty
<1>5. ASSUME NEW r \in Readers, BeginRead(r) \/ Reading(r)
      PROVE  Closing'
  <2>1. /\ UNCHANGED <<worker, committed>>
        /\ working' = working \/ (Release(r) /\ rpc[r] # "idle")
    BY <1>5, BeginSteps, ReadingSteps DEF ReaderFrame, TypeOK
  <2>2. CASE working' = working
    BY <2>1, <2>2 DEF Closing, worker, Kept, HasLabel, LastUpdate
  <2>3. CASE Release(r) /\ rpc[r] # "idle" /\ working' # working
    <3>1. wpc \notin InsideImport
      BY <2>3, ThreadAssumption DEF Release, db, SessionOwner, Readers
    <3>. QED  BY <2>1, <3>1 DEF Closing, worker, InsideImport
  <2>. QED  BY <2>1, <2>2, <2>3
<1>6. CASE UNCHANGED vars
  BY <1>6 DEF vars, Closing, Kept, HasLabel, LastUpdate
<1>. QED  BY <1>1, <1>2, <1>3, <1>4, <1>5, <1>6 DEF Next, WorkerStep

\* What any step makes of the two databases.
LEMMA DatabaseSteps ==
    ASSUME TypeInv, [Next]_vars
    PROVE  \/ Commit
           \/ committed' = committed /\ working' \in {committed, working}
           \/ committed' = committed /\ (Archiving \/ (ImportSheet /\ ~HeaderUnchanged))
<1>1. CASE Prepare \/ BeginImport \/ Cleanup
  BY <1>1 DEF Prepare, StartUpdate, Download, DownloadFails, UnZip, ParseXML,
              BeginImport, Cleanup, db
<1>2. CASE Archiving \/ (ImportSheet /\ ~HeaderUnchanged)
  BY <1>2, ImportSteps DEF ImportFrame, ImportEnds, Rollback
<1>3. CASE HeaderUnchanged \/ ImportThrows
  BY <1>3 DEF HeaderUnchanged, ImportThrows, Rollback
<1>4. ASSUME NEW r \in Readers, BeginRead(r) \/ Reading(r)
      PROVE  committed' = committed /\ working' \in {committed, working}
  BY <1>4, BeginSteps, ReadingSteps
     DEF ReaderFrame, TypeInv, TypeOK, Release, Rollback, db
<1>5. CASE Crash
  BY <1>5 DEF Crash, InitTables, CreateTable, TypeInv, TypeOK, DatabaseOK
<1>6. CASE UNCHANGED vars
  BY <1>6 DEF vars
<1>. QED  BY <1>1, <1>2, <1>3, <1>4, <1>5, <1>6 DEF Next, WorkerStep

\* Every step keeps the store whole.
LEMMA StoreStep ==
    ASSUME WholeRows, StoreInv, [Next]_vars
    PROVE  StoreInv'
<1>1. ArchiveInv' /\ ImportOK' /\ Closing'
  BY ArchiveStep, ImportedStep, ClosingStep DEF StoreInv, ArchiveInv
<1>2. CASE Commit
  <2>1. committed' = working /\ working' = working /\ wpc = "commit"
    BY <1>2 DEF Commit
  <2>2. LiveOK(working)
    BY <2>1, CommitIsWhole DEF StoreInv, ArchiveInv, LiveOK
  <2>. QED  BY <1>1, <2>1, <2>2 DEF StoreInv, LiveOK, DaysOK, Holds, ArchivedDay
<1>3. CASE committed' = committed /\ working' \in {committed, working}
  BY <1>1, <1>3 DEF StoreInv, LiveOK, DaysOK, Holds, ArchivedDay
<1>4. CASE committed' = committed /\ (Archiving \/ (ImportSheet /\ ~HeaderUnchanged))
  <2>1. DaysOK(working)'
    <3>1. CASE InsertArchive
      BY <3>1, InsertedDay
    <3>2. CASE ~InsertArchive
      <4>1. Keeps(working, working') /\ working'[Table("ARCHIVE")] = working[Table("ARCHIVE")]
        BY <1>4, <3>2, ImportKeepsDays DEF StoreInv
      <4>2. DaysOK(working')
        BY <4>1, SameDays DEF StoreInv
      <4>. QED  BY <4>2 DEF DaysOK, ArchivedDay
    <3>. QED  BY <3>1, <3>2
  <2>. QED  BY <1>1, <1>4, <2>1 DEF StoreInv, LiveOK, DaysOK, Holds, ArchivedDay
<1>. QED  BY <1>2, <1>3, <1>4, DatabaseSteps DEF StoreInv, ArchiveInv

\* Nothing is published at the start.
LEMMA StoreInit == ASSUME WholeRows, Init PROVE StoreInv
<1>1. LabelTable \notin DOMAIN NewDatabase /\ DOMAIN NewDatabase[Table("ARCHIVE")] = {}
  BY DEF NewDatabase, InitTables, CreateTable, NoRows, LabelTable, Table
<1>2. ArchiveInv
  BY ArchiveInit
<1>3. LiveOK(committed) /\ DaysOK(committed) /\ DaysOK(working)
  BY <1>1 DEF Init, LiveOK, DaysOK
<1>4. ImportOK /\ Closing
  BY DEF Init, ImportOK, InsideImport, Closing
<1>. QED  BY <1>2, <1>3, <1>4 DEF StoreInv

\* What the invariant says of what is committed.
LEMMA StoreInvConsistent == ASSUME WholeRows, StoreInv PROVE StoreConsistent
<1>1. Table("LAST_UPDATE") \in DOMAIN committed =>
          \E s \in Sheets :
              /\ committed[Table("LAST_UPDATE")] = [k \in {1} |-> Label(s)]
              /\ committed[Table("DATA_TITLES")] = TitlesOf(s)
              /\ committed[Table("STOCK_DATA")] = StockOf(s)
  BY DEF StoreInv, LiveOK, Holds, Filled, LabelTable, TitlesTable, StockTable
<1>2. ASSUME NEW date \in DOMAIN committed[Table("ARCHIVE")]
      PROVE  LET day == committed[Table("ARCHIVE")][date]
             IN  \E s \in Sheets : /\ Label(s) = [date |-> date, time |-> day.time]
                                  /\ committed[day.titles] = TitlesOf(s)
                                  /\ committed[day.stock] = StockOf(s)
  <2>. DEFINE day == committed[Table("ARCHIVE")][date]
  <2>1. PICK s \in Sheets : DateOf[s] = date /\ ArchivedDay(committed, date) = DayOf(s)
    BY DEF StoreInv, DaysOK
  <2>2. /\ day.time = Label(s).time
        /\ committed[day.titles] = TitlesOf(s) /\ committed[day.stock] = StockOf(s)
    BY <2>1 DEF ArchivedDay, DayOf
  <2>3. Label(s) = [date |-> date, time |-> day.time]
    BY <2>1, <2>2, WholeSheet
  <2>. QED  BY <2>2, <2>3
<1>. QED  BY <1>1, <1>2 DEF StoreConsistent

\* For sheets that have all their rows, what is live and what is archived is
\* always one whole sheet, whatever fails, and whoever reads meanwhile.
THEOREM StoreIsConsistent == ASSUME WholeRows PROVE Spec => []StoreConsistent
<1>1. Init => StoreInv
  BY StoreInit
<1>2. StoreInv /\ [Next]_vars => StoreInv'
  BY StoreStep
<1>3. StoreInv => StoreConsistent
  BY StoreInvConsistent
<1>. QED  BY <1>1, <1>2, <1>3, PTL DEF Spec

-----------------------------------------------------------------------------
(***************************************************************************)
(* What is imported is what was downloaded, for any sheets.                *)
(***************************************************************************)
\* WORK_DIR holds nothing but parts of what this cycle downloaded.
PartsOfFile ==
    /\ wpc \in {"download", "unzip"} => work = None
    /\ wpc = "parse" => work \in {None, file}
    /\ wpc \in InsideImport \cup {"begin"} => work = file

\* No step imports the parts that an earlier cycle left.
LEMMA PartsStep == TypeInv /\ PartsOfFile /\ [Next]_vars => PartsOfFile'
<1>. SUFFICES ASSUME TypeInv, PartsOfFile, [Next]_vars
              PROVE  PartsOfFile'
  OBVIOUS
<1>1. CASE Prepare
  BY <1>1 DEF Prepare, StartUpdate, Download, DownloadFails, UnZip, ParseXML,
              PartsOfFile, InsideImport, disk
<1>2. CASE BeginImport \/ Commit \/ Cleanup
  BY <1>2 DEF BeginImport, Commit, Cleanup, PartsOfFile, InsideImport, disk
<1>3. CASE Archiving \/ ImportSheet \/ ImportThrows
  <2>1. ImportFrame \/ ImportEnds
    BY <1>3, ImportSteps
  <2>. QED  BY <2>1 DEF ImportFrame, ImportEnds, PartsOfFile, InsideImport, disk
<1>4. CASE \E r \in Readers : BeginRead(r) \/ Reading(r)
  <2>1. UNCHANGED <<disk, worker>>
    BY <1>4, BeginSteps, ReadingSteps DEF ReaderFrame, TypeInv, TypeOK
  <2>. QED  BY <2>1 DEF PartsOfFile, disk, worker
<1>5. CASE Crash
  BY <1>5 DEF Crash, PartsOfFile, InsideImport
<1>6. CASE UNCHANGED vars
  BY <1>6 DEF vars, PartsOfFile
<1>. QED  BY <1>1, <1>2, <1>3, <1>4, <1>5, <1>6 DEF Next, WorkerStep

\* Whatever early returns and crashes leave in WORK_DIR, an import never reads
\* the parts of any sheet but the one that its own cycle downloaded.
THEOREM ImportIsOfDownload == Spec => []ImportsDownloaded
<1>1. Init => PartsOfFile
  BY DEF Init, PartsOfFile, InsideImport
<1>2. PartsOfFile => ImportsDownloaded
  BY DEF PartsOfFile, ImportsDownloaded
<1>. QED  BY <1>1, <1>2, PartsStep, TypeInvariant, PTL DEF Spec

-----------------------------------------------------------------------------
(***************************************************************************)
(* Answers are whole sheets.                                               *)
(***************************************************************************)
\* The tables that reader r is at.
FromOK(r) ==
    /\ rpc[r] = "label" => out[r].from = LiveTables
    /\ rpc[r] \in {"titles", "data"} =>
           out[r].from = IF Archived(r)
                         THEN LET day == committed[Table("ARCHIVE")][out[r].request]
                              IN  [titles |-> day.titles, stock |-> day.stock]
                         ELSE LiveTables

\* What r holds, with status 200, is sheet s.
Given(r, s) ==
    /\ out[r].label = Label(s)
    /\ out[r].titles = TitlesOf(s)
    /\ out[r].data = StockOf(s)
    /\ Archived(r) => DateOf[s] = out[r].request

AnswerInv ==
    /\ StoreInv
    /\ ReadInv
    /\ \A r \in Readers : FromOK(r)
    /\ \A r \in Readers : out[r].status = "200" => \E s \in Sheets : Given(r, s)

\* The last SELECT of a request makes its answer one whole sheet: the latest
\* one, or that of the day which was asked for.
LEMMA WholeAnswer ==
    ASSUME WholeRows, StoreInv, ReadInv, NEW r \in Readers, FromOK(r), ReadData(r)
    PROVE  /\ committed' = committed
           /\ out' = [out EXCEPT ![r] = out'[r]]
           /\ out'[r].status = "200" /\ out'[r].request = out[r].request
           /\ \E s \in Sheets :
                 /\ Given(r, s)'
                 /\ IF Archived(r)
                    THEN LET date == out[r].request
                         IN  /\ date \in DOMAIN committed[Table("ARCHIVE")]
                             /\ DateOf[s] = date
                             /\ ArchivedDay(committed, date) = DayOf(s)
                    ELSE /\ HasLabel(committed)
                         /\ Holds(committed, TitlesTable, TitlesOf(s))
<1>. DEFINE fields == {"request", "status", "from", "label", "titles", "data"}
            stock == out[r].from.stock
            read == [out[r] EXCEPT !.data = committed[stock], !.status = "200"]
<1>1. OwnerInv /\ rpc[r] = "data" /\ DOMAIN out[r] = fields /\ DOMAIN out = Readers
  BY DEF ReadInv, TypeInv, TypeOK, OwnerInv, ReadData, ControlOK, ReaderOK
<1>2. View(r) = committed
  BY <1>1, ViewIsCommitted
<1>3. out' = [out EXCEPT ![r] = read] /\ committed' = committed
  BY <1>2 DEF ReadData, Finish, Release, Rollback, db
<1>4. /\ out'[r] = read /\ read.status = "200" /\ read.request = out[r].request
      /\ read.label = out[r].label /\ read.titles = out[r].titles
      /\ read.data = committed[stock]
  BY <1>1, <1>3
<1>5. out[r].titles = committed[out[r].from.titles]
  BY <1>1 DEF ReadInv, ReadIsCommitted
<1>6. CASE Archived(r)
  <2>. DEFINE date == out[r].request
              day == committed[Table("ARCHIVE")][date]
  <2>1. /\ date \in DOMAIN committed[Table("ARCHIVE")]
        /\ out[r].label = [date |-> date, time |-> day.time]
        /\ out[r].from = [titles |-> day.titles, stock |-> day.stock]
    BY <1>1, <1>6 DEF ReadInv, ReadIsCommitted, FromOK
  <2>2. PICK s \in Sheets : DateOf[s] = date /\ ArchivedDay(committed, date) = DayOf(s)
    BY <2>1 DEF StoreInv, DaysOK
  <2>3. /\ day.time = Label(s).time
        /\ committed[day.titles] = TitlesOf(s) /\ committed[day.stock] = StockOf(s)
    BY <2>2 DEF ArchivedDay, DayOf
  <2>4. Label(s) = [date |-> date, time |-> day.time]
    BY <2>2, <2>3, WholeSheet
  <2>5. Given(r, s)'
    BY <1>4, <1>5, <2>1, <2>2, <2>3, <2>4 DEF Given, Archived
  <2>. QED  BY <1>3, <1>4, <1>6, <2>1, <2>2, <2>5
<1>7. CASE ~Archived(r)
  <2>1. /\ HasLabel(committed) /\ out[r].label = LastUpdate(committed)
        /\ out[r].from = LiveTables
    BY <1>1, <1>7 DEF ReadInv, ReadIsCommitted, FromOK
  <2>2. PICK s \in Sheets : /\ LastUpdate(committed) = Label(s)
                            /\ Holds(committed, TitlesTable, TitlesOf(s))
                            /\ Holds(committed, StockTable, StockOf(s))
    BY <2>1, LiveLabel DEF StoreInv
  <2>3. Given(r, s)'
    BY <1>4, <1>5, <1>7, <2>1, <2>2
       DEF Given, Archived, LiveTables, Holds, TitlesTable, StockTable
  <2>. QED  BY <1>3, <1>4, <1>7, <2>1, <2>2, <2>3
<1>. QED  BY <1>6, <1>7

\* A reader whose state and whose view are left alone stays where it is.
LEMMA AnswerKept ==
    ASSUME AnswerInv, NEW q \in Readers, rpc'[q] = rpc[q], out'[q] = out[q],
           committed' = committed \/ rpc[q] \notin {"titles", "data"}
    PROVE  /\ FromOK(q)'
           /\ out'[q].status = "200" => \E s \in Sheets : Given(q, s)'
BY DEF AnswerInv, FromOK, Given, Archived

\* A request's own step keeps it at the tables of its day, and ends with a whole
\* sheet or a refusal.
LEMMA OwnAnswer ==
    ASSUME WholeRows, AnswerInv, NEW r \in Readers, BeginRead(r) \/ Reading(r)
    PROVE  /\ FromOK(r)'
           /\ out'[r].status = "200" => \E s \in Sheets : Given(r, s)'
<1>. DEFINE fields == {"request", "status", "from", "label", "titles", "data"}
<1>1. /\ OwnerInv /\ DOMAIN rpc = Readers /\ DOMAIN out = Readers /\ DOMAIN out[r] = fields
      /\ rpc[r] # "idle" => out[r].status = "asked"
  BY DEF AnswerInv, ReadInv, TypeInv, TypeOK, OwnerInv, ControlOK, ReaderOK
<1>2. FromOK(r)
  BY DEF AnswerInv
<1>3. rpc[r] # "idle" => View(r) = committed
  BY <1>1, ViewIsCommitted
<1>4. CASE BeginRead(r)
  <2>1. PICK request \in Requests :
           \/ rpc'[r] = "idle" /\ out'[r] = [Asking(request) EXCEPT !.status = "500"]
           \/ rpc'[r] = "label" /\ out'[r] = Asking(request)
    BY <1>1, <1>4, BeginSteps
  <2>. QED  BY <2>1 DEF FromOK, Asking
<1>5. CASE ReadLabel(r)
  <2>. DEFINE read == [out[r] EXCEPT !.label = LastUpdate(View(r))]
  <2>1. rpc[r] = "label" /\ rpc'[r] = "titles" /\ out'[r] = read /\ ~Archived(r)
    BY <1>1, <1>5 DEF ReadLabel, Advance
  <2>2. read.from = out[r].from /\ read.status = "asked" /\ read.request = out[r].request
    BY <1>1, <2>1
  <2>. QED  BY <1>2, <2>1, <2>2 DEF FromOK, Archived, LiveTables
<1>6. CASE ReadArchiveRow(r)
  <2>. DEFINE date == out[r].request
              days == committed[Table("ARCHIVE")]
              read == [out[r] EXCEPT
                        !.label = [date |-> date, time |-> days[date].time],
                        !.from  = [titles |-> days[date].titles,
                                   stock  |-> days[date].stock]]
  <2>1. rpc[r] = "label" /\ Archived(r) /\ View(r) = committed
    BY <1>3, <1>6 DEF ReadArchiveRow
  <2>2. CASE date \in DOMAIN days
    <3>1. rpc'[r] = "titles" /\ out'[r] = read /\ committed' = committed
      BY <1>1, <1>6, <2>1, <2>2 DEF ReadArchiveRow, Advance, db
    <3>2. /\ read.from = [titles |-> days[date].titles, stock |-> days[date].stock]
          /\ read.status = "asked" /\ read.request = date
      BY <1>1, <2>1
    <3>. QED  BY <2>1, <3>1, <3>2 DEF FromOK, Archived
  <2>3. CASE date \notin DOMAIN days
    <3>1. rpc'[r] = "idle" /\ out'[r] = Refused(r, "404")
      BY <1>1, <1>6, <2>1, <2>3 DEF ReadArchiveRow, Finish
    <3>. QED  BY <3>1 DEF FromOK, Refused, Asking
  <2>. QED  BY <2>2, <2>3
<1>7. CASE ReadTitles(r)
  <2>. DEFINE read == [out[r] EXCEPT !.titles = View(r)[out[r].from.titles]]
  <2>1. /\ rpc[r] = "titles" /\ rpc'[r] = "data" /\ out'[r] = read
        /\ committed' = committed
    BY <1>1, <1>7 DEF ReadTitles, Advance, db
  <2>2. read.from = out[r].from /\ read.status = "asked" /\ read.request = out[r].request
    BY <1>1, <2>1
  <2>. QED  BY <1>2, <2>1, <2>2 DEF FromOK, Archived, LiveTables
<1>8. CASE ReadData(r)
  <2>1. rpc'[r] = "idle"
    BY <1>1, <1>8 DEF ReadData, Finish
  <2>. QED  BY <1>2, <1>8, <2>1, WholeAnswer DEF AnswerInv, FromOK
<1>9. CASE ReadThrows(r)
  <2>1. rpc'[r] = "idle" /\ out'[r] = Refused(r, "500")
    BY <1>1, <1>9 DEF ReadThrows, Finish
  <2>. QED  BY <2>1 DEF FromOK, Refused, Asking
<1>. QED  BY <1>4, <1>5, <1>6, <1>7, <1>8, <1>9 DEF Reading

\* Nobody's step takes the sheet from under a request.
LEMMA AnswerStep == WholeRows /\ AnswerInv /\ [Next]_vars => AnswerInv'
<1>. SUFFICES ASSUME WholeRows, AnswerInv, [Next]_vars, NEW q \in Readers
              PROVE  /\ FromOK(q)'
                     /\ out'[q].status = "200" => \E s \in Sheets : Given(q, s)'
  BY StoreStep, ReadStep DEF AnswerInv
<1>. USE DEF ReadInv, TypeInv, TypeOK
<1>1. DOMAIN rpc = Readers /\ DOMAIN out = Readers
  BY DEF AnswerInv, ControlOK
<1>2. CASE Commit
  <2>1. rpc[q] \notin {"titles", "data"}
    BY <1>2, ThreadAssumption
       DEF Commit, SharedLock, AnswerInv, SessionOwner, InsideImport, Readers
  <2>. QED  BY <1>2, <2>1, AnswerKept DEF Commit, reader
<1>3. CASE WorkerStep /\ ~Commit
  <2>1. committed' = committed /\ reader' = reader
    BY <1>3, ImportSteps
       DEF WorkerStep, Prepare, StartUpdate, Download, DownloadFails, UnZip,
           ParseXML, BeginImport, Cleanup, ImportFrame, ImportEnds, Rollback, db
  <2>. QED  BY <2>1, AnswerKept DEF reader
<1>4. ASSUME NEW r \in Readers, BeginRead(r) \/ Reading(r)
      PROVE  /\ FromOK(q)'
             /\ out'[q].status = "200" => \E s \in Sheets : Given(q, s)'
  <2>1. CASE q = r
    BY <1>4, <2>1, OwnAnswer
  <2>2. CASE q # r
    <3>1. committed' = committed /\ rpc'[q] = rpc[q] /\ out'[q] = out[q]
      BY <1>1, <1>4, <2>2, BeginSteps, ReadingSteps DEF ReaderFrame, AnswerInv
    <3>. QED  BY <3>1, AnswerKept
  <2>. QED  BY <2>1, <2>2
<1>5. CASE Crash
  <2>1. committed' = committed
    BY <1>5 DEF Crash, InitTables, CreateTable, DatabaseOK, AnswerInv
  <2>2. CASE q \in LocalReaders
    BY <1>5, <2>2 DEF Crash, FromOK, Readers, Idle, Asking
  <2>3. CASE q \notin LocalReaders
    BY <1>5, <2>1, <2>3, AnswerKept DEF Crash
  <2>. QED  BY <2>2, <2>3
<1>6. CASE UNCHANGED vars
  BY <1>6, AnswerKept DEF vars
<1>. QED  BY <1>2, <1>3, <1>4, <1>5, <1>6 DEF Next

\* Nobody has an answer at the start.
LEMMA AnswerInit == ASSUME WholeRows, Init PROVE AnswerInv
<1>1. ReadInv
  BY TypeInit DEF Init, ReadInv, ReadIsCommitted
<1>. QED  BY <1>1, StoreInit DEF Init, AnswerInv, FromOK, Idle, Asking

\* Every answer with status 200 is one whole sheet, and of the day that was
\* asked for, however imports, other requests and restarts come in between.
THEOREM AnswersAreWhole == ASSUME WholeRows PROVE Spec => []AnswersWhole
<1>1. Init => AnswerInv
  BY AnswerInit
<1>2. AnswerInv /\ [Next]_vars => AnswerInv'
  BY AnswerStep
<1>3. AnswerInv => AnswersWhole
  BY DEF AnswerInv, AnswersWhole, Given
<1>. QED  BY <1>1, <1>2, <1>3, PTL DEF Spec
=============================================================================
