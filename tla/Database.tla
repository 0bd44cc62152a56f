------------------------------ MODULE Database ------------------------------
(***************************************************************************)
(* CoreLib::DB and StockMarket::DBTables: the statements the server sends  *)
(* to SQLite and the names of the tables it sends them about.              *)
(*                                                                         *)
(* A database is a function whose domain is the set of existing tables.  A *)
(* table is a function from the values of its key to its rows.  A table    *)
(* name is a pair: the table's id in TablesHash, and Live for the table a  *)
(* reader of the current quotes uses or the date a table was archived      *)
(* under.  CREATE, DROP and INSERT name the exceptions of the SQL they     *)
(* stand for: IF NOT EXISTS, IF EXISTS and OR IGNORE.                      *)
(***************************************************************************)
CONSTANTS Dates,   \* what the date of a sheet may be, "" included
          Live     \* the slot of the tables that are not archived

ASSUME LiveIsNoDate == Live \notin Dates

TableIds == {"LAST_UPDATE", "DATA_TITLES", "STOCK_DATA", "ARCHIVE"}

TableName == TableIds \X (Dates \cup {Live})

Table(id) == <<id, Live>>

TableFromDate(id, date) == <<id, date>>

NoRows == [key \in {} |-> key]

CreateTable(db, table) ==
    IF table \in DOMAIN db
    THEN db
    ELSE [t \in DOMAIN db \cup {table} |-> IF t = table THEN NoRows ELSE db[t]]

DropTable(db, table) == [t \in DOMAIN db \ {table} |-> db[t]]

\* Mutant of CanRename: a table in the way is replaced.
CanRenameOver(db, table, newTable) == table \in DOMAIN db

\* ALTER TABLE ... RENAME is an error unless the old name exists and the new
\* one is free.
CanRename(db, table, newTable) ==
    table \in DOMAIN db /\ newTable \notin DOMAIN db

RenameTable(db, table, newTable) ==
    [t \in (DOMAIN db \ {table}) \cup {newTable} |->
        IF t = newTable THEN db[table] ELSE db[t]]

\* LAST_UPDATE has no primary key: its callers insert into an empty table.
Insert(db, table, key, row) ==
    IF key \in DOMAIN db[table]
    THEN db
    ELSE [db EXCEPT ![table] =
             [k \in DOMAIN @ \cup {key} |-> IF k = key THEN row ELSE @[k]]]

Update(db, table, key, row) ==
    IF key \in DOMAIN db[table] THEN [db EXCEPT ![table][key] = row] ELSE db

\* What DBTables::InitTables leaves of a database that did not exist.
InitTables(db) == CreateTable(db, Table("ARCHIVE"))

NewDatabase == InitTables([t \in {} |-> NoRows])
=============================================================================
