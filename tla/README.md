# Verification of the StockMarket server

TLA+ models of the C++ server in `src/` (a library `CoreLib`, a program `REST`),
TLC runs that check them on small instances, and proofs that TLAPS checks for
every value of the constants. `PROJECT.json` ties every definition to the lines
it models, every run to its properties, every property to a change of the code
that breaks it, and every hazard to the properties that watch it.

The server downloads an xlsx spreadsheet of stock quotes every two minutes,
imports it into SQLite, archives the tables of a day when the next day's sheet
arrives, and serves the quotes by a token-protected REST API and by a Wt home
page.

## 1. Inventory

| component | state it keeps | operations | with whom |
|---|---|---|---|
| **import** (`StockUpdateWorker::Impl::Update`) | the downloaded archive `TEMP_FILE`, its parts in `WORK_DIR`, the tables | erase, download, unzip, parse; begin; label, archive, titles, quotes, label; commit; clean up | database, HTTP, unzip, RT |
| **worker's life** (`StockUpdateWorker`) | `Running`, the settings, `WorkerThread`, `WorkerMutex` | `Start`, `Stop`, getters, setters, `Cron`, the destructor | main, RT |
| **database** (`CoreLib::DB`, `DBTables`) | the cppdb session; LAST_UPDATE, DATA_TITLES, STOCK_DATA, ARCHIVE | create, drop, rename, insert, update; names of tables | all that follow |
| **readers** (`GetLatestData`, `GetDataByDate`, `Home::RefreshStockDataTable`) | an open transaction | three SELECTs and a rollback | database |
| **API** (`PublicAPIResource`, `ServiceContract`, `APIResource`, exceptions) | the table of contracts | resolve a URI, check its token, answer | clients, RT's Crypto |
| **process** (`main`, `RT`, `CoreLib::Initialize`) | lazily created instances, a mutex each | start, serve, stop, SIGTERM | all |
| **log** (`CoreLib::Log`) | its file, `Initialized`, two mutexes | initialize, log | all |
| **process lock** (`CoreLib::System`) | a lock file | `GetLock`, `ReleaseLock` | main |
| **home page** (`Home`, `Page`, `Div`) | widgets, a timer, whether quotes are shown | click, timeout, refresh | readers, sessions |
| **sessions** (`CgiRoot`, `CgiEnv`) | one environment per Wt session | create, refuse, exit | home page |
| **cryptography** (`Crypto`) | two key pairs | encrypt, decrypt, hash | API |
| **calendar** (`CDate`) | - | Gregorian and Jalali dates, their texts | home page |
| **mail** (`Mail`) | a message | `Send`, `SendAsync` | nobody |

### What is hard here

* *One session, no lock.* The worker, the request threads and the Wt sessions
  send their statements to one cppdb session (`rt.cpp:73`). Nothing but BEGIN's
  refusal to nest keeps one thread out of another's transaction. A process that
  did not get the lock has a session of its own, kept apart by SQLite's locks.
* *Partial failure.* `catch (...)` drops errors of the archiving; every other
  error rolls back, from a guard's destructor; the process may end anywhere.
* *Stale files.* The early return of an unchanged sheet skips the clean-up, and
  `unzip -o` leaves parts that the new archive lacks.
* *Threads that outlive their handle.* `detach()` makes the later `interrupt()`
  do nothing; `Update` runs under `WorkerMutex` with no timeout on the network.
* *Pages on the worker's connection.* A click and a timer refresh a table inside
  a transaction of the shared session; an exception on the way ends the Wt
  session with the flag set and the timer off, and must leave no transaction.
* *Processes that come and go.* The lock belongs to a process, nobody takes the
  update over from one that ended, and the others serve on.
* *Mutexes nested across RT, the worker and the log*, by static destructors and
  by a signal handler too.
* *A clock in two resolutions*, compared with tokens in milliseconds, under two
  keys, one for each direction.
* *Leap years counted one in four*, in tables of days that are easily off by one.
* *Text that is nearly right*: regexes with holes, URIs compared by prefix.

What makes each part right: a published sheet is whole and belongs to one
download; a day that ended is archived once and never changes; a reader sees one
committed state; there is one update at a time, with the settings it began with;
quotes need a token of now, and a token that was issued and returned serves;
dates convert there and back; one process updates, however processes restart; no
page leaves a transaction open or shows an older sheet than before; no piece of a
URI is read twice or skipped; one instance of each singleton; no thread waits for
ever; SIGTERM ends the process; the quotes shown are live.

`PROJECT.json` lists the hazards line by line, also those that no property
covers yet, each with its reason.

## 2. Modules

| module | models | extends |
|---|---|---|
| `Database` | the SQL that `DB` and `DBTables` send, as functions on a database | - |
| `QuoteStore` | *abstract*: one latest sheet, an archive of days, whole answers | - |
| `QuoteService` | `Update` statement by statement, the readers, faults, restarts | `Database`; instance `Store` of `QuoteStore` |
| `SheetHeader` | what the two regexes find in cell A1 | - |
| `UpdateWorker` | `Start`, `Stop`, getters, setters, `Cron` | - |
| `ServiceContract` | `Register`, `Resolve` and its helpers | - |
| `Crypto` | `Encrypt` and `Decrypt` of an object with a key | - |
| `PublicAPI` | `handleRequest`, `IsValidToken`, `GetToken`, the format of replies | `ServiceContract`, `Crypto` |
| `ServerProcess` | `main`, RT, the log's mutexes, teardown, SIGTERM | - |
| `ProcessLock` | `GetLock`, the start and the end of processes that share a lock file | - |
| `HomePage` | `CgiRoot`, `Home`'s link, flag, timer and table | - |
| `Site` | the composition: processes, their workers and pages, and the connections they share | `HomePage`, `ProcessLock` |
| `Calendar` | `CDate`: conversions, validity, the weekday, beside a clock | - |
| `QuoteServiceProofs`, `UpdateWorkerProofs`, `SiteProofs`, `CalendarProofs`, `PublicAPIProofs`, `ServerProcessProofs` | theorems | the module, `TLAPS` |
| `QuoteStoreProofs` | what `QuoteService` stores and answers is whole | `QuoteServiceProofs` |
| `QuoteRefinement` | `QuoteService` implements `QuoteStore` | `QuoteStoreProofs` |
| `MC...` | the instances that TLC runs | the module |

### QuoteService and the code

`committed` is the database file; `working` is what the shared connection sees;
`txn` says whose BEGIN is open on it. A table is in the domain of a database when
it exists; it maps keys to the sheet that row came from, so that rows of
different sheets can be told apart. `wpc`, `row` are the worker's next statement
and the row of the sheet it is at, `rpc`, `out` the same for each reader with
what it has read. `file`, `work` are `TEMP_FILE` and `WORK_DIR`.

Each SQL statement is one action, named after what it does (`RenameStock`,
`InsertArchive`, `DropLabel`), since other threads may run between any two.
The statements of the cells of one row are one step: no property tells
them apart, and whatever happens between them happens between rows too. Columns
are abstracted. Every error leads where the code leads it: `ArchivingFails` is
the catch that drops the error of the three statements of the archiving
(`InsideArchiving`), `ImportThrows` the guard that rolls back and the
outer catch for every other statement, `ReadThrows` HTTP 500. `rollback()` acts on the connection,
not on the caller's transaction: that only the owner calls it is a theorem and
not an assumption. A foreign reader keeps SQLite's SHARED lock from its first
SELECT to its end, during which COMMIT fails.

`Sheets` carry the numbers of their rows (`Rows`), because xlsx leaves empty rows
out and `Update` acts on numbers 1, 2 and 3; `DateOf` and `TimeOf` are what
the regexes find. `MCSheetHeader` computes these from stamps by `SheetHeader`;
the other runs choose them.

### UpdateWorker

`Update` is one step pair (`BeginUpdate`, `EndUpdate`) under the mutex. `thread`
is the detached handle: it is in the state, and no action finds a thread by it,
which is what `detach()` does. `running` is read in the section in which
`Update` ran.

Creating the thread may throw when `Running` is set already (`StartThrows`): the
worker says that it runs and has no handle and no thread, a later Start returns
early, and Stop goes through the null handle (`StopCrashes`), which ends the
process (`ended`). `RunningHasThread` and `RunsAndStops` therefore speak of the
worker whose handle is there; in `main` the exception ends the process anyway,
which is in `ServerProcess` (`SpawnThrows`).

### ServiceContract and PublicAPI

A URI is a sequence of pieces between slashes, a piece a sequence of words, so
that a piece can *begin with* another one as `starts_with` has it. `Without` drops
what is omitted: the placeholders of a template when its method is registered, the
empty pieces between slashes when its arguments are counted. The handlers read
`args[0]` and the last argument by their place (`DateArgument`, `TokenArgument`),
and since a URI is compared as text, what they get may be glued to the method:
`UriIsReadWhole` says that all the same the method, the date and the token are
the whole text of the URI, and that the token is its last piece. That
`out_args` keeps what a contract left that matched and did not fit is in the model
and latent: of the six templates none begins another, so no second one
is tried after a match. `Second` and
the clock's unit are parameters; the truncation of the server's clock to seconds
is kept. A query's result is a choice: the database is `QuoteService`'s.

A `Crypto` object is its key. `Cipher` gives the digits of an encrypted text, and
is assumed to be injective in the key and the text together. What a wrong key
recovers by chance is no number, which `IsValidToken` refuses like a text that
does not decrypt. The server encrypts its tokens with `TokenServer` and reads the clients' with
`TokenClient`, so the token that `GetToken` prints is not one that it accepts: the
client decrypts it and encrypts the time with its own key (`Returned`).

### Site, HomePage and ProcessLock

`ProcessLock` has for each process how far `main` has come: `"down"`, `"locked"`
(it has the lock and will start the worker), `"start"`, `"up"`. `GetLock` and
`GetLockFails` are the two outcomes of the POSIX variant; nobody calls
`ReleaseLock`, the end of the process does.

`HomePage` has one record per Wt session: the process it is on, what it shows
(`FoundXSS` decides between the page and a message, an exception leaves an empty
one), the flag, the timer and the table, the event of the timer that is on its
way, and the handler that runs. Wt runs one event of a session at a time, so a
handler's steps are interleaved with other sessions and the worker but not with
its own clicks. Sheets are numbered in the order in which they are published.

`Site` lets the pages of a process, its API requests and its worker meet at
`conn`, the one connection of that process: a refresh takes it with BEGIN or dies
of an exception (`BeginThrows`), and a page that reads while the worker imports
would see the import's rows (`View`). How a read or an import looks
inside is `QuoteService`'s subject.

### Calendar

A date is a triple. The conversions are functions on dates, written from
`DateConv` line by line where a leap rule or an offset is decided; the search for
the month that the source makes with a chain of comparisons is the first month
whose days reach the day. C++'s remainder has the sign of the dividend, and
`Modulus` has it too. The clock counts days as `localtime()` does, and beside it
the civil Jalali calendar (external), whose leap years are those of the 33-year
cycle. Only the change of the day is a step. The time of day is left out, with the flag of
daylight saving time, at whose end `localtime()` repeats an hour: of all that
`Now` gives, the home page shows the two years (`home.cpp:126-127`). Should the
repeated hour go back over a midnight, the day before it comes again, a day that the model
has been at; the properties are of one day each.

### ServerProcess

The code of each thread is a sequence of instructions (`Words` has their kinds),
nested as the source nests its sections, and a handler's instructions are put
before those of the thread that it interrupts. `ifnull` puts the body of its
object in front (`Creation`): a path inside `DB` and `Update` asks for the
`Storage`, the database for its path. All six instances of RT are there, each with its mutex,
and the static paths that the first call sets. Opening the database may throw
(`CreateThrows`): main logs and returns, an update logs under `WorkerMutex`, a
request is refused; the next caller tries again. So may creating the worker's thread
(`SpawnThrows`): main logs and returns. `Log::Initialize` asks for the log's
`Storage` under its mutex several times, of which one stands for all
(`LogInitialize`), and an update stays at its `download` under `WorkerMutex`. `server.start()` may refuse or
throw. The teardown frees the members in the destructor's order, those included
that a thread which still runs has created again. `gotLock` is chosen at the start; who gets it is `ProcessLock`'s subject. Wt blocks signals in
its own threads and `waitForShutdown` takes SIGTERM by waiting for it, so the
handler can run only on `Main`, while it does not serve, or on `Cron`.

## 3. Runs

| run | question | bounds |
|---|---|---|
| `import` | Are answers whole sheets, is the import what was downloaded, do the threads of the shared session keep out of each other's transactions, is the day that ends archived, does the whole implement `QuoteStore`? | 3 sheets of 2 days, a local and a foreign reader, failing statements and network, restarts |
| `archive` | Are the tables and labels those of one sheet, do ARCHIVE's rows resolve, are archived days fixed? | 3 whole sheets and one without its header, a foreign reader, errors that the archiving drops, failing statements, restarts |
| `morning` | Does every update end and every request get an answer or a refusal; with the labels the regexes find at half past nine, is the sheet that is served for good published and shown? | fair; 3 stamped sheets of 2 days, a local and a foreign reader |
| `worker` | One update at a time, fixed settings, no lost thread, every call returns when updates end? | threads whose creation may throw, 2 callers, 2 cron threads, 2 settings |
| `publicapi` | Who is answered what, in which format, is the URI read whole, and do issued tokens serve? | about 370 URIs, 12 moments, tokens of both keys |
| `signals` | Are mutexes exclusive and instances single, with SIGTERM anywhere? | Main, Cron, 2 requests (symmetric), with or without the lock, a database that may not open, a thread that may not be created, a server that may not start |
| `shutdown` | Does every section end, and does SIGTERM taken by `waitForShutdown` end the process? | the same, fair, no handler, downloads that end |
| `calendar` | Do the conversions agree with each other and with the civil calendar, and with the weekday? | every day from 1372 to 2035 |
| `site` | Does one process update, do pages leave connections free, stay in step and come up to each sheet? | 2 processes, 2 visitors, 3 sheets, 2 query strings; fair |
| `gap`, `tenoclock`, `sigterm` | see Findings | violations |

*Why the bounds are enough.* Two days and two sheets of one day give each branch
of the header: same label, same day, new day; a return to an archived day
needs no third day. One thread more than the number that can be in a
transaction shows what a thread left out does. A restart may happen at every
statement. Two cron threads are what a Start after a Stop needs to meet an old
thread; `Call` bounds the Starts by the threads left, which is a bound of the
model. For tokens, the clock runs past the window of each token on both sides,
a second has two units, so that truncation matters, and the window has four.
The URIs double, drop, empty and glue the pieces of real ones. The days of
`calendar` go past the leap day of 2000, past every remainder by four and past
1408, where the civil leap years leave the rule of one in four. In `site` two processes
are a lock and its loser, and each may end and start at any step; two pages can be
on one connection or on two, and three sheets let a page miss one.
`ServerProcess`
needs two requests for the race on a first instance; sections are finite, so it
needs no bound but that of `Create`, which counts to two.

The archiving's dropped errors are in `archive` and not in `import`: with them a
day may be missing from the archive, which is why `DayArchivedOnRollover` and
`ImplementsStore` are asked without, and `StoreConsistent` with them. In
`import` the statements of the archiving do not fail: an error there never gets
to the guard, only to the catch that drops it.

`CHECK_DEADLOCK FALSE` stands only in the runs of `ServerProcess`, where the
process ends, in `worker`, where Stop may end it, and in `calendar`, whose clock
stops at `LastYear`.

*Fairness.* The worker's steps and a reader's are weakly fair, as threads that
run; the worker's sleep ends by its timer. `Download` is strongly fair: a network
that comes back is tried again every two minutes. Nothing is assumed about when
the database is free, and a new request is never forced. In
`UpdateWorker` those who wait for `WorkerMutex` are strongly fair: a cron thread
gives it up and sleeps two minutes before it asks again. That an update ends
is an assumption: `perform()` has no timeout (`http.cpp:62`). `EveryoneFinishes`,
`CallsReturn`, `SectionsEnd` and `TerminatesOnSignal` rest on it, and say what
holds when each download ends in an archive or an error, however often it fails. A request that is refused
because the connection is in use counts as finished for `EveryoneFinishes`, which says that nobody
waits for ever and not that everybody is served. In `ServerProcess` steps are
strongly fair for the same reason. `Published` and `LiveQuotes` say that the
source serves one sheet for good and requests pause: otherwise readers may hold
the transaction at each try. In `Site` what runs comes to its end: a
browser that shows a table sends its ticks, Wt handles them, and a refresh, an
import and a request finish; nobody has to come, click, publish or restart.

### Findings

* `gap` - the comment at `stockupdateworker.cpp:292` says the table is set up
  "each and every time"; it is when a row numbered 3 is met. A later sheet of
  the day whose row 3 is empty is written into the table of the sheet before it,
  and the rows of both are served as one.
* `tenoclock` - the second digit of the hour is `[1-9]` in the regex of the time
  (`stockupdateworker.cpp:322`). From 10:00 to 10:59, at 20 and at 00, the time is
  empty, all sheets of that hour have one label, and `Update` returns early: the
  page that "shows live data" (`src/README.md:4`) stands still.
* `sigterm` - `Terminate` (`main.cpp:32`, "Gracefully handling SIGTERM") logs and
  calls `exit()`, which locks the mutexes of the log and of the worker. On a
  thread that holds one of them the process hangs; the shortest trace
  interrupts main inside `Log::Initialize`.

## 4. Proofs

Proved for any sets of sheets, threads, requests, faults, processes, sessions,
clocks and keys, from the assumptions that the modules name (`LiveIsNoDate`,
`SheetAssumption`, `ThreadAssumption`, `RequestAssumption`; `ActorAssumption`,
`StartAssumption`; `NobodyAssumption`, `QueryAssumption`, `UseAssumption`;
`UriAssumption`, `TimeAssumption`, `CryptoAssumption`, `CipherAssumption`; `YearsAssumption`
and `Calendar`'s `StartAssumption`; `ServerProcess`'s `ThreadAssumption`):

| theorem | property |
|---|---|
| `SessionIsOwned` | `SessionOwner`: a transaction of the shared session belongs to the one thread that is inside it |
| `TypeCorrect` | `TypeOK`, with the existence of the tables that the next statement is about |
| `ReadsRepeat` | `RepeatableRead` |
| `ArchiveResolves` | `ArchiveRowsResolve`, for sheets that lack any rows |
| `ArchiveNeverChanges` | `ArchiveImmutable` |
| `ImportIsOfDownload` | `ImportsDownloaded`, for sheets that lack any rows |
| `StoreIsConsistent`, `AnswersAreWhole` | `StoreConsistent`, `AnswersWhole`, for `WholeRows` |
| `DaysAreArchived`, `ServiceImplementsStore` | `DayArchivedOnRollover`, `ImplementsStore`, for `WholeRows` and `ArchivingWorks` |
| `WorkerTypeCorrect`, `UpdatesExclude`, `RunningIsAlive`, `SettingsStay` | `TypeOK`, `OneUpdate`, `RunningHasThread`, `SettingsFixed` of `UpdateWorker` |
| `SiteTypeCorrect`, `UpdaterIsOne`, `SessionsFreeConn`, `PagesStayInStep`, `TablesOnlyAdvance` | `TypeOK`, `OneUpdater`, `SessionHoldsConn`, `PageInStep`, `TablesAdvance` of `Site` |
| `GregorianReturns`, `JalaliReturns` | of every date that one conversion accepts, what the other makes of it: a Gregorian date from March of 522 on and a Jalali date up to the winter of 9378 come back; earlier and later ones become the empty text |
| `CalendarTypeCorrect`, `CalendarRoundTrip`, `WeekdaysFit` | `TypeOK`, `RoundTrip`, `WeekdayFits` of `Calendar` |
| `DatesAgree` | `AgreesWithCivil`, for a start in `ExactYears` at which the conversion is right |
| `ReplyTypes`, `IssuedTokensServe` | `TypeOK`, `IssuedTokenServes` of `PublicAPI` |
| `QuotesAreForTokens`, `TimelyTokensServe` | `QuotesNeedToken`, `TimelyTokenServed`: who is answered, and who is not refused |
| `UrisAreReadWhole`, `RepliesFollowFormat` | `UriIsReadWhole`, `RepliesInFormat` |
| `StateTypes` | `TypeOK` of `ServerProcess`, with mutual exclusion: a mutex is held by the one thread that is inside its section |
| `CreatedOnce` | `OneInstance` |

Four theorems on `QuoteService` ask more than its own assumptions. `WholeRows`: the
rows of every sheet are numbered 1, 2, 3 and so on, with a header. A sheet with gaps makes a store
that is not whole, as `gap` shows. `ArchivingWorks`: `"archive"` is not among the
`Faults`; a dropped error of the archiving loses the day. The instance of `import`
satisfies both.

**QuoteService.** The argument has seven layers, each on top of the last; the
first four are in `QuoteServiceProofs`, the fifth and sixth in `QuoteStoreProofs`,
the last in `QuoteRefinement`.

1. `OwnerInv` = `ControlOK`, `SessionOwner` and `OnlyImportIsDirty`: outside the
   worker's transaction `working` is `committed`. The third is what makes the
   second useful: a reader's rollback changes nothing, and a reader that is in a
   transaction sees what is committed.
2. `TypeInv` adds the types of both databases and `StatementsApply`. Lemmas on
   each operator of `Database` say what it preserves; frame lemmas
   (`ImportSteps`, `ReadingSteps`, `BeginSteps`) say what a kind of step leaves
   alone, so that later layers treat some twenty actions as four.
3. `ReadInv` adds, for each reader, that what it has read is what is committed. It
   is preserved because a local reader's transaction keeps the import out and a
   foreign reader's lock keeps COMMIT out.
4. `ArchiveInv` strengthens `ArchiveRowsResolve`: rows resolve to the very
   table names of their date in `working` too; the worker's database keeps every
   archived day of the committed one; and between the renames and the insertion
   of the row the renamed tables are there (`RenamedFirst`). Without the last one
   the insertion could not be shown to resolve.
5. `StoreInv`: `Imported` says, for each statement and row the import may be at,
   what it has made of the titles, the quotes and the label so far; `LiveOK` and
   `DaysOK` that the live tables and each archived day are those of one sheet;
   `Closing` where the tables of the day that ends are while they are renamed, since
   between two renames they are under neither or both names. `CommitIsWhole` gives
   `LiveOK` at the commit.
6. `AnswerInv`: a reader is at the tables of a live sheet or of an archived day
   (`FromOK`), and with `ReadInv` its last SELECT makes the answer one sheet
   (`Given`).
7. `RolloverInv`: a table with the name of a day belongs to an archived day
   (`NamesListed`), so the renames cannot meet an old table, and from row 2 on
   the day that ends is in the archive (`Rolled`). The step refinement maps Commit
   to `Publish`, the last SELECT to `Answer`, every other reply and the end of
   a process to `Refuse`, and all other steps to none.

**UpdateWorker.** `Inv` = `TypeOK`, `MutexIsUpdates` (whoever updates
holds the mutex, nobody else does) and `RunningHasThread`; mutual exclusion and
the fixed settings follow from the second, since setters run under the mutex.
`RunningHasThread` is about a worker with a handle: where `StartThrows` left none, a thread
has nothing to look for.

**Site.** `IInv` adds to the properties `LockedHolds` (who is about to start
the worker has the lock), `HandlerOK` (a handler of the timer runs while the timer
does, one of a click has set the flag) and `TablesPublished`. The second is needed
for a tick that returns after its session's state was left in the middle; the last
for `TablesAdvance`: a new table is the published one, and the old one was not newer.

**Calendar.** The recursion that adds up the months and the search for a month
are unfolded once (`DaysOfSteps`, `FirstIsMonth`); from there the conversions are
arithmetic on the number of a day in its year, one case for each remainder by four.
`ClockInv` carries the weekday of the converted date along the clock.

`DatesAgree` has a second number of a day, which counts the leap years as the civil
calendar does. Neither of `AgreesWithCivil`'s two parts is inductive: a date that is
a day behind says nothing about the next. `CivilInv` is: the two days have the
same number, each by its own calendar. The leap years before a year differ by
at most one in 1372..1479, by none in `ExactYears` (`LeapsDiffer`); so do the
days on which the year begins, and days with the same number are the same or
one apart (`SameNumberSameDay`). The hypothesis is what an instance has to
provide: the clock starts in `ExactYears`, on a day that is converted rightly; the
run starts at one, and the year bound of the module ends the clock before the
civil year 1479.

**PublicAPI.** A reply belongs to its moment (`Tick` takes it away), so a token
in a reply was made now (`ReplyOK`); the rest is the cipher's injectivity and
`WholeSecondsBehind`: the clock is behind by less than a second, which is no more
than the window.

The four theorems about what is asked rest on `ResolveFinds`: which contract a URI
comes to, and with which arguments. The table is computed first, method by method
(`TableIs`, `MethodIs`). That `Without` and `FlattenSeq` return what
they should, for sequences of any length, is proved by taking the
least place at which they would not (`LeastElement`, `Induction`), since the
theorems of induction in the library cannot be used. `RemainderIs` has the two
ways in which a URI may begin with a method, a slash after it or a longer
last piece. `HandleAnswers` then says of each contract what is answered,
and each of the four properties is read off it. `UrisAreReadWhole` needs besides
what `FlattenSeq` makes of a concatenation and of a sequence without its empty
pieces (`FlattenConcat`, `FlattenWithout`): the text of a URI is that of its method
and of the rest (`UriText`), and the rest is that of its arguments
(`ArgumentsText`), of which there are no more than the one or two that are read.

**ServerProcess.** The programs are sequences and grow by handlers and by the
bodies behind `ifnull`, so the invariant has to speak of all programs that can come
about. It measures a program by three numbers: how often it gives a mutex back
that it does not take (`Held`), how often it creates an object, and how much of the
teardown is ahead (`Exits`). `Texts(t)` is the greatest set of programs in which
every suffix has such numbers as `RestOK` asks, and every instruction finds in
what follows it what `HeadOK` asks: a creation is inside the section that guards the
object, a database that may not open is opened where the thread holds no
more than what `AfterThrow` gives back, and the worker's thread is created where main holds
`WorkerMutex` alone. `Inv` = `Types`, `Written` (every thread
has a text of `Texts` left), `Holding` (it holds what its text gives back) and
`Once` (what was created is alive, and nobody is about to create it
again). `Holding` makes mutual exclusion a matter of counting, and two threads
that are about to create the same object would both hold its mutex. The lemmas of
the first half build the programs from their pieces: `PlainConcat`, `PlainSection`
and `LeadsConcat` say how pieces go together, and each piece of the code is
shown to lead from a text to a text. TLC cannot enumerate `Texts`; its
condition, asked of the suffixes of every thread's program, was checked on all
the states of `signals` before it was proved.

*Only model-checked*: liveness (`EveryoneFinishes`, `Published`, `LiveQuotes`,
`RunsAndStops`, `CallsReturn`, `SectionsEnd`, `TerminatesOnSignal`, `TablesAreLive`),
which is out of the prover's reach. Every invariant and every action property
that a passing run checks is a theorem.

## 5. What the models assume and leave out

* A statement is atomic: data races *inside* the cppdb session, which several
  threads use at once, are not modelled.
* SQLite does not itself roll back inside a transaction (as it does when the
  disk is full), and erasing files succeeds.
* Rows from 3 on have no more cells than row 2 has titles (`tableFieldsId[col]`).
* A foreign process only reads; its VACUUM at the start is left out.
* What a detached cron thread reads after RT's members were destroyed is not
  modelled; the order of their destruction is.
* RT's statics are destroyed before those of Log.
* The cells of a row are one: a cell that is left out shifts the ones after it
  to other titles, and the API repeats the cell before a NULL one. By the code as it
  is such a sheet is stored wrongly, so no property could hold of it but one that
  excludes it.
* A connection in `Site` is taken and given back; the statements in between, and the
  SHARED locks of other processes, are `QuoteService`'s. `Rollback` covers both.
* The ciphers, the memory that tables and models of the pages keep, the GeoIP
  handle, the environment that a session reads, the layout of the page,
  `GetLock` on Windows.
* Of the calendar: the texts of dates and times, Persian digits, the time of
  day, the flag of daylight saving time and `RawLocalDateTime`. No code compares,
  sorts or shows them; the home page has two years of them.
* A download ends, in an archive or an error, in every liveness property (see *Fairness*).

*Not modelled at all*: mail, which no part of the server uses; the texts of HTTP
status codes, a table; the build system and the resources.

## 6. Plan

Done, in this order: `Database`, `QuoteService` with `QuoteStore`, its proofs;
`UpdateWorker` and its proofs; `SheetHeader`; `ServiceContract`, `PublicAPI`;
`ServerProcess`; `Calendar`, `ProcessLock`, `HomePage`, `Site` and their proofs;
`Crypto`, issued tokens; the proofs of whole stores, whole answers, the rollover
and the refinement; issued tokens for every window; the proofs of `ServerProcess`,
of the rest of `PublicAPI` and of the rest of `Calendar`.

Left, with the reason:

* *An order of the mutexes*, as an invariant and a theorem: without a handler
  a thread takes a mutex only when those it holds come before it, so nobody waits in a
  circle. It is the part of `SectionsEnd` that a proof can reach.
* *Columns* (`tableFieldsId`, NULL cells): the hazard is real and the code has no
  behaviour in it that a property could ask for.
* *SQLite's own rollback and files that cannot be erased*: no line of the code
  asks for either, and what follows depends on which statement or file it was.
* *Use of RT's members by a thread that outlives them*: its outcome is undefined.
* *Mail*: `SendAsync` starts a detached thread on a message that may be
  gone; without a caller there is no state in which to ask.
