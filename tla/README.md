# A TLA+ model of the ColumnStore bulk write API

The repository is a C++ client library (with SWIG bindings) that loads rows into
a MariaDB ColumnStore cluster behind the back of the SQL front end. These modules
model what the library does to the cluster, and to its own state, when commands
are refused, connections break and processes die in the middle of a
transaction. All code under verification is in `src/src/`.

## The system

| part | state | operations | talks to |
|---|---|---|---|
| `ColumnStoreDriver` (`mcsapi_driver.cpp`) | parsed `Columnstore.xml`, cached catalog | `createBulkInsert`, `getSystemCatalog`, `listTableLocks`, `isTableLocked`, `clearTableLock` | creates commands objects of its own |
| `ColumnStoreBulkInsert` (`mcsapi_bulk.cpp`) | `transactionClosed`, `autoRollback`, `currentPm`, IDs of transaction and lock, summary | constructor, `writeRow`, `commit`, `rollback`, destructor | one `ColumnStoreCommands` |
| row buffer (`util_structures.h`, `mcsapi_bulk.cpp`) | `tableData.rows` (100000 maps), `row`, `row_number` | `setColumn`, `setNull`, `resetRow`, and the reuse by `writeRow` | conversion |
| `ColumnStoreCommands` (`util_commands.cpp`) | `brmConnection`, `weConnections`, `miscConnections`, event loop | one blocking function per command | BRM controller, WriteEngine servers, ProcMon |
| `ColumnStoreNetwork` (`util_network.cpp`) | `con_status`, buffers | `sendData`, `readDataStart`, libuv callbacks | a server |
| `ColumnStoreMessaging` (`util_messaging.cpp`) | a byte buffer | serialization, completeness of a packet | |
| conversion (`util_dataconvert.cpp`), types (`mcsapi_types.cpp`) | none | from the type of a value to the type of a column | |

The library is single-threaded per object (a driver, with its cached catalog, may be used by
several threads), but it is not alone: a bulk insert
is a sequence of some ten commands per PM to two kinds of servers, each of
which can be refused, or executed without the client learning of it; other
processes insert into the same table or clear its lock. What is hard:

* **Partial failure.** Every command may throw, out of the constructor, of
  `writeRow`, `commit` and `rollback`, and out of the destructor. The object
  stays usable afterwards and calls may be repeated.
* **Ordering.** Rows, high water marks, verdict, rollback files, lock: each must
  be given up behind the one before, on all PMs.
* **Broken connections.** They are never replaced, and one broken WriteEngine
  connection fails the commands to all servers.
* **Buffers used again.** Rows are reused from batch to batch, connections from
  command to command.
* **Other processes.** `clearTableLock` finishes what another process began.
* **Pointers into a cache.** Bulk inserts point into the catalog of their driver, which is
  read without a lock at its first use, describes the past, and is freed with the driver.

## Modules

| module | models | extends / refines |
|---|---|---|
| `BulkInsert` | one bulk insert object from constructor to deletion, with BRM and WriteEngine servers | refines `BulkTransaction` in `MCBulkInsert` |
| `BulkTransaction` | abstract: a single transaction under a table lock | |
| `BulkInsertProofs` | theorems about `BulkInsert`: lock, verdict, rollback files | extends `BulkInsert`, TLAPS |
| `BulkInsertRowsProofs` | theorems about the rows of `BulkInsert` | extends `BulkInsertProofs` |
| `BulkInsertRefinement` | theorem: `BulkInsert` without faults refines `BulkTransaction` | extends `MCBulkInsert`, `BulkInsertRowsProofs` |
| `RowBuffer` | the columns of the rows between `setColumn` and `weBulkInsert` | |
| `Network` | the WriteEngine connections of a commands object, its event loop, a command's three waits | refines `Exchange` in `MCNetwork` |
| `Exchange` | abstract: commands are executed one after the other, at most once; one that throws for want of a connection never is; none returns after one that throws on a connection | what `BulkInsert` assumes |
| `NetworkProofs` | theorems about `Network`, and its refinement of `Exchange` | extends `MCNetwork`, TLAPS |
| `RowBufferProofs` | theorems about `RowBuffer` | extends `RowBuffer`, TLAPS |
| `TableLocks` | several bulk inserts and `clearTableLock` on one table, with processes that die | |
| `TableLocksProofs` | theorems about `TableLocks` | extends `TableLocks`, TLAPS |
| `Catalog` | a driver, its cached system catalog, and the threads and bulk inserts that use it, while tables are created, altered and dropped | |
| `CatalogProofs` | theorems about `Catalog` | extends `Catalog`, TLAPS |
| `DateTime` | fields, validity and packing of `ColumnStoreDateTime` and `ColumnStoreTime` (operators) | used by `DataConvert` |
| `DataConvert` | the overloads of `convert()`, and `getNull()`, for every type of column | |
| `Numerals` | powers, digits and the number of given digits (operators) | used by `DateTime`, `DataConvert` |
| `DataConvertProofs` | theorems about `DataConvert`, `DateTime` and `Numerals` | extends `DataConvert`, TLAPS |

The modules `MC...` extend the ones they are named after and give values to constants for
TLC.

**BulkInsert.** The variables are the members of `ColumnStoreBulkInsertImpl` under
their own names, `step` and `at` for the position in the sequence of commands
(`at` is the PM of the loop over `pmList`), and the servers' side: `lock`, `txn`,
`verdicts`, `stored`, `meta` (the WriteEngine's bulk rollback files) and
`published` (high water marks). One action is one command of `util_commands.cpp`,
or one entry into an API call. `BrmCommand` and `WeCommand` hold what all commands have in
common: the server answers and the client goes on; the server refuses (the
response code is not 0) and the command throws; the connection breaks before or
after the server acted and the command throws; a connection is already
broken and the command throws at once; or a first connection cannot be opened (the fault
`"open"`), and either the command throws, with no connection left, as `uv_getaddrinfo` fails at
once, or `runLoop()` spins for a connection that `uv_tcp_connect` refused at once and the call never comes
back (`Spin`, in which `step` stays `"spinning"`). `LoopReaches` says which connections the loop looks at before it
throws for a broken one. `Throw` tells where the exception goes:
out of a constructor no destructor runs; out of the destructor, which is
`noexcept`, the process is terminated. `commit()` and `rollback()` share their last commands,
so they share the actions. A row is its number, so that loss, duplication and
garbage can be told apart.

**RowBuffer.** A row is the `std::map` of the code, a function on the columns that have a
value; a value is known by the row it was set for and by whether it was truncated. The
transaction is reduced to what the buffer sees of it.

**Network.** `con_status` of each connection, what it has asked of libuv (`op`), and
the bytes under way. The callbacks are actions; the client is at one of three
`runLoop()` calls. `LoopReturns` and `LoopThrows` are the two exits of the loop over
`weConnections` in map order. `brmConnection` with `runSoloLoop()` is the case of one
connection. A connection that is refused at once by `uv_tcp_connect` stays in
`connecting` with nothing to wait for (`Spinning`). When `uv_getaddrinfo` fails at once the constructor of the
connection throws out of `getWeConnection()` before there is an entry in `weConnections` (`Unopened`): the
command is over, nothing is broken, and the next one tries again. `Exchange` tells this end
of a command (`unsent`) from the one on a connection (`failed`).

**TableLocks.** `clearTableLock()` repeats the commands of `rollback()` with the
transaction and lock of somebody else, so owner and cleaner share the actions.
The commands of one PM in a loop are one step here. That a failed
command leaves its effect in doubt is covered by failing at the next command; only the
release needs an action of its own (`ReleaseUnanswered`). Servers look locks up by
their ID and rollback files by their table, as the parameters of the commands say, and
answer without complaint for an ID that is gone (the reply byte that would tell is
read as `unknown` and ignored). A cleaner may be given the lock of a live owner, and
information that is out of date, and two may work on one lock at once. Then rows of the new owner are undone; that is the use the
library allows and cannot prevent. Two history variables say when it may have happened:
`careless` (a call of `clearTableLock()` began with the lock of a `"live"` owner, or `"late"`: with a lock
that is gone or that somebody else is clearing) and `unsure` (the
reply to a release was lost, so its owner goes on without a lock). `Orderly`, neither of the
two, is the condition under which most properties of the rows are stated. `LossHasACause` is about the
rest: it names what undoes the rows of an open bulk insert. Failed commands and careless calls are counted
by one bound, `MaxFaults`.

**Catalog.** A catalog is an object that is alive or freed; a bulk insert holds a pointer to
a table of one and the OID it read there. `getSystemCatalog()` is two actions, `Fetch` (the
command, without a lock on the member) and `Assign` (the member is written, and what another
thread wrote meanwhile is overwritten but not freed), so that first uses of several threads
overlap. `createBulkInsert`, `setColumn`, `isTableLocked`, `listTableLocks` and
`clearTableLock(db, table)` go through the table they find there; the world behind it
(`CreateTable`, `AlterTable`, `DropTable`) changes at any time.

**DataConvert.** An action is an overload of `convert()`, or `getNull()`; `column` is the type, width and
scale of the column, `given` what the caller passed, `data` what the container holds. The large
`switch` statements repeat the same few comparisons with bounds of their own, so the model is the
tables of these bounds (`Largest`, `Least`, `Highest`, `SignedBounds`), slips included, and the operators
that apply them (`Bounded`, `ToWidth`). Numbers are counted in tenths, so that a
`double`, a `ColumnStoreDecimal` and a text have a fraction.
A double has `Mantissa` bits (53): `Rounded` is the double nearest to an integer, with ties to even, and integers
above 2^Mantissa lose their last digits in it. An integer or a text is rounded when it becomes a double, and its product with a
power of ten is rounded again (`Product`); a Decimal is rounded on its way to an
integer column (`getInt`). Where a double does not hold the fraction, a product may fall
below the integer it should be (2.3 * 100), or be some doubles off where these are more than one apart (`Products`). A cast or `llround()` of a
double out of the range of its type is undefined, and has the outcomes of the builds (`CastInt64`, ...: x86 stores
the least integer, others the bound). `getDecimalInt()` works with 50 digits, but its
power of ten is a double: for a Decimal below 0.0001 that power is not exact, and the result may be one too small (0.00001 with
scale 5 is stored as 0). `Tiny` says how many tenths stand for such a Decimal. Fractions are assumed to be of numbers so small that a double tells
their tenths apart (`DataConvertAssumption`).

A FLOAT or DOUBLE is the number itself, and a text is its length. The widths of the
integers are constants, since TLC counts to 2^31; a hexadecimal digit of the MEDINT
constants is a sixth of `Bits24`. What an overload returns is an operator of its own (`...Result`, `...Results`),
which its action puts into the container.

**DateTime.** An integer built by shifts and ors is the set of its bits, at its full 32 or 64. `DateTimeFields` and
`TimeFields` are the objects, with the widths of their members.

**Numerals.** Powers and digits as recursive functions, since proofs can unfold these: `^` is built into TLC
but the provers know nothing of it.

The servers are not in the repository: `Insert`, `Publish`, `Undo`, `ForgetMeta`, `SetLock`,
`Verdict`, `BeginTxn`, `Greet` and `Serve` are modelled from how the code uses them and are
marked external in `PROJECT.json`.

Next to an action there may be a variant with a mistake (`...Short`,
`...Retries`); it is not part of `Next`. With it in place of the action a named property
fails, which shows that the property depends on that line of the code.

## Runs

| run | bounds | shows |
|---|---|---|
| `bulk_faults` | 2 PMs, batches of 2, 5 rows, 3 calls of commit or rollback, 3 faults (refusals, broken connections, connections that cannot be opened) | invariants and action properties below, and that every call ends that does not spin |
| `bulk_healthy` | 3 PMs, batches of 2, no faults | refinement of `BulkTransaction`, every row once, round robin |
| `row_buffer` | 2 columns, batches of 2, 5 rows, 1 truncation, 1 failed flush | rows sent are rows accepted, in their order |
| `network` | 2 servers, replies of 3 pieces, 3 commands and 2 closes, 2 errors | own replies, no leftovers, every command ends that does not spin, refinement of `Exchange` |
| `table_locks` | 2 sessions, 2 PMs, 2 cleaners of any lock with any information, 1 failed command or careless call | while locks are cleared in order, the lock covers everything that is not cleaned up; otherwise, what undoes the rows of an open bulk insert |
| `catalog` | 2 threads, 1 table, 2 OIDs, 3 locks, 2 changes of the table | pointers into catalogs stay valid, an insert keeps to one description of its table |
| `data_convert` | integers of 3, 5, 6, 8, 16 bits and doubles of 13; every bound of every type, its neighbours and fractions, scaled and not; the integers around the largest that doubles hold without a gap; scales 0 and 2, texts of 1, 3, 8 and 30 characters; thousands of dates and times | what is stored reads back as given, or is the nearest value and reported |
| `bulk_implicit_rollback`, `bulk_single_verdict`, `bulk_inserted_is_stored`, `row_buffer_only_filled`, `table_locks_commit_atomic` | small | the code does not do what its documentation, a message or a test says |

The bounds are the smallest at which the cases differ. Two PMs have a first
and a last turn of each loop, and a failure between them; three PMs (where the state
space allows) also have a middle one. A batch of two rows has a row that does not flush and one that does;
five rows are two batches and a rest. Three faults with three calls of commit or rollback
are a call that fails, its repetition that fails, and a third one. Two sessions are enough
for one to meet the remains of the other, and two cleaners for one to release the lock the other still
works on; one careless call and no failed command, or the reverse, is what the bound allows at a time. Two threads race for the first use of a catalog; two changes
create a table and replace it, so that what was cached is wrong. The integers of
few bits keep the order of the bounds of all types, which is what the comparisons see, and doubles
are narrower than the widest of them and wider than the others, as in the code.

What the properties say, by name:

* `LockHeldWhileOpen`, `ReleaseIsLast`, `ClosedIsClean`, `GoneIsClean`: the table lock is there before
  the object can be used and is the last thing to go.
* `CommitCoversAllPMs`, `NoRowLost`, `CommittedOnce`: a commit verdict covers the rows of all
  PMs, also when `commit()` was repeated; rows may be stored twice then, but none is lost.
* `RollbackErases`: a rollback finishes what any earlier, interrupted call left.
* `RowsInBounds`, `RowsSurvive`, `ValuesStayInPlace`, `TruncationCounted`: the buffer.
* `OwnReply`, `IdleIsQuiet`, `BrokenBlocksAll`: the connections.
* `CallsEnd`, `CommandsEnd`: a call, or a command, comes to an end, except in a loop that spins.
* `ResidueIsLocked`, `WritesUnderLock`, `CommittedRowsStay`, `ClearErases`,
  `LossHasACause`: several processes on one table.
* `TableAlive`, `OneView`, `ClearsWhatItSaw`: a bulk insert reads columns, types and lock from one
  description of its table that nobody has freed, and a lock of another process is cleared only if it was listed.
* `SilentMeansExact`, `SaturatesToNearest`, `NumbersAreNotReserved`: the conversion of numbers
  against a definition that does not know the code's bounds. What is stored without a status is the number
  that was given wherever no double is on the way, and for integers up to 2^53 where one is; a fraction that a double does not hold
  (or a Decimal below 0.0001) may be one off in the last place, and integers above 2^53 eight parts in
  2^53: a looser bound would hide a slip, a tighter one the code does not keep; `ValidIsCalendarDay`
  (against a calendar that counts days), `DatesReadBack`: dates and times.

One conversion is a whole behaviour of `DataConvert`: no overload reads the container. The
properties of numbers leave out what does not hold, by name:

| column | from | what the code does |
|---|---|---|
| MEDINT | all but `uint64_t` | compares with `< 0xFFFFFF - 2`; every number is saturated, in range or not |
| MEDINT, UMEDINT | all | `0xFFFFF`, of 20 bits, is the largest value of the signed type, and what too large an unsigned value becomes (less 2) |
| USMALLINT | all | saturates to `UINT16_MAX`, a reserved value |
| UINT | `ColumnStoreDecimal` | saturates to `UINT32_MAX`, a reserved value |
| UTINYINT | `int64_t` | the low byte is stored, with the status saturated (`else` is missing) |
| BIT | all but `uint64_t` and `ColumnStoreDecimal` | numbers below zero are stored as their low byte, without a status |
| UBIGINT | `double` | saturates to `INT64_MAX`, half of what the column can have |
| signed types | `double` of 64 bits and more | the cast to `int64_t` is undefined, and comes before the comparison; for BIGINT 2^63 is not above the `INT64_MAX` it is compared with |
| integer types | `ColumnStoreDecimal` near 2^63 and more | it is rounded to the double 2^63, of which `llround()` is undefined: on x86 `INT64_MAX` saturates to the least BIGINT, or to 0 in an UBIGINT |
| DECIMAL, UDECIMAL | an integer or a text near 2^63 and more, scaled | as above: the product is cast out of range. The properties speak of numbers up to 2^62 |
| BIGINT, UBIGINT | `ColumnStoreDecimal` above 2^53 | the digits that a double does not hold are lost without a status |
| DECIMAL, UDECIMAL | an integer, a text or a `double` above 2^53 when scaled | the same: 9007199254740993 is stored as ...992 |
| DECIMAL, UDECIMAL | `ColumnStoreDecimal` below 0.0001 | may be one too small in the last place: 0.00001 with scale 5 is stored as 0 |
| DECIMAL | `double`, text | 2.3 with scale 2 is 229.99... and is cut to 2.29 |
| DECIMAL | `uint64_t` | the bounds of the unsigned type are applied: 200 in one byte is stored, and read as -56 |
| DECIMAL | text below zero | the double is cast to `uint64_t`, which is undefined |
| UDECIMAL | `int64_t`, text | the bounds of the signed type are applied: half of the range is saturated, numbers below zero are stored as their low bits |
| UDECIMAL | `ColumnStoreDecimal`, `double` below zero | taken as a large unsigned number, which saturates to the value that is EMPTY; for a `double` undefined |
| DECIMAL, UDECIMAL | all | the width is bounded, the precision is not, and the NULL and EMPTY values are not kept free; eight bytes have no bounds |
| DECIMAL, UDECIMAL | an invalid text, date or time | 64 bits are stored whatever the width of the column, so the rest of the row message is shifted |
| UFLOAT, UDOUBLE | all but `double` | numbers below zero are stored |
| integer types | text with a leading zero | octal: `010` is 8, `08` is invalid (base 0 of `strtoll`); DECIMAL and DOUBLE take it as decimal |
| unsigned types | text below zero | `strtoull()` wraps: the largest value is stored, not 0 |
| DATETIME | `ColumnStoreTime` | the sign is dropped and the hour cut to 0 .. 23, without a status |
| DATE, DATETIME, TIME | an object whose `set(tm)` returned false | the invalid fields are stored, without a status |

`ColumnStoreDateTime::set(tm)` keeps the year 1900 (`tm_year` 0) as the year 0, and the
constructors narrow their arguments before they validate them (month 257 is January); these
are in the model, and the properties speak of the fields behind them. Not in the model, as they
are read from a text: `set(string, format)` of both classes ignores the result of `strptime()`, and takes
what does not parse for the time 00:00:00 or for the date fields left at zero.

Deadlock is not checked: an object that is deleted, or an application that does nothing
more, is the normal end.

### Disagreements

Five runs end in a violation on purpose; `PROJECT.json` quotes the texts.

1. The rollback of the destructor is documented as implicit and unconditional; a command that
   fails in it terminates the process (`ImplicitRollback`).
2. An object is documented to be one transaction. `transactionClosed` is set behind the last
   command of `commit()` only, so that a failure behind `brmCommitted` lets the
   same transaction be rolled back (`SingleVerdict`).
3. `commit()` does not reset `row_number`; repeated, it stores its last batch again, and the
   summary counts less than is stored (`InsertedIsStored`).
4. Rows of the last batch still hold all columns when they are used again, so
   `writeRow()` accepts rows that nobody filled (`OnlyFilledRows`).
5. The commit is documented as atomic (`docs/usage/introduction.rst`). When the process dies between
   `brmCommitted` and the last `weRemoveMeta`, its lock is still there and does not tell that
   the transaction is committed; `clearTableLock()` undoes its rows (`CommitIsAtomic`).

Four more have no run: in three only the class of an exception or a wording differs, and the last is what
`SilentMeansExact` allows for:

* An invalid column number is documented as `ColumnStoreDataError`; `runChecks()` throws
  `ColumnStoreUsageError`, and for the number of columns itself, which passes the check,
  `getColumn()` throws `ColumnStoreNotFound`.
* `isTableLocked()` is documented to throw `ColumnStoreServerError` for a table that does not exist; it
  throws `ColumnStoreNotFound`.
* `isTableLocked()` is documented to know the tables of the time when the driver was created; it is
  the time when the catalog was first used. The same holds for `clearTableLock(db, table)`, of which it is not said.
* `ColumnStoreDecimal` is documented as "a non-lossy decimal format" (`docs/reference/types.rst:248`). Its
  `getInt()`, by which an integer column gets the number, goes through a double and
  loses digits above 2^53 without a status.

## Fairness

`BulkInsert!FairSpec` has weak fairness of `Progress`, all steps the library takes by
itself, and none of what the application does. A command blocks in `runLoop()`
until it is answered or its connection is broken, so this is fairness of the servers
and of TCP, not of a scheduler. `Network!FairSpec` splits it: the loop calls callbacks
that are due, servers greet, execute and answer. No timeout exists in the code: a server
that hangs with its connection open blocks its client for ever, and no liveness property
here says otherwise. A connection that `uv_tcp_connect`
refused at once is in the models: `runLoop()` and `runSoloLoop()` spin for it, no fairness ends that, and
`CallsEnd` and `CommandsEnd` except that state and no other.

## Proofs

`BulkInsertProofs` proves, for every number of PMs, batch size, bound and set of faults
(`ConstantsAssumption`, evaluated by TLC in each run):

* `TypeCorrect`: `Spec => []TypeOK`;
* `Invariance`: `Spec => [](TypeOK /\ IInv)`;
* `LockHeld`, `Clean`, `GoneClean`, `Erases`, `InBounds`: the invariants `LockHeldWhileOpen`,
  `ClosedIsClean`, `GoneIsClean`, `RollbackErases`, `RowsInBounds`;
* `ReleaseLast`, `CommitCovers`: the action properties `ReleaseIsLast`, `CommitCoversAllPMs`.

None of these five invariants is inductive: they speak of calls that have ended, and must be
carried through the commands in between. `IInv` has six parts, each closed under
steps given the ones before it:

* `CallsAndSteps`: which call is at which command, and that loops start at the first PM;
* `LockPhases`: from which command on the lock is held, and that a grant that was lost
  with its reply leaves a broken BRM connection;
* `Ending`: how far rollback files are gone while the loop of `weRemoveMeta` and `weClose`
  is at PM `at`, and that verdict and clean PMs precede the release;
* `Erasing`: before a commit verdict, a PM with rows has rollback files, which is why a
  repeated rollback can still erase it, and PMs below `at` are erased;
* `Publishing`: PMs below `at` in the loop of `commit()` are covered by their high water marks;
* `Filling`: the batch is full only on its way to its flush.

TLC checks `IInv` as an invariant of `bulk_faults` too. The proof has one lemma for each
part, one step per action and one leaf per conjunct that the action disturbs; `Untouched...`
lemmas take the actions that leave the variables of a part alone.

`BulkInsertRowsProofs` follows the rows, which `IInv` does not: `NoRowLostAlways`, `CommittedOnceAlways` and
`BalancedAlways`, for every number of PMs, rows, faults and every size of a batch. They follow from `RInv`
(`RowsInvariance`):

* `Located`: a row that was accepted is stored on a PM, or is in the buffer and will still be sent, as long as only
  `commit()` has failed. That `commit()` leaves `row_number` as it is when it fails is what a repetition needs;
* `Unique`: as long as nothing fails, no row is in two places, and no place has garbage;
* `RoundRobin`: as long as nothing fails, the PMs up to `currentPm` are one full batch ahead of the others, so that the
  rest which `commit()` sends, of less than a batch, keeps them `Balanced`;
* `Slot` (`row` points behind the rows of the buffer), `FullBatch` (`writeRow()` sends no partial batch), `Undone`
  and `OneEnd` (which verdicts there can be): what the three need of the control.

The proof goes by `Shapes`: as far as rows are concerned, a step accepts one, sends a batch, sends the rest, or leaves
all where they are. A call that spins is between any two of these for ever (`Stuck`), and what it was about to do is not owed.

`BulkInsertRefinement` proves `Implements`: where no command fails (`Faults = {}`), `Spec => ImplementsTransaction`,
the refinement of `BulkTransaction`. `Uninterrupted` says that then only the constructor throws, for a version, a
table or a lock of another session. `StillSteps` finds the seven actions that move the transaction; each has a lemma
(`Begins`, `Locks`, `AcceptsRow`, `Commits`, `Aborts`, `Releases`). `Commits` is the one with substance: that each row is kept
once is `CommittedOnce`, and that it is below the high water mark of its PM is `Publishing`. With faults the refinement
does not hold, as the runs of the disagreements show.

`RowBufferProofs` proves `TypeOK` (`Types`), `RowsSurvive`, `ValuesStayInPlace` and `TruncationCounted`
for any number of columns, any size of a batch and any number of rows. The rows that were sent, followed by the
ones in the array, are the rows accepted, and the row that is being filled is the one that
`row` points to: two facts that every action needs of the other.

`NetworkProofs` proves the safety properties of `Network` for any number of servers, commands, faults
and pieces of a reply: `Types`, `OwnReplyAlways`, `IdleIsQuietAlways`, `BrokenBlocksAllAlways`, and
`Implements`: `Spec => ImplementsExchange`, the refinement of `Exchange`, one lemma per direction of a
command's end (`EndsSeen`) and one per step (`NextSeen`). `OwnReply` is about a command that is over; its
`IInv` carries it through the exchange:

* `Connections`: only the connection of the command has a request or a piece of a reply, and the others are idle
  or absent while it is under way, as the loop waits for all of them;
* `ExchangeOK`: what is buffered and what is still to be read make up one reply, to this request, so that a packet
  is complete exactly when nothing is left that a later command could read;
* `Outcomes`: which commands have ended, and that one which failed on a connection has left a broken one
  (`BrokenStays`: it is never repaired), so that none returns after it; one that was not sent for want of a
  connection (`Unsent`) has left none, is at no server, and binds nobody;
* `ServedOnce`: a request is at one server, and is gone from there when it was executed.

`TableLocksProofs` proves all properties of `TableLocks` for any number of sessions, cleaners,
PMs and faults: `Types`, `ResidueIsLockedAlways`, `WritesUnderLockAlways`, `CommittedRowsStayAlways`,
`ClearErasesAlways`, `LossHasACauseAlways`. That IDs of locks are not given twice is an invariant of its
own and holds without conditions. `Guarded` is the rest, as long as the execution is `Orderly`: owners of the lock are
active or dead (`OwnersOK`), at most one cleaner is at work and its information is that of the
present lock (`CleanersOK`), rows that are not committed have rollback files on their PM under their lock
(`ResidueOK`), and PMs below `at` are done (`ProgressOK`).
`LossHasACause` is about executions that are not orderly, and has an invariant of its own, `Guarding`: as long as no
lock of a live owner was cleared, each open bulk insert that has not lost the reply to its release has the lock, and a
cleaner that has one has that of a dead owner. That survives late cleaners, since what they release is
not there (`IdsAreUnique`).

`CatalogProofs` proves `Types`, `TableAliveAlways`, `OneViewAlways` and `ClearsWhatItSawAlways`
for any number of threads, tables, OIDs and changes. `Pointers`: no catalog is freed before the driver, not
even one that lost the race for the member. `Objects`: what a bulk insert has used is of the description
it points to, and its lock is of the OID there. `Listed`: what `clearTableLock` goes through was in the list of
locks, and an ID is never of two locks.

`DataConvertProofs` proves all properties of `DataConvert`: `TypeCorrect`, `NoNumberIsReserved`, `SilenceIsExact`,
`SaturationIsNearest`, `CalendarIsValidated` and `StoredDatesReadBack`. They hold for all widths of the integers that
are in their order (so also for 8, 16, 24, 32 and 64 bits, which TLC cannot count to), for every width of a double's significand between them, every number of tenths (with a fraction: that a
double tells apart), every
scale whose power of ten is a double and every date and time whose fields fit their types (`DataConvertAssumption`). None of the properties is inductive:
they compare what was given with what is stored. The inductive invariant, `Explained`, says that `data` and `status` are
what one of the overloads returns for `given` and `column` (the lemma `EveryResultIsExplained`); it restates `Next` and
is a step of the proofs, no result. The `...Frame` lemmas say
that these results depend on the column alone. What remains is about operators, and its lemmas are in layers:

* *Recursion.* `Induction` is the principle with a set in place of the library's operator, from the well-foundedness of `<`.
  From it follows that recursive functions exist (`Recursion`), which gives the equations of `Exp` and `Value`
  (`ExpSteps`, `ValueSteps`), the growth of powers (`ExpGrows`), and that the k lowest digits of a number are its
  remainder by the k-th power of the base, also below zero (`DigitsValue`).
* *Widths and bounds.* How the limits of the integers of different widths compare (`IntegerWidths`), between which limits
  the code's bounds of each type are (`SignedRange`, `UnsignedRange`), what a number that is compared with them becomes
  (`BoundedResult`), and that a number in range is read as it was stored (`StoredNumber`). `IntegerOutcome` says which number
  each overload compares and which it stores. `NumbersAreNotReserved` follows from these.
* *Nearest.* `NearestBound`: a bound that is crossed is nearer than its neighbours. `Fractions` says what the three ways to
  round do, so that rounding and cutting do not lead beyond a bound.
* *Doubles.* `Ulp(n)` is less than two parts in 2^Mantissa of n (`UlpFacts`); `Rounded` keeps what a double holds,
  moves the rest by one part at most (`RoundedFacts`), and does not cross a double (`RoundedBeyond`), so that a
  number beyond the bounds of a column that is narrower than a double is still beyond them when it was rounded (`RoundedWithin`) and a product is as near as its two
  roundings allow (`ProductNear`). `WithinInt64` and `ProductFits` say that up to 2^(Bits64 - 2) no
  rounding leads to the undefined cast. This is why 64 bits are assumed to be two more than the significand has, and the significand
  five more than an INT has.
* *Decimals.* A product is the number, or one too small where a fraction was scaled, or within eight parts of 2^Mantissa (`DecimalExact`). It must not
  fall out of the range so, or the saturation would be wrong: that happens only to a multiple of ten, and the ends of
  the range are none, as no power of two is divisible by five (`PowerOfTwo`).
* *The calendar.* `MonthsAreCounted`: for every year, the leap years and lengths of months of `validateDate()` agree with
  the definition that counts days.
* *Bits.* A field reads as the number put there if it is narrow enough and no other field reaches into it (`FieldReads`,
  from `DigitsValue`). `DateFields`, `DateTimeApart` and `TimeApart` show that for the layouts of the code, and
  `HourReads` that the hour of a time, whose sign fills the upper bits, is read with its sign.
* *Types.* `Kept` is the type invariant for one result, and has a lemma for each kind of result.

The SMT translation of `tlapm` has an axiom about `Len` that holds for sequences and not for every function it applies to.
All proofs were also checked with that axiom restricted to functions whose domain is 1 .. n.

Only model-checked: liveness. `CallsEnd`, `CommandsEnd` and the fairness they rest on are out of the prover's reach. Every
invariant and every other action property of the passing runs is a theorem.

## Not modelled

* A server that acts on a command after its client has already gone on: in `BulkInsert` the
  effect of a command whose connection breaks happens then or never. `Network` has the
  delayed execution (`Exchange!Serve`).
* Byte layout of messages, compression, and replies that are too short: in the models all of
  them are a command that throws.
* ProcMon and the configuration: `CheckVersion` and `FindTable` succeed or throw.
  With `mode` 1 the constructor always throws, as no DBRoots are read.
* The race of two threads for the first use of the catalog is a data race on a pointer; the model has it as two
  writes of which one is last.
* The precision of FLOAT and DOUBLE columns, and the characters of texts: `ConvertDateText` starts from the fields
  that were parsed, and the `setFromString()` of a fraction of a second is not in the model.
* Fractions that a double does not tell from their neighbours, and a Decimal of more digits than fit in the columns: the
  numbers are tenths. How the last digit of a Decimal below 0.0001 is lost is left open (`Tiny`).
* A packet without payload, or one that comes together with bytes of another: the servers do not send them.
* A server that never answers: the code has no timeout, and the liveness properties assume a server that does.
* Debug output, bindings and importers.

## Plan

1. The constructor's own promises: which failures leak a lock or a transaction.
2. Rows of a session that lost the reply to its release (`unsure`): what still holds of them.
3. The hazards without a property: a transaction ID whose successor `brmGetUniqueId` fails, a server that
   never answers.
