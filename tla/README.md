# static_sqlite in TLA+

A TLA+ model of static_sqlite, an async SQLite library for Rust with
compile-time checked SQL. The modules here model what the library does with
threads, channels, statements and transactions; TLC checks them on small
instances and the TLA+ proof system proves the main invariants for every
instance. Paths below are those of the repository; line numbers are those of
the commit the models were written from.

## 1. The system

```
  user code ── fns emitted by sql! ── static_sqlite_async::Sqlite (clonable handle)
                                            │ Sender<Message>
                                            ▼ unbounded FIFO
                                      worker thread ── owns ── core::Sqlite ── sqlite3*
                                            │                       │
                     oneshot / mpsc replies ▼                       ▼ statements, transaction
                                       callers                 database file ── other connections
```

| Component | Source | State | Operations |
|---|---|---|---|
| connection actor | `static_sqlite_async/src/lib.rs` | the channel, the worker thread and its core connection, the live handles, per call a future and a reply channel | `open`, `call` (under `execute`, `query`, `query_first`), `execute_all`, `rows`, `stream`, `close`, clone, drop of a handle, drop of a future |
| generated `migrate` | `static_sqlite_macros/src/lib.rs` 374-396 | the table `__migrations__` and the schema, both in the file; the position of each running call | create the table, record a statement, execute it |
| core connection | `static_sqlite_core/src/ffi.rs` | the `sqlite3` handle, its live statements, the transaction they keep open | `open`, `prepare`, `execute`, `query`, `query_first`, `rows`, `iter`, column metadata, savepoint, drop |
| versioned `migrate` | `static_sqlite_core/src/lib.rs` 40-69 | `PRAGMA user_version` in the file | `migrate` |
| values and rows | `static_sqlite_core` | none | column types, `TryFrom<Value>`, `FromRow`, `FirstRow` |
| `sql!` macro | `static_sqlite_macros/src/lib.rs` | an in-memory database at compile time | split the expressions, build the schema, check statements, type placeholders, emit structs and fns |
| name validation | `static_sqlite_macros/src/names.rs` | none | which table and column names a statement uses |
| `schema.rs` | `static_sqlite_macros/src/schema.rs` | none | not compiled: no `mod schema` |
| bindings | `static_sqlite_ffi` | none | generated declarations |

How they interact. The emitted fns call `static_sqlite::{execute, query, ..}`
with a handle. Each sends a closure with a reply sender through the handle's
channel and awaits the reply. The worker receives one message at a time, runs
the closure over its core connection and goes on; a panic in a closure unwinds
the thread, which drops the connection and then the channel. `migrate` is one
async fn that makes such calls in a loop. Several connections, in one process
or in several, may be open on one file; SQLite's locks are all they share.

What is hard here:

* *Interleaving.* Any number of handles send into one channel while the worker
  serves, panics or leaves. Several calls of `migrate` alternate statement by
  statement, over one connection or several.
* *Cancellation.* A dropped future does not withdraw its message.
* *Partial failure.* A panic takes the worker and everything queued with it.
  `execute_all` swallows its result. Each statement of `migrate` commits alone.
* *Crash and restart.* `migrate` may stop between any two statements, and what
  it wrote decides what the next call does.
* *Resources.* Statements that are not finalized hold locks and transactions
  and keep a connection from being closed.

What makes each component correct:

* actor: messages run in send order, at most once; an answer says what
  happened; nobody waits for an answer that cannot come; the worker ends when,
  and only when, the last handle is gone or a handler panicked, and releases
  the connection, if SQLite lets it.
* `migrate`: no statement runs twice; a statement that is not run was lost by a
  call that was told so; order is kept when one program migrates at a time; an
  error that does not come from outside has a reason one can name.
* core connection: a write that was acknowledged is committed, one that was
  refused is not; locks and statements are given back.
* versioned `migrate`: the version in the file is backed by migrations that
  ran.
* values: what a caller passes for a parameter is what a later call reads.
* macro: every let expression after `migrate` gets its function; the types of its arguments,
  of the values bound for them and of the fields of its rows agree with each
  other and with what the database delivers; programs in the part of SQL it
  supports expand and compile.

## 2. Modules

| Module | Models |
|---|---|
| `Connection` | the connection actor |
| `CallService` | what the actor promises its callers: an abstract specification without worker, channels or handles |
| `ConnectionRefinement` | `CallService` instantiated over `Connection` |
| `ConnectionProofs` | theorems about `Connection`, and that it implements `CallService` |
| `Runtime` | the callers of `Connection` as tasks of an async executor, whose threads a stream's consumer blocks |
| `RuntimeProofs` | theorems about `Runtime`, and that it implements `Connection` |
| `Migration` | the generated `migrate` over its connections |
| `MigrationProofs` | theorems about `Migration` |
| `MigrationSoloProofs` | theorems about programs that migrate one at a time |
| `MigrationInTransactions` | `Migration` on connections where other tasks open transactions |
| `MigrationInTransactionsProofs` | theorems about `MigrationInTransactions` |
| `Statements` | the core connection: its statements, transactions and locks, over several connections to one file |
| `StatementsProofs` | theorems about `Statements` |
| `VersionedMigration` | core `migrate` over `PRAGMA user_version` |
| `VersionedProofs` | theorems about `VersionedMigration` |
| `Values` | conversions between Rust values, bound parameters, stored cells and columns, as operators |
| `SqlMacro` | the expansion of one `sql!` invocation |
| `GeneratedCode` | `SqlMacro` and `Values` composed: the Rust compiler takes or rejects what was generated, its `migrate` makes the tables of a new file, and its functions are called |
| `GeneratedCodeProofs` | theorems about `Values` and `GeneratedCode` |
| `MCConnection`, `MCRuntime`, `MCMigration`, `MCMigrationInTransactions`, `MCStatements`, `MCVersionedMigration`, `MCGeneratedCode` | instances for TLC |

### Connection

One action per step the code can be interrupted at.

| Code | Action |
|---|---|
| `start`: worker opens the file 71-77, reports 79-81 | `OpenFails`, `OpenSucceeds`, `ReportOpened` |
| `start`: awaiting the report 105-109 | `OpenerResumes`, `OpenerCancelled` |
| first poll of an operation up to its send 24-54, 111-169 | `Issue` |
| reply awaited | `Return`; for streams `StreamNext`, `StreamEnd` |
| dropping the future or stream | `Cancel` |
| `while let Ok(msg) = receiver.recv()` 83 | `Receive`, `HangUp` |
| running the closure 85, 48-51, 144-153 | `ExecuteCall`, `StreamItem`, `StreamExhausted`, `StreamAbandoned` |
| `todo!()` of `Close` 87, a panicking closure, `iter(..).unwrap()` 145 | `HandlerPanics` |
| the thread's locals are dropped | `DropConnection`, `DropReceiver` |

`execute`, `query` and `query_first` are the kind `"call"`: all three await
`call` and return what it returns. `execute_all`, `rows`, `stream` and `close`
differ in what they take (a handle or a borrow), what they tell of an error
and how they end, and are kinds of their own. What the closure does to the
database is reduced to membership in `done` and to `pinned`: whether it may have
left a statement without a finalize (`MayPin`; `Statements` says how). The borrow
checker is part of the model (`Borrowable`, `Movable`): `close` and `rows` take the
handle, so it must be neither borrowed nor used again; a handle lives at least as
long as a waiting future that borrows it. That is what makes
`ClosedOnlyAfterPanic` true. A stream is different: the future of `stream` ends
with its first poll, and the stream it returns (136-161) has the receiver and
no handle, so it may go on after the last handle is gone.

The order of the drops at the end of the thread matters and is the code's:
`conn` is declared in the closure body and goes first, the captured
`receiver` goes last, so the channel accepts messages while the connection is
already closed. `Drop` of the core connection ignores the result of
`sqlite3_close` (`ffi.rs` 384-390), which is `SQLITE_BUSY` while a statement is
left: the thread ends and the connection may be `"abandoned"`. So it may be when
`sqlite3_open` fails (54-68) after it has allocated a handle.

### Runtime

`stream` polls a blocking `std::sync::mpsc` receiver inside an async task
(`static_sqlite_async/src/lib.rs` 156-160), so a consumer that finds nothing
there keeps the executor's thread. `blocked` is the set of streams whose
consumers do; `Block` and `Unblock` are the entry into `recv()` and its return,
and every other step of a caller needs a free thread. The steps themselves are
those of `Connection`. Each request is a task of its own, and a task without a
thread cannot even be cancelled. The worker is not one of the executor's
threads and both its channels are unbounded: it never waits for a caller, and
that is why even an executor with one thread comes free again.

### Migration

A call sends `"create"`, then for each statement `"record"` and, if that
changed a row, `"apply"`. `channel[n]` holds the calls with a request in
connection `n`'s channel. A call whose future was dropped leaves its request
there and it is executed; a crash empties the channel and keeps what was
committed. `Releases` says which prefixes of the script exist as programs, so
that an old and a new version of a program may migrate one file.

A statement of `Script` is a piece, the text between two semicolons (`lib.rs`
386), and a piece is its text, as in the code, which removes all white space from
it before it compares (387). The macro executes what its parser made of the whole
text (94-98); that this works says little of the pieces, so nothing is assumed of
them. `Needs` relates a text to those that must be in force for it to succeed,
`Undoes` to those it takes out of force, `Broken` are those that SQLite never
accepts: a comment, or half of a statement with a semicolon in a literal. A piece
succeeds when `Works` says so. Scripts that fail by themselves are thus in the
model: a broken piece, and create, drop, create again (whose text is recorded and
skipped), then alter.

`Fail` is every other reason for an error: busy, disk full, a constraint, a
connection that was closed. `failed` is a history variable: the calls that could
not create `__migrations__`, which `execute_all` did not tell them, while it is
still missing.

`solo` is a second history variable: no call has begun while another ran or
while another connection had a request left. It singles out the deployment of
the macro's example, where one program at a time migrates at startup; the
program before may have been cancelled or have crashed anywhere.

The channel of `Migration` is that of `Connection`: FIFO, served one at a
time, answered after execution. `CallService` states that and
`Implements` of `ConnectionProofs` proves that `Connection` implements it.

### MigrationInTransactions

A clone of a handle talks to the same connection, so any task may send
`execute(.., "begin")` between two statements of a migration that runs on it;
and `query` leaves a transaction open by itself when it gives up at a row of a
statement that writes (`ffi.rs` 166, 171; `AckedIsCommitted` of `Statements`).
`Begin`, `GiveUpAtRow`, `Commit` and `RollBack` are those tasks, `intx` the
connections with a transaction open, `kept` those where a statement that is never
finalized refuses a COMMIT; a ROLLBACK ends such a transaction too.

`table`, `recorded` and `applied` of `Migration` are what the connection that
may write sees, `file` is what is committed; `owner` holds the write lock. A
connection that does not hold it can only fail (`TFail`), at once: the library
sets no busy timeout. What a reader of an older state sees needs no variable,
since `migrate` only sends statements that write. `TExecute` takes the steps of
`Migration` as they are; outside of a transaction they commit.

`mixed` is a history variable: the statements of `migrate` that were executed
inside of a transaction. The three properties are those of `Migration` with
`mixed` as the only exception, and each is violated without that exception: a
statement executed twice after its record was rolled back, a statement lost
although nobody was told, and an `Ok` whose records disappear.

### Statements

`Connection` takes a closure for one step, which is right for the actor: its
closures run one at a time. `Statements` looks inside. An operation `w` of
`Ops` is one call, `over[w]` its connection and `stmt[w]` where its one
`sqlite3_stmt` is: prepared, on a row, halted, finalized.

| Code | Action |
|---|---|
| `open` 54-68, `Drop` 384-390 | `Open`, `OpenFails`, `Close` |
| `prepare` fails 74-80, in any operation | `Refused` |
| `execute` 119-147 | `Execute` |
| `query` 153-178, `query_first` 180-193, `rows` 267-291 | `Query` |
| `column_names` and its kin 297-369, `Savepoint` 393-424 | `Inspect` |
| `iter` 258-265, `SqliteIterator::next` 639-691 | `Iter`, `NextRow`, `NextDone`, `NextFails` |
| `Drop for SqliteIterator` 694-700 | `DropIterator` |
| the process ends | `Exit` |

An operation that runs in one call is one action: one thread at a time uses a
connection, as in the actor (`Sqlite` is declared `Sync`, 50, and would let two
in), and what another connection does in between shows only as a failure, which
is always possible. Its disjuncts are the ways
the code can return, each with what happens to the statement: `execute` returns
a failed step without `sqlite3_finalize`, `query` finalizes after a failed step
but not after a row it cannot convert, the metadata functions never finalize.
The actions of the iterator are separate because a caller holds it.

SQLite is the external definitions of the module, from its documentation: a connection in
autocommit mode commits when the last of its writing statements stops
(`Halts`), and one connection at a time writes (`CanWrite`); a statement that
fails takes back its own changes or the transaction (`Fails`). A reader on a row
keeps other connections from committing; they see an error, which is `Fails`
again, so readers' locks need no variable. `pending[c]` is the open transaction
of `c`, the operations whose changes wait in it; `committed` is the file.

The borrow checker is here too: an iterator borrows its connection, so `Close`
requires that none exists. `Exit` does not.

`shared` is a history variable: the connections on which an operation began
while an iterator existed. The actor has none, since the closure of a stream
drops its iterator before it ends (`static_sqlite_async/src/lib.rs` 144-153); a
program that uses the core alone may.

### VersionedMigration

`Start` reads the version (40-49) and slices the list there (62), which panics
if the list is shorter; `Execute` is one closure (63-65), `SetVersion` the last
statement (66), after which the call returns `Ok`, is killed, or panics in the
drop of its `Savepoint` (`ffi.rs` 420-424); `Stop` is an error, a panic or the end
of the process anywhere.
The savepoint of line 60 has no action: `Savepoint::new` and `release` prepare
`SAVEPOINT` and `RELEASE` and never step them, so each closure commits by
itself. `solo` is as in `Migration`: no call began while another ran.

### Values

Four conversions in a row: `From` (`ffi.rs` 537-615), `Bind` (82-113),
`get_column_value` (195-238) and `TryFrom` (448-535), with SQLite's column
affinity (`Store`, external) in the middle. A content is one of the five kinds
that some conversion treats differently. `TryFrom` succeeds when `Converts`
does.

### SqlMacro

The state machine follows `sql_macro` (`lib.rs` 85-114); each way out of it, a
compile error or one of its `panic!`, `todo!`, `unreachable!` and
`unimplemented!`, is an action.

| Code | Action |
|---|---|
| `split_exprs` 358-372, `is_ddl` 808-852 | `Split`, `NoMigration` |
| migrate statements run in memory 94-99 | `RunMigrate`, `MigrateFails` |
| `names::validate_migrate_expr` (`names.rs` 175-274) | `MissingReference` |
| `schema` 327-355, `structs_tokens` 648-660, `struct_tokens` 662-734 | `structs_tokens`, `StructPanics` |
| `fn_tokens` 404-527, one expression at a time, with `table_names`, `join_table_names`, `parse_type_hinted_column_name`, `create_fn_argument_type`, `create_binding_value` | `fn_tokens`, `FnRefused`, `FnPanics` |
| `trait_parts` 116-165, `trait_tokens` 167-235 | `trait_tokens`, `TraitPanics` |

Programs come parsed, since parsing is `sqlparser`'s; what SQLite says of a
statement (whether it compiles, the names and origins of its columns) is
external. Names are sequences of the parts that the code splits them into: at
`__` for type hints, at `_` for the names of structs. `Argument` keeps apart
what the code derives apart: whether the argument is an `Option`, from the key
flag and `NOT NULL`, and whether the expression that binds it matches on one,
from the type and `NOT NULL`.

### GeneratedCode

`Build` or `Reject` is the Rust compiler. `Compiles` is what it demands of the
generated code that depends on the program: names of structs and of functions,
`migrate` among them, are different; the fields of a struct are different and none
is a keyword; no argument is called like the handle, `db`; the binding expressions
and the From impls have the types they need. `Keywords` are the names that no field
and no argument can have. A struct called like a type or function of the prelude
that generated code uses (`Prelude`: `Vec`, `Option`, `String`) hides it; whether
that does harm depends on the rest of the code, so such a program may compile or
not (`Hides`). `StartMigrate`, `MigratePiece`,
`MigrateStops` and `MigrateReturns` are the generated `migrate` (`lib.rs` 383-394)
on a new file, repeated until it returns `Ok`. A statement of the program carries
its pieces, the texts between the semicolons of what was written for it; `tables`
is what they make of the file, to be compared with `schema`, what the statements
made of the database in memory when the functions were generated. `Call` is one
call of a generated function on such a file: bind the arguments, run
the statement, convert each column of a row through the match arms of
`from_row`. A cell remembers the argument it was bound from and the argument
its placeholder was named for, so that a property can compare what is read
with what was meant. The transport is left out; `Connection` and `Statements`
have it.

## 3. What is checked

Passing runs.

| Run | Bounds | Shows |
|---|---|---|
| `connection_safety` | 2 handles, 3 requests of any kind, 1 row per stream | `TypeOK`, `ServedInSendOrder`, `AnswersAreTruthful`, `ClosedOnlyAfterPanic`, `GracefulDrain`, `CloseIsLast`, `NobodyIsStranded`, `RepliesAreFinal`, `ImplementsService` |
| `connection_live` | `Runtime`: 1 thread, 2 handles, 2 requests, 2 rows, fairness | `BlockedOnWorker`, `EveryCallReturns`, `ConnectionReleased` |
| `migration_safety` | 3 calls, 2 connections, 4 statements (create, alter, drop, a comment), releases of 1 and 4 statements | `TypeOK`, `AppliedAtMostOnce`, `OkMeansRecorded`, `LossIsAccountedFor`, `AllOkIsComplete`, `SoloIsInOrder`, `ErrorsAreExplained` |
| `migration_transactions` | `MigrationInTransactions`: 2 calls, 2 connections, 2 statements, 1 transaction, fairness | `DuplicatesAreMixed`, `LossIsAccountedForInFile`, `OkIsDurable`, `EveryCallEnds` |
| `statements_safety` | 2 connections, 3 operations of any kind | `TypeOK`, `RefusedIsNotCommitted`, `LocksAreAccountedFor`, `LeaksAreReported`, `AckedIsCommitted` |
| `versioned_safety` | 3 calls, lists of 1, 2 and 3 migrations | `TypeOK`, `VersionIsBacked`, `OkMeansExecuted`, `RepeatsAreExplained`, `VersionNeverFalls` |
| `generated_code` | 2 tables, 33 migrate expressions, an insert and one more expression (or two), 10 other orders of expressions, 7 programs with odd names: 15,131 programs; 1 row per table | `TypeOK`, `MismatchIsExplained`, `ReadsWhatWasWritten`, `NoDanglingReference`, `MigrateMakesTheSchema`, `LetsAreAccountedFor`, `PlainProgramsCompile` |

Which of these say something a test would hardly reach: `RefusedIsNotCommitted`
could fail when an operation that succeeds commits what an earlier one left in
the transaction; `AckedIsCommitted` fails on a connection whose transaction a
writing query has left open, which is why it must name that exception;
`LocksAreAccountedFor` lists who can lock the file out; `LeaksAreReported` says
that a program that sees no error can always close its connections.
`VersionIsBacked` holds although two calls may run the same migrations and the
older release may set the version last. `MismatchIsExplained` says that the
types the macro derives in three places (arguments, bound values, fields) never
disagree by themselves: a "column type mismatch" at run time is the program's
doing, and the property lists how. `MigrateMakesTheSchema` compares two
executions of one script, that of the macro, statement by statement as the
parser printed them, and that of the generated code, piece by piece of the text.
`ErrorsAreExplained` lists why a request of `migrate` may be rejected: for a reason
outside of it; because `__migrations__` is missing and this call was not told that
it could not create it; because the script is at fault (`Faulty`: its pieces fail
even when they are executed top to bottom, each text once); because another call
stopped at a statement that this one needs; or, if calls run at once, because
another one executes such a statement too late or undoes it too early. Dropping any
one of these makes it false (for a text that is repeated and skipped, on the script
create, drop, create, alter; the theorem covers it, the run's script is another). `ConnectionReleased` says that the worker thread
always ends after the last handle is gone, with streams still being consumed or
not, and that its connection is closed unless it ran an operation that may leave a
statement without a finalize (`LeaksAreReported` says which do) or `sqlite3_open`
had failed. `NoDanglingReference` is about every reference in the schema, wherever it
was declared, and has two exceptions, both of the code (below).
`ReadsWhatWasWritten` follows a value through
two functions, five conversions and a column. `PlainProgramsCompile` names the
programs that always expand and compile.

What the exceptions in these properties tell a user of the macro; each of them
is reached in the run:

* an expression before the migrate expression gets no function, and neither does
  a second one that is DDL only (`LetsAreAccountedFor`; the run `lets_gap` has it
  against the documentation);
* a reference that `ALTER TABLE .. ADD COLUMN` or a `FOREIGN KEY` of a table
  declares may be to a table that is not there: the macro looks only at columns of
  `CREATE TABLE` (`names.rs` 195-222), and at the tables the script creates, so one
  whose table is dropped later passes as well (`NoDanglingReference`);
* a let called like the migrate expression, a parameter `:db`, a column called by a
  keyword, and two names that are one in Pascal case are expanded and do not
  compile; a table or a let called like a type of the prelude may not
  (`NamesGetAlong`);
* a script that compiles may fail when `migrate` runs it: a statement with a
  semicolon in a literal is cut in two, and a comment after the last statement
  is a piece that SQLite has nothing to execute for. Both are recorded first, so
  later calls pass over them and at last return `Ok`, in the first case without
  the statement. A statement that occurs twice runs once (`Regular`);
* a `TEXT PRIMARY KEY` without `NOT NULL` that is a parameter, and a key of
  several columns, do not compile (`Supported`);
* a key that is not `INTEGER` may hold NULL, but its field is no `Option`: such
  rows fail to convert; so do the NULLs of an outer join
  (`MismatchIsExplained`);
* an unqualified name takes its type from the first mentioned table that has
  it (`MismatchIsExplained`);
* a `?` has no name, gets no argument, and shifts the arguments of the named
  placeholders after it (`ReadsWhatWasWritten`);
* a query over a JOIN (tables separated by commas are different) compiles only
  if its list names columns of its first table alone, without a qualifier or as
  `table.*` (`Plain`);
* NaN reads back as `None`, text ends at its first zero character, and `None`
  inserted into an `INTEGER PRIMARY KEY` reads back as the key that SQLite chose
  (`ReadsWhatWasWritten`).

Why the bounds are enough. Two handles are the least with which one can be
closed, consumed or dropped while another is in use; a handle slot is reused
after a drop, so their number over time is not bounded. Three requests let one
be served, one be queued behind it and a third race the worker's end. One row
per stream separates "before the first item" from "after it", which is all
`HandlerPanics` and `StreamExhausted` look at; two rows in the liveness run
let the consumer lag behind the worker. One thread is the executor where a
blocked consumer stops everybody else; what holds for more threads than one is
proved. Three calls of `migrate` let one stop
in the middle, a second win a statement and a third find it recorded; a table that
is created, altered and dropped is enough for a lost statement that breaks a later
one and for one that is undone too early, and the comment behind the script for a
piece that fails by itself. One transaction is enough to record
a statement in it and roll it back while the same call goes on outside of it and
a second call records the statement again. Three operations let an iterator or a
query that gave up hold a transaction, a second write join it and a third end
it; two connections let one be locked out by the other. Three calls of core
`migrate` with three lengths let two overlap and a third follow. The programs
of `generated_code` cover each column type, key, join, placeholder and list
item the code distinguishes, one or two at a time; functions are generated one
by one and typed by the schema alone, so a third adds nothing; the names that do
not get along need one program for each way. One row per table
is enough because each row is written and delivered by itself. Requests, handles, calls, operations and
connections are interchangeable, nothing compares them and no `CHOOSE` picks
one, so the safety runs use their permutations as symmetry; the liveness runs
do not.

`CHECK_DEADLOCK FALSE` in every configuration: each system may really stop,
when its worker is dead and every request spent, when every call has ended, or
when an expansion has ended in an error.

Fairness. The worker is an operating-system thread that blocks only in
`recv`, so weak fairness of `ServeStep` and `OpenStep` (in `Runtime` with
`blocked` unchanged); its closures return or panic, since SQLite statements do.
A task that has been woken is polled again by any executor, so weak fairness of
`OpenTask`, `Poll(r)` and, for `migrate`, `TResume(c)`; in `Runtime` only once a
thread stays free, which is less than a fair executor gives. `recv()` returns
when there is an item or the sender is gone: `Unblock(r)`. A connection serves
its channel: `Serve(n)`. No fairness on issuing, cloning, dropping, cancelling,
crashing, blocking or ending a transaction: nobody has to.

Runs that are meant to fail. Each states what a comment or document of the
repository says, and the trace shows the code doing otherwise.

| Run | Says | Trace |
|---|---|---|
| `connection_stream_gap` | a stream delivers what the `Vec` of the same query would (`README.md:90`) | the statement cannot be prepared, the worker panics, the stream ends without an error |
| `connection_close_gap` | `close` drops the connection, then reports (comment, `lib.rs:88-93`) | the handler is `todo!()`; its panic drops the reply sender, `close` returns `Ok`, the connection is dropped later |
| `migration_retry_gap` | a savepoint: migrate everything or roll back (`lib.rs:376-378`) | a call fails or stops between recording a statement and executing it, nothing is rolled back; the next one returns `Ok` without the statement |
| `migration_order_gap` | top to bottom (`lib.rs:42`) | two calls at once: the second skips what the first is about to execute and overtakes it |
| `lets_gap` | each let becomes a function (`lib.rs:43`) | a let stands before the migrate expression; the program expands and has no function for it |

Every property of a passing run has a mutant: a definition that models code is
replaced by a plausible mistake, and TLC must find the property violated.
Mutants stand before the definition they mutate.

## 4. What is proved

`ConnectionProofs`, for any finite or infinite sets of handles and requests and
any `MaxRows`, from `ConstantsAssumption` alone:

| Theorem | States |
|---|---|
| `TypeCorrect` | `Spec => []TypeOK` |
| `Invariance` | `Spec => []Inv` |
| `SendOrder` | `Spec => []ServedInSendOrder` |
| `Truthfulness` | `Spec => []AnswersAreTruthful` |
| `ClosedByPanic` | `Spec => []ClosedOnlyAfterPanic` |
| `Drained` | `Spec => []GracefulDrain` |
| `CloseBarrier` | `Spec => []CloseIsLast` |
| `NoneStranded` | `Spec => []NobodyIsStranded` |
| `RepliesFinal` | `Spec => RepliesAreFinal` |
| `Implements` | `Spec => ImplementsService`, the refinement of `CallService` |

None of the properties is inductive by itself. `Inv` adds to `TypeOK`:
`OrderInv`, what was received followed by what is queued is what was accepted;
`DistinctInv`, a request is accepted at most once, and only requests that were
issued are; `CurrentInv`, the worker serves the last received request exactly
while it is running; `HeldInv` and `ReplyInv`, a reply channel is open exactly
while its message is queued or served, and what it says agrees with `done` and
`panicked`; `RanInv`, every message received before the current one has been
done, or the worker has panicked; `HandleInv`, an awaiting future (not a stream)
borrows a handle that lives, two futures share one only if neither consumes it; `LeaveInv`, no handle lives
before `open` returned, and a worker that leaves without a panic leaves an
empty channel that nobody can send to; `CloseInv`, the
statement of `CloseIsLast` together with the panic that ends it. Each action
has its own lemma; the sequence facts it needs come from `SequenceTheorems`.

`Implements` maps the actor to its service: pending is what the worker holds and
what is queued behind it. `PendingIsHeld`, `ServicedOnSend`, `ServicedOnReceive`
and `ServicedWhenRunning` say what the steps of the actor do to that sequence:
receiving does nothing to it, since the message stays its first element. The one
fact `Inv` lacks is `PanicInv`: after a panic the worker never serves again. With
it a reply that was dropped means a service that is down, so `ConnectionClosed`
may be told.

`RuntimeProofs`, for any number of threads:

| Theorem | States |
|---|---|
| `RuntimeImplements` | `RSpec => Spec`: an executor only restricts when callers act, so all theorems of `ConnectionProofs` hold under it |
| `BlockedByWorkerOnly` | `RSpec => []BlockedOnWorker` |

A blocked consumer is one that awaits (`BlockedInv`); by `HeldInv` its message is
then answered, queued or served, and by `OrderInv` and `LeaveInv` a worker that
has it is alive.

`MigrationProofs`, for any script, releases, calls and connections that meet
`MigrationAssumption`:

| Theorem | States |
|---|---|
| `TypeCorrect` | `Spec => []TypeOK` |
| `Invariance` | `Spec => []Inv` |
| `AtMostOnce` | `Spec => []AppliedAtMostOnce` |
| `OkRecorded` | `Spec => []OkMeansRecorded` |
| `LossAccounted` | `Spec => []LossIsAccountedFor` |
| `AllOkComplete` | `Spec => []AllOkIsComplete` |

The heart of `Inv` is `TicketInv`: a won insert is a ticket to execute the
statement, at most one call ever holds the ticket of a text, and while it is
held the text is recorded and not executed. `ChannelInv` ties a request in a
channel to its call: it occurs once, in the channel of the call's connection,
and is not answered. `LoopInv` says that everything before the position of a
call is recorded. `LossIsAccountedFor` is inductive together with these, and
implies `AllOkIsComplete`. `ServeEffect` and `ReplyEffect` say what the execution
of a request and its reply change; the lemmas of `MigrationInTransactionsProofs`
use them too.

`MigrationSoloProofs`, from `MigrationAssumption`:

| Theorem | States |
|---|---|
| `SoloInvariance` | `Spec => []SInv` |
| `SoloInOrder` | `Spec => []SoloIsInOrder` |
| `ErrorsExplained` | `Spec => ErrorsAreExplained` |

`PrefixInv` holds of any number of programs at once: what is recorded is a prefix
of the script, since a call asks for a statement when it has seen those before it
recorded; so does `FirstInv`, that only the first of equal texts is ever executed.
What one program at a time adds is `SoloInv`: the requests that dropped
calls left behind lie in one channel, in front of the first request of the running
call, and of these only the first can be anything but a `CREATE TABLE IF NOT
EXISTS`. So when the running call has its first answer nobody else is about to
execute anything, and statements are executed in the order they are recorded in
(`OrderInv`).

`TableInv`: a call that is past the creation of `__migrations__` has the table or
is in `failed`. `RejectionIsExplained` is the lemma behind `ErrorsExplained`, for
calls one at a time and at once: if the script provides for the text a piece
needs (`Provided`) and it is not in force, that text was recorded. If it was never
executed, some call is accountable for it (`LossIsAccountedFor`), and not this one,
which is at another piece. If it was, a piece undid it. By `FirstInv` that piece is
the first with its text, and `Provided` has none of these between the two, so it
was executed out of turn, which `OrderInv` rules out when calls come one at a time.

`MigrationInTransactionsProofs`, from `MigrationAssumption`, for any number of
transactions:

| Theorem | States |
|---|---|
| `TTypeCorrect` | `TSpec => []TypeOK` |
| `TInvariance` | `TSpec => []TInv` |
| `DuplicatesMixed` | `TSpec => []DuplicatesAreMixed` |
| `LossInFileAccounted` | `TSpec => []LossIsAccountedForInFile` |
| `OkDurable` | `TSpec => []OkIsDurable` |

The invariant of `Migration` does not carry over: a record that is rolled back
gives its ticket out twice. What does hold is about requests executed outside of
transactions. They find the connection's view and the file equal (`FileInv`), so
what they win is committed at once and no roll back reaches below it (`OnceInv`).
`FileLoopInv` and `FileLossInv` are `LoopInv` and `LossIsAccountedFor` of the file, with
the statements executed inside of a transaction (`mixed`) as the exception.

`StatementsProofs`, for any connections and operations, from
`StatementsAssumption`:

| Theorem | States |
|---|---|
| `TypeCorrect` | `Spec => []TypeOK` |
| `Invariance` | `Spec => []Inv` |
| `RefusedNotCommitted` | `Spec => []RefusedIsNotCommitted` |
| `LocksAccounted` | `Spec => []LocksAreAccountedFor` |
| `LeaksReported` | `Spec => []LeaksAreReported` |
| `AckedCommitted` | `Spec => []AckedIsCommitted` |

`WriteInv` is the argument: a transaction is open only while a writing
statement is on a row; a write that was refused is in it only while its own
statement is on that row; what is committed belongs to statements that have
stopped. So when the last writing statement stops and SQLite commits, no refused
write is left in the transaction. `OwnerInv` says whose a statement is that is
not finalized, by what its caller was told; with it the other two follow.
`StopEffect`, `FailEffect`, `DeliverEffect` and `KeepEffect` prove `WriteInv`
once for each thing SQLite can do, and the actions cite them. `AckedCommitted`
adds `SingleInv`: without an operation beside an iterator there is at most one
iterator, so a statement that stops waits for nobody but a query that gave up.

`VersionedProofs`, for any calls and any `Releases` in `Nat`:

| Theorem | States |
|---|---|
| `TypeCorrect` | `Spec => []TypeOK` |
| `Invariance` | `Spec => []Inv` |
| `VersionBacked` | `Spec => []VersionIsBacked` |
| `OkExecuted` | `Spec => []OkMeansExecuted` |
| `RepeatsExplained` | `Spec => []RepeatsAreExplained` |
| `VersionMonotone` | `Spec => VersionNeverFalls` |

`LoopInv` says that everything below the position of a running call has been
executed, by it or, below the version it read, by others; it needs
`VersionIsBacked` at `Start` and gives it back at `SetVersion`. `SoloInv` holds
while `solo` does: what the running call executed lies above the version, what
finished ones executed at or below it.

`GeneratedCodeProofs`, for every set of programs that meets
`ProgramsAssumption`:

| Theorem | States |
|---|---|
| `RoundTrip` | a value of a column's own Rust type, except a NaN, bound, stored and read back converts to the same value, or to its part before a zero character |
| `NoneRoundTrip` | `None` stored in any column reads back as `None` |
| `TypeCorrect` | `Spec => []TypeOK` |
| `NoDanglingReferenceHolds` | `Spec => []NoDanglingReference` |
| `LetsAccountedFor` | `Spec => []LetsAreAccountedFor` |
| `MismatchExplained` | `Spec => []MismatchIsExplained` |
| `ReadsWritten` | `Spec => []ReadsWhatWasWritten` |
| `MigrateMakes` | `Spec => []MigrateMakesTheSchema` |
| `PlainCompile` | `Spec => []PlainProgramsCompile` |

The assumptions are about parsed statements (`WellFormed`: which lists are
sequences, a name of a list refers to a relation, a statement that writes has one
table, a named placeholder is one parameter, of a statement's pieces at most one
is the statement) and about arguments (`SamplesAssumption`: their contents are
possible for their Rust type).

Much of a program is put together by concatenation (`FlattenSeq`: the columns of
a query, the rows that type an expression, the pieces of a script, the From
impls), so the proofs need an induction over sequences. The library's induction
theorems cannot be used; `SetInduction` is the induction that can: a *set* of
naturals that has 0, and with each number the next, is `Nat`. It follows from the
library's well-foundedness of `<`. With it `FlattenInduction` carries a set of pairs
(how many sequences, what they have become) through the recursion of `FlattenSeq`, and
`FlattenElements`, `FlattenLength`, `FlattenSingles`, `FlattenDistinct` and
`FlattenLabels` are its instances.

The invariants:

* `IInv` has `Standing`: a table whose CREATE TABLE has run is in the schema unless
  some later statement drops it. `SourceInv`: each row of the schema comes from a
  column that some statement created or added, with its references. Together
  they give `NoDanglingReference` (`SourcesStand`): the macro has looked up what
  stands at a column of a CREATE TABLE, and what it found is standing or was dropped.
* `LetsInv`: the functions so far are those of the first expressions of `rest`.
  `OrderInv`: `rest` is what follows the migrate expression in the program and is not
  DDL, in its order; for this `FlattenIndexes` and `OthersFromIs` say that a filter
  written as a concatenation keeps the order of what it keeps.
* `SchemaInv`: rows of the schema are well formed, and have supported types once
  structs were made of them. `FnsInv`: each function is `GoodFn`, which ties its
  arguments to the named placeholders, in their order, and its fields to the
  columns of its rows.
* `DbInv`: each cell has its `Origin`, which is the key of this proof: it was
  written by nobody and is NULL or a key, or it is what the column stores of some
  argument (`Stored`), which is the one of the placeholder's name if all
  placeholders have names. From this, `CellExplained` and `CellReadBack` are cases on
  types and columns, `RoundTrip` among them, and `AnswerHolds` puts the columns of a
  row together.
* `ScriptInv`: the tables in memory were reached through a sequence of databases,
  one after each statement (`Made`). `FileInv`: a regular script has brought a file
  to one of these, with the table of migrations added (`InFile`); what is recorded
  is exactly the statements up to it; a call is at most one behind. `FileFollows`
  says that a statement does to the file what it does to the database in memory.
* `CodeInv`: structs, functions and impls are those of the program. For a plain
  expression `PlainRows` says that the rows which type it are those of its table,
  `PlainToken` that each label is typed by a column of its name, `PlainLabels` that
  the From impl lists the labels of the row; so the struct, the arguments and the impl
  agree (`PlainFunction`, `PlainImpls`). `PlainCompiles` takes the names from
  `NamesGetAlong`, which speaks of the program and of the schema only.

The proofs made two properties more exact. A program with several expressions of
unlike shape, which the instance did not have, may give a computed column the type
of a column of the same name, and `MismatchIsExplained` did not have that reason;
and `None` bound for an `INTEGER PRIMARY KEY` does not come back, which
`ReadsWhatWasWritten` did not say. Both are in the instance now. The model let an
UPDATE set an `INTEGER PRIMARY KEY` to NULL and supplied a key, which SQLite does for
an INSERT only.

Only model-checked: liveness, which needs fairness and `ENABLED`:
`EveryCallReturns`, `ConnectionReleased`, `EveryCallEnds`. Every other property of a
passing run is a theorem.

## 5. What is not modelled

* The SQL text: parsing; quoting, qualification and case of names; the texts of
  errors; names that are no identifiers or consist of underscores; parameters with
  another sigil than `:`. Into
  which pieces `migrate` splits a script is given with the program. Two
  statements that differ in white space only where it separates words (`add
  column a text` and `add column atext`) have the same text for `migrate`; the
  model has them as statements with equal texts.
* Of the macro: the layout of its token streams, and the difference between
  the three kinds of function it emits (`_first`, `_stream` and the rest), which
  type their rows alike. Of `names.rs`: the lookup of the names and aliases of
  queries, which is marked `allow(unused)` and called by tests only.
* Of the statements of a script: RENAME, DROP COLUMN, `CREATE TABLE IF NOT EXISTS` of
  a table that is there, and `BEGIN` and `COMMIT`, which `is_ddl` lets pass
  (`lib.rs` 831-835). Of the others: values that are written as literals, expressions
  or defaults; columns get theirs from placeholders.
* Of the Rust compiler: clashes with names of the caller's own module, with variants
  such as `None` that patterns name, with tables whose names are not in
  Pascal case or are keywords. `PlainProgramsCompile` is about names in the schema,
  the functions and the arguments alone.
* `FirstRow` and `DataType`, which no generated code uses.
* SQLite itself is external and appears as what its documentation promises of
  the calls the code makes.
* `schema.rs` is not compiled; `bindings.rs` is generated.
* Two tasks of one future (`join!`), of which one blocks the other's thread: each
  request is a task of its own in `Runtime`.
* Calls of generated functions on a file whose tables are not those they were
  generated from, which the irregular scripts leave behind: they fail to
  prepare.
* `prepare` ignores the results of `sqlite3_bind_*` (`ffi.rs:82-112`). They
  fail when memory runs out or a value is longer than SQLite's limit; values do
  not occur in `Statements`, and `GeneratedCode` binds what fits.
* Memory: `core::Sqlite` derives `Clone` (`ffi.rs:45`) and closes its handle in
  `Drop`, so a copy of it would be closed twice; text and blob parameters are
  bound without a copy. The actor clones no core connection and keeps a
  stream's parameters until its iterator is gone.
* Two threads in one core connection, which its `unsafe impl Sync` allows
  (`ffi.rs:50`): the actor's thread is the only one that uses its own.
* In `Statements`, SQL texts that hold no statement, and explicit transactions
  (`BEGIN` in a user's SQL); `MigrationInTransactions` has the latter for
  `migrate`.
* The only C files of the repository are SQLite's own header `sqlite3.h` and the
  `wrapper.h` that includes it: declarations from which the bindings are
  generated, with nothing in them to model. Everything modelled is Rust.

## 6. Plan

Done, in this order: the connection actor and what it promises, the generated
`migrate`, the core connection, core `migrate`, the macro and the code it
generates, for each its theorems; the actor's callers on an executor, `migrate`
inside of transactions, `migrate` as the compiled program runs it.

Left, in this order:

1. Explicit transactions in `Statements`, and two threads in one core connection.
2. `BEGIN` and `COMMIT` as pieces of a script of `migrate`.
3. A run for another claim of the macro's documentation that `GeneratedCode`
   contradicts: the example with a `?` (`lib.rs:53-64`; its function takes no
   argument).
