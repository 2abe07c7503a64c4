----------------------------- MODULE Statements -----------------------------
(***************************************************************************)
(* The core connection, static_sqlite_core::Sqlite: every operation is a   *)
(* sqlite3_stmt that is prepared, stepped and, on some paths only, given   *)
(* back with sqlite3_finalize.  A statement that is left on a row keeps its*)
(* locks, and if it writes, its transaction, and SQLite commits nothing    *)
(* else the connection writes until it is finalized.                       *)
(*                                                                         *)
(* Several connections are open on one file, in autocommit mode: each SQL  *)
(* text holds a statement, and none is a BEGIN.  A statement is abstracted *)
(* to whether it writes; its rows to whether they can be decoded.  SQLite  *)
(* is external and modelled by what its documentation says of the calls    *)
(* the code makes.                                                         *)
(***************************************************************************)
EXTENDS Naturals, FiniteSets

CONSTANTS Connections,  \* core connections to one file
          Ops,          \* calls of the operations; each prepares one statement
          NoConnection  \* over, for an operation that was not called

ASSUME StatementsAssumption == NoConnection \notin Connections

VARIABLES handle,    \* the sqlite3 handle of each connection
          kind,      \* which operation each call is
          over,      \* the connection it is called on
          writes,    \* its statement writes
          stmt,      \* where its statement is
          iterators, \* the SqliteIterators that exist
          out,       \* what the caller was told
          pending,   \* per connection, the writes of its open transaction
          committed  \* the writes in the file

\* History: the connections on which an operation began beside an iterator.
VARIABLE shared

file    == <<pending, committed>>
callers == <<kind, over, writes, shared>>
vars == <<handle, kind, over, writes, stmt, iterators, out, pending, committed, shared>>

\* query stands for rows too, which differs in not calling from_row; inspect
\* for column_names, aliased_column_names, table_names, bind_param_names,
\* savepoint and release.
Kinds == {"execute", "query", "first", "iter", "inspect"}

\* An iterator's statement is not finalized while it exists.
\* "bad" is an error in a row that SQLite delivered: Utf8Error, ConversionError,
\* MissingColumn; "err" an error of SQLite.
TypeOK ==
    /\ handle \in [Connections -> {"none", "failed", "open", "closed", "leaked", "exited"}]
    /\ kind \in [Ops -> Kinds \cup {"none"}]
    /\ over \in [Ops -> Connections \cup {NoConnection}]
    /\ writes \in [Ops -> BOOLEAN]
    /\ stmt \in [Ops -> {"none", "ready", "row", "halted", "finalized"}]
    /\ iterators \in SUBSET Ops
    /\ \A w \in iterators : kind[w] = "iter" /\ stmt[w] \in {"ready", "row", "halted"}
    /\ out \in [Ops -> {"none", "ok", "err", "bad", "tooMany"}]
    /\ pending \in [Connections -> SUBSET Ops]
    /\ committed \in SUBSET Ops
    /\ shared \in SUBSET Connections

Init ==
    /\ handle = [c \in Connections |-> "none"]
    /\ kind = [w \in Ops |-> "none"]
    /\ over = [w \in Ops |-> NoConnection]
    /\ writes = [w \in Ops |-> FALSE]
    /\ stmt = [w \in Ops |-> "none"]
    /\ iterators = {}
    /\ out = [w \in Ops |-> "none"]
    /\ pending = [c \in Connections |-> {}]
    /\ committed = {}
    /\ shared = {}

-----------------------------------------------------------------------------
(* SQLite: what a step does to the transaction and the file.               *)

\* The write lock of the file is free for connection c.
CanWrite(c) == \A d \in Connections \ {c} : pending[d] = {}

OtherWriter(w, c) ==
    \E v \in Ops \ {w} : over[v] = c /\ writes[v] /\ stmt[v] = "row"

\* A statement stops with the transaction at changes.  SQLite commits when the
\* last writing statement of the connection stops.
Halts(w, c, changes) ==
    IF OtherWriter(w, c)
    THEN pending' = [pending EXCEPT ![c] = changes] /\ UNCHANGED committed
    ELSE pending' = [pending EXCEPT ![c] = {}] /\ committed' = committed \cup changes

\* The transaction with what statement w has written, if it writes.
With(w, c, wr) == IF wr THEN pending[c] \cup {w} ELSE pending[c]

\* A statement runs to its end, and the commit due then succeeds.
Completes(w, c, wr) == (wr => CanWrite(c)) /\ Halts(w, c, With(w, c, wr))

\* A statement fails: its own changes are undone, or, when it was the last
\* writer or the error is one like a full disk, the whole transaction.
Fails(w, c) ==
    /\ \/ pending' = [pending EXCEPT ![c] = {}]
       \/ OtherWriter(w, c) /\ pending' = [pending EXCEPT ![c] = @ \ {w}]
    /\ UNCHANGED committed

\* A statement delivers its first row.  RETURNING has then made all changes.
Delivers(w, c, wr) ==
    /\ wr => CanWrite(c)
    /\ pending' = [pending EXCEPT ![c] = With(w, c, wr)]
    /\ UNCHANGED committed

-----------------------------------------------------------------------------
(* The connection.                                                         *)

Open(c) ==
    /\ handle[c] = "none"
    /\ handle' = [handle EXCEPT ![c] = "open"]
    /\ UNCHANGED <<callers, stmt, iterators, out, file>>

\* sqlite3_open fails: the handle it allocated is not closed.
OpenFails(c) ==
    /\ handle[c] = "none"
    /\ handle' = [handle EXCEPT ![c] = "failed"]
    /\ UNCHANGED <<callers, stmt, iterators, out, file>>

Unfinalized(c) == {w \in Ops : over[w] = c /\ stmt[w] \in {"ready", "row", "halted"}}

\* Drop: sqlite3_close refuses while a statement is not finalized, which is
\* ignored.  An iterator borrows the connection, so none exists.
Close(c) ==
    /\ handle[c] = "open"
    /\ \A w \in iterators : over[w] # c
    /\ handle' = [handle EXCEPT ![c] = IF Unfinalized(c) = {} THEN "closed" ELSE "leaked"]
    /\ UNCHANGED <<callers, stmt, iterators, out, file>>

\* The process of the connection ends, in order or not: locks go, open
\* transactions are rolled back.
Exit(c) ==
    /\ handle[c] \in {"open", "leaked"}
    /\ handle' = [handle EXCEPT ![c] = "exited"]
    /\ stmt' = [w \in Ops |-> IF over[w] = c THEN "finalized" ELSE stmt[w]]
    /\ iterators' = {w \in iterators : over[w] # c}
    /\ pending' = [pending EXCEPT ![c] = {}]
    /\ UNCHANGED <<callers, out, committed>>

-----------------------------------------------------------------------------
(* Operations that run to their end in one call.                           *)

Call(w, c, k, wr) ==
    /\ handle[c] = "open"
    /\ kind[w] = "none"
    /\ kind' = [kind EXCEPT ![w] = k]
    /\ over' = [over EXCEPT ![w] = c]
    /\ writes' = [writes EXCEPT ![w] = wr]
    /\ shared' = IF \E v \in iterators : over[v] = c THEN shared \cup {c} ELSE shared
    /\ UNCHANGED handle

\* Statement and outcome the operation ends with.
Returns(w, st, o) ==
    /\ stmt' = [stmt EXCEPT ![w] = st]
    /\ out' = [out EXCEPT ![w] = o]

\* prepare fails: there is no statement.
Refused(w, c, k, wr) ==
    /\ Call(w, c, k, wr)
    /\ Returns(w, "none", "err")
    /\ UNCHANGED <<iterators, file>>

\* Mutant of Execute: the statement is not finalized.
Execute_Forgets(w, c, wr) ==
    /\ Call(w, c, "execute", wr)
    /\ \/ Returns(w, "halted", "ok") /\ Completes(w, c, wr)
       \/ Returns(w, "halted", "err") /\ Fails(w, c)
    /\ UNCHANGED iterators

\* One step; its error returns without sqlite3_finalize.  A statement left on
\* a row stops when it is finalized, and the commit due then may fail.
Execute(w, c, wr) ==
    /\ Call(w, c, "execute", wr)
    /\ \/ Returns(w, "finalized", "ok") /\ Completes(w, c, wr)
       \/ Returns(w, "halted", "err") /\ Fails(w, c)
       \/ Returns(w, "finalized", "err") /\ Fails(w, c)
    /\ UNCHANGED iterators

\* Mutants of Query: a failed conversion finalizes the statement before it
\* returns; the error of finalize_statement is dropped.
Query_Finalizes(w, c, k, wr) ==
    /\ Call(w, c, k, wr)
    /\ \/ Returns(w, "finalized", "ok") /\ Completes(w, c, wr)
       \/ k = "first" /\ Returns(w, "finalized", "tooMany") /\ Completes(w, c, wr)
       \/ Returns(w, "finalized", "err") /\ Fails(w, c)
       \/ Returns(w, "finalized", "bad") /\ Completes(w, c, wr)
    /\ UNCHANGED iterators
Query_Swallows(w, c, k, wr) ==
    /\ Call(w, c, k, wr)
    /\ \/ Returns(w, "finalized", "ok") /\ Completes(w, c, wr)
       \/ k = "first" /\ Returns(w, "finalized", "tooMany") /\ Completes(w, c, wr)
       \/ Returns(w, "finalized", "ok") /\ Fails(w, c)
       \/ Returns(w, "row", "bad") /\ Delivers(w, c, wr)
    /\ UNCHANGED iterators

\* Steps to the end of the result and finalizes, which reports an error of any
\* step; a row that cannot be converted returns at once.  query_first counts
\* the rows afterwards.
Query(w, c, k, wr) ==
    /\ Call(w, c, k, wr)
    /\ \/ Returns(w, "finalized", "ok") /\ Completes(w, c, wr)
       \/ k = "first" /\ Returns(w, "finalized", "tooMany") /\ Completes(w, c, wr)
       \/ Returns(w, "finalized", "err") /\ Fails(w, c)
       \/ Returns(w, "row", "bad") /\ Delivers(w, c, wr)
    /\ UNCHANGED iterators

\* Prepares a statement to look at, and forgets it; only bind_param_names
\* finalizes it.
Inspect(w, c) ==
    /\ Call(w, c, "inspect", FALSE)
    /\ \E st \in {"ready", "finalized"} : Returns(w, st, "ok")
    /\ UNCHANGED <<iterators, file>>

-----------------------------------------------------------------------------
(* SqliteIterator.                                                         *)

Iter(w, c, wr) ==
    /\ Call(w, c, "iter", wr)
    /\ Returns(w, "ready", "none")
    /\ iterators' = iterators \cup {w}
    /\ UNCHANGED file

\* The flag finished is not set: the last item was a row, an error of a column
\* name, or there was none.
Unfinished(w) == w \in iterators /\ out[w] = "none"

\* A writer whose transaction was rolled back under it can only fail.
Intact(w) == writes[w] /\ stmt[w] = "row" => w \in pending[over[w]]

\* next(): a row, converted or not.  A value or a row that cannot be converted
\* finishes the iterator; a column name that is not UTF-8 is an error as well but
\* does not, so that the iterator goes on as after a row.
NextRow(w) ==
    /\ Unfinished(w)
    /\ Intact(w)
    /\ \E o \in {"none", "bad"} : Returns(w, "row", o)
    /\ IF stmt[w] = "ready" THEN Delivers(w, over[w], writes[w]) ELSE UNCHANGED file
    /\ UNCHANGED <<handle, callers, iterators>>

\* Mutant of NextDone: the statement is finalized at its end, and again by Drop.
NextDone_Finalizes(w) ==
    /\ Unfinished(w)
    /\ Intact(w)
    /\ Returns(w, "finalized", "ok")
    /\ Completes(w, over[w], writes[w])
    /\ UNCHANGED <<handle, callers, iterators>>

NextDone(w) ==
    /\ Unfinished(w)
    /\ Intact(w)
    /\ Returns(w, "halted", "ok")
    /\ Completes(w, over[w], writes[w])
    /\ UNCHANGED <<handle, callers, iterators>>

NextFails(w) ==
    /\ Unfinished(w)
    /\ Returns(w, "halted", "err")
    /\ Fails(w, over[w])
    /\ UNCHANGED <<handle, callers, iterators>>

\* Mutant of DropIterator: no Drop, the statement is not finalized.
DropIterator_Forgets(w) ==
    /\ w \in iterators
    /\ iterators' = iterators \ {w}
    /\ UNCHANGED <<handle, callers, stmt, out, file>>

\* Drop finalizes.  A statement on a row stops there: what it wrote is
\* committed, or the commit fails and nobody is told.
DropIterator(w) ==
    /\ w \in iterators
    /\ iterators' = iterators \ {w}
    /\ stmt' = [stmt EXCEPT ![w] = "finalized"]
    /\ \/ Halts(w, over[w], pending[over[w]])
       \/ stmt[w] = "row" /\ writes[w] /\ Fails(w, over[w])
    /\ UNCHANGED <<handle, callers, out>>

-----------------------------------------------------------------------------

Begin(w, c) ==
    \/ \E k \in Kinds, wr \in BOOLEAN : Refused(w, c, k, wr)
    \/ \E wr \in BOOLEAN : Execute(w, c, wr)
    \/ \E k \in {"query", "first"}, wr \in BOOLEAN : Query(w, c, k, wr)
    \/ Inspect(w, c)
    \/ \E wr \in BOOLEAN : Iter(w, c, wr)

Iterate(w) == NextRow(w) \/ NextDone(w) \/ NextFails(w) \/ DropIterator(w)

Manage(c) == Open(c) \/ OpenFails(c) \/ Close(c) \/ Exit(c)

Next ==
    \/ \E c \in Connections : Manage(c)
    \/ \E w \in Ops, c \in Connections : Begin(w, c)
    \/ \E w \in Ops : Iterate(w)

Spec == Init /\ [][Next]_vars

-----------------------------------------------------------------------------
(* Properties.                                                             *)

\* A query of connection c that writes gave up at a row it could not convert.
GaveUp(c) ==
    \E v \in Ops : over[v] = c /\ writes[v] /\ kind[v] \in {"query", "first"} /\ out[v] = "bad"

\* Nothing is left open on c but one iterator: as the connection actor uses it,
\* where the closure of a stream drops its iterator before it ends.
Clean(c) == c \notin shared /\ ~GaveUp(c)

\* A connection commits every write before it says Ok.  The exceptions are a
\* connection on which a writing query gave up at a row, after which nothing it
\* writes is committed any more, and operations beside an iterator.
AckedIsCommitted ==
    \A w \in Ops :
        writes[w] /\ out[w] \in {"ok", "tooMany"} /\ Clean(over[w]) => w \in committed

\* A write whose execute, query or query_first was answered with an error of
\* SQLite or of a conversion is never committed, not even by a later operation;
\* for an iterator, whose drop commits, this is true of errors of SQLite only.
RefusedIsNotCommitted ==
    \A w \in Ops :
        (out[w] = "err" \/ (out[w] = "bad" /\ kind[w] # "iter")) => w \notin committed

\* The locks on the file are somebody's: a statement on a row, which keeps
\* other connections from committing, is that of an iterator that exists or of
\* a query that gave up at a row, and an open transaction, which keeps them from
\* writing, waits for such a statement that writes.  No error of SQLite and no
\* succeeding operation leaves the file locked.
LocksAreAccountedFor ==
    /\ \A w \in Ops : stmt[w] = "row" =>
           w \in iterators \/ (kind[w] \in {"query", "first"} /\ out[w] = "bad")
    /\ \A c \in Connections : pending[c] # {} =>
           GaveUp(c) \/ \E w \in iterators : over[w] = c /\ writes[w]

\* A connection that could not be closed had an operation that failed, or one
\* that only prepares: no succeeding execute, query or iterator leaks.
LeaksAreReported ==
    \A c \in Connections :
        handle[c] = "leaked" =>
            \E w \in Ops : over[w] = c /\ (out[w] \in {"err", "bad"} \/ kind[w] = "inspect")
=============================================================================
