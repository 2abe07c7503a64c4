------------------------ MODULE MigrationInTransactions ------------------------
(***************************************************************************)
(* Migration on connections that other tasks use too.  A handle is cloned  *)
(* freely and every clone talks to the same connection, so a transaction   *)
(* that one task opens with execute(.., "begin"), or that query leaves open*)
(* when it gives up at a row of a statement that writes, takes in whatever *)
(* the connection executes until it ends: the statements of migrate are    *)
(* then committed, or rolled back, with it.                                *)
(*                                                                         *)
(* table, recorded and applied are what the connection that may write sees;*)
(* file is what is committed.  The other connections can only fail.        *)
(***************************************************************************)
EXTENDS Migration

CONSTANT MaxTransactions \* bound: transactions other tasks open

ASSUME TransactionsAssumption == MaxTransactions \in Nat

VARIABLES file,  \* what is committed of the database
          intx,  \* the connections with a transaction open
          kept,  \* those where a statement nobody finalizes refuses a COMMIT
          owner, \* the connection that holds the write lock across statements
          begun  \* how many transactions were opened

\* History: the requests about a statement that were executed inside of a
\* transaction: the call, what it asked, and the statement.
VARIABLE mixed

transactions == <<file, intx, kept, owner, begun>>
allVars == <<vars, transactions, mixed>>

Committed == [table |-> table, recorded |-> recorded, applied |-> applied]
Restored ==
    /\ table' = file.table
    /\ recorded' = file.recorded
    /\ applied' = file.applied

TInit ==
    /\ Init
    /\ file = Committed
    /\ intx = {}
    /\ kept = {}
    /\ owner = NoConnection
    /\ begun = 0
    /\ mixed = {}

MayWrite(n) == owner \in {n, NoConnection}

-----------------------------------------------------------------------------
(* What other tasks do.                                                    *)

Begin(n) ==
    /\ n \notin intx
    /\ begun < MaxTransactions
    /\ intx' = intx \cup {n}
    /\ begun' = begun + 1
    /\ UNCHANGED <<vars, file, kept, owner, mixed>>

\* query, of a statement that writes and returns rows, ends with an error of
\* from_row: the statement is neither stepped nor finalized again.
GiveUpAtRow(n) ==
    /\ MayWrite(n)
    /\ n \notin kept
    /\ begun < MaxTransactions
    /\ intx' = intx \cup {n}
    /\ kept' = kept \cup {n}
    /\ owner' = n
    /\ begun' = begun + 1
    /\ UNCHANGED <<vars, file, mixed>>

Released(n) ==
    /\ intx' = intx \ {n}
    /\ kept' = kept \ {n}
    /\ owner' = IF owner = n THEN NoConnection ELSE owner
    /\ UNCHANGED <<begun, mixed>>

\* A statement in the middle of its rows refuses to be committed.
Commit(n) ==
    /\ n \in intx \ kept
    /\ Released(n)
    /\ file' = IF owner = n THEN Committed ELSE file
    /\ UNCHANGED vars

Undone(n) ==
    /\ Released(n)
    /\ IF owner = n THEN Restored ELSE UNCHANGED database
    /\ UNCHANGED file

\* ROLLBACK, with a BEGIN before it if there was none, aborts also a statement in
\* the middle of its rows.
RollBack(n) ==
    /\ n \in intx
    /\ Undone(n)
    /\ UNCHANGED <<channel, callVars, request, at, answer, failed, solo>>

-----------------------------------------------------------------------------
(* Migration on such a connection.                                         *)

\* The statement of a request succeeds or is rejected as in Migration.  Outside
\* of a transaction it commits; inside, it takes the write lock if it writes:
\* an insert always does.
Locks(c) ==
    /\ request[c] = "create" => ~table
    /\ answer'[c] # "err"
TExecute(n, c) ==
    /\ MayWrite(n)
    /\ ExecuteCreate(n, c) \/ ExecuteRecord(n, c) \/ ExecuteApply(n, c)
    /\ \/ /\ n \notin intx
          /\ file' = Committed'
          /\ UNCHANGED <<owner, mixed>>
       \/ /\ n \in intx
          /\ owner' = IF Locks(c) THEN n ELSE owner
          /\ mixed' = IF request[c] = "create" THEN mixed
                      ELSE mixed \cup {<<c, request[c], at[c]>>}
          /\ UNCHANGED file
    /\ UNCHANGED <<intx, kept, begun>>

\* It fails for another reason, a lock of another connection for one; the error
\* may be one that undoes the transaction as well.
TFail(n, c) ==
    /\ Refused(n, c)
    /\ \/ UNCHANGED <<database, transactions, mixed>>
       \/ n \in intx /\ Undone(n)

\* The process of a connection ends, and its transaction.
TCrash(n) ==
    /\ \/ \E c \in Calls : status[c] = "running" /\ over[c] = n
       \/ n \in intx
    /\ Killed(n)
    /\ Undone(n)

-----------------------------------------------------------------------------

Others ==
    \E n \in Connections : Begin(n) \/ GiveUpAtRow(n) \/ Commit(n) \/ RollBack(n)

Serve(n) == \E c \in Calls : TExecute(n, c) \/ TFail(n, c)

TResume(c) == Resume(c) /\ UNCHANGED <<transactions, mixed>>

TNext ==
    \/ Others
    \/ \E n \in Connections : Serve(n) \/ TCrash(n)
    \/ \E c \in Calls : TResume(c)
    \/ \E c \in Calls : Cancel(c) /\ UNCHANGED <<transactions, mixed>>
    \/ \E c \in Calls, n \in Connections, u \in Releases :
           Start(c, n, u) /\ UNCHANGED <<transactions, mixed>>

TSpec == TInit /\ [][TNext]_allVars

\* A connection serves its channel, a woken task is polled again.  Nobody has to
\* end a transaction: a statement that finds the file locked fails at once.
TFairness ==
    /\ \A n \in Connections : WF_allVars(Serve(n))
    /\ \A c \in Calls : WF_allVars(TResume(c))

TFairSpec == TSpec /\ TFairness

-----------------------------------------------------------------------------
(* Properties of the file.                                                 *)

InFile == {Script[file.applied[i].statement] : i \in 1..Len(file.applied)}

Mixed(c, req, t) == \E s \in Statements : Script[s] = t /\ <<c, req, s>> \in mixed

\* A statement is in the file twice only if one of the two calls that executed
\* it had recorded it in somebody's transaction (migrate_fn, over a handle that
\* others use).
DuplicatesAreMixed ==
    \A i, j \in 1..Len(file.applied) :
        LET t == Script[file.applied[i].statement] IN
        i # j /\ t = Script[file.applied[j].statement] =>
            Mixed(file.applied[i].by, "record", t) \/ Mixed(file.applied[j].by, "record", t)

\* A statement that is recorded in the file and not executed there was stopped
\* at by a call, or some call executed it in somebody's transaction.
LossIsAccountedForInFile ==
    \A t \in file.recorded \ InFile :
        \E c \in Calls : Accountable(c, t) \/ Mixed(c, "apply", t)

\* The Ok of a call that recorded its statements outside of transactions is
\* durable: whatever is rolled back, over its connection or another, they stay
\* recorded in the file.
OkIsDurable ==
    \A c \in Calls :
        status[c] = "ok" /\ (\A t \in Texts : ~Mixed(c, "record", t)) =>
            Release(c) \subseteq file.recorded
=============================================================================
