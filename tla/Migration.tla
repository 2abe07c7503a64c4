------------------------------ MODULE Migration ------------------------------
(***************************************************************************)
(* The migrate fn the sql! macro generates.  A call of it is an async task *)
(* that sends one SQL statement at a time to its connection and awaits the *)
(* answer: create the table __migrations__, then for each statement of the *)
(* script record its text with "on conflict do nothing" and, if that       *)
(* inserted a row, execute the statement.  Every statement commits by      *)
(* itself; nothing spans the two.                                          *)
(*                                                                         *)
(* The statements of the script are its pieces: the text between two       *)
(* semicolons.  That is what migrate executes, whereas the macro parsed and*)
(* executed the statements of the whole text.  A piece need not be one: it *)
(* may be a comment, or half of a statement with a semicolon in a literal. *)
(*                                                                         *)
(* Several calls may run at once, over one connection or over several to   *)
(* the same file, of different releases of the program: a release has a    *)
(* prefix of the script.  Statements fail (busy, constraint, full disk,    *)
(* closed connection), futures are dropped, processes crash.               *)
(***************************************************************************)
EXTENDS Naturals, Sequences

CONSTANTS Calls,       \* calls of migrate; a retry is another call
          Connections, \* connections to the same database file
          Script,      \* the pieces of the newest release, by their text
          Needs,       \* the texts a piece needs in force: ALTER its CREATE
          Undoes,      \* the texts a piece takes out of force: DROP its CREATE
          Broken,      \* the texts that SQLite rejects on every database
          Releases,    \* how many statements of the script a release has
          NoConnection \* over, for a call that was not made

Texts == {Script[i] : i \in 1..Len(Script)}

ASSUME MigrationAssumption ==
    /\ Script \in Seq(Texts)
    /\ Needs \in [Texts -> SUBSET Texts]
    /\ Undoes \in [Texts -> SUBSET Texts]
    /\ Broken \subseteq Texts
    /\ Releases \subseteq 1..Len(Script)
    /\ NoConnection \notin Connections

VARIABLES table,    \* __migrations__ exists
          recorded, \* its rows
          applied,  \* the statements executed: which, and by which call
          channel,  \* per connection, the calls with a request in it, oldest first
          status,   \* how each call stands
          over,     \* the connection it uses
          upto,     \* the release it belongs to
          request,  \* what it last asked of its connection
          at,       \* the statement that was about
          answer    \* what the connection answered

\* History: the calls that failed to create __migrations__ while it is missing;
\* no call began beside another.
VARIABLES failed, solo

database == <<table, recorded, applied>>
callVars == <<status, over, upto>>
vars == <<table, recorded, applied, channel, status, over, upto, request, at,
          answer, failed, solo>>

Statements == 1..Len(Script)
Applied == {Script[applied[i].statement] : i \in 1..Len(applied)}
Release(c) == {Script[i] : i \in 1..upto[c]}

TypeOK ==
    /\ table \in BOOLEAN
    /\ recorded \in SUBSET Texts
    /\ applied \in Seq([statement : Statements, by : Calls])
    /\ channel \in [Connections -> Seq(Calls)]
    /\ status \in [Calls -> {"new", "running", "ok", "err", "stopped"}]
    /\ over \in [Calls -> Connections \cup {NoConnection}]
    /\ upto \in [Calls -> 0..Len(Script)]
    /\ request \in [Calls -> {"none", "create", "record", "apply"}]
    /\ at \in [Calls -> 0..Len(Script)]
    /\ answer \in [Calls -> {"none", "changed", "unchanged", "done", "err"}]
    /\ failed \in SUBSET Calls
    /\ solo \in BOOLEAN

Init ==
    /\ table = FALSE
    /\ recorded = {}
    /\ applied = <<>>
    /\ channel = [n \in Connections |-> <<>>]
    /\ status = [c \in Calls |-> "new"]
    /\ over = [c \in Calls |-> NoConnection]
    /\ upto = [c \in Calls |-> 0]
    /\ request = [c \in Calls |-> "none"]
    /\ at = [c \in Calls |-> 0]
    /\ answer = [c \in Calls |-> "none"]
    /\ failed = {}
    /\ solo = TRUE

-----------------------------------------------------------------------------
(* The generated function.                                                 *)

\* Send a request and suspend.
Send(c, n, req, i) ==
    /\ channel' = [channel EXCEPT ![n] = Append(@, c)]
    /\ request' = [request EXCEPT ![c] = req]
    /\ at' = [at EXCEPT ![c] = i]
    /\ answer' = [answer EXCEPT ![c] = "none"]

End(c, st) ==
    /\ status' = [status EXCEPT ![c] = st]
    /\ UNCHANGED <<channel, request, at, answer>>

\* The deployment the macro's example has: a program migrates at startup and is
\* done or gone before the next one does.
Alone(n) ==
    /\ \A c \in Calls : status[c] # "running"
    /\ \A m \in Connections \ {n} : channel[m] = <<>>

\* The first poll: up to the await of execute_all.
Start(c, n, u) ==
    /\ status[c] = "new"
    /\ status' = [status EXCEPT ![c] = "running"]
    /\ over' = [over EXCEPT ![c] = n]
    /\ upto' = [upto EXCEPT ![c] = u]
    /\ Send(c, n, "create", 0)
    /\ solo' = (solo /\ Alone(n))
    /\ UNCHANGED <<database, failed>>

Answered(c, req) == status[c] = "running" /\ request[c] = req /\ answer[c] # "none"

\* Mutant of Continue: the last statement is not recognised as the last.
Continue_PastEnd(c) ==
    /\ Send(c, over[c], "record", at[c] + 1)
    /\ UNCHANGED status

\* The next turn of the loop: record the statement after this one, or return Ok.
Continue(c) ==
    IF at[c] < upto[c]
    THEN Send(c, over[c], "record", at[c] + 1) /\ UNCHANGED status
    ELSE End(c, "ok")

\* Whatever execute_all did, it says Ok.
AfterCreate(c) ==
    /\ Answered(c, "create")
    /\ Continue(c)
    /\ UNCHANGED <<database, over, upto, failed, solo>>

\* Mutants of AfterRecord: the error of the insert is dropped; the test of
\* changed is inverted.
AfterRecord_Swallows(c) ==
    /\ Answered(c, "record")
    /\ \/ answer[c] \in {"unchanged", "err"} /\ Continue(c)
       \/ answer[c] = "changed" /\ Send(c, over[c], "apply", at[c]) /\ UNCHANGED status
    /\ UNCHANGED <<database, over, upto, failed, solo>>
AfterRecord_Inverted(c) ==
    /\ Answered(c, "record")
    /\ \/ answer[c] = "err" /\ End(c, "err")
       \/ answer[c] = "changed" /\ Continue(c)
       \/ answer[c] = "unchanged" /\ Send(c, over[c], "apply", at[c]) /\ UNCHANGED status
    /\ UNCHANGED <<database, over, upto, failed, solo>>

\* The insert answered: fail, skip the statement, or execute it.
AfterRecord(c) ==
    /\ Answered(c, "record")
    /\ \/ answer[c] = "err" /\ End(c, "err")
       \/ answer[c] = "unchanged" /\ Continue(c)
       \/ answer[c] = "changed" /\ Send(c, over[c], "apply", at[c]) /\ UNCHANGED status
    /\ UNCHANGED <<database, over, upto, failed, solo>>

\* Mutant of AfterApply: the error of the statement is dropped.
AfterApply_Swallows(c) ==
    /\ Answered(c, "apply")
    /\ Continue(c)
    /\ UNCHANGED <<database, over, upto, failed, solo>>

AfterApply(c) ==
    /\ Answered(c, "apply")
    /\ IF answer[c] = "err" THEN End(c, "err") ELSE Continue(c)
    /\ UNCHANGED <<database, over, upto, failed, solo>>

\* The future is dropped; a request of it stays in the channel and is executed.
Cancel(c) ==
    /\ status[c] = "running"
    /\ status' = [status EXCEPT ![c] = "stopped"]
    /\ UNCHANGED <<database, channel, over, upto, request, at, answer, failed, solo>>

\* The process behind a connection dies: its calls and its queue are gone, ..
Killed(n) ==
    /\ status' = [c \in Calls |-> IF status[c] = "running" /\ over[c] = n
                                  THEN "stopped" ELSE status[c]]
    /\ channel' = [channel EXCEPT ![n] = <<>>]
    /\ UNCHANGED <<over, upto, request, at, answer, failed, solo>>

\* .. what was committed stays.
Crash(n) ==
    /\ \E c \in Calls : status[c] = "running" /\ over[c] = n
    /\ Killed(n)
    /\ UNCHANGED database

-----------------------------------------------------------------------------
(* The connection: it executes the requests in its channel in order, each a*)
(* transaction of its own.                                                 *)

\* Mutants of Reply: the newest request is served first; a failed request is
\* never answered.
Reply_Newest(n, c, a) ==
    /\ channel[n] # <<>>
    /\ c = channel[n][Len(channel[n])]
    /\ channel' = [channel EXCEPT ![n] = SubSeq(@, 1, Len(@) - 1)]
    /\ answer' = [answer EXCEPT ![c] = a]
    /\ UNCHANGED <<callVars, request, at>>
Reply_LosesErrors(n, c, a) ==
    /\ channel[n] # <<>>
    /\ c = Head(channel[n])
    /\ channel' = [channel EXCEPT ![n] = Tail(@)]
    /\ answer' = IF a = "err" THEN answer ELSE [answer EXCEPT ![c] = a]
    /\ UNCHANGED <<callVars, request, at>>

\* The oldest request, that of c, is answered.
Reply(n, c, a) ==
    /\ channel[n] # <<>>
    /\ c = Head(channel[n])
    /\ channel' = [channel EXCEPT ![n] = Tail(@)]
    /\ answer' = [answer EXCEPT ![c] = a]
    /\ UNCHANGED <<callVars, request, at>>

\* create table if not exists __migrations__
ExecuteCreate(n, c) ==
    /\ request[c] = "create"
    /\ Reply(n, c, "done")
    /\ table' = TRUE
    /\ failed' = {}
    /\ UNCHANGED <<recorded, applied, solo>>

\* Mutant of ExecuteRecord: insert or replace, which always changes a row.
ExecuteRecord_Replaces(n, c) ==
    /\ request[c] = "record"
    /\ IF table
       THEN Reply(n, c, "changed") /\ recorded' = recorded \cup {Script[at[c]]}
       ELSE Reply(n, c, "err") /\ UNCHANGED recorded
    /\ UNCHANGED <<table, applied, failed, solo>>

\* insert into __migrations__ .. on conflict (sql) do nothing
ExecuteRecord(n, c) ==
    /\ request[c] = "record"
    /\ \/ ~table /\ Reply(n, c, "err") /\ UNCHANGED recorded
       \/ table /\ Script[at[c]] \in recorded /\ Reply(n, c, "unchanged") /\ UNCHANGED recorded
       \/ /\ table /\ Script[at[c]] \notin recorded
          /\ Reply(n, c, "changed")
          /\ recorded' = recorded \cup {Script[at[c]]}
    /\ UNCHANGED <<table, applied, failed, solo>>

Text(i) == Script[applied[i].statement]

\* The effect of a text is there: it was executed, and nothing after it undid it.
InForce(t) ==
    \E i \in 1..Len(applied) :
        Text(i) = t /\ \A j \in (i + 1)..Len(applied) : t \notin Undoes[Text(j)]

\* SQLite accepts the piece.
Works(s) == Script[s] \notin Broken /\ \A t \in Needs[Script[s]] : InForce(t)

\* The piece itself, as it stands between its semicolons.
ExecuteApply(n, c) ==
    /\ request[c] = "apply"
    /\ \/ /\ Works(at[c])
          /\ Reply(n, c, "done")
          /\ applied' = Append(applied, [statement |-> at[c], by |-> c])
       \/ /\ ~Works(at[c])
          /\ Reply(n, c, "err")
          /\ UNCHANGED applied
    /\ UNCHANGED <<table, recorded, failed, solo>>

\* The request fails without effect for another reason: the file is busy or
\* full, a constraint is violated, the connection was closed under it.
Refused(n, c) ==
    /\ Reply(n, c, "err")
    /\ failed' = IF request[c] = "create" /\ ~table THEN failed \cup {c} ELSE failed
    /\ UNCHANGED solo
Fail(n, c) == Refused(n, c) /\ UNCHANGED database

-----------------------------------------------------------------------------

Resume(c) == AfterCreate(c) \/ AfterRecord(c) \/ AfterApply(c)

Execute(n) ==
    \E c \in Calls : ExecuteCreate(n, c) \/ ExecuteRecord(n, c) \/ ExecuteApply(n, c) \/ Fail(n, c)

Interrupt == (\E c \in Calls : Cancel(c)) \/ (\E n \in Connections : Crash(n))

Progress == (\E c \in Calls : Resume(c)) \/ (\E n \in Connections : Execute(n)) \/ Interrupt

Next == Progress \/ \E c \in Calls, n \in Connections, u \in Releases : Start(c, n, u)

Spec == Init /\ [][Next]_vars

-----------------------------------------------------------------------------
(* Properties.                                                             *)

\* No statement is executed twice, whatever runs at once, retries or crashes:
\* the row in __migrations__ is a lock that is never given back.
AppliedAtMostOnce ==
    \A i, j \in 1..Len(applied) :
        Script[applied[i].statement] = Script[applied[j].statement] => i = j

\* migrate returned Ok: every statement of the release is recorded, so that no
\* later call executes one of them.
OkMeansRecorded == \A c \in Calls : status[c] = "ok" => Release(c) \subseteq recorded

\* A call that has the fate of text t in its hands: it has won the insert and
\* the statement is still to be executed, or it has failed, or stopped, there.
Winning(c) == \/ request[c] = "record" /\ answer[c] = "changed"
              \/ request[c] = "apply" /\ answer[c] \in {"none", "err"}
Accountable(c, t) ==
    /\ at[c] \in Statements /\ Script[at[c]] = t
    /\ \/ status[c] \in {"err", "stopped"}
       \/ status[c] = "running" /\ Winning(c)

\* A statement that is recorded and not executed is somebody's: a call is about
\* to execute it, or one was told Err, dropped or killed at exactly that
\* statement.  No loss is silent to everyone.
LossIsAccountedFor ==
    \A t \in recorded \ Applied : \E c \in Calls : Accountable(c, t)

\* When every call that was made returned Ok, the schema is complete, even if
\* they ran at the same time.
AllOkIsComplete ==
    (\A c \in Calls : status[c] \in {"new", "ok"}) =>
        \A c \in Calls : status[c] = "ok" => Release(c) \subseteq Applied

\* One program at a time: statements are executed top to bottom, over all
\* releases, retries and restarts.
InOrder ==
    \A i, j \in 1..Len(applied) : i < j => applied[i].statement < applied[j].statement
SoloIsInOrder == solo => InOrder

\* The script is at fault for an error at piece s: SQLite rejects it even when
\* the pieces are executed top to bottom, each text once, as migrate does.  The
\* macro notices none of this if the statements of the whole text work.
First(i) == \A j \in 1..(i - 1) : Script[j] # Script[i]
Provided(t, s) ==
    \E i \in 1..(s - 1) :
        /\ Script[i] = t /\ First(i)
        /\ \A j \in (i + 1)..(s - 1) : First(j) => t \notin Undoes[Script[j]]
Faulty(s) == Script[s] \in Broken \/ \E t \in Needs[Script[s]] : ~Provided(t, s)

\* Text t was undone by a piece that does not lie between it and piece s.
OutOfTurn(t, s) ==
    \E i, j \in 1..Len(applied) :
        /\ i < j /\ Text(i) = t /\ t \in Undoes[Text(j)]
        /\ applied[j].statement \notin (applied[i].statement + 1)..(s - 1)

\* Another call has yet to execute what piece s needs, or stopped there; or one
\* that runs beside this one undid it out of turn.
Unmet(c, t) ==
    \/ \E d \in Calls \ {c} : Accountable(d, t) /\ (solo => status[d] # "running")
    \/ ~solo /\ OutOfTurn(t, at[c])

\* The request of c is rejected for one of these reasons and no other:
\* __migrations__ is missing, because the error of its creation was swallowed;
\* the script is at fault; or another call is, by stopping at a statement this
\* one needs or, if they run at once, by executing it too late or undoing it too
\* early.
Explained(c) ==
    /\ request[c] = "record" /\ ~table => c \in failed
    /\ request[c] = "apply" /\ ~Works(at[c]) =>
           Faulty(at[c]) \/ \E t \in Needs[Script[at[c]]] : Unmet(c, t)

\* An error that a request is answered with comes from outside of migrate, or it
\* is explained (migrate_fn).
ErrorsAreExplained ==
    [][\A c \in Calls : answer[c] # "err" /\ answer'[c] = "err" => Explained(c)]_vars

\* Every call of migrate returns, unless it is cancelled or crashes.
EveryCallEnds == \A c \in Calls : (status[c] = "running") ~> (status[c] # "running")

\* Contradicted by the code: statements are always executed top to bottom.
TopToBottom == InOrder

\* Contradicted by the code: one program at a time, after an Ok everything has
\* been migrated, whatever became of the calls before it.
OkMeansMigrated ==
    solo => \A c \in Calls : status[c] = "ok" => Release(c) \subseteq Applied
=============================================================================
