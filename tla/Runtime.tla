------------------------------- MODULE Runtime -------------------------------
(***************************************************************************)
(* The callers of Connection as tasks of an async executor with a fixed    *)
(* number of threads, one for a current-thread runtime.  A task that       *)
(* awaits a oneshot gives its thread back; the stream that stream() returns*)
(* does not: it polls a blocking std::sync::mpsc receiver, so a consumer   *)
(* that finds no item there occupies its thread until one arrives.  A task *)
(* without a thread can do nothing, not even drop its future.              *)
(*                                                                         *)
(* Every request is a task of its own.  The steps are those of Connection, *)
(* under this constraint.  The poll that sends a stream's message goes on  *)
(* into recv(); here another task may run in between, which allows more.   *)
(***************************************************************************)
EXTENDS Connection, FiniteSets

CONSTANT Threads \* how many threads the executor has

ASSUME ThreadsAssumption == Threads \in Nat \ {0} /\ IsFiniteSet(Requests)

VARIABLE blocked \* the streams whose consumers sit in recv() on a thread

runtimeVars == <<vars, blocked>>

RInit == Init /\ blocked = {}

FreeThread == Cardinality(blocked) < Threads

\* for item in receiver: nothing there, and the sender lives.
Block(r) ==
    /\ FreeThread
    /\ fut[r] = "awaiting" /\ kind[r] = "stream" /\ r \notin blocked
    /\ taken[r] = produced[r] /\ reply[r] = "none"
    /\ blocked' = blocked \cup {r}
    /\ UNCHANGED vars

\* recv() returns.  The consumer takes the item and polls again, which keeps
\* its thread, or awaits something else; or the stream ends.
Unblock(r) ==
    /\ r \in blocked
    /\ \/ StreamNext(r) /\ blocked' \in {blocked, blocked \ {r}}
       \/ StreamEnd(r) /\ blocked' = blocked \ {r}

\* What a task that is not blocked does, on a free thread.
Poll(r) == FreeThread /\ r \notin blocked /\ Answered(r) /\ UNCHANGED blocked
CancelTask(r) == FreeThread /\ r \notin blocked /\ Cancel(r) /\ UNCHANGED blocked
OpenTask == FreeThread /\ OpenerResumes /\ UNCHANGED blocked
Callers ==
    /\ FreeThread
    /\ \/ OpenerCancelled
       \/ \E h \in Handles, g \in Handles : CloneHandle(h, g)
       \/ \E h \in Handles : DropHandle(h)
       \/ \E r \in Requests, h \in Handles, k \in Kinds : Issue(r, h, k)
    /\ UNCHANGED blocked

\* The worker thread is not one of the executor's.
Worker == (OpenStep \/ ServeStep) /\ UNCHANGED blocked

RNext ==
    \/ Worker
    \/ OpenTask
    \/ Callers
    \/ \E r \in Requests : Block(r) \/ Unblock(r) \/ Poll(r) \/ CancelTask(r)

RSpec == RInit /\ [][RNext]_runtimeVars

\* The worker is an operating-system thread and its closures return or panic; a
\* task that was woken is polled when a thread stays free, and recv() returns
\* when there is something to return.  Nobody has to issue, clone, drop or
\* cancel anything.
RFairness ==
    /\ WF_runtimeVars(OpenStep /\ UNCHANGED blocked)
    /\ WF_runtimeVars(ServeStep /\ UNCHANGED blocked)
    /\ WF_runtimeVars(OpenTask)
    /\ \A r \in Requests : WF_runtimeVars(Unblock(r)) /\ WF_runtimeVars(Poll(r))

RFairSpec == RSpec /\ RFairness

-----------------------------------------------------------------------------
(* Properties.                                                             *)

\* A thread is only ever blocked on the worker: for a stream in recv() there is
\* an item, or its sender is gone, or the worker lives and its message is in
\* the channel or being served.  The worker needs nothing of the executor, so a
\* blocked runtime always gets its thread back (static_sqlite_async, stream).
BlockedOnWorker ==
    \A r \in blocked :
        \/ taken[r] < produced[r]
        \/ reply[r] # "none"
        \/ worker \in {"idle", "running", "leaving"} /\ (InQueue(r) \/ current = r)
=============================================================================
