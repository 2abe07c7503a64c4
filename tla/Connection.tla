----------------------------- MODULE Connection -----------------------------
(***************************************************************************)
(* The connection actor of static_sqlite_async: one worker thread owns the *)
(* core connection and serves, one at a time, the messages that any number *)
(* of cloned Sqlite handles put in an unbounded FIFO channel.  A caller    *)
(* waits on a oneshot channel for its answer (call, execute_all, rows,     *)
(* close) or drains an mpsc channel (stream).                              *)
(*                                                                         *)
(* What a message does to the database is abstracted to "it ran to its end"*)
(* (set done); what is kept is every way it can fail to: the closure       *)
(* panics, the close handler is a todo!(), the caller drops its future, the*)
(* last handle goes away, the worker unwinds with messages still queued.   *)
(***************************************************************************)
EXTENDS Naturals, Sequences

CONSTANTS Handles,   \* slots for live clones of Sqlite
          Requests,  \* identities of the futures and streams callers create
          MaxRows,   \* bound: items one stream query can produce
          NoRequest, \* current, when the worker serves nothing
          NoHandle   \* via, for a request that was not issued

ASSUME ConstantsAssumption ==
    /\ MaxRows \in Nat
    /\ NoRequest \notin Requests
    /\ NoHandle \notin Handles

VARIABLES opener,    \* the future of open()/start()
          openReply, \* its oneshot: what the worker reported
          worker,    \* where the worker thread is
          conn,      \* the core connection the worker owns
          pinned,    \* one of its statements may have been left without a finalize
          live,      \* the Sqlite handles that exist
          queue,     \* the channel: messages sent and not received
          current,   \* the message the worker is serving
          kind,      \* which operation each request is
          via,       \* the handle it borrows, or consumes
          fut,       \* the caller's side: its future or stream
          reply,     \* the worker's side: the state of the reply channel
          out,       \* what the caller was told
          produced,  \* items put in a stream's channel
          taken      \* items its consumer took out

\* History: what the properties compare.
VARIABLES accepted,  \* every message the channel took, in send order
          ran,       \* every message the worker received, in that order
          done,      \* requests whose closure ran to its end
          panicked   \* a message handler panicked

openVars   == <<opener, openReply>>
connVars   == <<conn, pinned>>
callerVars == <<kind, via, fut, out, taken>>
history    == <<accepted, ran, done, panicked>>
vars == <<opener, openReply, worker, conn, pinned, live, queue, current, kind,
          via, fut, reply, out, produced, taken, accepted, ran, done, panicked>>

Kinds == {"call", "executeAll", "rows", "stream", "close"}

\* close(self) and rows(conn: Sqlite, ..) take the handle itself; the others
\* borrow it, for as long as their future lives.
Consuming == {"rows", "close"}

TypeOK ==
    /\ opener \in {"awaiting", "returned", "failed", "cancelled"}
    /\ openReply \in {"none", "ok", "err"}
    /\ worker \in {"opening", "opened", "idle", "running", "leaving", "dead"}
    /\ conn \in {"none", "open", "closed", "abandoned"}
    /\ pinned \in BOOLEAN
    /\ live \in SUBSET Handles
    /\ queue \in Seq(Requests)
    /\ current \in Requests \cup {NoRequest}
    /\ kind \in [Requests -> Kinds \cup {"none"}]
    /\ via \in [Requests -> Handles \cup {NoHandle}]
    /\ fut \in [Requests -> {"new", "awaiting", "returned", "cancelled"}]
    /\ reply \in [Requests -> {"none", "ok", "err", "dropped"}]
    /\ out \in [Requests -> {"none", "ok", "err", "closed"}]
    /\ produced \in [Requests -> 0..MaxRows]
    /\ taken \in [Requests -> 0..MaxRows]
    /\ accepted \in Seq(Requests)
    /\ ran \in Seq(Requests)
    /\ done \in SUBSET Requests
    /\ panicked \in BOOLEAN

Init ==
    /\ opener = "awaiting"
    /\ openReply = "none"
    /\ worker = "opening"
    /\ conn = "none"
    /\ pinned = FALSE
    /\ live = {}
    /\ queue = <<>>
    /\ current = NoRequest
    /\ kind = [r \in Requests |-> "none"]
    /\ via = [r \in Requests |-> NoHandle]
    /\ fut = [r \in Requests |-> "new"]
    /\ reply = [r \in Requests |-> "none"]
    /\ out = [r \in Requests |-> "none"]
    /\ produced = [r \in Requests |-> 0]
    /\ taken = [r \in Requests |-> 0]
    /\ accepted = <<>>
    /\ ran = <<>>
    /\ done = {}
    /\ panicked = FALSE

-----------------------------------------------------------------------------
(* Opening: start() spawns the worker and awaits its report.               *)

\* open() failed: the error is reported if anyone listens, the thread returns.
\* What sqlite3_open allocated before it failed is never passed to sqlite3_close.
OpenFails ==
    /\ worker = "opening"
    /\ openReply' = "err"
    /\ worker' = "dead"
    /\ conn' \in {"none", "abandoned"}
    /\ UNCHANGED <<opener, pinned, live, queue, current, reply, produced,
                   callerVars, history>>

OpenSucceeds ==
    /\ worker = "opening"
    /\ conn' = "open"
    /\ worker' = "opened"
    /\ UNCHANGED <<openVars, pinned, live, queue, current, reply, produced,
                   callerVars, history>>

\* result_sender.send(Ok(())): when start()'s future is gone the thread returns
\* at once, which drops the connection; otherwise it enters the receive loop.
ReportOpened ==
    /\ worker = "opened"
    /\ \/ /\ opener = "cancelled"
          /\ worker' = "leaving"
          /\ UNCHANGED openReply
       \/ /\ opener # "cancelled"
          /\ worker' = "idle"
          /\ openReply' = "ok"
    /\ UNCHANGED <<opener, connVars, live, queue, current, reply, produced,
                   callerVars, history>>

\* start() resumes: Ok gives the caller the first handle, Err drops the sender.
OpenerResumes ==
    /\ opener = "awaiting"
    /\ \/ /\ openReply = "ok"
          /\ opener' = "returned"
          /\ \E h \in Handles : live' = {h}
       \/ /\ openReply = "err"
          /\ opener' = "failed"
          /\ UNCHANGED live
    /\ UNCHANGED <<openReply, worker, connVars, queue, current, reply, produced,
                   callerVars, history>>

\* The future of open() is dropped, and the channel's only sender with it.
OpenerCancelled ==
    /\ opener = "awaiting"
    /\ opener' = "cancelled"
    /\ UNCHANGED <<openReply, worker, connVars, live, queue, current, reply,
                   produced, callerVars, history>>

-----------------------------------------------------------------------------
(* Handles and callers.                                                    *)

\* The future of an operation holds its handle until it ends.  That of stream()
\* ends with its first poll: the stream it returns keeps the receiver alone and
\* may outlive every handle.
Uses(r, h) == fut[r] = "awaiting" /\ kind[r] # "stream" /\ via[r] = h

\* What the borrow checker allows: a consumed handle is not borrowed again, a
\* borrowed handle is neither moved nor dropped.
Borrowable(h) ==
    h \in live /\ \A r \in Requests : Uses(r, h) => kind[r] \notin Consuming
Movable(h) == h \in live /\ \A r \in Requests : ~Uses(r, h)

CloneHandle(h, g) ==
    /\ Borrowable(h)
    /\ g \notin live
    /\ live' = live \cup {g}
    /\ UNCHANGED <<openVars, worker, connVars, queue, current, reply, produced,
                   callerVars, history>>

DropHandle(h) ==
    /\ Movable(h)
    /\ live' = live \ {h}
    /\ UNCHANGED <<openVars, worker, connVars, queue, current, reply, produced,
                   callerVars, history>>

\* Mutant of Rejection: the error is swallowed for every operation.
Rejection_Swallowed(k) == "ok"

\* A send fails when the receiver is gone: call() and stream() turn that into
\* ConnectionClosed, close() and execute_all() into Ok.
Rejection(k) == IF k \in {"close", "executeAll"} THEN "ok" ELSE "closed"

\* What the operation returns for the state of its reply channel.
Verdict(k, rep) == IF rep = "dropped" \/ k = "executeAll"
                   THEN Rejection(k) ELSE rep

\* The handles left when a future of kind k over handle h ends.
Released(k, h) == IF k \in Consuming THEN live \ {h} ELSE live

\* The first poll of an operation: everything up to its first await.
Issue(r, h, k) ==
    /\ fut[r] = "new"
    /\ IF k \in Consuming THEN Movable(h) ELSE Borrowable(h)
    /\ kind' = [kind EXCEPT ![r] = k]
    /\ via' = [via EXCEPT ![r] = h]
    /\ \/ /\ worker = "dead"
          /\ fut' = [fut EXCEPT ![r] = "returned"]
          /\ out' = [out EXCEPT ![r] = Rejection(k)]
          /\ live' = Released(k, h)
          /\ UNCHANGED <<queue, accepted>>
       \/ /\ worker # "dead"
          /\ fut' = [fut EXCEPT ![r] = "awaiting"]
          /\ queue' = Append(queue, r)
          /\ accepted' = Append(accepted, r)
          /\ UNCHANGED <<out, live>>
    /\ UNCHANGED <<openVars, worker, connVars, current, reply, produced, taken,
                   ran, done, panicked>>

\* The oneshot of call, execute_all, rows or close resolved: return.
Return(r) ==
    /\ fut[r] = "awaiting"
    /\ kind[r] # "stream"
    /\ reply[r] # "none"
    /\ fut' = [fut EXCEPT ![r] = "returned"]
    /\ out' = [out EXCEPT ![r] = Verdict(kind[r], reply[r])]
    /\ live' = Released(kind[r], via[r])
    /\ UNCHANGED <<openVars, worker, connVars, queue, current, kind, via, reply,
                   produced, taken, history>>

\* Mutant of StreamNext: an item is taken whether or not one is there.
StreamNext_NoWait(r) ==
    /\ fut[r] = "awaiting"
    /\ kind[r] = "stream"
    /\ taken' = [taken EXCEPT ![r] = @ + 1]
    /\ UNCHANGED <<openVars, worker, connVars, live, queue, current, kind, via, fut,
                   reply, out, produced, history>>

\* The consumer of a stream takes the next item.
StreamNext(r) ==
    /\ fut[r] = "awaiting"
    /\ taken[r] < produced[r]
    /\ taken' = [taken EXCEPT ![r] = @ + 1]
    /\ UNCHANGED <<openVars, worker, connVars, live, queue, current, kind, via, fut,
                   reply, out, produced, history>>

\* Channel drained and its sender gone: the stream ends.  The consumer saw an
\* error only if an item was one; a sender that was merely dropped looks like
\* the end of the rows.
StreamEnd(r) ==
    /\ fut[r] = "awaiting"
    /\ kind[r] = "stream"
    /\ taken[r] = produced[r]
    /\ reply[r] # "none"
    /\ fut' = [fut EXCEPT ![r] = "returned"]
    /\ out' = [out EXCEPT ![r] = IF reply[r] = "err" THEN "err" ELSE "ok"]
    /\ UNCHANGED <<openVars, worker, connVars, live, queue, current, kind, via,
                   reply, produced, taken, history>>

\* The caller drops its future or stream: the message stays where it is.
Cancel(r) ==
    /\ fut[r] = "awaiting"
    /\ fut' = [fut EXCEPT ![r] = "cancelled"]
    /\ live' = Released(kind[r], via[r])
    /\ UNCHANGED <<openVars, worker, connVars, queue, current, kind, via, reply, out,
                   produced, taken, history>>

-----------------------------------------------------------------------------
(* The worker thread.                                                      *)

\* Mutant of Receive: the channel is a stack.
Receive_Lifo ==
    /\ worker = "idle"
    /\ queue # <<>>
    /\ current' = queue[Len(queue)]
    /\ queue' = SubSeq(queue, 1, Len(queue) - 1)
    /\ ran' = Append(ran, current')
    /\ worker' = "running"
    /\ UNCHANGED <<openVars, connVars, live, reply, produced, callerVars, accepted,
                   done, panicked>>

Receive ==
    /\ worker = "idle"
    /\ queue # <<>>
    /\ current' = Head(queue)
    /\ queue' = Tail(queue)
    /\ ran' = Append(ran, Head(queue))
    /\ worker' = "running"
    /\ UNCHANGED <<openVars, connVars, live, reply, produced, callerVars, accepted,
                   done, panicked>>

\* Mutants of HangUp: a try_recv that ends the loop on an empty channel; a loop
\* that ends with the last handle and forgets the queue; a worker that keeps a
\* sender of its own.
Leaves ==
    /\ worker' = "leaving"
    /\ UNCHANGED <<openVars, connVars, live, queue, current, reply, produced,
                   callerVars, history>>
HangUp_WhenEmpty  == worker = "idle" /\ queue = <<>> /\ opener # "awaiting" /\ Leaves
HangUp_WithoutDrain == worker = "idle" /\ live = {} /\ opener # "awaiting" /\ Leaves
HangUp_Never == FALSE /\ Leaves

\* recv() fails once the channel is empty and every sender is gone; the one in
\* start() lives as long as that future.
HangUp ==
    /\ worker = "idle"
    /\ queue = <<>>
    /\ live = {}
    /\ opener # "awaiting"
    /\ worker' = "leaving"
    /\ UNCHANGED <<openVars, connVars, live, queue, current, reply, produced,
                   callerVars, history>>

Serving(kinds) == worker = "running" /\ kind[current] \in kinds

\* The operation may leave a statement behind that nobody will finalize.
MayPin(may) == pinned' = (pinned \/ may)

\* The message is served: its reply channel ends as rep, the loop goes on.
Finish(rep) ==
    /\ reply' = [reply EXCEPT ![current] = rep]
    /\ done' = done \cup {current}
    /\ worker' = "idle"
    /\ current' = NoRequest
    /\ UNCHANGED <<openVars, conn, live, queue, produced, callerVars, accepted,
                   ran, panicked>>

\* call's closure: run the function, send its value.  A caller that is gone
\* only makes the send fail, which is ignored.  The function of a call may leave
\* a statement behind whatever it returns; execute and rows do when they fail in
\* the middle of one.
ExecuteCall ==
    /\ Serving({"call", "executeAll", "rows"})
    /\ \E rep \in {"ok", "err"} :
           Finish(rep) /\ MayPin(kind[current] = "call" \/ rep = "err")

\* One item of a stream query, while somebody holds the receiver.
StreamItem ==
    /\ Serving({"stream"})
    /\ fut[current] = "awaiting"
    /\ produced[current] < MaxRows
    /\ produced' = [produced EXCEPT ![current] = @ + 1]
    /\ UNCHANGED <<openVars, worker, connVars, live, queue, current, reply,
                   callerVars, history>>

\* The iterator is exhausted; one of its items may have been an error.  Dropping
\* it finalizes its statement, dropping the closure drops the sender.
StreamExhausted ==
    /\ Serving({"stream"})
    /\ \/ Finish("ok")
       \/ produced[current] > 0 /\ Finish("err")
    /\ UNCHANGED pinned

\* The send of an item fails because the consumer is gone: break.
StreamAbandoned ==
    /\ Serving({"stream"})
    /\ fut[current] # "awaiting"
    /\ Finish("dropped")
    /\ UNCHANGED pinned

\* Mutant of HandlerPanics: the panic is caught and the loop goes on.
HandlerPanics_Caught ==
    /\ Serving({"call", "stream", "close"})
    /\ MayPin(kind[current] = "call")
    /\ reply' = [reply EXCEPT ![current] = "dropped"]
    /\ panicked' = TRUE
    /\ worker' = "idle"
    /\ current' = NoRequest
    /\ UNCHANGED <<openVars, conn, live, queue, produced, callerVars, accepted,
                   ran, done>>

\* A message handler panics: the caller's function or a from_row it supplied
\* does, after any number of rows; conn.iter(..).unwrap() does before the first;
\* or it is the todo!() of Message::Close.  The closure, and with it the iterator
\* and the reply channel, is dropped before anything else.
HandlerPanics ==
    /\ Serving({"call", "stream", "close"})
    /\ MayPin(kind[current] = "call")
    /\ reply' = [reply EXCEPT ![current] = "dropped"]
    /\ panicked' = TRUE
    /\ worker' = "leaving"
    /\ current' = NoRequest
    /\ UNCHANGED <<openVars, conn, live, queue, produced, callerVars, accepted,
                   ran, done>>

\* The thread returns or unwinds: first its local conn is dropped, which ignores
\* that sqlite3_close refuses (SQLITE_BUSY) if a statement is left ..
DropConnection ==
    /\ worker = "leaving"
    /\ conn = "open"
    /\ conn' \in {"closed"} \cup {c \in {"abandoned"} : pinned}
    /\ UNCHANGED <<openVars, pinned, worker, live, queue, current, reply, produced,
                   callerVars, history>>

InQueue(r) == \E i \in 1..Len(queue) : queue[i] = r

\* Mutants of DropReceiver: the queued messages are leaked instead of dropped;
\* every reply channel is closed, the answered ones too.
ReceiverGone ==
    /\ worker = "leaving"
    /\ conn # "open"
    /\ worker' = "dead"
    /\ queue' = <<>>
    /\ UNCHANGED <<openVars, connVars, live, current, produced, callerVars, history>>
DropReceiver_Leaks == ReceiverGone /\ UNCHANGED reply
DropReceiver_ClosesAll == ReceiverGone /\ reply' = [r \in Requests |-> "dropped"]

\* .. then the captured receiver, which discards what is queued: every reply
\* channel in there loses its sender.
DropReceiver ==
    /\ worker = "leaving"
    /\ conn # "open"
    /\ worker' = "dead"
    /\ queue' = <<>>
    /\ reply' = [r \in Requests |-> IF InQueue(r) THEN "dropped" ELSE reply[r]]
    /\ UNCHANGED <<openVars, connVars, live, current, produced, callerVars, history>>

-----------------------------------------------------------------------------

OpenStep ==
    \/ OpenFails
    \/ OpenSucceeds
    \/ ReportOpened

ServeStep ==
    \/ Receive
    \/ HangUp
    \/ ExecuteCall
    \/ StreamItem
    \/ StreamExhausted
    \/ StreamAbandoned
    \/ HandlerPanics
    \/ DropConnection
    \/ DropReceiver

Answered(r) == Return(r) \/ StreamNext(r) \/ StreamEnd(r)

Next ==
    \/ OpenStep
    \/ ServeStep
    \/ OpenerResumes
    \/ OpenerCancelled
    \/ \E h \in Handles, g \in Handles : CloneHandle(h, g)
    \/ \E h \in Handles : DropHandle(h)
    \/ \E r \in Requests, h \in Handles, k \in Kinds : Issue(r, h, k)
    \/ \E r \in Requests : Answered(r)
    \/ \E r \in Requests : Cancel(r)

Spec == Init /\ [][Next]_vars

-----------------------------------------------------------------------------
(* Properties.                                                             *)

\* The worker runs the messages in the order they were sent, each at most once
\* and none that was not sent, whatever callers, cancellations and panics do in
\* between: what one caller did before another's send happened before it.
ServedInSendOrder ==
    /\ Len(ran) <= Len(accepted)
    /\ \A i \in 1..Len(ran) : ran[i] = accepted[i]
    /\ \A i, j \in 1..Len(ran) : ran[i] = ran[j] => i = j

\* An answer tells the truth about the database: Ok or Err of call and rows
\* come from a closure that ran to its end, ConnectionClosed from one that was
\* never started or that panicked halfway.
AnswersAreTruthful ==
    \A r \in Requests :
        /\ kind[r] \in {"call", "rows"} /\ out[r] \in {"ok", "err"} => r \in done
        /\ out[r] = "closed" => r \notin done

\* A caller can only be told ConnectionClosed after a handler panicked: the
\* handle its own future borrows keeps the worker in its loop otherwise.
ClosedOnlyAfterPanic ==
    \A r \in Requests : out[r] = "closed" => panicked

\* When the worker ends without a panic because the last handle went away, it
\* has first run everything that was ever sent, cancelled callers included.
GracefulDrain ==
    worker = "dead" /\ ~panicked => \A i \in 1..Len(accepted) : accepted[i] \in done

\* close() is a barrier in the channel: nothing is run after it, on behalf of
\* any handle, and everything sent before it was received before it.
CloseIsLast ==
    \A i \in 1..Len(ran) :
        kind[ran[i]] = "close" => i = Len(ran) /\ worker # "idle"

\* Nobody waits for a reply that cannot come: once the worker is gone every
\* caller still waiting has been answered or disconnected.
NobodyIsStranded ==
    worker = "dead" =>
        \A r \in Requests : fut[r] = "awaiting" => reply[r] # "none"

\* A reply is given once, and an outcome told to a caller is final.
RepliesAreFinal ==
    [][\A r \in Requests : /\ reply[r] # "none" => reply'[r] = reply[r]
                           /\ out[r] # "none" => out'[r] = out[r]]_vars

\* Every future of call, execute_all, rows and close completes and every stream
\* ends, whatever the other callers do.
EveryCallReturns ==
    \A r \in Requests : (fut[r] = "awaiting") ~> (fut[r] # "awaiting")

\* Once open() is over and no handle is left, the thread ends and SQLite closes
\* the connection, with two exceptions: it ran an operation that may leave a
\* statement without a finalize, and SQLite refuses; or sqlite3_open itself had
\* failed.  Streams that are still being consumed do not keep it.
ConnectionReleased ==
    (opener # "awaiting" /\ live = {}) ~>
        /\ worker = "dead"
        /\ conn = "closed" \/ (conn = "abandoned" /\ pinned) \/ openReply = "err"

\* Contradicted by the code: a stream that ended without an error delivered
\* what the Vec of the same query would have held (README).
StreamEndsComplete ==
    \A r \in Requests : kind[r] = "stream" /\ out[r] = "ok" => r \in done

\* Contradicted by the code: close() returns Ok for a connection that has been
\* closed (the comment in the handler of Message::Close).
CloseMeansClosed ==
    \A r \in Requests : kind[r] = "close" /\ out[r] = "ok" => conn = "closed"
=============================================================================
