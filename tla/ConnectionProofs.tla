-------------------------- MODULE ConnectionProofs --------------------------
(***************************************************************************)
(* Safety of the connection actor for any number of handles and requests.  *)
(* The invariants of Connection are not inductive: they hold because of    *)
(* where a message can be (in the channel, in the worker's hands, answered)*)
(* and because a waiting future keeps the handle it uses alive.  Inv states*)
(* both; the theorems follow from it.                                      *)
(***************************************************************************)
EXTENDS ConnectionRefinement, SequenceTheorems, TLAPS

-----------------------------------------------------------------------------
(* The inductive invariant.                                                *)

\* The worker holds a message exactly while it serves one.
CurrentInv == worker = "running" <=> current # NoRequest

\* What was accepted is what was received followed by what is still queued;
\* only a worker that panicked discards the rest.
OrderInv ==
    /\ Len(ran) + Len(queue) <= Len(accepted)
    /\ worker # "dead" \/ ~panicked => Len(accepted) = Len(ran) + Len(queue)
    /\ worker = "dead" => queue = <<>>
    /\ \A i \in 1..Len(ran) : ran[i] = accepted[i]
    /\ \A i \in 1..Len(queue) : queue[i] = accepted[Len(ran) + i]
    /\ current # NoRequest => Len(ran) > 0 /\ current = ran[Len(ran)]

\* A request is sent at most once, by a future that has been polled.
DistinctInv ==
    /\ \A i, j \in 1..Len(accepted) : accepted[i] = accepted[j] => i = j
    /\ \A i \in 1..Len(accepted) : fut[accepted[i]] # "new"

\* A message in the channel or in the worker's hands is neither answered nor
\* done; one that is in neither place has been answered.
Held(r) == InQueue(r) \/ r = current
HeldInv ==
    \A r \in Requests :
        /\ Held(r) => reply[r] = "none" /\ r \notin done /\ out[r] = "none"
        /\ fut[r] = "awaiting" => (Held(r) \/ reply[r] # "none") /\ out[r] = "none"
        /\ fut[r] = "new" => /\ reply[r] = "none" /\ out[r] = "none"
                             /\ r \notin done /\ ~Held(r)

\* How a reply channel ended tells whether the closure ran.
ReplyInv ==
    \A r \in Requests :
        /\ reply[r] \in {"ok", "err"} => r \in done
        /\ reply[r] = "dropped" /\ kind[r] # "stream" => r \notin done /\ panicked
        /\ out[r] = "closed" => r \notin done /\ ~Held(r) /\ panicked
        /\ kind[r] \in {"call", "rows"} /\ out[r] \in {"ok", "err"} => r \in done

\* The handle a waiting future uses exists, and a consumed one has no other user.
\* Nothing of the kind holds of streams, which do not borrow their handle.
HandleInv ==
    \A r \in Requests, h \in Handles :
        Uses(r, h) =>
            /\ h \in live
            /\ kind[r] \in Consuming => \A q \in Requests : Uses(q, h) => q = r

\* The worker leaves its loop without a panic only when nobody can send.
LeaveInv ==
    /\ worker \in {"opening", "opened"} => openReply = "none"
    /\ openReply = "none" => live = {} /\ queue = <<>> /\ ran = <<>> /\ ~panicked
    /\ opener = "awaiting" => live = {}
    /\ worker = "leaving" /\ ~panicked => live = {} /\ queue = <<>> /\ opener # "awaiting"
    /\ worker = "dead" /\ ~panicked => live = {} /\ (opener = "awaiting" => openReply = "err")

\* Without a panic every message received is done or being served.
RanInv == ~panicked => \A i \in 1..Len(ran) : ran[i] \in done \/ ran[i] = current

\* A close is the last message received, and the loop does not survive it.
CloseInv ==
    \A i \in 1..Len(ran) :
        kind[ran[i]] = "close" => i = Len(ran) /\ worker \in {"running", "leaving", "dead"}

Inv == /\ TypeOK     /\ CurrentInv /\ OrderInv /\ DistinctInv /\ HeldInv
       /\ ReplyInv   /\ HandleInv  /\ LeaveInv /\ RanInv      /\ CloseInv

-----------------------------------------------------------------------------
(* Type correctness.                                                       *)

TypeInv == TypeOK /\ CurrentInv

\* The types and the place of the served message are kept by every step.
LEMMA TypeStep == TypeInv /\ [Next]_vars => TypeInv'
<1> SUFFICES ASSUME TypeInv, [Next]_vars
             PROVE  TypeInv'
  OBVIOUS
<1> USE ConstantsAssumption DEF TypeInv, TypeOK, CurrentInv, openVars, connVars,
                                callerVars, history, Kinds, MayPin
<1>1. CASE OpenStep
  BY <1>1 DEF OpenStep, OpenFails, OpenSucceeds, ReportOpened
<1>2. CASE Receive
  BY <1>2 DEF Receive
<1>3. CASE HangUp
  BY <1>3 DEF HangUp
<1>4. ASSUME NEW rep \in {"ok", "err", "dropped"}, worker = "running", Finish(rep),
             pinned' \in BOOLEAN
      PROVE  TypeInv'
  BY <1>4 DEF Finish
<1>5. CASE ExecuteCall
  BY <1>4, <1>5 DEF ExecuteCall, Serving
<1>6. CASE StreamItem
  BY <1>6 DEF StreamItem, Serving
<1>7. CASE StreamExhausted
  BY <1>4, <1>7 DEF StreamExhausted, Serving
<1>8. CASE StreamAbandoned
  BY <1>4, <1>8 DEF StreamAbandoned, Serving
<1>9. CASE HandlerPanics
  BY <1>9 DEF HandlerPanics, Serving
<1>10. CASE DropConnection
  BY <1>10 DEF DropConnection
<1>11. CASE DropReceiver
  BY <1>11 DEF DropReceiver
<1>12. CASE OpenerResumes
  BY <1>12 DEF OpenerResumes
<1>13. CASE OpenerCancelled
  BY <1>13 DEF OpenerCancelled
<1>14. ASSUME NEW h \in Handles, NEW g \in Handles, CloneHandle(h, g)
       PROVE  TypeInv'
  BY <1>14 DEF CloneHandle
<1>15. ASSUME NEW h \in Handles, DropHandle(h)
       PROVE  TypeInv'
  BY <1>15 DEF DropHandle
<1>16. ASSUME NEW r \in Requests, NEW h \in Handles, NEW k \in Kinds, Issue(r, h, k)
       PROVE  TypeInv'
  <2>1. Released(k, h) \in SUBSET Handles /\ Rejection(k) \in {"ok", "closed"}
    BY DEF Released, Rejection
  <2>2. kind' \in [Requests -> Kinds \cup {"none"}] /\ via' \in [Requests -> Handles \cup {NoHandle}]
    BY <1>16 DEF Issue
  <2>3. CASE worker = "dead"
    <3>1. fut' \in [Requests -> {"new", "awaiting", "returned", "cancelled"}]
      <4>1. fut' = [fut EXCEPT ![r] = "returned"]
        BY <1>16, <2>3 DEF Issue
      <4> QED
        BY <4>1
    <3>2. out' \in [Requests -> {"none", "ok", "err", "closed"}]
      BY <1>16, <2>1, <2>3 DEF Issue
    <3>3. live' \in SUBSET Handles /\ UNCHANGED <<queue, accepted>>
      BY <1>16, <2>1, <2>3 DEF Issue
    <3> QED
      BY <1>16, <2>2, <3>1, <3>2, <3>3 DEF Issue
  <2>4. CASE worker # "dead"
    <3>1. fut' \in [Requests -> {"new", "awaiting", "returned", "cancelled"}]
      BY <1>16, <2>4 DEF Issue
    <3>2. /\ queue' = Append(queue, r) /\ accepted' = Append(accepted, r)
          /\ UNCHANGED <<live, out>>
      BY <1>16, <2>4 DEF Issue
    <3>3. queue' \in Seq(Requests) /\ accepted' \in Seq(Requests)
      BY <3>2
    <3> QED
      BY <1>16, <2>2, <3>1, <3>2, <3>3 DEF Issue
  <2> QED
    BY <2>3, <2>4
<1>17. ASSUME NEW r \in Requests, Return(r)
       PROVE  TypeInv'
  BY <1>17 DEF Return, Verdict, Rejection, Released
<1>18. ASSUME NEW r \in Requests, StreamNext(r)
       PROVE  TypeInv'
  BY <1>18 DEF StreamNext
<1>19. ASSUME NEW r \in Requests, StreamEnd(r)
       PROVE  TypeInv'
  BY <1>19 DEF StreamEnd
<1>20. ASSUME NEW r \in Requests, Cancel(r)
       PROVE  TypeInv'
  BY <1>20 DEF Cancel, Released
<1>21. CASE UNCHANGED vars
  BY <1>21 DEF vars
<1> HIDE DEF TypeInv, TypeOK, CurrentInv, openVars, connVars, callerVars, history
<1> QED
  BY <1>1, <1>2, <1>3, <1>5, <1>6, <1>7, <1>8, <1>9, <1>10, <1>11, <1>12, <1>13,
     <1>14, <1>15, <1>16, <1>17, <1>18, <1>19, <1>20, <1>21
     DEF Next, ServeStep, Answered

\* The initial state is well typed and nothing is being served.
LEMMA InitTypes == Init => TypeInv
<1>1. Init => TypeOK
  <2> SUFFICES ASSUME Init
               PROVE  TypeOK
    OBVIOUS
  <2>1. panicked \in BOOLEAN
    BY DEF Init
  <2>2. queue \in Seq(Requests) /\ accepted \in Seq(Requests) /\ ran \in Seq(Requests)
    BY DEF Init
  <2>3. /\ kind \in [Requests -> Kinds \cup {"none"}]
        /\ via \in [Requests -> Handles \cup {NoHandle}]
        /\ fut \in [Requests -> {"new", "awaiting", "returned", "cancelled"}]
        /\ reply \in [Requests -> {"none", "ok", "err", "dropped"}]
        /\ out \in [Requests -> {"none", "ok", "err", "closed"}]
    BY DEF Init
  <2>4. produced \in [Requests -> 0..MaxRows] /\ taken \in [Requests -> 0..MaxRows]
    BY ConstantsAssumption DEF Init
  <2> QED
    BY <2>1, <2>2, <2>3, <2>4 DEF Init, TypeOK
<1>2. Init => CurrentInv
  BY DEF Init, CurrentInv
<1> QED
  BY <1>1, <1>2 DEF TypeInv

\* Every variable keeps its type: in particular the worker only ever serves a
\* request some caller created.
THEOREM TypeCorrect == Spec => []TypeOK
<1>1. Init => TypeInv
  BY InitTypes
<1>2. TypeInv => TypeOK
  BY DEF TypeInv
<1> QED
  BY <1>1, <1>2, TypeStep, PTL DEF Spec

-----------------------------------------------------------------------------
(* The steps of the inductive invariant, one lemma per conjunct.           *)

\* A message that is received leaves the head of the channel for the end of
\* ran; a message that is sent joins the end of both the channel and accepted.
LEMMA OrderStep == Inv /\ [Next]_vars => OrderInv'
<1> SUFFICES ASSUME Inv, [Next]_vars
             PROVE  OrderInv'
  OBVIOUS
<1>0. /\ OrderInv /\ LeaveInv
      /\ queue \in Seq(Requests) /\ accepted \in Seq(Requests) /\ ran \in Seq(Requests)
      /\ Len(queue) \in Nat /\ Len(accepted) \in Nat /\ Len(ran) \in Nat
  BY LenProperties DEF Inv, TypeOK
<1>1. ASSUME worker' = worker \/ worker' # "dead" \/ queue = <<>>,
             worker = "dead" => worker' = "dead",
             panicked => panicked',
             current' = current \/ current' = NoRequest,
             UNCHANGED <<queue, accepted, ran>>
      PROVE  OrderInv'
  BY <1>0, <1>1 DEF OrderInv
<1>2. CASE Receive
  <2>1. /\ queue # <<>> /\ current' = Head(queue) /\ queue' = Tail(queue)
        /\ ran' = Append(ran, Head(queue)) /\ worker = "idle" /\ worker' = "running"
        /\ UNCHANGED <<accepted, panicked>>
    BY <1>2 DEF Receive, callerVars
  <2>2. /\ Head(queue) \in Requests /\ Len(queue') = Len(queue) - 1
        /\ \A i \in 1..Len(queue') : queue'[i] = queue[i + 1]
    BY <1>0, <2>1, HeadTailProperties
  <2>3. /\ Len(ran') = Len(ran) + 1 /\ ran'[Len(ran) + 1] = Head(queue)
        /\ \A i \in 1..Len(ran) : ran'[i] = ran[i]
    BY <1>0, <2>1, <2>2, AppendProperties
  <2>4. /\ Len(queue) \in Nat \ {0} /\ Head(queue) = queue[1]
        /\ Len(accepted) = Len(ran) + Len(queue)
    BY <1>0, <2>1, EmptySeq DEF OrderInv
  <2>5. ASSUME NEW i \in 1..Len(ran')
        PROVE  ran'[i] = accepted[i]
    <3>1. CASE i \in 1..Len(ran)
      BY <1>0, <2>3, <3>1 DEF OrderInv
    <3>2. CASE i = Len(ran) + 1
      <4>1. queue[1] = accepted[Len(ran) + 1]
        BY <1>0, <2>4 DEF OrderInv
      <4> QED
        BY <2>3, <2>4, <3>2, <4>1
    <3> QED
      BY <1>0, <2>3, <3>1, <3>2
  <2>6. ASSUME NEW i \in 1..Len(queue')
        PROVE  queue'[i] = accepted[Len(ran') + i]
    BY <1>0, <2>2, <2>3, <2>4 DEF OrderInv
  <2> QED
    BY <1>0, <2>1, <2>2, <2>3, <2>4, <2>5, <2>6 DEF OrderInv
<1>3. ASSUME NEW r \in Requests, NEW h \in Handles, NEW k \in Kinds, Issue(r, h, k)
      PROVE  OrderInv'
  <2>1. UNCHANGED <<worker, current, ran, panicked>>
    BY <1>3 DEF Issue
  <2>2. CASE UNCHANGED <<queue, accepted>>
    BY <1>0, <2>1, <2>2 DEF OrderInv
  <2>3. CASE worker # "dead" /\ queue' = Append(queue, r) /\ accepted' = Append(accepted, r)
    <3>1. /\ Len(queue') = Len(queue) + 1 /\ queue'[Len(queue) + 1] = r
          /\ \A i \in 1..Len(queue) : queue'[i] = queue[i]
      BY <1>0, <2>3, AppendProperties
    <3>2. /\ Len(accepted') = Len(accepted) + 1 /\ accepted'[Len(accepted) + 1] = r
          /\ \A i \in 1..Len(accepted) : accepted'[i] = accepted[i]
      BY <1>0, <2>3, AppendProperties
    <3>3. Len(accepted) = Len(ran) + Len(queue)
      BY <1>0, <2>3 DEF OrderInv
    <3>4. ASSUME NEW i \in 1..Len(ran)
          PROVE  ran[i] = accepted'[i]
      BY <1>0, <3>2, <3>3 DEF OrderInv
    <3>5. ASSUME NEW i \in 1..Len(queue')
          PROVE  queue'[i] = accepted'[Len(ran) + i]
      <4>1. CASE i = Len(queue) + 1
        BY <1>0, <3>1, <3>2, <3>3, <4>1
      <4>2. CASE i \in 1..Len(queue)
        BY <1>0, <3>1, <3>2, <3>3, <4>2 DEF OrderInv
      <4> QED
        BY <1>0, <3>1, <4>1, <4>2
    <3> QED
      BY <1>0, <2>1, <2>3, <3>1, <3>2, <3>3, <3>4, <3>5 DEF OrderInv
  <2> QED
    BY <1>3, <2>2, <2>3 DEF Issue
<1>4. CASE DropReceiver
  <2>1. /\ queue' = <<>> /\ worker = "leaving" /\ worker' = "dead"
        /\ UNCHANGED <<accepted, ran, current, panicked>>
    BY <1>4 DEF DropReceiver, callerVars, history
  <2>2. ~panicked => queue = <<>>
    BY <1>0, <2>1 DEF LeaveInv
  <2>3. Len(queue') = 0
    BY <2>1
  <2> QED
    BY <1>0, <2>1, <2>2, <2>3 DEF OrderInv
<1>5. CASE OpenStep
  <2>1. /\ worker \in {"opening", "opened"} /\ worker' # "opening"
        /\ UNCHANGED <<queue, accepted, ran, current, panicked>>
    BY <1>5 DEF OpenStep, OpenFails, OpenSucceeds, ReportOpened, callerVars, history
  <2> QED
    BY <1>0, <1>1, <2>1 DEF LeaveInv
<1>6. CASE HangUp
  BY <1>1, <1>6 DEF HangUp, callerVars, history
<1>7. CASE ExecuteCall \/ StreamExhausted \/ StreamAbandoned
  BY <1>1, <1>7 DEF ExecuteCall, StreamExhausted, StreamAbandoned, Serving, Finish, callerVars
<1>8. CASE HandlerPanics
  BY <1>1, <1>8 DEF HandlerPanics, Serving, callerVars
<1>9. CASE StreamItem \/ DropConnection \/ OpenerResumes \/ OpenerCancelled
  BY <1>1, <1>9 DEF StreamItem, DropConnection, OpenerResumes, OpenerCancelled,
                    callerVars, history
<1>10. ASSUME NEW h \in Handles, (\E g \in Handles : CloneHandle(h, g)) \/ DropHandle(h)
       PROVE  OrderInv'
  BY <1>1, <1>10 DEF CloneHandle, DropHandle, callerVars, history
<1>11. ASSUME NEW r \in Requests, Answered(r) \/ Cancel(r)
       PROVE  OrderInv'
  BY <1>1, <1>11 DEF Answered, Return, StreamNext, StreamEnd, Cancel, history
<1>12. CASE UNCHANGED vars
  BY <1>1, <1>12 DEF vars
<1> QED
  BY <1>2, <1>3, <1>4, <1>5, <1>6, <1>7, <1>8, <1>9, <1>10, <1>11, <1>12
     DEF Next, ServeStep

\* Only the first poll of a future sends, so no message is sent twice.
LEMMA DistinctStep == Inv /\ [Next]_vars => DistinctInv'
<1> SUFFICES ASSUME Inv, [Next]_vars
             PROVE  DistinctInv'
  OBVIOUS
<1>0. /\ DistinctInv
      /\ accepted \in Seq(Requests) /\ Len(accepted) \in Nat
      /\ \A i \in 1..Len(accepted) : accepted[i] \in Requests
      /\ fut \in [Requests -> {"new", "awaiting", "returned", "cancelled"}]
  BY LenProperties, ElementOfSeq DEF Inv, TypeOK
<1>1. ASSUME UNCHANGED accepted, \A r \in Requests : fut[r] # "new" => fut'[r] # "new"
      PROVE  DistinctInv'
  BY <1>0, <1>1 DEF DistinctInv
<1>2. ASSUME NEW r \in Requests, NEW h \in Handles, NEW k \in Kinds, Issue(r, h, k)
      PROVE  DistinctInv'
  <2>1. fut[r] = "new" /\ \A q \in Requests : fut[q] # "new" \/ q = r => fut'[q] # "new"
    BY <1>0, <1>2 DEF Issue
  <2>2. CASE UNCHANGED accepted
    BY <1>1, <2>1, <2>2
  <2>3. CASE accepted' = Append(accepted, r)
    <3>1. /\ Len(accepted') = Len(accepted) + 1 /\ accepted'[Len(accepted) + 1] = r
          /\ \A i \in 1..Len(accepted) : accepted'[i] = accepted[i]
      BY <1>0, <2>3, AppendProperties
    <3>2. \A i \in 1..Len(accepted) : accepted[i] # r
      BY <1>0, <2>1 DEF DistinctInv
    <3>3. \A i \in 1..Len(accepted') : i = Len(accepted) + 1 \/ i \in 1..Len(accepted)
      BY <1>0, <3>1
    <3>4. ASSUME NEW i \in 1..Len(accepted'), NEW j \in 1..Len(accepted'),
                 accepted'[i] = accepted'[j]
          PROVE  i = j
      BY <1>0, <3>1, <3>2, <3>3, <3>4 DEF DistinctInv
    <3>5. ASSUME NEW i \in 1..Len(accepted')
          PROVE  fut'[accepted'[i]] # "new"
      BY <1>0, <2>1, <3>1, <3>3 DEF DistinctInv
    <3> QED
      BY <3>4, <3>5 DEF DistinctInv
  <2> QED
    BY <1>2, <2>2, <2>3 DEF Issue
<1>3. ASSUME NEW r \in Requests, Answered(r) \/ Cancel(r)
      PROVE  DistinctInv'
  <2>1. UNCHANGED accepted /\ (UNCHANGED fut \/ \E v \in {"returned", "cancelled"} :
                                                  fut' = [fut EXCEPT ![r] = v])
    BY <1>3 DEF Answered, Return, StreamNext, StreamEnd, Cancel, history
  <2> QED
    BY <1>0, <1>1, <2>1
<1>4. CASE OpenStep \/ OpenerResumes \/ OpenerCancelled
  BY <1>1, <1>4 DEF OpenStep, OpenFails, OpenSucceeds, ReportOpened, OpenerResumes,
                    OpenerCancelled, callerVars, history
<1>5. CASE ServeStep
  BY <1>1, <1>5 DEF ServeStep, Receive, HangUp, ExecuteCall, StreamItem, StreamExhausted,
                    StreamAbandoned, Finish, HandlerPanics, Serving, DropConnection,
                    DropReceiver, callerVars, history
<1>6. ASSUME NEW h \in Handles, (\E g \in Handles : CloneHandle(h, g)) \/ DropHandle(h)
      PROVE  DistinctInv'
  BY <1>1, <1>6 DEF CloneHandle, DropHandle, callerVars, history
<1>7. CASE UNCHANGED vars
  BY <1>1, <1>7 DEF vars
<1> QED
  BY <1>2, <1>3, <1>4, <1>5, <1>6, <1>7 DEF Next

\* The message the worker holds is not queued as well.
LEMMA CurrentNotQueued == Inv /\ current # NoRequest => ~InQueue(current)
<1> SUFFICES ASSUME Inv, current # NoRequest, NEW i \in 1..Len(queue), queue[i] = current
             PROVE  FALSE
  BY DEF InQueue
<1>1. Len(queue) \in Nat /\ Len(accepted) \in Nat /\ Len(ran) \in Nat
  BY LenProperties DEF Inv, TypeOK
<1>2. accepted[Len(ran)] = accepted[Len(ran) + i]
  BY <1>1 DEF Inv, OrderInv
<1>3. Len(ran) \in 1..Len(accepted) /\ Len(ran) + i \in 1..Len(accepted)
  BY <1>1 DEF Inv, OrderInv
<1> QED
  BY <1>1, <1>2, <1>3 DEF Inv, DistinctInv

\* Receiving moves a message from the channel to the worker's hands.
LEMMA HeldOnReceive == Inv /\ Receive => \A r \in Requests : Held(r)' <=> Held(r)
<1> SUFFICES ASSUME Inv, Receive, NEW r \in Requests
             PROVE  Held(r)' <=> Held(r)
  OBVIOUS
<1>1. /\ queue \in Seq(Requests) /\ queue # <<>> /\ current = NoRequest
      /\ queue' = Tail(queue) /\ current' = Head(queue) /\ r # NoRequest
  BY ConstantsAssumption DEF Inv, TypeOK, CurrentInv, Receive
<1>2. /\ Len(queue) \in Nat \ {0} /\ Head(queue) = queue[1]
      /\ Len(queue') = Len(queue) - 1 /\ \A i \in 1..Len(queue') : queue'[i] = queue[i + 1]
  BY <1>1, EmptySeq, HeadTailProperties
<1>3. ASSUME Held(r)
      PROVE  Held(r)'
  <2>1. PICK i \in 1..Len(queue) : queue[i] = r
    BY <1>1, <1>3 DEF Held, InQueue
  <2>2. CASE i = 1
    BY <1>1, <1>2, <2>1, <2>2 DEF Held
  <2>3. CASE i # 1
    <3>1. i - 1 \in 1..Len(queue') /\ queue'[i - 1] = r
      BY <1>2, <2>1, <2>3
    <3> QED
      BY <3>1 DEF Held, InQueue
  <2> QED
    BY <2>2, <2>3
<1>4. ASSUME Held(r)'
      PROVE  Held(r)
  <2>1. CASE r = Head(queue)
    BY <1>2, <2>1 DEF Held, InQueue
  <2>2. CASE \E i \in 1..Len(queue') : queue'[i] = r
    <3>1. PICK i \in 1..Len(queue') : queue'[i] = r
      BY <2>2
    <3>2. i + 1 \in 1..Len(queue) /\ queue[i + 1] = r
      BY <1>2, <3>1
    <3> QED
      BY <3>2 DEF Held, InQueue
  <2> QED
    BY <1>1, <1>4, <2>1, <2>2 DEF Held, InQueue
<1> QED
  BY <1>3, <1>4

\* Sending adds one message to the channel.
LEMMA HeldOnSend ==
    ASSUME NEW r \in Requests, queue \in Seq(Requests), queue' = Append(queue, r),
           UNCHANGED current
    PROVE  \A q \in Requests : Held(q)' <=> Held(q) \/ q = r
<1>1. /\ Len(queue) \in Nat /\ Len(queue') = Len(queue) + 1 /\ queue'[Len(queue) + 1] = r
      /\ \A i \in 1..Len(queue) : queue'[i] = queue[i]
  BY AppendProperties, LenProperties
<1>2. Len(queue) + 1 \in 1..Len(queue')
  BY <1>1
<1>3. \A i \in 1..Len(queue') : i = Len(queue) + 1 \/ i \in 1..Len(queue)
  BY <1>1
<1>4. 1..Len(queue) \subseteq 1..Len(queue')
  BY <1>1
<1> QED
  BY <1>1, <1>2, <1>3, <1>4 DEF Held, InQueue

\* A message is answered when it leaves the worker's hands or the channel.
LEMMA HeldStep == Inv /\ [Next]_vars => HeldInv'
<1> SUFFICES ASSUME Inv, [Next]_vars
             PROVE  HeldInv'
  OBVIOUS
<1>0. /\ HeldInv /\ CurrentInv
      /\ queue \in Seq(Requests) /\ current \in Requests \cup {NoRequest}
      /\ fut \in [Requests -> {"new", "awaiting", "returned", "cancelled"}]
      /\ reply \in [Requests -> {"none", "ok", "err", "dropped"}]
      /\ out \in [Requests -> {"none", "ok", "err", "closed"}]
      /\ done \in SUBSET Requests /\ NoRequest \notin Requests
  BY ConstantsAssumption DEF Inv, TypeOK
<1>1. ASSUME \A r \in Requests : Held(r)' <=> Held(r), UNCHANGED <<fut, reply, out, done>>
      PROVE  HeldInv'
  BY <1>1, <1>0 DEF HeldInv
<1>2. CASE Receive
  BY <1>1, <1>2, HeldOnReceive DEF Receive, callerVars
<1>3. ASSUME worker = "running", NEW rep \in {"ok", "err", "dropped"},
             reply' = [reply EXCEPT ![current] = rep], done' \subseteq done \cup {current},
             current' = NoRequest, UNCHANGED <<queue, fut, out>>
      PROVE  HeldInv'
  <2>1. current \in Requests /\ Held(current)
    BY <1>0, <1>3 DEF CurrentInv, Held
  <2>2. \A r \in Requests : Held(r)' <=> Held(r) /\ r # current
    BY <1>0, <1>3, <2>1, CurrentNotQueued DEF Held, InQueue
  <2> QED
    BY <1>0, <1>3, <2>1, <2>2 DEF HeldInv
<1>4. CASE ExecuteCall \/ StreamExhausted \/ StreamAbandoned
  BY <1>3, <1>4 DEF ExecuteCall, StreamExhausted, StreamAbandoned, Serving, Finish, callerVars
<1>5. CASE HandlerPanics
  BY <1>3, <1>5 DEF HandlerPanics, Serving, callerVars
<1>6. CASE DropReceiver
  <2>1. /\ current = NoRequest /\ queue' = <<>> /\ UNCHANGED <<current, fut, out, done>>
        /\ reply' = [r \in Requests |-> IF InQueue(r) THEN "dropped" ELSE reply[r]]
    BY <1>0, <1>6 DEF DropReceiver, CurrentInv, callerVars, history
  <2>2. \A r \in Requests : ~Held(r)' /\ (Held(r) <=> InQueue(r))
    BY <1>0, <2>1 DEF Held, InQueue
  <2> QED
    BY <1>0, <2>1, <2>2 DEF HeldInv
<1>7. ASSUME NEW r \in Requests, NEW h \in Handles, NEW k \in Kinds, Issue(r, h, k)
      PROVE  HeldInv'
  <2>1. fut[r] = "new" /\ ~Held(r) /\ UNCHANGED <<reply, done, current>>
    BY <1>0, <1>7 DEF Issue, HeldInv
  <2>2. CASE worker = "dead"
    <3>1. /\ UNCHANGED queue /\ fut' = [fut EXCEPT ![r] = "returned"]
          /\ out' = [out EXCEPT ![r] = Rejection(k)]
      BY <1>7, <2>2 DEF Issue
    <3>2. \A q \in Requests : Held(q)' <=> Held(q)
      BY <2>1, <3>1 DEF Held, InQueue
    <3> QED
      BY <1>0, <2>1, <3>1, <3>2 DEF HeldInv
  <2>3. CASE worker # "dead"
    <3>1. /\ queue' = Append(queue, r) /\ UNCHANGED out
          /\ fut' = [fut EXCEPT ![r] = "awaiting"]
      BY <1>7, <2>3 DEF Issue
    <3>2. \A q \in Requests : Held(q)' <=> Held(q) \/ q = r
      BY <1>0, <2>1, <3>1, HeldOnSend
    <3> QED
      BY <1>0, <2>1, <3>1, <3>2 DEF HeldInv
  <2> QED
    BY <2>2, <2>3
<1>8. ASSUME NEW r \in Requests, Answered(r) \/ Cancel(r)
      PROVE  HeldInv'
  <2>1. UNCHANGED <<queue, current, reply, done>> /\ \A q \in Requests : Held(q)' <=> Held(q)
    BY <1>8 DEF Answered, Return, StreamNext, StreamEnd, Cancel, history, Held, InQueue
  <2>2. CASE Return(r) \/ StreamEnd(r)
    <3>1. /\ reply[r] # "none" /\ fut' = [fut EXCEPT ![r] = "returned"] /\ fut[r] # "new"
          /\ \A q \in Requests \ {r} : out'[q] = out[q]
      BY <1>0, <2>2 DEF Return, StreamEnd
    <3> QED
      BY <1>0, <2>1, <3>1 DEF HeldInv
  <2>3. CASE StreamNext(r) \/ Cancel(r)
    BY <1>0, <2>1, <2>3 DEF StreamNext, Cancel, HeldInv
  <2> QED
    BY <1>8, <2>2, <2>3 DEF Answered
<1>9. CASE OpenStep \/ OpenerResumes \/ OpenerCancelled \/ HangUp \/ StreamItem \/ DropConnection
  BY <1>1, <1>9 DEF OpenStep, OpenFails, OpenSucceeds, ReportOpened, OpenerResumes,
                    OpenerCancelled, HangUp, StreamItem, DropConnection, callerVars, history,
                    Held, InQueue
<1>10. ASSUME NEW h \in Handles, (\E g \in Handles : CloneHandle(h, g)) \/ DropHandle(h)
       PROVE  HeldInv'
  BY <1>1, <1>10 DEF CloneHandle, DropHandle, callerVars, history, Held, InQueue
<1>11. CASE UNCHANGED vars
  BY <1>1, <1>11 DEF vars, Held, InQueue
<1> QED
  BY <1>2, <1>4, <1>5, <1>6, <1>7, <1>8, <1>9, <1>10, <1>11 DEF Next, ServeStep

\* A worker that leaves its loop without a panic has nobody left to serve.
LEMMA LeaveStep == Inv /\ [Next]_vars => LeaveInv'
<1> SUFFICES ASSUME Inv, [Next]_vars
             PROVE  LeaveInv'
  OBVIOUS
<1>0. /\ LeaveInv /\ CurrentInv
      /\ queue \in Seq(Requests) /\ live \in SUBSET Handles
      /\ worker \in {"opening", "opened", "idle", "running", "leaving", "dead"}
      /\ current # NoRequest => ran # <<>>
  BY DEF Inv, TypeOK, OrderInv
<1> USE DEF LeaveInv
<1>1. CASE OpenStep
  BY <1>0, <1>1 DEF OpenStep, OpenFails, OpenSucceeds, ReportOpened, openVars, history
<1>2. CASE OpenerResumes
  BY <1>0, <1>2 DEF OpenerResumes, history
<1>3. CASE OpenerCancelled
  BY <1>0, <1>3 DEF OpenerCancelled, history
<1>4. CASE Receive
  BY <1>0, <1>4 DEF Receive, openVars
<1>5. CASE HangUp
  BY <1>0, <1>5 DEF HangUp, openVars, history
<1>6. CASE ExecuteCall \/ StreamExhausted \/ StreamAbandoned
  BY <1>0, <1>6 DEF ExecuteCall, StreamExhausted, StreamAbandoned, Serving, Finish, openVars
<1>7. CASE HandlerPanics
  BY <1>0, <1>7 DEF HandlerPanics, Serving, CurrentInv, openVars
<1>8. CASE StreamItem \/ DropConnection
  BY <1>0, <1>8 DEF StreamItem, DropConnection, openVars, history
<1>9. CASE DropReceiver
  BY <1>0, <1>9 DEF DropReceiver, openVars, history
<1>10. ASSUME NEW h \in Handles, NEW g \in Handles, CloneHandle(h, g)
       PROVE  LeaveInv'
  BY <1>0, <1>10 DEF CloneHandle, Borrowable, openVars, history
<1>11. ASSUME NEW h \in Handles, DropHandle(h)
       PROVE  LeaveInv'
  BY <1>0, <1>11 DEF DropHandle, Movable, openVars, history
<1>12. ASSUME NEW r \in Requests, NEW h \in Handles, NEW k \in Kinds, Issue(r, h, k)
       PROVE  LeaveInv'
  <2>1. /\ h \in live /\ live' \subseteq live
        /\ UNCHANGED <<opener, openReply, worker, ran, panicked>>
    BY <1>12 DEF Issue, Movable, Borrowable, Released, openVars
  <2> QED
    BY <1>0, <2>1
<1>13. ASSUME NEW r \in Requests, Answered(r) \/ Cancel(r)
       PROVE  LeaveInv'
  <2>1. live' \subseteq live /\ UNCHANGED <<opener, openReply, worker, queue, ran, panicked>>
    BY <1>13 DEF Answered, Return, StreamNext, StreamEnd, Cancel, Released, openVars, history
  <2> QED
    BY <1>0, <2>1
<1>14. CASE UNCHANGED vars
  BY <1>0, <1>14 DEF vars
<1> QED
  BY <1>1, <1>2, <1>3, <1>4, <1>5, <1>6, <1>7, <1>8, <1>9, <1>10, <1>11, <1>12, <1>13,
     <1>14 DEF Next, ServeStep

\* A handle lives as long as a future uses it: handles are only dropped or
\* consumed when nobody else does.
LEMMA HandleStep == Inv /\ [Next]_vars => HandleInv'
<1> SUFFICES ASSUME Inv, [Next]_vars
             PROVE  HandleInv'
  OBVIOUS
<1>0. /\ HandleInv /\ LeaveInv
      /\ kind \in [Requests -> Kinds \cup {"none"}]
      /\ via \in [Requests -> Handles \cup {NoHandle}]
      /\ fut \in [Requests -> {"new", "awaiting", "returned", "cancelled"}]
  BY DEF Inv, TypeOK
<1>1. ASSUME live \subseteq live', UNCHANGED <<kind, via, fut>>
      PROVE  HandleInv'
  BY <1>0, <1>1 DEF HandleInv, Uses
<1>2. CASE OpenerResumes
  <2>1. live = {} /\ UNCHANGED <<kind, via, fut>>
    BY <1>0, <1>2 DEF OpenerResumes, LeaveInv, callerVars
  <2> QED
    BY <1>1, <2>1
<1>3. ASSUME NEW h \in Handles, NEW g \in Handles, CloneHandle(h, g)
      PROVE  HandleInv'
  BY <1>1, <1>3 DEF CloneHandle, callerVars
<1>4. ASSUME NEW h \in Handles, DropHandle(h)
      PROVE  HandleInv'
  <2>1. /\ live' = live \ {h} /\ UNCHANGED <<kind, via, fut>>
        /\ \A r \in Requests : ~Uses(r, h)
    BY <1>4 DEF DropHandle, Movable, callerVars
  <2> QED
    BY <1>0, <2>1 DEF HandleInv, Uses
<1>5. ASSUME NEW r \in Requests, NEW h \in Handles, NEW k \in Kinds, Issue(r, h, k)
      PROVE  HandleInv'
  <2>1. /\ fut[r] = "new" /\ h \in live
        /\ kind' = [kind EXCEPT ![r] = k] /\ via' = [via EXCEPT ![r] = h]
        /\ k \in Consuming => \A q \in Requests : ~Uses(q, h)
        /\ \A q \in Requests : Uses(q, h) => kind[q] \notin Consuming
    BY <1>5 DEF Issue, Movable, Borrowable
  <2>2. CASE worker = "dead"
    <3>1. fut' = [fut EXCEPT ![r] = "returned"] /\ live' = Released(k, h)
      BY <1>5, <2>2 DEF Issue
    <3>2. \A q \in Requests, g \in Handles : Uses(q, g)' =>
              q # r /\ Uses(q, g) /\ kind'[q] = kind[q]
      BY <1>0, <2>1, <3>1 DEF Uses
    <3>3. \A q \in Requests, g \in Handles : Uses(q, g) => g \in live'
      BY <1>0, <2>1, <3>1 DEF Released, HandleInv
    <3> QED
      BY <1>0, <3>2, <3>3 DEF HandleInv
  <2>3. CASE worker # "dead"
    <3>1. fut' = [fut EXCEPT ![r] = "awaiting"] /\ UNCHANGED live
      BY <1>5, <2>3 DEF Issue
    <3>2. /\ fut'[r] = "awaiting" /\ via'[r] = h /\ kind'[r] = k
          /\ \A q \in Requests \ {r} : /\ fut'[q] = fut[q] /\ via'[q] = via[q]
                                       /\ kind'[q] = kind[q]
      BY <1>0, <2>1, <3>1
    <3>3. \A q \in Requests \ {r}, g \in Handles : Uses(q, g)' <=> Uses(q, g)
      BY <3>2 DEF Uses
    <3>4. \A g \in Handles : Uses(r, g)' => g = h
      BY <3>2 DEF Uses
    <3> QED
      BY <1>0, <2>1, <3>1, <3>2, <3>3, <3>4 DEF HandleInv
  <2> QED
    BY <2>2, <2>3
<1>6. ASSUME NEW r \in Requests, Return(r) \/ StreamEnd(r) \/ Cancel(r)
      PROVE  HandleInv'
  <2>1. /\ fut[r] = "awaiting" /\ fut'[r] # "awaiting" /\ UNCHANGED <<kind, via>>
        /\ \A q \in Requests \ {r} : fut'[q] = fut[q]
        /\ live' = live \/ live' = Released(kind[r], via[r])
    BY <1>0, <1>6 DEF Return, StreamEnd, Cancel
  <2>2. \A q \in Requests, h \in Handles : Uses(q, h)' => q # r /\ Uses(q, h)
    BY <2>1 DEF Uses
  <2>3. ASSUME NEW q \in Requests \ {r}, NEW h \in Handles, Uses(q, h)
        PROVE  h \in live'
    <3>1. kind[r] \in Consuming => via[r] # h
      BY <1>0, <2>1, <2>3 DEF HandleInv, Uses, Consuming
    <3> QED
      BY <1>0, <2>1, <2>3, <3>1 DEF Released, HandleInv
  <2> QED
    BY <1>0, <2>1, <2>2, <2>3 DEF HandleInv
<1>7. ASSUME NEW r \in Requests, StreamNext(r)
      PROVE  HandleInv'
  BY <1>1, <1>7 DEF StreamNext
<1>8. CASE OpenStep \/ OpenerCancelled
  BY <1>1, <1>8 DEF OpenStep, OpenFails, OpenSucceeds, ReportOpened, OpenerCancelled, callerVars
<1>9. CASE ServeStep
  BY <1>1, <1>9 DEF ServeStep, Receive, HangUp, ExecuteCall, StreamItem, StreamExhausted,
                    StreamAbandoned, Finish, HandlerPanics, DropConnection, DropReceiver,
                    callerVars
<1>10. CASE UNCHANGED vars
  BY <1>1, <1>10 DEF vars
<1> QED
  BY <1>2, <1>3, <1>4, <1>5, <1>6, <1>7, <1>8, <1>9, <1>10 DEF Next, Answered

\* What a caller is told follows from how its reply channel ended, and that
\* from whether its closure ran.
LEMMA ReplyStep == Inv /\ [Next]_vars => ReplyInv'
<1> SUFFICES ASSUME Inv, [Next]_vars
             PROVE  ReplyInv'
  OBVIOUS
<1>0. /\ ReplyInv /\ HeldInv /\ LeaveInv /\ CurrentInv
      /\ current \in Requests \cup {NoRequest}
      /\ kind \in [Requests -> Kinds \cup {"none"}]
      /\ fut \in [Requests -> {"new", "awaiting", "returned", "cancelled"}]
      /\ reply \in [Requests -> {"none", "ok", "err", "dropped"}]
      /\ out \in [Requests -> {"none", "ok", "err", "closed"}]
      /\ done \in SUBSET Requests
  BY DEF Inv, TypeOK
<1>1. ASSUME \A r \in Requests : Held(r)' => Held(r), panicked => panicked',
             UNCHANGED <<kind, reply, out, done>>
      PROVE  ReplyInv'
  BY <1>0, <1>1 DEF ReplyInv
<1>2. CASE Receive
  BY <1>1, <1>2, HeldOnReceive DEF Receive, callerVars
<1>3. CASE ExecuteCall \/ StreamExhausted \/ StreamAbandoned
  <2>1. /\ worker = "running" /\ current' = NoRequest /\ done' = done \cup {current}
        /\ UNCHANGED <<queue, kind, out, panicked>>
        /\ \E rep \in {"ok", "err", "dropped"} :
               /\ reply' = [reply EXCEPT ![current] = rep]
               /\ rep = "dropped" => kind[current] = "stream"
    BY <1>3 DEF ExecuteCall, StreamExhausted, StreamAbandoned, Serving, Finish, callerVars
  <2>2. current \in Requests /\ Held(current)
    BY <1>0, <2>1 DEF CurrentInv, Held
  <2>3. reply[current] = "none" /\ out[current] = "none"
    BY <1>0, <2>2 DEF HeldInv
  <2>4. \A r \in Requests : Held(r)' => Held(r)
    BY <1>0, <2>1, CurrentNotQueued, ConstantsAssumption DEF Held, InQueue
  <2> QED
    BY <1>0, <2>1, <2>2, <2>3, <2>4 DEF ReplyInv
<1>4. CASE HandlerPanics
  <2>1. /\ worker = "running" /\ current' = NoRequest /\ panicked'
        /\ reply' = [reply EXCEPT ![current] = "dropped"]
        /\ UNCHANGED <<queue, kind, out, done>>
    BY <1>4 DEF HandlerPanics, Serving, callerVars
  <2>2. current \in Requests /\ Held(current)
    BY <1>0, <2>1 DEF CurrentInv, Held
  <2>3. current \notin done /\ out[current] = "none"
    BY <1>0, <2>2 DEF HeldInv
  <2>4. \A r \in Requests : Held(r)' => Held(r)
    BY <1>0, <2>1, ConstantsAssumption DEF Held, InQueue
  <2> QED
    BY <1>0, <2>1, <2>2, <2>3, <2>4 DEF ReplyInv
<1>5. CASE DropReceiver
  <2>1. /\ worker = "leaving" /\ queue' = <<>>
        /\ reply' = [r \in Requests |-> IF InQueue(r) THEN "dropped" ELSE reply[r]]
        /\ UNCHANGED <<current, kind, out, done, panicked>>
    BY <1>5 DEF DropReceiver, callerVars, history
  <2>2. \A r \in Requests : InQueue(r) => r \notin done /\ panicked
    BY <1>0, <2>1 DEF HeldInv, LeaveInv, Held, InQueue
  <2>3. \A r \in Requests : Held(r)' => Held(r)
    BY <2>1 DEF Held, InQueue
  <2> QED
    BY <1>0, <2>1, <2>2, <2>3 DEF ReplyInv
<1>6. ASSUME NEW r \in Requests, NEW h \in Handles, NEW k \in Kinds, Issue(r, h, k)
      PROVE  ReplyInv'
  <2>1. /\ fut[r] = "new" /\ h \in live /\ kind' = [kind EXCEPT ![r] = k]
        /\ UNCHANGED <<reply, done, current, panicked>>
    BY <1>6 DEF Issue, Movable, Borrowable
  <2>2. reply[r] = "none" /\ out[r] = "none" /\ r \notin done /\ ~Held(r)
    BY <1>0, <2>1 DEF HeldInv
  <2>3. CASE worker = "dead"
    <3>1. UNCHANGED queue /\ out' = [out EXCEPT ![r] = Rejection(k)]
      BY <1>6, <2>3 DEF Issue
    <3>2. panicked /\ \A q \in Requests : Held(q)' <=> Held(q)
      BY <1>0, <2>1, <2>3, <3>1 DEF LeaveInv, Held, InQueue
    <3>3. k \in {"call", "rows"} => Rejection(k) = "closed"
      BY DEF Rejection
    <3> QED
      BY <1>0, <2>1, <2>2, <3>1, <3>2, <3>3 DEF ReplyInv
  <2>4. CASE worker # "dead"
    <3>1. queue' = Append(queue, r) /\ UNCHANGED out
      BY <1>6, <2>4 DEF Issue
    <3>2. \A q \in Requests : Held(q)' <=> Held(q) \/ q = r
      BY <2>1, <3>1, HeldOnSend DEF Inv, TypeOK
    <3> QED
      BY <1>0, <2>1, <2>2, <3>1, <3>2 DEF ReplyInv
  <2> QED
    BY <2>3, <2>4
<1>7. ASSUME NEW r \in Requests, Return(r)
      PROVE  ReplyInv'
  <2>1. /\ kind[r] # "stream" /\ reply[r] # "none"
        /\ out' = [out EXCEPT ![r] = Verdict(kind[r], reply[r])]
        /\ UNCHANGED <<queue, current, kind, reply, done, panicked>>
    BY <1>7 DEF Return, history
  <2>2. Verdict(kind[r], reply[r]) = "closed" => reply[r] = "dropped"
    BY <1>0, <2>1 DEF Verdict, Rejection
  <2>3. kind[r] \in {"call", "rows"} /\ Verdict(kind[r], reply[r]) \in {"ok", "err"}
            => reply[r] \in {"ok", "err"}
    BY <1>0, <2>1 DEF Verdict, Rejection
  <2>4. ~Held(r) /\ \A q \in Requests : Held(q)' <=> Held(q)
    BY <1>0, <2>1 DEF HeldInv, Held, InQueue
  <2> QED
    BY <1>0, <2>1, <2>2, <2>3, <2>4 DEF ReplyInv
<1>8. ASSUME NEW r \in Requests, StreamEnd(r)
      PROVE  ReplyInv'
  <2>1. /\ kind[r] = "stream" /\ \E v \in {"ok", "err"} : out' = [out EXCEPT ![r] = v]
        /\ UNCHANGED <<queue, current, kind, reply, done, panicked>>
    BY <1>8 DEF StreamEnd, history
  <2>2. \A q \in Requests : Held(q)' <=> Held(q)
    BY <2>1 DEF Held, InQueue
  <2> QED
    BY <1>0, <2>1, <2>2 DEF ReplyInv
<1>9. ASSUME NEW r \in Requests, StreamNext(r) \/ Cancel(r)
      PROVE  ReplyInv'
  BY <1>1, <1>9 DEF StreamNext, Cancel, history, Held, InQueue
<1>10. CASE OpenStep \/ OpenerResumes \/ OpenerCancelled \/ HangUp \/ StreamItem \/ DropConnection
  BY <1>1, <1>10 DEF OpenStep, OpenFails, OpenSucceeds, ReportOpened, OpenerResumes,
                     OpenerCancelled, HangUp, StreamItem, DropConnection, callerVars, history,
                     Held, InQueue
<1>11. ASSUME NEW h \in Handles, (\E g \in Handles : CloneHandle(h, g)) \/ DropHandle(h)
       PROVE  ReplyInv'
  BY <1>1, <1>11 DEF CloneHandle, DropHandle, callerVars, history, Held, InQueue
<1>12. CASE UNCHANGED vars
  BY <1>1, <1>12 DEF vars, Held, InQueue
<1> QED
  BY <1>2, <1>3, <1>4, <1>5, <1>6, <1>7, <1>8, <1>9, <1>10, <1>11, <1>12
     DEF Next, ServeStep, Answered

\* Received messages other than the last are done unless a handler panicked, and
\* none of them is a close.
LEMMA RanStep == Inv /\ [Next]_vars => RanInv' /\ CloseInv'
<1> SUFFICES ASSUME Inv, [Next]_vars
             PROVE  RanInv' /\ CloseInv'
  OBVIOUS
<1>0. /\ RanInv /\ CloseInv /\ CurrentInv /\ LeaveInv
      /\ ran \in Seq(Requests) /\ Len(ran) \in Nat
      /\ \A i \in 1..Len(ran) : ran[i] \in Requests /\ fut[ran[i]] # "new"
      /\ current # NoRequest => Len(ran) > 0 /\ current = ran[Len(ran)]
      /\ kind \in [Requests -> Kinds \cup {"none"}]
      /\ worker \in {"opening", "opened", "idle", "running", "leaving", "dead"}
      /\ NoRequest \notin Requests
  <2>1. /\ Len(ran) \in Nat /\ Len(accepted) \in Nat /\ Len(queue) \in Nat
        /\ \A i \in 1..Len(ran) : ran[i] \in Requests
    BY LenProperties, ElementOfSeq DEF Inv, TypeOK
  <2>2. \A i \in 1..Len(ran) : fut[ran[i]] # "new"
    BY <2>1 DEF Inv, OrderInv, DistinctInv
  <2> QED
    BY <2>1, <2>2, ConstantsAssumption DEF Inv, TypeOK, OrderInv
<1>1. ASSUME worker' = worker \/ worker' \in {"leaving", "dead"}
             \/ worker \in {"opening", "opened"} \/ worker' = "running",
             UNCHANGED <<ran, current, done, panicked, kind>>
      PROVE  RanInv' /\ CloseInv'
  <2>1. RanInv'
    BY <1>0, <1>1 DEF RanInv
  <2>2. worker \in {"opening", "opened"} => Len(ran) = 0
    BY <1>0 DEF LeaveInv
  <2>3. CloseInv'
    BY <1>0, <1>1, <2>2 DEF CloseInv
  <2> QED
    BY <2>1, <2>3
<1>2. CASE Receive
  <2>1. /\ worker = "idle" /\ worker' = "running" /\ queue # <<>>
        /\ current' = Head(queue) /\ ran' = Append(ran, Head(queue))
        /\ UNCHANGED <<kind, done, panicked>>
    BY <1>2 DEF Receive, callerVars
  <2>2. Head(queue) \in Requests
    BY <2>1, HeadTailProperties DEF Inv, TypeOK
  <2>3. /\ Len(ran') = Len(ran) + 1 /\ ran'[Len(ran) + 1] = current'
        /\ \A i \in 1..Len(ran) : ran'[i] = ran[i]
    BY <1>0, <2>1, <2>2, AppendProperties
  <2>4. \A i \in 1..Len(ran) : kind[ran[i]] # "close"
    BY <1>0, <2>1 DEF CloseInv
  <2>5. ~panicked => \A i \in 1..Len(ran) : ran[i] \in done
    BY <1>0, <2>1 DEF RanInv, CurrentInv
  <2>6. \A i \in 1..Len(ran') : i = Len(ran') \/ i \in 1..Len(ran)
    BY <1>0, <2>3
  <2>7. RanInv'
    BY <2>1, <2>3, <2>5, <2>6 DEF RanInv
  <2>8. CloseInv'
    BY <2>1, <2>3, <2>4, <2>6 DEF CloseInv
  <2> QED
    BY <2>7, <2>8
<1>3. CASE ExecuteCall \/ StreamExhausted \/ StreamAbandoned
  <2>1. /\ worker = "running" /\ kind[current] # "close" /\ worker' = "idle"
        /\ current' = NoRequest /\ done' = done \cup {current}
        /\ UNCHANGED <<ran, kind, panicked>>
    BY <1>3 DEF ExecuteCall, StreamExhausted, StreamAbandoned, Serving, Finish, callerVars
  <2>2. RanInv'
    BY <1>0, <2>1 DEF RanInv
  <2>3. \A i \in 1..Len(ran) : kind[ran[i]] # "close"
    BY <1>0, <2>1 DEF CloseInv, CurrentInv
  <2>4. CloseInv'
    BY <2>1, <2>3 DEF CloseInv
  <2> QED
    BY <2>2, <2>4
<1>4. CASE HandlerPanics
  <2>1. panicked' /\ worker' = "leaving" /\ UNCHANGED <<ran, kind>>
    BY <1>4 DEF HandlerPanics, Serving, callerVars
  <2> QED
    BY <1>0, <2>1 DEF RanInv, CloseInv
<1>5. ASSUME NEW r \in Requests, NEW h \in Handles, NEW k \in Kinds, Issue(r, h, k)
      PROVE  RanInv' /\ CloseInv'
  <2>1. /\ fut[r] = "new" /\ kind' = [kind EXCEPT ![r] = k]
        /\ UNCHANGED <<worker, ran, current, done, panicked>>
    BY <1>5 DEF Issue
  <2>2. \A i \in 1..Len(ran) : kind'[ran[i]] = kind[ran[i]]
    BY <1>0, <2>1
  <2>3. RanInv'
    BY <1>0, <2>1 DEF RanInv
  <2>4. CloseInv'
    BY <1>0, <2>1, <2>2 DEF CloseInv
  <2> QED
    BY <2>3, <2>4
<1>6. CASE OpenStep \/ OpenerResumes \/ OpenerCancelled \/ HangUp \/ StreamItem
           \/ DropConnection \/ DropReceiver
  BY <1>1, <1>6 DEF OpenStep, OpenFails, OpenSucceeds, ReportOpened, OpenerResumes,
                    OpenerCancelled, HangUp, StreamItem, DropConnection, DropReceiver,
                    callerVars, history
<1>7. ASSUME NEW h \in Handles, (\E g \in Handles : CloneHandle(h, g)) \/ DropHandle(h)
      PROVE  RanInv' /\ CloseInv'
  BY <1>1, <1>7 DEF CloneHandle, DropHandle, callerVars, history
<1>8. ASSUME NEW r \in Requests, Answered(r) \/ Cancel(r)
      PROVE  RanInv' /\ CloseInv'
  BY <1>1, <1>8 DEF Answered, Return, StreamNext, StreamEnd, Cancel, history
<1>9. CASE UNCHANGED vars
  BY <1>1, <1>9 DEF vars
<1> QED
  BY <1>2, <1>3, <1>4, <1>5, <1>6, <1>7, <1>8, <1>9 DEF Next, ServeStep

-----------------------------------------------------------------------------
(* The theorems.                                                           *)

\* The inductive invariant holds of every reachable state.
THEOREM Invariance == Spec => []Inv
<1>1. Init => Inv
  <2> SUFFICES ASSUME Init
               PROVE  Inv
    OBVIOUS
  <2>1. TypeOK /\ CurrentInv
    BY InitTypes DEF TypeInv
  <2>2. Len(ran) = 0 /\ Len(queue) = 0 /\ Len(accepted) = 0
    BY DEF Init
  <2>3. OrderInv /\ DistinctInv /\ RanInv /\ CloseInv
    BY <2>2 DEF Init, OrderInv, DistinctInv, RanInv, CloseInv
  <2>4. HeldInv /\ ReplyInv /\ HandleInv
    BY <2>2, ConstantsAssumption DEF Init, HeldInv, ReplyInv, HandleInv, Held, InQueue, Uses
  <2>5. LeaveInv
    BY DEF Init, LeaveInv
  <2> QED
    BY <2>1, <2>3, <2>4, <2>5 DEF Inv
<1>2. Inv /\ [Next]_vars => Inv'
  <2>1. Inv /\ [Next]_vars => TypeOK' /\ CurrentInv'
    BY TypeStep DEF Inv, TypeInv
  <2> QED
    BY <2>1, OrderStep, DistinctStep, HeldStep, ReplyStep, HandleStep, LeaveStep, RanStep
       DEF Inv
<1> QED
  BY <1>1, <1>2, PTL DEF Spec

\* Messages are served in the order they were sent, each at most once.
THEOREM SendOrder == Spec => []ServedInSendOrder
<1>1. Inv => ServedInSendOrder
  <2> SUFFICES ASSUME Inv
               PROVE  ServedInSendOrder
    OBVIOUS
  <2>1. Len(ran) \in Nat /\ Len(queue) \in Nat /\ Len(accepted) \in Nat
    BY LenProperties DEF Inv, TypeOK
  <2>2. \A i \in 1..Len(ran) : i \in 1..Len(accepted) /\ ran[i] = accepted[i]
    BY <2>1 DEF Inv, OrderInv
  <2>3. ASSUME NEW i \in 1..Len(ran), NEW j \in 1..Len(ran), ran[i] = ran[j]
        PROVE  i = j
    BY <2>2, <2>3 DEF Inv, DistinctInv
  <2>4. Len(ran) <= Len(accepted)
    BY <2>1 DEF Inv, OrderInv
  <2> QED
    BY <2>2, <2>3, <2>4 DEF ServedInSendOrder
<1> QED
  BY <1>1, Invariance, PTL

\* Ok, Err and ConnectionClosed say truly whether the closure was run.
THEOREM Truthfulness == Spec => []AnswersAreTruthful
<1>1. Inv => AnswersAreTruthful
  BY DEF Inv, ReplyInv, AnswersAreTruthful
<1> QED
  BY <1>1, Invariance, PTL

\* ConnectionClosed is only ever seen after a handler panicked.
THEOREM ClosedByPanic == Spec => []ClosedOnlyAfterPanic
<1>1. Inv => ClosedOnlyAfterPanic
  BY DEF Inv, ReplyInv, ClosedOnlyAfterPanic
<1> QED
  BY <1>1, Invariance, PTL

\* A worker that ends because the last handle is gone has served every message.
THEOREM Drained == Spec => []GracefulDrain
<1>1. Inv => GracefulDrain
  <2> SUFFICES ASSUME Inv, worker = "dead", ~panicked, NEW i \in 1..Len(accepted)
               PROVE  accepted[i] \in done
    BY DEF GracefulDrain
  <2>1. Len(ran) \in Nat /\ Len(accepted) = Len(ran)
    BY LenProperties DEF Inv, TypeOK, OrderInv
  <2>2. accepted[i] = ran[i] /\ current = NoRequest
    BY <2>1 DEF Inv, OrderInv, CurrentInv
  <2>3. ran[i] \in Requests
    BY <2>1, ElementOfSeq DEF Inv, TypeOK
  <2> QED
    BY <2>1, <2>2, <2>3, ConstantsAssumption DEF Inv, RanInv
<1> QED
  BY <1>1, Invariance, PTL

\* Nothing is served after a close, on behalf of any handle.
THEOREM CloseBarrier == Spec => []CloseIsLast
<1>1. Inv => CloseIsLast
  BY DEF Inv, CloseInv, CloseIsLast
<1> QED
  BY <1>1, Invariance, PTL

\* No caller waits for a worker that is gone.
THEOREM NoneStranded == Spec => []NobodyIsStranded
<1>1. Inv => NobodyIsStranded
  <2> SUFFICES ASSUME Inv, worker = "dead", NEW r \in Requests, fut[r] = "awaiting"
               PROVE  reply[r] # "none"
    BY DEF NobodyIsStranded
  <2>1. current = NoRequest /\ Len(queue) = 0
    BY DEF Inv, CurrentInv, OrderInv
  <2>2. ~Held(r)
    BY <2>1, ConstantsAssumption DEF Held, InQueue
  <2> QED
    BY <2>2 DEF Inv, HeldInv
<1> QED
  BY <1>1, Invariance, PTL

\* Replies and outcomes are never revised.
THEOREM RepliesFinal == Spec => RepliesAreFinal
<1> DEFINE Final == \A r \in Requests : /\ reply[r] # "none" => reply'[r] = reply[r]
                                        /\ out[r] # "none" => out'[r] = out[r]
<1>1. Inv /\ [Next]_vars => Final
  <2> SUFFICES ASSUME Inv, [Next]_vars
               PROVE  Final
    OBVIOUS
  <2>0. /\ HeldInv /\ current \in Requests \cup {NoRequest}
        /\ reply \in [Requests -> {"none", "ok", "err", "dropped"}]
        /\ out \in [Requests -> {"none", "ok", "err", "closed"}]
    BY DEF Inv, TypeOK
  <2>1. ASSUME UNCHANGED out, NEW rep, reply' = [reply EXCEPT ![current] = rep]
        PROVE  Final
    BY <2>0, <2>1 DEF HeldInv, Held
  <2>2. CASE ExecuteCall \/ StreamExhausted \/ StreamAbandoned \/ HandlerPanics
    BY <2>1, <2>2 DEF ExecuteCall, StreamExhausted, StreamAbandoned, HandlerPanics, Serving,
                      Finish, callerVars
  <2>3. CASE DropReceiver
    <3>1. /\ reply' = [r \in Requests |-> IF InQueue(r) THEN "dropped" ELSE reply[r]]
          /\ UNCHANGED out
      BY <2>3 DEF DropReceiver, callerVars
    <3> QED
      BY <2>0, <3>1 DEF HeldInv, Held
  <2>4. ASSUME NEW r \in Requests, NEW h \in Handles, NEW k \in Kinds, Issue(r, h, k)
        PROVE  Final
    <3>1. fut[r] = "new" /\ UNCHANGED reply /\ \A q \in Requests \ {r} : out'[q] = out[q]
      BY <2>0, <2>4 DEF Issue
    <3> QED
      BY <2>0, <3>1 DEF HeldInv
  <2>5. ASSUME NEW r \in Requests, Answered(r) \/ Cancel(r)
        PROVE  Final
    <3>1. fut[r] = "awaiting" /\ UNCHANGED reply /\ \A q \in Requests \ {r} : out'[q] = out[q]
      BY <2>0, <2>5 DEF Answered, Return, StreamNext, StreamEnd, Cancel
    <3> QED
      BY <2>0, <3>1 DEF HeldInv
  <2>6. CASE UNCHANGED <<reply, out>>
    BY <2>6
  <2>7. CASE OpenStep \/ OpenerResumes \/ OpenerCancelled \/ Receive \/ HangUp
             \/ StreamItem \/ DropConnection
    BY <2>6, <2>7 DEF OpenStep, OpenFails, OpenSucceeds, ReportOpened, OpenerResumes,
                      OpenerCancelled, Receive, HangUp, StreamItem, DropConnection, callerVars
  <2>8. ASSUME NEW h \in Handles, (\E g \in Handles : CloneHandle(h, g)) \/ DropHandle(h)
        PROVE  Final
    BY <2>6, <2>8 DEF CloneHandle, DropHandle, callerVars
  <2>9. CASE UNCHANGED vars
    BY <2>6, <2>9 DEF vars
  <2> QED
    BY <2>2, <2>3, <2>4, <2>5, <2>7, <2>8, <2>9 DEF Next, ServeStep
<1> QED
  BY <1>1, Invariance, PTL DEF RepliesAreFinal, Spec
-----------------------------------------------------------------------------
(* The actor implements CallService, step by step.  What the mapping needs *)
(* beyond Inv is that a broken service is down: after a panic the worker   *)
(* never serves again.                                                     *)

Down == worker \in {"leaving", "dead"}
PanicInv == panicked => Down

\* The worker only leaves its loop forwards, and a panic makes it leave.
LEMMA PanicStep == Inv /\ PanicInv /\ [Next]_vars => PanicInv'
<1> SUFFICES ASSUME Inv, PanicInv, [Next]_vars
             PROVE  PanicInv'
  OBVIOUS
<1> USE DEF PanicInv, Down
<1>1. CASE OpenStep
  <2>1. ~panicked
    BY <1>1 DEF OpenStep, OpenFails, OpenSucceeds, ReportOpened
  <2> QED
    BY <1>1, <2>1 DEF OpenStep, OpenFails, OpenSucceeds, ReportOpened, history
<1>2. CASE Receive \/ HangUp \/ StreamItem
  BY <1>2 DEF Receive, HangUp, StreamItem, Serving, history
<1>3. CASE ExecuteCall \/ StreamExhausted \/ StreamAbandoned
  BY <1>3 DEF ExecuteCall, StreamExhausted, StreamAbandoned, Serving, Finish
<1>4. CASE HandlerPanics \/ DropConnection \/ DropReceiver
  BY <1>4 DEF HandlerPanics, Serving, DropConnection, DropReceiver, history
<1>5. CASE OpenerResumes \/ OpenerCancelled
  BY <1>5 DEF OpenerResumes, OpenerCancelled, history
<1>6. ASSUME NEW h \in Handles, (\E g \in Handles : CloneHandle(h, g)) \/ DropHandle(h)
      PROVE  PanicInv'
  BY <1>6 DEF CloneHandle, DropHandle, history
<1>7. ASSUME NEW r \in Requests, NEW h \in Handles, NEW k \in Kinds, Issue(r, h, k)
      PROVE  PanicInv'
  BY <1>7 DEF Issue
<1>8. ASSUME NEW r \in Requests, Answered(r) \/ Cancel(r)
      PROVE  PanicInv'
  BY <1>8 DEF Answered, Return, StreamNext, StreamEnd, Cancel, history
<1>9. CASE UNCHANGED vars
  BY <1>9 DEF vars
<1> QED
  BY <1>1, <1>2, <1>3, <1>4, <1>5, <1>6, <1>7, <1>8, <1>9 DEF Next, ServeStep

\* What the service counts as pending is what the channel or the worker holds.
LEMMA PendingIsHeld ==
    ASSUME TypeOK, NEW r \in Requests
    PROVE  Service!IsPending(r) <=> Held(r)
<1>1. queue \in Seq(Requests) /\ current \in Requests \cup {NoRequest} /\ r # NoRequest
  BY ConstantsAssumption DEF TypeOK
<1>2. CASE current = NoRequest
  BY <1>1, <1>2 DEF Service!IsPending, Serviced, Held, InQueue
<1>3. CASE current # NoRequest
  <2>1. <<current>> \in Seq(Requests) /\ Len(<<current>>) = 1 /\ <<current>>[1] = current
    BY <1>1, <1>3
  <2>2. /\ Len(Serviced) = Len(queue) + 1 /\ Serviced[1] = current /\ Len(queue) \in Nat
        /\ \A i \in 1..Len(queue) : Serviced[i + 1] = queue[i]
    BY <1>1, <1>3, <2>1, ConcatProperties, LenProperties DEF Serviced
  <2>3. ASSUME Held(r)
        PROVE  Service!IsPending(r)
    <3>1. CASE r = current
      BY <2>2, <3>1 DEF Service!IsPending
    <3>2. CASE InQueue(r)
      <4>1. PICK i \in 1..Len(queue) : queue[i] = r
        BY <3>2 DEF InQueue
      <4>2. i + 1 \in 1..Len(Serviced) /\ Serviced[i + 1] = r
        BY <2>2, <4>1
      <4> QED
        BY <4>2 DEF Service!IsPending
    <3> QED
      BY <2>3, <3>1, <3>2 DEF Held
  <2>4. ASSUME NEW i \in 1..Len(Serviced), Serviced[i] = r
        PROVE  Held(r)
    <3>1. CASE i = 1
      BY <2>2, <2>4, <3>1 DEF Held
    <3>2. CASE i # 1
      <4>1. i - 1 \in 1..Len(queue) /\ queue[i - 1] = r
        BY <2>2, <2>4, <3>2
      <4> QED
        BY <4>1 DEF Held, InQueue
    <3> QED
      BY <3>1, <3>2
  <2> QED
    BY <2>3, <2>4 DEF Service!IsPending
<1> QED
  BY <1>2, <1>3

\* A message that is sent joins the end of what is pending.
LEMMA ServicedOnSend ==
    ASSUME TypeOK, NEW r \in Requests, queue' = Append(queue, r), UNCHANGED current
    PROVE  Serviced' = Append(Serviced, r)
<1>1. queue \in Seq(Requests) /\ current \in Requests \cup {NoRequest}
  BY DEF TypeOK
<1>2. CASE current = NoRequest
  BY <1>2 DEF Serviced
<1>3. CASE current # NoRequest
  <2>1. <<current>> \in Seq(Requests) /\ <<r>> \in Seq(Requests)
    BY <1>1, <1>3
  <2>2. Append(queue, r) = queue \o <<r>>
    BY <1>1, AppendIsConcat
  <2>3. <<current>> \o (queue \o <<r>>) = (<<current>> \o queue) \o <<r>>
    BY <1>1, <2>1, ConcatAssociative
  <2>4. Append(<<current>> \o queue, r) = (<<current>> \o queue) \o <<r>>
    BY <1>1, <2>1, ConcatProperties, AppendIsConcat
  <2> QED
    BY <1>3, <2>2, <2>3, <2>4 DEF Serviced
<1> QED
  BY <1>2, <1>3

\* Receiving a message does not change what is pending.
LEMMA ServicedOnReceive == Inv /\ Receive => UNCHANGED Serviced
<1> SUFFICES ASSUME Inv, Receive
             PROVE  Serviced' = Serviced
  OBVIOUS
<1>1. /\ queue \in Seq(Requests) /\ queue # <<>> /\ current = NoRequest
      /\ queue' = Tail(queue) /\ current' = Head(queue)
  BY DEF Inv, TypeOK, CurrentInv, Receive
<1>2. /\ Head(queue) \in Requests /\ Tail(queue) \in Seq(Requests)
      /\ Len(Tail(queue)) = Len(queue) - 1 /\ Len(queue) \in Nat \ {0}
      /\ \A i \in 1..Len(Tail(queue)) : Tail(queue)[i] = queue[i + 1]
  BY <1>1, HeadTailProperties, EmptySeq
<1>3. /\ <<Head(queue)>> \in Seq(Requests) /\ Len(<<Head(queue)>>) = 1
      /\ <<Head(queue)>>[1] = queue[1]
  BY <1>1, <1>2
<1>4. <<Head(queue)>> \o Tail(queue) = queue
  <2> DEFINE s == <<Head(queue)>> \o Tail(queue)
  <2>1. /\ s \in Seq(Requests) /\ Len(s) = Len(queue)
        /\ \A i \in 1..Len(queue) : s[i] = IF i <= 1 THEN queue[1] ELSE Tail(queue)[i - 1]
    BY <1>2, <1>3, ConcatProperties
  <2>2. \A i \in 1..Len(s) : s[i] = queue[i]
    BY <1>2, <2>1
  <2> QED
    BY <1>1, <2>1, <2>2, SeqEqual
<1>5. current' # NoRequest
  BY <1>1, <1>2, ConstantsAssumption
<1> QED
  BY <1>1, <1>4, <1>5 DEF Serviced

\* The message being served is the oldest one pending.
LEMMA ServicedWhenRunning ==
    ASSUME Inv, worker = "running"
    PROVE  /\ current \in Requests /\ Serviced # <<>>
           /\ Head(Serviced) = current /\ Tail(Serviced) = queue
<1>1. current \in Requests /\ current # NoRequest /\ queue \in Seq(Requests)
  BY ConstantsAssumption DEF Inv, TypeOK, CurrentInv
<1>2. Serviced = <<current>> \o queue
  BY <1>1 DEF Serviced
<1> QED
  BY <1>1, <1>2

Answers == [r \in Requests |-> IF kind[r] \in Truthful THEN out[r] ELSE "none"]

\* A step that leaves worker, channel, done set and answers alone is a stutter.
LEMMA ServiceStutters ==
    ASSUME Down' = Down, UNCHANGED <<Serviced, done, Answers>>
    PROVE  UNCHANGED Service!serviceVars
BY DEF Service!serviceVars, Down, Answers

\* The answers do not change unless the kind or the outcome of a request does.
LEMMA SameAnswers ==
    ASSUME UNCHANGED <<kind, out>>
    PROVE  UNCHANGED Answers
BY DEF Answers

\* What a return or a rejection tells the caller of call or rows: the service
\* may tell it too.
LEMMA TellAllowed ==
    ASSUME Inv, PanicInv, NEW r \in Requests, NEW a \in {"ok", "err", "closed"},
           Answers[r] = "none", ~Held(r),
           IF a = "closed" THEN Down /\ r \notin done ELSE r \in done,
           Answers' = [Answers EXCEPT ![r] = a], Down' = Down, UNCHANGED <<Serviced, done>>
    PROVE  Service!ServiceNext
<1>1. ~Service!IsPending(r)
  BY PendingIsHeld DEF Inv
<1>2. Service!Tell(r, a)
  BY <1>1 DEF Service!Tell, Answers, Down
<1> QED
  BY <1>2 DEF Service!ServiceNext

\* The first poll: the service takes the call, or tells that it is closed.
LEMMA IssueServes ==
    ASSUME Inv, PanicInv, NEW r \in Requests, NEW h \in Handles, NEW k \in Kinds, Issue(r, h, k)
    PROVE  [Service!ServiceNext]_(Service!serviceVars)
<1>1. /\ fut[r] = "new" /\ h \in live /\ kind' = [kind EXCEPT ![r] = k]
      /\ UNCHANGED <<worker, current, done>>
  BY DEF Issue, Movable, Borrowable
<1>2. /\ out[r] = "none" /\ r \notin done /\ ~Held(r)
      /\ kind \in [Requests -> Kinds \cup {"none"}]
      /\ out \in [Requests -> {"none", "ok", "err", "closed"}]
  BY <1>1 DEF Inv, HeldInv, TypeOK
<1>3. Answers[r] = "none" /\ Down' = Down
  BY <1>1, <1>2 DEF Answers, Down
<1>4. CASE worker # "dead"
  <2>1. queue' = Append(queue, r) /\ UNCHANGED out
    BY <1>4 DEF Issue
  <2>2. Serviced' = Append(Serviced, r)
    BY <1>1, <2>1, ServicedOnSend DEF Inv
  <2>3. UNCHANGED Answers
    BY <1>1, <1>2, <2>1 DEF Answers
  <2>4. ~Service!IsPending(r)
    BY <1>2, PendingIsHeld DEF Inv
  <2>5. Service!Take(r)
    BY <1>1, <1>2, <1>3, <2>2, <2>3, <2>4 DEF Service!Take, Answers, Down
  <2> QED
    BY <2>5 DEF Service!ServiceNext
<1>5. CASE worker = "dead"
  <2>1. UNCHANGED queue /\ out' = [out EXCEPT ![r] = Rejection(k)]
    BY <1>5 DEF Issue
  <2>2. UNCHANGED Serviced
    BY <1>1, <2>1 DEF Serviced
  <2>3. CASE k \in Truthful
    <3>1. Rejection(k) = "closed"
      BY <2>3 DEF Rejection, Truthful
    <3>2. Answers' = [Answers EXCEPT ![r] = "closed"]
      BY <1>1, <1>2, <2>1, <2>3, <3>1 DEF Answers
    <3>3. Down
      BY <1>5 DEF Down
    <3> QED
      BY <1>1, <1>2, <1>3, <2>2, <3>2, <3>3, TellAllowed
  <2>4. CASE k \notin Truthful
    <3>1. UNCHANGED Answers
      BY <1>1, <1>2, <2>1, <2>4 DEF Answers
    <3> QED
      BY <1>1, <1>3, <2>2, <3>1, ServiceStutters
  <2> QED
    BY <2>3, <2>4
<1> QED
  BY <1>4, <1>5

\* A reply that arrives at its caller is told by the service.
LEMMA ReturnServes ==
    ASSUME Inv, PanicInv, NEW r \in Requests, Return(r)
    PROVE  [Service!ServiceNext]_(Service!serviceVars)
<1>1. /\ fut[r] = "awaiting" /\ reply[r] # "none"
      /\ out' = [out EXCEPT ![r] = Verdict(kind[r], reply[r])]
      /\ UNCHANGED <<worker, queue, current, kind, done>>
  BY DEF Return, history
<1>2. /\ out[r] = "none" /\ ~Held(r)
      /\ reply[r] \in {"ok", "err"} => r \in done
      /\ reply[r] = "dropped" /\ kind[r] # "stream" => r \notin done /\ panicked
      /\ reply \in [Requests -> {"none", "ok", "err", "dropped"}]
      /\ out \in [Requests -> {"none", "ok", "err", "closed"}]
  BY <1>1 DEF Inv, HeldInv, ReplyInv, TypeOK
<1>3. Answers[r] = "none" /\ Down' = Down /\ UNCHANGED Serviced
  BY <1>1, <1>2 DEF Answers, Down, Serviced
<1>4. CASE kind[r] \in Truthful
  <2> DEFINE a == Verdict(kind[r], reply[r])
  <2>1. a = IF reply[r] = "dropped" THEN "closed" ELSE reply[r]
    BY <1>4 DEF Verdict, Rejection, Truthful
  <2>2. a \in {"ok", "err", "closed"} /\ IF a = "closed" THEN Down /\ r \notin done ELSE r \in done
    BY <1>1, <1>2, <1>4, <2>1 DEF Truthful, PanicInv
  <2>3. Answers' = [Answers EXCEPT ![r] = a]
    BY <1>1, <1>2, <1>4 DEF Answers
  <2> HIDE DEF a
  <2> QED
    BY <1>1, <1>2, <1>3, <2>2, <2>3, TellAllowed
<1>5. CASE kind[r] \notin Truthful
  <2>1. UNCHANGED Answers
    BY <1>1, <1>2, <1>5 DEF Answers
  <2> QED
    BY <1>1, <1>3, <2>1, ServiceStutters
<1> QED
  BY <1>4, <1>5

\* Every step of the actor is a step of the service, or invisible to it.
LEMMA ServiceStep ==
    Inv /\ PanicInv /\ [Next]_vars => [Service!ServiceNext]_(Service!serviceVars)
<1> SUFFICES ASSUME Inv, PanicInv, [Next]_vars
             PROVE  [Service!ServiceNext]_(Service!serviceVars)
  OBVIOUS
<1>0. /\ kind \in [Requests -> Kinds \cup {"none"}] /\ NoRequest \notin Requests
      /\ worker = "running" <=> current # NoRequest
  BY ConstantsAssumption DEF Inv, TypeOK, CurrentInv
<1>1. ASSUME ~Down, Down', UNCHANGED <<queue, current, done, kind, out>>
      PROVE  Service!ServiceNext
  <2>1. UNCHANGED <<Serviced, Answers>>
    BY <1>1, SameAnswers DEF Serviced
  <2>2. Service!Stop
    BY <1>1, <2>1 DEF Service!Stop, Answers, Down
  <2> QED
    BY <2>2 DEF Service!ServiceNext
<1>2. ASSUME Down' = Down, UNCHANGED <<queue, current, done, kind, out>>
      PROVE  [Service!ServiceNext]_(Service!serviceVars)
  <2>1. UNCHANGED <<Serviced, Answers>>
    BY <1>2, SameAnswers DEF Serviced
  <2> QED
    BY <1>2, <2>1, ServiceStutters
<1>3. CASE OpenStep
  BY <1>1, <1>2, <1>3 DEF OpenStep, OpenFails, OpenSucceeds, ReportOpened, Down, callerVars,
                          history
<1>4. CASE Receive
  <2>1. Down' = Down /\ UNCHANGED <<done, kind, out>>
    BY <1>4 DEF Receive, Down, callerVars
  <2> QED
    BY <1>4, <2>1, ServicedOnReceive, SameAnswers, ServiceStutters
<1>5. CASE HangUp
  BY <1>1, <1>5 DEF HangUp, Down, callerVars, history
<1>6. CASE ExecuteCall \/ StreamExhausted \/ StreamAbandoned
  <2>1. /\ worker = "running" /\ worker' = "idle" /\ current' = NoRequest
        /\ done' = done \cup {current} /\ UNCHANGED <<queue, kind, out>>
    BY <1>6 DEF ExecuteCall, StreamExhausted, StreamAbandoned, Serving, Finish, callerVars
  <2>2. Serviced' = queue /\ UNCHANGED Answers
    BY <2>1, SameAnswers DEF Serviced
  <2>3. Service!CarryOut
    BY <2>1, <2>2, ServicedWhenRunning DEF Service!CarryOut, Answers
  <2> QED
    BY <2>3 DEF Service!ServiceNext
<1>7. CASE HandlerPanics
  <2>1. /\ worker = "running" /\ worker' = "leaving" /\ current' = NoRequest
        /\ UNCHANGED <<queue, done, kind, out>>
    BY <1>7 DEF HandlerPanics, Serving, callerVars
  <2>2. Serviced' = queue /\ UNCHANGED Answers
    BY <2>1, SameAnswers DEF Serviced
  <2>3. Service!Stop
    BY <2>1, <2>2, ServicedWhenRunning DEF Service!Stop, Answers
  <2> QED
    BY <2>3 DEF Service!ServiceNext
<1>8. CASE StreamItem \/ DropConnection
  BY <1>2, <1>8 DEF StreamItem, DropConnection, Down, callerVars, history
<1>9. CASE DropReceiver
  <2>1. /\ worker = "leaving" /\ worker' = "dead" /\ queue' = <<>>
        /\ UNCHANGED <<current, done, kind, out>>
    BY <1>9 DEF DropReceiver, callerVars, history
  <2>2. Serviced' = <<>> /\ UNCHANGED Answers
    BY <1>0, <2>1, SameAnswers DEF Serviced
  <2>3. Service!Discard
    BY <2>1, <2>2 DEF Service!Discard, Answers
  <2> QED
    BY <2>3 DEF Service!ServiceNext
<1>10. CASE OpenerResumes \/ OpenerCancelled
  BY <1>2, <1>10 DEF OpenerResumes, OpenerCancelled, Down, callerVars, history
<1>11. ASSUME NEW h \in Handles, (\E g \in Handles : CloneHandle(h, g)) \/ DropHandle(h)
       PROVE  [Service!ServiceNext]_(Service!serviceVars)
  BY <1>2, <1>11 DEF CloneHandle, DropHandle, Down, callerVars, history
<1>12. ASSUME NEW r \in Requests, NEW h \in Handles, NEW k \in Kinds, Issue(r, h, k)
       PROVE  [Service!ServiceNext]_(Service!serviceVars)
  BY <1>12, IssueServes
<1>13. ASSUME NEW r \in Requests, StreamNext(r) \/ Cancel(r)
       PROVE  [Service!ServiceNext]_(Service!serviceVars)
  BY <1>2, <1>13 DEF StreamNext, Cancel, Down, history
<1>14. ASSUME NEW r \in Requests, StreamEnd(r)
       PROVE  [Service!ServiceNext]_(Service!serviceVars)
  <2>1. /\ kind[r] = "stream" /\ \E v \in {"ok", "err"} : out' = [out EXCEPT ![r] = v]
        /\ UNCHANGED <<worker, queue, current, kind, done>>
    BY <1>14 DEF StreamEnd, history
  <2>2. UNCHANGED <<Answers, Serviced>> /\ Down' = Down
    BY <2>1 DEF Answers, Serviced, Truthful, Down
  <2> QED
    BY <2>1, <2>2, ServiceStutters
<1>15. ASSUME NEW r \in Requests, Return(r)
       PROVE  [Service!ServiceNext]_(Service!serviceVars)
  BY <1>15, ReturnServes
<1>16. CASE UNCHANGED vars
  BY <1>2, <1>16 DEF vars, Down
<1> QED
  BY <1>3, <1>4, <1>5, <1>6, <1>7, <1>8, <1>9, <1>10, <1>11, <1>12, <1>13, <1>14, <1>15,
     <1>16 DEF Next, ServeStep, Answered

\* The connection actor implements CallService: whatever handles, callers,
\* cancellations and panics do, callers of call and rows see a service that
\* serves in order, stops for good and tells the truth about each call.
THEOREM Implements == Spec => ImplementsService
<1>1. Init => Service!ServiceInit
  <2> SUFFICES ASSUME Init
               PROVE  Service!ServiceInit
    OBVIOUS
  <2>1. Serviced = <<>> /\ worker \notin {"leaving", "dead"} /\ done = {}
    BY DEF Init, Serviced
  <2>2. Answers = [r \in Requests |-> "none"]
    BY DEF Init, Answers
  <2> QED
    BY <2>1, <2>2 DEF Service!ServiceInit, Answers
<1>2. Init => PanicInv
  BY DEF Init, PanicInv
<1> QED
  BY <1>1, <1>2, Invariance, PanicStep, ServiceStep, PTL
     DEF Spec, ImplementsService, Service!ServiceSpec
=============================================================================
