---------------------------- MODULE RuntimeProofs ----------------------------
(***************************************************************************)
(* For every number of threads: an executor only restricts when callers    *)
(* act, so all that ConnectionProofs shows holds under it, and a thread    *)
(* blocked in a stream is blocked on the worker.                           *)
(***************************************************************************)
EXTENDS Runtime, ConnectionProofs

\* Only waiting consumers are blocked.
BlockedInv == blocked \in SUBSET {r \in Requests : fut[r] = "awaiting"}

\* A step of the runtime is one of the connection actor, or blocks a task.
LEMMA StepMaps == RNext => [Next]_vars
<1> SUFFICES ASSUME RNext PROVE [Next]_vars
  OBVIOUS
<1>1. CASE Worker
  BY <1>1 DEF Worker, Next
<1>2. CASE OpenTask
  BY <1>2 DEF OpenTask, Next
<1>3. CASE Callers
  BY <1>3 DEF Callers, Next
<1>4. ASSUME NEW r \in Requests, Block(r) \/ Unblock(r) \/ Poll(r) \/ CancelTask(r)
      PROVE  [Next]_vars
  BY <1>4 DEF Block, Unblock, Poll, CancelTask, Answered, Next
<1>5. QED
  BY <1>1, <1>2, <1>3, <1>4 DEF RNext

\* The runtime implements the connection actor: whatever the theorems of
\* ConnectionProofs say of the actor is true of it on every executor
\* (static_sqlite_async as a whole).
THEOREM RuntimeImplements == RSpec => Spec
<1>1. RInit => Init
  BY DEF RInit
<1>2. [RNext]_runtimeVars => [Next]_vars
  BY StepMaps DEF runtimeVars, vars
<1>3. QED
  BY <1>1, <1>2, PTL DEF RSpec, Spec

\* Nothing ends the wait of a blocked consumer but its own recv().
LEMMA BlockedStep == TypeOK /\ BlockedInv /\ [RNext]_runtimeVars => BlockedInv'
<1> SUFFICES ASSUME TypeOK, BlockedInv, [RNext]_runtimeVars
             PROVE  BlockedInv'
  OBVIOUS
<1> USE DEF BlockedInv
<1>1. CASE Worker
  <2>1. UNCHANGED fut /\ UNCHANGED blocked
    BY <1>1 DEF Worker, OpenStep, OpenFails, OpenSucceeds, ReportOpened, ServeStep,
                Receive, HangUp, ExecuteCall, StreamItem, StreamExhausted, Finish,
                StreamAbandoned, HandlerPanics, DropConnection, DropReceiver, callerVars
  <2>2. QED
    BY <2>1
<1>2. CASE OpenTask
  BY <1>2 DEF OpenTask, OpenerResumes, callerVars
<1>3. CASE Callers
  <2>1. ASSUME NEW r \in Requests, NEW h \in Handles, NEW k \in Kinds, Issue(r, h, k),
               UNCHANGED blocked
        PROVE  BlockedInv'
    BY <2>1 DEF Issue, TypeOK
  <2>2. CASE UNCHANGED fut
    BY <2>2, <1>3 DEF Callers
  <2>3. QED
    BY <2>1, <2>2, <1>3 DEF Callers, OpenerCancelled, CloneHandle, DropHandle, callerVars
<1>4. ASSUME NEW r \in Requests, Block(r) PROVE BlockedInv'
  BY <1>4 DEF Block, vars
<1>5. ASSUME NEW r \in Requests, Unblock(r) PROVE BlockedInv'
  BY <1>5 DEF Unblock, StreamNext, StreamEnd, TypeOK
<1>6. ASSUME NEW r \in Requests, Poll(r) PROVE BlockedInv'
  BY <1>6 DEF Poll, Answered, Return, StreamNext, StreamEnd, TypeOK
<1>7. ASSUME NEW r \in Requests, CancelTask(r) PROVE BlockedInv'
  BY <1>7 DEF CancelTask, Cancel, TypeOK
<1>8. CASE UNCHANGED runtimeVars
  BY <1>8 DEF runtimeVars, vars
<1>9. QED
  BY <1>1, <1>2, <1>3, <1>4, <1>5, <1>6, <1>7, <1>8 DEF RNext

\* A waiting request is answered, or in the hands of a worker that lives.
LEMMA WaitsForWorker ==
    ASSUME Inv, NEW r \in Requests, fut[r] = "awaiting", reply[r] = "none"
    PROVE  worker \in {"idle", "running", "leaving"} /\ (InQueue(r) \/ current = r)
<1>1. InQueue(r) \/ current = r
  BY DEF Inv, HeldInv, Held
<1>2. CASE current = r
  BY <1>2, ConstantsAssumption DEF Inv, CurrentInv
<1>3. CASE InQueue(r)
  <2>1. queue # <<>>
    BY <1>3 DEF InQueue
  <2>2. worker \notin {"opening", "opened", "dead"}
    BY <2>1 DEF Inv, LeaveInv, OrderInv
  <2>3. QED
    BY <2>2, <1>3 DEF Inv, TypeOK
<1>4. QED
  BY <1>1, <1>2, <1>3

\* A blocked thread waits for the worker and for nothing else, on an executor of
\* any size (stream).
THEOREM BlockedByWorkerOnly == RSpec => []BlockedOnWorker
<1>1. RInit => BlockedInv
  BY DEF RInit, BlockedInv
<1>2. TypeOK /\ BlockedInv /\ [RNext]_runtimeVars => BlockedInv'
  BY BlockedStep
<1>3. Inv /\ BlockedInv => BlockedOnWorker
  BY WaitsForWorker DEF BlockedInv, BlockedOnWorker
<1>4. Inv => TypeOK
  BY DEF Inv
<1>5. QED
  BY <1>1, <1>2, <1>3, <1>4, RuntimeImplements, Invariance, PTL DEF RSpec
=============================================================================
