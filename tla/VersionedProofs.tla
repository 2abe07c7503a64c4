--------------------------- MODULE VersionedProofs ---------------------------
(***************************************************************************)
(* Proofs about VersionedMigration: what holds however calls interleave,   *)
(* from Inv, and what holds when one program at a time migrates, from      *)
(* SoloInv.                                                                *)
(***************************************************************************)
EXTENDS VersionedMigration, TLAPS

\* A call that runs has everything behind its position executed.
LoopInv ==
    \A c \in Calls : status[c] = "running" =>
        at[c] > 0 /\ at[c] <= upto[c] + 1 /\ \A i \in 1..(at[c] - 1) : Executed(i)

Inv == TypeOK /\ VersionIsBacked /\ LoopInv /\ OkMeansExecuted

\* The lengths of lists, and what is compared with them, are numbers.
LEMMA Numbers ==
    ASSUME TypeOK
    PROVE  version \in Nat /\ \A c \in Calls : upto[c] \in Nat /\ at[c] \in Nat
<1>1. Releases \cup {0} \subseteq Nat
  BY VersionedAssumption DEF VersionedAssumption
<1>2. version \in Releases \cup {0} /\ \A c \in Calls : upto[c] \in Releases \cup {0} /\ at[c] \in Nat
  BY DEF TypeOK
<1> QED
  BY <1>1, <1>2

-----------------------------------------------------------------------------
(* Any number of calls at once.                                            *)

\* A step of one call, and of nothing else, keeps the invariant.
LEMMA StartStep ==
    ASSUME Inv, NEW c \in Calls, NEW u \in Releases, Start(c, u)
    PROVE  Inv'
<1> USE VersionedAssumption DEF VersionedAssumption, Inv, TypeOK
<1>1. TypeOK'
  BY DEF Start, Ends
<1>2. UNCHANGED <<version, executed>>
  BY DEF Start
<1>3. VersionIsBacked'
  BY <1>2 DEF VersionIsBacked, Executed
<1>4. LoopInv'
  BY <1>2 DEF LoopInv, VersionIsBacked, Executed, Start, Ends
<1>5. OkMeansExecuted'
  BY <1>2 DEF OkMeansExecuted, Executed, Start, Ends
<1> QED
  BY <1>1, <1>3, <1>4, <1>5

LEMMA ProgressStep ==
    ASSUME Inv, NEW c \in Calls, Progress(c)
    PROVE  Inv'
<1> USE VersionedAssumption DEF VersionedAssumption, Inv, TypeOK
<1>1. CASE Execute(c)
  <2>1. /\ at[c] \in Nat \ {0} /\ at[c] <= upto[c] /\ upto[c] \in Nat /\ status[c] = "running"
        /\ executed' = executed \cup {[migration |-> at[c], by |-> c]}
        /\ at' = [at EXCEPT ![c] = at[c] + 1] /\ UNCHANGED <<version, status, upto, solo>>
    <3>1. upto[c] \in Nat /\ at[c] \in Nat
      BY Numbers
    <3>2. at[c] > 0
      BY <1>1 DEF Execute, LoopInv
    <3>3. at[c] \in Nat \ {0}
      BY <3>1, <3>2
    <3> QED
      BY <1>1, <3>1, <3>3 DEF Execute
  <2>2. TypeOK'
    BY <2>1
  <2>3. (\E e \in executed' : e.migration = at[c]) /\ \A i \in Nat : Executed(i) => Executed(i)'
    <3> DEFINE new == [migration |-> at[c], by |-> c]
    <3>1. new.migration = at[c] /\ executed' = executed \cup {new}
      BY <2>1
    <3> HIDE DEF new
    <3>2. \E e \in executed' : e.migration = at[c]
      BY <3>1
    <3>3. executed \subseteq executed'
      BY <3>1
    <3> QED
      BY <2>1, <3>2, <3>3 DEF Executed
  <2>4. VersionIsBacked' /\ OkMeansExecuted'
    BY <2>1, <2>3 DEF VersionIsBacked, OkMeansExecuted
  <2>5. LoopInv'
    <3> SUFFICES ASSUME NEW d \in Calls, status[d] = "running"
                 PROVE  at'[d] > 0 /\ at'[d] <= upto[d] + 1 /\ \A i \in 1..(at'[d] - 1) : Executed(i)'
      BY <2>1 DEF LoopInv
    <3>1. CASE d # c
      BY <2>1, <2>3, <3>1 DEF LoopInv
    <3>2. CASE d = c
      <4>1. at'[c] = at[c] + 1 /\ \A i \in 1..(at[c] - 1) : Executed(i)'
        BY <2>1, <2>3 DEF LoopInv
      <4>2. \A i \in 1..at[c] : i \in 1..(at[c] - 1) \/ i = at[c]
        BY <2>1
      <4>3. \A i \in 1..at[c] : Executed(i)'
        <5>1. ASSUME NEW i \in 1..at[c], i = at[c]
              PROVE  Executed(i)'
          BY <2>3, <5>1 DEF Executed
        <5> QED
          BY <4>1, <4>2, <5>1
      <4>4. 1..(at'[c] - 1) = 1..at[c] /\ at'[c] > 0 /\ at'[c] <= upto[c] + 1
        BY <2>1, <4>1
      <4> QED
        BY <3>2, <4>3, <4>4
    <3> QED
      BY <3>1, <3>2
  <2> QED
    BY <2>2, <2>4, <2>5
<1>2. CASE SetVersion(c)
  <2>1. /\ status[c] = "running" /\ at[c] > upto[c]
        /\ version' = upto[c] /\ UNCHANGED <<executed, upto, at, solo>>
        /\ \E st \in {"ok", "panicked", "killed"} : status' = [status EXCEPT ![c] = st]
    BY <1>2 DEF SetVersion, Ends
  <2>2. \A i \in 1..upto[c] : Executed(i)
    <3>1. at[c] \in Nat /\ upto[c] \in Nat
      BY Numbers
    <3> QED
      BY <2>1, <3>1 DEF LoopInv
  <2> QED
    BY <2>1, <2>2 DEF VersionIsBacked, LoopInv, OkMeansExecuted, Executed
<1>3. CASE Stop(c)
  BY <1>3 DEF Stop, Ends, VersionIsBacked, LoopInv, OkMeansExecuted, Executed
<1> QED
  BY <1>1, <1>2, <1>3 DEF Progress

\* The version never promises more than was executed, however calls fail and
\* interleave, because a call only sets the version to its own length after it
\* has run everything beyond a version that was backed itself.
THEOREM Invariance == Spec => []Inv
<1>1. Init => Inv
  BY VersionedAssumption DEF VersionedAssumption, Init, Inv, TypeOK, VersionIsBacked, LoopInv, OkMeansExecuted
<1>2. Inv /\ [Next]_vars => Inv'
  <2>1. Inv /\ UNCHANGED vars => Inv'
    BY DEF vars, Inv, TypeOK, VersionIsBacked, LoopInv, OkMeansExecuted, Executed
  <2> QED
    BY <2>1, StartStep, ProgressStep DEF Next
<1> QED
  BY <1>1, <1>2, PTL DEF Spec

\* The variables of migrate have their types.
THEOREM TypeCorrect == Spec => []TypeOK
<1>1. Inv => TypeOK
  BY DEF Inv
<1> QED
  BY <1>1, Invariance, PTL

\* Every migration up to the version in the file has been executed.
THEOREM VersionBacked == Spec => []VersionIsBacked
<1>1. Inv => VersionIsBacked
  BY DEF Inv
<1> QED
  BY <1>1, Invariance, PTL

\* After an Ok every migration of the list has been executed.
THEOREM OkExecuted == Spec => []OkMeansExecuted
<1>1. Inv => OkMeansExecuted
  BY DEF Inv
<1> QED
  BY <1>1, Invariance, PTL

-----------------------------------------------------------------------------
(* One program at a time.                                                  *)

\* At most one call runs; the version stays below its position until it sets
\* it; what it executed lies between, what finished calls executed below.
SoloInv ==
    /\ TypeOK
    /\ \A c, d \in Calls : status[c] = "running" /\ status[d] = "running" => c = d
    /\ \A c \in Calls : status[c] = "running" =>
           /\ version <= upto[c] /\ version < at[c] /\ at[c] <= upto[c] + 1
           /\ \A e \in executed : e.by = c => e.migration > version /\ e.migration < at[c]
    /\ \A e \in executed : status[e.by] = "ok" => e.migration <= version
    /\ \A e \in executed : status[e.by] # "new"
    /\ solo /\ RepeatsAreExplained

LEMMA SoloStart ==
    ASSUME SoloInv, NEW c \in Calls, NEW u \in Releases, Start(c, u), Alone
    PROVE  SoloInv'
<1> USE VersionedAssumption DEF VersionedAssumption, SoloInv, TypeOK
<1>1. /\ status[c] = "new" /\ \A d \in Calls : status[d] # "running"
      /\ UNCHANGED <<version, executed, solo>> /\ upto' = [upto EXCEPT ![c] = u]
      /\ \A e \in executed : e.by \in Calls \ {c} /\ e.migration \in Nat \ {0}
  BY DEF Alone, Start
<1>2. /\ \/ version > u /\ status' = [status EXCEPT ![c] = "panicked"] /\ at' = at
         \/ version <= u /\ status' = [status EXCEPT ![c] = "running"] /\ at' = [at EXCEPT ![c] = version + 1]
      /\ version \in Nat /\ u \in Nat
  BY DEF Start, Ends
<1>3. TypeOK'
  BY <1>1, <1>2
<1>4. RepeatsAreExplained'
  BY <1>1, <1>2 DEF RepeatsAreExplained
<1> QED
  BY <1>1, <1>2, <1>3, <1>4

LEMMA SoloProgress ==
    ASSUME SoloInv, NEW c \in Calls, Progress(c)
    PROVE  SoloInv' /\ version' >= version
<1> USE VersionedAssumption DEF VersionedAssumption, SoloInv, TypeOK
<1>0. version \in Nat /\ \A d \in Calls : upto[d] \in Nat /\ at[d] \in Nat
  BY Numbers
<1>1. CASE Execute(c)
  <2> DEFINE new == [migration |-> at[c], by |-> c]
  <2>1. /\ status[c] = "running" /\ at[c] <= upto[c] /\ version < at[c]
        /\ executed' = executed \cup {new}
        /\ at' = [at EXCEPT ![c] = at[c] + 1] /\ UNCHANGED <<version, status, upto, solo>>
    BY <1>1 DEF Execute
  <2>2. new.by = c /\ new.migration = at[c] /\ new \in [migration : Nat \ {0}, by : Calls]
    BY <1>0, <2>1
  <2> HIDE DEF new
  <2>3. TypeOK'
    BY <2>1, <2>2
  <2>4. \A e \in executed : /\ e.migration = new.migration
                            /\ status[e.by] \in {"ok", "running"}
                            => FALSE
    BY <1>0, <2>1, <2>2
  <2>5. RepeatsAreExplained'
    BY <2>1, <2>4 DEF RepeatsAreExplained
  <2>6. \A d \in Calls : status[d] = "running" => d = c
    BY <2>1
  <2>7. \A e \in executed' : e.by = c => e.migration > version /\ e.migration < at'[c]
    BY <1>0, <2>1, <2>2
  <2> QED
    BY <1>0, <2>1, <2>2, <2>3, <2>5, <2>6, <2>7
<1>2. CASE SetVersion(c)
  <2>1. /\ status[c] = "running" /\ at[c] > upto[c] /\ version' = upto[c] /\ version <= upto[c]
        /\ \E st \in {"ok", "panicked", "killed"} : status' = [status EXCEPT ![c] = st]
        /\ UNCHANGED <<executed, upto, at, solo>>
    BY <1>2 DEF SetVersion, Ends
  <2>2. \A d \in Calls : status'[d] # "running"
    BY <2>1
  <2>3. \A e \in executed : e.by \in Calls /\ e.migration \in Nat
    OBVIOUS
  <2>4. \A e \in executed : status'[e.by] = "ok" => e.migration <= version'
    BY <1>0, <2>1, <2>3
  <2>5. RepeatsAreExplained'
    BY <2>1, <2>3 DEF RepeatsAreExplained
  <2> QED
    BY <1>0, <2>1, <2>2, <2>4, <2>5
<1>3. CASE Stop(c)
  <2>1. /\ \E st \in {"err", "panicked", "killed"} : status' = [status EXCEPT ![c] = st]
        /\ UNCHANGED <<version, executed, upto, at, solo>>
    BY <1>3 DEF Stop, Ends
  <2>2. \A e \in executed : e.by \in Calls
    OBVIOUS
  <2>3. RepeatsAreExplained'
    BY <2>1, <2>2 DEF RepeatsAreExplained
  <2> QED
    BY <1>0, <2>1, <2>2, <2>3
<1> QED
  BY <1>1, <1>2, <1>3 DEF Progress

\* What holds while no call began beside another; a step only loses it by
\* beginning one that does.
LEMMA SoloStep ==
    ASSUME TypeOK, solo => SoloInv, [Next]_vars
    PROVE  /\ solo' => SoloInv'
           /\ version' = version \/ (solo => version' >= version)
<1>1. CASE UNCHANGED vars
  BY <1>1 DEF vars, SoloInv, TypeOK, RepeatsAreExplained
<1>2. ASSUME NEW c \in Calls, NEW u \in Releases, Start(c, u)
      PROVE  (solo' => SoloInv') /\ version' = version
  BY <1>2, SoloStart DEF Start
<1>3. ASSUME NEW c \in Calls, Progress(c)
      PROVE  (solo' => SoloInv') /\ (solo => version' >= version)
  <2>1. solo' = solo
    BY <1>3 DEF Progress, Execute, SetVersion, Stop
  <2> QED
    BY <1>3, <2>1, SoloProgress
<1> QED
  BY <1>1, <1>2, <1>3 DEF Next

LEMMA SoloInvariance == Spec => [](solo => SoloInv)
<1>1. Init => (solo => SoloInv)
  BY VersionedAssumption DEF VersionedAssumption, Init, SoloInv, TypeOK, RepeatsAreExplained
<1>2. TypeOK /\ (solo => SoloInv) /\ [Next]_vars => (solo => SoloInv)'
  BY SoloStep
<1> QED
  BY <1>1, <1>2, TypeCorrect, PTL DEF Spec

\* One program at a time repeats a migration only after a call that did not
\* return Ok: what finished calls executed lies below the version, what the
\* running one executes lies above.
THEOREM RepeatsExplained == Spec => []RepeatsAreExplained
<1>1. (solo => SoloInv) => RepeatsAreExplained
  BY DEF SoloInv, RepeatsAreExplained
<1> QED
  BY <1>1, SoloInvariance, PTL

\* One program at a time never lowers the version: an older release panics.
THEOREM VersionMonotone == Spec => VersionNeverFalls
<1>1. TypeOK /\ (solo => SoloInv) /\ [Next]_vars => [solo => version' >= version]_version
  BY SoloStep
<1> QED
  BY <1>1, SoloInvariance, TypeCorrect, PTL DEF Spec, VersionNeverFalls
=============================================================================
