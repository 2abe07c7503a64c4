------------------------- MODULE VersionedMigration -------------------------
(***************************************************************************)
(* static_sqlite_core::migrate: a list of closures, of which those beyond  *)
(* PRAGMA user_version are run, after which user_version becomes the length*)
(* of the list.  The savepoint around it is prepared and never stepped, so *)
(* each closure's effect is committed by itself and nothing is undone when *)
(* a later one fails.                                                      *)
(*                                                                         *)
(* Calls run on connections of their own to one file, in threads or        *)
(* processes; a release of the program has a prefix of the list.           *)
(***************************************************************************)
EXTENDS Naturals

CONSTANTS Calls,   \* calls of migrate; a retry is another call
          Releases \* lengths of the list in the releases of the program

ASSUME VersionedAssumption == Releases \subseteq Nat

VARIABLES version,  \* PRAGMA user_version
          executed, \* which closures ran to their end, and in which call
          status,   \* how each call stands
          upto,     \* the length of its list
          at        \* the closure it runs next

\* History: no call began while another ran.
VARIABLE solo

vars == <<version, executed, status, upto, at, solo>>

TypeOK ==
    /\ version \in Releases \cup {0}
    /\ executed \in SUBSET [migration : Nat \ {0}, by : Calls]
    /\ status \in [Calls -> {"new", "running", "ok", "err", "panicked", "killed"}]
    /\ upto \in [Calls -> Releases \cup {0}]
    /\ at \in [Calls -> Nat]
    /\ solo \in BOOLEAN

Init ==
    /\ version = 0
    /\ executed = {}
    /\ status = [c \in Calls |-> "new"]
    /\ upto = [c \in Calls |-> 0]
    /\ at = [c \in Calls |-> 0]
    /\ solo = TRUE

Alone == \A c \in Calls : status[c] # "running"

Ends(c, st) == status' = [status EXCEPT ![c] = st]

\* Mutants of Start: the slice starts one too early or too late; saturating
\* arithmetic instead of a slice that panics.
Start_TooEarly(c, u) ==
    /\ status[c] = "new"
    /\ upto' = [upto EXCEPT ![c] = u]
    /\ \/ version > u /\ Ends(c, "panicked") /\ UNCHANGED at
       \/ version <= u /\ Ends(c, "running") /\ at' = [at EXCEPT ![c] = version]
    /\ solo' = (solo /\ Alone)
    /\ UNCHANGED <<version, executed>>
Start_TooLate(c, u) ==
    /\ status[c] = "new"
    /\ upto' = [upto EXCEPT ![c] = u]
    /\ \/ version > u /\ Ends(c, "panicked") /\ UNCHANGED at
       \/ version <= u /\ Ends(c, "running") /\ at' = [at EXCEPT ![c] = version + 2]
    /\ solo' = (solo /\ Alone)
    /\ UNCHANGED <<version, executed>>
Start_Saturates(c, u) ==
    /\ status[c] = "new"
    /\ Ends(c, "running")
    /\ upto' = [upto EXCEPT ![c] = u]
    /\ at' = [at EXCEPT ![c] = IF version > u THEN u + 1 ELSE version + 1]
    /\ solo' = (solo /\ Alone)
    /\ UNCHANGED <<version, executed>>

\* The version is read; a list that is shorter cannot be sliced from there.
Start(c, u) ==
    /\ status[c] = "new"
    /\ upto' = [upto EXCEPT ![c] = u]
    /\ \/ version > u /\ Ends(c, "panicked") /\ UNCHANGED at
       \/ version <= u /\ Ends(c, "running") /\ at' = [at EXCEPT ![c] = version + 1]
    /\ solo' = (solo /\ Alone)
    /\ UNCHANGED <<version, executed>>

\* Mutant of Execute: the error of a closure is dropped.
Execute_Swallows(c) ==
    /\ status[c] = "running"
    /\ at[c] <= upto[c]
    /\ executed' \in {executed, executed \cup {[migration |-> at[c], by |-> c]}}
    /\ at' = [at EXCEPT ![c] = @ + 1]
    /\ UNCHANGED <<version, status, upto, solo>>

Execute(c) ==
    /\ status[c] = "running"
    /\ at[c] <= upto[c]
    /\ executed' = executed \cup {[migration |-> at[c], by |-> c]}
    /\ at' = [at EXCEPT ![c] = @ + 1]
    /\ UNCHANGED <<version, status, upto, solo>>

\* Mutant of SetVersion: set_user_version is not called.
SetVersion_Forgets(c) ==
    /\ status[c] = "running"
    /\ at[c] > upto[c]
    /\ Ends(c, "ok")
    /\ UNCHANGED <<version, executed, upto, at, solo>>

\* The version is written, then migrate returns.  The process may be killed in
\* between, or the Savepoint panics when it is dropped.
SetVersion(c) ==
    /\ status[c] = "running"
    /\ at[c] > upto[c]
    /\ version' = upto[c]
    /\ \E st \in {"ok", "panicked", "killed"} : Ends(c, st)
    /\ UNCHANGED <<executed, upto, at, solo>>

\* Preparing the savepoint, reading or writing the version or a closure fails;
\* a closure panics; the process is killed.
Stop(c) ==
    /\ status[c] \in {"new", "running"}
    /\ \E st \in {"err", "panicked", "killed"} : Ends(c, st)
    /\ UNCHANGED <<version, executed, upto, at, solo>>

Progress(c) == Execute(c) \/ SetVersion(c) \/ Stop(c)

Next == \E c \in Calls : Progress(c) \/ \E u \in Releases : Start(c, u)

Spec == Init /\ [][Next]_vars

-----------------------------------------------------------------------------
(* Properties.                                                             *)

Executed(i) == \E e \in executed : e.migration = i

\* The version in the file never promises a migration that has not been
\* executed, whatever fails, panics, is killed or runs at the same time.
VersionIsBacked == \A i \in 1..version : Executed(i)

\* migrate returned Ok: every migration of the list has been executed.
OkMeansExecuted ==
    \A c \in Calls : status[c] = "ok" => \A i \in 1..upto[c] : Executed(i)

\* One program at a time: the version never falls, an older release panics
\* before it could lower it.
VersionNeverFalls == [][solo => version' >= version]_version

\* One program at a time: a migration is repeated only when a call that had
\* executed it did not return Ok.
RepeatsAreExplained ==
    solo => \A e, f \in executed :
                /\ e.migration = f.migration
                /\ status[e.by] \in {"ok", "running"} /\ status[f.by] \in {"ok", "running"}
                => e = f
=============================================================================
