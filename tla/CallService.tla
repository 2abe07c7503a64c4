---------------------------- MODULE CallService ----------------------------
(***************************************************************************)
(* What the connection actor promises its callers, without worker, channels*)
(* or handles: a service that takes calls, serves them one at a time in the*)
(* order it took them, may stop for good at any moment, and answers each   *)
(* call truthfully.  Ok and Err mean the call was carried out, Closed that *)
(* it was not and never will be.                                           *)
(***************************************************************************)
EXTENDS Naturals, Sequences

CONSTANT Requests

VARIABLES up,      \* the service still serves
          pending, \* calls taken and neither carried out nor discarded
          carried, \* calls carried out
          answer   \* what callers were told

serviceVars == <<up, pending, carried, answer>>

IsPending(r) == \E i \in 1..Len(pending) : pending[i] = r

ServiceInit ==
    /\ up = TRUE
    /\ pending = <<>>
    /\ carried = {}
    /\ answer = [r \in Requests |-> "none"]

Take(r) ==
    /\ ~IsPending(r) /\ r \notin carried /\ answer[r] = "none"
    /\ pending' = Append(pending, r)
    /\ UNCHANGED <<up, carried, answer>>

\* Only the oldest call is carried out.
CarryOut ==
    /\ up
    /\ pending # <<>>
    /\ carried' = carried \cup {Head(pending)}
    /\ pending' = Tail(pending)
    /\ UNCHANGED <<up, answer>>

\* The service stops, on its own or by the oldest call breaking it.
Stop ==
    /\ up
    /\ up' = FALSE
    /\ \/ UNCHANGED pending
       \/ pending # <<>> /\ pending' = Tail(pending)
    /\ UNCHANGED <<carried, answer>>

Discard ==
    /\ ~up
    /\ pending' = <<>>
    /\ UNCHANGED <<up, carried, answer>>

Tell(r, a) ==
    /\ answer[r] = "none"
    /\ ~IsPending(r)
    /\ IF a = "closed" THEN ~up /\ r \notin carried ELSE r \in carried
    /\ answer' = [answer EXCEPT ![r] = a]
    /\ UNCHANGED <<up, pending, carried>>

ServiceNext ==
    \/ \E r \in Requests : Take(r)
    \/ CarryOut
    \/ Stop
    \/ Discard
    \/ \E r \in Requests, a \in {"ok", "err", "closed"} : Tell(r, a)

ServiceSpec == ServiceInit /\ [][ServiceNext]_serviceVars
=============================================================================
