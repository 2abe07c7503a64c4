------------------------ MODULE ConnectionRefinement ------------------------
(***************************************************************************)
(* The connection actor implements CallService: the call being served and  *)
(* the channel behind it are what is pending, a closure that ran to its end*)
(* carried its call out, and the service is up until the worker leaves its *)
(* receive loop.  Answers are those of call and rows: execute_all and close*)
(* report Ok whatever happened, and a stream has no single answer.         *)
(***************************************************************************)
EXTENDS Connection

Serviced == IF current = NoRequest THEN queue ELSE <<current>> \o queue

Truthful == {"call", "rows"}

Service == INSTANCE CallService WITH
    up      <- worker \notin {"leaving", "dead"},
    pending <- Serviced,
    carried <- done,
    answer  <- [r \in Requests |-> IF kind[r] \in Truthful THEN out[r] ELSE "none"]

\* Every step of the actor is a step of the service its callers were promised,
\* or changes nothing they can observe.
ImplementsService == Service!ServiceSpec
=============================================================================
