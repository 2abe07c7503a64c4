---------------------------- MODULE MCConnection ----------------------------
(***************************************************************************)
(* Connection for TLC.  Handles and requests are interchangeable, so the   *)
(* safety runs quotient by their permutations; the liveness run must not.  *)
(***************************************************************************)
EXTENDS ConnectionRefinement, TLC

Symmetry == Permutations(Handles) \cup Permutations(Requests)
=============================================================================
