------------------------------ MODULE MCRuntime ------------------------------
(***************************************************************************)
(* Runtime for TLC, with a current-thread executor.                        *)
(***************************************************************************)
EXTENDS Runtime
=============================================================================
