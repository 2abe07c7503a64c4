---------------------------- MODULE MCStatements ----------------------------
(***************************************************************************)
(* Statements for TLC.  Connections and operations are interchangeable.    *)
(***************************************************************************)
EXTENDS Statements, TLC

Symmetry == Permutations(Connections) \cup Permutations(Ops)
=============================================================================
