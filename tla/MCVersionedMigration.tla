------------------------ MODULE MCVersionedMigration ------------------------
(***************************************************************************)
(* VersionedMigration for TLC.  Calls are interchangeable.                 *)
(***************************************************************************)
EXTENDS VersionedMigration, TLC

Symmetry == Permutations(Calls)
=============================================================================
