---------------------------- MODULE MCMigration ----------------------------
(***************************************************************************)
(* Migration for TLC.  The script creates a table, alters it and drops it  *)
(* again, with a comment behind its last semicolon; two tables that have   *)
(* nothing to do with each other show the order of the statements.  Calls  *)
(* are interchangeable, and so are connections: the safety runs quotient by*)
(* it.                                                                     *)
(***************************************************************************)
EXTENDS Migration, TLC

MCScript == <<"create", "alter", "drop", "comment">>
MCNeeds == [create |-> {}, alter |-> {"create"}, drop |-> {}, comment |-> {}]
MCUndoes == [create |-> {}, alter |-> {}, drop |-> {"create"}, comment |-> {}]
MCBroken == {"comment"}

MCTables == <<"first", "second">>
MCUnrelated == [first |-> {}, second |-> {}]
MCSound == {}

Symmetry == Permutations(Calls) \cup Permutations(Connections)
=============================================================================
