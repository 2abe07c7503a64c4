---------------------- MODULE MCMigrationInTransactions ----------------------
(***************************************************************************)
(* MigrationInTransactions for TLC.                                        *)
(***************************************************************************)
EXTENDS MigrationInTransactions

MCScript == <<"create", "alter", "drop">>
MCNeeds == [create |-> {}, alter |-> {"create"}, drop |-> {"create"}]
MCUndoes == [create |-> {}, alter |-> {}, drop |-> {"create"}]
MCBroken == {}
=============================================================================
