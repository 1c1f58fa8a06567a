------------------------- MODULE MCMigrationGrants -------------------------
(* MigrationGrants with a few writes and lost replies.                     *)
EXTENDS MigrationGrants

=============================================================================
