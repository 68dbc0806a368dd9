-------------------------- MODULE ProjectDatabase --------------------------
(***************************************************************************)
(* What operations and migrations together promise about the active        *)
(* database: committed facts are never lost, a schema change carries every *)
(* fact over, and while it is not decided whether a schema change stands   *)
(* (a rollback would restore the backup) no fact is committed.             *)
(***************************************************************************)
EXTENDS Naturals

VARIABLES
    facts,      \* number of committed fact transactions the database holds
    schema,     \* "source" before the migration, "target" after it
    settled     \* FALSE while a schema change may still be rolled back

dbVars == <<facts, schema, settled>>

DbInit == facts = 0 /\ schema = "source" /\ settled = TRUE

Commit == settled /\ facts' = facts + 1 /\ UNCHANGED <<schema, settled>>

Change ==
    /\ settled
    /\ schema' = "target"
    /\ settled' = FALSE
    /\ UNCHANGED facts

RollBack ==
    /\ ~settled
    /\ schema' = "source"
    /\ settled' = TRUE
    /\ UNCHANGED facts

Settle == ~settled /\ settled' = TRUE /\ UNCHANGED <<facts, schema>>

DbNext == Commit \/ Change \/ RollBack \/ Settle

DbSpec == DbInit /\ [][DbNext]_dbVars
=============================================================================
