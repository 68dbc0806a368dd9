------------------------ MODULE MCProjectMigration -------------------------
(* ProjectMigration on small instances. *)
EXTENDS ProjectMigration
=============================================================================
