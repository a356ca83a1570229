------------------------- MODULE MCSchemaMigrations -------------------------
(* Small instances of SchemaMigrations. *)
EXTENDS SchemaMigrations

OneEnvironment == {"test"}
BothEnvironments == {"test", "production"}
=============================================================================
