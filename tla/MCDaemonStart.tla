----------------------------- MODULE MCDaemonStart -----------------------------
(* A small instance of DaemonStart. *)
EXTENDS DaemonStart

\* A new database, one from before the last migration, a current one, and one
\* that another build has migrated.
MCMigrations == <<"journal", "registry">>
MCInitialSchemas ==
    {<<"none", "none">>, <<"applied", "none">>, <<"applied", "applied">>, <<"applied", "other">>}
================================================================================
