------------------------------ MODULE DaemonStart ------------------------------
(***************************************************************************)
(* startDaemon() with the database it opens: DaemonEndpoint, whose one     *)
(* step OpenDatabase is here what it is made of, SqliteDatabase and its    *)
(* applyMigrations() (packages/storage).                                   *)
(*                                                                         *)
(* The daemons of one path share one database file.  Each SELECT and each  *)
(* transaction of a start is a step: another process may come in between.  *)
(***************************************************************************)
EXTENDS DaemonEndpoint, Naturals, Sequences

CONSTANTS
    Migrations,     \* the migrations, in the order the starts apply them
    InitialSchemas  \* what schema_migrations may say when the daemons start

ASSUME MigrationsAssumption ==
    /\ Len(Migrations) \in Nat
    /\ InitialSchemas \subseteq [1 .. Len(Migrations) -> {"none", "applied", "other"}]

VARIABLES
    schema,     \* schema_migrations: not there, applied, or with another checksum
    migrating,  \* what each start does in the database
    tables,     \* the migrations whose tables the database has
    late        \* history: the starts that another one migrated the database under

databaseVars == <<schema, tables, migrating, late>>
startVars == <<vars, databaseVars>>

Closed == [pc |-> "closed", next |-> 1, failure |-> "none"]
Migrating ==
    [pc : {"closed", "select", "apply"}, next : 1 .. Len(Migrations) + 1,
     failure : {"none", "open", "checksum", "raced", "busy", "integrity"}]

StartTypeOK ==
    /\ TypeOK
    /\ schema \in [1 .. Len(Migrations) -> {"none", "applied", "other"}]
    /\ migrating \in [Daemons -> Migrating]
    /\ tables \subseteq 1 .. Len(Migrations)
    /\ late \subseteq Daemons

StartInit ==
    /\ Init
    /\ schema \in InitialSchemas
    /\ tables = {m \in DOMAIN schema : schema[m] # "none"}
    /\ migrating = [d \in Daemons |-> Closed]
    /\ late = {}

-------------------------------------------------------------------------------
(* The database of a start *)

Opens(d) == proc[d] = "opening" /\ migrating[d].failure = "none"
Goes(d, pc, next) == migrating' = [migrating EXCEPT ![d].pc = pc, ![d].next = next]

\* The error ends the start: the database is closed, the error thrown on.
Fails(d, failure) ==
    /\ migrating' = [migrating EXCEPT ![d].pc = "closed", ![d].failure = failure]
    /\ proc' = [proc EXCEPT ![d] = "failed"]

EndpointUnchanged == UNCHANGED <<path, serving, connected, overlapped>>

\* The connection, its durable settings, and CREATE TABLE IF NOT EXISTS.
OpenSqlite(d) ==
    /\ Opens(d) /\ migrating[d].pc = "closed"
    /\ \/ Goes(d, "select", 1) /\ UNCHANGED proc
       \/ Fails(d, "open")
    /\ UNCHANGED <<schema, tables, late>> /\ EndpointUnchanged

\* Mutant: the checksum is not compared.
SelectAnyChecksum(d) ==
    /\ Opens(d) /\ migrating[d].pc = "select" /\ migrating[d].next <= Len(Migrations)
    /\ IF schema[migrating[d].next] = "none" THEN Goes(d, "apply", migrating[d].next)
       ELSE Goes(d, "select", migrating[d].next + 1)
    /\ UNCHANGED <<proc, schema, tables, late>> /\ EndpointUnchanged

\* SELECT checksum, before the transaction: applied, changed since, or missing.
SelectChecksum(d) ==
    /\ Opens(d) /\ migrating[d].pc = "select" /\ migrating[d].next <= Len(Migrations)
    /\ LET m == migrating[d].next
       IN  \/ schema[m] = "applied" /\ Goes(d, "select", m + 1) /\ UNCHANGED proc
           \/ schema[m] = "other" /\ Fails(d, "checksum")
           \/ schema[m] = "none" /\ Goes(d, "apply", m) /\ UNCHANGED proc
    /\ UNCHANGED <<schema, tables, late>> /\ EndpointUnchanged

\* The start goes on after its own transaction; others that are still opening
\* come after it.
Applied(d, m) ==
    /\ tables' = tables \cup {m}
    /\ schema' = [schema EXCEPT ![m] = "applied"]
    /\ late' = late \cup {e \in Daemons \ {d} : Opens(e)}
    /\ Goes(d, "select", m + 1)
    /\ UNCHANGED proc

\* Mutant: two transactions; a death between them leaves tables without their row.
ApplyMigrationTorn(d) ==
    /\ Opens(d) /\ migrating[d].pc = "apply"
    /\ LET m == migrating[d].next
       IN  IF m \in tables THEN Fails(d, "raced") /\ UNCHANGED <<schema, tables, late>>
           ELSE \/ Applied(d, m)
                \/ /\ d \in Mortal
                   /\ tables' = tables \cup {m}
                   /\ Move(d, "dead")
                   /\ UNCHANGED <<schema, migrating, late>>
    /\ EndpointUnchanged

\* One immediate transaction: the migration's statements, which fail if they
\* were executed before, and its row.  A lock held for 5 s ends the start.
ApplyMigration(d) ==
    /\ Opens(d) /\ migrating[d].pc = "apply"
    /\ LET m == migrating[d].next
       IN  \/ Fails(d, "busy") /\ UNCHANGED <<schema, tables, late>>
           \/ m \in tables /\ Fails(d, "raced") /\ UNCHANGED <<schema, tables, late>>
           \/ m \notin tables /\ Applied(d, m)
    /\ EndpointUnchanged

\* The integrity check.  (What the start does to the rows of interrupted
\* operations is OperationJournal's.)
CheckDatabase(d) ==
    /\ Opens(d) /\ migrating[d].pc = "select" /\ migrating[d].next = Len(Migrations) + 1
    /\ OpenDatabase(d)
    /\ migrating' = IF proc'[d] = "failed"
                    THEN [migrating EXCEPT ![d].pc = "closed", ![d].failure = "integrity"]
                    ELSE migrating
    /\ UNCHANGED <<schema, tables, late>>

-------------------------------------------------------------------------------

EndpointProgress(d) == Lstat(d) \/ Probe(d) \/ Unlink(d) \/ Listen(d) \/ FinishClose(d)
DatabaseProgress(d) == OpenSqlite(d) \/ SelectChecksum(d) \/ ApplyMigration(d) \/ CheckDatabase(d)

StartProgress(d) ==
    \/ EndpointProgress(d) /\ UNCHANGED databaseVars
    \/ DatabaseProgress(d)

EndpointStep ==
    /\ \/ \E d \in Daemons : Start(d) \/ Close(d) \/ Die(d)
       \/ \E c \in Clients : Request(c) \/ Disconnect(c) \/ Respond(c)
    /\ UNCHANGED databaseVars

StartNext == EndpointStep \/ \E d \in Daemons : StartProgress(d)

StartSpec == StartInit /\ [][StartNext]_startVars

\* As in DaemonEndpoint: awaited calls return, and requests are answered.
StartFairSpec ==
    /\ StartSpec
    /\ \A d \in Daemons : WF_startVars(StartProgress(d))
    /\ \A c \in Clients : WF_startVars(Respond(c) /\ UNCHANGED databaseVars)

-------------------------------------------------------------------------------
(* Properties *)

\* A daemon serves only a database with every migration applied, each as this
\* build has it: one of another build is refused before the endpoint is taken,
\* and no start that overlaps slips past a migration (applyMigrations).
ServesMigratedDatabase ==
    \A d \in Daemons : proc[d] \in {"binding", "listening", "closing"} =>
        \A m \in DOMAIN schema : schema[m] = "applied" /\ m \in tables

\* A start fails in a migration's statements only if another start migrated
\* the database after this one had turned to it; what a dead daemon left never blocks a
\* start that is alone (the transaction of applyMigrations).
FailsOnlyByRace ==
    \A d \in Daemons : migrating[d].failure = "raced" => d \in late
================================================================================
