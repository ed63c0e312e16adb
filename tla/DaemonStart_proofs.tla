-------------------------- MODULE DaemonStart_proofs --------------------------
(* Theorems of DaemonEndpoint and DaemonStart, for any daemons, clients,     *)
(* migrations and ages of the database: what holds of the endpoint; that the *)
(* start with its database is a start as DaemonEndpoint has it, so that it   *)
(* holds there too; and that no race between starts leaves a daemon that     *)
(* serves a database without its tables.                                     *)
EXTENDS DaemonStart, TLAPS

-------------------------------------------------------------------------------
(* The endpoint: DaemonEndpoint, for any numbers of daemons and clients *)

\* A start that has seen the path free, or has freed it, finds it taken only
\* by a daemon that has begun to listen since.
FreeUnlessOverlapped ==
    \A d \in Daemons :
        proc[d] \in {"opening", "binding"} /\ path # Nothing => overlapped[d] # {}

\* A start that has found a socket stale finds it live only if its owner has
\* begun to listen since.
StaleUnlessOverlapped ==
    \A d \in Daemons : proc[d] = "unlinking" /\ Active => path \in overlapped[d]

IInv ==
    /\ TypeOK
    /\ StaleOnlyAfterDeath
    /\ ServedWithDatabase
    /\ InUseIsReal
    /\ FreeUnlessOverlapped
    /\ StaleUnlessOverlapped

LEMMA InitIInv == Init => IInv
  BY PathAssumption DEF Init, IInv, TypeOK, StaleOnlyAfterDeath, ServedWithDatabase,
     InUseIsReal, FreeUnlessOverlapped, StaleUnlessOverlapped, Active,
     Stages, Starting, Ended

\* A step that only moves one start on, to a stage the path allows.
LEMMA StartStep ==
    ASSUME IInv, NEW d \in Daemons,
           Start(d) \/ Lstat(d) \/ Probe(d) \/ OpenDatabase(d)
    PROVE  IInv'
<1> USE DEF Move, Stages, Starting, Ended, Active
<1>1. TypeOK'
  BY DEF IInv, TypeOK, Start, Lstat, Probe, OpenDatabase
<1>2. StaleOnlyAfterDeath'
  BY DEF IInv, TypeOK, StaleOnlyAfterDeath, Start, Lstat, Probe, OpenDatabase
<1>3. ServedWithDatabase'
  BY DEF IInv, TypeOK, ServedWithDatabase, Start, Lstat, Probe, OpenDatabase
<1>4. InUseIsReal'
  BY DEF IInv, TypeOK, InUseIsReal, Start, Lstat, Probe, OpenDatabase
<1>5. FreeUnlessOverlapped'
  BY DEF IInv, TypeOK, FreeUnlessOverlapped, Start, Lstat, Probe, OpenDatabase
<1>6. StaleUnlessOverlapped'
  BY DEF IInv, TypeOK, StaleUnlessOverlapped, Start, Lstat, Probe, OpenDatabase
<1> QED BY <1>1, <1>2, <1>3, <1>4, <1>5, <1>6 DEF IInv

LEMMA UnlinkStep ==
    ASSUME IInv, NEW d \in Daemons, Unlink(d)
    PROVE  IInv'
<1> USE PathAssumption DEF Move, Stages, Starting, Ended, Active
<1>1. TypeOK'
  BY DEF IInv, TypeOK, Unlink
<1>2. StaleOnlyAfterDeath' /\ FreeUnlessOverlapped' /\ StaleUnlessOverlapped'
  BY DEF StaleOnlyAfterDeath, FreeUnlessOverlapped, StaleUnlessOverlapped, Unlink
<1>3. ServedWithDatabase'
  BY DEF IInv, TypeOK, ServedWithDatabase, Unlink
<1>4. InUseIsReal'
  BY DEF IInv, TypeOK, InUseIsReal, Unlink
<1> QED BY <1>1, <1>2, <1>3, <1>4 DEF IInv

\* Whoever is starting learns of a daemon that begins to listen.
LEMMA ListenStep ==
    ASSUME IInv, NEW d \in Daemons, Listen(d)
    PROVE  IInv'
<1> USE PathAssumption DEF Move, Stages, Starting, Ended, Active
<1>1. CASE path = Nothing
  <2> DEFINE Overtaken(e) == IF e # d /\ proc[e] \in Starting
                             THEN overlapped[e] \cup {d} ELSE overlapped[e]
  <2>1. /\ proc[d] = "binding" /\ proc' = [proc EXCEPT ![d] = "listening"]
        /\ path' = d /\ overlapped' = [e \in Daemons |-> Overtaken(e)]
        /\ UNCHANGED <<serving, connected>>
    BY <1>1 DEF Listen
  <2>2. /\ proc'[d] = "listening"
        /\ \A e \in Daemons \ {d} : proc'[e] = proc[e]
        /\ \A e \in Daemons : overlapped'[e] = Overtaken(e)
    BY <2>1 DEF IInv, TypeOK
  <2>3. \A e \in Daemons : Overtaken(e) \in SUBSET Daemons
    BY DEF IInv, TypeOK
  <2>4. \A e \in Daemons : /\ overlapped[e] \subseteq overlapped'[e]
                           /\ e # d /\ proc[e] \in Starting => d \in overlapped'[e]
    BY <2>2
  <2>5. TypeOK'
    BY <2>1, <2>3 DEF IInv, TypeOK
  <2>6. StaleOnlyAfterDeath'
    BY <2>1, <2>2 DEF StaleOnlyAfterDeath
  <2>7. ServedWithDatabase'
    BY <2>1, <2>2 DEF IInv, ServedWithDatabase
  <2>8. InUseIsReal'
    BY <2>2, <2>4 DEF IInv, InUseIsReal
  <2>9. FreeUnlessOverlapped'
    BY <2>1, <2>2, <2>4 DEF FreeUnlessOverlapped
  <2>10. StaleUnlessOverlapped'
    BY <2>1, <2>2, <2>4 DEF StaleUnlessOverlapped
  <2> QED BY <2>5, <2>6, <2>7, <2>8, <2>9, <2>10 DEF IInv
<1>2. CASE path # Nothing
  <2>1. TypeOK'
    BY <1>2 DEF IInv, TypeOK, Listen
  <2>2. StaleOnlyAfterDeath'
    BY <1>2 DEF IInv, TypeOK, StaleOnlyAfterDeath, Listen
  <2>3. ServedWithDatabase'
    BY <1>2 DEF IInv, TypeOK, ServedWithDatabase, Listen
  <2>4. InUseIsReal'
    BY <1>2 DEF IInv, TypeOK, InUseIsReal, FreeUnlessOverlapped, Listen
  <2>5. FreeUnlessOverlapped'
    BY <1>2 DEF IInv, TypeOK, FreeUnlessOverlapped, Listen
  <2>6. StaleUnlessOverlapped'
    BY <1>2 DEF IInv, TypeOK, StaleUnlessOverlapped, Listen
  <2> QED BY <2>1, <2>2, <2>3, <2>4, <2>5, <2>6 DEF IInv
<1> QED BY <1>1, <1>2

\* A daemon that was listening or closing moves on, or any daemon dies.
LEMMA LeaveStep ==
    ASSUME IInv, NEW d \in Daemons, Close(d) \/ FinishClose(d) \/ Die(d)
    PROVE  IInv'
<1> USE PathAssumption DEF Move, Stages, Starting, Ended, Active
<1>1. TypeOK'
  BY DEF IInv, TypeOK, Close, FinishClose, Die
<1>2. StaleOnlyAfterDeath'
  BY DEF IInv, TypeOK, StaleOnlyAfterDeath, Close, FinishClose, Die
<1>3. ServedWithDatabase'
  BY DEF IInv, TypeOK, ServedWithDatabase, Close, FinishClose, Die
<1>4. InUseIsReal'
  BY DEF IInv, TypeOK, InUseIsReal, Close, FinishClose, Die
<1>5. FreeUnlessOverlapped'
  BY DEF IInv, TypeOK, FreeUnlessOverlapped, Close, FinishClose, Die
<1>6. StaleUnlessOverlapped'
  BY DEF IInv, TypeOK, StaleUnlessOverlapped, Close, FinishClose, Die
<1> QED BY <1>1, <1>2, <1>3, <1>4, <1>5, <1>6 DEF IInv

LEMMA ClientStep ==
    ASSUME IInv, NEW c \in Clients, Request(c) \/ Disconnect(c) \/ Respond(c)
    PROVE  IInv'
<1> USE DEF Stages, Starting, Ended, Active
<1>1. TypeOK'
  BY DEF IInv, TypeOK, Request, Disconnect, Respond
<1>2. ServedWithDatabase'
  BY DEF IInv, TypeOK, ServedWithDatabase, Request, Disconnect, Respond
<1>3. (StaleOnlyAfterDeath /\ InUseIsReal /\ FreeUnlessOverlapped /\ StaleUnlessOverlapped)'
  BY DEF IInv, StaleOnlyAfterDeath, InUseIsReal, FreeUnlessOverlapped,
     StaleUnlessOverlapped, Request, Disconnect, Respond
<1> QED BY <1>1, <1>2, <1>3 DEF IInv

LEMMA NextIInv == IInv /\ [Next]_vars => IInv'
<1> SUFFICES ASSUME IInv, [Next]_vars PROVE IInv'
  OBVIOUS
<1>1. ASSUME NEW d \in Daemons, Start(d) \/ Progress(d) \/ Close(d) \/ Die(d)
      PROVE  IInv'
  BY <1>1, StartStep, UnlinkStep, ListenStep, LeaveStep DEF Progress
<1>2. ASSUME NEW c \in Clients, Request(c) \/ Disconnect(c) \/ Respond(c)
      PROVE  IInv'
  BY <1>2, ClientStep
<1>3. CASE UNCHANGED vars
  BY <1>3 DEF IInv, TypeOK, StaleOnlyAfterDeath, ServedWithDatabase, InUseIsReal,
     FreeUnlessOverlapped, StaleUnlessOverlapped, Active, vars
<1> QED BY <1>1, <1>2, <1>3 DEF Next

\* The inductive invariant of the daemons around one socket path: what a
\* start knows of the path, and whom it has been overtaken by since.
THEOREM EndpointInvariance == Spec => []IInv
  BY InitIInv, NextIInv, PTL DEF Spec

\* The type invariant of startDaemon(), close() and their clients.
THEOREM EndpointTypeCorrect == Spec => []TypeOK
<1>1. IInv => TypeOK
  BY DEF IInv
<1> QED BY <1>1, EndpointInvariance, PTL

\* Only a daemon that died leaves a socket nobody listens on: neither a start
\* that fails nor a close does.
THEOREM OnlyTheDeadLeaveSockets == Spec => []StaleOnlyAfterDeath
<1>1. IInv => StaleOnlyAfterDeath
  BY DEF IInv
<1> QED BY <1>1, EndpointInvariance, PTL

\* close() keeps the database open for every client that still waits.
THEOREM WaitingClientsAreServed == Spec => []ServedWithDatabase
<1>1. IInv => ServedWithDatabase
  BY DEF IInv
<1> QED BY <1>1, EndpointInvariance, PTL

\* EADDRINUSE is told only to a start that was overtaken by another one.
THEOREM RefusalsAreReal == Spec => []InUseIsReal
<1>1. IInv => InUseIsReal
  BY DEF IInv
<1> QED BY <1>1, EndpointInvariance, PTL

\* A listening daemon's path goes only to a start it overlapped with or to
\* the close of another listening daemon.
THEOREM LivePathsAreKept == Spec => TakenOnlyByOverlap
<1> DEFINE Taken == \A d \in Daemons :
          proc[d] = "listening" /\ path = d /\ path' # d /\ proc'[d] = "listening" =>
             \E e \in Daemons \ {d} :
                \/ proc[e] \in Starting /\ proc'[e] # proc[e] /\ d \in overlapped[e]
                \/ proc[e] = "listening" /\ proc'[e] = "closing"
<1>1. IInv /\ [Next]_vars => [Taken]_vars
  <2> SUFFICES ASSUME IInv, Next, NEW d \in Daemons,
                      proc[d] = "listening", path = d, path' # d,
                      proc'[d] = "listening"
               PROVE  \E e \in Daemons \ {d} :
                        \/ proc[e] \in Starting /\ proc'[e] # proc[e] /\ d \in overlapped[e]
                        \/ proc[e] = "listening" /\ proc'[e] = "closing"
    OBVIOUS
  <2>1. PICK e \in Daemons : Unlink(e) \/ Close(e)
    BY PathAssumption DEF Next, Progress, Start, Lstat, Probe, OpenDatabase, Listen,
       FinishClose, Die, Request, Disconnect, Respond
  <2>2. CASE Unlink(e)
    BY <2>2 DEF IInv, TypeOK, StaleUnlessOverlapped, Active, Unlink, Move, Starting
  <2>3. CASE Close(e)
    BY <2>3 DEF IInv, TypeOK, Close, Move
  <2> QED BY <2>1, <2>2, <2>3
<1> QED BY <1>1, EndpointInvariance, PTL DEF Spec, TakenOnlyByOverlap

-------------------------------------------------------------------------------
(* Refinement *)

\* What a start does in the database is OpenDatabase, or nothing to the endpoint.
LEMMA DatabaseSimulated ==
    ASSUME NEW d \in Daemons, DatabaseProgress(d)
    PROVE  OpenDatabase(d) \/ UNCHANGED vars
<1> USE DEF Opens, Goes, Fails, EndpointUnchanged, OpenDatabase, Move, vars
<1>1. CASE OpenSqlite(d)
  BY <1>1 DEF OpenSqlite
<1>2. CASE SelectChecksum(d)
  BY <1>2 DEF SelectChecksum
<1>3. CASE ApplyMigration(d)
  BY <1>3 DEF ApplyMigration, Applied
<1>4. CASE CheckDatabase(d)
  BY <1>4 DEF CheckDatabase
<1> QED BY <1>1, <1>2, <1>3, <1>4 DEF DatabaseProgress

LEMMA StepSimulated == [StartNext]_startVars => [Next]_vars
<1> SUFFICES ASSUME [StartNext]_startVars
             PROVE  [Next]_vars
    OBVIOUS
<1>1. CASE UNCHANGED startVars
  BY <1>1 DEF startVars, vars
<1>2. CASE EndpointStep
  BY <1>2 DEF EndpointStep, Next
<1>3. ASSUME NEW d \in Daemons, EndpointProgress(d)
      PROVE  [Next]_vars
  BY <1>3 DEF EndpointProgress, Progress, Next
<1>4. ASSUME NEW d \in Daemons, DatabaseProgress(d)
      PROVE  [Next]_vars
  BY <1>4, DatabaseSimulated DEF Progress, Next
<1> QED BY <1>1, <1>2, <1>3, <1>4 DEF StartNext, StartProgress

\* The start with its database implements the endpoint's start: whatever
\* openSqliteDatabase() and applyMigrations() meet is one of the two ends of
\* OpenDatabase.
THEOREM StartRefinesEndpoint == StartSpec => Spec
<1>1. StartInit => Init
  BY DEF StartInit
<1> QED BY <1>1, StepSimulated, PTL DEF StartSpec, Spec

\* A client that waits for its answer has a daemon whose database is open,
\* however the start of that daemon went (close() of startDaemon).
THEOREM StartServesWithDatabase == StartSpec => []ServedWithDatabase
  BY StartRefinesEndpoint, WaitingClientsAreServed, PTL

\* EADDRINUSE is told only to a start that another daemon overtook while it
\* was probing, migrating or waiting (prepareIpcEndpoint and listenOnIpc).
THEOREM StartRefusalsAreReal == StartSpec => []InUseIsReal
  BY StartRefinesEndpoint, RefusalsAreReal, PTL

\* A listening daemon loses its path only to a start that overlapped its own,
\* however long that start spends in the database, or to another's close.
THEOREM StartKeepsLivePaths == StartSpec => TakenOnlyByOverlap
  BY StartRefinesEndpoint, LivePathsAreKept, PTL

-------------------------------------------------------------------------------
(* The database *)

\* A migration has its tables exactly when it has its row.
RowsMeanTables == tables = {m \in DOMAIN schema : schema[m] # "none"}

\* A start that has not come to the database has done nothing there.
NothingBefore ==
    \A d \in Daemons :
        proc[d] \in {"off", "looking", "probing", "unlinking"} => migrating[d] = Closed

\* What a start has gone past is applied, as this build has it.
PassedAreApplied ==
    \A d \in Daemons : \A m \in DOMAIN schema : m < migrating[d].next => schema[m] = "applied"

\* Who has left the database has gone past all of it.
AllPassed ==
    \A d \in Daemons :
        proc[d] \in {"binding", "listening", "closing"} => migrating[d].next = Len(Migrations) + 1

\* A start about to apply a migration found it missing; it is there by now
\* only if another start has come between.
MissingUnlessLate ==
    \A d \in Daemons : Opens(d) /\ migrating[d].pc = "apply" =>
        /\ migrating[d].next \in 1 .. Len(Migrations)
        /\ migrating[d].next \in tables => d \in late

StartIInv ==
    /\ StartTypeOK
    /\ RowsMeanTables
    /\ NothingBefore
    /\ PassedAreApplied
    /\ AllPassed
    /\ MissingUnlessLate
    /\ FailsOnlyByRace

LEMMA InitStartIInv == StartInit => StartIInv
<1> SUFFICES ASSUME StartInit
             PROVE  StartIInv
    OBVIOUS
<1> USE MigrationsAssumption DEF StartInit, Closed
<1>1. TypeOK
  BY InitIInv DEF IInv
<1>2. schema \in [1 .. Len(Migrations) -> {"none", "applied", "other"}]
  OBVIOUS
<1>3. migrating \in [Daemons -> Migrating]
  BY DEF Migrating
<1>4. StartTypeOK
  BY <1>1, <1>2, <1>3 DEF StartTypeOK
<1>5. RowsMeanTables /\ NothingBefore /\ FailsOnlyByRace
  BY DEF RowsMeanTables, NothingBefore, FailsOnlyByRace
<1>6. PassedAreApplied
  BY <1>2 DEF PassedAreApplied
<1>7. AllPassed /\ MissingUnlessLate
  BY DEF Init, AllPassed, MissingUnlessLate
<1> QED BY <1>4, <1>5, <1>6, <1>7 DEF StartIInv

\* Steps that leave the database and the progress of the starts in it alone.
LEMMA EndpointKeeps ==
    ASSUME StartIInv, TypeOK', UNCHANGED databaseVars,
           \A d \in Daemons :
              /\ proc'[d] \in {"off", "looking", "probing", "unlinking"} =>
                    proc[d] \in {"off", "looking", "probing", "unlinking"}
              /\ proc'[d] = "opening" => proc[d] = "opening" \/ migrating[d] = Closed
              /\ proc'[d] \in {"binding", "listening", "closing"} =>
                    proc[d] \in {"binding", "listening", "closing"}
    PROVE  StartIInv'
<1> USE DEF databaseVars, StartIInv
<1>1. StartTypeOK'
  BY DEF StartTypeOK
<1>2. RowsMeanTables' /\ PassedAreApplied' /\ FailsOnlyByRace'
  BY DEF RowsMeanTables, PassedAreApplied, FailsOnlyByRace
<1>3. NothingBefore' /\ AllPassed'
  BY DEF NothingBefore, AllPassed
<1>4. MissingUnlessLate'
  BY DEF MissingUnlessLate, Opens, Closed
<1> QED BY <1>1, <1>2, <1>3, <1>4

LEMMA EndpointStepStartIInv ==
    ASSUME StartIInv, TypeOK',
           \/ EndpointStep
           \/ \E d \in Daemons : EndpointProgress(d) /\ UNCHANGED databaseVars
    PROVE  StartIInv'
<1>1. proc \in [Daemons -> Stages]
  BY DEF StartIInv, StartTypeOK, TypeOK
<1>2. UNCHANGED databaseVars
  BY DEF EndpointStep
<1> USE <1>1, <1>2, EndpointKeeps DEF Move
<1>3. ASSUME NEW d \in Daemons, Start(d) \/ Close(d) \/ Die(d)
      PROVE  StartIInv'
  BY <1>3 DEF Start, Close, Die
<1>4. ASSUME NEW c \in Clients, Request(c) \/ Disconnect(c) \/ Respond(c)
      PROVE  StartIInv'
  BY <1>4 DEF Request, Disconnect, Respond
<1>5. ASSUME NEW d \in Daemons, EndpointProgress(d)
      PROVE  StartIInv'
  <2>1. proc[d] \in {"looking", "unlinking"} => migrating[d] = Closed
    BY DEF StartIInv, NothingBefore
  <2>2. CASE Lstat(d)
    BY <2>1, <2>2 DEF Lstat
  <2>3. CASE Probe(d)
    BY <2>3 DEF Probe
  <2>4. CASE Unlink(d)
    BY <2>1, <2>4 DEF Unlink
  <2>5. CASE Listen(d)
    BY <2>5 DEF Listen
  <2>6. CASE FinishClose(d)
    BY <2>6 DEF FinishClose
  <2> QED BY <1>5, <2>2, <2>3, <2>4, <2>5, <2>6 DEF EndpointProgress
<1> QED BY <1>3, <1>4, <1>5 DEF EndpointStep

\* The start fails in the database: only a race may be to blame for "raced".
LEMMA FailsStartIInv ==
    ASSUME StartIInv, TypeOK', NEW d \in Daemons, Opens(d),
           NEW failure \in {"open", "checksum", "raced", "busy"},
           failure = "raced" => d \in late,
           Fails(d, failure), UNCHANGED <<schema, tables, late>>
    PROVE  StartIInv'
<1> USE DEF StartIInv, Fails, Opens
<1>0. proc \in [Daemons -> Stages] /\ migrating \in [Daemons -> Migrating]
  BY DEF StartTypeOK, TypeOK
<1>1. migrating' \in [Daemons -> Migrating]
  BY <1>0 DEF Migrating
<1>2. StartTypeOK'
  BY <1>1 DEF StartTypeOK
<1>3. \A e \in Daemons : migrating'[e].next = migrating[e].next
  BY <1>0 DEF Migrating
<1>4. RowsMeanTables' /\ PassedAreApplied'
  BY <1>3 DEF RowsMeanTables, PassedAreApplied
<1>5. NothingBefore'
  BY <1>0 DEF NothingBefore
<1>6. AllPassed'
  BY <1>0, <1>3 DEF AllPassed
<1>7. MissingUnlessLate'
  BY <1>0, <1>3 DEF MissingUnlessLate
<1>8. FailsOnlyByRace'
  BY <1>0 DEF FailsOnlyByRace, Migrating
<1> QED BY <1>2, <1>4, <1>5, <1>6, <1>7, <1>8

\* The start goes on: it has seen that all before the next is applied, and
\* that the next is missing if it is about to apply it.
LEMMA GoesStartIInv ==
    ASSUME StartIInv, TypeOK', NEW d \in Daemons, Opens(d),
           NEW pc \in {"select", "apply"}, NEW next \in 1 .. Len(Migrations) + 1,
           Goes(d, pc, next), UNCHANGED <<proc, schema, tables, late>>,
           \A m \in DOMAIN schema : m < next => schema[m] = "applied",
           pc = "apply" => next \in 1 .. Len(Migrations) /\ next \notin tables
    PROVE  StartIInv'
<1> USE DEF StartIInv, Goes, Opens
<1>0. proc \in [Daemons -> Stages] /\ migrating \in [Daemons -> Migrating]
  BY DEF StartTypeOK, TypeOK
<1>1. migrating' \in [Daemons -> Migrating]
  BY <1>0 DEF Migrating
<1>2. StartTypeOK'
  BY <1>1 DEF StartTypeOK
<1>3. /\ migrating'[d].next = next /\ migrating'[d].pc = pc
      /\ migrating'[d].failure = migrating[d].failure
      /\ \A e \in Daemons \ {d} : migrating'[e] = migrating[e]
  BY <1>0 DEF Migrating
<1>4. RowsMeanTables'
  BY DEF RowsMeanTables
<1>5. PassedAreApplied'
  BY <1>3 DEF PassedAreApplied
<1>6. NothingBefore' /\ AllPassed' /\ FailsOnlyByRace'
  BY <1>3 DEF NothingBefore, AllPassed, FailsOnlyByRace
<1>7. MissingUnlessLate'
  <2> SUFFICES ASSUME NEW e \in Daemons, Opens(e)', migrating'[e].pc = "apply"
               PROVE  /\ migrating'[e].next \in 1 .. Len(Migrations)
                      /\ migrating'[e].next \in tables' => e \in late'
      BY DEF MissingUnlessLate
  <2>1. CASE e = d
    BY <1>3, <2>1
  <2>2. CASE e # d
    <3>1. Opens(e) /\ migrating[e].pc = "apply" /\ migrating'[e].next = migrating[e].next
      BY <1>3, <2>2
    <3> QED BY <3>1 DEF MissingUnlessLate
  <2> QED BY <2>1, <2>2
<1> QED BY <1>2, <1>4, <1>5, <1>6, <1>7

\* The transaction: every start that is still in the database is late now.
LEMMA AppliedStartIInv ==
    ASSUME StartIInv, TypeOK', NEW d \in Daemons, Opens(d),
           NEW m \in 1 .. Len(Migrations), m = migrating[d].next, m \notin tables,
           Applied(d, m)
    PROVE  StartIInv'
<1> USE MigrationsAssumption DEF StartIInv, Applied, Goes
<1>0. /\ proc \in [Daemons -> Stages] /\ migrating \in [Daemons -> Migrating]
      /\ schema \in [1 .. Len(Migrations) -> {"none", "applied", "other"}]
  BY DEF StartTypeOK, TypeOK
<1>1. migrating' \in [Daemons -> Migrating]
  BY <1>0 DEF Migrating
<1>2. schema' \in [1 .. Len(Migrations) -> {"none", "applied", "other"}]
  BY <1>0
<1>3. StartTypeOK'
  BY <1>1, <1>2 DEF StartTypeOK
<1>4. /\ migrating'[d].next = m + 1 /\ migrating'[d].pc = "select"
      /\ migrating'[d].failure = migrating[d].failure
      /\ \A e \in Daemons \ {d} : migrating'[e] = migrating[e]
  BY <1>0 DEF Migrating
<1>5. /\ DOMAIN schema = 1 .. Len(Migrations) /\ DOMAIN schema' = DOMAIN schema
      /\ \A k \in DOMAIN schema : schema'[k] = IF k = m THEN "applied" ELSE schema[k]
  BY <1>0
<1>6. RowsMeanTables'
  BY <1>5 DEF RowsMeanTables
<1>7. PassedAreApplied'
  BY <1>0, <1>4, <1>5 DEF PassedAreApplied
<1>8. NothingBefore' /\ AllPassed' /\ FailsOnlyByRace'
  BY <1>4 DEF NothingBefore, AllPassed, FailsOnlyByRace, Opens
<1>9. MissingUnlessLate'
  <2> SUFFICES ASSUME NEW e \in Daemons, Opens(e)', migrating'[e].pc = "apply"
               PROVE  /\ migrating'[e].next \in 1 .. Len(Migrations)
                      /\ migrating'[e].next \in tables' => e \in late'
      BY DEF MissingUnlessLate
  <2>1. e # d
    BY <1>4
  <2>2. Opens(e) /\ migrating[e].pc = "apply" /\ migrating'[e].next = migrating[e].next
    BY <1>4, <2>1 DEF Opens
  <2> QED BY <2>1, <2>2 DEF MissingUnlessLate
<1> QED BY <1>3, <1>6, <1>7, <1>8, <1>9

LEMMA DatabaseStartIInv ==
    ASSUME StartIInv, TypeOK', NEW d \in Daemons, DatabaseProgress(d)
    PROVE  StartIInv'
<1> USE MigrationsAssumption
<1>0. /\ proc \in [Daemons -> Stages] /\ migrating \in [Daemons -> Migrating]
      /\ schema \in [1 .. Len(Migrations) -> {"none", "applied", "other"}]
  BY DEF StartIInv, StartTypeOK, TypeOK
<1>1. migrating[d].next \in 1 .. Len(Migrations) + 1
  BY <1>0 DEF Migrating
<1>2. \A m \in DOMAIN schema : m < migrating[d].next => schema[m] = "applied"
  BY DEF StartIInv, PassedAreApplied
<1>3. CASE OpenSqlite(d)
  <2>1. Opens(d) /\ UNCHANGED <<schema, tables, late>>
    BY <1>3 DEF OpenSqlite
  <2>2. CASE Goes(d, "select", 1) /\ UNCHANGED proc
    BY <1>0, <2>1, <2>2, GoesStartIInv
  <2>3. CASE Fails(d, "open")
    BY <2>1, <2>3, FailsStartIInv
  <2> QED BY <1>3, <2>2, <2>3 DEF OpenSqlite
<1>4. CASE SelectChecksum(d)
  <2> DEFINE m == migrating[d].next
  <2>1. Opens(d) /\ UNCHANGED <<schema, tables, late>> /\ m \in 1 .. Len(Migrations)
    BY <1>1, <1>4 DEF SelectChecksum
  <2>2. CASE schema[m] = "applied" /\ Goes(d, "select", m + 1) /\ UNCHANGED proc
    <3>1. \A k \in DOMAIN schema : k < m + 1 => schema[k] = "applied"
      BY <1>0, <1>1, <1>2, <2>2
    <3>2. m + 1 \in 1 .. Len(Migrations) + 1
      BY <2>1
    <3> HIDE DEF m
    <3> QED BY <2>1, <2>2, <3>1, <3>2, GoesStartIInv
  <2>3. CASE schema[m] = "other" /\ Fails(d, "checksum")
    BY <2>1, <2>3, FailsStartIInv
  <2>4. CASE schema[m] = "none" /\ Goes(d, "apply", m) /\ UNCHANGED proc
    <3>1. m \notin tables
      BY <2>4 DEF StartIInv, RowsMeanTables
    <3> QED BY <1>1, <1>2, <2>1, <2>4, <3>1, GoesStartIInv
  <2> QED BY <1>4, <2>2, <2>3, <2>4 DEF SelectChecksum
<1>5. CASE ApplyMigration(d)
  <2> DEFINE m == migrating[d].next
  <2>1. Opens(d) /\ m \in 1 .. Len(Migrations) /\ (m \in tables => d \in late)
    BY <1>5 DEF ApplyMigration, StartIInv, MissingUnlessLate
  <2>2. CASE Fails(d, "busy") /\ UNCHANGED <<schema, tables, late>>
    BY <2>1, <2>2, FailsStartIInv
  <2>3. CASE m \in tables /\ Fails(d, "raced") /\ UNCHANGED <<schema, tables, late>>
    BY <2>1, <2>3, FailsStartIInv
  <2>4. CASE m \notin tables /\ Applied(d, m)
    BY <2>1, <2>4, AppliedStartIInv
  <2> QED BY <1>5, <2>2, <2>3, <2>4 DEF ApplyMigration
<1>6. CASE CheckDatabase(d)
  <2> USE <1>0, <1>6 DEF CheckDatabase, OpenDatabase, Opens, Move, StartIInv
  <2>1. \A e \in Daemons \ {d} : proc'[e] = proc[e] /\ migrating'[e] = migrating[e]
    OBVIOUS
  <2>2. migrating'[d].next = Len(Migrations) + 1 /\ migrating'[d].failure # "raced"
    BY DEF Migrating
  <2>3. migrating' \in [Daemons -> Migrating]
    BY DEF Migrating
  <2>4. StartTypeOK'
    BY <2>3 DEF StartTypeOK
  <2>5. proc'[d] \in {"binding", "failed"}
    OBVIOUS
  <2> HIDE DEF CheckDatabase, OpenDatabase, Opens, Move
  <2>6. UNCHANGED <<schema, tables, late>> /\ migrating[d].next = Len(Migrations) + 1
    BY DEF CheckDatabase
  <2>7. RowsMeanTables'
    BY <2>6 DEF RowsMeanTables
  <2>8. PassedAreApplied'
    BY <2>1, <2>2, <2>6 DEF PassedAreApplied
  <2>9. NothingBefore' /\ AllPassed' /\ FailsOnlyByRace'
    BY <2>1, <2>2, <2>5, <2>6 DEF NothingBefore, AllPassed, FailsOnlyByRace
  <2>10. MissingUnlessLate'
    BY <2>1, <2>5, <2>6 DEF MissingUnlessLate, Opens
  <2> QED BY <2>4, <2>7, <2>8, <2>9, <2>10
<1> QED BY <1>3, <1>4, <1>5, <1>6 DEF DatabaseProgress

LEMMA NextStartIInv == StartIInv /\ TypeOK' /\ [StartNext]_startVars => StartIInv'
<1> SUFFICES ASSUME StartIInv, TypeOK', [StartNext]_startVars
             PROVE  StartIInv'
    OBVIOUS
<1>1. CASE UNCHANGED startVars
  <2>1. UNCHANGED databaseVars /\ UNCHANGED proc
    BY <1>1 DEF startVars, vars, databaseVars
  <2> QED BY <2>1, EndpointKeeps
<1>2. CASE StartNext
  BY <1>2, EndpointStepStartIInv, DatabaseStartIInv DEF StartNext, StartProgress
<1> QED BY <1>1, <1>2

\* The invariant of the starts in the database: rows and tables agree, a start
\* has passed only what is applied, and finds a migration done that it had
\* found missing only if another start came between.
THEOREM StartInvariance == StartSpec => []StartIInv
<1>1. StartSpec => []TypeOK
  BY StartRefinesEndpoint, EndpointTypeCorrect, PTL
<1> QED BY <1>1, InitStartIInv, NextStartIInv, PTL DEF StartSpec

\* Whoever serves has every migration, as its own build has it, however many
\* starts overlap and die (applyMigrations before listenOnIpc).
THEOREM StartServesMigrated == StartSpec => []ServesMigratedDatabase
<1>1. StartIInv => ServesMigratedDatabase
  <2> SUFFICES ASSUME StartIInv, NEW d \in Daemons,
                      proc[d] \in {"binding", "listening", "closing"},
                      NEW m \in DOMAIN schema
               PROVE  schema[m] = "applied" /\ m \in tables
      BY DEF ServesMigratedDatabase
  <2>1. m < migrating[d].next
    BY MigrationsAssumption DEF StartIInv, AllPassed, StartTypeOK
  <2>2. schema[m] = "applied"
    BY <2>1 DEF StartIInv, PassedAreApplied
  <2> QED BY <2>2 DEF StartIInv, RowsMeanTables
<1> QED BY <1>1, StartInvariance, PTL

\* A start fails in a migration's statements only because another start was
\* faster; nothing that a dead daemon left does it (the one transaction of
\* applyMigrations).
THEOREM StartFailsOnlyByRace == StartSpec => []FailsOnlyByRace
<1>1. StartIInv => FailsOnlyByRace
  BY DEF StartIInv
<1> QED BY <1>1, StartInvariance, PTL
================================================================================
