\* Three starts on one path and one database, two of which may die at any
\* point; one client.
SPECIFICATION StartFairSpec
CONSTANTS
    Daemons = {d1, d2, d3}
    Clients = {c1}
    Nothing = Nothing
    PlainFile = PlainFile
    Mortal = {d1, d2}
    Migrations <- MCMigrations
    InitialSchemas <- MCInitialSchemas
INVARIANTS ServedWithDatabase InUseIsReal ServesMigratedDatabase FailsOnlyByRace
PROPERTIES TakenOnlyByOverlap StartAndCloseEnd
CHECK_DEADLOCK FALSE
