--------------------------- MODULE WorkspaceRegistry ---------------------------
(***************************************************************************)
(* The checkout half of WorkspaceRegistry (packages/workspace): open(),    *)
(* which gives the directory a path leads to a durable handle, and get(),  *)
(* which looks at the directory again whenever the handle is used.         *)
(*                                                                         *)
(* Both await system calls while other programs move, remove and replace   *)
(* directories; what they do to the database between two awaits is one     *)
(* step.  Calls may belong to several daemons: all they share is the table.*)
(***************************************************************************)
EXTENDS Naturals, FiniteSets

CONSTANTS
    Openers,        \* calls of open(); the id each would create is its name
    Readers,        \* calls of get()
    Paths,          \* canonical paths
    Directories,    \* directories, as device, inode and birth time tell them apart
    NoCall,
    MaxMoves        \* bound: changes of what the paths lead to

ASSUME CallsAssumption == NoCall \notin Openers
ASSUME MovesAssumption == MaxMoves \in Nat

VARIABLES
    at,         \* what each path leads to
    moves,
    rows,       \* workspace_registry: the row of each workspace id
    opening,    \* the calls of open()
    getting,    \* the calls of get()
    truths      \* the statuses that were true during a get() (for the properties)

registryVars == <<at, moves, rows, opening, getting, truths>>

-----------------------------------------------------------------------------
(* State *)

Occupants == Directories \cup {"missing", "inaccessible", "not-directory"}
Statuses == {"available", "missing", "inaccessible", "invalid"}

NoRow == [status |-> "none"]
Row == [path : Paths, identity : Directories, status : Statuses, version : Nat \ {0}]
NewRow(path, identity) ==
    [path |-> path, identity |-> identity, status |-> "available", version |-> 1]
Opened(id) == rows[id] # NoRow

OpenStages == {"idle", "stat", "repo", "upsert", "settled"}
Opening == [pc : OpenStages, path : Paths \cup {NoCall}, identity : Directories \cup {NoCall},
            answer : Openers \cup {NoCall}]

GetStages == {"idle", "stat", "revalidate", "settled"}
Getting == [pc : GetStages, id : Openers \cup {NoCall}, read : Statuses \cup {"none"},
            current : Statuses \cup {"none"},
            answer : Statuses \cup {"none", "not-found", "failed"}]

RegistryTypeOK ==
    /\ at \in [Paths -> Occupants]
    /\ moves \in 0 .. MaxMoves
    /\ \A id \in Openers : Opened(id) => rows[id] \in Row
    /\ opening \in [Openers -> Opening]
    /\ getting \in [Readers -> Getting]
    /\ truths \in [Readers -> SUBSET Statuses]

IdleOpening == [pc |-> "idle", path |-> NoCall, identity |-> NoCall, answer |-> NoCall]
IdleGetting == [pc |-> "idle", id |-> NoCall, read |-> "none", current |-> "none", answer |-> "none"]

RegistryStart ==
    /\ \E p \in Paths, d \in Directories :
          at = [q \in Paths |-> IF q = p THEN d ELSE "missing"]
    /\ moves = 0
    /\ getting = [c \in Readers |-> IdleGetting]
    /\ truths = [c \in Readers |-> {}]

RegistryInit ==
    /\ RegistryStart
    /\ rows = [id \in Openers |-> NoRow]
    /\ opening = [c \in Openers |-> IdleOpening]

\* A later state: every call of open() is over, and one gave a directory its
\* handle.
RegistryInitOpened ==
    /\ RegistryStart
    /\ \E c \in Openers, p \in Paths :
          /\ at[p] \in Directories
          /\ rows = [id \in Openers |-> IF id = c THEN NewRow(p, at[p]) ELSE NoRow]
          /\ opening = [o \in Openers |->
                IF o = c THEN [pc |-> "settled", path |-> p, identity |-> at[p], answer |-> c]
                         ELSE [IdleOpening EXCEPT !.pc = "settled"]]

-----------------------------------------------------------------------------
(* Other programs *)

\* inspectPersistedWorkspacePath(), as it would answer now.
StatusNow(place, path, identity) ==
    CASE place[path] \in Directories     -> IF place[path] = identity THEN "available" ELSE "invalid"
      [] place[path] = "not-directory"   -> "invalid"
      [] place[path] = "missing"         -> "missing"
      [] place[path] = "inaccessible"    -> "inaccessible"

\* Watch what becomes true while a get() is under way.
Watched(place) ==
    [c \in Readers |-> IF getting[c].pc \in {"stat", "revalidate"}
                       THEN LET row == rows[getting[c].id]
                            IN  truths[c] \cup {StatusNow(place, row.path, row.identity)}
                       ELSE truths[c]]

\* A path comes to lead elsewhere: to a directory that is nowhere else (one
\* that was moved away, or a new one), or to none.
Move(p) ==
    /\ moves < MaxMoves
    /\ \E o \in Occupants \ {at[p]} :
          /\ o \in Directories => \A q \in Paths : at[q] # o
          /\ at' = [at EXCEPT ![p] = o]
          /\ truths' = Watched(at')
    /\ moves' = moves + 1
    /\ UNCHANGED <<rows, opening, getting>>

-----------------------------------------------------------------------------
(* open() in mode 'checkout' *)

OpenFails(c) == opening' = [opening EXCEPT ![c].pc = "settled"]

\* realpath(): the requested path, perhaps a symbolic link, leads to p.
OpenPath(c, p) ==
    /\ opening[c].pc = "idle"
    /\ IF at[p] \in {"missing", "inaccessible"} THEN OpenFails(c)
       ELSE opening' = [opening EXCEPT ![c].pc = "stat", ![c].path = p]
    /\ UNCHANGED <<at, moves, rows, getting, truths>>

StatDirectory(c) ==
    /\ opening[c].pc = "stat"
    /\ LET o == at[opening[c].path]
       IN  IF o \in Directories THEN opening' = [opening EXCEPT ![c].pc = "repo", ![c].identity = o]
           ELSE OpenFails(c)
    /\ UNCHANGED <<at, moves, rows, getting, truths>>

\* findRepoRoot(): what it finds is kept in the row and changes nothing else;
\* an error it does not expect ends the call.
FindRepoRoot(c) ==
    /\ opening[c].pc = "repo"
    /\ opening' = [opening EXCEPT ![c].pc = "upsert"] \/ OpenFails(c)
    /\ UNCHANGED <<at, moves, rows, getting, truths>>

\* The row the new one would conflict with: UNIQUE(canonical_path,
\* filesystem_identity, mode).
ConflictingByPath(path, identity) == {id \in Openers : Opened(id) /\ rows[id].path = path}
Conflicting(path, identity) ==
    {id \in Openers : Opened(id) /\ rows[id].path = path /\ rows[id].identity = identity}

\* Mutant: the row of the path is taken over for the new directory.
UpsertedRebinding(c, path, identity) ==
    IF ConflictingByPath(path, identity) = {}
    THEN [id |-> c, row |-> NewRow(path, identity)]
    ELSE LET id == CHOOSE i \in ConflictingByPath(path, identity) : TRUE
         IN  [id |-> id, row |-> [rows[id] EXCEPT !.identity = identity, !.status = "available",
                                                  !.version = @ + 1]]

Upserted(c, path, identity) ==
    IF Conflicting(path, identity) = {}
    THEN [id |-> c, row |-> NewRow(path, identity)]
    ELSE LET id == CHOOSE i \in Conflicting(path, identity) : TRUE
         IN  [id |-> id, row |-> [rows[id] EXCEPT !.status = "available", !.version = @ + 1]]

Upsert(c) ==
    /\ opening[c].pc = "upsert"
    /\ LET result == Upserted(c, opening[c].path, opening[c].identity)
       IN  /\ rows' = [rows EXCEPT ![result.id] = result.row]
           /\ opening' = [opening EXCEPT ![c].pc = "settled", ![c].answer = result.id]
    /\ UNCHANGED <<at, moves, getting, truths>>

-----------------------------------------------------------------------------
(* get() *)

ReadRow(c, id) ==
    /\ getting[c].pc = "idle"
    /\ getting' = IF Opened(id)
                  THEN [getting EXCEPT ![c].pc = "stat", ![c].id = id, ![c].read = rows[id].status]
                  ELSE [getting EXCEPT ![c].pc = "settled", ![c].id = id, ![c].answer = "not-found"]
    /\ truths' = IF Opened(id)
                 THEN [truths EXCEPT ![c] = {StatusNow(at, rows[id].path, rows[id].identity)}]
                 ELSE truths
    /\ UNCHANGED <<at, moves, rows, opening>>

\* An error that stat() is not expected to give ends the call.
InspectPath(c) ==
    /\ getting[c].pc = "stat"
    /\ LET row == rows[getting[c].id]
       IN  \/ getting' = [getting EXCEPT ![c].pc = "revalidate",
                                         ![c].current = StatusNow(at, row.path, row.identity)]
           \/ getting' = [getting EXCEPT ![c].pc = "settled", ![c].answer = "failed"]
    /\ UNCHANGED <<at, moves, rows, opening, truths>>

\* The row is written only if the status differs from the one that was read
\* before the await; the answer is then what the row says.
Revalidate(c) ==
    /\ getting[c].pc = "revalidate"
    /\ LET g == getting[c]
       IN  IF g.current # g.read
           THEN /\ rows' = [rows EXCEPT ![g.id].status = g.current, ![g.id].version = @ + 1]
                /\ getting' = [getting EXCEPT ![c].pc = "settled", ![c].answer = g.current]
           ELSE /\ getting' = [getting EXCEPT ![c].pc = "settled", ![c].answer = g.read]
                /\ UNCHANGED rows
    /\ UNCHANGED <<at, moves, opening, truths>>

-----------------------------------------------------------------------------

Open(c) ==
    (\E p \in Paths : OpenPath(c, p)) \/ StatDirectory(c) \/ FindRepoRoot(c) \/ Upsert(c)
Get(c) == (\E id \in Openers : ReadRow(c, id)) \/ InspectPath(c) \/ Revalidate(c)

-----------------------------------------------------------------------------
(* Properties *)

\* A handle never comes to mean another directory, and no two handles mean
\* the same one, however opens, moves and replacements interleave (the upsert
\* of open(); 'never rebinds an existing workspace handle').
HandleNeverRebound ==
    [][ /\ \A id \in Openers : Opened(id) =>
              /\ rows'[id] # NoRow
              /\ rows'[id].path = rows[id].path /\ rows'[id].identity = rows[id].identity
        /\ \A i, j \in Openers : Opened(i)' /\ Opened(j)' /\ i # j =>
              rows'[i].path # rows'[j].path \/ rows'[i].identity # rows'[j].identity
      ]_registryVars

\* The status get() answers was true of the directory at some moment of the
\* call, whatever other calls wrote into the row meanwhile.
StatusWasTrue ==
    \A c \in Readers : getting[c].answer \in Statuses => getting[c].answer \in truths[c]
================================================================================
