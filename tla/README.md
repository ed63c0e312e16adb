# Benchhand in TLA+

A specification of Benchhand's core: what its daemon promises about operations,
files, workspaces, instructions and its endpoint while calls overlap, processes die and
other programs touch the same files. Each module is translated from the source
under `src/packages`; `PROJECT.json` maps every definition to the lines it
stands for.

## 1. The system

Benchhand gives coding agents access to a developer's workspaces. An agent
talks MCP to the *edge*; the edge turns each tool call into one RPC to the
*daemon* over a Unix socket; the daemon keeps its state in one SQLite file and
works on the workspace's files and repository.

    agent --MCP--> mcp-edge --HTTP over a Unix socket--> daemon
                   (local-rpc)                             |
          instructions  filesystem  workspace  operations  |
                              |         |          |       |
                            files      git      SQLite (storage)

Nothing runs in parallel inside one daemon: it is a Node process, so calls
interleave at their awaits. But nothing stops a user from running two daemons
on one database or one workspace (there is no lock on either), editors and git
change the same files, and every process can be killed. Those are the
interleavings the modules explore.

| Component | State | Operations | Interacts through | Hard because |
|---|---|---|---|---|
| operation journal (`operations`) | table `operation_journal`: state, input, result, version per id | `prepare`, `markRunning`, `execute`, `reconcileInterrupted`, `get` | SQLite; the effect it runs | crash between effect and commit, retries, a second daemon |
| filesystem mutation (`filesystem`) | `#writeTails`, temporary files, the files | `write`, `patch` | the workspace's files | overlapping calls, other programs, crash and power failure |
| filesystem queries (`filesystem`) | none (a cursor in the caller's hands) | `read`, `list`, `search` | the workspace's files | a directory that changes between two pages |
| daemon endpoint (`daemon`) | the socket path, the listening server, the database handle | `startDaemon`, `close` | the socket path, the database | two starts, stale sockets, clients that went away |
| RPC dispatch (`daemon`) and client (`local-rpc`) | one call at a time | `handleHttpRequest`, `call` | a connection per call | deadline, cancellation and late answers race |
| managed worktrees (`workspace`) | `managed_worktrees`, `worktree_cleanup_journal`, branch and directory | `open` in mode 'worktree' | SQLite, git, the disk | concurrent opens, interrupted creation, foreign branches and paths |
| workspace registry (`workspace`) | `workspace_registry` | `open` in mode 'checkout', `get` | SQLite, `stat` | status computed before and written after an await |
| instructions and skills (`instructions`) | a cache of files | `resolve`, `listSkills`, `readSkill` | the workspace's files | a file that changes while it is read |
| storage (`storage`) | `schema_migrations` | `transaction`, `applyMigrations` | SQLite | two processes migrate at once |
| MCP edge (`mcp-edge`) | none | one RPC per tool, 5 s deadline | the RPC client | what it does not know after a timeout |
| contracts (`contracts`) | none | parsers | – | – |

What makes each part correct:

- **operation journal**: an id's effect is begun at most once; an interrupted
  effect is neither repeated nor forgotten; what a caller was told stays true;
- **filesystem mutation**: one mutation of a target at a time, in order of
  arrival; a hash precondition holds at the commit; readers never see a part;
  'file-and-directory' survives a power failure; a refusal changes nothing;
- **daemon endpoint**: at most one daemon is reachable, a live one keeps its
  path, a dead one does not block the next;
- **managed worktrees**: one workspace per repository and commit, nothing that
  is not Benchhand's is adopted, nothing that is gets lost;
- **filesystem queries**: pages together neither miss nor repeat what stayed in
  place; ranges together are the file, but for byte order marks that a range
  began with; a search that does not say `truncated` has every match of every file
  that stayed and that it did not count as skipped, unless the file may not be
  opened; an exact patch is what a definition without order or offsets says;
- **workspace registry**: a handle means one directory for ever; the status a
  call answers was true during the call;
- **instructions and skills**: a document is what its file held at one moment; a
  catalog misses no skill that was there, offers none that never was, and
  respects the precedence of the roots;
- **storage**: nobody serves a database that lacks a migration or has another
  build's; a start fails in a migration only because another was faster;
- **RPC**: what a caller is told is true, every call settles, and the repetition
  of an edit does no harm.

`PROJECT.json` lists the hazards of the code line by line, with the property
that covers each or the reason why none does.

## 2. The modules

| Module | Source | What it is |
|---|---|---|
| `OneShotOperation` | – | abstract: an id is bound to one input, then gets one verdict, or its fate is unknown for good |
| `OperationJournal` | `operations/src/index.ts`, `startDaemon` | the journal, shared by daemons; refines `OneShotOperation` |
| `WriteQueue` | `#serializeWrite` | the chain of promises per target |
| `FileMutation` | `write`, `patch`, `#writeAtomic` | a mutation, system call by system call; contains a `WriteQueue` and implements it |
| `ExactPatch` | `planExactPatch` and its helpers | the planner of exact edits, and a definition to compare it with |
| `FileQueries` | `read`, `list`, `search` | requests that read a tree which others change |
| `DaemonEndpoint` | `startDaemon`, `prepareIpcEndpoint`, `close` | processes around one socket path |
| `DaemonStart` | `SqliteDatabase`, `applyMigrations` | `DaemonEndpoint` with what its step `OpenDatabase` is made of; implements it |
| `RpcCall` | `requestOverIpc`, `handleHttpRequest` | a call, its deadline, and the write it asks for |
| `ManagedWorktree` | `#openWorktree` and what it calls, `git-worktree.ts` | concurrent opens of one worktree |
| `WorkspaceRegistry` | `open` in mode 'checkout', `get` | handles of directories that move |
| `InstructionFiles` | `resolve`, `#readInstructionFile` | the cache and the stable read; extends `WorkspaceRegistry` |
| `SkillCatalog` | `listSkills`, `readSkill` | five roots read at once; extends `WorkspaceRegistry` |
| `InstructionsService` | | registry, instruction files and skills composed |
| `OperationJournal_proofs`, `WriteQueue_proofs`, `FileMutation_proofs`, `FileQueries_proofs`, `DaemonStart_proofs` (with the endpoint's), `RpcCall_proofs`, `ManagedWorktree_proofs`, `InstructionsService_proofs` | | theorems |
| `MC...` | | instances for TLC |

### OperationJournal

`journal` is the table. A call of `execute()` is a process with the phases
*accepted* (after `prepare()`), *running* (the effect is awaited), *returned*,
*failing* (in the catch block) and *settled*; `begun` and `finished` record for
each id whose effect was started and came to its end. `Prepare`, `MarkRunning`,
`MarkCommitted` and `MarkFailed` are the four SQL statements with their WHERE
clauses, `Start(d)` is a daemon's start with its `reconcileInterrupted()`,
`Crash(d)` loses everything but the table, `DatabaseFault` is an SQLite error at
any of the updates (one in `prepare()` rolls back and leaves no trace). In
the repository `execute()` is called by tests only: the daemon itself calls
`get` and `reconcileInterrupted`, and the module says what the journal will
give the tools that come to use it.

### WriteQueue and FileMutation

`Enqueue` is the code up to the `await`: it reads the tail of the key, chains
itself, and stores its own; `Begin` is the start of the operation when the
predecessor is over; `Release` is the `finally` block with its conditional
delete. `Die(S)` ends the processes in S with their maps.

`FileMutation` runs the body of a mutation on top: `InspectSource` and
`ReadSource` (patch only), `Inspect`, `OpenTemp`, `FillTemp`, `Recheck`, then
`Link` or `Rename`, `Unlink`, `SyncDirectory`, and `CleanUp` when it fails; each
can fail where its system call can. `file` is what readers see and `disk` what
is certain to survive; `PowerFailure` returns any set of entries to `disk`.
`External` is any other program. Contents stand for their hashes (SHA-256 is
taken to be injective), `inspectWriteTarget()` (lstat, then hash) is one step,
and the edits of a patch are abstracted to the content they lead to or a failure
(how they are planned is `ExactPatch`). `overtaken` is history: the calls between
whose last comparison and whose commit somebody outside their daemon changed the
file. That window cannot be closed (the comparison and `rename()` are two system
calls), so the tool's description, that a stale target fails
(`mcp-edge/src/index.ts:551`), holds as `PreconditionAtCommit` has it: unless a
call was overtaken, and never through another call of the same daemon.

### ExactPatch and FileQueries

`FindAllOccurrences`, `Planned`, `Overlapping` and `ApplyPlannedPatch` are the
code's loops over offsets; `Applicable` and `ExpectedContent` say position by
position, in no order of edits, what the result should be. The stable sort by
start is stated by its outcome: the plans in the order `Before`, equal starts in
the order of the request.

In `FileQueries` a request is cut at its awaits. `list` goes from `readdir()`
(`ListDirectory`) over the lstat of each entry (`InspectEntry`) to the page and
its cursor, and the client comes back with it (`NextPage`), also after a page that
failed. `read` opens a file, or what a symbolic link leads to, takes its size,
and reads a range of what the file holds by then. A byte is ASCII, the place of a hit,
the first or last byte of a character, or NUL, which is what `classifyBuffer()` tells
apart. `search` keeps the frames of
`#walkSearch` as a stack and counts entries, depth, matches and bytes as the code
does. `seen` is history: what every entry has been since the request began.

`DecodeUtf8` is what `TextDecoder` does without `ignoreBOM`: a byte order mark at the
beginning of what is decoded is left out. For a file that is at its very beginning; but
`read()` decodes every range by itself, so a range that begins at U+FEFF within a file
loses it too. `RangesComplete` names exactly these bytes as what may be missing.

A search says less than its caller may think, and `SearchHonest` (with `Accounted`)
says how much: `truncated` is about the limits of entries, depth not included, of
matches and of bytes. A file longer than `maxFileBytes` or binary is not searched and only
raises a count (`skippedOversized`, `skippedBinary`), and one that cannot be opened, or
has gone by the time it is looked at, is passed over without a sign.

What the module leaves out here: a link leads to no other link and keeps its target, a
path keeps its kind, a query is one place in the text (`hit`), the root can
always be listed, and a search begins at a directory rather than at a file or a link.

### DaemonEndpoint

A start goes through *looking* (lstat), *probing* (connect, with its 500 ms
limit), *unlinking*, *opening* (the database) and *binding*; a daemon listens,
closes, or dies. `serving` is the daemon that handles a client's request,
`connected` whether the client still waits: a client that timed out or
cancelled destroys its connection and the handler goes on. `close()` waits for
connections only. `overlapped` is history: who began to listen while a start was
under way. A Windows pipe is neither probed nor unlinked and is not modelled.

### DaemonStart

`migrating` is what a start does in the database: *select* is the SELECT of a
migration's checksum outside any transaction, *apply* the immediate transaction
that runs the migration's statements and writes its row. `schema` is the table
`schema_migrations`, `tables` what the statements have made; they are two
variables because the second makes a migration fail that is run again.
`StartProgress` takes the place of `OpenDatabase`; all other steps are
`DaemonEndpoint`'s. `late` is history: the starts that were in the database when
another one migrated it.

### RpcCall

`stage` is the client's promise (*waiting* for the head of the response,
*receiving* its body, *settled*), `aborted` holds the two flags that the
deadline's timer and the caller's signal set before they destroy the request,
`RequestErrors` is the order in which the request's error handler looks at them; the
response's looks at nothing, and either may come first (`ErrorCodes`). `server` is
the daemon's side: a request can be read and carried out after its client has
gone (`Receive`), or be lost with its socket (`RequestAborted`). The mutation is
one step, `Write` or `Refuse`: that is what `FileMutation` shows for a daemon
which is the only writer. A call attempts a task, which is named by the content
it writes; two calls can attempt the same one, one after the other or at once.
`Overwrite` is another program. The client of the edge gives every call a
deadline, so all calls have one, but no signal: those that have one are in
`Signalled`. In doubt after TIMEOUT, CANCELLED or a transport error, a caller
that tries an edit again is told CONFLICT if the first attempt was done: the
model has that behaviour, and the code promises no more.

### ManagedWorktree

All state of a worktree derives from its ownership key (the repository's
identity and the base commit), so one key is modelled: `row`, `journal` (which
actions it has), `branch`, `tree` (what is at the path and whether git lists it
or has filled it). A call goes through the awaits of `#openWorktree`; the place
that reconciles or registers is in `at`. `git` is the child process: it makes
the branch, the directory, the listing and the files in this order and goes on
when its parent dies. `status` is that of the workspace in `workspace_registry`, which
the registration and `UseRow` set and `Get`, a call of `get()` by anybody, sets to what
it finds; no `open()` reads it, and it can say *available* of a worktree whose own row has
meanwhile been retired. `Stop` ends a call anywhere: an unhandled error or death.

### WorkspaceRegistry, InstructionFiles, SkillCatalog and InstructionsService

`at` says which directory (device, inode, birth time) each path leads to, `rows`
is `workspace_registry`. `open()` awaits `realpath`, `stat` and the search for the
repository and then upserts; `get()` reads the row, awaits a `stat`, and writes the
status it computed if that differs from the one it had read; a `stat` that fails in a way
nobody expects ends it with an error (*failed*). `truths` is history:
the statuses that were true since a `get()` read its row.

`InstructionFiles` reads the instruction files of the scopes of a request from the
outermost inwards. A file is an inode with two halves, so that a program that
writes in place can be met half way, and a version that stands for its size and
times; `WriteUnnoticed` is a change that leaves these as they were. What stands in `Irregular`
is a path with no file of the workspace at it, a directory or a link that leads out: both
stats refuse it, and the open between them fails or reads what the link leads to. The stable read
is `StatInstruction`, `OpenInstruction`, `ReadInstruction` (one half after the
other) and `RestatInstruction`, at most `Attempts` times; `cache` is keyed by
workspace and path and checked against the hash of the bytes. Both stats and the
open go by the path, so what the read promises has an exception, which
`StableDocument` states: the content returned is that of the file both stats saw,
or of a file that replaced it for the moment of the open and was exchanged back
before the second stat. Without the exception the property is false (a path that
leads from one directory to another and back around the open violates it).

`SkillCatalog` has one batch for each root: `CanonicalSkillRoot`, `ReadSkillRoot`,
then `InspectSkill` for each entry. The batches interleave; one that throws rejects
`Promise.all()` and the request. A SKILL.md is *valid*, *invalid* (an
`InstructionsError`), *unreadable* (any other error) or *absent*. `witnessed` is
history: the skills valid always, and ever, during the request.

`InstructionsService` composes the three: a reader asks `get()` for its workspace and
goes on with the answer, while the directory moves under it.

## 3. The runs

All instances are exhaustive.

| Run | Instance | Shows |
|---|---|---|
| `journal_shared` | 2 daemons, 1 id, 2 inputs, 3 calls, 1 crash, 1 SQLite error | at most one execution, true answers, no orphaned row, refinement, every call and every row gets to an end |
| `journal_second_daemon` | 2 daemons, 1 call, no crash | **violated**: reconciliation takes a live daemon's row |
| `write_queue` | 4 calls, 2 keys in 2 services | exclusion, order, the map drains, every call is released |
| `mutation` | 2 calls, each of either of 2 daemons, on one file, each one of 4 requests (unconditional, create-only, replacing, patch), 1 fault: a change by another program, a failing system call, a crash or a power failure | the precondition holds at the commit, no partial content, durability, refusals change nothing, the queue is implemented, all settle |
| `daemon_start` | 3 daemons (2 mortal), 1 client, 2 migrations, 4 databases to begin with (new, one version back, current, another build's) | what can and what cannot take a path away; stale sockets; migrations; close; termination |
| `endpoint_stolen` | 3 daemons (1 mortal) | **violated**: a slow start unlinks a live socket |
| `rpc_retry` | 2 calls (1 with a signal), a guarded and an unguarded task, 1 death with restart, 1 change by another program | true answers, harmless repetition, every call settles |
| `worktree_open` | 3 calls, 1 attempt, 1 breakable git, 1 external change | one workspace, no adoption of foreign things, recovery, cleanup, termination |
| `worktree_coalesce` | 2 calls, nothing fails | **violated**: an open is refused while another's git fills the path |
| `file_queries` | 7 entries in 3 directories, among them a link to a file and one to a directory, 4 contents of a file (text, text with byte order marks, binary, one that may not be opened), 2 changes, pages and ranges of 1 and 2, tight and wide limits of a search; patches of up to 2 edits on every text of up to 4 letters | paging, ranges, what a search accounts for, the planner |
| `instructions` | 2 opens, 2 readers, 1 path, 2 directories, 2 scopes and 2 files to begin with, 4 contents (one too long, one no file of the workspace), 2 skill roots with 2 names, 2 changes of any kind | handles, stable documents, true catalogs |
| `skills_hidden` | the same | **violated**: one unreadable skill hides the rest |

Why the bounds are enough. *Journal*: a fault needs one call that was
interrupted, one that retries and one that comes with another input, on a
daemon that is the first or the other; a second id would only repeat the
first, as no action relates two ids. *Queue*: four calls give a predecessor, a
running call, a waiting one and a newcomer on one key, and two keys show that
they do not mix; the theorems need no bound. *Mutation*: two calls are the one
that is inside and the one that interferes; what they meet is one fault each
(`MaxFaults`), and one is enough for every violation of the mutants; the theorems
need no bound. *Endpoint and start*: a dead daemon, one that takes over from it and one
that is late; two migrations give a database that is in the middle. *RPC*: a
repetition needs two attempts, and what makes it legitimate one change in
between. *Worktree*: a call that died, one that adopts and one that competes; a
second attempt of the wait does nothing the first does not. With two external
changes within one call a path can be exchanged after `git worktree list`;
`NothingForeignAdopted` names the one such case that one change can bring about.
*Queries*: requests share nothing but the tree, so one at a time is enough; two
changes (`MaxChanges`) take an entry away and bring it back. The marked text has a mark at
its beginning and one within it, so that ranges of two bytes begin at both; texts are
below and above `MaxFileBytes`. Texts of four letters
over two have all the overlaps that two edits of at most two can have.
*Instructions*: the path that leads to a directory, to another and back needs two
changes. `Attempts` is 2 where the code has 3: the last attempt and one before
it. Behaviours that resolve instructions or list skills begin after `open()`
(`RegistryInitOpened`); those about handles begin before. The two directories begin with different
instruction files, so that a read of one for the other is seen. Openers are
symmetric and so are readers, and the properties of that run are all safety.

`CHECK_DEADLOCK FALSE` is set throughout because each instance has finitely many
calls and stops when they are over.

### The divergences

1. `journal_second_daemon`: `journal.test.ts:149` has startup reconciliation act
   on *interrupted* work. `reconcileInterrupted()` acts on every in-flight row,
   before the daemon knows whether the endpoint is free. A second daemon that
   will be refused anyway makes the first one's running operation
   reconcile-required, and its commit fails after its effect.
2. `endpoint_stolen`: `daemon.test.ts:1030` says that an active endpoint is never
   stolen. Probe and unlink are two steps. `TakenOnlyByOverlap` states what does
   hold: a start that begins after a daemon listens never takes its path; only one
   that was under way before, or the close of such a daemon, can.
3. `worktree_coalesce`: `worktree.test.ts:406` says that concurrent opens coalesce.
   The wait for another creator happens only when the branch exists and the
   path does not; a call that finds the path half made is refused.
4. `skills_hidden`: `instructions.test.ts:503` says that invalid skills are reported
   without hiding valid ones. Only an `InstructionsError` is reported; any other
   error of a SKILL.md (it is a directory, it may not be opened, its YAML has an
   alias) rejects the listing of all roots (`instructions/src/index.ts:564`).

### Fairness

Weak fairness on the steps of a call or a daemon: the event loop runs every
continuation that is ready, and awaited system calls, effects and git come to
an end. `Start(d)` of the journal is fair because a daemon that died is started
again by its user; without that an interrupted row would wait, rightly. Nothing
is assumed of callers, of other programs or of crashes. A retry is another call.
In `RpcCall` nothing is assumed of the daemon either: time passes, a timer that
is due fires, and a destroyed request emits its error. `StartFairSpec` is
`DaemonEndpoint`'s fairness with the steps in the database among those of a start:
SQLite's calls return, at the latest when their busy timeout is over. The queries
and the instructions have no liveness property: they are loops over finite lists.

## 4. The proofs

TLAPS checks these for all values of the constants (any numbers of daemons,
ids, calls, keys; no bound on crashes, faults or deaths).

`OperationJournal_proofs` rests on `NoneAssumption` and `BoundAssumption`. The
invariants of the runs are not inductive: that a second call cannot run the
effect depends on what a call's phase says about its row. `IInv` therefore
ties, for each call, its phase to its role, to `begun` and to the state of the
row (an *accepted* call has not begun and its row may have been reconciled; a
*returned* call has finished; an executor's id and input are those of the row),
has one executor for every row that exists, and keeps the answers. `Invariance`
proves it step by step, one lemma for each kind of action; from it follow
`TypeCorrect`, `EffectAtMostOnce`, `CommittedIsDone`, `AnswersStayTrue`,
`NoOrphanedRow`, the action property `RowsMoveForward`, and `Refinement`: every
step of the journal is a step of `OneShotOperation` or a stutter.

`WriteQueue_proofs` rests on `ServiceAssumption` and `NoneIsNoCall`. Exclusion
follows from order, and order from the shape of the chain: every waiting call's
predecessor is the last of its key that arrived before it, so whoever is not
over and arrived earlier is reached by going back, and the map holds the
youngest. `Invariance` proves that, and `TypeCorrect`, `ServedInOrder`,
`MutuallyExclusive` and `MapIsDrained` follow.

`FileMutation_proofs` rests on `FileAssumption`, `ContentAssumption`, `KeyAssumption`
and `RequestAssumption`. `KeyAssumption` gives an entry one key in a service, which
is so on a file system that tells letter cases apart; on another one two spellings
of a name have two queues, as two daemons have. `MutationsTakeTurns`
is the refinement of `WriteQueue` and carries the exclusion over: of the calls
with one key one is running (`OneAtATime`). `MutationInv` says, for each call, what it knows
at its place (`ProgressInv`), what is in its temporary file (`TempInv`), that an
entry it was the last to write has its content (`ContentInv`), that only outsiders can have
written the entry between its last comparison and its commit (`WindowInv`), and
what its commit replaced and made (`CommitInv`); and that no entry is ever a part of a
content (`EntriesInv`). `PreconditionsHold`, `ReadersSeeWholes`, `DurableWritesSurvive`
and `RefusalsLeaveTargets` follow.

`FileQueries_proofs` rests on `TreeAssumption` (a finite tree whose directories have
smaller numbers than what is in them), `FilesAssumption`, `TreesAssumption`,
`LimitsAssumption` and `PatchesAssumption` (what `normalizePatchEdits()` lets through:
at least one edit, none with an empty old text). `TreeInv` says that `seen` has what each entry is now and that it
only grows, so that "there throughout" and "steady" can be carried from step to step.
*Pages.* They increase (`PagesInv`), what they leave out and was there all along lies
behind the cursor (`CursorInv`), and what `readdir()` listed is in the page's entries
or still to be inspected (`InspectInv`); that a page starts behind the cursor's *name* is
what makes this inductive. *Ranges.* Of a file that was never anything but `x`, what has
been read is the first `offset` bytes of `x`, in order, without some of the marks that
ranges began with (`RangesInv`, `IsUpTo`), and a range that was declined has met a byte that is
not ASCII; `RangesAreTheFile` follows. *Search.* `WalkInv` bounds the
frames by the depth. `ApartInv` says that what lies under two waiting
entries has nothing in common, and `MatchesInv` that every match lies behind all of
them: hence no match comes twice. `FoundInv` is completeness as an invariant: take any
way from a file up to the searched directory on which everything stayed; either the
file is accounted for, or some place of the way still waits in the frame of
its depth, or is being looked at. It is preserved because a directory that is
visited puts all its entries in the next frame. `CountedInv` makes the counter of the
output the sum of what the matches cost. `PagesComplete` and `SearchesAreHonest`
follow. Where a recursive function is unfolded (`AppendAll`, the way up in `Reached`)
or naturals are counted, the induction is over a *set* of naturals (`AllNaturals`), which
needs no operator for a predicate.
*Patches.* `PatchesAreExact` holds for any text and any edits, and is about the
functions of `ExactPatch` rather than about steps: `PatchInv` only keeps the request with
its answer. `ScanExists` shows that the scan's recursion defines a function, and
`AllAreFound` that it lists every place where a text occurs (the induction is over how
far the scan starts from the text's end), so one finding is the only place
(`OneStart`). `SomeListing` gives the sorted plans (`PlannedIsRanked`). That no edit starts
before its neighbour ends is the same as that no edit reaches into *any* later one
(`NeighboursSuffice`), and that is the same as that no position belongs to two edits
(`ApplicableIfApart`): hence the refusals. For the text, `PieceFacts` says which piece the
reference has at each position; a stretch of kept characters adds itself
(`PiecesCopied`), an edit adds its new text (`EditReplaced`), so that by induction over
the sorted edits what the code has put together up to the end of an edit is what the
reference has up to that position (`PatchedAsExpected`).

The endpoint's part of `DaemonStart_proofs` rests on `PathAssumption`. What a start knows of the path
is old by the time it acts, so the invariant says who can have changed it: a
start that has seen the path free, or has freed it, finds it taken only if
somebody began to listen since (`FreeUnlessOverlapped`), and one that has found a
socket stale finds it live only if its owner did (`StaleUnlessOverlapped`). From
these follow `RefusalsAreReal` and the action property `LivePathsAreKept`;
`OnlyTheDeadLeaveSockets` and `WaitingClientsAreServed` are inductive beside them.

The database's part rests on `MigrationsAssumption` and `PathAssumption`.
`StartRefinesEndpoint` shows that every step of a start in the database is a step
`OpenDatabase` or a stutter, which carries the endpoint's theorems over
(`StartServesWithDatabase`, `StartRefusalsAreReal`, `StartKeepsLivePaths`). For the
database `StartIInv` relates three things: a row means its tables and tables their
row (`RowsMeanTables`: they are one transaction), a start has passed only migrations
that are applied (`PassedAreApplied`), and what a start is about to apply is missing
unless another one has migrated since (`MissingUnlessLate`). `StartServesMigrated` and
`StartFailsOnlyByRace` follow, for any number of migrations, starts and deaths.

`InstructionsService_proofs` proves about the composed module, in three layers, and
rests on `MovesAssumption`, `BlocksAssumption`,
`AttemptsAssumption`, `SizesAssumption`, `ChainAssumption`,
`InitialFilesAssumption`, `NamesAssumption`, `SourcesAssumption` and
`SkillsAssumption`.
*Registry.* `RegistryInv` says that two rows never have the same path and
identity (`OneHandle`), that a call of `open()` that is under way has no row yet
(`Unborn`: its id is fresh), and that the status a `get()` has computed is one it
watched come true, for the row it read (`Watching`); a row never changes its path or
identity, so what is watched stays the right thing. `HandlesKeepTheirDirectory` and
`StatusesWereTrue` follow.
*Instruction files.* A request that was told "changed" must have been disturbed in
every attempt, and a request remembers only what it saw itself, so `InstructionInv`
counts: every attempt that failed met a disturbance of its own, and one that has not
been disturbed yet finds everything as its first stat saw it
(`DisturbancesCounted`). What was opened is the file seen, or that has been
exchanged for it and the path leads back only after a second disturbance
(`OpenedAsSeen`); what was read of the file seen is its content as long as its
version says so (`ReadAsSeen`). `ChangesAreEarned` and the action property
`DocumentsAreStable` follow.
*Skills.* What is valid throughout is valid now, and what is valid now was so at
some time (`WitnessesHold`). `BatchInv` says of the batch of each root that a skill
valid all the time has been found or is still to be looked at, and that one found
was valid; `OutcomeHolds` carries it to the listing that is returned.
`CatalogsAreTrue` follows, for any number of roots and names, and `TypeCorrect`
from the three layers.

`ManagedWorktree_proofs` rests on `MakerAssumption`, `AttemptsAssumption` and
`ExternalsAssumption`. A call decides on what it read before an await, so the
invariant has three layers. `GitInv` and `PathInv` hold always: one call's git has the
branch, only that git can make the directory, and it was started after the intent was
journaled. `UndisturbedInv` holds until another program interferes: the stage of the
worktree is that of its git, and one that git has listed is there or has gone for ever
with its git's failure (`Listed`, `Gone`), which is why an old sight of it cannot be
wrong. `RowInv` and `CallInv` say what a row may name and what a call at each await may
rely on; `Outlasts` is what every step leaves standing for the other calls.
`OneWorkspacePerKey`, `OnlyOwnAdopted` and `FinishedIsAdopted` follow; `CleanupStays`
needs no invariant.

`RpcCall_proofs` rests on `TaskAssumption` and `BoundAssumption`. `ReplyInv` makes
the daemon's reply the witness of what happened: it is "ok" for exactly the calls
that wrote, is not given before the daemon is done, and is what a client is told.
`ContentInv` makes the file what its last writer wrote. `RepeatsAreHarmless`
follows: a call that may write finds what it expects, so the last writer before
it wrote that, and comes after every earlier attempt at the same task.

The type invariants of the journal, the queue, the endpoint, the call and the
queries, `RowMovesForward`, and `StatusWasTrue` (what `get()` answers was true at some
moment of the call, even when it writes an older status over a newer one), are proved
and need no run of their own.

Checked by TLC only: the liveness properties, which are out of TLAPS's reach here.
Every safety property of a passing run is a theorem.

## 5. What is not modelled

- the MCP edge and the contracts: a tool call is one RPC, without state; parsers
  either let a request through or end it before it has an effect, and are the
  error outcome where it matters;
- the reading methods of the RPC dispatch, which are their components' modules
  behind one await;
- the path checks (`#accessWorkspace`, and what of `resolveExistingPath` is about the
  spelling of a path): a request they refuse ends;
- contributed instruction providers, of which the daemon has none; the parsing of
  frontmatter, globs and git's output: members of small sets;
- the wording of results and errors, modes of files, timestamps, ids;
- the Windows endpoint; SQLite's own locking, of which the modules assume that a
  statement or a transaction is atomic.

## 6. Plan

Every component with state has its module, its run and, where section 4
has them, its proofs. What is left is the endpoint and the
journal composed, to relate a refused second start to the rows it reconciled before
it was refused.
