---------------------------- MODULE ManagedWorktree ----------------------------
(***************************************************************************)
(* Concurrent open()s of one managed Git worktree: WorkspaceRegistry in    *)
(* mode 'worktree' (packages/workspace), called by any number of daemons   *)
(* on one database and one repository.                                     *)
(*                                                                         *)
(* The row, the journal, the branch and the directory of a worktree all    *)
(* derive from its ownership key (repository and base commit), so the      *)
(* module follows one key.  A call is cut at its awaits: what it does      *)
(* between two of them (a query and the insert it decides) is one step.    *)
(* Of its SQL reads only journal actions come in groups, and those are     *)
(* only ever added, so reading a group at once loses no outcome.           *)
(*                                                                         *)
(* git is a child process that goes on by itself: it makes the branch,     *)
(* the directory, the listed worktree (HEAD, branch and lock) and the      *)
(* files, in that order, and can fail anywhere; a failure after the        *)
(* directory removes it again, the branch stays.                           *)
(***************************************************************************)
EXTENDS Naturals

CONSTANTS
    Calls,        \* calls of open() with this repository and base commit
    None,
    Outsider,     \* any other program
    Attempts,     \* WORKTREE_INFLIGHT_RECONCILE_ATTEMPTS
    GitFails,     \* the children git can refuse or break by itself for
    Externals     \* the changes another program can make; bound: it makes one

ASSUME MakerAssumption == None # Outsider /\ {None, Outsider} \cap Calls = {}
ASSUME AttemptsAssumption == Attempts \in Nat \ {0}
ASSUME ExternalsAssumption == "nothing" \notin Externals

VARIABLES
    row,        \* the key's row in managed_worktrees and its workspace
    status,     \* of that workspace, in workspace_registry
    journal,    \* the actions worktree_cleanup_journal has for the key
    branch,     \* the local branch benchhand/<key>
    tree,       \* what is at the worktree's path, and git's record of it
    git,        \* the 'git worktree add' child of each call
    call,
    external    \* what another program has done

vars == <<row, status, journal, branch, tree, git, call, external>>

-----------------------------------------------------------------------------
(* State *)

Makers == Calls \cup {None, Outsider}

\* A workspace id is named for the call that generated it; a filesystem
\* identity for whoever made the directory.
Row == [status : {"absent", "active", "cleanup-required"},
        id : Calls \cup {None}, identity : Makers]

Statuses == {"none", "available", "missing", "invalid"}

Actions == {"create-intent", "created", "create-failed", "cleanup-intent",
            "reconciled"}

Branch == [by : Makers, at : {"nowhere", "base", "elsewhere"}]
NoBranch == [by |-> None, at |-> "nowhere"]

\* "directory": only the path exists; "listed": 'git worktree list' shows
\* HEAD, branch and lock; "full": the files are checked out.
Tree == [by : Makers, stage : {"absent", "directory", "listed", "full"}]
NoTree == [by |-> None, stage |-> "absent"]

Answers == {"none", "opened", "cleanup-required", "path-occupied",
            "branch-occupied", "create-failed", "error"}

\* at: the place in #openWorktree that reconciles or registers.
\* found: whether a finished worktree was there when the call was made
\* (recorded for the properties).
Call == [pc : {"idle", "read", "inspect", "inspected", "lstat", "realpath",
               "list", "match", "branch", "git", "resolve", "commit", "settled", "lost"},
         at : {"none", "path", "wait", "final", "caught", "created"},
         attempt : 0..Attempts, seen : Makers, found : {"unknown", "full", "less"},
         answer : Answers, id : Calls \cup {None}]

GitStages == {"idle", "branch", "directory", "list", "checkout", "ok", "failed"}

TypeOK ==
    /\ row \in Row
    /\ status \in Statuses
    /\ journal \in SUBSET Actions
    /\ branch \in Branch
    /\ tree \in Tree
    /\ git \in [Calls -> GitStages]
    /\ call \in [Calls -> Call]
    /\ external \in Externals \cup {"nothing"}

\* A call outside #openWorktree: none of its variables has a value.
Locals(pc, found, answer, id) ==
    [pc |-> pc, at |-> "none", attempt |-> 0, seen |-> None,
     found |-> found, answer |-> answer, id |-> id]

Init ==
    /\ row = [status |-> "absent", id |-> None, identity |-> None]
    /\ status = "none"
    /\ journal = {}
    /\ branch = NoBranch
    /\ tree = NoTree
    /\ git = [c \in Calls |-> "idle"]
    /\ call = [c \in Calls |-> Locals("idle", "unknown", "none", None)]
    /\ external = "nothing"

At(c, pc) == call[c].pc = pc
GoTo(c, pc) == call' = [call EXCEPT ![c].pc = pc]
Ends(c, pc, answer, id) ==
    call' = [call EXCEPT ![c] = Locals(pc, call[c].found, answer, id)]
Throw(c, answer) == Ends(c, "settled", answer, None)
Return(c, id) == Ends(c, "settled", "opened", id)
Journaled(action) == action \in journal
Append(action) == journal' = journal \cup {action}

-----------------------------------------------------------------------------
(* An existing row *)

\* The repository and its base commit are resolved.
Open(c) ==
    /\ At(c, "idle")
    /\ call' = [call EXCEPT ![c].pc = "read",
                            ![c].found = IF tree.stage = "full" THEN "full" ELSE "less"]
    /\ UNCHANGED <<row, status, journal, branch, tree, git, external>>

ReadRow(c) ==
    /\ At(c, "read")
    /\ \/ row.status = "cleanup-required" /\ Throw(c, "cleanup-required")
       \/ row.status = "active" /\ GoTo(c, "inspect")
       \/ row.status = "absent" /\ GoTo(c, "lstat")
    /\ UNCHANGED <<row, status, journal, branch, tree, git, external>>

\* inspectPersistedWorkspacePath()
Inspect(c) ==
    /\ At(c, "inspect")
    /\ call' = [call EXCEPT ![c].pc = "inspected", ![c].seen = tree.by]
    /\ UNCHANGED <<row, status, journal, branch, tree, git, external>>

\* Available: the workspace is used again, whatever its row has become since
\* ReadRow.  Otherwise it needs cleaning up, which is recorded once.
UseRow(c) ==
    /\ At(c, "inspected")
    /\ \/ /\ call[c].seen = row.identity
          /\ Return(c, row.id)
          /\ status' = "available"
          /\ UNCHANGED <<row, journal>>
       \/ /\ call[c].seen # row.identity
          /\ Throw(c, "cleanup-required")
          /\ IF row.status = "active"
             THEN /\ row' = [row EXCEPT !.status = "cleanup-required"]
                  /\ Append("cleanup-intent")
             ELSE UNCHANGED <<row, journal>>
          /\ UNCHANGED status
    /\ UNCHANGED <<branch, tree, git, external>>

\* get() of the workspace, by whoever holds its id.  (Its own await is a step
\* of WorkspaceRegistry; open() never reads what it writes.)
Get ==
    /\ row.status # "absent"
    /\ status' = IF tree.by = row.identity THEN "available"
                 ELSE IF tree.stage = "absent" THEN "missing" ELSE "invalid"
    /\ UNCHANGED <<row, journal, branch, tree, git, call, external>>

-----------------------------------------------------------------------------
(* No row: the path, then the branch, then git *)

\* Mutant: whatever is at the path belongs to somebody else.
LstatNeverReconciles(c) ==
    /\ At(c, "lstat")
    /\ \/ tree.stage = "absent" /\ GoTo(c, "branch")
       \/ tree.stage # "absent" /\ Throw(c, "path-occupied")
    /\ UNCHANGED <<row, status, journal, branch, tree, git, external>>

\* A path without a journaled intent is not Benchhand's.
Lstat(c) ==
    /\ At(c, "lstat")
    /\ \/ tree.stage = "absent" /\ GoTo(c, "branch")
       \/ /\ tree.stage # "absent"
          /\ IF Journaled("create-intent")
             THEN call' = [call EXCEPT ![c].pc = "realpath", ![c].at = "path"]
             ELSE Throw(c, "path-occupied")
    /\ UNCHANGED <<row, status, journal, branch, tree, git, external>>

Orphaned(c) == Append("cleanup-intent") /\ Throw(c, "cleanup-required")

\* A branch at the base with nothing but an intent may be in the making.
\* Without a branch the intent is written before git is started.
CheckBranch(c) ==
    /\ At(c, "branch")
    /\ \/ /\ branch = NoBranch
          /\ Append("create-intent")
          /\ GoTo(c, "git")
          /\ git' = [git EXCEPT ![c] = "branch"]
       \/ /\ branch # NoBranch
          /\ UNCHANGED git
          /\ IF ~Journaled("create-intent")
             THEN Throw(c, "branch-occupied") /\ UNCHANGED journal
             ELSE IF /\ branch.at = "base"
                     /\ ~Journaled("create-failed")
                     /\ ~Journaled("cleanup-intent")
             THEN /\ call' = [call EXCEPT ![c].pc = "realpath", ![c].at = "wait"]
                  /\ UNCHANGED journal
             ELSE Orphaned(c)
    /\ UNCHANGED <<row, status, branch, tree, external>>

\* git has exited.  After a failure the worktree may be there all the same.
GitReturns(c) ==
    /\ At(c, "git")
    /\ \/ /\ git[c] = "ok"
          /\ call' = [call EXCEPT ![c].pc = "resolve", ![c].at = "created"]
       \/ /\ git[c] = "failed"
          /\ call' = [call EXCEPT ![c].pc = "realpath", ![c].at = "caught"]
    /\ UNCHANGED <<row, status, journal, branch, tree, git, external>>

-----------------------------------------------------------------------------
(* #tryReconcilePartialWorktree and #waitForInflightWorktree *)

\* Mutant: the attempts are not counted.
UnreconciledUncounted(c) ==
    \/ call[c].at = "path" /\ Throw(c, "path-occupied") /\ UNCHANGED journal
    \/ call[c].at = "caught" /\ Append("create-failed") /\ Throw(c, "create-failed")
    \/ call[c].at \in {"wait", "final"} /\ GoTo(c, "realpath") /\ UNCHANGED journal

\* What each caller does when there is nothing to reconcile.
Unreconciled(c) ==
    \/ call[c].at = "path" /\ Throw(c, "path-occupied") /\ UNCHANGED journal
    \/ call[c].at = "caught" /\ Append("create-failed") /\ Throw(c, "create-failed")
    \/ call[c].at = "final" /\ Orphaned(c)
    \/ /\ call[c].at = "wait"
       /\ Journaled("create-failed") \/ Journaled("cleanup-intent")
       /\ Orphaned(c)
    \/ /\ call[c].at = "wait"
       /\ ~(Journaled("create-failed") \/ Journaled("cleanup-intent"))
       /\ LET attempt == call[c].attempt + 1 IN
          call' = [call EXCEPT ![c].pc = "realpath", ![c].attempt = attempt,
                               ![c].at = IF attempt < Attempts THEN "wait" ELSE "final"]
       /\ UNCHANGED journal

RealPath(c) ==
    /\ At(c, "realpath")
    /\ \/ tree.stage # "absent" /\ GoTo(c, "list") /\ UNCHANGED journal
       \/ tree.stage = "absent" /\ Unreconciled(c)
    /\ UNCHANGED <<row, status, branch, tree, git, external>>

\* Mutant: an entry at the path will do, whatever its branch and lock.
MatchesPathOnly == tree.stage # "absent"

\* git lists the path with our lock on our branch, at the base commit.
Matches ==
    /\ tree.stage \in {"listed", "full"}
    /\ tree.by # Outsider
    /\ branch.at = "base"

ListWorktrees(c) ==
    /\ At(c, "list")
    /\ \/ Matches /\ GoTo(c, "match") /\ UNCHANGED journal
       \/ ~Matches /\ Unreconciled(c)
    /\ UNCHANGED <<row, status, branch, tree, git, external>>

\* realpath() of the listed path
MatchPath(c) ==
    /\ At(c, "match")
    /\ \/ tree.stage # "absent" /\ GoTo(c, "resolve") /\ UNCHANGED journal
       \/ tree.stage = "absent" /\ Unreconciled(c)
    /\ UNCHANGED <<row, status, branch, tree, git, external>>

-----------------------------------------------------------------------------
(* #registerManagedWorktree *)

\* resolveWorkspaceDirectory()
Resolve(c) ==
    /\ At(c, "resolve")
    /\ \/ tree.stage = "absent" /\ Throw(c, "error")
       \/ /\ tree.stage # "absent"
          /\ call' = [call EXCEPT ![c].pc = "commit", ![c].seen = tree.by]
    /\ UNCHANGED <<row, status, journal, branch, tree, git, external>>

RegisteredBy(c) ==
    /\ row' = [status |-> "active", id |-> c, identity |-> call[c].seen]
    /\ status' = "available"

JournalAction(c) == IF call[c].at = "created" THEN "created" ELSE "reconciled"

\* Mutant: the row is replaced without looking for one.
CommitReplaces(c) ==
    /\ At(c, "commit")
    /\ \/ row.status = "cleanup-required" /\ Throw(c, "error") /\ UNCHANGED <<row, status, journal>>
       \/ /\ row.status # "cleanup-required"
          /\ RegisteredBy(c) /\ Append(JournalAction(c)) /\ Return(c, c)
    /\ UNCHANGED <<branch, tree, git, external>>

\* Mutant: a row that needs cleaning up is brought back.
CommitRevives(c) ==
    /\ At(c, "commit")
    /\ \/ row.status = "active" /\ Return(c, row.id) /\ UNCHANGED <<row, status, journal>>
       \/ /\ row.status # "active"
          /\ RegisteredBy(c) /\ Append(JournalAction(c)) /\ Return(c, c)
    /\ UNCHANGED <<branch, tree, git, external>>

\* One transaction: another call's active row wins, a row that needs
\* cleaning up makes the INSERT fail on its key.
Commit(c) ==
    /\ At(c, "commit")
    /\ \/ row.status = "active" /\ Return(c, row.id) /\ UNCHANGED <<row, status, journal>>
       \/ row.status = "cleanup-required" /\ Throw(c, "error") /\ UNCHANGED <<row, status, journal>>
       \/ /\ row.status = "absent"
          /\ RegisteredBy(c) /\ Append(JournalAction(c)) /\ Return(c, c)
    /\ UNCHANGED <<branch, tree, git, external>>

-----------------------------------------------------------------------------
(* git worktree add --lock --reason .. -b branch path commit *)

GitExits(c, how) == git' = [git EXCEPT ![c] = how]
Owns(c) == tree.by = c

GitMakesBranch(c) ==
    /\ git[c] = "branch"
    /\ \/ /\ branch = NoBranch
          /\ branch' = [by |-> c, at |-> "base"]
          /\ GitExits(c, "directory")
       \/ branch # NoBranch /\ GitExits(c, "failed") /\ UNCHANGED branch
    /\ UNCHANGED <<row, status, journal, tree, call, external>>

GitMakesDirectory(c) ==
    /\ git[c] = "directory"
    /\ \/ /\ tree = NoTree
          /\ tree' = [by |-> c, stage |-> "directory"]
          /\ GitExits(c, "list")
       \/ tree # NoTree /\ GitExits(c, "failed") /\ UNCHANGED tree
    /\ UNCHANGED <<row, status, journal, branch, call, external>>

GitFillsDirectory(c) ==
    /\ Owns(c)
    /\ \/ /\ git[c] = "list" /\ GitExits(c, "checkout")
          /\ tree' = [tree EXCEPT !.stage = "listed"]
       \/ /\ git[c] = "checkout" /\ GitExits(c, "ok")
          /\ tree' = [tree EXCEPT !.stage = "full"]
    /\ UNCHANGED <<row, status, journal, branch, call, external>>

\* A disk that is full, a lock of git's that is taken, a path that is gone.
GitBreaks(c) ==
    /\ git[c] \in {"branch", "directory", "list", "checkout"}
    /\ c \in GitFails \/ (git[c] \in {"list", "checkout"} /\ ~Owns(c))
    /\ GitExits(c, "failed")
    /\ tree' = IF Owns(c) THEN NoTree ELSE tree
    /\ UNCHANGED <<row, status, journal, branch, call, external>>

-----------------------------------------------------------------------------
(* Failures and other programs *)

\* The call ends without an answer: an await or a statement throws what no
\* case handles (I/O, SQLite, a git query), or its process dies.  A git that
\* was at work goes on, or is killed with it.  Several calls of one process
\* die one after the other, which includes their dying at once.
Stop(c) ==
    /\ call[c].pc \notin {"idle", "settled", "lost"}
    /\ Ends(c, "lost", "none", None)
    /\ \/ UNCHANGED git
       \/ git[c] \notin {"idle", "ok", "failed"} /\ GitExits(c, "failed")
    /\ UNCHANGED <<row, status, journal, branch, tree, external>>

\* Somebody takes the branch's name; takes the path before or after a git has
\* begun to use it; removes the worktree's directory; commits on its branch.
GitHasBegun == \E c \in Calls : git[c] \notin {"idle", "branch", "directory"}

External ==
    /\ external = "nothing"
    /\ external' \in Externals
    /\ \/ /\ external' = "branch taken" /\ branch = NoBranch
          /\ \E at \in {"base", "elsewhere"} : branch' = [by |-> Outsider, at |-> at]
          /\ UNCHANGED tree
       \/ /\ external' = (IF GitHasBegun THEN "path exchanged" ELSE "path taken")
          /\ tree = NoTree
          /\ tree' = [by |-> Outsider, stage |-> "directory"]
          /\ UNCHANGED branch
       \/ /\ external' = "removed" /\ tree # NoTree
          /\ tree' = NoTree
          /\ UNCHANGED branch
       \/ /\ external' = "committed" /\ tree.stage = "full"
          /\ branch' = [branch EXCEPT !.at = "elsewhere"]
          /\ UNCHANGED tree
    /\ UNCHANGED <<row, status, journal, git, call>>

-----------------------------------------------------------------------------

Step(c) ==
    \/ ReadRow(c) \/ Inspect(c) \/ UseRow(c)
    \/ Lstat(c) \/ CheckBranch(c) \/ GitReturns(c)
    \/ RealPath(c) \/ ListWorktrees(c) \/ MatchPath(c) \/ Resolve(c) \/ Commit(c)

GitStep(c) ==
    GitMakesBranch(c) \/ GitMakesDirectory(c) \/ GitFillsDirectory(c) \/ GitBreaks(c)

Next ==
    \/ \E c \in Calls : Open(c) \/ Step(c) \/ GitStep(c) \/ Stop(c)
    \/ Get \/ External

Spec == Init /\ [][Next]_vars

\* The event loop gets to every continuation and git comes to an end;
\* nothing makes a caller call, a process die or another program act.
FairSpec ==
    /\ Spec
    /\ \A c \in Calls : WF_vars(Step(c)) /\ WF_vars(GitStep(c))

-----------------------------------------------------------------------------
(* Properties *)

\* Everybody who opens the worktree gets the workspace of its one row, however
\* the calls interleave and whatever failed in between (the transaction of
\* #registerManagedWorktree against the reads before its awaits).
OneWorkspace ==
    \A c \in Calls : call[c].answer = "opened" =>
        row.status # "absent" /\ row.id = call[c].id

\* A row is only ever made for a directory and a branch that Benchhand's own
\* git made, after journaling that it would: nothing foreign is adopted
\* (#tryReconcilePartialWorktree's test of the listed worktree, the checks of
\* the path and the branch).  The exception: between 'git worktree list' and
\* resolveWorkspaceDirectory() git's directory can be exchanged for another.
NothingForeignAdopted ==
    row.status # "absent" /\ external # "path exchanged" =>
        /\ row.identity \in Calls
        /\ branch.by = row.identity
        /\ Journaled("create-intent")

\* A worktree that git finished before its opener died or failed, and that
\* nobody touched since, is not lost: no later open() of the key is turned away
\* (the journaled intent and the reconciliation of the path).
TurnedAway(c) == call[c].answer \in {"cleanup-required", "path-occupied",
                                     "branch-occupied", "create-failed"}
InterruptedIsAdopted ==
    \A c \in Calls : call[c].found = "full" /\ external = "nothing" => ~TurnedAway(c)

\* The row of a worktree that needs cleaning up stays as it is, whatever a call
\* has read of it before (UseRow's guard, the primary key of managed_worktrees).
CleanupSticky == [][row.status = "cleanup-required" => row' = row]_vars

\* Every open() returns or throws or dies with its process: the wait for
\* another opener's worktree is bounded.
OpensSettle ==
    \A c \in Calls : call[c].pc = "read" ~> call[c].pc \in {"settled", "lost"}

\* What test/worktree.test.ts:406 says of two concurrent opens: they coalesce.
\* Nobody is refused because another open() of the key is at work.  (A wait
\* that runs out of attempts is not counted.)
Coalesced ==
    \A c \in Calls : call[c].answer \notin {"path-occupied", "create-failed"}
=============================================================================
