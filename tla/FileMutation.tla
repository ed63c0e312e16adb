----------------------------- MODULE FileMutation -----------------------------
(***************************************************************************)
(* FilesystemService.write() and patch(): a mutation waits its turn in the *)
(* WriteQueue of its target, compares the target with the caller's hash,   *)
(* writes and syncs a temporary file beside it, compares again, and        *)
(* commits with rename() or, for a create-only write, with link().         *)
(*                                                                         *)
(* Every await in #writeAtomic() is a point where other calls, other       *)
(* processes (an editor, git, a second daemon) and a crash can come in     *)
(* between; each action is one awaited system call.  Contents stand for    *)
(* their SHA-256, which is taken to be injective; inspectWriteTarget()     *)
(* (lstat and hash) is one step.                                           *)
(***************************************************************************)
EXTENDS Naturals

CONSTANTS
    Calls, Services, Keys, ServiceOf, None,   \* as in WriteQueue
    Files,        \* directory entries on the disk
    FileOf,       \* the entry a key names; two services can name the same
    Contents,     \* contents of regular files
    Absent,       \* the entry does not exist; as expectation: create-only
    Special,      \* a symbolic link or a directory
    Partial,      \* some of the bytes of a content
    Unconditional,  \* expectation: none given
    Requests,     \* the mutations that may be asked for
    MaxFaults     \* bound: changes by programs that are no daemon, and deaths of
                  \* a daemon by a crash or a power failure

ASSUME FileAssumption == FileOf \in [Keys -> Files]
ASSUME ContentAssumption ==
    /\ {Absent, Special, Partial, Unconditional, None} \cap Contents = {}
    /\ Absent # Special /\ Absent # Partial /\ Absent # Unconditional
    /\ Special # Partial /\ Special # Unconditional /\ Partial # Unconditional

\* The key of a target is its canonical parent and its name: in a service, on a
\* file system that tells letter cases apart, an entry has one key.
ASSUME KeyAssumption ==
    /\ ServiceOf \in [Keys -> Services] /\ None \notin Calls \cup Keys
    /\ \A j, k \in Keys : ServiceOf[j] = ServiceOf[k] /\ FileOf[j] = FileOf[k] => j = k

\* A patch always names a hash.
ASSUME RequestAssumption ==
    /\ Requests \subseteq [kind : {"write", "patch"},
                          expected : Contents \cup {Absent, Unconditional}, content : Contents]
    /\ \A r \in Requests : r.kind = "patch" => r.expected \in Contents

VARIABLES
    tails, stage, key, previous, arrival, arrived,   \* the WriteQueue
    job,        \* per call, the request and the local variables of the call
    temp,       \* per call, its temporary file
    file,       \* per entry, what a reader sees
    disk,       \* per entry, what is certain to survive a power failure
    writer,     \* history: per entry, the call that committed to it last
    external,   \* history: how many changes other programs made
    deaths      \* history: how many daemons died

queueVars == <<tails, stage, key, previous, arrival, arrived>>
vars == <<tails, stage, key, previous, arrival, arrived,
          job, temp, file, disk, writer, external, deaths>>

Queue == INSTANCE WriteQueue

Entries == Contents \cup {Absent, Special, Partial}

\* kind, expected and content are the request; step is the next await;
\* before is what the second inspection found and the result reports;
\* replaced and overtaken are history: what the commit took the place of, and
\* the call that had put it there, None if it was no call.
Steps == {"idle", "inspect-source", "read-source", "inspect", "open", "fill",
          "recheck", "commit", "unlink", "sync", "clean-up", "over"}
Outcomes == {"none", "file-and-directory", "file-only", "conflict", "error"}
Job == [kind : {"write", "patch"}, expected : Contents \cup {Absent, Unconditional},
        content : Contents \cup {None}, step : Steps, outcome : Outcomes,
        before : Entries, replaced : Entries, overtaken : Calls \cup {None}]

Idle == [kind |-> "write", expected |-> Unconditional, content |-> None, step |-> "idle",
         outcome |-> "none", before |-> Absent, replaced |-> Absent,
         overtaken |-> None]

TypeOK ==
    /\ Queue!TypeOK
    /\ job \in [Calls -> Job]
    /\ temp \in [Calls -> Contents \cup {Absent, Partial}]
    /\ file \in [Files -> Entries]
    /\ disk \in [Files -> Entries]
    /\ writer \in [Files -> Calls \cup {None}]
    /\ external \in Nat
    /\ deaths \in Nat

Init ==
    /\ Queue!Init
    /\ job = [w \in Calls |-> Idle]
    /\ temp = [w \in Calls |-> Absent]
    /\ file \in [Files -> Contents \cup {Absent}]
    /\ disk = file
    /\ writer = [f \in Files |-> None]
    /\ external = 0
    /\ deaths = 0

Target(w) == FileOf[key[w]]
Succeeded == {"file-and-directory", "file-only"}

-----------------------------------------------------------------------------
(* Taking turns *)

\* A request reaches #serializeWrite().
Arrive(w, k, r) ==
    /\ Queue!Enqueue(w, k)
    /\ job' = [job EXCEPT ![w] = [Idle EXCEPT !.kind = r.kind, !.expected = r.expected,
                                              !.content = r.content]]
    /\ UNCHANGED <<temp, file, disk, writer, external, deaths>>

\* Mutant: the operation starts when it arrives.
BeginUnqueued(w) ==
    /\ stage[w] = "queued"
    /\ stage' = [stage EXCEPT ![w] = "running"]
    /\ job' = [job EXCEPT ![w].step =
                 IF job[w].kind = "patch" THEN "inspect-source" ELSE "inspect"]
    /\ UNCHANGED <<tails, key, previous, arrival, arrived,
                   temp, file, disk, writer, external, deaths>>

\* Its turn has come.
Begin(w) ==
    /\ Queue!Begin(w)
    /\ job' = [job EXCEPT ![w].step =
                 IF job[w].kind = "patch" THEN "inspect-source" ELSE "inspect"]
    /\ UNCHANGED <<temp, file, disk, writer, external, deaths>>

\* The operation settles with an outcome.
End(w, outcome) ==
    /\ Queue!Settle(w)
    /\ job' = [job EXCEPT ![w].step = "over", ![w].outcome = outcome]

\* The operation goes on to its next await.
GoOn(w, step) ==
    /\ job' = [job EXCEPT ![w].step = step]
    /\ UNCHANGED queueVars

\* Mutant: the failure is swallowed and the promise never settles.
AbandonUnsettled(w, outcome) ==
    /\ job' = [job EXCEPT ![w].step = "over", ![w].outcome = outcome]
    /\ UNCHANGED queueVars

\* The operation has failed with a temporary file to remove.
Abandon(w, outcome) ==
    /\ job' = [job EXCEPT ![w].step = "clean-up", ![w].outcome = outcome]
    /\ UNCHANGED queueVars

Release(w) ==
    /\ Queue!Release(w)
    /\ UNCHANGED <<job, temp, file, disk, writer, external, deaths>>

At(w, step) == stage[w] = "running" /\ job[w].step = step

-----------------------------------------------------------------------------
(* patch(): the part before #writeAtomic() *)

\* The first comparison of patch(): the target must have the hash.
InspectSource(w) ==
    /\ At(w, "inspect-source")
    /\ \/ file[Target(w)] = job[w].expected /\ GoOn(w, "read-source")
       \/ file[Target(w)] \notin {job[w].expected, Special} /\ End(w, "conflict")
       \/ file[Target(w)] = Special /\ End(w, "error")
    /\ UNCHANGED <<temp, file, disk, writer, external, deaths>>

\* The source is read and compared again; the plan may not apply to it.
ReadSource(w) ==
    /\ At(w, "read-source")
    /\ \/ file[Target(w)] = job[w].expected /\ GoOn(w, "inspect")
       \/ file[Target(w)] # Absent /\ End(w, "conflict")
       \/ End(w, "error")
    /\ UNCHANGED <<temp, file, disk, writer, external, deaths>>

-----------------------------------------------------------------------------
(* #writeAtomic() *)

\* enforceWritePrecondition() on what inspectWriteTarget() found.
PreconditionHolds(expected, found) ==
    \/ expected = Unconditional
    \/ expected = found

Inspect(w) ==
    LET found == file[Target(w)] IN
    /\ At(w, "inspect")
    /\ \/ found = Special /\ End(w, "error")
       \/ /\ found # Special
          /\ IF PreconditionHolds(job[w].expected, found)
             THEN GoOn(w, "open") ELSE End(w, "conflict")
    /\ UNCHANGED <<temp, file, disk, writer, external, deaths>>

\* open(tempPath, 'wx'): the name is new, but the disk may refuse.
OpenTemp(w) ==
    /\ At(w, "open")
    /\ \/ temp' = [temp EXCEPT ![w] = Partial] /\ GoOn(w, "fill")
       \/ UNCHANGED temp /\ End(w, "error")
    /\ UNCHANGED <<file, disk, writer, external, deaths>>

\* Mutant: writeFile is not awaited.
FillTempUnawaited(w) ==
    /\ At(w, "fill")
    /\ GoOn(w, "recheck")
    /\ UNCHANGED <<temp, file, disk, writer, external, deaths>>

\* chmod, writeFile and sync of the temporary file.
FillTemp(w) ==
    /\ At(w, "fill")
    /\ \/ temp' = [temp EXCEPT ![w] = job[w].content] /\ GoOn(w, "recheck")
       \/ UNCHANGED temp /\ Abandon(w, "error")
    /\ UNCHANGED <<file, disk, writer, external, deaths>>

\* The second inspection, immediately before the commit.
Recheck(w) ==
    LET found == file[Target(w)] IN
    /\ At(w, "recheck")
    /\ \/ found = Special /\ Abandon(w, "error")
       \/ /\ found # Special
          /\ IF PreconditionHolds(job[w].expected, found)
             THEN /\ job' = [job EXCEPT ![w].step = "commit", ![w].before = found]
                  /\ UNCHANGED queueVars
             ELSE Abandon(w, "conflict")
    /\ UNCHANGED <<temp, file, disk, writer, external, deaths>>

\* The entry names the temporary file's content from here on.
Replace(w, step) ==
    /\ file' = [file EXCEPT ![Target(w)] = temp[w]]
    /\ writer' = [writer EXCEPT ![Target(w)] = w]
    /\ job' = [job EXCEPT ![w].step = step, ![w].replaced = file[Target(w)],
                          ![w].overtaken = writer[Target(w)]]
    /\ UNCHANGED queueVars

\* link(tempPath, target) fails when the target exists.
Link(w) ==
    /\ At(w, "commit")
    /\ job[w].expected = Absent
    /\ \/ file[Target(w)] = Absent /\ Replace(w, "unlink")
       \/ /\ file[Target(w)] # Absent /\ Abandon(w, "conflict")
          /\ UNCHANGED <<file, writer>>
       \/ Abandon(w, "error") /\ UNCHANGED <<file, writer>>
    /\ UNCHANGED <<temp, disk, external, deaths>>

\* rename(tempPath, target) replaces whatever is there.
Rename(w) ==
    /\ At(w, "commit")
    /\ job[w].expected # Absent
    /\ \/ Replace(w, "sync") /\ temp' = [temp EXCEPT ![w] = Absent]
       \/ Abandon(w, "error") /\ UNCHANGED <<file, writer, temp>>
    /\ UNCHANGED <<disk, external, deaths>>

\* Mutant: a temporary name that cannot be removed fails the write.
UnlinkThrows(w) ==
    /\ At(w, "unlink")
    /\ \/ GoOn(w, "sync") /\ temp' = [temp EXCEPT ![w] = Absent]
       \/ Abandon(w, "error") /\ UNCHANGED temp
    /\ UNCHANGED <<file, disk, writer, external, deaths>>

\* After link() the temporary name goes; if it cannot, it is left behind.
Unlink(w) ==
    /\ At(w, "unlink")
    /\ GoOn(w, "sync")
    /\ temp' \in {temp, [temp EXCEPT ![w] = Absent]}
    /\ UNCHANGED <<file, disk, writer, external, deaths>>

\* Mutant: a failed sync of the directory is reported as a success.
SyncDirectoryUnchecked(w) ==
    /\ At(w, "sync")
    /\ End(w, "file-and-directory")
    /\ \/ disk' = [disk EXCEPT ![Target(w)] = file[Target(w)]]
       \/ UNCHANGED disk
    /\ UNCHANGED <<temp, file, writer, external, deaths>>

\* The directory is synced if the platform can; the write has succeeded.
SyncDirectory(w) ==
    /\ At(w, "sync")
    /\ \/ /\ End(w, "file-and-directory")
          /\ disk' = [disk EXCEPT ![Target(w)] = file[Target(w)]]
       \/ End(w, "file-only") /\ UNCHANGED disk
    /\ UNCHANGED <<temp, file, writer, external, deaths>>

\* The finally block of a failed write: remove the temporary file if one can.
\* (What patch() inspects once more for its conflict's message is left out.)
CleanUp(w) ==
    /\ At(w, "clean-up")
    /\ End(w, job[w].outcome)
    /\ temp' \in {temp, [temp EXCEPT ![w] = Absent]}
    /\ UNCHANGED <<file, disk, writer, external, deaths>>

-----------------------------------------------------------------------------
(* The rest of the world *)

\* Another program creates, changes, replaces or removes the entry.
External(f, entry) ==
    /\ external + deaths < MaxFaults
    /\ external' = external + 1
    /\ entry # file[f]
    /\ file' = [file EXCEPT ![f] = entry]
    /\ writer' = [writer EXCEPT ![f] = None]
    /\ UNCHANGED <<tails, stage, key, previous, arrival, arrived,
                   job, temp, disk, deaths>>

\* The daemon process dies; the files stay as they are.
Crash(s) ==
    /\ external + deaths < MaxFaults
    /\ deaths' = deaths + 1
    /\ Queue!Die({s})
    /\ UNCHANGED <<job, temp, file, disk, writer, external>>

\* The machine dies: each entry is what was synced last or what was visible.
PowerFailure ==
    /\ external + deaths < MaxFaults
    /\ deaths' = deaths + 1
    /\ \E lost \in SUBSET Files :
          file' = [f \in Files |-> IF f \in lost THEN disk[f] ELSE file[f]]
    /\ disk' = file'
    /\ Queue!Die(Services)
    /\ UNCHANGED <<job, temp, writer, external>>

Step(w) ==
    \/ Begin(w) \/ InspectSource(w) \/ ReadSource(w) \/ Inspect(w) \/ OpenTemp(w)
    \/ FillTemp(w) \/ Recheck(w) \/ Link(w) \/ Rename(w) \/ Unlink(w)
    \/ SyncDirectory(w) \/ CleanUp(w) \/ Release(w)

Next ==
    \/ \E w \in Calls : \E k \in Keys : \E r \in Requests : Arrive(w, k, r)
    \/ \E w \in Calls : Step(w)
    \/ \E f \in Files : \E entry \in Contents \cup {Absent, Special} :
          External(f, entry)
    \/ \E s \in Services : Crash(s)
    \/ PowerFailure

Spec == Init /\ [][Next]_vars

\* Awaited system calls return and queued microtasks run.
FairSpec == Spec /\ \A w \in Calls : WF_vars(Step(w))

-----------------------------------------------------------------------------
(* Properties *)

\* A write or patch with an expected hash takes the place of exactly that
\* content, unless somebody outside its daemon changed the entry after the last
\* comparison: no update of a call of the same daemon is ever lost, however the
\* comparisons, commits, failures and crashes of its calls interleave; and a
\* create-only write never takes the place of anything, whoever else is at work
\* (404-497, 653-708).
PreconditionAtCommit ==
    \A w \in Calls :
        job[w].outcome \in Succeeded /\ job[w].expected # Unconditional =>
            \/ job[w].replaced = job[w].expected
            \/ /\ job[w].expected # Absent
               /\ \/ job[w].overtaken = None /\ external > 0
                  \/ /\ job[w].overtaken # None
                     /\ ServiceOf[key[job[w].overtaken]] # ServiceOf[key[w]]

\* Readers see the old content or the new one, never a part, before and
\* after a crash or a power failure (670-709).
NeverPartial == \A f \in Files : file[f] # Partial

\* A write reported as 'file-and-directory' survives a power failure, as
\* long as nobody has changed the entry since (711-717).
DurableSurvives ==
    \A w \in Calls :
        /\ job[w].outcome = "file-and-directory"
        /\ writer[Target(w)] = w
        => file[Target(w)] = job[w].content /\ disk[Target(w)] = job[w].content

\* A refused or failed mutation has not touched its target (660-708, 726-730).
RefusedLeavesTarget ==
    \A w \in Calls :
        job[w].outcome \in {"conflict", "error"} =>
            \A f \in Files : writer[f] # w

\* Every mutation that waits its turn is settled, whatever happens to the
\* ones before it, unless its process dies.
MutationsSettle ==
    \A w \in Calls : stage[w] = "queued" ~> stage[w] \in {"released", "dead"}

\* The calls take turns as the WriteQueue says.
TakesTurns == Queue!Spec
=============================================================================
