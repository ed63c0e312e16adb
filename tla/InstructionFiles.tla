---------------------------- MODULE InstructionFiles ----------------------------
(***************************************************************************)
(* resolve() of InstructionsService (packages/instructions): the           *)
(* instruction files of a workspace, from its root down to the directory   *)
(* asked for, each read until it did not change while it was read, with a  *)
(* cache of what was read before.                                          *)
(*                                                                         *)
(* A request begins with WorkspaceRegistry.get() and goes on with its      *)
(* answer.  It looks its files up by path, so each step sees the directory *)
(* the path leads to by then; programs replace the files, or write them in *)
(* place, block by block, at any time.                                     *)
(***************************************************************************)
EXTENDS WorkspaceRegistry, Sequences, Functions

CONSTANTS
    Scopes,         \* the directories from the root to the one asked for
    Filenames,      \* the names the providers read, by precedence
    Contents,       \* what programs write into instruction files
    Blocks,         \* the number of blocks of each
    MaxBlocks,      \* MAX_INSTRUCTION_BYTES
    MaxTotal,       \* MAX_TOTAL_INSTRUCTION_BYTES
    Undecodable,    \* contents that are no UTF-8 text, or have a NUL
    Irregular,      \* contents of what is no file of the workspace: nothing to
                    \* be read of a directory, or what a link out of it leads to
    Attempts,       \* MAX_STABLE_READ_ATTEMPTS
    ScopesOf,       \* the scopes that are directories, in each directory
    InitialInodes, InitialFiles,   \* the files at first
    MaxWrites       \* bound: changes of instruction files

ASSUME BlocksAssumption == Blocks \in [Contents -> Nat \ {0}] /\ Irregular \subseteq Contents
ASSUME AttemptsAssumption == Attempts \in Nat \ {0}
ASSUME SizesAssumption == MaxBlocks \in Nat /\ MaxTotal \in Nat /\ MaxWrites \in Nat
ASSUME ChainAssumption ==
    /\ Scopes \in Seq(Range(Scopes)) \ {<<>>}
    /\ Filenames \in Seq(Range(Filenames)) \ {<<>>}

VARIABLES
    inodes,     \* files on disk: their blocks, and a version for size and times
    files,      \* the inode of each instruction file of each directory, 0 if none
    writes,
    cache,      \* #fileCache, by path
    resolving,  \* the request of each reader
    disturbed   \* changes of the file each request is reading (for the properties)

instructionVars == <<inodes, files, writes, cache, resolving, disturbed>>

-------------------------------------------------------------------------------
(* Files *)

Slots == Range(Scopes) \X Range(Filenames)

\* What resolve() asks for, in the order it asks: scopes from the root down,
\* in each the providers by precedence.
Chain ==
    [k \in 1 .. Len(Scopes) * Len(Filenames) |->
        <<Scopes[((k - 1) \div Len(Filenames)) + 1], Filenames[((k - 1) % Len(Filenames)) + 1]>>]

\* A file has at least a block, an empty one too.
Inode == [blocks : Seq(Contents) \ {<<>>}, version : Nat]
ASSUME InitialFilesAssumption ==
    /\ InitialInodes \in Seq(Inode)
    /\ InitialFiles \in [Directories -> [Slots -> 0 .. Len(InitialInodes)]]

Whole(content) == [b \in 1 .. Blocks[content] |-> content]
NoFile == 0
Fingerprint(inode) == <<inode, inodes[inode].version>>

IsRegular(inode) == inodes[inode].blocks[1] \notin Irregular

\* The inode that a path leads to at this moment.
FileAt(place, disk, path, slot) ==
    IF place[path] \in Directories THEN disk[place[path]][slot] ELSE NoFile

RequestStages == {"idle", "root", "scope", "stat", "open", "read", "restat", "settled"}
Outcomes == {"none", "resolved", "not-found", "unavailable", "scope-refused", "refused", "failed",
             "too-large", "binary", "disappeared", "changed"}
NoText == <<>>
Uncached == [fingerprint |-> <<>>, content |-> NoText]

IdleRequest == [pc |-> "idle", step |-> 1, attempt |-> 0, fingerprint |-> <<>>, size |-> 0,
                handle |-> NoFile, buffer |-> <<>>, known |-> Uncached,
                documents |-> <<>>, total |-> 0, outcome |-> "none"]

InstructionTypeOK ==
    /\ \A i \in DOMAIN inodes : Range(inodes[i].blocks) \subseteq Contents
    /\ files \in [Directories -> [Slots -> 0 .. Len(inodes)]]
    /\ writes \in 0 .. MaxWrites
    /\ \A c \in Readers :
          /\ resolving[c].pc \in RequestStages
          /\ resolving[c].outcome \in Outcomes
          /\ (resolving[c].pc = "settled") = (resolving[c].outcome # "none")
          /\ resolving[c].step \in 1 .. Len(Chain)
          /\ resolving[c].attempt \in 0 .. Attempts
          /\ resolving[c].attempt = Attempts => resolving[c].outcome = "changed"
          /\ resolving[c].total <= MaxTotal
          /\ resolving[c].pc # "settled" => Len(resolving[c].documents) < resolving[c].step
    /\ disturbed \in [Readers -> 0 .. MaxWrites + MaxMoves]

InstructionInit ==
    /\ inodes = InitialInodes
    /\ files = InitialFiles
    /\ writes = 0
    /\ cache = [x \in Paths \X Slots |-> Uncached]
    /\ resolving = [c \in Readers |-> IdleRequest]
    /\ disturbed = [c \in Readers |-> 0]

-------------------------------------------------------------------------------
(* Other programs *)

PathOf(c) == rows[getting[c].id].path
Slot(c) == Chain[resolving[c].step]
Current(c) == FileAt(at, files, PathOf(c), Slot(c))
CandidateOf(c) == <<PathOf(c), Slot(c)>>
Reading(c) == resolving[c].pc \in {"open", "read", "restat"}

\* Count what happens to the file each request is reading.
Disturbed(place, disk, store) ==
    [c \in Readers |->
        IF /\ Reading(c)
           /\ LET now == FileAt(place, disk, PathOf(c), Slot(c))
              IN  \/ now # Current(c)
                 \/ (now # NoFile /\ store[now] # inodes[now])
        THEN disturbed[c] + 1 ELSE disturbed[c]]

Written(disk, store) ==
    /\ writes < MaxWrites
    /\ files' = disk
    /\ inodes' = store
    /\ writes' = writes + 1
    /\ disturbed' = Disturbed(at, disk, store)
    /\ UNCHANGED <<cache, resolving>>

\* A new file under the name: created, or renamed over the old one.
Replace(d, s) ==
    /\ s[1] \in ScopesOf[d]
    /\ \E content \in Contents :
          Written([files EXCEPT ![d][s] = Len(inodes) + 1],
                  Append(inodes, [blocks |-> Whole(content), version |-> 0]))

Unlink(d, s) == files[d][s] # NoFile /\ Written([files EXCEPT ![d][s] = NoFile], inodes)

Rewritten(inode, blocks) ==
    Written(files, [inodes EXCEPT ![inode] = [blocks |-> blocks, version |-> @.version + 1]])

\* A program writes a file in place: its first block, then all of it.
WriteInPlace(d, s) ==
    /\ files[d][s] # NoFile /\ IsRegular(files[d][s])
    /\ \E content \in Contents \ Irregular : Rewritten(files[d][s], <<content>>)
FinishInPlace(d, s) ==
    /\ files[d][s] # NoFile
    /\ LET inode == inodes[files[d][s]]
       IN  /\ Len(inode.blocks) < Blocks[inode.blocks[1]]
           /\ Rewritten(files[d][s], Whole(inode.blocks[1]))

\* A change that size and times do not show, as with coarse clocks; never
\* while a request reads the file, where the code relies on them.
WriteUnnoticed(d, s) ==
    /\ files[d][s] # NoFile /\ IsRegular(files[d][s])
    /\ \A c \in Readers : ~Reading(c)
    /\ \E content \in Contents \ Irregular :
          /\ Blocks[content] = Len(inodes[files[d][s]].blocks)
          /\ Written(files, [inodes EXCEPT ![files[d][s]].blocks = Whole(content)])

-------------------------------------------------------------------------------
(* resolve() *)

Goes(c, request) == resolving' = [resolving EXCEPT ![c] = request]
Ends(c, outcome) == Goes(c, [resolving[c] EXCEPT !.pc = "settled", !.outcome = outcome])

\* The workspace handle, as get() answered it.
BeginResolve(c) ==
    /\ resolving[c].pc = "idle" /\ getting[c].pc = "settled"
    /\ IF getting[c].answer = "not-found" THEN Ends(c, "not-found")
       ELSE IF getting[c].answer = "failed" THEN Ends(c, "failed")
       ELSE IF getting[c].answer # "available" THEN Ends(c, "unavailable")
       ELSE Goes(c, [resolving[c] EXCEPT !.pc = "root"])
    /\ UNCHANGED <<inodes, files, writes, cache, disturbed>>

CanonicalWorkspaceRoot(c) ==
    /\ resolving[c].pc = "root"
    /\ IF at[PathOf(c)] \in {"missing", "inaccessible"} THEN Ends(c, "unavailable")
       ELSE Goes(c, [resolving[c] EXCEPT !.pc = "scope"])
    /\ UNCHANGED <<inodes, files, writes, cache, disturbed>>

ResolveScopeDirectory(c) ==
    /\ resolving[c].pc = "scope"
    /\ LET o == at[PathOf(c)]
       IN  IF o \in Directories /\ Slot(c)[1] \in ScopesOf[o]
           THEN Goes(c, [resolving[c] EXCEPT !.pc = "stat"])
           ELSE Ends(c, "scope-refused")
    /\ UNCHANGED <<inodes, files, writes, cache, disturbed>>

\* On to the next provider, or to the next scope, or to the result.
Continued(request) ==
    LET k == request.step
    IN  IF k = Len(Chain) THEN [request EXCEPT !.pc = "settled", !.outcome = "resolved"]
        ELSE [request EXCEPT !.step = k + 1,
                             !.pc = IF Chain[k + 1][1] = Chain[k][1] THEN "stat" ELSE "scope"]

Reachable(c) == at[PathOf(c)] \in Directories \cup {"missing"}
StatOf(c, request) ==
    [request EXCEPT !.fingerprint = Fingerprint(Current(c)),
                    !.size = Len(inodes[Current(c)].blocks),
                    !.handle = NoFile, !.buffer = <<>>, !.pc = "open"]

\* The first stat of a file: none means no document, and nothing cached; what
\* is no file of the workspace is refused.
StatInstruction(c) ==
    /\ resolving[c].pc = "stat"
    /\ disturbed' = [disturbed EXCEPT ![c] = 0]
    /\ IF ~Reachable(c) THEN Ends(c, "failed") /\ UNCHANGED cache
       ELSE IF Current(c) = NoFile
       THEN /\ cache' = [cache EXCEPT ![CandidateOf(c)] = Uncached]
            /\ Goes(c, Continued(resolving[c]))
       ELSE IF ~IsRegular(Current(c)) THEN Ends(c, "refused") /\ UNCHANGED cache
       ELSE /\ Goes(c, StatOf(c, [resolving[c] EXCEPT !.attempt = 0, !.known = cache[CandidateOf(c)]]))
            /\ UNCHANGED cache
    /\ UNCHANGED <<inodes, files, writes>>

\* readFile() opens the file, or what has taken its place, reads the first block ...
OpenInstruction(c) ==
    /\ resolving[c].pc = "open"
    /\ IF resolving[c].size > MaxBlocks THEN Ends(c, "too-large")
       ELSE IF ~Reachable(c) THEN Ends(c, "failed")
       ELSE IF Current(c) = NoFile THEN Ends(c, "disappeared")
       ELSE \/ Goes(c, [resolving[c] EXCEPT !.pc = "read", !.handle = Current(c),
                                            !.buffer = SubSeq(inodes[Current(c)].blocks, 1, 1)])
            \/ ~IsRegular(Current(c)) /\ Ends(c, "failed")
    /\ UNCHANGED <<inodes, files, writes, cache, disturbed>>

\* ... and the others of the same file, wherever its name leads by then.
ReadInstruction(c) ==
    /\ resolving[c].pc = "read"
    /\ LET blocks == inodes[resolving[c].handle].blocks
           buffer == resolving[c].buffer \o SubSeq(blocks, 2, Len(blocks))
       IN  IF Len(buffer) > MaxBlocks THEN Ends(c, "too-large")
           ELSE Goes(c, [resolving[c] EXCEPT !.pc = "restat", !.buffer = buffer])
    /\ UNCHANGED <<inodes, files, writes, cache, disturbed>>

IsText(buffer) == Range(buffer) \cap Undecodable = {}

\* Mutant: the cache trusts the fingerprint.
ReusedByFingerprint(known, fingerprint, buffer) ==
    known.fingerprint # <<>> /\ known.fingerprint = fingerprint

\* The cached text is used again when it is the text of these very bytes.
Reused(known, fingerprint, buffer) == known.fingerprint # <<>> /\ known.content = buffer

\* Mutant: a loop without a bound.
NextAttemptUnbounded(c) == StatOf(c, [resolving[c] EXCEPT !.attempt = @ + 1])

\* Mutant: the loop goes round with the metadata it began with.
NextAttemptForgetful(c) ==
    IF resolving[c].attempt + 1 = Attempts
    THEN [resolving[c] EXCEPT !.attempt = Attempts, !.pc = "settled", !.outcome = "changed"]
    ELSE [resolving[c] EXCEPT !.attempt = @ + 1, !.pc = "open"]

\* Once more, with the metadata of the second stat, unless that was the last.
NextAttempt(c) ==
    IF resolving[c].attempt + 1 = Attempts
    THEN [resolving[c] EXCEPT !.attempt = Attempts, !.pc = "settled", !.outcome = "changed"]
    ELSE StatOf(c, [resolving[c] EXCEPT !.attempt = @ + 1])

\* The second stat: the bytes count if nothing changed around the read.
RestatInstruction(c) ==
    /\ resolving[c].pc = "restat"
    /\ LET r == resolving[c]
           stable == /\ Current(c) # NoFile /\ Fingerprint(Current(c)) = r.fingerprint
                     /\ Len(inodes[Current(c)].blocks) = Len(r.buffer)
           content == IF Reused(r.known, r.fingerprint, r.buffer) THEN r.known.content ELSE r.buffer
           total == r.total + Len(content)
       IN  IF ~Reachable(c) THEN Ends(c, "failed") /\ UNCHANGED cache
           ELSE IF Current(c) = NoFile THEN Ends(c, "disappeared") /\ UNCHANGED cache
           ELSE IF ~IsRegular(Current(c)) THEN Ends(c, "refused") /\ UNCHANGED cache
           ELSE IF ~stable THEN Goes(c, NextAttempt(c)) /\ UNCHANGED cache
           ELSE IF ~Reused(r.known, r.fingerprint, r.buffer) /\ ~IsText(r.buffer)
           THEN Ends(c, "binary") /\ UNCHANGED cache
           ELSE /\ cache' = [cache EXCEPT ![CandidateOf(c)] =
                                [fingerprint |-> r.fingerprint, content |-> content]]
                /\ IF total > MaxTotal THEN Ends(c, "too-large")
                   ELSE Goes(c, Continued([r EXCEPT !.total = total, !.handle = NoFile, !.buffer = <<>>,
                                            !.fingerprint = <<>>, !.size = 0, !.known = Uncached,
                                            !.documents = Append(@, [slot |-> Slot(c), content |-> content])]))
    /\ UNCHANGED <<inodes, files, writes, disturbed>>

Resolve(c) ==
    \/ BeginResolve(c) \/ CanonicalWorkspaceRoot(c) \/ ResolveScopeDirectory(c)
    \/ StatInstruction(c) \/ OpenInstruction(c) \/ ReadInstruction(c) \/ RestatInstruction(c)

ChangeFile(d, s) ==
    Replace(d, s) \/ Unlink(d, s) \/ WriteInPlace(d, s) \/ FinishInPlace(d, s) \/ WriteUnnoticed(d, s)

-------------------------------------------------------------------------------
(* Properties *)

\* What resolve() takes for the content of a file is what the file holds at
\* that moment, whole: never bytes from before and after a change, and never
\* an older text out of the cache (the second stat of #readInstructionFile and
\* the hash that guards the cache).  The two stats are of a path, and so is the
\* open between them: the one exception is a file of the same length that the
\* path led to for the open only, away from the file of both stats and back.
StableDocument ==
    [][ \A c \in Readers : resolving'[c].documents # resolving[c].documents =>
          /\ Current(c) # NoFile
          /\ \/ resolving'[c].documents = Append(resolving[c].documents,
                    [slot |-> Slot(c), content |-> inodes[Current(c)].blocks])
             \/ resolving[c].handle # Current(c) /\ disturbed[c] >= 2
      ]_<<registryVars, instructionVars>>

\* A request that gives up because its file kept changing saw the file change
\* at least as often as it tried (the loop of #readInstructionFile).
ChangedIsEarned ==
    \A c \in Readers : resolving[c].outcome = "changed" => disturbed[c] >= Attempts
================================================================================
