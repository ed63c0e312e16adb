-------------------------- MODULE InstructionsService --------------------------
(***************************************************************************)
(* The requests that use a workspace handle, together: every reader asks   *)
(* WorkspaceRegistry.get() for its workspace and goes on to resolve its    *)
(* instruction files (InstructionFiles) or to discover its skills          *)
(* (SkillCatalog), while calls of open() and other programs go on.         *)
(*                                                                         *)
(* What the readers ask for is fixed in a behaviour.  resolve() and the     *)
(* skill requests share the registry and the directories and nothing else. *)
(***************************************************************************)
EXTENDS InstructionFiles, SkillCatalog

CONSTANTS
    Requests,       \* what the readers may ask for, together
    MaxChanges      \* bound: changes by other programs, of all kinds

ASSUME RequestsAssumption == Requests \subseteq [Readers -> {"nothing", "handle", "resolve", "skills"}]

VARIABLE asked      \* what each reader asks for

vars == <<registryVars, instructionVars, catalogVars, asked>>

TypeOK ==
    /\ RegistryTypeOK /\ InstructionTypeOK /\ CatalogTypeOK
    /\ asked \in Requests

Asked(request) == \E c \in Readers : asked[c] = request

\* Behaviours with open() begin before it, the others after it.
Init ==
    /\ asked \in Requests
    /\ IF Asked("resolve") \/ Asked("skills") THEN RegistryInitOpened ELSE RegistryInit
    /\ InstructionInit /\ CatalogInit

OpenStep(c) ==
    /\ Open(c)
    /\ UNCHANGED <<instructionVars, catalogVars, asked>>

GetStep(c) ==
    /\ asked[c] # "nothing" /\ Get(c)
    /\ UNCHANGED <<instructionVars, catalogVars, asked>>

ChangesLeft == moves + writes + skillChanges < MaxChanges

\* The path of a workspace comes to lead elsewhere under the requests.
MoveDirectory(p) ==
    /\ ChangesLeft /\ Move(p)
    /\ disturbed' = Disturbed(at', files, inodes)
    /\ witnessed' = Witnessed(at', skills, roots)
    /\ UNCHANGED <<inodes, files, writes, cache, resolving,
                   skills, roots, skillChanges, catalog, asked>>

ResolveStep(c) ==
    /\ asked[c] = "resolve" /\ Resolve(c)
    /\ UNCHANGED <<registryVars, catalogVars, asked>>

FileStep(d, s) ==
    /\ ChangesLeft /\ Asked("resolve") /\ ChangeFile(d, s)
    /\ UNCHANGED <<registryVars, catalogVars, asked>>

SkillStep(c) ==
    /\ asked[c] = "skills" /\ Discover(c)
    /\ UNCHANGED <<registryVars, instructionVars, asked>>

SkillChangeStep(place) ==
    /\ ChangesLeft /\ Asked("skills") /\ ChangeSkills(place)
    /\ UNCHANGED <<registryVars, instructionVars, asked>>

Next ==
    \/ \E c \in Openers : OpenStep(c)
    \/ \E p \in Paths : MoveDirectory(p)
    \/ \E c \in Readers : GetStep(c) \/ ResolveStep(c) \/ SkillStep(c)
    \/ \E d \in Directories, s \in Slots : FileStep(d, s)
    \/ \E place \in Places : SkillChangeStep(place)

Spec == Init /\ [][Next]_vars
================================================================================
