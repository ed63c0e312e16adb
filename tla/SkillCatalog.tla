------------------------------ MODULE SkillCatalog ------------------------------
(***************************************************************************)
(* listSkills() and readSkill() of InstructionsService                     *)
(* (packages/instructions): the skills under the workspace and under the   *)
(* user's home, discovered in all roots at once; of skills with one name   *)
(* the root with the highest precedence wins.                              *)
(***************************************************************************)
EXTENDS WorkspaceRegistry, Sequences, Functions

CONSTANTS
    Sources,        \* the skill roots by precedence; the first is the workspace's
    Names,          \* names of skills, numbered in the order of their code points
    InitialSkills,  \* the skills at first, in each place
    MaxSkillChanges \* bound

ASSUME NamesAssumption == Names \subseteq Nat
ASSUME SourcesAssumption ==
    /\ Sources \in Seq(Range(Sources)) \ {<<>>}
    /\ \A i, j \in DOMAIN Sources : Sources[i] = Sources[j] => i = j

VARIABLES
    skills,     \* what is at each name of each place
    roots,      \* what is at the skill root of each place
    skillChanges,
    catalog,    \* the request of each reader
    witnessed   \* skills valid always and ever during it (for the properties)

catalogVars == <<skills, roots, skillChanges, catalog, witnessed>>

-------------------------------------------------------------------------------
(* Skills *)

\* A skill root is in the directory of the workspace, or in the user's home.
SourceSet == Range(Sources)
Project == Sources[1]
Places == Directories \cup (SourceSet \ {Project})

\* A directory without SKILL.md, a good SKILL.md, one that InstructionsError
\* is thrown for, one that any other error is thrown for (a directory, no
\* permission to open it, an alias in its YAML).
Conditions == {"absent", "valid", "invalid", "unreadable"}

\* No root, one that realpath() refuses or that leads out of the workspace.
RootConditions == {"absent", "refused", "there"}

ASSUME SkillsAssumption ==
    InitialSkills \subseteq [Places -> [Names -> Conditions]] /\ MaxSkillChanges \in Nat

Precedes(s, other) ==
    \E i, j \in DOMAIN Sources : i < j /\ Sources[i] = s /\ Sources[j] = other

WaitingBatch == [pc |-> "realpath", todo |-> {}, found |-> {}, invalid |-> {}]
IdleCatalog == [pc |-> "idle", wanted |-> NoCall,
                batches |-> [s \in SourceSet |-> WaitingBatch],
                skills |-> {}, shadowed |-> {}, invalid |-> {}, outcome |-> "none"]

CatalogStages == {"idle", "root", "discover", "body", "settled"}
CatalogOutcomes == {"none", "listed", "read", "body-refused", "not-found", "unavailable",
                    "root-refused", "root-vanished", "failed", "no-skill", "inaccessible"}
Entries == SourceSet \X Names

CatalogTypeOK ==
    /\ skills \in [Places -> [Names -> Conditions]]
    /\ roots \in [Places -> RootConditions]
    /\ skillChanges \in 0 .. MaxSkillChanges
    /\ \A c \in Readers :
          /\ catalog[c].pc \in CatalogStages
          /\ catalog[c].wanted \in Entries \cup {NoCall}
          /\ catalog[c].outcome \in CatalogOutcomes
          /\ (catalog[c].pc = "settled") = (catalog[c].outcome # "none")
          /\ UNION {catalog[c].skills, catalog[c].shadowed, catalog[c].invalid} \subseteq Entries
          /\ \A s \in SourceSet : catalog[c].batches[s].pc \in {"realpath", "readdir", "entries", "done"}

CatalogInit ==
    /\ skills \in InitialSkills
    /\ roots = [place \in Places |-> "there"]
    /\ skillChanges = 0
    /\ catalog = [c \in Readers |-> IdleCatalog]
    /\ witnessed = [c \in Readers |-> [always |-> {}, ever |-> {}]]

-------------------------------------------------------------------------------
(* Other programs *)

RootPath(c) == rows[getting[c].id].path
PlaceOf(occupant, c, s) == IF s = Project THEN occupant[RootPath(c)] ELSE s

ValidEntries(occupant, disk, rootsNow, c) ==
    {e \in Entries : LET place == PlaceOf(occupant, c, e[1])
                     IN  /\ place \in Places /\ rootsNow[place] = "there"
                         /\ disk[place][e[2]] = "valid"}

\* Watch what is valid while a request is under way.
Witnessed(occupant, disk, rootsNow) ==
    [c \in Readers |->
        IF catalog[c].pc \in {"root", "discover"}
        THEN LET valid == ValidEntries(occupant, disk, rootsNow, c)
             IN  [always |-> witnessed[c].always \cap valid, ever |-> witnessed[c].ever \cup valid]
        ELSE witnessed[c]]

\* A program writes, removes or spoils a skill.
ChangeSkill(place, n) ==
    /\ skillChanges < MaxSkillChanges
    /\ \E condition \in Conditions \ {skills[place][n]} :
          skills' = [skills EXCEPT ![place][n] = condition]
    /\ skillChanges' = skillChanges + 1
    /\ witnessed' = Witnessed(at, skills', roots)
    /\ UNCHANGED <<roots, catalog>>

ChangeRoot(place) ==
    /\ skillChanges < MaxSkillChanges
    /\ \E condition \in RootConditions \ {roots[place]} :
          roots' = [roots EXCEPT ![place] = condition]
    /\ skillChanges' = skillChanges + 1
    /\ witnessed' = Witnessed(at, skills, roots')
    /\ UNCHANGED <<skills, catalog>>

-------------------------------------------------------------------------------
(* listSkills() and readSkill() *)

Turns(c, request) == catalog' = [catalog EXCEPT ![c] = request]
Finishes(c, outcome) == Turns(c, [catalog[c] EXCEPT !.pc = "settled", !.outcome = outcome])
SetBatch(c, s, batch) == Turns(c, [catalog[c] EXCEPT !.batches[s] = batch])

\* #requireWorkspace(), with the answer of get().
RequireWorkspace(c, wanted) ==
    /\ catalog[c].pc = "idle" /\ getting[c].pc = "settled"
    /\ IF getting[c].answer = "not-found" THEN Finishes(c, "not-found") /\ UNCHANGED witnessed
       ELSE IF getting[c].answer = "failed" THEN Finishes(c, "failed") /\ UNCHANGED witnessed
       ELSE IF getting[c].answer # "available" THEN Finishes(c, "unavailable") /\ UNCHANGED witnessed
       ELSE /\ Turns(c, [catalog[c] EXCEPT !.pc = "root", !.wanted = wanted])
            /\ LET valid == ValidEntries(at, skills, roots, c)
               IN  witnessed' = [witnessed EXCEPT ![c] = [always |-> valid, ever |-> valid]]
    /\ UNCHANGED <<skills, roots, skillChanges>>

SkillWorkspaceRoot(c) ==
    /\ catalog[c].pc = "root"
    /\ IF at[RootPath(c)] \in {"missing", "inaccessible"} THEN Finishes(c, "unavailable")
       ELSE Turns(c, [catalog[c] EXCEPT !.pc = "discover"])
    /\ UNCHANGED <<skills, roots, skillChanges, witnessed>>

\* What a skill root is to a request by now.
RootNow(c, s) ==
    LET place == PlaceOf(at, c, s)
    IN  IF place \in Places THEN roots[place]
        ELSE IF place = "missing" THEN "absent" ELSE "refused"

\* One batch refused rejects Promise.all(), and with it the call.
CanonicalSkillRoot(c, s) ==
    /\ catalog[c].pc = "discover" /\ catalog[c].batches[s].pc = "realpath"
    /\ CASE RootNow(c, s) = "absent"  -> SetBatch(c, s, [catalog[c].batches[s] EXCEPT !.pc = "done"])
         [] RootNow(c, s) = "refused" -> Finishes(c, "root-refused")
         [] RootNow(c, s) = "there"   -> SetBatch(c, s, [catalog[c].batches[s] EXCEPT !.pc = "readdir"])
    /\ UNCHANGED <<skills, roots, skillChanges, witnessed>>

ReadSkillRoot(c, s) ==
    /\ catalog[c].pc = "discover" /\ catalog[c].batches[s].pc = "readdir"
    /\ IF RootNow(c, s) # "there" THEN Finishes(c, "root-vanished")
       ELSE SetBatch(c, s, [catalog[c].batches[s] EXCEPT !.pc = "entries",
                !.todo = {n \in Names : skills[PlaceOf(at, c, s)][n] # "absent"}])
    /\ UNCHANGED <<skills, roots, skillChanges, witnessed>>

SkillNow(c, s, n) ==
    IF RootNow(c, s) = "there" THEN skills[PlaceOf(at, c, s)][n]
    ELSE IF RootNow(c, s) = "absent" THEN "absent" ELSE "hidden"

\* realpath() of the entry and of its SKILL.md, then its metadata: a skill, an
\* invalid entry, no entry, or an error that ends the whole call.
InspectSkill(c, s) ==
    /\ catalog[c].pc = "discover" /\ catalog[c].batches[s].pc = "entries"
    /\ catalog[c].batches[s].todo # {}
    /\ LET batch == catalog[c].batches[s]
           n == CHOOSE n \in batch.todo : \A m \in batch.todo : n <= m
           rest == [batch EXCEPT !.todo = @ \ {n}]
       IN  CASE SkillNow(c, s, n) \in {"absent", "hidden"} -> SetBatch(c, s, rest)
             [] SkillNow(c, s, n) = "valid"   -> SetBatch(c, s, [rest EXCEPT !.found = @ \cup {<<s, n>>}])
             [] SkillNow(c, s, n) = "invalid" -> SetBatch(c, s, [rest EXCEPT !.invalid = @ \cup {<<s, n>>}])
             [] SkillNow(c, s, n) = "unreadable" -> Finishes(c, "failed")
    /\ UNCHANGED <<skills, roots, skillChanges, witnessed>>

FinishBatch(c, s) ==
    /\ catalog[c].pc = "discover" /\ catalog[c].batches[s].pc = "entries"
    /\ catalog[c].batches[s].todo = {}
    /\ SetBatch(c, s, [catalog[c].batches[s] EXCEPT !.pc = "done"])
    /\ UNCHANGED <<skills, roots, skillChanges, witnessed>>

Found(c) == UNION {catalog[c].batches[s].found : s \in SourceSet}
Discovered(c) == \A s \in SourceSet : catalog[c].batches[s].pc = "done"

\* Mutant: the precedences subtracted the wrong way round.
OrderedDescending(e, other) == Precedes(other[1], e[1]) \/ (e[1] = other[1] /\ e[2] < other[2])

\* compareDiscoveredSkills().
Ordered(e, other) == Precedes(e[1], other[1]) \/ (e[1] = other[1] /\ e[2] < other[2])

\* In that order, the first skill of each name is selected.
Selected(found) == {e \in found : \A other \in found \ {e} : other[2] = e[2] => Ordered(e, other)}

ListSkills(c) ==
    /\ catalog[c].pc = "discover" /\ catalog[c].wanted = NoCall /\ Discovered(c)
    /\ Turns(c, [catalog[c] EXCEPT
            !.pc = "settled", !.outcome = "listed",
            !.skills = Selected(Found(c)), !.shadowed = Found(c) \ Selected(Found(c)),
            !.invalid = UNION {catalog[c].batches[s].invalid : s \in SourceSet}])
    /\ UNCHANGED <<skills, roots, skillChanges, witnessed>>

\* readSkill() finds any skill by its id, the shadowed ones too.
FindSkill(c) ==
    /\ catalog[c].pc = "discover" /\ catalog[c].wanted # NoCall /\ Discovered(c)
    /\ IF catalog[c].wanted \in Found(c) THEN Turns(c, [catalog[c] EXCEPT !.pc = "body"])
       ELSE Finishes(c, "no-skill")
    /\ UNCHANGED <<skills, roots, skillChanges, witnessed>>

\* Its body is read from the path found; it may be too long, or no text.
ReadSkillBody(c) ==
    /\ catalog[c].pc = "body"
    /\ IF SkillNow(c, catalog[c].wanted[1], catalog[c].wanted[2]) \in {"valid", "invalid"}
       THEN \E outcome \in {"read", "body-refused"} : Finishes(c, outcome)
       ELSE Finishes(c, "inaccessible")
    /\ UNCHANGED <<skills, roots, skillChanges, witnessed>>

Discover(c) ==
    \/ \E wanted \in Entries \cup {NoCall} : RequireWorkspace(c, wanted)
    \/ SkillWorkspaceRoot(c)
    \/ \E s \in SourceSet :
          CanonicalSkillRoot(c, s) \/ ReadSkillRoot(c, s) \/ InspectSkill(c, s) \/ FinishBatch(c, s)
    \/ ListSkills(c) \/ FindSkill(c) \/ ReadSkillBody(c)

ChangeSkills(place) == ChangeRoot(place) \/ \E n \in Names : ChangeSkill(place, n)

-------------------------------------------------------------------------------
(* Properties *)

\* A listing of roots that change while they are read: every skill in it was
\* valid at some moment of the call, every skill valid all the time is in it,
\* and a skill is offered under its name only if no root before its own had one
\* all the time; readSkill() misses no skill that was valid all the time (the
\* batches of #discoverSkills and the sort and scan of listSkills).
CatalogIsTrue ==
    \A c \in Readers :
        LET request == catalog[c]
            was == witnessed[c]
        IN  /\ request.outcome = "listed" =>
                  /\ was.always \subseteq request.skills \cup request.shadowed
                  /\ request.skills \cup request.shadowed \subseteq was.ever
                  /\ \A e \in request.skills : \A other \in was.always :
                        other[2] = e[2] => ~Precedes(other[1], e[1])
                  /\ \A e, other \in request.skills : e[2] = other[2] => e = other
            /\ request.outcome = "no-skill" => request.wanted \notin was.always
            /\ request.outcome \in {"read", "body-refused"} => request.wanted \in was.ever

\* A skill that cannot be read hides no other: the call does not fail for it
\* ('reports invalid skills without hiding valid catalog entries').
InvalidNeverHidesValid ==
    \A c \in Readers : catalog[c].outcome = "failed" => witnessed[c].always = {}
================================================================================
