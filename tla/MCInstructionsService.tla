------------------------- MODULE MCInstructionsService -------------------------
EXTENDS InstructionsService, TLC

CONSTANTS o1, o2, r1, r2, p1, d1, d2, this, that, huge, elsewhere, project, home

MCScopes == <<"root", "src">>
MCFilenames == <<"agents">>
MCBlocks == this :> 2 @@ that :> 2 @@ huge :> 3 @@ elsewhere :> 2
MCScopesOf == d1 :> {"root", "src"} @@ d2 :> {"root"}
MCInitialInodes == <<[blocks |-> <<this, this>>, version |-> 0], [blocks |-> <<that, that>>, version |-> 0]>>
MCInitialFiles == [d \in {d1, d2} |->
    [s \in {"root", "src"} \X {"agents"} |-> IF s[1] = "src" THEN 0 ELSE IF d = d1 THEN 1 ELSE 2]]
MCSources == <<project, home>>
MCInitialSkills ==
    LET Same(project1, project2, home1, home2) ==
            [place \in {d1, d2, home} |-> [n \in 1 .. 2 |->
                IF place = home THEN <<home1, home2>>[n] ELSE <<project1, project2>>[n]]]
    IN  {Same("absent", "valid", "valid", "valid"), Same("valid", "invalid", "absent", "valid")}

\* Two readers of handles; two of instruction files; one of skills.
MCRequests ==
    {[c \in {r1, r2} |-> "handle"], [c \in {r1, r2} |-> "resolve"]} \cup
    {[c \in {r1, r2} |-> IF c = r THEN "skills" ELSE "nothing"] : r \in {r1, r2}}

\* Openers are alike, and so are readers: what they ask for is a state.
Symmetry == {f @@ g : f \in Permutations({o1, o2}), g \in Permutations({r1, r2})}
================================================================================
