----------------------- MODULE ManagedWorktree_proofs -----------------------
(***************************************************************************)
(* Whatever calls of open() interleave, die or fail: one workspace for the *)
(* key, nothing foreign behind it, nothing finished that is turned away.   *)
(***************************************************************************)
EXTENDS ManagedWorktree, TLAPS

-----------------------------------------------------------------------------
(* The invariant *)

\* What git has made: one call's git made the branch, and only its git can
\* make the directory; the intent was journaled before.
GitInv ==
    /\ \A c \in Calls :
          /\ git[c] # "idle" => Journaled("create-intent")
          /\ git[c] \in {"directory", "list", "checkout", "ok"} => branch.by = c
    /\ tree.by \in Calls =>
          branch.by = tree.by /\ git[tree.by] \notin {"idle", "branch", "directory"}
    /\ tree.stage = "absent" <=> tree.by = None
    /\ branch.by = None <=> branch = NoBranch

\* Another program that took the path before any git came to it keeps it.
PathInv ==
    /\ tree.by = Outsider => external \in {"path taken", "path exchanged"}
    /\ tree.by = Outsider => tree.stage = "directory"
    /\ external = "path taken" =>
          /\ tree.by = Outsider
          /\ \A c \in Calls : git[c] \notin {"list", "checkout", "ok"}

\* The worktree that git listed has gone for ever, or is there.
Gone == tree = NoTree /\ branch.by \in Calls /\ git[branch.by] = "failed"
Listed == Gone \/ (tree.stage \in {"listed", "full"} /\ tree.by \in Calls)

\* While no other program comes between, git's worktree is as far as its git,
\* and a row is only given up when the worktree has gone.
UndisturbedInv ==
    external = "nothing" =>
        /\ branch.by # Outsider
        /\ branch.by \in Calls => branch.at = "base"
        /\ tree.by \in Calls => <<tree.stage, git[tree.by]>> \in
              {<<"directory", "list">>, <<"directory", "failed">>, <<"listed", "checkout">>,
               <<"listed", "failed">>, <<"full", "ok">>}
        /\ \A c \in Calls : git[c] = "ok" => tree.by = c
        /\ row.status # "absent" => Listed
        /\ row.status = "cleanup-required" => Gone

\* What the row names is git's.
RowInv ==
    row.status # "absent" =>
        /\ Journaled("create-intent")
        /\ external # "path exchanged" => row.identity = branch.by /\ branch.by \in Calls

\* A call that was made when the worktree was finished finds it.
FoundInv(c) ==
    external = "nothing" /\ call[c].found = "full" =>
        tree.stage = "full" /\ call[c].pc \notin {"branch", "git"} /\ ~TurnedAway(c)

\* The attempts of a wait are counted from none up to their bound.
WaitInv(c) ==
    /\ call[c].pc \in {"idle", "read", "inspect", "inspected", "lstat", "branch", "git"} =>
          call[c].at = "none"
    /\ call[c].at \notin {"wait", "final"} => call[c].attempt = 0
    /\ call[c].at = "wait" => call[c].attempt < Attempts

Registering == {"match", "resolve", "commit"}

CallInv(c) ==
    /\ call[c].pc = "idle" => call[c].answer = "none" /\ call[c].found = "unknown"
    /\ call[c].pc \in {"inspect", "inspected"} => row.status # "absent"
    /\ call[c].answer = "opened" => row.status # "absent" /\ row.id = call[c].id
    /\ call[c].pc \in {"idle", "read", "inspect", "inspected", "lstat", "branch"} => git[c] = "idle"
    /\ call[c].pc \in Registering =>
          /\ branch.by \in Calls /\ Journaled("create-intent")
          /\ GitHasBegun /\ external # "path taken"
          /\ external = "nothing" => Listed
    /\ call[c].pc = "commit" /\ external # "path exchanged" => call[c].seen = branch.by
    /\ call[c].pc = "inspected" /\ external = "nothing" => call[c].seen = row.identity \/ Gone
    /\ WaitInv(c) /\ FoundInv(c)

WorldInv == GitInv /\ PathInv /\ UndisturbedInv /\ RowInv
IInv == TypeOK /\ WorldInv /\ \A c \in Calls : CallInv(c)

LEMMA InitIInv == Init => IInv
<1> SUFFICES ASSUME Init PROVE IInv
  OBVIOUS
<1> USE MakerAssumption DEF Init
<1>1. TypeOK
  BY AttemptsAssumption DEF TypeOK, Row, Statuses, Actions, Branch, NoBranch, Tree, NoTree, GitStages, Call,
     Locals, Makers, Answers
<1>2. WorldInv
  BY ExternalsAssumption DEF WorldInv, GitInv, PathInv, UndisturbedInv, RowInv, NoTree, NoBranch
<1>3. ASSUME NEW c \in Calls PROVE CallInv(c)
  BY DEF CallInv, FoundInv, WaitInv, Registering, Locals
<1> QED BY <1>1, <1>2, <1>3 DEF IInv

-----------------------------------------------------------------------------
(* Steps of a call that leave the world alone *)

OthersSame(c) == \A d \in Calls \ {c} : call'[d] = call[d]

\* A call assigns its program counter and nothing else.
LEMMA Goes ==
    ASSUME TypeOK, NEW c \in Calls, NEW request \in Call, call' = [call EXCEPT ![c] = request]
    PROVE  call' \in [Calls -> Call] /\ call'[c] = request /\ OthersSame(c)
  BY DEF TypeOK, OthersSame

LEMMA GoesTo ==
    ASSUME TypeOK, NEW c \in Calls,
           NEW pc \in {"inspect", "lstat", "list", "match", "resolve", "branch", "git", "realpath"},
           GoTo(c, pc)
    PROVE  /\ call' \in [Calls -> Call] /\ call'[c] = [call[c] EXCEPT !.pc = pc] /\ OthersSame(c)
           /\ call'[c].pc = pc /\ call'[c].at = call[c].at /\ call'[c].seen = call[c].seen
           /\ call'[c].found = call[c].found /\ call'[c].answer = call[c].answer
           /\ call'[c].id = call[c].id /\ call'[c].attempt = call[c].attempt
<1>1. [call[c] EXCEPT !.pc = pc] \in Call
  BY DEF TypeOK, Call
<1>2. call' = [call EXCEPT ![c] = [call[c] EXCEPT !.pc = pc]]
  BY DEF GoTo, TypeOK
<1> QED BY <1>1, <1>2, Goes DEF TypeOK, Call

LEMMA EndsIn ==
    ASSUME TypeOK, NEW c \in Calls, NEW pc \in {"settled", "lost"}, NEW answer \in Answers,
           NEW id \in Calls \cup {None}, Ends(c, pc, answer, id)
    PROVE  /\ call' \in [Calls -> Call] /\ OthersSame(c)
           /\ call'[c].pc = pc /\ call'[c].answer = answer /\ call'[c].id = id
           /\ call'[c].found = call[c].found /\ call'[c].at = "none" /\ call'[c].attempt = 0
<1>1. Locals(pc, call[c].found, answer, id) \in Call
  BY AttemptsAssumption DEF TypeOK, Call, Locals, Makers
<1>2. call' = [call EXCEPT ![c] = Locals(pc, call[c].found, answer, id)]
  BY DEF Ends, TypeOK
<1> QED BY <1>1, <1>2, Goes DEF Locals

WorldSame == UNCHANGED <<row, branch, tree, git, external>>
JournalGrows == journal \subseteq journal' /\ journal' \in SUBSET Actions /\ status' \in Statuses

LEMMA CallStep ==
    ASSUME IInv, NEW c \in Calls, WorldSame, JournalGrows, call' \in [Calls -> Call],
           OthersSame(c), CallInv(c)'
    PROVE  IInv'
<1>1. TypeOK'
  BY DEF IInv, TypeOK, WorldSame, JournalGrows
<1>2. GitInv'
  BY DEF IInv, WorldInv, GitInv, WorldSame, JournalGrows, Journaled
<1>3. PathInv' /\ UndisturbedInv' /\ RowInv'
  BY DEF IInv, WorldInv, PathInv, UndisturbedInv, RowInv, Listed, Gone, WorldSame,
     JournalGrows, Journaled
<1>4. ASSUME NEW d \in Calls \ {c} PROVE CallInv(d)'
  <2>1. CallInv(d) /\ call'[d] = call[d]
    BY DEF IInv, OthersSame
  <2>2. Gone' = Gone /\ Listed' = Listed /\ GitHasBegun' = GitHasBegun
    BY DEF Gone, Listed, GitHasBegun, WorldSame
  <2>3. FoundInv(d)'
    BY <2>1 DEF CallInv, FoundInv, TurnedAway, WorldSame
  <2>4. WaitInv(d)'
    BY <2>1 DEF CallInv, WaitInv
  <2>5. Journaled("create-intent") => Journaled("create-intent")'
    BY DEF Journaled, JournalGrows
  <2> QED BY <2>1, <2>2, <2>3, <2>4, <2>5 DEF CallInv, WorldSame
<1> QED BY <1>1, <1>2, <1>3, <1>4 DEF IInv, WorldInv

\* A finished, undisturbed worktree is one that git lists and that matches.
LEMMA FullIsOurs ==
    ASSUME IInv, external = "nothing", tree.stage = "full"
    PROVE  /\ tree.by \in Calls /\ git[tree.by] = "ok" /\ branch.by = tree.by /\ branch.at = "base"
           /\ Journaled("create-intent") /\ Matches /\ ~Gone
<1>1. tree.by \in Calls
  BY DEF IInv, TypeOK, WorldInv, GitInv, PathInv, Tree, Makers
<1> QED BY <1>1, MakerAssumption DEF IInv, WorldInv, GitInv, UndisturbedInv, Matches, Gone, NoTree

LEMMA OpenKeeps == ASSUME IInv, NEW c \in Calls, Open(c) PROVE IInv'
<1> DEFINE found == IF tree.stage = "full" THEN "full" ELSE "less"
<1>1. WorldSame /\ JournalGrows /\ TypeOK
  BY DEF Open, IInv, TypeOK, WorldSame, JournalGrows
<1>2. call[c] \in Call /\ [call[c] EXCEPT !.pc = "read", !.found = found] \in Call
  <2>1. call[c] \in Call /\ found \in {"full", "less"}
    BY <1>1 DEF TypeOK
  <2> HIDE DEF found
  <2> QED BY <2>1 DEF Call
<1>3. call' = [call EXCEPT ![c] = [call[c] EXCEPT !.pc = "read", !.found = found]]
  BY <1>1 DEF Open, TypeOK
<1>4. /\ call' \in [Calls -> Call] /\ OthersSame(c) /\ call'[c].pc = "read"
      /\ call'[c].found = found /\ call'[c].answer = call[c].answer
      /\ call'[c].at = call[c].at /\ call'[c].attempt = call[c].attempt
  <2> HIDE DEF found
  <2>1. /\ call' \in [Calls -> Call] /\ OthersSame(c)
        /\ call'[c] = [call[c] EXCEPT !.pc = "read", !.found = found]
    BY <1>1, <1>2, <1>3, Goes
  <2> QED BY <1>2, <2>1 DEF Call
<1>5. git[c] = "idle" /\ call[c].answer = "none"
  BY DEF Open, At, IInv, CallInv
<1>6. FoundInv(c)'
  BY <1>1, <1>4, <1>5 DEF FoundInv, TurnedAway, WorldSame
<1>7. WaitInv(c)'
  BY <1>4 DEF Open, At, IInv, CallInv, WaitInv
<1>8. CallInv(c)'
  BY <1>1, <1>4, <1>5, <1>6, <1>7 DEF CallInv, Registering, WorldSame
<1> QED BY <1>1, <1>4, <1>8, CallStep

\* The call ends without a workspace.
LEMMA RefuseStep ==
    ASSUME IInv, NEW c \in Calls, WorldSame, JournalGrows,
           NEW pc \in {"settled", "lost"}, NEW answer \in Answers \ {"opened"},
           Ends(c, pc, answer, None),
           external = "nothing" /\ call[c].found = "full" => answer \in {"none", "error"}
    PROVE  IInv'
<1>1. TypeOK /\ CallInv(c)
  BY DEF IInv
<1>2. /\ call' \in [Calls -> Call] /\ OthersSame(c)
      /\ call'[c].pc = pc /\ call'[c].answer = answer
      /\ call'[c].found = call[c].found /\ call'[c].at = "none" /\ call'[c].attempt = 0
  BY <1>1, EndsIn
<1>3. WaitInv(c)' /\ FoundInv(c)'
  BY <1>1, <1>2 DEF WaitInv, CallInv, FoundInv, TurnedAway, WorldSame
<1>4. CallInv(c)'
  BY <1>2, <1>3 DEF CallInv, Registering
<1> QED BY <1>2, <1>4, CallStep

\* The call goes on to an await before it registers anything.
LEMMA MoveStep ==
    ASSUME IInv, NEW c \in Calls, WorldSame, JournalGrows, call[c].pc # "idle",
           call' \in [Calls -> Call], OthersSame(c), WaitInv(c)',
           call'[c].pc \in {"inspect", "lstat", "realpath", "list", "branch"},
           call'[c].found = call[c].found, call'[c].answer = call[c].answer,
           call'[c].id = call[c].id,
           call'[c].pc = "inspect" => row.status # "absent",
           call'[c].pc \in {"inspect", "lstat", "branch"} => git[c] = "idle",
           call'[c].pc = "branch" => ~(external = "nothing" /\ call[c].found = "full")
    PROVE  IInv'
<1>1. CallInv(c)
  BY DEF IInv
<1>2. FoundInv(c)'
  BY <1>1 DEF CallInv, FoundInv, TurnedAway, WorldSame
<1>3. CallInv(c)'
  BY <1>1, <1>2 DEF CallInv, Registering, WorldSame
<1> QED BY <1>3, CallStep

LEMMA ReadRowKeeps == ASSUME IInv, NEW c \in Calls, ReadRow(c) PROVE IInv'
<1>1. WorldSame /\ JournalGrows /\ TypeOK /\ CallInv(c)
  BY DEF ReadRow, IInv, TypeOK, WorldSame, JournalGrows
<1>2. call[c].pc = "read" /\ git[c] = "idle"
  BY <1>1 DEF ReadRow, At, CallInv
<1>3. CASE row.status = "cleanup-required" /\ Throw(c, "cleanup-required")
  <2>1. ~(external = "nothing" /\ call[c].found = "full")
    BY <1>1, <1>3, FullIsOurs DEF IInv, WorldInv, UndisturbedInv, CallInv, FoundInv
  <2> QED BY <1>1, <1>3, <2>1, RefuseStep DEF Throw, Answers
<1>4. ASSUME NEW pc \in {"inspect", "lstat"}, GoTo(c, pc), pc = "inspect" => row.status # "absent"
      PROVE  IInv'
  <2>1. /\ call' \in [Calls -> Call] /\ OthersSame(c)
        /\ call'[c].pc = pc /\ call'[c].at = call[c].at /\ call'[c].attempt = call[c].attempt
        /\ call'[c].found = call[c].found /\ call'[c].answer = call[c].answer
        /\ call'[c].id = call[c].id
    BY <1>1, <1>4, GoesTo
  <2>2. WaitInv(c)'
    BY <1>1, <1>2, <2>1 DEF CallInv, WaitInv
  <2> QED BY <1>1, <1>2, <1>4, <2>1, <2>2, MoveStep
<1> QED BY <1>3, <1>4 DEF ReadRow

LEMMA InspectKeeps == ASSUME IInv, NEW c \in Calls, Inspect(c) PROVE IInv'
<1>1. WorldSame /\ JournalGrows /\ TypeOK /\ CallInv(c)
  BY DEF Inspect, IInv, TypeOK, WorldSame, JournalGrows
<1>2. call[c].pc = "inspect" /\ git[c] = "idle" /\ row.status # "absent"
  BY <1>1 DEF Inspect, At, CallInv
<1>3. call[c] \in Call /\ [call[c] EXCEPT !.pc = "inspected", !.seen = tree.by] \in Call
  <2>1. call[c] \in Call /\ tree.by \in Makers
    BY <1>1 DEF TypeOK, Tree
  <2> QED BY <2>1 DEF Call
<1>4. call' = [call EXCEPT ![c] = [call[c] EXCEPT !.pc = "inspected", !.seen = tree.by]]
  BY <1>1 DEF Inspect, TypeOK
<1>5. /\ call' \in [Calls -> Call] /\ OthersSame(c) /\ call'[c].pc = "inspected"
      /\ call'[c].seen = tree.by /\ call'[c].found = call[c].found
      /\ call'[c].answer = call[c].answer /\ call'[c].id = call[c].id
      /\ call'[c].at = call[c].at /\ call'[c].attempt = call[c].attempt
  <2>1. /\ call' \in [Calls -> Call] /\ OthersSame(c)
        /\ call'[c] = [call[c] EXCEPT !.pc = "inspected", !.seen = tree.by]
    BY <1>1, <1>3, <1>4, Goes
  <2> QED BY <1>3, <2>1 DEF Call
<1>6. external = "nothing" => tree.by = row.identity \/ Gone
  BY <1>2 DEF IInv, WorldInv, UndisturbedInv, RowInv, GitInv, Listed
<1>7. FoundInv(c)' /\ WaitInv(c)'
  BY <1>1, <1>2, <1>5 DEF CallInv, FoundInv, WaitInv, TurnedAway, WorldSame
<1>8. Gone' = Gone
  BY <1>1 DEF Gone, WorldSame
<1>9. CallInv(c)'
  BY <1>1, <1>2, <1>5, <1>6, <1>7, <1>8 DEF CallInv, Registering, WorldSame
<1> QED BY <1>1, <1>5, <1>9, CallStep

\* A call goes to its next await, or to another place of #openWorktree.
LEMMA GoesOn ==
    ASSUME TypeOK, NEW c \in Calls,
           NEW pc \in {"realpath", "resolve"}, NEW at \in {"path", "wait", "caught", "created"},
           call' = [call EXCEPT ![c].pc = pc, ![c].at = at]
    PROVE  /\ call' \in [Calls -> Call] /\ OthersSame(c)
           /\ call'[c].pc = pc /\ call'[c].at = at
           /\ call'[c].found = call[c].found /\ call'[c].answer = call[c].answer
           /\ call'[c].id = call[c].id /\ call'[c].attempt = call[c].attempt
<1>1. call[c] \in Call
  BY DEF TypeOK
<1>2. [call[c] EXCEPT !.pc = pc, !.at = at] \in Call
  BY <1>1 DEF Call
<1>3. call' = [call EXCEPT ![c] = [call[c] EXCEPT !.pc = pc, !.at = at]]
  BY DEF TypeOK
<1>4. /\ call' \in [Calls -> Call] /\ OthersSame(c)
      /\ call'[c] = [call[c] EXCEPT !.pc = pc, !.at = at]
  BY <1>2, <1>3, Goes
<1> QED BY <1>1, <1>4 DEF Call

LEMMA LstatKeeps == ASSUME IInv, NEW c \in Calls, Lstat(c) PROVE IInv'
<1>1. WorldSame /\ JournalGrows /\ TypeOK /\ CallInv(c)
  BY DEF Lstat, IInv, TypeOK, WorldSame, JournalGrows
<1>2. call[c].pc = "lstat" /\ git[c] = "idle" /\ call[c].at = "none" /\ call[c].attempt = 0
  BY <1>1 DEF Lstat, At, CallInv, WaitInv
<1>3. CASE tree.stage = "absent" /\ GoTo(c, "branch")
  <2>1. ~(external = "nothing" /\ call[c].found = "full")
    BY <1>1, <1>3 DEF CallInv, FoundInv
  <2>2. /\ call' \in [Calls -> Call] /\ OthersSame(c)
        /\ call'[c].pc = "branch" /\ call'[c].at = "none" /\ call'[c].attempt = 0
        /\ call'[c].found = call[c].found /\ call'[c].answer = call[c].answer
        /\ call'[c].id = call[c].id
    BY <1>1, <1>2, <1>3, GoesTo
  <2>3. WaitInv(c)'
    BY <2>2 DEF WaitInv
  <2> QED BY <1>1, <1>2, <2>1, <2>2, <2>3, MoveStep
<1>4. CASE call' = [call EXCEPT ![c].pc = "realpath", ![c].at = "path"]
  <2>1. /\ call' \in [Calls -> Call] /\ OthersSame(c)
        /\ call'[c].pc = "realpath" /\ call'[c].at = "path" /\ call'[c].attempt = 0
        /\ call'[c].found = call[c].found /\ call'[c].answer = call[c].answer
        /\ call'[c].id = call[c].id
    BY <1>1, <1>2, <1>4, GoesOn
  <2>2. WaitInv(c)'
    BY <2>1 DEF WaitInv
  <2> QED BY <1>1, <1>2, <2>1, <2>2, MoveStep
<1>5. CASE ~Journaled("create-intent") /\ Throw(c, "path-occupied")
  <2>1. ~(external = "nothing" /\ call[c].found = "full")
    BY <1>1, <1>5, FullIsOurs DEF CallInv, FoundInv
  <2> QED BY <1>1, <1>5, <2>1, RefuseStep DEF Throw, Answers
<1> QED BY <1>3, <1>4, <1>5 DEF Lstat

-----------------------------------------------------------------------------
(* Reconciling *)

\* Nobody is turned away by a reconciliation whose worktree was finished.
LEMMA UnreconciledKeeps ==
    ASSUME IInv, NEW c \in Calls, call[c].pc \in {"realpath", "list", "match"}, Unreconciled(c),
           WorldSame, UNCHANGED status, ~(external = "nothing" /\ call[c].found = "full")
    PROVE  IInv'
<1>1. TypeOK /\ CallInv(c) /\ UNCHANGED status
  BY DEF IInv
<1>2. ASSUME UNCHANGED journal \/ \E action \in Actions : Append(action)
      PROVE  JournalGrows
  BY <1>1, <1>2 DEF TypeOK, JournalGrows, Append
<1>3. ASSUME NEW answer \in {"path-occupied", "create-failed", "cleanup-required"},
             Throw(c, answer), JournalGrows
      PROVE  IInv'
  BY <1>3, RefuseStep DEF Throw, Answers
<1>4. CASE call[c].at = "path" /\ Throw(c, "path-occupied") /\ UNCHANGED journal
  BY <1>2, <1>3, <1>4
<1>5. CASE call[c].at = "caught" /\ Append("create-failed") /\ Throw(c, "create-failed")
  BY <1>2, <1>3, <1>5 DEF Actions
<1>6. CASE Orphaned(c)
  BY <1>2, <1>3, <1>6 DEF Orphaned, Actions
<1>7. CASE call[c].at = "wait" /\ ~Orphaned(c)
  <2> DEFINE attempt == call[c].attempt + 1
             at == IF attempt < Attempts THEN "wait" ELSE "final"
             request == [call[c] EXCEPT !.pc = "realpath", !.attempt = attempt, !.at = at]
  <2>1. /\ call' = [call EXCEPT ![c].pc = "realpath", ![c].attempt = attempt, ![c].at = at]
        /\ UNCHANGED journal
    BY <1>7 DEF Unreconciled
  <2>2. call[c] \in Call /\ attempt \in 0..Attempts /\ at \in {"wait", "final"}
    <3>1. call[c] \in Call /\ call[c].attempt < Attempts
      BY <1>1, <1>7 DEF TypeOK, CallInv, WaitInv
    <3>2. call[c].attempt \in 0..Attempts
      BY <3>1 DEF Call
    <3> QED BY <3>1, <3>2, AttemptsAssumption
  <2>3. at = "wait" => attempt < Attempts
    OBVIOUS
  <2> HIDE DEF attempt, at
  <2>4. request \in Call
    BY <2>2 DEF Call
  <2>5. call' = [call EXCEPT ![c] = request]
    BY <1>1, <2>1 DEF TypeOK
  <2>6. call' \in [Calls -> Call] /\ OthersSame(c) /\ call'[c] = request
    BY <1>1, <2>4, <2>5, Goes
  <2>7. /\ call'[c].pc = "realpath" /\ call'[c].attempt = attempt /\ call'[c].at = at
        /\ call'[c].found = call[c].found /\ call'[c].answer = call[c].answer
        /\ call'[c].id = call[c].id
    BY <2>2, <2>6 DEF Call
  <2>8. WaitInv(c)'
    BY <2>2, <2>3, <2>7 DEF WaitInv
  <2>9. JournalGrows
    BY <1>2, <2>1
  <2>10. call[c].pc # "idle"
    OBVIOUS
  <2> HIDE DEF request
  <2> QED BY <2>6, <2>7, <2>8, <2>9, <2>10, MoveStep
<1> QED BY <1>4, <1>5, <1>6, <1>7 DEF Unreconciled

LEMMA RealPathKeeps == ASSUME IInv, NEW c \in Calls, RealPath(c) PROVE IInv'
<1>1. WorldSame /\ UNCHANGED status /\ TypeOK /\ CallInv(c) /\ call[c].pc = "realpath"
  BY DEF RealPath, At, IInv, WorldSame
<1>2. CASE GoTo(c, "list") /\ UNCHANGED journal
  <2>1. /\ call' \in [Calls -> Call] /\ OthersSame(c)
        /\ call'[c].pc = "list" /\ call'[c].at = call[c].at /\ call'[c].attempt = call[c].attempt
        /\ call'[c].found = call[c].found /\ call'[c].answer = call[c].answer
        /\ call'[c].id = call[c].id
    BY <1>1, <1>2, GoesTo
  <2>2. WaitInv(c)'
    BY <1>1, <2>1 DEF CallInv, WaitInv
  <2>3. JournalGrows
    BY <1>1, <1>2 DEF TypeOK, JournalGrows
  <2> QED BY <1>1, <2>1, <2>2, <2>3, MoveStep
<1>3. CASE tree.stage = "absent" /\ Unreconciled(c)
  <2>1. ~(external = "nothing" /\ call[c].found = "full")
    BY <1>1, <1>3 DEF CallInv, FoundInv
  <2> QED BY <1>1, <1>3, <2>1, UnreconciledKeeps
<1> QED BY <1>2, <1>3 DEF RealPath

\* What is known when a worktree goes into registration.
Registrable ==
    /\ branch.by \in Calls /\ Journaled("create-intent")
    /\ GitHasBegun /\ external # "path taken"
    /\ external = "nothing" => Listed

\* A worktree that git lists as Benchhand's can be registered.
LEMMA MatchesIsOurs == ASSUME IInv, Matches PROVE Registrable
<1>1. tree.by \in Calls
  BY DEF IInv, TypeOK, WorldInv, GitInv, Matches, Tree, Makers
<1> QED BY <1>1, MakerAssumption
        DEF IInv, WorldInv, GitInv, PathInv, Matches, Registrable, GitHasBegun, Listed

\* The call goes on towards the registration.
LEMMA RegisterStep ==
    ASSUME IInv, NEW c \in Calls, WorldSame, JournalGrows, call[c].pc # "idle", Registrable,
           call' \in [Calls -> Call], OthersSame(c), WaitInv(c)',
           call'[c].pc \in Registering,
           call'[c].found = call[c].found, call'[c].answer = call[c].answer,
           call'[c].id = call[c].id,
           call'[c].pc = "commit" /\ external # "path exchanged" => call'[c].seen = branch.by
    PROVE  IInv'
<1>1. CallInv(c)
  BY DEF IInv
<1>2. FoundInv(c)'
  BY <1>1 DEF CallInv, FoundInv, TurnedAway, WorldSame, Registering
<1>3. Registrable'
  BY DEF Registrable, WorldSame, JournalGrows, Journaled, GitHasBegun, Listed, Gone
<1>4. call[c].answer = "opened" => row.status # "absent" /\ row.id = call[c].id
  BY <1>1 DEF CallInv
<1>5. call'[c].pc \notin {"idle", "read", "inspect", "inspected", "lstat", "branch"}
  BY DEF Registering
<1>6. CallInv(c)'
  BY <1>2, <1>3, <1>4, <1>5 DEF CallInv, Registrable, WorldSame
<1> QED BY <1>6, CallStep

LEMMA ListWorktreesKeeps == ASSUME IInv, NEW c \in Calls, ListWorktrees(c) PROVE IInv'
<1>1. WorldSame /\ UNCHANGED status /\ TypeOK /\ CallInv(c) /\ call[c].pc = "list"
  BY DEF ListWorktrees, At, IInv, WorldSame
<1>2. CASE Matches /\ GoTo(c, "match") /\ UNCHANGED journal
  <2>1. /\ call' \in [Calls -> Call] /\ OthersSame(c)
        /\ call'[c].pc = "match" /\ call'[c].at = call[c].at /\ call'[c].attempt = call[c].attempt
        /\ call'[c].found = call[c].found /\ call'[c].answer = call[c].answer
        /\ call'[c].id = call[c].id
    BY <1>1, <1>2, GoesTo
  <2>2. WaitInv(c)'
    BY <1>1, <2>1 DEF CallInv, WaitInv
  <2>3. JournalGrows
    BY <1>1, <1>2 DEF TypeOK, JournalGrows
  <2> QED BY <1>1, <1>2, <2>1, <2>2, <2>3, MatchesIsOurs, RegisterStep DEF Registering
<1>3. CASE ~Matches /\ Unreconciled(c)
  <2>1. ~(external = "nothing" /\ call[c].found = "full")
    BY <1>1, <1>3, FullIsOurs DEF CallInv, FoundInv
  <2> QED BY <1>1, <1>3, <2>1, UnreconciledKeeps
<1> QED BY <1>2, <1>3 DEF ListWorktrees

LEMMA MatchPathKeeps == ASSUME IInv, NEW c \in Calls, MatchPath(c) PROVE IInv'
<1>1. WorldSame /\ UNCHANGED status /\ TypeOK /\ CallInv(c) /\ call[c].pc = "match"
  BY DEF MatchPath, At, IInv, WorldSame
<1>2. CASE GoTo(c, "resolve") /\ UNCHANGED journal
  <2>1. /\ call' \in [Calls -> Call] /\ OthersSame(c)
        /\ call'[c].pc = "resolve" /\ call'[c].at = call[c].at
        /\ call'[c].attempt = call[c].attempt
        /\ call'[c].found = call[c].found /\ call'[c].answer = call[c].answer
        /\ call'[c].id = call[c].id
    BY <1>1, <1>2, GoesTo
  <2>2. WaitInv(c)'
    BY <1>1, <2>1 DEF CallInv, WaitInv
  <2>3. JournalGrows /\ Registrable
    BY <1>1, <1>2 DEF TypeOK, JournalGrows, CallInv, Registering, Registrable
  <2> QED BY <1>1, <2>1, <2>2, <2>3, RegisterStep DEF Registering
<1>3. CASE tree.stage = "absent" /\ Unreconciled(c)
  <2>1. ~(external = "nothing" /\ call[c].found = "full")
    BY <1>1, <1>3 DEF CallInv, FoundInv
  <2> QED BY <1>1, <1>3, <2>1, UnreconciledKeeps
<1> QED BY <1>2, <1>3 DEF MatchPath

LEMMA GitReturnsKeeps == ASSUME IInv, NEW c \in Calls, GitReturns(c) PROVE IInv'
<1>1. WorldSame /\ JournalGrows /\ TypeOK /\ CallInv(c) /\ call[c].pc = "git"
  BY DEF GitReturns, At, IInv, TypeOK, WorldSame, JournalGrows
<1>2. call[c].attempt = 0
  BY <1>1 DEF CallInv, WaitInv
<1>3. ASSUME NEW pc \in {"realpath", "resolve"}, NEW at \in {"caught", "created"},
             call' = [call EXCEPT ![c].pc = pc, ![c].at = at]
      PROVE  /\ call' \in [Calls -> Call] /\ OthersSame(c) /\ WaitInv(c)'
             /\ call'[c].pc = pc /\ call'[c].found = call[c].found
             /\ call'[c].answer = call[c].answer /\ call'[c].id = call[c].id
  <2>1. /\ call' \in [Calls -> Call] /\ OthersSame(c)
        /\ call'[c].pc = pc /\ call'[c].at = at /\ call'[c].attempt = 0
        /\ call'[c].found = call[c].found /\ call'[c].answer = call[c].answer
        /\ call'[c].id = call[c].id
    BY <1>1, <1>2, <1>3, GoesOn
  <2> QED BY <2>1 DEF WaitInv
<1>4. CASE git[c] = "ok" /\ call' = [call EXCEPT ![c].pc = "resolve", ![c].at = "created"]
  <2>1. Registrable
    BY <1>4 DEF IInv, WorldInv, GitInv, PathInv, UndisturbedInv, Registrable, GitHasBegun, Listed
  <2> QED BY <1>1, <1>3, <1>4, <2>1, RegisterStep DEF Registering
<1>5. CASE git[c] = "failed" /\ call' = [call EXCEPT ![c].pc = "realpath", ![c].at = "caught"]
  BY <1>1, <1>3, <1>5, MoveStep
<1> QED BY <1>4, <1>5 DEF GitReturns

LEMMA ResolveKeeps == ASSUME IInv, NEW c \in Calls, Resolve(c) PROVE IInv'
<1>1. WorldSame /\ JournalGrows /\ TypeOK /\ CallInv(c) /\ call[c].pc = "resolve"
  BY DEF Resolve, At, IInv, TypeOK, WorldSame, JournalGrows
<1>2. Registrable
  BY <1>1 DEF CallInv, Registering, Registrable
<1>3. CASE Throw(c, "error")
  BY <1>1, <1>3, RefuseStep DEF Throw, Answers
<1>4. CASE /\ tree.stage # "absent"
           /\ call' = [call EXCEPT ![c].pc = "commit", ![c].seen = tree.by]
  <2> DEFINE request == [call[c] EXCEPT !.pc = "commit", !.seen = tree.by]
  <2>1. call[c] \in Call /\ tree.by \in Makers
    BY <1>1 DEF TypeOK, Tree
  <2>2. request \in Call
    BY <2>1 DEF Call
  <2>3. call' = [call EXCEPT ![c] = request]
    BY <1>1, <1>4 DEF TypeOK
  <2>4. call' \in [Calls -> Call] /\ OthersSame(c) /\ call'[c] = request
    BY <1>1, <2>2, <2>3, Goes
  <2>5. /\ call'[c].pc = "commit" /\ call'[c].seen = tree.by /\ call'[c].at = call[c].at
        /\ call'[c].attempt = call[c].attempt /\ call'[c].found = call[c].found
        /\ call'[c].answer = call[c].answer /\ call'[c].id = call[c].id
    BY <2>1, <2>4 DEF Call
  <2>6. WaitInv(c)'
    BY <1>1, <2>5 DEF CallInv, WaitInv
  <2>7. external # "path exchanged" => tree.by = branch.by
    BY <1>2, <1>4, <2>1 DEF IInv, WorldInv, GitInv, PathInv, Registrable, Makers
  <2> HIDE DEF request
  <2> QED BY <1>1, <1>2, <2>4, <2>5, <2>6, <2>7, RegisterStep DEF Registering
<1> QED BY <1>3, <1>4 DEF Resolve

-----------------------------------------------------------------------------
(* Steps that change what the calls share *)

\* What a call knows outlasts the steps of the others: rows are kept, branches
\* too, and a worktree that is listed goes away only with its git's failure.
Outlasts ==
    /\ JournalGrows /\ UNCHANGED external
    /\ row.status # "absent" =>
          row'.status # "absent" /\ row'.id = row.id /\ row'.identity = row.identity
    /\ branch.by \in Calls => branch'.by = branch.by
    /\ external = "nothing" =>
          (Gone => Gone') /\ (Listed => Listed') /\ (tree.stage = "full" => tree'.stage = "full")
    /\ GitHasBegun => GitHasBegun'

LEMMA OtherCall ==
    ASSUME NEW d \in Calls, CallInv(d), Outlasts, call'[d] = call[d],
           git[d] = "idle" => git'[d] = "idle"
    PROVE  CallInv(d)'
<1>1. FoundInv(d)'
  BY DEF CallInv, FoundInv, TurnedAway, Outlasts
<1>2. WaitInv(d)'
  BY DEF CallInv, WaitInv
<1>3. Journaled("create-intent") => Journaled("create-intent")'
  BY DEF Journaled, Outlasts, JournalGrows
<1>4. call[d].pc \in {"inspect", "inspected"} => row'.status # "absent"
  BY DEF CallInv, Outlasts
<1>5. call[d].answer = "opened" => row'.status # "absent" /\ row'.id = call[d].id
  BY DEF CallInv, Outlasts
<1>6. call[d].pc = "inspected" /\ external' = "nothing" =>
        call[d].seen = row'.identity \/ Gone'
  BY DEF CallInv, Outlasts
<1>7. call[d].pc \in Registering =>
        /\ branch'.by = branch.by /\ branch.by \in Calls /\ Journaled("create-intent")'
        /\ GitHasBegun' /\ external' # "path taken" /\ (external' = "nothing" => Listed')
  BY <1>3 DEF CallInv, Outlasts
<1>8. call[d].pc = "commit" /\ external' # "path exchanged" => call[d].seen = branch'.by
  BY <1>7 DEF CallInv, Outlasts, Registering
<1> QED BY <1>1, <1>2, <1>4, <1>5, <1>6, <1>7, <1>8 DEF CallInv, Registering

\* A call registers, gives up or answers with the row.
LEMMA RowStep ==
    ASSUME IInv, NEW c \in Calls, UNCHANGED <<branch, tree, git, external>>, JournalGrows,
           call' \in [Calls -> Call], OthersSame(c), row' \in Row,
           row.status # "absent" =>
              row'.status # "absent" /\ row'.id = row.id /\ row'.identity = row.identity,
           row'.status # "absent" =>
              /\ Journaled("create-intent")
              /\ external # "path exchanged" => row'.identity = branch.by /\ branch.by \in Calls
              /\ external = "nothing" => Listed,
           external = "nothing" /\ row'.status = "cleanup-required" => Gone,
           CallInv(c)'
    PROVE  IInv'
<1>1. TypeOK'
  BY DEF IInv, TypeOK, JournalGrows
<1>2. Gone' = Gone /\ Listed' = Listed /\ GitHasBegun' = GitHasBegun
  BY DEF Gone, Listed, GitHasBegun
<1>3. Journaled("create-intent") => Journaled("create-intent")'
  BY DEF Journaled, JournalGrows
<1>4. GitInv' /\ PathInv' /\ RowInv'
  BY <1>3 DEF IInv, WorldInv, GitInv, PathInv, RowInv
<1>5. UndisturbedInv'
  BY <1>2 DEF IInv, WorldInv, UndisturbedInv
<1>6. Outlasts
  BY <1>2 DEF Outlasts
<1>7. ASSUME NEW d \in Calls \ {c} PROVE CallInv(d)'
  BY <1>6, OtherCall DEF IInv, OthersSame
<1> QED BY <1>1, <1>4, <1>5, <1>7 DEF IInv, WorldInv

\* The call is over.
LEMMA OverInv ==
    ASSUME IInv, NEW c \in Calls, call'[c].pc \in {"settled", "lost"}, call'[c].at = "none",
           call'[c].attempt = 0, call'[c].found = call[c].found,
           call'[c].answer = "opened" => row'.status # "absent" /\ row'.id = call'[c].id,
           external' = "nothing" /\ call[c].found = "full" =>
              external = "nothing" /\ tree' = tree /\ ~TurnedAway(c)'
    PROVE  CallInv(c)'
<1>1. FoundInv(c)'
  BY DEF IInv, CallInv, FoundInv
<1>2. WaitInv(c)'
  BY DEF WaitInv
<1> QED BY <1>1, <1>2 DEF CallInv, Registering

LEMMA UseRowKeeps == ASSUME IInv, NEW c \in Calls, UseRow(c) PROVE IInv'
<1>1. TypeOK /\ WorldInv /\ CallInv(c) /\ call[c].pc = "inspected" /\ row.status # "absent"
  BY DEF UseRow, At, IInv, CallInv
<1>2. UNCHANGED <<branch, tree, git, external>> /\ status' \in Statuses
  BY <1>1 DEF UseRow, TypeOK, Statuses
<1>3. CASE Return(c, row.id) /\ UNCHANGED <<row, journal>>
  <2>1. /\ call' \in [Calls -> Call] /\ OthersSame(c) /\ call'[c].pc = "settled"
        /\ call'[c].answer = "opened" /\ call'[c].id = row.id
        /\ call'[c].found = call[c].found /\ call'[c].at = "none" /\ call'[c].attempt = 0
    BY <1>1, <1>3, EndsIn DEF Return, Answers, TypeOK, Row
  <2>2. CallInv(c)'
    BY <1>1, <1>2, <1>3, <2>1, OverInv DEF TurnedAway
  <2> QED BY <1>1, <1>2, <1>3, <2>1, <2>2, CallStep DEF WorldSame, JournalGrows, TypeOK
<1>4. CASE call[c].seen # row.identity /\ Throw(c, "cleanup-required")
  <2>1. external = "nothing" => Gone
    BY <1>1, <1>4 DEF CallInv
  <2>2. ~(external = "nothing" /\ call[c].found = "full")
    BY <1>1, <2>1, FullIsOurs DEF CallInv, FoundInv
  <2>3. CASE UNCHANGED <<row, journal>>
    BY <1>1, <1>2, <1>4, <2>2, <2>3, RefuseStep
       DEF Throw, Answers, WorldSame, JournalGrows, TypeOK
  <2>4. CASE row' = [row EXCEPT !.status = "cleanup-required"] /\ Append("cleanup-intent")
    <3>1. /\ row' \in Row /\ row'.status = "cleanup-required"
          /\ row'.id = row.id /\ row'.identity = row.identity
      BY <1>1, <2>4 DEF TypeOK, Row
    <3>2. JournalGrows
      BY <1>1, <1>2, <2>4 DEF TypeOK, JournalGrows, Append, Actions
    <3>3. /\ call' \in [Calls -> Call] /\ OthersSame(c) /\ call'[c].pc = "settled"
          /\ call'[c].answer = "cleanup-required"
          /\ call'[c].found = call[c].found /\ call'[c].at = "none" /\ call'[c].attempt = 0
      BY <1>1, <1>4, EndsIn DEF Throw, Answers
    <3>4. CallInv(c)'
      BY <1>2, <2>2, <3>3, OverInv
    <3>5. /\ Journaled("create-intent") /\ (external = "nothing" => Listed)
          /\ external # "path exchanged" => row.identity = branch.by /\ branch.by \in Calls
      BY <1>1 DEF WorldInv, UndisturbedInv, RowInv
    <3> QED BY <1>1, <1>2, <2>1, <3>1, <3>2, <3>3, <3>4, <3>5, RowStep
  <2> QED BY <2>3, <2>4, <1>4 DEF UseRow
<1> QED BY <1>3, <1>4 DEF UseRow

LEMMA CommitKeeps == ASSUME IInv, NEW c \in Calls, Commit(c) PROVE IInv'
<1>1. TypeOK /\ CallInv(c) /\ call[c].pc = "commit" /\ UNCHANGED <<branch, tree, git, external>>
  BY DEF Commit, At, IInv
<1>2. Registrable /\ (external # "path exchanged" => call[c].seen = branch.by)
  BY <1>1 DEF CallInv, Registering, Registrable
<1>3. CASE row.status = "active" /\ Return(c, row.id) /\ UNCHANGED <<row, status, journal>>
  <2>1. /\ call' \in [Calls -> Call] /\ OthersSame(c) /\ call'[c].pc = "settled"
        /\ call'[c].answer = "opened" /\ call'[c].id = row.id
        /\ call'[c].found = call[c].found /\ call'[c].at = "none" /\ call'[c].attempt = 0
    BY <1>1, <1>3, EndsIn DEF Return, Answers, TypeOK, Row
  <2>2. CallInv(c)'
    BY <1>1, <1>3, <2>1, OverInv DEF TurnedAway
  <2> QED BY <1>1, <1>3, <2>1, <2>2, CallStep DEF WorldSame, JournalGrows, TypeOK
<1>4. CASE Throw(c, "error") /\ UNCHANGED <<row, status, journal>>
  BY <1>1, <1>4, RefuseStep DEF Throw, Answers, WorldSame, JournalGrows, TypeOK
<1>5. CASE row.status = "absent" /\ RegisteredBy(c) /\ Append(JournalAction(c)) /\ Return(c, c)
  <2>1. call[c] \in Call
    BY <1>1 DEF TypeOK
  <2>2. row' \in Row /\ row'.status = "active" /\ row'.id = c /\ row'.identity = call[c].seen
    BY <1>5, <2>1 DEF RegisteredBy, Row, Call
  <2>3. JournalGrows
    BY <1>1, <1>5 DEF TypeOK, JournalGrows, Append, JournalAction, Actions, RegisteredBy, Statuses
  <2>4. /\ call' \in [Calls -> Call] /\ OthersSame(c) /\ call'[c].pc = "settled"
        /\ call'[c].answer = "opened" /\ call'[c].id = c
        /\ call'[c].found = call[c].found /\ call'[c].at = "none" /\ call'[c].attempt = 0
    BY <1>1, <1>5, EndsIn DEF Return, Answers
  <2>5. CallInv(c)'
    BY <1>1, <2>2, <2>4, OverInv DEF TurnedAway
  <2> QED BY <1>1, <1>2, <1>5, <2>2, <2>3, <2>4, <2>5, RowStep DEF Registrable
<1> QED BY <1>3, <1>4, <1>5 DEF Commit

LEMMA CheckBranchKeeps == ASSUME IInv, NEW c \in Calls, CheckBranch(c) PROVE IInv'
<1>1. /\ TypeOK /\ WorldInv /\ CallInv(c) /\ call[c].pc = "branch"
      /\ UNCHANGED <<row, status, branch, tree, external>>
  BY DEF CheckBranch, At, IInv
<1>2. /\ git[c] = "idle" /\ call[c].at = "none" /\ call[c].attempt = 0
      /\ ~(external = "nothing" /\ call[c].found = "full")
  BY <1>1 DEF CallInv, WaitInv, FoundInv
<1>3. ASSUME NEW answer \in {"branch-occupied", "cleanup-required"}, Throw(c, answer),
             UNCHANGED git, JournalGrows
      PROVE  IInv'
  BY <1>1, <1>2, <1>3, RefuseStep DEF Throw, Answers, WorldSame
<1>4. CASE branch = NoBranch /\ Append("create-intent") /\ GoTo(c, "git")
           /\ git' = [git EXCEPT ![c] = "branch"]
  <2>1. /\ call' \in [Calls -> Call] /\ OthersSame(c)
        /\ call'[c].pc = "git" /\ call'[c].at = "none" /\ call'[c].attempt = 0
        /\ call'[c].found = call[c].found /\ call'[c].answer = call[c].answer
        /\ call'[c].id = call[c].id
    BY <1>1, <1>2, <1>4, GoesTo
  <2>2. JournalGrows /\ Journaled("create-intent")'
    BY <1>1, <1>4 DEF TypeOK, JournalGrows, Append, Actions, Journaled
  <2>3. TypeOK'
    BY <1>1, <1>4, <2>1, <2>2 DEF TypeOK, JournalGrows, GitStages
  <2>4. git'[c] = "branch" /\ \A d \in Calls \ {c} : git'[d] = git[d]
    BY <1>1, <1>4 DEF TypeOK
  <2>5. branch.by \notin Calls /\ tree.by \notin Calls
    BY <1>1, <1>4, MakerAssumption DEF NoBranch, WorldInv, GitInv
  <2>6. GitInv' /\ PathInv'
    BY <1>1, <2>2, <2>4, <2>5 DEF WorldInv, GitInv, PathInv
  <2>7. UndisturbedInv' /\ RowInv'
    BY <1>1, <2>2, <2>4, <2>5 DEF WorldInv, UndisturbedInv, RowInv, Listed, Gone
  <2>8. Outlasts
    BY <1>1, <1>2, <2>2, <2>4, <2>5 DEF Outlasts, Listed, Gone, GitHasBegun
  <2>9. ASSUME NEW d \in Calls \ {c} PROVE CallInv(d)'
    BY <2>1, <2>4, <2>8, OtherCall DEF IInv, OthersSame
  <2>10. FoundInv(c)' /\ WaitInv(c)'
    BY <1>1, <1>2, <2>1 DEF FoundInv, WaitInv
  <2>11. CallInv(c)'
    BY <1>1, <2>1, <2>10 DEF CallInv, Registering
  <2> QED BY <2>3, <2>6, <2>7, <2>9, <2>11 DEF IInv, WorldInv
<1>5. CASE Throw(c, "branch-occupied") /\ UNCHANGED <<git, journal>>
  BY <1>1, <1>3, <1>5 DEF JournalGrows, TypeOK
<1>6. CASE Orphaned(c) /\ UNCHANGED git
  <2>1. JournalGrows
    BY <1>1, <1>6 DEF TypeOK, JournalGrows, Append, Actions, Orphaned
  <2> QED BY <1>3, <1>6, <2>1 DEF Orphaned
<1>7. CASE call' = [call EXCEPT ![c].pc = "realpath", ![c].at = "wait"] /\ UNCHANGED <<git, journal>>
  <2>1. /\ call' \in [Calls -> Call] /\ OthersSame(c)
        /\ call'[c].pc = "realpath" /\ call'[c].at = "wait" /\ call'[c].attempt = 0
        /\ call'[c].found = call[c].found /\ call'[c].answer = call[c].answer
        /\ call'[c].id = call[c].id
    BY <1>1, <1>2, <1>7, GoesOn
  <2>2. WaitInv(c)'
    BY <2>1, AttemptsAssumption DEF WaitInv
  <2>3. WorldSame /\ JournalGrows
    BY <1>1, <1>7 DEF WorldSame, JournalGrows, TypeOK
  <2> QED BY <1>1, <2>1, <2>2, <2>3, MoveStep
<1> QED BY <1>4, <1>5, <1>6, <1>7 DEF CheckBranch

-----------------------------------------------------------------------------
(* git *)

\* A child of a call goes on or ends; the call knows what it knew.
LEMMA GitGoes ==
    ASSUME IInv, NEW c \in Calls, NEW how \in GitStages, GitExits(c, how), git[c] # "idle",
           UNCHANGED <<row, status, journal, call, external>>, branch' \in Branch, tree' \in Tree,
           GitInv', PathInv', UndisturbedInv', Outlasts
    PROVE  IInv'
<1>1. TypeOK'
  BY DEF IInv, TypeOK, GitExits
<1>2. RowInv'
  BY DEF IInv, WorldInv, RowInv, Outlasts, Journaled
<1>3. \A d \in Calls : git[d] = "idle" => git'[d] = "idle"
  BY DEF IInv, TypeOK, GitExits
<1>4. ASSUME NEW d \in Calls PROVE CallInv(d)'
  BY <1>3, OtherCall DEF IInv
<1> QED BY <1>1, <1>2, <1>4 DEF IInv, WorldInv

LEMMA Exits ==
    ASSUME TypeOK, NEW c \in Calls, NEW how \in GitStages, GitExits(c, how)
    PROVE  git'[c] = how /\ \A d \in Calls \ {c} : git'[d] = git[d]
  BY DEF TypeOK, GitExits

LEMMA GitMakesBranchKeeps == ASSUME IInv, NEW c \in Calls, GitMakesBranch(c) PROVE IInv'
<1>1. /\ TypeOK /\ WorldInv /\ git[c] = "branch"
      /\ UNCHANGED <<row, status, journal, tree, call, external>> /\ JournalGrows
  BY DEF GitMakesBranch, IInv, TypeOK, JournalGrows
<1>2. Journaled("create-intent") /\ tree.by # c
  BY <1>1 DEF WorldInv, GitInv
<1>3. CASE branch = NoBranch /\ branch' = [by |-> c, at |-> "base"] /\ GitExits(c, "directory")
  <2>1. git'[c] = "directory" /\ \A d \in Calls \ {c} : git'[d] = git[d]
    BY <1>1, <1>3, Exits DEF GitStages
  <2>2. branch.by \notin Calls /\ tree.by \notin Calls
    BY <1>1, <1>3, MakerAssumption DEF NoBranch, WorldInv, GitInv
  <2>3. branch' \in Branch /\ branch' # NoBranch /\ branch'.by = c /\ branch'.at = "base"
    BY <1>3, MakerAssumption DEF Branch, Makers, NoBranch
  <2>4. GitInv' /\ PathInv'
    BY <1>1, <1>2, <2>1, <2>2, <2>3, MakerAssumption DEF WorldInv, GitInv, PathInv, Journaled
  <2>5. ~Listed
    BY <2>2 DEF Listed, Gone
  <2>6. UndisturbedInv'
    BY <1>1, <2>1, <2>2, <2>3, <2>5, MakerAssumption DEF WorldInv, UndisturbedInv, GitInv
  <2>7. Outlasts
    BY <1>1, <2>1, <2>2, <2>5 DEF Outlasts, Listed, GitHasBegun
  <2> QED BY <1>1, <1>3, <2>3, <2>4, <2>6, <2>7, GitGoes DEF GitStages, TypeOK
<1>4. CASE GitExits(c, "failed") /\ UNCHANGED branch
  <2>1. git'[c] = "failed" /\ \A d \in Calls \ {c} : git'[d] = git[d]
    BY <1>1, <1>4, Exits DEF GitStages
  <2>2. GitInv' /\ PathInv'
    BY <1>1, <1>2, <1>4, <2>1 DEF WorldInv, GitInv, PathInv, Journaled
  <2>3. (Gone => Gone') /\ (Listed => Listed')
    BY <1>1, <1>4, <2>1 DEF Gone, Listed
  <2>4. UndisturbedInv'
    BY <1>1, <1>2, <1>4, <2>1, <2>3 DEF WorldInv, UndisturbedInv
  <2>5. Outlasts
    BY <1>1, <1>4, <2>1, <2>3 DEF Outlasts, GitHasBegun
  <2> QED BY <1>1, <1>4, <2>2, <2>4, <2>5, GitGoes DEF GitStages, TypeOK
<1> QED BY <1>3, <1>4 DEF GitMakesBranch

LEMMA GitMakesDirectoryKeeps == ASSUME IInv, NEW c \in Calls, GitMakesDirectory(c) PROVE IInv'
<1>1. /\ TypeOK /\ WorldInv /\ git[c] = "directory"
      /\ UNCHANGED <<row, status, journal, branch, call, external>> /\ JournalGrows
  BY DEF GitMakesDirectory, IInv, TypeOK, JournalGrows
<1>2. Journaled("create-intent") /\ tree.by # c /\ branch.by = c
  BY <1>1 DEF WorldInv, GitInv
<1>3. ~Gone /\ (tree.by \notin Calls) /\ ~Listed
  BY <1>1, <1>2 DEF Gone, Listed, WorldInv, GitInv
<1>4. CASE tree = NoTree /\ tree' = [by |-> c, stage |-> "directory"] /\ GitExits(c, "list")
  <2>1. git'[c] = "list" /\ \A d \in Calls \ {c} : git'[d] = git[d]
    BY <1>1, <1>4, Exits DEF GitStages
  <2>2. tree' \in Tree /\ tree'.by = c /\ tree'.stage = "directory"
    BY <1>4 DEF Tree, Makers
  <2>3. GitInv' /\ PathInv'
    BY <1>1, <1>2, <1>4, <2>1, <2>2, MakerAssumption
       DEF WorldInv, GitInv, PathInv, NoTree, Journaled
  <2>4. UndisturbedInv'
    BY <1>1, <1>2, <1>3, <2>1, <2>2, MakerAssumption DEF WorldInv, UndisturbedInv, GitInv
  <2>5. Outlasts
    BY <1>1, <1>3, <1>4, <2>1 DEF Outlasts, GitHasBegun, NoTree
  <2> QED BY <1>1, <1>4, <2>2, <2>3, <2>4, <2>5, GitGoes DEF GitStages, TypeOK
<1>5. CASE GitExits(c, "failed") /\ UNCHANGED tree
  <2>1. git'[c] = "failed" /\ \A d \in Calls \ {c} : git'[d] = git[d]
    BY <1>1, <1>5, Exits DEF GitStages
  <2>2. GitInv' /\ PathInv'
    BY <1>1, <1>2, <1>5, <2>1 DEF WorldInv, GitInv, PathInv, Journaled
  <2>3. UndisturbedInv'
    BY <1>1, <1>2, <1>3, <1>5, <2>1 DEF WorldInv, UndisturbedInv
  <2>4. Outlasts
    BY <1>1, <1>3, <1>5, <2>1 DEF Outlasts, GitHasBegun
  <2> QED BY <1>1, <1>5, <2>2, <2>3, <2>4, GitGoes DEF GitStages, TypeOK
<1> QED BY <1>4, <1>5 DEF GitMakesDirectory

LEMMA GitFillsDirectoryKeeps == ASSUME IInv, NEW c \in Calls, GitFillsDirectory(c) PROVE IInv'
<1>1. /\ TypeOK /\ WorldInv /\ tree.by = c
      /\ UNCHANGED <<row, status, journal, branch, call, external>> /\ JournalGrows
  BY DEF GitFillsDirectory, Owns, IInv, TypeOK, JournalGrows
<1>2. PICK how \in {"checkout", "ok"}, stage \in {"listed", "full"} :
        /\ GitExits(c, how) /\ tree' = [tree EXCEPT !.stage = stage]
        /\ \/ git[c] = "list" /\ how = "checkout" /\ stage = "listed"
           \/ git[c] = "checkout" /\ how = "ok" /\ stage = "full"
  BY DEF GitFillsDirectory
<1>3. git'[c] = how /\ \A d \in Calls \ {c} : git'[d] = git[d]
  BY <1>1, <1>2, Exits DEF GitStages
<1>4. tree' \in Tree /\ tree'.by = c /\ tree'.stage = stage
  BY <1>1, <1>2 DEF TypeOK, Tree
<1>5. branch.by = c /\ Journaled("create-intent") /\ ~Gone /\ c # None /\ c # Outsider
  BY <1>1, MakerAssumption DEF WorldInv, GitInv, Gone, NoTree
<1>6. GitInv' /\ PathInv'
  BY <1>1, <1>2, <1>3, <1>4, <1>5 DEF WorldInv, GitInv, PathInv, Journaled
<1>7. Listed'
  BY <1>4 DEF Listed
<1>8. UndisturbedInv'
  BY <1>1, <1>2, <1>3, <1>4, <1>5, <1>7 DEF WorldInv, UndisturbedInv
<1>9. Outlasts
  <2>1. external = "nothing" => tree.stage # "full"
    BY <1>1, <1>2 DEF WorldInv, UndisturbedInv
  <2> QED BY <1>1, <1>2, <1>3, <1>5, <1>7, <2>1 DEF Outlasts, GitHasBegun
<1> QED BY <1>1, <1>2, <1>4, <1>6, <1>8, <1>9, GitGoes DEF GitStages, TypeOK

LEMMA GitBreaksKeeps == ASSUME IInv, NEW c \in Calls, GitBreaks(c) PROVE IInv'
<1>1. /\ TypeOK /\ WorldInv /\ git[c] \in {"branch", "directory", "list", "checkout"}
      /\ UNCHANGED <<row, status, journal, branch, call, external>> /\ JournalGrows
      /\ GitExits(c, "failed")
  BY DEF GitBreaks, IInv, TypeOK, JournalGrows
<1>2. git'[c] = "failed" /\ \A d \in Calls \ {c} : git'[d] = git[d]
  BY <1>1, Exits DEF GitStages
<1>3. Journaled("create-intent")
  BY <1>1 DEF WorldInv, GitInv
<1>4. CASE tree.by = c /\ tree' = NoTree
  <2>1. branch.by = c /\ c # None /\ c # Outsider /\ ~Gone
    BY <1>1, <1>4, MakerAssumption DEF WorldInv, GitInv, Gone, NoTree
  <2>2. tree' \in Tree /\ tree'.by = None /\ tree'.stage = "absent"
    BY <1>4 DEF Tree, NoTree, Makers
  <2>3. GitInv' /\ PathInv'
    BY <1>1, <1>2, <1>3, <1>4, <2>1, <2>2, MakerAssumption DEF WorldInv, GitInv, PathInv, Journaled
  <2>4. Gone' /\ Listed'
    BY <1>1, <1>2, <1>4, <2>1 DEF Gone, Listed
  <2>5. external = "nothing" => tree.stage # "full" /\ \A d \in Calls : git[d] # "ok"
    BY <1>1, <1>4, <2>1 DEF WorldInv, UndisturbedInv
  <2>6. UndisturbedInv'
    BY <1>1, <1>2, <2>1, <2>2, <2>4, <2>5, MakerAssumption DEF WorldInv, UndisturbedInv
  <2>7. Outlasts
    BY <1>1, <1>2, <2>4, <2>5 DEF Outlasts, GitHasBegun
  <2> QED BY <1>1, <2>2, <2>3, <2>6, <2>7, GitGoes DEF GitStages, TypeOK
<1>5. CASE tree.by # c /\ UNCHANGED tree
  <2>1. GitInv' /\ PathInv'
    BY <1>1, <1>2, <1>3, <1>5 DEF WorldInv, GitInv, PathInv, Journaled
  <2>2. (Gone => Gone') /\ (Listed => Listed')
    BY <1>1, <1>2, <1>5 DEF Gone, Listed
  <2>3. UndisturbedInv'
    BY <1>1, <1>2, <1>5, <2>2 DEF WorldInv, UndisturbedInv
  <2>4. Outlasts
    BY <1>1, <1>2, <1>5, <2>2 DEF Outlasts, GitHasBegun
  <2> QED BY <1>1, <1>5, <2>1, <2>3, <2>4, GitGoes DEF GitStages, TypeOK
<1> QED BY <1>4, <1>5 DEF GitBreaks, Owns

-----------------------------------------------------------------------------
(* Failures and other programs *)

\* Whatever the call was doing, and whether its git dies with it or not.
LEMMA StopKeeps == ASSUME IInv, NEW c \in Calls, Stop(c) PROVE IInv'
<1>1. /\ TypeOK /\ WorldInv /\ CallInv(c)
      /\ UNCHANGED <<row, status, journal, branch, tree, external>> /\ JournalGrows
      /\ Ends(c, "lost", "none", None)
  BY DEF Stop, IInv, TypeOK, JournalGrows
<1>2. /\ call' \in [Calls -> Call] /\ OthersSame(c) /\ call'[c].pc = "lost"
      /\ call'[c].answer = "none" /\ call'[c].found = call[c].found
      /\ call'[c].at = "none" /\ call'[c].attempt = 0
  BY <1>1, EndsIn DEF Answers
<1>3. CallInv(c)'
  BY <1>1, <1>2, OverInv DEF TurnedAway
<1>4. CASE UNCHANGED git
  BY <1>1, <1>2, <1>3, <1>4, CallStep DEF WorldSame
<1>5. CASE git[c] \notin {"idle", "ok", "failed"} /\ GitExits(c, "failed")
  <2>1. git'[c] = "failed" /\ \A d \in Calls \ {c} : git'[d] = git[d]
    BY <1>1, <1>5, Exits DEF GitStages
  <2>2. TypeOK'
    BY <1>1, <1>2, <1>5 DEF TypeOK, GitExits, GitStages
  <2>3. Journaled("create-intent") /\ (tree.by = c => git[c] \in {"list", "checkout"})
    BY <1>1, <1>5 DEF WorldInv, GitInv, TypeOK, GitStages
  <2>4. GitInv' /\ PathInv'
    BY <1>1, <2>1, <2>3 DEF WorldInv, GitInv, PathInv, Journaled
  <2>5. (Gone => Gone') /\ (Listed => Listed')
    BY <1>1, <2>1 DEF Gone, Listed
  <2>6. UndisturbedInv' /\ RowInv'
    BY <1>1, <2>1, <2>3, <2>5 DEF WorldInv, UndisturbedInv, RowInv, Journaled
  <2>7. Outlasts
    BY <1>1, <1>5, <2>1, <2>5 DEF Outlasts, GitHasBegun
  <2>8. ASSUME NEW d \in Calls \ {c} PROVE CallInv(d)'
    BY <1>2, <2>1, <2>7, OtherCall DEF IInv, OthersSame
  <2> QED BY <1>3, <2>2, <2>4, <2>6, <2>8 DEF IInv, WorldInv
<1> QED BY <1>4, <1>5 DEF Stop

\* After the change nothing is promised of an undisturbed key, but what was
\* registered, or is about to be, is still git's.
LEMMA ExternalKeeps == ASSUME IInv, External PROVE IInv'
<1>1. /\ TypeOK /\ WorldInv /\ external = "nothing" /\ external' \in Externals
      /\ external' # "nothing" /\ UNCHANGED <<row, status, journal, git, call>>
  BY ExternalsAssumption DEF External, IInv
<1>2. /\ branch' \in Branch /\ tree' \in Tree /\ (branch.by \in Calls => branch'.by = branch.by)
      /\ GitInv' /\ PathInv' /\ (external' = "path taken" => ~GitHasBegun)
  <2>1. CASE /\ external' = "branch taken" /\ branch = NoBranch /\ UNCHANGED tree
             /\ \E at \in {"base", "elsewhere"} : branch' = [by |-> Outsider, at |-> at]
    <3>1. branch' \in Branch /\ branch'.by = Outsider /\ branch' # NoBranch
      <4>1. PICK at \in {"base", "elsewhere"} : branch' = [by |-> Outsider, at |-> at]
        BY <2>1
      <4> QED BY <4>1, MakerAssumption DEF Branch, Makers, NoBranch
    <3>2. branch.by \notin Calls /\ tree.by \notin Calls
      BY <1>1, <2>1, MakerAssumption DEF NoBranch, WorldInv, GitInv
    <3>3. GitInv' /\ PathInv'
      BY <1>1, <2>1, <3>1, <3>2, MakerAssumption DEF WorldInv, GitInv, PathInv, Journaled
    <3> QED BY <1>1, <2>1, <3>1, <3>2, <3>3 DEF TypeOK
  <2>2. CASE /\ external' = (IF GitHasBegun THEN "path exchanged" ELSE "path taken")
             /\ tree = NoTree /\ tree' = [by |-> Outsider, stage |-> "directory"]
             /\ UNCHANGED branch
    <3>1. tree' \in Tree /\ tree'.by = Outsider /\ tree'.stage = "directory"
      BY <2>2 DEF Tree, Makers
    <3>2. GitInv'
      BY <1>1, <2>2, <3>1, MakerAssumption DEF WorldInv, GitInv, Journaled
    <3>3. PathInv'
      BY <1>1, <2>2, <3>1 DEF PathInv, GitHasBegun
    <3> QED BY <1>1, <2>2, <3>1, <3>2, <3>3 DEF TypeOK
  <2>3. CASE external' = "removed" /\ tree' = NoTree /\ UNCHANGED branch
    <3>1. tree' \in Tree /\ tree'.by = None /\ tree'.stage = "absent"
      BY <2>3 DEF Tree, Makers, NoTree
    <3>2. GitInv' /\ PathInv'
      BY <1>1, <2>3, <3>1, MakerAssumption DEF WorldInv, GitInv, PathInv, Journaled
    <3> QED BY <1>1, <2>3, <3>1, <3>2 DEF TypeOK
  <2>4. CASE /\ external' = "committed" /\ tree.stage = "full" /\ UNCHANGED tree
             /\ branch' = [branch EXCEPT !.at = "elsewhere"]
    <3>1. branch' \in Branch /\ branch'.by = branch.by
      BY <1>1, <2>4 DEF TypeOK, Branch
    <3>2. tree.by \in Calls
      BY <1>1, <2>4, MakerAssumption DEF TypeOK, Tree, Makers, WorldInv, GitInv, PathInv
    <3>3. branch'.by \in Calls /\ branch'.by # None
      BY <1>1, <3>1, <3>2, MakerAssumption DEF WorldInv, GitInv
    <3>4. GitInv'
      BY <1>1, <2>4, <3>1, <3>3, MakerAssumption DEF WorldInv, GitInv, Journaled, NoBranch
    <3>5. PathInv'
      BY <1>1, <2>4, <3>2, MakerAssumption DEF PathInv
    <3> QED BY <1>1, <2>4, <3>1, <3>4, <3>5 DEF TypeOK
  <2> QED BY <2>1, <2>2, <2>3, <2>4 DEF External
<1>3. TypeOK' /\ UndisturbedInv'
  BY <1>1, <1>2 DEF TypeOK, UndisturbedInv
<1>4. RowInv'
  BY <1>1, <1>2 DEF WorldInv, RowInv, Journaled
<1>5. ASSUME NEW d \in Calls PROVE CallInv(d)'
  <2>1. CallInv(d) /\ GitHasBegun' = GitHasBegun
    BY <1>1 DEF IInv, GitHasBegun
  <2>2. FoundInv(d)' /\ WaitInv(d)'
    BY <1>1, <2>1 DEF CallInv, FoundInv, WaitInv
  <2>3. call[d].pc = "commit" => call[d].seen = branch'.by
    BY <1>1, <1>2, <2>1 DEF CallInv, Registering
  <2> QED BY <1>1, <1>2, <2>1, <2>2, <2>3 DEF CallInv, Journaled
<1> QED BY <1>2, <1>3, <1>4, <1>5 DEF IInv, WorldInv

\* What get() writes is the status of the workspace, which nothing rests on.
LEMMA GetKeeps == ASSUME IInv, Get PROVE IInv'
<1>1. UNCHANGED <<row, journal, branch, tree, git, call, external>> /\ status' \in Statuses
  BY DEF Get, Statuses
<1>2. TypeOK'
  BY <1>1 DEF IInv, TypeOK
<1>3. Gone' = Gone /\ Listed' = Listed /\ GitHasBegun' = GitHasBegun
  BY <1>1 DEF Gone, Listed, GitHasBegun
<1>4. GitInv' /\ PathInv' /\ RowInv'
  BY <1>1 DEF IInv, WorldInv, GitInv, PathInv, RowInv, Journaled
<1>5. UndisturbedInv'
  BY <1>1, <1>3 DEF IInv, WorldInv, UndisturbedInv
<1>6. Outlasts
  BY <1>1, <1>2, <1>3 DEF Outlasts, JournalGrows, TypeOK
<1>7. ASSUME NEW d \in Calls PROVE CallInv(d)'
  BY <1>1, <1>6, OtherCall DEF IInv
<1> QED BY <1>2, <1>4, <1>5, <1>7 DEF IInv, WorldInv

LEMMA NextIInv == ASSUME IInv, [Next]_vars PROVE IInv'
<1>1. ASSUME NEW c \in Calls, Step(c) PROVE IInv'
  BY <1>1, ReadRowKeeps, InspectKeeps, UseRowKeeps, LstatKeeps, CheckBranchKeeps,
     GitReturnsKeeps, RealPathKeeps, ListWorktreesKeeps, MatchPathKeeps, ResolveKeeps,
     CommitKeeps DEF Step
<1>2. ASSUME NEW c \in Calls, GitStep(c) PROVE IInv'
  BY <1>2, GitMakesBranchKeeps, GitMakesDirectoryKeeps, GitFillsDirectoryKeeps,
     GitBreaksKeeps DEF GitStep
<1>3. CASE UNCHANGED vars
  <2>1. TypeOK'
    BY <1>3 DEF vars, IInv, TypeOK
  <2>2. Gone' = Gone /\ Listed' = Listed /\ GitHasBegun' = GitHasBegun
    BY <1>3 DEF vars, Gone, Listed, GitHasBegun
  <2>3. GitInv' /\ PathInv' /\ RowInv'
    BY <1>3 DEF vars, IInv, WorldInv, GitInv, PathInv, RowInv, Journaled
  <2>4. UndisturbedInv'
    BY <1>3, <2>2 DEF vars, IInv, WorldInv, UndisturbedInv
  <2>5. Outlasts
    BY <1>3, <2>1, <2>2 DEF vars, Outlasts, JournalGrows, TypeOK
  <2>6. ASSUME NEW d \in Calls PROVE CallInv(d)'
    BY <1>3, <2>5, OtherCall DEF vars, IInv
  <2> QED BY <2>1, <2>3, <2>4, <2>6 DEF IInv, WorldInv
<1> QED BY <1>1, <1>2, <1>3, OpenKeeps, StopKeeps, GetKeeps, ExternalKeeps DEF Next

-----------------------------------------------------------------------------
(* What it shows *)

\* The strengthened invariant, of every interleaving of opens, children of
\* git, deaths and one change by another program.
THEOREM OpenInvariance == Spec => []IInv
<1>1. Init => IInv
  BY InitIInv
<1>2. IInv /\ [Next]_vars => IInv'
  BY NextIInv
<1> QED BY <1>1, <1>2, PTL DEF Spec

\* Everybody who opens the worktree gets the workspace of its one row, for any
\* number of calls (the transaction of #registerManagedWorktree).
THEOREM OneWorkspacePerKey == Spec => []OneWorkspace
<1>1. IInv => OneWorkspace
  BY DEF IInv, CallInv, OneWorkspace
<1> QED BY <1>1, OpenInvariance, PTL

\* A row is only made for what Benchhand's own git made after the intent was
\* journaled (#tryReconcilePartialWorktree's tests).
THEOREM OnlyOwnAdopted == Spec => []NothingForeignAdopted
<1>1. IInv => NothingForeignAdopted
  BY DEF IInv, WorldInv, RowInv, NothingForeignAdopted
<1> QED BY <1>1, OpenInvariance, PTL

\* A finished worktree whose opener died or failed is never refused to a later
\* open() of the key (the reconciliation of the path).
THEOREM FinishedIsAdopted == Spec => []InterruptedIsAdopted
<1>1. IInv => InterruptedIsAdopted
  BY DEF IInv, CallInv, FoundInv, InterruptedIsAdopted
<1> QED BY <1>1, OpenInvariance, PTL

\* No step of any call changes the row of a worktree that needs cleaning up,
\* whatever the call has read before (UseRow's guard, the primary key of
\* managed_worktrees).
THEOREM CleanupStays == Spec => CleanupSticky
<1>1. ASSUME Next, row.status = "cleanup-required" PROVE row' = row
  <2>1. ASSUME NEW c \in Calls, UseRow(c) PROVE row' = row
    BY <1>1, <2>1 DEF UseRow
  <2>2. ASSUME NEW c \in Calls, Commit(c) PROVE row' = row
    BY <1>1, <2>2 DEF Commit
  <2>3. ASSUME NEW c \in Calls,
               \/ Open(c) \/ ReadRow(c) \/ Inspect(c) \/ Lstat(c) \/ CheckBranch(c)
               \/ GitReturns(c) \/ RealPath(c) \/ ListWorktrees(c) \/ MatchPath(c)
               \/ Resolve(c) \/ GitStep(c) \/ Stop(c)
        PROVE  row' = row
    BY <2>3 DEF Open, ReadRow, Inspect, Lstat, CheckBranch, GitReturns, RealPath, ListWorktrees,
       MatchPath, Resolve, GitStep, GitMakesBranch, GitMakesDirectory, GitFillsDirectory,
       GitBreaks, Stop
  <2>4. Get \/ External => row' = row
    BY DEF Get, External
  <2> QED BY <1>1, <2>1, <2>2, <2>3, <2>4 DEF Next, Step
<1>2. [Next]_vars => [row.status = "cleanup-required" => row' = row]_vars
  BY <1>1 DEF vars
<1> QED BY <1>2, PTL DEF Spec, CleanupSticky
=============================================================================
