------------------------- MODULE FileMutation_proofs -------------------------
(***************************************************************************)
(* The mutations of files take turns as the WriteQueue says, and what they *)
(* promise about the entries they write, for every number of calls,        *)
(* daemons, entries and contents, of faults and of other programs.         *)
(***************************************************************************)
EXTENDS FileMutation, TLAPS

Turns == INSTANCE WriteQueue_proofs

-----------------------------------------------------------------------------
(* Taking turns *)

LEMMA InitSimulated == Init => Queue!Init
  BY DEF Init

LEMMA CallSimulated ==
    ASSUME NEW w \in Calls, Step(w) PROVE [Queue!Next]_Queue!vars
<1>1. CASE Begin(w)
  BY <1>1 DEF Begin, Queue!Next
<1>2. CASE \/ InspectSource(w) \/ ReadSource(w) \/ Inspect(w) \/ OpenTemp(w)
           \/ FillTemp(w) \/ Recheck(w) \/ Link(w) \/ Rename(w) \/ Unlink(w)
           \/ SyncDirectory(w) \/ CleanUp(w)
  <2>1. Queue!Settle(w) \/ UNCHANGED queueVars
    BY <1>2 DEF InspectSource, ReadSource, Inspect, OpenTemp, FillTemp, Recheck, Link,
                Rename, Unlink, SyncDirectory, CleanUp, End, GoOn, Abandon, Replace
  <2> QED BY <2>1 DEF Queue!Next, queueVars, Queue!vars
<1>3. CASE Release(w)
  BY <1>3 DEF Release, Queue!Next
<1> QED BY <1>1, <1>2, <1>3 DEF Step

LEMMA StepSimulated == [Next]_vars => [Queue!Next]_Queue!vars
<1> SUFFICES ASSUME [Next]_vars PROVE [Queue!Next]_Queue!vars
  OBVIOUS
<1>1. ASSUME NEW w \in Calls, NEW k \in Keys, NEW r \in Requests, Arrive(w, k, r)
      PROVE  Queue!Next
  BY <1>1 DEF Arrive, Queue!Next
<1>2. ASSUME NEW f \in Files, NEW entry \in Contents \cup {Absent, Special}, External(f, entry)
      PROVE  UNCHANGED Queue!vars
  BY <1>2 DEF External, Queue!vars
<1>3. ASSUME NEW s \in Services, Crash(s) PROVE Queue!Next
  BY <1>3 DEF Crash, Queue!Next
<1>4. ASSUME PowerFailure PROVE Queue!Next
  <2>1. Queue!Die(Services) /\ Services \in SUBSET Services
    BY <1>4 DEF PowerFailure
  <2> QED BY <2>1 DEF Queue!Next
<1>5. CASE UNCHANGED vars
  BY <1>5 DEF vars, Queue!vars
<1> QED BY <1>1, <1>2, <1>3, <1>4, <1>5, CallSimulated DEF Next

\* However a mutation ends, and whoever crashes, the calls take turns exactly
\* as the chain of promises of #serializeWrite() lets them.
THEOREM MutationsTakeTurns == Spec => TakesTurns
<1> QED BY InitSimulated, StepSimulated, PTL DEF Spec, TakesTurns, Queue!Spec

\* What the mutations need of the queue: a call keeps its target from its
\* arrival on, and no other of its target runs while it does.
OneAtATime ==
    /\ stage \in [Calls -> Queue!Stages]
    /\ key \in [Calls -> Keys \cup {None}]
    /\ \A w \in Calls : stage[w] # "new" => key[w] \in Keys
    /\ \A v, w \in Calls :
          stage[v] = "running" /\ stage[w] = "running" /\ key[v] = key[w] => v = w

LEMMA SameQueue == Queue!Spec => Turns!Spec
<1>1. Queue!Init => Turns!Init
  BY DEF Queue!Init, Turns!Init
<1>2. ASSUME [Queue!Next]_Queue!vars PROVE [Turns!Next]_Turns!vars
  <2>1. CASE UNCHANGED Queue!vars
    BY <2>1 DEF Queue!vars, Turns!vars
  <2>2. CASE Queue!Next
    <3>1. ASSUME NEW w \in Calls, NEW k \in Keys, Queue!Enqueue(w, k) PROVE Turns!Enqueue(w, k)
      BY <3>1 DEF Queue!Enqueue, Turns!Enqueue, Queue!Arrive, Turns!Arrive
    <3>2. ASSUME NEW w \in Calls, Queue!Begin(w) PROVE Turns!Begin(w)
      BY <3>2 DEF Queue!Begin, Turns!Begin, Queue!Over, Turns!Over
    <3>3. ASSUME NEW w \in Calls, Queue!Settle(w) PROVE Turns!Settle(w)
      BY <3>3 DEF Queue!Settle, Turns!Settle
    <3>4. ASSUME NEW w \in Calls, Queue!Release(w) PROVE Turns!Release(w)
      BY <3>4 DEF Queue!Release, Turns!Release, Queue!DropTail, Turns!DropTail
    <3>5. ASSUME NEW S \in SUBSET Services, Queue!Die(S) PROVE Turns!Die(S)
      BY <3>5 DEF Queue!Die, Turns!Die
    <3> QED BY <2>2, <3>1, <3>2, <3>3, <3>4, <3>5 DEF Queue!Next, Turns!Next
  <2> QED BY <1>2, <2>1, <2>2
<1> QED BY <1>1, <1>2, PTL DEF Queue!Spec, Turns!Spec

LEMMA AlwaysOneAtATime == Spec => []OneAtATime
<1>1. Spec => []Turns!IInv /\ []Turns!MutualExclusion
  BY MutationsTakeTurns, SameQueue, Turns!Invariance, Turns!MutuallyExclusive, KeyAssumption, PTL
     DEF TakesTurns, Turns!ServiceAssumption, Turns!NoneIsNoCall
<1>2. Turns!IInv /\ Turns!MutualExclusion => OneAtATime
  BY DEF Turns!IInv, Turns!TypeOK, Turns!ArrivalInv, Turns!MutualExclusion, Turns!Stages,
         Queue!Stages, OneAtATime
<1> QED BY <1>1, <1>2, PTL

-----------------------------------------------------------------------------
(* The invariant *)

Types ==
    /\ job \in [Calls -> Job]
    /\ temp \in [Calls -> Contents \cup {Absent, Partial}]
    /\ file \in [Files -> Entries]
    /\ disk \in [Files -> Entries]
    /\ writer \in [Files -> Calls \cup {None}]
    /\ external \in Nat
    /\ deaths \in Nat

\* What readers see, and what survives, is never a part; who wrote it has arrived.
EntriesInv ==
    \A f \in Files :
        /\ file[f] # Partial /\ disk[f] # Partial
        /\ writer[f] # None => stage[writer[f]] # "new" /\ f = Target(writer[f])

Committed(w) == job[w].step \in {"unlink", "sync"} \/ job[w].outcome \in Succeeded

\* The local variables of a call agree with how far it is.
ProgressInv(w) ==
    /\ stage[w] # "new" => job[w].content \in Contents
    /\ stage[w] \in {"new", "queued"} => job[w].step = "idle"
    /\ job[w].outcome = "none" <=> job[w].step \notin {"clean-up", "over"}
    /\ job[w].step = "clean-up" => job[w].outcome \in {"conflict", "error"}
    /\ stage[w] = "running" => job[w].step # "over"

\* The temporary file is complete before the commit.
TempInv(w) == job[w].step \in {"recheck", "commit"} => temp[w] = job[w].content

\* Only a call that has committed is the writer of an entry, and as long as it
\* is, the entry has its content.
ContentInv(w) ==
    \A f \in Files : writer[f] = w =>
        /\ Committed(w)
        /\ stage[w] = "running" => file[f] = job[w].content
        /\ job[w].outcome = "file-and-directory" =>
              file[f] = job[w].content /\ disk[f] = job[w].content

\* Somebody outside the daemon of w: another program, or another daemon's call.
Outsider(w, v) ==
    \/ v = None /\ external > 0
    \/ v # None /\ stage[v] # "new" /\ ServiceOf[key[v]] # ServiceOf[key[w]]

\* Between the last comparison and the commit only outsiders write the entry.
WindowInv(w) ==
    stage[w] = "running" /\ job[w].step = "commit" =>
        \/ job[w].expected \in {Absent, Unconditional}
        \/ file[Target(w)] = job[w].expected
        \/ Outsider(w, writer[Target(w)])

CommitInv(w) ==
    Committed(w) =>
        /\ stage[w] # "new"
        /\ \/ job[w].expected = Unconditional
           \/ job[w].replaced = job[w].expected
           \/ job[w].expected # Absent /\ Outsider(w, job[w].overtaken)

CallInv(w) ==
    ProgressInv(w) /\ TempInv(w) /\ ContentInv(w) /\ WindowInv(w) /\ CommitInv(w)

MutationInv == Types /\ EntriesInv /\ \A w \in Calls : CallInv(w)

LEMMA InitMutationInv == Init => MutationInv
<1> SUFFICES ASSUME Init PROVE MutationInv
  OBVIOUS
<1> USE DEF Init
<1>1. Idle \in Job /\ Idle.step = "idle" /\ Idle.outcome = "none"
  BY DEF Idle, Job, Steps, Outcomes, Entries
<1>2. Types
  BY <1>1 DEF Types, Entries
<1>3. EntriesInv
  BY ContentAssumption DEF EntriesInv
<1>4. ASSUME NEW w \in Calls PROVE CallInv(w)
  <2>1. stage[w] = "new" /\ job[w] = Idle /\ \A f \in Files : writer[f] # w
    BY KeyAssumption DEF Queue!Init
  <2>2. ~Committed(w)
    BY <1>1, <2>1 DEF Committed, Succeeded
  <2> QED BY <1>1, <2>1, <2>2 DEF CallInv, ProgressInv, TempInv, ContentInv, WindowInv, CommitInv
<1> QED BY <1>2, <1>3, <1>4 DEF MutationInv

\* A step of one call that writes no entry keeps the invariant of the others.
LEMMA QuietStep ==
    ASSUME MutationInv, OneAtATime, Types', NEW w \in Calls,
           UNCHANGED <<key, file, writer, external>>,
           \A v \in Calls \ {w} :
               stage'[v] = stage[v] /\ job'[v] = job[v] /\ temp'[v] = temp[v],
           \A f \in Files : disk'[f] # disk[f] => writer[f] = w /\ disk'[f] # Partial,
           stage[w] # "new", stage'[w] # "new",
           CallInv(w)'
    PROVE  MutationInv'
<1> USE DEF MutationInv
<1>1. EntriesInv'
  <2> SUFFICES ASSUME NEW f \in Files
               PROVE  /\ file[f] # Partial /\ disk'[f] # Partial
                      /\ writer[f] # None => stage'[writer[f]] # "new" /\ f = Target(writer[f])
    BY DEF EntriesInv, Target
  <2> QED BY DEF EntriesInv, Types
<1>2. ASSUME NEW v \in Calls \ {w} PROVE CallInv(v)'
  <2>1. CallInv(v) /\ stage'[v] = stage[v] /\ job'[v] = job[v] /\ temp'[v] = temp[v]
    BY <1>2
  <2>2. ProgressInv(v)' /\ TempInv(v)'
    BY <2>1 DEF CallInv, ProgressInv, TempInv
  <2>3. Committed(v)' = Committed(v)
    BY <2>1 DEF Committed
  <2>4. ContentInv(v)'
    BY <2>1, <2>3 DEF CallInv, ContentInv
  <2>5. ASSUME NEW u \in Calls \cup {None}, Outsider(v, u) PROVE Outsider(v, u)'
    BY <2>5 DEF Outsider
  <2>6. WindowInv(v)'
    <3>1. SUFFICES ASSUME stage[v] = "running", job[v].step = "commit"
                   PROVE  \/ job[v].expected \in {Absent, Unconditional}
                          \/ file[Target(v)] = job[v].expected
                          \/ Outsider(v, writer[Target(v)])'
      BY <2>1 DEF WindowInv, Target
    <3>2. Target(v) \in Files /\ writer[Target(v)] \in Calls \cup {None}
      BY <3>1, FileAssumption DEF Target, OneAtATime, Types
    <3>3. Outsider(v, writer[Target(v)]) => Outsider(v, writer[Target(v)])'
      BY <3>2 DEF Outsider, Target
    <3> QED BY <2>1, <3>1, <3>3 DEF CallInv, WindowInv
  <2>7. job[v].overtaken \in Calls \cup {None}
    BY DEF Types, Job
  <2>8. CommitInv(v)'
    BY <2>1, <2>3, <2>5, <2>7 DEF CallInv, CommitInv
  <2> QED BY <2>2, <2>4, <2>6, <2>8 DEF CallInv
<1> QED BY <1>1, <1>2

-----------------------------------------------------------------------------
(* The steps of a call *)

SameRequest(w) ==
    /\ job'[w].kind = job[w].kind /\ job'[w].expected = job[w].expected
    /\ job'[w].content = job[w].content

OthersSame(w) ==
    \A v \in Calls \ {w} :
        stage'[v] = stage[v] /\ job'[v] = job[v] /\ temp'[v] = temp[v]

LEMMA GoesOn ==
    ASSUME Types, OneAtATime, NEW w \in Calls, NEW step \in Steps, GoOn(w, step)
    PROVE  /\ job' \in [Calls -> Job] /\ SameRequest(w)
           /\ job'[w].step = step /\ job'[w].outcome = job[w].outcome
           /\ job'[w].replaced = job[w].replaced /\ job'[w].overtaken = job[w].overtaken
           /\ \A v \in Calls \ {w} : stage'[v] = stage[v] /\ job'[v] = job[v]
           /\ stage' = stage /\ key' = key
<1>1. job[w] \in Job /\ job' = [job EXCEPT ![w] = [job[w] EXCEPT !.step = step]]
  BY DEF Types, GoOn
<1>2. [job[w] EXCEPT !.step = step] \in Job
  BY <1>1 DEF Job
<1> QED BY <1>1, <1>2 DEF Types, GoOn, Job, queueVars, SameRequest

LEMMA Finishes ==
    ASSUME Types, OneAtATime, NEW w \in Calls, NEW outcome \in Outcomes,
           End(w, outcome) \/ Abandon(w, outcome)
    PROVE  /\ job' \in [Calls -> Job] /\ SameRequest(w)
           /\ job'[w].outcome = outcome
           /\ job'[w].replaced = job[w].replaced /\ job'[w].overtaken = job[w].overtaken
           /\ \/ End(w, outcome) /\ job'[w].step = "over" /\ stage'[w] = "settled"
              \/ Abandon(w, outcome) /\ job'[w].step = "clean-up" /\ stage'[w] = stage[w]
           /\ \A v \in Calls \ {w} : stage'[v] = stage[v] /\ job'[v] = job[v]
           /\ key' = key
<1>1. PICK step \in {"over", "clean-up"} :
         /\ job' = [job EXCEPT ![w] = [job[w] EXCEPT !.step = step, !.outcome = outcome]]
         /\ \/ step = "over" /\ End(w, outcome)
            \/ step = "clean-up" /\ Abandon(w, outcome)
  BY DEF Types, End, Abandon
<1>2. job[w] \in Job /\ [job[w] EXCEPT !.step = step, !.outcome = outcome] \in Job
  BY DEF Types, Job, Steps
<1>3. job' \in [Calls -> Job] /\ job'[w] = [job[w] EXCEPT !.step = step, !.outcome = outcome]
      /\ \A v \in Calls \ {w} : job'[v] = job[v]
  BY <1>1, <1>2 DEF Types
<1>4. /\ key' = key /\ \A v \in Calls \ {w} : stage'[v] = stage[v]
      /\ step = "over" => stage'[w] = "settled"
      /\ step = "clean-up" => stage'[w] = stage[w]
  BY <1>1 DEF End, Abandon, Queue!Settle, queueVars, OneAtATime
<1> QED BY <1>1, <1>2, <1>3, <1>4 DEF Job, SameRequest

LEMMA RunningFacts ==
    ASSUME MutationInv, OneAtATime, NEW w \in Calls, stage[w] \notin {"new"}
    PROVE  /\ key[w] \in Keys /\ Target(w) \in Files /\ job[w] \in Job
           /\ file[Target(w)] \in Contents \cup {Absent, Special}
           /\ writer[Target(w)] \in Calls \cup {None}
           /\ job[w].content \in Contents
           /\ ~Committed(w) => \A f \in Files : writer[f] # w
<1>1. key[w] \in Keys /\ Target(w) \in Files
  BY FileAssumption DEF OneAtATime, Target
<1> QED BY <1>1 DEF MutationInv, Types, EntriesInv, Entries, CallInv, ContentInv, ProgressInv

\* A step after which the call has still not committed.
LEMMA UncommittedStep ==
    ASSUME MutationInv, OneAtATime, NEW w \in Calls,
           stage[w] # "new", stage'[w] # "new", ~Committed(w), ~Committed(w)',
           UNCHANGED <<key, file, disk, writer, external, deaths>>,
           job' \in [Calls -> Job], temp' \in [Calls -> Contents \cup {Absent, Partial}],
           OthersSame(w), ProgressInv(w)', TempInv(w)', WindowInv(w)'
    PROVE  MutationInv'
<1>1. Types'
  BY DEF MutationInv, Types
<1>2. \A f \in Files : writer[f] # w
  BY RunningFacts
<1>3. ContentInv(w)' /\ CommitInv(w)'
  BY <1>2 DEF ContentInv, CommitInv
<1> QED BY <1>1, <1>3, QuietStep DEF CallInv, OthersSame

Early == {"inspect-source", "read-source", "inspect", "open", "fill", "recheck", "commit"}
WorldUnchanged == UNCHANGED <<file, disk, writer, external, deaths>>
TempOf(w) ==
    /\ temp' \in [Calls -> Contents \cup {Absent, Partial}]
    /\ \A v \in Calls \ {w} : temp'[v] = temp[v]

LEMMA EarlyFacts ==
    ASSUME MutationInv, NEW w \in Calls, NEW step \in Early, At(w, step)
    PROVE  /\ stage[w] = "running" /\ job[w].step = step
           /\ job[w].outcome = "none" /\ ~Committed(w)
  BY DEF At, Early, MutationInv, CallInv, ProgressInv, Committed, Succeeded

\* The call goes on to its next await, which is not the commit.
LEMMA OnwardStep ==
    ASSUME MutationInv, OneAtATime, NEW w \in Calls, stage[w] = "running",
           job[w].outcome = "none", ~Committed(w),
           NEW step \in Early \ {"commit"}, GoOn(w, step), WorldUnchanged, TempOf(w),
           step = "recheck" => temp'[w] = job[w].content
    PROVE  MutationInv'
<1>1. step \in Steps /\ Types
  BY DEF Early, Steps, MutationInv
<1>2. /\ job' \in [Calls -> Job] /\ SameRequest(w) /\ stage' = stage /\ key' = key
      /\ job'[w].step = step /\ job'[w].outcome = "none"
      /\ \A v \in Calls \ {w} : job'[v] = job[v]
  BY <1>1, GoesOn
<1>3. ~Committed(w)' /\ job[w].content \in Contents
  BY <1>2, RunningFacts DEF Committed, Succeeded, Early
<1>4. ProgressInv(w)' /\ TempInv(w)' /\ WindowInv(w)'
  BY <1>2, <1>3 DEF ProgressInv, TempInv, WindowInv, Early, SameRequest
<1>5. OthersSame(w)
  BY <1>2 DEF OthersSame, TempOf
<1> QED BY <1>2, <1>3, <1>4, <1>5, UncommittedStep DEF WorldUnchanged, TempOf

\* The call is refused or fails before it has committed.
LEMMA RefusedStep ==
    ASSUME MutationInv, OneAtATime, NEW w \in Calls, stage[w] = "running", ~Committed(w),
           NEW outcome \in {"conflict", "error"}, End(w, outcome) \/ Abandon(w, outcome),
           WorldUnchanged, TempOf(w)
    PROVE  MutationInv'
<1>1. outcome \in Outcomes /\ Types
  BY DEF Outcomes, MutationInv
<1>2. /\ job' \in [Calls -> Job] /\ SameRequest(w) /\ key' = key
      /\ job'[w].outcome = outcome
      /\ \/ job'[w].step = "over" /\ stage'[w] = "settled"
         \/ job'[w].step = "clean-up" /\ stage'[w] = stage[w]
      /\ \A v \in Calls \ {w} : stage'[v] = stage[v] /\ job'[v] = job[v]
  BY <1>1, Finishes
<1>3. ~Committed(w)' /\ job[w].content \in Contents
  BY <1>2, RunningFacts DEF Committed, Succeeded
<1>4. ProgressInv(w)' /\ TempInv(w)' /\ WindowInv(w)'
  BY <1>2, <1>3 DEF ProgressInv, TempInv, WindowInv, SameRequest
<1>5. OthersSame(w)
  BY <1>2 DEF OthersSame, TempOf
<1> QED BY <1>2, <1>3, <1>4, <1>5, UncommittedStep DEF WorldUnchanged, TempOf

LEMMA BeginKeeps ==
    ASSUME MutationInv, OneAtATime, NEW w \in Calls, Begin(w) PROVE MutationInv'
<1>1. /\ stage[w] = "queued" /\ stage' = [stage EXCEPT ![w] = "running"] /\ key' = key
      /\ WorldUnchanged /\ temp' = temp
  BY DEF Begin, Queue!Begin, WorldUnchanged
<1>2. PICK step \in {"inspect-source", "inspect"} :
         job' = [job EXCEPT ![w] = [job[w] EXCEPT !.step = step]]
  BY DEF Begin, MutationInv, Types
<1>3. job[w] \in Job /\ job[w].step = "idle" /\ job[w].outcome = "none" /\ ~Committed(w)
  BY <1>1 DEF MutationInv, Types, CallInv, ProgressInv, Committed, Succeeded
<1>4. [job[w] EXCEPT !.step = step] \in Job
  BY <1>3 DEF Job, Steps
<1>5. /\ job' \in [Calls -> Job] /\ job'[w] = [job[w] EXCEPT !.step = step]
      /\ \A v \in Calls \ {w} : job'[v] = job[v]
  BY <1>2, <1>4 DEF MutationInv, Types
<1>6. /\ job'[w].step = step /\ job'[w].outcome = "none" /\ SameRequest(w)
      /\ stage'[w] = "running" /\ \A v \in Calls \ {w} : stage'[v] = stage[v]
  BY <1>1, <1>3, <1>5 DEF Job, SameRequest, OneAtATime
<1>7. ~Committed(w)' /\ job[w].content \in Contents
  BY <1>1, <1>6, RunningFacts DEF Committed, Succeeded
<1>8. ProgressInv(w)' /\ TempInv(w)' /\ WindowInv(w)'
  BY <1>6, <1>7 DEF ProgressInv, TempInv, WindowInv, SameRequest
<1>9. OthersSame(w)
  BY <1>1, <1>5, <1>6 DEF OthersSame
<1>10. temp' \in [Calls -> Contents \cup {Absent, Partial}] /\ stage'[w] # "new"
  BY <1>1, <1>6 DEF MutationInv, Types
<1> QED BY <1>1, <1>3, <1>5, <1>7, <1>8, <1>9, <1>10, UncommittedStep DEF WorldUnchanged

\* The steps up to the second inspection.
LEMMA PreparationKeeps ==
    ASSUME MutationInv, OneAtATime, NEW w \in Calls,
           \/ InspectSource(w) \/ ReadSource(w) \/ Inspect(w) \/ OpenTemp(w) \/ FillTemp(w)
    PROVE  MutationInv'
<1>1. PICK from \in Early : At(w, from)
  BY DEF InspectSource, ReadSource, Inspect, OpenTemp, FillTemp, Early
<1>2. stage[w] = "running" /\ job[w].outcome = "none" /\ ~Committed(w)
  BY <1>1, EarlyFacts
<1>3. WorldUnchanged /\ job[w].content \in Contents /\ Types
  BY <1>2, RunningFacts DEF InspectSource, ReadSource, Inspect, OpenTemp, FillTemp,
     WorldUnchanged, MutationInv
<1>4. \/ /\ \E step \in Early \ {"commit"} :
                GoOn(w, step) /\ (step = "recheck" => temp'[w] = job[w].content)
         /\ TempOf(w)
      \/ /\ \E outcome \in {"conflict", "error"} : End(w, outcome) \/ Abandon(w, outcome)
         /\ TempOf(w)
  <2>1. ASSUME InspectSource(w) \/ ReadSource(w) \/ Inspect(w) PROVE <1>4!1 \/ <1>4!2
    <3>1. TempOf(w)
      BY <1>3, <2>1 DEF InspectSource, ReadSource, Inspect, TempOf, Types
    <3>2. \/ GoOn(w, "read-source") \/ GoOn(w, "inspect") \/ GoOn(w, "open")
          \/ End(w, "conflict") \/ End(w, "error")
      BY <2>1 DEF InspectSource, ReadSource, Inspect
    <3> QED BY <3>1, <3>2 DEF Early
  <2>2. ASSUME OpenTemp(w) \/ FillTemp(w) PROVE <1>4!1 \/ <1>4!2
    <3>1. TempOf(w)
      BY <1>3, <2>2 DEF OpenTemp, FillTemp, TempOf, Types
    <3>2. \/ GoOn(w, "fill")
          \/ GoOn(w, "recheck") /\ temp'[w] = job[w].content
          \/ End(w, "error") \/ Abandon(w, "error")
      BY <1>3, <2>2 DEF OpenTemp, FillTemp, Types
    <3> QED BY <3>1, <3>2 DEF Early
  <2> QED BY <2>1, <2>2
<1> QED BY <1>2, <1>3, <1>4, OnwardStep, RefusedStep

\* The last comparison opens the window.
LEMMA RecheckKeeps ==
    ASSUME MutationInv, OneAtATime, NEW w \in Calls, Recheck(w) PROVE MutationInv'
<1>1. /\ stage[w] = "running" /\ job[w].step = "recheck"
      /\ job[w].outcome = "none" /\ ~Committed(w)
  BY EarlyFacts DEF Recheck, Early
<1>2. WorldUnchanged /\ TempOf(w) /\ Types /\ job[w].content \in Contents
      /\ job[w] \in Job /\ Target(w) \in Files
  BY <1>1, RunningFacts DEF Recheck, WorldUnchanged, TempOf, MutationInv, Types
<1>3. CASE \E outcome \in {"conflict", "error"} : Abandon(w, outcome)
  BY <1>1, <1>2, <1>3, RefusedStep
<1>4. ASSUME PreconditionHolds(job[w].expected, file[Target(w)]), file[Target(w)] # Special,
             job' = [job EXCEPT ![w].step = "commit", ![w].before = file[Target(w)]],
             UNCHANGED queueVars
      PROVE  MutationInv'
  <2>1. job' = [job EXCEPT ![w] = [job[w] EXCEPT !.step = "commit", !.before = file[Target(w)]]]
    BY <1>2, <1>4 DEF Types
  <2>2. [job[w] EXCEPT !.step = "commit", !.before = file[Target(w)]] \in Job
    BY <1>2 DEF Job, Types, Steps
  <2>3. /\ job' \in [Calls -> Job]
        /\ job'[w] = [job[w] EXCEPT !.step = "commit", !.before = file[Target(w)]]
        /\ \A v \in Calls \ {w} : job'[v] = job[v]
    BY <1>2, <2>1, <2>2 DEF Types
  <2>4. job'[w].step = "commit" /\ job'[w].outcome = "none" /\ SameRequest(w)
        /\ stage' = stage /\ key' = key /\ temp' = temp
    BY <1>1, <1>2, <1>4, <2>3 DEF Job, SameRequest, queueVars, Recheck
  <2>5. ~Committed(w)' /\ OthersSame(w)
    BY <2>3, <2>4 DEF Committed, Succeeded, OthersSame
  <2>6. ProgressInv(w)' /\ TempInv(w)'
    BY <1>1, <1>2, <2>4 DEF ProgressInv, TempInv, SameRequest, MutationInv, CallInv
  <2>7. WindowInv(w)'
    BY <1>2, <1>4, <2>4 DEF WindowInv, PreconditionHolds, SameRequest, Target, WorldUnchanged
  <2> QED BY <1>1, <1>2, <2>3, <2>4, <2>5, <2>6, <2>7, UncommittedStep DEF WorldUnchanged, TempOf
<1> QED BY <1>3, <1>4 DEF Recheck

LEMMA CleanUpKeeps ==
    ASSUME MutationInv, OneAtATime, NEW w \in Calls, CleanUp(w) PROVE MutationInv'
<1>1. /\ stage[w] = "running" /\ job[w].step = "clean-up"
      /\ job[w].outcome \in {"conflict", "error"}
  BY DEF CleanUp, At, MutationInv, CallInv, ProgressInv
<1>2. ~Committed(w)
  BY <1>1 DEF Committed, Succeeded
<1>3. WorldUnchanged /\ TempOf(w) /\ End(w, job[w].outcome)
  BY DEF CleanUp, WorldUnchanged, TempOf, MutationInv, Types
<1> QED BY <1>1, <1>2, <1>3, RefusedStep

\* The commit: by the last comparison and the turn of the call, what is
\* replaced is what was expected, or an outsider's.
LEMMA ReplaceKeeps ==
    ASSUME MutationInv, OneAtATime, NEW w \in Calls, NEW step \in {"unlink", "sync"},
           At(w, "commit"), Replace(w, step), UNCHANGED <<disk, external, deaths>>, TempOf(w),
           job[w].expected = Absent => file[Target(w)] = Absent
    PROVE  MutationInv'
<1> DEFINE f == Target(w)
<1>1. /\ stage[w] = "running" /\ job[w].step = "commit"
      /\ job[w].outcome = "none" /\ ~Committed(w)
  BY EarlyFacts DEF Early
<1>2. /\ key[w] \in Keys /\ f \in Files /\ job[w] \in Job /\ job[w].content \in Contents
      /\ file[f] \in Contents \cup {Absent, Special} /\ writer[f] \in Calls \cup {None}
      /\ temp[w] = job[w].content /\ \A g \in Files : writer[g] # w
  BY <1>1, RunningFacts DEF MutationInv, CallInv, TempInv
<1>3. /\ stage' = stage /\ key' = key
      /\ file' = [file EXCEPT ![f] = job[w].content]
      /\ writer' = [writer EXCEPT ![f] = w]
  BY <1>2 DEF Replace, queueVars
<1>4. /\ job' \in [Calls -> Job] /\ SameRequest(w)
      /\ job'[w].step = step /\ job'[w].outcome = "none"
      /\ job'[w].replaced = file[f] /\ job'[w].overtaken = writer[f]
      /\ \A v \in Calls \ {w} : job'[v] = job[v]
  <2> DEFINE next == [job[w] EXCEPT !.step = step, !.replaced = file[f], !.overtaken = writer[f]]
  <2>1. job' = [job EXCEPT ![w] = next]
    BY <1>2 DEF Replace, MutationInv, Types
  <2>2. next \in Job
    BY <1>2 DEF Job, Steps, Entries
  <2>3. job' \in [Calls -> Job] /\ job'[w] = next /\ \A v \in Calls \ {w} : job'[v] = job[v]
    BY <2>1, <2>2 DEF MutationInv, Types
  <2> QED BY <1>1, <1>2, <2>3 DEF Job, SameRequest
<1>5. Types'
  BY <1>2, <1>3, <1>4 DEF MutationInv, Types, Entries, TempOf
<1>6. job[w].content # Partial /\ w # None
  BY <1>2, ContentAssumption, KeyAssumption
<1>7. EntriesInv'
  BY <1>1, <1>2, <1>3, <1>6 DEF MutationInv, EntriesInv, Types, Target
<1>9. CallInv(w)'
  <2>1. ProgressInv(w)' /\ TempInv(w)' /\ WindowInv(w)'
    BY <1>1, <1>2, <1>3, <1>4 DEF ProgressInv, TempInv, WindowInv, SameRequest
  <2>2. ContentInv(w)'
    BY <1>2, <1>3, <1>4 DEF ContentInv, Committed, SameRequest, MutationInv, Types
  <2>3. \/ job[w].expected = Unconditional \/ file[f] = job[w].expected
        \/ job[w].expected # Absent /\ Outsider(w, writer[f])
    BY <1>1 DEF MutationInv, CallInv, WindowInv
  <2>4. CommitInv(w)'
    BY <1>1, <1>2, <1>3, <1>4, <2>3 DEF CommitInv, SameRequest, Outsider
  <2> QED BY <2>1, <2>2, <2>4 DEF CallInv
<1>10. ASSUME NEW v \in Calls \ {w} PROVE CallInv(v)'
  <2>1. CallInv(v) /\ stage'[v] = stage[v] /\ job'[v] = job[v] /\ temp'[v] = temp[v]
    BY <1>3, <1>4 DEF MutationInv, TempOf
  <2>2. ProgressInv(v)' /\ TempInv(v)'
    BY <2>1 DEF CallInv, ProgressInv, TempInv
  <2>3. ContentInv(v)'
    BY <1>3, <2>1 DEF CallInv, ContentInv, Committed, MutationInv, Types
  <2>4. CommitInv(v)'
    <3>1. job[v].overtaken \in Calls \cup {None}
      BY DEF MutationInv, Types, Job
    <3> QED BY <1>3, <2>1, <3>1 DEF CallInv, CommitInv, Committed, Outsider
  <2>5. WindowInv(v)'
    <3>1. SUFFICES ASSUME stage[v] = "running", job[v].step = "commit"
                   PROVE  WindowInv(v)'
      BY <2>1 DEF WindowInv
    <3>2. key[v] \in Keys /\ Target(v) \in Files /\ key[v] # key[w]
      BY <1>1, <3>1, FileAssumption DEF OneAtATime, Target
    <3>3. CASE Target(v) = f
      <4>1. ServiceOf[key[v]] # ServiceOf[key[w]]
        BY <1>2, <3>2, <3>3, KeyAssumption DEF Target
      <4>2. writer'[Target(v)] = w
        BY <1>2, <1>3, <3>3 DEF MutationInv, Types
      <4> QED BY <1>1, <1>3, <1>6, <4>1, <4>2 DEF WindowInv, Outsider, Target
    <3>4. CASE Target(v) # f
      <4>1. file'[Target(v)] = file[Target(v)] /\ writer'[Target(v)] = writer[Target(v)]
        BY <1>3, <3>2, <3>4 DEF MutationInv, Types
      <4> QED BY <1>3, <2>1, <4>1 DEF CallInv, WindowInv, Outsider, Target
    <3> QED BY <3>3, <3>4
  <2> QED BY <2>2, <2>3, <2>4, <2>5 DEF CallInv
<1> QED BY <1>5, <1>7, <1>9, <1>10 DEF MutationInv

LEMMA LinkKeeps ==
    ASSUME MutationInv, OneAtATime, NEW w \in Calls, Link(w) PROVE MutationInv'
<1>1. At(w, "commit") /\ UNCHANGED <<disk, external, deaths>> /\ TempOf(w)
  BY DEF Link, TempOf, MutationInv, Types
<1>2. stage[w] = "running" /\ ~Committed(w)
  BY <1>1, EarlyFacts DEF Early
<1>3. CASE file[Target(w)] = Absent /\ Replace(w, "unlink")
  BY <1>1, <1>3, ReplaceKeeps
<1>4. CASE \E outcome \in {"conflict", "error"} :
             Abandon(w, outcome) /\ UNCHANGED <<file, writer>>
  BY <1>1, <1>2, <1>4, RefusedStep DEF WorldUnchanged
<1> QED BY <1>3, <1>4 DEF Link

LEMMA RenameKeeps ==
    ASSUME MutationInv, OneAtATime, NEW w \in Calls, Rename(w) PROVE MutationInv'
<1>1. At(w, "commit") /\ UNCHANGED <<disk, external, deaths>> /\ TempOf(w)
  BY DEF Rename, TempOf, MutationInv, Types
<1>2. stage[w] = "running" /\ ~Committed(w) /\ job[w].expected # Absent
  BY <1>1, EarlyFacts DEF Early, Rename
<1>3. CASE Replace(w, "sync")
  BY <1>1, <1>2, <1>3, ReplaceKeeps
<1>4. CASE Abandon(w, "error") /\ UNCHANGED <<file, writer>>
  BY <1>1, <1>2, <1>4, RefusedStep DEF WorldUnchanged
<1> QED BY <1>3, <1>4 DEF Rename

\* After the commit.
LEMMA UnlinkKeeps ==
    ASSUME MutationInv, OneAtATime, NEW w \in Calls, Unlink(w) PROVE MutationInv'
<1>1. /\ stage[w] = "running" /\ job[w].step = "unlink" /\ job[w].outcome = "none"
      /\ GoOn(w, "sync") /\ WorldUnchanged /\ TempOf(w) /\ Types /\ CallInv(w)
  BY DEF Unlink, At, MutationInv, CallInv, ProgressInv, WorldUnchanged, TempOf, Types
<1>2. /\ job' \in [Calls -> Job] /\ SameRequest(w) /\ stage' = stage /\ key' = key
      /\ job'[w].step = "sync" /\ job'[w].outcome = "none"
      /\ job'[w].replaced = job[w].replaced /\ job'[w].overtaken = job[w].overtaken
      /\ \A v \in Calls \ {w} : job'[v] = job[v]
  BY <1>1, GoesOn DEF Steps
<1>3. Types'
  BY <1>1, <1>2 DEF Types, WorldUnchanged, TempOf
<1>4. ProgressInv(w)' /\ TempInv(w)' /\ WindowInv(w)'
  BY <1>1, <1>2 DEF CallInv, ProgressInv, TempInv, WindowInv, SameRequest
<1>5. Committed(w) /\ Committed(w)'
  BY <1>1, <1>2 DEF Committed
<1>6. ContentInv(w)' /\ CommitInv(w)'
  BY <1>1, <1>2, <1>5 DEF CallInv, ContentInv, CommitInv, SameRequest, WorldUnchanged, Outsider
<1>7. OthersSame(w)
  BY <1>1, <1>2 DEF OthersSame, TempOf
<1> QED BY <1>1, <1>2, <1>3, <1>4, <1>6, <1>7, QuietStep DEF CallInv, WorldUnchanged, OthersSame

LEMMA SyncDirectoryKeeps ==
    ASSUME MutationInv, OneAtATime, NEW w \in Calls, SyncDirectory(w) PROVE MutationInv'
<1>1. /\ stage[w] = "running" /\ job[w].step = "sync" /\ UNCHANGED <<file, writer, external>>
      /\ TempOf(w) /\ temp' = temp /\ Types /\ CallInv(w) /\ Committed(w)
  BY DEF SyncDirectory, At, MutationInv, TempOf, Types, Committed
<1>2. /\ Target(w) \in Files /\ file[Target(w)] \in Entries \ {Partial}
      /\ \A f \in Files : writer[f] = w => f = Target(w) /\ file[f] = job[w].content
  <2>1. w # None
    BY KeyAssumption
  <2>2. Target(w) \in Files /\ file[Target(w)] \in Contents \cup {Absent, Special}
    BY <1>1, RunningFacts
  <2> QED BY <1>1, <2>1, <2>2, ContentAssumption DEF MutationInv, EntriesInv, CallInv, ContentInv, Entries
<1>3. PICK outcome \in Succeeded :
         /\ End(w, outcome)
         /\ \/ disk' = [disk EXCEPT ![Target(w)] = file[Target(w)]]
            \/ outcome = "file-only" /\ disk' = disk
  BY DEF SyncDirectory, Succeeded
<1>4. /\ job' \in [Calls -> Job] /\ SameRequest(w) /\ key' = key
      /\ job'[w].outcome = outcome
      /\ job'[w].replaced = job[w].replaced /\ job'[w].overtaken = job[w].overtaken
      /\ \A v \in Calls \ {w} : stage'[v] = stage[v] /\ job'[v] = job[v]
  BY <1>1, <1>3, Finishes DEF Succeeded, Outcomes
<1>5. job'[w].step = "over" /\ stage'[w] = "settled"
  BY <1>1, <1>3 DEF End, Queue!Settle, Types, OneAtATime, Job
<1>6. disk' \in [Files -> Entries] /\ deaths' = deaths
      /\ \A f \in Files : disk'[f] = disk[f] \/ (f = Target(w) /\ disk'[f] = file[f])
  BY <1>1, <1>2, <1>3 DEF Types, SyncDirectory
<1>7. Types'
  BY <1>1, <1>4, <1>6 DEF Types, TempOf
<1>8. ProgressInv(w)' /\ TempInv(w)' /\ WindowInv(w)'
  BY <1>1, <1>4, <1>5 DEF CallInv, ProgressInv, TempInv, WindowInv, SameRequest, Succeeded
<1>9. ContentInv(w)'
  <2>1. outcome = "file-and-directory" => disk'[Target(w)] = file[Target(w)]
    BY <1>1, <1>2, <1>3 DEF Types
  <2> QED BY <1>1, <1>2, <1>4, <1>5, <2>1 DEF ContentInv, Committed, SameRequest
<1>10. CommitInv(w)'
  <2>1. job[w].overtaken \in Calls \cup {None}
    BY <1>1 DEF Types, Job
  <2> QED BY <1>1, <1>4, <1>5, <2>1 DEF CallInv, CommitInv, SameRequest, Outsider
<1>11. EntriesInv'
  <2> SUFFICES ASSUME NEW f \in Files
               PROVE  /\ file[f] # Partial /\ disk'[f] # Partial
                      /\ writer[f] # None => stage'[writer[f]] # "new" /\ f = Target(writer[f])
    BY <1>1, <1>4 DEF EntriesInv, Target
  <2> QED BY <1>2, <1>4, <1>5, <1>6 DEF MutationInv, EntriesInv, Types
<1>12. ASSUME NEW v \in Calls \ {w} PROVE ContentInv(v)'
  <2> SUFFICES ASSUME NEW f \in Files, writer[f] = v
               PROVE  /\ Committed(v)'
                      /\ stage'[v] = "running" => file[f] = job'[v].content
                      /\ job'[v].outcome = "file-and-directory" =>
                            file[f] = job'[v].content /\ disk'[f] = job'[v].content
    BY <1>1 DEF ContentInv
  <2> QED BY <1>4, <1>6 DEF MutationInv, CallInv, ContentInv, Committed
<1>13. ASSUME NEW v \in Calls \ {w} PROVE CallInv(v)'
  <2>1. CallInv(v) /\ stage'[v] = stage[v] /\ job'[v] = job[v] /\ temp'[v] = temp[v]
    BY <1>1, <1>4 DEF MutationInv
  <2>2. ProgressInv(v)' /\ TempInv(v)'
    BY <2>1 DEF CallInv, ProgressInv, TempInv
  <2>3. job[v].overtaken \in Calls \cup {None}
    BY <1>1 DEF Types, Job
  <2>4. CommitInv(v)'
    BY <1>1, <1>4, <1>5, <2>1, <2>3 DEF CallInv, CommitInv, Committed, Outsider
  <2>5. WindowInv(v)'
    <3>1. SUFFICES ASSUME stage[v] = "running" PROVE WindowInv(v)'
      BY <2>1 DEF WindowInv
    <3>2. Target(v) \in Files /\ writer[Target(v)] \in Calls \cup {None}
      BY <3>1, RunningFacts
    <3> QED BY <1>1, <1>4, <1>5, <2>1, <3>2 DEF CallInv, WindowInv, Outsider, Target
  <2> QED BY <1>12, <2>2, <2>4, <2>5 DEF CallInv
<1> QED BY <1>7, <1>8, <1>9, <1>10, <1>11, <1>13 DEF MutationInv, CallInv

LEMMA ReleaseKeeps ==
    ASSUME MutationInv, OneAtATime, NEW w \in Calls, Release(w) PROVE MutationInv'
<1>1. /\ stage[w] = "settled" /\ stage' = [stage EXCEPT ![w] = "released"] /\ key' = key
      /\ UNCHANGED <<job, temp, file, disk, writer, external, deaths>> /\ CallInv(w) /\ Types
  BY DEF Release, Queue!Release, MutationInv
<1>2. stage'[w] = "released" /\ \A v \in Calls \ {w} : stage'[v] = stage[v]
  BY <1>1 DEF OneAtATime
<1>3. Types'
  BY <1>1 DEF Types
<1>4. Committed(w)' = Committed(w)
  BY <1>1 DEF Committed
<1>5. CommitInv(w)'
  BY <1>1, <1>2, <1>4 DEF CallInv, CommitInv, Outsider, Types, Job
<1>6. CallInv(w)'
  BY <1>1, <1>2, <1>4, <1>5 DEF CallInv, ProgressInv, TempInv, ContentInv, WindowInv
<1> QED BY <1>1, <1>2, <1>3, <1>6, QuietStep

LEMMA ArriveKeeps ==
    ASSUME MutationInv, OneAtATime, NEW w \in Calls, NEW k \in Keys, NEW r \in Requests,
           Arrive(w, k, r)
    PROVE  MutationInv'
<1> DEFINE next == [Idle EXCEPT !.kind = r.kind, !.expected = r.expected, !.content = r.content]
<1>1. /\ stage[w] = "new" /\ stage' = [stage EXCEPT ![w] = "queued"]
      /\ key' = [key EXCEPT ![w] = k] /\ job' = [job EXCEPT ![w] = next]
      /\ UNCHANGED <<temp, file, disk, writer, external, deaths>> /\ Types
  BY DEF Arrive, Queue!Enqueue, MutationInv
<1>2. /\ next \in Job /\ next.step = "idle" /\ next.outcome = "none"
      /\ next.content \in Contents
  BY RequestAssumption DEF Idle, Job, Steps, Outcomes, Entries
<1>3. /\ job' \in [Calls -> Job] /\ job'[w] = next /\ stage'[w] = "queued" /\ key'[w] = k
      /\ \A v \in Calls \ {w} : job'[v] = job[v] /\ stage'[v] = stage[v] /\ key'[v] = key[v]
  BY <1>1, <1>2 DEF Types, OneAtATime
<1>4. Types'
  BY <1>1, <1>3 DEF Types
<1>5. \A f \in Files : writer[f] # None => writer[f] \in Calls \ {w}
  BY <1>1 DEF MutationInv, EntriesInv, Types
<1>6. EntriesInv'
  <2> SUFFICES ASSUME NEW f \in Files
               PROVE  /\ file[f] # Partial /\ disk[f] # Partial
                      /\ writer[f] # None => stage'[writer[f]] # "new" /\ f = Target(writer[f])'
    BY <1>1 DEF EntriesInv, Target
  <2> QED BY <1>1, <1>3, <1>5 DEF MutationInv, EntriesInv, Target
<1>7. CallInv(w)'
  <2>1. ~Committed(w)'
    BY <1>2, <1>3 DEF Committed, Succeeded
  <2>2. ContentInv(w)' /\ CommitInv(w)'
    BY <1>1, <1>5, <2>1, KeyAssumption DEF ContentInv, CommitInv
  <2>3. ProgressInv(w)' /\ TempInv(w)' /\ WindowInv(w)'
    BY <1>2, <1>3 DEF ProgressInv, TempInv, WindowInv
  <2> QED BY <2>2, <2>3 DEF CallInv
<1>8. ASSUME NEW v \in Calls \ {w} PROVE CallInv(v)'
  <2>1. CallInv(v) /\ stage'[v] = stage[v] /\ job'[v] = job[v] /\ key'[v] = key[v]
    BY <1>3 DEF MutationInv
  <2>2. ProgressInv(v)' /\ TempInv(v)' /\ ContentInv(v)'
    BY <1>1, <2>1 DEF CallInv, ProgressInv, TempInv, ContentInv, Committed
  <2>3. job[v].overtaken \in Calls \cup {None}
    BY <1>1 DEF Types, Job
  <2>4. CommitInv(v)'
    BY <1>1, <1>3, <2>1, <2>3 DEF CallInv, CommitInv, Committed, Outsider
  <2>5. WindowInv(v)'
    <3>1. SUFFICES ASSUME stage[v] = "running" PROVE WindowInv(v)'
      BY <2>1 DEF WindowInv
    <3>2. Target(v) \in Files /\ writer[Target(v)] \in Calls \cup {None}
      BY <3>1, RunningFacts
    <3> QED BY <1>1, <1>3, <1>5, <2>1, <3>2 DEF CallInv, WindowInv, Outsider, Target
  <2> QED BY <2>2, <2>4, <2>5 DEF CallInv
<1> QED BY <1>4, <1>6, <1>7, <1>8 DEF MutationInv

LEMMA ExternalKeeps ==
    ASSUME MutationInv, OneAtATime, NEW f \in Files,
           NEW entry \in Contents \cup {Absent, Special}, External(f, entry)
    PROVE  MutationInv'
<1>1. /\ UNCHANGED <<stage, key, job, temp, disk, deaths>>
      /\ file' = [file EXCEPT ![f] = entry] /\ writer' = [writer EXCEPT ![f] = None]
      /\ external' = external + 1 /\ external \in Nat /\ Types /\ EntriesInv
      /\ entry # Partial
  BY ContentAssumption DEF External, MutationInv, Types
<1>2. /\ file'[f] = entry /\ writer'[f] = None /\ external' > 0
      /\ \A g \in Files \ {f} : file'[g] = file[g] /\ writer'[g] = writer[g]
  BY <1>1 DEF Types
<1>3. Types'
  BY <1>1 DEF Types, Entries
<1>4. EntriesInv'
  BY <1>1, <1>2 DEF EntriesInv, Target
<1>5. ASSUME NEW v \in Calls PROVE CallInv(v)'
  <2>1. CallInv(v) /\ v # None
    BY KeyAssumption DEF MutationInv
  <2>2. ProgressInv(v)' /\ TempInv(v)'
    BY <1>1, <2>1 DEF CallInv, ProgressInv, TempInv
  <2>3. ContentInv(v)'
    BY <1>1, <1>2, <2>1 DEF CallInv, ContentInv, Committed
  <2>4. CommitInv(v)'
    BY <1>1, <1>2, <2>1 DEF CallInv, CommitInv, Committed, Outsider
  <2>5. WindowInv(v)'
    <3>1. SUFFICES ASSUME stage[v] = "running" PROVE WindowInv(v)'
      BY <1>1 DEF WindowInv
    <3>2. Target(v) \in Files /\ Target(v)' = Target(v)
      BY <1>1, <3>1, RunningFacts DEF Target
    <3> QED BY <1>1, <1>2, <2>1, <3>2 DEF CallInv, WindowInv, Outsider
  <2> QED BY <2>2, <2>3, <2>4, <2>5 DEF CallInv
<1> QED BY <1>3, <1>4, <1>5 DEF MutationInv

\* Processes die, and the entries stay, or no call survives and each entry that
\* has been synced keeps its content.
LEMMA DeathKeeps ==
    ASSUME MutationInv, OneAtATime, NEW S \in SUBSET Services, Queue!Die(S), Types',
           UNCHANGED <<job, temp, writer, external>>,
           \/ UNCHANGED <<file, disk>>
           \/ /\ S = Services
              /\ \A f \in Files : file'[f] \in {file[f], disk[f]} /\ disk'[f] = file'[f]
    PROVE  MutationInv'
<1>1. /\ key' = key /\ Types /\ EntriesInv
      /\ \A v \in Calls : /\ stage'[v] = stage[v] \/ (stage'[v] = "dead" /\ stage[v] # "new")
                          /\ stage[v] = "running" /\ ServiceOf[key[v]] \in S => stage'[v] = "dead"
  BY DEF Queue!Die, MutationInv
<1>2. EntriesInv'
  BY <1>1 DEF EntriesInv, Target, Types
<1>3. ASSUME NEW v \in Calls PROVE CallInv(v)'
  <2>1. CallInv(v)
    BY DEF MutationInv
  <2>2. ProgressInv(v)' /\ TempInv(v)'
    BY <1>1, <2>1 DEF CallInv, ProgressInv, TempInv
  <2>3. S = Services => stage'[v] # "running"
    BY <1>1, KeyAssumption DEF OneAtATime
  <2>4. ContentInv(v)'
    BY <1>1, <2>1, <2>3 DEF CallInv, ContentInv, Committed
  <2>5. job[v].overtaken \in Calls \cup {None}
    BY <1>1 DEF Types, Job
  <2>6. CommitInv(v)'
    BY <1>1, <2>1, <2>5 DEF CallInv, CommitInv, Committed, Outsider
  <2>7. WindowInv(v)'
    <3>1. SUFFICES ASSUME stage'[v] = "running" PROVE WindowInv(v)'
      BY DEF WindowInv
    <3>2. stage[v] = "running" /\ UNCHANGED <<file, disk>>
      BY <1>1, <2>3, <3>1
    <3>3. Target(v) \in Files /\ writer[Target(v)] \in Calls \cup {None}
      BY <3>2, RunningFacts
    <3> QED BY <1>1, <2>1, <3>2, <3>3 DEF CallInv, WindowInv, Outsider, Target
  <2> QED BY <2>2, <2>4, <2>6, <2>7 DEF CallInv
<1> QED BY <1>2, <1>3 DEF MutationInv

LEMMA CrashKeeps ==
    ASSUME MutationInv, OneAtATime, NEW s \in Services, Crash(s) PROVE MutationInv'
<1>1. Types'
  BY DEF Crash, MutationInv, Types
<1> QED BY <1>1, DeathKeeps DEF Crash

LEMMA PowerFailureKeeps ==
    ASSUME MutationInv, OneAtATime, PowerFailure PROVE MutationInv'
<1>1. PICK lost \in SUBSET Files :
         file' = [f \in Files |-> IF f \in lost THEN disk[f] ELSE file[f]]
  BY DEF PowerFailure
<1>2. \A f \in Files : file'[f] \in {file[f], disk[f]} /\ disk'[f] = file'[f]
  BY <1>1 DEF PowerFailure
<1>3. Types'
  BY <1>1 DEF PowerFailure, MutationInv, Types
<1>4. Services \in SUBSET Services /\ Queue!Die(Services)
  BY DEF PowerFailure
<1> QED BY <1>2, <1>3, <1>4, DeathKeeps DEF PowerFailure

LEMMA NextMutationInv == MutationInv /\ OneAtATime /\ [Next]_vars => MutationInv'
<1> SUFFICES ASSUME MutationInv, OneAtATime, [Next]_vars PROVE MutationInv'
  OBVIOUS
<1>1. ASSUME NEW w \in Calls, Step(w) PROVE MutationInv'
  BY <1>1, BeginKeeps, PreparationKeeps, RecheckKeeps, LinkKeeps, RenameKeeps, UnlinkKeeps,
     SyncDirectoryKeeps, CleanUpKeeps, ReleaseKeeps DEF Step
<1>2. CASE UNCHANGED vars
  BY <1>2 DEF vars, MutationInv, Types, EntriesInv, Target, CallInv, ProgressInv, TempInv,
     ContentInv, WindowInv, CommitInv, Committed, Outsider
<1> QED BY <1>1, <1>2, ArriveKeeps, ExternalKeeps, CrashKeeps, PowerFailureKeeps DEF Next

-----------------------------------------------------------------------------
(* What follows *)

\* The inductive invariant of the mutations: who wrote an entry last, what it
\* holds since, and between the last comparison and the commit nobody but an
\* outsider has written it (write, patch and #writeAtomic).
THEOREM MutationInvariance == Spec => [](MutationInv /\ OneAtATime)
<1> QED BY InitMutationInv, NextMutationInv, AlwaysOneAtATime, PTL DEF Spec

\* No update of a call of the same daemon is ever lost: a commit replaces the
\* content its precondition names, unless an outsider was faster, and a
\* create-only write replaces nothing at all (enforceWritePrecondition, link).
THEOREM PreconditionsHold == Spec => []PreconditionAtCommit
<1>1. MutationInv => PreconditionAtCommit
  BY DEF MutationInv, CallInv, CommitInv, Committed, Outsider, PreconditionAtCommit
<1> QED BY <1>1, MutationInvariance, PTL

\* No reader sees a part of a content, before or after a power failure (the
\* temporary file of #writeAtomic and its sync before the commit).
THEOREM ReadersSeeWholes == Spec => []NeverPartial
<1>1. MutationInv => NeverPartial
  BY DEF MutationInv, EntriesInv, NeverPartial
<1> QED BY <1>1, MutationInvariance, PTL

\* A write reported as durable for file and directory is, until somebody else
\* writes the entry (syncDirectory).
THEOREM DurableWritesSurvive == Spec => []DurableSurvives
<1>1. MutationInv /\ OneAtATime => DurableSurvives
  <2> SUFFICES ASSUME MutationInv, OneAtATime, NEW w \in Calls,
                      job[w].outcome = "file-and-directory", writer[Target(w)] = w
               PROVE  file[Target(w)] = job[w].content /\ disk[Target(w)] = job[w].content
    BY DEF DurableSurvives
  <2>1. Committed(w)
    BY DEF Committed, Succeeded
  <2>2. Target(w) \in Files
    BY <2>1, FileAssumption DEF MutationInv, CallInv, CommitInv, OneAtATime, Target
  <2> QED BY <2>2 DEF MutationInv, CallInv, ContentInv
<1> QED BY <1>1, MutationInvariance, PTL

\* A mutation that was refused or has failed is the writer of no entry,
\* whatever failed in it (the catch and finally blocks of #writeAtomic).
THEOREM RefusalsLeaveTargets == Spec => []RefusedLeavesTarget
<1>1. MutationInv => RefusedLeavesTarget
  <2> SUFFICES ASSUME MutationInv, NEW w \in Calls, job[w].outcome \in {"conflict", "error"},
                      NEW f \in Files, writer[f] = w
               PROVE  FALSE
    BY DEF RefusedLeavesTarget
  <2>1. Committed(w)
    BY DEF MutationInv, CallInv, ContentInv
  <2> QED BY <2>1 DEF MutationInv, CallInv, ProgressInv, Committed, Succeeded
<1> QED BY <1>1, MutationInvariance, PTL
==============================================================================
