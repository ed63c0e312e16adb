----------------------- MODULE OperationJournal_proofs -----------------------
(***************************************************************************)
(* The safety of OperationJournal for every number of daemons, ids, calls, *)
(* crashes and faults: its properties are conjuncts of, or follow from,    *)
(* the inductive invariant IInv.                                           *)
(***************************************************************************)
EXTENDS OperationJournal, TLAPS

\* The one call that prepare() told to execute an id, and its row.
ExecutorUnique ==
    \A c1, c2 \in Calls :
        call[c1].role = "executor" /\ call[c2].role = "executor" /\ call[c1].op = call[c2].op
            => c1 = c2

ExecutorBound ==
    \A c \in Calls : call[c].role = "executor" =>
        /\ call[c].op \in Ops
        /\ call[c].daemon \in Daemons
        /\ call[c].input = journal[call[c].op].input
        /\ journal[call[c].op].state # "absent"

\* How far a call is and what its row can be then.
PhaseMatchesRow ==
    \A c \in Calls :
        /\ call[c].pc \in Active \cup {"lost"} => call[c].role = "executor"
        /\ call[c].pc = "idle" => call[c].role = "caller" /\ call[c].answer = "none"
        /\ call[c].pc = "accepted" =>
              journal[call[c].op].state \in {"accepted", "unknown-needs-reconcile"}
        /\ call[c].pc \in {"running", "returned", "failing"} =>
              /\ journal[call[c].op].state \in {"running", "unknown-needs-reconcile"}
              /\ c \in begun[call[c].op]
        /\ call[c].pc = "returned" => c \in finished[call[c].op]

\* Only the executor runs the effect, and not before markRunning().
EffectOfExecutor ==
    \A o \in Ops :
        /\ finished[o] \subseteq begun[o]
        /\ \A c \in begun[o] :
              call[c].role = "executor" /\ call[c].op = o /\ call[c].pc \notin {"idle", "accepted"}

\* Columns that go with a state.
RowShape ==
    \A o \in Ops :
        /\ journal[o].state = "absent" => journal[o] = AbsentRow
        /\ journal[o].state # "committed" => journal[o].result = None
        /\ journal[o].state = "committed" => journal[o].result \in finished[o]

\* An answered call asked for a real id.
AnswerBound ==
    \A c \in Calls : call[c].answer # "none" => call[c].op \in Ops

Core == /\ ExecutorUnique /\ ExecutorBound /\ PhaseMatchesRow
        /\ EffectOfExecutor /\ RowShape

IInv == TypeOK /\ Core /\ AnswerBound /\ AnswersAgree /\ InFlightHasOwner

-----------------------------------------------------------------------------

\* Every value a variable takes is of its type: the rows the UPDATE
\* statements leave and the states execute() goes through (114-273).
LEMMA TypeInit == Init => TypeOK
BY DEF Init, TypeOK, AbsentRow, Row, RowStates, IdleCall, CallState, Phases, Answers

LEMMA AdvanceType ==
    ASSUME NEW row \in Row, NEW s \in RowStates
    PROVE  /\ Advance(row, s) \in Row
           /\ Advance(row, s).state = s
           /\ Advance(row, s).input = row.input
           /\ Advance(row, s).result = row.result
           /\ Advance(row, s).version = row.version + 1
<1>1. row.version + 1 \in Nat
  BY DEF Row
<1> QED BY <1>1 DEF Row, Advance

LEMMA SettledType ==
    ASSUME NEW k \in CallState, NEW a \in Answers, NEW r \in Calls \cup {None}
    PROVE  /\ Settled(k, a, r) \in CallState
           /\ Settled(k, a, r).pc = "settled"
           /\ Settled(k, a, r).answer = a
           /\ Settled(k, a, r).result = r
           /\ Settled(k, a, r).op = k.op
           /\ Settled(k, a, r).input = k.input
           /\ Settled(k, a, r).daemon = k.daemon
           /\ Settled(k, a, r).role = k.role
BY DEF Settled, CallState, Phases

\* prepare() finds one of five things, and answers accordingly.
LEMMA DispositionCases ==
    ASSUME NEW row \in Row, NEW i \in Inputs
    PROVE  \/ row.state = "absent" /\ Disposition(row, i) = "execute"
           \/ row.state # "absent" /\ row.input # i /\ Disposition(row, i) = "conflict"
           \/ row.state \in TerminalStates /\ row.input = i
                 /\ Disposition(row, i) = "replay"
           \/ row.state = "unknown-needs-reconcile" /\ row.input = i
                 /\ Disposition(row, i) = "reconcile-required"
           \/ row.state \in InFlightStates /\ row.input = i
                 /\ Disposition(row, i) = "in-progress"
BY DEF Disposition, Row, RowStates, TerminalStates, InFlightStates

LEMMA AnswerCases ==
    ASSUME NEW row \in Row, NEW i \in Inputs, Disposition(row, i) # "execute"
    PROVE  LET a == Answer(Disposition(row, i), row) IN
           /\ a \in Answers \ {"none", "executed"}
           /\ a = "replayed-committed" => row.state = "committed" /\ row.input = i
           /\ a = "replayed-failed" => row.state = "failed" /\ row.input = i
           /\ a = "reconcile-required" =>
                 row.state = "unknown-needs-reconcile" /\ row.input = i
           /\ row.state # "absent"
<1>1. CASE Disposition(row, i) = "conflict"
  BY <1>1, DispositionCases DEF Answer, Answers
<1>2. CASE Disposition(row, i) = "replay"
  BY <1>2, DispositionCases DEF Answer, Answers, TerminalStates
<1>3. CASE Disposition(row, i) \in {"in-progress", "reconcile-required"}
  BY <1>3, DispositionCases DEF Answer, Answers, InFlightStates
<1> QED BY <1>1, <1>2, <1>3, DispositionCases

-----------------------------------------------------------------------------
(* The steps, one lemma per action *)

\* What a step of call c leaves alone in the other calls, and in c itself.
Frame(c) ==
    \A x \in Calls :
        /\ x # c => /\ call'[x].pc = call[x].pc
                    /\ call'[x].answer = call[x].answer
                    /\ call'[x].result = call[x].result
        /\ call'[x].op = call[x].op
        /\ call'[x].role = call[x].role
        /\ call'[x].daemon = call[x].daemon
        /\ call'[x].input = call[x].input

\* Rows keep their input and do not disappear.
RowsKept ==
    \A o \in Ops : /\ journal'[o].input = journal[o].input
                   /\ journal[o].state # "absent" => journal'[o].state # "absent"

\* No statement of a call after prepare() changes whose the id is
\* (the fields of the request are constants of execute(), 189-236).
LEMMA RequestsKept ==
    ASSUME ExecutorUnique, ExecutorBound, RowsKept, NEW c \in Calls, Frame(c)
    PROVE  ExecutorUnique' /\ ExecutorBound'
<1>1. ExecutorUnique'
  BY DEF ExecutorUnique, Frame
<1>2. ExecutorBound'
  BY DEF ExecutorBound, Frame, RowsKept
<1> QED BY <1>1, <1>2

\* A call that is under way is the executor of an id that has a row.
LEMMA ActiveBound ==
    ASSUME IInv, NEW c \in Calls, call[c].pc \in Active
    PROVE  /\ call[c].op \in Ops /\ call[c].role = "executor"
           /\ journal[call[c].op] \in Row /\ call[c] \in CallState
BY DEF IInv, Core, PhaseMatchesRow, ExecutorBound, TypeOK

\* The effect starts for an id whose row was still 'accepted' (226-228).
LEMMA MarkRunningStep ==
    ASSUME IInv, NEW c \in Calls, MarkRunning(c)
    PROVE  IInv'
<1> DEFINE o == call[c].op
<1> USE DEF IInv, Core
<1>1. /\ o \in Ops /\ call[c].role = "executor" /\ call[c].pc = "accepted"
      /\ journal[o] \in Row /\ call[c] \in CallState
  BY ActiveBound DEF MarkRunning, Active
<1>2. /\ journal' \in [Ops -> Row]
      /\ journal'[o].state = "running"
      /\ journal'[o].input = journal[o].input
      /\ journal'[o].result = journal[o].result
      /\ \A x \in Ops \ {o} : journal'[x] = journal[x]
  BY <1>1, AdvanceType DEF MarkRunning, TypeOK, RowStates, InFlightStates
<1>3. call' \in [Calls -> CallState]
  BY <1>1 DEF MarkRunning, TypeOK, CallState, Phases, Active
<1>4. call'[c].pc = "running" /\ call'[c].answer = call[c].answer /\ Frame(c)
  BY <1>1 DEF MarkRunning, TypeOK, CallState, Frame
<1>5. /\ begun' \in [Ops -> SUBSET Calls]
      /\ begun'[o] = begun[o] \cup {c}
      /\ \A x \in Ops \ {o} : begun'[x] = begun[x]
      /\ UNCHANGED <<up, finished, crashes, faulted>>
  BY <1>1 DEF MarkRunning, TypeOK
<1>6. TypeOK'
  BY <1>2, <1>3, <1>5 DEF TypeOK
<1>7. ExecutorUnique' /\ ExecutorBound'
  BY <1>1, <1>2, <1>4, RequestsKept DEF RowsKept
<1>8. PhaseMatchesRow'
  BY <1>1, <1>2, <1>4, <1>5
  DEF PhaseMatchesRow, ExecutorUnique, ExecutorBound, Active, Frame
<1>9. EffectOfExecutor'
  BY <1>1, <1>4, <1>5 DEF EffectOfExecutor, TypeOK, Frame
<1>10. RowShape'
  BY <1>1, <1>2, <1>5 DEF RowShape, MarkRunning
<1>11. AnswerBound' /\ AnswersAgree'
  BY <1>1, <1>2, <1>4 DEF AnswerBound, AnswersAgree, MarkRunning, Frame
<1>12. InFlightHasOwner'
  BY <1>1, <1>2, <1>4, <1>5 DEF InFlightHasOwner, InFlight, Executor, Active, Frame
<1> QED BY <1>6, <1>7, <1>8, <1>9, <1>10, <1>11, <1>12

\* A call that leaves the row alone and throws: its row is in doubt, or an
\* SQLite error is to blame.
LEMMA ThrowStep ==
    ASSUME IInv, NEW c \in Calls, call[c].pc \in Active,
           call' = [call EXCEPT ![c] = Settled(@, "threw", None)],
           UNCHANGED <<journal, up, begun, finished, crashes>>,
           faulted \in SUBSET faulted', faulted' \in SUBSET Calls,
           c \in faulted' \/ ~InFlight(call[c].op)
    PROVE  IInv'
<1> DEFINE o == call[c].op
<1> USE DEF IInv, Core
<1>1. /\ o \in Ops /\ call[c].role = "executor"
      /\ journal[o] \in Row /\ call[c] \in CallState
  BY ActiveBound
<1>2. call' \in [Calls -> CallState]
  BY <1>1, SettledType DEF TypeOK, Answers
<1>3. call'[c].pc = "settled" /\ call'[c].answer = "threw" /\ Frame(c)
  <2>1. call'[c] = Settled(call[c], "threw", None)
        /\ \A x \in Calls \ {c} : call'[x] = call[x]
    BY DEF TypeOK
  <2>2. "threw" \in Answers
    BY DEF Answers
  <2>3. Frame(c)
    BY <1>1, <2>1, <2>2, SettledType DEF Frame
  <2> QED BY <1>1, <2>1, <2>2, <2>3, SettledType
<1>4. TypeOK'
  BY <1>2 DEF TypeOK
<1>5. ExecutorUnique' /\ ExecutorBound'
  BY <1>3, RequestsKept DEF RowsKept
<1>6. PhaseMatchesRow'
  BY <1>1, <1>3 DEF PhaseMatchesRow, Active, Frame
<1>7. EffectOfExecutor'
  BY <1>1, <1>3 DEF EffectOfExecutor, TypeOK, Frame
<1>8. RowShape'
  BY DEF RowShape
<1>9. AnswerBound' /\ AnswersAgree'
  BY <1>1, <1>3 DEF AnswerBound, AnswersAgree, Frame
<1>10. InFlightHasOwner'
  BY <1>1, <1>3 DEF InFlightHasOwner, InFlight, Executor, Active, Frame
<1> QED BY <1>4, <1>5, <1>6, <1>7, <1>8, <1>9, <1>10

\* The UPDATE to 'running' finds the row reconciled by another daemon.
LEMMA MarkRunningRefusedStep ==
    ASSUME IInv, NEW c \in Calls, MarkRunningRefused(c)
    PROVE  IInv'
<1>1. journal[call[c].op].state = "unknown-needs-reconcile"
  BY DEF MarkRunningRefused, IInv, Core, PhaseMatchesRow
<1>2. ~InFlight(call[c].op)
  BY <1>1 DEF InFlight, InFlightStates
<1> QED BY <1>2, ThrowStep DEF MarkRunningRefused, Active, IInv, TypeOK

\* A call whose phase changes while its row stays as it is, as the effect
\* settles or the commit is refused.
LEMMA PhaseStep ==
    ASSUME IInv, NEW c \in Calls, NEW p \in {"returned", "failing"},
           call[c].pc \in {"running", "returned"},
           call' = [call EXCEPT ![c].pc = p],
           UNCHANGED <<journal, up, begun, crashes>>,
           \/ finished' = [finished EXCEPT ![call[c].op] = @ \cup {c}]
           \/ finished' = finished /\ p = "failing",
           faulted' \in SUBSET Calls, faulted \in SUBSET faulted'
    PROVE  IInv'
<1> DEFINE o == call[c].op
<1> USE DEF IInv, Core
<1>1. /\ o \in Ops /\ call[c].role = "executor"
      /\ journal[o] \in Row /\ call[c] \in CallState
  BY ActiveBound DEF Active
<1>2. call' \in [Calls -> CallState]
  BY <1>1 DEF TypeOK, CallState, Phases, Active
<1>3. call'[c].pc = p /\ call'[c].answer = call[c].answer
      /\ call'[c].result = call[c].result /\ Frame(c)
  BY <1>1 DEF TypeOK, CallState, Frame
<1>4. /\ finished' \in [Ops -> SUBSET Calls]
      /\ \A x \in Ops : finished[x] \subseteq finished'[x]
      /\ \A x \in Ops \ {o} : finished'[x] = finished[x]
      /\ finished'[o] \subseteq finished[o] \cup {c}
      /\ p = "returned" => c \in finished'[o]
  BY <1>1 DEF TypeOK
<1>5. TypeOK'
  BY <1>2, <1>4 DEF TypeOK
<1>6. ExecutorUnique' /\ ExecutorBound'
  BY <1>3, RequestsKept DEF RowsKept
<1>7. PhaseMatchesRow'
  BY <1>1, <1>3, <1>4 DEF PhaseMatchesRow, ExecutorBound, Active, Frame
<1>8. EffectOfExecutor'
  BY <1>1, <1>3, <1>4 DEF EffectOfExecutor, PhaseMatchesRow, TypeOK, Frame
<1>9. RowShape'
  BY <1>4 DEF RowShape
<1>10. AnswerBound' /\ AnswersAgree'
  BY <1>1, <1>3 DEF AnswerBound, AnswersAgree, Frame
<1>11. InFlightHasOwner'
  BY <1>1, <1>3 DEF InFlightHasOwner, InFlight, Executor, Active, Frame
<1> QED BY <1>5, <1>6, <1>7, <1>8, <1>9, <1>10, <1>11

\* The UPDATE with WHERE state = 'running' that gives a row its verdict,
\* and the settling of its call.
LEMMA VerdictStep ==
    ASSUME IInv, NEW c \in Calls, call[c].pc \in {"returned", "failing"},
           NEW s \in {"committed", "failed"}, NEW r \in {c, None},
           NEW a \in {"executed", "threw"},
           s = "committed" <=> r = c, a = "executed" <=> r = c,
           r = c => call[c].pc = "returned",
           journal[call[c].op].state = "running",
           journal' = [journal EXCEPT ![call[c].op] = [Advance(@, s) EXCEPT !.result = r]],
           call' = [call EXCEPT ![c] = Settled(@, a, r)],
           UNCHANGED <<up, begun, finished, crashes, faulted>>
    PROVE  IInv'
<1> DEFINE o == call[c].op
<1> USE DEF IInv, Core
<1>1. /\ o \in Ops /\ call[c].role = "executor"
      /\ journal[o] \in Row /\ call[c] \in CallState
  BY ActiveBound DEF Active
<1>2. /\ journal' \in [Ops -> Row]
      /\ journal'[o].state = s
      /\ journal'[o].input = journal[o].input
      /\ journal'[o].result = r
      /\ \A x \in Ops \ {o} : journal'[x] = journal[x]
  BY <1>1, AdvanceType DEF TypeOK, Row, RowStates, TerminalStates
<1>3. call' \in [Calls -> CallState]
  <2>1. a \in Answers /\ r \in Calls \cup {None}
    BY DEF Answers
  <2>2. Settled(call[c], a, r) \in CallState
    BY <1>1, <2>1, SettledType
  <2> QED BY <2>2 DEF TypeOK
<1>4. call'[c].pc = "settled" /\ call'[c].answer = a /\ call'[c].result = r /\ Frame(c)
  <2>1. call'[c] = Settled(call[c], a, r)
        /\ \A x \in Calls \ {c} : call'[x] = call[x]
    BY DEF TypeOK
  <2>2. a \in Answers /\ r \in Calls \cup {None}
    BY DEF Answers
  <2>3. Frame(c)
    BY <1>1, <2>1, <2>2, SettledType DEF Frame
  <2> QED BY <1>1, <2>1, <2>2, <2>3, SettledType
<1>5. TypeOK'
  BY <1>2, <1>3 DEF TypeOK
<1>6. ExecutorUnique' /\ ExecutorBound'
  BY <1>1, <1>2, <1>4, RequestsKept DEF RowsKept
<1>7. PhaseMatchesRow'
  BY <1>1, <1>2, <1>4
  DEF PhaseMatchesRow, ExecutorUnique, ExecutorBound, Active, Frame
<1>8. EffectOfExecutor'
  BY <1>1, <1>4 DEF EffectOfExecutor, TypeOK, Frame
<1>9. RowShape'
  BY <1>1, <1>2 DEF RowShape, PhaseMatchesRow
<1>10. AnswerBound'
  BY <1>1, <1>4 DEF AnswerBound, Frame
<1>11. AnswersAgree'
  BY <1>1, <1>2, <1>4 DEF AnswersAgree, AnswerBound, ExecutorBound, Frame
<1>12. InFlightHasOwner'
  BY <1>1, <1>2, <1>4
  DEF InFlightHasOwner, InFlight, InFlightStates, Executor, Active, Frame
<1> QED BY <1>5, <1>6, <1>7, <1>8, <1>9, <1>10, <1>11, <1>12

\* A call under way changes its row or itself in one of the ways above.
LEMMA CallStep ==
    ASSUME IInv, NEW c \in Calls, Step(c) \/ DatabaseFault(c)
    PROVE  IInv'
<1> USE DEF Active
<1>1. CASE MarkRunning(c)
  BY <1>1, MarkRunningStep
<1>2. CASE MarkRunningRefused(c)
  BY <1>2, MarkRunningRefusedStep
<1>3. CASE EffectReturns(c)
  <2>1. PICK p \in {"returned", "failing"} : call' = [call EXCEPT ![c].pc = p]
    BY <1>3 DEF EffectReturns
  <2> QED BY <1>3, <2>1, PhaseStep DEF EffectReturns, IInv, TypeOK
<1>4. CASE EffectThrows(c)
  BY <1>4, PhaseStep DEF EffectThrows, IInv, TypeOK
<1>5. CASE MarkCommitted(c)
  <2>1. CASE journal[call[c].op].state = "running"
    BY <1>5, <2>1, VerdictStep DEF MarkCommitted
  <2>2. CASE journal[call[c].op].state # "running"
    BY <1>5, <2>2, PhaseStep DEF MarkCommitted, IInv, TypeOK
  <2> QED BY <2>1, <2>2
<1>6. CASE MarkFailed(c)
  <2> DEFINE o == call[c].op
  <2>1. o \in Ops /\ journal[o] \in Row
    BY <1>6, ActiveBound DEF MarkFailed
  <2>2. CASE journal[o].state = "running"
    <3>1. journal[o].result = None
      BY <2>1, <2>2 DEF IInv, Core, RowShape
    <3>2. FailedRow(journal[o]) = [Advance(journal[o], "failed") EXCEPT !.result = None]
      BY <2>2, <3>1 DEF FailedRow, Advance
    <3>3. None # c
      BY NoneAssumption
    <3> QED BY <1>6, <2>2, <3>2, <3>3, VerdictStep DEF MarkFailed
  <2>3. CASE journal[o].state # "running"
    <3>1. journal' = journal
      BY <1>6, <2>1, <2>3 DEF MarkFailed, FailedRow, IInv, TypeOK
    <3>2. ~InFlight(o)
      BY <1>6, <2>3 DEF MarkFailed, InFlight, InFlightStates, IInv, Core, PhaseMatchesRow
    <3> QED BY <1>6, <3>1, <3>2, ThrowStep DEF MarkFailed, IInv, TypeOK
  <2> QED BY <2>2, <2>3
<1>7. CASE DatabaseFault(c)
  <2>1. CASE call[c].pc = "returned"
    BY <1>7, <2>1, PhaseStep DEF DatabaseFault, IInv, TypeOK
  <2>2. CASE call[c].pc # "returned"
    BY <1>7, <2>2, ThrowStep DEF DatabaseFault, IInv, TypeOK
  <2> QED BY <2>1, <2>2
<1> QED BY <1>1, <1>2, <1>3, <1>4, <1>5, <1>6, <1>7 DEF Step

\* prepare() inserts the row of a new id (140-153).
LEMMA PrepareExecuteStep ==
    ASSUME IInv, NEW c \in Calls, NEW d \in Daemons, NEW o \in Ops, NEW i \in Inputs,
           call[c].pc = "idle", PrepareExecute(c, d, o, i),
           UNCHANGED <<up, begun, finished, crashes, faulted>>
    PROVE  IInv'
<1> USE DEF IInv, Core
<1>1. journal[o] \in Row /\ journal[o].state = "absent" /\ call[c] \in CallState
  BY DispositionCases DEF PrepareExecute, TypeOK
<1>2. call[c].role = "caller" /\ call[c].answer = "none"
  BY <1>1 DEF PhaseMatchesRow, CallState
<1>3. /\ journal' \in [Ops -> Row]
      /\ journal'[o].state = "accepted" /\ journal'[o].input = i
      /\ journal'[o].result = None
      /\ \A x \in Ops \ {o} : journal'[x] = journal[x]
  BY <1>1 DEF PrepareExecute, TypeOK, Row, RowStates, InFlightStates
<1>4. /\ call' \in [Calls -> CallState]
      /\ call'[c].pc = "accepted" /\ call'[c].role = "executor"
      /\ call'[c].op = o /\ call'[c].daemon = d /\ call'[c].input = i
      /\ call'[c].answer = "none"
      /\ \A x \in Calls \ {c} : call'[x] = call[x]
  BY <1>1, <1>2 DEF PrepareExecute, TypeOK, Asked, CallState, Phases, Active
<1>5. \A x \in Calls : call[x].role = "executor" => call[x].op \in Ops \ {o}
  BY <1>1 DEF ExecutorBound
<1>6. TypeOK'
  BY <1>3, <1>4 DEF TypeOK
<1>7. ExecutorUnique'
  BY <1>4, <1>5 DEF ExecutorUnique
<1>8. ExecutorBound'
  BY <1>3, <1>4, <1>5 DEF ExecutorBound
<1>9. PhaseMatchesRow'
  BY <1>3, <1>4, <1>5 DEF PhaseMatchesRow, Active
<1>10. EffectOfExecutor'
  BY <1>2, <1>4 DEF EffectOfExecutor, TypeOK
<1>11. RowShape'
  BY <1>3 DEF RowShape
<1>12. AnswerBound'
  BY <1>4 DEF AnswerBound
<1>13. AnswersAgree'
  BY <1>1, <1>3, <1>4 DEF AnswersAgree, AnswerBound
<1>14. InFlightHasOwner'
  BY <1>2, <1>3, <1>4 DEF InFlightHasOwner, InFlight, Executor, Active
<1> QED BY <1>6, <1>7, <1>8, <1>9, <1>10, <1>11, <1>12, <1>13, <1>14

\* prepare() answers from the row of a known id (116-138, 195-224).
LEMMA PrepareAnswerStep ==
    ASSUME IInv, NEW c \in Calls, NEW d \in Daemons, NEW o \in Ops, NEW i \in Inputs,
           call[c].pc = "idle", PrepareAnswer(c, d, o, i),
           UNCHANGED <<up, begun, finished, crashes, faulted>>
    PROVE  IInv'
<1> DEFINE a == Answer(Disposition(journal[o], i), journal[o])
           r == IF a = "replayed-committed" THEN journal[o].result ELSE None
<1> USE DEF IInv, Core
<1>1. journal[o] \in Row /\ call[c] \in CallState /\ call[c].role = "caller"
  BY DEF TypeOK, PhaseMatchesRow, CallState
<1>2. /\ a \in Answers \ {"none", "executed"}
      /\ a = "replayed-committed" => journal[o].state = "committed" /\ journal[o].input = i
      /\ a = "replayed-failed" => journal[o].state = "failed" /\ journal[o].input = i
      /\ a = "reconcile-required" =>
            journal[o].state = "unknown-needs-reconcile" /\ journal[o].input = i
  BY <1>1, AnswerCases DEF PrepareAnswer
<1>3. r \in Calls \cup {None}
  BY <1>1 DEF Row
<1>4. /\ Asked(c, d, o, i) \in CallState
      /\ Asked(c, d, o, i).op = o /\ Asked(c, d, o, i).input = i
      /\ Asked(c, d, o, i).role = "caller"
  BY <1>1 DEF Asked, CallState
<1>5. call' = [call EXCEPT ![c] = Settled(Asked(c, d, o, i), a, r)] /\ UNCHANGED journal
  BY DEF PrepareAnswer
<1> HIDE DEF a, r
<1>6. Settled(Asked(c, d, o, i), a, r) \in CallState
  BY <1>2, <1>3, <1>4, SettledType
<1>7. /\ call' \in [Calls -> CallState]
      /\ call'[c] = Settled(Asked(c, d, o, i), a, r)
      /\ \A x \in Calls \ {c} : call'[x] = call[x]
  BY <1>5, <1>6 DEF TypeOK
<1>8. /\ call'[c].pc = "settled" /\ call'[c].role = "caller" /\ call'[c].answer = a
      /\ call'[c].op = o /\ call'[c].input = i /\ call'[c].result = r
  BY <1>2, <1>3, <1>4, <1>7, SettledType
<1>9. TypeOK'
  BY <1>5, <1>7 DEF TypeOK
<1>10. ExecutorUnique' /\ ExecutorBound'
  BY <1>5, <1>7, <1>8 DEF ExecutorUnique, ExecutorBound
<1>11. PhaseMatchesRow'
  BY <1>5, <1>7, <1>8 DEF PhaseMatchesRow, Active
<1>12. EffectOfExecutor'
  BY <1>1, <1>5, <1>7, <1>8 DEF EffectOfExecutor, TypeOK
<1>13. RowShape'
  BY <1>5 DEF RowShape
<1>14. AnswerBound'
  BY <1>7, <1>8 DEF AnswerBound
<1>15. AnswersAgree'
  <2>1. a = "replayed-committed" => r = journal[o].result
    BY DEF r
  <2> QED BY <1>2, <1>5, <1>7, <1>8, <2>1 DEF AnswersAgree
<1>16. InFlightHasOwner'
  BY <1>1, <1>5, <1>7 DEF InFlightHasOwner, InFlight, Executor
<1> QED BY <1>9, <1>10, <1>11, <1>12, <1>13, <1>14, <1>15, <1>16

\* startDaemon() reconciles: in-flight rows are in doubt from here on.
LEMMA StartStep ==
    ASSUME IInv, NEW d \in Daemons, Start(d)
    PROVE  IInv'
<1> USE DEF IInv, Core
<1>1. /\ journal' \in [Ops -> Row]
      /\ \A o \in Ops : /\ journal'[o].input = journal[o].input
                        /\ journal'[o].result = journal[o].result
                        /\ ~InFlight(o) => journal'[o] = journal[o]
                        /\ InFlight(o) =>
                              journal'[o].state = "unknown-needs-reconcile"
  BY AdvanceType DEF Start, ReconcileInterrupted, TypeOK, RowStates
<1>2. UNCHANGED <<call, begun, finished, crashes, faulted>> /\ up' \in SUBSET Daemons
  BY DEF Start, TypeOK
<1>3. TypeOK'
  BY <1>1, <1>2 DEF TypeOK
<1>4. ExecutorUnique' /\ ExecutorBound'
  BY <1>1, <1>2 DEF ExecutorUnique, ExecutorBound
<1>5. PhaseMatchesRow'
  BY <1>1, <1>2 DEF PhaseMatchesRow, ExecutorBound, InFlight, InFlightStates, Active
<1>6. EffectOfExecutor'
  BY <1>2 DEF EffectOfExecutor
<1>7. RowShape'
  BY <1>1, <1>2 DEF RowShape, InFlight, InFlightStates
<1>8. AnswerBound' /\ AnswersAgree'
  BY <1>1, <1>2 DEF AnswerBound, AnswersAgree, InFlight, InFlightStates, Answers
<1>9. InFlightHasOwner'
  BY <1>1 DEF InFlightHasOwner, InFlight, InFlightStates
<1> QED BY <1>3, <1>4, <1>5, <1>6, <1>7, <1>8, <1>9

\* A daemon dies: its calls are lost, the table is as it was.
LEMMA CrashStep ==
    ASSUME IInv, NEW d \in Daemons, Crash(d)
    PROVE  IInv'
<1> USE DEF IInv, Core
<1>1. /\ UNCHANGED <<journal, begun, finished, faulted>>
      /\ up' = up \ {d} /\ crashes' \in Nat
  BY DEF Crash, TypeOK
<1>2. \A x \in Calls :
         /\ call'[x] \in CallState
         /\ call'[x].op = call[x].op /\ call'[x].role = call[x].role
         /\ call'[x].daemon = call[x].daemon /\ call'[x].input = call[x].input
         /\ call'[x].answer = call[x].answer /\ call'[x].result = call[x].result
         /\ \/ call'[x].pc = call[x].pc
            \/ call'[x].pc = "lost" /\ call[x].pc \in Active /\ call[x].daemon = d
  BY DEF Crash, TypeOK, CallState, Phases
<1>3. TypeOK'
  <2>1. call' \in [Calls -> CallState]
    BY <1>2 DEF Crash
  <2> QED BY <1>1, <2>1 DEF TypeOK
<1>4. ExecutorUnique' /\ ExecutorBound'
  BY <1>1, <1>2 DEF ExecutorUnique, ExecutorBound
<1>5. PhaseMatchesRow'
  BY <1>1, <1>2 DEF PhaseMatchesRow, Active
<1>6. EffectOfExecutor'
  BY <1>1, <1>2 DEF EffectOfExecutor, Active, TypeOK
<1>7. RowShape'
  BY <1>1 DEF RowShape
<1>8. AnswerBound' /\ AnswersAgree'
  BY <1>1, <1>2 DEF AnswerBound, AnswersAgree
<1>9. InFlightHasOwner'
  BY <1>1, <1>2 DEF InFlightHasOwner, InFlight, Executor, Active
<1> QED BY <1>3, <1>4, <1>5, <1>6, <1>7, <1>8, <1>9

LEMMA InvInit == Init => IInv
<1> SUFFICES ASSUME Init PROVE IInv
  OBVIOUS
<1>1. \A c \in Calls : /\ call[c].pc = "idle" /\ call[c].role = "caller"
                       /\ call[c].answer = "none"
  BY DEF Init, IdleCall
<1>2. \A o \in Ops : /\ journal[o] = AbsentRow /\ journal[o].state = "absent"
                     /\ journal[o].result = None
                     /\ begun[o] = {} /\ finished[o] = {}
  BY DEF Init, AbsentRow
<1>3. ExecutorUnique /\ ExecutorBound
  BY <1>1 DEF ExecutorUnique, ExecutorBound
<1>4. PhaseMatchesRow
  BY <1>1 DEF PhaseMatchesRow, Active
<1>5. EffectOfExecutor /\ RowShape
  BY <1>2 DEF EffectOfExecutor, RowShape
<1>6. AnswerBound /\ AnswersAgree /\ InFlightHasOwner
  BY <1>1, <1>2 DEF AnswerBound, AnswersAgree, InFlightHasOwner, InFlight, InFlightStates
<1> QED BY <1>3, <1>4, <1>5, <1>6, TypeInit DEF IInv, Core

LEMMA InvNext == IInv /\ [Next]_vars => IInv'
<1> SUFFICES ASSUME IInv, [Next]_vars PROVE IInv'
  OBVIOUS
<1>1. ASSUME NEW d \in Daemons, Start(d) \/ Crash(d) PROVE IInv'
  BY <1>1, StartStep, CrashStep
<1>2. ASSUME NEW c \in Calls, NEW d \in Daemons, NEW o \in Ops, NEW i \in Inputs,
             Prepare(c, d, o, i)
      PROVE  IInv'
  BY <1>2, PrepareExecuteStep, PrepareAnswerStep DEF Prepare
<1>3. ASSUME NEW c \in Calls, Step(c) \/ DatabaseFault(c) PROVE IInv'
  BY <1>3, CallStep
<1>4. CASE UNCHANGED vars
  <2> USE <1>4 DEF vars
  <2>1. TypeOK' /\ AnswerBound' /\ AnswersAgree' /\ InFlightHasOwner'
    BY DEF IInv, TypeOK, AnswerBound, AnswersAgree, InFlightHasOwner, InFlight, Executor
  <2>2. Core'
    BY DEF IInv, Core, ExecutorUnique, ExecutorBound, PhaseMatchesRow,
           EffectOfExecutor, RowShape
  <2> QED BY <2>1, <2>2 DEF IInv
<1> QED BY <1>1, <1>2, <1>3, <1>4 DEF Next

-----------------------------------------------------------------------------
(* The theorems *)

\* IInv holds in every reachable state of the journal.
THEOREM Invariance == Spec => []IInv
BY InvInit, InvNext, PTL DEF Spec

\* The values of the table, the calls and the effect sets are well typed.
THEOREM TypeCorrect == Spec => []TypeOK
<1>1. IInv => TypeOK
  BY DEF IInv
<1> QED BY <1>1, Invariance, PTL

\* At most one call begins the effect of an operation id, over all crashes,
\* restarts, retries and daemons (execute() 189-236).
THEOREM EffectAtMostOnce == Spec => []AtMostOnce
<1>1. IInv => AtMostOnce
  BY DEF IInv, Core, AtMostOnce, EffectOfExecutor, ExecutorUnique, TypeOK
<1> QED BY <1>1, Invariance, PTL

\* A committed row keeps the result of a finished effect for its own input.
THEOREM CommittedIsDone == Spec => []CommittedMeansDone
<1>1. IInv => CommittedMeansDone
  BY DEF IInv, Core, CommittedMeansDone, RowShape, EffectOfExecutor, ExecutorBound, TypeOK
<1> QED BY <1>1, Invariance, PTL

\* Callers are never told what the journal does not (or no longer) hold.
THEOREM AnswersStayTrue == Spec => []AnswersAgree
<1>1. IInv => AnswersAgree
  BY DEF IInv
<1> QED BY <1>1, Invariance, PTL

\* An in-flight row is never orphaned by a crash that is followed by a start.
THEOREM NoOrphanedRow == Spec => []InFlightHasOwner
<1>1. IInv => InFlightHasOwner
  BY DEF IInv
<1> QED BY <1>1, Invariance, PTL

\* Every step leaves each row alone, inserts it, or moves it along its life.
RowStep(o) ==
    journal'[o] # journal[o] /\ journal[o].state # "absent" =>
        /\ <<journal[o].state, journal'[o].state>> \in Lifecycle
        /\ journal'[o].version = journal[o].version + 1
        /\ journal'[o].input = journal[o].input

\* The WHERE clauses of the UPDATE statements, action by action.
LEMMA RowStepNext == IInv /\ [Next]_vars => \A o \in Ops : RowStep(o)
<1> SUFFICES ASSUME IInv, [Next]_vars, NEW o \in Ops PROVE RowStep(o)
  OBVIOUS
<1>1. ASSUME NEW d \in Daemons, Start(d) PROVE RowStep(o)
  BY <1>1 DEF Start, ReconcileInterrupted, RowStep, Advance, InFlight, InFlightStates,
              Lifecycle
<1>2. ASSUME NEW c \in Calls, NEW d \in Daemons, NEW x \in Ops, NEW i \in Inputs,
             Prepare(c, d, x, i)
      PROVE  RowStep(o)
  <2>1. CASE PrepareExecute(c, d, x, i)
    <3>1. journal[x].state = "absent"
      BY <2>1, DispositionCases DEF PrepareExecute, IInv, TypeOK
    <3> QED BY <2>1, <3>1 DEF PrepareExecute, RowStep, IInv, TypeOK
  <2>2. CASE PrepareAnswer(c, d, x, i)
    BY <2>2 DEF PrepareAnswer, RowStep
  <2> QED BY <1>2, <2>1, <2>2 DEF Prepare
<1>3. ASSUME NEW c \in Calls, Step(c) \/ DatabaseFault(c) PROVE RowStep(o)
  <2> DEFINE x == call[c].op
  <2>1. CASE MarkRunning(c)
    BY <2>1 DEF MarkRunning, RowStep, Advance, Lifecycle, IInv, TypeOK
  <2>2. CASE MarkCommitted(c) /\ journal[x].state = "running"
    BY <2>2 DEF MarkCommitted, RowStep, Advance, Lifecycle, IInv, TypeOK
  <2>3. CASE MarkFailed(c)
    BY <2>3 DEF MarkFailed, FailedRow, RowStep, Advance, Lifecycle, IInv, TypeOK
  <2>4. CASE UNCHANGED journal
    BY <2>4 DEF RowStep
  <2> QED BY <1>3, <2>1, <2>2, <2>3, <2>4
          DEF Step, MarkRunningRefused, EffectReturns, EffectThrows, MarkCommitted,
              DatabaseFault
<1>4. ASSUME NEW d \in Daemons, Crash(d) PROVE RowStep(o)
  BY <1>4 DEF Crash, RowStep
<1>5. CASE UNCHANGED vars
  BY <1>5 DEF vars, RowStep
<1> QED BY <1>1, <1>2, <1>3, <1>4, <1>5 DEF Next

\* Rows move forward one version at a time, and a verdict is final.
THEOREM RowsMoveForward == Spec => RowMovesForward
<1>1. IInv /\ [Next]_vars => [\A o \in Ops : RowStep(o)]_vars
  BY RowStepNext
<1>2. Spec => [][\A o \in Ops : RowStep(o)]_vars
  BY <1>1, Invariance, PTL DEF Spec
<1> QED BY <1>2 DEF RowMovesForward, RowStep

-----------------------------------------------------------------------------
(* Refinement *)

LEMMA PhaseOfCases ==
    /\ PhaseOf("absent") = "absent"
    /\ PhaseOf("accepted") = "open" /\ PhaseOf("running") = "open"
    /\ PhaseOf("unknown-needs-reconcile") = "unknown"
    /\ PhaseOf("committed") = "committed" /\ PhaseOf("failed") = "failed"
BY DEF PhaseOf, InFlightStates

LEMMA RefinesInit == Init => OneShot!Init
BY PhaseOfCases DEF Init, OneShot!Init, AbsentRow

\* A step of the journal is a step of the one-shot operation or invisible.
LEMMA RefinesNext == IInv /\ [Next]_vars => [OneShot!Next]_(OneShot!vars)
<1> DEFINE Abstract == [OneShot!Next]_(OneShot!vars)
<1> SUFFICES ASSUME IInv, [Next]_vars PROVE Abstract
  OBVIOUS
<1> USE DEF IInv, Core
<1>1. ASSUME NEW d \in Daemons, Start(d) PROVE Abstract
  <2> DEFINE S == {o \in Ops : InFlight(o)}
  <2>1. \A o \in S : PhaseOf(journal[o].state) = "open"
    BY PhaseOfCases DEF InFlight, InFlightStates
  <2>2. \A o \in Ops :
           /\ PhaseOf(journal'[o].state)
                = IF o \in S THEN "unknown" ELSE PhaseOf(journal[o].state)
           /\ journal'[o].input = journal[o].input
           /\ journal'[o].result = journal[o].result
    BY <1>1, PhaseOfCases DEF Start, ReconcileInterrupted, Advance
  <2>3. UNCHANGED <<begun, finished>>
    BY <1>1 DEF Start
  <2>4. OneShot!Doubt(S)
    BY <2>1, <2>2, <2>3 DEF OneShot!Doubt
  <2>5. S \in SUBSET Ops
    OBVIOUS
  <2> QED BY <2>4, <2>5 DEF OneShot!Next
<1>2. ASSUME NEW c \in Calls, NEW d \in Daemons, NEW x \in Ops, NEW i \in Inputs,
             Prepare(c, d, x, i)
      PROVE  Abstract
  <2>1. CASE PrepareExecute(c, d, x, i)
    <3>1. journal[x].state = "absent" /\ journal[x].result = None
      BY <2>1, DispositionCases DEF PrepareExecute, TypeOK, RowShape
    <3>2. /\ journal'[x].state = "accepted" /\ journal'[x].input = i
          /\ journal'[x].result = None
          /\ \A o \in Ops \ {x} : journal'[o] = journal[o]
          /\ UNCHANGED <<begun, finished>>
      BY <1>2, <2>1 DEF PrepareExecute, Prepare, TypeOK
    <3>3. OneShot!Accept(x, i)
      BY <3>1, <3>2, PhaseOfCases DEF OneShot!Accept
    <3> QED BY <3>3 DEF OneShot!Next
  <2>2. CASE PrepareAnswer(c, d, x, i)
    BY <1>2, <2>2 DEF PrepareAnswer, Prepare, OneShot!vars
  <2> QED BY <1>2, <2>1, <2>2 DEF Prepare
<1>3. ASSUME NEW c \in Calls, MarkRunning(c) PROVE Abstract
  <2> DEFINE x == call[c].op
  <2>1. x \in Ops /\ call[c].role = "executor" /\ call[c].pc = "accepted"
    BY <1>3, ActiveBound DEF MarkRunning, Active
  <2>2. begun[x] = {}
    <3>1. \A b \in begun[x] : b \in Calls /\ b = c
      BY <2>1 DEF EffectOfExecutor, ExecutorUnique, TypeOK
    <3> QED BY <2>1, <3>1 DEF EffectOfExecutor
  <2>3. /\ journal[x].state = "accepted" /\ journal'[x].state = "running"
        /\ journal'[x].input = journal[x].input
        /\ journal'[x].result = journal[x].result
        /\ \A o \in Ops \ {x} : journal'[o] = journal[o]
        /\ UNCHANGED finished
    BY <1>3, <2>1 DEF MarkRunning, Advance, TypeOK
  <2>4. begun' = [begun EXCEPT ![x] = {c}]
    BY <1>3, <2>1, <2>2 DEF MarkRunning, TypeOK
  <2>5. OneShot!Begin(x, c)
    BY <2>1, <2>2, <2>3, <2>4, PhaseOfCases DEF OneShot!Begin
  <2> QED BY <2>1, <2>5 DEF OneShot!Next
<1>4. ASSUME NEW c \in Calls, EffectReturns(c) PROVE Abstract
  <2> DEFINE x == call[c].op
  <2>1. x \in Ops /\ c \in begun[x] /\ UNCHANGED <<journal, begun>>
    BY <1>4, ActiveBound DEF EffectReturns, Active, PhaseMatchesRow
  <2>2. finished[x] \subseteq {c}
    BY <2>1 DEF EffectOfExecutor, ExecutorUnique, TypeOK
  <2>3. finished' = [finished EXCEPT ![x] = {c}]
    BY <1>4, <2>1, <2>2 DEF EffectReturns, TypeOK
  <2>4. OneShot!Finish(x, c)
    BY <2>1, <2>3 DEF OneShot!Finish
  <2> QED BY <2>1, <2>4 DEF OneShot!Next
<1>5. ASSUME NEW c \in Calls, MarkCommitted(c), journal[call[c].op].state = "running"
      PROVE  Abstract
  <2> DEFINE x == call[c].op
  <2>1. x \in Ops /\ c \in finished[x] /\ UNCHANGED <<begun, finished>>
    BY <1>5, ActiveBound DEF MarkCommitted, Active, PhaseMatchesRow
  <2>2. /\ journal'[x].state = "committed"
        /\ journal'[x].input = journal[x].input /\ journal'[x].result = c
        /\ \A o \in Ops \ {x} : journal'[o] = journal[o]
    BY <1>5, <2>1 DEF MarkCommitted, Advance, TypeOK
  <2>3. OneShot!Commit(x, c)
    BY <1>5, <2>1, <2>2, PhaseOfCases DEF OneShot!Commit
  <2> QED BY <2>1, <2>3 DEF OneShot!Next
<1>6. ASSUME NEW c \in Calls, MarkFailed(c), journal[call[c].op].state = "running"
      PROVE  Abstract
  <2> DEFINE x == call[c].op
  <2>1. x \in Ops /\ UNCHANGED <<begun, finished>>
    BY <1>6, ActiveBound DEF MarkFailed, Active
  <2>2. /\ journal'[x].state = "failed"
        /\ journal'[x].input = journal[x].input
        /\ journal'[x].result = journal[x].result
        /\ \A o \in Ops \ {x} : journal'[o] = journal[o]
    BY <1>6, <2>1 DEF MarkFailed, FailedRow, Advance, TypeOK
  <2>3. OneShot!Fail(x)
    BY <1>6, <2>1, <2>2, PhaseOfCases DEF OneShot!Fail
  <2> QED BY <2>1, <2>3 DEF OneShot!Next
<1>7. CASE UNCHANGED <<journal, begun, finished>>
  BY <1>7 DEF OneShot!vars
<1>8. ASSUME NEW c \in Calls, MarkFailed(c), journal[call[c].op].state # "running"
      PROVE  UNCHANGED <<journal, begun, finished>>
  BY <1>8 DEF MarkFailed, FailedRow, TypeOK
<1>9. ASSUME NEW c \in Calls, MarkCommitted(c), journal[call[c].op].state # "running"
      PROVE  UNCHANGED <<journal, begun, finished>>
  BY <1>9 DEF MarkCommitted
<1>10. ASSUME NEW c \in Calls,
              \/ MarkRunningRefused(c) \/ EffectThrows(c) \/ DatabaseFault(c)
       PROVE  UNCHANGED <<journal, begun, finished>>
  BY <1>10 DEF MarkRunningRefused, EffectThrows, DatabaseFault
<1>11. ASSUME NEW d \in Daemons, Crash(d) PROVE UNCHANGED <<journal, begun, finished>>
  BY <1>11 DEF Crash
<1>12. CASE UNCHANGED vars
  BY <1>7, <1>12 DEF vars
<1>13. UNCHANGED <<journal, begun, finished>> => Abstract
  BY <1>7
<1> HIDE DEF Abstract, IInv, Core
<1> QED BY <1>1, <1>2, <1>3, <1>4, <1>5, <1>6, <1>8, <1>9, <1>10, <1>11, <1>12, <1>13
        DEF Next, Step

\* The journal implements the one-shot operation its callers rely on.
THEOREM Refinement == Spec => ImplementsOneShot
BY RefinesInit, RefinesNext, Invariance, PTL DEF Spec, ImplementsOneShot, OneShot!Spec
=============================================================================
