--------------------------- MODULE OperationJournal ---------------------------
(***************************************************************************)
(* The durable operation journal (packages/operations) as it is used by    *)
(* daemon processes that have the same SQLite file open.                   *)
(*                                                                         *)
(* A call of OperationJournal.execute() is a small process: prepare() is   *)
(* one immediate transaction, markRunning() one UPDATE followed in the     *)
(* same synchronous segment by the start of the effect, and after the      *)
(* await of the effect either #markCommitted() or #markFailed() is one     *)
(* more UPDATE.  Two calls of one daemon interleave only at that await;    *)
(* calls of two daemons interleave at every statement, and the model lets  *)
(* all calls interleave at every statement.  A daemon can die between any  *)
(* two steps; starting it again runs reconcileInterrupted().               *)
(***************************************************************************)
EXTENDS Naturals, FiniteSets

CONSTANTS
    Daemons,      \* processes that open the database
    Ops,          \* operation ids
    Inputs,       \* (kind, fingerprint) pairs a caller can send with an id
    Calls,        \* calls of execute(); a retry is another call
    None,
    MaxCrashes,   \* bound: process deaths in a behaviour
    MaxFaults     \* bound: calls that meet an SQLite error

ASSUME NoneAssumption == None \notin Calls \cup Inputs \cup Daemons \cup Ops
ASSUME BoundAssumption == MaxCrashes \in Nat /\ MaxFaults \in Nat

VARIABLES
    journal,    \* the table operation_journal, one row per id
    up,         \* the daemons that have started
    call,       \* the local state of every call of execute()
    begun,      \* per id, the calls whose effect() was invoked
    finished,   \* per id, the calls whose effect() ran to its end
    crashes,    \* how many daemons have died
    faulted     \* the calls that met an SQLite error

vars == <<journal, up, call, begun, finished, crashes, faulted>>

-----------------------------------------------------------------------------
(* Rows and calls *)

InFlightStates == {"accepted", "running"}
TerminalStates == {"committed", "failed", "rolled_back"}
RowStates == {"absent", "unknown-needs-reconcile"}
                 \cup InFlightStates \cup TerminalStates

Row == [state : RowStates, input : Inputs \cup {None},
        result : Calls \cup {None}, version : Nat]

AbsentRow == [state |-> "absent", input |-> None, result |-> None, version |-> 0]

\* The UPDATE statements of the journal: a new state, the version one higher.
Advance(row, state) == [state |-> state, input |-> row.input,
                        result |-> row.result, version |-> row.version + 1]

InFlight(o) == journal[o].state \in InFlightStates

\* "accepted": prepare() said "execute"; "running": awaiting the effect;
\* "returned": the effect gave a result; "failing": in the catch block;
\* "lost": its process died.
Active == {"accepted", "running", "returned", "failing"}
Phases == {"idle", "settled", "lost"} \cup Active
Answers == {"none", "executed", "replayed-committed", "replayed-failed",
            "replayed-rolled_back", "in-progress", "reconcile-required", "threw"}

CallState == [pc : Phases, daemon : Daemons \cup {None}, op : Ops \cup {None},
              input : Inputs \cup {None}, role : {"caller", "executor"},
              answer : Answers, result : Calls \cup {None}]

IdleCall == [pc |-> "idle", daemon |-> None, op |-> None, input |-> None,
             role |-> "caller", answer |-> "none", result |-> None]

\* The call returns or throws.
Settled(state, answer, result) ==
    [state EXCEPT !.pc = "settled", !.answer = answer, !.result = result]

\* The call that prepare() told to run the effect of the id.
Executor(c, o) == call[c].role = "executor" /\ call[c].op = o

TypeOK ==
    /\ journal \in [Ops -> Row]
    /\ up \in SUBSET Daemons
    /\ call \in [Calls -> CallState]
    /\ begun \in [Ops -> SUBSET Calls]
    /\ finished \in [Ops -> SUBSET Calls]
    /\ crashes \in Nat
    /\ faulted \in SUBSET Calls

Init ==
    /\ journal = [o \in Ops |-> AbsentRow]
    /\ up = {}
    /\ call = [c \in Calls |-> IdleCall]
    /\ begun = [o \in Ops |-> {}]
    /\ finished = [o \in Ops |-> {}]
    /\ crashes = 0
    /\ faulted = {}

-----------------------------------------------------------------------------
(* Daemon processes *)

\* Mutant: rows that never got as far as 'running' are left alone.
ReconcileRunningOnly ==
    [o \in Ops |-> IF journal[o].state = "running"
                   THEN Advance(journal[o], "unknown-needs-reconcile")
                   ELSE journal[o]]

\* reconcileInterrupted(): every in-flight row, whoever is working on it.
ReconcileInterrupted ==
    [o \in Ops |-> IF InFlight(o)
                   THEN Advance(journal[o], "unknown-needs-reconcile")
                   ELSE journal[o]]

\* startDaemon(): the journal is reconciled before the first request.
Start(d) ==
    /\ d \notin up
    /\ up' = up \cup {d}
    /\ journal' = ReconcileInterrupted
    /\ UNCHANGED <<call, begun, finished, crashes, faulted>>

\* The process dies; what it was doing is lost, what it wrote is not.
Crash(d) ==
    /\ d \in up
    /\ crashes < MaxCrashes
    /\ crashes' = crashes + 1
    /\ up' = up \ {d}
    /\ call' = [c \in Calls |->
                  IF call[c].daemon = d /\ call[c].pc \in Active
                  THEN [call[c] EXCEPT !.pc = "lost"]
                  ELSE call[c]]
    /\ UNCHANGED <<journal, begun, finished, faulted>>

-----------------------------------------------------------------------------
(* execute() *)

\* Mutant: an operation of unknown fate is simply run again.
DispositionRetriesUnknown(row, i) ==
    CASE row.state \in {"absent", "unknown-needs-reconcile"} -> "execute"
      [] row.state # "absent" /\ row.input # i -> "conflict"
      [] row.input = i /\ row.state \in TerminalStates -> "replay"
      [] row.input = i /\ row.state \in InFlightStates -> "in-progress"

\* Mutant: a known verdict is replayed without comparing the input.
DispositionIgnoresInput(row, i) ==
    CASE row.state = "absent" -> "execute"
      [] row.state \in TerminalStates -> "replay"
      [] row.state = "unknown-needs-reconcile" -> "reconcile-required"
      [] row.state \in InFlightStates -> "in-progress"

\* prepare(): what the transaction finds for an id and an input.
Disposition(row, i) ==
    CASE row.state = "absent" -> "execute"
      [] row.state # "absent" /\ row.input # i -> "conflict"
      [] row.input = i /\ row.state \in TerminalStates -> "replay"
      [] row.input = i /\ row.state = "unknown-needs-reconcile" -> "reconcile-required"
      [] row.input = i /\ row.state \in InFlightStates -> "in-progress"

\* What execute() tells its caller when it is not to run the effect.
\* A conflict is an exception; a replay carries the stored result.
Answer(disposition, row) ==
    CASE disposition = "conflict" -> "threw"
      [] disposition = "replay" /\ row.state = "committed" -> "replayed-committed"
      [] disposition = "replay" /\ row.state = "failed" -> "replayed-failed"
      [] disposition = "replay" /\ row.state = "rolled_back" -> "replayed-rolled_back"
      [] disposition \in {"in-progress", "reconcile-required"} -> disposition

Asked(c, d, o, i) == [call[c] EXCEPT !.daemon = d, !.op = o, !.input = i]

\* The id is new: its row is inserted and this call is to run the effect.
PrepareExecute(c, d, o, i) ==
    /\ Disposition(journal[o], i) = "execute"
    /\ journal' = [journal EXCEPT ![o] = [state |-> "accepted", input |-> i,
                                          result |-> None, version |-> 0]]
    /\ call' = [call EXCEPT ![c] = [Asked(c, d, o, i) EXCEPT !.pc = "accepted",
                                                             !.role = "executor"]]

\* The id is known: the caller is answered from its row.
PrepareAnswer(c, d, o, i) ==
    LET disposition == Disposition(journal[o], i)
        answer == Answer(disposition, journal[o])
    IN  /\ disposition # "execute"
        /\ call' = [call EXCEPT ![c] =
                      Settled(Asked(c, d, o, i), answer,
                              IF answer = "replayed-committed"
                              THEN journal[o].result ELSE None)]
        /\ UNCHANGED journal

\* A call of execute() arrives at daemon d.
Prepare(c, d, o, i) ==
    /\ d \in up
    /\ call[c].pc = "idle"
    /\ PrepareExecute(c, d, o, i) \/ PrepareAnswer(c, d, o, i)
    /\ UNCHANGED <<up, begun, finished, crashes, faulted>>

\* Mutant: the UPDATE has no WHERE state = 'accepted'.
MarkRunningUnguarded(c) ==
    LET o == call[c].op IN
    /\ call[c].pc = "accepted"
    /\ journal' = [journal EXCEPT ![o] = Advance(@, "running")]
    /\ call' = [call EXCEPT ![c].pc = "running"]
    /\ begun' = [begun EXCEPT ![o] = @ \cup {c}]
    /\ UNCHANGED <<up, finished, crashes, faulted>>

\* The UPDATE ... WHERE state = 'accepted' changed a row; the effect starts.
MarkRunning(c) ==
    LET o == call[c].op IN
    /\ call[c].pc = "accepted"
    /\ journal[o].state = "accepted"
    /\ journal' = [journal EXCEPT ![o] = Advance(@, "running")]
    /\ call' = [call EXCEPT ![c].pc = "running"]
    /\ begun' = [begun EXCEPT ![o] = @ \cup {c}]
    /\ UNCHANGED <<up, finished, crashes, faulted>>

\* It changed none, another daemon reconciled the row: execute() throws,
\* outside the try block.
MarkRunningRefused(c) ==
    /\ call[c].pc = "accepted"
    /\ journal[call[c].op].state # "accepted"
    /\ call' = [call EXCEPT ![c] = Settled(@, "threw", None)]
    /\ UNCHANGED <<journal, up, begun, finished, crashes, faulted>>

\* The effect ends with a result; parseResultEnvelope() throws for one that
\* is not JSON, after the effect has happened.
EffectReturns(c) ==
    /\ call[c].pc = "running"
    /\ finished' = [finished EXCEPT ![call[c].op] = @ \cup {c}]
    /\ \E pc \in {"returned", "failing"} : call' = [call EXCEPT ![c].pc = pc]
    /\ UNCHANGED <<journal, up, begun, crashes, faulted>>

EffectThrows(c) ==
    /\ call[c].pc = "running"
    /\ call' = [call EXCEPT ![c].pc = "failing"]
    /\ UNCHANGED <<journal, up, begun, finished, crashes, faulted>>

\* Mutant: the effect is not awaited.
MarkCommittedEarly(c) ==
    LET o == call[c].op IN
    /\ call[c].pc \in {"running", "returned"}
    /\ journal[o].state = "running"
    /\ journal' = [journal EXCEPT ![o] =
                     [Advance(@, "committed") EXCEPT !.result = c]]
    /\ call' = [call EXCEPT ![c] = Settled(@, "executed", c)]
    /\ UNCHANGED <<up, begun, finished, crashes, faulted>>

\* #markCommitted(); when the row is no longer 'running' it throws, and the
\* catch block is next.
MarkCommitted(c) ==
    LET o == call[c].op IN
    /\ call[c].pc = "returned"
    /\ \/ /\ journal[o].state = "running"
          /\ journal' = [journal EXCEPT ![o] =
                           [Advance(@, "committed") EXCEPT !.result = c]]
          /\ call' = [call EXCEPT ![c] = Settled(@, "executed", c)]
       \/ /\ journal[o].state # "running"
          /\ call' = [call EXCEPT ![c].pc = "failing"]
          /\ UNCHANGED journal
    /\ UNCHANGED <<up, begun, finished, crashes, faulted>>

\* The row #markFailed() leaves: only a 'running' one is changed.
FailedRow(row) == IF row.state = "running" THEN Advance(row, "failed") ELSE row

\* Mutant: only an error of the effect itself is caught.
MarkFailedEffectOnly(c) ==
    LET o == call[c].op IN
    /\ call[c].pc = "failing"
    /\ c \notin finished[o]
    /\ journal' = [journal EXCEPT ![o] = FailedRow(@)]
    /\ call' = [call EXCEPT ![c] = Settled(@, "threw", None)]
    /\ UNCHANGED <<up, begun, finished, crashes, faulted>>

\* The catch block: #markFailed(), and execute() throws in any case.
MarkFailed(c) ==
    LET o == call[c].op IN
    /\ call[c].pc = "failing"
    /\ journal' = [journal EXCEPT ![o] = FailedRow(@)]
    /\ call' = [call EXCEPT ![c] = Settled(@, "threw", None)]
    /\ UNCHANGED <<up, begun, finished, crashes, faulted>>

\* SQLite refuses the UPDATE a call is at (busy past its timeout, disk full).
\* An error at the commit leads to the catch block, one at markRunning() or
\* in the catch block out of execute().  A fault in prepare() rolls back and
\* leaves no trace.
DatabaseFault(c) ==
    /\ call[c].pc \in {"accepted", "returned", "failing"}
    /\ c \in faulted \/ Cardinality(faulted) < MaxFaults
    /\ faulted' = faulted \cup {c}
    /\ call' = [call EXCEPT ![c] = IF @.pc = "returned"
                                   THEN [@ EXCEPT !.pc = "failing"]
                                   ELSE Settled(@, "threw", None)]
    /\ UNCHANGED <<journal, up, begun, finished, crashes>>

\* A step of a call once prepare() let it through.
Step(c) == \/ MarkRunning(c) \/ MarkRunningRefused(c)
           \/ EffectReturns(c) \/ EffectThrows(c)
           \/ MarkCommitted(c) \/ MarkFailed(c)

Next ==
    \/ \E d \in Daemons : Start(d) \/ Crash(d)
    \/ \E c \in Calls : \E d \in Daemons : \E o \in Ops : \E i \in Inputs :
          Prepare(c, d, o, i)
    \/ \E c \in Calls : Step(c) \/ DatabaseFault(c)

Spec == Init /\ [][Next]_vars

\* The event loop of a live process runs a pending continuation, effects
\* settle, and a daemon that died is started again.
Fairness ==
    /\ \A c \in Calls : WF_vars(Step(c))
    /\ \A d \in Daemons : WF_vars(Start(d))

FairSpec == Spec /\ Fairness

-----------------------------------------------------------------------------
(* Safety *)

\* execute() never runs the effect of one operation id twice, whatever
\* crashes, restarts, retries and other daemons do in between
\* (prepare() 114-155, markRunning() 157-172).
AtMostOnce ==
    \A o \in Ops : \A c1, c2 \in begun[o] : c1 = c2

\* A committed row keeps the result of an effect that ran to its end, for
\* the input the row is bound to (execute() 226-231, #markCommitted()).
CommittedMeansDone ==
    \A o \in Ops : journal[o].state = "committed" =>
        /\ journal[o].result \in finished[o]
        /\ call[journal[o].result].input = journal[o].input

\* What execute() has told a caller stays what the journal says: no caller
\* keeps a verdict, or a result, that the row of its id does not hold, and
\* a result is only given for the input the id is bound to (189-231).
AnswersAgree ==
    \A c \in Calls :
        LET row == journal[call[c].op] IN
        /\ call[c].answer \in {"executed", "replayed-committed"} =>
              /\ row.state = "committed"
              /\ row.result = call[c].result
              /\ row.input = call[c].input
        /\ call[c].answer = "replayed-failed" =>
              row.state = "failed" /\ row.input = call[c].input
        /\ call[c].answer = "reconcile-required" =>
              row.state = "unknown-needs-reconcile" /\ row.input = call[c].input

\* An in-flight row is somebody's: a call is working on it, or its process
\* died and has not started again, or an SQLite error cut the call short.
\* Otherwise every retry of the id would be told "in-progress" for ever
\* (startDaemon() 66, reconcileInterrupted() 174-183).
InFlightHasOwner ==
    \A o \in Ops : InFlight(o) =>
        \E c \in Calls :
            /\ Executor(c, o)
            /\ \/ call[c].pc \in Active
               \/ call[c].pc = "lost" /\ call[c].daemon \notin up
               \/ call[c].pc = "settled" /\ c \in faulted

\* A row only moves forward through its life, one version at a time, keeps
\* its input, and is never touched again once it has a verdict: the WHERE
\* clauses of the UPDATE statements (157-183, 238-273).
Lifecycle ==
    {<<"accepted", "running">>, <<"running", "committed">>, <<"running", "failed">>,
     <<"accepted", "unknown-needs-reconcile">>, <<"running", "unknown-needs-reconcile">>}

RowMovesForward ==
    [][\A o \in Ops : journal'[o] # journal[o] /\ journal[o].state # "absent" =>
          /\ <<journal[o].state, journal'[o].state>> \in Lifecycle
          /\ journal'[o].version = journal[o].version + 1
          /\ journal'[o].input = journal[o].input]_vars

\* Reconciliation at startup is for interrupted work: it takes no row away
\* from a call that a live daemon is still carrying out
\* (reconcileInterrupted() 174-183).
OnlyInterruptedReconciled ==
    [][\A o \in Ops :
          InFlight(o) /\ journal'[o].state = "unknown-needs-reconcile" =>
              ~ \E c \in Calls : Executor(c, o) /\ call[c].pc \in Active]_vars

\* The journal implements the one-shot operation its callers rely on.
PhaseOf(state) == CASE state \in InFlightStates -> "open"
                    [] state = "unknown-needs-reconcile" -> "unknown"
                    [] state \notin InFlightStates \cup {"unknown-needs-reconcile"} -> state

OneShot == INSTANCE OneShotOperation WITH
    phase <- [o \in Ops |-> PhaseOf(journal[o].state)],
    bound <- [o \in Ops |-> journal[o].input],
    result <- [o \in Ops |-> journal[o].result]

ImplementsOneShot == OneShot!Spec

-----------------------------------------------------------------------------
(* Liveness *)

\* Every call that prepare() let through is answered, or dies with its
\* process (the await of the effect and the two UPDATE statements after it).
CallsSettle ==
    \A c \in Calls : call[c].pc = "accepted" ~> call[c].pc \in {"settled", "lost"}

\* No id stays in flight, so that no caller is told "in-progress" for ever:
\* without SQLite errors every row gets a verdict or becomes
\* reconcile-required, over crashes and restarts.
InFlightResolves ==
    \A o \in Ops : InFlight(o) ~> (~InFlight(o) \/ faulted # {})
=============================================================================
