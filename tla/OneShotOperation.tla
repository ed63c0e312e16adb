-------------------------- MODULE OneShotOperation --------------------------
(***************************************************************************)
(* What the operation journal promises to the callers of execute(), with   *)
(* no daemon, no crash and no SQL in it: an operation id is bound to one   *)
(* input, its effect begins at most once, "committed" is only said of an   *)
(* effect that finished, and a verdict once given is never taken back.     *)
(* OperationJournal implements this specification.                         *)
(***************************************************************************)
CONSTANTS
    Ops,      \* operation ids
    Inputs,   \* (kind, fingerprint) pairs
    Calls,    \* the calls that may carry out an operation
    None

VARIABLES
    phase,     \* "absent", "open", "committed", "failed" or "unknown"
    bound,     \* the input the id is bound to
    result,    \* the call whose result a committed operation keeps
    begun,     \* the calls that began the effect of the operation
    finished   \* ... and those that carried it out to its end

vars == <<phase, bound, result, begun, finished>>

Init ==
    /\ phase = [o \in Ops |-> "absent"]
    /\ bound = [o \in Ops |-> None]
    /\ result = [o \in Ops |-> None]
    /\ begun = [o \in Ops |-> {}]
    /\ finished = [o \in Ops |-> {}]

\* The first caller binds the id to its input.
Accept(o, i) ==
    /\ phase[o] = "absent"
    /\ phase' = [phase EXCEPT ![o] = "open"]
    /\ bound' = [bound EXCEPT ![o] = i]
    /\ UNCHANGED <<result, begun, finished>>

\* The effect begins, once in the life of the id.
Begin(o, c) ==
    /\ phase[o] = "open"
    /\ begun[o] = {}
    /\ begun' = [begun EXCEPT ![o] = {c}]
    /\ UNCHANGED <<phase, bound, result, finished>>

\* The effect runs to its end, whatever the journal says of it by then.
Finish(o, c) ==
    /\ c \in begun[o]
    /\ finished' = [finished EXCEPT ![o] = {c}]
    /\ UNCHANGED <<phase, bound, result, begun>>

Commit(o, c) ==
    /\ phase[o] = "open"
    /\ c \in finished[o]
    /\ phase' = [phase EXCEPT ![o] = "committed"]
    /\ result' = [result EXCEPT ![o] = c]
    /\ UNCHANGED <<bound, begun, finished>>

Fail(o) ==
    /\ phase[o] = "open"
    /\ phase' = [phase EXCEPT ![o] = "failed"]
    /\ UNCHANGED <<bound, result, begun, finished>>

\* A set of operations whose fate is no longer known.
Doubt(S) ==
    /\ \A o \in S : phase[o] = "open"
    /\ phase' = [o \in Ops |-> IF o \in S THEN "unknown" ELSE phase[o]]
    /\ UNCHANGED <<bound, result, begun, finished>>

Next ==
    \/ \E o \in Ops :
          \/ \E i \in Inputs : Accept(o, i)
          \/ \E c \in Calls : Begin(o, c) \/ Finish(o, c) \/ Commit(o, c)
          \/ Fail(o)
    \/ \E S \in SUBSET Ops : Doubt(S)

Spec == Init /\ [][Next]_vars
=============================================================================
