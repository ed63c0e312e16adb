------------------------------ MODULE WriteQueue ------------------------------
(***************************************************************************)
(* FilesystemService.#serializeWrite(): mutations of one target run one    *)
(* after the other, in the order in which they arrive.                     *)
(*                                                                         *)
(* There is no queue in the code.  #writeTails maps a target to the tail   *)
(* promise of the last call that arrived for it; a call chains itself      *)
(* behind that promise, puts its own in the map, and takes it out again    *)
(* only if it is still its own.  A promise is modelled by the call it      *)
(* belongs to: tail of w is settled once w has settled, either way.        *)
(***************************************************************************)
EXTENDS Naturals

CONSTANTS
    Calls,       \* calls of write() and patch()
    Services,    \* FilesystemService objects, one per daemon process
    Keys,        \* the targets (absolute paths) of a service
    ServiceOf,   \* the service whose map the key is in
    None

ASSUME ServiceAssumption == ServiceOf \in [Keys -> Services]
ASSUME NoneIsNoCall == None \notin Calls \cup Keys

VARIABLES
    tails,      \* #writeTails: per key the call whose tail promise is stored
    stage,      \* how far a call is
    key,        \* the target of a call
    previous,   \* the call whose tail a call is chained behind
    arrival,    \* history: the order in which calls arrived
    arrived     \* history: how many have

vars == <<tails, stage, key, previous, arrival, arrived>>

Stages == {"new", "queued", "running", "settled", "released", "dead"}

TypeOK ==
    /\ tails \in [Keys -> Calls \cup {None}]
    /\ stage \in [Calls -> Stages]
    /\ key \in [Calls -> Keys \cup {None}]
    /\ previous \in [Calls -> Calls \cup {None}]
    /\ arrival \in [Calls -> Nat]
    /\ arrived \in Nat

Init ==
    /\ tails = [k \in Keys |-> None]
    /\ stage = [w \in Calls |-> "new"]
    /\ key = [w \in Calls |-> None]
    /\ previous = [w \in Calls |-> None]
    /\ arrival = [w \in Calls |-> 0]
    /\ arrived = 0

\* The tail promise of a call is resolved: nobody waits for it any more.
Over == {"settled", "released", "dead"}

Arrive(w) == /\ arrival' = [arrival EXCEPT ![w] = arrived + 1]
             /\ arrived' = arrived + 1

\* Mutant: the call is chained, and its tail is not stored.
EnqueueUnrecorded(w, k) ==
    /\ stage[w] = "new"
    /\ stage' = [stage EXCEPT ![w] = "queued"]
    /\ key' = [key EXCEPT ![w] = k]
    /\ previous' = [previous EXCEPT ![w] = tails[k]]
    /\ tails' = [tails EXCEPT ![k] = IF @ = None THEN w ELSE @]
    /\ Arrive(w)

\* Mutant: the call stores its tail first, and chains itself behind itself.
EnqueueSwapped(w, k) ==
    /\ stage[w] = "new"
    /\ stage' = [stage EXCEPT ![w] = "queued"]
    /\ key' = [key EXCEPT ![w] = k]
    /\ previous' = [previous EXCEPT ![w] = w]
    /\ tails' = [tails EXCEPT ![k] = w]
    /\ Arrive(w)

\* Lines up to the await: read the tail, chain, store one's own tail.
Enqueue(w, k) ==
    /\ stage[w] = "new"
    /\ stage' = [stage EXCEPT ![w] = "queued"]
    /\ key' = [key EXCEPT ![w] = k]
    /\ previous' = [previous EXCEPT ![w] = tails[k]]
    /\ tails' = [tails EXCEPT ![k] = w]
    /\ Arrive(w)

\* previous.catch(() => {}).then(operation): the operation starts.
Begin(w) ==
    /\ stage[w] = "queued"
    /\ previous[w] # None => stage[previous[w]] \in Over
    /\ stage' = [stage EXCEPT ![w] = "running"]
    /\ UNCHANGED <<tails, key, previous, arrival, arrived>>

\* The operation returns or throws; the tail is resolved in both cases.
Settle(w) ==
    /\ stage[w] = "running"
    /\ stage' = [stage EXCEPT ![w] = "settled"]
    /\ UNCHANGED <<tails, key, previous, arrival, arrived>>

\* Mutant: the entry is deleted whoever it belongs to.
DropTailAlways(w) == [tails EXCEPT ![key[w]] = None]

\* Mutant: the entry is never deleted.
DropTailNever(w) == tails

\* The map after the finally block: one's own tail is deleted.
DropTail(w) == [tails EXCEPT ![key[w]] = IF @ = w THEN None ELSE @]

Release(w) ==
    /\ stage[w] = "settled"
    /\ stage' = [stage EXCEPT ![w] = "released"]
    /\ tails' = DropTail(w)
    /\ UNCHANGED <<key, previous, arrival, arrived>>

\* Processes die, one or with the machine all of them; a process that is
\* started again has an empty map.
Die(S) ==
    /\ stage' = [w \in Calls |->
                   IF /\ stage[w] \in {"queued", "running", "settled"}
                      /\ ServiceOf[key[w]] \in S
                   THEN "dead" ELSE stage[w]]
    /\ tails' = [k \in Keys |-> IF ServiceOf[k] \in S THEN None ELSE tails[k]]
    /\ UNCHANGED <<key, previous, arrival, arrived>>

Next ==
    \/ \E w \in Calls :
          \/ \E k \in Keys : Enqueue(w, k)
          \/ Begin(w) \/ Settle(w) \/ Release(w)
    \/ \E S \in SUBSET Services : Die(S)

Spec == Init /\ [][Next]_vars

\* Microtasks run, and the operations that are serialized come to an end.
FairSpec == Spec /\ \A w \in Calls : WF_vars(Begin(w) \/ Settle(w) \/ Release(w))

-----------------------------------------------------------------------------

\* Two operations on one target never run at the same time, although the
\* chain is rebuilt from a map that calls delete themselves from (733-746).
MutualExclusion ==
    \A v, w \in Calls :
        stage[v] = "running" /\ stage[w] = "running" /\ key[v] = key[w] => v = w

\* A call runs only after every call that arrived before it for the target
\* is over, even when a call in between failed or left the map.
FirstComeFirstServed ==
    \A v, w \in Calls :
        /\ key[v] = key[w] /\ key[w] \in Keys
        /\ arrival[v] < arrival[w]
        /\ stage[w] \in {"running"} \cup Over
        => stage[v] \in Over

\* The map holds a target only while a call for it has not been released: a
\* daemon that has written a million files keeps no entry for them.
MapDrains ==
    \A k \in Keys : tails[k] # None =>
        /\ key[tails[k]] = k
        /\ stage[tails[k]] \in {"queued", "running", "settled"}

\* No call waits for ever behind a failed or a dead one.
EveryCallReleased ==
    \A w \in Calls : stage[w] = "queued" ~> stage[w] \in {"released", "dead"}
=============================================================================
