-------------------------- MODULE WriteQueue_proofs --------------------------
(***************************************************************************)
(* Mutual exclusion and first come, first served of the promise chain, for *)
(* every number of calls, keys and services.                               *)
(***************************************************************************)
EXTENDS WriteQueue, TLAPS

Before(v, w) == key[v] = key[w] /\ key[w] \in Keys /\ arrival[v] < arrival[w]

\* Arrivals number the calls that have arrived.
ArrivalInv ==
    /\ \A w \in Calls : /\ stage[w] = "new" => key[w] = None
                        /\ stage[w] # "new" => key[w] \in Keys
                        /\ arrival[w] <= arrived
    /\ \A v, w \in Calls :
          key[v] \in Keys /\ key[w] \in Keys /\ arrival[v] = arrival[w] => v = w

\* Everybody who came before a queued call is over, or came no later than
\* the call it is chained behind.
ChainInv ==
    \A w \in Calls : stage[w] = "queued" =>
        /\ previous[w] # None =>
              key[previous[w]] = key[w] /\ arrival[previous[w]] < arrival[w]
        /\ \A v \in Calls : Before(v, w) =>
              \/ stage[v] \in Over
              \/ previous[w] # None /\ arrival[v] <= arrival[previous[w]]

\* Everybody who is not over came no later than the call in the map.
TailInv ==
    /\ \A k \in Keys : tails[k] # None => key[tails[k]] = k
    /\ \A w \in Calls : key[w] \in Keys =>
          \/ stage[w] \in Over
          \/ tails[key[w]] # None /\ arrival[w] <= arrival[tails[key[w]]]

IInv == TypeOK /\ ArrivalInv /\ ChainInv /\ TailInv
            /\ FirstComeFirstServed /\ MapDrains

LEMMA InvInit == Init => IInv
<1> SUFFICES ASSUME Init PROVE IInv
  OBVIOUS
<1>1. /\ \A w \in Calls : stage[w] = "new" /\ key[w] = None /\ arrival[w] = 0
      /\ \A k \in Keys : tails[k] = None
      /\ None \notin Keys /\ arrived = 0
  BY NoneIsNoCall DEF Init
<1>2. TypeOK
  BY DEF Init, TypeOK, Stages
<1>3. ArrivalInv /\ ChainInv /\ TailInv /\ MapDrains
  BY <1>1 DEF ArrivalInv, ChainInv, TailInv, MapDrains
<1>4. FirstComeFirstServed
  BY <1>1 DEF FirstComeFirstServed
<1> QED BY <1>2, <1>3, <1>4 DEF IInv

\* A call arrives: it comes after all others, and takes the place in the map
\* (733-740).
LEMMA EnqueueStep ==
    ASSUME IInv, NEW w \in Calls, NEW k \in Keys, Enqueue(w, k)
    PROVE  IInv'
<1> USE DEF IInv
<1>1. /\ stage[w] = "new" /\ key[w] = None /\ w # None /\ k # None
      /\ arrived \in Nat
  BY NoneIsNoCall DEF Enqueue, ArrivalInv, TypeOK
<1>2. /\ stage'[w] = "queued" /\ key'[w] = k /\ previous'[w] = tails[k]
      /\ arrival'[w] = arrived + 1 /\ arrived' = arrived + 1
      /\ tails'[k] = w
      /\ \A x \in Keys \ {k} : tails'[x] = tails[x]
      /\ \A v \in Calls \ {w} : /\ stage'[v] = stage[v] /\ key'[v] = key[v]
                                /\ previous'[v] = previous[v]
                                /\ arrival'[v] = arrival[v]
  BY DEF Enqueue, Arrive, TypeOK
<1>3. TypeOK'
  BY DEF Enqueue, Arrive, TypeOK, Stages
<1>4. \A v \in Calls : arrival[v] \in Nat /\ arrival[v] <= arrived /\ arrival[v] < arrived + 1
  <2> SUFFICES ASSUME NEW v \in Calls
               PROVE  arrival[v] \in Nat /\ arrival[v] <= arrived /\ arrival[v] < arrived + 1
    OBVIOUS
  <2>1. arrival[v] \in Nat /\ arrived \in Nat /\ arrival[v] <= arrived
    BY DEF ArrivalInv, TypeOK
  <2> QED BY <2>1
<1>5. ArrivalInv'
  BY <1>1, <1>2, <1>4, NoneIsNoCall DEF ArrivalInv
<1>6. tails[k] # None => tails[k] \in Calls \ {w} /\ key[tails[k]] = k
  BY <1>1 DEF TailInv, TypeOK
<1>7. \A v \in Calls \ {w} : key[v] = k =>
         \/ stage[v] \in Over
         \/ tails[k] # None /\ arrival[v] <= arrival[tails[k]]
  BY DEF TailInv
<1>8. ChainInv'
  <2> SUFFICES ASSUME NEW v \in Calls, stage'[v] = "queued"
               PROVE  /\ previous'[v] # None =>
                            key'[previous'[v]] = key'[v] /\ arrival'[previous'[v]] < arrival'[v]
                      /\ \A u \in Calls : Before(u, v)' =>
                            \/ stage'[u] \in Over
                            \/ previous'[v] # None /\ arrival'[u] <= arrival'[previous'[v]]
    BY DEF ChainInv
  <2>1. CASE v = w
    BY <1>1, <1>2, <1>4, <1>6, <1>7, <2>1 DEF Before
  <2>2. CASE v # w
    <3>1. stage[v] = "queued" /\ key[v] \in Keys
      BY <1>2, <2>2 DEF ArrivalInv
    <3>2. previous[v] # None => previous[v] \in Calls \ {w}
      BY <1>1, <3>1, NoneIsNoCall DEF ChainInv, TypeOK
    <3>3. ~Before(w, v)'
      BY <1>2, <1>4, <2>2, <3>1 DEF Before, TypeOK
    <3> QED BY <1>2, <2>2, <3>1, <3>2, <3>3 DEF ChainInv, Before
  <2> QED BY <2>1, <2>2
<1>9. TailInv'
  <2>1. \A x \in Keys : tails'[x] # None => key'[tails'[x]] = x
    <3> SUFFICES ASSUME NEW x \in Keys, x # k, tails[x] # None
                 PROVE  key'[tails[x]] = x
      BY <1>2
    <3>1. tails[x] \in Calls /\ key[tails[x]] = x
      BY DEF TailInv, TypeOK
    <3> QED BY <1>1, <1>2, <3>1, NoneIsNoCall
  <2>2. ASSUME NEW v \in Calls, key'[v] \in Keys
        PROVE  \/ stage'[v] \in Over
               \/ tails'[key'[v]] # None /\ arrival'[v] <= arrival'[tails'[key'[v]]]
    <3>1. CASE key'[v] = k
      BY <1>1, <1>2, <1>4, <3>1 DEF TypeOK
    <3>2. CASE key'[v] # k
      <4>1. /\ v # w /\ key[v] \in Keys /\ key'[v] = key[v] /\ stage'[v] = stage[v]
            /\ tails'[key[v]] = tails[key[v]] /\ arrival'[v] = arrival[v]
        BY <1>2, <2>2, <3>2
      <4>2. tails[key[v]] # None => tails[key[v]] \in Calls \ {w}
        BY <1>1, <4>1, NoneIsNoCall DEF TailInv, TypeOK
      <4> QED BY <1>2, <4>1, <4>2 DEF TailInv
    <3> QED BY <3>1, <3>2
  <2> QED BY <2>1, <2>2 DEF TailInv
<1>10. FirstComeFirstServed'
  <2> SUFFICES ASSUME NEW u \in Calls, NEW v \in Calls, Before(u, v)',
                      stage'[v] \in {"running"} \cup Over
               PROVE  stage'[u] \in Over
    BY DEF FirstComeFirstServed, Before
  <2>1. v # w
    BY <1>2 DEF Over
  <2>2. u # w
    BY <1>2, <1>4, <2>1 DEF Before, TypeOK
  <2> QED BY <1>2, <2>1, <2>2 DEF FirstComeFirstServed, Before
<1>11. MapDrains'
  BY <1>1, <1>2, <1>6 DEF MapDrains, TypeOK
<1> QED BY <1>3, <1>5, <1>8, <1>9, <1>10, <1>11

\* A call starts once the tail it is chained behind is resolved (734-735).
LEMMA BeginStep ==
    ASSUME IInv, NEW w \in Calls, Begin(w)
    PROVE  IInv'
<1> USE DEF IInv
<1>1. /\ stage[w] = "queued" /\ stage'[w] = "running"
      /\ previous[w] # None => previous[w] \in Calls /\ stage[previous[w]] \in Over
      /\ \A v \in Calls \ {w} : stage'[v] = stage[v]
      /\ UNCHANGED <<tails, key, previous, arrival, arrived>>
  BY DEF Begin, TypeOK
<1>2. TypeOK'
  BY <1>1 DEF Begin, TypeOK, Stages
<1>3. ArrivalInv'
  BY <1>1 DEF ArrivalInv
<1>4. ChainInv' /\ TailInv' /\ MapDrains'
  BY <1>1 DEF ChainInv, TailInv, MapDrains, Before, Over, TypeOK
<1>5. FirstComeFirstServed'
  <2>1. \A v \in Calls : Before(v, w) => stage[v] \in Over
    <3> SUFFICES ASSUME NEW v \in Calls, Before(v, w), stage[v] \notin Over
                 PROVE  FALSE
      OBVIOUS
    <3> DEFINE p == previous[w]
    <3>1. /\ p \in Calls /\ key[p] = key[w] /\ arrival[v] <= arrival[p]
          /\ stage[p] \in Over
      BY <1>1 DEF ChainInv, TypeOK
    <3>2. CASE arrival[v] = arrival[p]
      BY <3>1, <3>2 DEF ArrivalInv, Before
    <3>3. CASE arrival[v] < arrival[p]
      BY <3>1, <3>3 DEF FirstComeFirstServed, Before
    <3> QED BY <3>1, <3>2, <3>3 DEF TypeOK
  <2>2. \A v \in Calls : stage[v] \in Over => v # w
    BY <1>1 DEF Over
  <2> QED BY <1>1, <2>1, <2>2 DEF FirstComeFirstServed, Before
<1> QED BY <1>2, <1>3, <1>4, <1>5

\* The operation ends: its tail is resolved (736-739).
LEMMA SettleStep ==
    ASSUME IInv, NEW w \in Calls, Settle(w)
    PROVE  IInv'
<1> USE DEF IInv
<1>1. /\ stage[w] = "running" /\ stage'[w] = "settled"
      /\ \A v \in Calls \ {w} : stage'[v] = stage[v]
      /\ UNCHANGED <<tails, key, previous, arrival, arrived>>
  BY DEF Settle, TypeOK
<1>2. TypeOK'
  BY <1>1 DEF Settle, TypeOK, Stages
<1>3. ArrivalInv' /\ ChainInv' /\ TailInv' /\ MapDrains'
  BY <1>1 DEF ArrivalInv, ChainInv, TailInv, MapDrains, Before, Over, TypeOK
<1>4. FirstComeFirstServed'
  BY <1>1 DEF FirstComeFirstServed, Over
<1> QED BY <1>2, <1>3, <1>4

\* The finally block takes the call's own tail out of the map (743-745).
LEMMA ReleaseStep ==
    ASSUME IInv, NEW w \in Calls, Release(w)
    PROVE  IInv'
<1> USE DEF IInv
<1>0. stage[w] = "settled" /\ key[w] \in Keys /\ w # None
  BY NoneIsNoCall DEF Release, ArrivalInv
<1>a. /\ stage'[w] = "released"
      /\ \A v \in Calls \ {w} : stage'[v] = stage[v]
      /\ UNCHANGED <<key, previous, arrival, arrived>>
  BY DEF Release, TypeOK
<1>b. /\ \A k \in Keys : \/ tails'[k] = tails[k]
                         \/ k = key[w] /\ tails[k] = w /\ tails'[k] = None
      /\ tails'[key[w]] # w
  <2>1. CASE tails[key[w]] = w
    <3>1. tails' = [tails EXCEPT ![key[w]] = None]
      BY <2>1 DEF Release, DropTail
    <3> QED BY <1>0, <2>1, <3>1 DEF TypeOK
  <2>2. CASE tails[key[w]] # w
    <3>1. tails' = tails
      BY <2>2 DEF Release, DropTail, TypeOK
    <3> QED BY <2>2, <3>1
  <2> QED BY <2>1, <2>2
<1>1. /\ stage[w] = "settled" /\ stage'[w] = "released" /\ key[w] \in Keys
      /\ \A v \in Calls \ {w} : stage'[v] = stage[v]
      /\ \A k \in Keys : \/ tails'[k] = tails[k]
                         \/ k = key[w] /\ tails[k] = w /\ tails'[k] = None
      /\ tails'[key[w]] # w
      /\ UNCHANGED <<key, previous, arrival, arrived>>
  BY <1>0, <1>a, <1>b
<1>2. TypeOK'
  BY <1>1 DEF Release, DropTail, TypeOK, Stages
<1>3. ArrivalInv' /\ ChainInv'
  BY <1>1 DEF ArrivalInv, ChainInv, Before, Over, TypeOK
<1>4. FirstComeFirstServed'
  BY <1>1 DEF FirstComeFirstServed, Over
<1>5. \A v \in Calls : Before(v, w) => stage[v] \in Over
  BY <1>1 DEF FirstComeFirstServed, Before, Over
<1>6. TailInv'
  <2>1. \A k \in Keys : tails'[k] # None => key'[tails'[k]] = k
    BY <1>1 DEF TailInv
  <2>2. ASSUME NEW v \in Calls, key'[v] \in Keys
        PROVE  \/ stage'[v] \in Over
               \/ tails'[key'[v]] # None /\ arrival'[v] <= arrival'[tails'[key'[v]]]
    <3>1. CASE v = w \/ stage[v] \in Over
      BY <1>1, <3>1 DEF Over
    <3>2. CASE v # w /\ stage[v] \notin Over /\ tails[key[v]] = w
      <4>1. key[v] = key[w] /\ arrival[v] <= arrival[w]
        BY <1>1, <2>2, <3>2, NoneIsNoCall DEF TailInv
      <4>2. arrival[v] # arrival[w]
        BY <1>1, <3>2, <4>1 DEF ArrivalInv
      <4> QED BY <1>1, <1>5, <3>2, <4>1, <4>2 DEF Before, TypeOK
    <3>3. CASE v # w /\ stage[v] \notin Over /\ tails[key[v]] # w
      BY <1>1, <2>2, <3>3 DEF TailInv
    <3> QED BY <3>1, <3>2, <3>3
  <2> QED BY <2>1, <2>2 DEF TailInv
<1>7. MapDrains'
  BY <1>1 DEF MapDrains, TypeOK
<1> QED BY <1>2, <1>3, <1>4, <1>6, <1>7

\* Processes die: all their calls are over, and their maps are gone.
LEMMA DieStep ==
    ASSUME IInv, NEW S \in SUBSET Services, Die(S)
    PROVE  IInv'
<1> USE DEF IInv
<1>1. /\ UNCHANGED <<key, previous, arrival, arrived>>
      /\ \A v \in Calls :
            \/ stage'[v] = stage[v]
            \/ /\ stage'[v] = "dead" /\ ServiceOf[key[v]] \in S
               /\ stage[v] \in {"queued", "running", "settled"}
      /\ \A v \in Calls : ServiceOf[key[v]] \in S =>
            stage'[v] \notin {"queued", "running", "settled"}
      /\ \A k \in Keys : \/ ServiceOf[k] \in S /\ tails'[k] = None
                         \/ ServiceOf[k] \notin S /\ tails'[k] = tails[k]
  BY DEF Die, TypeOK
<1>2. stage' \in [Calls -> Stages]
  BY DEF Die, TypeOK, Stages
<1>3. TypeOK'
  BY <1>1, <1>2 DEF Die, TypeOK
<1>4. ArrivalInv' /\ ChainInv'
  BY <1>1 DEF ArrivalInv, ChainInv, Before, Over
<1>5. \A v \in Calls : ServiceOf[key[v]] \in S /\ key[v] \in Keys => stage'[v] \in Over
  BY <1>1, <1>2, NoneIsNoCall DEF Over, ArrivalInv, Stages, TypeOK
<1>6. \A v \in Calls : stage[v] \in Over => stage'[v] \in Over
  BY <1>1 DEF Over
<1>7. TailInv'
  BY <1>1, <1>5, <1>6 DEF TailInv
<1>8. FirstComeFirstServed'
  BY <1>1, <1>5, <1>6 DEF FirstComeFirstServed, Over
<1>9. MapDrains'
  BY <1>1 DEF MapDrains, TypeOK
<1> QED BY <1>3, <1>4, <1>7, <1>8, <1>9

LEMMA InvNext == IInv /\ [Next]_vars => IInv'
<1> SUFFICES ASSUME IInv, [Next]_vars PROVE IInv'
  OBVIOUS
<1>1. CASE UNCHANGED vars
  BY <1>1 DEF vars, IInv, TypeOK, ArrivalInv, ChainInv, TailInv, FirstComeFirstServed,
              MapDrains, Before
<1> QED BY <1>1, EnqueueStep, BeginStep, SettleStep, ReleaseStep, DieStep DEF Next

-----------------------------------------------------------------------------

\* IInv holds in every reachable state of the promise chains.
THEOREM Invariance == Spec => []IInv
BY InvInit, InvNext, PTL DEF Spec

\* The map, the stages and the links are well typed.
THEOREM TypeCorrect == Spec => []TypeOK
<1>1. IInv => TypeOK
  BY DEF IInv
<1> QED BY <1>1, Invariance, PTL

\* A target is served in the order of arrival (#serializeWrite 733-746).
THEOREM ServedInOrder == Spec => []FirstComeFirstServed
<1>1. IInv => FirstComeFirstServed
  BY DEF IInv
<1> QED BY <1>1, Invariance, PTL

\* Two mutations of one target never overlap: of two running calls one
\* arrived first, and it would have to be over.
THEOREM MutuallyExclusive == Spec => []MutualExclusion
<1>1. IInv => MutualExclusion
  <2> SUFFICES ASSUME IInv, NEW v \in Calls, NEW w \in Calls, stage[v] = "running",
                      stage[w] = "running", key[v] = key[w], v # w
               PROVE  FALSE
    BY DEF MutualExclusion
  <2>1. key[v] \in Keys /\ arrival[v] # arrival[w]
    BY DEF IInv, ArrivalInv
  <2>2. ~(arrival[v] < arrival[w]) /\ ~(arrival[w] < arrival[v])
    BY <2>1 DEF IInv, FirstComeFirstServed, Over
  <2> QED BY <2>1, <2>2 DEF IInv, TypeOK
<1> QED BY <1>1, Invariance, PTL

\* The map keeps nothing of calls that have been released or have died.
THEOREM MapIsDrained == Spec => []MapDrains
<1>1. IInv => MapDrains
  BY DEF IInv
<1> QED BY <1>1, Invariance, PTL
=============================================================================
