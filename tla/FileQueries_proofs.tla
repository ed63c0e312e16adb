------------------------- MODULE FileQueries_proofs -------------------------
(* Theorems of FileQueries, for any tree, any contents and any limits,       *)
(* whatever others do to the tree between two steps of a request: the pages  *)
(* of a listing leave out nothing that stays; the ranges of a file that      *)
(* stays are the file, but for byte order marks that a range began with; a   *)
(* search that does not say it was truncated accounts for every file that    *)
(* stays and that it may open.  For any text and any edits, a patch replaces *)
(* what it names or is refused.                                              *)
EXTENDS FileQueries, FiniteSetTheorems, SequenceTheorems, WellFoundedInduction, TLAPS

-------------------------------------------------------------------------------
(* Numbers, sets and sequences *)

LEMMA LeastOfNaturals ==
    ASSUME NEW T \in SUBSET Nat, T # {}
    PROVE  \E n \in T : \A m \in T : n <= m
<1> DEFINE R == OpToRel(<, Nat)
<1>1. \A x, y \in Nat : x < y <=> <<x, y>> \in R
  BY DEF OpToRel
<1>2. IsWellFoundedOn(R, Nat)
  BY NatLessThanWellFounded
<1> HIDE DEF R
<1>3. \E n \in T : \A m \in T : ~ (<<m, n>> \in R)
  BY <1>2, WFMin
<1>4. PICK n \in T : \A m \in T : ~ (<<m, n>> \in R)
  BY <1>3
<1>5. ASSUME NEW m \in T
      PROVE  n <= m
  <2>1. n \in Nat /\ m \in Nat
    OBVIOUS
  <2>2. ~ (m < n)
    BY <1>1, <1>4, <2>1
  <2> QED BY <2>1, <2>2
<1> QED BY <1>5

\* Induction, with a set for the predicate.
LEMMA AllNaturals ==
    ASSUME NEW T \in SUBSET Nat, 0 \in T, \A k \in T : k + 1 \in T
    PROVE  T = Nat
<1> SUFFICES ASSUME Nat \ T # {}
             PROVE  FALSE
    OBVIOUS
<1>1. PICK n \in Nat \ T : \A m \in Nat \ T : n <= m
  BY LeastOfNaturals
<1>2. n - 1 \in Nat /\ n - 1 \notin Nat \ T
  BY <1>1
<1> QED BY <1>1, <1>2

\* A relation that orders the elements of a finite set lists them.
LEMMA SomeListing ==
    ASSUME NEW X, NEW R, \A x \in X : <<x, x>> \notin R,
           \A x, y, z \in X : <<x, y>> \in R /\ <<y, z>> \in R => <<x, z>> \in R,
           \A x, y \in X : x # y => <<x, y>> \in R \/ <<y, x>> \in R,
           IsFiniteSet(X)
    PROVE  \E order \in [1 .. Cardinality(X) -> X] :
               Range(order) = X /\ \A i, j \in 1 .. Cardinality(X) : i < j => <<order[i], order[j]>> \in R
<1> DEFINE Listing(order, S) ==
               /\ order \in [1 .. Cardinality(S) -> S] /\ Range(order) = S
               /\ \A i, j \in 1 .. Cardinality(S) : i < j => <<order[i], order[j]>> \in R
           IsLeast(m, S) == m \in S /\ \A x \in S : x # m => <<m, x>> \in R
           L == {k \in Nat : \A S \in SUBSET X : IsFiniteSet(S) /\ Cardinality(S) = k + 1 => \E m : IsLeast(m, S)}
           T == {k \in Nat : \A S \in SUBSET X : IsFiniteSet(S) /\ Cardinality(S) = k => \E order : Listing(order, S)}
<1>1. 0 \in L
  <2> SUFFICES ASSUME NEW S \in SUBSET X, IsFiniteSet(S), Cardinality(S) = 0 + 1
               PROVE  \E m : IsLeast(m, S)
      OBVIOUS
  <2>1. Cardinality(S) = 1
    OBVIOUS
  <2>2. PICK m : S = {m}
    BY <2>1, FS_Singleton
  <2> QED BY <2>2
<1>2. ASSUME NEW k \in L
      PROVE  k + 1 \in L
  <2> SUFFICES ASSUME NEW S \in SUBSET X, IsFiniteSet(S), Cardinality(S) = (k + 1) + 1
               PROVE  \E m : IsLeast(m, S)
      OBVIOUS
  <2>1. S # {}
    BY FS_EmptySet
  <2>2. PICK x : x \in S
    BY <2>1
  <2> DEFINE rest == S \ {x}
  <2>3. IsFiniteSet(rest) /\ Cardinality(rest) = k + 1 /\ rest \in SUBSET X
    <3>1. IsFiniteSet(rest) /\ Cardinality(rest) = Cardinality(S) - 1
      BY <2>2, FS_RemoveElement
    <3> QED BY <3>1
  <2>4. PICK m : IsLeast(m, rest)
    BY <2>3
  <2>5. CASE <<m, x>> \in R
    <3>1. IsLeast(m, S)
      BY <2>4, <2>5
    <3> QED BY <3>1
  <2>6. CASE <<x, m>> \in R
    <3>1. \A y \in S : y # x => <<x, y>> \in R
      <4> SUFFICES ASSUME NEW y \in S, y # x PROVE <<x, y>> \in R
          OBVIOUS
      <4>1. y = m \/ <<m, y>> \in R
        BY <2>4
      <4> QED BY <2>2, <2>4, <2>6, <4>1
    <3>2. IsLeast(x, S)
      BY <2>2, <3>1
    <3> QED BY <3>2
  <2> QED BY <2>2, <2>4, <2>5, <2>6
<1> HIDE DEF L
<1>3. L = Nat
  BY <1>1, <1>2, AllNaturals DEF L
<1>4. 0 \in T
  <2> SUFFICES ASSUME NEW S \in SUBSET X, IsFiniteSet(S), Cardinality(S) = 0
               PROVE  \E order : Listing(order, S)
      OBVIOUS
  <2>1. S = {}
    BY FS_EmptySet
  <2>2. Listing([i \in 1 .. 0 |-> i], {})
    BY FS_EmptySet DEF Range
  <2> QED BY <2>1, <2>2
<1>5. ASSUME NEW k \in T
      PROVE  k + 1 \in T
  <2> SUFFICES ASSUME NEW S \in SUBSET X, IsFiniteSet(S), Cardinality(S) = k + 1
               PROVE  \E order : Listing(order, S)
      OBVIOUS
  <2>1. PICK least : IsLeast(least, S)
    BY <1>3 DEF L
  <2> DEFINE rest == S \ {least}
  <2>2. IsFiniteSet(rest) /\ Cardinality(rest) = k /\ rest \in SUBSET X
    <3>1. IsFiniteSet(rest) /\ Cardinality(rest) = Cardinality(S) - 1
      BY <2>1, FS_RemoveElement
    <3> QED BY <3>1
  <2>3. PICK order : Listing(order, rest)
    BY <2>2
  <2>4. order \in [1 .. k -> rest] /\ Range(order) = rest /\ \A i, j \in 1 .. k : i < j => <<order[i], order[j]>> \in R
    BY <2>2, <2>3
  <2> DEFINE longer == [i \in 1 .. k + 1 |-> IF i = 1 THEN least ELSE order[i - 1]]
  <2>5. longer \in [1 .. k + 1 -> S]
    BY <2>1, <2>4
  <2>6. \A i, j \in 1 .. k + 1 : i < j => <<longer[i], longer[j]>> \in R
    <3> SUFFICES ASSUME NEW i \in 1 .. k + 1, NEW j \in 1 .. k + 1, i < j
                 PROVE  <<longer[i], longer[j]>> \in R
        OBVIOUS
    <3>1. j - 1 \in 1 .. k /\ longer[j] = order[j - 1] /\ order[j - 1] \in rest
      BY <2>4
    <3>2. CASE i = 1
      <4>1. longer[i] = least
        BY <3>2
      <4> HIDE DEF longer
      <4> QED BY <2>1, <3>1, <4>1
    <3>3. CASE i # 1
      <4>1. i - 1 \in 1 .. k /\ longer[i] = order[i - 1] /\ i - 1 < j - 1
        BY <3>3
      <4> HIDE DEF longer
      <4> QED BY <2>4, <3>1, <4>1
    <3> QED BY <3>2, <3>3
  <2>7. Range(longer) = S
    <3>1. ASSUME NEW x \in S
          PROVE  \E i \in 1 .. k + 1 : longer[i] = x
      <4>1. CASE x = least
        BY <4>1
      <4>2. CASE x # least
        <5>1. PICK i \in 1 .. k : order[i] = x
          BY <2>4, <4>2 DEF Range
        <5>2. i + 1 \in 1 .. k + 1 /\ longer[i + 1] = x
          BY <5>1
        <5> QED BY <5>2
      <4> QED BY <4>1, <4>2
    <3> HIDE DEF longer
    <3> QED BY <2>5, <3>1 DEF Range
  <2> HIDE DEF longer
  <2>8. Listing(longer, S)
    BY <2>5, <2>6, <2>7
  <2> QED BY <2>8
<1> HIDE DEF T
<1>6. T = Nat
  BY <1>4, <1>5, AllNaturals DEF T
<1>7. PICK order : Listing(order, X)
  BY <1>6, FS_CardinalityType DEF T
<1> QED BY <1>7

\* A finite set of numbers has one sequence that lists it in increasing order.
Lists(order, set) ==
    /\ order \in [1 .. Cardinality(set) -> set] /\ Range(order) = set
    /\ \A i, j \in DOMAIN order : i < j => order[i] < order[j]

LEMMA SomeOrder ==
    ASSUME NEW set \in SUBSET Nat, IsFiniteSet(set)
    PROVE  \E order : Lists(order, set)
<1> DEFINE R == {pair \in set \X set : pair[1] < pair[2]}
<1>1. \A x, y \in set : <<x, y>> \in R <=> x < y
  OBVIOUS
<1>2. \A x \in set : x \in Nat
  OBVIOUS
<1> HIDE DEF R
<1>3. PICK order \in [1 .. Cardinality(set) -> set] :
          Range(order) = set /\ \A i, j \in 1 .. Cardinality(set) : i < j => <<order[i], order[j]>> \in R
  <2>1. \A x \in set : <<x, x>> \notin R
    BY <1>1, <1>2
  <2>2. \A x, y, z \in set : <<x, y>> \in R /\ <<y, z>> \in R => <<x, z>> \in R
    BY <1>1, <1>2
  <2>3. \A x, y \in set : x # y => <<x, y>> \in R \/ <<y, x>> \in R
    BY <1>1, <1>2
  <2> QED BY <2>1, <2>2, <2>3, SomeListing
<1>4. \A i, j \in 1 .. Cardinality(set) : i < j => order[i] < order[j]
  BY <1>1, <1>3
<1> QED BY <1>3, <1>4 DEF Lists

LEMMA SortedLists ==
    ASSUME NEW set \in SUBSET Nodes
    PROVE  /\ Sorted(set) \in Seq(Nodes) /\ Len(Sorted(set)) \in Nat
           /\ DOMAIN Sorted(set) = 1 .. Len(Sorted(set))
           /\ \A n : n \in set <=> \E i \in 1 .. Len(Sorted(set)) : Sorted(set)[i] = n
           /\ \A i, j \in 1 .. Len(Sorted(set)) : i < j => Sorted(set)[i] < Sorted(set)[j]
           /\ Range(Sorted(set)) = set
<1>1. set \in SUBSET Nat /\ IsFiniteSet(set)
  BY TreeAssumption, FS_Subset
<1>2. Cardinality(set) \in Nat
  BY <1>1, FS_CardinalityType
<1>3. Lists(Sorted(set), set)
  <2>1. \E order \in [1 .. Cardinality(set) -> set] :
           Range(order) = set /\ \A i, j \in DOMAIN order : i < j => order[i] < order[j]
    BY <1>1, SomeOrder DEF Lists
  <2> QED BY <2>1 DEF Lists, Sorted
<1> DEFINE order == Sorted(set)
           n == Cardinality(set)
<1>4. order \in [1 .. n -> set] /\ Range(order) = set /\ \A i, j \in DOMAIN order : i < j => order[i] < order[j]
  BY <1>3 DEF Lists
<1> HIDE DEF order, n
<1>5. order \in Seq(Nodes) /\ Len(order) = n /\ DOMAIN order = 1 .. n
  BY <1>2, <1>4 DEF n
<1>6. \A x : x \in set <=> \E i \in 1 .. n : order[i] = x
  BY <1>4 DEF Range
<1>7. n \in Nat
  BY <1>2 DEF n
<1>8. /\ order \in Seq(Nodes) /\ Len(order) \in Nat
      /\ DOMAIN order = 1 .. Len(order)
      /\ \A x : x \in set <=> \E i \in 1 .. Len(order) : order[i] = x
      /\ \A i, j \in 1 .. Len(order) : i < j => order[i] < order[j]
      /\ Range(order) = set
  BY <1>4, <1>5, <1>6, <1>7
<1> QED BY <1>8 DEF order

LEMMA MinOfTwo ==
    ASSUME NEW a \in Int, NEW b \in Int
    PROVE  Min({a, b}) = IF a <= b THEN a ELSE b
  BY DEF Min

LEMMA MinOfThree ==
    ASSUME NEW a \in Int, NEW b \in Int, NEW c \in Int
    PROVE  LET least == Min({a, b, c})
           IN  least \in {a, b, c} /\ least <= a /\ least <= b /\ least <= c
<1>1. \E x \in {a, b, c} : \A y \in {a, b, c} : x <= y
  OBVIOUS
<1> QED BY <1>1 DEF Min

LEMMA MinOfSome ==
    ASSUME NEW T \in SUBSET Nat, T # {}
    PROVE  Min(T) \in T /\ \A m \in T : Min(T) <= m
<1>1. \E n \in T : \A m \in T : n <= m
  BY LeastOfNaturals
<1> QED BY <1>1 DEF Min

-------------------------------------------------------------------------------
(* The tree and its history *)

AllStates == UNION {NodeStates(n) : n \in Nodes}

TreeInv ==
    /\ tree \in [Nodes -> AllStates] /\ seen \in [Nodes -> SUBSET AllStates]
    /\ changes \in 0 .. MaxChanges
    /\ \A n \in Nodes : /\ tree[n] \in seen[n] /\ seen[n] \subseteq NodeStates(n)
                        /\ IsFiniteSet(seen[n])

Was(n) == \E s \in seen[n] : s # Absent

\* What a request may rely on while others change the tree.
Grows == \A n \in Nodes : seen[n] # {} /\ seen[n] \subseteq seen'[n]

LEMMA InitTreeInv == Init => TreeInv
<1> SUFFICES ASSUME Init PROVE TreeInv
    OBVIOUS
<1>1. tree \in [Nodes -> AllStates] /\ \A n \in Nodes : tree[n] \in NodeStates(n)
  BY TreesAssumption DEF Init, AllStates
<1>2. \A n \in Nodes : IsFiniteSet({tree[n]})
  BY FS_Singleton
<1>3. changes \in 0 .. MaxChanges
  BY LimitsAssumption DEF Init
<1> QED BY <1>1, <1>2, <1>3 DEF Init, TreeInv

LEMMA AccessKeepsTree ==
    ASSUME TreeInv, AccessWorkspace
    PROVE  TreeInv'
<1>1. \A n \in Nodes : IsFiniteSet({tree[n]})
  BY FS_Singleton
<1>2. \A n \in Nodes : tree[n] \in NodeStates(n)
  BY DEF TreeInv
<1>3. seen' \in [Nodes -> SUBSET AllStates]
  BY DEF TreeInv, AccessWorkspace
<1>4. \A n \in Nodes : seen'[n] = {tree[n]}
  BY DEF AccessWorkspace
<1> QED BY <1>1, <1>2, <1>3, <1>4 DEF TreeInv, AccessWorkspace

LEMMA ChangeKeepsTree ==
    ASSUME TreeInv, NEW n \in Nodes, ChangeTree(n)
    PROVE  TreeInv' /\ Grows
<1>1. PICK s \in NodeStates(n) : /\ tree' = [tree EXCEPT ![n] = s]
                                 /\ seen' = [seen EXCEPT ![n] = @ \cup {s}]
  BY DEF ChangeTree
<1>2. s \in AllStates
  BY DEF AllStates
<1>3. tree' \in [Nodes -> AllStates] /\ seen' \in [Nodes -> SUBSET AllStates]
  BY <1>1, <1>2 DEF TreeInv
<1>4. changes' \in 0 .. MaxChanges
  BY LimitsAssumption DEF ChangeTree, TreeInv
<1>5. IsFiniteSet(seen[n] \cup {s})
  BY FS_AddElement DEF TreeInv
<1>6. ASSUME NEW m \in Nodes
      PROVE  /\ tree'[m] \in seen'[m] /\ seen'[m] \subseteq NodeStates(m)
             /\ IsFiniteSet(seen'[m])
  <2>1. CASE m = n
    BY <1>1, <1>5, <2>1 DEF TreeInv
  <2>2. CASE m # n
    BY <1>1, <2>2 DEF TreeInv
  <2> QED BY <2>1, <2>2
<1>7. Grows
  BY <1>1 DEF Grows, TreeInv
<1> QED BY <1>3, <1>4, <1>6, <1>7 DEF TreeInv

LEMMA SameTree ==
    ASSUME TreeInv, UNCHANGED <<tree, seen, changes>>
    PROVE  TreeInv' /\ Grows
BY DEF TreeInv, Grows

LEMMA StepKeepsTree ==
    ASSUME TreeInv, [Next]_vars
    PROVE  TreeInv' /\ (Grows \/ Request)
<1>1. CASE Request
  <2>1. ASSUME NEW top \in Directories, NEW byQuery \in BOOLEAN, NEW results \in MaxResults,
               NEW bytes \in MaxBytes, NEW fileBytes \in MaxFileBytes, NEW depth \in MaxDepths,
               NEW entries \in EntryLimits,
               SearchFrom(top, byQuery, results, bytes, fileBytes, depth, entries)
        PROVE  AccessWorkspace
    BY <2>1 DEF SearchFrom
  <2>2. ASSUME NEW top \in Places, NEW limit \in Limits, ListFrom(top, limit)
        PROVE  AccessWorkspace
    BY <2>2 DEF ListFrom
  <2>3. ASSUME NEW n \in Nodes, NEW limit \in Limits, ReadFrom(n, limit)
        PROVE  AccessWorkspace
    BY <2>3 DEF ReadFrom
  <2>4. ASSUME NEW source \in Sources, NEW edits \in EditLists, PlanPatch(source, edits)
        PROVE  AccessWorkspace
    BY <2>4 DEF PlanPatch
  <2>5. AccessWorkspace
    BY Zenon, <1>1, <2>1, <2>2, <2>3, <2>4 DEF Request
  <2> QED BY <1>1, <2>5, AccessKeepsTree
<1>2. CASE \E n \in Nodes : ChangeTree(n)
  BY <1>2, ChangeKeepsTree
<1>3. CASE ~ Request /\ ~ \E n \in Nodes : ChangeTree(n)
  <2>1. ListDirectory => UNCHANGED <<tree, seen, changes>>
    BY DEF ListDirectory
  <2>2. InspectEntry => UNCHANGED <<tree, seen, changes>>
    BY DEF InspectEntry
  <2>3. ListPage => UNCHANGED <<tree, seen, changes>>
    BY DEF ListPage
  <2>4. NextPage => UNCHANGED <<tree, seen, changes>>
    BY DEF NextPage
  <2>5. OpenToRead => UNCHANGED <<tree, seen, changes>>
    BY DEF OpenToRead
  <2>6. ReadRange => UNCHANGED <<tree, seen, changes>>
    BY DEF ReadRange
  <2>7. Enter => UNCHANGED <<tree, seen, changes>>
    BY DEF Enter
  <2>8. Visit => UNCHANGED <<tree, seen, changes>>
    BY DEF Visit
  <2>9. Descend => UNCHANGED <<tree, seen, changes>>
    BY DEF Descend
  <2>10. OpenSearched => UNCHANGED <<tree, seen, changes>>
    BY DEF OpenSearched
  <2>11. ReadMatches => UNCHANGED <<tree, seen, changes>>
    BY DEF ReadMatches
  <2>12. Return => UNCHANGED <<tree, seen, changes>>
    BY DEF Return
  <2>13. SearchComplete => UNCHANGED <<tree, seen, changes>>
    BY DEF SearchComplete
  <2>14. UNCHANGED <<tree, seen, changes>>
    BY <1>3, <2>1, <2>2, <2>3, <2>4, <2>5, <2>6, <2>7, <2>8, <2>9, <2>10, <2>11, <2>12, <2>13 DEF Next, vars
  <2> QED BY <2>14, SameTree
<1> QED BY <1>1, <1>2, <1>3

LEMMA ThereWas ==
    ASSUME TreeInv, NEW n \in Nodes
    PROVE  /\ There(n) <=> tree[n] # Absent
           /\ There(n) => Was(n)
           /\ Throughout(n) => There(n)
BY TreeAssumption DEF TreeInv, There, Was, Throughout

LEMMA GrowsFacts ==
    ASSUME Grows, NEW n \in Nodes
    PROVE  /\ Was(n) => Was(n)'
           /\ Throughout(n)' => Throughout(n)
           /\ \A x : seen'[n] = {x} => seen[n] = {x}
BY DEF Grows, Was, Throughout

\* An entry that stayed as it was has been one thing.
LEMMA SteadyIsOne ==
    ASSUME TreeInv, NEW n \in Nodes, Steady(n)
    PROVE  /\ seen[n] = {tree[n]}
           /\ (CHOOSE s \in seen[n] : TRUE) = tree[n]
<1>1. PICK x : seen[n] = {x}
  BY FS_Singleton DEF TreeInv, Steady
<1>2. seen[n] = {tree[n]}
  BY <1>1 DEF TreeInv
<1> QED BY <1>2

-------------------------------------------------------------------------------
(* list() *)

ListRecord == [stage : ListStages, top : Places, limit : Nat, after : {0} \cup Nodes,
               toInspect : SUBSET Nodes, listed : SUBSET Nodes, pages : Seq(Nodes)]

\* What the pages so far leave out comes behind the cursor.
CursorInv ==
    /\ \A i \in DOMAIN list.pages : list.pages[i] <= list.after
    /\ \A n \in Children(Resolved(list.top)) : Throughout(n) /\ n <= list.after => n \in Range(list.pages)

\* What readdir() has named: all that stays, and nothing that never was.
InspectInv ==
    /\ \A n \in list.toInspect \cup list.listed : Was(n)
    /\ \A n \in Children(Resolved(list.top)) : Throughout(n) => n \in list.toInspect \cup list.listed

PagesInv ==
    /\ \A i \in DOMAIN list.pages : Was(list.pages[i])
    /\ \A i, j \in DOMAIN list.pages : i < j => list.pages[i] < list.pages[j]

ListInv ==
    /\ list \in ListRecord
    /\ list.stage = "none" => list.pages = <<>>
    /\ list.stage # "none" => list.limit > 0
    /\ PagesInv
    /\ list.stage \in {"request", "inspect", "page", "failed"} => CursorInv
    /\ list.stage = "inspect" => InspectInv
    /\ list.stage = "complete" =>
          \A n \in Children(Resolved(list.top)) : Throughout(n) => n \in Range(list.pages)

LEMMA NodesAreNatural == Nodes \subseteq Nat /\ Root \notin Nodes /\ 0 \notin Nodes
BY TreeAssumption DEF Root

LEMMA DirectoriesArePlaces == Directories \subseteq Places /\ Root \in Directories
BY DEF Directories, Places

LEMMA InitListInv == Init => ListInv
BY DirectoriesArePlaces DEF Init, NoList, ListInv, ListRecord, ListStages, PagesInv

LEMMA ListKept ==
    ASSUME ListInv, UNCHANGED list, Grows \/ list.stage = "none"
    PROVE  ListInv'
<1>1. CASE list.stage = "none"
  BY <1>1 DEF ListInv, PagesInv
<1>2. CASE Grows
  <2>1. PagesInv'
    <3>1. \A i \in DOMAIN list.pages : list.pages[i] \in Nodes
      BY DEF ListInv, ListRecord
    <3> QED BY <1>2, <3>1, GrowsFacts DEF ListInv, PagesInv
  <2>2. CursorInv => CursorInv'
    BY <1>2, GrowsFacts DEF CursorInv, Children
  <2>3. list.toInspect \in SUBSET Nodes /\ list.listed \in SUBSET Nodes
    BY DEF ListInv, ListRecord
  <2>4. InspectInv => InspectInv'
    BY <1>2, <2>3, GrowsFacts DEF InspectInv, Children
  <2>5. \A n \in Children(Resolved(list.top)) : Throughout(n)' => Throughout(n)
    BY <1>2, GrowsFacts DEF Children
  <2> QED BY <2>1, <2>2, <2>4, <2>5 DEF ListInv
<1> QED BY <1>1, <1>2

LEMMA ListFromKeeps ==
    ASSUME TreeInv, NEW top \in Places, NEW limit \in Limits, ListFrom(top, limit)
    PROVE  ListInv'
<1>1. list' = [stage |-> "request", top |-> top, limit |-> limit, after |-> 0,
               toInspect |-> {}, listed |-> {}, pages |-> <<>>]
  BY DEF ListFrom, NoList
<1>2. limit \in Nat /\ limit > 0
  BY LimitsAssumption
<1>3. list' \in ListRecord
  BY <1>1, <1>2 DEF ListRecord, ListStages
<1>4. CursorInv'
  <2>1. \A n \in Nodes : ~ (n <= 0)
    BY NodesAreNatural
  <2> QED BY <1>1, <2>1 DEF CursorInv, Children
<1>5. PagesInv'
  BY <1>1 DEF PagesInv
<1> QED BY <1>1, <1>2, <1>3, <1>4, <1>5 DEF ListInv

LEMMA ListDirectoryKeeps ==
    ASSUME TreeInv, ListInv, ListDirectory
    PROVE  ListInv'
<1>1. UNCHANGED <<tree, seen>> /\ list.stage = "request"
  BY DEF ListDirectory
<1>2. PagesInv' /\ CursorInv'
  <2>1. list'.pages = list.pages /\ list'.after = list.after /\ list'.top = list.top
    BY DEF ListDirectory, ListInv, ListRecord
  <2> QED BY <1>1, <2>1 DEF ListInv, PagesInv, CursorInv, Was, Throughout
<1> DEFINE found == Resolves(list.top) /\ Resolved(list.top) \in Directories /\ Opens(Resolved(list.top))
<1>3. CASE ~ found
  <2>1. list' = [list EXCEPT !.stage = "failed"]
    BY <1>3 DEF ListDirectory
  <2>2. list' \in ListRecord /\ list'.stage = "failed" /\ list'.limit = list.limit
    BY <2>1 DEF ListInv, ListRecord, ListStages
  <2> QED BY <1>1, <1>2, <2>2 DEF ListInv
<1>4. CASE found
  <2> DEFINE names == {n \in Children(Resolved(list.top)) : There(n)}
  <2>1. list' = [list EXCEPT !.stage = "inspect", !.toInspect = names, !.listed = {}]
    BY <1>4 DEF ListDirectory
  <2>2. names \in SUBSET Nodes
    BY DEF Children
  <2> HIDE DEF names
  <2>3. /\ list' \in ListRecord /\ list'.stage = "inspect" /\ list'.limit = list.limit
        /\ list'.toInspect = names /\ list'.listed = {} /\ list'.top = list.top
    BY <2>1, <2>2 DEF ListInv, ListRecord, ListStages
  <2>4. InspectInv'
    <3>1. \A n \in names : Was(n)
      BY <2>2, ThereWas DEF names
    <3>2. \A n \in Children(Resolved(list.top)) : Throughout(n) => n \in names
      BY ThereWas DEF names, Children
    <3> QED BY <1>1, <2>3, <3>1, <3>2 DEF InspectInv, Was, Throughout
  <2> QED BY <1>1, <1>2, <2>3, <2>4 DEF ListInv
<1> QED BY <1>3, <1>4

LEMMA InspectEntryKeeps ==
    ASSUME TreeInv, ListInv, InspectEntry
    PROVE  ListInv'
<1>1. UNCHANGED <<tree, seen>> /\ list.stage = "inspect"
  BY DEF InspectEntry
<1>2. PICK n \in list.toInspect :
         list' = IF Kind[n] = "symlink" \/ There(n)
                 THEN [list EXCEPT !.toInspect = @ \ {n}, !.listed = @ \cup {n}]
                 ELSE [list EXCEPT !.stage = "failed"]
  BY Zenon DEF InspectEntry
<1>3. PagesInv' /\ CursorInv'
  <2>1. list'.pages = list.pages /\ list'.after = list.after /\ list'.top = list.top
    BY <1>2 DEF ListInv, ListRecord
  <2>2. PagesInv /\ CursorInv
    BY <1>1 DEF ListInv
  <2> QED BY <1>1, <2>1, <2>2 DEF PagesInv, CursorInv, Was, Throughout
<1>4. CASE Kind[n] = "symlink" \/ There(n)
  <2>1. list' = [list EXCEPT !.toInspect = @ \ {n}, !.listed = @ \cup {n}]
    BY <1>2, <1>4
  <2>2. /\ list' \in ListRecord /\ list'.stage = "inspect" /\ list'.limit = list.limit
        /\ list'.top = list.top
        /\ list'.toInspect \cup list'.listed = list.toInspect \cup list.listed
    BY <1>1, <2>1 DEF ListInv, ListRecord
  <2>3. InspectInv'
    BY <1>1, <2>2 DEF ListInv, InspectInv, Was, Throughout
  <2> QED BY <1>1, <1>3, <2>2, <2>3 DEF ListInv
<1>5. CASE ~ (Kind[n] = "symlink" \/ There(n))
  <2>1. list' = [list EXCEPT !.stage = "failed"]
    BY <1>2, <1>5
  <2>2. list' \in ListRecord /\ list'.stage = "failed" /\ list'.limit = list.limit
    BY <2>1 DEF ListInv, ListRecord, ListStages
  <2> QED BY <1>1, <1>3, <2>2 DEF ListInv
<1> QED BY <1>4, <1>5

LEMMA NextPageKeeps ==
    ASSUME ListInv, NextPage
    PROVE  ListInv'
<1>1. UNCHANGED <<tree, seen>> /\ list.stage \in {"page", "failed"}
  BY DEF NextPage
<1>2. /\ list' \in ListRecord /\ list'.stage = "request" /\ list'.limit = list.limit
      /\ list'.pages = list.pages /\ list'.after = list.after /\ list'.top = list.top
  BY DEF NextPage, ListInv, ListRecord, ListStages
<1>3. PagesInv' /\ CursorInv'
  BY <1>1, <1>2 DEF ListInv, PagesInv, CursorInv, Was, Throughout
<1> QED BY <1>1, <1>2, <1>3 DEF ListInv

\* The cursor separates the entries of the pages before from the others.
LEMMA PageStartSeparates ==
    ASSUME NEW entries \in Seq(Nodes), NEW after \in Nat, after = list.after,
           \A i, j \in 1 .. Len(entries) : i < j => entries[i] < entries[j]
    PROVE  /\ PageStart(entries) \in 0 .. Len(entries)
           /\ \A i \in 1 .. Len(entries) : i <= PageStart(entries) <=> entries[i] <= after
<1> DEFINE behind == {i \in DOMAIN entries : entries[i] > after}
           start == PageStart(entries)
<1>1. start = IF behind = {} THEN Len(entries) ELSE Min(behind) - 1
  BY DEF PageStart
<1>2. \A i \in 1 .. Len(entries) : entries[i] \in Nat
  <2>1. \A i \in 1 .. Len(entries) : entries[i] \in Nodes
    OBVIOUS
  <2> QED BY <2>1, NodesAreNatural
<1>3. behind = {i \in 1 .. Len(entries) : entries[i] > after} /\ behind \in SUBSET Nat
  OBVIOUS
<1> HIDE DEF behind, start
<1>4. CASE behind = {}
  BY <1>1, <1>2, <1>3, <1>4 DEF start
<1>5. CASE behind # {}
  <2>1. Min(behind) \in behind /\ \A m \in behind : Min(behind) <= m
    BY <1>3, <1>5, MinOfSome
  <2> DEFINE first == Min(behind)
  <2>2. start = first - 1
    BY <1>1, <1>5
  <2> HIDE DEF first
  <2>3. first \in 1 .. Len(entries) /\ entries[first] > after /\ \A m \in 1 .. Len(entries) : entries[m] > after => first <= m
    BY <1>3, <2>1 DEF first
  <2>4. ASSUME NEW i \in 1 .. Len(entries), i > first
        PROVE  entries[i] > after
    BY <1>2, <2>3, <2>4
  <2> QED BY <1>2, <2>2, <2>3, <2>4 DEF start
<1> QED BY <1>4, <1>5

LEMMA ListPageKeeps ==
    ASSUME TreeInv, ListInv, ListPage
    PROVE  ListInv'
<1> DEFINE entries == Sorted(list.listed)
           size == Len(entries)
           start == PageStart(entries)
           end == Min({start + list.limit, size})
           page == SubSeq(entries, start + 1, end)
           pages == list.pages \o page
           hasMore == start + Len(page) < size
           more == hasMore /\ page # <<>>
<1>1. /\ UNCHANGED <<tree, seen>> /\ list.stage = "inspect" /\ list.toInspect = {}
      /\ list.limit \in Nat /\ list.limit > 0 /\ list.listed \in SUBSET Nodes
      /\ list.pages \in Seq(Nodes) /\ list.after \in Nat /\ list.top \in Places
      /\ PagesInv /\ CursorInv /\ InspectInv
  BY NodesAreNatural DEF ListPage, ListInv, ListRecord
<1>2. list' = [list EXCEPT !.pages = pages, !.toInspect = {}, !.listed = {},
                  !.after = IF more THEN Last(page) ELSE 0,
                  !.stage = IF more THEN "page" ELSE "complete"]
  BY DEF ListPage
<1>3. /\ entries \in Seq(Nodes) /\ size \in Nat /\ DOMAIN entries = 1 .. size
      /\ \A n : n \in list.listed <=> \E i \in 1 .. size : entries[i] = n
      /\ \A i, j \in 1 .. size : i < j => entries[i] < entries[j]
  BY <1>1, SortedLists
<1> HIDE DEF entries
<1>e. \A i \in 1 .. size : entries[i] \in Nodes /\ entries[i] \in Nat
  <2>1. \A i \in 1 .. size : entries[i] \in Nodes
    BY <1>3
  <2> QED BY <2>1, NodesAreNatural
<1>4. /\ start \in 0 .. size
      /\ \A i \in 1 .. size : i <= start <=> entries[i] <= list.after
  BY <1>1, <1>3, PageStartSeparates
<1> HIDE DEF start
<1>5. end = IF start + list.limit <= size THEN start + list.limit ELSE size
  BY <1>1, <1>3, <1>4, MinOfTwo
<1> HIDE DEF end
<1>6. /\ start \in Nat /\ end \in Nat /\ size \in Nat /\ start <= end /\ end <= size
      /\ end = size \/ end > start
  <2>1. start \in Nat /\ size \in Nat /\ start <= size /\ list.limit \in Nat /\ list.limit > 0
    BY <1>1, <1>3, <1>4
  <2> HIDE DEF size
  <2> QED BY <1>5, <2>1
<1>7. /\ page \in Seq(Nodes) /\ Len(page) = end - start
      /\ \A i \in 1 .. end - start : page[i] = entries[start + i]
  <2>1. start + 1 \in Int /\ end \in Int /\ start + 1 >= 1 /\ end <= size /\ end - (start + 1) + 1 = end - start
    BY <1>6
  <2>2. \A i \in start + 1 .. end : entries[i] \in Nodes
    BY <1>6, <1>e
  <2>3. /\ page \in Seq(Nodes)
        /\ Len(page) = IF start + 1 <= end THEN end - (start + 1) + 1 ELSE 0
        /\ \A i \in 1 .. end - (start + 1) + 1 : page[i] = entries[start + 1 + i - 1]
    BY <2>1, <2>2, SubSeqProperties
  <2> HIDE DEF page, size
  <2>4. \A i \in 1 .. end - start : start + 1 + i - 1 = start + i
    BY <1>6
  <2> QED BY <1>6, <2>1, <2>3, <2>4
<1> HIDE DEF page
<1>8. /\ more <=> end < size
      /\ more => page # <<>> /\ Last(page) = entries[end] /\ end \in 1 .. size /\ end > start
  <2>1. hasMore <=> end < size
    <3>1. start + Len(page) = end
      BY <1>6, <1>7
    <3> QED BY <3>1
  <2>2. page = <<>> <=> end = start
    BY <1>6, <1>7
  <2>3. page # <<>> => Last(page) = page[end - start] /\ page[end - start] = entries[end]
    <3> SUFFICES ASSUME page # <<>> PROVE Last(page) = page[end - start] /\ page[end - start] = entries[end]
        OBVIOUS
    <3>1. end - start \in 1 .. end - start /\ start + (end - start) = end
      BY <1>6, <2>2
    <3>2. page[end - start] = entries[start + (end - start)]
      BY <1>7, <3>1
    <3> QED BY <1>7, <3>1, <3>2 DEF Last
  <2>4. end < size => end \in 1 .. size /\ end > start
    BY <1>6
  <2> QED BY <1>6, <2>1, <2>2, <2>3, <2>4
<1> HIDE DEF more
<1> DEFINE before == Len(list.pages)
<1>9. /\ pages \in Seq(Nodes) /\ DOMAIN pages = 1 .. before + (end - start) /\ before \in Nat
      /\ \A i \in 1 .. before : pages[i] = list.pages[i]
      /\ \A i \in 1 .. end - start : pages[before + i] = entries[start + i]
  <2>1. /\ pages \in Seq(Nodes) /\ Len(pages) = Len(list.pages) + Len(page)
        /\ \A i \in 1 .. Len(list.pages) + Len(page) : pages[i] =
              IF i <= Len(list.pages) THEN list.pages[i] ELSE page[i - Len(list.pages)]
    <3>1. list.pages \in Seq(Nodes) /\ page \in Seq(Nodes)
      BY <1>1, <1>7
    <3> QED BY <3>1, ConcatProperties
  <2>2. before \in Nat /\ end - start \in Nat
    BY <1>1, <1>6
  <2> HIDE DEF pages, before, size
  <2>3. \A i \in 1 .. before : pages[i] = list.pages[i]
    BY <1>7, <2>1, <2>2 DEF before
  <2>4. ASSUME NEW i \in 1 .. end - start
        PROVE  pages[before + i] = entries[start + i]
    <3>1. before + i \in 1 .. before + (end - start) /\ ~ (before + i <= before) /\ before + i - before = i
      BY <2>2
    <3>2. pages[before + i] = page[i]
      BY <1>7, <2>1, <3>1 DEF before
    <3> QED BY <1>7, <3>2
  <2> QED BY <1>7, <2>1, <2>2, <2>3, <2>4 DEF before
<1> HIDE DEF size, pages
<1>n. \A i \in DOMAIN pages : pages[i] \in Nat
  <2>1. \A i \in DOMAIN pages : pages[i] \in Nodes
    <3>1. pages \in Seq(Nodes)
      BY <1>9
    <3> QED BY <3>1
  <2> QED BY <2>1, NodesAreNatural
<1>10. /\ list' \in ListRecord
       /\ list'.stage = IF more THEN "page" ELSE "complete"
       /\ list'.limit = list.limit /\ list'.top = list.top /\ list'.pages = pages
       /\ list'.after = IF more THEN entries[end] ELSE 0
  <2>1. (IF more THEN Last(page) ELSE 0) \in {0} \cup Nodes
    BY <1>3, <1>8
  <2> HIDE DEF pages
  <2> QED BY <1>2, <1>8, <1>9, <2>1 DEF ListInv, ListRecord, ListStages
<1> HIDE DEF before
\* An entry of the pages is one of the pages before, or one of this page.
<1>11. ASSUME NEW i \in DOMAIN pages
       PROVE  \/ i \in 1 .. before /\ pages[i] = list.pages[i] /\ pages[i] <= list.after
              \/ \E k \in start + 1 .. end :
                    k = i - before + start /\ pages[i] = entries[k] /\ entries[k] > list.after
  <2>i. i \in Nat /\ i >= 1 /\ i <= before + (end - start)
    BY <1>6, <1>9
  <2>1. CASE i <= before
    <3>1. i \in 1 .. before
      BY <1>9, <2>i, <2>1
    <3> QED BY <1>1, <1>9, <3>1 DEF CursorInv, before
  <2>2. CASE i > before
    <3> DEFINE k == i - before + start
    <3>1. i - before \in 1 .. end - start /\ k \in start + 1 .. end /\ k \in 1 .. size /\ ~ (k <= start)
      BY <1>6, <1>9, <2>i, <2>2
    <3>2. pages[i] = entries[k]
      <4>1. pages[before + (i - before)] = entries[start + (i - before)]
        BY <1>9, <3>1
      <4>2. before + (i - before) = i /\ start + (i - before) = k
        BY <1>4, <1>9
      <4> QED BY <4>1, <4>2
    <3>3. entries[k] \in Nat
      BY <1>e, <3>1
    <3>4. entries[k] > list.after
      BY <1>1, <1>4, <3>1, <3>3
    <3> QED BY <3>1, <3>2, <3>4
  <2> QED BY <1>9, <2>i, <2>1, <2>2
<1>12. \A n \in Children(Resolved(list.top)) : Throughout(n) =>
          \E i \in 1 .. size : entries[i] = n /\ (i <= end => n \in Range(pages))
  <2> SUFFICES ASSUME NEW n \in Children(Resolved(list.top)), Throughout(n)
               PROVE  \E i \in 1 .. size : entries[i] = n /\ (i <= end => n \in Range(pages))
      OBVIOUS
  <2>1. PICK i \in 1 .. size : entries[i] = n
    BY <1>1, <1>3 DEF InspectInv
  <2>2. CASE i <= start
    <3>1. n \in Range(list.pages)
      BY <1>1, <1>4, <2>1, <2>2 DEF CursorInv
    <3>2. PICK j \in DOMAIN list.pages : list.pages[j] = n
      BY <3>1 DEF Range
    <3>3. j \in 1 .. before /\ j \in DOMAIN pages
      <4>1. j \in 1 .. before
        BY <1>1, <3>2 DEF before
      <4> QED BY <1>6, <1>9, <4>1
    <3> QED BY <1>9, <2>1, <3>2, <3>3 DEF Range
  <2>3. CASE i > start /\ i <= end
    <3>1. i - start \in 1 .. end - start /\ before + (i - start) \in DOMAIN pages
      BY <1>4, <1>6, <1>9, <2>3
    <3>2. pages[before + (i - start)] = entries[start + (i - start)] /\ start + (i - start) = i
      BY <1>4, <1>9, <3>1
    <3> QED BY <2>1, <3>1, <3>2 DEF Range
  <2>4. CASE i > end
    BY <1>6, <2>1, <2>4
  <2> QED BY <1>4, <1>6, <2>1, <2>2, <2>3, <2>4
<1>13. PagesInv'
  <2>1. \A i \in DOMAIN pages : Was(pages[i])
    <3>1. \A k \in 1 .. size : Was(entries[k])
      BY <1>1, <1>3 DEF InspectInv
    <3>2. \A k \in start + 1 .. end : k \in 1 .. size
      BY <1>6
    <3>3. \A i \in 1 .. before : Was(list.pages[i])
      BY <1>1 DEF PagesInv, before
    <3> QED BY <1>11, <3>1, <3>2, <3>3
  <2>2. ASSUME NEW i \in DOMAIN pages, NEW j \in DOMAIN pages, i < j
        PROVE  pages[i] < pages[j]
    <3>1. pages[i] \in Nat /\ pages[j] \in Nat
      BY <1>n
    <3>i. i \in Nat /\ j \in Nat /\ i >= 1
      BY <1>6, <1>9
    <3>2. CASE j \in 1 .. before
      <4>1. i \in 1 .. before
        BY <1>9, <2>2, <3>2, <3>i
      <4>2. list.pages[i] < list.pages[j]
        BY <1>1, <2>2, <3>2, <4>1 DEF PagesInv, before
      <4> QED BY <1>9, <3>2, <4>1, <4>2
    <3>3. CASE ~ j \in 1 .. before
      <4>1. PICK k \in start + 1 .. end : k = j - before + start /\ pages[j] = entries[k] /\ entries[k] > list.after
        BY <1>11, <3>3
      <4>2. CASE i \in 1 .. before
        <5>1. pages[i] <= list.after
          BY <1>1, <1>9, <4>2 DEF CursorInv, before
        <5>2. pages[j] > list.after
          BY <4>1
        <5> QED BY <1>1, <3>1, <5>1, <5>2
      <4>3. CASE ~ i \in 1 .. before
        <5>1. PICK l \in start + 1 .. end : l = i - before + start /\ pages[i] = entries[l]
          BY <1>11, <4>3
        <5>2. l < k /\ l \in 1 .. size /\ k \in 1 .. size
          <6>1. before \in Nat /\ start \in Nat /\ end \in Nat /\ size \in Nat /\ end <= size
            BY <1>6, <1>9
          <6> QED BY <2>2, <3>i, <4>1, <5>1, <6>1
        <5>3. entries[l] < entries[k]
          BY <1>3, <5>2
        <5> QED BY <4>1, <5>1, <5>3
      <4> QED BY <4>2, <4>3
    <3> QED BY <3>2, <3>3
  <2> QED BY <1>1, <1>10, <2>1, <2>2 DEF PagesInv, Was
<1>14. CASE more
  <2>1. end \in 1 .. size /\ entries[end] \in Nat /\ entries[end] >= list.after
    <3>1. end \in 1 .. size /\ end > start /\ entries[end] \in Nat
      BY <1>8, <1>14, <1>e
    <3>2. ~ (entries[end] <= list.after)
      BY <1>4, <1>6, <3>1
    <3> QED BY <1>1, <3>1, <3>2
  <2>2. \A i \in DOMAIN pages : pages[i] <= entries[end]
    <3> SUFFICES ASSUME NEW i \in DOMAIN pages
                 PROVE  pages[i] <= entries[end]
        OBVIOUS
    <3>1. pages[i] \in Nat
      BY <1>n
    <3>2. CASE pages[i] <= list.after
      BY <1>1, <2>1, <3>1, <3>2
    <3>3. CASE \E k \in start + 1 .. end : pages[i] = entries[k]
      <4>1. PICK k \in start + 1 .. end : pages[i] = entries[k]
        BY <3>3
      <4>2. k \in 1 .. size /\ (k = end \/ k < end)
        BY <1>4, <1>6
      <4> QED BY <1>3, <2>1, <3>1, <4>1, <4>2
    <3> QED BY <1>11, <3>2, <3>3
  <2>3. ASSUME NEW n \in Children(Resolved(list.top)), Throughout(n), n <= entries[end]
        PROVE  n \in Range(pages)
    <3>1. PICK i \in 1 .. size : entries[i] = n /\ (i <= end => n \in Range(pages))
      BY <1>12, <2>3
    <3>2. i <= end
      <4>1. n \in Nat
        BY NodesAreNatural DEF Children
      <4> QED BY <1>3, <2>1, <2>3, <3>1, <4>1
    <3> QED BY <3>1, <3>2
  <2>4. CursorInv'
    BY <1>1, <1>10, <1>14, <2>2, <2>3 DEF CursorInv, Throughout
  <2> QED BY <1>1, <1>10, <1>13, <1>14, <2>4 DEF ListInv
<1>15. CASE ~ more
  <2>1. end = size
    BY <1>6, <1>8, <1>15
  <2>2. \A n \in Children(Resolved(list.top)) : Throughout(n) => n \in Range(pages)
    BY <1>6, <1>12, <2>1
  <2> QED BY <1>1, <1>10, <1>13, <1>15, <2>2 DEF ListInv, Throughout
<1> QED BY <1>14, <1>15

-------------------------------------------------------------------------------
(* read() *)

ReadRecord == [stage : ReadStages, file : Places, maxBytes : Nat, offset : Nat,
               opened : {Absent} \cup FileStates, starts : SUBSET Nat,
               texts : Seq(ByteKinds), binary : BOOLEAN]

\* A text is the data up to `last' in its order, but for some of the bytes.
IsUpTo(text, data, last, lost) ==
    \E place \in [DOMAIN text -> 1 .. last] :
        /\ \A i, j \in DOMAIN text : i < j => place[i] < place[j]
        /\ \A i \in DOMAIN text : text[i] = data[place[i]]
        /\ (1 .. last) \ Range(place) \subseteq lost

\* What the client has got of a file that was nothing but x.
RangesInv(x) ==
    /\ read.offset <= Len(x.bytes)
    /\ ~ read.binary => IsUpTo(read.texts, x.bytes, read.offset, MarksAt(x.bytes, read.starts))
    /\ read.binary => \E i \in DOMAIN x.bytes : x.bytes[i] \notin {"ascii", "hit"}
    /\ read.stage = "complete" => read.offset = Len(x.bytes)

\* A file of which the client has all, or one that is open.
IsFile(n) == n \in Nodes /\ \E s \in FileStates : s \in seen[n]

ReadInv ==
    /\ read \in ReadRecord
    /\ read.stage # "none" =>
          /\ read.file \in Nodes /\ read.maxBytes > 0
          /\ Resolved(read.file) \in Nodes =>
                \A x \in FileStates : seen[Resolved(read.file)] = {x} => RangesInv(x)
    /\ read.stage = "opened" => /\ IsFile(Resolved(read.file))
                                /\ read.opened \in FileStates /\ read.opened \in seen[Resolved(read.file)]
    /\ read.stage = "complete" => IsFile(Resolved(read.file))

LEMMA BytesOfFiles ==
    ASSUME NEW x \in FileStates
    PROVE  /\ x.bytes \in Seq(ByteKinds) /\ Len(x.bytes) \in Nat /\ x.opens \in BOOLEAN
           /\ DOMAIN x.bytes = 1 .. Len(x.bytes) /\ x # Absent
<1>1. x \in [class : {"file"}, opens : BOOLEAN, bytes : Seq(ByteKinds)]
  BY FilesAssumption
<1>2. x.bytes \in Seq(ByteKinds) /\ x.opens \in BOOLEAN /\ x.class = "file"
  BY <1>1
<1>3. Len(x.bytes) \in Nat /\ DOMAIN x.bytes = 1 .. Len(x.bytes)
  BY <1>2
<1>4. x # Absent
  BY <1>2 DEF Absent
<1> QED BY <1>2, <1>3, <1>4

\* What stands at the path of a file is one of the states of files.
LEMMA FileIsThere ==
    ASSUME TreeInv, NEW n \in Nodes, Kind[n] = "file", There(n)
    PROVE  tree[n] \in FileStates /\ tree[n] \in seen[n]
BY ThereWas DEF TreeInv, NodeStates

LEMMA InitReadInv == Init => ReadInv
BY DEF Init, NoRead, ReadInv, ReadRecord, ReadStages, Places, Absent

LEMMA ReadKept ==
    ASSUME ReadInv, UNCHANGED read, Grows \/ read.stage = "none"
    PROVE  ReadInv'
<1>1. CASE read.stage = "none"
  BY <1>1 DEF ReadInv
<1>2. CASE Grows /\ read.stage # "none"
  <2> DEFINE file == Resolved(read.file)
  <2>1. file \in Nodes => /\ seen[file] \subseteq seen'[file]
                          /\ \A x : seen'[file] = {x} => seen[file] = {x}
    BY <1>2, GrowsFacts DEF Grows
  <2>2. \A x : RangesInv(x) => RangesInv(x)'
    BY DEF RangesInv
  <2>3. IsFile(file) => IsFile(file)'
    BY <2>1 DEF IsFile
  <2>4. read' = read
    OBVIOUS
  <2> QED BY <1>2, <2>1, <2>2, <2>3, <2>4 DEF ReadInv, IsFile
<1> QED BY <1>1, <1>2

LEMMA ReadFromKeeps ==
    ASSUME NEW n \in Nodes, NEW limit \in Limits, ReadFrom(n, limit)
    PROVE  ReadInv'
<1>1. read' = [stage |-> "request", file |-> n, maxBytes |-> limit, offset |-> 0,
               opened |-> Absent, starts |-> {}, texts |-> <<>>, binary |-> FALSE]
  BY DEF ReadFrom, NoRead
<1>2. limit \in Nat /\ limit > 0
  BY LimitsAssumption
<1>3. read' \in ReadRecord
  BY <1>1, <1>2 DEF ReadRecord, ReadStages, Places
<1>4. ASSUME NEW x \in FileStates
      PROVE  RangesInv(x)'
  <2>1. 0 <= Len(x.bytes)
    BY BytesOfFiles
  <2>2. IsUpTo(<<>>, x.bytes, 0, MarksAt(x.bytes, {}))
    <3>1. [i \in {} |-> i] \in [DOMAIN <<>> -> 1 .. 0] /\ DOMAIN <<>> = {} /\ 1 .. 0 = {}
      OBVIOUS
    <3> QED BY <3>1 DEF IsUpTo
  <2> QED BY <1>1, <2>1, <2>2 DEF RangesInv
<1> QED BY <1>1, <1>2, <1>3, <1>4 DEF ReadInv

LEMMA OpenToReadKeeps ==
    ASSUME TreeInv, ReadInv, OpenToRead
    PROVE  ReadInv'
<1> DEFINE file == Resolved(read.file)
           opens == Resolves(read.file) /\ file \notin Directories /\ Opens(file)
<1>1. /\ UNCHANGED <<tree, seen>> /\ read.stage = "request" /\ read.file \in Nodes
      /\ read' = IF opens THEN [read EXCEPT !.stage = "opened", !.opened = tree[file]]
                 ELSE [read EXCEPT !.stage = "failed"]
  BY DEF OpenToRead, ReadInv
<1>2. CASE opens
  <2>1. file \in Nodes /\ Kind[file] = "file" /\ There(file)
    <3>1. file \in Places \ Links
      BY <1>1, <1>2, TreeAssumption DEF Resolved, Resolves, Places
    <3> QED BY <1>2, <3>1, TreeAssumption DEF Resolves, Places, Links, Directories
  <2>2. tree[file] \in seen[file] /\ tree[file] \in FileStates
    BY <2>1, FileIsThere
  <2>3. read' = [read EXCEPT !.stage = "opened", !.opened = tree[file]]
    BY <1>1, <1>2
  <2>4. /\ read' \in ReadRecord /\ read'.stage = "opened" /\ read'.file = read.file
        /\ read'.maxBytes = read.maxBytes /\ read'.opened = tree[file]
        /\ read'.offset = read.offset /\ read'.starts = read.starts
        /\ read'.texts = read.texts /\ read'.binary = read.binary
    BY <2>2, <2>3 DEF ReadInv, ReadRecord, ReadStages
  <2>5. \A x : RangesInv(x) => RangesInv(x)'
    BY <2>4 DEF RangesInv
  <2>6. IsFile(file) /\ Resolved(read'.file) = file
    BY <2>1, <2>2, <2>4 DEF IsFile
  <2> QED BY <1>1, <2>2, <2>4, <2>5, <2>6 DEF ReadInv, IsFile
<1>3. CASE ~ opens
  <2>1. read' = [read EXCEPT !.stage = "failed"]
    BY <1>1, <1>3
  <2>2. /\ read' \in ReadRecord /\ read'.stage = "failed" /\ read'.file = read.file
        /\ read'.maxBytes = read.maxBytes
        /\ read'.offset = read.offset /\ read'.starts = read.starts
        /\ read'.texts = read.texts /\ read'.binary = read.binary
    BY <2>1 DEF ReadInv, ReadRecord, ReadStages
  <2>3. \A x : RangesInv(x) => RangesInv(x)'
    BY <2>2 DEF RangesInv
  <2>4. Resolved(read'.file) = file
    BY <2>2
  <2> QED BY <1>1, <2>2, <2>3, <2>4 DEF ReadInv
<1> QED BY <1>2, <1>3

\* How many bytes TextDecoder leaves out at the start.
Skipped(data) == IF BeginsWithMark(data) THEN 2 ELSE 0

LEMMA Decoded ==
    ASSUME NEW data \in Seq(ByteKinds), BeginsWithMark(data) => Len(data) >= 2
    PROVE  /\ DecodeUtf8(data) \in Seq(ByteKinds)
           /\ Len(DecodeUtf8(data)) + Skipped(data) = Len(data)
           /\ \A i \in 1 .. Len(DecodeUtf8(data)) : DecodeUtf8(data)[i] = data[i + Skipped(data)]
<1> DEFINE text == DecodeUtf8(data)
<1>1. CASE BeginsWithMark(data)
  <2>1. text = SubSeq(data, 3, Len(data)) /\ Skipped(data) = 2 /\ Len(data) \in Nat /\ Len(data) >= 2
    BY <1>1 DEF DecodeUtf8, Skipped
  <2>2. \A i \in 3 .. Len(data) : data[i] \in ByteKinds
    OBVIOUS
  <2> HIDE DEF text
  <2>3. /\ text \in Seq(ByteKinds)
        /\ Len(text) = IF 3 <= Len(data) THEN Len(data) - 3 + 1 ELSE 0
        /\ \A i \in 1 .. Len(data) - 3 + 1 : text[i] = data[3 + i - 1]
    BY <2>1, <2>2, SubSeqProperties
  <2>4. Len(text) = Len(data) - 2
    <3> DEFINE len == Len(data)
    <3>1. len \in Nat /\ len >= 2 /\ Len(text) = IF 3 <= len THEN len - 3 + 1 ELSE 0
      BY <2>1, <2>3
    <3> HIDE DEF len
    <3>2. Len(text) = len - 2
      BY <3>1
    <3> QED BY <3>2 DEF len
  <2>5. \A i \in 1 .. Len(text) : text[i] = data[i + 2]
    <3> SUFFICES ASSUME NEW i \in 1 .. Len(text) PROVE text[i] = data[i + 2]
        OBVIOUS
    <3>1. i \in 1 .. Len(data) - 3 + 1 /\ 3 + i - 1 = i + 2
      BY <2>1, <2>4
    <3> QED BY <2>3, <3>1
  <2> QED BY <2>1, <2>3, <2>4, <2>5 DEF text
<1>2. CASE ~ BeginsWithMark(data)
  <2>1. text = data /\ Skipped(data) = 0
    BY <1>2 DEF DecodeUtf8, Skipped
  <2>2. \A i \in 1 .. Len(data) : i + 0 = i
    OBVIOUS
  <2> QED BY <2>1, <2>2
<1> QED BY <1>1, <1>2

LEMMA TextHoldsItsMark ==
    ASSUME NEW data \in Seq(ByteKinds), IsText(data)
    PROVE  BeginsWithMark(data) => Len(data) >= 2
BY DEF IsText, BeginsWithMark, Leads

\* A range is what the file holds from its offset up to `last'.
LEMMA RangeRead ==
    ASSUME NEW bytes \in Seq(ByteKinds), NEW offset \in Nat, NEW last \in Int, last <= Len(bytes)
    PROVE  /\ SubSeq(bytes, offset + 1, last) \in Seq(ByteKinds)
           /\ offset <= last => offset + Len(SubSeq(bytes, offset + 1, last)) = last
           /\ \A i \in DOMAIN SubSeq(bytes, offset + 1, last) :
                 /\ offset + i \in DOMAIN bytes
                 /\ SubSeq(bytes, offset + 1, last)[i] = bytes[offset + i]
<1> DEFINE data == SubSeq(bytes, offset + 1, last)
<1>1. offset + 1 \in Int /\ last \in Int /\ \A i \in offset + 1 .. last : i \in 1 .. Len(bytes) /\ bytes[i] \in ByteKinds
  OBVIOUS
<1>2. /\ data \in Seq(ByteKinds)
      /\ Len(data) = IF offset + 1 <= last THEN last - (offset + 1) + 1 ELSE 0
      /\ \A i \in 1 .. last - (offset + 1) + 1 : data[i] = bytes[offset + 1 + i - 1]
  BY <1>1, SubSeqProperties
<1> HIDE DEF data
<1>3. ASSUME NEW i \in DOMAIN data
      PROVE  offset + i \in DOMAIN bytes /\ data[i] = bytes[offset + i]
  <2>1. i \in 1 .. Len(data) /\ i \in 1 .. last - (offset + 1) + 1 /\ offset + 1 + i - 1 = offset + i
    BY <1>2
  <2>2. offset + i \in 1 .. Len(bytes)
    BY <2>1
  <2>3. data[i] = bytes[offset + 1 + i - 1]
    BY <1>2, <2>1
  <2> QED BY <2>1, <2>2, <2>3
<1>4. offset <= last => offset + Len(data) = last
  BY SMTT(30), <1>2
<1> QED BY <1>2, <1>3, <1>4 DEF data

\* What another range adds to the text.
LEMMA RangeExtends ==
    ASSUME NEW bytes \in Seq(ByteKinds), NEW offset \in Nat, NEW end \in Nat, NEW data \in Seq(ByteKinds),
           offset + Len(data) = end, end <= Len(bytes), IsText(data),
           \A i \in DOMAIN data : data[i] = bytes[offset + i],
           NEW starts \in SUBSET Nat, NEW text \in Seq(ByteKinds),
           IsUpTo(text, bytes, offset, MarksAt(bytes, starts))
    PROVE  IsUpTo(text \o DecodeUtf8(data), bytes, end, MarksAt(bytes, starts \cup {offset}))
<1> DEFINE next == DecodeUtf8(data)
           skip == Skipped(data)
           m == Len(text)
           k == Len(next)
           whole == text \o next
           lost == MarksAt(bytes, starts)
<1>1. PICK place \in [DOMAIN text -> 1 .. offset] :
          /\ \A i, j \in DOMAIN text : i < j => place[i] < place[j]
          /\ \A i \in DOMAIN text : text[i] = bytes[place[i]]
          /\ (1 .. offset) \ Range(place) \subseteq lost
  BY DEF IsUpTo
<1>2. /\ next \in Seq(ByteKinds) /\ k + skip = Len(data)
      /\ \A i \in 1 .. k : next[i] = data[i + skip]
  BY TextHoldsItsMark, Decoded
<1>3. skip \in {0, 2} /\ (skip = 2 => data # <<>> /\ data[1] = "mark")
  BY DEF Skipped, BeginsWithMark
<1>4. m \in Nat /\ k \in Nat /\ Len(data) \in Nat /\ DOMAIN text = 1 .. m
  BY <1>2
<1>5. /\ whole \in Seq(ByteKinds) /\ Len(whole) = m + k
      /\ \A i \in 1 .. m + k : whole[i] = IF i <= m THEN text[i] ELSE next[i - m]
  <2>1. \A u, v \in Seq(ByteKinds) :
           /\ u \o v \in Seq(ByteKinds) /\ Len(u \o v) = Len(u) + Len(v)
           /\ \A i \in 1 .. Len(u) + Len(v) : (u \o v)[i] = IF i <= Len(u) THEN u[i] ELSE v[i - Len(u)]
    BY ConcatProperties
  <2> QED BY <1>2, <2>1
<1> HIDE DEF next, skip, m, k, whole, lost
<1>6. \A i \in 1 .. k : next[i] = bytes[offset + skip + i] /\ i + skip \in DOMAIN data
  <2> SUFFICES ASSUME NEW i \in 1 .. k
               PROVE  next[i] = bytes[offset + skip + i] /\ i + skip \in DOMAIN data
      OBVIOUS
  <2>1. i + skip \in 1 .. Len(data)
    BY <1>2, <1>3, <1>4
  <2>2. i + skip \in DOMAIN data
    BY <2>1
  <2>3. data[i + skip] = bytes[offset + (i + skip)] /\ offset + (i + skip) = offset + skip + i
    BY <1>3, <2>2
  <2> QED BY <1>2, <2>2, <2>3
<1> DEFINE longer == [i \in 1 .. m + k |-> IF i <= m THEN place[i] ELSE offset + skip + (i - m)]
<1>7. ASSUME NEW i \in 1 .. m + k
      PROVE  /\ i <= m => /\ i \in DOMAIN text /\ longer[i] = place[i] /\ longer[i] \in 1 .. offset
             /\ i > m => /\ i - m \in 1 .. k /\ longer[i] = offset + skip + (i - m)
                         /\ longer[i] \in offset + 1 .. end
  <2>1. i <= m => i \in DOMAIN text /\ longer[i] = place[i] /\ longer[i] \in 1 .. offset
    BY <1>1, <1>4
  <2>2. ASSUME i > m
        PROVE  /\ i - m \in 1 .. k /\ longer[i] = offset + skip + (i - m)
               /\ longer[i] \in offset + 1 .. end
    <3>1. i - m \in 1 .. k /\ longer[i] = offset + skip + (i - m)
      BY <1>4, <2>2
    <3> HIDE DEF longer
    <3> QED BY <1>2, <1>3, <1>4, <3>1
  <2> QED BY <2>1, <2>2
<1>8. ASSUME NEW j \in 1 .. end, \A i \in 1 .. m + k : longer[i] # j
      PROVE  j \in MarksAt(bytes, starts \cup {offset})
  <2>1. CASE j <= offset
    <3>1. j \notin Range(place)
      <4> SUFFICES ASSUME NEW i \in DOMAIN text, place[i] = j PROVE FALSE
          BY <1>1 DEF Range
      <4>1. i \in 1 .. m + k /\ i <= m
        BY <1>4
      <4> HIDE DEF longer
      <4> QED BY <1>7, <1>8, <4>1
    <3>2. j \in lost
      BY SMTT(30), <1>1, <2>1, <3>1
    <3> QED BY <3>2 DEF lost, MarksAt
  <2>2. CASE j > offset
    <3>1. j <= offset + skip
      <4> SUFFICES ASSUME j > offset + skip PROVE FALSE
          BY <1>3
      <4> DEFINE i == m + (j - offset - skip)
      <4>1. i \in 1 .. m + k /\ i > m /\ offset + skip + (i - m) = j
        BY <1>2, <1>3, <1>4
      <4> HIDE DEF longer, i
      <4> QED BY <1>7, <1>8, <4>1
    <3>2. skip = 2 /\ j \in {offset + 1, offset + 2}
      BY <1>3, <2>2, <3>1
    <3>3. 1 \in DOMAIN data /\ data[1] = "mark"
      BY <1>3, <3>2
    <3>4. bytes[offset + 1] = "mark"
      BY <3>3
    <3>5. j \in DOMAIN bytes /\ offset + 1 \in DOMAIN bytes
      BY <2>2
    <3> QED BY <3>2, <3>4, <3>5 DEF MarksAt
  <2> QED BY <2>1, <2>2
<1>9. longer \in [1 .. m + k -> 1 .. end]
  <2>1. \A i \in 1 .. m + k : longer[i] \in 1 .. end
    <3> SUFFICES ASSUME NEW i \in 1 .. m + k PROVE longer[i] \in 1 .. end
        OBVIOUS
    <3>1. longer[i] \in 1 .. offset \/ longer[i] \in offset + 1 .. end
      BY <1>4, <1>7
    <3>2. offset <= end
      BY <1>4
    <3> HIDE DEF longer
    <3> QED BY <3>1, <3>2
  <2> QED BY <2>1
<1>10. ASSUME NEW i \in 1 .. m + k, NEW j \in 1 .. m + k, i < j
       PROVE  longer[i] < longer[j]
  <2>1. CASE j <= m
    <3>1. i <= m
      BY <1>4, <1>10, <2>1
    <3> HIDE DEF longer
    <3> QED BY <1>1, <1>7, <1>10, <2>1, <3>1
  <2>2. CASE i <= m /\ j > m
    <3>1. longer[i] \in 1 .. offset /\ longer[j] \in offset + 1 .. end
      BY <1>7, <2>2
    <3> HIDE DEF longer
    <3> QED BY <3>1
  <2>3. CASE i > m
    <3>1. j > m
      BY <1>4, <1>10, <2>3
    <3>2. longer[i] = offset + skip + (i - m) /\ longer[j] = offset + skip + (j - m)
      BY <1>7, <2>3, <3>1
    <3> HIDE DEF longer
    <3> QED BY <1>3, <1>4, <1>10, <3>2
  <2> QED BY <1>4, <2>1, <2>2, <2>3
<1>11. ASSUME NEW i \in 1 .. m + k
       PROVE  whole[i] = bytes[longer[i]]
  <2>1. CASE i <= m
    BY <1>1, <1>5, <1>7, <2>1
  <2>2. CASE i > m
    <3>1. whole[i] = next[i - m] /\ i - m \in 1 .. k /\ longer[i] = offset + skip + (i - m)
      BY <1>4, <1>5, <1>7, <2>2
    <3> HIDE DEF longer
    <3> QED BY <1>6, <3>1
  <2> QED BY <1>4, <2>1, <2>2
<1> HIDE DEF longer
<1>12. DOMAIN whole = 1 .. m + k
  BY <1>4, <1>5
<1>13. (1 .. end) \ Range(longer) \subseteq MarksAt(bytes, starts \cup {offset})
  BY <1>8, <1>9 DEF Range
<1>14. IsUpTo(whole, bytes, end, MarksAt(bytes, starts \cup {offset}))
  BY <1>9, <1>10, <1>11, <1>12, <1>13 DEF IsUpTo
<1> QED BY <1>14 DEF whole, next

\* What is no text holds something else than ASCII characters.
LEMMA TextOfAscii ==
    ASSUME NEW data \in Seq(ByteKinds), ~ IsText(data)
    PROVE  \E i \in DOMAIN data : data[i] \notin {"ascii", "hit"}
BY DEF IsText, Leads

LEMMA ReadRangeKeeps ==
    ASSUME TreeInv, ReadInv, ReadRange
    PROVE  ReadInv'
<1> DEFINE file == Resolved(read.file)
<1>1. /\ UNCHANGED <<tree, seen>> /\ read.stage = "opened" /\ read.file \in Nodes
      /\ read.opened \in FileStates /\ IsFile(file) /\ read.opened \in seen[file]
      /\ read.offset \in Nat /\ read.maxBytes \in Nat /\ read.maxBytes > 0
      /\ read.texts \in Seq(ByteKinds) /\ read.binary \in BOOLEAN /\ read.starts \in SUBSET Nat
  BY DEF ReadRange, ReadInv, ReadRecord
<1> DEFINE size == Len(read.opened.bytes)
           last(held) == Min({read.offset + read.maxBytes, size, Len(held.bytes)})
           range(held) == SubSeq(held.bytes, read.offset + 1, last(held))
<1>2. PICK held \in Held(read.opened, file) : read' = AddRange(read, held)
  BY Zenon DEF ReadRange
<1> DEFINE end == last(held)
           data == range(held)
           bytes == held.bytes
<1>3. /\ held \in FileStates /\ bytes \in Seq(ByteKinds)
      /\ size \in Nat /\ Len(bytes) \in Nat /\ held \in {read.opened, tree[file]}
  BY <1>1, <1>2, BytesOfFiles DEF Held
<1>4. /\ end \in {read.offset + read.maxBytes, size, Len(bytes)}
      /\ end <= read.offset + read.maxBytes /\ end <= size /\ end <= Len(bytes)
  <2>1. read.offset + read.maxBytes \in Int /\ size \in Int /\ Len(bytes) \in Int
    BY <1>1, <1>3
  <2> HIDE DEF size
  <2> QED BY <2>1, MinOfThree
<1>5. end \in Int
  BY <1>1, <1>3, <1>4
<1>6. data = SubSeq(bytes, read.offset + 1, end)
  OBVIOUS
<1> HIDE DEF end, data, bytes
<1>7. /\ data \in Seq(ByteKinds)
      /\ read.offset <= end => read.offset + Len(data) = end
      /\ \A i \in DOMAIN data : /\ read.offset + i \in DOMAIN bytes
                                /\ data[i] = bytes[read.offset + i]
  <2>1. read.offset \in Nat /\ end \in Int /\ bytes \in Seq(ByteKinds) /\ end <= Len(bytes)
    BY <1>1, <1>3, <1>4, <1>5
  <2> DEFINE cut == SubSeq(bytes, read.offset + 1, end)
  <2>2. /\ cut \in Seq(ByteKinds)
        /\ read.offset <= end => read.offset + Len(cut) = end
        /\ \A i \in DOMAIN cut : /\ read.offset + i \in DOMAIN bytes
                                 /\ cut[i] = bytes[read.offset + i]
    BY <2>1, RangeRead
  <2> QED BY <1>6, <2>2
<1>d. DecodeUtf8(data) \in Seq(ByteKinds) \/ ~ IsText(data)
  BY <1>7, TextHoldsItsMark, Decoded
<1> DEFINE eof == Eof(read.offset, Len(data), size)
<1>8. /\ read' \in ReadRecord /\ read'.file = read.file /\ read'.maxBytes = read.maxBytes
      /\ read'.stage = IF eof THEN "complete" ELSE "request"
      /\ read'.offset = read.offset + Len(data)
      /\ read'.starts = read.starts \cup {read.offset}
      /\ read'.texts = IF IsText(data) THEN read.texts \o DecodeUtf8(data) ELSE read.texts
      /\ read'.binary = (read.binary \/ ~IsText(data))
  <2>1. read' = [read EXCEPT
                    !.stage = IF eof THEN "complete" ELSE "request",
                    !.offset = @ + Len(data), !.opened = Absent,
                    !.starts = @ \cup {read.offset},
                    !.texts = IF IsText(data) THEN @ \o DecodeUtf8(data) ELSE @,
                    !.binary = @ \/ ~IsText(data)]
    BY <1>2 DEF AddRange, data, end, bytes
  <2>2. /\ read.offset + Len(data) \in Nat
        /\ IsText(data) => read.texts \o DecodeUtf8(data) \in Seq(ByteKinds)
    BY <1>1, <1>7, <1>d
  <2>3. read.starts \cup {read.offset} \in SUBSET Nat
    BY <1>1
  <2> HIDE DEF eof
  <2> QED BY <1>1, <2>1, <2>2, <2>3 DEF ReadInv, ReadRecord, ReadStages
<1>9. ASSUME NEW x \in FileStates, seen[file] = {x}
      PROVE  RangesInv(x)'
  <2>1. held = x /\ read.opened = x /\ bytes = x.bytes
    BY <1>1, <1>2, <1>3, <1>9 DEF TreeInv, IsFile, bytes
  <2>2. RangesInv(x)
    BY <1>1, <1>9 DEF ReadInv, IsFile
  <2>3. read.offset <= end /\ end <= size /\ size = Len(x.bytes)
    <3>1. read.offset <= size /\ size \in Nat /\ size = Len(bytes) /\ size = Len(x.bytes)
      BY <1>3, <2>1, <2>2 DEF RangesInv
    <3> HIDE DEF size
    <3> QED BY <1>1, <1>4, <1>5, <3>1
  <2>4. read'.offset = end /\ read.offset + Len(data) = end /\ end \in Nat /\ end <= Len(bytes)
    BY <1>1, <1>4, <1>5, <1>7, <1>8, <2>3
  <2>5. eof <=> end = size
    <3>1. size \in Nat
      BY <1>3
    <3> HIDE DEF size
    <3> QED BY <1>5, <1>7, <2>3, <3>1 DEF Eof
  <2>6. ASSUME ~ IsText(data)
        PROVE  \E i \in DOMAIN x.bytes : x.bytes[i] \notin {"ascii", "hit"}
    <3>1. \E i \in DOMAIN data : data[i] \notin {"ascii", "hit"}
      BY <1>7, <2>6, TextOfAscii
    <3> QED BY <1>7, <2>1, <3>1
  <2> HIDE DEF eof, size
  <2>7. CASE read'.binary
    <3>1. \E i \in DOMAIN x.bytes : x.bytes[i] \notin {"ascii", "hit"}
      BY <1>8, <2>2, <2>6, <2>7 DEF RangesInv
    <3> QED BY <1>8, <2>3, <2>4, <2>5, <2>7, <3>1 DEF RangesInv
  <2>8. CASE ~ read'.binary
    <3>1. IsText(data) /\ ~ read.binary
      BY <1>8, <2>8
    <3>2. IsUpTo(read.texts, bytes, read.offset, MarksAt(bytes, read.starts))
      BY <2>1, <2>2, <3>1 DEF RangesInv
    <3>3. IsUpTo(read.texts \o DecodeUtf8(data), bytes, end, MarksAt(bytes, read.starts \cup {read.offset}))
      BY <1>1, <1>3, <1>7, <2>4, <3>1, <3>2, RangeExtends
    <3>4. IsUpTo(read'.texts, x.bytes, read'.offset, MarksAt(x.bytes, read'.starts))
      BY <1>8, <2>1, <2>4, <3>1, <3>3
    <3>5. IsUpTo(read.texts, x.bytes, read.offset, MarksAt(x.bytes, read.starts))'
      BY <3>4 DEF IsUpTo, MarksAt
    <3> QED BY <1>8, <2>3, <2>4, <2>5, <2>8, <3>5 DEF RangesInv
  <2> QED BY <2>7, <2>8
<1>10. read'.stage = "complete" \/ read'.stage = "request"
  BY <1>8
<1>11. Resolved(read'.file) = file /\ IsFile(file)'
  BY <1>1, <1>8 DEF IsFile
<1> QED BY <1>1, <1>8, <1>9, <1>10, <1>11 DEF ReadInv

-------------------------------------------------------------------------------
(* The matches of search() *)

SearchRecord == [stage : SearchStages, top : Directories, byQuery : BOOLEAN,
                 maxResults : Nat, maxBytes : Nat, maxFileBytes : Nat, maxDepth : Nat,
                 maxEntries : Nat, frames : Seq(Seq(Nodes)), target : Places,
                 opened : {Absent} \cup FileStates, matches : Seq(Nodes \X Nat),
                 outputBytes : Nat, scannedEntries : Nat, skippedBinary : SUBSET Globbed,
                 skippedOversized : SUBSET Globbed, truncated : BOOLEAN]

\* Two states of a search that differ at most in what has been found.
SameWalk(s, t) ==
    /\ t.stage = s.stage /\ t.top = s.top /\ t.byQuery = s.byQuery
    /\ t.maxResults = s.maxResults /\ t.maxDepth = s.maxDepth
    /\ t.maxBytes = s.maxBytes /\ t.maxFileBytes = s.maxFileBytes
    /\ t.frames = s.frames /\ t.target = s.target /\ t.opened = s.opened
    /\ t.skippedBinary = s.skippedBinary /\ t.skippedOversized = s.skippedOversized

\* From s to t matches of n have been added, in order and at some places of it:
\* at all of them, unless t is truncated.
Adds(s, t, n, places) ==
    /\ t \in SearchRecord /\ SameWalk(s, t)
    /\ Len(s.matches) <= Len(t.matches)
    /\ Len(s.matches) <= s.maxResults => Len(t.matches) <= s.maxResults
    /\ \A i \in 1 .. Len(s.matches) : t.matches[i] = s.matches[i]
    /\ \A i \in Len(s.matches) + 1 .. Len(t.matches) :
          t.matches[i][1] = n /\ t.matches[i][2] \in places
    /\ \A i, j \in Len(s.matches) + 1 .. Len(t.matches) :
          i < j => t.matches[i][2] < t.matches[j][2]
    /\ ~ t.truncated => /\ ~ s.truncated
                        /\ \A k \in places : \E i \in 1 .. Len(t.matches) : t.matches[i] = <<n, k>>

LEMMA AddsNothing ==
    ASSUME NEW s \in SearchRecord, NEW n \in Nodes
    PROVE  Adds(s, s, n, {})
<1>1. Len(s.matches) \in Nat
  BY DEF SearchRecord
<1> QED BY <1>1 DEF Adds, SameWalk

LEMMA AppendOne ==
    ASSUME NEW s \in SearchRecord, NEW n \in Nodes, NEW k \in Nat
    PROVE  LET t == AppendSearchMatch(s, n, k)
           IN  /\ t \in SearchRecord /\ SameWalk(s, t)
               /\ \/ t.truncated /\ t.matches = s.matches
                  \/ /\ t.truncated = s.truncated /\ t.matches = Append(s.matches, <<n, k>>)
                     /\ Len(s.matches) < s.maxResults
<1> DEFINE t == AppendSearchMatch(s, n, k)
           full == Len(s.matches) >= s.maxResults \/ s.outputBytes + Cost[n] > s.maxBytes
<1>1. CASE full
  <2>1. t = [s EXCEPT !.truncated = TRUE]
    BY <1>1 DEF AppendSearchMatch
  <2> HIDE DEF t
  <2>2. t \in SearchRecord /\ SameWalk(s, t) /\ t.truncated /\ t.matches = s.matches
    BY <2>1 DEF SearchRecord, SameWalk
  <2> QED BY <2>2 DEF t
<1>2. CASE ~ full
  <2>1. t = [s EXCEPT !.matches = Append(@, <<n, k>>), !.outputBytes = @ + Cost[n]]
    BY <1>2 DEF AppendSearchMatch
  <2> HIDE DEF t
  <2>2. /\ s.matches \in Seq(Nodes \X Nat) /\ s.outputBytes \in Nat /\ Cost[n] \in Nat
        /\ s.maxResults \in Nat
    BY FilesAssumption DEF SearchRecord
  <2>3. Append(s.matches, <<n, k>>) \in Seq(Nodes \X Nat) /\ s.outputBytes + Cost[n] \in Nat
    BY <2>2
  <2>4. t \in SearchRecord /\ SameWalk(s, t)
        /\ t.truncated = s.truncated /\ t.matches = Append(s.matches, <<n, k>>)
    BY <2>1, <2>3 DEF SearchRecord, SameWalk
  <2>5. Len(s.matches) < s.maxResults
    BY <1>2, <2>2
  <2> QED BY <2>4, <2>5 DEF t
<1> QED BY <1>1, <1>2

LEMMA AddsOneMore ==
    ASSUME NEW s \in SearchRecord, NEW t \in SearchRecord, NEW n \in Nodes,
           NEW places \in SUBSET Nat, NEW k \in Nat, \A p \in places : p < k, Adds(s, t, n, places)
    PROVE  Adds(s, AppendSearchMatch(t, n, k), n, places \cup {k})
<1> DEFINE u == AppendSearchMatch(t, n, k)
           old == Len(s.matches)
           len == Len(t.matches)
<1>1. /\ u \in SearchRecord /\ SameWalk(t, u)
      /\ \/ u.truncated /\ u.matches = t.matches
         \/ /\ u.truncated = t.truncated /\ u.matches = Append(t.matches, <<n, k>>)
            /\ Len(t.matches) < t.maxResults
  BY AppendOne
<1> SUFFICES Adds(s, u, n, places \cup {k})
    OBVIOUS
<1> HIDE DEF u
<1>2. /\ old \in Nat /\ len \in Nat /\ old <= len /\ t.matches \in Seq(Nodes \X Nat)
      /\ s.maxResults \in Nat /\ t.maxResults = s.maxResults
      /\ s.truncated \in BOOLEAN /\ t.truncated \in BOOLEAN
  <2>1. /\ s.matches \in Seq(Nodes \X Nat) /\ t.matches \in Seq(Nodes \X Nat)
        /\ s.maxResults \in Nat /\ s.truncated \in BOOLEAN /\ t.truncated \in BOOLEAN
    BY DEF SearchRecord
  <2>2. old <= len /\ t.maxResults = s.maxResults
    BY DEF Adds, SameWalk
  <2> QED BY <2>1, <2>2, LenProperties
<1> HIDE DEF old, len
<1>3. SameWalk(s, u)
  BY <1>1 DEF Adds, SameWalk
<1>4. CASE u.truncated /\ u.matches = t.matches
  <2>1. \A i \in old + 1 .. len : t.matches[i][2] \in places \cup {k}
    BY DEF Adds, old, len
  <2> QED BY <1>1, <1>3, <1>4, <2>1 DEF Adds, old, len
<1>5. CASE /\ u.truncated = t.truncated /\ u.matches = Append(t.matches, <<n, k>>)
           /\ Len(t.matches) < t.maxResults
  <2>1. /\ Len(u.matches) = len + 1 /\ u.matches[len + 1] = <<n, k>>
        /\ \A i \in 1 .. len : u.matches[i] = t.matches[i]
    BY <1>2, <1>5 DEF len
  <2>2. \A i \in 1 .. old : i \in 1 .. len /\ t.matches[i] = s.matches[i]
    BY <1>2 DEF Adds, old, len
  <2>3. ASSUME NEW i \in old + 1 .. len + 1
        PROVE  /\ u.matches[i][1] = n /\ u.matches[i][2] \in places \cup {k}
               /\ i # len + 1 => i \in old + 1 .. len /\ i \in 1 .. len /\ u.matches[i][2] \in places
    <3>1. CASE i = len + 1
      BY <2>1, <3>1
    <3>2. CASE i # len + 1
      <4>1. i \in old + 1 .. len /\ i \in 1 .. len
        BY <1>2, <3>2
      <4>2. t.matches[i][1] = n /\ t.matches[i][2] \in places
        BY <4>1 DEF Adds, old, len
      <4> QED BY <2>1, <4>1, <4>2
    <3> QED BY <3>1, <3>2
  <2>4. ASSUME NEW i \in old + 1 .. len + 1, NEW j \in old + 1 .. len + 1, i < j
        PROVE  u.matches[i][2] < u.matches[j][2]
    <3>1. i # len + 1
      BY <1>2, <2>4
    <3>2. CASE j = len + 1
      <4>1. u.matches[i][2] \in places
        BY <2>3, <3>1
      <4>2. u.matches[i][2] < k
        BY <4>1
      <4>3. u.matches[j][2] = k
        BY <2>1, <3>2
      <4> QED BY <4>2, <4>3
    <3>3. CASE j # len + 1
      <4>1. /\ i \in old + 1 .. len /\ i \in 1 .. len /\ j \in old + 1 .. len /\ j \in 1 .. len
        BY <2>3, <3>1, <3>3
      <4>2. t.matches[i][2] < t.matches[j][2]
        BY <2>4, <4>1 DEF Adds, old, len
      <4> QED BY <2>1, <4>1, <4>2
    <3> QED BY <3>2, <3>3
  <2>5. ASSUME ~ u.truncated, NEW m \in places \cup {k}
        PROVE  \E i \in 1 .. len + 1 : u.matches[i] = <<n, m>>
    <3>1. CASE m = k
      BY <1>2, <2>1, <3>1
    <3>2. CASE m # k
      <4>1. m \in places
        BY <3>2
      <4>2. PICK i \in 1 .. len : t.matches[i] = <<n, m>>
        BY <1>5, <2>5, <4>1 DEF Adds, len
      <4>3. i \in 1 .. len + 1
        BY <1>2
      <4>4. u.matches[i] = <<n, m>>
        BY <2>1, <4>2
      <4> QED BY <4>3, <4>4
    <3> QED BY <3>1, <3>2
  <2>6. /\ old <= len + 1 /\ (old <= s.maxResults => len + 1 <= s.maxResults)
        /\ (~ u.truncated => ~ s.truncated)
    BY <1>2, <1>5 DEF Adds, old, len
  <2> QED BY <1>1, <1>3, <2>1, <2>2, <2>3, <2>4, <2>5, <2>6 DEF Adds, old
<1> QED BY <1>1, <1>4, <1>5

\* The places of a text where the query occurs.
Hits(text) == {i \in DOMAIN text : text[i] = "hit"}

\* AppendAll looks at one place of the text after the other.
AppendNext(s, n, text, k) == IF text[k] = "hit" THEN AppendSearchMatch(s, n, k) ELSE s

LEMMA AppendAllUnfolds ==
    ASSUME NEW s, NEW n, NEW text, Len(text) \in Nat
    PROVE  \E f : /\ f[0] = s
                  /\ \A k \in 1 .. Len(text) : f[k] = AppendNext(f[k - 1], n, text, k)
                  /\ AppendAll(s, n, text) = f[Len(text)]
<1> DEFINE len == Len(text)
           Unfolds(f, h) == f = [k \in 0 .. h |-> IF k = 0 THEN s ELSE
                                    IF text[k] = "hit" THEN AppendSearchMatch(f[k - 1], n, k) ELSE f[k - 1]]
           T == {h \in Nat : \E f : Unfolds(f, h)}
<1>1. 0 \in T
  <2>1. Unfolds([k \in 0 .. 0 |-> s], 0)
    OBVIOUS
  <2> QED BY <2>1
<1>2. ASSUME NEW h \in T
      PROVE  h + 1 \in T
  <2>1. h \in Nat
    OBVIOUS
  <2>2. PICK f : Unfolds(f, h)
    OBVIOUS
  <2> DEFINE g == [k \in 0 .. h + 1 |-> IF k <= h THEN f[k] ELSE AppendNext(f[h], n, text, h + 1)]
  <2>3. ASSUME NEW k \in 0 .. h + 1
        PROVE  g[k] = IF k = 0 THEN s ELSE AppendNext(g[k - 1], n, text, k)
    <3>1. CASE k = 0
      BY <2>1, <2>2, <3>1
    <3>2. CASE k # 0 /\ k <= h
      <4>1. k \in 0 .. h /\ k - 1 \in 0 .. h + 1 /\ k - 1 <= h
        BY <2>1, <3>2
      <4>2. g[k] = f[k] /\ g[k - 1] = f[k - 1]
        BY <4>1
      <4>3. f[k] = AppendNext(f[k - 1], n, text, k)
        BY <2>2, <3>2, <4>1 DEF AppendNext
      <4> QED BY <3>2, <4>2, <4>3
    <3>3. CASE k = h + 1
      <4>1. k - 1 = h /\ h \in 0 .. h + 1 /\ ~ (k <= h) /\ k # 0
        BY <2>1, <3>3
      <4>2. g[k] = AppendNext(f[h], n, text, h + 1) /\ g[h] = f[h]
        BY <4>1
      <4> QED BY <3>3, <4>1, <4>2
    <3> QED BY <2>1, <3>1, <3>2, <3>3
  <2>4. Unfolds(g, h + 1)
    <3>1. g = [k \in 0 .. h + 1 |-> g[k]]
      OBVIOUS
    <3> HIDE DEF g
    <3> QED BY <2>3, <3>1 DEF AppendNext
  <2> HIDE DEF g, Unfolds
  <2> QED BY <2>1, <2>4
<1> HIDE DEF T
<1>3. T = Nat
  BY <1>1, <1>2, AllNaturals DEF T
<1> DEFINE appended == CHOOSE f : Unfolds(f, len)
<1>4. Unfolds(appended, len)
  <2>1. \E f : Unfolds(f, len)
    BY <1>3 DEF T
  <2> HIDE DEF Unfolds
  <2> QED BY <2>1
<1>5. AppendAll(s, n, text) = appended[len]
  BY DEF AppendAll
<1> HIDE DEF appended
<1>6. len \in Nat
  OBVIOUS
<1> HIDE DEF len
<1>7. appended[0] = s /\ \A k \in 1 .. len : appended[k] = AppendNext(appended[k - 1], n, text, k)
  BY <1>4, <1>6 DEF AppendNext
<1> QED BY <1>5, <1>7 DEF len

LEMMA AppendAllAdds ==
    ASSUME NEW s \in SearchRecord, NEW n \in Nodes, NEW text \in Seq(ByteKinds)
    PROVE  Adds(s, AppendAll(s, n, text), n, Hits(text))
<1> DEFINE len == Len(text)
           upTo(k) == {i \in 1 .. k : text[i] = "hit"}
<1>0. len \in Nat /\ DOMAIN text = 1 .. len
  OBVIOUS
<1>1. PICK f : /\ f[0] = s
               /\ \A k \in 1 .. len : f[k] = AppendNext(f[k - 1], n, text, k)
               /\ AppendAll(s, n, text) = f[len]
  BY SMTT(30), <1>0, AppendAllUnfolds
<1> HIDE DEF len
<1> DEFINE T == {k \in Nat : k <= len => Adds(s, f[k], n, upTo(k))}
<1>2. 0 \in T
  <2>1. upTo(0) = {}
    OBVIOUS
  <2> HIDE DEF upTo
  <2> QED BY <1>1, <2>1, AddsNothing
<1>3. ASSUME NEW k \in T
      PROVE  k + 1 \in T
  <2> SUFFICES ASSUME k + 1 <= len
               PROVE  k \in Nat /\ Adds(s, f[k + 1], n, upTo(k + 1))
      OBVIOUS
  <2>1. k \in Nat
    OBVIOUS
  <2>2. Adds(s, f[k], n, upTo(k))
    BY <1>0, <2>1
  <2>3. k + 1 \in 1 .. len /\ (k + 1) - 1 = k /\ k + 1 \in Nat
    BY <1>0, <2>1
  <2>4. f[k + 1] = AppendNext(f[k], n, text, k + 1)
    BY <1>1, <2>3
  <2>5. f[k] \in SearchRecord
    BY <2>2 DEF Adds
  <2>6. CASE text[k + 1] = "hit"
    <3>1. /\ upTo(k + 1) = upTo(k) \cup {k + 1} /\ upTo(k) \in SUBSET Nat
          /\ \A p \in upTo(k) : p < k + 1
      BY <2>1, <2>6
    <3>2. f[k + 1] = AppendSearchMatch(f[k], n, k + 1)
      BY <2>4, <2>6 DEF AppendNext
    <3> HIDE DEF upTo, T
    <3>3. Adds(s, AppendSearchMatch(f[k], n, k + 1), n, upTo(k) \cup {k + 1})
      BY <2>2, <2>3, <2>5, <3>1, AddsOneMore
    <3> QED BY <2>1, <3>1, <3>2, <3>3
  <2>7. CASE text[k + 1] # "hit"
    <3>1. upTo(k + 1) = upTo(k)
      BY <2>1, <2>7
    <3>2. f[k + 1] = f[k]
      BY <2>4, <2>7 DEF AppendNext
    <3> HIDE DEF upTo, T
    <3> QED BY <2>1, <2>2, <3>1, <3>2
  <2> QED BY <2>6, <2>7
<1> HIDE DEF T
<1>4. T = Nat
  BY <1>2, <1>3, AllNaturals DEF T
<1>5. Adds(s, f[len], n, upTo(len))
  <2> HIDE DEF upTo
  <2>1. len \in T /\ len <= len
    BY <1>0, <1>4
  <2> QED BY <2>1 DEF T
<1>6. upTo(len) = Hits(text)
  BY <1>0 DEF Hits
<1> HIDE DEF upTo
<1> QED BY <1>1, <1>5, <1>6

-------------------------------------------------------------------------------
(* What lies under a place of the tree *)

\* Sets that hold with a directory all that is in it.
Closed(S) == \A m \in Nodes : Parent[m] \in S => m \in S

Under(a) == {n \in Places : \A S \in SUBSET Places : a \in S /\ Closed(S) => n \in S}

Apart(a, b) == Under(a) \cap Under(b) = {}

LEMMA PlacesAreNatural == Places \subseteq Nat
BY NodesAreNatural DEF Places, Root

LEMMA ParentsArePlaces ==
    ASSUME NEW n \in Nodes
    PROVE  /\ Parent[n] \in Places /\ Parent[n] \in Directories /\ Parent[n] < n
           /\ n \in Nat /\ Parent[n] \in Nat
<1>1. Parent[n] \in Directories /\ Parent[n] < n
  BY TreeAssumption
<1>2. Parent[n] \in Places /\ n \in Places
  BY <1>1, DirectoriesArePlaces DEF Places
<1> QED BY <1>1, <1>2, PlacesAreNatural

LEMMA UnderItself ==
    ASSUME NEW a \in Places
    PROVE  a \in Under(a)
BY DEF Under

LEMMA UnderIsClosed ==
    ASSUME NEW a \in Places
    PROVE  Under(a) \in SUBSET Places /\ Closed(Under(a))
<1>1. ASSUME NEW m \in Nodes, Parent[m] \in Under(a)
      PROVE  m \in Under(a)
  <2> SUFFICES ASSUME NEW S \in SUBSET Places, a \in S, Closed(S)
               PROVE  m \in S
      BY DEF Under, Places
  <2>1. Parent[m] \in S
    BY <1>1 DEF Under
  <2> QED BY <2>1 DEF Closed
<1> QED BY <1>1 DEF Under, Closed

LEMMA UnderContains ==
    ASSUME NEW a \in Places, NEW S \in SUBSET Places, a \in S, Closed(S)
    PROVE  Under(a) \subseteq S
BY DEF Under

\* Whatever is under a place and is not that place is in a directory that is
\* under it too.
LEMMA UnderIsReached ==
    ASSUME NEW a \in Places, NEW n \in Under(a), n # a
    PROVE  n \in Nodes /\ Parent[n] \in Under(a)
<1> DEFINE S == {m \in Under(a) : m = a \/ (m \in Nodes /\ Parent[m] \in Under(a))}
<1>1. S \in SUBSET Places /\ a \in S
  BY UnderItself DEF Under
<1>2. Closed(S)
  <2> SUFFICES ASSUME NEW m \in Nodes, Parent[m] \in S
               PROVE  m \in S
      BY DEF Closed
  <2>1. Parent[m] \in Under(a)
    OBVIOUS
  <2>2. m \in Under(a)
    BY <2>1, UnderIsClosed DEF Closed
  <2> QED BY <2>1, <2>2
<1> HIDE DEF S
<1>3. n \in S
  BY <1>1, <1>2, UnderContains
<1> QED BY <1>3 DEF S

LEMMA UnderIsLater ==
    ASSUME NEW a \in Places, NEW n \in Under(a)
    PROVE  a \in Nat /\ n \in Nat /\ a <= n
<1> DEFINE S == {m \in Places : a <= m}
<1>1. Places \subseteq Nat
  BY PlacesAreNatural
<1>2. Closed(S)
  BY <1>1, ParentsArePlaces DEF Closed, Places
<1>3. a \in S
  BY <1>1
<1> HIDE DEF S
<1>4. n \in S
  BY <1>2, <1>3, UnderContains DEF S
<1> QED BY <1>1, <1>4 DEF S

LEMMA UnderChild ==
    ASSUME NEW n \in Nodes
    PROVE  Under(n) \subseteq Under(Parent[n])
<1>1. n \in Under(Parent[n])
  BY ParentsArePlaces, UnderItself, UnderIsClosed DEF Closed
<1> QED BY <1>1, ParentsArePlaces, UnderIsClosed, UnderContains DEF Places

LEMMA SiblingsApart ==
    ASSUME NEW a \in Nodes, NEW b \in Nodes, Parent[a] = Parent[b], a # b
    PROVE  Apart(a, b)
<1>1. SUFFICES ASSUME Under(a) \cap Under(b) # {}
               PROVE  FALSE
  BY DEF Apart
<1>2. a \in Places /\ b \in Places
  BY DEF Places
<1>3. Under(a) \cap Under(b) \in SUBSET Nat
  BY <1>2, UnderIsLater
<1>4. PICK n \in Under(a) \cap Under(b) : \A m \in Under(a) \cap Under(b) : n <= m
  BY <1>1, <1>3, LeastOfNaturals
\* The directory of both is not under either.
<1>5. Parent[a] \notin Under(a) /\ Parent[b] \notin Under(b)
  <2>1. \A c \in Nodes : Parent[c] \in Nat /\ c \in Nat /\ Parent[c] < c
    BY ParentsArePlaces
  <2> QED BY <1>2, <2>1, UnderIsLater
<1>6. CASE n = a
  BY <1>2, <1>5, <1>6, UnderIsReached
<1>7. CASE n = b
  BY <1>2, <1>5, <1>7, UnderIsReached
<1>8. CASE n # a /\ n # b
  <2>1. n \in Nodes /\ Parent[n] \in Under(a) /\ Parent[n] \in Under(b)
    BY <1>2, <1>8, UnderIsReached
  <2>2. Parent[n] < n /\ n \in Nat /\ Parent[n] \in Nat
    BY <1>3, <2>1, ParentsArePlaces
  <2>3. n <= Parent[n]
    BY <1>4, <2>1
  <2> QED BY <2>2, <2>3
<1> QED BY <1>6, <1>7, <1>8

LEMMA ApartFacts ==
    ASSUME NEW a \in Places, NEW b \in Places, Apart(a, b)
    PROVE  Apart(b, a) /\ a # b /\ a \notin Under(b) /\ b \notin Under(a)
BY UnderItself DEF Apart

-------------------------------------------------------------------------------
(* search() *)

\* What a frame still has to visit, and a search that is about to look at its
\* target.
Waiting(s, d) == Range(s.frames[d])
Busy(s) == s.stage \in {"enter", "descend", "open", "read"}

Increasing(seq) == \A i, j \in DOMAIN seq : i < j => seq[i] < seq[j]

WalkInv(s) ==
    /\ s \in SearchRecord
    /\ Len(s.frames) <= s.maxDepth + 1
    /\ s.stage \in {"enter", "descend"} => Len(s.frames) <= s.maxDepth /\ s.target \in Directories
    /\ s.stage \in {"descend", "open", "read"} => s.frames # <<>> /\ s.target \in Nodes
    /\ s.stage \in {"open", "read"} => s.target \in Globbed /\ s.byQuery
    /\ s.stage = "read" => /\ s.opened \in FileStates /\ s.opened \in seen[s.target]
                           /\ s.opened.opens /\ Len(s.opened.bytes) <= s.maxFileBytes
    /\ s.stage \in {"none", "complete"} => s.frames = <<>>
    /\ s.stage = "none" => s.matches = <<>>
    /\ \A d \in DOMAIN s.frames : Increasing(s.frames[d]) /\ \A a \in Waiting(s, d) : Was(a)

\* No two of the places still to be visited hold the same entry.
ApartInv(s) ==
    /\ \A d, e \in DOMAIN s.frames : \A a \in Waiting(s, d), b \in Waiting(s, e) :
          d # e \/ a # b => Apart(a, b)
    /\ Busy(s) => \A d \in DOMAIN s.frames : \A a \in Waiting(s, d) : Apart(s.target, a)

\* n is not going to be visited again.
Behind(s, n) ==
    /\ \A d \in DOMAIN s.frames : \A a \in Waiting(s, d) : n \notin Under(a)
    /\ Busy(s) => n \notin Under(s.target)

MatchesInv(s) ==
    /\ Len(s.matches) <= s.maxResults
    /\ \A i \in DOMAIN s.matches : Real(s.matches[i]) /\ Behind(s, s.matches[i][1])
    /\ \A i, j \in DOMAIN s.matches : i # j => s.matches[i] # s.matches[j]

LEMMA FramesTyped ==
    ASSUME NEW s \in SearchRecord
    PROVE  /\ Len(s.frames) \in Nat /\ DOMAIN s.frames = 1 .. Len(s.frames)
           /\ \A d \in DOMAIN s.frames : /\ s.frames[d] \in Seq(Nodes)
                                         /\ Waiting(s, d) \subseteq Nodes /\ Waiting(s, d) \subseteq Places
           /\ s.target \in Places /\ s.maxDepth \in Nat
           /\ s.matches \in Seq(Nodes \X Nat) /\ Len(s.matches) \in Nat
           /\ DOMAIN s.matches = 1 .. Len(s.matches)
           /\ \A i \in DOMAIN s.matches : s.matches[i] \in Nodes \X Nat
<1>1. s.frames \in Seq(Seq(Nodes)) /\ s.matches \in Seq(Nodes \X Nat)
  BY DEF SearchRecord
<1>2. \A d \in DOMAIN s.frames : s.frames[d] \in Seq(Nodes)
  BY <1>1
<1>3. \A d \in DOMAIN s.frames : Waiting(s, d) \subseteq Nodes
  BY <1>2, RangeOfSeq DEF Waiting
<1> QED BY SMTT(30), <1>1, <1>2, <1>3 DEF SearchRecord, Places

\* From s to t frames have lost entries at most.
Fewer(s, t) ==
    \A d \in DOMAIN t.frames : /\ d \in DOMAIN s.frames /\ Waiting(t, d) \subseteq Waiting(s, d)
                               /\ Increasing(t.frames[d])

LEMMA FewerKeeps ==
    ASSUME NEW s \in SearchRecord, NEW t \in SearchRecord,
           WalkInv(s), ApartInv(s), MatchesInv(s), Fewer(s, t),
           t.matches = s.matches, t.maxResults = s.maxResults,
           Busy(t) => /\ \A d \in DOMAIN t.frames : \A a \in Waiting(t, d) : Apart(t.target, a)
                      /\ \A i \in DOMAIN s.matches : s.matches[i][1] \notin Under(t.target)
    PROVE  /\ \A d \in DOMAIN t.frames : Increasing(t.frames[d]) /\ \A a \in Waiting(t, d) : Was(a)
           /\ ApartInv(t) /\ MatchesInv(t)
<1>1. \A d \in DOMAIN t.frames : Increasing(t.frames[d]) /\ \A a \in Waiting(t, d) : Was(a)
  BY DEF Fewer, WalkInv
<1>2. ApartInv(t)
  BY DEF Fewer, ApartInv
<1>3. \A i \in DOMAIN s.matches : Behind(s, s.matches[i][1]) => Behind(t, s.matches[i][1])
  BY DEF Fewer, Behind
<1>4. MatchesInv(t)
  BY <1>3 DEF MatchesInv
<1> QED BY <1>1, <1>2, <1>4

LEMMA MatchesStay ==
    ASSUME NEW s, NEW t, MatchesInv(s), t.matches = s.matches, t.maxResults = s.maxResults,
           \A i \in DOMAIN s.matches : Behind(t, s.matches[i][1])
    PROVE  MatchesInv(t)
BY DEF MatchesInv

\* New matches are of an entry that has not been visited before and is not
\* going to be again.
LEMMA AddsKeep ==
    ASSUME NEW s \in SearchRecord, NEW t \in SearchRecord, NEW n \in Nodes,
           NEW places \in SUBSET Nat,
           WalkInv(s), ApartInv(s), MatchesInv(s), Behind(s, n),
           \A i \in DOMAIN s.matches : s.matches[i][1] # n,
           \A k \in places : Real(<<n, k>>), s.stage # "none",
           Adds(s, t, n, places)
    PROVE  WalkInv(t) /\ ApartInv(t) /\ MatchesInv(t)
<1>1. SameWalk(s, t)
  BY DEF Adds
<1>2. WalkInv(t) /\ ApartInv(t)
  BY <1>1 DEF SameWalk, WalkInv, ApartInv, Waiting, Busy
<1>3. \A m : Behind(s, m) => Behind(t, m)
  BY <1>1 DEF SameWalk, Behind, Waiting, Busy
<1> DEFINE old == Len(s.matches)
           len == Len(t.matches)
<1>4. /\ old \in Nat /\ len \in Nat /\ old <= len /\ DOMAIN t.matches = 1 .. len /\ DOMAIN s.matches = 1 .. old
      /\ \A i \in 1 .. len : t.matches[i] \in Nodes \X Nat
  BY FramesTyped DEF Adds
<1>5. len <= t.maxResults
  BY <1>1 DEF Adds, MatchesInv, SameWalk
<1>6. ASSUME NEW i \in 1 .. len
      PROVE  \/ i \in 1 .. old /\ t.matches[i] = s.matches[i]
             \/ /\ i \in old + 1 .. len /\ ~ i \in 1 .. old
                /\ t.matches[i][1] = n /\ t.matches[i][2] \in places
                /\ t.matches[i] = <<n, t.matches[i][2]>>
  <2>1. i \in 1 .. old \/ (i \in old + 1 .. len /\ ~ i \in 1 .. old)
    BY <1>4
  <2>2. t.matches[i] = <<t.matches[i][1], t.matches[i][2]>>
    BY <1>4
  <2> QED BY <2>1, <2>2 DEF Adds
<1> HIDE DEF old, len
<1>7. ASSUME NEW i \in 1 .. len
      PROVE  Real(t.matches[i]) /\ Behind(t, t.matches[i][1])
  <2>1. CASE i \in 1 .. old /\ t.matches[i] = s.matches[i]
    BY <1>3, <1>4, <2>1 DEF MatchesInv
  <2>2. CASE t.matches[i][1] = n /\ t.matches[i][2] \in places /\ t.matches[i] = <<n, t.matches[i][2]>>
    <3>1. Real(<<n, t.matches[i][2]>>)
      BY <2>2
    <3> QED BY <1>3, <2>2, <3>1
  <2> QED BY <1>6, <2>1, <2>2
<1>8. ASSUME NEW i \in 1 .. len, NEW j \in 1 .. len, i < j
      PROVE  t.matches[i] # t.matches[j]
  <2>1. CASE j \in 1 .. old
    <3>1. i \in 1 .. old
      BY <1>4, <1>8, <2>1
    <3>2. t.matches[i] = s.matches[i] /\ t.matches[j] = s.matches[j] /\ i # j
      BY <1>4, <1>6, <1>8, <2>1, <3>1
    <3> QED BY <1>4, <2>1, <3>1, <3>2 DEF MatchesInv
  <2>2. CASE i \in 1 .. old /\ ~ j \in 1 .. old
    BY <1>4, <1>6, <2>2
  <2>3. CASE ~ i \in 1 .. old /\ ~ j \in 1 .. old
    <3>1. i \in old + 1 .. len /\ j \in old + 1 .. len
      BY <1>6, <2>3
    <3>2. t.matches[i][2] < t.matches[j][2]
      BY <1>8, <3>1 DEF Adds, old, len
    <3>3. t.matches[i][2] \in Nat
      BY <1>4
    <3> QED BY <3>2, <3>3
  <2> QED BY <2>1, <2>2, <2>3
<1>9. \A i, j \in 1 .. len : i # j => t.matches[i] # t.matches[j]
  <2>1. \A i, j \in 1 .. len : i # j => i < j \/ j < i
    BY <1>4
  <2> QED BY <1>8, <2>1
<1> QED BY <1>2, <1>4, <1>5, <1>7, <1>9 DEF MatchesInv, len

-------------------------------------------------------------------------------
(* That search() finds everything *)

\* A way from n up to the directory that is searched, all there throughout.
IsWay(s, n, k, way) ==
    /\ way[0] = n /\ way[k] = s.top
    /\ \A i \in 0 .. k - 1 : way[i] \in Nodes /\ way[i + 1] = Parent[way[i]]
    /\ \A i \in 1 .. k - 1 : Throughout(way[i])

\* Some place on the way is still to be visited, and then the rest will be.
Ahead(s, k, way) ==
    \/ \E i \in 0 .. k - 1 : k - i \in DOMAIN s.frames /\ way[i] \in Waiting(s, k - i)
    \/ Busy(s) /\ \E i \in 0 .. k : s.target = way[i] /\ Len(s.frames) = k - i

FoundInv(s) ==
    s.stage \notin {"none", "failed"} /\ ~ s.truncated =>
        \A n \in Globbed, k \in 1 .. s.maxDepth + 1 : \A way \in [0 .. k -> Places] : \A x :
            seen[n] = {x} /\ x # Absent /\ IsWay(s, n, k, way) => Accounted(s, n, x) \/ Ahead(s, k, way)

SearchInv(s) == WalkInv(s) /\ ApartInv(s) /\ MatchesInv(s) /\ FoundInv(s)

\* The searches of one request, the earlier one first.
SameRequest(s, t) ==
    /\ t.top = s.top /\ t.byQuery = s.byQuery
    /\ t.maxResults = s.maxResults /\ t.maxDepth = s.maxDepth
    /\ t.maxBytes = s.maxBytes /\ t.maxFileBytes = s.maxFileBytes
    /\ s.skippedBinary \subseteq t.skippedBinary /\ s.skippedOversized \subseteq t.skippedOversized

\* What is accounted for stays so.
LEMMA AccountedStays ==
    ASSUME NEW s, NEW t, NEW n, NEW x, SameRequest(s, t), Range(s.matches) \subseteq Range(t.matches),
           Accounted(s, n, x)
    PROVE  Accounted(t, n, x)
BY DEF Accounted, SameRequest

\* From s to t everything found stays found and everything ahead is found or
\* still ahead.
LEMMA FoundSteps ==
    ASSUME NEW s, NEW t, FoundInv(s), SameRequest(s, t), s.stage \notin {"none", "failed"},
           t.truncated \/ ~ s.truncated, Range(s.matches) \subseteq Range(t.matches),
           ASSUME NEW n \in Globbed, NEW k \in 1 .. s.maxDepth + 1, NEW way \in [0 .. k -> Places], NEW x,
                  seen[n] = {x}, x # Absent, IsWay(s, n, k, way), ~ t.truncated, Ahead(s, k, way)
           PROVE  Accounted(t, n, x) \/ Ahead(t, k, way)
    PROVE  FoundInv(t)
<1> SUFFICES ASSUME ~ t.truncated,
                    NEW n \in Globbed, NEW k \in 1 .. t.maxDepth + 1, NEW way \in [0 .. k -> Places], NEW x,
                    seen[n] = {x}, x # Absent, IsWay(t, n, k, way)
             PROVE  Accounted(t, n, x) \/ Ahead(t, k, way)
    BY DEF FoundInv
<1>1. IsWay(s, n, k, way) /\ k \in 1 .. s.maxDepth + 1
  BY DEF IsWay, SameRequest
<1>2. CASE Accounted(s, n, x)
  BY <1>2, AccountedStays
<1>3. CASE Ahead(s, k, way)
  BY <1>1, <1>3
<1>4. Accounted(s, n, x) \/ Ahead(s, k, way)
  BY <1>1 DEF FoundInv
<1> QED BY <1>2, <1>3, <1>4

LEMMA GlobbedAreFiles ==
    ASSUME NEW n \in Globbed
    PROVE  n \in Nodes /\ Kind[n] = "file" /\ n \notin Directories
BY FilesAssumption, TreeAssumption DEF Directories

\* The places of a way: directories, but for the first.
LEMMA WayFacts ==
    ASSUME TreeInv, NEW s \in SearchRecord, NEW n \in Globbed, NEW k \in Nat, NEW way \in [0 .. k -> Places],
           Throughout(n), IsWay(s, n, k, way), k > 0
    PROVE  /\ \A i \in 0 .. k - 1 : way[i] \in Nodes /\ There(way[i])
           /\ \A i \in 1 .. k : way[i] \in Directories /\ way[i] = Parent[way[i - 1]]
           /\ \A i \in 0 .. k : (way[i] \in Globbed => i = 0) /\ (way[i] \in Directories => i \in 1 .. k)
<1>1. n \in Nodes /\ There(n)
  BY GlobbedAreFiles, ThereWas
<1>2. \A i \in 0 .. k - 1 : way[i] \in Nodes /\ There(way[i])
  <2> SUFFICES ASSUME NEW i \in 0 .. k - 1
               PROVE  way[i] \in Nodes /\ There(way[i])
      OBVIOUS
  <2>1. CASE i = 0
    BY <1>1, <2>1 DEF IsWay
  <2>2. CASE i # 0
    <3>1. i \in 1 .. k - 1
      BY <2>2
    <3> QED BY <3>1, ThereWas DEF IsWay
  <2> QED BY <2>1, <2>2
<1>3. \A i \in 1 .. k : way[i] \in Directories /\ way[i] = Parent[way[i - 1]]
  <2> SUFFICES ASSUME NEW i \in 1 .. k
               PROVE  way[i] \in Directories /\ way[i] = Parent[way[i - 1]]
      OBVIOUS
  <2>1. i - 1 \in 0 .. k - 1 /\ (i - 1) + 1 = i
    OBVIOUS
  <2>2. way[i - 1] \in Nodes /\ way[i] = Parent[way[i - 1]]
    BY <2>1 DEF IsWay
  <2> QED BY <2>2, ParentsArePlaces
<1>4. \A i \in 0 .. k : i = 0 \/ i \in 1 .. k
  OBVIOUS
<1>5. way[0] \notin Directories
  BY GlobbedAreFiles DEF IsWay
<1> QED BY <1>1, <1>2, <1>3, <1>4, <1>5, GlobbedAreFiles

LEMMA InitSearchInv == Init => SearchInv(search)
<1> SUFFICES ASSUME Init PROVE SearchInv(search)
    OBVIOUS
<1>1. /\ search.stage = "none" /\ search.frames = <<>> /\ search.matches = <<>>
      /\ search.maxDepth = 0 /\ search.maxResults = 0 /\ search \in SearchRecord
  BY DirectoriesArePlaces DEF Init, NoSearch, SearchRecord, SearchStages, Places
<1> QED BY <1>1 DEF SearchInv, WalkInv, ApartInv, MatchesInv, FoundInv, Busy

LEMMA SearchFromKeeps ==
    ASSUME TreeInv, NEW top \in Directories, NEW byQuery \in BOOLEAN, NEW results \in MaxResults,
           NEW bytes \in MaxBytes, NEW fileBytes \in MaxFileBytes, NEW depth \in MaxDepths,
           NEW entries \in EntryLimits, SearchFrom(top, byQuery, results, bytes, fileBytes, depth, entries)
    PROVE  SearchInv(search)'
<1>1. search' = [stage |-> "enter", top |-> top, byQuery |-> byQuery, maxResults |-> results,
                 maxBytes |-> bytes, maxFileBytes |-> fileBytes, maxDepth |-> depth,
                 maxEntries |-> entries, frames |-> <<>>, target |-> top, opened |-> Absent,
                 matches |-> <<>>, outputBytes |-> 0, scannedEntries |-> 0,
                 skippedBinary |-> {}, skippedOversized |-> {}, truncated |-> FALSE]
  BY DEF SearchFrom, NoSearch
<1>2. results \in Nat /\ bytes \in Nat /\ fileBytes \in Nat /\ depth \in Nat /\ entries \in Nat
  BY LimitsAssumption
<1>3. search' \in SearchRecord
  BY <1>1, <1>2, DirectoriesArePlaces DEF SearchRecord, SearchStages
<1>4. WalkInv(search)'
  BY <1>1, <1>2, <1>3 DEF WalkInv
<1>5. ApartInv(search)' /\ MatchesInv(search)'
  BY <1>1, <1>2 DEF ApartInv, MatchesInv
<1>6. FoundInv(search)'
  <2> SUFFICES ASSUME NEW k \in 1 .. search'.maxDepth + 1, NEW way \in [0 .. k -> Places],
                      NEW n, IsWay(search, n, k, way)'
               PROVE  Ahead(search, k, way)'
      BY DEF FoundInv
  <2>1. k \in 0 .. k /\ Len(<<>>) = k - k
    BY <1>1, <1>2
  <2>2. way[k] = top
    BY <1>1 DEF IsWay
  <2> QED BY <1>1, <2>1, <2>2 DEF Ahead, Busy
<1> QED BY <1>4, <1>5, <1>6 DEF SearchInv

\* What a search knows does not get less true while the tree changes.
LEMMA SearchKept ==
    ASSUME SearchInv(search), UNCHANGED search, Grows \/ search.stage = "none"
    PROVE  SearchInv(search)'
<1> DEFINE s == search
<1>1. ApartInv(s)' = ApartInv(s)
  BY DEF ApartInv, Waiting, Busy, Apart
<1>2. search \in SearchRecord
  BY DEF SearchInv, WalkInv
<1>3. CASE search.stage = "none"
  <2>1. s.frames = <<>> /\ s.matches = <<>>
    BY <1>3 DEF SearchInv, WalkInv
  <2>2. WalkInv(s)' /\ MatchesInv(s)' /\ FoundInv(s)'
    BY <1>3, <2>1 DEF SearchInv, WalkInv, MatchesInv, FoundInv
  <2> QED BY <1>1, <2>2 DEF SearchInv
<1>4. CASE Grows
  <2>1. \A d \in DOMAIN s.frames : \A a \in Waiting(s, d) : Was(a)'
    BY <1>2, <1>4, FramesTyped, GrowsFacts DEF SearchInv, WalkInv
  <2>2. s.stage = "read" => s.opened \in seen'[s.target]
    BY <1>4 DEF SearchInv, WalkInv, Grows
  <2>3. WalkInv(s)'
    BY <2>1, <2>2 DEF SearchInv, WalkInv, Waiting
  <2>4. MatchesInv(s)'
    <3>1. \A i \in DOMAIN s.matches : s.matches[i][1] \in Nodes
      BY <1>2, FramesTyped
    <3>2. \A i \in DOMAIN s.matches : Real(s.matches[i])'
      BY <1>4, <3>1 DEF SearchInv, MatchesInv, Real, Grows
    <3>3. \A m : Behind(s, m)' = Behind(s, m)
      BY DEF Behind, Waiting, Busy
    <3> QED BY <3>2, <3>3 DEF SearchInv, MatchesInv
  <2>5. FoundInv(s)'
    <3> SUFFICES ASSUME (s.stage \notin {"none", "failed"} /\ ~ s.truncated)',
                        NEW n \in Globbed, NEW k \in 1 .. s'.maxDepth + 1,
                        NEW way \in [0 .. k -> Places], NEW x,
                        seen'[n] = {x}, x # Absent, IsWay(s, n, k, way)'
                 PROVE  Accounted(s, n, x)' \/ Ahead(s, k, way)'
        BY DEF FoundInv
    <3>1. seen[n] = {x}
      BY <1>4, GlobbedAreFiles, GrowsFacts
    <3>2. k \in Nat /\ 1 .. k - 1 \subseteq 0 .. k - 1
      BY <1>2, FramesTyped
    <3>3. IsWay(s, n, k, way)
      BY <1>4, <3>2, GrowsFacts DEF IsWay
    <3>4. Accounted(s, n, x) \/ Ahead(s, k, way)
      BY <3>1, <3>3 DEF SearchInv, FoundInv
    <3> QED BY <3>4 DEF Accounted, Ahead, Waiting, Busy
  <2> QED BY <1>1, <2>3, <2>4, <2>5 DEF SearchInv
<1> QED BY <1>3, <1>4

LEMMA SearchSame ==
    ASSUME UNCHANGED <<tree, seen>>, SearchInv(search')
    PROVE  SearchInv(search)'
<1>1. WalkInv(search)'
  BY DEF SearchInv, WalkInv, Was, Waiting
<1>2. ApartInv(search)'
  BY DEF SearchInv, ApartInv, Waiting, Busy
<1>3. MatchesInv(search)'
  BY DEF SearchInv, MatchesInv, Real, Behind, Waiting, Busy
<1>4. FoundInv(search)'
  <2>1. ASSUME NEW n, NEW k, NEW way, IsWay(search, n, k, way)'
        PROVE  IsWay(search', n, k, way)
    BY <2>1 DEF IsWay, Throughout
  <2>2. ASSUME NEW n, NEW x, NEW k, NEW way, Accounted(search', n, x) \/ Ahead(search', k, way)
        PROVE  Accounted(search, n, x)' \/ Ahead(search, k, way)'
    BY <2>2 DEF Accounted, Ahead, Waiting, Busy
  <2> QED BY <2>1, <2>2 DEF SearchInv, FoundInv
<1> QED BY <1>1, <1>2, <1>3, <1>4 DEF SearchInv

\* A search that leaves its frames as they are and looks at no target.
LEMMA FramesStay ==
    ASSUME NEW s \in SearchRecord, NEW t \in SearchRecord, SearchInv(s), SameRequest(s, t),
           t.frames = s.frames, t.matches = s.matches,
           t.stage \in {"walk", "failed", "complete"}, t.stage = "complete" => s.frames = <<>>
    PROVE  WalkInv(t) /\ ApartInv(t) /\ MatchesInv(t)
<1>1. Fewer(s, t)
  BY DEF SearchInv, WalkInv, Fewer, Waiting
<1>2. ~ Busy(t)
  BY DEF Busy
<1>3. /\ \A d \in DOMAIN t.frames : Increasing(t.frames[d]) /\ \A a \in Waiting(t, d) : Was(a)
      /\ ApartInv(t) /\ MatchesInv(t)
  BY <1>1, <1>2, FewerKeeps DEF SearchInv, SameRequest
<1> QED BY <1>3 DEF SearchInv, WalkInv, SameRequest

LEMMA EnterDirectory ==
    ASSUME TreeInv, SearchInv(search), search.stage = "enter", There(search.target),
           NEW t, t = [search EXCEPT !.stage = "walk",
                          !.frames = Append(@, Sorted({n \in Children(search.target) : There(n)}))]
    PROVE  SearchInv(t)
<1> DEFINE s == search
           names == {n \in Children(s.target) : There(n)}
           listed == Sorted(names)
           top == Len(s.frames) + 1
<1>1. s \in SearchRecord /\ WalkInv(s) /\ ApartInv(s) /\ MatchesInv(s) /\ FoundInv(s)
  BY DEF SearchInv, WalkInv
<1>2. /\ Len(s.frames) \in Nat /\ DOMAIN s.frames = 1 .. Len(s.frames) /\ s.frames \in Seq(Seq(Nodes))
      /\ s.maxDepth \in Nat /\ s.target \in Places /\ s.matches \in Seq(Nodes \X Nat)
  BY <1>1, FramesTyped DEF SearchRecord
<1>3. names \in SUBSET Nodes /\ \A n \in names : Parent[n] = s.target /\ There(n) /\ Was(n)
  BY ThereWas DEF Children
<1>4. /\ listed \in Seq(Nodes) /\ Range(listed) = names /\ Increasing(listed)
  BY <1>3, SortedLists DEF Increasing
<1> HIDE DEF names, listed
<1>5. /\ t \in SearchRecord /\ SameRequest(s, t) /\ t.stage = "walk" /\ t.truncated = s.truncated
      /\ t.matches = s.matches /\ t.frames = Append(s.frames, listed) /\ t.maxDepth = s.maxDepth
  <2>1. t = [s EXCEPT !.stage = "walk", !.frames = Append(@, listed)]
    BY DEF listed, names
  <2>2. Append(s.frames, listed) \in Seq(Seq(Nodes))
    BY <1>2, <1>4
  <2> QED BY <1>1, <2>1, <2>2 DEF SearchRecord, SearchStages, SameRequest
<1>6. /\ Len(t.frames) = top /\ DOMAIN t.frames = 1 .. top
      /\ t.frames[top] = listed /\ \A d \in DOMAIN s.frames : t.frames[d] = s.frames[d]
  BY <1>2, <1>4, <1>5
<1>7. /\ \A d \in DOMAIN t.frames : d \in DOMAIN s.frames \/ (d = top /\ d \notin DOMAIN s.frames)
      /\ DOMAIN s.frames \subseteq DOMAIN t.frames
  BY <1>2, <1>6
<1>8. Waiting(t, top) = names /\ \A d \in DOMAIN s.frames : Waiting(t, d) = Waiting(s, d)
  BY <1>4, <1>6 DEF Waiting
<1>9. ~ Busy(t)
  BY <1>5 DEF Busy
<1>10. WalkInv(t)
  <2>1. \A d \in DOMAIN t.frames : Increasing(t.frames[d]) /\ \A a \in Waiting(t, d) : Was(a)
    BY <1>1, <1>3, <1>4, <1>6, <1>7, <1>8 DEF WalkInv
  <2>2. top <= s.maxDepth + 1
    BY <1>1, <1>2 DEF WalkInv
  <2> QED BY <1>5, <1>6, <2>1, <2>2 DEF WalkInv
\* Children are apart from each other, and from all that the directory is
\* apart from.
<1>11. ASSUME NEW a \in names
       PROVE  /\ \A b \in names : a # b => Apart(a, b)
              /\ \A d \in DOMAIN s.frames : \A b \in Waiting(s, d) : Apart(a, b) /\ Apart(b, a)
              /\ Under(a) \subseteq Under(s.target)
  <2>1. Under(a) \subseteq Under(s.target)
    BY <1>3, UnderChild
  <2>2. \A b \in names : a # b => Apart(a, b)
    BY <1>3, SiblingsApart
  <2>3. \A d \in DOMAIN s.frames : \A b \in Waiting(s, d) : Apart(s.target, b)
    BY <1>1 DEF ApartInv, Busy
  <2> QED BY <2>1, <2>2, <2>3 DEF Apart
<1>12. ApartInv(t)
  <2> SUFFICES ASSUME NEW d \in DOMAIN t.frames, NEW e \in DOMAIN t.frames,
                      NEW a \in Waiting(t, d), NEW b \in Waiting(t, e), d # e \/ a # b
               PROVE  Apart(a, b)
      BY <1>9 DEF ApartInv
  <2>1. CASE d \in DOMAIN s.frames /\ e \in DOMAIN s.frames
    BY <1>1, <1>8, <2>1 DEF ApartInv
  <2>2. CASE d = top /\ e \in DOMAIN s.frames
    BY <1>8, <1>11, <2>2
  <2>3. CASE d \in DOMAIN s.frames /\ e = top
    BY <1>8, <1>11, <2>3
  <2>4. CASE d = top /\ e = top
    BY <1>8, <1>11, <2>4
  <2> QED BY <1>7, <2>1, <2>2, <2>3, <2>4
<1>13. MatchesInv(t)
  <2>1. ASSUME NEW m, Behind(s, m)
        PROVE  Behind(t, m)
    <3> SUFFICES ASSUME NEW d \in DOMAIN t.frames, NEW a \in Waiting(t, d)
                 PROVE  m \notin Under(a)
        BY <1>9 DEF Behind
    <3>1. CASE d \in DOMAIN s.frames
      BY <1>8, <2>1, <3>1 DEF Behind
    <3>2. CASE d = top
      <4>1. m \notin Under(s.target)
        BY <2>1 DEF Behind, Busy
      <4> QED BY <1>8, <1>11, <3>2, <4>1
    <3> QED BY <1>7, <3>1, <3>2
  <2>2. \A i \in DOMAIN s.matches : Behind(t, s.matches[i][1])
    BY <1>1, <2>1 DEF MatchesInv
  <2>3. t.matches = s.matches /\ t.maxResults = s.maxResults
    BY <1>5 DEF SameRequest
  <2>4. MatchesInv(s)
    BY <1>1
  <2> QED BY <2>2, <2>3, <2>4, MatchesStay
<1>14. FoundInv(t)
  <2>1. ASSUME NEW n \in Globbed, NEW k \in 1 .. s.maxDepth + 1, NEW way \in [0 .. k -> Places], NEW x,
               seen[n] = {x}, x # Absent, IsWay(s, n, k, way), ~ t.truncated, Ahead(s, k, way)
        PROVE  Accounted(t, n, x) \/ Ahead(t, k, way)
    <3>1. k \in Nat /\ k > 0
      BY <1>2
    <3>2. /\ \A i \in 0 .. k - 1 : way[i] \in Nodes /\ There(way[i])
          /\ \A i \in 1 .. k : way[i] \in Directories /\ way[i] = Parent[way[i - 1]]
          /\ \A i \in 0 .. k : way[i] \in Directories => i \in 1 .. k
      <4>1. Throughout(n)
        BY <2>1 DEF Throughout
      <4>2. s \in SearchRecord /\ IsWay(s, n, k, way)
        BY <1>1, <2>1
      <4> HIDE DEF s
      <4> QED BY <3>1, <4>1, <4>2, WayFacts
    <3>3. CASE \E i \in 0 .. k - 1 : k - i \in DOMAIN s.frames /\ way[i] \in Waiting(s, k - i)
      <4>1. PICK i \in 0 .. k - 1 : k - i \in DOMAIN s.frames /\ way[i] \in Waiting(s, k - i)
        BY <3>3
      <4>2. k - i \in DOMAIN t.frames /\ way[i] \in Waiting(t, k - i)
        BY <1>7, <1>8, <4>1
      <4> QED BY <4>2 DEF Ahead
    <3>4. CASE \E i \in 0 .. k : s.target = way[i] /\ Len(s.frames) = k - i
      <4>1. PICK i \in 0 .. k : s.target = way[i] /\ Len(s.frames) = k - i
        BY <3>4
      <4>2. i \in 1 .. k
        BY <1>1, <3>2, <4>1 DEF WalkInv
      <4>3. i - 1 \in 0 .. k - 1 /\ k - (i - 1) = top
        BY <3>1, <4>1, <4>2
      <4>4. way[i - 1] \in names
        BY <3>2, <4>1, <4>2, <4>3 DEF names, Children
      <4>5. top \in DOMAIN t.frames
        BY <1>2, <1>6
      <4> QED BY <1>8, <4>3, <4>4, <4>5 DEF Ahead
    <3> QED BY <2>1, <3>3, <3>4 DEF Ahead
  <2>2. /\ FoundInv(s) /\ SameRequest(s, t) /\ s.stage \notin {"none", "failed"}
        /\ t.truncated \/ ~ s.truncated
        /\ Range(s.matches) \subseteq Range(t.matches)
    BY <1>1, <1>5
  <2> QED BY <2>1, <2>2, FoundSteps
<1> QED BY <1>10, <1>12, <1>13, <1>14 DEF SearchInv

LEMMA EnterKeeps ==
    ASSUME TreeInv, SearchInv(search), Enter
    PROVE  SearchInv(search)'
<1>1. search \in SearchRecord /\ search.stage = "enter" /\ UNCHANGED <<tree, seen>>
  BY DEF SearchInv, WalkInv, Enter
<1>2. ASSUME NEW t, \/ t = [search EXCEPT !.stage = "walk", !.truncated = TRUE]
                    \/ t = [search EXCEPT !.stage = "failed"]
      PROVE  SearchInv(t)
  <2>1. /\ t \in SearchRecord /\ SameRequest(search, t) /\ t.frames = search.frames
        /\ t.matches = search.matches /\ t.stage \in {"walk", "failed"}
        /\ t.truncated \/ t.stage = "failed"
    <3>1. CASE t = [search EXCEPT !.stage = "walk", !.truncated = TRUE]
      BY <1>1, <3>1 DEF SearchRecord, SearchStages, SameRequest
    <3>2. CASE t = [search EXCEPT !.stage = "failed"]
      BY <1>1, <3>2 DEF SearchRecord, SearchStages, SameRequest
    <3> QED BY <1>2, <3>1, <3>2
  <2>2. FoundInv(t)
    BY <2>1 DEF FoundInv
  <2> QED BY <1>1, <2>1, <2>2, FramesStay DEF SearchInv
<1>3. SearchInv(search')
  BY <1>1, <1>2, EnterDirectory DEF Enter
<1> QED BY <1>1, <1>3, SearchSame

LEMMA DescendKeeps ==
    ASSUME TreeInv, SearchInv(search), Descend
    PROVE  SearchInv(search)'
<1> DEFINE s == search
           t == search'
<1> SUFFICES SearchInv(t)
    BY SearchSame DEF Descend
<1>1. s \in SearchRecord /\ s.stage = "descend" /\ UNCHANGED <<tree, seen>>
  BY DEF SearchInv, WalkInv, Descend
<1>2. t = [s EXCEPT !.stage = IF There(s.target) THEN "enter" ELSE "walk"]
  BY DEF Descend
<1>3. /\ t \in SearchRecord /\ SameRequest(s, t) /\ t.frames = s.frames /\ t.matches = s.matches
      /\ t.target = s.target /\ t.truncated = s.truncated
      /\ t.stage = IF There(s.target) THEN "enter" ELSE "walk"
  BY <1>1, <1>2 DEF SearchRecord, SearchStages, SameRequest
<1> HIDE DEF s, t
<1>4. CASE There(s.target)
  <2>1. t.stage = "enter" /\ WalkInv(s) /\ ApartInv(s) /\ MatchesInv(s) /\ FoundInv(s)
    BY <1>3, <1>4 DEF SearchInv, s
  <2>2. WalkInv(t)
    BY <1>1, <1>3, <2>1 DEF WalkInv, Waiting, SameRequest
  <2>3. ApartInv(t)
    BY <1>1, <1>3, <2>1 DEF ApartInv, Waiting, Busy
  <2>4. \A m : Behind(s, m) => Behind(t, m)
    BY <1>1, <1>3, <2>1 DEF Behind, Waiting, Busy
  <2>5. MatchesInv(t)
    BY <1>3, <2>1, <2>4 DEF MatchesInv, SameRequest
  <2>6. \A k, way : Ahead(s, k, way) => Ahead(t, k, way)
    BY <1>1, <1>3, <2>1 DEF Ahead, Waiting, Busy
  <2>7. FoundInv(t)
    BY <1>1, <1>3, <2>1, <2>6, FoundSteps
  <2> QED BY <2>2, <2>3, <2>5, <2>7 DEF SearchInv
<1>5. CASE ~ There(s.target)
  <2>1. WalkInv(t) /\ ApartInv(t) /\ MatchesInv(t)
    BY <1>1, <1>3, <1>5, FramesStay DEF s
  <2>2. ASSUME NEW n \in Globbed, NEW k \in 1 .. s.maxDepth + 1, NEW way \in [0 .. k -> Places], NEW x,
               seen[n] = {x}, x # Absent, IsWay(s, n, k, way), ~ t.truncated, Ahead(s, k, way)
        PROVE  Accounted(t, n, x) \/ Ahead(t, k, way)
    <3>1. k \in Nat /\ k > 0 /\ Len(s.frames) \in Nat /\ Len(s.frames) > 0
      <4>1. s.maxDepth \in Nat /\ s.frames \in Seq(Seq(Nodes)) /\ s.frames # <<>>
        BY <1>1 DEF SearchRecord, SearchInv, WalkInv, s
      <4> QED BY <4>1
    <3>2. \A i \in 0 .. k - 1 : There(way[i])
      <4>1. Throughout(n)
        BY <2>2 DEF Throughout
      <4> QED BY <1>1, <2>2, <3>1, <4>1, WayFacts
    <3>3. ASSUME NEW i \in 0 .. k, s.target = way[i], Len(s.frames) = k - i
          PROVE  FALSE
      <4>1. i \in 0 .. k - 1
        BY <3>1, <3>3
      <4> QED BY <1>5, <3>2, <3>3, <4>1
    <3> QED BY <1>3, <2>2, <3>3 DEF Ahead, Waiting
  <2>3. FoundInv(t)
    BY <1>1, <1>3, <2>2, FoundSteps DEF SearchInv, s
  <2> QED BY <2>1, <2>3 DEF SearchInv
<1> QED BY <1>4, <1>5

\* The first entry of the innermost frame is taken, and apart from all others.
LEMMA TakeEntry ==
    ASSUME SearchInv(search), search.stage = "walk", search.frames # <<>>, Top(search) # <<>>,
           NEW s, s = [search EXCEPT !.scannedEntries = @ + 1,
                          !.frames[Len(search.frames)] = Tail(@)]
    PROVE  LET n == Head(Top(search))
           IN  /\ s \in SearchRecord /\ SameRequest(search, s) /\ Len(s.frames) = Len(search.frames)
               /\ s.frames # <<>> /\ s.stage = "walk" /\ s.matches = search.matches
               /\ s.truncated = search.truncated
               /\ DOMAIN s.frames = DOMAIN search.frames /\ Fewer(search, s)
               /\ n \in Nodes /\ Was(n)
               /\ \A d \in DOMAIN s.frames : \A a \in Waiting(s, d) : Apart(n, a)
               /\ \A i \in DOMAIN search.matches : search.matches[i][1] \notin Under(n)
               /\ \A d \in DOMAIN search.frames : \A a \in Waiting(search, d) :
                     a \in Waiting(s, d) \/ (a = n /\ d = Len(search.frames))
<1> DEFINE top == Len(search.frames)
           frame == search.frames[top]
           n == Head(frame)
<1>1. /\ search \in SearchRecord /\ WalkInv(search) /\ ApartInv(search) /\ MatchesInv(search)
  BY DEF SearchInv, WalkInv
<1>2. /\ top \in Nat /\ search.frames \in Seq(Seq(Nodes)) /\ DOMAIN search.frames = 1 .. top
      /\ top \in DOMAIN search.frames /\ search.scannedEntries \in Nat
  <2>1. search.frames \in Seq(Seq(Nodes)) /\ search.scannedEntries \in Nat
    BY <1>1 DEF SearchRecord
  <2> QED BY <2>1
<1>3. Top(search) = frame
  BY <1>2 DEF Top, Last
<1>4. /\ frame \in Seq(Nodes) /\ frame # <<>> /\ Len(frame) \in Nat /\ Len(frame) > 0 /\ n = frame[1]
      /\ Tail(frame) \in Seq(Nodes) /\ DOMAIN frame = 1 .. Len(frame)
      /\ DOMAIN Tail(frame) = 1 .. Len(frame) - 1
      /\ \A i \in 1 .. Len(frame) - 1 : Tail(frame)[i] = frame[i + 1]
  <2>1. frame \in Seq(Nodes) /\ frame # <<>>
    BY <1>2, <1>3
  <2> HIDE DEF frame
  <2> QED BY <2>1, HeadTailProperties
<1>5. Increasing(frame) /\ \A i \in 1 .. Len(frame) : frame[i] \in Waiting(search, top)
  BY <1>1, <1>2, <1>4 DEF WalkInv, Waiting, Range
<1> DEFINE frames == [search.frames EXCEPT ![top] = Tail(@)]
<1>6. /\ frames \in Seq(Seq(Nodes)) /\ Len(frames) = top /\ DOMAIN frames = 1 .. top
      /\ frames[top] = Tail(frame) /\ \A d \in 1 .. top : d # top => frames[d] = search.frames[d]
  BY <1>2, <1>4
<1>7. /\ s \in SearchRecord /\ SameRequest(search, s) /\ s.frames = frames
      /\ s.stage = "walk" /\ s.matches = search.matches /\ s.truncated = search.truncated
  <2>1. s = [search EXCEPT !.scannedEntries = @ + 1, !.frames = frames]
    BY <1>1 DEF SearchRecord
  <2>2. frames \in Seq(Seq(Nodes)) /\ search.scannedEntries + 1 \in Nat
    BY <1>2, <1>6
  <2> HIDE DEF frames
  <2> QED BY <1>1, <2>1, <2>2 DEF SearchRecord, SameRequest
<1> HIDE DEF frames, frame, top
<1>8. n \in Waiting(search, top) /\ n \in Nodes
  BY <1>4, <1>5
\* In the frame it was in, the others come behind it.
<1>9. ASSUME NEW a \in Range(Tail(frame))
      PROVE  a \in Waiting(search, top) /\ a # n
  <2>1. PICK i \in 1 .. Len(frame) - 1 : a = frame[i + 1]
    BY <1>4 DEF Range
  <2>2. i + 1 \in 1 .. Len(frame) /\ 1 \in 1 .. Len(frame) /\ 1 < i + 1
    BY <1>4
  <2>3. frame[1] < frame[i + 1] /\ frame[1] \in Nat /\ frame[i + 1] \in Nat
    BY <1>4, <1>5, <2>2, NodesAreNatural DEF Increasing
  <2> QED BY <1>4, <1>5, <2>1, <2>2, <2>3
<1>10. Increasing(Tail(frame))
  <2> SUFFICES ASSUME NEW i \in 1 .. Len(frame) - 1, NEW j \in 1 .. Len(frame) - 1, i < j
               PROVE  Tail(frame)[i] < Tail(frame)[j]
      BY <1>4 DEF Increasing
  <2>1. i + 1 \in 1 .. Len(frame) /\ j + 1 \in 1 .. Len(frame) /\ i + 1 < j + 1
    BY <1>4
  <2> QED BY <1>4, <1>5, <2>1 DEF Increasing
<1>11. Waiting(s, top) = Range(Tail(frame)) /\ \A d \in 1 .. top : d # top => Waiting(s, d) = Waiting(search, d)
  BY <1>2, <1>6, <1>7 DEF Waiting
<1>12. Fewer(search, s)
  <2> SUFFICES ASSUME NEW d \in 1 .. top
               PROVE  Waiting(s, d) \subseteq Waiting(search, d) /\ Increasing(s.frames[d])
      BY <1>2, <1>6, <1>7 DEF Fewer
  <2>1. CASE d = top
    BY <1>6, <1>7, <1>9, <1>10, <1>11, <2>1
  <2>2. CASE d # top
    BY <1>1, <1>2, <1>6, <1>7, <1>11, <2>2 DEF WalkInv
  <2> QED BY <2>1, <2>2
<1>13. \A d \in 1 .. top : \A a \in Waiting(s, d) : Apart(n, a)
  <2> SUFFICES ASSUME NEW d \in 1 .. top, NEW a \in Waiting(s, d)
               PROVE  Apart(n, a)
      OBVIOUS
  <2>1. CASE d = top
    BY <1>1, <1>2, <1>8, <1>9, <1>11, <2>1 DEF ApartInv
  <2>2. CASE d # top
    BY <1>1, <1>2, <1>8, <1>11, <2>2 DEF ApartInv
  <2> QED BY <2>1, <2>2
<1>14. \A i \in DOMAIN search.matches : search.matches[i][1] \notin Under(n)
  BY <1>1, <1>2, <1>8 DEF MatchesInv, Behind
<1>15. \A d \in 1 .. top : \A a \in Waiting(search, d) : a \in Waiting(s, d) \/ (a = n /\ d = top)
  <2> SUFFICES ASSUME NEW a \in Waiting(search, top), a # n
               PROVE  a \in Range(Tail(frame))
      BY <1>11
  <2>1. PICK i \in 1 .. Len(frame) : a = frame[i]
    BY <1>4 DEF Waiting, Range, frame
  <2>2. i - 1 \in 1 .. Len(frame) - 1 /\ (i - 1) + 1 = i
    BY <1>4, <2>1
  <2>3. a = Tail(frame)[i - 1] /\ i - 1 \in DOMAIN Tail(frame)
    BY <1>4, <2>1, <2>2
  <2> QED BY <2>3 DEF Range
<1>16. Was(n)
  BY <1>1, <1>2, <1>8 DEF WalkInv
<1>17. s.frames # <<>> /\ Len(s.frames) = top /\ DOMAIN s.frames = 1 .. top
  <2>1. top > 0
    BY <1>2
  <2> QED BY <1>6, <1>7, <2>1
<1> QED BY <1>2, <1>3, <1>7, <1>8, <1>12, <1>13, <1>14, <1>15, <1>16, <1>17 DEF top

LEMMA PopFrame ==
    ASSUME NEW s \in SearchRecord, s.frames # <<>>
    PROVE  /\ Pop(s) \in SearchRecord /\ SameRequest(s, Pop(s)) /\ Pop(s).matches = s.matches
           /\ Pop(s).stage = s.stage /\ Pop(s).truncated = s.truncated
           /\ DOMAIN Pop(s).frames = 1 .. Len(s.frames) - 1 /\ Len(Pop(s).frames) = Len(s.frames) - 1
           /\ \A d \in 1 .. Len(s.frames) - 1 : Pop(s).frames[d] = s.frames[d]
<1> DEFINE front == Front(s.frames)
<1>1. s.frames \in Seq(Seq(Nodes)) /\ Len(s.frames) \in Nat /\ Len(s.frames) > 0
  <2>1. s.frames \in Seq(Seq(Nodes))
    BY DEF SearchRecord
  <2> QED BY <2>1
<1>2. /\ front \in Seq(Seq(Nodes)) /\ Len(front) = Len(s.frames) - 1 /\ DOMAIN front = 1 .. Len(s.frames) - 1
      /\ \A d \in 1 .. Len(s.frames) - 1 : front[d] = s.frames[d]
  BY <1>1 DEF Front
<1> HIDE DEF front
<1>3. Pop(s) = [s EXCEPT !.frames = front]
  BY DEF Pop, front
<1> QED BY <1>2, <1>3 DEF SearchRecord, SameRequest

LEMMA VisitedCases ==
    ASSUME NEW s \in SearchRecord, NEW n \in Nodes
    PROVE  LET t == Visited(s, n)
           IN  \/ t = Pop([s EXCEPT !.truncated = TRUE])
               \/ /\ Kind[n] = "directory" /\ Depth(s) < s.maxDepth
                  /\ t = [s EXCEPT !.stage = "descend", !.target = n]
               \/ n \in Globbed /\ s.byQuery /\ t = [s EXCEPT !.stage = "open", !.target = n]
               \/ n \in Globbed /\ ~ s.byQuery /\ t = AppendSearchMatch(s, n, 0)
               \/ /\ ~ (Kind[n] = "directory" /\ Depth(s) < s.maxDepth)
                  /\ n \notin Globbed /\ t = s
<1>1. s.scannedEntries \in Nat /\ s.maxEntries \in Nat
  BY DEF SearchRecord
<1>2. n \in Globbed => Kind[n] = "file"
  BY GlobbedAreFiles
<1> DEFINE tooMany == s.scannedEntries > s.maxEntries
           deeper == Kind[n] = "directory" /\ Depth(s) < s.maxDepth
<1>3. s.scannedEntries <= s.maxEntries <=> ~ tooMany
  BY <1>1
<1>4. CASE tooMany
  BY <1>3, <1>4 DEF Visited
<1>5. CASE ~ tooMany /\ deeper
  BY <1>3, <1>5 DEF Visited
<1>6. CASE ~ tooMany /\ ~ deeper /\ n \in Globbed
  BY <1>2, <1>3, <1>6 DEF Visited
<1>7. CASE ~ tooMany /\ ~ deeper /\ n \notin Globbed
  BY <1>3, <1>7 DEF Visited
<1> QED BY <1>4, <1>5, <1>6, <1>7

LEMMA VisitKeeps ==
    ASSUME TreeInv, SearchInv(search), Visit
    PROVE  SearchInv(search)'
<1> DEFINE n == Head(Top(search))
           s == [search EXCEPT !.scannedEntries = @ + 1, !.frames[Len(search.frames)] = Tail(@)]
           t == search'
           top == Len(search.frames)
<1>1. /\ UNCHANGED <<tree, seen>> /\ t = Visited(s, n)
      /\ search.stage = "walk" /\ search.frames # <<>> /\ Top(search) # <<>>
  BY DEF Visit
<1>2. SUFFICES SearchInv(t)
  BY <1>1, SearchSame
<1>3. /\ s \in SearchRecord /\ SameRequest(search, s) /\ Len(s.frames) = top
      /\ s.frames # <<>> /\ s.stage = "walk" /\ s.matches = search.matches
      /\ s.truncated = search.truncated
      /\ DOMAIN s.frames = DOMAIN search.frames /\ Fewer(search, s)
      /\ n \in Nodes /\ Was(n)
      /\ \A d \in DOMAIN s.frames : \A a \in Waiting(s, d) : Apart(n, a)
      /\ \A i \in DOMAIN search.matches : search.matches[i][1] \notin Under(n)
      /\ \A d \in DOMAIN search.frames : \A a \in Waiting(search, d) :
            a \in Waiting(s, d) \/ (a = n /\ d = top)
  BY <1>1, TakeEntry
<1>4. /\ search \in SearchRecord /\ WalkInv(search) /\ ApartInv(search) /\ MatchesInv(search)
      /\ FoundInv(search) /\ top \in Nat /\ search.maxDepth \in Nat /\ DOMAIN search.frames = 1 .. top
      /\ top <= search.maxDepth + 1 /\ top > 0
  <2>1. search.frames \in Seq(Seq(Nodes)) /\ search.maxDepth \in Nat
    BY DEF SearchInv, WalkInv, SearchRecord
  <2> QED BY <1>1, <2>1 DEF SearchInv, WalkInv
<1> HIDE DEF s, n, t, top
<1>5. WalkInv(s) /\ ApartInv(s) /\ MatchesInv(s)
  <2>1. ~ Busy(s)
    BY <1>3 DEF Busy
  <2>2. /\ \A d \in DOMAIN s.frames : Increasing(s.frames[d]) /\ \A a \in Waiting(s, d) : Was(a)
        /\ ApartInv(s) /\ MatchesInv(s)
    BY <1>3, <1>4, <2>1, FewerKeeps DEF SameRequest
  <2> QED BY <1>3, <1>4, <2>2 DEF WalkInv, SameRequest
\* What was ahead is still in the frames, or it is the entry taken.
<1>6. ASSUME NEW k, NEW way, Ahead(search, k, way)
      PROVE  \/ \E i \in 0 .. k - 1 : k - i \in DOMAIN s.frames /\ way[i] \in Waiting(s, k - i)
             \/ \E i \in 0 .. k - 1 : k - i = top /\ way[i] = n
  <2>1. PICK i \in 0 .. k - 1 : k - i \in DOMAIN search.frames /\ way[i] \in Waiting(search, k - i)
    BY <1>1, <1>6 DEF Ahead, Busy
  <2> QED BY <1>3, <2>1
<1>7. CASE t = Pop([s EXCEPT !.truncated = TRUE])
  <2> DEFINE u == [s EXCEPT !.truncated = TRUE]
  <2>1. /\ u \in SearchRecord /\ SameRequest(s, u) /\ u.frames = s.frames /\ u.matches = s.matches
        /\ u.stage = s.stage /\ u.truncated
    <3>1. s \in SearchRecord
      BY <1>3
    <3> QED BY <3>1 DEF SearchRecord, SameRequest
  <2> HIDE DEF u
  <2>2. /\ t \in SearchRecord /\ SameRequest(u, t) /\ t.matches = u.matches /\ t.stage = u.stage /\ t.truncated
        /\ DOMAIN t.frames = 1 .. top - 1 /\ Len(t.frames) = top - 1
        /\ \A d \in 1 .. top - 1 : t.frames[d] = u.frames[d]
    <3>1. t = Pop(u)
      BY <1>7 DEF u
    <3>2. u.frames # <<>> /\ Len(u.frames) = top
      BY <1>3, <2>1
    <3> QED BY <2>1, <3>1, <3>2, PopFrame
  <2>3. SameRequest(search, t) /\ t.stage = "walk" /\ ~ Busy(t) /\ t.matches = search.matches
    BY <1>3, <2>1, <2>2 DEF SameRequest, Busy
  <2>4. Fewer(search, t)
    <3> SUFFICES ASSUME NEW d \in 1 .. top - 1
                 PROVE  /\ d \in DOMAIN search.frames /\ Waiting(t, d) \subseteq Waiting(search, d)
                        /\ Increasing(t.frames[d])
        BY <2>2 DEF Fewer
    <3>1. d \in 1 .. top
      BY <1>4
    <3>2. t.frames[d] = s.frames[d]
      BY <2>1, <2>2
    <3> QED BY <1>3, <1>4, <3>1, <3>2 DEF Fewer, Waiting
  <2>5. /\ \A d \in DOMAIN t.frames : Increasing(t.frames[d]) /\ \A a \in Waiting(t, d) : Was(a)
        /\ ApartInv(t) /\ MatchesInv(t)
    BY <1>4, <2>2, <2>3, <2>4, FewerKeeps DEF SameRequest
  <2>6. WalkInv(t)
    BY <1>4, <2>2, <2>3, <2>5 DEF WalkInv, SameRequest
  <2>7. FoundInv(t)
    BY <2>2 DEF FoundInv
  <2> QED BY <2>5, <2>6, <2>7 DEF SearchInv
\* The entry becomes the target.
<1>8. ASSUME \/ /\ Kind[n] = "directory" /\ Depth(s) < s.maxDepth
                /\ t = [s EXCEPT !.stage = "descend", !.target = n]
             \/ n \in Globbed /\ s.byQuery /\ t = [s EXCEPT !.stage = "open", !.target = n]
      PROVE  SearchInv(t)
  <2>1. /\ t \in SearchRecord /\ SameRequest(s, t) /\ t.frames = s.frames /\ t.matches = s.matches
        /\ t.target = n /\ t.truncated = s.truncated
        /\ \/ Kind[n] = "directory" /\ Depth(s) < s.maxDepth /\ t.stage = "descend"
           \/ n \in Globbed /\ s.byQuery /\ t.stage = "open"
    <3>1. s \in SearchRecord /\ n \in Places
      BY <1>3 DEF Places
    <3>2. CASE Kind[n] = "directory" /\ Depth(s) < s.maxDepth /\ t = [s EXCEPT !.stage = "descend", !.target = n]
      BY <3>1, <3>2 DEF SearchRecord, SearchStages, SameRequest
    <3>3. CASE n \in Globbed /\ s.byQuery /\ t = [s EXCEPT !.stage = "open", !.target = n]
      BY <3>1, <3>3 DEF SearchRecord, SearchStages, SameRequest
    <3> QED BY <1>8, <3>2, <3>3
  <2>2. SameRequest(search, t) /\ t.matches = search.matches /\ Busy(t)
    BY <1>3, <2>1 DEF SameRequest, Busy
  <2>3. Fewer(search, t)
    BY <1>3, <2>1 DEF Fewer, Waiting
  <2>4. \A d \in DOMAIN t.frames : \A a \in Waiting(t, d) : Apart(t.target, a)
    BY <1>3, <2>1 DEF Waiting
  <2>5. \A i \in DOMAIN search.matches : search.matches[i][1] \notin Under(t.target)
    BY <1>3, <2>1
  <2>6. /\ \A d \in DOMAIN t.frames : Increasing(t.frames[d]) /\ \A a \in Waiting(t, d) : Was(a)
        /\ ApartInv(t) /\ MatchesInv(t)
    BY <1>4, <2>1, <2>2, <2>3, <2>4, <2>5, FewerKeeps DEF SameRequest
  <2>7. WalkInv(t)
    <3>1. t.stage = "descend" => Len(t.frames) <= t.maxDepth /\ t.target \in Directories
      <4> SUFFICES ASSUME t.stage = "descend"
                   PROVE  Len(t.frames) <= t.maxDepth /\ t.target \in Directories
          OBVIOUS
      <4>1. Kind[n] = "directory" /\ top - 1 < s.maxDepth /\ s.maxDepth = search.maxDepth
        BY <1>3, <2>1 DEF Depth, SameRequest
      <4>2. t.target \in Directories
        BY <1>3, <2>1, <4>1 DEF Directories
      <4> QED BY <1>3, <1>4, <2>1, <4>1, <4>2 DEF SameRequest
    <3>2. t.stage # "enter" /\ t.stage # "none" /\ t.stage # "complete"
      BY <2>1
    <3>3. Len(t.frames) <= t.maxDepth + 1
      BY <1>3, <1>4, <2>1, <2>2 DEF SameRequest
    <3>4. t.stage = "open" => t.target \in Globbed /\ t.byQuery
      BY <2>1 DEF SameRequest
    <3> QED BY <1>3, <2>1, <2>6, <3>1, <3>2, <3>3, <3>4 DEF WalkInv
  <2>8. FoundInv(t)
    <3>1. ASSUME NEW k \in 1 .. search.maxDepth + 1, NEW way, Ahead(search, k, way)
          PROVE  Ahead(t, k, way)
      <4>1. CASE \E i \in 0 .. k - 1 : k - i \in DOMAIN s.frames /\ way[i] \in Waiting(s, k - i)
        BY <2>1, <4>1 DEF Ahead, Waiting
      <4>2. CASE \E i \in 0 .. k - 1 : k - i = top /\ way[i] = n
        <5>1. PICK i \in 0 .. k - 1 : k - i = top /\ way[i] = n
          BY <4>2
        <5>2. i \in 0 .. k
          BY <1>4
        <5> QED BY <1>3, <2>1, <2>2, <5>1, <5>2 DEF Ahead
      <4> QED BY <1>6, <3>1, <4>1, <4>2
    <3> QED BY <1>1, <1>3, <1>4, <2>1, <2>2, <3>1, FoundSteps
  <2> QED BY <2>6, <2>7, <2>8 DEF SearchInv
\* A file that was asked for by its path only is a match.
<1>9. CASE n \in Globbed /\ ~ s.byQuery /\ t = AppendSearchMatch(s, n, 0)
  <2>1. Adds(s, t, n, {0})
    <3>1. Adds(s, s, n, {}) /\ 0 \in Nat /\ {} \in SUBSET Nat /\ {} \cup {0} = {0}
      BY <1>3, AddsNothing
    <3>2. Adds(s, AppendSearchMatch(s, n, 0), n, {} \cup {0})
      BY <1>3, <3>1, AddsOneMore
    <3> QED BY <1>9, <3>1, <3>2
  <2>2. t \in SearchRecord /\ SameWalk(s, t) /\ (~ t.truncated => ~ s.truncated)
    BY <2>1 DEF Adds
  <2>3. Real(<<n, 0>>)
    <3>1. PICK x \in seen[n] : x # Absent
      BY <1>3 DEF Was
    <3> QED BY <3>1 DEF Real
  <2>4. Behind(s, n)
    <3>1. \A d \in DOMAIN s.frames : \A a \in Waiting(s, d) : a \in Places
      BY <1>3, FramesTyped
    <3>2. n \in Places
      BY <1>3 DEF Places
    <3> QED BY <1>3, <3>1, <3>2, ApartFacts DEF Behind, Busy
  <2>5. \A i \in DOMAIN s.matches : s.matches[i][1] # n
    BY <1>3, UnderItself DEF Places
  <2>6. WalkInv(t) /\ ApartInv(t) /\ MatchesInv(t)
    <3>1. \A k \in {0} : Real(<<n, k>>)
      BY <2>3
    <3> QED BY <1>3, <1>5, <2>1, <2>2, <2>4, <2>5, <3>1, AddsKeep
  <2>7. /\ SameRequest(search, t) /\ Range(search.matches) \subseteq Range(t.matches)
        /\ ~ t.truncated => <<n, 0>> \in Range(t.matches)
    <3>1. /\ Len(s.matches) \in Nat /\ DOMAIN s.matches = 1 .. Len(s.matches)
          /\ Len(t.matches) \in Nat /\ DOMAIN t.matches = 1 .. Len(t.matches)
      BY <1>3, <2>2, FramesTyped
    <3>2. SameRequest(search, t)
      BY <1>3, <2>2 DEF SameWalk, SameRequest
    <3> QED BY <1>3, <2>1, <3>1, <3>2 DEF Adds, Range
  <2>8. ASSUME NEW m \in Globbed, NEW k \in 1 .. search.maxDepth + 1, NEW way \in [0 .. k -> Places], NEW x,
               seen[m] = {x}, x # Absent, IsWay(search, m, k, way), ~ t.truncated, Ahead(search, k, way)
        PROVE  Accounted(t, m, x) \/ Ahead(t, k, way)
    <3>1. CASE \E i \in 0 .. k - 1 : k - i \in DOMAIN s.frames /\ way[i] \in Waiting(s, k - i)
      BY <2>2, <3>1 DEF Ahead, Waiting, SameWalk
    <3>2. CASE \E i \in 0 .. k - 1 : k - i = top /\ way[i] = n
      <4>1. PICK i \in 0 .. k - 1 : k - i = top /\ way[i] = n
        BY <3>2
      <4>2. k \in Nat /\ k > 0 /\ i \in 0 .. k /\ Throughout(m)
        BY <1>4, <2>8 DEF Throughout
      <4>3. i = 0
        BY <1>4, <1>9, <2>8, <4>1, <4>2, WayFacts
      <4>4. m = n
        BY <2>8, <4>1, <4>3 DEF IsWay
      <4>5. ~ t.byQuery
        BY <1>9, <2>2 DEF SameWalk
      <4> QED BY <2>7, <2>8, <4>4, <4>5 DEF Accounted
    <3> QED BY <1>6, <2>8, <3>1, <3>2
  <2>9. FoundInv(t)
    BY <1>1, <1>3, <1>4, <2>2, <2>7, <2>8, FoundSteps
  <2> QED BY <2>6, <2>9 DEF SearchInv
\* Anything else is passed over, and nothing of a way is.
<1>10. CASE /\ ~ (Kind[n] = "directory" /\ Depth(s) < s.maxDepth)
            /\ n \notin Globbed /\ t = s
  <2>1. ASSUME NEW m \in Globbed, NEW k \in 1 .. search.maxDepth + 1, NEW way \in [0 .. k -> Places], NEW x,
               seen[m] = {x}, x # Absent, IsWay(search, m, k, way), ~ s.truncated, Ahead(search, k, way)
        PROVE  Accounted(s, m, x) \/ Ahead(s, k, way)
    <3>1. ASSUME NEW i \in 0 .. k - 1, k - i = top, way[i] = n
          PROVE  FALSE
      <4>1. k \in Nat /\ k > 0 /\ i \in 0 .. k /\ Throughout(m)
        BY <1>4, <2>1 DEF Throughout
      <4>2. i # 0
        BY <1>10, <2>1, <3>1 DEF IsWay
      <4>3. i \in 1 .. k
        BY <4>1, <4>2
      <4>4. way[i] \in Directories
        BY <1>4, <2>1, <4>1, <4>3, WayFacts
      <4>5. Kind[n] = "directory"
        BY <1>3, <3>1, <4>4, NodesAreNatural DEF Directories
      <4>6. top - 1 < search.maxDepth /\ s.maxDepth = search.maxDepth
        BY <1>3, <1>4, <3>1, <4>1, <4>3 DEF SameRequest
      <4> QED BY <1>3, <1>10, <4>5, <4>6 DEF Depth
    <3> QED BY <1>6, <2>1, <3>1 DEF Ahead
  <2>2. FoundInv(s)
    BY <1>1, <1>3, <1>4, <2>1, FoundSteps
  <2> QED BY <1>5, <1>10, <2>2 DEF SearchInv
<1>11. \/ t = Pop([s EXCEPT !.truncated = TRUE])
       \/ /\ Kind[n] = "directory" /\ Depth(s) < s.maxDepth
          /\ t = [s EXCEPT !.stage = "descend", !.target = n]
       \/ n \in Globbed /\ s.byQuery /\ t = [s EXCEPT !.stage = "open", !.target = n]
       \/ n \in Globbed /\ ~ s.byQuery /\ t = AppendSearchMatch(s, n, 0)
       \/ /\ ~ (Kind[n] = "directory" /\ Depth(s) < s.maxDepth)
          /\ n \notin Globbed /\ t = s
  BY <1>1, <1>3, VisitedCases
<1> QED BY <1>7, <1>8, <1>9, <1>10, <1>11

\* What a search knows of the file it looks at, once it is done with it.
TargetDone(t) ==
    \A x : seen[search.target] = {x} /\ x # Absent /\ ~ t.truncated => Accounted(t, search.target, x)

\* The file the search looks at is the way's file, or no part of the way.
LEMMA TargetLeft ==
    ASSUME TreeInv, SearchInv(search), search.stage \in {"open", "read"},
           NEW t, SameRequest(search, t), t.frames = search.frames, t.truncated \/ ~ search.truncated,
           Range(search.matches) \subseteq Range(t.matches), TargetDone(t)
    PROVE  FoundInv(t)
<1> DEFINE n == search.target
<1>1. /\ search \in SearchRecord /\ WalkInv(search) /\ FoundInv(search)
      /\ n \in Globbed /\ search.maxDepth \in Nat
  BY DEF SearchInv, WalkInv, SearchRecord
<1> HIDE DEF n
<1>2. ASSUME NEW m \in Globbed, NEW k \in 1 .. search.maxDepth + 1, NEW way \in [0 .. k -> Places], NEW x,
             seen[m] = {x}, x # Absent, IsWay(search, m, k, way), ~ t.truncated, Ahead(search, k, way)
      PROVE  Accounted(t, m, x) \/ Ahead(t, k, way)
  <2>1. CASE \E i \in 0 .. k - 1 : k - i \in DOMAIN search.frames /\ way[i] \in Waiting(search, k - i)
    BY <2>1 DEF Ahead, Waiting
  <2>2. CASE \E i \in 0 .. k : n = way[i]
    <3>1. PICK i \in 0 .. k : n = way[i]
      BY <2>2
    <3>2. k \in Nat /\ k > 0 /\ Throughout(m)
      BY <1>1, <1>2 DEF Throughout
    <3>3. i = 0
      BY <1>1, <1>2, <3>1, <3>2, WayFacts
    <3>4. m = n
      BY <1>2, <3>1, <3>3 DEF IsWay
    <3> QED BY <1>2, <3>4 DEF TargetDone, n
  <2> QED BY <1>2, <2>1, <2>2 DEF Ahead, n
<1>3. search.stage \notin {"none", "failed"}
  OBVIOUS
<1> QED BY <1>1, <1>2, <1>3, FoundSteps

LEMMA OpenSearchedKeeps ==
    ASSUME TreeInv, SearchInv(search), OpenSearched
    PROVE  SearchInv(search)'
<1> DEFINE n == search.target
           s == search
           t == search'
           found == There(n) /\ Opens(n)
           long == Len(tree[n].bytes) > s.maxFileBytes
<1>1. /\ UNCHANGED <<tree, seen>> /\ s.stage = "open"
      /\ t = IF ~ There(n) \/ ~ Opens(n) THEN [s EXCEPT !.stage = "walk"]
             ELSE IF long THEN [s EXCEPT !.stage = "walk", !.skippedOversized = @ \cup {n}]
             ELSE [s EXCEPT !.stage = "read", !.opened = tree[n]]
  BY DEF OpenSearched
<1>2. SUFFICES SearchInv(t)
  BY <1>1, SearchSame
<1>3. /\ s \in SearchRecord /\ WalkInv(s) /\ ApartInv(s) /\ MatchesInv(s) /\ FoundInv(s)
      /\ n \in Globbed /\ n \in Nodes /\ Kind[n] = "file" /\ s.byQuery /\ s.maxFileBytes \in Nat
  BY <1>1, GlobbedAreFiles DEF SearchInv, WalkInv, SearchRecord
<1>4. /\ There(n) <=> tree[n] # Absent
      /\ Opens(n) <=> tree[n].opens
      /\ tree[n] \in seen[n]
      /\ There(n) => tree[n] \in FileStates
  BY <1>3, ThereWas, FileIsThere, NodesAreNatural DEF Opens, TreeInv
<1> HIDE DEF long
<1>5. CASE ~ found \/ long
  <2>1. /\ t \in SearchRecord /\ SameRequest(s, t) /\ t.frames = s.frames /\ t.matches = s.matches
        /\ t.stage = "walk" /\ t.truncated = s.truncated
        /\ ~ found \/ n \in t.skippedOversized
    <3>1. CASE ~ found
      <4>1. t = [s EXCEPT !.stage = "walk"]
        BY <1>1, <3>1
      <4> HIDE DEF t
      <4> QED BY <1>3, <3>1, <4>1 DEF SearchRecord, SearchStages, SameRequest
    <3>2. CASE found /\ long
      <4>1. t = [s EXCEPT !.stage = "walk", !.skippedOversized = @ \cup {n}]
        BY <1>1, <3>2
      <4>2. s.skippedOversized \cup {n} \in SUBSET Globbed
        BY <1>3 DEF SearchRecord
      <4> HIDE DEF t, n
      <4> QED BY <1>3, <4>1, <4>2 DEF SearchRecord, SearchStages, SameRequest
    <3> QED BY <1>5, <3>1, <3>2
  <2> HIDE DEF t
  <2>2. WalkInv(t) /\ ApartInv(t) /\ MatchesInv(t)
    BY <1>3, <2>1, FramesStay
  <2>3. ASSUME NEW x, seen[n] = {x}, x # Absent
        PROVE  Accounted(t, n, x)
    <3>1. x = tree[n] /\ There(n) /\ t.byQuery /\ t.maxFileBytes = s.maxFileBytes
      BY <1>3, <1>4, <2>1, <2>3 DEF SameRequest
    <3>2. CASE ~ Opens(n)
      BY <1>4, <3>1, <3>2 DEF Accounted
    <3>3. CASE Opens(n)
      <4>1. n \in t.skippedOversized /\ Len(x.bytes) > t.maxFileBytes /\ x.opens
        BY <1>4, <1>5, <2>1, <3>1, <3>3 DEF long
      <4> HIDE DEF n
      <4> QED BY <3>1, <4>1 DEF Accounted
    <3> QED BY <3>2, <3>3
  <2>4. TargetDone(t)
    BY <2>3 DEF TargetDone
  <2>5. FoundInv(t)
    BY <1>1, <2>1, <2>4, TargetLeft
  <2> QED BY <2>2, <2>5 DEF SearchInv
<1>6. CASE found /\ ~ long
  <2>1. t = [s EXCEPT !.stage = "read", !.opened = tree[n]]
    BY <1>1, <1>6
  <2>2. tree[n] \in FileStates /\ tree[n] \in seen[n] /\ tree[n].opens /\ Len(tree[n].bytes) <= s.maxFileBytes
    BY <1>3, <1>4, <1>6, BytesOfFiles DEF long
  <2>3. /\ t \in SearchRecord /\ SameRequest(s, t) /\ t.frames = s.frames /\ t.matches = s.matches
        /\ t.stage = "read" /\ t.truncated = s.truncated /\ t.target = n /\ t.opened = tree[n]
    <3> HIDE DEF t
    <3> QED BY <1>3, <2>1, <2>2 DEF SearchRecord, SearchStages, SameRequest
  <2> HIDE DEF t, s, found
  <2>4. WalkInv(t)
    <3>1. \A d \in DOMAIN t.frames : Increasing(t.frames[d]) /\ \A a \in Waiting(t, d) : Was(a)
      BY <1>3, <2>3 DEF WalkInv, Waiting
    <3>2. t.frames # <<>> /\ Len(t.frames) <= t.maxDepth + 1
      BY <1>1, <1>3, <2>3 DEF WalkInv, SameRequest
    <3>3. t.byQuery /\ t.maxFileBytes = s.maxFileBytes
      BY <1>3, <2>3 DEF SameRequest
    <3> HIDE DEF n
    <3> QED BY <1>3, <2>2, <2>3, <3>1, <3>2, <3>3 DEF WalkInv
  <2>5. s.target = n
    BY DEF s
  <2> HIDE DEF n
  <2>6. ApartInv(t)
    BY <1>1, <1>3, <2>3, <2>5 DEF ApartInv, Waiting, Busy
  <2>7. \A m : Behind(s, m) => Behind(t, m)
    BY <1>1, <2>3, <2>5 DEF Behind, Waiting, Busy
  <2>8. MatchesInv(t)
    BY <1>3, <2>3, <2>7 DEF MatchesInv, SameRequest
  <2>9. \A k, way : Ahead(s, k, way) => Ahead(t, k, way)
    BY <1>1, <2>3, <2>5 DEF Ahead, Waiting, Busy
  <2>10. FoundInv(t)
    BY <1>1, <1>3, <2>3, <2>9, FoundSteps
  <2> QED BY <2>4, <2>6, <2>8, <2>10 DEF SearchInv
<1> QED BY <1>5, <1>6

Begins(text, whole) == \A k \in DOMAIN text : k \in DOMAIN whole /\ whole[k] = text[k]

\* The text of the first bytes is the beginning of the text of all.
LEMMA PrefixDecoded ==
    ASSUME NEW bytes \in Seq(ByteKinds), NEW last \in 0 .. Len(bytes), NEW data,
           data = SubSeq(bytes, 1, last), IsText(data)
    PROVE  DecodeUtf8(data) \in Seq(ByteKinds) /\ Begins(DecodeUtf8(data), DecodeUtf8(bytes))
<1> DEFINE text == DecodeUtf8(data)
           whole == DecodeUtf8(bytes)
<1>1. /\ data \in Seq(ByteKinds) /\ Len(data) = last
      /\ \A i \in 1 .. last : i \in 1 .. Len(bytes) /\ data[i] = bytes[i]
  <2>1. 0 \in Nat /\ last \in Int /\ last <= Len(bytes) /\ 0 <= last /\ Len(bytes) \in Nat
    OBVIOUS
  <2>2. /\ data \in Seq(ByteKinds) /\ 0 + Len(data) = last
        /\ \A i \in DOMAIN data : 0 + i \in DOMAIN bytes /\ data[i] = bytes[0 + i]
    <3>1. data = SubSeq(bytes, 0 + 1, last)
      OBVIOUS
    <3> QED BY <2>1, <3>1, RangeRead
  <2>3. Len(data) \in Nat /\ DOMAIN data = 1 .. Len(data) /\ DOMAIN bytes = 1 .. Len(bytes)
    BY <2>2
  <2> QED BY <2>1, <2>2, <2>3
<1>2. /\ text \in Seq(ByteKinds) /\ Len(text) + Skipped(data) = Len(data)
      /\ \A i \in 1 .. Len(text) : text[i] = data[i + Skipped(data)]
  BY <1>1, TextHoldsItsMark, Decoded
<1>3. ASSUME NEW k \in 1 .. Len(text)
      PROVE  k \in DOMAIN whole /\ whole[k] = text[k]
  <2>1. Skipped(data) \in {0, 2} /\ (Skipped(data) = 2 <=> BeginsWithMark(data))
    BY DEF Skipped
  <2>2. Len(text) \in Nat /\ Len(bytes) \in Nat /\ last > 0 /\ last <= Len(bytes)
        /\ k + Skipped(data) \in 1 .. last
    BY <1>1, <1>2, <2>1
  <2>3. data # <<>> /\ bytes # <<>> /\ data[1] = bytes[1]
    BY <1>1, <2>2
  <2>4. Skipped(bytes) = Skipped(data) /\ (BeginsWithMark(bytes) => Len(bytes) >= 2)
    <3>1. BeginsWithMark(bytes) <=> BeginsWithMark(data)
      BY <2>3 DEF BeginsWithMark
    <3>2. BeginsWithMark(data) => Len(data) >= 2
      BY <1>1, TextHoldsItsMark
    <3> QED BY <1>1, <2>2, <3>1, <3>2 DEF Skipped
  <2>5. /\ whole \in Seq(ByteKinds) /\ Len(whole) + Skipped(bytes) = Len(bytes)
        /\ \A i \in 1 .. Len(whole) : whole[i] = bytes[i + Skipped(bytes)]
    BY <2>4, Decoded
  <2> HIDE DEF text, whole
  <2>6. k \in 1 .. Len(whole)
    BY <2>1, <2>2, <2>4, <2>5
  <2>7. text[k] = data[k + Skipped(data)] /\ whole[k] = bytes[k + Skipped(data)]
    BY <1>2, <2>4, <2>5, <2>6
  <2>8. data[k + Skipped(data)] = bytes[k + Skipped(data)]
    BY <1>1, <2>2
  <2>9. DOMAIN whole = 1 .. Len(whole)
    BY <2>5
  <2> QED BY <2>6, <2>7, <2>8, <2>9
<1>4. DOMAIN text = 1 .. Len(text)
  BY <1>2
<1> HIDE DEF whole
<1>5. \A k \in DOMAIN text : k \in DOMAIN whole /\ whole[k] = text[k]
  BY <1>3, <1>4
<1> QED BY <1>2, <1>5 DEF whole, Begins

LEMMA ReadMatchesKeeps ==
    ASSUME TreeInv, SearchInv(search), ReadMatches
    PROVE  SearchInv(search)'
<1> DEFINE n == search.target
           s == [search EXCEPT !.stage = "walk", !.opened = Absent]
           t == search'
<1>1. /\ UNCHANGED <<tree, seen>> /\ search.stage = "read"
      /\ \E held \in Held(search.opened, n) : t = AddMatches(search, held)
  BY Zenon DEF ReadMatches
<1>2. SUFFICES SearchInv(t)
  BY <1>1, SearchSame
<1>3. /\ search \in SearchRecord /\ WalkInv(search) /\ ApartInv(search) /\ MatchesInv(search)
      /\ FoundInv(search) /\ n \in Globbed /\ n \in Nodes /\ n \in Places /\ search.byQuery
      /\ search.opened \in FileStates /\ search.opened \in seen[n]
      /\ search.opened.opens /\ Len(search.opened.bytes) <= search.maxFileBytes
  BY <1>1 DEF SearchInv, WalkInv, SearchRecord, Places
<1>4. PICK held : held \in Held(search.opened, n) /\ t = AddMatches(search, held)
  BY Zenon, <1>1
\* What is read is something the file has been.
<1>5. held \in FileStates /\ held \in seen[n]
  <2>1. held = search.opened \/ (held = tree[n] /\ held \in FileStates)
    BY <1>4 DEF Held
  <2> QED BY <1>3, <2>1 DEF TreeInv
<1> DEFINE size == Len(search.opened.bytes)
           last == Min({size, Len(held.bytes)})
           data == SubSeq(held.bytes, 1, last)
           text == DecodeUtf8(data)
<1>6. /\ held.bytes \in Seq(ByteKinds) /\ size \in Nat /\ Len(held.bytes) \in Nat
      /\ last \in 0 .. Len(held.bytes) /\ (held = search.opened => last = Len(held.bytes))
  <2>1. held.bytes \in Seq(ByteKinds) /\ size \in Nat /\ Len(held.bytes) \in Nat
    BY <1>3, <1>5, BytesOfFiles
  <2> HIDE DEF size
  <2>2. last = IF size <= Len(held.bytes) THEN size ELSE Len(held.bytes)
    BY <2>1, MinOfTwo
  <2> HIDE DEF last
  <2>3. last \in 0 .. Len(held.bytes)
    BY <2>1, <2>2
  <2>4. held = search.opened => size = Len(held.bytes)
    BY DEF size
  <2> QED BY <2>1, <2>2, <2>3, <2>4
<1>7. t = IF IsText(data) THEN AppendAll(s, n, text)
          ELSE [s EXCEPT !.skippedBinary = @ \cup {n}]
  <2>1. s.target = n
    BY <1>3 DEF SearchRecord
  <2> QED BY <1>4, <2>1 DEF AddMatches
<1>8. /\ s \in SearchRecord /\ SameRequest(search, s) /\ s.frames = search.frames
      /\ s.matches = search.matches /\ s.truncated = search.truncated /\ s.stage = "walk"
  BY <1>3 DEF SearchRecord, SearchStages, SameRequest
<1> HIDE DEF n, s, t, last, data, text
<1>9. WalkInv(s) /\ ApartInv(s) /\ MatchesInv(s)
  BY <1>3, <1>8, FramesStay
<1>10. Behind(s, n) /\ \A i \in DOMAIN s.matches : s.matches[i][1] # n
  <2>1. \A d \in DOMAIN search.frames : \A a \in Waiting(search, d) : Apart(n, a) /\ a \in Places
    BY <1>1, <1>3, FramesTyped DEF ApartInv, Busy, n
  <2>2. \A i \in DOMAIN search.matches : search.matches[i][1] \notin Under(n)
    BY <1>1, <1>3 DEF MatchesInv, Behind, Busy, n
  <2> QED BY <1>3, <1>8, <2>1, <2>2, ApartFacts, UnderItself DEF Behind, Busy, Waiting
\* Of a file that stayed as it was, all has been read.
<1>11. ASSUME NEW x, seen[n] = {x}
       PROVE  data = x.bytes /\ x.opens /\ Len(x.bytes) <= search.maxFileBytes
  <2>1. held = x /\ search.opened = x
    BY <1>3, <1>5, <1>11
  <2>2. SubSeq(held.bytes, 1, Len(held.bytes)) = held.bytes
    BY <1>6, SubSeqFull
  <2> QED BY <1>3, <1>6, <2>1, <2>2 DEF data
<1>12. CASE IsText(data)
  <2>1. text \in Seq(ByteKinds) /\ Begins(text, DecodeUtf8(held.bytes))
    <3>1. data = SubSeq(held.bytes, 1, last)
      BY DEF data
    <3> QED BY <1>6, <1>12, <3>1, PrefixDecoded DEF text
  <2>2. t = AppendAll(s, n, text)
    BY <1>7, <1>12
  <2>3. Adds(s, t, n, Hits(text))
    BY <1>3, <1>8, <2>1, <2>2, AppendAllAdds
  <2>4. t \in SearchRecord /\ SameWalk(s, t) /\ (~ t.truncated => ~ s.truncated) /\ Hits(text) \in SUBSET Nat
    BY <2>1, <2>3 DEF Adds, Hits
  <2>5. \A k \in Hits(text) : Real(<<n, k>>)
    <3>1. held # Absent
      BY <1>5, BytesOfFiles
    <3> QED BY <1>5, <2>1, <3>1 DEF Begins, Real, Hits
  <2>6. WalkInv(t) /\ ApartInv(t) /\ MatchesInv(t)
    BY <1>3, <1>8, <1>9, <1>10, <2>3, <2>4, <2>5, AddsKeep
  <2>7. /\ SameRequest(search, t) /\ Range(search.matches) \subseteq Range(t.matches)
        /\ ~ t.truncated => \A k \in Hits(text) : <<n, k>> \in Range(t.matches)
    <3>1. /\ Len(s.matches) \in Nat /\ DOMAIN s.matches = 1 .. Len(s.matches)
          /\ Len(t.matches) \in Nat /\ DOMAIN t.matches = 1 .. Len(t.matches)
      BY <1>8, <2>4, FramesTyped
    <3>2. SameRequest(search, t)
      BY <1>8, <2>4 DEF SameWalk, SameRequest
    <3>3. Range(search.matches) \subseteq Range(t.matches)
      <4>1. /\ Len(s.matches) <= Len(t.matches)
            /\ \A i \in 1 .. Len(s.matches) : t.matches[i] = s.matches[i]
        BY <2>3 DEF Adds
      <4> QED BY <1>8, <3>1, <4>1 DEF Range
    <3>4. ASSUME ~ t.truncated, NEW k \in Hits(text)
          PROVE  <<n, k>> \in Range(t.matches)
      <4>1. PICK i \in 1 .. Len(t.matches) : t.matches[i] = <<n, k>>
        BY <2>3, <3>4 DEF Adds
      <4> QED BY <3>1, <4>1 DEF Range
    <3> QED BY <3>2, <3>3, <3>4
  <2>8. ASSUME NEW x, seen[n] = {x}, ~ t.truncated
        PROVE  Accounted(t, n, x)
    <3>1. /\ text = DecodeUtf8(x.bytes) /\ IsText(x.bytes) /\ x.opens
          /\ t.byQuery /\ ~ (Len(x.bytes) > t.maxFileBytes)
      <4>1. Len(x.bytes) \in Nat /\ search.maxFileBytes \in Nat
        BY <1>3, <1>5, <2>8, BytesOfFiles DEF SearchRecord
      <4>2. t.byQuery /\ t.maxFileBytes = search.maxFileBytes
        BY <1>3, <2>7 DEF SameRequest
      <4> QED BY <1>11, <1>12, <2>8, <4>1, <4>2 DEF text
    <3>2. \A i \in DOMAIN text : text[i] = "hit" => <<n, i>> \in Range(t.matches)
      BY <2>7, <2>8 DEF Hits
    <3> QED BY <3>1, <3>2 DEF Accounted
  <2>9. TargetDone(t)
    BY <2>8 DEF TargetDone, n
  <2>10. t.frames = search.frames /\ (t.truncated \/ ~ search.truncated)
    BY <1>8, <2>4 DEF SameWalk
  <2>11. FoundInv(t)
    BY <1>1, <2>7, <2>9, <2>10, TargetLeft
  <2> QED BY <2>6, <2>11 DEF SearchInv
<1>13. CASE ~ IsText(data)
  <2>1. t = [s EXCEPT !.skippedBinary = @ \cup {n}]
    BY <1>7, <1>13
  <2>2. s.skippedBinary \cup {n} \in SUBSET Globbed
    BY <1>3, <1>8 DEF SearchRecord
  <2>3. /\ t \in SearchRecord /\ SameRequest(search, t) /\ t.frames = search.frames
        /\ t.matches = search.matches /\ t.truncated = search.truncated /\ t.stage = "walk"
        /\ n \in t.skippedBinary
    BY <1>8, <2>1, <2>2 DEF SearchRecord, SameRequest
  <2>4. WalkInv(t) /\ ApartInv(t) /\ MatchesInv(t)
    BY <1>3, <2>3, FramesStay
  <2>5. ASSUME NEW x, seen[n] = {x}
        PROVE  Accounted(t, n, x)
    <3>1. ~ IsText(x.bytes) /\ x.opens /\ t.byQuery /\ ~ (Len(x.bytes) > t.maxFileBytes)
          /\ Len(x.bytes) <= t.maxFileBytes
      <4>1. Len(x.bytes) \in Nat /\ search.maxFileBytes \in Nat
        BY <1>3, <1>5, <2>5, BytesOfFiles DEF SearchRecord
      <4>2. t.byQuery /\ t.maxFileBytes = search.maxFileBytes
        BY <1>3, <2>3 DEF SameRequest
      <4> QED BY <1>11, <1>13, <2>5, <4>1, <4>2
    <3> QED BY <2>3, <3>1 DEF Accounted
  <2>6. TargetDone(t)
    BY <2>5 DEF TargetDone, n
  <2>7. FoundInv(t)
    BY <1>1, <2>3, <2>6, TargetLeft
  <2> QED BY <2>4, <2>7 DEF SearchInv
<1> QED BY <1>12, <1>13

LEMMA ReturnKeeps ==
    ASSUME SearchInv(search), Return
    PROVE  SearchInv(search)'
<1> DEFINE s == search
           t == search'
           top == Len(s.frames)
<1>1. /\ UNCHANGED <<tree, seen>> /\ s.stage = "walk" /\ s.frames # <<>> /\ Top(s) = <<>> /\ t = Pop(s)
  BY DEF Return
<1>2. SUFFICES SearchInv(t)
  BY <1>1, SearchSame
<1>3. s \in SearchRecord /\ WalkInv(s) /\ ApartInv(s) /\ MatchesInv(s) /\ FoundInv(s)
  BY DEF SearchInv, WalkInv
<1>4. top \in Nat /\ DOMAIN s.frames = 1 .. top /\ s.maxDepth \in Nat /\ Waiting(s, top) = {}
  <2>1. s.frames \in Seq(Seq(Nodes)) /\ s.maxDepth \in Nat
    BY <1>3 DEF SearchRecord
  <2>2. s.frames[top] = <<>>
    BY <1>1 DEF Top, Last
  <2> QED BY <2>1, <2>2 DEF Waiting, Range
<1>5. /\ t \in SearchRecord /\ SameRequest(s, t) /\ t.matches = s.matches
      /\ t.stage = s.stage /\ t.truncated = s.truncated
      /\ DOMAIN t.frames = 1 .. top - 1 /\ Len(t.frames) = top - 1
      /\ \A d \in 1 .. top - 1 : t.frames[d] = s.frames[d]
  BY <1>1, <1>3, PopFrame
<1> HIDE DEF s, t, top
<1>6. Fewer(s, t) /\ ~ Busy(t)
  <2>1. \A d \in 1 .. top - 1 : d \in 1 .. top
    BY <1>4
  <2> QED BY <1>1, <1>3, <1>4, <1>5, <2>1 DEF Fewer, Waiting, WalkInv, Busy
<1>7. /\ \A d \in DOMAIN t.frames : Increasing(t.frames[d]) /\ \A a \in Waiting(t, d) : Was(a)
      /\ ApartInv(t) /\ MatchesInv(t)
  BY <1>3, <1>5, <1>6, FewerKeeps DEF SameRequest
<1>8. WalkInv(t)
  <2>1. top <= s.maxDepth + 1
    BY <1>3 DEF WalkInv, top
  <2>2. Len(t.frames) <= t.maxDepth + 1
    BY <1>4, <1>5, <2>1 DEF SameRequest
  <2> QED BY <1>1, <1>5, <1>7, <2>2 DEF WalkInv
<1>9. FoundInv(t)
  <2>1. ASSUME NEW k, NEW way, Ahead(s, k, way)
        PROVE  Ahead(t, k, way)
    <3>1. PICK i \in 0 .. k - 1 : k - i \in DOMAIN s.frames /\ way[i] \in Waiting(s, k - i)
      BY <1>1, <2>1 DEF Ahead, Busy
    <3>2. k - i # top
      BY <1>4, <3>1
    <3>3. k - i \in 1 .. top - 1
      BY <1>4, <3>1, <3>2
    <3> QED BY <1>5, <3>1, <3>3 DEF Ahead, Waiting
  <2> QED BY <1>1, <1>3, <1>5, <2>1, FoundSteps
<1> QED BY <1>7, <1>8, <1>9 DEF SearchInv

LEMMA SearchCompleteKeeps ==
    ASSUME SearchInv(search), SearchComplete
    PROVE  SearchInv(search)'
<1> DEFINE t == search'
<1>1. /\ UNCHANGED <<tree, seen>> /\ search.stage = "walk" /\ search.frames = <<>>
      /\ t = [search EXCEPT !.stage = "complete"] /\ search \in SearchRecord
  BY DEF SearchComplete, SearchInv, WalkInv
<1>2. SUFFICES SearchInv(t)
  BY <1>1, SearchSame
<1>3. /\ t \in SearchRecord /\ SameRequest(search, t) /\ t.frames = search.frames
      /\ t.matches = search.matches /\ t.stage = "complete" /\ t.truncated = search.truncated
  BY <1>1 DEF SearchRecord, SearchStages, SameRequest
<1> HIDE DEF t
<1>4. WalkInv(t) /\ ApartInv(t) /\ MatchesInv(t)
  BY <1>1, <1>3, FramesStay
<1>5. \A k, way : ~ Ahead(search, k, way)
  BY <1>1 DEF Ahead, Busy
<1>6. FoundInv(t)
  BY <1>1, <1>3, <1>5, FoundSteps DEF SearchInv
<1> QED BY <1>4, <1>6 DEF SearchInv

\* The chain of directories that Reached goes up exists.
GoesUp(up, n, depth) ==
    up = [k \in 0 .. depth |->
             IF k = 0 THEN n ELSE IF up[k - 1] = Root THEN Root ELSE Parent[up[k - 1]]]

LEMMA ChainExists ==
    ASSUME NEW n, NEW depth \in Nat
    PROVE  \E up : GoesUp(up, n, depth)
<1> DEFINE Above(m) == IF m = Root THEN Root ELSE Parent[m]
           Unfolds(f, h) == f = [k \in 0 .. h |->
               IF k = 0 THEN n ELSE IF f[k - 1] = Root THEN Root ELSE Parent[f[k - 1]]]
           T == {h \in Nat : \E f : Unfolds(f, h)}
<1>1. 0 \in T
  <2>1. Unfolds([k \in 0 .. 0 |-> n], 0)
    OBVIOUS
  <2> QED BY <2>1
<1>2. ASSUME NEW h \in T
      PROVE  h + 1 \in T
  <2>1. h \in Nat
    OBVIOUS
  <2>2. PICK f : Unfolds(f, h)
    OBVIOUS
  <2> DEFINE g == [k \in 0 .. h + 1 |-> IF k <= h THEN f[k] ELSE Above(f[h])]
  <2>3. ASSUME NEW k \in 0 .. h + 1
        PROVE  g[k] = IF k = 0 THEN n ELSE Above(g[k - 1])
    <3>1. CASE k = 0
      BY <2>1, <2>2, <3>1
    <3>2. CASE k # 0 /\ k <= h
      <4>1. k \in 0 .. h /\ k - 1 \in 0 .. h + 1 /\ k - 1 <= h
        BY <2>1, <3>2
      <4>2. g[k] = f[k] /\ g[k - 1] = f[k - 1]
        BY <4>1
      <4>3. f[k] = Above(f[k - 1])
        BY <2>2, <3>2, <4>1
      <4> HIDE DEF g
      <4> QED BY <3>2, <4>2, <4>3
    <3>3. CASE k = h + 1
      <4>1. k - 1 = h /\ h \in 0 .. h + 1 /\ ~ (k <= h) /\ k # 0
        BY <2>1, <3>3
      <4>2. g[k] = Above(f[h]) /\ g[h] = f[h]
        BY <4>1
      <4> HIDE DEF g
      <4> QED BY <3>3, <4>1, <4>2
    <3> QED BY <2>1, <3>1, <3>2, <3>3
  <2>4. Unfolds(g, h + 1)
    <3>1. g = [k \in 0 .. h + 1 |-> g[k]]
      OBVIOUS
    <3> HIDE DEF g
    <3> QED BY <2>3, <3>1
  <2> HIDE DEF g, Unfolds
  <2> QED BY <2>1, <2>4
<1> HIDE DEF T
<1>3. T = Nat
  BY <1>1, <1>2, AllNaturals DEF T
<1> QED BY <1>3 DEF T, GoesUp

LEMMA ReachedByWay ==
    ASSUME NEW n \in Nodes, search \in SearchRecord, Reached(n)
    PROVE  \E k \in 1 .. search.maxDepth + 1 : \E way \in [0 .. k -> Places] :
               IsWay(search, n, k, way)
<1> DEFINE depth == search.maxDepth + 1
           chain == CHOOSE up : up = [k \in 0 .. depth |->
               IF k = 0 THEN n ELSE IF up[k - 1] = Root THEN Root ELSE Parent[up[k - 1]]]
<1>1. depth \in Nat
  BY DEF SearchRecord
<1>2. \E k \in 1 .. depth : /\ chain[k] = search.top
                            /\ \A i \in 1 .. k - 1 : chain[i] # search.top /\ Throughout(chain[i])
  BY DEF Reached
<1> HIDE DEF depth
<1>3. /\ chain[0] = n
      /\ \A k \in 1 .. depth : chain[k] = IF chain[k - 1] = Root THEN Root ELSE Parent[chain[k - 1]]
  <2>1. \E up : GoesUp(up, n, depth)
    BY <1>1, ChainExists
  <2>2. chain = [k \in 0 .. depth |->
            IF k = 0 THEN n ELSE IF chain[k - 1] = Root THEN Root ELSE Parent[chain[k - 1]]]
    BY <2>1 DEF GoesUp
  <2> HIDE DEF chain
  <2> QED BY <1>1, <2>2
<1> HIDE DEF chain
<1>4. PICK k \in 1 .. depth : /\ chain[k] = search.top
                              /\ \A i \in 1 .. k - 1 : chain[i] # search.top /\ Throughout(chain[i])
  BY <1>2
<1>5. \A i \in Nat : i <= depth => chain[i] \in Places
  <2> DEFINE T == {i \in Nat : i <= depth => chain[i] \in Places}
  <2>1. 0 \in T
    BY <1>3 DEF Places
  <2>2. ASSUME NEW i \in T
        PROVE  i + 1 \in T
    <3> SUFFICES ASSUME i + 1 <= depth
                 PROVE  chain[i + 1] \in Places
        OBVIOUS
    <3>1. i \in Nat /\ i + 1 \in 1 .. depth /\ (i + 1) - 1 = i /\ chain[i] \in Places
      BY <1>1
    <3>2. chain[i + 1] = IF chain[i] = Root THEN Root ELSE Parent[chain[i]]
      BY <1>3, <3>1
    <3> QED BY <3>1, <3>2, ParentsArePlaces DEF Places
  <2> HIDE DEF T
  <2>3. T = Nat
    BY <2>1, <2>2, AllNaturals DEF T
  <2> QED BY <2>3 DEF T
\* Above the root there is only the root.
<1>6. ASSUME NEW i \in 0 .. k - 1
      PROVE  chain[i] \in Nodes
  <2>1. i \in Nat /\ k \in Nat /\ i < k /\ k <= depth
    BY <1>1
  <2> SUFFICES ASSUME chain[i] = Root
               PROVE  FALSE
      BY <1>1, <1>5, <2>1 DEF Places
  <2> DEFINE T == {j \in Nat : i + j <= k => chain[i + j] = Root}
  <2>2. 0 \in T
    BY <2>1
  <2>3. ASSUME NEW j \in T
        PROVE  j + 1 \in T
    <3> SUFFICES ASSUME i + (j + 1) <= k
                 PROVE  chain[i + (j + 1)] = Root
        OBVIOUS
    <3>1. j \in Nat /\ i + (j + 1) \in 1 .. depth /\ (i + (j + 1)) - 1 = i + j /\ chain[i + j] = Root
      BY <1>1, <2>1
    <3> QED BY <1>3, <3>1
  <2> HIDE DEF T
  <2>4. T = Nat
    BY <2>2, <2>3, AllNaturals DEF T
  <2>5. chain[k] = Root
    <3>1. k - i \in T /\ i + (k - i) = k
      BY <2>1, <2>4
    <3> QED BY <2>1, <3>1 DEF T
  <2>6. CASE i = 0
    BY <1>3, <2>6, NodesAreNatural
  <2>7. CASE i # 0
    <3>1. i \in 1 .. k - 1
      BY <2>7
    <3> QED BY <1>4, <2>5, <3>1
  <2> QED BY <2>6, <2>7
<1> DEFINE way == [i \in 0 .. k |-> chain[i]]
<1>7. way \in [0 .. k -> Places]
  BY <1>1, <1>5
<1>8. \A i \in 0 .. k - 1 : way[i] \in Nodes /\ way[i + 1] = Parent[way[i]]
  <2> SUFFICES ASSUME NEW i \in 0 .. k - 1
               PROVE  way[i] \in Nodes /\ way[i + 1] = Parent[way[i]]
      OBVIOUS
  <2>1. i \in 0 .. k /\ i + 1 \in 0 .. k /\ i + 1 \in 1 .. depth /\ (i + 1) - 1 = i
    BY <1>1
  <2>2. chain[i] \in Nodes /\ chain[i] # Root
    BY <1>6, NodesAreNatural
  <2>3. chain[i + 1] = Parent[chain[i]]
    BY <1>3, <2>1, <2>2
  <2> QED BY <2>1, <2>2, <2>3
<1>9. way[0] = n /\ way[k] = search.top
  BY <1>1, <1>3, <1>4
<1>10. \A i \in 1 .. k - 1 : Throughout(way[i])
  BY <1>1, <1>4
<1> HIDE DEF way
<1>11. IsWay(search, n, k, way)
  BY <1>8, <1>9, <1>10 DEF IsWay
<1> QED BY <1>7, <1>11 DEF depth

-------------------------------------------------------------------------------
(* The bytes of the matches *)

\* OutputBytes adds up the matches one after the other.
LEMMA OutputBytesUnfold ==
    ASSUME NEW m \in Seq(Nodes \X Nat)
    PROVE  \E f : /\ f[0] = 0 /\ \A i \in 1 .. Len(m) : f[i] = f[i - 1] + Cost[m[i][1]]
                  /\ OutputBytes(m) = f[Len(m)]
<1> DEFINE len == Len(m)
           Unfolds(f, h) == f = [i \in 0 .. h |-> IF i = 0 THEN 0 ELSE f[i - 1] + Cost[m[i][1]]]
           T == {h \in Nat : \E f : Unfolds(f, h)}
<1>1. 0 \in T
  <2>1. Unfolds([i \in 0 .. 0 |-> 0], 0)
    OBVIOUS
  <2> QED BY <2>1
<1>2. ASSUME NEW h \in T
      PROVE  h + 1 \in T
  <2>1. h \in Nat
    OBVIOUS
  <2>2. PICK f : Unfolds(f, h)
    OBVIOUS
  <2> DEFINE g == [i \in 0 .. h + 1 |-> IF i <= h THEN f[i] ELSE f[h] + Cost[m[h + 1][1]]]
  <2>3. ASSUME NEW i \in 0 .. h + 1
        PROVE  g[i] = IF i = 0 THEN 0 ELSE g[i - 1] + Cost[m[i][1]]
    <3>1. CASE i = 0
      BY <2>1, <2>2, <3>1
    <3>2. CASE i # 0 /\ i <= h
      <4>1. i \in 0 .. h /\ i - 1 \in 0 .. h + 1 /\ i - 1 <= h
        BY <2>1, <3>2
      <4>2. g[i] = f[i] /\ g[i - 1] = f[i - 1]
        BY <4>1
      <4>3. f[i] = f[i - 1] + Cost[m[i][1]]
        BY <2>2, <3>2, <4>1
      <4> HIDE DEF g
      <4> QED BY <3>2, <4>2, <4>3
    <3>3. CASE i = h + 1
      <4>1. i - 1 = h /\ h \in 0 .. h + 1 /\ ~ (i <= h) /\ i # 0
        BY <2>1, <3>3
      <4>2. g[i] = f[h] + Cost[m[h + 1][1]] /\ g[h] = f[h]
        BY <4>1
      <4> HIDE DEF g
      <4> QED BY <3>3, <4>1, <4>2
    <3> QED BY <2>1, <3>1, <3>2, <3>3
  <2>4. Unfolds(g, h + 1)
    <3>1. g = [i \in 0 .. h + 1 |-> g[i]]
      OBVIOUS
    <3> HIDE DEF g
    <3> QED BY <2>3, <3>1
  <2> HIDE DEF g, Unfolds
  <2> QED BY <2>1, <2>4
<1> HIDE DEF T
<1>3. T = Nat
  BY <1>1, <1>2, AllNaturals DEF T
<1> DEFINE bytes == CHOOSE f : Unfolds(f, len)
<1>4. len \in Nat
  OBVIOUS
<1>5. Unfolds(bytes, len)
  <2>1. \E f : Unfolds(f, len)
    BY <1>3, <1>4 DEF T
  <2> HIDE DEF Unfolds
  <2> QED BY <2>1
<1>6. OutputBytes(m) = bytes[len]
  BY DEF OutputBytes
<1> HIDE DEF bytes
<1> HIDE DEF len
<1>7. bytes[0] = 0 /\ \A i \in 1 .. len : bytes[i] = bytes[i - 1] + Cost[m[i][1]]
  BY <1>4, <1>5
<1> QED BY <1>6, <1>7 DEF len

LEMMA OutputBytesOfNone == OutputBytes(<<>>) = 0
<1> DEFINE m == <<>>
<1>1. m \in Seq(Nodes \X Nat) /\ Len(m) = 0
  OBVIOUS
<1> HIDE DEF m
<1>2. PICK f : f[0] = 0 /\ OutputBytes(m) = f[Len(m)]
  BY <1>1, OutputBytesUnfold
<1> QED BY <1>1, <1>2 DEF m

LEMMA OutputBytesOfAppend ==
    ASSUME NEW m \in Seq(Nodes \X Nat), NEW n \in Nodes, NEW k \in Nat
    PROVE  OutputBytes(Append(m, <<n, k>>)) = OutputBytes(m) + Cost[n]
<1> DEFINE len == Len(m)
           longer == Append(m, <<n, k>>)
<1>1. /\ longer \in Seq(Nodes \X Nat) /\ Len(longer) = len + 1 /\ len \in Nat
      /\ longer[len + 1] = <<n, k>> /\ \A i \in 1 .. len : longer[i] = m[i]
  <2>1. <<n, k>> \in Nodes \X Nat
    OBVIOUS
  <2> QED BY <2>1, AppendProperties
<1> HIDE DEF longer
<1>2. PICK f : /\ f[0] = 0 /\ \A i \in 1 .. len : f[i] = f[i - 1] + Cost[m[i][1]]
               /\ OutputBytes(m) = f[len]
  BY OutputBytesUnfold
<1>3. PICK g : /\ g[0] = 0 /\ \A i \in 1 .. Len(longer) : g[i] = g[i - 1] + Cost[longer[i][1]]
               /\ OutputBytes(longer) = g[Len(longer)]
  BY <1>1, OutputBytesUnfold
<1> HIDE DEF len
<1> DEFINE T == {i \in Nat : i <= len => g[i] = f[i]}
<1>4. 0 \in T
  BY <1>2, <1>3
<1>5. ASSUME NEW i \in T
      PROVE  i + 1 \in T
  <2> SUFFICES ASSUME i + 1 <= len
               PROVE  i \in Nat /\ g[i + 1] = f[i + 1]
      OBVIOUS
  <2>1. i \in Nat /\ i + 1 \in 1 .. len /\ (i + 1) - 1 = i /\ i <= len /\ i + 1 \in 1 .. len + 1
    BY <1>1
  <2>2. g[i] = f[i] /\ longer[i + 1] = m[i + 1]
    BY <1>1, <2>1
  <2>3. f[i + 1] = f[i] + Cost[m[i + 1][1]] /\ g[i + 1] = g[i] + Cost[longer[i + 1][1]]
    BY <1>1, <1>2, <1>3, <2>1
  <2> QED BY <2>1, <2>2, <2>3
<1> HIDE DEF T
<1>6. T = Nat
  BY <1>4, <1>5, AllNaturals DEF T
<1>7. g[len] = f[len]
  BY <1>1, <1>6 DEF T
<1>8. g[len + 1] = g[len] + Cost[n]
  <2>1. len + 1 \in 1 .. len + 1 /\ (len + 1) - 1 = len
    BY <1>1
  <2>2. g[len + 1] = g[len] + Cost[longer[len + 1][1]]
    BY <1>1, <1>3, <2>1
  <2> QED BY <1>1, <2>2
<1> QED BY <1>1, <1>2, <1>3, <1>7, <1>8 DEF longer

\* The bytes counted are those of the matches, and within the limit.
CountedInv(s) == OutputBytes(s.matches) = s.outputBytes /\ s.outputBytes <= s.maxBytes

SameMatches(s, t) == t.matches = s.matches /\ t.outputBytes = s.outputBytes /\ t.maxBytes = s.maxBytes

LEMMA SameMatchesCount ==
    ASSUME NEW s, NEW t, CountedInv(s), SameMatches(s, t)
    PROVE  CountedInv(t)
BY DEF CountedInv, SameMatches

LEMMA AppendCounts ==
    ASSUME NEW s \in SearchRecord, NEW n \in Nodes, NEW k \in Nat, CountedInv(s)
    PROVE  CountedInv(AppendSearchMatch(s, n, k))
<1> DEFINE t == AppendSearchMatch(s, n, k)
           full == Len(s.matches) >= s.maxResults \/ s.outputBytes + Cost[n] > s.maxBytes
<1>1. CASE full
  <2>1. t = [s EXCEPT !.truncated = TRUE]
    BY <1>1 DEF AppendSearchMatch
  <2> HIDE DEF t
  <2>2. SameMatches(s, t)
    BY <2>1 DEF SearchRecord, SameMatches
  <2> QED BY <2>2, SameMatchesCount DEF t
<1>2. CASE ~ full
  <2>1. t = [s EXCEPT !.matches = Append(@, <<n, k>>), !.outputBytes = @ + Cost[n]]
    BY <1>2 DEF AppendSearchMatch
  <2> HIDE DEF t
  <2>2. /\ t.matches = Append(s.matches, <<n, k>>) /\ t.outputBytes = s.outputBytes + Cost[n]
        /\ t.maxBytes = s.maxBytes /\ s.matches \in Seq(Nodes \X Nat)
        /\ s.outputBytes \in Nat /\ s.maxBytes \in Nat /\ Cost[n] \in Nat
    BY <2>1, FilesAssumption DEF SearchRecord
  <2>3. OutputBytes(t.matches) = OutputBytes(s.matches) + Cost[n]
    BY <2>2, OutputBytesOfAppend
  <2>4. t.outputBytes <= t.maxBytes
    BY <1>2, <2>2
  <2> QED BY <2>2, <2>3, <2>4 DEF CountedInv, t
<1> QED BY <1>1, <1>2

LEMMA AppendAllCounts ==
    ASSUME NEW s \in SearchRecord, NEW n \in Nodes, NEW text \in Seq(ByteKinds), CountedInv(s)
    PROVE  CountedInv(AppendAll(s, n, text))
<1> DEFINE len == Len(text)
<1>0. len \in Nat
  OBVIOUS
<1>1. PICK f : /\ f[0] = s
               /\ \A k \in 1 .. len : f[k] = AppendNext(f[k - 1], n, text, k)
               /\ AppendAll(s, n, text) = f[len]
  BY <1>0, AppendAllUnfolds
<1> HIDE DEF len
<1> DEFINE T == {k \in Nat : k <= len => f[k] \in SearchRecord /\ CountedInv(f[k])}
<1>2. 0 \in T
  BY <1>1
<1>3. ASSUME NEW k \in T
      PROVE  k + 1 \in T
  <2> SUFFICES ASSUME k + 1 <= len
               PROVE  k \in Nat /\ f[k + 1] \in SearchRecord /\ CountedInv(f[k + 1])
      OBVIOUS
  <2>1. k \in Nat /\ k + 1 \in 1 .. len /\ (k + 1) - 1 = k /\ k + 1 \in Nat
    BY <1>0
  <2>2. f[k] \in SearchRecord /\ CountedInv(f[k])
    BY <1>0, <2>1
  <2>3. f[k + 1] = AppendNext(f[k], n, text, k + 1)
    BY <1>1, <2>1
  <2>4. CASE text[k + 1] = "hit"
    <3>1. f[k + 1] = AppendSearchMatch(f[k], n, k + 1)
      BY <2>3, <2>4 DEF AppendNext
    <3>2. AppendSearchMatch(f[k], n, k + 1) \in SearchRecord
      BY <2>1, <2>2, AppendOne
    <3> QED BY <2>1, <2>2, <3>1, <3>2, AppendCounts
  <2>5. CASE text[k + 1] # "hit"
    BY <2>1, <2>2, <2>3, <2>5 DEF AppendNext
  <2> QED BY <2>4, <2>5
<1> HIDE DEF T
<1>4. T = Nat
  BY <1>2, <1>3, AllNaturals DEF T
<1>5. len \in T /\ len <= len
  BY <1>0, <1>4
<1> QED BY <1>1, <1>5 DEF T

LEMMA ReadMatchesCounts ==
    ASSUME TreeInv, SearchInv(search), CountedInv(search), ReadMatches
    PROVE  CountedInv(search')
<1> DEFINE n == search.target
           s == [search EXCEPT !.stage = "walk", !.opened = Absent]
<1>1. search.stage = "read" /\ \E held \in Held(search.opened, n) : search' = AddMatches(search, held)
  BY Zenon DEF ReadMatches
<1>2. /\ search \in SearchRecord /\ n \in Globbed /\ n \in Nodes /\ search.opened \in FileStates
  BY <1>1, GlobbedAreFiles DEF SearchInv, WalkInv
<1>3. PICK held : held \in Held(search.opened, n) /\ search' = AddMatches(search, held)
  BY Zenon, <1>1
<1>4. held \in FileStates
  BY <1>2, <1>3 DEF Held
<1> DEFINE last == Min({Len(search.opened.bytes), Len(held.bytes)})
           data == SubSeq(held.bytes, 1, last)
<1>5. /\ held.bytes \in Seq(ByteKinds) /\ last \in 0 .. Len(held.bytes)
  <2> DEFINE size == Len(search.opened.bytes)
             len == Len(held.bytes)
  <2>1. held.bytes \in Seq(ByteKinds) /\ size \in Nat /\ len \in Nat
    BY <1>2, <1>4, BytesOfFiles
  <2>0. last = Min({size, len})
    OBVIOUS
  <2> HIDE DEF size, last, len
  <2>2. last = IF size <= len THEN size ELSE len
    BY <2>0, <2>1, MinOfTwo
  <2>3. last \in 0 .. len
    BY <2>1, <2>2
  <2> QED BY <2>1, <2>3 DEF len
<1>6. search' = IF IsText(data) THEN AppendAll(s, n, DecodeUtf8(data))
                ELSE [s EXCEPT !.skippedBinary = @ \cup {n}]
  <2>1. s.target = n
    BY <1>2 DEF SearchRecord
  <2> QED BY <1>3, <2>1 DEF AddMatches
<1>7. s \in SearchRecord /\ SameMatches(search, s)
  BY <1>2 DEF SearchRecord, SearchStages, SameMatches
<1> HIDE DEF s, n, last, data
<1>8. CountedInv(s)
  BY <1>7, SameMatchesCount
<1>9. CASE IsText(data)
  <2>1. data = SubSeq(held.bytes, 1, last)
    BY DEF data
  <2>2. DecodeUtf8(data) \in Seq(ByteKinds)
    BY <1>5, <1>9, <2>1, PrefixDecoded
  <2> QED BY <1>2, <1>6, <1>7, <1>8, <1>9, <2>2, AppendAllCounts
<1>10. CASE ~ IsText(data)
  <2>1. SameMatches(s, search')
    BY <1>6, <1>7, <1>10 DEF SearchRecord, SameMatches
  <2> QED BY <1>8, <2>1, SameMatchesCount
<1> QED BY <1>9, <1>10

LEMMA VisitCounts ==
    ASSUME SearchInv(search), CountedInv(search), Visit
    PROVE  CountedInv(search')
<1> DEFINE n == Head(Top(search))
           s == [search EXCEPT !.scannedEntries = @ + 1, !.frames[Len(search.frames)] = Tail(@)]
<1>1. /\ search.stage = "walk" /\ search.frames # <<>> /\ Top(search) # <<>>
      /\ search' = Visited(s, n)
  BY DEF Visit
<1>2. s \in SearchRecord /\ n \in Nodes /\ s.frames # <<>>
  BY <1>1, TakeEntry
<1>3. SameMatches(search, s)
  BY DEF SearchInv, WalkInv, SearchRecord, SameMatches
<1> HIDE DEF s, n
<1>4. CountedInv(s)
  BY <1>3, SameMatchesCount
<1>5. CASE n \in Globbed /\ ~ s.byQuery /\ search' = AppendSearchMatch(s, n, 0)
  BY <1>2, <1>4, <1>5, AppendCounts
<1>6. ASSUME \/ search' = Pop([s EXCEPT !.truncated = TRUE])
             \/ search' = [s EXCEPT !.stage = "descend", !.target = n]
             \/ search' = [s EXCEPT !.stage = "open", !.target = n]
             \/ search' = s
      PROVE  CountedInv(search')
  <2>1. SameMatches(s, search')
    BY <1>2, <1>6 DEF SearchRecord, SameMatches, Pop
  <2> QED BY <1>4, <2>1, SameMatchesCount
<1> QED BY <1>1, <1>2, <1>5, <1>6, VisitedCases

LEMMA NothingCounted ==
    ASSUME NEW top \in Directories, NEW byQuery \in BOOLEAN, NEW results \in MaxResults,
           NEW bytes \in MaxBytes, NEW fileBytes \in MaxFileBytes, NEW depth \in MaxDepths,
           NEW entries \in EntryLimits, SearchFrom(top, byQuery, results, bytes, fileBytes, depth, entries)
    PROVE  CountedInv(search')
<1>1. search'.matches = <<>> /\ search'.outputBytes = 0 /\ search'.maxBytes = bytes
  BY DEF SearchFrom, NoSearch
<1>2. OutputBytes(<<>>) = 0
  BY OutputBytesOfNone
<1>3. bytes \in Nat
  BY LimitsAssumption
<1> QED BY <1>1, <1>2, <1>3 DEF CountedInv

LEMMA SearchCounts ==
    ASSUME TreeInv, SearchInv(search), CountedInv(search),
           Enter \/ Visit \/ Descend \/ OpenSearched \/ ReadMatches \/ Return \/ SearchComplete
    PROVE  CountedInv(search')
<1>1. search \in SearchRecord
  BY DEF SearchInv, WalkInv
<1>2. ASSUME Enter \/ Descend \/ OpenSearched \/ Return \/ SearchComplete
      PROVE  SameMatches(search, search')
  <2>1. CASE Enter
    BY <1>1, <2>1 DEF Enter, SearchRecord, SameMatches
  <2>2. CASE Descend
    BY <1>1, <2>2 DEF Descend, SearchRecord, SameMatches
  <2>3. CASE OpenSearched
    BY <1>1, <2>3 DEF OpenSearched, SearchRecord, SameMatches
  <2>4. CASE Return
    BY <1>1, <2>4 DEF Return, Pop, SearchRecord, SameMatches
  <2>5. CASE SearchComplete
    BY <1>1, <2>5 DEF SearchComplete, SearchRecord, SameMatches
  <2> QED BY <1>2, <2>1, <2>2, <2>3, <2>4, <2>5
<1> QED BY <1>2, SameMatchesCount, VisitCounts, ReadMatchesCounts

-------------------------------------------------------------------------------
(* The theorems *)

QueriesInv ==
    /\ TreeInv /\ ListInv /\ ReadInv /\ SearchInv(search) /\ CountedInv(search)
    /\ patch.stage \in {"none", "planned"}

LEMMA RequestKeeps ==
    ASSUME QueriesInv, Request
    PROVE  QueriesInv'
<1>1. list.stage = "none" /\ read.stage = "none" /\ search.stage = "none"
  BY Zenon DEF Request, NoRequest
<1>2. TreeInv'
  BY StepKeepsTree DEF QueriesInv, Next
<1>3. ASSUME NEW top \in Places, NEW limit \in Limits, ListFrom(top, limit)
      PROVE  QueriesInv'
  <2>1. UNCHANGED <<read, search, patch>>
    BY <1>3 DEF ListFrom
  <2>2. ListInv' /\ ReadInv' /\ SearchInv(search)'
    BY <1>1, <1>3, <2>1, ListFromKeeps, ReadKept, SearchKept DEF QueriesInv
  <2> QED BY <1>2, <2>1, <2>2 DEF QueriesInv
<1>4. ASSUME NEW n \in Nodes, NEW limit \in Limits, ReadFrom(n, limit)
      PROVE  QueriesInv'
  <2>1. UNCHANGED <<list, search, patch>>
    BY <1>4 DEF ReadFrom
  <2>2. ListInv' /\ ReadInv' /\ SearchInv(search)'
    BY <1>1, <1>4, <2>1, ListKept, ReadFromKeeps, SearchKept DEF QueriesInv
  <2> QED BY <1>2, <2>1, <2>2 DEF QueriesInv
<1>5. ASSUME NEW top \in Directories, NEW byQuery \in BOOLEAN, NEW results \in MaxResults,
             NEW bytes \in MaxBytes, NEW fileBytes \in MaxFileBytes, NEW depth \in MaxDepths,
             NEW entries \in EntryLimits,
             SearchFrom(top, byQuery, results, bytes, fileBytes, depth, entries)
      PROVE  QueriesInv'
  <2>1. UNCHANGED <<list, read, patch>>
    BY <1>5 DEF SearchFrom
  <2>2. SearchInv(search)'
    BY <1>5, SearchFromKeeps DEF QueriesInv
  <2>3. ListInv' /\ ReadInv'
    BY <1>1, <2>1, ListKept, ReadKept DEF QueriesInv
  <2>4. CountedInv(search')
    BY <1>5, NothingCounted
  <2> QED BY <1>2, <2>1, <2>2, <2>3, <2>4 DEF QueriesInv
<1>6. ASSUME NEW source \in Sources, NEW edits \in EditLists, PlanPatch(source, edits)
      PROVE  QueriesInv'
  <2>1. UNCHANGED <<list, read, search>> /\ patch'.stage = "planned"
    BY <1>6 DEF PlanPatch
  <2>2. ListInv' /\ ReadInv' /\ SearchInv(search)'
    BY <1>1, <2>1, ListKept, ReadKept, SearchKept DEF QueriesInv
  <2> QED BY <1>2, <2>1, <2>2 DEF QueriesInv
<1> QED BY Zenon, <1>3, <1>4, <1>5, <1>6 DEF Request

LEMMA StepKeeps ==
    ASSUME QueriesInv, [Next]_vars
    PROVE  QueriesInv'
<1>1. CASE Request
  BY <1>1, RequestKeeps
<1>2. CASE ~ Request
  <2>1. TreeInv' /\ Grows
    BY <1>2, StepKeepsTree DEF QueriesInv
  <2>2. CASE ListDirectory \/ InspectEntry \/ ListPage \/ NextPage
    <3>1. UNCHANGED <<read, search, patch>>
      BY <2>2 DEF ListDirectory, InspectEntry, ListPage, NextPage
    <3>2. ListInv'
      BY <2>2, ListDirectoryKeeps, InspectEntryKeeps, ListPageKeeps, NextPageKeeps DEF QueriesInv
    <3>3. ReadInv' /\ SearchInv(search)'
      BY <2>1, <3>1, ReadKept, SearchKept DEF QueriesInv
    <3> QED BY <2>1, <3>1, <3>2, <3>3 DEF QueriesInv
  <2>3. CASE OpenToRead \/ ReadRange
    <3>1. UNCHANGED <<list, search, patch>>
      <4>1. CASE OpenToRead
        BY <4>1 DEF OpenToRead
      <4>2. CASE ReadRange
        BY Zenon, <4>2 DEF ReadRange
      <4> QED BY <2>3, <4>1, <4>2
    <3>2. ReadInv'
      BY <2>3, OpenToReadKeeps, ReadRangeKeeps DEF QueriesInv
    <3>3. ListInv' /\ SearchInv(search)'
      BY <2>1, <3>1, ListKept, SearchKept DEF QueriesInv
    <3> QED BY <2>1, <3>1, <3>2, <3>3 DEF QueriesInv
  <2>4. CASE Enter \/ Visit \/ Descend \/ OpenSearched \/ ReadMatches \/ Return \/ SearchComplete
    <3>1. UNCHANGED <<list, read, patch>>
      <4>1. CASE Enter \/ Visit \/ Descend \/ OpenSearched \/ Return \/ SearchComplete
        BY <4>1 DEF Enter, Visit, Descend, OpenSearched, Return, SearchComplete
      <4>2. CASE ReadMatches
        BY Zenon, <4>2 DEF ReadMatches
      <4> QED BY <2>4, <4>1, <4>2
    <3>2. SearchInv(search)'
      BY <2>4, EnterKeeps, VisitKeeps, DescendKeeps, OpenSearchedKeeps, ReadMatchesKeeps, ReturnKeeps,
         SearchCompleteKeeps
         DEF QueriesInv
    <3>3. CountedInv(search')
      BY <2>4, SearchCounts DEF QueriesInv
    <3>4. ListInv' /\ ReadInv'
      BY <2>1, <3>1, ListKept, ReadKept DEF QueriesInv
    <3> QED BY <2>1, <3>1, <3>2, <3>3, <3>4 DEF QueriesInv
  <2>5. CASE \/ \E n \in Nodes : ChangeTree(n)
             \/ UNCHANGED vars
    <3>1. UNCHANGED <<list, read, search, patch>>
      BY <2>5 DEF ChangeTree, vars
    <3>2. ListInv' /\ ReadInv' /\ SearchInv(search)'
      BY <2>1, <3>1, ListKept, ReadKept, SearchKept DEF QueriesInv
    <3> QED BY <2>1, <3>1, <3>2 DEF QueriesInv
  <2> QED BY Zenon, <1>2, <2>2, <2>3, <2>4, <2>5 DEF Next
<1> QED BY <1>1, <1>2

THEOREM QueriesInvariance == Spec => []QueriesInv
<1>1. Init => QueriesInv
  <2>1. Init => CountedInv(search)
    BY OutputBytesOfNone DEF Init, NoSearch, CountedInv
  <2> QED BY <2>1, InitTreeInv, InitListInv, InitReadInv, InitSearchInv DEF QueriesInv, Init, NoPatch
<1>2. QueriesInv /\ [Next]_vars => QueriesInv'
  BY StepKeeps
<1> QED BY <1>1, <1>2, PTL DEF Spec

LEMMA QueriesTyped ==
    ASSUME QueriesInv
    PROVE  TypeOK
<1>1. /\ tree \in [Nodes -> UNION {NodeStates(n) : n \in Nodes}]
      /\ \A n \in Nodes : tree[n] \in seen[n] /\ seen[n] \subseteq NodeStates(n)
      /\ changes \in 0 .. MaxChanges
  BY DEF QueriesInv, TreeInv, AllStates
<1>2. /\ list.stage \in ListStages /\ list.top \in Places /\ list.after \in {0} \cup Nodes
      /\ list.toInspect \cup list.listed \cup Range(list.pages) \subseteq Nodes
  <2>1. list \in ListRecord
    BY DEF QueriesInv, ListInv
  <2>2. Range(list.pages) \subseteq Nodes
    BY <2>1, RangeOfSeq DEF ListRecord
  <2> QED BY <2>1, <2>2 DEF ListRecord
<1>3. /\ read.stage \in ReadStages /\ read.file \in Places
      /\ read.offset \in Nat /\ read.binary \in BOOLEAN
  BY DEF QueriesInv, ReadInv, ReadRecord
<1>4. /\ search.stage \in SearchStages /\ search.target \in Places
      /\ search.skippedBinary \cup search.skippedOversized \subseteq Globbed
      /\ search.truncated \in BOOLEAN /\ search \in SearchRecord
      /\ Len(search.frames) <= search.maxDepth + 1
  BY DEF QueriesInv, SearchInv, WalkInv, SearchRecord
<1>5. \A i \in DOMAIN search.frames : Range(search.frames[i]) \subseteq Nodes
  BY <1>4, FramesTyped DEF Waiting
<1> QED BY <1>1, <1>2, <1>3, <1>4, <1>5 DEF TypeOK, QueriesInv

\* The state of every request stays what its declarations say, and a search
\* goes no deeper than it may.
THEOREM TypeCorrect == Spec => []TypeOK
<1>1. QueriesInv => TypeOK
  BY QueriesTyped
<1> QED BY <1>1, QueriesInvariance, PTL

LEMMA PagesAreComplete ==
    ASSUME QueriesInv
    PROVE  PagingComplete
<1>1. \A i, j \in DOMAIN list.pages : i < j => list.pages[i] < list.pages[j]
  BY DEF QueriesInv, ListInv, PagesInv
<1>2. \A i \in DOMAIN list.pages : seen[list.pages[i]] # {Absent}
  BY DEF QueriesInv, ListInv, PagesInv, Was
<1>3. list.stage = "complete" =>
          \A n \in Children(Resolved(list.top)) : Throughout(n) => n \in Range(list.pages)
  BY DEF QueriesInv, ListInv
<1> QED BY <1>1, <1>2, <1>3 DEF PagingComplete

\* The pages of a listing that others change under it leave out nothing that
\* stays and hold nothing twice (list()).
THEOREM PagesComplete == Spec => []PagingComplete
<1>1. QueriesInv => PagingComplete
  BY PagesAreComplete
<1> QED BY <1>1, QueriesInvariance, PTL

LEMMA RangesAreComplete ==
    ASSUME QueriesInv
    PROVE  RangesComplete
<1> DEFINE file == Resolved(read.file)
           x == Alone(file)
           data == x.bytes
<1> SUFFICES ASSUME read.stage = "complete", Steady(file)
             PROVE  IF read.binary
                    THEN \E i \in DOMAIN data : data[i] \notin {"ascii", "hit"}
                    ELSE IsAllBut(read.texts, data, MarksAt(data, read.starts))
    BY DEF RangesComplete
<1>1. TreeInv /\ ReadInv /\ file \in Nodes /\ \E s \in FileStates : s \in seen[file]
  BY DEF QueriesInv, ReadInv, IsFile
<1>2. seen[file] = {x}
  BY <1>1, SteadyIsOne DEF Alone
<1>3. x \in FileStates
  BY <1>1, <1>2
<1>4. RangesInv(x)
  BY <1>1, <1>2, <1>3 DEF ReadInv
<1>5. DOMAIN data = 1 .. Len(data)
  BY <1>3, BytesOfFiles
<1>6. read.offset = Len(data)
  BY <1>4 DEF RangesInv
<1> HIDE DEF x
<1>7. CASE read.binary
  BY <1>4, <1>7 DEF RangesInv
<1>8. CASE ~ read.binary
  <2>1. IsUpTo(read.texts, data, Len(data), MarksAt(data, read.starts))
    BY <1>4, <1>6, <1>8 DEF RangesInv
  <2> QED BY <1>5, <1>8, <2>1 DEF IsUpTo, IsAllBut
<1> QED BY <1>7, <1>8

\* The ranges of a file that stayed as it was are the file, all of it and in
\* order, but for the byte order marks that a range began with (read(),
\* decodeUtf8()).
THEOREM RangesAreTheFile == Spec => []RangesComplete
<1>1. QueriesInv => RangesComplete
  BY RangesAreComplete
<1> QED BY <1>1, QueriesInvariance, PTL

LEMMA SearchIsHonest ==
    ASSUME QueriesInv
    PROVE  SearchHonest
<1>1. search \in SearchRecord /\ WalkInv(search) /\ MatchesInv(search) /\ FoundInv(search) /\ TreeInv
  BY DEF QueriesInv, SearchInv, WalkInv
<1>2. /\ \A i, j \in DOMAIN search.matches : i # j => search.matches[i] # search.matches[j]
      /\ \A i \in DOMAIN search.matches : Real(search.matches[i])
      /\ Len(search.matches) <= search.maxResults
  BY <1>1 DEF MatchesInv
<1>3. ASSUME search.stage = "complete", ~ search.truncated,
             NEW n \in Globbed, Steady(n), Throughout(n), Reached(n)
      PROVE  Accounted(search, n, Alone(n))
  <2>1. n \in Nodes
    BY GlobbedAreFiles
  <2> DEFINE x == tree[n]
  <2>2. seen[n] = {x} /\ Alone(n) = x /\ x # Absent
    BY <1>1, <1>3, <2>1, SteadyIsOne DEF Throughout, Alone
  <2>3. PICK k \in 1 .. search.maxDepth + 1 : \E way \in [0 .. k -> Places] : IsWay(search, n, k, way)
    BY <1>1, <1>3, <2>1, ReachedByWay
  <2>4. PICK way \in [0 .. k -> Places] : IsWay(search, n, k, way)
    BY <2>3
  <2>5. ~ Ahead(search, k, way)
    BY <1>1, <1>3 DEF WalkInv, Ahead, Busy
  <2>6. Accounted(search, n, x)
    BY <1>1, <1>3, <2>2, <2>4, <2>5 DEF FoundInv
  <2> QED BY <2>2, <2>6
<1>4. OutputBytes(search.matches) <= search.maxBytes
  BY DEF QueriesInv, CountedInv
<1> QED BY <1>2, <1>3, <1>4 DEF SearchHonest

\* A search that does not say it was truncated accounts for every file that
\* stayed as it was, wherever it lies: its matches are all there, or it was
\* counted as too long or as binary, or it may not be opened.  It reports
\* nothing that never was and keeps to maxResults and maxBytes (search(),
\* #walkSearch(), appendSearchMatch()).
THEOREM SearchesAreHonest == Spec => []SearchHonest
<1>1. QueriesInv => SearchHonest
  BY SearchIsHonest
<1> QED BY <1>1, QueriesInvariance, PTL

-------------------------------------------------------------------------------
(* findAllOccurrences() *)

Texts == Seq(Characters)

LEMMA StartsAreFinite ==
    ASSUME NEW source \in Texts, NEW expected \in Texts
    PROVE  /\ Starts(source, expected) \in SUBSET Nat /\ IsFiniteSet(Starts(source, expected))
           /\ \A i \in Starts(source, expected) : i + Len(expected) <= Len(source)
           /\ Len(source) \in Nat /\ Len(expected) \in Nat
<1>1. Len(source) \in Nat /\ Len(expected) \in Nat
  BY DEF Texts
<1>2. \A i \in Starts(source, expected) : i \in 0 .. Len(source) - Len(expected)
  BY DEF Starts
<1>3. Len(source) - Len(expected) \in Int
  BY <1>1
<1>4. IsFiniteSet(0 .. Len(source) - Len(expected))
  BY <1>3, FS_Interval
<1>5. IsFiniteSet(Starts(source, expected))
  BY <1>2, <1>4, FS_Subset
<1> QED BY <1>1, <1>2, <1>5

\* What a scan that goes on at `from' is to find.
Later(source, expected, from) == {i \in Starts(source, expected) : i >= from}

LEMMA IndexOfIsFirst ==
    ASSUME NEW source \in Texts, NEW expected \in Texts, NEW from \in Nat
    PROVE  LET later == Later(source, expected, from)
               found == IndexOf(source, expected, from)
           IN  /\ later = {} => found = -1
               /\ later # {} => found \in later /\ \A i \in later : found <= i
<1> DEFINE later == Later(source, expected, from)
<1>1. IndexOf(source, expected, from) = IF later = {} THEN -1 ELSE Min(later)
  BY DEF IndexOf, Later
<1>2. ASSUME later # {}
      PROVE  Min(later) \in later /\ \A i \in later : Min(later) <= i
  <2>1. later \in SUBSET Nat
    BY StartsAreFinite DEF Later
  <2> HIDE DEF later
  <2>2. PICK n \in later : \A m \in later : n <= m
    BY <1>2, <2>1, LeastOfNaturals
  <2> QED BY <2>2 DEF Min
<1> HIDE DEF later
<1> QED BY <1>1, <1>2 DEF later

\* One turn of the loop: f is what the scan finds from each offset on.
Turn(source, expected, f, from) ==
    LET found == IndexOf(source, expected, from)
    IN  IF found < 0 THEN <<>> ELSE <<found>> \o f[found + 1]

\* A turn looks only at what is found behind `from'.
LEMMA TurnLooksAhead ==
    ASSUME NEW source \in Texts, NEW expected \in Texts, NEW from \in 0 .. Len(source) + 1,
           NEW f, NEW g, \A i \in 0 .. Len(source) + 1 : i > from => f[i] = g[i]
    PROVE  Turn(source, expected, f, from) = Turn(source, expected, g, from)
<1> DEFINE found == IndexOf(source, expected, from)
<1>1. CASE found < 0
  BY <1>1 DEF Turn
<1>2. CASE ~ (found < 0)
  <2>1. from \in Nat
    BY StartsAreFinite
  <2>2. found \in Later(source, expected, from)
    BY <1>2, <2>1, IndexOfIsFirst
  <2>3. found + 1 \in 0 .. Len(source) + 1 /\ found + 1 > from
    BY <2>1, <2>2, StartsAreFinite DEF Later
  <2>4. f[found + 1] = g[found + 1]
    BY <2>3
  <2> QED BY <2>4 DEF Turn
<1> QED BY <1>1, <1>2

\* f is what the scan finds, at least from the last h offsets on.
Scanned(source, expected, f, h) ==
    /\ f = [from \in 0 .. Len(source) + 1 |-> f[from]]
    /\ \A from \in 0 .. Len(source) + 1 : from + h > Len(source) + 1 => f[from] = Turn(source, expected, f, from)

LEMMA ScanExists ==
    ASSUME NEW source \in Texts, NEW expected \in Texts
    PROVE  \E scan : scan = [from \in 0 .. Len(source) + 1 |-> Turn(source, expected, scan, from)]
<1> DEFINE end == Len(source) + 1
           T == {h \in Nat : \E f : Scanned(source, expected, f, h)}
<1>0. end \in Nat
  BY StartsAreFinite
<1>1. 0 \in T
  <2>1. Scanned(source, expected, [from \in 0 .. end |-> <<>>], 0)
    BY <1>0 DEF Scanned
  <2> QED BY <2>1
<1>2. ASSUME NEW h \in T
      PROVE  h + 1 \in T
  <2>1. h \in Nat
    OBVIOUS
  <2>2. PICK f : Scanned(source, expected, f, h)
    OBVIOUS
  <2> DEFINE last == end - h
             g == [from \in 0 .. end |-> IF from = last THEN Turn(source, expected, f, from) ELSE f[from]]
  <2>3. ASSUME NEW from \in 0 .. end, from + (h + 1) > end
        PROVE  g[from] = Turn(source, expected, g, from)
    <3>1. \A i \in 0 .. end : i > from => g[i] = f[i]
      BY <1>0, <2>1, <2>3
    <3>2. Turn(source, expected, g, from) = Turn(source, expected, f, from)
      <4> HIDE DEF g
      <4> QED BY <3>1, TurnLooksAhead
    <3>3. g[from] = Turn(source, expected, f, from)
      <4>1. CASE from = last
        BY <4>1
      <4>2. CASE from # last
        <5>1. from + h > end
          BY <1>0, <2>1, <2>3, <4>2
        <5>2. f[from] = Turn(source, expected, f, from)
          BY <2>2, <5>1 DEF Scanned
        <5> QED BY <4>2, <5>2
      <4> QED BY <4>1, <4>2
    <3> QED BY <3>2, <3>3
  <2>4. g = [from \in 0 .. end |-> g[from]]
    OBVIOUS
  <2> HIDE DEF g
  <2>5. Scanned(source, expected, g, h + 1)
    BY <2>3, <2>4 DEF Scanned
  <2> QED BY <2>1, <2>5
<1> HIDE DEF T
<1>3. T = Nat
  BY <1>1, <1>2, AllNaturals DEF T
<1>4. PICK f : Scanned(source, expected, f, end + 1)
  BY <1>0, <1>3 DEF T
<1>5. \A from \in 0 .. end : from + (end + 1) > end
  BY <1>0
<1>6. \A from \in 0 .. end : f[from] = Turn(source, expected, f, from)
  BY <1>4, <1>5 DEF Scanned
<1>7. f = [from \in 0 .. end |-> f[from]]
  BY <1>4 DEF Scanned
<1> QED BY <1>6, <1>7

\* A finding before all others.
LEMMA ListsOneMore ==
    ASSUME NEW order, NEW S \in SUBSET Nat, IsFiniteSet(S), Lists(order, S),
           NEW n \in Nat, \A i \in S : n < i
    PROVE  Lists(<<n>> \o order, S \cup {n})
<1> DEFINE k == Cardinality(S)
           longer == <<n>> \o order
<1>1. k \in Nat /\ n \notin S /\ Cardinality(S \cup {n}) = k + 1
  <2>1. n \notin S
    OBVIOUS
  <2> QED BY <2>1, FS_CardinalityType, FS_AddElement
<1>2. order \in [1 .. k -> S] /\ Range(order) = S /\ \A i, j \in 1 .. k : i < j => order[i] < order[j]
  BY DEF Lists
<1> HIDE DEF k
<1>3. order \in Seq(Nat) /\ Len(order) = k
  <2>1. order \in [1 .. k -> Nat]
    BY <1>2
  <2> QED BY <1>1, <2>1
<1>4. <<n>> \in Seq(Nat) /\ Len(<<n>>) = 1 /\ <<n>>[1] = n
  OBVIOUS
<1>5. /\ longer \in Seq(Nat) /\ Len(longer) = 1 + k
      /\ \A i \in 1 .. 1 + k : longer[i] = IF i <= 1 THEN <<n>>[i] ELSE order[i - 1]
  <2>1. \A u, v \in Seq(Nat) :
           /\ u \o v \in Seq(Nat) /\ Len(u \o v) = Len(u) + Len(v)
           /\ \A i \in 1 .. Len(u) + Len(v) : (u \o v)[i] = IF i <= Len(u) THEN u[i] ELSE v[i - Len(u)]
    BY ConcatProperties
  <2> QED BY <1>3, <1>4, <2>1
<1> HIDE DEF longer
<1>6. /\ DOMAIN longer = 1 .. k + 1 /\ longer[1] = n
      /\ \A i \in 2 .. k + 1 : i - 1 \in 1 .. k /\ longer[i] = order[i - 1]
  <2>1. 1 .. 1 + k = 1 .. k + 1 /\ Len(longer) = k + 1
    BY <1>1, <1>5
  <2>2. DOMAIN longer = 1 .. k + 1
    BY <1>5, <2>1, LenProperties
  <2>3. ASSUME NEW i \in 2 .. k + 1
        PROVE  i - 1 \in 1 .. k /\ longer[i] = order[i - 1]
    <3>1. i \in 1 .. 1 + k /\ ~ (i <= 1) /\ i - 1 \in 1 .. k
      BY <1>1
    <3> QED BY <1>5, <3>1
  <2>4. 1 \in 1 .. 1 + k /\ 1 <= 1
    BY <1>1
  <2> QED BY <1>4, <1>5, <2>2, <2>3, <2>4
<1>7. longer \in [1 .. k + 1 -> S \cup {n}]
  <2>1. \A i \in 1 .. k + 1 : longer[i] \in S \cup {n}
    BY <1>1, <1>2, <1>6
  <2>2. longer = [i \in 1 .. k + 1 |-> longer[i]]
    BY <1>5, <1>6, LenProperties
  <2> QED BY <2>1, <2>2
<1>8. \A i, j \in 1 .. k + 1 : i < j => longer[i] < longer[j]
  <2> SUFFICES ASSUME NEW i \in 1 .. k + 1, NEW j \in 1 .. k + 1, i < j
               PROVE  longer[i] < longer[j]
      OBVIOUS
  <2>1. j \in 2 .. k + 1 /\ longer[j] = order[j - 1] /\ order[j - 1] \in S /\ j - 1 \in 1 .. k
    BY <1>1, <1>2, <1>6
  <2>2. CASE i = 1
    BY <1>6, <2>1, <2>2
  <2>3. CASE i # 1
    <3>1. i - 1 \in 1 .. k /\ longer[i] = order[i - 1] /\ i - 1 < j - 1
      BY <1>1, <1>6, <2>3
    <3> QED BY <1>2, <2>1, <3>1
  <2> QED BY <2>2, <2>3
<1>9. Range(longer) = S \cup {n}
  <2>1. ASSUME NEW x \in S
        PROVE  \E i \in 1 .. k + 1 : longer[i] = x
    <3>1. PICK i \in 1 .. k : order[i] = x
      BY <1>2 DEF Range
    <3>2. i + 1 \in 2 .. k + 1 /\ i + 1 \in 1 .. k + 1 /\ (i + 1) - 1 = i
      BY <1>1
    <3> QED BY <1>6, <3>1, <3>2
  <2>2. 1 \in 1 .. k + 1
    BY <1>1
  <2>3. \A i \in 1 .. k + 1 : longer[i] \in S \cup {n}
    BY <1>7
  <2>4. \A x : x \in Range(longer) <=> \E i \in 1 .. k + 1 : longer[i] = x
    BY <1>6 DEF Range
  <2>5. n \in Range(longer)
    BY <1>6, <2>2, <2>4
  <2> QED BY <2>1, <2>3, <2>4, <2>5
<1> QED BY <1>1, <1>6, <1>7, <1>8, <1>9 DEF Lists, longer

\* findAllOccurrences() lists every place where a text occurs, overlapping
\* occurrences too, once each and in increasing order, for any two texts.
THEOREM AllAreFound ==
    ASSUME NEW source \in Texts, NEW expected \in Texts
    PROVE  Lists(FindAllOccurrences(source, expected), Starts(source, expected))
<1> DEFINE end == Len(source) + 1
           scan == CHOOSE scan : scan = [from \in 0 .. end |-> Turn(source, expected, scan, from)]
           T == {h \in Nat : \A from \in 0 .. end :
                    from + h > end => Lists(scan[from], Later(source, expected, from))}
<1>0. end \in Nat
  BY StartsAreFinite
<1>1. \A from \in 0 .. end : scan[from] = Turn(source, expected, scan, from)
  <2>1. scan = [from \in 0 .. end |-> Turn(source, expected, scan, from)]
    BY ScanExists
  <2> HIDE DEF scan
  <2> QED BY <2>1
<1>2. FindAllOccurrences(source, expected) = scan[0]
  BY DEF FindAllOccurrences, Scan, Turn
<1> HIDE DEF scan, end
<1>3. 0 \in T
  BY <1>0
<1>4. ASSUME NEW h \in T
      PROVE  h + 1 \in T
  <2> SUFFICES ASSUME NEW from \in 0 .. end, from + (h + 1) > end
               PROVE  Lists(scan[from], Later(source, expected, from))
      OBVIOUS
  <2> DEFINE later == Later(source, expected, from)
             found == IndexOf(source, expected, from)
  <2>1. from \in Nat /\ h \in Nat /\ later \in SUBSET Nat /\ IsFiniteSet(later)
    <3>1. later \subseteq Starts(source, expected)
      BY DEF Later
    <3> QED BY <1>0, <3>1, StartsAreFinite, FS_Subset
  <2>2. CASE later = {}
    <3>1. scan[from] = <<>>
      <4>1. found = -1 /\ found < 0
        BY <2>1, <2>2, IndexOfIsFirst
      <4>2. scan[from] = Turn(source, expected, scan, from)
        BY <1>1
      <4> QED BY <4>1, <4>2 DEF Turn
    <3>2. Lists(<<>>, {})
      BY FS_EmptySet DEF Lists, Range
    <3> QED BY <2>2, <3>1, <3>2
  <2>3. CASE later # {}
    <3>1. found \in later /\ \A i \in later : found <= i
      BY <2>1, <2>3, IndexOfIsFirst
    <3>2. found \in Nat /\ found >= from /\ found + 1 \in 0 .. end
      <4>1. /\ found \in Nat /\ found >= from /\ found + Len(expected) <= Len(source)
            /\ Len(source) \in Nat /\ Len(expected) \in Nat
        BY <3>1, StartsAreFinite DEF Later
      <4> HIDE DEF found
      <4> QED BY <4>1 DEF end
    <3>3. scan[from] = <<found>> \o scan[found + 1]
      <4>1. scan[from] = Turn(source, expected, scan, from) /\ ~ (found < 0)
        BY <1>1, <3>2
      <4> QED BY <4>1 DEF Turn
    <3> DEFINE rest == Later(source, expected, found + 1)
    <3>4. /\ later = rest \cup {found} /\ rest \in SUBSET Nat /\ IsFiniteSet(rest)
          /\ \A i \in rest : found < i
      <4>1. \A i \in Starts(source, expected) : i \in Nat
        BY StartsAreFinite
      <4>2. rest \subseteq later /\ \A i \in later : i = found \/ i \in rest
        BY <2>1, <3>1, <3>2, <4>1 DEF Later
      <4>3. \A i \in rest : found < i
        BY <3>2, <4>1 DEF Later
      <4> HIDE DEF later, rest, found
      <4> QED BY <2>1, <3>1, <4>2, <4>3, FS_Subset
    <3>5. (found + 1) + h > end
      BY <1>0, <2>1, <3>2
    <3>6. Lists(scan[found + 1], rest)
      BY <3>2, <3>5
    <3> HIDE DEF later, rest, found
    <3>7. Lists(<<found>> \o scan[found + 1], rest \cup {found})
      BY <3>2, <3>4, <3>6, ListsOneMore
    <3> QED BY <3>3, <3>4, <3>7 DEF later
  <2> QED BY <2>2, <2>3
<1> HIDE DEF T
<1>5. T = Nat
  BY <1>3, <1>4, AllNaturals DEF T
<1>6. Lists(scan[0], Later(source, expected, 0))
  <2>1. end + 1 \in T /\ 0 \in 0 .. end /\ 0 + (end + 1) > end
    BY <1>0, <1>5
  <2> QED BY <2>1 DEF T
<1>7. Later(source, expected, 0) = Starts(source, expected)
  BY StartsAreFinite DEF Later
<1> QED BY <1>2, <1>6, <1>7

-------------------------------------------------------------------------------
(* planExactPatch(): the places of the edits *)

\* Every edit's text occurs once.
Placed(source, edits) == \A k \in DOMAIN edits : Cardinality(Starts(source, edits[k].oldText)) = 1

LEMMA EditsTyped ==
    ASSUME NEW edits \in Seq(Edits)
    PROVE  /\ Len(edits) \in Nat /\ DOMAIN edits = 1 .. Len(edits)
           /\ \A k \in 1 .. Len(edits) : /\ edits[k].oldText \in Texts /\ edits[k].newText \in Texts
                                         /\ edits[k].oldText # <<>>
                                         /\ Len(edits[k].oldText) \in Nat /\ Len(edits[k].oldText) > 0
<1>1. Len(edits) \in Nat /\ DOMAIN edits = 1 .. Len(edits)
  OBVIOUS
<1>2. ASSUME NEW k \in 1 .. Len(edits)
      PROVE  /\ edits[k].oldText \in Texts /\ edits[k].newText \in Texts
             /\ edits[k].oldText # <<>>
             /\ Len(edits[k].oldText) \in Nat /\ Len(edits[k].oldText) > 0
  <2>1. edits[k] \in Edits
    OBVIOUS
  <2>2. edits[k].oldText \in Seq(Characters) /\ edits[k].oldText # <<>> /\ edits[k].newText \in Seq(Characters)
    BY <2>1 DEF Edits
  <2> QED BY <2>2, EmptySeq DEF Texts
<1> QED BY <1>1, <1>2

\* One finding is the only occurrence.
LEMMA OneStart ==
    ASSUME NEW source \in Texts, NEW expected \in Texts
    PROVE  LET all == FindAllOccurrences(source, expected)
               starts == Starts(source, expected)
           IN  Len(all) = Cardinality(starts) /\ (Cardinality(starts) = 1 => starts = {all[1]})
<1> DEFINE all == FindAllOccurrences(source, expected)
           starts == Starts(source, expected)
<1>1. Lists(all, starts) /\ IsFiniteSet(starts)
  BY AllAreFound, StartsAreFinite
<1> HIDE DEF all, starts
<1>2. Cardinality(starts) \in Nat /\ all \in [1 .. Cardinality(starts) -> starts] /\ Range(all) = starts
  BY <1>1, FS_CardinalityType DEF Lists
<1>3. Len(all) = Cardinality(starts)
  BY <1>2
<1>4. ASSUME Cardinality(starts) = 1
      PROVE  starts = {all[1]}
  <2>1. PICK x : starts = {x}
    BY <1>1, <1>4, FS_Singleton
  <2>2. all[1] \in starts
    BY <1>2, <1>4
  <2> QED BY <2>1, <2>2
<1> QED BY <1>3, <1>4 DEF all, starts

LEMMA PlanFacts ==
    ASSUME NEW source \in Texts, NEW edits \in Seq(Edits), Placed(source, edits), NEW k \in 1 .. Len(edits)
    PROVE  LET p == Plan(source, edits, k)
           IN  /\ p.editIndex = k /\ p.newText = edits[k].newText
               /\ p.start \in Nat /\ p.end \in Nat /\ p.start < p.end /\ p.end <= Len(source)
               /\ p.end = p.start + Len(edits[k].oldText)
               /\ Starts(source, edits[k].oldText) = {p.start}
<1> DEFINE p == Plan(source, edits, k)
           starts == Starts(source, edits[k].oldText)
<1>1. edits[k].oldText \in Texts /\ Len(edits[k].oldText) \in Nat /\ Len(edits[k].oldText) > 0 /\ k \in DOMAIN edits
  BY EditsTyped
<1>2. /\ p.editIndex = k /\ p.newText = edits[k].newText
      /\ p.start = FindAllOccurrences(source, edits[k].oldText)[1]
      /\ p.end = p.start + Len(edits[k].oldText)
  BY DEF Plan
<1>3. Cardinality(starts) = 1
  BY <1>1 DEF Placed
<1>4. starts = {p.start}
  BY <1>1, <1>2, <1>3, OneStart
<1>5. p.start \in Nat /\ p.start + Len(edits[k].oldText) <= Len(source) /\ Len(source) \in Nat
  BY <1>1, <1>4, StartsAreFinite
<1> HIDE DEF p
<1>6. p.end \in Nat /\ p.start < p.end /\ p.end <= Len(source)
  BY <1>1, <1>2, <1>5
<1> QED BY <1>2, <1>4, <1>5, <1>6 DEF p

\* The plans in the order of their places.
Ranked(source, edits, ordered) ==
    /\ DOMAIN ordered = 1 .. Len(edits) /\ Len(ordered) = Len(edits)
    /\ \A i \in 1 .. Len(edits) : \E k \in 1 .. Len(edits) : ordered[i] = Plan(source, edits, k)
    /\ \A k \in 1 .. Len(edits) : \E i \in 1 .. Len(edits) : ordered[i] = Plan(source, edits, k)
    /\ \A i, j \in 1 .. Len(edits) : i < j => Before(ordered[i], ordered[j])

LEMMA PlannedIsRanked ==
    ASSUME NEW source \in Texts, NEW edits \in Seq(Edits), Placed(source, edits)
    PROVE  Ranked(source, edits, Planned(source, edits))
<1> DEFINE n == Len(edits)
           plans == {Plan(source, edits, k) : k \in 1 .. n}
           R == {pair \in plans \X plans : Before(pair[1], pair[2])}
<1>1. n \in Nat /\ DOMAIN edits = 1 .. n
  BY EditsTyped
<1>2. \A e \in plans : /\ e.start \in Nat /\ e.editIndex \in 1 .. n
                       /\ e = Plan(source, edits, e.editIndex)
  BY PlanFacts
<1>3. IsFiniteSet(plans) /\ Cardinality(plans) = n
  <2> DEFINE f == [k \in 1 .. n |-> Plan(source, edits, k)]
  <2>1. f \in [1 .. n -> plans]
    OBVIOUS
  <2>2. \A k, l \in 1 .. n : f[k] = f[l] => k = l
    <3> SUFFICES ASSUME NEW k \in 1 .. n, NEW l \in 1 .. n, f[k] = f[l]
                 PROVE  k = l
        OBVIOUS
    <3>1. Plan(source, edits, k).editIndex = k /\ Plan(source, edits, l).editIndex = l
      BY PlanFacts
    <3> QED BY <3>1
  <2>3. \A e \in plans : \E k \in 1 .. n : f[k] = e
    OBVIOUS
  <2> HIDE DEF f, plans
  <2>4. f \in Bijection(1 .. n, plans)
    BY <2>1, <2>2, <2>3 DEF Bijection, Injection, Surjection, IsInjective
  <2>5. ExistsBijection(1 .. n, plans)
    BY <2>4 DEF ExistsBijection
  <2> HIDE DEF n
  <2>6. IsFiniteSet(1 .. n) /\ Cardinality(1 .. n) = n
    <3>1. IsFiniteSet(1 .. n) /\ Cardinality(1 .. n) = IF 1 > n THEN 0 ELSE n - 1 + 1
      BY <1>1, FS_Interval
    <3> QED BY <1>1, <3>1
  <2> QED BY <2>5, <2>6, FS_Bijection
<1>4. \A e, f \in plans : <<e, f>> \in R <=> Before(e, f)
  OBVIOUS
<1> HIDE DEF R, plans, n
<1>5. \A e \in plans : <<e, e>> \notin R
  BY <1>1, <1>2, <1>4 DEF Before
<1>6. \A e, f, g \in plans : <<e, f>> \in R /\ <<f, g>> \in R => <<e, g>> \in R
  <2> SUFFICES ASSUME NEW e \in plans, NEW f \in plans, NEW g \in plans, Before(e, f), Before(f, g)
               PROVE  Before(e, g)
      BY <1>4
  <2>1. /\ e.start \in Nat /\ f.start \in Nat /\ g.start \in Nat
        /\ e.editIndex \in Nat /\ f.editIndex \in Nat /\ g.editIndex \in Nat
    BY <1>1, <1>2
  <2> QED BY <2>1 DEF Before
<1>7. \A e, f \in plans : e # f => <<e, f>> \in R \/ <<f, e>> \in R
  <2> SUFFICES ASSUME NEW e \in plans, NEW f \in plans, e # f
               PROVE  Before(e, f) \/ Before(f, e)
      BY <1>4
  <2>1. /\ e.start \in Nat /\ f.start \in Nat /\ e.editIndex \in Nat /\ f.editIndex \in Nat
        /\ e.editIndex # f.editIndex
    BY <1>1, <1>2
  <2> QED BY <2>1 DEF Before
<1>8. \E order \in [1 .. n -> plans] :
          Range(order) = plans /\ \A i, j \in 1 .. n : i < j => Before(order[i], order[j])
  <2>1. \E order \in [1 .. Cardinality(plans) -> plans] :
            Range(order) = plans /\ \A i, j \in 1 .. Cardinality(plans) : i < j => <<order[i], order[j]>> \in R
    BY <1>3, <1>5, <1>6, <1>7, SomeListing
  <2> QED BY <1>3, <1>4, <2>1
<1> DEFINE ordered == Planned(source, edits)
<1>9. ordered \in [1 .. n -> plans] /\ Range(ordered) = plans
      /\ \A i, j \in 1 .. n : i < j => Before(ordered[i], ordered[j])
  <2>1. ordered = CHOOSE order \in [1 .. n -> plans] :
            Range(order) = plans /\ \A i, j \in 1 .. n : i < j => Before(order[i], order[j])
    BY <1>1 DEF Planned, plans
  <2> HIDE DEF ordered
  <2> QED BY <1>8, <2>1
<1> HIDE DEF ordered
<1>10. DOMAIN ordered = 1 .. n /\ Len(ordered) = n
  BY <1>1, <1>9
<1>11. \A i \in 1 .. n : \E k \in 1 .. n : ordered[i] = Plan(source, edits, k)
  BY <1>9 DEF plans
<1>12. \A k \in 1 .. n : \E i \in 1 .. n : ordered[i] = Plan(source, edits, k)
  <2> SUFFICES ASSUME NEW k \in 1 .. n
               PROVE  \E i \in 1 .. n : ordered[i] = Plan(source, edits, k)
      OBVIOUS
  <2>1. Plan(source, edits, k) \in Range(ordered)
    BY <1>9 DEF plans
  <2> QED BY <1>10, <2>1 DEF Range
<1> QED BY <1>9, <1>10, <1>11, <1>12 DEF Ranked, ordered, n

LEMMA RankedFacts ==
    ASSUME NEW source \in Texts, NEW edits \in Seq(Edits), Placed(source, edits),
           NEW ordered, Ranked(source, edits, ordered)
    PROVE  /\ \A i \in 1 .. Len(edits) :
                 /\ ordered[i].start \in Nat /\ ordered[i].end \in Nat /\ ordered[i].start < ordered[i].end
                 /\ ordered[i].end <= Len(source)
                 /\ ordered[i].editIndex \in 1 .. Len(edits)
                 /\ ordered[i] = Plan(source, edits, ordered[i].editIndex)
                 /\ ordered[i].newText \in Texts
           /\ \A i, j \in 1 .. Len(edits) : i < j => /\ ordered[i].start <= ordered[j].start
                                                     /\ ordered[i].editIndex # ordered[j].editIndex
<1>1. ASSUME NEW i \in 1 .. Len(edits)
      PROVE  /\ ordered[i].start \in Nat /\ ordered[i].end \in Nat /\ ordered[i].start < ordered[i].end
             /\ ordered[i].end <= Len(source)
             /\ ordered[i].editIndex \in 1 .. Len(edits)
             /\ ordered[i] = Plan(source, edits, ordered[i].editIndex)
             /\ ordered[i].newText \in Texts
  <2>1. PICK k \in 1 .. Len(edits) : ordered[i] = Plan(source, edits, k)
    BY DEF Ranked
  <2>2. /\ ordered[i].editIndex = k /\ ordered[i].newText = edits[k].newText
        /\ ordered[i].start \in Nat /\ ordered[i].end \in Nat /\ ordered[i].start < ordered[i].end
        /\ ordered[i].end <= Len(source)
    BY <2>1, PlanFacts
  <2>3. edits[k].newText \in Texts
    BY EditsTyped
  <2> QED BY <2>1, <2>2, <2>3
<1>2. ASSUME NEW i \in 1 .. Len(edits), NEW j \in 1 .. Len(edits), i < j
      PROVE  /\ ordered[i].start <= ordered[j].start
             /\ ordered[i].editIndex # ordered[j].editIndex
  <2>1. Before(ordered[i], ordered[j])
    BY <1>2 DEF Ranked
  <2>2. /\ ordered[i].start \in Nat /\ ordered[j].start \in Nat
        /\ ordered[i].editIndex \in Nat /\ ordered[j].editIndex \in Nat
    BY <1>1, EditsTyped
  <2>3. ordered[i].start <= ordered[j].start
    BY <2>1, <2>2 DEF Before
  <2>4. ordered[i].editIndex = ordered[j].editIndex => ordered[i] = ordered[j]
    BY <1>1
  <2>5. ordered[i] # ordered[j]
    BY <2>1, <2>2 DEF Before
  <2> QED BY <2>3, <2>4, <2>5
<1> QED BY <1>1, <1>2

LEMMA NoneMisplaced ==
    ASSUME NEW source \in Texts, NEW edits \in Seq(Edits)
    PROVE  Misplaced(source, edits) = {} <=> Placed(source, edits)
<1>1. \A k \in DOMAIN edits : edits[k].oldText \in Texts
  BY EditsTyped
<1>2. \A k \in DOMAIN edits :
          Len(FindAllOccurrences(source, edits[k].oldText)) = Cardinality(Starts(source, edits[k].oldText))
  BY <1>1, OneStart
<1> QED BY <1>2 DEF Misplaced, Placed

-------------------------------------------------------------------------------
(* planExactPatch(): edits that overlap *)

\* No edit starts before the ones in front of it end.
InSequence(ordered, n) == \A i, j \in 1 .. n : i < j => ordered[i].end <= ordered[j].start

\* It is enough to look at neighbours.
LEMMA NeighboursSuffice ==
    ASSUME NEW source \in Texts, NEW edits \in Seq(Edits), Placed(source, edits),
           NEW ordered, Ranked(source, edits, ordered), Overlapping(ordered) = {}
    PROVE  InSequence(ordered, Len(edits))
<1> DEFINE n == Len(edits)
           T == {d \in Nat : \A i, j \in 1 .. n : j = i + 1 + d => ordered[i].end <= ordered[j].start}
<1>1. n \in Nat /\ Len(ordered) = n
  BY EditsTyped DEF Ranked
<1>2. \A i \in 1 .. n : ordered[i].start \in Nat /\ ordered[i].end \in Nat /\ ordered[i].start < ordered[i].end
  BY RankedFacts
<1>3. \A j \in 2 .. n : ~ (ordered[j].start < ordered[j - 1].end)
  BY <1>1 DEF Overlapping
<1> HIDE DEF n
<1>4. \A j \in 2 .. n : ordered[j - 1].end <= ordered[j].start
  <2> SUFFICES ASSUME NEW j \in 2 .. n
               PROVE  ordered[j - 1].end <= ordered[j].start
      OBVIOUS
  <2>1. j \in 1 .. n /\ j - 1 \in 1 .. n
    BY <1>1
  <2> QED BY <1>2, <1>3, <2>1
<1>5. 0 \in T
  <2> SUFFICES ASSUME NEW i \in 1 .. n, NEW j \in 1 .. n, j = i + 1 + 0
               PROVE  ordered[i].end <= ordered[j].start
      OBVIOUS
  <2>1. j \in 2 .. n /\ j - 1 = i
    BY <1>1
  <2> QED BY <1>4, <2>1
<1>6. ASSUME NEW d \in T
      PROVE  d + 1 \in T
  <2> SUFFICES ASSUME NEW i \in 1 .. n, NEW j \in 1 .. n, j = i + 1 + (d + 1)
               PROVE  ordered[i].end <= ordered[j].start
      OBVIOUS
  <2>1. j \in 2 .. n /\ j - 1 \in 1 .. n /\ j - 1 = i + 1 + d
    BY <1>1
  <2>2. ordered[i].end <= ordered[j - 1].start
    BY <2>1
  <2>3. ordered[j - 1].end <= ordered[j].start
    BY <1>4, <2>1
  <2>4. /\ ordered[i].end \in Nat /\ ordered[j].start \in Nat
        /\ ordered[j - 1].start \in Nat /\ ordered[j - 1].end \in Nat /\ ordered[j - 1].start < ordered[j - 1].end
    BY <1>2, <2>1
  <2> QED BY <2>2, <2>3, <2>4
<1> HIDE DEF T
<1>7. T = Nat
  BY <1>5, <1>6, AllNaturals DEF T
<1>8. ASSUME NEW i \in 1 .. n, NEW j \in 1 .. n, i < j
      PROVE  ordered[i].end <= ordered[j].start
  <2>1. j - i - 1 \in T /\ j = i + 1 + (j - i - 1)
    BY <1>1, <1>7, <1>8
  <2> QED BY <2>1 DEF T
<1> QED BY <1>8 DEF n, InSequence

LEMMA AtMostOne ==
    ASSUME NEW S, IsFiniteSet(S)
    PROVE  Cardinality(S) <= 1 <=> \A x, y \in S : x = y
<1>1. Cardinality(S) \in Nat
  BY FS_CardinalityType
<1>2. Cardinality(S) = 0 <=> S = {}
  BY FS_EmptySet
<1>3. Cardinality(S) = 1 <=> \E x : S = {x}
  BY FS_Singleton
<1>4. Cardinality(S) <= 1 <=> (Cardinality(S) = 0 \/ Cardinality(S) = 1)
  BY <1>1
<1>5. (\A x, y \in S : x = y) <=> (S = {} \/ \E x : S = {x})
  OBVIOUS
<1> QED BY <1>2, <1>3, <1>4, <1>5

\* What an edit with one place spans.
LEMMA SpansItsText ==
    ASSUME NEW source \in Texts, NEW edits \in Seq(Edits), Placed(source, edits),
           NEW k \in 1 .. Len(edits), NEW i \in Int
    PROVE  LET p == Plan(source, edits, k)
           IN  (\E at \in Starts(source, edits[k].oldText) : Spanned(edits[k], at, i))
                   <=> p.start <= i /\ i < p.end
<1> DEFINE p == Plan(source, edits, k)
<1>1. Starts(source, edits[k].oldText) = {p.start} /\ p.end = p.start + Len(edits[k].oldText)
  BY PlanFacts
<1> HIDE DEF p
<1>2. (\E at \in Starts(source, edits[k].oldText) : Spanned(edits[k], at, i)) <=> Spanned(edits[k], p.start, i)
  BY <1>1
<1>3. Spanned(edits[k], p.start, i) <=> p.start <= i /\ i < p.end
  BY <1>1 DEF Spanned
<1> QED BY <1>2, <1>3 DEF p

LEMMA ApplicableIfApart ==
    ASSUME NEW source \in Texts, NEW edits \in Seq(Edits), Placed(source, edits),
           NEW ordered, Ranked(source, edits, ordered)
    PROVE  Applicable(source, edits) <=> Overlapping(ordered) = {}
<1> DEFINE n == Len(edits)
           over(i) == {k \in DOMAIN edits : \E at \in Starts(source, edits[k].oldText) : Spanned(edits[k], at, i)}
<1>1. n \in Nat /\ DOMAIN edits = 1 .. n /\ Len(ordered) = n /\ Len(source) \in Nat
  BY EditsTyped, StartsAreFinite DEF Ranked, Texts
<1>2. Applicable(source, edits) <=> \A i \in 0 .. Len(source) - 1 : Cardinality(over(i)) <= 1
  BY DEF Applicable, Placed
<1>3. ASSUME NEW i \in Int
      PROVE  /\ IsFiniteSet(over(i))
             /\ \A k : k \in over(i) <=> /\ k \in 1 .. n
                                         /\ Plan(source, edits, k).start <= i /\ i < Plan(source, edits, k).end
  <2>1. over(i) \subseteq 1 .. n
    BY <1>1
  <2>2. IsFiniteSet(1 .. n)
    BY <1>1, FS_Interval
  <2>3. IsFiniteSet(over(i))
    <3> HIDE DEF over
    <3> QED BY <2>1, <2>2, FS_Subset
  <2>4. ASSUME NEW k \in 1 .. n
        PROVE  k \in over(i) <=> Plan(source, edits, k).start <= i /\ i < Plan(source, edits, k).end
    <3>1. (\E at \in Starts(source, edits[k].oldText) : Spanned(edits[k], at, i))
              <=> Plan(source, edits, k).start <= i /\ i < Plan(source, edits, k).end
      BY SpansItsText
    <3> QED BY <1>1, <3>1
  <2> HIDE DEF over
  <2> QED BY <2>1, <2>3, <2>4
<1>4. \A i \in 1 .. n : /\ ordered[i].start \in Nat /\ ordered[i].end \in Nat /\ ordered[i].start < ordered[i].end
                        /\ ordered[i].end <= Len(source)
                        /\ ordered[i].editIndex \in 1 .. n
                        /\ ordered[i] = Plan(source, edits, ordered[i].editIndex)
  BY RankedFacts
<1>5. \A i, j \in 1 .. n : i < j => /\ ordered[i].start <= ordered[j].start
                                    /\ ordered[i].editIndex # ordered[j].editIndex
  BY RankedFacts
<1> HIDE DEF over
<1>6. ASSUME Overlapping(ordered) = {}, NEW i \in 0 .. Len(source) - 1
      PROVE  Cardinality(over(i)) <= 1
  <2>1. InSequence(ordered, n)
    BY <1>6, NeighboursSuffice
  <2>2. ASSUME NEW x \in over(i), NEW y \in over(i)
        PROVE  x = y
    <3>1. /\ x \in 1 .. n /\ Plan(source, edits, x).start <= i /\ i < Plan(source, edits, x).end
          /\ y \in 1 .. n /\ Plan(source, edits, y).start <= i /\ i < Plan(source, edits, y).end
      BY <1>1, <1>3
    <3>2. PICK a \in 1 .. n : ordered[a] = Plan(source, edits, x)
      BY <3>1 DEF Ranked
    <3>3. PICK b \in 1 .. n : ordered[b] = Plan(source, edits, y)
      BY <3>1 DEF Ranked
    <3>4. a \in Nat /\ b \in Nat /\ i \in Int
      BY <1>1
    <3>5. ~ (a < b)
      <4>1. a < b => ordered[a].end <= ordered[b].start
        BY <2>1 DEF InSequence
      <4> QED BY <1>4, <3>1, <3>2, <3>3, <3>4, <4>1
    <3>6. ~ (b < a)
      <4>1. b < a => ordered[b].end <= ordered[a].start
        BY <2>1 DEF InSequence
      <4> QED BY SMTT(30), <1>4, <3>1, <3>2, <3>3, <3>4, <4>1
    <3>7. a = b
      BY <3>4, <3>5, <3>6
    <3>8. Plan(source, edits, x).editIndex = x /\ Plan(source, edits, y).editIndex = y
      BY DEF Plan
    <3> QED BY <3>2, <3>3, <3>7, <3>8
  <2>3. IsFiniteSet(over(i))
    BY <1>1, <1>3
  <2> QED BY <2>2, <2>3, AtMostOne
<1>7. ASSUME NEW k \in Overlapping(ordered)
      PROVE  \E i \in 0 .. Len(source) - 1 : ~ (Cardinality(over(i)) <= 1)
  <2> DEFINE i == ordered[k].start
             x == ordered[k].editIndex
             y == ordered[k - 1].editIndex
  <2>1. k \in 1 .. n /\ k - 1 \in 1 .. n /\ k - 1 < k /\ ordered[k].start < ordered[k - 1].end
    BY <1>1 DEF Overlapping
  <2>2. /\ i \in Nat /\ i < ordered[k].end /\ ordered[k].end <= Len(source) /\ ordered[k].end \in Nat
        /\ ordered[k - 1].start <= i /\ i < ordered[k - 1].end
        /\ x # y /\ x \in 1 .. n /\ y \in 1 .. n
        /\ ordered[k] = Plan(source, edits, x) /\ ordered[k - 1] = Plan(source, edits, y)
    BY <1>4, <1>5, <2>1
  <2> HIDE DEF i, x, y
  <2>3. i \in Int /\ i \in 0 .. Len(source) - 1
    BY <1>1, <2>2
  <2>4. x \in over(i) /\ y \in over(i) /\ IsFiniteSet(over(i))
    <3>1. Plan(source, edits, x).start <= i /\ i < Plan(source, edits, x).end
      <4>1. Plan(source, edits, x).start = i
        BY <2>2 DEF i
      <4> QED BY <2>2, <4>1
    <3>2. Plan(source, edits, y).start <= i /\ i < Plan(source, edits, y).end
      BY <2>2
    <3> QED BY <1>3, <2>2, <2>3, <3>1, <3>2
  <2> QED BY <2>2, <2>3, <2>4, AtMostOne
<1> QED BY <1>2, <1>6, <1>7

-------------------------------------------------------------------------------
(* What FlattenSeq puts together, one part after the other *)

\* all[k] is what the first k of some sequences make.
Accumulates(all, seqs) ==
    /\ all[0] = <<>>
    /\ \A k \in 1 .. Len(seqs) : all[k] = all[k - 1] \o seqs[k]

LEMMA FlattenAccumulates ==
    ASSUME NEW seqs \in Seq(Texts)
    PROVE  \E all : /\ Accumulates(all, seqs)
                    /\ \A k \in 0 .. Len(seqs) : all[k] \in Texts
                    /\ FlattenSeq(seqs) = all[Len(seqs)]
<1> DEFINE n == Len(seqs)
           Unfolds(f, h) == f = [i \in 1 .. h |-> IF i = 1 THEN seqs[i] ELSE f[i - 1] \o seqs[i]]
           T == {h \in Nat : \E f : Unfolds(f, h)}
<1>0. n \in Nat /\ \A i \in 1 .. n : seqs[i] \in Texts
  OBVIOUS
<1>1. 0 \in T
  <2>1. Unfolds([i \in 1 .. 0 |-> <<>>], 0)
    OBVIOUS
  <2> QED BY <2>1
<1>2. ASSUME NEW h \in T
      PROVE  h + 1 \in T
  <2>1. h \in Nat
    OBVIOUS
  <2>2. PICK f : Unfolds(f, h)
    OBVIOUS
  <2> DEFINE g == [i \in 1 .. h + 1 |-> IF i <= h THEN f[i] ELSE IF i = 1 THEN seqs[i] ELSE f[h] \o seqs[i]]
  <2>3. ASSUME NEW i \in 1 .. h + 1
        PROVE  g[i] = IF i = 1 THEN seqs[i] ELSE g[i - 1] \o seqs[i]
    <3>1. CASE i = 1
      <4>1. 1 <= h => f[1] = seqs[1]
        BY <2>1, <2>2
      <4>2. g[1] = seqs[1]
        BY <2>1, <4>1, <3>1
      <4> QED BY <3>1, <4>2
    <3>2. CASE i # 1 /\ i <= h
      <4>1. i \in 1 .. h /\ i - 1 \in 1 .. h + 1 /\ i - 1 <= h
        BY <2>1, <3>2
      <4>2. g[i] = f[i] /\ g[i - 1] = f[i - 1]
        BY <3>2, <4>1
      <4>3. f[i] = f[i - 1] \o seqs[i]
        BY <2>2, <3>2, <4>1
      <4> QED BY <3>2, <4>2, <4>3
    <3>3. CASE i # 1 /\ i = h + 1
      <4>1. i - 1 = h /\ h \in 1 .. h + 1 /\ h <= h /\ ~ (i <= h)
        BY <2>1, <3>3
      <4>2. g[i] = f[h] \o seqs[i] /\ g[h] = f[h]
        BY <3>3, <4>1
      <4> QED BY <3>3, <4>1, <4>2
    <3> QED BY <2>1, <3>1, <3>2, <3>3
  <2>4. g = [i \in 1 .. h + 1 |-> g[i]]
    OBVIOUS
  <2> HIDE DEF g
  <2>5. Unfolds(g, h + 1)
    BY <2>3, <2>4
  <2> HIDE DEF Unfolds
  <2> QED BY <2>1, <2>5
<1> HIDE DEF T
<1>3. T = Nat
  BY <1>1, <1>2, AllNaturals DEF T
<1> DEFINE flatten == CHOOSE f : Unfolds(f, n)
<1>4. Unfolds(flatten, n)
  <2>1. \E f : Unfolds(f, n)
    BY <1>0, <1>3 DEF T
  <2> HIDE DEF Unfolds
  <2> QED BY <2>1
<1>5. FlattenSeq(seqs) = IF n = 0 THEN seqs ELSE flatten[n]
  BY DEF FlattenSeq
<1> HIDE DEF flatten
<1> DEFINE all == [k \in 0 .. n |-> IF k = 0 THEN <<>> ELSE flatten[k]]
<1>6. all[0] = <<>>
  BY <1>0
<1>7. ASSUME NEW k \in 1 .. n
      PROVE  all[k] = all[k - 1] \o seqs[k]
  <2>1. k \in Nat /\ k # 0 /\ k \in 0 .. n /\ k - 1 \in 0 .. n
    BY <1>0
  <2>2. CASE k = 1
    <3>1. flatten[k] = seqs[k]
      BY <1>4, <2>2
    <3>2. <<>> \o seqs[k] = seqs[k]
      BY <1>0, ConcatEmptySeq DEF Texts
    <3>3. all[k] = flatten[k] /\ k - 1 = 0
      BY <2>1, <2>2
    <3> HIDE DEF all
    <3> QED BY <1>6, <3>1, <3>2, <3>3
  <2>3. CASE k # 1
    <3>1. flatten[k] = flatten[k - 1] \o seqs[k]
      BY <1>4, <2>3
    <3>2. k - 1 # 0
      BY <2>1, <2>3
    <3> QED BY <2>1, <3>1, <3>2
  <2> QED BY <2>2, <2>3
<1>8. FlattenSeq(seqs) = all[n]
  <2>1. CASE n = 0
    <3>1. seqs = <<>>
      BY <2>1, EmptySeq
    <3> QED BY <1>5, <1>6, <2>1, <3>1
  <2>2. CASE n # 0
    BY <1>0, <1>5, <2>2
  <2> QED BY <2>1, <2>2
<1> HIDE DEF all
<1> DEFINE U == {k \in Nat : k <= n => all[k] \in Texts}
<1>9. 0 \in U
  BY <1>6, EmptySeq DEF Texts
<1>10. ASSUME NEW k \in U
       PROVE  k + 1 \in U
  <2> SUFFICES ASSUME k + 1 <= n
               PROVE  k \in Nat /\ all[k + 1] \in Texts
      OBVIOUS
  <2>1. k \in Nat /\ k + 1 \in 1 .. n /\ (k + 1) - 1 = k /\ k <= n
    BY <1>0
  <2>2. all[k] \in Texts /\ all[k + 1] = all[k] \o seqs[k + 1] /\ seqs[k + 1] \in Texts
    BY <1>0, <1>7, <2>1
  <2>3. \A u, v \in Texts : u \o v \in Texts
    BY ConcatProperties DEF Texts
  <2> QED BY <2>1, <2>2, <2>3
<1> HIDE DEF U
<1>11. U = Nat
  BY <1>9, <1>10, AllNaturals DEF U
<1>12. \A k \in 0 .. n : all[k] \in Texts
  BY <1>0, <1>11 DEF U
<1> QED BY <1>6, <1>7, <1>8, <1>12 DEF n, Accumulates

-------------------------------------------------------------------------------
(* The reference's text, piece by piece *)

Begun(source, edits, i) == {k \in DOMAIN edits : i \in Starts(source, edits[k].oldText)}

Over(source, edits, i) ==
    \E k \in DOMAIN edits : \E at \in Starts(source, edits[k].oldText) : Spanned(edits[k], at, i)

Piece(source, edits, i) ==
    IF Begun(source, edits, i) # {} THEN edits[CHOOSE k \in Begun(source, edits, i) : TRUE].newText
    ELSE IF Over(source, edits, i) THEN <<>> ELSE <<source[i + 1]>>

LEMMA ExpectedInPieces ==
    ASSUME NEW source, NEW edits
    PROVE  ExpectedContent(source, edits) =
               FlattenSeq([j \in 1 .. Len(source) |-> Piece(source, edits, j - 1)])
BY DEF ExpectedContent, Piece, Begun, Over

\* The edits in their order, none of which reaches into the next.
Planning(source, edits, ordered) ==
    /\ source \in Texts /\ edits \in Seq(Edits) /\ Placed(source, edits)
    /\ Ranked(source, edits, ordered) /\ InSequence(ordered, Len(edits))

\* The first character of an edit becomes its new text, the others nothing,
\* and what belongs to no edit stays.
LEMMA PieceFacts ==
    ASSUME NEW source, NEW edits, NEW ordered, Planning(source, edits, ordered),
           NEW i \in 0 .. Len(source) - 1
    PROVE  /\ \A r \in 1 .. Len(edits) : i = ordered[r].start => Piece(source, edits, i) = ordered[r].newText
           /\ \A r \in 1 .. Len(edits) :
                 ordered[r].start < i /\ i < ordered[r].end => Piece(source, edits, i) = <<>>
           /\ (\A r \in 1 .. Len(edits) : ~ (ordered[r].start <= i /\ i < ordered[r].end))
                 => Piece(source, edits, i) = <<source[i + 1]>>
<1> DEFINE n == Len(edits)
<1>0. source \in Texts /\ edits \in Seq(Edits) /\ Placed(source, edits) /\ Ranked(source, edits, ordered)
      /\ InSequence(ordered, n)
  BY DEF Planning
<1>1. n \in Nat /\ DOMAIN edits = 1 .. n /\ Len(source) \in Nat /\ i \in Int
  BY <1>0, EditsTyped, StartsAreFinite DEF Texts
<1>2. \A r \in 1 .. n : /\ ordered[r].start \in Nat /\ ordered[r].end \in Nat
                        /\ ordered[r].start < ordered[r].end
                        /\ ordered[r].editIndex \in 1 .. n
                        /\ ordered[r] = Plan(source, edits, ordered[r].editIndex)
  <2> SUFFICES ASSUME NEW r \in 1 .. n
               PROVE  /\ ordered[r].start \in Nat /\ ordered[r].end \in Nat
                      /\ ordered[r].start < ordered[r].end
                      /\ ordered[r].editIndex \in 1 .. n
                      /\ ordered[r] = Plan(source, edits, ordered[r].editIndex)
      OBVIOUS
  <2>1. source \in Texts /\ edits \in Seq(Edits) /\ Placed(source, edits) /\ Ranked(source, edits, ordered)
    BY <1>0
  <2> QED BY <2>1, RankedFacts
<1>3. \A k \in 1 .. n : /\ Starts(source, edits[k].oldText) = {Plan(source, edits, k).start}
                        /\ Plan(source, edits, k).editIndex = k
                        /\ Plan(source, edits, k).newText = edits[k].newText
  <2> SUFFICES ASSUME NEW k \in 1 .. n
               PROVE  /\ Starts(source, edits[k].oldText) = {Plan(source, edits, k).start}
                      /\ Plan(source, edits, k).editIndex = k
                      /\ Plan(source, edits, k).newText = edits[k].newText
      OBVIOUS
  <2>1. source \in Texts /\ edits \in Seq(Edits) /\ Placed(source, edits)
    BY <1>0
  <2>2. Starts(source, edits[k].oldText) = {Plan(source, edits, k).start}
    BY <2>1, PlanFacts
  <2> QED BY <2>2 DEF Plan
<1>4. \A k \in 1 .. n : \E r \in 1 .. n : ordered[r] = Plan(source, edits, k)
  BY <1>0 DEF Ranked
<1>5. \A k : k \in Begun(source, edits, i) <=> k \in 1 .. n /\ Plan(source, edits, k).start = i
  <2>1. \A k \in 1 .. n : i \in Starts(source, edits[k].oldText) <=> Plan(source, edits, k).start = i
    BY <1>3
  <2>2. \A k : k \in Begun(source, edits, i) <=> k \in DOMAIN edits /\ i \in Starts(source, edits[k].oldText)
    BY DEF Begun
  <2> QED BY <1>1, <2>1, <2>2
<1>6. Over(source, edits, i) <=>
          \E k \in 1 .. n : Plan(source, edits, k).start <= i /\ i < Plan(source, edits, k).end
  <2>1. \A k \in 1 .. n : (\E at \in Starts(source, edits[k].oldText) : Spanned(edits[k], at, i))
                             <=> Plan(source, edits, k).start <= i /\ i < Plan(source, edits, k).end
    BY <1>0, <1>1, SpansItsText
  <2> QED BY <1>1, <2>1 DEF Over
<1> HIDE DEF n
<1>7. \A r, q \in 1 .. n : ordered[r].start <= i /\ i < ordered[r].end
                             /\ ordered[q].start <= i /\ i < ordered[q].end => r = q
  <2> SUFFICES ASSUME NEW r \in 1 .. n, NEW q \in 1 .. n,
                      ordered[r].start <= i, i < ordered[r].end,
                      ordered[q].start <= i, i < ordered[q].end
               PROVE  r = q
      OBVIOUS
  <2>1. /\ ordered[r].start \in Nat /\ ordered[r].end \in Nat /\ ordered[q].start \in Nat /\ ordered[q].end \in Nat
        /\ r \in Nat /\ q \in Nat
    BY <1>1, <1>2
  <2>2. (r < q => ordered[r].end <= ordered[q].start) /\ (q < r => ordered[q].end <= ordered[r].start)
    BY <1>0 DEF InSequence
  <2>3. i \in Int
    BY <1>1
  <2>4. ~ (r < q)
    BY <2>1, <2>2, <2>3
  <2>5. ~ (q < r)
    BY <2>1, <2>2, <2>3
  <2>6. r \in Nat /\ q \in Nat
    BY <2>1
  <2> QED BY <2>4, <2>5, <2>6
<1>8. ASSUME NEW r \in 1 .. n, i = ordered[r].start
      PROVE  Piece(source, edits, i) = ordered[r].newText
  <2> DEFINE x == ordered[r].editIndex
             k == CHOOSE k \in Begun(source, edits, i) : TRUE
  <2>1. x \in Begun(source, edits, i)
    BY <1>2, <1>5, <1>8
  <2>2. k \in Begun(source, edits, i)
    BY <2>1
  <2> HIDE DEF k
  <2>3. k \in 1 .. n /\ Plan(source, edits, k).start = i
    BY <1>5, <2>2
  <2>4. PICK q \in 1 .. n : ordered[q] = Plan(source, edits, k)
    BY <1>4, <2>3
  <2>5. q = r
    <3>1. ordered[q].start = i
      BY <2>3, <2>4
    <3>2. ordered[q].start <= i /\ i < ordered[q].end /\ ordered[r].start <= i /\ i < ordered[r].end
      BY <1>1, <1>2, <1>8, <3>1
    <3> QED BY <1>7, <3>2
  <2>6. ordered[r].newText = edits[k].newText
    <3>1. ordered[r] = Plan(source, edits, k)
      BY <2>4, <2>5
    <3> QED BY <1>3, <2>3, <3>1
  <2>7. Piece(source, edits, i) = edits[k].newText
    BY <2>1 DEF Piece, k
  <2> QED BY <2>6, <2>7
<1>9. ASSUME NEW r \in 1 .. n, ordered[r].start < i, i < ordered[r].end
      PROVE  Piece(source, edits, i) = <<>>
  <2>1. Over(source, edits, i)
    <3>1. /\ ordered[r].editIndex \in 1 .. n /\ ordered[r] = Plan(source, edits, ordered[r].editIndex)
          /\ ordered[r].start <= i
      BY <1>1, <1>2, <1>9
    <3> QED BY <1>6, <1>9, <3>1
  <2>2. Begun(source, edits, i) = {}
    <3> SUFFICES ASSUME NEW k \in Begun(source, edits, i)
                 PROVE  FALSE
        OBVIOUS
    <3>1. k \in 1 .. n /\ Plan(source, edits, k).start = i
      BY <1>5
    <3>2. PICK q \in 1 .. n : ordered[q] = Plan(source, edits, k)
      BY <1>4, <3>1
    <3>3. ordered[q].start = i
      BY <3>1, <3>2
    <3>4. ordered[q].start <= i /\ i < ordered[q].end /\ ordered[r].start <= i
      BY <1>1, <1>2, <1>9, <3>3
    <3>5. q = r
      BY <1>7, <1>9, <3>4
    <3> QED BY <1>1, <1>2, <1>9, <3>3, <3>5
  <2> QED BY <2>1, <2>2 DEF Piece
<1>10. ASSUME \A r \in 1 .. n : ~ (ordered[r].start <= i /\ i < ordered[r].end)
       PROVE  Piece(source, edits, i) = <<source[i + 1]>>
  <2>1. ASSUME NEW k \in 1 .. n
        PROVE  ~ (Plan(source, edits, k).start <= i /\ i < Plan(source, edits, k).end)
    BY <1>4, <1>10
  <2>2. ~ Over(source, edits, i)
    BY <1>6, <2>1
  <2>3. Begun(source, edits, i) = {}
    <3> SUFFICES ASSUME NEW k \in Begun(source, edits, i)
                 PROVE  FALSE
        OBVIOUS
    <3>1. k \in 1 .. n /\ Plan(source, edits, k).start = i
      BY <1>5
    <3>2. PICK q \in 1 .. n : ordered[q] = Plan(source, edits, k)
      BY <1>4, <3>1
    <3>3. ordered[q].start = i
      BY <3>1, <3>2
    <3>4. ordered[q].start \in Nat /\ ordered[q].end \in Nat /\ ordered[q].start < ordered[q].end
      BY <1>2
    <3>5. ordered[q].start <= i /\ i < ordered[q].end
      BY <3>3, <3>4
    <3> QED BY <1>10, <3>5
  <2> QED BY <2>2, <2>3 DEF Piece
<1> QED BY <1>8, <1>9, <1>10 DEF n

\* made[j] is what the first j pieces of the reference make.
Made(source, edits, made) ==
    /\ made[0] = <<>>
    /\ \A j \in 1 .. Len(source) : made[j] = made[j - 1] \o Piece(source, edits, j - 1)
    /\ \A j \in 0 .. Len(source) : made[j] \in Texts

LEMMA TextsAssociate == \A u, v, w \in Texts : (u \o v) \o w = u \o (v \o w)
<1> SUFFICES ASSUME NEW u \in Texts, NEW v \in Texts, NEW w \in Texts
             PROVE  (u \o v) \o w = u \o (v \o w)
    OBVIOUS
<1> DEFINE uv == u \o v
           vw == v \o w
           left == uv \o w
           right == u \o vw
<1>1. \A s, t \in Texts : /\ s \o t \in Texts /\ Len(s) \in Nat /\ Len(t) \in Nat
                          /\ Len(s \o t) = Len(s) + Len(t)
                          /\ \A i \in 1 .. Len(s) + Len(t) :
                                (s \o t)[i] = IF i <= Len(s) THEN s[i] ELSE t[i - Len(s)]
  BY ConcatProperties DEF Texts
<1>2. /\ uv \in Texts /\ Len(u) \in Nat /\ Len(v) \in Nat /\ Len(w) \in Nat
      /\ Len(uv) = Len(u) + Len(v)
      /\ \A i \in 1 .. Len(u) + Len(v) : uv[i] = IF i <= Len(u) THEN u[i] ELSE v[i - Len(u)]
  BY <1>1
<1>3. /\ vw \in Texts
      /\ Len(vw) = Len(v) + Len(w)
      /\ \A i \in 1 .. Len(v) + Len(w) : vw[i] = IF i <= Len(v) THEN v[i] ELSE w[i - Len(v)]
  BY <1>1
<1> HIDE DEF uv, vw
<1>4. /\ left \in Texts
      /\ Len(left) = Len(uv) + Len(w)
      /\ \A i \in 1 .. Len(uv) + Len(w) : left[i] = IF i <= Len(uv) THEN uv[i] ELSE w[i - Len(uv)]
  BY <1>1, <1>2
<1>5. /\ right \in Texts
      /\ Len(right) = Len(u) + Len(vw)
      /\ \A i \in 1 .. Len(u) + Len(vw) : right[i] = IF i <= Len(u) THEN u[i] ELSE vw[i - Len(u)]
  BY <1>1, <1>3
<1> HIDE DEF left, right
<1>6. Len(left) = Len(right) /\ Len(left) \in Nat
  BY <1>2, <1>3, <1>4, <1>5
<1>7. ASSUME NEW i \in 1 .. Len(left)
      PROVE  left[i] = right[i]
  <2>1. CASE i <= Len(u)
    BY <1>2, <1>3, <1>4, <1>5, <2>1
  <2>2. CASE ~ (i <= Len(u)) /\ i <= Len(u) + Len(v)
    <3>1. left[i] = v[i - Len(u)]
      BY <1>2, <1>4, <2>2
    <3>2. i - Len(u) \in 1 .. Len(v) + Len(w) /\ i - Len(u) <= Len(v)
      BY <1>2, <1>4, <2>2
    <3>3. vw[i - Len(u)] = v[i - Len(u)]
      BY <1>3, <3>2
    <3> QED BY <1>2, <1>3, <1>5, <1>6, <2>2, <3>1, <3>3
  <2>3. CASE ~ (i <= Len(u) + Len(v))
    <3>1. left[i] = w[i - (Len(u) + Len(v))]
      BY <1>2, <1>4, <2>3
    <3>2. i - Len(u) \in 1 .. Len(v) + Len(w) /\ ~ (i - Len(u) <= Len(v))
          /\ (i - Len(u)) - Len(v) = i - (Len(u) + Len(v))
      BY <1>2, <1>4, <2>3
    <3>3. vw[i - Len(u)] = w[(i - Len(u)) - Len(v)]
      BY <1>3, <3>2
    <3>4. ~ (i <= Len(u)) /\ i \in 1 .. Len(u) + Len(vw)
      BY <1>2, <1>5, <1>6, <2>3
    <3>5. right[i] = vw[i - Len(u)]
      BY <1>5, <3>4
    <3> QED BY <3>1, <3>2, <3>3, <3>5
  <2> QED BY <2>1, <2>2, <2>3
<1>8. left = right
  BY <1>4, <1>5, <1>6, <1>7, SeqEqual DEF Texts
<1> QED BY <1>8 DEF left, right, uv, vw

LEMMA TextFacts ==
    /\ <<>> \in Texts
    /\ \A u \in Texts : u \o <<>> = u
    /\ \A u, v \in Texts : u \o v \in Texts
    /\ \A u, v, w \in Texts : (u \o v) \o w = u \o (v \o w)
<1>1. <<>> \in Texts
  BY EmptySeq DEF Texts
<1>2. \A u \in Texts : u \o <<>> = u
  BY ConcatEmptySeq DEF Texts
<1>3. \A u, v \in Texts : u \o v \in Texts
  BY ConcatProperties DEF Texts
<1>4. \A u, v, w \in Texts : (u \o v) \o w = u \o (v \o w)
  BY TextsAssociate
<1> QED BY <1>1, <1>2, <1>3, <1>4

LEMMA PartsAreTexts ==
    ASSUME NEW source \in Texts, NEW a \in 0 .. Len(source), NEW b \in 0 .. Len(source)
    PROVE  SubSeq(source, a + 1, b) \in Texts
<1>1. Len(source) \in Nat /\ a + 1 \in Int /\ b \in Int
  BY DEF Texts
<1>2. \A i \in a + 1 .. b : source[i] \in Characters
  BY <1>1 DEF Texts
<1> QED BY <1>1, <1>2, SubSeqProperties DEF Texts

\* From a to b nothing is edited.
Unedited(source, edits, a, b) == \A i \in a .. b - 1 : Piece(source, edits, i) = <<source[i + 1]>>

\* Where pieces are characters, they are copied.
LEMMA PiecesCopied ==
    ASSUME NEW source \in Texts, NEW edits, NEW made, Made(source, edits, made),
           NEW a \in 0 .. Len(source), NEW b \in a .. Len(source), Unedited(source, edits, a, b)
    PROVE  made[b] = made[a] \o SubSeq(source, a + 1, b)
<1> DEFINE T == {d \in Nat : a + d <= b => made[a + d] = made[a] \o SubSeq(source, a + 1, a + d)}
<1>0. Len(source) \in Nat /\ a \in Nat /\ b \in Nat
  BY DEF Texts
<1>1. 0 \in T
  <2>1. SubSeq(source, a + 1, a + 0) = <<>>
    BY <1>0, SubSeqEmpty
  <2>2. made[a + 0] = made[a] /\ made[a] \in Texts
    BY <1>0 DEF Made
  <2> QED BY <2>1, <2>2, TextFacts
<1>2. ASSUME NEW d \in T
      PROVE  d + 1 \in T
  <2>0. d \in Nat /\ d + 1 \in Nat
    OBVIOUS
  <2> SUFFICES ASSUME a + (d + 1) <= b
               PROVE  made[a + (d + 1)] = made[a] \o SubSeq(source, a + 1, a + (d + 1))
      BY <2>0
  <2> DEFINE at == a + d
  <2>1. /\ d \in Nat /\ at \in Nat /\ at \in a .. b - 1 /\ at \in 0 .. Len(source) /\ at <= b
        /\ at + 1 \in 1 .. Len(source) /\ (at + 1) - 1 = at /\ a + (d + 1) = at + 1
        /\ a + 1 \in 1 .. Len(source) /\ at + 1 \in a + 1 .. Len(source)
    BY <1>0
  <2>2. made[at] = made[a] \o SubSeq(source, a + 1, at)
    BY <2>1
  <2> HIDE DEF at, T
  <2>3. made[at + 1] = made[at] \o <<source[at + 1]>>
    <3>1. made[at + 1] = made[(at + 1) - 1] \o Piece(source, edits, (at + 1) - 1)
      BY <2>1 DEF Made
    <3>2. Piece(source, edits, at) = <<source[at + 1]>>
      BY <2>1 DEF Unedited
    <3> QED BY <2>1, <3>1, <3>2
  <2>4. SubSeq(source, a + 1, at + 1) = SubSeq(source, a + 1, at) \o <<source[at + 1]>>
    <3>1. SubSeq(source, a + 1, at + 1) = SubSeq(source, a + 1, (at + 1) - 1) \o <<source[at + 1]>>
      BY <2>1, SubSeqRecursiveSecond DEF Texts
    <3> QED BY <2>1, <3>1
  <2>5. made[a] \in Texts /\ SubSeq(source, a + 1, at) \in Texts /\ <<source[at + 1]>> \in Texts
    <3>1. source[at + 1] \in Characters
      BY <2>1 DEF Texts
    <3>2. <<source[at + 1]>> \in Texts
      BY <3>1 DEF Texts
    <3>3. made[a] \in Texts
      BY DEF Made
    <3>4. SubSeq(source, a + 1, at) \in Texts
      BY <2>1, PartsAreTexts
    <3> QED BY <3>2, <3>3, <3>4
  <2>6. (made[a] \o SubSeq(source, a + 1, at)) \o <<source[at + 1]>>
            = made[a] \o (SubSeq(source, a + 1, at) \o <<source[at + 1]>>)
    <3> DEFINE u == made[a]
               v == SubSeq(source, a + 1, at)
               w == <<source[at + 1]>>
    <3>1. u \in Texts /\ v \in Texts /\ w \in Texts
      BY <2>5
    <3> HIDE DEF u, v, w
    <3>2. (u \o v) \o w = u \o (v \o w)
      BY <3>1, TextFacts
    <3> QED BY <3>2 DEF u, v, w
  <2> QED BY <2>1, <2>2, <2>3, <2>4, <2>6
<1> HIDE DEF T
<1>3. T = Nat
  BY <1>1, <1>2, AllNaturals DEF T
<1>4. b - a \in T /\ a + (b - a) = b
  BY <1>0, <1>3
<1>5. made[a + (b - a)] = made[a] \o SubSeq(source, a + 1, a + (b - a))
  <2>1. a + (b - a) <= b
    BY <1>0
  <2> QED BY <1>4, <2>1 DEF T
<1> QED BY <1>4, <1>5

\* Where pieces are empty, nothing is added.
LEMMA PiecesSkipped ==
    ASSUME NEW source \in Texts, NEW edits, NEW made, Made(source, edits, made),
           NEW a \in 0 .. Len(source), NEW b \in a .. Len(source),
           \A i \in a .. b - 1 : Piece(source, edits, i) = <<>>
    PROVE  made[b] = made[a]
<1> DEFINE T == {d \in Nat : a + d <= b => made[a + d] = made[a]}
<1>0. Len(source) \in Nat /\ a \in Nat /\ b \in Nat
  BY DEF Texts
<1>1. 0 \in T
  BY <1>0
<1>2. ASSUME NEW d \in T
      PROVE  d + 1 \in T
  <2> SUFFICES ASSUME a + (d + 1) <= b
               PROVE  d \in Nat /\ made[a + (d + 1)] = made[a]
      OBVIOUS
  <2> DEFINE at == a + d
  <2>1. /\ d \in Nat /\ at \in a .. b - 1 /\ at \in 0 .. Len(source) /\ at <= b
        /\ at + 1 \in 1 .. Len(source) /\ (at + 1) - 1 = at /\ a + (d + 1) = at + 1
    BY <1>0
  <2>2. made[at] = made[a]
    BY <2>1
  <2> HIDE DEF at, T
  <2>3. made[(at + 1) - 1] \in Texts /\ made[at + 1] = made[(at + 1) - 1] \o Piece(source, edits, (at + 1) - 1)
    BY <2>1 DEF Made
  <2>4. Piece(source, edits, at) = <<>>
    BY <2>1
  <2>5. made[at + 1] = made[at]
    BY <2>1, <2>3, <2>4, TextFacts
  <2> QED BY <2>1, <2>2, <2>5
<1> HIDE DEF T
<1>3. T = Nat
  BY <1>1, <1>2, AllNaturals DEF T
<1>4. b - a \in T /\ a + (b - a) = b
  BY <1>0, <1>3
<1> QED BY <1>4 DEF T

\* Where the copying goes on behind the first r edits.
CopiedTo(ordered, r) == IF r = 0 THEN 0 ELSE ordered[r].end

LEMMA CopiedToFacts ==
    ASSUME NEW source, NEW edits, NEW ordered, Planning(source, edits, ordered)
    PROVE  LET n == Len(edits)
           IN  /\ \A r \in 0 .. n : CopiedTo(ordered, r) \in 0 .. Len(source)
               /\ \A r \in 1 .. n : CopiedTo(ordered, r - 1) <= ordered[r].start
               /\ \A r \in 1 .. n : \A i \in CopiedTo(ordered, r - 1) .. ordered[r].start - 1 :
                     i \in 0 .. Len(source) - 1 /\ Piece(source, edits, i) = <<source[i + 1]>>
               /\ \A i \in CopiedTo(ordered, n) .. Len(source) - 1 : Piece(source, edits, i) = <<source[i + 1]>>
<1> DEFINE n == Len(edits)
<1>0. source \in Texts /\ edits \in Seq(Edits) /\ Placed(source, edits) /\ Ranked(source, edits, ordered)
      /\ InSequence(ordered, n)
  BY DEF Planning
<1>1. n \in Nat /\ Len(source) \in Nat
  BY <1>0, EditsTyped, StartsAreFinite DEF Texts
<1>2. \A r \in 1 .. n : /\ ordered[r].start \in Nat /\ ordered[r].end \in Nat
                        /\ ordered[r].start < ordered[r].end /\ ordered[r].end <= Len(source)
  BY <1>0, RankedFacts
<1>3. \A r, q \in 1 .. n : r < q => ordered[r].end <= ordered[q].start
  BY <1>0 DEF InSequence
<1>4. \A i \in 0 .. Len(source) - 1 :
          (\A q \in 1 .. n : ~ (ordered[q].start <= i /\ i < ordered[q].end))
              => Piece(source, edits, i) = <<source[i + 1]>>
  BY PieceFacts
<1> HIDE DEF n
<1>5. \A r \in 0 .. n : CopiedTo(ordered, r) \in 0 .. Len(source)
  <2> SUFFICES ASSUME NEW r \in 0 .. n
               PROVE  CopiedTo(ordered, r) \in 0 .. Len(source)
      OBVIOUS
  <2>1. CASE r = 0
    BY <1>1, <2>1 DEF CopiedTo
  <2>2. CASE r # 0
    <3>1. r \in 1 .. n
      BY <1>1, <2>2
    <3>2. CopiedTo(ordered, r) = ordered[r].end
      BY <2>2 DEF CopiedTo
    <3> QED BY <1>1, <1>2, <3>1, <3>2
  <2> QED BY <2>1, <2>2
<1>6. \A r \in 1 .. n : \A q \in 1 .. n : q < r => ordered[q].end <= CopiedTo(ordered, r - 1)
  <2> SUFFICES ASSUME NEW r \in 1 .. n, NEW q \in 1 .. n, q < r
               PROVE  ordered[q].end <= CopiedTo(ordered, r - 1)
      OBVIOUS
  <2>1. r - 1 # 0 /\ r - 1 \in 1 .. n /\ (q = r - 1 \/ q < r - 1)
    BY <1>1
  <2>2. CopiedTo(ordered, r - 1) = ordered[r - 1].end
    BY <2>1 DEF CopiedTo
  <2>3. /\ ordered[q].end \in Nat /\ ordered[r - 1].start \in Nat /\ ordered[r - 1].end \in Nat
        /\ ordered[r - 1].start < ordered[r - 1].end
    BY <1>2, <2>1
  <2>4. q < r - 1 => ordered[q].end <= ordered[r - 1].start
    BY <1>3, <2>1
  <2> QED BY <2>1, <2>2, <2>3, <2>4
<1>7. \A r \in 1 .. n : CopiedTo(ordered, r - 1) <= ordered[r].start
  <2> SUFFICES ASSUME NEW r \in 1 .. n
               PROVE  CopiedTo(ordered, r - 1) <= ordered[r].start
      OBVIOUS
  <2>1. CASE r = 1
    <3>1. CopiedTo(ordered, r - 1) = 0
      BY <2>1 DEF CopiedTo
    <3>2. ordered[r].start \in Nat
      BY <1>2
    <3> QED BY <3>1, <3>2
  <2>2. CASE r # 1
    <3>1. r - 1 \in 1 .. n /\ r - 1 < r /\ r - 1 # 0
      BY <1>1, <2>2
    <3>2. CopiedTo(ordered, r - 1) = ordered[r - 1].end
      BY <3>1 DEF CopiedTo
    <3> QED BY <1>3, <3>1, <3>2
  <2> QED BY <2>1, <2>2
<1>8. ASSUME NEW r \in 1 .. n, NEW i \in CopiedTo(ordered, r - 1) .. ordered[r].start - 1
      PROVE  i \in 0 .. Len(source) - 1 /\ Piece(source, edits, i) = <<source[i + 1]>>
  <2>1. /\ r - 1 \in 0 .. n /\ CopiedTo(ordered, r - 1) \in Nat /\ i \in Int
        /\ CopiedTo(ordered, r - 1) <= i /\ i < ordered[r].start
        /\ ordered[r].start \in Nat /\ ordered[r].end \in Nat
        /\ ordered[r].start < ordered[r].end /\ ordered[r].end <= Len(source)
    <3>1. r - 1 \in 0 .. n
      BY <1>1
    <3>2. CopiedTo(ordered, r - 1) \in Nat
      BY <1>5, <3>1
    <3> QED BY <1>2, <3>1, <3>2
  <2>2. i \in 0 .. Len(source) - 1
    BY SMTT(30), <1>1, <2>1
  <2>3. ASSUME NEW q \in 1 .. n
        PROVE  ~ (ordered[q].start <= i /\ i < ordered[q].end)
    <3>1. ordered[q].start \in Nat /\ ordered[q].end \in Nat /\ q \in Nat /\ r \in Nat
      BY <1>1, <1>2
    <3>2. CASE q < r
      <4>1. ordered[q].end <= CopiedTo(ordered, r - 1)
        BY <1>6, <3>2
      <4> QED BY <2>1, <3>1, <4>1
    <3>3. CASE q = r
      BY <2>1, <3>3
    <3>4. CASE r < q
      <4>1. ordered[r].end <= ordered[q].start
        BY <1>3, <3>4
      <4> QED BY <2>1, <3>1, <4>1
    <3> QED BY <3>1, <3>2, <3>3, <3>4
  <2> QED BY <1>4, <2>2, <2>3
<1>9. ASSUME NEW i \in CopiedTo(ordered, n) .. Len(source) - 1
      PROVE  Piece(source, edits, i) = <<source[i + 1]>>
  <2>1. n \in 0 .. n /\ CopiedTo(ordered, n) \in Nat /\ i \in 0 .. Len(source) - 1 /\ CopiedTo(ordered, n) <= i
    <3>1. n \in 0 .. n
      BY <1>1
    <3>2. CopiedTo(ordered, n) \in Nat
      BY <1>5, <3>1
    <3> QED BY <1>1, <3>1, <3>2
  <2>2. ASSUME NEW q \in 1 .. n
        PROVE  ~ (ordered[q].start <= i /\ i < ordered[q].end)
    <3>1. /\ ordered[q].start \in Nat /\ ordered[q].end \in Nat /\ n # 0 /\ n \in 1 .. n
          /\ ordered[n].start \in Nat /\ ordered[n].end \in Nat /\ ordered[n].start < ordered[n].end
      <4>1. n # 0 /\ n \in 1 .. n
        BY <1>1
      <4> QED BY <1>2, <4>1
    <3>2. CopiedTo(ordered, n) = ordered[n].end
      BY <3>1 DEF CopiedTo
    <3>3. q = n \/ q < n
      BY <1>1
    <3>4. q < n => ordered[q].end <= ordered[n].start
      BY <1>3, <3>1
    <3>5. ordered[q].end <= ordered[n].end
      BY <3>1, <3>3, <3>4
    <3>6. i \in Int
      BY <2>1
    <3> QED BY <2>1, <3>1, <3>2, <3>5, <3>6
  <2> QED BY <1>4, <2>1, <2>2
<1> QED BY <1>5, <1>7, <1>8, <1>9 DEF n

\* An edit's old text becomes its new one.
Replaced(made, edit) == made[edit.end] = made[edit.start] \o edit.newText

LEMMA EditReplaced ==
    ASSUME NEW source, NEW edits, NEW ordered, Planning(source, edits, ordered),
           NEW made, Made(source, edits, made), NEW r \in 1 .. Len(edits)
    PROVE  Replaced(made, ordered[r])
<1> DEFINE edit == ordered[r]
           s == edit.start
           e == edit.end
<1>1. source \in Texts /\ Len(source) \in Nat
  BY StartsAreFinite DEF Planning, Texts
<1>2. s \in Nat /\ e \in Nat /\ s < e /\ e <= Len(source)
  BY RankedFacts DEF Planning
<1>3. \A i \in 0 .. Len(source) - 1 : s < i /\ i < e => Piece(source, edits, i) = <<>>
  BY PieceFacts
<1>4. \A i \in 0 .. Len(source) - 1 : i = s => Piece(source, edits, i) = edit.newText
  BY PieceFacts
<1> HIDE DEF edit, s, e
<1>5. made[s + 1] = made[s] \o edit.newText
  <2>1. s \in 0 .. Len(source) - 1 /\ s + 1 \in 1 .. Len(source) /\ (s + 1) - 1 = s
    BY <1>1, <1>2
  <2>2. made[s + 1] = made[(s + 1) - 1] \o Piece(source, edits, (s + 1) - 1)
    BY <2>1 DEF Made
  <2> QED BY <1>4, <2>1, <2>2
<1>6. made[e] = made[s + 1]
  <2>1. s + 1 \in 0 .. Len(source) /\ e \in s + 1 .. Len(source)
    BY <1>1, <1>2
  <2>2. \A i \in s + 1 .. e - 1 : Piece(source, edits, i) = <<>>
    <3>1. \A i \in s + 1 .. e - 1 : i \in 0 .. Len(source) - 1 /\ s < i /\ i < e
      BY <1>1, <1>2
    <3> QED BY <1>3, <3>1
  <2> QED BY <1>1, <2>1, <2>2, PiecesSkipped
<1>7. Replaced(made, edit)
  BY <1>5, <1>6 DEF s, e, Replaced
<1> QED BY <1>7 DEF edit

LEMMA PiecesAreTexts ==
    ASSUME NEW source, NEW edits, NEW ordered, Planning(source, edits, ordered),
           NEW i \in 0 .. Len(source) - 1
    PROVE  Piece(source, edits, i) \in Texts
<1>1. source \in Texts /\ Len(source) \in Nat
  BY StartsAreFinite DEF Planning, Texts
<1>2. \A r \in 1 .. Len(edits) : /\ ordered[r].newText \in Texts
                                 /\ ordered[r].start \in Nat /\ ordered[r].end \in Nat
  BY RankedFacts DEF Planning
<1>3. <<source[i + 1]>> \in Texts
  <2>1. i + 1 \in 1 .. Len(source)
    BY <1>1
  <2>2. source[i + 1] \in Characters
    BY <1>1, <2>1 DEF Texts
  <2> QED BY <2>2 DEF Texts
<1>4. CASE \E r \in 1 .. Len(edits) : i = ordered[r].start
  <2>1. PICK r \in 1 .. Len(edits) : i = ordered[r].start
    BY <1>4
  <2>2. Piece(source, edits, i) = ordered[r].newText
    BY <2>1, PieceFacts
  <2> QED BY <1>2, <2>2
<1>5. CASE \E r \in 1 .. Len(edits) : ordered[r].start < i /\ i < ordered[r].end
  <2>1. PICK r \in 1 .. Len(edits) : ordered[r].start < i /\ i < ordered[r].end
    BY <1>5
  <2>2. Piece(source, edits, i) = <<>>
    BY <2>1, PieceFacts
  <2> QED BY <2>2, TextFacts
<1>6. CASE \A r \in 1 .. Len(edits) : ~ (ordered[r].start <= i /\ i < ordered[r].end)
  <2>1. Piece(source, edits, i) = <<source[i + 1]>>
    BY <1>6, PieceFacts
  <2> QED BY <1>3, <2>1
<1>7. \A r \in 1 .. Len(edits) : ordered[r].start <= i => i = ordered[r].start \/ ordered[r].start < i
  BY <1>1, <1>2
<1> QED BY <1>4, <1>5, <1>6, <1>7

\* The text that is put together edit by edit is the one that is put together
\* position by position.
LEMMA PatchedAsExpected ==
    ASSUME NEW source, NEW edits, NEW ordered, Planning(source, edits, ordered), edits # <<>>
    PROVE  ApplyPlannedPatch(source, ordered) = ExpectedContent(source, edits)
<1> DEFINE n == Len(edits)
           pieces == [j \in 1 .. Len(source) |-> Piece(source, edits, j - 1)]
           copied(k) == SubSeq(source, (IF k = 1 THEN 0 ELSE ordered[k - 1].end) + 1, ordered[k].start)
           parts == [k \in DOMAIN ordered |-> copied(k) \o ordered[k].newText]
<1>1. /\ source \in Texts /\ Len(source) \in Nat /\ edits \in Seq(Edits)
      /\ n \in Nat /\ n # 0 /\ DOMAIN ordered = 1 .. n /\ Len(ordered) = n
  <2>1. edits \in Seq(Edits) /\ Ranked(source, edits, ordered) /\ source \in Texts
    BY DEF Planning
  <2>2. n \in Nat /\ n # 0
    BY <2>1
  <2>3. Len(source) \in Nat
    BY <2>1, StartsAreFinite DEF Texts
  <2> QED BY <2>1, <2>2, <2>3 DEF Ranked
<1>2. \A r \in 1 .. n : /\ ordered[r].newText \in Texts
                        /\ ordered[r].start \in Nat /\ ordered[r].end \in Nat
                        /\ ordered[r].start < ordered[r].end /\ ordered[r].end <= Len(source)
  BY RankedFacts DEF Planning
<1>3. /\ \A r \in 0 .. n : CopiedTo(ordered, r) \in 0 .. Len(source)
      /\ \A r \in 1 .. n : CopiedTo(ordered, r - 1) <= ordered[r].start
      /\ \A r \in 1 .. n : \A i \in CopiedTo(ordered, r - 1) .. ordered[r].start - 1 :
            i \in 0 .. Len(source) - 1 /\ Piece(source, edits, i) = <<source[i + 1]>>
      /\ \A i \in CopiedTo(ordered, n) .. Len(source) - 1 : Piece(source, edits, i) = <<source[i + 1]>>
  BY CopiedToFacts
<1> HIDE DEF n
<1>4. pieces \in Seq(Texts) /\ Len(pieces) = Len(source)
      /\ \A j \in 1 .. Len(source) : pieces[j] = Piece(source, edits, j - 1)
  <2>1. \A j \in 1 .. Len(source) : j - 1 \in 0 .. Len(source) - 1
    BY <1>1
  <2>2. \A j \in 1 .. Len(source) : Piece(source, edits, j - 1) \in Texts
    BY <2>1, PiecesAreTexts
  <2> QED BY <1>1, <2>2
<1>5. ExpectedContent(source, edits) = FlattenSeq(pieces)
  BY ExpectedInPieces
<1> HIDE DEF pieces
<1>6. PICK made : /\ Accumulates(made, pieces)
                  /\ \A k \in 0 .. Len(pieces) : made[k] \in Texts
                  /\ FlattenSeq(pieces) = made[Len(pieces)]
  BY <1>4, FlattenAccumulates
<1>7. Made(source, edits, made) /\ ExpectedContent(source, edits) = made[Len(source)]
  BY <1>4, <1>5, <1>6 DEF Made, Accumulates
<1>18. \A a \in 0 .. Len(source) : \A b \in a .. Len(source) :
          Unedited(source, edits, a, b) => made[b] = made[a] \o SubSeq(source, a + 1, b)
  <2> SUFFICES ASSUME NEW a \in 0 .. Len(source), NEW b \in a .. Len(source),
                      Unedited(source, edits, a, b)
               PROVE  made[b] = made[a] \o SubSeq(source, a + 1, b)
      OBVIOUS
  <2>1. source \in Texts
    BY <1>1
  <2>2. Made(source, edits, made)
    BY <1>7
  <2> HIDE DEF copied, parts
  <2> QED BY <2>1, <2>2, PiecesCopied
<1>19. \A r \in 1 .. Len(edits) : Replaced(made, ordered[r])
  <2>1. Made(source, edits, made)
    BY <1>7
  <2> QED BY <2>1, EditReplaced
<1>8. \A r \in 1 .. n : copied(r) = SubSeq(source, CopiedTo(ordered, r - 1) + 1, ordered[r].start)
  <2> SUFFICES ASSUME NEW r \in 1 .. n
               PROVE  copied(r) = SubSeq(source, CopiedTo(ordered, r - 1) + 1, ordered[r].start)
      OBVIOUS
  <2>1. r = 1 <=> r - 1 = 0
    BY <1>1
  <2>2. CopiedTo(ordered, r - 1) = IF r = 1 THEN 0 ELSE ordered[r - 1].end
    BY <2>1 DEF CopiedTo
  <2> QED BY <2>2
<1>9. \A r \in 1 .. n : copied(r) \in Texts
  <2> SUFFICES ASSUME NEW r \in 1 .. n
               PROVE  copied(r) \in Texts
      OBVIOUS
  <2>1. r - 1 \in 0 .. n /\ ordered[r].start \in 0 .. Len(source)
    BY <1>1, <1>2
  <2>2. CopiedTo(ordered, r - 1) \in 0 .. Len(source)
    BY <1>3, <2>1
  <2>3. SubSeq(source, CopiedTo(ordered, r - 1) + 1, ordered[r].start) \in Texts
    BY <1>1, <2>1, <2>2, PartsAreTexts
  <2> QED BY <1>8, <2>3
<1>10. parts \in Seq(Texts) /\ Len(parts) = n /\ \A r \in 1 .. n : parts[r] = copied(r) \o ordered[r].newText
  <2>1. \A r \in 1 .. n : copied(r) \o ordered[r].newText \in Texts
    BY <1>2, <1>9, TextFacts
  <2> HIDE DEF copied
  <2> QED BY <1>1, <2>1
<1>11. ApplyPlannedPatch(source, ordered) = FlattenSeq(parts) \o SubSeq(source, ordered[n].end + 1, Len(source))
  BY <1>1 DEF ApplyPlannedPatch, Last
<1> HIDE DEF parts, copied
<1>12. PICK all : /\ Accumulates(all, parts)
                  /\ \A k \in 0 .. Len(parts) : all[k] \in Texts
                  /\ FlattenSeq(parts) = all[Len(parts)]
  BY <1>10, FlattenAccumulates
<1> DEFINE T == {r \in Nat : r <= n => all[r] = made[CopiedTo(ordered, r)]}
<1>13. 0 \in T
  BY <1>7, <1>12 DEF CopiedTo, Accumulates, Made
<1>14. ASSUME NEW r \in T
       PROVE  r + 1 \in T
  <2>0. r \in Nat /\ r + 1 \in Nat
    OBVIOUS
  <2> DEFINE k == r + 1
  <2> SUFFICES ASSUME k <= n
               PROVE  all[k] = made[CopiedTo(ordered, k)]
      BY <2>0
  <2>1. k \in 1 .. n /\ k - 1 = r /\ r \in 0 .. n /\ r <= n /\ k # 0
    BY <1>1, <2>0
  <2>2. all[r] = made[CopiedTo(ordered, r)]
    BY <2>1
  <2> HIDE DEF k, T
  <2>3. all[k] = all[r] \o (copied(k) \o ordered[k].newText)
    BY <1>10, <1>12, <2>1 DEF Accumulates
  <2> DEFINE a == CopiedTo(ordered, r)
             b == ordered[k].start
  <2>4. a \in 0 .. Len(source) /\ b \in a .. Len(source) /\ b \in 0 .. Len(source)
    <3>1. a \in 0 .. Len(source) /\ a <= b
      BY <1>3, <2>1
    <3>2. b \in Nat /\ b <= Len(source)
      BY <1>1, <1>2, <2>1
    <3> HIDE DEF a, b
    <3> QED BY <1>1, <3>1, <3>2
  <2>5. Unedited(source, edits, a, b)
    BY <1>3, <2>1 DEF Unedited
  <2>6. copied(k) = SubSeq(source, a + 1, b)
    BY <1>8, <2>1
  <2>7. made[ordered[k].end] = made[b] \o ordered[k].newText
    <3>1. k \in 1 .. Len(edits)
      BY <2>1 DEF n
    <3> DEFINE edit == ordered[k]
    <3> HIDE DEF b, edit
    <3>2. Replaced(made, edit)
      BY <1>19, <3>1 DEF edit
    <3> QED BY <3>2 DEF Replaced, b, edit
  <2>8. CopiedTo(ordered, k) = ordered[k].end
    BY <2>1 DEF CopiedTo
  <2> HIDE DEF a, b
  <2>9. made[b] = made[a] \o SubSeq(source, a + 1, b)
    BY <1>18, <2>4, <2>5
  <2>10. made[a] \in Texts /\ copied(k) \in Texts /\ ordered[k].newText \in Texts
    BY <1>2, <1>7, <1>9, <2>1, <2>4 DEF Made
  <2>11. (made[a] \o copied(k)) \o ordered[k].newText = made[a] \o (copied(k) \o ordered[k].newText)
    BY <2>10, TextFacts
  <2>12. all[r] = made[a]
    BY <2>2 DEF a
  <2> QED BY <2>3, <2>6, <2>7, <2>8, <2>9, <2>11, <2>12
<1> HIDE DEF T
<1>15. T = Nat
  BY <1>13, <1>14, AllNaturals DEF T
<1>16. FlattenSeq(parts) = made[CopiedTo(ordered, n)] /\ CopiedTo(ordered, n) = ordered[n].end
  <2>1. n \in T /\ n <= n
    BY <1>1, <1>15
  <2>2. all[n] = made[CopiedTo(ordered, n)]
    BY <2>1 DEF T
  <2> QED BY <1>1, <1>10, <1>12, <2>2 DEF CopiedTo
<1>17. made[Len(source)] = made[CopiedTo(ordered, n)] \o SubSeq(source, CopiedTo(ordered, n) + 1, Len(source))
  <2> DEFINE a == CopiedTo(ordered, n)
  <2>1. a \in 0 .. Len(source)
    <3>1. n \in 0 .. n
      BY <1>1
    <3> QED BY <1>3, <3>1
  <2>2. Unedited(source, edits, a, Len(source))
    BY <1>3 DEF Unedited
  <2> HIDE DEF a
  <2>3. Len(source) \in a .. Len(source)
    BY <1>1, <2>1
  <2>4. made[Len(source)] = made[a] \o SubSeq(source, a + 1, Len(source))
    BY <1>18, <2>1, <2>2, <2>3
  <2> QED BY <2>4 DEF a
<1> QED BY <1>7, <1>11, <1>16, <1>17

\* The planner refuses what is not applicable and applies what is.
LEMMA PlannerIsExact ==
    ASSUME NEW source \in Texts, NEW edits \in Seq(Edits), edits # <<>>
    PROVE  PatchIsExact(source, edits, PlanExactPatch(source, edits))
<1> DEFINE result == PlanExactPatch(source, edits)
           ordered == Planned(source, edits)
<1>1. CASE ~ Placed(source, edits)
  <2>1. ~ Applicable(source, edits)
    BY <1>1 DEF Applicable, Placed
  <2>2. result.kind = "conflict"
    BY <1>1, NoneMisplaced DEF PlanExactPatch, Conflict
  <2> QED BY <2>1, <2>2 DEF PatchIsExact
<1>2. CASE Placed(source, edits)
  <2>1. Misplaced(source, edits) = {}
    BY <1>2, NoneMisplaced
  <2>2. Ranked(source, edits, ordered)
    BY <1>2, PlannedIsRanked
  <2>3. Applicable(source, edits) <=> Overlapping(ordered) = {}
    BY <1>2, <2>2, ApplicableIfApart
  <2>4. CASE Overlapping(ordered) # {}
    <3>1. result.kind = "conflict"
      BY <2>1, <2>4 DEF PlanExactPatch, Conflict
    <3> QED BY <2>3, <2>4, <3>1 DEF PatchIsExact
  <2>5. CASE Overlapping(ordered) = {}
    <3>1. result = [kind |-> "patched", content |-> ApplyPlannedPatch(source, ordered)]
      BY <2>1, <2>5 DEF PlanExactPatch
    <3>2. Planning(source, edits, ordered)
      <4> HIDE DEF ordered
      <4>1. InSequence(ordered, Len(edits))
        BY <1>2, <2>2, <2>5, NeighboursSuffice
      <4> QED BY <1>2, <2>2, <4>1 DEF Planning
    <3>3. ApplyPlannedPatch(source, ordered) = ExpectedContent(source, edits)
      <4> HIDE DEF ordered
      <4> QED BY <3>2, PatchedAsExpected
    <3> QED BY <2>3, <2>5, <3>1, <3>3 DEF PatchIsExact
  <2> QED BY <2>4, <2>5
<1> QED BY <1>1, <1>2

-------------------------------------------------------------------------------
(* The patch of a behaviour *)

\* What is planned was asked for, and the planner's answer is kept with it.
PatchInv ==
    patch.stage = "planned" =>
        /\ patch.source \in Sources /\ patch.edits \in EditLists
        /\ patch.result = PlanExactPatch(patch.source, patch.edits)

LEMMA StepKeepsPatch ==
    ASSUME PatchInv, [Next]_vars
    PROVE  PatchInv'
<1>1. ASSUME UNCHANGED patch
      PROVE  PatchInv'
  BY <1>1 DEF PatchInv
<1>2. ASSUME NEW source \in Sources, NEW edits \in EditLists, PlanPatch(source, edits)
      PROVE  PatchInv'
  <2>1. patch' = [stage |-> "planned", source |-> source, edits |-> edits,
                  result |-> PlanExactPatch(source, edits)]
    BY <1>2 DEF PlanPatch
  <2> QED BY <2>1 DEF PatchInv
<1>3. CASE Request
  <2>1. ASSUME NEW top \in Places, NEW limit \in Limits, ListFrom(top, limit)
        PROVE  PatchInv'
    BY <1>1, <2>1 DEF ListFrom
  <2>2. ASSUME NEW n \in Nodes, NEW limit \in Limits, ReadFrom(n, limit)
        PROVE  PatchInv'
    BY <1>1, <2>2 DEF ReadFrom
  <2>3. ASSUME NEW top \in Directories, NEW byQuery \in BOOLEAN, NEW results \in MaxResults,
               NEW bytes \in MaxBytes, NEW fileBytes \in MaxFileBytes, NEW depth \in MaxDepths,
               NEW entries \in EntryLimits,
               SearchFrom(top, byQuery, results, bytes, fileBytes, depth, entries)
        PROVE  PatchInv'
    BY <1>1, <2>3 DEF SearchFrom
  <2> QED BY Zenon, <1>2, <1>3, <2>1, <2>2, <2>3 DEF Request
<1>4. CASE ListDirectory \/ InspectEntry \/ ListPage \/ NextPage
  BY <1>1, <1>4 DEF ListDirectory, InspectEntry, ListPage, NextPage
<1>5. CASE OpenToRead
  BY <1>1, <1>5 DEF OpenToRead
<1>6. CASE ReadRange
  <2>1. UNCHANGED patch
    BY Zenon, <1>6 DEF ReadRange
  <2> QED BY <1>1, <2>1
<1>7. CASE Enter \/ Visit \/ Descend \/ OpenSearched \/ Return \/ SearchComplete
  BY <1>1, <1>7 DEF Enter, Visit, Descend, OpenSearched, Return, SearchComplete
<1>8. CASE ReadMatches
  <2>1. UNCHANGED patch
    BY Zenon, <1>8 DEF ReadMatches
  <2> QED BY <1>1, <2>1
<1>9. CASE \E n \in Nodes : ChangeTree(n)
  BY <1>1, <1>9 DEF ChangeTree
<1>10. CASE UNCHANGED vars
  BY <1>1, <1>10 DEF vars
<1> QED BY Zenon, <1>3, <1>4, <1>5, <1>6, <1>7, <1>8, <1>9, <1>10 DEF Next

\* Whatever the text and the edits, file_patch refuses exactly what does not
\* apply: every edit's text must occur once, overlapping occurrences counted,
\* and no character may belong to two edits.  What it makes otherwise is the
\* text with each edit's text replaced and nothing else changed, in whatever
\* order the edits came (planExactPatch(), findAllOccurrences(),
\* applyPlannedPatch()).
THEOREM PatchesAreExact == Spec => []PatchMatchesReference
<1>1. Init => PatchInv
  BY DEF Init, NoPatch, PatchInv
<1>2. PatchInv /\ [Next]_vars => PatchInv'
  BY StepKeepsPatch
<1>3. PatchInv => PatchMatchesReference
  <2> SUFFICES ASSUME PatchInv, patch.stage = "planned"
               PROVE  PatchIsExact(patch.source, patch.edits, patch.result)
      BY DEF PatchMatchesReference
  <2>1. patch.source \in Texts /\ patch.edits \in Seq(Edits) /\ patch.edits # <<>>
    BY PatchesAssumption DEF PatchInv, Texts
  <2> QED BY <2>1, PlannerIsExact DEF PatchInv
<1> QED BY <1>1, <1>2, <1>3, PTL DEF Spec

===============================================================================
