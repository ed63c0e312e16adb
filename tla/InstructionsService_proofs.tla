----------------------- MODULE InstructionsService_proofs -----------------------
(***************************************************************************)
(* Theorems about the requests that use a workspace handle, together: the  *)
(* registry, resolve() and the skill requests, for any calls, paths,       *)
(* directories, files, skills and changes by other programs.               *)
(***************************************************************************)
EXTENDS InstructionsService, SequenceTheorems, WellFoundedInduction, TLAPS

-------------------------------------------------------------------------------
(* The workspace registry *)

\* The parts of the state the other invariants speak of.
RegistryTypes ==
    /\ at \in [Paths -> Occupants]
    /\ rows \in [Openers -> Row \cup {NoRow}]
    /\ opening \in [Openers -> Opening]
    /\ getting \in [Readers -> Getting]

\* Workspace handles and directories at paths are one to one.
OneHandle ==
    \A i, j \in Openers : Opened(i) /\ Opened(j) /\ i # j =>
        rows[i].path # rows[j].path \/ rows[i].identity # rows[j].identity

\* A call of open() that is not over has created no row, and knows what it
\* has found so far.
Unborn ==
    \A c \in Openers :
        /\ opening[c].pc # "settled" => ~Opened(c)
        /\ opening[c].pc \in {"stat", "repo", "upsert"} => opening[c].path \in Paths
        /\ opening[c].pc \in {"repo", "upsert"} => opening[c].identity \in Directories

StatusOf(id) == StatusNow(at, rows[id].path, rows[id].identity)

\* A get() that is under way has read a row, and has watched its directory
\* ever since; one that found it answers for that row.
Watching ==
    \A c \in Readers :
        /\ getting[c].pc # "settled" => getting[c].answer = "none"
        /\ getting[c].pc \in {"stat", "revalidate"} =>
              /\ getting[c].id \in Openers /\ Opened(getting[c].id)
              /\ StatusOf(getting[c].id) \in truths[c]
        /\ getting[c].answer \in Statuses => getting[c].id \in Openers /\ Opened(getting[c].id)
        /\ getting[c].pc = "revalidate" =>
              getting[c].current \in Statuses /\ getting[c].current \in truths[c]

TruthsTyped == truths \in [Readers -> SUBSET Statuses]

RegistryInv ==
    /\ RegistryTypes
    /\ OneHandle
    /\ Unborn
    /\ Watching
    /\ StatusWasTrue
    /\ TruthsTyped

\* A step keeps every handle as it is, and the handles one to one.
Bound ==
    /\ \A id \in Openers : Opened(id) =>
          /\ rows'[id] # NoRow
          /\ rows'[id].path = rows[id].path /\ rows'[id].identity = rows[id].identity
    /\ \A i, j \in Openers : Opened(i)' /\ Opened(j)' /\ i # j =>
          rows'[i].path # rows'[j].path \/ rows'[i].identity # rows'[j].identity

-------------------------------------------------------------------------------

LEMMA NewRowIsRow ==
    ASSUME NEW p \in Paths, NEW d \in Directories
    PROVE  NewRow(p, d) \in Row /\ NewRow(p, d) # NoRow
  BY DEF NewRow, Row, NoRow, Statuses

LEMMA RenewedIsRow ==
    ASSUME NEW row \in Row
    PROVE  LET renewed == [row EXCEPT !.status = "available", !.version = @ + 1]
           IN  renewed \in Row /\ renewed.path = row.path /\ renewed.identity = row.identity
<1>1. row.version + 1 \in Nat \ {0} /\ "available" \in Statuses
  BY DEF Row, Statuses
<1> QED BY <1>1 DEF Row

\* What get() does to its own state.
LEMMA GettingUpdated ==
    ASSUME getting \in [Readers -> Getting], NEW c \in Readers, NEW g \in Getting,
           getting' = [getting EXCEPT ![c] = g]
    PROVE  /\ getting' \in [Readers -> Getting]
           /\ getting'[c] = g
           /\ \A r \in Readers \ {c} : getting'[r] = getting[r]
  OBVIOUS

LEMMA StatusNowIsStatus ==
    ASSUME NEW place \in [Paths -> Occupants], NEW row \in Row
    PROVE  StatusNow(place, row.path, row.identity) \in Statuses
  BY DEF Row, Occupants, StatusNow, Statuses

LEMMA OpenedIsRow ==
    ASSUME RegistryTypes, NEW id \in Openers
    PROVE  Opened(id) <=> rows[id] \in Row
<1>1. NoRow \notin Row
  BY DEF NoRow, Row, Statuses
<1> QED BY <1>1 DEF RegistryTypes, Opened

LEMMA InitRegistryInv == Init => RegistryInv
<1> SUFFICES ASSUME Init
             PROVE  RegistryInv
    OBVIOUS
<1>1. RegistryStart
  BY DEF Init, RegistryInit, RegistryInitOpened
<1>2. at \in [Paths -> Occupants]
  BY <1>1 DEF RegistryStart, Occupants
<1>3. getting \in [Readers -> Getting] /\ \A c \in Readers : getting[c] = IdleGetting
  BY <1>1 DEF RegistryStart, Getting, GetStages, IdleGetting
<1>4. Watching /\ StatusWasTrue /\ TruthsTyped
  BY <1>1, <1>3 DEF RegistryStart, IdleGetting, Watching, StatusWasTrue, Statuses, TruthsTyped
<1>5. CASE RegistryInit
  <2>1. /\ rows \in [Openers -> Row \cup {NoRow}]
        /\ \A c \in Openers : ~Opened(c) /\ opening[c] = IdleOpening
    BY <1>5 DEF RegistryInit, Opened
  <2>2. opening \in [Openers -> Opening]
    BY <1>5 DEF RegistryInit, Opening, OpenStages, IdleOpening
  <2>3. OneHandle /\ Unborn
    BY <2>1 DEF OneHandle, Unborn, IdleOpening
  <2> QED BY <1>2, <1>3, <1>4, <2>1, <2>2, <2>3 DEF RegistryInv, RegistryTypes
<1>6. CASE RegistryInitOpened
  <2>1. PICK c \in Openers, p \in Paths :
           /\ at[p] \in Directories
           /\ rows = [id \in Openers |-> IF id = c THEN NewRow(p, at[p]) ELSE NoRow]
           /\ opening = [o \in Openers |->
                 IF o = c THEN [pc |-> "settled", path |-> p, identity |-> at[p], answer |-> c]
                          ELSE [IdleOpening EXCEPT !.pc = "settled"]]
    BY <1>6 DEF RegistryInitOpened
  <2>2. rows \in [Openers -> Row \cup {NoRow}]
    BY <2>1, NewRowIsRow
  <2>3. opening \in [Openers -> Opening]
    BY <2>1 DEF Opening, OpenStages, IdleOpening
  <2>4. \A o \in Openers : opening[o].pc = "settled"
    BY <2>1 DEF IdleOpening
  <2>5. OneHandle /\ Unborn
    BY <2>1, <2>4 DEF OneHandle, Unborn, Opened
  <2> QED BY <1>2, <1>3, <1>4, <2>2, <2>3, <2>5 DEF RegistryInv, RegistryTypes
<1> QED BY <1>5, <1>6 DEF Init

\* Steps of other requests.
LEMMA OthersKeep ==
    ASSUME RegistryInv, UNCHANGED registryVars
    PROVE  RegistryInv' /\ Bound
<1> USE DEF registryVars
<1>1. RegistryTypes' /\ OneHandle' /\ Unborn' /\ StatusWasTrue' /\ TruthsTyped'
  BY DEF RegistryInv, RegistryTypes, OneHandle, Unborn, Opened, StatusWasTrue, TruthsTyped
<1>2. Watching'
  BY DEF RegistryInv, Watching, Opened, StatusOf, StatusNow
<1>3. Bound
  BY DEF RegistryInv, Bound, OneHandle, Opened
<1> QED BY <1>1, <1>2, <1>3 DEF RegistryInv

LEMMA MoveKeeps ==
    ASSUME RegistryInv, NEW p \in Paths, Move(p)
    PROVE  RegistryInv' /\ Bound
<1> USE DEF RegistryInv
<1>1. UNCHANGED <<rows, opening, getting>> /\ truths' = Watched(at')
  BY DEF Move
<1>2. RegistryTypes'
  BY DEF RegistryTypes, Move
<1>3. OneHandle' /\ Unborn' /\ Bound
  BY <1>1 DEF OneHandle, Unborn, Bound, Opened
<1>4. \A c \in Readers : truths[c] \subseteq truths'[c]
  BY <1>1 DEF Watched
<1>5. StatusWasTrue' /\ TruthsTyped'
  <2>1. ASSUME NEW c \in Readers, getting[c].pc \in {"stat", "revalidate"}
        PROVE  StatusNow(at', rows[getting[c].id].path, rows[getting[c].id].identity) \in Statuses
    BY <1>2, <2>1, OpenedIsRow, StatusNowIsStatus DEF Watching, RegistryTypes
  <2>2. TruthsTyped'
    BY <1>1, <2>1 DEF Watched, TruthsTyped
  <2> QED BY <1>1, <1>4, <2>2 DEF StatusWasTrue
<1>6. Watching'
  <2>1. \A c \in Readers : getting[c].pc \in {"stat", "revalidate"} =>
           StatusNow(at', rows[getting[c].id].path, rows[getting[c].id].identity) \in truths'[c]
    BY <1>1 DEF Watched
  <2> QED BY <1>1, <1>4, <2>1 DEF Watching, Opened, StatusOf
<1> QED BY <1>2, <1>3, <1>5, <1>6

\* open(), before the upsert.
LEMMA OpeningKeeps ==
    ASSUME RegistryInv, NEW c \in Openers,
           (\E p \in Paths : OpenPath(c, p)) \/ StatDirectory(c) \/ FindRepoRoot(c)
    PROVE  RegistryInv' /\ Bound
<1> USE DEF RegistryInv
<1>1. UNCHANGED <<at, rows, getting, truths>>
  BY DEF OpenPath, StatDirectory, FindRepoRoot
<1>2. opening[c] \in Opening /\ opening \in [Openers -> Opening]
  BY DEF RegistryTypes
<1>3. /\ opening' \in [Openers -> Opening]
      /\ \A o \in Openers \ {c} : opening'[o] = opening[o]
      /\ opening[c].pc # "settled"
      /\ opening'[c].pc \in {"stat", "repo", "upsert"} => opening'[c].path \in Paths
      /\ opening'[c].pc \in {"repo", "upsert"} => opening'[c].identity \in Directories
  <2> USE <1>2 DEF Opening, OpenStages, OpenFails
  <2>1. CASE \E p \in Paths : OpenPath(c, p)
    BY <2>1 DEF OpenPath
  <2>2. CASE StatDirectory(c)
    BY <2>2 DEF StatDirectory, Unborn
  <2>3. CASE FindRepoRoot(c)
    BY <2>3 DEF FindRepoRoot, Unborn
  <2> QED BY <2>1, <2>2, <2>3
<1>4. RegistryTypes' /\ OneHandle' /\ StatusWasTrue' /\ TruthsTyped' /\ Bound
  BY <1>1, <1>3 DEF RegistryTypes, OneHandle, StatusWasTrue, TruthsTyped, Bound, Opened
<1>5. Unborn'
  BY <1>1, <1>3 DEF Unborn, Opened
<1>6. Watching'
  BY <1>1 DEF Watching, Opened, StatusOf, StatusNow
<1> QED BY <1>4, <1>5, <1>6

\* The upsert adds a row for a directory that has none, or renews the one it has.
LEMMA UpsertKeeps ==
    ASSUME RegistryInv, NEW c \in Openers, Upsert(c)
    PROVE  RegistryInv' /\ Bound
<1> USE DEF RegistryInv
<1> DEFINE path == opening[c].path
           identity == opening[c].identity
<1>1. /\ opening[c].pc = "upsert" /\ path \in Paths /\ identity \in Directories
      /\ ~Opened(c) /\ UNCHANGED <<at, getting, truths>>
  BY DEF Upsert, Unborn
<1>2. PICK id \in Openers, row \in Row :
         /\ rows' = [rows EXCEPT ![id] = row]
         /\ opening' = [opening EXCEPT ![c].pc = "settled", ![c].answer = id]
         /\ row.path = path /\ row.identity = identity
         /\ \/ id = c /\ Conflicting(path, identity) = {}
            \/ Opened(id) /\ rows[id].path = path /\ rows[id].identity = identity
  <2> DEFINE result == Upserted(c, path, identity)
  <2>0. /\ rows' = [rows EXCEPT ![result.id] = result.row]
        /\ opening' = [opening EXCEPT ![c].pc = "settled", ![c].answer = result.id]
    BY DEF Upsert
  <2>1. CASE Conflicting(path, identity) = {}
    <3>1. result.id = c /\ result.row = NewRow(path, identity)
      BY <2>1 DEF Upserted
    <3>2. NewRow(path, identity).path = path /\ NewRow(path, identity).identity = identity
      BY DEF NewRow
    <3>3. NewRow(path, identity) \in Row
      BY <1>1, NewRowIsRow
    <3> HIDE DEF result, path, identity
    <3> QED BY <2>0, <2>1, <3>1, <3>2, <3>3
  <2>2. CASE Conflicting(path, identity) # {}
    <3>1. PICK i \in Conflicting(path, identity) :
             /\ result.id = i
             /\ result.row = [rows[i] EXCEPT !.status = "available", !.version = @ + 1]
      BY <2>2 DEF Upserted
    <3>2. i \in Openers /\ Opened(i) /\ rows[i].path = path /\ rows[i].identity = identity
      BY <3>1 DEF Conflicting
    <3>3. rows[i] \in Row
      BY <3>2, OpenedIsRow
    <3>4. result.row \in Row /\ result.row.path = path /\ result.row.identity = identity
      BY <3>1, <3>2, <3>3, RenewedIsRow
    <3> HIDE DEF result, path, identity
    <3> QED BY <2>0, <3>1, <3>2, <3>4
  <2> QED BY <2>1, <2>2
<1>3. rows \in [Openers -> Row \cup {NoRow}] /\ opening \in [Openers -> Opening]
  BY DEF RegistryTypes
<1>4. NoRow \notin Row
  BY DEF NoRow, Row, Statuses
<1>5. /\ rows' \in [Openers -> Row \cup {NoRow}]
      /\ rows'[id] = row /\ Opened(id)'
      /\ \A i \in Openers \ {id} : rows'[i] = rows[i] /\ (Opened(i)' <=> Opened(i))
  BY <1>2, <1>3, <1>4 DEF Opened
<1>6. /\ opening' \in [Openers -> Opening] /\ opening'[c].pc = "settled"
      /\ \A o \in Openers \ {c} : opening'[o] = opening[o]
  BY <1>2, <1>3 DEF Opening, OpenStages
<1>7. RegistryTypes'
  BY <1>1, <1>5, <1>6 DEF RegistryTypes
<1>8. \A i \in Openers \ {id} : Opened(i) => rows[i].path # path \/ rows[i].identity # identity
  BY <1>2 DEF Conflicting, OneHandle
<1>9. OneHandle'
  BY <1>2, <1>5, <1>8 DEF OneHandle
<1>10. \A i \in Openers : Opened(i) =>
          Opened(i)' /\ rows'[i].path = rows[i].path /\ rows'[i].identity = rows[i].identity
  BY <1>1, <1>2, <1>5
<1>11. Bound
  BY <1>9, <1>10 DEF Bound, OneHandle, Opened
<1>12. Unborn'
  BY <1>1, <1>2, <1>5, <1>6 DEF Unborn
<1>13. Watching'
  BY <1>1, <1>10 DEF Watching, StatusOf, StatusNow
<1>14. StatusWasTrue' /\ TruthsTyped'
  BY <1>1 DEF StatusWasTrue, TruthsTyped
<1> QED BY <1>7, <1>9, <1>11, <1>12, <1>13, <1>14

\* get(): read the row, look at the directory, write what differs.
LEMMA GetKeeps ==
    ASSUME RegistryInv, NEW c \in Readers, Get(c)
    PROVE  RegistryInv' /\ Bound
<1> USE DEF RegistryInv
<1>1. getting \in [Readers -> Getting] /\ rows \in [Openers -> Row \cup {NoRow}]
  BY DEF RegistryTypes
<1>2. NoRow \notin Row
  BY DEF NoRow, Row, Statuses
<1>3. ASSUME NEW id \in Openers, ReadRow(c, id)
      PROVE  RegistryInv' /\ Bound
  <2>1. UNCHANGED <<at, rows, opening>>
    BY <1>3 DEF ReadRow
  <2>0. \A i \in Openers : (Opened(i)' <=> Opened(i)) /\ StatusOf(i)' = StatusOf(i)
    BY <2>1 DEF Opened, StatusOf, StatusNow
  <2>2. OneHandle' /\ Unborn' /\ Bound
    BY <2>1 DEF OneHandle, Unborn, Bound, Opened
  <2>3. CASE ~Opened(id)
    <3>1. getting' = [getting EXCEPT ![c].pc = "settled", ![c].id = id, ![c].answer = "not-found"]
          /\ truths' = truths
      BY <1>3, <2>3 DEF ReadRow
    <3> DEFINE g == [getting[c] EXCEPT !.pc = "settled", !.id = id, !.answer = "not-found"]
    <3>2. /\ getting' \in [Readers -> Getting]
          /\ getting'[c].pc = "settled" /\ getting'[c].answer = "not-found"
          /\ \A r \in Readers \ {c} : getting'[r] = getting[r]
      <4>1. g \in Getting /\ g.pc = "settled" /\ g.answer = "not-found"
        BY <1>1 DEF Getting, GetStages
      <4>2. getting' = [getting EXCEPT ![c] = g]
        BY <1>1, <3>1
      <4> QED BY <1>1, <4>1, <4>2, GettingUpdated
    <3>3. RegistryTypes'
      BY <2>1, <3>2 DEF RegistryTypes
    <3>4. StatusWasTrue' /\ TruthsTyped'
      BY <2>1, <3>1, <3>2 DEF StatusWasTrue, Statuses, TruthsTyped
    <3>5. Watching'
      BY <2>0, <3>1, <3>2 DEF Watching, Statuses
    <3> QED BY <2>2, <3>3, <3>4, <3>5
  <2>4. CASE Opened(id)
    <3>1. /\ getting' = [getting EXCEPT ![c].pc = "stat", ![c].id = id, ![c].read = rows[id].status]
          /\ truths' = [truths EXCEPT ![c] = {StatusOf(id)}]
      BY <1>3, <2>4 DEF ReadRow, StatusOf
    <3>2. rows[id].status \in Statuses
      BY <2>4, OpenedIsRow DEF Row
    <3> DEFINE g == [getting[c] EXCEPT !.pc = "stat", !.id = id, !.read = rows[id].status]
    <3>3. /\ getting' \in [Readers -> Getting]
          /\ getting'[c].pc = "stat" /\ getting'[c].id = id /\ getting'[c].answer = "none"
          /\ \A r \in Readers \ {c} : getting'[r] = getting[r]
      <4>1. getting[c].answer = "none"
        BY <1>3 DEF ReadRow, Watching
      <4>2. g \in Getting /\ g.pc = "stat" /\ g.id = id /\ g.answer = "none"
        BY <1>1, <3>2, <4>1 DEF Getting, GetStages
      <4>3. getting' = [getting EXCEPT ![c] = g]
        BY <1>1, <3>1
      <4> QED BY <1>1, <4>2, <4>3, GettingUpdated
    <3> HIDE DEF g
    <3>4. /\ truths'[c] = {StatusOf(id)} /\ TruthsTyped'
          /\ \A r \in Readers \ {c} : truths'[r] = truths[r]
      <4>1. StatusOf(id) \in Statuses
        BY <2>4, OpenedIsRow, StatusNowIsStatus DEF StatusOf, RegistryTypes
      <4> QED BY <3>1, <4>1 DEF TruthsTyped
    <3>5. RegistryTypes'
      BY <2>1, <3>3 DEF RegistryTypes
    <3>6. Watching'
      BY <2>0, <2>4, <3>3, <3>4 DEF Watching
    <3>7. StatusWasTrue'
      BY <3>3, <3>4 DEF StatusWasTrue, Statuses
    <3> QED BY <2>2, <3>4, <3>5, <3>6, <3>7
  <2> QED BY <2>3, <2>4
<1>4. CASE InspectPath(c)
  <2> DEFINE g == getting[c]
  <2>1. g.pc = "stat" /\ UNCHANGED <<at, rows, opening, truths>>
    BY <1>4 DEF InspectPath
  <2>2. g.id \in Openers /\ Opened(g.id) /\ StatusOf(g.id) \in truths[c] /\ g.answer = "none"
    BY <2>1 DEF Watching
  <2>3. StatusOf(g.id) \in Statuses
    BY <2>2, OpenedIsRow, StatusNowIsStatus DEF StatusOf, RegistryTypes
  <2>4. /\ \A i \in Openers : (Opened(i)' <=> Opened(i)) /\ StatusOf(i)' = StatusOf(i)
        /\ truths' = truths
    BY <2>1 DEF Opened, StatusOf, StatusNow
  <2>5. ASSUME NEW h \in Getting, getting' = [getting EXCEPT ![c] = h], h.id = g.id,
               \/ h.pc = "revalidate" /\ h.current = StatusOf(g.id) /\ h.answer = "none"
               \/ h.pc = "settled" /\ h.answer = "failed"
        PROVE  RegistryInv' /\ Bound
    <3> HIDE DEF g
    <3>1. /\ getting' \in [Readers -> Getting] /\ getting'[c] = h
          /\ \A r \in Readers \ {c} : getting'[r] = getting[r]
      BY <1>1, <2>5, GettingUpdated
    <3>2. RegistryTypes' /\ OneHandle' /\ Unborn' /\ Bound
      BY <2>1, <3>1 DEF RegistryTypes, OneHandle, Unborn, Bound, Opened
    <3>3. "failed" \notin Statuses /\ "none" \notin Statuses
      BY DEF Statuses
    <3>4. Watching'
      BY <2>2, <2>3, <2>4, <2>5, <3>1, <3>3 DEF Watching
    <3>5. StatusWasTrue' /\ TruthsTyped'
      BY <2>4, <2>5, <3>1, <3>3 DEF StatusWasTrue, TruthsTyped
    <3> QED BY <3>2, <3>4, <3>5
  <2>6. CASE getting' = [getting EXCEPT ![c].pc = "revalidate", ![c].current = StatusOf(g.id)]
    <3> DEFINE h == [g EXCEPT !.pc = "revalidate", !.current = StatusOf(g.id)]
    <3>1. /\ h \in Getting /\ h.id = g.id /\ h.pc = "revalidate"
          /\ h.current = StatusOf(g.id) /\ h.answer = "none"
      BY <1>1, <2>2, <2>3 DEF Getting, GetStages
    <3>2. getting' = [getting EXCEPT ![c] = h]
      BY <1>1, <2>6
    <3> HIDE DEF g, h
    <3> QED BY <2>5, <3>1, <3>2
  <2>7. CASE getting' = [getting EXCEPT ![c].pc = "settled", ![c].answer = "failed"]
    <3> DEFINE h == [g EXCEPT !.pc = "settled", !.answer = "failed"]
    <3>1. h \in Getting /\ h.id = g.id /\ h.pc = "settled" /\ h.answer = "failed"
      BY <1>1 DEF Getting, GetStages
    <3>2. getting' = [getting EXCEPT ![c] = h]
      BY <1>1, <2>7
    <3> HIDE DEF g, h
    <3> QED BY <2>5, <3>1, <3>2
  <2> QED BY <1>4, <2>6, <2>7 DEF InspectPath, StatusOf
<1>5. CASE Revalidate(c)
  <2> DEFINE g == getting[c]
  <2>1. /\ g.pc = "revalidate" /\ UNCHANGED <<at, opening, truths>>
        /\ g.id \in Openers /\ Opened(g.id) /\ g.current \in Statuses /\ g.current \in truths[c]
    BY <1>5 DEF Revalidate, Watching
  <2>2. /\ getting' = [getting EXCEPT ![c].pc = "settled", ![c].answer = g.current]
        /\ \/ rows' = rows
           \/ rows' = [rows EXCEPT ![g.id].status = g.current, ![g.id].version = @ + 1]
    BY <1>5 DEF Revalidate
  <2>3. rows[g.id] \in Row
    BY <2>1, OpenedIsRow
  <2>4. /\ rows' \in [Openers -> Row \cup {NoRow}]
        /\ \A id \in Openers : /\ Opened(id)' <=> Opened(id)
                               /\ rows'[id].path = rows[id].path
                               /\ rows'[id].identity = rows[id].identity
    <3>1. CASE rows' = rows
      BY <1>1, <3>1 DEF Opened
    <3>2. CASE rows' = [rows EXCEPT ![g.id].status = g.current, ![g.id].version = @ + 1]
      <4>1. /\ rows'[g.id] \in Row
            /\ rows'[g.id].path = rows[g.id].path /\ rows'[g.id].identity = rows[g.id].identity
            /\ \A id \in Openers \ {g.id} : rows'[id] = rows[id]
        BY <1>1, <2>1, <2>3, <3>2 DEF Row
      <4>2. rows' \in [Openers -> Row \cup {NoRow}]
        BY <1>1, <3>2, <4>1
      <4> QED BY <1>2, <2>1, <4>1, <4>2 DEF Opened
    <3> QED BY <2>2, <3>1, <3>2
  <2> DEFINE h == [g EXCEPT !.pc = "settled", !.answer = g.current]
  <2>5. /\ getting' \in [Readers -> Getting]
        /\ getting'[c].pc = "settled" /\ getting'[c].answer = g.current /\ getting'[c].id = g.id
        /\ \A r \in Readers \ {c} : getting'[r] = getting[r]
    <3>1. h \in Getting /\ h.pc = "settled" /\ h.answer = g.current /\ h.id = g.id
      BY <1>1, <2>1 DEF Getting, GetStages
    <3>2. getting' = [getting EXCEPT ![c] = h]
      BY <1>1, <2>2
    <3> QED BY <1>1, <3>1, <3>2, GettingUpdated
  <2> HIDE DEF g, h
  <2>6. RegistryTypes'
    BY <2>1, <2>4, <2>5 DEF RegistryTypes
  <2>7. OneHandle' /\ Unborn'
    BY <2>1, <2>4 DEF OneHandle, Unborn
  <2>8. Bound
    BY <2>4, <2>7 DEF Bound, OneHandle, Opened
  <2>9. Watching'
    <3>1. \A i \in Openers : StatusOf(i)' = StatusOf(i)
      BY <2>1, <2>4 DEF StatusOf, StatusNow
    <3> QED BY <2>1, <2>4, <2>5, <3>1 DEF Watching
  <2>10. StatusWasTrue' /\ TruthsTyped'
    BY <2>1, <2>5 DEF StatusWasTrue, TruthsTyped
  <2> QED BY <2>6, <2>7, <2>8, <2>9, <2>10
<1> QED BY <1>3, <1>4, <1>5 DEF Get

LEMMA NextRegistryInv == RegistryInv /\ [Next]_vars => RegistryInv' /\ Bound
<1> SUFFICES ASSUME RegistryInv, [Next]_vars
             PROVE  RegistryInv' /\ Bound
    OBVIOUS
<1>1. CASE UNCHANGED vars
  BY <1>1, OthersKeep DEF vars
<1>2. ASSUME NEW c \in Openers, OpenStep(c)
      PROVE  RegistryInv' /\ Bound
  BY <1>2, OpeningKeeps, UpsertKeeps DEF OpenStep, Open
<1>3. ASSUME NEW p \in Paths, MoveDirectory(p)
      PROVE  RegistryInv' /\ Bound
  BY <1>3, MoveKeeps DEF MoveDirectory
<1>4. ASSUME NEW c \in Readers, GetStep(c)
      PROVE  RegistryInv' /\ Bound
  BY <1>4, GetKeeps DEF GetStep
<1>5. ASSUME NEW c \in Readers, ResolveStep(c) \/ SkillStep(c)
      PROVE  RegistryInv' /\ Bound
  BY <1>5, OthersKeep DEF ResolveStep, SkillStep
<1>6. ASSUME NEW d \in Directories, NEW s \in Slots, FileStep(d, s)
      PROVE  RegistryInv' /\ Bound
  BY <1>6, OthersKeep DEF FileStep
<1>7. ASSUME NEW place \in Places, SkillChangeStep(place)
      PROVE  RegistryInv' /\ Bound
  BY <1>7, OthersKeep DEF SkillChangeStep
<1> QED BY <1>1, <1>2, <1>3, <1>4, <1>5, <1>6, <1>7 DEF Next

\* The inductive invariant of the registry: one handle for each directory at
\* each path, no row for a call that is under way, and a get() that has
\* watched the directory of its row since it read it.
THEOREM RegistryInvariance == Spec => []RegistryInv
  BY InitRegistryInv, NextRegistryInv, PTL DEF Spec

\* A workspace handle means one directory for ever and no other handle means
\* it, for any opens, moves and replacements (the upsert of open()).
THEOREM HandlesKeepTheirDirectory == Spec => HandleNeverRebound
<1>1. RegistryInv /\ [Next]_vars => [Bound]_registryVars
  BY NextRegistryInv
<1>2. [Bound]_registryVars <=>
        [ /\ \A id \in Openers : Opened(id) =>
                /\ rows'[id] # NoRow
                /\ rows'[id].path = rows[id].path /\ rows'[id].identity = rows[id].identity
          /\ \A i, j \in Openers : Opened(i)' /\ Opened(j)' /\ i # j =>
                rows'[i].path # rows'[j].path \/ rows'[i].identity # rows'[j].identity
        ]_registryVars
  BY DEF Bound
<1> QED BY <1>1, <1>2, RegistryInvariance, PTL DEF Spec, HandleNeverRebound

\* The status that get() answers was true of the directory at some moment of
\* the call, though it writes a status it computed before other calls wrote
\* theirs (the update of get()).
THEOREM StatusesWereTrue == Spec => []StatusWasTrue
<1>1. RegistryInv => StatusWasTrue
  BY DEF RegistryInv
<1> QED BY <1>1, RegistryInvariance, PTL

-------------------------------------------------------------------------------
(* The instruction files *)

Fingerprints == {<<>>} \cup (Nat \X Nat)
Cached == [fingerprint : Fingerprints, content : Seq(Contents)]
Document == [slot : Slots, content : Seq(Contents)]
Request == [pc : RequestStages, step : 1 .. Len(Chain), attempt : 0 .. Attempts,
            fingerprint : Fingerprints, size : Nat, handle : Nat, buffer : Seq(Contents),
            known : Cached, documents : Seq(Document), total : 0 .. MaxTotal, outcome : Outcomes]

InstructionTypes ==
    /\ moves \in 0 .. MaxMoves
    /\ inodes \in Seq(Inode)
    /\ files \in [Directories -> [Slots -> 0 .. Len(inodes)]]
    /\ writes \in 0 .. MaxWrites
    /\ cache \in [Paths \X Slots -> Cached]
    /\ resolving \in [Readers -> Request]
    /\ disturbed \in [Readers -> Nat]

\* What a request has come to.
Shaped(c) ==
    /\ (resolving[c].pc = "settled") = (resolving[c].outcome # "none")
    /\ resolving[c].attempt = Attempts => resolving[c].outcome = "changed"
    /\ resolving[c].pc # "settled" => Len(resolving[c].documents) < resolving[c].step

\* A request that got beyond get() has the handle that get() found available.
Available(c) == getting[c].pc = "settled" /\ getting[c].answer = "available"
HasHandle(c) == resolving[c].pc \notin {"idle", "settled"} => Available(c)

\* The inode that the last stat of a request saw, and whether the file is as it
\* was then.
Seen(c) == resolving[c].fingerprint[1]
AsSeen(c) == inodes[Seen(c)].version = resolving[c].fingerprint[2]

\* Every attempt that failed was disturbed, and an attempt that was not has
\* everything as the stat saw it.
Undisturbed(c) == disturbed[c] = resolving[c].attempt
DisturbancesCounted(c) ==
    /\ disturbed[c] <= writes + moves
    /\ resolving[c].outcome = "changed" => disturbed[c] >= Attempts
    /\ Reading(c) =>
          /\ disturbed[c] >= resolving[c].attempt
          /\ Undisturbed(c) => Current(c) = Seen(c) /\ AsSeen(c)

\* A file opened is the one that was seen, or it was exchanged for it, and is
\* no longer at the path unless that was exchanged again.
OpenedAsSeen(c) ==
    Reading(c) =>
        /\ resolving[c].fingerprint \in (1 .. Len(inodes)) \X Nat
        /\ resolving[c].fingerprint[2] <= inodes[Seen(c)].version
        /\ resolving[c].pc # "open" =>
              /\ resolving[c].handle \in 1 .. Len(inodes)
              /\ resolving[c].handle # Seen(c) =>
                    /\ ~Undisturbed(c)
                    /\ Current(c) = Seen(c) => disturbed[c] >= resolving[c].attempt + 2

\* What was read of the file that was seen is its content, unless its version
\* says that it was written since.
ReadAsSeen(c) ==
    Reading(c) /\ resolving[c].handle = Seen(c) /\ AsSeen(c) =>
        LET blocks == inodes[Seen(c)].blocks
        IN  /\ resolving[c].pc = "read" => resolving[c].buffer = SubSeq(blocks, 1, 1)
            /\ resolving[c].pc = "restat" => resolving[c].buffer = blocks

RequestInv(c) ==
    Shaped(c) /\ HasHandle(c) /\ DisturbancesCounted(c) /\ OpenedAsSeen(c) /\ ReadAsSeen(c)

InstructionInv ==
    /\ InstructionTypes
    /\ \A c \in Readers : RequestInv(c)

LEMMA ChainIsSlots ==
    /\ Len(Chain) \in Nat \ {0}
    /\ DOMAIN Chain = 1 .. Len(Chain)
    /\ \A k \in 1 .. Len(Chain) : Chain[k] \in Slots
<1> DEFINE n == Len(Scopes)
           m == Len(Filenames)
<1>1. n \in Nat \ {0} /\ m \in Nat \ {0}
  BY ChainAssumption
<1> HIDE DEF n, m
<1>2. n * m \in Nat \ {0}
  BY <1>1
<1>3. Chain = [k \in 1 .. n * m |-> <<Scopes[((k - 1) \div m) + 1], Filenames[((k - 1) % m) + 1]>>]
  BY DEF Chain, n, m
<1>4. DOMAIN Chain = 1 .. n * m
  BY <1>3
<1>5. Len(Chain) = n * m
  BY <1>2, <1>3
<1>6. ASSUME NEW k \in 1 .. n * m
      PROVE  Chain[k] \in Slots
  <2> DEFINE q == (k - 1) \div m
             r == (k - 1) % m
  <2>1. q \in Int /\ r \in 0 .. m - 1 /\ k - 1 = m * q + r
    BY <1>1, <1>2
  <2> HIDE DEF q, r
  <2>2. q >= 0
    <3> SUFFICES ASSUME q <= 0 - 1 PROVE FALSE
      BY <2>1
    <3>1. m * q <= m * (0 - 1)
      BY <1>1, <2>1
    <3> QED BY <1>1, <1>2, <2>1, <3>1
  <2>3. q < n
    <3> SUFFICES ASSUME q >= n PROVE FALSE
      BY <1>1, <2>1
    <3>1. m * q >= m * n
      BY <1>1, <2>1
    <3> QED BY <1>1, <1>2, <2>1, <3>1
  <2>4. Chain[k] = <<Scopes[q + 1], Filenames[r + 1]>>
    BY <1>3 DEF q, r
  <2>5. Scopes[q + 1] \in Range(Scopes) /\ Filenames[r + 1] \in Range(Filenames)
    BY <1>1, <2>1, <2>2, <2>3, ChainAssumption DEF Range, n, m
  <2> QED BY <2>4, <2>5 DEF Slots
<1> QED BY <1>2, <1>4, <1>5, <1>6

LEMMA HandleStays ==
    ASSUME RegistryInv, [Next]_vars, NEW c \in Readers, Available(c)
    PROVE  /\ getting'[c] = getting[c] /\ Available(c)'
           /\ PathOf(c) \in Paths /\ PathOf(c)' = PathOf(c)
<1>1. Bound /\ getting[c].id \in Openers /\ Opened(getting[c].id)
  BY NextRegistryInv DEF RegistryInv, Watching, Available, Statuses
<1>2. rows[getting[c].id] \in Row
  BY <1>1, OpenedIsRow DEF RegistryInv
<1>3. getting'[c] = getting[c]
  <2>1. ASSUME NEW r \in Readers, Get(r)
        PROVE  getting'[c] = getting[c]
    BY <2>1 DEF Get, ReadRow, InspectPath, Revalidate, Available, RegistryInv, RegistryTypes
  <2>2. ASSUME NEW o \in Openers, Open(o)
        PROVE  getting' = getting
    BY <2>2 DEF Open, OpenPath, StatDirectory, FindRepoRoot, Upsert
  <2>3. ASSUME NEW p \in Paths, Move(p)
        PROVE  getting' = getting
    BY <2>3 DEF Move
  <2> QED BY <2>1, <2>2, <2>3 DEF Next, vars, registryVars, OpenStep, GetStep, MoveDirectory,
             ResolveStep, SkillStep, FileStep, SkillChangeStep
<1> QED BY <1>1, <1>2, <1>3 DEF Available, PathOf, Row, Bound

LEMMA FileAtIsFile ==
    ASSUME NEW n \in Nat, NEW place \in [Paths -> Occupants],
           NEW disk \in [Directories -> [Slots -> 0 .. n]], NEW path \in Paths, NEW slot \in Slots
    PROVE  FileAt(place, disk, path, slot) \in 0 .. n
  BY DEF FileAt, NoFile

LEMMA InodeIsInode ==
    ASSUME InstructionTypes, NEW i \in 1 .. Len(inodes)
    PROVE  /\ inodes[i].version \in Nat
           /\ inodes[i].blocks \in Seq(Contents) /\ inodes[i].blocks # <<>>
<1>1. inodes \in Seq(Inode)
  BY DEF InstructionTypes
<1>2. inodes[i] \in Inode
  BY <1>1
<1> QED BY <1>2 DEF Inode

LEMMA Counts ==
    ASSUME InstructionTypes, NEW c \in Readers
    PROVE  /\ disturbed[c] \in Nat /\ resolving[c].attempt \in Nat /\ Len(inodes) \in Nat
           /\ writes \in Nat /\ moves \in Nat
           /\ resolving[c] \in Request /\ resolving[c].step \in 1 .. Len(Chain)
           /\ Slot(c) \in Slots
<1>1. resolving[c] \in Request /\ resolving[c].step \in 1 .. Len(Chain)
  BY DEF InstructionTypes, Request
<1>2. Slot(c) \in Slots
  BY <1>1, ChainIsSlots DEF Slot
<1>3. disturbed[c] \in Nat /\ Len(inodes) \in Nat
  BY DEF InstructionTypes
<1>4. resolving[c].attempt \in Nat
  BY <1>1, AttemptsAssumption DEF Request
<1>5. writes \in Nat /\ moves \in Nat
  BY MovesAssumption, SizesAssumption DEF InstructionTypes
<1> QED BY <1>1, <1>2, <1>3, <1>4, <1>5

LEMMA CurrentIsFile ==
    ASSUME RegistryTypes, InstructionTypes, NEW c \in Readers, PathOf(c) \in Paths
    PROVE  Current(c) \in 0 .. Len(inodes)
<1>1. Slot(c) \in Slots /\ Len(inodes) \in Nat
  BY Counts
<1>2. at \in [Paths -> Occupants] /\ files \in [Directories -> [Slots -> 0 .. Len(inodes)]]
  BY DEF RegistryTypes, InstructionTypes
<1> QED BY <1>1, <1>2, FileAtIsFile DEF Current

LEMMA ReadingHasHandle ==
    ASSUME NEW c \in Readers, HasHandle(c), Reading(c)
    PROVE  Available(c)
  BY DEF HasHandle, Reading

\* A step that is about other things.
LEMMA QuietKeeps ==
    ASSUME NEW c \in Readers, RequestInv(c),
           UNCHANGED <<at, files, inodes>>, resolving'[c] = resolving[c], disturbed'[c] = disturbed[c],
           writes + moves \in Nat, writes' + moves' \in Nat, disturbed[c] \in Nat,
           writes' + moves' >= writes + moves,
           Available(c) => Available(c)' /\ PathOf(c)' = PathOf(c)
    PROVE  RequestInv(c)'
<1> USE DEF RequestInv
<1>1. Shaped(c)' /\ HasHandle(c)'
  BY DEF Shaped, HasHandle
<1>2. Reading(c)' = Reading(c) /\ Seen(c)' = Seen(c) /\ AsSeen(c)' = AsSeen(c) /\ Undisturbed(c)' = Undisturbed(c)
  BY DEF Reading, Seen, AsSeen, Undisturbed
<1>3. Reading(c) => Current(c)' = Current(c)
  BY ReadingHasHandle DEF Current, Slot
<1>4. DisturbancesCounted(c)'
  BY <1>2, <1>3 DEF DisturbancesCounted
<1>5. OpenedAsSeen(c)' /\ ReadAsSeen(c)'
  BY <1>2, <1>3 DEF OpenedAsSeen, ReadAsSeen
<1> QED BY <1>1, <1>4, <1>5

\* A step after which the request is not reading a file.
LEMMA RestKeeps ==
    ASSUME NEW c \in Readers, ~Reading(c)', Shaped(c)', HasHandle(c)',
           disturbed'[c] <= writes' + moves', resolving'[c].outcome = "changed" => disturbed'[c] >= Attempts
    PROVE  RequestInv(c)'
  BY DEF RequestInv, DisturbancesCounted, OpenedAsSeen, ReadAsSeen

\* Another program changes a path or a file.
LEMMA ChangeKeeps ==
    ASSUME NEW c \in Readers, RequestInv(c), RegistryTypes, RegistryTypes', InstructionTypes, InstructionTypes',
           writes' + moves' \in Nat, Len(inodes') \in Nat, resolving' = resolving, disturbed' = Disturbed(at', files', inodes'),
           writes' + moves' = writes + moves + 1,
           Available(c) => Available(c)' /\ PathOf(c) \in Paths /\ PathOf(c)' = PathOf(c),
           Len(inodes') >= Len(inodes),
           \A i \in 1 .. Len(inodes) :
              /\ inodes'[i].version \in Nat /\ inodes'[i].version >= inodes[i].version
              /\ Reading(c) /\ inodes'[i].version = inodes[i].version => inodes'[i] = inodes[i]
    PROVE  RequestInv(c)'
<1> USE DEF RequestInv
<1>1. Shaped(c)' /\ HasHandle(c)'
  BY DEF Shaped, HasHandle
<1>2. CASE ~Reading(c)
  <2>1. disturbed'[c] = disturbed[c]
    BY <1>2 DEF Disturbed
  <2>2. disturbed'[c] <= writes' + moves'
    BY <2>1, Counts DEF DisturbancesCounted
  <2> QED BY <1>1, <1>2, <2>1, <2>2, RestKeeps DEF DisturbancesCounted, Reading
<1>3. CASE Reading(c)
  <2>1. Available(c) /\ PathOf(c) \in Paths /\ PathOf(c)' = PathOf(c) /\ Slot(c) \in Slots
    BY <1>3, ReadingHasHandle, Counts
  <2>2. FileAt(at', files', PathOf(c), Slot(c)) = Current(c)'
    BY <2>1 DEF Current, FileAt, Slot
  <2>3. Current(c) \in 0 .. Len(inodes) /\ Current(c)' \in 0 .. Len(inodes')
    <3>1. at' \in [Paths -> Occupants] /\ files' \in [Directories -> [Slots -> 0 .. Len(inodes')]]
      BY DEF RegistryTypes, InstructionTypes
    <3>2. FileAt(at', files', PathOf(c), Slot(c)) \in 0 .. Len(inodes')
      BY <2>1, <3>1, FileAtIsFile
    <3> QED BY <2>1, <2>2, <3>2, CurrentIsFile
  <2>4. disturbed'[c] = IF \/ Current(c)' # Current(c)
                           \/ Current(c)' # NoFile /\ inodes'[Current(c)'] # inodes[Current(c)']
                        THEN disturbed[c] + 1 ELSE disturbed[c]
    BY <1>3, <2>2 DEF Disturbed
  <2>5. Reading(c)' /\ Seen(c)' = Seen(c) /\ resolving'[c] = resolving[c]
    BY <1>3 DEF Reading, Seen
  <2>6. /\ disturbed[c] \in Nat /\ resolving[c].attempt \in Nat /\ Len(inodes) \in Nat
        /\ writes + moves \in Nat
    BY Counts
  <2>7. /\ resolving[c].fingerprint \in (1 .. Len(inodes)) \X Nat
        /\ Seen(c) \in 1 .. Len(inodes)
        /\ resolving[c].fingerprint[2] \in Nat
        /\ inodes[Seen(c)].version \in Nat /\ inodes'[Seen(c)].version \in Nat
    <3>1. resolving[c].fingerprint \in (1 .. Len(inodes)) \X Nat
      BY <1>3 DEF OpenedAsSeen
    <3>2. Seen(c) \in 1 .. Len(inodes) /\ resolving[c].fingerprint[2] \in Nat
      BY <3>1 DEF Seen
    <3> QED BY <3>1, <3>2, InodeIsInode
  <2>8. AsSeen(c)' => AsSeen(c) /\ inodes'[Seen(c)] = inodes[Seen(c)]
    BY <1>3, <2>5, <2>7 DEF AsSeen, OpenedAsSeen
  <2>9. resolving[c].outcome # "changed"
    BY <1>3 DEF Shaped, Reading
  <2>10. DisturbancesCounted(c)'
    <3>1. disturbed'[c] <= writes' + moves' /\ disturbed'[c] >= resolving[c].attempt
      BY <1>3, <2>4, <2>6 DEF DisturbancesCounted
    <3>2. ASSUME Undisturbed(c)' PROVE Current(c)' = Seen(c) /\ AsSeen(c)'
      <4>1. disturbed'[c] = disturbed[c] /\ Undisturbed(c)
        BY <1>3, <2>4, <2>5, <2>6, <3>2 DEF DisturbancesCounted, Undisturbed
      <4>2. Current(c) = Seen(c) /\ AsSeen(c) /\ Current(c)' = Current(c)
        BY <1>3, <2>4, <2>6, <4>1 DEF DisturbancesCounted
      <4>3. inodes'[Seen(c)] = inodes[Seen(c)]
        BY <2>4, <2>6, <2>7, <4>1, <4>2 DEF NoFile
      <4> QED BY <2>5, <4>2, <4>3 DEF AsSeen
    <3> QED BY <2>5, <2>9, <3>1, <3>2 DEF DisturbancesCounted
  <2>11. OpenedAsSeen(c)'
    <3>1. /\ resolving[c].fingerprint \in (1 .. Len(inodes')) \X Nat
          /\ resolving[c].fingerprint[2] <= inodes'[Seen(c)].version
      <4>1. PICK f \in 1 .. Len(inodes), v \in Nat : resolving[c].fingerprint = <<f, v>>
        BY <2>7
      <4>2. f \in 1 .. Len(inodes')
        BY <2>6
      <4>3. resolving[c].fingerprint[2] <= inodes[Seen(c)].version
        BY <1>3 DEF OpenedAsSeen
      <4> QED BY <2>7, <4>1, <4>2, <4>3
    <3>2. ASSUME resolving[c].pc # "open"
          PROVE  /\ resolving[c].handle \in 1 .. Len(inodes')
                 /\ resolving[c].handle # Seen(c) =>
                       /\ ~Undisturbed(c)'
                       /\ Current(c)' = Seen(c) => disturbed'[c] >= resolving[c].attempt + 2
      <4>1. /\ resolving[c].handle \in 1 .. Len(inodes)
            /\ resolving[c].handle # Seen(c) =>
                  /\ disturbed[c] # resolving[c].attempt
                  /\ Current(c) = Seen(c) => disturbed[c] >= resolving[c].attempt + 2
        BY <1>3, <3>2 DEF OpenedAsSeen, Undisturbed
      <4>2. resolving[c].handle \in 1 .. Len(inodes')
        BY <2>6, <4>1
      <4>3. disturbed[c] >= resolving[c].attempt
        BY <1>3 DEF DisturbancesCounted
      <4>4. ASSUME resolving[c].handle # Seen(c)
            PROVE  disturbed'[c] # resolving[c].attempt
        BY <2>4, <2>6, <4>1, <4>3, <4>4
      <4>5. ASSUME resolving[c].handle # Seen(c), Current(c)' = Seen(c)
            PROVE  disturbed'[c] >= resolving[c].attempt + 2
        BY <2>4, <2>6, <4>1, <4>3, <4>5
      <4> QED BY <2>5, <4>2, <4>4, <4>5 DEF Undisturbed
    <3> QED BY <2>5, <3>1, <3>2 DEF OpenedAsSeen
  <2>12. ReadAsSeen(c)'
    BY <1>3, <2>5, <2>8 DEF ReadAsSeen
  <2> QED BY <1>1, <2>10, <2>11, <2>12
<1> QED BY <1>2, <1>3

LEMMA WholeIsBlocks ==
    ASSUME NEW content \in Contents
    PROVE  Whole(content) \in Seq(Contents) \ {<<>>} /\ <<content>> \in Seq(Contents) \ {<<>>}
<1>1. Blocks[content] \in Nat \ {0}
  BY BlocksAssumption
<1>2. Whole(content) \in Seq(Contents) /\ Len(Whole(content)) = Blocks[content]
  BY <1>1 DEF Whole
<1> QED BY <1>1, <1>2

LEMMA DisturbedIsCount ==
    ASSUME InstructionTypes, NEW place, NEW disk, NEW store
    PROVE  Disturbed(place, disk, store) \in [Readers -> Nat]
  BY DEF InstructionTypes, Disturbed

\* How the files on disk may change: no version goes back, and a file of which
\* the version stays is as it was, if anybody reads.
FilesGrow ==
    /\ Len(inodes') \in Nat /\ Len(inodes') >= Len(inodes)
    /\ \A i \in 1 .. Len(inodes) :
          /\ inodes'[i].version \in Nat /\ inodes'[i].version >= inodes[i].version
          /\ (\E c \in Readers : Reading(c)) /\ inodes'[i].version = inodes[i].version =>
                inodes'[i] = inodes[i]

LEMMA WrittenKeepsTypes ==
    ASSUME InstructionTypes, NEW store \in Seq(Inode),
           NEW disk \in [Directories -> [Slots -> 0 .. Len(store)]], Written(disk, store), UNCHANGED moves
    PROVE  InstructionTypes'
<1>1. writes \in Nat /\ writes + 1 \in 0 .. MaxWrites
  BY SizesAssumption DEF InstructionTypes, Written
<1>2. disturbed' \in [Readers -> Nat]
  BY DisturbedIsCount DEF Written
<1> QED BY <1>1, <1>2 DEF InstructionTypes, Written

LEMMA RewriteGrows ==
    ASSUME InstructionTypes, NEW i \in 1 .. Len(inodes), NEW inode \in Inode,
           Written(files, [inodes EXCEPT ![i] = inode]), UNCHANGED moves,
           inode.version >= inodes[i].version,
           (\E c \in Readers : Reading(c)) => inode.version # inodes[i].version
    PROVE  InstructionTypes' /\ FilesGrow
<1> DEFINE store == [inodes EXCEPT ![i] = inode]
<1>1. inodes \in Seq(Inode) /\ files \in [Directories -> [Slots -> 0 .. Len(inodes)]] /\ Len(inodes) \in Nat
  BY DEF InstructionTypes
<1>2. /\ store \in Seq(Inode) /\ Len(store) = Len(inodes)
      /\ store[i] = inode /\ \A j \in 1 .. Len(inodes) : j # i => store[j] = inodes[j]
  BY <1>1
<1>3. inodes' = store /\ Written(files, store)
  BY DEF Written
<1> HIDE DEF store
<1>4. InstructionTypes'
  BY <1>1, <1>2, <1>3, WrittenKeepsTypes
<1>5. ASSUME NEW j \in 1 .. Len(inodes)
      PROVE  inodes[j].version \in Nat
  BY InodeIsInode
<1>6. inode.version \in Nat
  BY DEF Inode
<1>7. FilesGrow
  BY <1>1, <1>2, <1>3, <1>5, <1>6 DEF FilesGrow
<1> QED BY <1>4, <1>7

LEMMA ChangeFileGrows ==
    ASSUME InstructionTypes, NEW d \in Directories, NEW s \in Slots, ChangeFile(d, s), UNCHANGED moves
    PROVE  InstructionTypes' /\ FilesGrow
<1>1. /\ inodes \in Seq(Inode) /\ Len(inodes) \in Nat
      /\ files \in [Directories -> [Slots -> 0 .. Len(inodes)]] /\ files[d][s] \in 0 .. Len(inodes)
  BY DEF InstructionTypes
<1>2. \A i \in 1 .. Len(inodes) : inodes[i] \in Inode /\ inodes[i].version \in Nat
  BY <1>1, InodeIsInode
<1>3. CASE Replace(d, s)
  <2>1. PICK content \in Contents :
           Written([files EXCEPT ![d][s] = Len(inodes) + 1],
                   Append(inodes, [blocks |-> Whole(content), version |-> 0]))
    BY <1>3 DEF Replace
  <2> DEFINE new == [blocks |-> Whole(content), version |-> 0]
             disk == [files EXCEPT ![d][s] = Len(inodes) + 1]
             store == Append(inodes, new)
  <2>2. new \in Inode
    BY WholeIsBlocks DEF Inode
  <2>3. Written(disk, store) /\ inodes' = store
    BY <2>1 DEF Written
  <2> HIDE DEF new
  <2>4. /\ store \in Seq(Inode) /\ Len(store) = Len(inodes) + 1
        /\ \A i \in 1 .. Len(inodes) : store[i] = inodes[i]
    BY <1>1, <2>2
  <2> HIDE DEF store
  <2>5. disk \in [Directories -> [Slots -> 0 .. Len(store)]]
    BY <1>1, <2>4
  <2> HIDE DEF disk
  <2>6. InstructionTypes'
    BY <2>3, <2>4, <2>5, WrittenKeepsTypes
  <2>7. FilesGrow
    BY <1>1, <1>2, <2>3, <2>4 DEF FilesGrow
  <2> QED BY <2>6, <2>7
<1>4. CASE Unlink(d, s)
  <2> DEFINE disk == [files EXCEPT ![d][s] = NoFile]
  <2>1. Written(disk, inodes) /\ inodes' = inodes
    BY <1>4 DEF Unlink, Written
  <2>2. disk \in [Directories -> [Slots -> 0 .. Len(inodes)]]
    BY <1>1 DEF NoFile
  <2>3. InstructionTypes'
    BY <1>1, <2>1, <2>2, WrittenKeepsTypes
  <2> QED BY <1>1, <1>2, <2>1, <2>3 DEF FilesGrow
<1>5. ASSUME NEW blocks \in Seq(Contents) \ {<<>>}, files[d][s] # NoFile, Rewritten(files[d][s], blocks)
      PROVE  InstructionTypes' /\ FilesGrow
  <2> DEFINE i == files[d][s]
             inode == [blocks |-> blocks, version |-> inodes[i].version + 1]
  <2>1. i \in 1 .. Len(inodes)
    BY <1>1, <1>5 DEF NoFile
  <2>2. [inodes EXCEPT ![i] = [blocks |-> blocks, version |-> @.version + 1]] = [inodes EXCEPT ![i] = inode]
    OBVIOUS
  <2>3. inode \in Inode /\ inode.version > inodes[i].version /\ inode.version # inodes[i].version
    BY <1>2, <2>1 DEF Inode
  <2>4. Written(files, [inodes EXCEPT ![i] = inode])
    BY <1>5, <2>2 DEF Rewritten
  <2> HIDE DEF i, inode
  <2>5. inode.version >= inodes[i].version
    BY <1>2, <2>1, <2>3 DEF Inode
  <2> QED BY <2>1, <2>3, <2>4, <2>5, RewriteGrows
<1>6. CASE WriteInPlace(d, s)
  BY <1>5, <1>6, WholeIsBlocks DEF WriteInPlace
<1>7. CASE FinishInPlace(d, s)
  <2>1. files[d][s] \in 1 .. Len(inodes)
    BY <1>1, <1>7 DEF FinishInPlace, NoFile
  <2>2. inodes[files[d][s]].blocks[1] \in Contents
    BY <2>1, InodeIsInode
  <2> QED BY <1>5, <1>7, <2>2, WholeIsBlocks DEF FinishInPlace
<1>8. CASE WriteUnnoticed(d, s)
  <2> DEFINE i == files[d][s]
  <2>1. i \in 1 .. Len(inodes) /\ \A c \in Readers : ~Reading(c)
    BY <1>1, <1>8 DEF WriteUnnoticed, NoFile
  <2>2. PICK content \in Contents : Written(files, [inodes EXCEPT ![i].blocks = Whole(content)])
    BY <1>8 DEF WriteUnnoticed
  <2> DEFINE inode == [blocks |-> Whole(content), version |-> inodes[i].version]
  <2>3. [inodes EXCEPT ![i].blocks = Whole(content)] = [inodes EXCEPT ![i] = inode]
    <3>1. [inodes[i] EXCEPT !.blocks = Whole(content)] = inode
      BY <1>2, <2>1 DEF Inode
    <3> QED BY <1>1, <2>1, <3>1
  <2>4. inode \in Inode /\ inode.version = inodes[i].version
    BY <1>2, <2>1, WholeIsBlocks DEF Inode
  <2>5. Written(files, [inodes EXCEPT ![i] = inode])
    BY <2>2, <2>3
  <2> HIDE DEF i, inode
  <2>6. inode.version >= inodes[i].version
    BY <1>2, <2>1, <2>4
  <2> QED BY <2>1, <2>4, <2>5, <2>6, RewriteGrows
<1> QED BY <1>3, <1>4, <1>6, <1>7, <1>8 DEF ChangeFile

\* The steps of resolve(): what a request goes on with.
LEMMA GoesOn ==
    ASSUME InstructionTypes, NEW c \in Readers, NEW r \in Request, Goes(c, r),
           cache' \in [Paths \X Slots -> Cached], disturbed' \in [Readers -> Nat],
           UNCHANGED <<moves, inodes, files, writes>>
    PROVE  /\ InstructionTypes' /\ resolving'[c] = r
           /\ \A o \in Readers \ {c} : resolving'[o] = resolving[o]
<1>1. resolving \in [Readers -> Request] /\ resolving' = [resolving EXCEPT ![c] = r]
  BY DEF InstructionTypes, Goes
<1>2. /\ resolving' \in [Readers -> Request] /\ resolving'[c] = r
      /\ \A o \in Readers \ {c} : resolving'[o] = resolving[o]
  BY <1>1
<1> QED BY <1>2 DEF InstructionTypes

\* What a step of a request keeps.
Kept(c) ==
    /\ InstructionTypes' /\ RequestInv(c)'
    /\ \A o \in Readers \ {c} : resolving'[o] = resolving[o] /\ disturbed'[o] = disturbed[o]

LEMMA RestsAfter ==
    ASSUME InstructionTypes, NEW c \in Readers, NEW r \in Request, Goes(c, r),
           cache' \in [Paths \X Slots -> Cached], disturbed' \in [Readers -> Nat],
           UNCHANGED <<moves, inodes, files, writes, getting>>,
           \A o \in Readers \ {c} : disturbed'[o] = disturbed[o],
           disturbed'[c] <= writes + moves,
           r.pc \notin {"open", "read", "restat"}, r.outcome # "changed", r.attempt # Attempts,
           (r.pc = "settled") = (r.outcome # "none"),
           r.pc # "settled" => Len(r.documents) < r.step,
           r.pc \notin {"idle", "settled"} => Available(c)
    PROVE  Kept(c)
<1>1. /\ InstructionTypes' /\ resolving'[c] = r
      /\ \A o \in Readers \ {c} : resolving'[o] = resolving[o]
  BY GoesOn
<1>2. Shaped(c)' /\ HasHandle(c)' /\ ~Reading(c)'
  BY <1>1 DEF Shaped, HasHandle, Reading, Available
<1>3. RequestInv(c)'
  BY <1>1, <1>2, RestKeeps
<1> QED BY <1>1, <1>3 DEF Kept

LEMMA EndsKeeps ==
    ASSUME InstructionTypes, NEW c \in Readers, RequestInv(c), resolving[c].pc # "settled",
           NEW outcome \in Outcomes \ {"none", "changed"}, Ends(c, outcome),
           cache' \in [Paths \X Slots -> Cached], disturbed' \in [Readers -> Nat],
           UNCHANGED <<moves, inodes, files, writes, getting>>,
           \A o \in Readers \ {c} : disturbed'[o] = disturbed[o],
           disturbed'[c] <= writes + moves
    PROVE  Kept(c)
<1> DEFINE r == [resolving[c] EXCEPT !.pc = "settled", !.outcome = outcome]
<1>1. resolving[c] \in Request
  BY Counts
<1>2. r \in Request /\ r.pc = "settled" /\ r.outcome = outcome /\ r.attempt = resolving[c].attempt
  BY <1>1 DEF Request, RequestStages
<1>3. r.attempt # Attempts
  BY <1>2 DEF RequestInv, Shaped
<1>4. Goes(c, r)
  BY DEF Ends
<1> HIDE DEF r
<1> QED BY <1>2, <1>3, <1>4, RestsAfter

LEMMA ContinuedIsRequest ==
    ASSUME NEW request \in Request, Len(request.documents) <= request.step,
           request.outcome = "none", request.attempt # Attempts
    PROVE  LET r == Continued(request)
           IN  /\ r \in Request /\ r.attempt # Attempts
               /\ \/ r.pc = "settled" /\ r.outcome = "resolved"
                  \/ r.pc \in {"stat", "scope"} /\ r.outcome = "none" /\ Len(r.documents) < r.step
               /\ r.documents = request.documents
<1>1. request.step \in 1 .. Len(Chain) /\ Len(Chain) \in Nat /\ Len(request.documents) \in Nat
  BY ChainIsSlots DEF Request
<1>2. CASE request.step = Len(Chain)
  BY <1>2 DEF Continued, Request, RequestStages, Outcomes
<1>3. CASE request.step # Len(Chain)
  <2> DEFINE pc == IF Chain[request.step + 1][1] = Chain[request.step][1] THEN "stat" ELSE "scope"
             r == [request EXCEPT !.step = request.step + 1, !.pc = pc]
  <2>1. Continued(request) = r
    BY <1>3 DEF Continued
  <2>2. pc \in {"stat", "scope"} /\ request.step + 1 \in 1 .. Len(Chain)
    BY <1>1, <1>3
  <2> HIDE DEF pc
  <2>3. r \in Request /\ r.pc = pc /\ r.step = request.step + 1 /\ r.documents = request.documents
        /\ r.outcome = request.outcome /\ r.attempt = request.attempt
    BY <2>2 DEF Request, RequestStages
  <2> HIDE DEF r
  <2> QED BY <1>1, <2>1, <2>2, <2>3
<1> QED BY <1>2, <1>3

LEMMA StatOfIsRequest ==
    ASSUME InstructionTypes, NEW c \in Readers, NEW request \in Request, Current(c) \in 1 .. Len(inodes)
    PROVE  LET r == StatOf(c, request)
           IN  /\ r \in Request /\ r.pc = "open"
               /\ r.fingerprint = <<Current(c), inodes[Current(c)].version>>
               /\ r.step = request.step /\ r.attempt = request.attempt /\ r.outcome = request.outcome
               /\ r.documents = request.documents
<1>1. /\ inodes[Current(c)].version \in Nat /\ Len(inodes[Current(c)].blocks) \in Nat
      /\ Current(c) \in Nat /\ Len(inodes) \in Nat
  BY InodeIsInode, Counts
<1>2. Fingerprint(Current(c)) = <<Current(c), inodes[Current(c)].version>>
  BY DEF Fingerprint
<1>3. Fingerprint(Current(c)) \in Fingerprints
  BY <1>1, <1>2 DEF Fingerprints
<1>4. <<>> \in Seq(Contents) /\ NoFile \in Nat
  BY DEF NoFile
<1> QED BY <1>1, <1>2, <1>3, <1>4 DEF StatOf, Request, RequestStages

\* After a stat the request reads the file that is at the path.
LEMMA StatKeeps ==
    ASSUME RegistryTypes, InstructionTypes, NEW c \in Readers, Available(c), Current(c) \in 1 .. Len(inodes),
           NEW request \in Request, Goes(c, StatOf(c, request)),
           request.step = resolving[c].step, request.outcome = "none", request.attempt # Attempts,
           Len(request.documents) < request.step,
           cache' = cache, disturbed' \in [Readers -> Nat], UNCHANGED <<at, rows, getting, moves, inodes, files, writes>>,
           \A o \in Readers \ {c} : disturbed'[o] = disturbed[o],
           disturbed'[c] <= writes + moves, disturbed'[c] >= request.attempt
    PROVE  Kept(c)
<1> DEFINE r == StatOf(c, request)
<1>1. /\ r \in Request /\ r.pc = "open" /\ r.fingerprint = <<Current(c), inodes[Current(c)].version>>
      /\ r.step = request.step /\ r.attempt = request.attempt /\ r.outcome = request.outcome
      /\ r.documents = request.documents
  BY StatOfIsRequest
<1>2. Goes(c, r) /\ cache' \in [Paths \X Slots -> Cached]
  BY DEF InstructionTypes
<1> HIDE DEF r
<1>3. /\ InstructionTypes' /\ resolving'[c] = r
      /\ \A o \in Readers \ {c} : resolving'[o] = resolving[o]
  BY <1>1, <1>2, GoesOn
<1>4. /\ Current(c)' = Current(c) /\ Seen(c)' = Current(c) /\ Reading(c)' /\ AsSeen(c)'
      /\ resolving'[c].fingerprint[2] = inodes[Current(c)].version
  <2>1. /\ resolving'[c].pc = "open" /\ resolving'[c].step = resolving[c].step
        /\ resolving'[c].fingerprint[1] = Current(c)
        /\ resolving'[c].fingerprint[2] = inodes[Current(c)].version
    BY <1>1, <1>3
  <2>2. Current(c)' = Current(c)
    BY <2>1 DEF Current, Slot, PathOf, FileAt
  <2>3. Seen(c)' = Current(c) /\ Reading(c)'
    BY <2>1 DEF Seen, Reading
  <2> QED BY <2>1, <2>2, <2>3 DEF AsSeen
<1>5. inodes[Current(c)].version \in Nat /\ Len(inodes) \in Nat
  BY InodeIsInode, Counts
<1>6. Shaped(c)' /\ HasHandle(c)'
  BY <1>1, <1>3 DEF Shaped, HasHandle, Available
<1>7. DisturbancesCounted(c)'
  BY <1>1, <1>3, <1>4 DEF DisturbancesCounted
<1>8. OpenedAsSeen(c)' /\ ReadAsSeen(c)'
  <2>1. resolving'[c].fingerprint \in (1 .. Len(inodes)) \X Nat
    <3> DEFINE v == inodes[Current(c)].version
    <3>1. resolving'[c].fingerprint = <<Current(c), v>>
      BY <1>1, <1>3
    <3> HIDE DEF v
    <3>2. <<Current(c), v>> \in (1 .. Len(inodes)) \X Nat
      BY <1>5 DEF v
    <3> QED BY <3>1, <3>2
  <2>2. resolving'[c].pc = "open" /\ resolving'[c].fingerprint[2] <= inodes'[Seen(c)'].version
    BY <1>1, <1>3, <1>4, <1>5
  <2> QED BY <2>1, <2>2 DEF OpenedAsSeen, ReadAsSeen
<1> QED BY <1>3, <1>6, <1>7, <1>8 DEF Kept, RequestInv

LEMMA HandleIsRow ==
    ASSUME RegistryInv, NEW c \in Readers, Available(c)
    PROVE  PathOf(c) \in Paths
<1>1. getting[c].id \in Openers /\ Opened(getting[c].id)
  BY DEF RegistryInv, Watching, Available, Statuses
<1> QED BY <1>1, OpenedIsRow DEF RegistryInv, PathOf, Row

\* What the steps of a request know.
LEMMA AtWork ==
    ASSUME RegistryInv, InstructionTypes, NEW c \in Readers, RequestInv(c),
           resolving[c].pc \notin {"idle", "settled"}
    PROVE  /\ Available(c) /\ PathOf(c) \in Paths /\ Slot(c) \in Slots
           /\ CandidateOf(c) \in Paths \X Slots
           /\ Current(c) \in 0 .. Len(inodes)
           /\ resolving[c].outcome = "none" /\ resolving[c].attempt # Attempts
           /\ Len(resolving[c].documents) < resolving[c].step
           /\ disturbed[c] <= writes + moves
<1>1. Available(c)
  BY DEF RequestInv, HasHandle
<1>2. PathOf(c) \in Paths
  BY <1>1, HandleIsRow
<1>3. Slot(c) \in Slots /\ Current(c) \in 0 .. Len(inodes)
  BY <1>2, Counts, CurrentIsFile DEF RegistryInv
<1>4. /\ resolving[c].outcome = "none" /\ resolving[c].attempt # Attempts
      /\ Len(resolving[c].documents) < resolving[c].step
  BY DEF RequestInv, Shaped
<1> QED BY <1>1, <1>2, <1>3, <1>4 DEF CandidateOf, RequestInv, DisturbancesCounted

LEMMA BeginResolveKeeps ==
    ASSUME RegistryInv, InstructionTypes, NEW c \in Readers, RequestInv(c), UNCHANGED registryVars,
           BeginResolve(c) \/ CanonicalWorkspaceRoot(c) \/ ResolveScopeDirectory(c)
    PROVE  Kept(c)
<1>1. /\ UNCHANGED <<inodes, files, writes, cache, disturbed, moves, getting>>
      /\ cache' \in [Paths \X Slots -> Cached] /\ disturbed' \in [Readers -> Nat]
      /\ disturbed[c] <= writes + moves
      /\ resolving[c].pc # "settled" /\ resolving[c].outcome = "none" /\ resolving[c].attempt # Attempts
      /\ Len(resolving[c].documents) < resolving[c].step
  BY DEF BeginResolve, CanonicalWorkspaceRoot, ResolveScopeDirectory, registryVars, InstructionTypes,
         RequestInv, Shaped, DisturbancesCounted
<1>2. ASSUME NEW outcome \in {"not-found", "unavailable", "scope-refused", "failed"}, Ends(c, outcome)
      PROVE  Kept(c)
  <2>1. outcome \in Outcomes \ {"none", "changed"}
    BY DEF Outcomes
  <2> QED BY <1>1, <1>2, <2>1, EndsKeeps
<1>3. ASSUME NEW pc \in {"root", "scope", "stat"}, Goes(c, [resolving[c] EXCEPT !.pc = pc]), Available(c)
      PROVE  Kept(c)
  <2> DEFINE r == [resolving[c] EXCEPT !.pc = pc]
  <2>1. resolving[c] \in Request
    BY Counts
  <2>2. /\ r \in Request /\ r.pc = pc /\ r.outcome = resolving[c].outcome /\ r.step = resolving[c].step
        /\ r.attempt = resolving[c].attempt /\ r.documents = resolving[c].documents
    BY <2>1 DEF Request, RequestStages
  <2>3. /\ r.pc \notin {"open", "read", "restat", "settled"} /\ r.outcome = "none" /\ r.attempt # Attempts
        /\ Len(r.documents) < r.step
    BY <1>1, <2>2
  <2>4. Goes(c, r)
    BY <1>3
  <2>5. disturbed'[c] <= writes + moves /\ \A o \in Readers \ {c} : disturbed'[o] = disturbed[o]
    BY <1>1
  <2> HIDE DEF r
  <2> QED BY <1>1, <1>3, <2>2, <2>3, <2>4, <2>5, RestsAfter
<1>4. CASE BeginResolve(c)
  BY <1>2, <1>3, <1>4 DEF BeginResolve, Available
<1>5. CASE CanonicalWorkspaceRoot(c)
  BY <1>2, <1>3, <1>5 DEF CanonicalWorkspaceRoot, RequestInv, HasHandle
<1>6. CASE ResolveScopeDirectory(c)
  BY <1>2, <1>3, <1>6 DEF ResolveScopeDirectory, RequestInv, HasHandle
<1> QED BY <1>4, <1>5, <1>6

LEMMA StatInstructionKeeps ==
    ASSUME RegistryInv, InstructionTypes, NEW c \in Readers, RequestInv(c), UNCHANGED registryVars,
           StatInstruction(c)
    PROVE  Kept(c)
<1>1. /\ UNCHANGED <<inodes, files, writes, at, rows, moves, getting>> /\ RegistryTypes
      /\ resolving[c].pc = "stat" /\ disturbed' = [disturbed EXCEPT ![c] = 0]
  BY DEF StatInstruction, registryVars, RegistryInv
<1>2. /\ disturbed' \in [Readers -> Nat] /\ disturbed'[c] = 0
      /\ \A o \in Readers \ {c} : disturbed'[o] = disturbed[o]
      /\ cache \in [Paths \X Slots -> Cached]
  BY <1>1 DEF InstructionTypes
<1>3. /\ Available(c) /\ CandidateOf(c) \in Paths \X Slots /\ Current(c) \in 0 .. Len(inodes)
      /\ resolving[c].outcome = "none" /\ resolving[c].attempt # Attempts
      /\ Len(resolving[c].documents) < resolving[c].step
  BY <1>1, AtWork
<1>4. /\ resolving[c] \in Request /\ disturbed'[c] <= writes + moves
      /\ Len(resolving[c].documents) \in Nat /\ resolving[c].step \in Nat /\ Len(inodes) \in Nat
  BY <1>2, Counts DEF Request
<1>5. ASSUME NEW outcome \in {"failed", "refused"}, Ends(c, outcome), UNCHANGED cache
      PROVE  Kept(c)
  <2>1. outcome \in Outcomes \ {"none", "changed"}
    BY DEF Outcomes
  <2> QED BY <1>1, <1>2, <1>4, <1>5, <2>1, EndsKeeps
<1>6. CASE /\ cache' = [cache EXCEPT ![CandidateOf(c)] = Uncached]
           /\ Goes(c, Continued(resolving[c]))
  <2>1. cache' \in [Paths \X Slots -> Cached]
    <3>1. Uncached \in Cached
      BY DEF Uncached, Cached, Fingerprints, NoText
    <3> QED BY <1>2, <1>6, <3>1
  <2> DEFINE r == Continued(resolving[c])
  <2>2. /\ r \in Request /\ r.attempt # Attempts
        /\ \/ r.pc = "settled" /\ r.outcome = "resolved"
           \/ r.pc \in {"stat", "scope"} /\ r.outcome = "none" /\ Len(r.documents) < r.step
    BY <1>3, <1>4, ContinuedIsRequest
  <2>3. Goes(c, r)
    BY <1>6
  <2> HIDE DEF r
  <2> QED BY <1>1, <1>2, <1>3, <1>4, <2>1, <2>2, <2>3, RestsAfter
<1>7. CASE /\ Current(c) # NoFile /\ UNCHANGED cache
           /\ Goes(c, StatOf(c, [resolving[c] EXCEPT !.attempt = 0, !.known = cache[CandidateOf(c)]]))
  <2> DEFINE known == cache[CandidateOf(c)]
             request == [resolving[c] EXCEPT !.attempt = 0, !.known = known]
  <2>1. known \in Cached /\ 0 \in 0 .. Attempts
    BY <1>2, <1>3, AttemptsAssumption
  <2>2. Goes(c, StatOf(c, request))
    BY <1>7
  <2> HIDE DEF known
  <2>3. /\ request \in Request /\ request.attempt = 0 /\ request.step = resolving[c].step
        /\ request.outcome = resolving[c].outcome /\ request.documents = resolving[c].documents
    BY <1>4, <2>1 DEF Request
  <2>4. Current(c) \in 1 .. Len(inodes) /\ request.attempt # Attempts
    BY <1>3, <1>4, <1>7, <2>3, AttemptsAssumption DEF NoFile
  <2> HIDE DEF request
  <2> QED BY <1>1, <1>2, <1>3, <1>4, <1>7, <2>2, <2>3, <2>4, StatKeeps
<1> QED BY <1>5, <1>6, <1>7 DEF StatInstruction

LEMMA HeadAndRest ==
    ASSUME NEW blocks \in Seq(Contents), blocks # <<>>
    PROVE  /\ SubSeq(blocks, 1, 1) \in Seq(Contents)
           /\ SubSeq(blocks, 2, Len(blocks)) \in Seq(Contents)
           /\ SubSeq(blocks, 1, 1) \o SubSeq(blocks, 2, Len(blocks)) = blocks
<1>1. Len(blocks) \in Nat \ {0}
  OBVIOUS
<1>2. SubSeq(blocks, 1, 1) \in Seq(Contents) /\ SubSeq(blocks, 2, Len(blocks)) \in Seq(Contents)
  BY <1>1, SubSeqProperties
<1>3. SubSeq(blocks, 1, 1) \o SubSeq(blocks, 1 + 1, Len(blocks)) = SubSeq(blocks, 1, Len(blocks))
  <2> DEFINE n == Len(blocks)
  <2>1. n \in 1 .. Len(blocks) /\ 1 \in 1 .. Len(blocks) + 1 /\ 1 \in 1 - 1 .. Len(blocks) /\ n \in 1 .. Len(blocks)
    BY <1>1
  <2> HIDE DEF n
  <2>2. SubSeq(blocks, 1, 1) \o SubSeq(blocks, 1 + 1, n) = SubSeq(blocks, 1, n)
    BY <2>1, ConcatAdjacentSubSeq, Zenon
  <2> QED BY <2>2 DEF n
<1> QED BY <1>2, <1>3, SubSeqFull

\* A step of a request that goes on reading the file it is reading.
LEMMA ReadingOn ==
    ASSUME InstructionTypes, NEW c \in Readers, RequestInv(c), Reading(c), NEW r \in Request, Goes(c, r),
           UNCHANGED <<at, rows, getting, moves, inodes, files, writes, cache, disturbed>>,
           r.pc \in {"read", "restat"}, r.handle \in 1 .. Len(inodes),
           r.step = resolving[c].step, r.fingerprint = resolving[c].fingerprint,
           r.attempt = resolving[c].attempt, r.outcome = resolving[c].outcome,
           r.documents = resolving[c].documents,
           r.handle # Seen(c) =>
              /\ ~Undisturbed(c)
              /\ Current(c) = Seen(c) => disturbed[c] >= resolving[c].attempt + 2,
           r.handle = Seen(c) /\ AsSeen(c) =>
              r.buffer = IF r.pc = "read" THEN SubSeq(inodes[Seen(c)].blocks, 1, 1)
                         ELSE inodes[Seen(c)].blocks
    PROVE  Kept(c)
<1>1. /\ InstructionTypes' /\ resolving'[c] = r
      /\ \A o \in Readers \ {c} : resolving'[o] = resolving[o]
  <2>1. cache' \in [Paths \X Slots -> Cached] /\ disturbed' \in [Readers -> Nat]
    BY DEF InstructionTypes
  <2> QED BY <2>1, GoesOn
<1>2. /\ Current(c)' = Current(c) /\ Seen(c)' = Seen(c) /\ Reading(c)' /\ AsSeen(c)' = AsSeen(c)
      /\ Undisturbed(c)' = Undisturbed(c)
  <2>1. resolving'[c].step = resolving[c].step /\ resolving'[c].fingerprint = resolving[c].fingerprint
        /\ resolving'[c].attempt = resolving[c].attempt
    BY <1>1
  <2>2. Current(c)' = Current(c)
    BY <2>1 DEF Current, Slot, PathOf, FileAt
  <2>3. Seen(c)' = Seen(c) /\ Reading(c)'
    BY <1>1, <2>1 DEF Seen, Reading
  <2> QED BY <2>1, <2>2, <2>3 DEF AsSeen, Undisturbed
<1>3. Shaped(c)' /\ HasHandle(c)'
  BY <1>1 DEF RequestInv, Shaped, HasHandle, Available, Reading
<1>4. DisturbancesCounted(c)'
  BY <1>1, <1>2 DEF RequestInv, DisturbancesCounted
<1>5. OpenedAsSeen(c)'
  BY <1>1, <1>2 DEF RequestInv, OpenedAsSeen
<1>6. ReadAsSeen(c)'
  BY <1>1, <1>2 DEF ReadAsSeen
<1> QED BY <1>1, <1>3, <1>4, <1>5, <1>6 DEF Kept, RequestInv

LEMMA OpenInstructionKeeps ==
    ASSUME RegistryInv, InstructionTypes, NEW c \in Readers, RequestInv(c), UNCHANGED registryVars,
           OpenInstruction(c)
    PROVE  Kept(c)
<1>1. /\ UNCHANGED <<inodes, files, writes, at, rows, moves, getting, cache, disturbed>>
      /\ resolving[c].pc = "open" /\ Reading(c)
  BY DEF OpenInstruction, registryVars, Reading
<1>2. /\ cache' \in [Paths \X Slots -> Cached] /\ disturbed' \in [Readers -> Nat]
      /\ disturbed'[c] <= writes + moves /\ Current(c) \in 0 .. Len(inodes)
  BY <1>1, AtWork DEF InstructionTypes
<1>3. ASSUME NEW outcome \in {"too-large", "failed", "disappeared"}, Ends(c, outcome)
      PROVE  Kept(c)
  <2>1. outcome \in Outcomes \ {"none", "changed"}
    BY DEF Outcomes
  <2> QED BY <1>1, <1>2, <1>3, <2>1, EndsKeeps
<1>4. CASE /\ Current(c) # NoFile
           /\ Goes(c, [resolving[c] EXCEPT !.pc = "read", !.handle = Current(c),
                                           !.buffer = SubSeq(inodes[Current(c)].blocks, 1, 1)])
  <2> DEFINE handle == Current(c)
             buffer == SubSeq(inodes[handle].blocks, 1, 1)
             r == [resolving[c] EXCEPT !.pc = "read", !.handle = handle, !.buffer = buffer]
  <2>1. Current(c) \in 1 .. Len(inodes) /\ Len(inodes) \in Nat /\ resolving[c] \in Request
    BY <1>2, <1>4, Counts DEF NoFile
  <2>2. buffer \in Seq(Contents)
    BY <2>1, InodeIsInode, HeadAndRest
  <2>3. Goes(c, r)
    BY <1>4
  <2>4. /\ handle = Seen(c) => buffer = SubSeq(inodes[Seen(c)].blocks, 1, 1)
        /\ handle \in Nat /\ handle = Current(c)
    BY <2>1
  <2> HIDE DEF buffer, handle
  <2>5. /\ r \in Request /\ r.pc = "read" /\ r.handle = handle /\ r.buffer = buffer
        /\ r.step = resolving[c].step /\ r.fingerprint = resolving[c].fingerprint
        /\ r.attempt = resolving[c].attempt /\ r.outcome = resolving[c].outcome
        /\ r.documents = resolving[c].documents
    BY <2>1, <2>2, <2>4 DEF Request, RequestStages
  <2> HIDE DEF r
  <2>6. Current(c) # Seen(c) => ~Undisturbed(c)
    BY <1>1 DEF RequestInv, DisturbancesCounted
  <2> QED BY <1>1, <2>1, <2>3, <2>4, <2>5, <2>6, ReadingOn
<1> QED BY <1>3, <1>4 DEF OpenInstruction

LEMMA ReadInstructionKeeps ==
    ASSUME RegistryInv, InstructionTypes, NEW c \in Readers, RequestInv(c), UNCHANGED registryVars,
           ReadInstruction(c)
    PROVE  Kept(c)
<1>1. /\ UNCHANGED <<inodes, files, writes, at, rows, moves, getting, cache, disturbed>>
      /\ resolving[c].pc = "read" /\ Reading(c)
  BY DEF ReadInstruction, registryVars, Reading
<1>2. /\ cache' \in [Paths \X Slots -> Cached] /\ disturbed' \in [Readers -> Nat]
      /\ disturbed'[c] <= writes + moves
  BY <1>1, AtWork DEF InstructionTypes
<1> DEFINE handle == resolving[c].handle
           blocks == inodes[handle].blocks
           buffer == resolving[c].buffer \o SubSeq(blocks, 2, Len(blocks))
<1>3. resolving[c] \in Request /\ handle \in 1 .. Len(inodes) /\ Len(inodes) \in Nat
  BY <1>1, Counts DEF RequestInv, OpenedAsSeen
<1>4. buffer \in Seq(Contents)
  <2>1. SubSeq(blocks, 2, Len(blocks)) \in Seq(Contents)
    BY <1>3, InodeIsInode, HeadAndRest
  <2>2. resolving[c].buffer \in Seq(Contents)
    BY <1>3 DEF Request
  <2> QED BY <2>1, <2>2
<1>5. handle = Seen(c) /\ AsSeen(c) => buffer = inodes[Seen(c)].blocks
  <2>1. SubSeq(blocks, 1, 1) \o SubSeq(blocks, 2, Len(blocks)) = blocks
    BY <1>3, InodeIsInode, HeadAndRest
  <2>2. handle = Seen(c) /\ AsSeen(c) => resolving[c].buffer = SubSeq(blocks, 1, 1)
    BY <1>1 DEF RequestInv, ReadAsSeen
  <2> QED BY <2>1, <2>2
<1>6. CASE Ends(c, "too-large")
  <2>1. "too-large" \in Outcomes \ {"none", "changed"}
    BY DEF Outcomes
  <2> QED BY <1>1, <1>2, <1>6, <2>1, EndsKeeps
<1>7. CASE Goes(c, [resolving[c] EXCEPT !.pc = "restat", !.buffer = buffer])
  <2> DEFINE r == [resolving[c] EXCEPT !.pc = "restat", !.buffer = buffer]
  <2>1. Goes(c, r)
    BY <1>7
  <2> HIDE DEF buffer
  <2>2. /\ r \in Request /\ r.pc = "restat" /\ r.handle = handle /\ r.buffer = buffer
        /\ r.step = resolving[c].step /\ r.fingerprint = resolving[c].fingerprint
        /\ r.attempt = resolving[c].attempt /\ r.outcome = resolving[c].outcome
        /\ r.documents = resolving[c].documents
    BY <1>3, <1>4 DEF Request, RequestStages
  <2>3. handle # Seen(c) =>
           /\ ~Undisturbed(c)
           /\ Current(c) = Seen(c) => disturbed[c] >= resolving[c].attempt + 2
    BY <1>1 DEF RequestInv, OpenedAsSeen
  <2> HIDE DEF r, handle
  <2> QED BY <1>1, <1>3, <1>5, <2>1, <2>2, <2>3, ReadingOn
<1> QED BY <1>6, <1>7 DEF ReadInstruction

\* What a step may add to the documents of a request.
DocumentStep(c) ==
    resolving'[c].documents # resolving[c].documents =>
        /\ Current(c) # NoFile
        /\ \/ resolving'[c].documents = Append(resolving[c].documents,
                  [slot |-> Slot(c), content |-> inodes[Current(c)].blocks])
           \/ resolving[c].handle # Current(c) /\ disturbed[c] >= 2

\* After the second stat: an attempt that nothing disturbed is stable ...
LEMMA UndisturbedIsStable ==
    ASSUME RegistryInv, InstructionTypes, NEW c \in Readers, RequestInv(c),
           resolving[c].pc = "restat", Undisturbed(c)
    PROVE  /\ Fingerprint(Current(c)) = resolving[c].fingerprint
           /\ inodes[Current(c)].blocks = resolving[c].buffer
<1>1. Reading(c)
  BY DEF Reading
<1>2. Current(c) = Seen(c) /\ AsSeen(c)
  BY <1>1 DEF RequestInv, DisturbancesCounted
<1>3. resolving[c].fingerprint \in (1 .. Len(inodes)) \X Nat /\ resolving[c].handle = Seen(c)
  BY <1>1 DEF RequestInv, OpenedAsSeen
<1>4. resolving[c].buffer = inodes[Seen(c)].blocks
  BY <1>1, <1>2, <1>3 DEF RequestInv, ReadAsSeen
<1>5. PICK f, v : resolving[c].fingerprint = <<f, v>>
  BY <1>3
<1> QED BY <1>2, <1>4, <1>5 DEF Fingerprint, Seen, AsSeen

\* ... and what is stable is what the file holds, if it is the file that was
\* opened; another one was exchanged for it and back.
LEMMA StableIsWhole ==
    ASSUME RegistryInv, InstructionTypes, NEW c \in Readers, RequestInv(c), resolving[c].pc = "restat",
           Current(c) \in 1 .. Len(inodes), Fingerprint(Current(c)) = resolving[c].fingerprint
    PROVE  \/ inodes[Current(c)].blocks = resolving[c].buffer
           \/ resolving[c].handle # Current(c) /\ disturbed[c] >= 2
<1>1. Reading(c) /\ Seen(c) = Current(c) /\ AsSeen(c)
  BY DEF Reading, Fingerprint, Seen, AsSeen
<1>2. CASE resolving[c].handle = Current(c)
  BY <1>1, <1>2 DEF RequestInv, ReadAsSeen
<1>3. CASE resolving[c].handle # Current(c)
  <2>1. disturbed[c] >= resolving[c].attempt + 2
    BY <1>1, <1>3 DEF RequestInv, OpenedAsSeen
  <2> QED BY <1>3, <2>1, Counts
<1> QED BY <1>2, <1>3

LEMMA NextAttemptKeeps ==
    ASSUME RegistryInv, InstructionTypes, NEW c \in Readers, RequestInv(c), UNCHANGED registryVars,
           UNCHANGED <<inodes, files, writes, cache, disturbed>>,
           resolving[c].pc = "restat", ~Undisturbed(c), Current(c) # NoFile, Goes(c, NextAttempt(c))
    PROVE  Kept(c) /\ DocumentStep(c)
<1>1. /\ Available(c) /\ Current(c) \in 0 .. Len(inodes)
      /\ resolving[c].outcome = "none" /\ resolving[c].attempt # Attempts
      /\ Len(resolving[c].documents) < resolving[c].step
      /\ disturbed[c] <= writes + moves
  BY AtWork
<1>2. /\ disturbed[c] \in Nat /\ resolving[c].attempt \in Nat /\ Len(inodes) \in Nat
      /\ resolving[c] \in Request /\ Attempts \in Nat /\ resolving[c].attempt \in 0 .. Attempts
  BY Counts, AttemptsAssumption DEF Request
<1>3. disturbed[c] >= resolving[c].attempt + 1
  <2>1. disturbed[c] >= resolving[c].attempt
    BY DEF RequestInv, DisturbancesCounted, Reading
  <2> QED BY <1>2, <2>1 DEF Undisturbed
<1>4. /\ UNCHANGED <<at, rows, getting, moves>> /\ RegistryTypes /\ Current(c) \in 1 .. Len(inodes)
      /\ disturbed' \in [Readers -> Nat] /\ disturbed'[c] = disturbed[c]
      /\ \A o \in Readers \ {c} : disturbed'[o] = disturbed[o]
      /\ cache' \in [Paths \X Slots -> Cached]
  BY <1>1, <1>2 DEF registryVars, RegistryInv, InstructionTypes, NoFile
<1>5. CASE resolving[c].attempt + 1 = Attempts
  <2> DEFINE r == [resolving[c] EXCEPT !.attempt = Attempts, !.pc = "settled", !.outcome = "changed"]
  <2>1. Goes(c, r)
    BY <1>5 DEF NextAttempt
  <2>2. Attempts \in 0 .. Attempts
    BY <1>2
  <2>3. /\ r \in Request /\ r.attempt = Attempts /\ r.pc = "settled" /\ r.outcome = "changed"
        /\ r.documents = resolving[c].documents
    BY <1>2, <2>2 DEF Request, RequestStages, Outcomes
  <2> HIDE DEF r
  <2>4. /\ InstructionTypes' /\ resolving'[c] = r
        /\ \A o \in Readers \ {c} : resolving'[o] = resolving[o]
    BY <1>4, <2>1, <2>3, GoesOn
  <2>5. Shaped(c)' /\ HasHandle(c)' /\ ~Reading(c)'
    BY <2>3, <2>4 DEF Shaped, HasHandle, Reading
  <2>6. RequestInv(c)'
    BY <1>1, <1>3, <1>4, <1>5, <2>3, <2>4, <2>5, RestKeeps
  <2> QED BY <1>4, <2>3, <2>4, <2>6 DEF Kept, DocumentStep
<1>6. CASE resolving[c].attempt + 1 # Attempts
  <2> DEFINE attempt == resolving[c].attempt + 1
             request == [resolving[c] EXCEPT !.attempt = attempt]
  <2>1. attempt \in 0 .. Attempts /\ attempt # Attempts
    BY <1>1, <1>2, <1>6
  <2>2. Goes(c, StatOf(c, request))
    BY <1>6 DEF NextAttempt
  <2>3. disturbed[c] >= attempt
    BY <1>3
  <2> HIDE DEF attempt
  <2>4. /\ request \in Request /\ request.attempt = attempt /\ request.step = resolving[c].step
        /\ request.outcome = resolving[c].outcome /\ request.documents = resolving[c].documents
    BY <1>2, <2>1 DEF Request
  <2> HIDE DEF request
  <2>5. Kept(c)
    BY <1>1, <1>4, <2>1, <2>2, <2>3, <2>4, StatKeeps
  <2>6. resolving'[c] = StatOf(c, request)
    BY <2>2 DEF Goes, InstructionTypes
  <2>7. StatOf(c, request).documents = request.documents
    BY <1>4, <2>4, StatOfIsRequest
  <2> QED BY <2>4, <2>5, <2>6, <2>7 DEF DocumentStep
<1> QED BY <1>5, <1>6

LEMMA RestatInstructionKeeps ==
    ASSUME RegistryInv, InstructionTypes, NEW c \in Readers, RequestInv(c), UNCHANGED registryVars,
           RestatInstruction(c)
    PROVE  Kept(c) /\ DocumentStep(c)
<1> DEFINE r == resolving[c]
           file == inodes[Current(c)]
           stable == /\ Current(c) # NoFile /\ Fingerprint(Current(c)) = r.fingerprint
                     /\ Len(file.blocks) = Len(r.buffer)
           reused == Reused(r.known, r.fingerprint, r.buffer)
           content == IF reused THEN r.known.content ELSE r.buffer
           total == r.total + Len(content)
<1>1. /\ UNCHANGED <<inodes, files, writes, at, rows, moves, getting, disturbed>> /\ r.pc = "restat"
  BY DEF RestatInstruction, registryVars
<1>2. /\ Available(c) /\ CandidateOf(c) \in Paths \X Slots /\ Current(c) \in 0 .. Len(inodes)
      /\ Slot(c) \in Slots /\ r.outcome = "none" /\ r.attempt # Attempts
      /\ Len(r.documents) < r.step /\ disturbed[c] <= writes + moves
  BY <1>1, AtWork
<1>3. /\ r \in Request /\ disturbed' \in [Readers -> Nat] /\ cache \in [Paths \X Slots -> Cached]
      /\ \A o \in Readers \ {c} : disturbed'[o] = disturbed[o]
      /\ Len(inodes) \in Nat
  BY <1>1, Counts DEF InstructionTypes
<1>4. content = r.buffer /\ content \in Seq(Contents) /\ total \in Nat
  <2>1. content = r.buffer
    BY DEF Reused
  <2> HIDE DEF content
  <2>2. r.buffer \in Seq(Contents) /\ r.total \in Nat
    BY <1>3, SizesAssumption DEF Request
  <2> QED BY <2>1, <2>2
<1> HIDE DEF content
<1>5. ASSUME NEW outcome \in {"failed", "disappeared", "refused", "binary", "too-large"}, Ends(c, outcome),
             cache' \in [Paths \X Slots -> Cached]
      PROVE  Kept(c) /\ DocumentStep(c)
  <2>1. outcome \in Outcomes \ {"none", "changed"}
    BY DEF Outcomes
  <2>2. Kept(c)
    BY <1>1, <1>2, <1>3, <1>5, <2>1, EndsKeeps
  <2>3. resolving'[c] = [r EXCEPT !.pc = "settled", !.outcome = outcome]
    BY <1>5 DEF Ends, Goes, InstructionTypes
  <2>4. resolving'[c].documents = r.documents
    BY <1>3, <2>3 DEF Request
  <2> QED BY <2>2, <2>4 DEF DocumentStep
<1>6. CASE Current(c) # NoFile /\ ~stable /\ Goes(c, NextAttempt(c)) /\ UNCHANGED cache
  <2>1. ~Undisturbed(c)
    BY <1>1, <1>6, UndisturbedIsStable
  <2> QED BY <1>1, <1>6, <2>1, NextAttemptKeeps
<1> DEFINE entry == [fingerprint |-> r.fingerprint, content |-> content]
<1>7. ASSUME cache' = [cache EXCEPT ![CandidateOf(c)] = entry]
      PROVE  cache' \in [Paths \X Slots -> Cached]
  <2>1. entry \in Cached
    BY <1>3, <1>4 DEF Cached, Request
  <2> QED BY <1>3, <1>7, <2>1
<1> DEFINE document == [slot |-> Slot(c), content |-> content]
           request == [r EXCEPT !.total = total, !.handle = NoFile, !.buffer = <<>>,
                                !.fingerprint = <<>>, !.size = 0, !.known = Uncached,
                                !.documents = Append(@, document)]
<1>8. CASE /\ stable /\ total <= MaxTotal /\ cache' \in [Paths \X Slots -> Cached]
           /\ Goes(c, Continued(request))
  <2>1. document \in Document
    BY <1>2, <1>4 DEF Document
  <2>2. r.documents \in Seq(Document) /\ r.step \in Nat
    BY <1>3, ChainIsSlots DEF Request
  <2> DEFINE documents == Append(r.documents, document)
  <2>3. documents \in Seq(Document) /\ Len(documents) <= r.step
    BY <1>2, <2>1, <2>2
  <2>4. total \in 0 .. MaxTotal /\ NoFile \in Nat /\ <<>> \in Seq(Contents) /\ <<>> \in Fingerprints /\ Uncached \in Cached
    BY <1>4, <1>8, SizesAssumption DEF NoFile, Fingerprints, Uncached, Cached, NoText
  <2> HIDE DEF total, documents
  <2>5. /\ request \in Request /\ request.documents = documents /\ request.step = r.step
        /\ request.outcome = r.outcome /\ request.attempt = r.attempt
    BY <1>3, <2>3, <2>4 DEF Request, documents
  <2> HIDE DEF request
  <2> DEFINE next == Continued(request)
  <2>6. /\ next \in Request /\ next.attempt # Attempts
        /\ \/ next.pc = "settled" /\ next.outcome = "resolved"
           \/ next.pc \in {"stat", "scope"} /\ next.outcome = "none" /\ Len(next.documents) < next.step
        /\ next.documents = documents
    BY <1>2, <2>3, <2>5, ContinuedIsRequest
  <2>7. Goes(c, next)
    BY <1>8
  <2> HIDE DEF next
  <2>8. Kept(c)
    BY <1>1, <1>2, <1>3, <1>8, <2>6, <2>7, RestsAfter
  <2>9. resolving'[c].documents = documents
    BY <2>6, <2>7 DEF Goes, InstructionTypes
  <2>10. DocumentStep(c)
    <3>1. Current(c) \in 1 .. Len(inodes)
      BY <1>2, <1>3, <1>8 DEF NoFile
    <3>2. \/ inodes[Current(c)].blocks = r.buffer
          \/ r.handle # Current(c) /\ disturbed[c] >= 2
      BY <1>1, <1>8, <3>1, StableIsWhole
    <3> QED BY <1>4, <1>8, <2>9, <3>2 DEF DocumentStep, documents
  <2> QED BY <2>8, <2>10
<1>9. CASE stable /\ cache' = [cache EXCEPT ![CandidateOf(c)] = entry]
           /\ IF total > MaxTotal THEN Ends(c, "too-large") ELSE Goes(c, Continued(request))
  <2>1. cache' \in [Paths \X Slots -> Cached]
    BY <1>7, <1>9
  <2>2. total > MaxTotal \/ total <= MaxTotal
    BY <1>4, SizesAssumption
  <2> QED BY <1>5, <1>8, <1>9, <2>1, <2>2
<1>10. \/ Ends(c, "failed") /\ UNCHANGED cache
       \/ Ends(c, "disappeared") /\ UNCHANGED cache
       \/ Ends(c, "refused") /\ UNCHANGED cache
       \/ Current(c) # NoFile /\ ~stable /\ Goes(c, NextAttempt(c)) /\ UNCHANGED cache
       \/ Ends(c, "binary") /\ UNCHANGED cache
       \/ /\ stable /\ cache' = [cache EXCEPT ![CandidateOf(c)] = entry]
          /\ IF total > MaxTotal THEN Ends(c, "too-large") ELSE Goes(c, Continued(request))
  BY DEF RestatInstruction, content
<1> HIDE DEF total, request, entry
<1> QED BY <1>3, <1>5, <1>6, <1>9, <1>10

LEMMA OnlyRestatAdds ==
    ASSUME InstructionTypes, NEW c \in Readers,
           BeginResolve(c) \/ CanonicalWorkspaceRoot(c) \/ ResolveScopeDirectory(c)
              \/ StatInstruction(c) \/ OpenInstruction(c) \/ ReadInstruction(c)
    PROVE  resolving'[c].documents = resolving[c].documents
<1>1. resolving[c] \in Request /\ resolving \in [Readers -> Request]
  BY Counts DEF InstructionTypes
<1>2. ASSUME NEW r, Goes(c, r)
      PROVE  resolving'[c] = r
  BY <1>1, <1>2 DEF Goes
<1>3. ASSUME NEW outcome, Ends(c, outcome)
      PROVE  resolving'[c].documents = resolving[c].documents
  BY <1>1, <1>2, <1>3 DEF Ends, Request
<1>4. CASE BeginResolve(c) \/ CanonicalWorkspaceRoot(c) \/ ResolveScopeDirectory(c)
  BY <1>1, <1>2, <1>3, <1>4 DEF BeginResolve, CanonicalWorkspaceRoot, ResolveScopeDirectory, Request
<1>5. CASE StatInstruction(c)
  <2>1. Continued(resolving[c]).documents = resolving[c].documents
    BY <1>1 DEF Continued, Request
  <2>2. StatOf(c, [resolving[c] EXCEPT !.attempt = 0, !.known = cache[CandidateOf(c)]]).documents
           = resolving[c].documents
    BY <1>1 DEF StatOf, Request
  <2> QED BY <1>2, <1>3, <1>5, <2>1, <2>2 DEF StatInstruction
<1>6. CASE OpenInstruction(c)
  BY <1>1, <1>2, <1>3, <1>6 DEF OpenInstruction, Request
<1>7. CASE ReadInstruction(c)
  BY <1>1, <1>2, <1>3, <1>7 DEF ReadInstruction, Request
<1> QED BY <1>4, <1>5, <1>6, <1>7

\* Other requests, and requests of other kinds.
LEMMA ElsewhereKeeps ==
    ASSUME RegistryInv, InstructionTypes, [Next]_vars, NEW c \in Readers, RequestInv(c),
           UNCHANGED <<at, moves, files, inodes, writes>>, resolving'[c] = resolving[c], disturbed'[c] = disturbed[c]
    PROVE  RequestInv(c)'
<1>1. disturbed[c] \in Nat /\ writes + moves \in Nat
  BY Counts
<1>2. Available(c) => Available(c)' /\ PathOf(c)' = PathOf(c)
  BY HandleStays
<1> QED BY <1>1, <1>2, QuietKeeps

LEMMA NextInstructionInv ==
    RegistryInv /\ InstructionInv /\ [Next]_vars => InstructionInv' /\ \A c \in Readers : DocumentStep(c)
<1> SUFFICES ASSUME RegistryInv, InstructionInv, [Next]_vars
             PROVE  InstructionInv' /\ \A c \in Readers : DocumentStep(c)
    OBVIOUS
<1> USE DEF InstructionInv
<1>1. CASE UNCHANGED <<at, moves, instructionVars>>
  <2>1. InstructionTypes'
    BY <1>1 DEF instructionVars, InstructionTypes
  <2>2. \A c \in Readers : RequestInv(c)'
    BY <1>1, ElsewhereKeeps DEF instructionVars
  <2> QED BY <1>1, <2>1, <2>2 DEF instructionVars, DocumentStep
<1>2. ASSUME NEW p \in Paths, MoveDirectory(p)
      PROVE  InstructionInv' /\ \A c \in Readers : DocumentStep(c)
  <2>1. /\ UNCHANGED <<inodes, files, writes, cache, resolving>> /\ moves' = moves + 1 /\ moves < MaxMoves
        /\ disturbed' = Disturbed(at', files', inodes')
    BY <1>2 DEF MoveDirectory, Move
  <2>2. InstructionTypes' /\ InstructionTypes
    <3>1. disturbed' \in [Readers -> Nat]
      BY <2>1, DisturbedIsCount
    <3>2. moves' \in 0 .. MaxMoves
      BY <2>1, MovesAssumption DEF InstructionTypes
    <3> QED BY <2>1, <3>1, <3>2 DEF InstructionTypes
  <2>3. RegistryTypes /\ RegistryTypes'
    BY NextRegistryInv DEF RegistryInv
  <2>4. ASSUME NEW c \in Readers
        PROVE  RequestInv(c)'
    <3>1. /\ writes' + moves' \in Nat /\ writes' + moves' = writes + moves + 1
          /\ Len(inodes') \in Nat /\ Len(inodes') >= Len(inodes)
      BY <2>1, Counts
    <3>2. Available(c) => Available(c)' /\ PathOf(c) \in Paths /\ PathOf(c)' = PathOf(c)
      BY HandleStays
    <3>3. \A i \in 1 .. Len(inodes) :
             /\ inodes'[i].version \in Nat /\ inodes'[i].version >= inodes[i].version
             /\ inodes'[i] = inodes[i]
      BY <2>1, InodeIsInode
    <3> QED BY <2>1, <2>2, <2>3, <3>1, <3>2, <3>3, ChangeKeeps
  <2> QED BY <2>1, <2>2, <2>4 DEF DocumentStep
<1>3. ASSUME NEW d \in Directories, NEW s \in Slots, FileStep(d, s)
      PROVE  InstructionInv' /\ \A c \in Readers : DocumentStep(c)
  <2>1. ChangeFile(d, s) /\ UNCHANGED <<moves, at>>
    BY <1>3 DEF FileStep, registryVars
  <2>2. PICK disk, store : Written(disk, store)
    BY <2>1 DEF ChangeFile, Replace, Unlink, WriteInPlace, FinishInPlace, WriteUnnoticed, Rewritten
  <2>3. /\ UNCHANGED <<cache, resolving>> /\ writes' = writes + 1
        /\ disturbed' = Disturbed(at', files', inodes')
    BY <2>1, <2>2 DEF Written
  <2>4. InstructionTypes' /\ FilesGrow /\ InstructionTypes
    BY <2>1, ChangeFileGrows
  <2>5. RegistryTypes /\ RegistryTypes'
    BY NextRegistryInv DEF RegistryInv
  <2>6. ASSUME NEW c \in Readers
        PROVE  RequestInv(c)'
    <3>1. writes' + moves' \in Nat /\ writes' + moves' = writes + moves + 1
      BY <2>1, <2>3, Counts
    <3>2. Available(c) => Available(c)' /\ PathOf(c) \in Paths /\ PathOf(c)' = PathOf(c)
      BY HandleStays
    <3>3. /\ Len(inodes') \in Nat /\ Len(inodes') >= Len(inodes)
          /\ \A i \in 1 .. Len(inodes) :
                /\ inodes'[i].version \in Nat /\ inodes'[i].version >= inodes[i].version
                /\ Reading(c) /\ inodes'[i].version = inodes[i].version => inodes'[i] = inodes[i]
      BY <2>4 DEF FilesGrow
    <3> QED BY <2>3, <2>4, <2>5, <3>1, <3>2, <3>3, ChangeKeeps
  <2> QED BY <2>3, <2>4, <2>6 DEF DocumentStep
<1>4. ASSUME NEW c \in Readers, ResolveStep(c)
      PROVE  InstructionInv' /\ \A o \in Readers : DocumentStep(o)
  <2>1. UNCHANGED registryVars /\ UNCHANGED <<at, moves>> /\ Resolve(c)
    BY <1>4 DEF ResolveStep, registryVars
  <2>2. UNCHANGED <<inodes, files, writes>>
    BY <2>1 DEF Resolve, BeginResolve, CanonicalWorkspaceRoot, ResolveScopeDirectory, StatInstruction,
                OpenInstruction, ReadInstruction, RestatInstruction
  <2>3. Kept(c) /\ DocumentStep(c)
    <3>1. CASE RestatInstruction(c)
      BY <2>1, <3>1, RestatInstructionKeeps
    <3>2. CASE ~RestatInstruction(c)
      <4>1. Kept(c)
        BY <2>1, <3>2, BeginResolveKeeps, StatInstructionKeeps, OpenInstructionKeeps, ReadInstructionKeeps DEF Resolve
      <4>2. DocumentStep(c)
        BY <2>1, <3>2, OnlyRestatAdds DEF Resolve, DocumentStep
      <4> QED BY <4>1, <4>2
    <3> QED BY <3>1, <3>2
  <2>4. ASSUME NEW o \in Readers \ {c}
        PROVE  RequestInv(o)' /\ DocumentStep(o)
    <3>1. resolving'[o] = resolving[o] /\ disturbed'[o] = disturbed[o]
      BY <2>3 DEF Kept
    <3> QED BY <2>1, <2>2, <3>1, ElsewhereKeeps DEF DocumentStep
  <2> QED BY <2>3, <2>4 DEF Kept
<1>5. ASSUME NEW c \in Openers, OpenStep(c)
      PROVE  UNCHANGED <<at, moves, instructionVars>>
  BY <1>5 DEF OpenStep, Open, OpenPath, StatDirectory, FindRepoRoot, Upsert
<1>6. ASSUME NEW c \in Readers, GetStep(c)
      PROVE  UNCHANGED <<at, moves, instructionVars>>
  BY <1>6 DEF GetStep, Get, ReadRow, InspectPath, Revalidate
<1>7. ASSUME NEW c \in Readers, SkillStep(c)
      PROVE  UNCHANGED <<at, moves, instructionVars>>
  BY <1>7 DEF SkillStep, registryVars
<1>8. ASSUME NEW place \in Places, SkillChangeStep(place)
      PROVE  UNCHANGED <<at, moves, instructionVars>>
  BY <1>8 DEF SkillChangeStep, registryVars
<1>9. UNCHANGED vars => UNCHANGED <<at, moves, instructionVars>>
  BY DEF vars, registryVars
<1> QED BY <1>1, <1>2, <1>3, <1>4, <1>5, <1>6, <1>7, <1>8, <1>9 DEF Next

LEMMA InitInstructionInv == Init => InstructionInv
<1> SUFFICES ASSUME Init
             PROVE  InstructionInv
    OBVIOUS
<1>1. InstructionInit /\ RegistryStart
  BY DEF Init, RegistryInit, RegistryInitOpened
<1>2. IdleRequest \in Request
  <2>1. 1 \in 1 .. Len(Chain) /\ 0 \in 0 .. Attempts /\ 0 \in 0 .. MaxTotal
    BY ChainIsSlots, AttemptsAssumption, SizesAssumption
  <2>2. Uncached \in Cached /\ <<>> \in Fingerprints /\ <<>> \in Seq(Document) /\ <<>> \in Seq(Contents) /\ NoFile \in Nat
    BY DEF Uncached, Cached, Fingerprints, NoText, NoFile
  <2> QED BY <2>1, <2>2 DEF IdleRequest, Request, RequestStages, Outcomes
<1>3. InstructionTypes
  <2>1. cache \in [Paths \X Slots -> Cached]
    BY <1>1 DEF InstructionInit, Uncached, Cached, Fingerprints, NoText
  <2>2. moves \in 0 .. MaxMoves /\ writes \in 0 .. MaxWrites
    BY <1>1, MovesAssumption, SizesAssumption DEF InstructionInit, RegistryStart
  <2> QED BY <1>1, <1>2, <2>1, <2>2, InitialFilesAssumption DEF InstructionInit, InstructionTypes
<1>4. ASSUME NEW c \in Readers
      PROVE  RequestInv(c)
  <2>1. resolving[c] = IdleRequest /\ disturbed[c] = 0 /\ writes = 0 /\ moves = 0
    BY <1>1 DEF InstructionInit, RegistryStart
  <2>2. /\ resolving[c].pc = "idle" /\ resolving[c].outcome = "none" /\ resolving[c].attempt = 0
        /\ resolving[c].documents = <<>> /\ resolving[c].step = 1
    BY <2>1 DEF IdleRequest
  <2>3. Shaped(c) /\ HasHandle(c)
    BY <2>2, AttemptsAssumption DEF Shaped, HasHandle
  <2> QED BY <2>1, <2>2, <2>3 DEF RequestInv, DisturbancesCounted, OpenedAsSeen, ReadAsSeen, Reading
<1> QED BY <1>3, <1>4 DEF InstructionInv

\* The inductive invariant of resolve(): every attempt that failed was
\* disturbed, and what was read of the file that was seen is its content as
\* long as its version says so.
THEOREM InstructionInvariance == Spec => []InstructionInv
  BY InitInstructionInv, NextInstructionInv, RegistryInvariance, PTL DEF Spec

\* A request that gives up because its file kept changing saw a change in each
\* of its attempts (the loop of #readInstructionFile).
THEOREM ChangesAreEarned == Spec => []ChangedIsEarned
<1>1. InstructionInv => ChangedIsEarned
  BY DEF InstructionInv, RequestInv, DisturbancesCounted, ChangedIsEarned
<1> QED BY <1>1, InstructionInvariance, PTL

\* What resolve() takes for the content of a file is what the file holds, whole,
\* unless another file was exchanged for it, opened, and exchanged back (the
\* second stat of #readInstructionFile and the hash that guards the cache).
THEOREM DocumentsAreStable == Spec => StableDocument
<1>1. RegistryInv /\ InstructionInv /\ [Next]_vars =>
         [\A c \in Readers : DocumentStep(c)]_<<registryVars, instructionVars>>
  BY NextInstructionInv
<1>2. [\A c \in Readers : DocumentStep(c)]_<<registryVars, instructionVars>> <=>
        [ \A c \in Readers : resolving'[c].documents # resolving[c].documents =>
            /\ Current(c) # NoFile
            /\ \/ resolving'[c].documents = Append(resolving[c].documents,
                      [slot |-> Slot(c), content |-> inodes[Current(c)].blocks])
               \/ resolving[c].handle # Current(c) /\ disturbed[c] >= 2
        ]_<<registryVars, instructionVars>>
  BY DEF DocumentStep
<1> QED BY <1>1, <1>2, RegistryInvariance, InstructionInvariance, PTL DEF Spec, StableDocument

-------------------------------------------------------------------------------
(* The skills *)

Batches == [pc : {"realpath", "readdir", "entries", "done"}, todo : SUBSET Names,
            found : SUBSET Entries, invalid : SUBSET Entries]
CatalogRequest ==
    [pc : CatalogStages, wanted : Entries \cup {NoCall}, batches : [SourceSet -> Batches],
     skills : SUBSET Entries, shadowed : SUBSET Entries, invalid : SUBSET Entries,
     outcome : CatalogOutcomes]

CatalogTypes ==
    /\ skills \in [Places -> [Names -> Conditions]]
    /\ roots \in [Places -> RootConditions]
    /\ skillChanges \in 0 .. MaxSkillChanges
    /\ catalog \in [Readers -> CatalogRequest]
    /\ witnessed \in [Readers -> [always : SUBSET Entries, ever : SUBSET Entries]]

Discovering(c) == catalog[c].pc \in {"root", "discover"}
CatalogHandle(c) ==
    /\ (catalog[c].pc = "settled") = (catalog[c].outcome # "none")
    /\ catalog[c].pc \notin {"idle", "settled"} => Available(c)

\* The witnesses of a request under way: what was valid all the time is valid
\* now, and what is valid now has been seen to be.
WitnessesHold(c) ==
    Discovering(c) =>
        /\ witnessed[c].always \subseteq ValidEntries(at, skills, roots, c)
        /\ ValidEntries(at, skills, roots, c) \subseteq witnessed[c].ever

\* What a batch has found was valid at some time, and what was valid all the
\* time it has found or has still to look at.
BatchInv(c, s) ==
    LET batch == catalog[c].batches[s]
    IN  /\ batch.found \subseteq witnessed[c].ever
        /\ batch.pc = "entries" =>
              \A n \in Names : <<s, n>> \in witnessed[c].always => <<s, n>> \in batch.found \/ n \in batch.todo
        /\ batch.pc = "done" =>
              \A n \in Names : <<s, n>> \in witnessed[c].always => <<s, n>> \in batch.found
BatchesHold(c) ==
    /\ catalog[c].pc \in {"idle", "root"} => catalog[c].batches = [s \in SourceSet |-> WaitingBatch]
    /\ catalog[c].pc = "discover" => \A s \in SourceSet : BatchInv(c, s)

\* What the request has answered.
OutcomeHolds(c) ==
    LET request == catalog[c]
        was == witnessed[c]
    IN  /\ request.pc = "body" => request.wanted \in was.ever
        /\ request.outcome = "listed" =>
              /\ was.always \subseteq request.skills \cup request.shadowed
              /\ request.skills \cup request.shadowed \subseteq was.ever
              /\ \A e \in request.skills : \A other \in was.always :
                    other[2] = e[2] => ~Precedes(other[1], e[1])
              /\ \A e, other \in request.skills : e[2] = other[2] => e = other
        /\ request.outcome = "no-skill" => request.wanted \notin was.always
        /\ request.outcome \in {"read", "body-refused"} => request.wanted \in was.ever

CatalogRequestInv(c) ==
    CatalogHandle(c) /\ WitnessesHold(c) /\ BatchesHold(c) /\ OutcomeHolds(c)

CatalogInv ==
    /\ CatalogTypes
    /\ \A c \in Readers : CatalogRequestInv(c)

LEMMA LeastOfNaturals ==
    ASSUME NEW T \in SUBSET Nat, T # {}
    PROVE  \E n \in T : \A m \in T : n <= m
<1> DEFINE R == OpToRel(<, Nat)
<1>1. \A x, y \in Nat : x < y <=> <<x, y>> \in R
  BY DEF OpToRel
<1>2. IsWellFoundedOn(R, Nat)
  BY NatLessThanWellFounded
<1> HIDE DEF R
<1>3. \E n \in T : \A m \in T : ~ (<<m, n>> \in R)
  BY <1>2, WFMin
<1>4. PICK n \in T : \A m \in T : ~ (<<m, n>> \in R)
  BY <1>3
<1>5. ASSUME NEW m \in T
      PROVE  n <= m
  <2>1. n \in Nat /\ m \in Nat
    OBVIOUS
  <2>2. ~ (m < n)
    BY <1>1, <1>4, <2>1
  <2> QED BY <2>1, <2>2
<1> QED BY <1>5

\* No two roots come before each other.
LEMMA PrecedesIsOrder ==
    ASSUME NEW s, NEW other, Precedes(s, other)
    PROVE  ~Precedes(other, s) /\ s # other
<1>1. PICK i, j \in DOMAIN Sources : i < j /\ Sources[i] = s /\ Sources[j] = other
  BY DEF Precedes
<1>2. DOMAIN Sources = 1 .. Len(Sources) /\ Len(Sources) \in Nat
  BY SourcesAssumption
<1>3. ASSUME NEW k \in DOMAIN Sources, NEW l \in DOMAIN Sources, k < l, Sources[k] = other, Sources[l] = s
      PROVE  FALSE
  <2>1. k = j /\ l = i
    BY <1>1, <1>3, SourcesAssumption
  <2> QED BY <1>1, <1>2, <1>3, <2>1
<1>4. s # other
  <2> SUFFICES ASSUME s = other PROVE FALSE
    OBVIOUS
  <2>1. i = j
    BY <1>1, SourcesAssumption
  <2> QED BY <1>1, <1>2, <2>1
<1> QED BY <1>3, <1>4 DEF Precedes

LEMMA SelectedIsFirst ==
    ASSUME NEW found \in SUBSET Entries, NEW e \in Selected(found), NEW other \in found, other[2] = e[2]
    PROVE  /\ ~Precedes(other[1], e[1])
           /\ other \in Selected(found) => other = e
<1>1. /\ e \in found /\ e[2] \in Nat /\ other[2] \in Nat
      /\ other # e => Ordered(e, other)
      /\ other # e /\ other \in Selected(found) => Ordered(other, e)
  BY NamesAssumption DEF Selected, Entries
<1>2. ~ (e[2] < other[2]) /\ ~ (other[2] < e[2])
  BY <1>1
<1>3. ~Precedes(e[1], e[1])
  BY PrecedesIsOrder
<1> QED BY <1>1, <1>2, <1>3, PrecedesIsOrder DEF Ordered

LEMMA FoundOfAll ==
    ASSUME NEW c \in Readers, NEW e
    PROVE  e \in Found(c) <=> \E s \in SourceSet : e \in catalog[c].batches[s].found
  BY DEF Found

\* A skill valid now is one that a batch sees as valid.
LEMMA ValidIsSeen ==
    ASSUME NEW c \in Readers, NEW s \in SourceSet, NEW n \in Names
    PROVE  <<s, n>> \in ValidEntries(at, skills, roots, c) <=> SkillNow(c, s, n) = "valid"
<1>1. <<s, n>> \in Entries
  BY DEF Entries
<1>2. <<s, n>> \in ValidEntries(at, skills, roots, c) <=>
         PlaceOf(at, c, s) \in Places /\ roots[PlaceOf(at, c, s)] = "there" /\ skills[PlaceOf(at, c, s)][n] = "valid"
  BY <1>1 DEF ValidEntries
<1>3. RootNow(c, s) = "there" <=> PlaceOf(at, c, s) \in Places /\ roots[PlaceOf(at, c, s)] = "there"
  BY DEF RootNow
<1> QED BY <1>2, <1>3 DEF SkillNow

LEMMA RootNowIsKnown ==
    ASSUME CatalogTypes, NEW c \in Readers, NEW s \in SourceSet
    PROVE  RootNow(c, s) \in {"absent", "refused", "there"}
  BY DEF CatalogTypes, RootNow, RootConditions

LEMMA CatalogHandleIsRow ==
    ASSUME RegistryInv, [Next]_vars, NEW c \in Readers, Available(c)
    PROVE  getting'[c] = getting[c] /\ Available(c)' /\ RootPath(c)' = RootPath(c) /\ RootPath(c) \in Paths
<1>1. RootPath(c) = PathOf(c) /\ RootPath(c)' = PathOf(c)'
  BY DEF RootPath, PathOf
<1> QED BY <1>1, HandleStays

\* A step that is about other things.
LEMMA CatalogQuietKeeps ==
    ASSUME RegistryInv, [Next]_vars, NEW c \in Readers, CatalogRequestInv(c),
           UNCHANGED <<at, skills, roots>>, catalog'[c] = catalog[c], witnessed'[c] = witnessed[c]
    PROVE  CatalogRequestInv(c)'
<1> USE DEF CatalogRequestInv
<1>1. CatalogHandle(c)'
  BY CatalogHandleIsRow DEF CatalogHandle
<1>2. WitnessesHold(c)'
  <2>1. Discovering(c) => RootPath(c)' = RootPath(c)
    BY CatalogHandleIsRow DEF CatalogHandle, Discovering
  <2>2. Discovering(c) => ValidEntries(at, skills, roots, c)' = ValidEntries(at, skills, roots, c)
    BY <2>1 DEF ValidEntries, PlaceOf
  <2> QED BY <2>2 DEF WitnessesHold, Discovering
<1>3. BatchesHold(c)' /\ OutcomeHolds(c)'
  BY DEF BatchesHold, BatchInv, OutcomeHolds
<1> QED BY <1>1, <1>2, <1>3

\* Other programs: a witness that something was valid all the time only shrinks,
\* one that it was ever valid only grows.
LEMMA ElsewhereChanges ==
    ASSUME RegistryInv, CatalogTypes, [Next]_vars, NEW c \in Readers, CatalogRequestInv(c),
           catalog' = catalog, witnessed' = Witnessed(at', skills', roots')
    PROVE  CatalogRequestInv(c)'
<1> USE DEF CatalogRequestInv
<1> DEFINE valid == ValidEntries(at', skills', roots', c)
<1>1. witnessed'[c] = IF Discovering(c)
                      THEN [always |-> witnessed[c].always \cap valid, ever |-> witnessed[c].ever \cup valid]
                      ELSE witnessed[c]
  BY DEF Witnessed, Discovering
<1>2. Discovering(c) => ValidEntries(at, skills, roots, c)' = valid
  <2>1. Discovering(c) => RootPath(c)' = RootPath(c)
    BY CatalogHandleIsRow DEF CatalogHandle, Discovering
  <2> QED BY <2>1 DEF ValidEntries, PlaceOf
<1> HIDE DEF valid
<1>3. CatalogHandle(c)'
  BY CatalogHandleIsRow DEF CatalogHandle
<1>4. WitnessesHold(c)'
  BY <1>1, <1>2 DEF WitnessesHold, Discovering
<1>5. BatchesHold(c)'
  BY <1>1 DEF BatchesHold, BatchInv
<1>6. OutcomeHolds(c)'
  BY <1>1 DEF OutcomeHolds, CatalogHandle, Discovering
<1> QED BY <1>3, <1>4, <1>5, <1>6

LEMMA WitnessedIsTyped ==
    ASSUME CatalogTypes, NEW place, NEW disk, NEW rootsNow
    PROVE  Witnessed(place, disk, rootsNow) \in [Readers -> [always : SUBSET Entries, ever : SUBSET Entries]]
<1>1. \A c \in Readers : ValidEntries(place, disk, rootsNow, c) \subseteq Entries
  BY DEF ValidEntries
<1> QED BY <1>1 DEF Witnessed, CatalogTypes

-------------------------------------------------------------------------------
(* The steps of a request for skills *)

\* What a step of a request keeps.
CatalogKept(c) ==
    /\ CatalogTypes' /\ CatalogRequestInv(c)'
    /\ \A o \in Readers \ {c} : catalog'[o] = catalog[o] /\ witnessed'[o] = witnessed[o]

LEMMA TurnsTo ==
    ASSUME CatalogTypes, NEW c \in Readers, NEW r \in CatalogRequest, Turns(c, r),
           UNCHANGED <<skills, roots, skillChanges, witnessed>>
    PROVE  /\ CatalogTypes' /\ catalog'[c] = r
           /\ \A o \in Readers \ {c} : catalog'[o] = catalog[o]
<1>1. catalog \in [Readers -> CatalogRequest] /\ catalog' = [catalog EXCEPT ![c] = r]
  BY DEF CatalogTypes, Turns
<1>2. /\ catalog' \in [Readers -> CatalogRequest] /\ catalog'[c] = r
      /\ \A o \in Readers \ {c} : catalog'[o] = catalog[o]
  BY <1>1
<1> QED BY <1>2 DEF CatalogTypes

\* A request that ends with an error.
LEMMA FinishesKeeps ==
    ASSUME CatalogTypes, NEW c \in Readers, CatalogRequestInv(c), 
           UNCHANGED <<skills, roots, skillChanges, witnessed>>,
           NEW outcome \in CatalogOutcomes \ {"none", "listed"}, Finishes(c, outcome),
           outcome = "no-skill" => catalog[c].wanted \notin witnessed[c].always,
           outcome \in {"read", "body-refused"} => catalog[c].wanted \in witnessed[c].ever
    PROVE  CatalogKept(c)
<1> DEFINE r == [catalog[c] EXCEPT !.pc = "settled", !.outcome = outcome]
<1>1. catalog[c] \in CatalogRequest
  BY DEF CatalogTypes
<1>2. r \in CatalogRequest /\ r.pc = "settled" /\ r.outcome = outcome /\ r.wanted = catalog[c].wanted
  BY <1>1 DEF CatalogRequest, CatalogStages
<1>3. Turns(c, r)
  BY DEF Finishes
<1> HIDE DEF r
<1>4. /\ CatalogTypes' /\ catalog'[c] = r
      /\ \A o \in Readers \ {c} : catalog'[o] = catalog[o]
  BY <1>2, <1>3, TurnsTo
<1>5. CatalogHandle(c)' /\ WitnessesHold(c)' /\ BatchesHold(c)'
  BY <1>2, <1>4 DEF CatalogHandle, WitnessesHold, Discovering, BatchesHold
<1>6. OutcomeHolds(c)'
  BY <1>2, <1>4 DEF OutcomeHolds
<1> QED BY <1>4, <1>5, <1>6 DEF CatalogRequestInv, CatalogKept

LEMMA RequireWorkspaceKeeps ==
    ASSUME CatalogTypes, NEW c \in Readers, CatalogRequestInv(c), UNCHANGED <<at, rows, getting>>,
           NEW wanted \in Entries \cup {NoCall}, RequireWorkspace(c, wanted)
    PROVE  CatalogKept(c)
<1> DEFINE r == [catalog[c] EXCEPT !.pc = "root", !.wanted = wanted]
           valid == ValidEntries(at, skills, roots, c)
<1>1. catalog[c] \in CatalogRequest /\ catalog[c].pc = "idle"
  BY DEF CatalogTypes, RequireWorkspace
<1>2. UNCHANGED <<skills, roots, skillChanges>> /\ getting[c].pc = "settled"
  BY DEF RequireWorkspace
<1>3. CASE getting[c].answer # "available"
  <2>1. /\ UNCHANGED witnessed
        /\ Finishes(c, "not-found") \/ Finishes(c, "unavailable") \/ Finishes(c, "failed")
    BY <1>3 DEF RequireWorkspace
  <2> QED BY <1>2, <2>1, FinishesKeeps DEF CatalogOutcomes
<1>4. CASE getting[c].answer = "available"
  <2>1. Turns(c, r) /\ witnessed' = [witnessed EXCEPT ![c] = [always |-> valid, ever |-> valid]]
    BY <1>4 DEF RequireWorkspace
  <2>2. /\ r \in CatalogRequest /\ r.pc = "root" /\ r.outcome = catalog[c].outcome
        /\ r.batches = catalog[c].batches
    BY <1>1 DEF CatalogRequest, CatalogStages
  <2>3. r.outcome = "none"
    BY <1>1, <2>2 DEF CatalogRequestInv, CatalogHandle
  <2> HIDE DEF r
  <2>4. valid \subseteq Entries
    BY DEF ValidEntries
  <2>5. ValidEntries(at, skills, roots, c)' = valid
    BY <1>2 DEF ValidEntries, PlaceOf, RootPath
  <2> HIDE DEF valid
  <2>6. /\ catalog' \in [Readers -> CatalogRequest] /\ catalog'[c] = r
        /\ \A o \in Readers \ {c} : catalog'[o] = catalog[o]
    BY <2>1, <2>2 DEF CatalogTypes, Turns
  <2>7. /\ witnessed' \in [Readers -> [always : SUBSET Entries, ever : SUBSET Entries]]
        /\ witnessed'[c] = [always |-> valid, ever |-> valid]
        /\ \A o \in Readers \ {c} : witnessed'[o] = witnessed[o]
    BY <2>1, <2>4 DEF CatalogTypes
  <2>8. CatalogTypes'
    BY <1>2, <2>6, <2>7 DEF CatalogTypes
  <2>9. CatalogHandle(c)' /\ OutcomeHolds(c)'
    BY <1>2, <1>4, <2>2, <2>3, <2>6 DEF CatalogHandle, OutcomeHolds, Available
  <2>10. WitnessesHold(c)'
    BY <2>5, <2>7 DEF WitnessesHold
  <2>11. BatchesHold(c)'
    BY <1>1, <2>2, <2>6 DEF BatchesHold, CatalogRequestInv
  <2> QED BY <2>6, <2>7, <2>8, <2>9, <2>10, <2>11 DEF CatalogRequestInv, CatalogKept
<1> QED BY <1>3, <1>4

\* A request goes on to discover, or to a batch further on.
LEMMA DiscoveryKeeps ==
    ASSUME CatalogTypes, NEW c \in Readers, CatalogRequestInv(c), Discovering(c),
           UNCHANGED <<at, rows, getting>>, UNCHANGED <<skills, roots, skillChanges, witnessed>>,
           NEW r \in CatalogRequest, Turns(c, r), r.pc = "discover", r.outcome = "none",
           BatchesHold(c)'
    PROVE  CatalogKept(c)
<1>1. /\ CatalogTypes' /\ catalog'[c] = r
      /\ \A o \in Readers \ {c} : catalog'[o] = catalog[o]
  BY TurnsTo
<1>2. CatalogHandle(c)'
  BY <1>1 DEF CatalogHandle, CatalogRequestInv, Discovering, Available
<1>3. ValidEntries(at, skills, roots, c)' = ValidEntries(at, skills, roots, c)
  BY DEF ValidEntries, PlaceOf, RootPath
<1>4. WitnessesHold(c)'
  BY <1>3 DEF WitnessesHold, CatalogRequestInv
<1>5. OutcomeHolds(c)'
  BY <1>1 DEF OutcomeHolds
<1> QED BY <1>1, <1>2, <1>4, <1>5 DEF CatalogRequestInv, CatalogKept

LEMMA SkillWorkspaceRootKeeps ==
    ASSUME CatalogTypes, NEW c \in Readers, CatalogRequestInv(c), UNCHANGED <<at, rows, getting>>,
           SkillWorkspaceRoot(c)
    PROVE  CatalogKept(c)
<1> DEFINE r == [catalog[c] EXCEPT !.pc = "discover"]
<1>1. /\ catalog[c] \in CatalogRequest /\ catalog[c].pc = "root"
      /\ UNCHANGED <<skills, roots, skillChanges, witnessed>>
  BY DEF CatalogTypes, SkillWorkspaceRoot
<1>2. CASE at[RootPath(c)] \in {"missing", "inaccessible"}
  BY <1>1, <1>2, FinishesKeeps DEF SkillWorkspaceRoot, CatalogOutcomes
<1>3. CASE at[RootPath(c)] \notin {"missing", "inaccessible"}
  <2>1. Turns(c, r)
    BY <1>3 DEF SkillWorkspaceRoot
  <2>2. r \in CatalogRequest /\ r.pc = "discover" /\ r.outcome = catalog[c].outcome /\ r.batches = catalog[c].batches
    BY <1>1 DEF CatalogRequest, CatalogStages
  <2> HIDE DEF r
  <2>3. catalog'[c] = r
    BY <1>1, <2>1, <2>2, TurnsTo
  <2>4. r.outcome = "none"
    BY <1>1, <2>2 DEF CatalogRequestInv, CatalogHandle
  <2>5. \A s \in SourceSet : r.batches[s] = WaitingBatch
    BY <1>1, <2>2 DEF CatalogRequestInv, BatchesHold
  <2>6. BatchesHold(c)'
    BY <2>2, <2>3, <2>5 DEF BatchesHold, BatchInv, WaitingBatch
  <2> QED BY <1>1, <2>1, <2>2, <2>4, <2>6, DiscoveryKeeps DEF Discovering
<1> QED BY <1>2, <1>3

\* A batch goes on, and its new state is as true as the old one.
LEMMA BatchKeeps ==
    ASSUME CatalogTypes, NEW c \in Readers, CatalogRequestInv(c), catalog[c].pc = "discover",
           UNCHANGED <<at, rows, getting>>, UNCHANGED <<skills, roots, skillChanges, witnessed>>,
           NEW s \in SourceSet, NEW batch \in Batches, SetBatch(c, s, batch),
           batch.found \subseteq witnessed[c].ever,
           batch.pc = "entries" =>
              \A n \in Names : <<s, n>> \in witnessed[c].always => <<s, n>> \in batch.found \/ n \in batch.todo,
           batch.pc = "done" =>
              \A n \in Names : <<s, n>> \in witnessed[c].always => <<s, n>> \in batch.found
    PROVE  CatalogKept(c)
<1> DEFINE r == [catalog[c] EXCEPT !.batches[s] = batch]
<1>1. catalog[c] \in CatalogRequest
  BY DEF CatalogTypes
<1>2. /\ r \in CatalogRequest /\ r.pc = "discover" /\ r.outcome = catalog[c].outcome
      /\ r.batches = [catalog[c].batches EXCEPT ![s] = batch]
  BY <1>1 DEF CatalogRequest
<1>3. Turns(c, r)
  BY DEF SetBatch
<1> HIDE DEF r
<1>4. catalog'[c] = r
  BY <1>2, <1>3, TurnsTo
<1>5. r.outcome = "none"
  BY <1>2 DEF CatalogRequestInv, CatalogHandle
<1>6. r.batches[s] = batch /\ \A t \in SourceSet \ {s} : r.batches[t] = catalog[c].batches[t]
  BY <1>1, <1>2 DEF CatalogRequest
<1>7. ASSUME NEW t \in SourceSet
      PROVE  BatchInv(c, t)'
  <2>1. CASE t = s
    BY <1>4, <1>6, <2>1 DEF BatchInv
  <2>2. CASE t # s
    BY <1>4, <1>6, <2>2 DEF BatchInv, BatchesHold, CatalogRequestInv
  <2> QED BY <2>1, <2>2
<1>8. BatchesHold(c)'
  BY <1>2, <1>4, <1>7 DEF BatchesHold
<1> QED BY <1>2, <1>3, <1>5, <1>8, DiscoveryKeeps DEF Discovering

\* What was valid all the time is valid now; what is valid now has been seen.
LEMMA WitnessesNow ==
    ASSUME NEW c \in Readers, CatalogRequestInv(c), Discovering(c), NEW s \in SourceSet, NEW n \in Names
    PROVE  /\ <<s, n>> \in witnessed[c].always => SkillNow(c, s, n) = "valid"
           /\ SkillNow(c, s, n) = "valid" => <<s, n>> \in witnessed[c].ever
  BY ValidIsSeen DEF CatalogRequestInv, WitnessesHold

LEMMA BatchIsBatch ==
    ASSUME CatalogTypes, NEW c \in Readers, NEW s \in SourceSet
    PROVE  /\ catalog[c] \in CatalogRequest
           /\ catalog[c].batches[s] \in Batches
  BY DEF CatalogTypes, CatalogRequest

LEMMA CanonicalSkillRootKeeps ==
    ASSUME CatalogTypes, NEW c \in Readers, CatalogRequestInv(c), UNCHANGED <<at, rows, getting>>,
           NEW s \in SourceSet, CanonicalSkillRoot(c, s)
    PROVE  CatalogKept(c)
<1> DEFINE batch == catalog[c].batches[s]
<1>1. /\ catalog[c].pc = "discover" /\ batch.pc = "realpath" /\ batch \in Batches
      /\ UNCHANGED <<skills, roots, skillChanges, witnessed>>
  BY BatchIsBatch DEF CanonicalSkillRoot
<1>2. batch.found \subseteq witnessed[c].ever
  BY <1>1 DEF CatalogRequestInv, BatchesHold, BatchInv
<1>3. RootNow(c, s) \in {"absent", "refused", "there"}
  BY RootNowIsKnown
<1>4. CASE RootNow(c, s) = "absent"
  <2> DEFINE b == [batch EXCEPT !.pc = "done"]
  <2>1. SetBatch(c, s, b)
    BY <1>4 DEF CanonicalSkillRoot
  <2>2. b \in Batches /\ b.found = batch.found /\ b.pc = "done"
    BY <1>1 DEF Batches
  <2>3. \A n \in Names : <<s, n>> \notin witnessed[c].always
    BY <1>1, <1>4, WitnessesNow DEF Discovering, SkillNow
  <2> HIDE DEF b, batch
  <2> QED BY <1>1, <1>2, <2>1, <2>2, <2>3, BatchKeeps
<1>5. CASE RootNow(c, s) = "refused"
  BY <1>1, <1>5, FinishesKeeps DEF CanonicalSkillRoot, CatalogOutcomes
<1>6. CASE RootNow(c, s) = "there"
  <2> DEFINE b == [batch EXCEPT !.pc = "readdir"]
  <2>1. SetBatch(c, s, b)
    BY <1>6 DEF CanonicalSkillRoot
  <2>2. b \in Batches /\ b.found = batch.found /\ b.pc = "readdir"
    BY <1>1 DEF Batches
  <2> HIDE DEF b, batch
  <2> QED BY <1>1, <1>2, <2>1, <2>2, BatchKeeps
<1> QED BY <1>3, <1>4, <1>5, <1>6

LEMMA ReadSkillRootKeeps ==
    ASSUME CatalogTypes, NEW c \in Readers, CatalogRequestInv(c), UNCHANGED <<at, rows, getting>>,
           NEW s \in SourceSet, ReadSkillRoot(c, s)
    PROVE  CatalogKept(c)
<1> DEFINE batch == catalog[c].batches[s]
           listed == {n \in Names : skills[PlaceOf(at, c, s)][n] # "absent"}
           b == [batch EXCEPT !.pc = "entries", !.todo = listed]
<1>1. /\ catalog[c].pc = "discover" /\ batch \in Batches
      /\ UNCHANGED <<skills, roots, skillChanges, witnessed>>
  BY BatchIsBatch DEF ReadSkillRoot
<1>2. CASE RootNow(c, s) # "there"
  BY <1>1, <1>2, FinishesKeeps DEF ReadSkillRoot, CatalogOutcomes
<1>3. CASE RootNow(c, s) = "there"
  <2>1. SetBatch(c, s, b)
    BY <1>3 DEF ReadSkillRoot
  <2>2. b \in Batches /\ b.found = batch.found /\ b.pc = "entries" /\ b.todo = listed
    BY <1>1 DEF Batches
  <2>3. batch.found \subseteq witnessed[c].ever
    BY <1>1 DEF CatalogRequestInv, BatchesHold, BatchInv
  <2>4. ASSUME NEW n \in Names, <<s, n>> \in witnessed[c].always
        PROVE  n \in listed
    <3>1. SkillNow(c, s, n) = "valid"
      BY <1>1, <2>4, WitnessesNow DEF Discovering
    <3> QED BY <1>3, <3>1 DEF SkillNow
  <2> HIDE DEF b, batch, listed
  <2> QED BY <1>1, <2>1, <2>2, <2>3, <2>4, BatchKeeps
<1> QED BY <1>2, <1>3

\* An entry that is not there, or no skill, is dropped; a skill is found.
LEMMA InspectSkillKeeps ==
    ASSUME CatalogTypes, NEW c \in Readers, CatalogRequestInv(c), UNCHANGED <<at, rows, getting>>,
           NEW s \in SourceSet, InspectSkill(c, s)
    PROVE  CatalogKept(c)
<1> DEFINE batch == catalog[c].batches[s]
           n == CHOOSE n \in batch.todo : \A m \in batch.todo : n <= m
           rest == [batch EXCEPT !.todo = @ \ {n}]
<1>1. /\ catalog[c].pc = "discover" /\ batch.pc = "entries" /\ batch \in Batches
      /\ UNCHANGED <<skills, roots, skillChanges, witnessed>>
  BY BatchIsBatch DEF InspectSkill
<1>2. n \in batch.todo /\ n \in Names
  <2>1. batch.todo \in SUBSET Nat /\ batch.todo # {}
    BY <1>1, NamesAssumption DEF InspectSkill, Batches
  <2>2. \E k \in batch.todo : \A m \in batch.todo : k <= m
    BY <2>1, LeastOfNaturals
  <2> QED BY <1>1, <2>2 DEF Batches
<1>3. /\ batch.found \subseteq witnessed[c].ever
      /\ \A m \in Names : <<s, m>> \in witnessed[c].always => <<s, m>> \in batch.found \/ m \in batch.todo
  BY <1>1 DEF CatalogRequestInv, BatchesHold, BatchInv
<1>4. SkillNow(c, s, n) = "valid" <=> <<s, n>> \in ValidEntries(at, skills, roots, c)
  BY <1>2, ValidIsSeen
<1>5. /\ <<s, n>> \in witnessed[c].always => SkillNow(c, s, n) = "valid"
      /\ SkillNow(c, s, n) = "valid" => <<s, n>> \in witnessed[c].ever
  BY <1>1, <1>2, WitnessesNow DEF Discovering
<1>6. SkillNow(c, s, n) \in Conditions \cup {"hidden"}
  <2>1. RootNow(c, s) = "there" => PlaceOf(at, c, s) \in Places
    BY DEF RootNow
  <2> QED BY <1>2, <2>1 DEF SkillNow, CatalogTypes, Conditions
<1>7. /\ rest \in Batches /\ rest.found = batch.found /\ rest.pc = "entries" /\ rest.todo = batch.todo \ {n}
      /\ <<s, n>> \in Entries
  <2> HIDE DEF n
  <2>1. rest \in Batches /\ rest.found = batch.found /\ rest.pc = "entries" /\ rest.todo = batch.todo \ {n}
    BY <1>1 DEF Batches
  <2> QED BY <1>2, <2>1 DEF Entries
<1>8. /\ SkillNow(c, s, n) \in {"absent", "hidden"} => SetBatch(c, s, rest)
      /\ SkillNow(c, s, n) = "valid" => SetBatch(c, s, [rest EXCEPT !.found = @ \cup {<<s, n>>}])
      /\ SkillNow(c, s, n) = "invalid" => SetBatch(c, s, [rest EXCEPT !.invalid = @ \cup {<<s, n>>}])
      /\ SkillNow(c, s, n) = "unreadable" => Finishes(c, "failed")
  BY DEF InspectSkill
<1> HIDE DEF n, rest, batch
<1>9. CASE SkillNow(c, s, n) \in {"absent", "hidden"}
  <2>1. \A m \in Names : <<s, m>> \in witnessed[c].always => <<s, m>> \in rest.found \/ m \in rest.todo
    BY <1>3, <1>5, <1>7, <1>9
  <2> QED BY <1>1, <1>3, <1>7, <1>8, <1>9, <2>1, BatchKeeps
<1>10. CASE SkillNow(c, s, n) = "valid"
  <2> DEFINE b == [rest EXCEPT !.found = @ \cup {<<s, n>>}]
  <2>1. b \in Batches /\ b.found = batch.found \cup {<<s, n>>} /\ b.pc = "entries" /\ b.todo = batch.todo \ {n}
    BY <1>7 DEF Batches
  <2>2. SetBatch(c, s, b)
    BY <1>8, <1>10
  <2> HIDE DEF b
  <2>3. b.found \subseteq witnessed[c].ever
    BY <1>3, <1>5, <1>10, <2>1
  <2>4. \A m \in Names : <<s, m>> \in witnessed[c].always => <<s, m>> \in b.found \/ m \in b.todo
    BY <1>3, <2>1
  <2> QED BY <1>1, <2>1, <2>2, <2>3, <2>4, BatchKeeps
<1>11. CASE SkillNow(c, s, n) = "invalid"
  <2> DEFINE b == [rest EXCEPT !.invalid = @ \cup {<<s, n>>}]
  <2>1. b \in Batches /\ b.found = batch.found /\ b.pc = "entries" /\ b.todo = batch.todo \ {n}
    BY <1>7 DEF Batches
  <2>2. SetBatch(c, s, b)
    BY <1>8, <1>11
  <2> HIDE DEF b
  <2>3. \A m \in Names : <<s, m>> \in witnessed[c].always => <<s, m>> \in b.found \/ m \in b.todo
    BY <1>3, <1>5, <1>11, <2>1
  <2> QED BY <1>1, <1>3, <2>1, <2>2, <2>3, BatchKeeps
<1>12. CASE SkillNow(c, s, n) = "unreadable"
  BY <1>1, <1>8, <1>12, FinishesKeeps DEF CatalogOutcomes
<1> QED BY <1>6, <1>9, <1>10, <1>11, <1>12 DEF Conditions

LEMMA FinishBatchKeeps ==
    ASSUME CatalogTypes, NEW c \in Readers, CatalogRequestInv(c), UNCHANGED <<at, rows, getting>>,
           NEW s \in SourceSet, FinishBatch(c, s)
    PROVE  CatalogKept(c)
<1> DEFINE batch == catalog[c].batches[s]
           b == [batch EXCEPT !.pc = "done"]
<1>1. /\ catalog[c].pc = "discover" /\ batch.pc = "entries" /\ batch.todo = {} /\ batch \in Batches
      /\ UNCHANGED <<skills, roots, skillChanges, witnessed>>
  BY BatchIsBatch DEF FinishBatch
<1>2. SetBatch(c, s, b)
  BY DEF FinishBatch
<1>3. b \in Batches /\ b.found = batch.found /\ b.pc = "done"
  BY <1>1 DEF Batches
<1>4. /\ batch.found \subseteq witnessed[c].ever
      /\ \A n \in Names : <<s, n>> \in witnessed[c].always => <<s, n>> \in batch.found
  BY <1>1 DEF CatalogRequestInv, BatchesHold, BatchInv
<1> HIDE DEF b, batch
<1> QED BY <1>1, <1>2, <1>3, <1>4, BatchKeeps

\* What is valid all the time has been found once every batch is done; what has
\* been found was valid at some time.
LEMMA FoundWasValid ==
    ASSUME CatalogTypes, NEW c \in Readers, CatalogRequestInv(c), catalog[c].pc = "discover"
    PROVE  /\ Found(c) \subseteq witnessed[c].ever /\ Found(c) \subseteq Entries
           /\ Discovered(c) => witnessed[c].always \subseteq Found(c)
<1>1. \A s \in SourceSet : BatchInv(c, s)
  BY DEF CatalogRequestInv, BatchesHold
<1>2. \A s \in SourceSet : catalog[c].batches[s].found \subseteq Entries
  BY BatchIsBatch DEF Batches
<1>3. ASSUME NEW e \in Found(c)
      PROVE  e \in witnessed[c].ever /\ e \in Entries
  BY <1>1, <1>2, FoundOfAll DEF BatchInv
<1>4. ASSUME Discovered(c), NEW e \in witnessed[c].always
      PROVE  e \in Found(c)
  <2>1. witnessed[c].always \subseteq Entries
    BY DEF CatalogTypes
  <2>2. PICK s \in SourceSet, n \in Names : e = <<s, n>>
    BY <1>4, <2>1 DEF Entries
  <2>3. <<s, n>> \in catalog[c].batches[s].found
    BY <1>1, <1>4, <2>2 DEF BatchInv, Discovered
  <2> QED BY <2>2, <2>3, FoundOfAll
<1> QED BY <1>3, <1>4

LEMMA ListSkillsKeeps ==
    ASSUME CatalogTypes, NEW c \in Readers, CatalogRequestInv(c), UNCHANGED <<at, rows, getting>>,
           ListSkills(c)
    PROVE  CatalogKept(c)
<1> DEFINE found == Found(c)
           invalid == UNION {catalog[c].batches[s].invalid : s \in SourceSet}
           r == [catalog[c] EXCEPT !.pc = "settled", !.outcome = "listed", !.skills = Selected(found),
                    !.shadowed = found \ Selected(found), !.invalid = invalid]
<1>1. /\ catalog[c] \in CatalogRequest /\ catalog[c].pc = "discover"
      /\ UNCHANGED <<skills, roots, skillChanges, witnessed>> /\ Turns(c, r)
  BY DEF CatalogTypes, ListSkills
<1>2. found \subseteq witnessed[c].ever /\ found \subseteq Entries /\ witnessed[c].always \subseteq found
  BY <1>1, FoundWasValid DEF ListSkills
<1>3. invalid \subseteq Entries
  <2>1. \A s \in SourceSet : catalog[c].batches[s].invalid \subseteq Entries
    BY BatchIsBatch DEF Batches
  <2> QED BY <2>1
<1> HIDE DEF found, invalid
<1>4. Selected(found) \subseteq found
  BY DEF Selected
<1>5. /\ r \in CatalogRequest /\ r.pc = "settled" /\ r.outcome = "listed"
      /\ r.skills = Selected(found) /\ r.shadowed = found \ Selected(found)
  BY <1>1, <1>2, <1>3, <1>4 DEF CatalogRequest, CatalogStages, CatalogOutcomes
<1> HIDE DEF r
<1>6. /\ CatalogTypes' /\ catalog'[c] = r
      /\ \A o \in Readers \ {c} : catalog'[o] = catalog[o]
  BY <1>1, <1>5, TurnsTo
<1>7. CatalogHandle(c)' /\ WitnessesHold(c)' /\ BatchesHold(c)'
  BY <1>5, <1>6 DEF CatalogHandle, WitnessesHold, Discovering, BatchesHold
<1>8. \A e \in Selected(found) : \A other \in found :
         other[2] = e[2] =>
            ~Precedes(other[1], e[1]) /\ (other \in Selected(found) => other = e)
  BY <1>2, SelectedIsFirst
<1>9. /\ r.skills \cup r.shadowed = found
      /\ \A e \in r.skills : \A other \in witnessed[c].always : other[2] = e[2] => ~Precedes(other[1], e[1])
      /\ \A e, other \in r.skills : e[2] = other[2] => e = other
  BY <1>2, <1>4, <1>5, <1>8
<1>10. OutcomeHolds(c)'
  BY <1>1, <1>2, <1>5, <1>6, <1>9 DEF OutcomeHolds
<1> QED BY <1>1, <1>6, <1>7, <1>10 DEF CatalogRequestInv, CatalogKept

LEMMA FindSkillKeeps ==
    ASSUME CatalogTypes, NEW c \in Readers, CatalogRequestInv(c), UNCHANGED <<at, rows, getting>>,
           FindSkill(c)
    PROVE  CatalogKept(c)
<1> DEFINE r == [catalog[c] EXCEPT !.pc = "body"]
<1>1. /\ catalog[c] \in CatalogRequest /\ catalog[c].pc = "discover"
      /\ UNCHANGED <<skills, roots, skillChanges, witnessed>>
  BY DEF CatalogTypes, FindSkill
<1>2. Found(c) \subseteq witnessed[c].ever /\ witnessed[c].always \subseteq Found(c)
  BY <1>1, FoundWasValid DEF FindSkill
<1>3. CASE catalog[c].wanted \notin Found(c)
  BY <1>1, <1>2, <1>3, FinishesKeeps DEF FindSkill, CatalogOutcomes
<1>4. CASE catalog[c].wanted \in Found(c)
  <2>1. Turns(c, r)
    BY <1>4 DEF FindSkill
  <2>2. /\ r \in CatalogRequest /\ r.pc = "body" /\ r.outcome = catalog[c].outcome
        /\ r.wanted = catalog[c].wanted
    BY <1>1 DEF CatalogRequest, CatalogStages
  <2> HIDE DEF r
  <2>3. /\ CatalogTypes' /\ catalog'[c] = r
        /\ \A o \in Readers \ {c} : catalog'[o] = catalog[o]
    BY <1>1, <2>1, <2>2, TurnsTo
  <2>4. r.outcome = "none"
    BY <1>1, <2>2 DEF CatalogRequestInv, CatalogHandle
  <2>5. CatalogHandle(c)' /\ WitnessesHold(c)' /\ BatchesHold(c)'
    BY <1>1, <2>2, <2>3, <2>4
       DEF CatalogHandle, CatalogRequestInv, Available, WitnessesHold, Discovering, BatchesHold
  <2>6. OutcomeHolds(c)'
    BY <1>1, <1>2, <1>4, <2>2, <2>3, <2>4 DEF OutcomeHolds
  <2> QED BY <1>1, <2>3, <2>5, <2>6 DEF CatalogRequestInv, CatalogKept
<1> QED BY <1>3, <1>4

LEMMA ReadSkillBodyKeeps ==
    ASSUME CatalogTypes, NEW c \in Readers, CatalogRequestInv(c), ReadSkillBody(c)
    PROVE  CatalogKept(c)
<1>1. catalog[c].pc = "body" /\ UNCHANGED <<skills, roots, skillChanges, witnessed>>
  BY DEF ReadSkillBody
<1>2. catalog[c].wanted \in witnessed[c].ever
  BY <1>1 DEF CatalogRequestInv, OutcomeHolds
<1>3. PICK outcome \in {"read", "body-refused", "inaccessible"} : Finishes(c, outcome)
  BY DEF ReadSkillBody
<1> QED BY <1>1, <1>2, <1>3, FinishesKeeps DEF CatalogOutcomes

LEMMA DiscoverKeeps ==
    ASSUME CatalogTypes, NEW c \in Readers, CatalogRequestInv(c), UNCHANGED <<at, rows, getting>>,
           Discover(c)
    PROVE  CatalogKept(c)
<1>1. ASSUME NEW s \in SourceSet,
             CanonicalSkillRoot(c, s) \/ ReadSkillRoot(c, s) \/ InspectSkill(c, s) \/ FinishBatch(c, s)
      PROVE  CatalogKept(c)
  BY <1>1, CanonicalSkillRootKeeps, ReadSkillRootKeeps, InspectSkillKeeps, FinishBatchKeeps
<1>2. ASSUME NEW wanted \in Entries \cup {NoCall}, RequireWorkspace(c, wanted)
      PROVE  CatalogKept(c)
  BY <1>2, RequireWorkspaceKeeps
<1> QED BY <1>1, <1>2, SkillWorkspaceRootKeeps, ListSkillsKeeps, FindSkillKeeps, ReadSkillBodyKeeps DEF Discover

-------------------------------------------------------------------------------

LEMMA MovedIsTyped ==
    ASSUME CatalogTypes, skills' \in [Places -> [Names -> Conditions]], roots' \in [Places -> RootConditions],
           skillChanges' \in 0 .. MaxSkillChanges, catalog' = catalog,
           witnessed' = Witnessed(at', skills', roots')
    PROVE  CatalogTypes'
  BY WitnessedIsTyped DEF CatalogTypes

LEMMA NextCatalogInv == RegistryInv /\ CatalogInv /\ [Next]_vars => CatalogInv'
<1> SUFFICES ASSUME RegistryInv, CatalogInv, [Next]_vars
             PROVE  CatalogInv'
    OBVIOUS
<1> USE DEF CatalogInv
<1>1. CASE UNCHANGED at /\ UNCHANGED catalogVars
  <2>1. CatalogTypes'
    BY <1>1 DEF catalogVars, CatalogTypes
  <2>2. \A c \in Readers : CatalogRequestInv(c)'
    BY <1>1, CatalogQuietKeeps DEF catalogVars
  <2> QED BY <2>1, <2>2
<1>2. CASE /\ CatalogTypes' /\ catalog' = catalog
           /\ witnessed' = Witnessed(at', skills', roots')
  BY <1>2, ElsewhereChanges
<1>3. ASSUME NEW p \in Paths, MoveDirectory(p)
      PROVE  CatalogInv'
  <2>1. /\ UNCHANGED <<skills, roots, skillChanges, catalog>>
        /\ witnessed' = Witnessed(at', skills', roots')
    BY <1>3 DEF MoveDirectory
  <2>2. CatalogTypes'
    BY <2>1, MovedIsTyped DEF CatalogTypes
  <2> QED BY <1>2, <2>1, <2>2
<1>4. ASSUME NEW place \in Places, SkillChangeStep(place)
      PROVE  CatalogInv'
  <2>1. ChangeSkills(place)
    BY <1>4 DEF SkillChangeStep
  <2>2. CASE ChangeRoot(place)
    <3>1. /\ UNCHANGED <<skills, catalog>> /\ witnessed' = Witnessed(at', skills', roots')
          /\ skillChanges' = skillChanges + 1 /\ skillChanges < MaxSkillChanges
          /\ \E condition \in RootConditions : roots' = [roots EXCEPT ![place] = condition]
      BY <1>4, <2>2 DEF ChangeRoot, SkillChangeStep, registryVars
    <3>2. CatalogTypes'
      <4>1. roots' \in [Places -> RootConditions]
        BY <3>1 DEF CatalogTypes
      <4>2. skillChanges' \in 0 .. MaxSkillChanges
        BY <3>1, SkillsAssumption DEF CatalogTypes
      <4> QED BY <3>1, <4>1, <4>2, MovedIsTyped DEF CatalogTypes
    <3> QED BY <1>2, <3>1, <3>2
  <2>3. ASSUME NEW n \in Names, ChangeSkill(place, n)
        PROVE  CatalogInv'
    <3>1. /\ UNCHANGED <<roots, catalog>> /\ witnessed' = Witnessed(at', skills', roots')
          /\ skillChanges' = skillChanges + 1 /\ skillChanges < MaxSkillChanges
          /\ \E condition \in Conditions : skills' = [skills EXCEPT ![place][n] = condition]
      BY <1>4, <2>3 DEF ChangeSkill, SkillChangeStep, registryVars
    <3>2. CatalogTypes'
      <4>1. skills' \in [Places -> [Names -> Conditions]]
        <5>1. PICK condition \in Conditions : skills' = [skills EXCEPT ![place][n] = condition]
          BY <3>1
        <5>2. [skills[place] EXCEPT ![n] = condition] \in [Names -> Conditions]
          BY DEF CatalogTypes
        <5> QED BY <5>1, <5>2 DEF CatalogTypes
      <4>2. skillChanges' \in 0 .. MaxSkillChanges
        BY <3>1, SkillsAssumption DEF CatalogTypes
      <4> QED BY <3>1, <4>1, <4>2, MovedIsTyped DEF CatalogTypes
    <3> QED BY <1>2, <3>1, <3>2
  <2> QED BY <2>1, <2>2, <2>3 DEF ChangeSkills
<1>5. ASSUME NEW c \in Readers, SkillStep(c)
      PROVE  CatalogInv'
  <2>1. UNCHANGED <<at, rows, getting>> /\ Discover(c)
    BY <1>5 DEF SkillStep, registryVars
  <2>2. CatalogKept(c)
    BY <2>1, DiscoverKeeps
  <2>3. UNCHANGED <<skills, roots>>
    BY <2>1 DEF Discover, RequireWorkspace, SkillWorkspaceRoot, CanonicalSkillRoot, ReadSkillRoot,
                InspectSkill, FinishBatch, ListSkills, FindSkill, ReadSkillBody
  <2>4. ASSUME NEW o \in Readers \ {c}
        PROVE  CatalogRequestInv(o)'
    BY <2>1, <2>2, <2>3, CatalogQuietKeeps DEF CatalogKept
  <2> QED BY <2>2, <2>4 DEF CatalogKept
<1>6. ASSUME NEW c \in Openers, OpenStep(c)
      PROVE  UNCHANGED at /\ UNCHANGED catalogVars
  BY <1>6 DEF OpenStep, Open, OpenPath, StatDirectory, FindRepoRoot, Upsert
<1>7. ASSUME NEW c \in Readers, GetStep(c)
      PROVE  UNCHANGED at /\ UNCHANGED catalogVars
  BY <1>7 DEF GetStep, Get, ReadRow, InspectPath, Revalidate
<1>8. ASSUME NEW c \in Readers, ResolveStep(c)
      PROVE  UNCHANGED at /\ UNCHANGED catalogVars
  BY <1>8 DEF ResolveStep, registryVars
<1>9. ASSUME NEW d \in Directories, NEW s \in Slots, FileStep(d, s)
      PROVE  UNCHANGED at /\ UNCHANGED catalogVars
  BY <1>9 DEF FileStep, registryVars
<1>10. UNCHANGED vars => UNCHANGED at /\ UNCHANGED catalogVars
  BY DEF vars, registryVars
<1> QED BY <1>1, <1>3, <1>4, <1>5, <1>6, <1>7, <1>8, <1>9, <1>10 DEF Next

LEMMA InitCatalogInv == Init => CatalogInv
<1> SUFFICES ASSUME Init
             PROVE  CatalogInv
    OBVIOUS
<1>1. CatalogInit
  BY DEF Init
<1>2. IdleCatalog \in CatalogRequest
  <2>1. WaitingBatch \in Batches
    BY DEF WaitingBatch, Batches
  <2> QED BY <2>1 DEF IdleCatalog, CatalogRequest, CatalogStages, CatalogOutcomes
<1>3. CatalogTypes
  <2>1. skillChanges \in 0 .. MaxSkillChanges /\ skills \in [Places -> [Names -> Conditions]]
    BY <1>1, SkillsAssumption DEF CatalogInit
  <2>2. roots \in [Places -> RootConditions]
    BY <1>1 DEF CatalogInit, RootConditions
  <2> QED BY <1>1, <1>2, <2>1, <2>2 DEF CatalogInit, CatalogTypes
<1>4. ASSUME NEW c \in Readers
      PROVE  CatalogRequestInv(c)
  <2>1. catalog[c] = IdleCatalog
    BY <1>1 DEF CatalogInit
  <2>2. /\ catalog[c].pc = "idle" /\ catalog[c].outcome = "none"
        /\ catalog[c].batches = [s \in SourceSet |-> WaitingBatch]
    BY <2>1 DEF IdleCatalog
  <2> QED BY <2>2 DEF CatalogRequestInv, CatalogHandle, WitnessesHold, Discovering, BatchesHold, OutcomeHolds
<1> QED BY <1>3, <1>4 DEF CatalogInv

\* The inductive invariant of listSkills() and readSkill(): what was valid all
\* the time is still to be looked at or has been found, and what has been found
\* was valid when it was.
THEOREM CatalogInvariance == Spec => []CatalogInv
  BY InitCatalogInv, NextCatalogInv, RegistryInvariance, PTL DEF Spec

\* A listing of roots that change while they are read has every skill that was
\* valid all the time and none that never was, one of each name, and none that a
\* root before its own shadowed all the time (#discoverSkills, listSkills and
\* readSkill).
THEOREM CatalogsAreTrue == Spec => []CatalogIsTrue
<1>1. CatalogInv => CatalogIsTrue
  BY DEF CatalogInv, CatalogRequestInv, OutcomeHolds, CatalogIsTrue
<1> QED BY <1>1, CatalogInvariance, PTL

-------------------------------------------------------------------------------
(* The types *)

AsksAllowed == asked \in Requests

LEMMA TypesOfInvariants == RegistryInv /\ InstructionInv /\ CatalogInv /\ AsksAllowed => TypeOK
<1> SUFFICES ASSUME RegistryInv, InstructionInv, CatalogInv, AsksAllowed
             PROVE  TypeOK
    OBVIOUS
<1>1. RegistryTypeOK
  <2>1. \A id \in Openers : Opened(id) => rows[id] \in Row
    BY OpenedIsRow DEF RegistryInv
  <2> QED BY <2>1 DEF RegistryTypeOK, RegistryInv, RegistryTypes, TruthsTyped, InstructionInv, InstructionTypes
<1>2. InstructionTypeOK
  <2>1. InstructionTypes /\ \A c \in Readers : RequestInv(c)
    BY DEF InstructionInv
  <2>2. ASSUME NEW i \in DOMAIN inodes
        PROVE  Range(inodes[i].blocks) \subseteq Contents
    <3>1. inodes[i] \in Inode
      BY <2>1 DEF InstructionTypes
    <3>2. inodes[i].blocks \in Seq(Contents)
      BY <3>1 DEF Inode
    <3> QED BY <3>2 DEF Range
  <2>3. ASSUME NEW c \in Readers
        PROVE  /\ resolving[c].pc \in RequestStages
               /\ resolving[c].outcome \in Outcomes
               /\ (resolving[c].pc = "settled") = (resolving[c].outcome # "none")
               /\ resolving[c].step \in 1 .. Len(Chain)
               /\ resolving[c].attempt \in 0 .. Attempts
               /\ resolving[c].attempt = Attempts => resolving[c].outcome = "changed"
               /\ resolving[c].total <= MaxTotal
               /\ resolving[c].pc # "settled" => Len(resolving[c].documents) < resolving[c].step
               /\ disturbed[c] \in 0 .. MaxWrites + MaxMoves
    <3>1. resolving[c] \in Request /\ RequestInv(c)
      BY <2>1 DEF InstructionTypes
    <3>2. /\ resolving[c].pc \in RequestStages /\ resolving[c].outcome \in Outcomes
          /\ resolving[c].step \in 1 .. Len(Chain) /\ resolving[c].attempt \in 0 .. Attempts
          /\ resolving[c].total \in 0 .. MaxTotal
      BY <3>1 DEF Request
    <3>3. disturbed[c] \in Nat /\ disturbed[c] <= writes + moves
      BY <2>1, <3>1 DEF RequestInv, DisturbancesCounted, InstructionTypes
    <3>4. writes \in 0 .. MaxWrites /\ moves \in 0 .. MaxMoves
      BY <2>1 DEF InstructionTypes
    <3>5. disturbed[c] \in 0 .. MaxWrites + MaxMoves
      BY <3>3, <3>4, SizesAssumption, MovesAssumption
    <3>6. resolving[c].total <= MaxTotal
      BY <3>2, SizesAssumption
    <3> QED BY <3>1, <3>2, <3>5, <3>6 DEF RequestInv, Shaped
  <2>4. disturbed \in [Readers -> 0 .. MaxWrites + MaxMoves]
    BY <2>1, <2>3 DEF InstructionTypes
  <2> QED BY <2>1, <2>2, <2>3, <2>4 DEF InstructionTypeOK, InstructionTypes
<1>3. CatalogTypeOK
  <2>1. CatalogTypes /\ \A c \in Readers : CatalogRequestInv(c)
    BY DEF CatalogInv
  <2>2. ASSUME NEW c \in Readers
        PROVE  /\ catalog[c].pc \in CatalogStages
               /\ catalog[c].wanted \in Entries \cup {NoCall}
               /\ catalog[c].outcome \in CatalogOutcomes
               /\ (catalog[c].pc = "settled") = (catalog[c].outcome # "none")
               /\ UNION {catalog[c].skills, catalog[c].shadowed, catalog[c].invalid} \subseteq Entries
               /\ \A s \in SourceSet : catalog[c].batches[s].pc \in {"realpath", "readdir", "entries", "done"}
    <3>1. catalog[c] \in CatalogRequest /\ CatalogHandle(c)
      BY <2>1 DEF CatalogTypes, CatalogRequestInv
    <3>2. \A s \in SourceSet : catalog[c].batches[s] \in Batches
      BY <2>1, BatchIsBatch
    <3> QED BY <3>1, <3>2 DEF CatalogRequest, CatalogHandle, Batches
  <2> QED BY <2>1, <2>2 DEF CatalogTypeOK, CatalogTypes
<1> QED BY <1>1, <1>2, <1>3 DEF TypeOK, AsksAllowed

\* Every state has the type the modules say it has: no request is beyond its
\* chain, its attempts or its limit, and one is settled exactly when it has an
\* outcome.
THEOREM TypeCorrect == Spec => []TypeOK
<1>1. Init => AsksAllowed
  BY DEF Init, AsksAllowed
<1>2. AsksAllowed /\ [Next]_vars => AsksAllowed'
  BY DEF AsksAllowed, Next, vars, OpenStep, MoveDirectory, GetStep, ResolveStep, FileStep, SkillStep, SkillChangeStep
<1> QED BY <1>1, <1>2, RegistryInvariance, InstructionInvariance, CatalogInvariance, TypesOfInvariants, PTL DEF Spec
===============================================================================
