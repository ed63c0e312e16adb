------------------------------ MODULE FileQueries ------------------------------
(***************************************************************************)
(* list(), read(), search() and the planning of a patch: the requests of   *)
(* FilesystemService (packages/filesystem) that read the workspace while   *)
(* other programs change it.  A request is cut at its awaits; the tree can *)
(* change between any two steps.                                           *)
(*                                                                         *)
(* A behaviour serves one client: one request, or one per page of a        *)
(* directory or a file.  Requests share nothing but the tree, which        *)
(* anybody may change at any time, so others add nothing to what a request *)
(* can meet.                                                               *)
(***************************************************************************)
EXTENDS ExactPatch

CONSTANTS
    Nodes,          \* the paths below the workspace root: a set of numbers,
                    \* ordered within a directory as their names are
    Parent,         \* the directory of each node
    Kind,           \* "file", "directory" or "symlink"
    Target,         \* where a symbolic link leads in the end
    FileStates,     \* what a file may be
    InitialTrees,
    Globbed,        \* the files whose paths match the request's glob
    Cost,           \* the bytes appendSearchMatch estimates for a match in a file
    Limits,         \* page sizes of list() and, in bytes, of read()
    MaxResults,     \* values of maxResults,
    MaxBytes,       \* maxBytes
    MaxFileBytes,   \* maxFileBytes
    MaxDepths,      \* maxDepth
    EntryLimits,    \* and values for MAX_SEARCH_ENTRIES
    Characters,     \* what the texts to patch consist of,
    Sources,        \* the texts,
    EditLists,      \* and the patches that normalizePatchEdits() lets through
    MaxChanges              \* bound: changes of the tree by other programs

Root == 0
Outside == -1       \* any place that is not in the workspace
Places == {Root} \cup Nodes
Directories == {Root} \cup {n \in Nodes : Kind[n] = "directory"}
Links == {n \in Nodes : Kind[n] = "symlink"}
Children(d) == {n \in Nodes : Parent[n] = d}

ASSUME TreeAssumption ==
    /\ Nodes \subseteq Nat \ {Root} /\ IsFiniteSet(Nodes)
    /\ Kind \in [Nodes -> {"file", "directory", "symlink"}]
    /\ \A n \in Nodes : Parent[n] \in Directories /\ Parent[n] < n
    /\ \A n \in Links : Target[n] \in (Places \ Links) \cup {Outside}

VARIABLES
    tree,       \* what each node is at present
    seen,       \* all that each node has been since the request began (for the properties)
    changes,
    list, read, search, patch       \* the request

vars == <<tree, seen, changes, list, read, search, patch>>

-------------------------------------------------------------------------------
(* The tree *)

\* opens: whether it can be opened, as far as permissions go.
Absent == [class |-> "absent", opens |-> FALSE, bytes |-> <<>>]
Entry  == [class |-> "entry", opens |-> TRUE, bytes |-> <<>>]
Locked == [class |-> "entry", opens |-> FALSE, bytes |-> <<>>]

NodeStates(n) ==
    {Absent} \cup (CASE Kind[n] = "file"      -> FileStates
                     [] Kind[n] = "directory" -> {Entry, Locked}
                     [] OTHER                 -> {Entry})
There(n) == IF n = Root THEN TRUE ELSE tree[n] # Absent
Opens(n) == IF n = Root THEN TRUE ELSE tree[n].opens

\* realpath() in resolveExistingPath()
Resolved(n) == IF n \in Links THEN Target[n] ELSE n
Resolves(n) == There(n) /\ Resolved(n) # Outside /\ There(Resolved(n))

\* A hit is where the query occurs; a character of several bytes is a lead and
\* a trail, the byte order mark U+FEFF a mark and a trail.
ByteKinds == {"ascii", "hit", "lead", "mark", "trail", "nul"}
Leads == {"lead", "mark"}

ASSUME FilesAssumption ==
    /\ FileStates \subseteq [class : {"file"}, opens : BOOLEAN, bytes : Seq(ByteKinds)]
    /\ Globbed \subseteq {n \in Nodes : Kind[n] = "file"}
    /\ Cost \in [Nodes -> Nat]
ASSUME TreesAssumption ==
    \A t \in InitialTrees : /\ t \in [Nodes -> UNION {NodeStates(n) : n \in Nodes}]
                            /\ \A n \in Nodes : t[n] \in NodeStates(n)
ASSUME LimitsAssumption ==
    /\ Limits \cup MaxResults \cup MaxBytes \cup MaxFileBytes \subseteq Nat \ {0}
    /\ MaxDepths \cup EntryLimits \cup {MaxChanges} \subseteq Nat

Edits == [oldText : Seq(Characters) \ {<<>>}, newText : Seq(Characters)]
ASSUME PatchesAssumption ==
    /\ Sources \subseteq Seq(Characters)
    /\ EditLists \subseteq Seq(Edits) \ {<<>>}

\* Another program creates, removes or rewrites an entry while a request is
\* under way (before one, the tree is any of the initial ones).
ChangeTree(n) ==
    /\ changes < MaxChanges
    /\ \/ list.stage \notin {"none", "complete"}
       \/ read.stage \notin {"none", "complete", "failed"}
       \/ search.stage \notin {"none", "complete", "failed"}
    /\ \E s \in NodeStates(n) \ {tree[n]} :
          /\ s = Absent => \A m \in Children(n) : ~There(m)
          /\ s # Absent => There(Parent[n])
          /\ tree' = [tree EXCEPT ![n] = s]
          /\ seen' = [seen EXCEPT ![n] = @ \cup {s}]
    /\ changes' = changes + 1
    /\ UNCHANGED <<list, read, search, patch>>

\* The names of a directory by compareCodePoints().
Sorted(set) ==
    CHOOSE order \in [1 .. Cardinality(set) -> set] :
        Range(order) = set /\ \A i, j \in DOMAIN order : i < j => order[i] < order[j]

-------------------------------------------------------------------------------
(* Requests *)

NoList == [stage |-> "none", top |-> Root, limit |-> 0, after |-> 0,
           toInspect |-> {}, listed |-> {}, pages |-> <<>>]
NoRead == [stage |-> "none", file |-> Root, maxBytes |-> 0, offset |-> 0,
           opened |-> Absent, starts |-> {}, texts |-> <<>>, binary |-> FALSE]
NoSearch == [stage |-> "none", top |-> Root, byQuery |-> FALSE,
             maxResults |-> 0, maxBytes |-> 0, maxFileBytes |-> 0, maxDepth |-> 0,
             maxEntries |-> 0, frames |-> <<>>, target |-> Root, opened |-> Absent,
             matches |-> <<>>, outputBytes |-> 0, scannedEntries |-> 0,
             skippedBinary |-> {}, skippedOversized |-> {}, truncated |-> FALSE]
NoPatch == [stage |-> "none", source |-> <<>>, edits |-> <<>>, result |-> <<>>]

ListStages == {"none", "request", "inspect", "page", "complete", "failed"}
ReadStages == {"none", "request", "opened", "complete", "failed"}
SearchStages == {"none", "enter", "walk", "descend", "open", "read", "complete", "failed"}

TypeOK ==
    /\ tree \in [Nodes -> UNION {NodeStates(n) : n \in Nodes}]
    /\ \A n \in Nodes : tree[n] \in seen[n] /\ seen[n] \subseteq NodeStates(n)
    /\ changes \in 0 .. MaxChanges
    /\ list.stage \in ListStages
    /\ list.top \in Places
    /\ list.after \in {0} \cup Nodes
    /\ list.toInspect \cup list.listed \cup Range(list.pages) \subseteq Nodes
    /\ read.stage \in ReadStages
    /\ read.file \in Places
    /\ read.offset \in Nat /\ read.binary \in BOOLEAN
    /\ search.stage \in SearchStages
    /\ \A i \in DOMAIN search.frames : Range(search.frames[i]) \subseteq Nodes
    /\ search.stage # "none" => Len(search.frames) <= search.maxDepth + 1
    /\ search.target \in Places
    /\ search.skippedBinary \cup search.skippedOversized \subseteq Globbed
    /\ search.truncated \in BOOLEAN
    /\ patch.stage \in {"none", "planned"}

Init ==
    /\ tree \in InitialTrees
    /\ seen = [n \in Nodes |-> {tree[n]}]
    /\ changes = 0
    /\ list = NoList /\ read = NoRead /\ search = NoSearch /\ patch = NoPatch

NoRequest == list.stage = "none" /\ read.stage = "none" /\ search.stage = "none" /\ patch.stage = "none"

\* The handle names a workspace and it is available: the others end the
\* request before it looks at the tree.
AccessWorkspace ==
    /\ seen' = [n \in Nodes |-> {tree[n]}]
    /\ UNCHANGED <<tree, changes>>

-------------------------------------------------------------------------------
(* list(): one page for each request, until a page has no next cursor *)

ListFrom(top, limit) ==
    /\ AccessWorkspace
    /\ list' = [NoList EXCEPT !.stage = "request", !.top = top, !.limit = limit]
    /\ UNCHANGED <<read, search, patch>>

\* resolveExistingPath() and readdir(): the path may be gone or lead outside,
\* or to what is no directory or may not be listed.
ListDirectory ==
    /\ list.stage = "request"
    /\ LET directory == Resolved(list.top)
           names == {n \in Children(directory) : There(n)}
       IN  list' = IF Resolves(list.top) /\ directory \in Directories /\ Opens(directory)
                   THEN [list EXCEPT !.stage = "inspect", !.toInspect = names, !.listed = {}]
                   ELSE [list EXCEPT !.stage = "failed"]
    /\ UNCHANGED <<tree, seen, changes, read, search, patch>>

\* readEntryMetadata() of one entry.  An entry that has vanished since
\* readdir() makes the whole request fail, unless it was a symbolic link.
InspectEntry ==
    /\ list.stage = "inspect"
    /\ \E n \in list.toInspect :
          list' = IF Kind[n] = "symlink" \/ There(n)
                  THEN [list EXCEPT !.toInspect = @ \ {n}, !.listed = @ \cup {n}]
                  ELSE [list EXCEPT !.stage = "failed"]
    /\ UNCHANGED <<tree, seen, changes, read, search, patch>>

\* Mutant: the cursor is a position.
PageStartByPosition(entries) == Min({Len(list.pages), Len(entries)})

\* Where a page starts: at the first name behind the last of the page before.
PageStart(entries) ==
    LET behind == {i \in DOMAIN entries : entries[i] > list.after}
    IN  IF behind = {} THEN Len(entries) ELSE Min(behind) - 1

ListPage ==
    /\ list.stage = "inspect" /\ list.toInspect = {}
    /\ LET entries == Sorted(list.listed)
           start   == PageStart(entries)
           page    == SubSeq(entries, start + 1, Min({start + list.limit, Len(entries)}))
           hasMore == start + Len(page) < Len(entries)
       IN  list' = [list EXCEPT !.pages = @ \o page,
                       !.toInspect = {}, !.listed = {},
                       !.after = IF hasMore /\ page # <<>> THEN Last(page) ELSE 0,
                       !.stage = IF hasMore /\ page # <<>> THEN "page" ELSE "complete"]
    /\ UNCHANGED <<tree, seen, changes, read, search, patch>>

\* The client sends the cursor it got, again if the request failed.
NextPage ==
    /\ list.stage \in {"page", "failed"}
    /\ list' = [list EXCEPT !.stage = "request", !.toInspect = {}, !.listed = {}]
    /\ UNCHANGED <<tree, seen, changes, read, search, patch>>

-------------------------------------------------------------------------------
(* read(): one range for each request, until one reaches the end *)

ReadFrom(n, limit) ==
    /\ AccessWorkspace
    /\ read' = [NoRead EXCEPT !.stage = "request", !.file = n, !.maxBytes = limit]
    /\ UNCHANGED <<list, search, patch>>

\* resolveExistingPath(), which follows a symbolic link, open() and stat() of
\* the handle.
OpenToRead ==
    /\ read.stage = "request"
    /\ LET file == Resolved(read.file)
       IN  read' = IF Resolves(read.file) /\ file \notin Directories /\ Opens(file)
                   THEN [read EXCEPT !.stage = "opened", !.opened = tree[file]]
                   ELSE [read EXCEPT !.stage = "failed"]
    /\ UNCHANGED <<tree, seen, changes, list, search, patch>>

\* classifyBuffer(): neither a NUL byte nor a part of a character.
IsText(data) ==
    /\ \A i \in DOMAIN data : data[i] # "nul"
    /\ \A i \in DOMAIN data : data[i] \in Leads => i < Len(data) /\ data[i + 1] = "trail"
    /\ \A i \in DOMAIN data : data[i] = "trail" => i > 1 /\ data[i - 1] \in Leads

\* TextDecoder leaves out a byte order mark that the bytes begin with.
BeginsWithMark(data) == data # <<>> /\ data[1] = "mark"
DecodeUtf8(data) == IF BeginsWithMark(data) THEN SubSeq(data, 3, Len(data)) ELSE data

\* What a read finds in an opened file of which stat() gave the size: the
\* handle's file is what was opened, or what has been written into it since.
Held(opened, n) == {opened} \cup ({tree[n]} \cap FileStates)

\* Mutant: the last byte is taken for the end.
EofEarly(offset, bytesRead, size) == offset + bytesRead + 1 >= size

Eof(offset, bytesRead, size) == offset + bytesRead >= size

\* A range, of at most as many bytes as stat() said there are.  A client goes
\* on behind what it got.
AddRange(r, held) ==
    LET size == Len(r.opened.bytes)
        last == Min({r.offset + r.maxBytes, size, Len(held.bytes)})
        data == SubSeq(held.bytes, r.offset + 1, last)
    IN  [r EXCEPT !.stage = IF Eof(r.offset, Len(data), size) THEN "complete" ELSE "request",
                  !.offset = @ + Len(data), !.opened = Absent,
                  !.starts = @ \cup {r.offset},
                  !.texts = IF IsText(data) THEN @ \o DecodeUtf8(data) ELSE @,
                  !.binary = @ \/ ~IsText(data)]

ReadRange ==
    /\ read.stage = "opened"
    /\ \E held \in Held(read.opened, Resolved(read.file)) : read' = AddRange(read, held)
    /\ UNCHANGED <<tree, seen, changes, list, search, patch>>

-------------------------------------------------------------------------------
(* search() *)

SearchFrom(top, byQuery, results, bytes, fileBytes, depth, entries) ==
    /\ AccessWorkspace
    /\ search' = [NoSearch EXCEPT !.stage = "enter", !.top = top, !.target = top,
                     !.byQuery = byQuery, !.maxResults = results,
                     !.maxBytes = bytes, !.maxFileBytes = fileBytes,
                     !.maxDepth = depth, !.maxEntries = entries]
    /\ UNCHANGED <<list, read, patch>>

\* Mutant: a match that does not fit is left out without a word.
AppendSearchMatchSilently(s, n, k) ==
    IF Len(s.matches) >= s.maxResults \/ s.outputBytes + Cost[n] > s.maxBytes
    THEN s
    ELSE [s EXCEPT !.matches = Append(@, <<n, k>>), !.outputBytes = @ + Cost[n]]

AppendSearchMatch(s, n, k) ==
    IF Len(s.matches) >= s.maxResults \/ s.outputBytes + Cost[n] > s.maxBytes
    THEN [s EXCEPT !.truncated = TRUE]
    ELSE [s EXCEPT !.matches = Append(@, <<n, k>>), !.outputBytes = @ + Cost[n]]

\* The matches of a text, one after the other.
AppendAll(s, n, text) ==
    LET appended[k \in 0 .. Len(text)] ==
            IF k = 0 THEN s
            ELSE IF text[k] = "hit" THEN AppendSearchMatch(appended[k - 1], n, k)
            ELSE appended[k - 1]
    IN  appended[Len(text)]

\* #walkSearch is called for a directory: for the one the request names
\* (which resolveExistingPath has found before), or for one on the way.
Enter ==
    /\ search.stage = "enter"
    /\ search' =
         IF search.scannedEntries >= search.maxEntries
         THEN [search EXCEPT !.stage = "walk", !.truncated = TRUE]
         ELSE IF ~There(search.target) \/ ~Opens(search.target)
         THEN [search EXCEPT !.stage = "failed"]
         ELSE LET names == {n \in Children(search.target) : There(n)}
              IN  [search EXCEPT !.stage = "walk",
                      !.frames = Append(@, Sorted(names))]
    /\ UNCHANGED <<tree, seen, changes, list, read, patch>>

Top(s) == Last(s.frames)
Pop(s) == [s EXCEPT !.frames = Front(@)]
Depth(s) == Len(s.frames) - 1

\* The next entry of the innermost directory.
Visited(s, n) ==
    CASE s.scannedEntries > s.maxEntries -> Pop([s EXCEPT !.truncated = TRUE])
      [] s.scannedEntries <= s.maxEntries /\ Kind[n] = "directory" /\ Depth(s) < s.maxDepth ->
           [s EXCEPT !.stage = "descend", !.target = n]
      [] s.scannedEntries <= s.maxEntries /\ Kind[n] = "file" /\ n \in Globbed ->
           IF s.byQuery THEN [s EXCEPT !.stage = "open", !.target = n] ELSE AppendSearchMatch(s, n, 0)
      [] OTHER -> s

Visit ==
    /\ search.stage = "walk" /\ search.frames # <<>> /\ Top(search) # <<>>
    /\ LET n == Head(Top(search))
           s == [search EXCEPT !.scannedEntries = @ + 1,
                    !.frames[Len(search.frames)] = Tail(@)]
       IN  search' = Visited(s, n)
    /\ UNCHANGED <<tree, seen, changes, list, read, patch>>

\* realpath() of a directory: one that is gone is passed over here, while
\* readdir() would make the search fail.
Descend ==
    /\ search.stage = "descend"
    /\ search' = [search EXCEPT !.stage = IF There(search.target) THEN "enter" ELSE "walk"]
    /\ UNCHANGED <<tree, seen, changes, list, read, patch>>

\* realpath(), open() and stat() of a file: one that is gone or may not be
\* opened is passed over without a sign, one that is too long is counted.
OpenSearched ==
    /\ search.stage = "open"
    /\ LET n == search.target
       IN  search' =
             IF ~There(n) \/ ~Opens(n) THEN [search EXCEPT !.stage = "walk"]
             ELSE IF Len(tree[n].bytes) > search.maxFileBytes
             THEN [search EXCEPT !.stage = "walk", !.skippedOversized = @ \cup {n}]
             ELSE [search EXCEPT !.stage = "read", !.opened = tree[n]]
    /\ UNCHANGED <<tree, seen, changes, list, read, patch>>

\* The matches of the first bytes, as many as stat() said there are; what is
\* no text is counted.
AddMatches(s, held) ==
    LET data == SubSeq(held.bytes, 1, Min({Len(s.opened.bytes), Len(held.bytes)}))
        t == [s EXCEPT !.stage = "walk", !.opened = Absent]
    IN  IF IsText(data) THEN AppendAll(t, t.target, DecodeUtf8(data))
        ELSE [t EXCEPT !.skippedBinary = @ \cup {t.target}]

ReadMatches ==
    /\ search.stage = "read"
    /\ \E held \in Held(search.opened, search.target) : search' = AddMatches(search, held)
    /\ UNCHANGED <<tree, seen, changes, list, read, patch>>

Return ==
    /\ search.stage = "walk" /\ search.frames # <<>> /\ Top(search) = <<>>
    /\ search' = Pop(search)
    /\ UNCHANGED <<tree, seen, changes, list, read, patch>>

SearchComplete ==
    /\ search.stage = "walk" /\ search.frames = <<>>
    /\ search' = [search EXCEPT !.stage = "complete"]
    /\ UNCHANGED <<tree, seen, changes, list, read, patch>>

-------------------------------------------------------------------------------
(* The planning of a patch, which the code does without an await *)

PlanPatch(source, edits) ==
    /\ AccessWorkspace
    /\ patch' = [stage |-> "planned", source |-> source, edits |-> edits,
                 result |-> PlanExactPatch(source, edits)]
    /\ UNCHANGED <<list, read, search>>

-------------------------------------------------------------------------------

Request ==
    /\ NoRequest
    /\ \/ \E top \in Places, limit \in Limits : ListFrom(top, limit)
       \/ \E n \in Nodes, limit \in Limits : ReadFrom(n, limit)
       \/ \E top \in Directories, byQuery \in BOOLEAN, results \in MaxResults,
             bytes \in MaxBytes, fileBytes \in MaxFileBytes, depth \in MaxDepths,
             entries \in EntryLimits :
             SearchFrom(top, byQuery, results, bytes, fileBytes, depth, entries)
       \/ \E source \in Sources, edits \in EditLists : PlanPatch(source, edits)

Next ==
    \/ Request
    \/ ListDirectory \/ InspectEntry \/ ListPage \/ NextPage
    \/ OpenToRead \/ ReadRange
    \/ Enter \/ Visit \/ Descend \/ OpenSearched \/ ReadMatches \/ Return \/ SearchComplete
    \/ \E n \in Nodes : ChangeTree(n)

Spec == Init /\ [][Next]_vars

-------------------------------------------------------------------------------
(* Properties *)

Throughout(n) == Absent \notin seen[n]

Steady(n) == Cardinality(seen[n]) = 1
Alone(n) == CHOOSE s \in seen[n] : TRUE

\* The pages of a listing, put together, are in order and name nothing twice;
\* they hold every entry that was there all the time and none that never was
\* (the cursor of list() is the last name, not a position).
PagingComplete ==
    /\ \A i, j \in DOMAIN list.pages : i < j => list.pages[i] < list.pages[j]
    /\ \A i \in DOMAIN list.pages : seen[list.pages[i]] # {Absent}
    /\ list.stage = "complete" =>
          \A n \in Children(Resolved(list.top)) : Throughout(n) => n \in Range(list.pages)

\* The bytes of the byte order marks with which a range begins.
MarksAt(data, starts) ==
    {i \in DOMAIN data : \E s \in starts :
        i \in {s + 1, s + 2} /\ s + 1 \in DOMAIN data /\ data[s + 1] = "mark"}

\* A text is all of the data in its order, but for some of those bytes.
IsAllBut(text, data, lost) ==
    \E place \in [DOMAIN text -> DOMAIN data] :
        /\ \A i, j \in DOMAIN text : i < j => place[i] < place[j]
        /\ \A i \in DOMAIN text : text[i] = data[place[i]]
        /\ DOMAIN data \ Range(place) \subseteq lost

\* The ranges of a file that stayed as it was, put together, are the file, but
\* for byte order marks that a range began with (decodeUtf8() in read()).  A
\* range can be declined as binary only if something in it or cut by it is no
\* ASCII character.
RangesComplete ==
    LET data == Alone(Resolved(read.file)).bytes
    IN  read.stage = "complete" /\ Steady(Resolved(read.file)) =>
            IF read.binary
            THEN \E i \in DOMAIN data : data[i] \notin {"ascii", "hit"}
            ELSE IsAllBut(read.texts, data, MarksAt(data, read.starts))

\* The directories between the searched one and a node, all there throughout,
\* and no deeper than the search goes.
Reached(n) ==
    LET up[k \in 0 .. search.maxDepth + 1] ==
            IF k = 0 THEN n ELSE IF up[k - 1] = Root THEN Root ELSE Parent[up[k - 1]]
    IN  \E k \in 1 .. search.maxDepth + 1 :
            /\ up[k] = search.top
            /\ \A i \in 1 .. k - 1 : up[i] # search.top /\ Throughout(up[i])

\* What a search has to say of a file that is x: its path, or its matches, or
\* that it was skipped.  Of a file that may not be opened it says nothing.
Accounted(s, n, x) ==
    LET long == Len(x.bytes) > s.maxFileBytes
        text == DecodeUtf8(x.bytes)
    IN  /\ ~s.byQuery => <<n, 0>> \in Range(s.matches)
        /\ s.byQuery /\ x.opens /\ long => n \in s.skippedOversized
        /\ s.byQuery /\ x.opens /\ ~long /\ ~IsText(x.bytes) => n \in s.skippedBinary
        /\ s.byQuery /\ x.opens /\ ~long /\ IsText(x.bytes) =>
              \A i \in DOMAIN text : text[i] = "hit" => <<n, i>> \in Range(s.matches)

\* A match that was there at some time of the request.
Real(match) ==
    \E x \in seen[match[1]] \ {Absent} :
        match[2] = 0 \/ (match[2] \in DOMAIN DecodeUtf8(x.bytes) /\ DecodeUtf8(x.bytes)[match[2]] = "hit")

\* The bytes of the first matches, as appendSearchMatch() estimates them.
OutputBytes(matches) ==
    LET bytes[i \in 0 .. Len(matches)] == IF i = 0 THEN 0 ELSE bytes[i - 1] + Cost[matches[i][1]]
    IN  bytes[Len(matches)]

\* A search that does not say it was truncated accounts for every file that
\* stayed as it was: all its matches are there, or it was counted as too long
\* or as binary, unless it may not be opened, which nothing tells (search(),
\* #walkSearch()).  No match was never there and none comes twice; what is
\* returned keeps to maxResults and maxBytes (appendSearchMatch()).
SearchHonest ==
    /\ \A i, j \in DOMAIN search.matches : i # j => search.matches[i] # search.matches[j]
    /\ \A i \in DOMAIN search.matches : Real(search.matches[i])
    /\ search.stage # "none" => /\ Len(search.matches) <= search.maxResults
                                /\ OutputBytes(search.matches) <= search.maxBytes
    /\ search.stage = "complete" /\ ~search.truncated =>
          \A n \in Globbed : Steady(n) /\ Throughout(n) /\ Reached(n) => Accounted(search, n, Alone(n))

\* planExactPatch() refuses a patch unless every edit's text occurs exactly
\* once and no two overlap; otherwise the new text is the old one with each
\* edit's text replaced and nothing else.
PatchMatchesReference ==
    patch.stage = "planned" => PatchIsExact(patch.source, patch.edits, patch.result)
================================================================================
