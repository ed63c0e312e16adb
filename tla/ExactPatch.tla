------------------------------ MODULE ExactPatch ------------------------------
(***************************************************************************)
(* The text operations of packages/filesystem/src/index.ts: the scan that  *)
(* file_patch makes for a literal text, the planner of                     *)
(* exact edits and their application.  A text is a sequence of characters; *)
(* offsets count from 0, as in the code.                                   *)
(***************************************************************************)
EXTENDS Integers, Sequences, FiniteSets, FiniteSetsExt, SequencesExt

Starts(source, expected) ==
    {i \in 0 .. Len(source) - Len(expected) :
        SubSeq(source, i + 1, i + Len(expected)) = expected}

\* String.prototype.indexOf(expected, from)
IndexOf(source, expected, from) ==
    LET found == {i \in Starts(source, expected) : i >= from}
    IN  IF found = {} THEN -1 ELSE Min(found)

\* The loop of the scan: look, record, go on `step' characters later.
Scan(source, expected, step) ==
    LET scan[from \in 0 .. Len(source) + step] ==
            LET found == IndexOf(source, expected, from)
            IN  IF found < 0 THEN <<>> ELSE <<found>> \o scan[found + step]
    IN  scan[0]

\* Mutant: the scan goes on behind an occurrence.
FindAllOccurrencesApart(source, expected) == Scan(source, expected, Len(expected))

\* Overlapping occurrences count, so that `aa' is ambiguous in `aaa'.
FindAllOccurrences(source, expected) == Scan(source, expected, 1)

-------------------------------------------------------------------------------

Conflict(reason, editIndex) == [kind |-> "conflict", reason |-> reason, editIndex |-> editIndex]

\* The first edit in the request's order whose text does not occur exactly once.
Misplaced(source, edits) ==
    {k \in DOMAIN edits : Len(FindAllOccurrences(source, edits[k].oldText)) # 1}

\* Where the edits go, by their starts; a stable sort leaves equals in the
\* request's order.
Plan(source, edits, k) ==
    LET start == FindAllOccurrences(source, edits[k].oldText)[1]
    IN  [editIndex |-> k, start |-> start,
         end |-> start + Len(edits[k].oldText), newText |-> edits[k].newText]

Before(e, f) == e.start < f.start \/ (e.start = f.start /\ e.editIndex < f.editIndex)

Planned(source, edits) ==
    LET plans == {Plan(source, edits, k) : k \in DOMAIN edits}
    IN  CHOOSE ordered \in [DOMAIN edits -> plans] :
            Range(ordered) = plans /\ \A i, j \in DOMAIN edits : i < j => Before(ordered[i], ordered[j])

Overlapping(ordered) == {k \in 2 .. Len(ordered) : ordered[k].start < ordered[k - 1].end}

\* Copy up to each edit, put its new text, go on behind its old text.
ApplyPlannedPatch(source, ordered) ==
    LET copied(k) == SubSeq(source, (IF k = 1 THEN 0 ELSE ordered[k - 1].end) + 1, ordered[k].start)
    IN  FlattenSeq([k \in DOMAIN ordered |-> copied(k) \o ordered[k].newText])
          \o SubSeq(source, Last(ordered).end + 1, Len(source))

PlanExactPatch(source, edits) ==
    IF Misplaced(source, edits) # {}
    THEN LET k == Min(Misplaced(source, edits))
         IN  Conflict(IF FindAllOccurrences(source, edits[k].oldText) = <<>>
                      THEN "expected_text_not_found" ELSE "ambiguous_match", k)
    ELSE LET ordered == Planned(source, edits)
         IN  IF Overlapping(ordered) # {}
             THEN Conflict("overlapping_edits", ordered[Min(Overlapping(ordered))].editIndex)
             ELSE [kind |-> "patched", content |-> ApplyPlannedPatch(source, ordered)]

-------------------------------------------------------------------------------
(* What a patch should be, position by position and in no order of edits.  *)

Spanned(e, at, i) == at <= i /\ i < at + Len(e.oldText)

\* Every edit has one place, and no character belongs to two of them.
Applicable(source, edits) ==
    /\ \A k \in DOMAIN edits : Cardinality(Starts(source, edits[k].oldText)) = 1
    /\ \A i \in 0 .. Len(source) - 1 :
          Cardinality({k \in DOMAIN edits :
              \E at \in Starts(source, edits[k].oldText) : Spanned(edits[k], at, i)}) <= 1

\* Each character is kept unless an edit spans it; the first one an edit spans
\* is replaced by the edit's new text.
ExpectedContent(source, edits) ==
    LET begun(i)   == {k \in DOMAIN edits : i \in Starts(source, edits[k].oldText)}
        spanned(i) == \E k \in DOMAIN edits : \E at \in Starts(source, edits[k].oldText) :
                          Spanned(edits[k], at, i)
        piece(i)   == IF begun(i) # {} THEN edits[CHOOSE k \in begun(i) : TRUE].newText
                      ELSE IF spanned(i) THEN <<>> ELSE <<source[i + 1]>>
    IN  FlattenSeq([j \in 1 .. Len(source) |-> piece(j - 1)])

\* The planner refuses exactly the patches that are not applicable.
PatchIsExact(source, edits, result) ==
    IF Applicable(source, edits)
    THEN result = [kind |-> "patched", content |-> ExpectedContent(source, edits)]
    ELSE result.kind = "conflict"
================================================================================
