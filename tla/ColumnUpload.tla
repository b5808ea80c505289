----------------------------- MODULE ColumnUpload -----------------------------
(***************************************************************************)
(* How the rows of an exact upload reach the device                        *)
(* (src/extension/gpu_resident.cpp): the aggregate's states buffer what    *)
(* their update calls deliver in segments, combine appends one buffer to   *)
(* another, and finish hands spans of rows to the planner.  A column       *)
(* upload also places every row at the rank of its row id, so that columns *)
(* uploaded by different scans stay row-aligned.  Strings are left out;    *)
(* the bytes the buffers charge are UploadPool's.                          *)
(***************************************************************************)
EXTENDS CpuOperators

CONSTANT SegmentRows   \* rows of one segment (kLanes / lanes per row)

ASSUME SegmentAssumption == SegmentRows \in Nat \ {0}

\* ---- the exact uploads of rows -----------------------------------------------
\* A state's segments in the order they filled (reserve_lanes), each span where
\* the last one ended.
Segments(rows) ==
    LET n == (Len(rows) + SegmentRows - 1) \div SegmentRows
        Upto(s) == Min({s * SegmentRows, Len(rows)})
    IN  [s \in 1..n |-> SubSeq(rows, (s - 1) * SegmentRows + 1, Upto(s))]
ViewSpans(rows) ==
    LET segs == Segments(rows) IN [s \in DOMAIN segs |-> [dst |-> 0, rows |-> segs[s]]]

\* ---- a state's buffer of a column upload ------------------------------------------
\* A row is [id, cells].  A chunk is the rows of one update call that lie in
\* one segment; fill counts the rows of the open segment.
NoBuffer == [chunks |-> <<>>, call |-> 0, fill |-> 0, unordered |-> FALSE]
AppendRow(b, call, row) ==
    LET full == b.fill \in {0, SegmentRows}
        opens == full \/ b.call # call
        back == ~opens /\ row.id <= Last(Last(b.chunks)).id
    IN  [call |-> call, fill |-> IF full THEN 1 ELSE b.fill + 1,
         unordered |-> b.unordered \/ back,
         chunks |-> IF opens THEN Append(b.chunks, <<row>>)
                    ELSE Append(Front(b.chunks), Append(Last(b.chunks), row))]
\* upload_columns_update, row by row, and the calls of a state.
Updated(b, call, rows) == FoldLeft(LAMBDA a, row : AppendRow(a, call, row), b, rows)
Delivered(calls) ==
    FoldLeft(LAMBDA b, c : Updated(b, c, calls[c]), NoBuffer, [c \in DOMAIN calls |-> c])
Merge_KeepsTarget(a, b) == [a EXCEPT !.chunks = @ \o b.chunks]
\* upload_combine, and session_append for the segments of a session.
Merge(a, b) == [a EXCEPT !.chunks = @ \o b.chunks, !.unordered = @ \/ b.unordered]
Buffered(scan) == FoldLeft(LAMBDA b, calls : Merge(b, Delivered(calls)), NoBuffer, scan)

\* ---- finish_upload_columns -----------------------------------------------------------
FirstId(c) == Head(c).id
LastId(c) == Last(c).id
\* The positions of ids, by id and then by position.
Stable(ids) == InOrder(DOMAIN ids, LAMBDA a, b : ids[a] < ids[b] \/ (ids[a] = ids[b] /\ a < b))
ByFirst(chunks) ==
    LET order == Stable([c \in DOMAIN chunks |-> FirstId(chunks[c])])
    IN  [c \in DOMAIN order |-> chunks[order[c]]]
\* The chunks cannot be laid end to end: a row went backwards inside one, or
\* two cover the same row ids.
MustPlace(b) ==
    LET chunks == ByFirst(b.chunks)
    IN  b.unordered \/ \E c \in 2..Len(chunks) : FirstId(chunks[c]) <= LastId(chunks[c - 1])
\* Sequences of rows end to end, as spans with their destination.
EndToEnd(parts) ==
    [c \in DOMAIN parts |->
        [dst |-> 1 + Total([p \in 1..(c - 1) |-> Len(parts[p])]),
         rows |-> [r \in DOMAIN parts[c] |-> parts[c][r].cells]]]
\* The placed path: dense row ids take a slot each, sparse ones are sorted;
\* the rank is the same.
RowsOf(b) == FoldLeft(\o, <<>>, b.chunks)
ByRowId(rows) ==
    LET order == Stable([r \in DOMAIN rows |-> rows[r].id])
    IN  [r \in DOMAIN order |-> rows[order[r]]]
Duplicate(rows) == \E a, b \in DOMAIN rows : a # b /\ rows[a].id = rows[b].id
Placement(b) ==
    IF ~MustPlace(b) THEN [err |-> "", spans |-> EndToEnd(ByFirst(b.chunks))]
    ELSE IF Duplicate(RowsOf(b)) THEN [err |-> "duplicate row id", spans |-> <<>>]
    ELSE [err |-> "", spans |-> EndToEnd(Segments(ByRowId(RowsOf(b))))]
=============================================================================
