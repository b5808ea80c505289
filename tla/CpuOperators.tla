----------------------------- MODULE CpuOperators -----------------------------
(***************************************************************************)
(* The operators of the CPU backend, which the repository calls the        *)
(* executable reference (src/backends/cpu/cpu_aggregator.cpp), and the     *)
(* payload fan-out every backend shares (src/backends/multi_fanout.hpp).   *)
(* Each operator is a pure function of its columns; the checks that make   *)
(* it throw come in the order of the code.  A sort followed by a scan of   *)
(* its runs is the ascending sequence of the keys it met.                  *)
(***************************************************************************)
EXTENDS ExactValues

\* ---- uploads -------------------------------------------------------------
\* A span: rows of cells and the first row it is written to, 0 for "where the
\* last one ended" (kNext).
Total(ns) == FoldLeft(LAMBDA s, x : s + x, 0, ns)
SpanRows(spans) == Total([s \in DOMAIN spans |-> Len(spans[s].rows)])
SpanStart(spans, s) ==
    FoldLeft(LAMBDA next, j : (IF spans[j].dst = 0 THEN next ELSE spans[j].dst)
                              + (IF j = s THEN 0 ELSE Len(spans[j].rows)),
             1, [j \in 1..s |-> j])
UploadRows(spans, dtypes) ==
    LET n == SpanRows(spans)
        start == [s \in DOMAIN spans |-> SpanStart(spans, s)]
        \* the last span that wrote row d; a row no span wrote keeps its 0
        Writer(d) == {s \in DOMAIN spans : d \in start[s]..(start[s] + Len(spans[s].rows) - 1)}
        At(d, l) == IF Writer(d) = {} THEN 0
                    ELSE LET s == Max(Writer(d)) IN spans[s].rows[d - start[s] + 1][l]
    IN  IF dtypes = <<>> THEN [err |-> "no lanes", lanes |-> <<>>]
        ELSE IF dtypes[1] # "i64" THEN [err |-> "key lane", lanes |-> <<>>]
        ELSE IF \E s \in DOMAIN spans : \E r \in DOMAIN spans[s].rows :
                    Len(spans[s].rows[r]) # Len(dtypes)
             THEN [err |-> "lane count", lanes |-> <<>>]
        ELSE IF \E s \in DOMAIN spans : start[s] + Len(spans[s].rows) - 1 > n
             THEN [err |-> "span destination", lanes |-> <<>>]
        ELSE [err |-> "",
              lanes |-> [l \in DOMAIN dtypes |->
                           HostColumn(dtypes[l], [d \in 1..n |-> At(d, l)])]]

\* ---- GROUP BY --------------------------------------------------------------
\* bind_lane: every valid index cell addresses a row of the column.
Binds(l) ==
    l.index = NoLane \/ \A i \in DOMAIN l.index.data :
        BitAt(l.index.valid, i) => l.index.data[i] \in DOMAIN l.col.data

\* One row added to a group; v is NoLane for a keys-only statement.
AddRow(t, v, i) ==
    LET counted == [t EXCEPT !.star = @ + 1]
        x == Cell(v, i)
    IN  IF v = NoLane THEN [counted EXCEPT !.cnt = @ + 1]
        ELSE IF ~IsValid(v, i) THEN counted
        ELSE [counted EXCEPT !.sum = AddValue(@, x), !.cnt = @ + 1,
                             !.mn = Min({@, x}), !.mx = Max({@, x})]
Rows(n) == [i \in 1..n |-> i]
Reduced(rows, v) == FoldLeft(LAMBDA t, i : AddRow(t, v, i), NoTuple, rows)

\* The groups of the rows kept: keys ascending, the NULL key last.
ByKey(k, v, rows, keys) ==
    [g \in DOMAIN keys |->
        GroupRow(keys[g], FALSE, Reduced(Selected(rows, LAMBDA i : Cell(k, i) = keys[g]), v))]
Valid(k, v, rows) == ByKey(k, v, rows, Rising({Cell(k, i) : i \in ToSet(rows)}))
Null(v, rows) == IF rows = <<>> THEN <<>> ELSE <<GroupRow(0, TRUE, Reduced(rows, v))>>
Grouped(k, v, kept) ==
    Valid(k, v, Selected(kept, LAMBDA i : IsValid(k, i)))
    \o Null(v, Selected(kept, LAMBDA i : ~IsValid(k, i)))
ExactGroups(k, v, preds, f, cap) ==
    LET n == LaneRows(k)
        args == {k} \cup (IF v = NoLane THEN {} ELSE {v})
        tested == {preds[q].lane : q \in DOMAIN preds}
        Unbound(lanes) == \E l \in lanes : ~Binds(l)
        Uneven(lanes) == \E l \in lanes : LaneRows(l) # n
    IN  IF Unbound(args) THEN Refused("index")
        ELSE IF Uneven(args) THEN Refused("row counts")
        ELSE IF n = 0 THEN Answer(<<>>, 0)
        ELSE IF Unbound(tested) THEN Refused("index")
        ELSE IF Uneven(tested) THEN Refused("row counts")
        ELSE Filtered(Grouped(k, v, Selected(Rows(n), LAMBDA i : InMask(preds, i))), f, cap)

\* ---- several payloads of one GROUP BY --------------------------------------
Length(a) == IF a.has = {} THEN 0 ELSE Len(a.rows)
Shared == {"keys", "stars"}
Aligned_ByPosition(prim, full) ==
    IF Len(full.rows) < Len(prim.rows) THEN Refused("missing group")
    ELSE [full EXCEPT !.has = @ \ Shared, !.rows = SubSeq(@, 1, Len(prim.rows))]
\* The survivors' positions in a full pass: keys ascending, the NULL key last.
Aligned(prim, full) ==
    LET Same(r, s) == r.null = s.null /\ (r.null \/ r.key = s.key)
    IN  IF \E r \in ToSet(prim.rows) : \A s \in ToSet(full.rows) : ~Same(r, s)
        THEN Refused("missing group")
        ELSE [full EXCEPT !.has = @ \ Shared,
                          !.rows = [j \in DOMAIN prim.rows |->
                                      CHOOSE s \in ToSet(full.rows) : Same(prim.rows[j], s)]]
\* wants[p] is MultiPayload::columns, cols GroupByFilter::columns.  The payload
\* the filter ranks and the others that are asked for; what each pass computes.
Primary(primary, f) == IF Active(f) THEN primary ELSE 1
OthersAsked(wants, fp) == {p \in DOMAIN wants : p # fp /\ wants[p] # {}}
PassFilter(p, primary, f) == IF p = Primary(primary, f) THEN f ELSE NoFilter
PassWant(p, wants, primary, f, cols) ==
    LET fp == Primary(primary, f)
        own == (wants[p] \ Shared)
               \cup (IF p = fp THEN cols \cap Shared ELSE {})
               \cup (IF Active(f) /\ OthersAsked(wants, fp) # {} THEN {"keys"} ELSE {})
    IN  IF p = fp /\ own = {} THEN {"stars"} ELSE own
\* pass[p] answers payload p alone.  One answer per payload, the shared columns
\* in the primary one.
Fanout(wants, primary, f, cols, pass) ==
    LET fp == Primary(primary, f)
        prim == pass[fp]
        out == [p \in DOMAIN wants |->
                  IF p = fp THEN [prim EXCEPT !.has = IF "keys" \in cols THEN @ ELSE @ \ {"keys"}]
                  ELSE IF p \notin OthersAsked(wants, fp) THEN Answer(<<>>, 0)
                  ELSE IF pass[p].err # "" THEN pass[p]
                  ELSE IF Active(f) THEN Aligned(prim, pass[p])
                  ELSE IF Length(pass[p]) # Length(prim) THEN Refused("group count")
                  ELSE [pass[p] EXCEPT !.has = @ \ Shared]]
        bad == {p \in DOMAIN wants : out[p].err # ""}
    IN  IF wants = <<>> THEN [err |-> "no payloads", out |-> <<>>]
        ELSE IF fp \notin DOMAIN wants THEN [err |-> "filter payload", out |-> <<>>]
        ELSE IF prim.err # "" THEN [err |-> prim.err, out |-> <<>>]
        ELSE IF bad # {} THEN [err |-> out[Min(bad)].err, out |-> <<>>]
        ELSE [err |-> "", out |-> out, shared |-> fp]

\* ---- the aggregate without GROUP BY ------------------------------------------
\* parallel_chunks: one contiguous chunk per worker, combined in order.
Chunks(n, cuts) ==
    LET ends == Rising((cuts \cap 1..(n - 1)) \cup {n})
    IN  [c \in DOMAIN ends |-> [i \in 1..(ends[c] - (IF c = 1 THEN 0 ELSE ends[c - 1])) |->
                                  i + (IF c = 1 THEN 0 ELSE ends[c - 1])]]
Combined_NoCarry(a, b) ==
    [sum |-> AddSums_NoCarry(a.sum, b.sum), cnt |-> a.cnt + b.cnt, star |-> a.star + b.star,
     mn |-> Min({a.mn, b.mn}), mx |-> Max({a.mx, b.mx})]
Combined(a, b) ==
    [sum |-> AddSums(a.sum, b.sum), cnt |-> a.cnt + b.cnt, star |-> a.star + b.star,
     mn |-> Min({a.mn, b.mn}), mx |-> Max({a.mx, b.mx})]
CombineAll(parts) == FoldLeft(Combined, NoTuple, parts)
GlobalAggregate(pays, preds, cuts) ==
    LET lanes == pays \o [q \in DOMAIN preds |-> preds[q].lane]
        n == LaneRows(lanes[1])
        chunks == Chunks(n, cuts)
        Part(p, chunk) == Reduced(Selected(chunk, LAMBDA i : InMask(preds, i)), p)
        OfAll(p) == CombineAll([c \in DOMAIN chunks |-> Part(p, chunks[c])])
    IN  IF lanes = <<>> THEN [err |-> "nothing to aggregate", pays |-> <<>>, star |-> 0]
        ELSE IF \E l \in ToSet(lanes) : ~Binds(l) THEN [err |-> "index", pays |-> <<>>, star |-> 0]
        ELSE IF \E l \in ToSet(lanes) : LaneRows(l) # n THEN [err |-> "row counts", pays |-> <<>>, star |-> 0]
        ELSE IF n = 0 THEN [err |-> "", pays |-> [p \in DOMAIN pays |-> Finished(NoTuple)], star |-> 0]
        ELSE [err |-> "", pays |-> [p \in DOMAIN pays |-> Finished(OfAll(pays[p]))],
              star |-> OfAll(NoLane).star]

\* ---- joins ---------------------------------------------------------------------
\* The rows of the join in output order: probe rows whose key matched, those
\* with a NULL output key last; build is the matched row, cls 1 or 2.
BuildRow(build, x) == CHOOSE b \in DOMAIN build.data : BitAt(build.valid, b) /\ build.data[b] = x
Unique(build) ==
    \A a, b \in DOMAIN build.data :
        BitAt(build.valid, a) /\ BitAt(build.valid, b) /\ build.data[a] = build.data[b] => a = b
\* The source row of an output lane for probe row i.
SideRow(l, i, b) == IF l.from_build THEN b ELSE i
Matches(probe, build, keylane) ==
    LET hits == Selected(Rows(LaneRows(probe)), LAMBDA i : IsValid(probe, i) /\
                    \E b \in DOMAIN build.data : BitAt(build.valid, b) /\ build.data[b] = Cell(probe, i))
        all == [j \in DOMAIN hits |-> [probe |-> hits[j], build |-> BuildRow(build, Cell(probe, hits[j]))]]
        KeyOk(m) == IsValid(keylane.lane, SideRow(keylane, m.probe, m.build))
    IN  [first |-> Selected(all, KeyOk), last |-> Selected(all, LAMBDA m : ~KeyOk(m))]
\* One gathered lane: a NULL cell stores 0.
Gathered(rows, l) ==
    LET At(j) == SideRow(l, rows[j].probe, rows[j].build)
    IN  HostColumn(l.lane.col.dtype,
                   [j \in DOMAIN rows |-> IF IsValid(l.lane, At(j)) THEN Cell(l.lane, At(j)) ELSE NoCell])
SideFits(l, probe, build) ==
    LaneRows(l.lane) = (IF l.from_build THEN Len(build.data) ELSE LaneRows(probe))
NoJoin(why) == [err |-> why, lanes |-> <<>>, nulls |-> 0]

JoinMaterialize(probe, build, out) ==
    LET m == Matches(probe, build, out[1])
        rows == m.first \o m.last
    IN  IF out = <<>> THEN NoJoin("no output lanes")
        ELSE IF \E l \in ToSet(out) : ~SideFits(l, probe, build) THEN NoJoin("row counts")
        ELSE IF out[1].lane.col.dtype # "i64" THEN NoJoin("key lane")
        ELSE IF ~Unique(build) THEN NoJoin("not unique")
        ELSE [err |-> "", lanes |-> [l \in DOMAIN out |-> Gathered(rows, out[l])],
              nulls |-> Len(m.last)]

\* ---- top-k rows --------------------------------------------------------------------
Precedes_Raw(col, desc, a, b) ==
    IF desc THEN col.data[a] > col.data[b] ELSE col.data[a] < col.data[b]
Precedes(col, desc, a, b) ==
    LET Key(i) == IF col.dtype = "f64" THEN OrderKey(col.data[i]) ELSE col.data[i]
    IN  IF desc THEN Key(a) > Key(b) ELSE Key(a) < Key(b)
\* partial_sort leaves the order of equal cells open; here the earlier row.
TopK(col, k, desc) ==
    SubSeq(InOrder(DOMAIN col.data, LAMBDA a, b : \/ Precedes(col, desc, a, b)
                                                  \/ ~Precedes(col, desc, b, a) /\ a < b),
           1, Min({k, Len(col.data)}))

\* ---- the operators before the exact path: 64-bit wrapping sums, no NULLs ---------------
\* check_i64: a column that carries NULLs is refused.
Plain(col) == col.dtype = "i64" /\ NullCount(col) = 0
LegacyOrder_FullSums(f, vals) == [f EXCEPT !.agg = IF vals = NoLane THEN "CountStar" ELSE "Sum"]
\* HAVING and top-k look at the wrapped sum.
LegacyOrder(f, vals) == [f EXCEPT !.agg = IF vals = NoLane THEN "CountStar" ELSE "Legacy"]
LegacyGroups(keys, vals, f, cap) ==
    LET v == IF vals = NoLane THEN NoLane ELSE Lane(vals, NoLane)
    IN  IF ~Plain(keys) \/ (vals # NoLane /\ ~Plain(vals)) THEN Refused("carries NULL rows")
        ELSE IF vals # NoLane /\ Len(vals.data) # Len(keys.data) THEN Refused("row counts")
        ELSE Filtered(Grouped(Lane(keys, NoLane), v, Rows(Len(keys.data))), LegacyOrder(f, vals), cap)

Multiplier(m, kind) ==
    CASE kind = "INNER" -> m [] kind = "LEFT" -> Max({m, 1})
      [] kind = "SEMI" -> Min({m, 1}) [] kind = "ANTI" -> IF m = 0 THEN 1 ELSE 0
BuildRows(build, x) == Rising({b \in DOMAIN build.data : build.data[b] = x})
JoinSum(probe, pay, build, kind) ==
    LET times == [i \in DOMAIN probe.data |-> Multiplier(Len(BuildRows(build, probe.data[i])), kind)]
    IN  IF ~Plain(probe) \/ ~Plain(pay) \/ ~Plain(build) THEN [err |-> "carries NULL rows"]
        ELSE IF Len(probe.data) # Len(pay.data) THEN [err |-> "row counts"]
        ELSE [err |-> "",
              sum |-> Wrap(Total([i \in DOMAIN times |-> times[i] * pay.data[i]])),
              matched |-> Total(times)]
\* Row pairs in probe order; 0 stands for the absent build row (-1).
JoinRows(probe, build, kind, cap) ==
    LET Of(i) == LET run == BuildRows(build, probe.data[i])
                 IN  IF kind \in {"INNER", "LEFT"} /\ run # <<>> THEN [j \in DOMAIN run |-> <<i, run[j]>>]
                     ELSE IF Multiplier(Len(run), kind) = 1 THEN << <<i, 0>> >> ELSE <<>>
        pairs == FoldLeft(LAMBDA s, i : s \o Of(i), <<>>, Rows(Len(probe.data)))
    IN  IF ~Plain(probe) \/ ~Plain(build) THEN [err |-> "carries NULL rows", pairs |-> <<>>]
        ELSE IF Len(pairs) > cap THEN [err |-> "cap", pairs |-> <<>>]
        ELSE [err |-> "", pairs |-> pairs]

\* gpu_inner_join over two lists: the first build row of every probe row that
\* has one, in probe order (inner_join_i64).
FirstMatches(build, probe) ==
    LET hits == Selected(Rows(Len(probe)), LAMBDA i : \E b \in DOMAIN build : build[b] = probe[i])
    IN  [err |-> "", pairs |-> [j \in DOMAIN hits |->
            <<hits[j], Min({b \in DOMAIN build : build[b] = probe[hits[j]]})>>]]

\* sum, min and max of a column in one pass (run_agg_all_i64).
AggregateAll(col) ==
    [sum |-> Wrap(Total(col.data)), count |-> Len(col.data),
     mn |-> Min({MaxWord} \cup ToSet(col.data)), mx |-> Max({MinWord} \cup ToSet(col.data))]
=============================================================================
