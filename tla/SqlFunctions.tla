----------------------------- MODULE SqlFunctions -----------------------------
(***************************************************************************)
(* The SQL functions over resident sets, each as the pure part of a call:  *)
(* what it checks, which columns it hands to the planner and what DuckDB   *)
(* sees of the answer (src/extension/gpu_groupby_extension.cpp,            *)
(* gpu_join_extension.cpp and the upload and gpu_join_materialize of       *)
(* gpu_resident.cpp).  A statement is a record; its field "op" names the   *)
(* function, "want" the columns DuckDB projects.  ResidentCall has the     *)
(* steps of a call.                                                        *)
(***************************************************************************)
EXTENDS HybridPlanner, ColumnUpload, NativeSql

CONSTANTS
    Nothing,    \* the set of a statement that publishes none
    Narrow      \* words a narrow lane may read as when taken for 8-byte ones

Asked(want) == want \cup (IF want \cap {"sums", "mins", "maxs"} # {} THEN {"counts"} ELSE {})

\* ---- the sets -----------------------------------------------------------------
\* rows is the table the set was made from, kept for the properties.
SetOf(lanes, exact, rows) ==
    [key |-> lanes[1], val |-> lanes[2],
     ints |-> IF Len(lanes) > 2 THEN <<lanes[3]>> ELSE <<>>,
     dbls |-> IF Len(lanes) > 3 THEN <<lanes[4]>> ELSE <<>>,
     exact |-> exact, rows |-> rows]
\* The rows before the exact path carry no NULL: DuckDB filters them.
Sent(s) == IF s.exact THEN s.rows ELSE Selected(s.rows, LAMBDA r : r.k # NoCell /\ r.v # NoCell)
Published(up, exact, rows) ==
    [err |-> up.err, rows |-> <<>>, set |-> IF up.err = "" THEN SetOf(up.lanes, exact, rows) ELSE Nothing]
Exact(r) == <<r.k, r.v, r.i, r.f>>
\* gpu_upload_rows_exact (finish_upload_exact), gpu_upload_pair.
Uploaded(gpu, s) ==
    LET rows == Sent(s)
        spans == ViewSpans([r \in DOMAIN rows |-> IF s.exact THEN Exact(rows[r]) ELSE <<rows[r].k, rows[r].v>>])
    IN  Published(IF s.exact THEN UploadExact(gpu, s.device, spans, <<"i64", "i64", "i64", "f64">>)
                  ELSE UploadPlain(gpu, s.device, spans, <<"i64", s.vdt>>),
                  s.exact, rows)
\* gpu_upload_columns: s.scan has the row numbers each state was handed, call
\* by call; the row-id lane is dropped, the store read as one set.
UploadedColumns(gpu, s) ==
    LET Of(j) == [id |-> j, cells |-> <<j>> \o Exact(s.rows[j])]
        scan == [t \in DOMAIN s.scan |->
                   [c \in DOMAIN s.scan[t] |-> [r \in DOMAIN s.scan[t][c] |-> Of(s.scan[t][c][r])]]]
        placed == Placement(Buffered(scan))
        up == UploadExact(gpu, s.device, placed.spans, <<"i64", "i64", "i64", "i64", "f64">>)
    IN  IF placed.err # "" THEN [err |-> placed.err, rows |-> <<>>, set |-> Nothing]
        ELSE Published([up EXCEPT !.lanes = IF up.err = "" THEN Tail(@) ELSE @], TRUE, s.rows)
\* The upload functions, under one name.
Stores(gpu, s) == IF s.scan = <<>> THEN Uploaded(gpu, s) ELSE UploadedColumns(gpu, s)

\* A lane by its name in the WHERE program or the payload list.
Named(set, l) ==
    CASE l = "k" -> set.key [] l = "v" -> set.val
      [] l = "i" -> set.ints[1] [] l = "f" -> set.dbls[1]
HasLane(set, l) == ~(l = "i" /\ set.ints = <<>>) /\ ~(l = "f" /\ set.dbls = <<>>)
resolve_where(set, where) ==
    [q \in DOMAIN where |-> [lane |-> Lane(Named(set, where[q].lane), NoLane), op |-> where[q].op,
                             value |-> where[q].value, list |-> where[q].list]]
Payloads(set, s) == [p \in DOMAIN s.pays |-> Lane(Named(set, s.pays[p]), NoLane)]

\* ---- what each table function checks before it runs ------------------------
gb_ok(s, set) == set.val.dtype = "i64"
\* An exact set with every lane of the WHERE program (resolve_where).
where_ok(s, set) == set.exact /\ \A t \in ToSet(s.where) : HasLane(set, t.lane)
gx_ok(s, set) == where_ok(s, set) /\ set.key.dtype = "i64" /\ set.val.dtype = "i64"
gm_ok(s, set) ==
    where_ok(s, set) /\ \A l \in ToSet(s.pays) : HasLane(set, l) /\ Named(set, l).dtype = "i64"
tk_ok(s, set) == set.val.dtype = s.vdt
join_ok(s, probe, build) == probe.exact /\ build.exact
Checked(s, h) ==
    CASE s.op = "upload" -> TRUE
      [] s.op = "groups" -> gx_ok(s, h[1])
      [] s.op \in {"multi", "global"} -> gm_ok(s, h[1])
      [] s.op = "topk" -> tk_ok(s, h[1])
      [] s.op = "plain" -> gb_ok(s, h[1])
      [] s.op = "scalar" -> h[1].val.dtype = "i64"
      [] s.op = "join" -> join_ok(s, h[1], h[2])
      [] s.op \in {"joinrows", "joinsum", "inner"} -> TRUE
\* The columns a statement hands to the planner.
Columns(s, h) ==
    CASE s.op \in {"groups", "multi", "global"} ->
            (IF s.op = "global" THEN {} ELSE {h[1].key})
            \cup {Named(h[1], l) : l \in ToSet(s.pays) \cup {t.lane : t \in ToSet(s.where)}}
      [] s.op \in {"topk", "scalar"} -> {h[1].val}
      [] s.op = "plain" -> {h[1].key, h[1].val}
      [] s.op = "join" -> {h[1].key, h[1].val, h[2].key, h[2].val}
      [] s.op = "joinrows" -> {h[1].key, h[2].key}
      [] s.op = "joinsum" -> {h[1].key, h[1].val, h[2].key}

\* ---- what a result looks like to DuckDB ---------------------------------------------
\* sum, min and max are NULL where count(v) is 0; a vector the backend left
\* empty shows as Unread.
ShownKey(r) == IF r.null THEN NoCell ELSE r.key
ShownPay(r, want) ==
    [c \in want |->
        IF c = "counts" THEN r.cnt
        ELSE IF r.cnt = 0 THEN NoCell
        ELSE CASE c = "sums" -> IF r.sum = Unread THEN Unread ELSE Number(r.sum)
               [] c = "mins" -> r.mn
               [] c = "maxs" -> r.mx]
Cols(want) == want \ {"keys", "stars"}
Reply(err, rows) == [err |-> err, rows |-> rows, set |-> Nothing]
\* As many rows as the longest vector the backend filled.
gx_function(a, want) ==
    Reply(a.err, [j \in 1..Length(a) |->
        [keys |-> IF "keys" \in want THEN ShownKey(a.rows[j]) ELSE Unread,
         stars |-> IF "stars" \in want THEN a.rows[j].star ELSE Unread,
         pays |-> <<ShownPay(a.rows[j], Cols(want))>>]])
\* The shared columns come from the primary payload's answer.
gm_rows(fan, s) ==
    LET n == Max({0} \cup {Length(fan.out[p]) : p \in DOMAIN fan.out})
        prim == fan.out[fan.shared]
    IN  [j \in 1..n |->
          [keys |-> IF "keys" \in s.want THEN ShownKey(prim.rows[j]) ELSE Unread,
           stars |-> IF "stars" \in s.want THEN prim.rows[j].star ELSE Unread,
           pays |-> [p \in DOMAIN fan.out |->
                       IF s.wants[p] = {} THEN <<>> ELSE ShownPay(fan.out[p].rows[j], s.wants[p])]]]
gm_function(fan, s) == Reply(fan.err, IF fan.err = "" THEN gm_rows(fan, s) ELSE <<>>)
gg_function(a, want) ==
    Reply(a.err, <<[stars |-> a.star, pays |-> [p \in DOMAIN a.pays |-> ShownPay(a.pays[p], Cols(want))]]>>)
tk_function(col, a) == Reply(a.err, [j \in DOMAIN a.idx |-> <<a.idx[j], col.data[a.idx[j]]>>])
gb_function(a) ==
    Reply(a.err, [j \in DOMAIN a.rows |-> <<a.rows[j].key, Wrap(a.rows[j].sum.lo), a.rows[j].cnt>>])
scalar_function(a) == Reply(a.err, <<<<a.sum, a.mn, a.mx>>>>)
join_sum_function(a) == Reply(a.err, IF a.err = "" THEN <<<<a.sum, a.matched>>>> ELSE <<>>)
rows_function(a) == Reply(a.err, a.pairs)

\* ---- the call under the lock -------------------------------------------------------
\* join_materialize: key from the build side's payload, the rest from the probe.
JoinOut(p, b) ==
    LET From(col, side) == [lane |-> Lane(col, NoLane), from_build |-> side]
    IN  <<From(b.val, TRUE), From(p.val, FALSE), From(p.ints[1], FALSE), From(p.dbls[1], FALSE)>>
Answered(s, h, narrow) ==
    LET key == Lane(h[1].key, NoLane)
        preds == resolve_where(h[1], s.where)
        primary == IF Active(s.f) THEN s.primary ELSE 1
    IN  CASE s.op = "groups" ->
              gx_function(Groups(key, Lane(h[1].val, NoLane), preds, s.f, s.cap, Asked(s.want)), s.want)
          [] s.op = "multi" ->
              gm_function(GroupsOfMany(key, Payloads(h[1], s), preds, s.f, s.cap,
                                       [p \in DOMAIN s.wants |-> Asked(s.wants[p])],
                                       primary, s.want \cap Shared), s)
          [] s.op = "global" -> gg_function(Global(Payloads(h[1], s), preds, s.cuts), s.want)
          [] s.op = "topk" -> tk_function(h[1].val, TopRows(h[1].val, s.k, s.desc))
          [] s.op = "plain" -> gb_function(PlainGroups(h[1].key, h[1].val, s.f, s.cap, narrow))
          [] s.op = "scalar" -> scalar_function(AggregateOf(h[1].val, narrow))
          [] s.op = "joinrows" -> rows_function(RowsOfJoin(h[1].key, h[2].key, s.kind, s.cap))
          [] s.op = "joinsum" -> join_sum_function(SumOfJoin(h[1].key, h[1].val, h[2].key, s.kind))
\* join_materialize_exec: the lanes of the join become a set.
Materialized(h) ==
    Published(Joined(h[1].key, h[2].key, JoinOut(h[1], h[2])), TRUE, JoinedTable(h[1].rows, h[2].rows))

\* ---- a call as ResidentCall takes it ------------------------------------------------
\* What bind refuses.  A statement with top-k asks for f.topk rows, and for
\* fewer than one where that is negative; 0 stands for none.
BindOk(s) ==
    /\ s.op \in {"groups", "multi", "plain"} => s.f.topk >= 0
    /\ s.op \in {"multi", "global"} => ToSet(s.pays) \subseteq {"v", "i"}
    /\ s.op = "multi" => Len(s.pays) \in 1..8 /\ (Active(s.f) => s.primary \in DOMAIN s.pays)
    /\ s.op = "global" => Len(s.pays) <= 8
    /\ s.op = "topk" => s.k >= 0
\* No column, or columns of two sides; gpu_inner_join reads no column.
TwoSided(s, h) == s.op # "inner" /\ (Columns(s, h) = {} \/ ~OneSide(Columns(s, h)))
DecisionOf(gpu, s, h) ==
    LET col == CHOOSE col \in Columns(s, h) : TRUE
    IN  IF s.op = "scalar" THEN ScalarDecision(gpu, col) ELSE HomeDecision(gpu, col.home)
\* The narrow words matter to the operators that do not look at the width.
Words(s, h) == IF s.op \in {"plain", "scalar"} /\ h[1].val.width # 8 THEN Narrow ELSE {<<>>}
Answers(gpu, s, h) ==
    CASE s.op = "join" -> {Materialized(h)}
      [] s.op = "inner" -> {rows_function(ListJoin(gpu, s.build, s.probe))}
      [] OTHER -> {Answered(s, h, n) : n \in Words(s, h)}
===============================================================================
