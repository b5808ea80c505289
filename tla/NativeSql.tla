------------------------------ MODULE NativeSql ------------------------------
(***************************************************************************)
(* What native SQL answers, over whole numbers and sets: the abstract      *)
(* specification the resident operators are checked against.  A table is a *)
(* sequence of rows [k, v, i, f], NoCell for NULL, f a double's bits.      *)
(* Nothing here mentions words, bitmaps, widths, sorts or homes.           *)
(***************************************************************************)
EXTENDS ExactValues

\* The number a double's bits stand for, scaled; NaN greater than all.
Real(bits) ==
    LET u == bits % W
        magnitude == IF Exponent(u) = 0 THEN Mantissa(u)
                     ELSE (ManSpan + Mantissa(u)) * 2 ^ (Exponent(u) - 1)
    IN  IF IsNan(bits) THEN 1000 * W
        ELSE IF u >= W \div 2 THEN -magnitude ELSE magnitude

\* ---- WHERE -----------------------------------------------------------------
Holds(row, t) ==
    LET x == row[t.lane]
        Value(y) == IF t.lane = "f" THEN Real(y) ELSE y
    IN  CASE t.op = "IsNull" -> x = NoCell
          [] t.op = "IsNotNull" -> x # NoCell
          [] t.op = "In" -> x # NoCell /\ \E y \in ToSet(t.list) : Value(x) = Value(y)
          [] OTHER -> x # NoCell /\ Compare(t.op, Value(x), Value(t.value))
Kept(table, where) == {n \in DOMAIN table : \A t \in ToSet(where) : Holds(table[n], t)}

\* ---- aggregates of the rows ns over a column -----------------------------------
NativeAggregate(table, ns, column) ==
    LET values == {n \in ns : table[n][column] # NoCell}
        cells == {table[n][column] : n \in values}
    IN  [counts |-> Cardinality(values),
         sums |-> IF values = {} THEN NoCell
                  ELSE MapThenSumSet(LAMBDA n : table[n][column], values),
         mins |-> IF values = {} THEN NoCell ELSE Min(cells),
         maxs |-> IF values = {} THEN NoCell ELSE Max(cells)]
\* GROUP BY k: one record per group, one aggregate per payload column.
NativeGroups(table, where, columns) ==
    LET kept == Kept(table, where)
        Of(k) == {n \in kept : table[n].k = k}
    IN  {[keys |-> k, stars |-> Cardinality(Of(k)),
          pays |-> [p \in DOMAIN columns |-> NativeAggregate(table, Of(k), columns[p])]]
            : k \in {table[n].k : n \in kept}}

\* ---- HAVING, ORDER BY agg NULLS LAST LIMIT k -------------------------------------
FilterValue(g, f, p) ==
    CASE f.agg = "Sum" -> g.pays[p].sums [] f.agg = "Min" -> g.pays[p].mins
      [] f.agg = "Max" -> g.pays[p].maxs [] f.agg = "CountV" -> g.pays[p].counts
      [] f.agg = "CountStar" -> g.stars
Survives(g, f, p) ==
    LET x == FilterValue(g, f, p)
    IN  f.cmp = "None" \/ (x # NoCell /\ Compare(f.cmp, x, f.threshold))
Ahead(g, h, f, p) ==
    LET x == FilterValue(g, f, p)  y == FilterValue(h, f, p)
    IN  x # NoCell /\ (y = NoCell \/ IF f.desc THEN x > y ELSE x < y)
KeyAscending(a, b) == a # NoCell /\ (b = NoCell \/ a < b)
\* answer, a sequence of groups, is one native may give for the groups gs.
IsAnswer(answer, gs, f, p) ==
    LET kept == {g \in gs : Survives(g, f, p)}
        size == IF f.topk = 0 THEN Cardinality(kept) ELSE Min({f.topk, Cardinality(kept)})
    IN  /\ Len(answer) = size
        /\ ToSet(answer) \subseteq kept
        /\ \A i, j \in DOMAIN answer : i < j =>
              /\ answer[i] # answer[j]
              /\ IF f.topk = 0 THEN KeyAscending(answer[i].keys, answer[j].keys)
                 ELSE ~Ahead(answer[j], answer[i], f, p)
        /\ \A g \in kept \ ToSet(answer), i \in DOMAIN answer : ~Ahead(g, answer[i], f, p)

\* ORDER BY column LIMIT k over a column without NULLs: the rows idx.
IsRanking(table, column, isdouble, k, desc, idx) ==
    LET Value(n) == IF isdouble THEN Real(table[n][column]) ELSE table[n][column]
        Before(a, b) == IF desc THEN Value(a) > Value(b) ELSE Value(a) < Value(b)
    IN  /\ Len(idx) = Min({k, Len(table)})
        /\ ToSet(idx) \subseteq DOMAIN table
        /\ \A i, j \in DOMAIN idx : i < j => idx[i] # idx[j] /\ ~Before(idx[j], idx[i])
        /\ \A r \in DOMAIN table \ ToSet(idx) : \A j \in DOMAIN idx : ~Before(r, idx[j])

\* ---- joins on probe.k = build.k ------------------------------------------------------
Meets(probe, build, n, b) == probe[n].k # NoCell /\ probe[n].k = build[b].k
NativePairs(probe, build, kind) ==
    LET met == {m \in (DOMAIN probe) \X (DOMAIN build) : Meets(probe, build, m[1], m[2])}
        with == {m[1] : m \in met}
    IN  CASE kind = "INNER" -> met
          [] kind = "LEFT" -> met \cup {<<n, 0>> : n \in DOMAIN probe \ with}
          [] kind = "SEMI" -> {<<n, 0>> : n \in with}
          [] kind = "ANTI" -> {<<n, 0>> : n \in DOMAIN probe \ with}
\* gpu_inner_join over two lists of keys: every probe row that has one with its
\* first build row.
FirstPairs(probe, build) ==
    {m \in (DOMAIN probe) \X (DOMAIN build) :
        build[m[2]] = probe[m[1]] /\ \A e \in 1..(m[2] - 1) : build[e] # probe[m[1]]}
\* The table of a join: the build's v is the key, the rest is the probe's.
JoinedTable(probe, build) ==
    LET met == NativePairs(probe, build, "INNER")
        pairs == InOrder(met, LAMBDA a, b : a[1] < b[1] \/ (a[1] = b[1] /\ a[2] < b[2]))
    IN  [j \in DOMAIN pairs |-> [probe[pairs[j][1]] EXCEPT !.k = build[pairs[j][2]].v]]
=============================================================================
