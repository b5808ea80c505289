---------------------------- MODULE CudaOperators ----------------------------
(***************************************************************************)
(* The operators of the CUDA backend: the host code that drives them       *)
(* (src/backends/cuda/cuda_aggregator.cpp) and the kernels they launch     *)
(* (src/backends/cuda/kernels/exact_kernel.cu, join_kernel.cu).  Lanes are *)
(* stored at the narrowest width that holds their values; a column keeps a *)
(* cache of its sorted keys; a reduction combines its rows in an order     *)
(* nobody chose, here two interleaved halves.  CUB's scans, selections and *)
(* sorts are external: what they compute is taken from their contracts.    *)
(***************************************************************************)
EXTENDS CpuOperators

CONSTANTS
    DirectMax,  \* kDirectMaxGroups: distinct keys the direct reduce serves
    SelectShare,    \* top-k by selection when it keeps at most 1/8 of the groups
    Replicas,   \* private accumulators of a block in the direct reduce
    MinCap,     \* kMinCap: the smallest hash table
    MaxCap      \* kMaxCap: the largest

ASSUME DeviceAssumption ==
    /\ DirectMax \in Nat /\ SelectShare \in Nat /\ Replicas \in Nat \ {0}
    /\ {MinCap, MaxCap} \subseteq {2 ^ e : e \in 1..28}

\* ---- storage ---------------------------------------------------------------
\* stw and ldw: the low bytes are kept, and read back sign-extended.
Stored(x, width) == x % Span(width)
Load_ZeroExtended(col, i) == col.data[i]
Load(col, i) == IF col.dtype = "f64" THEN col.data[i] ELSE Signed(col.data[i], col.width)
\* gpudb_cuda_lane_width: the narrowest signed width, bounds inclusive.
LaneWidth(vals) ==
    LET Fits(w) == \A i \in DOMAIN vals :
                       vals[i] >= -(Span(w) \div 2) /\ vals[i] <= Span(w) \div 2 - 1
    IN  CHOOSE w \in {1, 2, 4, 8} : /\ w = 8 \/ Fits(w)
                                    /\ \A u \in {1, 2, 4} : u < w => ~Fits(u)
\* finish_exact_upload: the bitmap is dropped when no row is NULL, and an i64
\* lane is packed; packs is FALSE when the second buffer could not be had.
DeviceColumn(dtype, cells, packs) ==
    LET host == HostColumn(dtype, cells)
        w == IF dtype = "i64" /\ cells # <<>> /\ packs THEN LaneWidth(host.data) ELSE 8
    IN  [host EXCEPT !.home = "cuda", !.width = w,
                     !.data = [i \in DOMAIN @ |-> IF w = 8 THEN @[i] ELSE Stored(@[i], w)]]
\* upload_rows_exact: the host's checks, then one scatter per span and lane.
DeviceUpload(spans, dtypes, packs) ==
    LET host == UploadRows(spans, dtypes)
        Cells(col) == [i \in DOMAIN col.data |-> IF BitAt(col.valid, i) THEN col.data[i] ELSE NoCell]
    IN  [host EXCEPT !.lanes = [l \in DOMAIN @ |-> DeviceColumn(@[l].dtype, Cells(@[l]), packs)]]

\* A stored lane as the kernels read it, cell by cell.
Wide(col) == [col EXCEPT !.data = [i \in DOMAIN @ |-> Load(col, i)]]
Read(col) == IF col = NoLane THEN NoLane ELSE Lane(Wide(col), NoLane)

\* ---- the WHERE mask ----------------------------------------------------------
Mask(preds, n) ==
    LET wide == [q \in DOMAIN preds |-> [preds[q] EXCEPT !.lane = Read(@.col)]]
    IN  [i \in 1..n |-> InMask(wide, i)]

\* ---- the tuple of a row and its monoid ------------------------------------------
RowTuple(v, i) == AddRow(NoTuple, v, i)
\* DeviceReduce with AddExact: two halves in place of an unknown order.
DeviceReduce(v, rows) ==
    LET Half(h) == Selected(Rows(Len(rows)), LAMBDA j : j % 2 = h)
        Of(half) == CombineAll([j \in DOMAIN half |-> RowTuple(v, rows[half[j]])])
    IN  Combined(Of(Half(0)), Of(Half(1)))

\* ---- the exact cache: valid rows by key, and the distinct keys -------------------
SortedRows(k) ==
    InOrder({i \in DOMAIN k.data : BitAt(k.valid, i)},
            LAMBDA a, b : \/ Load(k, a) < Load(k, b)
                          \/ Load(k, a) = Load(k, b) /\ a < b)
\* The positions where a run of equal keys starts in a sorted order.
RunStarts(k, sorted) ==
    {p \in DOMAIN sorted : p = 1 \/ Load(k, sorted[p]) # Load(k, sorted[p - 1])}
Cached(k, sorted, runs) ==
    [sorted |-> sorted,
     distinct |-> IF Len(runs) \in 1..DirectMax
                  THEN [g \in DOMAIN runs |-> Load(k, sorted[runs[g]])] ELSE <<>>]
Sorted(k, rows) == Cached(k, rows, Rising(RunStarts(k, rows)))
ExactCache(k) == Sorted(k, SortedRows(k))

\* ---- the two grouped reduces ------------------------------------------------------
\* The runs of equal keys of a sorted order, a sequence of rows each.
RunsOf(k, sorted) ==
    LET starts == Rising(RunStarts(k, sorted))
        End(r) == IF r = Len(starts) THEN Len(sorted) ELSE starts[r + 1] - 1
    IN  [r \in DOMAIN starts |-> SubSeq(sorted, starts[r], End(r))]
\* exact_reduce: one run of the selected sorted positions per group.
SortReduce(k, v, selected) ==
    LET runs == RunsOf(k, selected)
    IN  [r \in DOMAIN runs |-> GroupRow(Load(k, runs[r][1]), FALSE, DeviceReduce(v, runs[r]))]
\* direct_reduce_kernel: every row at the rank of its key, replica by replica.
Rank(distinct, x) == 1 + Cardinality({g \in DOMAIN distinct : distinct[g] < x})
DirectReduce(k, v, mask, distinct) ==
    LET Mine(g, r) == Selected(Rows(Len(k.data)), LAMBDA i :
                          /\ mask[i] /\ BitAt(k.valid, i)
                          /\ Rank(distinct, Load(k, i)) = g /\ i % Replicas = r)
        Folded(g) == CombineAll([r \in 1..Replicas |-> Reduced(Mine(g, r - 1), v)])
    IN  [g \in DOMAIN distinct |-> GroupRow(distinct[g], FALSE, Folded(g))]
\* exact_null_group: the masked rows whose key is NULL.
NullGroup(k, v, mask) ==
    DeviceReduce(v, Selected(Rows(Len(k.data)), LAMBDA i : ~BitAt(k.valid, i) /\ mask[i]))

\* The direct path groups every key of the column; the empty ones go.
Emptied_Kept(rows, masked) == rows
Emptied(rows, masked) == IF masked THEN Selected(rows, LAMBDA r : r.star # 0) ELSE rows

\* exact_common.  k and v are lanes; this backend reads no index.
WithNull(rows, null) == IF null.star = 0 THEN rows ELSE Append(rows, GroupRow(0, TRUE, null))
Reduce(k, v, mask, cache, masked) ==
    WithNull(IF cache.distinct # <<>>
             THEN Emptied(DirectReduce(k, v, mask, cache.distinct), masked)
             ELSE SortReduce(k, v, Selected(cache.sorted, LAMBDA i : mask[i])),
             NullGroup(k, v, mask))
DeviceGroups(k, v, preds, f, cap) ==
    LET n == Len(k.col.data)
        pay == IF v = NoLane THEN NoLane ELSE Read(v.col)
    IN  IF v # NoLane /\ Len(v.col.data) # n THEN Refused("row counts")
        ELSE IF n = 0 THEN Answer(<<>>, 0)
        ELSE IF \E q \in DOMAIN preds : preds[q].lane.index # NoLane THEN Refused("index")
        ELSE IF \E q \in DOMAIN preds : Len(preds[q].lane.col.data) # n THEN Refused("row counts")
        ELSE Filtered(Reduce(k.col, pay, Mask(preds, n), ExactCache(k.col), preds # <<>>), f, cap)

\* ---- the aggregate without GROUP BY ---------------------------------------------------
\* exact_global: one mask for every payload, count(*) from the first.
DeviceGlobal(pays, preds) ==
    LET lanes == pays \o [q \in DOMAIN preds |-> preds[q].lane]
        n == Len(lanes[1].col.data)
        kept == LET mask == Mask(preds, n) IN Selected(Rows(n), LAMBDA i : mask[i])
        Of(p) == DeviceReduce(Read(pays[p].col), kept)
    IN  IF lanes = <<>> THEN [err |-> "nothing to aggregate", pays |-> <<>>, star |-> 0]
        ELSE IF \E l \in ToSet(lanes) : l.index # NoLane THEN [err |-> "index", pays |-> <<>>, star |-> 0]
        ELSE IF \E l \in ToSet(lanes) : Len(l.col.data) # n
             THEN [err |-> "row counts", pays |-> <<>>, star |-> 0]
        ELSE [err |-> "", pays |-> [p \in DOMAIN pays |-> Finished(Of(p))],
              star |-> IF pays = <<>> THEN Len(kept) ELSE Of(1).star]

\* ---- the materialised key join ---------------------------------------------------------
\* join_probe_kernel: the build row of probe row i and its class, 0 for none;
\* the match is the lower bound in the sorted valid keys.
Probe(probe, build, sorted, keylane, i) ==
    LET x == Load(probe, i)
        at == 1 + Cardinality({p \in DOMAIN sorted : Load(build, sorted[p]) < x})
        hit == BitAt(probe.valid, i) /\ at <= Len(sorted) /\ Load(build, sorted[at]) = x
    IN  IF ~hit THEN [cls |-> 0, build |-> 0]
        ELSE [build |-> sorted[at],
              cls |-> IF BitAt(keylane.lane.col.valid, SideRow(keylane, i, sorted[at])) THEN 1 ELSE 2]
\* join_positions_kernel: class 1 from 1, class 2 after the n1 of class 1.
Position_Unshifted(hits, i) == Cardinality({j \in 1..i : hits[j].cls = hits[i].cls})
Position(hits, i) ==
    LET OfClass(c) == Cardinality({j \in 1..i : hits[j].cls = c})
    IN  IF hits[i].cls = 1 THEN OfClass(1)
        ELSE Cardinality({j \in DOMAIN hits : hits[j].cls = 1}) + OfClass(2)
DeviceJoin(probe, build, out, packs) ==
    LET sorted == SortedRows(build)
        hits == [i \in DOMAIN probe.data |-> Probe(probe, build, sorted, out[1], i)]
        n == Cardinality({i \in DOMAIN hits : hits[i].cls # 0})
        \* put_cell: a row writes its position, a NULL cell clears the bit
        Gather(l) == LET src == l.lane.col
                         Cell1(i) == LET s == SideRow(l, i, hits[i].build)
                                     IN  IF BitAt(src.valid, s) THEN Load(src, s) ELSE NoCell
                         From(d) == {i \in DOMAIN hits : hits[i].cls # 0 /\ Position(hits, i) = d}
                     IN  DeviceColumn(src.dtype,
                             [d \in 1..n |-> IF From(d) = {} THEN 0 ELSE Cell1(Max(From(d)))], packs)
        Rows1(l) == IF l.from_build THEN Len(build.data) ELSE Len(probe.data)
    IN  IF out = <<>> THEN NoJoin("no output lanes")
        ELSE IF \E l \in ToSet(out) : l.lane.index # NoLane THEN NoJoin("index")
        ELSE IF \E l \in ToSet(out) : Len(l.lane.col.data) # Rows1(l) THEN NoJoin("row counts")
        ELSE IF out[1].lane.col.dtype # "i64" THEN NoJoin("key lane")
        ELSE IF Cardinality(RunStarts(build, sorted)) # Len(sorted) THEN NoJoin("not unique")
        ELSE [err |-> "", lanes |-> [l \in DOMAIN out |-> Gather(out[l])],
              nulls |-> Cardinality({i \in DOMAIN hits : hits[i].cls = 2})]

\* ---- top-k rows: a slice of the ascending order, reversed for descending -------------------
\* The sort key of a double: no tie between the zeros, -0.0 comes first.
F64OrderKey(bits) ==
    LET u == bits % W
    IN  IF IsNan(bits) THEN W - 1 ELSE IF u >= W \div 2 THEN W - 1 - u ELSE u + W \div 2
\* ensure_sort_cache refuses a lane that is stored narrow.
DeviceTopK(col, k, desc) ==
    LET n == Len(col.data)
        j == Min({k, n})
        Key(i) == IF col.dtype = "f64" THEN F64OrderKey(col.data[i]) ELSE col.data[i]
        sorted == InOrder(DOMAIN col.data,
                          LAMBDA a, b : Key(a) < Key(b) \/ (Key(a) = Key(b) /\ a < b))
        slice == SubSeq(sorted, IF desc THEN n - j + 1 ELSE 1, IF desc THEN n ELSE j)
    IN  IF j = 0 THEN [err |-> "", idx |-> <<>>]
        ELSE IF col.width # 8 THEN [err |-> "stored narrow", idx |-> <<>>]
        ELSE [err |-> "", idx |-> IF desc THEN Reverse(slice) ELSE slice]

\* ---- the operators before the exact path ------------------------------------------------
\* They read 8-byte words.  Of the columns that reach them only the sorted
\* ones are checked for it; over a narrow payload the kernels read the bytes
\* of several rows as one word and run past the buffer, which is left to
\* Narrow, the words they may then find.
LegacyReads(col, Narrow) == IF col.width = 8 THEN col.data ELSE [i \in DOMAIN col.data |-> Narrow[i]]
\* reduce_runs: the words of each run of the sorted keys, added modulo a word;
\* without a payload the aggregate is the count.
ReduceRuns(k, v) ==
    LET runs == RunsOf(k, SortedRows(k))
        Agg(run) == IF v = NoLane THEN Len(run) ELSE Wrap(Total([j \in DOMAIN run |-> v.data[run[j]]]))
    IN  [r \in DOMAIN runs |-> [key |-> Load(k, runs[r][1]), agg |-> Agg(runs[r]), cnt |-> Len(runs[r])]]
Keep(f, x) == f.cmp = "None" \/ Compare(f.cmp, x, f.threshold)
\* OrderKey<i64> and InvOrderKey: the smallest word is the first of the top-k.
OrderWord(x, desc) == LET u == x + W \div 2 IN IF desc THEN W - 1 - u ELSE u
\* radix_hist_kernel and its host: the byte after prefix in which the want-th
\* smallest of the words with that prefix lies, high byte first.
High(word, pass) == word \div Span(8 - pass)
NextByte_KeepsWant(words, st, pass) ==
    LET Upto(b) == Cardinality({i \in DOMAIN words : High(words[i], pass) \in st.prefix * Span(1)..st.prefix * Span(1) + b})
        bin == Min({b \in 0..Span(1) - 1 : Upto(b) >= st.want} \cup {Span(1) - 1})
    IN  [st EXCEPT !.prefix = @ * Span(1) + bin]
NextByte(words, st, pass) ==
    LET Upto(b) == Cardinality({i \in DOMAIN words : High(words[i], pass) \in st.prefix * Span(1)..st.prefix * Span(1) + b})
        bin == Min({b \in 0..Span(1) - 1 : Upto(b) >= st.want} \cup {Span(1) - 1})
    IN  [prefix |-> st.prefix * Span(1) + bin, want |-> st.want - Upto(bin - 1)]
\* sort_pairs_u64 is stable.
ByWord(words, idx) ==
    InOrder(idx, LAMBDA a, b : words[a] < words[b] \/ (words[a] = words[b] /\ a < b))
\* radix_select_k: all below the k-th word, then as many equal to it as fit.
RadixSelect(words, k) ==
    LET t == FoldLeft(LAMBDA st, pass : NextByte(words, st, pass), [prefix |-> 0, want |-> k], Rows(8)).prefix
        below == {i \in DOMAIN words : words[i] < t}
        ties == Rising({i \in DOMAIN words : words[i] = t})
        fits == Max({0, Min({k - Cardinality(below), Len(ties)})})
    IN  ByWord(words, below \cup ToSet(SubSeq(ties, 1, fits)))
\* apply_filter: the n best of the survivors, by selection when they are few.
BestRuns(runs, f, n) ==
    LET words == [r \in DOMAIN runs |-> OrderWord(runs[r].agg, f.desc)]
        idx == IF n * SelectShare <= Len(runs) THEN RadixSelect(words, n)
               ELSE SubSeq(ByWord(words, DOMAIN words), 1, n)
    IN  [j \in DOMAIN idx |-> runs[idx[j]]]
\* groupby_common: the survivors are counted, then the cap, then selected.
DeviceLegacyGroups(keys, vals, f, cap, Narrow) ==
    LET words == IF vals = NoLane THEN NoLane ELSE [vals EXCEPT !.data = LegacyReads(vals, Narrow), !.width = 8]
        runs == ReduceRuns(keys, words)
        kept == Selected(runs, LAMBDA r : Keep(f, r.agg))
        n == IF f.topk = 0 THEN Len(kept) ELSE Min({f.topk, Len(kept)})
        out == IF f.topk = 0 \/ n = 0 THEN kept ELSE BestRuns(kept, f, n)
        Shown(r) == GroupRow(r.key, FALSE, [NoTuple EXCEPT !.sum = SumOf(r.agg), !.cnt = r.cnt, !.star = r.cnt])
    IN  IF ~Plain(keys) \/ (vals # NoLane /\ ~Plain(vals)) THEN Refused("carries NULL rows")
        ELSE IF vals # NoLane /\ Len(vals.data) # Len(keys.data) THEN Refused("row counts")
        ELSE IF keys.data = <<>> THEN Answer(<<>>, 0)
        ELSE IF keys.width # 8 THEN Refused("stored narrow")
        ELSE IF n > cap THEN Refused("cap")
        ELSE Answer([j \in DOMAIN out |-> Shown(out[j])], Len(runs))

Bounds_Unique(sorted, build, x) ==
    LET lo == Cardinality({p \in DOMAIN sorted : build.data[sorted[p]] < x})
    IN  [lo |-> lo, hi |-> IF \E p \in DOMAIN sorted : build.data[sorted[p]] = x THEN lo + 1 ELSE lo]
\* join_kernel.cu: the matches of a probe key are upper minus lower bound.
Bounds(sorted, build, x) ==
    [lo |-> Cardinality({p \in DOMAIN sorted : build.data[sorted[p]] < x}),
     hi |-> Cardinality({p \in DOMAIN sorted : build.data[sorted[p]] <= x})]
DeviceJoinSum(probe, pay, build, kind) ==
    LET sorted == SortedRows(build)
        Times(i) == LET b == Bounds(sorted, build, probe.data[i]) IN Multiplier(b.hi - b.lo, kind)
    IN  IF ~Plain(probe) \/ ~Plain(pay) \/ ~Plain(build) THEN [err |-> "carries NULL rows"]
        ELSE IF Len(probe.data) # Len(pay.data) THEN [err |-> "row counts"]
        ELSE IF build.width # 8 /\ probe.data # <<>> /\ build.data # <<>> THEN [err |-> "stored narrow"]
        ELSE [err |-> "",
              sum |-> Wrap(Total([i \in DOMAIN probe.data |-> Times(i) * pay.data[i]])),
              matched |-> Total([i \in DOMAIN probe.data |-> Times(i)])]
\* Two passes: counts and their exclusive scan, then every probe row fills its
\* own stretch of the output.
DeviceJoinRows(probe, build, kind, cap) ==
    LET sorted == SortedRows(build)
        B(i) == Bounds(sorted, build, probe.data[i])
        cnt == [i \in DOMAIN probe.data |-> Multiplier(B(i).hi - B(i).lo, kind)]
        Offset(i) == Total(SubSeq(cnt, 1, i - 1))
        total == Offset(Len(probe.data) + 1)
        \* the probe row whose stretch holds output row o
        Owner(o) == CHOOSE i \in DOMAIN cnt : o > Offset(i) /\ o <= Offset(i) + cnt[i]
        Build(o, i) == IF kind \in {"INNER", "LEFT"} /\ B(i).hi > B(i).lo
                       THEN sorted[B(i).lo + o - Offset(i)] ELSE 0
    IN  IF ~Plain(probe) \/ ~Plain(build) THEN [err |-> "carries NULL rows", pairs |-> <<>>]
        ELSE IF probe.data = <<>> THEN [err |-> "", pairs |-> <<>>]
        ELSE IF build.width # 8 /\ build.data # <<>> THEN [err |-> "stored narrow", pairs |-> <<>>]
        ELSE IF total > cap THEN [err |-> "cap", pairs |-> <<>>]
        ELSE [err |-> "", pairs |-> [o \in 1..total |-> <<Owner(o), Build(o, Owner(o))>>]]

\* ---- the hash join of two lists ------------------------------------------------------------
\* An open-addressing table of a power of two of slots, at most half full below
\* MaxCap, with the least word as the empty slot; threads claim slots in an
\* order nobody chose, here the odd rows first.
Empties == MinWord
AnyOrder(n) == Selected(Rows(n), LAMBDA i : i % 2 = 1) \o Selected(Rows(n), LAMBDA i : i % 2 = 0)
Capacity(n) ==
    LET Enough(c) == c >= MinCap /\ (c >= 2 * n \/ c >= MaxCap)
    IN  CHOOSE c \in {2 ^ e : e \in 1..28} : Enough(c) /\ \A e \in 1..28 : Enough(2 ^ e) => c <= 2 ^ e
\* The slots a key tries, from the one it hashes to (splitmix64 is taken as a
\* hash like another).
Chain(cap, x) == [p \in 1..cap |-> (x + p - 1) % cap]
Insert_LastWins(table, x, row) ==
    LET chain == Chain(Cardinality(DOMAIN table), x)
        fits == {p \in DOMAIN chain : table[chain[p]].key \in {Empties, x}}
    IN  IF fits = {} THEN table ELSE [table EXCEPT ![chain[Min(fits)]] = [key |-> x, row |-> row]]
\* hashjoin_build_kernel: the first slot that is empty or has the key; the
\* smallest row wins.  A full table loses the row.
Insert(table, x, row) ==
    LET chain == Chain(Cardinality(DOMAIN table), x)
        fits == {p \in DOMAIN chain : table[chain[p]].key \in {Empties, x}}
    IN  IF fits = {} THEN table
        ELSE LET at == chain[Min(fits)]
                 old == table[at]
             IN  [table EXCEPT ![at] = [key |-> x, row |-> IF old.key = Empties THEN row ELSE Min({old.row, row})]]
HashTable(build) ==
    FoldLeft(LAMBDA table, i : Insert(table, build[i], i),
             [slot \in 0..Capacity(Len(build)) - 1 |-> [key |-> Empties, row |-> 0]], AnyOrder(Len(build)))
\* hashjoin_probe_kernel: up to the key, an empty slot or the whole table.
Found(table, x) ==
    LET chain == Chain(Cardinality(DOMAIN table), x)
        ends == {p \in DOMAIN chain : table[chain[p]].key \in {Empties, x}}
    IN  IF ends = {} \/ table[chain[Min(ends)]].key = Empties THEN 0 ELSE table[chain[Min(ends)]].row
DeviceHashJoin(build, probe) ==
    LET table == HashTable(build)
        hits == Selected(AnyOrder(Len(probe)), LAMBDA i : Found(table, probe[i]) # 0)
    IN  IF build = <<>> \/ probe = <<>> THEN [err |-> "", pairs |-> <<>>]
        ELSE IF Empties \in ToSet(build) THEN [err |-> "empty slot marker", pairs |-> <<>>]
        ELSE [err |-> "", pairs |-> [j \in DOMAIN hits |-> <<hits[j], Found(table, probe[hits[j]])>>]]
=============================================================================
