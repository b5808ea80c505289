---------------------------- MODULE HybridPlanner ----------------------------
(***************************************************************************)
(* Where a resident operator runs (src/backends/hybrid_planner.cpp).  A    *)
(* column lives on one side for good; an operator runs where its columns   *)
(* live and refuses columns of two sides.  gpu is "none", "cuda" or        *)
(* "lean": the Metal backend, external, taken as the reference operators   *)
(* filling no result vector it was not asked for.                          *)
(***************************************************************************)
EXTENDS CudaOperators

CONSTANTS
    SumSmallN,  \* kSumSmallN: rows below which a resident sum is the CPU's
    JoinSmallTotal, JoinMinProbe,   \* sizes below which a list join is the CPU's
    Unread      \* the content of a result vector the backend left empty

ASSUME PlannerAssumption == {SumSmallN, JoinSmallTotal, JoinMinProbe} \subseteq Nat

\* ---- uploads -------------------------------------------------------------
\* device is what the device made of it: "packs", "plain" (no room for the
\* packed copy) or "fails".
Homed(lanes, gpu) == [l \in DOMAIN lanes |-> [lanes[l] EXCEPT !.home = gpu]]
OnDevice(gpu, device, spans, dtypes) ==
    IF gpu = "cuda" THEN DeviceUpload(spans, dtypes, device = "packs")
    ELSE LET host == UploadRows(spans, dtypes) IN [host EXCEPT !.lanes = Homed(@, gpu)]
UploadExact_FallsBack(gpu, device, spans, dtypes) ==
    IF gpu = "none" \/ device = "fails" THEN UploadRows(spans, dtypes)
    ELSE OnDevice(gpu, device, spans, dtypes)
\* upload_rows_exact: a device that refuses is reported, never worked around.
UploadExact(gpu, device, spans, dtypes) ==
    IF gpu = "none" THEN UploadRows(spans, dtypes)
    ELSE IF device = "fails" THEN [err |-> "GPUDB_DEVICE_UPLOAD_REFUSED", lanes |-> <<>>]
    ELSE OnDevice(gpu, device, spans, dtypes)
\* upload_i64, upload_f64, upload_pair_interleaved: the CPU takes what the
\* device refused; these lanes carry no NULL and are never packed.
UploadPlain(gpu, device, spans, dtypes) ==
    IF gpu = "none" \/ device = "fails" THEN UploadRows(spans, dtypes)
    ELSE OnDevice(gpu, "plain", spans, dtypes)

\* ---- routing --------------------------------------------------------------
Decision(backend, reason) == [backend |-> backend, reason |-> reason]
OneSide(cols) == \A a, b \in cols : a.home = b.home
HomeDecision(gpu, home) ==
    IF home # "cpu" THEN Decision(home, "Hot_GpuAlwaysWins")
    ELSE Decision("cpu", IF gpu = "none" THEN "GpuUnavailable" ELSE "Resident_OnCpu")
\* dispatch_resident_i64: a column on the device overrides the size rule.
ScalarDecision(gpu, col) ==
    IF gpu # "none" /\ col.home = "cpu" /\ Len(col.data) < SumSmallN
    THEN Decision("cpu", "SmallN_CpuWins") ELSE HomeDecision(gpu, col.home)

\* ---- the operators, on the side their columns are ---------------------------
Empty(r, want) ==
    [key |-> IF "keys" \in want THEN r.key ELSE Unread,
     null |-> "keys" \in want /\ r.null,
     sum |-> IF "sums" \in want THEN r.sum ELSE Unread,
     cnt |-> IF "counts" \in want THEN r.cnt ELSE Unread,
     star |-> IF "stars" \in want THEN r.star ELSE Unread,
     mn |-> IF "mins" \in want THEN r.mn ELSE Unread,
     mx |-> IF "maxs" \in want THEN r.mx ELSE Unread]
Lean(a, want) ==
    [a EXCEPT !.has = @ \cap want, !.rows = [j \in DOMAIN @ |-> Empty(@[j], want)]]
Groups(k, v, preds, f, cap, want) ==
    CASE k.col.home = "cuda" -> DeviceGroups(k, v, preds, f, cap)
      [] k.col.home = "cpu" -> ExactGroups(k, v, preds, f, cap)
      [] k.col.home = "lean" -> Lean(ExactGroups(k, v, preds, f, cap), want)
\* groupby_exact_masked_multi: one Groups per payload, fanned out.
GroupsOfMany(k, pays, preds, f, cap, wants, primary, cols) ==
    Fanout(wants, primary, f, cols,
           [p \in DOMAIN wants |-> Groups(k, pays[p], preds, PassFilter(p, primary, f), cap,
                                          PassWant(p, wants, primary, f, cols))])
Global(pays, preds, cuts) ==
    LET lanes == pays \o [q \in DOMAIN preds |-> preds[q].lane]
    IN  IF lanes[1].col.home = "cuda" THEN DeviceGlobal(pays, preds)
        ELSE GlobalAggregate(pays, preds, cuts)
Joined(probe, build, out) ==
    IF probe.home = "cuda" THEN DeviceJoin(probe, build, out, TRUE)
    ELSE LET r == JoinMaterialize(Lane(probe, NoLane), build, out)
         IN  [r EXCEPT !.lanes = Homed(@, probe.home)]
TopRows(col, k, desc) ==
    IF col.home = "cuda" THEN DeviceTopK(col, k, desc) ELSE [err |-> "", idx |-> TopK(col, k, desc)]
RowsOfJoin(probe, build, kind, cap) ==
    IF probe.home = "cuda" THEN DeviceJoinRows(probe, build, kind, cap)
    ELSE JoinRows(probe, build, kind, cap)
SumOfJoin(probe, pay, build, kind) ==
    IF probe.home = "cuda" THEN DeviceJoinSum(probe, pay, build, kind)
    ELSE JoinSum(probe, pay, build, kind)
\* sum, min and max of one column: the device takes it for 8-byte words.
AggregateOf(col, narrow) ==
    LET words == [col EXCEPT !.data = LegacyReads(col, narrow)]
        a == AggregateAll(words)
    IN  [err |-> IF Plain(col) THEN "" ELSE "carries NULL rows", sum |-> a.sum, mn |-> a.mn, mx |-> a.mx]
PlainGroups(keys, vals, f, cap, narrow) ==
    IF keys.home = "cuda" THEN DeviceLegacyGroups(keys, vals, f, cap, narrow)
    ELSE LegacyGroups(keys, vals, f, cap)
\* HybridHashJoinProbe: a planner of its own, whose decision nobody reads.
ListJoin(gpu, build, probe) ==
    IF gpu # "cuda" \/ Len(build) + Len(probe) < JoinSmallTotal \/ Len(probe) < JoinMinProbe
    THEN FirstMatches(build, probe) ELSE DeviceHashJoin(build, probe)
=============================================================================
