----------------------------- MODULE ExactValues -----------------------------
(***************************************************************************)
(* The values the resident operators compute with and the columns they     *)
(* read (src/include/gpu_backend.hpp, src/include/native_avg.hpp,          *)
(* src/backends/predicate_mask.hpp, src/backends/groupby_filter.hpp).      *)
(*                                                                         *)
(* Words keep their width: a word is 8 bytes of ByteBits bits, sums are    *)
(* two limbs with a carry, doubles are bit patterns with a sign, three bits *)
(* of exponent and a mantissa.  Rows and positions are counted from 1.     *)
(* Bitmaps are sequences of booleans, <<>> for a column without one.  An   *)
(* operator answers [err, rows, ...]; err = "" unless it threw.  The       *)
(* rounding of native_avg is left out: an average is its exact quotient.   *)
(***************************************************************************)
EXTENDS Integers, Sequences, FiniteSets, SequencesExt, FiniteSetsExt

CONSTANTS
    ByteBits,   \* bits of a byte, so that a word of 8 bytes stays small
    NoCell,     \* an SQL NULL in the input
    NoLane      \* an absent column or index

ASSUME ValuesAssumption == ByteBits \in Nat \ {0} /\ NoCell # NoLane /\ NoCell \notin Int

\* The elements of S in the strict total order Less.
InOrder(S, Less(_, _)) ==
    [k \in 1..Cardinality(S) |->
        CHOOSE x \in S : Cardinality({y \in S : Less(y, x)}) = k - 1]
\* The numbers of S, ascending.
Rising(S) == InOrder(S, <)
\* The elements of the sequence s at the positions J, and those that pass a test:
\* SelectSeq, which the provers cannot expand.
Picked(s, J) == LET at == Rising(J) IN [k \in DOMAIN at |-> s[at[k]]]
Selected(s, Test(_)) == Picked(s, {j \in DOMAIN s : Test(s[j])})

\* ---- words -------------------------------------------------------------
Span(bytes) == 2 ^ (bytes * ByteBits)
W == Span(8)
MinWord == -(W \div 2)
MaxWord == W \div 2 - 1
Word == MinWord..MaxWord
Signed(u, bytes) == IF u >= Span(bytes) \div 2 THEN u - Span(bytes) ELSE u
Wrap(x) == Signed(x % W, 8)

\* ---- 128-bit sums: low limb unsigned, high limb signed ------------------
ZeroSum == [lo |-> 0, hi |-> 0]
SignLimb(v) == IF v < 0 THEN -1 ELSE 0
SumOf(v) == [lo |-> v % W, hi |-> SignLimb(v)]
Carry(new, old) == IF new < old THEN 1 ELSE 0
AddSums_NoCarry(a, b) == [lo |-> (a.lo + b.lo) % W, hi |-> Wrap(a.hi + b.hi)]
AddSums(a, b) ==
    LET lo == (a.lo + b.lo) % W
    IN  [lo |-> lo, hi |-> Wrap(a.hi + b.hi + Carry(lo, a.lo))]
AddValue(s, v) ==
    LET lo == (s.lo + (v % W)) % W
    IN  [lo |-> lo, hi |-> Wrap(s.hi + SignLimb(v) + Carry(lo, s.lo))]
SumLess(a, b) == IF a.hi # b.hi THEN a.hi < b.hi ELSE a.lo < b.lo
\* hugeint_to_float: the number the two limbs stand for.
Number(s) == s.hi * W + s.lo

\* ---- doubles as bit patterns --------------------------------------------
ManSpan == W \div 16
Exponent(u) == (u % (W \div 2)) \div ManSpan
Mantissa(u) == u % ManSpan
IsNan(bits) == LET u == bits % W IN Exponent(u) = 7 /\ Mantissa(u) # 0
IsZero(bits) == bits % W \in {0, W \div 2}
\* f64_total_order_key: NaN greatest, the zeros equal, negatives reversed.
OrderKey(bits) ==
    LET u == IF IsZero(bits) THEN 0 ELSE bits % W
    IN  IF IsNan(bits) THEN W - 1
        ELSE IF u >= W \div 2 THEN W - 1 - u ELSE u + W \div 2

\* ---- columns and lanes ---------------------------------------------------
HostColumn(dtype, cells) ==
    [home |-> "cpu", dtype |-> dtype, width |-> 8,
     data |-> [i \in DOMAIN cells |-> IF cells[i] = NoCell THEN 0 ELSE cells[i]],
     valid |-> IF \A i \in DOMAIN cells : cells[i] # NoCell THEN <<>>
               ELSE [i \in DOMAIN cells |-> cells[i] # NoCell]]
BitAt(bitmap, i) == bitmap = <<>> \/ bitmap[i]
NullCount(col) == Cardinality({i \in DOMAIN col.data : ~BitAt(col.valid, i)})

\* A column read through an index, NoLane for the identity.
Lane(col, index) == [col |-> col, index |-> index]
LaneRows(l) == IF l.index = NoLane THEN Len(l.col.data) ELSE Len(l.index.data)
HasSource(l, i) == l.index = NoLane \/ BitAt(l.index.valid, i)
Source(l, i) == IF l.index = NoLane THEN i ELSE l.index.data[i]
IsValid(l, i) == HasSource(l, i) /\ BitAt(l.col.valid, Source(l, i))
Cell(l, i) == IF HasSource(l, i) THEN l.col.data[Source(l, i)] ELSE 0

\* ---- WHERE: one comparison of a lane with constants ----------------------
Comparisons == {"EQ", "NE", "LT", "LE", "GT", "GE"}
Compare(op, a, b) ==
    CASE op = "EQ" -> a = b [] op = "NE" -> a # b [] op = "LT" -> a < b
      [] op = "LE" -> a <= b [] op = "GT" -> a > b [] op = "GE" -> a >= b
Passes_NullKept(p, i) ==
    LET Image(x) == IF p.lane.col.dtype = "f64" THEN OrderKey(x) ELSE x
        ok == IsValid(p.lane, i)
        a == Image(Cell(p.lane, i))
    IN  \/ p.op = "IsNull" /\ ~ok
        \/ p.op = "IsNotNull" /\ ok
        \/ p.op = "In" /\ \E j \in DOMAIN p.list : a = Image(p.list[j])
        \/ p.op \notin {"IsNull", "IsNotNull", "In"} /\ Compare(p.op, a, Image(p.value))
\* Set when F64, the images are compared; a NULL cell fails all but IsNull.
Passes(p, i) ==
    LET Image(x) == IF p.lane.col.dtype = "f64" THEN OrderKey(x) ELSE x
        ok == IsValid(p.lane, i)
        a == Image(Cell(p.lane, i))
    IN  \/ p.op = "IsNull" /\ ~ok
        \/ p.op = "IsNotNull" /\ ok
        \/ p.op = "In" /\ ok /\ \E j \in DOMAIN p.list : a = Image(p.list[j])
        \/ p.op \notin {"IsNull", "IsNotNull", "In"} /\ ok /\ Compare(p.op, a, Image(p.value))
InMask(preds, i) == \A q \in DOMAIN preds : Passes(preds[q], i)

\* ---- one group -----------------------------------------------------------
Column == {"keys", "sums", "counts", "stars", "mins", "maxs"}
Tuple == [sum : [lo : 0..W - 1, hi : MinWord..MaxWord], cnt : Nat, star : Nat,
          mn : MinWord..MaxWord, mx : MinWord..MaxWord]
NoTuple == [sum |-> ZeroSum, cnt |-> 0, star |-> 0, mn |-> MaxWord, mx |-> MinWord]
\* counts == 0: min and max are 0, never the identities.
Finished(t) == IF t.cnt = 0 THEN [t EXCEPT !.mn = 0, !.mx = 0] ELSE t
GroupRow(key, null, t) ==
    LET d == Finished(t)
    IN  [key |-> key, null |-> null, sum |-> d.sum, cnt |-> d.cnt, star |-> d.star,
         mn |-> d.mn, mx |-> d.mx]

Refused(why) == [err |-> why, rows |-> <<>>, total |-> 0, has |-> {}]
Answer(rows, total) == [err |-> "", rows |-> rows, total |-> total, has |-> Column]

\* ---- HAVING and top-k ----------------------------------------------------
NoFilter == [cmp |-> "None", agg |-> "Sum", threshold |-> 0, topk |-> 0, desc |-> FALSE]
\* The filters the SQL functions parse: 'avg' is none of their aggregates.
HavingAggs == {"Sum", "Min", "Max", "CountV", "CountStar"}
HavingOps == {"None", "GT", "GE", "LT", "LE"}
IsFilter(f) ==
    /\ f.agg \in HavingAggs /\ f.cmp \in HavingOps
    /\ f.threshold \in Word /\ f.topk \in Nat /\ f.desc \in BOOLEAN
Active(f) == f.cmp # "None" \/ f.topk # 0
AggNull(f, r) == f.agg \in {"Sum", "Min", "Max", "Avg"} /\ r.cnt = 0
\* a <agg> b for two groups; for Avg the quotients, cross-multiplied.
AggLess(f, a, b) ==
    CASE f.agg = "Sum" -> SumLess(a.sum, b.sum)
      [] f.agg = "Avg" -> Number(a.sum) * b.cnt < Number(b.sum) * a.cnt
      [] f.agg = "Min" -> a.mn < b.mn
      [] f.agg = "Max" -> a.mx < b.mx
      [] f.agg = "CountV" -> a.cnt < b.cnt
      [] f.agg = "CountStar" -> a.star < b.star
      [] f.agg = "Legacy" -> Wrap(a.sum.lo) < Wrap(b.sum.lo)
\* The threshold as a group of one row: from_i64 sign-extends it.
Threshold(f) == [key |-> 0, null |-> FALSE, sum |-> SumOf(f.threshold), cnt |-> IF f.agg = "Avg" THEN 1 ELSE f.threshold,
                 star |-> f.threshold, mn |-> f.threshold, mx |-> f.threshold]
Keeps(f, r) ==
    \/ f.cmp = "None"
    \/ /\ ~AggNull(f, r)
       /\ \/ f.cmp = "GT" /\ AggLess(f, Threshold(f), r)
          \/ f.cmp = "GE" /\ ~AggLess(f, r, Threshold(f))
          \/ f.cmp = "LT" /\ AggLess(f, r, Threshold(f))
          \/ f.cmp = "LE" /\ ~AggLess(f, Threshold(f), r)
KeyBefore(a, b) == IF a.null # b.null THEN b.null ELSE a.key < b.key
Better_NullsFirst(f, a, b) ==
    IF AggNull(f, a) # AggNull(f, b) THEN AggNull(f, b) = ~f.desc
    ELSE IF AggNull(f, a) \/ ~(AggLess(f, a, b) \/ AggLess(f, b, a)) THEN KeyBefore(a, b)
    ELSE AggLess(f, a, b) = ~f.desc
\* "a ranks before b": NULL aggregates last both ways, ties by key.
Better(f, a, b) ==
    IF AggNull(f, a) # AggNull(f, b) THEN AggNull(f, b)
    ELSE IF AggNull(f, a) \/ ~(AggLess(f, a, b) \/ AggLess(f, b, a)) THEN KeyBefore(a, b)
    ELSE AggLess(f, a, b) = ~f.desc
Best(rows, k, Before(_, _)) == SubSeq(InOrder(ToSet(rows), Before), 1, Min({k, Len(rows)}))
Ranked(rows, f) == IF f.topk = 0 THEN rows ELSE Best(rows, f.topk, LAMBDA a, b : Better(f, a, b))
\* The cap counts the rows returned, of total groups.
Capped(rows, total, cap) == IF Len(rows) > cap THEN Refused("cap") ELSE Answer(rows, total)
\* apply_group_filter_host.
Filtered(rows, f, cap) ==
    Capped(IF Active(f) THEN Ranked(Selected(rows, LAMBDA r : Keeps(f, r)), f) ELSE rows, Len(rows), cap)
=============================================================================
