------------------------------ MODULE AnswerProofs ------------------------------
(***************************************************************************)
(* What a caller is handed: the lanes of an upload hold its table, and the *)
(* rows of a statement over it are native's, for every program and table.  *)
(***************************************************************************)
EXTENDS AggregateProofs, CallSetProofs

\* ---- sums over positions ---------------------------------------------------------
\* g[k] is the sum of the first k numbers.
Running(g, ns, m) ==
    /\ m \in Nat /\ DOMAIN ns = 1..m /\ g \in [0..m -> Int] /\ g[0] = 0
    /\ \A k \in 1..m : ns[k] \in Int /\ g[k] = g[k - 1] + ns[k]

LEMMA RunsAgree ==
  ASSUME NEW m \in Nat, NEW A, NEW base, NEW step, NEW f, NEW g, IsRun(f, m, A, base, step), IsRun(g, m, A, base, step)
  PROVE  \A k \in 0..m : f[k] = g[k]
<1> DEFINE P == {k \in 0..m : f[k] = g[k]}
<1>1. 0 \in P
  BY DEF IsRun
<1>2. ASSUME NEW k \in 1..m, k - 1 \in P PROVE k \in P
  BY <1>2 DEF IsRun
<1>3. \A k \in 0..m : k \in P
  <2> HIDE DEF P
  <2> QED
    BY <1>1, <1>2, CountUp
<1> QED
  BY <1>3

LEMMA TotalIs ==
  ASSUME NEW g, NEW ns, NEW m, Running(g, ns, m)
  PROVE  Total(ns) = g[m]
<1> m \in Nat /\ DOMAIN ns = 1..m /\ g \in [0..m -> Int] /\ g[0] = 0 /\ \A k \in 1..m : ns[k] \in Int /\ g[k] = g[k - 1] + ns[k]
  BY DEF Running
<1> DEFINE step == [k \in 1..m |-> [t \in Int |-> t + ns[k]]]
<1>1. IsStep(step, m, Int) /\ m \in Nat /\ 0 \in Int
  BY DEF IsStep
<1>2. PICK h \in [SUBSET (1..m) -> Int] : Folds(h, m, 0, step)
  <2> HIDE DEF step
  <2> QED
    BY <1>1, FoldExists
<1>3. \A s \in SUBSET (1..m) : s # {} => Max(s) \in 1..m /\ s \ {Max(s)} \in SUBSET (1..m)
  BY MaxIsLargest
<1>4. h = [s \in SUBSET DOMAIN ns |-> IF s = {} THEN 0 ELSE h[s \ {Max(s)}] + ns[Max(s)]]
  <2> SUFFICES ASSUME NEW s \in SUBSET (1..m)
               PROVE  h[s] = IF s = {} THEN 0 ELSE h[s \ {Max(s)}] + ns[Max(s)]
    OBVIOUS
  <2>1. CASE s = {}
    BY <1>2, <2>1 DEF Folds
  <2>2. CASE s # {}
    <3>1. h[s] = step[Max(s)][h[s \ {Max(s)}]]
      BY <1>2, <2>2 DEF Folds
    <3> QED
      BY <1>3, <2>2, <3>1
  <2> QED
    BY <2>1, <2>2
<1>5. PICK f : f = [s \in SUBSET DOMAIN ns |-> IF s = {} THEN 0 ELSE f[s \ {Max(s)}] + ns[Max(s)]]
               /\ Total(ns) = f[DOMAIN ns]
  <2> HIDE DEF step
  <2> QED
    BY <1>4 DEF Total, FoldLeft, MapThenFoldSet
<1>6. Steps(f, m, Int, 0, step)
  <2> SUFFICES ASSUME NEW s \in SUBSET (1..m), s # {}, f[s \ {Max(s)}] \in Int PROVE f[s] = step[Max(s)][f[s \ {Max(s)}]]
    BY <1>5 DEF Steps
  <2> QED
    BY <1>3, <1>5
<1>7. IsRun([k \in 0..m |-> f[1..k]], m, Int, 0, step)
  <2> HIDE DEF step
  <2> QED
    BY <1>1, <1>6, FoldRuns
<1>8. IsRun(g, m, Int, 0, step)
  BY DEF IsRun
<1>9. PICK F : F = [k \in 0..m |-> f[1..k]]
  OBVIOUS
<1>10. \A k \in 0..m : F[k] = g[k]
  <2>1. IsRun(F, m, Int, 0, step)
    BY <1>7, <1>9
  <2> HIDE DEF step
  <2> QED
    BY <1>8, <2>1, RunsAgree
<1>11. f[1..m] = g[m]
  <2>1. m \in 0..m
    OBVIOUS
  <2> QED
    BY <1>9, <1>10, <2>1
<1> QED
  BY <1>5, <1>11

\* The spans hold the rows of flat end to end: g[s] rows up to the end of span s.
Laid(spans, flat, g, m) ==
    /\ m \in Nat /\ DOMAIN spans = 1..m /\ g \in [0..m -> Nat] /\ g[0] = 0
    /\ \A s \in 1..m :
          /\ Len(spans[s].rows) \in Nat /\ g[s] = g[s - 1] + Len(spans[s].rows)
          /\ spans[s].dst \in {0, 1 + g[s - 1]}
          /\ \A r \in 1..Len(spans[s].rows) : spans[s].rows[r] = flat[g[s - 1] + r]

LEMMA LaidRows ==
  ASSUME NEW spans, NEW flat, NEW g, NEW m, Laid(spans, flat, g, m)
  PROVE  SpanRows(spans) = g[m]
<1> DEFINE ns == [s \in DOMAIN spans |-> Len(spans[s].rows)]
<1>1. Running(g, ns, m)
  <2>1. g \in [0..m -> Int]
    BY DEF Laid
  <2> QED
    BY <2>1 DEF Running, Laid
<1>2. SpanRows(spans) = Total(ns)
  BY DEF SpanRows
<1> HIDE DEF ns
<1> QED
  BY <1>1, <1>2, TotalIs

\* A span without a destination goes where the last one ended.
LEMMA SpanStarts ==
  ASSUME NEW spans, NEW flat, NEW g, NEW m, Laid(spans, flat, g, m), NEW s \in 1..m
  PROVE  SpanStart(spans, s) = 1 + g[s - 1]
<1>1. /\ s \in Nat /\ 0 \in 0..s /\ s \in 0..s /\ g[0] = 0 /\ m \in Nat /\ s <= m
      /\ \A k \in 0..s : g[k] \in Int
      /\ \A k \in 1..s : /\ Len(spans[k].rows) \in Int /\ g[k] = g[k - 1] + Len(spans[k].rows)
                         /\ spans[k].dst \in {0, 1 + g[k - 1]} /\ spans[k].dst \in Int
  <2>1. \A k \in 0..m : g[k] \in Int
    BY DEF Laid
  <2>2. \A k \in 1..s : k \in 1..m /\ k - 1 \in 0..m
    BY DEF Laid
  <2> QED
    BY <2>1, <2>2 DEF Laid
<1> DEFINE At(t, j) == (IF spans[j].dst = 0 THEN t ELSE spans[j].dst) + (IF j = s THEN 0 ELSE Len(spans[j].rows))
           seq == [j \in 1..s |-> j]
           step == [k \in 1..s |-> [t \in Int |-> At(t, k)]]
           G == [k \in 0..s |-> IF k = s THEN 1 + g[s - 1] ELSE 1 + g[k]]
<1>2. IsStep(step, s, Int) /\ 1 \in Int
  BY <1>1 DEF IsStep
<1>3. PICK h \in [SUBSET (1..s) -> Int] : Folds(h, s, 1, step)
  <2> HIDE DEF step
  <2> QED
    BY <1>1, <1>2, FoldExists
<1>4. \A x \in SUBSET (1..s) : x # {} => Max(x) \in 1..s /\ x \ {Max(x)} \in SUBSET (1..s)
  BY <1>1, MaxIsLargest
<1>5. DOMAIN seq = 1..s /\ \A k \in 1..s : seq[k] = k
  OBVIOUS
<1>6. h = [x \in SUBSET DOMAIN seq |-> IF x = {} THEN 1 ELSE At(h[x \ {Max(x)}], seq[Max(x)])]
  <2> SUFFICES ASSUME NEW x \in SUBSET (1..s)
               PROVE  h[x] = IF x = {} THEN 1 ELSE At(h[x \ {Max(x)}], seq[Max(x)])
    BY <1>5
  <2>1. CASE x = {}
    BY <1>3, <2>1 DEF Folds
  <2>2. CASE x # {}
    <3>1. h[x] = step[Max(x)][h[x \ {Max(x)}]]
      BY <1>3, <2>2 DEF Folds
    <3>2. Max(x) \in 1..s /\ h[x \ {Max(x)}] \in Int /\ seq[Max(x)] = Max(x)
      BY <1>4, <1>5, <2>2
    <3> HIDE DEF seq, At
    <3>3. h[x] = At(h[x \ {Max(x)}], Max(x))
      BY <3>1, <3>2
    <3> QED
      BY <2>2, <3>2, <3>3
  <2> QED
    BY <2>1, <2>2
<1>7. PICK f : f = [x \in SUBSET DOMAIN seq |-> IF x = {} THEN 1 ELSE At(f[x \ {Max(x)}], seq[Max(x)])]
               /\ SpanStart(spans, s) = f[DOMAIN seq]
  <2> HIDE DEF step, G
  <2>1. SpanStart(spans, s) = FoldLeft(At, 1, seq)
    BY Zenon DEF SpanStart
  <2> HIDE DEF At, seq
  <2> QED
    BY <1>6, <2>1 DEF FoldLeft, MapThenFoldSet
<1>8. Steps(f, s, Int, 1, step)
  <2> SUFFICES ASSUME NEW x \in SUBSET (1..s), x # {}, f[x \ {Max(x)}] \in Int PROVE f[x] = step[Max(x)][f[x \ {Max(x)}]]
    BY <1>5, <1>7 DEF Steps
  <2> HIDE DEF At, seq
  <2>1. Max(x) \in 1..s /\ seq[Max(x)] = Max(x) /\ x \in SUBSET DOMAIN seq
    BY <1>4, <1>5
  <2>2. f[x] = At(f[x \ {Max(x)}], seq[Max(x)])
    BY <1>7, <2>1
  <2> QED
    BY <1>4, <2>1, <2>2
<1>9. IsRun([k \in 0..s |-> f[1..k]], s, Int, 1, step)
  <2> HIDE DEF step
  <2> QED
    BY <1>1, <1>2, <1>8, FoldRuns
<1>10. IsRun(G, s, Int, 1, step)
  <2>1. G \in [0..s -> Int]
    BY <1>1
  <2>2. G[0] = 1
    BY <1>1
  <2>3. ASSUME NEW k \in 1..s PROVE G[k] = step[k][G[k - 1]]
    <3>1. G[k - 1] = 1 + g[k - 1] /\ g[k - 1] \in Int
      BY <1>1
    <3>2. step[k][G[k - 1]] = At(1 + g[k - 1], k)
      BY <3>1
    <3>3. At(1 + g[k - 1], k) = 1 + g[k - 1] + (IF k = s THEN 0 ELSE Len(spans[k].rows))
      BY <1>1, <3>1
    <3>4. G[k] = IF k = s THEN 1 + g[s - 1] ELSE 1 + g[k]
      BY <1>1
    <3>5. k # s => g[k] = g[k - 1] + Len(spans[k].rows) /\ Len(spans[k].rows) \in Int
      BY <1>1
    <3>6. PICK a, l : a \in Int /\ a = g[k - 1] /\ l = Len(spans[k].rows)
      BY <3>1
    <3>7. k # s => l \in Int /\ g[k] = a + l
      BY <3>5, <3>6
    <3>8. k = s => g[s - 1] = a
      BY <3>6
    <3> HIDE DEF G, step, At
    <3>9. CASE k = s
      BY <3>2, <3>3, <3>4, <3>6, <3>8, <3>9
    <3>10. CASE k # s
      BY <3>2, <3>3, <3>4, <3>6, <3>7, <3>10
    <3> QED
      BY <3>9, <3>10
  <2> QED
    BY <2>1, <2>2, <2>3 DEF IsRun
<1>11. \A k \in 0..s : [j \in 0..s |-> f[1..j]][k] = G[k]
  <2> HIDE DEF step, G
  <2> QED
    BY <1>1, <1>9, <1>10, RunsAgree
<1>12. f[1..s] = 1 + g[s - 1]
  BY <1>1, <1>11
<1> QED
  BY <1>5, <1>7, <1>12

LEMMA LaidGrows ==
  ASSUME NEW spans, NEW flat, NEW g, NEW m, Laid(spans, flat, g, m)
  PROVE  \A j \in 0..m : \A i \in 0..j : g[i] <= g[j]
<1> DEFINE P == {j \in 0..m : \A i \in 0..j : g[i] <= g[j]}
<1> m \in Nat /\ g \in [0..m -> Nat] /\ \A s \in 1..m : Len(spans[s].rows) \in Nat /\ g[s] = g[s - 1] + Len(spans[s].rows)
  BY DEF Laid
<1>1. 0 \in P
  OBVIOUS
<1>2. ASSUME NEW k \in 1..m, k - 1 \in P PROVE k \in P
  <2>1. g[k] >= g[k - 1] /\ g[k] \in Nat /\ g[k - 1] \in Nat /\ k - 1 \in 0..m
    <3>1. k - 1 \in 0..m /\ k \in 0..m
      OBVIOUS
    <3>2. PICK a \in Nat, b \in Nat, c \in Nat : a = g[k] /\ b = g[k - 1] /\ c = Len(spans[k].rows) /\ a = b + c
      BY <3>1
    <3> QED
      BY <3>1, <3>2
  <2>2. ASSUME NEW i \in 0..k PROVE g[i] <= g[k]
    <3>1. CASE i = k
      BY <2>1, <3>1
    <3>2. CASE i # k
      <4>1. i \in 0..k - 1 /\ i \in 0..m
        BY <3>2
      <4>2. g[i] <= g[k - 1] /\ g[i] \in Nat
        BY <1>2, <4>1
      <4> QED
        BY <2>1, <4>2
    <3> QED
      BY <3>1, <3>2
  <2> QED
    BY <2>2
<1>3. \A k \in 0..m : k \in P
  <2> HIDE DEF P
  <2> QED
    BY <1>1, <1>2, CountUp
<1> QED
  BY <1>3

IsRow(d, g, m) == 1 <= d /\ d <= g[m]
\* The span that holds row d.
LEMMA LaidFinds ==
  ASSUME NEW spans, NEW flat, NEW g, NEW m, Laid(spans, flat, g, m), NEW d \in Int, IsRow(d, g, m)
  PROVE  \E s \in 1..m : g[s - 1] < d /\ d <= g[s]
<1> m \in Nat /\ g \in [0..m -> Nat] /\ g[0] = 0
  BY DEF Laid
<1> DEFINE P == {k \in 1..m : d <= g[k]}
<1>1. m \in P /\ P \in SUBSET (1..m)
  <2>1. m # 0
    BY DEF IsRow
  <2> QED
    BY <2>1 DEF IsRow
<1>2. PICK s \in P : \A j \in P : s <= j
  <2> HIDE DEF P
  <2> QED
    BY <1>1, LeastNat
<1>3. g[s - 1] < d
  <2>1. CASE s = 1
    BY <2>1 DEF IsRow
  <2>2. CASE s # 1
    <3>1. s - 1 \in 1..m /\ s - 1 \notin P
      BY <1>2, <2>2
    <3> QED
      BY <3>1
  <2> QED
    BY <2>1, <2>2
<1> QED
  BY <1>2, <1>3

\* An upload of spans end to end holds the cells of row d at d, whatever the spans.
LEMMA LaidUpload ==
  ASSUME NEW spans, NEW flat, NEW g, NEW m, Laid(spans, flat, g, m), NEW dtypes,
         NEW up, up = UploadRows(spans, dtypes), Fine(up)
  PROVE  up.lanes = [l \in DOMAIN dtypes |-> HostColumn(dtypes[l], [d \in 1..g[m] |-> flat[d][l]])]
<1> DEFINE start == [s \in DOMAIN spans |-> SpanStart(spans, s)]
           Writer(d) == {s \in DOMAIN spans : d \in start[s]..(start[s] + Len(spans[s].rows) - 1)}
           At(d, l) == IF Writer(d) = {} THEN 0
                       ELSE LET s == Max(Writer(d)) IN spans[s].rows[d - start[s] + 1][l]
<1>1. up.lanes = [l \in DOMAIN dtypes |-> HostColumn(dtypes[l], [d \in 1..SpanRows(spans) |-> At(d, l)])]
  BY Zenon DEF UploadRows, Fine
<1>2. SpanRows(spans) = g[m]
  BY LaidRows
<1>3. m \in Nat /\ g \in [0..m -> Nat] /\ DOMAIN spans = 1..m /\ start = [s \in 1..m |-> 1 + g[s - 1]]
  <2>1. m \in Nat /\ g \in [0..m -> Nat] /\ DOMAIN spans = 1..m
    BY DEF Laid
  <2>2. \A s \in 1..m : SpanStart(spans, s) = 1 + g[s - 1]
    BY SpanStarts
  <2> QED
    BY <2>1, <2>2
<1>4. ASSUME NEW d \in Int, IsRow(d, g, m), NEW l PROVE At(d, l) = flat[d][l]
  <2>1. PICK s \in 1..m : g[s - 1] < d /\ d <= g[s]
    BY <1>4, LaidFinds
  <2>2. Len(spans[s].rows) \in Nat /\ g[s] = g[s - 1] + Len(spans[s].rows) /\ g[s - 1] \in Nat /\ g[s] \in Nat
    <3>1. Len(spans[s].rows) \in Nat /\ g[s] = g[s - 1] + Len(spans[s].rows)
      BY DEF Laid
    <3>2. s \in 0..m /\ s - 1 \in 0..m
      BY <1>3
    <3> QED
      BY <1>3, <3>1, <3>2
  <2>3. start[s] = 1 + g[s - 1] /\ d \in start[s]..(start[s] + Len(spans[s].rows) - 1)
    BY <1>3, <2>1, <2>2
  <2>4. ASSUME NEW t \in 1..m, d \in start[t]..(start[t] + Len(spans[t].rows) - 1) PROVE t = s
    <3>1. start[t] = 1 + g[t - 1] /\ Len(spans[t].rows) \in Nat /\ g[t] = g[t - 1] + Len(spans[t].rows) /\ g[t - 1] \in Nat
      <4>1. t - 1 \in 0..m
        BY <1>3
      <4>2. start[t] = 1 + g[t - 1] /\ g[t - 1] \in Nat
        BY <1>3, <4>1
      <4>3. Len(spans[t].rows) \in Nat /\ g[t] = g[t - 1] + Len(spans[t].rows)
        BY DEF Laid
      <4> QED
        BY <4>2, <4>3
    <3>2. g[t - 1] < d /\ d <= g[t] /\ g[t] \in Nat
      <4>1. PICK a \in Nat, b \in Nat, c \in Nat : a = g[t] /\ b = g[t - 1] /\ c = Len(spans[t].rows) /\ a = b + c
        BY <1>3, <3>1
      <4>2. d \in (1 + b)..((1 + b) + c - 1)
        BY <2>4, <3>1, <4>1
      <4> HIDE DEF start
      <4> QED
        <5>1. a = b + c
          BY <4>1
        <5>2. b < d /\ d <= a
          BY <4>2, <5>1
        <5> QED
          BY <4>1, <5>2
    <3>3. ASSUME t < s PROVE FALSE
      <4>1. g[t] <= g[s - 1]
        <5>1. s - 1 \in 0..m /\ t \in 0..s - 1
          BY <1>3, <3>3
        <5> QED
          BY <5>1, LaidGrows
      <4> QED
        BY <2>1, <2>2, <3>2, <4>1
    <3>4. ASSUME s < t PROVE FALSE
      <4>1. g[s] <= g[t - 1]
        <5>1. t - 1 \in 0..m /\ s \in 0..t - 1
          BY <1>3, <3>4
        <5> QED
          BY <5>1, LaidGrows
      <4> QED
        BY <2>1, <2>2, <3>1, <3>2, <4>1
    <3> QED
      BY <1>3, <3>3, <3>4
  <2>5. Writer(d) = {s}
    BY <1>3, <2>3, <2>4
  <2>6. Max({s}) = s
    <3>1. {s} \in SUBSET (1..m) /\ {s} # {}
      OBVIOUS
    <3>2. Max({s}) \in {s}
      BY <1>3, <3>1, MaxIsLargest
    <3> QED
      BY <3>2
  <2>7. At(d, l) = spans[s].rows[d - start[s] + 1][l]
    <3>1. Writer(d) # {} /\ Max(Writer(d)) = s
      BY <2>5, <2>6
    <3> HIDE DEF Writer, start
    <3> QED
      BY <3>1
  <2>8. d - start[s] + 1 = d - g[s - 1] /\ d - g[s - 1] \in 1..Len(spans[s].rows) /\ g[s - 1] + (d - g[s - 1]) = d
    <3>1. PICK a \in Nat, b \in Nat, c \in Nat : a = g[s] /\ b = g[s - 1] /\ c = Len(spans[s].rows) /\ a = b + c
      BY <2>2
    <3>2. b < d /\ d <= a /\ start[s] = 1 + b /\ d \in Int
      BY <2>1, <2>3, <3>1
    <3> HIDE DEF start
    <3>4. b < d /\ d <= a /\ a = b + c
      BY <3>1, <3>2
    <3>3. d - (1 + b) + 1 = d - b /\ d - b \in 1..c /\ b + (d - b) = d
      BY <3>4
    <3> QED
      BY <3>1, <3>2, <3>3
  <2>9. spans[s].rows[d - g[s - 1]] = flat[d]
    BY <2>8 DEF Laid
  <2> HIDE DEF At, start
  <2> QED
    BY <2>7, <2>8, <2>9
<1> HIDE DEF At
<1>5. \A l \in DOMAIN dtypes : [d \in 1..SpanRows(spans) |-> At(d, l)] = [d \in 1..g[m] |-> flat[d][l]]
  <2> SUFFICES ASSUME NEW l \in DOMAIN dtypes, NEW d \in 1..g[m] PROVE At(d, l) = flat[d][l]
    BY <1>2
  <2>1. d \in Int /\ IsRow(d, g, m)
    <3>1. g[m] \in Nat
      BY <1>3
    <3> QED
      BY <3>1 DEF IsRow
  <2> QED
    BY <1>4, <2>1
<1> QED
  BY <1>1, <1>5

\* The parts are flat, cut.
ArePieces(parts, flat, g, m) ==
    /\ m \in Nat /\ DOMAIN parts = 1..m /\ g \in [0..m -> Nat] /\ g[0] = 0
    /\ \A s \in 1..m :
          /\ Len(parts[s]) \in Nat /\ g[s] = g[s - 1] + Len(parts[s])
          /\ DOMAIN parts[s] = 1..Len(parts[s])
          /\ \A r \in 1..Len(parts[s]) : parts[s][r] = flat[g[s - 1] + r]

LEMMA PiecesGrow ==
  ASSUME NEW parts, NEW flat, NEW g, NEW m, ArePieces(parts, flat, g, m)
  PROVE  \A s \in 0..m : g[s] <= g[m]
<1> DEFINE spans == [s \in 1..m |-> [dst |-> 0, rows |-> parts[s]]]
<1>1. \A s \in 1..m : spans[s].dst = 0 /\ spans[s].rows = parts[s]
  OBVIOUS
<1>2. DOMAIN spans = 1..m
  OBVIOUS
<1> HIDE DEF spans
<1>3. Laid(spans, flat, g, m)
  <2>1. /\ m \in Nat /\ g \in [0..m -> Nat] /\ g[0] = 0
        /\ \A s \in 1..m : /\ Len(parts[s]) \in Nat /\ g[s] = g[s - 1] + Len(parts[s])
                           /\ \A r \in 1..Len(parts[s]) : parts[s][r] = flat[g[s - 1] + r]
    BY DEF ArePieces
  <2>2. ASSUME NEW s \in 1..m
        PROVE  /\ Len(spans[s].rows) \in Nat /\ g[s] = g[s - 1] + Len(spans[s].rows)
               /\ spans[s].dst \in {0, 1 + g[s - 1]}
               /\ \A r \in 1..Len(spans[s].rows) : spans[s].rows[r] = flat[g[s - 1] + r]
    <3>1. PICK dst, part : dst = spans[s].dst /\ part = spans[s].rows /\ dst = 0 /\ part = parts[s]
      BY <1>1
    <3>2. /\ Len(part) \in Nat /\ g[s] = g[s - 1] + Len(part)
          /\ \A r \in 1..Len(part) : part[r] = flat[g[s - 1] + r]
      BY <2>1, <3>1
    <3> QED
      BY <3>1, <3>2
  <2> QED
    BY <1>2, <2>1, <2>2 DEF Laid
<1>4. m \in Nat /\ m \in 0..m
  BY DEF ArePieces
<1> QED
  BY <1>3, <1>4, LaidGrows

LEMMA SegmentCount ==
  ASSUME NEW n \in Nat, NEW w \in Nat \ {0}
  PROVE  \E m \in Nat : /\ m = (n + w - 1) \div w /\ m * w >= n /\ ((m - 1) * w < n \/ m = 0)
                        /\ m = 0 => n = 0
<1>1. PICK x \in Nat : x = n + w - 1
  OBVIOUS
<1>2. PICK m \in Nat : m = x \div w
  OBVIOUS
<1>3. PICK r \in 0..w - 1 : x = m * w + r
  <2>1. x = w * (x \div w) + (x % w) /\ x % w \in 0..w - 1
    OBVIOUS
  <2> QED
    BY <1>2, <2>1
<1>4. PICK p \in Nat : p = m * w
  OBVIOUS
<1>5. (m - 1) * w = p - w
  BY <1>4
<1>6. p >= n /\ p - w < n
  BY <1>1, <1>3, <1>4
<1>7. m = 0 => p = 0
  BY <1>4
<1> QED
  BY <1>1, <1>2, <1>4, <1>5, <1>6, <1>7

LEMMA TimesGrows == ASSUME NEW a \in Int, NEW b \in Int, a <= b, NEW w \in Nat PROVE a * w <= b * w
<1>1. PICK d \in Nat : b = a + d
  <2>1. b - a \in Nat /\ b = a + (b - a)
    OBVIOUS
  <2> QED
    BY <2>1
<1>2. b * w = a * w + d * w /\ d * w \in Nat
  BY <1>1
<1> QED
  BY <1>2

\* The segments of a buffer hold its rows end to end.
LEMMA SegmentsArePieces ==
  ASSUME NEW rows, IsRows(rows)
  PROVE  \E g, m : ArePieces(Segments(rows), rows, g, m) /\ g[m] = Len(rows)
<1>1. PICK n \in Nat : n = Len(rows) /\ DOMAIN rows = 1..n
  BY DEF IsRows
<1>2. PICK w \in Nat \ {0} : w = SegmentRows
  BY SegmentAssumption
<1>3. PICK m \in Nat : /\ m = (n + w - 1) \div w /\ m * w >= n /\ ((m - 1) * w < n \/ m = 0)
                       /\ m = 0 => n = 0
  BY SegmentCount
<1> DEFINE parts == Segments(rows)
           Upto(s) == Min({s * w, n})
           g == [s \in 0..m |-> Upto(s)]
<1>4. parts = [s \in 1..m |-> SubSeq(rows, (s - 1) * w + 1, Upto(s))]
  BY <1>1, <1>2, <1>3 DEF Segments
<1>5. ASSUME NEW s \in 0..m PROVE /\ s * w \in Nat /\ Upto(s) \in Nat
                                  /\ Upto(s) = IF s * w <= n THEN s * w ELSE n
  <2>1. s * w \in Nat
    OBVIOUS
  <2>2. PICK a \in Nat : a = s * w
    BY <2>1
  <2>3. Min({a, n}) = IF a <= n THEN a ELSE n
    BY MinOfTwo
  <2> QED
    BY <2>2, <2>3
<1>6. g[0] = 0 /\ g[m] = n /\ g \in [0..m -> Nat]
  <2>1. Upto(0) = 0
    <3>1. 0 * w = 0 /\ 0 \in 0..m
      OBVIOUS
    <3> HIDE DEF Upto
    <3> QED
      BY <1>5, <3>1
  <2>2. Upto(m) = n
    <3>1. m \in 0..m /\ (m * w <= n => m * w = n)
      BY <1>3
    <3> HIDE DEF Upto
    <3> QED
      BY <1>5, <3>1
  <2>3. 0 \in 0..m /\ m \in 0..m
    OBVIOUS
  <2> HIDE DEF Upto
  <2> QED
    BY <1>5, <2>1, <2>2, <2>3
<1>7. PICK R : rows \in Seq(R)
  BY RowsAreSeq
<1>8. ASSUME NEW s \in 1..m
      PROVE  /\ Len(parts[s]) \in Nat /\ g[s] = g[s - 1] + Len(parts[s])
             /\ DOMAIN parts[s] = 1..Len(parts[s])
             /\ \A r \in 1..Len(parts[s]) : parts[s][r] = rows[g[s - 1] + r]
  <2>1. s \in 0..m /\ s - 1 \in 0..m
    OBVIOUS
  <2>2. PICK a \in Nat : a = (s - 1) * w
    BY <1>5, <2>1
  <2>3. PICK b \in Nat : b = s * w
    BY <1>5, <2>1
  <2>4. a < n /\ a <= b
    <3>1. (s - 1) * w <= (m - 1) * w
      <4>1. s - 1 \in Int /\ m - 1 \in Int /\ s - 1 <= m - 1
        OBVIOUS
      <4> QED
        BY <4>1, TimesGrows
    <3>2. (s - 1) * w <= s * w
      <4>1. s - 1 \in Int /\ s \in Int /\ s - 1 <= s
        OBVIOUS
      <4> QED
        BY <4>1, TimesGrows
    <3>3. PICK d \in Int : d = (m - 1) * w
      OBVIOUS
    <3>4. d < n
      <4>1. m # 0
        OBVIOUS
      <4> QED
        BY <1>3, <3>3, <4>1
    <3> QED
      BY <2>2, <2>3, <3>1, <3>2, <3>3, <3>4
  <2>5. PICK e \in Nat : e = Upto(s) /\ a <= e /\ e <= n
    <3>1. Upto(s) = IF b <= n THEN b ELSE n
      BY <1>5, <2>1, <2>3
    <3> HIDE DEF Upto
    <3> QED
      BY <2>4, <3>1
  <2>6. Upto(s - 1) = a
    <3>1. Upto(s - 1) = IF a <= n THEN a ELSE n
      BY <1>5, <2>1, <2>2
    <3> HIDE DEF Upto
    <3> QED
      BY <2>4, <3>1
  <2>7. g[s] = e /\ g[s - 1] = a
    <3> HIDE DEF Upto
    <3> QED
      BY <2>1, <2>5, <2>6
  <2> DEFINE part == SubSeq(rows, a + 1, e)
  <2>8. parts[s] = part
    <3>1. parts[s] = SubSeq(rows, (s - 1) * w + 1, Upto(s))
      BY <1>4
    <3> HIDE DEF parts, Upto
    <3> QED
      BY <2>2, <2>5, <3>1
  <2>9. Len(part) = e - a /\ DOMAIN part = 1..Len(part) /\ \A r \in 1..e - a : part[r] = rows[a + r]
    <3>1. \A i \in a + 1..e : rows[i] \in R
      <4>1. \A i \in a + 1..e : i \in 1..Len(rows)
        BY <1>1, <2>5
      <4> QED
        BY <1>7, <4>1, ElementOfSeq
    <3>2. /\ part \in Seq(R) /\ Len(part) = IF a + 1 <= e THEN e - (a + 1) + 1 ELSE 0
          /\ \A i \in 1..e - (a + 1) + 1 : part[i] = rows[a + 1 + i - 1]
      <4>1. a + 1 \in Int /\ e \in Int
        OBVIOUS
      <4> QED
        BY <3>1, <4>1, SubSeqProperties
    <3> HIDE DEF part
    <3>3. Len(part) = e - a
      BY <2>5, <3>2
    <3>4. ASSUME NEW r \in 1..e - a PROVE part[r] = rows[a + r]
      <4>1. r \in 1..e - (a + 1) + 1 /\ a + 1 + r - 1 = a + r
        OBVIOUS
      <4> QED
        BY <3>2, <4>1
    <3>5. DOMAIN part = 1..Len(part)
      BY <3>2, LenProperties
    <3> QED
      BY <3>3, <3>4, <3>5
  <2> HIDE DEF part, parts, g
  <2>10. e - a \in Nat /\ e = a + (e - a)
    BY <2>5
  <2> QED
    BY <2>7, <2>8, <2>9, <2>10
<1>9. DOMAIN parts = 1..m
  BY <1>4
<1> HIDE DEF parts, g
<1>10. ArePieces(parts, rows, g, m)
  BY <1>6, <1>8, <1>9 DEF ArePieces
<1> QED
  BY <1>1, <1>6, <1>10 DEF parts

LEMMA ViewSpansAreLaid ==
  ASSUME NEW rows, IsRows(rows)
  PROVE  \E g, m : Laid(ViewSpans(rows), rows, g, m) /\ g[m] = Len(rows)
<1>1. PICK g, m : ArePieces(Segments(rows), rows, g, m) /\ g[m] = Len(rows)
  BY SegmentsArePieces
<1>2. PICK parts : parts = Segments(rows)
  OBVIOUS
<1>3. ViewSpans(rows) = [s \in DOMAIN parts |-> [dst |-> 0, rows |-> parts[s]]]
  BY <1>2 DEF ViewSpans
<1>4. DOMAIN ViewSpans(rows) = DOMAIN parts /\ \A s \in DOMAIN parts : ViewSpans(rows)[s].dst = 0 /\ ViewSpans(rows)[s].rows = parts[s]
  BY <1>3
<1>5. Laid(ViewSpans(rows), rows, g, m)
  BY <1>1, <1>2, <1>4 DEF Laid, ArePieces
<1> QED
  BY <1>1, <1>5

LEMMA EndToEndIsLaid ==
  ASSUME NEW parts, NEW flat, NEW g, NEW m, ArePieces(parts, flat, g, m),
         NEW cells, \A j \in 1..g[m] : cells[j] = flat[j].cells
  PROVE  Laid(EndToEnd(parts), cells, g, m)
<1>1. /\ m \in Nat /\ DOMAIN parts = 1..m /\ g \in [0..m -> Nat] /\ g[0] = 0
      /\ \A s \in 1..m : /\ Len(parts[s]) \in Nat /\ g[s] = g[s - 1] + Len(parts[s])
                         /\ DOMAIN parts[s] = 1..Len(parts[s])
                         /\ \A r \in 1..Len(parts[s]) : parts[s][r] = flat[g[s - 1] + r]
  BY DEF ArePieces
<1> DEFINE spans == EndToEnd(parts)
           ns(c) == [p \in 1..(c - 1) |-> Len(parts[p])]
<1>2. spans = [c \in 1..m |-> [dst |-> 1 + Total(ns(c)), rows |-> [r \in DOMAIN parts[c] |-> parts[c][r].cells]]]
  BY <1>1 DEF EndToEnd
<1>3. ASSUME NEW c \in 1..m PROVE Total(ns(c)) = g[c - 1]
  <2>1. PICK k \in Nat : k = c - 1
    OBVIOUS
  <2>2. PICK f, a : f = [j \in 0..k |-> g[j]] /\ a = ns(c)
    OBVIOUS
  <2>3. \A j \in 0..k : j \in 0..m
    BY <1>1, <2>1
  <2>4. \A j \in 1..k : j \in 1..m /\ j \in 0..k /\ j - 1 \in 0..k
    BY <1>1, <2>1
  <2>5. Running(f, a, k)
    <3>1. DOMAIN a = 1..k /\ 0 \in 0..k
      BY <2>1, <2>2
    <3>2. f \in [0..k -> Int] /\ f[0] = 0
      BY <1>1, <2>2, <2>3, <3>1
    <3>3. ASSUME NEW j \in 1..k PROVE a[j] \in Int /\ f[j] = f[j - 1] + a[j]
      BY <1>1, <2>1, <2>2, <2>4
    <3> QED
      BY <3>1, <3>2, <3>3 DEF Running
  <2>6. Total(a) = f[k] /\ k \in 0..k
    BY <2>5, TotalIs
  <2> QED
    BY <2>1, <2>2, <2>6
<1> HIDE DEF spans, ns
<1>4. ASSUME NEW s \in 1..m
      PROVE  /\ Len(spans[s].rows) = Len(parts[s]) /\ spans[s].dst = 1 + g[s - 1]
             /\ \A r \in 1..Len(parts[s]) : spans[s].rows[r] = cells[g[s - 1] + r]
  <2>1. spans[s].dst = 1 + g[s - 1] /\ spans[s].rows = [r \in DOMAIN parts[s] |-> parts[s][r].cells]
    BY <1>2, <1>3
  <2>2. PICK k, rows : k \in Nat /\ k = Len(parts[s]) /\ rows = spans[s].rows
    BY <1>1
  <2>3. rows = [r \in 1..k |-> parts[s][r].cells]
    BY <1>1, <2>1, <2>2
  <2>4. Len(rows) = k
    BY <2>2, <2>3
  <2>5. ASSUME NEW r \in 1..k PROVE rows[r] = cells[g[s - 1] + r]
    <3>1. parts[s][r] = flat[g[s - 1] + r]
      BY <1>1, <2>2
    <3>2. g[s - 1] + r \in 1..g[m]
      <4>1. g[s] = g[s - 1] + k /\ g[s - 1] \in Nat /\ g[s] \in Nat /\ g[m] \in Nat
        BY <1>1, <2>2
      <4>2. g[s] <= g[m]
        <5>1. s \in 0..m
          BY <1>1
        <5> QED
          BY <5>1, PiecesGrow
      <4>3. PICK x \in Nat, y \in Nat, z \in Nat : x = g[s - 1] /\ y = g[s] /\ z = g[m] /\ y = x + k /\ y <= z
        BY <4>1, <4>2
      <4>4. x + r \in 1..z
        <5>1. y = x + k /\ y <= z
          BY <4>3
        <5> QED
          BY <2>2, <5>1
      <4> QED
        BY <4>3, <4>4
    <3> QED
      BY <2>3, <3>1, <3>2
  <2> QED
    BY <2>1, <2>2, <2>4, <2>5
<1>5. DOMAIN spans = 1..m
  BY <1>2
<1>6. Laid(spans, cells, g, m)
  <2>1. ASSUME NEW s \in 1..m
        PROVE  /\ Len(spans[s].rows) \in Nat /\ g[s] = g[s - 1] + Len(spans[s].rows)
               /\ spans[s].dst \in {0, 1 + g[s - 1]}
               /\ \A r \in 1..Len(spans[s].rows) : spans[s].rows[r] = cells[g[s - 1] + r]
    BY <1>1, <1>4
  <2> QED
    BY <1>1, <1>5, <2>1 DEF Laid
<1> QED
  BY <1>6 DEF spans

\* ---- the lanes of an upload --------------------------------------------------------
\* A lane as its side reads it shows a column of the table.
Shown(col, table, name, d) ==
    /\ {"home", "dtype", "width", "data", "valid"} \subseteq DOMAIN col
    /\ col.dtype = d /\ col.data = [i \in DOMAIN table |-> col.data[i]]
    /\ IF col.home = "cuda" THEN Shows(Wide(col), table, name) ELSE col.width = 8
    /\ col.width = 8 => Shows(col, table, name)

LEMMA HostShown ==
  ASSUME NEW table, NEW name, NEW d
  PROVE  Shown(HostColumn(d, Cells(table, name)), table, name, d)
<1>1. PICK col : col = HostColumn(d, Cells(table, name))
  OBVIOUS
<1>2. Shows(col, table, name)
  BY <1>1, HostShows
<1>3. {"home", "dtype", "width", "data", "valid"} \subseteq DOMAIN col /\ col.home = "cpu" /\ col.dtype = d
      /\ col.data = [i \in DOMAIN table |-> col.data[i]] /\ col.width = 8
  BY <1>1 DEF HostColumn, Cells
<1> QED
  BY <1>1, <1>2, <1>3 DEF Shown

LEMMA LeanShown ==
  ASSUME NEW table, NEW name, NEW d, NEW col, Shown(col, table, name, d), col.home = "cpu", NEW home, home # "cuda"
  PROVE  Shown([col EXCEPT !.home = home], table, name, d)
<1>1. PICK to : to = [col EXCEPT !.home = home]
  OBVIOUS
<1>2. DOMAIN to = DOMAIN col /\ to.home = home /\ to.dtype = col.dtype /\ to.data = col.data /\ to.valid = col.valid /\ to.width = col.width
  BY <1>1 DEF Shown
<1>3. Shows(to, table, name)
  BY <1>2 DEF Shown, Shows
<1> QED
  BY <1>1, <1>2, <1>3 DEF Shown

LEMMA DeviceShown ==
  ASSUME NEW table, NEW name, WordCells(table, name), NEW d \in Types, NEW packs
  PROVE  Shown(DeviceColumn(d, Cells(table, name), packs), table, name, d)
<1>1. PICK cells, host, dev : /\ cells = Cells(table, name) /\ host = HostColumn(d, cells)
                              /\ dev = DeviceColumn(d, cells, packs)
  OBVIOUS
<1>2. DOMAIN cells = DOMAIN table /\ \A i \in DOMAIN cells : cells[i] \in Word \cup {NoCell}
  BY <1>1 DEF Cells, WordCells
<1>3. /\ {"home", "dtype", "width", "data", "valid"} \subseteq DOMAIN dev /\ dev.home = "cuda" /\ dev.dtype = d
      /\ DOMAIN dev.data = DOMAIN table /\ dev.data = [i \in DOMAIN dev.data |-> dev.data[i]] /\ dev.valid = host.valid
      /\ \A i \in DOMAIN table : Load(dev, i) = host.data[i]
  <2>1. DOMAIN host.data = DOMAIN table
    BY <1>1, <1>2 DEF HostColumn
  <2>2. {"home", "dtype", "width", "data", "valid"} \subseteq DOMAIN dev /\ dev.home = "cuda" /\ dev.dtype = d
        /\ dev.data = [i \in DOMAIN dev.data |-> dev.data[i]]
    BY <1>1 DEF DeviceColumn, HostColumn
  <2>3. CASE d = "i64"
    BY <1>1, <1>2, <2>2, <2>3, LanesReadBack
  <2>4. CASE d = "f64"
    <3>1. /\ dev.valid = host.valid
          /\ DOMAIN dev.data = DOMAIN host.data /\ \A i \in DOMAIN host.data : dev.data[i] = host.data[i]
      BY <1>1, <2>4 DEF DeviceColumn, HostColumn
    <3> QED
      BY <2>1, <2>2, <2>4, <3>1 DEF Load
  <2> QED
    BY <2>3, <2>4 DEF Types
<1>4. Shows(host, table, name)
  BY <1>1, HostShows
<1>5. Wide(dev).valid = dev.valid /\ DOMAIN Wide(dev).data = DOMAIN dev.data /\ \A i \in DOMAIN dev.data : Wide(dev).data[i] = Load(dev, i)
  BY <1>3 DEF Wide
<1>6. Shows(Wide(dev), table, name)
  BY <1>3, <1>4, <1>5 DEF Shows
<1>7. ASSUME dev.width = 8 PROVE Shows(dev, table, name)
  <2>1. \A i \in DOMAIN host.data : dev.data[i] = host.data[i]
    <3>1. PICK w : dev = [host EXCEPT !.home = "cuda", !.width = w,
                                     !.data = [i \in DOMAIN host.data |-> IF w = 8 THEN host.data[i] ELSE Stored(host.data[i], w)]]
      BY <1>1 DEF DeviceColumn
    <3>2. host = [home |-> host.home, dtype |-> host.dtype, width |-> host.width, data |-> host.data, valid |-> host.valid]
      BY <1>1 DEF HostColumn
    <3>3. dev.width = w /\ dev.data = [i \in DOMAIN host.data |-> IF w = 8 THEN host.data[i] ELSE Stored(host.data[i], w)]
      BY <3>1, <3>2
    <3> QED
      BY <1>7, <3>3
  <2>2. DOMAIN host.data = DOMAIN table
    BY <1>1, <1>2 DEF HostColumn
  <2> QED
    BY <1>3, <1>4, <2>1, <2>2 DEF Shows
<1> QED
  BY <1>1, <1>3, <1>6, <1>7 DEF Shown

\* What the spans of an upload hold: columns of the table, of the lanes' types.
Uploads(spans, dtypes, names, table) ==
    /\ \A l \in DOMAIN dtypes : dtypes[l] \in Types /\ WordCells(table, names[l])
    /\ \E flat, g, m : /\ Laid(spans, flat, g, m) /\ DOMAIN table = 1..g[m]
                       /\ \A l \in DOMAIN dtypes : \A d \in DOMAIN table : flat[d][l] = table[d][names[l]]
AllShown(lanes, dtypes, names, table) ==
    /\ lanes = [l \in DOMAIN dtypes |-> lanes[l]]
    /\ \A l \in DOMAIN dtypes : Shown(lanes[l], table, names[l], dtypes[l])

LEMMA HostLanes ==
  ASSUME NEW spans, NEW dtypes, NEW names, NEW table, Uploads(spans, dtypes, names, table),
         NEW up, up = UploadRows(spans, dtypes), Fine(up)
  PROVE  up.lanes = [l \in DOMAIN dtypes |-> HostColumn(dtypes[l], Cells(table, names[l]))]
<1>1. PICK flat, g, m : /\ Laid(spans, flat, g, m) /\ DOMAIN table = 1..g[m]
                        /\ \A l \in DOMAIN dtypes : \A d \in DOMAIN table : flat[d][l] = table[d][names[l]]
  BY DEF Uploads
<1>2. up.lanes = [l \in DOMAIN dtypes |-> HostColumn(dtypes[l], [d \in 1..g[m] |-> flat[d][l]])]
  BY <1>1, LaidUpload
<1>3. \A l \in DOMAIN dtypes : [d \in 1..g[m] |-> flat[d][l]] = Cells(table, names[l])
  BY <1>1 DEF Cells
<1> QED
  BY <1>2, <1>3

LEMMA HostAllShown ==
  ASSUME NEW spans, NEW dtypes, NEW names, NEW table, Uploads(spans, dtypes, names, table),
         NEW up, up = UploadRows(spans, dtypes), Fine(up)
  PROVE  AllShown(up.lanes, dtypes, names, table)
<1>1. up.lanes = [l \in DOMAIN dtypes |-> HostColumn(dtypes[l], Cells(table, names[l]))]
  BY HostLanes
<1>2. up.lanes = [l \in DOMAIN dtypes |-> up.lanes[l]]
  BY <1>1
<1>3. ASSUME NEW l \in DOMAIN dtypes PROVE Shown(up.lanes[l], table, names[l], dtypes[l])
  <2>1. up.lanes[l] = HostColumn(dtypes[l], Cells(table, names[l]))
    BY <1>1
  <2> QED
    BY <2>1, HostShown
<1> QED
  BY <1>2, <1>3 DEF AllShown

\* The cells the device takes from the host's staging copy are the table's.
LEMMA StagedCells ==
  ASSUME NEW table, NEW name, NEW d, NEW col, col = HostColumn(d, Cells(table, name))
  PROVE  [i \in DOMAIN col.data |-> IF BitAt(col.valid, i) THEN col.data[i] ELSE NoCell] = Cells(table, name)
<1>1. Shows(col, table, name)
  BY HostShows
<1> QED
  BY <1>1 DEF Shows, Cells

LEMMA CudaAllShown ==
  ASSUME NEW spans, NEW dtypes, NEW names, NEW table, Uploads(spans, dtypes, names, table), NEW packs,
         NEW up, up = DeviceUpload(spans, dtypes, packs), Fine(up)
  PROVE  AllShown(up.lanes, dtypes, names, table)
<1> DEFINE Staged(col) == [i \in DOMAIN col.data |-> IF BitAt(col.valid, i) THEN col.data[i] ELSE NoCell]
<1>1. PICK host : host = UploadRows(spans, dtypes)
  OBVIOUS
<1>2. up = [host EXCEPT !.lanes = [l \in DOMAIN host.lanes |-> DeviceColumn(host.lanes[l].dtype, Staged(host.lanes[l]), packs)]]
  BY <1>1 DEF DeviceUpload
<1>3. host = [err |-> host.err, lanes |-> host.lanes]
  BY <1>1 DEF UploadRows
<1> HIDE DEF Staged
<1>4. up.err = host.err /\ up.lanes = [l \in DOMAIN host.lanes |-> DeviceColumn(host.lanes[l].dtype, Staged(host.lanes[l]), packs)]
  BY <1>2, <1>3
<1>5. Fine(host)
  BY <1>4, Zenon DEF Fine
<1>6. host.lanes = [l \in DOMAIN dtypes |-> HostColumn(dtypes[l], Cells(table, names[l]))]
  BY <1>1, <1>5, HostLanes
<1>7. ASSUME NEW l \in DOMAIN dtypes PROVE Shown(up.lanes[l], table, names[l], dtypes[l])
  <2>1. PICK col : col = host.lanes[l] /\ col = HostColumn(dtypes[l], Cells(table, names[l]))
    BY <1>6
  <2>2. up.lanes[l] = DeviceColumn(col.dtype, Staged(col), packs)
    BY <1>4, <1>6, <2>1
  <2>3. Staged(col) = Cells(table, names[l])
    BY <2>1, StagedCells DEF Staged
  <2>4. col.dtype = dtypes[l]
    BY <2>1 DEF HostColumn
  <2>5. dtypes[l] \in Types /\ WordCells(table, names[l])
    BY DEF Uploads
  <2> QED
    BY <2>2, <2>3, <2>4, <2>5, DeviceShown
<1>8. up.lanes = [l \in DOMAIN dtypes |-> up.lanes[l]]
  BY <1>4, <1>6
<1> QED
  BY <1>7, <1>8 DEF AllShown

LEMMA HomedIs ==
  ASSUME NEW spans, NEW dtypes, NEW g, NEW up, up = [UploadRows(spans, dtypes) EXCEPT !.lanes = Homed(@, g)]
  PROVE  up.err = UploadRows(spans, dtypes).err /\ up.lanes = Homed(UploadRows(spans, dtypes).lanes, g)
<1>1. PICK host : host = UploadRows(spans, dtypes)
  OBVIOUS
<1>2. host = [err |-> host.err, lanes |-> host.lanes]
  BY <1>1 DEF UploadRows
<1>3. up = [host EXCEPT !.lanes = Homed(host.lanes, g)]
  BY <1>1
<1>4. up.err = host.err /\ up.lanes = Homed(host.lanes, g)
  BY <1>2, <1>3
<1> QED
  BY <1>1, <1>4

\* A device without kernels of its own keeps the host's lanes under its name.
LEMMA LeanAllShown ==
  ASSUME NEW spans, NEW dtypes, NEW names, NEW table, Uploads(spans, dtypes, names, table), NEW g, g # "cuda",
         NEW up, up = [UploadRows(spans, dtypes) EXCEPT !.lanes = Homed(@, g)], Fine(up)
  PROVE  AllShown(up.lanes, dtypes, names, table)
<1>1. PICK host : host = UploadRows(spans, dtypes)
  OBVIOUS
<1>2. up.err = host.err /\ up.lanes = Homed(host.lanes, g)
  BY <1>1, HomedIs
<1>3. Fine(host)
  BY <1>2, Zenon DEF Fine
<1>4. host.lanes = [l \in DOMAIN dtypes |-> HostColumn(dtypes[l], Cells(table, names[l]))]
  BY <1>1, <1>3, HostLanes
<1>5. AllShown(host.lanes, dtypes, names, table)
  BY <1>1, <1>3, HostAllShown
<1>6. up.lanes = [l \in DOMAIN dtypes |-> [host.lanes[l] EXCEPT !.home = g]]
  BY <1>2, <1>4 DEF Homed
<1>7. ASSUME NEW l \in DOMAIN dtypes PROVE Shown(up.lanes[l], table, names[l], dtypes[l])
  <2>1. host.lanes[l].home = "cpu"
    BY <1>4 DEF HostColumn
  <2>2. Shown(host.lanes[l], table, names[l], dtypes[l])
    BY <1>5 DEF AllShown
  <2>3. up.lanes[l] = [host.lanes[l] EXCEPT !.home = g]
    BY <1>6
  <2> QED
    BY <2>1, <2>2, <2>3, LeanShown
<1>8. up.lanes = [l \in DOMAIN dtypes |-> up.lanes[l]]
  BY <1>6
<1> QED
  BY <1>7, <1>8 DEF AllShown

LEMMA OnDeviceShown ==
  ASSUME NEW spans, NEW dtypes, NEW names, NEW table, Uploads(spans, dtypes, names, table), NEW g, NEW device,
         NEW up, up = OnDevice(g, device, spans, dtypes), Fine(up)
  PROVE  AllShown(up.lanes, dtypes, names, table)
<1>1. CASE g = "cuda"
  <2>1. PICK packs : packs = (device = "packs")
    OBVIOUS
  <2>2. up = DeviceUpload(spans, dtypes, packs)
    BY <1>1, <2>1, Zenon DEF OnDevice
  <2> QED
    BY <2>2, CudaAllShown
<1>2. CASE g # "cuda"
  <2>1. up = [UploadRows(spans, dtypes) EXCEPT !.lanes = Homed(@, g)]
    BY <1>2, Zenon DEF OnDevice
  <2> QED
    BY <1>2, <2>1, LeanAllShown
<1> QED
  BY <1>1, <1>2

\* Every lane an upload leaves holds, cell by cell and NULL by NULL, its column of
\* the table, whatever the side, the width it packs to and the segments its rows
\* arrived in.
THEOREM UploadsShowTheirTable ==
  ASSUME NEW spans, NEW dtypes, NEW names, NEW table, Uploads(spans, dtypes, names, table), NEW g, NEW device
  PROVE  /\ Fine(UploadExact(g, device, spans, dtypes)) =>
               AllShown(UploadExact(g, device, spans, dtypes).lanes, dtypes, names, table)
         /\ Fine(UploadPlain(g, device, spans, dtypes)) =>
               AllShown(UploadPlain(g, device, spans, dtypes).lanes, dtypes, names, table)
<1>1. ASSUME NEW up, up = UploadExact(g, device, spans, dtypes), Fine(up) PROVE AllShown(up.lanes, dtypes, names, table)
  <2>1. CASE g = "none"
    <3>1. up = UploadRows(spans, dtypes)
      BY <1>1, <2>1, Zenon DEF UploadExact
    <3> QED
      BY <1>1, <3>1, HostAllShown
  <2>2. CASE g # "none" /\ device = "fails"
    <3>1. up = [err |-> "GPUDB_DEVICE_UPLOAD_REFUSED", lanes |-> <<>>]
      BY <1>1, <2>2, Zenon DEF UploadExact
    <3>2. up.err = "GPUDB_DEVICE_UPLOAD_REFUSED"
      BY <3>1
    <3> QED
      BY <1>1, <3>2, Zenon DEF Fine
  <2>3. CASE g # "none" /\ device # "fails"
    <3>1. up = OnDevice(g, device, spans, dtypes)
      BY <1>1, <2>3, Zenon DEF UploadExact
    <3> QED
      BY <1>1, <3>1, OnDeviceShown
  <2> QED
    BY <2>1, <2>2, <2>3
<1>2. ASSUME NEW up, up = UploadPlain(g, device, spans, dtypes), Fine(up) PROVE AllShown(up.lanes, dtypes, names, table)
  <2>1. CASE g = "none" \/ device = "fails"
    <3>1. up = UploadRows(spans, dtypes)
      BY <1>2, <2>1, Zenon DEF UploadPlain
    <3> QED
      BY <1>2, <3>1, HostAllShown
  <2>2. CASE ~(g = "none" \/ device = "fails")
    <3>1. up = OnDevice(g, "plain", spans, dtypes)
      BY <1>2, <2>2, Zenon DEF UploadPlain
    <3> QED
      BY <1>2, <3>1, OnDeviceShown
  <2> QED
    BY <2>1, <2>2
<1> QED
  BY <1>1, <1>2

\* ---- the set an upload publishes -----------------------------------------------------
ShownSet(set) ==
    /\ IsTable(set.rows) /\ Shown(set.key, set.rows, "k", "i64") /\ set.exact \in BOOLEAN
    /\ \E d \in Types : Shown(set.val, set.rows, "v", d)
    /\ set.exact => /\ Shown(set.val, set.rows, "v", "i64")
                    /\ set.ints = <<set.ints[1]>> /\ Shown(set.ints[1], set.rows, "i", "i64")
                    /\ set.dbls = <<set.dbls[1]>> /\ Shown(set.dbls[1], set.rows, "f", "f64")

FourNames == <<"k", "v", "i", "f">>
FourTypes == <<"i64", "i64", "i64", "f64">>
TwoNames == <<"k", "v">>

LEMMA FourAre ==
  /\ DOMAIN FourNames = 1..4 /\ DOMAIN FourTypes = 1..4
  /\ FourNames[1] = "k" /\ FourNames[2] = "v" /\ FourNames[3] = "i" /\ FourNames[4] = "f"
  /\ FourTypes[1] = "i64" /\ FourTypes[2] = "i64" /\ FourTypes[3] = "i64" /\ FourTypes[4] = "f64"
BY DEF FourNames, FourTypes

LEMMA FourShown ==
  ASSUME NEW lanes, NEW rows, IsTable(rows), AllShown(lanes, FourTypes, FourNames, rows)
  PROVE  ShownSet(SetOf(lanes, TRUE, rows))
<1>1. /\ lanes = [l \in 1..4 |-> lanes[l]]
      /\ Shown(lanes[1], rows, "k", "i64") /\ Shown(lanes[2], rows, "v", "i64")
      /\ Shown(lanes[3], rows, "i", "i64") /\ Shown(lanes[4], rows, "f", "f64")
  BY FourAre DEF AllShown
<1>2. Len(lanes) = 4
  BY <1>1
<1>3. PICK set : set = SetOf(lanes, TRUE, rows)
  OBVIOUS
<1>4. /\ set.key = lanes[1] /\ set.val = lanes[2] /\ set.ints = <<lanes[3]>> /\ set.dbls = <<lanes[4]>>
      /\ set.exact = TRUE /\ set.rows = rows
  BY <1>2, <1>3 DEF SetOf
<1>5. set.ints[1] = lanes[3] /\ set.dbls[1] = lanes[4]
  BY <1>4
<1>6. "i64" \in Types
  BY DEF Types
<1> QED
  BY <1>1, <1>3, <1>4, <1>5, <1>6 DEF ShownSet

LEMMA TwoShown ==
  ASSUME NEW lanes, NEW rows, IsTable(rows), NEW d \in Types, AllShown(lanes, <<"i64", d>>, TwoNames, rows)
  PROVE  ShownSet(SetOf(lanes, FALSE, rows))
<1>1. /\ lanes = [l \in 1..2 |-> lanes[l]]
      /\ Shown(lanes[1], rows, "k", "i64") /\ Shown(lanes[2], rows, "v", d)
  BY DEF AllShown, TwoNames
<1>2. PICK set : set = SetOf(lanes, FALSE, rows)
  OBVIOUS
<1>3. /\ set.key = lanes[1] /\ set.val = lanes[2] /\ set.exact = FALSE /\ set.rows = rows
  BY <1>2 DEF SetOf
<1> QED
  BY <1>1, <1>2, <1>3 DEF ShownSet

\* Rows of cells in segments, each where the last one ended.
LEMMA ViewUploads ==
  ASSUME NEW dtypes, NEW names, NEW table, IsRows(table), NEW cells,
         cells = [r \in DOMAIN table |-> cells[r]],
         \A l \in DOMAIN dtypes : /\ dtypes[l] \in Types /\ WordCells(table, names[l])
                                  /\ \A d \in DOMAIN table : cells[d][l] = table[d][names[l]]
  PROVE  Uploads(ViewSpans(cells), dtypes, names, table)
<1>1. PICK n \in Nat : DOMAIN table = 1..n
  BY DEF IsRows
<1>2. cells = [r \in 1..n |-> cells[r]] /\ DOMAIN cells = 1..n /\ Len(cells) = n
  BY <1>1
<1>3. IsRows(cells)
  BY <1>2 DEF IsRows
<1>4. PICK g, m : Laid(ViewSpans(cells), cells, g, m) /\ g[m] = n
  BY <1>2, <1>3, ViewSpansAreLaid
<1> QED
  BY <1>1, <1>4 DEF Uploads

\* The rows that are sent are rows of the statement's table.
LEMMA SentIs ==
  ASSUME NEW s, IsTable(s.rows)
  PROVE  IsTable(Sent(s))
<1>1. CASE s.exact
  BY <1>1 DEF Sent
<1>2. CASE ~s.exact
  <2>1. PICK n \in Nat : n = Len(s.rows) /\ DOMAIN s.rows = 1..n /\ n <= W
    BY DEF IsTable, Lanes, IsRows
  <2> DEFINE J == {j \in DOMAIN s.rows : s.rows[j].k # NoCell /\ s.rows[j].v # NoCell}
  <2>2. Sent(s) = Picked(s.rows, J)
    BY <1>2 DEF Sent, Selected
  <2>3. J \in SUBSET (1..n)
    BY <2>1
  <2> HIDE DEF J
  <2>4. IsFiniteSet(1..n) /\ Cardinality(1..n) = n
    BY FS_Interval
  <2>5. IsFiniteSet(J) /\ Cardinality(J) <= n /\ J \in SUBSET Int
    <3>1. IsFiniteSet(J) /\ Cardinality(J) <= Cardinality(1..n)
      BY <2>3, <2>4, FS_Subset
    <3>2. 1..n \subseteq Int
      OBVIOUS
    <3> QED
      BY <2>3, <2>4, <3>1, <3>2
  <2>6. PICK e, c : e = Rising(J) /\ c \in Nat /\ c = Cardinality(J) /\ DOMAIN e = 1..c /\ \A k \in 1..c : e[k] \in J
    <3>1. Ascends(Rising(J), J)
      BY <2>5, RisingAscends
    <3>2. PICK e, c : e = Rising(J) /\ c = Cardinality(J)
      OBVIOUS
    <3>3. c \in Nat /\ DOMAIN e = 1..c /\ \A k \in 1..c : e[k] \in J
      BY <3>1, <3>2 DEF Ascends
    <3> QED
      BY <3>2, <3>3
  <2>7. PICK rows : rows = Sent(s)
    OBVIOUS
  <2>8. rows = [k \in 1..c |-> s.rows[e[k]]]
    BY <2>2, <2>6, <2>7 DEF Picked
  <2>9. Len(rows) = c /\ DOMAIN rows = 1..c /\ rows = [k \in 1..c |-> rows[k]]
    BY <2>6, <2>8
  <2>10. IsRows(rows) /\ Len(rows) <= W
    <3>1. W \in Int
      BY WordFacts
    <3>2. c <= n
      BY <2>5, <2>6
    <3> QED
      BY <2>1, <2>6, <2>9, <3>1, <3>2 DEF IsRows
  <2>11. ASSUME NEW name \in {"k", "v", "i", "f"} PROVE WordCells(rows, name)
    <3>1. \A i \in 1..n : s.rows[i][name] \in Word \cup {NoCell}
      BY <2>1 DEF IsTable, Lanes, WordCells
    <3>2. \A k \in 1..c : e[k] \in 1..n
      BY <2>3, <2>6
    <3> QED
      BY <2>8, <2>9, <3>1, <3>2 DEF WordCells
  <2> QED
    BY <2>7, <2>10, <2>11 DEF IsTable, Lanes
<1> QED
  BY <1>1, <1>2

\* What a row upload publishes shows the table it names.
LEMMA StoredRowsShown ==
  ASSUME NEW g, NEW s, s.scan = <<>>, IsTable(s.rows), s.exact \in BOOLEAN, s.vdt \in Types,
         NEW a, a = Stores(g, s), a.set # Nothing
  PROVE  ShownSet(a.set)
<1>1. PICK rows : rows = Sent(s) /\ IsTable(rows)
  BY SentIs
<1>2. PICK n \in Nat : DOMAIN rows = 1..n
  BY <1>1 DEF IsTable, Lanes, IsRows
<1>3. CASE s.exact
  <2>1. PICK cells : cells = [r \in DOMAIN rows |-> Exact(rows[r])]
    OBVIOUS
  <2>2. PICK up, e : /\ up = UploadExact(g, s.device, ViewSpans(cells), FourTypes)
                     /\ e = s.exact /\ a = Published(up, e, rows)
    <3>1. cells = [r \in DOMAIN rows |-> IF s.exact THEN Exact(rows[r]) ELSE <<rows[r].k, rows[r].v>>]
      BY <1>3, <2>1
    <3>2. a = LET spans == ViewSpans([r \in DOMAIN Sent(s) |-> IF s.exact THEN Exact(Sent(s)[r]) ELSE <<Sent(s)[r].k, Sent(s)[r].v>>])
              IN  Published(UploadExact(g, s.device, spans, FourTypes), s.exact, Sent(s))
      BY <1>3, Zenon DEF Stores, Uploaded, FourTypes
    <3>3. a = Published(UploadExact(g, s.device, ViewSpans(cells), FourTypes), s.exact, rows)
      BY <1>1, <3>1, <3>2
    <3> QED
      BY <3>3
  <2>3. up.err = "" /\ a.set = SetOf(up.lanes, e, rows)
    BY <2>2, PublishedIs
  <2>4. Uploads(ViewSpans(cells), FourTypes, FourNames, rows)
    <3>1. ASSUME NEW l \in 1..4
          PROVE  /\ FourTypes[l] \in Types /\ WordCells(rows, FourNames[l])
                 /\ \A d \in DOMAIN rows : cells[d][l] = rows[d][FourNames[l]]
      <4>1. \A d \in DOMAIN rows : cells[d] = <<rows[d].k, rows[d].v, rows[d].i, rows[d].f>>
        BY <2>1 DEF Exact
      <4>2. CASE l = 1
        BY <1>1, <4>1, <4>2, FourAre DEF Types, IsTable, Lanes
      <4>3. CASE l = 2
        BY <1>1, <4>1, <4>3, FourAre DEF Types, IsTable, Lanes
      <4>4. CASE l = 3
        BY <1>1, <4>1, <4>4, FourAre DEF Types, IsTable, Lanes
      <4>5. CASE l = 4
        BY <1>1, <4>1, <4>5, FourAre DEF Types, IsTable, Lanes
      <4> QED
        BY <4>2, <4>3, <4>4, <4>5
    <3>2. cells = [r \in DOMAIN rows |-> cells[r]] /\ IsRows(rows)
      BY <1>1, <2>1 DEF IsTable, Lanes
    <3> QED
      BY <3>1, <3>2, FourAre, ViewUploads
  <2>5. Fine(up)
    BY <2>3, Zenon DEF Fine
  <2>6. AllShown(up.lanes, FourTypes, FourNames, rows)
    BY <2>2, <2>4, <2>5, UploadsShowTheirTable
  <2>7. e = TRUE
    BY <1>3, <2>2
  <2>8. a.set = SetOf(up.lanes, TRUE, rows)
    BY <2>3, <2>7
  <2> QED
    BY <1>1, <2>6, <2>8, FourShown
<1>4. CASE ~s.exact
  <2>1. PICK cells : cells = [r \in DOMAIN rows |-> <<rows[r].k, rows[r].v>>]
    OBVIOUS
  <2> DEFINE two == <<"i64", s.vdt>>
  <2>2. PICK up, e : /\ up = UploadPlain(g, s.device, ViewSpans(cells), two)
                     /\ e = s.exact /\ a = Published(up, e, rows)
    <3>1. cells = [r \in DOMAIN rows |-> IF s.exact THEN Exact(rows[r]) ELSE <<rows[r].k, rows[r].v>>]
      BY <1>4, <2>1
    <3>2. a = LET spans == ViewSpans([r \in DOMAIN Sent(s) |-> IF s.exact THEN Exact(Sent(s)[r]) ELSE <<Sent(s)[r].k, Sent(s)[r].v>>])
              IN  Published(UploadPlain(g, s.device, spans, <<"i64", s.vdt>>), s.exact, Sent(s))
      BY <1>4, Zenon DEF Stores, Uploaded
    <3>3. a = Published(UploadPlain(g, s.device, ViewSpans(cells), two), s.exact, rows)
      BY <1>1, <3>1, <3>2
    <3> QED
      BY <3>3
  <2>3. up.err = "" /\ a.set = SetOf(up.lanes, e, rows)
    BY <2>2, PublishedIs
  <2>4. Uploads(ViewSpans(cells), two, TwoNames, rows)
    <3>1. ASSUME NEW l \in 1..2
          PROVE  /\ two[l] \in Types /\ WordCells(rows, TwoNames[l])
                 /\ \A d \in DOMAIN rows : cells[d][l] = rows[d][TwoNames[l]]
      <4>1. \A d \in DOMAIN rows : cells[d] = <<rows[d].k, rows[d].v>>
        BY <2>1
      <4>2. CASE l = 1
        BY <1>1, <4>1, <4>2 DEF Types, IsTable, Lanes, TwoNames
      <4>3. CASE l = 2
        BY <1>1, <4>1, <4>3 DEF IsTable, Lanes, TwoNames
      <4> QED
        BY <4>2, <4>3
    <3>2. cells = [r \in DOMAIN rows |-> cells[r]] /\ IsRows(rows) /\ DOMAIN two = 1..2
      BY <1>1, <2>1 DEF IsTable, Lanes
    <3> HIDE DEF two
    <3> QED
      BY <3>1, <3>2, ViewUploads
  <2>5. Fine(up)
    BY <2>3, Zenon DEF Fine
  <2>6. AllShown(up.lanes, two, TwoNames, rows)
    <3> HIDE DEF two
    <3> QED
      BY <2>2, <2>4, <2>5, UploadsShowTheirTable
  <2>7. e = FALSE
    BY <1>4, <2>2
  <2>8. a.set = SetOf(up.lanes, FALSE, rows)
    BY <2>3, <2>7
  <2> QED
    BY <1>1, <2>6, <2>8, TwoShown
<1> QED
  BY <1>3, <1>4

\* ---- the rows of a column upload -----------------------------------------------------
\* e has the positions 1..n, each once, by id and then by position.
Sorts(e, ids, n) ==
    /\ DOMAIN e = 1..n /\ \A k \in 1..n : e[k] \in 1..n
    /\ \A x \in 1..n : \E k \in 1..n : e[k] = x
    /\ \A i, j \in 1..n : i < j => e[i] # e[j] /\ ids[e[i]] <= ids[e[j]]

LEMMA StableSorts ==
  ASSUME NEW n \in Nat, NEW ids \in [1..n -> Int]
  PROVE  Sorts(Stable(ids), ids, n)
<1> DEFINE Less(a, b) == ids[a] < ids[b] \/ (ids[a] = ids[b] /\ a < b)
           R == {p \in (1..n) \X (1..n) : Less(p[1], p[2])}
<1>1. \A a, b \in 1..n : <<a, b>> \in R <=> Less(a, b)
  <2> HIDE DEF Less
  <2> QED
    OBVIOUS
<1>2. IsFiniteSet(1..n) /\ Cardinality(1..n) = n
  BY FS_Interval
<1>3. IsOrder(R, 1..n)
  <2>1. \A a, b \in 1..n : <<a, b>> \in R <=> ids[a] < ids[b] \/ (ids[a] = ids[b] /\ a < b)
    BY <1>1
  <2>2. 1..n \in SUBSET Int /\ \A x \in 1..n : ids[x] \in Int
    OBVIOUS
  <2> HIDE DEF R
  <2> QED
    BY <2>1, <2>2, KeyedOrder
<1>4. PICK e : e = Stable(ids)
  OBVIOUS
<1>5. e = [j \in 1..n |-> CHOOSE x \in 1..n : Cardinality({y \in 1..n : Less(y, x)}) = j - 1]
  <2>1. e = [j \in 1..Cardinality(DOMAIN ids) |->
              CHOOSE x \in DOMAIN ids : Cardinality({y \in DOMAIN ids : Less(y, x)}) = j - 1]
    BY <1>4 DEF Stable, InOrder
  <2>2. DOMAIN ids = 1..n
    OBVIOUS
  <2> HIDE DEF Less
  <2> QED
    BY <1>2, <2>1, <2>2
<1>6. \A x \in 1..n : Cardinality({y \in 1..n : Less(y, x)}) = RankOf(R, 1..n, x)
  <2>1. \A x \in 1..n : {y \in 1..n : Less(y, x)} = Below(R, 1..n, x)
    <3> HIDE DEF Less, R
    <3> QED
      BY <1>1 DEF Below
  <2> QED
    BY <2>1, Zenon DEF RankOf
<1> HIDE DEF R
<1>7. \A j \in 0..n - 1 : \E x \in 1..n : RankOf(R, 1..n, x) = j
  BY <1>2, <1>3, RanksAreTaken
<1>8. ASSUME NEW j \in 1..n PROVE e[j] \in 1..n /\ RankOf(R, 1..n, e[j]) = j - 1
  <2> HIDE DEF Less
  <2>1. j - 1 \in 0..n - 1
    OBVIOUS
  <2>2. \E x \in 1..n : Cardinality({y \in 1..n : Less(y, x)}) = j - 1
    BY <1>6, <1>7, <2>1
  <2>3. e[j] \in 1..n /\ Cardinality({y \in 1..n : Less(y, e[j])}) = j - 1
    BY <1>5, <2>2
  <2> QED
    BY <1>6, <2>3
<1>9. Enumerates(e, R, 1..n)
  <2>1. DOMAIN e = 1..n
    BY <1>5
  <2> QED
    BY <1>2, <1>3, <1>8, <2>1, RanksEnumerate
<1>10. ASSUME NEW i \in 1..n, NEW j \in 1..n, i < j PROVE e[i] # e[j] /\ ids[e[i]] <= ids[e[j]]
  <2>1. e[i] \in 1..n /\ e[j] \in 1..n /\ <<e[i], e[j]>> \in R
    BY <1>2, <1>8, <1>9, <1>10 DEF Enumerates
  <2>2. Less(e[i], e[j])
    BY <1>1, <2>1
  <2> QED
    BY <2>1, <2>2
<1> QED
  BY <1>2, <1>4, <1>9, <1>10 DEF Enumerates, Sorts

\* The ids of the rows of m parts: ascending in a part and from one part to the next,
\* and all of 1..n.
Counting(x, L, m, n) ==
    /\ m \in Nat /\ n \in Nat
    /\ \A c \in 1..m : L[c] \in Nat \ {0} /\ \A r \in 1..L[c] : x[c][r] \in 1..n
    /\ \A c \in 1..m : \A i, j \in 1..L[c] : i < j => x[c][i] < x[c][j]
    /\ \A c \in 2..m : x[c - 1][L[c - 1]] < x[c][1]
    /\ \A k \in 1..n : \E c \in 1..m : \E r \in 1..L[c] : x[c][r] = k

LEMMA PartIds ==
  ASSUME NEW x, NEW L, NEW m, NEW n, Counting(x, L, m, n), NEW c \in 1..m, NEW r \in 1..L[c]
  PROVE  /\ x[c][r] \in 1..n /\ x[c][1] \in 1..n /\ x[c][L[c]] \in 1..n /\ L[c] \in Nat
         /\ x[c][1] <= x[c][r] /\ x[c][r] <= x[c][L[c]] /\ 1 \in 1..L[c] /\ L[c] \in 1..L[c]
<1>1. L[c] \in Nat \ {0} /\ \A i \in 1..L[c] : x[c][i] \in 1..n
  BY DEF Counting
<1>2. 1 \in 1..L[c] /\ L[c] \in 1..L[c] /\ n \in Nat
  BY <1>1 DEF Counting
<1>3. x[c][r] \in 1..n /\ x[c][1] \in 1..n /\ x[c][L[c]] \in 1..n
  BY <1>1, <1>2
<1>4. 1 < r => x[c][1] < x[c][r]
  BY <1>2 DEF Counting
<1>5. r < L[c] => x[c][r] < x[c][L[c]]
  BY <1>2 DEF Counting
<1>6. 1 <= r /\ r <= L[c]
  BY <1>1
<1>7. PICK l \in Int : l = L[c]
  BY <1>1
<1>8. r = 1 \/ 1 < r
  BY <1>6
<1>9. r = l \/ r < l
  BY <1>6, <1>7
<1> QED
  BY <1>1, <1>2, <1>3, <1>4, <1>5, <1>7, <1>8, <1>9

LEMMA PartsAscend ==
  ASSUME NEW x, NEW L, NEW m, NEW n, Counting(x, L, m, n)
  PROVE  \A b \in 1..m : \A a \in 1..b - 1 : x[a][L[a]] < x[b][1]
<1> DEFINE P == {b \in 0..m : b # 0 => \A a \in 1..b - 1 : x[a][L[a]] < x[b][1]}
<1> m \in Nat
  BY DEF Counting
<1>1. 0 \in P
  OBVIOUS
<1>2. ASSUME NEW b \in 1..m, b - 1 \in P PROVE b \in P
  <2>1. ASSUME NEW a \in 1..b - 1 PROVE x[a][L[a]] < x[b][1]
    <3>1. b \in 2..m /\ b - 1 \in 1..m /\ a \in 1..m
      OBVIOUS
    <3>2. x[b - 1][L[b - 1]] < x[b][1]
      BY <3>1 DEF Counting
    <3>3. CASE a = b - 1
      BY <3>2, <3>3
    <3>4. CASE a # b - 1
      <4>1. a \in 1..(b - 1) - 1 /\ b - 1 # 0
        BY <3>1, <3>4
      <4>2. x[a][L[a]] < x[b - 1][1]
        BY <1>2, <4>1
      <4>3. 1 \in 1..L[b - 1] /\ 1 \in 1..L[b] /\ 1 \in 1..L[a]
        BY <3>1 DEF Counting
      <4>4. x[b - 1][1] <= x[b - 1][L[b - 1]] /\ x[b - 1][1] \in 1..n /\ x[b - 1][L[b - 1]] \in 1..n
        BY <3>1, <4>3, PartIds
      <4>5. x[a][L[a]] \in 1..n
        BY <3>1, <4>3, PartIds
      <4>6. x[b][1] \in 1..n
        BY <3>1, <4>3, PartIds
      <4>7. PICK p \in Int, q \in Int, u \in Int, v \in Int :
               p = x[a][L[a]] /\ q = x[b - 1][1] /\ u = x[b - 1][L[b - 1]] /\ v = x[b][1]
        BY <4>4, <4>5, <4>6
      <4> QED
        BY <3>2, <4>2, <4>4, <4>7
    <3> QED
      BY <3>3, <3>4
  <2> QED
    BY <2>1
<1>3. \A b \in 0..m : b \in P
  <2> HIDE DEF P
  <2> QED
    BY <1>1, <1>2, CountUp
<1> QED
  BY <1>3

\* Where id k may be, seen from a row of part c: an earlier row, or this or a later one.
LEMMA IdIsThere ==
  ASSUME NEW x, NEW L, NEW m, NEW n, Counting(x, L, m, n), NEW c \in 1..m, NEW k \in 1..L[c],
         NEW below \in Int, below < x[c][k],
         k = 1 => \A a \in 1..c - 1 : x[a][L[a]] <= below,
         k # 1 => x[c][k - 1] <= below /\ \A a \in 1..c - 1 : x[a][L[a]] <= below,
         below + 1 \in 1..n
  PROVE  x[c][k] = below + 1
<1> m \in Nat /\ n \in Nat /\ c \in Nat
  BY DEF Counting
<1>1. PICK a \in 1..m : \E i \in 1..L[a] : x[a][i] = below + 1
  BY DEF Counting
<1>1a. PICK i \in 1..L[a] : x[a][i] = below + 1
  BY <1>1
<1>2. /\ x[c][k] \in 1..n /\ L[c] \in Nat /\ x[c][L[c]] \in 1..n /\ x[c][k] <= x[c][L[c]]
  BY PartIds
<1>3. x[a][i] <= x[a][L[a]] /\ x[a][1] <= x[a][i] /\ x[a][L[a]] \in 1..n /\ x[a][1] \in 1..n
  BY PartIds
<1>4. ~(a < c)
  <2>1. ASSUME a < c PROVE FALSE
    <3>1. a \in 1..c - 1
      BY <2>1
    <3>2. x[a][L[a]] <= below
      BY <3>1
    <3>3. PICK p \in Int : p = x[a][L[a]] /\ below + 1 <= p /\ p <= below
      BY <1>1a, <1>3, <3>2
    <3> QED
      BY <3>3
  <2> QED
    BY <2>1
<1>5. CASE c < a
  <2>1. c \in 1..a - 1
    BY <1>5
  <2>2. x[c][L[c]] < x[a][1]
    BY <2>1, PartsAscend
  <2>3. PICK p \in Int, q \in Int, u \in Int : p = x[c][k] /\ q = x[c][L[c]] /\ u = x[a][1] /\ p <= q /\ q < u /\ u <= below + 1 /\ below < p
    BY <1>1a, <1>2, <1>3, <2>2
  <2> QED
    BY <2>3
<1>6. CASE a = c
  <2>1. i \in 1..L[c] /\ x[c][i] = below + 1
    BY <1>1a, <1>6
  <2>2. CASE i < k
    <3>1. k # 1 /\ k - 1 \in 1..L[c]
      BY <1>2, <2>2
    <3>2. x[c][k - 1] <= below /\ x[c][k - 1] \in 1..n
      BY <3>1, PartIds
    <3>3. i < k - 1 => x[c][i] < x[c][k - 1]
      BY <2>1, <3>1 DEF Counting
    <3>4. i = k - 1 \/ i < k - 1
      BY <2>2
    <3>5. PICK p \in Int : p = x[c][k - 1] /\ p <= below /\ below + 1 <= p
      BY <2>1, <3>2, <3>3, <3>4
    <3> QED
      BY <3>5
  <2>3. CASE i = k
    BY <2>1, <2>3
  <2>4. CASE k < i
    <3>1. x[c][k] < x[c][i]
      BY <2>1, <2>4 DEF Counting
    <3>2. PICK p \in Int : p = x[c][k] /\ below < p /\ p < below + 1
      BY <1>2, <2>1, <3>1
    <3> QED
      BY <3>2
  <2> QED
    BY <1>2, <2>2, <2>3, <2>4
<1> QED
  BY <1>4, <1>5, <1>6

\* Ids that ascend and are all of 1..n are the positions of their rows.
LEMMA IdsArePositions ==
  ASSUME NEW x, NEW L, NEW m, NEW n, Counting(x, L, m, n)
  PROVE  \E g \in [0..m -> Nat] : /\ g[0] = 0 /\ g[m] = n
                                  /\ \A c \in 1..m : /\ g[c] = g[c - 1] + L[c]
                                                     /\ \A r \in 1..L[c] : x[c][r] = g[c - 1] + r
<1> DEFINE g == [c \in 0..m |-> IF c = 0 THEN 0 ELSE x[c][L[c]]]
<1> m \in Nat /\ n \in Nat
  BY DEF Counting
<1>1. ASSUME NEW c \in 1..m PROVE L[c] \in Nat \ {0} /\ 1 \in 1..L[c] /\ L[c] \in 1..L[c] /\ x[c][L[c]] \in 1..n /\ x[c][1] \in 1..n
  <2>1. L[c] \in Nat \ {0} /\ 1 \in 1..L[c]
    BY DEF Counting
  <2> QED
    BY <2>1, PartIds
<1>2. g \in [0..m -> Nat] /\ g[0] = 0 /\ \A c \in 1..m : g[c] = x[c][L[c]]
  <2>1. \A c \in 0..m : c # 0 => c \in 1..m
    OBVIOUS
  <2>2. \A c \in 0..m : g[c] \in Nat
    BY <1>1, <2>1
  <2> QED
    BY <2>1, <2>2
<1> HIDE DEF g
<1>3. ASSUME NEW c \in 1..m
      PROVE  /\ g[c - 1] \in Nat /\ g[c - 1] < x[c][1] /\ \A a \in 1..c - 1 : x[a][L[a]] <= g[c - 1]
  <2>1. c - 1 \in 0..m
    OBVIOUS
  <2>2. CASE c = 1
    BY <1>1, <1>2, <2>2
  <2>3. CASE c # 1
    <3>1. c - 1 \in 1..m /\ c - 1 \in 1..c - 1
      BY <2>3
    <3>2. g[c - 1] = x[c - 1][L[c - 1]] /\ g[c - 1] < x[c][1]
      BY <1>2, <3>1, PartsAscend
    <3>3. ASSUME NEW a \in 1..c - 1 PROVE x[a][L[a]] <= g[c - 1]
      <4>1. CASE a = c - 1
        BY <1>1, <3>1, <3>2, <4>1
      <4>2. CASE a # c - 1
        <5>1. a \in 1..(c - 1) - 1 /\ a \in 1..m
          BY <4>2
        <5>2. x[a][L[a]] < x[c - 1][1]
          BY <3>1, <5>1, PartsAscend
        <5>3. x[c - 1][1] <= x[c - 1][L[c - 1]]
          BY <1>1, <3>1, PartIds
        <5>4. PICK p \in Int, q \in Int, u \in Int : p = x[a][L[a]] /\ q = x[c - 1][1] /\ u = g[c - 1] /\ p < q /\ q <= u
          BY <1>1, <3>1, <3>2, <5>1, <5>2, <5>3
        <5> QED
          BY <5>4
      <4> QED
        BY <4>1, <4>2
    <3> QED
      BY <1>2, <2>1, <3>2, <3>3
  <2> QED
    BY <2>2, <2>3
<1>4. ASSUME NEW c \in 1..m PROVE \A r \in 1..L[c] : x[c][r] = g[c - 1] + r
  <2> DEFINE P == {k \in 0..L[c] : k # 0 => x[c][k] = g[c - 1] + k}
  <2>1. L[c] \in Nat /\ 0 \in P
    BY <1>1
  <2>2. ASSUME NEW k \in 1..L[c], k - 1 \in P PROVE k \in P
    <3>1. x[c][k] \in 1..n /\ x[c][1] <= x[c][k] /\ g[c - 1] \in Nat /\ g[c - 1] < x[c][1] /\ x[c][1] \in 1..n
      BY <1>3, PartIds
    <3>2. PICK below \in Int : below = g[c - 1] + (k - 1)
      BY <2>1, <3>1
    <3>3. k # 1 => k - 1 \in 1..L[c] /\ x[c][k - 1] = below /\ x[c][k - 1] < x[c][k]
      <4>1. ASSUME k # 1 PROVE k - 1 \in 1..L[c] /\ k - 1 # 0
        BY <2>1, <4>1
      <4> QED
        BY <2>2, <3>2, <4>1 DEF Counting
    <3>4. below < x[c][k]
      <4>1. CASE k = 1
        BY <3>1, <3>2, <4>1
      <4>2. CASE k # 1
        BY <3>3, <4>2
      <4> QED
        BY <4>1, <4>2
    <3>5. \A a \in 1..c - 1 : x[a][L[a]] <= below
      <4> SUFFICES ASSUME NEW a \in 1..c - 1 PROVE x[a][L[a]] <= below
        OBVIOUS
      <4>1. x[a][L[a]] <= g[c - 1]
        BY <1>3
      <4>2. a \in 1..m
        OBVIOUS
      <4>3. PICK p \in Int, q \in Int : p = x[a][L[a]] /\ q = g[c - 1] /\ p <= q /\ below = q + (k - 1)
        BY <1>1, <3>1, <3>2, <4>1, <4>2
      <4> QED
        BY <2>1, <4>3
    <3>6. below + 1 \in 1..n
      <4>1. PICK q \in Nat, p \in 1..n : q = g[c - 1] /\ p = x[c][k] /\ below = q + (k - 1) /\ below < p
        BY <3>1, <3>2, <3>4
      <4> QED
        BY <2>1, <4>1
    <3>7. k # 1 => x[c][k - 1] <= below
      BY <3>2, <3>3
    <3>8. x[c][k] = below + 1
      <4> HIDE DEF P
      <4> QED
        BY <3>4, <3>5, <3>6, <3>7, IdIsThere
    <3>9. below + 1 = g[c - 1] + k
      BY <2>1, <3>1, <3>2
    <3> QED
      BY <3>8, <3>9
  <2>3. \A k \in 0..L[c] : k \in P
    <3> HIDE DEF P
    <3> QED
      BY <2>1, <2>2, CountUp
  <2> QED
    BY <2>1, <2>3
<1>5. ASSUME NEW c \in 1..m PROVE g[c] = g[c - 1] + L[c]
  BY <1>1, <1>2, <1>4
<1>6. g[m] = n
  <2>1. CASE m = 0
    <3>1. n = 0
      <4>1. ASSUME n # 0 PROVE FALSE
        <5>1. n \in 1..n
          BY <4>1
        <5>2. PICK c \in 1..m : TRUE
          BY <5>1 DEF Counting
        <5> QED
          BY <2>1, <5>2
      <4> QED
        BY <4>1
    <3> QED
      BY <1>2, <2>1, <3>1
  <2>2. CASE m # 0
    <3>1. m \in 1..m
      BY <2>2
    <3>2. g[m] = x[m][L[m]] /\ x[m][L[m]] \in 1..n
      BY <1>1, <1>2, <3>1
    <3>3. n \in 1..n
      BY <3>2
    <3>4. PICK a \in 1..m : \E i \in 1..L[a] : x[a][i] = n
      BY <3>3 DEF Counting
    <3>5. PICK i \in 1..L[a] : x[a][i] = n
      BY <3>4
    <3>6. n <= x[a][L[a]] /\ x[a][L[a]] \in 1..n
      BY <3>5, PartIds
    <3>7. x[a][L[a]] <= x[m][L[m]]
      <4>1. CASE a = m
        BY <3>2, <4>1
      <4>2. CASE a # m
        <5>1. a \in 1..m - 1
          BY <4>2
        <5>2. x[a][L[a]] < x[m][1] /\ x[m][1] <= x[m][L[m]] /\ x[m][1] \in 1..n
          <6>1. 1 \in 1..L[m]
            BY <1>1, <3>1
          <6> QED
            BY <3>1, <5>1, <6>1, PartsAscend, PartIds
        <5> QED
          BY <3>2, <3>6, <5>2
      <4> QED
        BY <4>1, <4>2
    <3> QED
      BY <3>2, <3>6, <3>7
  <2> QED
    BY <2>1, <2>2
<1> QED
  BY <1>2, <1>4, <1>5, <1>6

\* ---- the buffers of a scan --------------------------------------------------------------
Buffers(R) == [chunks : Seq(Seq(R) \ {<<>>}), call : Nat, fill : Nat, unordered : BOOLEAN]
Ascending(ch) == \A i, j \in 1..Len(ch) : i < j => ch[i].id < ch[j].id
\* A buffer not flagged has chunks in order; an open segment has a chunk.
Sound(R) ==
    {b \in Buffers(R) : /\ b.fill # 0 => b.chunks # <<>>
                        /\ b.unordered = FALSE => \A c \in 1..Len(b.chunks) : Ascending(b.chunks[c])}
Has(b, k) == \E c \in 1..Len(b.chunks) : \E r \in 1..Len(b.chunks[c]) : b.chunks[c][r].id = k

LEMMA LastChunk ==
  ASSUME NEW S, NEW s \in Seq(S), s # <<>>, NEW e \in S
  PROVE  LET t == Append(Front(s), e)
         IN  /\ t \in Seq(S) /\ Len(t) = Len(s) /\ t[Len(s)] = e /\ t # <<>> /\ Len(s) \in Nat \ {0}
             /\ Last(s) = s[Len(s)] /\ s[Len(s)] \in S
             /\ \A c \in 1..Len(s) : c # Len(s) => t[c] = s[c]
<1>1. PICK n \in Nat : n = Len(s) /\ DOMAIN s = 1..n /\ n # 0
  BY EmptySeq
<1>2. PICK f : f = Front(s)
  OBVIOUS
<1>3. f = SubSeq(s, 1, n - 1)
  BY <1>1, <1>2 DEF Front
<1>4. f \in Seq(S) /\ Len(f) = n - 1 /\ \A c \in 1..n - 1 : f[c] = s[c]
  <2>1. \A c \in 1..n - 1 : s[c] \in S
    BY <1>1, ElementOfSeq
  <2> QED
    BY <1>1, <1>3, <2>1, SubSeqProperties
<1>5. PICK t : t = Append(f, e)
  OBVIOUS
<1>6. t \in Seq(S) /\ Len(t) = n /\ t[n] = e /\ \A c \in 1..n - 1 : t[c] = f[c]
  BY <1>1, <1>4, <1>5, AppendProperties
<1>7. s[n] \in S
  BY <1>1, ElementOfSeq
<1> QED
  BY <1>1, <1>2, <1>4, <1>5, <1>6, <1>7 DEF Last

LEMMA RowAppended ==
  ASSUME NEW R, \A r \in R : r.id \in Int, NEW b \in Sound(R), NEW call \in Nat, NEW row \in R,
         NEW to, to = AppendRow(b, call, row)
  PROVE  /\ to \in Sound(R) /\ Has(to, row.id) /\ \A k : Has(b, k) => Has(to, k)
<1> DEFINE S == Seq(R) \ {<<>>}
           full == b.fill \in {0, SegmentRows}
           opens == full \/ b.call # call
           back == ~opens /\ row.id <= Last(Last(b.chunks)).id
           all == b.chunks
           n == Len(all)
<1>1. /\ all \in Seq(S) /\ b.call \in Nat /\ b.fill \in Nat /\ b.unordered \in BOOLEAN
      /\ b.fill # 0 => all # <<>>
      /\ b.unordered = FALSE => \A c \in 1..n : Ascending(all[c])
  BY DEF Sound, Buffers
<1>2. /\ to.call = call /\ to.fill = IF full THEN 1 ELSE b.fill + 1
      /\ to.unordered = (b.unordered \/ back)
      /\ to.chunks = IF opens THEN Append(all, <<row>>) ELSE Append(Front(all), Append(Last(all), row))
      /\ to = [call |-> to.call, fill |-> to.fill, unordered |-> to.unordered, chunks |-> to.chunks]
  BY DEF AppendRow
<1>3. to.unordered \in BOOLEAN /\ to.call \in Nat /\ to.fill \in Nat /\ (to.unordered = FALSE => b.unordered = FALSE /\ ~back)
  <2> HIDE DEF opens, back, all, n
  <2>1. to.unordered = (b.unordered \/ back)
    BY <1>2
  <2>2. to.unordered \in BOOLEAN
    BY <2>1, Zenon
  <2>3. to.unordered = FALSE => b.unordered = FALSE /\ ~back
    BY <1>1, <2>1, Zenon
  <2>4. to.call \in Nat /\ to.fill \in Nat
    BY <1>1, <1>2
  <2> QED
    BY <2>2, <2>3, <2>4
<1>4. SegmentRows # 0
  BY SegmentAssumption
<1>5. n \in Nat /\ DOMAIN all = 1..n /\ \A c \in 1..n : all[c] \in S
  BY <1>1, ElementOfSeq
<1>6. /\ to.chunks \in Seq(S) /\ to.chunks # <<>>
      /\ b.unordered = FALSE /\ ~back => \A c \in 1..Len(to.chunks) : Ascending(to.chunks[c])
      /\ Has(to, row.id) /\ \A k : Has(b, k) => Has(to, k)
  <2>1. CASE opens
    <3>1. PICK one : one = <<row>>
      OBVIOUS
    <3>2. one \in S /\ Len(one) = 1 /\ one[1] = row /\ Ascending(one)
      BY <3>1 DEF Ascending
    <3>3. PICK t : t = to.chunks /\ t = Append(all, one)
      BY <1>2, <2>1, <3>1
    <3>4. t \in Seq(S) /\ Len(t) = n + 1 /\ t[n + 1] = one /\ \A c \in 1..n : t[c] = all[c]
      <4> HIDE DEF S, all
      <4> QED
        BY <1>1, <3>2, <3>3, AppendProperties DEF n
    <3> HIDE DEF S, all, n, opens, back
    <3>5. t # <<>>
      BY <1>5, <3>4
    <3>6. b.unordered = FALSE => \A c \in 1..Len(t) : Ascending(t[c])
      BY <1>1, <1>5, <3>2, <3>4
    <3>7. Has(to, row.id)
      <4>1. n + 1 \in 1..Len(t) /\ 1 \in 1..Len(t[n + 1]) /\ t[n + 1][1].id = row.id
        BY <1>5, <3>2, <3>4
      <4> QED
        BY <3>3, <4>1 DEF Has
    <3>8. ASSUME NEW k, Has(b, k) PROVE Has(to, k)
      <4>1. PICK c \in 1..n : \E r \in 1..Len(all[c]) : all[c][r].id = k
        BY <3>8 DEF Has, all, n
      <4>2. c \in 1..Len(t) /\ t[c] = all[c]
        BY <1>5, <3>4
      <4> QED
        BY <3>3, <4>1, <4>2 DEF Has
    <3> QED
      BY <3>3, <3>4, <3>5, <3>6, <3>7, <3>8
  <2>2. CASE ~opens
    <3>1. all # <<>>
      BY <1>1, <2>2
    <3>2. PICK final : final = all[n]
      OBVIOUS
    <3>3. n \in Nat \ {0} /\ final \in S /\ Last(all) = final
      <4> HIDE DEF S, all
      <4>1. \E e : e \in S
        BY <1>1, <3>1, <1>5, EmptySeq
      <4> QED
        BY <1>1, <3>1, <3>2, <4>1, LastChunk DEF n
    <3>4. PICK more : more = Append(final, row)
      OBVIOUS
    <3>5. PICK l \in Nat : l = Len(final) /\ l # 0
      BY <3>3, EmptySeq DEF S
    <3>6. more \in S /\ Len(more) = l + 1 /\ more[l + 1] = row /\ \A i \in 1..l : more[i] = final[i]
      <4>1. more \in Seq(R) /\ Len(more) = l + 1 /\ more[l + 1] = row /\ \A i \in 1..l : more[i] = final[i]
        BY <3>3, <3>4, <3>5, AppendProperties DEF S
      <4>2. more # <<>>
        BY <3>5, <4>1
      <4> QED
        BY <4>1, <4>2 DEF S
    <3>7. PICK t : t = to.chunks /\ t = Append(Front(all), more)
      BY <1>2, <2>2, <3>3, <3>4
    <3>8. t \in Seq(S) /\ Len(t) = n /\ t[n] = more /\ t # <<>> /\ \A c \in 1..n : c # n => t[c] = all[c]
      <4> HIDE DEF S, all
      <4> QED
        BY <1>1, <3>1, <3>6, <3>7, LastChunk DEF n
    <3>9. Last(final) = final[l]
      BY <3>5 DEF Last
    <3> HIDE DEF S, all, n, opens
    <3>10. \A c \in 1..n : c # n => t[c] = all[c]
      BY <3>8
    <3>11. ASSUME b.unordered = FALSE, ~back PROVE \A c \in 1..Len(t) : Ascending(t[c])
      <4>1. Ascending(more)
        <5>1. ~(row.id <= final[l].id)
          BY <2>2, <3>3, <3>9, <3>11 DEF all
        <5>2. Ascending(final)
          BY <1>1, <3>2, <3>3, <3>11
        <5>3. final \in Seq(R)
          BY <3>3 DEF S
        <5>4. \A i \in 1..l : final[i] \in R
          BY <3>5, <5>3, ElementOfSeq
        <5>5. ASSUME NEW i \in 1..l + 1, NEW j \in 1..l + 1, i < j PROVE more[i].id < more[j].id
          <6>1. i \in 1..l /\ l \in 1..l /\ more[i] = final[i]
            BY <3>5, <3>6, <5>5
          <6>2. CASE j = l + 1
            <7>1. i = l \/ final[i].id < final[l].id
              BY <3>5, <5>2, <6>1 DEF Ascending
            <7>2. final[i].id \in Int /\ final[l].id \in Int /\ row.id \in Int
              BY <5>4, <6>1
            <7> QED
              BY <3>6, <5>1, <6>1, <6>2, <7>1, <7>2
          <6>3. CASE j # l + 1
            <7>1. j \in 1..l
              BY <6>3
            <7> QED
              BY <3>5, <3>6, <5>2, <5>5, <6>1, <7>1 DEF Ascending
          <6> QED
            BY <6>2, <6>3
        <5> QED
          BY <3>6, <5>5 DEF Ascending
      <4>2. ASSUME NEW c \in 1..n PROVE Ascending(t[c])
        <5>1. CASE c = n
          BY <3>8, <4>1, <5>1
        <5>2. CASE c # n
          BY <1>1, <3>8, <3>11, <5>2
        <5> QED
          BY <5>1, <5>2
      <4> QED
        BY <3>8, <4>2
    <3>12. Has(to, row.id)
      <4>1. n \in 1..Len(t) /\ l + 1 \in 1..Len(t[n]) /\ t[n][l + 1].id = row.id
        BY <3>3, <3>5, <3>6, <3>8
      <4> QED
        BY <3>7, <4>1 DEF Has
    <3>13. ASSUME NEW k, Has(b, k) PROVE Has(to, k)
      <4>1. PICK c \in 1..n : \E r \in 1..Len(all[c]) : all[c][r].id = k
        BY <3>13 DEF Has, all, n
      <4>2. PICK r \in 1..Len(all[c]) : all[c][r].id = k
        BY <4>1
      <4>3. c \in 1..Len(t) /\ r \in 1..Len(t[c]) /\ t[c][r] = all[c][r]
        <5>1. CASE c = n
          BY <3>2, <3>5, <3>6, <3>8, <5>1
        <5>2. CASE c # n
          BY <3>8, <5>2
        <5> QED
          BY <5>1, <5>2
      <4> QED
        BY <3>7, <4>2, <4>3 DEF Has
    <3> QED
      BY <3>7, <3>8, <3>11, <3>12, <3>13
  <2> QED
    BY <2>1, <2>2
<1> HIDE DEF S, all, n, opens, back
<1>7. to \in Buffers(R)
  BY <1>2, <1>3, <1>6 DEF Buffers, S
<1> QED
  BY <1>3, <1>6, <1>7 DEF Sound

\* A fold whose step k adds the ids X[k] to a buffer and keeps those it had.
Adds(step, n, A, X) ==
    \A k \in 1..n : \A t \in A : /\ \A x \in X[k] : Has(step[k][t], x)
                                 /\ \A x : Has(t, x) => Has(step[k][t], x)

LEMMA RunAdds ==
  ASSUME NEW n \in Nat, NEW A, NEW base, NEW step, NEW g, IsRun(g, n, A, base, step), NEW X, Adds(step, n, A, X)
  PROVE  /\ g[n] \in A /\ \A k \in 1..n : \A x \in X[k] : Has(g[n], x)
         /\ \A x : Has(base, x) => Has(g[n], x)
<1> DEFINE P == {k \in 0..n : /\ \A j \in 1..k : \A x \in X[j] : Has(g[k], x)
                              /\ \A x : Has(base, x) => Has(g[k], x)}
<1>1. g \in [0..n -> A] /\ g[0] = base /\ \A k \in 1..n : g[k] = step[k][g[k - 1]]
  BY DEF IsRun
<1>2. 0 \in P
  BY <1>1
<1>3. ASSUME NEW k \in 1..n, k - 1 \in P PROVE k \in P
  <2>1. k - 1 \in 0..n /\ g[k - 1] \in A /\ g[k] = step[k][g[k - 1]]
    BY <1>1
  <2>2. /\ \A x \in X[k] : Has(g[k], x)
        /\ \A x : Has(g[k - 1], x) => Has(g[k], x)
    BY <2>1 DEF Adds
  <2>3. /\ \A j \in 1..k - 1 : \A x \in X[j] : Has(g[k - 1], x)
        /\ \A x : Has(base, x) => Has(g[k - 1], x)
    BY <1>3
  <2>4. \A j \in 1..k : j = k \/ j \in 1..k - 1
    OBVIOUS
  <2> QED
    BY <2>2, <2>3, <2>4
<1>4. \A k \in 0..n : k \in P
  <2> HIDE DEF P
  <2> QED
    BY <1>2, <1>3, CountUp
<1>5. n \in 0..n
  OBVIOUS
<1> QED
  BY <1>1, <1>4, <1>5

IdsOf(R) == \A r \in R : r.id \in Int

LEMMA CallUpdates ==
  ASSUME NEW R, IdsOf(R), NEW b \in Sound(R), NEW call \in Nat, NEW n \in Nat,
         NEW rows, DOMAIN rows = 1..n, \A k \in 1..n : rows[k] \in R
  PROVE  /\ Updated(b, call, rows) \in Sound(R) /\ \A k \in 1..n : Has(Updated(b, call, rows), rows[k].id)
         /\ \A x : Has(b, x) => Has(Updated(b, call, rows), x)
<1> DEFINE A == Sound(R)
           step == [k \in 1..n |-> [t \in A |-> AppendRow(t, call, rows[k])]]
<1>1. ASSUME NEW k \in 1..n, NEW t \in A
      PROVE  /\ AppendRow(t, call, rows[k]) \in A /\ Has(AppendRow(t, call, rows[k]), rows[k].id)
             /\ \A x : Has(t, x) => Has(AppendRow(t, call, rows[k]), x)
  BY RowAppended DEF IdsOf
<1>2. IsStep(step, n, A) /\ \A k \in 1..n : \A t \in A : step[k][t] = AppendRow(t, call, rows[k])
  BY <1>1 DEF IsStep
<1> HIDE DEF A, step
<1>3. b \in A
  BY DEF A
<1>4. PICK h \in [SUBSET (1..n) -> A] : Folds(h, n, b, step)
  BY <1>2, <1>3, FoldExists
<1>5. \A s \in SUBSET (1..n) : s # {} => Max(s) \in 1..n /\ s \ {Max(s)} \in SUBSET (1..n)
  BY MaxIsLargest
<1>6. h = [s \in SUBSET DOMAIN rows |-> IF s = {} THEN b ELSE AppendRow(h[s \ {Max(s)}], call, rows[Max(s)])]
  <2> SUFFICES ASSUME NEW s \in SUBSET (1..n)
               PROVE  h[s] = IF s = {} THEN b ELSE AppendRow(h[s \ {Max(s)}], call, rows[Max(s)])
    OBVIOUS
  <2>1. CASE s = {}
    BY <1>4, <2>1 DEF Folds
  <2>2. CASE s # {}
    <3>1. h[s] = step[Max(s)][h[s \ {Max(s)}]]
      BY <1>4, <2>2 DEF Folds
    <3> QED
      BY <1>2, <1>5, <2>2, <3>1
  <2> QED
    BY <2>1, <2>2
<1>7. PICK f : f = [s \in SUBSET DOMAIN rows |-> IF s = {} THEN b ELSE AppendRow(f[s \ {Max(s)}], call, rows[Max(s)])]
               /\ Updated(b, call, rows) = f[DOMAIN rows]
  BY <1>6 DEF Updated, FoldLeft, MapThenFoldSet
<1>8. Steps(f, n, A, b, step)
  <2> SUFFICES ASSUME NEW s \in SUBSET (1..n), s # {}, f[s \ {Max(s)}] \in A PROVE f[s] = step[Max(s)][f[s \ {Max(s)}]]
    BY <1>7 DEF Steps
  <2>1. Max(s) \in 1..n /\ s \in SUBSET DOMAIN rows
    BY <1>5
  <2>2. f[s] = AppendRow(f[s \ {Max(s)}], call, rows[Max(s)])
    BY <1>7, <2>1
  <2> QED
    BY <1>2, <2>1, <2>2
<1>9. PICK F : F = [k \in 0..n |-> f[1..k]]
  OBVIOUS
<1>10. IsRun(F, n, A, b, step)
  BY <1>2, <1>3, <1>8, <1>9, FoldRuns
<1>11. PICK X : X = [k \in 1..n |-> {rows[k].id}]
  OBVIOUS
<1>12. Adds(step, n, A, X)
  BY <1>1, <1>2, <1>11 DEF Adds
<1>13. /\ F[n] \in A /\ \A k \in 1..n : \A x \in X[k] : Has(F[n], x)
       /\ \A x : Has(b, x) => Has(F[n], x)
  BY <1>10, <1>12, RunAdds
<1>14. F[n] = Updated(b, call, rows)
  <2>1. n \in 0..n
    OBVIOUS
  <2> QED
    BY <1>7, <1>9, <2>1
<1> QED
  BY <1>11, <1>13, <1>14 DEF A

\* The calls of a state: every row of every call is in the buffer.
Calls(calls, m, R) ==
    /\ m \in Nat /\ DOMAIN calls = 1..m
    /\ \A c \in 1..m : \E n \in Nat : DOMAIN calls[c] = 1..n /\ \A k \in 1..n : calls[c][k] \in R

LEMMA NoBufferIsSound == ASSUME NEW R PROVE NoBuffer \in Sound(R) /\ \A x : ~Has(NoBuffer, x)
<1>1. /\ NoBuffer.chunks = <<>> /\ NoBuffer.call = 0 /\ NoBuffer.fill = 0 /\ NoBuffer.unordered = FALSE
      /\ NoBuffer = [chunks |-> NoBuffer.chunks, call |-> NoBuffer.call, fill |-> NoBuffer.fill, unordered |-> NoBuffer.unordered]
  BY DEF NoBuffer
<1>2. Len(NoBuffer.chunks) = 0 /\ NoBuffer.chunks \in Seq(Seq(R) \ {<<>>})
  BY <1>1
<1>3. NoBuffer \in Buffers(R)
  <2>1. PICK S : S = Seq(Seq(R) \ {<<>>})
    OBVIOUS
  <2>2. NoBuffer.unordered \in BOOLEAN
    BY <1>1, Zenon
  <2>3. NoBuffer.chunks \in S
    BY <1>2, <2>1
  <2>4. NoBuffer.call \in Nat /\ NoBuffer.fill \in Nat
    BY <1>1
  <2>5. Buffers(R) = [chunks : S, call : Nat, fill : Nat, unordered : BOOLEAN]
    BY <2>1 DEF Buffers
  <2> QED
    BY <1>1, <2>2, <2>3, <2>4, <2>5
<1> QED
  BY <1>1, <1>2, <1>3 DEF Sound, Has

LEMMA StateDelivers ==
  ASSUME NEW R, IdsOf(R), NEW m, NEW calls, Calls(calls, m, R)
  PROVE  /\ Delivered(calls) \in Sound(R)
         /\ \A c \in DOMAIN calls : \A k \in DOMAIN calls[c] : Has(Delivered(calls), calls[c][k].id)
<1> DEFINE A == Sound(R)
           step == [c \in 1..m |-> [t \in A |-> Updated(t, c, calls[c])]]
           xs == [c \in 1..m |-> {calls[c][k].id : k \in DOMAIN calls[c]}]
           at == [c \in DOMAIN calls |-> c]
<1>0. m \in Nat /\ DOMAIN calls = 1..m
  BY DEF Calls
<1>1. ASSUME NEW c \in 1..m, NEW t \in A
      PROVE  /\ Updated(t, c, calls[c]) \in A /\ \A k \in DOMAIN calls[c] : Has(Updated(t, c, calls[c]), calls[c][k].id)
             /\ \A x : Has(t, x) => Has(Updated(t, c, calls[c]), x)
  <2>1. PICK n \in Nat : DOMAIN calls[c] = 1..n /\ \A k \in 1..n : calls[c][k] \in R
    BY DEF Calls
  <2>2. c \in Nat
    BY <1>0
  <2> QED
    BY <2>1, <2>2, CallUpdates
<1>2. IsStep(step, m, A) /\ \A c \in 1..m : \A t \in A : step[c][t] = Updated(t, c, calls[c])
  BY <1>0, <1>1 DEF IsStep
<1>2a. Adds(step, m, A, xs)
  BY <1>1, <1>2 DEF Adds
<1>2b. DOMAIN at = 1..m /\ \A c \in 1..m : at[c] = c
  BY <1>0
<1>3. NoBuffer \in A /\ \A c \in DOMAIN calls : \A k \in DOMAIN calls[c] : calls[c][k].id \in xs[c]
  BY <1>0, NoBufferIsSound
<1>4. Delivered(calls) = FoldLeft(LAMBDA b, c : Updated(b, c, calls[c]), NoBuffer, at)
  BY DEF Delivered
<1> HIDE DEF A, step, xs, at
<1>5. PICK h \in [SUBSET (1..m) -> A] : Folds(h, m, NoBuffer, step)
  BY <1>0, <1>2, <1>3, FoldExists
<1>6. \A s \in SUBSET (1..m) : s # {} => Max(s) \in 1..m /\ s \ {Max(s)} \in SUBSET (1..m)
  BY <1>0, MaxIsLargest
<1>7. h = [s \in SUBSET DOMAIN at |-> IF s = {} THEN NoBuffer ELSE Updated(h[s \ {Max(s)}], at[Max(s)], calls[at[Max(s)]])]
  <2> SUFFICES ASSUME NEW s \in SUBSET (1..m)
               PROVE  h[s] = IF s = {} THEN NoBuffer ELSE Updated(h[s \ {Max(s)}], at[Max(s)], calls[at[Max(s)]])
    BY <1>2b
  <2>1. CASE s = {}
    BY <1>5, <2>1 DEF Folds
  <2>2. CASE s # {}
    <3>1. h[s] = step[Max(s)][h[s \ {Max(s)}]]
      BY <1>5, <2>2 DEF Folds
    <3> QED
      BY <1>2, <1>2b, <1>6, <2>2, <3>1
  <2> QED
    BY <2>1, <2>2
<1>8. PICK f : f = [s \in SUBSET DOMAIN at |-> IF s = {} THEN NoBuffer ELSE Updated(f[s \ {Max(s)}], at[Max(s)], calls[at[Max(s)]])]
               /\ Delivered(calls) = f[DOMAIN at]
  BY <1>4, <1>7 DEF FoldLeft, MapThenFoldSet
<1>9. Steps(f, m, A, NoBuffer, step)
  <2> SUFFICES ASSUME NEW s \in SUBSET (1..m), s # {}, f[s \ {Max(s)}] \in A PROVE f[s] = step[Max(s)][f[s \ {Max(s)}]]
    BY <1>2b, <1>8 DEF Steps
  <2>1. Max(s) \in 1..m /\ s \in SUBSET DOMAIN at /\ at[Max(s)] = Max(s)
    BY <1>2b, <1>6
  <2>2. f[s] = Updated(f[s \ {Max(s)}], Max(s), calls[Max(s)])
    BY <1>8, <2>1
  <2> QED
    BY <1>2, <2>1, <2>2
<1>10. PICK F : F = [k \in 0..m |-> f[1..k]]
  OBVIOUS
<1>11. IsRun(F, m, A, NoBuffer, step)
  BY <1>0, <1>2, <1>3, <1>9, <1>10, FoldRuns
<1>12. F[m] \in A /\ \A c \in 1..m : \A x \in xs[c] : Has(F[m], x)
  BY <1>0, <1>11, <1>2a, RunAdds
<1>13. F[m] = Delivered(calls)
  <2>1. m \in 0..m
    BY <1>0
  <2> QED
    BY <1>2b, <1>8, <1>10, <2>1
<1> QED
  BY <1>0, <1>3, <1>12, <1>13 DEF A

\* upload_combine keeps both buffers' rows, and the flag of either.
LEMMA MergeKeeps ==
  ASSUME NEW R, NEW a \in Sound(R), NEW b \in Sound(R), NEW to, to = Merge(a, b)
  PROVE  to \in Sound(R) /\ \A x : Has(to, x) <=> Has(a, x) \/ Has(b, x)
<1> DEFINE S == Seq(R) \ {<<>>}
           s == a.chunks
           t == b.chunks
           n == Len(s)
<1>1. /\ s \in Seq(S) /\ a.call \in Nat /\ a.fill \in Nat /\ a.unordered \in BOOLEAN
      /\ a.fill # 0 => s # <<>>
      /\ a.unordered = FALSE => \A c \in 1..Len(s) : Ascending(s[c])
      /\ a = [chunks |-> a.chunks, call |-> a.call, fill |-> a.fill, unordered |-> a.unordered]
  BY DEF Sound, Buffers
<1>2. /\ t \in Seq(S) /\ b.unordered \in BOOLEAN
      /\ b.unordered = FALSE => \A c \in 1..Len(t) : Ascending(t[c])
  BY DEF Sound, Buffers
<1>3. /\ to.call = a.call /\ to.fill = a.fill /\ to.unordered = (a.unordered \/ b.unordered) /\ to.chunks = s \o t
      /\ to = [chunks |-> to.chunks, call |-> to.call, fill |-> to.fill, unordered |-> to.unordered]
  BY <1>1 DEF Merge
<1> HIDE DEF S
<1>4. PICK u : u = s \o t
  OBVIOUS
<1>5. /\ u \in Seq(S) /\ Len(u) = n + Len(t) /\ n \in Nat /\ Len(t) \in Nat
      /\ \A c \in 1..n : u[c] = s[c]
      /\ \A c \in 1..Len(t) : u[n + c] = t[c]
  <2>1. Len(s) \in Nat /\ Len(t) \in Nat
    BY <1>1, <1>2, LenProperties
  <2>2. /\ u \in Seq(S) /\ Len(u) = Len(s) + Len(t)
        /\ \A i \in 1..Len(s) + Len(t) : u[i] = IF i <= Len(s) THEN s[i] ELSE t[i - Len(s)]
    <3> HIDE DEF s, t
    <3> QED
      BY <1>1, <1>2, <1>4, ConcatProperties
  <2> HIDE DEF s, t
  <2>3. \A c \in 1..Len(t) : n + c \in 1..Len(s) + Len(t) /\ ~(n + c <= Len(s)) /\ (n + c) - Len(s) = c
    BY <2>1
  <2>4. \A c \in 1..n : c \in 1..Len(s) + Len(t) /\ c <= Len(s)
    BY <2>1
  <2> QED
    BY <2>1, <2>2, <2>3, <2>4
<1>6. to.unordered \in BOOLEAN /\ (to.unordered = FALSE => a.unordered = FALSE /\ b.unordered = FALSE)
  <2> HIDE DEF s, t
  <2> QED
    BY <1>1, <1>2, <1>3, Zenon
<1> HIDE DEF s, t, n
<1>7. \A c \in 1..Len(u) : (c \in 1..n /\ u[c] = s[c]) \/ (c - n \in 1..Len(t) /\ u[c] = t[c - n])
  <2> SUFFICES ASSUME NEW c \in 1..Len(u), ~(c \in 1..n) PROVE c - n \in 1..Len(t) /\ u[c] = t[c - n]
    BY <1>5
  <2>1. c - n \in 1..Len(t) /\ c = n + (c - n)
    BY <1>5
  <2> QED
    BY <1>5, <2>1
<1>8. \A c \in 1..n : c \in 1..Len(u) /\ u[c] = s[c]
  BY <1>5
<1>9. \A c \in 1..Len(t) : n + c \in 1..Len(u) /\ u[n + c] = t[c]
  BY <1>5
<1>10. a.fill # 0 => u # <<>>
  <2>1. ASSUME a.fill # 0, u = <<>> PROVE FALSE
    <3>1. n # 0
      BY <1>1, <2>1, EmptySeq DEF n
    <3>2. Len(u) = 0
      BY <2>1
    <3> QED
      BY <1>5, <3>1, <3>2
  <2> QED
    BY <2>1
<1>11. to.unordered = FALSE => \A c \in 1..Len(u) : Ascending(u[c])
  <2> SUFFICES ASSUME to.unordered = FALSE, NEW c \in 1..Len(u) PROVE Ascending(u[c])
    OBVIOUS
  <2>1. (\A i \in 1..n : Ascending(s[i])) /\ \A i \in 1..Len(t) : Ascending(t[i])
    BY <1>1, <1>2, <1>6 DEF n
  <2> QED
    BY <1>7, <2>1
<1>12. to \in Sound(R)
  <2>1. to \in Buffers(R)
    BY <1>1, <1>3, <1>4, <1>5, <1>6 DEF Buffers, S
  <2> QED
    BY <1>3, <1>4, <1>10, <1>11, <2>1 DEF Sound
<1>13. ASSUME NEW x PROVE Has(to, x) <=> Has(a, x) \/ Has(b, x)
  <2>1. ASSUME Has(to, x) PROVE Has(a, x) \/ Has(b, x)
    <3>1. PICK c \in 1..Len(u) : \E r \in 1..Len(u[c]) : u[c][r].id = x
      BY <1>3, <1>4, <2>1 DEF Has
    <3>2. PICK w : w = u[c]
      OBVIOUS
    <3>3. \E r \in 1..Len(w) : w[r].id = x
      BY <3>1, <3>2
    <3>4. (c \in 1..n /\ w = s[c]) \/ (c - n \in 1..Len(t) /\ w = t[c - n])
      BY <1>7, <3>2
    <3> QED
      BY <3>3, <3>4 DEF Has, s, t, n
  <2>2. ASSUME Has(a, x) PROVE Has(to, x)
    <3>1. PICK c \in 1..n : \E r \in 1..Len(s[c]) : s[c][r].id = x
      BY <2>2 DEF Has, s, n
    <3> QED
      BY <1>3, <1>4, <1>8, <3>1 DEF Has
  <2>3. ASSUME Has(b, x) PROVE Has(to, x)
    <3>1. PICK c \in 1..Len(t) : \E r \in 1..Len(t[c]) : t[c][r].id = x
      BY <2>3 DEF Has, t
    <3>2. PICK d : d = n + c
      OBVIOUS
    <3>3. d \in 1..Len(u) /\ u[d] = t[c]
      BY <1>9, <3>2
    <3>4. to.chunks = u
      BY <1>3, <1>4
    <3> HIDE DEF n
    <3> QED
      BY <3>1, <3>3, <3>4 DEF Has
  <2> QED
    BY <2>1, <2>2, <2>3
<1> QED
  BY <1>12, <1>13

\* The states of a scan, combined into one buffer.
Gathers(scan, m, R) ==
    /\ m \in Nat /\ DOMAIN scan = 1..m
    /\ \A t \in 1..m : \E n : Calls(scan[t], n, R)

LEMMA ScanIsBuffered ==
  ASSUME NEW R, IdsOf(R), NEW m, NEW scan, Gathers(scan, m, R)
  PROVE  /\ Buffered(scan) \in Sound(R)
         /\ \A t \in DOMAIN scan : \A c \in DOMAIN scan[t] : \A k \in DOMAIN scan[t][c] :
               Has(Buffered(scan), scan[t][c][k].id)
<1> DEFINE A == Sound(R)
           To(t, b) == Merge(b, Delivered(scan[t]))
           step == [t \in 1..m |-> [b \in A |-> To(t, b)]]
           xs == [t \in 1..m |-> UNION {{scan[t][c][k].id : k \in DOMAIN scan[t][c]} : c \in DOMAIN scan[t]}]
<1>0. m \in Nat /\ DOMAIN scan = 1..m
  BY DEF Gathers
<1>1. ASSUME NEW t \in 1..m, NEW b \in A
      PROVE  /\ To(t, b) \in A /\ \A x \in xs[t] : Has(To(t, b), x)
             /\ \A x : Has(b, x) => Has(To(t, b), x)
  <2>1. PICK n : Calls(scan[t], n, R)
    BY DEF Gathers
  <2>2. /\ Delivered(scan[t]) \in A
        /\ \A c \in DOMAIN scan[t] : \A k \in DOMAIN scan[t][c] : Has(Delivered(scan[t]), scan[t][c][k].id)
    BY <2>1, StateDelivers
  <2>3. To(t, b) \in A /\ \A x : Has(To(t, b), x) <=> Has(b, x) \/ Has(Delivered(scan[t]), x)
    BY <2>2, MergeKeeps
  <2>4. \A x \in xs[t] : Has(Delivered(scan[t]), x)
    BY <2>2
  <2> HIDE DEF To, xs
  <2> QED
    BY <2>3, <2>4
<1>2. IsStep(step, m, A) /\ \A t \in 1..m : \A b \in A : step[t][b] = To(t, b)
  <2> HIDE DEF To
  <2> QED
    BY <1>0, <1>1 DEF IsStep
<1>2a. Adds(step, m, A, xs)
  <2> HIDE DEF To, xs
  <2> QED
    BY <1>1, <1>2 DEF Adds
<1>3. /\ NoBuffer \in A
      /\ \A t \in DOMAIN scan : \A c \in DOMAIN scan[t] : \A k \in DOMAIN scan[t][c] : scan[t][c][k].id \in xs[t]
  BY <1>0, NoBufferIsSound
<1> HIDE DEF A, step, xs
<1>5. PICK h \in [SUBSET (1..m) -> A] : Folds(h, m, NoBuffer, step)
  BY <1>0, <1>2, <1>3, FoldExists
<1>6. \A s \in SUBSET (1..m) : s # {} => Max(s) \in 1..m /\ s \ {Max(s)} \in SUBSET (1..m)
  BY <1>0, MaxIsLargest
<1>7. h = [s \in SUBSET DOMAIN scan |-> IF s = {} THEN NoBuffer ELSE Merge(h[s \ {Max(s)}], Delivered(scan[Max(s)]))]
  <2> SUFFICES ASSUME NEW s \in SUBSET (1..m)
               PROVE  h[s] = IF s = {} THEN NoBuffer ELSE Merge(h[s \ {Max(s)}], Delivered(scan[Max(s)]))
    BY <1>0
  <2>1. CASE s = {}
    BY <1>5, <2>1 DEF Folds
  <2>2. CASE s # {}
    <3>1. h[s] = step[Max(s)][h[s \ {Max(s)}]]
      BY <1>5, <2>2 DEF Folds
    <3> QED
      BY <1>2, <1>6, <2>2, <3>1
  <2> QED
    BY <2>1, <2>2
<1>8. PICK f : f = [s \in SUBSET DOMAIN scan |-> IF s = {} THEN NoBuffer ELSE Merge(f[s \ {Max(s)}], Delivered(scan[Max(s)]))]
               /\ Buffered(scan) = f[DOMAIN scan]
  BY <1>7 DEF Buffered, FoldLeft, MapThenFoldSet
<1>9. Steps(f, m, A, NoBuffer, step)
  <2> SUFFICES ASSUME NEW s \in SUBSET (1..m), s # {}, f[s \ {Max(s)}] \in A PROVE f[s] = step[Max(s)][f[s \ {Max(s)}]]
    BY <1>0, <1>8 DEF Steps
  <2>1. Max(s) \in 1..m /\ s \in SUBSET DOMAIN scan
    BY <1>0, <1>6
  <2>2. f[s] = Merge(f[s \ {Max(s)}], Delivered(scan[Max(s)]))
    BY <1>8, <2>1
  <2> QED
    BY <1>2, <2>1, <2>2
<1>10. PICK F : F = [k \in 0..m |-> f[1..k]]
  OBVIOUS
<1>11. IsRun(F, m, A, NoBuffer, step)
  BY <1>0, <1>2, <1>3, <1>9, <1>10, FoldRuns
<1>12. F[m] \in A /\ \A t \in 1..m : \A x \in xs[t] : Has(F[m], x)
  BY <1>0, <1>11, <1>2a, RunAdds
<1>13. F[m] = Buffered(scan)
  <2>1. m \in 0..m
    BY <1>0
  <2> QED
    BY <1>0, <1>8, <1>10, <2>1
<1> QED
  BY <1>0, <1>3, <1>12, <1>13 DEF A

LEMMA JoinIsSeq ==
  ASSUME NEW R, NEW t \in Seq(R), NEW s \in Seq(R), NEW u, u = t \o s
  PROVE  /\ u \in Seq(R) /\ Len(t) \in Nat /\ Len(s) \in Nat /\ Len(u) = Len(t) + Len(s)
         /\ \A i \in 1..Len(t) : u[i] = t[i]
         /\ \A i \in 1..Len(s) : u[Len(t) + i] = s[i]
<1>2. /\ u \in Seq(R) /\ Len(u) = Len(t) + Len(s) /\ Len(s) \in Nat /\ Len(t) \in Nat
      /\ \A i \in 1..Len(t) + Len(s) : u[i] = IF i <= Len(t) THEN t[i] ELSE s[i - Len(t)]
  BY ConcatProperties, LenProperties
<1>3. \A i \in 1..Len(s) : Len(t) + i \in 1..Len(t) + Len(s) /\ ~(Len(t) + i <= Len(t)) /\ (Len(t) + i) - Len(t) = i
  BY <1>2
<1>4. \A i \in 1..Len(t) : i \in 1..Len(t) + Len(s) /\ i <= Len(t)
  BY <1>2
<1> QED
  BY <1>2, <1>3, <1>4

\* The chunks one after another have the rows of the buffer.
LEMMA ChunksHaveTheRows ==
  ASSUME NEW R, NEW b \in Sound(R)
  PROVE  /\ RowsOf(b) \in Seq(R)
         /\ \A x : Has(b, x) => \E i \in 1..Len(RowsOf(b)) : RowsOf(b)[i].id = x
<1> DEFINE A == Seq(R)
           all == b.chunks
           n == Len(all)
           step == [c \in 1..n |-> [t \in A |-> t \o all[c]]]
<1>0. n \in Nat /\ DOMAIN all = 1..n /\ \A c \in 1..n : all[c] \in A
  <2>1. all \in Seq(Seq(R) \ {<<>>})
    BY DEF Sound, Buffers
  <2>2. n \in Nat /\ DOMAIN all = 1..n /\ \A c \in 1..n : all[c] \in Seq(R) \ {<<>>}
    <3> HIDE DEF all
    <3> QED
      BY <2>1, ElementOfSeq, LenProperties
  <2> QED
    BY <2>2
<1>1. ASSUME NEW c \in 1..n, NEW t \in A PROVE t \o all[c] \in A
  <2> HIDE DEF all, n
  <2> QED
    BY <1>0, JoinIsSeq DEF A
<1>2. IsStep(step, n, A) /\ \A c \in 1..n : \A t \in A : step[c][t] = t \o all[c]
  <2> HIDE DEF all, n, A
  <2> QED
    BY <1>1 DEF IsStep
<1>3. <<>> \in A
  OBVIOUS
<1> HIDE DEF A, step, n
<1>5. PICK h \in [SUBSET (1..n) -> A] : Folds(h, n, <<>>, step)
  BY <1>0, <1>2, <1>3, FoldExists
<1>6. \A s \in SUBSET (1..n) : s # {} => Max(s) \in 1..n /\ s \ {Max(s)} \in SUBSET (1..n)
  BY <1>0, MaxIsLargest
<1>7. h = [s \in SUBSET DOMAIN all |-> IF s = {} THEN <<>> ELSE h[s \ {Max(s)}] \o all[Max(s)]]
  <2> HIDE DEF all
  <2> SUFFICES ASSUME NEW s \in SUBSET (1..n)
               PROVE  h[s] = IF s = {} THEN <<>> ELSE h[s \ {Max(s)}] \o all[Max(s)]
    BY <1>0
  <2>1. CASE s = {}
    BY <1>5, <2>1 DEF Folds
  <2>2. CASE s # {}
    <3>1. h[s] = step[Max(s)][h[s \ {Max(s)}]]
      BY <1>5, <2>2 DEF Folds
    <3> QED
      BY <1>2, <1>6, <2>2, <3>1
  <2> QED
    BY <2>1, <2>2
<1>7a. RowsOf(b) = FoldLeft(\o, <<>>, all)
  BY DEF RowsOf
<1> HIDE DEF all
<1>8. PICK f : f = [s \in SUBSET DOMAIN all |-> IF s = {} THEN <<>> ELSE f[s \ {Max(s)}] \o all[Max(s)]]
               /\ RowsOf(b) = f[DOMAIN all]
  BY <1>7, <1>7a DEF FoldLeft, MapThenFoldSet
<1>9. Steps(f, n, A, <<>>, step)
  <2> SUFFICES ASSUME NEW s \in SUBSET (1..n), s # {}, f[s \ {Max(s)}] \in A PROVE f[s] = step[Max(s)][f[s \ {Max(s)}]]
    BY <1>0, <1>8 DEF Steps
  <2>1. Max(s) \in 1..n /\ s \in SUBSET DOMAIN all
    BY <1>0, <1>6
  <2>2. f[s] = f[s \ {Max(s)}] \o all[Max(s)]
    BY <1>8, <2>1
  <2> QED
    BY <1>2, <2>1, <2>2
<1>10. PICK F : F = [k \in 0..n |-> f[1..k]]
  OBVIOUS
<1>11. IsRun(F, n, A, <<>>, step)
  BY <1>0, <1>2, <1>3, <1>9, <1>10, FoldRuns
<1>12. F \in [0..n -> A] /\ \A c \in 1..n : F[c] = step[c][F[c - 1]]
  BY <1>11 DEF IsRun
<1> DEFINE P == {k \in 0..n : \A c \in 1..k : \A r \in 1..Len(all[c]) : \E i \in 1..Len(F[k]) : F[k][i] = all[c][r]}
<1>13. 0 \in P
  BY <1>0
<1>14. ASSUME NEW k \in 1..n, k - 1 \in P PROVE k \in P
  <2>1. k - 1 \in 0..n /\ F[k - 1] \in A /\ F[k] = F[k - 1] \o all[k] /\ k \in 0..n
    <3>1. n \in Nat /\ k - 1 \in 0..n /\ k \in 0..n
      BY <1>0
    <3>2. F[k - 1] \in A /\ F[k] = step[k][F[k - 1]]
      BY <1>12, <3>1
    <3> QED
      BY <1>2, <3>1, <3>2
  <2>2. PICK t, u, s : t = F[k - 1] /\ u = F[k] /\ s = all[k] /\ t \in A /\ s \in A /\ u = t \o s
    BY <1>0, <2>1
  <2>3. /\ Len(t) \in Nat /\ Len(s) \in Nat /\ Len(u) = Len(t) + Len(s)
        /\ \A i \in 1..Len(t) : u[i] = t[i]
        /\ \A i \in 1..Len(s) : u[Len(t) + i] = s[i]
    <3> HIDE DEF P
    <3>1. t \in Seq(R) /\ s \in Seq(R) /\ u = t \o s
      BY <2>2 DEF A
    <3>2. /\ Len(t) \in Nat /\ Len(s) \in Nat /\ Len(u) = Len(t) + Len(s)
          /\ \A i \in 1..Len(t) : u[i] = t[i]
          /\ \A i \in 1..Len(s) : u[Len(t) + i] = s[i]
      BY ONLY <3>1, JoinIsSeq
    <3> QED
      BY <3>2
  <2>4. ASSUME NEW c \in 1..k, NEW r \in 1..Len(all[c]) PROVE \E i \in 1..Len(u) : u[i] = all[c][r]
    <3>1. CASE c = k
      <4>0. r \in 1..Len(s)
        BY <2>2, <3>1
      <4>1. Len(t) + r \in 1..Len(u) /\ u[Len(t) + r] = s[r]
        BY <2>3, <4>0
      <4> QED
        BY <2>2, <3>1, <4>1
    <3>2. CASE c # k
      <4>1. c \in 1..k - 1
        BY <1>0, <3>2
      <4>2. PICK i \in 1..Len(t) : t[i] = all[c][r]
        BY <1>14, <2>2, <2>4, <4>1
      <4>3. i \in 1..Len(u) /\ u[i] = t[i]
        BY <2>3
      <4> QED
        BY <4>2, <4>3
    <3> QED
      BY <3>1, <3>2
  <2>5. \A c \in 1..k : \A r \in 1..Len(all[c]) : \E i \in 1..Len(F[k]) : F[k][i] = all[c][r]
    <3> SUFFICES ASSUME NEW c \in 1..k, NEW r \in 1..Len(all[c]) PROVE \E i \in 1..Len(F[k]) : F[k][i] = all[c][r]
      OBVIOUS
    <3>1. \E i \in 1..Len(u) : u[i] = all[c][r]
      BY <2>4
    <3>2. u = F[k]
      BY <2>2
    <3> QED
      BY <3>1, <3>2, Zenon
  <2> QED
    BY <2>1, <2>5
<1>15. \A k \in 0..n : k \in P
  <2> HIDE DEF P
  <2> QED
    BY <1>0, <1>13, <1>14, CountUp
<1>16. n \in 0..n /\ F[n] = RowsOf(b)
  <2>1. n \in 0..n
    BY <1>0
  <2> QED
    BY <1>0, <1>8, <1>10, <2>1
<1>17. \A c \in 1..n : \A r \in 1..Len(all[c]) : \E i \in 1..Len(RowsOf(b)) : RowsOf(b)[i] = all[c][r]
  <2>1. n \in P
    BY <1>15, <1>16
  <2> QED
    BY <1>16, <2>1
<1>18. ASSUME NEW x, Has(b, x) PROVE \E i \in 1..Len(RowsOf(b)) : RowsOf(b)[i].id = x
  <2>1. PICK c \in 1..n : \E r \in 1..Len(all[c]) : all[c][r].id = x
    BY <1>18 DEF Has, all, n
  <2>2. PICK r \in 1..Len(all[c]) : all[c][r].id = x
    BY <2>1
  <2>3. PICK i \in 1..Len(RowsOf(b)) : RowsOf(b)[i] = all[c][r]
    BY <1>17
  <2> QED
    BY <2>2, <2>3
<1> QED
  BY <1>12, <1>16, <1>18 DEF A

\* ---- where the rows of a buffer are placed ----------------------------------------------
\* The rows of a table, row j with id j, as the set of what a scan may deliver.
Numbered(of, n) == n \in Nat /\ of = [j \in 1..n |-> of[j]] /\ \A j \in 1..n : of[j].id = j
RowSet(of, n) == {of[j] : j \in 1..n}

LEMMA RowIsItsId ==
  ASSUME NEW of, NEW n, Numbered(of, n), NEW r \in RowSet(of, n)
  PROVE  r.id \in 1..n /\ of[r.id] = r /\ r.id \in Int
<1>1. PICK j \in 1..n : r = of[j]
  BY DEF RowSet
<1>2. r.id = j /\ n \in Nat
  BY <1>1 DEF Numbered
<1> QED
  BY <1>1, <1>2

\* Parts whose ids count the rows of the table are the table, cut.
LEMMA CountingParts ==
  ASSUME NEW of, NEW n, Numbered(of, n), NEW parts, NEW m, NEW x, NEW L, Counting(x, L, m, n), DOMAIN parts = 1..m,
         \A c \in 1..m : /\ DOMAIN parts[c] = 1..L[c] /\ Len(parts[c]) = L[c]
                         /\ \A r \in 1..L[c] : parts[c][r] \in RowSet(of, n) /\ x[c][r] = parts[c][r].id
  PROVE  \E g : ArePieces(parts, of, g, m) /\ g[m] = n
<1>1. PICK g \in [0..m -> Nat] : /\ g[0] = 0 /\ g[m] = n
                                 /\ \A c \in 1..m : /\ g[c] = g[c - 1] + L[c]
                                                    /\ \A r \in 1..L[c] : x[c][r] = g[c - 1] + r
  BY IdsArePositions
<1>2. m \in Nat /\ \A c \in 1..m : L[c] \in Nat
  BY DEF Counting
<1>3. \A c \in 1..m : \A r \in 1..L[c] : parts[c][r] = of[g[c - 1] + r]
  <2> SUFFICES ASSUME NEW c \in 1..m, NEW r \in 1..L[c] PROVE parts[c][r] = of[g[c - 1] + r]
    OBVIOUS
  <2>1. parts[c][r] = of[parts[c][r].id]
    BY RowIsItsId
  <2>2. parts[c][r].id = g[c - 1] + r
    BY <1>1
  <2> QED
    BY <2>1, <2>2
<1> QED
  BY <1>1, <1>2, <1>3 DEF ArePieces

\* The chunks by their first id.
LEMMA ChunksByFirst ==
  ASSUME NEW of, NEW n, Numbered(of, n), NEW b \in Sound(RowSet(of, n)), \A j \in 1..n : Has(b, j), ~MustPlace(b)
  PROVE  \E g, m : ArePieces(ByFirst(b.chunks), of, g, m) /\ g[m] = n
<1> DEFINE R == RowSet(of, n)
           S == Seq(R) \ {<<>>}
           all == b.chunks
           m == Len(all)
           ids == [c \in DOMAIN all |-> FirstId(all[c])]
<1>1. /\ all \in Seq(S) /\ b.unordered \in BOOLEAN
      /\ b.unordered = FALSE => \A c \in 1..m : Ascending(all[c])
  BY DEF Sound, Buffers
<1>2. m \in Nat /\ DOMAIN all = 1..m /\ \A c \in 1..m : all[c] \in S
  <2> HIDE DEF all, S
  <2> QED
    BY <1>1, ElementOfSeq, LenProperties DEF m
<1>3. ASSUME NEW c \in S
      PROVE  /\ Len(c) \in Nat \ {0} /\ DOMAIN c = 1..Len(c) /\ FirstId(c) = c[1].id /\ LastId(c) = c[Len(c)].id
             /\ \A r \in 1..Len(c) : c[r] \in R /\ c[r].id \in 1..n
  <2>1. c \in Seq(R) /\ c # <<>>
    OBVIOUS
  <2>2. Len(c) \in Nat \ {0} /\ DOMAIN c = 1..Len(c) /\ \A r \in 1..Len(c) : c[r] \in R
    <3> HIDE DEF R
    <3> QED
      BY <2>1, EmptySeq, ElementOfSeq, LenProperties
  <2>3. FirstId(c) = c[1].id /\ LastId(c) = c[Len(c)].id
    BY <2>1 DEF FirstId, LastId, Last
  <2> QED
    BY <2>2, <2>3, RowIsItsId
<1>4. ids \in [1..m -> Int] /\ \A c \in 1..m : ids[c] = all[c][1].id
  <2> HIDE DEF S, R, all, m
  <2>1. n \in Nat
    BY DEF Numbered
  <2>2. \A c \in 1..m : FirstId(all[c]) = all[c][1].id /\ all[c][1].id \in Int
    <3> SUFFICES ASSUME NEW c \in 1..m PROVE FirstId(all[c]) = all[c][1].id /\ all[c][1].id \in Int
      OBVIOUS
    <3>1. all[c] \in S
      BY <1>2
    <3>2. FirstId(all[c]) = all[c][1].id /\ 1 \in 1..Len(all[c])
      BY <1>3, <3>1
    <3>3. all[c][1].id \in 1..n
      BY <1>3, <3>1, <3>2
    <3> QED
      BY <2>1, <3>2, <3>3
  <2> QED
    BY <1>2, <2>2
<1>5. PICK e : e = Stable(ids) /\ Sorts(e, ids, m)
  <2> HIDE DEF ids, m
  <2> QED
    BY <1>2, <1>4, StableSorts
<1>6. PICK parts : parts = ByFirst(all)
  OBVIOUS
<1>7. DOMAIN e = 1..m /\ parts = [c \in 1..m |-> all[e[c]]]
  <2>1. DOMAIN e = 1..m
    BY <1>5 DEF Sorts
  <2>2. parts = [c \in DOMAIN e |-> all[e[c]]]
    BY <1>5, <1>6 DEF ByFirst
  <2> QED
    BY <2>1, <2>2
<1>8. b.unordered # TRUE /\ \A c \in 2..Len(parts) : ~(FirstId(parts[c]) <= LastId(parts[c - 1]))
  BY <1>6 DEF MustPlace
<1>9. \A c \in 1..m : Ascending(all[c])
  <2> HIDE DEF all, m
  <2>1. b.unordered = FALSE
    BY <1>1, <1>8, Zenon
  <2> QED
    BY <1>1, <2>1
<1> HIDE DEF R, S, all, m, ids
<1>10. Len(parts) = m /\ DOMAIN parts = 1..m
  BY <1>2, <1>7
<1>11. ASSUME NEW c \in 1..m
       PROVE  /\ e[c] \in 1..m /\ parts[c] = all[e[c]] /\ parts[c] \in S /\ Ascending(parts[c])
              /\ Len(parts[c]) \in Nat \ {0} /\ DOMAIN parts[c] = 1..Len(parts[c]) /\ FirstId(parts[c]) = parts[c][1].id
              /\ LastId(parts[c]) = parts[c][Len(parts[c])].id
              /\ \A r \in 1..Len(parts[c]) : parts[c][r] \in R /\ parts[c][r].id \in 1..n
  <2>1. e[c] \in 1..m
    BY <1>5 DEF Sorts
  <2>2. parts[c] = all[e[c]] /\ all[e[c]] \in S
    BY <1>2, <1>7, <2>1
  <2>3. Ascending(parts[c])
    BY <1>9, <2>1, <2>2
  <2> QED
    BY <1>3, <2>1, <2>2, <2>3
<1>12. PICK L : L = [c \in 1..m |-> Len(parts[c])]
  OBVIOUS
<1>13. PICK x : x = [c \in 1..m |-> [r \in 1..L[c] |-> parts[c][r].id]]
  OBVIOUS
<1>14. \A c \in 1..m : L[c] = Len(parts[c]) /\ \A r \in 1..L[c] : x[c][r] = parts[c][r].id
  BY <1>12, <1>13
<1>15. Counting(x, L, m, n)
  <2>1. m \in Nat /\ n \in Nat
    BY <1>2 DEF Numbered
  <2>2. \A c \in 1..m : L[c] \in Nat \ {0} /\ \A r \in 1..L[c] : x[c][r] \in 1..n
    BY <1>11, <1>14
  <2>3. \A c \in 1..m : \A i, j \in 1..L[c] : i < j => x[c][i] < x[c][j]
    BY <1>11, <1>14 DEF Ascending
  <2>4. ASSUME NEW c \in 2..m PROVE x[c - 1][L[c - 1]] < x[c][1]
    <3>1. c \in 1..m /\ c - 1 \in 1..m
      BY <2>1
    <3>2. PICK p, q : p = parts[c - 1] /\ q = parts[c]
      OBVIOUS
    <3>3. /\ Len(p) \in Nat \ {0} /\ LastId(p) = p[Len(p)].id /\ \A r \in 1..Len(p) : p[r].id \in 1..n
          /\ Len(q) \in Nat \ {0} /\ FirstId(q) = q[1].id /\ \A r \in 1..Len(q) : q[r].id \in 1..n
      BY <1>11, <3>1, <3>2
    <3>4. Len(p) \in 1..Len(p) /\ 1 \in 1..Len(q)
      BY <3>3
    <3>5. x[c - 1][L[c - 1]] = p[Len(p)].id /\ x[c][1] = q[1].id
      BY <1>14, <3>1, <3>2, <3>4
    <3>6. ~(q[1].id <= p[Len(p)].id)
      BY <1>8, <1>10, <3>2, <3>3
    <3>7. PICK u \in Int, v \in Int : u = q[1].id /\ v = p[Len(p)].id
      BY <2>1, <3>3, <3>4
    <3> QED
      BY <3>5, <3>6, <3>7
  <2>5. ASSUME NEW k \in 1..n PROVE \E c \in 1..m : \E r \in 1..L[c] : x[c][r] = k
    <3>1. PICK d \in 1..m : \E r \in 1..Len(all[d]) : all[d][r].id = k
      BY DEF Has, all, m
    <3>2. PICK c \in 1..m : e[c] = d
      BY <1>5 DEF Sorts
    <3>3. parts[c] = all[d]
      BY <1>11, <3>2
    <3>4. PICK r \in 1..Len(parts[c]) : parts[c][r].id = k
      BY <3>1, <3>3
    <3>5. r \in 1..L[c] /\ x[c][r] = k
      BY <1>14, <3>4
    <3> QED
      BY <3>5
  <2> QED
    BY <2>1, <2>2, <2>3, <2>4, <2>5 DEF Counting
<1>16. \A c \in 1..m : /\ DOMAIN parts[c] = 1..L[c] /\ Len(parts[c]) = L[c]
                       /\ \A r \in 1..L[c] : parts[c][r] \in RowSet(of, n) /\ x[c][r] = parts[c][r].id
  BY <1>11, <1>14 DEF R
<1>17. \E g : ArePieces(parts, of, g, m) /\ g[m] = n
  BY <1>10, <1>15, <1>16, CountingParts
<1> QED
  BY <1>6, <1>17 DEF all

\* The rows by their ids, when no id comes twice.
LEMMA RowsByTheirIds ==
  ASSUME NEW of, NEW n, Numbered(of, n), NEW rows \in Seq(RowSet(of, n)), ~Duplicate(rows),
         \A j \in 1..n : \E i \in 1..Len(rows) : rows[i].id = j
  PROVE  ByRowId(rows) = of
<1> DEFINE R == RowSet(of, n)
           N == Len(rows)
           ids == [r \in DOMAIN rows |-> rows[r].id]
<1> HIDE DEF R
<1>1. N \in Nat /\ DOMAIN rows = 1..N /\ \A i \in 1..N : rows[i] \in R
  BY ElementOfSeq, LenProperties DEF R
<1>2. \A i \in 1..N : rows[i].id \in 1..n /\ rows[i].id \in Int
  BY <1>1, RowIsItsId DEF R
<1>3. ids \in [1..N -> Int] /\ \A i \in 1..N : ids[i] = rows[i].id
  BY <1>1, <1>2
<1> HIDE DEF N
<1>4. PICK e : e = Stable(ids) /\ Sorts(e, ids, N)
  <2> HIDE DEF ids
  <2> QED
    BY <1>1, <1>3, StableSorts
<1>5. PICK done : done = ByRowId(rows)
  OBVIOUS
<1>6. DOMAIN e = 1..N /\ done = [r \in 1..N |-> rows[e[r]]]
  <2>1. DOMAIN e = 1..N
    BY <1>4 DEF Sorts
  <2>2. done = [r \in DOMAIN e |-> rows[e[r]]]
    BY <1>4, <1>5 DEF ByRowId
  <2> QED
    BY <2>1, <2>2
<1> HIDE DEF ids
<1>7. \A r \in 1..N : e[r] \in 1..N /\ done[r] = rows[e[r]] /\ done[r] \in R /\ done[r].id = ids[e[r]] /\ done[r].id \in 1..n
  BY <1>1, <1>2, <1>3, <1>4, <1>6 DEF Sorts
<1>8. ASSUME NEW i \in 1..N, NEW j \in 1..N, i < j PROVE done[i].id < done[j].id
  <2>1. e[i] # e[j] /\ ids[e[i]] <= ids[e[j]]
    BY <1>4, <1>8 DEF Sorts
  <2>2. rows[e[i]].id # rows[e[j]].id
    BY <1>1, <1>7, <2>1 DEF Duplicate
  <2>3. PICK p \in Int, q \in Int : p = ids[e[i]] /\ q = ids[e[j]] /\ p # q /\ p <= q
    BY <1>3, <1>7, <2>1, <2>2
  <2> QED
    BY <1>7, <2>3
<1>9. ASSUME NEW k \in 1..n PROVE \E r \in 1..N : done[r].id = k
  <2>1. PICK i \in 1..N : rows[i].id = k
    BY DEF N
  <2>2. PICK r \in 1..N : e[r] = i
    BY <1>4 DEF Sorts
  <2> QED
    BY <1>7, <2>1, <2>2
<1>10. n \in Nat
  BY DEF Numbered
<1>11. CASE N = 0
  <2>1. n = 0
    <3>1. ASSUME n # 0 PROVE FALSE
      <4>1. 1 \in 1..n
        BY <1>10, <3>1
      <4>2. PICK r \in 1..N : TRUE
        BY <1>9, <4>1
      <4> QED
        BY <1>11, <4>2
    <3> QED
      BY <3>1
  <2>2. done = [j \in 1..n |-> of[j]]
    BY <1>6, <1>11, <2>1
  <2> QED
    BY <1>5, <2>2 DEF Numbered
<1>12. CASE N # 0
  <2>1. PICK L : L = [c \in 1..1 |-> N]
    OBVIOUS
  <2>2. PICK x : x = [c \in 1..1 |-> [r \in 1..N |-> done[r].id]]
    OBVIOUS
  <2>3. \A c \in 1..1 : L[c] = N /\ \A r \in 1..N : x[c][r] = done[r].id
    BY <2>1, <2>2
  <2>4. Counting(x, L, 1, n)
    <3>1. \A c \in 1..1 : L[c] \in Nat \ {0} /\ \A r \in 1..L[c] : x[c][r] \in 1..n
      BY <1>1, <1>7, <1>12, <2>3
    <3>2. \A c \in 1..1 : \A i, j \in 1..L[c] : i < j => x[c][i] < x[c][j]
      BY <1>8, <2>3
    <3>3. \A k \in 1..n : \E c \in 1..1 : \E r \in 1..L[c] : x[c][r] = k
      <4> SUFFICES ASSUME NEW k \in 1..n PROVE \E c \in 1..1 : \E r \in 1..L[c] : x[c][r] = k
        OBVIOUS
      <4>1. PICK r \in 1..N : done[r].id = k
        BY <1>9
      <4>2. 1 \in 1..1 /\ r \in 1..L[1] /\ x[1][r] = k
        BY <2>3, <4>1
      <4> QED
        BY <4>2
    <3>4. \A c \in 2..1 : x[c - 1][L[c - 1]] < x[c][1]
      OBVIOUS
    <3> QED
      BY <1>10, <3>1, <3>2, <3>3, <3>4 DEF Counting
  <2>5. PICK g \in [0..1 -> Nat] : /\ g[0] = 0 /\ g[1] = n
                                   /\ \A c \in 1..1 : /\ g[c] = g[c - 1] + L[c]
                                                      /\ \A r \in 1..L[c] : x[c][r] = g[c - 1] + r
    BY <2>4, IdsArePositions
  <2>6. N = n /\ \A r \in 1..N : done[r].id = r
    <3>1. 1 \in 1..1 /\ 1 - 1 = 0
      OBVIOUS
    <3>2. g[1] = g[0] + N /\ \A r \in 1..N : x[1][r] = g[0] + r
      BY <2>3, <2>5, <3>1
    <3>3. n = N
      BY <1>1, <2>5, <3>2
    <3>4. \A r \in 1..N : x[1][r] = done[r].id
      BY <2>3, <3>1
    <3>5. \A r \in 1..N : x[1][r] = r
      BY <2>5, <3>2
    <3> QED
      BY <3>3, <3>4, <3>5
  <2>7. \A r \in 1..n : done[r] = of[r]
    <3> SUFFICES ASSUME NEW r \in 1..n PROVE done[r] = of[r]
      OBVIOUS
    <3>1. done[r] \in R /\ done[r].id = r
      BY <1>7, <2>6
    <3> QED
      BY <3>1, RowIsItsId DEF R
  <2>8. done = [j \in 1..n |-> of[j]]
    BY <1>6, <2>6, <2>7
  <2> QED
    BY <1>5, <2>8 DEF Numbered
<1> QED
  BY <1>11, <1>12

\* ---- the set a column upload publishes ------------------------------------------------
Placed(p) == p.err = ""

LEMMA PlacementIs ==
  ASSUME NEW of, NEW n, Numbered(of, n), NEW b \in Sound(RowSet(of, n)), \A j \in 1..n : Has(b, j),
         NEW p, p = Placement(b), Placed(p)
  PROVE  \E parts, g, m : p.spans = EndToEnd(parts) /\ ArePieces(parts, of, g, m) /\ g[m] = n
<1>1. CASE ~MustPlace(b)
  <2>1. p.spans = EndToEnd(ByFirst(b.chunks))
    BY <1>1, Zenon DEF Placement
  <2>2. \E g, m : ArePieces(ByFirst(b.chunks), of, g, m) /\ g[m] = n
    BY <1>1, ChunksByFirst
  <2> QED
    BY <2>1, <2>2
<1>2. CASE MustPlace(b)
  <2>1. PICK rows : rows = RowsOf(b)
    OBVIOUS
  <2>2. ~Duplicate(rows)
    <3>1. ASSUME Duplicate(rows) PROVE FALSE
      <4>1. p.err = "duplicate row id"
        BY <1>2, <2>1, <3>1, Zenon DEF Placement
      <4>2. "duplicate row id" # ""
        BY Zenon
      <4> QED
        BY <4>1, <4>2, Zenon DEF Placed
    <3> QED
      BY <3>1
  <2>3. p.spans = EndToEnd(Segments(ByRowId(rows)))
    BY <1>2, <2>1, <2>2, Zenon DEF Placement
  <2>4. rows \in Seq(RowSet(of, n)) /\ \A j \in 1..n : \E i \in 1..Len(rows) : rows[i].id = j
    BY <2>1, ChunksHaveTheRows
  <2>5. ByRowId(rows) = of
    BY <2>2, <2>4, RowsByTheirIds
  <2>6. n \in Nat /\ of = [j \in 1..n |-> of[j]]
    BY DEF Numbered
  <2>7. IsRows(of) /\ Len(of) = n
    <3>1. Len(of) = n
      BY <2>6
    <3> QED
      BY <2>6, <3>1 DEF IsRows
  <2>8. PICK g, m : ArePieces(Segments(of), of, g, m) /\ g[m] = n
    BY <2>7, SegmentsArePieces
  <2> QED
    BY <2>3, <2>5, <2>8
<1> QED
  BY <1>1, <1>2

FiveNames == <<"id", "k", "v", "i", "f">>
FiveTypes == <<"i64", "i64", "i64", "i64", "f64">>
\* Every row a scan hands over is in the combined buffer.
LEMMA DeliveredRows ==
  ASSUME NEW s, Delivers(s), NEW of, NEW n, n = Len(s.rows), Numbered(of, n),
         NEW scan, scan = [t \in DOMAIN s.scan |-> [c \in DOMAIN s.scan[t] |->
                              [r \in DOMAIN s.scan[t][c] |-> of[s.scan[t][c][r]]]]]
  PROVE  Buffered(scan) \in Sound(RowSet(of, n)) /\ \A j \in 1..n : Has(Buffered(scan), j)
<1>1. PICK R : R = RowSet(of, n) /\ IdsOf(R)
  BY RowIsItsId DEF IdsOf
<1>2. DOMAIN s.rows = 1..n /\ n \in Nat
  BY DEF Delivers, IsTable, Lanes, IsRows
<1>3. PICK m \in Nat : DOMAIN s.scan = 1..m
  BY DEF Delivers, IsRows
<1>4. \A t \in 1..m : scan[t] = [c \in DOMAIN s.scan[t] |-> [r \in DOMAIN s.scan[t][c] |-> of[s.scan[t][c][r]]]]
  BY <1>3
<1>5. ASSUME NEW t \in 1..m PROVE \E k : Calls(scan[t], k, R)
  <2>1. PICK k \in Nat : DOMAIN s.scan[t] = 1..k
    BY <1>3 DEF Delivers, IsRows
  <2>2. DOMAIN scan[t] = 1..k
    BY <1>4, <2>1
  <2>3. ASSUME NEW c \in 1..k PROVE \E d \in Nat : DOMAIN scan[t][c] = 1..d /\ \A i \in 1..d : scan[t][c][i] \in R
    <3>1. scan[t][c] = [r \in DOMAIN s.scan[t][c] |-> of[s.scan[t][c][r]]]
      <4>1. scan[t] = [a \in 1..k |-> [r \in DOMAIN s.scan[t][a] |-> of[s.scan[t][a][r]]]]
        BY <1>4, <2>1
      <4> QED
        BY ONLY <4>1, c \in 1..k
    <3>2. PICK d \in Nat : DOMAIN s.scan[t][c] = 1..d
      <4>1. IsRows(s.scan[t][c])
        BY <1>3, <2>1 DEF Delivers
      <4> QED
        BY ONLY <4>1 DEF IsRows
    <3>3. \A i \in 1..d : s.scan[t][c][i] \in 1..n
      BY <1>2, <1>3, <2>1, <3>2 DEF Delivers
    <3>4. DOMAIN scan[t][c] = 1..d /\ \A i \in 1..d : scan[t][c][i] = of[s.scan[t][c][i]]
      BY <3>1, <3>2
    <3> QED
      BY ONLY <1>1, <3>3, <3>4, d \in Nat DEF RowSet
  <2> QED
    BY <2>1, <2>2, <2>3 DEF Calls
<1>6. DOMAIN scan = 1..m
  BY <1>3
<1>7. Gathers(scan, m, R)
  BY <1>3, <1>5, <1>6 DEF Gathers
<1>8. /\ Buffered(scan) \in Sound(R)
      /\ \A t \in DOMAIN scan : \A c \in DOMAIN scan[t] : \A k \in DOMAIN scan[t][c] : Has(Buffered(scan), scan[t][c][k].id)
  BY ONLY <1>1, <1>7, ScanIsBuffered
<1>9. ASSUME NEW j \in 1..n PROVE Has(Buffered(scan), j)
  <2>1. PICK t \in 1..m : \E c \in DOMAIN s.scan[t] : \E r \in DOMAIN s.scan[t][c] : s.scan[t][c][r] = j
    BY <1>2, <1>3 DEF Delivers
  <2>2. PICK c \in DOMAIN s.scan[t] : \E r \in DOMAIN s.scan[t][c] : s.scan[t][c][r] = j
    BY <2>1
  <2>3. PICK r \in DOMAIN s.scan[t][c] : s.scan[t][c][r] = j
    BY <2>2
  <2>4. t \in DOMAIN scan /\ c \in DOMAIN scan[t] /\ r \in DOMAIN scan[t][c] /\ scan[t][c][r] = of[j]
    BY <1>4, <1>6, <2>3
  <2>5. of[j].id = j
    BY DEF Numbered
  <2> QED
    BY <1>8, <2>4, <2>5
<1> QED
  BY <1>1, <1>8, <1>9

LEMMA FiveAre ==
  /\ DOMAIN FiveNames = 1..5 /\ DOMAIN FiveTypes = 1..5
  /\ FiveNames[1] = "id" /\ FiveNames[2] = "k" /\ FiveNames[3] = "v" /\ FiveNames[4] = "i" /\ FiveNames[5] = "f"
  /\ FiveTypes[1] = "i64" /\ FiveTypes[2] = "i64" /\ FiveTypes[3] = "i64" /\ FiveTypes[4] = "i64" /\ FiveTypes[5] = "f64"
BY DEF FiveNames, FiveTypes

\* A lane that shows a column shows it in every table with the same cells.
LEMMA ShownByCells ==
  ASSUME NEW col, NEW table, NEW name, NEW d, Shown(col, table, name, d),
         NEW rows, DOMAIN rows = DOMAIN table, \A j \in DOMAIN rows : table[j][name] = rows[j][name]
  PROVE  Shown(col, rows, name, d)
<1>1. Cells(table, name) = Cells(rows, name)
  BY DEF Cells
<1>2. \A c : Shows(c, table, name) <=> Shows(c, rows, name)
  BY <1>1 DEF Shows
<1> QED
  BY <1>2 DEF Shown

LEMMA OneAndFour ==
  ASSUME NEW x, NEW a, NEW b, NEW c, NEW d
  PROVE  <<x>> \o <<a, b, c, d>> = <<x, a, b, c, d>>
<1> DEFINE S == {x, a, b, c, d}
<1>1. PICK s, t, u : s = <<x>> /\ t = <<a, b, c, d>> /\ u = s \o t
  OBVIOUS
<1>2. s \in Seq(S) /\ t \in Seq(S) /\ Len(s) = 1 /\ Len(t) = 4
  BY <1>1
<1>3. /\ u \in Seq(S) /\ Len(u) = 5 /\ u[1] = s[1] /\ \A i \in 1..4 : u[1 + i] = t[i]
  BY ONLY <1>1, <1>2, JoinIsSeq
<1>4. u[1] = x /\ u[2] = a /\ u[3] = b /\ u[4] = c /\ u[5] = d
  <2>1. u[1 + 1] = t[1] /\ u[1 + 2] = t[2] /\ u[1 + 3] = t[3] /\ u[1 + 4] = t[4]
    BY <1>3
  <2> QED
    BY <1>1, <1>3, <2>1
<1>5. PICK w : w = <<x, a, b, c, d>>
  OBVIOUS
<1>6. w \in Seq(S) /\ Len(w) = 5 /\ \A i \in 1..5 : u[i] = w[i]
  BY <1>4, <1>5
<1>7. u \in [1..5 -> S] /\ w \in [1..5 -> S]
  BY <1>3, <1>6, LenProperties
<1>8. u = w
  BY <1>6, <1>7
<1> QED
  BY <1>1, <1>5, <1>8

\* Without the row ids the lanes show the columns they showed.
LEMMA DroppedId ==
  ASSUME NEW lanes, NEW table, AllShown(lanes, FiveTypes, FiveNames, table),
         NEW rows, DOMAIN rows = DOMAIN table,
         \A j \in DOMAIN rows : /\ table[j]["k"] = rows[j]["k"] /\ table[j]["v"] = rows[j]["v"]
                                /\ table[j]["i"] = rows[j]["i"] /\ table[j]["f"] = rows[j]["f"]
  PROVE  AllShown(Tail(lanes), FourTypes, FourNames, rows)
<1>1. lanes = [l \in 1..5 |-> lanes[l]] /\ \A l \in 1..5 : Shown(lanes[l], table, FiveNames[l], FiveTypes[l])
  BY FiveAre DEF AllShown
<1>2. PICK tail : tail = Tail(lanes)
  OBVIOUS
<1>3. tail = [l \in 1..4 |-> lanes[l + 1]]
  <2>1. Len(lanes) = 5
    BY <1>1
  <2>2. PICK R : lanes \in Seq(R)
    <3>1. IsRows(lanes)
      BY <1>1, <2>1 DEF IsRows
    <3> QED
      BY <3>1, RowsAreSeq
  <2>3. lanes # <<>> /\ Len(lanes) - 1 = 4
    BY <2>1
  <2>4. tail \in Seq(R) /\ Len(tail) = 4 /\ \A i \in 1..Len(tail) : tail[i] = lanes[i + 1]
    BY <1>2, <2>2, <2>3, HeadTailProperties
  <2>5. tail \in [1..4 -> R]
    BY <2>4, LenProperties
  <2> QED
    BY <2>4, <2>5
<1>4. ASSUME NEW l \in 1..4 PROVE Shown(tail[l], rows, FourNames[l], FourTypes[l])
  <2>1. tail[l] = lanes[l + 1] /\ l + 1 \in 1..5
    BY <1>3
  <2>2. Shown(lanes[l + 1], table, FiveNames[l + 1], FiveTypes[l + 1])
    BY <1>1, <2>1
  <2>3. /\ FiveNames[l + 1] = FourNames[l] /\ FiveTypes[l + 1] = FourTypes[l]
        /\ FourNames[l] \in {"k", "v", "i", "f"}
    <3>1. CASE l = 1
      BY <3>1, FourAre, FiveAre
    <3>2. CASE l = 2
      BY <3>2, FourAre, FiveAre
    <3>3. CASE l = 3
      BY <3>3, FourAre, FiveAre
    <3>4. CASE l = 4
      BY <3>4, FourAre, FiveAre
    <3> QED
      BY <3>1, <3>2, <3>3, <3>4
  <2>4. PICK name, d : name = FourNames[l] /\ d = FourTypes[l]
    OBVIOUS
  <2>5. Shown(tail[l], table, name, d)
    BY <2>1, <2>2, <2>3, <2>4
  <2>6. \A j \in DOMAIN rows : table[j][name] = rows[j][name]
    BY <2>3, <2>4
  <2>7. Shown(tail[l], rows, name, d)
    BY <2>5, <2>6, ShownByCells
  <2> QED
    BY <2>4, <2>7
<1> QED
  BY <1>2, <1>3, <1>4, FourAre DEF AllShown

\* Whatever the order its states and calls hand the rows over in, a column upload
\* publishes a set whose lanes show the table row by row.
LEMMA StoredColumnsShown ==
  ASSUME NEW gp, NEW s, s.scan # <<>>, Delivers(s), NEW a, a = Stores(gp, s), a.set # Nothing
  PROVE  ShownSet(a.set)
<1>1. PICK rows : rows = s.rows /\ IsTable(rows) /\ Len(rows) <= MaxWord
  BY DEF Delivers
<1>2. PICK n \in Nat : n = Len(rows) /\ DOMAIN rows = 1..n /\ n <= MaxWord
  BY <1>1 DEF IsTable, Lanes, IsRows
<1>3. PICK of : of = [j \in 1..n |-> [id |-> j, cells |-> <<j>> \o Exact(rows[j])]]
  OBVIOUS
<1>4. /\ Numbered(of, n) /\ \A j \in 1..n : of[j].cells = <<j>> \o Exact(rows[j])
  BY <1>3 DEF Numbered
<1>5. PICK scan : scan = [t \in DOMAIN s.scan |-> [c \in DOMAIN s.scan[t] |->
                             [r \in DOMAIN s.scan[t][c] |-> of[s.scan[t][c][r]]]]]
  OBVIOUS
<1>6. scan = [t \in DOMAIN s.scan |-> [c \in DOMAIN s.scan[t] |-> [r \in DOMAIN s.scan[t][c] |->
                [id |-> s.scan[t][c][r], cells |-> <<s.scan[t][c][r]>> \o Exact(rows[s.scan[t][c][r]])]]]]
  <2>1. \A t \in DOMAIN s.scan : \A c \in DOMAIN s.scan[t] : \A r \in DOMAIN s.scan[t][c] : s.scan[t][c][r] \in 1..n
    BY <1>1, <1>2 DEF Delivers
  <2>2. \A j \in 1..n : of[j] = [id |-> j, cells |-> <<j>> \o Exact(rows[j])]
    BY <1>3
  <2> QED
    BY <1>5, <2>1, <2>2
<1>7. PICK p : p = Placement(Buffered(scan))
  OBVIOUS
<1>8. PICK up : up = UploadExact(gp, s.device, p.spans, FiveTypes)
  OBVIOUS
<1>9. Placed(p) /\ a = Published([up EXCEPT !.lanes = IF up.err = "" THEN Tail(@) ELSE @], TRUE, rows)
  <2>1. a = IF p.err # "" THEN [err |-> p.err, rows |-> <<>>, set |-> Nothing]
            ELSE Published([up EXCEPT !.lanes = IF up.err = "" THEN Tail(@) ELSE @], TRUE, rows)
    BY <1>1, <1>6, <1>7, <1>8, Zenon DEF Stores, UploadedColumns, FiveTypes
  <2>2. CASE p.err # ""
    <3>1. a = [err |-> p.err, rows |-> <<>>, set |-> Nothing]
      BY <2>1, <2>2, Zenon
    <3>2. a.set = Nothing
      BY <3>1
    <3> QED
      BY <3>2
  <2>3. CASE p.err = ""
    BY <2>1, <2>3, Zenon DEF Placed
  <2> QED
    BY <2>2, <2>3
<1>10. PICK lanes : lanes = IF up.err = "" THEN Tail(up.lanes) ELSE up.lanes
  OBVIOUS
<1>11. /\ {"err", "lanes"} \subseteq DOMAIN up
       /\ [up EXCEPT !.lanes = IF up.err = "" THEN Tail(@) ELSE @].err = up.err
       /\ [up EXCEPT !.lanes = IF up.err = "" THEN Tail(@) ELSE @].lanes = lanes
  <2>1. {"err", "lanes"} \subseteq DOMAIN up
    BY <1>8, UploadFields
  <2>2. [up EXCEPT !.lanes = IF up.err = "" THEN Tail(@) ELSE @] = [up EXCEPT !.lanes = lanes]
    BY <1>10, Zenon
  <2> QED
    BY <2>1, <2>2
<1>12. PICK rest, e : rest = [up EXCEPT !.lanes = IF up.err = "" THEN Tail(@) ELSE @] /\ e = TRUE
  OBVIOUS
<1>13. rest.err = up.err /\ rest.lanes = lanes /\ a = Published(rest, e, rows)
  BY <1>9, <1>11, <1>12
<1>14. rest.err = "" /\ a.set = SetOf(rest.lanes, e, rows)
  BY <1>13, PublishedIs
<1>15. Fine(up) /\ lanes = Tail(up.lanes)
  <2>1. up.err = ""
    BY <1>13, <1>14
  <2> QED
    BY <1>10, <2>1, Zenon DEF Fine
<1>16. a.set = SetOf(lanes, TRUE, rows)
  <2>1. rest.lanes = lanes /\ e = TRUE
    BY <1>12, <1>13
  <2> QED
    BY <1>14, <2>1
<1>17. PICK parts, g, m : p.spans = EndToEnd(parts) /\ ArePieces(parts, of, g, m) /\ g[m] = n
  <2>1. Buffered(scan) \in Sound(RowSet(of, n)) /\ \A j \in 1..n : Has(Buffered(scan), j)
    BY <1>1, <1>2, <1>4, <1>5, DeliveredRows
  <2> QED
    <3>1. PICK b : b = Buffered(scan) /\ b \in Sound(RowSet(of, n)) /\ \A j \in 1..n : Has(b, j)
      BY <2>1
    <3>2. Numbered(of, n) /\ p = Placement(b) /\ Placed(p)
      BY <1>4, <1>7, <1>9, <3>1
    <3> QED
      BY ONLY <3>1, <3>2, PlacementIs
<1>18. PICK cells : cells = [j \in 1..n |-> of[j].cells]
  OBVIOUS
<1>19. PICK table : table = [j \in 1..n |-> [id |-> j, k |-> rows[j].k, v |-> rows[j].v, i |-> rows[j].i, f |-> rows[j].f]]
  OBVIOUS
<1>20. /\ DOMAIN table = 1..n
       /\ \A j \in 1..n : /\ table[j]["id"] = j /\ table[j]["k"] = rows[j]["k"] /\ table[j]["v"] = rows[j]["v"]
                          /\ table[j]["i"] = rows[j]["i"] /\ table[j]["f"] = rows[j]["f"]
  BY <1>19
<1>21. \A j \in 1..n : cells[j] = <<j, rows[j].k, rows[j].v, rows[j].i, rows[j].f>>
  <2> SUFFICES ASSUME NEW j \in 1..n PROVE cells[j] = <<j, rows[j].k, rows[j].v, rows[j].i, rows[j].f>>
    OBVIOUS
  <2>1. cells[j] = <<j>> \o <<rows[j].k, rows[j].v, rows[j].i, rows[j].f>>
    BY <1>4, <1>18 DEF Exact
  <2> QED
    BY <2>1, OneAndFour
<1>22. Laid(p.spans, cells, g, m)
  <2>1. \A j \in 1..g[m] : cells[j] = of[j].cells
    BY <1>17, <1>18
  <2> QED
    BY <1>17, <2>1, EndToEndIsLaid
<1>23. Uploads(p.spans, FiveTypes, FiveNames, table)
  <2>1. WordCells(table, "id")
    <3>1. \A j \in 1..n : j \in Word
      BY <1>2, WordFacts DEF Word
    <3> QED
      BY <1>20, <3>1 DEF WordCells
  <2>2. WordCells(table, "k") /\ WordCells(table, "v") /\ WordCells(table, "i") /\ WordCells(table, "f")
    <3>1. WordCells(rows, "k") /\ WordCells(rows, "v") /\ WordCells(rows, "i") /\ WordCells(rows, "f")
      BY <1>1 DEF IsTable, Lanes
    <3> QED
      BY <1>2, <1>20, <3>1 DEF WordCells
  <2>3. ASSUME NEW l \in 1..5
        PROVE  /\ FiveTypes[l] \in Types /\ WordCells(table, FiveNames[l])
               /\ \A d \in DOMAIN table : cells[d][l] = table[d][FiveNames[l]]
    <3>1. CASE l = 1
      BY <1>20, <1>21, <2>1, <2>2, <3>1, FiveAre DEF Types
    <3>2. CASE l = 2
      BY <1>20, <1>21, <2>1, <2>2, <3>2, FiveAre DEF Types
    <3>3. CASE l = 3
      BY <1>20, <1>21, <2>1, <2>2, <3>3, FiveAre DEF Types
    <3>4. CASE l = 4
      BY <1>20, <1>21, <2>1, <2>2, <3>4, FiveAre DEF Types
    <3>5. CASE l = 5
      BY <1>20, <1>21, <2>1, <2>2, <3>5, FiveAre DEF Types
    <3> QED
      BY <3>1, <3>2, <3>3, <3>4, <3>5
  <2> QED
    BY <1>17, <1>20, <1>22, <2>3, FiveAre DEF Uploads
<1>24. AllShown(up.lanes, FiveTypes, FiveNames, table)
  BY <1>8, <1>15, <1>23, UploadsShowTheirTable
<1>25. AllShown(lanes, FourTypes, FourNames, rows)
  BY <1>2, <1>15, <1>20, <1>24, DroppedId
<1> QED
  BY <1>1, <1>16, <1>25, FourShown

LEMMA StoredShown ==
  ASSUME NEW g, NEW s, Loads(s), NEW a, a = Stores(g, s), a.set # Nothing
  PROVE  ShownSet(a.set)
<1>1. IsTable(s.rows) /\ s.exact \in BOOLEAN /\ s.vdt \in Types /\ (s.scan # <<>> => Delivers(s))
  BY DEF Loads
<1> QED
  BY <1>1, StoredRowsShown, StoredColumnsShown

\* ---- the sets of a run ---------------------------------------------------------------
Takes(s, h) ==
    /\ Checked(s, h) /\ h = [j \in DOMAIN s.from |-> h[j]]
    /\ \A j \in DOMAIN s.from : s.from[j] \notin Outputs => ShownSet(h[j])
ShownInv ==
    /\ \A n \in Names \ Outputs : sets[n] # NoSet => ShownSet(sets[n])
    /\ \A c \in Callers :
          /\ pc[c] \in {"ready", "inside", "ran", "emit"} => Takes(Stmt(c), held[c])
          /\ pc[c] \in {"ran", "emit"} /\ Stmt(c).op # "join" /\ res[c].set # NoSet => ShownSet(res[c].set)

LEMMA ShownStep ==
  ASSUME ShownInv, NEW c \in Callers, OthersOwn(c),
         \A n \in Names \ Outputs : sets'[n] # NoSet => ShownSet(sets'[n]),
         pc'[c] \in {"ready", "inside", "ran", "emit"} => Takes(Stmt(c)', held'[c]),
         pc'[c] \in {"ran", "emit"} /\ Stmt(c)'.op # "join" /\ res'[c].set # NoSet => ShownSet(res'[c].set)
  PROVE  ShownInv'
<1>1. ASSUME NEW d \in Callers \ {c}
      PROVE  /\ pc'[d] \in {"ready", "inside", "ran", "emit"} => Takes(Stmt(d)', held'[d])
             /\ pc'[d] \in {"ran", "emit"} /\ Stmt(d)'.op # "join" /\ res'[d].set # NoSet => ShownSet(res'[d].set)
  <2>1. pc'[d] = pc[d] /\ held'[d] = held[d] /\ res'[d] = res[d] /\ Stmt(d)' = Stmt(d)
    BY DEF OthersOwn, Stmt
  <2> QED
    BY <2>1 DEF ShownInv
<1> QED
  BY <1>1 DEF ShownInv

LEMMA ShownEnds ==
  ASSUME ShownInv, NEW c \in Callers, OthersOwn(c), UNCHANGED sets, pc'[c] \in {"idle", "bound"}
  PROVE  ShownInv'
<1>1. \A n \in Names \ Outputs : sets'[n] # NoSet => ShownSet(sets'[n])
  BY DEF ShownInv
<1> QED
  BY <1>1, ShownStep

LEMMA FailsEnds ==
  ASSUME ShownInv, SideInv, CallTypes, NEW c \in Callers, Fails(c), UNCHANGED sets
  PROVE  ShownInv'
<1>1. OthersOwn(c) /\ pc'[c] = "idle"
  BY DEF Fails, CallTypes, OthersOwn, SideInv
<1> QED
  BY <1>1, ShownEnds

LEMMA StmtKnown == ASSUME SideInv, NEW c \in Callers, pc[c] # "idle" PROVE Stmt(c) \in Statements
<1>1. todo[c] # <<>> /\ todo[c] \in Seq(Statements)
  BY DEF SideInv
<1> QED
  BY <1>1, HeadTailProperties DEF Stmt

LEMMA AcquiredShown ==
  ASSUME Instantiated, ShownInv, SideInv, CallTypes, NEW c \in Callers, Acquire(c)
  PROVE  ShownInv'
<1> DEFINE h == [j \in DOMAIN Stmt(c).from |-> sets[Stmt(c).from[j]]]
<1>1. CASE Fails(c)
  BY <1>1, FailsEnds DEF Acquire
<1>2. CASE ~Fails(c)
  <2>1. /\ pc[c] = "bound" /\ UNCHANGED <<gpu, sets, todo, res, sent>>
        /\ \A j \in DOMAIN h : h[j] # NoSet
        /\ InitFn(Stmt(c), h)
        /\ pc' = [pc EXCEPT ![c] = "ready"] /\ held' = [held EXCEPT ![c] = h]
    BY <1>2 DEF Acquire
  <2> HIDE DEF h
  <2>2. OthersOwn(c) /\ held'[c] = h /\ pc'[c] = "ready" /\ Stmt(c)' = Stmt(c)
    BY <2>1 DEF CallTypes, OthersOwn, SideInv, Stmt
  <2>3. Stmt(c) \in Statements
    BY <2>1, StmtKnown
  <2>4. Takes(Stmt(c), h)
    <3>1. Checked(Stmt(c), h)
      BY <2>1 DEF Instantiated
    <3>2. h = [j \in DOMAIN Stmt(c).from |-> h[j]]
      BY DEF h
    <3>3. ASSUME NEW j \in DOMAIN Stmt(c).from, Stmt(c).from[j] \notin Outputs PROVE ShownSet(h[j])
      <4>1. h[j] = sets[Stmt(c).from[j]] /\ h[j] # NoSet
        BY <2>1 DEF h
      <4>2. Stmt(c).from[j] \in Names \ Outputs
        BY <2>3, <3>3, TableAssumption DEF Programs
      <4> QED
        BY <4>1, <4>2 DEF ShownInv
    <3> QED
      BY <3>1, <3>2, <3>3 DEF Takes
  <2>5. \A n \in Names \ Outputs : sets'[n] # NoSet => ShownSet(sets'[n])
    BY <2>1 DEF ShownInv
  <2> QED
    BY <2>2, <2>4, <2>5, ShownStep
<1> QED
  BY <1>1, <1>2

\* Steps between the acquisition and the last chunk.
LEMMA MovedShown ==
  ASSUME ShownInv, NEW c \in Callers, OthersOwn(c), UNCHANGED <<sets, todo, held, res>>,
         pc[c] \in {"ready", "inside", "ran", "emit"}, pc'[c] \in {"ran", "emit"} => pc[c] \in {"ran", "emit"}
  PROVE  ShownInv'
<1>1. Stmt(c)' = Stmt(c)
  BY DEF Stmt
<1>2. \A n \in Names \ Outputs : sets'[n] # NoSet => ShownSet(sets'[n])
  BY DEF ShownInv
<1>3. Takes(Stmt(c)', held'[c])
  BY <1>1 DEF ShownInv
<1>4. pc'[c] \in {"ran", "emit"} /\ Stmt(c)'.op # "join" /\ res'[c].set # NoSet => ShownSet(res'[c].set)
  BY <1>1 DEF ShownInv
<1> QED
  BY <1>2, <1>3, <1>4, ShownStep

LEMMA AnsweredShown ==
  ASSUME Instantiated, ShownInv, SideInv, CallTypes, NEW c \in Callers, Upload(c) \/ Run(c)
  PROVE  ShownInv'
<1>1. CASE Fails(c)
  BY <1>1, FailsEnds DEF Upload, Run
<1>2. CASE ~Fails(c)
  <2>1. /\ pc[c] = "inside" /\ pc' = [pc EXCEPT ![c] = "ran"] /\ UNCHANGED <<gpu, sets, todo, held, sent>>
        /\ \/ Stmt(c).op = "upload" /\ \E d : res' = [res EXCEPT ![c] = Result(StoreFn(gpu, Stmt(c)), d)]
           \/ /\ Stmt(c).op # "upload"
              /\ \E d : \E a \in RunFn(gpu, Stmt(c), held[c]) : res' = [res EXCEPT ![c] = Result(a, d)]
    <3>1. CASE Upload(c)
      BY <1>2, <3>1 DEF Upload
    <3>2. CASE Run(c)
      <4> DEFINE Reports == IF Stmt(c).op \in Silent THEN NoDecision ELSE DecideFn(gpu, Stmt(c), held[c])
      <4>1. /\ pc[c] = "inside" /\ Stmt(c).op # "upload" /\ gpu' = gpu /\ sets' = sets
            /\ \E a \in RunFn(gpu, Stmt(c), held[c]) :
                  /\ res' = [res EXCEPT ![c] = Result(a, Reports)]
                  /\ pc' = [pc EXCEPT ![c] = "ran"] /\ UNCHANGED <<todo, held, sent>>
        BY <1>2, <3>2, Zenon DEF Run
      <4> HIDE DEF Reports
      <4> QED
        BY <4>1
    <3> QED
      BY <3>1, <3>2
  <2>2. OthersOwn(c) /\ pc'[c] = "ran" /\ Stmt(c)' = Stmt(c)
    BY <2>1 DEF CallTypes, OthersOwn, Stmt
  <2>3. Stmt(c) \in Statements
    BY <2>1, StmtKnown
  <2>4. Stmt(c).op # "join" /\ res'[c].set # NoSet => ShownSet(res'[c].set)
    <3>1. CASE Stmt(c).op = "upload"
      <4>1. PICK a, d : a = Stores(gpu, Stmt(c)) /\ res' = [res EXCEPT ![c] = Result(a, d)]
        BY <2>1, <3>1 DEF Instantiated
      <4>2. res'[c] = Result(a, d)
        BY <4>1 DEF CallTypes
      <4>3. res'[c].set = a.set
        BY <4>2 DEF Result
      <4>4. Loads(Stmt(c))
        BY <2>3, <3>1, TableAssumption DEF Programs
      <4>5. a.set # Nothing => ShownSet(a.set)
        BY <4>1, <4>4, StoredShown
      <4> QED
        BY <4>3, <4>5 DEF Instantiated
    <3>2. CASE Stmt(c).op # "upload" /\ Stmt(c).op # "join"
      <4>1. PICK a, d : a \in Answers(gpu, Stmt(c), held[c]) /\ res' = [res EXCEPT ![c] = Result(a, d)]
        BY <2>1, <3>2 DEF Instantiated
      <4>2. res'[c] = Result(a, d)
        BY <4>1 DEF CallTypes
      <4>3. res'[c].set = a.set
        BY <4>2 DEF Result
      <4>4. Stmt(c).op \in Reading
        BY <2>3, <3>2, ProgramAssumption
      <4>5. a.set = Nothing
        BY <4>1, <4>4, ReadersPublishNothing
      <4> QED
        BY <4>3, <4>5 DEF Instantiated
    <3> QED
      BY <3>1, <3>2
  <2>5. \A n \in Names \ Outputs : sets'[n] # NoSet => ShownSet(sets'[n])
    BY <2>1 DEF ShownInv
  <2>6. Takes(Stmt(c), held'[c])
    BY <2>1 DEF ShownInv
  <2> QED
    BY <2>2, <2>4, <2>5, <2>6, ShownStep
<1> QED
  BY <1>1, <1>2

LEMMA FinishedShown ==
  ASSUME ShownInv, SideInv, CallTypes, NEW c \in Callers, Finish(c)
  PROVE  ShownInv'
<1>1. /\ pc[c] = "emit" /\ gpu' = gpu
      /\ pc' = [pc EXCEPT ![c] = "idle"] /\ todo' = [todo EXCEPT ![c] = Tail(todo[c])]
      /\ held' = [held EXCEPT ![c] = <<>>] /\ res' = [res EXCEPT ![c] = NoResult]
      /\ \/ sets' = sets
         \/ res[c].set # NoSet /\ sets' = [sets EXCEPT ![Stmt(c).into] = res[c].set]
  BY DEF Finish
<1>2. OthersOwn(c) /\ pc'[c] = "idle"
  BY <1>1 DEF CallTypes, OthersOwn, SideInv
<1>3. Stmt(c) \in Statements
  BY <1>1, StmtKnown
<1>4. \A n \in Names \ Outputs : sets'[n] # NoSet => ShownSet(sets'[n])
  <2>1. CASE sets' = sets
    BY <2>1 DEF ShownInv
  <2>2. CASE res[c].set # NoSet /\ sets' = [sets EXCEPT ![Stmt(c).into] = res[c].set]
    <3> SUFFICES ASSUME NEW n \in Names \ Outputs, sets'[n] # NoSet PROVE ShownSet(sets'[n])
      OBVIOUS
    <3>1. CASE n = Stmt(c).into
      <4>1. Stmt(c).op # "join"
        BY <1>3, <3>1 DEF Outputs
      <4>2. ShownSet(res[c].set)
        BY <1>1, <2>2, <4>1 DEF ShownInv
      <4>3. sets'[n] = res[c].set
        BY <2>2, <3>1 DEF SideInv
      <4> QED
        BY <4>2, <4>3
    <3>2. CASE n # Stmt(c).into
      <4>1. sets'[n] = sets[n]
        BY <2>2, <3>2 DEF SideInv
      <4> QED
        BY <4>1 DEF ShownInv
    <3> QED
      BY <3>1, <3>2
  <2> QED
    BY <1>1, <2>1, <2>2
<1> QED
  BY <1>2, <1>4, ShownStep

LEMMA ShownStays ==
  ASSUME ShownInv, UNCHANGED vars PROVE ShownInv'
BY DEF ShownInv, vars, Stmt

\* Every set an upload published shows the table it was made from, and so do the
\* sets a statement holds, whatever else ran meanwhile.
THEOREM SetsAreShown == ASSUME Instantiated PROVE Spec => []ShownInv
<1>1. Init => ShownInv
  <2> SUFFICES ASSUME Init PROVE ShownInv
    OBVIOUS
  <2>1. sets = [n \in Names |-> NoSet] /\ pc = [c \in Callers |-> "idle"]
    BY DEF Init
  <2> QED
    BY <2>1 DEF ShownInv
<1>2. CallInv /\ SideInv /\ ShownInv /\ [Next]_vars => ShownInv'
  <2> SUFFICES ASSUME CallTypes, SideInv, ShownInv, [Next]_vars PROVE ShownInv'
    BY DEF CallInv
  <2>1. CASE UNCHANGED vars
    BY <2>1, ShownStays
  <2>2. CASE Done
    BY <2>2, ShownStays DEF Done
  <2>3. ASSUME NEW c \in Callers, Step(c) PROVE ShownInv'
    <3>1. CASE Enter(c)
      <4>1. OthersOwn(c) /\ pc[c] = "ready" /\ pc'[c] = "inside"
        BY <3>1 DEF Enter, CallTypes, OthersOwn
      <4> QED
        BY <3>1, <4>1, MovedShown DEF Enter
    <3>2. CASE Leave(c)
      <4>1. OthersOwn(c) /\ pc[c] = "ran"
        BY <3>2 DEF Leave, CallTypes, OthersOwn
      <4> QED
        BY <3>2, <4>1, MovedShown DEF Leave
    <3>3. CASE Emit(c)
      <4>1. OthersOwn(c) /\ pc[c] = "emit"
        BY <3>3 DEF Emit, OthersOwn
      <4> QED
        BY <3>3, <4>1, MovedShown DEF Emit
    <3>4. CASE Bind(c)
      <4>1. CASE Fails(c)
        BY <3>4, <4>1, FailsEnds DEF Bind
      <4>2. CASE ~Fails(c)
        <5>1. OthersOwn(c) /\ pc'[c] = "bound" /\ UNCHANGED sets
          BY <3>4, <4>2 DEF Bind, CallTypes, OthersOwn
        <5> QED
          BY <5>1, ShownEnds
      <4> QED
        BY <4>1, <4>2
    <3> QED
      BY <2>3, <3>1, <3>2, <3>3, <3>4, AcquiredShown, AnsweredShown, FinishedShown DEF Step
  <2> QED
    BY <2>1, <2>2, <2>3 DEF Next
<1> QED
  BY <1>1, <1>2, CallSound, SidesSound, PTL DEF Spec

\* ---- what LanesInRowOrder and the aggregates see ------------------------------------
LaneCells(col) == [j \in DOMAIN col.data |-> IF BitAt(col.valid, j) THEN Load(col, j) ELSE NoCell]

LEMMA LaneReads ==
  ASSUME NEW col, NEW table, NEW name, NEW d \in Types, Shown(col, table, name, d), WordCells(table, name)
  PROVE  LaneCells(col) = Cells(table, name)
<1>1. DOMAIN col.data = DOMAIN table
  BY DEF Shown
<1>2. ASSUME NEW j \in DOMAIN table
      PROVE  (IF BitAt(col.valid, j) THEN Load(col, j) ELSE NoCell) = table[j][name]
  <2>1. CASE col.home = "cuda"
    <3>1. Wide(col).valid = col.valid /\ Wide(col).data = [i \in DOMAIN col.data |-> Load(col, i)]
      BY DEF Wide, Shown
    <3>2. BitAt(col.valid, j) <=> table[j][name] # NoCell
      BY <2>1, <3>1 DEF Shown, Shows
    <3>3. table[j][name] # NoCell => Load(col, j) = table[j][name]
      BY <1>1, <2>1, <3>1 DEF Shown, Shows
    <3> QED
      BY <3>2, <3>3
  <2>2. CASE col.home # "cuda"
    <3>1. (BitAt(col.valid, j) <=> table[j][name] # NoCell) /\ (table[j][name] # NoCell => col.data[j] = table[j][name])
      BY <2>2 DEF Shown, Shows
    <3>2. ASSUME table[j][name] # NoCell PROVE Load(col, j) = table[j][name]
      <4>1. col.data[j] = table[j][name] /\ table[j][name] \in Word /\ col.width = 8
        BY <2>2, <3>1, <3>2 DEF Shown, WordCells
      <4>2. Word = Held(8)
        BY DEF Word, Held, MinWord, MaxWord, W
      <4>3. Signed(table[j][name], 8) = table[j][name]
        BY <4>1, <4>2, StoredReadsBack
      <4> QED
        BY <4>1, <4>3 DEF Load
    <3> QED
      BY <3>1, <3>2
  <2> QED
    BY <2>1, <2>2
<1> QED
  BY <1>1, <1>2 DEF LaneCells, Cells

LEMMA TableCells == ASSUME NEW rows, IsTable(rows), NEW name \in Lanes PROVE WordCells(rows, name)
BY DEF IsTable

\* Whatever order the threads of a scan delivered the rows in, whatever width the
\* device packed a lane at and however the upload was cut, every lane of an exact
\* set holds its column of the table in row-id order.
THEOREM UploadsInRowOrder == ASSUME Instantiated PROVE Spec => []LanesInRowOrder
<1>1. ShownInv => LanesInRowOrder
  <2> SUFFICES ASSUME ShownInv, NEW n \in {"s", "b"}, sets[n] # NoSet, sets[n].exact
               PROVE  /\ LaneCells(sets[n].key) = Cells(sets[n].rows, "k")
                      /\ LaneCells(sets[n].val) = Cells(sets[n].rows, "v")
                      /\ LaneCells(sets[n].ints[1]) = Cells(sets[n].rows, "i")
                      /\ LaneCells(sets[n].dbls[1]) = Cells(sets[n].rows, "f")
    BY DEF LanesInRowOrder, LaneCells, Cells
  <2>1. ShownSet(sets[n])
    BY TableAssumption DEF Programs, ShownInv
  <2>2. PICK set : set = sets[n]
    OBVIOUS
  <2>3. /\ IsTable(set.rows) /\ Shown(set.key, set.rows, "k", "i64") /\ Shown(set.val, set.rows, "v", "i64")
        /\ Shown(set.ints[1], set.rows, "i", "i64") /\ Shown(set.dbls[1], set.rows, "f", "f64")
    BY <2>1, <2>2 DEF ShownSet
  <2>4. WordCells(set.rows, "k") /\ WordCells(set.rows, "v") /\ WordCells(set.rows, "i") /\ WordCells(set.rows, "f")
    BY <2>3, TableCells DEF Lanes
  <2>5. "i64" \in Types /\ "f64" \in Types
    BY DEF Types
  <2> QED
    BY <2>2, <2>3, <2>4, <2>5, LaneReads
<1> QED
  BY <1>1, SetsAreShown, PTL

\* ---- the aggregate without GROUP BY over a shown set ---------------------------------
\* NoLane is neither a lane nor a column: it has no field of theirs.
Apart == "col" \notin DOMAIN NoLane /\ "home" \notin DOMAIN NoLane

LEMMA NoLaneApart == ASSUME Apart PROVE /\ \A col, index : Lane(col, index) # NoLane
                                        /\ \A col : "home" \in DOMAIN col => col # NoLane
<1>1. ASSUME NEW col, NEW index PROVE Lane(col, index) # NoLane
  <2>1. "col" \in DOMAIN Lane(col, index)
    BY DEF Lane
  <2> QED
    BY <2>1 DEF Apart
<1> QED
  BY <1>1 DEF Apart

LEMMA NamedShown ==
  ASSUME NEW set, ShownSet(set), set.exact, NEW l \in Lanes
  PROVE  Shown(Named(set, l), set.rows, l, Dtype(l)) /\ WordCells(set.rows, l)
<1>1. /\ Shown(set.key, set.rows, "k", "i64") /\ Shown(set.val, set.rows, "v", "i64")
      /\ Shown(set.ints[1], set.rows, "i", "i64") /\ Shown(set.dbls[1], set.rows, "f", "f64")
      /\ WordCells(set.rows, l)
  BY TableCells DEF ShownSet
<1>2. CASE l = "k"
  BY <1>1, <1>2 DEF Named, Dtype
<1>3. CASE l = "v"
  BY <1>1, <1>3 DEF Named, Dtype
<1>4. CASE l = "i"
  BY <1>1, <1>4 DEF Named, Dtype
<1>5. CASE l = "f"
  BY <1>1, <1>5 DEF Named, Dtype
<1> QED
  BY <1>2, <1>3, <1>4, <1>5 DEF Lanes

\* A lane read on its own side shows its column.
SideOf(col) == IF col.home = "cuda" THEN Wide(col) ELSE col
LEMMA SideShows ==
  ASSUME NEW col, NEW table, NEW name, NEW d, Shown(col, table, name, d)
  PROVE  Shows(SideOf(col), table, name) /\ SideOf(col).dtype = d
<1>1. Wide(col).dtype = col.dtype
  BY DEF Wide, Shown
<1> QED
  BY <1>1 DEF Shown, SideOf

\* The predicates of a WHERE program, each reading its lane as its side does.
SidedPreds(set, where) ==
    [q \in DOMAIN where |-> [lane |-> Lane(SideOf(Named(set, where[q].lane)), NoLane), op |-> where[q].op,
                             value |-> where[q].value, list |-> where[q].list]]

LEMMA WhereKeeps ==
  ASSUME NEW set, ShownSet(set), set.exact, NEW where, Wheres(where)
  PROVE  \A i \in DOMAIN set.rows : InMask(SidedPreds(set, where), i) <=> i \in Kept(set.rows, where)
<1> DEFINE preds == SidedPreds(set, where)
<1>1. ASSUME NEW i \in DOMAIN set.rows, NEW q \in DOMAIN where PROVE Passes(preds[q], i) <=> Holds(set.rows[i], where[q])
  <2>1. PICK t, p : t = where[q] /\ p = preds[q]
    OBVIOUS
  <2>2. p = [lane |-> Lane(SideOf(Named(set, t.lane)), NoLane), op |-> t.op, value |-> t.value, list |-> t.list]
    BY <2>1 DEF SidedPreds
  <2>3. t.lane \in Lanes
    BY <2>1 DEF Wheres
  <2>4. Shown(Named(set, t.lane), set.rows, t.lane, Dtype(t.lane)) /\ WordCells(set.rows, t.lane)
    BY <2>3, NamedShown
  <2>5. IsTerm(t, set.rows)
    BY <2>1, <2>4 DEF Wheres, IsTerm, WordCells
  <2>6. p.lane.col = SideOf(Named(set, t.lane)) /\ IsPredicate(p, t)
    BY <2>2 DEF IsPredicate, Lane
  <2>7. Shows(p.lane.col, set.rows, t.lane) /\ p.lane.col.dtype = Dtype(t.lane)
    BY <2>4, <2>6, SideShows
  <2> QED
    BY <2>1, <2>5, <2>6, <2>7, TermIs
<1>2. DOMAIN preds = DOMAIN where
  BY DEF SidedPreds
<1> HIDE DEF preds
<1>3. \A i \in DOMAIN set.rows : InMask(preds, i) <=> i \in Kept(set.rows, where)
  BY <1>1, <1>2 DEF InMask, Kept, ToSet
<1> QED
  BY <1>3 DEF preds

\* The predicates as the operators get them.
LEMMA SidedIs ==
  ASSUME NEW set, NEW where,
         \A q \in DOMAIN where : Named(set, where[q].lane).home # "cuda"
  PROVE  resolve_where(set, where) = SidedPreds(set, where)
<1>1. \A q \in DOMAIN where : SideOf(Named(set, where[q].lane)) = Named(set, where[q].lane)
  BY DEF SideOf
<1> QED
  BY <1>1 DEF resolve_where, SidedPreds

LEMMA MaskIsSided ==
  ASSUME Apart, NEW set, NEW where, NEW n,
         \A q \in DOMAIN where : "home" \in DOMAIN Named(set, where[q].lane) /\ Named(set, where[q].lane).home = "cuda"
  PROVE  Mask(resolve_where(set, where), n) = [i \in 1..n |-> InMask(SidedPreds(set, where), i)]
<1> DEFINE preds == resolve_where(set, where)
           wide == [q \in DOMAIN preds |-> [preds[q] EXCEPT !.lane = Read(@.col)]]
<1>1. ASSUME NEW q \in DOMAIN where PROVE wide[q] = SidedPreds(set, where)[q]
  <2>1. PICK t, p, col : t = where[q] /\ p = preds[q] /\ col = Named(set, t.lane)
    OBVIOUS
  <2>2. p = [lane |-> Lane(col, NoLane), op |-> t.op, value |-> t.value, list |-> t.list]
    BY <2>1 DEF resolve_where
  <2>3. p.lane.col = col
    BY <2>2 DEF Lane
  <2>4. wide[q] = [p EXCEPT !.lane = Read(col)]
    BY <2>1, <2>3 DEF resolve_where
  <2>5. Read(col) = Lane(SideOf(col), NoLane)
    BY <2>1, NoLaneApart DEF Read, SideOf
  <2>6. wide[q] = [lane |-> Lane(SideOf(col), NoLane), op |-> t.op, value |-> t.value, list |-> t.list]
    BY ONLY <2>2, <2>4, <2>5
  <2> QED
    BY <2>1, <2>6 DEF SidedPreds
<1>2. wide = [q \in DOMAIN where |-> wide[q]] /\ SidedPreds(set, where) = [q \in DOMAIN where |-> SidedPreds(set, where)[q]]
  BY DEF resolve_where, SidedPreds
<1>3. Mask(preds, n) = [i \in 1..n |-> InMask(wide, i)]
  BY DEF Mask
<1> HIDE DEF wide, preds
<1>4. wide = SidedPreds(set, where)
  BY <1>1, <1>2
<1> QED
  BY <1>3, <1>4 DEF preds

\* A statement over an exact set that shows its table, and the lanes it reads.
Query(set, s) ==
    /\ ShownSet(set) /\ set.exact /\ Wheres(s.where)
    /\ IsRows(s.pays) /\ \A p \in DOMAIN s.pays : s.pays[p] \in Lanes
Reads0(s) == ToSet(s.pays) \cup {t.lane : t \in ToSet(s.where)}
OnHome(set, s, home) == \A l \in Reads0(s) : Named(set, l).home = home

LEMMA ReadsAreLanes ==
  ASSUME NEW set, NEW s, Query(set, s)
  PROVE  /\ Reads0(s) \subseteq Lanes /\ (\A p \in DOMAIN s.pays : s.pays[p] \in Reads0(s))
         /\ \A q \in DOMAIN s.where : s.where[q].lane \in Reads0(s)
BY DEF Query, Wheres, Reads0, ToSet

LEMMA FirstLane ==
  ASSUME NEW set, NEW s, Query(set, s), Reads0(s) # {}
  PROVE  \E l \in Reads0(s) : LaneSeq(Payloads(set, s), resolve_where(set, s.where))[1] = Lane(Named(set, l), NoLane)
<1> DEFINE a == Payloads(set, s)
           b == [q \in DOMAIN resolve_where(set, s.where) |-> resolve_where(set, s.where)[q].lane]
<1>1. PICK m \in Nat, n \in Nat : m = Len(s.pays) /\ n = Len(s.where) /\ DOMAIN s.pays = 1..m /\ DOMAIN s.where = 1..n
  BY DEF Query, Wheres, IsRows
<1>2. a = [p \in 1..m |-> Lane(Named(set, s.pays[p]), NoLane)]
  BY <1>1 DEF Payloads
<1>3. b = [q \in 1..n |-> Lane(Named(set, s.where[q].lane), NoLane)]
  BY <1>1 DEF resolve_where
<1>4. LaneSeq(Payloads(set, s), resolve_where(set, s.where)) = a \o b
  BY DEF LaneSeq
<1>5. PICK x, y, u : x = a /\ y = b /\ u = x \o y
  OBVIOUS
<1>6. PICK R : R = {x[p] : p \in 1..m} \cup {y[q] : q \in 1..n}
  OBVIOUS
<1> HIDE DEF a, b
<1>7. x \in Seq(R) /\ y \in Seq(R) /\ Len(x) = m /\ Len(y) = n
  <2>1. x = [p \in 1..m |-> x[p]] /\ y = [q \in 1..n |-> y[q]]
    BY <1>2, <1>3, <1>5
  <2>2. x \in [1..m -> R] /\ y \in [1..n -> R]
    BY <1>6, <2>1
  <2> QED
    BY <2>2
<1>8. /\ Len(x) \in Nat /\ Len(y) \in Nat
      /\ \A i \in 1..Len(x) : u[i] = x[i]
      /\ \A i \in 1..Len(y) : u[Len(x) + i] = y[i]
  BY <1>5, <1>7, JoinIsSeq
<1>9. CASE m # 0
  <2>1. 1 \in 1..m
    BY <1>1, <1>9
  <2>2. u[1] = Lane(Named(set, s.pays[1]), NoLane)
    BY <1>2, <1>5, <1>7, <1>8, <2>1
  <2>3. s.pays[1] \in Reads0(s)
    BY <1>1, <2>1, ReadsAreLanes
  <2> QED
    BY <1>4, <1>5, <2>2, <2>3
<1>10. CASE m = 0 /\ n # 0
  <2>1. 1 \in 1..n /\ Len(x) + 1 = 1
    BY <1>1, <1>7, <1>10
  <2>2. u[1] = Lane(Named(set, s.where[1].lane), NoLane)
    BY <1>3, <1>5, <1>7, <1>8, <2>1
  <2>3. s.where[1].lane \in Reads0(s)
    BY <1>1, <2>1, ReadsAreLanes
  <2> QED
    BY <1>4, <1>5, <2>2, <2>3
<1>11. CASE m = 0 /\ n = 0
  <2>1. DOMAIN s.pays = {} /\ DOMAIN s.where = {}
    BY <1>1, <1>11
  <2>2. Reads0(s) = {}
    BY <2>1 DEF Reads0, ToSet
  <2> QED
    BY <2>2
<1> QED
  BY <1>9, <1>10, <1>11

LEMMA ShownReads ==
  ASSUME Apart, NEW set, ShownSet(set), set.exact, NEW l \in Lanes, NEW n \in Nat, DOMAIN set.rows = 1..n
  PROVE  /\ Reads(Lane(SideOf(Named(set, l)), NoLane), set.rows, l, n)
         /\ Len(Named(set, l).data) = n
         /\ "home" \in DOMAIN Named(set, l) /\ Named(set, l) # NoLane
<1>1. PICK col : col = Named(set, l)
  OBVIOUS
<1>2. Shown(col, set.rows, l, Dtype(l)) /\ WordCells(set.rows, l)
  BY <1>1, NamedShown
<1>3. Shows(SideOf(col), set.rows, l)
  BY <1>2, SideShows
<1>4. "home" \in DOMAIN col /\ col.data = [i \in 1..n |-> col.data[i]]
  BY <1>2 DEF Shown
<1>5. col # NoLane /\ Len(col.data) = n
  BY <1>4, NoLaneApart
<1>6. PICK v : v = Lane(SideOf(col), NoLane)
  OBVIOUS
<1>7. v # NoLane /\ v.index = NoLane /\ v.col = SideOf(col)
  BY <1>6, NoLaneApart DEF Lane
<1>8. Reads(v, set.rows, l, n)
  BY <1>2, <1>3, <1>7 DEF Reads, WordCells
<1> QED
  BY <1>1, <1>4, <1>5, <1>6, <1>8

LEMMA GlobalShown ==
  ASSUME Apart, NEW set, NEW s, Query(set, s), Reads0(s) # {}, NEW home, OnHome(set, s, home),
         NEW g, g = Global(Payloads(set, s), resolve_where(set, s.where), s.cuts), Fine(g)
  PROVE  GlobalIs(g, Payloads(set, s), s.pays, set.rows, Kept(set.rows, s.where))
<1>1. PICK n \in Nat : DOMAIN set.rows = 1..n /\ n <= W
  BY DEF Query, ShownSet, IsTable, IsRows
<1>2. PICK pays, preds, K, rows : /\ pays = Payloads(set, s) /\ preds = resolve_where(set, s.where)
                                  /\ rows = set.rows /\ K = Kept(rows, s.where)
  OBVIOUS
<1>3. PICK l0 \in Reads0(s) : LaneSeq(pays, preds)[1] = Lane(Named(set, l0), NoLane)
  BY <1>2, FirstLane
<1>4. ShownSet(set) /\ set.exact /\ Wheres(s.where)
  BY DEF Query
<1>5. Reads0(s) \subseteq Lanes
  BY ReadsAreLanes
<1>6. PICK lane, col : lane = LaneSeq(pays, preds)[1] /\ col = Named(set, l0)
  OBVIOUS
<1>7. lane.col = col /\ lane.index = NoLane /\ Len(col.data) = n /\ col.home = home
  <2>1. Len(col.data) = n
    BY <1>1, <1>4, <1>5, <1>6, ShownReads
  <2>2. lane = Lane(col, NoLane)
    BY <1>3, <1>6
  <2>3. col.home = home
    BY <1>6 DEF OnHome
  <2> QED
    BY <2>1, <2>2, <2>3 DEF Lane
<1>8. K \in SUBSET (1..n)
  BY <1>1, <1>2 DEF Kept
<1>9. \A i \in 1..n : InMask(SidedPreds(set, s.where), i) <=> i \in K
  BY <1>1, <1>2, <1>4, WhereKeeps
<1>10. DOMAIN pays = DOMAIN s.pays /\ \A p \in DOMAIN pays : pays[p] = Lane(Named(set, s.pays[p]), NoLane)
  BY <1>2 DEF Payloads
<1>11. g = IF home = "cuda" THEN DeviceGlobal(pays, preds) ELSE GlobalAggregate(pays, preds, s.cuts)
  BY <1>2, <1>6, <1>7 DEF Global, LaneSeq
<1>12. ASSUME NEW p \in DOMAIN pays
       PROVE  /\ Reads(Lane(SideOf(Named(set, s.pays[p])), NoLane), rows, s.pays[p], n)
              /\ Named(set, s.pays[p]).home = home /\ Named(set, s.pays[p]) # NoLane
  BY <1>1, <1>2, <1>4, <1>5, <1>10, ReadsAreLanes, ShownReads DEF OnHome
<1>13. CASE home # "cuda"
  <2>1. preds = SidedPreds(set, s.where)
    BY <1>2, <1>13, ReadsAreLanes, SidedIs DEF OnHome
  <2>2. MaskIs(preds, K, n)
    BY <1>9, <2>1 DEF MaskIs
  <2>3. \A p \in DOMAIN pays : Reads(pays[p], rows, s.pays[p], n)
    BY <1>10, <1>12, <1>13 DEF SideOf
  <2>4. GlobalOver(pays, preds, s.pays, rows, K, n)
    BY <1>1, <1>8, <2>2, <2>3 DEF GlobalOver
  <2>5. LaneRows(LaneSeq(pays, preds)[1]) = n
    BY <1>6, <1>7 DEF LaneRows
  <2>6. GlobalIs(GlobalAggregate(pays, preds, s.cuts), pays, s.pays, rows, K)
    BY <1>11, <1>13, <2>4, <2>5, HostGlobalIsNative
  <2> QED
    BY <1>2, <1>11, <1>13, <2>6
<1>14. CASE home = "cuda"
  <2>1. Mask(preds, n) = [i \in 1..n |-> InMask(SidedPreds(set, s.where), i)]
    <3>1. ASSUME NEW q \in DOMAIN s.where
          PROVE  "home" \in DOMAIN Named(set, s.where[q].lane) /\ Named(set, s.where[q].lane).home = "cuda"
      BY <1>1, <1>4, <1>5, <1>14, ReadsAreLanes, ShownReads DEF OnHome
    <3> QED
      BY <1>2, <3>1, MaskIsSided
  <2>2. DeviceMaskIs(preds, K, n)
    BY <1>9, <2>1 DEF DeviceMaskIs
  <2>3. \A p \in DOMAIN pays : Reads(Read(pays[p].col), rows, s.pays[p], n)
    <3>1. ASSUME NEW p \in DOMAIN pays PROVE Read(pays[p].col) = Lane(SideOf(Named(set, s.pays[p])), NoLane)
      <4>1. PICK x, v : x = Named(set, s.pays[p]) /\ v = pays[p]
        OBVIOUS
      <4>2. x.home = "cuda" /\ x # NoLane /\ v = Lane(x, NoLane)
        BY <1>10, <1>12, <1>14, <4>1
      <4>3. v.col = x
        BY <4>2 DEF Lane
      <4>4. Read(x) = Lane(SideOf(x), NoLane)
        BY <4>2 DEF Read, SideOf
      <4> QED
        BY <4>1, <4>3, <4>4
    <3> QED
      BY <1>12, <3>1
  <2>4. DeviceOver(pays, preds, s.pays, rows, K, n)
    BY <1>1, <1>8, <2>2, <2>3 DEF DeviceOver
  <2>5. Len(LaneSeq(pays, preds)[1].col.data) = n
    BY <1>6, <1>7
  <2>6. pays # <<>> => 1 \in DOMAIN pays
    <3>1. PICK m \in Nat : DOMAIN s.pays = 1..m
      BY DEF Query, IsRows
    <3>2. CASE m = 0
      <4>1. DOMAIN pays = {}
        BY <1>10, <3>1, <3>2
      <4>2. pays = [p \in DOMAIN s.pays |-> pays[p]]
        BY <1>2 DEF Payloads
      <4> QED
        BY <4>1, <4>2, <1>10
    <3>3. CASE m # 0
      BY <1>10, <3>1, <3>3
    <3> QED
      BY <3>2, <3>3
  <2>7. GlobalIs(DeviceGlobal(pays, preds), pays, s.pays, rows, K)
    BY <1>11, <1>14, <2>4, <2>5, <2>6, DeviceGlobalIsNative
  <2> QED
    BY <1>2, <1>11, <1>14, <2>7
<1> QED
  BY <1>13, <1>14

\* What DuckDB is shown of a tuple is native's aggregate, NULL for NULL.
LEMMA PayIsNative ==
  ASSUME Unread \notin Limbs, NEW t \in Tuple, NEW table, NEW K, NEW name, IsNative(t, table, K, name),
         NEW want, want \subseteq {"counts", "sums", "mins", "maxs"}, NEW w \in want
  PROVE  ShownPay(Finished(t), want)[w] = NativeAggregate(table, K, name)[w]
<1>1. PICK r, a : r = Finished(t) /\ a = NativeAggregate(table, K, name)
  OBVIOUS
<1>2. /\ t.cnt = a.counts
      /\ IF t.cnt = 0 THEN a.sums = NoCell /\ a.mins = NoCell /\ a.maxs = NoCell
         ELSE a.sums = Number(t.sum) /\ a.mins = t.mn /\ a.maxs = t.mx
  BY <1>1 DEF IsNative
<1>3. t.sum \in Limbs
  BY DEF Tuple, Limbs, Word
<1>4. r.cnt = t.cnt /\ (t.cnt # 0 => r.sum = t.sum /\ r.mn = t.mn /\ r.mx = t.mx)
  BY <1>1 DEF Finished, Tuple
<1>5. ShownPay(r, want)[w] = IF w = "counts" THEN r.cnt
                             ELSE IF r.cnt = 0 THEN NoCell
                             ELSE CASE w = "sums" -> IF r.sum = Unread THEN Unread ELSE Number(r.sum)
                                    [] w = "mins" -> r.mn
                                    [] w = "maxs" -> r.mx
  BY DEF ShownPay
<1>6. CASE w = "counts"
  BY <1>1, <1>2, <1>4, <1>5, <1>6
<1>7. CASE w = "sums"
  BY <1>1, <1>2, <1>3, <1>4, <1>5, <1>7
<1>8. CASE w = "mins"
  BY <1>1, <1>2, <1>4, <1>5, <1>8
<1>9. CASE w = "maxs"
  BY <1>1, <1>2, <1>4, <1>5, <1>9
<1> QED
  BY <1>6, <1>7, <1>8, <1>9

ShownPays(g, want) == [p \in DOMAIN g.pays |-> ShownPay(g.pays[p], Cols(want))]
LEMMA GlobalReply ==
  ASSUME NEW g, NEW want, NEW a, a = gg_function(g, want)
  PROVE  /\ a.err = g.err /\ Len(a.rows) = 1 /\ IsRows(a.rows)
         /\ a.rows[1].stars = g.star /\ a.rows[1].pays = ShownPays(g, want)
<1>1. PICK row : row = [stars |-> g.star, pays |-> [p \in DOMAIN g.pays |-> ShownPay(g.pays[p], Cols(want))]]
  OBVIOUS
<1>2. a = Reply(g.err, <<row>>)
  BY <1>1 DEF gg_function
<1>3. a.err = g.err /\ a.rows = <<row>>
  BY <1>2 DEF Reply
<1>4. row.stars = g.star /\ row.pays = ShownPays(g, want)
  BY <1>1 DEF ShownPays
<1>5. IsRows(<<row>>)
  BY DEF IsRows
<1> QED
  BY <1>3, <1>4, <1>5

GlobalAnswer(s, set, rows) ==
    LET kept == Kept(set.rows, s.where)
    IN  /\ Len(rows) = 1
        /\ rows[1].stars = Cardinality(kept)
        /\ \A p \in DOMAIN s.pays : \A w \in Cols(s.want) :
              rows[1].pays[p][w] = NativeAggregate(set.rows, kept, s.pays[p])[w]

LEMMA GlobalAnswers ==
  ASSUME Apart, Unread \notin Limbs, NEW set, NEW s, Query(set, s), s.want \subseteq All, Reads0(s) # {}, NEW home,
         OnHome(set, s, home), NEW g, g = Global(Payloads(set, s), resolve_where(set, s.where), s.cuts), Fine(g),
         NEW a, a = gg_function(g, s.want)
  PROVE  GlobalAnswer(s, set, a.rows) /\ IsRows(a.rows)
<1>1. PICK K, pays : K = Kept(set.rows, s.where) /\ pays = Payloads(set, s)
  OBVIOUS
<1>2. GlobalIs(g, pays, s.pays, set.rows, K)
  BY <1>1, GlobalShown
<1>3. DOMAIN pays = DOMAIN s.pays
  BY <1>1 DEF Payloads
<1>4. /\ Len(a.rows) = 1 /\ IsRows(a.rows)
      /\ a.rows[1].stars = g.star /\ a.rows[1].pays = ShownPays(g, s.want)
  BY GlobalReply
<1>5. ASSUME NEW p \in DOMAIN s.pays, NEW w \in Cols(s.want)
      PROVE  a.rows[1].pays[p][w] = NativeAggregate(set.rows, K, s.pays[p])[w]
  <2>1. PICK t : t \in Tuple /\ g.pays[p] = Finished(t) /\ IsNative(t, set.rows, K, s.pays[p])
    BY <1>2, <1>3 DEF GlobalIs
  <2>2. Cols(s.want) \subseteq {"counts", "sums", "mins", "maxs"}
    BY DEF Cols, All
  <2>3. ShownPay(Finished(t), Cols(s.want))[w] = NativeAggregate(set.rows, K, s.pays[p])[w]
    BY <2>1, <2>2, PayIsNative
  <2>4. a.rows[1].pays[p] = ShownPay(g.pays[p], Cols(s.want))
    BY <1>2, <1>3, <1>4 DEF ShownPays, GlobalIs
  <2> QED
    BY <2>1, <2>3, <2>4
<1> QED
  BY <1>1, <1>2, <1>4, <1>5 DEF GlobalAnswer, GlobalIs

\* What a statement without GROUP BY that was let through reads.
LEMMA GlobalTakes ==
  ASSUME NEW s, s.op = "global", Asks(s), NEW h, Takes(s, h), ~TwoSided(s, h)
  PROVE  /\ Query(h[1], s) /\ Reads0(s) # {} /\ \E home : OnHome(h[1], s, home)
<1>1. 1 \in DOMAIN s.from /\ s.from[1] \notin Outputs
  BY DEF Asks
<1>2. ShownSet(h[1])
  BY <1>1 DEF Takes
<1>3. gm_ok(s, h[1])
  BY DEF Takes, Checked
<1>4. h[1].exact
  BY <1>3 DEF gm_ok, where_ok
<1>5. Wheres(s.where) /\ IsRows(s.pays) /\ \A p \in DOMAIN s.pays : s.pays[p] \in Lanes
  BY DEF Asks
<1>6. Query(h[1], s)
  BY <1>2, <1>4, <1>5 DEF Query
<1>7. Columns(s, h) = {Named(h[1], l) : l \in Reads0(s)}
  BY DEF Columns, Reads0
<1>8. Columns(s, h) # {} /\ OneSide(Columns(s, h))
  BY DEF TwoSided
<1>9. Reads0(s) # {}
  BY <1>7, <1>8
<1>10. PICK l \in Reads0(s) : TRUE
  BY <1>9
<1>11. OnHome(h[1], s, Named(h[1], l).home)
  BY <1>7, <1>8, <1>10 DEF OneSide, OnHome
<1> QED
  BY <1>6, <1>9, <1>11

LEMMA GlobalAnswered ==
  ASSUME NEW g0, NEW s, s.op = "global", NEW h, NEW a \in Answers(g0, s, h)
  PROVE  a = gg_function(Global(Payloads(h[1], s), resolve_where(h[1], s.where), s.cuts), s.want)
<1>1. Answers(g0, s, h) = {Answered(s, h, n) : n \in Words(s, h)}
  BY DEF Answers
<1>2. PICK n : a = Answered(s, h, n)
  BY <1>1
<1> QED
  BY <1>2 DEF Answered

\* On every side, for any table, WHERE program, number of payloads and cut of the rows
\* into workers' chunks, the one row an aggregate without GROUP BY hands out is native's.
THEOREM GlobalsAreNative ==
  ASSUME Instantiated, Apart, Unread \notin Limbs, \A s, h : RejectFn(s, h) <=> TwoSided(s, h)
  PROVE  Spec => []GlobalIsNative
<1>1. ASSUME ShownInv, \A c \in Callers : WholeAnswer(c) /\ (pc[c] = "emit" => HasAnswer(c)), SideInv PROVE GlobalIsNative
  <2> SUFFICES ASSUME NEW c \in Callers, pc[c] = "emit", Len(sent[c]) >= Len(res[c].rows), Stmt(c).op = "global"
               PROVE  GlobalAnswer(Stmt(c), held[c][1], sent[c])
    BY DEF GlobalIsNative, GlobalAnswer, Answering, Table
  <2>1. PICK s, h : s = Stmt(c) /\ h = held[c]
    OBVIOUS
  <2>2. s \in Statements
    BY <1>1, <2>1, StmtKnown
  <2>3. Asks(s)
    BY <2>1, <2>2, TableAssumption DEF Programs
  <2>4. Takes(s, h)
    BY <1>1, <2>1 DEF ShownInv
  <2>5. ~TwoSided(s, h)
    BY <1>1, <2>1 DEF HasAnswer
  <2>6. PICK a \in RunFn(gpu, s, h) : a.err = "" /\ res[c].rows = a.rows
    BY <1>1, <2>1 DEF HasAnswer
  <2>7. a \in Answers(gpu, s, h)
    BY <2>6 DEF Instantiated
  <2>8. PICK g : g = Global(Payloads(h[1], s), resolve_where(h[1], s.where), s.cuts)
    OBVIOUS
  <2>9. a = gg_function(g, s.want)
    BY <2>1, <2>7, <2>8, GlobalAnswered
  <2>10. Fine(g)
    <3>1. a.err = g.err
      BY <2>9, GlobalReply
    <3> QED
      BY <2>6, <3>1, Zenon DEF Fine
  <2>11. Query(h[1], s) /\ Reads0(s) # {} /\ \E home : OnHome(h[1], s, home)
    BY <2>1, <2>3, <2>4, <2>5, GlobalTakes
  <2>12. s.want \subseteq All
    BY <2>3 DEF Asks
  <2>13. GlobalAnswer(s, h[1], a.rows) /\ IsRows(a.rows)
    BY <2>8, <2>9, <2>10, <2>11, <2>12, GlobalAnswers
  <2>14. res[c].rows = a.rows
    BY <2>6, Zenon
  <2>15. sent[c] = a.rows
    BY <1>1, <2>13, <2>14 DEF WholeAnswer
  <2> QED
    BY <2>1, <2>13, <2>15
<1> QED
  BY <1>1, SetsAreShown, SidesSound, WholeAnswers, PTL

\* ---- top-k over a shown set -----------------------------------------------------------
LEMMA RankingTold ==
  ASSUME NEW col, NEW table, NEW k \in Nat, NEW desc, NEW n \in Nat, Len(table) = n, NEW idx, RanksAs(col, table, k, desc, idx, n)
  PROVE  IsRanking(table, "v", col.dtype = "f64", k, desc, [j \in DOMAIN idx |-> idx[j]])
<1>1. PICK m \in Nat : m = Min({k, n})
  BY MinOfTwo
<1>2. PICK to : to = [j \in 1..m |-> idx[j]]
  OBVIOUS
<1>3. DOMAIN idx = 1..m /\ IsRanking(table, "v", col.dtype = "f64", k, desc, idx)
  BY <1>1 DEF RanksAs
<1>4. Len(to) = m /\ DOMAIN to = DOMAIN idx /\ \A j \in DOMAIN idx : to[j] = idx[j]
  BY <1>2, <1>3
<1>5. ToSet(to) = ToSet(idx)
  BY <1>4 DEF ToSet
<1>6. IsRanking(table, "v", col.dtype = "f64", k, desc, to)
  BY <1>1, <1>3, <1>4, <1>5 DEF IsRanking
<1> QED
  BY <1>2, <1>3, <1>6

LEMMA NoneRanks ==
  ASSUME NEW col, NEW table, NEW k \in Nat, NEW desc, NEW n \in Nat, Len(table) = n, Min({k, n}) = 0
  PROVE  RanksAs(col, table, k, desc, <<>>, n)
<1>1. DOMAIN <<>> = 1..0 /\ Len(<<>>) = 0 /\ DOMAIN <<>> = {}
  OBVIOUS
<1>2. ToSet(<<>>) = {}
  BY <1>1 DEF ToSet
<1>3. IsRanking(table, "v", col.dtype = "f64", k, desc, <<>>)
  BY <1>1, <1>2 DEF IsRanking
<1> QED
  BY <1>1, <1>3 DEF RanksAs

TopIs(idx) == [err |-> "", idx |-> idx]
TopRefused == [err |-> "stored narrow", idx |-> <<>>]
LEMMA TopParts == (\A idx : TopIs(idx).idx = idx) /\ TopRefused.idx = <<>> /\ ~Fine(TopRefused)
<1>1. \A idx : TopIs(idx).idx = idx
  BY Zenon DEF TopIs
<1>2. TopRefused.idx = <<>>
  BY Zenon DEF TopRefused
<1>3. TopRefused.err = "stored narrow"
  BY Zenon DEF TopRefused
<1>4. "stored narrow" # ""
  BY Zenon
<1>5. ~Fine(TopRefused)
  BY <1>3, <1>4, Zenon DEF Fine
<1> QED
  BY <1>1, <1>2, <1>5

LEMMA NarrowTop ==
  ASSUME NEW col, col.width # 8, NEW k, NEW desc, NEW r, r = DeviceTopK(col, k, desc), Fine(r)
  PROVE  Min({k, Len(col.data)}) = 0 /\ r.idx = <<>>
<1>1. r = IF Min({k, Len(col.data)}) = 0 THEN TopIs(<<>>) ELSE TopRefused
  BY Zenon DEF DeviceTopK, TopIs, TopRefused
<1> QED
  BY <1>1, TopParts

LEMMA TopRowsRank ==
  ASSUME NEW col, NEW table, NEW d, Shown(col, table, "v", d), IsTable(table), \A i \in DOMAIN table : table[i].v # NoCell,
         NEW k \in Nat, NEW desc \in BOOLEAN, NEW r, r = TopRows(col, k, desc), Fine(r)
  PROVE  /\ RanksAs(col, table, k, desc, r.idx, Len(table)) /\ Len(table) \in Nat
         /\ \A j \in DOMAIN r.idx : col.data[r.idx[j]] = table[r.idx[j]].v
<1>1. PICK n \in Nat : DOMAIN table = 1..n /\ Len(table) = n
  BY DEF IsTable, IsRows
<1>2. WordCells(table, "v")
  BY TableCells DEF Lanes
<1>3. col.data = [i \in 1..n |-> col.data[i]] /\ Len(col.data) = n
  BY <1>1 DEF Shown
<1>4. CASE col.width = 8
  <2>1. \A i \in 1..n : col.data[i] = table[i].v /\ col.data[i] \in Word
    BY <1>1, <1>2, <1>4 DEF Shown, Shows, WordCells
  <2>2. IsColumnOf(col, table, n)
    BY <1>1, <1>3, <2>1 DEF IsColumnOf
  <2>3. RanksAs(col, table, k, desc, r.idx, n)
    <3>1. CASE col.home = "cuda"
      <4>1. r = DeviceTopK(col, k, desc)
        BY <3>1, Zenon DEF TopRows
      <4>2. \/ DeviceTopK(col, k, desc).err # "" /\ col.width # 8
            \/ DeviceTopK(col, k, desc).err = "" /\ RanksAs(col, table, k, desc, DeviceTopK(col, k, desc).idx, n)
        BY <2>2, DeviceTopKRanks
      <4> QED
        BY <1>4, <4>1, <4>2, Zenon
    <3>2. CASE col.home # "cuda"
      <4>1. r = TopIs(TopK(col, k, desc))
        BY <3>2, Zenon DEF TopRows, TopIs
      <4>2. r.idx = TopK(col, k, desc)
        BY <4>1, TopParts
      <4>3. RanksAs(col, table, k, desc, TopK(col, k, desc), n)
        BY <2>2, TopKRanks
      <4> QED
        BY <4>2, <4>3
    <3> QED
      BY <3>1, <3>2
  <2>4. \A j \in DOMAIN r.idx : r.idx[j] \in 1..n
    BY <1>1, <2>3 DEF RanksAs, IsRanking, ToSet
  <2> QED
    BY <1>1, <2>1, <2>3, <2>4
<1>5. CASE col.width # 8
  <2>1. col.home = "cuda"
    BY <1>5 DEF Shown
  <2>2. r = DeviceTopK(col, k, desc)
    BY <2>1, Zenon DEF TopRows
  <2>3. Min({k, n}) = 0 /\ r.idx = <<>>
    <3>1. Min({k, Len(col.data)}) = 0 /\ r.idx = <<>>
      BY <1>5, <2>2, NarrowTop
    <3> QED
      BY <1>3, <3>1
  <2>4. RanksAs(col, table, k, desc, r.idx, n)
    BY <1>1, <2>3, NoneRanks
  <2>5. DOMAIN r.idx = {}
    BY <2>3
  <2> QED
    BY <1>1, <2>4, <2>5
<1> QED
  BY <1>4, <1>5

LEMMA TopReply ==
  ASSUME NEW col, NEW r, NEW a, a = tk_function(col, r)
  PROVE  a.err = r.err /\ a.rows = [j \in DOMAIN r.idx |-> <<r.idx[j], col.data[r.idx[j]]>>]
BY DEF tk_function, Reply

TopAnswer(s, table, rows) ==
    LET idx == [j \in DOMAIN rows |-> rows[j][1]]
    IN  /\ IsRanking(table, "v", s.vdt = "f64", s.k, s.desc, idx)
        /\ \A j \in DOMAIN rows : rows[j][2] = table[rows[j][1]].v

LEMMA TopAnswers ==
  ASSUME NEW s, s.k \in Nat, s.desc \in BOOLEAN, NEW set, ShownSet(set), set.val.dtype = s.vdt,
         \A i \in DOMAIN set.rows : set.rows[i].v # NoCell,
         NEW r, r = TopRows(set.val, s.k, s.desc), Fine(r), NEW a, a = tk_function(set.val, r)
  PROVE  TopAnswer(s, set.rows, a.rows) /\ IsRows(a.rows)
<1>1. PICK col, table, k, desc, idx, rows :
        /\ col = set.val /\ table = set.rows /\ k = s.k /\ desc = s.desc /\ idx = r.idx /\ rows = a.rows
  OBVIOUS
<1>2. PICK d \in Types : Shown(col, table, "v", d)
  BY <1>1 DEF ShownSet
<1>3. IsTable(table)
  BY <1>1 DEF ShownSet
<1>4. /\ RanksAs(col, table, k, desc, idx, Len(table)) /\ Len(table) \in Nat
      /\ \A j \in DOMAIN idx : col.data[idx[j]] = table[idx[j]].v
  BY <1>1, <1>2, <1>3, TopRowsRank
<1>5. k \in Nat
  BY <1>1
<1>6. IsRanking(table, "v", col.dtype = "f64", k, desc, [j \in DOMAIN idx |-> idx[j]])
  BY <1>4, <1>5, RankingTold
<1>7. rows = [j \in DOMAIN idx |-> <<idx[j], col.data[idx[j]]>>]
  BY <1>1, TopReply
<1>8. [j \in DOMAIN rows |-> rows[j][1]] = [j \in DOMAIN idx |-> idx[j]] /\ \A j \in DOMAIN rows : rows[j][2] = table[rows[j][1]].v
  BY <1>4, <1>7
<1>9. IsRows(rows)
  <2>1. PICK m \in Nat : DOMAIN idx = 1..m
    <3>1. PICK m \in Nat : m = Min({k, Len(table)})
      BY <1>4, <1>5, MinOfTwo
    <3> QED
      BY <1>4, <3>1 DEF RanksAs
  <2>2. PICK row : row = [j \in 1..m |-> <<idx[j], col.data[idx[j]]>>]
    OBVIOUS
  <2>3. rows = row
    BY <1>7, <2>1, <2>2
  <2>4. Len(row) = m
    BY <2>1, <2>2
  <2> QED
    BY <2>1, <2>2, <2>3, <2>4 DEF IsRows
<1> QED
  BY <1>1, <1>6, <1>8, <1>9 DEF TopAnswer

LEMMA TopAnswered ==
  ASSUME NEW g0, NEW s, s.op = "topk", NEW h, NEW a \in Answers(g0, s, h)
  PROVE  a = tk_function(h[1].val, TopRows(h[1].val, s.k, s.desc))
<1>1. Answers(g0, s, h) = {Answered(s, h, n) : n \in Words(s, h)}
  BY DEF Answers
<1>2. PICK n : a = Answered(s, h, n)
  BY <1>1
<1> QED
  BY <1>2 DEF Answered

\* A statement that runs was let through by its bind function.
BoundInv == \A c \in Callers : pc[c] # "idle" => BindFn(Stmt(c))

LEMMA BoundStep ==
  ASSUME CallTypes, BoundInv, NEW c \in Callers, Step(c)
  PROVE  BoundInv'
<1>1. \A d \in Callers \ {c} : pc'[d] = pc[d] /\ Stmt(d)' = Stmt(d)
  BY DEF Step, Bind, Acquire, Enter, Upload, Run, Leave, Emit, Finish, Fails, CallTypes, Stmt
<1>2. pc'[c] # "idle" => BindFn(Stmt(c)')
  <2> SUFFICES ASSUME pc'[c] # "idle" PROVE BindFn(Stmt(c)')
    OBVIOUS
  <2>1. Stmt(c)' = Stmt(c) /\ (BindFn(Stmt(c)) \/ pc[c] # "idle")
    BY DEF Step, Bind, Acquire, Enter, Upload, Run, Leave, Emit, Finish, Fails, CallTypes, Stmt
  <2> QED
    BY <2>1 DEF BoundInv
<1> QED
  BY <1>1, <1>2 DEF BoundInv

LEMMA OnlyBoundRun == Spec => []BoundInv
<1>1. Init => BoundInv
  BY DEF Init, BoundInv
<1>2. CallInv /\ BoundInv /\ [Next]_vars => BoundInv'
  <2> SUFFICES ASSUME CallTypes, BoundInv, [Next]_vars PROVE BoundInv'
    BY DEF CallInv
  <2>1. CASE UNCHANGED vars
    BY <2>1 DEF BoundInv, vars, Stmt
  <2>2. CASE Done
    BY <2>2 DEF Done, BoundInv, vars, Stmt
  <2>3. ASSUME NEW c \in Callers, Step(c) PROVE BoundInv'
    BY <2>3, BoundStep
  <2> QED
    BY <2>1, <2>2, <2>3 DEF Next
<1> QED
  BY <1>1, <1>2, CallSound, PTL DEF Spec

\* The row ids a top-k hands out are k different ones no row left out ranks before, each
\* with its own value, on either side and at any width the device may store them at.
THEOREM TopKsAreRankings ==
  ASSUME Instantiated, \A s : BindFn(s) <=> BindOk(s)
  PROVE  Spec => []TopKIsARanking
<1>1. ASSUME ShownInv, \A c \in Callers : WholeAnswer(c) /\ (pc[c] = "emit" => HasAnswer(c)), SideInv, BoundInv PROVE TopKIsARanking
  <2> SUFFICES ASSUME NEW c \in Callers, pc[c] = "emit", Len(sent[c]) >= Len(res[c].rows), Stmt(c).op = "topk",
                      \A i \in DOMAIN held[c][1].rows : held[c][1].rows[i].v # NoCell
               PROVE  TopAnswer(Stmt(c), held[c][1].rows, sent[c])
    BY DEF TopKIsARanking, TopAnswer, Answering, Table
  <2>1. PICK s, h : s = Stmt(c) /\ h = held[c]
    OBVIOUS
  <2>2. s \in Statements
    BY <1>1, <2>1, StmtKnown
  <2>3. Orders(s)
    BY <2>1, <2>2, TableAssumption DEF Programs
  <2>4. s.k \in Nat
    <3>1. BindOk(s)
      BY <1>1, <2>1 DEF BoundInv
    <3>2. s.k >= 0
      BY <2>1, <3>1 DEF BindOk
    <3> QED
      BY <2>3, <3>2 DEF Orders
  <2>5. Takes(s, h)
    BY <1>1, <2>1 DEF ShownInv
  <2>6. ShownSet(h[1])
    BY <2>3, <2>5 DEF Orders, Takes
  <2>7. h[1].val.dtype = s.vdt
    BY <2>1, <2>5 DEF Takes, Checked, tk_ok
  <2>8. PICK a \in RunFn(gpu, s, h) : a.err = "" /\ res[c].rows = a.rows
    BY <1>1, <2>1 DEF HasAnswer
  <2>9. a \in Answers(gpu, s, h)
    BY <2>8 DEF Instantiated
  <2>10. PICK r : r = TopRows(h[1].val, s.k, s.desc)
    OBVIOUS
  <2>11. a = tk_function(h[1].val, r)
    BY <2>1, <2>9, <2>10, TopAnswered
  <2>12. Fine(r)
    <3>1. PICK col : col = h[1].val
      OBVIOUS
    <3>2. a = tk_function(col, r)
      BY ONLY <2>11, <3>1
    <3>3. tk_function(col, r).err = r.err
      BY ONLY DEF tk_function, Reply
    <3>4. a.err = r.err
      BY ONLY <3>2, <3>3, Zenon
    <3> QED
      BY <2>8, <3>4, Zenon DEF Fine
  <2>13. res[c].rows = a.rows
    BY <2>8, Zenon
  <2>14. s.desc \in BOOLEAN
    BY <2>3 DEF Orders
  <2>15. \A i \in DOMAIN h[1].rows : h[1].rows[i].v # NoCell
    BY <2>1
  <2>16. TopAnswer(s, h[1].rows, a.rows) /\ IsRows(a.rows)
    BY <2>4, <2>6, <2>7, <2>10, <2>11, <2>12, <2>14, <2>15, TopAnswers
  <2>17. sent[c] = a.rows
    BY <1>1, <2>13, <2>16 DEF WholeAnswer
  <2> QED
    BY <2>1, <2>16, <2>17
<1> QED
  BY <1>1, SetsAreShown, SidesSound, OnlyBoundRun, WholeAnswers, PTL

\* ---- GROUP BY over a shown set ----------------------------------------------------------
Homes == {"cpu", "cuda", "lean"}
\* A GROUP BY over a set of n rows whose lanes are all on one side.
GroupQuery(set, s, n, home) ==
    /\ Query(set, s) /\ OnHome(set, s, home) /\ set.key.home = home /\ home \in Homes
    /\ n \in Nat /\ n <= W /\ DOMAIN set.rows = 1..n

LEMMA KeyIsColumn ==
  ASSUME Apart, NEW set, NEW s, NEW n, NEW home, GroupQuery(set, s, n, home)
  PROVE  /\ Reads(Lane(SideOf(set.key), NoLane), set.rows, "k", n) /\ Len(set.key.data) = n
         /\ home = "cuda" => KeyColumn(set.key, set.rows, n)
         /\ \A i \in 1..n : IsKeyCell(set.rows[i].k)
<1>1. ShownSet(set) /\ set.exact /\ n \in Nat /\ DOMAIN set.rows = 1..n /\ set.key.home = home
  BY DEF GroupQuery, Query
<1>2. PICK k, table : k = set.key /\ table = set.rows
  OBVIOUS
<1>3. Named(set, "k") = k /\ "k" \in Lanes
  BY <1>2 DEF Named, Lanes
<1>4. Reads(Lane(SideOf(k), NoLane), table, "k", n) /\ Len(k.data) = n
  BY <1>1, <1>2, <1>3, ShownReads
<1>5. Shown(k, table, "k", "i64") /\ WordCells(table, "k")
  BY <1>1, <1>2, TableCells DEF ShownSet, Lanes
<1>6. \A i \in 1..n : IsKeyCell(table[i].k)
  BY <1>1, <1>2, <1>5 DEF WordCells, IsKeyCell
<1>7. ASSUME home = "cuda" PROVE KeyColumn(k, table, n)
  <2>1. DOMAIN table = 1..n /\ k.data = [i \in 1..n |-> k.data[i]] /\ k.home = "cuda"
    BY <1>1, <1>2, <1>5, <1>7 DEF Shown
  <2>2. Wide(k).valid = k.valid /\ Wide(k).data = [i \in 1..n |-> Load(k, i)]
    BY <1>5, <2>1 DEF Wide, Shown
  <2>3. ASSUME NEW i \in 1..n
        PROVE  /\ BitAt(k.valid, i) <=> table[i].k # NoCell
               /\ table[i].k # NoCell => Load(k, i) = table[i].k /\ table[i].k \in Word
    <3>1. Shows(Wide(k), table, "k")
      BY <1>5, <2>1 DEF Shown
    <3>2. BitAt(k.valid, i) <=> table[i].k # NoCell
      BY <2>1, <2>2, <3>1 DEF Shows
    <3>3. table[i].k # NoCell => Load(k, i) = table[i].k
      BY <2>1, <2>2, <3>1 DEF Shows
    <3>4. table[i].k # NoCell => table[i].k \in Word
      BY <1>6 DEF IsKeyCell
    <3> QED
      BY <3>2, <3>3, <3>4
  <2> QED
    BY <1>1, <1>4, <2>1, <2>3 DEF KeyColumn
<1> QED
  BY <1>2, <1>4, <1>6, <1>7

\* The payload of a pass, read on its side.
LEMMA PassIsOver ==
  ASSUME Apart, NEW set, NEW s, NEW n, NEW home, GroupQuery(set, s, n, home), NEW p \in DOMAIN s.pays, NEW f, IsFilter(f)
  PROVE  /\ GroupingOver(Lane(SideOf(Named(set, s.pays[p])), NoLane), set.rows, Kept(set.rows, s.where), n, s.pays, p, f)
         /\ Named(set, s.pays[p]).home = home /\ Named(set, s.pays[p]) # NoLane
<1>1. /\ ShownSet(set) /\ set.exact /\ n \in Nat /\ n <= W /\ DOMAIN set.rows = 1..n
      /\ Query(set, s) /\ OnHome(set, s, home)
  BY DEF GroupQuery, Query
<1>2. s.pays[p] \in Lanes /\ s.pays[p] \in Reads0(s)
  BY <1>1, ReadsAreLanes
<1>3. Reads(Lane(SideOf(Named(set, s.pays[p])), NoLane), set.rows, s.pays[p], n) /\ Named(set, s.pays[p]) # NoLane
  BY <1>1, <1>2, ShownReads
<1>4. Kept(set.rows, s.where) \in SUBSET (1..n)
  BY <1>1 DEF Kept
<1>5. \A i \in 1..n : IsKeyCell(set.rows[i].k)
  BY KeyIsColumn
<1> QED
  BY <1>1, <1>2, <1>3, <1>4, <1>5 DEF GroupingOver, OnHome

LEMMA QueryMask ==
  ASSUME Apart, NEW set, NEW s, NEW n, NEW home, GroupQuery(set, s, n, home),
         NEW preds, preds = resolve_where(set, s.where), NEW K, K = Kept(set.rows, s.where)
  PROVE  IF home = "cuda" THEN DeviceMaskIs(preds, K, n) ELSE MaskIs(preds, K, n)
<1>1. ShownSet(set) /\ set.exact /\ Wheres(s.where) /\ n \in Nat /\ DOMAIN set.rows = 1..n /\ Query(set, s) /\ OnHome(set, s, home)
  BY DEF GroupQuery, Query
<1>2. \A i \in 1..n : InMask(SidedPreds(set, s.where), i) <=> i \in K
  BY <1>1, WhereKeeps
<1>3. CASE home # "cuda"
  <2>1. preds = SidedPreds(set, s.where)
    BY <1>1, <1>3, ReadsAreLanes, SidedIs DEF OnHome
  <2> QED
    BY <1>2, <1>3, <2>1 DEF MaskIs
<1>4. CASE home = "cuda"
  <2>1. ASSUME NEW q \in DOMAIN s.where
        PROVE  "home" \in DOMAIN Named(set, s.where[q].lane) /\ Named(set, s.where[q].lane).home = "cuda"
    BY <1>1, <1>4, ReadsAreLanes, ShownReads DEF OnHome
  <2>2. Mask(preds, n) = [i \in 1..n |-> InMask(SidedPreds(set, s.where), i)]
    <3>1. PICK where : where = s.where
      OBVIOUS
    <3>2. \A q \in DOMAIN where : "home" \in DOMAIN Named(set, where[q].lane) /\ Named(set, where[q].lane).home = "cuda"
      BY <2>1, <3>1
    <3>3. Mask(resolve_where(set, where), n) = [i \in 1..n |-> InMask(SidedPreds(set, where), i)]
      BY ONLY Apart, <3>2, MaskIsSided
    <3> QED
      BY <3>1, <3>3
  <2> QED
    BY <1>2, <1>4, <2>2 DEF DeviceMaskIs
<1> QED
  BY <1>3, <1>4

\* ---- what a backend that fills only what was asked for leaves --------------------------------
Refusals == {"index", "row counts", "cap", "missing group", "group count"}
IsReply(e) == (\E why \in Refusals : e = Refused(why)) \/ \E rows, total : e = Answer(rows, total)
LEMMA FilteredReplies == ASSUME NEW rows, NEW f, NEW cap PROVE IsReply(Filtered(rows, f, cap))
<1>1. PICK out, total : Filtered(rows, f, cap) = Capped(out, total, cap)
  BY Zenon DEF Filtered
<1>2. Capped(out, total, cap) = Refused("cap") \/ Capped(out, total, cap) = Answer(out, total)
  BY Zenon DEF Capped
<1> QED
  BY <1>1, <1>2, Zenon DEF IsReply, Refusals

LEMMA FixedReplies == IsReply(Refused("index")) /\ IsReply(Refused("row counts")) /\ \A rows, total : IsReply(Answer(rows, total))
BY Zenon DEF IsReply, Refusals

LEMMA ExactReplies == ASSUME NEW k, NEW v, NEW preds, NEW f, NEW cap PROVE IsReply(ExactGroups(k, v, preds, f, cap))
<1>1. PICK rows : \/ ExactGroups(k, v, preds, f, cap) = Refused("index")
                  \/ ExactGroups(k, v, preds, f, cap) = Refused("row counts")
                  \/ ExactGroups(k, v, preds, f, cap) = Answer(<<>>, 0)
                  \/ ExactGroups(k, v, preds, f, cap) = Filtered(rows, f, cap)
  BY Zenon DEF ExactGroups
<1> QED
  BY <1>1, FilteredReplies, FixedReplies

LEMMA DeviceReplies == ASSUME NEW k, NEW v, NEW preds, NEW f, NEW cap PROVE IsReply(DeviceGroups(k, v, preds, f, cap))
<1>1. PICK rows : \/ DeviceGroups(k, v, preds, f, cap) = Refused("index")
                  \/ DeviceGroups(k, v, preds, f, cap) = Refused("row counts")
                  \/ DeviceGroups(k, v, preds, f, cap) = Answer(<<>>, 0)
                  \/ DeviceGroups(k, v, preds, f, cap) = Filtered(rows, f, cap)
  BY Zenon DEF DeviceGroups
<1> QED
  BY <1>1, FilteredReplies, FixedReplies

LEMMA RefusedIs == \A why : DOMAIN Refused(why) = {"err", "rows", "total", "has"} /\ Refused(why).err = why
BY DEF Refused
LEMMA RefusalsFail == ASSUME NEW why \in Refusals PROVE ~Fine(Refused(why))
<1>1. Refused(why).err \in Refusals
  BY RefusedIs
<1>2. PICK e : e = Refused(why).err
  OBVIOUS
<1>3. e # ""
  BY ONLY <1>1, <1>2, Zenon DEF Refusals
<1> QED
  BY <1>2, <1>3, Zenon DEF Fine

\* What a backend fills when it answers.
Replied(e) == DOMAIN e = {"err", "rows", "total", "has"} /\ (Fine(e) => e.has = Column)
LEMMA ReplyFields == ASSUME NEW e, IsReply(e) PROVE Replied(e)
<1>1. \A rows, total : DOMAIN Answer(rows, total) = {"err", "rows", "total", "has"} /\ Answer(rows, total).has = Column
  BY Zenon DEF Answer
<1>2. CASE \E why \in Refusals : e = Refused(why)
  BY <1>2, RefusedIs, RefusalsFail DEF Replied
<1>3. CASE \E rows, total : e = Answer(rows, total)
  BY <1>1, <1>3 DEF Replied
<1> QED
  BY <1>2, <1>3 DEF IsReply

LEMMA LeanIs ==
  ASSUME NEW e, Replied(e), NEW want, NEW r, r = Lean(e, want), Fine(r)
  PROVE  /\ Fine(e) /\ r.rows = [j \in DOMAIN e.rows |-> Empty(e.rows[j], want)]
         /\ DOMAIN r = {"err", "rows", "total", "has"} /\ r.has = Column \cap want
<1>1. DOMAIN e = {"err", "rows", "total", "has"} /\ (Fine(e) => e.has = Column)
  BY DEF Replied
<1>2. /\ r.err = e.err /\ r.rows = [j \in DOMAIN e.rows |-> Empty(e.rows[j], want)]
      /\ DOMAIN r = {"err", "rows", "total", "has"} /\ r.has = e.has \cap want
  BY <1>1 DEF Lean
<1>3. Fine(e)
  BY <1>2, Zenon DEF Fine
<1> QED
  BY <1>1, <1>2, <1>3

\* One pass of GROUP BY, on any side, gives native's groups.
IsPass(r, set, s, p, f, cap, want) ==
    r = Groups(Lane(set.key, NoLane), Lane(Named(set, s.pays[p]), NoLane), resolve_where(set, s.where), f, cap, want)
LeftOf(r, full, want) ==
    /\ DOMAIN r = {"err", "rows", "total", "has"}
    /\ \/ r.rows = full /\ r.has = Column
       \/ r.rows = [j \in DOMAIN full |-> Empty(full[j], want)] /\ r.has = Column \cap want
LEMMA PassIsGrouped ==
  ASSUME Apart, NEW set, NEW s, NEW n, NEW home, GroupQuery(set, s, n, home), NEW p \in DOMAIN s.pays, NEW f, IsFilter(f),
         NEW cap, NEW want, NEW r, IsPass(r, set, s, p, f, cap, want), Fine(r)
  PROVE  \E full : /\ IsGrouped(full, set.rows, Kept(set.rows, s.where), n, s.pays, p, f)
                   /\ LeftOf(r, full, want)
<1>1. PICK k, x, v, preds, K, table :
        /\ k = Lane(set.key, NoLane) /\ x = Named(set, s.pays[p]) /\ v = Lane(x, NoLane)
        /\ preds = resolve_where(set, s.where) /\ table = set.rows /\ K = Kept(table, s.where)
  OBVIOUS
<1>2. k.col = set.key /\ k.index = NoLane /\ v.col = x /\ v # NoLane
  BY <1>1, NoLaneApart DEF Lane
<1>3. GroupingOver(Lane(SideOf(x), NoLane), table, K, n, s.pays, p, f) /\ x.home = home /\ x # NoLane
  BY <1>1, PassIsOver
<1>4. set.key.home = home /\ home \in Homes
  BY DEF GroupQuery
<1>5. /\ Reads(Lane(SideOf(set.key), NoLane), table, "k", n) /\ Len(set.key.data) = n
      /\ home = "cuda" => KeyColumn(set.key, table, n)
  BY <1>1, KeyIsColumn
<1>6. IF home = "cuda" THEN DeviceMaskIs(preds, K, n) ELSE MaskIs(preds, K, n)
  BY <1>1, QueryMask
<1>7. r = Groups(k, v, preds, f, cap, want)
  BY <1>1 DEF IsPass
<1>8. CASE home = "cuda"
  <2>1. r = DeviceGroups(k, v, preds, f, cap)
    BY <1>2, <1>4, <1>7, <1>8 DEF Groups
  <2>2. Read(v.col) = Lane(SideOf(x), NoLane)
    BY <1>2, <1>3, <1>8 DEF Read, SideOf
  <2>3. GroupingOver(Read(v.col), table, K, n, s.pays, p, f)
    BY <1>3, <2>2
  <2>4. KeyColumn(k.col, table, n) /\ DeviceMaskIs(preds, K, n)
    BY <1>2, <1>5, <1>6, <1>8
  <2>5. Fine(DeviceGroups(k, v, preds, f, cap))
    BY <2>1
  <2>6. IsGrouped(DeviceGroups(k, v, preds, f, cap).rows, table, K, n, s.pays, p, f)
    BY <1>2, <2>3, <2>4, <2>5, DeviceGroupsAreNative
  <2>7. Replied(r)
    BY <2>1, DeviceReplies, ReplyFields
  <2>8. LeftOf(r, r.rows, want)
    BY <2>7 DEF LeftOf, Replied
  <2> QED
    BY <1>1, <2>1, <2>6, <2>8
<1>9. CASE home # "cuda"
  <2>1. PICK e : e = ExactGroups(k, v, preds, f, cap)
    OBVIOUS
  <2>2. r = e \/ r = Lean(e, want)
    BY <1>2, <1>4, <1>7, <1>9, <2>1 DEF Groups, Homes
  <2>3. Replied(e)
    BY <2>1, ExactReplies, ReplyFields
  <2>4. Fine(e) /\ LeftOf(r, e.rows, want)
    BY <2>2, <2>3, LeanIs DEF LeftOf, Replied
  <2>5. SideOf(x) = x /\ SideOf(set.key) = set.key
    BY <1>3, <1>4, <1>9 DEF SideOf
  <2>6. GroupingOver(v, table, K, n, s.pays, p, f) /\ Reads(k, table, "k", n)
    BY <1>1, <1>3, <1>5, <2>5
  <2>7. LaneRows(k) = n /\ MaskIs(preds, K, n)
    BY <1>2, <1>5, <1>6, <1>9 DEF LaneRows
  <2>8. Fine(ExactGroups(k, v, preds, f, cap))
    BY <2>1, <2>4
  <2>9. IsGrouped(e.rows, table, K, n, s.pays, p, f)
    BY <2>1, <2>6, <2>7, <2>8, HostGroupsAreNative
  <2> QED
    BY <1>1, <2>4, <2>9
<1> QED
  BY <1>8, <1>9

\* ---- the rows of a GROUP BY as DuckDB sees them -----------------------------------------------
\* d is the row r, or what a backend leaves of it that was asked for want's columns.
Leaves(d, r, want) == d = r \/ \E asked : Asked(want) \subseteq asked /\ d = Empty(r, asked)
LEMMA RowIsNative ==
  ASSUME Unread \notin Limbs, NEW r, NEW g, NEW p, NEW t, NEW table, NEW S, NEW name, Pictures(r, g, p, t, table, S, name),
         NEW x, r.null = (x = NoCell), x # NoCell => r.key = x,
         NEW want, want \subseteq All, NEW d, Leaves(d, r, want)
  PROVE  /\ "keys" \in want => ShownKey(d) = x /\ d.null = (x = NoCell) /\ (x # NoCell => d.key = x)
         /\ "stars" \in want => d.star = g.stars
         /\ \A w \in Cols(want) : ShownPay(d, Cols(want))[w] = g.pays[p][w]
<1>1. /\ t \in Tuple /\ IsNative(t, table, S, name) /\ r.sum = t.sum /\ r.cnt = t.cnt /\ r.star = t.star
      /\ (t.cnt # 0 => r.mn = t.mn /\ r.mx = t.mx) /\ g.stars = Cardinality(S) /\ g.pays[p] = NativeAggregate(table, S, name)
  BY DEF Pictures
<1>2. PICK a, cols : a = NativeAggregate(table, S, name) /\ cols = Cols(want)
  OBVIOUS
<1>3. /\ t.cnt = a.counts /\ t.star = Cardinality(S)
      /\ IF t.cnt = 0 THEN a.sums = NoCell /\ a.mins = NoCell /\ a.maxs = NoCell
         ELSE a.sums = Number(t.sum) /\ a.mins = t.mn /\ a.maxs = t.mx
  BY <1>1, <1>2 DEF IsNative
<1>4. cols \subseteq {"counts", "sums", "mins", "maxs"} /\ cols \subseteq want
  BY <1>2 DEF Cols, All
<1>5. t.sum # Unread
  BY <1>1 DEF Tuple, Limbs, Word
<1>6. /\ "keys" \in want => d.key = r.key /\ d.null = r.null
      /\ "stars" \in want => d.star = r.star
      /\ cols # {} => d.cnt = r.cnt
      /\ "sums" \in cols => d.sum = r.sum
      /\ "mins" \in cols => d.mn = r.mn
      /\ "maxs" \in cols => d.mx = r.mx
  <2>1. CASE d = r
    BY <2>1
  <2>2. CASE d # r
    <3>1. PICK asked : Asked(want) \subseteq asked /\ d = Empty(r, asked)
      BY <2>2 DEF Leaves
    <3>2. want \subseteq asked /\ (cols # {} => "counts" \in asked)
      BY <1>4, <3>1 DEF Asked
    <3>3. d = Empty(r, asked)
      BY <3>1
    <3>4. /\ "keys" \in asked => d.key = r.key
          /\ d.null = ("keys" \in asked /\ r.null)
          /\ "stars" \in asked => d.star = r.star
          /\ "counts" \in asked => d.cnt = r.cnt
          /\ "sums" \in asked => d.sum = r.sum
          /\ "mins" \in asked => d.mn = r.mn
          /\ "maxs" \in asked => d.mx = r.mx
      BY <3>3 DEF Empty
    <3>5. r.null \in BOOLEAN
      OBVIOUS
    <3> QED
      BY <1>4, <3>2, <3>4, <3>5
  <2> QED
    BY <2>1, <2>2
<1>7. "keys" \in want => ShownKey(d) = x /\ d.null = (x = NoCell) /\ (x # NoCell => d.key = x)
  BY <1>6 DEF ShownKey
<1>8. ASSUME NEW w \in cols PROVE ShownPay(d, cols)[w] = a[w]
  <2>1. ShownPay(d, cols)[w] = IF w = "counts" THEN d.cnt
                               ELSE IF d.cnt = 0 THEN NoCell
                               ELSE CASE w = "sums" -> IF d.sum = Unread THEN Unread ELSE Number(d.sum)
                                      [] w = "mins" -> d.mn
                                      [] w = "maxs" -> d.mx
    BY DEF ShownPay
  <2>2. d.cnt = t.cnt
    BY <1>1, <1>6
  <2>3. CASE w = "counts"
    BY <1>3, <2>1, <2>2, <2>3
  <2>4. CASE w = "sums"
    BY <1>1, <1>3, <1>5, <1>6, <2>1, <2>2, <2>4
  <2>5. CASE w = "mins"
    BY <1>1, <1>3, <1>6, <2>1, <2>2, <2>5
  <2>6. CASE w = "maxs"
    BY <1>1, <1>3, <1>6, <2>1, <2>2, <2>6
  <2> QED
    BY <1>4, <2>3, <2>4, <2>5, <2>6
<1> QED
  BY <1>1, <1>2, <1>3, <1>6, <1>7, <1>8

\* Native's groups of the keys ks[1], ks[2] ..., and rows that show their keys.
GroupsAt(table, K, columns, ks, c) == [i \in 1..c |-> NativeGroup(table, K, columns, ks[i])]
AreKeys(table, K, ks, c) == c \in Nat /\ \A i \in 1..c : ks[i] \in KeysOf(table, K)
ShowKeys(shown, ks, c) == DOMAIN shown = 1..c /\ \A i \in 1..c : shown[i].keys = ks[i]
LEMMA ByTheirKeys ==
  ASSUME NEW table, NEW where, NEW K, K = Kept(table, where), NEW columns, NEW shown, NEW ks, NEW c,
         AreKeys(table, K, ks, c), ShowKeys(shown, ks, c)
  PROVE  /\ \A j \in DOMAIN shown : {g \in NativeGroups(table, where, columns) : g.keys = shown[j].keys} # {}
         /\ [j \in DOMAIN shown |-> CHOOSE g \in NativeGroups(table, where, columns) : g.keys = shown[j].keys]
              = GroupsAt(table, K, columns, ks, c)
<1>1. PICK gs : gs = NativeGroups(table, where, columns)
  OBVIOUS
<1>2. gs = {NativeGroup(table, K, columns, x) : x \in KeysOf(table, K)}
  BY <1>1, NativeGroupsAre
<1>3. \A x : NativeGroup(table, K, columns, x).keys = x
  BY DEF NativeGroup
<1>4. ASSUME NEW j \in 1..c
      PROVE  /\ {g \in gs : g.keys = shown[j].keys} # {}
             /\ (CHOOSE g \in gs : g.keys = shown[j].keys) = NativeGroup(table, K, columns, ks[j])
  <2>1. PICK x, g0 : x = ks[j] /\ g0 = NativeGroup(table, K, columns, x)
    OBVIOUS
  <2>2. x \in KeysOf(table, K) /\ shown[j].keys = x
    BY <2>1 DEF AreKeys, ShowKeys
  <2>3. g0 \in gs /\ g0.keys = x
    BY <1>2, <1>3, <2>1, <2>2
  <2>4. \A g \in gs : g.keys = x => g = g0
    BY <1>2, <1>3, <2>1
  <2>5. (CHOOSE g \in gs : g.keys = x) = g0
    BY <2>3, <2>4
  <2> QED
    BY <2>1, <2>2, <2>3, <2>5
<1> QED
  BY <1>1, <1>4 DEF ShowKeys, GroupsAt

\* What a chosen row holds.
LEMMA ChosenRow ==
  ASSUME NEW table, NEW K, NEW M, NEW n, NEW columns, NEW p, NEW rows, NEW keys, NEW m, NEW f, NEW out, NEW at, NEW c,
         Chosen(table, K, M, n, columns, p, rows, keys, m, f, out, at, c), NEW i \in 1..c,
         NEW x, x = keys[at[i]], NEW r, r = out[i]
  PROVE  /\ c \in Nat /\ IsList(out, c) /\ x \in KeysOf(table, K)
         /\ r.null = (x = NoCell) /\ (x # NoCell => r.key = x)
         /\ Pictures(r, NativeGroup(table, K, columns, x), p, M[OfKey(table, K, x)], table, OfKey(table, K, x), columns[p])
<1>1. /\ GroupsOver(table, K, M, n, columns, p) /\ KeyedList(rows, keys, m, table, K, M)
      /\ FilterIs(out, rows, m, f, at, c)
  BY DEF Chosen
<1>2. c \in Nat /\ IsList(out, c) /\ at[i] \in Survivors(rows, m, f) /\ out[i] = rows[at[i]]
  BY <1>1 DEF FilterIs, IsList
<1>3. at[i] \in 1..m
  BY <1>2 DEF Survivors
<1>4. keys[at[i]] \in KeysOf(table, K) /\ rows[at[i]] = GroupOf(M, table, K, keys[at[i]])
  BY <1>1, <1>3, KeyedAre
<1>5. x \in KeysOf(table, K) /\ r = GroupOf(M, table, K, x)
  BY <1>2, <1>4
<1> QED
  BY <1>1, <1>2, <1>5, RowPictures

LEMMA ChosenLength ==
  ASSUME NEW table, NEW K, NEW M, NEW n, NEW columns, NEW p, NEW rows, NEW keys, NEW m, NEW f, NEW out, NEW at, NEW c,
         Chosen(table, K, M, n, columns, p, rows, keys, m, f, out, at, c)
  PROVE  c \in Nat /\ DOMAIN out = 1..c /\ Len(out) = c
<1>1. IsList(out, c)
  BY DEF Chosen, FilterIs
<1> QED
  BY <1>1 DEF IsList

\* The rows of a pass over payload p are those of native's groups ks[1], ks[2] ...
RowShows(d, g, x, p, want) ==
    /\ "keys" \in want => ShownKey(d) = x /\ d.null = (x = NoCell) /\ (x # NoCell => d.key = x)
    /\ "stars" \in want => d.star = g.stars
    /\ \A w \in Cols(want) : ShownPay(d, Cols(want))[w] = g.pays[p][w]
PassShows(left, ks, c, table, K, columns, p, want) ==
    /\ IsList(left, c) /\ AreKeys(table, K, ks, c)
    /\ \A i \in 1..c : RowShows(left[i], NativeGroup(table, K, columns, ks[i]), ks[i], p, want)
\* Without a filter they are all the groups, in the order of their keys.
Everyone(ks, c, D) ==
    /\ c \in Nat /\ \A i \in 1..c : ks[i] \in D
    /\ \A x \in D : \E i \in 1..c : ks[i] = x
    /\ \A i, j \in 1..c : i < j => KeyAscending(ks[i], ks[j])
PassGives(r, ks, c, table, K, where, columns, p, f, want) ==
    /\ PassShows(r.rows, ks, c, table, K, columns, p, want)
    /\ IsAnswer(GroupsAt(table, K, columns, ks, c), NativeGroups(table, where, columns), f, p)
    /\ ~Active(f) => Everyone(ks, c, KeysOf(table, K))

LEMMA ChosenShows ==
  ASSUME Unread \notin Limbs,
         NEW table, NEW K, NEW M, NEW n, NEW columns, NEW p, NEW rows, NEW keys, NEW m, NEW f, NEW out, NEW at, NEW c,
         Chosen(table, K, M, n, columns, p, rows, keys, m, f, out, at, c),
         NEW want, want \subseteq All, NEW left, IsList(left, c), \A j \in 1..c : Leaves(left[j], out[j], want),
         NEW ks, \A j \in 1..c : ks[j] = keys[at[j]]
  PROVE  PassShows(left, ks, c, table, K, columns, p, want)
<1>1. c \in Nat /\ DOMAIN out = 1..c
  BY ChosenLength
<1>2. ASSUME NEW i \in 1..c
      PROVE  ks[i] \in KeysOf(table, K) /\ RowShows(left[i], NativeGroup(table, K, columns, ks[i]), ks[i], p, want)
  <2>1. PICK x, r, d, g : x = keys[at[i]] /\ r = out[i] /\ d = left[i] /\ g = NativeGroup(table, K, columns, x)
    OBVIOUS
  <2>2. /\ x \in KeysOf(table, K) /\ r.null = (x = NoCell) /\ (x # NoCell => r.key = x)
        /\ Pictures(r, g, p, M[OfKey(table, K, x)], table, OfKey(table, K, x), columns[p])
    BY <2>1, ChosenRow
  <2>3. Leaves(d, r, want)
    BY <2>1
  <2>4. /\ "keys" \in want => ShownKey(d) = x /\ d.null = (x = NoCell) /\ (x # NoCell => d.key = x)
        /\ "stars" \in want => d.star = g.stars
        /\ \A w \in Cols(want) : ShownPay(d, Cols(want))[w] = g.pays[p][w]
    BY <2>2, <2>3, RowIsNative
  <2>5. RowShows(d, g, x, p, want)
    BY <2>4 DEF RowShows
  <2>6. ks[i] = x
    BY <2>1
  <2> QED
    BY <2>1, <2>2, <2>5, <2>6
<1> QED
  BY <1>1, <1>2 DEF PassShows, AreKeys

LEMMA ChosenEveryone ==
  ASSUME NEW table, NEW K, NEW M, NEW n, NEW columns, NEW p, NEW rows, NEW keys, NEW m, NEW f, NEW out, NEW at, NEW c,
         Chosen(table, K, M, n, columns, p, rows, keys, m, f, out, at, c), ~Active(f),
         NEW ks, \A j \in 1..c : ks[j] = keys[at[j]]
  PROVE  Everyone(ks, c, KeysOf(table, K))
<1>1. /\ KeyedList(rows, keys, m, table, K, M) /\ FilterIs(out, rows, m, f, at, c)
      /\ f.topk = 0 /\ f.cmp = "None"
  BY DEF Chosen, Active
<1>2. Survivors(rows, m, f) = 1..m
  BY <1>1 DEF Survivors, Keeps
<1>3. /\ m \in Nat /\ \A j \in 1..m : keys[j] \in KeysOf(table, K)
      /\ \A x \in KeysOf(table, K) : \E j \in 1..m : keys[j] = x
      /\ \A i, j \in 1..m : i < j => KeyAscending(keys[i], keys[j])
  BY <1>1, KeyedAre
<1>4. /\ c \in Nat /\ \A i \in 1..c : at[i] \in 1..m
      /\ \A i, j \in 1..c : i < j => at[i] < at[j]
      /\ \A g \in 1..m : \E i \in 1..c : at[i] = g
  BY <1>1, <1>2, ChosenLength DEF FilterIs
<1>5. \A x \in KeysOf(table, K) : \E i \in 1..c : ks[i] = x
  BY <1>3, <1>4
<1> QED
  BY <1>3, <1>4, <1>5 DEF Everyone

\* One pass, however much of it the backend fills.
LEMMA PassRows ==
  ASSUME Apart, Unread \notin Limbs, NEW set, NEW s, NEW n, NEW home, GroupQuery(set, s, n, home),
         NEW p \in DOMAIN s.pays, NEW f, IsFilter(f), NEW cap, NEW asked, NEW r, IsPass(r, set, s, p, f, cap, asked), Fine(r),
         NEW want, want \subseteq All, Asked(want) \subseteq asked,
         NEW table, table = set.rows, NEW where, where = s.where, NEW columns, columns = s.pays
  PROVE  \E ks, c : PassGives(r, ks, c, table, Kept(table, where), where, columns, p, f, want)
<1>1. PICK K : K = Kept(table, where)
  OBVIOUS
<1>2. PICK full : IsGrouped(full, table, K, n, columns, p, f) /\ LeftOf(r, full, asked)
  <2>1. \E full : IsGrouped(full, set.rows, Kept(set.rows, s.where), n, s.pays, p, f) /\ LeftOf(r, full, asked)
    BY PassIsGrouped
  <2> QED
    BY <1>1, <2>1
<1>3. PICK M, rows, keys, m, at, c : Chosen(table, K, M, n, columns, p, rows, keys, m, f, full, at, c)
  BY <1>2 DEF IsGrouped
<1>4. IsList(full, c)
  BY <1>3 DEF Chosen, FilterIs
<1>5. PICK left : left = r.rows
  OBVIOUS
<1>6. c \in Nat /\ DOMAIN full = 1..c
  BY <1>4 DEF IsList
<1>7. IsList(left, c) /\ \A j \in 1..c : Leaves(left[j], full[j], want)
  <2>1. CASE r.rows = full
    BY <1>4, <1>5, <2>1 DEF Leaves
  <2>2. CASE r.rows # full
    <3>1. left = [j \in 1..c |-> Empty(full[j], asked)]
      BY <1>2, <1>5, <1>6, <2>2 DEF LeftOf
    <3>2. IsList(left, c)
      BY <1>6, <3>1 DEF IsList
    <3>3. \A j \in 1..c : left[j] = Empty(full[j], asked)
      BY <3>1
    <3> QED
      BY <3>2, <3>3 DEF Leaves
  <2> QED
    BY <2>1, <2>2
<1>8. PICK ks : ks = [j \in 1..c |-> keys[at[j]]]
  OBVIOUS
<1>9. \A j \in 1..c : ks[j] = keys[at[j]]
  BY <1>8
<1>10. PassShows(left, ks, c, table, K, columns, p, want)
  BY <1>3, <1>7, <1>9, ChosenShows
<1>11. ~Active(f) => Everyone(ks, c, KeysOf(table, K))
  BY <1>3, <1>9, ChosenEveryone
<1>12. IsAnswer(GroupsAt(table, K, columns, ks, c), NativeGroups(table, where, columns), f, p)
  <2>1. IsAnswer(NativeAnswer(table, K, columns, keys, at, c), NativeGroups(table, where, columns), f, p)
    BY <1>1, <1>3, ChosenIsAnswer
  <2>2. NativeAnswer(table, K, columns, keys, at, c) = GroupsAt(table, K, columns, ks, c)
    BY ONLY <1>9 DEF NativeAnswer, GroupsAt
  <2> QED
    BY <2>1, <2>2
<1>13. PassGives(r, ks, c, table, K, where, columns, p, f, want)
  BY <1>5, <1>10, <1>11, <1>12 DEF PassGives
<1> QED
  BY <1>1, <1>13

\* A pass fills the vectors that were asked for.
FilledFor(r, want) == {"rows", "has"} \subseteq DOMAIN r /\ want \subseteq r.has
LEMMA PassFills ==
  ASSUME Apart, Unread \notin Limbs, NEW set, NEW s, NEW n, NEW home, GroupQuery(set, s, n, home),
         NEW p \in DOMAIN s.pays, NEW f, IsFilter(f), NEW cap, NEW asked, NEW r, IsPass(r, set, s, p, f, cap, asked), Fine(r),
         NEW want, want \subseteq All, Asked(want) \subseteq asked
  PROVE  FilledFor(r, want)
<1>1. PICK full : LeftOf(r, full, asked)
  BY PassIsGrouped
<1>2. want \subseteq Column /\ want \subseteq asked
  BY DEF All, Column, Asked
<1> QED
  BY <1>1, <1>2 DEF LeftOf, FilledFor

LEMMA LengthIs ==
  ASSUME NEW r, NEW c, IsList(r.rows, c) PROVE Length(r) \in {0, c} /\ (r.has # {} => Length(r) = c)
<1>1. Len(r.rows) = c
  BY DEF IsList
<1> QED
  BY <1>1 DEF Length

\* The rows the table function makes of an answer.
ShownRow(r, want) ==
    [keys |-> IF "keys" \in want THEN ShownKey(r) ELSE Unread, stars |-> IF "stars" \in want THEN r.star ELSE Unread,
     pays |-> <<ShownPay(r, Cols(want))>>]
LEMMA RowsReply ==
  ASSUME NEW r, NEW want
  PROVE  /\ gx_function(r, want).err = r.err
         /\ gx_function(r, want).rows = [j \in 1..Length(r) |-> ShownRow(r.rows[j], want)]
BY DEF gx_function, Reply, ShownRow

LEMMA ShownRowIs ==
  ASSUME NEW r, NEW want
  PROVE  /\ "keys" \in want => ShownRow(r, want).keys = ShownKey(r)
         /\ "stars" \in want => ShownRow(r, want).stars = r.star
         /\ ShownRow(r, want).pays[1] = ShownPay(r, Cols(want))
BY DEF ShownRow

LEMMA SameIs ==
  ASSUME NEW shown, NEW table, NEW s, NEW columns, NEW wants, NEW where, where = s.where, NEW ans,
         \A j \in DOMAIN shown : {g \in NativeGroups(table, where, columns) : g.keys = shown[j].keys} # {},
         [j \in DOMAIN shown |-> CHOOSE g \in NativeGroups(table, where, columns) : g.keys = shown[j].keys] = ans,
         IsAnswer(ans, NativeGroups(table, where, columns), s.f, s.primary),
         \A j \in DOMAIN ans :
            /\ "stars" \in s.want => shown[j].stars = ans[j].stars
            /\ \A p \in DOMAIN columns : \A w \in wants[p] : shown[j].pays[p][w] = ans[j].pays[p][w]
  PROVE  SameAs(shown, table, s, columns, wants)
<1> DEFINE gs == NativeGroups(table, s.where, columns)
           answer == [j \in DOMAIN shown |-> CHOOSE g \in gs : g.keys = shown[j].keys]
<1>1. answer = ans
  OBVIOUS
<1>2. \A j \in DOMAIN shown : {g \in gs : g.keys = shown[j].keys} # {}
  OBVIOUS
<1>3. IsAnswer(ans, gs, s.f, s.primary)
  OBVIOUS
<1>4. /\ IsAnswer(answer, gs, s.f, s.primary)
      /\ \A j \in DOMAIN answer :
            /\ "stars" \in s.want => shown[j].stars = answer[j].stars
            /\ \A p \in DOMAIN columns : \A w \in wants[p] : shown[j].pays[p][w] = answer[j].pays[p][w]
  <2> HIDE DEF answer, gs
  <2> QED
    BY <1>1, <1>3
<1> QED
  BY ONLY <1>2, <1>4 DEF SameAs

\* GROUP BY over a shown set hands out native's groups.
LEMMA GroupAnswers ==
  ASSUME Apart, Unread \notin Limbs, NEW set, NEW s, NEW n, NEW home, GroupQuery(set, s, n, home),
         s.pays = <<"v">>, s.primary = 1, IsFilter(s.f), s.want \subseteq All, "keys" \in s.want, NEW r,
         r = Groups(Lane(set.key, NoLane), Lane(set.val, NoLane), resolve_where(set, s.where), s.f, s.cap, Asked(s.want)),
         Fine(r), NEW a, a = gx_function(r, s.want)
  PROVE  SameAs(a.rows, set.rows, s, <<"v">>, <<Cols(s.want)>>) /\ IsRows(a.rows)
<1>1. PICK f, want, asked, table, where, K, columns, wants, p, cap :
        /\ f = s.f /\ want = s.want /\ asked = Asked(want) /\ table = set.rows /\ where = s.where /\ K = Kept(table, where)
        /\ columns = s.pays /\ wants = <<Cols(want)>> /\ p = 1 /\ cap = s.cap
  OBVIOUS
<1>2. p \in DOMAIN s.pays /\ Named(set, s.pays[p]) = set.val
  <2>1. s.pays[1] = "v" /\ 1 \in DOMAIN s.pays
    OBVIOUS
  <2> QED
    BY <1>1, <2>1 DEF Named
<1>3. IsPass(r, set, s, p, f, cap, asked)
  BY <1>1, <1>2 DEF IsPass
<1>4. PICK ks, c : PassGives(r, ks, c, table, K, where, columns, p, f, want)
  <2>1. IsFilter(f) /\ want \subseteq All /\ Asked(want) \subseteq asked
    BY <1>1
  <2>2. table = set.rows /\ where = s.where /\ columns = s.pays /\ K = Kept(table, where)
    BY <1>1
  <2>3. Apart /\ Unread \notin Limbs /\ GroupQuery(set, s, n, home) /\ Fine(r)
    OBVIOUS
  <2> QED
    BY ONLY <1>2, <1>3, <2>1, <2>2, <2>3, PassRows
<1>5. PICK left : left = r.rows
  OBVIOUS
<1>6. /\ IsList(left, c) /\ AreKeys(table, K, ks, c)
      /\ \A i \in 1..c : RowShows(left[i], NativeGroup(table, K, columns, ks[i]), ks[i], p, want)
      /\ IsAnswer(GroupsAt(table, K, columns, ks, c), NativeGroups(table, where, columns), f, p)
  BY <1>4, <1>5 DEF PassGives, PassShows
<1>7. c \in Nat /\ DOMAIN left = 1..c
  BY <1>6 DEF IsList
<1>8. PICK shown : shown = a.rows
  OBVIOUS
<1>9. shown = [j \in 1..c |-> ShownRow(left[j], want)]
  <2>1. Asked(want) \subseteq asked /\ want \subseteq All /\ "keys" \in want /\ IsFilter(f)
    BY <1>1
  <2>2. FilledFor(r, want)
    BY ONLY <1>2, <1>3, <2>1, PassFills, Apart, Unread \notin Limbs, GroupQuery(set, s, n, home), Fine(r)
  <2>3. Length(r) = c
    <3>1. r.has # {}
      BY <2>1, <2>2 DEF FilledFor
    <3> QED
      BY <1>5, <1>6, <3>1, LengthIs
  <2> QED
    BY <1>1, <1>5, <1>8, <2>3, RowsReply
<1>10. ASSUME NEW i \in 1..c, NEW g, g = NativeGroup(table, K, columns, ks[i])
       PROVE  /\ shown[i].keys = ks[i] /\ ("stars" \in want => shown[i].stars = g.stars)
              /\ \A w \in Cols(want) : shown[i].pays[1][w] = g.pays[1][w]
  <2>1. RowShows(left[i], g, ks[i], p, want) /\ "keys" \in want /\ p = 1
    BY <1>1, <1>6, <1>10
  <2>2. PICK d : d = left[i] /\ shown[i] = ShownRow(d, want)
    BY <1>9
  <2>3. /\ shown[i].keys = ShownKey(d) /\ ("stars" \in want => shown[i].stars = d.star)
        /\ shown[i].pays[1] = ShownPay(d, Cols(want))
    BY <2>1, <2>2, ShownRowIs
  <2> QED
    BY <2>1, <2>2, <2>3 DEF RowShows
<1>11. ShowKeys(shown, ks, c)
  BY <1>9, <1>10 DEF ShowKeys
<1>12. PICK ans : ans = GroupsAt(table, K, columns, ks, c)
  OBVIOUS
<1>13. /\ \A j \in DOMAIN shown : {g \in NativeGroups(table, where, columns) : g.keys = shown[j].keys} # {}
       /\ [j \in DOMAIN shown |-> CHOOSE g \in NativeGroups(table, where, columns) : g.keys = shown[j].keys] = ans
  <2>1. K = Kept(table, where)
    BY <1>1
  <2> QED
    BY ONLY <1>6, <1>11, <1>12, <2>1, ByTheirKeys
<1>14. DOMAIN ans = 1..c /\ \A i \in 1..c : ans[i] = NativeGroup(table, K, columns, ks[i])
  BY <1>12 DEF GroupsAt
<1>15. \A j \in DOMAIN ans :
          /\ "stars" \in want => shown[j].stars = ans[j].stars
          /\ \A q \in DOMAIN columns : \A w \in wants[q] : shown[j].pays[q][w] = ans[j].pays[q][w]
  <2>1. DOMAIN columns = {1} /\ wants[1] = Cols(want)
    BY <1>1
  <2> QED
    BY ONLY <1>10, <1>14, <2>1
<1>16. SameAs(shown, table, s, columns, wants)
  <2>1. where = s.where /\ want = s.want /\ f = s.f /\ p = s.primary
    BY <1>1
  <2>2. IsAnswer(ans, NativeGroups(table, where, columns), s.f, s.primary)
    BY ONLY <1>6, <1>12, <2>1
  <2>3. \A j \in DOMAIN ans :
           /\ "stars" \in s.want => shown[j].stars = ans[j].stars
           /\ \A q \in DOMAIN columns : \A w \in wants[q] : shown[j].pays[q][w] = ans[j].pays[q][w]
    BY ONLY <1>15, <2>1
  <2> QED
    BY ONLY <1>13, <2>1, <2>2, <2>3, SameIs
<1>17. IsRows(shown)
  BY <1>7, <1>9 DEF IsRows
<1> QED
  BY <1>1, <1>8, <1>16, <1>17

\* A statement's sets are on the planner's side from their acquisition to the last chunk.
HeldInv ==
    \A c \in Callers : pc[c] \in {"ready", "inside", "ran", "emit"} =>
        \A j \in DOMAIN Stmt(c).from : SetOn(held[c][j], Side(gpu))

LEMMA HeldStep ==
  ASSUME HeldInv, gpu' = gpu, NEW c \in Callers, OthersOwn(c),
         pc'[c] \in {"ready", "inside", "ran", "emit"} =>
            \A j \in DOMAIN Stmt(c)'.from : SetOn(held'[c][j], Side(gpu))
  PROVE  HeldInv'
<1>1. ASSUME NEW d \in Callers \ {c}, pc'[d] \in {"ready", "inside", "ran", "emit"}, NEW j \in DOMAIN Stmt(d)'.from
      PROVE  SetOn(held'[d][j], Side(gpu))
  <2>1. pc'[d] = pc[d] /\ held'[d] = held[d] /\ Stmt(d)' = Stmt(d)
    BY DEF OthersOwn, Stmt
  <2> QED
    BY <1>1, <2>1 DEF HeldInv
<1> QED
  BY <1>1 DEF HeldInv

LEMMA HeldByStep ==
  ASSUME SideInv, CallTypes, HeldInv, NEW c \in Callers, Step(c)
  PROVE  HeldInv'
<1>1. gpu' = gpu
  BY DEF Step, Bind, Acquire, Enter, Upload, Run, Leave, Emit, Finish
<1>2. OthersOwn(c)
  <2>1. \A d \in Callers \ {c} : pc'[d] = pc[d] /\ todo'[d] = todo[d] /\ res'[d] = res[d]
    BY DEF Step, Bind, Acquire, Enter, Upload, Run, Leave, Emit, Finish, Fails, CallTypes
  <2>2. \A d \in Callers \ {c} : held'[d] = held[d]
    <3>1. held = [d \in Callers |-> held[d]]
      BY DEF SideInv
    <3> QED
      BY <3>1 DEF Step, Bind, Acquire, Enter, Upload, Run, Leave, Emit, Finish, Fails
  <2> QED
    BY <2>1, <2>2 DEF OthersOwn
<1>3. CASE Acquire(c) /\ ~Fails(c)
  <2> DEFINE h == [j \in DOMAIN Stmt(c).from |-> sets[Stmt(c).from[j]]]
  <2>1. /\ pc[c] = "bound" /\ (\A j \in DOMAIN h : h[j] # NoSet)
        /\ held' = [held EXCEPT ![c] = h] /\ UNCHANGED todo
    BY <1>3 DEF Acquire
  <2>2. Stmt(c)' = Stmt(c) /\ Stmt(c) \in Statements
    BY <2>1, StmtKnown DEF Stmt
  <2>3. held'[c] = h
    <3>1. held = [d \in Callers |-> held[d]]
      BY DEF SideInv
    <3> HIDE DEF h
    <3> QED
      BY <2>1, <3>1
  <2>4. ASSUME NEW j \in DOMAIN Stmt(c).from PROVE SetOn(held'[c][j], Side(gpu))
    <3>1. held'[c][j] = sets[Stmt(c).from[j]] /\ sets[Stmt(c).from[j]] # NoSet
      BY <2>1, <2>3
    <3>2. Stmt(c).from[j] \in Names
      BY <2>2, TableAssumption DEF Programs
    <3> QED
      BY <3>1, <3>2 DEF SideInv
  <2> QED
    BY <1>1, <1>2, <2>2, <2>4, HeldStep
<1>4. CASE ~(Acquire(c) /\ ~Fails(c))
  <2>1. pc'[c] \in {"idle", "bound"} \/ (pc[c] \in {"ready", "inside", "ran", "emit"} /\ UNCHANGED <<todo, held>>)
    <3>1. CASE Fails(c)
      BY <3>1 DEF Fails, CallTypes
    <3>2. CASE ~Fails(c)
      <4>1. CASE Bind(c)
        BY <3>2, <4>1 DEF Bind, CallTypes
      <4>2. CASE Finish(c)
        BY <4>2 DEF Finish, CallTypes
      <4>3. CASE Enter(c) \/ Upload(c) \/ Leave(c) \/ Emit(c)
        BY <3>2, <4>3 DEF Enter, Upload, Leave, Emit
      <4>4. CASE Run(c)
        <5>1. pc[c] = "inside" /\ UNCHANGED <<todo, held>>
          BY <3>2, <4>4, Zenon DEF Run
        <5> QED
          BY <5>1
      <4> QED
        BY <1>4, <3>2, <4>1, <4>2, <4>3, <4>4 DEF Step
    <3> QED
      BY <3>1, <3>2
  <2>2. ASSUME pc'[c] \in {"ready", "inside", "ran", "emit"}, NEW j \in DOMAIN Stmt(c)'.from
        PROVE  SetOn(held'[c][j], Side(gpu))
    <3>1. pc[c] \in {"ready", "inside", "ran", "emit"} /\ held' = held /\ Stmt(c)' = Stmt(c)
      BY <2>1, <2>2 DEF Stmt
    <3> QED
      BY <2>2, <3>1 DEF HeldInv
  <2> QED
    BY <1>1, <1>2, <2>2, HeldStep
<1> QED
  BY <1>3, <1>4

LEMMA HeldSound == ASSUME Instantiated PROVE Spec => []HeldInv
<1>1. Init => HeldInv
  BY DEF Init, HeldInv
<1>2. CallInv /\ SideInv /\ HeldInv /\ [Next]_vars => HeldInv'
  <2> SUFFICES ASSUME CallTypes, SideInv, HeldInv, [Next]_vars PROVE HeldInv'
    BY DEF CallInv
  <2>1. CASE UNCHANGED vars \/ Done
    BY <2>1 DEF HeldInv, Done, vars, Stmt
  <2>2. ASSUME NEW c \in Callers, Step(c) PROVE HeldInv'
    BY <2>2, HeldByStep
  <2> QED
    BY <2>1, <2>2 DEF Next
<1> QED
  BY <1>1, <1>2, CallSound, SidesSound, PTL DEF Spec

\* What a GROUP BY that was let through reads.
LEMMA GroupTakes ==
  ASSUME NEW s, s.op \in {"groups", "multi"}, Grouping(s), IsRows(s.pays), \A p \in DOMAIN s.pays : s.pays[p] \in Lanes,
         NEW h, Takes(s, h), ~TwoSided(s, h), s.from[1] \notin Outputs,
         NEW g0 \in Sides, \A j \in DOMAIN s.from : SetOn(h[j], Side(g0))
  PROVE  \E n, home : GroupQuery(h[1], s, n, home)
<1>1. 1 \in DOMAIN s.from /\ Wheres(s.where)
  BY DEF Grouping
<1>2. ShownSet(h[1])
  BY <1>1 DEF Takes
<1>3. where_ok(s, h[1])
  BY DEF Takes, Checked, gx_ok, gm_ok
<1>4. h[1].exact
  BY <1>3 DEF where_ok
<1>5. Query(h[1], s)
  BY <1>1, <1>2, <1>4 DEF Query
<1>6. Columns(s, h) = {h[1].key} \cup {Named(h[1], l) : l \in Reads0(s)}
  BY DEF Columns, Reads0
<1>7. OneSide(Columns(s, h))
  BY DEF TwoSided
<1>8. OnHome(h[1], s, h[1].key.home)
  BY <1>6, <1>7 DEF OneSide, OnHome
<1>9. h[1].key.home \in Homes
  <2>1. IsOn(h[1].key, Side(g0))
    BY <1>1, <1>4 DEF SetOn
  <2> QED
    BY <2>1 DEF IsOn, Side, Sides, Homes
<1>10. PICK n : n \in Nat /\ n <= W /\ DOMAIN h[1].rows = 1..n
  BY <1>2 DEF ShownSet, IsTable, IsRows
<1>11. GroupQuery(h[1], s, n, h[1].key.home)
  BY <1>5, <1>8, <1>9, <1>10 DEF GroupQuery
<1> QED
  BY <1>11

LEMMA GroupAnswered ==
  ASSUME NEW g0, NEW s, s.op = "groups", NEW h, NEW a \in Answers(g0, s, h)
  PROVE  a = gx_function(Groups(Lane(h[1].key, NoLane), Lane(h[1].val, NoLane), resolve_where(h[1], s.where), s.f, s.cap,
                                Asked(s.want)), s.want)
<1>1. Answers(g0, s, h) = {Answered(s, h, n) : n \in Words(s, h)}
  BY DEF Answers
<1>2. PICK n : a = Answered(s, h, n)
  BY <1>1
<1> QED
  BY <1>2 DEF Answered

\* On every side, for any table, WHERE program, HAVING and top-k, the rows a GROUP BY
\* over a set an upload left hands out are native's groups.
THEOREM GroupingsAreNative ==
  ASSUME Instantiated, Apart, Unread \notin Limbs, (\A s : BindFn(s) <=> BindOk(s)),
         \A s, h : RejectFn(s, h) <=> TwoSided(s, h)
  PROVE  Spec => []GroupsAreNative
<1>1. ASSUME ShownInv, \A c \in Callers : WholeAnswer(c) /\ (pc[c] = "emit" => HasAnswer(c)), SideInv, HeldInv, BoundInv
      PROVE  GroupsAreNative
  <2> SUFFICES ASSUME NEW c \in Callers, pc[c] = "emit", Len(sent[c]) >= Len(res[c].rows), Stmt(c).op = "groups",
                      Stmt(c).from[1] \notin Outputs
               PROVE  SameAs(sent[c], held[c][1].rows, Stmt(c), <<"v">>, <<Cols(Stmt(c).want)>>)
    BY DEF GroupsAreNative, Same, Answering, Table, OfJoin
  <2>1. PICK s, h : s = Stmt(c) /\ h = held[c]
    OBVIOUS
  <2>2. s \in Statements
    BY <1>1, <2>1, StmtKnown
  <2>3. Groupings(s) /\ BindOk(s)
    <3>1. BindFn(s)
      BY <1>1, <2>1 DEF BoundInv
    <3> QED
      BY <2>1, <2>2, <3>1, TableAssumption DEF Programs
  <2>4. Takes(s, h)
    BY <1>1, <2>1 DEF ShownInv
  <2>5. ~TwoSided(s, h)
    BY <1>1, <2>1 DEF HasAnswer
  <2>6. PICK a \in RunFn(gpu, s, h) : a.err = "" /\ res[c].rows = a.rows
    BY <1>1, <2>1 DEF HasAnswer
  <2>7. a \in Answers(gpu, s, h)
    BY <2>1, <2>6 DEF Instantiated
  <2>8. PICK r : r = Groups(Lane(h[1].key, NoLane), Lane(h[1].val, NoLane), resolve_where(h[1], s.where), s.f, s.cap,
                            Asked(s.want))
    OBVIOUS
  <2>9. a = gx_function(r, s.want)
    BY <2>1, <2>7, <2>8, GroupAnswered
  <2>10. Fine(r)
    <3>1. a.err = r.err
      BY <2>9, RowsReply
    <3> QED
      BY <2>6, <3>1, Zenon DEF Fine
  <2>11. PICK n, home : GroupQuery(h[1], s, n, home)
    <3>1. gpu \in Sides /\ \A j \in DOMAIN s.from : SetOn(h[j], Side(gpu))
      BY <1>1, <2>1 DEF SideInv, HeldInv
    <3>2. Grouping(s) /\ IsRows(s.pays) /\ \A p \in DOMAIN s.pays : s.pays[p] \in Lanes
      BY <2>3 DEF Groupings, IsRows, Lanes
    <3> QED
      BY <2>1, <2>4, <2>5, <3>1, <3>2, GroupTakes
  <2>12. s.pays = <<"v">> /\ s.primary = 1 /\ IsFilter(s.f) /\ s.want \subseteq All /\ "keys" \in s.want
    BY <2>3 DEF Groupings, Grouping
  <2>13. SameAs(a.rows, h[1].rows, s, <<"v">>, <<Cols(s.want)>>) /\ IsRows(a.rows)
    <3>1. PICK set : set = h[1]
      OBVIOUS
    <3>2. /\ GroupQuery(set, s, n, home)
          /\ r = Groups(Lane(set.key, NoLane), Lane(set.val, NoLane), resolve_where(set, s.where), s.f, s.cap, Asked(s.want))
      BY ONLY <2>8, <2>11, <3>1
    <3>3. Apart /\ Unread \notin Limbs
      OBVIOUS
    <3>4. SameAs(a.rows, set.rows, s, <<"v">>, <<Cols(s.want)>>) /\ IsRows(a.rows)
      BY ONLY <2>9, <2>10, <2>12, <3>2, <3>3, GroupAnswers
    <3> QED
      BY ONLY <3>1, <3>4
  <2>14. res[c].rows = a.rows
    BY <2>6, Zenon
  <2>15. sent[c] = a.rows
    BY <1>1, <2>13, <2>14 DEF WholeAnswer
  <2> QED
    BY <2>1, <2>13, <2>15
<1> QED
  BY <1>1, SetsAreShown, SidesSound, HeldSound, OnlyBoundRun, WholeAnswers, PTL

\* ---- several payloads in one call -----------------------------------------------------------
\* Positions that grow are no smaller than their number.
Climbs(g, m, n) == /\ m \in Nat /\ n \in Nat /\ \A i \in 1..m : g[i] \in 1..n
                   /\ \A i, j \in 1..m : i < j => g[i] < g[j]
LEMMA ClimbsPast == ASSUME NEW g, NEW m, NEW n, Climbs(g, m, n) PROVE \A i \in 1..m : g[i] >= i
<1> DEFINE P == {k \in 0..m : k = 0 \/ g[k] >= k}
<1> m \in Nat /\ n \in Nat /\ (\A i \in 1..m : g[i] \in 1..n) /\ \A i, j \in 1..m : i < j => g[i] < g[j]
  BY DEF Climbs
<1>1. 0 \in P
  OBVIOUS
<1>2. ASSUME NEW k \in 1..m, k - 1 \in P PROVE k \in P
  <2>1. CASE k = 1
    <3>1. g[k] \in 1..n
      OBVIOUS
    <3> QED
      BY <2>1, <3>1
  <2>2. CASE k # 1
    <3>1. k - 1 \in 1..m /\ g[k - 1] >= k - 1
      BY <1>2, <2>2
    <3>2. g[k - 1] < g[k] /\ g[k] \in Int /\ g[k - 1] \in Int
      BY <3>1
    <3> QED
      BY <3>1, <3>2
  <2> QED
    BY <2>1, <2>2
<1>3. \A k \in 0..m : k \in P
  <2> HIDE DEF P
  <2> QED
    BY <1>1, <1>2, CountUp
<1> QED
  BY <1>3

\* Two ascending lists of the same keys are one.
KeyCells(D) == \A x \in D : IsKeyCell(x)
PlacedAt(g, ks, us, c, b) == Climbs(g, c, b) /\ \A i \in 1..c : us[g[i]] = ks[i]
LEMMA KeysAt ==
  ASSUME NEW D, KeyCells(D), NEW ks, NEW c, Everyone(ks, c, D), NEW us, NEW b, Everyone(us, b, D)
  PROVE  \E g : PlacedAt(g, ks, us, c, b)
<1>1. /\ c \in Nat /\ (\A i \in 1..c : ks[i] \in D) /\ \A i, j \in 1..c : i < j => KeyAscending(ks[i], ks[j])
      /\ b \in Nat /\ (\A i \in 1..b : us[i] \in D) /\ \A i, j \in 1..b : i < j => KeyAscending(us[i], us[j])
      /\ (\A x \in D : \E i \in 1..b : us[i] = x) /\ \A x \in D : IsKeyCell(x)
  BY DEF Everyone, KeyCells
<1>2. PICK g : g = [i \in 1..c |-> CHOOSE j \in 1..b : us[j] = ks[i]]
  OBVIOUS
<1>3. ASSUME NEW i \in 1..c PROVE g[i] \in 1..b /\ us[g[i]] = ks[i]
  <2>1. g[i] = CHOOSE j \in 1..b : us[j] = ks[i]
    BY <1>2
  <2>2. \E j \in 1..b : us[j] = ks[i]
    BY <1>1
  <2> QED
    BY <2>1, <2>2
<1>4. ASSUME NEW i \in 1..c, NEW j \in 1..c, i < j PROVE g[i] < g[j]
  <2>1. PICK x, y : x = ks[i] /\ y = ks[j]
    OBVIOUS
  <2>2. KeyAscending(x, y) /\ IsKeyCell(x) /\ IsKeyCell(y)
    BY <1>1, <1>4, <2>1
  <2>3. ~KeyAscending(y, x) /\ x # y
    BY <2>2, AscendingIsStrict
  <2>4. g[i] \in 1..b /\ g[j] \in 1..b /\ us[g[i]] = x /\ us[g[j]] = y
    BY <1>3, <2>1
  <2>5. g[i] # g[j] /\ ~(g[j] < g[i])
    BY <1>1, <2>3, <2>4
  <2>6. PICK q, r : q = g[i] /\ r = g[j]
    OBVIOUS
  <2>7. q \in Int /\ r \in Int /\ q # r /\ ~(r < q)
    BY <1>1, <2>4, <2>5, <2>6
  <2> QED
    BY ONLY <2>6, <2>7
<1> QED
  BY <1>1, <1>3, <1>4 DEF Climbs, PlacedAt

LEMMA SameKeys ==
  ASSUME NEW D, KeyCells(D), NEW ks, NEW c, Everyone(ks, c, D), NEW us, NEW b, Everyone(us, b, D)
  PROVE  c = b /\ \A i \in 1..c : us[i] = ks[i]
<1>1. PICK g : PlacedAt(g, ks, us, c, b)
  BY KeysAt
<1>2. PICK h : PlacedAt(h, us, ks, b, c)
  BY KeysAt
<1>3. c \in Nat /\ b \in Nat /\ (\A i \in 1..c : g[i] \in 1..b /\ g[i] >= i) /\ (\A i \in 1..b : h[i] \in 1..c /\ h[i] >= i)
  BY <1>1, <1>2, ClimbsPast DEF Climbs, PlacedAt
<1>4. c = b
  <2>1. ASSUME c > b PROVE FALSE
    <3>1. c \in 1..c
      BY <1>3, <2>1
    <3>2. g[c] \in 1..b /\ g[c] >= c
      BY <1>3, <3>1
    <3> QED
      BY <1>3, <2>1, <3>2
  <2>2. ASSUME b > c PROVE FALSE
    <3>1. b \in 1..b
      BY <1>3, <2>2
    <3>2. h[b] \in 1..c /\ h[b] >= b
      BY <1>3, <3>1
    <3> QED
      BY <1>3, <2>2, <3>2
  <2> QED
    BY <1>3, <2>1, <2>2
<1>5. \A i, j \in 1..c : ks[i] = ks[j] => i = j
  <2> SUFFICES ASSUME NEW i \in 1..c, NEW j \in 1..c, ks[i] = ks[j], i < j PROVE FALSE
    BY <1>3
  <2>1. KeyAscending(ks[i], ks[j]) /\ IsKeyCell(ks[i]) /\ IsKeyCell(ks[j])
    BY DEF Everyone, KeyCells
  <2> QED
    BY <2>1, AscendingIsStrict
<1>6. ASSUME NEW i \in 1..c PROVE g[i] = i
  <2>1. g[i] \in 1..b /\ g[i] >= i /\ us[g[i]] = ks[i]
    BY <1>1, <1>3 DEF PlacedAt
  <2>2. h[g[i]] \in 1..c /\ h[g[i]] >= g[i] /\ ks[h[g[i]]] = us[g[i]]
    BY <1>2, <1>3, <2>1 DEF PlacedAt
  <2>3. h[g[i]] = i
    BY <1>5, <2>1, <2>2
  <2> QED
    BY <1>3, <2>1, <2>2, <2>3
<1> QED
  BY <1>1, <1>4, <1>6 DEF PlacedAt

\* What the fan-out leaves of the pass over payload p.
FanRefused(why) == [err |-> why, out |-> <<>>]
FanOf(out, fp) == [err |-> "", out |-> out, shared |-> fp]
PassOut(p, wants, fp, f, cols, pass) ==
    IF p = fp THEN [pass[fp] EXCEPT !.has = IF "keys" \in cols THEN @ ELSE @ \ {"keys"}]
    ELSE IF p \notin OthersAsked(wants, fp) THEN Answer(<<>>, 0)
    ELSE IF ~Fine(pass[p]) THEN pass[p]
    ELSE IF Active(f) THEN Aligned(pass[fp], pass[p])
    ELSE IF Length(pass[p]) # Length(pass[fp]) THEN Refused("group count")
    ELSE [pass[p] EXCEPT !.has = @ \ Shared]
Outs(wants, fp, f, cols, pass) == [p \in DOMAIN wants |-> PassOut(p, wants, fp, f, cols, pass)]
NotFine(wants, out) == {p \in DOMAIN wants : ~Fine(out[p])}

LEMMA FanoutIs ==
  ASSUME NEW wants, NEW primary, NEW f, NEW cols, NEW pass
  PROVE  LET fp == Primary(primary, f)
             out == Outs(wants, fp, f, cols, pass)
         IN  Fanout(wants, primary, f, cols, pass) =
               IF wants = <<>> THEN FanRefused("no payloads")
               ELSE IF fp \notin DOMAIN wants THEN FanRefused("filter payload")
               ELSE IF ~Fine(pass[fp]) THEN FanRefused(pass[fp].err)
               ELSE IF NotFine(wants, out) # {} THEN FanRefused(out[Min(NotFine(wants, out))].err)
               ELSE FanOf(out, fp)
BY Zenon DEF Fanout, Outs, PassOut, NotFine, Fine, FanRefused, FanOf

LEMMA FanParts ==
  /\ ~Fine(FanRefused("no payloads")) /\ ~Fine(FanRefused("filter payload"))
  /\ \A e : ~Fine(e) => ~Fine(FanRefused(e.err))
<1>1. \A why : FanRefused(why).err = why
  BY Zenon DEF FanRefused
<1>2. "no payloads" # "" /\ "filter payload" # ""
  BY Zenon
<1>3. ~Fine(FanRefused("no payloads")) /\ ~Fine(FanRefused("filter payload"))
  BY <1>1, <1>2, Zenon DEF Fine
<1>4. \A e : ~Fine(e) => ~Fine(FanRefused(e.err))
  BY <1>1, Zenon DEF Fine
<1> QED
  BY <1>3, <1>4

LEMMA FanOfIs == ASSUME NEW out, NEW fp, NEW fan, fan = FanOf(out, fp) PROVE fan.out = out /\ fan.shared = fp
<1>1. fan.out = out
  BY Zenon DEF FanOf
<1>2. fan.shared = fp
  BY Zenon DEF FanOf
<1> QED
  BY <1>1, <1>2

LEMMA FanFine ==
  ASSUME NEW wants, IsRows(wants), NEW primary, NEW f, NEW cols, NEW pass,
         NEW fan, fan = Fanout(wants, primary, f, cols, pass), Fine(fan), NEW fp, fp = Primary(primary, f)
  PROVE  /\ fp \in DOMAIN wants /\ Fine(pass[fp]) /\ fan.shared = fp /\ DOMAIN fan.out = DOMAIN wants
         /\ \A p \in DOMAIN wants : fan.out[p] = PassOut(p, wants, fp, f, cols, pass) /\ Fine(fan.out[p])
<1>1. PICK out : out = Outs(wants, fp, f, cols, pass)
  OBVIOUS
<1>2. fan = IF wants = <<>> THEN FanRefused("no payloads")
            ELSE IF fp \notin DOMAIN wants THEN FanRefused("filter payload")
            ELSE IF ~Fine(pass[fp]) THEN FanRefused(pass[fp].err)
            ELSE IF NotFine(wants, out) # {} THEN FanRefused(out[Min(NotFine(wants, out))].err)
            ELSE FanOf(out, fp)
  BY <1>1, FanoutIs
<1>3. NotFine(wants, out) # {} => ~Fine(FanRefused(out[Min(NotFine(wants, out))].err))
  <2> SUFFICES ASSUME NotFine(wants, out) # {} PROVE ~Fine(FanRefused(out[Min(NotFine(wants, out))].err))
    OBVIOUS
  <2>1. PICK m \in Nat : DOMAIN wants = 1..m
    BY DEF IsRows
  <2>2. PICK bad : bad = NotFine(wants, out)
    OBVIOUS
  <2>3. bad \in SUBSET (1..m) /\ bad # {}
    BY <2>1, <2>2 DEF NotFine
  <2>4. PICK k \in bad : \A j \in bad : k <= j
    BY <2>1, <2>3, LeastNat
  <2>5. Min(bad) \in bad
    BY <2>4 DEF Min
  <2>6. ~Fine(out[Min(bad)])
    BY <2>2, <2>5 DEF NotFine
  <2> QED
    BY <2>2, <2>6, FanParts
<1>4. fan = FanOf(out, fp) /\ fp \in DOMAIN wants /\ Fine(pass[fp]) /\ NotFine(wants, out) = {}
  BY <1>2, <1>3, FanParts
<1>5. fan.out = out /\ fan.shared = fp
  BY <1>4, FanOfIs
<1>6. \A p \in DOMAIN wants : out[p] = PassOut(p, wants, fp, f, cols, pass) /\ Fine(out[p])
  BY <1>1, <1>4 DEF Outs, NotFine
<1> QED
  BY <1>1, <1>4, <1>5, <1>6 DEF Outs

\* ---- a pass stands in the rows of the primary one -----------------------------------------
SameGroup(r, s) == r.null = s.null /\ (r.null \/ r.key = s.key)
AlignedWith(full, pr, fr) ==
    IF \E r \in ToSet(pr) : \A s \in ToSet(fr) : ~SameGroup(r, s) THEN Refused("missing group")
    ELSE [full EXCEPT !.has = @ \ Shared, !.rows = [j \in DOMAIN pr |-> CHOOSE s \in ToSet(fr) : SameGroup(pr[j], s)]]
LEMMA AlignedIs == \A prim, full : Aligned(prim, full) = AlignedWith(full, prim.rows, full.rows)
BY Zenon DEF Aligned, AlignedWith, SameGroup

\* The row of a group in a pass of its own, found by its key.
LEMMA AlignedShows ==
  ASSUME NEW table, NEW K, KeyCells(KeysOf(table, K)), NEW columns, NEW fp, NEW p,
         NEW prim, NEW ks, NEW c, NEW w1, PassShows(prim.rows, ks, c, table, K, columns, fp, w1), "keys" \in w1,
         NEW full, NEW us, NEW b, NEW w2, PassShows(full.rows, us, b, table, K, columns, p, w2), "keys" \in w2,
         Everyone(us, b, KeysOf(table, K)), {"rows", "has"} \subseteq DOMAIN full,
         NEW out, out = Aligned(prim, full), Fine(out)
  PROVE  PassShows(out.rows, ks, c, table, K, columns, p, w2)
<1>1. PICK pr, fr : pr = prim.rows /\ fr = full.rows
  OBVIOUS
<1>2. /\ c \in Nat /\ DOMAIN pr = 1..c /\ b \in Nat /\ DOMAIN fr = 1..b
      /\ \A i \in 1..c : ks[i] \in KeysOf(table, K) /\ IsKeyCell(ks[i]) /\ pr[i].null = (ks[i] = NoCell) /\ (ks[i] # NoCell => pr[i].key = ks[i])
      /\ \A i \in 1..b : us[i] \in KeysOf(table, K) /\ IsKeyCell(us[i]) /\ fr[i].null = (us[i] = NoCell) /\ (us[i] # NoCell => fr[i].key = us[i])
      /\ \A i \in 1..b : RowShows(fr[i], NativeGroup(table, K, columns, us[i]), us[i], p, w2)
  BY <1>1 DEF PassShows, AreKeys, RowShows, IsList, KeyCells
<1>3. ASSUME NEW i \in 1..c, NEW j \in 1..b PROVE SameGroup(pr[i], fr[j]) <=> ks[i] = us[j]
  BY <1>2 DEF SameGroup
<1>4. \A x \in KeysOf(table, K) : \E j \in 1..b : us[j] = x
  BY DEF Everyone
<1>5. ToSet(fr) = {fr[j] : j \in 1..b}
  BY <1>2 DEF ToSet
<1>6. out.rows = [i \in 1..c |-> CHOOSE s \in ToSet(fr) : SameGroup(pr[i], s)]
  <2>1. out = AlignedWith(full, pr, fr)
    BY <1>1, AlignedIs
  <2>2. ~Fine(Refused("missing group"))
    BY RefusalsFail DEF Refusals
  <2>3. out = [full EXCEPT !.has = @ \ Shared, !.rows = [j \in DOMAIN pr |-> CHOOSE s \in ToSet(fr) : SameGroup(pr[j], s)]]
    BY <2>1, <2>2 DEF AlignedWith
  <2> QED
    BY <1>2, <2>3
<1>7. ASSUME NEW i \in 1..c PROVE RowShows(out.rows[i], NativeGroup(table, K, columns, ks[i]), ks[i], p, w2)
  <2>1. PICK j \in 1..b : us[j] = ks[i]
    BY <1>2, <1>4
  <2>2. fr[j] \in ToSet(fr) /\ SameGroup(pr[i], fr[j])
    BY <1>3, <1>5, <2>1
  <2>3. PICK r : r = CHOOSE s \in ToSet(fr) : SameGroup(pr[i], s)
    OBVIOUS
  <2>4. r \in ToSet(fr) /\ SameGroup(pr[i], r)
    BY <2>2, <2>3
  <2>5. PICK k \in 1..b : r = fr[k]
    BY <1>5, <2>4
  <2>6. us[k] = ks[i]
    BY <1>3, <2>4, <2>5
  <2>7. out.rows[i] = fr[k]
    BY <1>6, <2>3, <2>5
  <2>8. RowShows(fr[k], NativeGroup(table, K, columns, us[k]), us[k], p, w2)
    BY <1>2
  <2> QED
    BY ONLY <2>6, <2>7, <2>8
<1>8. IsList(out.rows, c) /\ AreKeys(table, K, ks, c)
  <2>1. IsList(out.rows, c)
    BY <1>2, <1>6 DEF IsList
  <2> QED
    BY <2>1 DEF PassShows
<1> QED
  BY <1>7, <1>8 DEF PassShows

\* ---- the passes of a call -------------------------------------------------------------------
\* What the rows of the pass over payload p must show; every payload for itself.
AskedAll(ws) == [p \in DOMAIN ws |-> Asked(ws[p])]
Wanted(ws, p, fp, f, shared) == ws[p] \cup (IF p = fp THEN shared ELSE IF Active(f) THEN {"keys"} ELSE {})
Needed(ws, p, fp) == p \in DOMAIN ws /\ (p = fp \/ ws[p] # {})
OwnColumns(ws) == \A p \in DOMAIN ws : ws[p] \subseteq All \ Shared
LEMMA WantedIs ==
  ASSUME NEW ws, OwnColumns(ws), NEW primary, NEW f, NEW fp, fp = Primary(primary, f), NEW p, Needed(ws, p, fp),
         NEW shared, shared \subseteq Shared, "keys" \in shared, NEW want, want = Wanted(ws, p, fp, f, shared),
         NEW asked, asked = PassWant(p, AskedAll(ws), primary, f, shared)
  PROVE  /\ want \subseteq All /\ Asked(want) \subseteq asked /\ Cols(want) = ws[p]
         /\ (p = fp => shared \subseteq want) /\ (Active(f) => "keys" \in want)
         /\ (p # fp => p \in OthersAsked(AskedAll(ws), fp))
<1>1. p \in DOMAIN ws /\ ws[p] \subseteq {"counts", "sums", "mins", "maxs"} /\ DOMAIN AskedAll(ws) = DOMAIN ws
  BY DEF Needed, OwnColumns, All, Shared, AskedAll
<1>2. PICK w : w = ws[p]
  OBVIOUS
<1>3. AskedAll(ws)[p] = Asked(w)
  BY <1>1, <1>2 DEF AskedAll
<1>4. p # fp => p \in OthersAsked(AskedAll(ws), fp)
  BY <1>1, <1>2, <1>3 DEF OthersAsked, Needed, Asked
<1>5. PICK own : own = (Asked(w) \ Shared) \cup (IF p = fp THEN shared \cap Shared ELSE {})
                       \cup (IF Active(f) /\ OthersAsked(AskedAll(ws), fp) # {} THEN {"keys"} ELSE {})
  OBVIOUS
<1>6. asked = IF p = fp /\ own = {} THEN {"stars"} ELSE own
  BY <1>3, <1>5 DEF PassWant
<1>7. asked = own
  BY <1>5, <1>6 DEF Shared
<1>8. w \subseteq {"counts", "sums", "mins", "maxs"} /\ Shared = {"keys", "stars"} /\ shared \subseteq {"keys", "stars"}
  BY <1>1, <1>2 DEF Shared
<1>9. Asked(want) = want \cup (IF want \cap {"sums", "mins", "maxs"} # {} THEN {"counts"} ELSE {})
  BY DEF Asked
<1>10. Asked(w) = w \cup (IF w \cap {"sums", "mins", "maxs"} # {} THEN {"counts"} ELSE {})
  BY DEF Asked
<1>11. want = w \cup (IF p = fp THEN shared ELSE IF Active(f) THEN {"keys"} ELSE {})
  BY <1>2 DEF Wanted
<1>12. Asked(want) \subseteq own
  <2>1. CASE p = fp
    BY <1>5, <1>8, <1>9, <1>10, <1>11, <2>1
  <2>2. CASE p # fp
    BY <1>4, <1>5, <1>8, <1>9, <1>10, <1>11, <2>2
  <2> QED
    BY <2>1, <2>2
<1> QED
  BY <1>2, <1>4, <1>7, <1>8, <1>11, <1>12 DEF All, Cols

\* The passes of a call over a set.
Passes0(set, s, ws, primary, shared, pass) ==
    pass = [p \in DOMAIN ws |-> Groups(Lane(set.key, NoLane), Payloads(set, s)[p], resolve_where(set, s.where),
                                       PassFilter(p, primary, s.f), s.cap,
                                       PassWant(p, AskedAll(ws), primary, s.f, shared))]
LEMMA NoFilterIsIdle == IsFilter(NoFilter) /\ ~Active(NoFilter)
<1>1. NoFilter.cmp = "None" /\ NoFilter.agg = "Sum" /\ NoFilter.threshold = 0 /\ NoFilter.topk = 0
  BY DEF NoFilter
<1>2. 0 \in Word
  BY WordsAreInts
<1>3. NoFilter.desc \in BOOLEAN
  BY Zenon DEF NoFilter
<1> QED
  BY <1>1, <1>2, <1>3 DEF IsFilter, Active, HavingAggs, HavingOps

\* A pass of a call gives native's groups, with the columns its payload shows filled.
MultiQuery(set, s, ws, n, home, shared) ==
    /\ GroupQuery(set, s, n, home) /\ IsFilter(s.f) /\ OwnColumns(ws) /\ DOMAIN ws = DOMAIN s.pays
    /\ shared \subseteq Shared /\ "keys" \in shared
LEMMA PassesGive ==
  ASSUME Apart, Unread \notin Limbs, NEW set, NEW s, NEW ws, NEW n, NEW home, NEW shared, MultiQuery(set, s, ws, n, home, shared),
         NEW primary, NEW fp, fp = Primary(primary, s.f), NEW pass, Passes0(set, s, ws, primary, shared, pass),
         NEW p, Needed(ws, p, fp), NEW r, r = pass[p], Fine(r), NEW want, want = Wanted(ws, p, fp, s.f, shared),
         NEW table, table = set.rows, NEW where, where = s.where, NEW columns, columns = s.pays,
         NEW f, f = PassFilter(p, primary, s.f)
  PROVE  /\ FilledFor(r, want) /\ IsFilter(f)
         /\ \E ks, c : PassGives(r, ks, c, table, Kept(table, where), where, columns, p, f, want)
<1>1. /\ GroupQuery(set, s, n, home) /\ IsFilter(s.f) /\ OwnColumns(ws) /\ DOMAIN ws = DOMAIN s.pays
      /\ shared \subseteq Shared /\ "keys" \in shared
  BY DEF MultiQuery
<1>2. p \in DOMAIN ws /\ p \in DOMAIN s.pays
  BY <1>1 DEF Needed
<1>3. PICK asked : asked = PassWant(p, AskedAll(ws), primary, s.f, shared)
  OBVIOUS
<1>4. want \subseteq All /\ Asked(want) \subseteq asked
  BY <1>1, <1>3, WantedIs
<1>5. IsFilter(f)
  BY <1>1, NoFilterIsIdle DEF PassFilter
<1>6. IsPass(r, set, s, p, f, s.cap, asked)
  <2>1. r = Groups(Lane(set.key, NoLane), Payloads(set, s)[p], resolve_where(set, s.where), PassFilter(p, primary, s.f), s.cap,
                   PassWant(p, AskedAll(ws), primary, s.f, shared))
    BY <1>2 DEF Passes0
  <2>2. Payloads(set, s)[p] = Lane(Named(set, s.pays[p]), NoLane)
    BY <1>2 DEF Payloads
  <2> QED
    BY <1>3, <2>1, <2>2 DEF IsPass
<1>7. FilledFor(r, want)
  BY <1>1, <1>2, <1>4, <1>5, <1>6, PassFills
<1>8. \E ks, c : PassGives(r, ks, c, table, Kept(table, where), where, columns, p, f, want)
  BY <1>1, <1>2, <1>4, <1>5, <1>6, PassRows
<1> QED
  BY <1>5, <1>7, <1>8

\* A pass without a filter stands in the rows of the primary one as it is.
LEMMA AllShow ==
  ASSUME NEW table, NEW K, KeyCells(KeysOf(table, K)), NEW columns, NEW p, NEW w,
         NEW ks, NEW c, Everyone(ks, c, KeysOf(table, K)), NEW rows, NEW us, NEW b, Everyone(us, b, KeysOf(table, K)),
         PassShows(rows, us, b, table, K, columns, p, w)
  PROVE  PassShows(rows, ks, c, table, K, columns, p, w)
<1>1. c = b /\ \A i \in 1..c : us[i] = ks[i]
  BY SameKeys
<1>2. /\ IsList(rows, c) /\ c \in Nat
      /\ \A i \in 1..c : us[i] \in KeysOf(table, K) /\ RowShows(rows[i], NativeGroup(table, K, columns, us[i]), us[i], p, w)
  BY <1>1 DEF PassShows, AreKeys
<1>3. ASSUME NEW i \in 1..c PROVE ks[i] \in KeysOf(table, K) /\ RowShows(rows[i], NativeGroup(table, K, columns, ks[i]), ks[i], p, w)
  <2>1. us[i] = ks[i]
    BY <1>1
  <2> QED
    BY <1>2, <2>1
<1> QED
  BY <1>2, <1>3 DEF PassShows, AreKeys

\* ---- the answers of a call, one per payload -------------------------------------------------
LEMMA PrimaryOut ==
  ASSUME NEW ws, NEW fp, NEW f, NEW cols, "keys" \in cols, NEW pass, NEW r, r = pass[fp], {"rows", "has"} \subseteq DOMAIN r,
         NEW out, out = PassOut(fp, ws, fp, f, cols, pass)
  PROVE  out.rows = r.rows /\ out.has = r.has
<1>1. out = [r EXCEPT !.has = IF "keys" \in cols THEN @ ELSE @ \ {"keys"}]
  BY DEF PassOut
<1> QED
  BY <1>1

LEMMA IdleOut ==
  ASSUME NEW ws, NEW p, NEW fp, p # fp, p \notin OthersAsked(ws, fp), NEW f, NEW cols, NEW pass, NEW out,
         out = PassOut(p, ws, fp, f, cols, pass)
  PROVE  Length(out) = 0
<1>1. out = Answer(<<>>, 0)
  BY Zenon DEF PassOut
<1>2. \A rows, total : Answer(rows, total).rows = rows
  BY Zenon DEF Answer
<1> QED
  BY <1>1, <1>2 DEF Length

LEMMA OtherOut ==
  ASSUME NEW ws, NEW p, NEW fp, p # fp, p \in OthersAsked(ws, fp), NEW f, NEW cols, NEW pass, NEW r, r = pass[p],
         NEW out, out = PassOut(p, ws, fp, f, cols, pass), Fine(out)
  PROVE  Fine(r) /\ out = IF Active(f) THEN Aligned(pass[fp], r) ELSE [r EXCEPT !.has = @ \ Shared]
<1>1. out = IF ~Fine(r) THEN r
            ELSE IF Active(f) THEN Aligned(pass[fp], r)
            ELSE IF Length(r) # Length(pass[fp]) THEN Refused("group count")
            ELSE [r EXCEPT !.has = @ \ Shared]
  BY DEF PassOut
<1>2. ~Fine(Refused("group count"))
  BY RefusalsFail DEF Refusals
<1> QED
  BY <1>1, <1>2

LEMMA QueryKeys ==
  ASSUME Apart, NEW set, NEW s, NEW n, NEW home, GroupQuery(set, s, n, home), NEW K, K = Kept(set.rows, s.where)
  PROVE  KeyCells(KeysOf(set.rows, K))
<1>1. n \in Nat /\ DOMAIN set.rows = 1..n /\ \A i \in 1..n : IsKeyCell(set.rows[i].k)
  BY KeyIsColumn DEF GroupQuery
<1>2. K \in SUBSET (1..n)
  BY <1>1 DEF Kept
<1>3. ASSUME NEW x \in KeysOf(set.rows, K) PROVE IsKeyCell(x)
  <2>1. PICK i \in K : x = set.rows[i].k
    BY DEF KeysOf
  <2> QED
    BY <1>1, <1>2, <2>1
<1> QED
  BY <1>3 DEF KeyCells

\* Every payload that is shown stands in the rows of the primary one.
OutShows(out, ws, p, fp, f, shared, ks, c, table, K, columns) ==
    /\ Length(out) \in {0, c} /\ (p = fp => Length(out) = c)
    /\ Needed(ws, p, fp) => PassShows(out.rows, ks, c, table, K, columns, p, Wanted(ws, p, fp, f, shared))
LEMMA OutsShow ==
  ASSUME Apart, Unread \notin Limbs, NEW set, NEW s, NEW ws, NEW n, NEW home, NEW shared, MultiQuery(set, s, ws, n, home, shared),
         NEW primary, NEW f, f = s.f, NEW fp, fp = Primary(primary, f), NEW pass, Passes0(set, s, ws, primary, shared, pass),
         NEW table, table = set.rows, NEW where, where = s.where, NEW columns, columns = s.pays,
         NEW K, K = Kept(table, where), NEW prim, prim = pass[fp], FilledFor(prim, Wanted(ws, fp, fp, f, shared)),
         NEW ks, NEW c, PassGives(prim, ks, c, table, K, where, columns, fp, f, Wanted(ws, fp, fp, f, shared)),
         NEW p \in DOMAIN ws, NEW out, out = PassOut(p, AskedAll(ws), fp, f, shared, pass), Fine(out), fp \in DOMAIN ws
  PROVE  OutShows(out, ws, p, fp, f, shared, ks, c, table, K, columns)
<1>1. /\ GroupQuery(set, s, n, home) /\ IsFilter(f) /\ OwnColumns(ws) /\ shared \subseteq Shared /\ "keys" \in shared
  BY DEF MultiQuery
<1>2. PICK want, w1 : want = Wanted(ws, p, fp, f, shared) /\ w1 = Wanted(ws, fp, fp, f, shared)
  OBVIOUS
<1>3. /\ PassShows(prim.rows, ks, c, table, K, columns, fp, w1) /\ IsList(prim.rows, c) /\ "keys" \in w1
      /\ ~Active(f) => Everyone(ks, c, KeysOf(table, K))
  BY <1>1, <1>2 DEF PassGives, PassShows, Wanted
<1>4. KeyCells(KeysOf(table, K))
  BY <1>1, QueryKeys
<1>5. CASE p = fp
  <2>1. /\ {"rows", "has"} \subseteq DOMAIN prim /\ "keys" \in prim.has
    BY <1>2, <1>3 DEF FilledFor
  <2>2. out.rows = prim.rows /\ out.has = prim.has
    BY <1>1, <1>5, <2>1, PrimaryOut
  <2>3. Length(out) = c
    BY <1>3, <2>1, <2>2, LengthIs
  <2>4. PassShows(out.rows, ks, c, table, K, columns, p, want)
    BY <1>2, <1>3, <1>5, <2>2
  <2> QED
    BY <1>2, <2>3, <2>4 DEF OutShows
<1>6. CASE p # fp /\ ~Needed(ws, p, fp)
  <2>1. p \notin OthersAsked(AskedAll(ws), fp)
    BY <1>6 DEF Needed, OthersAsked, AskedAll, Asked
  <2>2. Length(out) = 0
    BY <1>6, <2>1, IdleOut
  <2> QED
    BY <1>6, <2>2 DEF OutShows
<1>7. CASE p # fp /\ Needed(ws, p, fp)
  <2>1. p \in OthersAsked(AskedAll(ws), fp) /\ (Active(f) => "keys" \in want)
    BY <1>1, <1>2, <1>7, WantedIs
  <2>2. PICK r : r = pass[p]
    OBVIOUS
  <2>3. Fine(r) /\ out = IF Active(f) THEN Aligned(prim, r) ELSE [r EXCEPT !.has = @ \ Shared]
    <3>1. PICK v : v = AskedAll(ws)
      OBVIOUS
    <3>2. p # fp /\ p \in OthersAsked(v, fp) /\ out = PassOut(p, v, fp, f, shared, pass) /\ Fine(out)
      BY <1>7, <2>1, <3>1
    <3>3. Fine(r) /\ out = IF Active(f) THEN Aligned(pass[fp], r) ELSE [r EXCEPT !.has = @ \ Shared]
      BY ONLY <2>2, <3>2, OtherOut
    <3> QED
      BY <3>3
  <2>4. PassFilter(p, primary, s.f) = NoFilter
    BY <1>7 DEF PassFilter
  <2>5. /\ FilledFor(r, want)
        /\ \E us, b : PassGives(r, us, b, table, K, where, columns, p, NoFilter, want)
    BY <1>2, <1>7, <2>2, <2>3, <2>4, PassesGive
  <2>6. PICK us, b : PassGives(r, us, b, table, K, where, columns, p, NoFilter, want)
    BY <2>5
  <2>7. PassShows(r.rows, us, b, table, K, columns, p, want) /\ Everyone(us, b, KeysOf(table, K))
    BY <2>6, NoFilterIsIdle DEF PassGives
  <2>8. {"rows", "has"} \subseteq DOMAIN r
    BY <2>5 DEF FilledFor
  <2>9. PassShows(out.rows, ks, c, table, K, columns, p, want)
    <3>1. CASE Active(f)
      <4>1. out = Aligned(prim, r) /\ "keys" \in want
        BY <2>1, <2>3, <3>1
      <4> QED
        BY ONLY <1>3, <1>4, <2>7, <2>8, <4>1, Fine(out), AlignedShows
    <3>2. CASE ~Active(f)
      <4>1. out.rows = r.rows
        BY <2>3, <2>8, <3>2
      <4>2. Everyone(ks, c, KeysOf(table, K))
        BY <1>3, <3>2
      <4> QED
        BY <1>4, <2>7, <4>1, <4>2, AllShow
    <3> QED
      BY <3>1, <3>2
  <2>10. Length(out) \in {0, c}
    BY <2>9, LengthIs DEF PassShows
  <2> QED
    BY <1>2, <1>7, <2>9, <2>10 DEF OutShows
<1> QED
  BY <1>5, <1>6, <1>7

ShownFan(fan, ws, fp, f, shared, ks, c, table, K, columns) ==
    /\ fan.shared = fp /\ DOMAIN fan.out = DOMAIN ws /\ fp \in DOMAIN ws
    /\ \A p \in DOMAIN ws : OutShows(fan.out[p], ws, p, fp, f, shared, ks, c, table, K, columns)
LEMMA FanShows ==
  ASSUME Apart, Unread \notin Limbs, NEW set, NEW s, NEW ws, IsRows(ws),
         NEW n, NEW home, NEW shared, MultiQuery(set, s, ws, n, home, shared),
         NEW primary, NEW f, f = s.f, NEW fp, fp = Primary(primary, f), NEW pass, Passes0(set, s, ws, primary, shared, pass),
         NEW fan, fan = Fanout(AskedAll(ws), primary, f, shared, pass), Fine(fan),
         NEW table, table = set.rows, NEW where, where = s.where, NEW columns, columns = s.pays, NEW K, K = Kept(table, where)
  PROVE  \E ks, c : /\ ShownFan(fan, ws, fp, f, shared, ks, c, table, K, columns)
                    /\ AreKeys(table, K, ks, c)
                    /\ IsAnswer(GroupsAt(table, K, columns, ks, c), NativeGroups(table, where, columns), f, fp)
<1>1. PICK v : v = AskedAll(ws)
  OBVIOUS
<1>2. DOMAIN v = DOMAIN ws /\ IsRows(v)
  <2>1. v = [p \in DOMAIN ws |-> v[p]] /\ DOMAIN v = DOMAIN ws
    BY <1>1 DEF AskedAll
  <2>2. PICK m \in Nat : DOMAIN ws = 1..m
    BY DEF IsRows
  <2> QED
    BY <2>1, <2>2 DEF IsRows
<1>3. fan = Fanout(v, primary, f, shared, pass)
  BY <1>1
<1>4. /\ fp \in DOMAIN v /\ Fine(pass[fp]) /\ fan.shared = fp /\ DOMAIN fan.out = DOMAIN v
      /\ \A p \in DOMAIN v : fan.out[p] = PassOut(p, v, fp, f, shared, pass) /\ Fine(fan.out[p])
  BY ONLY <1>2, <1>3, Fine(fan), fp = Primary(primary, f), FanFine
<1>5. PICK prim, want : prim = pass[fp] /\ want = Wanted(ws, fp, fp, f, shared)
  OBVIOUS
<1>6. Needed(ws, fp, fp) /\ PassFilter(fp, primary, s.f) = f
  BY <1>2, <1>4 DEF Needed, PassFilter
<1>7. /\ FilledFor(prim, want)
      /\ \E ks, c : PassGives(prim, ks, c, table, Kept(table, where), where, columns, fp, f, want)
  BY <1>4, <1>5, <1>6, PassesGive
<1>8. PICK ks, c : PassGives(prim, ks, c, table, K, where, columns, fp, f, want)
  BY <1>7
<1>9. ASSUME NEW p \in DOMAIN ws PROVE OutShows(fan.out[p], ws, p, fp, f, shared, ks, c, table, K, columns)
  <2>1. PICK out : out = fan.out[p]
    OBVIOUS
  <2>2. out = PassOut(p, AskedAll(ws), fp, f, shared, pass) /\ Fine(out) /\ fp \in DOMAIN ws
    BY <1>1, <1>2, <1>4, <2>1
  <2>3. FilledFor(prim, Wanted(ws, fp, fp, f, shared)) /\ PassGives(prim, ks, c, table, K, where, columns, fp, f, Wanted(ws, fp, fp, f, shared))
    BY <1>5, <1>7, <1>8
  <2>4. OutShows(out, ws, p, fp, f, shared, ks, c, table, K, columns)
    BY <1>5, <2>2, <2>3, OutsShow
  <2> QED
    BY <2>1, <2>4
<1>10. ShownFan(fan, ws, fp, f, shared, ks, c, table, K, columns)
  BY <1>2, <1>4, <1>9 DEF ShownFan
<1> QED
  BY <1>8, <1>10 DEF PassGives, PassShows

\* ---- the rows the table function makes of them ----------------------------------------------
ManyRow(fan, s, j) ==
    [keys |-> IF "keys" \in s.want THEN ShownKey(fan.out[fan.shared].rows[j]) ELSE Unread,
     stars |-> IF "stars" \in s.want THEN fan.out[fan.shared].rows[j].star ELSE Unread,
     pays |-> [p \in DOMAIN fan.out |->
                 IF s.wants[p] = {} THEN <<>> ELSE ShownPay(fan.out[p].rows[j], s.wants[p])]]
Lengths(fan) == {0} \cup {Length(fan.out[p]) : p \in DOMAIN fan.out}
LEMMA ManyReply ==
  ASSUME NEW fan, NEW s
  PROVE  /\ gm_function(fan, s).err = fan.err
         /\ Fine(fan) => gm_function(fan, s).rows = [j \in 1..Max(Lengths(fan)) |-> ManyRow(fan, s, j)]
<1>1. gm_function(fan, s).err = fan.err
  BY Zenon DEF gm_function, Reply
<1>2. gm_rows(fan, s) = [j \in 1..Max(Lengths(fan)) |-> ManyRow(fan, s, j)]
  BY DEF gm_rows, ManyRow, Lengths
<1>3. gm_function(fan, s).rows = IF Fine(fan) THEN gm_rows(fan, s) ELSE <<>>
  BY Zenon DEF gm_function, Reply, Fine
<1> QED
  BY <1>1, <1>2, <1>3

LEMMA LongestIs ==
  ASSUME NEW S, NEW c \in Nat, S \subseteq {0, c}, c \in S PROVE Max(S) = c
<1>1. c \in S /\ \A y \in S : c >= y
  OBVIOUS
<1>2. \A x \in S : (\A y \in S : x >= y) => x = c
  OBVIOUS
<1>3. (CHOOSE x \in S : \A y \in S : x >= y) = c
  BY <1>1, <1>2
<1> QED
  BY <1>3 DEF Max

LEMMA ManyRowIs ==
  ASSUME NEW fan, NEW s, NEW j, NEW row, row = ManyRow(fan, s, j), NEW fp, fp = fan.shared
  PROVE  /\ "keys" \in s.want => row.keys = ShownKey(fan.out[fp].rows[j])
         /\ "stars" \in s.want => row.stars = fan.out[fp].rows[j].star
         /\ \A p \in DOMAIN fan.out : s.wants[p] # {} => row.pays[p] = ShownPay(fan.out[p].rows[j], s.wants[p])
BY DEF ManyRow

\* Several payloads over a shown set: every one in the row of its group.
LEMMA MultiAnswers ==
  ASSUME Apart, Unread \notin Limbs, NEW set, NEW s, NEW ws, ws = s.wants, IsRows(ws), s.want \subseteq All, "keys" \in s.want,
         NEW shared, shared = s.want \cap Shared, NEW n, NEW home, MultiQuery(set, s, ws, n, home, shared),
         NEW primary, primary = s.primary, ~Active(s.f) => primary = 1, NEW fan,
         fan = GroupsOfMany(Lane(set.key, NoLane), Payloads(set, s), resolve_where(set, s.where), s.f, s.cap, AskedAll(ws),
                            primary, shared),
         Fine(fan), NEW a, a = gm_function(fan, s)
  PROVE  SameAs(a.rows, set.rows, s, s.pays, ws) /\ IsRows(a.rows)
<1>1. PICK f, want, table, where, K, columns, fp :
        /\ f = s.f /\ want = s.want /\ table = set.rows /\ where = s.where /\ K = Kept(table, where) /\ columns = s.pays
        /\ fp = Primary(primary, f)
  OBVIOUS
<1>2. fp = s.primary
  BY <1>1 DEF Primary
<1>3. OwnColumns(ws) /\ DOMAIN ws = DOMAIN columns
  BY <1>1 DEF MultiQuery
<1>4. PICK pass : pass = [p \in DOMAIN AskedAll(ws) |->
                            Groups(Lane(set.key, NoLane), Payloads(set, s)[p], resolve_where(set, s.where),
                                   PassFilter(p, primary, s.f), s.cap, PassWant(p, AskedAll(ws), primary, s.f, shared))]
  OBVIOUS
<1>5. fan = Fanout(AskedAll(ws), primary, f, shared, pass)
  BY <1>1, <1>4 DEF GroupsOfMany
<1>6. Passes0(set, s, ws, primary, shared, pass)
  <2>1. DOMAIN AskedAll(ws) = DOMAIN ws
    BY DEF AskedAll
  <2> QED
    BY <1>4, <2>1 DEF Passes0
<1>7. PICK ks, c : /\ ShownFan(fan, ws, fp, f, shared, ks, c, table, K, columns)
                   /\ AreKeys(table, K, ks, c)
                   /\ IsAnswer(GroupsAt(table, K, columns, ks, c), NativeGroups(table, where, columns), f, fp)
  BY <1>1, <1>5, <1>6, FanShows
<1>8. PICK shown : shown = a.rows
  OBVIOUS
<1>9. c \in Nat
  BY <1>7 DEF AreKeys
<1>10. shown = [j \in 1..c |-> ManyRow(fan, s, j)]
  <2>1. Lengths(fan) \subseteq {0, c} /\ c \in Lengths(fan)
    BY <1>7, <1>9 DEF ShownFan, OutShows, Lengths
  <2>2. Max(Lengths(fan)) = c
    BY <1>9, <2>1, LongestIs
  <2> QED
    BY <1>8, <2>2, ManyReply
<1>11. ASSUME NEW i \in 1..c, NEW g, g = NativeGroup(table, K, columns, ks[i])
       PROVE  /\ shown[i].keys = ks[i] /\ ("stars" \in want => shown[i].stars = g.stars)
              /\ \A p \in DOMAIN ws : \A w \in ws[p] : shown[i].pays[p][w] = g.pays[p][w]
  <2>1. PICK row : row = shown[i] /\ row = ManyRow(fan, s, i)
    BY <1>10
  <2>2. /\ row.keys = ShownKey(fan.out[fp].rows[i])
        /\ "stars" \in want => row.stars = fan.out[fp].rows[i].star
        /\ \A p \in DOMAIN ws : ws[p] # {} => row.pays[p] = ShownPay(fan.out[p].rows[i], ws[p])
    <3>1. fan.shared = fp /\ DOMAIN fan.out = DOMAIN ws
      BY <1>7 DEF ShownFan
    <3>2. /\ "keys" \in s.want => row.keys = ShownKey(fan.out[fp].rows[i])
          /\ "stars" \in s.want => row.stars = fan.out[fp].rows[i].star
          /\ \A p \in DOMAIN fan.out : s.wants[p] # {} => row.pays[p] = ShownPay(fan.out[p].rows[i], s.wants[p])
      BY ONLY <2>1, <3>1, ManyRowIs
    <3>3. "keys" \in s.want /\ want = s.want /\ ws = s.wants
      BY <1>1
    <3> QED
      BY ONLY <3>1, <3>2, <3>3
  <2>3. ASSUME NEW p, Needed(ws, p, fp)
        PROVE  RowShows(fan.out[p].rows[i], g, ks[i], p, Wanted(ws, p, fp, f, shared))
    BY <1>7, <1>11, <2>3 DEF ShownFan, OutShows, PassShows, Needed
  <2>4. shown[i].keys = ks[i] /\ ("stars" \in want => shown[i].stars = g.stars)
    <3>1. Needed(ws, fp, fp)
      BY <1>7 DEF ShownFan, Needed
    <3>2. RowShows(fan.out[fp].rows[i], g, ks[i], fp, Wanted(ws, fp, fp, f, shared))
      BY <2>3, <3>1
    <3>3. "keys" \in Wanted(ws, fp, fp, f, shared) /\ ("stars" \in want => "stars" \in Wanted(ws, fp, fp, f, shared))
      BY <1>1 DEF Wanted, Shared
    <3> QED
      BY <2>1, <2>2, <3>2, <3>3 DEF RowShows
  <2>5. ASSUME NEW p \in DOMAIN ws, NEW w \in ws[p] PROVE shown[i].pays[p][w] = g.pays[p][w]
    <3>1. Needed(ws, p, fp) /\ ws[p] # {}
      BY <2>5 DEF Needed
    <3>2. PICK d, wanted : d = fan.out[p].rows[i] /\ wanted = Wanted(ws, p, fp, f, shared)
      OBVIOUS
    <3>3. Cols(wanted) = ws[p]
      <4>1. shared \subseteq Shared /\ "keys" \in shared
        BY DEF Shared
      <4> QED
        BY <1>1, <1>3, <3>1, <3>2, <4>1, WantedIs
    <3>4. RowShows(d, g, ks[i], p, wanted)
      BY <2>3, <3>1, <3>2
    <3>5. row.pays[p] = ShownPay(d, ws[p])
      BY <2>2, <3>1, <3>2
    <3> QED
      BY <2>1, <3>3, <3>4, <3>5 DEF RowShows
  <2> QED
    BY <2>4, <2>5
<1>12. ShowKeys(shown, ks, c)
  BY <1>10, <1>11 DEF ShowKeys
<1>13. PICK ans : ans = GroupsAt(table, K, columns, ks, c)
  OBVIOUS
<1>14. /\ \A j \in DOMAIN shown : {g \in NativeGroups(table, where, columns) : g.keys = shown[j].keys} # {}
       /\ [j \in DOMAIN shown |-> CHOOSE g \in NativeGroups(table, where, columns) : g.keys = shown[j].keys] = ans
  <2>1. K = Kept(table, where)
    BY <1>1
  <2> QED
    BY ONLY <1>7, <1>12, <1>13, <2>1, ByTheirKeys
<1>15. DOMAIN ans = 1..c /\ \A i \in 1..c : ans[i] = NativeGroup(table, K, columns, ks[i])
  BY <1>13 DEF GroupsAt
<1>16. \A j \in DOMAIN ans :
          /\ "stars" \in want => shown[j].stars = ans[j].stars
          /\ \A q \in DOMAIN columns : \A w \in ws[q] : shown[j].pays[q][w] = ans[j].pays[q][w]
  BY ONLY <1>3, <1>11, <1>15
<1>17. SameAs(shown, table, s, columns, ws)
  <2>1. where = s.where /\ want = s.want /\ f = s.f /\ fp = s.primary
    BY <1>1, <1>2
  <2>2. IsAnswer(ans, NativeGroups(table, where, columns), s.f, s.primary)
    BY ONLY <1>7, <1>13, <2>1
  <2>3. \A j \in DOMAIN ans :
           /\ "stars" \in s.want => shown[j].stars = ans[j].stars
           /\ \A q \in DOMAIN columns : \A w \in ws[q] : shown[j].pays[q][w] = ans[j].pays[q][w]
    BY ONLY <1>16, <2>1
  <2> QED
    BY ONLY <1>14, <2>1, <2>2, <2>3, SameIs
<1>18. IsRows(shown)
  BY <1>9, <1>10 DEF IsRows
<1> QED
  BY <1>1, <1>8, <1>17, <1>18

LEMMA MultiAnswered ==
  ASSUME NEW g0, NEW s, s.op = "multi", NEW h, NEW a \in Answers(g0, s, h)
  PROVE  a = gm_function(GroupsOfMany(Lane(h[1].key, NoLane), Payloads(h[1], s), resolve_where(h[1], s.where), s.f, s.cap,
                                      AskedAll(s.wants), IF Active(s.f) THEN s.primary ELSE 1, s.want \cap Shared), s)
<1>1. Answers(g0, s, h) = {Answered(s, h, n) : n \in Words(s, h)}
  BY DEF Answers
<1>2. PICK n : a = Answered(s, h, n)
  BY <1>1
<1> QED
  BY <1>2 DEF Answered, AskedAll

\* Several payloads in one call over a set an upload left: whatever passes they came from,
\* DuckDB gets native's groups with every payload's aggregates in the row of their group.
THEOREM PayloadsAreAligned ==
  ASSUME Instantiated, Apart, Unread \notin Limbs, (\A s : BindFn(s) <=> BindOk(s)),
         \A s, h : RejectFn(s, h) <=> TwoSided(s, h)
  PROVE  Spec => []PayloadsAligned
<1>1. ASSUME ShownInv, \A c \in Callers : WholeAnswer(c) /\ (pc[c] = "emit" => HasAnswer(c)), SideInv, HeldInv, BoundInv
      PROVE  PayloadsAligned
  <2> SUFFICES ASSUME NEW c \in Callers, pc[c] = "emit", Len(sent[c]) >= Len(res[c].rows), Stmt(c).op = "multi",
                      Stmt(c).from[1] \notin Outputs
               PROVE  SameAs(sent[c], held[c][1].rows, Stmt(c), Stmt(c).pays, Stmt(c).wants)
    BY DEF PayloadsAligned, Same, Answering, Table, OfJoin
  <2>1. PICK s, h : s = Stmt(c) /\ h = held[c]
    OBVIOUS
  <2>2. s \in Statements /\ BindOk(s)
    <3>1. s \in Statements
      BY <1>1, <2>1, StmtKnown
    <3>2. BindFn(s)
      BY <1>1, <2>1 DEF BoundInv
    <3> QED
      BY <3>1, <3>2
  <2>3. Multis(s)
    BY <2>1, <2>2, TableAssumption DEF Programs
  <2>4. /\ Grouping(s) /\ IsRows(s.pays) /\ (\A p \in DOMAIN s.pays : s.pays[p] \in Lanes)
        /\ IsRows(s.wants) /\ DOMAIN s.wants = DOMAIN s.pays /\ OwnColumns(s.wants) /\ (~Active(s.f) => s.primary = 1)
    BY <2>2, <2>3 DEF Multis, OwnColumns
  <2>5. Takes(s, h)
    BY <1>1, <2>1 DEF ShownInv
  <2>6. ~TwoSided(s, h)
    BY <1>1, <2>1 DEF HasAnswer
  <2>7. PICK a \in RunFn(gpu, s, h) : a.err = "" /\ res[c].rows = a.rows
    BY <1>1, <2>1 DEF HasAnswer
  <2>8. a \in Answers(gpu, s, h)
    BY <2>1, <2>7 DEF Instantiated
  <2>9. PICK set, ws, shared, primary, fan :
          /\ set = h[1] /\ ws = s.wants /\ shared = s.want \cap Shared /\ primary = s.primary
          /\ fan = GroupsOfMany(Lane(set.key, NoLane), Payloads(set, s), resolve_where(set, s.where), s.f, s.cap,
                                AskedAll(ws), primary, shared)
    OBVIOUS
  <2>10. a = gm_function(fan, s)
    <3>1. (IF Active(s.f) THEN s.primary ELSE 1) = primary
      BY <2>4, <2>9
    <3> QED
      BY <2>1, <2>8, <2>9, <3>1, MultiAnswered
  <2>11. Fine(fan)
    <3>1. a.err = fan.err
      BY <2>10, ManyReply
    <3> QED
      BY <2>7, <3>1, Zenon DEF Fine
  <2>12. PICK n, home : GroupQuery(set, s, n, home)
    <3>1. gpu \in Sides /\ \A j \in DOMAIN s.from : SetOn(h[j], Side(gpu))
      BY <1>1, <2>1 DEF SideInv, HeldInv
    <3> QED
      BY <2>1, <2>4, <2>5, <2>6, <2>9, <3>1, GroupTakes
  <2>13. IsFilter(s.f) /\ s.want \subseteq All /\ "keys" \in s.want
    BY <2>2, <2>4 DEF Grouping
  <2>14. MultiQuery(set, s, ws, n, home, shared)
    BY <2>4, <2>9, <2>12, <2>13 DEF MultiQuery, Shared
  <2>15. SameAs(a.rows, set.rows, s, s.pays, ws) /\ IsRows(a.rows)
    <3>1. Apart /\ Unread \notin Limbs
      OBVIOUS
    <3>2. IsRows(ws) /\ (~Active(s.f) => primary = 1)
      BY <2>4, <2>9
    <3> QED
      BY ONLY <2>9, <2>10, <2>11, <2>13, <2>14, <3>1, <3>2, MultiAnswers
  <2>16. res[c].rows = a.rows
    BY <2>7, Zenon
  <2>17. sent[c] = a.rows
    BY <1>1, <2>15, <2>16 DEF WholeAnswer
  <2>18. h[1].rows = set.rows /\ ws = s.wants
    BY <2>9
  <2> QED
    BY ONLY <2>1, <2>15, <2>17, <2>18
<1> QED
  BY <1>1, SetsAreShown, SidesSound, HeldSound, OnlyBoundRun, WholeAnswers, PTL

\* ---- joins of two lists ------------------------------------------------------------------
LEMMA ListJoinPairs ==
  ASSUME NEW g0, NEW s, Pairings(s), NEW r, r = ListJoin(g0, s.build, s.probe), Fine(r)
  PROVE  ListsFirsts(r.pairs, s.build, s.probe)
<1>1. PICK build, probe : build = s.build /\ probe = s.probe
  OBVIOUS
<1>2. PICK n \in Nat, np \in Nat : n = Len(build) /\ np = Len(probe) /\ DOMAIN build = 1..n /\ DOMAIN probe = 1..np
  BY <1>1 DEF Pairings, IsRows
<1>3. \A b \in 1..n : build[b] \in Int
  BY <1>1, <1>2, WordsAreInts DEF Pairings, ToSet
<1>4. \A i \in 1..np : probe[i] \in Int
  BY <1>1, <1>2, WordsAreInts DEF Pairings, ToSet
<1>5. IsPair(build, n, probe, np)
  BY <1>1, <1>2, <1>3, <1>4 DEF IsPair, Pairings
<1>6. CASE r = FirstMatches(build, probe)
  <2>1. ListsFirsts(FirstMatches(build, probe).pairs, build, probe)
    BY <1>2, HostListJoin
  <2> QED
    BY <1>1, <1>6, <2>1
<1>7. CASE r = DeviceHashJoin(build, probe) /\ (build = <<>> \/ probe = <<>>)
  <2>1. r = ListReply(<<>>)
    BY <1>7 DEF DeviceHashJoin, ListReply
  <2>2. r.pairs = <<>>
    BY <2>1, ListReplies
  <2>3. FirstPairs(probe, build) = {}
    <3>1. DOMAIN build = {} \/ DOMAIN probe = {}
      BY <1>7
    <3> QED
      BY <3>1 DEF FirstPairs
  <2>4. Cardinality({}) = 0
    BY FS_EmptySet
  <2>5. DOMAIN <<>> = 1..0 /\ <<>> = [j \in DOMAIN <<>> |-> <<>>[j]] /\ {<<>>[j] : j \in DOMAIN <<>>} = {}
    OBVIOUS
  <2>6. ListsFirsts(<<>>, build, probe)
    BY <2>3, <2>4, <2>5 DEF ListsFirsts
  <2> QED
    BY <1>1, <2>2, <2>6
<1>8. CASE r = DeviceHashJoin(build, probe) /\ build # <<>> /\ probe # <<>>
  <2>1. PICK T, order : T = HashTable(build) /\ order = AnyOrder(np)
    OBVIOUS
  <2>2. Empties \notin ToSet(build) /\ r.pairs = FoundPairs(T, FoundRows(T, order, probe), probe)
    BY <1>2, <1>8, <2>1, DeviceListIs
  <2>3. ListsFirsts(FoundPairs(T, FoundRows(T, order, probe), probe), build, probe)
    BY <1>5, <2>1, <2>2, DeviceListJoin
  <2> QED
    BY <1>1, <2>2, <2>3
<1>9. r = FirstMatches(build, probe) \/ r = DeviceHashJoin(build, probe)
  BY <1>1 DEF ListJoin
<1> QED
  BY <1>6, <1>7, <1>8, <1>9

LEMMA ListAnswered ==
  ASSUME NEW g0, NEW s, s.op = "inner", NEW h, NEW a \in Answers(g0, s, h)
  PROVE  a = rows_function(ListJoin(g0, s.build, s.probe))
BY DEF Answers

LEMMA PairsReply == \A r : rows_function(r).err = r.err /\ rows_function(r).rows = r.pairs
BY DEF rows_function, Reply

\* Whatever slots of its table the device's threads claim first, and wherever the planner
\* sends it, a join of two lists of any length hands out each probe row with a match once,
\* with the first build row of its key.
THEOREM ListJoinsAreNative == ASSUME Instantiated PROVE Spec => []ListJoinIsNative
<1>1. ASSUME SideInv, \A c \in Callers : WholeAnswer(c) /\ (pc[c] = "emit" => HasAnswer(c)) PROVE ListJoinIsNative
  <2> SUFFICES ASSUME NEW c \in Callers, pc[c] = "emit", Len(sent[c]) >= Len(res[c].rows), Stmt(c).op = "inner",
                      NEW firsts, firsts = FirstPairs(Stmt(c).probe, Stmt(c).build)
               PROVE  ToSet(sent[c]) = firsts /\ Len(sent[c]) = Cardinality(firsts)
    BY DEF ListJoinIsNative, Answering
  <2>1. PICK s, h : s = Stmt(c) /\ h = held[c]
    OBVIOUS
  <2>2. s \in Statements
    BY <1>1, <2>1, StmtKnown
  <2>3. Pairings(s)
    BY <2>1, <2>2, TableAssumption DEF Programs
  <2>4. PICK a \in RunFn(gpu, s, h) : a.err = "" /\ res[c].rows = a.rows
    BY <1>1, <2>1 DEF HasAnswer
  <2>5. a \in Answers(gpu, s, h)
    BY <2>4 DEF Instantiated
  <2>6. PICK r : r = ListJoin(gpu, s.build, s.probe)
    OBVIOUS
  <2>7. a = rows_function(r)
    BY <2>1, <2>5, <2>6, ListAnswered
  <2>8. a.err = r.err /\ a.rows = r.pairs
    BY <2>7, PairsReply, Zenon
  <2>9. Fine(r)
    BY <2>4, <2>8, Zenon DEF Fine
  <2>10. ListsFirsts(r.pairs, s.build, s.probe)
    BY <2>3, <2>6, <2>9, ListJoinPairs
  <2>11. PICK rows, n : rows = r.pairs /\ n = Cardinality(firsts)
    OBVIOUS
  <2>12. n \in Nat /\ DOMAIN rows = 1..n /\ rows = [j \in DOMAIN rows |-> rows[j]] /\ {rows[j] : j \in DOMAIN rows} = firsts
    BY <2>1, <2>10, <2>11 DEF ListsFirsts
  <2>13. Len(rows) = n /\ IsRows(rows) /\ ToSet(rows) = firsts
    BY <2>12 DEF IsRows, ToSet
  <2>14. res[c].rows = rows
    BY <2>4, <2>8, <2>11
  <2>15. sent[c] = rows
    BY <1>1, <2>13, <2>14 DEF WholeAnswer
  <2> QED
    BY <2>11, <2>13, <2>15
<1> QED
  BY <1>1, SidesSound, WholeAnswers, PTL
=============================================================================
