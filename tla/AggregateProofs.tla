---------------------------- MODULE AggregateProofs ----------------------------
(***************************************************************************)
(* What the folds of the operators compute over any number of rows.  The   *)
(* induction theorems of the library take a predicate as a parameter,      *)
(* which the provers cannot instantiate: here a predicate is the set of    *)
(* what satisfies it.  A fold over a sequence is one element of a function *)
(* on the subsets of its positions, so its existence is proved first.      *)
(***************************************************************************)
EXTENDS OperatorProofs, WellFoundedInduction

\* ---- induction -----------------------------------------------------------------
LEMMA CountUp ==
  ASSUME NEW n \in Nat, NEW P, 0 \in P, \A k \in 1..n : k - 1 \in P => k \in P
  PROVE  \A k \in 0..n : k \in P
<1> DEFINE bad == {k \in 0..n : k \notin P}
<1> SUFFICES ASSUME bad # {} PROVE FALSE
  OBVIOUS
<1>1. PICK x \in bad : \A y \in bad : ~(<<y, x>> \in OpToRel(<, Nat))
  <2>1. bad \subseteq Nat
    OBVIOUS
  <2> HIDE DEF bad
  <2> QED
    BY <2>1, WFMin, NatLessThanWellFounded
<1>2. x \in 1..n /\ x - 1 \in 0..n /\ x - 1 < x
  OBVIOUS
<1>3. x - 1 \notin bad
  <2>1. <<x - 1, x>> \in Nat \X Nat /\ <<x - 1, x>>[1] < <<x - 1, x>>[2]
    BY <1>2
  <2>2. <<x - 1, x>> \in OpToRel(<, Nat)
    BY <2>1, Zenon DEF OpToRel
  <2> QED
    BY <1>1, <2>2
<1> QED
  BY <1>2, <1>3

LEMMA GrowSet ==
  ASSUME NEW n \in Nat, NEW P, {} \in P,
         \A S \in SUBSET (1..n) : \A x \in (1..n) \ S : S \in P => S \cup {x} \in P
  PROVE  \A S \in SUBSET (1..n) : S \in P
<1> DEFINE Q == {k \in 0..n : \A S \in SUBSET (1..k) : S \in P}
<1>1. 0 \in Q
  <2>1. \A S \in SUBSET (1..0) : S = {}
    OBVIOUS
  <2>2. \A S \in SUBSET (1..0) : S \in P
    BY <2>1, Zenon
  <2> QED
    BY <2>2
<1>2. ASSUME NEW k \in 1..n, k - 1 \in Q PROVE k \in Q
  <2> SUFFICES ASSUME NEW S \in SUBSET (1..k) PROVE S \in P
    OBVIOUS
  <2>1. S \ {k} \in SUBSET (1..k - 1) /\ S \in SUBSET (1..n)
    OBVIOUS
  <2>2. S \ {k} \in P
    BY <1>2, <2>1
  <2>3. CASE k \in S
    <3>1. (S \ {k}) \cup {k} = S
      BY <2>3
    <3>2. S \ {k} \in SUBSET (1..n) /\ k \in (1..n) \ (S \ {k})
      BY <2>1
    <3> QED
      BY <2>2, <3>1, <3>2
  <2>4. CASE k \notin S
    <3>1. S \ {k} = S
      BY <2>4
    <3> QED
      BY <2>2, <3>1
  <2> QED
    BY <2>3, <2>4
<1>3. \A k \in 0..n : k \in Q
  <2> HIDE DEF Q
  <2> QED
    BY <1>1, <1>2, CountUp
<1> QED
  BY <1>3

LEMMA MaxIsLargest ==
  ASSUME NEW n \in Nat, NEW S \in SUBSET (1..n), S # {}
  PROVE  Max(S) \in S /\ \A y \in S : Max(S) >= y
<1> DEFINE P == {T \in SUBSET (1..n) : T # {} => \E x \in T : \A y \in T : x >= y}
<1>1. {} \in P
  OBVIOUS
<1>2. ASSUME NEW T \in SUBSET (1..n), NEW x \in (1..n) \ T, T \in P PROVE T \cup {x} \in P
  <2>1. CASE T = {}
    BY <2>1
  <2>2. CASE T # {}
    <3>1. PICK m \in T : \A y \in T : m >= y
      BY <1>2, <2>2
    <3>2. CASE m >= x
      BY <3>1, <3>2
    <3>3. CASE ~(m >= x)
      BY <3>1, <3>3
    <3> QED
      BY <3>2, <3>3
  <2> QED
    BY <2>1, <2>2
<1>3. S \in P
  <2> HIDE DEF P
  <2> QED
    BY <1>1, <1>2, GrowSet
<1> QED
  BY <1>3 DEF Max

\* ---- folds ---------------------------------------------------------------------
\* h folds step over the subsets of 1..n, the largest position last.
Folds(h, n, base, step) ==
    \A s \in SUBSET (1..n) : h[s] = IF s = {} THEN base ELSE step[Max(s)][h[s \ {Max(s)}]]
\* step[k][t] is the accumulator after position k when it was t.
IsStep(step, n, A) == step \in [1..n -> [A -> A]]

LEMMA FoldExists ==
  ASSUME NEW n \in Nat, NEW A, NEW base \in A, NEW step, IsStep(step, n, A)
  PROVE  \E h \in [SUBSET (1..n) -> A] : Folds(h, n, base, step)
<1> DEFINE P == {k \in 0..n : \E h \in [SUBSET (1..k) -> A] : Folds(h, k, base, step)}
<1>1. 0 \in P
  <2>1. PICK h : h = [s \in SUBSET (1..0) |-> base]
    OBVIOUS
  <2>2. h \in [SUBSET (1..0) -> A]
    BY <2>1
  <2>3. \A s \in SUBSET (1..0) : s = {} /\ h[s] = base
    BY <2>1
  <2>4. Folds(h, 0, base, step)
    BY <2>3 DEF Folds
  <2>5. \E f \in [SUBSET (1..0) -> A] : Folds(f, 0, base, step)
    BY <2>2, <2>4
  <2>6. 0 \in 0..n
    OBVIOUS
  <2> QED
    BY <2>5, <2>6, Zenon
<1>2. ASSUME NEW k \in 1..n, k - 1 \in P PROVE k \in P
  <2>1. PICK g \in [SUBSET (1..k - 1) -> A] : Folds(g, k - 1, base, step)
    BY <1>2
  <2>2. PICK h : h = [s \in SUBSET (1..k) |-> IF k \in s THEN step[k][g[s \ {k}]] ELSE g[s]]
    OBVIOUS
  <2>3. ASSUME NEW s \in SUBSET (1..k), k \in s PROVE Max(s) = k /\ s \ {k} \in SUBSET (1..k - 1) /\ s # {}
    <3>1. Max(s) \in s /\ \A y \in s : Max(s) >= y
      <4>1. k \in Nat /\ s # {}
        BY <2>3
      <4> QED
        BY <4>1, MaxIsLargest
    <3>2. Max(s) \in 1..k
      BY <3>1
    <3> QED
      BY <2>3, <3>1, <3>2
  <2>4. ASSUME NEW s \in SUBSET (1..k), k \notin s PROVE s \in SUBSET (1..k - 1)
    BY <2>4
  <2>5. h \in [SUBSET (1..k) -> A]
    <3> SUFFICES ASSUME NEW s \in SUBSET (1..k) PROVE (IF k \in s THEN step[k][g[s \ {k}]] ELSE g[s]) \in A
      BY <2>2
    <3>1. CASE k \in s
      BY <2>3, <3>1 DEF IsStep
    <3>2. CASE k \notin s
      BY <2>4, <3>2
    <3> QED
      BY <3>1, <3>2
  <2>6. ASSUME NEW s \in SUBSET (1..k)
        PROVE  h[s] = IF s = {} THEN base ELSE step[Max(s)][h[s \ {Max(s)}]]
    <3>1. CASE k \in s
      <4>1. Max(s) = k /\ s \ {k} \in SUBSET (1..k - 1) /\ s # {}
        BY <2>3, <3>1
      <4>2. s \ {k} \in SUBSET (1..k) /\ k \notin s \ {k}
        OBVIOUS
      <4>3. h[s \ {k}] = g[s \ {k}]
        BY <2>2, <4>2
      <4> QED
        BY <2>2, <3>1, <4>1, <4>3
    <3>2. CASE k \notin s
      <4>1. s \in SUBSET (1..k - 1)
        BY <2>4, <3>2
      <4>2. g[s] = IF s = {} THEN base ELSE step[Max(s)][g[s \ {Max(s)}]]
        BY <2>1, <4>1 DEF Folds
      <4>3. h[s] = g[s]
        BY <2>2, <3>2
      <4>4. s \ {Max(s)} \in SUBSET (1..k) /\ k \notin s \ {Max(s)}
        BY <3>2
      <4>5. h[s \ {Max(s)}] = g[s \ {Max(s)}]
        BY <2>2, <4>4
      <4> QED
        BY <4>2, <4>3, <4>5
    <3> QED
      BY <3>1, <3>2
  <2>7. Folds(h, k, base, step)
    BY <2>6 DEF Folds
  <2> QED
    BY <2>5, <2>7
<1>3. \A k \in 0..n : k \in P
  <2> HIDE DEF P
  <2> QED
    BY <1>1, <1>2, CountUp
<1>4. n \in P
  <2>1. n \in 0..n
    OBVIOUS
  <2> QED
    BY <1>3, <2>1
<1> QED
  BY <1>4, Zenon

\* The same of a function whose values off A nobody knows: its prefixes.
Steps(h, n, A, base, step) ==
    \A s \in SUBSET (1..n) :
        /\ s = {} => h[s] = base
        /\ s # {} /\ h[s \ {Max(s)}] \in A => h[s] = step[Max(s)][h[s \ {Max(s)}]]
IsRun(g, n, A, base, step) ==
    g \in [0..n -> A] /\ g[0] = base /\ \A k \in 1..n : g[k] = step[k][g[k - 1]]

LEMMA FoldRuns ==
  ASSUME NEW n \in Nat, NEW A, NEW base \in A, NEW step, IsStep(step, n, A), NEW h, Steps(h, n, A, base, step)
  PROVE  IsRun([k \in 0..n |-> h[1..k]], n, A, base, step)
<1> DEFINE g == [k \in 0..n |-> h[1..k]]
<1>1. g[0] = base
  <2>1. 1..0 = {} /\ 1..0 \in SUBSET (1..n)
    OBVIOUS
  <2> QED
    BY <2>1 DEF Steps
<1>2. ASSUME NEW k \in 1..n, g[k - 1] \in A PROVE g[k] = step[k][g[k - 1]]
  <2>1. 1..k \in SUBSET (1..n) /\ 1..k # {} /\ (1..k) \ {k} = 1..k - 1 /\ k \in 1..k
    OBVIOUS
  <2>2. Max(1..k) = k
    <3>1. Max(1..k) \in 1..k /\ \A y \in 1..k : Max(1..k) >= y
      BY <2>1, MaxIsLargest
    <3> QED
      BY <2>1, <3>1
  <2>3. h[1..k - 1] \in A
    BY <1>2
  <2>4. h[1..k] = step[k][h[1..k - 1]]
    BY <2>1, <2>2, <2>3 DEF Steps
  <2> QED
    BY <2>4
<1>3. \A k \in 0..n : g[k] \in A
  <2> DEFINE P == {k \in 0..n : g[k] \in A}
  <2>1. 0 \in P
    BY <1>1
  <2>2. ASSUME NEW k \in 1..n, k - 1 \in P PROVE k \in P
    <3>1. g[k] = step[k][g[k - 1]] /\ g[k - 1] \in A
      BY <1>2, <2>2
    <3> QED
      BY <3>1 DEF IsStep
  <2>3. \A k \in 0..n : k \in P
    <3> HIDE DEF P
    <3> QED
      BY <2>1, <2>2, CountUp
  <2> QED
    BY <2>3
<1>4. \A k \in 1..n : g[k - 1] \in A
  BY <1>3
<1> QED
  BY <1>1, <1>2, <1>3, <1>4 DEF IsRun

\* ---- the aggregate of a set of rows ----------------------------------------------
\* M[S] is what the rows of S come to, in whatever order and grouping.
IsWhole(M, v, n) ==
    /\ M \in [SUBSET (1..n) -> Tuple] /\ M[{}] = NoTuple
    /\ \A S \in SUBSET (1..n) : \A i \in (1..n) \ S : M[S \cup {i}] = Combined(M[S], RowTuple(v, i))
\* The cells the statement counts hold words.
WordRows(v, n) == \A i \in 1..n : Counts(v, i) => Cell(v, i) \in Word

LEMMA RowsHaveTuples == ASSUME NEW v, NEW n, WordRows(v, n), NEW i \in 1..n PROVE RowTuple(v, i) \in Tuple
<1>1. NoTuple \in Tuple /\ (Counts(v, i) => Cell(v, i) \in Word)
  BY EmptyType DEF WordRows
<1> QED
  BY <1>1, RowsAreParts

LEMMA WholeExists ==
  ASSUME NEW n \in Nat, NEW v, WordRows(v, n)
  PROVE  \E M : IsWhole(M, v, n)
<1> DEFINE P == {k \in 0..n : \E M : IsWhole(M, v, k)}
<1>1. 0 \in P
  <2>1. PICK M : M = [S \in SUBSET (1..0) |-> NoTuple]
    OBVIOUS
  <2>2. M \in [SUBSET (1..0) -> Tuple] /\ M[{}] = NoTuple /\ 1..0 = {}
    BY <2>1, EmptyType
  <2>3. IsWhole(M, v, 0)
    BY <2>2 DEF IsWhole
  <2> QED
    BY <2>3
<1>2. ASSUME NEW k \in 1..n, k - 1 \in P PROVE k \in P
  <2>1. PICK L : IsWhole(L, v, k - 1)
    BY <1>2
  <2>2. PICK M : M = [S \in SUBSET (1..k) |-> IF k \in S THEN Combined(L[S \ {k}], RowTuple(v, k)) ELSE L[S]]
    OBVIOUS
  <2>3. \A i \in 1..k : RowTuple(v, i) \in Tuple
    BY RowsHaveTuples
  <2>4. \A S \in SUBSET (1..k) : S \ {k} \in SUBSET (1..k - 1) /\ L[S \ {k}] \in Tuple
    <3>1. \A S \in SUBSET (1..k) : S \ {k} \in SUBSET (1..k - 1)
      OBVIOUS
    <3> QED
      BY <2>1, <3>1 DEF IsWhole
  <2>5. M \in [SUBSET (1..k) -> Tuple]
    <3> SUFFICES ASSUME NEW S \in SUBSET (1..k) PROVE (IF k \in S THEN Combined(L[S \ {k}], RowTuple(v, k)) ELSE L[S]) \in Tuple
      BY <2>2
    <3>1. CASE k \in S
      BY <2>3, <2>4, <3>1, CombinedType
    <3>2. CASE k \notin S
      <4>1. S \ {k} = S
        BY <3>2
      <4> QED
        BY <2>4, <3>2, <4>1
    <3> QED
      BY <3>1, <3>2
  <2>6. M[{}] = NoTuple
    BY <2>1, <2>2 DEF IsWhole
  <2>7. ASSUME NEW S \in SUBSET (1..k), NEW i \in (1..k) \ S PROVE M[S \cup {i}] = Combined(M[S], RowTuple(v, i))
    <3>1. S \cup {i} \in SUBSET (1..k)
      OBVIOUS
    <3>2. CASE i = k
      <4>1. (S \cup {i}) \ {k} = S /\ k \notin S /\ k \in S \cup {i}
        BY <2>7, <3>2
      <4> QED
        BY <2>2, <3>1, <3>2, <4>1
    <3>3. CASE i # k /\ k \notin S
      <4>1. k \notin S \cup {i} /\ S \in SUBSET (1..k - 1) /\ i \in (1..k - 1) \ S
        BY <2>7, <3>3
      <4>2. L[S \cup {i}] = Combined(L[S], RowTuple(v, i))
        BY <2>1, <4>1 DEF IsWhole
      <4> QED
        BY <2>2, <3>1, <3>3, <4>1, <4>2
    <3>4. CASE i # k /\ k \in S
      <4>1. k \in S \cup {i} /\ (S \cup {i}) \ {k} = (S \ {k}) \cup {i} /\ i \in (1..k - 1) \ (S \ {k})
        BY <2>7, <3>4
      <4>2. L[(S \ {k}) \cup {i}] = Combined(L[S \ {k}], RowTuple(v, i))
        BY <2>1, <2>4, <4>1 DEF IsWhole
      <4>3. PICK a \in Tuple, b \in Tuple, c \in Tuple : a = L[S \ {k}] /\ b = RowTuple(v, i) /\ c = RowTuple(v, k)
        BY <2>3, <2>4
      <4>4. Combined(Combined(a, b), c) = Combined(Combined(a, c), b)
        <5>1. Combined(Combined(a, b), c) = Combined(a, Combined(b, c)) /\ Combined(Combined(a, c), b) = Combined(a, Combined(c, b))
              /\ Combined(b, c) = Combined(c, b)
          BY PartsAssociate, PartsCommute
        <5> QED
          BY <5>1
      <4>5. M[S \cup {i}] = Combined(Combined(a, b), c)
        BY <2>2, <3>1, <4>1, <4>2, <4>3
      <4>6. M[S] = Combined(a, c)
        BY <2>2, <3>4, <4>3
      <4> QED
        BY <4>3, <4>4, <4>5, <4>6
    <3> QED
      BY <3>2, <3>3, <3>4
  <2>8. IsWhole(M, v, k)
    BY <2>5, <2>6, <2>7 DEF IsWhole
  <2> QED
    BY <2>8
<1>3. n \in P
  <2>1. \A k \in 0..n : k \in P
    <3> HIDE DEF P
    <3> QED
      BY <1>1, <1>2, CountUp
  <2>2. n \in 0..n
    OBVIOUS
  <2> QED
    BY <2>1, <2>2
<1> QED
  BY <1>3, Zenon

\* M holds the aggregates of the rows 1..n.
Aggregates(M, v, n) == n \in Nat /\ WordRows(v, n) /\ IsWhole(M, v, n)

\* The aggregate of two sets of rows is that of their union.
LEMMA WholeUnion ==
  ASSUME NEW n, NEW v, NEW M, Aggregates(M, v, n)
  PROVE  \A S, T \in SUBSET (1..n) : S \cap T = {} => M[S \cup T] = Combined(M[S], M[T])
<1> SUFFICES ASSUME NEW S \in SUBSET (1..n), NEW T \in SUBSET (1..n), S \cap T = {} PROVE M[S \cup T] = Combined(M[S], M[T])
  OBVIOUS
<1> n \in Nat /\ WordRows(v, n) /\ IsWhole(M, v, n)
  BY DEF Aggregates
<1> DEFINE P == {U \in SUBSET (1..n) : S \cap U = {} => M[S \cup U] = Combined(M[S], M[U])}
<1>0. \A U \in SUBSET (1..n) : M[U] \in Tuple
  BY DEF IsWhole
<1>1. {} \in P
  <2>1. S \cup {} = S /\ M[{}] = NoTuple
    BY DEF IsWhole
  <2>2. Combined(M[S], NoTuple) = M[S]
    BY <1>0, EmptyType, PartsCommute, NothingAddsNothing
  <2> QED
    BY <2>1, <2>2
<1>2. ASSUME NEW U \in SUBSET (1..n), NEW i \in (1..n) \ U, U \in P PROVE U \cup {i} \in P
  <2> SUFFICES ASSUME S \cap (U \cup {i}) = {} PROVE M[S \cup (U \cup {i})] = Combined(M[S], M[U \cup {i}])
    OBVIOUS
  <2>1. S \cup (U \cup {i}) = (S \cup U) \cup {i} /\ i \in (1..n) \ (S \cup U) /\ S \cup U \in SUBSET (1..n) /\ S \cap U = {}
    OBVIOUS
  <2>2. M[(S \cup U) \cup {i}] = Combined(M[S \cup U], RowTuple(v, i)) /\ M[U \cup {i}] = Combined(M[U], RowTuple(v, i))
    BY <2>1 DEF IsWhole
  <2>3. M[S \cup U] = Combined(M[S], M[U])
    BY <1>2, <2>1
  <2>4. RowTuple(v, i) \in Tuple
    BY RowsHaveTuples
  <2>5. PICK a \in Tuple, b \in Tuple, c \in Tuple : a = M[S] /\ b = M[U] /\ c = RowTuple(v, i)
    BY <1>0, <2>4
  <2>6. Combined(Combined(a, b), c) = Combined(a, Combined(b, c))
    BY PartsAssociate
  <2> QED
    BY <2>1, <2>2, <2>3, <2>5, <2>6
<1>3. T \in P
  <2> HIDE DEF P
  <2> QED
    BY <1>1, <1>2, GrowSet
<1> QED
  BY <1>3

\* ---- the folds over rows -----------------------------------------------------------
\* parts has m sets of rows, no row in two of them.
ArePart(parts, m, n) ==
    /\ m \in Nat /\ \A j \in 1..m : parts[j] \in SUBSET (1..n)
    /\ \A i, j \in 1..m : i # j => parts[i] \cap parts[j] = {}
Covered(parts, k) == UNION {parts[j] : j \in 1..k}

Combines(step, M, parts, m) == \A k \in 1..m : \A t \in Tuple : step[k][t] = Combined(t, M[parts[k]])

Merges(g, step, m, parts, M, v, n) ==
    /\ Aggregates(M, v, n) /\ ArePart(parts, m, n) /\ Combines(step, M, parts, m)
    /\ IsRun(g, m, Tuple, NoTuple, step)

\* An accumulator that combines one part after the other ends with what their
\* rows come to.
LEMMA RunIsWhole ==
  ASSUME NEW n, NEW v, NEW M, NEW m, NEW parts, NEW step, NEW g, Merges(g, step, m, parts, M, v, n)
  PROVE  g[m] = M[Covered(parts, m)]
<1> Aggregates(M, v, n) /\ ArePart(parts, m, n) /\ Combines(step, M, parts, m) /\ IsRun(g, m, Tuple, NoTuple, step)
  BY DEF Merges
<1> n \in Nat /\ WordRows(v, n) /\ IsWhole(M, v, n)
  BY DEF Aggregates
<1>1. m \in Nat
  BY DEF ArePart
<1> DEFINE P == {k \in 0..m : g[k] = M[Covered(parts, k)]}
<1>2. 0 \in P
  <2>1. Covered(parts, 0) = {}
    BY DEF Covered
  <2>2. g[0] = NoTuple /\ M[{}] = NoTuple
    BY DEF IsRun, IsWhole
  <2>3. 0 \in 0..m
    BY <1>1
  <2> QED
    BY <2>1, <2>2, <2>3
<1>3. ASSUME NEW k \in 1..m, k - 1 \in P PROVE k \in P
  <2>1. g[k - 1] = M[Covered(parts, k - 1)] /\ g[k - 1] \in Tuple /\ g[k] = step[k][g[k - 1]]
    BY <1>3 DEF IsRun
  <2>2. g[k] = Combined(M[Covered(parts, k - 1)], M[parts[k]])
    BY <2>1 DEF Combines
  <2>3. 1..k = (1..k - 1) \cup {k} /\ k \notin 1..k - 1 /\ 1..k \subseteq 1..m
    BY <1>1
  <2>4. Covered(parts, k) = Covered(parts, k - 1) \cup parts[k]
    BY <2>3 DEF Covered
  <2>5. Covered(parts, k - 1) \cap parts[k] = {} /\ Covered(parts, k - 1) \in SUBSET (1..n) /\ parts[k] \in SUBSET (1..n)
    BY <2>3 DEF Covered, ArePart
  <2>6. M[Covered(parts, k)] = Combined(M[Covered(parts, k - 1)], M[parts[k]])
    <3>1. PICK S \in SUBSET (1..n), T \in SUBSET (1..n) : S = Covered(parts, k - 1) /\ T = parts[k]
      BY <2>5
    <3>2. S \cap T = {}
      BY <2>5, <3>1
    <3>3. M[S \cup T] = Combined(M[S], M[T])
      <4>1. \A A, B \in SUBSET (1..n) : A \cap B = {} => M[A \cup B] = Combined(M[A], M[B])
        BY WholeUnion
      <4> QED
        BY <3>2, <4>1
    <3> QED
      BY <2>4, <3>1, <3>3
  <2> QED
    BY <2>2, <2>6
<1>4. \A k \in 0..m : k \in P
  <2> HIDE DEF P
  <2> QED
    BY <1>1, <1>2, <1>3, CountUp
<1>5. m \in 0..m
  BY <1>1
<1> QED
  BY <1>4, <1>5

LEMMA WholeOfRow ==
  ASSUME NEW n, NEW v, NEW M, Aggregates(M, v, n), NEW i \in 1..n
  PROVE  M[{i}] = RowTuple(v, i)
<1> n \in Nat /\ WordRows(v, n) /\ IsWhole(M, v, n)
  BY DEF Aggregates
<1>1. {} \in SUBSET (1..n) /\ i \in (1..n) \ {} /\ {} \cup {i} = {i}
  OBVIOUS
<1>2. M[{i}] = Combined(NoTuple, RowTuple(v, i))
  BY <1>1 DEF IsWhole
<1> QED
  BY <1>2, RowsHaveTuples, NothingAddsNothing

\* rows has rows of 1..n, none twice.
IsSelection(rows, m, n) ==
    /\ m \in Nat /\ DOMAIN rows = 1..m /\ \A j \in 1..m : rows[j] \in 1..n
    /\ \A i, j \in 1..m : i # j => rows[i] # rows[j]
Met(rows, k) == {rows[j] : j \in 1..k}

\* The CPU's loop over any selection of rows comes to their aggregate.
LEMMA ReducedIsWhole ==
  ASSUME NEW n, NEW v, NEW M, Aggregates(M, v, n),
         NEW rows, NEW m, IsSelection(rows, m, n)
  PROVE  Reduced(rows, v) = M[Met(rows, m)]
<1> n \in Nat /\ WordRows(v, n) /\ IsWhole(M, v, n)
  BY DEF Aggregates
<1> DEFINE step == [k \in 1..m |-> [t \in Tuple |-> AddRow(t, v, rows[k])]]
<1>1. \A t \in Tuple : \A k \in 1..m : AddRow(t, v, rows[k]) = Combined(t, RowTuple(v, rows[k])) /\ AddRow(t, v, rows[k]) \in Tuple
  <2> SUFFICES ASSUME NEW t \in Tuple, NEW k \in 1..m
               PROVE  AddRow(t, v, rows[k]) = Combined(t, RowTuple(v, rows[k])) /\ AddRow(t, v, rows[k]) \in Tuple
    OBVIOUS
  <2>1. rows[k] \in 1..n /\ (Counts(v, rows[k]) => Cell(v, rows[k]) \in Word)
    BY DEF IsSelection, WordRows
  <2> QED
    BY <2>1, RowsAreParts, CombinedType
<1>2. IsStep(step, m, Tuple) /\ m \in Nat /\ NoTuple \in Tuple /\ DOMAIN rows = 1..m
  BY <1>1, EmptyType DEF IsStep, IsSelection
<1>3. PICK h \in [SUBSET (1..m) -> Tuple] : Folds(h, m, NoTuple, step)
  <2> HIDE DEF step
  <2> QED
    BY <1>2, FoldExists
<1>4. h = [s \in SUBSET DOMAIN rows |-> IF s = {} THEN NoTuple ELSE AddRow(h[s \ {Max(s)}], v, rows[Max(s)])]
  <2> SUFFICES ASSUME NEW s \in SUBSET (1..m)
               PROVE  h[s] = IF s = {} THEN NoTuple ELSE AddRow(h[s \ {Max(s)}], v, rows[Max(s)])
    BY <1>2
  <2>1. CASE s = {}
    BY <1>3, <2>1 DEF Folds
  <2>2. CASE s # {}
    <3>1. Max(s) \in 1..m
      <4>1. Max(s) \in s
        BY <1>2, <2>2, MaxIsLargest
      <4> QED
        BY <4>1
    <3>2. h[s] = step[Max(s)][h[s \ {Max(s)}]] /\ h[s \ {Max(s)}] \in Tuple
      BY <1>3, <2>2 DEF Folds
    <3> QED
      BY <2>2, <3>1, <3>2
  <2> QED
    BY <2>1, <2>2
<1>5. PICK f : f = [s \in SUBSET DOMAIN rows |-> IF s = {} THEN NoTuple ELSE AddRow(f[s \ {Max(s)}], v, rows[Max(s)])]
               /\ Reduced(rows, v) = f[DOMAIN rows]
  <2> HIDE DEF step
  <2> QED
    BY <1>4 DEF Reduced, FoldLeft, MapThenFoldSet
<1>6. Steps(f, m, Tuple, NoTuple, step)
  <2> SUFFICES ASSUME NEW s \in SUBSET (1..m), s # {}, f[s \ {Max(s)}] \in Tuple PROVE f[s] = step[Max(s)][f[s \ {Max(s)}]]
    BY <1>2, <1>5 DEF Steps
  <2>1. Max(s) \in 1..m
    <3>1. Max(s) \in s
      BY <1>2, MaxIsLargest
    <3> QED
      BY <3>1
  <2>2. f[s] = AddRow(f[s \ {Max(s)}], v, rows[Max(s)])
    BY <1>2, <1>5
  <2> QED
    BY <2>1, <2>2
<1>7. PICK g : g = [k \in 0..m |-> f[1..k]] /\ IsRun(g, m, Tuple, NoTuple, step)
  <2> HIDE DEF step
  <2> QED
    BY <1>2, <1>6, FoldRuns
<1> DEFINE parts == [k \in 1..m |-> {rows[k]}]
<1>8. ArePart(parts, m, n) /\ Covered(parts, m) = Met(rows, m)
  BY DEF ArePart, Covered, Met, IsSelection
<1>9. Combines(step, M, parts, m)
  <2> SUFFICES ASSUME NEW k \in 1..m, NEW t \in Tuple PROVE step[k][t] = Combined(t, M[parts[k]])
    BY DEF Combines
  <2>1. rows[k] \in 1..n
    BY DEF IsSelection
  <2>2. M[parts[k]] = RowTuple(v, rows[k])
    BY <2>1, WholeOfRow
  <2> QED
    BY <1>1, <2>2
<1>10. g[m] = M[Covered(parts, m)]
  <2> HIDE DEF parts, step
  <2>1. Merges(g, step, m, parts, M, v, n)
    BY <1>7, <1>8, <1>9 DEF Merges
  <2> QED
    BY <2>1, RunIsWhole
<1>11. f[DOMAIN rows] = g[m]
  BY <1>2, <1>7
<1> QED
  BY <1>5, <1>8, <1>10, <1>11

\* seq has what each part comes to.
AreWholes(seq, M, parts, m) == DOMAIN seq = 1..m /\ \A k \in 1..m : seq[k] = M[parts[k]]

\* Parts combined one after the other come to the aggregate of all their rows.
LEMMA CombineAllIsWhole ==
  ASSUME NEW n, NEW v, NEW M, Aggregates(M, v, n),
         NEW m, NEW parts, ArePart(parts, m, n), NEW seq, AreWholes(seq, M, parts, m)
  PROVE  CombineAll(seq) = M[Covered(parts, m)]
<1> n \in Nat /\ WordRows(v, n) /\ IsWhole(M, v, n)
  BY DEF Aggregates
<1> DOMAIN seq = 1..m /\ \A k \in 1..m : seq[k] = M[parts[k]]
  BY DEF AreWholes
<1> DEFINE step == [k \in 1..m |-> [t \in Tuple |-> Combined(t, seq[k])]]
<1>1. \A k \in 1..m : seq[k] \in Tuple
  BY DEF ArePart, IsWhole
<1>2. IsStep(step, m, Tuple) /\ m \in Nat /\ NoTuple \in Tuple
  BY <1>1, CombinedType, EmptyType DEF IsStep, ArePart
<1>3. PICK h \in [SUBSET (1..m) -> Tuple] : Folds(h, m, NoTuple, step)
  <2> HIDE DEF step
  <2> QED
    BY <1>2, FoldExists
<1>4. h = [s \in SUBSET DOMAIN seq |-> IF s = {} THEN NoTuple ELSE Combined(h[s \ {Max(s)}], seq[Max(s)])]
  <2> SUFFICES ASSUME NEW s \in SUBSET (1..m)
               PROVE  h[s] = IF s = {} THEN NoTuple ELSE Combined(h[s \ {Max(s)}], seq[Max(s)])
    OBVIOUS
  <2>1. CASE s = {}
    BY <1>3, <2>1 DEF Folds
  <2>2. CASE s # {}
    <3>1. Max(s) \in 1..m
      <4>1. Max(s) \in s
        BY <1>2, <2>2, MaxIsLargest
      <4> QED
        BY <4>1
    <3>2. h[s] = step[Max(s)][h[s \ {Max(s)}]] /\ h[s \ {Max(s)}] \in Tuple
      BY <1>3, <2>2 DEF Folds
    <3> QED
      BY <2>2, <3>1, <3>2
  <2> QED
    BY <2>1, <2>2
<1>5. PICK f : f = [s \in SUBSET DOMAIN seq |-> IF s = {} THEN NoTuple ELSE Combined(f[s \ {Max(s)}], seq[Max(s)])]
               /\ CombineAll(seq) = f[DOMAIN seq]
  <2> HIDE DEF step
  <2> QED
    BY <1>4 DEF CombineAll, FoldLeft, MapThenFoldSet
<1>6. Steps(f, m, Tuple, NoTuple, step)
  <2> SUFFICES ASSUME NEW s \in SUBSET (1..m), s # {}, f[s \ {Max(s)}] \in Tuple PROVE f[s] = step[Max(s)][f[s \ {Max(s)}]]
    BY <1>5 DEF Steps
  <2>1. Max(s) \in 1..m
    <3>1. Max(s) \in s
      BY <1>2, MaxIsLargest
    <3> QED
      BY <3>1
  <2>2. f[s] = Combined(f[s \ {Max(s)}], seq[Max(s)])
    BY <1>5
  <2> QED
    BY <2>1, <2>2
<1>7. PICK g : g = [k \in 0..m |-> f[1..k]] /\ IsRun(g, m, Tuple, NoTuple, step)
  <2> HIDE DEF step
  <2> QED
    BY <1>2, <1>6, FoldRuns
<1>8. Combines(step, M, parts, m)
  BY DEF Combines
<1>9. g[m] = M[Covered(parts, m)]
  <2> HIDE DEF step
  <2>1. Merges(g, step, m, parts, M, v, n)
    BY <1>7, <1>8 DEF Merges
  <2> QED
    BY <2>1, RunIsWhole
<1>10. f[DOMAIN seq] = g[m]
  BY <1>2, <1>7
<1> QED
  BY <1>5, <1>9, <1>10

\* ---- ascending sequences and selections ------------------------------------------
\* e has the numbers of J, each once, ascending.
Ascends(e, J) ==
    /\ Cardinality(J) \in Nat /\ DOMAIN e = 1..Cardinality(J)
    /\ \A k \in 1..Cardinality(J) : e[k] \in J
    /\ \A x \in J : \E k \in 1..Cardinality(J) : e[k] = x
    /\ \A i, j \in 1..Cardinality(J) : i < j => e[i] < e[j]

LEMMA RisingAscends ==
  ASSUME NEW J \in SUBSET Int, IsFiniteSet(J)
  PROVE  Ascends(Rising(J), J)
<1> DEFINE e == Rising(J)
           R == {p \in J \X J : p[1] < p[2]}
           n == Cardinality(J)
<1>1. \A x, y \in J : <<x, y>> \in R <=> x < y
  OBVIOUS
<1>2. IsOrder(R, J)
  <2>1. PICK key : key = [x \in J |-> x]
    OBVIOUS
  <2>2. \A x \in J : key[x] \in Int
    BY <2>1
  <2>3. \A x, y \in J : <<x, y>> \in R <=> key[x] < key[y] \/ (key[x] = key[y] /\ x < y)
    BY <1>1, <2>1
  <2> HIDE DEF R
  <2> QED
    BY <2>2, <2>3, KeyedOrder
<1>3. n \in Nat
  BY FS_CardinalityType
<1>4. \A x \in J : Cardinality({y \in J : y < x}) = RankOf(R, J, x)
  <2>1. \A x \in J : {y \in J : y < x} = Below(R, J, x)
    <3> HIDE DEF R
    <3> QED
      BY <1>1 DEF Below
  <2> QED
    BY <2>1, Zenon DEF RankOf
<1>5. e = [k \in 1..n |-> CHOOSE x \in J : Cardinality({y \in J : y < x}) = k - 1]
  BY DEF Rising, InOrder
<1> HIDE DEF R, e
<1>6. \A j \in 0..n - 1 : \E x \in J : RankOf(R, J, x) = j
  BY <1>2, RanksAreTaken
<1> HIDE DEF n
<1>7. ASSUME NEW k \in 1..n PROVE e[k] \in J /\ RankOf(R, J, e[k]) = k - 1
  <2>1. k - 1 \in 0..n - 1
    BY <1>3
  <2>2. \E x \in J : Cardinality({y \in J : y < x}) = k - 1
    BY <1>4, <1>6, <2>1
  <2>3. e[k] = CHOOSE x \in J : Cardinality({y \in J : y < x}) = k - 1
    BY <1>5
  <2>4. e[k] \in J /\ Cardinality({y \in J : y < e[k]}) = k - 1
    BY <2>2, <2>3
  <2> QED
    BY <1>4, <2>4
<1>8. DOMAIN e = 1..n
  BY <1>5
<1>9. Enumerates(e, R, J)
  <2>1. DOMAIN e = 1..Cardinality(J) /\ \A k \in 1..Cardinality(J) : e[k] \in J /\ RankOf(R, J, e[k]) = k - 1
    BY <1>7, <1>8 DEF n
  <2> QED
    BY <1>2, <2>1, RanksEnumerate
<1>10. \A i, j \in 1..Cardinality(J) : i < j => e[i] < e[j]
  BY <1>1, <1>9 DEF Enumerates
<1>11. Ascends(e, J)
  BY <1>3, <1>9, <1>10 DEF Ascends, Enumerates, n
<1> QED
  BY <1>11 DEF e

\* What is picked from a selection of rows is a selection of them.
LEMMA PickedRows ==
  ASSUME NEW n \in Nat, NEW rows, NEW m, IsSelection(rows, m, n), NEW J \in SUBSET (1..m)
  PROVE  /\ IsSelection(Picked(rows, J), Cardinality(J), n)
         /\ Met(Picked(rows, J), Cardinality(J)) = {rows[j] : j \in J}
         /\ DOMAIN Picked(rows, J) = 1..Cardinality(J)
<1>1. m \in Nat /\ IsFiniteSet(1..m)
  BY FS_Interval DEF IsSelection
<1>2. IsFiniteSet(J) /\ J \in SUBSET Int
  <2>1. 1..m \subseteq Int
    OBVIOUS
  <2>2. IsFiniteSet(J)
    BY <1>1, FS_Subset
  <2> QED
    BY <2>1, <2>2
<1>3. PICK at : at = Rising(J)
  OBVIOUS
<1>4. Ascends(at, J)
  BY <1>2, <1>3, RisingAscends
<1>5. PICK c : c = Cardinality(J)
  OBVIOUS
<1>6. /\ c \in Nat /\ DOMAIN at = 1..c /\ \A k \in 1..c : at[k] \in J
      /\ \A x \in J : \E k \in 1..c : at[k] = x
      /\ \A i, j \in 1..c : i < j => at[i] < at[j]
  BY <1>4, <1>5 DEF Ascends
<1>7. Picked(rows, J) = [k \in 1..c |-> rows[at[k]]]
  BY <1>3, <1>6 DEF Picked
<1>8. \A i, j \in 1..c : i # j => at[i] # at[j]
  <2> SUFFICES ASSUME NEW i \in 1..c, NEW j \in 1..c, i # j PROVE at[i] # at[j]
    OBVIOUS
  <2>1. i < j \/ j < i
    BY <1>6
  <2>2. at[i] < at[j] \/ at[j] < at[i]
    BY <1>6, <2>1
  <2>3. at[i] \in Int /\ at[j] \in Int
    BY <1>2, <1>6
  <2> QED
    BY <2>2, <2>3
<1>9. PICK q : q = [k \in 1..c |-> rows[at[k]]]
  OBVIOUS
<1>10. IsSelection(q, c, n)
  <2>1. \A k \in 1..c : at[k] \in 1..m /\ q[k] = rows[at[k]]
    BY <1>6, <1>9
  <2>2. \A j \in 1..m : rows[j] \in 1..n
    BY DEF IsSelection
  <2>3. \A i, j \in 1..m : i # j => rows[i] # rows[j]
    BY DEF IsSelection
  <2>4. \A k \in 1..c : q[k] \in 1..n
    BY <2>1, <2>2
  <2>5. \A i, j \in 1..c : i # j => q[i] # q[j]
    BY <1>8, <2>1, <2>3
  <2>6. DOMAIN q = 1..c
    BY <1>9
  <2> QED
    BY <1>6, <2>4, <2>5, <2>6 DEF IsSelection
<1>11. Met(q, c) = {rows[j] : j \in J}
  <2>1. \A k \in 1..c : at[k] \in J /\ q[k] = rows[at[k]]
    BY <1>6, <1>9
  <2>2. \A x \in J : \E k \in 1..c : at[k] = x
    BY <1>6
  <2>3. ASSUME NEW k \in 1..c PROVE q[k] \in {rows[j] : j \in J}
    BY <2>1
  <2>4. ASSUME NEW j \in J PROVE rows[j] \in {q[k] : k \in 1..c}
    <3>1. PICK k \in 1..c : at[k] = j
      BY <2>2
    <3>2. q[k] = rows[j]
      BY <2>1, <3>1
    <3> QED
      BY <3>2
  <2>5. {q[j] : j \in 1..c} = {rows[j] : j \in J}
    BY <2>3, <2>4
  <2> QED
    BY <2>5 DEF Met
<1> QED
  BY <1>5, <1>7, <1>9, <1>10, <1>11

\* ---- the reductions agree -----------------------------------------------------------
LEMMA PositionsAreRows == ASSUME NEW n \in Nat PROVE IsSelection(Rows(n), n, n)
BY DEF IsSelection, Rows

\* The rows an operator keeps, in row order, are a selection of the rows.
LEMMA KeptRows ==
  ASSUME NEW n \in Nat, NEW J \in SUBSET (1..n)
  PROVE  /\ IsSelection(Picked(Rows(n), J), Cardinality(J), n)
         /\ Met(Picked(Rows(n), J), Cardinality(J)) = J
<1>1. Met(Picked(Rows(n), J), Cardinality(J)) = {Rows(n)[j] : j \in J} /\ IsSelection(Picked(Rows(n), J), Cardinality(J), n)
  BY PositionsAreRows, PickedRows
<1>2. {Rows(n)[j] : j \in J} = J
  BY DEF Rows
<1> QED
  BY <1>1, <1>2

LEMMA MetIsSubset ==
  ASSUME NEW rows, NEW m, NEW n, IsSelection(rows, m, n) PROVE Met(rows, m) \in SUBSET (1..n)
BY DEF IsSelection, Met

\* half is a selection of the positions of the selection rows.
SplitsOf(half, c, rows, m, M, v, n) == Aggregates(M, v, n) /\ IsSelection(rows, m, n) /\ IsSelection(half, c, m)
RowTuples(v, rows, half) == [j \in DOMAIN half |-> RowTuple(v, rows[half[j]])]
Through(rows, S) == {rows[i] : i \in S}

\* A device that reduces part of a selection, one row tuple after the other.
LEMMA PartIsWhole ==
  ASSUME NEW n, NEW v, NEW M, NEW rows, NEW m, NEW half, NEW c, SplitsOf(half, c, rows, m, M, v, n)
  PROVE  CombineAll(RowTuples(v, rows, half)) = M[Through(rows, Met(half, c))]
<1> Aggregates(M, v, n) /\ IsSelection(rows, m, n) /\ IsSelection(half, c, m)
  BY DEF SplitsOf
<1> n \in Nat /\ WordRows(v, n) /\ IsWhole(M, v, n)
  BY DEF Aggregates
<1> DEFINE seq == [j \in DOMAIN half |-> RowTuple(v, rows[half[j]])]
           parts == [j \in 1..c |-> {rows[half[j]]}]
<1>1. \A j \in 1..c : half[j] \in 1..m /\ rows[half[j]] \in 1..n
  BY DEF IsSelection
<1>2. ArePart(parts, c, n)
  BY <1>1 DEF ArePart, IsSelection
<1>3. ASSUME NEW j \in 1..c PROVE seq[j] = M[parts[j]]
  <2>1. PICK i \in 1..n : i = rows[half[j]]
    BY <1>1
  <2>2. M[{i}] = RowTuple(v, i)
    BY WholeOfRow
  <2>3. seq[j] = RowTuple(v, i)
    BY <2>1 DEF IsSelection
  <2> QED
    BY <2>1, <2>2, <2>3
<1>4. DOMAIN seq = 1..c
  BY DEF IsSelection
<1>5. Covered(parts, c) = {rows[i] : i \in Met(half, c)}
  BY DEF Covered, Met
<1> HIDE DEF seq, parts
<1>6. CombineAll(seq) = M[Covered(parts, c)]
  <2>1. AreWholes(seq, M, parts, c)
    BY <1>3, <1>4 DEF AreWholes
  <2> QED
    BY <1>2, <2>1, CombineAllIsWhole
<1> QED
  BY <1>5, <1>6 DEF seq, RowTuples, Through

\* exact_reduce's two halves, which stand for any order of the device's threads, come
\* to the aggregate of the selection.
LEMMA DeviceReduceIsWhole ==
  ASSUME NEW n, NEW v, NEW M, Aggregates(M, v, n), NEW rows, NEW m, IsSelection(rows, m, n), Len(rows) = m
  PROVE  DeviceReduce(v, rows) = M[Met(rows, m)]
<1> n \in Nat /\ WordRows(v, n) /\ IsWhole(M, v, n)
  BY DEF Aggregates
<1> DEFINE J(h) == {j \in 1..m : j % 2 = h}
           Half(h) == Picked(Rows(m), J(h))
           Of(half) == CombineAll(RowTuples(v, rows, half))
           In(h) == Through(rows, J(h))
<1>1. m \in Nat
  BY DEF IsSelection
<1>2. DeviceReduce(v, rows) = Combined(Of(Half(0)), Of(Half(1)))
  <2>1. \A h : {j \in DOMAIN Rows(m) : Rows(m)[j] % 2 = h} = J(h)
    BY DEF Rows
  <2>2. {j \in DOMAIN Rows(m) : Rows(m)[j] % 2 = 0} = J(0) /\ {j \in DOMAIN Rows(m) : Rows(m)[j] % 2 = 1} = J(1)
    BY <2>1
  <2>3. DeviceReduce(v, rows) =
            Combined(Of(Picked(Rows(m), {j \in DOMAIN Rows(m) : Rows(m)[j] % 2 = 0})),
                     Of(Picked(Rows(m), {j \in DOMAIN Rows(m) : Rows(m)[j] % 2 = 1})))
    BY DEF DeviceReduce, Selected, RowTuples
  <2> HIDE DEF Of, J
  <2> QED
    BY <2>2, <2>3
<1>3. ASSUME NEW h \in {0, 1} PROVE Of(Half(h)) = M[In(h)]
  <2>1. J(h) \in SUBSET (1..m)
    OBVIOUS
  <2>2. PICK half, c : half = Half(h) /\ c = Cardinality(J(h))
    OBVIOUS
  <2>3. IsSelection(half, c, m) /\ Met(half, c) = J(h)
    <3> HIDE DEF J
    <3> QED
      BY <1>1, <2>1, <2>2, KeptRows
  <2>4. Of(half) = M[Through(rows, Met(half, c))]
    <3>1. SplitsOf(half, c, rows, m, M, v, n)
      BY <2>3 DEF SplitsOf
    <3> HIDE DEF J
    <3> QED
      BY <3>1, PartIsWhole
  <2> QED
    BY <2>2, <2>3, <2>4
<1>4. In(0) \in SUBSET (1..n) /\ In(1) \in SUBSET (1..n) /\ In(0) \cap In(1) = {} /\ In(0) \cup In(1) = Met(rows, m)
  <2>1. J(0) \cup J(1) = 1..m /\ J(0) \cap J(1) = {}
    BY <1>1
  <2> HIDE DEF J
  <2> QED
    BY <2>1 DEF IsSelection, Met, Through
<1> HIDE DEF Of, Half, In
<1>5. M[In(0) \cup In(1)] = Combined(M[In(0)], M[In(1)])
  <2>1. \A A, B \in SUBSET (1..n) : A \cap B = {} => M[A \cup B] = Combined(M[A], M[B])
    BY WholeUnion
  <2> QED
    BY <1>4, <2>1
<1> QED
  BY <1>2, <1>3, <1>4, <1>5

\* The rows of any group, however many and however the device's threads and halves
\* interleave, reduce on the device to the tuple the CPU's loop gives: sum, counts,
\* minimum and maximum.
THEOREM DeviceReducesAsHost ==
  ASSUME NEW n \in Nat, NEW v, WordRows(v, n), NEW rows, NEW m, IsSelection(rows, m, n), Len(rows) = m
  PROVE  DeviceReduce(v, rows) = Reduced(rows, v) /\ Reduced(rows, v) \in Tuple
<1>1. PICK M : IsWhole(M, v, n)
  BY WholeExists
<1>2. Aggregates(M, v, n)
  BY <1>1 DEF Aggregates
<1>3. DeviceReduce(v, rows) = M[Met(rows, m)] /\ Reduced(rows, v) = M[Met(rows, m)]
  BY <1>2, DeviceReduceIsWhole, ReducedIsWhole
<1>4. M[Met(rows, m)] \in Tuple
  BY <1>1, MetIsSubset DEF IsWhole
<1> QED
  BY <1>3, <1>4
\* ---- native's aggregates -------------------------------------------------------------
\* What all smaller sets have and passes on to the next, every set has.
LEMMA ShrinkSet ==
  ASSUME NEW n \in Nat, NEW P,
         \A S \in SUBSET (1..n) : (\A T \in SUBSET S : T # S => T \in P) => S \in P
  PROVE  \A S \in SUBSET (1..n) : S \in P
<1> DEFINE Q == {k \in 0..n : \A S \in SUBSET (1..n) : Cardinality(S) <= k => S \in P}
<1>1. IsFiniteSet(1..n) /\ Cardinality(1..n) = n
  BY FS_Interval
<1>2. \A S \in SUBSET (1..n) : IsFiniteSet(S) /\ Cardinality(S) \in Nat /\ Cardinality(S) <= n
  <2> SUFFICES ASSUME NEW S \in SUBSET (1..n) PROVE IsFiniteSet(S) /\ Cardinality(S) \in Nat /\ Cardinality(S) <= n
    OBVIOUS
  <2>1. IsFiniteSet(S) /\ Cardinality(S) <= n
    <3>1. PICK all : all = 1..n
      OBVIOUS
    <3>2. IsFiniteSet(all) /\ Cardinality(all) = n /\ S \in SUBSET all
      BY <1>1, <3>1
    <3> QED
      BY <3>2, FS_Subset
  <2> QED
    BY <2>1, FS_CardinalityType
<1>3. ASSUME NEW S \in SUBSET (1..n), NEW T \in SUBSET S, T # S PROVE Cardinality(T) < Cardinality(S)
  <2>1. IsFiniteSet(S) /\ Cardinality(S) \in Nat /\ Cardinality(T) \in Nat
    BY <1>2
  <2>2. Cardinality(T) <= Cardinality(S) /\ (Cardinality(S) = Cardinality(T) => S = T)
    BY <2>1, FS_Subset
  <2> QED
    BY <1>3, <2>1, <2>2
<1>4. 0 \in Q
  <2> SUFFICES ASSUME NEW S \in SUBSET (1..n), Cardinality(S) <= 0 PROVE S \in P
    OBVIOUS
  <2>1. \A T \in SUBSET S : T # S => T \in P
    <3> SUFFICES ASSUME NEW T \in SUBSET S, T # S PROVE FALSE
      OBVIOUS
    <3>1. Cardinality(T) < Cardinality(S) /\ Cardinality(T) \in Nat /\ Cardinality(S) \in Nat
      BY <1>2, <1>3
    <3> QED
      BY <3>1
  <2> QED
    BY <2>1
<1>5. ASSUME NEW k \in 1..n, k - 1 \in Q PROVE k \in Q
  <2> SUFFICES ASSUME NEW S \in SUBSET (1..n), Cardinality(S) <= k PROVE S \in P
    OBVIOUS
  <2>1. \A T \in SUBSET S : T # S => T \in P
    <3> SUFFICES ASSUME NEW T \in SUBSET S, T # S PROVE T \in P
      OBVIOUS
    <3>1. Cardinality(T) < Cardinality(S) /\ Cardinality(T) \in Nat /\ Cardinality(S) \in Nat /\ T \in SUBSET (1..n)
      BY <1>2, <1>3
    <3>2. Cardinality(T) <= k - 1
      BY <3>1
    <3> QED
      BY <1>5, <3>1, <3>2
  <2> QED
    BY <2>1
<1>6. n \in Q
  <2>1. \A k \in 0..n : k \in Q
    <3> HIDE DEF Q
    <3> QED
      BY <1>4, <1>5, CountUp
  <2>2. n \in 0..n
    OBVIOUS
  <2> QED
    BY <2>1, <2>2
<1> QED
  BY <1>2, <1>6

\* total[S] is the sum of the numbers x[i] of the rows of S.
IsTotal(total, x, n) ==
    /\ total \in [SUBSET (1..n) -> Int] /\ total[{}] = 0
    /\ \A S \in SUBSET (1..n) : \A i \in (1..n) \ S : total[S \cup {i}] = total[S] + x[i]

LEMMA TotalExists ==
  ASSUME NEW n \in Nat, NEW x, \A i \in 1..n : x[i] \in Int
  PROVE  \E total : IsTotal(total, x, n)
<1> DEFINE P == {k \in 0..n : \E total : IsTotal(total, x, k)}
<1>1. 0 \in P
  <2>1. PICK t : t = [S \in SUBSET (1..0) |-> 0]
    OBVIOUS
  <2>2. t \in [SUBSET (1..0) -> Int] /\ t[{}] = 0 /\ 1..0 = {}
    BY <2>1
  <2>3. IsTotal(t, x, 0)
    BY <2>2 DEF IsTotal
  <2> QED
    BY <2>3
<1>2. ASSUME NEW k \in 1..n, k - 1 \in P PROVE k \in P
  <2>1. PICK l : IsTotal(l, x, k - 1)
    BY <1>2
  <2>2. PICK t : t = [S \in SUBSET (1..k) |-> IF k \in S THEN l[S \ {k}] + x[k] ELSE l[S]]
    OBVIOUS
  <2>3. \A S \in SUBSET (1..k) : S \ {k} \in SUBSET (1..k - 1) /\ l[S \ {k}] \in Int
    <3>1. \A S \in SUBSET (1..k) : S \ {k} \in SUBSET (1..k - 1)
      OBVIOUS
    <3> QED
      BY <2>1, <3>1 DEF IsTotal
  <2>4. t \in [SUBSET (1..k) -> Int]
    <3> SUFFICES ASSUME NEW S \in SUBSET (1..k) PROVE (IF k \in S THEN l[S \ {k}] + x[k] ELSE l[S]) \in Int
      BY <2>2
    <3>1. CASE k \in S
      BY <2>3, <3>1
    <3>2. CASE k \notin S
      <4>1. S \ {k} = S
        BY <3>2
      <4> QED
        BY <2>3, <3>2, <4>1
    <3> QED
      BY <3>1, <3>2
  <2>5. t[{}] = 0
    BY <2>1, <2>2 DEF IsTotal
  <2>6. ASSUME NEW S \in SUBSET (1..k), NEW i \in (1..k) \ S PROVE t[S \cup {i}] = t[S] + x[i]
    <3>1. S \cup {i} \in SUBSET (1..k)
      OBVIOUS
    <3>2. CASE i = k
      <4>1. (S \cup {i}) \ {k} = S /\ k \notin S /\ k \in S \cup {i}
        BY <2>6, <3>2
      <4> QED
        BY <2>2, <3>1, <3>2, <4>1
    <3>3. CASE i # k /\ k \notin S
      <4>1. k \notin S \cup {i} /\ S \in SUBSET (1..k - 1) /\ i \in (1..k - 1) \ S
        BY <2>6, <3>3
      <4>2. l[S \cup {i}] = l[S] + x[i]
        BY <2>1, <4>1 DEF IsTotal
      <4> QED
        BY <2>2, <3>1, <3>3, <4>1, <4>2
    <3>4. CASE i # k /\ k \in S
      <4>1. k \in S \cup {i} /\ (S \cup {i}) \ {k} = (S \ {k}) \cup {i} /\ i \in (1..k - 1) \ (S \ {k})
        BY <2>6, <3>4
      <4>2. l[(S \ {k}) \cup {i}] = l[S \ {k}] + x[i]
        BY <2>1, <2>3, <4>1 DEF IsTotal
      <4>3. t[S \cup {i}] = (l[S \ {k}] + x[i]) + x[k] /\ t[S] = l[S \ {k}] + x[k]
        BY <2>2, <3>1, <3>4, <4>1, <4>2
      <4>4. l[S \ {k}] \in Int /\ x[i] \in Int /\ x[k] \in Int
        BY <2>3
      <4> QED
        BY <4>3, <4>4
    <3> QED
      BY <3>2, <3>3, <3>4
  <2>7. IsTotal(t, x, k)
    BY <2>4, <2>5, <2>6 DEF IsTotal
  <2> QED
    BY <2>7
<1>3. n \in P
  <2>1. \A k \in 0..n : k \in P
    <3> HIDE DEF P
    <3> QED
      BY <1>1, <1>2, CountUp
  <2>2. n \in 0..n
    OBVIOUS
  <2> QED
    BY <2>1, <2>2
<1> QED
  BY <1>3, Zenon

CellSum(table, name, V) == MapThenSumSet(LAMBDA m : table[m][name], V)
\* x has the cells of the rows V, and total the sums of x.
Totals(total, x, n, V, table, name) ==
    /\ n \in Nat /\ (\A i \in 1..n : x[i] \in Int) /\ IsTotal(total, x, n)
    /\ V \in SUBSET (1..n) /\ \A i \in V : table[i][name] = x[i]

\* The sum over a set of rows is its total, whichever row the sum takes next.
LEMMA SumIsTotal ==
  ASSUME NEW n, NEW x, NEW total, NEW V, NEW table, NEW name, Totals(total, x, n, V, table, name)
  PROVE  CellSum(table, name, V) = total[V]
<1> n \in Nat /\ (\A i \in 1..n : x[i] \in Int) /\ IsTotal(total, x, n)
    /\ V \in SUBSET (1..n) /\ \A i \in V : table[i][name] = x[i]
  BY DEF Totals
<1>1. ASSUME NEW s \in SUBSET V, NEW i \in s PROVE total[s] = x[i] + total[s \ {i}]
  <2>1. s \ {i} \in SUBSET (1..n) /\ i \in (1..n) \ (s \ {i}) /\ (s \ {i}) \cup {i} = s
    OBVIOUS
  <2>2. total[s] = total[s \ {i}] + x[i] /\ total[s \ {i}] \in Int
    BY <2>1 DEF IsTotal
  <2> QED
    BY <2>1, <2>2
<1> DEFINE Next1(s) == CHOOSE m \in s : TRUE
           IsSum(h) == h = [s \in SUBSET V |-> IF s = {} THEN 0 ELSE table[Next1(s)][name] + h[s \ {Next1(s)}]]
<1>2. PICK g : g = [s \in SUBSET V |-> total[s]]
  OBVIOUS
<1>3. IsSum(g)
  <2> SUFFICES ASSUME NEW s \in SUBSET V
               PROVE  g[s] = IF s = {} THEN 0 ELSE table[Next1(s)][name] + g[s \ {Next1(s)}]
    BY <1>2
  <2>1. CASE s = {}
    BY <1>2, <2>1 DEF IsTotal
  <2>2. CASE s # {}
    <3>1. PICK i \in s : i = Next1(s)
      BY <2>2
    <3>2. g[s] = total[s] /\ g[s \ {i}] = total[s \ {i}] /\ table[i][name] = x[i]
      BY <1>2, <3>1
    <3> QED
      BY <1>1, <2>2, <3>1, <3>2
  <2> QED
    BY <2>1, <2>2
<1>4. PICK f : IsSum(f) /\ CellSum(table, name, V) = f[V]
  <2>1. CellSum(table, name, V) = (CHOOSE h : IsSum(h))[V]
    BY Zenon DEF CellSum, MapThenSumSet, MapThenFoldSet
  <2> HIDE DEF IsSum
  <2>2. IsSum(CHOOSE h : IsSum(h))
    BY <1>3, Zenon
  <2> QED
    BY <2>1, <2>2
<1> DEFINE P == {s \in SUBSET (1..n) : s \subseteq V => f[s] = total[s]}
<1>5. ASSUME NEW s \in SUBSET (1..n), \A t \in SUBSET s : t # s => t \in P PROVE s \in P
  <2> SUFFICES ASSUME s \subseteq V PROVE f[s] = total[s]
    OBVIOUS
  <2>1. CASE s = {}
    BY <1>4, <2>1 DEF IsTotal
  <2>2. CASE s # {}
    <3>1. PICK i \in s : i = Next1(s)
      BY <2>2
    <3>2. f[s] = table[i][name] + f[s \ {i}]
      BY <1>4, <2>2, <3>1
    <3>3. s \ {i} \in SUBSET s /\ s \ {i} # s
      BY <3>1
    <3>4. f[s \ {i}] = total[s \ {i}]
      BY <1>5, <3>3
    <3> QED
      BY <1>1, <3>1, <3>2, <3>4
  <2> QED
    BY <2>1, <2>2
<1>6. V \in P
  <2> HIDE DEF P
  <2> QED
    BY <1>5, ShrinkSet
<1> QED
  BY <1>4, <1>6

\* The sum of at most 2^64 words has 128 bits.
LEMMA TotalBounds ==
  ASSUME NEW n \in Nat, n <= W, NEW x, \A i \in 1..n : x[i] \in Word, NEW total, IsTotal(total, x, n)
  PROVE  \A S \in SUBSET (1..n) : total[S] \in Wide128
<1>1. PICK h \in Nat \ {0} : W = 2 * h /\ MinWord = -h /\ MaxWord = h - 1
  BY WordFacts
<1>2. IsFiniteSet(1..n) /\ Cardinality(1..n) = n
  BY FS_Interval
<1>3. ASSUME NEW S \in SUBSET (1..n) PROVE IsFiniteSet(S) /\ Cardinality(S) \in Nat /\ Cardinality(S) <= n
  <2>1. PICK all : all = 1..n
    OBVIOUS
  <2>2. IsFiniteSet(all) /\ Cardinality(all) = n /\ S \in SUBSET all
    BY <1>2, <2>1
  <2>3. IsFiniteSet(S) /\ Cardinality(S) <= n
    BY <2>2, FS_Subset
  <2> QED
    BY <2>3, FS_CardinalityType
<1> DEFINE P == {S \in SUBSET (1..n) : -(Cardinality(S) * h) <= total[S] /\ total[S] <= Cardinality(S) * (h - 1)}
<1>4. {} \in P
  <2>1. Cardinality({}) = 0 /\ total[{}] = 0
    BY FS_EmptySet DEF IsTotal
  <2> QED
    BY <2>1
<1>5. ASSUME NEW S \in SUBSET (1..n), NEW i \in (1..n) \ S, S \in P PROVE S \cup {i} \in P
  <2>1. PICK c \in Nat : c = Cardinality(S)
    BY <1>3
  <2>2. Cardinality(S \cup {i}) = c + 1
    BY <1>3, <2>1, FS_AddElement
  <2>3. total[S \cup {i}] = total[S] + x[i] /\ total[S] \in Int
    BY DEF IsTotal
  <2>4. x[i] \in Int /\ -h <= x[i] /\ x[i] <= h - 1
    BY <1>1 DEF Word
  <2>5. -(c * h) <= total[S] /\ total[S] <= c * (h - 1)
    BY <1>5, <2>1
  <2>6. (c + 1) * h = c * h + h /\ (c + 1) * (h - 1) = c * (h - 1) + (h - 1) /\ c * h \in Int /\ c * (h - 1) \in Int
    BY <1>1
  <2>7. -((c + 1) * h) <= total[S] + x[i] /\ total[S] + x[i] <= (c + 1) * (h - 1)
    BY <1>1, <2>3, <2>4, <2>5, <2>6
  <2>8. S \cup {i} \in SUBSET (1..n)
    OBVIOUS
  <2> QED
    BY <2>2, <2>3, <2>7, <2>8
<1>6. \A S \in SUBSET (1..n) : S \in P
  <2> HIDE DEF P
  <2> QED
    BY <1>4, <1>5, GrowSet
<1> SUFFICES ASSUME NEW S \in SUBSET (1..n) PROVE total[S] \in Wide128
  OBVIOUS
<1>7. PICK c \in Nat : c = Cardinality(S) /\ c <= n
  BY <1>3
<1>8. -(c * h) <= total[S] /\ total[S] <= c * (h - 1) /\ total[S] \in Int
  BY <1>6, <1>7 DEF IsTotal
<1>9. ASSUME NEW a \in Nat PROVE c * a <= W * a
  <2>1. W - c \in Nat
    BY <1>1, <1>7
  <2>2. (W - c) * a \in Nat
    BY <2>1
  <2>3. (W - c) * a = W * a - c * a /\ W * a \in Int /\ c * a \in Int
    BY <1>1
  <2> QED
    BY <2>2, <2>3
<1>10. c * h <= W * h /\ c * (h - 1) <= W * (h - 1)
  BY <1>1, <1>9
<1>11. MinWord * W = -(W * h) /\ MaxWord * W = W * (h - 1) /\ W * h \in Int /\ c * h \in Int /\ W * (h - 1) \in Int /\ c * (h - 1) \in Int
  BY <1>1
<1> QED
  BY <1>1, <1>8, <1>10, <1>11 DEF Wide128

\* v reads a column of the table, cell by cell and NULL by NULL.
Reads(v, table, name, n) ==
    /\ n \in Nat /\ DOMAIN table = 1..n /\ v # NoLane /\ v.index = NoLane /\ Shows(v.col, table, name)
    /\ \A i \in 1..n : table[i][name] \in Word \cup {NoCell}

LEMMA ReadsCells ==
  ASSUME NEW v, NEW table, NEW name, NEW n, Reads(v, table, name, n)
  PROVE  /\ \A i \in 1..n : /\ Counts(v, i) <=> table[i][name] # NoCell
                            /\ table[i][name] # NoCell => Cell(v, i) = table[i][name] /\ table[i][name] \in Word
         /\ WordRows(v, n)
<1>1. ASSUME NEW i \in 1..n
      PROVE  /\ Counts(v, i) <=> table[i][name] # NoCell
             /\ table[i][name] # NoCell => Cell(v, i) = table[i][name] /\ table[i][name] \in Word
  BY DEF Reads, Shows, Counts, IsValid, HasSource, Source, Cell
<1> QED
  BY <1>1 DEF WordRows

LEMMA RowTupleIs ==
  ASSUME NEW v, NEW i, v # NoLane, Counts(v, i) => Cell(v, i) \in Word
  PROVE  RowTuple(v, i) = IF Counts(v, i)
                          THEN [sum |-> SumOf(Cell(v, i)), cnt |-> 1, star |-> 1, mn |-> Cell(v, i), mx |-> Cell(v, i)]
                          ELSE [sum |-> ZeroSum, cnt |-> 0, star |-> 1, mn |-> MaxWord, mx |-> MinWord]
<1>1. CASE ~Counts(v, i)
  BY <1>1 DEF Counts, RowTuple, AddRow, NoTuple
<1>2. CASE Counts(v, i)
  <2>1. PICK x \in Word : x = Cell(v, i)
    BY <1>2
  <2>2. RowTuple(v, i) = [sum |-> AddSums(ZeroSum, SumOf(x)), cnt |-> 0 + 1, star |-> 0 + 1,
                          mn |-> Min({MaxWord, x}), mx |-> Max({MinWord, x})]
    BY <1>2, <2>1, AddValueIs DEF RowTuple, AddRow, NoTuple, Counts
  <2>3. SumOf(x) \in Limbs
    BY WordsAreExact
  <2>4. PICK one \in Tuple : one = [sum |-> SumOf(x), cnt |-> 0, star |-> 0, mn |-> x, mx |-> x]
    BY <2>3 DEF Tuple, Limbs, Word
  <2>5. Combined(NoTuple, one) = one
    BY NothingAddsNothing
  <2>6. Combined(NoTuple, one).sum = AddSums(ZeroSum, SumOf(x)) /\ Combined(NoTuple, one).mn = Min({MaxWord, x})
        /\ Combined(NoTuple, one).mx = Max({MinWord, x})
    BY <2>4 DEF Combined, NoTuple
  <2>7. AddSums(ZeroSum, SumOf(x)) = SumOf(x) /\ Min({MaxWord, x}) = x /\ Max({MinWord, x}) = x
    BY <2>4, <2>5, <2>6
  <2> QED
    BY <1>2, <2>1, <2>2, <2>7
<1> QED
  BY <1>1, <1>2

Filled(table, name, S) == {i \in S : table[i][name] # NoCell}
Number0(table, name, i) == IF table[i][name] = NoCell THEN 0 ELSE table[i][name]
\* t is what the rows of S come to.
Sums(t, S, table, name, total) ==
    /\ t \in Tuple /\ t.star = Cardinality(S) /\ t.cnt = Cardinality(Filled(table, name, S))
    /\ Number(t.sum) = total[S]
    /\ \A i \in Filled(table, name, S) : t.mn <= table[i][name] /\ table[i][name] <= t.mx
    /\ IF Filled(table, name, S) = {} THEN t.mn = MaxWord /\ t.mx = MinWord
       ELSE \E i, j \in Filled(table, name, S) : t.mn = table[i][name] /\ t.mx = table[j][name]

\* One row more.
LEMMA SumsGrow ==
  ASSUME NEW n, NEW v, NEW table, NEW name, Reads(v, table, name, n), NEW total,
         \A T \in SUBSET (1..n) : total[T] \in Wide128,
         NEW S \in SUBSET (1..n), NEW i \in (1..n) \ S, total[S \cup {i}] = total[S] + Number0(table, name, i),
         NEW t, Sums(t, S, table, name, total)
  PROVE  Sums(Combined(t, RowTuple(v, i)), S \cup {i}, table, name, total)
<1>1. n \in Nat /\ IsFiniteSet(1..n)
  <2>1. n \in Nat
    BY DEF Reads
  <2> QED
    BY <2>1, FS_Interval
<1> DEFINE F == Filled(table, name, S)
           F1 == Filled(table, name, S \cup {i})
<1>2. IsFiniteSet(S) /\ IsFiniteSet(F)
  <2>1. F \in SUBSET S
    BY DEF Filled
  <2>2. IsFiniteSet(S)
    BY <1>1, FS_Subset
  <2> HIDE DEF F
  <2> QED
    BY <2>1, <2>2, FS_Subset
<1>3. Cardinality(S \cup {i}) = Cardinality(S) + 1
  BY <1>2, FS_AddElement
<1>4. t = [sum |-> t.sum, cnt |-> t.cnt, star |-> t.star, mn |-> t.mn, mx |-> t.mx]
      /\ t.cnt \in Nat /\ t.star \in Nat /\ t.mn \in Word /\ t.mx \in Word /\ t.sum \in Limbs /\ t \in Tuple
  BY TupleParts DEF Sums
<1>5. PICK u : u = Combined(t, RowTuple(v, i))
  OBVIOUS
<1>6. v # NoLane /\ i \in 1..n /\ (Counts(v, i) => Cell(v, i) \in Word)
  <2>1. v # NoLane
    BY DEF Reads
  <2>2. Counts(v, i) <=> table[i][name] # NoCell
    BY ReadsCells
  <2>3. table[i][name] # NoCell => Cell(v, i) = table[i][name] /\ table[i][name] \in Word
    BY ReadsCells
  <2> QED
    BY <2>1, <2>2, <2>3
<1>7. RowTuple(v, i) \in Tuple /\ u \in Tuple
  BY <1>4, <1>5, <1>6, RowsAreParts, CombinedType
<1>8. CASE table[i][name] = NoCell
  <2>1. ~Counts(v, i)
    BY <1>6, <1>8, ReadsCells
  <2>2. RowTuple(v, i) = [sum |-> ZeroSum, cnt |-> 0, star |-> 1, mn |-> MaxWord, mx |-> MinWord]
    BY <1>6, <2>1, RowTupleIs
  <2>3. AddSums(t.sum, ZeroSum) = t.sum /\ Min({t.mn, MaxWord}) = t.mn /\ Max({t.mx, MinWord}) = t.mx
    <3>1. Combined(t, NoTuple) = t
      BY <1>4, EmptyType, PartsCommute, NothingAddsNothing
    <3>2. Combined(t, NoTuple).sum = AddSums(t.sum, ZeroSum) /\ Combined(t, NoTuple).mn = Min({t.mn, MaxWord})
          /\ Combined(t, NoTuple).mx = Max({t.mx, MinWord})
      BY DEF Combined, NoTuple
    <3> QED
      BY <3>1, <3>2
  <2>4. u = [sum |-> t.sum, cnt |-> t.cnt + 0, star |-> t.star + 1, mn |-> t.mn, mx |-> t.mx]
    BY <1>5, <2>2, <2>3 DEF Combined
  <2>5. F1 = F
    BY <1>8 DEF Filled
  <2>6. total[S \cup {i}] = total[S]
    <3>1. total[S] \in Int
      BY WordFacts DEF Wide128
    <3> QED
      BY <1>8, <3>1 DEF Number0
  <2>7. u.sum = t.sum /\ u.cnt = t.cnt /\ u.star = t.star + 1 /\ u.mn = t.mn /\ u.mx = t.mx
    BY <1>4, <2>4
  <2>8. Sums(u, S \cup {i}, table, name, total)
    <3> HIDE DEF F, F1
    <3>1. /\ t.star = Cardinality(S) /\ t.cnt = Cardinality(F)
          /\ Number(t.sum) = total[S]
          /\ \A j \in F : t.mn <= table[j][name] /\ table[j][name] <= t.mx
          /\ IF F = {} THEN t.mn = MaxWord /\ t.mx = MinWord
             ELSE \E j, k \in F : t.mn = table[j][name] /\ t.mx = table[k][name]
      BY DEF Sums, F
    <3> QED
      BY <1>3, <1>7, <2>5, <2>6, <2>7, <3>1 DEF Sums, F1
  <2> QED
    BY <1>5, <2>8
<1>9. CASE table[i][name] # NoCell
  <2>1. PICK x \in Word : x = table[i][name]
    BY <1>9 DEF Reads
  <2>2. Counts(v, i) /\ Cell(v, i) = x
    BY <1>6, <1>9, <2>1, ReadsCells
  <2>3. RowTuple(v, i) = [sum |-> SumOf(x), cnt |-> 1, star |-> 1, mn |-> x, mx |-> x]
    BY <1>6, <2>2, RowTupleIs
  <2>4. u = [sum |-> AddSums(t.sum, SumOf(x)), cnt |-> t.cnt + 1, star |-> t.star + 1,
             mn |-> Min({t.mn, x}), mx |-> Max({t.mx, x})]
    BY <1>5, <2>3 DEF Combined
  <2>5. F1 = F \cup {i} /\ i \notin F
    BY <1>9 DEF Filled
  <2>6. Cardinality(F1) = Cardinality(F) + 1
    <3> HIDE DEF F, F1
    <3> QED
      BY <1>2, <2>5, FS_AddElement
  <2>7. SumOf(x) \in Limbs /\ Number(SumOf(x)) = x
    BY WordsAreExact
  <2>8. total[S \cup {i}] = total[S] + x /\ total[S \cup {i}] \in Wide128
    <3>1. S \cup {i} \in SUBSET (1..n)
      OBVIOUS
    <3> QED
      BY <1>9, <2>1, <3>1 DEF Number0
  <2>9. Number(AddSums(t.sum, SumOf(x))) = total[S \cup {i}]
    <3>1. Number(t.sum) = total[S]
      BY DEF Sums
    <3> QED
      BY <1>4, <2>7, <2>8, <3>1, SumsAreExact
  <2>10. t.mn \in Int /\ t.mx \in Int /\ x \in Int
    BY <1>4, WordsAreInts
  <2>11. u.mn = (IF t.mn <= x THEN t.mn ELSE x) /\ u.mx = (IF t.mx >= x THEN t.mx ELSE x)
    <3>1. Min({t.mn, x}) = (IF t.mn <= x THEN t.mn ELSE x) /\ Max({t.mx, x}) = (IF t.mx >= x THEN t.mx ELSE x)
      BY <2>10, MinOfTwo, MaxOfTwo
    <3> QED
      BY <2>4, <3>1
  <2>12. \A j \in F : table[j][name] \in Int
    BY WordsAreInts DEF Filled, Reads
  <2>13. u.sum = AddSums(t.sum, SumOf(x)) /\ u.cnt = t.cnt + 1 /\ u.star = t.star + 1
    BY <2>4
  <2> HIDE DEF F, F1
  <2>14. /\ t.star = Cardinality(S) /\ t.cnt = Cardinality(F)
         /\ \A j \in F : t.mn <= table[j][name] /\ table[j][name] <= t.mx
         /\ IF F = {} THEN t.mn = MaxWord /\ t.mx = MinWord
            ELSE \E j, k \in F : t.mn = table[j][name] /\ t.mx = table[k][name]
    BY DEF Sums, F
  <2>15. \A j \in F1 : u.mn <= table[j][name] /\ table[j][name] <= u.mx
    BY <2>1, <2>5, <2>10, <2>11, <2>12, <2>14
  <2>16. \E j, k \in F1 : u.mn = table[j][name] /\ u.mx = table[k][name]
    <3>1. CASE F = {}
      <4>1. t.mn = MaxWord /\ t.mx = MinWord /\ x <= MaxWord /\ MinWord <= x
        BY <2>14, <3>1, WordFacts DEF Word
      <4>2. u.mn = x /\ u.mx = x
        BY <2>10, <2>11, <4>1
      <4> QED
        BY <2>1, <2>5, <4>2
    <3>2. CASE F # {}
      BY <2>1, <2>5, <2>11, <2>14, <3>2
    <3> QED
      BY <3>1, <3>2
  <2>17. Sums(u, S \cup {i}, table, name, total)
    BY <1>3, <1>7, <2>6, <2>9, <2>13, <2>14, <2>15, <2>16 DEF Sums, F1
  <2> QED
    BY <1>5, <2>17
<1> QED
  BY <1>8, <1>9

\* t is what native SQL shows of the rows S over a column, NULL where it counts none.
IsNative(t, table, S, name) ==
    /\ t.star = Cardinality(S)
    /\ t.cnt = NativeAggregate(table, S, name).counts
    /\ IF t.cnt = 0
       THEN /\ NativeAggregate(table, S, name).sums = NoCell
            /\ NativeAggregate(table, S, name).mins = NoCell
            /\ NativeAggregate(table, S, name).maxs = NoCell
       ELSE /\ NativeAggregate(table, S, name).sums = Number(t.sum)
            /\ NativeAggregate(table, S, name).mins = t.mn
            /\ NativeAggregate(table, S, name).maxs = t.mx

LEMMA ExtremeIs ==
  ASSUME NEW C, C \subseteq Int, NEW m \in C
  PROVE  /\ (\A y \in C : m <= y) => Min(C) = m
         /\ (\A y \in C : y <= m) => Max(C) = m
<1>1. ASSUME \A y \in C : m <= y PROVE Min(C) = m
  <2>1. \A z \in C : (\A y \in C : z <= y) => z = m
    BY <1>1
  <2>2. Min(C) \in C /\ \A y \in C : Min(C) <= y
    BY <1>1 DEF Min
  <2> QED
    BY <2>1, <2>2
<1>2. ASSUME \A y \in C : y <= m PROVE Max(C) = m
  <2>1. \A z \in C : (\A y \in C : z >= y) => z = m
    BY <1>2
  <2>2. Max(C) \in C /\ \A y \in C : Max(C) >= y
    BY <1>2 DEF Max
  <2> QED
    BY <2>1, <2>2
<1> QED
  BY <1>1, <1>2

\* What the rows of a set come to is what native SQL shows of them.
LEMMA WholeIsNative ==
  ASSUME NEW n, n <= W, NEW v, NEW table, NEW name, Reads(v, table, name, n), NEW M, IsWhole(M, v, n)
  PROVE  \A S \in SUBSET (1..n) : IsNative(M[S], table, S, name)
<1> DEFINE x == [i \in 1..n |-> Number0(table, name, i)]
<1>1. n \in Nat /\ \A i \in 1..n : x[i] \in Word /\ x[i] \in Int
  BY WordsAreInts DEF Reads, Number0
<1>2. PICK total : IsTotal(total, x, n)
  <2> HIDE DEF x
  <2> QED
    BY <1>1, TotalExists
<1>3. \A T \in SUBSET (1..n) : total[T] \in Wide128
  <2> HIDE DEF x
  <2> QED
    BY <1>1, <1>2, TotalBounds
<1>4. \A S \in SUBSET (1..n) : Sums(M[S], S, table, name, total)
  <2> DEFINE P == {S \in SUBSET (1..n) : Sums(M[S], S, table, name, total)}
  <2>1. {} \in P
    <3>1. M[{}] = NoTuple /\ total[{}] = 0 /\ Filled(table, name, {}) = {} /\ Cardinality({}) = 0
      BY <1>2, FS_EmptySet DEF IsWhole, IsTotal, Filled
    <3>2. Number(ZeroSum) = 0
      BY WordFacts DEF Number, ZeroSum
    <3>3. /\ NoTuple.star = 0 /\ NoTuple.cnt = 0 /\ NoTuple.sum = ZeroSum
          /\ NoTuple.mn = MaxWord /\ NoTuple.mx = MinWord /\ NoTuple \in Tuple
      BY EmptyType DEF NoTuple
    <3>4. Sums(NoTuple, {}, table, name, total)
      BY <3>1, <3>2, <3>3 DEF Sums
    <3>5. {} \in SUBSET (1..n)
      OBVIOUS
    <3> QED
      BY <3>1, <3>4, <3>5
  <2>2. ASSUME NEW S \in SUBSET (1..n), NEW i \in (1..n) \ S, S \in P PROVE S \cup {i} \in P
    <3>1. M[S \cup {i}] = Combined(M[S], RowTuple(v, i))
      BY DEF IsWhole
    <3>2. total[S \cup {i}] = total[S] + Number0(table, name, i)
      <4>1. total[S \cup {i}] = total[S] + x[i]
        BY <1>2 DEF IsTotal
      <4> QED
        BY <4>1
    <3>3. PICK t : t = M[S] /\ Sums(t, S, table, name, total)
      BY <2>2
    <3>4. Sums(Combined(t, RowTuple(v, i)), S \cup {i}, table, name, total)
      BY <1>3, <3>2, <3>3, SumsGrow
    <3>5. S \cup {i} \in SUBSET (1..n)
      OBVIOUS
    <3> QED
      BY <3>1, <3>3, <3>4, <3>5
  <2>3. \A S \in SUBSET (1..n) : S \in P
    <3> HIDE DEF P
    <3> QED
      BY <1>1, <2>1, <2>2, GrowSet
  <2> QED
    BY <2>3
<1> SUFFICES ASSUME NEW S \in SUBSET (1..n) PROVE IsNative(M[S], table, S, name)
  OBVIOUS
<1> DEFINE V == Filled(table, name, S)
           C == {table[m][name] : m \in V}
<1>5. PICK t : t = M[S]
  OBVIOUS
<1>6. /\ t \in Tuple /\ t.star = Cardinality(S) /\ t.cnt = Cardinality(V) /\ Number(t.sum) = total[S]
      /\ \A i \in V : t.mn <= table[i][name] /\ table[i][name] <= t.mx
      /\ IF V = {} THEN t.mn = MaxWord /\ t.mx = MinWord
         ELSE \E i, j \in V : t.mn = table[i][name] /\ t.mx = table[j][name]
  BY <1>4, <1>5 DEF Sums
<1>7. V \in SUBSET (1..n) /\ V = {m \in S : table[m][name] # NoCell}
  BY DEF Filled
<1>8. V = {} <=> t.cnt = 0
  <2>1. IsFiniteSet(1..n)
    BY <1>1, FS_Interval
  <2> HIDE DEF V
  <2>2. IsFiniteSet(V)
    BY <1>7, <2>1, FS_Subset
  <2> QED
    BY <1>6, <2>2, FS_EmptySet
<1>9. CellSum(table, name, V) = total[S]
  <2>1. \A i \in V : table[i][name] = x[i]
    BY <1>7 DEF Filled, Number0
  <2>2. CellSum(table, name, V) = total[V]
    <3> HIDE DEF V, x
    <3>1. Totals(total, x, n, V, table, name)
      BY <1>1, <1>2, <1>7, <2>1 DEF Totals
    <3> QED
      BY <3>1, SumIsTotal
  <2>3. total[V] = total[S]
    <3> DEFINE P == {T \in SUBSET (1..n) : total[T] = total[Filled(table, name, T)]}
    <3>1. {} \in P
      BY DEF Filled
    <3>2. ASSUME NEW T \in SUBSET (1..n), NEW i \in (1..n) \ T, T \in P PROVE T \cup {i} \in P
      <4>1. total[T \cup {i}] = total[T] + x[i] /\ total[T] \in Int
        BY <1>2 DEF IsTotal
      <4>2. CASE table[i][name] = NoCell
        <5>1. Filled(table, name, T \cup {i}) = Filled(table, name, T) /\ x[i] = 0
          BY <4>2 DEF Filled, Number0
        <5> QED
          BY <3>2, <4>1, <5>1
      <4>3. CASE table[i][name] # NoCell
        <5>1. PICK G : G = Filled(table, name, T)
          OBVIOUS
        <5>2. Filled(table, name, T \cup {i}) = G \cup {i} /\ G \in SUBSET (1..n) /\ i \in (1..n) \ G
          BY <4>3, <5>1 DEF Filled
        <5>3. total[G \cup {i}] = total[G] + x[i]
          BY <1>2, <5>2 DEF IsTotal
        <5> QED
          BY <3>2, <4>1, <5>1, <5>2, <5>3
      <4> QED
        BY <4>2, <4>3
    <3>3. S \in P
      <4> HIDE DEF P
      <4> QED
        BY <1>1, <3>1, <3>2, GrowSet
    <3> QED
      BY <3>3
  <2> QED
    BY <2>2, <2>3
<1>10. C \subseteq Int
  BY WordsAreInts DEF Filled, Reads
<1>11. V # {} => Min(C) = t.mn /\ Max(C) = t.mx
  <2> SUFFICES ASSUME V # {} PROVE Min(C) = t.mn /\ Max(C) = t.mx
    OBVIOUS
  <2>1. t.mn \in C /\ t.mx \in C
    BY <1>6
  <2>2. \A y \in C : t.mn <= y /\ y <= t.mx
    BY <1>6
  <2> HIDE DEF C
  <2> QED
    BY <1>10, <2>1, <2>2, ExtremeIs
<1>12. NativeAggregate(table, S, name) =
         [counts |-> Cardinality(V),
          sums |-> IF V = {} THEN NoCell ELSE CellSum(table, name, V),
          mins |-> IF V = {} THEN NoCell ELSE Min(C), maxs |-> IF V = {} THEN NoCell ELSE Max(C)]
  BY Zenon DEF NativeAggregate, Filled, CellSum
<1> HIDE DEF V, C
<1>13. IsNative(t, table, S, name)
  BY <1>6, <1>8, <1>9, <1>11, <1>12 DEF IsNative
<1> QED
  BY <1>5, <1>13

\* count(*) of a whole, with a payload or without.
LEMMA StarsCount ==
  ASSUME NEW n, NEW v, NEW M, Aggregates(M, v, n)
  PROVE  \A S \in SUBSET (1..n) : M[S].star = Cardinality(S)
<1>1. n \in Nat /\ WordRows(v, n) /\ IsWhole(M, v, n) /\ IsFiniteSet(1..n)
  <2>1. n \in Nat
    BY DEF Aggregates
  <2> QED
    BY <2>1, FS_Interval DEF Aggregates
<1> DEFINE P == {S \in SUBSET (1..n) : M[S].star = Cardinality(S)}
<1>2. {} \in P
  <2>1. M[{}].star = 0 /\ Cardinality({}) = 0
    BY <1>1, FS_EmptySet DEF IsWhole, NoTuple
  <2> QED
    BY <2>1
<1>3. ASSUME NEW S \in SUBSET (1..n), NEW i \in (1..n) \ S, S \in P PROVE S \cup {i} \in P
  <2>1. IsFiniteSet(S)
    BY <1>1, FS_Subset
  <2>2. Cardinality(S \cup {i}) = Cardinality(S) + 1
    BY <2>1, FS_AddElement
  <2>3. M[S \cup {i}] = Combined(M[S], RowTuple(v, i))
    BY <1>1 DEF IsWhole
  <2>4. RowTuple(v, i).star = 1
    BY DEF RowTuple, AddRow, NoTuple
  <2>5. M[S \cup {i}].star = M[S].star + 1
    BY <2>3, <2>4 DEF Combined
  <2>6. S \cup {i} \in SUBSET (1..n)
    OBVIOUS
  <2> QED
    BY <1>3, <2>2, <2>5, <2>6
<1>4. \A S \in SUBSET (1..n) : S \in P
  <2> HIDE DEF P
  <2> QED
    BY <1>1, <1>2, <1>3, GrowSet
<1> QED
  BY <1>4

\* ---- the chunks of the CPU's workers -------------------------------------------------
\* chunks cuts the rows 1..n into m stretches, one after the other.
Cuts(chunks, m, lo, hi, n) ==
    /\ m \in Nat /\ n \in Nat /\ lo \in [1..m -> 0..n] /\ hi \in [1..m -> 0..n] /\ DOMAIN chunks = 1..m
    /\ \A c \in 1..m : lo[c] < hi[c] /\ chunks[c] = [i \in 1..hi[c] - lo[c] |-> i + lo[c]]
    /\ \A c, d \in 1..m : c < d => hi[c] <= lo[d]
    /\ \A i \in 1..n : \E c \in 1..m : lo[c] < i /\ i <= hi[c]

LEMMA LeastNat ==
  ASSUME NEW m \in Nat, NEW P \in SUBSET (1..m), P # {}
  PROVE  \E k \in P : \A j \in P : k <= j
<1> DEFINE Q == {T \in SUBSET (1..m) : T # {} => \E x \in T : \A y \in T : x <= y}
<1>1. {} \in Q
  OBVIOUS
<1>2. ASSUME NEW T \in SUBSET (1..m), NEW x \in (1..m) \ T, T \in Q PROVE T \cup {x} \in Q
  <2>1. CASE T = {}
    BY <2>1
  <2>2. CASE T # {}
    <3>1. PICK k \in T : \A y \in T : k <= y
      BY <1>2, <2>2
    <3>2. CASE k <= x
      BY <3>1, <3>2
    <3>3. CASE ~(k <= x)
      BY <3>1, <3>3
    <3> QED
      BY <3>2, <3>3
  <2> QED
    BY <2>1, <2>2
<1>3. P \in Q
  <2> HIDE DEF Q
  <2> QED
    BY <1>1, <1>2, GrowSet
<1> QED
  BY <1>3

LEMMA ChunksCut ==
  ASSUME NEW n \in Nat \ {0}, NEW cuts
  PROVE  \E m, lo, hi : Cuts(Chunks(n, cuts), m, lo, hi, n)
<1> DEFINE E == (cuts \cap 1..n - 1) \cup {n}
<1>1. E \in SUBSET (1..n) /\ n \in E /\ E \in SUBSET Int /\ IsFiniteSet(1..n)
  BY FS_Interval
<1> HIDE DEF E
<1>2. IsFiniteSet(E)
  BY <1>1, FS_Subset
<1>3. PICK e, m : e = Rising(E) /\ m = Cardinality(E)
  OBVIOUS
<1>4. /\ m \in Nat /\ DOMAIN e = 1..m /\ \A k \in 1..m : e[k] \in E
      /\ \A x \in E : \E k \in 1..m : e[k] = x
      /\ \A i, j \in 1..m : i < j => e[i] < e[j]
  BY <1>1, <1>2, <1>3, RisingAscends DEF Ascends
<1>5. \A k \in 1..m : e[k] \in 1..n
  BY <1>1, <1>4
<1>6. PICK lo, hi : /\ lo = [c \in 1..m |-> IF c = 1 THEN 0 ELSE e[c - 1]]
                    /\ hi = [c \in 1..m |-> e[c]]
  OBVIOUS
<1>7. lo \in [1..m -> 0..n] /\ hi \in [1..m -> 0..n]
  <2>1. ASSUME NEW c \in 1..m PROVE (IF c = 1 THEN 0 ELSE e[c - 1]) \in 0..n
    BY <1>4, <1>5
  <2> QED
    BY <1>5, <1>6, <2>1
<1>8. Chunks(n, cuts) = [c \in 1..m |-> [i \in 1..(e[c] - lo[c]) |-> i + lo[c]]]
  <2>1. Chunks(n, cuts) = [c \in 1..m |-> [i \in 1..(e[c] - (IF c = 1 THEN 0 ELSE e[c - 1])) |->
                                             i + (IF c = 1 THEN 0 ELSE e[c - 1])]]
    BY <1>3, <1>4 DEF Chunks, E
  <2> QED
    BY <1>6, <2>1
<1>9. \A c \in 1..m : lo[c] < hi[c] /\ Chunks(n, cuts)[c] = [i \in 1..hi[c] - lo[c] |-> i + lo[c]]
  <2> SUFFICES ASSUME NEW c \in 1..m PROVE lo[c] < hi[c] /\ Chunks(n, cuts)[c] = [i \in 1..hi[c] - lo[c] |-> i + lo[c]]
    OBVIOUS
  <2>1. lo[c] < hi[c]
    <3>1. CASE c = 1
      BY <1>5, <1>6, <3>1
    <3>2. CASE c # 1
      <4>1. c - 1 \in 1..m /\ c - 1 < c
        BY <1>4, <3>2
      <4> QED
        BY <1>4, <1>6, <3>2, <4>1
    <3> QED
      BY <3>1, <3>2
  <2> QED
    BY <1>6, <1>8, <2>1
<1>10. \A c, d \in 1..m : c < d => hi[c] <= lo[d]
  <2> SUFFICES ASSUME NEW c \in 1..m, NEW d \in 1..m, c < d PROVE hi[c] <= lo[d]
    OBVIOUS
  <2>1. d # 1 /\ d - 1 \in 1..m /\ (c = d - 1 \/ c < d - 1)
    BY <1>4
  <2>2. hi[c] = e[c] /\ lo[d] = e[d - 1] /\ e[c] \in Int /\ e[d - 1] \in Int
    BY <1>5, <1>6, <2>1
  <2>3. c < d - 1 => e[c] < e[d - 1]
    BY <1>4, <2>1
  <2> QED
    BY <2>1, <2>2, <2>3
<1>11. ASSUME NEW i \in 1..n PROVE \E c \in 1..m : lo[c] < i /\ i <= hi[c]
  <2> DEFINE P == {c \in 1..m : i <= e[c]}
  <2>1. P # {}
    <3>1. PICK k \in 1..m : e[k] = n
      BY <1>1, <1>4
    <3> QED
      BY <3>1
  <2>2. PICK c \in P : \A j \in P : c <= j
    <3>1. P \in SUBSET (1..m)
      OBVIOUS
    <3> HIDE DEF P
    <3> QED
      BY <1>4, <2>1, <3>1, LeastNat
  <2>3. CASE c = 1
    BY <1>6, <2>2, <2>3
  <2>4. CASE c # 1
    <3>1. c - 1 \in 1..m /\ c - 1 < c /\ c - 1 \in Int
      BY <1>4, <2>2, <2>4
    <3>2. c - 1 \notin P
      BY <2>2, <3>1
    <3>3. e[c - 1] < i
      BY <1>5, <3>1, <3>2
    <3> QED
      BY <1>6, <2>2, <2>4, <3>3
  <2> QED
    BY <2>3, <2>4
<1>12. DOMAIN Chunks(n, cuts) = 1..m
  BY <1>8
<1>13. Cuts(Chunks(n, cuts), m, lo, hi, n)
  BY <1>4, <1>7, <1>9, <1>10, <1>11, <1>12 DEF Cuts
<1> QED
  BY <1>13

\* The rows of K, chunk by chunk.
InChunk(chunk, K) == {j \in DOMAIN chunk : chunk[j] \in K}
Chunked(chunks, K, v) == [c \in DOMAIN chunks |-> Reduced(Picked(chunks[c], InChunk(chunks[c], K)), v)]
CutsOf(chunks, m, lo, hi, n, M, v, K) == Cuts(chunks, m, lo, hi, n) /\ Aggregates(M, v, n) /\ K \in SUBSET (1..n)

\* However the rows are cut for the workers, the parts come to the whole.
LEMMA ChunksAreWhole ==
  ASSUME NEW chunks, NEW m, NEW lo, NEW hi, NEW n, NEW M, NEW v, NEW K, CutsOf(chunks, m, lo, hi, n, M, v, K)
  PROVE  CombineAll(Chunked(chunks, K, v)) = M[K]
<1> Cuts(chunks, m, lo, hi, n) /\ Aggregates(M, v, n) /\ K \in SUBSET (1..n)
  BY DEF CutsOf
<1>1. /\ m \in Nat /\ n \in Nat /\ lo \in [1..m -> 0..n] /\ hi \in [1..m -> 0..n] /\ DOMAIN chunks = 1..m
      /\ \A c \in 1..m : lo[c] < hi[c] /\ chunks[c] = [i \in 1..hi[c] - lo[c] |-> i + lo[c]]
      /\ \A c, d \in 1..m : c < d => hi[c] <= lo[d]
      /\ \A i \in 1..n : \E c \in 1..m : lo[c] < i /\ i <= hi[c]
  BY DEF Cuts
<1> DEFINE parts == [c \in 1..m |-> {i \in K : lo[c] < i /\ i <= hi[c]}]
           seq == Chunked(chunks, K, v)
<1>2. ArePart(parts, m, n)
  <2>1. \A c \in 1..m : parts[c] \in SUBSET (1..n)
    OBVIOUS
  <2>2. ASSUME NEW c \in 1..m, NEW d \in 1..m, c < d PROVE parts[c] \cap parts[d] = {}
    <3>1. hi[c] <= lo[d] /\ hi[c] \in Int /\ lo[d] \in Int
      BY <1>1, <2>2
    <3> SUFFICES ASSUME NEW i \in K, i <= hi[c], lo[d] < i PROVE FALSE
      OBVIOUS
    <3>2. i \in Int
      BY <1>1
    <3> QED
      BY <3>1, <3>2
  <2>3. \A c, d \in 1..m : c # d => c < d \/ d < c
    OBVIOUS
  <2> QED
    BY <1>1, <2>1, <2>2, <2>3 DEF ArePart
<1>3. Covered(parts, m) = K
  <2>1. ASSUME NEW i \in K PROVE \E c \in 1..m : i \in parts[c]
    <3>1. PICK c \in 1..m : lo[c] < i /\ i <= hi[c]
      BY <1>1
    <3> QED
      BY <3>1
  <2>2. \A c \in 1..m : parts[c] \subseteq K
    OBVIOUS
  <2> HIDE DEF parts
  <2> QED
    BY <2>1, <2>2 DEF Covered
<1>4. ASSUME NEW c \in 1..m PROVE seq[c] = M[parts[c]]
  <2>1. PICK chunk, k : chunk = chunks[c] /\ k = hi[c] - lo[c]
    OBVIOUS
  <2>2. chunk = [i \in 1..k |-> i + lo[c]] /\ k \in Nat /\ DOMAIN chunk = 1..k /\ lo[c] \in 0..n /\ hi[c] \in 0..n
    <3>1. lo[c] < hi[c] /\ lo[c] \in 0..n /\ hi[c] \in 0..n /\ lo[c] \in Int /\ hi[c] \in Int
      BY <1>1
    <3>2. k \in Nat
      BY <2>1, <3>1
    <3>3. chunk = [i \in 1..k |-> i + lo[c]]
      BY <1>1, <2>1
    <3> QED
      BY <3>1, <3>2, <3>3
  <2>3. IsSelection(chunk, k, n)
    <3>1. \A i \in 1..k : chunk[i] = i + lo[c] /\ i + lo[c] \in 1..n
      <4> SUFFICES ASSUME NEW i \in 1..k PROVE chunk[i] = i + lo[c] /\ i + lo[c] \in 1..n
        OBVIOUS
      <4>1. i <= hi[c] - lo[c] /\ i >= 1 /\ lo[c] >= 0 /\ hi[c] <= n /\ lo[c] \in Int /\ hi[c] \in Int /\ i \in Int
        BY <2>1, <2>2
      <4>2. chunk[i] = i + lo[c]
        BY <2>2
      <4>3. PICK l, h : l = lo[c] /\ h = hi[c] /\ l \in Nat /\ h \in Nat /\ h <= n /\ i <= h - l /\ i >= 1
                         /\ n \in Nat /\ i \in Int
        BY <1>1, <4>1, <2>2
      <4>4. i + l \in 1..n
        BY <4>3
      <4> QED
        BY <4>2, <4>3, <4>4
    <3>2. \A i, j \in 1..k : i # j => chunk[i] # chunk[j]
      BY <1>1, <2>2, <3>1
    <3> QED
      BY <2>2, <3>1, <3>2 DEF IsSelection
  <2>4. PICK J : J = InChunk(chunk, K) /\ J \in SUBSET (1..k)
    BY <2>2 DEF InChunk
  <2>5. IsSelection(Picked(chunk, J), Cardinality(J), n) /\ Met(Picked(chunk, J), Cardinality(J)) = {chunk[j] : j \in J}
    <3>1. n \in Nat
      BY <1>1
    <3> QED
      BY <2>3, <2>4, <3>1, PickedRows
  <2>6. {chunk[j] : j \in J} = parts[c]
    <3>1. ASSUME NEW j \in J PROVE chunk[j] \in parts[c]
      <4>1. chunk[j] \in K /\ chunk[j] = j + lo[c] /\ j \in 1..k
        BY <2>2, <2>4 DEF InChunk
      <4> QED
        <5>1. lo[c] < chunk[j] /\ chunk[j] <= hi[c]
          BY <2>1, <2>2, <4>1
        <5> QED
          BY <4>1, <5>1
    <3>2. ASSUME NEW i \in parts[c] PROVE i \in {chunk[j] : j \in J}
      <4>1. i \in K /\ lo[c] < i /\ i <= hi[c] /\ i \in Int
        OBVIOUS
      <4>2. i - lo[c] \in 1..k /\ chunk[i - lo[c]] = i
        BY <2>1, <2>2, <4>1
      <4>3. i - lo[c] \in J
        BY <2>2, <2>4, <4>1, <4>2 DEF InChunk
      <4> QED
        BY <4>2, <4>3
    <3> QED
      BY <3>1, <3>2
  <2>7. PICK rows, r : rows = Picked(chunk, J) /\ r = Cardinality(J)
    OBVIOUS
  <2>8. Reduced(rows, v) = M[Met(rows, r)]
    BY <2>5, <2>7, ReducedIsWhole
  <2>9. seq[c] = Reduced(rows, v)
    BY <1>1, <2>1, <2>4, <2>7 DEF Chunked
  <2> QED
    BY <2>5, <2>6, <2>7, <2>8, <2>9
<1>5. AreWholes(seq, M, parts, m)
  <2>1. DOMAIN seq = 1..m
    BY <1>1 DEF Chunked
  <2> HIDE DEF seq, parts
  <2> QED
    BY <1>4, <2>1 DEF AreWholes
<1> HIDE DEF seq, parts
<1>6. CombineAll(seq) = M[Covered(parts, m)]
  BY <1>2, <1>5, CombineAllIsWhole
<1> QED
  BY <1>3, <1>6 DEF seq

\* ---- the aggregate without GROUP BY ---------------------------------------------------
\* The chunks as GlobalAggregate keeps their rows.
Masked(chunks, preds, v) == [c \in DOMAIN chunks |-> Reduced(Selected(chunks[c], LAMBDA i : InMask(preds, i)), v)]
MaskIs(preds, K, n) == \A i \in 1..n : InMask(preds, i) <=> i \in K

LEMMA MaskedChunks ==
  ASSUME NEW chunks, NEW m, NEW lo, NEW hi, NEW n, Cuts(chunks, m, lo, hi, n), NEW preds,
         NEW K, MaskIs(preds, K, n), NEW v
  PROVE  Masked(chunks, preds, v) = Chunked(chunks, K, v)
<1>1. /\ m \in Nat /\ n \in Nat /\ lo \in [1..m -> 0..n] /\ hi \in [1..m -> 0..n] /\ DOMAIN chunks = 1..m
      /\ \A c \in 1..m : lo[c] < hi[c] /\ chunks[c] = [i \in 1..hi[c] - lo[c] |-> i + lo[c]]
  BY DEF Cuts
<1>2. ASSUME NEW c \in 1..m
      PROVE  Reduced(Selected(chunks[c], LAMBDA i : InMask(preds, i)), v) = Reduced(Picked(chunks[c], InChunk(chunks[c], K)), v)
  <2>1. PICK chunk : chunk = chunks[c]
    OBVIOUS
  <2>2. \A j \in DOMAIN chunk : chunk[j] \in 1..n
    <3> SUFFICES ASSUME NEW j \in DOMAIN chunk PROVE chunk[j] \in 1..n
      OBVIOUS
    <3>1. lo[c] \in 0..n /\ hi[c] \in 0..n
      BY <1>1
    <3>2. j \in 1..hi[c] - lo[c] /\ chunk[j] = j + lo[c]
      BY <1>1, <2>1
    <3> QED
      BY <1>1, <3>1, <3>2
  <2>3. {j \in DOMAIN chunk : InMask(preds, chunk[j])} = InChunk(chunk, K)
    BY <2>2 DEF InChunk, MaskIs
  <2>4. Selected(chunks[c], LAMBDA i : InMask(preds, i)) = Picked(chunks[c], {j \in DOMAIN chunks[c] : InMask(preds, chunks[c][j])})
    BY DEF Selected
  <2>5. Selected(chunks[c], LAMBDA i : InMask(preds, i)) = Picked(chunks[c], InChunk(chunks[c], K))
    BY <2>1, <2>3, <2>4
  <2> QED
    BY <2>5
<1>3. Masked(chunks, preds, v) = [c \in 1..m |-> Reduced(Selected(chunks[c], LAMBDA i : InMask(preds, i)), v)]
  BY <1>1 DEF Masked
<1>4. Chunked(chunks, K, v) = [c \in 1..m |-> Reduced(Picked(chunks[c], InChunk(chunks[c], K)), v)]
  BY <1>1 DEF Chunked
<1> QED
  BY <1>2, <1>3, <1>4

LaneSeq(pays, preds) == pays \o [q \in DOMAIN preds |-> preds[q].lane]
\* The lanes of a statement without GROUP BY over a table of n rows; the mask keeps K.
GlobalOver(pays, preds, names, table, K, n) ==
    /\ n \in Nat /\ n <= W /\ K \in SUBSET (1..n) /\ MaskIs(preds, K, n)
    /\ \A p \in DOMAIN pays : Reads(pays[p], table, names[p], n)
\* r is native's row of aggregates over the rows K.
GlobalIs(r, pays, names, table, K) ==
    /\ r.star = Cardinality(K) /\ DOMAIN r.pays = DOMAIN pays
    /\ \A p \in DOMAIN pays : \E t \in Tuple : r.pays[p] = Finished(t) /\ IsNative(t, table, K, names[p])

\* The rows without a payload are counted.
LEMMA NoLaneAggregates == ASSUME NEW n \in Nat PROVE \E M : Aggregates(M, NoLane, n)
<1>1. WordRows(NoLane, n)
  BY DEF WordRows, Counts
<1> QED
  BY <1>1, WholeExists DEF Aggregates

LEMMA LaneAggregates ==
  ASSUME NEW v, NEW table, NEW name, NEW n, Reads(v, table, name, n), n <= W
  PROVE  \E M : Aggregates(M, v, n) /\ \A S \in SUBSET (1..n) : M[S] \in Tuple /\ IsNative(M[S], table, S, name)
<1>1. WordRows(v, n)
  BY ReadsCells
<1>2. n \in Nat
  BY DEF Reads
<1>3. PICK M : IsWhole(M, v, n)
  BY <1>1, <1>2, WholeExists
<1>4. \A S \in SUBSET (1..n) : IsNative(M[S], table, S, name)
  BY <1>3, WholeIsNative
<1>5. \A S \in SUBSET (1..n) : M[S] \in Tuple
  BY <1>3 DEF IsWhole
<1> QED
  BY <1>1, <1>2, <1>3, <1>4, <1>5 DEF Aggregates

\* One row of aggregates, each payload's tuple and the count given by their wholes.
LEMMA WholesAreGlobal ==
  ASSUME NEW r, NEW pays, NEW preds, NEW names, NEW table, NEW K, NEW n, GlobalOver(pays, preds, names, table, K, n),
         r.star = Cardinality(K), DOMAIN r.pays = DOMAIN pays,
         \A p \in DOMAIN pays : \A M : Aggregates(M, pays[p], n) => r.pays[p] = Finished(M[K])
  PROVE  GlobalIs(r, pays, names, table, K)
<1>1. n <= W /\ K \in SUBSET (1..n) /\ \A p \in DOMAIN pays : Reads(pays[p], table, names[p], n)
  BY DEF GlobalOver
<1>2. ASSUME NEW p \in DOMAIN pays PROVE \E t \in Tuple : r.pays[p] = Finished(t) /\ IsNative(t, table, K, names[p])
  <2>1. PICK M : Aggregates(M, pays[p], n) /\ \A S \in SUBSET (1..n) : M[S] \in Tuple /\ IsNative(M[S], table, S, names[p])
    BY <1>1, LaneAggregates
  <2>2. M[K] \in Tuple /\ IsNative(M[K], table, K, names[p]) /\ r.pays[p] = Finished(M[K])
    BY <1>1, <2>1
  <2> QED
    BY <2>2
<1> QED
  BY <1>2 DEF GlobalIs

\* What the CPU's workers come to, however they cut the rows.
WorkOf(n, cuts, preds, v) == CombineAll(Masked(Chunks(n, cuts), preds, v))
AtWork(preds, K, n, M, v) == n # 0 /\ K \in SUBSET (1..n) /\ MaskIs(preds, K, n) /\ Aggregates(M, v, n)
LEMMA WorkersAreWhole ==
  ASSUME NEW cuts, NEW n, NEW preds, NEW K, NEW v, NEW M, AtWork(preds, K, n, M, v)
  PROVE  WorkOf(n, cuts, preds, v) = M[K]
<1> n \in Nat \ {0} /\ K \in SUBSET (1..n) /\ MaskIs(preds, K, n) /\ Aggregates(M, v, n)
  BY DEF AtWork, Aggregates
<1>1. PICK chunks : chunks = Chunks(n, cuts)
  OBVIOUS
<1>2. PICK m, lo, hi : Cuts(chunks, m, lo, hi, n)
  BY <1>1, ChunksCut
<1>3. Masked(chunks, preds, v) = Chunked(chunks, K, v)
  BY <1>2, MaskedChunks
<1>4. CutsOf(chunks, m, lo, hi, n, M, v, K)
  BY <1>2 DEF CutsOf
<1>5. CombineAll(Chunked(chunks, K, v)) = M[K]
  BY <1>4, ChunksAreWhole
<1> QED
  BY <1>1, <1>3, <1>5 DEF WorkOf

LEMMA NoRows == \A K \in SUBSET (1..0) : K = {} /\ Cardinality(K) = 0
<1>1. 1..0 = {}
  OBVIOUS
<1> QED
  BY <1>1, FS_EmptySet

\* An answer, and the row of an aggregate that gave one: the SMT translation has no
\* empty string.
Fine(r) == r.err = ""
GlobalRow(pays, star) == [err |-> "", pays |-> pays, star |-> star]
LEMMA GlobalRowIs == \A pays, star : GlobalRow(pays, star).pays = pays /\ GlobalRow(pays, star).star = star
BY Zenon DEF GlobalRow

LEMMA GlobalAggregateIs ==
  ASSUME NEW pays, NEW preds, NEW cuts, NEW n, n = LaneRows(LaneSeq(pays, preds)[1]),
         NEW r, r = GlobalAggregate(pays, preds, cuts), Fine(r)
  PROVE  /\ DOMAIN r.pays = DOMAIN pays
         /\ n = 0 => r.star = 0 /\ \A p \in DOMAIN pays : r.pays[p] = Finished(NoTuple)
         /\ n # 0 => /\ r.star = WorkOf(n, cuts, preds, NoLane).star
                     /\ \A p \in DOMAIN pays : r.pays[p] = Finished(WorkOf(n, cuts, preds, pays[p]))
<1>1. r = IF n = 0 THEN GlobalRow([p \in DOMAIN pays |-> Finished(NoTuple)], 0)
          ELSE GlobalRow([p \in DOMAIN pays |-> Finished(WorkOf(n, cuts, preds, pays[p]))], WorkOf(n, cuts, preds, NoLane).star)
  BY Zenon DEF GlobalAggregate, LaneSeq, Masked, WorkOf, Fine, GlobalRow
<1>2. CASE n = 0
  BY <1>1, <1>2, GlobalRowIs
<1>3. CASE n # 0
  BY <1>1, <1>3, GlobalRowIs
<1> QED
  BY <1>2, <1>3

\* The CPU's aggregate without GROUP BY, however its workers cut the rows, is native's
\* row: count(*), and for every payload its counts, sum, minimum and maximum over
\* the rows the mask keeps.
THEOREM HostGlobalIsNative ==
  ASSUME NEW pays, NEW preds, NEW names, NEW table, NEW K, NEW n, GlobalOver(pays, preds, names, table, K, n),
         LaneRows(LaneSeq(pays, preds)[1]) = n, NEW cuts, Fine(GlobalAggregate(pays, preds, cuts))
  PROVE  GlobalIs(GlobalAggregate(pays, preds, cuts), pays, names, table, K)
<1>1. n \in Nat /\ n <= W /\ K \in SUBSET (1..n) /\ MaskIs(preds, K, n)
  BY DEF GlobalOver
<1>2. PICK r : r = GlobalAggregate(pays, preds, cuts)
  OBVIOUS
<1>3. CASE n = 0
  <2>1. K = {} /\ Cardinality(K) = 0
    BY <1>1, <1>3, NoRows
  <2>3. r.star = Cardinality(K) /\ DOMAIN r.pays = DOMAIN pays /\ \A p \in DOMAIN pays : r.pays[p] = Finished(NoTuple)
    BY <1>2, <1>3, <2>1, GlobalAggregateIs
  <2>4. ASSUME NEW p \in DOMAIN pays, NEW M, Aggregates(M, pays[p], n) PROVE r.pays[p] = Finished(M[K])
    <3>1. M[K] = NoTuple
      BY <2>1, <2>4 DEF Aggregates, IsWhole
    <3> QED
      BY <2>3, <3>1
  <2>5. GlobalIs(r, pays, names, table, K)
    BY <2>3, <2>4, WholesAreGlobal
  <2> QED
    BY <1>2, <2>5
<1>4. CASE n # 0
  <2>1. n \in Nat \ {0}
    BY <1>1, <1>4
  <2>3. /\ r.star = WorkOf(n, cuts, preds, NoLane).star /\ DOMAIN r.pays = DOMAIN pays
        /\ \A p \in DOMAIN pays : r.pays[p] = Finished(WorkOf(n, cuts, preds, pays[p]))
    BY <1>2, <1>4, GlobalAggregateIs
  <2>4. ASSUME NEW v, NEW M, Aggregates(M, v, n) PROVE WorkOf(n, cuts, preds, v) = M[K]
    <3>1. AtWork(preds, K, n, M, v)
      BY <1>1, <2>1, <2>4 DEF AtWork
    <3> QED
      BY <3>1, WorkersAreWhole
  <2>5. r.star = Cardinality(K)
    <3>1. PICK M : Aggregates(M, NoLane, n)
      BY <1>1, NoLaneAggregates
    <3>2. M[K].star = Cardinality(K)
      BY <1>1, <3>1, StarsCount
    <3> QED
      BY <2>3, <2>4, <3>1, <3>2
  <2>6. ASSUME NEW p \in DOMAIN pays, NEW M, Aggregates(M, pays[p], n) PROVE r.pays[p] = Finished(M[K])
    BY <2>3, <2>4, <2>6
  <2>7. GlobalIs(r, pays, names, table, K)
    BY <2>3, <2>5, <2>6, WholesAreGlobal
  <2> QED
    BY <1>2, <2>7
<1> QED
  BY <1>3, <1>4

\* The rows a mask keeps, as every operator of both backends lists them.
KeptOf(K, n) == Picked(Rows(n), K)
LEMMA KeptOfIs ==
  ASSUME NEW n \in Nat, NEW K \in SUBSET (1..n)
  PROVE  /\ IsSelection(KeptOf(K, n), Cardinality(K), n) /\ Met(KeptOf(K, n), Cardinality(K)) = K
         /\ Len(KeptOf(K, n)) = Cardinality(K)
<1>1. IsSelection(KeptOf(K, n), Cardinality(K), n) /\ Met(KeptOf(K, n), Cardinality(K)) = K
  BY KeptRows DEF KeptOf
<1>2. DOMAIN KeptOf(K, n) = 1..Cardinality(K) /\ Cardinality(K) \in Nat
  BY <1>1 DEF IsSelection
<1>3. PICK at, s : at = Rising(K) /\ s = Rows(n)
  OBVIOUS
<1>4. KeptOf(K, n) = [k \in DOMAIN at |-> s[at[k]]]
  BY <1>3 DEF KeptOf, Picked
<1>5. PICK c : c = Cardinality(K)
  OBVIOUS
<1>6. KeptOf(K, n) = [k \in 1..c |-> s[at[k]]] /\ c \in Nat
  BY <1>2, <1>4, <1>5
<1>7. Len(KeptOf(K, n)) = c
  BY <1>6
<1> QED
  BY <1>1, <1>5, <1>7

\* The mask of a statement on the device keeps K.
DeviceMaskIs(preds, K, n) == \A i \in 1..n : Mask(preds, n)[i] <=> i \in K
DeviceOver(pays, preds, names, table, K, n) ==
    /\ n \in Nat /\ n <= W /\ K \in SUBSET (1..n) /\ DeviceMaskIs(preds, K, n)
    /\ \A p \in DOMAIN pays : Reads(Read(pays[p].col), table, names[p], n)

DeviceRows(preds, n) == LET mask == Mask(preds, n) IN Selected(Rows(n), LAMBDA i : mask[i])
LEMMA DeviceKept ==
  ASSUME NEW preds, NEW n, NEW K \in SUBSET (1..n), DeviceMaskIs(preds, K, n), n \in Nat
  PROVE  DeviceRows(preds, n) = KeptOf(K, n)
<1>1. DOMAIN Rows(n) = 1..n /\ \A j \in 1..n : Rows(n)[j] = j
  BY DEF Rows
<1>2. {j \in DOMAIN Rows(n) : Mask(preds, n)[Rows(n)[j]]} = K
  <2> SUFFICES ASSUME NEW j \in 1..n PROVE Mask(preds, n)[Rows(n)[j]] <=> j \in K
    BY <1>1
  <2> QED
    BY <1>1 DEF DeviceMaskIs
<1> QED
  BY <1>2 DEF Selected, KeptOf, DeviceRows

DeviceOf(pay, kept) == DeviceReduce(Read(pay.col), kept)
LEMMA DeviceGlobalIs ==
  ASSUME NEW pays, NEW preds, NEW n, n = Len(LaneSeq(pays, preds)[1].col.data), n \in Nat,
         NEW K \in SUBSET (1..n), DeviceMaskIs(preds, K, n), NEW r, r = DeviceGlobal(pays, preds), Fine(r)
  PROVE  /\ DOMAIN r.pays = DOMAIN pays
         /\ \A p \in DOMAIN pays : r.pays[p] = Finished(DeviceOf(pays[p], KeptOf(K, n)))
         /\ r.star = IF pays = <<>> THEN Len(KeptOf(K, n)) ELSE DeviceOf(pays[1], KeptOf(K, n)).star
<1>1. PICK kept : kept = DeviceRows(preds, n)
  OBVIOUS
<1>2. kept = KeptOf(K, n)
  BY <1>1, DeviceKept
<1>3. kept = DeviceRows(preds, Len(LaneSeq(pays, preds)[1].col.data))
  BY <1>1
<1> DEFINE rows == DeviceRows(preds, Len(LaneSeq(pays, preds)[1].col.data))
<1>4. CASE pays = <<>>
  <2>1. r = GlobalRow([p \in DOMAIN pays |-> Finished(DeviceOf(pays[p], rows))], Len(rows))
    BY <1>4, Zenon DEF DeviceGlobal, LaneSeq, Fine, GlobalRow, DeviceOf, DeviceRows
  <2> HIDE DEF rows
  <2>2. rows = kept
    BY <1>3 DEF rows
  <2> QED
    BY <1>2, <1>4, <2>1, <2>2, GlobalRowIs
<1>5. CASE pays # <<>>
  <2>1. r = GlobalRow([p \in DOMAIN pays |-> Finished(DeviceOf(pays[p], rows))], DeviceOf(pays[1], rows).star)
    BY <1>5, Zenon DEF DeviceGlobal, LaneSeq, Fine, GlobalRow, DeviceOf, DeviceRows
  <2> HIDE DEF rows
  <2>2. rows = kept
    BY <1>3 DEF rows
  <2>3. r.pays = [p \in DOMAIN pays |-> Finished(DeviceOf(pays[p], rows))] /\ r.star = DeviceOf(pays[1], rows).star
    BY <2>1, GlobalRowIs
  <2>4. rows = KeptOf(K, n)
    BY <1>2, <2>2
  <2> QED
    BY <1>5, <2>3, <2>4
<1> QED
  BY <1>4, <1>5

\* The device's aggregate without GROUP BY, which counts the rows once and reduces
\* each packed payload in an order nobody chose, is native's row as well.
THEOREM DeviceGlobalIsNative ==
  ASSUME NEW pays, NEW preds, NEW names, NEW table, NEW K, NEW n, DeviceOver(pays, preds, names, table, K, n),
         Len(LaneSeq(pays, preds)[1].col.data) = n, pays # <<>> => 1 \in DOMAIN pays, Fine(DeviceGlobal(pays, preds))
  PROVE  GlobalIs(DeviceGlobal(pays, preds), pays, names, table, K)
<1>1. /\ n \in Nat /\ n <= W /\ K \in SUBSET (1..n) /\ DeviceMaskIs(preds, K, n)
      /\ \A p \in DOMAIN pays : Reads(Read(pays[p].col), table, names[p], n)
  BY DEF DeviceOver
<1>2. PICK r : r = DeviceGlobal(pays, preds)
  OBVIOUS
<1>3. PICK kept, m : kept = KeptOf(K, n) /\ m = Cardinality(K)
  OBVIOUS
<1>4. IsSelection(kept, m, n) /\ Met(kept, m) = K /\ Len(kept) = m
  BY <1>1, <1>3, KeptOfIs
<1>5. /\ DOMAIN r.pays = DOMAIN pays
      /\ \A p \in DOMAIN pays : r.pays[p] = Finished(DeviceOf(pays[p], kept))
      /\ r.star = IF pays = <<>> THEN Len(kept) ELSE DeviceOf(pays[1], kept).star
  BY <1>1, <1>2, <1>3, DeviceGlobalIs
<1>6. ASSUME NEW p \in DOMAIN pays
      PROVE  \E t \in Tuple : t = DeviceOf(pays[p], kept) /\ t.star = m /\ IsNative(t, table, K, names[p])
  <2>1. PICK v : v = Read(pays[p].col)
    OBVIOUS
  <2>2. PICK M : Aggregates(M, v, n) /\ \A S \in SUBSET (1..n) : M[S] \in Tuple /\ IsNative(M[S], table, S, names[p])
    BY <1>1, <2>1, LaneAggregates
  <2>3. DeviceReduce(v, kept) = M[Met(kept, m)]
    BY <1>4, <2>2, DeviceReduceIsWhole
  <2>4. M[K].star = Cardinality(K)
    BY <1>1, <2>2, StarsCount
  <2> QED
    BY <1>1, <1>3, <1>4, <2>1, <2>2, <2>3, <2>4 DEF DeviceOf
<1>7. r.star = m
  BY <1>4, <1>5, <1>6
<1>8. GlobalIs(r, pays, names, table, K)
  BY <1>3, <1>5, <1>6, <1>7 DEF GlobalIs
<1> QED
  BY <1>2, <1>8

\* ---- groups ---------------------------------------------------------------------------
\* The rows of K with key x, the group they make, and the keys there are.
OfKey(table, K, x) == {i \in K : table[i].k = x}
GroupOf(M, table, K, x) == GroupRow(IF x = NoCell THEN 0 ELSE x, x = NoCell, M[OfKey(table, K, x)])
KeysOf(table, K) == {table[i].k : i \in K}
NumbersOf(table, K) == {x \in KeysOf(table, K) : x # NoCell}
\* rows has one group for each key of D, ascending, NULL last.
ListsGroups(rows, keys, m, table, K, M, D) ==
    /\ m \in Nat /\ DOMAIN rows = 1..m /\ DOMAIN keys = 1..m
    /\ \A j \in 1..m : keys[j] \in D /\ rows[j] = GroupOf(M, table, K, keys[j])
    /\ \A x \in D : \E j \in 1..m : keys[j] = x
    /\ \A i, j \in 1..m : i < j => KeyAscending(keys[i], keys[j])

LEMMA ImageIsFinite ==
  ASSUME NEW S, IsFiniteSet(S), NEW f
  PROVE  IsFiniteSet({f[x] : x \in S})
<1>1. PICK T, g : T = {f[x] : x \in S} /\ g = [x \in S |-> f[x]]
  OBVIOUS
<1>2. g \in Surjection(S, T)
  BY <1>1 DEF Surjection
<1> QED
  BY <1>1, <1>2, FS_Surjection

\* The group of the NULL key stands behind the others.
LEMMA NullIsLast ==
  ASSUME NEW rows, NEW keys, NEW m, NEW table, NEW K, NEW M, ListsGroups(rows, keys, m, table, K, M, NumbersOf(table, K)),
         NEW all, OfKey(table, K, NoCell) = {} => all = rows,
         OfKey(table, K, NoCell) # {} => /\ DOMAIN all = 1..m + 1 /\ \A j \in 1..m : all[j] = rows[j]
                                         /\ all[m + 1] = GroupRow(0, TRUE, M[OfKey(table, K, NoCell)])
  PROVE  \E names, c : ListsGroups(all, names, c, table, K, M, KeysOf(table, K))
<1>1. CASE OfKey(table, K, NoCell) = {}
  <2>1. NumbersOf(table, K) = KeysOf(table, K)
    BY <1>1 DEF OfKey, NumbersOf, KeysOf
  <2> QED
    BY <1>1, <2>1
<1>2. CASE OfKey(table, K, NoCell) # {}
  <2>1. m \in Nat /\ DOMAIN keys = 1..m /\ DOMAIN rows = 1..m
    BY DEF ListsGroups
  <2>2. PICK names : names = [j \in 1..m + 1 |-> IF j = m + 1 THEN NoCell ELSE keys[j]]
    OBVIOUS
  <2>3. DOMAIN names = 1..m + 1 /\ names[m + 1] = NoCell /\ \A j \in 1..m : names[j] = keys[j] /\ keys[j] # NoCell
    BY <2>1, <2>2 DEF ListsGroups, NumbersOf
  <2>4. NoCell \in KeysOf(table, K)
    BY <1>2 DEF OfKey, KeysOf
  <2>5. \A j \in 1..m + 1 : names[j] \in KeysOf(table, K)
    BY <2>1, <2>3, <2>4 DEF ListsGroups, NumbersOf
  <2>6. ASSUME NEW j \in 1..m + 1 PROVE all[j] = GroupOf(M, table, K, names[j])
    <3>1. CASE j = m + 1
      BY <1>2, <2>3, <3>1 DEF GroupOf
    <3>2. CASE j \in 1..m
      BY <1>2, <2>3, <3>2 DEF ListsGroups
    <3> QED
      BY <2>1, <3>1, <3>2
  <2>7. ASSUME NEW x \in KeysOf(table, K) PROVE \E j \in 1..m + 1 : names[j] = x
    <3>1. CASE x = NoCell
      BY <2>1, <2>3, <3>1
    <3>2. CASE x # NoCell
      <4>1. PICK j \in 1..m : keys[j] = x
        BY <3>2 DEF ListsGroups, NumbersOf
      <4> QED
        BY <2>1, <2>3, <4>1
    <3> QED
      BY <3>1, <3>2
  <2>8. ASSUME NEW i \in 1..m + 1, NEW j \in 1..m + 1, i < j PROVE KeyAscending(names[i], names[j])
    <3>1. i \in 1..m /\ names[i] = keys[i] /\ keys[i] # NoCell
      BY <2>1, <2>3, <2>8
    <3>2. CASE j = m + 1
      BY <2>3, <3>1, <3>2 DEF KeyAscending
    <3>3. CASE j \in 1..m
      BY <2>3, <2>8, <3>1, <3>3 DEF ListsGroups
    <3> QED
      BY <2>1, <3>2, <3>3
  <2>9. m + 1 \in Nat
    BY <2>1
  <2>10. DOMAIN all = 1..m + 1
    BY <1>2
  <2>11. ListsGroups(all, names, m + 1, table, K, M, KeysOf(table, K))
    BY <2>3, <2>5, <2>6, <2>7, <2>8, <2>9, <2>10 DEF ListsGroups
  <2> QED
    BY <2>11
<1> QED
  BY <1>1, <1>2

\* ---- the CPU's groups ------------------------------------------------------------------
\* The rows of K the operator keeps, one after the other, and those of them that pass a test.
Listed(rows, c, K, n) == n \in Nat /\ IsSelection(rows, c, n) /\ Met(rows, c) = K
LEMMA ListedPart ==
  ASSUME NEW rows, NEW c, NEW K, NEW n, Listed(rows, c, K, n), NEW P
  PROVE  LET J == {j \in DOMAIN rows : rows[j] \in P}
         IN  Listed(Picked(rows, J), Cardinality(J), K \cap P, n)
<1> DEFINE J == {j \in DOMAIN rows : rows[j] \in P}
<1>1. DOMAIN rows = 1..c /\ n \in Nat /\ IsSelection(rows, c, n) /\ Met(rows, c) = K
  BY DEF Listed, IsSelection
<1>2. J \in SUBSET (1..c)
  BY <1>1
<1>3. {rows[j] : j \in J} = K \cap P
  BY <1>1 DEF Met
<1> HIDE DEF J
<1>4. IsSelection(Picked(rows, J), Cardinality(J), n) /\ Met(Picked(rows, J), Cardinality(J)) = {rows[j] : j \in J}
  <2>1. n \in Nat /\ IsSelection(rows, c, n)
    BY <1>1
  <2> QED
    BY ONLY <2>1, <1>2, PickedRows
<1>5. Listed(Picked(rows, J), Cardinality(J), K \cap P, n)
  BY <1>1, <1>3, <1>4 DEF Listed
<1> QED
  BY <1>5 DEF J

LEMMA ListedIsFinite ==
  ASSUME NEW rows, NEW c, NEW K, NEW n, Listed(rows, c, K, n)
  PROVE  K \in SUBSET (1..n) /\ IsFiniteSet(K) /\ ToSet(rows) = K /\ DOMAIN rows = 1..c /\ c \in Nat
<1>1. K \in SUBSET (1..n) /\ n \in Nat /\ DOMAIN rows = 1..c /\ c \in Nat
  BY MetIsSubset DEF Listed, IsSelection
<1>2. IsFiniteSet(K)
  <2>1. IsFiniteSet(1..n)
    BY <1>1, FS_Interval
  <2> QED
    BY <1>1, <2>1, FS_Subset
<1>3. ToSet(rows) = K
  BY <1>1 DEF ToSet, Listed, Met
<1> QED
  BY <1>1, <1>2, <1>3

\* The rows of the scan with a key of its own, and those without.
HasKey(k, rows) == {j \in DOMAIN rows : IsValid(k, rows[j])}
NoKey(k, rows) == {j \in DOMAIN rows : ~IsValid(k, rows[j])}
WithKey(k, rows, x) == {j \in DOMAIN rows : Cell(k, rows[j]) = x}
LEMMA GroupedIs ==
  ASSUME NEW k, NEW v, NEW kept
  PROVE  Grouped(k, v, kept) = Valid(k, v, Picked(kept, HasKey(k, kept))) \o Null(v, Picked(kept, NoKey(k, kept)))
BY DEF Grouped, Selected, HasKey, NoKey
LEMMA ByKeyIs ==
  ASSUME NEW k, NEW v, NEW rows, NEW keys
  PROVE  ByKey(k, v, rows, keys) =
           [g \in DOMAIN keys |-> GroupRow(keys[g], FALSE, Reduced(Picked(rows, WithKey(k, rows, keys[g])), v))]
BY DEF ByKey, Selected, WithKey

\* rows are the rows of K that have a key.
KeyedRows(k, v, table, n, M, K, rows, c) ==
    /\ Reads(k, table, "k", n) /\ Aggregates(M, v, n) /\ K \in SUBSET (1..n)
    /\ Listed(rows, c, {i \in K : table[i].k # NoCell}, n)
LEMMA KeyReads ==
  ASSUME NEW k, NEW table, NEW n, Reads(k, table, "k", n), NEW i \in 1..n
  PROVE  /\ IsValid(k, i) <=> table[i].k # NoCell
         /\ table[i].k # NoCell => Cell(k, i) = table[i].k /\ table[i].k \in Word
<1>1. /\ Counts(k, i) <=> table[i]["k"] # NoCell
      /\ table[i]["k"] # NoCell => Cell(k, i) = table[i]["k"] /\ table[i]["k"] \in Word
  BY ReadsCells
<1>2. k # NoLane
  BY DEF Reads
<1> QED
  BY <1>1, <1>2 DEF Counts

\* Keys ascending, one group each.
LEMMA ValidLists ==
  ASSUME NEW k, NEW v, NEW table, NEW n, NEW M, NEW K, NEW rows, NEW c, KeyedRows(k, v, table, n, M, K, rows, c)
  PROVE  \E keys, m : ListsGroups(Valid(k, v, rows), keys, m, table, K, M, NumbersOf(table, K))
<1>1. PICK V : V = {i \in K : table[i].k # NoCell}
  OBVIOUS
<1>2. Listed(rows, c, V, n) /\ K \in SUBSET (1..n) /\ V \in SUBSET (1..n) /\ V \subseteq K
  BY <1>1 DEF KeyedRows
<1>3. IsFiniteSet(V) /\ ToSet(rows) = V
  BY <1>2, ListedIsFinite
<1>4. PICK D : D = {Cell(k, i) : i \in ToSet(rows)}
  OBVIOUS
<1>5. \A i \in V : Cell(k, i) = table[i].k /\ table[i].k \in Word
  BY <1>1, <1>2, KeyReads DEF KeyedRows
<1>6. D = NumbersOf(table, K)
  BY <1>1, <1>3, <1>4, <1>5 DEF NumbersOf, KeysOf
<1>7. D \in SUBSET Int /\ IsFiniteSet(D)
  <2>1. D = {Cell(k, i) : i \in V}
    BY <1>3, <1>4
  <2>2. IsFiniteSet({Cell(k, i) : i \in V})
    <3>1. PICK f : f = [i \in V |-> Cell(k, i)]
      OBVIOUS
    <3>2. {Cell(k, i) : i \in V} = {f[i] : i \in V}
      BY <3>1
    <3> QED
      BY <1>3, <3>2, ImageIsFinite
  <2>3. \A x \in D : x \in Word
    BY <1>5, <2>1
  <2> QED
    BY <2>1, <2>2, <2>3, WordsAreInts
<1>8. PICK keys, m : keys = Rising(D) /\ m = Cardinality(D)
  OBVIOUS
<1>9. Ascends(keys, D)
  BY <1>7, <1>8, RisingAscends
<1>10. m \in Nat /\ DOMAIN keys = 1..m
  BY <1>8, <1>9 DEF Ascends
<1>11. ASSUME NEW g \in 1..m
       PROVE  Reduced(Picked(rows, WithKey(k, rows, keys[g])), v) = M[OfKey(table, K, keys[g])]
  <2>1. PICK P : P = OfKey(table, V, keys[g])
    OBVIOUS
  <2>2. keys[g] \in D
    BY <1>8, <1>9 DEF Ascends
  <2>3. keys[g] # NoCell
    BY <1>6, <2>2 DEF NumbersOf
  <2>4. P = OfKey(table, K, keys[g]) /\ V \cap P = P
    BY <1>1, <2>1, <2>3 DEF OfKey
  <2>5. \A j \in DOMAIN rows : rows[j] \in V
    BY <1>2, <1>3, ListedIsFinite DEF ToSet
  <2>6. WithKey(k, rows, keys[g]) = {j \in DOMAIN rows : rows[j] \in P}
    BY <1>5, <2>1, <2>5 DEF WithKey, OfKey
  <2>7. PICK part, d : part = Picked(rows, WithKey(k, rows, keys[g])) /\ Listed(part, d, P, n)
    BY <1>2, <2>4, <2>6, ListedPart
  <2>8. Reduced(part, v) = M[Met(part, d)]
    BY <2>7, ReducedIsWhole DEF KeyedRows, Listed
  <2> QED
    BY <2>4, <2>7, <2>8 DEF Listed
<1>12. Valid(k, v, rows) = [g \in 1..m |-> GroupRow(keys[g], FALSE, Reduced(Picked(rows, WithKey(k, rows, keys[g])), v))]
  <2>1. Valid(k, v, rows) = ByKey(k, v, rows, keys)
    BY <1>4, <1>8 DEF Valid
  <2> QED
    BY <1>10, <2>1, ByKeyIs
<1>13. \A g \in 1..m : Valid(k, v, rows)[g] = GroupOf(M, table, K, keys[g])
  <2>1. \A g \in 1..m : keys[g] # NoCell
    BY <1>6, <1>8, <1>9 DEF Ascends, NumbersOf
  <2> QED
    BY <1>11, <1>12, <2>1 DEF GroupOf
<1>14. \A i, j \in 1..m : i < j => KeyAscending(keys[i], keys[j])
  BY <1>6, <1>8, <1>9 DEF Ascends, KeyAscending, NumbersOf
<1>15. DOMAIN Valid(k, v, rows) = 1..m
  BY <1>12
<1>16. \A g \in 1..m : keys[g] \in D
  BY <1>8, <1>9 DEF Ascends
<1>17. \A x \in D : \E j \in 1..m : keys[j] = x
  BY <1>8, <1>9 DEF Ascends
<1>18. ListsGroups(Valid(k, v, rows), keys, m, table, K, M, D)
  BY <1>10, <1>13, <1>14, <1>15, <1>16, <1>17 DEF ListsGroups
<1> QED
  BY <1>6, <1>18

LEMMA RowsAppended ==
  ASSUME NEW rows, NEW m \in Nat, rows = [j \in 1..m |-> rows[j]], NEW x
  PROVE  /\ rows \o <<>> = rows
         /\ DOMAIN (rows \o <<x>>) = 1..m + 1 /\ \A j \in 1..m : (rows \o <<x>>)[j] = rows[j]
         /\ (rows \o <<x>>)[m + 1] = x
         /\ Append(rows, x) = rows \o <<x>>
<1>1. PICK S : S = {rows[j] : j \in 1..m} \cup {x}
  OBVIOUS
<1>2. rows \in Seq(S) /\ <<x>> \in Seq(S) /\ Len(rows) = m
  <2>1. \A j \in 1..m : rows[j] \in S
    BY <1>1
  <2>2. rows \in [1..m -> S]
    BY <2>1
  <2> QED
    BY <1>1, <2>2, SeqDef
<1> QED
  BY <1>2

\* What the CPU lists of the rows kept.
LEMMA GroupedLists ==
  ASSUME NEW k, NEW v, NEW table, NEW n, Reads(k, table, "k", n), NEW M, Aggregates(M, v, n),
         NEW K \in SUBSET (1..n), NEW kept, NEW c, Listed(kept, c, K, n)
  PROVE  \E keys, m : ListsGroups(Grouped(k, v, kept), keys, m, table, K, M, KeysOf(table, K))
<1>1. PICK V, U : V = {i \in K : table[i].k # NoCell} /\ U = OfKey(table, K, NoCell)
  OBVIOUS
<1>2. \A j \in DOMAIN kept : kept[j] \in K
  BY ListedIsFinite DEF ToSet
<1>3. \A i \in K : IsValid(k, i) <=> table[i].k # NoCell
  BY KeyReads
<1>4. HasKey(k, kept) = {j \in DOMAIN kept : kept[j] \in V} /\ K \cap V = V
  BY <1>1, <1>2, <1>3 DEF HasKey
<1>5. NoKey(k, kept) = {j \in DOMAIN kept : kept[j] \in U} /\ K \cap U = U
  BY <1>1, <1>2, <1>3 DEF NoKey, OfKey
<1>6. PICK keyed, a : keyed = Picked(kept, HasKey(k, kept)) /\ Listed(keyed, a, V, n)
  BY <1>4, ListedPart
<1>7. PICK bare, b : bare = Picked(kept, NoKey(k, kept)) /\ Listed(bare, b, U, n)
  BY <1>5, ListedPart
<1>8. PICK rows : rows = Valid(k, v, keyed)
  OBVIOUS
<1>9. PICK keys, m : ListsGroups(rows, keys, m, table, K, M, NumbersOf(table, K))
  BY <1>1, <1>6, <1>8, ValidLists DEF KeyedRows
<1>10. PICK all : all = Grouped(k, v, kept)
  OBVIOUS
<1>11. all = rows \o Null(v, bare)
  BY <1>6, <1>7, <1>8, <1>10, GroupedIs
<1>12. m \in Nat /\ rows = [j \in 1..m |-> rows[j]]
  <2>1. DOMAIN rows = 1..m /\ m \in Nat
    BY <1>9 DEF ListsGroups
  <2>2. rows = [g \in DOMAIN rows |-> rows[g]]
    BY <1>8 DEF Valid, ByKey
  <2> QED
    BY <2>1, <2>2
<1>13. bare = <<>> <=> U = {}
  <2>1. DOMAIN bare = 1..b /\ b \in Nat /\ ToSet(bare) = U
    BY <1>7, ListedIsFinite
  <2>2. U = {} <=> b = 0
    BY <2>1 DEF ToSet
  <2>3. bare = [j \in DOMAIN bare |-> bare[j]]
    BY <1>7 DEF Picked
  <2> QED
    BY <2>1, <2>2, <2>3
<1>14. CASE U = {}
  <2>1. all = rows
    BY <1>11, <1>12, <1>13, <1>14, RowsAppended DEF Null
  <2> QED
    BY <1>1, <1>9, <1>10, <1>14, <2>1, NullIsLast
<1>15. CASE U # {}
  <2>1. PICK x : x = GroupRow(0, TRUE, Reduced(bare, v))
    OBVIOUS
  <2>2. all = rows \o <<x>>
    BY <1>11, <1>13, <1>15, <2>1 DEF Null
  <2>3. Reduced(bare, v) = M[U]
    BY <1>7, ReducedIsWhole DEF Listed
  <2>4. DOMAIN all = 1..m + 1 /\ all[m + 1] = x /\ \A j \in 1..m : all[j] = rows[j]
    BY <1>12, <2>2, RowsAppended
  <2>5. all[m + 1] = GroupRow(0, TRUE, M[U])
    BY <2>1, <2>3, <2>4
  <2>6. \E names, d : ListsGroups(all, names, d, table, K, M, KeysOf(table, K))
    BY <1>1, <1>9, <1>15, <2>4, <2>5, NullIsLast
  <2> QED
    BY <1>10, <2>6
<1> QED
  BY <1>14, <1>15

\* ---- runs of equal keys ----------------------------------------------------------------
\* keys has the numbers of D, each once, ascending.
Increases(keys, m, D) ==
    /\ m \in Nat /\ DOMAIN keys = 1..m /\ \A j \in 1..m : keys[j] \in D
    /\ \A x \in D : \E j \in 1..m : keys[j] = x
    /\ \A i, j \in 1..m : i < j => keys[i] < keys[j]
\* key ascends over 1..c with repetitions; E has the first position of every run, End the last.
IsKeyed(key, c) ==
    /\ c \in Nat /\ key \in [1..c -> Int]
    /\ \A p, q \in 1..c : p < q => key[p] <= key[q]
StartsOf(key, c) == {p \in 1..c : p = 1 \/ key[p] # key[p - 1]}
RunsFrom(key, c, E, m, End) ==
    /\ m \in Nat /\ DOMAIN E = 1..m
    /\ \A r \in 1..m : E[r] \in 1..c /\ End[r] \in Int /\ E[r] <= End[r] /\ End[r] <= c
    /\ \A r \in 1..m, p \in 1..c : key[p] = key[E[r]] <=> E[r] <= p /\ p <= End[r]
    /\ \A p \in 1..c : \E r \in 1..m : key[E[r]] = key[p]
    /\ \A i, j \in 1..m : i < j => key[E[i]] < key[E[j]]

LEMMA StartIsThere ==
  ASSUME NEW key, NEW c, IsKeyed(key, c)
  PROVE  \A p \in 1..c : \E q \in StartsOf(key, c) : q <= p /\ key[q] = key[p]
<1> DEFINE P == {k \in 0..c : k # 0 => \E q \in StartsOf(key, c) : q <= k /\ key[q] = key[k]}
<1>1. c \in Nat /\ key \in [1..c -> Int]
  BY DEF IsKeyed
<1>2. 0 \in P
  BY <1>1
<1>3. ASSUME NEW k \in 1..c, k - 1 \in P PROVE k \in P
  <2>1. CASE k \in StartsOf(key, c)
    BY <1>1, <2>1
  <2>2. CASE k \notin StartsOf(key, c)
    <3>1. k # 1 /\ key[k] = key[k - 1]
      BY <2>2 DEF StartsOf
    <3>2. k - 1 # 0
      BY <3>1
    <3>3. PICK q \in StartsOf(key, c) : q <= k - 1 /\ key[q] = key[k - 1]
      BY <1>3, <3>2
    <3>4. q \in Int
      BY DEF StartsOf
    <3>5. q <= k /\ key[q] = key[k]
      BY <3>1, <3>3, <3>4
    <3> QED
      BY <1>1, <3>5
  <2> QED
    BY <2>1, <2>2
<1> HIDE DEF P
<1>4. \A k \in 0..c : k \in P
  BY <1>1, <1>2, <1>3, CountUp
<1> QED
  BY <1>1, <1>4 DEF P

LEMMA RunsAre ==
  ASSUME NEW key, NEW c, IsKeyed(key, c), NEW E, Ascends(E, StartsOf(key, c)),
         NEW m, m = Cardinality(StartsOf(key, c)),
         NEW End, \A r \in 1..m : End[r] = IF r = m THEN c ELSE E[r + 1] - 1
  PROVE  RunsFrom(key, c, E, m, End)
<1>1. c \in Nat /\ key \in [1..c -> Int] /\ \A p, q \in 1..c : p < q => key[p] <= key[q]
  BY DEF IsKeyed
<1>2. PICK S : S = StartsOf(key, c)
  OBVIOUS
<1>3. S \subseteq 1..c /\ \A p \in S : p = 1 \/ key[p] # key[p - 1]
  BY <1>2 DEF StartsOf
<1>4. /\ m \in Nat /\ DOMAIN E = 1..m /\ \A r \in 1..m : E[r] \in S
      /\ \A q \in S : \E r \in 1..m : E[r] = q
      /\ \A i, j \in 1..m : i < j => E[i] < E[j]
  BY <1>2 DEF Ascends
<1>5. \A r \in 1..m : E[r] \in 1..c
  BY <1>3, <1>4
<1>6. \A i, j \in 1..m : i < j => key[E[i]] < key[E[j]]
  <2> SUFFICES ASSUME NEW i \in 1..m, NEW j \in 1..m, i < j PROVE key[E[i]] < key[E[j]]
    OBVIOUS
  <2>1. PICK a \in 1..c, b \in 1..c : a = E[i] /\ b = E[j]
    BY <1>5
  <2>2. a < b
    BY <1>4, <2>1
  <2>3. key[b] # key[b - 1]
    BY <1>3, <1>4, <2>1, <2>2
  <2>4. b - 1 \in 1..c /\ a <= b - 1
    BY <1>1, <2>2
  <2>5. key[b - 1] <= key[b] /\ key[a] <= key[b - 1]
    BY <1>1, <2>4
  <2>6. key[a] < key[b]
    BY <1>1, <2>3, <2>4, <2>5
  <2> QED
    BY <2>1, <2>6
<1>7. \A p \in 1..c : \E r \in 1..m : E[r] <= p /\ key[E[r]] = key[p]
  BY <1>2, <1>4, StartIsThere
<1>8. ASSUME NEW i \in 1..m, NEW j \in 1..m, key[E[i]] = key[E[j]] PROVE i = j
  <2>1. i < j \/ j < i \/ i = j
    OBVIOUS
  <2>2. key[E[i]] \in Int /\ key[E[j]] \in Int
    BY <1>1, <1>5
  <2> QED
    BY <1>6, <1>8, <2>1, <2>2
<1>9. ASSUME NEW r \in 1..m
      PROVE  /\ End[r] \in Int /\ E[r] <= End[r] /\ End[r] <= c
             /\ \A p \in 1..c : key[p] = key[E[r]] <=> E[r] <= p /\ p <= End[r]
  <2>1. CASE r = m
    <3>1. End[r] = c /\ E[r] <= c /\ E[r] \in 1..c
      BY <1>5, <2>1
    <3>2. ASSUME NEW p \in 1..c, key[p] = key[E[r]] PROVE E[r] <= p
      <4>1. PICK j \in 1..m : E[j] <= p /\ key[E[j]] = key[p]
        BY <1>7
      <4> QED
        BY <1>8, <3>2, <4>1
    <3>3. ASSUME NEW p \in 1..c, E[r] <= p PROVE key[p] = key[E[r]]
      <4>1. PICK j \in 1..m : E[j] <= p /\ key[E[j]] = key[p]
        BY <1>7
      <4>2. key[E[r]] <= key[p]
        BY <1>1, <3>1, <3>3
      <4>3. j = r \/ j < r
        BY <2>1
      <4>4. CASE j < r
        <5>1. key[E[j]] < key[E[r]]
          BY <1>6, <4>4
        <5>2. key[E[j]] \in Int /\ key[E[r]] \in Int /\ key[p] \in Int
          BY <1>1, <1>5
        <5> QED
          BY <4>1, <4>2, <5>1, <5>2
      <4> QED
        BY <4>1, <4>3, <4>4
    <3> QED
      BY <1>1, <3>1, <3>2, <3>3
  <2>2. CASE r # m
    <3>1. r + 1 \in 1..m /\ r < r + 1
      BY <1>4, <2>2
    <3>2. PICK b \in 1..c : b = E[r + 1] /\ End[r] = b - 1
      BY <1>5, <2>2, <3>1
    <3>3. E[r] \in 1..c /\ E[r] < b /\ key[E[r]] < key[b]
      BY <1>4, <1>5, <1>6, <3>1, <3>2
    <3>4. ASSUME NEW p \in 1..c, key[p] = key[E[r]] PROVE E[r] <= p /\ p <= End[r]
      <4>1. PICK j \in 1..m : E[j] <= p /\ key[E[j]] = key[p]
        BY <1>7
      <4>2. E[r] <= p
        BY <1>8, <3>4, <4>1
      <4>3. ~(b <= p)
        <5>1. b <= p => key[b] <= key[p]
          BY <1>1
        <5>2. key[b] \in Int /\ key[p] \in Int
          BY <1>1
        <5> QED
          BY <3>3, <3>4, <5>1, <5>2
      <4> QED
        BY <3>2, <4>2, <4>3
    <3>5. ASSUME NEW p \in 1..c, E[r] <= p, p <= End[r] PROVE key[p] = key[E[r]]
      <4>1. PICK j \in 1..m : E[j] <= p /\ key[E[j]] = key[p]
        BY <1>7
      <4>2. key[E[r]] <= key[p]
        BY <1>1, <3>3, <3>5
      <4>3. key[E[j]] \in Int /\ key[E[r]] \in Int /\ key[p] \in Int
        BY <1>1, <1>5
      <4>4. ~(j < r)
        BY <1>6, <4>1, <4>2, <4>3
      <4>5. ~(r + 1 <= j)
        <5>1. r + 1 <= j => b <= E[j]
          BY <1>4, <1>5, <3>1, <3>2
        <5>2. E[j] \in Int
          BY <1>5
        <5> QED
          BY <3>2, <3>5, <4>1, <5>1, <5>2
      <4>6. j = r
        BY <4>4, <4>5
      <4> QED
        BY <4>1, <4>6
    <3>6. End[r] \in Int /\ E[r] <= End[r] /\ End[r] <= c
      BY <1>1, <3>2, <3>3
    <3> QED
      BY <3>4, <3>5, <3>6
  <2> QED
    BY <2>1, <2>2
<1>10. \A p \in 1..c : \E r \in 1..m : key[E[r]] = key[p]
  BY <1>7
<1> QED
  BY <1>4, <1>5, <1>6, <1>9, <1>10 DEF RunsFrom

\* ---- the device's key column ----------------------------------------------------------
KeyColumn(k, table, n) ==
    /\ n \in Nat /\ DOMAIN table = 1..n /\ DOMAIN k.data = 1..n /\ Len(k.data) = n
    /\ \A i \in 1..n : /\ BitAt(k.valid, i) <=> table[i].k # NoCell
                       /\ table[i].k # NoCell => Load(k, i) = table[i].k /\ table[i].k \in Word
\* The rows V, which have keys, in the order of their keys.
SortedOf(s, c, table, V, n) ==
    /\ Listed(s, c, V, n) /\ s = [p \in 1..c |-> s[p]]
    /\ \A i \in V : table[i].k # NoCell
    /\ \A p, q \in 1..c : p < q => table[s[p]].k <= table[s[q]].k

\* The rows S in the order of the lane's keys, equal ones by position.
ByLoad(k, S) == InOrder(S, LAMBDA a, b : Load(k, a) < Load(k, b) \/ (Load(k, a) = Load(k, b) /\ a < b))
LEMMA SortedByLoad == ASSUME NEW k PROVE SortedRows(k) = ByLoad(k, {i \in DOMAIN k.data : BitAt(k.valid, i)})
BY DEF SortedRows, ByLoad

LEMMA SortedIsSorted ==
  ASSUME NEW k, NEW table, NEW n, KeyColumn(k, table, n)
  PROVE  \E c : SortedOf(SortedRows(k), c, table, {i \in 1..n : table[i].k # NoCell}, n)
<1>1. PICK S, e : S = {i \in 1..n : table[i].k # NoCell} /\ e = SortedRows(k)
  OBVIOUS
<1>2. /\ n \in Nat /\ DOMAIN k.data = 1..n /\ S \subseteq 1..n
      /\ \A i \in S : Load(k, i) = table[i].k /\ table[i].k \in Word /\ table[i].k \in Int
  BY <1>1, WordsAreInts DEF KeyColumn
<1>3. S = {i \in DOMAIN k.data : BitAt(k.valid, i)}
  BY <1>1 DEF KeyColumn
<1>4. IsFiniteSet(S)
  <2>1. IsFiniteSet(1..n)
    BY <1>2, FS_Interval
  <2> QED
    BY <1>2, <2>1, FS_Subset
<1>5. PICK c \in Nat : c = Cardinality(S)
  BY <1>4, FS_CardinalityType
<1>6. PICK R : R = {p \in S \X S : Load(k, p[1]) < Load(k, p[2]) \/ (Load(k, p[1]) = Load(k, p[2]) /\ p[1] < p[2])}
  OBVIOUS
<1>7. \A x, y \in S : <<x, y>> \in R <=> Load(k, x) < Load(k, y) \/ (Load(k, x) = Load(k, y) /\ x < y)
  BY <1>6
<1>8. IsOrder(R, S)
  <2>1. PICK key : key = [x \in S |-> Load(k, x)]
    OBVIOUS
  <2>2. \A x \in S : key[x] \in Int
    BY <1>2, <2>1
  <2>3. \A x, y \in S : <<x, y>> \in R <=> key[x] < key[y] \/ (key[x] = key[y] /\ x < y)
    BY <1>7, <2>1
  <2>4. S \in SUBSET Int
    BY <1>2
  <2> QED
    BY <2>2, <2>3, <2>4, KeyedOrder
<1>9. \A x \in S : Cardinality({y \in S : Load(k, y) < Load(k, x) \/ (Load(k, y) = Load(k, x) /\ y < x)}) = RankOf(R, S, x)
  <2>1. \A x \in S : {y \in S : Load(k, y) < Load(k, x) \/ (Load(k, y) = Load(k, x) /\ y < x)} = Below(R, S, x)
    BY <1>7 DEF Below
  <2> QED
    BY <2>1, Zenon DEF RankOf
<1>10. e = [j \in 1..c |-> CHOOSE x \in S :
               Cardinality({y \in S : Load(k, y) < Load(k, x) \/ (Load(k, y) = Load(k, x) /\ y < x)}) = j - 1]
  <2>1. e = ByLoad(k, S)
    BY <1>1, <1>3, SortedByLoad
  <2> QED
    BY <1>5, <2>1 DEF ByLoad, InOrder
<1>11. \A j \in 0..c - 1 : \E x \in S : RankOf(R, S, x) = j
  BY <1>4, <1>5, <1>8, RanksAreTaken
<1>12. ASSUME NEW j \in 1..c PROVE e[j] \in S /\ RankOf(R, S, e[j]) = j - 1
  <2>1. j - 1 \in 0..c - 1
    BY <1>5
  <2>2. \E x \in S : Cardinality({y \in S : Load(k, y) < Load(k, x) \/ (Load(k, y) = Load(k, x) /\ y < x)}) = j - 1
    BY <1>9, <1>11, <2>1
  <2>3. e[j] = CHOOSE x \in S : Cardinality({y \in S : Load(k, y) < Load(k, x) \/ (Load(k, y) = Load(k, x) /\ y < x)}) = j - 1
    BY <1>10
  <2>4. e[j] \in S /\ Cardinality({y \in S : Load(k, y) < Load(k, e[j]) \/ (Load(k, y) = Load(k, e[j]) /\ y < e[j])}) = j - 1
    BY <2>2, <2>3
  <2> QED
    BY <1>9, <2>4
<1>13. Enumerates(e, R, S)
  <2>1. DOMAIN e = 1..Cardinality(S)
    BY <1>5, <1>10
  <2>2. \A j \in 1..Cardinality(S) : e[j] \in S /\ RankOf(R, S, e[j]) = j - 1
    BY <1>5, <1>12
  <2> QED
    BY <1>4, <1>8, <2>1, <2>2, RanksEnumerate
<1>14. /\ DOMAIN e = 1..c /\ \A j \in 1..c : e[j] \in S
       /\ \A x \in S : \E j \in 1..c : e[j] = x
       /\ \A i, j \in 1..c : i < j => <<e[i], e[j]>> \in R
  BY <1>5, <1>13 DEF Enumerates
<1>15. \A p, q \in 1..c : p < q => table[e[p]].k <= table[e[q]].k /\ e[p] # e[q]
  <2> SUFFICES ASSUME NEW p \in 1..c, NEW q \in 1..c, p < q PROVE table[e[p]].k <= table[e[q]].k /\ e[p] # e[q]
    OBVIOUS
  <2>1. PICK x \in S, y \in S : x = e[p] /\ y = e[q]
    BY <1>14
  <2>2. <<x, y>> \in R
    BY <1>14, <2>1
  <2>3. Load(k, x) < Load(k, y) \/ (Load(k, x) = Load(k, y) /\ x < y)
    BY <1>7, <2>2
  <2>4. Load(k, x) = table[x].k /\ Load(k, y) = table[y].k /\ table[x].k \in Int /\ table[y].k \in Int /\ x \in Int
    BY <1>2
  <2>5. table[x].k <= table[y].k /\ x # y
    BY <2>3, <2>4
  <2> QED
    BY <2>1, <2>5
<1>16. IsSelection(e, c, n)
  <2>1. \A p, q \in 1..c : p # q => e[p] # e[q]
    <3> SUFFICES ASSUME NEW p \in 1..c, NEW q \in 1..c, p # q PROVE e[p] # e[q]
      OBVIOUS
    <3>1. p < q \/ q < p
      OBVIOUS
    <3> QED
      BY <1>15, <3>1
  <2>2. \A j \in 1..c : e[j] \in 1..n
    BY <1>2, <1>14
  <2> QED
    BY <1>14, <2>1, <2>2 DEF IsSelection
<1>17. Met(e, c) = S
  BY <1>14 DEF Met
<1>18. Listed(e, c, S, n)
  BY <1>2, <1>16, <1>17 DEF Listed
<1>19. e = [p \in 1..c |-> e[p]]
  BY <1>10
<1>20. \A i \in S : table[i].k # NoCell
  BY <1>1
<1>21. SortedOf(e, c, table, S, n)
  BY <1>15, <1>18, <1>19, <1>20 DEF SortedOf
<1> QED
  BY <1>1, <1>21

\* What is selected from an order is in that order.
LEMMA SortedPart ==
  ASSUME NEW s, NEW c, NEW table, NEW V, NEW n, SortedOf(s, c, table, V, n), NEW P
  PROVE  \E d : SortedOf(Picked(s, {j \in DOMAIN s : s[j] \in P}), d, table, V \cap P, n)
<1>1. PICK J, at, t : J = {j \in DOMAIN s : s[j] \in P} /\ at = Rising(J) /\ t = Picked(s, J)
  OBVIOUS
<1>2. Listed(s, c, V, n) /\ c \in Nat /\ DOMAIN s = 1..c
  BY DEF SortedOf, Listed, IsSelection
<1>3. J \in SUBSET (1..c) /\ J \in SUBSET Int
  BY <1>1, <1>2
<1>4. IsFiniteSet(J)
  <2>1. IsFiniteSet(1..c)
    BY <1>2, FS_Interval
  <2> QED
    BY <1>3, <2>1, FS_Subset
<1>5. PICK d \in Nat : d = Cardinality(J)
  BY <1>4, FS_CardinalityType
<1>6. Ascends(at, J)
  BY <1>1, <1>3, <1>4, RisingAscends
<1>7. Listed(t, d, V \cap P, n)
  <2>1. Listed(Picked(s, {j \in DOMAIN s : s[j] \in P}), Cardinality({j \in DOMAIN s : s[j] \in P}), V \cap P, n)
    BY <1>2, ListedPart
  <2> QED
    BY <1>1, <1>5, <2>1
<1>8. DOMAIN at = 1..d /\ t = [p \in 1..d |-> s[at[p]]]
  BY <1>1, <1>5, <1>6 DEF Ascends, Picked
<1>9. \A p, q \in 1..d : p < q => at[p] \in 1..c /\ at[q] \in 1..c /\ at[p] < at[q]
  BY <1>3, <1>5, <1>6 DEF Ascends
<1>10. \A p, q \in 1..d : p < q => table[t[p]].k <= table[t[q]].k
  BY <1>8, <1>9 DEF SortedOf
<1>11. t = [p \in 1..d |-> t[p]]
  BY <1>8
<1>12. SortedOf(t, d, table, V \cap P, n)
  BY <1>7, <1>10, <1>11 DEF SortedOf
<1> QED
  BY <1>1, <1>12

\* s sorts the rows V of the column; key has their keys.
KeysAlong(key, s, c, table) == key = [p \in 1..c |-> table[s[p]].k]
LEMMA KeysAscend ==
  ASSUME NEW k, NEW table, NEW n, KeyColumn(k, table, n), NEW s, NEW c, NEW V, SortedOf(s, c, table, V, n),
         NEW key, KeysAlong(key, s, c, table)
  PROVE  /\ IsKeyed(key, c) /\ RunStarts(k, s) = StartsOf(key, c)
         /\ \A p \in 1..c : Load(k, s[p]) = key[p] /\ s[p] \in V /\ s[p] \in 1..n
         /\ \A i \in V : \E p \in 1..c : s[p] = i
<1>1. /\ c \in Nat /\ DOMAIN s = 1..c /\ Met(s, c) = V
      /\ \A p \in 1..c : s[p] \in 1..n
  BY DEF SortedOf, Listed, IsSelection
<1>2. \A p \in 1..c : s[p] \in V
  BY <1>1 DEF Met
<1>3. \A i \in V : \E p \in 1..c : s[p] = i
  BY <1>1 DEF Met
<1>4. \A p \in 1..c : Load(k, s[p]) = key[p] /\ key[p] \in Int
  <2> SUFFICES ASSUME NEW p \in 1..c PROVE Load(k, s[p]) = key[p] /\ key[p] \in Int
    OBVIOUS
  <2>1. PICK i \in V : i = s[p]
    BY <1>2
  <2>2. i \in 1..n /\ table[i].k # NoCell
    BY <1>1, <2>1 DEF SortedOf
  <2>3. Load(k, i) = table[i].k /\ table[i].k \in Word
    BY <2>2 DEF KeyColumn
  <2>4. key[p] = table[i].k
    BY <2>1 DEF KeysAlong
  <2> QED
    BY <2>1, <2>3, <2>4, WordsAreInts
<1>5. key \in [1..c -> Int]
  BY <1>4 DEF KeysAlong
<1>6. \A p, q \in 1..c : p < q => key[p] <= key[q]
  BY DEF SortedOf, KeysAlong
<1>7. IsKeyed(key, c)
  BY <1>1, <1>5, <1>6 DEF IsKeyed
<1>8. RunStarts(k, s) = StartsOf(key, c)
  <2>1. \A p \in 1..c : p # 1 => p - 1 \in 1..c
    BY <1>1
  <2>2. \A p \in 1..c : p # 1 => (Load(k, s[p]) # Load(k, s[p - 1]) <=> key[p] # key[p - 1])
    BY <1>4, <2>1
  <2>3. RunStarts(k, s) = {p \in 1..c : p = 1 \/ Load(k, s[p]) # Load(k, s[p - 1])}
    BY <1>1 DEF RunStarts
  <2> QED
    BY <2>2, <2>3 DEF StartsOf
<1> QED
  BY <1>1, <1>2, <1>3, <1>4, <1>7, <1>8

LEMMA StartsAre ==
  ASSUME NEW key, NEW c, IsKeyed(key, c), NEW E, E = Rising(StartsOf(key, c))
  PROVE  \E m, End : /\ RunsFrom(key, c, E, m, End) /\ Len(E) = m /\ m \in Nat /\ DOMAIN E = 1..m
                     /\ \A r \in 1..m : End[r] = IF r = m THEN c ELSE E[r + 1] - 1
<1>1. PICK S : S = StartsOf(key, c)
  OBVIOUS
<1>2. c \in Nat /\ S \subseteq 1..c /\ S \in SUBSET Int
  BY <1>1 DEF IsKeyed, StartsOf
<1>3. IsFiniteSet(S)
  <2>1. IsFiniteSet(1..c)
    BY <1>2, FS_Interval
  <2> QED
    BY <1>2, <2>1, FS_Subset
<1>4. PICK m \in Nat : m = Cardinality(S)
  BY <1>3, FS_CardinalityType
<1>5. Ascends(E, S)
  BY <1>1, <1>2, <1>3, RisingAscends
<1>6. PICK End : End = [r \in 1..m |-> IF r = m THEN c ELSE E[r + 1] - 1]
  OBVIOUS
<1>7. \A r \in 1..m : End[r] = IF r = m THEN c ELSE E[r + 1] - 1
  BY <1>6
<1>8. RunsFrom(key, c, E, m, End)
  BY <1>1, <1>4, <1>5, <1>7, RunsAre
<1>9. Len(E) = m /\ DOMAIN E = 1..m
  <2>1. E = [k \in 1..m |-> CHOOSE x \in S : Cardinality({y \in S : y < x}) = k - 1]
    BY <1>1, <1>4 DEF Rising, InOrder
  <2> QED
    BY <2>1
<1> QED
  BY <1>7, <1>8, <1>9

\* A stretch of an order is a selection of the rows that stand there.
IsStretch(t, a, b, s, c, n) ==
    /\ IsSelection(s, c, n) /\ s = [p \in 1..c |-> s[p]] /\ a \in 1..c /\ b \in 1..c /\ a <= b
    /\ t = SubSeq(s, a, b)
LEMMA StretchIs ==
  ASSUME NEW s, NEW c, NEW n, NEW a, NEW b, NEW t, IsStretch(t, a, b, s, c, n)
  PROVE  /\ IsSelection(t, b - a + 1, n) /\ Len(t) = b - a + 1 /\ t[1] = s[a]
         /\ Met(t, b - a + 1) = {s[p] : p \in a..b}
<1> /\ IsSelection(s, c, n) /\ s = [p \in 1..c |-> s[p]] /\ a \in 1..c /\ b \in 1..c /\ a <= b
    /\ t = SubSeq(s, a, b)
  BY DEF IsStretch
<1>1. c \in Nat /\ DOMAIN s = 1..c /\ \A j \in 1..c : s[j] \in 1..n
  BY DEF IsSelection
<1>2. s \in Seq(1..n) /\ Len(s) = c
  <2>1. s \in [1..c -> 1..n]
    BY <1>1
  <2> QED
    BY <1>1, <2>1, SeqDef
<1>3. PICK d \in Nat : d = b - a + 1 /\ d # 0
  BY <1>1
<1>4. DOMAIN t = 1..d /\ Len(t) = d /\ \A i \in 1..d : t[i] = s[a + i - 1]
  <2>1. t = [i \in 1..(1 + b - a) |-> s[i + a - 1]]
    BY <1>1, <1>2
  <2>2. 1 + b - a = d /\ \A i \in 1..d : i + a - 1 = a + i - 1
    BY <1>1, <1>3
  <2>3. t = [i \in 1..d |-> s[i + a - 1]]
    BY <2>1, <2>2
  <2> QED
    BY <2>2, <2>3
<1>5. \A i \in 1..d : a + i - 1 \in 1..c /\ a + i - 1 \in a..b
  BY <1>1, <1>3
<1>6. IsSelection(t, d, n)
  <2>1. \A i \in 1..d : t[i] \in 1..n
    BY <1>1, <1>4, <1>5
  <2>2. \A i, j \in 1..d : i # j => t[i] # t[j]
    <3> SUFFICES ASSUME NEW i \in 1..d, NEW j \in 1..d, i # j PROVE t[i] # t[j]
      OBVIOUS
    <3>1. a + i - 1 # a + j - 1
      BY <1>1
    <3> QED
      BY <1>4, <1>5, <3>1 DEF IsSelection
  <2> QED
    BY <1>4, <2>1, <2>2 DEF IsSelection
<1>7. Met(t, d) = {s[p] : p \in a..b}
  <2>1. ASSUME NEW i \in 1..d PROVE t[i] \in {s[p] : p \in a..b}
    BY <1>4, <1>5
  <2>2. ASSUME NEW p \in a..b PROVE s[p] \in {t[i] : i \in 1..d}
    <3>1. p - a + 1 \in 1..d /\ a + (p - a + 1) - 1 = p
      BY <1>1, <1>3
    <3>2. s[p] = t[p - a + 1]
      BY <1>4, <3>1
    <3> QED
      BY <3>1, <3>2
  <2>3. {t[i] : i \in 1..d} = {s[p] : p \in a..b}
    BY <2>1, <2>2
  <2> QED
    BY <2>3 DEF Met
<1>8. t[1] = s[a]
  <2>1. 1 \in 1..d /\ a + 1 - 1 = a
    BY <1>1, <1>3
  <2> QED
    BY <1>4, <2>1
<1> QED
  BY <1>3, <1>4, <1>6, <1>7, <1>8

RunSeq(s, E, m, End) == [r \in 1..m |-> SubSeq(s, E[r], End[r])]
LEMMA RunsOfIs ==
  ASSUME NEW k, NEW s, NEW c, s = [p \in 1..c |-> s[p]], c \in Nat, NEW E, E = Rising(RunStarts(k, s)),
         NEW m, Len(E) = m, m \in Nat, DOMAIN E = 1..m,
         NEW End, \A r \in 1..m : End[r] = IF r = m THEN c ELSE E[r + 1] - 1
  PROVE  RunsOf(k, s) = RunSeq(s, E, m, End)
<1>1. Len(s) = c
  OBVIOUS
<1>2. RunsOf(k, s) = [r \in DOMAIN E |-> SubSeq(s, E[r], IF r = Len(E) THEN Len(s) ELSE E[r + 1] - 1)]
  BY DEF RunsOf
<1>3. RunsOf(k, s) = [r \in 1..m |-> SubSeq(s, E[r], IF r = m THEN c ELSE E[r + 1] - 1)]
  BY <1>1, <1>2
<1>4. \A r \in 1..m : SubSeq(s, E[r], IF r = m THEN c ELSE E[r + 1] - 1) = SubSeq(s, E[r], End[r])
  OBVIOUS
<1> QED
  BY <1>3, <1>4 DEF RunSeq

\* A group for each number there is, in the order of the keys.
LEMMA NumbersList ==
  ASSUME NEW table, NEW K, NEW M, NEW keys, NEW m, Increases(keys, m, NumbersOf(table, K)),
         NEW rows, DOMAIN rows = 1..m, \A j \in 1..m : rows[j] = GroupRow(keys[j], FALSE, M[OfKey(table, K, keys[j])])
  PROVE  ListsGroups(rows, keys, m, table, K, M, NumbersOf(table, K))
<1>1. /\ m \in Nat /\ DOMAIN keys = 1..m /\ \A j \in 1..m : keys[j] \in NumbersOf(table, K) /\ keys[j] # NoCell
      /\ \A x \in NumbersOf(table, K) : \E j \in 1..m : keys[j] = x
      /\ \A i, j \in 1..m : i < j => keys[i] < keys[j]
  BY DEF Increases, NumbersOf
<1>2. \A j \in 1..m : rows[j] = GroupOf(M, table, K, keys[j])
  BY <1>1 DEF GroupOf
<1>3. \A i, j \in 1..m : i < j => KeyAscending(keys[i], keys[j])
  BY <1>1 DEF KeyAscending
<1> QED
  BY <1>1, <1>2, <1>3 DEF ListsGroups

\* exact_reduce over the rows of K that have a key, sorted.
LEMMA SortReduceLists ==
  ASSUME NEW k, NEW table, NEW n, KeyColumn(k, table, n), NEW v, NEW M, Aggregates(M, v, n), NEW K \in SUBSET (1..n),
         NEW V, V = {i \in K : table[i].k # NoCell}, NEW s, NEW c, SortedOf(s, c, table, V, n)
  PROVE  \E keys, m : ListsGroups(SortReduce(k, v, s), keys, m, table, K, M, NumbersOf(table, K))
<1>1. PICK key : KeysAlong(key, s, c, table)
  BY DEF KeysAlong
<1>2. /\ IsKeyed(key, c) /\ RunStarts(k, s) = StartsOf(key, c)
      /\ \A p \in 1..c : Load(k, s[p]) = key[p] /\ s[p] \in V /\ s[p] \in 1..n
      /\ \A i \in V : \E p \in 1..c : s[p] = i
  BY <1>1, KeysAscend
<1>3. PICK E : E = Rising(RunStarts(k, s))
  OBVIOUS
<1>4. PICK m, End : /\ RunsFrom(key, c, E, m, End) /\ Len(E) = m /\ m \in Nat /\ DOMAIN E = 1..m
                    /\ \A r \in 1..m : End[r] = IF r = m THEN c ELSE E[r + 1] - 1
  BY <1>2, <1>3, StartsAre
<1>5. IsSelection(s, c, n) /\ s = [p \in 1..c |-> s[p]] /\ c \in Nat /\ n \in Nat
  BY DEF SortedOf, Listed, IsSelection
<1>6. RunsOf(k, s) = RunSeq(s, E, m, End)
  <2>1. Len(E) = m /\ m \in Nat /\ DOMAIN E = 1..m /\ s = [p \in 1..c |-> s[p]] /\ c \in Nat
    BY <1>4, <1>5
  <2>2. \A r \in 1..m : End[r] = IF r = m THEN c ELSE E[r + 1] - 1
    BY <1>4
  <2> QED
    BY ONLY <1>3, <2>1, <2>2, RunsOfIs
<1>7. PICK keys : keys = [r \in 1..m |-> key[E[r]]]
  OBVIOUS
<1>8. \A p \in 1..c : key[p] = table[s[p]].k
  BY <1>1 DEF KeysAlong
<1>9. ASSUME NEW r \in 1..m
      PROVE  /\ Load(k, RunSeq(s, E, m, End)[r][1]) = keys[r]
             /\ DeviceReduce(v, RunSeq(s, E, m, End)[r]) = M[OfKey(table, K, keys[r])]
             /\ keys[r] \in NumbersOf(table, K)
  <2>1. PICK a \in 1..c, b \in 1..c : a = E[r] /\ b = End[r] /\ a <= b
    <3>1. E[r] \in 1..c /\ End[r] \in Int /\ E[r] <= End[r] /\ End[r] <= c
      BY <1>4 DEF RunsFrom
    <3>2. End[r] \in 1..c
      BY <1>5, <3>1
    <3> QED
      BY <3>1, <3>2
  <2>2. PICK t : t = SubSeq(s, a, b)
    OBVIOUS
  <2>3. RunSeq(s, E, m, End)[r] = t
    BY <2>1, <2>2 DEF RunSeq
  <2>4. /\ IsSelection(t, b - a + 1, n) /\ Len(t) = b - a + 1 /\ t[1] = s[a]
        /\ Met(t, b - a + 1) = {s[p] : p \in a..b}
    <3>1. IsStretch(t, a, b, s, c, n)
      BY <1>5, <2>1, <2>2 DEF IsStretch
    <3> QED
      BY ONLY <3>1, StretchIs
  <2>5. keys[r] = key[a]
    BY <1>7, <2>1
  <2>6. Load(k, t[1]) = keys[r]
    BY <1>2, <2>4, <2>5
  <2>7. DeviceReduce(v, t) = M[{s[p] : p \in a..b}]
    <3>1. DeviceReduce(v, t) = M[Met(t, b - a + 1)]
      BY ONLY <2>4, Aggregates(M, v, n), DeviceReduceIsWhole
    <3> QED
      BY <2>4, <3>1
  <2>8. s[a] \in V /\ keys[r] = table[s[a]].k
    BY <1>2, <1>8, <2>5
  <2>9. keys[r] \in NumbersOf(table, K)
    BY <2>8 DEF NumbersOf, KeysOf
  <2>10. \A p \in 1..c : key[p] = keys[r] <=> a <= p /\ p <= b
    BY <1>4, <2>1, <2>5 DEF RunsFrom
  <2>11. {s[p] : p \in a..b} = OfKey(table, K, keys[r])
    <3>1. ASSUME NEW p \in a..b PROVE s[p] \in OfKey(table, K, keys[r])
      <4>1. p \in 1..c /\ a <= p /\ p <= b
        BY <1>5
      <4>2. table[s[p]].k = keys[r] /\ s[p] \in V
        BY <1>2, <1>8, <2>10, <4>1
      <4> QED
        BY <4>2 DEF OfKey
    <3>2. ASSUME NEW i \in OfKey(table, K, keys[r]) PROVE i \in {s[p] : p \in a..b}
      <4>1. i \in V /\ table[i].k = keys[r]
        BY <2>8 DEF OfKey
      <4>2. PICK p \in 1..c : s[p] = i
        BY <1>2, <4>1
      <4>3. p \in a..b
        BY <1>8, <2>10, <4>1, <4>2
      <4> QED
        BY <4>2, <4>3
    <3> QED
      BY <3>1, <3>2
  <2> QED
    BY <2>3, <2>6, <2>7, <2>9, <2>11
<1>10. PICK rows : rows = SortReduce(k, v, s)
  OBVIOUS
<1>11. rows = [r \in 1..m |-> GroupRow(Load(k, RunSeq(s, E, m, End)[r][1]), FALSE, DeviceReduce(v, RunSeq(s, E, m, End)[r]))]
  <2>1. PICK runs : runs = RunSeq(s, E, m, End)
    OBVIOUS
  <2>2. DOMAIN runs = 1..m
    BY <2>1 DEF RunSeq
  <2>3. rows = [r \in DOMAIN runs |-> GroupRow(Load(k, runs[r][1]), FALSE, DeviceReduce(v, runs[r]))]
    BY <1>6, <1>10, <2>1 DEF SortReduce
  <2> QED
    BY <2>1, <2>2, <2>3
<1>12. DOMAIN rows = 1..m /\ \A r \in 1..m : rows[r] = GroupRow(keys[r], FALSE, M[OfKey(table, K, keys[r])])
  BY <1>9, <1>11
<1>13. \A x \in NumbersOf(table, K) : \E r \in 1..m : keys[r] = x
  <2> SUFFICES ASSUME NEW x \in NumbersOf(table, K) PROVE \E r \in 1..m : keys[r] = x
    OBVIOUS
  <2>1. PICK i \in V : table[i].k = x
    BY DEF NumbersOf, KeysOf
  <2>2. PICK p \in 1..c : s[p] = i
    BY <1>2
  <2>3. PICK r \in 1..m : key[E[r]] = key[p]
    BY <1>4 DEF RunsFrom
  <2> QED
    BY <1>7, <1>8, <2>1, <2>2, <2>3
<1>14. \A i, j \in 1..m : i < j => keys[i] < keys[j]
  BY <1>4, <1>7 DEF RunsFrom
<1>15. DOMAIN keys = 1..m
  BY <1>7
<1>16. Increases(keys, m, NumbersOf(table, K))
  BY <1>4, <1>9, <1>13, <1>14, <1>15 DEF Increases
<1>17. ListsGroups(rows, keys, m, table, K, M, NumbersOf(table, K))
  BY <1>12, <1>16, NumbersList
<1> QED
  BY <1>10, <1>17

\* The device's cache of a column: its rows by key, and its keys when they are few.
LEMMA CacheIs ==
  ASSUME NEW k, NEW table, NEW n, KeyColumn(k, table, n), NEW cache, cache = ExactCache(k)
  PROVE  /\ \E c : SortedOf(cache.sorted, c, table, {i \in 1..n : table[i].k # NoCell}, n)
         /\ cache.distinct # <<>> => \E m : Increases(cache.distinct, m, NumbersOf(table, 1..n))
<1>1. PICK s, V : s = SortedRows(k) /\ V = {i \in 1..n : table[i].k # NoCell}
  OBVIOUS
<1>2. PICK c : SortedOf(s, c, table, V, n)
  BY <1>1, SortedIsSorted
<1>3. PICK E : E = Rising(RunStarts(k, s))
  OBVIOUS
<1>4. /\ cache.sorted = s
      /\ cache.distinct = IF Len(E) \in 1..DirectMax THEN [g \in DOMAIN E |-> Load(k, s[E[g]])] ELSE <<>>
  BY <1>1, <1>3 DEF ExactCache, Sorted, Cached
<1>5. PICK key : KeysAlong(key, s, c, table)
  BY DEF KeysAlong
<1>6. /\ IsKeyed(key, c) /\ RunStarts(k, s) = StartsOf(key, c)
      /\ \A p \in 1..c : Load(k, s[p]) = key[p] /\ s[p] \in V /\ s[p] \in 1..n
      /\ \A i \in V : \E p \in 1..c : s[p] = i
  BY <1>2, <1>5, KeysAscend
<1>7. PICK m, End : RunsFrom(key, c, E, m, End) /\ Len(E) = m /\ m \in Nat /\ DOMAIN E = 1..m
  BY <1>3, <1>6, StartsAre
<1>8. CASE cache.distinct # <<>>
  <2>1. PICK d : d = cache.distinct
    OBVIOUS
  <2>2. d = [g \in 1..m |-> Load(k, s[E[g]])]
    BY <1>4, <1>7, <1>8, <2>1
  <2>3. \A g \in 1..m : E[g] \in 1..c
    BY <1>7 DEF RunsFrom
  <2>4. DOMAIN d = 1..m /\ \A g \in 1..m : d[g] = key[E[g]]
    BY <1>6, <2>2, <2>3
  <2>5. \A p \in 1..c : key[p] = table[s[p]].k
    BY <1>5 DEF KeysAlong
  <2>6. \A g \in 1..m : d[g] \in NumbersOf(table, 1..n)
    <3> SUFFICES ASSUME NEW g \in 1..m PROVE d[g] \in NumbersOf(table, 1..n)
      OBVIOUS
    <3>1. PICK p \in 1..c : p = E[g]
      BY <2>3
    <3>2. d[g] = table[s[p]].k /\ s[p] \in V /\ s[p] \in 1..n
      BY <1>6, <2>4, <2>5, <3>1
    <3> QED
      BY <1>1, <3>2 DEF NumbersOf, KeysOf
  <2>7. \A x \in NumbersOf(table, 1..n) : \E g \in 1..m : d[g] = x
    <3> SUFFICES ASSUME NEW x \in NumbersOf(table, 1..n) PROVE \E g \in 1..m : d[g] = x
      OBVIOUS
    <3>1. PICK i \in V : table[i].k = x
      BY <1>1 DEF NumbersOf, KeysOf
    <3>2. PICK p \in 1..c : s[p] = i
      BY <1>6
    <3>3. PICK g \in 1..m : key[E[g]] = key[p]
      BY <1>7 DEF RunsFrom
    <3> QED
      BY <2>4, <2>5, <3>1, <3>2, <3>3
  <2>8. \A i, j \in 1..m : i < j => d[i] < d[j]
    <3>1. \A i, j \in 1..m : i < j => key[E[i]] < key[E[j]]
      BY <1>7 DEF RunsFrom
    <3>2. ASSUME NEW i \in 1..m, NEW j \in 1..m, i < j PROVE d[i] < d[j]
      <4>1. key[E[i]] < key[E[j]]
        BY <3>1, <3>2
      <4>2. d[i] = key[E[i]] /\ d[j] = key[E[j]]
        BY <2>4
      <4> QED
        BY ONLY <4>1, <4>2
    <3> QED
      BY <3>2
  <2>9. Increases(d, m, NumbersOf(table, 1..n))
    BY <1>7, <2>4, <2>6, <2>7, <2>8 DEF Increases
  <2> QED
    BY <1>1, <1>2, <1>4, <2>1, <2>9
<1> QED
  BY <1>1, <1>2, <1>4, <1>8

\* ---- the direct reduce --------------------------------------------------------------------
LEMMA RankIs ==
  ASSUME NEW d, NEW m, NEW D \in SUBSET Int, Increases(d, m, D), NEW h \in 1..m
  PROVE  Rank(d, d[h]) = h
<1>1. m \in Nat /\ DOMAIN d = 1..m /\ \A i, j \in 1..m : i < j => d[i] < d[j]
  BY DEF Increases
<1>2. \A g \in 1..m : d[g] \in Int
  BY DEF Increases
<1>3. \A g \in 1..m : d[g] < d[h] <=> g < h
  <2> SUFFICES ASSUME NEW g \in 1..m PROVE d[g] < d[h] <=> g < h
    OBVIOUS
  <2>1. g < h \/ h < g \/ g = h
    OBVIOUS
  <2>2. d[g] \in Int /\ d[h] \in Int
    BY <1>2
  <2>3. (g < h => d[g] < d[h]) /\ (h < g => d[h] < d[g])
    BY <1>1
  <2> QED
    BY <2>1, <2>2, <2>3
<1>4. {g \in DOMAIN d : d[g] < d[h]} = 1..h - 1
  BY <1>1, <1>3
<1>5. Cardinality(1..h - 1) = h - 1
  <2>1. h - 1 \in Int /\ 1 \in Int
    BY <1>1
  <2>2. Cardinality(1..h - 1) = IF 1 > h - 1 THEN 0 ELSE h - 1 - 1 + 1
    BY <2>1, FS_Interval
  <2> QED
    BY <1>1, <2>2
<1>6. Rank(d, d[h]) = 1 + Cardinality({g \in DOMAIN d : d[g] < d[h]})
  BY DEF Rank
<1>7. Rank(d, d[h]) = 1 + (h - 1)
  BY ONLY <1>4, <1>5, <1>6
<1> QED
  BY <1>1, <1>7

\* The rows of the group g that the replica r adds.
Minds(k, mask, d, g, r) == {i \in 1..Len(k.data) : mask[i] /\ BitAt(k.valid, i) /\ Rank(d, Load(k, i)) = g /\ i % Replicas = r}
Replicated(k, v, mask, d, g) == [r \in 1..Replicas |-> Reduced(KeptOf(Minds(k, mask, d, g, r - 1), Len(k.data)), v)]
DirectRows(k, v, mask, d) == [g \in DOMAIN d |-> GroupRow(d[g], FALSE, CombineAll(Replicated(k, v, mask, d, g)))]
LEMMA DirectIs ==
  ASSUME NEW k, NEW v, NEW mask, NEW d, Len(k.data) \in Nat
  PROVE  DirectReduce(k, v, mask, d) = DirectRows(k, v, mask, d)
<1>1. PICK n \in Nat : n = Len(k.data)
  OBVIOUS
<1>2. DOMAIN Rows(n) = 1..n /\ \A j \in 1..n : Rows(n)[j] = j
  BY DEF Rows
<1>3. ASSUME NEW g, NEW r
      PROVE  Minds(k, mask, d, g, r) = {j \in DOMAIN Rows(n) : /\ mask[Rows(n)[j]] /\ BitAt(k.valid, Rows(n)[j])
                                                            /\ Rank(d, Load(k, Rows(n)[j])) = g /\ Rows(n)[j] % Replicas = r}
  BY <1>1, <1>2 DEF Minds
<1>4. DirectReduce(k, v, mask, d) =
        [g \in DOMAIN d |-> GroupRow(d[g], FALSE, CombineAll([r \in 1..Replicas |->
            Reduced(Picked(Rows(n), {j \in DOMAIN Rows(n) : /\ mask[Rows(n)[j]] /\ BitAt(k.valid, Rows(n)[j])
                                                            /\ Rank(d, Load(k, Rows(n)[j])) = g /\ Rows(n)[j] % Replicas = r - 1}), v)]))]
  BY <1>1 DEF DirectReduce, Selected
<1>5. \A g : Replicated(k, v, mask, d, g) = [r \in 1..Replicas |->
            Reduced(Picked(Rows(n), {j \in DOMAIN Rows(n) : /\ mask[Rows(n)[j]] /\ BitAt(k.valid, Rows(n)[j])
                                                            /\ Rank(d, Load(k, Rows(n)[j])) = g /\ Rows(n)[j] % Replicas = r - 1}), v)]
  <2> TAKE g
  <2> DEFINE Those(r) == {j \in DOMAIN Rows(n) : /\ mask[Rows(n)[j]] /\ BitAt(k.valid, Rows(n)[j])
                                                 /\ Rank(d, Load(k, Rows(n)[j])) = g /\ Rows(n)[j] % Replicas = r - 1}
  <2>1. ASSUME NEW r PROVE Minds(k, mask, d, g, r - 1) = Those(r)
    BY <1>3
  <2> HIDE DEF Those
  <2>2. \A r : KeptOf(Minds(k, mask, d, g, r - 1), Len(k.data)) = Picked(Rows(n), Those(r))
    BY <1>1, <2>1, Zenon DEF KeptOf
  <2>3. Replicated(k, v, mask, d, g) = [r \in 1..Replicas |-> Reduced(Picked(Rows(n), Those(r)), v)]
    BY <2>2, Zenon DEF Replicated
  <2> QED
    BY <2>3, Zenon DEF Those
<1> QED
  BY <1>4, <1>5 DEF DirectRows

\* mask keeps K of the rows the column k is over, and M has the aggregates of v.
KeyedBy(k, table, n, v, M, K, mask) ==
    /\ KeyColumn(k, table, n) /\ Aggregates(M, v, n) /\ K \in SUBSET (1..n)
    /\ \A i \in 1..n : mask[i] <=> i \in K
LEMMA ReplicasCover ==
  ASSUME NEW k, NEW table, NEW n, NEW v, NEW M, NEW K, NEW mask, KeyedBy(k, table, n, v, M, K, mask),
         NEW d, NEW m, Increases(d, m, NumbersOf(table, 1..n)), NEW g \in 1..m
  PROVE  CombineAll(Replicated(k, v, mask, d, g)) = M[OfKey(table, K, d[g])]
<1>1. /\ n \in Nat /\ Len(k.data) = n /\ Aggregates(M, v, n) /\ K \in SUBSET (1..n)
      /\ \A i \in 1..n : mask[i] <=> i \in K
      /\ \A i \in 1..n : /\ BitAt(k.valid, i) <=> table[i].k # NoCell
                         /\ table[i].k # NoCell => Load(k, i) = table[i].k /\ table[i].k \in Word
  BY DEF KeyedBy, KeyColumn
<1>2. PICK D : D = NumbersOf(table, 1..n)
  OBVIOUS
<1>3. D \in SUBSET Int
  BY <1>1, <1>2, WordsAreInts DEF NumbersOf, KeysOf
<1>4. /\ \A h \in 1..m : d[h] \in D /\ Rank(d, d[h]) = h
      /\ \A x \in D : \E h \in 1..m : d[h] = x
  <2>1. Increases(d, m, D)
    BY <1>2
  <2>2. \A h \in 1..m : Rank(d, d[h]) = h
    BY <1>3, <2>1, RankIs
  <2> QED
    BY <2>1, <2>2 DEF Increases
<1>5. PICK S : S = OfKey(table, K, d[g])
  OBVIOUS
<1>6. \A i \in 1..n : i \in S <=> mask[i] /\ BitAt(k.valid, i) /\ Rank(d, Load(k, i)) = g
  <2> SUFFICES ASSUME NEW i \in 1..n PROVE i \in S <=> mask[i] /\ BitAt(k.valid, i) /\ Rank(d, Load(k, i)) = g
    OBVIOUS
  <2>1. d[g] # NoCell
    BY <1>2, <1>4 DEF NumbersOf
  <2>2. i \in S <=> i \in K /\ table[i].k = d[g]
    BY <1>1, <1>5 DEF OfKey
  <2>3. CASE table[i].k = NoCell
    BY <1>1, <2>1, <2>2, <2>3
  <2>4. CASE table[i].k # NoCell
    <3>1. table[i].k \in D
      BY <1>2, <2>4 DEF NumbersOf, KeysOf
    <3>2. PICK h \in 1..m : d[h] = table[i].k
      BY <1>4, <3>1
    <3>3. Load(k, i) = d[h] /\ BitAt(k.valid, i) /\ Rank(d, d[h]) = h
      BY <1>1, <1>4, <2>4, <3>2
    <3>4. Rank(d, Load(k, i)) = h
      BY <3>3
    <3>5. d[h] = d[g] <=> h = g
      <4>1. Rank(d, d[g]) = g
        BY <1>4
      <4> QED
        BY <3>3, <4>1
    <3> QED
      BY <1>1, <2>2, <3>2, <3>3, <3>4, <3>5
  <2> QED
    BY <2>3, <2>4
<1>7. PICK c \in Nat : c = Replicas /\ c # 0
  BY DeviceAssumption
<1>8. PICK parts : parts = [r \in 1..c |-> {i \in S : i % c = r - 1}]
  OBVIOUS
<1>9. S \in SUBSET (1..n)
  BY <1>1, <1>5 DEF OfKey
<1>10. \A r \in 1..c : Minds(k, mask, d, g, r - 1) = parts[r]
  BY <1>1, <1>6, <1>7, <1>8, <1>9 DEF Minds
<1>11. ArePart(parts, c, n)
  <2>1. \A i, j \in 1..c : i # j => parts[i] \cap parts[j] = {}
    BY <1>8
  <2>2. \A j \in 1..c : parts[j] \in SUBSET (1..n)
    BY <1>8, <1>9
  <2> QED
    BY <2>1, <2>2 DEF ArePart
<1>12. Covered(parts, c) = S
  <2>1. \A i \in S : i % c \in 0..c - 1
    BY <1>7, <1>9
  <2>2. \A i \in S : (i % c) + 1 \in 1..c /\ i \in parts[(i % c) + 1]
    BY <1>7, <1>8, <2>1
  <2>3. \A r \in 1..c : parts[r] \subseteq S
    BY <1>8
  <2>4. UNION {parts[r] : r \in 1..c} = S
    <3>1. ASSUME NEW i \in S PROVE \E r \in 1..c : i \in parts[r]
      BY <2>2
    <3> QED
      BY <2>3, <3>1
  <2> QED
    BY <2>4 DEF Covered
<1>13. PICK seq : seq = Replicated(k, v, mask, d, g)
  OBVIOUS
<1>14. AreWholes(seq, M, parts, c)
  <2>1. ASSUME NEW r \in 1..c PROVE seq[r] = M[parts[r]]
    <3>1. parts[r] \in SUBSET (1..n)
      BY <1>11 DEF ArePart
    <3>2. PICK rows : rows = KeptOf(parts[r], n)
      OBVIOUS
    <3>3. IsSelection(rows, Cardinality(parts[r]), n) /\ Met(rows, Cardinality(parts[r])) = parts[r]
      BY <1>1, <3>1, <3>2, KeptOfIs
    <3>4. Reduced(rows, v) = M[parts[r]]
      BY <1>1, <3>3, ReducedIsWhole
    <3>5. seq[r] = Reduced(rows, v)
      BY <1>1, <1>7, <1>10, <1>13, <3>2 DEF Replicated
    <3> QED
      BY <3>4, <3>5
  <2>2. DOMAIN seq = 1..c
    BY <1>7, <1>13 DEF Replicated
  <2> QED
    BY <2>1, <2>2 DEF AreWholes
<1>15. CombineAll(seq) = M[Covered(parts, c)]
  BY <1>1, <1>11, <1>14, CombineAllIsWhole
<1> QED
  BY <1>5, <1>12, <1>13, <1>15

IsList(rows, m) == m \in Nat /\ rows = [j \in 1..m |-> rows[j]]
LEMMA ListGrows ==
  ASSUME NEW rows, NEW m, IsList(rows, m), NEW x
  PROVE  IsList(rows \o <<x>>, m + 1) /\ IsList(Append(rows, x), m + 1) /\ IsList(rows \o <<>>, m)
<1>1. PICK S : S = {rows[j] : j \in 1..m} \cup {x}
  OBVIOUS
<1>2. m \in Nat /\ rows \in Seq(S) /\ <<x>> \in Seq(S) /\ Len(rows) = m
  <2>1. \A j \in 1..m : rows[j] \in S
    BY <1>1
  <2>2. m \in Nat /\ rows \in [1..m -> S]
    BY <2>1 DEF IsList
  <2> QED
    BY <1>1, <2>2, SeqDef
<1>3. rows \o <<x>> \in Seq(S) /\ Len(rows \o <<x>>) = m + 1 /\ Append(rows, x) = rows \o <<x>> /\ rows \o <<>> = rows
  BY <1>2
<1>4. PICK t : t = rows \o <<x>>
  OBVIOUS
<1>5. t \in Seq(S) /\ Len(t) = m + 1
  BY <1>3, <1>4
<1>6. t = [j \in 1..m + 1 |-> t[j]]
  BY <1>5
<1> QED
  BY <1>2, <1>3, <1>4, <1>6 DEF IsList
\* out has the elements of rows at the positions J, which are numbers.
FiniteInts(J) == J \in SUBSET Int /\ IsFiniteSet(J)
IsPicked(out, rows, J) == IsList(out, Cardinality(J)) /\ \A j \in 1..Cardinality(J) : out[j] = rows[Rising(J)[j]]
LEMMA PickedIsList == ASSUME NEW rows, NEW J, FiniteInts(J) PROVE IsPicked(Picked(rows, J), rows, J)
<1>1. PICK at, c : at = Rising(J) /\ c = Cardinality(J)
  OBVIOUS
<1>2. c \in Nat /\ DOMAIN at = 1..c
  BY <1>1, RisingAscends DEF Ascends, FiniteInts
<1>3. Picked(rows, J) = [j \in 1..c |-> rows[at[j]]]
  BY <1>1, <1>2 DEF Picked
<1> QED
  BY <1>1, <1>2, <1>3 DEF IsList, IsPicked

\* The groups of the keys d; a list of the groups of the keys D.
GroupSeq(d, table, K, M) == [g \in DOMAIN d |-> GroupRow(d[g], FALSE, M[OfKey(table, K, d[g])])]
HasGroups(rows, table, K, M, D) == \E keys, c : ListsGroups(rows, keys, c, table, K, M, D) /\ IsList(rows, c)
\* The direct reduce lists every key of the column; without the empty groups
\* it lists those of the rows kept.
LEMMA EmptiedLists ==
  ASSUME NEW table, NEW n, DOMAIN table = 1..n, NEW v, NEW M, Aggregates(M, v, n), NEW K \in SUBSET (1..n),
         NEW d, NEW m, Increases(d, m, NumbersOf(table, 1..n)), NEW rows,
         rows = GroupSeq(d, table, K, M),
         NEW masked \in BOOLEAN, ~masked => K = 1..n
  PROVE  HasGroups(Emptied(rows, masked), table, K, M, NumbersOf(table, K))
<1>0. m \in Nat /\ DOMAIN d = 1..m
  BY DEF Increases
<1>1. m \in Nat /\ DOMAIN d = 1..m /\ DOMAIN rows = 1..m /\ rows = [g \in 1..m |-> GroupRow(d[g], FALSE, M[OfKey(table, K, d[g])])]
  BY <1>0 DEF GroupSeq
<1>2. CASE ~masked
  <2>1. Emptied(rows, masked) = rows
    BY <1>2 DEF Emptied
  <2>2. Increases(d, m, NumbersOf(table, K))
    BY <1>2
  <2>a. \A g \in 1..m : rows[g] = GroupRow(d[g], FALSE, M[OfKey(table, K, d[g])])
    BY <1>1
  <2>3. ListsGroups(rows, d, m, table, K, M, NumbersOf(table, K))
    BY <1>1, <2>2, <2>a, NumbersList
  <2> QED
    BY <1>1, <2>1, <2>3 DEF IsList, HasGroups
<1>3. CASE masked
  <2>1. PICK J : J = {j \in DOMAIN rows : rows[j].star # 0}
    OBVIOUS
  <2>2. Emptied(rows, masked) = Picked(rows, J)
    BY <1>3, <2>1 DEF Emptied, Selected
  <2>3. J \in SUBSET Int /\ J \in SUBSET (1..m) /\ IsFiniteSet(J)
    <3>1. J \in SUBSET (1..m)
      BY ONLY <1>1, <2>1
    <3>a. 1..m \subseteq Int
      BY ONLY <1>1
    <3>b. J \in SUBSET Int
      BY ONLY <3>1, <3>a
    <3>2. IsFiniteSet(1..m)
      BY <1>1, FS_Interval
    <3> QED
      BY <3>1, <3>b, <3>2, FS_Subset
  <2>4. PICK at, c : at = Rising(J) /\ c = Cardinality(J)
    OBVIOUS
  <2>5. Ascends(at, J)
    BY <2>3, <2>4, RisingAscends
  <2>6. c \in Nat /\ DOMAIN at = 1..c /\ \A j \in 1..c : at[j] \in J /\ at[j] \in 1..m
    BY <2>3, <2>4, <2>5 DEF Ascends
  <2>7. PICK out : out = Picked(rows, J)
    OBVIOUS
  <2>8. IsList(out, c) /\ \A j \in 1..c : out[j] = rows[at[j]]
    <3>1. FiniteInts(J)
      BY <2>3 DEF FiniteInts
    <3>2. IsPicked(out, rows, J)
      BY ONLY <2>7, <3>1, PickedIsList
    <3> QED
      BY <2>4, <3>2 DEF IsPicked
  <2>9. ASSUME NEW g \in 1..m PROVE g \in J <=> OfKey(table, K, d[g]) # {}
    <3>1. PICK S : S = OfKey(table, K, d[g])
      OBVIOUS
    <3>2. S \in SUBSET (1..n)
      BY <3>1 DEF OfKey
    <3>3. rows[g].star = M[S].star
      <4>1. rows[g] = GroupRow(d[g], FALSE, M[S])
        BY <1>1, <3>1
      <4>2. GroupRow(d[g], FALSE, M[S]).star = M[S].star
        BY DEF GroupRow, Finished
      <4> QED
        BY ONLY <4>1, <4>2
    <3>4. M[S].star = Cardinality(S)
      BY <3>2, StarsCount
    <3>5. n \in Nat
      BY DEF Aggregates
    <3>6. IsFiniteSet(S)
      <4>1. IsFiniteSet(1..n)
        BY <3>5, FS_Interval
      <4> QED
        BY <3>2, <4>1, FS_Subset
    <3>7. Cardinality(S) = 0 <=> S = {}
      BY <3>6, FS_EmptySet
    <3> QED
      BY <1>1, <2>1, <3>1, <3>3, <3>4, <3>7
  <2>10. PICK keys : keys = [j \in 1..c |-> d[at[j]]]
    OBVIOUS
  <2>11. \A j \in 1..c : keys[j] \in NumbersOf(table, K)
    <3> SUFFICES ASSUME NEW j \in 1..c PROVE keys[j] \in NumbersOf(table, K)
      OBVIOUS
    <3>1. PICK g \in 1..m : g = at[j] /\ g \in J
      BY <2>6
    <3>2. keys[j] = d[g] /\ OfKey(table, K, d[g]) # {} /\ d[g] \in NumbersOf(table, 1..n)
      BY <2>9, <2>10, <3>1 DEF Increases
    <3> QED
      BY <3>2 DEF OfKey, NumbersOf, KeysOf
  <2>12. \A x \in NumbersOf(table, K) : \E j \in 1..c : keys[j] = x
    <3> SUFFICES ASSUME NEW x \in NumbersOf(table, K) PROVE \E j \in 1..c : keys[j] = x
      OBVIOUS
    <3>1. x \in NumbersOf(table, 1..n) /\ OfKey(table, K, x) # {}
      BY DEF NumbersOf, KeysOf, OfKey
    <3>2. PICK g \in 1..m : d[g] = x
      BY <3>1 DEF Increases
    <3>3. g \in J
      BY <2>9, <3>1, <3>2
    <3>4. PICK j \in 1..c : at[j] = g
      BY <2>4, <2>5, <3>3 DEF Ascends
    <3> QED
      BY <2>10, <3>2, <3>4
  <2>13. \A i, j \in 1..c : i < j => keys[i] < keys[j]
    <3> SUFFICES ASSUME NEW i \in 1..c, NEW j \in 1..c, i < j PROVE keys[i] < keys[j]
      OBVIOUS
    <3>1. PICK g \in 1..m : g = at[i]
      BY <2>6
    <3>2. PICK h \in 1..m : h = at[j]
      BY <2>6
    <3>3. g < h
      BY <2>4, <2>5, <3>1, <3>2 DEF Ascends
    <3>4. d[g] < d[h]
      BY <3>3 DEF Increases
    <3> QED
      BY <2>10, <3>1, <3>2, <3>4
  <2>14. DOMAIN keys = 1..c /\ DOMAIN out = 1..c
    BY <2>8, <2>10 DEF IsList
  <2>15. Increases(keys, c, NumbersOf(table, K))
    BY <2>6, <2>11, <2>12, <2>13, <2>14 DEF Increases
  <2>16. \A j \in 1..c : out[j] = GroupRow(keys[j], FALSE, M[OfKey(table, K, keys[j])])
    <3> SUFFICES ASSUME NEW j \in 1..c PROVE out[j] = GroupRow(keys[j], FALSE, M[OfKey(table, K, keys[j])])
      OBVIOUS
    <3>1. PICK g \in 1..m : g = at[j]
      BY <2>6
    <3>2. out[j] = rows[g] /\ keys[j] = d[g]
      BY <2>8, <2>10, <3>1
    <3> QED
      BY <1>1, <3>1, <3>2
  <2>17. ListsGroups(out, keys, c, table, K, M, NumbersOf(table, K))
    BY <2>14, <2>15, <2>16, NumbersList
  <2> QED
    BY <2>2, <2>7, <2>8, <2>17 DEF HasGroups
<1> QED
  BY <1>2, <1>3

\* exact_null_group.
LEMMA NullGroupIs ==
  ASSUME NEW k, NEW table, NEW n, NEW v, NEW M, NEW K, NEW mask, KeyedBy(k, table, n, v, M, K, mask)
  PROVE  NullGroup(k, v, mask) = M[OfKey(table, K, NoCell)]
<1>1. /\ n \in Nat /\ Len(k.data) = n /\ Aggregates(M, v, n) /\ K \in SUBSET (1..n)
      /\ \A i \in 1..n : mask[i] <=> i \in K
      /\ \A i \in 1..n : BitAt(k.valid, i) <=> table[i].k # NoCell
  BY DEF KeyedBy, KeyColumn
<1>2. PICK U : U = OfKey(table, K, NoCell)
  OBVIOUS
<1>3. U \in SUBSET (1..n)
  BY <1>1, <1>2 DEF OfKey
<1>4. DOMAIN Rows(n) = 1..n /\ \A j \in 1..n : Rows(n)[j] = j
  BY DEF Rows
<1>5. U = {j \in DOMAIN Rows(n) : ~BitAt(k.valid, Rows(n)[j]) /\ mask[Rows(n)[j]]}
  <2>1. U = {i \in 1..n : ~BitAt(k.valid, i) /\ mask[i]}
    BY <1>1, <1>2 DEF OfKey
  <2> QED
    BY <1>4, <2>1
<1>6. NullGroup(k, v, mask) = DeviceReduce(v, KeptOf(U, n))
  BY <1>1, <1>5, Zenon DEF NullGroup, Selected, KeptOf
<1>7. PICK rows, c : rows = KeptOf(U, n) /\ c = Cardinality(U)
  OBVIOUS
<1>8. IsSelection(rows, c, n) /\ Met(rows, c) = U /\ Len(rows) = c
  BY <1>1, <1>3, <1>7, KeptOfIs
<1>9. DeviceReduce(v, rows) = M[Met(rows, c)]
  BY <1>1, <1>8, DeviceReduceIsWhole
<1> QED
  BY <1>2, <1>6, <1>7, <1>8, <1>9

\* ---- exact_common ---------------------------------------------------------------------------
NumbersReduce(k, v, mask, cache, masked) ==
    IF cache.distinct # <<>> THEN Emptied(DirectReduce(k, v, mask, cache.distinct), masked)
    ELSE SortReduce(k, v, Selected(cache.sorted, LAMBDA i : mask[i]))
LEMMA NumbersReduced ==
  ASSUME NEW k, NEW table, NEW n, NEW v, NEW M, NEW K, NEW mask, KeyedBy(k, table, n, v, M, K, mask),
         NEW cache, cache = ExactCache(k), NEW masked \in BOOLEAN, ~masked => K = 1..n
  PROVE  HasGroups(NumbersReduce(k, v, mask, cache, masked), table, K, M, NumbersOf(table, K))
<1>1. /\ n \in Nat /\ Len(k.data) = n /\ Aggregates(M, v, n) /\ K \in SUBSET (1..n) /\ KeyColumn(k, table, n)
      /\ DOMAIN table = 1..n
      /\ \A i \in 1..n : mask[i] <=> i \in K
  BY DEF KeyedBy, KeyColumn
<1>2. CASE cache.distinct # <<>>
  <2>1. PICK d : d = cache.distinct
    OBVIOUS
  <2>2. PICK m : Increases(d, m, NumbersOf(table, 1..n))
    BY <1>1, <1>2, <2>1, CacheIs
  <2>3. DOMAIN d = 1..m
    BY <2>2 DEF Increases
  <2>4. PICK rows : rows = DirectReduce(k, v, mask, d)
    OBVIOUS
  <2>5. rows = DirectRows(k, v, mask, d)
    <3>1. Len(k.data) \in Nat
      BY <1>1
    <3> QED
      BY <3>1, <2>4, DirectIs
  <2>6. \A g \in 1..m : CombineAll(Replicated(k, v, mask, d, g)) = M[OfKey(table, K, d[g])]
    BY <2>2, ReplicasCover
  <2>7. rows = GroupSeq(d, table, K, M)
    BY <2>3, <2>5, <2>6 DEF GroupSeq, DirectRows
  <2>8. HasGroups(Emptied(rows, masked), table, K, M, NumbersOf(table, K))
    BY <1>1, <2>2, <2>7, EmptiedLists
  <2> QED
    BY <1>2, <2>1, <2>4, <2>8 DEF NumbersReduce
<1>3. CASE cache.distinct = <<>>
  <2>1. PICK s, V : s = cache.sorted /\ V = {i \in 1..n : table[i].k # NoCell}
    OBVIOUS
  <2>2. PICK c : SortedOf(s, c, table, V, n)
    BY <1>1, <2>1, CacheIs
  <2>3. PICK t : t = Selected(cache.sorted, LAMBDA i : mask[i])
    OBVIOUS
  <2>4. \A j \in DOMAIN s : s[j] \in 1..n
    BY <2>2 DEF SortedOf, Listed, IsSelection
  <2>5. {j \in DOMAIN s : mask[s[j]]} = {j \in DOMAIN s : s[j] \in K}
    BY <1>1, <2>4
  <2>6. t = Picked(s, {j \in DOMAIN s : s[j] \in K})
    BY <2>1, <2>3, <2>5 DEF Selected
  <2>7. PICK e : SortedOf(t, e, table, V \cap K, n)
    BY <2>2, <2>6, SortedPart
  <2>8. V \cap K = {i \in K : table[i].k # NoCell}
    BY <1>1, <2>1
  <2>9. PICK rows : rows = SortReduce(k, v, t)
    OBVIOUS
  <2>10. PICK keys, m : ListsGroups(rows, keys, m, table, K, M, NumbersOf(table, K))
    BY <1>1, <2>7, <2>8, <2>9, SortReduceLists
  <2>11. IsList(rows, m)
    <3>1. rows = [r \in DOMAIN RunsOf(k, t) |-> GroupRow(Load(k, RunsOf(k, t)[r][1]), FALSE, DeviceReduce(v, RunsOf(k, t)[r]))]
      BY <2>9 DEF SortReduce
    <3>2. rows = [r \in DOMAIN rows |-> rows[r]]
      BY <3>1
    <3>3. m \in Nat /\ DOMAIN rows = 1..m
      BY <2>10 DEF ListsGroups
    <3> QED
      BY <3>2, <3>3 DEF IsList
  <2> QED
    BY <1>3, <2>3, <2>9, <2>10, <2>11 DEF HasGroups, NumbersReduce
<1> QED
  BY <1>2, <1>3

LEMMA ReduceLists ==
  ASSUME NEW k, NEW table, NEW n, NEW v, NEW M, NEW K, NEW mask, KeyedBy(k, table, n, v, M, K, mask),
         NEW cache, cache = ExactCache(k), NEW masked \in BOOLEAN, ~masked => K = 1..n
  PROVE  HasGroups(Reduce(k, v, mask, cache, masked), table, K, M, KeysOf(table, K))
<1>1. PICK rows : rows = NumbersReduce(k, v, mask, cache, masked)
  OBVIOUS
<1>a. HasGroups(rows, table, K, M, NumbersOf(table, K))
  BY <1>1, NumbersReduced
<1>2. PICK keys, m : ListsGroups(rows, keys, m, table, K, M, NumbersOf(table, K)) /\ IsList(rows, m)
  BY <1>a DEF HasGroups
<1>3. PICK null : null = NullGroup(k, v, mask) /\ null = M[OfKey(table, K, NoCell)]
  BY NullGroupIs
<1>4. PICK all : all = Reduce(k, v, mask, cache, masked)
  OBVIOUS
<1>5. all = WithNull(rows, null)
  BY <1>1, <1>3, <1>4 DEF Reduce, NumbersReduce
<1>6. PICK U : U = OfKey(table, K, NoCell)
  OBVIOUS
<1>7. null.star = 0 <=> U = {}
  <2>1. n \in Nat /\ K \in SUBSET (1..n) /\ Aggregates(M, v, n)
    BY DEF KeyedBy, KeyColumn
  <2>2. U \in SUBSET (1..n)
    BY <1>6, <2>1 DEF OfKey
  <2>3. null.star = Cardinality(U)
    BY <1>3, <1>6, <2>1, <2>2, StarsCount
  <2>4. IsFiniteSet(1..n)
    BY <2>1, FS_Interval
  <2>5. IsFiniteSet(U)
    BY <2>2, <2>4, FS_Subset
  <2> QED
    BY <2>3, <2>5, FS_EmptySet
<1>8. CASE U = {}
  <2>1. all = rows
    BY <1>5, <1>7, <1>8 DEF WithNull
  <2>2. NumbersOf(table, K) = KeysOf(table, K)
    BY <1>6, <1>8 DEF OfKey, NumbersOf, KeysOf
  <2> QED
    BY <1>2, <1>4, <2>1, <2>2 DEF HasGroups
<1>9. CASE U # {}
  <2>1. PICK x : x = GroupRow(0, TRUE, null)
    OBVIOUS
  <2>2. all = Append(rows, x)
    BY <1>5, <1>7, <1>9, <2>1 DEF WithNull
  <2>3. m \in Nat /\ rows = [j \in 1..m |-> rows[j]]
    BY <1>2 DEF IsList
  <2>4. IsList(all, m + 1)
    BY <1>2, <2>2, ListGrows
  <2>5. /\ DOMAIN all = 1..m + 1 /\ \A j \in 1..m : all[j] = rows[j]
        /\ all[m + 1] = x
    BY <2>2, <2>3, RowsAppended
  <2>6. PICK names, c : ListsGroups(all, names, c, table, K, M, KeysOf(table, K))
    BY <1>2, <1>3, <1>6, <1>9, <2>1, <2>5, NullIsLast
  <2>7. c = m + 1
    <3>1. c \in Nat /\ DOMAIN all = 1..c
      BY <2>6 DEF ListsGroups
    <3>2. 1..c = 1..m + 1 /\ c \in Nat /\ m \in Nat
      BY <2>3, <2>5, <3>1
    <3> QED
      BY <3>2
  <2> QED
    BY <1>4, <2>4, <2>6, <2>7 DEF HasGroups
<1> QED
  BY <1>8, <1>9

LEMMA GroupedIsList ==
  ASSUME NEW k, NEW v, NEW table, NEW n, Reads(k, table, "k", n), NEW M, Aggregates(M, v, n),
         NEW K \in SUBSET (1..n), NEW kept, NEW c, Listed(kept, c, K, n)
  PROVE  HasGroups(Grouped(k, v, kept), table, K, M, KeysOf(table, K))
<1>1. PICK all, keys, m : all = Grouped(k, v, kept) /\ ListsGroups(all, keys, m, table, K, M, KeysOf(table, K))
  BY GroupedLists
<1>2. PICK rows, bare : all = rows \o Null(v, bare) /\ rows = Valid(k, v, Picked(kept, HasKey(k, kept)))
  BY <1>1, GroupedIs
<1>3. \E a : IsList(rows, a)
  <2>1. PICK keyed, V, a : keyed = Picked(kept, HasKey(k, kept)) /\ V = {i \in K : table[i].k # NoCell} /\ Listed(keyed, a, V, n)
    <3>1. PICK V : V = {i \in K : table[i].k # NoCell}
      OBVIOUS
    <3>2. \A j \in DOMAIN kept : kept[j] \in K
      BY ListedIsFinite DEF ToSet
    <3>3. \A i \in K : IsValid(k, i) <=> table[i].k # NoCell
      BY KeyReads
    <3>4. HasKey(k, kept) = {j \in DOMAIN kept : kept[j] \in V} /\ K \cap V = V
      BY <3>1, <3>2, <3>3 DEF HasKey
    <3> QED
      <4>1. PICK J : J = {j \in DOMAIN kept : kept[j] \in V}
        OBVIOUS
      <4>2. Listed(Picked(kept, J), Cardinality(J), V, n)
        BY <3>4, <4>1, ListedPart
      <4> QED
        BY <3>1, <3>4, <4>1, <4>2
  <2>2. PICK names, b : ListsGroups(rows, names, b, table, K, M, NumbersOf(table, K))
    BY <1>2, <2>1, ValidLists DEF KeyedRows
  <2>3. b \in Nat /\ DOMAIN rows = 1..b
    BY <2>2 DEF ListsGroups
  <2>4. rows = [g \in DOMAIN rows |-> rows[g]]
    BY <1>2 DEF Valid, ByKey
  <2> QED
    BY <2>3, <2>4 DEF IsList
<1>4. PICK a : IsList(rows, a)
  BY <1>3
<1>5. \E b : IsList(all, b)
  BY <1>2, <1>4, ListGrows DEF Null
<1>6. PICK b : IsList(all, b)
  BY <1>5
<1>7. m \in Nat /\ b \in Nat /\ 1..m = 1..b
  BY <1>1, <1>6 DEF IsList, ListsGroups
<1>8. m = b
  BY <1>7
<1> QED
  BY <1>1, <1>6, <1>8 DEF HasGroups

\* ---- HAVING and top-k -------------------------------------------------------------------
\* A group's numbers, and the one the filter looks at.
HasNumbers(r) == r.sum \in Limbs /\ r.cnt \in Int /\ r.star \in Int /\ r.mn \in Int /\ r.mx \in Int
ValueOf(f, r) == CASE f.agg = "Sum" -> Number(r.sum) [] f.agg = "Min" -> r.mn [] f.agg = "Max" -> r.mx
                   [] f.agg = "CountV" -> r.cnt [] f.agg = "CountStar" -> r.star
LEMMA LimbsAreInts == \A s \in Limbs : Number(s) \in Int
<1> SUFFICES ASSUME NEW s \in Limbs PROVE Number(s) \in Int
  OBVIOUS
<1>1. s.lo \in Int /\ s.hi \in Int /\ W \in Int
  BY WordFacts DEF Limbs, Word
<1> QED
  BY <1>1 DEF Number
LEMMA AggIs ==
  ASSUME NEW f, f.agg \in HavingAggs, NEW a, HasNumbers(a), NEW b, HasNumbers(b)
  PROVE  ValueOf(f, a) \in Int /\ (AggLess(f, a, b) <=> ValueOf(f, a) < ValueOf(f, b))
<1>1. a.sum \in Limbs /\ b.sum \in Limbs /\ Number(a.sum) \in Int
  BY LimbsAreInts DEF HasNumbers
<1>2. SumLess(a.sum, b.sum) <=> Number(a.sum) < Number(b.sum)
  BY <1>1, LimbsAreOrdered
<1>3. CASE f.agg = "Sum"
  BY <1>1, <1>2, <1>3 DEF ValueOf, AggLess
<1>4. CASE f.agg = "Min"
  BY <1>4 DEF ValueOf, AggLess, HasNumbers
<1>5. CASE f.agg = "Max"
  BY <1>5 DEF ValueOf, AggLess, HasNumbers
<1>6. CASE f.agg = "CountV"
  BY <1>6 DEF ValueOf, AggLess, HasNumbers
<1>7. CASE f.agg = "CountStar"
  BY <1>7 DEF ValueOf, AggLess, HasNumbers
<1> QED
  BY <1>3, <1>4, <1>5, <1>6, <1>7 DEF HavingAggs

LEMMA ThresholdIs ==
  ASSUME NEW f, IsFilter(f)
  PROVE  HasNumbers(Threshold(f)) /\ ValueOf(f, Threshold(f)) = f.threshold /\ f.threshold \in Int
<1>1. f.threshold \in Int /\ f.agg # "Avg"
  BY WordsAreInts DEF IsFilter, HavingAggs
<1>2. SumOf(f.threshold) \in Limbs /\ Number(SumOf(f.threshold)) = f.threshold
  BY WordsAreExact DEF IsFilter
<1>3. PICK t : t = Threshold(f)
  OBVIOUS
<1>4. t.sum = SumOf(f.threshold) /\ t.cnt = f.threshold /\ t.star = f.threshold /\ t.mn = f.threshold /\ t.mx = f.threshold
  BY <1>1, <1>3 DEF Threshold
<1>5. HasNumbers(t)
  BY <1>1, <1>2, <1>4 DEF HasNumbers
<1>6. f.agg \in HavingAggs
  BY DEF IsFilter
<1>7. ValueOf(f, t) = f.threshold
  BY <1>2, <1>4, <1>6 DEF ValueOf, HavingAggs
<1> QED
  BY <1>1, <1>3, <1>5, <1>7

LEMMA KeepsIs ==
  ASSUME NEW f, IsFilter(f), NEW r, HasNumbers(r)
  PROVE  Keeps(f, r) <=> f.cmp = "None" \/ (~AggNull(f, r) /\ Compare(f.cmp, ValueOf(f, r), f.threshold))
<1>1. PICK t : t = Threshold(f) /\ HasNumbers(t) /\ ValueOf(f, t) = f.threshold /\ f.threshold \in Int
  BY ThresholdIs
<1>2. f.agg \in HavingAggs /\ f.cmp \in HavingOps
  BY DEF IsFilter
<1>3. ValueOf(f, r) \in Int /\ (AggLess(f, r, t) <=> ValueOf(f, r) < f.threshold)
  BY <1>1, <1>2, AggIs
<1>4. AggLess(f, t, r) <=> f.threshold < ValueOf(f, r)
  BY <1>1, <1>2, AggIs
<1>5. PICK x \in Int, y \in Int : x = ValueOf(f, r) /\ y = f.threshold
  BY <1>1, <1>3
<1>6. Keeps(f, r) <=>
        \/ f.cmp = "None"
        \/ ~AggNull(f, r) /\ (\/ (f.cmp = "GT" /\ y < x) \/ (f.cmp = "GE" /\ ~(x < y))
                              \/ (f.cmp = "LT" /\ x < y) \/ (f.cmp = "LE" /\ ~(y < x)))
  BY <1>1, <1>3, <1>4, <1>5 DEF Keeps
<1>7. f.cmp # "None" =>
        (Compare(f.cmp, x, y) <=> (\/ (f.cmp = "GT" /\ y < x) \/ (f.cmp = "GE" /\ ~(x < y))
                                   \/ (f.cmp = "LT" /\ x < y) \/ (f.cmp = "LE" /\ ~(y < x))))
  <2>1. CASE f.cmp = "GT"
    BY <2>1 DEF Compare
  <2>2. CASE f.cmp = "GE"
    BY <2>2 DEF Compare
  <2>3. CASE f.cmp = "LT"
    BY <2>3 DEF Compare
  <2>4. CASE f.cmp = "LE"
    BY <2>4 DEF Compare
  <2> QED
    BY <1>2, <2>1, <2>2, <2>3, <2>4 DEF HavingOps
<1> QED
  BY <1>5, <1>6, <1>7

LEMMA BetterIs ==
  ASSUME NEW f, IsFilter(f), NEW a, HasNumbers(a), NEW b, HasNumbers(b)
  PROVE  Better(f, a, b) <=>
           IF AggNull(f, a) # AggNull(f, b) THEN AggNull(f, b)
           ELSE IF AggNull(f, a) \/ ValueOf(f, a) = ValueOf(f, b) THEN KeyBefore(a, b)
           ELSE IF f.desc THEN ValueOf(f, a) > ValueOf(f, b) ELSE ValueOf(f, a) < ValueOf(f, b)
<1>1. f.agg \in HavingAggs /\ f.desc \in BOOLEAN
  BY DEF IsFilter
<1>2. /\ ValueOf(f, a) \in Int /\ ValueOf(f, b) \in Int
      /\ AggLess(f, a, b) <=> ValueOf(f, a) < ValueOf(f, b)
      /\ AggLess(f, b, a) <=> ValueOf(f, b) < ValueOf(f, a)
  BY <1>1, AggIs
<1>3. PICK x \in Int, y \in Int : x = ValueOf(f, a) /\ y = ValueOf(f, b)
  BY <1>2
<1>4. /\ AggLess(f, a, b) <=> x < y
      /\ AggLess(f, b, a) <=> y < x
  BY <1>2, <1>3
<1>5. AggNull(f, a) \in BOOLEAN /\ AggNull(f, b) \in BOOLEAN
  BY DEF AggNull
<1>a. AggLess(f, a, b) \in BOOLEAN
  <2>1. CASE f.agg = "Sum"
    <3>1. AggLess(f, a, b) = SumLess(a.sum, b.sum)
      BY <2>1 DEF AggLess
    <3>2. CASE a.sum.hi # b.sum.hi
      BY <3>1, <3>2 DEF SumLess
    <3>3. CASE a.sum.hi = b.sum.hi
      BY <3>1, <3>3 DEF SumLess
    <3> QED
      BY <3>2, <3>3
  <2>2. CASE f.agg = "Min"
    BY <2>2 DEF AggLess
  <2>3. CASE f.agg = "Max"
    BY <2>3 DEF AggLess
  <2>4. CASE f.agg = "CountV"
    BY <2>4 DEF AggLess
  <2>5. CASE f.agg = "CountStar"
    BY <2>5 DEF AggLess
  <2> QED
    BY <1>1, <2>1, <2>2, <2>3, <2>4, <2>5 DEF HavingAggs
<1>6. CASE AggNull(f, a) # AggNull(f, b)
  BY <1>6 DEF Better
<1>7. CASE AggNull(f, a) = AggNull(f, b) /\ (AggNull(f, a) \/ x = y)
  <2>1. AggNull(f, a) \/ ~(AggLess(f, a, b) \/ AggLess(f, b, a))
    BY <1>4, <1>7
  <2>2. Better(f, a, b) <=> KeyBefore(a, b)
    BY <1>7, <2>1 DEF Better
  <2> QED
    BY <1>3, <1>7, <2>2
<1>8. CASE AggNull(f, a) = AggNull(f, b) /\ ~AggNull(f, a) /\ x # y
  <2>1. x < y \/ y < x
    BY <1>8
  <2>2. ~(AggNull(f, a) \/ ~(AggLess(f, a, b) \/ AggLess(f, b, a)))
    BY <1>4, <1>8, <2>1
  <2>3. Better(f, a, b) <=> (AggLess(f, a, b) = ~f.desc)
    BY <1>8, <2>2, Zenon DEF Better
  <2>4. CASE f.desc
    <3>1. Better(f, a, b) <=> ~AggLess(f, a, b)
      BY <1>1, <1>a, <2>3, <2>4
    <3>2. ~(x < y) <=> x > y
      BY <1>8
    <3> QED
      BY <1>3, <1>4, <1>8, <2>4, <3>1, <3>2
  <2>5. CASE ~f.desc
    <3>1. Better(f, a, b) <=> AggLess(f, a, b)
      BY <2>3, <2>5
    <3> QED
      BY <1>3, <1>4, <1>8, <2>5, <3>1
  <2> QED
    BY <2>4, <2>5
<1>9. \/ AggNull(f, a) # AggNull(f, b)
      \/ AggNull(f, a) = AggNull(f, b) /\ (AggNull(f, a) \/ x = y)
      \/ AggNull(f, a) = AggNull(f, b) /\ ~AggNull(f, a) /\ x # y
  OBVIOUS
<1> QED
  BY <1>6, <1>7, <1>8, <1>9

\* A list of groups whose keys ascend, NULL last.
IsKeyList(rows, m) ==
    /\ IsList(rows, m) /\ \A j \in 1..m : HasNumbers(rows[j])
    /\ \A i, j \in 1..m : KeyBefore(rows[i], rows[j]) <=> i < j
LEMMA KeyListDiffers ==
  ASSUME NEW rows, NEW m, IsKeyList(rows, m)
  PROVE  \A i, j \in 1..m : rows[i] = rows[j] => i = j
<1> SUFFICES ASSUME NEW i \in 1..m, NEW j \in 1..m, rows[i] = rows[j] PROVE i = j
  OBVIOUS
<1>1. (KeyBefore(rows[i], rows[j]) <=> i < j) /\ (KeyBefore(rows[j], rows[i]) <=> j < i) /\ (KeyBefore(rows[i], rows[i]) <=> i < i)
  BY DEF IsKeyList
<1>2. ~(i < i)
  OBVIOUS
<1>3. ~(i < j) /\ ~(j < i)
  BY <1>1, <1>2
<1> QED
  BY <1>3

\* Ranking is an order of three numbers: NULL aggregates last, the value, the place.
LexBefore(p, q, r, a, b) == p[a] < p[b] \/ (p[a] = p[b] /\ (q[a] < q[b] \/ (q[a] = q[b] /\ r[a] < r[b])))
LEMMA LexOrder ==
  ASSUME NEW S, NEW p, NEW q, NEW r, \A x \in S : p[x] \in Int /\ q[x] \in Int /\ r[x] \in Int,
         \A x, y \in S : r[x] = r[y] => x = y, NEW R, \A x, y \in S : <<x, y>> \in R <=> LexBefore(p, q, r, x, y)
  PROVE  IsOrder(R, S)
<1>1. \A x \in S : <<x, x>> \notin R
  <2> SUFFICES ASSUME NEW x \in S PROVE ~LexBefore(p, q, r, x, x)
    OBVIOUS
  <2>1. PICK a \in Int, b \in Int, c \in Int : a = p[x] /\ b = q[x] /\ c = r[x]
    OBVIOUS
  <2> QED
    BY <2>1 DEF LexBefore
<1>2. ASSUME NEW x \in S, NEW y \in S, NEW z \in S, <<x, y>> \in R, <<y, z>> \in R PROVE <<x, z>> \in R
  <2>1. PICK a \in Int, b \in Int, c \in Int : a = p[x] /\ b = q[x] /\ c = r[x]
    OBVIOUS
  <2>2. PICK d \in Int, e \in Int, g \in Int : d = p[y] /\ e = q[y] /\ g = r[y]
    OBVIOUS
  <2>3. PICK h \in Int, i \in Int, j \in Int : h = p[z] /\ i = q[z] /\ j = r[z]
    OBVIOUS
  <2>4. LexBefore(p, q, r, x, y) /\ LexBefore(p, q, r, y, z)
    BY <1>2
  <2>5. a < d \/ (a = d /\ (b < e \/ (b = e /\ c < g)))
    BY <2>1, <2>2, <2>4 DEF LexBefore
  <2>6. d < h \/ (d = h /\ (e < i \/ (e = i /\ g < j)))
    BY <2>2, <2>3, <2>4 DEF LexBefore
  <2>7. a < h \/ (a = h /\ (b < i \/ (b = i /\ c < j)))
    BY <2>5, <2>6
  <2>8. LexBefore(p, q, r, x, z)
    BY <2>1, <2>3, <2>7 DEF LexBefore
  <2> QED
    BY <2>8
<1>3. ASSUME NEW x \in S, NEW y \in S PROVE x = y \/ <<x, y>> \in R \/ <<y, x>> \in R
  <2>1. PICK a \in Int, b \in Int, c \in Int : a = p[x] /\ b = q[x] /\ c = r[x]
    OBVIOUS
  <2>2. PICK d \in Int, e \in Int, g \in Int : d = p[y] /\ e = q[y] /\ g = r[y]
    OBVIOUS
  <2>3. \/ c = g \/ (a < d \/ (a = d /\ (b < e \/ (b = e /\ c < g))))
        \/ (d < a \/ (d = a /\ (e < b \/ (e = b /\ g < c))))
    BY ONLY a \in Int, b \in Int, c \in Int, d \in Int, e \in Int, g \in Int
  <2>4. c = g => x = y
    BY <2>1, <2>2
  <2> QED
    BY <2>1, <2>2, <2>3, <2>4 DEF LexBefore
<1> QED
  BY <1>1, <1>2, <1>3 DEF IsOrder

\* The groups that pass HAVING; out has the rows at the positions at, those
\* groups in their order or the first of them in the filter's.
Survivors(rows, m, f) == {j \in 1..m : Keeps(f, rows[j])}
FilterIs(out, rows, m, f, at, c) ==
    /\ IsList(out, c)
    /\ c = IF f.topk = 0 THEN Cardinality(Survivors(rows, m, f)) ELSE Min({f.topk, Cardinality(Survivors(rows, m, f))})
    /\ \A i \in 1..c : at[i] \in Survivors(rows, m, f) /\ out[i] = rows[at[i]]
    /\ \A i, j \in 1..c : i < j => at[i] # at[j]
    /\ f.topk = 0 => \A i, j \in 1..c : i < j => at[i] < at[j]
    /\ f.topk # 0 => \A i, j \in 1..c : i < j => Better(f, rows[at[i]], rows[at[j]])
    /\ \A g \in Survivors(rows, m, f) : (\A i \in 1..c : at[i] # g) => f.topk # 0 /\ \A i \in 1..c : Better(f, rows[at[i]], rows[g])

LEMMA SurvivorsAre ==
  ASSUME NEW rows, NEW m, IsKeyList(rows, m), NEW f
  PROVE  /\ Survivors(rows, m, f) \in SUBSET (1..m) /\ FiniteInts(Survivors(rows, m, f)) /\ m \in Nat /\ Len(rows) = m
         /\ Selected(rows, LAMBDA r : Keeps(f, r)) = Picked(rows, Survivors(rows, m, f))
<1>1. m \in Nat /\ rows = [j \in 1..m |-> rows[j]]
  BY DEF IsKeyList, IsList
<1>2. DOMAIN rows = 1..m /\ Len(rows) = m
  BY <1>1
<1>3. Survivors(rows, m, f) \in SUBSET (1..m)
  BY DEF Survivors
<1>4. IsFiniteSet(1..m) /\ 1..m \subseteq Int
  BY <1>1, FS_Interval
<1>5. FiniteInts(Survivors(rows, m, f))
  <2>1. IsFiniteSet(Survivors(rows, m, f))
    BY <1>3, <1>4, FS_Subset
  <2> QED
    BY <1>3, <1>4, <2>1 DEF FiniteInts
<1>6. Selected(rows, LAMBDA r : Keeps(f, r)) = Picked(rows, Survivors(rows, m, f))
  BY <1>2, Zenon DEF Selected, Survivors
<1> QED
  BY <1>1, <1>2, <1>3, <1>5, <1>6

\* ORDER BY key: the survivors where they stand.
LEMMA InKeyOrder ==
  ASSUME NEW rows, NEW m, IsKeyList(rows, m), NEW f, f.topk = 0
  PROVE  \E at, c : FilterIs(Picked(rows, Survivors(rows, m, f)), rows, m, f, at, c)
<1>1. PICK J : J = Survivors(rows, m, f)
  OBVIOUS
<1>2. FiniteInts(J)
  BY <1>1, SurvivorsAre
<1>3. PICK at, c : at = Rising(J) /\ c = Cardinality(J)
  OBVIOUS
<1>4. Ascends(at, J)
  BY <1>2, <1>3, RisingAscends DEF FiniteInts
<1>5. /\ c \in Nat /\ \A i \in 1..c : at[i] \in J
      /\ \A x \in J : \E i \in 1..c : at[i] = x
      /\ \A i, j \in 1..c : i < j => at[i] < at[j]
  BY <1>3, <1>4 DEF Ascends
<1>6. PICK out : out = Picked(rows, J)
  OBVIOUS
<1>7. IsPicked(out, rows, J)
  BY <1>2, <1>6, PickedIsList
<1>8. IsList(out, c) /\ \A i \in 1..c : out[i] = rows[at[i]]
  BY <1>3, <1>7 DEF IsPicked
<1>9. \A i, j \in 1..c : i < j => at[i] # at[j]
  <2>1. \A i \in 1..c : at[i] \in Int
    BY <1>2, <1>5 DEF FiniteInts
  <2> QED
    BY <1>5, <2>1
<1>10. FilterIs(out, rows, m, f, at, c)
  BY <1>1, <1>3, <1>5, <1>8, <1>9 DEF FilterIs
<1> QED
  BY <1>1, <1>6, <1>10

\* The groups at the positions J, in the order of the filter.
RowsAt(rows, J) == {rows[j] : j \in J}
BetterOf(f, S) == {p \in S \X S : Better(f, p[1], p[2])}
ByBetter(f, S) == InOrder(S, LAMBDA a, b : Better(f, a, b))
LEMMA BetterPairs == \A f, S : \A a, b \in S : <<a, b>> \in BetterOf(f, S) <=> Better(f, a, b)
BY DEF BetterOf
LEMMA RankedIs ==
  ASSUME NEW rows, NEW f
  PROVE  Ranked(rows, f) = IF f.topk = 0 THEN rows ELSE SubSeq(ByBetter(f, ToSet(rows)), 1, Min({f.topk, Len(rows)}))
BY DEF Ranked, Best, ByBetter
LEMMA BetterIsOrder ==
  ASSUME NEW rows, NEW m, IsKeyList(rows, m), NEW f, IsFilter(f), NEW J \in SUBSET (1..m)
  PROVE  IsOrder(BetterOf(f, RowsAt(rows, J)), RowsAt(rows, J))
<1>1. PICK S, R : S = RowsAt(rows, J) /\ R = BetterOf(f, S)
  OBVIOUS
<1>2. PICK p, q, r : /\ p = [x \in S |-> IF AggNull(f, x) THEN 1 ELSE 0]
                     /\ q = [x \in S |-> IF AggNull(f, x) THEN 0 ELSE IF f.desc THEN 0 - ValueOf(f, x) ELSE ValueOf(f, x)]
                     /\ r = [x \in S |-> CHOOSE j \in J : rows[j] = x]
  OBVIOUS
<1>3. \A x \in S : r[x] \in J /\ rows[r[x]] = x /\ r[x] \in 1..m
  BY <1>1, <1>2 DEF RowsAt
<1>4. f.agg \in HavingAggs /\ f.desc \in BOOLEAN
  BY DEF IsFilter
<1>5. \A x \in S : HasNumbers(x) /\ ValueOf(f, x) \in Int
  <2>1. \A x \in S : HasNumbers(x)
    BY <1>3 DEF IsKeyList
  <2> QED
    BY <1>4, <2>1, AggIs
<1>6. \A x \in S : p[x] \in Int /\ q[x] \in Int /\ r[x] \in Int
  BY <1>2, <1>3, <1>5
<1>7. \A x, y \in S : r[x] = r[y] => x = y
  BY <1>3
<1>8. ASSUME NEW x \in S, NEW y \in S PROVE <<x, y>> \in R <=> LexBefore(p, q, r, x, y)
  <2>1. <<x, y>> \in R <=> Better(f, x, y)
    BY <1>1, BetterPairs
  <2>2. KeyBefore(x, y) <=> r[x] < r[y]
    BY <1>3 DEF IsKeyList
  <2>3. PICK a \in Int, b \in Int, i \in Int, j \in Int : a = ValueOf(f, x) /\ b = ValueOf(f, y) /\ i = r[x] /\ j = r[y]
    BY <1>5, <1>6
  <2>4. Better(f, x, y) <=>
           IF AggNull(f, x) # AggNull(f, y) THEN AggNull(f, y)
           ELSE IF AggNull(f, x) \/ a = b THEN i < j
           ELSE IF f.desc THEN a > b ELSE a < b
    BY <1>5, <2>2, <2>3, BetterIs
  <2>5. /\ p[x] = IF AggNull(f, x) THEN 1 ELSE 0
        /\ p[y] = IF AggNull(f, y) THEN 1 ELSE 0
        /\ q[x] = IF AggNull(f, x) THEN 0 ELSE IF f.desc THEN 0 - a ELSE a
        /\ q[y] = IF AggNull(f, y) THEN 0 ELSE IF f.desc THEN 0 - b ELSE b
    BY <1>2, <2>3
  <2>6. AggNull(f, x) \in BOOLEAN /\ AggNull(f, y) \in BOOLEAN
    BY DEF AggNull
  <2>7. CASE AggNull(f, x) # AggNull(f, y)
    BY <2>1, <2>4, <2>5, <2>6, <2>7 DEF LexBefore
  <2>8. CASE AggNull(f, x) /\ AggNull(f, y)
    BY <2>1, <2>3, <2>4, <2>5, <2>8 DEF LexBefore
  <2>9. CASE ~AggNull(f, x) /\ ~AggNull(f, y)
    <3>1. p[x] = 0 /\ p[y] = 0
      BY <2>5, <2>9
    <3>2. CASE f.desc
      <4>1. q[x] = 0 - a /\ q[y] = 0 - b
        BY <2>5, <2>9, <3>2
      <4>2. Better(f, x, y) <=> IF a = b THEN i < j ELSE a > b
        BY <2>4, <2>6, <2>9, <3>2, a = b \/ a # b, Zenon
      <4>3. LexBefore(p, q, r, x, y) <=> (0 - a < 0 - b \/ (0 - a = 0 - b /\ i < j))
        BY <2>3, <3>1, <4>1 DEF LexBefore
      <4> QED
        BY <2>1, <4>2, <4>3
    <3>3. CASE ~f.desc
      <4>1. q[x] = a /\ q[y] = b
        BY <2>5, <2>9, <3>3
      <4>2. Better(f, x, y) <=> IF a = b THEN i < j ELSE a < b
        BY <2>4, <2>6, <2>9, <3>3, a = b \/ a # b, Zenon
      <4>3. LexBefore(p, q, r, x, y) <=> (a < b \/ (a = b /\ i < j))
        BY <2>3, <3>1, <4>1 DEF LexBefore
      <4> QED
        BY <2>1, <4>2, <4>3
    <3> QED
      BY <3>2, <3>3
  <2> QED
    BY <2>6, <2>7, <2>8, <2>9
<1>9. IsOrder(R, S)
  BY <1>6, <1>7, <1>8, LexOrder
<1> QED
  BY <1>1, <1>9

\* InOrder is an enumeration when its order is one.
LEMMA BetterEnumerates ==
  ASSUME NEW f, NEW S, IsFiniteSet(S), IsOrder(BetterOf(f, S), S)
  PROVE  Enumerates(ByBetter(f, S), BetterOf(f, S), S)
<1>1. PICK R, n, e : R = BetterOf(f, S) /\ n = Cardinality(S) /\ e = ByBetter(f, S)
  OBVIOUS
<1>2. n \in Nat /\ IsOrder(R, S)
  BY <1>1, FS_CardinalityType
<1>3. \A x \in S : {y \in S : Better(f, y, x)} = Below(R, S, x)
  BY <1>1, BetterPairs DEF Below
<1>4. \A x \in S : Cardinality({y \in S : Better(f, y, x)}) = RankOf(R, S, x)
  BY <1>3, Zenon DEF RankOf
<1>5. e = [j \in 1..n |-> CHOOSE x \in S : Cardinality({y \in S : Better(f, y, x)}) = j - 1]
  BY <1>1 DEF ByBetter, InOrder
<1>6. \A j \in 0..n - 1 : \E x \in S : RankOf(R, S, x) = j
  BY <1>1, <1>2, RanksAreTaken
<1>7. ASSUME NEW j \in 1..n PROVE e[j] \in S /\ RankOf(R, S, e[j]) = j - 1
  <2>1. j - 1 \in 0..n - 1
    BY <1>2
  <2>2. \E x \in S : Cardinality({y \in S : Better(f, y, x)}) = j - 1
    BY <1>4, <1>6, <2>1
  <2>3. e[j] = CHOOSE x \in S : Cardinality({y \in S : Better(f, y, x)}) = j - 1
    BY <1>5
  <2>4. e[j] \in S /\ Cardinality({y \in S : Better(f, y, e[j])}) = j - 1
    BY <2>2, <2>3
  <2> QED
    BY <1>4, <2>4
<1>8. DOMAIN e = 1..n
  BY <1>5
<1>9. Enumerates(e, R, S)
  BY <1>1, <1>2, <1>7, <1>8, RanksEnumerate
<1> QED
  BY <1>1, <1>9

\* A beginning of an enumeration.
Begins(t, e, l, n, S) == n \in Nat /\ l \in 0..n /\ (\A i \in 1..n : e[i] \in S) /\ t = SubSeq(e, 1, l)
LEMMA BeginningIs ==
  ASSUME NEW t, NEW e, NEW S, NEW n, NEW l, Begins(t, e, l, n, S)
  PROVE  IsList(t, l) /\ \A i \in 1..l : t[i] = e[i]
<1>1. n \in Nat /\ l \in 0..n /\ (\A i \in 1..n : e[i] \in S) /\ t = SubSeq(e, 1, l)
  BY DEF Begins
<1>2. /\ t \in Seq(S) /\ Len(t) = IF 1 <= l THEN l - 1 + 1 ELSE 0
      /\ \A i \in 1..l - 1 + 1 : t[i] = e[1 + i - 1]
  <2>1. l \in Int /\ \A i \in 1..l : e[i] \in S
    BY <1>1
  <2> QED
    BY <1>1, <2>1, SubSeqProperties
<1>3. Len(t) = l /\ l - 1 + 1 = l /\ \A i \in 1..l : 1 + i - 1 = i
  BY <1>1, <1>2
<1>4. \A i \in 1..l : t[i] = e[i]
  BY <1>2, <1>3
<1>5. IsList(t, l)
  BY <1>1, <1>2, <1>3 DEF IsList
<1> QED
  BY <1>4, <1>5

LEMMA AsManyGroups ==
  ASSUME NEW rows, NEW m, IsKeyList(rows, m), NEW J \in SUBSET (1..m), IsFiniteSet(J)
  PROVE  IsFiniteSet(RowsAt(rows, J)) /\ Cardinality(RowsAt(rows, J)) = Cardinality(J)
<1>1. PICK S, g : S = RowsAt(rows, J) /\ g = [j \in J |-> rows[j]]
  OBVIOUS
<1>2. g \in Surjection(J, S)
  BY <1>1 DEF RowsAt, Surjection
<1>3. \A i, j \in J : rows[i] = rows[j] => i = j
  BY KeyListDiffers
<1>4. g \in Injection(J, S)
  <2>1. g \in [J -> S] /\ \A i, j \in J : g[i] = g[j] => i = j
    BY <1>1, <1>3 DEF RowsAt
  <2> QED
    BY <2>1, Fun_IsInj
<1> QED
  BY <1>1, <1>2, <1>4, FS_Surjection

\* ORDER BY agg LIMIT k: the first of the survivors in the filter's order.
LEMMA InBestOrder ==
  ASSUME NEW rows, NEW m, IsKeyList(rows, m), NEW f, IsFilter(f), f.topk # 0
  PROVE  \E at, c : FilterIs(Ranked(Picked(rows, Survivors(rows, m, f)), f), rows, m, f, at, c)
<1>1. PICK J : J = Survivors(rows, m, f)
  OBVIOUS
<1>2. J \in SUBSET (1..m) /\ FiniteInts(J) /\ IsFiniteSet(J)
  BY <1>1, SurvivorsAre DEF FiniteInts
<1>3. PICK from, n : from = Rising(J) /\ n = Cardinality(J)
  OBVIOUS
<1>4. n \in Nat /\ (\A i \in 1..n : from[i] \in J) /\ \A x \in J : \E i \in 1..n : from[i] = x
  BY <1>2, <1>3, RisingAscends DEF FiniteInts, Ascends
<1>5. PICK some : some = Picked(rows, J)
  OBVIOUS
<1>6. IsPicked(some, rows, J)
  BY <1>2, <1>5, PickedIsList
<1>7. DOMAIN some = 1..n /\ Len(some) = n /\ \A i \in 1..n : some[i] = rows[from[i]]
  BY <1>3, <1>4, <1>6 DEF IsPicked, IsList
<1>8. PICK S : S = RowsAt(rows, J)
  OBVIOUS
<1>9. ToSet(some) = S
  <2>1. ToSet(some) = {some[i] : i \in 1..n}
    BY <1>7 DEF ToSet
  <2> QED
    BY <1>4, <1>7, <1>8, <2>1 DEF RowsAt
<1>10. IsFiniteSet(S) /\ Cardinality(S) = n
  BY <1>2, <1>3, <1>8, AsManyGroups
<1>11. PICK R, e : R = BetterOf(f, S) /\ e = ByBetter(f, S)
  OBVIOUS
<1>12. IsOrder(R, S)
  BY <1>2, <1>8, <1>11, BetterIsOrder
<1>13. Enumerates(e, R, S)
  BY <1>10, <1>11, <1>12, BetterEnumerates
<1>14. /\ \A i \in 1..n : e[i] \in S
       /\ \A x \in S : \E i \in 1..n : e[i] = x
       /\ \A i, j \in 1..n : i < j => <<e[i], e[j]>> \in R
  BY <1>10, <1>13 DEF Enumerates
<1>15. PICK c : c = Min({f.topk, n})
  OBVIOUS
<1>16. c \in 0..n
  <2>1. f.topk \in Nat
    BY DEF IsFilter
  <2> QED
    BY <1>4, <1>15, <2>1, MinOfTwo
<1>17. PICK out : out = SubSeq(e, 1, c)
  OBVIOUS
<1>18. IsList(out, c) /\ \A i \in 1..c : out[i] = e[i]
  <2>1. Begins(out, e, c, n, S)
    BY <1>4, <1>14, <1>16, <1>17 DEF Begins
  <2> QED
    BY <2>1, BeginningIs
<1>19. PICK at : at = [i \in 1..n |-> CHOOSE j \in J : rows[j] = e[i]]
  OBVIOUS
<1>20. \A i \in 1..n : at[i] \in J /\ rows[at[i]] = e[i]
  BY <1>8, <1>14, <1>19 DEF RowsAt
<1>21. \A i, j \in 1..n : i < j => Better(f, rows[at[i]], rows[at[j]])
  BY <1>11, <1>14, <1>20, BetterPairs
<1>22. \A i, j \in 1..n : i < j => at[i] # at[j]
  <2> SUFFICES ASSUME NEW i \in 1..n, NEW j \in 1..n, i < j PROVE at[i] # at[j]
    OBVIOUS
  <2>1. <<e[i], e[j]>> \in R /\ e[i] \in S
    BY <1>14
  <2>2. e[i] # e[j]
    BY <1>12, <2>1 DEF IsOrder
  <2> QED
    BY <1>20, <2>2
<1>23. 1..c \subseteq 1..n
  BY <1>4, <1>16
<1>24. ASSUME NEW g \in J, \A i \in 1..c : at[i] # g, NEW i \in 1..c PROVE Better(f, rows[at[i]], rows[g])
  <2>1. PICK k \in 1..n : e[k] = rows[g]
    BY <1>8, <1>14 DEF RowsAt
  <2>2. at[k] = g
    <3>1. at[k] \in 1..m /\ g \in 1..m /\ rows[at[k]] = rows[g]
      BY <1>2, <1>20, <2>1
    <3> QED
      BY ONLY <3>1, IsKeyList(rows, m), KeyListDiffers
  <2>3. k \notin 1..c
    BY <1>24, <2>2
  <2>4. i < k /\ i \in 1..n
    BY <1>4, <1>16, <2>3
  <2> QED
    BY <1>21, <2>2, <2>4
<1>25. Ranked(some, f) = out
  BY <1>7, <1>9, <1>11, <1>15, <1>17, RankedIs
<1>26. FilterIs(out, rows, m, f, at, c)
  <2>1. \A i \in 1..c : at[i] \in J /\ out[i] = rows[at[i]]
    BY <1>18, <1>20, <1>23
  <2>2. \A i, j \in 1..c : i < j => at[i] # at[j] /\ Better(f, rows[at[i]], rows[at[j]])
    BY <1>21, <1>22, <1>23
  <2>3. c = Min({f.topk, Cardinality(J)})
    BY <1>3, <1>15
  <2> QED
    BY <1>1, <1>18, <1>24, <2>1, <2>2, <2>3 DEF FilterIs
<1> QED
  BY <1>1, <1>5, <1>25, <1>26

LEMMA AnswerParts == \A rows, total : Answer(rows, total).rows = rows /\ Refused("cap").err = "cap"
BY DEF Answer, Refused
LEMMA CapRefuses == ASSUME NEW rows, NEW total, NEW cap, Fine(Capped(rows, total, cap)) PROVE Capped(rows, total, cap).rows = rows
<1>1. CASE Len(rows) > cap
  <2>1. Capped(rows, total, cap) = Refused("cap")
    BY <1>1 DEF Capped
  <2>2. Refused("cap").err = "cap"
    BY AnswerParts
  <2>3. "cap" = Refused("cap").err /\ ~Fine(Refused("cap"))
    BY <2>2 DEF Fine
  <2> QED
    BY <2>1, <2>3
<1>2. CASE ~(Len(rows) > cap)
  BY <1>2, AnswerParts DEF Capped
<1> QED
  BY <1>1, <1>2

LEMMA AllSurvive ==
  ASSUME NEW rows, NEW m, IsKeyList(rows, m), NEW f, ~Active(f)
  PROVE  \E at, c : FilterIs(rows, rows, m, f, at, c)
<1>1. m \in Nat /\ IsList(rows, m)
  BY DEF IsKeyList, IsList
<1>2. f.cmp = "None" /\ f.topk = 0
  BY DEF Active
<1>3. Survivors(rows, m, f) = 1..m
  BY <1>2 DEF Survivors, Keeps
<1>4. Cardinality(1..m) = m
  BY <1>1, FS_Interval
<1>5. PICK at : at = [i \in 1..m |-> i]
  OBVIOUS
<1>6. FilterIs(rows, rows, m, f, at, m)
  BY <1>1, <1>2, <1>3, <1>4, <1>5 DEF FilterIs
<1> QED
  BY <1>6

\* apply_group_filter_host.
LEMMA FilteredIs ==
  ASSUME NEW rows, NEW m, IsKeyList(rows, m), NEW f, IsFilter(f), NEW cap, Fine(Filtered(rows, f, cap))
  PROVE  \E at, c : FilterIs(Filtered(rows, f, cap).rows, rows, m, f, at, c)
<1>1. PICK J : J = Survivors(rows, m, f)
  OBVIOUS
<1>2. PICK out : out = IF Active(f) THEN Ranked(Picked(rows, J), f) ELSE rows
  OBVIOUS
<1>3. Filtered(rows, f, cap) = Capped(out, Len(rows), cap)
  <2>1. Selected(rows, LAMBDA r : Keeps(f, r)) = Picked(rows, J)
    BY <1>1, SurvivorsAre
  <2> QED
    BY <1>2, <2>1 DEF Filtered
<1>4. Filtered(rows, f, cap).rows = out
  BY <1>3, CapRefuses
<1>5. CASE ~Active(f)
  BY <1>2, <1>4, <1>5, AllSurvive
<1>6. CASE Active(f) /\ f.topk = 0
  <2>1. out = Picked(rows, J)
    BY <1>2, <1>6, RankedIs
  <2> QED
    BY <1>1, <1>4, <1>6, <2>1, InKeyOrder
<1>7. CASE Active(f) /\ f.topk # 0
  BY <1>1, <1>2, <1>4, <1>7, InBestOrder
<1> QED
  BY <1>5, <1>6, <1>7

\* ---- the groups of native SQL -------------------------------------------------------------
\* M has, for every set of rows, what native SQL shows of them over the column.
Natives(M, table, name, n) == \A S \in SUBSET (1..n) : M[S] \in Tuple /\ IsNative(M[S], table, S, name)
NativeGroup(table, K, columns, x) ==
    [keys |-> x, stars |-> Cardinality(OfKey(table, K, x)),
     pays |-> [p \in DOMAIN columns |-> NativeAggregate(table, OfKey(table, K, x), columns[p])]]
LEMMA NativeGroupsAre ==
  ASSUME NEW table, NEW where, NEW columns
  PROVE  NativeGroups(table, where, columns) =
           {NativeGroup(table, Kept(table, where), columns, x) : x \in KeysOf(table, Kept(table, where))}
BY DEF NativeGroups, NativeGroup, KeysOf, OfKey

LEMMA GroupRowIs ==
  ASSUME NEW key, NEW null, NEW t \in Tuple, NEW r, r = GroupRow(key, null, t)
  PROVE  /\ r.key = key /\ r.null = null /\ r.sum = t.sum /\ r.cnt = t.cnt /\ r.star = t.star
         /\ t.cnt # 0 => r.mn = t.mn /\ r.mx = t.mx
         /\ HasNumbers(r)
<1>1. t.sum \in Limbs /\ t.cnt \in Int /\ t.star \in Int /\ t.mn \in Int /\ t.mx \in Int
  BY TupleParts, WordsAreInts
<1>2. PICK d : d = Finished(t)
  OBVIOUS
<1>3. /\ d.sum = t.sum /\ d.cnt = t.cnt /\ d.star = t.star /\ d.mn \in Int /\ d.mx \in Int
      /\ t.cnt # 0 => d.mn = t.mn /\ d.mx = t.mx
  <2>1. t = [sum |-> t.sum, cnt |-> t.cnt, star |-> t.star, mn |-> t.mn, mx |-> t.mx]
    BY TupleParts
  <2>2. CASE t.cnt = 0
    BY <1>1, <1>2, <2>1, <2>2 DEF Finished
  <2>3. CASE t.cnt # 0
    BY <1>1, <1>2, <2>3 DEF Finished
  <2> QED
    BY <2>2, <2>3
<1>4. r = [key |-> key, null |-> null, sum |-> d.sum, cnt |-> d.cnt, star |-> d.star, mn |-> d.mn, mx |-> d.mx]
  BY <1>2 DEF GroupRow
<1> QED
  BY <1>1, <1>3, <1>4 DEF HasNumbers

\* The row of a key, and native's group of it.
IsKeyCell(x) == x \in Word \cup {NoCell}
LEMMA GroupOfIs ==
  ASSUME NEW M, NEW table, NEW name, NEW n, Natives(M, table, name, n), NEW K \in SUBSET (1..n), NEW x, IsKeyCell(x),
         NEW r, r = GroupOf(M, table, K, x), NEW t, t = M[OfKey(table, K, x)]
  PROVE  /\ t \in Tuple /\ IsNative(t, table, OfKey(table, K, x), name)
         /\ r.null = (x = NoCell) /\ (x # NoCell => r.key = x) /\ r.key \in Int /\ (x = NoCell => r.key = 0)
         /\ r.sum = t.sum /\ r.cnt = t.cnt /\ r.star = t.star
         /\ t.cnt # 0 => r.mn = t.mn /\ r.mx = t.mx
         /\ HasNumbers(r)
<1>1. OfKey(table, K, x) \in SUBSET (1..n)
  BY DEF OfKey
<1>2. t \in Tuple /\ IsNative(t, table, OfKey(table, K, x), name)
  BY <1>1 DEF Natives
<1>3. PICK key : key = IF x = NoCell THEN 0 ELSE x
  OBVIOUS
<1>4. key \in Int
  BY <1>3, WordsAreInts DEF IsKeyCell
<1>5. r = GroupRow(key, x = NoCell, t)
  BY <1>3 DEF GroupOf
<1> QED
  BY <1>2, <1>3, <1>4, <1>5, GroupRowIs

LEMMA KeyBeforeIs ==
  ASSUME NEW a, NEW b, NEW x, NEW y, IsKeyCell(x), IsKeyCell(y),
         a.null = (x = NoCell), x # NoCell => a.key = x, x = NoCell => a.key = 0,
         b.null = (y = NoCell), y # NoCell => b.key = y, y = NoCell => b.key = 0
  PROVE  KeyBefore(a, b) <=> KeyAscending(x, y)
<1>1. CASE x = NoCell /\ y = NoCell
  BY <1>1 DEF KeyBefore, KeyAscending
<1>2. CASE x = NoCell /\ y # NoCell
  BY <1>2 DEF KeyBefore, KeyAscending
<1>3. CASE x # NoCell /\ y = NoCell
  BY <1>3 DEF KeyBefore, KeyAscending
<1>4. CASE x # NoCell /\ y # NoCell
  BY <1>4 DEF KeyBefore, KeyAscending
<1> QED
  BY <1>1, <1>2, <1>3, <1>4

\* What a group's row and native's group have in common.
Pictures(r, g, p, t, table, S, name) ==
    /\ t \in Tuple /\ IsNative(t, table, S, name) /\ HasNumbers(r)
    /\ r.sum = t.sum /\ r.cnt = t.cnt /\ r.star = t.star /\ (t.cnt # 0 => r.mn = t.mn /\ r.mx = t.mx)
    /\ g.stars = Cardinality(S) /\ g.pays[p] = NativeAggregate(table, S, name)
LEMMA FilterValueIs ==
  ASSUME NEW f, IsFilter(f), NEW r, NEW g, NEW p, NEW t, NEW table, NEW S, NEW name, Pictures(r, g, p, t, table, S, name)
  PROVE  /\ FilterValue(g, f, p) = IF AggNull(f, r) THEN NoCell ELSE ValueOf(f, r)
         /\ ~AggNull(f, r) => FilterValue(g, f, p) \in Int /\ FilterValue(g, f, p) # NoCell
<1>1. PICK a : a = NativeAggregate(table, S, name)
  OBVIOUS
<1>2. /\ t.star = Cardinality(S) /\ t.cnt = a.counts
      /\ t.cnt = 0 => a.sums = NoCell /\ a.mins = NoCell /\ a.maxs = NoCell
      /\ t.cnt # 0 => a.sums = Number(t.sum) /\ a.mins = t.mn /\ a.maxs = t.mx
  BY <1>1 DEF Pictures, IsNative
<1>3. /\ r.sum = t.sum /\ r.cnt = t.cnt /\ r.star = t.star /\ (t.cnt # 0 => r.mn = t.mn /\ r.mx = t.mx)
      /\ g.stars = t.star /\ g.pays[p] = a /\ HasNumbers(r)
  BY <1>1, <1>2 DEF Pictures
<1>4. FilterValue(g, f, p) = IF AggNull(f, r) THEN NoCell ELSE ValueOf(f, r)
  <2>1. CASE f.agg = "Sum"
    BY <1>2, <1>3, <2>1 DEF FilterValue, AggNull, ValueOf
  <2>2. CASE f.agg = "Min"
    BY <1>2, <1>3, <2>2 DEF FilterValue, AggNull, ValueOf
  <2>3. CASE f.agg = "Max"
    BY <1>2, <1>3, <2>3 DEF FilterValue, AggNull, ValueOf
  <2>4. CASE f.agg = "CountV"
    BY <1>2, <1>3, <2>4 DEF FilterValue, AggNull, ValueOf
  <2>5. CASE f.agg = "CountStar"
    BY <1>2, <1>3, <2>5 DEF FilterValue, AggNull, ValueOf
  <2> QED
    BY <2>1, <2>2, <2>3, <2>4, <2>5 DEF IsFilter, HavingAggs
<1>5. ValueOf(f, r) \in Int
  BY <1>3, AggIs DEF IsFilter
<1> QED
  BY <1>4, <1>5, ValuesAssumption

LEMMA SurvivesIs ==
  ASSUME NEW f, IsFilter(f), NEW r, NEW g, NEW p, NEW t, NEW table, NEW S, NEW name, Pictures(r, g, p, t, table, S, name)
  PROVE  Survives(g, f, p) <=> Keeps(f, r)
<1>1. HasNumbers(r)
  BY DEF Pictures
<1>2. PICK x : x = FilterValue(g, f, p)
  OBVIOUS
<1>3. x = (IF AggNull(f, r) THEN NoCell ELSE ValueOf(f, r)) /\ (~AggNull(f, r) => x # NoCell)
  BY <1>2, FilterValueIs
<1>4. Survives(g, f, p) <=> f.cmp = "None" \/ (x # NoCell /\ Compare(f.cmp, x, f.threshold))
  BY <1>2 DEF Survives
<1>5. Keeps(f, r) <=> f.cmp = "None" \/ (~AggNull(f, r) /\ Compare(f.cmp, ValueOf(f, r), f.threshold))
  BY <1>1, KeepsIs
<1>6. CASE AggNull(f, r)
  BY <1>3, <1>4, <1>5, <1>6
<1>7. CASE ~AggNull(f, r)
  BY <1>3, <1>4, <1>5, <1>7
<1> QED
  BY <1>6, <1>7

\* A group that ranks before another is not behind it for native.
LEMMA BetterIsAhead ==
  ASSUME NEW f, IsFilter(f), NEW p, NEW table, NEW name,
         NEW a, NEW g, NEW t, NEW S, Pictures(a, g, p, t, table, S, name),
         NEW b, NEW h, NEW u, NEW T, Pictures(b, h, p, u, table, T, name), Better(f, a, b)
  PROVE  ~Ahead(h, g, f, p)
<1>1. HasNumbers(a) /\ HasNumbers(b)
  BY DEF Pictures
<1>2. PICK x, y : x = FilterValue(g, f, p) /\ y = FilterValue(h, f, p)
  OBVIOUS
<1>3. x = (IF AggNull(f, a) THEN NoCell ELSE ValueOf(f, a)) /\ (~AggNull(f, a) => x # NoCell /\ x \in Int)
  BY <1>2, FilterValueIs
<1>4. y = (IF AggNull(f, b) THEN NoCell ELSE ValueOf(f, b)) /\ (~AggNull(f, b) => y # NoCell /\ y \in Int)
  BY <1>2, FilterValueIs
<1>5. Ahead(h, g, f, p) <=> y # NoCell /\ (x = NoCell \/ IF f.desc THEN y > x ELSE y < x)
  BY <1>2 DEF Ahead
<1>6. IF AggNull(f, a) # AggNull(f, b) THEN AggNull(f, b)
      ELSE IF AggNull(f, a) \/ ValueOf(f, a) = ValueOf(f, b) THEN KeyBefore(a, b)
      ELSE IF f.desc THEN ValueOf(f, a) > ValueOf(f, b) ELSE ValueOf(f, a) < ValueOf(f, b)
  BY <1>1, BetterIs
<1>7. AggNull(f, a) \in BOOLEAN /\ AggNull(f, b) \in BOOLEAN
  BY DEF AggNull
<1>8. CASE AggNull(f, b)
  BY <1>4, <1>5, <1>8
<1>9. CASE ~AggNull(f, b)
  <2>1. ~AggNull(f, a)
    BY <1>6, <1>7, <1>9
  <2>2. x = ValueOf(f, a) /\ y = ValueOf(f, b) /\ x \in Int /\ y \in Int /\ x # NoCell
    BY <1>3, <1>4, <1>9, <2>1
  <2>3. x = y \/ IF f.desc THEN x > y ELSE x < y
    BY <1>6, <1>9, <2>1, <2>2
  <2> QED
    BY <1>5, <2>2, <2>3
<1> QED
  BY <1>8, <1>9

\* M has native's aggregates of payload p over a table whose keys are words or NULL.
GroupsOver(table, K, M, n, columns, p) ==
    /\ n \in Nat /\ DOMAIN table = 1..n /\ K \in SUBSET (1..n)
    /\ p \in DOMAIN columns /\ Natives(M, table, columns[p], n)
    /\ \A i \in 1..n : IsKeyCell(table[i].k)
LEMMA RowPictures ==
  ASSUME NEW table, NEW K, NEW M, NEW n, NEW columns, NEW p, GroupsOver(table, K, M, n, columns, p),
         NEW x \in KeysOf(table, K), NEW r, r = GroupOf(M, table, K, x)
  PROVE  /\ Pictures(r, NativeGroup(table, K, columns, x), p, M[OfKey(table, K, x)], table, OfKey(table, K, x), columns[p])
         /\ r.null = (x = NoCell) /\ (x # NoCell => r.key = x) /\ (x = NoCell => r.key = 0) /\ IsKeyCell(x)
         /\ HasNumbers(r)
<1>1. IsKeyCell(x)
  BY DEF GroupsOver, KeysOf
<1>2. Natives(M, table, columns[p], n) /\ K \in SUBSET (1..n) /\ p \in DOMAIN columns
  BY DEF GroupsOver
<1>3. PICK t, S, name : t = M[OfKey(table, K, x)] /\ S = OfKey(table, K, x) /\ name = columns[p]
  OBVIOUS
<1>4. /\ t \in Tuple /\ IsNative(t, table, S, name)
      /\ r.null = (x = NoCell) /\ (x # NoCell => r.key = x) /\ (x = NoCell => r.key = 0)
      /\ r.sum = t.sum /\ r.cnt = t.cnt /\ r.star = t.star
      /\ t.cnt # 0 => r.mn = t.mn /\ r.mx = t.mx
      /\ HasNumbers(r)
  BY <1>1, <1>2, <1>3, GroupOfIs
<1>5. PICK g : g = NativeGroup(table, K, columns, x)
  OBVIOUS
<1>6. g.stars = Cardinality(S) /\ g.pays[p] = NativeAggregate(table, S, name)
  BY <1>2, <1>3, <1>5 DEF NativeGroup
<1>7. Pictures(r, g, p, t, table, S, name)
  BY <1>4, <1>6 DEF Pictures
<1> QED
  BY <1>1, <1>3, <1>4, <1>5, <1>7

\* A list of the groups, and the key of each.
KeyedList(rows, keys, m, table, K, M) == ListsGroups(rows, keys, m, table, K, M, KeysOf(table, K)) /\ IsList(rows, m)
LEMMA KeyedAre ==
  ASSUME NEW rows, NEW keys, NEW m, NEW table, NEW K, NEW M, KeyedList(rows, keys, m, table, K, M)
  PROVE  /\ m \in Nat /\ IsList(rows, m)
         /\ \A j \in 1..m : keys[j] \in KeysOf(table, K) /\ rows[j] = GroupOf(M, table, K, keys[j])
         /\ \A x \in KeysOf(table, K) : \E j \in 1..m : keys[j] = x
         /\ \A i, j \in 1..m : i < j => KeyAscending(keys[i], keys[j])
BY DEF KeyedList, ListsGroups

LEMMA AscendingIsStrict ==
  ASSUME NEW x, NEW y, IsKeyCell(x), IsKeyCell(y)
  PROVE  /\ KeyAscending(x, y) => x # y /\ ~KeyAscending(y, x)
         /\ ~KeyAscending(x, x)
<1>1. (x # NoCell => x \in Int) /\ (y # NoCell => y \in Int)
  BY WordsAreInts DEF IsKeyCell
<1>2. ~KeyAscending(x, x)
  BY <1>1 DEF KeyAscending
<1>3. CASE x = NoCell \/ y = NoCell
  BY <1>2, <1>3 DEF KeyAscending
<1>4. CASE x # NoCell /\ y # NoCell
  BY <1>1, <1>2, <1>4 DEF KeyAscending
<1> QED
  BY <1>2, <1>3, <1>4

LEMMA KeyListIs ==
  ASSUME NEW table, NEW K, NEW M, NEW n, NEW columns, NEW p, GroupsOver(table, K, M, n, columns, p),
         NEW rows, NEW keys, NEW m, KeyedList(rows, keys, m, table, K, M)
  PROVE  IsKeyList(rows, m) /\ \A i, j \in 1..m : keys[i] = keys[j] => i = j
<1>1. /\ m \in Nat /\ IsList(rows, m)
      /\ \A j \in 1..m : keys[j] \in KeysOf(table, K) /\ rows[j] = GroupOf(M, table, K, keys[j])
      /\ \A i, j \in 1..m : i < j => KeyAscending(keys[i], keys[j])
  BY KeyedAre
<1>2. ASSUME NEW j \in 1..m
      PROVE  /\ HasNumbers(rows[j]) /\ rows[j].null = (keys[j] = NoCell) /\ (keys[j] # NoCell => rows[j].key = keys[j])
             /\ (keys[j] = NoCell => rows[j].key = 0) /\ IsKeyCell(keys[j])
  <2>1. PICK x, r : x = keys[j] /\ r = rows[j]
    OBVIOUS
  <2>2. x \in KeysOf(table, K) /\ r = GroupOf(M, table, K, x)
    BY <1>1, <2>1
  <2> QED
    BY <2>1, <2>2, RowPictures
<1>3. ASSUME NEW i \in 1..m, NEW j \in 1..m
      PROVE  (KeyBefore(rows[i], rows[j]) <=> i < j) /\ (keys[i] = keys[j] => i = j)
  <2>1. PICK x, y, a, b : x = keys[i] /\ y = keys[j] /\ a = rows[i] /\ b = rows[j]
    OBVIOUS
  <2>2. /\ IsKeyCell(x) /\ a.null = (x = NoCell) /\ (x # NoCell => a.key = x) /\ (x = NoCell => a.key = 0)
        /\ IsKeyCell(y) /\ b.null = (y = NoCell) /\ (y # NoCell => b.key = y) /\ (y = NoCell => b.key = 0)
    BY <1>2, <2>1
  <2>3. KeyBefore(a, b) <=> KeyAscending(x, y)
    BY <2>2, KeyBeforeIs
  <2>4. CASE i < j
    BY <1>1, <2>1, <2>2, <2>3, <2>4, AscendingIsStrict
  <2>5. CASE j < i
    <3>1. KeyAscending(y, x)
      BY <1>1, <2>1, <2>5
    <3>2. ~KeyAscending(x, y) /\ x # y
      BY <2>2, <3>1, AscendingIsStrict
    <3> QED
      BY <1>1, <2>1, <2>3, <2>5, <3>2
  <2>6. CASE i = j
    <3>1. x = y
      BY <2>1, <2>6
    <3>2. ~KeyAscending(x, y)
      BY <2>2, <3>1, AscendingIsStrict
    <3> QED
      BY <1>1, <2>1, <2>3, <2>6, <3>2
  <2> QED
    BY <1>1, <2>4, <2>5, <2>6
<1> QED
  BY <1>1, <1>2, <1>3 DEF IsKeyList

\* Native's groups that survive, one for each row that is kept.
NativesAt(table, K, columns, keys, J) == {NativeGroup(table, K, columns, keys[j]) : j \in J}
NoTwice(keys, J) == IsFiniteSet(J) /\ \A i, j \in J : keys[i] = keys[j] => i = j
LEMMA NativesAreAsMany ==
  ASSUME NEW table, NEW K, NEW columns, NEW keys, NEW J, NoTwice(keys, J)
  PROVE  IsFiniteSet(NativesAt(table, K, columns, keys, J)) /\ Cardinality(NativesAt(table, K, columns, keys, J)) = Cardinality(J)
<1> IsFiniteSet(J) /\ \A i, j \in J : keys[i] = keys[j] => i = j
  BY DEF NoTwice
<1>1. PICK T, g : T = NativesAt(table, K, columns, keys, J) /\ g = [j \in J |-> NativeGroup(table, K, columns, keys[j])]
  OBVIOUS
<1>2. g \in Surjection(J, T)
  BY <1>1 DEF NativesAt, Surjection
<1>3. \A j \in J : g[j].keys = keys[j]
  BY <1>1 DEF NativeGroup
<1>4. g \in Injection(J, T)
  <2>1. g \in [J -> T]
    BY <1>1 DEF NativesAt
  <2>2. \A i, j \in J : g[i] = g[j] => i = j
    BY <1>3
  <2> QED
    BY <2>1, <2>2, Fun_IsInj
<1> QED
  BY <1>1, <1>2, <1>4, FS_Surjection

\* A list of groups through the filter f, and the answer in native's groups.
Chosen(table, K, M, n, columns, p, rows, keys, m, f, out, at, c) ==
    /\ GroupsOver(table, K, M, n, columns, p) /\ KeyedList(rows, keys, m, table, K, M)
    /\ IsFilter(f) /\ FilterIs(out, rows, m, f, at, c)
NativeAnswer(table, K, columns, keys, at, c) == [i \in 1..c |-> NativeGroup(table, K, columns, keys[at[i]])]

LEMMA ChosenGroup ==
  ASSUME NEW table, NEW K, NEW M, NEW n, NEW columns, NEW p, GroupsOver(table, K, M, n, columns, p),
         NEW rows, NEW keys, NEW m, KeyedList(rows, keys, m, table, K, M), NEW f, IsFilter(f)
  PROVE  /\ \A j \in 1..m : LET g == NativeGroup(table, K, columns, keys[j])
                            IN  /\ g.keys = keys[j]
                                /\ Survives(g, f, p) <=> Keeps(f, rows[j])
         /\ \A i, j \in 1..m : Better(f, rows[i], rows[j]) =>
                ~Ahead(NativeGroup(table, K, columns, keys[j]), NativeGroup(table, K, columns, keys[i]), f, p)
<1>1. \A j \in 1..m : keys[j] \in KeysOf(table, K) /\ rows[j] = GroupOf(M, table, K, keys[j])
  BY KeyedAre
<1>2. ASSUME NEW j \in 1..m
      PROVE  Pictures(rows[j], NativeGroup(table, K, columns, keys[j]), p, M[OfKey(table, K, keys[j])], table,
                      OfKey(table, K, keys[j]), columns[p])
  <2>1. PICK x, r : x = keys[j] /\ r = rows[j]
    OBVIOUS
  <2>2. x \in KeysOf(table, K) /\ r = GroupOf(M, table, K, x)
    BY <1>1, <2>1
  <2> QED
    BY <2>1, <2>2, RowPictures
<1>3. ASSUME NEW j \in 1..m
      PROVE  /\ NativeGroup(table, K, columns, keys[j]).keys = keys[j]
             /\ Survives(NativeGroup(table, K, columns, keys[j]), f, p) <=> Keeps(f, rows[j])
  <2>1. NativeGroup(table, K, columns, keys[j]).keys = keys[j]
    BY DEF NativeGroup
  <2> QED
    BY <1>2, <2>1, SurvivesIs
<1>4. ASSUME NEW i \in 1..m, NEW j \in 1..m, Better(f, rows[i], rows[j])
      PROVE  ~Ahead(NativeGroup(table, K, columns, keys[j]), NativeGroup(table, K, columns, keys[i]), f, p)
  BY <1>2, <1>4, BetterIsAhead
<1> QED
  BY <1>3, <1>4

\* What the filter of the operators lets out is an answer native may give.
LEMMA ChosenIsAnswer ==
  ASSUME NEW table, NEW where, NEW K, K = Kept(table, where), NEW M, NEW n, NEW columns, NEW p,
         NEW rows, NEW keys, NEW m, NEW f, NEW out, NEW at, NEW c,
         Chosen(table, K, M, n, columns, p, rows, keys, m, f, out, at, c)
  PROVE  IsAnswer(NativeAnswer(table, K, columns, keys, at, c), NativeGroups(table, where, columns), f, p)
<1>1. GroupsOver(table, K, M, n, columns, p) /\ KeyedList(rows, keys, m, table, K, M) /\ IsFilter(f)
  BY DEF Chosen
<1>2. PICK J, gs, ans : /\ J = Survivors(rows, m, f) /\ gs = NativeGroups(table, where, columns)
                        /\ ans = NativeAnswer(table, K, columns, keys, at, c)
  OBVIOUS
<1>3. IsKeyList(rows, m) /\ \A i, j \in 1..m : keys[i] = keys[j] => i = j
  BY <1>1, KeyListIs
<1>4. J \in SUBSET (1..m) /\ IsFiniteSet(J) /\ m \in Nat
  BY <1>2, <1>3, SurvivorsAre DEF FiniteInts
<1>5. PICK N : N = [j \in 1..m |-> NativeGroup(table, K, columns, keys[j])]
  OBVIOUS
<1>6. /\ \A j \in 1..m : N[j].keys = keys[j] /\ (Survives(N[j], f, p) <=> Keeps(f, rows[j]))
      /\ \A i, j \in 1..m : Better(f, rows[i], rows[j]) => ~Ahead(N[j], N[i], f, p)
  BY <1>1, <1>5, ChosenGroup
<1>7. gs = {N[j] : j \in 1..m}
  <2>1. gs = {NativeGroup(table, K, columns, x) : x \in KeysOf(table, K)}
    BY <1>2, NativeGroupsAre
  <2>2. (\A j \in 1..m : keys[j] \in KeysOf(table, K)) /\ \A x \in KeysOf(table, K) : \E j \in 1..m : keys[j] = x
    BY <1>1, KeyedAre
  <2> QED
    BY <1>5, <2>1, <2>2
<1>8. PICK kept : kept = {g \in gs : Survives(g, f, p)}
  OBVIOUS
<1>9. kept = {N[j] : j \in J}
  BY <1>2, <1>4, <1>6, <1>7, <1>8 DEF Survivors
<1>10. Cardinality(kept) = Cardinality(J)
  <2>1. kept = NativesAt(table, K, columns, keys, J)
    BY <1>4, <1>5, <1>9 DEF NativesAt
  <2>2. \A i, j \in J : keys[i] = keys[j] => i = j
    BY <1>3, <1>4
  <2>3. Cardinality(NativesAt(table, K, columns, keys, J)) = Cardinality(J)
    <3>1. NoTwice(keys, J)
      BY <1>4, <2>2 DEF NoTwice
    <3> QED
      BY ONLY <3>1, NativesAreAsMany
  <2> QED
    BY ONLY <2>1, <2>3
<1>11. /\ c \in Nat
       /\ c = IF f.topk = 0 THEN Cardinality(J) ELSE Min({f.topk, Cardinality(J)})
       /\ \A i \in 1..c : at[i] \in J
       /\ \A i, j \in 1..c : i < j => at[i] # at[j]
       /\ f.topk = 0 => \A i, j \in 1..c : i < j => at[i] < at[j]
       /\ f.topk # 0 => \A i, j \in 1..c : i < j => Better(f, rows[at[i]], rows[at[j]])
       /\ \A g \in J : (\A i \in 1..c : at[i] # g) => f.topk # 0 /\ \A i \in 1..c : Better(f, rows[at[i]], rows[g])
  BY <1>2 DEF Chosen, FilterIs, IsList
<1>12. Len(ans) = c /\ DOMAIN ans = 1..c /\ \A i \in 1..c : ans[i] = N[at[i]]
  <2>1. ans = [i \in 1..c |-> NativeGroup(table, K, columns, keys[at[i]])]
    BY <1>2 DEF NativeAnswer
  <2>2. \A i \in 1..c : NativeGroup(table, K, columns, keys[at[i]]) = N[at[i]]
    BY <1>4, <1>5, <1>11
  <2>3. ans = [i \in 1..c |-> N[at[i]]] /\ c \in Nat
    BY ONLY <1>11, <2>1, <2>2
  <2> QED
    BY ONLY <2>3
<1>13. ToSet(ans) = {N[at[i]] : i \in 1..c}
  BY <1>12 DEF ToSet
<1>14. Len(ans) = IF f.topk = 0 THEN Cardinality(kept) ELSE Min({f.topk, Cardinality(kept)})
  BY <1>10, <1>11, <1>12
<1>15. ToSet(ans) \subseteq kept
  BY <1>9, <1>11, <1>13
<1>16. ASSUME NEW i \in DOMAIN ans, NEW j \in DOMAIN ans, i < j
       PROVE  /\ ans[i] # ans[j]
              /\ IF f.topk = 0 THEN KeyAscending(ans[i].keys, ans[j].keys) ELSE ~Ahead(ans[j], ans[i], f, p)
  <2>1. PICK a, b : a = at[i] /\ b = at[j]
    OBVIOUS
  <2>2. a \in 1..m /\ b \in 1..m /\ a # b /\ ans[i] = N[a] /\ ans[j] = N[b]
    BY <1>4, <1>11, <1>12, <1>16, <2>1
  <2>3. ans[i] # ans[j]
    BY <1>3, <1>6, <2>2
  <2>4. CASE f.topk = 0
    <3>1. a < b
      BY <1>11, <1>12, <1>16, <2>1, <2>4
    <3>2. KeyAscending(keys[a], keys[b])
      BY <1>1, <2>2, <3>1, KeyedAre
    <3> QED
      BY <1>6, <2>2, <2>3, <2>4, <3>2
  <2>5. CASE f.topk # 0
    <3>1. Better(f, rows[a], rows[b])
      BY <1>11, <1>12, <1>16, <2>1, <2>5
    <3> QED
      BY <1>6, <2>2, <2>3, <2>5, <3>1
  <2> QED
    BY <2>4, <2>5
<1>17. ASSUME NEW g \in kept \ ToSet(ans), NEW i \in DOMAIN ans PROVE ~Ahead(g, ans[i], f, p)
  <2>1. PICK j \in J : g = N[j]
    BY <1>9
  <2>2. \A k \in 1..c : at[k] # j
    BY <1>13, <2>1
  <2>3. i \in 1..c /\ Better(f, rows[at[i]], rows[j])
    BY <1>11, <1>12, <2>2
  <2>4. at[i] \in 1..m /\ j \in 1..m
    BY <1>4, <1>11, <2>3
  <2> QED
    BY <1>6, <1>12, <2>1, <2>3, <2>4
<1> HIDE DEF Survivors
<1>18. IsAnswer(ans, gs, f, p)
  BY <1>8, <1>14, <1>15, <1>16, <1>17 DEF IsAnswer
<1> QED
  BY <1>2, <1>18

\* out lists native's groups of the rows K that the filter f lets through.
IsGrouped(out, table, K, n, columns, p, f) ==
    \E M, rows, keys, m, at, c : Chosen(table, K, M, n, columns, p, rows, keys, m, f, out, at, c)
\* A GROUP BY over n rows of a table, K of them kept, whose lane v reads column p.
GroupingOver(v, table, K, n, columns, p, f) ==
    /\ n \in Nat /\ n <= W /\ DOMAIN table = 1..n /\ K \in SUBSET (1..n)
    /\ p \in DOMAIN columns /\ Reads(v, table, columns[p], n) /\ IsFilter(f)
    /\ \A i \in 1..n : IsKeyCell(table[i].k)

LEMMA LaneGroups ==
  ASSUME NEW v, NEW table, NEW K, NEW n, NEW columns, NEW p, NEW f, GroupingOver(v, table, K, n, columns, p, f)
  PROVE  \E M : Aggregates(M, v, n) /\ GroupsOver(table, K, M, n, columns, p)
<1>1. PICK M : Aggregates(M, v, n) /\ \A S \in SUBSET (1..n) : M[S] \in Tuple /\ IsNative(M[S], table, S, columns[p])
  BY LaneAggregates DEF GroupingOver
<1>2. GroupsOver(table, K, M, n, columns, p)
  BY <1>1 DEF GroupsOver, GroupingOver, Natives
<1> QED
  BY <1>1, <1>2

\* The groups, through apply_group_filter_host.
LEMMA FilteredGroups ==
  ASSUME NEW table, NEW K, NEW M, NEW n, NEW columns, NEW p, GroupsOver(table, K, M, n, columns, p),
         NEW rows, HasGroups(rows, table, K, M, KeysOf(table, K)), NEW f, IsFilter(f),
         NEW cap, NEW r, r = Filtered(rows, f, cap), Fine(r)
  PROVE  IsGrouped(r.rows, table, K, n, columns, p, f)
<1>1. PICK keys, m : KeyedList(rows, keys, m, table, K, M)
  BY DEF HasGroups, KeyedList
<1>2. IsKeyList(rows, m)
  BY <1>1, KeyListIs
<1>3. PICK at, c : FilterIs(r.rows, rows, m, f, at, c)
  BY <1>2, FilteredIs
<1>4. Chosen(table, K, M, n, columns, p, rows, keys, m, f, r.rows, at, c)
  BY <1>1, <1>3 DEF Chosen
<1> QED
  BY <1>4 DEF IsGrouped

\* No rows, no groups.
LEMMA NoGroups ==
  ASSUME NEW v, NEW table, NEW K, NEW columns, NEW p, NEW f, GroupingOver(v, table, K, 0, columns, p, f)
  PROVE  IsGrouped(<<>>, table, K, 0, columns, p, f)
<1>1. PICK M : GroupsOver(table, K, M, 0, columns, p)
  BY LaneGroups
<1>2. K = {} /\ IsFilter(f) /\ f.topk \in Nat
  BY NoRows DEF GroupingOver, IsFilter
<1>3. KeysOf(table, K) = {}
  BY <1>2 DEF KeysOf
<1>4. IsList(<<>>, 0)
  BY DEF IsList
<1>5. PICK e : e = <<>>
  OBVIOUS
<1>6. DOMAIN e = 1..0 /\ 1..0 = {}
  BY <1>5
<1>7. KeyedList(e, e, 0, table, K, M)
  BY <1>3, <1>4, <1>5, <1>6 DEF KeyedList, ListsGroups
<1>8. PICK J : J = Survivors(e, 0, f)
  OBVIOUS
<1>9. J = {} /\ Cardinality(J) = 0
  BY <1>6, <1>8, FS_EmptySet DEF Survivors
<1>10. 0 = IF f.topk = 0 THEN Cardinality(J) ELSE Min({f.topk, Cardinality(J)})
  <2>1. f.topk \in Int /\ f.topk >= 0
    BY <1>2
  <2>2. Min({f.topk, 0}) = 0
    BY <2>1, ExtremeIs
  <2> QED
    BY <1>9, <2>2
<1>11. FilterIs(e, e, 0, f, e, 0)
  BY <1>4, <1>5, <1>6, <1>8, <1>9, <1>10 DEF FilterIs
<1>12. Chosen(table, K, M, 0, columns, p, e, e, 0, f, e, e, 0)
  BY <1>1, <1>2, <1>7, <1>11 DEF Chosen
<1> QED
  BY <1>5, <1>12 DEF IsGrouped

\* ---- the CPU's GROUP BY ------------------------------------------------------------------
HostRows(preds, n) == Selected(Rows(n), LAMBDA i : InMask(preds, i))
LEMMA HostKept ==
  ASSUME NEW preds, NEW n \in Nat, NEW K \in SUBSET (1..n), MaskIs(preds, K, n)
  PROVE  HostRows(preds, n) = KeptOf(K, n) /\ Listed(HostRows(preds, n), Cardinality(K), K, n)
<1>1. DOMAIN Rows(n) = 1..n /\ \A j \in 1..n : Rows(n)[j] = j
  BY DEF Rows
<1>2. {j \in DOMAIN Rows(n) : InMask(preds, Rows(n)[j])} = K
  <2> SUFFICES ASSUME NEW j \in 1..n PROVE InMask(preds, Rows(n)[j]) <=> j \in K
    BY <1>1
  <2> QED
    BY <1>1 DEF MaskIs
<1>3. HostRows(preds, n) = KeptOf(K, n)
  BY <1>2 DEF Selected, KeptOf, HostRows
<1>4. IsSelection(KeptOf(K, n), Cardinality(K), n) /\ Met(KeptOf(K, n), Cardinality(K)) = K
  BY KeptOfIs
<1> QED
  BY <1>3, <1>4 DEF Listed

LEMMA NoAnswer == Answer(<<>>, 0).rows = <<>>
BY Zenon DEF Answer
LEMMA ExactGroupsIs ==
  ASSUME NEW k, NEW v, NEW preds, NEW f, NEW cap, NEW r, r = ExactGroups(k, v, preds, f, cap), Fine(r),
         NEW n, n = LaneRows(k)
  PROVE  r = IF n = 0 THEN Answer(<<>>, 0) ELSE Filtered(Grouped(k, v, HostRows(preds, n)), f, cap)
BY Zenon DEF ExactGroups, Fine, HostRows, Refused

\* The CPU's GROUP BY gives native's groups over the rows the mask keeps, one for each
\* key there is and one for NULL, ascending with NULL last, and lets those through
\* HAVING and top-k choose.
THEOREM HostGroupsAreNative ==
  ASSUME NEW k, NEW v, NEW table, NEW K, NEW n, NEW columns, NEW p, NEW f, GroupingOver(v, table, K, n, columns, p, f),
         Reads(k, table, "k", n), LaneRows(k) = n, NEW preds, MaskIs(preds, K, n),
         NEW cap, Fine(ExactGroups(k, v, preds, f, cap))
  PROVE  IsGrouped(ExactGroups(k, v, preds, f, cap).rows, table, K, n, columns, p, f)
<1>1. PICK r : r = ExactGroups(k, v, preds, f, cap)
  OBVIOUS
<1>2. r = IF n = 0 THEN Answer(<<>>, 0) ELSE Filtered(Grouped(k, v, HostRows(preds, n)), f, cap)
  BY <1>1, ExactGroupsIs
<1>3. CASE n = 0
  <2>1. r.rows = <<>>
    BY <1>2, <1>3, NoAnswer
  <2>2. IsGrouped(<<>>, table, K, n, columns, p, f)
    BY <1>3, NoGroups
  <2> QED
    BY <1>1, <2>1, <2>2
<1>4. CASE n # 0
  <2>1. n \in Nat /\ K \in SUBSET (1..n) /\ IsFilter(f)
    BY DEF GroupingOver
  <2>2. PICK M : Aggregates(M, v, n) /\ GroupsOver(table, K, M, n, columns, p)
    BY LaneGroups
  <2>3. PICK kept : kept = HostRows(preds, n)
    OBVIOUS
  <2>4. Listed(kept, Cardinality(K), K, n)
    BY <2>1, <2>3, HostKept
  <2>5. HasGroups(Grouped(k, v, kept), table, K, M, KeysOf(table, K))
    BY <2>1, <2>2, <2>4, GroupedIsList
  <2>6. r = Filtered(Grouped(k, v, kept), f, cap) /\ Fine(r)
    BY <1>1, <1>2, <1>4, <2>3
  <2>7. IsGrouped(r.rows, table, K, n, columns, p, f)
    BY <2>1, <2>2, <2>5, <2>6, FilteredGroups
  <2> QED
    BY <1>1, <2>7
<1> QED
  BY <1>3, <1>4

\* ---- the device's GROUP BY ---------------------------------------------------------------
LEMMA DeviceGroupsIs ==
  ASSUME NEW k, NEW v, v # NoLane, NEW preds, NEW f, NEW cap, NEW r, r = DeviceGroups(k, v, preds, f, cap), Fine(r),
         NEW n, n = Len(k.col.data)
  PROVE  r = IF n = 0 THEN Answer(<<>>, 0)
             ELSE Filtered(Reduce(k.col, Read(v.col), Mask(preds, n), ExactCache(k.col), preds # <<>>), f, cap)
BY Zenon DEF DeviceGroups, Fine, Refused

LEMMA NoPredsKeepAll ==
  ASSUME NEW preds, NEW n \in Nat, NEW K \in SUBSET (1..n), DeviceMaskIs(preds, K, n), preds = <<>>
  PROVE  K = 1..n
<1> DEFINE wide == [q \in DOMAIN preds |-> [preds[q] EXCEPT !.lane = Read(@.col)]]
<1>1. DOMAIN wide = {}
  OBVIOUS
<1>2. Mask(preds, n) = [i \in 1..n |-> InMask(wide, i)]
  BY DEF Mask
<1> HIDE DEF wide
<1>3. \A i \in 1..n : InMask(wide, i)
  BY <1>1 DEF InMask
<1>4. \A i \in 1..n : Mask(preds, n)[i]
  BY <1>2, <1>3
<1> QED
  BY <1>4 DEF DeviceMaskIs

\* The device's GROUP BY, over a sorted order of the keys or an accumulator per key and
\* replica, reducing in an order nobody chose, gives native's groups as the CPU's does.
THEOREM DeviceGroupsAreNative ==
  ASSUME NEW k, NEW v, NEW table, NEW K, NEW n, NEW columns, NEW p, NEW f,
         GroupingOver(Read(v.col), table, K, n, columns, p, f), v # NoLane,
         KeyColumn(k.col, table, n), NEW preds, DeviceMaskIs(preds, K, n),
         NEW cap, Fine(DeviceGroups(k, v, preds, f, cap))
  PROVE  IsGrouped(DeviceGroups(k, v, preds, f, cap).rows, table, K, n, columns, p, f)
<1>1. PICK r : r = DeviceGroups(k, v, preds, f, cap)
  OBVIOUS
<1>2. PICK col, pay, mask, masked : /\ col = k.col /\ pay = Read(v.col)
                                    /\ mask = Mask(preds, n) /\ masked = (preds # <<>>)
  OBVIOUS
<1>3. Len(col.data) = n
  BY <1>2 DEF KeyColumn
<1>4. r = IF n = 0 THEN Answer(<<>>, 0) ELSE Filtered(Reduce(col, pay, mask, ExactCache(col), masked), f, cap)
  <2>1. r = IF n = 0 THEN Answer(<<>>, 0)
            ELSE Filtered(Reduce(k.col, Read(v.col), Mask(preds, n), ExactCache(k.col), preds # <<>>), f, cap)
    <3>1. n = Len(k.col.data)
      BY <1>2, <1>3
    <3> QED
      BY ONLY <1>1, <3>1, v # NoLane, Fine(DeviceGroups(k, v, preds, f, cap)), DeviceGroupsIs
  <2> QED
    BY ONLY <1>2, <2>1
<1>5. CASE n = 0
  <2>1. r.rows = <<>>
    BY <1>4, <1>5, NoAnswer
  <2>2. IsGrouped(<<>>, table, K, n, columns, p, f)
    BY <1>5, NoGroups
  <2> QED
    BY <1>1, <2>1, <2>2
<1>6. CASE n # 0
  <2>1. n \in Nat /\ K \in SUBSET (1..n) /\ IsFilter(f)
    BY DEF GroupingOver
  <2>2. PICK M : Aggregates(M, pay, n) /\ GroupsOver(table, K, M, n, columns, p)
    BY <1>2, LaneGroups
  <2>3. KeyedBy(col, table, n, pay, M, K, mask)
    BY <1>2, <2>1, <2>2 DEF KeyedBy, DeviceMaskIs
  <2>4. masked \in BOOLEAN
    BY <1>2
  <2>5. ~masked => K = 1..n
    BY <1>2, <2>1, NoPredsKeepAll
  <2>6. PICK cache : cache = ExactCache(col)
    OBVIOUS
  <2>7. HasGroups(Reduce(col, pay, mask, cache, masked), table, K, M, KeysOf(table, K))
    BY <2>3, <2>4, <2>5, <2>6, ReduceLists
  <2>8. r = Filtered(Reduce(col, pay, mask, cache, masked), f, cap) /\ Fine(r)
    BY <1>1, <1>4, <1>6, <2>6
  <2>9. IsGrouped(r.rows, table, K, n, columns, p, f)
    BY <2>1, <2>2, <2>7, <2>8, FilteredGroups
  <2> QED
    BY <1>1, <2>9
<1> QED
  BY <1>5, <1>6

\* ---- the hash table of a list join ----------------------------------------------------
LEMMA MinIsLeast ==
  ASSUME NEW m \in Nat, NEW P \in SUBSET (1..m), P # {}
  PROVE  Min(P) \in P /\ \A j \in P : Min(P) <= j
<1>1. \E k \in P : \A j \in P : k <= j
  BY LeastNat
<1> QED
  BY <1>1 DEF Min

\* A key tries every slot once the chain is through.
SlotOf(cap, x, p) == (x + p - 1) % cap
LEMMA ChainCovers ==
  ASSUME NEW cap \in Nat \ {0}, NEW x \in Int
  PROVE  /\ \A p \in 1..cap : SlotOf(cap, x, p) \in 0..cap - 1
         /\ \A s \in 0..cap - 1 : \E p \in 1..cap : SlotOf(cap, x, p) = s
<1>1. \A y \in Int : y % cap \in 0..cap - 1
  OBVIOUS
<1>2. ASSUME NEW p \in 1..cap PROVE SlotOf(cap, x, p) \in 0..cap - 1
  <2>1. x + p - 1 \in Int
    OBVIOUS
  <2> QED
    BY <1>1, <2>1 DEF SlotOf
<1>3. ASSUME NEW s \in 0..cap - 1 PROVE \E p \in 1..cap : SlotOf(cap, x, p) = s
  <2>1. PICK r \in 0..cap - 1, q \in Int : s - x = cap * q + r
    <3>1. s - x = cap * ((s - x) \div cap) + ((s - x) % cap)
      OBVIOUS
    <3>2. (s - x) \div cap \in Int /\ (s - x) % cap \in 0..cap - 1
      OBVIOUS
    <3> QED
      BY <3>1, <3>2
  <2>2. PICK e \in Int : e = -q
    OBVIOUS
  <2>3. cap * q + e * cap = 0
    BY <2>2
  <2>4. x + r = e * cap + s
    <3>1. cap * q \in Int /\ e * cap \in Int
      OBVIOUS
    <3> QED
      BY <2>1, <2>3, <3>1
  <2>5. (x + r) % cap = s
    BY <2>4, DivMod
  <2>6. r + 1 \in 1..cap /\ x + (r + 1) - 1 = x + r
    OBVIOUS
  <2> QED
    BY <2>5, <2>6 DEF SlotOf
<1> QED
  BY <1>2, <1>3

Slot == [key : Int, row : Nat]
Tables(cap) == [0..cap - 1 -> Slot]
EndsOf(T, cap, x) == {p \in 1..cap : T[SlotOf(cap, x, p)].key \in {Empties, x}}
Entered(T, at, x, row) == [key |-> x, row |-> IF T[at].key = Empties THEN row ELSE Min({T[at].row, row})]

LEMMA TableSize == ASSUME NEW cap \in Nat, NEW T \in Tables(cap) PROVE Cardinality(DOMAIN T) = cap
<1>1. Cardinality(0..cap - 1) = cap
  BY FS_Interval
<1> QED
  BY <1>1 DEF Tables

\* The slots a key may take, as Insert and Found compute them.
Stops(T, chain, x) == {p \in DOMAIN chain : T[chain[p]].key \in {Empties, x}}
LEMMA EndsAre ==
  ASSUME NEW cap \in Nat \ {0}, NEW T \in Tables(cap), NEW x, NEW chain, chain = Chain(cap, x)
  PROVE  /\ Stops(T, chain, x) = EndsOf(T, cap, x)
         /\ EndsOf(T, cap, x) # {} => /\ Min(EndsOf(T, cap, x)) \in 1..cap
                                   /\ chain[Min(EndsOf(T, cap, x))] = SlotOf(cap, x, Min(EndsOf(T, cap, x)))
<1>1. DOMAIN chain = 1..cap /\ \A p \in 1..cap : chain[p] = SlotOf(cap, x, p)
  BY DEF Chain, SlotOf
<1>2. EndsOf(T, cap, x) \in SUBSET (1..cap)
  BY DEF EndsOf
<1>3. EndsOf(T, cap, x) # {} => Min(EndsOf(T, cap, x)) \in 1..cap
  BY <1>2, MinIsLeast
<1> QED
  BY <1>1, <1>3 DEF EndsOf, Stops

LEMMA InsertNowhere ==
  ASSUME NEW cap \in Nat \ {0}, NEW T \in Tables(cap), NEW x, EndsOf(T, cap, x) = {}
  PROVE  \A row : Insert(T, x, row) = T
<1> SUFFICES ASSUME NEW row PROVE Insert(T, x, row) = T
  OBVIOUS
<1>1. PICK chain : chain = Chain(cap, x)
  OBVIOUS
<1>2. Stops(T, chain, x) = {}
  BY <1>1, EndsAre, Zenon
<1> QED
  BY <1>1, <1>2, TableSize DEF Insert, Stops

LEMMA InsertIs ==
  ASSUME NEW cap \in Nat \ {0}, NEW T \in Tables(cap), NEW x, NEW row, EndsOf(T, cap, x) # {},
         NEW at, at = SlotOf(cap, x, Min(EndsOf(T, cap, x)))
  PROVE  Insert(T, x, row) = [T EXCEPT ![at] = Entered(T, at, x, row)]
<1>1. PICK chain, fits : chain = Chain(cap, x) /\ fits = Stops(T, chain, x)
  OBVIOUS
<1>2. fits = EndsOf(T, cap, x) /\ chain[Min(fits)] = at
  BY <1>1, EndsAre, Zenon
<1>3. Insert(T, x, row) = IF fits = {} THEN T ELSE [T EXCEPT ![chain[Min(fits)]] = Entered(T, chain[Min(fits)], x, row)]
  BY <1>1, TableSize DEF Insert, Entered, Stops
<1> QED
  BY <1>2, <1>3

LEMMA FoundIs ==
  ASSUME NEW cap \in Nat \ {0}, NEW T \in Tables(cap), NEW x
  PROVE  Found(T, x) = IF EndsOf(T, cap, x) = {} \/ T[SlotOf(cap, x, Min(EndsOf(T, cap, x)))].key = Empties THEN 0
                       ELSE T[SlotOf(cap, x, Min(EndsOf(T, cap, x)))].row
<1>1. PICK chain, fits : chain = Chain(cap, x) /\ fits = Stops(T, chain, x)
  OBVIOUS
<1>2. fits = EndsOf(T, cap, x) /\ (fits # {} => chain[Min(fits)] = SlotOf(cap, x, Min(fits)))
  BY <1>1, EndsAre
<1>3. Found(T, x) = IF fits = {} \/ T[chain[Min(fits)]].key = Empties THEN 0 ELSE T[chain[Min(fits)]].row
  BY <1>1, TableSize DEF Found, Stops
<1> QED
  BY <1>2, <1>3

\* A table of the rows J of a list: an occupied slot has a key's least row, no key has
\* two slots, and no empty slot comes before a key on its chain.
KeysIn(build, n) == n \in Nat /\ DOMAIN build = 1..n /\ \A b \in 1..n : build[b] \in Int /\ build[b] # Empties
LeastRows(T, cap, J, build) ==
    \A s \in 0..cap - 1 : T[s].key # Empties =>
        /\ T[s].row \in J /\ build[T[s].row] = T[s].key
        /\ \A b \in J : build[b] = T[s].key => T[s].row <= b
OneSlot(T, cap) == \A s, t \in 0..cap - 1 : T[s].key # Empties /\ T[s].key = T[t].key => s = t
ReachedBy(T, cap, x, p) ==
    /\ p \in 1..cap /\ T[SlotOf(cap, x, p)].key = x
    /\ \A q \in 1..p - 1 : T[SlotOf(cap, x, q)].key \notin {Empties, x}
TableInv(T, cap, J, build) ==
    /\ T \in Tables(cap) /\ LeastRows(T, cap, J, build) /\ OneSlot(T, cap)
    /\ \A b \in J : \E p \in 1..cap : ReachedBy(T, cap, build[b], p)

LEMMA ReachedEnds ==
  ASSUME NEW cap \in Nat \ {0}, NEW T, NEW x, NEW p, ReachedBy(T, cap, x, p)
  PROVE  EndsOf(T, cap, x) # {} /\ Min(EndsOf(T, cap, x)) = p
<1>1. PICK E : E = EndsOf(T, cap, x)
  OBVIOUS
<1>2. p \in E /\ E \in SUBSET (1..cap)
  BY <1>1 DEF EndsOf, ReachedBy
<1>3. Min(E) \in E /\ \A q \in E : Min(E) <= q
  BY <1>2, MinIsLeast
<1>4. \A q \in 1..p - 1 : q \notin E
  BY <1>1 DEF EndsOf, ReachedBy
<1>5. Min(E) \in 1..cap /\ Min(E) <= p /\ p \in 1..cap
  BY <1>2, <1>3
<1>6. ~(Min(E) < p)
  BY <1>3, <1>4, <1>5
<1> QED
  BY <1>1, <1>2, <1>5, <1>6

\* Fewer rows than slots leave one free.
LEMMA SlotIsFree ==
  ASSUME NEW cap, NEW n, n < cap, cap \in Nat, NEW build, KeysIn(build, n),
         NEW J \in SUBSET (1..n), NEW T, TableInv(T, cap, J, build)
  PROVE  \E s \in 0..cap - 1 : T[s].key = Empties
<1> SUFFICES ASSUME \A s \in 0..cap - 1 : T[s].key # Empties PROVE FALSE
  OBVIOUS
<1>1. PICK f : f = [s \in 0..cap - 1 |-> T[s].row]
  OBVIOUS
<1>2. f \in [0..cap - 1 -> 1..n]
  BY <1>1 DEF TableInv, LeastRows
<1>3. \A s, t \in 0..cap - 1 : f[s] = f[t] => s = t
  <2> SUFFICES ASSUME NEW s \in 0..cap - 1, NEW t \in 0..cap - 1, f[s] = f[t] PROVE s = t
    OBVIOUS
  <2>1. T[s].key = build[T[s].row] /\ T[t].key = build[T[t].row] /\ T[s].row = T[t].row
    BY <1>1 DEF TableInv, LeastRows
  <2> QED
    BY <2>1 DEF TableInv, OneSlot
<1>4. f \in Injection(0..cap - 1, 1..n)
  BY <1>2, <1>3, Fun_IsInj
<1>5. IsFiniteSet(1..n) /\ Cardinality(1..n) = n /\ Cardinality(0..cap - 1) = cap
  <2>1. n \in Nat
    BY DEF KeysIn
  <2>2. 1 \in Int /\ n \in Int /\ 0 \in Int /\ cap - 1 \in Int
    BY <2>1
  <2>3. IsFiniteSet(1..n) /\ Cardinality(1..n) = n
    BY <2>1, FS_Interval
  <2>4. Cardinality(0..cap - 1) = cap
    BY <2>2, FS_Interval
  <2> QED
    BY <2>3, <2>4
<1>6. cap <= n
  BY <1>4, <1>5, FS_Injection
<1> QED
  BY <1>6 DEF KeysIn

\* One row inserted: every row of a table is found before the slot it takes.
Inserts(T, cap, J, build, n, i) ==
    /\ cap \in Nat /\ n < cap /\ KeysIn(build, n) /\ J \in SUBSET (1..n) /\ i \in 1..n /\ TableInv(T, cap, J, build)

LEMMA SlotTaken ==
  ASSUME NEW T, NEW cap, NEW J, NEW build, NEW n, NEW i, Inserts(T, cap, J, build, n, i)
  PROVE  \E p \in 1..cap :
            /\ Insert(T, build[i], i) = [T EXCEPT ![SlotOf(cap, build[i], p)] = Entered(T, SlotOf(cap, build[i], p), build[i], i)]
            /\ T[SlotOf(cap, build[i], p)].key \in {Empties, build[i]}
            /\ \A q \in 1..p - 1 : T[SlotOf(cap, build[i], q)].key \notin {Empties, build[i]}
            /\ T[SlotOf(cap, build[i], p)].key = Empties => \A s \in 0..cap - 1 : T[s].key # build[i]
<1> cap \in Nat \ {0} /\ T \in Tables(cap) /\ i \in 1..n /\ n \in Nat
  BY DEF Inserts, TableInv, KeysIn
<1>1. PICK x \in Int : x = build[i] /\ x # Empties
  BY DEF Inserts, KeysIn
<1>2. PICK E : E = EndsOf(T, cap, x)
  OBVIOUS
<1>3. E # {} /\ E \in SUBSET (1..cap)
  <2>1. PICK s \in 0..cap - 1 : T[s].key = Empties
    BY SlotIsFree DEF Inserts
  <2>2. PICK p \in 1..cap : SlotOf(cap, x, p) = s
    BY ChainCovers
  <2> QED
    BY <1>2, <2>1, <2>2 DEF EndsOf
<1>4. PICK p : p = Min(E)
  OBVIOUS
<1>5. p \in E /\ \A q \in E : p <= q
  BY <1>3, <1>4, MinIsLeast
<1>6. p \in 1..cap /\ T[SlotOf(cap, x, p)].key \in {Empties, x}
  BY <1>2, <1>5 DEF EndsOf
<1>7. \A q \in 1..p - 1 : T[SlotOf(cap, x, q)].key \notin {Empties, x}
  <2> SUFFICES ASSUME NEW q \in 1..p - 1 PROVE q \notin E
    BY <1>2, <1>6 DEF EndsOf
  <2> QED
    BY <1>5, <1>6
<1>8. Insert(T, x, i) = [T EXCEPT ![SlotOf(cap, x, p)] = Entered(T, SlotOf(cap, x, p), x, i)]
  BY <1>2, <1>3, <1>4, InsertIs
<1>9. ASSUME T[SlotOf(cap, x, p)].key = Empties, NEW s \in 0..cap - 1, T[s].key = x PROVE FALSE
  <2>1. T[s].row \in J /\ build[T[s].row] = x
    BY <1>1, <1>9 DEF Inserts, TableInv, LeastRows
  <2>2. PICK r \in 1..cap : ReachedBy(T, cap, x, r)
    BY <2>1 DEF Inserts, TableInv
  <2>3. Min(EndsOf(T, cap, x)) = r
    BY <2>2, ReachedEnds
  <2>4. T[SlotOf(cap, x, p)].key = x
    BY <1>2, <1>4, <2>2, <2>3 DEF ReachedBy
  <2> QED
    BY <1>1, <1>9, <2>4
<1> QED
  BY <1>1, <1>6, <1>7, <1>8, <1>9

LEMMA InsertHolds ==
  ASSUME NEW T, NEW cap, NEW J, NEW build, NEW n, NEW i, Inserts(T, cap, J, build, n, i)
  PROVE  TableInv(Insert(T, build[i], i), cap, J \cup {i}, build)
<1> cap \in Nat \ {0} /\ T \in Tables(cap) /\ i \in 1..n /\ n \in Nat /\ J \in SUBSET (1..n)
  BY DEF Inserts, TableInv, KeysIn
<1>1. PICK x \in Int : x = build[i] /\ x # Empties
  BY DEF Inserts, KeysIn
<1>2. PICK p \in 1..cap :
        /\ Insert(T, x, i) = [T EXCEPT ![SlotOf(cap, x, p)] = Entered(T, SlotOf(cap, x, p), x, i)]
        /\ T[SlotOf(cap, x, p)].key \in {Empties, x}
        /\ \A q \in 1..p - 1 : T[SlotOf(cap, x, q)].key \notin {Empties, x}
        /\ T[SlotOf(cap, x, p)].key = Empties => \A s \in 0..cap - 1 : T[s].key # x
  BY <1>1, SlotTaken
<1>3. PICK at \in 0..cap - 1 : at = SlotOf(cap, x, p)
  BY ChainCovers
<1>4. PICK r : r = IF T[at].key = Empties THEN i ELSE Min({T[at].row, i})
  OBVIOUS
<1>5. PICK N : N = [T EXCEPT ![at] = [key |-> x, row |-> r]]
  OBVIOUS
<1>6. Insert(T, x, i) = N
  BY <1>2, <1>3, <1>4, <1>5 DEF Entered
<1>7. T[at].key # Empties => T[at].key = x /\ T[at].row \in J /\ build[T[at].row] = x /\ \A b \in J : build[b] = x => T[at].row <= b
  BY <1>1, <1>2, <1>3 DEF Inserts, TableInv, LeastRows
<1>8. r \in J \cup {i} /\ build[r] = x /\ \A b \in J \cup {i} : build[b] = x => r <= b
  <2>1. CASE T[at].key = Empties
    <3>1. r = i
      BY <1>4, <2>1
    <3>2. \A b \in J : build[b] # x
      <4> SUFFICES ASSUME NEW b \in J, build[b] = x PROVE FALSE
        OBVIOUS
      <4>1. PICK q \in 1..cap : ReachedBy(T, cap, x, q)
        BY DEF Inserts, TableInv
      <4>2. SlotOf(cap, x, q) \in 0..cap - 1
        BY ChainCovers
      <4> QED
        BY <1>2, <1>3, <2>1, <4>1, <4>2 DEF ReachedBy
    <3> QED
      BY <1>1, <3>1, <3>2
  <2>2. CASE T[at].key # Empties
    <3>1. T[at].row \in Int /\ i \in Int
      <4>1. T[at].row \in J
        BY <1>7, <2>2
      <4>2. J \subseteq 1..n /\ i \in 1..n
        BY DEF Inserts
      <4>3. T[at].row \in 1..n
        BY ONLY <4>1, <4>2
      <4>4. \A y \in 1..n : y \in Int
        OBVIOUS
      <4> QED
        BY ONLY <4>2, <4>3, <4>4
    <3>2. r = IF T[at].row <= i THEN T[at].row ELSE i
      BY <1>4, <2>2, <3>1, MinOfTwo
    <3> QED
      BY <1>1, <1>7, <2>2, <3>1, <3>2
  <2> QED
    BY <2>1, <2>2
<1>9. N \in Tables(cap) /\ N[at].key = x /\ N[at].row = r /\ \A s \in 0..cap - 1 : s # at => N[s] = T[s]
  <2>1. [key |-> x, row |-> r] \in Slot
    BY <1>8 DEF Slot
  <2> QED
    BY <1>5, <2>1 DEF Tables
<1>10. \A s \in 0..cap - 1 : s # at => T[s].key # x
  BY <1>1, <1>2, <1>3 DEF Inserts, TableInv, OneSlot
<1>11. LeastRows(N, cap, J \cup {i}, build)
  <2> SUFFICES ASSUME NEW s \in 0..cap - 1, N[s].key # Empties
               PROVE  /\ N[s].row \in J \cup {i} /\ build[N[s].row] = N[s].key
                      /\ \A b \in J \cup {i} : build[b] = N[s].key => N[s].row <= b
    BY DEF LeastRows
  <2>1. CASE s = at
    BY <1>8, <1>9, <2>1
  <2>2. CASE s # at
    <3>1. N[s] = T[s] /\ T[s].key # x
      BY <1>9, <1>10, <2>2
    <3>2. T[s].row \in J /\ build[T[s].row] = T[s].key /\ \A b \in J : build[b] = T[s].key => T[s].row <= b
      BY <3>1 DEF Inserts, TableInv, LeastRows
    <3> QED
      BY <1>1, <3>1, <3>2
  <2> QED
    BY <2>1, <2>2
<1>12. OneSlot(N, cap)
  <2> SUFFICES ASSUME NEW s \in 0..cap - 1, NEW t \in 0..cap - 1, N[s].key # Empties, N[s].key = N[t].key PROVE s = t
    BY DEF OneSlot
  <2>1. CASE s = at \/ t = at
    BY <1>9, <1>10, <2>1
  <2>2. CASE s # at /\ t # at
    BY <1>9, <2>2 DEF Inserts, TableInv, OneSlot
  <2> QED
    BY <2>1, <2>2
<1>13. ASSUME NEW b \in J \cup {i} PROVE \E q \in 1..cap : ReachedBy(N, cap, build[b], q)
  <2>1. CASE build[b] = x
    <3>1. \A q \in 1..p - 1 : SlotOf(cap, x, q) \in 0..cap - 1 /\ SlotOf(cap, x, q) # at
      <4> SUFFICES ASSUME NEW q \in 1..p - 1 PROVE SlotOf(cap, x, q) \in 0..cap - 1 /\ SlotOf(cap, x, q) # at
        OBVIOUS
      <4>1. q \in 1..cap
        OBVIOUS
      <4>2. SlotOf(cap, x, q) \in 0..cap - 1
        BY <4>1, ChainCovers
      <4>3. T[SlotOf(cap, x, q)].key \notin {Empties, x} /\ T[at].key \in {Empties, x}
        BY <1>2, <1>3
      <4> QED
        BY <4>2, <4>3
    <3>2. ReachedBy(N, cap, x, p)
      BY <1>2, <1>3, <1>9, <3>1 DEF ReachedBy
    <3> QED
      BY <2>1, <3>2
  <2>2. CASE build[b] # x
    <3>1. b \in J /\ build[b] \in Int
      BY <1>1, <2>2 DEF Inserts, KeysIn
    <3>2. PICK q \in 1..cap : ReachedBy(T, cap, build[b], q)
      BY <3>1 DEF Inserts, TableInv
    <3>3. \A o \in 1..q : SlotOf(cap, build[b], o) \in 0..cap - 1
      <4>1. \A o \in 1..q : o \in 1..cap
        OBVIOUS
      <4> QED
        BY <3>1, <4>1, ChainCovers
    <3>4. build[b] # Empties
      BY <3>1 DEF Inserts, KeysIn
    <3>5. SlotOf(cap, build[b], q) # at
      <4>1. T[at].key \in {Empties, x}
        BY <1>2, <1>3
      <4> QED
        BY <2>2, <3>2, <3>4, <4>1 DEF ReachedBy
    <3>6. ASSUME NEW o \in 1..q - 1 PROVE N[SlotOf(cap, build[b], o)].key \notin {Empties, build[b]}
      <4>1. T[SlotOf(cap, build[b], o)].key \notin {Empties, build[b]} /\ SlotOf(cap, build[b], o) \in 0..cap - 1
        BY <3>2, <3>3 DEF ReachedBy
      <4>2. CASE SlotOf(cap, build[b], o) = at
        BY <1>1, <1>9, <2>2, <4>2
      <4>3. CASE SlotOf(cap, build[b], o) # at
        BY <1>9, <4>1, <4>3
      <4> QED
        BY <4>2, <4>3
    <3> QED
      BY <1>9, <3>2, <3>3, <3>5, <3>6 DEF ReachedBy
  <2> QED
    BY <2>1, <2>2
<1>14. TableInv(N, cap, J \cup {i}, build)
  BY <1>9, <1>11, <1>12, <1>13 DEF TableInv
<1> QED
  BY <1>1, <1>6, <1>14

\* ---- every row of a list, in the order the device's threads come -------------------------
LEMMA OrderParts ==
  ASSUME NEW n \in Nat, NEW h \in {0, 1}, NEW J, J = {j \in 1..n : j % 2 = h}
  PROVE  /\ IsSelection(Picked(Rows(n), J), Cardinality(J), n) /\ Met(Picked(Rows(n), J), Cardinality(J)) = J
         /\ Picked(Rows(n), J) \in Seq(1..n) /\ Len(Picked(Rows(n), J)) = Cardinality(J)
<1>1. J \in SUBSET (1..n)
  OBVIOUS
<1>2. IsSelection(KeptOf(J, n), Cardinality(J), n) /\ Met(KeptOf(J, n), Cardinality(J)) = J /\ Len(KeptOf(J, n)) = Cardinality(J)
  BY <1>1, KeptOfIs
<1>3. PICK at, s, c : at = Rising(J) /\ s = Rows(n) /\ c = Cardinality(J)
  OBVIOUS
<1>4. KeptOf(J, n) = [k \in DOMAIN at |-> s[at[k]]]
  BY <1>3 DEF KeptOf, Picked
<1>5. PICK q : q = KeptOf(J, n)
  OBVIOUS
<1>6. c \in Nat /\ DOMAIN q = 1..c /\ \A k \in 1..c : q[k] \in 1..n
  BY <1>2, <1>3, <1>5 DEF IsSelection
<1>7. q = [k \in 1..c |-> s[at[k]]]
  BY <1>4, <1>5, <1>6
<1>8. q \in [1..c -> 1..n]
  BY <1>6, <1>7
<1>9. q \in Seq(1..n)
  BY <1>6, <1>8, SeqDef
<1> QED
  BY <1>2, <1>5, <1>9 DEF KeptOf

LEMMA OrderIsSelection ==
  ASSUME NEW n \in Nat
  PROVE  IsSelection(AnyOrder(n), n, n) /\ Met(AnyOrder(n), n) = 1..n
<1>1. PICK J, K : J = {j \in 1..n : j % 2 = 1} /\ K = {j \in 1..n : j % 2 = 0}
  OBVIOUS
<1>2. J \cup K = 1..n /\ J \cap K = {}
  <2>1. \A j \in 1..n : j % 2 = 0 \/ j % 2 = 1
    OBVIOUS
  <2> QED
    BY <1>1, <2>1
<1>3. PICK a, b, p, q : a = Cardinality(J) /\ b = Cardinality(K) /\ p = Picked(Rows(n), J) /\ q = Picked(Rows(n), K)
  OBVIOUS
<1>4. IsSelection(p, a, n) /\ Met(p, a) = J /\ p \in Seq(1..n) /\ Len(p) = a
  BY <1>1, <1>3, OrderParts
<1>5. IsSelection(q, b, n) /\ Met(q, b) = K /\ q \in Seq(1..n) /\ Len(q) = b
  BY <1>1, <1>3, OrderParts
<1>6. a \in Nat /\ b \in Nat /\ a + b = n
  <2>1. IsFiniteSet(1..n) /\ Cardinality(1..n) = n
    BY FS_Interval
  <2>2. IsFiniteSet(J) /\ IsFiniteSet(K)
    BY <1>2, <2>1, FS_Subset
  <2>3. Cardinality(J \cup K) = Cardinality(J) + Cardinality(K) - Cardinality(J \cap K)
    BY <2>2, FS_Union
  <2>4. Cardinality(J \cap K) = 0
    BY <1>2, FS_EmptySet
  <2>5. a \in Nat /\ b \in Nat
    BY <1>4, <1>5 DEF IsSelection
  <2>6. Cardinality(J \cup K) = n
    BY <1>2, <2>1
  <2>7. n = a + b - 0
    BY <1>3, <2>3, <2>4, <2>6
  <2> QED
    BY <2>5, <2>7
<1>7. AnyOrder(n) = p \o q
  <2>1. \A h : {j \in DOMAIN Rows(n) : Rows(n)[j] % 2 = h} = {j \in 1..n : j % 2 = h}
    BY DEF Rows
  <2>2. {j \in DOMAIN Rows(n) : Rows(n)[j] % 2 = 1} = J /\ {j \in DOMAIN Rows(n) : Rows(n)[j] % 2 = 0} = K
    BY <1>1, <2>1
  <2>3. AnyOrder(n) = Picked(Rows(n), {j \in DOMAIN Rows(n) : Rows(n)[j] % 2 = 1})
                      \o Picked(Rows(n), {j \in DOMAIN Rows(n) : Rows(n)[j] % 2 = 0})
    BY DEF AnyOrder, Selected
  <2> QED
    BY <1>3, <2>2, <2>3
<1>8. PICK r : r = AnyOrder(n)
  OBVIOUS
<1>9. r \in Seq(1..n) /\ Len(r) = n /\ \A i \in 1..n : r[i] = IF i <= a THEN p[i] ELSE q[i - a]
  <2>1. /\ p \o q \in Seq(1..n) /\ Len(p \o q) = Len(p) + Len(q)
        /\ \A i \in 1..Len(p) + Len(q) : (p \o q)[i] = IF i <= Len(p) THEN p[i] ELSE q[i - Len(p)]
    BY <1>4, <1>5, ConcatProperties
  <2>2. Len(p) = a /\ Len(q) = b
    BY <1>4, <1>5
  <2> QED
    BY <1>6, <1>7, <1>8, <2>1, <2>2
<1>10. ASSUME NEW i \in 1..n
       PROVE  (i <= a => i \in 1..a /\ r[i] = p[i] /\ r[i] \in J) /\ (~(i <= a) => i - a \in 1..b /\ r[i] = q[i - a] /\ r[i] \in K)
  <2>1. CASE i <= a
    BY <1>4, <1>6, <1>9, <2>1 DEF Met
  <2>2. CASE ~(i <= a)
    BY <1>5, <1>6, <1>9, <2>2 DEF Met
  <2> QED
    BY <2>1, <2>2
<1>11. ASSUME NEW i \in 1..n, NEW j \in 1..n, i # j PROVE r[i] # r[j]
  <2>1. CASE i <= a /\ j <= a
    BY <1>4, <1>10, <1>11, <2>1 DEF IsSelection
  <2>2. CASE ~(i <= a) /\ ~(j <= a)
    <3>1. i - a # j - a
      BY <1>6, <1>11
    <3> QED
      BY <1>5, <1>10, <2>2, <3>1 DEF IsSelection
  <2>3. CASE i <= a /\ ~(j <= a)
    BY <1>2, <1>10, <2>3
  <2>4. CASE j <= a /\ ~(i <= a)
    BY <1>2, <1>10, <2>4
  <2> QED
    BY <1>6, <2>1, <2>2, <2>3, <2>4
<1>12. ASSUME NEW x \in 1..n PROVE x \in Met(r, n)
  <2>1. CASE x \in J
    <3>1. PICK i \in 1..a : p[i] = x
      BY <1>4, <2>1 DEF Met
    <3>2. i \in 1..n /\ r[i] = x
      BY <1>6, <1>9, <3>1
    <3> QED
      BY <3>2 DEF Met
  <2>2. CASE x \in K
    <3>1. PICK i \in 1..b : q[i] = x
      BY <1>5, <2>2 DEF Met
    <3>2. i + a \in 1..n /\ ~(i + a <= a) /\ (i + a) - a = i
      BY <1>6
    <3>3. r[i + a] = x
      BY <1>9, <3>1, <3>2
    <3> QED
      BY <3>2, <3>3 DEF Met
  <2> QED
    BY <1>2, <2>1, <2>2
<1>13. DOMAIN r = 1..n /\ \A i \in 1..n : r[i] \in 1..n
  BY <1>9
<1>14. IsSelection(r, n, n) /\ Met(r, n) = 1..n
  BY <1>11, <1>12, <1>13 DEF IsSelection, Met
<1> QED
  BY <1>8, <1>14

\* ---- what the hash join of two lists finds ------------------------------------------------
NoSlots(cap) == [slot \in 0..cap - 1 |-> [key |-> Empties, row |-> 0]]
TableOf(build, seq, cap) == FoldLeft(LAMBDA table, i : Insert(table, build[i], i), NoSlots(cap), seq)

LEMMA InsertType ==
  ASSUME NEW cap \in Nat \ {0}, NEW T \in Tables(cap), NEW x \in Int, NEW i \in Nat
  PROVE  Insert(T, x, i) \in Tables(cap)
<1>1. PICK E : E = EndsOf(T, cap, x)
  OBVIOUS
<1>2. CASE E = {}
  <2>1. Insert(T, x, i) = T
    <3>1. EndsOf(T, cap, x) = {}
      BY <1>1, <1>2
    <3>2. \A row : Insert(T, x, row) = T
      BY <3>1, InsertNowhere
    <3> QED
      BY <3>2
  <2> QED
    BY <2>1
<1>3. CASE E # {}
  <2>1. PICK p \in 1..cap : p = Min(E)
    <3>1. E \in SUBSET (1..cap)
      BY <1>1 DEF EndsOf
    <3> QED
      BY <1>3, <3>1, MinIsLeast
  <2>2. PICK at \in 0..cap - 1 : at = SlotOf(cap, x, p)
    BY ChainCovers
  <2>3. Insert(T, x, i) = [T EXCEPT ![at] = Entered(T, at, x, i)]
    BY <1>1, <1>3, <2>1, <2>2, InsertIs
  <2>4. T[at].row \in Nat
    BY DEF Tables, Slot
  <2>5. Min({T[at].row, i}) \in Nat
    <3>1. T[at].row \in Int /\ i \in Int
      BY <2>4
    <3> QED
      BY <2>4, <3>1, MinOfTwo
  <2>6. Entered(T, at, x, i) \in Slot
    BY <2>5 DEF Entered, Slot
  <2> QED
    BY <2>3, <2>6 DEF Tables
<1> QED
  BY <1>2, <1>3

LEMMA TableHolds ==
  ASSUME NEW n, NEW build, KeysIn(build, n), NEW cap \in Nat, n < cap,
         NEW m, NEW seq, IsSelection(seq, m, n)
  PROVE  TableInv(TableOf(build, seq, cap), cap, Met(seq, m), build)
<1> n \in Nat /\ m \in Nat /\ cap \in Nat \ {0} /\ DOMAIN seq = 1..m
  BY DEF KeysIn, IsSelection
<1> DEFINE step == [k \in 1..m |-> [t \in Tables(cap) |-> Insert(t, build[seq[k]], seq[k])]]
           base == NoSlots(cap)
<1>1. \A k \in 1..m : seq[k] \in 1..n /\ seq[k] \in Nat /\ build[seq[k]] \in Int
  BY DEF KeysIn, IsSelection
<1>2. base \in Tables(cap) /\ \A s \in 0..cap - 1 : base[s].key = Empties
  <2>1. Empties \in Int
    BY WordsAreInts DEF Empties
  <2>2. [key |-> Empties, row |-> 0] \in Slot
    BY <2>1 DEF Slot
  <2> QED
    BY <2>2 DEF NoSlots, Tables
<1> HIDE DEF base
<1>3. \A t \in Tables(cap) : \A k \in 1..m : Insert(t, build[seq[k]], seq[k]) \in Tables(cap)
  BY <1>1, InsertType
<1>4. IsStep(step, m, Tables(cap))
  BY <1>3 DEF IsStep
<1>5. PICK h \in [SUBSET (1..m) -> Tables(cap)] : Folds(h, m, base, step)
  <2> HIDE DEF step
  <2> QED
    BY <1>2, <1>4, FoldExists
<1>6. \A s \in SUBSET (1..m) : s # {} => Max(s) \in 1..m /\ s \ {Max(s)} \in SUBSET (1..m)
  BY MaxIsLargest
<1>7. h = [s \in SUBSET DOMAIN seq |-> IF s = {} THEN base ELSE Insert(h[s \ {Max(s)}], build[seq[Max(s)]], seq[Max(s)])]
  <2> SUFFICES ASSUME NEW s \in SUBSET (1..m)
               PROVE  h[s] = IF s = {} THEN base ELSE Insert(h[s \ {Max(s)}], build[seq[Max(s)]], seq[Max(s)])
    OBVIOUS
  <2>1. CASE s = {}
    BY <1>5, <2>1 DEF Folds
  <2>2. CASE s # {}
    <3>1. h[s] = step[Max(s)][h[s \ {Max(s)}]] /\ h[s \ {Max(s)}] \in Tables(cap)
      <4>1. h[s] = step[Max(s)][h[s \ {Max(s)}]]
        BY <1>5, <2>2 DEF Folds
      <4> QED
        BY <1>5, <1>6, <2>2, <4>1
    <3> QED
      BY <1>6, <2>2, <3>1
  <2> QED
    BY <2>1, <2>2
<1>8. PICK f : f = [s \in SUBSET DOMAIN seq |-> IF s = {} THEN base ELSE Insert(f[s \ {Max(s)}], build[seq[Max(s)]], seq[Max(s)])]
               /\ TableOf(build, seq, cap) = f[DOMAIN seq]
  <2> HIDE DEF step
  <2> QED
    BY <1>7 DEF TableOf, FoldLeft, MapThenFoldSet, base
<1>9. Steps(f, m, Tables(cap), base, step)
  <2> SUFFICES ASSUME NEW s \in SUBSET (1..m), s # {}, f[s \ {Max(s)}] \in Tables(cap)
               PROVE  f[s] = step[Max(s)][f[s \ {Max(s)}]]
    BY <1>8 DEF Steps
  <2>1. f[s] = Insert(f[s \ {Max(s)}], build[seq[Max(s)]], seq[Max(s)])
    BY <1>8
  <2> QED
    BY <1>6, <2>1
<1>10. PICK g : g = [k \in 0..m |-> f[1..k]] /\ IsRun(g, m, Tables(cap), base, step)
  <2> HIDE DEF step
  <2> QED
    BY <1>2, <1>4, <1>9, FoldRuns
<1> DEFINE P == {k \in 0..m : TableInv(g[k], cap, Met(seq, k), build)}
<1>11. 0 \in P
  <2>1. g[0] = base /\ Met(seq, 0) = {}
    BY <1>10 DEF IsRun, Met
  <2>2. TableInv(base, cap, {}, build)
    BY <1>2 DEF TableInv, LeastRows, OneSlot
  <2>3. TableInv(g[0], cap, Met(seq, 0), build)
    BY ONLY <2>1, <2>2
  <2>4. 0 \in 0..m
    OBVIOUS
  <2> QED
    BY <2>3, <2>4
<1>12. ASSUME NEW k \in 1..m, k - 1 \in P PROVE k \in P
  <2>1. g[k] = Insert(g[k - 1], build[seq[k]], seq[k])
    <3>1. g \in [0..m -> Tables(cap)] /\ \A j \in 1..m : g[j] = step[j][g[j - 1]]
      <4> HIDE DEF step
      <4> QED
        BY <1>10 DEF IsRun
    <3>2. k - 1 \in 0..m
      OBVIOUS
    <3>3. g[k - 1] \in Tables(cap) /\ g[k] = step[k][g[k - 1]]
      <4> HIDE DEF step
      <4> QED
        BY <3>1, <3>2
    <3> QED
      BY <3>3
  <2>2. Met(seq, k) = Met(seq, k - 1) \cup {seq[k]}
    <3>1. 1..k = (1..k - 1) \cup {k}
      OBVIOUS
    <3> QED
      BY <3>1 DEF Met
  <2>3. Met(seq, k - 1) \in SUBSET (1..n)
    BY <1>1 DEF Met
  <2>4. Inserts(g[k - 1], cap, Met(seq, k - 1), build, n, seq[k])
    BY <1>1, <1>12, <2>3 DEF Inserts
  <2>5. TableInv(Insert(g[k - 1], build[seq[k]], seq[k]), cap, Met(seq, k - 1) \cup {seq[k]}, build)
    BY ONLY <2>4, InsertHolds
  <2>6. TableInv(g[k], cap, Met(seq, k), build)
    BY ONLY <2>1, <2>2, <2>5
  <2>7. k \in 0..m
    OBVIOUS
  <2> QED
    BY <2>6, <2>7
<1>13. \A k \in 0..m : k \in P
  <2> HIDE DEF P
  <2> QED
    BY <1>11, <1>12, CountUp
<1>14. f[DOMAIN seq] = g[m] /\ TableInv(g[m], cap, Met(seq, m), build)
  BY <1>10, <1>13
<1> QED
  BY <1>8, <1>14

\* The probe of a table of every row: the first row with the key, 0 for a key no row has.
FirstWith(build, n, x, b) == b \in 1..n /\ build[b] = x /\ \A e \in 1..n : build[e] = x => b <= e
LEMMA ProbeFinds ==
  ASSUME NEW n, NEW build, KeysIn(build, n), NEW cap \in Nat \ {0}, NEW T, TableInv(T, cap, 1..n, build), NEW x \in Int
  PROVE  /\ Found(T, x) # 0 <=> \E b \in 1..n : build[b] = x
         /\ Found(T, x) # 0 => FirstWith(build, n, x, Found(T, x))
<1> n \in Nat /\ T \in Tables(cap)
  BY DEF KeysIn, TableInv
<1>1. CASE \E b \in 1..n : build[b] = x
  <2>1. PICK p \in 1..cap : ReachedBy(T, cap, x, p)
    BY <1>1 DEF TableInv
  <2>2. EndsOf(T, cap, x) # {} /\ Min(EndsOf(T, cap, x)) = p
    BY <2>1, ReachedEnds
  <2>3. PICK at \in 0..cap - 1 : at = SlotOf(cap, x, p)
    BY ChainCovers
  <2>4. T[at].key = x /\ x # Empties
    BY <1>1, <2>1, <2>3 DEF ReachedBy, KeysIn
  <2>5. Found(T, x) = T[at].row
    BY <2>2, <2>3, <2>4, FoundIs
  <2>6. T[at].row \in 1..n /\ build[T[at].row] = x /\ \A e \in 1..n : build[e] = x => T[at].row <= e
    BY <2>4 DEF TableInv, LeastRows
  <2> QED
    BY <1>1, <2>5, <2>6 DEF FirstWith
<1>2. CASE ~\E b \in 1..n : build[b] = x
  <2> SUFFICES Found(T, x) = 0
    BY <1>2
  <2>1. PICK E : E = EndsOf(T, cap, x)
    OBVIOUS
  <2>2. CASE E = {}
    BY <2>1, <2>2, FoundIs
  <2>3. CASE E # {}
    <3>1. E \in SUBSET (1..cap)
      BY <2>1 DEF EndsOf
    <3>2. PICK p \in E : p = Min(E)
      BY <2>3, <3>1, MinIsLeast
    <3>3. PICK at \in 0..cap - 1 : at = SlotOf(cap, x, p)
      BY <3>1, ChainCovers
    <3>4. T[at].key \in {Empties, x}
      BY <2>1, <3>2, <3>3 DEF EndsOf
    <3>5. T[at].key = Empties
      <4> SUFFICES ASSUME T[at].key # Empties PROVE FALSE
        OBVIOUS
      <4>1. T[at].row \in 1..n /\ build[T[at].row] = x
        BY <3>4 DEF TableInv, LeastRows
      <4> QED
        BY <1>2, <4>1
    <3> QED
      BY <2>1, <3>2, <3>3, <3>5, FoundIs
  <2> QED
    BY <2>2, <2>3
<1> QED
  BY <1>1, <1>2

LEMMA LeastOf ==
  ASSUME NEW S \in SUBSET Nat, S # {}
  PROVE  \E x \in S : \A y \in S : x <= y
<1>1. PICK x \in S : \A y \in S : ~(<<y, x>> \in OpToRel(<, Nat))
  BY WFMin, NatLessThanWellFounded
<1>2. ASSUME NEW y \in S, y < x PROVE FALSE
  <2>1. <<y, x>> \in Nat \X Nat /\ <<y, x>>[1] < <<y, x>>[2]
    BY <1>2
  <2>2. <<y, x>> \in OpToRel(<, Nat)
    BY <2>1, Zenon DEF OpToRel
  <2> QED
    BY <1>1, <2>2
<1>3. \A y \in S : x <= y
  <2>1. \A y \in S : y \in Nat /\ x \in Nat /\ ~(y < x)
    BY <1>2
  <2> QED
    BY <2>1
<1> QED
  BY <1>3

\* The table is at most half full, or as large as it gets.
LEMMA CapacityIs ==
  ASSUME NEW n \in Nat
  PROVE  Capacity(n) \in Nat \ {0} /\ (Capacity(n) >= 2 * n \/ Capacity(n) >= MaxCap)
<1> DEFINE Enough(c) == c >= MinCap /\ (c >= 2 * n \/ c >= MaxCap)
           Good == {e \in 1..28 : Enough(2 ^ e)}
<1>1. \A e \in 1..28 : 2 ^ e \in Nat \ {0}
  <2>1. \A e \in Nat \ {0} : 2 ^ (e - 1) \in Nat \ {0} /\ 2 ^ e = 2 * 2 ^ (e - 1)
    BY PowerDoubles
  <2>2. \A e \in 1..28 : e \in Nat \ {0}
    OBVIOUS
  <2> QED
    BY <2>1, <2>2
<1>2. PICK a \in 1..28, b \in 1..28 : MinCap = 2 ^ a /\ MaxCap = 2 ^ b
  BY DeviceAssumption
<1>3. MinCap \in Nat /\ MaxCap \in Nat
  BY <1>1, <1>2
<1>4. Good # {}
  <2>1. CASE MinCap >= MaxCap
    <3>1. Enough(2 ^ a)
      BY <1>2, <1>3, <2>1
    <3> QED
      BY <1>2, <3>1
  <2>2. CASE ~(MinCap >= MaxCap)
    <3>1. Enough(2 ^ b)
      BY <1>2, <1>3, <2>2
    <3> QED
      BY <1>2, <3>1
  <2> QED
    BY <2>1, <2>2
<1>5. \E c \in {2 ^ e : e \in 1..28} : Enough(c) /\ \A e \in 1..28 : Enough(2 ^ e) => c <= 2 ^ e
  <2>1. PICK S : S = {2 ^ e : e \in Good}
    OBVIOUS
  <2>2. S \in SUBSET Nat /\ S # {}
    BY <1>1, <1>4, <2>1
  <2>3. PICK c \in S : \A y \in S : c <= y
    BY <2>2, LeastOf
  <2>4. c \in {2 ^ e : e \in 1..28} /\ Enough(c)
    BY <2>1
  <2>5. \A e \in 1..28 : Enough(2 ^ e) => 2 ^ e \in S
    BY <2>1
  <2> HIDE DEF Enough
  <2> QED
    BY <2>3, <2>4, <2>5
<1>6. Capacity(n) \in {2 ^ e : e \in 1..28} /\ Enough(Capacity(n))
  <2>1. Capacity(n) = CHOOSE c \in {2 ^ e : e \in 1..28} : Enough(c) /\ \A e \in 1..28 : Enough(2 ^ e) => c <= 2 ^ e
    BY DEF Capacity
  <2> HIDE DEF Enough
  <2> QED
    BY <1>5, <2>1
<1> QED
  BY <1>1, <1>6

\* ---- the answer of a list join --------------------------------------------------------
\* hits are the probe rows with a match, in any order, and F their build rows.
HitsOf(build, n, probe, np) == {i \in 1..np : \E b \in 1..n : build[b] = probe[i]}
PairsOf(hits, F) == [j \in DOMAIN hits |-> <<hits[j], F[j]>>]
ListsFirsts(pairs, build, probe) ==
    LET firsts == FirstPairs(probe, build)
    IN  /\ Cardinality(firsts) \in Nat /\ DOMAIN pairs = 1..Cardinality(firsts) /\ pairs = [j \in DOMAIN pairs |-> pairs[j]]
        /\ {pairs[j] : j \in DOMAIN pairs} = firsts

LEMMA FirstsListed ==
  ASSUME NEW n \in Nat, NEW build, DOMAIN build = 1..n, NEW np \in Nat, NEW probe, DOMAIN probe = 1..np,
         NEW hits, NEW c, IsSelection(hits, c, np), Met(hits, c) = HitsOf(build, n, probe, np),
         NEW F, \A j \in 1..c : FirstWith(build, n, probe[hits[j]], F[j])
  PROVE  ListsFirsts(PairsOf(hits, F), build, probe)
<1>1. PICK S : S = FirstPairs(probe, build)
  OBVIOUS
<1>2. PICK g : g = [j \in 1..c |-> <<hits[j], F[j]>>]
  OBVIOUS
<1>3. c \in Nat /\ DOMAIN hits = 1..c /\ (\A j \in 1..c : hits[j] \in 1..np) /\ \A i, j \in 1..c : i # j => hits[i] # hits[j]
  BY DEF IsSelection
<1>4. ASSUME NEW j \in 1..c PROVE g[j] \in S
  <2>1. F[j] \in 1..n /\ build[F[j]] = probe[hits[j]] /\ \A e \in 1..n : build[e] = probe[hits[j]] => F[j] <= e
    BY DEF FirstWith
  <2>2. \A e \in 1..(F[j] - 1) : build[e] # probe[hits[j]]
    <3> SUFFICES ASSUME NEW e \in 1..(F[j] - 1) PROVE build[e] # probe[hits[j]]
      OBVIOUS
    <3>1. e \in 1..n /\ ~(F[j] <= e)
      BY <2>1
    <3> QED
      BY <2>1, <3>1
  <2>3. g[j] = <<hits[j], F[j]>> /\ <<hits[j], F[j]>> \in (DOMAIN probe) \X (DOMAIN build)
    BY <1>2, <1>3, <2>1
  <2> QED
    BY <1>1, <2>1, <2>2, <2>3 DEF FirstPairs
<1>5. ASSUME NEW m \in S PROVE \E j \in 1..c : g[j] = m
  <2>1. /\ m[1] \in 1..np /\ m[2] \in 1..n /\ m = <<m[1], m[2]>> /\ build[m[2]] = probe[m[1]]
        /\ \A e \in 1..(m[2] - 1) : build[e] # probe[m[1]]
    BY <1>1 DEF FirstPairs
  <2>2. m[1] \in HitsOf(build, n, probe, np)
    BY <2>1 DEF HitsOf
  <2>3. PICK j \in 1..c : hits[j] = m[1]
    BY <2>2 DEF Met
  <2>4. F[j] \in 1..n /\ build[F[j]] = probe[m[1]] /\ F[j] <= m[2]
    BY <2>1, <2>3 DEF FirstWith
  <2>5. ~(F[j] < m[2])
    <3> SUFFICES ASSUME F[j] < m[2] PROVE FALSE
      OBVIOUS
    <3>1. F[j] \in 1..(m[2] - 1)
      BY <2>1, <2>4
    <3> QED
      BY <2>1, <2>4, <3>1
  <2>6. F[j] = m[2]
    BY <2>1, <2>4, <2>5
  <2> QED
    BY <1>2, <2>1, <2>3, <2>6
<1>6. g \in Injection(1..c, S) /\ g \in Surjection(1..c, S)
  <2>1. g \in [1..c -> S]
    BY <1>2, <1>4
  <2>2. \A i, j \in 1..c : g[i] = g[j] => i = j
    BY <1>2, <1>3
  <2> QED
    BY <1>5, <2>1, <2>2, Fun_IsInj, Fun_IsSurj
<1>7. Cardinality(S) = c
  <2>1. IsFiniteSet(1..c) /\ Cardinality(1..c) = c
    BY <1>3, FS_Interval
  <2> QED
    BY <1>6, <2>1, FS_Surjection
<1>8. PairsOf(hits, F) = g
  BY <1>2, <1>3 DEF PairsOf
<1>9. {g[j] : j \in 1..c} = S
  BY <1>4, <1>5
<1>10. DOMAIN g = 1..c /\ g = [j \in DOMAIN g |-> g[j]]
  BY <1>2
<1> QED
  BY <1>1, <1>3, <1>7, <1>8, <1>9, <1>10 DEF ListsFirsts

ListReply(pairs) == [err |-> "", pairs |-> pairs]
NoReply == [err |-> "empty slot marker", pairs |-> <<>>]
LEMMA ListReplies == (\A pairs : ListReply(pairs).err = "" /\ ListReply(pairs).pairs = pairs) /\ ~Fine(NoReply)
<1>1. \A pairs : ListReply(pairs).err = "" /\ ListReply(pairs).pairs = pairs
  BY Zenon DEF ListReply
<1>2. NoReply.err = "empty slot marker"
  BY Zenon DEF NoReply
<1>3. "empty slot marker" # ""
  BY Zenon
<1>4. ~Fine(NoReply)
  BY <1>2, <1>3, Zenon DEF Fine
<1> QED
  BY <1>1, <1>4

\* The CPU's loop pairs every probe row whose key the build list has with the first build
\* row of that key, once, for lists of any length.
THEOREM HostListJoin ==
  ASSUME NEW n \in Nat, NEW build, DOMAIN build = 1..n,
         NEW np \in Nat, NEW probe, DOMAIN probe = 1..np, Len(probe) = np
  PROVE  FirstMatches(build, probe).err = "" /\ ListsFirsts(FirstMatches(build, probe).pairs, build, probe)
<1>1. PICK H : H = HitsOf(build, n, probe, np)
  OBVIOUS
<1>2. PICK hits, c : hits = KeptOf(H, np) /\ c = Cardinality(H)
  OBVIOUS
<1>3. IsSelection(hits, c, np) /\ Met(hits, c) = H
  BY <1>1, <1>2, KeptOfIs DEF HitsOf
<1>4. PICK F : F = [j \in DOMAIN hits |-> Min({b \in DOMAIN build : build[b] = probe[hits[j]]})]
  OBVIOUS
<1>5. ASSUME NEW j \in 1..c PROVE FirstWith(build, n, probe[hits[j]], F[j])
  <2>1. PICK P : P = {b \in 1..n : build[b] = probe[hits[j]]}
    OBVIOUS
  <2>2. hits[j] \in H
    BY <1>3 DEF Met
  <2>3. P # {} /\ P \in SUBSET (1..n)
    BY <1>1, <2>1, <2>2 DEF HitsOf
  <2>4. Min(P) \in P /\ \A b \in P : Min(P) <= b
    BY <2>3, MinIsLeast
  <2>5. F[j] = Min(P)
    BY <1>3, <1>4, <2>1 DEF IsSelection
  <2> QED
    BY <2>1, <2>4, <2>5 DEF FirstWith
<1>6. ListsFirsts(PairsOf(hits, F), build, probe)
  BY <1>1, <1>3, <1>5, FirstsListed
<1>7. Selected(Rows(np), LAMBDA i : \E b \in DOMAIN build : build[b] = probe[i]) = hits
  <2>1. {j \in DOMAIN Rows(np) : \E b \in DOMAIN build : build[b] = probe[Rows(np)[j]]} = H
    BY <1>1 DEF Rows, HitsOf
  <2> QED
    BY <1>2, <2>1 DEF Selected, KeptOf
<1>8. [j \in DOMAIN hits |-> <<hits[j], Min({b \in DOMAIN build : build[b] = probe[hits[j]]})>>] = PairsOf(hits, F)
  BY <1>4 DEF PairsOf
<1>9. FirstMatches(build, probe) = ListReply(PairsOf(hits, F))
  BY <1>7, <1>8 DEF FirstMatches, ListReply
<1>10. FirstMatches(build, probe).err = "" /\ FirstMatches(build, probe).pairs = PairsOf(hits, F)
  BY <1>9, ListReplies
<1> QED
  BY ONLY <1>6, <1>10

\* Two lists of numbers; a larger build list than the table has slots loses rows.
IsPair(build, n, probe, np) ==
    /\ n \in Nat /\ DOMAIN build = 1..n /\ Len(build) = n /\ (\A b \in 1..n : build[b] \in Int) /\ n < MaxCap
    /\ np \in Nat /\ DOMAIN probe = 1..np /\ Len(probe) = np /\ \A i \in 1..np : probe[i] \in Int
FoundPairs(T, hits, probe) == [j \in DOMAIN hits |-> <<hits[j], Found(T, probe[hits[j]])>>]
FoundRows(T, order, probe) == Picked(order, {j \in DOMAIN order : Found(T, probe[order[j]]) # 0})

LEMMA DeviceListIs ==
  ASSUME NEW build, NEW probe, build # <<>>, probe # <<>>, NEW r, r = DeviceHashJoin(build, probe), Fine(r)
  PROVE  /\ Empties \notin ToSet(build)
         /\ r.pairs = FoundPairs(HashTable(build), FoundRows(HashTable(build), AnyOrder(Len(probe)), probe), probe)
<1>1. PICK pairs : pairs = FoundPairs(HashTable(build), FoundRows(HashTable(build), AnyOrder(Len(probe)), probe), probe)
  OBVIOUS
<1>2. r = IF Empties \in ToSet(build) THEN NoReply ELSE ListReply(pairs)
  BY <1>1 DEF DeviceHashJoin, NoReply, ListReply, FoundPairs, FoundRows, Selected
<1>3. Empties \notin ToSet(build)
  BY <1>2, ListReplies, Zenon
<1>4. r.pairs = pairs
  BY <1>2, <1>3, ListReplies, Zenon
<1> QED
  BY <1>1, <1>3, <1>4

\* The orders the threads of a kernel may take n rows in: each row once.
Permutes(order, n) == IsSelection(order, n, n) /\ Met(order, n) = 1..n

\* The device's hash table and probe give the same pairs, whatever order its threads
\* insert the build rows in and whatever order they look up the probe rows in, unless a
\* key is the mark of an empty slot, which the device refuses.
THEOREM HashTableJoins ==
  ASSUME NEW n, NEW build, NEW np, NEW probe, IsPair(build, n, probe, np), Empties \notin ToSet(build),
         NEW seq, Permutes(seq, n), NEW order, Permutes(order, np), NEW T, T = TableOf(build, seq, Capacity(n))
  PROVE  ListsFirsts(FoundPairs(T, FoundRows(T, order, probe), probe), build, probe)
<1> n \in Nat /\ np \in Nat /\ DOMAIN build = 1..n /\ DOMAIN probe = 1..np /\ \A i \in 1..np : probe[i] \in Int
  BY DEF IsPair
<1>1. \A b \in 1..n : build[b] \in Int /\ build[b] # Empties
  BY DEF ToSet, IsPair
<1>2. KeysIn(build, n)
  BY <1>1 DEF KeysIn
<1>3. PICK cap \in Nat \ {0} : cap = Capacity(n)
  BY CapacityIs
<1>4. n < cap
  <2>1. cap >= 2 * n \/ cap >= MaxCap
    BY <1>3, CapacityIs
  <2>2. MaxCap \in Nat
    <3>1. \A e \in Nat \ {0} : 2 ^ e \in Nat
      BY PowerDoubles
    <3>2. \A e \in 1..28 : e \in Nat \ {0}
      OBVIOUS
    <3> QED
      BY <3>1, <3>2, DeviceAssumption
  <2> QED
    BY <2>1, <2>2 DEF IsPair
<1>6. IsSelection(seq, n, n) /\ Met(seq, n) = 1..n
  BY DEF Permutes
<1>7. T = TableOf(build, seq, cap)
  BY <1>3
<1>8. TableInv(T, cap, 1..n, build)
  <2>1. TableInv(TableOf(build, seq, cap), cap, Met(seq, n), build)
    BY <1>2, <1>4, <1>6, TableHolds
  <2> QED
    BY <1>6, <1>7, <2>1
<1>10. IsSelection(order, np, np) /\ Met(order, np) = 1..np
  BY DEF Permutes
<1>11. PICK J, c, hits : /\ J = {j \in 1..np : Found(T, probe[order[j]]) # 0} /\ c = Cardinality(J) /\ hits = Picked(order, J)
  OBVIOUS
<1>12. IsSelection(hits, c, np) /\ Met(hits, c) = {order[j] : j \in J}
  <2>1. J \in SUBSET (1..np)
    BY <1>11
  <2> QED
    BY <1>10, <1>11, <2>1, PickedRows
<1>13. ASSUME NEW i \in 1..np
       PROVE  /\ Found(T, probe[i]) # 0 <=> \E b \in 1..n : build[b] = probe[i]
              /\ Found(T, probe[i]) # 0 => FirstWith(build, n, probe[i], Found(T, probe[i]))
  <2>1. PICK x \in Int : x = probe[i]
    OBVIOUS
  <2>2. /\ Found(T, x) # 0 <=> \E b \in 1..n : build[b] = x
        /\ Found(T, x) # 0 => FirstWith(build, n, x, Found(T, x))
    BY ONLY <1>2, <1>3, <1>4, <1>8, <2>1, ProbeFinds
  <2> QED
    BY <2>1, <2>2
<1>14. Met(hits, c) = HitsOf(build, n, probe, np)
  <2>1. ASSUME NEW j \in J PROVE order[j] \in HitsOf(build, n, probe, np)
    <3>1. order[j] \in 1..np /\ Found(T, probe[order[j]]) # 0
      BY <1>10, <1>11 DEF IsSelection
    <3> QED
      BY <1>13, <3>1 DEF HitsOf
  <2>2. ASSUME NEW i \in HitsOf(build, n, probe, np) PROVE \E j \in J : order[j] = i
    <3>1. i \in 1..np /\ Found(T, probe[i]) # 0
      BY <1>13 DEF HitsOf
    <3>2. PICK j \in 1..np : order[j] = i
      BY <1>10, <3>1 DEF Met
    <3> QED
      BY <1>11, <3>1, <3>2
  <2> QED
    BY <1>12, <2>1, <2>2
<1>15. PICK F : F = [j \in DOMAIN hits |-> Found(T, probe[hits[j]])]
  OBVIOUS
<1>16. ASSUME NEW j \in 1..c PROVE FirstWith(build, n, probe[hits[j]], F[j])
  <2>1. hits[j] \in Met(hits, c) /\ hits[j] \in 1..np /\ DOMAIN hits = 1..c
    BY <1>12 DEF Met, IsSelection
  <2>2. \E b \in 1..n : build[b] = probe[hits[j]]
    BY <1>14, <2>1 DEF HitsOf
  <2>3. FirstWith(build, n, probe[hits[j]], Found(T, probe[hits[j]]))
    BY <1>13, <2>1, <2>2
  <2> QED
    BY <1>15, <2>1, <2>3
<1>17. ListsFirsts(PairsOf(hits, F), build, probe)
  BY <1>12, <1>14, <1>16, FirstsListed
<1>18. FoundRows(T, order, probe) = hits
  <2>1. {j \in DOMAIN order : Found(T, probe[order[j]]) # 0} = J
    BY <1>10, <1>11 DEF IsSelection
  <2> QED
    BY <1>11, <2>1 DEF FoundRows
<1>19. FoundPairs(T, hits, probe) = PairsOf(hits, F)
  BY <1>15 DEF PairsOf, FoundPairs
<1> QED
  BY <1>17, <1>18, <1>19

LEMMA DeviceListJoin ==
  ASSUME NEW n, NEW build, NEW np, NEW probe, IsPair(build, n, probe, np), Empties \notin ToSet(build),
         NEW order, order = AnyOrder(np), NEW T, T = HashTable(build)
  PROVE  ListsFirsts(FoundPairs(T, FoundRows(T, order, probe), probe), build, probe)
<1>1. PICK seq : seq = AnyOrder(n)
  OBVIOUS
<1>2. n \in Nat /\ np \in Nat
  BY DEF IsPair
<1>3. Permutes(seq, n) /\ Permutes(order, np)
  BY <1>1, <1>2, OrderIsSelection DEF Permutes
<1>4. Len(build) = n
  BY DEF IsPair
<1>5. PICK cap : cap = Capacity(n)
  OBVIOUS
<1>6. T = TableOf(build, seq, cap)
  BY <1>1, <1>4, <1>5, Zenon DEF HashTable, TableOf, NoSlots
<1>7. T = TableOf(build, seq, Capacity(n))
  BY <1>5, <1>6
<1> QED
  BY <1>3, <1>7, HashTableJoins
=============================================================================
