---------------------------- MODULE OperatorProofs ----------------------------
(***************************************************************************)
(* What the operators of the resident sets compute, for every width of a   *)
(* word and every column: 128-bit sums, partial aggregates, lanes stored   *)
(* narrow, doubles as bit patterns, WHERE, the order top-k sorts in.       *)
(* AggregateProofs has the folds that are made of these steps.             *)
(***************************************************************************)
EXTENDS CudaOperators, NativeSql, FiniteSetTheorems, FunctionTheorems, SequenceTheorems, TLAPS

\* ---- powers of two -------------------------------------------------------------
LEMMA PowerIsCount ==
  ASSUME NEW n \in Nat
  PROVE  IsFiniteSet(SUBSET (1..n)) /\ Cardinality(SUBSET (1..n)) = 2 ^ n
<1>1. IsFiniteSet(1..n) /\ Cardinality(1..n) = n
  BY FS_Interval
<1> QED
  BY <1>1, FS_SUBSET

\* The subsets of 1..n with n and those without it pair up.
LEMMA PowerDoubles ==
  ASSUME NEW n \in Nat \ {0}
  PROVE  2 ^ n \in Nat /\ 2 ^ (n - 1) \in Nat \ {0} /\ 2 ^ n = 2 * 2 ^ (n - 1)
<1> DEFINE low == SUBSET (1..(n - 1))
           high == {x \cup {n} : x \in low}
           pair == [x \in low |-> x \cup {n}]
<1>1. n - 1 \in Nat
  OBVIOUS
<1>2. IsFiniteSet(low) /\ Cardinality(low) = 2 ^ (n - 1) /\ Cardinality(low) \in Nat
  BY <1>1, PowerIsCount, FS_CardinalityType
<1>3. \A x \in low : n \notin x
  OBVIOUS
<1>4. pair \in Bijection(low, high)
  <2>1. pair \in [low -> high] /\ \A y \in high : \E x \in low : pair[x] = y
    OBVIOUS
  <2>2. ASSUME NEW x \in low, NEW y \in low, pair[x] = pair[y] PROVE x = y
    <3>1. x = (x \cup {n}) \ {n} /\ y = (y \cup {n}) \ {n}
      BY <1>3
    <3> QED
      BY <2>2, <3>1
  <2> QED
    BY <2>1, <2>2, Fun_IsBij
<1>5. IsFiniteSet(high) /\ Cardinality(high) = Cardinality(low)
  <2>1. ExistsBijection(low, high)
    BY <1>4, Fun_ExistsBij
  <2> QED
    BY <1>2, <2>1, FS_Bijection
<1>6. SUBSET (1..n) = low \cup high
  <2>1. ASSUME NEW x \in SUBSET (1..n) PROVE x \in low \cup high
    <3>1. CASE n \in x
      <4>1. x \ {n} \in low /\ x = (x \ {n}) \cup {n}
        BY <2>1, <3>1
      <4> QED
        BY <4>1
    <3>2. CASE n \notin x
      <4>1. x \in low
        BY <2>1, <3>2
      <4> QED
        BY <4>1
    <3> QED
      BY <3>1, <3>2
  <2>2. low \cup high \subseteq SUBSET (1..n)
    <3>1. 1..(n - 1) \subseteq 1..n /\ n \in 1..n
      OBVIOUS
    <3>2. \A x \in low : x \subseteq 1..n /\ x \cup {n} \subseteq 1..n
      BY <3>1
    <3>3. \A y \in high : y \in SUBSET (1..n)
      BY <3>2
    <3> QED
      BY <3>2, <3>3
  <2> QED
    BY <2>1, <2>2
<1>7. low \cap high = {}
  BY <1>3
<1>8. Cardinality({}) = 0
  BY FS_EmptySet
<1> HIDE DEF low, high
<1>9. Cardinality(SUBSET (1..n)) = Cardinality(low) + Cardinality(low)
  <2>1. Cardinality(low \cup high) = Cardinality(low) + Cardinality(high) - Cardinality(low \cap high)
    BY <1>2, <1>5, FS_Union
  <2>2. Cardinality(low \cup high) = Cardinality(low) + Cardinality(low)
    <3>1. Cardinality(low \cap high) = 0
      BY <1>7, <1>8
    <3> QED
      BY <1>2, <1>5, <2>1, <3>1
  <2> QED
    BY <1>6, <2>2
<1>10. 2 ^ n = Cardinality(low) + Cardinality(low)
  BY <1>9, PowerIsCount
<1>11. Cardinality(low) # 0
  <2>1. {} \in low
    BY DEF low
  <2> QED
    BY <1>2, <2>1, FS_EmptySet
<1> QED
  BY <1>2, <1>10, <1>11

LEMMA SpanFacts ==
  ASSUME NEW bytes \in {1, 2, 4, 8}
  PROVE  \E h \in Nat \ {0} : Span(bytes) = 2 * h /\ Span(bytes) \div 2 = h
<1>1. PICK n \in Nat \ {0} : n = bytes * ByteBits
  BY ValuesAssumption
<1>2. PICK h \in Nat \ {0} : 2 ^ n = 2 * h
  BY PowerDoubles
<1>3. Span(bytes) = 2 * h
  BY <1>1, <1>2 DEF Span
<1>4. (2 * h) \div 2 = h
  OBVIOUS
<1> QED
  BY <1>3, <1>4

\* A word and its halves.
LEMMA WordFacts == \E h \in Nat \ {0} : W = 2 * h /\ W \div 2 = h /\ MinWord = -h /\ MaxWord = h - 1
BY SpanFacts DEF W, MinWord, MaxWord

LEMMA ModBelow == ASSUME NEW w \in Nat \ {0}, NEW x \in 0..w - 1 PROVE x % w = x
OBVIOUS
LEMMA ModOnce == ASSUME NEW w \in Nat \ {0}, NEW x \in w..2 * w - 1 PROVE x % w = x - w
OBVIOUS
LEMMA ModTwice == ASSUME NEW w \in Nat \ {0}, NEW x \in 2 * w..3 * w - 1 PROVE x % w = x - 2 * w
OBVIOUS
LEMMA ModNegative == ASSUME NEW w \in Nat \ {0}, NEW x \in -w..-1 PROVE x % w = x + w
OBVIOUS
LEMMA ModNegativeTwice == ASSUME NEW w \in Nat \ {0}, NEW x \in -(2 * w)..-w - 1 PROVE x % w = x + 2 * w
OBVIOUS

\* Wrap takes the one number in a word's range that is a few words away.
LEMMA WrapIs ==
  ASSUME NEW x \in Int, NEW k \in {-2, -1, 0, 1, 2}, MinWord <= x - k * W, x - k * W <= MaxWord
  PROVE  Wrap(x) = x - k * W
<1>1. PICK h \in Nat \ {0} : W = 2 * h /\ W \div 2 = h /\ MinWord = -h /\ MaxWord = h - 1
  BY WordFacts
<1>2. Wrap(x) = IF (x % W) >= h THEN (x % W) - W ELSE x % W
  BY <1>1 DEF Wrap, Signed, W
<1>3. CASE k = 0
  <2>1. CASE x >= 0
    <3>1. x % W = x
      BY <1>1, <1>3, <2>1, ModBelow
    <3> QED
      BY <1>1, <1>2, <1>3, <2>1, <3>1
  <2>2. CASE x < 0
    <3>1. x % W = x + W
      BY <1>1, <1>3, <2>2, ModNegative
    <3> QED
      BY <1>1, <1>2, <1>3, <2>2, <3>1
  <2> QED
    BY <2>1, <2>2
<1>4. CASE k = 1
  <2>1. CASE x >= W
    <3>1. x % W = x - W
      BY <1>1, <1>4, <2>1, ModOnce
    <3> QED
      BY <1>1, <1>2, <1>4, <2>1, <3>1
  <2>2. CASE x < W
    <3>1. x % W = x
      BY <1>1, <1>4, <2>2, ModBelow
    <3> QED
      BY <1>1, <1>2, <1>4, <2>2, <3>1
  <2> QED
    BY <2>1, <2>2, <1>1
<1>5. CASE k = 2
  <2>1. CASE x >= 2 * W
    <3>1. x % W = x - 2 * W
      BY <1>1, <1>5, <2>1, ModTwice
    <3> QED
      BY <1>1, <1>2, <1>5, <2>1, <3>1
  <2>2. CASE x < 2 * W
    <3>1. x % W = x - W
      BY <1>1, <1>5, <2>2, ModOnce
    <3> QED
      BY <1>1, <1>2, <1>5, <2>2, <3>1
  <2> QED
    BY <2>1, <2>2, <1>1
<1>6. CASE k = -1
  <2>1. CASE x >= -W
    <3>1. x % W = x + W
      BY <1>1, <1>6, <2>1, ModNegative
    <3> QED
      BY <1>1, <1>2, <1>6, <2>1, <3>1
  <2>2. CASE x < -W
    <3>1. x % W = x + 2 * W
      BY <1>1, <1>6, <2>2, ModNegativeTwice
    <3> QED
      BY <1>1, <1>2, <1>6, <2>2, <3>1
  <2> QED
    BY <2>1, <2>2, <1>1
<1>7. CASE k = -2
  <2>1. CASE x >= -(2 * W)
    <3>1. x % W = x + 2 * W
      BY <1>1, <1>7, <2>1, ModNegativeTwice
    <3> QED
      BY <1>1, <1>2, <1>7, <2>1, <3>1
  <2>2. CASE x < -(2 * W)
    <3>1. x % W = x + 3 * W
      BY <1>1, <1>7, <2>2
    <3> QED
      BY <1>1, <1>2, <1>7, <2>2, <3>1
  <2> QED
    BY <2>1, <2>2, <1>1
<1> QED
  BY <1>3, <1>4, <1>5, <1>6, <1>7

\* ---- 128-bit sums ----------------------------------------------------------------
Limbs == [lo : 0..W - 1, hi : Word]

\* Wrapping twice is wrapping once.
LEMMA WrapAdds ==
  ASSUME NEW x \in Int, NEW y \in Int,
         2 * MinWord <= x, x <= 2 * MaxWord + 1, MinWord <= y, y <= MaxWord + 1
  PROVE  Wrap(Wrap(x) + y) = Wrap(x + y) /\ Wrap(x) \in Word /\ Wrap(x + y) \in Word
<1>1. PICK h \in Nat \ {0} : W = 2 * h /\ MinWord = -h /\ MaxWord = h - 1
  BY WordFacts
<1>2. PICK k \in {-1, 0, 1} : MinWord <= x - k * W /\ x - k * W <= MaxWord
  <2>1. \/ MinWord <= x - (-1) * W /\ x - (-1) * W <= MaxWord
        \/ MinWord <= x - 0 * W /\ x - 0 * W <= MaxWord
        \/ MinWord <= x - 1 * W /\ x - 1 * W <= MaxWord
    BY <1>1
  <2> QED
    BY <2>1
<1>3. PICK j \in {-1, 0, 1} : MinWord <= (x + y) - j * W /\ (x + y) - j * W <= MaxWord
  <2>1. \/ MinWord <= (x + y) - (-1) * W /\ (x + y) - (-1) * W <= MaxWord
        \/ MinWord <= (x + y) - 0 * W /\ (x + y) - 0 * W <= MaxWord
        \/ MinWord <= (x + y) - 1 * W /\ (x + y) - 1 * W <= MaxWord
    BY <1>1
  <2> QED
    BY <2>1
<1>4. Wrap(x) = x - k * W
  BY <1>2, WrapIs
<1>5. Wrap(x + y) = (x + y) - j * W
  BY <1>3, WrapIs
<1>6. k * W \in Int /\ j * W \in Int /\ j - k \in {-2, -1, 0, 1, 2} /\ (j - k) * W = j * W - k * W
  BY <1>1, <1>2, <1>3
<1>7. x - k * W + y \in Int /\ (x - k * W + y) - (j - k) * W = (x + y) - j * W
  BY <1>6
<1>8. Wrap(x - k * W + y) = (x + y) - j * W
  BY <1>3, <1>6, <1>7, WrapIs
<1>9. (x - k * W) \in Word /\ (x + y) - j * W \in Word
  BY <1>1, <1>2, <1>3, <1>6 DEF Word
<1> QED
  BY <1>4, <1>5, <1>8, <1>9

\* The low limbs add up but for the carry, which goes to the high limb.
LEMMA AddSumsIs ==
  ASSUME NEW a \in Limbs, NEW b \in Limbs
  PROVE  \E c \in {0, 1} : /\ AddSums(a, b) = [lo |-> a.lo + b.lo - c * W, hi |-> Wrap(a.hi + b.hi + c)]
                           /\ a.lo + b.lo - c * W \in 0..W - 1
<1>1. PICK h \in Nat \ {0} : W = 2 * h
  BY WordFacts
<1>2. a.lo \in 0..W - 1 /\ b.lo \in 0..W - 1
  BY DEF Limbs
<1>3. CASE a.lo + b.lo < W
  <2>1. (a.lo + b.lo) % W = a.lo + b.lo
    BY <1>1, <1>2, <1>3, ModBelow
  <2>2. Carry(a.lo + b.lo, a.lo) = 0
    BY <1>1, <1>2 DEF Carry
  <2>3. AddSums(a, b) = [lo |-> a.lo + b.lo, hi |-> Wrap(a.hi + b.hi + 0)]
    BY <2>1, <2>2 DEF AddSums
  <2>4. a.lo + b.lo - 0 * W = a.lo + b.lo /\ a.lo + b.lo \in 0..W - 1
    BY <1>1, <1>2, <1>3
  <2> QED
    BY <2>3, <2>4
<1>4. CASE ~(a.lo + b.lo < W)
  <2>1. (a.lo + b.lo) % W = a.lo + b.lo - W
    BY <1>1, <1>2, <1>4, ModOnce
  <2>2. Carry(a.lo + b.lo - W, a.lo) = 1
    BY <1>1, <1>2 DEF Carry
  <2>3. AddSums(a, b) = [lo |-> a.lo + b.lo - W, hi |-> Wrap(a.hi + b.hi + 1)]
    BY <2>1, <2>2 DEF AddSums
  <2>4. a.lo + b.lo - 1 * W = a.lo + b.lo - W /\ a.lo + b.lo - W \in 0..W - 1
    BY <1>1, <1>2, <1>4
  <2> QED
    BY <2>3, <2>4
<1> QED
  BY <1>3, <1>4

LEMMA AddSumsType ==
  ASSUME NEW a \in Limbs, NEW b \in Limbs PROVE AddSums(a, b) \in Limbs
<1>1. PICK h \in Nat \ {0} : W = 2 * h /\ MinWord = -h /\ MaxWord = h - 1
  BY WordFacts
<1>2. PICK c \in {0, 1} : /\ AddSums(a, b) = [lo |-> a.lo + b.lo - c * W, hi |-> Wrap(a.hi + b.hi + c)]
                          /\ a.lo + b.lo - c * W \in 0..W - 1
  BY AddSumsIs
<1>3. a.hi \in Word /\ b.hi \in Word
  BY DEF Limbs
<1>4. Wrap(a.hi + b.hi + c) \in Word
  <2>1. a.hi + b.hi + c \in Int /\ 2 * MinWord <= a.hi + b.hi + c /\ a.hi + b.hi + c <= 2 * MaxWord + 1
        /\ MinWord <= 0 /\ 0 <= MaxWord + 1
    BY <1>1, <1>2, <1>3 DEF Word
  <2> QED
    BY <2>1, WrapAdds
<1> QED
  BY <1>2, <1>4 DEF Limbs

\* add_sums takes its operands either way round although only one of them gives
\* the carry: a partial sum may be merged into another or the other into it.
THEOREM SumsCommute == \A a, b \in Limbs : AddSums(a, b) = AddSums(b, a)
<1> SUFFICES ASSUME NEW a \in Limbs, NEW b \in Limbs PROVE AddSums(a, b) = AddSums(b, a)
  OBVIOUS
<1>1. PICK h \in Nat \ {0} : W = 2 * h
  BY WordFacts
<1>2. a.lo \in 0..W - 1 /\ b.lo \in 0..W - 1 /\ a.hi \in Int /\ b.hi \in Int
  BY <1>1, WordFacts DEF Limbs, Word
<1>3. PICK c \in {0, 1} : /\ AddSums(a, b) = [lo |-> a.lo + b.lo - c * W, hi |-> Wrap(a.hi + b.hi + c)]
                          /\ a.lo + b.lo - c * W \in 0..W - 1
  BY AddSumsIs
<1>4. PICK d \in {0, 1} : /\ AddSums(b, a) = [lo |-> b.lo + a.lo - d * W, hi |-> Wrap(b.hi + a.hi + d)]
                          /\ b.lo + a.lo - d * W \in 0..W - 1
  BY AddSumsIs
<1>5. c = d
  BY <1>1, <1>2, <1>3, <1>4
<1>6. a.lo + b.lo - c * W = b.lo + a.lo - d * W /\ a.hi + b.hi + c = b.hi + a.hi + d
  BY <1>1, <1>2, <1>5
<1> QED
  BY <1>3, <1>4, <1>6

\* Partial sums of three workers or blocks may be added in any grouping, whatever
\* overflows on the way: the limbs wrap, the carries do not get lost.
THEOREM SumsAssociate == \A a, b, e \in Limbs : AddSums(AddSums(a, b), e) = AddSums(a, AddSums(b, e))
<1> SUFFICES ASSUME NEW a \in Limbs, NEW b \in Limbs, NEW e \in Limbs
             PROVE  AddSums(AddSums(a, b), e) = AddSums(a, AddSums(b, e))
  OBVIOUS
<1>1. PICK h \in Nat \ {0} : W = 2 * h /\ MinWord = -h /\ MaxWord = h - 1
  BY WordFacts
<1>2. /\ a.lo \in 0..W - 1 /\ b.lo \in 0..W - 1 /\ e.lo \in 0..W - 1
      /\ a.hi \in Word /\ b.hi \in Word /\ e.hi \in Word
  BY DEF Limbs
<1>3. PICK c1 \in {0, 1} : /\ AddSums(a, b) = [lo |-> a.lo + b.lo - c1 * W, hi |-> Wrap(a.hi + b.hi + c1)]
                           /\ a.lo + b.lo - c1 * W \in 0..W - 1
  BY AddSumsIs
<1>4. PICK c3 \in {0, 1} : /\ AddSums(b, e) = [lo |-> b.lo + e.lo - c3 * W, hi |-> Wrap(b.hi + e.hi + c3)]
                           /\ b.lo + e.lo - c3 * W \in 0..W - 1
  BY AddSumsIs
<1> DEFINE l == a.lo + b.lo - c1 * W
           r == b.lo + e.lo - c3 * W
           lh == Wrap(a.hi + b.hi + c1)
           rh == Wrap(b.hi + e.hi + c3)
<1>5. PICK c2 \in {0, 1} : /\ AddSums(AddSums(a, b), e) = [lo |-> l + e.lo - c2 * W, hi |-> Wrap(lh + e.hi + c2)]
                           /\ l + e.lo - c2 * W \in 0..W - 1
  <2>1. AddSums(a, b) \in Limbs
    BY AddSumsType
  <2>2. PICK c \in {0, 1} :
           /\ AddSums(AddSums(a, b), e) = [lo |-> AddSums(a, b).lo + e.lo - c * W, hi |-> Wrap(AddSums(a, b).hi + e.hi + c)]
           /\ AddSums(a, b).lo + e.lo - c * W \in 0..W - 1
    BY <2>1, AddSumsIs
  <2>3. AddSums(a, b).lo = l /\ AddSums(a, b).hi = lh
    BY <1>3
  <2> HIDE DEF l, lh
  <2> QED
    BY <2>2, <2>3
<1>6. PICK c4 \in {0, 1} : /\ AddSums(a, AddSums(b, e)) = [lo |-> a.lo + r - c4 * W, hi |-> Wrap(a.hi + rh + c4)]
                           /\ a.lo + r - c4 * W \in 0..W - 1
  <2>1. AddSums(b, e) \in Limbs
    BY AddSumsType
  <2>2. PICK c \in {0, 1} :
           /\ AddSums(a, AddSums(b, e)) = [lo |-> a.lo + AddSums(b, e).lo - c * W, hi |-> Wrap(a.hi + AddSums(b, e).hi + c)]
           /\ a.lo + AddSums(b, e).lo - c * W \in 0..W - 1
    BY <2>1, AddSumsIs
  <2>3. AddSums(b, e).lo = r /\ AddSums(b, e).hi = rh
    BY <1>4
  <2> HIDE DEF r, rh
  <2> QED
    BY <2>2, <2>3
<1>7. c1 + c2 = c3 + c4
  BY <1>1, <1>2, <1>3, <1>4, <1>5, <1>6
<1>8. l + e.lo - c2 * W = a.lo + r - c4 * W
  <2>1. a.lo \in Int /\ b.lo \in Int /\ e.lo \in Int /\ W \in Int
    BY <1>1, <1>2
  <2>2. (c1 + c2) * W = c1 * W + c2 * W /\ (c3 + c4) * W = c3 * W + c4 * W
    BY <2>1
  <2>3. c1 * W + c2 * W = c3 * W + c4 * W
    BY <1>7, <2>2
  <2>4. c1 * W \in Int /\ c2 * W \in Int /\ c3 * W \in Int /\ c4 * W \in Int
    BY <2>1
  <2> QED
    BY <2>1, <2>3, <2>4
<1>9. Wrap(lh + e.hi + c2) = Wrap((a.hi + b.hi + c1) + (e.hi + c2)) /\ lh \in Int
  <2>1. /\ a.hi + b.hi + c1 \in Int /\ e.hi + c2 \in Int
        /\ 2 * MinWord <= a.hi + b.hi + c1 /\ a.hi + b.hi + c1 <= 2 * MaxWord + 1
        /\ MinWord <= e.hi + c2 /\ e.hi + c2 <= MaxWord + 1
    BY <1>1, <1>2 DEF Word
  <2>2. Wrap(lh + (e.hi + c2)) = Wrap((a.hi + b.hi + c1) + (e.hi + c2)) /\ lh \in Word
    BY <2>1, WrapAdds
  <2>3. lh \in Int /\ e.hi \in Int /\ lh + (e.hi + c2) = lh + e.hi + c2
    <3> HIDE DEF lh
    <3> QED
      BY <1>1, <1>2, <2>2 DEF Word
  <2> QED
    BY <2>2, <2>3
<1>10. Wrap(a.hi + rh + c4) = Wrap((b.hi + e.hi + c3) + (a.hi + c4))
  <2>1. /\ b.hi + e.hi + c3 \in Int /\ a.hi + c4 \in Int
        /\ 2 * MinWord <= b.hi + e.hi + c3 /\ b.hi + e.hi + c3 <= 2 * MaxWord + 1
        /\ MinWord <= a.hi + c4 /\ a.hi + c4 <= MaxWord + 1
    BY <1>1, <1>2 DEF Word
  <2>2. Wrap(rh + (a.hi + c4)) = Wrap((b.hi + e.hi + c3) + (a.hi + c4)) /\ rh \in Word
    BY <2>1, WrapAdds
  <2>3. rh + (a.hi + c4) = a.hi + rh + c4
    <3> HIDE DEF rh
    <3> QED
      BY <1>1, <1>2, <2>2 DEF Word
  <2> QED
    BY <2>2, <2>3
<1>11. (a.hi + b.hi + c1) + (e.hi + c2) = (b.hi + e.hi + c3) + (a.hi + c4)
  BY <1>1, <1>2, <1>7 DEF Word
<1> QED
  BY <1>5, <1>6, <1>8, <1>9, <1>10, <1>11

\* ---- the numbers the limbs stand for ------------------------------------------
\* The numbers of 128 bits.
Wide128 == MinWord * W .. MaxWord * W + (W - 1)

\* A number has one quotient and one remainder.
LEMMA HighLimb ==
  ASSUME NEW w \in Nat \ {0}, NEW x \in Int, NEW y \in Int, NEW r \in 0..w - 1, NEW s \in 0..w - 1
  PROVE  x * w + r < y * w + s <=> x < y \/ (x = y /\ r < s)
<1>1. x * w \in Int /\ y * w \in Int /\ (y - x) * w = y * w - x * w /\ (x - y) * w = x * w - y * w
  OBVIOUS
<1>2. ASSUME NEW d \in Int, d >= 1 PROVE d * w >= w
  BY <1>2
<1>3. CASE x < y
  <2>1. (y - x) * w >= w
    BY <1>2, <1>3
  <2> QED
    BY <1>1, <1>3, <2>1
<1>4. CASE y < x
  <2>1. (x - y) * w >= w
    BY <1>2, <1>4
  <2> QED
    BY <1>1, <1>4, <2>1
<1> QED
  BY <1>1, <1>3, <1>4

\* sum_less of two 128-bit sums is the order of the numbers they stand for: HAVING
\* and top-k on a sum rank what hugeint shows.
THEOREM LimbsAreOrdered == \A a, b \in Limbs : SumLess(a, b) <=> Number(a) < Number(b)
<1> SUFFICES ASSUME NEW a \in Limbs, NEW b \in Limbs PROVE SumLess(a, b) <=> Number(a) < Number(b)
  OBVIOUS
<1>1. W \in Nat \ {0} /\ MinWord \in Int /\ MaxWord \in Int
  BY WordFacts
<1>2. a.lo \in 0..W - 1 /\ b.lo \in 0..W - 1 /\ a.hi \in Int /\ b.hi \in Int
  BY <1>1 DEF Limbs, Word
<1>3. a.hi * W + a.lo < b.hi * W + b.lo <=> a.hi < b.hi \/ (a.hi = b.hi /\ a.lo < b.lo)
  BY <1>1, <1>2, HighLimb
<1> QED
  BY <1>2, <1>3 DEF SumLess, Number

\* add_sums loses nothing: unless the true total leaves 128 bits, the limbs with
\* their carry stand for it, whatever the signs.
THEOREM SumsAreExact ==
  \A a, b \in Limbs : Number(a) + Number(b) \in Wide128 => Number(AddSums(a, b)) = Number(a) + Number(b)
<1> SUFFICES ASSUME NEW a \in Limbs, NEW b \in Limbs, Number(a) + Number(b) \in Wide128
             PROVE  Number(AddSums(a, b)) = Number(a) + Number(b)
  OBVIOUS
<1>1. PICK h \in Nat \ {0} : W = 2 * h /\ MinWord = -h /\ MaxWord = h - 1
  BY WordFacts
<1>2. PICK c \in {0, 1} : /\ AddSums(a, b) = [lo |-> a.lo + b.lo - c * W, hi |-> Wrap(a.hi + b.hi + c)]
                           /\ a.lo + b.lo - c * W \in 0..W - 1
  BY AddSumsIs
<1>3. PICK n \in Int : n = a.hi + b.hi + c
  BY <1>1 DEF Limbs, Word
<1>4. PICK l \in 0..W - 1 : l = a.lo + b.lo - c * W
  BY <1>2
<1>5. a.lo \in Int /\ b.lo \in Int /\ a.hi \in Int /\ b.hi \in Int /\ W \in Nat \ {0} /\ 0 \in 0..W - 1 /\ W - 1 \in 0..W - 1
  BY <1>1 DEF Limbs, Word
<1>6. n * W + l = Number(a) + Number(b)
  <2>1. n * W = a.hi * W + b.hi * W + c * W
    BY <1>3, <1>5
  <2>2. a.hi * W \in Int /\ b.hi * W \in Int /\ c * W \in Int
    BY <1>5
  <2> QED
    BY <1>4, <1>5, <2>1, <2>2 DEF Number
<1>7. n * W + l \in Int /\ ~(n * W + l < MinWord * W + 0) /\ ~(MaxWord * W + (W - 1) < n * W + l)
  <2>1. MinWord * W \in Int /\ MaxWord * W \in Int /\ n * W \in Int
    BY <1>1
  <2> QED
    BY <1>5, <1>6, <2>1 DEF Wide128
<1>8. ~(n < MinWord) /\ ~(MaxWord < n)
  <2>1. n * W + l < MinWord * W + 0 <=> n < MinWord \/ (n = MinWord /\ l < 0)
    BY <1>1, <1>5, HighLimb
  <2>2. MaxWord * W + (W - 1) < n * W + l <=> MaxWord < n \/ (MaxWord = n /\ W - 1 < l)
    BY <1>1, <1>5, HighLimb
  <2> QED
    BY <1>7, <2>1, <2>2
<1>9. Wrap(n) = n
  <2>1. n - 0 * W = n /\ MinWord <= n /\ n <= MaxWord
    BY <1>1, <1>8
  <2> QED
    BY <2>1, WrapIs
<1> QED
  BY <1>2, <1>3, <1>4, <1>6, <1>9 DEF Number

\* A 64-bit value widened to two limbs stands for itself, negative ones included.
THEOREM WordsAreExact == \A v \in Word : SumOf(v) \in Limbs /\ Number(SumOf(v)) = v
<1> SUFFICES ASSUME NEW v \in Word PROVE SumOf(v) \in Limbs /\ Number(SumOf(v)) = v
  OBVIOUS
<1>1. PICK h \in Nat \ {0} : W = 2 * h /\ MinWord = -h /\ MaxWord = h - 1
  BY WordFacts
<1>2. v \in -h..h - 1
  BY <1>1 DEF Word
<1>3. CASE v < 0
  <2>1. v % W = v + W
    <3>1. v \in -W..-1 /\ W \in Nat \ {0}
      BY <1>1, <1>2, <1>3
    <3> QED
      BY <3>1, ModNegative
  <2>2. SumOf(v) = [lo |-> v + W, hi |-> -1]
    BY <1>3, <2>1 DEF SumOf, SignLimb
  <2> QED
    BY <1>1, <1>2, <1>3, <2>2 DEF Limbs, Word, Number
<1>4. CASE v >= 0
  <2>1. v % W = v
    BY <1>1, <1>2, <1>4, ModBelow
  <2>2. SumOf(v) = [lo |-> v, hi |-> 0]
    BY <1>2, <1>4, <2>1 DEF SumOf, SignLimb
  <2> QED
    BY <1>1, <1>2, <1>4, <2>2 DEF Limbs, Word, Number
<1> QED
  BY <1>2, <1>3, <1>4

\* Adding a value is adding the sum that holds it alone.
LEMMA AddValueIs == ASSUME NEW s, NEW v PROVE AddValue(s, v) = AddSums(s, SumOf(v))
BY DEF AddValue, AddSums, SumOf

\* ---- partial aggregates -----------------------------------------------------------
LEMMA MinOfTwo == ASSUME NEW a \in Int, NEW b \in Int PROVE Min({a, b}) = IF a <= b THEN a ELSE b
<1>1. PICK m \in {a, b} : \A y \in {a, b} : m <= y
  OBVIOUS
<1>2. \A z \in {a, b} : (\A y \in {a, b} : z <= y) => z = m
  BY <1>1
<1>3. Min({a, b}) \in {a, b} /\ \A y \in {a, b} : Min({a, b}) <= y
  BY <1>1 DEF Min
<1> QED
  BY <1>1, <1>3

LEMMA MaxOfTwo == ASSUME NEW a \in Int, NEW b \in Int PROVE Max({a, b}) = IF a >= b THEN a ELSE b
<1>1. PICK m \in {a, b} : \A y \in {a, b} : m >= y
  OBVIOUS
<1>3. Max({a, b}) \in {a, b} /\ \A y \in {a, b} : Max({a, b}) >= y
  BY <1>1 DEF Max
<1> QED
  BY <1>1, <1>3

LEMMA TupleParts ==
  ASSUME NEW t \in Tuple
  PROVE  /\ t.sum \in Limbs /\ t.cnt \in Nat /\ t.star \in Nat /\ t.mn \in Word /\ t.mx \in Word
         /\ t = [sum |-> t.sum, cnt |-> t.cnt, star |-> t.star, mn |-> t.mn, mx |-> t.mx]
BY DEF Tuple, Limbs, Word

LEMMA WordsAreInts == Word \subseteq Int /\ MinWord \in Word /\ MaxWord \in Word /\ 0 \in Word
BY WordFacts DEF Word

LEMMA ExtremesType ==
  ASSUME NEW x \in Word, NEW y \in Word PROVE Min({x, y}) \in Word /\ Max({x, y}) \in Word
BY WordsAreInts, MinOfTwo, MaxOfTwo

LEMMA CombinedType == ASSUME NEW a \in Tuple, NEW b \in Tuple PROVE Combined(a, b) \in Tuple
<1>1. AddSums(a.sum, b.sum) \in Limbs
  BY TupleParts, AddSumsType
<1>2. Min({a.mn, b.mn}) \in Word /\ Max({a.mx, b.mx}) \in Word
  BY TupleParts, ExtremesType
<1> QED
  BY <1>1, <1>2, TupleParts DEF Combined, Tuple, Limbs, Word

\* Two partial aggregates may be combined either way round: workers, blocks and
\* replicas that finish in any order give the same group.
THEOREM PartsCommute == \A a, b \in Tuple : Combined(a, b) = Combined(b, a)
<1> SUFFICES ASSUME NEW a \in Tuple, NEW b \in Tuple PROVE Combined(a, b) = Combined(b, a)
  OBVIOUS
<1>1. AddSums(a.sum, b.sum) = AddSums(b.sum, a.sum)
  BY TupleParts, SumsCommute
<1>2. a.cnt + b.cnt = b.cnt + a.cnt /\ a.star + b.star = b.star + a.star
  BY TupleParts
<1>3. {a.mn, b.mn} = {b.mn, a.mn} /\ {a.mx, b.mx} = {b.mx, a.mx}
  OBVIOUS
<1> QED
  BY <1>1, <1>2, <1>3 DEF Combined

\* Partial aggregates may be combined in any grouping: chunks of the CPU, halves of a
\* device reduction and replicas of the direct reduce agree, overflow included.
THEOREM PartsAssociate ==
  \A a, b, c \in Tuple : Combined(Combined(a, b), c) = Combined(a, Combined(b, c))
<1> SUFFICES ASSUME NEW a \in Tuple, NEW b \in Tuple, NEW c \in Tuple
             PROVE  Combined(Combined(a, b), c) = Combined(a, Combined(b, c))
  OBVIOUS
<1>1. AddSums(AddSums(a.sum, b.sum), c.sum) = AddSums(a.sum, AddSums(b.sum, c.sum))
  BY TupleParts, SumsAssociate
<1>2. /\ (a.cnt + b.cnt) + c.cnt = a.cnt + (b.cnt + c.cnt)
      /\ (a.star + b.star) + c.star = a.star + (b.star + c.star)
  BY TupleParts
<1>3. Min({Min({a.mn, b.mn}), c.mn}) = Min({a.mn, Min({b.mn, c.mn})})
  <2>1. a.mn \in Int /\ b.mn \in Int /\ c.mn \in Int
    BY TupleParts, WordsAreInts
  <2>2. Min({a.mn, b.mn}) = IF a.mn <= b.mn THEN a.mn ELSE b.mn
    BY <2>1, MinOfTwo
  <2>3. Min({b.mn, c.mn}) = IF b.mn <= c.mn THEN b.mn ELSE c.mn
    BY <2>1, MinOfTwo
  <2>4. Min({Min({a.mn, b.mn}), c.mn}) = IF Min({a.mn, b.mn}) <= c.mn THEN Min({a.mn, b.mn}) ELSE c.mn
    BY <2>1, <2>2, MinOfTwo
  <2>5. Min({a.mn, Min({b.mn, c.mn})}) = IF a.mn <= Min({b.mn, c.mn}) THEN a.mn ELSE Min({b.mn, c.mn})
    BY <2>1, <2>3, MinOfTwo
  <2> QED
    BY <2>1, <2>2, <2>3, <2>4, <2>5
<1>4. Max({Max({a.mx, b.mx}), c.mx}) = Max({a.mx, Max({b.mx, c.mx})})
  <2>1. a.mx \in Int /\ b.mx \in Int /\ c.mx \in Int
    BY TupleParts, WordsAreInts
  <2>2. Max({a.mx, b.mx}) = IF a.mx >= b.mx THEN a.mx ELSE b.mx
    BY <2>1, MaxOfTwo
  <2>3. Max({b.mx, c.mx}) = IF b.mx >= c.mx THEN b.mx ELSE c.mx
    BY <2>1, MaxOfTwo
  <2>4. Max({Max({a.mx, b.mx}), c.mx}) = IF Max({a.mx, b.mx}) >= c.mx THEN Max({a.mx, b.mx}) ELSE c.mx
    BY <2>1, <2>2, MaxOfTwo
  <2>5. Max({a.mx, Max({b.mx, c.mx})}) = IF a.mx >= Max({b.mx, c.mx}) THEN a.mx ELSE Max({b.mx, c.mx})
    BY <2>1, <2>3, MaxOfTwo
  <2> QED
    BY <2>1, <2>2, <2>3, <2>4, <2>5
<1> QED
  BY <1>1, <1>2, <1>3, <1>4 DEF Combined

LEMMA EmptyType == NoTuple \in Tuple /\ ZeroSum \in Limbs
BY WordFacts DEF NoTuple, ZeroSum, Tuple, Limbs, Word

\* The accumulator a kernel starts from (identities of min and max, no rows) changes
\* nothing when it is combined with a partial aggregate.
THEOREM NothingAddsNothing == \A t \in Tuple : Combined(NoTuple, t) = t
<1> SUFFICES ASSUME NEW t \in Tuple PROVE Combined(NoTuple, t) = t
  OBVIOUS
<1>1. AddSums(ZeroSum, t.sum) = t.sum
  <2>1. PICK h \in Nat \ {0} : W = 2 * h /\ MinWord = -h /\ MaxWord = h - 1
    BY WordFacts
  <2>2. t.sum \in Limbs /\ t.sum.lo \in 0..W - 1 /\ t.sum.hi \in Word
    BY TupleParts DEF Limbs
  <2>3. (0 + t.sum.lo) % W = t.sum.lo /\ Carry(t.sum.lo, 0) = 0
    <3>1. W \in Nat \ {0} /\ t.sum.lo \in Int /\ 0 + t.sum.lo = t.sum.lo /\ ~(t.sum.lo < 0)
      BY <2>1, <2>2
    <3>2. t.sum.lo % W = t.sum.lo
      BY <2>2, <3>1, ModBelow
    <3> QED
      BY <3>1, <3>2 DEF Carry
  <2>4. Wrap(t.sum.hi) = t.sum.hi
    <3>1. t.sum.hi - 0 * W = t.sum.hi /\ MinWord <= t.sum.hi /\ t.sum.hi <= MaxWord /\ t.sum.hi \in Int
      BY <2>1, <2>2 DEF Word
    <3> QED
      BY <3>1, WrapIs
  <2>5. 0 + t.sum.hi + 0 = t.sum.hi
    BY <2>1, <2>2 DEF Word
  <2>6. AddSums(ZeroSum, t.sum) = [lo |-> t.sum.lo, hi |-> t.sum.hi]
    BY <2>3, <2>4, <2>5 DEF AddSums, ZeroSum
  <2> QED
    BY <2>2, <2>6 DEF Limbs
<1>2. 0 + t.cnt = t.cnt /\ 0 + t.star = t.star
  BY TupleParts
<1>3. Min({MaxWord, t.mn}) = t.mn /\ Max({MinWord, t.mx}) = t.mx
  <2>1. t.mn \in Int /\ t.mx \in Int /\ t.mn <= MaxWord /\ MinWord <= t.mx /\ MaxWord \in Int /\ MinWord \in Int
    BY TupleParts, WordsAreInts, WordFacts DEF Word
  <2> QED
    BY <2>1, MinOfTwo, MaxOfTwo
<1>4. Combined(NoTuple, t) = [sum |-> t.sum, cnt |-> t.cnt, star |-> t.star, mn |-> t.mn, mx |-> t.mx]
  BY <1>1, <1>2, <1>3 DEF Combined, NoTuple
<1> QED
  BY <1>4, TupleParts

\* A row the statement counts holds a word.
Counts(v, i) == v # NoLane /\ IsValid(v, i)

\* The accumulator's step is a combination with one row's aggregate: a CPU loop that
\* adds rows and a kernel that merges one-row parts compute the same thing.
THEOREM RowsAreParts ==
  ASSUME NEW t \in Tuple, NEW v, NEW i, Counts(v, i) => Cell(v, i) \in Word
  PROVE  AddRow(t, v, i) = Combined(t, RowTuple(v, i)) /\ RowTuple(v, i) \in Tuple
<1>1. t = [sum |-> t.sum, cnt |-> t.cnt, star |-> t.star, mn |-> t.mn, mx |-> t.mx]
      /\ t.cnt \in Nat /\ t.star \in Nat /\ t.mn \in Word /\ t.mx \in Word /\ t.sum \in Limbs
  BY TupleParts
<1>2. Combined(t, NoTuple) = t
  BY EmptyType, PartsCommute, NothingAddsNothing
<1>3. AddSums(t.sum, ZeroSum) = t.sum /\ Min({t.mn, MaxWord}) = t.mn /\ Max({t.mx, MinWord}) = t.mx
  <2>1. Combined(t, NoTuple).sum = AddSums(t.sum, ZeroSum) /\ Combined(t, NoTuple).mn = Min({t.mn, MaxWord})
        /\ Combined(t, NoTuple).mx = Max({t.mx, MinWord})
    BY DEF Combined, NoTuple
  <2> QED
    BY <1>2, <2>1
<1>4. CASE v = NoLane
  <2>1. PICK n \in Tuple : n = NoTuple
    BY EmptyType
  <2>2. RowTuple(v, i) = [sum |-> ZeroSum, cnt |-> 1, star |-> 1, mn |-> MaxWord, mx |-> MinWord]
    <3>1. n = [sum |-> n.sum, cnt |-> n.cnt, star |-> n.star, mn |-> n.mn, mx |-> n.mx]
      BY TupleParts
    <3>2. AddRow(n, v, i) = [sum |-> n.sum, cnt |-> n.cnt + 1, star |-> n.star + 1, mn |-> n.mn, mx |-> n.mx]
      BY <1>4, <3>1 DEF AddRow
    <3>3. n.sum = ZeroSum /\ n.cnt + 1 = 1 /\ n.star + 1 = 1 /\ n.mn = MaxWord /\ n.mx = MinWord
      BY <2>1 DEF NoTuple
    <3> QED
      BY <2>1, <3>2, <3>3 DEF RowTuple
  <2>3. AddRow(t, v, i) = [sum |-> t.sum, cnt |-> t.cnt + 1, star |-> t.star + 1, mn |-> t.mn, mx |-> t.mx]
    BY <1>1, <1>4 DEF AddRow
  <2>4. Combined(t, RowTuple(v, i)) = [sum |-> t.sum, cnt |-> t.cnt + 1, star |-> t.star + 1, mn |-> t.mn, mx |-> t.mx]
    BY <1>3, <2>2 DEF Combined
  <2> QED
    BY <2>2, <2>3, <2>4, EmptyType, WordsAreInts DEF Tuple, Limbs, Word
<1>5. CASE v # NoLane /\ ~IsValid(v, i)
  <2>1. RowTuple(v, i) = [sum |-> ZeroSum, cnt |-> 0, star |-> 1, mn |-> MaxWord, mx |-> MinWord]
    BY <1>5 DEF RowTuple, AddRow, NoTuple
  <2>2. AddRow(t, v, i) = [sum |-> t.sum, cnt |-> t.cnt, star |-> t.star + 1, mn |-> t.mn, mx |-> t.mx]
    BY <1>1, <1>5 DEF AddRow
  <2>3. Combined(t, RowTuple(v, i)) = [sum |-> t.sum, cnt |-> t.cnt + 0, star |-> t.star + 1, mn |-> t.mn, mx |-> t.mx]
    BY <1>3, <2>1 DEF Combined
  <2> QED
    BY <1>1, <2>1, <2>2, <2>3, EmptyType, WordsAreInts DEF Tuple, Limbs, Word
<1>6. CASE v # NoLane /\ IsValid(v, i)
  <2>1. PICK x \in Word : x = Cell(v, i)
    BY <1>6 DEF Counts
  <2>2. AddRow(t, v, i) = [sum |-> AddSums(t.sum, SumOf(x)), cnt |-> t.cnt + 1, star |-> t.star + 1,
                           mn |-> Min({t.mn, x}), mx |-> Max({t.mx, x})]
    BY <1>1, <1>6, <2>1, AddValueIs DEF AddRow
  <2>3. RowTuple(v, i) = [sum |-> AddSums(ZeroSum, SumOf(x)), cnt |-> 0 + 1, star |-> 0 + 1,
                          mn |-> Min({MaxWord, x}), mx |-> Max({MinWord, x})]
    BY <1>6, <2>1, AddValueIs DEF RowTuple, AddRow, NoTuple
  <2>4. SumOf(x) \in Limbs
    BY WordsAreExact
  <2>5. AddSums(ZeroSum, SumOf(x)) = SumOf(x) /\ Min({MaxWord, x}) = x /\ Max({MinWord, x}) = x
    <3>1. PICK one \in Tuple : one = [sum |-> SumOf(x), cnt |-> 0, star |-> 0, mn |-> x, mx |-> x]
      BY <2>4 DEF Tuple, Limbs, Word
    <3>2. Combined(NoTuple, one) = one
      BY NothingAddsNothing
    <3>3. Combined(NoTuple, one).sum = AddSums(ZeroSum, SumOf(x)) /\ Combined(NoTuple, one).mn = Min({MaxWord, x})
          /\ Combined(NoTuple, one).mx = Max({MinWord, x})
      BY <3>1 DEF Combined, NoTuple
    <3> QED
      BY <3>1, <3>2, <3>3
  <2>6. RowTuple(v, i) = [sum |-> SumOf(x), cnt |-> 1, star |-> 1, mn |-> x, mx |-> x]
    BY <2>3, <2>5
  <2>7. Combined(t, RowTuple(v, i)) = [sum |-> AddSums(t.sum, SumOf(x)), cnt |-> t.cnt + 1, star |-> t.star + 1,
                                       mn |-> Min({t.mn, x}), mx |-> Max({t.mx, x})]
    BY <2>6 DEF Combined
  <2> QED
    BY <2>2, <2>4, <2>6, <2>7 DEF Tuple, Limbs, Word
<1> QED
  BY <1>4, <1>5, <1>6

\* ---- narrow storage ------------------------------------------------------------
\* The numbers a width holds.
Held(width) == -(Span(width) \div 2) .. Span(width) \div 2 - 1

LEMMA StoredReadsBack ==
  ASSUME NEW width \in {1, 2, 4, 8}, NEW x \in Held(width)
  PROVE  Signed(Stored(x, width), width) = x /\ (width = 8 => Signed(x, width) = x)
<1>1. PICK h \in Nat \ {0} : Span(width) = 2 * h /\ Span(width) \div 2 = h
  BY SpanFacts
<1>2. x \in -h..h - 1
  BY <1>1 DEF Held
<1>3. CASE x < 0
  <2>1. x \in -(2 * h)..-1 /\ 2 * h \in Nat \ {0}
    BY <1>1, <1>2, <1>3
  <2>2. x % (2 * h) = x + 2 * h
    BY <2>1, ModNegative
  <2>3. Stored(x, width) = x + 2 * h
    BY <1>1, <2>2 DEF Stored
  <2> QED
    BY <1>1, <1>2, <1>3, <2>3 DEF Signed
<1>4. CASE x >= 0
  <2>1. x \in 0..(2 * h) - 1 /\ 2 * h \in Nat \ {0}
    BY <1>1, <1>2, <1>4
  <2>2. x % (2 * h) = x
    BY <2>1, ModBelow
  <2>3. Stored(x, width) = x
    BY <1>1, <2>2 DEF Stored
  <2> QED
    BY <1>1, <1>2, <1>4, <2>3 DEF Signed
<1> QED
  BY <1>2, <1>3, <1>4

LEMMA WidthHolds ==
  ASSUME NEW vals, \A i \in DOMAIN vals : vals[i] \in Word
  PROVE  LaneWidth(vals) \in {1, 2, 4, 8} /\ \A i \in DOMAIN vals : vals[i] \in Held(LaneWidth(vals))
<1> DEFINE Fits(w) == \A i \in DOMAIN vals : vals[i] >= -(Span(w) \div 2) /\ vals[i] <= Span(w) \div 2 - 1
           Right(w) == (w = 8 \/ Fits(w)) /\ \A u \in {1, 2, 4} : u < w => ~Fits(u)
<1>1. \E w \in {1, 2, 4, 8} : Right(w)
  <2> HIDE DEF Fits
  <2>1. CASE Fits(1)
    <3>1. Right(1)
      BY <2>1
    <3> QED
      BY <3>1
  <2>2. CASE ~Fits(1) /\ Fits(2)
    <3>1. Right(2)
      BY <2>2
    <3> QED
      BY <3>1
  <2>3. CASE ~Fits(1) /\ ~Fits(2) /\ Fits(4)
    <3>1. Right(4)
      BY <2>3
    <3> QED
      BY <3>1
  <2>4. CASE ~Fits(1) /\ ~Fits(2) /\ ~Fits(4)
    <3>1. Right(8)
      BY <2>4
    <3> QED
      BY <3>1
  <2> QED
    BY <2>1, <2>2, <2>3, <2>4
<1>2. LaneWidth(vals) = CHOOSE w \in {1, 2, 4, 8} : Right(w)
  BY DEF LaneWidth
<1>3. LaneWidth(vals) \in {1, 2, 4, 8} /\ Right(LaneWidth(vals))
  <2> HIDE DEF Right
  <2> QED
    BY <1>1, <1>2
<1>4. Fits(8)
  <2>1. \A i \in DOMAIN vals : vals[i] >= MinWord /\ vals[i] <= MaxWord
    BY WordsAreInts DEF Word
  <2> QED
    BY <2>1 DEF MinWord, MaxWord, W
<1>5. PICK w \in {1, 2, 4, 8} : w = LaneWidth(vals)
  BY <1>3
<1>6. Fits(w)
  BY <1>3, <1>4, <1>5
<1>7. PICK h \in Nat \ {0} : Span(w) \div 2 = h
  BY <1>5, SpanFacts
<1>8. \A i \in DOMAIN vals : vals[i] \in Int
  BY WordsAreInts
<1>9. \A i \in DOMAIN vals : vals[i] \in Held(w)
  BY <1>6, <1>7, <1>8 DEF Held
<1> QED
  BY <1>5, <1>9

\* What an exact upload packs at the narrowest width is what the kernels read back,
\* cell by cell, whether or not the second buffer could be had; the NULLs are the host's.
THEOREM LanesReadBack ==
  ASSUME NEW cells, \A i \in DOMAIN cells : cells[i] \in Word \cup {NoCell}, NEW packs
  PROVE  /\ DOMAIN DeviceColumn("i64", cells, packs).data = DOMAIN cells
         /\ \A i \in DOMAIN cells :
               Load(DeviceColumn("i64", cells, packs), i) = HostColumn("i64", cells).data[i]
         /\ DeviceColumn("i64", cells, packs).valid = HostColumn("i64", cells).valid
<1> DEFINE host == HostColumn("i64", cells)
           w == IF "i64" = "i64" /\ cells # <<>> /\ packs THEN LaneWidth(host.data) ELSE 8
           dev == DeviceColumn("i64", cells, packs)
<1>1. /\ DOMAIN host.data = DOMAIN cells
      /\ \A i \in DOMAIN cells : host.data[i] = IF cells[i] = NoCell THEN 0 ELSE cells[i]
  BY DEF HostColumn
<1>2. \A i \in DOMAIN host.data : host.data[i] \in Word
  BY <1>1, WordsAreInts
<1>3. w \in {1, 2, 4, 8} /\ \A i \in DOMAIN host.data : host.data[i] \in Held(w)
  <2>1. Word = Held(8)
    BY DEF Word, Held, MinWord, MaxWord, W
  <2>2. LaneWidth(host.data) \in {1, 2, 4, 8} /\ \A i \in DOMAIN host.data : host.data[i] \in Held(LaneWidth(host.data))
    <3> HIDE DEF host
    <3> QED
      BY <1>2, WidthHolds
  <2> HIDE DEF host
  <2> QED
    BY <1>2, <2>1, <2>2
<1>4. /\ dev.dtype = "i64" /\ dev.width = w /\ dev.valid = host.valid
      /\ dev.data = [i \in DOMAIN host.data |-> IF w = 8 THEN host.data[i] ELSE Stored(host.data[i], w)]
  BY DEF DeviceColumn, HostColumn
<1>5. ASSUME NEW i \in DOMAIN cells PROVE Load(dev, i) = host.data[i]
  <2> HIDE DEF dev, host, w
  <2>1. dev.data[i] = (IF w = 8 THEN host.data[i] ELSE Stored(host.data[i], w)) /\ host.data[i] \in Held(w)
    BY <1>1, <1>3, <1>4
  <2>2. Load(dev, i) = Signed(dev.data[i], w)
    BY <1>4 DEF Load
  <2>3. Signed(Stored(host.data[i], w), w) = host.data[i] /\ (w = 8 => Signed(host.data[i], w) = host.data[i])
    BY <1>3, <2>1, StoredReadsBack
  <2> QED
    BY <2>1, <2>2, <2>3
<1> QED
  BY <1>1, <1>4, <1>5

\* ---- doubles as bit patterns ----------------------------------------------------
LEMMA DivMod ==
  ASSUME NEW m \in Nat \ {0}, NEW e \in Int, NEW r \in 0..m - 1
  PROVE  (e * m + r) \div m = e /\ (e * m + r) % m = r
<1>1. PICK x \in Int : x = e * m + r
  OBVIOUS
<1>2. PICK q \in Int : q = x \div m
  OBVIOUS
<1>3. PICK s \in 0..m - 1 : s = x % m
  OBVIOUS
<1>4. x = q * m + s
  <2>1. x = m * (x \div m) + (x % m)
    OBVIOUS
  <2> QED
    BY <1>2, <1>3, <2>1
<1>5. ~(e * m + r < q * m + s) /\ ~(q * m + s < e * m + r)
  <2>1. e * m + r \in Int /\ q * m + s \in Int /\ e * m + r = q * m + s
    BY <1>1, <1>4
  <2> QED
    BY <2>1
<1>6. ~(e < q \/ (e = q /\ r < s)) /\ ~(q < e \/ (q = e /\ s < r))
  BY <1>5, HighLimb
<1>7. e = q /\ r = s
  BY <1>6
<1> QED
  BY <1>1, <1>2, <1>3, <1>7

\* A word has eight bits at least: a sign, three of exponent, four of mantissa.
LEMMA DoubleFacts == \E m \in Nat : m >= 2 /\ W = 16 * m /\ W \div 2 = 8 * m /\ ManSpan = m
<1>1. PICK n \in Nat : n = 8 * ByteBits /\ n >= 8 /\ W = 2 ^ n
  BY ValuesAssumption DEF W, Span
<1>2. 2 ^ n = 2 * 2 ^ (n - 1)
  BY <1>1, PowerDoubles
<1>3. 2 ^ (n - 1) = 2 * 2 ^ (n - 2)
  <2>1. n - 1 \in Nat \ {0} /\ (n - 1) - 1 = n - 2
    BY <1>1
  <2> QED
    BY <2>1, PowerDoubles
<1>4. 2 ^ (n - 2) = 2 * 2 ^ (n - 3)
  <2>1. n - 2 \in Nat \ {0} /\ (n - 2) - 1 = n - 3
    BY <1>1
  <2> QED
    BY <2>1, PowerDoubles
<1>5. 2 ^ (n - 3) = 2 * 2 ^ (n - 4)
  <2>1. n - 3 \in Nat \ {0} /\ (n - 3) - 1 = n - 4
    BY <1>1
  <2> QED
    BY <2>1, PowerDoubles
<1>6. 2 ^ (n - 4) = 2 * 2 ^ (n - 5) /\ 2 ^ (n - 5) \in Nat \ {0}
  <2>1. n - 4 \in Nat \ {0} /\ (n - 4) - 1 = n - 5
    BY <1>1
  <2> QED
    BY <2>1, PowerDoubles
<1>7. PICK m \in Nat : m = 2 ^ (n - 4) /\ m >= 2
  BY <1>6
<1>8. W = 16 * m
  BY <1>1, <1>2, <1>3, <1>4, <1>5, <1>7
<1>9. (16 * m) \div 2 = 8 * m /\ (16 * m) \div 16 = m
  OBVIOUS
<1> QED
  BY <1>7, <1>8, <1>9 DEF ManSpan

LEMMA SmallPowers ==
  2 ^ 0 = 1 /\ 2 ^ 1 = 2 /\ 2 ^ 2 = 4 /\ 2 ^ 3 = 8 /\ 2 ^ 4 = 16 /\ 2 ^ 5 = 32 /\ 2 ^ 6 = 64
<1>1. 2 ^ 0 = 1
  <2>1. SUBSET (1..0) = {{}}
    OBVIOUS
  <2>2. Cardinality({{}}) = 1
    BY FS_Singleton
  <2> QED
    BY <2>1, <2>2, PowerIsCount
<1>2. \A n \in Nat \ {0} : 2 ^ n = 2 * 2 ^ (n - 1)
  BY PowerDoubles
<1>3. 2 ^ 1 = 2 * 2 ^ 0 /\ 2 ^ 2 = 2 * 2 ^ 1 /\ 2 ^ 3 = 2 * 2 ^ 2
  <2>1. 1 - 1 = 0 /\ 2 - 1 = 1 /\ 3 - 1 = 2 /\ {1, 2, 3} \subseteq Nat \ {0}
    OBVIOUS
  <2> QED
    BY <1>2, <2>1
<1>4. 2 ^ 4 = 2 * 2 ^ 3 /\ 2 ^ 5 = 2 * 2 ^ 4 /\ 2 ^ 6 = 2 * 2 ^ 5
  <2>1. 4 - 1 = 3 /\ 5 - 1 = 4 /\ 6 - 1 = 5 /\ {4, 5, 6} \subseteq Nat \ {0}
    OBVIOUS
  <2> QED
    BY <1>2, <2>1
<1> QED
  BY <1>1, <1>3, <1>4

\* The magnitude of exponent e and mantissa r.
Magnitude(e, r) == IF e = 0 THEN r ELSE (ManSpan + r) * 2 ^ (e - 1)

\* The same without the power.
IsMagnitude(m, e, r, x) ==
  \/ e = 0 /\ x = r
  \/ e = 1 /\ x = m + r
  \/ e = 2 /\ x = 2 * m + 2 * r
  \/ e = 3 /\ x = 4 * m + 4 * r
  \/ e = 4 /\ x = 8 * m + 8 * r
  \/ e = 5 /\ x = 16 * m + 16 * r
  \/ e = 6 /\ x = 32 * m + 32 * r
  \/ e = 7 /\ x = 64 * m + 64 * r

LEMMA MagnitudeIs ==
  ASSUME NEW m \in Nat, ManSpan = m, NEW e \in 0..7, NEW r \in 0..m - 1
  PROVE  Magnitude(e, r) \in Nat /\ IsMagnitude(m, e, r, Magnitude(e, r))
<1> SUFFICES \E x \in Nat : x = Magnitude(e, r) /\ IsMagnitude(m, e, r, x)
  OBVIOUS
<1>1. /\ 1 - 1 = 0 /\ 2 - 1 = 1 /\ 3 - 1 = 2 /\ 4 - 1 = 3 /\ 5 - 1 = 4 /\ 6 - 1 = 5 /\ 7 - 1 = 6
      /\ m + r \in Nat
  OBVIOUS
<1>0. CASE e = 0
  BY <1>0 DEF Magnitude, IsMagnitude
<1>2. CASE e = 1
  <2>1. Magnitude(e, r) = (m + r) * 2 ^ 0 /\ 2 ^ 0 = 1
    BY <1>1, <1>2, SmallPowers DEF Magnitude
  <2>2. Magnitude(e, r) = m + r
    BY <2>1
  <2> QED
    BY <1>2, <2>2 DEF IsMagnitude
<1>3. CASE e = 2
  <2>1. Magnitude(e, r) = (m + r) * 2 ^ 1 /\ 2 ^ 1 = 2
    BY <1>1, <1>3, SmallPowers DEF Magnitude
  <2>2. Magnitude(e, r) = 2 * m + 2 * r
    BY <2>1
  <2> QED
    BY <1>3, <2>2 DEF IsMagnitude
<1>4. CASE e = 3
  <2>1. Magnitude(e, r) = (m + r) * 2 ^ 2 /\ 2 ^ 2 = 4
    BY <1>1, <1>4, SmallPowers DEF Magnitude
  <2>2. Magnitude(e, r) = 4 * m + 4 * r
    BY <2>1
  <2> QED
    BY <1>4, <2>2 DEF IsMagnitude
<1>5. CASE e = 4
  <2>1. Magnitude(e, r) = (m + r) * 2 ^ 3 /\ 2 ^ 3 = 8
    BY <1>1, <1>5, SmallPowers DEF Magnitude
  <2>2. Magnitude(e, r) = 8 * m + 8 * r
    BY <2>1
  <2> QED
    BY <1>5, <2>2 DEF IsMagnitude
<1>6. CASE e = 5
  <2>1. Magnitude(e, r) = (m + r) * 2 ^ 4 /\ 2 ^ 4 = 16
    BY <1>1, <1>6, SmallPowers DEF Magnitude
  <2>2. Magnitude(e, r) = 16 * m + 16 * r
    BY <2>1
  <2> QED
    BY <1>6, <2>2 DEF IsMagnitude
<1>7. CASE e = 6
  <2>1. Magnitude(e, r) = (m + r) * 2 ^ 5 /\ 2 ^ 5 = 32
    BY <1>1, <1>7, SmallPowers DEF Magnitude
  <2>2. Magnitude(e, r) = 32 * m + 32 * r
    BY <2>1
  <2> QED
    BY <1>7, <2>2 DEF IsMagnitude
<1>8. CASE e = 7
  <2>1. Magnitude(e, r) = (m + r) * 2 ^ 6 /\ 2 ^ 6 = 64
    BY <1>1, <1>8, SmallPowers DEF Magnitude
  <2>2. Magnitude(e, r) = 64 * m + 64 * r
    BY <2>1
  <2> QED
    BY <1>8, <2>2 DEF IsMagnitude
<1> QED
  BY <1>0, <1>2, <1>3, <1>4, <1>5, <1>6, <1>7, <1>8

LEMMA MagnitudesGrow ==
  ASSUME NEW m \in Nat, ManSpan = m, NEW e \in 0..7, NEW r \in 0..m - 1, NEW d \in 0..7, NEW s \in 0..m - 1
  PROVE  /\ Magnitude(e, r) \in Nat /\ Magnitude(d, s) \in Nat
         /\ Magnitude(e, r) < 128 * m
         /\ (Magnitude(e, r) = 0 <=> e * m + r = 0)
         /\ Magnitude(e, r) < Magnitude(d, s) <=> e * m + r < d * m + s
<1>1. PICK x \in Nat : x = Magnitude(e, r)
  BY MagnitudeIs
<1>2. PICK y \in Nat : y = Magnitude(d, s)
  BY MagnitudeIs
<1>3. IsMagnitude(m, e, r, x)
  BY <1>1, MagnitudeIs
<1>4. IsMagnitude(m, d, s, y)
  BY <1>2, MagnitudeIs
<1>5. x < 128 * m /\ (x = 0 <=> e * m + r = 0)
  BY <1>3 DEF IsMagnitude
<1>6. x < y <=> e * m + r < d * m + s
  BY <1>3, <1>4 DEF IsMagnitude
<1> QED
  BY <1>1, <1>2, <1>5, <1>6

\* The parts of a pattern, its key and its number.
IsDouble(m, bits, neg, e, r) ==
  LET t == e * m + r
      nan == IF e = 7 /\ r # 0 THEN 1 ELSE 0
  IN  /\ OrderKey(bits) = IF nan = 1 THEN 16 * m - 1 ELSE IF t = 0 THEN 8 * m
                          ELSE IF neg = 1 THEN 8 * m - 1 - t ELSE 8 * m + t
      /\ Real(bits) = IF nan = 1 THEN 16000 * m ELSE IF neg = 1 THEN 0 - Magnitude(e, r) ELSE Magnitude(e, r)

LEMMA DoubleIs ==
  ASSUME NEW m \in Nat, m >= 2, W = 16 * m, W \div 2 = 8 * m, ManSpan = m, NEW bits \in Int
  PROVE  \E neg \in {0, 1}, e \in 0..7, r \in 0..m - 1 : IsDouble(m, bits, neg, e, r)
<1>1. PICK u \in 0..16 * m - 1 : u = bits % W
  <2>1. PICK w \in Nat \ {0} : w = 16 * m
    OBVIOUS
  <2>2. bits % w \in 0..w - 1
    BY <2>1
  <2> QED
    BY <2>1, <2>2
<1>2. PICK t \in 0..8 * m - 1 : (u < 8 * m /\ t = u) \/ (u >= 8 * m /\ t = u - 8 * m)
  <2>1. CASE u < 8 * m
    <3>1. u \in 0..8 * m - 1
      BY <2>1
    <3> QED
      BY <2>1, <3>1
  <2>2. CASE ~(u < 8 * m)
    <3>1. u - 8 * m \in 0..8 * m - 1 /\ u >= 8 * m
      BY <2>2
    <3> QED
      BY <3>1
  <2> QED
    BY <2>1, <2>2
<1>3. PICK e \in 0..7, r \in 0..m - 1 : t = e * m + r
  <2>1. \/ t - 0 * m \in 0..m - 1 \/ t - 1 * m \in 0..m - 1 \/ t - 2 * m \in 0..m - 1 \/ t - 3 * m \in 0..m - 1
        \/ t - 4 * m \in 0..m - 1 \/ t - 5 * m \in 0..m - 1 \/ t - 6 * m \in 0..m - 1 \/ t - 7 * m \in 0..m - 1
    OBVIOUS
  <2>2. PICK e \in 0..7 : t - e * m \in 0..m - 1
    BY <2>1
  <2>3. t = e * m + (t - e * m)
    BY <2>2
  <2> QED
    BY <2>2, <2>3
<1>4. Exponent(u) = e
  <2>1. u % (8 * m) = t
    <3>1. 8 * m \in Nat \ {0}
      OBVIOUS
    <3>2. u < 8 * m => u % (8 * m) = u
      BY <3>1, ModBelow
    <3>3. u >= 8 * m => u % (8 * m) = u - 8 * m
      <4>1. u \in Int /\ (u >= 8 * m => u \in 8 * m..2 * (8 * m) - 1)
        OBVIOUS
      <4> QED
        BY <3>1, <4>1, ModOnce
    <3> QED
      BY <1>2, <3>2, <3>3
  <2>2. t \div m = e
    BY <1>3, DivMod
  <2> QED
    BY <2>1, <2>2 DEF Exponent
<1>5. Mantissa(u) = r
  <2>1. \/ u = e * m + r \/ u = (e + 8) * m + r
    <3>1. (e + 8) * m = e * m + 8 * m
      OBVIOUS
    <3> QED
      BY <1>2, <1>3, <3>1
  <2>2. (e * m + r) % m = r /\ ((e + 8) * m + r) % m = r
    BY DivMod
  <2> QED
    BY <2>1, <2>2 DEF Mantissa
<1>6. IsNan(bits) <=> e = 7 /\ r # 0
  BY <1>1, <1>4, <1>5 DEF IsNan
<1>7. IsZero(bits) <=> t = 0
  <2>1. u \in {0, 8 * m} <=> t = 0
    BY <1>2
  <2> QED
    BY <1>1, <2>1 DEF IsZero
<1>8. Real(bits) = IF e = 7 /\ r # 0 THEN 16000 * m ELSE IF u >= 8 * m THEN 0 - Magnitude(e, r) ELSE Magnitude(e, r)
  <2>1. 1000 * W = 16000 * m
    OBVIOUS
  <2>2. (IF Exponent(u) = 0 THEN Mantissa(u) ELSE (ManSpan + Mantissa(u)) * 2 ^ (Exponent(u) - 1)) = Magnitude(e, r)
    BY <1>4, <1>5 DEF Magnitude
  <2>3. PICK g \in Nat : g = Magnitude(e, r)
    BY MagnitudeIs
  <2>4. Real(bits) = IF IsNan(bits) THEN 1000 * W ELSE IF u >= W \div 2 THEN -g ELSE g
    BY <1>1, <2>2, <2>3 DEF Real
  <2>5. -g = 0 - g
    OBVIOUS
  <2> QED
    BY <1>6, <2>1, <2>3, <2>4, <2>5
<1>9. OrderKey(bits) = IF e = 7 /\ r # 0 THEN 16 * m - 1 ELSE IF t = 0 THEN 8 * m
                       ELSE IF u >= 8 * m THEN 8 * m - 1 - t ELSE 8 * m + t
  <2>1. PICK k \in Int : k = IF IsZero(bits) THEN 0 ELSE u
    OBVIOUS
  <2>2. OrderKey(bits) = IF IsNan(bits) THEN W - 1 ELSE IF k >= W \div 2 THEN W - 1 - k ELSE k + W \div 2
    BY <1>1, <2>1 DEF OrderKey
  <2>3. OrderKey(bits) = IF e = 7 /\ r # 0 THEN 16 * m - 1 ELSE IF k >= 8 * m THEN 16 * m - 1 - k ELSE k + 8 * m
    BY <1>6, <2>2
  <2>4. CASE t = 0
    BY <1>7, <2>1, <2>3, <2>4
  <2>5. CASE t # 0
    BY <1>2, <1>7, <2>1, <2>3, <2>5
  <2> QED
    BY <2>4, <2>5
<1>10. PICK neg \in {0, 1} : neg = IF u >= 8 * m THEN 1 ELSE 0
  OBVIOUS
<1>11. IsDouble(m, bits, neg, e, r)
  BY <1>3, <1>8, <1>9, <1>10 DEF IsDouble
<1> QED
  BY <1>11

KeyOf(m, nan, neg, t) ==
  IF nan = 1 THEN 16 * m - 1 ELSE IF t = 0 THEN 8 * m ELSE IF neg = 1 THEN 8 * m - 1 - t ELSE 8 * m + t
NumberOf(m, nan, neg, x) == IF nan = 1 THEN 16000 * m ELSE IF neg = 1 THEN 0 - x ELSE x

IsKey(m, nan, neg, t, x, k, v) ==
  /\ k \in 0..16 * m - 1 /\ v \in Int
  /\ \/ nan = 1 /\ k = 16 * m - 1 /\ v = 16000 * m
     \/ nan = 0 /\ neg = 1 /\ t # 0 /\ k = 8 * m - 1 - t /\ v = 0 - x
     \/ nan = 0 /\ (neg = 1 => t = 0) /\ k = 8 * m + t /\ v = x

LEMMA KeyOfIs ==
  ASSUME NEW m \in Nat, m >= 2, NEW nan \in {0, 1}, NEW neg \in {0, 1},
         NEW t \in Nat, NEW x \in Nat, x < 128 * m, x = 0 <=> t = 0, nan = 0 => t <= 7 * m
  PROVE  IsKey(m, nan, neg, t, x, KeyOf(m, nan, neg, t), NumberOf(m, nan, neg, x))
<1>1. CASE nan = 1
  <2>1. KeyOf(m, nan, neg, t) = 16 * m - 1 /\ NumberOf(m, nan, neg, x) = 16000 * m
    BY <1>1 DEF KeyOf, NumberOf
  <2>2. 16 * m - 1 \in 0..16 * m - 1 /\ 16000 * m \in Int
    OBVIOUS
  <2> QED
    BY <1>1, <2>1, <2>2 DEF IsKey
<1>2. CASE nan = 0 /\ neg = 1 /\ t # 0
  <2>1. KeyOf(m, nan, neg, t) = 8 * m - 1 - t /\ NumberOf(m, nan, neg, x) = 0 - x
    BY <1>2 DEF KeyOf, NumberOf
  <2>2. 8 * m - 1 - t \in 0..16 * m - 1 /\ 0 - x \in Int
    BY <1>2
  <2> QED
    BY <1>2, <2>1, <2>2 DEF IsKey
<1>3. CASE nan = 0 /\ neg = 0
  <2>1. KeyOf(m, nan, neg, t) = 8 * m + t /\ NumberOf(m, nan, neg, x) = x
    BY <1>3 DEF KeyOf, NumberOf
  <2>2. 8 * m + t \in 0..16 * m - 1
    BY <1>3
  <2> QED
    BY <1>3, <2>1, <2>2 DEF IsKey
<1>4. CASE nan = 0 /\ neg = 1 /\ t = 0
  <2>1. KeyOf(m, nan, neg, t) = 8 * m
    BY <1>4 DEF KeyOf
  <2>2. NumberOf(m, nan, neg, x) = 0 - x /\ x = 0
    BY <1>4 DEF NumberOf
  <2> QED
    BY <1>4, <2>1, <2>2 DEF IsKey
<1> QED
  BY <1>1, <1>2, <1>3, <1>4

\* The key and the number of a pattern, by its parts.
LEMMA DoubleParts ==
  ASSUME NEW m \in Nat, m >= 2, W = 16 * m, W \div 2 = 8 * m, ManSpan = m, NEW bits \in Int
  PROVE  \E nan \in {0, 1}, neg \in {0, 1}, e \in 0..7, r \in 0..m - 1 :
            /\ OrderKey(bits) = KeyOf(m, nan, neg, e * m + r)
            /\ Real(bits) = NumberOf(m, nan, neg, Magnitude(e, r))
            /\ nan = 0 => e * m + r <= 7 * m
<1>1. PICK neg \in {0, 1}, e \in 0..7, r \in 0..m - 1 : IsDouble(m, bits, neg, e, r)
  BY DoubleIs
<1>2. PICK nan \in {0, 1} : nan = IF e = 7 /\ r # 0 THEN 1 ELSE 0
  OBVIOUS
<1>3. OrderKey(bits) = KeyOf(m, nan, neg, e * m + r) /\ Real(bits) = NumberOf(m, nan, neg, Magnitude(e, r))
  BY <1>1, <1>2 DEF IsDouble, KeyOf, NumberOf
<1>4. nan = 0 => e * m + r <= 7 * m
  <2>1. \/ e = 0 \/ e = 1 \/ e = 2 \/ e = 3 \/ e = 4 \/ e = 5 \/ e = 6 \/ e = 7
    OBVIOUS
  <2> QED
    BY <1>2, <2>1
<1> QED
  BY <1>3, <1>4

\* f64_total_order_key orders the bit patterns of doubles as their numbers, NaN
\* greatest and equal to itself, -0.0 equal to 0.0: WHERE, top-k and the sorted
\* columns compare keys where SQL compares doubles.
THEOREM DoublesAreOrdered ==
  \A a, b \in Int : /\ (OrderKey(a) < OrderKey(b) <=> Real(a) < Real(b))
                    /\ (OrderKey(a) = OrderKey(b) <=> Real(a) = Real(b))
                    /\ OrderKey(a) \in 0..W - 1 /\ Real(a) \in Int
<1> SUFFICES ASSUME NEW a \in Int, NEW b \in Int
             PROVE  /\ (OrderKey(a) < OrderKey(b) <=> Real(a) < Real(b))
                    /\ (OrderKey(a) = OrderKey(b) <=> Real(a) = Real(b))
                    /\ OrderKey(a) \in 0..W - 1 /\ Real(a) \in Int
  OBVIOUS
<1>1. PICK m \in Nat : m >= 2 /\ W = 16 * m /\ W \div 2 = 8 * m /\ ManSpan = m
  BY DoubleFacts
<1>2. PICK q1 \in {0, 1}, n1 \in {0, 1}, e1 \in 0..7, r1 \in 0..m - 1 :
         /\ OrderKey(a) = KeyOf(m, q1, n1, e1 * m + r1) /\ Real(a) = NumberOf(m, q1, n1, Magnitude(e1, r1))
         /\ q1 = 0 => e1 * m + r1 <= 7 * m
  BY <1>1, DoubleParts
<1>3. PICK q2 \in {0, 1}, n2 \in {0, 1}, e2 \in 0..7, r2 \in 0..m - 1 :
         /\ OrderKey(b) = KeyOf(m, q2, n2, e2 * m + r2) /\ Real(b) = NumberOf(m, q2, n2, Magnitude(e2, r2))
         /\ q2 = 0 => e2 * m + r2 <= 7 * m
  BY <1>1, DoubleParts
<1>4. PICK x1 \in Nat : x1 = Magnitude(e1, r1)
  BY <1>1, MagnitudesGrow
<1>5. PICK x2 \in Nat : x2 = Magnitude(e2, r2)
  BY <1>1, MagnitudesGrow
<1>6. PICK t1 \in Nat : t1 = e1 * m + r1
  OBVIOUS
<1>7. PICK t2 \in Nat : t2 = e2 * m + r2
  OBVIOUS
<1>8. /\ x1 < 128 * m /\ x2 < 128 * m
      /\ (x1 = 0 <=> t1 = 0) /\ (x2 = 0 <=> t2 = 0)
      /\ (x1 < x2 <=> t1 < t2) /\ (x2 < x1 <=> t2 < t1)
  <2>1. /\ Magnitude(e1, r1) < 128 * m /\ (Magnitude(e1, r1) = 0 <=> e1 * m + r1 = 0)
        /\ (Magnitude(e1, r1) < Magnitude(e2, r2) <=> e1 * m + r1 < e2 * m + r2)
    BY <1>1, MagnitudesGrow
  <2>2. /\ Magnitude(e2, r2) < 128 * m /\ (Magnitude(e2, r2) = 0 <=> e2 * m + r2 = 0)
        /\ (Magnitude(e2, r2) < Magnitude(e1, r1) <=> e2 * m + r2 < e1 * m + r1)
    BY <1>1, MagnitudesGrow
  <2> QED
    BY <1>4, <1>5, <1>6, <1>7, <2>1, <2>2
<1>9. PICK k1 \in Int, v1 \in Int : k1 = OrderKey(a) /\ v1 = Real(a) /\ IsKey(m, q1, n1, t1, x1, k1, v1)
  <2>1. OrderKey(a) = KeyOf(m, q1, n1, t1) /\ Real(a) = NumberOf(m, q1, n1, x1)
    BY <1>2, <1>4, <1>6
  <2>2. (x1 = 0 <=> t1 = 0) /\ (q1 = 0 => t1 <= 7 * m) /\ x1 < 128 * m
    BY <1>2, <1>4, <1>6, <1>8
  <2>3. IsKey(m, q1, n1, t1, x1, KeyOf(m, q1, n1, t1), NumberOf(m, q1, n1, x1))
    BY <1>1, <2>2, KeyOfIs
  <2>4. KeyOf(m, q1, n1, t1) \in Int /\ NumberOf(m, q1, n1, x1) \in Int
    BY <2>3 DEF IsKey
  <2> QED
    BY <2>1, <2>3, <2>4
<1>10. PICK k2 \in Int, v2 \in Int : k2 = OrderKey(b) /\ v2 = Real(b) /\ IsKey(m, q2, n2, t2, x2, k2, v2)
  <2>1. OrderKey(b) = KeyOf(m, q2, n2, t2) /\ Real(b) = NumberOf(m, q2, n2, x2)
    BY <1>3, <1>5, <1>7
  <2>2. (x2 = 0 <=> t2 = 0) /\ (q2 = 0 => t2 <= 7 * m) /\ x2 < 128 * m
    BY <1>3, <1>5, <1>7, <1>8
  <2>3. IsKey(m, q2, n2, t2, x2, KeyOf(m, q2, n2, t2), NumberOf(m, q2, n2, x2))
    BY <1>1, <2>2, KeyOfIs
  <2>4. KeyOf(m, q2, n2, t2) \in Int /\ NumberOf(m, q2, n2, x2) \in Int
    BY <2>3 DEF IsKey
  <2> QED
    BY <2>1, <2>3, <2>4
<1>11. (q1 = 0 => t1 <= 7 * m) /\ (q2 = 0 => t2 <= 7 * m)
  BY <1>2, <1>3, <1>6, <1>7
<1>12. k1 < k2 <=> v1 < v2
  BY <1>1, <1>8, <1>9, <1>10, <1>11 DEF IsKey
<1>13. k1 = k2 <=> v1 = v2
  BY <1>1, <1>8, <1>9, <1>10, <1>11 DEF IsKey
<1>14. k1 \in 0..W - 1
  BY <1>1, <1>9 DEF IsKey
<1> QED
  BY <1>9, <1>10, <1>12, <1>13, <1>14

\* ---- WHERE ---------------------------------------------------------------------
Cells(table, name) == [i \in DOMAIN table |-> table[i][name]]
Dtype(name) == IF name = "f" THEN "f64" ELSE "i64"
\* col holds, cell by cell and NULL by NULL, a column of the table.
Shows(col, table, name) ==
  /\ DOMAIN col.data = DOMAIN table
  /\ \A i \in DOMAIN table : /\ BitAt(col.valid, i) <=> table[i][name] # NoCell
                             /\ table[i][name] # NoCell => col.data[i] = table[i][name]
\* A term DuckDB's binder lets through, and the predicate resolve_where makes of it.
IsTerm(t, table) ==
  /\ t.op \in Comparisons \cup {"IsNull", "IsNotNull", "In"}
  /\ t.op \in Comparisons => t.value \in Int
  /\ t.op = "In" => \A j \in DOMAIN t.list : t.list[j] \in Int
  /\ \A i \in DOMAIN table : table[i][t.lane] \in Word \cup {NoCell}
IsPredicate(p, t) ==
  p.lane.index = NoLane /\ p = [lane |-> p.lane, op |-> t.op, value |-> t.value, list |-> t.list]

LEMMA ImagesCompare ==
  ASSUME NEW op \in Comparisons, NEW a \in Int, NEW b \in Int
  PROVE  Compare(op, OrderKey(a), OrderKey(b)) <=> Compare(op, Real(a), Real(b))
<1>1. PICK k \in Int, l \in Int, x \in Int, y \in Int :
         k = OrderKey(a) /\ l = OrderKey(b) /\ x = Real(a) /\ y = Real(b)
  <2>1. \A c \in Int : OrderKey(c) \in 0..W - 1 /\ Real(c) \in Int
    BY DoublesAreOrdered
  <2>2. 0..W - 1 \subseteq Int
    BY WordFacts
  <2> QED
    BY <2>1, <2>2
<1>2. (k < l <=> x < y) /\ (k = l <=> x = y)
  BY <1>1, DoublesAreOrdered
<1>3. Compare(op, k, l) <=> Compare(op, x, y)
  BY <1>2 DEF Compare, Comparisons
<1> QED
  BY <1>1, <1>3

LEMMA TermIs ==
  ASSUME NEW table, NEW t, NEW p, NEW i \in DOMAIN table,
         IsTerm(t, table), IsPredicate(p, t), Shows(p.lane.col, table, t.lane), p.lane.col.dtype = Dtype(t.lane)
  PROVE  Passes(p, i) <=> Holds(table[i], t)
<1> DEFINE Image(x) == IF p.lane.col.dtype = "f64" THEN OrderKey(x) ELSE x
           Value(y) == IF t.lane = "f" THEN Real(y) ELSE y
<1>1. PICK x : x = table[i][t.lane]
  OBVIOUS
<1>2. IsValid(p.lane, i) <=> x # NoCell
  BY <1>1 DEF IsPredicate, IsValid, HasSource, Source, Shows
<1>3. x # NoCell => Cell(p.lane, i) = x /\ x \in Int
  BY <1>1, WordsAreInts DEF IsPredicate, Cell, HasSource, Source, Shows, IsTerm
<1>4. p.lane.col.dtype = "f64" <=> t.lane = "f"
  BY DEF Dtype
<1>5. ASSUME NEW op \in Comparisons, NEW a \in Int, NEW b \in Int
      PROVE  Compare(op, Image(a), Image(b)) <=> Compare(op, Value(a), Value(b))
  BY <1>4, ImagesCompare
<1>6. ASSUME NEW a \in Int, NEW b \in Int PROVE Image(a) = Image(b) <=> Value(a) = Value(b)
  BY <1>4, DoublesAreOrdered
<1>7. Passes(p, i) <=>
        \/ t.op = "IsNull" /\ x = NoCell
        \/ t.op = "IsNotNull" /\ x # NoCell
        \/ t.op = "In" /\ x # NoCell /\ \E j \in DOMAIN t.list : Image(x) = Image(t.list[j])
        \/ t.op \notin {"IsNull", "IsNotNull", "In"} /\ x # NoCell /\ Compare(t.op, Image(x), Image(t.value))
  BY <1>2, <1>3 DEF Passes, IsPredicate
<1>8. Holds(table[i], t) <=>
        \/ t.op = "IsNull" /\ x = NoCell
        \/ t.op = "IsNotNull" /\ x # NoCell
        \/ t.op = "In" /\ x # NoCell /\ \E j \in DOMAIN t.list : Value(x) = Value(t.list[j])
        \/ t.op \notin {"IsNull", "IsNotNull", "In"} /\ x # NoCell /\ Compare(t.op, Value(x), Value(t.value))
  BY <1>1 DEF Holds, ToSet
<1> HIDE DEF Image, Value
<1>9. x # NoCell /\ t.op = "In" => \A j \in DOMAIN t.list : Image(x) = Image(t.list[j]) <=> Value(x) = Value(t.list[j])
  BY <1>3, <1>6 DEF IsTerm
<1>10. x # NoCell /\ t.op \notin {"IsNull", "IsNotNull", "In"} =>
          (Compare(t.op, Image(x), Image(t.value)) <=> Compare(t.op, Value(x), Value(t.value)))
  BY <1>3, <1>5 DEF IsTerm
<1> QED
  BY <1>7, <1>8, <1>9, <1>10, Zenon

LEMMA HostShows ==
  ASSUME NEW table, NEW name, NEW dtype
  PROVE  Shows(HostColumn(dtype, Cells(table, name)), table, name)
<1> DEFINE col == HostColumn(dtype, Cells(table, name))
<1>1. /\ col.data = [i \in DOMAIN table |-> IF table[i][name] = NoCell THEN 0 ELSE table[i][name]]
      /\ col.valid = IF \A i \in DOMAIN table : table[i][name] # NoCell THEN <<>>
                     ELSE [i \in DOMAIN table |-> table[i][name] # NoCell]
  BY DEF HostColumn, Cells
<1> HIDE DEF col
<1>2. ASSUME NEW i \in DOMAIN table PROVE BitAt(col.valid, i) <=> table[i][name] # NoCell
  <2>1. CASE \A j \in DOMAIN table : table[j][name] # NoCell
    BY <1>1, <2>1 DEF BitAt
  <2>2. CASE ~\A j \in DOMAIN table : table[j][name] # NoCell
    <3>1. col.valid = [j \in DOMAIN table |-> table[j][name] # NoCell]
      BY <1>1, <2>2
    <3>2. col.valid # <<>>
      <4>1. DOMAIN col.valid # {} /\ DOMAIN <<>> = {}
        BY <3>1
      <4> QED
        BY <4>1
    <3> QED
      BY <3>1, <3>2 DEF BitAt
  <2> QED
    BY <2>1, <2>2
<1>3. \A i \in DOMAIN table : table[i][name] # NoCell => col.data[i] = table[i][name]
  BY <1>1
<1>4. DOMAIN col.data = DOMAIN table
  BY <1>1
<1>5. Shows(col, table, name)
  BY <1>2, <1>3, <1>4 DEF Shows
<1> QED
  BY <1>5 DEF col

LEMMA DeviceShows ==
  ASSUME NEW table, NEW name, NEW packs, \A i \in DOMAIN table : table[i][name] \in Word \cup {NoCell}
  PROVE  /\ Shows(Wide(DeviceColumn(Dtype(name), Cells(table, name), packs)), table, name)
         /\ DeviceColumn(Dtype(name), Cells(table, name), packs).dtype = Dtype(name)
<1> DEFINE host == HostColumn(Dtype(name), Cells(table, name))
           dev == DeviceColumn(Dtype(name), Cells(table, name), packs)
<1>1. \A i \in DOMAIN Cells(table, name) : Cells(table, name)[i] \in Word \cup {NoCell}
  BY DEF Cells
<1>2. /\ DOMAIN dev.data = DOMAIN table /\ dev.valid = host.valid /\ dev.dtype = Dtype(name)
      /\ \A i \in DOMAIN table : Load(dev, i) = host.data[i]
  <2>1. CASE name # "f"
    <3>1. Dtype(name) = "i64" /\ DOMAIN Cells(table, name) = DOMAIN table
      BY <2>1 DEF Dtype, Cells
    <3>2. dev.dtype = Dtype(name)
      BY DEF DeviceColumn, HostColumn
    <3> QED
      BY <1>1, <3>1, <3>2, LanesReadBack
  <2>2. CASE name = "f"
    <3>1. Dtype(name) = "f64"
      BY <2>2 DEF Dtype
    <3>2. DOMAIN host.data = DOMAIN table
      BY DEF HostColumn, Cells
    <3>3. /\ dev.dtype = "f64" /\ dev.valid = host.valid
          /\ DOMAIN dev.data = DOMAIN host.data /\ \A i \in DOMAIN host.data : dev.data[i] = host.data[i]
      BY <3>1 DEF DeviceColumn, HostColumn
    <3> HIDE DEF dev, host
    <3> QED
      BY <3>1, <3>2, <3>3 DEF Load
  <2> QED
    BY <2>1, <2>2
<1>3. Shows(host, table, name)
  BY HostShows
<1> HIDE DEF dev, host
<1>4. Wide(dev).valid = dev.valid /\ DOMAIN Wide(dev).data = DOMAIN dev.data /\ \A i \in DOMAIN dev.data : Wide(dev).data[i] = Load(dev, i)
  BY DEF Wide
<1>5. Shows(Wide(dev), table, name)
  BY <1>2, <1>3, <1>4 DEF Shows
<1> QED
  BY <1>2, <1>5 DEF dev

\* A WHERE program over the columns a CPU upload leaves keeps the rows native SQL
\* keeps: NULL cells fail every comparison, -0.0 equals 0.0, NaN is the greatest.
THEOREM HostWhereIsNative ==
  ASSUME NEW table, NEW preds, NEW where, DOMAIN preds = DOMAIN where,
         \A q \in DOMAIN where :
            /\ IsTerm(where[q], table) /\ IsPredicate(preds[q], where[q])
            /\ preds[q].lane.col = HostColumn(Dtype(where[q].lane), Cells(table, where[q].lane))
  PROVE  \A i \in DOMAIN table : InMask(preds, i) <=> i \in Kept(table, where)
<1>1. ASSUME NEW i \in DOMAIN table, NEW q \in DOMAIN where PROVE Passes(preds[q], i) <=> Holds(table[i], where[q])
  <2>1. Shows(preds[q].lane.col, table, where[q].lane)
    BY HostShows
  <2>2. preds[q].lane.col.dtype = Dtype(where[q].lane)
    <3>1. HostColumn(Dtype(where[q].lane), Cells(table, where[q].lane)).dtype = Dtype(where[q].lane)
      BY DEF HostColumn
    <3> QED
      BY <3>1
  <2> QED
    BY <2>1, <2>2, TermIs
<1> QED
  BY <1>1 DEF InMask, Kept, ToSet

\* The mask kernel keeps the same rows over the lanes of a device upload, although
\* it reads them at the width they were packed at.
THEOREM DeviceWhereIsNative ==
  ASSUME NEW table, NEW preds, NEW where, NEW packs, NEW n, DOMAIN table = 1..n, DOMAIN preds = DOMAIN where,
         \A q \in DOMAIN where :
            /\ IsTerm(where[q], table) /\ IsPredicate(preds[q], where[q])
            /\ preds[q].lane.col = DeviceColumn(Dtype(where[q].lane), Cells(table, where[q].lane), packs)
            /\ preds[q].lane.col # NoLane
  PROVE  \A i \in DOMAIN table : Mask(preds, n)[i] <=> i \in Kept(table, where)
<1> DEFINE wide == [q \in DOMAIN preds |-> [preds[q] EXCEPT !.lane = Read(@.col)]]
<1>1. ASSUME NEW i \in DOMAIN table, NEW q \in DOMAIN where PROVE Passes(wide[q], i) <=> Holds(table[i], where[q])
  <2>1. PICK col : col = preds[q].lane.col
    OBVIOUS
  <2>2. IsTerm(where[q], table) /\ IsPredicate(preds[q], where[q])
        /\ col = DeviceColumn(Dtype(where[q].lane), Cells(table, where[q].lane), packs)
    BY <2>1
  <2>3. Shows(Wide(col), table, where[q].lane) /\ col.dtype = Dtype(where[q].lane)
    <3>1. \A j \in DOMAIN table : table[j][where[q].lane] \in Word \cup {NoCell}
      BY <2>2 DEF IsTerm
    <3>2. /\ Shows(Wide(DeviceColumn(Dtype(where[q].lane), Cells(table, where[q].lane), packs)), table, where[q].lane)
          /\ DeviceColumn(Dtype(where[q].lane), Cells(table, where[q].lane), packs).dtype = Dtype(where[q].lane)
      BY <3>1, DeviceShows
    <3> QED
      BY <2>2, <3>2
  <2>4. PICK w : w = wide[q]
    OBVIOUS
  <2>5. w = [lane |-> Lane(Wide(col), NoLane), op |-> where[q].op, value |-> where[q].value, list |-> where[q].list]
    <3>1. PICK p : p = preds[q]
      OBVIOUS
    <3>2. w = [p EXCEPT !.lane = Read(p.lane.col)]
      BY <2>4, <3>1
    <3>3. p = [lane |-> p.lane, op |-> where[q].op, value |-> where[q].value, list |-> where[q].list]
      BY <2>2, <3>1 DEF IsPredicate
    <3>4. Read(p.lane.col) = Lane(Wide(col), NoLane)
      BY <2>1, <3>1 DEF Read
    <3> QED
      BY <3>2, <3>3, <3>4
  <2>6. w.lane.col = Wide(col) /\ w.lane.index = NoLane /\ Wide(col).dtype = col.dtype
    BY <2>5 DEF Lane, Wide
  <2>7. IsPredicate(w, where[q]) /\ Shows(w.lane.col, table, where[q].lane) /\ w.lane.col.dtype = Dtype(where[q].lane)
    BY <2>2, <2>3, <2>5, <2>6 DEF IsPredicate
  <2> QED
    BY <2>2, <2>4, <2>7, TermIs
<1>2. Mask(preds, n) = [i \in 1..n |-> InMask(wide, i)] /\ DOMAIN wide = DOMAIN where
  BY DEF Mask
<1> HIDE DEF wide
<1>3. \A i \in DOMAIN table : InMask(wide, i) <=> i \in Kept(table, where)
  BY <1>1, <1>2 DEF InMask, Kept, ToSet
<1> QED
  BY <1>2, <1>3

\* ---- orders --------------------------------------------------------------------
\* R is a strict total order of S.
IsOrder(R, S) ==
  /\ \A x \in S : <<x, x>> \notin R
  /\ \A x, y, z \in S : <<x, y>> \in R /\ <<y, z>> \in R => <<x, z>> \in R
  /\ \A x, y \in S : x = y \/ <<x, y>> \in R \/ <<y, x>> \in R
Below(R, S, x) == {y \in S : <<y, x>> \in R}
RankOf(R, S, x) == Cardinality(Below(R, S, x))
\* e enumerates S in the order R.
Enumerates(e, R, S) ==
  /\ DOMAIN e = 1..Cardinality(S) /\ \A k \in 1..Cardinality(S) : e[k] \in S
  /\ \A x \in S : \E k \in 1..Cardinality(S) : e[k] = x
  /\ \A i, j \in 1..Cardinality(S) : i < j => <<e[i], e[j]>> \in R
  /\ \A k \in 1..Cardinality(S) : RankOf(R, S, e[k]) = k - 1

LEMMA RanksGrow ==
  ASSUME NEW R, NEW S, IsFiniteSet(S), IsOrder(R, S), NEW x \in S
  PROVE  /\ RankOf(R, S, x) \in 0..Cardinality(S) - 1
         /\ \A y \in S : <<x, y>> \in R => RankOf(R, S, x) < RankOf(R, S, y)
<1>1. \A y \in S : IsFiniteSet(Below(R, S, y)) /\ RankOf(R, S, y) \in Nat
  <2> SUFFICES ASSUME NEW y \in S PROVE IsFiniteSet(Below(R, S, y)) /\ RankOf(R, S, y) \in Nat
    OBVIOUS
  <2>1. Below(R, S, y) \in SUBSET S
    BY DEF Below
  <2>2. IsFiniteSet(Below(R, S, y))
    BY <2>1, FS_Subset
  <2> QED
    BY <2>2, FS_CardinalityType DEF RankOf
<1>2. x \notin Below(R, S, x)
  BY DEF Below, IsOrder
<1>3. IsFiniteSet(Below(R, S, x) \cup {x}) /\ Cardinality(Below(R, S, x) \cup {x}) = RankOf(R, S, x) + 1
  <2>1. IsFiniteSet(Below(R, S, x))
    BY <1>1
  <2> QED
    BY <1>2, <2>1, FS_AddElement DEF RankOf
<1>4. RankOf(R, S, x) + 1 <= Cardinality(S)
  <2>1. Below(R, S, x) \cup {x} \in SUBSET S
    BY DEF Below
  <2> QED
    BY <1>3, <2>1, FS_Subset
<1>5. ASSUME NEW y \in S, <<x, y>> \in R PROVE RankOf(R, S, x) < RankOf(R, S, y)
  <2>1. Below(R, S, x) \cup {x} \in SUBSET Below(R, S, y)
    BY <1>5 DEF Below, IsOrder
  <2>2. RankOf(R, S, x) + 1 <= RankOf(R, S, y)
    <3>1. IsFiniteSet(Below(R, S, y))
      BY <1>1
    <3>2. Cardinality(Below(R, S, x) \cup {x}) <= Cardinality(Below(R, S, y))
      BY <2>1, <3>1, FS_Subset
    <3> QED
      BY <1>3, <3>2 DEF RankOf
  <2> QED
    BY <1>1, <2>2
<1>6. Cardinality(S) \in Nat
  BY FS_CardinalityType
<1> QED
  BY <1>1, <1>4, <1>5, <1>6

LEMMA RanksAreTaken ==
  ASSUME NEW R, NEW S, IsFiniteSet(S), IsOrder(R, S)
  PROVE  /\ \A x, y \in S : RankOf(R, S, x) = RankOf(R, S, y) => x = y
         /\ \A j \in 0..Cardinality(S) - 1 : \E x \in S : RankOf(R, S, x) = j
<1> DEFINE n == Cardinality(S)
           rank == [x \in S |-> RankOf(R, S, x)]
<1>1. n \in Nat
  BY FS_CardinalityType
<1>2. \A x \in S : RankOf(R, S, x) \in 0..n - 1 /\ \A y \in S : <<x, y>> \in R => RankOf(R, S, x) < RankOf(R, S, y)
  BY RanksGrow
<1> HIDE DEF n
<1>3. \A x, y \in S : RankOf(R, S, x) = RankOf(R, S, y) => x = y
  <2> SUFFICES ASSUME NEW x \in S, NEW y \in S, RankOf(R, S, x) = RankOf(R, S, y) PROVE x = y
    OBVIOUS
  <2>1. PICK i \in Int, j \in Int : i = RankOf(R, S, x) /\ j = RankOf(R, S, y)
    BY <1>1, <1>2
  <2>2. ~(i < j) /\ ~(j < i)
    BY <2>1
  <2>3. <<x, y>> \notin R /\ <<y, x>> \notin R
    BY <1>2, <2>1, <2>2
  <2> QED
    BY <2>3 DEF IsOrder
<1>4. rank \in Injection(S, 0..n - 1)
  <2>1. rank \in [S -> 0..n - 1]
    BY <1>2
  <2> QED
    BY <1>3, <2>1, Fun_IsInj
<1>5. IsFiniteSet(0..n - 1) /\ Cardinality(0..n - 1) = n
  <2>1. IsFiniteSet(0..n - 1) /\ Cardinality(0..n - 1) = IF 0 > n - 1 THEN 0 ELSE n - 1 - 0 + 1
    BY <1>1, FS_Interval
  <2> QED
    BY <1>1, <2>1
<1>6. rank \in Surjection(S, 0..n - 1)
  BY <1>4, <1>5, FS_Injection DEF n
<1>7. \A j \in 0..n - 1 : \E x \in S : RankOf(R, S, x) = j
  BY <1>6 DEF Surjection
<1> QED
  BY <1>3, <1>7 DEF n

\* A function that gives every position the element of that rank lists S in order.
LEMMA RanksEnumerate ==
  ASSUME NEW R, NEW S, IsFiniteSet(S), IsOrder(R, S), NEW e, DOMAIN e = 1..Cardinality(S),
         \A k \in 1..Cardinality(S) : e[k] \in S /\ RankOf(R, S, e[k]) = k - 1
  PROVE  Enumerates(e, R, S)
<1> DEFINE n == Cardinality(S)
<1>1. n \in Nat
  BY FS_CardinalityType
<1>2. \A x \in S : RankOf(R, S, x) \in 0..n - 1 /\ \A y \in S : <<x, y>> \in R => RankOf(R, S, x) < RankOf(R, S, y)
  BY RanksGrow
<1>3. \A x, y \in S : RankOf(R, S, x) = RankOf(R, S, y) => x = y
  BY RanksAreTaken
<1>8. ASSUME NEW k \in 1..n PROVE e[k] \in S /\ RankOf(R, S, e[k]) = k - 1
  OBVIOUS
<1> HIDE DEF n
<1>10. ASSUME NEW x \in S PROVE \E k \in 1..n : e[k] = x
  <2>1. PICK k \in 1..n : k - 1 = RankOf(R, S, x)
    <3>1. RankOf(R, S, x) + 1 \in 1..n /\ (RankOf(R, S, x) + 1) - 1 = RankOf(R, S, x)
      BY <1>1, <1>2
    <3> QED
      BY <3>1
  <2> QED
    BY <1>3, <1>8, <2>1
<1>11. ASSUME NEW i \in 1..n, NEW j \in 1..n, i < j PROVE <<e[i], e[j]>> \in R
  <2>1. RankOf(R, S, e[i]) = i - 1 /\ RankOf(R, S, e[j]) = j - 1 /\ e[i] \in S /\ e[j] \in S
    BY <1>8
  <2>2. e[i] # e[j]
    BY <1>1, <1>11, <2>1
  <2>3. <<e[j], e[i]>> \notin R
    <3>1. ~(j - 1 < i - 1)
      BY <1>1, <1>11
    <3> QED
      BY <1>2, <2>1, <3>1
  <2> QED
    BY <2>1, <2>2, <2>3 DEF IsOrder
<1>12. Enumerates(e, R, S)
  BY <1>8, <1>10, <1>11 DEF Enumerates, n
<1> QED
  BY <1>12

\* The relation of a comparison of numbers by their keys, ties by position.
LEMMA KeyedOrder ==
  ASSUME NEW S \in SUBSET Int, NEW key, \A x \in S : key[x] \in Int,
         NEW R, \A x, y \in S : <<x, y>> \in R <=> key[x] < key[y] \/ (key[x] = key[y] /\ x < y)
  PROVE  IsOrder(R, S)
<1>1. \A x \in S : x \in Int /\ key[x] \in Int
  OBVIOUS
<1>2. \A x \in S : <<x, x>> \notin R
  BY <1>1
<1>3. ASSUME NEW x \in S, NEW y \in S, NEW z \in S, <<x, y>> \in R, <<y, z>> \in R PROVE <<x, z>> \in R
  <2>1. PICK i \in Int, j \in Int, k \in Int : i = key[x] /\ j = key[y] /\ k = key[z]
    OBVIOUS
  <2>2. (i < j \/ (i = j /\ x < y)) /\ (j < k \/ (j = k /\ y < z))
    BY <1>3, <2>1
  <2>3. i < k \/ (i = k /\ x < z)
    BY <1>1, <2>2
  <2> QED
    BY <2>1, <2>3
<1>4. ASSUME NEW x \in S, NEW y \in S PROVE x = y \/ <<x, y>> \in R \/ <<y, x>> \in R
  <2>1. PICK i \in Int, j \in Int : i = key[x] /\ j = key[y]
    OBVIOUS
  <2>2. x = y \/ (i < j \/ (i = j /\ x < y)) \/ (j < i \/ (j = i /\ y < x))
    BY <1>1
  <2> QED
    BY <2>1, <2>2
<1> QED
  BY <1>2, <1>3, <1>4 DEF IsOrder

\* ---- top-k -----------------------------------------------------------------------
\* The keys a column is ranked by.
KeyOfRow(col, i) == IF col.dtype = "f64" THEN OrderKey(col.data[i]) ELSE col.data[i]
\* idx has m rows of 1..n, the first ones in the order of key.
IsFirst(idx, m, n, key) ==
  /\ Len(idx) = m /\ DOMAIN idx = 1..m /\ \A i \in 1..m : idx[i] \in 1..n
  /\ \A i, j \in 1..m : i < j => idx[i] # idx[j] /\ key[idx[i]] <= key[idx[j]]
  /\ \A r \in 1..n : r \notin {idx[j] : j \in 1..m} => \A j \in 1..m : key[idx[j]] <= key[r]

LEMMA PrefixIsFirst ==
  ASSUME NEW n \in Nat, NEW key \in [1..n -> Int], NEW R, NEW e, Enumerates(e, R, 1..n), NEW m \in 0..n,
         \A x, y \in 1..n : <<x, y>> \in R => key[x] < key[y] \/ (key[x] = key[y] /\ x # y)
  PROVE  IsFirst(SubSeq(e, 1, m), m, n, key)
<1>1. Cardinality(1..n) = n
  BY FS_Interval
<1>2. /\ \A k \in 1..n : e[k] \in 1..n
      /\ \A x \in 1..n : \E k \in 1..n : e[k] = x
      /\ \A i, j \in 1..n : i < j => <<e[i], e[j]>> \in R
  BY <1>1 DEF Enumerates
<1> DEFINE idx == SubSeq(e, 1, m)
<1>3. Len(idx) = m /\ DOMAIN idx = 1..m /\ \A i \in 1..m : idx[i] = e[i]
  <2>1. /\ SubSeq(e, 1, m) \in Seq(1..n)
        /\ Len(SubSeq(e, 1, m)) = IF 1 <= m THEN m - 1 + 1 ELSE 0
        /\ \A i \in 1..m - 1 + 1 : SubSeq(e, 1, m)[i] = e[1 + i - 1]
    <3>1. \A i \in 1..m : e[i] \in 1..n
      BY <1>2
    <3> QED
      BY <3>1, SubSeqProperties
  <2>2. m - 1 + 1 = m /\ \A i \in 1..m : 1 + i - 1 = i
    OBVIOUS
  <2> QED
    BY <2>1, <2>2
<1> HIDE DEF idx
<1>4. ASSUME NEW i \in 1..n, NEW j \in 1..n, i < j
      PROVE  e[i] # e[j] /\ key[e[i]] <= key[e[j]]
  <2>1. <<e[i], e[j]>> \in R /\ e[i] \in 1..n /\ e[j] \in 1..n
    BY <1>2, <1>4
  <2>2. PICK x \in 1..n, y \in 1..n : x = e[i] /\ y = e[j]
    BY <2>1
  <2>3. PICK p \in Int, q \in Int : p = key[x] /\ q = key[y]
    OBVIOUS
  <2>4. key[x] < key[y] \/ (key[x] = key[y] /\ x # y)
    BY <2>1, <2>2
  <2>5. p < q \/ (p = q /\ x # y)
    BY <2>3, <2>4
  <2>6. p <= q
    BY <2>5
  <2>7. x # y
    BY <2>3, <2>5
  <2> QED
    BY <2>2, <2>3, <2>6, <2>7
<1>5. ASSUME NEW r \in 1..n, r \notin {idx[j] : j \in 1..m}, NEW j \in 1..m PROVE key[idx[j]] <= key[r]
  <2>1. PICK k \in 1..n : e[k] = r
    BY <1>2
  <2>2. k \notin 1..m
    BY <1>3, <1>5, <2>1
  <2>3. j < k /\ j \in 1..n
    BY <2>2
  <2> QED
    BY <1>3, <1>4, <2>1, <2>3
<1>6. \A i, j \in 1..m : i < j => idx[i] # idx[j] /\ key[idx[i]] <= key[idx[j]]
  <2> SUFFICES ASSUME NEW i \in 1..m, NEW j \in 1..m, i < j PROVE idx[i] # idx[j] /\ key[idx[i]] <= key[idx[j]]
    OBVIOUS
  <2>1. i \in 1..n /\ j \in 1..n
    OBVIOUS
  <2>2. e[i] # e[j] /\ key[e[i]] <= key[e[j]]
    BY <1>4, <2>1
  <2> QED
    BY <1>3, <2>2
<1>7. \A i \in 1..m : idx[i] \in 1..n
  <2>1. 1..m \subseteq 1..n
    OBVIOUS
  <2> QED
    BY <1>2, <1>3, <2>1
<1> QED
  BY <1>3, <1>5, <1>6, <1>7 DEF IsFirst, idx

\* The same rows ranked by their numbers.
\* col holds the v cells of the table; key is what its rows are ranked by.
IsColumnOf(col, table, n) ==
  /\ col.data \in [1..n -> Word] /\ DOMAIN table = 1..n /\ Len(table) = n
  /\ \A i \in 1..n : table[i]["v"] = col.data[i]
IsKeyOf(key, col, n, desc) ==
  \A i \in 1..n : key[i] = IF desc THEN 0 - KeyOfRow(col, i) ELSE KeyOfRow(col, i)

LEMMA FirstIsRanking ==
  ASSUME NEW n \in Nat, NEW col, NEW table, IsColumnOf(col, table, n),
         NEW k \in Nat, NEW desc, NEW m \in 0..n, m = Min({k, n}), NEW idx, NEW key,
         IsKeyOf(key, col, n, desc), IsFirst(idx, m, n, key)
  PROVE  IsRanking(table, "v", col.dtype = "f64", k, desc, idx)
<1> DEFINE Value(i) == IF col.dtype = "f64" THEN Real(table[i]["v"]) ELSE table[i]["v"]
           Before(a, b) == IF desc THEN Value(a) > Value(b) ELSE Value(a) < Value(b)
<1>5. /\ col.data \in [1..n -> Word] /\ DOMAIN table = 1..n /\ Len(table) = n
      /\ \A i \in 1..n : table[i]["v"] = col.data[i]
  BY DEF IsColumnOf
<1>6. \A i \in 1..n : key[i] = IF desc THEN 0 - KeyOfRow(col, i) ELSE KeyOfRow(col, i)
  BY DEF IsKeyOf
<1>1. ASSUME NEW a \in 1..n, NEW b \in 1..n, key[a] <= key[b] PROVE ~Before(b, a)
  <2>1. PICK x \in Int, y \in Int : x = col.data[a] /\ y = col.data[b]
    BY <1>5, WordsAreInts
  <2>2. PICK p \in Int, q \in Int, v \in Int, w \in Int :
           p = KeyOfRow(col, a) /\ q = KeyOfRow(col, b) /\ v = Value(a) /\ w = Value(b) /\ (p < q <=> v < w) /\ (q < p <=> w < v)
    <3>1. CASE col.dtype = "f64"
      <4>1. KeyOfRow(col, a) = OrderKey(x) /\ KeyOfRow(col, b) = OrderKey(y) /\ Value(a) = Real(x) /\ Value(b) = Real(y)
        BY <1>5, <2>1, <3>1 DEF KeyOfRow
      <4>2. /\ OrderKey(x) \in 0..W - 1 /\ OrderKey(y) \in 0..W - 1 /\ Real(x) \in Int /\ Real(y) \in Int
            /\ (OrderKey(x) < OrderKey(y) <=> Real(x) < Real(y)) /\ (OrderKey(y) < OrderKey(x) <=> Real(y) < Real(x))
        BY DoublesAreOrdered
      <4>3. 0..W - 1 \subseteq Int
        BY WordFacts
      <4> HIDE DEF Value
      <4> QED
        BY <4>1, <4>2, <4>3
    <3>2. CASE col.dtype # "f64"
      <4>1. KeyOfRow(col, a) = x /\ KeyOfRow(col, b) = y /\ Value(a) = x /\ Value(b) = y
        BY <1>5, <2>1, <3>2 DEF KeyOfRow
      <4> HIDE DEF Value
      <4> QED
        BY <4>1
    <3> QED
      BY <3>1, <3>2
  <2> HIDE DEF Value
  <2>3. CASE desc
    <3>1. 0 - p <= 0 - q
      BY <1>1, <1>6, <2>2, <2>3
    <3>2. ~(w > v)
      BY <2>2, <3>1
    <3> QED
      BY <2>2, <2>3, <3>2
  <2>4. CASE ~desc
    <3>1. p <= q
      BY <1>1, <1>6, <2>2, <2>4
    <3>2. ~(w < v)
      BY <2>2, <3>1
    <3> QED
      BY <2>2, <2>4, <3>2
  <2> QED
    BY <2>3, <2>4
<1> HIDE DEF Before
<1>2. \A i, j \in DOMAIN idx : i < j => idx[i] # idx[j] /\ ~Before(idx[j], idx[i])
  BY <1>1 DEF IsFirst
<1>3. \A r \in DOMAIN table \ ToSet(idx) : \A j \in DOMAIN idx : ~Before(r, idx[j])
  <2>1. ToSet(idx) = {idx[j] : j \in 1..m}
    BY DEF ToSet, IsFirst
  <2> QED
    BY <1>1, <1>5, <2>1 DEF IsFirst
<1>4. Len(idx) = Min({k, Len(table)}) /\ ToSet(idx) \subseteq DOMAIN table
  <2>1. ToSet(idx) = {idx[j] : j \in 1..m} /\ \A j \in 1..m : idx[j] \in 1..n
    BY DEF ToSet, IsFirst
  <2>2. Len(idx) = Min({k, Len(table)})
    BY <1>5 DEF IsFirst
  <2> QED
    BY <1>5, <2>1, <2>2
<1> QED
  BY <1>2, <1>3, <1>4 DEF IsRanking, Before

\* The slice at the end of an ascending order, reversed.
LEMMA SuffixIsFirst ==
  ASSUME NEW n \in Nat, NEW key \in [1..n -> Int], NEW R, NEW e, Enumerates(e, R, 1..n), NEW m \in 0..n,
         \A x, y \in 1..n : <<x, y>> \in R => key[y] < key[x] \/ (key[x] = key[y] /\ x # y)
  PROVE  IsFirst(Reverse(SubSeq(e, n - m + 1, n)), m, n, key)
<1>1. Cardinality(1..n) = n
  BY FS_Interval
<1>2. /\ \A k \in 1..n : e[k] \in 1..n
      /\ \A x \in 1..n : \E k \in 1..n : e[k] = x
      /\ \A i, j \in 1..n : i < j => <<e[i], e[j]>> \in R
  BY <1>1 DEF Enumerates
<1> DEFINE slice == SubSeq(e, n - m + 1, n)
           idx == Reverse(slice)
<1>3. Len(idx) = m /\ DOMAIN idx = 1..m /\ \A i \in 1..m : idx[i] = e[n - i + 1]
  <2>1. /\ slice \in Seq(1..n) /\ Len(slice) = (IF n - m + 1 <= n THEN n - (n - m + 1) + 1 ELSE 0)
        /\ \A i \in 1..n - (n - m + 1) + 1 : slice[i] = e[n - m + 1 + i - 1]
    <3>1. n - m + 1 \in Int /\ \A i \in n - m + 1..n : e[i] \in 1..n
      BY <1>2
    <3> QED
      BY <3>1, SubSeqProperties
  <2>2. Len(slice) = m /\ \A i \in 1..m : slice[i] = e[n - m + i]
    <3>1. n - (n - m + 1) + 1 = m /\ \A i \in 1..m : n - m + 1 + i - 1 = n - m + i
      OBVIOUS
    <3> QED
      BY <2>1, <3>1
  <2>3. idx = [i \in 1..m |-> slice[(m - i) + 1]]
    BY <2>2 DEF Reverse
  <2> HIDE DEF slice, idx
  <2>4. DOMAIN idx = 1..m /\ Len(idx) = m
    BY <2>3
  <2>5. ASSUME NEW i \in 1..m PROVE idx[i] = e[n - i + 1]
    <3>1. (m - i) + 1 \in 1..m /\ n - m + ((m - i) + 1) = n - i + 1
      OBVIOUS
    <3> QED
      BY <2>2, <2>3, <3>1
  <2> QED
    BY <2>4, <2>5
<1> HIDE DEF idx
<1>4. ASSUME NEW i \in 1..n, NEW j \in 1..n, i < j
      PROVE  e[i] # e[j] /\ key[e[j]] <= key[e[i]]
  <2>1. <<e[i], e[j]>> \in R /\ e[i] \in 1..n /\ e[j] \in 1..n
    BY <1>2, <1>4
  <2>2. PICK x \in 1..n, y \in 1..n : x = e[i] /\ y = e[j]
    BY <2>1
  <2>3. PICK p \in Int, q \in Int : p = key[x] /\ q = key[y]
    OBVIOUS
  <2>4. key[y] < key[x] \/ (key[x] = key[y] /\ x # y)
    BY <2>1, <2>2
  <2>5. q < p \/ (p = q /\ x # y)
    BY <2>3, <2>4
  <2>6. q <= p
    BY <2>5
  <2>7. x # y
    BY <2>3, <2>5
  <2> QED
    BY <2>2, <2>3, <2>6, <2>7
<1>5. ASSUME NEW r \in 1..n, r \notin {idx[j] : j \in 1..m}, NEW j \in 1..m PROVE key[idx[j]] <= key[r]
  <2>1. PICK k \in 1..n : e[k] = r
    BY <1>2
  <2>2. ~(n - k + 1 \in 1..m)
    <3>1. SUFFICES ASSUME n - k + 1 \in 1..m PROVE FALSE
      OBVIOUS
    <3>2. idx[n - k + 1] = e[n - (n - k + 1) + 1] /\ n - (n - k + 1) + 1 = k
      BY <1>3, <3>1
    <3> QED
      BY <1>5, <2>1, <3>1, <3>2
  <2>3. k < n - j + 1 /\ n - j + 1 \in 1..n
    BY <2>2
  <2> QED
    BY <1>3, <1>4, <2>1, <2>3
<1>6. \A i, j \in 1..m : i < j => idx[i] # idx[j] /\ key[idx[i]] <= key[idx[j]]
  <2> SUFFICES ASSUME NEW i \in 1..m, NEW j \in 1..m, i < j PROVE idx[i] # idx[j] /\ key[idx[i]] <= key[idx[j]]
    OBVIOUS
  <2>1. n - i + 1 \in 1..n /\ n - j + 1 \in 1..n /\ n - j + 1 < n - i + 1
    OBVIOUS
  <2>2. e[n - j + 1] # e[n - i + 1] /\ key[e[n - i + 1]] <= key[e[n - j + 1]]
    BY <1>4, <2>1
  <2> QED
    BY <1>3, <2>2
<1>7. \A i \in 1..m : idx[i] \in 1..n
  <2>1. \A i \in 1..m : n - i + 1 \in 1..n
    OBVIOUS
  <2> QED
    BY <1>2, <1>3, <2>1
<1> QED
  BY <1>3, <1>5, <1>6, <1>7 DEF IsFirst, idx

LEMMA ColumnKeys ==
  ASSUME NEW n \in Nat, NEW col, col.data \in [1..n -> Word]
  PROVE  [i \in 1..n |-> KeyOfRow(col, i)] \in [1..n -> Int]
<1>1. ASSUME NEW i \in 1..n PROVE KeyOfRow(col, i) \in Int
  <2>1. PICK x \in Int : x = col.data[i]
    BY WordsAreInts
  <2>2. OrderKey(x) \in Int
    <3>1. OrderKey(x) \in 0..W - 1
      BY DoublesAreOrdered
    <3>2. 0..W - 1 \subseteq Int
      BY WordFacts
    <3> QED
      BY <3>1, <3>2
  <2> QED
    BY <2>1, <2>2 DEF KeyOfRow
<1> QED
  BY <1>1

\* The rows idx, as many as were asked for or there are, rank as native's do.
RanksAs(col, table, k, desc, idx, n) ==
  IsRanking(table, "v", col.dtype = "f64", k, desc, idx) /\ DOMAIN idx = 1..Min({k, n})

\* gpu_topk_resident on the CPU: k different rows, none left out ranks before one
\* returned, doubles compared as numbers with NaN the greatest.
THEOREM TopKRanks ==
  ASSUME NEW n \in Nat, NEW col, NEW table, IsColumnOf(col, table, n), NEW k \in Nat, NEW desc \in BOOLEAN
  PROVE  RanksAs(col, table, k, desc, TopK(col, k, desc), n)
<1> DEFINE key == [i \in 1..n |-> IF desc THEN 0 - KeyOfRow(col, i) ELSE KeyOfRow(col, i)]
           Less(a, b) == Precedes(col, desc, a, b) \/ (~Precedes(col, desc, b, a) /\ a < b)
           R == {p \in (1..n) \X (1..n) : Less(p[1], p[2])}
           e == InOrder(DOMAIN col.data, Less)
           m == Min({k, n})
<1> USE DEF IsColumnOf
<1>1. key \in [1..n -> Int]
  <2>1. \A i \in 1..n : KeyOfRow(col, i) \in Int
    BY ColumnKeys
  <2> QED
    BY <2>1
<1>2. \A a, b \in 1..n : Less(a, b) <=> key[a] < key[b] \/ (key[a] = key[b] /\ a < b)
  <2> SUFFICES ASSUME NEW a \in 1..n, NEW b \in 1..n
               PROVE  Less(a, b) <=> key[a] < key[b] \/ (key[a] = key[b] /\ a < b)
    OBVIOUS
  <2>1. PICK p \in Int, q \in Int : p = KeyOfRow(col, a) /\ q = KeyOfRow(col, b)
    BY ColumnKeys
  <2>2. (Precedes(col, desc, a, b) <=> IF desc THEN p > q ELSE p < q) /\ (Precedes(col, desc, b, a) <=> IF desc THEN q > p ELSE q < p)
    BY <2>1 DEF Precedes, KeyOfRow
  <2>3. CASE desc
    <3>1. (Precedes(col, desc, a, b) <=> p > q) /\ (Precedes(col, desc, b, a) <=> q > p) /\ key[a] = 0 - p /\ key[b] = 0 - q
      BY <2>1, <2>2, <2>3
    <3>2. (p > q <=> 0 - p < 0 - q) /\ (p = q <=> 0 - p = 0 - q)
      OBVIOUS
    <3> HIDE DEF key
    <3> QED
      BY <3>1, <3>2
  <2>4. CASE ~desc
    <3>1. (Precedes(col, desc, a, b) <=> p < q) /\ (Precedes(col, desc, b, a) <=> q < p) /\ key[a] = p /\ key[b] = q
      BY <2>1, <2>2, <2>4
    <3> HIDE DEF key
    <3> QED
      BY <3>1
  <2> QED
    BY <2>3, <2>4
<1>3. \A a, b \in 1..n : <<a, b>> \in R <=> Less(a, b)
  <2> HIDE DEF Less
  <2> QED
    OBVIOUS
<1> HIDE DEF key
<1>4. IsFiniteSet(1..n) /\ Cardinality(1..n) = n
  BY FS_Interval
<1>5. IsOrder(R, 1..n)
  <2>1. \A a, b \in 1..n : <<a, b>> \in R <=> key[a] < key[b] \/ (key[a] = key[b] /\ a < b)
    BY <1>2, <1>3, Zenon
  <2> HIDE DEF R
  <2> QED
    BY <1>1, <2>1, KeyedOrder
<1>6. Enumerates(e, R, 1..n)
  <2>1. \A x \in 1..n : {y \in 1..n : Less(y, x)} = Below(R, 1..n, x)
    <3> HIDE DEF Less, R
    <3> QED
      BY <1>3 DEF Below
  <2>2. \A x \in 1..n : Cardinality({y \in 1..n : Less(y, x)}) = RankOf(R, 1..n, x)
    BY <2>1, Zenon DEF RankOf
  <2>3. e = [j \in 1..n |-> CHOOSE x \in 1..n : Cardinality({y \in 1..n : Less(y, x)}) = j - 1]
    <3>1. DOMAIN col.data = 1..n
      OBVIOUS
    <3>2. e = [j \in 1..Cardinality(DOMAIN col.data) |->
                CHOOSE x \in DOMAIN col.data : Cardinality({y \in DOMAIN col.data : Less(y, x)}) = j - 1]
      BY DEF InOrder
    <3> HIDE DEF e, Less
    <3> QED
      BY <1>4, <3>1, <3>2
  <2> HIDE DEF Less, R, e
  <2>4. \A j \in 0..n - 1 : \E x \in 1..n : RankOf(R, 1..n, x) = j
    BY <1>4, <1>5, RanksAreTaken
  <2>5. ASSUME NEW j \in 1..n PROVE e[j] \in 1..n /\ RankOf(R, 1..n, e[j]) = j - 1
    <3>1. j - 1 \in 0..n - 1
      OBVIOUS
    <3>2. \E x \in 1..n : Cardinality({y \in 1..n : Less(y, x)}) = j - 1
      BY <2>2, <2>4, <3>1
    <3>3. e[j] \in 1..n /\ Cardinality({y \in 1..n : Less(y, e[j])}) = j - 1
      <4>1. e[j] = CHOOSE x \in 1..n : Cardinality({y \in 1..n : Less(y, x)}) = j - 1
        BY <2>3
      <4> QED
        BY <3>2, <4>1
    <3> QED
      BY <2>2, <3>3
  <2>6. DOMAIN e = 1..n
    BY <2>3
  <2> QED
    BY <1>4, <1>5, <2>5, <2>6, RanksEnumerate
<1>7. m \in 0..n
  BY MinOfTwo
<1>8. TopK(col, k, desc) = SubSeq(e, 1, m)
  <2>1. Len(col.data) = n
    OBVIOUS
  <2> QED
    BY <2>1 DEF TopK
<1>9. IsFirst(SubSeq(e, 1, m), m, n, key)
  <2>1. \A x, y \in 1..n : <<x, y>> \in R => key[x] < key[y] \/ (key[x] = key[y] /\ x # y)
    BY <1>2, <1>3
  <2> HIDE DEF e, R, m
  <2> QED
    BY <1>1, <1>6, <1>7, <2>1, PrefixIsFirst
<1>10. IsKeyOf(key, col, n, desc)
  BY DEF key, IsKeyOf
<1>11. PICK l \in 0..n : l = Min({k, n})
  BY <1>7
<1> HIDE DEF e, key, IsColumnOf
<1>12. IsFirst(TopK(col, k, desc), l, n, key)
  BY <1>8, <1>9, <1>11
<1>13. \A idx : IsFirst(idx, l, n, key) => RanksAs(col, table, k, desc, idx, n)
  BY <1>10, <1>11, FirstIsRanking DEF RanksAs, IsFirst
<1> QED
  BY <1>12, <1>13, Zenon

\* The device's sort key is the order key, but for -0.0, which it puts just below 0.0.
LEMMA DeviceKeyIs ==
  ASSUME NEW bits \in Int
  PROVE  /\ F64OrderKey(bits) \in Int
         /\ OrderKey(bits) = IF F64OrderKey(bits) = W \div 2 - 1 THEN W \div 2 ELSE F64OrderKey(bits)
<1>1. PICK m \in Nat : m >= 2 /\ W = 16 * m /\ W \div 2 = 8 * m /\ ManSpan = m
  BY DoubleFacts
<1>2. PICK u \in 0..16 * m - 1 : u = bits % W
  <2>1. PICK w \in Nat \ {0} : w = 16 * m
    BY <1>1
  <2>2. bits % w \in 0..w - 1
    BY <2>1
  <2> QED
    BY <1>1, <2>1, <2>2
<1>3. PICK z \in Int : z = IF IsZero(bits) THEN 0 ELSE u
  BY <1>2
<1>4. IsZero(bits) <=> u = 0 \/ u = 8 * m
  BY <1>1, <1>2 DEF IsZero
<1>5. OrderKey(bits) = IF IsNan(bits) THEN 16 * m - 1 ELSE IF z >= 8 * m THEN 16 * m - 1 - z ELSE z + 8 * m
  BY <1>1, <1>2, <1>3 DEF OrderKey
<1>6. F64OrderKey(bits) = IF IsNan(bits) THEN 16 * m - 1 ELSE IF u >= 8 * m THEN 16 * m - 1 - u ELSE u + 8 * m
  BY <1>1, <1>2 DEF F64OrderKey
<1>7. CASE IsNan(bits)
  <2>1. OrderKey(bits) = 16 * m - 1 /\ F64OrderKey(bits) = 16 * m - 1
    BY <1>5, <1>6, <1>7
  <2>2. 16 * m - 1 # 8 * m - 1 /\ 16 * m - 1 \in Int
    BY <1>1
  <2> QED
    BY <1>1, <2>1, <2>2
<1>8. CASE ~IsNan(bits) /\ u = 8 * m
  <2>1. OrderKey(bits) = 8 * m /\ F64OrderKey(bits) = 8 * m - 1
    BY <1>1, <1>3, <1>4, <1>5, <1>6, <1>8
  <2> QED
    BY <1>1, <2>1
<1>9. CASE ~IsNan(bits) /\ u # 8 * m
  <2>1. z = u
    BY <1>3, <1>4, <1>9
  <2>2. PICK f \in Int : f = IF u >= 8 * m THEN 16 * m - 1 - u ELSE u + 8 * m
    BY <1>1, <1>2
  <2>3. OrderKey(bits) = f /\ F64OrderKey(bits) = f
    BY <1>5, <1>6, <1>9, <2>1, <2>2
  <2>4. f # 8 * m - 1
    BY <1>1, <1>2, <1>9, <2>2
  <2> QED
    BY <1>1, <2>3, <2>4
<1> QED
  BY <1>7, <1>8, <1>9

\* The key the device sorts a row by.
DeviceKey(col, i) == IF col.dtype = "f64" THEN F64OrderKey(col.data[i]) ELSE col.data[i]
LEMMA DeviceKeys ==
  ASSUME NEW n \in Nat, NEW col, col.data \in [1..n -> Word]
  PROVE  /\ \A i \in 1..n : DeviceKey(col, i) \in Int
         /\ \A i, j \in 1..n : DeviceKey(col, i) <= DeviceKey(col, j) => KeyOfRow(col, i) <= KeyOfRow(col, j)
<1>1. PICK m \in Nat : m >= 2 /\ W = 16 * m /\ W \div 2 = 8 * m /\ ManSpan = m
  BY DoubleFacts
<1>2. ASSUME NEW i \in 1..n
      PROVE  /\ DeviceKey(col, i) \in Int
             /\ KeyOfRow(col, i) = IF col.dtype = "f64" /\ DeviceKey(col, i) = 8 * m - 1 THEN 8 * m ELSE DeviceKey(col, i)
  <2>1. PICK x \in Int : x = col.data[i]
    BY WordsAreInts
  <2>2. /\ F64OrderKey(x) \in Int
        /\ OrderKey(x) = IF F64OrderKey(x) = 8 * m - 1 THEN 8 * m ELSE F64OrderKey(x)
    BY <1>1, DeviceKeyIs
  <2> QED
    BY <2>1, <2>2 DEF DeviceKey, KeyOfRow
<1>3. ASSUME NEW i \in 1..n, NEW j \in 1..n, DeviceKey(col, i) <= DeviceKey(col, j)
      PROVE  KeyOfRow(col, i) <= KeyOfRow(col, j)
  <2>1. PICK p \in Int, q \in Int : p = DeviceKey(col, i) /\ q = DeviceKey(col, j)
    BY <1>2
  <2>2. PICK c \in {0, 1} : c = 1 <=> col.dtype = "f64"
    <3>1. CASE col.dtype = "f64"
      BY <3>1
    <3>2. CASE col.dtype # "f64"
      BY <3>2
    <3> QED
      BY <3>1, <3>2
  <2>3. /\ KeyOfRow(col, i) = IF c = 1 /\ p = 8 * m - 1 THEN 8 * m ELSE p
        /\ KeyOfRow(col, j) = IF c = 1 /\ q = 8 * m - 1 THEN 8 * m ELSE q
    BY <1>2, <2>1, <2>2
  <2>4. p <= q
    BY <1>3, <2>1
  <2> QED
    BY <1>1, <2>3, <2>4
<1> QED
  BY <1>2, <1>3

\* The same on the device, which sorts ascending whatever the direction and returns
\* the end of the order reversed; a lane stored narrow is refused.
THEOREM DeviceTopKRanks ==
  ASSUME NEW n \in Nat, NEW col, NEW table, IsColumnOf(col, table, n), NEW k \in Nat, NEW desc \in BOOLEAN
  PROVE  \/ DeviceTopK(col, k, desc).err # "" /\ col.width # 8
         \/ /\ DeviceTopK(col, k, desc).err = ""
            /\ RanksAs(col, table, k, desc, DeviceTopK(col, k, desc).idx, n)
<1> DEFINE key == [i \in 1..n |-> IF desc THEN 0 - KeyOfRow(col, i) ELSE KeyOfRow(col, i)]
           up == [i \in 1..n |-> DeviceKey(col, i)]
           Less(a, b) == DeviceKey(col, a) < DeviceKey(col, b) \/ (DeviceKey(col, a) = DeviceKey(col, b) /\ a < b)
           R == {p \in (1..n) \X (1..n) : Less(p[1], p[2])}
           e == InOrder(DOMAIN col.data, Less)
           m == Min({k, n})
<1> USE DEF IsColumnOf
<1>1. up \in [1..n -> Int] /\ key \in [1..n -> Int]
  <2>1. \A i \in 1..n : KeyOfRow(col, i) \in Int
    BY ColumnKeys
  <2>2. \A i \in 1..n : DeviceKey(col, i) \in Int
    BY DeviceKeys
  <2> QED
    BY <2>1, <2>2
<1>2. \A a, b \in 1..n : <<a, b>> \in R <=> Less(a, b)
  <2> HIDE DEF Less
  <2> QED
    OBVIOUS
<1>3. IsFiniteSet(1..n) /\ Cardinality(1..n) = n
  BY FS_Interval
<1>4. \A a, b \in 1..n : <<a, b>> \in R <=> up[a] < up[b] \/ (up[a] = up[b] /\ a < b)
  <2> HIDE DEF R
  <2> QED
    BY <1>2
<1>5. IsOrder(R, 1..n)
  <2> HIDE DEF R, up
  <2> QED
    BY <1>1, <1>4, KeyedOrder
<1>6. Enumerates(e, R, 1..n)
  <2>1. \A x \in 1..n : {y \in 1..n : Less(y, x)} = Below(R, 1..n, x)
    <3> HIDE DEF Less, R
    <3> QED
      BY <1>2 DEF Below
  <2>2. \A x \in 1..n : Cardinality({y \in 1..n : Less(y, x)}) = RankOf(R, 1..n, x)
    BY <2>1, Zenon DEF RankOf
  <2>3. e = [j \in 1..n |-> CHOOSE x \in 1..n : Cardinality({y \in 1..n : Less(y, x)}) = j - 1]
    <3>1. DOMAIN col.data = 1..n
      OBVIOUS
    <3>2. e = [j \in 1..Cardinality(DOMAIN col.data) |->
                CHOOSE x \in DOMAIN col.data : Cardinality({y \in DOMAIN col.data : Less(y, x)}) = j - 1]
      BY DEF InOrder
    <3> HIDE DEF e, Less
    <3> QED
      BY <1>3, <3>1, <3>2
  <2> HIDE DEF Less, R, e
  <2>4. \A j \in 0..n - 1 : \E x \in 1..n : RankOf(R, 1..n, x) = j
    BY <1>3, <1>5, RanksAreTaken
  <2>5. ASSUME NEW j \in 1..n PROVE e[j] \in 1..n /\ RankOf(R, 1..n, e[j]) = j - 1
    <3>1. j - 1 \in 0..n - 1
      OBVIOUS
    <3>2. \E x \in 1..n : Cardinality({y \in 1..n : Less(y, x)}) = j - 1
      BY <2>2, <2>4, <3>1
    <3>3. e[j] \in 1..n /\ Cardinality({y \in 1..n : Less(y, e[j])}) = j - 1
      <4>1. e[j] = CHOOSE x \in 1..n : Cardinality({y \in 1..n : Less(y, x)}) = j - 1
        BY <2>3
      <4> QED
        BY <3>2, <4>1
    <3> QED
      BY <2>2, <3>3
  <2>6. DOMAIN e = 1..n
    BY <2>3
  <2> QED
    BY <1>3, <1>5, <2>5, <2>6, RanksEnumerate
<1>7. PICK l \in 0..n : l = Min({k, n})
  BY MinOfTwo
<1>8. \/ l = 0 /\ DeviceTopK(col, k, desc) = [err |-> "", idx |-> <<>>]
      \/ l # 0 /\ col.width # 8 /\ DeviceTopK(col, k, desc) = [err |-> "stored narrow", idx |-> <<>>]
      \/ l # 0 /\ ~desc /\ DeviceTopK(col, k, desc) = [err |-> "", idx |-> SubSeq(e, 1, l)]
      \/ l # 0 /\ desc /\ DeviceTopK(col, k, desc) = [err |-> "", idx |-> Reverse(SubSeq(e, n - l + 1, n))]
  <2>1. Len(col.data) = n
    OBVIOUS
  <2>2. e = InOrder(DOMAIN col.data, LAMBDA a, b :
             (IF col.dtype = "f64" THEN F64OrderKey(col.data[a]) ELSE col.data[a]) < (IF col.dtype = "f64" THEN F64OrderKey(col.data[b]) ELSE col.data[b])
             \/ ((IF col.dtype = "f64" THEN F64OrderKey(col.data[a]) ELSE col.data[a]) = (IF col.dtype = "f64" THEN F64OrderKey(col.data[b]) ELSE col.data[b])
                 /\ a < b))
    BY DEF DeviceKey
  <2> HIDE DEF e
  <2> QED
    BY <1>7, <2>1, <2>2 DEF DeviceTopK
<1>9. \A x, y \in 1..n : <<x, y>> \in R => KeyOfRow(col, x) <= KeyOfRow(col, y) /\ x # y
  <2> HIDE DEF R, key
  <2> SUFFICES ASSUME NEW x \in 1..n, NEW y \in 1..n, <<x, y>> \in R
               PROVE  KeyOfRow(col, x) <= KeyOfRow(col, y) /\ x # y
    OBVIOUS
  <2>1. PICK p \in Int, q \in Int : p = DeviceKey(col, x) /\ q = DeviceKey(col, y)
    BY DeviceKeys
  <2>2. p < q \/ (p = q /\ x < y)
    BY <1>2, <2>1
  <2>3. p <= q /\ x # y
    BY <2>1, <2>2
  <2> QED
    BY <2>1, <2>3, DeviceKeys
<1>10. ~desc => IsFirst(SubSeq(e, 1, l), l, n, key)
  <2> SUFFICES ASSUME ~desc PROVE IsFirst(SubSeq(e, 1, l), l, n, key)
    OBVIOUS
  <2>1. \A x \in 1..n : key[x] = KeyOfRow(col, x)
    OBVIOUS
  <2>2. \A x, y \in 1..n : <<x, y>> \in R => key[x] < key[y] \/ (key[x] = key[y] /\ x # y)
    <3> HIDE DEF R, key
    <3> SUFFICES ASSUME NEW x \in 1..n, NEW y \in 1..n, <<x, y>> \in R PROVE key[x] < key[y] \/ (key[x] = key[y] /\ x # y)
      OBVIOUS
    <3>1. PICK p \in Int, q \in Int : p = key[x] /\ q = key[y]
      BY <1>1
    <3>2. p <= q /\ x # y
      BY <1>9, <2>1, <3>1
    <3> QED
      BY <3>1, <3>2
  <2> HIDE DEF e, R, key
  <2> QED
    BY <1>1, <1>6, <2>2, PrefixIsFirst
<1>11. desc => IsFirst(Reverse(SubSeq(e, n - l + 1, n)), l, n, key)
  <2> SUFFICES ASSUME desc PROVE IsFirst(Reverse(SubSeq(e, n - l + 1, n)), l, n, key)
    OBVIOUS
  <2>1. \A x \in 1..n : key[x] = 0 - KeyOfRow(col, x)
    OBVIOUS
  <2>2. \A x, y \in 1..n : <<x, y>> \in R => key[y] < key[x] \/ (key[x] = key[y] /\ x # y)
    <3> HIDE DEF R, key
    <3> SUFFICES ASSUME NEW x \in 1..n, NEW y \in 1..n, <<x, y>> \in R PROVE key[y] < key[x] \/ (key[x] = key[y] /\ x # y)
      OBVIOUS
    <3>1. PICK p \in Int, q \in Int : p = KeyOfRow(col, x) /\ q = KeyOfRow(col, y)
      BY ColumnKeys
    <3>2. p <= q /\ x # y
      BY <1>9, <3>1
    <3>3. key[x] = 0 - p /\ key[y] = 0 - q
      BY <2>1, <3>1
    <3>4. 0 - q < 0 - p \/ (0 - p = 0 - q /\ x # y)
      BY <3>2
    <3> QED
      BY <3>3, <3>4
  <2> HIDE DEF e, R, key
  <2> QED
    BY <1>1, <1>6, <2>2, SuffixIsFirst
<1>12. l = 0 => IsFirst(<<>>, l, n, key)
  BY DEF IsFirst
<1>13. IsKeyOf(key, col, n, desc)
  BY DEF key, IsKeyOf
<1> HIDE DEF key, e, IsColumnOf
<1>14. \A idx : IsFirst(idx, l, n, key) => RanksAs(col, table, k, desc, idx, n)
  BY <1>7, <1>13, FirstIsRanking DEF RanksAs, IsFirst
<1>15. PICK x : x = DeviceTopK(col, k, desc)
  OBVIOUS
<1>16. CASE l = 0 /\ x = [err |-> "", idx |-> <<>>]
  <2>1. x.err = "" /\ x.idx = <<>>
    BY <1>16
  <2>2. RanksAs(col, table, k, desc, x.idx, n)
    BY <1>12, <1>14, <1>16, <2>1
  <2> QED
    BY <1>15, <2>1, <2>2, Zenon
<1>17. CASE l # 0 /\ col.width # 8 /\ x = [err |-> "stored narrow", idx |-> <<>>]
  <2>1. x.err # "" /\ col.width # 8
    BY <1>17
  <2> QED
    BY <1>15, <2>1, Zenon
<1>18. CASE l # 0 /\ ~desc /\ x = [err |-> "", idx |-> SubSeq(e, 1, l)]
  <2>1. x.err = "" /\ x.idx = SubSeq(e, 1, l)
    BY <1>18
  <2>2. RanksAs(col, table, k, desc, x.idx, n)
    BY <1>10, <1>14, <1>18, <2>1, Zenon
  <2> QED
    BY <1>15, <2>1, <2>2, Zenon
<1>19. CASE l # 0 /\ desc /\ x = [err |-> "", idx |-> Reverse(SubSeq(e, n - l + 1, n))]
  <2>1. x.err = "" /\ x.idx = Reverse(SubSeq(e, n - l + 1, n))
    BY <1>19
  <2>2. RanksAs(col, table, k, desc, x.idx, n)
    BY <1>11, <1>14, <1>19, <2>1, Zenon
  <2> QED
    BY <1>15, <2>1, <2>2, Zenon
<1> QED
  BY <1>8, <1>15, <1>16, <1>17, <1>18, <1>19, Zenon
===============================================================================
