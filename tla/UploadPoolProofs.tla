------------------------- MODULE UploadPoolProofs -------------------------
(***************************************************************************)
(* PoolInv is an inductive invariant of UploadPool, and what follows from  *)
(* it for every number of states, statements, names, texts and caps.  Most *)
(* callbacks work on one state and leave the sessions alone (StateStep);   *)
(* what such a step must show is only that its own state is sound again.   *)
(***************************************************************************)
EXTENDS UploadPool, FiniteSetTheorems, TLAPS

\* The records a callback leaves behind are well typed.
LEMMA Initials == Idle \in Op /\ NoBuf \in Buf /\ NoSession \in Session
<1>1. Idle \in Op
  BY DEF Idle, Op, Kind
<1>2. NoBuf \in Buf
  BY PoolAssumption DEF NoBuf, Buf
<1>3. NoSession \in Session
  BY DEF NoSession, Session
<1> QED
  BY <1>1, <1>2, <1>3

LEMMA BegunOp ==
  ASSUME NEW w \in Nat
  PROVE  /\ [Idle EXCEPT !.pc = "update", !.want = w] \in Op
         /\ \A r \in State : [Idle EXCEPT !.pc = "combine", !.want = w, !.src = r] \in Op
         /\ [Idle EXCEPT !.pc = "segment", !.want = w] \in Op
         /\ \A q \in Stmt : [Idle EXCEPT !.pc = "device", !.kind = KindOf[q]] \in Op
         /\ \A k \in Kind : [Idle EXCEPT !.pc = "device", !.held = w, !.kind = k] \in Op
<1>1. \A q \in Stmt : KindOf[q] \in Kind
  BY PoolAssumption
<1> QED
  BY <1>1, Initials DEF Op

\* note_string keeps a dictionary within the texts, and never empties one.
LEMMA NotedFacts ==
  ASSUME NEW x \in SUBSET Text, NEW y \in SUBSET Text
  PROVE  Noted(x, y) \in SUBSET Text /\ (Noted(x, y) = {} <=> x = {} /\ y = {})
BY DEF Noted

\* release_state_buf leaves an empty buffer without a name.
LEMMA ReleasedFacts ==
  ASSUME NEW b \in Buf
  PROVE  /\ Released(b) \in Buf
         /\ Released(b).lanes = 0 /\ Released(b).name = NoName /\ Released(b).from = {}
<1>1. b.final \in BOOLEAN
  BY DEF Buf
<1>2. Released(b) \in Buf
  BY <1>1, Initials DEF Released, Buf
<1> QED
  BY <1>2, Initials DEF Released, NoBuf

\* What a step may use of a state.
LEMMA Ground ==
  ASSUME PoolInv, NEW s \in State
  PROVE  /\ s \in Agent /\ s # NoState /\ StmtOf[s] \in Stmt /\ KindOf[StmtOf[s]] \in Kind
         /\ buf[s] \in Buf /\ op[s] \in Op /\ RowsSound(buf[s])
         /\ bytes \in Int /\ buf \in [State -> Buf] /\ op \in [Agent -> Op]
BY PoolAssumption DEF PoolInv, TypeOK, Agent, BufSound

LEMMA FailFacts ==
  ASSUME PoolInv, NEW q \in Stmt, Fail(q) \/ UNCHANGED phase
  PROVE  /\ phase' \in [Stmt -> {"sink", "finalize", "failed"}]
         /\ \A r \in Stmt : phase'[r] = phase[r] \/ phase'[r] = "failed"
         /\ Fail(q) => phase'[q] = "failed"
BY DEF PoolInv, TypeOK, Fail

\* A callback of one state that leaves the sessions, the lock and every other
\* state alone keeps the invariant if its own state is sound again.
LEMMA StateStep ==
  ASSUME PoolInv, NEW s \in State,
         buf' \in [State -> Buf], op' \in [Agent -> Op],
         \A t \in State : t # s => buf'[t] = buf[t] /\ op'[t] = op[t],
         phase' \in [Stmt -> {"sink", "finalize", "failed"}],
         \A q \in Stmt : phase'[q] = phase[q] \/ phase'[q] = "failed",
         op[s].pc # "idle" \/ Quiet(s),
         op[s].pc # "segment", op'[s].pc # "segment",
         bytes' \in Int, UNCHANGED <<sessions, lock, seq, leaked>>,
         BufSound(s)', NamedEmpty(s)', CombineSound(s)'
  PROVE  PoolInv'
<1>1. TypeOK'
  BY DEF PoolInv, TypeOK
<1>2. lock' # NoState => op'[lock'].pc = "segment"
  BY PoolAssumption DEF PoolInv, TypeOK
<1>3. ASSUME NEW t \in State, t # s, op[t].pc = "combine"
      PROVE  op[t].src \in State /\ op[t].src # s /\ op[t].src # t
  BY <1>3 DEF PoolInv, CombineSound, Quiet
<1>4. ASSUME NEW t \in State, t # s
      PROVE  BufSound(t)' /\ NamedEmpty(t)' /\ CombineSound(t)' /\ SegmentSound(t)'
  <2>1. buf'[t] = buf[t] /\ op'[t] = op[t]
    BY <1>4
  <2>2. BufSound(t)'
    BY <2>1 DEF PoolInv, BufSound
  <2>3. op[t].pc = "combine" => buf'[op[t].src] = buf[op[t].src] /\ op'[op[t].src] = op[op[t].src]
    BY <1>3, <1>4
  <2>4. StmtOf[t] \in Stmt
    BY PoolAssumption
  <2>5. NamedEmpty(t)'
    BY <2>1, <2>3, <2>4 DEF PoolInv, NamedEmpty
  <2>6. CombineSound(t)'
    <3>1. CASE op[t].pc # "combine"
      BY <3>1, <2>1 DEF CombineSound
    <3>2. CASE op[t].pc = "combine"
      <4>1. PICK r \in State : r = op[t].src
        BY <3>2, <1>3, <1>4
      <4>2. buf'[r] = buf[r] /\ op'[r] = op[r] /\ op'[t].src = r
        BY <4>1, <3>2, <2>3, <2>1
      <4>3. CombineSound(t)
        BY DEF PoolInv
      <4> QED
        BY <4>1, <4>2, <4>3, <3>2, <2>1 DEF CombineSound
    <3> QED
      BY <3>1, <3>2
  <2>7. SegmentSound(t)'
    BY <2>1 DEF PoolInv, SegmentSound
  <2> QED
    BY <2>2, <2>5, <2>6, <2>7
<1>5. SegmentSound(s)'
  BY DEF SegmentSound
<1>6. \A n \in Name : SessionSound(n)'
  BY DEF PoolInv, SessionSound
<1> QED
  BY <1>1, <1>2, <1>4, <1>5, <1>6 DEF PoolInv

\* A call under registry_mu that leaves the states alone keeps it if every
\* session is sound again.
LEMMA SessionStep ==
  ASSUME PoolInv, lock = NoState, UNCHANGED <<buf, phase, lock, leaked>>,
         op' \in [Agent -> Op], \A s \in State : op'[s] = op[s],
         bytes' \in Int, seq' \in 0..MaxSeq, sessions' \in [Name -> Session],
         \A n \in Name : SessionSound(n)'
  PROVE  PoolInv'
<1>1. TypeOK'
  BY DEF PoolInv, TypeOK
<1>2. ASSUME NEW s \in State
      PROVE  BufSound(s)' /\ NamedEmpty(s)' /\ CombineSound(s)' /\ SegmentSound(s)'
  <2>1. op'[s] = op[s] /\ op[s].pc # "segment"
    BY PoolAssumption DEF PoolInv, SegmentSound, Agent
  <2>2. BufSound(s)'
    BY DEF PoolInv, BufSound
  <2>3. NamedEmpty(s)'
    BY <2>1 DEF PoolInv, NamedEmpty
  <2>4. CombineSound(s)'
    BY <2>1 DEF PoolInv, CombineSound
  <2>5. SegmentSound(s)'
    BY <2>1 DEF SegmentSound
  <2> QED
    BY <2>2, <2>3, <2>4, <2>5
<1> QED
  BY <1>1, <1>2 DEF PoolInv

LEMMA InitSound == Init => PoolInv
<1> SUFFICES ASSUME Init PROVE PoolInv
  OBVIOUS
<1>1. TypeOK
  BY Initials, PoolAssumption DEF Init, TypeOK
<1>2. ASSUME NEW s \in State
      PROVE  BufSound(s) /\ NamedEmpty(s) /\ CombineSound(s) /\ SegmentSound(s)
  BY DEF Init, BufSound, NamedEmpty, CombineSound, SegmentSound,
         RowsSound, NoBuf, Idle, Agent
<1>3. \A n \in Name : SessionSound(n)
  BY DEF Init, SessionSound, NoSession
<1> QED
  BY <1>1, <1>2, <1>3 DEF PoolInv, Init

-----------------------------------------------------------------------------
(* update *)

LEMMA UpdateKeeps ==
  ASSUME PoolInv, NEW s \in State, Update(s) PROVE PoolInv'
<1> USE Ground
<1>1. PICK n \in 1..MaxChunk :
          IF Fits(n, IsExact(s))
          THEN /\ op' = [op EXCEPT ![s] = [Idle EXCEPT !.pc = "update", !.want = n]]
               /\ UNCHANGED phase
          ELSE Fail(StmtOf[s]) /\ UNCHANGED op
  BY DEF Update
<1>2. /\ UNCHANGED <<bytes, buf, sessions, lock, seq, leaked>>
      /\ op[s].pc = "idle" /\ Quiet(s) /\ phase[StmtOf[s]] = "sink"
  BY DEF Update, Quiet
<1>3. [Idle EXCEPT !.pc = "update", !.want = n] \in Op
  <2>1. n \in Nat
    BY PoolAssumption
  <2> QED
    BY <2>1, BegunOp
<1>4. /\ op' \in [Agent -> Op] /\ op'[s].pc \in {"idle", "update"}
      /\ \A t \in State : t # s => buf'[t] = buf[t] /\ op'[t] = op[t]
  BY <1>1, <1>2, <1>3 DEF Idle, Agent
<1>5. BufSound(s)' /\ NamedEmpty(s)' /\ CombineSound(s)'
  BY <1>2, <1>4 DEF PoolInv, BufSound, NamedEmpty, CombineSound
<1>6. /\ phase' \in [Stmt -> {"sink", "finalize", "failed"}]
      /\ \A q \in Stmt : phase'[q] = phase[q] \/ phase'[q] = "failed"
  BY <1>1, FailFacts
<1> QED
  BY <1>2, <1>4, <1>5, <1>6, StateStep

LEMMA UpdateAddKeeps ==
  ASSUME PoolInv, NEW s \in State, UpdateAdd(s) PROVE PoolInv'
<1> USE Ground
<1>1. /\ UNCHANGED <<buf, phase, sessions, lock, seq, leaked>> /\ op[s].pc = "update"
      /\ bytes' = bytes + op[s].want /\ op' = [op EXCEPT ![s].pc = "fill"]
  BY DEF UpdateAdd
<1>2. [op[s] EXCEPT !.pc = "fill"] \in Op /\ op[s].want \in Nat
  BY DEF Op
<1>3. /\ op' = [op EXCEPT ![s] = [op[s] EXCEPT !.pc = "fill"]]
      /\ [op[s] EXCEPT !.pc = "fill"].pc = "fill"
  BY <1>1, <1>2 DEF Op
<1>4. /\ op' \in [Agent -> Op] /\ op'[s].pc = "fill"
      /\ \A t \in State : t # s => buf'[t] = buf[t] /\ op'[t] = op[t]
  BY <1>1, <1>2, <1>3 DEF Agent
<1>5. bytes' \in Int
  BY <1>1, <1>2
<1>6. BufSound(s)' /\ NamedEmpty(s)' /\ CombineSound(s)'
  BY <1>1, <1>4 DEF PoolInv, BufSound, NamedEmpty, CombineSound
<1>7. phase' \in [Stmt -> {"sink", "finalize", "failed"}]
  BY <1>1 DEF PoolInv, TypeOK
<1>8. buf' \in [State -> Buf]
  BY <1>1
<1> QED
  BY <1>1, <1>4, <1>5, <1>6, <1>7, <1>8, StateStep

\* The rows of a chunk leave a sound buffer.
LEMMA FilledSound ==
  ASSUME PoolInv, NEW b \in Buf, RowsSound(b), b.name # NoName => b.lanes > 0,
         NEW n \in Name, NEW k \in Nat, NEW texts \in SUBSET Text,
         k > 0 => b.name \in {NoName, n}
  PROVE  /\ Filled(b, n, k, texts) \in Buf /\ RowsSound(Filled(b, n, k, texts))
         /\ Filled(b, n, k, texts).live = b.live
         /\ k > 0 => Filled(b, n, k, texts).charged
                        = b.charged + (IF Collides(b.texts, texts) THEN k - 1 ELSE k)
         /\ Filled(b, n, k, texts).name # NoName => Filled(b, n, k, texts).lanes > 0
<1>1. CASE k = 0
  BY <1>1 DEF Filled
<1>2. CASE k > 0
  <2> DEFINE charged == IF Collides(b.texts, texts) THEN k - 1 ELSE k
  <2>1. charged \in Nat
    BY <1>2
  <2>2. Noted(b.texts, texts) \in SUBSET Text /\ (Noted(b.texts, texts) = {} <=> b.texts = {} /\ texts = {})
    BY NotedFacts DEF Buf
  <2> HIDE DEF charged
  <2>3. seq \in 0..MaxSeq
    BY DEF PoolInv, TypeOK
  <2>4. PICK d \in Buf : d = Named(b, n) /\ d.name = n /\ d.lanes = b.lanes /\ d.from = b.from
                         /\ d.texts = b.texts /\ d.charged = b.charged /\ d.live = b.live
                         /\ (b.lanes = 0 \/ d = b) /\ (b.lanes = 0 => d.seq_at_start <= d.oldest)
    <3>1. CASE b.name = NoName
      <4>1. b.lanes = 0
        BY <3>1, PoolAssumption DEF RowsSound, Buf
      <4>2. PICK d : d = [b EXCEPT !.name = n, !.seq_at_start = seq, !.oldest = seq]
        OBVIOUS
      <4>3. d \in Buf
        BY <2>3, <4>2 DEF Buf
      <4>4. /\ d.name = n /\ d.lanes = b.lanes /\ d.from = b.from /\ d.texts = b.texts
            /\ d.charged = b.charged /\ d.live = b.live /\ d.seq_at_start = seq /\ d.oldest = seq
        BY <4>2 DEF Buf
      <4>5. d = Named(b, n)
        BY <3>1, <4>2 DEF Named
      <4>6. d.seq_at_start <= d.oldest
        BY <2>3, <4>4
      <4> QED
        BY <4>1, <4>3, <4>4, <4>5, <4>6
    <3>2. CASE b.name # NoName
      <4>1. b.name = n /\ b.lanes > 0
        BY <1>2, <3>2
      <4> QED
        BY <3>2, <4>1 DEF Named, Buf
    <3> QED
      BY <3>1, <3>2
  <2>5. PICK f : f = [d EXCEPT !.lanes = @ + k, !.charged = @ + charged,
                             !.texts = Noted(@, texts), !.from = @ \cup {n}]
    OBVIOUS
  <2>6. Filled(b, n, k, texts) = f
    BY <1>2, <2>4, <2>5 DEF Filled, charged
  <2>7. f \in Buf
    <3>1. d.lanes + k \in Nat /\ d.charged + charged \in Nat /\ d.from \cup {n} \in SUBSET Name
      BY <2>1, <2>4 DEF Buf
    <3>2. Noted(d.texts, texts) \in SUBSET Text
      BY <2>2, <2>4
    <3> QED
      BY <2>5, <3>1, <3>2 DEF Buf
  <2>8. /\ f.name = n /\ f.lanes = b.lanes + k /\ f.from = b.from \cup {n}
        /\ f.texts = Noted(b.texts, texts) /\ f.seq_at_start = d.seq_at_start /\ f.oldest = d.oldest
    BY <2>4, <2>5 DEF Buf
  <2>14. f.charged = b.charged + charged /\ f.live = b.live
    BY <2>4, <2>5 DEF Buf
  <2>9. b.lanes \in Nat /\ f.lanes > 0
    BY <1>2, <2>8 DEF Buf
  <2>10. n \in Name /\ n # NoName
    BY PoolAssumption
  <2>11. f.texts = {} => f.from \subseteq {f.name}
    BY <1>2, <2>2, <2>4, <2>8, <2>9 DEF RowsSound
  <2>12. f.texts = {} => f.seq_at_start <= f.oldest
    BY <2>2, <2>4, <2>8, <2>9 DEF RowsSound
  <2>13. RowsSound(f)
    BY <2>8, <2>9, <2>10, <2>11, <2>12 DEF RowsSound
  <2> QED
    BY <1>2, <2>6, <2>7, <2>9, <2>13, <2>14 DEF charged
<1> QED
  BY <1>1, <1>2

LEMMA FillKeeps ==
  ASSUME PoolInv, NEW s \in State, Fill(s) PROVE PoolInv'
<1> USE Ground
<1>1. PICK n \in Name, k \in 0..op[s].want, failed \in BOOLEAN,
           texts \in {t \in SUBSET Text : Cardinality(t) <= 1} : FillRows(s, n, k, failed, texts)
  BY DEF Fill
<1>2. UNCHANGED <<sessions, lock, seq, leaked>> /\ op[s].pc = "fill" /\ op' = [op EXCEPT ![s] = Idle]
  BY DEF Fill
<1>3. op[s].want \in Nat /\ k \in Nat
  BY DEF Op
<1>4. PICK b \in Buf : /\ b = [buf[s] EXCEPT !.made = TRUE, !.exact = @ \/ IsExact(s)]
                       /\ b.name = buf[s].name /\ b.lanes = buf[s].lanes /\ RowsSound(b)
  <2> DEFINE e == [buf[s] EXCEPT !.made = TRUE, !.exact = @ \/ IsExact(s)]
  <2>1. e \in Buf
    BY DEF Buf
  <2>2. e.name = buf[s].name /\ e.lanes = buf[s].lanes /\ RowsSound(e)
    BY DEF Buf, RowsSound
  <2> QED
    BY <2>1, <2>2
<1>5. b.name # NoName => b.lanes > 0
  BY <1>2, <1>4 DEF PoolInv, NamedEmpty, Buf
<1>6. /\ k > 0 => b.name \in {NoName, n}
      /\ buf' = [buf EXCEPT ![s] = Filled(b, n, k, texts)]
      /\ bytes' \in {bytes - Unused(op[s].want, k), bytes - Unused(op[s].want, k - 1)}
      /\ Fail(StmtOf[s]) \/ UNCHANGED phase
  BY <1>1, <1>4 DEF FillRows
<1>7. PICK f \in Buf : /\ f = Filled(b, n, k, texts) /\ RowsSound(f)
                       /\ f.name # NoName => f.lanes > 0
  BY <1>3, <1>4, <1>5, <1>6, FilledSound
<1>8. /\ buf' \in [State -> Buf] /\ buf'[s] = f /\ bytes' \in Int
      /\ op' \in [Agent -> Op] /\ op'[s].pc = "idle"
      /\ \A t \in State : t # s => buf'[t] = buf[t] /\ op'[t] = op[t]
  <2>1. buf' \in [State -> Buf] /\ buf'[s] = f
    BY <1>6, <1>7
  <2>2. Idle.pc = "idle" /\ op' \in [Agent -> Op] /\ op'[s] = Idle
    BY <1>2, Initials DEF Idle, Agent
  <2>3. \A t \in State : t # s => buf'[t] = buf[t] /\ op'[t] = op[t]
    BY <1>2, <1>6 DEF Agent
  <2>4. bytes' \in Int
    BY <1>3, <1>6 DEF Unused
  <2> QED
    BY <2>1, <2>2, <2>3, <2>4
<1>9. BufSound(s)' /\ NamedEmpty(s)' /\ CombineSound(s)'
  <2>1. ~(f.name # NoName /\ f.lanes = 0)
    BY <1>7
  <2> QED
    BY <1>7, <1>8, <2>1 DEF BufSound, NamedEmpty, CombineSound
<1>10. /\ phase' \in [Stmt -> {"sink", "finalize", "failed"}]
       /\ \A q \in Stmt : phase'[q] = phase[q] \/ phase'[q] = "failed"
  BY <1>6, FailFacts
<1> QED
  BY <1>2, <1>8, <1>9, <1>10, StateStep

-----------------------------------------------------------------------------
(* combine *)

\* A target that adopts the name of its source.
LEMMA AdoptedSound ==
  ASSUME NEW d \in Buf, NEW b \in Buf, RowsSound(d), RowsSound(b)
  PROVE  /\ Adopted(d, b) \in Buf /\ RowsSound(Adopted(d, b))
         /\ Adopted(d, b).lanes = d.lanes
         /\ Adopted(d, b).name = NoName => d.name = NoName /\ b.name = NoName
         /\ Adopted(d, b).name # NoName => d.name # NoName \/ b.name # NoName
<1>1. CASE d.name # NoName \/ b.name = NoName
  BY <1>1 DEF Adopted
<1>2. CASE d.name = NoName /\ b.name # NoName
  <2>1. PICK e : e = [d EXCEPT !.name = b.name, !.seq_at_start = b.seq_at_start]
    OBVIOUS
  <2>2. Adopted(d, b) = e /\ e \in Buf
    BY <1>2, <2>1 DEF Adopted, Buf
  <2>3. e.name = b.name /\ e.lanes = d.lanes /\ e.from = d.from /\ e.texts = d.texts
    BY <2>1 DEF Buf
  <2>4. d.lanes = 0 /\ d.from = {}
    BY <1>2, PoolAssumption DEF RowsSound, Buf
  <2>5. RowsSound(e)
    BY <2>3, <2>4 DEF RowsSound
  <2> QED
    BY <1>2, <2>2, <2>3, <2>5
<1> QED
  BY <1>1, <1>2

\* What combine writes before it reserves is sound, and if it goes on the source
\* fits: without texts it has the same name or none, and is no older.
LEMMA MergedSound ==
  ASSUME NEW d \in Buf, NEW b \in Buf, RowsSound(d), RowsSound(b),
         d.name = NoName => b.name = NoName,
         NEW m, m = [d EXCEPT !.texts = Noted(@, b.texts)] \/ m = Merged(d, b)
  PROVE  /\ m \in Buf /\ RowsSound(m) /\ m.lanes = d.lanes /\ m.name = d.name
         /\ ~Mismatch(d, b) /\ m = Merged(d, b) /\ m.texts = {} =>
               /\ b.texts = {} /\ b.name \in {NoName, m.name}
               /\ b.lanes > 0 => m.seq_at_start <= b.oldest
<1>1. d.texts \in SUBSET Text /\ b.texts \in SUBSET Text
  BY DEF Buf
<1>2. /\ Noted(d.texts, b.texts) \in SUBSET Text
      /\ Noted(d.texts, b.texts) = {} <=> d.texts = {} /\ b.texts = {}
  BY <1>1, NotedFacts
<1>3. CASE m = [d EXCEPT !.texts = Noted(@, b.texts)]
  <2>1. /\ m \in Buf /\ m.texts = Noted(d.texts, b.texts) /\ m.from = d.from /\ m.lanes = d.lanes
        /\ m.name = d.name /\ m.seq_at_start = d.seq_at_start /\ m.oldest = d.oldest
    BY <1>2, <1>3 DEF Buf
  <2>2. RowsSound(m)
    BY <1>2, <2>1 DEF RowsSound
  <2>3. m.texts = {} /\ m = Merged(d, b) => d.texts = {} /\ b.texts = {}
    BY <1>2, <2>1
  <2>4. ASSUME m.texts = {}, m = Merged(d, b), ~Mismatch(d, b)
        PROVE  b.name \in {NoName, m.name} /\ (b.lanes > 0 => m.seq_at_start <= b.oldest)
    <3>1. b.texts = {}
      BY <2>3, <2>4
    <3>2. b.name \in {NoName, d.name}
      BY <2>4, <3>1 DEF Mismatch
    <3>3. ASSUME b.lanes > 0 PROVE m.seq_at_start <= b.oldest
      <4>1. b.name # NoName /\ d.name # NoName /\ b.seq_at_start <= b.oldest
        BY <3>1, <3>3, PoolAssumption DEF RowsSound
      <4>2. m = [d EXCEPT !.seq_at_start = Least(@, b.seq_at_start)]
        BY <2>4, <3>1, <4>1 DEF Merged
      <4>3. m.seq_at_start = Least(d.seq_at_start, b.seq_at_start)
        BY <4>2 DEF Buf
      <4> QED
        BY <4>1, <4>3, PoolAssumption DEF Least, Buf
    <3> QED
      BY <2>1, <3>2, <3>3
  <2> QED
    BY <2>1, <2>2, <2>3, <2>4
<1>4. CASE b.texts = {} /\ m = Merged(d, b)
  <2>1. CASE d.name # NoName /\ b.name # NoName
    <3>1. m = [d EXCEPT !.seq_at_start = Least(@, b.seq_at_start)]
      BY <1>4, <2>1 DEF Merged
    <3>2. /\ Least(d.seq_at_start, b.seq_at_start) \in 0..MaxSeq
          /\ Least(d.seq_at_start, b.seq_at_start) <= d.seq_at_start
          /\ Least(d.seq_at_start, b.seq_at_start) <= b.seq_at_start
      BY PoolAssumption DEF Least, Buf
    <3>3. /\ m \in Buf /\ m.texts = d.texts /\ m.from = d.from /\ m.lanes = d.lanes
          /\ m.name = d.name /\ m.oldest = d.oldest
          /\ m.seq_at_start = Least(d.seq_at_start, b.seq_at_start)
      BY <3>1, <3>2 DEF Buf
    <3>4. m.lanes > 0 /\ m.texts = {} => m.seq_at_start <= m.oldest
      BY <3>2, <3>3, PoolAssumption DEF RowsSound, Buf
    <3>5. RowsSound(m)
      BY <3>3, <3>4 DEF RowsSound
    <3>6. b.lanes > 0 => m.seq_at_start <= b.oldest
      BY <1>4, <3>2, <3>3, PoolAssumption DEF RowsSound, Buf
    <3>7. ~Mismatch(d, b) => b.name \in {NoName, m.name}
      BY <1>4, <3>3 DEF Mismatch
    <3> QED
      BY <1>4, <3>3, <3>5, <3>6, <3>7
  <2>2. CASE b.name = NoName
    <3>1. m = d
      BY <1>4, <2>2 DEF Merged
    <3>2. ~(b.lanes > 0)
      BY <2>2, PoolAssumption DEF RowsSound
    <3> QED
      BY <1>4, <2>2, <3>1, <3>2
  <2> QED
    BY <2>1, <2>2
<1>5. b.texts # {} => Merged(d, b) = [d EXCEPT !.texts = Noted(@, b.texts)]
  BY DEF Merged
<1> QED
  BY <1>3, <1>4, <1>5

LEMMA CombineKeeps ==
  ASSUME PoolInv, NEW s \in State, NEW r \in State, Combine(s, r) PROVE PoolInv'
<1> USE Ground
<1>1. /\ s # r /\ StmtOf[s] = StmtOf[r] /\ phase[StmtOf[s]] # "failed"
      /\ op[s].pc = "idle" /\ Quiet(s) /\ op[r].pc = "idle"
      /\ UNCHANGED <<bytes, sessions, lock, seq, leaked>>
  BY DEF Combine, Quiet
<1>2. PICK b \in Buf : b = buf[r] /\ RowsSound(b) /\ (b.name # NoName => b.lanes > 0)
  <2>1. NamedEmpty(r) /\ buf[r].lanes \in Nat
    BY DEF PoolInv, Buf
  <2> QED
    BY <1>1, <2>1 DEF NamedEmpty
<1>3. PICK e \in Buf : /\ e = [buf[s] EXCEPT !.made = TRUE] /\ RowsSound(e)
                       /\ e.name = buf[s].name /\ e.lanes = buf[s].lanes
  <2> DEFINE f == [buf[s] EXCEPT !.made = TRUE]
  <2>1. f \in Buf
    BY DEF Buf
  <2>2. f.name = buf[s].name /\ f.lanes = buf[s].lanes /\ RowsSound(f)
    BY DEF Buf, RowsSound
  <2> QED
    BY <2>1, <2>2
<1>4. e.name # NoName => e.lanes > 0
  <2>1. NamedEmpty(s) /\ buf[s].lanes \in Nat
    BY DEF PoolInv, Buf
  <2> QED
    BY <1>1, <1>3, <2>1 DEF NamedEmpty
<1>5. PICK d \in Buf : /\ d = Adopted(e, b) /\ RowsSound(d) /\ d.lanes = e.lanes
                       /\ d.name = NoName => b.name = NoName
                       /\ d.name # NoName => e.name # NoName \/ b.name # NoName
  <2>1. /\ Adopted(e, b) \in Buf /\ RowsSound(Adopted(e, b)) /\ Adopted(e, b).lanes = e.lanes
        /\ Adopted(e, b).name = NoName => b.name = NoName
        /\ Adopted(e, b).name # NoName => e.name # NoName \/ b.name # NoName
    BY <1>2, <1>3, AdoptedSound
  <2> QED
    BY <2>1
<1>6. d.name # NoName => d.lanes > 0 \/ b.lanes > 0
  BY <1>2, <1>4, <1>5
<1>7. PICK m : /\ m \in {d, [d EXCEPT !.texts = Noted(@, b.texts)], Merged(d, b)}
               /\ buf' = [buf EXCEPT ![s] = m]
               /\ \/ Fail(StmtOf[s]) /\ UNCHANGED op
                  \/ /\ m = Merged(d, b) /\ ~Mismatch(d, b) /\ UNCHANGED phase
                     /\ op' = [op EXCEPT ![s] = [Idle EXCEPT !.pc = "combine",
                                                        !.want = b.lanes, !.src = r]]
  BY <1>2, <1>3, <1>5 DEF Combine
<1>8. /\ m \in Buf /\ RowsSound(m) /\ m.lanes = d.lanes /\ m.name = d.name
      /\ ~Mismatch(d, b) /\ m = Merged(d, b) /\ m.texts = {} =>
            /\ b.texts = {} /\ b.name \in {NoName, m.name}
            /\ b.lanes > 0 => m.seq_at_start <= b.oldest
  <2>1. CASE m = [d EXCEPT !.texts = Noted(@, b.texts)] \/ m = Merged(d, b)
    BY <1>2, <1>5, <2>1, MergedSound
  <2>2. CASE m = d /\ m # Merged(d, b)
    BY <1>5, <2>2
  <2> QED
    BY <1>7, <2>1, <2>2
<1>9. [Idle EXCEPT !.pc = "combine", !.want = b.lanes, !.src = r] \in Op
  BY <1>2, BegunOp DEF Buf
<1>10. /\ buf' \in [State -> Buf] /\ buf'[s] = m /\ buf'[r] = b
       /\ op' \in [Agent -> Op] /\ op'[r].pc = "idle"
       /\ \A t \in State : t # s => buf'[t] = buf[t] /\ op'[t] = op[t]
  BY <1>1, <1>2, <1>7, <1>8, <1>9 DEF Agent
<1>11. BufSound(s)'
  BY <1>8, <1>10 DEF BufSound
<1>12. /\ phase' \in [Stmt -> {"sink", "finalize", "failed"}]
       /\ \A q \in Stmt : phase'[q] = phase[q] \/ phase'[q] = "failed"
  BY <1>7, FailFacts
<1>13. op'[s].pc # "segment" /\ NamedEmpty(s)' /\ CombineSound(s)'
  <2>1. CASE Fail(StmtOf[s]) /\ UNCHANGED op
    <3>1. phase'[StmtOf[s]] = "failed" /\ op'[s].pc = "idle"
      BY <1>1, <2>1, FailFacts
    <3> QED
      BY <3>1 DEF NamedEmpty, CombineSound
  <2>2. CASE /\ m = Merged(d, b) /\ ~Mismatch(d, b)
             /\ op' = [op EXCEPT ![s] = [Idle EXCEPT !.pc = "combine",
                                                !.want = b.lanes, !.src = r]]
    <3>1. op'[s].pc = "combine" /\ op'[s].src = r /\ op'[s].want = b.lanes
      BY <2>2 DEF Idle, Agent
    <3>2. m.name # NoName /\ m.lanes = 0 => b.lanes > 0
      BY <1>5, <1>6, <1>8
    <3>3. NamedEmpty(s)'
      BY <1>10, <3>1, <3>2 DEF NamedEmpty
    <3>4. b.lanes > 0 => m.name \in Name
      BY <1>2, <1>5, <1>8, PoolAssumption DEF RowsSound, Buf
    <3>5. CombineSound(s)'
      BY <1>1, <1>8, <1>10, <2>2, <3>1, <3>4 DEF CombineSound
    <3> QED
      BY <3>1, <3>3, <3>5
  <2> QED
    BY <1>7, <2>1, <2>2
<1>14. bytes' \in Int /\ op[s].pc # "segment"
  BY <1>1
<1> QED
  BY <1>1, <1>10, <1>11, <1>12, <1>13, <1>14, StateStep

\* A sound buffer that takes over the lanes of one that fits.
LEMMA JoinedSound ==
  ASSUME NEW d \in Buf, NEW b \in Buf, RowsSound(d), RowsSound(b),
         b.lanes > 0 => d.name \in Name,
         d.texts = {} => /\ b.texts = {} /\ b.name \in {NoName, d.name}
                         /\ b.lanes > 0 => d.seq_at_start <= b.oldest
  PROVE  /\ Joined(d, b) \in Buf /\ RowsSound(Joined(d, b))
         /\ Joined(d, b).name = d.name /\ Joined(d, b).lanes = d.lanes + b.lanes
<1> DEFINE oldest == IF d.lanes = 0 THEN b.oldest
                     ELSE IF b.lanes = 0 THEN d.oldest ELSE Least(d.oldest, b.oldest)
<1>1. /\ oldest \in 0..MaxSeq
      /\ d.lanes > 0 /\ b.lanes > 0 => oldest = d.oldest \/ oldest = b.oldest
      /\ d.lanes > 0 /\ b.lanes = 0 => oldest = d.oldest
      /\ d.lanes = 0 => oldest = b.oldest
  BY PoolAssumption DEF Least, Buf
<1> HIDE DEF oldest
<1>2. d.lanes \in Nat /\ b.lanes \in Nat /\ d.charged \in Nat /\ d.from \cup b.from \in SUBSET Name
  BY DEF Buf
<1>3. PICK f : f = [d EXCEPT !.charged = @ + b.lanes, !.lanes = @ + b.lanes,
                             !.from = @ \cup b.from, !.oldest = oldest]
  OBVIOUS
<1>4. Joined(d, b) = f
  BY <1>3 DEF Joined, oldest, Buf
<1>5. /\ f.lanes = d.lanes + b.lanes /\ f.charged = d.charged + b.lanes
      /\ f.from = d.from \cup b.from /\ f.oldest = oldest /\ f.name = d.name
      /\ f.texts = d.texts /\ f.seq_at_start = d.seq_at_start
  BY <1>3 DEF Buf
<1>6. f \in Buf
  <2>1. d.lanes + b.lanes \in Nat /\ d.charged + b.lanes \in Nat
    BY <1>2
  <2> QED
    BY <1>1, <1>2, <1>3, <2>1 DEF Buf
<1>7. f.texts = {} => f.from \subseteq {f.name}
  <2>1. ASSUME d.texts = {} PROVE b.from \subseteq {d.name} /\ d.from \subseteq {d.name}
    <3>1. b.from \subseteq {b.name} /\ d.from \subseteq {d.name}
      BY <2>1 DEF RowsSound
    <3>2. CASE b.lanes = 0
      BY <3>1, <3>2 DEF RowsSound
    <3>3. CASE b.lanes > 0
      BY <2>1, <3>1, <3>3, PoolAssumption DEF RowsSound
    <3> QED
      BY <1>2, <3>2, <3>3
  <2> QED
    BY <1>5, <2>1
<1>8. f.lanes > 0 => f.name \in Name
  BY <1>2, <1>5 DEF RowsSound
<1>9. f.lanes > 0 /\ f.texts = {} => f.seq_at_start <= f.oldest
  BY <1>1, <1>2, <1>5 DEF RowsSound
<1>10. f.lanes = 0 => f.from = {}
  BY <1>2, <1>5 DEF RowsSound
<1> QED
  BY <1>4, <1>5, <1>6, <1>7, <1>8, <1>9, <1>10 DEF RowsSound

LEMMA CombineAddKeeps ==
  ASSUME PoolInv, NEW s \in State, CombineAdd(s) PROVE PoolInv'
<1> USE Ground
<1>1. /\ op[s].pc = "combine" /\ bytes' = bytes + op[s].want
      /\ buf' = [buf EXCEPT ![s] = Joined(@, buf[op[s].src])]
      /\ op' = [op EXCEPT ![s] = Idle]
      /\ UNCHANGED <<phase, sessions, lock, seq, leaked>>
  BY DEF CombineAdd
<1>2. CombineSound(s) /\ NamedEmpty(s)
  BY DEF PoolInv
<1>3. PICK r \in State : r = op[s].src
  BY <1>1, <1>2 DEF CombineSound
<1>4. PICK b \in Buf : b = buf[r] /\ RowsSound(b)
  OBVIOUS
<1>5. PICK d \in Buf : d = buf[s] /\ RowsSound(d)
  OBVIOUS
<1>6. /\ b.lanes > 0 => d.name \in Name
      /\ d.texts = {} => /\ b.texts = {} /\ b.name \in {NoName, d.name}
                         /\ b.lanes > 0 => d.seq_at_start <= b.oldest
  BY <1>1, <1>2, <1>3, <1>4, <1>5 DEF CombineSound
<1>7. PICK f \in Buf : /\ f = Joined(d, b) /\ RowsSound(f)
                       /\ f.name = d.name /\ f.lanes = d.lanes + b.lanes
  BY <1>4, <1>5, <1>6, JoinedSound
<1>8. /\ buf' \in [State -> Buf] /\ buf'[s] = f
      /\ op' \in [Agent -> Op] /\ op'[s].pc = "idle"
      /\ \A t \in State : t # s => buf'[t] = buf[t] /\ op'[t] = op[t]
  <2>1. buf' = [buf EXCEPT ![s] = f]
    BY <1>1, <1>3, <1>4, <1>5, <1>7
  <2>2. Idle.pc = "idle" /\ op'[s] = Idle
    BY <1>1 DEF Idle, Agent
  <2> QED
    BY <1>1, <2>1, <2>2, Initials DEF Agent
<1>9. BufSound(s)' /\ CombineSound(s)'
  BY <1>7, <1>8 DEF BufSound, CombineSound
<1>10. NamedEmpty(s)'
  <2>1. d.lanes \in Nat /\ b.lanes \in Nat
    BY DEF Buf
  <2>2. d.name # NoName => d.lanes > 0 \/ b.lanes > 0
    BY <1>1, <1>2, <1>3, <1>4, <1>5, <2>1 DEF NamedEmpty
  <2>3. f.name # NoName => f.lanes # 0
    BY <1>7, <2>1, <2>2
  <2> QED
    BY <1>8, <2>3 DEF NamedEmpty
<1>11. bytes' \in Int
  BY <1>1 DEF Op
<1>12. phase' \in [Stmt -> {"sink", "finalize", "failed"}]
  BY <1>1 DEF PoolInv, TypeOK
<1> QED
  BY <1>1, <1>8, <1>9, <1>10, <1>11, <1>12, StateStep

-----------------------------------------------------------------------------
(* finalize and the device *)

\* A step that leaves the state idle or on the device, its buffer released or
\* its rows as they were.
LEMMA LeavesKeeps ==
  ASSUME PoolInv, NEW s \in State, op[s].pc # "segment", op[s].pc # "idle" \/ Quiet(s),
         NEW b \in Buf, RowsSound(b), b.name = NoName \/ b.lanes > 0,
         buf' = [buf EXCEPT ![s] = b],
         op' \in [Agent -> Op], op'[s].pc \notin {"combine", "segment"},
         \A t \in State : t # s => op'[t] = op[t],
         Fail(StmtOf[s]) \/ UNCHANGED phase,
         bytes' \in Int, UNCHANGED <<sessions, lock, seq, leaked>>
  PROVE  PoolInv'
<1> USE Ground
<1>1. /\ buf' \in [State -> Buf] /\ buf'[s] = b
      /\ \A t \in State : t # s => buf'[t] = buf[t] /\ op'[t] = op[t]
  OBVIOUS
<1>2. BufSound(s)' /\ NamedEmpty(s)' /\ CombineSound(s)'
  <2>1. ~(b.name # NoName /\ b.lanes = 0)
    OBVIOUS
  <2> QED
    BY <1>1, <2>1 DEF BufSound, NamedEmpty, CombineSound
<1>3. /\ phase' \in [Stmt -> {"sink", "finalize", "failed"}]
      /\ \A q \in Stmt : phase'[q] = phase[q] \/ phase'[q] = "failed"
  BY FailFacts
<1> QED
  BY <1>1, <1>2, <1>3, StateStep

LEMMA ReleasedSound ==
  ASSUME NEW b \in Buf PROVE RowsSound(Released(b))
<1>1. Released(b).texts = {}
  BY DEF Released, NoBuf
<1> QED
  BY <1>1, ReleasedFacts DEF RowsSound

\* What a step that finalizes s may use.
LEMMA FinalizingFacts ==
  ASSUME PoolInv, NEW s \in State, Finalizing(s)
  PROVE  /\ op[s].pc = "idle" /\ Quiet(s) /\ lock = NoState
         /\ buf[s].lanes > 0 /\ buf[s].name \in Name
         /\ [buf[s] EXCEPT !.final = TRUE] \in Buf /\ RowsSound([buf[s] EXCEPT !.final = TRUE])
         /\ [buf[s] EXCEPT !.final = TRUE].lanes = buf[s].lanes
         /\ [buf[s] EXCEPT !.final = TRUE].name = buf[s].name
<1>1. op[s].pc = "idle" /\ Quiet(s) /\ lock = NoState /\ buf[s].lanes > 0
  BY DEF Finalizing, Quiet
<1>2. buf[s] \in Buf /\ RowsSound(buf[s])
  BY Ground
<1>3. PICK b \in Buf : b = buf[s]
  BY <1>2
<1>4. [b EXCEPT !.final = TRUE] \in Buf
  BY DEF Buf
<1>5. /\ [b EXCEPT !.final = TRUE].lanes = b.lanes /\ [b EXCEPT !.final = TRUE].name = b.name
      /\ RowsSound([b EXCEPT !.final = TRUE])
  BY <1>2, <1>3 DEF Buf, RowsSound
<1>6. buf[s].name \in Name
  BY <1>1, <1>2 DEF RowsSound
<1> QED
  BY <1>1, <1>3, <1>4, <1>5, <1>6

\* A refusal under registry_mu.
LEMMA ThrowKeeps ==
  ASSUME PoolInv, NEW s \in State, op[s].pc = "idle", Quiet(s), Throw(s),
         UNCHANGED <<op, sessions, lock, seq, leaked>>
  PROVE  PoolInv'
<1> USE Ground
<1>1. PICK b \in Buf : b = Released(buf[s]) /\ RowsSound(b) /\ b.name = NoName
  BY ReleasedFacts, ReleasedSound
<1>2. buf' = [buf EXCEPT ![s] = b] /\ Fail(StmtOf[s])
  BY <1>1 DEF Throw
<1>3. bytes' \in Int
  BY DEF Throw, Buf
<1> QED
  BY <1>1, <1>2, <1>3, LeavesKeeps

LEMMA FindSessionKeeps ==
  ASSUME PoolInv, NEW s \in State, FindSession(s) PROVE PoolInv'
<1> USE Ground
<1>1. Finalizing(s) /\ UNCHANGED <<sessions, seq, leaked>> /\ sessions[buf[s].name].open
  BY DEF FindSession
<1>2. CASE Throw(s) /\ UNCHANGED <<op, lock>>
  BY <1>1, <1>2, FinalizingFacts, ThrowKeeps
<1>3. CASE /\ KindFits(sessions[buf[s].name], KindOf[StmtOf[s]]) /\ lock' = s
           /\ op' = [op EXCEPT ![s] = [Idle EXCEPT !.pc = "segment", !.want = buf[s].lanes]]
           /\ buf' = [buf EXCEPT ![s].final = TRUE]
           /\ UNCHANGED <<bytes, phase>>
  <2>1. PICK b \in Buf : /\ b = [buf[s] EXCEPT !.final = TRUE] /\ RowsSound(b)
                         /\ b.lanes = buf[s].lanes /\ b.name = buf[s].name
    BY <1>1, FinalizingFacts
  <2>2. op[s].pc = "idle" /\ Quiet(s) /\ lock = NoState /\ b.lanes > 0 /\ b.name \in Name
    BY <1>1, <2>1, FinalizingFacts
  <2>3. [Idle EXCEPT !.pc = "segment", !.want = b.lanes] \in Op
    BY BegunOp DEF Buf
  <2>4. /\ buf' \in [State -> Buf] /\ buf'[s] = b
        /\ op' \in [Agent -> Op] /\ op'[s].pc = "segment" /\ op'[s].want = b.lanes
        /\ \A t \in State : t # s => buf'[t] = buf[t] /\ op'[t] = op[t]
    BY <1>3, <2>1, <2>3 DEF Agent, Idle
  <2>5. TypeOK'
    BY <1>1, <1>3, <2>4 DEF PoolInv, TypeOK
  <2>6. ASSUME NEW t \in State, t # s
        PROVE  BufSound(t)' /\ NamedEmpty(t)' /\ CombineSound(t)' /\ SegmentSound(t)'
    <3>1. buf'[t] = buf[t] /\ op'[t] = op[t]
      BY <2>4, <2>6
    <3>2. BufSound(t)'
      BY <3>1 DEF PoolInv, BufSound
    <3>3. op[t].pc = "combine" => op[t].src \in State /\ op[t].src # s
      BY <2>2 DEF PoolInv, CombineSound, Quiet
    <3>4. NamedEmpty(t)'
      <4>1. op[t].pc = "combine" => buf'[op[t].src] = buf[op[t].src]
        BY <2>4, <3>3
      <4>2. NamedEmpty(t) /\ phase' = phase
        BY <1>3 DEF PoolInv
      <4> QED
        BY <3>1, <4>1, <4>2 DEF NamedEmpty
    <3>5. CombineSound(t)'
      <4>1. CASE op[t].pc # "combine"
        BY <4>1, <3>1 DEF CombineSound
      <4>2. CASE op[t].pc = "combine"
        <5>1. PICK r \in State : r = op[t].src
          BY <4>2, <3>3
        <5>2. buf'[r] = buf[r] /\ op'[r] = op[r] /\ op'[t].src = r
          BY <4>2, <5>1, <3>1, <3>3, <2>4
        <5>3. CombineSound(t)
          BY DEF PoolInv
        <5> QED
          BY <5>1, <5>2, <5>3, <4>2, <3>1 DEF CombineSound
      <4> QED
        BY <4>1, <4>2
    <3>6. op[t].pc # "segment"
      BY <2>2 DEF PoolInv, SegmentSound
    <3> QED
      BY <3>1, <3>2, <3>4, <3>5, <3>6 DEF SegmentSound
  <2>7. BufSound(s)' /\ NamedEmpty(s)' /\ CombineSound(s)'
    BY <2>1, <2>2, <2>4 DEF BufSound, NamedEmpty, CombineSound
  <2>8. SegmentSound(s)'
    <3>1. sessions' = sessions /\ sessions[b.name].open
      BY <1>1, <2>1
    <3>2. sessions[b.name].kind \in {"unset", KindOf[StmtOf[s]]}
      BY <1>3, <2>1 DEF KindFits
    <3> QED
      BY <1>3, <2>2, <2>4, <3>1, <3>2 DEF SegmentSound
  <2>9. \A n \in Name : SessionSound(n)'
    BY <1>1 DEF PoolInv, SessionSound
  <2>10. lock' # NoState => op'[lock'].pc = "segment"
    BY <1>3, <2>4
  <2> QED
    BY <2>5, <2>6, <2>7, <2>8, <2>9, <2>10 DEF PoolInv
<1> QED
  BY <1>2, <1>3 DEF FindSession

\* A segment that lands, or collides, leaves its session sound and of its kind.
LEMMA AppendKeeps ==
  ASSUME PoolInv, NEW s \in State, AppendSegment(s) PROVE PoolInv'
<1> USE Ground
<1>1. op[s].pc = "segment" /\ lock' = NoState /\ op' = [op EXCEPT ![s] = Idle] /\ seq' = seq
  BY DEF AppendSegment
<1>2. PICK b \in Buf : b = buf[s] /\ RowsSound(b)
  OBVIOUS
<1>3. PICK n \in Name : /\ n = b.name /\ lock = s /\ op[s].want = b.lanes /\ b.lanes > 0
                        /\ sessions[n].open /\ sessions[n].kind \in {"unset", KindOf[StmtOf[s]]}
  <2>1. SegmentSound(s)
    BY DEF PoolInv
  <2> QED
    BY <1>1, <1>2, <2>1 DEF SegmentSound, RowsSound
<1>4. PICK ss \in Session : ss = sessions[n] /\ SessionSound(n)
  BY DEF PoolInv, TypeOK
<1>5. PICK kind \in Kind : kind = KindOf[StmtOf[s]]
  OBVIOUS
<1>6. PICK begun \in Session :
          /\ begun = [ss EXCEPT !.kind = kind, !.texts = Noted(@, b.texts)]
          /\ begun.open = ss.open /\ begun.kind = kind /\ begun.lanes = ss.lanes
          /\ begun.charged = ss.charged /\ begun.segments = ss.segments /\ begun.from = ss.from
          /\ (begun.texts = {} <=> ss.texts = {} /\ b.texts = {})
  <2>1. PICK e : e = [ss EXCEPT !.kind = kind, !.texts = Noted(@, b.texts)]
    OBVIOUS
  <2>2. ss.texts \in SUBSET Text /\ b.texts \in SUBSET Text
    BY DEF Session, Buf
  <2>3. /\ Noted(ss.texts, b.texts) \in SUBSET Text
        /\ Noted(ss.texts, b.texts) = {} <=> ss.texts = {} /\ b.texts = {}
    BY <2>2, NotedFacts
  <2>4. e \in Session
    BY <2>1, <2>3 DEF Session
  <2>5. /\ e.open = ss.open /\ e.kind = kind /\ e.lanes = ss.lanes /\ e.charged = ss.charged
        /\ e.segments = ss.segments /\ e.from = ss.from /\ e.texts = Noted(ss.texts, b.texts)
    BY <2>1 DEF Session
  <2> QED
    BY <2>1, <2>3, <2>4, <2>5
<1>7. PICK landed \in Session :
          /\ landed = [begun EXCEPT !.charged = @ + b.lanes, !.lanes = @ + b.lanes,
                                    !.segments = @ + 1, !.from = @ \cup b.from]
          /\ landed.open = ss.open /\ landed.kind = kind /\ landed.segments = ss.segments + 1
          /\ landed.from = ss.from \cup b.from /\ landed.texts = begun.texts
  <2>1. PICK e : e = [begun EXCEPT !.charged = @ + b.lanes, !.lanes = @ + b.lanes,
                                   !.segments = @ + 1, !.from = @ \cup b.from]
    OBVIOUS
  <2>2. /\ begun.charged + b.lanes \in Nat /\ begun.lanes + b.lanes \in Nat
        /\ begun.segments + 1 \in Nat /\ begun.from \cup b.from \in SUBSET Name
    BY DEF Session, Buf
  <2>3. e \in Session
    BY <2>1, <2>2 DEF Session
  <2>4. /\ e.open = begun.open /\ e.kind = begun.kind /\ e.segments = begun.segments + 1
        /\ e.from = begun.from \cup b.from /\ e.texts = begun.texts
    BY <2>1 DEF Session
  <2> QED
    BY <1>6, <2>1, <2>3, <2>4
<1>8. PICK x \in {begun, landed} : sessions' = [sessions EXCEPT ![n] = x]
  <2>1. op[s].want = b.lanes
    BY <1>3
  <2> QED
    BY <1>2, <1>3, <1>4, <1>5, <1>6, <1>7, <2>1 DEF AppendSegment
<1>9. PICK c \in Buf : /\ buf' = [buf EXCEPT ![s] = c] /\ RowsSound(c)
                       /\ c.name = NoName \/ c.lanes > 0
  <2>1. Released(b) \in Buf /\ RowsSound(Released(b)) /\ Released(b).name = NoName
    BY ReleasedFacts, ReleasedSound
  <2>2. CASE buf' = [buf EXCEPT ![s] = Released(@)]
    BY <1>2, <2>1, <2>2
  <2>3. CASE buf' = buf
    BY <1>2, <1>3, <2>3
  <2> QED
    BY <2>2, <2>3 DEF AppendSegment
<1>10. (Fail(StmtOf[s]) \/ UNCHANGED phase) /\ bytes' \in Int /\ leaked' \in Nat
  <2>1. op[s].want \in Nat /\ buf[s].charged \in Nat /\ leaked \in Nat
    BY DEF Op, Buf, PoolInv, TypeOK
  <2> QED
    BY <2>1 DEF AppendSegment
<1>11. /\ phase' \in [Stmt -> {"sink", "finalize", "failed"}]
       /\ \A q \in Stmt : phase'[q] = phase[q] \/ phase'[q] = "failed"
  BY <1>10, FailFacts
<1>12. /\ buf' \in [State -> Buf] /\ buf'[s] = c
       /\ op' \in [Agent -> Op] /\ op'[s].pc = "idle"
       /\ \A t \in State : t # s => buf'[t] = buf[t] /\ op'[t] = op[t]
  <2>1. Idle.pc = "idle" /\ op'[s] = Idle
    BY <1>1 DEF Idle, Agent
  <2> QED
    BY <1>1, <1>9, <2>1, Initials DEF Agent
<1>13. TypeOK'
  <2>1. sessions' \in [Name -> Session]
    BY <1>6, <1>7, <1>8 DEF PoolInv, TypeOK
  <2> QED
    BY <1>1, <1>10, <1>11, <1>12, <2>1 DEF PoolInv, TypeOK
<1>14. ASSUME NEW t \in State
       PROVE  BufSound(t)' /\ NamedEmpty(t)' /\ CombineSound(t)' /\ SegmentSound(t)'
  <2>1. CASE t = s
    <3>1. ~(c.name # NoName /\ c.lanes = 0)
      BY <1>9
    <3> QED
      BY <2>1, <3>1, <1>9, <1>12 DEF BufSound, NamedEmpty, CombineSound, SegmentSound
  <2>2. CASE t # s
    <3>1. buf'[t] = buf[t] /\ op'[t] = op[t] /\ StmtOf[t] \in Stmt
      BY <1>12, <2>2
    <3>2. op[t].pc # "segment"
      BY <1>3, <2>2 DEF PoolInv, SegmentSound
    <3>3. op[t].pc = "combine" => op[t].src \in State /\ op[t].src # s
      BY <1>1 DEF PoolInv, CombineSound
    <3>4. BufSound(t)'
      BY <3>1 DEF PoolInv, BufSound
    <3>5. NamedEmpty(t)'
      <4>1. op[t].pc = "combine" => buf'[op[t].src] = buf[op[t].src]
        BY <1>12, <3>3
      <4>2. NamedEmpty(t) /\ (phase[StmtOf[t]] = "failed" => phase'[StmtOf[t]] = "failed")
        BY <1>11, <3>1 DEF PoolInv
      <4> QED
        BY <3>1, <4>1, <4>2 DEF NamedEmpty
    <3>6. CombineSound(t)'
      <4>1. CASE op[t].pc # "combine"
        BY <4>1, <3>1 DEF CombineSound
      <4>2. CASE op[t].pc = "combine"
        <5>1. PICK r \in State : r = op[t].src
          BY <4>2, <3>3
        <5>2. buf'[r] = buf[r] /\ op'[r] = op[r] /\ op'[t].src = r
          BY <4>2, <5>1, <3>1, <3>3, <1>12
        <5>3. CombineSound(t)
          BY DEF PoolInv
        <5> QED
          BY <5>1, <5>2, <5>3, <4>2, <3>1 DEF CombineSound
      <4> QED
        BY <4>1, <4>2
    <3> QED
      BY <3>1, <3>2, <3>4, <3>5, <3>6 DEF SegmentSound
  <2> QED
    BY <2>1, <2>2
<1>15. ASSUME NEW m \in Name PROVE SessionSound(m)'
  <2>1. CASE m # n
    BY <1>8, <2>1 DEF PoolInv, TypeOK, SessionSound
  <2>2. CASE m = n
    <3>1. sessions'[n] = x
      BY <1>8 DEF PoolInv, TypeOK
    <3>2. x.open = ss.open /\ x.kind = kind /\ ss.open /\ kind # "unset"
      BY <1>3, <1>4, <1>6, <1>7, <1>8 DEF Kind
    <3>3. ss.segments \in Nat /\ (ss.lanes > 0 => ss.segments > 0) /\ (ss.texts = {} => ss.from \subseteq {n})
      BY <1>4 DEF SessionSound, Session
    <3>4. x.lanes > 0 => x.segments > 0
      <4>1. CASE x = begun
        BY <4>1, <3>3, <1>6
      <4>2. CASE x = landed
        BY <4>2, <3>3, <1>7
      <4> QED
        BY <4>1, <4>2, <1>8
    <3>5. x.texts = {} => x.from \subseteq {n}
      <4>1. x.texts = begun.texts /\ x.from \subseteq ss.from \cup b.from
        BY <1>6, <1>7, <1>8
      <4>2. b.texts = {} => b.from \subseteq {n}
        BY <1>2, <1>3 DEF RowsSound
      <4> QED
        BY <4>1, <4>2, <3>3, <1>6
    <3> QED
      BY <2>2, <3>1, <3>2, <3>4, <3>5 DEF SessionSound
  <2> QED
    BY <2>1, <2>2
<1> QED
  BY <1>1, <1>13, <1>14, <1>15 DEF PoolInv

LEMMA UploadKeeps ==
  ASSUME PoolInv, NEW s \in State, Upload(s) PROVE PoolInv'
<1> USE Ground
<1>1. /\ Finalizing(s) /\ buf' = [buf EXCEPT ![s].final = TRUE]
      /\ op' = [op EXCEPT ![s] = [Idle EXCEPT !.pc = "device", !.kind = KindOf[StmtOf[s]]]]
      /\ UNCHANGED <<bytes, phase, sessions, lock, seq, leaked>>
  BY DEF Upload
<1>2. PICK b \in Buf : /\ b = [buf[s] EXCEPT !.final = TRUE] /\ RowsSound(b)
                       /\ b.lanes > 0 /\ op[s].pc = "idle" /\ Quiet(s)
  BY <1>1, FinalizingFacts
<1>3. [Idle EXCEPT !.pc = "device", !.kind = KindOf[StmtOf[s]]] \in Op
  BY BegunOp
<1>4. /\ buf' = [buf EXCEPT ![s] = b] /\ op' \in [Agent -> Op] /\ op'[s].pc = "device"
      /\ \A t \in State : t # s => op'[t] = op[t]
  BY <1>1, <1>2, <1>3 DEF Agent, Idle
<1> QED
  BY <1>1, <1>2, <1>4, LeavesKeeps

LEMMA DestroyKeeps ==
  ASSUME PoolInv, NEW s \in State, Destroy(s) PROVE PoolInv'
<1> USE Ground
<1>1. /\ op[s].pc = "idle" /\ Quiet(s) /\ UNCHANGED <<phase, op, sessions, lock, seq, leaked>>
      /\ buf' = [buf EXCEPT ![s] = [NoBuf EXCEPT !.live = FALSE]]
      /\ bytes' = bytes - buf[s].charged
  BY DEF Destroy, Quiet
<1>2. PICK b \in Buf : b = [NoBuf EXCEPT !.live = FALSE] /\ RowsSound(b) /\ b.name = NoName
  <2>1. [NoBuf EXCEPT !.live = FALSE] \in Buf
    BY Initials DEF Buf
  <2>2. [NoBuf EXCEPT !.live = FALSE].name = NoName /\ RowsSound([NoBuf EXCEPT !.live = FALSE])
    BY DEF NoBuf, RowsSound
  <2> QED
    BY <2>1, <2>2
<1>3. bytes' \in Int
  BY <1>1 DEF Buf
<1> QED
  BY <1>1, <1>2, <1>3, LeavesKeeps

\* The next statement starts on states of which nothing is left.
LEMMA NewStatementKeeps ==
  ASSUME PoolInv, NEW q \in Stmt, NewStatement(q) PROVE PoolInv'
<1> USE Ground
<1>1. /\ \A s \in State : StmtOf[s] = q => ~buf[s].live /\ op[s].pc = "idle"
      /\ buf' = [s \in State |-> IF StmtOf[s] = q THEN NoBuf ELSE buf[s]]
      /\ phase' = [phase EXCEPT ![q] = "sink"]
      /\ UNCHANGED <<bytes, op, sessions, lock, seq, leaked>>
  <2>1. \A s \in State : s \in {t \in State : StmtOf[t] = q} <=> StmtOf[s] = q
    OBVIOUS
  <2> QED
    BY <2>1 DEF NewStatement
<1>2. TypeOK'
  BY <1>1, Initials DEF PoolInv, TypeOK
<1>3. ASSUME NEW s \in State
      PROVE  BufSound(s)' /\ NamedEmpty(s)' /\ CombineSound(s)' /\ SegmentSound(s)'
  <2>1. CASE StmtOf[s] = q
    <3>1. buf'[s] = NoBuf /\ op'[s] = op[s] /\ op[s].pc = "idle"
      BY <1>1, <2>1
    <3>2. RowsSound(NoBuf) /\ NoBuf.name = NoName
      BY DEF NoBuf, RowsSound
    <3> QED
      BY <3>1, <3>2 DEF BufSound, NamedEmpty, CombineSound, SegmentSound
  <2>2. CASE StmtOf[s] # q
    <3>1. buf'[s] = buf[s] /\ op'[s] = op[s] /\ phase'[StmtOf[s]] = phase[StmtOf[s]]
      BY <1>1, <2>2 DEF PoolInv, TypeOK
    <3>2. BufSound(s) /\ NamedEmpty(s) /\ CombineSound(s) /\ SegmentSound(s)
      BY DEF PoolInv
    <3>3. op[s].pc = "combine" => op[s].src \in State /\ buf'[op[s].src] = buf[op[s].src]
      BY <1>1, <2>2, <3>2 DEF CombineSound
    <3>4. BufSound(s)' /\ NamedEmpty(s)' /\ SegmentSound(s)'
      BY <1>1, <3>1, <3>2, <3>3 DEF BufSound, NamedEmpty, SegmentSound
    <3>5. CombineSound(s)'
      BY <1>1, <3>1, <3>2, <3>3 DEF CombineSound
    <3> QED
      BY <3>4, <3>5
  <2> QED
    BY <2>1, <2>2
<1>4. \A n \in Name : SessionSound(n)'
  BY <1>1 DEF PoolInv, SessionSound
<1> QED
  BY <1>1, <1>2, <1>3, <1>4 DEF PoolInv

LEMMA EndOfInputKeeps ==
  ASSUME PoolInv, NEW q \in Stmt, EndOfInput(q) PROVE PoolInv'
<1> USE Ground
<1>1. /\ phase[q] = "sink" /\ phase' = [phase EXCEPT ![q] = "finalize"]
      /\ UNCHANGED <<bytes, buf, op, sessions, lock, seq, leaked>>
  BY DEF EndOfInput
<1>2. TypeOK'
  BY <1>1 DEF PoolInv, TypeOK
<1>3. ASSUME NEW s \in State
      PROVE  BufSound(s)' /\ NamedEmpty(s)' /\ CombineSound(s)' /\ SegmentSound(s)'
  <2>1. BufSound(s) /\ NamedEmpty(s) /\ CombineSound(s) /\ SegmentSound(s)
    BY DEF PoolInv
  <2>2. phase[StmtOf[s]] = "failed" => phase'[StmtOf[s]] = "failed"
    BY <1>1 DEF PoolInv, TypeOK
  <2> QED
    BY <1>1, <2>1, <2>2 DEF BufSound, NamedEmpty, CombineSound, SegmentSound
<1>4. \A n \in Name : SessionSound(n)'
  BY <1>1 DEF PoolInv, SessionSound
<1> QED
  BY <1>1, <1>2, <1>3, <1>4 DEF PoolInv

\* A step of the device work, of a state or of a finishing thread.
LEMMA DeviceStep ==
  ASSUME PoolInv, NEW a \in Agent, op[a].pc \in {"device", "borrow"},
         op' \in [Agent -> Op], op'[a].pc \notin {"combine", "segment"},
         \A c \in Agent : c # a => op'[c] = op[c],
         \/ UNCHANGED <<buf, phase>>
         \/ a \in State /\ buf' = [buf EXCEPT ![a] = Released(@)] /\ Fail(StmtOf[a]),
         bytes' \in Int, UNCHANGED <<sessions, lock, seq, leaked>>
  PROVE  PoolInv'
<1> USE Ground
<1>1. CASE a \in State
  <2>1. PICK b \in Buf : /\ buf' = [buf EXCEPT ![a] = b] /\ RowsSound(b)
                         /\ b.name = NoName \/ b.lanes > 0
    <3>1. CASE UNCHANGED <<buf, phase>>
      <4>1. NamedEmpty(a) /\ buf[a].lanes \in Nat
        BY <1>1 DEF PoolInv, Buf
      <4>2. buf[a].name = NoName \/ buf[a].lanes > 0
        BY <4>1 DEF NamedEmpty
      <4> QED
        BY <1>1, <3>1, <4>2
    <3>2. CASE buf' = [buf EXCEPT ![a] = Released(@)]
      <4>1. PICK d \in Buf : d = buf[a]
        BY <1>1
      <4>2. Released(d) \in Buf /\ RowsSound(Released(d)) /\ Released(d).name = NoName
        BY ReleasedFacts, ReleasedSound
      <4>3. buf' = [buf EXCEPT ![a] = Released(d)]
        BY <3>2, <4>1
      <4> QED
        BY <4>2, <4>3
    <3> QED
      BY <3>1, <3>2
  <2>2. \A t \in State : t # a => op'[t] = op[t]
    BY DEF Agent
  <2> QED
    BY <1>1, <2>1, <2>2, LeavesKeeps
<1>2. CASE a \notin State
  <2>1. UNCHANGED <<buf, phase>> /\ \A t \in State : op'[t] = op[t]
    BY <1>2 DEF Agent
  <2>2. TypeOK'
    BY <2>1 DEF PoolInv, TypeOK
  <2>3. ASSUME NEW t \in State
        PROVE  BufSound(t)' /\ NamedEmpty(t)' /\ CombineSound(t)' /\ SegmentSound(t)'
    <3>1. BufSound(t) /\ NamedEmpty(t) /\ CombineSound(t) /\ SegmentSound(t)
      BY DEF PoolInv
    <3>2. op'[t] = op[t]
      BY <2>1
    <3>3. BufSound(t)' /\ NamedEmpty(t)' /\ SegmentSound(t)'
      BY <2>1, <3>1, <3>2 DEF BufSound, NamedEmpty, SegmentSound
    <3>4. CombineSound(t)'
      <4>1. CASE op[t].pc # "combine"
        BY <3>2, <4>1 DEF CombineSound
      <4>2. CASE op[t].pc = "combine"
        <5>1. PICK r \in State : r = op[t].src /\ op'[r] = op[r]
          BY <2>1, <3>1, <4>2 DEF CombineSound
        <5> QED
          BY <2>1, <3>1, <3>2, <4>2, <5>1 DEF CombineSound
      <4> QED
        BY <4>1, <4>2
    <3> QED
      BY <3>3, <3>4
  <2>4. \A n \in Name : SessionSound(n)'
    BY DEF PoolInv, SessionSound
  <2>5. lock' # NoState => op'[lock'].pc = "segment"
    BY <2>1 DEF PoolInv, TypeOK
  <2> QED
    BY <2>2, <2>3, <2>4, <2>5 DEF PoolInv
<1> QED
  BY <1>1, <1>2

LEMMA DeviceEndsKeeps ==
  ASSUME PoolInv, NEW a \in Agent, NEW failed \in BOOLEAN, op[a].pc = "device",
         DeviceEnds(a, failed), UNCHANGED <<sessions, lock, seq, leaked>>
  PROVE  PoolInv'
<1>1. op \in [Agent -> Op] /\ op[a] \in Op /\ buf \in [State -> Buf] /\ bytes \in Int
  BY DEF PoolInv, TypeOK
<1>2. /\ op' = [op EXCEPT ![a] = Idle]
      /\ \/ UNCHANGED <<buf, phase>>
         \/ a \in State /\ buf' = [buf EXCEPT ![a] = Released(@)] /\ Fail(StmtOf[a])
  BY DEF DeviceEnds
<1>3. Idle.pc = "idle" /\ op'[a] = Idle /\ op' \in [Agent -> Op]
  BY <1>1, <1>2, Initials DEF Idle
<1>4. bytes' \in Int
  <2>1. op[a].temp \in Nat /\ op[a].held \in Nat
    BY <1>1 DEF Op
  <2>2. a \in State => buf[a].charged \in Nat
    BY <1>1 DEF Buf
  <2> QED
    BY <1>1, <2>1, <2>2 DEF DeviceEnds, SessionCharge
<1> QED
  BY <1>1, <1>2, <1>3, <1>4, DeviceStep

LEMMA DeviceKeeps ==
  ASSUME PoolInv, NEW a \in Agent, Borrow(a) \/ BorrowAdd(a) \/ Give(a) \/ Device(a)
  PROVE  PoolInv'
<1>1. op \in [Agent -> Op] /\ op[a] \in Op /\ buf \in [State -> Buf] /\ bytes \in Int
  BY DEF PoolInv, TypeOK
<1>2. PICK o \in Op : o = op[a]
  BY <1>1
<1>3. CASE Device(a)
  BY <1>3, DeviceEndsKeeps DEF Device
<1>4. CASE Borrow(a)
  <2>1. CASE DeviceEnds(a, TRUE)
    BY <1>4, <2>1, DeviceEndsKeeps DEF Borrow
  <2>2. CASE /\ op' = [op EXCEPT ![a].pc = "borrow", ![a].want = Held(a)]
             /\ UNCHANGED <<bytes, buf, phase>>
    <3>1. PICK h \in Nat : h = Held(a)
      BY <1>1 DEF Held, Buf, Op
    <3>2. PICK e : e = [o EXCEPT !.pc = "borrow", !.want = h]
      OBVIOUS
    <3>3. e \in Op /\ e.pc = "borrow"
      BY <3>1, <3>2 DEF Op
    <3>4. op' = [op EXCEPT ![a] = e]
      BY <1>1, <1>2, <2>2, <3>1, <3>2
    <3>5. op' \in [Agent -> Op] /\ op'[a].pc = "borrow" /\ \A c \in Agent : c # a => op'[c] = op[c]
      BY <1>1, <3>3, <3>4
    <3>6. op[a].pc = "device" /\ UNCHANGED <<sessions, lock, seq, leaked>>
      BY <1>4 DEF Borrow
    <3> QED
      BY <1>1, <2>2, <3>5, <3>6, DeviceStep
  <2> QED
    BY <1>4, <2>1, <2>2 DEF Borrow
<1>5. CASE BorrowAdd(a)
  <2>1. /\ op[a].pc = "borrow" /\ bytes' = bytes + op[a].want
        /\ op' = [op EXCEPT ![a].pc = "device", ![a].temp = @ + op[a].want, ![a].want = 0]
        /\ UNCHANGED <<buf, phase, sessions, lock, seq, leaked>>
    BY <1>5 DEF BorrowAdd
  <2>2. PICK e : e = [o EXCEPT !.pc = "device", !.temp = @ + o.want, !.want = 0]
    OBVIOUS
  <2>3. o.temp + o.want \in Nat /\ o.want \in Nat
    BY DEF Op
  <2>4. e \in Op /\ e.pc = "device"
    BY <2>2, <2>3 DEF Op
  <2>5. op' = [op EXCEPT ![a] = e]
    BY <1>1, <1>2, <2>1, <2>2
  <2>6. op' \in [Agent -> Op] /\ op'[a].pc = "device" /\ \A c \in Agent : c # a => op'[c] = op[c]
    BY <1>1, <2>4, <2>5
  <2>7. bytes' \in Int
    BY <1>1, <1>2, <2>1, <2>3
  <2> QED
    BY <1>1, <2>1, <2>6, <2>7, DeviceStep
<1>6. CASE Give(a)
  <2>1. PICK n \in 1..op[a].temp : bytes' = bytes - n /\ op' = [op EXCEPT ![a].temp = @ - n]
    BY <1>6 DEF Give
  <2>2. op[a].pc = "device" /\ UNCHANGED <<buf, phase, sessions, lock, seq, leaked>>
    BY <1>6 DEF Give
  <2>3. PICK e : e = [o EXCEPT !.temp = @ - n]
    OBVIOUS
  <2>4. o.temp \in Nat /\ o.temp - n \in Nat
    BY <1>2, <2>1 DEF Op
  <2>5. e \in Op /\ e.pc = o.pc
    BY <2>3, <2>4 DEF Op
  <2>6. op' = [op EXCEPT ![a] = e]
    BY <1>1, <1>2, <2>1, <2>3
  <2>7. op' \in [Agent -> Op] /\ op'[a].pc = "device" /\ \A c \in Agent : c # a => op'[c] = op[c]
    BY <1>1, <1>2, <2>2, <2>5, <2>6
  <2>8. bytes' \in Int
    BY <1>1, <2>1, <2>4
  <2> QED
    BY <1>1, <2>2, <2>7, <2>8, DeviceStep
<1> QED
  BY <1>3, <1>4, <1>5, <1>6

-----------------------------------------------------------------------------
(* Sessions, and the theorems *)

\* begin, abort and invalidate leave an empty session or none.
LEMMA EmptySessionKeeps ==
  ASSUME PoolInv, NEW n \in Name, Begin(n) \/ Abort(n) \/ Invalidate(n) PROVE PoolInv'
<1>1. PICK x \in Session : /\ sessions' = [sessions EXCEPT ![n] = x]
                           /\ x.segments = 0 /\ x.lanes = 0 /\ x.from = {}
  <2>1. /\ [NoSession EXCEPT !.open = TRUE] \in Session /\ NoSession \in Session
    BY Initials DEF Session
  <2>2. \A y \in {NoSession, [NoSession EXCEPT !.open = TRUE]} : y.segments = 0 /\ y.lanes = 0 /\ y.from = {}
    BY DEF NoSession
  <2> QED
    BY <2>1, <2>2 DEF Begin, Abort, Invalidate
<1>2. sessions[n].charged \in Nat
  BY DEF PoolInv, TypeOK, Session
<1>3. bytes' \in Int /\ seq' \in 0..MaxSeq
  BY <1>2, PoolAssumption DEF PoolInv, TypeOK, Begin, Abort, Invalidate
<1>4. sessions' \in [Name -> Session] /\ sessions'[n] = x /\ \A m \in Name : m # n => sessions'[m] = sessions[m]
  BY <1>1 DEF PoolInv, TypeOK
<1>5. ASSUME NEW m \in Name PROVE SessionSound(m)'
  BY <1>1, <1>4 DEF PoolInv, SessionSound
<1>6. UNCHANGED <<buf, phase, op, lock, leaked>> /\ lock = NoState
  BY DEF Begin, Abort, Invalidate
<1>7. op' \in [Agent -> Op] /\ \A s \in State : op'[s] = op[s]
  BY <1>6 DEF PoolInv, TypeOK
<1> QED
  BY <1>3, <1>4, <1>5, <1>6, <1>7, SessionStep

LEMMA FinishKeeps ==
  ASSUME PoolInv, NEW f \in Finisher, NEW n \in Name, Finish(f, n) PROVE PoolInv'
<1>1. /\ lock = NoState /\ op[f].pc = "idle" /\ sessions' = [sessions EXCEPT ![n] = NoSession]
      /\ UNCHANGED <<buf, phase, lock, seq, leaked>>
  BY DEF Finish
<1>2. f \in Agent /\ f \notin State /\ op \in [Agent -> Op]
  BY PoolAssumption DEF PoolInv, TypeOK, Agent
<1>3. PICK ss \in Session : ss = sessions[n] /\ SessionSound(n)
  BY DEF PoolInv, TypeOK
<1>4. op' \in [Agent -> Op] /\ bytes' \in Int
  <2>1. CASE ss.lanes = 0
    BY <1>2, <1>3, <2>1 DEF Finish, Session, PoolInv, TypeOK
  <2>2. CASE ss.lanes # 0
    <3>1. ss.kind \in Kind /\ ss.charged \in Nat
      BY <1>3, <2>2 DEF SessionSound, Session
    <3>2. [Idle EXCEPT !.pc = "device", !.held = ss.charged, !.kind = ss.kind] \in Op
      BY <3>1, BegunOp
    <3> QED
      BY <1>2, <1>3, <2>2, <3>2 DEF Finish, PoolInv, TypeOK
  <2> QED
    BY <2>1, <2>2
<1>5. \A s \in State : op'[s] = op[s]
  BY <1>2 DEF Finish, Agent
<1>6. sessions' \in [Name -> Session] /\ \A m \in Name : sessions'[m] \in {sessions[m], NoSession}
  BY <1>1, Initials DEF PoolInv, TypeOK
<1>7. ASSUME NEW m \in Name PROVE SessionSound(m)'
  <2>1. NoSession.segments = 0 /\ NoSession.lanes = 0 /\ NoSession.from = {}
    BY DEF NoSession
  <2> QED
    BY <1>6, <2>1 DEF PoolInv, SessionSound
<1>8. seq' \in 0..MaxSeq
  BY <1>1 DEF PoolInv, TypeOK
<1> QED
  BY <1>1, <1>4, <1>5, <1>6, <1>7, <1>8, SessionStep

\* Every step of the pool keeps its invariant.
LEMMA NextKeeps == PoolInv /\ [Next]_vars => PoolInv'
<1> SUFFICES ASSUME PoolInv, [Next]_vars PROVE PoolInv'
  OBVIOUS
<1>1. ASSUME NEW s \in State, Update(s) \/ UpdateAdd(s) \/ Fill(s) PROVE PoolInv'
  BY <1>1, UpdateKeeps, UpdateAddKeeps, FillKeeps
<1>2. ASSUME NEW s \in State, NEW r \in State, Combine(s, r) PROVE PoolInv'
  BY <1>2, CombineKeeps
<1>3. ASSUME NEW s \in State, CombineAdd(s) PROVE PoolInv'
  BY <1>3, CombineAddKeeps
<1>4. ASSUME NEW s \in State, FindSession(s) PROVE PoolInv'
  BY <1>4, FindSessionKeeps
<1>5. ASSUME NEW s \in State, AppendSegment(s) PROVE PoolInv'
  BY <1>5, AppendKeeps
<1>6. ASSUME NEW s \in State, Upload(s) PROVE PoolInv'
  BY <1>6, UploadKeeps
<1>7. ASSUME NEW s \in State, Destroy(s) PROVE PoolInv'
  BY <1>7, DestroyKeeps
<1>8. ASSUME NEW q \in Stmt, EndOfInput(q) \/ NewStatement(q) PROVE PoolInv'
  BY <1>8, EndOfInputKeeps, NewStatementKeeps
<1>9. ASSUME NEW a \in Agent, Borrow(a) \/ BorrowAdd(a) \/ Give(a) \/ Device(a) PROVE PoolInv'
  BY <1>9, DeviceKeeps
<1>10. ASSUME NEW n \in Name, Begin(n) \/ Abort(n) \/ Invalidate(n) PROVE PoolInv'
  BY <1>10, EmptySessionKeeps
<1>11. ASSUME NEW f \in Finisher, NEW n \in Name, Finish(f, n) PROVE PoolInv'
  BY <1>11, FinishKeeps
<1>12. CASE UNCHANGED vars
  <2>1. TypeOK'
    BY <1>12 DEF vars, PoolInv, TypeOK
  <2>2. \A s \in State : BufSound(s)' /\ NamedEmpty(s)' /\ CombineSound(s)' /\ SegmentSound(s)'
    BY <1>12 DEF vars, PoolInv, BufSound, NamedEmpty, CombineSound, SegmentSound
  <2>3. \A n \in Name : SessionSound(n)'
    BY <1>12 DEF vars, PoolInv, SessionSound
  <2> QED
    BY <1>12, <2>1, <2>2, <2>3 DEF vars, PoolInv
<1> QED
  BY <1>1, <1>2, <1>3, <1>4, <1>5, <1>6, <1>7, <1>8, <1>9, <1>10, <1>11, <1>12 DEF Next

\* The inductive invariant: rows come with the name that was set first, a
\* combine in progress fits its target, and registry_mu protects a session
\* between the reservation of a segment and its append.
THEOREM PoolSound == Spec => []PoolInv
<1> QED
  BY InitSound, NextKeeps, PTL DEF Spec

\* Rows of two names never meet in a buffer or a session without string lanes.
THEOREM NamesStayApart == Spec => []OneName
<1>1. PoolInv => OneName
  BY DEF PoolInv, BufSound, RowsSound, SessionSound, OneName
<1> QED
  BY <1>1, PoolSound, PTL

\* A buffer without string lanes is never younger than what was merged into it.
THEOREM OldestSurvives == Spec => []SeqIsOldest
<1>1. PoolInv => SeqIsOldest
  BY DEF PoolInv, BufSound, RowsSound, SeqIsOldest
<1> QED
  BY <1>1, PoolSound, PTL

\* A session that has a segment keeps its kind until it is begun anew, taken or
\* thrown away.
THEOREM KindStays == Spec => SessionKeepsKind
<1> DEFINE Keeps == \A n \in Name :
              sessions[n].segments > 0 /\ sessions'[n].segments >= sessions[n].segments
                  => sessions'[n].kind = sessions[n].kind
<1>1. PoolInv /\ [Next]_vars => [Keeps]_vars
  <2> SUFFICES ASSUME PoolInv, Next, NEW n \in Name, sessions[n].segments > 0,
                      sessions'[n].segments >= sessions[n].segments
               PROVE  sessions'[n].kind = sessions[n].kind
    BY DEF Keeps
  <2>1. CASE UNCHANGED sessions
    BY <2>1
  <2>2. ASSUME NEW m \in Name, Begin(m) \/ Abort(m) \/ Invalidate(m) \/ \E f \in Finisher : Finish(f, m)
        PROVE  sessions'[n].kind = sessions[n].kind
    <3>1. sessions'[m].segments = 0 /\ \A k \in Name : k # m => sessions'[k] = sessions[k]
      BY <2>2 DEF Begin, Abort, Invalidate, Finish, NoSession, PoolInv, TypeOK
    <3>2. n # m
      <4>1. sessions[n].segments \in Nat
        BY DEF PoolInv, TypeOK, Session
      <4> QED
        BY <3>1, <4>1
    <3> QED
      BY <3>1, <3>2
  <2>3. ASSUME NEW s \in State, AppendSegment(s) PROVE sessions'[n].kind = sessions[n].kind
    <3>1. /\ SegmentSound(s) /\ op[s].pc = "segment" /\ sessions \in [Name -> Session]
          /\ SessionSound(n)
      BY <2>3 DEF AppendSegment, PoolInv, TypeOK
    <3>2. /\ \A k \in Name : k # buf[s].name => sessions'[k] = sessions[k]
          /\ buf[s].name = n => sessions'[n].kind = KindOf[StmtOf[s]]
      BY <2>3, <3>1 DEF AppendSegment, Session
    <3> QED
      BY <3>1, <3>2 DEF SegmentSound, SessionSound
  <2>4. \/ UNCHANGED sessions
        \/ \E m \in Name : Begin(m) \/ Abort(m) \/ Invalidate(m) \/ \E f \in Finisher : Finish(f, m)
        \/ \E s \in State : AppendSegment(s)
    BY DEF Next, Update, UpdateAdd, Fill, Combine, CombineAdd, FindSession, Upload, Destroy,
           EndOfInput, NewStatement, Borrow, BorrowAdd, Give, Device
  <2> QED
    BY <2>1, <2>2, <2>3, <2>4
<1>2. SessionKeepsKind <=> [][Keeps]_vars
  BY PTL DEF SessionKeepsKind
<1> QED
  BY <1>1, <1>2, PoolSound, PTL DEF Spec

-----------------------------------------------------------------------------
(***************************************************************************)
(* The count of the pool: PoolBalanced and OvershootBounded for every      *)
(* number of states, statements, names and caps.  A step changes the sums  *)
(* at one buffer, one session and one callback at most, so every action    *)
(* comes down to the arithmetic of a few summands.                         *)
(***************************************************************************)

-----------------------------------------------------------------------------
(* Sums *)

\* The rows counted for one index.
RowsAt(a, v) == {a} \X (1..v)

LEMMA RowsAtFacts ==
  ASSUME NEW a, NEW v \in Nat
  PROVE  IsFiniteSet(RowsAt(a, v)) /\ Cardinality(RowsAt(a, v)) = v
<1>1. IsFiniteSet({a}) /\ Cardinality({a}) = 1
  BY FS_Singleton
<1>2. IsFiniteSet(1..v) /\ Cardinality(1..v) = v
  BY FS_Interval
<1>3. IsFiniteSet({a} \X (1..v)) /\ Cardinality({a} \X (1..v)) = Cardinality({a}) * Cardinality(1..v)
  BY <1>1, <1>2, FS_Product
<1> QED
  BY <1>1, <1>2, <1>3 DEF RowsAt

\* The rows of f are those of an index and the others.
LEMMA RowsSplit ==
  ASSUME NEW D, NEW f \in [D -> Nat], NEW a \in D, IsFiniteSet(Rows(f))
  PROVE  /\ IsFiniteSet(Rows(f) \ RowsAt(a, f[a]))
         /\ Cardinality(Rows(f) \ RowsAt(a, f[a])) = Total(f) - f[a]
         /\ Total(f) \in Nat
<1>1. RowsAt(a, f[a]) \subseteq Rows(f)
  BY DEF RowsAt, Rows
<1>2. Rows(f) \cap RowsAt(a, f[a]) = RowsAt(a, f[a])
  BY <1>1
<1>3. f[a] \in Nat /\ Cardinality(RowsAt(a, f[a])) = f[a]
  BY RowsAtFacts
<1>4. /\ IsFiniteSet(Rows(f) \ RowsAt(a, f[a]))
      /\ Cardinality(Rows(f) \ RowsAt(a, f[a]))
            = Cardinality(Rows(f)) - Cardinality(Rows(f) \cap RowsAt(a, f[a]))
  BY FS_Difference
<1>5. Cardinality(Rows(f)) \in Nat
  BY FS_CardinalityType
<1> QED
  BY <1>2, <1>3, <1>4, <1>5 DEF Total

\* Changing one summand changes the sum by as much.
LEMMA TotalChanges ==
  ASSUME NEW D, NEW f \in [D -> Nat], NEW a \in D, NEW v \in Nat, IsFiniteSet(Rows(f))
  PROVE  LET g == [f EXCEPT ![a] = v]
         IN  /\ IsFiniteSet(Rows(g)) /\ Total(f) \in Nat /\ Total(g) \in Nat
             /\ Total(g) = Total(f) - f[a] + v
<1> DEFINE g == [f EXCEPT ![a] = v]
           others == Rows(f) \ RowsAt(a, f[a])
<1>1. Rows(g) = others \cup RowsAt(a, v)
  <2>1. g \in [D -> Nat] /\ g[a] = v /\ \A b \in D : b # a => g[b] = f[b]
    OBVIOUS
  <2>2. \A b, i : <<b, i>> \in Rows(g) <=> b \in D /\ i \in 1..g[b]
    BY <2>1 DEF Rows
  <2>3. \A b, i : <<b, i>> \in Rows(f) <=> b \in D /\ i \in 1..f[b]
    BY DEF Rows
  <2>4. \A b, i : <<b, i>> \in RowsAt(a, v) <=> b = a /\ i \in 1..v
    BY DEF RowsAt
  <2>5. \A b, i : <<b, i>> \in RowsAt(a, f[a]) <=> b = a /\ i \in 1..f[a]
    BY DEF RowsAt
  <2>6. \A x \in Rows(g) \cup others \cup RowsAt(a, v) : x = <<x[1], x[2]>>
    BY DEF Rows, RowsAt
  <2>7. \A b, i : <<b, i>> \in Rows(g) <=> <<b, i>> \in others \cup RowsAt(a, v)
    BY <2>1, <2>2, <2>3, <2>4, <2>5
  <2> HIDE DEF g, others
  <2>8. \A x : x \in Rows(g) <=> x \in others \cup RowsAt(a, v)
    BY <2>6, <2>7
  <2> QED
    BY <2>8
<1>2. others \cap RowsAt(a, v) = {}
  BY DEF Rows, RowsAt
<1>3. IsFiniteSet(others) /\ Cardinality(others) = Total(f) - f[a] /\ Total(f) \in Nat
  BY RowsSplit
<1>4. IsFiniteSet(RowsAt(a, v)) /\ Cardinality(RowsAt(a, v)) = v
  BY RowsAtFacts
<1> HIDE DEF g, others
<1>5. /\ IsFiniteSet(others \cup RowsAt(a, v))
      /\ Cardinality(others \cup RowsAt(a, v))
            = Cardinality(others) + Cardinality(RowsAt(a, v)) - Cardinality(others \cap RowsAt(a, v))
  BY <1>3, <1>4, FS_Union
<1>6. Total(f) \in Nat /\ f[a] \in Nat /\ Cardinality(others) \in Nat
  BY <1>3, FS_CardinalityType
<1>7. IsFiniteSet(Rows(g)) /\ Total(g) = Total(f) - f[a] + v
  <2>1. Cardinality(others \cap RowsAt(a, v)) = 0
    BY <1>2, FS_EmptySet
  <2>2. IsFiniteSet(Rows(g)) /\ Total(g) = Cardinality(others) + Cardinality(RowsAt(a, v)) - 0
    BY <1>1, <1>5, <2>1 DEF Total
  <2> QED
    BY <1>3, <1>4, <1>6, <2>2
<1>8. Total(g) \in Nat
  BY <1>7, FS_CardinalityType DEF Total
<1> QED
  BY <1>6, <1>7, <1>8 DEF g

\* A sum over a finite set is a number.
LEMMA TotalType ==
  ASSUME NEW D, IsFiniteSet(D), NEW f \in [D -> Nat]
  PROVE  IsFiniteSet(Rows(f)) /\ Total(f) \in Nat
<1> DEFINE at == [a \in D |-> {a} \X (1..f[a])]
           parts == {at[a] : a \in D}
<1>1. IsFiniteSet(parts)
  <2>1. at \in Surjection(D, parts)
    BY DEF Surjection
  <2> QED
    BY <2>1, FS_Surjection
<1>2. \A T \in parts : IsFiniteSet(T)
  <2> SUFFICES ASSUME NEW a \in D
               PROVE  IsFiniteSet(at[a])
    OBVIOUS
  <2>1. f[a] \in Nat /\ at[a] = RowsAt(a, f[a])
    BY DEF RowsAt
  <2> QED
    BY <2>1, RowsAtFacts
<1>3. Rows(f) = UNION parts
  BY DEF Rows
<1> QED
  BY <1>1, <1>2, <1>3, FS_UNION, FS_CardinalityType DEF Total

\* No summands, no rows.
LEMMA TotalZero ==
  ASSUME NEW D
  PROVE  Rows([a \in D |-> 0]) = {} /\ IsFiniteSet(Rows([a \in D |-> 0])) /\ Total([a \in D |-> 0]) = 0
<1>1. Rows([a \in D |-> 0]) = {}
  BY DEF Rows
<1> QED
  BY <1>1, FS_EmptySet DEF Total

\* What a sum is bounded by, apart from one of its summands.
LEMMA TotalOthers ==
  ASSUME NEW D, IsFiniteSet(D), NEW c \in Nat, NEW f \in [D -> 0..c], NEW a \in D
  PROVE  Total(f) - f[a] <= c * (Cardinality(D) - 1)
<1>1. f \in [D -> Nat] /\ IsFiniteSet(Rows(f))
  BY TotalType
<1> DEFINE others == Rows(f) \ RowsAt(a, f[a])
           box == (D \ {a}) \X (1..c)
<1>2. others \subseteq box
  BY DEF Rows, RowsAt
<1>3. IsFiniteSet(D \ {a}) /\ Cardinality(D \ {a}) = Cardinality(D) - 1
  BY FS_RemoveElement
<1>4. IsFiniteSet(1..c) /\ Cardinality(1..c) = c
  BY FS_Interval
<1>5. IsFiniteSet(box) /\ Cardinality(box) = (Cardinality(D) - 1) * c
  <2>1. IsFiniteSet(box) /\ Cardinality(box) = Cardinality(D \ {a}) * Cardinality(1..c)
    BY <1>3, <1>4, FS_Product
  <2> QED
    BY <1>3, <1>4, <2>1
<1>6. Cardinality(others) <= (Cardinality(D) - 1) * c
  BY <1>2, <1>5, FS_Subset
<1>7. Cardinality(others) = Total(f) - f[a]
  BY <1>1, RowsSplit
<1>8. Cardinality(D) \in Nat
  BY FS_CardinalityType
<1> QED
  BY <1>6, <1>7, <1>8

-----------------------------------------------------------------------------
(* The invariant *)

\* Outside the device work nothing is held but the chunk being filled, and what
\* is not live is not charged and has no callback in progress.
Settled ==
  /\ \A a \in Agent : op[a].pc \notin {"device", "borrow"} => op[a].held = 0 /\ op[a].temp = 0
  /\ \A s \in State : ~buf[s].live => buf[s].charged = 0 /\ op[s].pc = "idle"

\* The sums are those of finitely many rows, however many names there are; each
\* reservation by itself stays below the larger cap.
PoolCounted ==
  /\ Settled
  /\ IsFiniteSet(Rows(ChargedSessions))
  /\ PoolBalanced /\ OvershootBounded
  /\ \A a \in Agent : Wants(op[a]) <= Widest

LEMMA WidestCap == Widest \in Nat /\ Cap <= Widest /\ ExactCap <= Widest
  BY PoolAssumption DEF Widest

LEMMA SumTypes ==
  ASSUME PoolInv
  PROVE  /\ ChargedBufs \in [State -> Nat] /\ ChargedSessions \in [Name -> Nat]
         /\ Outstanding \in [Agent -> Nat] /\ Pending \in [Agent -> Nat]
         /\ IsFiniteSet(State) /\ IsFiniteSet(Agent)
         /\ \A o \in Op : Owes(o) \in Nat /\ Wants(o) \in Nat
<1>1. \A o \in Op : Owes(o) \in Nat /\ Wants(o) \in Nat
  BY DEF Op, Owes, Wants
<1>2. IsFiniteSet(Agent) /\ IsFiniteSet(State)
  <2>1. IsFiniteSet(Agent) /\ State \in SUBSET Agent
    BY PoolAssumption DEF Agent
  <2> QED
    BY <2>1, FS_Subset
<1>3. ChargedBufs \in [State -> Nat] /\ ChargedSessions \in [Name -> Nat]
  BY DEF PoolInv, TypeOK, Buf, Session, ChargedBufs, ChargedSessions
<1>4. Outstanding \in [Agent -> Nat] /\ Pending \in [Agent -> Nat]
  BY <1>1 DEF PoolInv, TypeOK, Outstanding, Pending
<1> QED
  BY <1>1, <1>2, <1>3, <1>4

\* One buffer changes.
LEMMA BufTo ==
  ASSUME PoolInv, NEW s \in State, NEW b \in Buf, buf' = [buf EXCEPT ![s] = b]
  PROVE  /\ Total(ChargedBufs) \in Nat /\ Total(ChargedBufs') \in Nat
         /\ Total(ChargedBufs') = Total(ChargedBufs) + b.charged - buf[s].charged
<1>1. b.charged \in Nat
  BY DEF Buf
<1>2. ChargedBufs' = [ChargedBufs EXCEPT ![s] = b.charged]
  BY DEF PoolInv, TypeOK, ChargedBufs
<1>3. ChargedBufs[s] = buf[s].charged
  BY DEF ChargedBufs
<1>4. IsFiniteSet(Rows(ChargedBufs)) /\ ChargedBufs \in [State -> Nat]
  BY SumTypes, TotalType
<1>5. /\ Total(ChargedBufs) \in Nat /\ Total(ChargedBufs') \in Nat
      /\ Total(ChargedBufs') = Total(ChargedBufs) - ChargedBufs[s] + b.charged
  BY <1>1, <1>2, <1>3, <1>4, TotalChanges
<1>6. ChargedBufs[s] \in Nat
  BY <1>4
<1> QED
  BY <1>1, <1>3, <1>5, <1>6

LEMMA BufKept ==
  ASSUME PoolInv, \A s \in State : buf'[s].charged = buf[s].charged
  PROVE  Total(ChargedBufs) \in Nat /\ Total(ChargedBufs') = Total(ChargedBufs)
<1>1. ChargedBufs' = ChargedBufs
  BY DEF ChargedBufs
<1> QED
  BY <1>1, SumTypes, TotalType

\* One session changes.
LEMMA SessionTo ==
  ASSUME PoolInv, PoolCounted, NEW n \in Name, NEW x \in Session,
         sessions' = [sessions EXCEPT ![n] = x]
  PROVE  /\ IsFiniteSet(Rows(ChargedSessions'))
         /\ Total(ChargedSessions) \in Nat /\ Total(ChargedSessions') \in Nat
         /\ Total(ChargedSessions') = Total(ChargedSessions) + x.charged - sessions[n].charged
<1>1. x.charged \in Nat
  BY DEF Session
<1>2. ChargedSessions' = [ChargedSessions EXCEPT ![n] = x.charged]
  BY DEF PoolInv, TypeOK, ChargedSessions
<1>3. ChargedSessions[n] = sessions[n].charged
  BY DEF ChargedSessions
<1>4. IsFiniteSet(Rows(ChargedSessions)) /\ ChargedSessions \in [Name -> Nat]
  BY SumTypes DEF PoolCounted
<1>5. /\ Total(ChargedSessions) \in Nat /\ Total(ChargedSessions') \in Nat
      /\ IsFiniteSet(Rows(ChargedSessions'))
      /\ Total(ChargedSessions') = Total(ChargedSessions) - ChargedSessions[n] + x.charged
  BY <1>1, <1>2, <1>3, <1>4, TotalChanges
<1>6. ChargedSessions[n] \in Nat
  BY <1>4
<1> QED
  BY <1>1, <1>3, <1>5, <1>6

LEMMA SessionsKept ==
  ASSUME PoolInv, PoolCounted, UNCHANGED sessions
  PROVE  /\ IsFiniteSet(Rows(ChargedSessions')) /\ Total(ChargedSessions) \in Nat
         /\ Total(ChargedSessions') = Total(ChargedSessions)
<1>1. ChargedSessions' = ChargedSessions
  BY DEF ChargedSessions
<1> QED
  BY <1>1, FS_CardinalityType DEF PoolCounted, Total

\* One callback changes.
LEMMA OpTo ==
  ASSUME PoolInv, NEW a \in Agent, NEW x \in Op, op' = [op EXCEPT ![a] = x]
  PROVE  /\ Total(Outstanding) \in Nat /\ Total(Outstanding') \in Nat
         /\ Total(Outstanding') = Total(Outstanding) + Owes(x) - Owes(op[a])
         /\ Total(Pending) \in Nat /\ Total(Pending') \in Nat
         /\ Total(Pending') = Total(Pending) + Wants(x) - Wants(op[a])
<1>1. Owes(x) \in Nat /\ Wants(x) \in Nat
  BY SumTypes
<1>2. /\ Outstanding' = [Outstanding EXCEPT ![a] = Owes(x)]
      /\ Pending' = [Pending EXCEPT ![a] = Wants(x)]
  BY DEF PoolInv, TypeOK, Outstanding, Pending
<1>3. Outstanding[a] = Owes(op[a]) /\ Pending[a] = Wants(op[a])
  BY DEF Outstanding, Pending
<1>4. /\ IsFiniteSet(Rows(Outstanding)) /\ Outstanding \in [Agent -> Nat]
      /\ IsFiniteSet(Rows(Pending)) /\ Pending \in [Agent -> Nat]
  BY SumTypes, TotalType
<1>5. /\ Total(Outstanding) \in Nat /\ Total(Outstanding') \in Nat
      /\ Total(Outstanding') = Total(Outstanding) - Outstanding[a] + Owes(x)
  BY <1>1, <1>2, <1>4, TotalChanges
<1>6. /\ Total(Pending) \in Nat /\ Total(Pending') \in Nat
      /\ Total(Pending') = Total(Pending) - Pending[a] + Wants(x)
  BY <1>1, <1>2, <1>4, TotalChanges
<1>7. Owes(op[a]) \in Nat /\ Wants(op[a]) \in Nat
  BY <1>3, <1>4
<1> QED
  BY <1>1, <1>3, <1>5, <1>6, <1>7

\* What the others have reserved fits beside one reservation of a whole cap.
LEMMA OthersPending ==
  ASSUME PoolInv, PoolCounted, NEW a \in Agent
  PROVE  /\ Total(Pending) - Wants(op[a]) + Widest <= Widest * Cardinality(Agent)
         /\ Widest * Cardinality(Agent) \in Nat
<1>1. Pending \in [Agent -> 0..Widest] /\ Pending[a] = Wants(op[a])
  BY SumTypes, PoolAssumption, WidestCap DEF PoolCounted, Pending
<1>2. IsFiniteSet(Agent) /\ Widest \in Nat /\ Cardinality(Agent) \in Nat
  BY SumTypes, PoolAssumption, WidestCap, FS_CardinalityType
<1>3. Total(Pending) - Pending[a] <= Widest * (Cardinality(Agent) - 1)
  BY <1>1, <1>2, TotalOthers
<1>4. Widest * (Cardinality(Agent) - 1) = Widest * Cardinality(Agent) - Widest
  BY <1>2
<1>5. Total(Pending) \in Nat /\ Wants(op[a]) \in Nat /\ Widest * Cardinality(Agent) \in Nat
  BY <1>1, <1>2, SumTypes, TotalType
<1> QED
  BY <1>1, <1>2, <1>3, <1>4, <1>5

\* A step of one callback keeps the count when what leaves or enters the
\* buffers, the sessions, the callback and the leak is what is added to bytes;
\* the overshoot stays bounded when the step adds nothing, or when what it adds
\* fits below the cap.
LEMMA CallStep ==
  ASSUME PoolInv, PoolCounted,
         NEW a \in Agent, NEW x \in Op, op' = [op EXCEPT ![a] = x],
         Total(ChargedBufs) \in Nat, Total(ChargedBufs') \in Nat,
         Total(ChargedSessions) \in Nat, Total(ChargedSessions') \in Nat,
         IsFiniteSet(Rows(ChargedSessions')), leaked' \in Nat,
         bytes' = bytes + (Total(ChargedBufs') - Total(ChargedBufs))
                        + (Total(ChargedSessions') - Total(ChargedSessions))
                        + (Owes(x) - Owes(op[a])) + (leaked' - leaked),
         Wants(x) <= Widest,
         \/ bytes' + Wants(x) <= bytes + Wants(op[a])
         \/ bytes' + Wants(x) <= Widest,
         Settled'
  PROVE  PoolCounted'
<1>1. bytes \in Int /\ leaked \in Nat /\ Widest \in Nat
  BY PoolAssumption, WidestCap DEF PoolInv, TypeOK
<1>2. Owes(x) \in Nat /\ Owes(op[a]) \in Nat /\ Wants(x) \in Nat /\ Wants(op[a]) \in Nat
  BY SumTypes DEF PoolInv, TypeOK
<1>3. PoolBalanced'
  <2>1. bytes = Total(ChargedBufs) + Total(ChargedSessions) + Total(Outstanding) + leaked
    BY DEF PoolCounted, PoolBalanced
  <2>2. Total(Outstanding) \in Nat /\ Total(Outstanding') = Total(Outstanding) + Owes(x) - Owes(op[a])
    BY OpTo
  <2>3. bytes' = Total(ChargedBufs') + Total(ChargedSessions') + Total(Outstanding') + leaked'
    BY <1>1, <1>2, <2>1, <2>2
  <2> QED
    BY <2>3 DEF PoolBalanced
<1>4. OvershootBounded'
  <2>1. Total(Pending) \in Nat /\ Total(Pending') = Total(Pending) + Wants(x) - Wants(op[a])
    BY OpTo
  <2>2. bytes + Total(Pending) <= Widest * Cardinality(Agent)
    BY DEF PoolCounted, OvershootBounded
  <2>3. /\ Total(Pending) - Wants(op[a]) + Widest <= Widest * Cardinality(Agent)
        /\ Widest * Cardinality(Agent) \in Nat
    BY OthersPending
  <2>4. PICK m \in Nat : m = Widest * Cardinality(Agent)
    BY <2>3
  <2>5. bytes' \in Int
    BY <1>1, <1>2
  <2>6. bytes' + Total(Pending') <= m
    BY <1>1, <1>2, <2>1, <2>2, <2>3, <2>4, <2>5
  <2> QED
    BY <2>4, <2>6 DEF OvershootBounded
<1>5. \A e \in Agent : Wants(op'[e]) <= Widest
  BY DEF PoolCounted, PoolInv, TypeOK
<1> QED
  BY <1>3, <1>4, <1>5 DEF PoolCounted

\* A step that leaves the callbacks alone only gives bytes back.
LEMMA ReleaseStep ==
  ASSUME PoolInv, PoolCounted, UNCHANGED <<op, leaked>>,
         Total(ChargedBufs) \in Nat, Total(ChargedBufs') \in Nat,
         Total(ChargedSessions) \in Nat, Total(ChargedSessions') \in Nat,
         IsFiniteSet(Rows(ChargedSessions')),
         bytes' = bytes + (Total(ChargedBufs') - Total(ChargedBufs))
                        + (Total(ChargedSessions') - Total(ChargedSessions)),
         bytes' <= bytes, Settled'
  PROVE  PoolCounted'
<1>1. /\ Total(Outstanding) \in Nat /\ Total(Outstanding') = Total(Outstanding)
      /\ Total(Pending) \in Nat /\ Total(Pending') = Total(Pending)
  <2>1. Outstanding' = Outstanding /\ Pending' = Pending
    BY DEF Outstanding, Pending
  <2> QED
    BY <2>1, SumTypes, TotalType
<1>2. bytes \in Int /\ leaked \in Nat
  BY DEF PoolInv, TypeOK
<1>3. PoolBalanced'
  <2>1. bytes = Total(ChargedBufs) + Total(ChargedSessions) + Total(Outstanding) + leaked
    BY DEF PoolCounted, PoolBalanced
  <2>2. bytes' = Total(ChargedBufs') + Total(ChargedSessions') + Total(Outstanding') + leaked'
    BY <1>1, <1>2, <2>1
  <2> QED
    BY <2>2 DEF PoolBalanced
<1>4. OvershootBounded'
  <2>1. bytes + Total(Pending) <= Widest * Cardinality(Agent)
    BY DEF PoolCounted, OvershootBounded
  <2>2. PICK m \in Int : m = Widest * Cardinality(Agent)
    BY PoolAssumption, WidestCap, SumTypes, FS_CardinalityType
  <2>3. bytes' + Total(Pending') <= m
    BY <1>1, <1>2, <2>1, <2>2
  <2> QED
    BY <2>2, <2>3 DEF OvershootBounded
<1>5. \A e \in Agent : Wants(op'[e]) <= Widest
  BY DEF PoolCounted
<1> QED
  BY <1>3, <1>4, <1>5 DEF PoolCounted

\* A step that leaves the count and all it counts alone.
LEMMA IdleCounts ==
  ASSUME PoolInv, PoolCounted, UNCHANGED <<op, bytes, sessions, leaked>>,
         \A s \in State : buf'[s].charged = buf[s].charged,
         \A s \in State : buf'[s].live = buf[s].live \/ buf'[s].live
  PROVE  PoolCounted'
<1>1. Total(ChargedBufs) \in Nat /\ Total(ChargedBufs') = Total(ChargedBufs)
  BY BufKept
<1>2. /\ Total(ChargedSessions) \in Nat /\ Total(ChargedSessions') = Total(ChargedSessions)
      /\ IsFiniteSet(Rows(ChargedSessions'))
  BY SessionsKept
<1>3. bytes \in Int /\ bytes' = bytes
  BY DEF PoolInv, TypeOK
<1>4. Settled'
  BY DEF PoolCounted, Settled
<1> QED
  BY <1>1, <1>2, <1>3, <1>4, ReleaseStep

\* What Settled asks of a step that changes one buffer and one callback.
LEMMA SettledStep ==
  ASSUME PoolInv, PoolCounted, NEW a \in Agent, NEW x \in Op, op' = [op EXCEPT ![a] = x],
         x.pc \notin {"device", "borrow"} => x.held = 0 /\ x.temp = 0,
         a \in State /\ x.pc # "idle" => buf'[a].live,
         \A s \in State : \/ buf'[s].live = buf[s].live /\ buf'[s].charged = buf[s].charged
                          \/ buf'[s].live
                          \/ s = a /\ buf'[s].charged = 0
  PROVE  Settled'
<1>1. \A e \in Agent : op'[e] = IF e = a THEN x ELSE op[e]
  BY DEF PoolInv, TypeOK
<1>2. ASSUME NEW s \in State, ~buf'[s].live PROVE buf'[s].charged = 0 /\ op'[s].pc = "idle"
  <2>1. s \in Agent
    BY DEF Agent
  <2>2. ~buf[s].live => buf[s].charged = 0 /\ op[s].pc = "idle"
    BY DEF PoolCounted, Settled
  <2> QED
    BY <1>1, <1>2, <2>1, <2>2
<1> QED
  BY <1>1, <1>2 DEF PoolCounted, Settled

\* A reservation that passed the load fits below the larger cap.
LEMMA FitsFacts ==
  ASSUME PoolInv, NEW n \in Nat, NEW e \in BOOLEAN, Fits(n, e)
  PROVE  n = 0 \/ bytes + n <= Widest
<1>1. CapOf(e) \in Nat /\ CapOf(e) <= Widest /\ bytes \in Int /\ Widest \in Nat
  BY PoolAssumption, WidestCap DEF CapOf, PoolInv, TypeOK
<1> QED
  BY <1>1 DEF Fits

\* Nothing is counted below zero.
LEMMA BytesNat ==
  ASSUME PoolInv, PoolCounted
  PROVE  bytes \in Nat /\ Widest \in Nat
<1>1. /\ Total(ChargedBufs) \in Nat /\ Total(ChargedSessions) \in Nat
      /\ Total(Outstanding) \in Nat /\ leaked \in Nat
  BY SumTypes, TotalType, FS_CardinalityType DEF PoolCounted, Total, PoolInv, TypeOK
<1> QED
  BY <1>1, PoolAssumption, WidestCap DEF PoolCounted, PoolBalanced

-----------------------------------------------------------------------------
(* The steps *)

\* A reservation begins: nothing is counted yet.
LEMMA Reserves ==
  ASSUME PoolInv, PoolCounted, NEW s \in State, NEW w \in Nat, NEW e \in BOOLEAN,
         NEW x \in Op, op' = [op EXCEPT ![s] = x], op[s].pc = "idle",
         Fits(w, e), Wants(x) = w, Owes(x) = 0, x.held = 0, x.temp = 0,
         buf[s].live,
         \A t \in State : buf'[t].charged = buf[t].charged /\ buf'[t].live = buf[t].live,
         UNCHANGED <<bytes, sessions, leaked>>
  PROVE  PoolCounted'
<1>1. s \in Agent /\ bytes \in Nat /\ Widest \in Nat
  BY BytesNat DEF Agent
<1>2. op[s].held = 0 /\ op[s].temp = 0 /\ Owes(op[s]) = 0 /\ Wants(op[s]) = 0
  BY <1>1 DEF PoolCounted, Settled, Owes, Wants
<1>3. w = 0 \/ bytes + w <= Widest
  BY FitsFacts
<1>4. Settled'
  BY <1>1, SettledStep
<1>5. Total(ChargedBufs) \in Nat /\ Total(ChargedBufs') = Total(ChargedBufs)
  BY BufKept
<1>6. /\ Total(ChargedSessions) \in Nat /\ Total(ChargedSessions') = Total(ChargedSessions)
      /\ IsFiniteSet(Rows(ChargedSessions'))
  BY SessionsKept
<1>7. leaked' \in Nat /\ leaked' = leaked
  BY DEF PoolInv, TypeOK
<1>8. Wants(x) <= Widest /\ (bytes' + Wants(x) <= bytes + Wants(op[s]) \/ bytes' + Wants(x) <= Widest)
  BY <1>1, <1>2, <1>3
<1>9. bytes' = bytes + (Total(ChargedBufs') - Total(ChargedBufs))
                     + (Total(ChargedSessions') - Total(ChargedSessions))
                     + (Owes(x) - Owes(op[s])) + (leaked' - leaked)
  BY <1>1, <1>2, <1>5, <1>6, <1>7
<1>10. Total(ChargedBufs') \in Nat /\ Total(ChargedSessions') \in Nat
  BY <1>5, <1>6
<1> QED
  BY <1>1, <1>4, <1>5, <1>6, <1>7, <1>8, <1>9, <1>10, CallStep

LEMMA UpdateCounts ==
  ASSUME PoolInv, PoolCounted, NEW s \in State, Update(s)
  PROVE  PoolCounted'
<1>1. CASE UNCHANGED op
  <2>1. UNCHANGED <<op, bytes, buf, sessions, leaked>>
    BY <1>1 DEF Update
  <2> QED
    BY <2>1, IdleCounts
<1>2. PICK n \in 1..MaxChunk :
         \/ Fits(n, IsExact(s)) /\ op' = [op EXCEPT ![s] = [Idle EXCEPT !.pc = "update", !.want = n]]
         \/ UNCHANGED op
  BY DEF Update
<1>3. CASE ~UNCHANGED op
  <2> DEFINE x == [Idle EXCEPT !.pc = "update", !.want = n]
  <2>1. n \in Nat /\ IsExact(s) \in BOOLEAN /\ Fits(n, IsExact(s)) /\ op' = [op EXCEPT ![s] = x]
    BY <1>2, <1>3, PoolAssumption DEF IsExact
  <2>2. x \in Op
    BY <2>1, BegunOp
  <2>3. Wants(x) = n /\ Owes(x) = 0 /\ x.held = 0 /\ x.temp = 0
    BY <2>1 DEF Idle, Wants, Owes
  <2>4. op[s].pc = "idle" /\ buf[s].live /\ UNCHANGED <<bytes, buf, sessions, leaked>>
    BY DEF Update, Quiet
  <2> QED
    BY <2>1, <2>2, <2>3, <2>4, Reserves
<1> QED
  BY <1>1, <1>3

\* A callback that adds nothing beyond what it had reserved, and leaves the
\* buffers and the sessions alone.
LEMMA AgentStep ==
  ASSUME PoolInv, PoolCounted, NEW a \in Agent, NEW x \in Op, op' = [op EXCEPT ![a] = x],
         \A s \in State : buf'[s].charged = buf[s].charged /\ buf'[s].live = buf[s].live,
         UNCHANGED <<sessions, leaked>>,
         a \in State /\ x.pc # "idle" => buf[a].live,
         x.pc \notin {"device", "borrow"} => x.held = 0 /\ x.temp = 0,
         bytes' = bytes + (Owes(x) - Owes(op[a])),
         Wants(x) <= Widest,
         \/ bytes' + Wants(x) <= bytes + Wants(op[a])
         \/ bytes' + Wants(x) <= Widest
  PROVE  PoolCounted'
<1>1. /\ Total(ChargedBufs) \in Nat /\ Total(ChargedBufs') = Total(ChargedBufs)
      /\ Total(ChargedSessions) \in Nat /\ Total(ChargedSessions') = Total(ChargedSessions)
      /\ IsFiniteSet(Rows(ChargedSessions'))
  BY BufKept, SessionsKept
<1>2. Settled'
  BY SettledStep
<1>3. leaked' \in Nat /\ leaked' = leaked /\ bytes \in Int
  BY DEF PoolInv, TypeOK
<1>4. Owes(x) \in Nat /\ Owes(op[a]) \in Nat
  BY SumTypes DEF PoolInv, TypeOK
<1>5. bytes' = bytes + (Total(ChargedBufs') - Total(ChargedBufs))
                     + (Total(ChargedSessions') - Total(ChargedSessions))
                     + (Owes(x) - Owes(op[a])) + (leaked' - leaked)
  BY <1>1, <1>3, <1>4
<1>6. Total(ChargedBufs') \in Nat /\ Total(ChargedSessions') \in Nat
  BY <1>1
<1> QED
  BY <1>1, <1>2, <1>3, <1>5, <1>6, CallStep

\* A callback that changes the buffer of its state too.
LEMMA BufStep ==
  ASSUME PoolInv, PoolInv', PoolCounted, NEW s \in State, NEW x \in Op,
         \A t \in State : t # s => buf'[t] = buf[t],
         op' = [op EXCEPT ![s] = x], UNCHANGED <<sessions, leaked>>,
         x.pc \notin {"device", "borrow"} => x.held = 0 /\ x.temp = 0,
         buf'[s].live \/ (buf'[s].charged = 0 /\ x.pc = "idle"),
         bytes' = bytes + (buf'[s].charged - buf[s].charged) + (Owes(x) - Owes(op[s])),
         Wants(x) <= Widest, bytes' + Wants(x) <= bytes + Wants(op[s])
  PROVE  PoolCounted'
<1>1. s \in Agent /\ buf'[s] \in Buf /\ buf' = [buf EXCEPT ![s] = buf'[s]]
  BY DEF Agent, PoolInv, TypeOK
<1>2. /\ Total(ChargedBufs) \in Nat /\ Total(ChargedBufs') \in Nat
      /\ Total(ChargedBufs') = Total(ChargedBufs) + buf'[s].charged - buf[s].charged
  BY <1>1, BufTo
<1>3. /\ Total(ChargedSessions) \in Nat /\ Total(ChargedSessions') = Total(ChargedSessions)
      /\ IsFiniteSet(Rows(ChargedSessions'))
  BY SessionsKept
<1>4. Settled'
  BY <1>1, SettledStep
<1>5. /\ leaked' \in Nat /\ leaked' = leaked /\ bytes \in Int
      /\ buf'[s].charged \in Nat /\ buf[s].charged \in Nat
  BY <1>1 DEF PoolInv, TypeOK, Buf
<1>6. Owes(x) \in Nat /\ Owes(op[s]) \in Nat
  BY <1>1, SumTypes DEF PoolInv, TypeOK
<1>7. bytes' = bytes + (Total(ChargedBufs') - Total(ChargedBufs))
                     + (Total(ChargedSessions') - Total(ChargedSessions))
                     + (Owes(x) - Owes(op[s])) + (leaked' - leaked)
  BY <1>2, <1>3, <1>5, <1>6
<1>8. Total(ChargedSessions') \in Nat
  BY <1>3
<1> QED
  BY <1>1, <1>2, <1>3, <1>4, <1>5, <1>7, <1>8, CallStep

\* What an idle callback counts.
LEMMA IdleFacts == Idle \in Op /\ Owes(Idle) = 0 /\ Wants(Idle) = 0 /\ Idle.held = 0 /\ Idle.temp = 0
<1>1. Owes(Idle) = 0 /\ Wants(Idle) = 0 /\ Idle.held = 0 /\ Idle.temp = 0
  BY DEF Idle, Owes, Wants
<1> QED
  BY <1>1, Initials

\* What a callback holds that is not device work.
LEMMA HeldFacts ==
  ASSUME PoolInv, PoolCounted, NEW a \in Agent
  PROVE  /\ op[a] \in Op /\ op[a].want \in Nat /\ op[a].held \in Nat /\ op[a].temp \in Nat
         /\ op[a].pc \in {"idle", "update", "combine", "segment"} => Owes(op[a]) = 0
         /\ op[a].pc \in {"update", "combine", "segment", "borrow"} => Wants(op[a]) = op[a].want
         /\ op[a].pc \in {"idle", "fill", "device"} => Wants(op[a]) = 0
         /\ op[a].pc = "fill" => Owes(op[a]) = op[a].want
         /\ op[a].pc \in {"device", "borrow"} => Owes(op[a]) = op[a].held + op[a].temp
         /\ op[a].pc \notin {"device", "borrow"} => op[a].held = 0 /\ op[a].temp = 0
<1>1. op[a] \in Op
  BY DEF PoolInv, TypeOK
<1>2. op[a].want \in Nat /\ op[a].held \in Nat /\ op[a].temp \in Nat
  BY <1>1 DEF Op
<1>3. op[a].pc \notin {"device", "borrow"} => op[a].held = 0 /\ op[a].temp = 0
  BY DEF PoolCounted, Settled
<1> QED
  BY <1>1, <1>2, <1>3 DEF Owes, Wants

LEMMA UpdateAddCounts ==
  ASSUME PoolInv, PoolCounted, NEW s \in State, UpdateAdd(s)
  PROVE  PoolCounted'
<1> DEFINE x == [op[s] EXCEPT !.pc = "fill"]
<1>1. s \in Agent /\ op[s].pc = "update" /\ op' = [op EXCEPT ![s] = x] /\ bytes' = bytes + op[s].want
      /\ UNCHANGED <<buf, sessions, leaked>>
  BY DEF UpdateAdd, Agent, PoolInv, TypeOK
<1>2. x \in Op /\ x.pc = "fill" /\ x.want = op[s].want /\ x.held = op[s].held /\ x.temp = op[s].temp
  BY <1>1, HeldFacts DEF Op
<1>3. /\ op[s].want \in Nat /\ op[s].held = 0 /\ op[s].temp = 0
      /\ Owes(op[s]) = 0 /\ Wants(op[s]) = op[s].want
  BY <1>1, HeldFacts
<1>4. Owes(x) = op[s].want /\ Wants(x) = 0 /\ x.held = 0 /\ x.temp = 0
  BY <1>2, <1>3 DEF Owes, Wants
<1>5. bytes \in Nat /\ Widest \in Nat
  BY BytesNat
<1>6. /\ bytes' = bytes + (Owes(x) - Owes(op[s])) /\ Wants(x) <= Widest
      /\ bytes' + Wants(x) <= bytes + Wants(op[s])
  BY <1>1, <1>3, <1>4, <1>5
<1>7. buf[s].live
  BY <1>1 DEF PoolCounted, Settled
<1> HIDE DEF x
<1> QED
  BY <1>1, <1>2, <1>4, <1>6, <1>7, AgentStep

LEMMA FillCounts ==
  ASSUME PoolInv, PoolInv', PoolCounted, NEW s \in State, Fill(s)
  PROVE  PoolCounted'
<1>1. /\ s \in Agent /\ op[s].pc = "fill" /\ op' = [op EXCEPT ![s] = Idle]
      /\ UNCHANGED <<sessions, lock, seq, leaked>>
  BY DEF Fill, Agent
<1>2. PICK n \in Name, k \in 0..op[s].want, failed \in BOOLEAN, texts \in SUBSET Text :
         FillRows(s, n, k, failed, texts)
  BY DEF Fill
<1>3. PICK c \in Buf : /\ c = [buf[s] EXCEPT !.made = TRUE, !.exact = @ \/ IsExact(s)]
                       /\ c.name = buf[s].name /\ c.lanes = buf[s].lanes /\ c.live = buf[s].live
                       /\ c.charged = buf[s].charged /\ c.texts = buf[s].texts /\ RowsSound(c)
  <2> DEFINE e == [buf[s] EXCEPT !.made = TRUE, !.exact = @ \/ IsExact(s)]
  <2>1. e \in Buf
    BY Ground DEF Buf
  <2>2. /\ e.name = buf[s].name /\ e.lanes = buf[s].lanes /\ e.live = buf[s].live
        /\ e.charged = buf[s].charged /\ e.texts = buf[s].texts /\ RowsSound(e)
    BY Ground DEF Buf, RowsSound
  <2> QED
    BY <2>1, <2>2
<1>4. /\ texts # {} => k > 0
      /\ k > 0 => c.name \in {NoName, n}
      /\ buf' = [buf EXCEPT ![s] = Filled(c, n, k, texts)]
      /\ bytes' = bytes - (op[s].want - (IF Collides(c.texts, texts) THEN k - 1 ELSE k))
  BY <1>2, <1>3 DEF FillRows, Unused
<1>5. /\ op[s].want \in Nat /\ k \in Nat /\ k <= op[s].want
      /\ Owes(op[s]) = op[s].want /\ Wants(op[s]) = 0
  BY <1>1, HeldFacts
<1>6. PICK kept \in Nat : /\ kept <= op[s].want /\ bytes' = bytes - (op[s].want - kept)
                          /\ buf'[s].charged = buf[s].charged + kept
                          /\ buf'[s].live = buf[s].live
                          /\ \A t \in State : t # s => buf'[t] = buf[t]
  <2>1. buf'[s] = Filled(c, n, k, texts) /\ \A t \in State : t # s => buf'[t] = buf[t]
    BY <1>4 DEF PoolInv, TypeOK
  <2>2. CASE k = 0
    <3>1. ~Collides(c.texts, texts) /\ Filled(c, n, k, texts) = c
      BY <1>4, <2>2 DEF Collides, Filled
    <3>2. buf[s].charged \in Nat
      BY DEF PoolInv, TypeOK, Buf
    <3>3. bytes' = bytes - (op[s].want - 0)
      BY <1>4, <2>2, <3>1
    <3>4. buf'[s].charged = buf[s].charged + 0 /\ buf'[s].live = buf[s].live
      <4>1. buf'[s] = c
        BY <2>1, <3>1
      <4>2. buf[s].charged = buf[s].charged + 0
        BY <3>2
      <4>3. c.charged = buf[s].charged /\ c.live = buf[s].live
        BY <1>3
      <4> QED
        BY <4>1, <4>2, <4>3
    <3> QED
      BY <1>5, <2>1, <3>3, <3>4
  <2>3. CASE k > 0
    <3> DEFINE kept == IF Collides(c.texts, texts) THEN k - 1 ELSE k
    <3>1. c.name # NoName => c.lanes > 0
      BY <1>1, <1>3, Ground DEF PoolInv, NamedEmpty, Buf
    <3>2. Filled(c, n, k, texts).live = c.live /\ Filled(c, n, k, texts).charged = c.charged + kept
      <4>1. c.name \in {NoName, n} /\ RowsSound(c)
        BY <1>3, <1>4, <2>3
      <4> QED
        BY <1>5, <2>3, <3>1, <4>1, FilledSound
    <3>3. kept \in Nat /\ kept <= op[s].want
      BY <1>5, <2>3
    <3> HIDE DEF kept
    <3>4. bytes' = bytes - (op[s].want - kept)
      BY <1>4 DEF kept
    <3> QED
      BY <1>3, <2>1, <3>2, <3>3, <3>4
  <2> QED
    BY <1>5, <2>2, <2>3
<1>7. bytes \in Nat /\ Widest \in Nat /\ buf[s].charged \in Nat
  BY BytesNat DEF PoolInv, TypeOK, Buf
<1>8. /\ bytes' = bytes + (buf'[s].charged - buf[s].charged) + (Owes(Idle) - Owes(op[s]))
      /\ bytes' + Wants(Idle) <= bytes + Wants(op[s]) /\ Wants(Idle) <= Widest
  BY <1>5, <1>6, <1>7, IdleFacts
<1>9. buf'[s].live
  BY <1>1, <1>6 DEF PoolCounted, Settled
<1> QED
  BY <1>1, <1>6, <1>8, <1>9, IdleFacts, BufStep DEF Idle

LEMMA CombineCounts ==
  ASSUME PoolInv, PoolInv', PoolCounted, NEW s \in State, NEW r \in State, Combine(s, r)
  PROVE  PoolCounted'
<1>1. /\ op[s].pc = "idle" /\ buf[s].live /\ s \in Agent
      /\ UNCHANGED <<bytes, sessions, leaked>>
  BY DEF Combine, Quiet, Agent
<1>2. \A t \in State : buf'[t].charged = buf[t].charged /\ buf'[t].live = buf[t].live
  <2>1. PICK d \in Buf : /\ d = Adopted([buf[s] EXCEPT !.made = TRUE], buf[r])
                         /\ d.live = buf[s].live /\ d.charged = buf[s].charged
    <3> DEFINE e == [buf[s] EXCEPT !.made = TRUE]
    <3>1. buf[s] \in Buf /\ buf[r] \in Buf
      BY Ground
    <3>2. e \in Buf /\ e.live = buf[s].live /\ e.charged = buf[s].charged
      BY <3>1 DEF Buf
    <3> HIDE DEF e
    <3>3. /\ Adopted(e, buf[r]) \in Buf
          /\ Adopted(e, buf[r]).live = e.live /\ Adopted(e, buf[r]).charged = e.charged
      BY <3>1, <3>2 DEF Adopted, Buf
    <3> QED
      BY <3>2, <3>3 DEF e
  <2>2. \/ buf' = [buf EXCEPT ![s] = d]
        \/ buf' = [buf EXCEPT ![s] = [d EXCEPT !.texts = Noted(@, buf[r].texts)]]
        \/ buf' = [buf EXCEPT ![s] = Merged(d, buf[r])]
    BY <2>1 DEF Combine
  <2>3. Merged(d, buf[r]).live = d.live /\ Merged(d, buf[r]).charged = d.charged
    BY DEF Merged, Buf
  <2>4. LET e == [d EXCEPT !.texts = Noted(@, buf[r].texts)]
        IN  e.live = d.live /\ e.charged = d.charged
    BY DEF Buf
  <2>5. buf'[s].live = d.live /\ buf'[s].charged = d.charged
    BY <2>2, <2>3, <2>4 DEF PoolInv, TypeOK
  <2>6. \A t \in State : t # s => buf'[t] = buf[t]
    BY <2>2 DEF PoolInv, TypeOK
  <2> QED
    BY <2>1, <2>5, <2>6
<1>3. CASE UNCHANGED op
  BY <1>1, <1>2, <1>3, IdleCounts
<1>4. CASE ~UNCHANGED op
  <2> DEFINE x == [Idle EXCEPT !.pc = "combine", !.want = buf[r].lanes, !.src = r]
  <2>1. /\ op' = [op EXCEPT ![s] = x]
        /\ Fits(buf[r].lanes, buf[r].exact \/ buf[s].exact)
    BY <1>4 DEF Combine
  <2>2. buf[r].lanes \in Nat /\ (buf[r].exact \/ buf[s].exact) \in BOOLEAN
    BY Ground DEF Buf
  <2>3. x \in Op
    BY <2>2, BegunOp
  <2>4. Wants(x) = buf[r].lanes /\ Owes(x) = 0 /\ x.held = 0 /\ x.temp = 0
    BY <2>2 DEF Idle, Wants, Owes
  <2> HIDE DEF x
  <2> QED
    BY <1>1, <1>2, <2>1, <2>2, <2>3, <2>4, Reserves
<1> QED
  BY <1>3, <1>4

LEMMA CombineAddCounts ==
  ASSUME PoolInv, PoolInv', PoolCounted, NEW s \in State, CombineAdd(s)
  PROVE  PoolCounted'
<1>1. PICK r \in State : r = op[s].src /\ op[s].want = buf[r].lanes
  BY DEF PoolInv, CombineSound, CombineAdd
<1>2. /\ s \in Agent /\ op[s].pc = "combine" /\ bytes' = bytes + op[s].want
      /\ op' = [op EXCEPT ![s] = Idle] /\ UNCHANGED <<sessions, leaked>>
      /\ buf' = [buf EXCEPT ![s] = Joined(buf[s], buf[r])]
  BY <1>1 DEF CombineAdd, Agent
<1>3. buf[s] \in Buf /\ buf[r] \in Buf
  BY Ground
<1>4. /\ Joined(buf[s], buf[r]).charged = buf[s].charged + buf[r].lanes
      /\ Joined(buf[s], buf[r]).live = buf[s].live
  BY <1>3 DEF Joined, Buf
<1>5. /\ buf'[s].charged = buf[s].charged + buf[r].lanes /\ buf'[s].live = buf[s].live
      /\ \A t \in State : t # s => buf'[t] = buf[t]
  BY <1>2, <1>4 DEF PoolInv, TypeOK
<1>6. buf[s].charged \in Nat /\ buf[r].lanes \in Nat /\ bytes \in Nat /\ Widest \in Nat
  BY <1>3, BytesNat DEF Buf
<1>7. Owes(op[s]) = 0 /\ Wants(op[s]) = buf[r].lanes
  BY <1>1, <1>2, HeldFacts
<1>8. /\ bytes' = bytes + (buf'[s].charged - buf[s].charged) + (Owes(Idle) - Owes(op[s]))
      /\ bytes' + Wants(Idle) <= bytes + Wants(op[s]) /\ Wants(Idle) <= Widest
  BY <1>1, <1>2, <1>5, <1>6, <1>7, IdleFacts
<1>9. buf'[s].live
  BY <1>2, <1>5 DEF PoolCounted, Settled
<1> QED
  BY <1>2, <1>5, <1>8, <1>9, IdleFacts, BufStep DEF Idle

\* A throw in finalize gives back what the buffer was charged.
LEMMA ThrowCounts ==
  ASSUME PoolInv, PoolInv', PoolCounted, NEW s \in State, buf[s].live, op[s].pc = "idle",
         Throw(s), UNCHANGED <<op, sessions, leaked>>
  PROVE  PoolCounted'
<1>1. s \in Agent /\ op' = [op EXCEPT ![s] = op[s]] /\ op[s] \in Op /\ buf[s] \in Buf
  BY DEF Agent, PoolInv, TypeOK
<1>2. /\ bytes' = bytes - buf[s].charged
      /\ buf'[s] = Released(buf[s]) /\ \A t \in State : t # s => buf'[t] = buf[t]
  BY DEF Throw, PoolInv, TypeOK
<1>3. buf'[s].charged = 0 /\ buf'[s].live
  BY <1>2 DEF Released, NoBuf
<1>4. buf[s].charged \in Nat /\ bytes \in Nat /\ Widest \in Nat
  BY <1>1, BytesNat DEF Buf
<1>5. Owes(op[s]) = 0 /\ Wants(op[s]) = 0 /\ op[s].held = 0 /\ op[s].temp = 0
  BY <1>1, HeldFacts
<1>6. /\ bytes' = bytes + (buf'[s].charged - buf[s].charged) + (Owes(op[s]) - Owes(op[s]))
      /\ bytes' + Wants(op[s]) <= bytes + Wants(op[s]) /\ Wants(op[s]) <= Widest
  BY <1>2, <1>3, <1>4, <1>5
<1> QED
  BY <1>1, <1>2, <1>3, <1>5, <1>6, BufStep

LEMMA FindSessionCounts ==
  ASSUME PoolInv, PoolInv', PoolCounted, NEW s \in State, FindSession(s)
  PROVE  PoolCounted'
<1>1. op[s].pc = "idle" /\ buf[s].live /\ s \in Agent /\ UNCHANGED <<sessions, leaked>>
  BY DEF FindSession, Finalizing, Quiet, Agent
<1>2. CASE Throw(s) /\ UNCHANGED op
  BY <1>1, <1>2, ThrowCounts
<1>3. CASE ~(Throw(s) /\ UNCHANGED op)
  <2> DEFINE x == [Idle EXCEPT !.pc = "segment", !.want = buf[s].lanes]
  <2>1. /\ op' = [op EXCEPT ![s] = x] /\ buf' = [buf EXCEPT ![s].final = TRUE]
        /\ Fits(buf[s].lanes, IsExact(s)) /\ UNCHANGED bytes
    BY <1>3 DEF FindSession
  <2>2. buf[s].lanes \in Nat /\ IsExact(s) \in BOOLEAN
    BY Ground DEF Buf, IsExact
  <2>3. x \in Op
    BY <2>2, BegunOp
  <2>4. Wants(x) = buf[s].lanes /\ Owes(x) = 0 /\ x.held = 0 /\ x.temp = 0
    BY <2>2 DEF Idle, Wants, Owes
  <2>5. \A t \in State : buf'[t].charged = buf[t].charged /\ buf'[t].live = buf[t].live
    BY <2>1 DEF PoolInv, TypeOK, Buf
  <2> HIDE DEF x
  <2> QED
    BY <1>1, <2>1, <2>2, <2>3, <2>4, <2>5, Reserves
<1> QED
  BY <1>2, <1>3

\* The segment's bytes go to the session, or, when two texts hash alike, to
\* nobody: then the buffer gives its own back.
LEMMA AppendCounts ==
  ASSUME PoolInv, PoolInv', PoolCounted, NEW s \in State, AppendSegment(s)
  PROVE  PoolCounted'
<1> DEFINE n == buf[s].name
           collides == Collides(sessions[n].texts, buf[s].texts)
<1>1. /\ s \in Agent /\ op[s].pc = "segment" /\ op' = [op EXCEPT ![s] = Idle]
      /\ op[s].want = buf[s].lanes
  BY DEF AppendSegment, Agent, PoolInv, SegmentSound
<1>2. n \in Name /\ buf[s] \in Buf /\ buf[s].live
  <2>1. SegmentSound(s) /\ BufSound(s)
    BY DEF PoolInv
  <2> QED
    BY <1>1, <2>1, Ground DEF SegmentSound, BufSound, RowsSound, PoolCounted, Settled
<1>3. sessions[n] \in Session /\ sessions'[n] \in Session
  BY <1>2 DEF PoolInv, TypeOK
<1>4. sessions' = [sessions EXCEPT ![n] = sessions'[n]]
  <2>1. PICK y : sessions' = [sessions EXCEPT ![n] = y]
    BY DEF AppendSegment
  <2>2. sessions' = [m \in Name |-> IF m = n THEN y ELSE sessions[m]]
    BY <2>1 DEF PoolInv, TypeOK
  <2> QED
    BY <1>2, <2>2 DEF PoolInv, TypeOK
<1>5. /\ IsFiniteSet(Rows(ChargedSessions'))
      /\ Total(ChargedSessions) \in Nat /\ Total(ChargedSessions') \in Nat
      /\ Total(ChargedSessions') = Total(ChargedSessions) + sessions'[n].charged - sessions[n].charged
  BY <1>2, <1>3, <1>4, SessionTo
<1>6. /\ Owes(op[s]) = 0 /\ Wants(op[s]) = op[s].want /\ op[s].want \in Nat
      /\ bytes \in Nat /\ Widest \in Nat /\ leaked \in Nat
      /\ sessions[n].charged \in Nat /\ buf[s].charged \in Nat
  BY <1>1, <1>2, <1>3, HeldFacts, BytesNat DEF PoolInv, TypeOK, Buf, Session
<1>7. Wants(Idle) <= Widest
  BY <1>6, IdleFacts
<1>8. CASE collides
  <2>1. /\ bytes' = bytes + op[s].want - buf[s].charged /\ leaked' = leaked + op[s].want
        /\ buf' = [buf EXCEPT ![s] = Released(buf[s])]
        /\ sessions' = [sessions EXCEPT ![n] = [sessions[n] EXCEPT !.kind = KindOf[StmtOf[s]],
                                                         !.texts = Noted(@, buf[s].texts)]]
    BY <1>8 DEF AppendSegment
  <2>2. sessions'[n].charged = sessions[n].charged
    BY <1>2, <1>3, <2>1 DEF PoolInv, TypeOK, Session
  <2>3. Released(buf[s]) \in Buf /\ Released(buf[s]).charged = 0 /\ Released(buf[s]).live
    BY <1>2, ReleasedFacts DEF Released, NoBuf
  <2>4. /\ Total(ChargedBufs) \in Nat /\ Total(ChargedBufs') \in Nat
        /\ Total(ChargedBufs') = Total(ChargedBufs) + 0 - buf[s].charged
    BY <2>1, <2>3, BufTo
  <2>5. /\ bytes' = bytes + (Total(ChargedBufs') - Total(ChargedBufs))
                          + (Total(ChargedSessions') - Total(ChargedSessions))
                          + (Owes(Idle) - Owes(op[s])) + (leaked' - leaked)
        /\ bytes' + Wants(Idle) <= bytes + Wants(op[s]) /\ leaked' \in Nat
    BY <1>5, <1>6, <2>1, <2>2, <2>4, IdleFacts
  <2>6. \A t \in State : t # s => buf'[t] = buf[t]
    BY <2>1 DEF PoolInv, TypeOK
  <2>7. buf'[s].live
    BY <2>1, <2>3 DEF PoolInv, TypeOK
  <2>8. Settled'
    BY <1>1, <2>6, <2>7, IdleFacts, SettledStep DEF Idle
  <2> QED
    BY <1>1, <1>5, <1>7, <2>4, <2>5, <2>8, IdleFacts, CallStep
<1>9. CASE ~collides
  <2>1. /\ bytes' = bytes + op[s].want /\ leaked' = leaked /\ buf' = buf
        /\ sessions'[n].charged = sessions[n].charged + op[s].want
    <3>1. PICK e \in Session : /\ e = [sessions[n] EXCEPT !.kind = KindOf[StmtOf[s]],
                                                         !.texts = Noted(@, buf[s].texts)]
                               /\ e.charged = sessions[n].charged
      <4> DEFINE e == [sessions[n] EXCEPT !.kind = KindOf[StmtOf[s]], !.texts = Noted(@, buf[s].texts)]
      <4>1. KindOf[StmtOf[s]] \in Kind /\ Noted(sessions[n].texts, buf[s].texts) \in SUBSET Text
        BY <1>2, <1>3, Ground, NotedFacts DEF Buf, Session
      <4>2. e \in Session /\ e.charged = sessions[n].charged
        BY <1>3, <4>1 DEF Session
      <4> QED
        BY <4>2
    <3>2. sessions'[n] = [e EXCEPT !.charged = @ + op[s].want, !.lanes = @ + buf[s].lanes,
                                   !.segments = @ + 1, !.from = @ \cup buf[s].from]
      BY <1>2, <1>9, <3>1 DEF AppendSegment, PoolInv, TypeOK
    <3>3. sessions'[n].charged = sessions[n].charged + op[s].want
      BY <3>1, <3>2 DEF Session
    <3> QED
      BY <1>9, <3>3 DEF AppendSegment
  <2>2. Total(ChargedBufs) \in Nat /\ Total(ChargedBufs') = Total(ChargedBufs)
    BY <2>1, BufKept
  <2>3. /\ bytes' = bytes + (Total(ChargedBufs') - Total(ChargedBufs))
                          + (Total(ChargedSessions') - Total(ChargedSessions))
                          + (Owes(Idle) - Owes(op[s])) + (leaked' - leaked)
        /\ bytes' + Wants(Idle) <= bytes + Wants(op[s]) /\ leaked' \in Nat
        /\ Total(ChargedBufs') \in Nat
    BY <1>5, <1>6, <2>1, <2>2, IdleFacts
  <2>4. Settled'
    BY <1>1, <2>1, IdleFacts, SettledStep DEF Idle
  <2> QED
    BY <1>1, <1>5, <1>7, <2>2, <2>3, <2>4, IdleFacts, CallStep
<1> QED
  BY <1>8, <1>9

LEMMA UploadCounts ==
  ASSUME PoolInv, PoolInv', PoolCounted, NEW s \in State, Upload(s)
  PROVE  PoolCounted'
<1> DEFINE x == [Idle EXCEPT !.pc = "device", !.kind = KindOf[StmtOf[s]]]
<1>1. /\ s \in Agent /\ op[s].pc = "idle" /\ buf[s].live /\ op' = [op EXCEPT ![s] = x]
      /\ buf' = [buf EXCEPT ![s].final = TRUE] /\ UNCHANGED <<bytes, sessions, leaked>>
  BY DEF Upload, Finalizing, Quiet, Agent
<1>2. x \in Op
  BY <1>1, BegunOp, Ground
<1>3. Wants(x) = 0 /\ Owes(x) = 0 /\ x.pc = "device"
  BY DEF Idle, Wants, Owes
<1>4. \A t \in State : buf'[t].charged = buf[t].charged /\ buf'[t].live = buf[t].live
  BY <1>1 DEF PoolInv, TypeOK, Buf
<1>5. /\ Owes(op[s]) = 0 /\ Wants(op[s]) = 0 /\ bytes \in Nat /\ Widest \in Nat
  BY <1>1, HeldFacts, BytesNat
<1>6. /\ bytes' = bytes + (Owes(x) - Owes(op[s])) /\ Wants(x) <= Widest
      /\ bytes' + Wants(x) <= bytes + Wants(op[s])
  BY <1>1, <1>3, <1>5
<1> HIDE DEF x
<1> QED
  BY <1>1, <1>2, <1>3, <1>4, <1>6, AgentStep

LEMMA DestroyCounts ==
  ASSUME PoolInv, PoolInv', PoolCounted, NEW s \in State, Destroy(s)
  PROVE  PoolCounted'
<1>1. /\ s \in Agent /\ op[s].pc = "idle" /\ op' = [op EXCEPT ![s] = op[s]]
      /\ op[s] \in Op /\ buf[s] \in Buf /\ UNCHANGED <<sessions, leaked>>
      /\ bytes' = bytes - buf[s].charged
  BY DEF Destroy, Quiet, Agent, PoolInv, TypeOK
<1>2. /\ buf'[s] = [NoBuf EXCEPT !.live = FALSE]
      /\ \A t \in State : t # s => buf'[t] = buf[t]
  BY DEF Destroy, PoolInv, TypeOK
<1>3. buf'[s].charged = 0
  BY <1>2 DEF NoBuf
<1>4. buf[s].charged \in Nat /\ bytes \in Nat /\ Widest \in Nat
  BY <1>1, BytesNat DEF Buf
<1>5. Owes(op[s]) = 0 /\ Wants(op[s]) = 0 /\ op[s].held = 0 /\ op[s].temp = 0
  BY <1>1, HeldFacts
<1>6. /\ bytes' = bytes + (buf'[s].charged - buf[s].charged) + (Owes(op[s]) - Owes(op[s]))
      /\ bytes' + Wants(op[s]) <= bytes + Wants(op[s]) /\ Wants(op[s]) <= Widest
  BY <1>1, <1>3, <1>4, <1>5
<1> QED
  BY <1>1, <1>2, <1>3, <1>5, <1>6, BufStep

LEMMA StatementCounts ==
  ASSUME PoolInv, PoolCounted, NEW q \in Stmt, EndOfInput(q) \/ NewStatement(q)
  PROVE  PoolCounted'
<1>1. CASE EndOfInput(q)
  <2>1. UNCHANGED <<op, bytes, sessions, leaked, buf>>
    BY <1>1 DEF EndOfInput
  <2> QED
    BY <2>1, IdleCounts
<1>2. CASE NewStatement(q)
  <2>1. UNCHANGED <<op, bytes, sessions, leaked>>
    BY <1>2 DEF NewStatement
  <2>2. ASSUME NEW s \in State
        PROVE  buf'[s].charged = buf[s].charged /\ (buf'[s].live = buf[s].live \/ buf'[s].live)
    <3>1. CASE StmtOf[s] = q
      <4>1. buf'[s] = NoBuf /\ ~buf[s].live
        BY <1>2, <3>1 DEF NewStatement
      <4> QED
        BY <4>1 DEF NoBuf, PoolCounted, Settled
    <3>2. CASE StmtOf[s] # q
      BY <1>2, <3>2 DEF NewStatement
    <3> QED
      BY <3>1, <3>2
  <2> QED
    BY <2>1, <2>2, IdleCounts
<1> QED
  BY <1>1, <1>2

\* The end of the device work gives back the temporaries, the charge of a
\* session, and after a throw that of the state's buffer.
LEMMA DeviceEndsCounts ==
  ASSUME PoolInv, PoolInv', PoolCounted, NEW a \in Agent, NEW failed \in BOOLEAN,
         op[a].pc = "device", DeviceEnds(a, failed), UNCHANGED <<sessions, leaked>>
  PROVE  PoolCounted'
<1>1. /\ op' = [op EXCEPT ![a] = Idle] /\ op[a].held \in Nat /\ op[a].temp \in Nat
      /\ Owes(op[a]) = op[a].held + op[a].temp /\ Wants(op[a]) = 0
      /\ bytes \in Nat /\ Widest \in Nat
  BY HeldFacts, BytesNat DEF DeviceEnds
<1>2. CASE a \in State /\ failed
  <2>1. /\ bytes' = bytes - op[a].temp - op[a].held - buf[a].charged
        /\ buf'[a] = Released(buf[a]) /\ \A t \in State : t # a => buf'[t] = buf[t]
    BY <1>2 DEF DeviceEnds, SessionCharge, PoolInv, TypeOK
  <2>2. buf'[a].charged = 0 /\ buf'[a].live /\ buf[a].charged \in Nat
    BY <1>2, <2>1 DEF Released, NoBuf, PoolInv, TypeOK, Buf
  <2>3. /\ bytes' = bytes + (buf'[a].charged - buf[a].charged) + (Owes(Idle) - Owes(op[a]))
        /\ bytes' + Wants(Idle) <= bytes + Wants(op[a]) /\ Wants(Idle) <= Widest
    BY <1>1, <2>1, <2>2, IdleFacts
  <2> QED
    BY <1>1, <1>2, <2>1, <2>2, <2>3, IdleFacts, BufStep DEF Idle
<1>3. CASE ~(a \in State /\ failed)
  <2>1. bytes' = bytes - op[a].temp - op[a].held - 0 /\ UNCHANGED buf
    BY <1>3 DEF DeviceEnds, SessionCharge
  <2>2. /\ bytes' = bytes + (Owes(Idle) - Owes(op[a]))
        /\ bytes' + Wants(Idle) <= bytes + Wants(op[a]) /\ Wants(Idle) <= Widest
    BY <1>1, <2>1, IdleFacts
  <2> QED
    BY <1>1, <2>1, <2>2, IdleFacts, AgentStep DEF Idle
<1> QED
  BY <1>2, <1>3

LEMMA DeviceCounts ==
  ASSUME PoolInv, PoolInv', PoolCounted, NEW a \in Agent,
         Borrow(a) \/ BorrowAdd(a) \/ Give(a) \/ Device(a)
  PROVE  PoolCounted'
<1>1. /\ op[a].pc \in {"device", "borrow"} /\ UNCHANGED <<sessions, leaked>>
      /\ a \in State => buf[a].live
  BY DEF Borrow, BorrowAdd, Give, Device, PoolCounted, Settled
<1>2. /\ op[a] \in Op /\ op[a].held \in Nat /\ op[a].temp \in Nat /\ op[a].want \in Nat
      /\ Owes(op[a]) = op[a].held + op[a].temp /\ bytes \in Nat /\ Widest \in Nat
  BY <1>1, HeldFacts, BytesNat
<1>3. \A x \in Op : op' = [op EXCEPT ![a] = x] => op'[a] = x
  BY DEF PoolInv, TypeOK
<1>4. CASE \E failed \in BOOLEAN : op[a].pc = "device" /\ DeviceEnds(a, failed)
  BY <1>1, <1>4, DeviceEndsCounts
<1>5. CASE Borrow(a) /\ ~(\E failed \in BOOLEAN : op[a].pc = "device" /\ DeviceEnds(a, failed))
  <2> DEFINE x == [op[a] EXCEPT !.pc = "borrow", !.want = Held(a)]
  <2>1. /\ op[a].pc = "device" /\ Fits(Held(a), TRUE) /\ op' = [op EXCEPT ![a] = x]
        /\ UNCHANGED <<bytes, buf>>
    BY <1>5 DEF Borrow, PoolInv, TypeOK
  <2>2. Held(a) \in Nat
    BY <1>2, Ground DEF Held, Buf
  <2>3. /\ x \in Op /\ x.pc = "borrow" /\ x.want = Held(a)
        /\ x.held = op[a].held /\ x.temp = op[a].temp
    BY <1>2, <2>2 DEF Op
  <2>4. Owes(x) = op[a].held + op[a].temp /\ Wants(x) = Held(a) /\ Wants(op[a]) = 0
    BY <1>2, <2>1, <2>3 DEF Owes, Wants
  <2>5. Held(a) = 0 \/ bytes + Held(a) <= Widest
    BY <2>1, <2>2, FitsFacts
  <2>6. /\ bytes' = bytes + (Owes(x) - Owes(op[a])) /\ Wants(x) <= Widest
        /\ bytes' + Wants(x) <= bytes + Wants(op[a]) \/ bytes' + Wants(x) <= Widest
    BY <1>2, <2>1, <2>2, <2>4, <2>5
  <2> HIDE DEF x
  <2> QED
    BY <1>1, <2>1, <2>3, <2>6, AgentStep
<1>6. CASE BorrowAdd(a)
  <2> DEFINE x == [op[a] EXCEPT !.pc = "device", !.temp = @ + op[a].want, !.want = 0]
  <2>1. /\ op[a].pc = "borrow" /\ bytes' = bytes + op[a].want /\ op' = [op EXCEPT ![a] = x]
        /\ UNCHANGED buf
    BY <1>6 DEF BorrowAdd, PoolInv, TypeOK
  <2>2. /\ x \in Op /\ x.pc = "device" /\ x.held = op[a].held /\ x.temp = op[a].temp + op[a].want
    <3>1. PICK v \in Nat : v = op[a].temp + op[a].want
      BY <1>2
    <3>2. x = [op[a] EXCEPT !.pc = "device", !.temp = v, !.want = 0]
      BY <1>2, <3>1 DEF Op
    <3> QED
      BY <1>2, <3>1, <3>2 DEF Op
  <2>3. /\ Owes(x) = op[a].held + op[a].temp + op[a].want
        /\ Wants(x) = 0 /\ Wants(op[a]) = op[a].want
    BY <1>2, <2>1, <2>2 DEF Owes, Wants
  <2>4. /\ bytes' = bytes + (Owes(x) - Owes(op[a])) /\ Wants(x) <= Widest
        /\ bytes' + Wants(x) <= bytes + Wants(op[a])
    BY <1>2, <2>1, <2>3
  <2> HIDE DEF x
  <2> QED
    BY <1>1, <2>1, <2>2, <2>4, AgentStep
<1>7. CASE Give(a)
  <2>1. PICK n \in 1..op[a].temp :
           bytes' = bytes - n /\ op' = [op EXCEPT ![a] = [op[a] EXCEPT !.temp = @ - n]]
    BY <1>7 DEF Give, PoolInv, TypeOK
  <2> DEFINE x == [op[a] EXCEPT !.temp = @ - n]
  <2>2. op[a].pc = "device" /\ UNCHANGED buf /\ n \in Nat /\ op[a].temp - n \in Nat
    BY <1>2, <1>7, <2>1 DEF Give
  <2>3. x \in Op /\ x.pc = "device" /\ x.held = op[a].held /\ x.temp = op[a].temp - n
    BY <1>2, <2>2 DEF Op
  <2>4. Owes(x) = op[a].held + (op[a].temp - n) /\ Wants(x) = 0 /\ Wants(op[a]) = 0
    BY <1>2, <2>2, <2>3 DEF Owes, Wants
  <2>5. /\ bytes' = bytes + (Owes(x) - Owes(op[a])) /\ Wants(x) <= Widest
        /\ bytes' + Wants(x) <= bytes + Wants(op[a])
    BY <1>2, <2>1, <2>2, <2>4
  <2> HIDE DEF x
  <2>6. op' = [op EXCEPT ![a] = x]
    BY <2>1 DEF x
  <2> QED
    BY <1>1, <2>2, <2>3, <2>5, <2>6, AgentStep
<1> QED
  BY <1>4, <1>5, <1>6, <1>7 DEF Device

\* A session that goes away gives its charge back.
LEMMA EmptySessionCounts ==
  ASSUME PoolInv, PoolInv', PoolCounted, NEW n \in Name, Begin(n) \/ Abort(n) \/ Invalidate(n)
  PROVE  PoolCounted'
<1>1. /\ bytes' = bytes - sessions[n].charged /\ UNCHANGED <<op, buf, leaked>>
      /\ sessions' = [sessions EXCEPT ![n] = sessions'[n]] /\ sessions'[n].charged = 0
      /\ sessions'[n] \in Session
  BY DEF Begin, Abort, Invalidate, NoSession, PoolInv, TypeOK
<1>2. sessions[n].charged \in Nat /\ bytes \in Nat
  BY BytesNat DEF PoolInv, TypeOK, Session
<1>3. /\ IsFiniteSet(Rows(ChargedSessions'))
      /\ Total(ChargedSessions) \in Nat /\ Total(ChargedSessions') \in Nat
      /\ Total(ChargedSessions') = Total(ChargedSessions) + 0 - sessions[n].charged
  BY <1>1, SessionTo
<1>4. Total(ChargedBufs) \in Nat /\ Total(ChargedBufs') = Total(ChargedBufs)
  BY <1>1, BufKept
<1>5. /\ bytes' = bytes + (Total(ChargedBufs') - Total(ChargedBufs))
                        + (Total(ChargedSessions') - Total(ChargedSessions))
      /\ bytes' <= bytes /\ Total(ChargedBufs') \in Nat
  BY <1>1, <1>2, <1>3, <1>4
<1>6. Settled'
  BY <1>1 DEF PoolCounted, Settled
<1> QED
  BY <1>1, <1>3, <1>4, <1>5, <1>6, ReleaseStep

\* finish holds the charge of the session it takes.
LEMMA FinishCounts ==
  ASSUME PoolInv, PoolInv', PoolCounted, NEW f \in Finisher, NEW n \in Name, Finish(f, n)
  PROVE  PoolCounted'
<1>1. /\ f \in Agent /\ f \notin State /\ op[f].pc = "idle" /\ UNCHANGED <<buf, leaked>>
      /\ sessions' = [sessions EXCEPT ![n] = NoSession]
  BY PoolAssumption DEF Finish, Agent
<1>2. NoSession \in Session /\ NoSession.charged = 0
  BY Initials DEF NoSession
<1>3. /\ sessions[n] \in Session /\ sessions[n].charged \in Nat
      /\ bytes \in Nat /\ Widest \in Nat /\ leaked \in Nat
  BY BytesNat DEF PoolInv, TypeOK, Session
<1>4. /\ IsFiniteSet(Rows(ChargedSessions'))
      /\ Total(ChargedSessions) \in Nat /\ Total(ChargedSessions') \in Nat
      /\ Total(ChargedSessions') = Total(ChargedSessions) + NoSession.charged - sessions[n].charged
  BY <1>1, <1>2, SessionTo
<1>5. Total(ChargedBufs) \in Nat /\ Total(ChargedBufs') = Total(ChargedBufs)
  BY <1>1, BufKept
<1>6. CASE sessions[n].lanes = 0
  <2>1. bytes' = bytes - sessions[n].charged /\ UNCHANGED op
    BY <1>6 DEF Finish
  <2>2. /\ bytes' = bytes + (Total(ChargedBufs') - Total(ChargedBufs))
                          + (Total(ChargedSessions') - Total(ChargedSessions))
        /\ bytes' <= bytes /\ Total(ChargedBufs') \in Nat
    BY <1>2, <1>3, <1>4, <1>5, <2>1
  <2>3. Settled'
    BY <1>1, <2>1 DEF PoolCounted, Settled
  <2> QED
    BY <1>1, <1>4, <1>5, <2>1, <2>2, <2>3, ReleaseStep
<1>7. CASE sessions[n].lanes # 0
  <2> DEFINE x == [Idle EXCEPT !.pc = "device", !.held = sessions[n].charged,
                               !.kind = sessions[n].kind]
  <2>1. bytes' = bytes /\ op' = [op EXCEPT ![f] = x]
    BY <1>7 DEF Finish
  <2>2. x \in Op /\ x.pc = "device" /\ x.held = sessions[n].charged /\ x.temp = 0
    <3>1. op' \in [Agent -> Op] /\ op'[f] = x
      BY <1>1, <2>1 DEF PoolInv, TypeOK
    <3> QED
      BY <1>1, <3>1 DEF Idle
  <2>3. /\ Owes(x) = sessions[n].charged /\ Wants(x) = 0
        /\ Owes(op[f]) = 0 /\ Wants(op[f]) = 0
    BY <1>1, <1>3, <2>2, HeldFacts DEF Owes, Wants
  <2> HIDE DEF x
  <2>4. /\ bytes' = bytes + (Total(ChargedBufs') - Total(ChargedBufs))
                          + (Total(ChargedSessions') - Total(ChargedSessions))
                          + (Owes(x) - Owes(op[f])) + (leaked' - leaked)
        /\ bytes' + Wants(x) <= bytes + Wants(op[f]) /\ Wants(x) <= Widest
        /\ Total(ChargedBufs') \in Nat /\ leaked' \in Nat
    BY <1>1, <1>2, <1>3, <1>4, <1>5, <2>1, <2>3
  <2>5. Settled'
    BY <1>1, <2>1, <2>2, SettledStep
  <2> QED
    BY <1>1, <1>4, <1>5, <2>1, <2>2, <2>4, <2>5, CallStep
<1> QED
  BY <1>6, <1>7

-----------------------------------------------------------------------------
(* The theorems *)

LEMMA InitCounts == Init => PoolCounted
<1> SUFFICES ASSUME Init PROVE PoolCounted
  OBVIOUS
<1>1. /\ ChargedBufs = [s \in State |-> 0] /\ ChargedSessions = [n \in Name |-> 0]
      /\ Outstanding = [a \in Agent |-> 0] /\ Pending = [a \in Agent |-> 0]
  BY IdleFacts DEF Init, ChargedBufs, ChargedSessions, Outstanding, Pending, NoBuf, NoSession
<1>2. /\ Total(ChargedBufs) = 0 /\ Total(ChargedSessions) = 0 /\ IsFiniteSet(Rows(ChargedSessions))
      /\ Total(Outstanding) = 0 /\ Total(Pending) = 0
  BY <1>1, TotalZero
<1>3. Settled
  BY DEF Init, Settled, Idle, NoBuf
<1>4. PoolBalanced
  BY <1>2 DEF Init, PoolBalanced
<1>5. OvershootBounded
  <2>1. Widest \in Nat /\ Cardinality(Agent) \in Nat
    BY PoolAssumption, WidestCap, FS_CardinalityType
  <2>2. Widest * Cardinality(Agent) \in Nat
    BY <2>1
  <2> QED
    BY <1>2, <2>2 DEF Init, OvershootBounded
<1>6. \A a \in Agent : Wants(op[a]) <= Widest
  BY IdleFacts, PoolAssumption, WidestCap DEF Init
<1> QED
  BY <1>2, <1>3, <1>4, <1>5, <1>6 DEF PoolCounted

LEMMA NextCounts == PoolInv /\ PoolInv' /\ PoolCounted /\ [Next]_vars => PoolCounted'
<1> SUFFICES ASSUME PoolInv, PoolInv', PoolCounted, [Next]_vars PROVE PoolCounted'
  OBVIOUS
<1>1. ASSUME NEW s \in State, Update(s) \/ UpdateAdd(s) \/ Fill(s) PROVE PoolCounted'
  BY <1>1, UpdateCounts, UpdateAddCounts, FillCounts
<1>2. ASSUME NEW s \in State, NEW r \in State, Combine(s, r) PROVE PoolCounted'
  BY <1>2, CombineCounts
<1>3. ASSUME NEW s \in State, CombineAdd(s) \/ FindSession(s) \/ AppendSegment(s)
      PROVE PoolCounted'
  BY <1>3, CombineAddCounts, FindSessionCounts, AppendCounts
<1>4. ASSUME NEW s \in State, Upload(s) \/ Destroy(s) PROVE PoolCounted'
  BY <1>4, UploadCounts, DestroyCounts
<1>5. ASSUME NEW q \in Stmt, EndOfInput(q) \/ NewStatement(q) PROVE PoolCounted'
  BY <1>5, StatementCounts
<1>6. ASSUME NEW a \in Agent, Borrow(a) \/ BorrowAdd(a) \/ Give(a) \/ Device(a) PROVE PoolCounted'
  BY <1>6, DeviceCounts
<1>7. ASSUME NEW n \in Name, Begin(n) \/ Abort(n) \/ Invalidate(n) PROVE PoolCounted'
  BY <1>7, EmptySessionCounts
<1>8. ASSUME NEW f \in Finisher, NEW n \in Name, Finish(f, n) PROVE PoolCounted'
  BY <1>8, FinishCounts
<1>9. CASE UNCHANGED vars
  BY <1>9, IdleCounts DEF vars
<1> QED
  BY <1>1, <1>2, <1>3, <1>4, <1>5, <1>6, <1>7, <1>8, <1>9 DEF Next

\* The count of the pool is that of the buffers, the sessions and the
\* reservations in flight, and what is leaked.
THEOREM PoolBalances == Spec => []PoolBalanced
<1>1. PoolCounted => PoolBalanced
  BY DEF PoolCounted
<1> QED
  BY <1>1, PoolSound, InitCounts, NextCounts, PTL DEF Spec

\* n threads never count, or are about to count, more than n times the cap.
THEOREM OvershootIsBounded == Spec => []OvershootBounded
<1>1. PoolCounted => OvershootBounded
  BY DEF PoolCounted
<1> QED
  BY <1>1, PoolSound, InitCounts, NextCounts, PTL DEF Spec

\* The count is unsigned in the code: no order of releases takes it below zero.
THEOREM NeverBelowZero == Spec => [](bytes \in Nat)
<1>1. PoolInv /\ PoolCounted => bytes \in Nat
  BY BytesNat
<1> QED
  BY <1>1, PoolSound, InitCounts, NextCounts, PTL DEF Spec
=============================================================================
