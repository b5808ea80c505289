-------------------------- MODULE ResidentCallProofs --------------------------
(***************************************************************************)
(* Two inductive invariants of ResidentCall, for every number of callers   *)
(* and whatever the functions compute.  CallInv: the protocol of the locks *)
(* and of the planner's last decision.  AnswerInv: from the operator's     *)
(* return to the last chunk the answer stays what the operator gave, and   *)
(* what was handed out is its beginning.                                   *)
(***************************************************************************)
EXTENDS ResidentCall, SequenceTheorems, TLAPS

\* A step of one caller leaves what it does not own alone.
Others(c) ==
    \A d \in Callers \ {c} :
        pc'[d] = pc[d] /\ todo'[d] = todo[d] /\ res'[d] = res[d] /\ noted'[d] = noted[d]

LEMMA MutexIsOne == ASSUME NEW s PROVE MutexOf(s) \in Mutexes
BY DEF MutexOf, Mutexes

\* Two callers inside an operator never hold the same mutex.
LEMMA Exclusion ==
  ASSUME CallInv, NEW c \in Callers, NEW d \in Callers, c # d,
         pc[c] \in {"inside", "ran"}, pc[d] \in {"inside", "ran"}, Locks(Stmt(c)), Locks(Stmt(d))
  PROVE  MutexOf(Stmt(c)) # MutexOf(Stmt(d))
BY DEF CallInv, InsideLocked

\* A call whose backend ran and reports its decision holds the device lock, so
\* another caller that is inside runs a list join.
LEMMA RanHoldsDevice ==
  ASSUME CallInv, NEW c \in Callers, NEW d \in Callers, c # d,
         pc[c] = "inside", Locks(Stmt(c)), pc[d] = "ran", res[d].ran # NoDecision
  PROVE  Stmt(c).op = "inner"
<1>1. Stmt(d).op \notin Silent
  BY DEF CallInv, RanIsLast
<1>2. MutexOf(Stmt(d)) = "device" /\ Locks(Stmt(d))
  BY <1>1 DEF MutexOf, Locks, Silent
<1>3. MutexOf(Stmt(c)) # "device"
  BY <1>2, Exclusion
<1> QED
  BY <1>3 DEF MutexOf

\* A caller that is given up leaves no obligation behind; every other caller
\* keeps its mutex if the one released was the caller's own.
LEMMA FailsKeeps ==
  ASSUME CallInv, NEW c \in Callers, Fails(c), last' = last,
         \/ lock' = lock
         \/ pc[c] \in {"inside", "ran"} /\ lock' = Unlocked(c)
  PROVE  CallInv'
<1> USE DEF CallInv, Fails
<1>1. CallTypes'
  BY MutexIsOne DEF CallTypes, Unlocked
<1>2. Others(c) /\ pc'[c] = "idle"
  BY DEF CallTypes, Others
<1>3. InsideLocked'
  <2> SUFFICES ASSUME NEW d \in Callers, pc'[d] \in {"inside", "ran"}, Locks(Stmt(d))'
               PROVE  (lock[MutexOf(Stmt(d))] = d)'
    BY DEF InsideLocked
  <2>1. d # c /\ pc[d] \in {"inside", "ran"} /\ Stmt(d)' = Stmt(d)
    BY <1>2 DEF Others, Stmt
  <2>2. Locks(Stmt(d)) /\ lock[MutexOf(Stmt(d))] = d
    BY <2>1 DEF InsideLocked, Locks
  <2>3. lock'[MutexOf(Stmt(d))] = lock[MutexOf(Stmt(d))]
    <3>1. lock' = lock \/ (Locks(Stmt(c)) /\ lock' = [lock EXCEPT ![MutexOf(Stmt(c))] = NoCaller] /\ pc[c] \in {"inside", "ran"})
      BY DEF Unlocked
    <3> QED
      BY <2>1, <2>2, <3>1, Exclusion, MutexIsOne DEF CallTypes
  <2>4. MutexOf(Stmt(d))' = MutexOf(Stmt(d))
    BY <2>1 DEF MutexOf
  <2> QED
    BY <2>2, <2>3, <2>4
<1>4. RanIsLast'
  BY <1>2 DEF RanIsLast, Others, Stmt
<1>5. DecisionTrue'
  BY <1>2 DEF DecisionTrue, Others
<1> QED
  BY <1>1, <1>3, <1>4, <1>5

\* A step that touches neither locks nor decisions and ends outside.
LEMMA OutsideKeeps ==
  ASSUME CallInv, NEW c \in Callers, CallTypes', Others(c), lock' = lock, last' = last,
         pc'[c] \in {"idle", "bound", "ready"}
  PROVE  CallInv'
<1> USE DEF CallInv
<1>1. InsideLocked'
  BY DEF InsideLocked, Others, Stmt, MutexOf, Locks
<1>2. RanIsLast'
  BY DEF RanIsLast, Others, Stmt
<1>3. DecisionTrue'
  BY DEF DecisionTrue, Others
<1> QED
  BY <1>1, <1>2, <1>3

LEMMA BindKeeps ==
  ASSUME CallInv, NEW c \in Callers, Bind(c)
  PROVE  CallInv'
<1>1. CASE Fails(c)
  BY <1>1, FailsKeeps DEF Bind
<1>2. CASE ~Fails(c)
  <2>1. CallTypes' /\ Others(c) /\ pc'[c] = "bound" /\ lock' = lock /\ last' = last
    BY <1>2 DEF Bind, CallInv, CallTypes, Others
  <2> QED
    BY <2>1, OutsideKeeps
<1> QED
  BY <1>1, <1>2

LEMMA AcquireKeeps ==
  ASSUME CallInv, NEW c \in Callers, Acquire(c)
  PROVE  CallInv'
<1>1. CASE Fails(c)
  BY <1>1, FailsKeeps DEF Acquire
<1>2. CASE ~Fails(c)
  <2>1. CallTypes' /\ Others(c) /\ pc'[c] = "ready" /\ lock' = lock /\ last' = last
    BY <1>2 DEF Acquire, CallInv, CallTypes, Others
  <2> QED
    BY <2>1, OutsideKeeps
<1> QED
  BY <1>1, <1>2

\* The mutex a caller enters was nobody's.
LEMMA EnterKeeps ==
  ASSUME CallInv, NEW c \in Callers, Enter(c)
  PROVE  CallInv'
<1> USE DEF CallInv, Enter
<1>1. CallTypes'
  BY MutexIsOne DEF CallTypes, Locked
<1>2. Others(c) /\ pc'[c] = "inside"
  BY DEF CallTypes, Others
<1>3. InsideLocked'
  <2> SUFFICES ASSUME NEW d \in Callers, pc'[d] \in {"inside", "ran"}, Locks(Stmt(d))'
               PROVE  (lock[MutexOf(Stmt(d))] = d)'
    BY DEF InsideLocked
  <2>1. MutexOf(Stmt(d))' = MutexOf(Stmt(d)) /\ Locks(Stmt(d))
    BY DEF Stmt, MutexOf, Locks
  <2>2. CASE d = c
    BY <2>1, <2>2, MutexIsOne DEF CallTypes, Locked
  <2>3. CASE d # c
    <3>1. lock[MutexOf(Stmt(d))] = d
      BY <1>2, <2>1, <2>3 DEF InsideLocked, Others
    <3>2. Locks(Stmt(c)) => MutexOf(Stmt(d)) # MutexOf(Stmt(c))
      BY <3>1, CallAssumption
    <3> QED
      BY <2>1, <3>1, <3>2, MutexIsOne DEF CallTypes, Locked
  <2> QED
    BY <2>2, <2>3
<1>4. RanIsLast'
  BY <1>2 DEF RanIsLast, Others, Stmt
<1>5. DecisionTrue'
  BY <1>2 DEF DecisionTrue, Others
<1> QED
  BY <1>1, <1>3, <1>4, <1>5

LEMMA UploadKeeps ==
  ASSUME CallInv, NEW c \in Callers, Upload(c)
  PROVE  CallInv'
<1>1. CASE Fails(c)
  BY <1>1, FailsKeeps DEF Upload
<1>2. CASE ~Fails(c)
  <2> USE DEF CallInv
  <2>1. /\ pc[c] = "inside" /\ pc' = [pc EXCEPT ![c] = "ran"] /\ UNCHANGED <<lock, last, todo, noted>>
        /\ res' = [res EXCEPT ![c] = Result(StoreFn(gpu, Stmt(c)), NoDecision)]
    BY <1>2 DEF Upload
  <2>2. CallTypes'
    BY <2>1 DEF CallTypes
  <2>3. Others(c) /\ pc'[c] = "ran" /\ res'[c].ran = NoDecision
    BY <2>1 DEF CallTypes, Others, Result
  <2>4. InsideLocked'
    BY <2>1, <2>3 DEF InsideLocked, Others, Stmt, MutexOf, Locks
  <2>5. RanIsLast'
    BY <2>1, <2>3 DEF RanIsLast, Others, Stmt
  <2>6. DecisionTrue'
    BY <2>1, <2>3 DEF DecisionTrue, Others
  <2> QED
    BY <2>2, <2>4, <2>5, <2>6
<1> QED
  BY <1>1, <1>2

\* A dispatch overwrites the last decision; whoever still needs the old one
\* would hold the mutex this caller is under.
LEMMA RunKeeps ==
  ASSUME CallInv, NEW c \in Callers, Run(c)
  PROVE  CallInv'
<1> DEFINE s == Stmt(c)
           d == DecideFn(gpu, s, held[c])
           Reports == IF s.op \in Silent THEN NoDecision ELSE d
           Ran == /\ pc' = [pc EXCEPT ![c] = "ran"] /\ UNCHANGED <<lock, todo, noted>>
                  /\ \E a : res' = [res EXCEPT ![c] = Result(a, Reports)]
           Gone == lock' = Unlocked(c) /\ Fails(c)
<1>1. /\ pc[c] = "inside" /\ Locks(s)
      /\ \/ last' = last /\ Gone
         \/ last' = (IF s.op = "inner" THEN last ELSE d) /\ (Ran \/ Gone)
  BY DEF Run, Locks
<1>2. last' # last => s.op # "inner" /\ last' = d
  BY <1>1
<1> HIDE DEF d
<1>3. \A b \in Callers \ {c} : pc[b] = "ran" /\ res[b].ran # NoDecision => last' = last
  BY <1>1, <1>2, RanHoldsDevice
<1>4. CASE Ran
  <2> USE DEF CallInv
  <2>1. CallTypes'
    BY <1>4 DEF CallTypes
  <2>2. Others(c) /\ pc'[c] = "ran" /\ res'[c].ran = Reports
    BY <1>4 DEF CallTypes, Others, Result
  <2>3. InsideLocked'
    BY <1>1, <1>4, <2>2 DEF InsideLocked, Others, Stmt, MutexOf, Locks
  <2>4. RanIsLast'
    <3> SUFFICES ASSUME NEW b \in Callers, pc'[b] = "ran", res'[b].ran # NoDecision
                 PROVE  (Stmt(b).op \notin Silent /\ last = res[b].ran)'
      BY DEF RanIsLast
    <3>1. Stmt(b)' = Stmt(b)
      BY <1>4 DEF Stmt
    <3>2. CASE b = c
      <4>1. s.op \notin Silent /\ res'[b].ran = d
        BY <2>2, <3>2
      <4>2. s.op # "inner"
        BY <4>1 DEF Silent
      <4>3. last' = d
        BY <1>1, <1>4, <4>2 DEF Fails, CallTypes
      <4> QED
        BY <3>1, <3>2, <4>1, <4>3
    <3>3. CASE b # c
      BY <1>3, <2>2, <3>1, <3>3 DEF RanIsLast, Others
    <3> QED
      BY <3>2, <3>3
  <2>5. DecisionTrue'
    BY <1>4, <2>2 DEF DecisionTrue, Others
  <2> QED
    BY <2>1, <2>3, <2>4, <2>5
<1>5. CASE Gone
  <2>1. CASE last' = last
    BY <1>1, <1>5, <2>1, FailsKeeps
  <2>2. CASE last' # last
    <3> USE DEF CallInv
    <3>1. CallTypes'
      BY <1>5, MutexIsOne DEF CallTypes, Fails, Unlocked
    <3>2. Others(c) /\ pc'[c] = "idle"
      BY <1>5 DEF CallTypes, Others, Fails
    <3>3. InsideLocked'
      <4> SUFFICES ASSUME NEW b \in Callers, pc'[b] \in {"inside", "ran"}, Locks(Stmt(b))'
                   PROVE  (lock[MutexOf(Stmt(b))] = b)'
        BY DEF InsideLocked
      <4>1. b # c /\ pc[b] \in {"inside", "ran"} /\ Stmt(b)' = Stmt(b) /\ Locks(Stmt(b))
        BY <3>2 DEF Others, Stmt, Locks
      <4>2. MutexOf(Stmt(b)) # MutexOf(Stmt(c)) /\ MutexOf(Stmt(b))' = MutexOf(Stmt(b))
        BY <1>1, <4>1, Exclusion DEF MutexOf
      <4> QED
        BY <1>5, <4>1, <4>2, MutexIsOne DEF InsideLocked, CallTypes, Unlocked
    <3>4. RanIsLast'
      BY <1>3, <2>2, <3>2 DEF RanIsLast, Others, Stmt
    <3>5. DecisionTrue'
      BY <3>2 DEF DecisionTrue, Others
    <3> QED
      BY <3>1, <3>3, <3>4, <3>5
  <2> QED
    BY <2>1, <2>2
<1> QED
  BY <1>1, <1>4, <1>5

\* The decision is copied before the mutex is given up.
LEMMA LeaveKeeps ==
  ASSUME CallInv, NEW c \in Callers, Leave(c)
  PROVE  CallInv'
<1> USE DEF CallInv, Leave
<1>1. CallTypes'
  BY MutexIsOne DEF CallTypes, Unlocked
<1>2. /\ pc'[c] = "emit"
      /\ noted'[c] = (IF Stmt(c).op \in Silent THEN NoDecision ELSE last)
      /\ \A d \in Callers \ {c} : pc'[d] = pc[d] /\ noted'[d] = noted[d]
  BY DEF CallTypes
<1>3. InsideLocked'
  <2> SUFFICES ASSUME NEW d \in Callers, pc'[d] \in {"inside", "ran"}, Locks(Stmt(d))'
               PROVE  (lock[MutexOf(Stmt(d))] = d)'
    BY DEF InsideLocked
  <2>1. d # c /\ pc[d] \in {"inside", "ran"} /\ Locks(Stmt(d))
    BY <1>2 DEF Stmt, Locks
  <2>2. /\ Locks(Stmt(c)) => MutexOf(Stmt(d)) # MutexOf(Stmt(c))
        /\ MutexOf(Stmt(d))' = MutexOf(Stmt(d))
    BY <2>1, Exclusion DEF Stmt, MutexOf
  <2> QED
    BY <2>1, <2>2, MutexIsOne DEF InsideLocked, CallTypes, Unlocked
<1>4. RanIsLast'
  BY <1>2 DEF RanIsLast, Stmt
<1>5. DecisionTrue'
  BY <1>2 DEF DecisionTrue, RanIsLast
<1> QED
  BY <1>1, <1>3, <1>4, <1>5

LEMMA FinishKeeps ==
  ASSUME CallInv, NEW c \in Callers, Finish(c)
  PROVE  CallInv'
<1>1. CallTypes' /\ Others(c) /\ pc'[c] = "idle" /\ lock' = lock /\ last' = last
  BY DEF Finish, CallInv, CallTypes, Others
<1> QED
  BY <1>1, OutsideKeeps

LEMMA IdleKeeps ==
  ASSUME CallInv, UNCHANGED <<lock, last, todo, pc, res, noted>>
  PROVE  CallInv'
BY DEF CallInv, CallTypes, InsideLocked, RanIsLast, DecisionTrue, Stmt, MutexOf, Locks

\* The inductive invariant: the types, who is inside holds its mutex, and the
\* last decision is the one of the call that ran and has not copied it.
THEOREM CallSound == Spec => []CallInv
<1>1. Init => CallInv
  <2> SUFFICES ASSUME Init PROVE CallInv
    OBVIOUS
  <2>1. \E s \in Scenarios : todo = s.todo
    BY DEF Init
  <2>2. /\ lock = [m \in Mutexes |-> NoCaller] /\ pc = [c \in Callers |-> "idle"]
        /\ res = [c \in Callers |-> NoResult] /\ noted = [c \in Callers |-> NoDecision]
    BY DEF Init
  <2>3. CallTypes
    BY <2>1, <2>2, CallAssumption DEF CallTypes
  <2> QED
    BY <2>2, <2>3 DEF CallInv, InsideLocked, RanIsLast, DecisionTrue
<1>2. CallInv /\ [Next]_vars => CallInv'
  <2> SUFFICES ASSUME CallInv, [Next]_vars PROVE CallInv'
    OBVIOUS
  <2>1. CASE UNCHANGED vars
    BY <2>1, IdleKeeps DEF vars
  <2>2. CASE Done
    BY <2>2, IdleKeeps DEF Done, vars
  <2>3. ASSUME NEW c \in Callers, Step(c) PROVE CallInv'
    <3>1. CASE Emit(c)
      BY <3>1, IdleKeeps DEF Emit
    <3> QED
      BY <2>3, <3>1, BindKeeps, AcquireKeeps, EnterKeeps, UploadKeeps, RunKeeps, LeaveKeeps, FinishKeeps
         DEF Step
  <2> QED
    BY <2>1, <2>2, <2>3 DEF Next
<1> QED
  BY <1>1, <1>2, PTL DEF Spec

\* Every statement reports the decision its own call was dispatched by, for
\* any number of callers and whatever the planner decides.
THEOREM DecisionsAreTrue == Spec => []DecisionTrue
<1>1. CallInv => DecisionTrue
  BY DEF CallInv
<1> QED
  BY <1>1, CallSound, PTL

\* ---- what a caller is handed ---------------------------------------------------
\* The next chunk continues the beginning of the rows.
LEMMA Continues ==
  ASSUME NEW R, NEW rows \in Seq(R), NEW m \in Nat, NEW k \in Nat, m <= k, k <= Len(rows),
         NEW part, part = SubSeq(rows, 1, m), m = Len(part)
  PROVE  /\ Len(part \o SubSeq(rows, m + 1, k)) = k
         /\ part \o SubSeq(rows, m + 1, k) = SubSeq(rows, 1, k)
<1>1. Len(rows) \in Nat /\ \A j \in 1..Len(rows) : rows[j] \in R
  BY LenProperties, ElementOfSeq
<1> DEFINE rest == SubSeq(rows, m + 1, k)
           whole == SubSeq(rows, 1, k)
<1>2. /\ part \in Seq(R)
      /\ \A j \in 1..m : part[j] = rows[j]
  <2>1. \A j \in 1..m : rows[j] \in R
    BY <1>1
  <2> DEFINE start == SubSeq(rows, 1, m)
  <2>2. /\ start \in Seq(R)
        /\ \A j \in 1..m - 1 + 1 : start[j] = rows[1 + j - 1]
    BY <2>1, SubSeqProperties
  <2>3. part = start
    OBVIOUS
  <2> HIDE DEF start
  <2> QED
    BY <2>2, <2>3
<1>3. /\ rest \in Seq(R) /\ Len(rest) = k - m
      /\ \A j \in 1..(k - m) : rest[j] = rows[m + j]
  <2>1. \A j \in m + 1..k : rows[j] \in R
    BY <1>1
  <2>2. /\ rest \in Seq(R) /\ Len(rest) = IF m + 1 <= k THEN k - (m + 1) + 1 ELSE 0
        /\ \A j \in 1..k - (m + 1) + 1 : rest[j] = rows[(m + 1) + j - 1]
    BY <2>1, SubSeqProperties
  <2> HIDE DEF rest
  <2> QED
    BY <2>2
<1>4. /\ whole \in Seq(R) /\ Len(whole) = k
      /\ \A j \in 1..k : whole[j] = rows[j]
  <2>1. \A j \in 1..k : rows[j] \in R
    BY <1>1
  <2>2. /\ whole \in Seq(R) /\ Len(whole) = IF 1 <= k THEN k - 1 + 1 ELSE 0
        /\ \A j \in 1..k - 1 + 1 : whole[j] = rows[1 + j - 1]
    BY <2>1, SubSeqProperties
  <2> HIDE DEF whole
  <2> QED
    BY <2>2
<1> HIDE DEF rest, whole
<1> DEFINE both == part \o rest
<1>5. /\ both \in Seq(R) /\ Len(both) = k
      /\ \A j \in 1..k : both[j] = IF j <= m THEN part[j] ELSE rest[j - m]
  <2>1. /\ both \in Seq(R) /\ Len(both) = Len(part) + Len(rest)
        /\ \A j \in 1..Len(part) + Len(rest) : both[j] = IF j <= Len(part) THEN part[j] ELSE rest[j - Len(part)]
    <3>1. part \in Seq(R) /\ rest \in Seq(R)
      BY <1>2, <1>3
    <3> QED
      BY <3>1, ConcatProperties, SMTT(30)
  <2> HIDE DEF both
  <2> QED
    BY <1>3, <2>1
<1> HIDE DEF both
<1>6. ASSUME NEW j \in 1..k PROVE both[j] = whole[j]
  <2>1. CASE j <= m
    BY <1>2, <1>4, <1>5, <2>1
  <2>2. CASE ~(j <= m)
    <3>1. j - m \in 1..(k - m) /\ m + (j - m) = j
      BY <2>2
    <3> QED
      BY <1>3, <1>4, <1>5, <2>2, <3>1
  <2> QED
    BY <2>1, <2>2
<1>7. both = whole
  BY <1>4, <1>5, <1>6, SeqEqual
<1> QED
  BY <1>5, <1>7 DEF both, rest, whole

LEMMA LeastIs == ASSUME NEW a \in Int, NEW b \in Int
                 PROVE Least(a, b) \in {a, b} /\ Least(a, b) <= a /\ Least(a, b) <= b
BY DEF Least

\* Another caller's answer and chunks are left alone.
OthersKeep(c) ==
    \A d \in Callers \ {c} :
        pc'[d] = pc[d] /\ todo'[d] = todo[d] /\ res'[d] = res[d] /\ held'[d] = held[d] /\ sent'[d] = sent[d]

LEMMA OthersAnswered ==
  ASSUME AnswerInv, NEW c \in Callers, OthersKeep(c), gpu' = gpu,
         held' = [d \in Callers |-> held'[d]], sent' = [d \in Callers |-> sent'[d]],
         pc'[c] \in {"ran", "emit"} => HasAnswer(c)',
         pc'[c] # "emit" => sent'[c] = <<>>,
         pc'[c] # "idle" => todo'[c] # <<>>,
         pc'[c] = "emit" /\ IsRows(res'[c].rows) => Handed(c)'
  PROVE  AnswerInv'
<1>1. ASSUME NEW d \in Callers \ {c}, pc'[d] \in {"ran", "emit"} PROVE HasAnswer(d)'
  <2>1. HasAnswer(d)
    BY <1>1 DEF AnswerInv, AnswerStays, OthersKeep
  <2>2. Stmt(d)' = Stmt(d)
    BY DEF OthersKeep, Stmt
  <2> QED
    BY <2>1, <2>2 DEF HasAnswer, OthersKeep
<1>2. AnswerStays'
  BY <1>1 DEF AnswerInv, AnswerStays, OthersKeep
<1>3. ASSUME NEW d \in Callers \ {c}, pc'[d] = "emit", IsRows(res'[d].rows) PROVE Handed(d)'
  BY <1>3 DEF AnswerInv, Handed, OthersKeep
<1> QED
  BY <1>2, <1>3 DEF AnswerInv

\* A step that leaves the call before its operator ran, or ends it.
LEMMA BeforeAnswer ==
  ASSUME AnswerInv, CallTypes, NEW c \in Callers, gpu' = gpu,
         \/ Fails(c)
         \/ Bind(c) \/ Acquire(c) \/ Enter(c) \/ Finish(c)
  PROVE  AnswerInv'
<1>1. OthersKeep(c)
  BY DEF Fails, Bind, Acquire, Enter, Finish, CallTypes, OthersKeep, AnswerInv, AnswerStays
<1>2. held' = [d \in Callers |-> held'[d]] /\ sent' = [d \in Callers |-> sent'[d]]
  BY DEF Fails, Bind, Acquire, Enter, Finish, AnswerInv, AnswerStays
<1>3. pc'[c] \notin {"ran", "emit"} /\ sent'[c] = <<>>
  BY DEF Fails, Bind, Acquire, Enter, Finish, CallTypes, AnswerInv, AnswerStays
<1>4. pc'[c] # "idle" => todo'[c] # <<>>
  BY DEF Fails, Bind, Acquire, Enter, Finish, CallTypes, AnswerInv, AnswerStays
<1> QED
  BY <1>1, <1>2, <1>3, <1>4, OthersAnswered

\* The operator answers.
LEMMA Answering1 ==
  ASSUME AnswerInv, CallTypes, NEW c \in Callers, Upload(c) \/ Run(c)
  PROVE  AnswerInv'
<1>1. CASE Fails(c)
  BY <1>1, BeforeAnswer DEF Upload, Run
<1>2. CASE ~Fails(c)
  <2>1. /\ pc[c] = "inside" /\ pc' = [pc EXCEPT ![c] = "ran"] /\ UNCHANGED <<gpu, todo, held, sent>>
        /\ \/ /\ Stmt(c).op = "upload"
              /\ res' = [res EXCEPT ![c] = Result(StoreFn(gpu, Stmt(c)), NoDecision)]
           \/ /\ Stmt(c).op # "upload" /\ ~RejectFn(Stmt(c), held[c])
              /\ \E d : \E a \in RunFn(gpu, Stmt(c), held[c]) : a.err = "" /\ res' = [res EXCEPT ![c] = Result(a, d)]
    <3>1. CASE Upload(c)
      BY <1>2, <3>1 DEF Upload
    <3>2. CASE Run(c)
      <4> DEFINE Reports == IF Stmt(c).op \in Silent THEN NoDecision ELSE DecideFn(gpu, Stmt(c), held[c])
      <4>1. /\ pc[c] = "inside" /\ Stmt(c).op # "upload" /\ ~RejectFn(Stmt(c), held[c]) /\ gpu' = gpu
            /\ \E a \in RunFn(gpu, Stmt(c), held[c]) :
                  /\ a.err = "" /\ res' = [res EXCEPT ![c] = Result(a, Reports)]
                  /\ pc' = [pc EXCEPT ![c] = "ran"] /\ UNCHANGED <<todo, held, sent>>
        BY <1>2, <3>2, Zenon DEF Run
      <4> HIDE DEF Reports
      <4> QED
        BY <4>1
    <3> QED
      BY <3>1, <3>2
  <2>2. Stmt(c)' = Stmt(c)
    BY <2>1 DEF Stmt
  <2>3. OthersKeep(c)
    BY <2>1 DEF CallTypes, OthersKeep
  <2>4. HasAnswer(c)'
    <3>1. CASE /\ Stmt(c).op = "upload"
               /\ res' = [res EXCEPT ![c] = Result(StoreFn(gpu, Stmt(c)), NoDecision)]
      <4>1. res'[c] = Result(StoreFn(gpu, Stmt(c)), NoDecision)
        BY <3>1 DEF CallTypes
      <4> QED
        BY <2>1, <2>2, <3>1, <4>1 DEF HasAnswer, Result
    <3>2. CASE /\ Stmt(c).op # "upload" /\ ~RejectFn(Stmt(c), held[c])
               /\ \E d : \E a \in RunFn(gpu, Stmt(c), held[c]) : a.err = "" /\ res' = [res EXCEPT ![c] = Result(a, d)]
      <4>1. PICK d, a : a \in RunFn(gpu, Stmt(c), held[c]) /\ a.err = "" /\ res' = [res EXCEPT ![c] = Result(a, d)]
        BY <3>2
      <4>2. res'[c] = Result(a, d)
        BY <4>1 DEF CallTypes
      <4>3. res'[c].rows = a.rows /\ res'[c].set = a.set
        BY <4>2 DEF Result
      <4>4. gpu' = gpu /\ held' = held
        BY <2>1
      <4>5. \E b \in RunFn(gpu, Stmt(c), held[c]) : b.err = "" /\ res'[c].rows = b.rows /\ res'[c].set = b.set
        BY <4>1, <4>3
      <4> QED
        BY <2>2, <3>2, <4>4, <4>5 DEF HasAnswer
    <3> QED
      BY <2>1, <3>1, <3>2
  <2>5. pc'[c] = "ran" /\ sent'[c] = <<>> /\ todo'[c] # <<>>
    BY <2>1 DEF CallTypes, AnswerInv, AnswerStays
  <2>6. held' = [d \in Callers |-> held'[d]] /\ sent' = [d \in Callers |-> sent'[d]]
    BY <2>1 DEF AnswerInv, AnswerStays
  <2> QED
    BY <2>1, <2>3, <2>4, <2>5, <2>6, OthersAnswered
<1> QED
  BY <1>1, <1>2

LEMMA RowsAreSeq == ASSUME NEW rows, IsRows(rows) PROVE \E R : rows \in Seq(R)
<1> DEFINE R == {rows[j] : j \in 1..Len(rows)}
           n == Len(rows)
<1>1. n \in Nat /\ rows = [j \in 1..n |-> rows[j]]
  BY DEF IsRows
<1>2. \A j \in 1..n : rows[j] \in R
  OBVIOUS
<1> HIDE DEF R, n
<1>3. rows \in [1..n -> R]
  BY <1>1, <1>2
<1>4. rows \in Seq(R)
  BY <1>1, <1>3, SeqDef
<1> QED
  BY <1>4

LEMMA LeaveAnswers ==
  ASSUME AnswerInv, CallTypes, NEW c \in Callers, Leave(c)
  PROVE  AnswerInv'
<1>1. /\ pc[c] = "ran" /\ pc' = [pc EXCEPT ![c] = "emit"] /\ UNCHANGED <<gpu, todo, held, res, sent>>
  BY DEF Leave
<1>2. OthersKeep(c) /\ pc'[c] = "emit" /\ Stmt(c)' = Stmt(c)
  BY <1>1 DEF CallTypes, OthersKeep, Stmt
<1>3. HasAnswer(c) /\ sent[c] = <<>> /\ todo[c] # <<>>
  BY <1>1 DEF AnswerInv, AnswerStays
<1>4. HasAnswer(c)'
  BY <1>1, <1>2, <1>3 DEF HasAnswer
<1>5. ASSUME IsRows(res[c].rows) PROVE Handed(c)
  <2>1. Len(<<>>) = 0 /\ SubSeq(res[c].rows, 1, 0) = <<>>
    OBVIOUS
  <2> QED
    BY <1>3, <1>5, <2>1 DEF IsRows, Handed
<1>6. ASSUME IsRows(res'[c].rows) PROVE Handed(c)'
  BY <1>1, <1>5, <1>6 DEF Handed
<1> QED
  BY <1>1, <1>2, <1>3, <1>4, <1>6, OthersAnswered DEF AnswerInv, AnswerStays

LEMMA EmitAnswers ==
  ASSUME AnswerInv, CallTypes, NEW c \in Callers, Emit(c)
  PROVE  AnswerInv'
<1> DEFINE rows == res[c].rows
           off == Len(sent[c])
           k == Least(off + Chunk, Len(rows))
<1>1. /\ pc[c] = "emit" /\ off < Len(rows) /\ UNCHANGED <<gpu, todo, pc, held, res>>
      /\ sent' = [sent EXCEPT ![c] = @ \o SubSeq(rows, off + 1, k)]
  BY DEF Emit
<1>2. OthersKeep(c) /\ Stmt(c)' = Stmt(c) /\ sent'[c] = sent[c] \o SubSeq(rows, off + 1, k)
      /\ sent' = [d \in Callers |-> sent'[d]]
  BY <1>1 DEF OthersKeep, Stmt, AnswerInv, AnswerStays
<1>3. HasAnswer(c) /\ todo[c] # <<>>
  BY <1>1 DEF AnswerInv, AnswerStays
<1>4. HasAnswer(c)'
  BY <1>1, <1>2, <1>3 DEF HasAnswer
<1>5. ASSUME IsRows(rows) PROVE Handed(c)'
  <2>1. sent[c] = SubSeq(rows, 1, off) /\ Len(rows) \in Nat
    BY <1>1, <1>5 DEF AnswerInv, Handed, IsRows
  <2>2. PICK R : rows \in Seq(R)
    BY <1>5, RowsAreSeq
  <2>3. off \in Nat
    BY <1>1, <2>1, <2>2
  <2>4. k \in Nat /\ off <= k /\ k <= Len(rows)
    BY <1>1, <2>1, <2>3, LeastIs, CallAssumption
  <2>5. off = Len(sent[c]) /\ res'[c].rows = rows
    BY <1>1
  <2> HIDE DEF k, off, rows
  <2>6. /\ Len(sent[c] \o SubSeq(rows, off + 1, k)) = k
        /\ sent[c] \o SubSeq(rows, off + 1, k) = SubSeq(rows, 1, k)
    <3>1. PICK part, m : part = sent[c] /\ m = off
      OBVIOUS
    <3>2. part = SubSeq(rows, 1, m) /\ m = Len(part) /\ m \in Nat /\ m <= k
      BY <2>1, <2>3, <2>4, <2>5, <3>1
    <3>3. /\ Len(part \o SubSeq(rows, m + 1, k)) = k
          /\ part \o SubSeq(rows, m + 1, k) = SubSeq(rows, 1, k)
      BY ONLY <2>2, <2>4, <3>2, Continues
    <3> QED
      BY <3>1, <3>3
  <2> QED
    BY <1>2, <2>4, <2>5, <2>6 DEF Handed
<1>6. IsRows(res'[c].rows) => Handed(c)'
  BY <1>1, <1>5
<1> HIDE DEF k, off, rows
<1> QED
  BY <1>1, <1>2, <1>3, <1>4, <1>6, OthersAnswered DEF AnswerInv, AnswerStays

LEMMA IdleAnswers ==
  ASSUME AnswerInv, UNCHANGED vars
  PROVE  AnswerInv'
BY DEF vars, AnswerInv, AnswerStays, Handed, HasAnswer, Stmt

\* The answer a caller hands out stays what its operator gave over the sets it
\* acquired: no other caller's step and no later upload reaches it.
THEOREM AnswerSound == Spec => []AnswerInv
<1>1. Init => AnswerInv
  <2> SUFFICES ASSUME Init PROVE AnswerInv
    OBVIOUS
  <2>1. /\ pc = [c \in Callers |-> "idle"] /\ held = [c \in Callers |-> <<>>]
        /\ sent = [c \in Callers |-> <<>>]
    BY DEF Init
  <2> QED
    BY <2>1 DEF AnswerInv, AnswerStays
<1>2. CallInv /\ AnswerInv /\ [Next]_vars => AnswerInv'
  <2> SUFFICES ASSUME CallTypes, AnswerInv, [Next]_vars PROVE AnswerInv'
    BY DEF CallInv
  <2>1. CASE UNCHANGED vars
    BY <2>1, IdleAnswers
  <2>2. CASE Done
    BY <2>2, IdleAnswers DEF Done
  <2>3. ASSUME NEW c \in Callers, Step(c) PROVE AnswerInv'
    <3>1. CASE Bind(c) \/ Acquire(c) \/ Enter(c) \/ Finish(c)
      <4>1. gpu' = gpu
        BY <3>1 DEF Bind, Acquire, Enter, Finish
      <4> QED
        BY <3>1, <4>1, BeforeAnswer
    <3> QED
      BY <2>3, <3>1, Answering1, LeaveAnswers, EmitAnswers DEF Step
  <2> QED
    BY <2>1, <2>2, <2>3 DEF Next
<1> QED
  BY <1>1, <1>2, CallSound, PTL DEF Spec

\* Whatever the chunk size, the number of callers and what they run in between,
\* a caller is handed the operator's rows in order, each once.
THEOREM RowsAreOnce == Spec /\ []RowsAnswered => []RowsOnce
<1>1. RowsAnswered /\ AnswerInv => RowsOnce
  <2> SUFFICES ASSUME RowsAnswered, AnswerInv, NEW c \in Callers, pc[c] = "emit" PROVE Handed(c)
    BY DEF RowsOnce
  <2>1. HasAnswer(c)
    BY DEF AnswerInv, AnswerStays
  <2>2. IsRows(res[c].rows)
    BY <2>1 DEF RowsAnswered, HasAnswer
  <2> QED
    BY <2>2 DEF AnswerInv
<1> QED
  BY <1>1, AnswerSound, PTL

\* When the rows are through, the caller holds one whole answer of the
\* operator over the device and the sets its statement acquired.
WholeAnswer(c) ==
    pc[c] = "emit" /\ Len(sent[c]) >= Len(res[c].rows) /\ IsRows(res[c].rows) => sent[c] = res[c].rows
THEOREM WholeAnswers == Spec => [](\A c \in Callers : WholeAnswer(c) /\ (pc[c] = "emit" => HasAnswer(c)))
<1>1. AnswerInv => \A c \in Callers : WholeAnswer(c) /\ (pc[c] = "emit" => HasAnswer(c))
  <2> SUFFICES ASSUME AnswerInv, NEW c \in Callers, pc[c] = "emit"
               PROVE  WholeAnswer(c) /\ HasAnswer(c)
    BY DEF WholeAnswer
  <2>1. HasAnswer(c)
    BY DEF AnswerInv, AnswerStays
  <2>2. ASSUME Len(sent[c]) >= Len(res[c].rows), IsRows(res[c].rows) PROVE sent[c] = res[c].rows
    <3>1. Len(sent[c]) <= Len(res[c].rows) /\ sent[c] = SubSeq(res[c].rows, 1, Len(sent[c]))
      BY <2>2 DEF AnswerInv, Handed
    <3>2. PICK rows, n : rows = res[c].rows /\ n = Len(sent[c])
      OBVIOUS
    <3>3. Len(rows) \in Nat
      BY <2>2, <3>2 DEF IsRows
    <3>4. PICK R : rows \in Seq(R)
      BY <2>2, <3>2, RowsAreSeq
    <3>5. n \in Int
      BY <3>1, <3>2, <3>3, <3>4
    <3>6. n = Len(rows)
      BY <2>2, <3>1, <3>2, <3>3, <3>5
    <3>7. SubSeq(rows, 1, Len(rows)) = rows
      BY <3>4, SubSeqFull
    <3> QED
      BY <3>1, <3>2, <3>6, <3>7
  <2> QED
    BY <2>1, <2>2 DEF WholeAnswer
<1> QED
  BY <1>1, AnswerSound, PTL
===============================================================================
