----------------------------- MODULE ResidentCall -----------------------------
(***************************************************************************)
(* SQL calls of the resident operators: the table functions of             *)
(* src/extension/gpu_groupby_extension.cpp and gpu_join_extension.cpp, the *)
(* upload and gpu_join_materialize of gpu_resident.cpp, over the planner   *)
(* and its backends.  Every caller runs its program, one statement after   *)
(* the other: bind, acquire the sets, take the device lock, run, copy the  *)
(* decision out, leave, hand the rows to DuckDB in chunks.  How sets are   *)
(* named, replaced and invalidated is ResidentRegistry's; here a set is    *)
(* published whole.  What a function computes is a parameter: SqlFunctions *)
(* has the definitions.                                                    *)
(***************************************************************************)
EXTENDS Integers, Sequences

CONSTANTS
    Callers, Names, Scenarios,
    Chunk,      \* rows of one DuckDB chunk (2048)
    NoCaller, NoSet,
    BindFn(_),       \* the bind function takes the statement
    InitFn(_, _),    \* the init function takes it with the sets it acquired
    StoreFn(_, _),   \* what an upload to the planner's device leaves
    RejectFn(_, _),  \* the planner refuses it before it decides
    DecideFn(_, _, _),  \* the planner's decision
    RunFn(_, _, _)     \* the answers the backend may give

ASSUME CallAssumption ==
    /\ Chunk \in Nat \ {0}
    /\ NoCaller \notin Callers
    /\ \A s \in Scenarios : s.todo = [c \in Callers |-> s.todo[c]]

VARIABLES
    gpu,        \* the planner's GPU side, chosen once
    sets,       \* name -> published set
    lock,       \* mutex -> its holder
    last,       \* last_decision of the planner: process-wide
    todo,       \* caller -> statements left, the head one running
    pc,         \* caller -> "idle", "bound", "ready", "inside", "ran", "emit"
    held,       \* caller -> the sets its statement acquired
    res,        \* caller -> what the backend answered
    noted,      \* caller -> the decision it copied
    sent        \* caller -> rows handed to DuckDB

vars == <<gpu, sets, lock, last, todo, pc, held, res, noted, sent>>

NoDecision == [backend |-> "none", reason |-> "none"]
NoResult == [err |-> "", rows |-> <<>>, set |-> NoSet, ran |-> NoDecision]
Result(a, d) == [err |-> a.err, rows |-> a.rows, set |-> a.set, ran |-> d]
Least(a, b) == IF a < b THEN a ELSE b
Stmt(c) == Head(todo[c])
Mutexes == {"device", "join"}
\* The device lock of the resident context; gpu_inner_join takes join_call_mutex.
MutexOf(s) == IF s.op = "inner" THEN "join" ELSE "device"
\* An upload runs outside every lock.
Locks(s) == s.op # "upload"
Locked(c) == IF Locks(Stmt(c)) THEN [lock EXCEPT ![MutexOf(Stmt(c))] = c] ELSE lock
Unlocked(c) == IF Locks(Stmt(c)) THEN [lock EXCEPT ![MutexOf(Stmt(c))] = NoCaller] ELSE lock
\* What a call reports its dispatch by: a materialised join and a list join report nothing.
Silent == {"upload", "join", "inner"}

\* ---- the steps of a call ---------------------------------------------------------------
Init ==
    \E s \in Scenarios :
        /\ gpu = s.gpu /\ todo = s.todo
        /\ sets = [n \in Names |-> NoSet]
        /\ lock = [m \in Mutexes |-> NoCaller] /\ last = NoDecision
        /\ pc = [c \in Callers |-> "idle"] /\ held = [c \in Callers |-> <<>>]
        /\ res = [c \in Callers |-> NoResult]
        /\ noted = [c \in Callers |-> NoDecision] /\ sent = [c \in Callers |-> <<>>]

\* A statement that failed ends its caller's program.
Fails(c) ==
    /\ pc' = [pc EXCEPT ![c] = "idle"] /\ todo' = [todo EXCEPT ![c] = <<>>]
    /\ held' = [held EXCEPT ![c] = <<>>]
    /\ res' = [res EXCEPT ![c] = NoResult]
    /\ noted' = [noted EXCEPT ![c] = NoDecision] /\ sent' = [sent EXCEPT ![c] = <<>>]

Bind(c) ==
    /\ pc[c] = "idle" /\ todo[c] # <<>>
    /\ UNCHANGED <<gpu, sets, lock, last>>
    /\ \/ BindFn(Stmt(c)) /\ pc' = [pc EXCEPT ![c] = "bound"] /\ UNCHANGED <<todo, held, res, noted, sent>>
       \/ ~BindFn(Stmt(c)) /\ Fails(c)

\* resident_acquire_set per name, then the checks of the init function.
Acquire(c) ==
    LET s == Stmt(c)
        h == [j \in DOMAIN s.from |-> sets[s.from[j]]]
        ok == (\A j \in DOMAIN h : h[j] # NoSet) /\ InitFn(s, h)
    IN  /\ pc[c] = "bound"
        /\ UNCHANGED <<gpu, sets, lock, last>>
        /\ \/ ok /\ pc' = [pc EXCEPT ![c] = "ready"] /\ held' = [held EXCEPT ![c] = h]
              /\ UNCHANGED <<todo, res, noted, sent>>
           \/ ~ok /\ Fails(c)

Enter_Unlocked(c) ==
    /\ pc[c] = "ready"
    /\ lock' = Locked(c) /\ pc' = [pc EXCEPT ![c] = "inside"]
    /\ UNCHANGED <<gpu, sets, last, todo, held, res, noted, sent>>
\* The device lock, then the operator; an upload waits for nobody.
Enter(c) ==
    /\ pc[c] = "ready" /\ (Locks(Stmt(c)) => lock[MutexOf(Stmt(c))] = NoCaller)
    /\ lock' = Locked(c) /\ pc' = [pc EXCEPT ![c] = "inside"]
    /\ UNCHANGED <<gpu, sets, last, todo, held, res, noted, sent>>

Upload(c) ==
    LET r == StoreFn(gpu, Stmt(c))
    IN  /\ pc[c] = "inside" /\ Stmt(c).op = "upload"
        /\ UNCHANGED <<gpu, sets, last>>
        /\ \/ /\ r.err = "" /\ res' = [res EXCEPT ![c] = Result(r, NoDecision)]
              /\ pc' = [pc EXCEPT ![c] = "ran"]
              /\ UNCHANGED <<lock, todo, held, noted, sent>>
           \/ r.err # "" /\ lock' = Unlocked(c) /\ Fails(c)

\* The planner's dispatch: columns of two sides are refused before the
\* decision is recorded, an operator that throws leaves its decision behind.
Run(c) ==
    LET s == Stmt(c)
        d == DecideFn(gpu, s, held[c])
        Reports == IF s.op \in Silent THEN NoDecision ELSE d
    IN  /\ pc[c] = "inside" /\ s.op # "upload"
        /\ UNCHANGED <<gpu, sets>>
        /\ \/ RejectFn(s, held[c]) /\ lock' = Unlocked(c) /\ UNCHANGED last /\ Fails(c)
           \/ /\ ~RejectFn(s, held[c])
              /\ last' = IF s.op = "inner" THEN last ELSE d
              /\ \E a \in RunFn(gpu, s, held[c]) :
                   \/ /\ a.err = "" /\ res' = [res EXCEPT ![c] = Result(a, Reports)]
                      /\ pc' = [pc EXCEPT ![c] = "ran"]
                      /\ UNCHANGED <<lock, todo, held, noted, sent>>
                   \/ a.err # "" /\ lock' = Unlocked(c) /\ Fails(c)

\* last_decision is copied and the lock, if any, released.
Leave(c) ==
    /\ pc[c] = "ran"
    /\ noted' = [noted EXCEPT ![c] = IF Stmt(c).op \in Silent THEN NoDecision ELSE last]
    /\ lock' = Unlocked(c)
    /\ pc' = [pc EXCEPT ![c] = "emit"]
    /\ UNCHANGED <<gpu, sets, last, todo, held, res, sent>>

Emit_Overlaps(c) ==
    LET rows == res[c].rows
        off == IF sent[c] = <<>> THEN 0 ELSE Len(sent[c]) - 1
    IN  /\ pc[c] = "emit" /\ Len(sent[c]) < Len(rows)
        /\ sent' = [sent EXCEPT ![c] = @ \o SubSeq(rows, off + 1, Least(off + Chunk, Len(rows)))]
        /\ UNCHANGED <<gpu, sets, lock, last, todo, pc, held, res, noted>>
\* The table function proper: the next chunk from the offset.
Emit(c) ==
    LET rows == res[c].rows
        off == Len(sent[c])
    IN  /\ pc[c] = "emit" /\ off < Len(rows)
        /\ sent' = [sent EXCEPT ![c] = @ \o SubSeq(rows, off + 1, Least(off + Chunk, Len(rows)))]
        /\ UNCHANGED <<gpu, sets, lock, last, todo, pc, held, res, noted>>
\* Nothing remains; an upload or a join publishes its set.
Finish(c) ==
    /\ pc[c] = "emit" /\ Len(sent[c]) >= Len(res[c].rows)
    /\ sets' = IF res[c].set = NoSet THEN sets ELSE [sets EXCEPT ![Stmt(c).into] = res[c].set]
    /\ pc' = [pc EXCEPT ![c] = "idle"] /\ todo' = [todo EXCEPT ![c] = Tail(@)]
    /\ held' = [held EXCEPT ![c] = <<>>] /\ res' = [res EXCEPT ![c] = NoResult]
    /\ noted' = [noted EXCEPT ![c] = NoDecision] /\ sent' = [sent EXCEPT ![c] = <<>>]
    /\ UNCHANGED <<gpu, lock, last>>

Step(c) == Bind(c) \/ Acquire(c) \/ Enter(c) \/ Upload(c) \/ Run(c) \/ Leave(c) \/ Emit(c) \/ Finish(c)
Done == (\A c \in Callers : todo[c] = <<>>) /\ UNCHANGED vars
Next == (\E c \in Callers : Step(c)) \/ Done
Spec == Init /\ [][Next]_vars

\* The decision a statement reports is the one its own call was dispatched by,
\* although the planner keeps a single last_decision for all callers.
DecisionTrue ==
    \A c \in Callers : pc[c] = "emit" /\ res[c].ran # NoDecision => noted[c] = res[c].ran

\* Why: who is inside an operator holds its mutex until the decision is copied,
\* the calls that record one share a mutex, and an upload records none.
CallTypes ==
    /\ lock \in [Mutexes -> Callers \cup {NoCaller}]
    /\ pc \in [Callers -> {"idle", "bound", "ready", "inside", "ran", "emit"}]
    /\ todo = [c \in Callers |-> todo[c]] /\ res = [c \in Callers |-> res[c]]
    /\ noted = [c \in Callers |-> noted[c]]
InsideLocked ==
    \A c \in Callers : pc[c] \in {"inside", "ran"} /\ Locks(Stmt(c)) => lock[MutexOf(Stmt(c))] = c
RanIsLast ==
    \A c \in Callers : pc[c] = "ran" /\ res[c].ran # NoDecision =>
        Stmt(c).op \notin Silent /\ last = res[c].ran
CallInv == CallTypes /\ InsideLocked /\ RanIsLast /\ DecisionTrue

\* What a caller has been handed is the beginning of what its operator answered:
\* every row once and in order, whatever the chunks and the other callers.
Handed(c) ==
    /\ Len(sent[c]) <= Len(res[c].rows)
    /\ sent[c] = SubSeq(res[c].rows, 1, Len(sent[c]))
RowsOnce == \A c \in Callers : pc[c] = "emit" => Handed(c)

\* Why: from the operator's return to the last chunk the answer stays what the
\* operator gave over the sets the statement acquired, and nothing was handed
\* out before.
IsRows(rows) == Len(rows) \in Nat /\ rows = [j \in 1..Len(rows) |-> rows[j]]
HasAnswer(c) ==
    IF Stmt(c).op = "upload"
    THEN res[c].set = StoreFn(gpu, Stmt(c)).set /\ res[c].rows = StoreFn(gpu, Stmt(c)).rows
    ELSE /\ ~RejectFn(Stmt(c), held[c])
         /\ \E a \in RunFn(gpu, Stmt(c), held[c]) : a.err = "" /\ res[c].rows = a.rows /\ res[c].set = a.set
AnswerStays ==
    /\ held = [c \in Callers |-> held[c]] /\ sent = [c \in Callers |-> sent[c]]
    /\ \A c \in Callers : pc[c] \in {"ran", "emit"} => HasAnswer(c)
    /\ \A c \in Callers : pc[c] \notin {"emit"} => sent[c] = <<>>
    /\ \A c \in Callers : pc[c] # "idle" => todo[c] # <<>>
AnswerInv == AnswerStays /\ \A c \in Callers : pc[c] = "emit" /\ IsRows(res[c].rows) => Handed(c)
\* What the operators answer are rows: the vectors of the C++ calls.
RowsAnswered ==
    \A c \in Callers : pc[c] \in {"inside", "ran", "emit"} =>
        IF Stmt(c).op = "upload" THEN IsRows(StoreFn(gpu, Stmt(c)).rows)
        ELSE ~RejectFn(Stmt(c), held[c]) =>
                \A a \in RunFn(gpu, Stmt(c), held[c]) : a.err = "" => IsRows(a.rows)
=============================================================================
