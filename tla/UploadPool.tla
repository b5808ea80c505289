------------------------------ MODULE UploadPool ------------------------------
(***************************************************************************)
(* The host side of an upload (src/extension/gpu_resident.cpp): the        *)
(* buffers of the aggregate states, the open upload sessions, and the pool *)
(* whose byte count every reservation of the process goes through.         *)
(*                                                                         *)
(* A reservation is a relaxed load that is compared with a cap and, later, *)
(* a relaxed add (pool_reserve): two steps here.  A release is one.  The   *)
(* unit of the count is a row; a row is its name and, in a function with   *)
(* string lanes, a text.  DuckDB (external) runs one callback at a time on *)
(* a state, never updates or destroys a state while it is combined into    *)
(* another, and finalizes once the input is consumed; a statement whose    *)
(* callback set an error may or may not destroy its states.                *)
(***************************************************************************)
EXTENDS Integers, FiniteSets

CONSTANTS
    Stmt,       \* upload statements
    State,      \* aggregate states
    StmtOf,     \* the statement of each state
    KindOf,     \* the upload function of each statement
    Finisher,   \* threads calling gpu_upload_finish
    Name,       \* names rows carry
    Text,       \* texts of string lanes
    Hash,       \* hash64 of each text
    NoName, NoState,
    Cap,        \* pool_cap_bytes
    ExactCap,   \* exact_pool_cap_bytes
    MaxChunk,   \* rows of one update call
    MaxSeq      \* bound on the number of invalidations

Kind == {"plain", "exact", "strings"}
Agent == State \cup Finisher    \* whoever makes a reservation

ASSUME PoolAssumption ==
    /\ StmtOf \in [State -> Stmt] /\ KindOf \in [Stmt -> Kind]
    /\ State \cap Finisher = {} /\ NoState \notin Agent /\ NoName \notin Name
    /\ IsFiniteSet(Agent)
    /\ Cap \in Nat /\ ExactCap \in Nat
    /\ MaxChunk \in Nat /\ MaxSeq \in Nat
    /\ DOMAIN Hash = Text

VARIABLES
    bytes,      \* Pool::bytes
    buf,        \* the buffer of each state
    phase,      \* what DuckDB does with each statement
    op,         \* the callback in progress on a state, or the finish in progress
    sessions,   \* open upload sessions, by name
    lock,       \* the state whose finalize holds registry_mu, or NoState
    seq,        \* inval_seq
    leaked      \* history: reservations nobody will release

vars == <<bytes, buf, phase, op, sessions, lock, seq, leaked>>

\* from, oldest: history, the names of the rows held and the smallest sequence
\* number any contributing buffer was named at.
Buf == [live : BOOLEAN, made : BOOLEAN, final : BOOLEAN, exact : BOOLEAN,
        name : Name \cup {NoName}, seq_at_start : 0..MaxSeq, oldest : 0..MaxSeq,
        lanes : Nat, charged : Nat, texts : SUBSET Text, from : SUBSET Name]
NoBuf == [live |-> TRUE, made |-> FALSE, final |-> FALSE, exact |-> FALSE,
          name |-> NoName, seq_at_start |-> 0, oldest |-> 0,
          lanes |-> 0, charged |-> 0, texts |-> {}, from |-> {}]

\* pc: "update", "combine", "segment", "borrow" = the load has passed the cap,
\* the add is to come; "fill" = a chunk is reserved; "device" = finish_upload.
Op == [pc : {"idle", "update", "fill", "combine", "segment", "device", "borrow"},
       want : Nat, src : State \cup {NoState}, held : Nat, temp : Nat, kind : Kind]
Idle == [pc |-> "idle", want |-> 0, src |-> NoState, held |-> 0, temp |-> 0,
         kind |-> "plain"]

Session == [open : BOOLEAN, kind : Kind \cup {"unset"}, lanes : Nat, charged : Nat,
            segments : Nat, texts : SUBSET Text, from : SUBSET Name]
NoSession == [open |-> FALSE, kind |-> "unset", lanes |-> 0, charged |-> 0,
              segments |-> 0, texts |-> {}, from |-> {}]

TypeOK ==
    /\ bytes \in Int /\ leaked \in Nat /\ seq \in 0..MaxSeq
    /\ buf \in [State -> Buf]
    /\ phase \in [Stmt -> {"sink", "finalize", "failed"}]
    /\ op \in [Agent -> Op]
    /\ sessions \in [Name -> Session]
    /\ lock \in State \cup {NoState}

Init ==
    /\ bytes = 0 /\ leaked = 0 /\ seq = 0 /\ lock = NoState
    /\ buf = [s \in State |-> NoBuf]
    /\ phase = [q \in Stmt |-> "sink"]
    /\ op = [a \in Agent |-> Idle]
    /\ sessions = [n \in Name |-> NoSession]

-----------------------------------------------------------------------------
(* The pool *)

CapOf(exact) == IF exact THEN ExactCap ELSE Cap

\* The larger of the two: a configured exact cap may lie below the general one.
Widest == IF Cap < ExactCap THEN ExactCap ELSE Cap

\* The variant compares the count without the bytes asked for.
Fits_Before(n, exact) == bytes <= CapOf(exact)

\* pool_reserve, the load: it passes when the bytes asked for still fit.
Fits(n, exact) == n = 0 \/ bytes + n <= CapOf(exact)

IsExact(s) == KindOf[StmtOf[s]] # "plain"

\* Two texts with one hash: the set cannot be resident.
Collides(x, y) == \E t \in x, u \in y : t # u /\ Hash[t] = Hash[u]

\* A dictionary after note_string of every text of y: the first text stays.
Noted(x, y) == x \cup {u \in y : \A t \in x : Hash[t] # Hash[u]}

Least(x, y) == IF x < y THEN x ELSE y

\* A state that DuckDB may work on.
Quiet(s) == op[s].pc = "idle" /\ buf[s].live /\ \A t \in State : op[t].src # s

\* release_state_buf: the state is left without a buffer.
Released(b) == [NoBuf EXCEPT !.final = b.final]

Fail(q) == phase' = [phase EXCEPT ![q] = "failed"]

-----------------------------------------------------------------------------
(* update *)

\* The upper bound of the chunk is asked for; a refusal fails the statement.
Update(s) ==
    /\ Quiet(s) /\ ~buf[s].final /\ phase[StmtOf[s]] = "sink"
    /\ \E n \in 1..MaxChunk :
        IF Fits(n, IsExact(s))
        THEN /\ op' = [op EXCEPT ![s] = [Idle EXCEPT !.pc = "update", !.want = n]]
             /\ UNCHANGED phase
        ELSE Fail(StmtOf[s]) /\ UNCHANGED op
    /\ UNCHANGED <<bytes, buf, sessions, lock, seq, leaked>>

UpdateAdd(s) ==
    /\ op[s].pc = "update"
    /\ bytes' = bytes + op[s].want
    /\ op' = [op EXCEPT ![s].pc = "fill"]
    /\ UNCHANGED <<buf, phase, sessions, lock, seq, leaked>>

\* set_buf_name on the first contributing row.
Named(b, n) == IF b.name # NoName THEN b
               ELSE [b EXCEPT !.name = n, !.seq_at_start = seq, !.oldest = seq]

\* The variant keeps the unused part of the chunk.
Unused_Kept(want, k) == 0
Unused(want, k) == want - k

\* The buffer with k rows more.  Of two texts that hash alike the first stays,
\* and the row of the second is in the segment and not charged.
Filled(b, n, k, texts) ==
    IF k = 0 THEN b
    ELSE LET charged == IF Collides(b.texts, texts) THEN k - 1 ELSE k
         IN [Named(b, n) EXCEPT !.lanes = @ + k, !.charged = @ + charged,
                                !.texts = Noted(@, texts), !.from = @ \cup {n}]

\* k rows of the chunk are stored under name n, and what was not used of the
\* reservation is released, in every outcome.  Only plain uploads skip rows (of
\* NULLs).  A second name, two texts that hash alike or a NULL where none may
\* be end the chunk with an error.
FillRows(s, n, k, failed, texts) ==
    LET b == [buf[s] EXCEPT !.made = TRUE, !.exact = @ \/ IsExact(s)]
        collides == Collides(b.texts, texts)
    IN /\ texts # {} => k > 0 /\ KindOf[StmtOf[s]] = "strings"
       /\ k > 0 => b.name \in {NoName, n}
       /\ collides => failed
       /\ failed \/ KindOf[StmtOf[s]] = "plain" \/ k = op[s].want
       /\ buf' = [buf EXCEPT ![s] = Filled(b, n, k, texts)]
       /\ bytes' = bytes - Unused(op[s].want, IF collides THEN k - 1 ELSE k)
       /\ IF failed THEN Fail(StmtOf[s]) ELSE UNCHANGED phase

Fill(s) ==
    /\ op[s].pc = "fill"
    /\ \E n \in Name, k \in 0..op[s].want, failed \in BOOLEAN,
          texts \in {t \in SUBSET Text : Cardinality(t) <= 1} :
        FillRows(s, n, k, failed, texts)
    /\ op' = [op EXCEPT ![s] = Idle]
    /\ UNCHANGED <<sessions, lock, seq, leaked>>

-----------------------------------------------------------------------------
(* combine *)

\* The name of a target without one.
Adopted(d, b) == IF d.name # NoName \/ b.name = NoName THEN d
                 ELSE [d EXCEPT !.name = b.name, !.seq_at_start = b.seq_at_start]

\* The variant merges whatever it is given.
Mismatch_None(d, b) == FALSE

\* With dictionaries in the source only the texts are compared; without, the
\* names are, and the older sequence number wins.
Mismatch(d, b) == IF b.texts # {} THEN Collides(d.texts, b.texts)
                  ELSE d.name # NoName /\ b.name # NoName /\ d.name # b.name

\* The variant keeps the target's sequence number.
Merged_Newer(d, b) == [d EXCEPT !.texts = Noted(@, b.texts)]
Merged(d, b) ==
    IF b.texts # {} THEN [d EXCEPT !.texts = Noted(@, b.texts)]
    ELSE IF d.name # NoName /\ b.name # NoName
    THEN [d EXCEPT !.seq_at_start = Least(@, b.seq_at_start)]
    ELSE d

\* upload_combine up to the reservation of the source's lanes.  Predicate lists
\* of different lengths (failed) end it before anything is merged.
Combine(s, r) ==
    LET d == Adopted([buf[s] EXCEPT !.made = TRUE], buf[r])
        want == buf[r].lanes
        exact == buf[r].exact \/ buf[s].exact
    IN /\ s # r /\ StmtOf[s] = StmtOf[r] /\ phase[StmtOf[s]] # "failed"
       /\ Quiet(s) /\ op[r].pc = "idle" /\ ~buf[s].final /\ buf[r].made
       /\ \E failed \in BOOLEAN :
           IF failed
           THEN /\ Fail(StmtOf[s]) /\ UNCHANGED op
                /\ buf' = [buf EXCEPT ![s] = d]
           ELSE /\ buf' = [buf EXCEPT ![s] =
                       IF Mismatch(d, buf[r]) THEN [d EXCEPT !.texts = Noted(@, buf[r].texts)]
                       ELSE Merged(d, buf[r])]
                /\ IF ~Mismatch(d, buf[r]) /\ Fits(want, exact)
                   THEN /\ op' = [op EXCEPT ![s] = [Idle EXCEPT !.pc = "combine",
                                                        !.want = want, !.src = r]]
                        /\ UNCHANGED phase
                   ELSE Fail(StmtOf[s]) /\ UNCHANGED op
       /\ UNCHANGED <<bytes, sessions, lock, seq, leaked>>

\* The buffer with the lanes of another: they are shared and charged once more,
\* because the pool counts logical bytes.
Joined(d, b) ==
    [d EXCEPT !.charged = @ + b.lanes, !.lanes = @ + b.lanes, !.from = @ \cup b.from,
              !.oldest = IF d.lanes = 0 THEN b.oldest
                         ELSE IF b.lanes = 0 THEN @ ELSE Least(@, b.oldest)]

CombineAdd(s) ==
    /\ op[s].pc = "combine"
    /\ bytes' = bytes + op[s].want
    /\ buf' = [buf EXCEPT ![s] = Joined(@, buf[op[s].src])]
    /\ op' = [op EXCEPT ![s] = Idle]
    /\ UNCHANGED <<phase, sessions, lock, seq, leaked>>

-----------------------------------------------------------------------------
(* finalize *)

\* The input is consumed.
EndOfInput(q) ==
    /\ phase[q] = "sink"
    /\ \A s \in State : StmtOf[s] = q => op[s].pc = "idle"
    /\ phase' = [phase EXCEPT ![q] = "finalize"]
    /\ UNCHANGED <<bytes, buf, op, sessions, lock, seq, leaked>>

Finalizing(s) ==
    /\ Quiet(s) /\ ~buf[s].final /\ buf[s].lanes > 0
    /\ phase[StmtOf[s]] = "finalize" /\ lock = NoState

\* A throw in finalize: the buffer is released, the statement fails.
Throw(s) ==
    /\ bytes' = bytes - buf[s].charged
    /\ buf' = [buf EXCEPT ![s] = Released(@)]
    /\ Fail(StmtOf[s])

\* The variant accepts segments of any kind.
KindFits_Any(ss, kind) == TRUE
KindFits(ss, kind) == ss.kind \in {"unset", kind}

\* session_append takes registry_mu and looks for a session of the name; a
\* segment of another kind, or one that does not fit, is refused.
FindSession(s) ==
    LET n == buf[s].name
        accepted == KindFits(sessions[n], KindOf[StmtOf[s]]) /\ Fits(buf[s].lanes, IsExact(s))
    IN /\ Finalizing(s) /\ sessions[n].open
       /\ IF accepted
          THEN /\ lock' = s
               /\ op' = [op EXCEPT ![s] = [Idle EXCEPT !.pc = "segment", !.want = buf[s].lanes]]
               /\ buf' = [buf EXCEPT ![s].final = TRUE]
               /\ UNCHANGED <<bytes, phase>>
          ELSE Throw(s) /\ UNCHANGED <<op, lock>>
       /\ UNCHANGED <<sessions, seq, leaked>>

\* The rest of session_append under the lock.  A collision is found after the
\* reservation, the kind and part of the dictionaries are in place.
AppendSegment(s) ==
    LET n == buf[s].name
        ss == sessions[n]
        begun == [ss EXCEPT !.kind = KindOf[StmtOf[s]], !.texts = Noted(@, buf[s].texts)]
        collides == Collides(ss.texts, buf[s].texts)
    IN /\ op[s].pc = "segment"
       /\ sessions' = [sessions EXCEPT ![n] =
              IF collides THEN begun
              ELSE [begun EXCEPT !.charged = @ + op[s].want, !.lanes = @ + buf[s].lanes,
                                 !.segments = @ + 1, !.from = @ \cup buf[s].from]]
       /\ IF collides
          THEN /\ bytes' = bytes + op[s].want - buf[s].charged
               /\ buf' = [buf EXCEPT ![s] = Released(@)]
               /\ Fail(StmtOf[s])
               /\ leaked' = leaked + op[s].want
          ELSE /\ bytes' = bytes + op[s].want
               /\ UNCHANGED <<buf, phase, leaked>>
       /\ lock' = NoState
       /\ op' = [op EXCEPT ![s] = Idle]
       /\ UNCHANGED seq

\* Without a session the statement uploads the buffer itself.
Upload(s) ==
    /\ Finalizing(s) /\ ~sessions[buf[s].name].open
    /\ buf' = [buf EXCEPT ![s].final = TRUE]
    /\ op' = [op EXCEPT ![s] = [Idle EXCEPT !.pc = "device", !.kind = KindOf[StmtOf[s]]]]
    /\ UNCHANGED <<bytes, phase, sessions, lock, seq, leaked>>

\* upload_state_destroy.
Destroy(s) ==
    /\ Quiet(s)
    /\ bytes' = bytes - buf[s].charged
    /\ buf' = [buf EXCEPT ![s] = [NoBuf EXCEPT !.live = FALSE]]
    /\ UNCHANGED <<phase, op, sessions, lock, seq, leaked>>

\* upload_state_init: the next statement, on states that are gone.
NewStatement(q) ==
    LET mine == {s \in State : StmtOf[s] = q}
    IN /\ \A s \in mine : ~buf[s].live /\ op[s].pc = "idle"
       /\ buf' = [s \in State |-> IF s \in mine THEN NoBuf ELSE buf[s]]
       /\ phase' = [phase EXCEPT ![q] = "sink"]
       /\ UNCHANGED <<bytes, op, sessions, lock, seq, leaked>>

-----------------------------------------------------------------------------
(* The device work of finish_upload, for a state or for a finished session *)

Held(a) == IF a \in State THEN buf[a].lanes ELSE op[a].held

\* A throw, or the end: the temporaries go back (PoolCharge), and a session's
\* charge in either case.  The variant forgets it when the upload fails.
SessionCharge_OnSuccess(a, failed) == IF failed THEN 0 ELSE op[a].held
SessionCharge(a, failed) == op[a].held

DeviceEnds(a, failed) ==
    LET own == IF a \in State /\ failed THEN buf[a].charged ELSE 0
    IN /\ bytes' = bytes - op[a].temp - SessionCharge(a, failed) - own
       /\ IF a \in State /\ failed
          THEN buf' = [buf EXCEPT ![a] = Released(@)] /\ Fail(StmtOf[a])
          ELSE UNCHANGED <<buf, phase>>
       /\ op' = [op EXCEPT ![a] = Idle]

\* The placed path of a column upload asks for an index of the rows and then
\* for as many lanes again; a refusal throws.
Borrow(a) ==
    /\ op[a].pc = "device" /\ op[a].kind = "strings"
    /\ IF Fits(Held(a), TRUE)
       THEN /\ op' = [op EXCEPT ![a].pc = "borrow", ![a].want = Held(a)]
            /\ UNCHANGED <<bytes, buf, phase>>
       ELSE DeviceEnds(a, TRUE)
    /\ UNCHANGED <<sessions, lock, seq, leaked>>

BorrowAdd(a) ==
    /\ op[a].pc = "borrow"
    /\ bytes' = bytes + op[a].want
    /\ op' = [op EXCEPT ![a].pc = "device", ![a].temp = @ + op[a].want, ![a].want = 0]
    /\ UNCHANGED <<buf, phase, sessions, lock, seq, leaked>>

\* PoolCharge::give, once the index is no longer needed.
Give(a) ==
    /\ op[a].pc = "device"
    /\ \E n \in 1..op[a].temp :
           /\ bytes' = bytes - n
           /\ op' = [op EXCEPT ![a].temp = @ - n]
    /\ UNCHANGED <<buf, phase, sessions, lock, seq, leaked>>

Device(a) ==
    /\ op[a].pc = "device"
    /\ \E failed \in BOOLEAN : DeviceEnds(a, failed)
    /\ UNCHANGED <<sessions, lock, seq, leaked>>

-----------------------------------------------------------------------------
(* Sessions, under registry_mu *)

\* gpu_upload_begin: the session it replaces gives its charge back.
Begin(n) ==
    /\ lock = NoState
    /\ bytes' = bytes - sessions[n].charged
    /\ sessions' = [sessions EXCEPT ![n] = [NoSession EXCEPT !.open = TRUE]]
    /\ UNCHANGED <<buf, phase, op, lock, seq, leaked>>

\* gpu_upload_abort.
Abort(n) ==
    /\ lock = NoState /\ sessions[n].open
    /\ bytes' = bytes - sessions[n].charged
    /\ sessions' = [sessions EXCEPT ![n] = NoSession]
    /\ UNCHANGED <<buf, phase, op, lock, seq, leaked>>

\* gpu_invalidate, as far as it touches the pool.
Invalidate(n) ==
    /\ lock = NoState /\ seq < MaxSeq
    /\ seq' = seq + 1
    /\ bytes' = bytes - sessions[n].charged
    /\ sessions' = [sessions EXCEPT ![n] = NoSession]
    /\ UNCHANGED <<buf, phase, op, lock, leaked>>

\* gpu_upload_finish takes the session away, whose charge it now holds; one
\* without lanes is refused.
Finish(f, n) ==
    /\ lock = NoState /\ op[f].pc = "idle" /\ sessions[n].open
    /\ sessions' = [sessions EXCEPT ![n] = NoSession]
    /\ IF sessions[n].lanes = 0
       THEN bytes' = bytes - sessions[n].charged /\ UNCHANGED op
       ELSE /\ op' = [op EXCEPT ![f] = [Idle EXCEPT !.pc = "device", !.held = sessions[n].charged,
                                                   !.kind = sessions[n].kind]]
            /\ UNCHANGED bytes
    /\ UNCHANGED <<buf, phase, lock, seq, leaked>>

-----------------------------------------------------------------------------
Next ==
    \/ \E s \in State :
        \/ Update(s) \/ UpdateAdd(s) \/ Fill(s)
        \/ \E r \in State : Combine(s, r)
        \/ CombineAdd(s) \/ FindSession(s) \/ AppendSegment(s) \/ Upload(s) \/ Destroy(s)
    \/ \E q \in Stmt : EndOfInput(q) \/ NewStatement(q)
    \/ \E a \in Agent : Borrow(a) \/ BorrowAdd(a) \/ Give(a) \/ Device(a)
    \/ \E n \in Name : Begin(n) \/ Abort(n) \/ Invalidate(n)
    \/ \E f \in Finisher, n \in Name : Finish(f, n)

Spec == Init /\ [][Next]_vars

-----------------------------------------------------------------------------
(* Properties *)

\* A sum is the number of rows it counts, f[a] of them for each a.
Rows(f) == UNION {{a} \X (1..f[a]) : a \in DOMAIN f}
Total(f) == Cardinality(Rows(f))

\* The bytes an agent has added and not yet handed to a buffer or released.
Owes(o) == o.held + o.temp + (IF o.pc = "fill" THEN o.want ELSE 0)

\* The bytes of a reservation whose load has passed the cap and whose add is to
\* come.
Wants(o) == IF o.pc \in {"update", "combine", "segment", "borrow"} THEN o.want ELSE 0

ChargedBufs == [s \in State |-> buf[s].charged]
ChargedSessions == [n \in Name |-> sessions[n].charged]
Outstanding == [a \in Agent |-> Owes(op[a])]
Pending == [a \in Agent |-> Wants(op[a])]

\* The pool counts every buffer, session and reservation in flight, once, on
\* every path through update, combine, finalize, finish, abort, replacement
\* and invalidation, and a statement's error releases exactly what it held;
\* only the reservations listed as leaked are nobody's.
PoolBalanced ==
    bytes = Total(ChargedBufs) + Total(ChargedSessions) + Total(Outstanding) + leaked

\* However the loads and adds of pool_reserve interleave, n threads never
\* count, or are about to count, more than n times the larger of the two caps,
\* whichever of them that is (exact_pool_cap_bytes returns a configured value
\* as it is).
OvershootBounded == bytes + Total(Pending) <= Widest * Cardinality(Agent)

\* The rows of a buffer or a session all carry its name, when no string lanes
\* are involved (set_buf_name, upload_combine, session_append).
OneName ==
    /\ \A s \in State : buf[s].texts = {} => buf[s].from \subseteq {buf[s].name}
    /\ \A n \in Name : sessions[n].texts = {} => sessions[n].from \subseteq {n}

\* A buffer without string lanes is checked against the oldest sequence number
\* of everything merged into it, so that an invalidation after the first of
\* them discards it.
SeqIsOldest ==
    \A s \in State : buf[s].lanes > 0 /\ buf[s].texts = {} => buf[s].seq_at_start <= buf[s].oldest

\* A session keeps the kind its first segment fixed: a segment of another kind
\* is refused and "does not corrupt the session" (KNOWN_ISSUES), so that finish
\* uploads rows of one layout.
SessionKeepsKind ==
    [][\A n \in Name : sessions[n].segments > 0 /\ sessions'[n].segments >= sessions[n].segments
           => sessions'[n].kind = sessions[n].kind]_vars

\* The comment on pool_reserve: every charge belongs to a buffer that releases
\* it.  Violated: session_append throws after its reservation.
NothingLeaked == leaked = 0

\* KNOWN_ISSUES: an upload that started before an invalidation is discarded.
\* Violated: upload_combine with dictionaries keeps the target's number.
OldestDecides == \A s \in State : buf[s].lanes > 0 => buf[s].seq_at_start <= buf[s].oldest

-----------------------------------------------------------------------------
(* The inductive invariant behind OneName, SeqIsOldest and SessionKeepsKind. *)

\* A buffer: rows come with a name, and it is named by its first row.
RowsSound(b) ==
    /\ b.texts = {} => b.from \subseteq {b.name}
    /\ b.lanes > 0 => b.name \in Name
    /\ b.lanes > 0 /\ b.texts = {} => b.seq_at_start <= b.oldest
    /\ b.lanes = 0 => b.from = {}
BufSound(s) == RowsSound(buf[s])

\* A buffer with a name and no rows is about to receive those of its source, or
\* belongs to a statement that failed.
NamedEmpty(s) ==
    buf[s].name # NoName /\ buf[s].lanes = 0 =>
        \/ op[s].pc = "combine" /\ buf[op[s].src].lanes > 0
        \/ op[s].pc = "idle" /\ phase[StmtOf[s]] = "failed"

\* Between the two steps of a combine the source stands still and fits.
CombineSound(s) ==
    op[s].pc = "combine" =>
        LET b == buf[op[s].src]
        IN /\ op[s].src \in State /\ op[s].src # s /\ op[op[s].src].pc = "idle"
           /\ StmtOf[op[s].src] = StmtOf[s] /\ op[s].want = b.lanes
           /\ b.lanes > 0 => buf[s].name \in Name
           /\ buf[s].texts = {} =>
                  /\ b.texts = {} /\ b.name \in {NoName, buf[s].name}
                  /\ b.lanes > 0 => buf[s].seq_at_start <= b.oldest

\* Between the two steps of an append registry_mu is held, and nobody touches
\* the session.
SegmentSound(s) ==
    op[s].pc = "segment" =>
        /\ lock = s /\ op[s].want = buf[s].lanes /\ buf[s].lanes > 0
        /\ sessions[buf[s].name].open
        /\ sessions[buf[s].name].kind \in {"unset", KindOf[StmtOf[s]]}

SessionSound(n) ==
    /\ sessions[n].segments > 0 => sessions[n].open /\ sessions[n].kind # "unset"
    /\ sessions[n].lanes > 0 => sessions[n].segments > 0
    /\ sessions[n].texts = {} => sessions[n].from \subseteq {n}

PoolInv ==
    /\ TypeOK
    /\ lock # NoState => op[lock].pc = "segment"
    /\ \A s \in State : BufSound(s) /\ NamedEmpty(s) /\ CombineSound(s) /\ SegmentSound(s)
    /\ \A n \in Name : SessionSound(n)
=============================================================================
