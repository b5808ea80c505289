-------------------------- MODULE ResidentRegistry --------------------------
(***************************************************************************)
(* The resident-set registry of the extension                              *)
(* (src/extension/gpu_resident.cpp, ResidentContext): the sets operators   *)
(* read, the table stores their views are built over, the open upload      *)
(* sessions and the invalidation log, shared by every thread of a process. *)
(*                                                                         *)
(* One action is one critical section of registry_mu, or one step a thread *)
(* takes outside it.  The rows themselves are abstracted to two stamps per *)
(* column, both values of inval_seq: since, the sequence number the upload *)
(* is checked against, and asOf, the one in force when the oldest scan     *)
(* behind the column took its snapshot.                                    *)
(*                                                                         *)
(* A name stands for an identity tag.  TableOf[n] is the prefix of the tag *)
(* that gpu_invalidate is called with: "gpudb:v1:catalog:schema:table:oid" *)
(* for a managed set, the set's own name for an explicit one.  Every name  *)
(* a prefix matches is a name n with TableOf[n] equal to it.               *)
(***************************************************************************)
EXTENDS Integers, FiniteSets

CONSTANTS
    Table,      \* prefixes of identity tags; also the keys of the stores
    Lane,       \* the columns of a table a store can hold
    View,       \* tags a view over the table's store answers
    Own,        \* tags of sets uploaded with columns of their own
    Join,       \* tags of the results of gpu_join_materialize
    Managed,    \* the names that are identity tags, not chosen by the user
    TableOf,    \* the prefix of each tag
    LanesOf,    \* the lanes a view's tag names
    Probe, Build,  \* the two sources of each join
    Thread,     \* threads running operators and upload statements
    NoName,     \* no name
    InvalCap,   \* records the invalidation log keeps (1024 in the code)
    MaxSeq,     \* bound on the number of invalidations
    MaxSets,    \* bound on the number of set objects ever created
    MaxGen,     \* bound on the number of publications into stores
    MaxSegments \* bound on the segments of one session

Name == View \cup Own \cup Join

ASSUME NamesAssumption ==
    /\ NoName \notin Name
    /\ View \cap Own = {} /\ View \cap Join = {} /\ Own \cap Join = {}
    /\ View \subseteq Managed /\ Managed \subseteq Name
    /\ TableOf \in [Name -> Table]
    /\ LanesOf \in [View -> (SUBSET Lane) \ {{}}]
    /\ Probe \in [Join -> Name] /\ Build \in [Join -> Name]
    /\ \A n \in Join : Probe[n] # n /\ Build[n] # n

ASSUME BoundsAssumption ==
    /\ InvalCap \in Nat \ {0} /\ MaxSeq \in Nat /\ MaxSets \in Nat
    /\ MaxGen \in Nat /\ MaxSegments \in Nat

VARIABLES
    registry,   \* name -> id of the set registered under it, or NoSet
    sets,       \* the set objects, by id: they outlive their registration
    nsets,      \* ids handed out
    stores,     \* table -> its store; no lanes = no store
    gen,        \* publications into stores so far: a column's identity
    sessions,   \* open upload sessions
    seq,        \* inval_seq
    log,        \* invals: sequence number recorded per prefix, 0 = none
    threads,    \* what each thread is doing
    last,       \* history: last invalidation of each table, never pruned
    revived     \* history: sets whose Stale mark was overwritten

vars == <<registry, sets, nsets, stores, gen, sessions, seq, log, threads, last, revived>>

NoSet == 0
SetId == 1..MaxSets
Seq0 == 0..MaxSeq
Whole == "whole"            \* the lane of a column owned by an uploaded set

Column == [table : Table, lane : Lane \cup {Whole}, gen : 0..MaxGen,
           since : Seq0, asOf : Seq0]

ResidentSet == [name : Name \cup {NoName}, state : {"Uploaded", "Ready", "Stale"},
                cols : SUBSET Column, deps : SUBSET SetId, rows_seen : 0..MaxSegments + 1]
Blank == [name |-> NoName, state |-> "Stale", cols |-> {}, deps |-> {}, rows_seen |-> 0]

TableStore == [rows_seen : 0..MaxSegments + 1, cols : SUBSET Column]
NoStore == [rows_seen |-> 0, cols |-> {}]

Session == [open : BOOLEAN, seq_at_start : Seq0, segments : 0..MaxSegments, asOf : Seq0]
NoSession == [open |-> FALSE, seq_at_start |-> 0, segments |-> 0, asOf |-> 0]
UploadName == View \cup Own

Thr == [pc : {"idle", "prepare", "check", "deps", "serve", "build", "join",
              "scan", "buffered", "device"},
        job : {"none", "operator", "prepare", "join", "upload"},
        name : Name \cup {NoName}, out : Name \cup {NoName},
        set : SetId \cup {NoSet}, got : SUBSET SetId,
        seen : [Table -> Seq0], seq_at_start : Seq0, asOf : Seq0,
        rows : 0..MaxSegments + 1]
Idle == [pc |-> "idle", job |-> "none", name |-> NoName, out |-> NoName,
         set |-> NoSet, got |-> {}, seen |-> [t \in Table |-> 0],
         seq_at_start |-> 0, asOf |-> 0, rows |-> 0]

TypeOK ==
    /\ registry \in [Name -> SetId \cup {NoSet}]
    /\ sets \in [SetId -> ResidentSet]
    /\ nsets \in 0..MaxSets
    /\ stores \in [Table -> TableStore]
    /\ gen \in 0..MaxGen
    /\ sessions \in [UploadName -> Session]
    /\ seq \in Seq0
    /\ log \in [Table -> Seq0]
    /\ threads \in [Thread -> Thr]
    /\ last \in [Table -> Seq0]
    /\ revived \subseteq SetId

Init ==
    /\ registry = [n \in Name |-> NoSet]
    /\ sets = [s \in SetId |-> Blank]
    /\ nsets = 0
    /\ stores = [t \in Table |-> NoStore]
    /\ gen = 0
    /\ sessions = [n \in UploadName |-> NoSession]
    /\ seq = 0
    /\ log = [t \in Table |-> 0]
    /\ threads = [p \in Thread |-> Idle]
    /\ last = [t \in Table |-> 0]
    /\ revived = {}

-----------------------------------------------------------------------------
(* Invalidation *)

\* The log after a record for t: its own older record is replaced, and at the
\* cap the oldest remaining one is dropped.
Recorded(t, n) ==
    LET others == {u \in Table \ {t} : log[u] # 0}
        oldest(u) == \A v \in others : log[u] <= log[v]
        full == Cardinality(others) >= InvalCap
    IN [u \in Table |-> IF u = t THEN n
                        ELSE IF full /\ u \in others /\ oldest(u) THEN 0
                        ELSE log[u]]

\* The variant forgets the upload that was overtaken by one invalidation.
InvalidatedSince_OffByOne(t, s) == log[t] > s + 1

\* An upload that started at sequence number s is to be discarded.
InvalidatedSince(t, s) == log[t] > s

\* The open uploads of t are closed.  The variant leaves them open.
ClosedSessions_None(t) == sessions
ClosedSessions(t) == [n \in UploadName |-> IF TableOf[n] = t THEN NoSession ELSE sessions[n]]

\* gpu_invalidate(t): the sets go stale, the store and the sessions go away.
Invalidate(t) ==
    /\ seq < MaxSeq
    /\ seq' = seq + 1
    /\ LET hit == {registry[n] : n \in {m \in Name : TableOf[m] = t}}
       IN sets' = [s \in SetId |-> IF s \in hit THEN [sets[s] EXCEPT !.state = "Stale"]
                                                ELSE sets[s]]
    /\ stores' = [stores EXCEPT ![t] = NoStore]
    /\ sessions' = ClosedSessions(t)
    /\ log' = Recorded(t, seq + 1)
    /\ last' = [last EXCEPT ![t] = seq + 1]
    /\ UNCHANGED <<registry, nsets, gen, threads, revived>>

-----------------------------------------------------------------------------
(* Lookup: a registered set, or a view synthesised over the table's store *)

StoreLanes(t) == {c.lane : c \in stores[t].cols}

\* A stale view is only a stale name: the store may hold fresh columns again.
Registered(n) ==
    /\ registry[n] # NoSet
    /\ ~(n \in View /\ sets[registry[n]].state = "Stale")

ViewSet(n) ==
    [name |-> n, state |-> "Uploaded", deps |-> {},
     cols |-> {c \in stores[TableOf[n]].cols : c.lane \in LanesOf[n]},
     rows_seen |-> stores[TableOf[n]].rows_seen]

\* find_or_view_locked, and the first critical section of acquire: s is the
\* set the caller goes on with, NoSet when there is none.
FindOrView(n, s) ==
    \/ /\ Registered(n)
       /\ s = registry[n]
       /\ UNCHANGED <<registry, sets, nsets>>
    \/ /\ ~Registered(n)
       /\ n \in View /\ LanesOf[n] \subseteq StoreLanes(TableOf[n])
       /\ nsets < MaxSets
       /\ s = nsets + 1
       /\ nsets' = s
       /\ sets' = [sets EXCEPT ![s] = ViewSet(n)]
       /\ registry' = [registry EXCEPT ![n] = s]
    \/ /\ ~Registered(n)
       /\ ~(n \in View /\ LanesOf[n] \subseteq StoreLanes(TableOf[n]))
       /\ s = NoSet
       /\ registry' = [registry EXCEPT ![n] = NoSet]
       /\ UNCHANGED <<sets, nsets>>

\* gpu_assert_rows, and the lookup with which acquire_column starts: a view
\* may be registered that nobody has prepared.
Touch(n) ==
    /\ \E s \in SetId \cup {NoSet} : FindOrView(n, s)
    /\ UNCHANGED <<stores, gen, sessions, seq, log, threads, last, revived>>

\* The lookup in acquire.  Only the thread that synthesised the view goes
\* on to prepare it.
Lookup(p, n, thr) ==
    \E s \in SetId \cup {NoSet} :
        /\ FindOrView(n, s)
        /\ threads' = [threads EXCEPT ![p] =
               IF s = NoSet THEN Idle
               ELSE [thr EXCEPT !.name = n, !.set = s,
                                !.pc = IF Registered(n) THEN "check" ELSE "prepare"]]

\* An operator or gpu_prepare_resident is called on n.
Call(p, n, job) ==
    /\ threads[p].pc = "idle"
    /\ Lookup(p, n, [Idle EXCEPT !.job = job, !.seen = last])
    /\ UNCHANGED <<stores, gen, sessions, seq, log, last, revived>>

\* acquire, outside the lock: build the key column's sort cache, then store
\* Ready whatever the state has become.
Prepare(p) ==
    LET s == threads[p].set
    IN /\ threads[p].pc = "prepare"
       /\ sets' = [sets EXCEPT ![s].state = "Ready"]
       /\ revived' = IF sets[s].state = "Stale" THEN revived \cup {s} ELSE revived
       /\ threads' = [threads EXCEPT ![p].pc = "check"]
       /\ UNCHANGED <<registry, nsets, stores, gen, sessions, seq, log, last>>

\* The set is handed to the caller: an operator runs on it, a join goes on to
\* its build side or to the device.
Granted(thr) ==
    IF thr.job = "join"
    THEN [thr EXCEPT !.got = @ \cup {thr.set}, !.set = NoSet,
                     !.pc = IF thr.got = {} THEN "build" ELSE "join"]
    ELSE [thr EXCEPT !.pc = "serve"]

\* acquire, outside the lock: the staleness test.
Check(p) ==
    LET s == threads[p].set
    IN /\ threads[p].pc = "check"
       /\ threads' = [threads EXCEPT ![p] =
              IF sets[s].state = "Stale" THEN Idle
              ELSE IF sets[s].deps # {} THEN [@ EXCEPT !.pc = "deps"]
              ELSE Granted(@)]
       /\ UNCHANGED <<registry, sets, nsets, stores, gen, sessions, seq, log, last, revived>>

\* The variant looks at the name alone.
DepsCurrent_ByName(s) == \A d \in sets[s].deps : registry[sets[d].name] # NoSet

\* Every source is still the registry's current, non-stale set of its name.
DepsCurrent(s) ==
    \A d \in sets[s].deps : registry[sets[d].name] = d /\ sets[d].state # "Stale"

\* acquire of a joined set, under the lock again: its sources decide.
CheckDeps(p) ==
    LET s == threads[p].set
    IN /\ threads[p].pc = "deps"
       /\ IF DepsCurrent(s)
          THEN /\ threads' = [threads EXCEPT ![p] = Granted(@)]
               /\ UNCHANGED sets
          ELSE /\ threads' = [threads EXCEPT ![p] = Idle]
               /\ sets' = [sets EXCEPT ![s].state = "Stale"]
       /\ UNCHANGED <<registry, nsets, stores, gen, sessions, seq, log, last, revived>>

\* An operator has read the set and returns.
Return(p) ==
    /\ threads[p].pc = "serve" /\ threads[p].job = "operator"
    /\ threads' = [threads EXCEPT ![p] = Idle]
    /\ UNCHANGED <<registry, sets, nsets, stores, gen, sessions, seq, log, last, revived>>

\* The state gpu_prepare_resident leaves a set in: a compare-and-swap.  The
\* variant stores Ready, as acquire does.
Prepared_Stored(state) == "Ready"
Prepared(state) == IF state = "Uploaded" THEN "Ready" ELSE state

\* gpu_prepare_resident: a stale set stays stale.
PrepareResident(p) ==
    LET s == threads[p].set
    IN /\ threads[p].pc = "serve" /\ threads[p].job = "prepare"
       /\ sets' = [sets EXCEPT ![s].state = Prepared(@)]
       /\ threads' = [threads EXCEPT ![p] = Idle]
       /\ UNCHANGED <<registry, nsets, stores, gen, sessions, seq, log, last, revived>>

-----------------------------------------------------------------------------
(* gpu_join_materialize *)

\* The sequence number is read before the sources are acquired.
JoinBegin(p, n) ==
    /\ threads[p].pc = "idle"
    /\ Lookup(p, Probe[n], [Idle EXCEPT !.job = "join", !.out = n, !.seen = last,
                                        !.seq_at_start = seq])
    /\ UNCHANGED <<stores, gen, sessions, seq, log, last, revived>>

JoinBuild(p) ==
    /\ threads[p].pc = "build"
    /\ Lookup(p, Build[threads[p].out], threads[p])
    /\ UNCHANGED <<stores, gen, sessions, seq, log, last, revived>>

\* The variant records a join as a source like any other.
Sources_Nested(got) == got

\* A source that is itself a join hands down its own sources: the rows were
\* copied, only the base sets decide staleness.
Sources(got) == UNION {IF sets[g].deps = {} THEN {g} ELSE sets[g].deps : g \in got}

\* A managed set is prepared before it is published, an explicit one when
\* gpu_prepare_resident is called on it.
PublishedState(n) == IF n \in Managed THEN "Ready" ELSE "Uploaded"

\* Replace-or-insert under set.name, unless the upload was invalidated.
Publish(set, start) ==
    IF InvalidatedSince(TableOf[set.name], start)
    THEN UNCHANGED <<registry, sets, nsets>>
    ELSE /\ nsets < MaxSets
         /\ nsets' = nsets + 1
         /\ sets' = [sets EXCEPT ![nsets + 1] = set]
         /\ registry' = [registry EXCEPT ![set.name] = nsets + 1]

JoinPublish(p) ==
    LET thr == threads[p]
    IN /\ thr.pc = "join"
       /\ Publish([name |-> thr.out, state |-> PublishedState(thr.out), deps |-> Sources(thr.got),
                   cols |-> UNION {sets[g].cols : g \in thr.got}, rows_seen |-> 0],
                  thr.seq_at_start)
       /\ threads' = [threads EXCEPT ![p] = Idle]
       /\ UNCHANGED <<stores, gen, sessions, seq, log, last, revived>>

-----------------------------------------------------------------------------
(* Uploads: one aggregate statement, or a session of segment statements *)

\* The statement starts: DuckDB fixes the snapshot the scan will read.
Scan(p, n) ==
    /\ threads[p].pc = "idle"
    /\ threads' = [threads EXCEPT ![p] = [Idle EXCEPT !.pc = "scan", !.job = "upload",
                                                      !.name = n, !.asOf = seq, !.rows = 1]]
    /\ UNCHANGED <<registry, sets, nsets, stores, gen, sessions, seq, log, last, revived>>

\* set_buf_name, on the first row that reaches the aggregate.
FirstRow(p) ==
    /\ threads[p].pc = "scan"
    /\ threads' = [threads EXCEPT ![p].pc = "buffered", ![p].seq_at_start = seq]
    /\ UNCHANGED <<registry, sets, nsets, stores, gen, sessions, seq, log, last, revived>>

\* An error or an interrupt (a sort cache or a device allocation that fails
\* included): the buffer is freed; a view that was registered stays.
StatementFails(p) ==
    /\ threads[p].pc \in {"prepare", "scan", "buffered", "device", "join"}
    /\ threads' = [threads EXCEPT ![p] = Idle]
    /\ UNCHANGED <<registry, sets, nsets, stores, gen, sessions, seq, log, last, revived>>

\* finalize with a session open under the name: the buffer becomes a segment.
SessionAppend(p) ==
    LET n == threads[p].name
        ss == sessions[n]
    IN /\ threads[p].pc = "buffered"
       /\ ss.open /\ ss.segments < MaxSegments
       /\ sessions' = [sessions EXCEPT ![n].segments = @ + 1,
              ![n].asOf = IF ss.segments = 0 \/ threads[p].asOf < @ THEN threads[p].asOf ELSE @]
       /\ threads' = [threads EXCEPT ![p] = Idle]
       /\ UNCHANGED <<registry, sets, nsets, stores, gen, seq, log, last, revived>>

\* finalize without one: the statement itself uploads and publishes.
Finalize(p) ==
    /\ threads[p].pc = "buffered"
    /\ ~sessions[threads[p].name].open
    /\ threads' = [threads EXCEPT ![p].pc = "device"]
    /\ UNCHANGED <<registry, sets, nsets, stores, gen, sessions, seq, log, last, revived>>

\* gpu_upload_begin: open, or replace, the session.
Begin(n) ==
    /\ sessions' = [sessions EXCEPT ![n] = [NoSession EXCEPT !.open = TRUE, !.seq_at_start = seq]]
    /\ UNCHANGED <<registry, sets, nsets, stores, gen, seq, log, threads, last, revived>>

\* gpu_upload_abort.
Abort(n) ==
    /\ sessions[n].open
    /\ sessions' = [sessions EXCEPT ![n] = NoSession]
    /\ UNCHANGED <<registry, sets, nsets, stores, gen, seq, log, threads, last, revived>>

\* gpu_upload_finish takes the session out of the table before the device
\* work; one without rows is refused and is gone as well.
Finish(p, n) ==
    /\ threads[p].pc = "idle"
    /\ sessions[n].open
    /\ sessions' = [sessions EXCEPT ![n] = NoSession]
    /\ threads' = [threads EXCEPT ![p] =
           IF sessions[n].segments = 0 THEN Idle
           ELSE [Idle EXCEPT !.pc = "device", !.job = "upload", !.name = n,
                             !.seq_at_start = sessions[n].seq_at_start,
                             !.asOf = sessions[n].asOf, !.rows = sessions[n].segments]]
    /\ UNCHANGED <<registry, sets, nsets, stores, gen, seq, log, last, revived>>

\* The columns a finished upload brings.
NewColumns(thr, lanes) ==
    {[table |-> TableOf[thr.name], lane |-> l, gen |-> gen',
      since |-> thr.seq_at_start, asOf |-> thr.asOf] : l \in lanes}

\* publish_set: a set with columns of its own.
PublishOwn(p) ==
    LET thr == threads[p]
    IN /\ thr.pc = "device" /\ thr.name \in Own
       /\ gen' = gen
       /\ Publish([name |-> thr.name, state |-> PublishedState(thr.name), deps |-> {},
                   cols |-> NewColumns(thr, {Whole}), rows_seen |-> thr.rows],
                  thr.seq_at_start)
       /\ threads' = [threads EXCEPT ![p] = Idle]
       /\ UNCHANGED <<stores, sessions, seq, log, last, revived>>

\* What stays of a store that was built from as many rows.  The variant leaves
\* the lanes in place that the upload replaces.
Kept_Replaced(cols, lanes) == cols
Kept(cols, lanes) == {c \in cols : c.lane \notin lanes}

\* The store was built from as many rows.  The variant does not compare.
SameRows_Any(t, rows) == TRUE
SameRows(t, rows) == stores[t].rows_seen = rows

\* finish_upload_columns: the lanes go into the table's store.  A store built
\* from another row count is replaced, and every view on it goes stale.
PublishColumns(p) ==
    LET thr == threads[p]
        t == TableOf[thr.name]
        lanes == LanesOf[thr.name]
        present == stores[t].cols # {}
        same == present /\ SameRows(t, thr.rows)
        kept == IF same THEN Kept(stores[t].cols, lanes) ELSE {}
        onOld == {registry[n] : n \in {m \in View : TableOf[m] = t}}
    IN /\ thr.pc = "device" /\ thr.name \in View
       /\ IF InvalidatedSince(t, thr.seq_at_start)
          THEN UNCHANGED <<sets, stores, gen>>
          ELSE /\ gen < MaxGen
               /\ gen' = gen + 1
               /\ stores' = [stores EXCEPT ![t] =
                      [rows_seen |-> thr.rows, cols |-> kept \cup NewColumns(thr, lanes)]]
               /\ sets' = [s \in SetId |->
                      IF present /\ ~same /\ s \in onOld
                      THEN [sets[s] EXCEPT !.state = "Stale"] ELSE sets[s]]
       /\ threads' = [threads EXCEPT ![p] = Idle]
       /\ UNCHANGED <<registry, nsets, sessions, seq, log, last, revived>>

-----------------------------------------------------------------------------
(* Eviction *)

\* gpu_drop_resident.  Calls that hold the set keep it.
DropResident(n) ==
    /\ registry[n] # NoSet
    /\ registry' = [registry EXCEPT ![n] = NoSet]
    /\ UNCHANGED <<sets, nsets, stores, gen, sessions, seq, log, threads, last, revived>>

\* gpu_drop_column: the views that read the store's column are dropped too.
DropColumn(t, l) ==
    \E col \in stores[t].cols :
        /\ col.lane = l
        /\ LET rest == stores[t].cols \ {col}
               uses(n) == n \in View /\ registry[n] # NoSet /\ col \in sets[registry[n]].cols
           IN /\ stores' = [stores EXCEPT ![t] =
                     IF rest = {} THEN NoStore ELSE [@ EXCEPT !.cols = rest]]
              /\ registry' = [n \in Name |-> IF uses(n) THEN NoSet ELSE registry[n]]
              /\ sets' = [s \in SetId |-> IF \E n \in Name : uses(n) /\ registry[n] = s
                                          THEN [sets[s] EXCEPT !.state = "Stale"] ELSE sets[s]]
        /\ UNCHANGED <<nsets, gen, sessions, seq, log, threads, last, revived>>

-----------------------------------------------------------------------------
Next ==
    \/ \E t \in Table : Invalidate(t)
    \/ \E n \in Name : Touch(n) \/ DropResident(n)
    \/ \E t \in Table, l \in Lane : DropColumn(t, l)
    \/ \E n \in UploadName : Begin(n) \/ Abort(n)
    \/ \E p \in Thread :
        \/ \E n \in Name, job \in {"operator", "prepare"} : Call(p, n, job)
        \/ \E n \in Join : JoinBegin(p, n)
        \/ \E n \in UploadName : Scan(p, n) \/ Finish(p, n)
        \/ Prepare(p) \/ Check(p) \/ CheckDeps(p) \/ Return(p) \/ PrepareResident(p)
        \/ JoinBuild(p) \/ JoinPublish(p)
        \/ FirstRow(p) \/ StatementFails(p) \/ SessionAppend(p) \/ Finalize(p)
        \/ PublishOwn(p) \/ PublishColumns(p)

Spec == Init /\ [][Next]_vars

-----------------------------------------------------------------------------
(* Properties *)

\* A column is fresh for a reader when its upload started (as the extension
\* counts it) no earlier than every invalidation the reader has to respect.
Fresh(cols, since) == \A c \in cols : c.since >= since[c.table]

\* No lane in a store, and no uploaded set that is not marked stale, comes
\* from an upload that started before the last invalidation of its table and
\* finished after it (invalidated_since_locked at every publish).  Holds as
\* long as the log has a record for every table: the comment on invals says
\* nothing of what a pruned record would have discarded.
PublishedFresh ==
    /\ \A t \in Table : Fresh(stores[t].cols, last)
    /\ \A n \in Own : LET s == registry[n]
                     IN s # NoSet /\ sets[s].state # "Stale" => Fresh(sets[s].cols, last)

\* The sets a reader of set s depends on.
Bases(s) == IF sets[s].deps = {} THEN {s} ELSE sets[s].deps

\* An operator never runs on data invalidated before it was called: through
\* its own set, through a view shared with others, or through the sources of
\* a join, whatever ran between its lookup and its checks.  The one way out
\* is a set whose Stale mark acquire itself overwrote.
ServedFresh ==
    \A p \in Thread : threads[p].pc = "serve" /\ Bases(threads[p].set) \cap revived = {}
        => Fresh(sets[threads[p].set].cols, threads[p].seen)

\* A joined set never lists a joined set as its source, so that the recursion
\* of deps_current_locked stops after one level, and it holds no column its
\* sources do not hold.
JoinsFlat ==
    \A s \in 1..nsets : sets[s].deps # {} =>
        /\ \A d \in sets[s].deps : sets[d].deps = {}
        /\ sets[s].cols \subseteq UNION {sets[d].cols : d \in sets[s].deps}

\* An open session has not been invalidated since it began, so that finish is
\* discarded only for an invalidation of the time the device works
\* ("invalidated":true is never what gpu_upload_status of an open one says).
OpenSessionCurrent ==
    \A n \in UploadName : sessions[n].open => sessions[n].seq_at_start >= last[TableOf[n]]

\* Only the step that finishes a synthesised view makes a stale set usable
\* again; gpu_prepare_resident, a re-upload and a join never do.
StaleSticks ==
    [][\A s \in 1..nsets : sets[s].state = "Stale" /\ sets'[s].state # "Stale"
           => \E p \in Thread : threads[p].pc = "prepare" /\ threads[p].set = s]_vars

\* The comment on SetState: operators refuse a set once it is marked Stale.
\* Violated: acquire overwrites the mark of a view it has just synthesised,
\* and every later call is answered from the invalidated columns.
StaleRefused ==
    \A p \in Thread : threads[p].pc = "serve"
        => Fresh(sets[threads[p].set].cols, threads[p].seen)

\* KNOWN_ISSUES: a write that lands mid-upload must not produce a set built
\* from a stale snapshot.  Violated: the segment of a statement that started
\* before the invalidation is appended to the session begun after it.
SegmentsFresh ==
    \A n \in UploadName : sessions[n].open /\ sessions[n].segments > 0
        => sessions[n].asOf >= last[TableOf[n]]

\* The stores are a cache emptied and filled in single steps, whatever the
\* sessions, the log and the threads do in between, and an upload that saw
\* another row count takes the place of every lane (finish_upload_columns).
Entries(store) == {[lane |-> c.lane, since |-> c.since, gen |-> c.gen, rows |-> store.rows_seen]
                     : c \in store.cols}
Cache == INSTANCE FreshCache WITH cached <- [t \in Table |-> Entries(stores[t])],
                                  Rows <- 0..MaxSegments + 1
StoresAreACache == Cache!Spec

-----------------------------------------------------------------------------
(* The inductive invariant behind PublishedFresh, ServedFresh, JoinsFlat and *)
(* OpenSessionCurrent: one part per structure.                               *)

\* The log has the last invalidation of every table.
LogExact == log = last /\ \A t \in Table : last[t] <= seq

\* A store holds columns of its own table, one per lane, and none is older
\* than the table's last invalidation.
StoresSound ==
    \A t \in Table : \A c \in stores[t].cols :
        /\ c.table = t /\ c.lane \in Lane /\ c.since >= last[t] /\ c.since <= seq
        /\ \A d \in stores[t].cols : d.lane = c.lane => d = c

\* A set object: only joins have sources, which are no joins and hold every
\* column of the join; any other set reads the table of its tag.
SetSound(s) ==
    /\ sets[s].name \in Name
    /\ sets[s].deps \subseteq 1..nsets
    /\ sets[s].deps # {} <=> sets[s].name \in Join
    /\ sets[s].deps = {} => \A c \in sets[s].cols : c.table = TableOf[sets[s].name]
    /\ sets[s].deps # {} =>
           /\ \A d \in sets[s].deps : sets[d].deps = {}
           /\ sets[s].cols \subseteq UNION {sets[d].cols : d \in sets[s].deps}
SetsSound == \A s \in 1..nsets : SetSound(s)

\* A set sits under its own name, and what can be found is fresh now.
RegistrySound ==
    \A n \in Name : LET s == registry[n]
        IN s # NoSet =>
            /\ s \in 1..nsets /\ sets[s].name = n
            /\ s \notin revived /\ sets[s].deps = {} /\ sets[s].state # "Stale"
                   => Fresh(sets[s].cols, last)

\* Only synthesised views are ever revived.
RevivedSound == \A s \in revived : s \in 1..nsets /\ sets[s].name \in View

\* A thread holds sets that exist; in the middle of an upload or a join it
\* knows what it will publish; what it has found was fresh when it was called
\* or has been marked since.
ThreadSound(thr) ==
    /\ thr.got \subseteq 1..nsets
    /\ thr.pc \in {"prepare", "check", "deps", "serve"} => thr.set \in 1..nsets
    /\ thr.pc \in {"scan", "buffered", "device"} => thr.name \in UploadName
    /\ thr.job = "join" => thr.out \in Join
    /\ thr.pc \in {"build", "join"} => thr.job = "join"
    /\ thr.pc = "join" => thr.got # {}
    /\ thr.pc = "prepare" => sets[thr.set].name \in View
    /\ thr.pc = "deps" => sets[thr.set].deps # {}
    /\ thr.seq_at_start <= seq
    /\ \A t \in Table : thr.seen[t] <= last[t]
    /\ thr.pc \in {"prepare", "check", "deps"} /\ thr.set \notin revived
           /\ sets[thr.set].deps = {} /\ sets[thr.set].state # "Stale"
           => Fresh(sets[thr.set].cols, thr.seen)
    /\ thr.pc = "serve" /\ Bases(thr.set) \cap revived = {}
           => Fresh(sets[thr.set].cols, thr.seen)
ThreadsSound == \A p \in Thread : ThreadSound(threads[p])

\* A session that is open began after the last invalidation of its table.
SessionsSound ==
    OpenSessionCurrent /\ \A n \in UploadName : sessions[n].seq_at_start <= seq

RegistryInv ==
    /\ TypeOK /\ LogExact /\ StoresSound /\ SetsSound /\ RegistrySound
    /\ RevivedSound /\ ThreadsSound /\ SessionsSound
=============================================================================
