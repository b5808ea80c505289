--------------------------- MODULE ResidencyManager ---------------------------
(***************************************************************************)
(* The background residency of the Python wrapper: the manager of          *)
(* src/python/gpudb/_residency.py with its one worker, and the statements  *)
(* of one connection (connection.py) over it.  The worker uploads what     *)
(* statements asked for, segment by segment and only while no statement    *)
(* runs; a statement interrupts it; a write invalidates first and runs     *)
(* then; another connection may write at any time and shows only in the    *)
(* database file.  The extension is external here: a session, and what it  *)
(* holds of each set (ResidentRegistry and UploadPool have its code).      *)
(* Clocks are abstract: a wait that is over is a Tick.  Epochs, room and   *)
(* budget are compared for equality only, so the model keeps whether they  *)
(* moved since they were recorded.                                         *)
(***************************************************************************)
EXTENDS Integers, FiniteSetsExt, SequencesExt

CONSTANTS
    Queue,          \* the sets in the order they were noted, sources first
    Source,         \* set -> the sets it is derived from
    Loads,          \* [ask, budget, segments, writes, foreign]: what is asked for, sets
                    \* the device holds, segments of a table, the bound on writes, and
                    \* whether another connection may commit one
    MaxAttempts, PostMax,
    NoSet

Sets == ToSet(Queue)
ASSUME ManagerAssumption ==
    /\ Source \in [Sets -> SUBSET Sets]
    /\ \A t \in Sets : \A b \in Source[t] : Source[b] = {} /\ b # t
    /\ \A l \in Loads : /\ l.ask \subseteq Sets /\ l.writes \in Nat
                        /\ {l.budget, l.segments} \subseteq Nat \ {0} /\ l.foreign \in BOOLEAN
    /\ {MaxAttempts, PostMax} \subseteq Nat \ {0} /\ NoSet \notin Sets

VARIABLES
    load,       \* the workload, chosen once
    data,       \* version of the tables: committed writes
    snap,       \* version the file snapshot of the connection was taken at
    st,         \* set -> state
    held,       \* set -> its recipe has nothing to upload: "every lane is in the store"
    att,        \* set -> attempts, counted up to MaxAttempts
    refusal,    \* set -> "none", "stands", "moved": what it was taken against
    cool,       \* set -> resume_at lies ahead
    inFlight,   \* statements in flight
    w,          \* the worker: "pick", "room", "evict", "holds", "wait", "go", "run", "check"
    phase,      \* its statement: "open", "seg", "finish", "post", "step"
    cur,        \* the set it works on
    victim,     \* the set it evicts
    moved,      \* the epoch it captured is not the set's any more
    done,       \* segments landed; tries of the post step
    cut,        \* an interrupt is on its way to the running statement
    scan,       \* the running segment: [ver, old], old if invalidated since it started
    ext,        \* set -> parts the extension holds: [seg, ver], the version it was read at
    sess,       \* the open upload session: NoSet or parts
    u,          \* the connection: "idle", "drop", "begin", "run", "requeue", "end"
    stmt,       \* its statement: [kind, tag, asof]
    answer,     \* parts a rewritten statement was answered from
    oom         \* sets an operator ran out of memory over, nothing having changed since

sched == <<st, held, att, refusal, cool>>
worker == <<w, phase, cur, victim, moved, done, cut, scan>>
conn == <<inFlight, u, stmt, answer>>
vars == <<load, data, snap, sched, worker, ext, sess, conn, oom>>

Idle == [kind |-> "none", tag |-> NoSet, asof |-> 0]
NoScan == [ver |-> 0, old |-> FALSE]
Derived(t) == {d \in Sets : t \in Source[d]}
Held == {t \in Sets : ext[t] # NoSet}

Init ==
    /\ load \in Loads /\ data = 0 /\ snap = 0
    /\ st = [t \in Sets |-> "missing"] /\ held = [t \in Sets |-> FALSE]
    /\ att = [t \in Sets |-> 0] /\ refusal = [t \in Sets |-> "none"]
    /\ cool = [t \in Sets |-> FALSE]
    /\ inFlight = 0 /\ u = "idle" /\ stmt = Idle /\ answer = <<>>
    /\ w = "pick" /\ phase = "open" /\ cur = NoSet /\ victim = NoSet /\ moved = FALSE /\ done = 0 /\ cut = FALSE /\ scan = NoScan
    /\ ext = [t \in Sets |-> NoSet] /\ sess = NoSet /\ oom = {}

\* ---- the bookkeeping both threads call -------------------------------------------
\* _refusal_holds_locked: a refusal stands until what it was taken against moves.
Refused(t) == st[t] = "failed" /\ refusal[t] = "stands" /\ cool[t]
Moved == [t \in Sets |-> IF refusal[t] = "stands" THEN "moved" ELSE refusal[t]]

\* invalidate: the sets hit and, one level, what is derived from them.
Hit(ts) == ts \cup {d \in Sets : Source[d] \cap ts # {}}
Invalidate(ts) ==
    LET hit == Hit(ts)
    IN  /\ st' = [t \in Sets |-> IF t \in hit /\ st[t] \in {"ready", "uploading", "pending"}
                                 THEN "stale" ELSE st[t]]
        /\ cool' = [t \in Sets |-> cool[t] \/ t \in hit]
        /\ refusal' = Moved
        /\ moved' = (moved \/ cur \in hit)
        /\ cut' = (cut \/ (cur \in hit /\ w = "run"))
        /\ oom' = {}
        /\ UNCHANGED <<held, att>>

\* note_candidate for the sources and the set, recipes from what the store holds now.
Noted(t) == Source[t] \cup {t}
Queued(t) == IF st[t] = "failed" /\ refusal[t] # "none" /\ ~Refused(t) THEN 0 ELSE att[t]
Note(ts) ==
    /\ held' = [t \in Sets |-> IF t \in ts /\ st[t] \in {"missing", "stale", "failed", "pending"}
                               THEN Source[t] = {} /\ ext[t] # NoSet ELSE held[t]]
    /\ att' = [t \in Sets |-> IF t \in ts THEN Queued(t) ELSE att[t]]
    /\ refusal' = [t \in Sets |-> IF t \in ts /\ st[t] = "failed" /\ ~Refused(t) THEN "none"
                                  ELSE refusal[t]]
    /\ st' = [t \in Sets |->
                IF t \in ts /\ st[t] \in {"missing", "stale", "failed"}
                   /\ Queued(t) < MaxAttempts /\ ~Refused(t)
                THEN "pending" ELSE st[t]]
    /\ UNCHANGED cool

\* _note_refusal_locked, against the epoch and the room of now.
Refuse(ts) ==
    /\ st' = [t \in Sets |-> IF t \in ts THEN "failed" ELSE st[t]]
    /\ refusal' = [t \in Sets |-> IF t \in ts THEN "stands" ELSE refusal[t]]
    /\ cool' = [t \in Sets |-> cool[t] \/ t \in ts]
    /\ UNCHANGED <<held, att>>

\* What the extension holds after a set went or was replaced: what was derived
\* from it is refused from then on.
Put(t, parts) == [s \in Sets |-> IF s = t THEN parts ELSE IF t \in Source[s] THEN NoSet ELSE ext[s]]

\* ---- the worker --------------------------------------------------------------------
Free == /\ w' = "pick" /\ phase' = "open" /\ cur' = NoSet /\ victim' = NoSet
        /\ moved' = FALSE /\ done' = 0 /\ cut' = FALSE /\ scan' = NoScan

Settle_Unchecked(out) ==
    LET own == st[cur] = "uploading"
        to == CASE out = "ready" -> "ready"
                [] out = "pending" /\ own /\ ~moved -> "pending"
                [] out = "recheck" /\ own /\ ~moved -> "missing"
                [] OTHER -> IF own THEN "stale" ELSE st[cur]
    IN  /\ st' = [st EXCEPT ![cur] = to]
        /\ cool' = [cool EXCEPT ![cur] = IF to = "pending" THEN FALSE ELSE @ \/ (own /\ to = "stale")]
        /\ UNCHANGED <<held, att, refusal>>
        /\ Free
Settle_Forgotten(out) ==
    LET own == st[cur] = "uploading"
        to == CASE out = "ready" /\ own /\ ~moved -> "ready"
                [] out = "pending" /\ own /\ ~moved -> "uploading"
                [] out = "recheck" /\ own /\ ~moved -> "missing"
                [] OTHER -> IF own THEN "stale" ELSE st[cur]
    IN  /\ st' = [st EXCEPT ![cur] = to]
        /\ cool' = [cool EXCEPT ![cur] = IF to = "pending" THEN FALSE ELSE @ \/ (own /\ to = "stale")]
        /\ UNCHANGED <<held, att, refusal>>
        /\ Free
\* The end of _worker's round: the outcome counts only if the set is as it was.
Settle(out) ==
    LET own == st[cur] = "uploading"
        to == CASE out = "ready" /\ own /\ ~moved -> "ready"
                [] out = "pending" /\ own /\ ~moved -> "pending"
                [] out = "recheck" /\ own /\ ~moved -> "missing"
                [] OTHER -> IF own THEN "stale" ELSE st[cur]
    IN  /\ st' = [st EXCEPT ![cur] = to]
        /\ cool' = [cool EXCEPT ![cur] = IF to = "pending" THEN FALSE ELSE @ \/ (own /\ to = "stale")]
        /\ UNCHANGED <<held, att, refusal>>
        /\ Free
Fail == Refuse({cur}) /\ Free
\* Lanes of the set found on the host are dropped and the set is refused, over
\* a population that has changed by that (_placed_on_device, _purge).
OnHost ==
    /\ ext' = Put(cur, NoSet)
    /\ st' = [st EXCEPT ![cur] = "failed"] /\ cool' = [cool EXCEPT ![cur] = TRUE]
    /\ refusal' = [Moved EXCEPT ![cur] = "stands"] /\ oom' = {}
    /\ UNCHANGED <<held, att>> /\ Free
\* An upload that raised, or one that did not land on the device.
Failed == OnHost \/ (Fail /\ UNCHANGED <<ext, oom>>)

Pickable(t) == st[t] = "pending" /\ ~cool[t] /\ \A b \in Source[t] : st[b] = "ready"
Pick(t) ==
    /\ w = "pick" /\ inFlight = 0 /\ Pickable(t)
    /\ \A j \in DOMAIN Queue : Pickable(Queue[j]) => \E i \in 1..j : Queue[i] = t
    /\ st' = [st EXCEPT ![t] = "uploading"] /\ att' = [att EXCEPT ![t] = IF @ = MaxAttempts THEN @ ELSE @ + 1]
    /\ cur' = t /\ w' = "room"
    /\ UNCHANGED <<load, data, snap, held, refusal, cool, phase, victim, moved, done, cut, scan, ext, sess, conn, oom>>

\* _pick gives up a set whose source failed.
SourceFailed(t) ==
    /\ w = "pick" /\ st[t] = "pending" /\ ~cool[t]
    /\ \E b \in Source[t] : /\ st[b] = "failed"
                            /\ \E c \in {FALSE, cool[b]} : cool' = [cool EXCEPT ![t] = c]
    /\ st' = [st EXCEPT ![t] = "failed"]
    /\ UNCHANGED <<load, data, snap, held, att, refusal, worker, ext, sess, conn, oom>>

\* _make_room: enough, a refusal, or one unit of the plan after the other.
Short == Cardinality(Held \ {cur}) >= load.budget
Room ==
    /\ w = "room" /\ ~Short
    /\ \/ /\ Source[cur] # {} /\ w' = "wait" /\ phase' = "step"
       \/ /\ Source[cur] = {} /\ held[cur] /\ w' = "holds" /\ phase' = phase
       \/ /\ Source[cur] = {} /\ ~held[cur] /\ w' = "run" /\ phase' = "open"
    /\ UNCHANGED <<load, data, snap, sched, cur, victim, moved, done, cut, scan, ext, sess, conn, oom>>
NoRoom ==
    /\ w = "room" /\ Short
    /\ Fail
    /\ UNCHANGED <<load, data, snap, ext, sess, conn, oom>>

\* Never a source of the set or of another resident one.
Evictable == {v \in Held \ Noted(cur) : Derived(v) \cap Held = {}}
Evict(v) ==
    /\ w = "room" /\ Short /\ v \in Evictable
    /\ ext' = Put(v, NoSet) /\ victim' = v /\ w' = "evict"
    /\ UNCHANGED <<load, data, snap, sched, phase, cur, moved, done, cut, scan, sess, conn, oom>>
\* The set is marked after its drop, and what was derived from it demoted.
Demoted(gone) == gone \cup {d \in Sets : Source[d] \cap gone # {}}
Evicted ==
    /\ w = "evict"
    /\ st' = [t \in Sets |-> IF st[victim] = "ready" /\ t \in Demoted({victim}) /\ st[t] = "ready"
                             THEN "missing" ELSE st[t]]
    /\ refusal' = Moved /\ oom' = {}
    /\ w' = "room" /\ victim' = NoSet
    /\ UNCHANGED <<load, data, snap, held, att, cool, phase, cur, moved, done, cut, scan, ext, sess, conn>>

\* A session with nothing to upload asks the store first.
Holds ==
    /\ w = "holds"
    /\ \/ /\ ext[cur] # NoSet /\ w' = "wait" /\ phase' = "post"
          /\ UNCHANGED <<sched, cur, victim, moved, done, cut, scan>>
       \/ ext[cur] = NoSet /\ Settle("recheck")
    /\ UNCHANGED <<load, data, snap, ext, sess, conn, oom>>

\* The bounds and gpu_upload_begin: an interrupt may be seen after the session
\* opened, and both may fail, over an empty table for one.
Open ==
    /\ w = "run" /\ phase = "open"
    /\ \/ /\ sess' = <<>> /\ w' = "wait" /\ phase' = "seg" /\ cut' \in {FALSE, cut}
          /\ UNCHANGED <<sched, cur, victim, moved, done, scan, ext, oom>>
       \/ cut /\ sess' \in {sess, <<>>} /\ Settle("pending") /\ UNCHANGED <<ext, oom>>
       \/ sess' \in {sess, NoSet} /\ Failed
    /\ UNCHANGED <<load, data, snap, conn>>

\* _wait_idle and _wait_quiet: a statement starts in a gap, or the session stops.
Overtaken == moved \/ st[cur] # "uploading"
Go ==
    /\ w = "wait" /\ inFlight = 0 /\ ~Overtaken /\ scan' = [ver |-> data, old |-> FALSE]
    /\ w' = IF phase = "seg" THEN "go" ELSE "run"
    /\ UNCHANGED <<load, data, snap, sched, phase, cur, victim, moved, done, cut, ext, sess, conn, oom>>
Stop ==
    /\ w = "wait" /\ Overtaken
    /\ sess' = IF phase \in {"seg", "finish"} THEN NoSet ELSE sess
    /\ Settle("stale")
    /\ UNCHANGED <<load, data, snap, ext, conn, oom>>
\* The lock is gone when the segment starts.
Start ==
    /\ w = "go"
    /\ w' = "run" /\ scan' = [ver |-> data, old |-> FALSE]
    /\ UNCHANGED <<load, data, snap, sched, phase, cur, victim, moved, done, cut, ext, sess, conn, oom>>

Part == [seg |-> done + 1, ver |-> scan.ver]
\* A segment joins the open session; without one it is an upload of its own.
Landed ==
    \/ sess # NoSet /\ sess' = Append(sess, Part) /\ UNCHANGED ext
    \/ sess = NoSet /\ ~scan.old /\ ext' = Put(cur, <<Part>>) /\ UNCHANGED sess
After(n) == /\ done' = n /\ w' = "wait"
            /\ phase' = IF n = load.segments THEN "finish" ELSE "seg"
            /\ UNCHANGED <<cur, victim, moved, scan>>
SegmentEnds ==
    /\ w = "run" /\ phase = "seg"
    /\ Landed /\ After(done + 1) /\ cut' \in {FALSE, cut}
    /\ UNCHANGED <<load, data, snap, sched, conn, oom>>
SegmentCut ==
    /\ w = "run" /\ phase = "seg" /\ cut
    /\ Landed \/ UNCHANGED <<ext, sess>>
    /\ w' = "check" /\ cut' = FALSE
    /\ UNCHANGED <<load, data, snap, sched, phase, cur, victim, moved, done, scan, conn, oom>>
SegmentFails ==
    /\ w = "run" /\ phase = "seg"
    /\ sess' = NoSet /\ Failed
    /\ UNCHANGED <<load, data, snap, conn>>

Check_AlwaysAgain ==
    /\ w = "check"
    /\ \/ sess' = NoSet /\ Settle("stale")
       \/ sess # NoSet /\ After(done) /\ UNCHANGED <<sess, sched, cut>>
    /\ UNCHANGED <<load, data, snap, ext, conn, oom>>
\* After an interrupt the session's status says whether the segment landed.  A
\* status that cannot be had is read as a session that is gone.
Check ==
    /\ w = "check"
    /\ \/ sess' = NoSet /\ Settle("stale")
       \/ /\ sess # NoSet /\ After(IF Len(sess) = done + 1 THEN done + 1 ELSE done)
          /\ UNCHANGED <<sess, sched, cut>>
    /\ UNCHANGED <<load, data, snap, ext, conn, oom>>

Prepare == /\ w' = "wait" /\ phase' = "post" /\ done' = 0
           /\ UNCHANGED <<cur, victim, moved, scan>>
\* gpu_upload_finish: discarded, refused by the device, or published; an
\* interrupt is seen before or after, and then the extension is asked, whose
\* answer may fail to come.
Finish ==
    /\ w = "run" /\ phase = "finish" /\ sess' = NoSet
    /\ \/ sess = NoSet /\ Settle("stale") /\ UNCHANGED <<ext, oom>>
       \/ sess # NoSet /\ Failed
       \/ /\ sess # NoSet /\ ext' = Put(cur, sess) /\ UNCHANGED oom
          /\ Prepare /\ cut' \in {FALSE, cut} /\ UNCHANGED sched
       \/ /\ cut /\ UNCHANGED oom
          /\ ext' = ext \/ (sess # NoSet /\ ext' = Put(cur, sess))
          /\ \/ ext'[cur] # NoSet /\ Prepare /\ cut' = FALSE /\ UNCHANGED sched
             \/ Settle("pending")
    /\ UNCHANGED <<load, data, snap, conn>>

\* _post_step: the sort cache, tried again when interrupted.  After the last
\* try the set is called ready without it, looked at or not.
Post ==
    /\ w = "run" /\ phase = "post"
    /\ \/ ext[cur] = NoSet /\ Settle("recheck") /\ UNCHANGED <<ext, oom>>
       \/ /\ ext[cur] # NoSet \/ (cut /\ done + 1 = PostMax)
          /\ Settle("ready") /\ UNCHANGED <<ext, oom>>
       \/ Failed
       \/ /\ cut /\ done + 1 < PostMax
          /\ w' = "wait" /\ done' = done + 1 /\ cut' = FALSE
          /\ UNCHANGED <<sched, phase, cur, victim, moved, scan, ext, oom>>
    /\ UNCHANGED <<load, data, snap, sess, conn>>

\* _recheck_sources: a source the extension lost is missing, and so is what
\* was derived from it.
Lost == {b \in Source[cur] : st[b] = "ready" /\ ext[b] = NoSet}
Step ==
    /\ w = "run" /\ phase = "step"
    /\ LET here == \A b \in Source[cur] : ext[b] # NoSet
       IN  \/ /\ here /\ ~scan.old
              /\ \E b \in Source[cur] : ext' = Put(cur, ext[b])
              /\ Settle("ready") \/ (cut /\ Settle("pending"))
           \/ here /\ cut /\ Settle("pending") /\ UNCHANGED ext
           \/ here /\ Fail /\ ext' = Put(cur, NoSet)
           \/ /\ ~here \/ scan.old
              /\ st' = [t \in Sets |->
                          IF t = cur /\ st[cur] = "uploading" THEN "stale"
                          ELSE IF st[t] = "ready" /\ t \in Demoted(Lost) /\ Lost # {} THEN "missing" ELSE st[t]]
              /\ cool' = [cool EXCEPT ![cur] = @ \/ st[cur] = "uploading"]
              /\ Free /\ UNCHANGED <<held, att, refusal, ext>>
    /\ UNCHANGED <<load, data, snap, sess, conn, oom>>

\* ---- the connection ------------------------------------------------------------------
\* A statement over a set: rewritten if it is ready and the file has not
\* changed; otherwise native, with everything dropped or the set asked for.
Select_Unwatched(t) ==
    /\ u = "idle"
    /\ \/ /\ st[t] = "ready"
          /\ stmt' = [kind |-> "rewritten", tag |-> t, asof |-> data] /\ u' = "begin"
          /\ UNCHANGED <<snap, sched, worker, oom>>
       \/ /\ st[t] # "ready" /\ Note(Noted(t))
          /\ stmt' = [Idle EXCEPT !.kind = "native"] /\ u' = "begin"
          /\ UNCHANGED <<snap, worker, oom>>
    /\ UNCHANGED <<load, data, ext, sess, inFlight, answer>>
Select(t) ==
    /\ u = "idle"
    /\ \/ /\ st[t] = "ready" /\ snap = data
          /\ stmt' = [kind |-> "rewritten", tag |-> t, asof |-> data] /\ u' = "begin"
          /\ UNCHANGED <<snap, sched, worker, oom>>
       \/ /\ st[t] = "ready" /\ snap # data
          /\ snap' = data /\ Invalidate(Sets)
          /\ stmt' = [Idle EXCEPT !.kind = "native"] /\ u' = "drop"
          /\ UNCHANGED <<w, phase, cur, victim, done, scan>>
       \/ /\ st[t] # "ready" /\ Note(Noted(t))
          /\ stmt' = [Idle EXCEPT !.kind = "native"] /\ u' = "begin"
          /\ UNCHANGED <<snap, worker, oom>>
    /\ UNCHANGED <<load, data, ext, sess, inFlight, answer>>

\* A write: _invalidate_all, then gpu_invalidate, then the statement.
Write ==
    /\ u = "idle" /\ data < load.writes
    /\ Invalidate(Sets)
    /\ stmt' = [Idle EXCEPT !.kind = "write"] /\ u' = "drop"
    /\ UNCHANGED <<load, data, snap, w, phase, cur, victim, done, scan, ext, sess, inFlight, answer>>
Drop ==
    /\ u = "drop" /\ u' = "begin"
    /\ ext' = [t \in Sets |-> NoSet] /\ sess' = NoSet /\ scan' = [scan EXCEPT !.old = w = "run"]
    /\ UNCHANGED <<load, data, snap, sched, w, phase, cur, victim, moved, done, cut, inFlight, stmt, answer, oom>>

\* statement_begin interrupts the upload that runs.
Begin ==
    /\ u = "begin" /\ u' = "run"
    /\ inFlight' = inFlight + 1 /\ cut' = (cut \/ w = "run")
    /\ UNCHANGED <<load, data, snap, sched, w, phase, cur, victim, moved, done, scan, ext, sess, stmt, answer, oom>>

\* The original statement: a write commits or does not.
Native ==
    /\ u = "run" /\ stmt.kind # "rewritten" /\ u' = "end"
    /\ data' = data \/ (stmt.kind = "write" /\ data < load.writes /\ data' = data + 1)
    /\ UNCHANGED <<load, snap, sched, worker, ext, sess, inFlight, stmt, answer, oom>>

\* The guard of a rewritten statement compares the count of rows.
Usable(t) == ext[t] # NoSet /\ Len(ext[t]) = load.segments
Answer ==
    /\ u = "run" /\ stmt.kind = "rewritten" /\ Usable(stmt.tag)
    /\ answer' = ext[stmt.tag] /\ u' = "end"
    /\ UNCHANGED <<load, data, snap, sched, worker, ext, sess, inFlight, stmt, oom>>

\* _on_rewrite_error over a device out of memory: the sets are invalidated,
\* then refused.
Hurt(mark) ==
    LET ts == Noted(stmt.tag)
    IN  /\ u = "run" /\ stmt.kind = "rewritten" /\ Usable(stmt.tag) /\ u' = "end"
        /\ st' = [t \in Sets |-> IF t \in ts THEN "failed"
                                 ELSE IF t \in Hit(ts) /\ st[t] \in {"ready", "uploading", "pending"}
                                 THEN "stale" ELSE st[t]]
        /\ cool' = [t \in Sets |-> cool[t] \/ t \in Hit(ts)]
        /\ refusal' = [t \in Sets |-> IF t \in ts THEN mark ELSE Moved[t]]
        /\ oom' = ts /\ moved' = (moved \/ cur \in Hit(ts))
        /\ cut' = (cut \/ (cur \in Hit(ts) /\ w = "run"))
        /\ UNCHANGED <<load, data, snap, held, att, w, phase, cur, victim, done, scan, ext, sess, inFlight, stmt, answer>>
OutOfMemory_RefusedFirst == Hurt("moved")
OutOfMemory == Hurt("stands")

\* ... and over anything else they are invalidated only.
RewriteFails ==
    /\ u = "run" /\ stmt.kind = "rewritten" /\ u' = "end"
    /\ Invalidate(Noted(stmt.tag))
    /\ UNCHANGED <<load, data, snap, w, phase, cur, victim, done, scan, ext, sess, inFlight, stmt, answer>>

\* _on_stale: the tables' stores go from the extension, then the sets are
\* invalidated and put back in the queue; DuckDB answers.
Suspect == Hit(Noted(stmt.tag))
OnStale ==
    /\ u = "run" /\ stmt.kind = "rewritten" /\ ~Usable(stmt.tag) /\ u' = "requeue"
    /\ ext' = [t \in Sets |-> IF t \in Suspect THEN NoSet ELSE ext[t]]
    /\ sess' = IF cur \in Noted(stmt.tag) THEN NoSet ELSE sess
    /\ scan' = [scan EXCEPT !.old = @ \/ (cur \in Noted(stmt.tag) /\ w = "run")]
    /\ UNCHANGED <<load, data, snap, sched, w, phase, cur, victim, moved, done, cut, inFlight, stmt, answer, oom>>
Requeue ==
    /\ u = "requeue" /\ u' = "end"
    /\ st' = [t \in Sets |->
                IF t \notin Suspect THEN st[t]
                ELSE LET s == IF st[t] \in {"ready", "uploading", "pending"} THEN "stale" ELSE st[t]
                     IN  IF t \in Noted(stmt.tag) /\ att[t] < MaxAttempts THEN "pending" ELSE s]
    /\ cool' = [t \in Sets |-> cool[t] \/ t \in Suspect]
    /\ refusal' = Moved /\ oom' = {}
    /\ moved' = (moved \/ cur \in Suspect) /\ cut' = (cut \/ (cur \in Suspect /\ w = "run"))
    /\ UNCHANGED <<load, data, snap, held, att, w, phase, cur, victim, done, scan, ext, sess, inFlight, stmt, answer>>

End_NotCounted ==
    /\ u = "end" /\ u' = "idle"
    /\ inFlight' = IF stmt.kind = "rewritten" /\ answer = <<>> THEN inFlight ELSE inFlight - 1
    /\ snap' = (IF stmt.kind = "write" THEN data ELSE snap)
    /\ stmt' = Idle /\ answer' = <<>>
    /\ UNCHANGED <<load, data, sched, worker, ext, sess, oom>>
\* statement_end, and the file is looked at again after a write of one's own.
End ==
    /\ u = "end" /\ u' = "idle"
    /\ inFlight' = inFlight - 1
    /\ snap' = (IF stmt.kind = "write" THEN data ELSE snap)
    /\ stmt' = Idle /\ answer' = <<>>
    /\ UNCHANGED <<load, data, sched, worker, ext, sess, oom>>

\* ---- the world -----------------------------------------------------------------------
\* Another connection commits a write that keeps the count of rows.
Foreign ==
    /\ load.foreign /\ data < load.writes /\ data' = data + 1
    /\ UNCHANGED <<load, snap, sched, worker, ext, sess, conn, oom>>
\* resume_at of a set passes.
Tick(t) ==
    /\ cool[t] /\ cool' = [cool EXCEPT ![t] = FALSE]
    /\ oom' = oom \ {t}
    /\ UNCHANGED <<load, data, snap, st, held, att, refusal, worker, ext, sess, conn>>

Working == \/ \E t \in Sets : Pick(t) \/ SourceFailed(t) \/ Evict(t)
           \/ Room \/ NoRoom \/ Evicted \/ Holds \/ Open \/ Go \/ Stop \/ Start
           \/ SegmentEnds \/ SegmentCut \/ SegmentFails \/ Check \/ Finish \/ Post \/ Step
Answering == Drop \/ Begin \/ Native \/ Answer \/ OutOfMemory \/ RewriteFails \/ OnStale \/ Requeue \/ End
Next == \/ Working \/ Answering \/ Write \/ Foreign
        \/ \E t \in load.ask : Select(t)
        \/ \E t \in Sets : Tick(t)

\* The worker's thread and a statement once begun go on; clocks advance.
Spec == Init /\ [][Next]_vars
        /\ WF_vars(Working) /\ WF_vars(Answering) /\ \A t \in Sets : WF_vars(Tick(t))

States == {"missing", "pending", "uploading", "ready", "stale", "failed"}
Places == {"pick", "room", "evict", "holds", "wait", "go", "run", "check"}

\* The types, and the bounds every counter keeps.
TypeOK ==
    /\ data \in 0..load.writes /\ snap \in 0..data /\ inFlight \in 0..1
    /\ st \in [Sets -> States]
    /\ att \in [Sets -> 0..MaxAttempts]
    /\ refusal \in [Sets -> {"none", "stands", "moved"}]
    /\ cur # NoSet <=> w # "pick"
    /\ \A t \in Sets : st[t] = "uploading" => cur = t
    /\ done \in 0..(load.segments + PostMax)

\* Why: a statement is in flight from its beginning to its end, and a count
\* belongs to the phase it counts for.
InFlight == IF u \in {"run", "requeue", "end"} THEN 1 ELSE 0
DoneBelow ==
    /\ phase \in {"open", "step"} => done = 0
    /\ phase = "seg" => done < load.segments
    /\ phase = "finish" => done = load.segments
    /\ phase = "post" => done < PostMax
TypeInv == TypeOK /\ inFlight = InFlight /\ DoneBelow /\ done \in Nat

\* A set the manager calls ready is one the extension holds; only between the
\* two steps of an eviction or of a stale answer may the two differ.
ReadyIsHeld ==
    u # "requeue" /\ w # "evict" => \A t \in Sets : st[t] = "ready" => ext[t] # NoSet

\* Sets an operator ran out of memory over are not queued again before room
\* was made, the data changed or the retry time passed.
MemoryRefusalStands == \A t \in oom : st[t] \notin {"pending", "uploading"}

\* Why: a set is ready or uploading only over ready sources, only the worker's
\* set is uploading and it is not ready, nothing is queued while a write drops
\* the stores, and what is dropped first is what is marked next.
ManagerTypes ==
    /\ st \in [Sets -> States] /\ cool \in [Sets -> BOOLEAN]
    /\ refusal \in [Sets -> {"none", "stands", "moved"}]
    /\ ext = [t \in Sets |-> ext[t]] /\ oom \subseteq Sets
    /\ w \in Places /\ (w # "pick" => cur \in Sets) /\ (w = "evict" => victim \in Sets)
    /\ u \in {"idle", "drop", "begin", "run", "requeue", "end"}
    /\ load \in Loads /\ (stmt.kind = "rewritten" => stmt.tag \in Sets)
    /\ (u = "requeue" => stmt.kind = "rewritten")
SourcesReady ==
    \A t \in Sets : st[t] \in {"ready", "uploading"} => \A b \in Source[t] : st[b] = "ready"
OneUpload == \A t \in Sets : st[t] = "uploading" => w # "pick" /\ t = cur
WorkNotReady == w # "pick" => st[cur] # "ready"
DropClean == u = "drop" => \A t \in Sets : st[t] \notin {"ready", "uploading", "pending"}
EvictSound == w = "evict" => victim \notin Noted(cur) /\ ext[victim] = NoSet
HeldOrMarked ==
    \A t \in Sets : st[t] = "ready" /\ ext[t] = NoSet =>
        (u = "requeue" /\ t \in Suspect) \/ (w = "evict" /\ t = victim)
\* Only a stale answer takes the lanes from under the sort cache unnoticed.
PostHeld ==
    /\ w \in {"pick", "room", "evict"} => phase # "post"
    /\ phase = "post" /\ st[cur] = "uploading" /\ ~moved /\ ext[cur] = NoSet =>
           u = "requeue" /\ cur \in Suspect
RefusalStands == \A t \in oom : st[t] = "failed" /\ refusal[t] = "stands" /\ cool[t]
SetsInv ==
    /\ ManagerTypes /\ SourcesReady /\ OneUpload /\ WorkNotReady
    /\ DropClean /\ EvictSound /\ HeldOrMarked /\ RefusalStands
ManagerInv == SetsInv /\ PostHeld

\* When a session is finished, every segment of the table is in it once and in
\* order, whichever interrupts came before or after a segment landed.
SegmentsOnce ==
    phase = "finish" /\ sess # NoSet => [j \in DOMAIN sess |-> sess[j].seg] = [j \in 1..load.segments |-> j]

\* Why: a session holds the segments counted, and one more only while an
\* interrupted one has not been looked for.
Parts == [seg : Nat, ver : Nat]
SessionTypes ==
    /\ load \in Loads /\ data \in Nat /\ done \in Nat /\ scan \in [ver : Nat, old : BOOLEAN]
    /\ w \in Places /\ phase \in {"open", "seg", "finish", "post", "step"}
Counted(parts, n) == Len(parts) = n /\ \A j \in 1..n : parts[j].seg = j
SessionCounted ==
    phase \in {"seg", "finish"} /\ sess # NoSet =>
        /\ sess \in Seq(Parts)
        /\ Counted(sess, done) \/ (w = "check" /\ Counted(sess, done + 1))
PhaseSound ==
    /\ w \in {"pick", "room", "evict", "holds"} => phase = "open"
    /\ phase = "open" => done = 0
    /\ w = "check" => phase = "seg"
    /\ phase = "finish" => done = load.segments
SessionInv == SessionTypes /\ SessionCounted /\ PhaseSound

\* A rewritten statement is answered from the version of the tables that was
\* current when the connection compared the file before it: no write of its
\* own, no write of another connection and no part of an upload that one
\* overtook shows in the answer.
ServedCurrent == \A j \in DOMAIN answer : answer[j].ver = stmt.asof

\* Why: what the extension holds in full was read no earlier than the snapshot
\* of the connection, except while a change of the file or a write is dropping
\* it, and a set in use is not built again before its statement is answered.
PartsRead(parts) ==
    parts # NoSet => parts \in Seq(Parts) /\ \A j \in DOMAIN parts : parts[j].ver <= data
VersionTypes ==
    /\ data \in 0..load.writes /\ snap \in 0..data /\ scan.ver \in 0..data
    /\ \A t \in Sets : PartsRead(ext[t])
    /\ PartsRead(sess)
    /\ stmt.kind = "write" => load.writes > 0
    /\ u = "drop" => stmt.kind # "rewritten"
StoresCurrent ==
    u # "drop" => \A t \in Sets : Usable(t) => \A j \in DOMAIN ext[t] : snap <= ext[t][j].ver
SessionCurrent ==
    u # "drop" /\ sess # NoSet =>
        /\ \A j \in DOMAIN sess : snap <= sess[j].ver
        /\ w = "run" /\ phase = "seg" => snap <= scan.ver
\* From the drop to the end of a write nothing is queued or built, but for the
\* one segment an overtaken upload may still publish by itself.
WriteClean ==
    stmt.kind = "write" /\ u \in {"begin", "run", "end"} =>
        /\ \A t \in Sets : st[t] \notin {"ready", "uploading", "pending"} /\ ~Usable(t)
        /\ sess # NoSet => sess = <<>> /\ (w = "pick" \/ (w = "wait" /\ phase = "seg"))
InUse ==
    stmt.kind = "rewritten" /\ u \in {"begin", "run"} =>
        /\ st[stmt.tag] \notin {"pending", "uploading"}
        /\ w # "pick" => cur # stmt.tag
        /\ st[stmt.tag] = "ready" \/ ext[stmt.tag] = NoSet
        /\ Usable(stmt.tag) => \A j \in DOMAIN ext[stmt.tag] : ext[stmt.tag][j].ver = stmt.asof
EvictAlone == w = "evict" => \A d \in Derived(victim) : ext[d] = NoSet
Answered == u # "end" => answer = <<>>
VersionInv ==
    /\ VersionTypes /\ StoresCurrent /\ SessionCurrent /\ WriteClean
    /\ InUse /\ EvictAlone /\ Answered /\ ServedCurrent

\* Where a write may come, a table has more than one segment.
SeveralSegments == \A l \in Loads : l.writes > 0 => l.segments > 1
=============================================================================
