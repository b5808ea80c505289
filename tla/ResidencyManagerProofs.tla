------------------------ MODULE ResidencyManagerProofs ------------------------
(***************************************************************************)
(* ManagerInv is an inductive invariant of ResidencyManager, for any sets, *)
(* sources one level deep, workloads and bounds.  The worker holds one set *)
(* at a time, and that set is not ready: what it publishes or drops can    *)
(* only take sets from the extension that no statement may use.            *)
(***************************************************************************)
EXTENDS ResidencyManager, TLAPS

\* What the invariant reads of the state, apart from the worker's own part.
Read == <<load, st, cool, refusal, ext, oom>>

\* Sources have no sources, so closing over what is derived takes one step.
LEMMA HitClosed ==
  ASSUME NEW t \in Sets, NEW s \in Sets, NEW b \in Source[s], b \in Hit(Noted(t))
  PROVE  s \in Hit(Noted(t)) /\ b \in Sets
<1>1. b \in Sets /\ Source[b] = {}
  BY ManagerAssumption
<1>2. b \in Noted(t)
  BY <1>1 DEF Hit
<1> QED
  BY <1>1, <1>2 DEF Hit

LEMMA NotedInSets == ASSUME NEW t \in Sets PROVE Noted(t) \subseteq Sets /\ t \in Noted(t)
BY ManagerAssumption DEF Noted

LEMMA HitInSets == ASSUME NEW t \in Sets PROVE Hit(Noted(t)) \subseteq Sets /\ Noted(t) \subseteq Hit(Noted(t))
BY NotedInSets DEF Hit

\* ---- steps that leave the sets alone ---------------------------------------------
\* The worker goes on with its set.
LEMMA Proceeds ==
  ASSUME ManagerInv, UNCHANGED Read, UNCHANGED <<u, stmt, cur>>,
         w \notin {"pick", "evict"}, w' \in Places \ {"pick", "evict"}
  PROVE  SetsInv'
<1> USE DEF ManagerInv, SetsInv, Read
<1>1. ManagerTypes'
  BY DEF ManagerTypes
<1>2. SourcesReady' /\ OneUpload' /\ WorkNotReady'
  BY DEF SourcesReady, OneUpload, WorkNotReady
<1>3. DropClean' /\ EvictSound' /\ RefusalStands'
  BY DEF DropClean, EvictSound, RefusalStands
<1>4. HeldOrMarked'
  BY DEF HeldOrMarked, Suspect
<1> QED
  BY <1>1, <1>2, <1>3, <1>4

\* The connection goes on with its statement.
LEMMA Answers ==
  ASSUME ManagerInv, UNCHANGED Read, UNCHANGED <<w, cur, victim>>,
         u # "requeue", u' \in {"idle", "begin", "run", "end"},
         stmt'.kind = "rewritten" => stmt'.tag \in Sets
  PROVE  SetsInv'
<1> USE DEF ManagerInv, SetsInv, Read
<1>1. ManagerTypes'
  BY DEF ManagerTypes
<1>2. SourcesReady' /\ OneUpload' /\ WorkNotReady'
  BY DEF SourcesReady, OneUpload, WorkNotReady
<1>3. DropClean' /\ EvictSound' /\ RefusalStands'
  BY DEF DropClean, EvictSound, RefusalStands, Noted
<1>4. HeldOrMarked'
  BY DEF HeldOrMarked
<1> QED
  BY <1>1, <1>2, <1>3, <1>4

LEMMA Stutters ==
  ASSUME ManagerInv, UNCHANGED Read, UNCHANGED <<u, stmt, w, cur, victim>>
  PROVE  SetsInv'
BY DEF ManagerInv, SetsInv, Read, ManagerTypes, SourcesReady, OneUpload, WorkNotReady, DropClean, EvictSound,
       HeldOrMarked, RefusalStands, Suspect, Noted

\* ---- what the extension may lose to the worker ----------------------------------
\* Only the worker's set and what is derived from it change; neither is ready.
Touched == /\ ext' = [t \in Sets |-> ext'[t]]
           /\ \A t \in Sets : t # cur /\ cur \notin Source[t] => ext'[t] = ext[t]

LEMMA PutTouches ==
  ASSUME NEW parts, ext' = Put(cur, parts) PROVE Touched /\ (cur \in Sets => ext'[cur] = parts)
BY DEF Touched, Put

LEMMA SameTouches == ASSUME ManagerInv, ext' = ext PROVE Touched
BY DEF Touched, ManagerInv, SetsInv, ManagerTypes

LEMMA ReadyUntouched ==
  ASSUME ManagerInv, Touched, w # "pick", NEW t \in Sets, st[t] = "ready"
  PROVE  t # cur /\ ext'[t] = ext[t]
<1>1. cur \in Sets /\ st[cur] # "ready" /\ t # cur
  BY DEF ManagerInv, SetsInv, ManagerTypes, WorkNotReady
<1>2. cur \notin Source[t]
  BY <1>1 DEF ManagerInv, SetsInv, SourcesReady
<1> QED
  BY <1>1, <1>2 DEF Touched

\* A segment that is published by itself, or a session that is.
LEMMA Publishes ==
  ASSUME ManagerInv, Touched, UNCHANGED <<load, st, cool, refusal, oom, u, stmt, cur>>,
         w \notin {"pick", "evict"}, w' \in Places \ {"pick", "evict"}
  PROVE  SetsInv'
<1> USE DEF ManagerInv, SetsInv
<1>1. ManagerTypes'
  BY DEF ManagerTypes, Touched
<1>2. SourcesReady' /\ OneUpload' /\ WorkNotReady'
  BY DEF SourcesReady, OneUpload, WorkNotReady
<1>3. DropClean' /\ EvictSound' /\ RefusalStands'
  BY DEF DropClean, EvictSound, RefusalStands
<1>4. HeldOrMarked'
  BY ReadyUntouched DEF HeldOrMarked, Suspect
<1> QED
  BY <1>1, <1>2, <1>3, <1>4

\* ---- the end of a round -------------------------------------------------------------
\* The worker's set takes a state that the round allows.
BuiltOrMarked == ext'[cur] # NoSet \/ (u = "requeue" /\ cur \in Suspect)
Outcome ==
    /\ st' \in [Sets -> States] /\ cool' \in [Sets -> BOOLEAN]
    /\ refusal' \in [Sets -> {"none", "stands", "moved"}]
    /\ \A t \in Sets \ {cur} : st'[t] = st[t]
    /\ st'[cur] # "uploading"
    /\ st'[cur] = "ready" => st[cur] = "uploading" /\ BuiltOrMarked
    /\ st'[cur] = "pending" => st[cur] \in {"uploading", "pending"}
    /\ oom' \subseteq oom
    /\ \A t \in oom' : st'[t] = "failed" /\ refusal'[t] = "stands" /\ cool'[t]

LEMMA Ends ==
  ASSUME ManagerInv, Outcome, Touched, UNCHANGED <<load, u, stmt>>,
         w \notin {"pick", "evict"}, w' = "pick"
  PROVE  SetsInv'
<1> USE DEF ManagerInv, SetsInv
<1>1. ManagerTypes'
  BY DEF ManagerTypes, Touched, Outcome, Places
<1>2. cur \in Sets /\ st[cur] # "ready"
  BY DEF ManagerTypes, WorkNotReady
<1>3. SourcesReady'
  <2> SUFFICES ASSUME NEW t \in Sets, st'[t] \in {"ready", "uploading"}, NEW b \in Source[t]
               PROVE  st'[b] = "ready"
    BY DEF SourcesReady
  <2>1. st[t] \in {"ready", "uploading"} /\ b \in Sets
    BY <1>2, ManagerAssumption DEF Outcome
  <2>2. st[b] = "ready" /\ b # cur
    BY <1>2, <2>1 DEF SourcesReady
  <2> QED
    BY <2>1, <2>2 DEF Outcome
<1>4. OneUpload' /\ WorkNotReady'
  BY <1>2 DEF OneUpload, WorkNotReady, Outcome
<1>5. DropClean'
  BY <1>2 DEF DropClean, Outcome
<1>6. EvictSound' /\ RefusalStands'
  BY DEF EvictSound, RefusalStands, Outcome
<1>7. HeldOrMarked'
  <2> SUFFICES ASSUME NEW t \in Sets, st'[t] = "ready", ext'[t] = NoSet
               PROVE  u = "requeue" /\ t \in Suspect
    BY DEF HeldOrMarked, Suspect
  <2>1. CASE t = cur
    BY <2>1 DEF Outcome, BuiltOrMarked
  <2>2. CASE t # cur
    <3>1. st[t] = "ready"
      BY <2>2 DEF Outcome
    <3>2. ext[t] = NoSet
      BY <3>1, ReadyUntouched
    <3> QED
      BY <3>1, <3>2 DEF HeldOrMarked
  <2> QED
    BY <2>1, <2>2
<1> QED
  BY <1>1, <1>3, <1>4, <1>5, <1>6, <1>7

\* Settle and _fail are such outcomes.
LEMMA SettleIsOutcome ==
  ASSUME ManagerInv, NEW out \in {"ready", "pending", "recheck", "stale"}, Settle(out),
         w # "pick", oom' = oom,
         out = "ready" /\ st[cur] = "uploading" /\ ~moved => BuiltOrMarked
  PROVE  Outcome /\ w' = "pick"
<1> DEFINE own == st[cur] = "uploading"
           to == CASE out = "ready" /\ own /\ ~moved -> "ready"
                   [] out = "pending" /\ own /\ ~moved -> "pending"
                   [] out = "recheck" /\ own /\ ~moved -> "missing"
                   [] OTHER -> IF own THEN "stale" ELSE st[cur]
<1>1. /\ st' = [st EXCEPT ![cur] = to]
      /\ cool' = [cool EXCEPT ![cur] = IF to = "pending" THEN FALSE ELSE @ \/ (own /\ to = "stale")]
      /\ refusal' = refusal /\ w' = "pick"
  BY DEF Settle, Free
<1>2. cur \in Sets /\ st[cur] # "ready" /\ st[cur] \in States
  BY DEF ManagerInv, SetsInv, ManagerTypes, WorkNotReady
<1>3. /\ to \in States \ {"uploading"}
      /\ to = "ready" => own /\ out = "ready" /\ ~moved
      /\ to = "pending" => own \/ st[cur] = "pending"
      /\ ~own => to = st[cur]
  BY <1>2 DEF States
<1> HIDE DEF to
<1>4. /\ st' \in [Sets -> States] /\ cool' \in [Sets -> BOOLEAN]
      /\ refusal' \in [Sets -> {"none", "stands", "moved"}]
  <2>1. (IF to = "pending" THEN FALSE ELSE cool[cur] \/ (own /\ to = "stale")) \in BOOLEAN
    OBVIOUS
  <2>2. st' \in [Sets -> States]
    BY <1>1, <1>2, <1>3 DEF ManagerInv, SetsInv, ManagerTypes
  <2>3. cool' \in [Sets -> BOOLEAN]
    BY <1>1, <2>1 DEF ManagerInv, SetsInv, ManagerTypes
  <2> QED
    BY <1>1, <2>2, <2>3 DEF ManagerInv, SetsInv, ManagerTypes
<1>5. st'[cur] = to /\ \A t \in Sets \ {cur} : st'[t] = st[t] /\ cool'[t] = cool[t]
  BY <1>1, <1>2 DEF ManagerInv, SetsInv, ManagerTypes
<1>6. ASSUME NEW t \in oom PROVE st'[t] = "failed" /\ refusal'[t] = "stands" /\ cool'[t]
  <2>1. t \in Sets /\ st[t] = "failed" /\ refusal[t] = "stands" /\ cool[t]
    BY DEF ManagerInv, SetsInv, ManagerTypes, RefusalStands
  <2>2. CASE t = cur
    <3>1. ~own /\ to = "failed"
      BY <1>3, <2>1, <2>2
    <3>2. cool'[cur] = cool[cur]
      BY <1>1, <1>2, <3>1, Zenon DEF ManagerInv, SetsInv, ManagerTypes
    <3> QED
      BY <1>1, <1>5, <2>1, <2>2, <3>1, <3>2
  <2>3. CASE t # cur
    BY <1>1, <1>5, <2>1, <2>3
  <2> QED
    BY <2>2, <2>3
<1> QED
  BY <1>1, <1>2, <1>3, <1>4, <1>5, <1>6 DEF Outcome

LEMMA FailIsOutcome ==
  ASSUME ManagerInv, Fail, w # "pick", oom' = oom
  PROVE  Outcome /\ w' = "pick"
<1>1. /\ st' = [t \in Sets |-> IF t \in {cur} THEN "failed" ELSE st[t]]
      /\ refusal' = [t \in Sets |-> IF t \in {cur} THEN "stands" ELSE refusal[t]]
      /\ cool' = [t \in Sets |-> cool[t] \/ t \in {cur}] /\ w' = "pick"
  BY DEF Fail, Refuse, Free
<1>2. cur \in Sets
  BY DEF ManagerInv, SetsInv, ManagerTypes
<1>3. \A t \in Sets : cool'[t] <=> cool[t] \/ t = cur
  BY <1>1
<1>4. \A t \in Sets : /\ st'[t] = (IF t = cur THEN "failed" ELSE st[t])
                      /\ refusal'[t] = (IF t = cur THEN "stands" ELSE refusal[t])
  BY <1>1
<1>5. /\ st' \in [Sets -> States] /\ cool' \in [Sets -> BOOLEAN]
      /\ refusal' \in [Sets -> {"none", "stands", "moved"}]
  <2>1. st' \in [Sets -> States]
    BY <1>1 DEF ManagerInv, SetsInv, ManagerTypes, States
  <2>2. refusal' \in [Sets -> {"none", "stands", "moved"}]
    BY <1>1 DEF ManagerInv, SetsInv, ManagerTypes
  <2>3. cool' \in [Sets -> BOOLEAN]
    BY <1>1 DEF ManagerInv, SetsInv, ManagerTypes
  <2> QED
    BY <2>1, <2>2, <2>3
<1>6. \A t \in oom : st'[t] = "failed" /\ refusal'[t] = "stands" /\ cool'[t]
  BY <1>3, <1>4 DEF ManagerInv, SetsInv, ManagerTypes, RefusalStands
<1> QED
  BY <1>1, <1>2, <1>4, <1>5, <1>6 DEF Outcome

LEMMA OnHostIsOutcome ==
  ASSUME ManagerInv, OnHost, w # "pick"
  PROVE  Outcome /\ w' = "pick"
<1>1. /\ st' = [st EXCEPT ![cur] = "failed"] /\ cool' = [cool EXCEPT ![cur] = TRUE]
      /\ refusal' = [Moved EXCEPT ![cur] = "stands"] /\ oom' = {} /\ w' = "pick"
  BY DEF OnHost, Free
<1>2. cur \in Sets
  BY DEF ManagerInv, SetsInv, ManagerTypes
<1>3. st' \in [Sets -> States] /\ st'[cur] = "failed" /\ \A t \in Sets \ {cur} : st'[t] = st[t]
  BY <1>1, <1>2 DEF ManagerInv, SetsInv, ManagerTypes, States
<1>4. cool' \in [Sets -> BOOLEAN]
  BY <1>1 DEF ManagerInv, SetsInv, ManagerTypes
<1>5. refusal' \in [Sets -> {"none", "stands", "moved"}]
  BY <1>1 DEF ManagerInv, SetsInv, ManagerTypes, Moved
<1> QED
  BY <1>1, <1>3, <1>4, <1>5 DEF Outcome

\* A failure ends the round whichever way.
LEMMA FailedEnds ==
  ASSUME ManagerInv, Failed, UNCHANGED <<load, u, stmt>>, w \notin {"pick", "evict"}
  PROVE  SetsInv'
<1>1. CASE OnHost
  <2>1. Touched
    BY <1>1, PutTouches DEF OnHost
  <2> QED
    BY <1>1, <2>1, OnHostIsOutcome, Ends
<1>2. CASE Fail /\ UNCHANGED <<ext, oom>>
  BY <1>2, FailIsOutcome, SameTouches, Ends
<1> QED
  BY <1>1, <1>2 DEF Failed

\* ---- one lemma per step of the worker --------------------------------------------------
LEMMA PickKeeps ==
  ASSUME ManagerInv, NEW t \in Sets, Pick(t)
  PROVE  SetsInv'
<1> USE DEF ManagerInv, SetsInv
<1>1. /\ w = "pick" /\ w' = "room" /\ cur' = t /\ Pickable(t)
      /\ st' = [st EXCEPT ![t] = "uploading"]
      /\ UNCHANGED <<load, cool, refusal, ext, oom, u, stmt>>
  BY DEF Pick, conn
<1>2. st[t] = "pending" /\ \A b \in Source[t] : st[b] = "ready"
  BY <1>1 DEF Pickable
<1>3. ManagerTypes'
  BY <1>1 DEF ManagerTypes, States, Places
<1>4. \A s \in Sets : st'[s] = (IF s = t THEN "uploading" ELSE st[s])
  BY <1>1 DEF ManagerTypes
<1>5. SourcesReady'
  <2> SUFFICES ASSUME NEW s \in Sets, st'[s] \in {"ready", "uploading"}, NEW b \in Source[s]
               PROVE  st'[b] = "ready"
    BY DEF SourcesReady
  <2>1. st[b] = "ready" /\ b \in Sets
    BY <1>2, <1>4, ManagerAssumption DEF SourcesReady
  <2> QED
    BY <1>2, <1>4, <2>1
<1>6. OneUpload' /\ WorkNotReady'
  BY <1>1, <1>4 DEF OneUpload, WorkNotReady
<1>7. DropClean' /\ EvictSound'
  BY <1>1, <1>2 DEF DropClean, EvictSound
<1>8. RefusalStands'
  BY <1>1, <1>2, <1>4 DEF RefusalStands, ManagerTypes
<1>9. HeldOrMarked'
  BY <1>1, <1>4 DEF HeldOrMarked, Suspect
<1> QED
  BY <1>3, <1>5, <1>6, <1>7, <1>8, <1>9

\* A set given up was pending: nothing ready is derived from it.
LEMMA SourceFailedKeeps ==
  ASSUME ManagerInv, NEW t \in Sets, SourceFailed(t)
  PROVE  SetsInv'
<1> USE DEF ManagerInv, SetsInv
<1>1. /\ w = "pick" /\ st[t] = "pending" /\ st' = [st EXCEPT ![t] = "failed"]
      /\ UNCHANGED <<load, refusal, ext, oom, u, stmt, w, cur, victim>>
  BY DEF SourceFailed, conn, worker
<1>2. PICK c \in BOOLEAN : cool' = [cool EXCEPT ![t] = c]
  <2>1. PICK b \in Source[t] : \E c \in {FALSE, cool[b]} : cool' = [cool EXCEPT ![t] = c]
    BY DEF SourceFailed
  <2>2. cool[b] \in BOOLEAN
    BY ManagerAssumption DEF ManagerTypes
  <2> QED
    BY <2>1, <2>2
<1>4. cool' \in [Sets -> BOOLEAN] /\ \A s \in Sets \ {t} : cool'[s] = cool[s]
  BY <1>2 DEF ManagerTypes
<1>5. st' \in [Sets -> States] /\ \A s \in Sets : st'[s] = (IF s = t THEN "failed" ELSE st[s])
  BY <1>1 DEF ManagerTypes, States
<1>6. ManagerTypes'
  BY <1>1, <1>4, <1>5 DEF ManagerTypes
<1>7. SourcesReady'
  <2> SUFFICES ASSUME NEW s \in Sets, st'[s] \in {"ready", "uploading"}, NEW x \in Source[s]
               PROVE  st'[x] = "ready"
    BY DEF SourcesReady
  <2>1. st[x] = "ready" /\ x \in Sets
    BY <1>5, ManagerAssumption DEF SourcesReady
  <2> QED
    BY <1>1, <1>5, <2>1
<1>8. OneUpload' /\ WorkNotReady' /\ DropClean' /\ EvictSound'
  BY <1>1, <1>5 DEF OneUpload, WorkNotReady, DropClean, EvictSound
<1>9. RefusalStands'
  BY <1>1, <1>4, <1>5 DEF RefusalStands, ManagerTypes
<1>10. HeldOrMarked'
  BY <1>1, <1>5 DEF HeldOrMarked, Suspect
<1> QED
  BY <1>6, <1>7, <1>8, <1>9, <1>10

\* The victim is no source of the set the room is for, and nothing held is
\* derived from it: only the victim goes.
LEMMA EvictKeeps ==
  ASSUME ManagerInv, NEW v \in Sets, Evict(v)
  PROVE  SetsInv'
<1> USE DEF ManagerInv, SetsInv
<1>1. /\ w = "room" /\ w' = "evict" /\ victim' = v /\ ext' = Put(v, NoSet) /\ v \in Evictable
      /\ UNCHANGED <<load, st, cool, refusal, oom, u, stmt, cur>>
  BY DEF Evict, conn, sched
<1>2. v \notin Noted(cur) /\ \A d \in Sets : v \in Source[d] => ext[d] = NoSet
  BY <1>1 DEF Evictable, Derived, Held
<1>3. ext' = [t \in Sets |-> ext'[t]] /\ \A t \in Sets : ext'[t] = (IF t = v THEN NoSet ELSE ext[t])
  BY <1>1, <1>2 DEF Put
<1>4. ManagerTypes'
  BY <1>1, <1>3 DEF ManagerTypes, Places
<1>5. SourcesReady' /\ OneUpload' /\ WorkNotReady' /\ DropClean' /\ RefusalStands'
  BY <1>1 DEF SourcesReady, OneUpload, WorkNotReady, DropClean, RefusalStands
<1>6. EvictSound'
  BY <1>1, <1>2, <1>3 DEF EvictSound, Noted
<1>7. HeldOrMarked'
  BY <1>1, <1>3 DEF HeldOrMarked, Suspect
<1> QED
  BY <1>4, <1>5, <1>6, <1>7

\* The sets derived from the victim go with its mark.
LEMMA EvictedKeeps ==
  ASSUME ManagerInv, Evicted
  PROVE  SetsInv'
<1> USE DEF ManagerInv, SetsInv
<1> DEFINE hit(t) == st[victim] = "ready" /\ t \in Demoted({victim}) /\ st[t] = "ready"
<1>1. /\ w = "evict" /\ w' = "room" /\ oom' = {} /\ refusal' = Moved
      /\ st' = [t \in Sets |-> IF hit(t) THEN "missing" ELSE st[t]]
      /\ UNCHANGED <<load, cool, ext, u, stmt, cur>>
  BY DEF Evicted, conn
<1>2. \A t \in Sets : st'[t] = (IF hit(t) THEN "missing" ELSE st[t])
  BY <1>1
<1>3. victim \in Sets /\ victim \notin Noted(cur) /\ cur \in Sets
  BY <1>1 DEF ManagerTypes, EvictSound
<1>4. \A t \in Sets : t \in Demoted({victim}) <=> t = victim \/ victim \in Source[t]
  BY ManagerAssumption DEF Demoted
<1>5. ManagerTypes'
  <2>1. refusal' \in [Sets -> {"none", "stands", "moved"}]
    BY <1>1 DEF ManagerTypes, Moved
  <2>2. st' \in [Sets -> States]
    BY <1>1 DEF ManagerTypes, States
  <2> QED
    BY <1>1, <2>1, <2>2 DEF ManagerTypes, Places
<1>6. SourcesReady'
  <2> SUFFICES ASSUME NEW s \in Sets, st'[s] \in {"ready", "uploading"}, NEW b \in Source[s]
               PROVE  st'[b] = "ready"
    BY DEF SourcesReady
  <2>1. st[s] \in {"ready", "uploading"} /\ ~hit(s) /\ b \in Sets /\ Source[b] = {}
    BY <1>2, ManagerAssumption
  <2>2. st[b] = "ready"
    BY <2>1 DEF SourcesReady
  <2>3. ~hit(b)
    <3> SUFFICES ASSUME hit(b) PROVE FALSE
      OBVIOUS
    <3>1. b = victim
      BY <1>4, <2>1
    <3>2. st[s] = "uploading"
      BY <1>4, <2>1, <3>1
    <3>3. s = cur
      BY <3>2 DEF OneUpload
    <3> QED
      BY <1>3, <3>1, <3>3 DEF Noted
  <2> QED
    BY <1>2, <2>1, <2>2, <2>3
<1>7. OneUpload' /\ WorkNotReady' /\ DropClean' /\ EvictSound' /\ RefusalStands'
  BY <1>1, <1>2, <1>3 DEF OneUpload, WorkNotReady, DropClean, EvictSound, RefusalStands
<1>8. HeldOrMarked'
  <2> SUFFICES ASSUME NEW t \in Sets, st'[t] = "ready", ext[t] = NoSet
               PROVE  u = "requeue" /\ t \in Suspect
    BY <1>1 DEF HeldOrMarked, Suspect
  <2>1. st[t] = "ready" /\ ~hit(t)
    BY <1>2
  <2>2. t # victim
    BY <1>4, <2>1
  <2> QED
    BY <2>1, <2>2 DEF HeldOrMarked
<1> QED
  BY <1>5, <1>6, <1>7, <1>8

LEMMA RoomKeeps == ASSUME ManagerInv, Room PROVE SetsInv'
<1>1. w = "room" /\ w' \in {"wait", "holds", "run"}
  BY DEF Room
<1> QED
  BY <1>1, Proceeds DEF Room, sched, conn, Places, Read

LEMMA NoRoomKeeps == ASSUME ManagerInv, NoRoom PROVE SetsInv'
BY FailIsOutcome, SameTouches, Ends DEF NoRoom, conn

LEMMA HoldsKeeps == ASSUME ManagerInv, Holds PROVE SetsInv'
<1>1. CASE Settle("recheck")
  BY <1>1, SettleIsOutcome, SameTouches, Ends DEF Holds, conn
<1>2. CASE ~Settle("recheck")
  BY <1>2, Proceeds DEF Holds, sched, conn, Places, Read
<1> QED
  BY <1>1, <1>2

LEMMA OpenKeeps == ASSUME ManagerInv, Open PROVE SetsInv'
<1>1. w = "run" /\ UNCHANGED <<load, u, stmt>>
  BY DEF Open, conn
<1>2. CASE Settle("pending") /\ UNCHANGED <<ext, oom>>
  BY <1>1, <1>2, SettleIsOutcome, SameTouches, Ends
<1>3. CASE Failed
  BY <1>1, <1>3, FailedEnds
<1>4. CASE w' = "wait" /\ UNCHANGED <<sched, cur, ext, oom>>
  BY <1>1, <1>4, Proceeds DEF sched, Places, Read
<1> QED
  BY <1>2, <1>3, <1>4 DEF Open

LEMMA GoKeeps == ASSUME ManagerInv, Go PROVE SetsInv'
<1>1. w = "wait" /\ w' \in {"go", "run"}
  BY DEF Go
<1> QED
  BY <1>1, Proceeds DEF Go, sched, conn, Places, Read

LEMMA StopKeeps == ASSUME ManagerInv, Stop PROVE SetsInv'
BY SettleIsOutcome, SameTouches, Ends DEF Stop, conn

LEMMA StartKeeps == ASSUME ManagerInv, Start PROVE SetsInv'
BY Proceeds DEF Start, sched, conn, Places, Read

LEMMA LandedTouches == ASSUME ManagerInv, Landed PROVE Touched
<1>1. CASE ext' = ext
  BY <1>1, SameTouches
<1>2. CASE ext' = Put(cur, <<Part>>)
  BY <1>2, PutTouches
<1> QED
  BY <1>1, <1>2 DEF Landed

LEMMA SegmentEndsKeeps == ASSUME ManagerInv, SegmentEnds PROVE SetsInv'
BY LandedTouches, Publishes DEF SegmentEnds, After, sched, conn, Places

LEMMA SegmentCutKeeps == ASSUME ManagerInv, SegmentCut PROVE SetsInv'
<1>1. Touched
  BY LandedTouches, SameTouches DEF SegmentCut
<1> QED
  BY <1>1, Publishes DEF SegmentCut, sched, conn, Places

LEMMA SegmentFailsKeeps == ASSUME ManagerInv, SegmentFails PROVE SetsInv'
BY FailedEnds DEF SegmentFails, conn

LEMMA CheckKeeps == ASSUME ManagerInv, Check PROVE SetsInv'
<1>1. CASE Settle("stale")
  BY <1>1, SettleIsOutcome, SameTouches, Ends DEF Check, conn
<1>2. CASE ~Settle("stale")
  BY <1>2, Proceeds DEF Check, After, sched, conn, Places, Read
<1> QED
  BY <1>1, <1>2

LEMMA FinishKeeps == ASSUME ManagerInv, Finish PROVE SetsInv'
<1>1. w = "run" /\ UNCHANGED <<load, u, stmt>>
  BY DEF Finish, conn
<1>2. CASE ext' = ext /\ oom' = oom /\ (Settle("stale") \/ Settle("pending"))
  BY <1>1, <1>2, SettleIsOutcome, SameTouches, Ends
<1>3. CASE Failed
  BY <1>1, <1>3, FailedEnds
<1>4. CASE ext' = Put(cur, sess) /\ Prepare /\ UNCHANGED <<sched, oom>>
  BY <1>1, <1>4, PutTouches, Publishes DEF Prepare, sched, Places
<1>5. CASE ext' = ext /\ Prepare /\ UNCHANGED <<sched, oom>>
  BY <1>1, <1>5, SameTouches, Publishes DEF Prepare, sched, Places
<1>6. CASE ext' = Put(cur, sess) /\ oom' = oom /\ Settle("pending")
  BY <1>1, <1>6, SettleIsOutcome, PutTouches, Ends
<1> QED
  BY <1>2, <1>3, <1>4, <1>5, <1>6 DEF Finish

\* After the last try the set is ready whether or not anybody looked; if a stale
\* answer dropped its lanes, the set is one of those about to be marked.
LEMMA PostKeeps == ASSUME ManagerInv, Post PROVE SetsInv'
<1>1. w = "run" /\ phase = "post" /\ UNCHANGED <<load, u, stmt>>
  BY DEF Post, conn
<1>2. CASE Settle("recheck") /\ UNCHANGED <<ext, oom>>
  BY <1>1, <1>2, SettleIsOutcome, SameTouches, Ends
<1>3. CASE Settle("ready") /\ UNCHANGED <<ext, oom>>
  <2>1. st[cur] = "uploading" /\ ~moved => BuiltOrMarked
    BY <1>1, <1>3 DEF ManagerInv, PostHeld, BuiltOrMarked
  <2> QED
    BY <1>1, <1>3, <2>1, SettleIsOutcome, SameTouches, Ends
<1>4. CASE w' = "wait" /\ UNCHANGED <<sched, cur, ext, oom>>
  BY <1>1, <1>4, Proceeds DEF sched, Places, Read
<1>5. CASE Failed
  BY <1>1, <1>5, FailedEnds
<1> QED
  BY <1>2, <1>3, <1>4, <1>5 DEF Post

\* A source the extension lost takes what is derived from it along.
LEMMA LostKeeps ==
  ASSUME ManagerInv, w = "run", w' = "pick", UNCHANGED <<load, ext, oom, u, stmt, refusal>>,
         st' = [t \in Sets |->
                  IF t = cur /\ st[cur] = "uploading" THEN "stale"
                  ELSE IF st[t] = "ready" /\ t \in Demoted(Lost) /\ Lost # {} THEN "missing" ELSE st[t]],
         cool' = [cool EXCEPT ![cur] = @ \/ st[cur] = "uploading"]
  PROVE  SetsInv'
<1> USE DEF ManagerInv, SetsInv
<1>1. cur \in Sets /\ st[cur] # "ready"
  BY DEF ManagerTypes, WorkNotReady
<1> DEFINE gone(t) == st[t] = "ready" /\ t \in Demoted(Lost) /\ Lost # {}
<1>2. \A t \in Sets : st'[t] = (IF t = cur /\ st[cur] = "uploading" THEN "stale"
                                ELSE IF gone(t) THEN "missing" ELSE st[t])
  OBVIOUS
<1>3. \A t \in Sets : \A b \in Source[t] : Source[b] = {} /\ b \in Sets
  BY ManagerAssumption
<1>4. \A t \in Sets : \A b \in Source[t] : gone(b) /\ st[t] = "ready" => gone(t)
  BY <1>3 DEF Demoted
<1>5. ManagerTypes'
  <2>1. cool' \in [Sets -> BOOLEAN]
    BY DEF ManagerTypes
  <2>2. st' \in [Sets -> States]
    BY <1>2 DEF ManagerTypes, States
  <2> QED
    BY <2>1, <2>2 DEF ManagerTypes, Places
<1>6. SourcesReady'
  <2> SUFFICES ASSUME NEW t \in Sets, st'[t] \in {"ready", "uploading"}, NEW b \in Source[t]
               PROVE  st'[b] = "ready"
    BY DEF SourcesReady
  <2>1. st'[t] = st[t] /\ ~gone(t) /\ st[t] = "ready"
    BY <1>2 DEF OneUpload
  <2>2. st[b] = "ready" /\ ~gone(b) /\ b \in Sets
    BY <1>3, <1>4, <2>1 DEF SourcesReady
  <2> QED
    BY <1>1, <1>2, <2>2
<1>7. OneUpload' /\ WorkNotReady' /\ DropClean' /\ EvictSound'
  BY <1>2 DEF OneUpload, WorkNotReady, DropClean, EvictSound
<1>8. RefusalStands'
  <2> SUFFICES ASSUME NEW t \in oom PROVE st'[t] = "failed" /\ refusal[t] = "stands" /\ cool'[t]
    BY DEF RefusalStands
  <2>1. t \in Sets /\ st[t] = "failed" /\ refusal[t] = "stands" /\ cool[t]
    BY DEF ManagerTypes, RefusalStands
  <2>2. cool'[t]
    BY <2>1 DEF ManagerTypes
  <2> QED
    BY <1>2, <2>1, <2>2
<1>9. HeldOrMarked'
  BY <1>2 DEF HeldOrMarked, Suspect
<1> QED
  BY <1>5, <1>6, <1>7, <1>8, <1>9

LEMMA StepKeeps == ASSUME ManagerInv, Step PROVE SetsInv'
<1>1. w = "run" /\ UNCHANGED <<load, oom, u, stmt>>
  BY DEF Step, conn
<1> USE DEF BuiltOrMarked
<1> DEFINE here == \A b \in Source[cur] : ext[b] # NoSet
<1>2. CASE here /\ (\E b \in Source[cur] : ext' = Put(cur, ext[b])) /\ (Settle("ready") \/ Settle("pending"))
  <2>1. PICK b \in Source[cur] : ext' = Put(cur, ext[b])
    BY <1>2
  <2>2. Touched /\ ext'[cur] # NoSet
    BY <1>1, <1>2, <2>1, PutTouches DEF ManagerInv, SetsInv, ManagerTypes
  <2> QED
    BY <1>1, <1>2, <2>2, SettleIsOutcome, Ends
<1>3. CASE Settle("pending") /\ UNCHANGED ext
  BY <1>1, <1>3, SettleIsOutcome, SameTouches, Ends
<1>4. CASE Fail /\ ext' = Put(cur, NoSet)
  BY <1>1, <1>4, FailIsOutcome, PutTouches, Ends
<1>5. CASE /\ st' = [t \in Sets |->
                       IF t = cur /\ st[cur] = "uploading" THEN "stale"
                       ELSE IF st[t] = "ready" /\ t \in Demoted(Lost) /\ Lost # {} THEN "missing" ELSE st[t]]
           /\ cool' = [cool EXCEPT ![cur] = @ \/ st[cur] = "uploading"]
           /\ Free /\ UNCHANGED <<refusal, ext>>
  BY <1>1, <1>5, LostKeeps DEF Free
<1> QED
  BY <1>2, <1>3, <1>4, <1>5 DEF Step

\* ---- one lemma per step of the connection -----------------------------------------------
\* Nothing is ready or queued after every set was invalidated.
LEMMA InvalidatesAll ==
  ASSUME ManagerInv, Invalidate(Sets), UNCHANGED <<load, ext, w, cur, victim>>, u' = "drop",
         stmt'.kind # "rewritten"
  PROVE  SetsInv'
<1> USE DEF ManagerInv, SetsInv
<1>1. Hit(Sets) = Sets
  BY DEF Hit
<1>2. /\ st' = [t \in Sets |-> IF st[t] \in {"ready", "uploading", "pending"} THEN "stale" ELSE st[t]]
      /\ oom' = {} /\ refusal' = Moved
      /\ cool' = [t \in Sets |-> cool[t] \/ t \in Sets]
  BY <1>1 DEF Invalidate
<1>3. \A t \in Sets : st'[t] \notin {"ready", "uploading", "pending"}
  BY <1>2
<1>4. ManagerTypes'
  <2>1. refusal' \in [Sets -> {"none", "stands", "moved"}]
    BY <1>2 DEF ManagerTypes, Moved
  <2>2. st' \in [Sets -> States]
    BY <1>2 DEF ManagerTypes, States
  <2>3. cool' \in [Sets -> BOOLEAN]
    BY <1>2 DEF ManagerTypes
  <2> QED
    BY <1>2, <2>1, <2>2, <2>3 DEF ManagerTypes
<1>5. SourcesReady' /\ OneUpload' /\ DropClean' /\ HeldOrMarked'
  BY <1>3 DEF SourcesReady, OneUpload, DropClean, HeldOrMarked
<1>6. WorkNotReady' /\ EvictSound' /\ RefusalStands'
  BY <1>2, <1>3 DEF WorkNotReady, EvictSound, RefusalStands, ManagerTypes, Noted
<1> QED
  BY <1>4, <1>5, <1>6

\* A sighting queues sets that are neither ready nor refused.
LEMMA NoteKeeps ==
  ASSUME ManagerInv, NEW ts \in SUBSET Sets, Note(ts), UNCHANGED <<load, ext, oom, w, cur, victim>>,
         u = "idle", u' = "begin", stmt'.kind # "rewritten"
  PROVE  SetsInv'
<1> USE DEF ManagerInv, SetsInv
<1> DEFINE fresh(t) == /\ t \in ts /\ st[t] \in {"missing", "stale", "failed"}
                       /\ Queued(t) < MaxAttempts /\ ~Refused(t)
<1>1. /\ \A t \in Sets : st'[t] = (IF fresh(t) THEN "pending" ELSE st[t])
      /\ \A t \in Sets : refusal'[t] = (IF t \in ts /\ st[t] = "failed" /\ ~Refused(t) THEN "none"
                                        ELSE refusal[t])
      /\ cool' = cool
  BY DEF Note
<1>2. st' \in [Sets -> States] /\ refusal' \in [Sets -> {"none", "stands", "moved"}]
  <2>1. st' \in [Sets -> States]
    BY DEF Note, ManagerTypes, States
  <2>2. refusal' \in [Sets -> {"none", "stands", "moved"}]
    BY DEF Note, ManagerTypes
  <2> QED
    BY <2>1, <2>2
<1>3. ManagerTypes'
  BY <1>1, <1>2 DEF ManagerTypes
<1>4. SourcesReady'
  <2> SUFFICES ASSUME NEW s \in Sets, st'[s] \in {"ready", "uploading"}, NEW b \in Source[s]
               PROVE  st'[b] = "ready"
    BY DEF SourcesReady
  <2>1. st[b] = "ready" /\ b \in Sets
    BY <1>1, ManagerAssumption DEF SourcesReady
  <2> QED
    BY <1>1, <2>1
<1>5. OneUpload' /\ WorkNotReady' /\ DropClean' /\ EvictSound'
  BY <1>1 DEF OneUpload, WorkNotReady, DropClean, EvictSound, Noted, ManagerTypes
<1>6. RefusalStands'
  BY <1>1 DEF RefusalStands, Refused, ManagerTypes
<1>7. HeldOrMarked'
  BY <1>1 DEF HeldOrMarked
<1> QED
  BY <1>3, <1>4, <1>5, <1>6, <1>7

LEMMA SelectKeeps ==
  ASSUME ManagerInv, NEW t \in load.ask, Select(t)
  PROVE  SetsInv'
<1>1. t \in Sets
  BY ManagerAssumption DEF ManagerInv, SetsInv, ManagerTypes
<1>2. u = "idle" /\ UNCHANGED <<load, ext>>
  BY DEF Select
<1>3. CASE UNCHANGED <<sched, worker, oom>> /\ u' = "begin" /\ stmt' = [kind |-> "rewritten", tag |-> t, asof |-> data]
  BY <1>1, <1>2, <1>3, Answers DEF sched, worker, Read
<1>4. CASE /\ Invalidate(Sets) /\ u' = "drop" /\ stmt' = [Idle EXCEPT !.kind = "native"]
           /\ UNCHANGED <<w, cur, victim>>
  BY <1>2, <1>4, InvalidatesAll DEF Idle
<1>5. CASE /\ Note(Noted(t)) /\ u' = "begin" /\ stmt' = [Idle EXCEPT !.kind = "native"]
           /\ UNCHANGED <<worker, oom>>
  BY <1>1, <1>2, <1>5, NotedInSets, NoteKeeps DEF worker, Idle
<1> QED
  BY <1>3, <1>4, <1>5 DEF Select

LEMMA WriteKeeps == ASSUME ManagerInv, Write PROVE SetsInv'
BY InvalidatesAll DEF Write, Idle

\* The stores go while nothing is ready.
LEMMA DropKeeps == ASSUME ManagerInv, Drop PROVE SetsInv'
<1> USE DEF ManagerInv, SetsInv
<1>1. /\ u = "drop" /\ u' = "begin" /\ ext' = [t \in Sets |-> NoSet]
      /\ UNCHANGED <<load, st, cool, refusal, oom, w, cur, victim, stmt>>
  BY DEF Drop, sched
<1>2. ManagerTypes'
  BY <1>1 DEF ManagerTypes
<1>3. SourcesReady' /\ OneUpload' /\ WorkNotReady' /\ DropClean' /\ RefusalStands'
  BY <1>1 DEF SourcesReady, OneUpload, WorkNotReady, DropClean, RefusalStands
<1>4. EvictSound' /\ HeldOrMarked'
  BY <1>1 DEF EvictSound, HeldOrMarked, DropClean, Noted, ManagerTypes
<1> QED
  BY <1>2, <1>3, <1>4

LEMMA BeginKeeps == ASSUME ManagerInv, Begin PROVE SetsInv'
BY Answers DEF Begin, sched, Read, ManagerInv, SetsInv, ManagerTypes

LEMMA NativeKeeps == ASSUME ManagerInv, Native PROVE SetsInv'
BY Answers DEF Native, sched, worker, Read, ManagerInv, SetsInv, ManagerTypes

LEMMA AnswerKeeps == ASSUME ManagerInv, Answer PROVE SetsInv'
BY Answers DEF Answer, sched, worker, Read, ManagerInv, SetsInv, ManagerTypes

LEMMA EndKeeps == ASSUME ManagerInv, End PROVE SetsInv'
<1>1. stmt'.kind # "rewritten"
  BY DEF End, Idle
<1> QED
  BY <1>1, Answers DEF End, sched, worker, Read

\* Invalidated first and refused then: the refusal is what stands.
LEMMA OutOfMemoryKeeps == ASSUME ManagerInv, OutOfMemory PROVE SetsInv'
<1> USE DEF ManagerInv, SetsInv
<1> DEFINE ts == Noted(stmt.tag)
<1>1. /\ u = "run" /\ u' = "end" /\ stmt.kind = "rewritten" /\ oom' = ts
      /\ st' = [t \in Sets |-> IF t \in ts THEN "failed"
                               ELSE IF t \in Hit(ts) /\ st[t] \in {"ready", "uploading", "pending"}
                               THEN "stale" ELSE st[t]]
      /\ cool' = [t \in Sets |-> cool[t] \/ t \in Hit(ts)]
      /\ refusal' = [t \in Sets |-> IF t \in ts THEN "stands" ELSE Moved[t]]
      /\ UNCHANGED <<load, ext, w, cur, victim, stmt>>
  BY DEF OutOfMemory, Hurt
<1>2. stmt.tag \in Sets /\ ts \subseteq Sets /\ ts \subseteq Hit(ts)
  BY <1>1, NotedInSets, HitInSets DEF ManagerTypes
<1>3. \A t \in Sets : /\ st'[t] = (IF t \in ts THEN "failed"
                                   ELSE IF t \in Hit(ts) /\ st[t] \in {"ready", "uploading", "pending"}
                                   THEN "stale" ELSE st[t])
                      /\ t \in ts => refusal'[t] = "stands"
                      /\ t \in ts => cool'[t]
  BY <1>1, <1>2
<1>4. ManagerTypes'
  <2>1. refusal' \in [Sets -> {"none", "stands", "moved"}]
    BY <1>1 DEF ManagerTypes, Moved
  <2>2. st' \in [Sets -> States]
    BY <1>1 DEF ManagerTypes, States
  <2>3. cool' \in [Sets -> BOOLEAN]
    BY <1>1 DEF ManagerTypes
  <2> QED
    BY <1>1, <1>2, <2>1, <2>2, <2>3 DEF ManagerTypes
<1>5. SourcesReady'
  <2> SUFFICES ASSUME NEW s \in Sets, st'[s] \in {"ready", "uploading"}, NEW b \in Source[s]
               PROVE  st'[b] = "ready"
    BY DEF SourcesReady
  <2>1. st[s] \in {"ready", "uploading"} /\ s \notin Hit(ts)
    BY <1>2, <1>3
  <2>2. st[b] = "ready" /\ b \in Sets /\ b \notin Hit(ts)
    BY <1>2, <2>1, HitClosed, ManagerAssumption DEF SourcesReady
  <2> QED
    BY <1>2, <1>3, <2>2
<1>6. OneUpload' /\ WorkNotReady' /\ DropClean' /\ EvictSound'
  BY <1>1, <1>3 DEF OneUpload, WorkNotReady, DropClean, EvictSound, ManagerTypes, Noted
<1>7. RefusalStands'
  BY <1>1, <1>2, <1>3 DEF RefusalStands
<1>8. HeldOrMarked'
  BY <1>1, <1>3 DEF HeldOrMarked
<1> QED
  BY <1>4, <1>5, <1>6, <1>7, <1>8

\* Any other error leaves the sets invalidated.
LEMMA RewriteFailsKeeps == ASSUME ManagerInv, RewriteFails PROVE SetsInv'
<1> USE DEF ManagerInv, SetsInv
<1> DEFINE hit == Hit(Noted(stmt.tag))
<1>1. /\ u = "run" /\ u' = "end" /\ stmt.kind = "rewritten" /\ oom' = {} /\ refusal' = Moved
      /\ st' = [t \in Sets |-> IF t \in hit /\ st[t] \in {"ready", "uploading", "pending"}
                               THEN "stale" ELSE st[t]]
      /\ cool' = [t \in Sets |-> cool[t] \/ t \in hit]
      /\ UNCHANGED <<load, ext, w, cur, victim, stmt>>
  BY DEF RewriteFails, Invalidate
<1>2. stmt.tag \in Sets
  BY <1>1 DEF ManagerTypes
<1>3. \A t \in Sets : st'[t] = (IF t \in hit /\ st[t] \in {"ready", "uploading", "pending"}
                                THEN "stale" ELSE st[t])
  BY <1>1
<1>4. ManagerTypes'
  <2>1. refusal' \in [Sets -> {"none", "stands", "moved"}]
    BY <1>1 DEF ManagerTypes, Moved
  <2>2. st' \in [Sets -> States]
    BY <1>1 DEF ManagerTypes, States
  <2>3. cool' \in [Sets -> BOOLEAN]
    BY <1>1 DEF ManagerTypes
  <2> QED
    BY <1>1, <2>1, <2>2, <2>3 DEF ManagerTypes
<1>5. SourcesReady'
  <2> SUFFICES ASSUME NEW s \in Sets, st'[s] \in {"ready", "uploading"}, NEW b \in Source[s]
               PROVE  st'[b] = "ready"
    BY DEF SourcesReady
  <2>1. st[s] \in {"ready", "uploading"} /\ s \notin hit
    BY <1>3
  <2>2. st[b] = "ready" /\ b \in Sets /\ b \notin hit
    BY <1>2, <2>1, HitClosed, ManagerAssumption DEF SourcesReady
  <2> QED
    BY <1>3, <2>2
<1>6. OneUpload' /\ WorkNotReady' /\ DropClean' /\ EvictSound' /\ RefusalStands'
  BY <1>1, <1>3 DEF OneUpload, WorkNotReady, DropClean, EvictSound, RefusalStands, ManagerTypes, Noted
<1>7. HeldOrMarked'
  BY <1>1, <1>3 DEF HeldOrMarked
<1> QED
  BY <1>4, <1>5, <1>6, <1>7

\* The stores go first: between the two steps the suspects may be ready.
LEMMA OnStaleKeeps == ASSUME ManagerInv, OnStale PROVE SetsInv'
<1> USE DEF ManagerInv, SetsInv
<1>1. /\ u = "run" /\ u' = "requeue" /\ stmt.kind = "rewritten"
      /\ ext' = [t \in Sets |-> IF t \in Suspect THEN NoSet ELSE ext[t]]
      /\ UNCHANGED <<load, st, cool, refusal, oom, w, cur, victim, stmt>>
  BY DEF OnStale, sched
<1>2. ManagerTypes'
  BY <1>1 DEF ManagerTypes
<1>3. SourcesReady' /\ OneUpload' /\ WorkNotReady' /\ DropClean' /\ RefusalStands'
  BY <1>1 DEF SourcesReady, OneUpload, WorkNotReady, DropClean, RefusalStands
<1>4. EvictSound' /\ HeldOrMarked'
  BY <1>1 DEF EvictSound, HeldOrMarked, Suspect, Noted, ManagerTypes
<1> QED
  BY <1>2, <1>3, <1>4

LEMMA RequeueKeeps == ASSUME ManagerInv, Requeue PROVE SetsInv'
<1> USE DEF ManagerInv, SetsInv
<1>1. /\ u = "requeue" /\ u' = "end" /\ oom' = {} /\ refusal' = Moved
      /\ st' = [t \in Sets |->
                  IF t \notin Suspect THEN st[t]
                  ELSE LET s == IF st[t] \in {"ready", "uploading", "pending"} THEN "stale" ELSE st[t]
                       IN  IF t \in Noted(stmt.tag) /\ att[t] < MaxAttempts THEN "pending" ELSE s]
      /\ cool' = [t \in Sets |-> cool[t] \/ t \in Suspect]
      /\ UNCHANGED <<load, ext, w, cur, victim, stmt>>
  BY DEF Requeue
<1>2. \A t \in Sets : /\ t \notin Suspect => st'[t] = st[t]
                      /\ t \in Suspect => st'[t] \in States \ {"ready", "uploading"}
  BY <1>1 DEF ManagerTypes, States
<1>3. ManagerTypes'
  <2>1. refusal' \in [Sets -> {"none", "stands", "moved"}]
    BY <1>1 DEF ManagerTypes, Moved
  <2>2. st' \in [Sets -> States]
    BY <1>1, <1>2 DEF ManagerTypes
  <2>3. cool' \in [Sets -> BOOLEAN]
    BY <1>1 DEF ManagerTypes
  <2> QED
    BY <1>1, <2>1, <2>2, <2>3 DEF ManagerTypes
<1>4. SourcesReady'
  <2> SUFFICES ASSUME NEW s \in Sets, st'[s] \in {"ready", "uploading"}, NEW b \in Source[s]
               PROVE  st'[b] = "ready"
    BY DEF SourcesReady
  <2>1. st[s] \in {"ready", "uploading"} /\ s \notin Suspect
    BY <1>2
  <2>2. st[b] = "ready" /\ b \in Sets /\ b \notin Suspect
    BY <1>1, <2>1, HitClosed, ManagerAssumption DEF SourcesReady, Suspect, ManagerTypes
  <2> QED
    BY <1>2, <2>2
<1>5. OneUpload' /\ WorkNotReady' /\ DropClean' /\ EvictSound' /\ RefusalStands'
  BY <1>1, <1>2 DEF OneUpload, WorkNotReady, DropClean, EvictSound, RefusalStands, ManagerTypes, Noted
<1>6. HeldOrMarked'
  BY <1>1, <1>2 DEF HeldOrMarked
<1> QED
  BY <1>3, <1>4, <1>5, <1>6

LEMMA TickKeeps ==
  ASSUME ManagerInv, NEW t \in Sets, Tick(t)
  PROVE  SetsInv'
<1> USE DEF ManagerInv, SetsInv
<1>1. /\ cool' = [cool EXCEPT ![t] = FALSE] /\ oom' = oom \ {t}
      /\ UNCHANGED <<load, st, refusal, ext, u, stmt, w, cur, victim>>
  BY DEF Tick, worker, conn
<1>2. ManagerTypes'
  BY <1>1 DEF ManagerTypes
<1>3. SourcesReady' /\ OneUpload' /\ WorkNotReady' /\ DropClean' /\ EvictSound'
  BY <1>1 DEF SourcesReady, OneUpload, WorkNotReady, DropClean, EvictSound, Noted
<1>4. RefusalStands'
  BY <1>1 DEF RefusalStands, ManagerTypes
<1>5. HeldOrMarked'
  BY <1>1 DEF HeldOrMarked, Suspect
<1> QED
  BY <1>2, <1>3, <1>4, <1>5

LEMMA StartsSound == ASSUME Init PROVE ManagerInv
<1>1. /\ load \in Loads /\ st = [t \in Sets |-> "missing"] /\ cool = [t \in Sets |-> FALSE]
      /\ refusal = [t \in Sets |-> "none"] /\ ext = [t \in Sets |-> NoSet] /\ oom = {}
      /\ w = "pick" /\ phase = "open" /\ u = "idle" /\ stmt.kind = "none"
  BY DEF Init, Idle
<1>2. ManagerTypes
  BY <1>1 DEF ManagerTypes, States, Places
<1>3. SetsInv
  BY <1>1, <1>2 DEF SetsInv, SourcesReady, OneUpload, WorkNotReady, DropClean, EvictSound, HeldOrMarked,
                    RefusalStands
<1>4. PostHeld
  BY <1>1 DEF PostHeld
<1> QED
  BY <1>3, <1>4 DEF ManagerInv

\* ---- the sort cache ------------------------------------------------------------------------
\* The post step is entered over lanes that are there.
LEMMA WorkerPosts == ASSUME ManagerInv, Working PROVE PostHeld'
<1> USE DEF PostHeld
<1>1. CASE phase' # "post"
  BY <1>1
<1>2. CASE w' = "wait" /\ ext'[cur] # NoSet /\ cur' = cur
  BY <1>2
<1>3. CASE /\ UNCHANGED <<st, ext, moved, cur, phase, u, stmt>>
           /\ w' \in {"wait", "run", "go", "check", "holds"} \/ w \in {"pick", "room", "evict"}
  BY <1>3 DEF ManagerInv, Suspect
<1>4. Free => phase' = "open"
  BY DEF Free
<1>5. CASE \E t \in Sets : Pick(t) \/ SourceFailed(t) \/ Evict(t)
  BY <1>1, <1>5 DEF ManagerInv, Pick, SourceFailed, Evict, worker
<1>6. CASE Room \/ NoRoom \/ Evicted \/ Holds \/ Open
  BY <1>1, <1>2, <1>4, <1>6 DEF ManagerInv, Room, NoRoom, Evicted, Holds, Open, Settle, Fail, Failed, OnHost
<1>7. CASE Go \/ Stop \/ Start
  BY <1>1, <1>3, <1>4, <1>7 DEF Go, Stop, Start, Settle, sched, conn
<1>8. CASE SegmentEnds \/ SegmentCut \/ SegmentFails \/ Check
  BY <1>1, <1>4, <1>8 DEF SegmentEnds, SegmentCut, SegmentFails, Check, Settle, Fail, Failed, OnHost, After
<1>9. CASE Finish
  <2>1. CASE Prepare
    <3>1. cur \in Sets
      BY <1>9 DEF Finish, ManagerInv, SetsInv, ManagerTypes
    <3>2. ext'[cur] # NoSet /\ w' = "wait" /\ cur' = cur
      BY <1>9, <2>1, <3>1, PutTouches DEF Finish, Prepare, Settle, Free, Failed, OnHost, Fail
    <3> QED
      BY <1>2, <3>2
  <2>2. CASE ~Prepare
    BY <1>1, <1>4, <1>9, <2>2 DEF Finish, Settle, Fail, Failed, OnHost
  <2> QED
    BY <2>1, <2>2
<1>10. CASE Post
  BY <1>1, <1>3, <1>4, <1>10 DEF Post, Settle, Fail, Failed, OnHost, sched, conn
<1>11. CASE Step
  BY <1>1, <1>4, <1>11 DEF Step, Settle, Fail
<1> QED
  BY <1>5, <1>6, <1>7, <1>8, <1>9, <1>10, <1>11 DEF Working

\* A connection that takes lanes away moves the epoch first, or is about to.
LEMMA ConnectionPosts ==
  ASSUME ManagerInv,
         \/ Answering \/ Write \/ Foreign \/ UNCHANGED vars
         \/ (\E t \in load.ask : Select(t)) \/ (\E t \in Sets : Tick(t))
  PROVE  PostHeld'
<1>1. UNCHANGED <<w, phase, cur>> /\ (~moved' => ~moved)
  <2>0. ASSUME NEW ts, Invalidate(ts) PROVE ~moved' => ~moved
    BY <2>0 DEF Invalidate
  <2>1. CASE Drop \/ Begin \/ Native \/ Answer \/ End \/ OnStale
    BY <2>1 DEF Drop, Begin, Native, Answer, End, OnStale, worker
  <2>2. CASE OutOfMemory \/ RewriteFails \/ Requeue
    BY <2>2 DEF OutOfMemory, Hurt, RewriteFails, Invalidate, Requeue
  <2>3. CASE Write \/ Foreign \/ UNCHANGED vars
    BY <2>0, <2>3 DEF Write, Foreign, worker, vars
  <2>4. ASSUME NEW t \in load.ask, Select(t) PROVE UNCHANGED <<w, phase, cur>> /\ (~moved' => ~moved)
    BY <2>0, <2>4 DEF Select, worker
  <2>5. CASE \E t \in Sets : Tick(t)
    BY <2>5 DEF Tick, worker
  <2> QED
    BY <2>1, <2>2, <2>3, <2>4, <2>5, Zenon DEF Answering
<1> USE DEF ManagerInv, SetsInv, PostHeld
<1> SUFFICES ASSUME phase = "post", st'[cur] = "uploading", ~moved', ext'[cur] = NoSet
             PROVE  u' = "requeue" /\ (cur \in Suspect)'
  BY <1>1 DEF Suspect
<1>2. cur \in Sets
  BY DEF ManagerTypes
<1>3. CASE UNCHANGED <<st, ext, u, stmt>>
  BY <1>1, <1>3 DEF Suspect
<1>4. CASE UNCHANGED <<st, ext>> /\ u # "requeue"
  BY <1>1, <1>4
<1>5. CASE Drop
  BY <1>2, <1>5 DEF Drop, DropClean, sched
<1>6. CASE OnStale
  <2>1. CASE cur \in Suspect
    BY <1>1, <1>6, <2>1 DEF OnStale, Suspect
  <2>2. CASE cur \notin Suspect
    BY <1>1, <1>2, <1>6, <2>2 DEF OnStale, sched
  <2> QED
    BY <2>1, <2>2
<1>7. CASE Requeue
  BY <1>1, <1>2, <1>7 DEF Requeue
<1>8. ASSUME NEW ts, cur \in Hit(ts), Invalidate(ts) PROVE FALSE
  BY <1>8 DEF Invalidate
<1>9. ASSUME NEW ts, cur \notin Hit(ts), Invalidate(ts), ext' = ext, u # "requeue" PROVE FALSE
  BY <1>1, <1>2, <1>9 DEF Invalidate
<1>10. CASE Write \/ RewriteFails
  BY <1>8, <1>9, <1>10 DEF Write, RewriteFails
<1>11. CASE OutOfMemory
  BY <1>1, <1>2, <1>11 DEF OutOfMemory, Hurt
<1>12. CASE \E t \in load.ask : Select(t)
  <2>1. PICK t \in load.ask : Select(t)
    BY <1>12
  <2>2. u = "idle" /\ ext' = ext
    BY <2>1 DEF Select
  <2>3. CASE Note(Noted(t))
    <3>1. st'[cur] = st[cur]
      BY <1>2, <2>3 DEF Note
    <3> QED
      BY <1>1, <2>2, <3>1
  <2> QED
    BY <1>4, <1>8, <1>9, <2>1, <2>2, <2>3 DEF Select, sched
<1>13. CASE Begin \/ Native \/ Answer \/ End
  BY <1>4, <1>13 DEF Begin, Native, Answer, End, sched
<1>14. CASE Foreign \/ (\E t \in Sets : Tick(t)) \/ UNCHANGED vars
  BY <1>3, <1>14 DEF Foreign, Tick, vars, sched, conn
<1>15. CASE Answering
  BY <1>5, <1>6, <1>7, <1>10, <1>11, <1>13, <1>15 DEF Answering
<1>16. CASE Write
  BY <1>10, <1>16
<1> HIDE DEF ManagerInv, SetsInv, PostHeld
<1> QED
  BY <1>12, <1>14, <1>15, <1>16, Zenon

\* The inductive invariant, under every interleaving of the worker, the
\* connection, another writer and the clock.
THEOREM ManagerSound == Spec => []ManagerInv
<1>1. ManagerInv /\ [Next]_vars => ManagerInv'
  <2> SUFFICES ASSUME ManagerInv, [Next]_vars PROVE ManagerInv'
    OBVIOUS
  <2>1. CASE Working
    BY <2>1, PickKeeps, SourceFailedKeeps, EvictKeeps, RoomKeeps, NoRoomKeeps, EvictedKeeps, HoldsKeeps,
       OpenKeeps, GoKeeps, StopKeeps, StartKeeps, SegmentEndsKeeps, SegmentCutKeeps, SegmentFailsKeeps,
       CheckKeeps, FinishKeeps, PostKeeps, StepKeeps, WorkerPosts
       DEF Working, ManagerInv
  <2>2. CASE Answering
    BY <2>2, DropKeeps, BeginKeeps, NativeKeeps, AnswerKeeps, OutOfMemoryKeeps, OnStaleKeeps, RequeueKeeps,
       EndKeeps, RewriteFailsKeeps, ConnectionPosts
       DEF Answering, ManagerInv
  <2>3. CASE Foreign
    BY <2>3, Stutters, ConnectionPosts DEF ManagerInv, Foreign, sched, worker, conn, Read
  <2>4. CASE \E t \in Sets : Tick(t)
    BY <2>4, TickKeeps, ConnectionPosts DEF ManagerInv
  <2>5. CASE \E t \in load.ask : Select(t)
    BY <2>5, SelectKeeps, ConnectionPosts DEF ManagerInv
  <2>6. CASE UNCHANGED vars
    BY <2>6, Stutters, ConnectionPosts DEF ManagerInv, vars, sched, worker, conn, Read
  <2>7. CASE Write
    BY <2>7, WriteKeeps, ConnectionPosts DEF ManagerInv
  <2> QED
    BY <2>1, <2>2, <2>3, <2>4, <2>5, <2>6, <2>7 DEF Next
<1> QED
  BY <1>1, StartsSound, PTL DEF Spec

\* What the manager calls ready the extension holds, outside the two steps of
\* an eviction and of a stale answer, whatever the worker is interrupted by.
THEOREM ReadySetsAreHeld == Spec => []ReadyIsHeld
<1>1. ManagerInv => ReadyIsHeld
  BY DEF ManagerInv, SetsInv, HeldOrMarked, ReadyIsHeld
<1> QED
  BY <1>1, ManagerSound, PTL

\* A set an operator ran out of memory over is neither queued nor uploaded
\* before room was made, the data changed or its retry time passed.
THEOREM MemoryRefusalsStand == Spec => []MemoryRefusalStands
<1>1. ManagerInv => MemoryRefusalStands
  BY DEF ManagerInv, SetsInv, RefusalStands, MemoryRefusalStands
<1> QED
  BY <1>1, ManagerSound, PTL

\* ---- the segments of a session ---------------------------------------------------------------
\* Steps that touch neither the session nor the worker's place in it.
LEMMA SessionStays ==
  ASSUME SessionInv, UNCHANGED <<load, w, phase, done>>, sess' \in {sess, NoSet},
         data' \in Nat, scan' \in [ver : Nat, old : BOOLEAN]
  PROVE  SessionInv'
<1>1. SessionTypes'
  BY DEF SessionInv, SessionTypes
<1>2. SessionCounted' /\ PhaseSound'
  BY DEF SessionInv, SessionCounted, PhaseSound, Counted
<1> QED
  BY <1>1, <1>2 DEF SessionInv

\* Before a session is open and after it ended there is nothing to count.
LEMMA OutsideSession ==
  ASSUME SessionInv, UNCHANGED <<load, data>>, scan' \in [ver : Nat, old : BOOLEAN],
         w' \in Places, done' \in Nat,
         phase' \in {"open", "post", "step"}, phase' = "open" => done' = 0, w' # "check",
         w' \in {"pick", "room", "evict", "holds"} => phase' = "open"
  PROVE  SessionInv'
<1>1. SessionTypes'
  BY DEF SessionInv, SessionTypes
<1>2. SessionCounted' /\ PhaseSound'
  BY DEF SessionCounted, PhaseSound
<1> QED
  BY <1>1, <1>2 DEF SessionInv

LEMMA RoundEnds ==
  ASSUME SessionInv, UNCHANGED <<load, data>>, Free
  PROVE  SessionInv'
<1>1. scan' \in [ver : Nat, old : BOOLEAN]
  BY DEF Free, NoScan
<1> QED
  BY <1>1, OutsideSession DEF Free, Places

LEMMA FailedFrees == ASSUME Failed PROVE Free /\ att' = att
BY DEF Failed, OnHost, Fail, Refuse

\* The worker waits or starts with its count as it is.
LEMMA SessionWaits ==
  ASSUME SessionInv, UNCHANGED <<load, data, phase, done, sess>>, w \in {"wait", "go"}, w' \in {"go", "run"},
         scan' = [ver |-> data, old |-> FALSE]
  PROVE  SessionInv'
<1>1. SessionTypes'
  BY DEF SessionInv, SessionTypes, Places
<1>2. SessionCounted' /\ PhaseSound'
  BY DEF SessionInv, SessionCounted, PhaseSound, Counted
<1> QED
  BY <1>1, <1>2 DEF SessionInv

\* A segment that lands in the session counts one more.
LEMMA LandedCounts ==
  ASSUME SessionInv, Landed, Counted(sess, done), sess \in Seq(Parts), sess # NoSet
  PROVE  sess' \in Seq(Parts) /\ Counted(sess', done + 1)
<1>1. sess' = Append(sess, Part)
  BY DEF Landed
<1>2. Part \in Parts /\ Part.seg = done + 1
  BY DEF Part, Parts, SessionInv, SessionTypes
<1>3. sess' \in Seq(Parts) /\ Len(sess') = Len(sess) + 1
  BY <1>1, <1>2
<1>4. \A j \in 1..(done + 1) : sess'[j].seg = j
  <2> SUFFICES ASSUME NEW j \in 1..(done + 1) PROVE sess'[j].seg = j
    OBVIOUS
  <2>1. CASE j = done + 1
    BY <1>1, <1>2, <2>1 DEF Counted, SessionInv, SessionTypes
  <2>2. CASE j # done + 1
    <3>1. j \in 1..done
      BY <2>2 DEF SessionInv, SessionTypes
    <3>2. sess'[j] = sess[j]
      BY <1>1, <3>1 DEF Counted
    <3> QED
      BY <3>1, <3>2 DEF Counted
  <2> QED
    BY <2>1, <2>2
<1> QED
  BY <1>3, <1>4 DEF Counted

\* After(n): the next segment, or the finish once all are counted.
LEMMA Advances ==
  ASSUME SessionInv, NEW n \in Nat, After(n), UNCHANGED <<load, data>>, phase = "seg",
         sess' # NoSet => sess' \in Seq(Parts) /\ Counted(sess', n)
  PROVE  SessionInv'
<1>1. /\ done' = n /\ w' = "wait" /\ scan' = scan
      /\ phase' \in {"seg", "finish"} /\ (phase' = "finish" => n = load.segments)
  BY DEF After
<1>2. SessionTypes'
  BY <1>1 DEF SessionInv, SessionTypes, Places
<1>3. SessionCounted' /\ PhaseSound'
  BY <1>1 DEF SessionCounted, PhaseSound
<1> QED
  BY <1>2, <1>3 DEF SessionInv

LEMMA OpenCounts == ASSUME SessionInv, Open PROVE SessionInv'
<1>1. UNCHANGED <<load, data>> /\ done = 0 /\ w = "run"
  BY DEF Open, SessionInv, PhaseSound
<1>2. CASE Settle("pending") \/ Failed
  BY <1>1, <1>2, RoundEnds, FailedFrees DEF Settle
<1>3. CASE sess' = <<>> /\ w' = "wait" /\ phase' = "seg" /\ UNCHANGED <<done, scan>>
  <2>1. sess' \in Seq(Parts) /\ Counted(sess', done)
    BY <1>1, <1>3 DEF Counted
  <2>2. SessionTypes'
    BY <1>1, <1>3 DEF SessionInv, SessionTypes, Places
  <2>3. SessionCounted' /\ PhaseSound'
    BY <1>3, <2>1 DEF SessionCounted, PhaseSound
  <2> QED
    BY <2>2, <2>3 DEF SessionInv
<1> QED
  BY <1>2, <1>3 DEF Open

LEMMA SegmentEndsCounts == ASSUME SessionInv, SegmentEnds PROVE SessionInv'
<1>1. /\ w = "run" /\ phase = "seg" /\ Landed /\ After(done + 1) /\ UNCHANGED <<load, data>>
      /\ done + 1 \in Nat
  BY DEF SegmentEnds, SessionInv, SessionTypes
<1>2. sess' # NoSet => sess' \in Seq(Parts) /\ Counted(sess', done + 1)
  <2>1. CASE sess = NoSet
    BY <1>1, <2>1 DEF Landed
  <2>2. CASE sess # NoSet
    BY <1>1, <2>2, LandedCounts DEF SessionInv, SessionCounted
  <2> QED
    BY <2>1, <2>2
<1> QED
  BY <1>1, <1>2, Advances

\* An interrupted segment landed or did not: Check tells them apart.
LEMMA SegmentCutCounts == ASSUME SessionInv, SegmentCut PROVE SessionInv'
<1>1. /\ w = "run" /\ phase = "seg" /\ w' = "check" /\ (Landed \/ UNCHANGED <<ext, sess>>)
      /\ UNCHANGED <<load, data, phase, done, scan>>
  BY DEF SegmentCut
<1>2. sess' # NoSet => sess' \in Seq(Parts) /\ (Counted(sess', done) \/ Counted(sess', done + 1))
  <2>1. CASE sess = NoSet
    BY <1>1, <2>1 DEF Landed
  <2>2. CASE sess # NoSet
    BY <1>1, <2>2, LandedCounts DEF SessionInv, SessionCounted
  <2> QED
    BY <2>1, <2>2
<1>3. SessionTypes'
  BY <1>1 DEF SessionInv, SessionTypes, Places
<1>4. SessionCounted' /\ PhaseSound'
  BY <1>1, <1>2 DEF SessionInv, SessionCounted, PhaseSound
<1> QED
  BY <1>3, <1>4 DEF SessionInv

LEMMA CheckCounts == ASSUME SessionInv, Check PROVE SessionInv'
<1> DEFINE n == IF Len(sess) = done + 1 THEN done + 1 ELSE done
<1>1. w = "check" /\ phase = "seg" /\ UNCHANGED <<load, data>>
  BY DEF Check, SessionInv, PhaseSound
<1>2. CASE Settle("stale")
  BY <1>1, <1>2, RoundEnds DEF Settle
<1>3. CASE sess # NoSet /\ After(n) /\ sess' = sess
  <2>1. sess \in Seq(Parts) /\ Counted(sess, n)
    BY <1>1, <1>3 DEF SessionInv, SessionTypes, SessionCounted, Counted
  <2>2. n \in Nat
    BY DEF SessionInv, SessionTypes
  <2> QED
    BY <1>1, <1>3, <2>1, <2>2, Advances
<1> QED
  BY <1>2, <1>3 DEF Check

LEMMA FinishCounts == ASSUME SessionInv, Finish PROVE SessionInv'
<1>1. UNCHANGED <<load, data>> /\ w = "run"
  BY DEF Finish
<1>2. CASE Settle("stale") \/ Failed \/ Settle("pending")
  BY <1>1, <1>2, RoundEnds, FailedFrees DEF Settle
<1>3. CASE Prepare
  <2>1. scan' \in [ver : Nat, old : BOOLEAN]
    BY <1>3 DEF Prepare, SessionInv, SessionTypes
  <2> QED
    BY <1>1, <1>3, <2>1, OutsideSession DEF Prepare, Places
<1> QED
  BY <1>2, <1>3 DEF Finish

LEMMA PostCounts == ASSUME SessionInv, Post PROVE SessionInv'
<1>1. UNCHANGED <<load, data>> /\ phase = "post"
  BY DEF Post
<1>2. CASE Settle("recheck") \/ Settle("ready") \/ Failed
  BY <1>1, <1>2, RoundEnds, FailedFrees DEF Settle
<1>3. CASE w' = "wait" /\ done' = done + 1 /\ UNCHANGED <<phase, scan>>
  <2>1. scan' \in [ver : Nat, old : BOOLEAN] /\ done' \in Nat
    BY <1>3 DEF SessionInv, SessionTypes
  <2> QED
    BY <1>1, <1>3, <2>1, OutsideSession DEF Places
<1> QED
  BY <1>2, <1>3 DEF Post

LEMMA StepCounts == ASSUME SessionInv, Step PROVE SessionInv'
<1>1. UNCHANGED <<load, data>> /\ Free
  BY DEF Step, Settle, Fail
<1> QED
  BY <1>1, RoundEnds

\* The steps before a session: picking, making room, asking the store.
LEMMA RoomCounts ==
  ASSUME SessionInv,
         \/ \E t \in Sets : Pick(t) \/ SourceFailed(t) \/ Evict(t)
         \/ Evicted \/ Room \/ NoRoom \/ Holds
  PROVE  SessionInv'
<1>1. UNCHANGED <<load, data>>
  BY DEF Pick, SourceFailed, Evict, Evicted, Room, NoRoom, Holds
<1>2. /\ w \in {"pick", "room", "evict", "holds"} /\ phase = "open" /\ done = 0
      /\ scan \in [ver : Nat, old : BOOLEAN]
  BY DEF Pick, SourceFailed, Evict, Evicted, Room, NoRoom, Holds, SessionInv, SessionTypes, PhaseSound, worker
<1>3. CASE Free
  BY <1>1, <1>3, RoundEnds
<1>4. CASE UNCHANGED <<phase, done, scan>> /\ w' \in {"pick", "room", "evict", "holds", "run"}
  BY <1>1, <1>2, <1>4, OutsideSession DEF Places
<1>5. CASE UNCHANGED <<done, scan>> /\ w' = "wait" /\ phase' \in {"step", "post"}
  BY <1>1, <1>2, <1>5, OutsideSession DEF Places
<1>6. Free \/ (UNCHANGED <<phase, done, scan>> /\ w' \in {"pick", "room", "evict", "holds", "run"})
        \/ (UNCHANGED <<done, scan>> /\ w' = "wait" /\ phase' \in {"step", "post"})
  <2>1. CASE Evicted \/ \E t \in Sets : Pick(t) \/ SourceFailed(t) \/ Evict(t)
    BY <2>1 DEF Pick, SourceFailed, Evict, Evicted, worker
  <2>2. CASE Room
    BY <1>2, <2>2 DEF Room
  <2>3. CASE NoRoom \/ Holds
    BY <2>3 DEF NoRoom, Holds, Fail, Settle
  <2> QED
    BY <2>1, <2>2, <2>3
<1> QED
  BY <1>3, <1>4, <1>5, <1>6

\* The connection and the world never touch the worker's place, and leave the
\* session or take it away whole.
LEMMA ConnectionCounts ==
  ASSUME SessionInv,
         Answering \/ Write \/ Foreign \/ (\E t \in load.ask : Select(t)) \/ (\E t \in Sets : Tick(t))
  PROVE  SessionInv'
<1>1. /\ data \in Nat /\ scan \in [ver : Nat, old : BOOLEAN]
  BY DEF SessionInv, SessionTypes
<1>2. CASE Drop \/ OnStale
  <2>1. scan' \in [ver : Nat, old : BOOLEAN]
    BY <1>1, <1>2 DEF Drop, OnStale
  <2> QED
    BY <1>1, <1>2, <2>1, SessionStays DEF Drop, OnStale
<1>3. CASE Native \/ Foreign
  BY <1>1, <1>3, SessionStays DEF Native, Foreign, worker
<1>4. CASE Begin \/ Answer \/ OutOfMemory \/ RewriteFails \/ Requeue \/ End
  BY <1>1, <1>4, SessionStays DEF Begin, Answer, OutOfMemory, Hurt, RewriteFails, Requeue, End, worker
<1>5. CASE Write \/ (\E t \in load.ask : Select(t)) \/ (\E t \in Sets : Tick(t))
  BY <1>1, <1>5, SessionStays DEF Write, Select, Tick, worker
<1> QED
  BY <1>2, <1>3, <1>4, <1>5 DEF Answering

LEMMA WorkerCounts == ASSUME SessionInv, Working PROVE SessionInv'
<1>1. CASE Go \/ Start
  BY <1>1, SessionWaits DEF Go, Start
<1>2. CASE Stop \/ SegmentFails
  BY <1>2, RoundEnds, FailedFrees DEF Stop, SegmentFails, Settle
<1>3. CASE Room \/ NoRoom \/ Evicted \/ Holds \/ (\E t \in Sets : Pick(t) \/ SourceFailed(t) \/ Evict(t))
  BY <1>3, RoomCounts
<1> QED
  BY <1>1, <1>2, <1>3, OpenCounts, SegmentEndsCounts, SegmentCutCounts, CheckCounts,
     FinishCounts, PostCounts, StepCounts DEF Working

\* A session holds the segments that were counted, in order, and one more only
\* between an interrupt and the look at what landed.
THEOREM SessionSound == Spec => []SessionInv
<1>1. Init => SessionInv
  BY DEF Init, SessionInv, SessionTypes, SessionCounted, PhaseSound, NoScan, Places
<1>2. SessionInv /\ [Next]_vars => SessionInv'
  <2> SUFFICES ASSUME SessionInv, [Next]_vars PROVE SessionInv'
    OBVIOUS
  <2>1. CASE UNCHANGED vars
    BY <2>1 DEF vars, worker, SessionInv, SessionTypes, SessionCounted, PhaseSound, Counted
  <2>2. CASE Next
    BY <2>2, WorkerCounts, ConnectionCounts DEF Next
  <2> QED
    BY <2>1, <2>2
<1> QED
  BY <1>1, <1>2, PTL DEF Spec

\* A session that is finished has every segment of the table once and in
\* order, whatever was interrupted, dropped or tried again on the way.
THEOREM SegmentsAreOnce == Spec => []SegmentsOnce
<1>1. SessionInv => SegmentsOnce
  <2> SUFFICES ASSUME SessionInv, phase = "finish", sess # NoSet
               PROVE [j \in DOMAIN sess |-> sess[j].seg] = [j \in 1..load.segments |-> j]
    BY DEF SegmentsOnce
  <2>1. sess \in Seq(Parts) /\ Counted(sess, load.segments)
    BY DEF SessionInv, SessionCounted, PhaseSound
  <2>2. DOMAIN sess = 1..load.segments
    BY <2>1 DEF Counted
  <2> QED
    BY <2>1, <2>2 DEF Counted
<1> QED
  BY <1>1, SessionSound, PTL
\* ---- types and counters -------------------------------------------------------------------------
\* The versions and the statements in flight: the worker touches neither.
LEMMA WorkingCounts ==
  ASSUME Working PROVE UNCHANGED <<load, data, snap, inFlight, u>>
BY DEF Working, Pick, SourceFailed, Evict, Room, NoRoom, Evicted, Holds, Open, Go, Stop, Start,
       SegmentEnds, SegmentCut, SegmentFails, Check, Finish, Post, Step, conn

LEMMA InFlightSteps ==
  ASSUME [Next]_vars PROVE load' = load /\ (inFlight = InFlight => inFlight' = InFlight')
<1>1. CASE Working \/ UNCHANGED vars \/ Foreign \/ \E t \in Sets : Tick(t)
  BY <1>1, WorkingCounts DEF vars, conn, Foreign, Tick, InFlight
<1>2. CASE Answering
  BY <1>2 DEF Answering, Drop, Begin, Native, Answer, OutOfMemory, Hurt, RewriteFails, OnStale, Requeue, End,
              InFlight
<1>3. CASE Write \/ \E t \in load.ask : Select(t)
  BY <1>3 DEF Write, Select, InFlight
<1> QED
  BY <1>1, <1>2, <1>3 DEF Next

LEMMA VersionSteps ==
  ASSUME [Next]_vars, ManagerInv, data \in 0..load.writes, snap \in 0..data
  PROVE  data' \in 0..load'.writes /\ snap' \in 0..data'
<1>1. load.writes \in Nat /\ load' = load
  BY ManagerAssumption, InFlightSteps DEF ManagerInv, SetsInv, ManagerTypes
<1>2. \/ UNCHANGED <<data, snap>>
      \/ snap' = snap /\ data < load.writes /\ data' = data + 1
      \/ data' = data /\ snap' = data
  <2>1. CASE Working \/ UNCHANGED vars \/ Foreign \/ \E t \in Sets : Tick(t)
    BY <2>1, WorkingCounts DEF vars, Foreign, Tick
  <2>2. CASE Answering
    BY <2>2 DEF Answering, Drop, Begin, Native, Answer, OutOfMemory, Hurt, RewriteFails, Invalidate, OnStale,
                Requeue, End
  <2>3. CASE Write \/ \E t \in load.ask : Select(t)
    BY <2>3 DEF Write, Select
  <2> QED
    BY <2>1, <2>2, <2>3 DEF Next
<1> QED
  BY <1>1, <1>2

\* Attempts are counted by a pick, up to the bound, and forgotten when a refusal
\* lapses.
LEMMA AttemptSteps ==
  ASSUME [Next]_vars, att \in [Sets -> 0..MaxAttempts]
  PROVE  att' \in [Sets -> 0..MaxAttempts]
<1>1. CASE att' = att
  BY <1>1
<1>2. ASSUME NEW t \in Sets, Pick(t) PROVE att' \in [Sets -> 0..MaxAttempts]
  <2>1. att' = [att EXCEPT ![t] = IF @ = MaxAttempts THEN @ ELSE @ + 1]
    BY <1>2 DEF Pick
  <2>2. (IF att[t] = MaxAttempts THEN att[t] ELSE att[t] + 1) \in 0..MaxAttempts
    BY ManagerAssumption
  <2> QED
    BY <2>1, <2>2
<1>3. ASSUME NEW ts, Note(ts) PROVE att' \in [Sets -> 0..MaxAttempts]
  <2>1. att' = [s \in Sets |-> IF s \in ts THEN Queued(s) ELSE att[s]]
    BY <1>3 DEF Note
  <2>2. \A s \in Sets : Queued(s) \in 0..MaxAttempts
    BY ManagerAssumption DEF Queued
  <2> QED
    BY <2>1, <2>2
<1>4. \/ att' = att \/ (\E t \in Sets : Pick(t))
      \/ (\E t \in load.ask : Note(Noted(t)))
  <2>1. CASE Working
    BY <2>1 DEF Working, SourceFailed, Evict, Room, NoRoom, Evicted, Holds, Open, Go, Stop, Start,
       SegmentEnds, SegmentCut, SegmentFails, Check, Finish, Post, Step, conn, sched, Settle, Fail, Failed, OnHost, Refuse
  <2>2. CASE Answering
    BY <2>2 DEF Answering, Drop, Begin, Native, Answer, OutOfMemory, Hurt, RewriteFails, Invalidate, OnStale,
                Requeue, End, sched
  <2>3. CASE Write \/ Foreign \/ UNCHANGED vars \/ \E t \in Sets : Tick(t)
    BY <2>3 DEF Write, Foreign, Tick, Invalidate, vars, sched
  <2>4. CASE \E t \in load.ask : Select(t)
    BY <2>4 DEF Select, Invalidate, sched
  <2> QED
    BY <2>1, <2>2, <2>3, <2>4 DEF Next
<1> QED
  BY <1>1, <1>2, <1>3, <1>4

\* The worker has a set exactly while it is not picking one.
LEMMA CurSteps ==
  ASSUME [Next]_vars, ManagerInv, cur # NoSet <=> w # "pick"
  PROVE  cur' # NoSet <=> w' # "pick"
<1>1. w # "pick" => cur \in Sets
  BY DEF ManagerInv, SetsInv, ManagerTypes
<1>2. \/ Free
      \/ \E t \in Sets : cur' = t /\ w' = "room"
      \/ cur' = cur /\ (w' = w \/ (w # "pick" /\ w' # "pick"))
  <2>1. CASE Working
    BY <2>1 DEF Working, Pick, SourceFailed, Evict, Room, NoRoom, Evicted, Holds, Open, Go, Stop, Start,
       SegmentEnds, SegmentCut, SegmentFails, Check, Finish, Post, Step, worker, Settle, Fail, Failed, OnHost, After, Prepare
  <2>2. CASE Answering
    BY <2>2 DEF Answering, Drop, Begin, Native, Answer, OutOfMemory, Hurt, RewriteFails, Invalidate, OnStale,
                Requeue, End, worker
  <2>3. CASE Write \/ Foreign \/ UNCHANGED vars \/ \E t \in Sets : Tick(t)
    BY <2>3 DEF Write, Foreign, Tick, Invalidate, vars, worker
  <2>4. CASE \E t \in load.ask : Select(t)
    BY <2>4 DEF Select, Invalidate, worker
  <2> QED
    BY <2>1, <2>2, <2>3, <2>4 DEF Next
<1> QED
  BY <1>1, <1>2, ManagerAssumption DEF Free

\* Segments that landed, and the tries of the post step.
LEMMA DoneSteps ==
  ASSUME [Next]_vars, ManagerInv, SessionInv, DoneBelow
  PROVE  DoneBelow'
<1>1. /\ load' = load /\ load.segments \in Nat \ {0} /\ PostMax \in Nat \ {0} /\ done \in Nat
      /\ phase \in {"open", "seg", "finish", "post", "step"}
  BY InFlightSteps, ManagerAssumption DEF ManagerInv, SetsInv, ManagerTypes, SessionInv, SessionTypes
<1>2. CASE UNCHANGED <<phase, done>>
  BY <1>1, <1>2 DEF DoneBelow
<1>3. CASE Free
  BY <1>1, <1>3 DEF DoneBelow, Free
<1>4. CASE Room \/ Open \/ Holds
  <2>1. phase = "open" /\ done = 0
    BY <1>4 DEF Room, Open, Holds, SessionInv, PhaseSound, DoneBelow
  <2>2. done' = 0 /\ phase' \in {"open", "seg", "step", "post"}
    BY <1>4, <2>1, FailedFrees DEF Room, Open, Holds, Settle, Free
  <2> QED
    BY <1>1, <2>2 DEF DoneBelow
<1>5. ASSUME phase = "seg", NEW n \in {done, done + 1}, After(n) PROVE DoneBelow'
  BY <1>1, <1>5 DEF After, DoneBelow
<1>6. CASE SegmentEnds \/ Check
  BY <1>1, <1>3, <1>5, <1>6 DEF SegmentEnds, Check, Settle, SessionInv, PhaseSound
<1>7. CASE Prepare
  BY <1>1, <1>7 DEF Prepare, DoneBelow
<1>8. CASE Post
  BY <1>1, <1>3, <1>8, FailedFrees DEF Post, Settle, DoneBelow
<1>9. \/ UNCHANGED <<phase, done>> \/ Free \/ Room \/ Open \/ Holds \/ SegmentEnds \/ Check \/ Prepare \/ Post
  <2>1. CASE Working
    BY <2>1 DEF Working, Pick, SourceFailed, Evict, NoRoom, Evicted, Go, Stop, Start,
       SegmentCut, SegmentFails, Finish, Step, worker, Settle, Fail, Failed, OnHost
  <2>2. CASE Answering
    BY <2>2 DEF Answering, Drop, Begin, Native, Answer, OutOfMemory, Hurt, RewriteFails, Invalidate, OnStale,
                Requeue, End, worker
  <2>3. CASE Write \/ Foreign \/ UNCHANGED vars \/ \E t \in Sets : Tick(t)
    BY <2>3 DEF Write, Foreign, Tick, vars, worker
  <2>4. CASE \E t \in load.ask : Select(t)
    BY <2>4 DEF Select, worker
  <2> QED
    BY <2>1, <2>2, <2>3, <2>4 DEF Next
<1> QED
  BY <1>2, <1>3, <1>4, <1>6, <1>7, <1>8, <1>9

\* What the types add to the two invariants above.
Counters ==
    /\ data \in 0..load.writes /\ snap \in 0..data
    /\ inFlight = InFlight /\ att \in [Sets -> 0..MaxAttempts]
    /\ cur # NoSet <=> w # "pick"
    /\ DoneBelow

LEMMA CountersGive ==
  ASSUME ManagerInv, SessionInv, Counters PROVE TypeInv
<1>1. load.segments \in Nat /\ PostMax \in Nat
  BY ManagerAssumption DEF ManagerInv, SetsInv, ManagerTypes
<1>2. done \in 0..(load.segments + PostMax) /\ done \in Nat
  BY <1>1 DEF SessionInv, SessionTypes, Counters, DoneBelow
<1>3. inFlight \in 0..1
  BY DEF Counters, InFlight
<1> QED
  BY <1>2, <1>3 DEF Counters, TypeInv, TypeOK, ManagerInv, SetsInv, ManagerTypes, OneUpload

\* Every variable keeps its type and every counter its bound: one statement in
\* flight at most, attempts up to their limit, a count of segments that is the
\* table's when it is finished.
THEOREM TypesSound == Spec => []TypeInv
<1>1. Init => Counters
  <2> SUFFICES ASSUME Init PROVE Counters
    OBVIOUS
  <2>1. load.writes \in Nat /\ MaxAttempts \in Nat
    BY ManagerAssumption DEF Init
  <2>2. att \in [Sets -> 0..MaxAttempts]
    BY <2>1 DEF Init
  <2> QED
    BY <2>1, <2>2 DEF Init, Counters, InFlight, DoneBelow
<1>2. ManagerInv /\ SessionInv /\ Counters /\ [Next]_vars => Counters'
  BY InFlightSteps, VersionSteps, AttemptSteps, CurSteps, DoneSteps DEF Counters
<1>3. ManagerInv /\ SessionInv /\ Counters => TypeInv
  BY CountersGive
<1> QED
  BY <1>1, <1>2, <1>3, ManagerSound, SessionSound, PTL DEF Spec

THEOREM TypesHold == Spec => []TypeOK
<1>1. TypeInv => TypeOK
  BY DEF TypeInv
<1> QED
  BY <1>1, TypesSound, PTL

-----------------------------------------------------------------------------
(***************************************************************************)
(* VersionInv is an invariant of ResidencyManager for any sets, workloads  *)
(* and bounds under which a table that may be written has more than one    *)
(* segment: a rewritten statement is answered from the version of the      *)
(* tables its connection last compared the file with.  The worker reads    *)
(* versions at one time and publishes them at another; what is in between  *)
(* is either dropped, or was read no earlier than the snapshot.            *)
(***************************************************************************)

\* The part of the state a step of the worker leaves alone.
Fixed == UNCHANGED <<load, data, snap, u, stmt, answer>>

\* Parts that may be published: read by now and, where they are the whole
\* table, not before the snapshot.
Fits(parts) ==
    /\ PartsRead(parts)
    /\ u # "drop" /\ parts # NoSet /\ Len(parts) = load.segments =>
         \A j \in DOMAIN parts : snap <= parts[j].ver

LEMMA Numbers ==
  ASSUME ManagerInv, VersionInv
  PROVE  /\ load \in Loads /\ load.writes \in Nat /\ load.segments \in Nat \ {0}
         /\ data \in Nat /\ snap \in Nat /\ scan.ver \in Nat
         /\ data <= load.writes /\ snap <= data /\ scan.ver <= data
<1>1. load \in Loads
  BY DEF ManagerInv, SetsInv, ManagerTypes
<1>2. load.writes \in Nat /\ load.segments \in Nat \ {0}
  BY <1>1, ManagerAssumption
<1> QED
  BY <1>1, <1>2 DEF VersionInv, VersionTypes

\* What the extension holds may be published again.
LEMMA HeldFits ==
  ASSUME VersionInv, NEW t \in Sets PROVE Fits(ext[t])
BY DEF VersionInv, VersionTypes, StoresCurrent, Fits, Usable

LEMMA SessionFits ==
  ASSUME VersionInv PROVE Fits(sess)
BY DEF VersionInv, VersionTypes, SessionCurrent, Fits

\* One segment is a whole table only where nothing is ever written.
LEMMA AloneFits ==
  ASSUME ManagerInv, SessionInv, VersionInv, SeveralSegments
  PROVE  Fits(<<Part>>)
<1>1. Part \in Parts /\ Part.ver = scan.ver
  BY DEF Part, Parts, SessionInv, SessionTypes
<1>2. <<Part>> \in Seq(Parts) /\ Len(<<Part>>) = 1 /\ <<Part>>[1] = Part /\ DOMAIN <<Part>> = {1}
  BY <1>1
<1>3. PartsRead(<<Part>>)
  BY <1>1, <1>2, Numbers DEF PartsRead
<1>4. load.segments = 1 => snap <= scan.ver
  BY Numbers DEF SeveralSegments
<1> QED
  BY <1>1, <1>2, <1>3, <1>4, Numbers DEF Fits

\* ---- steps of the worker ------------------------------------------------------------------
\* It publishes what fits, or drops.
LEMMA WorkerStores ==
  ASSUME ManagerInv, VersionInv, Fixed, scan'.ver \in 0..data, PartsRead(sess'),
         \A t \in Sets : ext'[t] \in {ext[t], NoSet} \/ Fits(ext'[t])
  PROVE  VersionTypes' /\ StoresCurrent' /\ Answered' /\ ServedCurrent'
<1>1. \A t \in Sets : Fits(ext'[t])
  <2> SUFFICES ASSUME NEW t \in Sets PROVE Fits(ext'[t])
    OBVIOUS
  <2>1. Fits(NoSet)
    BY DEF Fits, PartsRead
  <2> QED
    BY <2>1, HeldFits
<1>2. VersionTypes'
  BY <1>1 DEF Fixed, Fits, VersionInv, VersionTypes, PartsRead
<1>3. StoresCurrent'
  BY <1>1 DEF Fixed, Fits, StoresCurrent, Usable
<1>4. Answered' /\ ServedCurrent'
  BY DEF Fixed, VersionInv, Answered, ServedCurrent
<1> QED
  BY <1>2, <1>3, <1>4

\* The set a statement uses is not the worker's: it is left alone, or the
\* worker says that it is gone.
LEMMA WorkerSpares ==
  ASSUME ManagerInv, VersionInv, Fixed,
         w' # "pick" => w # "pick" /\ cur' = cur,
         \A t \in Sets \ {cur} : ext'[t] \in {ext[t], NoSet},
         \A t \in Sets \ {cur} :
            st'[t] = st[t] \/ (st[t] = "ready" /\ st'[t] = "missing" /\ (u \in {"begin", "run"} => ext'[t] = NoSet)),
         \A t \in Sets : st[t] = "ready" => ext'[t] = ext[t],
         w # "pick"
  PROVE  InUse'
<1> SUFFICES ASSUME stmt.kind = "rewritten", u \in {"begin", "run"}
             PROVE  InUse'
  BY DEF Fixed, InUse
<1> DEFINE t == stmt.tag
<1>1. t \in Sets /\ t # cur /\ stmt' = stmt /\ load' = load
  BY DEF ManagerInv, SetsInv, ManagerTypes, VersionInv, InUse, Fixed
<1>2. st'[t] \notin {"pending", "uploading"} /\ (st'[t] = "ready" \/ ext'[t] = NoSet)
  BY <1>1 DEF VersionInv, InUse
<1>3. w' # "pick" => cur' # t
  BY <1>1
<1>4. Usable(t)' => \A j \in DOMAIN ext'[t] : ext'[t][j].ver = stmt.asof
  BY <1>1 DEF VersionInv, InUse, Usable
<1> QED
  BY <1>1, <1>2, <1>3, <1>4 DEF InUse

Queueing == {"ready", "uploading", "pending"}

\* After a write dropped everything the worker finds nothing to do.
LEMMA WorkerIdles ==
  ASSUME ManagerInv, VersionInv, Fixed,
         \A t \in Sets : st'[t] \in Queueing => st[t] \in Queueing,
         load.writes > 0 => \A t \in Sets : Usable(t)' => \E s \in Sets : Usable(s),
         stmt.kind = "write" /\ u \in {"begin", "run", "end"} /\ sess' # NoSet =>
            sess' = <<>> /\ (w' = "pick" \/ (w' = "wait" /\ phase' = "seg"))
  PROVE  WriteClean'
<1> SUFFICES ASSUME stmt.kind = "write", u \in {"begin", "run", "end"} PROVE WriteClean'
  BY DEF Fixed, WriteClean
<1>1. \A t \in Sets : st[t] \notin Queueing /\ ~Usable(t)
  BY DEF VersionInv, WriteClean, Queueing
<1>2. load.writes > 0
  BY DEF VersionInv, VersionTypes
<1>3. \A t \in Sets : st'[t] \notin Queueing /\ ~Usable(t)'
  BY <1>1, <1>2
<1> QED
  BY <1>3 DEF Fixed, WriteClean, Queueing

\* What a step of the worker may do to the stores: its set gets parts that fit
\* and are no table a write has left none of; no other set gets anything.
Publishing ==
    /\ \A t \in Sets \ {cur} : ext'[t] \in {ext[t], NoSet}
    /\ Fits(ext'[cur])
    /\ load.writes > 0 /\ ext'[cur] # NoSet /\ Len(ext'[cur]) = load.segments =>
         \E s \in Sets : Usable(s)

LEMMA PublishingTables ==
  ASSUME VersionInv, Fixed, Publishing, load.writes > 0, NEW t \in Sets, Usable(t)'
  PROVE  \E s \in Sets : Usable(s)
<1>1. CASE t = cur
  BY <1>1 DEF Publishing, Fixed, Usable
<1>2. CASE t # cur
  BY <1>2 DEF Publishing, Fixed, Usable
<1> QED
  BY <1>1, <1>2

\* The worker puts parts for its set, a whole session, one segment, or what it
\* builds from a source.
LEMMA PutPublishes ==
  ASSUME ManagerInv, VersionInv, Fixed, w # "pick", NEW parts, ext' = Put(cur, parts), Fits(parts),
         load.writes > 0 /\ parts # NoSet /\ Len(parts) = load.segments => \E s \in Sets : Usable(s)
  PROVE  Publishing
<1>1. cur \in Sets
  BY DEF ManagerInv, SetsInv, ManagerTypes
<1>2. ext'[cur] = parts /\ \A t \in Sets \ {cur} : ext'[t] \in {ext[t], NoSet}
  BY <1>1 DEF Put
<1> QED
  BY <1>1, <1>2 DEF Publishing, Usable, Fixed

LEMMA SamePublishes ==
  ASSUME ManagerInv, VersionInv, ext' = ext, w # "pick" PROVE Publishing
<1>1. cur \in Sets
  BY DEF ManagerInv, SetsInv, ManagerTypes
<1> QED
  BY <1>1, HeldFits DEF Publishing, Usable

\* The worker goes on with its set.
LEMMA GoesOn ==
  ASSUME ManagerInv, VersionInv, Fixed, UNCHANGED <<st, cur>>, w # "pick", w' \notin {"pick", "evict"},
         Publishing, Touched, scan'.ver \in 0..data, PartsRead(sess'), SessionCurrent',
         stmt.kind = "write" /\ u \in {"begin", "run", "end"} /\ sess' # NoSet =>
            sess' = <<>> /\ (w' = "pick" \/ (w' = "wait" /\ phase' = "seg"))
  PROVE  VersionInv'
<1>1. cur \in Sets
  BY DEF ManagerInv, SetsInv, ManagerTypes
<1>2. VersionTypes' /\ StoresCurrent' /\ Answered' /\ ServedCurrent'
  BY <1>1, WorkerStores DEF Publishing
<1>3. WriteClean'
  BY WorkerIdles, PublishingTables
<1>4. \A t \in Sets : st[t] = "ready" => ext'[t] = ext[t]
  BY ReadyUntouched
<1>5. InUse'
  BY <1>4, WorkerSpares DEF Publishing
<1>6. EvictAlone'
  BY DEF EvictAlone
<1> QED
  BY <1>2, <1>3, <1>5, <1>6 DEF VersionInv

\* The worker's round ends.
LEMMA RoundOver ==
  ASSUME ManagerInv, VersionInv, Fixed, Outcome, w # "pick", w' = "pick",
         Publishing, Touched, scan' = NoScan, sess' \in {sess, NoSet, <<>>}
  PROVE  VersionInv'
<1>1. cur \in Sets
  BY DEF ManagerInv, SetsInv, ManagerTypes
<1>2. scan'.ver \in 0..data
  BY Numbers DEF NoScan
<1>3. PartsRead(sess') /\ SessionCurrent'
  <2>1. PartsRead(<<>>) /\ PartsRead(NoSet) /\ PartsRead(sess)
    BY DEF PartsRead, VersionInv, VersionTypes
  <2>2. SessionCurrent'
    <3>1. CASE sess' = <<>>
      BY <3>1 DEF SessionCurrent
    <3>2. CASE sess' \in {sess, NoSet}
      BY <3>2 DEF SessionCurrent, VersionInv, Fixed
    <3> QED
      BY <3>1, <3>2
  <2> QED
    BY <2>1, <2>2
<1>4. VersionTypes' /\ StoresCurrent' /\ Answered' /\ ServedCurrent'
  BY <1>1, <1>2, <1>3, WorkerStores DEF Publishing
<1>5. WriteClean'
  <2>1. \A t \in Sets : st'[t] \in Queueing => st[t] \in Queueing
    BY DEF Outcome, Queueing
  <2>2. stmt.kind = "write" /\ u \in {"begin", "run", "end"} /\ sess' # NoSet => sess' = <<>>
    BY DEF VersionInv, WriteClean
  <2> QED
    BY <2>1, <2>2, WorkerIdles, PublishingTables
<1>6. \A t \in Sets : st[t] = "ready" => ext'[t] = ext[t]
  BY ReadyUntouched
<1>7. InUse'
  BY <1>6, WorkerSpares DEF Publishing, Outcome
<1>8. EvictAlone'
  BY DEF EvictAlone
<1> QED
  BY <1>3, <1>4, <1>5, <1>7, <1>8 DEF VersionInv

\* Settle and _fail end a round.
Ended == Fail \/ \E out \in {"ready", "pending", "recheck", "stale"} :
                    Settle(out) /\ (out = "ready" /\ st[cur] = "uploading" /\ ~moved => BuiltOrMarked)

LEMMA SettledVersions ==
  ASSUME ManagerInv, VersionInv, Fixed, w # "pick", oom' = oom, Ended,
         Publishing, Touched, sess' \in {sess, NoSet, <<>>}
  PROVE  VersionInv'
<1>1. Outcome /\ w' = "pick"
  BY SettleIsOutcome, FailIsOutcome DEF Ended
<1>2. scan' = NoScan
  BY DEF Ended, Fail, Settle, Free
<1> QED
  BY <1>1, <1>2, RoundOver

LEMMA SameSettles ==
  ASSUME ManagerInv, VersionInv, Fixed, w # "pick", UNCHANGED <<ext, oom>>, Ended,
         sess' \in {sess, NoSet, <<>>}
  PROVE  VersionInv'
BY SamePublishes, SameTouches, SettledVersions

LEMMA NothingFits == Fits(NoSet)
BY DEF Fits, PartsRead

LEMMA FailedVersions ==
  ASSUME ManagerInv, VersionInv, Fixed, w # "pick", Failed, sess' \in {sess, NoSet, <<>>}
  PROVE  VersionInv'
<1>1. CASE OnHost
  <2>1. ext' = Put(cur, NoSet) /\ scan' = NoScan
    BY <1>1 DEF OnHost, Free
  <2>2. Publishing /\ Touched
    BY <2>1, NothingFits, PutPublishes, PutTouches
  <2>3. Outcome /\ w' = "pick"
    BY <1>1, OnHostIsOutcome
  <2> QED
    BY <2>1, <2>2, <2>3, RoundOver
<1>2. CASE Fail /\ UNCHANGED <<ext, oom>>
  BY <1>2, SameSettles DEF Ended
<1> QED
  BY <1>1, <1>2 DEF Failed

\* ---- one lemma per step of the worker --------------------------------------------------------
\* Nothing is picked or given up while it is in use: what is queued is not.
LEMMA PickVersions ==
  ASSUME ManagerInv, VersionInv, NEW t \in Sets, Pick(t) \/ SourceFailed(t)
  PROVE  VersionInv'
<1>1. /\ Fixed /\ w = "pick" /\ ext' = ext /\ sess' = sess /\ scan' = scan /\ st[t] = "pending"
      /\ \/ w' = "room" /\ cur' = t /\ st' = [st EXCEPT ![t] = "uploading"]
         \/ w' = "pick" /\ st' = [st EXCEPT ![t] = "failed"]
  BY DEF Pick, SourceFailed, Fixed, conn, worker, Pickable
<1>2. \A s \in Sets \ {t} : st'[s] = st[s]
  BY <1>1 DEF ManagerInv, SetsInv, ManagerTypes
<1>3. VersionTypes' /\ StoresCurrent' /\ Answered' /\ ServedCurrent'
  BY <1>1, WorkerStores DEF VersionInv, VersionTypes
<1>4. SessionCurrent'
  BY <1>1 DEF Fixed, VersionInv, SessionCurrent
<1>5. WriteClean'
  BY <1>1 DEF Fixed, VersionInv, WriteClean
<1>6. InUse'
  <2> SUFFICES ASSUME stmt.kind = "rewritten", u \in {"begin", "run"} PROVE InUse'
    BY <1>1 DEF Fixed, InUse
  <2>1. stmt.tag \in Sets \ {t} /\ st'[stmt.tag] = st[stmt.tag]
    BY <1>1, <1>2 DEF ManagerInv, SetsInv, ManagerTypes, VersionInv, InUse
  <2> QED
    BY <1>1, <2>1 DEF Fixed, VersionInv, InUse, Usable
<1>7. EvictAlone'
  BY <1>1 DEF EvictAlone
<1> QED
  BY <1>3, <1>4, <1>5, <1>6, <1>7 DEF VersionInv

\* The victim is in no use of another resident set, and neither is what it is
\* a source of.
LEMMA EvictVersions ==
  ASSUME ManagerInv, VersionInv, NEW v \in Sets, Evict(v)
  PROVE  VersionInv'
<1>1. /\ Fixed /\ w = "room" /\ w' = "evict" /\ UNCHANGED <<st, cur, sess, scan>> /\ victim' = v
      /\ ext' = Put(v, NoSet) /\ v \in Evictable
  BY DEF Evict, Fixed, conn, sched
<1>2. v \notin Noted(cur) /\ \A d \in Derived(v) : ext[d] = NoSet
  BY <1>1 DEF Evictable, Derived, Held
<1>3. \A t \in Sets : ext'[t] = (IF t = v THEN NoSet ELSE ext[t])
  BY <1>1, <1>2 DEF Put, Derived
<1>4. VersionTypes' /\ StoresCurrent' /\ Answered' /\ ServedCurrent'
  BY <1>1, <1>3, WorkerStores DEF VersionInv, VersionTypes
<1>5. SessionCurrent'
  BY <1>1 DEF Fixed, VersionInv, SessionCurrent
<1>6. WriteClean'
  BY <1>1, <1>3 DEF Fixed, VersionInv, WriteClean, Usable
<1>7. InUse'
  <2> SUFFICES ASSUME stmt.kind = "rewritten", u \in {"begin", "run"} PROVE InUse'
    BY <1>1 DEF Fixed, InUse
  <2>1. stmt.tag \in Sets /\ ext'[stmt.tag] \in {ext[stmt.tag], NoSet}
    BY <1>3 DEF ManagerInv, SetsInv, ManagerTypes
  <2> QED
    BY <1>1, <2>1 DEF Fixed, VersionInv, InUse, Usable
<1>8. EvictAlone'
  BY <1>1, <1>2, <1>3 DEF EvictAlone, Derived
<1> QED
  BY <1>4, <1>5, <1>6, <1>7, <1>8 DEF VersionInv

\* What is marked missing the extension no longer holds.
LEMMA EvictedVersions ==
  ASSUME ManagerInv, VersionInv, Evicted
  PROVE  VersionInv'
<1>1. /\ Fixed /\ w = "evict" /\ w' = "room" /\ UNCHANGED <<cur, sess, scan, ext>>
      /\ st' = [t \in Sets |-> IF st[victim] = "ready" /\ t \in Demoted({victim}) /\ st[t] = "ready"
                               THEN "missing" ELSE st[t]]
  BY DEF Evicted, Fixed, conn
<1>2. victim \in Sets /\ ext[victim] = NoSet /\ \A d \in Derived(victim) : ext[d] = NoSet
  BY <1>1 DEF ManagerInv, SetsInv, ManagerTypes, EvictSound, VersionInv, EvictAlone
<1>3. \A t \in Demoted({victim}) : ext[t] = NoSet
  BY <1>2 DEF Demoted, Derived
<1>4. \A t \in Sets : st'[t] = st[t] \/ (st[t] = "ready" /\ st'[t] = "missing" /\ ext'[t] = NoSet)
  BY <1>1, <1>3
<1>5. VersionTypes' /\ StoresCurrent' /\ Answered' /\ ServedCurrent'
  BY <1>1, WorkerStores DEF VersionInv, VersionTypes
<1>6. SessionCurrent'
  BY <1>1 DEF Fixed, VersionInv, SessionCurrent
<1>7. WriteClean'
  BY <1>1, <1>4 DEF Fixed, VersionInv, WriteClean, Usable
<1>8. InUse'
  BY <1>1, <1>4, WorkerSpares
<1>9. EvictAlone'
  BY <1>1 DEF EvictAlone
<1> QED
  BY <1>5, <1>6, <1>7, <1>8, <1>9 DEF VersionInv

\* A step that leaves the stores and the session alone and starts no segment.
LEMMA PlacesOnly ==
  ASSUME ManagerInv, VersionInv, Fixed, UNCHANGED <<st, cur, ext, sess>>,
         w \notin {"pick", "wait"}, w' \notin {"pick", "evict"}, scan' = scan,
         w' = "run" => phase' # "seg"
  PROVE  VersionInv'
<1>1. scan'.ver \in 0..data /\ PartsRead(sess')
  BY DEF VersionInv, VersionTypes
<1>2. SessionCurrent'
  BY DEF VersionInv, SessionCurrent, Fixed
<1>3. stmt.kind = "write" /\ u \in {"begin", "run", "end"} => sess' = NoSet
  BY DEF VersionInv, WriteClean
<1> QED
  BY <1>1, <1>2, <1>3, GoesOn, SamePublishes, SameTouches

LEMMA RoomVersions ==
  ASSUME ManagerInv, SessionInv, VersionInv, Room \/ NoRoom \/ Holds
  PROVE  VersionInv'
<1>1. Fixed /\ w \in {"room", "holds"} /\ UNCHANGED <<ext, oom>> /\ sess' = sess /\ phase = "open"
  BY DEF Room, NoRoom, Holds, Fixed, conn, SessionInv, PhaseSound
<1>2. CASE Fail \/ Settle("recheck")
  BY <1>1, <1>2, SameSettles DEF Ended
<1>3. CASE UNCHANGED <<st, cur, scan>> /\ w' \in {"wait", "holds", "run"} /\ (w' = "run" => phase' = "open")
  BY <1>1, <1>3, PlacesOnly
<1> QED
  BY <1>1, <1>2, <1>3 DEF Room, NoRoom, Holds, sched

LEMMA OpenVersions ==
  ASSUME ManagerInv, VersionInv, Open PROVE VersionInv'
<1>1. Fixed /\ w = "run"
  BY DEF Open, Fixed, conn
<1>2. CASE Settle("pending") /\ sess' \in {sess, <<>>} /\ UNCHANGED <<ext, oom>>
  BY <1>1, <1>2, SameSettles DEF Ended
<1>3. CASE Failed /\ sess' \in {sess, NoSet}
  BY <1>1, <1>3, FailedVersions
<1>4. CASE sess' = <<>> /\ w' = "wait" /\ phase' = "seg" /\ UNCHANGED <<sched, cur, scan, ext>>
  <2>1. scan'.ver \in 0..data /\ PartsRead(sess')
    BY <1>4 DEF VersionInv, VersionTypes, PartsRead
  <2>2. SessionCurrent'
    BY <1>4 DEF SessionCurrent
  <2> QED
    BY <1>1, <1>4, <2>1, <2>2, GoesOn, SamePublishes, SameTouches DEF sched
<1> QED
  BY <1>2, <1>3, <1>4 DEF Open

\* A segment that starts reads the tables as they are now.
LEMMA GoVersions ==
  ASSUME ManagerInv, VersionInv, Go \/ Start PROVE VersionInv'
<1>1. /\ Fixed /\ w \in {"wait", "go"} /\ w' \in {"go", "run"} /\ UNCHANGED <<st, cur, ext, sess>>
      /\ scan'.ver = data /\ (w = "wait" => st[cur] = "uploading")
  BY DEF Go, Start, Fixed, conn, sched, Overtaken
<1>2. cur \in Sets
  BY <1>1 DEF ManagerInv, SetsInv, ManagerTypes
<1>3. scan'.ver \in 0..data /\ PartsRead(sess')
  BY <1>1, Numbers DEF VersionInv, VersionTypes
<1>4. SessionCurrent'
  BY <1>1, Numbers DEF VersionInv, SessionCurrent, Fixed
<1>5. stmt.kind = "write" /\ u \in {"begin", "run", "end"} => sess' = NoSet
  BY <1>1, <1>2 DEF VersionInv, WriteClean
<1> QED
  BY <1>1, <1>3, <1>4, <1>5, GoesOn, SamePublishes, SameTouches

LEMMA StopVersions ==
  ASSUME ManagerInv, VersionInv, Stop PROVE VersionInv'
BY SameSettles DEF Stop, Ended, Fixed, conn

\* A segment that lands was read at its start, no earlier than the snapshot.
LEMMA LandedVersions ==
  ASSUME ManagerInv, SessionInv, VersionInv, SeveralSegments, Fixed, w = "run", phase = "seg", Landed
  PROVE  /\ Publishing /\ Touched /\ PartsRead(sess')
         /\ u # "drop" /\ sess' # NoSet => \A j \in DOMAIN sess' : snap <= sess'[j].ver
         /\ stmt.kind = "write" /\ u \in {"begin", "run", "end"} => sess' = NoSet
<1>1. CASE sess # NoSet /\ sess' = Append(sess, Part) /\ ext' = ext
  <2>1. Part \in Parts /\ Part.ver = scan.ver
    BY DEF Part, Parts, SessionInv, SessionTypes
  <2>2. sess \in Seq(Parts) /\ (\A j \in DOMAIN sess : sess[j].ver <= data) /\ scan.ver <= data
    BY <1>1, Numbers DEF VersionInv, VersionTypes, PartsRead
  <2>3. /\ sess' \in Seq(Parts) /\ DOMAIN sess' = 1..(Len(sess) + 1) /\ DOMAIN sess = 1..Len(sess)
        /\ Len(sess) \in Nat /\ sess'[Len(sess) + 1] = Part
        /\ \A j \in 1..Len(sess) : sess'[j] = sess[j]
    BY <1>1, <2>1, <2>2
  <2>4. \A j \in DOMAIN sess' : j \in DOMAIN sess \/ j = Len(sess) + 1
    BY <2>3
  <2>5. PartsRead(sess')
    BY <2>1, <2>2, <2>3, <2>4 DEF PartsRead
  <2>6. u # "drop" => snap <= scan.ver /\ \A j \in DOMAIN sess : snap <= sess[j].ver
    BY <1>1 DEF VersionInv, SessionCurrent
  <2>7. stmt.kind = "write" => u \notin {"begin", "run", "end"}
    BY <1>1 DEF VersionInv, WriteClean
  <2>8. Publishing /\ Touched
    BY <1>1, SamePublishes, SameTouches
  <2> QED
    BY <2>1, <2>3, <2>4, <2>5, <2>6, <2>7, <2>8
<1>2. CASE sess = NoSet /\ sess' = sess /\ ext' = Put(cur, <<Part>>)
  <2>1. Fits(<<Part>>)
    BY AloneFits
  <2>2. ~(load.writes > 0 /\ Len(<<Part>>) = load.segments)
    BY Numbers DEF SeveralSegments
  <2>3. Publishing
    BY <1>2, <2>1, <2>2, PutPublishes
  <2> QED
    BY <1>2, <2>3, PutTouches DEF PartsRead
<1> QED
  BY <1>1, <1>2 DEF Landed

LEMMA SegmentEndsVersions ==
  ASSUME ManagerInv, SessionInv, VersionInv, SeveralSegments, SegmentEnds \/ SegmentCut
  PROVE  VersionInv'
<1>1. /\ Fixed /\ w = "run" /\ phase = "seg" /\ w' \in {"wait", "check"}
      /\ UNCHANGED <<st, cur, scan>> /\ (Landed \/ UNCHANGED <<ext, sess>>)
  BY DEF SegmentEnds, SegmentCut, After, Fixed, conn, sched
<1>2. scan'.ver \in 0..data
  BY <1>1 DEF VersionInv, VersionTypes
<1>3. CASE Landed
  <2>1. SessionCurrent'
    BY <1>1, <1>3, LandedVersions DEF SessionCurrent, Fixed
  <2> QED
    BY <1>1, <1>2, <1>3, <2>1, LandedVersions, GoesOn
<1>4. CASE UNCHANGED <<ext, sess>>
  <2>1. SessionCurrent' /\ PartsRead(sess')
    BY <1>1, <1>4 DEF SessionCurrent, Fixed, VersionInv, VersionTypes
  <2>2. stmt.kind = "write" /\ u \in {"begin", "run", "end"} => sess' = NoSet
    BY <1>1, <1>4 DEF VersionInv, WriteClean
  <2> QED
    BY <1>1, <1>2, <1>4, <2>1, <2>2, GoesOn, SamePublishes, SameTouches
<1> QED
  BY <1>1, <1>3, <1>4

LEMMA SegmentFailsVersions ==
  ASSUME ManagerInv, VersionInv, SegmentFails PROVE VersionInv'
BY FailedVersions DEF SegmentFails, Fixed, conn

LEMMA CheckVersions ==
  ASSUME ManagerInv, VersionInv, Check PROVE VersionInv'
<1>1. Fixed /\ w = "check" /\ UNCHANGED <<ext, oom>>
  BY DEF Check, Fixed, conn
<1>2. CASE Settle("stale") /\ sess' = NoSet
  BY <1>1, <1>2, SameSettles DEF Ended
<1>3. CASE UNCHANGED <<st, cur, scan, sess>> /\ w' = "wait"
  BY <1>1, <1>3, PlacesOnly
<1> QED
  BY <1>2, <1>3 DEF Check, After, sched

\* A finished session is published as it was read.
LEMMA FinishVersions ==
  ASSUME ManagerInv, VersionInv, Finish PROVE VersionInv'
<1>1. Fixed /\ w = "run" /\ scan'.ver \in 0..data
  <2>1. Fixed /\ w = "run" /\ (scan' = scan \/ scan' = NoScan)
    BY DEF Finish, Settle, Fail, Failed, OnHost, Free, Prepare, Fixed, conn
  <2> QED
    BY <2>1, Numbers DEF NoScan, VersionInv, VersionTypes
<1>2. CASE (Settle("stale") \/ Settle("pending")) /\ UNCHANGED <<ext, oom>> /\ sess' = NoSet
  BY <1>1, <1>2, SameSettles DEF Ended
<1>3. CASE Failed /\ sess' = NoSet
  BY <1>1, <1>3, FailedVersions
<1>4. PartsRead(sess') /\ SessionCurrent'
  BY DEF Finish, PartsRead, SessionCurrent
<1>5. CASE Prepare /\ UNCHANGED <<st, ext>> /\ sess' = NoSet
  BY <1>1, <1>4, <1>5, GoesOn, SamePublishes, SameTouches DEF Prepare
<1>6. CASE /\ sess # NoSet /\ ext' = Put(cur, sess) /\ sess' = NoSet /\ oom' = oom
           /\ (Prepare /\ UNCHANGED st) \/ Settle("pending")
  <2>1. w' # "evict" /\ (w' # "pick" => cur' = cur) /\ \A t \in Sets \ {cur} : st'[t] = st[t]
    <3>1. CASE Prepare /\ UNCHANGED st
      BY <3>1 DEF Prepare
    <3>2. CASE Settle("pending")
      BY <1>1, <1>6, <3>2, SettleIsOutcome DEF Outcome
    <3> QED
      BY <1>6, <3>1, <3>2
  <2>2. ~(stmt.kind = "write" /\ u \in {"begin", "run", "end"})
    BY <1>1, <1>6 DEF VersionInv, WriteClean
  <2>3. \A t \in Sets \ {cur} : ext'[t] \in {ext[t], NoSet}
    BY <1>6 DEF Put
  <2>4. cur \in Sets /\ ext'[cur] = sess /\ Touched
    BY <1>1, <1>6, PutTouches DEF ManagerInv, SetsInv, ManagerTypes
  <2>5. VersionTypes' /\ StoresCurrent' /\ Answered' /\ ServedCurrent'
    BY <1>1, <1>4, <2>3, <2>4, SessionFits, WorkerStores
  <2>6. WriteClean'
    BY <1>1, <2>2 DEF WriteClean, Fixed
  <2>7. InUse'
    <3>1. \A t \in Sets : st[t] = "ready" => ext'[t] = ext[t]
      BY <1>1, <2>4, ReadyUntouched
    <3> QED
      BY <1>1, <2>1, <2>3, <3>1, WorkerSpares
  <2>8. EvictAlone'
    BY <2>1 DEF EvictAlone
  <2> QED
    BY <1>4, <2>5, <2>6, <2>7, <2>8 DEF VersionInv
<1> QED
  BY <1>2, <1>3, <1>5, <1>6 DEF Finish, sched

LEMMA PostVersions ==
  ASSUME ManagerInv, SessionInv, VersionInv, Post PROVE VersionInv'
<1>1. Fixed /\ w = "run" /\ phase = "post" /\ sess' = sess
  BY DEF Post, Fixed, conn
<1>2. CASE (Settle("recheck") \/ Settle("ready")) /\ UNCHANGED <<ext, oom>>
  <2>1. ext' = ext /\ st[cur] = "uploading" /\ ~moved => BuiltOrMarked
    BY <1>1 DEF ManagerInv, PostHeld, BuiltOrMarked
  <2> QED
    BY <1>1, <1>2, <2>1, SameSettles DEF Ended
<1>3. CASE UNCHANGED <<st, cur, phase, scan, ext>> /\ w' = "wait"
  BY <1>1, <1>3, PlacesOnly
<1>4. CASE Failed
  BY <1>1, <1>4, FailedVersions
<1> QED
  BY <1>2, <1>3, <1>4 DEF Post, sched

\* What is built is of the version of its source; a source that is lost is in
\* no use.
LEMMA StepVersions ==
  ASSUME ManagerInv, VersionInv, Step PROVE VersionInv'
<1>1. Fixed /\ w = "run" /\ sess' = sess /\ oom' = oom /\ cur \in Sets
  BY DEF Step, Fixed, conn, ManagerInv, SetsInv, ManagerTypes
<1>2. CASE (Settle("pending") /\ ext' = ext) \/ (Fail /\ ext' = Put(cur, NoSet))
  <2>1. CASE Settle("pending") /\ ext' = ext
    BY <1>1, <2>1, SameSettles DEF Ended
  <2>2. CASE Fail /\ ext' = Put(cur, NoSet)
    <3>1. Publishing /\ Touched
      BY <1>1, <2>2, NothingFits, PutPublishes, PutTouches
    <3> QED
      BY <1>1, <2>2, <3>1, SettledVersions DEF Ended
  <2> QED
    BY <1>2, <2>1, <2>2
<1>3. CASE \E b \in Source[cur] : /\ ext[b] # NoSet /\ ext' = Put(cur, ext[b])
                                  /\ Settle("ready") \/ Settle("pending")
  <2>1. PICK b \in Source[cur] : /\ ext[b] # NoSet /\ ext' = Put(cur, ext[b])
                                 /\ Settle("ready") \/ Settle("pending")
    BY <1>3
  <2>2. b \in Sets /\ Fits(ext[b])
    BY <1>1, HeldFits, ManagerAssumption
  <2>3. Len(ext[b]) = load.segments => Usable(b)
    BY <2>1 DEF Usable
  <2>4. Publishing /\ Touched /\ ext'[cur] # NoSet
    BY <1>1, <2>1, <2>2, <2>3, PutPublishes, PutTouches
  <2> QED
    BY <1>1, <2>1, <2>4, SettledVersions DEF Ended, BuiltOrMarked
<1>4. CASE /\ Free /\ ext' = ext
           /\ st' = [t \in Sets |->
                       IF t = cur /\ st[cur] = "uploading" THEN "stale"
                       ELSE IF st[t] = "ready" /\ t \in Demoted(Lost) /\ Lost # {} THEN "missing" ELSE st[t]]
  <2>1. w' = "pick" /\ scan' = NoScan
    BY <1>4 DEF Free
  <2>2. VersionTypes' /\ StoresCurrent' /\ Answered' /\ ServedCurrent'
    BY <1>1, <1>4, <2>1, Numbers, WorkerStores DEF VersionInv, VersionTypes, NoScan
  <2>3. SessionCurrent'
    BY <1>1, <2>1 DEF Fixed, VersionInv, SessionCurrent
  <2>4. WriteClean'
    BY <1>1, <1>4 DEF Fixed, VersionInv, WriteClean, Usable
  <2>5. u \in {"begin", "run"} => Lost = {}
    BY <1>1, ManagerAssumption DEF Lost, ManagerInv, SetsInv, HeldOrMarked
  <2>6. InUse'
    BY <1>1, <1>4, <2>1, <2>5, WorkerSpares
  <2>7. EvictAlone'
    BY <2>1 DEF EvictAlone
  <2> QED
    BY <2>2, <2>3, <2>4, <2>6, <2>7 DEF VersionInv
<1> QED
  BY <1>2, <1>3, <1>4 DEF Step

\* ---- one lemma per step of the connection and of the world ------------------------------------
\* Steps that touch nothing but the schedule.
Untouched == UNCHANGED <<load, data, snap, w, phase, cur, victim, scan, ext, sess>>

LEMMA UntouchedVersions ==
  ASSUME ManagerInv, VersionInv, Untouched, answer' \in {answer, <<>>},
         stmt'.kind = "write" => load.writes > 0, u # "drop", u' # "drop"
  PROVE  VersionTypes' /\ StoresCurrent' /\ SessionCurrent' /\ EvictAlone'
<1>1. VersionTypes'
  BY DEF Untouched, VersionInv, VersionTypes, PartsRead
<1>2. StoresCurrent' /\ SessionCurrent'
  BY DEF Untouched, VersionInv, StoresCurrent, SessionCurrent, Usable
<1>3. EvictAlone'
  BY DEF Untouched, VersionInv, EvictAlone
<1> QED
  BY <1>1, <1>2, <1>3

LEMMA BeginVersions ==
  ASSUME ManagerInv, VersionInv, Begin PROVE VersionInv'
<1>1. /\ Untouched /\ UNCHANGED <<stmt, answer, st>> /\ u = "begin" /\ u' = "run"
  BY DEF Begin, Untouched, sched
<1>2. VersionTypes' /\ StoresCurrent' /\ SessionCurrent' /\ EvictAlone'
  BY <1>1, UntouchedVersions DEF VersionInv, VersionTypes
<1>3. WriteClean' /\ InUse'
  BY <1>1 DEF Untouched, VersionInv, WriteClean, InUse, Usable
<1>4. Answered' /\ ServedCurrent'
  BY <1>1 DEF VersionInv, Answered, ServedCurrent
<1> QED
  BY <1>2, <1>3, <1>4 DEF VersionInv

\* The statement is answered from the set it was sent to: that set is still of
\* the version the file was compared at.
LEMMA AnswerVersions ==
  ASSUME ManagerInv, VersionInv, Answer PROVE VersionInv'
<1>1. /\ UNCHANGED <<load, data, snap, st, w, phase, cur, victim, scan, ext, sess, stmt>>
      /\ u = "run" /\ u' = "end" /\ stmt.kind = "rewritten" /\ Usable(stmt.tag) /\ answer' = ext[stmt.tag]
  BY DEF Answer, sched, worker
<1>2. VersionTypes'
  BY <1>1 DEF VersionInv, VersionTypes, PartsRead
<1>3. StoresCurrent' /\ SessionCurrent' /\ EvictAlone'
  BY <1>1 DEF VersionInv, StoresCurrent, SessionCurrent, EvictAlone, Usable
<1>4. WriteClean' /\ InUse' /\ Answered'
  BY <1>1 DEF WriteClean, InUse, Answered
<1>5. ServedCurrent'
  BY <1>1 DEF VersionInv, InUse, ServedCurrent
<1> QED
  BY <1>2, <1>3, <1>4, <1>5 DEF VersionInv

LEMMA OutOfMemoryVersions ==
  ASSUME ManagerInv, VersionInv, OutOfMemory \/ RewriteFails \/ Requeue PROVE VersionInv'
<1>1. /\ Untouched /\ UNCHANGED <<stmt, answer>> /\ u \in {"run", "requeue"} /\ u' = "end" /\ stmt.kind = "rewritten"
  BY DEF OutOfMemory, Hurt, RewriteFails, Invalidate, Requeue, Untouched, ManagerInv, SetsInv, ManagerTypes
<1>2. VersionTypes' /\ StoresCurrent' /\ SessionCurrent' /\ EvictAlone'
  BY <1>1, UntouchedVersions
<1>3. WriteClean' /\ InUse'
  BY <1>1 DEF WriteClean, InUse
<1>4. Answered' /\ ServedCurrent'
  BY <1>1 DEF VersionInv, Answered, ServedCurrent
<1> QED
  BY <1>2, <1>3, <1>4 DEF VersionInv

\* After a write the connection looks at the file again: nothing it dropped
\* came back while the write ran.
LEMMA EndVersions ==
  ASSUME ManagerInv, VersionInv, End PROVE VersionInv'
<1>1. /\ UNCHANGED <<load, data, st, w, phase, cur, victim, scan, ext, sess>> /\ u = "end" /\ u' = "idle"
      /\ snap' = (IF stmt.kind = "write" THEN data ELSE snap) /\ stmt' = Idle /\ answer' = <<>>
  BY DEF End, sched, worker
<1>2. VersionTypes'
  <2>1. snap' \in 0..data
    BY <1>1, Numbers
  <2> QED
    BY <1>1, <2>1 DEF VersionInv, VersionTypes, PartsRead, Idle
<1>3. StoresCurrent' /\ SessionCurrent'
  <2>1. CASE stmt.kind = "write"
    <3>1. (\A t \in Sets : ~Usable(t)) /\ (sess # NoSet => sess = <<>> /\ w \in {"pick", "wait"})
      BY <1>1, <2>1 DEF VersionInv, WriteClean
    <3>2. StoresCurrent'
      BY <1>1, <3>1 DEF StoresCurrent, Usable
    <3>3. SessionCurrent'
      BY <1>1, <3>1 DEF SessionCurrent
    <3> QED
      BY <3>2, <3>3
  <2>2. CASE stmt.kind # "write"
    BY <1>1, <2>2 DEF VersionInv, StoresCurrent, SessionCurrent, Usable
  <2> QED
    BY <2>1, <2>2
<1>4. WriteClean' /\ InUse' /\ Answered' /\ ServedCurrent'
  BY <1>1 DEF WriteClean, InUse, Answered, ServedCurrent, Idle
<1>5. EvictAlone'
  BY <1>1 DEF VersionInv, EvictAlone
<1> QED
  BY <1>2, <1>3, <1>4, <1>5 DEF VersionInv

\* A commit, by the statement or by another connection, makes the tables newer;
\* what was read is of the version it was read at.
LEMMA CommitVersions ==
  ASSUME ManagerInv, VersionInv, Native \/ Foreign PROVE VersionInv'
<1>1. /\ UNCHANGED <<load, snap, st, w, phase, cur, victim, scan, ext, sess, stmt, answer>>
      /\ data' = data \/ (data < load.writes /\ data' = data + 1)
      /\ \/ u' = u
         \/ u = "run" /\ u' = "end" /\ stmt.kind # "rewritten"
  BY DEF Native, Foreign, sched, worker, conn
<1>2. data' \in 0..load.writes /\ data <= data' /\ data' \in Nat
  BY <1>1, Numbers
<1>3. ASSUME NEW parts, PartsRead(parts) PROVE PartsRead(parts)'
  <2> SUFFICES ASSUME parts # NoSet
               PROVE  parts \in Seq(Parts) /\ \A j \in DOMAIN parts : parts[j].ver <= data'
    BY DEF PartsRead
  <2>1. parts \in Seq(Parts) /\ \A j \in DOMAIN parts : parts[j].ver <= data
    BY <1>3 DEF PartsRead
  <2>2. \A j \in DOMAIN parts : parts[j].ver \in Nat
    <3>1. \A j \in DOMAIN parts : parts[j] \in Parts
      BY <2>1
    <3> QED
      BY <3>1 DEF Parts
  <2> QED
    BY <1>2, <2>1, <2>2, Numbers
<1>4. VersionTypes'
  <2>1. snap' \in 0..data' /\ scan'.ver \in 0..data'
    BY <1>1, <1>2, Numbers
  <2>2. PartsRead(sess)' /\ \A t \in Sets : PartsRead(ext[t])'
    <3>1. PartsRead(sess) /\ \A t \in Sets : PartsRead(ext[t])
      BY DEF VersionInv, VersionTypes
    <3> QED
      BY <1>1, <1>3, <3>1 DEF PartsRead
  <2> QED
    BY <1>1, <1>2, <2>1, <2>2 DEF VersionInv, VersionTypes
<1>5. StoresCurrent' /\ SessionCurrent' /\ EvictAlone'
  BY <1>1 DEF VersionInv, StoresCurrent, SessionCurrent, EvictAlone, Usable
<1>6. WriteClean' /\ InUse'
  BY <1>1 DEF VersionInv, WriteClean, InUse, Usable
<1>7. Answered' /\ ServedCurrent'
  BY <1>1 DEF VersionInv, Answered, ServedCurrent
<1> QED
  BY <1>4, <1>5, <1>6, <1>7 DEF VersionInv

\* The stores go, all of them or those of the tables a statement found stale.
LEMMA DropVersions ==
  ASSUME ManagerInv, VersionInv, Drop PROVE VersionInv'
<1>1. /\ UNCHANGED <<load, data, snap, st, w, phase, cur, victim, stmt, answer>> /\ u = "drop" /\ u' = "begin"
      /\ ext' = [t \in Sets |-> NoSet] /\ sess' = NoSet /\ scan'.ver = scan.ver
  BY DEF Drop, sched, VersionInv, VersionTypes
<1>2. \A t \in Sets : ext'[t] = NoSet /\ st[t] \notin {"ready", "uploading", "pending"}
  BY <1>1 DEF ManagerInv, SetsInv, DropClean
<1>3. VersionTypes'
  BY <1>1, <1>2 DEF VersionInv, VersionTypes, PartsRead
<1>4. StoresCurrent' /\ SessionCurrent' /\ EvictAlone'
  BY <1>1, <1>2 DEF StoresCurrent, SessionCurrent, EvictAlone, Usable, Derived
<1>5. WriteClean' /\ InUse'
  BY <1>1, <1>2 DEF WriteClean, InUse, Usable, VersionInv, VersionTypes
<1>6. Answered' /\ ServedCurrent'
  BY <1>1 DEF VersionInv, Answered, ServedCurrent
<1> QED
  BY <1>3, <1>4, <1>5, <1>6 DEF VersionInv

LEMMA OnStaleVersions ==
  ASSUME ManagerInv, VersionInv, OnStale PROVE VersionInv'
<1>1. /\ UNCHANGED <<load, data, snap, st, w, phase, cur, victim, stmt, answer>> /\ u = "run" /\ u' = "requeue"
      /\ stmt.kind = "rewritten" /\ sess' \in {sess, NoSet} /\ scan'.ver = scan.ver
      /\ ext' = [t \in Sets |-> IF t \in Suspect THEN NoSet ELSE ext[t]]
  BY DEF OnStale, sched, VersionInv, VersionTypes
<1>2. \A t \in Sets : ext'[t] \in {ext[t], NoSet}
  BY <1>1
<1>3. VersionTypes'
  <2>1. PartsRead(sess)' /\ \A t \in Sets : PartsRead(ext[t])'
    BY <1>1, <1>2 DEF VersionInv, VersionTypes, PartsRead
  <2> QED
    BY <1>1, <2>1 DEF VersionInv, VersionTypes
<1>4. StoresCurrent' /\ SessionCurrent'
  BY <1>1, <1>2 DEF VersionInv, StoresCurrent, SessionCurrent, Usable
<1>5. EvictAlone'
  BY <1>1, <1>2 DEF VersionInv, EvictAlone, Derived
<1>6. WriteClean' /\ InUse' /\ Answered' /\ ServedCurrent'
  BY <1>1 DEF WriteClean, InUse, Answered, ServedCurrent, VersionInv
<1> QED
  BY <1>3, <1>4, <1>5, <1>6 DEF VersionInv

\* A statement is sent to a set only if the file is as the snapshot knows it.
LEMMA SelectVersions ==
  ASSUME ManagerInv, VersionInv, NEW t \in Sets, Select(t) PROVE VersionInv'
<1>1. UNCHANGED <<load, data, ext, sess, w, phase, cur, victim, scan, answer>> /\ u = "idle" /\ u' \in {"begin", "drop"}
  BY DEF Select, worker, Invalidate
<1>2. Answered' /\ ServedCurrent'
  BY <1>1 DEF VersionInv, Answered, ServedCurrent
<1>3. EvictAlone'
  BY <1>1 DEF VersionInv, EvictAlone
<1>4. CASE stmt'.kind = "native" /\ u' = "begin" /\ snap' = snap
  BY <1>1, <1>2, <1>3, <1>4, UntouchedVersions DEF Untouched, VersionInv, WriteClean, InUse
<1>5. CASE stmt'.kind = "native" /\ u' = "drop" /\ snap' = data
  <2>1. VersionTypes'
    BY <1>1, <1>5, Numbers DEF VersionInv, VersionTypes, PartsRead
  <2> QED
    BY <1>1, <1>2, <1>3, <1>5, <2>1 DEF VersionInv, WriteClean, InUse, StoresCurrent, SessionCurrent
<1>6. CASE /\ st[t] = "ready" /\ snap = data /\ u' = "begin" /\ UNCHANGED <<snap, sched>>
           /\ stmt' = [kind |-> "rewritten", tag |-> t, asof |-> data]
  <2>1. VersionTypes' /\ StoresCurrent' /\ SessionCurrent'
    BY <1>1, <1>6, UntouchedVersions DEF Untouched
  <2>2. Usable(t) => \A j \in DOMAIN ext[t] : ext[t][j].ver = data
    <3> SUFFICES ASSUME Usable(t), NEW j \in DOMAIN ext[t] PROVE ext[t][j].ver = data
      OBVIOUS
    <3>1. ext[t] \in Seq(Parts) /\ ext[t][j].ver <= data /\ snap <= ext[t][j].ver
      BY <1>1 DEF VersionInv, VersionTypes, PartsRead, StoresCurrent, Usable
    <3>2. ext[t][j].ver \in Nat
      <4>1. ext[t][j] \in Parts
        BY <3>1
      <4> QED
        BY <4>1 DEF Parts
    <3> QED
      BY <1>6, <3>1, <3>2, Numbers
  <2>3. w # "pick" => cur # t
    BY <1>6 DEF ManagerInv, SetsInv, WorkNotReady
  <2>4. InUse'
    BY <1>1, <1>6, <2>2, <2>3 DEF InUse, Usable, sched
  <2> QED
    BY <1>2, <1>3, <1>6, <2>1, <2>4 DEF VersionInv, WriteClean
<1> QED
  BY <1>4, <1>5, <1>6 DEF Select, Idle

LEMMA WriteVersions ==
  ASSUME ManagerInv, VersionInv, Write PROVE VersionInv'
<1>1. UNCHANGED <<load, data, snap, ext, sess, w, phase, cur, victim, scan, answer>> /\ u = "idle" /\ u' = "drop"
      /\ stmt'.kind = "write" /\ data < load.writes
  BY DEF Write, Idle
<1>2. VersionTypes'
  BY <1>1, Numbers DEF VersionInv, VersionTypes, PartsRead
<1> QED
  BY <1>1, <1>2 DEF VersionInv, WriteClean, InUse, StoresCurrent, SessionCurrent, EvictAlone, Answered,
                    ServedCurrent

LEMMA StuttersVersions ==
  ASSUME ManagerInv, VersionInv, UNCHANGED vars \/ \E t \in Sets : Tick(t) PROVE VersionInv'
<1>1. UNCHANGED <<load, data, snap, st, w, phase, cur, victim, scan, ext, sess, u, stmt, answer>>
  BY DEF vars, sched, worker, conn, Tick
<1>2. VersionTypes' /\ StoresCurrent' /\ SessionCurrent'
  BY <1>1 DEF VersionInv, VersionTypes, PartsRead, StoresCurrent, SessionCurrent, Usable
<1>3. WriteClean' /\ InUse'
  BY <1>1 DEF VersionInv, WriteClean, InUse, Usable
<1> QED
  BY <1>1, <1>2, <1>3 DEF VersionInv, EvictAlone, Answered, ServedCurrent

LEMMA StartsVersions == ASSUME Init PROVE VersionInv
<1>1. /\ load \in Loads /\ data = 0 /\ snap = 0 /\ scan.ver = 0 /\ sess = NoSet /\ answer = <<>>
      /\ ext = [t \in Sets |-> NoSet] /\ w = "pick" /\ u = "idle" /\ stmt.kind = "none"
  BY DEF Init, Idle, NoScan
<1>2. load.writes \in Nat
  BY <1>1, ManagerAssumption
<1>3. VersionTypes
  BY <1>1, <1>2 DEF VersionTypes, PartsRead
<1> QED
  BY <1>1, <1>3 DEF VersionInv, StoresCurrent, SessionCurrent, WriteClean, InUse, EvictAlone, Answered,
                    ServedCurrent, Usable

\* The inductive invariant, over the states of the two earlier ones.
THEOREM VersionSound == ASSUME SeveralSegments PROVE Spec => []VersionInv
<1>1. ManagerInv /\ SessionInv /\ VersionInv /\ [Next]_vars => VersionInv'
  <2> SUFFICES ASSUME ManagerInv, SessionInv, VersionInv, [Next]_vars PROVE VersionInv'
    OBVIOUS
  <2>1. CASE Working
    BY <2>1, PickVersions, EvictVersions, EvictedVersions, RoomVersions, OpenVersions, GoVersions, StopVersions,
       SegmentEndsVersions, SegmentFailsVersions, CheckVersions, FinishVersions, PostVersions, StepVersions
       DEF Working
  <2>2. CASE Answering \/ Foreign
    BY <2>2, DropVersions, BeginVersions, CommitVersions, AnswerVersions, OutOfMemoryVersions, OnStaleVersions,
       EndVersions
       DEF Answering
  <2>3. CASE \E t \in load.ask : Select(t)
    <3>1. load.ask \subseteq Sets
      BY ManagerAssumption DEF ManagerInv, SetsInv, ManagerTypes
    <3> QED
      BY <2>3, <3>1, SelectVersions
  <2> QED
    BY <2>1, <2>2, <2>3, WriteVersions, StuttersVersions DEF Next
<1> QED
  BY <1>1, StartsVersions, ManagerSound, SessionSound, PTL DEF Spec

\* No write of the connection, no commit of another one and no part of an
\* upload that one overtook shows in the answer to a rewritten statement, if
\* tables that may be written have more than one segment.
THEOREM ServedIsCurrent == ASSUME SeveralSegments PROVE Spec => []ServedCurrent
<1>1. VersionInv => ServedCurrent
  BY DEF VersionInv
<1> QED
  BY <1>1, VersionSound, PTL
===============================================================================
