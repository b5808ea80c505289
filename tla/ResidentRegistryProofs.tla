----------------------- MODULE ResidentRegistryProofs -----------------------
(***************************************************************************)
(* Proofs about ResidentRegistry for every value of its constants: the     *)
(* inductive invariant RegistryInv, from which the freshness of everything *)
(* published and served follows, and the refinement of FreshCache.         *)
(*                                                                         *)
(* A step is described by what it may do to the set objects (Grows), to    *)
(* the names (Registers) and to one thread; one lemma per structure turns  *)
(* such a description into the part of the invariant it owns, and the      *)
(* theorem has one step per action.                                        *)
(***************************************************************************)
EXTENDS ResidentRegistry, TLAPS, FiniteSetTheorems

-----------------------------------------------------------------------------
(* Types *)

LEMMA IdleType == Idle \in Thr
  BY BoundsAssumption DEF Idle, Thr, Seq0, NoSet

LEMMA StateType ==
  ASSUME NEW r \in ResidentSet, NEW st \in {"Uploaded", "Ready", "Stale"}
  PROVE  [r EXCEPT !.state = st] \in ResidentSet
  BY DEF ResidentSet

LEMMA PcType ==
  ASSUME NEW r \in Thr, NEW pc \in {"idle", "prepare", "check", "deps", "serve", "build",
                                    "join", "scan", "buffered", "device"}
  PROVE  [r EXCEPT !.pc = pc] \in Thr
  BY DEF Thr

LEMMA GrantedType ==
  ASSUME NEW thr \in Thr, thr.set \in SetId
  PROVE  Granted(thr) \in Thr
  BY DEF Granted, Thr

-----------------------------------------------------------------------------
(* What a step does *)

\* Set objects are only added; an old one keeps its name, its columns and its
\* sources, and a stale one stays stale unless it is noted as revived.
Grows ==
    /\ nsets <= nsets'
    /\ \A s \in 1..nsets :
        /\ sets'[s].name = sets[s].name
        /\ sets'[s].cols = sets[s].cols
        /\ sets'[s].deps = sets[s].deps
        /\ sets[s].state = "Stale" /\ sets'[s].state # "Stale" => s \in revived'
    /\ revived \subseteq revived'
    /\ \A t \in Table : last[t] <= last'[t]

\* Names lose their sets, or one name gets one new set.
Registers ==
    \/ /\ nsets' = nsets
       /\ \A n \in Name : registry'[n] \in {registry[n], NoSet}
    \/ /\ nsets' = nsets + 1
       /\ \E n \in Name : /\ registry' = [registry EXCEPT ![n] = nsets']
                          /\ sets'[nsets'].name = n
       /\ SetSound(nsets)'
       /\ sets'[nsets'].deps = {} => Fresh(sets'[nsets'].cols, last)

LEMMA NextTypes ==
  RegistryInv => /\ nsets \in Nat /\ seq \in Nat /\ seq <= seq
                 /\ (\A t \in Table : last[t] \in Nat) /\ 1..nsets \subseteq SetId
  BY BoundsAssumption DEF RegistryInv, TypeOK, Seq0, SetId

LEMMA ThreadFrame ==
  ASSUME TypeOK, TypeOK', SetsSound, Grows, seq <= seq', NEW thr \in Thr, ThreadSound(thr)
  PROVE  ThreadSound(thr)'
<1>1. nsets \in Int /\ nsets' \in Int /\ 1..nsets \subseteq 1..nsets'
  BY BoundsAssumption DEF TypeOK, Grows
<1>2. \A t \in Table : thr.seen[t] \in Int /\ last[t] \in Int /\ last'[t] \in Int
  BY BoundsAssumption DEF TypeOK, Thr, Seq0
<1>3. /\ \A t \in Table : thr.seen[t] <= last'[t]
      /\ thr.seq_at_start <= seq'
  <2>1. thr.seq_at_start \in Int /\ seq \in Int /\ seq' \in Int
    BY BoundsAssumption DEF TypeOK, Thr, Seq0
  <2> QED BY <1>2, <2>1 DEF ThreadSound, Grows
<1>4. /\ thr.got \subseteq 1..nsets'
      /\ thr.pc \in {"prepare", "check", "deps", "serve"} => thr.set \in 1..nsets'
  BY <1>1 DEF ThreadSound
<1>5. /\ thr.pc = "prepare" => sets'[thr.set].name \in View
      /\ thr.pc = "deps" => sets'[thr.set].deps # {}
  BY DEF ThreadSound, Grows
<1>6. ASSUME thr.set \in 1..nsets
      PROVE  /\ sets'[thr.set].cols = sets[thr.set].cols /\ sets'[thr.set].deps = sets[thr.set].deps
             /\ thr.set \notin revived' /\ sets'[thr.set].state # "Stale"
                    => thr.set \notin revived /\ sets[thr.set].state # "Stale"
             /\ Bases(thr.set)' = Bases(thr.set)
             /\ Bases(thr.set)' \cap revived' = {} => Bases(thr.set) \cap revived = {}
  BY <1>6 DEF Grows, Bases
<1>7. ASSUME thr.pc \in {"prepare", "check", "deps"}, thr.set \notin revived',
             sets'[thr.set].deps = {}, sets'[thr.set].state # "Stale"
      PROVE  Fresh(sets'[thr.set].cols, thr.seen)
  <2>1. thr.set \in 1..nsets
    BY <1>7 DEF ThreadSound
  <2>2. Fresh(sets[thr.set].cols, thr.seen)
    BY <1>7, <1>6, <2>1 DEF ThreadSound
  <2> QED BY <1>6, <2>1, <2>2
<1>8. ASSUME thr.pc = "serve", Bases(thr.set)' \cap revived' = {}
      PROVE  Fresh(sets'[thr.set].cols, thr.seen)
  <2>1. thr.set \in 1..nsets
    BY <1>8 DEF ThreadSound
  <2>2. Fresh(sets[thr.set].cols, thr.seen)
    BY <1>8, <1>6, <2>1 DEF ThreadSound
  <2> QED BY <1>6, <2>1, <2>2
<1>9. /\ thr.pc \in {"scan", "buffered", "device"} => thr.name \in UploadName
      /\ thr.job = "join" => thr.out \in Join
      /\ thr.pc \in {"build", "join"} => thr.job = "join"
      /\ thr.pc = "join" => thr.got # {}
  BY DEF ThreadSound
<1> QED BY <1>3, <1>4, <1>5, <1>7, <1>8, <1>9 DEF ThreadSound, Fresh

LEMMA ThreadsStep ==
  ASSUME RegistryInv, TypeOK', Grows, seq <= seq', NEW p \in Thread, NEW thr \in Thr,
         threads' = [threads EXCEPT ![p] = thr], ThreadSound(thr)'
  PROVE  ThreadsSound'
<1> SUFFICES ASSUME NEW q \in Thread PROVE ThreadSound(threads[q])'
  BY DEF ThreadsSound
<1>1. CASE q = p
  BY <1>1 DEF RegistryInv, TypeOK
<1>2. CASE q # p
  <2>1. threads'[q] = threads[q] /\ threads[q] \in Thr
    BY <1>2 DEF RegistryInv, TypeOK
  <2>2. ThreadSound(threads[q])
    BY DEF RegistryInv, ThreadsSound
  <2>3. \A o \in Thr : ThreadSound(o) => ThreadSound(o)'
    BY ThreadFrame DEF RegistryInv
  <2> QED BY <2>1, <2>2, <2>3
<1> QED BY <1>1, <1>2

LEMMA SetsStep ==
  ASSUME RegistryInv, TypeOK', Grows, Registers, last' = last
  PROVE  SetsSound' /\ RegistrySound'
<1>1. nsets \in Int /\ nsets' \in Int /\ nsets >= 0
  BY BoundsAssumption DEF RegistryInv, TypeOK
<1>2. \A s \in 1..nsets : SetSound(s)'
  <2> SUFFICES ASSUME NEW s \in 1..nsets PROVE SetSound(s)'
    OBVIOUS
  <2>1. SetSound(s) /\ sets[s].deps \subseteq 1..nsets
    BY DEF RegistryInv, SetsSound, SetSound
  <2>2. 1..nsets \subseteq 1..nsets'
    BY <1>1 DEF Grows
  <2>3. \A d \in sets[s].deps : sets'[d].deps = sets[d].deps /\ sets'[d].cols = sets[d].cols
    BY <2>1 DEF Grows
  <2>4. sets'[s].name = sets[s].name /\ sets'[s].cols = sets[s].cols /\ sets'[s].deps = sets[s].deps
    BY DEF Grows
  <2>5. UNION {sets'[d].cols : d \in sets[s].deps} = UNION {sets[d].cols : d \in sets[s].deps}
    BY <2>3
  <2> QED BY <2>1, <2>2, <2>3, <2>4, <2>5 DEF SetSound
<1>3. \A s \in 1..nsets' : s \in 1..nsets \/ (s = nsets' /\ nsets' = nsets + 1)
  BY <1>1 DEF Registers
<1>4. SetsSound'
  <2>1. nsets' = nsets + 1 => SetSound(nsets)'
    BY <1>1 DEF Registers
  <2> SUFFICES ASSUME NEW s \in 1..nsets' PROVE SetSound(s)'
    BY DEF SetsSound
  <2>2. CASE s \in 1..nsets
    BY <2>2, <1>2
  <2>3. CASE s = nsets' /\ nsets' = nsets + 1
    BY <2>1, <2>3 DEF SetSound
  <2> QED BY <1>3, <2>2, <2>3
<1>5. RegistrySound'
  <2> SUFFICES ASSUME NEW n \in Name, registry'[n] # NoSet
               PROVE  /\ registry'[n] \in 1..nsets' /\ sets'[registry'[n]].name = n
                      /\ registry'[n] \notin revived' /\ sets'[registry'[n]].deps = {}
                             /\ sets'[registry'[n]].state # "Stale"
                             => Fresh(sets'[registry'[n]].cols, last')
    BY DEF RegistrySound, Fresh
  <2>1. CASE registry'[n] = registry[n]
    <3>1. /\ registry[n] \in 1..nsets /\ sets[registry[n]].name = n
          /\ registry[n] \notin revived /\ sets[registry[n]].deps = {}
                 /\ sets[registry[n]].state # "Stale" => Fresh(sets[registry[n]].cols, last)
      BY <2>1 DEF RegistryInv, RegistrySound
    <3> QED BY <2>1, <3>1, <1>1 DEF Grows, Fresh
  <2>2. CASE registry'[n] # registry[n]
    <3>1. /\ nsets' = nsets + 1 /\ registry'[n] = nsets' /\ sets'[nsets'].name = n
          /\ sets'[nsets'].deps = {} => Fresh(sets'[nsets'].cols, last)
      BY <2>2 DEF Registers, RegistryInv, TypeOK
    <3> QED BY <3>1, <1>1
  <2> QED BY <2>1, <2>2
<1> QED BY <1>4, <1>5

\* A step that touches set objects, names and one thread.
LEMMA SetsAndThread ==
  ASSUME RegistryInv, TypeOK', Grows, Registers,
         UNCHANGED <<stores, sessions, seq, log, last, revived>>,
         NEW p \in Thread, NEW thr \in Thr,
         threads' = [threads EXCEPT ![p] = thr], ThreadSound(thr)'
  PROVE  RegistryInv'
<1>1. LogExact' /\ StoresSound' /\ SessionsSound'
  BY DEF RegistryInv, LogExact, StoresSound, SessionsSound, OpenSessionCurrent
<1>2. RevivedSound'
  <2>1. nsets \in Int /\ nsets' \in Int
    BY BoundsAssumption DEF RegistryInv, TypeOK
  <2> QED BY <2>1 DEF RegistryInv, RevivedSound, Grows
<1>3. SetsSound' /\ RegistrySound'
  BY SetsStep
<1>4. ThreadsSound'
  BY NextTypes, ThreadsStep
<1> QED BY <1>1, <1>2, <1>3, <1>4 DEF RegistryInv

\* A step of one thread alone.
LEMMA ThreadAlone ==
  ASSUME RegistryInv, UNCHANGED <<registry, sets, nsets, stores, gen, sessions, seq, log, last, revived>>,
         NEW p \in Thread, NEW thr \in Thr,
         threads' = [threads EXCEPT ![p] = thr], ThreadSound(thr)
  PROVE  RegistryInv'
<1>1. TypeOK'
  BY DEF RegistryInv, TypeOK
<1>2. Grows
  <2>1. \A t \in Table : last[t] \in Int
    BY DEF RegistryInv, TypeOK, Seq0
  <2>2. nsets \in Int
    BY DEF RegistryInv, TypeOK
  <2> QED BY <2>1, <2>2 DEF Grows
<1>3. Registers
  BY DEF Registers
<1>4. ThreadSound(thr)'
  BY DEF ThreadSound, Bases, Fresh
<1> QED BY <1>1, <1>2, <1>3, <1>4, SetsAndThread

LEMMA IdleSound == ASSUME TypeOK PROVE ThreadSound(Idle)
  BY BoundsAssumption DEF TypeOK, Idle, ThreadSound, Seq0

\* What a lookup returns: a set of that name, fresh now unless it is marked
\* stale or has been revived.
LEMMA FindOrViewStep ==
  ASSUME RegistryInv, NEW n \in Name, NEW s \in SetId \cup {NoSet}, FindOrView(n, s),
         last' = last, revived' = revived
  PROVE  /\ registry' \in [Name -> SetId \cup {NoSet}] /\ sets' \in [SetId -> ResidentSet]
         /\ nsets' \in 0..MaxSets
         /\ Grows /\ Registers
         /\ s # NoSet =>
              /\ s \in 1..nsets' /\ sets'[s].name = n
              /\ ~Registered(n) => n \in View
              /\ s \notin revived /\ sets'[s].deps = {} /\ sets'[s].state # "Stale"
                     => Fresh(sets'[s].cols, last)
<1>1. TypeOK /\ nsets \in Nat /\ \A t \in Table : last[t] \in Int
  BY BoundsAssumption DEF RegistryInv, TypeOK, Seq0
<1>2. CASE Registered(n) /\ s = registry[n] /\ UNCHANGED <<registry, sets, nsets>>
  <2>1. Grows /\ Registers
    BY <1>1, <1>2 DEF Grows, Registers
  <2> QED BY <1>1, <1>2, <2>1 DEF RegistryInv, RegistrySound, TypeOK
<1>3. CASE /\ ~Registered(n)
           /\ n \in View /\ LanesOf[n] \subseteq StoreLanes(TableOf[n])
           /\ nsets < MaxSets
           /\ s = nsets + 1
           /\ nsets' = s
           /\ sets' = [sets EXCEPT ![s] = ViewSet(n)]
           /\ registry' = [registry EXCEPT ![n] = s]
  <2>1. s \in SetId /\ nsets' \in 0..MaxSets /\ 1..nsets \subseteq SetId /\ s \notin 1..nsets
    BY <1>1, <1>3, BoundsAssumption DEF SetId
  <2>2. TableOf[n] \in Table /\ n \notin Join
    BY <1>3, NamesAssumption DEF Name
  <2>3. ViewSet(n) \in ResidentSet
    BY <1>1, <2>2 DEF TypeOK, ViewSet, ResidentSet, TableStore
  <2>4. /\ ViewSet(n).name = n /\ ViewSet(n).deps = {}
        /\ Fresh(ViewSet(n).cols, last)
        /\ \A c \in ViewSet(n).cols : c.table = TableOf[n]
    BY <2>2 DEF ViewSet, Fresh, RegistryInv, StoresSound
  <2>5. sets'[s] = ViewSet(n)
    BY <1>1, <1>3, <2>1 DEF TypeOK
  <2>6. Grows
    BY <1>1, <1>3, <2>1 DEF Grows, TypeOK
  <2>7. SetSound(nsets)'
    BY <1>3, <2>2, <2>4, <2>5 DEF SetSound
  <2>8. Registers
    BY <1>3, <2>4, <2>5, <2>7 DEF Registers
  <2>9. /\ registry' \in [Name -> SetId \cup {NoSet}] /\ sets' \in [SetId -> ResidentSet]
    BY <1>1, <1>3, <2>1, <2>3 DEF TypeOK
  <2> QED BY <1>1, <1>3, <2>1, <2>4, <2>5, <2>6, <2>8, <2>9
<1>4. CASE s = NoSet /\ registry' = [registry EXCEPT ![n] = NoSet] /\ UNCHANGED <<sets, nsets>>
  <2>1. Grows /\ Registers
    BY <1>1, <1>4 DEF Grows, Registers, TypeOK
  <2> QED BY <1>1, <1>4, <2>1 DEF TypeOK
<1> QED BY <1>2, <1>3, <1>4 DEF FindOrView

\* Freshness now is freshness for a reader called earlier.
LEMMA FreshEarlier ==
  ASSUME NEW cols \in SUBSET Column, NEW now \in [Table -> Seq0], NEW then \in [Table -> Seq0],
         \A t \in Table : then[t] <= now[t], Fresh(cols, now)
  PROVE  Fresh(cols, then)
  BY BoundsAssumption DEF Fresh, Column, Seq0

LEMMA LookupStep ==
  ASSUME RegistryInv, NEW p \in Thread, NEW n \in Name, NEW thr \in Thr, ThreadSound(thr),
         thr.pc \in {"idle", "build"}, thr.job # "upload", Lookup(p, n, thr),
         UNCHANGED <<stores, gen, sessions, seq, log, last, revived>>
  PROVE  RegistryInv'
<1> PICK s \in SetId \cup {NoSet} :
        /\ FindOrView(n, s)
        /\ threads' = [threads EXCEPT ![p] =
               IF s = NoSet THEN Idle
               ELSE [thr EXCEPT !.name = n, !.set = s,
                                !.pc = IF Registered(n) THEN "check" ELSE "prepare"]]
  BY DEF Lookup
<1>1. ASSUME s # NoSet
      PROVE  [thr EXCEPT !.name = n, !.set = s,
                         !.pc = IF Registered(n) THEN "check" ELSE "prepare"] \in Thr
  BY <1>1 DEF Thr
<1> PICK new \in Thr :
        new = IF s = NoSet THEN Idle
              ELSE [thr EXCEPT !.name = n, !.set = s,
                               !.pc = IF Registered(n) THEN "check" ELSE "prepare"]
  BY <1>1, IdleType
<1>2. /\ registry' \in [Name -> SetId \cup {NoSet}] /\ sets' \in [SetId -> ResidentSet]
      /\ nsets' \in 0..MaxSets
      /\ Grows /\ Registers
      /\ s # NoSet =>
           /\ s \in 1..nsets' /\ sets'[s].name = n
           /\ ~Registered(n) => n \in View
           /\ s \notin revived /\ sets'[s].deps = {} /\ sets'[s].state # "Stale"
                  => Fresh(sets'[s].cols, last)
  BY FindOrViewStep
<1>3. TypeOK'
  BY <1>2 DEF RegistryInv, TypeOK
<1>4. ThreadSound(new)'
  <2>1. CASE s = NoSet
    <3>1. ThreadSound(new)
      BY <2>1, IdleSound DEF RegistryInv
    <3> QED BY <3>1, <1>2, <1>3, NextTypes, ThreadFrame DEF RegistryInv
  <2>2. CASE s # NoSet
    <3>1. ThreadSound(thr)'
      BY <1>2, <1>3, NextTypes, ThreadFrame DEF RegistryInv
    <3>2. s \notin revived /\ sets'[s].deps = {} /\ sets'[s].state # "Stale"
                  => Fresh(sets'[s].cols, thr.seen)
      <4>1. sets'[s].cols \in SUBSET Column
        BY <1>2, <2>2 DEF ResidentSet
      <4>2. thr.seen \in [Table -> Seq0] /\ last \in [Table -> Seq0] /\ \A t \in Table : thr.seen[t] <= last[t]
        BY DEF Thr, ThreadSound, RegistryInv, TypeOK
      <4> QED BY <1>2, <2>2, <4>1, <4>2, FreshEarlier
    <3>3. /\ new.set = s /\ new.got = thr.got /\ new.job = thr.job /\ new.out = thr.out
          /\ new.seen = thr.seen /\ new.seq_at_start = thr.seq_at_start
          /\ new.pc \in {"check", "prepare"}
          /\ new.pc = "prepare" => n \in View
      BY <1>2, <2>2 DEF Thr
    <3>4. /\ new.got \subseteq 1..nsets'
          /\ new.job = "join" => new.out \in Join
          /\ \A t \in Table : new.seen[t] <= last'[t]
          /\ new.seq_at_start <= seq'
      BY <3>1, <3>3 DEF ThreadSound
    <3>5. new.pc = "prepare" => sets'[new.set].name \in View
      BY <1>2, <2>2, <3>3
    <3> QED BY <1>2, <2>2, <3>2, <3>3, <3>4, <3>5 DEF ThreadSound, Fresh
  <2> QED BY <2>1, <2>2
<1>5. threads' = [threads EXCEPT ![p] = new]
  OBVIOUS
<1> QED BY <1>2, <1>3, <1>4, <1>5, SetsAndThread

-----------------------------------------------------------------------------
(* The actions of a thread that acquires a set *)

LEMMA TouchStep == ASSUME RegistryInv, NEW n \in Name, Touch(n) PROVE RegistryInv'
<1> PICK s \in SetId \cup {NoSet} : FindOrView(n, s)
  BY DEF Touch
<1>1. UNCHANGED <<stores, gen, sessions, seq, log, threads, last, revived>>
  BY DEF Touch
<1>2. TypeOK' /\ Grows /\ Registers
  BY <1>1, FindOrViewStep DEF RegistryInv, TypeOK
<1>3. SetsSound' /\ RegistrySound'
  BY <1>1, <1>2, SetsStep
<1>4. LogExact' /\ StoresSound' /\ SessionsSound'
  BY <1>1 DEF RegistryInv, LogExact, StoresSound, SessionsSound, OpenSessionCurrent
<1>5. RevivedSound'
  BY <1>1, <1>2, NextTypes DEF RegistryInv, RevivedSound, Grows, TypeOK
<1>6. ThreadsSound'
  <2> SUFFICES ASSUME NEW q \in Thread PROVE ThreadSound(threads[q])'
    BY DEF ThreadsSound
  <2>1. threads[q] \in Thr /\ ThreadSound(threads[q]) /\ threads'[q] = threads[q]
    BY <1>1 DEF RegistryInv, TypeOK, ThreadsSound
  <2>2. \A o \in Thr : ThreadSound(o) => ThreadSound(o)'
    BY <1>1, <1>2, NextTypes, ThreadFrame DEF RegistryInv
  <2> QED BY <2>1, <2>2
<1> QED BY <1>2, <1>3, <1>4, <1>5, <1>6 DEF RegistryInv

\* A change of one set's state that leaves a stale set stale.
LEMMA StateStep ==
  ASSUME RegistryInv, NEW s \in 1..nsets, NEW st \in {"Uploaded", "Ready", "Stale"},
         sets' = [sets EXCEPT ![s].state = st], sets[s].state = "Stale" => st = "Stale",
         UNCHANGED <<registry, nsets, last, revived>>
  PROVE  sets' \in [SetId -> ResidentSet] /\ Grows /\ Registers
<1>1. s \in SetId /\ sets[s] \in ResidentSet
  BY NextTypes DEF RegistryInv, TypeOK
<1>2. sets' = [sets EXCEPT ![s] = [sets[s] EXCEPT !.state = st]]
  OBVIOUS
<1>3. sets' \in [SetId -> ResidentSet]
  <2>1. [sets[s] EXCEPT !.state = st] \in ResidentSet
    BY <1>1, StateType
  <2> QED BY <1>1, <1>2, <2>1 DEF RegistryInv, TypeOK
<1>4. \A r \in 1..nsets : /\ sets'[r].name = sets[r].name /\ sets'[r].cols = sets[r].cols
                          /\ sets'[r].deps = sets[r].deps
                          /\ sets'[r].state = IF r = s THEN st ELSE sets[r].state
  BY <1>1, <1>2, NextTypes DEF RegistryInv, TypeOK, ResidentSet
<1>5. Grows
  BY <1>4, NextTypes DEF Grows
<1>6. Registers
  BY DEF Registers
<1> QED BY <1>3, <1>5, <1>6

LEMMA CallStep ==
  ASSUME RegistryInv, NEW p \in Thread, NEW n \in Name, NEW job \in {"operator", "prepare"},
         Call(p, n, job)
  PROVE  RegistryInv'
<1> DEFINE start == [Idle EXCEPT !.job = job, !.seen = last]
<1>1. PICK thr \in Thr : thr = start
  BY IdleType DEF RegistryInv, TypeOK, Thr
<1>2. thr.pc = "idle" /\ thr.job = job /\ thr.got = {} /\ thr.seen = last /\ thr.seq_at_start = 0
  BY <1>1 DEF Idle
<1>3. ThreadSound(thr)
  BY <1>2, NextTypes DEF ThreadSound
<1> QED BY <1>1, <1>2, <1>3, LookupStep DEF Call

LEMMA JoinBeginStep ==
  ASSUME RegistryInv, NEW p \in Thread, NEW n \in Join, JoinBegin(p, n)
  PROVE  RegistryInv'
<1> DEFINE start == [Idle EXCEPT !.job = "join", !.out = n, !.seen = last, !.seq_at_start = seq]
<1>1. PICK thr \in Thr : thr = start
  BY IdleType DEF RegistryInv, TypeOK, Thr, Name
<1>2. thr.pc = "idle" /\ thr.job = "join" /\ thr.out = n /\ thr.got = {} /\ thr.seen = last /\ thr.seq_at_start = seq
  BY <1>1 DEF Idle
<1>3. ThreadSound(thr)
  BY <1>2, NextTypes DEF ThreadSound
<1>4. Probe[n] \in Name
  BY NamesAssumption
<1>5. Lookup(p, Probe[n], thr)
  BY <1>1 DEF JoinBegin
<1> QED BY <1>2, <1>3, <1>4, <1>5, LookupStep DEF JoinBegin

LEMMA JoinBuildStep ==
  ASSUME RegistryInv, NEW p \in Thread, JoinBuild(p)
  PROVE  RegistryInv'
<1>1. threads[p] \in Thr /\ ThreadSound(threads[p]) /\ threads[p].pc = "build"
  BY DEF RegistryInv, TypeOK, ThreadsSound, JoinBuild
<1>2. threads[p].job = "join" /\ Build[threads[p].out] \in Name
  BY <1>1, NamesAssumption DEF ThreadSound
<1> QED BY <1>1, <1>2, LookupStep DEF JoinBuild

LEMMA CheckStep == ASSUME RegistryInv, NEW p \in Thread, Check(p) PROVE RegistryInv'
<1> DEFINE old == threads[p]
           s == threads[p].set
<1>1. old \in Thr /\ ThreadSound(old) /\ old.pc = "check" /\ s \in 1..nsets /\ s \in SetId
  BY NextTypes DEF RegistryInv, TypeOK, ThreadsSound, Check, ThreadSound
<1>2. CASE sets[s].state = "Stale"
  <2>1. threads' = [threads EXCEPT ![p] = Idle]
    BY <1>2 DEF Check
  <2> QED BY <2>1, IdleType, IdleSound, ThreadAlone DEF Check, RegistryInv
<1>3. CASE sets[s].state # "Stale" /\ sets[s].deps # {}
  <2>1. PICK thr \in Thr : thr = [old EXCEPT !.pc = "deps"]
    BY <1>1, PcType
  <2>2. ThreadSound(thr)
    BY <1>1, <1>3, <2>1 DEF ThreadSound, Thr
  <2>3. threads' = [threads EXCEPT ![p] = thr]
    BY <1>3, <2>1 DEF Check
  <2> QED BY <2>2, <2>3, ThreadAlone DEF Check
<1>4. CASE sets[s].state # "Stale" /\ sets[s].deps = {}
  <2>1. PICK thr \in Thr : thr = Granted(old)
    BY <1>1, GrantedType
  <2>2. s \notin revived => Fresh(sets[s].cols, old.seen)
    BY <1>1, <1>4 DEF ThreadSound
  <2>3. ThreadSound(thr)
    <3>1. CASE old.job = "join"
      BY <1>1, <2>1, <3>1 DEF ThreadSound, Granted, Thr
    <3>2. CASE old.job # "join"
      BY <1>1, <1>4, <2>1, <2>2, <3>2 DEF ThreadSound, Granted, Thr, Bases
    <3> QED BY <3>1, <3>2
  <2>4. threads' = [threads EXCEPT ![p] = thr]
    BY <1>4, <2>1 DEF Check
  <2> QED BY <2>3, <2>4, ThreadAlone DEF Check
<1> QED BY <1>2, <1>3, <1>4

LEMMA CheckDepsStep == ASSUME RegistryInv, NEW p \in Thread, CheckDeps(p) PROVE RegistryInv'
<1> DEFINE old == threads[p]
           s == threads[p].set
<1>1. old \in Thr /\ ThreadSound(old) /\ old.pc = "deps" /\ s \in 1..nsets /\ s \in SetId
  BY NextTypes DEF RegistryInv, TypeOK, ThreadsSound, CheckDeps, ThreadSound
<1>2. CASE DepsCurrent(s)
  <2>1. PICK thr \in Thr : thr = Granted(old)
    BY <1>1, GrantedType
  <2>2. Bases(s) \cap revived = {} => Fresh(sets[s].cols, old.seen)
    <3>1. sets[s].deps # {}
      BY <1>1 DEF ThreadSound
    <3> SUFFICES ASSUME sets[s].deps \cap revived = {}, NEW c \in sets[s].cols
                 PROVE  c.since >= old.seen[c.table]
      BY <3>1 DEF Bases, Fresh
    <3>2. SetSound(s)
      BY <1>1 DEF RegistryInv, SetsSound
    <3>3. PICK d \in sets[s].deps : c \in sets[d].cols
      BY <3>1, <3>2 DEF SetSound
    <3>4. d \in 1..nsets /\ sets[d].deps = {} /\ d \notin revived
      BY <3>1, <3>2 DEF SetSound
    <3>5. SetSound(d)
      BY <3>4 DEF RegistryInv, SetsSound
    <3>6. sets[d].name \in Name /\ registry[sets[d].name] = d /\ sets[d].state # "Stale"
      BY <1>2, <3>5 DEF DepsCurrent, SetSound
    <3>7. d # NoSet
      BY <3>4, NextTypes DEF NoSet
    <3>8. Fresh(sets[d].cols, last)
      BY <3>4, <3>6, <3>7 DEF RegistryInv, RegistrySound
    <3>9. sets[d].cols \in SUBSET Column
      BY <3>4, NextTypes DEF RegistryInv, TypeOK, ResidentSet
    <3>10. c.since \in Int /\ c.table \in Table
      BY <3>3, <3>9 DEF Column, Seq0
    <3>11. old.seen[c.table] <= last[c.table] /\ old.seen[c.table] \in Int /\ last[c.table] \in Int
      BY <1>1, <3>10 DEF ThreadSound, Thr, RegistryInv, TypeOK, Seq0
    <3> QED BY <3>3, <3>8, <3>10, <3>11 DEF Fresh
  <2>3. ThreadSound(thr)
    <3>1. CASE old.job = "join"
      BY <1>1, <2>1, <3>1 DEF ThreadSound, Granted, Thr
    <3>2. CASE old.job # "join"
      BY <1>1, <2>1, <2>2, <3>2 DEF ThreadSound, Granted, Thr
    <3> QED BY <3>1, <3>2
  <2>4. threads' = [threads EXCEPT ![p] = thr] /\ UNCHANGED sets
    BY <1>2, <2>1 DEF CheckDeps
  <2> QED BY <2>3, <2>4, ThreadAlone DEF CheckDeps
<1>3. CASE ~DepsCurrent(s)
  <2>1. sets' = [sets EXCEPT ![s].state = "Stale"] /\ threads' = [threads EXCEPT ![p] = Idle]
    BY <1>3 DEF CheckDeps
  <2>2. sets' \in [SetId -> ResidentSet] /\ Grows /\ Registers
    BY <1>1, <2>1, StateStep DEF CheckDeps
  <2>3. TypeOK'
    BY <2>1, <2>2, IdleType DEF CheckDeps, RegistryInv, TypeOK
  <2>4. ThreadSound(Idle)'
    BY <2>3, IdleSound, PTL
  <2> QED BY <2>1, <2>2, <2>3, <2>4, IdleType, SetsAndThread DEF CheckDeps
<1> QED BY <1>2, <1>3

LEMMA PrepareStep == ASSUME RegistryInv, NEW p \in Thread, Prepare(p) PROVE RegistryInv'
<1> DEFINE old == threads[p]
           s == threads[p].set
<1>1. old \in Thr /\ ThreadSound(old) /\ old.pc = "prepare" /\ s \in 1..nsets /\ s \in SetId
  BY NextTypes DEF RegistryInv, TypeOK, ThreadsSound, Prepare, ThreadSound
<1>2. sets' = [sets EXCEPT ![s] = [sets[s] EXCEPT !.state = "Ready"]]
  BY DEF Prepare
<1>3. sets[s] \in ResidentSet /\ [sets[s] EXCEPT !.state = "Ready"] \in ResidentSet
  BY <1>1, StateType DEF RegistryInv, TypeOK
<1>4. PICK thr \in Thr : thr = [old EXCEPT !.pc = "check"]
  BY <1>1, PcType
<1>5. threads' = [threads EXCEPT ![p] = thr]
  BY <1>4 DEF Prepare
<1>6. sets[s].state = "Stale" => s \in revived'
  BY DEF Prepare
<1>7. revived \subseteq revived' /\ revived' \subseteq revived \cup {s}
  BY DEF Prepare
<1>8. \A r \in 1..nsets : /\ sets'[r].name = sets[r].name /\ sets'[r].cols = sets[r].cols
                          /\ sets'[r].deps = sets[r].deps
                          /\ r # s => sets'[r].state = sets[r].state
  BY <1>1, <1>2, <1>3, NextTypes DEF RegistryInv, TypeOK, ResidentSet
<1>9. TypeOK'
  BY <1>1, <1>2, <1>3, <1>5, <1>7 DEF RegistryInv, TypeOK, Prepare
<1>10. Grows
  BY <1>6, <1>7, <1>8, NextTypes DEF Grows, Prepare
<1>11. Registers
  BY DEF Registers, Prepare
<1>12. ThreadSound(thr)'
  <2>1. PICK o \in Thr : o = old
    BY <1>1
  <2>2. thr.set = o.set /\ thr.pc = "check" /\ thr.got = o.got /\ thr.job = o.job
        /\ thr.out = o.out /\ thr.seen = o.seen /\ thr.name = o.name /\ o.pc = "prepare"
        /\ thr.seq_at_start = o.seq_at_start
    BY <1>1, <1>4, <2>1 DEF Thr
  <2>3. ThreadSound(o)'
    BY <1>1, <1>9, <1>10, <2>1, NextTypes, ThreadFrame DEF RegistryInv, Prepare
  <2> QED BY <2>2, <2>3 DEF ThreadSound
<1>13. SetsSound' /\ RegistrySound'
  BY <1>9, <1>10, <1>11, SetsStep DEF Prepare
<1>14. ThreadsSound'
  BY <1>5, <1>9, <1>10, <1>12, NextTypes, ThreadsStep DEF Prepare
<1>15. LogExact' /\ StoresSound' /\ SessionsSound'
  BY DEF Prepare, RegistryInv, LogExact, StoresSound, SessionsSound, OpenSessionCurrent
<1>16. RevivedSound'
  <2>1. sets[s].name \in View
    BY <1>1 DEF ThreadSound
  <2> QED BY <1>1, <1>7, <1>8, <2>1 DEF Prepare, RegistryInv, RevivedSound
<1> QED BY <1>9, <1>13, <1>14, <1>15, <1>16 DEF RegistryInv

LEMMA PrepareResidentStep ==
  ASSUME RegistryInv, NEW p \in Thread, PrepareResident(p)
  PROVE  RegistryInv'
<1> DEFINE s == threads[p].set
<1>1. s \in 1..nsets /\ s \in SetId /\ sets[s] \in ResidentSet
  BY NextTypes DEF RegistryInv, TypeOK, ThreadsSound, PrepareResident, ThreadSound
<1>2. PICK st \in {"Uploaded", "Ready", "Stale"} :
          st = IF sets[s].state = "Uploaded" THEN "Ready" ELSE sets[s].state
  BY <1>1 DEF ResidentSet
<1>3. sets' = [sets EXCEPT ![s].state = st]
  BY <1>2 DEF PrepareResident, Prepared
<1>4. sets' \in [SetId -> ResidentSet] /\ Grows /\ Registers
  BY <1>1, <1>2, <1>3, StateStep DEF PrepareResident
<1>5. threads' = [threads EXCEPT ![p] = Idle]
  BY DEF PrepareResident
<1>6. TypeOK'
  BY <1>4, <1>5, IdleType DEF PrepareResident, RegistryInv, TypeOK
<1>7. ThreadSound(Idle)'
  BY <1>6, IdleSound, PTL
<1> QED BY <1>4, <1>5, <1>6, <1>7, IdleType, SetsAndThread DEF PrepareResident

-----------------------------------------------------------------------------
(* Publishing *)

\* Publish adds a set of its name, or changes nothing.
LEMMA PublishStep ==
  ASSUME RegistryInv, NEW set \in ResidentSet, NEW start \in Seq0, Publish(set, start),
         last' = last, revived' = revived,
         set.name \in Name, set.deps \subseteq 1..nsets,
         set.deps # {} <=> set.name \in Join,
         set.deps = {} => /\ \A c \in set.cols : c.table = TableOf[set.name]
                          /\ \A c \in set.cols : c.since = start,
         set.deps # {} => /\ \A d \in set.deps : sets[d].deps = {}
                          /\ set.cols \subseteq UNION {sets[d].cols : d \in set.deps}
  PROVE  /\ registry' \in [Name -> SetId \cup {NoSet}] /\ sets' \in [SetId -> ResidentSet]
         /\ nsets' \in 0..MaxSets
         /\ Grows /\ Registers
<1>1. TypeOK /\ LogExact
  BY DEF RegistryInv
<1>2. CASE UNCHANGED <<registry, sets, nsets>>
  BY <1>1, <1>2, NextTypes DEF TypeOK, Grows, Registers
<1>3. CASE /\ ~InvalidatedSince(TableOf[set.name], start)
           /\ nsets < MaxSets
           /\ nsets' = nsets + 1
           /\ sets' = [sets EXCEPT ![nsets + 1] = set]
           /\ registry' = [registry EXCEPT ![set.name] = nsets + 1]
  <2>1. nsets + 1 \in SetId /\ nsets' \in 0..MaxSets /\ nsets + 1 \notin 1..nsets
    BY <1>1, <1>3, BoundsAssumption DEF TypeOK, SetId
  <2>2. sets'[nsets'] = set /\ \A r \in 1..nsets : sets'[r] = sets[r]
    BY <1>1, <1>3, <2>1, NextTypes DEF TypeOK
  <2>3. Grows
    BY <1>3, <2>2, NextTypes DEF Grows
  <2>4. TableOf[set.name] \in Table
    BY NamesAssumption
  <2>5. last[TableOf[set.name]] <= start
    BY <1>1, <1>3, <2>4 DEF InvalidatedSince, LogExact, TypeOK, Seq0
  <2>6. set.deps = {} => Fresh(set.cols, last)
    BY <2>5 DEF Fresh
  <2>7. set.deps # {} => \A d \in set.deps : sets'[d] = sets[d]
    BY <2>2
  <2>8. UNION {sets'[d].cols : d \in set.deps} = UNION {sets[d].cols : d \in set.deps}
    BY <2>2
  <2>9. SetSound(nsets)'
    <3>1. set.deps \subseteq 1..nsets'
      BY <1>3, NextTypes
    <3> QED BY <2>2, <2>7, <2>8, <3>1 DEF SetSound
  <2>10. registry' \in [Name -> SetId \cup {NoSet}] /\ sets' \in [SetId -> ResidentSet]
    BY <1>1, <1>3, <2>1 DEF TypeOK
  <2>11. Registers
    BY <1>3, <2>2, <2>6, <2>9 DEF Registers
  <2> QED BY <2>1, <2>3, <2>10, <2>11
<1> QED BY <1>2, <1>3 DEF Publish

LEMMA JoinPublishStep ==
  ASSUME RegistryInv, NEW p \in Thread, JoinPublish(p)
  PROVE  RegistryInv'
<1> DEFINE old == threads[p]
           got == threads[p].got
<1>1. /\ old \in Thr /\ ThreadSound(old) /\ old.pc = "join" /\ got \subseteq 1..nsets /\ got # {}
      /\ old.out \in Join
  BY DEF RegistryInv, TypeOK, ThreadsSound, JoinPublish, ThreadSound
<1>2. \A g \in got : /\ SetSound(g) /\ sets[g] \in ResidentSet
                     /\ \A d \in sets[g].deps : d \in 1..nsets /\ SetSound(d) /\ sets[d] \in ResidentSet
  BY <1>1, NextTypes DEF RegistryInv, TypeOK, SetsSound, SetSound
<1>3. Sources(got) \subseteq 1..nsets /\ Sources(got) # {}
  BY <1>1, <1>2 DEF Sources, SetSound
<1>4. \A d \in Sources(got) : sets[d].deps = {}
  BY <1>2 DEF Sources, SetSound
<1>5. UNION {sets[g].cols : g \in got} \subseteq UNION {sets[d].cols : d \in Sources(got)}
  <2> SUFFICES ASSUME NEW g \in got, NEW c \in sets[g].cols
               PROVE  \E d \in Sources(got) : c \in sets[d].cols
    OBVIOUS
  <2>1. CASE sets[g].deps = {}
    BY <2>1 DEF Sources
  <2>2. CASE sets[g].deps # {}
    <3>1. PICK d \in sets[g].deps : c \in sets[d].cols
      BY <1>2, <2>2 DEF SetSound
    <3>2. d \in Sources(got)
      BY <2>2, <3>1 DEF Sources
    <3> QED BY <3>1, <3>2
  <2> QED BY <2>1, <2>2
<1>6. UNION {sets[g].cols : g \in got} \subseteq Column
  BY <1>2 DEF ResidentSet
<1>7. PICK set \in ResidentSet :
          set = [name |-> old.out, state |-> PublishedState(old.out), deps |-> Sources(got),
                 cols |-> UNION {sets[g].cols : g \in got}, rows_seen |-> 0]
  <2>1. Sources(got) \subseteq SetId
    BY <1>3, NextTypes
  <2>2. old.out \in Name /\ 0 \in 0..(MaxSegments + 1)
    BY <1>1, BoundsAssumption DEF Name
  <2>3. PublishedState(old.out) \in {"Uploaded", "Ready", "Stale"}
    BY DEF PublishedState
  <2> QED BY <1>6, <2>1, <2>2, <2>3 DEF ResidentSet
<1>8. Publish(set, old.seq_at_start) /\ old.seq_at_start \in Seq0
  BY <1>1, <1>7 DEF JoinPublish, Thr
<1>9. /\ registry' \in [Name -> SetId \cup {NoSet}] /\ sets' \in [SetId -> ResidentSet]
      /\ nsets' \in 0..MaxSets
      /\ Grows /\ Registers
  <2>1. /\ set.name \in Name /\ set.deps \subseteq 1..nsets /\ set.deps # {} /\ set.name \in Join
        /\ \A d \in set.deps : sets[d].deps = {}
        /\ set.cols \subseteq UNION {sets[d].cols : d \in set.deps}
    BY <1>1, <1>3, <1>4, <1>5, <1>7 DEF Name
  <2> QED BY <1>8, <2>1, PublishStep DEF JoinPublish
<1>10. threads' = [threads EXCEPT ![p] = Idle]
  BY DEF JoinPublish
<1>11. TypeOK'
  BY <1>9, <1>10, IdleType DEF JoinPublish, RegistryInv, TypeOK
<1>12. ThreadSound(Idle)'
  BY <1>11, IdleSound, PTL
<1> QED BY <1>9, <1>10, <1>11, <1>12, IdleType, SetsAndThread DEF JoinPublish

LEMMA PublishOwnStep ==
  ASSUME RegistryInv, NEW p \in Thread, PublishOwn(p)
  PROVE  RegistryInv'
<1> DEFINE old == threads[p]
<1>1. old \in Thr /\ old.pc = "device" /\ old.name \in Own /\ gen' = gen
  BY DEF RegistryInv, TypeOK, PublishOwn
<1>2. NewColumns(old, {Whole}) \subseteq Column
  BY <1>1, NamesAssumption DEF NewColumns, Column, Thr, Name, RegistryInv, TypeOK
<1>3. PICK set \in ResidentSet :
          set = [name |-> old.name, state |-> PublishedState(old.name), deps |-> {},
                 cols |-> NewColumns(old, {Whole}), rows_seen |-> old.rows]
  <2>1. PublishedState(old.name) \in {"Uploaded", "Ready", "Stale"}
    BY DEF PublishedState
  <2> QED BY <1>1, <1>2, <2>1 DEF ResidentSet, Thr
<1>4. Publish(set, old.seq_at_start) /\ old.seq_at_start \in Seq0
  BY <1>1, <1>3 DEF PublishOwn, Thr
<1>5. /\ set.name \in Name /\ set.deps = {} /\ set.name \notin Join
      /\ \A c \in set.cols : c.table = TableOf[set.name] /\ c.since = old.seq_at_start
  BY <1>1, <1>3, NamesAssumption DEF Name, NewColumns
<1>6. /\ registry' \in [Name -> SetId \cup {NoSet}] /\ sets' \in [SetId -> ResidentSet]
      /\ nsets' \in 0..MaxSets
      /\ Grows /\ Registers
  BY <1>4, <1>5, PublishStep DEF PublishOwn
<1>7. threads' = [threads EXCEPT ![p] = Idle]
  BY DEF PublishOwn
<1>8. TypeOK'
  BY <1>1, <1>6, <1>7, IdleType DEF PublishOwn, RegistryInv, TypeOK
<1>9. ThreadSound(Idle)'
  BY <1>8, IdleSound, PTL
<1> QED BY <1>6, <1>7, <1>8, <1>9, IdleType, SetsAndThread DEF PublishOwn

\* A step that marks some sets stale and leaves the rest of them alone.
LEMMA MarkedStale ==
  ASSUME RegistryInv, NEW S \in SUBSET SetId, last' \in [Table -> Seq0],
         sets' = [s \in SetId |-> IF s \in S THEN [sets[s] EXCEPT !.state = "Stale"] ELSE sets[s]],
         nsets' = nsets, revived' = revived, \A t \in Table : last[t] <= last'[t]
  PROVE  /\ sets' \in [SetId -> ResidentSet]
         /\ Grows
         /\ \A s \in 1..nsets : s \in S => sets'[s].state = "Stale"
<1>1. \A s \in SetId : sets[s] \in ResidentSet
  BY DEF RegistryInv, TypeOK
<1>2. \A s \in SetId : [sets[s] EXCEPT !.state = "Stale"] \in ResidentSet
  BY <1>1, StateType
<1>3. sets' \in [SetId -> ResidentSet]
  BY <1>1, <1>2
<1>4. \A s \in 1..nsets : /\ sets'[s].name = sets[s].name /\ sets'[s].cols = sets[s].cols
                          /\ sets'[s].deps = sets[s].deps
                          /\ sets[s].state = "Stale" => sets'[s].state = "Stale"
                          /\ s \in S => sets'[s].state = "Stale"
  BY <1>1, NextTypes DEF ResidentSet
<1> QED BY <1>3, <1>4, NextTypes DEF Grows

LEMMA PublishColumnsStep ==
  ASSUME RegistryInv, NEW p \in Thread, PublishColumns(p)
  PROVE  RegistryInv'
<1> DEFINE old == threads[p]
           t == TableOf[threads[p].name]
           lanes == LanesOf[threads[p].name]
           present == stores[t].cols # {}
           same == present /\ SameRows(t, threads[p].rows)
           kept == IF same THEN Kept(stores[t].cols, lanes) ELSE {}
           onOld == {registry[n] : n \in {m \in View : TableOf[m] = t}}
<1>1. /\ old \in Thr /\ old.pc = "device" /\ old.name \in View /\ t \in Table
      /\ lanes \in SUBSET Lane
  BY NamesAssumption DEF RegistryInv, TypeOK, PublishColumns, Name
<1>2. threads' = [threads EXCEPT ![p] = Idle] /\ UNCHANGED <<registry, nsets, sessions, seq, log, last, revived>>
  BY DEF PublishColumns
<1>3. CASE UNCHANGED <<sets, stores, gen>>
  BY <1>2, <1>3, IdleType, IdleSound, ThreadAlone DEF RegistryInv
<1>4. CASE /\ ~InvalidatedSince(t, old.seq_at_start)
           /\ gen < MaxGen /\ gen' = gen + 1
           /\ stores' = [stores EXCEPT ![t] =
                  [rows_seen |-> old.rows, cols |-> kept \cup NewColumns(old, lanes)]]
           /\ sets' = [s \in SetId |-> IF present /\ ~same /\ s \in onOld
                                       THEN [sets[s] EXCEPT !.state = "Stale"] ELSE sets[s]]
  <2> DEFINE S == {s \in SetId : present /\ ~same /\ s \in onOld}
  <2>1. sets' = [s \in SetId |-> IF s \in S THEN [sets[s] EXCEPT !.state = "Stale"] ELSE sets[s]]
    BY <1>4
  <2>2. \A u \in Table : last[u] <= last'[u]
    BY <1>2, NextTypes
  <2>3. sets' \in [SetId -> ResidentSet] /\ Grows
    <3>1. S \in SUBSET SetId /\ last' \in [Table -> Seq0]
      BY <1>2 DEF RegistryInv, TypeOK
    <3> HIDE DEF S
    <3> QED BY <1>2, <2>1, <2>2, <3>1, MarkedStale
  <2>4. Registers
    BY <1>2 DEF Registers
  <2>5. gen' \in 0..MaxGen
    BY <1>4, BoundsAssumption DEF RegistryInv, TypeOK
  <2>6. NewColumns(old, lanes) \subseteq Column
    BY <1>1, <2>5 DEF NewColumns, Column, Thr
  <2>7. kept \subseteq stores[t].cols /\ stores[t].cols \subseteq Column
    BY <1>1 DEF Kept, RegistryInv, TypeOK, TableStore
  <2>8. stores' \in [Table -> TableStore]
    <3>1. [rows_seen |-> old.rows, cols |-> kept \cup NewColumns(old, lanes)] \in TableStore
      BY <1>1, <2>6, <2>7 DEF TableStore, Thr
    <3> QED BY <1>1, <1>4, <3>1 DEF RegistryInv, TypeOK
  <2>9. TypeOK'
    BY <1>2, <2>3, <2>5, <2>8, IdleType DEF RegistryInv, TypeOK
  <2>10. last[t] <= old.seq_at_start /\ old.seq_at_start <= seq
    BY <1>1, <1>4 DEF InvalidatedSince, RegistryInv, LogExact, TypeOK, Thr, Seq0, ThreadsSound, ThreadSound
  <2>11. \A c \in NewColumns(old, lanes) :
            /\ c.table = t /\ c.lane \in lanes /\ c.since >= last[t] /\ c.since <= seq
            /\ \A d \in NewColumns(old, lanes) : d.lane = c.lane => d = c
    BY <2>10, <1>1 DEF NewColumns, Thr, Seq0, RegistryInv, TypeOK
  <2>12. StoresSound'
    <3> SUFFICES ASSUME NEW u \in Table, NEW c \in stores'[u].cols
                 PROVE  /\ c.table = u /\ c.lane \in Lane /\ c.since >= last[u] /\ c.since <= seq
                        /\ \A d \in stores'[u].cols : d.lane = c.lane => d = c
      BY <1>2 DEF StoresSound
    <3>1. CASE u # t
      BY <1>1, <1>4, <3>1 DEF RegistryInv, TypeOK, StoresSound
    <3>2. CASE u = t
      <4>1. stores'[u].cols = kept \cup NewColumns(old, lanes)
        BY <1>1, <1>4, <3>2 DEF RegistryInv, TypeOK
      <4>2. \A k \in kept : k.lane \notin lanes
        BY DEF Kept
      <4>3. \A k \in kept : /\ k.table = t /\ k.lane \in Lane /\ k.since >= last[t] /\ k.since <= seq
                            /\ \A d \in kept : d.lane = k.lane => d = k
        BY <1>1, <2>7 DEF RegistryInv, StoresSound
      <4> HIDE DEF kept
      <4> QED BY <1>1, <2>11, <3>2, <4>1, <4>2, <4>3
    <3> QED BY <3>1, <3>2
  <2>13. SetsSound' /\ RegistrySound'
    BY <1>2, <2>3, <2>4, <2>9, SetsStep
  <2>14. ThreadSound(Idle)'
    BY <2>9, IdleSound, PTL
  <2>15. ThreadsSound'
    BY <1>2, <2>3, <2>9, <2>14, IdleType, NextTypes, ThreadsStep
  <2>16. RevivedSound'
    BY <1>2, <2>3, NextTypes DEF RegistryInv, RevivedSound, Grows
  <2>17. LogExact' /\ SessionsSound'
    BY <1>2 DEF RegistryInv, LogExact, SessionsSound, OpenSessionCurrent
  <2> QED BY <2>9, <2>12, <2>13, <2>15, <2>16, <2>17 DEF RegistryInv
<1> QED BY <1>1, <1>3, <1>4 DEF PublishColumns

-----------------------------------------------------------------------------
(* Invalidation and eviction *)

\* The log has room for a record of every table, so that none is dropped.
LogHasRoom == IsFiniteSet(Table) /\ Cardinality(Table) <= InvalCap

LEMMA RecordedKeepsOthers ==
  ASSUME LogHasRoom, log \in [Table -> Seq0], NEW t \in Table, NEW n
  PROVE  Recorded(t, n) = [u \in Table |-> IF u = t THEN n ELSE log[u]]
<1> DEFINE others == {u \in Table \ {t} : log[u] # 0}
<1>1. IsFiniteSet(Table \ {t}) /\ Cardinality(Table \ {t}) = Cardinality(Table) - 1
  BY FS_RemoveElement DEF LogHasRoom
<1>2. Cardinality(others) <= Cardinality(Table \ {t}) /\ Cardinality(others) \in Nat
  BY <1>1, FS_Subset, FS_CardinalityType
<1>3. Cardinality(Table) \in Nat
  BY FS_CardinalityType DEF LogHasRoom
<1>4. ~(Cardinality(others) >= InvalCap)
  BY <1>1, <1>2, <1>3, BoundsAssumption DEF LogHasRoom
<1> QED BY <1>4 DEF Recorded

LEMMA InvalidateStep ==
  ASSUME RegistryInv, LogHasRoom, NEW t \in Table, Invalidate(t)
  PROVE  RegistryInv'
<1> DEFINE hit == {registry[n] : n \in {m \in Name : TableOf[m] = t}}
<1>1. /\ seq < MaxSeq /\ seq' = seq + 1
      /\ log' = Recorded(t, seq + 1) /\ last' = [last EXCEPT ![t] = seq + 1]
      /\ stores' = [stores EXCEPT ![t] = NoStore]
      /\ sessions' = [n \in UploadName |-> IF TableOf[n] = t THEN NoSession ELSE sessions[n]]
      /\ UNCHANGED <<registry, nsets, gen, threads, revived>>
  BY DEF Invalidate, ClosedSessions
<1>2. TypeOK /\ LogExact
  BY DEF RegistryInv
<1>3. seq' \in Seq0 /\ last' \in [Table -> Seq0] /\ seq \in Nat
  BY <1>1, <1>2, BoundsAssumption DEF TypeOK, Seq0
<1>4. \A u \in Table : last[u] <= last'[u] /\ last'[u] <= seq'
  BY <1>1, <1>2, <1>3 DEF TypeOK, LogExact, Seq0
<1>5. log' = last'
  <2>1. Recorded(t, seq + 1) = [u \in Table |-> IF u = t THEN seq + 1 ELSE log[u]]
    BY <1>2, RecordedKeepsOthers DEF TypeOK
  <2>2. [last EXCEPT ![t] = seq + 1] = [u \in Table |-> IF u = t THEN seq + 1 ELSE last[u]]
    BY <1>2 DEF TypeOK
  <2> QED BY <1>1, <1>2, <2>1, <2>2 DEF LogExact
<1>6. sets' \in [SetId -> ResidentSet] /\ Grows /\ \A s \in 1..nsets : s \in hit => sets'[s].state = "Stale"
  <2> DEFINE S == {s \in SetId : s \in hit}
  <2>1. sets' = [s \in SetId |-> IF s \in S THEN [sets[s] EXCEPT !.state = "Stale"] ELSE sets[s]]
    BY DEF Invalidate
  <2>2. S \in SUBSET SetId /\ \A s \in 1..nsets : s \in hit => s \in S
    BY NextTypes
  <2> HIDE DEF S
  <2> QED BY <1>1, <1>3, <1>4, <2>1, <2>2, MarkedStale
<1>7. stores' \in [Table -> TableStore] /\ sessions' \in [UploadName -> Session]
  BY <1>1, <1>2, BoundsAssumption DEF TypeOK, NoStore, TableStore, NoSession, Session, Seq0
<1>8. TypeOK'
  BY <1>1, <1>2, <1>3, <1>5, <1>6, <1>7 DEF TypeOK
<1>9. LogExact'
  BY <1>4, <1>5 DEF LogExact
<1>10. StoresSound'
  <2> SUFFICES ASSUME NEW u \in Table, NEW c \in stores'[u].cols
               PROVE  /\ c.table = u /\ c.lane \in Lane /\ c.since >= last'[u] /\ c.since <= seq'
                      /\ \A d \in stores'[u].cols : d.lane = c.lane => d = c
    BY DEF StoresSound
  <2>1. u # t
    BY <1>1, <1>2 DEF TypeOK, NoStore
  <2>2. stores'[u] = stores[u] /\ last'[u] = last[u]
    BY <1>1, <1>2, <2>1 DEF TypeOK
  <2>3. c.since \in Int /\ c.since <= seq => c.since <= seq'
    BY <1>1, <1>3
  <2>4. c.since \in Int
    BY <1>2, <2>2 DEF TypeOK, TableStore, Column, Seq0
  <2> QED BY <2>2, <2>3, <2>4 DEF RegistryInv, StoresSound
<1>11. SetsSound'
  BY <1>1, <1>6, NextTypes DEF RegistryInv, SetsSound, SetSound, Grows
<1>12. RegistrySound'
  <2> SUFFICES ASSUME NEW n \in Name, registry[n] # NoSet
               PROVE  /\ registry[n] \in 1..nsets /\ sets'[registry[n]].name = n
                      /\ registry[n] \notin revived /\ sets'[registry[n]].deps = {}
                             /\ sets'[registry[n]].state # "Stale"
                             => Fresh(sets'[registry[n]].cols, last')
    BY <1>1 DEF RegistrySound, Fresh
  <2> DEFINE s == registry[n]
  <2>1. /\ s \in 1..nsets /\ sets[s].name = n /\ SetSound(s)
        /\ s \notin revived /\ sets[s].deps = {} /\ sets[s].state # "Stale" => Fresh(sets[s].cols, last)
    BY DEF RegistryInv, RegistrySound, SetsSound
  <2>2. sets'[s].name = n /\ sets'[s].cols = sets[s].cols /\ sets'[s].deps = sets[s].deps
    BY <1>6, <2>1 DEF Grows
  <2>3. ASSUME s \notin revived, sets'[s].deps = {}, sets'[s].state # "Stale"
        PROVE  Fresh(sets[s].cols, last')
    <3>1. TableOf[n] # t
      BY <1>6, <2>1, <2>3
    <3>2. \A c \in sets[s].cols : c.table = TableOf[n]
      BY <2>1, <2>2, <2>3 DEF SetSound
    <3>3. TableOf[n] \in Table
      BY NamesAssumption
    <3>4. last'[TableOf[n]] = last[TableOf[n]]
      BY <1>1, <1>2, <3>1, <3>3 DEF TypeOK
    <3>5. sets[s].state # "Stale"
      BY <1>1, <1>6, <2>1, <2>3 DEF Grows
    <3> QED BY <2>1, <2>2, <2>3, <3>2, <3>4, <3>5 DEF Fresh
  <2> QED BY <2>1, <2>2, <2>3
<1>13. RevivedSound'
  BY <1>1, <1>6 DEF RegistryInv, RevivedSound, Grows
<1>14. ThreadsSound'
  <2> SUFFICES ASSUME NEW q \in Thread PROVE ThreadSound(threads[q])'
    BY DEF ThreadsSound
  <2>1. threads[q] \in Thr /\ ThreadSound(threads[q]) /\ threads'[q] = threads[q]
    BY <1>1 DEF RegistryInv, TypeOK, ThreadsSound
  <2>2. \A o \in Thr : ThreadSound(o) => ThreadSound(o)'
    BY <1>1, <1>3, <1>6, <1>8, ThreadFrame DEF RegistryInv
  <2> QED BY <2>1, <2>2
<1>15. OpenSessionCurrent'
  <2> SUFFICES ASSUME NEW n \in UploadName, sessions'[n].open
               PROVE  sessions'[n].seq_at_start >= last'[TableOf[n]]
    BY DEF OpenSessionCurrent
  <2>1. TableOf[n] # t
    BY <1>1 DEF NoSession
  <2>2. TableOf[n] \in Table
    BY NamesAssumption DEF UploadName, Name
  <2> QED BY <1>1, <1>2, <2>1, <2>2 DEF TypeOK, RegistryInv, SessionsSound, OpenSessionCurrent
<1>16. \A n \in UploadName : sessions'[n].seq_at_start <= seq'
  <2> SUFFICES ASSUME NEW n \in UploadName PROVE sessions'[n].seq_at_start <= seq'
    OBVIOUS
  <2>1. sessions[n].seq_at_start <= seq /\ sessions[n].seq_at_start \in Int
    BY <1>2 DEF TypeOK, Session, Seq0, RegistryInv, SessionsSound
  <2> QED BY <1>1, <1>3, <2>1 DEF NoSession
<1> QED BY <1>8, <1>9, <1>10, <1>11, <1>12, <1>13, <1>14, <1>15, <1>16 DEF RegistryInv, SessionsSound

\* No thread moves.
LEMMA ThreadsStay ==
  ASSUME RegistryInv, TypeOK', Grows, UNCHANGED <<seq, threads>>
  PROVE  ThreadsSound'
<1> SUFFICES ASSUME NEW q \in Thread PROVE ThreadSound(threads[q])'
  BY DEF ThreadsSound
<1>1. threads[q] \in Thr /\ ThreadSound(threads[q]) /\ threads'[q] = threads[q]
  BY DEF RegistryInv, TypeOK, ThreadsSound
<1>2. \A o \in Thr : ThreadSound(o) => ThreadSound(o)'
  BY NextTypes, ThreadFrame DEF RegistryInv
<1> QED BY <1>1, <1>2

LEMMA DropResidentStep ==
  ASSUME RegistryInv, NEW n \in Name, DropResident(n)
  PROVE  RegistryInv'
<1>1. /\ registry' = [registry EXCEPT ![n] = NoSet]
      /\ UNCHANGED <<sets, nsets, stores, gen, sessions, seq, log, threads, last, revived>>
  BY DEF DropResident
<1>2. TypeOK' /\ Grows /\ Registers
  BY <1>1, NextTypes DEF RegistryInv, TypeOK, Grows, Registers
<1>3. SetsSound' /\ RegistrySound'
  BY <1>1, <1>2, SetsStep
<1>4. ThreadsSound'
  BY <1>1, <1>2, ThreadsStay
<1>5. LogExact' /\ StoresSound' /\ SessionsSound' /\ RevivedSound'
  BY <1>1 DEF RegistryInv, LogExact, StoresSound, SessionsSound, OpenSessionCurrent, RevivedSound
<1> QED BY <1>2, <1>3, <1>4, <1>5 DEF RegistryInv

LEMMA DropColumnStep ==
  ASSUME RegistryInv, NEW t \in Table, NEW l \in Lane, DropColumn(t, l)
  PROVE  RegistryInv'
<1> PICK col \in stores[t].cols :
      LET rest == stores[t].cols \ {col}
          uses(n) == n \in View /\ registry[n] # NoSet /\ col \in sets[registry[n]].cols
      IN /\ stores' = [stores EXCEPT ![t] =
                IF rest = {} THEN NoStore ELSE [@ EXCEPT !.cols = rest]]
         /\ registry' = [n \in Name |-> IF uses(n) THEN NoSet ELSE registry[n]]
         /\ sets' = [s \in SetId |-> IF \E n \in Name : uses(n) /\ registry[n] = s
                                     THEN [sets[s] EXCEPT !.state = "Stale"] ELSE sets[s]]
  BY DEF DropColumn
<1> DEFINE rest == stores[t].cols \ {col}
           uses(n) == n \in View /\ registry[n] # NoSet /\ col \in sets[registry[n]].cols
           S == {s \in SetId : \E n \in Name : uses(n) /\ registry[n] = s}
<1>1. UNCHANGED <<nsets, gen, sessions, seq, log, threads, last, revived>>
  BY DEF DropColumn
<1>2. sets' \in [SetId -> ResidentSet] /\ Grows
  <2>1. sets' = [s \in SetId |-> IF s \in S THEN [sets[s] EXCEPT !.state = "Stale"] ELSE sets[s]]
    OBVIOUS
  <2>2. S \in SUBSET SetId
    OBVIOUS
  <2>3. last' \in [Table -> Seq0] /\ \A u \in Table : last[u] <= last'[u]
    BY <1>1, NextTypes DEF RegistryInv, TypeOK
  <2> HIDE DEF S
  <2> QED BY <1>1, <2>1, <2>2, <2>3, MarkedStale
<1>3. /\ registry' \in [Name -> SetId \cup {NoSet}]
      /\ \A n \in Name : registry'[n] \in {registry[n], NoSet}
  BY DEF RegistryInv, TypeOK
<1>4. stores[t] \in TableStore /\ \A u \in Table : u # t => stores'[u] = stores[u]
  BY DEF RegistryInv, TypeOK
<1>5. stores'[t] \in TableStore /\ stores'[t].cols = rest
  <2>1. stores'[t] = IF rest = {} THEN NoStore ELSE [stores[t] EXCEPT !.cols = rest]
    BY DEF RegistryInv, TypeOK
  <2>2. CASE rest = {}
    BY <2>1, <2>2, BoundsAssumption DEF NoStore, TableStore
  <2>3. CASE rest # {}
    BY <1>4, <2>1, <2>3 DEF TableStore
  <2> QED BY <2>2, <2>3
<1>6. stores' \in [Table -> TableStore]
  BY <1>4, <1>5 DEF RegistryInv, TypeOK
<1>7. TypeOK'
  BY <1>1, <1>2, <1>3, <1>6 DEF RegistryInv, TypeOK
<1>8. Registers
  BY <1>1, <1>3 DEF Registers
<1>9. SetsSound' /\ RegistrySound'
  BY <1>1, <1>2, <1>7, <1>8, SetsStep
<1>10. ThreadsSound'
  BY <1>1, <1>2, <1>7, ThreadsStay
<1>11. StoresSound'
  <2>1. \A u \in Table : stores'[u].cols \subseteq stores[u].cols
    BY <1>4, <1>5
  <2> QED BY <1>1, <2>1 DEF RegistryInv, StoresSound
<1>12. RevivedSound'
  BY <1>1, <1>2 DEF RegistryInv, RevivedSound, Grows
<1>13. LogExact' /\ SessionsSound'
  BY <1>1 DEF RegistryInv, LogExact, SessionsSound, OpenSessionCurrent
<1> QED BY <1>7, <1>9, <1>10, <1>11, <1>12, <1>13 DEF RegistryInv

-----------------------------------------------------------------------------
(* Sessions and statements *)

\* A step that changes the sessions and at most one thread.
LEMMA SessionsStep ==
  ASSUME RegistryInv, UNCHANGED <<registry, sets, nsets, stores, gen, seq, log, last, revived>>,
         sessions' \in [UploadName -> Session], threads' \in [Thread -> Thr],
         SessionsSound',
         \A p \in Thread : ThreadSound(threads'[p])
  PROVE  RegistryInv'
<1>1. TypeOK'
  BY DEF RegistryInv, TypeOK
<1>2. ThreadsSound'
  BY DEF ThreadsSound, ThreadSound, Bases, Fresh
<1>3. LogExact' /\ StoresSound' /\ SetsSound' /\ RegistrySound' /\ RevivedSound'
  BY DEF RegistryInv, LogExact, StoresSound, SetsSound, SetSound, RegistrySound, Fresh, RevivedSound
<1> QED BY <1>1, <1>2, <1>3 DEF RegistryInv

LEMMA BeginStep == ASSUME RegistryInv, NEW n \in UploadName, Begin(n) PROVE RegistryInv'
<1>1. sessions' = [sessions EXCEPT ![n] = [NoSession EXCEPT !.open = TRUE, !.seq_at_start = seq]]
  BY DEF Begin
<1>2. UNCHANGED <<registry, sets, nsets, stores, gen, seq, log, threads, last, revived>>
  BY DEF Begin
<1>3. [NoSession EXCEPT !.open = TRUE, !.seq_at_start = seq] \in Session
  <2>1. NoSession \in Session
    BY BoundsAssumption DEF NoSession, Session, Seq0
  <2>2. seq \in Seq0
    BY DEF RegistryInv, TypeOK
  <2> QED BY <2>1, <2>2 DEF Session
<1>4. sessions' \in [UploadName -> Session]
  BY <1>1, <1>3 DEF RegistryInv, TypeOK
<1>5. TableOf[n] \in Table /\ last[TableOf[n]] <= seq
  BY NamesAssumption DEF UploadName, Name, RegistryInv, LogExact
<1>6. /\ sessions'[n].seq_at_start = seq
      /\ \A m \in UploadName : m # n => sessions'[m] = sessions[m]
  BY <1>1 DEF NoSession, RegistryInv, TypeOK
<1>7. SessionsSound'
  BY <1>2, <1>5, <1>6, NextTypes DEF SessionsSound, OpenSessionCurrent, RegistryInv
<1>8. threads' \in [Thread -> Thr] /\ \A p \in Thread : ThreadSound(threads'[p])
  BY <1>2 DEF RegistryInv, TypeOK, ThreadsSound
<1> QED BY <1>2, <1>4, <1>7, <1>8, SessionsStep

\* No session.
LEMMA NoSessionSound ==
  ASSUME RegistryInv, NEW n \in UploadName, sessions' = [sessions EXCEPT ![n] = NoSession],
         UNCHANGED <<seq, last>>
  PROVE  sessions' \in [UploadName -> Session] /\ SessionsSound'
<1>1. NoSession \in Session
  BY BoundsAssumption DEF NoSession, Session, Seq0
<1>2. sessions' \in [UploadName -> Session]
  BY <1>1 DEF RegistryInv, TypeOK
<1>3. /\ ~sessions'[n].open /\ sessions'[n].seq_at_start = 0
      /\ \A m \in UploadName : m # n => sessions'[m] = sessions[m]
  BY DEF NoSession, RegistryInv, TypeOK
<1>4. seq \in Nat
  BY NextTypes
<1> QED BY <1>2, <1>3, <1>4 DEF SessionsSound, OpenSessionCurrent, RegistryInv

LEMMA AbortStep == ASSUME RegistryInv, NEW n \in UploadName, Abort(n) PROVE RegistryInv'
<1>1. sessions' = [sessions EXCEPT ![n] = NoSession]
  BY DEF Abort
<1>2. UNCHANGED <<registry, sets, nsets, stores, gen, seq, log, threads, last, revived>>
  BY DEF Abort
<1>3. threads' \in [Thread -> Thr] /\ \A p \in Thread : ThreadSound(threads'[p])
  BY <1>2 DEF RegistryInv, TypeOK, ThreadsSound
<1>4. sessions' \in [UploadName -> Session] /\ SessionsSound'
  BY <1>1, <1>2, NoSessionSound
<1> QED BY <1>2, <1>3, <1>4, SessionsStep

LEMMA FinishStep ==
  ASSUME RegistryInv, NEW p \in Thread, NEW n \in UploadName, Finish(p, n)
  PROVE  RegistryInv'
<1> DEFINE start == [Idle EXCEPT !.pc = "device", !.job = "upload", !.name = n,
                                 !.seq_at_start = sessions[n].seq_at_start,
                                 !.asOf = sessions[n].asOf, !.rows = sessions[n].segments]
<1>1. sessions' = [sessions EXCEPT ![n] = NoSession]
  BY DEF Finish
<1>2. UNCHANGED <<registry, sets, nsets, stores, gen, seq, log, last, revived>>
  BY DEF Finish
<1>3. sessions[n] \in Session /\ sessions[n].seq_at_start <= seq
  BY DEF RegistryInv, TypeOK, SessionsSound
<1>4. start \in Thr
  <2>1. n \in Name /\ sessions[n].segments \in 0..(MaxSegments + 1)
    BY <1>3, BoundsAssumption DEF UploadName, Name, Session
  <2> QED BY <1>3, <2>1, IdleType DEF Session, Thr
<1>5. PICK thr \in Thr : /\ thr = IF sessions[n].segments = 0 THEN Idle ELSE start
                         /\ threads' = [threads EXCEPT ![p] = thr]
  BY <1>4, IdleType DEF Finish
<1>6. ThreadSound(thr)
  <2>1. CASE sessions[n].segments = 0
    BY <1>5, <2>1, IdleSound DEF RegistryInv
  <2>2. CASE sessions[n].segments # 0
    <3>1. /\ thr.pc = "device" /\ thr.job = "upload" /\ thr.name = n /\ thr.got = {}
          /\ thr.seen = [t \in Table |-> 0] /\ thr.seq_at_start = sessions[n].seq_at_start
      BY <1>5, <2>2 DEF Idle
    <3> QED BY <1>3, <3>1, NextTypes DEF ThreadSound
  <2> QED BY <2>1, <2>2
<1>7. threads' \in [Thread -> Thr] /\ \A q \in Thread : ThreadSound(threads'[q])
  BY <1>5, <1>6 DEF RegistryInv, TypeOK, ThreadsSound
<1>8. sessions' \in [UploadName -> Session] /\ SessionsSound'
  BY <1>1, <1>2, NoSessionSound
<1> QED BY <1>2, <1>7, <1>8, SessionsStep

LEMMA SessionAppendStep ==
  ASSUME RegistryInv, NEW p \in Thread, SessionAppend(p)
  PROVE  RegistryInv'
<1> DEFINE n == threads[p].name
           ss == sessions[n]
           new == [ss EXCEPT !.segments = @ + 1,
                     !.asOf = IF ss.segments = 0 \/ threads[p].asOf < @ THEN threads[p].asOf ELSE @]
<1>1. /\ threads[p] \in Thr /\ n \in UploadName /\ ss \in Session
      /\ ss.open /\ ss.segments < MaxSegments
  BY DEF SessionAppend, RegistryInv, TypeOK, ThreadsSound, ThreadSound
<1>2. /\ UNCHANGED <<registry, sets, nsets, stores, gen, seq, log, last, revived>>
      /\ threads' = [threads EXCEPT ![p] = Idle]
      /\ sessions' = [sessions EXCEPT ![n].segments = @ + 1,
              ![n].asOf = IF ss.segments = 0 \/ threads[p].asOf < @ THEN threads[p].asOf ELSE @]
  BY DEF SessionAppend
<1>3. sessions' = [sessions EXCEPT ![n] = new]
  BY <1>1, <1>2 DEF RegistryInv, TypeOK, Session
<1>4. new \in Session
  <2>1. ss.segments + 1 \in 0..MaxSegments
    BY <1>1, BoundsAssumption DEF Session
  <2>2. (IF ss.segments = 0 \/ threads[p].asOf < ss.asOf THEN threads[p].asOf ELSE ss.asOf) \in Seq0
    BY <1>1 DEF Session, Thr
  <2> HIDE DEF ss, n
  <2> QED BY <1>1, <2>1, <2>2 DEF Session
<1>5. new.open = ss.open /\ new.seq_at_start = ss.seq_at_start
  BY <1>1 DEF Session
<1>6. sessions' \in [UploadName -> Session]
  BY <1>3, <1>4 DEF RegistryInv, TypeOK
<1>7. SessionsSound'
  <2>1. /\ sessions'[n].seq_at_start = sessions[n].seq_at_start /\ sessions[n].open
        /\ \A m \in UploadName : m # n => sessions'[m] = sessions[m]
    BY <1>1, <1>3, <1>5 DEF RegistryInv, TypeOK
  <2> QED BY <1>1, <1>2, <2>1 DEF SessionsSound, OpenSessionCurrent, RegistryInv
<1>8. threads' \in [Thread -> Thr] /\ \A q \in Thread : ThreadSound(threads'[q])
  BY <1>2, IdleType, IdleSound DEF RegistryInv, TypeOK, ThreadsSound
<1> QED BY <1>2, <1>6, <1>7, <1>8, SessionsStep

LEMMA ScanStep ==
  ASSUME RegistryInv, NEW p \in Thread, NEW n \in UploadName, Scan(p, n)
  PROVE  RegistryInv'
<1>1. PICK thr \in Thr : thr = [Idle EXCEPT !.pc = "scan", !.job = "upload", !.name = n,
                                            !.asOf = seq, !.rows = 1]
  <2>1. n \in Name /\ 1 \in 0..(MaxSegments + 1) /\ seq \in Seq0
    BY BoundsAssumption DEF UploadName, Name, RegistryInv, TypeOK
  <2> QED BY <2>1, IdleType DEF Thr
<1>2. /\ thr.pc = "scan" /\ thr.job = "upload" /\ thr.name = n /\ thr.got = {}
      /\ thr.seen = [t \in Table |-> 0] /\ thr.seq_at_start = 0
  BY <1>1 DEF Idle
<1>3. ThreadSound(thr)
  BY <1>2, NextTypes DEF ThreadSound
<1> QED BY <1>1, <1>3, ThreadAlone DEF Scan

LEMMA FirstRowStep ==
  ASSUME RegistryInv, NEW p \in Thread, FirstRow(p)
  PROVE  RegistryInv'
<1> DEFINE old == threads[p]
<1>1. old \in Thr /\ ThreadSound(old) /\ old.pc = "scan"
  BY DEF RegistryInv, TypeOK, ThreadsSound, FirstRow
<1>2. PICK thr \in Thr : thr = [old EXCEPT !.pc = "buffered", !.seq_at_start = seq]
  <2>1. seq \in Seq0
    BY DEF RegistryInv, TypeOK
  <2> QED BY <1>1, <2>1 DEF Thr
<1>3. /\ thr.pc = "buffered" /\ thr.job = old.job /\ thr.name = old.name /\ thr.got = old.got
      /\ thr.seen = old.seen /\ thr.out = old.out /\ thr.seq_at_start = seq
  BY <1>1, <1>2 DEF Thr
<1>4. ThreadSound(thr)
  BY <1>1, <1>3, NextTypes DEF ThreadSound
<1>5. threads' = [threads EXCEPT ![p] = thr]
  BY <1>2 DEF FirstRow
<1> QED BY <1>4, <1>5, ThreadAlone DEF FirstRow

LEMMA FinalizeStep ==
  ASSUME RegistryInv, NEW p \in Thread, Finalize(p)
  PROVE  RegistryInv'
<1> DEFINE old == threads[p]
<1>1. old \in Thr /\ ThreadSound(old) /\ old.pc = "buffered"
  BY DEF RegistryInv, TypeOK, ThreadsSound, Finalize
<1>2. PICK thr \in Thr : thr = [old EXCEPT !.pc = "device"]
  BY <1>1, PcType
<1>3. /\ thr.pc = "device" /\ thr.job = old.job /\ thr.name = old.name /\ thr.got = old.got
      /\ thr.seen = old.seen /\ thr.out = old.out /\ thr.seq_at_start = old.seq_at_start
  BY <1>1, <1>2 DEF Thr
<1>4. ThreadSound(thr)
  BY <1>1, <1>3 DEF ThreadSound
<1>5. threads' = [threads EXCEPT ![p] = thr]
  BY <1>2 DEF Finalize
<1> QED BY <1>4, <1>5, ThreadAlone DEF Finalize

LEMMA ReturnStep == ASSUME RegistryInv, NEW p \in Thread, Return(p) PROVE RegistryInv'
  BY IdleType, IdleSound, ThreadAlone DEF Return, RegistryInv

LEMMA StatementFailsStep ==
  ASSUME RegistryInv, NEW p \in Thread, StatementFails(p)
  PROVE  RegistryInv'
  BY IdleType, IdleSound, ThreadAlone DEF StatementFails, RegistryInv

-----------------------------------------------------------------------------
(* The theorems *)

LEMMA InitStep == Init => RegistryInv
<1> SUFFICES ASSUME Init PROVE RegistryInv
  OBVIOUS
<1>1. TypeOK
  <2>1. Blank \in ResidentSet /\ NoStore \in TableStore /\ NoSession \in Session
    BY BoundsAssumption DEF Blank, ResidentSet, NoStore, TableStore, NoSession, Session, Seq0
  <2> QED BY <2>1, IdleType, BoundsAssumption DEF Init, TypeOK, Seq0
<1>2. nsets = 0 /\ 1..nsets = {}
  BY DEF Init
<1>3. LogExact /\ StoresSound /\ RegistrySound /\ RevivedSound /\ SessionsSound
  BY DEF Init, LogExact, StoresSound, NoStore, RegistrySound, NoSet, RevivedSound,
         SessionsSound, OpenSessionCurrent, NoSession
<1>4. SetsSound
  BY <1>2 DEF SetsSound
<1>5. ThreadsSound
  BY <1>1, IdleSound DEF Init, ThreadsSound
<1> QED BY <1>1, <1>3, <1>4, <1>5 DEF RegistryInv

LEMMA NextStep == ASSUME RegistryInv, LogHasRoom, [Next]_vars PROVE RegistryInv'
<1>1. CASE UNCHANGED vars
  BY <1>1 DEF vars, RegistryInv, TypeOK, LogExact, StoresSound, SetsSound, SetSound,
         RegistrySound, Fresh, RevivedSound, ThreadsSound, ThreadSound, Bases,
         SessionsSound, OpenSessionCurrent
<1>2. ASSUME NEW t \in Table, Invalidate(t) PROVE RegistryInv'
  BY <1>2, InvalidateStep
<1>3. ASSUME NEW n \in Name, Touch(n) \/ DropResident(n) PROVE RegistryInv'
  BY <1>3, TouchStep, DropResidentStep
<1>4. ASSUME NEW t \in Table, NEW l \in Lane, DropColumn(t, l) PROVE RegistryInv'
  BY <1>4, DropColumnStep
<1>5. ASSUME NEW n \in UploadName, Begin(n) \/ Abort(n) PROVE RegistryInv'
  BY <1>5, BeginStep, AbortStep
<1>6. ASSUME NEW p \in Thread, NEW n \in Name, NEW job \in {"operator", "prepare"},
             Call(p, n, job)
      PROVE  RegistryInv'
  BY <1>6, CallStep
<1>7. ASSUME NEW p \in Thread, NEW n \in Join, JoinBegin(p, n) PROVE RegistryInv'
  BY <1>7, JoinBeginStep
<1>8. ASSUME NEW p \in Thread, NEW n \in UploadName, Scan(p, n) \/ Finish(p, n)
      PROVE  RegistryInv'
  BY <1>8, ScanStep, FinishStep
<1>9. ASSUME NEW p \in Thread,
             Prepare(p) \/ Check(p) \/ CheckDeps(p) \/ Return(p) \/ PrepareResident(p)
      PROVE  RegistryInv'
  BY <1>9, PrepareStep, CheckStep, CheckDepsStep, ReturnStep, PrepareResidentStep
<1>10. ASSUME NEW p \in Thread, JoinBuild(p) \/ JoinPublish(p) PROVE RegistryInv'
  BY <1>10, JoinBuildStep, JoinPublishStep
<1>11. ASSUME NEW p \in Thread,
              FirstRow(p) \/ StatementFails(p) \/ SessionAppend(p) \/ Finalize(p)
       PROVE  RegistryInv'
  BY <1>11, FirstRowStep, StatementFailsStep, SessionAppendStep, FinalizeStep
<1>12. ASSUME NEW p \in Thread, PublishOwn(p) \/ PublishColumns(p) PROVE RegistryInv'
  BY <1>12, PublishOwnStep, PublishColumnsStep
<1> QED
  BY <1>1, <1>2, <1>3, <1>4, <1>5, <1>6, <1>7, <1>8, <1>9, <1>10, <1>11, <1>12 DEF Next

\* Every structure of the registry stays sound (ResidentContext as a whole),
\* as long as the log has room for a record per table.
THEOREM Inductive == ASSUME LogHasRoom PROVE Spec => []RegistryInv
  BY InitStep, NextStep, PTL DEF Spec

\* Every field of the registry keeps its type: in particular no id, sequence
\* number or row count leaves its range.
THEOREM TypeCorrect == ASSUME LogHasRoom PROVE Spec => []TypeOK
<1>1. RegistryInv => TypeOK
  BY DEF RegistryInv
<1> QED BY <1>1, Inductive, PTL

\* No upload that started before an invalidation of its table is published
\* after it, into a store or as a set of its own (invalidated_since_locked).
THEOREM PublishedIsFresh == ASSUME LogHasRoom PROVE Spec => []PublishedFresh
<1>1. ASSUME RegistryInv PROVE PublishedFresh
  <2>1. \A t \in Table : Fresh(stores[t].cols, last)
    BY <1>1 DEF RegistryInv, StoresSound, Fresh
  <2>2. ASSUME NEW n \in Own, registry[n] # NoSet, sets[registry[n]].state # "Stale"
        PROVE  Fresh(sets[registry[n]].cols, last)
    <3> DEFINE s == registry[n]
    <3>1. n \in Name /\ n \notin View /\ n \notin Join
      BY NamesAssumption DEF Name
    <3>2. s \in 1..nsets /\ sets[s].name = n
      BY <1>1, <2>2, <3>1 DEF RegistryInv, RegistrySound
    <3>3. s \notin revived
      BY <1>1, <3>1, <3>2 DEF RegistryInv, RevivedSound
    <3>4. sets[s].deps = {}
      BY <1>1, <3>1, <3>2 DEF RegistryInv, SetsSound, SetSound
    <3> QED BY <1>1, <2>2, <3>1, <3>2, <3>3, <3>4 DEF RegistryInv, RegistrySound
  <2> QED BY <2>1, <2>2 DEF PublishedFresh
<1> QED BY <1>1, Inductive, PTL

\* What acquire and acquire_column hand out was not invalidated before the
\* call, whatever other threads did since, unless acquire overwrote the mark.
THEOREM ServedIsFresh == ASSUME LogHasRoom PROVE Spec => []ServedFresh
<1>1. RegistryInv => ServedFresh
  BY DEF RegistryInv, ServedFresh, ThreadsSound, ThreadSound
<1> QED BY <1>1, Inductive, PTL

\* The recursion of deps_current_locked is one level deep, and the sources of
\* a join decide for every column it holds.
THEOREM JoinsAreFlat == ASSUME LogHasRoom PROVE Spec => []JoinsFlat
<1>1. RegistryInv => JoinsFlat
  BY DEF RegistryInv, JoinsFlat, SetsSound, SetSound
<1> QED BY <1>1, Inductive, PTL

\* gpu_upload_finish is never handed a session that was invalidated while it
\* was open: invalidate frees those.
THEOREM OpenSessionsAreCurrent == ASSUME LogHasRoom PROVE Spec => []OpenSessionCurrent
<1>1. RegistryInv => OpenSessionCurrent
  BY DEF RegistryInv, SessionsSound
<1> QED BY <1>1, Inductive, PTL

\* What StaleSticks says of one step.
Sticks ==
    \A s \in 1..nsets : sets[s].state = "Stale" /\ sets'[s].state # "Stale"
        => \E p \in Thread : threads[p].pc = "prepare" /\ threads[p].set = s

LEMMA SticksUnlessTouched ==
  ASSUME RegistryInv, sets' = sets \/ \E s \in SetId \ (1..nsets) : \E obj : sets' = [sets EXCEPT ![s] = obj]
  PROVE  Sticks
  BY NextTypes DEF Sticks, RegistryInv, TypeOK

LEMMA SticksWhenMarked ==
  ASSUME RegistryInv, NEW S,
         sets' = [s \in SetId |-> IF s \in S THEN [sets[s] EXCEPT !.state = "Stale"] ELSE sets[s]]
  PROVE  Sticks
<1>1. \A s \in 1..nsets : sets[s] \in ResidentSet /\ s \in SetId
  BY NextTypes DEF RegistryInv, TypeOK
<1>2. \A s \in 1..nsets : [sets[s] EXCEPT !.state = "Stale"].state = "Stale"
  BY <1>1 DEF ResidentSet
<1> QED BY <1>1, <1>2 DEF Sticks

LEMMA NewSetId == ASSUME RegistryInv, nsets < MaxSets PROVE nsets + 1 \in SetId \ (1..nsets)
  BY NextTypes, BoundsAssumption DEF RegistryInv, TypeOK, SetId

LEMMA FindOrViewSticks ==
  ASSUME RegistryInv, NEW n, NEW s, FindOrView(n, s)
  PROVE  Sticks
<1>1. CASE sets' = sets
  BY <1>1, SticksUnlessTouched
<1>2. CASE nsets < MaxSets /\ sets' = [sets EXCEPT ![nsets + 1] = ViewSet(n)]
  BY <1>2, NewSetId, SticksUnlessTouched
<1> QED BY <1>1, <1>2 DEF FindOrView

LEMMA PublishSticks ==
  ASSUME RegistryInv, NEW set, NEW start, Publish(set, start)
  PROVE  Sticks
<1>1. CASE sets' = sets
  BY <1>1, SticksUnlessTouched
<1>2. CASE nsets < MaxSets /\ sets' = [sets EXCEPT ![nsets + 1] = set]
  BY <1>2, NewSetId, SticksUnlessTouched
<1> QED BY <1>1, <1>2 DEF Publish

LEMMA SticksStep == ASSUME RegistryInv, [Next]_vars PROVE Sticks
<1>1. CASE sets' = sets
  BY <1>1, SticksUnlessTouched
<1>2. ASSUME NEW t \in Table, Invalidate(t) PROVE Sticks
  <2> DEFINE S == {registry[n] : n \in {m \in Name : TableOf[m] = t}}
  <2>1. sets' = [s \in SetId |-> IF s \in S THEN [sets[s] EXCEPT !.state = "Stale"] ELSE sets[s]]
    BY <1>2 DEF Invalidate
  <2> HIDE DEF S
  <2> QED BY <2>1, SticksWhenMarked
<1>3. ASSUME NEW n \in Name, Touch(n) PROVE Sticks
  BY <1>3, FindOrViewSticks DEF Touch
<1>4. ASSUME NEW t \in Table, NEW l \in Lane, DropColumn(t, l) PROVE Sticks
  <2> PICK col \in stores[t].cols :
        LET uses(n) == n \in View /\ registry[n] # NoSet /\ col \in sets[registry[n]].cols
        IN sets' = [s \in SetId |-> IF \E n \in Name : uses(n) /\ registry[n] = s
                                   THEN [sets[s] EXCEPT !.state = "Stale"] ELSE sets[s]]
    BY <1>4 DEF DropColumn
  <2> DEFINE uses(n) == n \in View /\ registry[n] # NoSet /\ col \in sets[registry[n]].cols
             S == {s \in SetId : \E n \in Name : uses(n) /\ registry[n] = s}
  <2>1. sets' = [s \in SetId |-> IF s \in S THEN [sets[s] EXCEPT !.state = "Stale"] ELSE sets[s]]
    OBVIOUS
  <2> HIDE DEF S
  <2> QED BY <2>1, SticksWhenMarked
<1>5. ASSUME NEW p \in Thread, NEW n, NEW thr, Lookup(p, n, thr) PROVE Sticks
  BY <1>5, FindOrViewSticks DEF Lookup
<1>6. ASSUME NEW p \in Thread, Prepare(p) PROVE Sticks
  BY <1>6, NextTypes DEF Prepare, Sticks, RegistryInv, TypeOK
<1>7. ASSUME NEW p \in Thread, CheckDeps(p) PROVE Sticks
  <2>1. CASE sets' = [sets EXCEPT ![threads[p].set].state = "Stale"]
    <3> DEFINE S == {threads[p].set}
    <3>1. sets' = [s \in SetId |-> IF s \in S THEN [sets[s] EXCEPT !.state = "Stale"] ELSE sets[s]]
      BY <2>1 DEF RegistryInv, TypeOK
    <3> HIDE DEF S
    <3> QED BY <3>1, SticksWhenMarked
  <2> QED BY <1>1, <1>7, <2>1 DEF CheckDeps
<1>8. ASSUME NEW p \in Thread, PrepareResident(p) PROVE Sticks
  <2>1. \A s \in 1..nsets : sets[s] \in ResidentSet /\ s \in SetId
    BY NextTypes DEF RegistryInv, TypeOK
  <2>2. \A s \in 1..nsets : sets[s].state = "Stale" => sets'[s].state = "Stale"
    BY <1>8, <2>1 DEF PrepareResident, Prepared, RegistryInv, TypeOK, ResidentSet
  <2> QED BY <2>2 DEF Sticks
<1>9. ASSUME NEW p \in Thread, JoinPublish(p) PROVE Sticks
  BY <1>9, PublishSticks DEF JoinPublish
<1>10. ASSUME NEW p \in Thread, PublishOwn(p) PROVE Sticks
  BY <1>10, PublishSticks DEF PublishOwn
<1>11. ASSUME NEW p \in Thread, PublishColumns(p) PROVE Sticks
  <2> DEFINE t == TableOf[threads[p].name]
             present == stores[t].cols # {}
             same == present /\ SameRows(t, threads[p].rows)
             onOld == {registry[n] : n \in {m \in View : TableOf[m] = t}}
             S == {s \in SetId : present /\ ~same /\ s \in onOld}
  <2>1. CASE sets' = [s \in SetId |-> IF s \in S THEN [sets[s] EXCEPT !.state = "Stale"] ELSE sets[s]]
    <3> HIDE DEF S
    <3> QED BY <2>1, SticksWhenMarked
  <2>2. CASE sets' = [s \in SetId |-> IF present /\ ~same /\ s \in onOld
                                     THEN [sets[s] EXCEPT !.state = "Stale"] ELSE sets[s]]
    BY <2>1, <2>2
  <2> QED BY <1>1, <1>11, <2>2 DEF PublishColumns
<1>12. ASSUME NEW p \in Thread,
              \/ \E n \in UploadName : Scan(p, n) \/ Finish(p, n)
              \/ Check(p) \/ Return(p) \/ FirstRow(p) \/ StatementFails(p)
              \/ SessionAppend(p) \/ Finalize(p)
       PROVE  sets' = sets
  BY <1>12 DEF Scan, Finish, Check, Return, FirstRow, StatementFails, SessionAppend, Finalize
<1>13. ASSUME NEW n, DropResident(n) \/ Begin(n) \/ Abort(n) PROVE sets' = sets
  BY <1>13 DEF DropResident, Begin, Abort
<1>14. CASE UNCHANGED vars
  BY <1>1, <1>14 DEF vars
<1>15. ASSUME NEW p \in Thread,
              \/ \E n \in Name, job \in {"operator", "prepare"} : Call(p, n, job)
              \/ \E n \in Join : JoinBegin(p, n)
              \/ JoinBuild(p)
       PROVE  Sticks
  BY <1>5, <1>15 DEF Call, JoinBegin, JoinBuild
<1> QED
  BY <1>1, <1>2, <1>3, <1>4, <1>6, <1>7, <1>8, <1>9, <1>10, <1>11, <1>12, <1>13, <1>14, <1>15 DEF Next

\* A set marked stale is made usable again by no code but the last step of
\* acquire for a view it has just synthesised.
THEOREM StaleStays == ASSUME LogHasRoom PROVE Spec => StaleSticks
<1>1. ASSUME RegistryInv, [Next]_vars PROVE [Sticks]_vars
  BY <1>1, SticksStep
<1>2. RegistryInv /\ [Next]_vars => [\A s \in 1..nsets : sets[s].state = "Stale" /\ sets'[s].state # "Stale"
           => \E p \in Thread : threads[p].pc = "prepare" /\ threads[p].set = s]_vars
  BY <1>1 DEF Sticks
<1> QED BY <1>2, Inductive, PTL DEF Spec, StaleSticks

-----------------------------------------------------------------------------
(* The stores implement FreshCache *)

\* A step that leaves the stores alone is a stutter of the cache.
LEMMA CacheStutters ==
  ASSUME UNCHANGED <<stores, seq, last, gen>>
  PROVE  UNCHANGED Cache!vars
  BY DEF Cache!vars

LEMMA InvalidateEmpties ==
  ASSUME RegistryInv, NEW t \in Table, Invalidate(t)
  PROVE  Cache!Invalidate(t)
<1>1. /\ seq < MaxSeq /\ seq' = seq + 1 /\ last' = [last EXCEPT ![t] = seq + 1]
      /\ stores' = [stores EXCEPT ![t] = NoStore] /\ UNCHANGED gen
  BY DEF Invalidate
<1>2. /\ stores'[t].cols = {}
      /\ \A u \in Table : u # t => stores'[u] = stores[u]
  BY <1>1 DEF NoStore, RegistryInv, TypeOK
<1> QED BY <1>1, <1>2 DEF Cache!Invalidate, Entries

LEMMA PublishColumnsFills ==
  ASSUME RegistryInv, NEW p \in Thread, PublishColumns(p),
         ~InvalidatedSince(TableOf[threads[p].name], threads[p].seq_at_start)
  PROVE  Cache!Next
<1>1. /\ threads[p] \in Thr /\ ThreadSound(threads[p]) /\ threads[p].name \in View
      /\ TableOf[threads[p].name] \in Table
      /\ LanesOf[threads[p].name] \in (SUBSET Lane) \ {{}}
  BY NamesAssumption DEF RegistryInv, TypeOK, ThreadsSound, PublishColumns, Name
<1> PICK thr \in Thr : thr = threads[p]
  BY <1>1
<1> PICK t \in Table, lanes \in (SUBSET Lane) \ {{}} :
        t = TableOf[thr.name] /\ lanes = LanesOf[thr.name]
  BY <1>1
<1> DEFINE same == stores[t].cols # {} /\ SameRows(t, thr.rows)
           kept == IF same THEN Kept(stores[t].cols, lanes) ELSE {}
<1>2. /\ ~InvalidatedSince(t, thr.seq_at_start)
      /\ gen < MaxGen /\ gen' = gen + 1
      /\ stores' = [stores EXCEPT ![t] =
              [rows_seen |-> thr.rows, cols |-> kept \cup NewColumns(thr, lanes)]]
      /\ UNCHANGED <<seq, last>>
  BY DEF PublishColumns
<1> PICK since \in 0..MaxSeq, rows \in 0..MaxSegments + 1 :
        since = thr.seq_at_start /\ rows = thr.rows
  BY DEF Thr, Seq0
<1> DEFINE brought == [lane : lanes, since : {since}, rows : {rows}, gen : {gen'}]
           added == [rows_seen |-> rows, cols |-> NewColumns(thr, lanes)]
           stays == [rows_seen |-> rows, cols |-> kept]
<1>3. last[t] <= since /\ since <= seq
  BY <1>1, <1>2 DEF InvalidatedSince, RegistryInv, LogExact, TypeOK, Thr, Seq0, ThreadSound
<1>4. Entries(added) = brought
  <2>1. PICK fresh : fresh = NewColumns(thr, lanes)
    OBVIOUS
  <2>2. /\ \A c \in fresh : c.lane \in lanes /\ c.since = since /\ c.gen = gen'
        /\ \A l \in lanes : \E c \in fresh : c.lane = l
    <3>1. \A c \in fresh : c.lane \in lanes /\ c.since = since /\ c.gen = gen'
      BY <2>1 DEF NewColumns
    <3>2. ASSUME NEW l \in lanes PROVE \E c \in fresh : c.lane = l
      <4> DEFINE c == [table |-> TableOf[thr.name], lane |-> l, gen |-> gen',
                       since |-> thr.seq_at_start, asOf |-> thr.asOf]
      <4>1. c \in fresh
        BY <2>1 DEF NewColumns
      <4>2. c.lane = l
        OBVIOUS
      <4> QED BY <4>1, <4>2
    <3> QED BY <3>1, <3>2
  <2>3. Entries([rows_seen |-> rows, cols |-> fresh]) = brought
    <3>1. ASSUME NEW e \in Entries([rows_seen |-> rows, cols |-> fresh]) PROVE e \in brought
      BY <2>2 DEF Entries
    <3>2. ASSUME NEW e \in brought PROVE e \in Entries([rows_seen |-> rows, cols |-> fresh])
      BY <2>2 DEF Entries
    <3> QED BY <3>1, <3>2
  <2> QED BY <2>1, <2>3
<1>5. Entries(stays) = {e \in Entries(stores[t]) : e.lane \notin lanes /\ e.rows = rows}
  BY DEF Entries, Kept, SameRows
<1>6. stores'[t].cols = kept \cup NewColumns(thr, lanes) /\ stores'[t].rows_seen = rows
      /\ \A u \in Table : u # t => stores'[u] = stores[u]
  BY <1>1, <1>2 DEF RegistryInv, TypeOK
<1>7. Entries(stores'[t]) = Entries(stays) \cup Entries(added)
  <2> HIDE DEF kept
  <2> QED BY <1>6 DEF Entries
<1>8. Cache!Fill(t, lanes, since, rows)
  <2> DEFINE old == [u \in Table |-> Entries(stores[u])]
             left == {e \in Entries(stores[t]) : e.lane \notin lanes /\ e.rows = rows}
  <2>1. [u \in Table |-> Entries(stores'[u])] = [old EXCEPT ![t] = left \cup brought]
    <3> HIDE DEF kept, stays, added, brought, left
    <3>1. Entries(stores'[t]) = left \cup brought
      BY <1>4, <1>5, <1>7 DEF left
    <3>2. \A u \in Table : Entries(stores'[u]) =
              IF u = t THEN left \cup brought ELSE Entries(stores[u])
      BY <1>6, <3>1
    <3> QED BY <3>2
  <2>2. old[t] = Entries(stores[t])
    OBVIOUS
  <2> QED BY <1>2, <1>3, <2>1, <2>2 DEF Cache!Fill
<1> QED BY <1>8 DEF Cache!Next

LEMMA DropColumnEvicts ==
  ASSUME RegistryInv, NEW t \in Table, NEW l \in Lane, DropColumn(t, l)
  PROVE  Cache!Evict(t, l)
<1> PICK col \in stores[t].cols :
      /\ col.lane = l
      /\ stores' = [stores EXCEPT ![t] = IF stores[t].cols \ {col} = {} THEN NoStore
                                         ELSE [@ EXCEPT !.cols = stores[t].cols \ {col}]]
  BY DEF DropColumn
<1>1. UNCHANGED <<seq, last, gen>>
  BY DEF DropColumn
<1>2. stores[t] \in TableStore
  BY DEF RegistryInv, TypeOK
<1>3. /\ stores'[t].cols = stores[t].cols \ {col}
      /\ stores'[t].cols # {} => stores'[t].rows_seen = stores[t].rows_seen
      /\ \A u \in Table : u # t => stores'[u] = stores[u]
  BY <1>2 DEF NoStore, TableStore, RegistryInv, TypeOK
<1>4. \A c \in stores[t].cols : c.lane = l <=> c = col
  BY DEF RegistryInv, StoresSound
<1>5. Entries(stores'[t]) = {e \in Entries(stores[t]) : e.lane # l}
  BY <1>3, <1>4 DEF Entries
<1>6. [u \in Table |-> Entries(stores'[u])]
          = [[u \in Table |-> Entries(stores[u])] EXCEPT ![t] = {e \in @ : e.lane # l}]
  <2> DEFINE left == {e \in Entries(stores[t]) : e.lane # l}
  <2>1. [u \in Table |-> Entries(stores'[u])] = [[u \in Table |-> Entries(stores[u])] EXCEPT ![t] = left]
    <3>1. Entries(stores'[t]) = left
      BY <1>5
    <3> HIDE DEF left
    <3>2. \A u \in Table : Entries(stores'[u]) = IF u = t THEN left ELSE Entries(stores[u])
      BY <1>3, <3>1
    <3> QED BY <3>2
  <2>2. [u \in Table |-> Entries(stores[u])][t] = Entries(stores[t])
    OBVIOUS
  <2> QED BY <2>1, <2>2
<1> QED BY <1>1, <1>6 DEF Cache!Evict

\* The table stores are a cache that is emptied at an invalidation and filled
\* by single steps with uploads that started after it, and that never holds
\* lanes of two row counts: what sessions, checks, threads and the bounded log
\* do in between cannot be told from outside.
THEOREM StoresImplementCache == ASSUME LogHasRoom PROVE Spec => StoresAreACache
<1>1. ASSUME Init PROVE Cache!Init
  BY <1>1 DEF Init, Cache!Init, NoStore, Entries
<1>2. ASSUME RegistryInv, [Next]_vars PROVE Cache!Next \/ UNCHANGED Cache!vars
  <2>1. CASE UNCHANGED <<stores, seq, last, gen>>
    BY <2>1, CacheStutters
  <2>2. ASSUME NEW t \in Table, Invalidate(t) PROVE Cache!Next
    BY <1>2, <2>2, InvalidateEmpties DEF Cache!Next
  <2>3. ASSUME NEW t \in Table, NEW l \in Lane, DropColumn(t, l) PROVE Cache!Next
    BY <1>2, <2>3, DropColumnEvicts DEF Cache!Next
  <2>4. ASSUME NEW p \in Thread, PublishColumns(p) PROVE Cache!Next \/ UNCHANGED Cache!vars
    <3>1. CASE InvalidatedSince(TableOf[threads[p].name], threads[p].seq_at_start)
      BY <2>1, <2>4, <3>1 DEF PublishColumns
    <3> QED BY <1>2, <2>4, <3>1, PublishColumnsFills
  <2>5. ASSUME NEW p \in Thread,
              \/ \E n \in Name, job \in {"operator", "prepare"} : Call(p, n, job)
              \/ \E n \in Join : JoinBegin(p, n)
              \/ \E n \in UploadName : Scan(p, n) \/ Finish(p, n)
              \/ Prepare(p) \/ Check(p) \/ CheckDeps(p) \/ Return(p) \/ PrepareResident(p)
              \/ JoinBuild(p) \/ JoinPublish(p)
              \/ FirstRow(p) \/ StatementFails(p) \/ SessionAppend(p) \/ Finalize(p)
              \/ PublishOwn(p)
       PROVE  UNCHANGED <<stores, seq, last, gen>>
    BY <2>5 DEF Call, JoinBegin, Scan, Finish, Prepare, Check, CheckDeps, Return, PrepareResident,
               JoinBuild, JoinPublish, FirstRow, StatementFails, SessionAppend, Finalize, PublishOwn
  <2>6. ASSUME NEW n, Touch(n) \/ DropResident(n) \/ Begin(n) \/ Abort(n)
        PROVE  UNCHANGED <<stores, seq, last, gen>>
    BY <2>6 DEF Touch, DropResident, Begin, Abort
  <2>7. CASE UNCHANGED vars
    BY <2>1, <2>7 DEF vars
  <2> QED BY <1>2, <2>1, <2>2, <2>3, <2>4, <2>5, <2>6, <2>7 DEF Next
<1>3. RegistryInv /\ [Next]_vars => [Cache!Next]_(Cache!vars)
  BY <1>2
<1> QED BY <1>1, <1>3, Inductive, PTL DEF Spec, StoresAreACache, Cache!Spec
=============================================================================
