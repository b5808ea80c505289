------------------------------- MODULE MCCalls -------------------------------
(* Instances of ResidentCall: tables of a few kinds of rows, and programs.   *)
EXTENDS ResidentCall, SqlFunctions, TLC

CONSTANTS c1, c2

\* Doubles: 1.0 is 48, -1.0 is 48 - 128, the zeros 0 and -128, NaN 120.
Row(k, v, i, f) == [k |-> k, v |-> v, i |-> i, f |-> f]
Kinds == {Row(-1, 100, 3, 48), Row(-1, -2, NoCell, -128), Row(7, 100, -5, 120),
          Row(NoCell, 60, 3, 0), Row(7, NoCell, 3, NoCell)}
Some == {<<Row(-1, 100, 3, 48), Row(-1, 100, 3, 0), Row(-1, 100, -5, -80)>>,
         <<Row(7, 100, -5, 120), Row(NoCell, NoCell, 3, 0), Row(-1, -2, NoCell, -128)>>,
         <<Row(7, NoCell, NoCell, 120), Row(60, -2, 3, -80), Row(-1, -2, 3, 48)>>,
         <<Row(60, 100, 3, 48), Row(7, -128, 3, 0), Row(60, -128, -5, -80)>>,
         <<Row(7, 100, 3, 48), Row(60, 3, 3, 0), Row(7, 100, -5, 0)>>,
         <<Row(-1, 1, 0, 48), Row(NoCell, -1, -1, 0)>>, <<>>}
All == {"keys", "stars", "counts", "sums", "mins", "maxs"}

\* Keys and sums whose best ones share their high bytes.
Wide5 == <<Row(1, 5, 0, 0), Row(2, -128, 0, 0), Row(3, 4, 0, 0), Row(-4, 4, 0, 0), Row(5, 127, 0, 0),
           Row(3, 2, 0, 0), Row(6, 6, 0, 0)>>
Base == [op |-> "", from |-> <<"s">>, into |-> "s", want |-> All, wants |-> <<>>, pays |-> <<"v">>,
         where |-> <<>>, f |-> NoFilter, cap |-> 9, primary |-> 1, k |-> 2, desc |-> FALSE,
         kind |-> "INNER", cuts |-> {2}, build |-> <<>>, probe |-> <<>>, rows |-> <<>>, scan |-> <<>>,
         device |-> "packs", exact |-> TRUE, vdt |-> "i64"]
Term(l, o, x) == <<[lane |-> l, op |-> o, value |-> x, list |-> <<x, 7>>]>>
Having(o, a, x) == [NoFilter EXCEPT !.cmp = o, !.agg = a, !.threshold = x]
Top(n, a, d) == [NoFilter EXCEPT !.topk = n, !.agg = a, !.desc = d]

Send(name, rows, device, exact) ==
    [Base EXCEPT !.op = "upload", !.from = <<>>, !.into = name, !.rows = rows,
                 !.device = device, !.exact = exact]
Group(w, f) == [Base EXCEPT !.op = "groups", !.where = w, !.f = f]
Multi(w, f, p) == [Base EXCEPT !.op = "multi", !.where = w, !.f = f, !.primary = p,
                               !.pays = <<"v", "i">>, !.wants = <<{"sums"}, {"mins"}>>]
Whole(w) == [Base EXCEPT !.op = "global", !.where = w, !.pays = <<"v", "i">>]
Lists(build, probe) == [Base EXCEPT !.op = "inner", !.from = <<>>, !.build = build, !.probe = probe]
Rows2(kind) == [Base EXCEPT !.op = "joinrows", !.from = <<"s", "b">>, !.kind = kind]

Queries ==
    <<Group(<<>>, NoFilter), Group(Term("f", "GE", -128), Having("GE", "Sum", 100)),
      Group(Term("v", "NE", 100), Top(1, "Sum", FALSE)), Group(<<>>, Top(2, "Min", TRUE)),
      Multi(<<>>, Top(2, "Sum", TRUE), 2), [Multi(Term("k", "In", -1), NoFilter, 1) EXCEPT !.wants = <<{}, {"maxs"}>>],
      Multi(Term("i", "IsNotNull", 0), Having("LT", "Max", 60), 1),
      [Group(Term("k", "GT", -2), Having("GT", "Max", 2)) EXCEPT !.want = {"keys", "mins"}],
      Whole(Term("f", "LT", 120)), [Whole(<<>>) EXCEPT !.want = {"stars", "mins", "counts"}]>>
Joins ==
    <<[Base EXCEPT !.op = "join", !.from = <<"s", "b">>, !.into = "j"],
      [Group(<<>>, NoFilter) EXCEPT !.from = <<"j">>], [Multi(<<>>, Top(1, "Sum", TRUE), 1) EXCEPT !.from = <<"j">>]>>
Olds ==
    <<Rows2("LEFT"), Rows2("INNER"), Rows2("SEMI"), Rows2("ANTI"),
      [Rows2("LEFT") EXCEPT !.op = "joinsum"], [Base EXCEPT !.op = "topk", !.desc = TRUE],
      [Base EXCEPT !.op = "topk", !.k = 1], [Base EXCEPT !.op = "plain", !.f = Top(1, "Sum", TRUE)],
      [Base EXCEPT !.op = "scalar"]>>
One(g, prog) == [gpu |-> g, todo |-> c1 :> prog @@ c2 :> <<>>]
Two(g, p, q) == [gpu |-> g, todo |-> c1 :> p @@ c2 :> q]
\* The same cells as doubles.
Doubles ==
    {One(g, <<[Send("s", [j \in DOMAIN t |-> Row(j, t[j].f, 0, 0)], "packs", FALSE) EXCEPT !.vdt = "f64"]>>
            \o [j \in 1..3 |-> [Base EXCEPT !.op = "topk", !.vdt = "f64", !.k = j, !.desc = (j = 2)]])
        : t \in {<<Row(1, 1, 1, -80), Row(1, 1, 1, 120), Row(1, 1, 1, -128)>>,
                 <<Row(1, 1, 1, 0), Row(1, 1, 1, -70), Row(1, 1, 1, -80)>>}, g \in {"cuda", "none"}}
Dim == <<Row(-1, 7, 0, 0), Row(7, NoCell, 0, 0), Row(60, -1, 0, 0)>>

DataScenarios ==
    {One("cuda", <<Send("s", t, d, TRUE)>> \o Queries) : t \in [1..3 -> Kinds], d \in {"packs", "plain"}}
    \cup {One(g, <<Send("s", t, "packs", TRUE)>> \o Queries) : t \in Some, g \in {"cuda", "none", "lean"}}
JoinScenarios ==
    {One(g, <<Send("s", t, "packs", TRUE), Send("b", Dim, "packs", TRUE)>> \o Joins)
        : t \in Some, g \in {"cuda", "none"}}
    \cup {One(g, <<Send("s", t, "packs", FALSE), Send("b", Dim \o Dim, "packs", FALSE)>> \o Olds)
        : t \in Some, g \in {"cuda", "none", "lean"}}
\* Callers that share the lock, the names and the device that fails for one.
LockScenarios ==
    LET t == <<Row(7, 100, -5, 120), Row(NoCell, NoCell, 3, 0)>>
        u == <<Row(-1, 1, 0, 48)>>
    IN  {Two("cuda", <<Send("s", t, "packs", e), Group(<<>>, NoFilter), Rows2("LEFT")>>,
                     <<Send(n, u, d, FALSE), q>>) :
             e \in BOOLEAN, n \in {"s", "b"}, d \in {"plain", "fails"},
             q \in {[Base EXCEPT !.op = "plain"], [Rows2("INNER") EXCEPT !.cap = 0]}}
        \cup {Two("cuda", <<Send("s", t, "fails", TRUE), Whole(<<>>)>>,
                          <<[Group(<<>>, NoFilter) EXCEPT !.cap = 1],
                            [Multi(<<>>, Top(1, "Sum", TRUE), 3) EXCEPT !.pays = <<"v">>]>>)}
        \cup {Two("cuda", <<Send("s", t, "plain", TRUE), [Group(<<>>, NoFilter) EXCEPT !.cap = 1]>>,
                          <<Send("b", u, "plain", FALSE), [Whole(<<>>) EXCEPT !.from = <<"s">>, !.pays = <<>>]>>),
             One("none", <<Send("s", t, "plain", TRUE), Group(<<>>, Top(-1, "Sum", FALSE)),
                           [Whole(<<>>) EXCEPT !.pays = <<"f">>], [Multi(<<>>, NoFilter, 1) EXCEPT !.pays = <<"v", "k">>]>>),
             Two("none", <<Send("s", t, "plain", TRUE), [Rows2("LEFT") EXCEPT !.from = <<"s", "s">>]>>,
                         <<Send("b", u, "plain", FALSE), [Multi(<<>>, NoFilter, 3) EXCEPT !.pays = <<>>]>>)}
\* Top-k and HAVING over more groups than the device sorts.
SelectScenarios ==
    {One(g, <<Send("s", Wide5, "packs", FALSE)>>
            \o [j \in 1..4 |-> [Base EXCEPT !.op = "plain", !.f = Top(j, "Sum", j % 2 = d)]]
            \o <<[Base EXCEPT !.op = "plain", !.f = [Top(2, "Sum", FALSE) EXCEPT !.cmp = "GE", !.threshold = 4]]>>)
        : g \in {"cuda", "none"}, d \in {0, 1}}
\* Exact sets without NULLs and with values a byte holds.
NarrowScenarios ==
    {One("cuda", <<Send("s", t, d, TRUE), [Base EXCEPT !.op = q]>>) :
        t \in {<<Row(-100, 1, 0, 0), Row(100, 0, 3, 0), Row(7, -1, 0, 0)>>}, d \in {"packs", "plain"},
        q \in {"plain", "scalar"}}
\* Lists whose keys repeat, collide and wrap around the table; the least word.
ListScenarios ==
    {One(g, <<Lists(b, p)>>) : g \in {"cuda", "none"},
        b \in {<<3, 7, 3>>, <<7, 3, -5, 11>>, <<7, 7>>, <<-128, 5>>, <<>>}, p \in {<<7, -5, 3, 7, 4>>, <<-128>>}}
    \cup {Two("cuda", <<Lists(<<3, 3>>, <<3, 5, 3>>)>>, <<Lists(<<5>>, <<5>>), Lists(<<-128>>, <<5, 5, 5>>)>>)}
\* Scans of a column upload: two states whose calls interleave, a call that
\* comes back out of order, a row delivered twice, segments that split a call.
Scans == {<<<<<<1, 2>>, <<4>>>>, <<<<3>>>>>>, <<<<<<3>>, <<1, 2>>>>, <<<<4>>>>>>, <<<<<<3, 4>>>>, <<<<2, 1>>>>>>,
          <<<<<<1, 2, 4>>>>, <<<<3>>>>>>, <<<<<<1, 2>>>>, <<<<2, 3, 4>>>>>>, <<<<<<2, 4, 1>>, <<3>>>>>>, <<<<<<4, 3, 2, 1>>>>>>}
ColumnScenarios ==
    {One(g, <<[Send("s", <<Row(7, 100, -5, 120), Row(NoCell, NoCell, 3, 0), Row(-1, -2, NoCell, -128), Row(7, 3, 0, 48)>>,
                    "packs", TRUE) EXCEPT !.scan = s], Group(<<>>, NoFilter)>>)
        : g \in {"cuda", "none", "lean"}, s \in Scans}
MCScenarios == DataScenarios \cup JoinScenarios \cup Doubles \cup LockScenarios
               \cup SelectScenarios \cup ListScenarios \cup ColumnScenarios \cup NarrowScenarios
MCNarrow == {<<5, 5, 5>>}

\* ---- properties -----------------------------------------------------------
TypeOK ==
    /\ gpu \in {"none", "cuda", "lean"} /\ lock \in [Mutexes -> Callers \cup {NoCaller}]
    /\ pc \in [Callers -> {"idle", "bound", "ready", "inside", "ran", "emit"}]
    /\ \A c \in Callers : /\ pc[c] # "idle" => todo[c] # <<>>
                          /\ Len(sent[c]) <= Len(res[c].rows)
    /\ \A n \in Names : sets[n] # NoSet =>
          /\ sets[n].key.home \in {"cpu", "cuda", "lean"} /\ sets[n].key.width \in {1, 2, 4, 8}
          /\ Len(sets[n].key.data) = Len(sets[n].rows) /\ Len(sets[n].val.data) = Len(sets[n].rows)

Statements == UNION {ToSet(s.todo[c]) : s \in Scenarios, c \in Callers}
\* The names joins publish under; their lanes stand in the join's order.
Outputs == {s.into : s \in {t \in Statements : t.op = "join"}}
OfJoin(c) == Stmt(c).from[1] \in Outputs
Answering(c, op) == pc[c] = "emit" /\ Len(sent[c]) >= Len(res[c].rows) /\ Stmt(c).op = op
Table(c) == held[c][1].rows
\* shown are the groups native gives for s over the table.
SameAs(shown, table, s, columns, wants) ==
    LET gs == NativeGroups(table, s.where, columns)
        match(j) == {g \in gs : g.keys = shown[j].keys}
        answer == [j \in DOMAIN shown |-> CHOOSE g \in gs : g.keys = shown[j].keys]
    IN  /\ \A j \in DOMAIN shown : match(j) # {}
        /\ IsAnswer(answer, gs, s.f, s.primary)
        /\ \A j \in DOMAIN answer :
              /\ "stars" \in s.want => shown[j].stars = answer[j].stars
              /\ \A p \in DOMAIN columns : \A w \in wants[p] :
                    shown[j].pays[p][w] = answer[j].pays[p][w]
Same(c, columns, wants) == SameAs(sent[c], Table(c), Stmt(c), columns, wants)

\* The rows a GROUP BY call hands to DuckDB, HAVING and top-k included, are
\* those native SQL gives over the table the acquired set was made from,
\* ordered by key with NULL last or by the aggregate with NULL last, whatever
\* the side and the width the lanes are stored at.
GroupsAreNative ==
    \A c \in Callers : Answering(c, "groups") /\ ~OfJoin(c) =>
        Same(c, <<"v">>, <<Cols(Stmt(c).want)>>)

\* Several payloads in one call: every payload's aggregates stand in the row
\* of their group although each came from a pass of its own.
PayloadsAligned ==
    \A c \in Callers : Answering(c, "multi") /\ ~OfJoin(c) => Same(c, Stmt(c).pays, Stmt(c).wants)

\* The same over the set a join left on its side: its lanes hold the joined
\* table, keys and payloads of either side gathered into one row.
JoinedAreNative ==
    \A c \in Callers :
        /\ Answering(c, "groups") /\ OfJoin(c) => Same(c, <<"v">>, <<Cols(Stmt(c).want)>>)
        /\ Answering(c, "multi") /\ OfJoin(c) => Same(c, Stmt(c).pays, Stmt(c).wants)

\* The aggregate without GROUP BY is one row of native's aggregates.
GlobalIsNative ==
    \A c \in Callers : Answering(c, "global") =>
        LET s == Stmt(c)
            kept == Kept(Table(c), s.where)
        IN  /\ Len(sent[c]) = 1
            /\ sent[c][1].stars = Cardinality(kept)
            /\ \A p \in DOMAIN s.pays : \A w \in Cols(s.want) :
                  sent[c][1].pays[p][w] = NativeAggregate(Table(c), kept, s.pays[p])[w]

\* A join of two lists hands out every probe row with a match once, with the first
\* build row of its key, whatever slots the device's threads claim first.
ListJoinIsNative ==
    \A c \in Callers : Answering(c, "inner") =>
        LET firsts == FirstPairs(Stmt(c).probe, Stmt(c).build)
        IN  ToSet(sent[c]) = firsts /\ Len(sent[c]) = Cardinality(firsts)

\* Row pairs and sums of a resident join are native's for every join kind.
JoinsAreNative ==
    \A c \in Callers :
        /\ Answering(c, "joinrows") =>
              LET pairs == NativePairs(Table(c), held[c][2].rows, Stmt(c).kind)
              IN  ToSet(sent[c]) = pairs /\ Len(sent[c]) = Cardinality(pairs)
        /\ Answering(c, "joinsum") =>
              LET pairs == NativePairs(Table(c), held[c][2].rows, Stmt(c).kind)
              IN  sent[c] = <<<<Wrap(MapThenSumSet(LAMBDA m : Table(c)[m[1]].v, pairs)), Cardinality(pairs)>>>>

\* The operators before the exact path give native's sums modulo a word, its
\* minima, maxima, counts, HAVING and top-k, whatever the width of the keys;
\* only a payload that is stored narrow and taken for words is left out, which
\* the device never checks for.
Misread(c) == held[c][1].val.width # 8
WidthIsStorage ==
    \A c \in Callers :
        /\ Answering(c, "scalar") /\ ~Misread(c) =>
              LET a == NativeAggregate(Table(c), DOMAIN Table(c), "v")
              IN  a.counts > 0 => sent[c] = <<<<Wrap(a.sums), a.mins, a.maxs>>>>
        /\ Answering(c, "plain") /\ ~Misread(c) =>
              LET gs == {[g EXCEPT !.pays = <<[g.pays[1] EXCEPT !.sums = Wrap(@)]>>] :
                            g \in NativeGroups(Table(c), <<>>, <<"v">>)}
                  match(j) == {g \in gs : <<g.keys, g.pays[1].sums, g.stars>> = sent[c][j]}
              IN  /\ \A j \in DOMAIN sent[c] : match(j) # {}
                  /\ IsAnswer([j \in DOMAIN sent[c] |-> CHOOSE g \in match(j) : TRUE], gs, Stmt(c).f, 1)

\* gpu_topk_resident over a column without NULLs returns k different rows, no
\* row left out ranks before one returned (NaN greatest, the zeros equal), and
\* each row comes with its own value.
TopKIsARanking ==
    \A c \in Callers : Answering(c, "topk") /\ (\A n \in DOMAIN Table(c) : Table(c)[n].v # NoCell) =>
        LET s == Stmt(c)
            idx == [j \in DOMAIN sent[c] |-> sent[c][j][1]]
        IN  /\ IsRanking(Table(c), "v", s.vdt = "f64", s.k, s.desc, idx)
            /\ \A j \in DOMAIN sent[c] : sent[c][j][2] = Table(c)[sent[c][j][1]].v

\* An exact set lives on one side, the device's when there is one: a device
\* that refused an upload leaves no set behind.
ExactOneSide ==
    \A n \in Names : sets[n] # NoSet /\ sets[n].exact =>
        \A col \in {sets[n].key, sets[n].val} \cup ToSet(sets[n].ints) \cup ToSet(sets[n].dbls) :
            col.home = (IF gpu = "none" THEN "cpu" ELSE gpu)

\* Why: an exact upload leaves lanes of the planner's side or nothing, and a
\* join leaves its lanes where its probe key lives, which is there too.
Sides == {"none", "cuda", "lean"}
Side(g) == IF g = "none" THEN "cpu" ELSE g
IsOn(col, home) == "home" \in DOMAIN col /\ col.home = home
SetOn(set, home) ==
    set.exact => \A col \in {set.key, set.val} \cup ToSet(set.ints) \cup ToSet(set.dbls) : IsOn(col, home)
Reading == {"groups", "multi", "global", "topk", "plain", "scalar", "joinrows", "joinsum", "inner"}
ASSUME ProgramAssumption ==
    /\ \A s \in Scenarios : s.gpu \in Sides /\ \A c \in Callers : IsRows(s.todo[c])
    /\ \A s \in Statements : /\ s.op \in Reading \cup {"upload", "join"}
                             /\ s.op = "join" => 1 \in DOMAIN s.from /\ s.from[1] \in Names

\* What the statements hand over.  A table has words or NULLs; every row of it,
\* and no other, is delivered by some call of a scan, whose row numbers are
\* i64s; a term is one DuckDB's binder lets through.
Types == {"i64", "f64"}
Lanes == {"k", "v", "i", "f"}
WordCells(table, name) == \A i \in DOMAIN table : table[i][name] \in Word \cup {NoCell}
IsTable(rows) == IsRows(rows) /\ Len(rows) <= W /\ \A name \in Lanes : WordCells(rows, name)
Delivers(s) ==
    /\ IsTable(s.rows) /\ Len(s.rows) <= MaxWord
    /\ IsRows(s.scan) /\ \A t \in DOMAIN s.scan : IsRows(s.scan[t])
    /\ \A t \in DOMAIN s.scan : \A c \in DOMAIN s.scan[t] :
          /\ IsRows(s.scan[t][c])
          /\ \A r \in DOMAIN s.scan[t][c] : s.scan[t][c][r] \in DOMAIN s.rows
    /\ \A j \in DOMAIN s.rows : \E t \in DOMAIN s.scan : \E c \in DOMAIN s.scan[t] :
          \E r \in DOMAIN s.scan[t][c] : s.scan[t][c][r] = j
Loads(s) ==
    /\ IsTable(s.rows) /\ s.exact \in BOOLEAN /\ s.vdt \in Types
    /\ s.scan # <<>> => Delivers(s)
Wheres(where) ==
    /\ IsRows(where)
    /\ \A q \in DOMAIN where :
          LET t == where[q]
          IN  /\ t.lane \in Lanes /\ t.op \in Comparisons \cup {"IsNull", "IsNotNull", "In"} /\ t.value \in Int
              /\ t.op = "In" => \A j \in DOMAIN t.list : t.list[j] \in Int
Asks(s) ==
    /\ IsRows(s.pays) /\ (\A p \in DOMAIN s.pays : s.pays[p] \in Lanes) /\ s.want \subseteq All
    /\ 1 \in DOMAIN s.from /\ s.from[1] \notin Outputs /\ Wheres(s.where)
\* A GROUP BY has its key among its columns, and a filter once its bind parsed it.
Grouping(s) ==
    /\ 1 \in DOMAIN s.from /\ Wheres(s.where) /\ "keys" \in s.want /\ s.want \subseteq All
    /\ BindOk(s) => IsFilter(s.f)
Groupings(s) == Grouping(s) /\ s.pays = <<"v">> /\ s.primary = 1
\* A call that binds projects columns of its payloads; only a filter names its primary one.
Multis(s) ==
    /\ Grouping(s) /\ IsRows(s.pays) /\ \A p \in DOMAIN s.pays : s.pays[p] \in Lanes
    /\ BindOk(s) =>
          /\ IsRows(s.wants) /\ DOMAIN s.wants = DOMAIN s.pays
          /\ \A p \in DOMAIN s.wants : s.wants[p] \subseteq All \ Shared
          /\ ~Active(s.f) => s.primary = 1
Orders(s) ==
    /\ s.k \in Int /\ s.desc \in BOOLEAN
    /\ 1 \in DOMAIN s.from /\ s.from[1] \notin Outputs
\* Lists of words, and a build list the largest table of the device has slots for.
Pairings(s) ==
    /\ IsRows(s.build) /\ IsRows(s.probe) /\ Len(s.build) < MaxCap
    /\ ToSet(s.build) \cup ToSet(s.probe) \subseteq Word
Programs ==
    /\ {"s", "b"} \subseteq Names \ Outputs
    /\ \A s \in Statements : /\ \A j \in DOMAIN s.from : s.from[j] \in Names
                             /\ s.op = "upload" => Loads(s)
                             /\ s.op = "global" => Asks(s)
                             /\ s.op = "groups" => Groupings(s)
                             /\ s.op = "multi" => Multis(s)
                             /\ s.op = "topk" => Orders(s)
                             /\ s.op = "inner" => Pairings(s)
ASSUME TableAssumption == Programs

SideInv ==
    /\ gpu \in Sides
    /\ sets = [n \in Names |-> sets[n]] /\ held = [c \in Callers |-> held[c]]
    /\ \A n \in Names : sets[n] # NoSet => SetOn(sets[n], Side(gpu))
    /\ \A c \in Callers :
          /\ todo[c] \in Seq(Statements) /\ (pc[c] # "idle" => todo[c] # <<>>)
          /\ res[c].set # NoSet => SetOn(res[c].set, Side(gpu))
          /\ pc[c] \in {"ready", "inside"} /\ Stmt(c).op = "join" => IsOn(held[c][1].key, Side(gpu))

\* Every lane of an uploaded set holds, cell by cell and NULL by NULL, its
\* column of the table in row-id order, whatever order the scan's threads
\* delivered the rows in and whatever width the device chose; a row delivered
\* twice publishes nothing.
LanesInRowOrder ==
    \A n \in {"s", "b"} : sets[n] # NoSet /\ sets[n].exact =>
        LET set == sets[n]
            Shows(col, cells) ==
                [j \in DOMAIN col.data |-> IF BitAt(col.valid, j) THEN Load(col, j) ELSE NoCell] = cells
            Of(l) == [j \in DOMAIN set.rows |-> set.rows[j][l]]
        IN  /\ Shows(set.key, Of("k")) /\ Shows(set.val, Of("v"))
            /\ Shows(set.ints[1], Of("i")) /\ Shows(set.dbls[1], Of("f"))
=============================================================================
