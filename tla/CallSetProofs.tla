----------------------------- MODULE CallSetProofs -----------------------------
(***************************************************************************)
(* Where the lanes of the sets live: SideInv is an inductive invariant of  *)
(* ResidentCall with the functions of SqlFunctions, for every scenario,    *)
(* table and device outcome.  An exact upload leaves its lanes on the      *)
(* planner's side or fails, a join leaves its lanes where its probe key    *)
(* is, and no other function publishes a set.                              *)
(***************************************************************************)
EXTENDS MCCalls, ResidentCallProofs

\* ---- the functions ---------------------------------------------------------------------
LEMMA HostIsCpu == ASSUME NEW d, NEW cells PROVE IsOn(HostColumn(d, cells), "cpu")
BY DEF HostColumn, IsOn

LEMMA DeviceIsCuda == ASSUME NEW d, NEW cells, NEW packs PROVE IsOn(DeviceColumn(d, cells, packs), "cuda")
<1> DEFINE host == HostColumn(d, cells)
           w == IF d = "i64" /\ cells # <<>> /\ packs THEN LaneWidth(host.data) ELSE 8
           data == [i \in DOMAIN host.data |-> IF w = 8 THEN host.data[i] ELSE Stored(host.data[i], w)]
<1>1. host = [home |-> "cpu", dtype |-> d, width |-> 8, data |-> host.data, valid |-> host.valid]
  BY DEF HostColumn
<1>2. DeviceColumn(d, cells, packs) = [host EXCEPT !.home = "cuda", !.width = w, !.data = data]
  BY DEF DeviceColumn
<1> HIDE DEF host, w, data
<1> QED
  BY <1>1, <1>2 DEF IsOn

\* What a side's upload returns: nothing, or one lane of that side per type.
LanesOn(up, n, home) ==
    up.err = "" => up.lanes = [l \in 1..n |-> up.lanes[l]] /\ \A l \in 1..n : IsOn(up.lanes[l], home)

LEMMA HostUpload ==
  ASSUME NEW spans, NEW dtypes, NEW n \in Nat, DOMAIN dtypes = 1..n
  PROVE  LanesOn(UploadRows(spans, dtypes), n, "cpu")
<1> DEFINE start == [s \in DOMAIN spans |-> SpanStart(spans, s)]
           Writer(d) == {s \in DOMAIN spans : d \in start[s]..(start[s] + Len(spans[s].rows) - 1)}
           At(d, l) == IF Writer(d) = {} THEN 0
                       ELSE LET s == Max(Writer(d)) IN spans[s].rows[d - start[s] + 1][l]
           cells == [l \in 1..n |-> [d \in 1..SpanRows(spans) |-> At(d, l)]]
           up == UploadRows(spans, dtypes)
<1>1. up.err = "" => up.lanes = [l \in 1..n |-> HostColumn(dtypes[l], cells[l])]
  BY DEF UploadRows
<1> HIDE DEF cells, up
<1>2. ASSUME up.err = "", NEW l \in 1..n PROVE IsOn(up.lanes[l], "cpu")
  <2>1. up.lanes[l] = HostColumn(dtypes[l], cells[l])
    BY <1>1, <1>2
  <2> QED
    BY <2>1, HostIsCpu
<1>3. LanesOn(up, n, "cpu")
  BY <1>1, <1>2 DEF LanesOn
<1> QED
  BY <1>3 DEF up

LEMMA CudaUpload ==
  ASSUME NEW spans, NEW dtypes, NEW n \in Nat, DOMAIN dtypes = 1..n, NEW packs
  PROVE  LanesOn(DeviceUpload(spans, dtypes, packs), n, "cuda")
<1> DEFINE host == UploadRows(spans, dtypes)
           Cells(col) == [i \in DOMAIN col.data |-> IF BitAt(col.valid, i) THEN col.data[i] ELSE NoCell]
           lanes == [l \in DOMAIN host.lanes |-> DeviceColumn(host.lanes[l].dtype, Cells(host.lanes[l]), packs)]
           up == DeviceUpload(spans, dtypes, packs)
<1>1. host.err = "" => host.lanes = [l \in 1..n |-> host.lanes[l]]
  BY HostUpload DEF LanesOn
<1>2. host = [err |-> host.err, lanes |-> host.lanes]
  BY DEF UploadRows
<1>3. up = [host EXCEPT !.lanes = lanes]
  BY DEF DeviceUpload
<1>4. \A l \in DOMAIN host.lanes : IsOn(lanes[l], "cuda")
  BY DeviceIsCuda
<1>5. lanes = [l \in DOMAIN host.lanes |-> lanes[l]]
  OBVIOUS
<1> HIDE DEF host, lanes, up
<1>6. up.err = host.err /\ up.lanes = lanes
  BY <1>2, <1>3
<1>7. LanesOn(up, n, "cuda")
  BY <1>1, <1>4, <1>5, <1>6 DEF LanesOn
<1> QED
  BY <1>7 DEF up

LEMMA HomedOn ==
  ASSUME NEW up, NEW n \in Nat, LanesOn(up, n, "cpu"), up.err = "", NEW home
  PROVE  /\ Homed(up.lanes, home) = [l \in 1..n |-> Homed(up.lanes, home)[l]]
         /\ \A l \in 1..n : IsOn(Homed(up.lanes, home)[l], home)
<1>1. up.lanes = [l \in 1..n |-> up.lanes[l]] /\ \A l \in 1..n : "home" \in DOMAIN up.lanes[l]
  BY DEF LanesOn, IsOn
<1>2. Homed(up.lanes, home) = [l \in 1..n |-> [up.lanes[l] EXCEPT !.home = home]]
  BY <1>1 DEF Homed
<1>3. ASSUME NEW l \in 1..n PROVE IsOn(Homed(up.lanes, home)[l], home)
  <2>1. Homed(up.lanes, home)[l] = [up.lanes[l] EXCEPT !.home = home]
    BY <1>2
  <2> QED
    BY <1>1, <2>1 DEF IsOn
<1> QED
  BY <1>2, <1>3

\* A device that refuses is reported: what an exact upload returns is on the
\* planner's side, or nothing.
LEMMA ExactUpload ==
  ASSUME NEW g \in Sides, NEW device, NEW spans, NEW dtypes, NEW n \in Nat, DOMAIN dtypes = 1..n
  PROVE  LanesOn(UploadExact(g, device, spans, dtypes), n, Side(g))
<1>1. CASE g = "none"
  BY <1>1, HostUpload DEF UploadExact, Side
<1>2. CASE g # "none" /\ device = "fails"
  BY <1>2 DEF UploadExact, LanesOn
<1>3. CASE g = "cuda" /\ device # "fails"
  <2>1. UploadExact(g, device, spans, dtypes) = DeviceUpload(spans, dtypes, device = "packs")
    BY <1>3 DEF UploadExact, OnDevice
  <2> QED
    BY <1>3, <2>1, CudaUpload DEF Side
<1>4. CASE g = "lean" /\ device # "fails"
  <2> DEFINE host == UploadRows(spans, dtypes)
             up == UploadExact(g, device, spans, dtypes)
  <2>1. up = [host EXCEPT !.lanes = Homed(host.lanes, g)]
    BY <1>4 DEF UploadExact, OnDevice
  <2>2. host = [err |-> host.err, lanes |-> host.lanes]
    BY DEF UploadRows
  <2>3. LanesOn(host, n, "cpu")
    BY HostUpload
  <2> HIDE DEF host, up
  <2>4. up.err = host.err /\ up.lanes = Homed(host.lanes, g)
    BY <2>1, <2>2
  <2>5. ASSUME host.err = "" PROVE Homed(host.lanes, g) = [l \in 1..n |-> Homed(host.lanes, g)[l]]
                                /\ \A l \in 1..n : IsOn(Homed(host.lanes, g)[l], g)
    BY <2>3, <2>5, HomedOn
  <2>6. LanesOn(up, n, g)
    BY <2>4, <2>5 DEF LanesOn
  <2> QED
    BY <1>4, <2>6 DEF Side, up
<1> QED
  BY <1>1, <1>2, <1>3, <1>4 DEF Sides

LEMMA UploadFields ==
  ASSUME NEW g, NEW device, NEW spans, NEW dtypes
  PROVE  {"err", "lanes"} \subseteq DOMAIN UploadExact(g, device, spans, dtypes)
<1>1. {"err", "lanes"} \subseteq DOMAIN UploadRows(spans, dtypes)
  BY DEF UploadRows
<1>2. {"err", "lanes"} \subseteq DOMAIN OnDevice(g, device, spans, dtypes)
  BY <1>1 DEF OnDevice, DeviceUpload
<1> QED
  BY <1>1, <1>2 DEF UploadExact

LEMMA SetOfOn ==
  ASSUME NEW lanes, NEW n \in Nat, n >= 2, lanes = [l \in 1..n |-> lanes[l]], NEW home,
         \A l \in 1..n : IsOn(lanes[l], home), NEW exact, NEW rows
  PROVE  SetOn(SetOf(lanes, exact, rows), home)
<1> DEFINE set == SetOf(lanes, exact, rows)
<1>1. Len(lanes) = n
  OBVIOUS
<1>2. set.key = lanes[1] /\ set.val = lanes[2]
      /\ set.ints = (IF n > 2 THEN <<lanes[3]>> ELSE <<>>) /\ set.dbls = (IF n > 3 THEN <<lanes[4]>> ELSE <<>>)
  BY <1>1 DEF SetOf
<1>3. \A x : ToSet(<<x>>) = {x}
  BY DEF ToSet
<1>4. ToSet(<<>>) = {}
  BY DEF ToSet
<1> HIDE DEF set
<1>5. ToSet(set.ints) \subseteq {lanes[l] : l \in 1..n} /\ ToSet(set.dbls) \subseteq {lanes[l] : l \in 1..n}
  <2>1. ToSet(set.ints) \subseteq {lanes[l] : l \in 1..n}
    <3>1. CASE n > 2
      <4>1. set.ints = <<lanes[3]>> /\ 3 \in 1..n
        BY <1>2, <3>1
      <4>2. ToSet(set.ints) = {lanes[3]}
        BY <1>3, <4>1
      <4> QED
        BY <4>1, <4>2
    <3>2. CASE ~(n > 2)
      BY <1>2, <1>4, <3>2
    <3> QED
      BY <3>1, <3>2
  <2>2. ToSet(set.dbls) \subseteq {lanes[l] : l \in 1..n}
    <3>1. CASE n > 3
      <4>1. set.dbls = <<lanes[4]>> /\ 4 \in 1..n
        BY <1>2, <3>1
      <4>2. ToSet(set.dbls) = {lanes[4]}
        BY <1>3, <4>1
      <4> QED
        BY <4>1, <4>2
    <3>2. CASE ~(n > 3)
      BY <1>2, <1>4, <3>2
    <3> QED
      BY <3>1, <3>2
  <2> QED
    BY <2>1, <2>2
<1>6. SetOn(set, home)
  <2>1. {set.key, set.val} \subseteq {lanes[l] : l \in 1..n}
    <3>1. 1 \in 1..n /\ 2 \in 1..n
      OBVIOUS
    <3> QED
      BY <1>2, <3>1
  <2>2. \A col \in {lanes[l] : l \in 1..n} : IsOn(col, home)
    OBVIOUS
  <2> QED
    BY <1>5, <2>1, <2>2 DEF SetOn
<1> QED
  BY <1>6 DEF set

LEMMA PublishedIs ==
  ASSUME NEW up, NEW exact, NEW rows, NEW a, a = Published(up, exact, rows), a.set # Nothing
  PROVE  up.err = "" /\ a.set = SetOf(up.lanes, exact, rows)
<1>1. a.set = IF up.err = "" THEN SetOf(up.lanes, exact, rows) ELSE Nothing
  BY DEF Published
<1> QED
  BY <1>1

LEMMA PublishedOn ==
  ASSUME NEW up, NEW n \in Nat, n >= 2, NEW home, LanesOn(up, n, home), NEW exact, NEW rows,
         NEW a, a = Published(up, exact, rows), a.set # Nothing
  PROVE  SetOn(a.set, home)
<1>1. PICK e : e = exact
  OBVIOUS
<1>2. a = Published(up, e, rows)
  BY <1>1, Zenon
<1>3. up.err = "" /\ a.set = SetOf(up.lanes, e, rows)
  BY <1>2, PublishedIs
<1>4. SetOn(SetOf(up.lanes, e, rows), home)
  BY <1>3, SetOfOn DEF LanesOn
<1> QED
  BY <1>3, <1>4

\* Dropping the first lane drops the row ids.
LEMMA TailOn ==
  ASSUME NEW lanes, lanes = [l \in 1..5 |-> lanes[l]], NEW home, \A l \in 1..5 : IsOn(lanes[l], home)
  PROVE  Tail(lanes) = [l \in 1..4 |-> Tail(lanes)[l]] /\ \A l \in 1..4 : IsOn(Tail(lanes)[l], home)
<1>1. Len(lanes) = 5
  OBVIOUS
<1>2. PICK R : lanes \in Seq(R)
  <2>1. IsRows(lanes)
    BY <1>1 DEF IsRows
  <2> QED
    BY <2>1, RowsAreSeq
<1>3. lanes # <<>>
  BY <1>1
<1> DEFINE tail == Tail(lanes)
<1>4. /\ tail \in Seq(R) /\ Len(tail) = 4
      /\ \A i \in 1..Len(tail) : tail[i] = lanes[i + 1]
  <2>1. Len(lanes) - 1 = 4
    BY <1>1
  <2> QED
    BY <1>2, <1>3, <2>1, HeadTailProperties
<1> HIDE DEF tail
<1>5. tail \in [1..4 -> R]
  BY <1>4, LenProperties
<1>6. ASSUME NEW l \in 1..4 PROVE IsOn(tail[l], home)
  <2>1. tail[l] = lanes[l + 1] /\ l + 1 \in 1..5
    BY <1>4
  <2> QED
    BY <2>1
<1>7. tail = [l \in 1..4 |-> tail[l]] /\ \A l \in 1..4 : IsOn(tail[l], home)
  BY <1>5, <1>6
<1> QED
  BY <1>7 DEF tail

LEMMA StoredRows ==
  ASSUME NEW g \in Sides, NEW s, s.scan = <<>>, NEW a, a = Stores(g, s), a.set # Nothing
  PROVE  SetOn(a.set, Side(g))
<1>1. CASE s.exact
  <2>1. \E spans : a = Published(UploadExact(g, s.device, spans, <<"i64", "i64", "i64", "f64">>), s.exact, Sent(s))
    BY <1>1, Zenon DEF Stores, Uploaded
  <2>2. PICK spans : a = Published(UploadExact(g, s.device, spans, <<"i64", "i64", "i64", "f64">>), s.exact, Sent(s))
    BY <2>1
  <2>3. PICK up : /\ up = UploadExact(g, s.device, spans, <<"i64", "i64", "i64", "f64">>)
                  /\ a = Published(up, s.exact, Sent(s))
    BY <2>2
  <2>4. LanesOn(up, 4, Side(g))
    <3>1. DOMAIN <<"i64", "i64", "i64", "f64">> = 1..4
      OBVIOUS
    <3> QED
      BY <2>3, <3>1, ExactUpload
  <2> QED
    BY <2>3, <2>4, PublishedOn
<1>2. CASE ~s.exact
  <2>1. PICK up, e, rows : e = s.exact /\ a = Published(up, e, rows)
    BY <1>2, Zenon DEF Stores, Uploaded
  <2>2. a.set = SetOf(up.lanes, e, rows)
    BY <2>1, PublishedIs
  <2>3. a.set.exact = e
    BY <2>2 DEF SetOf
  <2> QED
    BY <1>2, <2>1, <2>3 DEF SetOn
<1> QED
  BY <1>1, <1>2

LEMMA StoredColumns ==
  ASSUME NEW g \in Sides, NEW s, s.scan # <<>>, NEW a, a = Stores(g, s), a.set # Nothing
  PROVE  SetOn(a.set, Side(g))
<1> DEFINE five == <<"i64", "i64", "i64", "i64", "f64">>
           Rest(up) == [up EXCEPT !.lanes = IF up.err = "" THEN Tail(@) ELSE @]
<1>1. \E placed : a = IF placed.err # "" THEN [err |-> placed.err, rows |-> <<>>, set |-> Nothing]
                      ELSE Published(Rest(UploadExact(g, s.device, placed.spans, five)), TRUE, s.rows)
  BY Zenon DEF Stores, UploadedColumns
<1>2. PICK placed : a = IF placed.err # "" THEN [err |-> placed.err, rows |-> <<>>, set |-> Nothing]
                        ELSE Published(Rest(UploadExact(g, s.device, placed.spans, five)), TRUE, s.rows)
  BY <1>1
<1>3. a = Published(Rest(UploadExact(g, s.device, placed.spans, five)), TRUE, s.rows)
  <2>1. ASSUME placed.err # "" PROVE FALSE
    <3>1. a = [err |-> placed.err, rows |-> <<>>, set |-> Nothing]
      BY <1>2, <2>1, Zenon
    <3>2. a.set = Nothing
      BY <3>1
    <3> QED
      BY <3>2
  <2> QED
    BY <1>2, <2>1, Zenon
<1>4. PICK up : up = UploadExact(g, s.device, placed.spans, five)
  OBVIOUS
<1>5. LanesOn(up, 5, Side(g)) /\ {"err", "lanes"} \subseteq DOMAIN up
  <2>1. DOMAIN five = 1..5
    OBVIOUS
  <2> HIDE DEF five
  <2> QED
    BY <1>4, <2>1, ExactUpload, UploadFields
<1>6. PICK rest : rest = Rest(up)
  OBVIOUS
<1>7. a = Published(rest, TRUE, s.rows)
  BY <1>3, <1>4, <1>6
<1>8. rest.err = up.err /\ rest.lanes = IF up.err = "" THEN Tail(up.lanes) ELSE up.lanes
  BY <1>5, <1>6
<1>9. LanesOn(rest, 4, Side(g))
  <2> SUFFICES ASSUME up.err = "" PROVE rest.lanes = [l \in 1..4 |-> rest.lanes[l]]
                                      /\ \A l \in 1..4 : IsOn(rest.lanes[l], Side(g))
    BY <1>8 DEF LanesOn
  <2>1. up.lanes = [l \in 1..5 |-> up.lanes[l]] /\ \A l \in 1..5 : IsOn(up.lanes[l], Side(g))
    BY <1>5 DEF LanesOn
  <2>2. rest.lanes = Tail(up.lanes)
    BY <1>8
  <2> QED
    BY <2>1, <2>2, TailOn
<1>10. PICK e : e = TRUE
  OBVIOUS
<1>11. a = Published(rest, e, s.rows)
  BY <1>7, <1>10, Zenon
<1> QED
  BY <1>9, <1>11, PublishedOn

\* What an upload publishes.
LEMMA StoredOn ==
  ASSUME NEW g \in Sides, NEW s, NEW a, a = Stores(g, s), a.set # Nothing
  PROVE  SetOn(a.set, Side(g))
<1>1. CASE s.scan = <<>>
  BY <1>1, StoredRows
<1>2. CASE s.scan # <<>>
  BY <1>2, StoredColumns
<1> QED
  BY <1>1, <1>2

\* A join leaves its lanes where its probe key lives.
LEMMA CudaJoin ==
  ASSUME NEW probe, NEW build, NEW out, NEW n \in Nat, DOMAIN out = 1..n, NEW packs
  PROVE  LanesOn(DeviceJoin(probe, build, out, packs), n, "cuda")
<1> DEFINE up == DeviceJoin(probe, build, out, packs)
           sorted == SortedRows(build)
           hits == [i \in DOMAIN probe.data |-> Probe(probe, build, sorted, out[1], i)]
           m == Cardinality({i \in DOMAIN hits : hits[i].cls # 0})
           Cell1(l, i) == LET s == SideRow(l, i, hits[i].build)
                          IN  IF BitAt(l.lane.col.valid, s) THEN Load(l.lane.col, s) ELSE NoCell
           From(d) == {i \in DOMAIN hits : hits[i].cls # 0 /\ Position(hits, i) = d}
           Cells(l) == [d \in 1..m |-> IF From(d) = {} THEN 0 ELSE Cell1(l, Max(From(d)))]
           gathered == [l \in 1..n |-> DeviceColumn(out[l].lane.col.dtype, Cells(out[l]), packs)]
<1>1. up.err = "" => up.lanes = gathered
  BY DEF DeviceJoin, NoJoin
<1>2. \A l \in 1..n : IsOn(gathered[l], "cuda")
  <2> HIDE DEF Cells, up
  <2> QED
    BY DeviceIsCuda
<1>3. gathered = [l \in 1..n |-> gathered[l]]
  OBVIOUS
<1> HIDE DEF up, gathered
<1>4. LanesOn(up, n, "cuda")
  BY <1>1, <1>2, <1>3 DEF LanesOn
<1> QED
  BY <1>4 DEF up

LEMMA HostJoin ==
  ASSUME NEW probe, NEW build, NEW out, NEW n \in Nat, DOMAIN out = 1..n
  PROVE  /\ LanesOn(JoinMaterialize(probe, build, out), n, "cpu")
         /\ {"err", "lanes"} \subseteq DOMAIN JoinMaterialize(probe, build, out)
<1> DEFINE up == JoinMaterialize(probe, build, out)
           m == Matches(probe, build, out[1])
           rows == m.first \o m.last
<1>1. up.err = "" => up.lanes = [l \in 1..n |-> Gathered(rows, out[l])]
  BY DEF JoinMaterialize, NoJoin
<1>2. {"err", "lanes"} \subseteq DOMAIN up
  BY DEF JoinMaterialize, NoJoin
<1> HIDE DEF up, rows
<1>3. \A l : IsOn(Gathered(rows, out[l]), "cpu")
  BY HostIsCpu DEF Gathered
<1>4. LanesOn(up, n, "cpu")
  <2>1. ASSUME up.err = "", NEW l \in 1..n PROVE IsOn(up.lanes[l], "cpu")
    <3>1. up.lanes[l] = Gathered(rows, out[l])
      BY <1>1, <2>1
    <3> QED
      BY <1>3, <3>1
  <2> QED
    BY <1>1, <2>1 DEF LanesOn
<1> QED
  BY <1>2, <1>4 DEF up

LEMMA JoinedOn ==
  ASSUME NEW probe, NEW build, NEW out, NEW n \in Nat, DOMAIN out = 1..n
  PROVE  LanesOn(Joined(probe, build, out), n, probe.home)
<1>1. CASE probe.home = "cuda"
  BY <1>1, CudaJoin DEF Joined
<1>2. CASE probe.home # "cuda"
  <2> DEFINE host == JoinMaterialize(Lane(probe, NoLane), build, out)
             up == Joined(probe, build, out)
  <2>1. up = [host EXCEPT !.lanes = Homed(host.lanes, probe.home)]
    BY <1>2 DEF Joined
  <2>2. LanesOn(host, n, "cpu") /\ {"err", "lanes"} \subseteq DOMAIN host
    BY HostJoin
  <2> HIDE DEF host, up
  <2>3. up.err = host.err /\ up.lanes = Homed(host.lanes, probe.home)
    BY <2>1, <2>2
  <2>4. ASSUME host.err = "" PROVE Homed(host.lanes, probe.home) = [l \in 1..n |-> Homed(host.lanes, probe.home)[l]]
                                   /\ \A l \in 1..n : IsOn(Homed(host.lanes, probe.home)[l], probe.home)
    BY <2>2, <2>4, HomedOn
  <2>5. LanesOn(up, n, probe.home)
    BY <2>3, <2>4 DEF LanesOn
  <2> QED
    BY <2>5 DEF up
<1> QED
  BY <1>1, <1>2

LEMMA MaterializedOn ==
  ASSUME NEW h, NEW home, IsOn(h[1].key, home), NEW a, a = Materialized(h), a.set # Nothing
  PROVE  SetOn(a.set, home)
<1>1. PICK out : out = JoinOut(h[1], h[2])
  OBVIOUS
<1>2. DOMAIN out = 1..4
  BY <1>1 DEF JoinOut
<1>3. PICK up : up = Joined(h[1].key, h[2].key, out)
  OBVIOUS
<1>4. LanesOn(up, 4, home)
  BY <1>2, <1>3, JoinedOn DEF IsOn
<1>5. PICK e, rows : e = TRUE /\ a = Published(up, e, rows)
  BY <1>1, <1>3, Zenon DEF Materialized
<1>6. a = Published(up, e, rows)
  BY <1>5
<1>7. 4 \in Nat /\ 4 >= 2
  OBVIOUS
<1> QED
  BY <1>4, <1>6, <1>7, PublishedOn

\* The operators that read publish nothing.
LEMMA RepliesPublishNothing ==
  \A a, b, c : /\ gx_function(a, b).set = Nothing /\ gm_function(a, b).set = Nothing
               /\ gg_function(a, b).set = Nothing /\ tk_function(a, b).set = Nothing
               /\ gb_function(a).set = Nothing /\ scalar_function(a).set = Nothing
               /\ rows_function(a).set = Nothing /\ join_sum_function(a).set = Nothing
<1>1. \A err, rows : Reply(err, rows).set = Nothing
  BY DEF Reply
<1> QED
  BY <1>1 DEF gx_function, gm_function, gg_function, tk_function, gb_function, scalar_function,
              rows_function, join_sum_function

LEMMA ReadersPublishNothing ==
  ASSUME NEW g, NEW s, s.op \in Reading, NEW h, NEW a \in Answers(g, s, h)
  PROVE  a.set = Nothing
<1>1. CASE s.op = "inner"
  BY <1>1, RepliesPublishNothing DEF Answers
<1>2. CASE s.op # "inner"
  <2>1. PICK n : a = Answered(s, h, n)
    BY <1>2 DEF Answers, Reading
  <2> QED
    BY <1>2, <2>1, RepliesPublishNothing DEF Answered, Reading
<1> QED
  BY <1>1, <1>2

\* ---- the invariant -----------------------------------------------------------------------
\* The functions are those of the run's configuration.
Instantiated ==
    /\ Nothing = NoSet
    /\ \A g, s : StoreFn(g, s) = Stores(g, s)
    /\ \A s, h : InitFn(s, h) <=> Checked(s, h)
    /\ \A g, s, h : RunFn(g, s, h) = Answers(g, s, h)

\* Another caller's statement, sets and answer are left alone.
OthersOwn(c) ==
    \A d \in Callers \ {c} :
        pc'[d] = pc[d] /\ todo'[d] = todo[d] /\ res'[d] = res[d] /\ held'[d] = held[d]

LEMMA SideStep ==
  ASSUME SideInv, NEW c \in Callers, OthersOwn(c), gpu' = gpu,
         sets' = [n \in Names |-> sets'[n]], held' = [d \in Callers |-> held'[d]],
         \A n \in Names : sets'[n] # NoSet => SetOn(sets'[n], Side(gpu)),
         todo'[c] \in Seq(Statements), pc'[c] # "idle" => todo'[c] # <<>>,
         res'[c].set # NoSet => SetOn(res'[c].set, Side(gpu)),
         pc'[c] \in {"ready", "inside"} /\ Stmt(c)'.op = "join" => IsOn(held'[c][1].key, Side(gpu))
  PROVE  SideInv'
<1>1. ASSUME NEW d \in Callers \ {c}
      PROVE  /\ todo'[d] \in Seq(Statements) /\ (pc'[d] # "idle" => todo'[d] # <<>>)
             /\ res'[d].set # NoSet => SetOn(res'[d].set, Side(gpu))
             /\ pc'[d] \in {"ready", "inside"} /\ Stmt(d)'.op = "join" => IsOn(held'[d][1].key, Side(gpu))
  BY DEF SideInv, OthersOwn, Stmt
<1> QED
  BY <1>1 DEF SideInv

\* A statement ends, well or not.
LEMMA EndedOn ==
  ASSUME SideInv, CallTypes, NEW c \in Callers, Fails(c), UNCHANGED <<gpu, sets>>
  PROVE  SideInv'
<1>1. OthersOwn(c) /\ held' = [d \in Callers |-> held'[d]]
  BY DEF Fails, CallTypes, OthersOwn, SideInv
<1>2. pc'[c] = "idle" /\ todo'[c] = <<>> /\ res'[c] = NoResult
  BY DEF Fails, CallTypes
<1>3. todo'[c] \in Seq(Statements) /\ res'[c].set = NoSet
  <2>1. <<>> \in Seq(Statements)
    BY EmptySeq
  <2>2. NoResult.set = NoSet
    BY DEF NoResult
  <2> QED
    BY <1>2, <2>1, <2>2
<1>4. \A n \in Names : sets'[n] # NoSet => SetOn(sets'[n], Side(gpu))
  BY DEF SideInv
<1>5. sets' = [n \in Names |-> sets'[n]]
  BY DEF SideInv
<1> QED
  BY <1>1, <1>2, <1>3, <1>4, <1>5, SideStep

\* Steps that touch neither the statement, the answer nor the sets.
LEMMA MovedOn ==
  ASSUME SideInv, CallTypes, NEW c \in Callers, pc[c] # "idle", UNCHANGED <<gpu, sets, todo, held, res>>,
         NEW p, pc' = [pc EXCEPT ![c] = p], OthersOwn(c), p = "inside" => pc[c] = "ready", p # "ready"
  PROVE  SideInv'
<1>1. pc'[c] = p
  BY DEF CallTypes
<1> QED
  BY <1>1, SideStep DEF SideInv, Stmt

LEMMA AcquiredOn ==
  ASSUME Instantiated, SideInv, CallTypes, NEW c \in Callers, Acquire(c)
  PROVE  SideInv'
<1> DEFINE h == [j \in DOMAIN Stmt(c).from |-> sets[Stmt(c).from[j]]]
<1>1. CASE Fails(c)
  BY <1>1, EndedOn DEF Acquire
<1>2. CASE ~Fails(c)
  <2>1. /\ pc[c] = "bound" /\ UNCHANGED <<gpu, sets, todo, res, sent>>
        /\ \A j \in DOMAIN h : h[j] # NoSet
        /\ InitFn(Stmt(c), h)
        /\ pc' = [pc EXCEPT ![c] = "ready"] /\ held' = [held EXCEPT ![c] = h]
    BY <1>2 DEF Acquire
  <2> HIDE DEF h
  <2>2. OthersOwn(c) /\ held'[c] = h /\ pc'[c] = "ready" /\ held' = [d \in Callers |-> held'[d]]
    BY <2>1 DEF CallTypes, OthersOwn, SideInv
  <2>3. Stmt(c)' = Stmt(c) /\ Stmt(c) \in Statements
    <3>1. todo[c] # <<>> /\ todo[c] \in Seq(Statements)
      BY <2>1 DEF SideInv
    <3>2. Head(todo[c]) \in Statements
      BY <3>1, HeadTailProperties
    <3> QED
      BY <2>1, <3>2 DEF Stmt
  <2>4. ASSUME Stmt(c).op = "join" PROVE IsOn(h[1].key, Side(gpu))
    <3>1. 1 \in DOMAIN Stmt(c).from /\ Stmt(c).from[1] \in Names
      BY <2>3, <2>4, ProgramAssumption
    <3>2. h[1] = sets[Stmt(c).from[1]] /\ h[1] # NoSet
      BY <2>1, <3>1 DEF h
    <3>3. h[1].exact
      BY <2>1, <2>4 DEF Instantiated, Checked, join_ok
    <3>4. SetOn(h[1], Side(gpu))
      BY <3>1, <3>2 DEF SideInv
    <3> QED
      BY <3>3, <3>4 DEF SetOn
  <2> QED
    BY <2>1, <2>2, <2>3, <2>4, SideStep DEF SideInv
<1> QED
  BY <1>1, <1>2

\* The operator answers.
LEMMA AnsweredOn ==
  ASSUME Instantiated, SideInv, CallTypes, NEW c \in Callers, Upload(c) \/ Run(c)
  PROVE  SideInv'
<1>1. CASE Fails(c)
  BY <1>1, EndedOn DEF Upload, Run
<1>2. CASE ~Fails(c)
  <2>1. /\ pc[c] = "inside" /\ pc' = [pc EXCEPT ![c] = "ran"] /\ UNCHANGED <<gpu, sets, todo, held, sent>>
        /\ \/ \E d : res' = [res EXCEPT ![c] = Result(StoreFn(gpu, Stmt(c)), d)]
           \/ /\ Stmt(c).op # "upload"
              /\ \E d : \E a \in RunFn(gpu, Stmt(c), held[c]) : res' = [res EXCEPT ![c] = Result(a, d)]
    <3>1. CASE Upload(c)
      BY <1>2, <3>1 DEF Upload
    <3>2. CASE Run(c)
      <4> DEFINE Reports == IF Stmt(c).op \in Silent THEN NoDecision ELSE DecideFn(gpu, Stmt(c), held[c])
      <4>1. /\ pc[c] = "inside" /\ Stmt(c).op # "upload" /\ gpu' = gpu /\ sets' = sets
            /\ \E a \in RunFn(gpu, Stmt(c), held[c]) :
                  /\ res' = [res EXCEPT ![c] = Result(a, Reports)]
                  /\ pc' = [pc EXCEPT ![c] = "ran"] /\ UNCHANGED <<todo, held, sent>>
        BY <1>2, <3>2, Zenon DEF Run
      <4> HIDE DEF Reports
      <4> QED
        BY <4>1
    <3> QED
      BY <3>1, <3>2
  <2>2. OthersOwn(c) /\ pc'[c] = "ran"
    BY <2>1 DEF CallTypes, OthersOwn
  <2>3. Stmt(c) \in Statements
    <3>1. todo[c] # <<>> /\ todo[c] \in Seq(Statements)
      BY <2>1 DEF SideInv
    <3> QED
      BY <3>1, HeadTailProperties DEF Stmt
  <2>4. res'[c].set # NoSet => SetOn(res'[c].set, Side(gpu))
    <3>1. CASE \E d : res' = [res EXCEPT ![c] = Result(StoreFn(gpu, Stmt(c)), d)]
      <4>1. PICK a, d : a = Stores(gpu, Stmt(c)) /\ res' = [res EXCEPT ![c] = Result(a, d)]
        BY <3>1 DEF Instantiated
      <4>2. res'[c] = Result(a, d)
        BY <4>1 DEF CallTypes
      <4>3. res'[c].set = a.set
        BY <4>2 DEF Result
      <4> QED
        BY <4>1, <4>3, StoredOn DEF SideInv, Instantiated
    <3>2. CASE /\ Stmt(c).op # "upload"
               /\ \E d : \E a \in RunFn(gpu, Stmt(c), held[c]) : res' = [res EXCEPT ![c] = Result(a, d)]
      <4>1. PICK a, d : a \in Answers(gpu, Stmt(c), held[c]) /\ res' = [res EXCEPT ![c] = Result(a, d)]
        BY <3>2 DEF Instantiated
      <4>2. res'[c] = Result(a, d)
        BY <4>1 DEF CallTypes
      <4>3. res'[c].set = a.set
        BY <4>2 DEF Result
      <4>4. CASE Stmt(c).op = "join"
        <5>1. a = Materialized(held[c])
          BY <4>1, <4>4 DEF Answers
        <5>2. IsOn(held[c][1].key, Side(gpu))
          BY <2>1, <4>4 DEF SideInv
        <5> QED
          BY <4>3, <5>1, <5>2, MaterializedOn DEF Instantiated
      <4>5. CASE Stmt(c).op # "join"
        <5>1. Stmt(c).op \in Reading
          BY <2>3, <3>2, <4>5, ProgramAssumption
        <5>2. a.set = Nothing
          BY <4>1, <5>1, ReadersPublishNothing
        <5> QED
          BY <4>3, <5>2 DEF Instantiated
      <4> QED
        BY <4>4, <4>5
    <3> QED
      BY <2>1, <3>1, <3>2
  <2> QED
    BY <2>1, <2>2, <2>4, SideStep DEF SideInv
<1> QED
  BY <1>1, <1>2

\* A set is published, and the statement ends.
LEMMA FinishedOn ==
  ASSUME SideInv, CallTypes, NEW c \in Callers, Finish(c)
  PROVE  SideInv'
<1>1. /\ pc[c] = "emit" /\ gpu' = gpu
      /\ pc' = [pc EXCEPT ![c] = "idle"] /\ todo' = [todo EXCEPT ![c] = Tail(todo[c])]
      /\ held' = [held EXCEPT ![c] = <<>>] /\ res' = [res EXCEPT ![c] = NoResult]
  BY DEF Finish
<1>2. OthersOwn(c) /\ held' = [d \in Callers |-> held'[d]]
  BY <1>1 DEF CallTypes, OthersOwn, SideInv
<1>3. pc'[c] = "idle" /\ todo'[c] = Tail(todo[c]) /\ res'[c].set = NoSet
  BY <1>1 DEF CallTypes, NoResult
<1>4. todo'[c] \in Seq(Statements)
  <2>1. todo[c] # <<>> /\ todo[c] \in Seq(Statements)
    BY <1>1 DEF SideInv
  <2> QED
    BY <1>3, <2>1, HeadTailProperties
<1>5. \/ sets' = sets
      \/ res[c].set # NoSet /\ sets' = [sets EXCEPT ![Stmt(c).into] = res[c].set]
  BY DEF Finish
<1>6. sets' = [n \in Names |-> sets'[n]] /\ \A n \in Names : sets'[n] # NoSet => SetOn(sets'[n], Side(gpu))
  BY <1>5 DEF SideInv
<1> QED
  BY <1>1, <1>2, <1>3, <1>4, <1>6, SideStep

LEMMA BoundOn ==
  ASSUME SideInv, CallTypes, NEW c \in Callers, Bind(c)
  PROVE  SideInv'
<1>1. CASE Fails(c)
  BY <1>1, EndedOn DEF Bind
<1>2. CASE ~Fails(c)
  <2>1. todo[c] # <<>> /\ pc' = [pc EXCEPT ![c] = "bound"] /\ UNCHANGED <<gpu, sets, todo, held, res>>
    BY <1>2 DEF Bind
  <2>2. OthersOwn(c) /\ pc'[c] = "bound"
    BY <2>1 DEF CallTypes, OthersOwn
  <2> QED
    BY <2>1, <2>2, SideStep DEF SideInv
<1> QED
  BY <1>1, <1>2

LEMMA ProgramsAreSeq == \A s \in Scenarios, c \in Callers : s.todo[c] \in Seq(Statements)
<1> SUFFICES ASSUME NEW s \in Scenarios, NEW c \in Callers PROVE s.todo[c] \in Seq(Statements)
  OBVIOUS
<1> DEFINE prog == s.todo[c]
           n == Len(prog)
<1>1. n \in Nat /\ prog = [j \in 1..n |-> prog[j]]
  BY ProgramAssumption DEF IsRows
<1>2. ASSUME NEW j \in 1..n PROVE prog[j] \in Statements
  <2>1. DOMAIN prog = 1..n
    BY <1>1
  <2>2. prog[j] \in ToSet(prog)
    BY <2>1 DEF ToSet
  <2> QED
    BY <2>2 DEF Statements
<1> HIDE DEF prog, n
<1>3. prog \in [1..n -> Statements]
  BY <1>1, <1>2
<1>4. prog \in Seq(Statements)
  BY <1>1, <1>3, SeqDef
<1> QED
  BY <1>4 DEF prog

LEMMA SideStays ==
  ASSUME SideInv, UNCHANGED vars PROVE SideInv'
BY DEF SideInv, vars, Stmt

\* The inductive invariant, for any callers, names, programs and data: what a
\* set, an answer or a join's probe side holds is on the planner's side.
THEOREM SidesSound == ASSUME Instantiated PROVE Spec => []SideInv
<1>1. Init => SideInv
  <2> SUFFICES ASSUME Init PROVE SideInv
    OBVIOUS
  <2>1. PICK s \in Scenarios : gpu = s.gpu /\ todo = s.todo
    BY DEF Init
  <2>2. /\ sets = [n \in Names |-> NoSet] /\ pc = [c \in Callers |-> "idle"]
        /\ held = [c \in Callers |-> <<>>] /\ res = [c \in Callers |-> NoResult]
    BY DEF Init
  <2>3. gpu \in Sides /\ \A c \in Callers : todo[c] \in Seq(Statements)
    BY <2>1, ProgramAssumption, ProgramsAreSeq
  <2> QED
    BY <2>2, <2>3 DEF SideInv, NoResult
<1>2. CallInv /\ SideInv /\ [Next]_vars => SideInv'
  <2> SUFFICES ASSUME CallTypes, SideInv, [Next]_vars PROVE SideInv'
    BY DEF CallInv
  <2>1. CASE UNCHANGED vars
    BY <2>1, SideStays
  <2>2. CASE Done
    BY <2>2, SideStays DEF Done
  <2>3. ASSUME NEW c \in Callers, Step(c) PROVE SideInv'
    <3>1. CASE Enter(c)
      <4>1. OthersOwn(c)
        BY <3>1 DEF Enter, CallTypes, OthersOwn
      <4> QED
        BY <3>1, <4>1, MovedOn DEF Enter
    <3>2. CASE Leave(c)
      <4>1. OthersOwn(c)
        BY <3>2 DEF Leave, CallTypes, OthersOwn
      <4> QED
        BY <3>2, <4>1, MovedOn DEF Leave
    <3>3. CASE Emit(c)
      BY <3>3 DEF Emit, SideInv, Stmt
    <3> QED
      BY <2>3, <3>1, <3>2, <3>3, BoundOn, AcquiredOn, AnsweredOn, FinishedOn DEF Step
  <2> QED
    BY <2>1, <2>2, <2>3 DEF Next
<1> QED
  BY <1>1, <1>2, CallSound, PTL DEF Spec

\* Whatever the statements of any number of callers, an exact set has all its
\* lanes on the planner's side: a device that refused one left nothing.
THEOREM ExactSetsOnOneSide == ASSUME Instantiated PROVE Spec => []ExactOneSide
<1>1. SideInv => ExactOneSide
  BY DEF SideInv, ExactOneSide, SetOn, IsOn, Side
<1> QED
  BY <1>1, SidesSound, PTL
================================================================================
