------------------------- MODULE MCResidentRegistry -------------------------
(* Instances of ResidentRegistry for TLC. *)
EXTENDS ResidentRegistry, TLC

CONSTANTS t1, t2, a, b, v1, v2, o1, o2, j1, j2, p1, p2

\* Two views that share a lane of one table.
ViewTableOf == v1 :> t1 @@ v2 :> t1
ViewLanesOf == v1 :> {a} @@ v2 :> {a, b}

\* Two uploaded sets of two tables, their join, and the join of that join with
\* one of them.
JoinTableOf == o1 :> t1 @@ o2 :> t2 @@ j1 :> t1 @@ j2 :> t1
JoinProbe == j1 :> o1 @@ j2 :> j1
JoinBuildOf == j1 :> o2 @@ j2 :> o2

\* One table with one view.
OneTableOf == v1 :> t1
OneLanesOf == v1 :> {a}
NoFun == <<>>

\* States that differ only in set objects nobody can reach any more, or in the
\* snapshot stamp asOf, which no step and none of the properties checked under
\* this view reads, are explored once.
Reached ==
    LET held == {registry[n] : n \in Name} \cup
                UNION {{threads[p].set} \cup threads[p].got : p \in Thread}
        live == held \ {NoSet}
    IN live \cup UNION {sets[s].deps : s \in live}
NoStamp(cols) == {[c EXCEPT !.asOf = 0] : c \in cols}
ReachableView ==
    <<registry, [s \in Reached |-> [sets[s] EXCEPT !.cols = NoStamp(@)]], nsets,
      [t \in Table |-> [stores[t] EXCEPT !.cols = NoStamp(@)]], gen,
      [n \in UploadName |-> [sessions[n] EXCEPT !.asOf = 0]], seq, log,
      [p \in Thread |-> [threads[p] EXCEPT !.asOf = 0]], last, revived \cap Reached>>
=============================================================================
