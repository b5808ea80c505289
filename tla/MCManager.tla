------------------------------- MODULE MCManager ------------------------------
(* Instances of ResidencyManager: a table, a join over it, another table.    *)
EXTENDS ResidencyManager, TLC

CONSTANTS b, d, c
MCQueue == <<b, d, c>>
MCSource == b :> {} @@ d :> {b} @@ c :> {}
Load(a, n, s, k, f) == [ask |-> a, budget |-> n, segments |-> s, writes |-> k, foreign |-> f]
MCLoads == {Load({b}, 1, 2, 1, TRUE), Load({d}, 2, 2, 1, FALSE), Load({b, c}, 1, 1, 0, FALSE)}
\* A table of one segment.
MCShort == {Load({b}, 1, 1, 1, FALSE)}

\* Once the workload leaves a gap that lasts, a set that is queued, with its
\* sources on their way too, does not wait for ever, however often statements
\* cut its upload short before: it gets ready, or is refused or invalidated.
Waiting(t) == \A s \in Noted(t) : st[s] \in {"pending", "uploading"} \/ (s # t /\ st[s] = "ready")
Lands == <>[](u = "idle") => \A t \in Sets : []<>~Waiting(t)
=============================================================================
