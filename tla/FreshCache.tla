----------------------------- MODULE FreshCache -----------------------------
(***************************************************************************)
(* What the table stores of the extension promise, without sessions,       *)
(* threads, views, sequence checks or a log: a cache of table lanes that   *)
(* is emptied by an invalidation in one step and filled, in one step, only *)
(* with lanes whose upload started after the last one, and that never      *)
(* keeps lanes of two row counts                                           *)
(* (src/extension/gpu_resident.cpp: invalidate, finish_upload_columns,     *)
(* drop_column_exec seen from outside).                                    *)
(***************************************************************************)
EXTENDS Integers

CONSTANTS Table, Lane, Rows,
    MaxSeq, MaxGen      \* bounds: invalidations and fills

VARIABLES seq, last, gen, cached

vars == <<seq, last, gen, cached>>

\* A cached lane: its name, the sequence number its upload started at, the
\* number of rows the upload saw and which fill it came with.
Entry == [lane : Lane, since : 0..MaxSeq, rows : Rows, gen : 1..MaxGen]

TypeOK ==
    /\ seq \in 0..MaxSeq
    /\ last \in [Table -> 0..MaxSeq]
    /\ gen \in 0..MaxGen
    /\ cached \in [Table -> SUBSET Entry]

Init ==
    /\ seq = 0
    /\ last = [t \in Table |-> 0]
    /\ gen = 0
    /\ cached = [t \in Table |-> {}]

Invalidate(t) ==
    /\ seq < MaxSeq
    /\ seq' = seq + 1
    /\ last' = [last EXCEPT ![t] = seq + 1]
    /\ cached' = [cached EXCEPT ![t] = {}]
    /\ UNCHANGED gen

\* An upload lands: its lanes replace theirs, and of the others stay those of
\* as many rows.
Fill(t, lanes, since, rows) ==
    /\ last[t] <= since /\ since <= seq
    /\ gen < MaxGen /\ gen' = gen + 1
    /\ cached' = [cached EXCEPT ![t] =
           {e \in @ : e.lane \notin lanes /\ e.rows = rows}
           \cup [lane : lanes, since : {since}, rows : {rows}, gen : {gen'}]]
    /\ UNCHANGED <<seq, last>>

Evict(t, l) ==
    /\ cached' = [cached EXCEPT ![t] = {e \in @ : e.lane # l}]
    /\ UNCHANGED <<seq, last, gen>>

Next ==
    \E t \in Table :
        \/ Invalidate(t)
        \/ \E lanes \in (SUBSET Lane) \ {{}}, since \in 0..MaxSeq, rows \in Rows :
               Fill(t, lanes, since, rows)
        \/ \E l \in Lane : Evict(t, l)

Spec == Init /\ [][Next]_vars
=============================================================================
