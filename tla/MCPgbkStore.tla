----------------------------- MODULE MCPgbkStore -----------------------------
(***************************************************************************)
(* PgbkStore for TLC: the sets of requests the runs enumerate.             *)
(***************************************************************************)
EXTENDS PgbkStore, TLC

\* Callers and values are interchangeable: nothing in PgbkStore chooses
\* among them or orders them.
Symmetry == Permutations(Clients) \cup Permutations(Values)

\* The same for a run with a single value.
ClientSymmetry == Permutations(Clients)

\* Every request on single keys: the races of callers on one row.
PointInputs == {r \in Request : r.op \notin {"GetRange", "DeleteRange"}}

\* Unconditional writes and the two range operations, over the ranges that
\* are not empty: what a range read or a range delete makes of rows that
\* are written, expire and are swept while it runs.
RangeInputs ==
    {r \in Request :
        \/ r.op = "Put"
        \/ r.op \in {"GetRange", "DeleteRange"} /\ r.startKey <= r.endKey}

=============================================================================
