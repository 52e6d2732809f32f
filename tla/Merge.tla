------------------------------- MODULE Merge -------------------------------
(***************************************************************************)
(* The deterministic merge of crates/lp-sync/src/merge.rs: what the rows   *)
(* of an item are, as a function of a set of operations.                   *)
(*                                                                         *)
(* The sorted vector the code folds over is replaced by ranks in the same  *)
(* total order: version n is the snapshot with n - 1 snapshots below it.   *)
(***************************************************************************)
EXTENDS OpLog

CONSTANTS NoRow, NoTomb

\* order_key: (lamport, device id, op id), compared lexicographically.  Two
\* operations of one author never share a Lamport time, so seq stands in for
\* the time-ordered op id.
Below(o, p) ==
    \/ o.lam < p.lam
    \/ o.lam = p.lam /\ o.dev < p.dev
    \/ o.lam = p.lam /\ o.dev = p.dev /\ o.seq < p.seq

\* True happens-before by the observed heads.
HappensBefore(o, p) ==
    IF o.dev = p.dev THEN o.seq < p.seq ELSE p.obs[o.dev] >= o.seq

Snapshots(L, i) == {o \in L : o.item = i /\ o.kind \in SnapshotKind}

Deletes(L, i) == {o \in L : o.item = i /\ o.kind = "delete"}

\* The 1-based position of snapshot s of an item in the total order.
Rank(S, s) == Cardinality({t \in S : Below(t, s)}) + 1

\* The item_versions rows: one for every snapshot, losers included.
Versions(S) == {[version |-> Rank(S, s), op |-> s.id] : s \in S}

\* Deletes no snapshot has observed.
SurvivingDeletes(S, D) == {x \in D : \A s \in S : ~HappensBefore(x, s)}

\* The greatest surviving delete, and whether it covers every snapshot.
ResolveTombstone(S, D) ==
    LET live == SurvivingDeletes(S, D)
        canonical == CHOOSE x \in live : \A y \in live \ {x} : Below(y, x)
    IN  IF live # {} /\ \A s \in S : HappensBefore(s, canonical)
        THEN canonical.id
        ELSE NoTomb

\* Mutant of MaterializeItem: the loser of a conflict is dropped.
MaterializeItemWinner(L, i) ==
    LET S == Snapshots(L, i)
    IN  IF S = {}
        THEN NoRow
        ELSE [cur  |-> Cardinality(S),
              ver  |-> {r \in Versions(S) : r.version = Cardinality(S)},
              tomb |-> ResolveTombstone(S, Deletes(L, i))]

\* materialize_item: NoRow when no operation carries the item's content.
MaterializeItem(L, i) ==
    LET S == Snapshots(L, i)
    IN  IF S = {}
        THEN NoRow
        ELSE [cur  |-> Cardinality(S),
              ver  |-> Versions(S),
              tomb |-> ResolveTombstone(S, Deletes(L, i))]

=============================================================================
