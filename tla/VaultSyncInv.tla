---------------------------- MODULE VaultSyncInv ---------------------------
(***************************************************************************)
(* The inductive invariant behind the safety properties of VaultSync, as a *)
(* conjunction of named parts.  TLC checks it on small instances, module   *)
(* VaultSyncProofs proves it for all.                                      *)
(***************************************************************************)
EXTENDS VaultSync

\* The ops tables are finite, and operations are named by author and seq.
LogsWellFormed ==
    \A d \in Device :
        /\ IsFiniteSet(log[d])
        /\ \A o \in log[d] : o.seq >= 1 /\ o.id = <<o.dev, o.seq>>

\* Every operation anyone holds is one its author signed.
LogsAuthentic == \A d \in Device : \A o \in log[d] : o \in log[o.dev]

\* An author signs one operation per seq.
OneOpPerSeq ==
    \A a \in Device : \A o, q \in OpsBy(log[a], a) : o.seq = q.seq => o = q

\* Below every operation held, the author's chain is held too.
Covered(L, o) == \A s \in 1 .. o.seq : \E q \in L : q.dev = o.dev /\ q.seq = s

LogsGapless == \A d \in Device : \A o \in log[d] : Covered(log[d], o)

LogsTrusted == \A d \in Device : \A o \in log[d] : o.dev \in pinned[d] \cup {d}

\* What the channel holds with a good signature was signed.
ChannelAuthentic ==
    \A s \in channel : \A o \in s.ops : o.sig => o \in log[o.dev]

\* What an unfinished ingest has accepted fits the log, however much the
\* log has grown since.
IngestsSound ==
    \A d \in Device, p \in Proc : pend[d][p] # Idle =>
        /\ pend[d][p].base \subseteq log[d]
        /\ \A o \in pend[d][p].accepted :
              /\ o \in log[o.dev]
              /\ o.dev \in pinned[d]
              /\ Covered(log[d] \cup pend[d][p].accepted, o)

\* What an operation says its author had observed had been signed by then.
ObservedSigned ==
    \A d, a \in Device : \A o \in log[d] :
        o.obs[a] >= 1 => \E q \in OpsBy(log[a], a) : q.seq = o.obs[a]

IndInv ==
    /\ TypeOK
    /\ LogsWellFormed
    /\ LogsAuthentic
    /\ OneOpPerSeq
    /\ LogsGapless
    /\ LogsTrusted
    /\ ChannelAuthentic
    /\ IngestsSound
    /\ ObservedSigned
    /\ LamportExtendsCausality

-----------------------------------------------------------------------------
(* What the verifier is given.                                              *)

\* What an author has signed is one chain, each link over a good one.
ChainsLinked ==
    \A a \in Device :
        /\ OneChain(a, OpsBy(log[a], a))
        /\ \A o \in OpsBy(log[a], a) : o.prev[2]

\* What VerifyLoop assumes of an author's log and run holds of every batch a
\* pull may read, and a run without a damaged copy is part of one chain.
RunsAsAssumed ==
    \A d, a \in Device : \A batch \in Batches(d) :
        LET mine == OpsBy(log[d], a)
            run == OpsBy(batch, a)
        IN  /\ \A o \in mine : o.sig
            /\ {o.seq : o \in mine} = 1 .. HeadSeq(mine, a)
            /\ Genuine(mine \cup run)
            /\ (\A o \in run : o.sig) => OneChain(a, mine \cup run)

-----------------------------------------------------------------------------
(* What the rows need besides, on a vault file with one process.            *)

\* The daemon alone works on the file: its mutex makes it one process.
OneProcess == \A p, q \in Proc : p = q

\* An ingest merges over the log it will be applied to: no write of the same
\* device comes between its two halves.
IngestsCurrent ==
    \A d \in Device, p \in Proc :
        pend[d][p] # Idle => pend[d][p].base = log[d]

\* A row against the operations of a log: absent when nothing carries the
\* item or its deletion has been purged, else the merge, less pruned versions.
RowAgrees(row, L, i) ==
    LET S == Snapshots(L, i)
        tomb == ResolveTombstone(S, Deletes(L, i))
    IN  \/ row = NoRow /\ (S = {} \/ tomb # NoTomb)
        \/ /\ row # NoRow
           /\ row.cur = Cardinality(S)
           /\ row.tomb = tomb
           /\ row.ver \subseteq Versions(S)
           /\ \E r \in row.ver : r.version = row.cur

RowsAgree == \A d \in Device : \A i \in Item : RowAgrees(rows[d][i], log[d], i)

RowsInv == IndInv /\ IngestsCurrent /\ RowsAgree

=============================================================================
