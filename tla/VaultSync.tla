----------------------------- MODULE VaultSync -----------------------------
(***************************************************************************)
(* One vault replicated on several devices: the item operations of         *)
(* crates/lp-vault/src/vault.rs, the foreign apply of                      *)
(* crates/lp-vault/src/foreign.rs and the file channel of                  *)
(* crates/lp-sync/src/{engine,shipping}.rs.                                *)
(*                                                                         *)
(* A device runs one or more processes on its vault file.  The daemon      *)
(* serialises every request under one mutex, so it is one process; the     *)
(* CLI's sync command opens the same file itself and is a second one.      *)
(* Each local write is one SQLite transaction, hence one action.  An       *)
(* ingest is two: it reads the log and merges (BeginIngest), then applies  *)
(* the result in a transaction of its own (FinishIngest).                  *)
(*                                                                         *)
(* The channel is a directory replicated by something else: a pull may see *)
(* only some of the files, and the bytes it sees may be damaged.           *)
(***************************************************************************)
EXTENDS Merge, VerifyChain

CONSTANTS
    Proc,         \* processes on each device's vault file
    Idle,         \* a process that is not between the two halves of an ingest
    KeepLast,     \* values of prune's keep_last
    Expiring,     \* items whose trash retention runs out within the run
    Trusting,     \* devices trusted from the start, as <<by, peer>> pairs
    MaxSeq,       \* bound: operations each device authors
    MaxDamage     \* bound: segment files the channel damages

ASSUME BoundsAssumption ==
    /\ MaxSeq \in [Device -> Nat]
    /\ MaxDamage \in Nat
    /\ KeepLast \subseteq Nat
    /\ Expiring \subseteq Item
    /\ Trusting \subseteq Device \X Device

VARIABLES
    log,          \* log[d]: the ops table of device d
    rows,         \* rows[d][i]: the items, item_versions and tombstones rows
    pinned,       \* pinned[d]: the peer_devices table
    channel,      \* the segment files of the sync directory
    pend          \* pend[d][p]: what an unfinished ingest has read and merged

vars == <<log, rows, pinned, channel, pend>>

-----------------------------------------------------------------------------

Segment == [author : Device, hi : Nat, ops : SUBSET Op]

VersionRow == [version : Nat, op : OpId]

Row == [cur : Nat, ver : SUBSET VersionRow, tomb : OpId \cup {NoTomb}]

\* The SELECT that finds no item row is told apart from every row.
ASSUME RowAssumption == NoRow \notin Row

Ingest == [base : SUBSET Op, accepted : SUBSET Op]

TypeOK ==
    /\ log \in [Device -> SUBSET Op]
    /\ rows \in [Device -> [Item -> Row \cup {NoRow}]]
    /\ pinned \in [Device -> SUBSET Device]
    /\ channel \subseteq Segment
    /\ pend \in [Device -> [Proc -> Ingest \cup {Idle}]]

Init ==
    /\ log = [d \in Device |-> {}]
    /\ rows = [d \in Device |-> [i \in Item |-> NoRow]]
    /\ pinned = [d \in Device |-> {e \in Device : <<d, e>> \in Trusting}]
    /\ channel = {}
    /\ pend = [d \in Device |-> [p \in Proc |-> Idle]]

-----------------------------------------------------------------------------
(* Local item operations: vault.rs.                                         *)

\* Author one operation over item i and write the item's rows with it.
Author(d, kind, i, row) ==
    /\ HeadSeq(log[d], d) < MaxSeq[d]
    /\ log' = [log EXCEPT ![d] = @ \cup {NextOp(log[d], d, kind, i)}]
    /\ rows' = [rows EXCEPT ![d][i] = row]
    /\ UNCHANGED <<pinned, channel, pend>>

NewVersion(d, kind, i, version) ==
    [version |-> version, op |-> NextOp(log[d], d, kind, i).id]

\* Item ids are fresh: no device has an operation about a new item.
CreateItem(d, p, i) ==
    /\ pend[d][p] = Idle
    /\ \A e \in Device : \A o \in log[e] : o.item # i
    /\ Author(d, "create", i,
              [cur |-> 1, ver |-> {NewVersion(d, "create", i, 1)}, tomb |-> NoTomb])

UpdateItem(d, p, i) ==
    LET row == rows[d][i]
    IN  /\ pend[d][p] = Idle
        /\ row # NoRow
        /\ row.tomb = NoTomb
        /\ Author(d, "update", i,
                  [cur  |-> row.cur + 1,
                   ver  |-> row.ver \cup {NewVersion(d, "update", i, row.cur + 1)},
                   tomb |-> NoTomb])

DeleteItem(d, p, i) ==
    LET row == rows[d][i]
    IN  /\ pend[d][p] = Idle
        /\ row # NoRow
        /\ row.tomb = NoTomb
        /\ Author(d, "delete", i,
                  [row EXCEPT !.tomb = NextOp(log[d], d, "delete", i).id])

RowVersions(d, i) == IF rows[d][i] = NoRow THEN {} ELSE rows[d][i].ver

\* The target version's body becomes a new version; a tombstone is dropped.
RestoreVersion(d, p, i, target) ==
    LET row == rows[d][i]
    IN  /\ pend[d][p] = Idle
        /\ row # NoRow
        /\ \E r \in row.ver : r.version = target
        /\ Author(d, "restore", i,
                  [cur  |-> row.cur + 1,
                   ver  |-> row.ver \cup {NewVersion(d, "restore", i, row.cur + 1)},
                   tomb |-> NoTomb])

UntrashItem(d, p, i) ==
    /\ rows[d][i] # NoRow
    /\ rows[d][i].tomb # NoTomb
    /\ RestoreVersion(d, p, i, rows[d][i].cur)

\* Mutant of PurgeExpiredTrash: the age is checked, the tombstone is not.
PurgeExpired(d, p) ==
    /\ pend[d][p] = Idle
    /\ rows' = [rows EXCEPT ![d] =
                  [i \in Item |-> IF i \in Expiring THEN NoRow ELSE rows[d][i]]]
    /\ UNCHANGED <<log, pinned, channel, pend>>

\* Shred trash past its retention time.
PurgeExpiredTrash(d, p) ==
    /\ pend[d][p] = Idle
    /\ \E X \in SUBSET {i \in Expiring : rows[d][i] # NoRow} :
          /\ X # {}
          /\ \A i \in X : rows[d][i].tomb # NoTomb
          /\ rows' = [rows EXCEPT ![d] =
                        [i \in Item |-> IF i \in X THEN NoRow ELSE rows[d][i]]]
    /\ UNCHANGED <<log, pinned, channel, pend>>

\* Mutant of Prunable: the current version is one of those to count.
PrunableCurrent(row, keep) ==
    {r \in row.ver : Cardinality({q \in row.ver : q.version > r.version}) >= keep}

\* Never the current version, and not the newest keep_last of the others.
Prunable(row, keep) ==
    {r \in row.ver :
        /\ r.version # row.cur
        /\ Cardinality({q \in row.ver : q.version # row.cur
                                        /\ q.version > r.version}) >= keep}

\* The age cutoff spares any of the prunable versions: young are the
\* operations whose version row it calls too new.
Pruned(row, keep, young) ==
    IF row = NoRow
    THEN NoRow
    ELSE [cur  |-> row.cur,
          ver  |-> row.ver \ {r \in Prunable(row, keep) : r.op \notin young},
          tomb |-> row.tomb]

PruneVersions(d, p) ==
    /\ pend[d][p] = Idle
    /\ \E keep \in KeepLast, young \in SUBSET {o.id : o \in log[d]} :
          rows' = [rows EXCEPT ![d] =
                     [i \in Item |-> Pruned(rows[d][i], keep, young)]]
    /\ UNCHANGED <<log, pinned, channel, pend>>

-----------------------------------------------------------------------------
(* Trust and the file channel: account.rs, engine.rs, shipping.rs.          *)

TrustPeerDevice(d, e) ==
    /\ pinned' = [pinned EXCEPT ![d] = @ \cup {e}]
    /\ UNCHANGED <<log, rows, channel, pend>>

\* Mutant of Push: any file of the author counts as already published.
PushOnce(d, p) ==
    /\ pend[d][p] = Idle
    /\ channel' = channel \cup
          {[author |-> a, hi |-> HeadSeq(log[d], a), ops |-> OpsBy(log[d], a)] :
              a \in {b \in Device : /\ OpsBy(log[d], b) # {}
                                    /\ \A s \in channel : s.author # b}}
    /\ UNCHANGED <<log, rows, pinned, pend>>

\* One segment [1, last] for every author the log holds, peers included; a
\* file that is already there under that name is never rewritten.
Push(d, p) ==
    LET published(a) == [author |-> a, hi |-> HeadSeq(log[d], a), ops |-> OpsBy(log[d], a)]
        authors == {a \in Device : OpsBy(log[d], a) # {}}
    IN  /\ pend[d][p] = Idle
        /\ channel' = channel \cup
              {published(a) : a \in {b \in authors :
                  \A s \in channel : s.author = b => s.hi # HeadSeq(log[d], b)}}
        /\ UNCHANGED <<log, rows, pinned, pend>>

\* The channel's replicator damages one operation in one file.
DamageSegment ==
    /\ Cardinality({s \in channel : \E o \in s.ops : ~o.sig}) < MaxDamage
    /\ \E s \in channel : \E o \in s.ops :
       \E bad \in {[o EXCEPT !.sig = FALSE],
                   [o EXCEPT !.sig = FALSE, !.id = <<o.dev, -o.seq>>]} :
          /\ \A q \in s.ops : q.sig
          /\ channel' = (channel \ {s}) \cup {[s EXCEPT !.ops = (@ \ {o}) \cup {bad}]}
    /\ UNCHANGED <<log, rows, pinned, pend>>

\* What a pull may read: every author's files up to some size have arrived.
\* The device's own operations are dropped.
Batches(d) ==
    {UNION {s.ops : s \in {t \in channel : t.author # d /\ t.hi <= cut[t.author]}} :
        cut \in {c \in [Device -> 0 .. Max({MaxSeq[a] : a \in Device})] :
                    \A a \in Device : c[a] <= MaxSeq[a]}}

\* Mutant of VerifyBatch: the author need not be pinned.
VerifyBatchUnpinned(d, batch) ==
    LET authors == Device \ {d}
        run(a) == AcceptedRuns(log[d], a, OpsBy(batch, a))
    IN  {UNION {acc[a] : a \in authors} :
            acc \in {f \in [authors -> UNION {run(a) : a \in authors}] :
                        \A a \in authors : f[a] \in run(a)}}

\* verify_batch: an outcome for every pinned author, in any combination;
\* the operations of an author that is not pinned are rejected.
VerifyBatch(d, batch) ==
    LET authors == pinned[d] \ {d}
        run(a) == AcceptedRuns(log[d], a, OpsBy(batch, a))
    IN  {UNION {acc[a] : a \in authors} :
            acc \in {f \in [authors -> UNION {run(a) : a \in authors}] :
                        \A a \in authors : f[a] \in run(a)}}

\* ingest, up to the merge: verify against the log, read the log.
BeginIngest(d, p, batch) ==
    /\ pend[d][p] = Idle
    /\ \E acc \in VerifyBatch(d, batch) :
          /\ acc # {}
          /\ pend' = [pend EXCEPT ![d][p] = [base |-> log[d], accepted |-> acc]]
    /\ UNCHANGED <<log, rows, pinned, channel>>

\* apply_foreign_ops: record the operations not yet there, and rewrite the
\* rows of the items they touch with the merge of what BeginIngest read.
FinishIngest(d, p) ==
    LET g == pend[d][p]
        merged(i) == MaterializeItem(g.base \cup g.accepted, i)
    IN  /\ g # Idle
        /\ log' = [log EXCEPT ![d] =
                      @ \cup {o \in g.accepted : \A q \in log[d] : q.id # o.id}]
        /\ rows' = [rows EXCEPT ![d] =
                      [i \in Item |->
                         IF (\E o \in g.accepted : o.item = i) /\ merged(i) # NoRow
                         THEN merged(i)
                         ELSE rows[d][i]]]
        /\ pend' = [pend EXCEPT ![d][p] = Idle]
        /\ UNCHANGED <<pinned, channel>>

\* The process dies before the transaction commits.
CrashIngest(d, p) ==
    /\ pend[d][p] # Idle
    /\ pend' = [pend EXCEPT ![d][p] = Idle]
    /\ UNCHANGED <<log, rows, pinned, channel>>

-----------------------------------------------------------------------------

ItemStep(d, p) ==
    \E i \in Item :
        \/ CreateItem(d, p, i)
        \/ UpdateItem(d, p, i)
        \/ DeleteItem(d, p, i)
        \/ \E r \in RowVersions(d, i) : RestoreVersion(d, p, i, r.version)
        \/ UntrashItem(d, p, i)

ReclaimStep(d, p) == PurgeExpiredTrash(d, p) \/ PruneVersions(d, p)

SyncStep(d, p) ==
    \/ Push(d, p)
    \/ \E batch \in Batches(d) : BeginIngest(d, p, batch)
    \/ FinishIngest(d, p)
    \/ CrashIngest(d, p)

DeviceStep ==
    \/ \E d \in Device, p \in Proc :
          ItemStep(d, p) \/ ReclaimStep(d, p) \/ SyncStep(d, p)
    \/ \E d \in Device : \E e \in Device \ {d} : TrustPeerDevice(d, e)

Next == DeviceStep \/ DamageSegment

Spec == Init /\ [][Next]_vars

\* The channel damages nothing, and users keep syncing: every device pushes,
\* now and then pulls when the whole channel has arrived, and is not killed in
\* every single apply.
PullAll(d, p) == BeginIngest(d, p, UNION {s.ops : s \in channel})

Fairness ==
    \A d \in Device, p \in Proc :
        /\ WF_vars(Push(d, p))
        /\ SF_vars(PullAll(d, p))
        /\ SF_vars(FinishIngest(d, p))

FairSpec == Init /\ [][DeviceStep]_vars /\ Fairness

-----------------------------------------------------------------------------
(* Safety.                                                                  *)

\* What a device holds of an author is a gapless prefix of the author's own
\* chain, verbatim and from an author it trusts, whatever the channel
\* delivers, damages, duplicates or forwards (verify_device_run, ingest).
HeldChains ==
    \A d, a \in Device :
        LET held == OpsBy(log[d], a)
        IN  /\ held \subseteq log[a]
            /\ \A o, q \in held : o.seq = q.seq => o = q
            /\ {o.seq : o \in held} = 1 .. HeadSeq(log[d], a)
            /\ held # {} => a \in pinned[d] \cup {d}

\* Lamport times extend the causality the observed heads record, over all
\* devices: the last-writer-wins order can never rank an edit below one its
\* author had already seen (author_op, merge.rs order_key).
LamportExtendsCausality ==
    \A d, e \in Device : \A o \in log[d], q \in log[e] :
        HappensBefore(o, q) => o.lam < q.lam

\* The rows a device shows are the merge of the log it holds, for local
\* writes that touch one row at a time and for foreign applies that rewrite
\* them alike (sync-protocol.md invariant 7); pruning may have removed old
\* versions, purging may have removed a deleted item.
RowsMatchLog ==
    \A d \in Device : \A i \in Item :
        LET row == rows[d][i]
            merged == MaterializeItem(log[d], i)
        IN  \/ row = merged
            \/ /\ merged # NoRow
               /\ row = NoRow
               /\ merged.tomb # NoTomb
            \/ /\ merged # NoRow
               /\ row # NoRow
               /\ row.cur = merged.cur
               /\ row.tomb = merged.tomb
               /\ row.ver \subseteq merged.ver
               /\ \E r \in row.ver : r.version = row.cur

\* Two devices that hold the same operations show the same head, and the same
\* trash, for every item neither has purged (sync-protocol.md section 4).
Converged ==
    \A d, e \in Device : log[d] = log[e] =>
        \A i \in Item :
            LET x == rows[d][i]
                y == rows[e][i]
                head(r) == {v \in r.ver : v.version = r.cur}
            IN  x # NoRow /\ y # NoRow => x.tomb = y.tomb /\ head(x) = head(y)

\* No step that adds operations to a log loses a version of an item the
\* device still shows: a conflict's loser stays in the history
\* (materialize_item, the forward restore of restore_version).
NothingDiscarded ==
    [][\A d \in Device : \A i \in Item :
          log'[d] # log[d] /\ rows[d][i] # NoRow =>
              {r.op : r \in rows[d][i].ver} \subseteq {r.op : r \in rows'[d][i].ver}]_vars

\* Replication implements its abstract specification: each step extends one
\* chain by one operation, or brings one device a longer prefix of chains
\* their authors have already signed.
Promise == INSTANCE ReplicatedOps
              WITH have <- [d \in Device |-> [a \in Device |-> HeadSeq(log[d], a)]]

ImplementsReplicatedOps == Promise!Spec

-----------------------------------------------------------------------------
(* A claim of the documentation that the code does not keep.                *)

\* Happens-before, followed through one more operation of the log.
Precedes(L, o, q) ==
    \/ HappensBefore(o, q)
    \/ \E r \in L : HappensBefore(o, r) /\ HappensBefore(r, q)

Trashed(d, i) == rows[d][i] = NoRow \/ rows[d][i].tomb # NoTomb

\* An update, then a causally later delete: the delete wins (merge.rs:62).
\* Causality is transitive; what the author of the delete saw counts, and
\* so does what the authors of what it saw had seen.
LaterDeleteWins ==
    \A d \in Device : \A i \in Item :
        LET S == Snapshots(log[d], i)
        IN  (S # {} /\ \E x \in Deletes(log[d], i) :
                         \A o \in S : Precedes(log[d], o, x)) => Trashed(d, i)

-----------------------------------------------------------------------------
(* Liveness.                                                                *)

\* Once nobody writes any more, every device ends up with every operation
\* of the vault, through crashes during apply (engine.rs push and pull).
EventuallySynced == <>[](\A d, e \in Device : log[d] = log[e])

=============================================================================
