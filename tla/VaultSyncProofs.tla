-------------------------- MODULE VaultSyncProofs --------------------------
(***************************************************************************)
(* VaultSync keeps its inductive invariant, and so, for any devices, items *)
(* and processes: the tables are well typed, a device holds of each author *)
(* a gapless, verbatim prefix of the chain, and Lamport times extend the   *)
(* causality the observed heads record.                                    *)
(***************************************************************************)
EXTENDS VaultSyncInv, MergeProofs

-----------------------------------------------------------------------------
(* Consequences of the invariant in one state.                              *)

\* Device ids name authors: an operation is determined by author and seq,
\* whoever holds it.
LEMMA SameSeqSameOp ==
    ASSUME IndInv, NEW d \in Device, NEW e \in Device,
           NEW o \in log[d], NEW q \in log[e], o.dev = q.dev, o.seq = q.seq
    PROVE  o = q
<1>1. o \in Op /\ q \in Op
  BY DEF IndInv, TypeOK
<1>2. o.dev \in Device
  BY <1>1 DEF Op
<1>3. o \in log[o.dev] /\ q \in log[o.dev]
  BY DEF IndInv, LogsAuthentic
<1>4. o \in OpsBy(log[o.dev], o.dev) /\ q \in OpsBy(log[o.dev], o.dev)
  BY <1>3 DEF OpsBy
<1> QED
  BY <1>2, <1>4 DEF IndInv, OneOpPerSeq

\* All the operations there are make a finite set.
LEMMA AllOpsFinite ==
    ASSUME IndInv, NEW X, \A o \in X : \E a \in Device : o \in log[a]
    PROVE  IsFiniteSet(X)
<1> DEFINE Q == {log[a] : a \in Device}
           f == [a \in Device |-> log[a]]
<1>1. f \in Surjection(Device, Q)
  BY Zenon DEF Surjection
<1>2. IsFiniteSet(Q)
  BY <1>1, DeviceAssumption, FS_Surjection, Zenon
<1>3. \A T \in Q : IsFiniteSet(T)
  BY DEF IndInv, LogsWellFormed
<1>4. IsFiniteSet(UNION Q)
  BY <1>2, <1>3, FS_UNION
<1>5. X \in SUBSET UNION Q
  OBVIOUS
<1> QED
  BY <1>4, <1>5, FS_Subset

\* A device holds what its own head, or any head it observes, counts.
LEMMA HeldUpToHead ==
    ASSUME IndInv, NEW d \in Device, NEW a \in Device,
           NEW s \in 1 .. HeadSeq(log[d], a)
    PROVE  \E q \in log[d] : q.dev = a /\ q.seq = s
<1>1. log[d] \in SUBSET Op /\ IsFiniteSet(log[d])
  BY DEF IndInv, TypeOK, LogsWellFormed
<1>2. /\ HeadSeq(log[d], a) \in Nat
      /\ HeadSeq(log[d], a) # 0 => \E o \in OpsBy(log[d], a) : o.seq = HeadSeq(log[d], a)
  BY <1>1, HeadSeqProperty
<1>3. PICK o \in OpsBy(log[d], a) : o.seq = HeadSeq(log[d], a)
  BY <1>2
<1>4. o \in log[d] /\ o.dev = a
  BY <1>3 DEF OpsBy
<1> QED
  BY <1>3, <1>4 DEF IndInv, LogsGapless, Covered

-----------------------------------------------------------------------------
(* One lemma per kind of step.                                              *)

\* A local write (author_op): the new operation extends the chain, and its
\* Lamport time is above all it observes.
LEMMA AuthorInv ==
    ASSUME IndInv, NEW d \in Device, NEW kind \in OpKind, NEW i \in Item,
           NEW row \in Row, Author(d, kind, i, row)
    PROVE  IndInv'
<1> DEFINE n == NextOp(log[d], d, kind, i)
           head == HeadSeq(log[d], d)
<1>1. log[d] \in SUBSET Op /\ IsFiniteSet(log[d])
  BY DEF IndInv, TypeOK, LogsWellFormed
<1>2. /\ n \in Op /\ n.dev = d /\ n.sig /\ n.seq = head + 1 /\ n.id = <<d, n.seq>>
      /\ \A o \in log[d] : o.lam < n.lam
      /\ \A a \in Device : n.obs[a] = HeadSeq(log[d], a)
  BY <1>1, NextOpProperty
<1>3. /\ log' = [log EXCEPT ![d] = @ \cup {n}]
      /\ rows' = [rows EXCEPT ![d][i] = row]
      /\ pinned' = pinned /\ channel' = channel /\ pend' = pend
  BY DEF Author
<1>4. log'[d] = log[d] \cup {n} /\ \A e \in Device : e # d => log'[e] = log[e]
  BY <1>3 DEF IndInv, TypeOK
<1>5. head \in Nat /\ \A o \in OpsBy(log[d], d) : o.seq <= head
  BY <1>1, HeadSeqProperty
<1> HIDE DEF n, head
<1>6. \A e \in Device : /\ log[e] \subseteq log'[e]
                        /\ \A o \in log'[e] : o \in log[e] \/ (e = d /\ o = n)
  BY <1>4
<1>7. ASSUME NEW e \in Device, NEW o \in log[e], o.dev = d
      PROVE  o \in log[d] /\ o.seq <= head /\ o.seq < n.seq
  <2>1. o \in log[d]
    BY <1>7 DEF IndInv, LogsAuthentic
  <2>2. o.seq <= head
    BY <2>1, <1>5, <1>7 DEF OpsBy
  <2>3. o.seq \in Nat
    BY <2>1, <1>1 DEF Op
  <2> QED
    BY <2>1, <2>2, <2>3, <1>2, <1>5
<1>8. \A e \in Device : \A o \in log[e] : o \in Op
  BY DEF IndInv, TypeOK
<1>9. TypeOK'
  <2>1. log' \in [Device -> SUBSET Op]
    BY <1>2, <1>3 DEF IndInv, TypeOK
  <2>2. rows' \in [Device -> [Item -> Row \cup {NoRow}]]
    BY <1>3 DEF IndInv, TypeOK
  <2> QED
    BY <2>1, <2>2, <1>3 DEF IndInv, TypeOK
<1>10. LogsWellFormed'
  <2>1. IsFiniteSet(log'[d])
    BY <1>1, <1>4, FS_AddElement
  <2>2. n.seq >= 1 /\ n.id = <<n.dev, n.seq>>
    BY <1>2, <1>5
  <2> QED
    BY <2>1, <2>2, <1>4, <1>6 DEF IndInv, LogsWellFormed
<1>11. LogsAuthentic'
  <2>1. ASSUME NEW e \in Device, NEW o \in log'[e] PROVE o \in log'[o.dev]
    <3>1. CASE o \in log[e]
      <4>1. o \in log[o.dev] /\ o.dev \in Device
        BY <3>1, <1>8 DEF IndInv, LogsAuthentic, Op
      <4> QED
        BY <4>1, <1>6
    <3>2. CASE o = n
      BY <3>2, <1>2, <1>4
    <3> QED
      BY <3>1, <3>2, <1>6
  <2> QED
    BY <2>1 DEF LogsAuthentic
<1>12. OneOpPerSeq'
  <2>1. ASSUME NEW a \in Device, NEW o \in OpsBy(log'[a], a), NEW q \in OpsBy(log'[a], a),
               o.seq = q.seq
        PROVE  o = q
    <3>1. o \in log'[a] /\ q \in log'[a] /\ o.dev = a /\ q.dev = a
      BY DEF OpsBy
    <3>2. CASE o \in log[a] /\ q \in log[a]
      BY <2>1, <3>1, <3>2 DEF IndInv, OneOpPerSeq, OpsBy
    <3>3. CASE a = d /\ o = n /\ q \in log[a]
      BY <3>1, <3>3, <2>1, <1>7, <1>2, <1>5, <1>8 DEF Op
    <3>4. CASE a = d /\ q = n /\ o \in log[a]
      BY <3>1, <3>4, <2>1, <1>7, <1>2, <1>5, <1>8 DEF Op
    <3> QED
      BY <3>1, <3>2, <3>3, <3>4, <1>6
  <2> QED
    BY <2>1 DEF OneOpPerSeq
<1>13. LogsGapless'
  <2>1. ASSUME NEW e \in Device, NEW o \in log'[e], NEW s \in 1 .. o.seq
        PROVE  \E q \in log'[e] : q.dev = o.dev /\ q.seq = s
    <3>1. CASE o \in log[e]
      BY <3>1, <1>6 DEF IndInv, LogsGapless, Covered
    <3>2. CASE e = d /\ o = n /\ s # n.seq
      <4>1. s \in 1 .. HeadSeq(log[d], d)
        BY <3>2, <1>2, <1>5 DEF head
      <4> QED
        BY <4>1, <3>2, <1>2, <1>6, HeldUpToHead
    <3>3. CASE e = d /\ o = n /\ s = n.seq
      BY <3>3, <1>4
    <3> QED
      BY <3>1, <3>2, <3>3, <1>6
  <2> QED
    BY <2>1 DEF LogsGapless, Covered
<1>14. LogsTrusted'
  BY <1>2, <1>3, <1>6 DEF IndInv, LogsTrusted
<1>15. ChannelAuthentic'
  <2>1. ASSUME NEW s \in channel, NEW o \in s.ops, o.sig PROVE o \in log'[o.dev]
    <3>1. o \in log[o.dev]
      BY <2>1 DEF IndInv, ChannelAuthentic
    <3>2. o \in Op
      BY DEF IndInv, TypeOK, Segment
    <3> QED
      BY <3>1, <3>2, <1>6 DEF Op
  <2> QED
    BY <2>1, <1>3 DEF ChannelAuthentic
<1>16. IngestsSound'
  <2>1. ASSUME NEW e \in Device, NEW p \in Proc, pend[e][p] # Idle
        PROVE  /\ pend[e][p].base \subseteq log'[e]
               /\ \A o \in pend[e][p].accepted :
                     /\ o \in log'[o.dev]
                     /\ o.dev \in pinned[e]
                     /\ Covered(log'[e] \cup pend[e][p].accepted, o)
    <3>1. /\ pend[e][p].base \subseteq log[e]
          /\ \A o \in pend[e][p].accepted :
                /\ o \in log[o.dev]
                /\ o.dev \in pinned[e]
                /\ Covered(log[e] \cup pend[e][p].accepted, o)
      BY <2>1 DEF IndInv, IngestsSound
    <3>2. \A o \in pend[e][p].accepted : o.dev \in Device
      BY <2>1 DEF IndInv, TypeOK, Ingest, Op
    <3> QED
      BY <3>1, <3>2, <1>6 DEF Covered
  <2> QED
    BY <2>1, <1>3 DEF IngestsSound
<1>17. ObservedSigned'
  <2>1. ASSUME NEW e \in Device, NEW a \in Device, NEW o \in log'[e], o.obs[a] >= 1
        PROVE  \E q \in OpsBy(log'[a], a) : q.seq = o.obs[a]
    <3>1. CASE o \in log[e]
      <4>1. PICK q \in OpsBy(log[a], a) : q.seq = o.obs[a]
        BY <2>1, <3>1 DEF IndInv, ObservedSigned
      <4> QED
        BY <4>1, <1>6 DEF OpsBy
    <3>2. CASE o = n
      <4>1. HeadSeq(log[d], a) \in Nat
        BY <1>1, HeadSeqProperty
      <4>2. o.obs[a] \in 1 .. HeadSeq(log[d], a)
        BY <4>1, <3>2, <2>1, <1>2
      <4>3. PICK q \in log[d] : q.dev = a /\ q.seq = o.obs[a]
        BY <4>2, HeldUpToHead
      <4>4. q \in log[a]
        BY <4>3 DEF IndInv, LogsAuthentic
      <4> QED
        BY <4>3, <4>4, <1>6 DEF OpsBy
    <3> QED
      BY <3>1, <3>2, <1>6
  <2> QED
    BY <2>1 DEF ObservedSigned
<1>18. LamportExtendsCausality'
  <2>1. ASSUME NEW e \in Device, NEW f \in Device, NEW o \in log'[e], NEW q \in log'[f],
               HappensBefore(o, q)
        PROVE  o.lam < q.lam
    <3>1. CASE o \in log[e] /\ q \in log[f]
      BY <2>1, <3>1 DEF IndInv, LamportExtendsCausality
    <3>2. CASE o \in log[e] /\ q = n
      <4>1. CASE o.dev = d
        BY <3>2, <4>1, <1>2, <1>7
      <4>2. CASE o.dev # d
        <5>1. o.dev \in Device /\ o.seq \in Nat /\ o.seq >= 1
          BY <3>2, <1>8 DEF Op, IndInv, LogsWellFormed
        <5>2. HeadSeq(log[d], o.dev) \in Nat /\ HeadSeq(log[d], o.dev) >= o.seq
          BY <5>1, <4>2, <3>2, <2>1, <1>1, <1>2, HeadSeqProperty DEF HappensBefore
        <5>3. PICK r \in log[d] : r.dev = o.dev /\ r.seq = o.seq
          BY <5>1, <5>2, HeldUpToHead
        <5>4. o = r
          BY <5>3, <3>2, SameSeqSameOp
        <5> QED
          BY <5>3, <5>4, <3>2, <1>2
      <4> QED
        BY <4>1, <4>2
    <3>3. CASE o = n /\ q \in log[f]
      <4>1. CASE q.dev = d
        BY <4>1, <3>3, <2>1, <1>2, <1>5, <1>7, <1>8 DEF HappensBefore, Op
      <4>2. CASE q.dev # d
        <5>1. q.obs[d] >= n.seq /\ q.obs[d] \in Nat
          BY <4>2, <3>3, <2>1, <1>2, <1>8 DEF HappensBefore, Op
        <5>2. PICK r \in OpsBy(log[d], d) : r.seq = q.obs[d]
          BY <5>1, <3>3, <1>2, <1>5 DEF IndInv, ObservedSigned
        <5>3. r.seq <= head
          BY <5>2, <1>5
        <5> QED
          BY <5>1, <5>2, <5>3, <1>2, <1>5
      <4> QED
        BY <4>1, <4>2
    <3>4. CASE o = n /\ q = n
      BY <3>4, <2>1, <1>2, <1>5 DEF HappensBefore
    <3> QED
      BY <3>1, <3>2, <3>3, <3>4, <1>6
  <2> QED
    BY <2>1 DEF LamportExtendsCausality
<1> QED
  BY <1>9, <1>10, <1>11, <1>12, <1>13, <1>14, <1>15, <1>16, <1>17, <1>18 DEF IndInv

\* Every item operation authors one operation and writes a well-typed row.
LEMMA ItemIsAuthor ==
    ASSUME IndInv, NEW d \in Device, NEW p \in Proc, ItemStep(d, p)
    PROVE  \E kind \in OpKind, i \in Item, row \in Row : Author(d, kind, i, row)
<1>1. PICK i \in Item :
        \/ CreateItem(d, p, i)
        \/ UpdateItem(d, p, i)
        \/ DeleteItem(d, p, i)
        \/ \E r \in RowVersions(d, i) : RestoreVersion(d, p, i, r.version)
        \/ UntrashItem(d, p, i)
  BY DEF ItemStep
<1>2. log[d] \in SUBSET Op /\ IsFiniteSet(log[d])
  BY DEF IndInv, TypeOK, LogsWellFormed
<1>3. \A kind \in OpKind : NextOp(log[d], d, kind, i).id \in OpId
  <2>1. \A kind \in OpKind : NextOp(log[d], d, kind, i) \in Op
    BY <1>2, NextOpProperty
  <2> QED
    BY <2>1 DEF Op
<1>4. \A kind \in OpKind, v \in Nat : NewVersion(d, kind, i, v) \in VersionRow
  BY <1>3 DEF NewVersion, VersionRow
<1>5. rows[d][i] # NoRow => rows[d][i] \in Row
  BY DEF IndInv, TypeOK
<1>6. {"create", "update", "restore", "delete"} \subseteq OpKind
  BY DEF OpKind, SnapshotKind
<1>7. CASE CreateItem(d, p, i)
  <2>1. [cur |-> 1, ver |-> {NewVersion(d, "create", i, 1)}, tomb |-> NoTomb] \in Row
    BY <1>4, <1>6 DEF Row
  <2> QED
    BY <2>1, <1>6, <1>7 DEF CreateItem
<1>8. CASE UpdateItem(d, p, i)
  <2> DEFINE row == rows[d][i]
             new == [cur  |-> row.cur + 1,
                     ver  |-> row.ver \cup {NewVersion(d, "update", i, row.cur + 1)},
                     tomb |-> NoTomb]
  <2>1. row \in Row
    BY <1>5, <1>8 DEF UpdateItem
  <2>2. NewVersion(d, "update", i, row.cur + 1) \in VersionRow
    BY <2>1, <1>4, <1>6 DEF Row
  <2>3. new \in Row
    BY <2>1, <2>2 DEF Row
  <2>4. Author(d, "update", i, new)
    BY <1>8 DEF UpdateItem
  <2> QED
    BY <2>3, <2>4, <1>6
<1>9. CASE DeleteItem(d, p, i)
  <2> DEFINE row == rows[d][i]
             new == [row EXCEPT !.tomb = NextOp(log[d], d, "delete", i).id]
  <2>1. row \in Row
    BY <1>5, <1>9 DEF DeleteItem
  <2>2. new \in Row
    BY <2>1, <1>3, <1>6 DEF Row
  <2>3. Author(d, "delete", i, new)
    BY <1>9 DEF DeleteItem
  <2> QED
    BY <2>2, <2>3, <1>6
<1>10. ASSUME NEW v, RestoreVersion(d, p, i, v)
       PROVE  \E kind \in OpKind, row \in Row : Author(d, kind, i, row)
  <2> DEFINE row == rows[d][i]
             new == [cur  |-> row.cur + 1,
                     ver  |-> row.ver \cup {NewVersion(d, "restore", i, row.cur + 1)},
                     tomb |-> NoTomb]
  <2>1. row \in Row
    BY <1>5, <1>10 DEF RestoreVersion
  <2>2. NewVersion(d, "restore", i, row.cur + 1) \in VersionRow
    BY <2>1, <1>4, <1>6 DEF Row
  <2>3. new \in Row
    BY <2>1, <2>2 DEF Row
  <2>4. Author(d, "restore", i, new)
    BY <1>10 DEF RestoreVersion
  <2> QED
    BY <2>3, <2>4, <1>6
<1> QED
  BY <1>1, <1>7, <1>8, <1>9, <1>10 DEF UntrashItem

\* A step that adds nothing to a log has to keep only the types, the channel
\* and the unfinished ingests.
LEMMA LogUnchangedInv ==
    ASSUME IndInv, log' = log, TypeOK', ChannelAuthentic', IngestsSound',
           \A d \in Device : pinned[d] \subseteq pinned'[d]
    PROVE  IndInv'
<1>1. LogsWellFormed' /\ LogsAuthentic' /\ OneOpPerSeq' /\ LogsGapless'
  BY DEF IndInv, LogsWellFormed, LogsAuthentic, OneOpPerSeq, LogsGapless
<1>2. LogsTrusted'
  BY DEF IndInv, LogsTrusted
<1>3. ObservedSigned' /\ LamportExtendsCausality'
  BY DEF IndInv, ObservedSigned, LamportExtendsCausality
<1> QED
  BY <1>1, <1>2, <1>3 DEF IndInv

\* Prune and purge change rows only.
LEMMA ReclaimInv ==
    ASSUME IndInv, NEW d \in Device, NEW p \in Proc, ReclaimStep(d, p)
    PROVE  IndInv'
<1>1. log' = log /\ pinned' = pinned /\ channel' = channel /\ pend' = pend
  BY DEF ReclaimStep, PurgeExpiredTrash, PruneVersions
<1>2. rows' \in [Device -> [Item -> Row \cup {NoRow}]]
  <2>1. CASE PurgeExpiredTrash(d, p)
    <3>1. PICK X : rows' = [rows EXCEPT ![d] =
                              [i \in Item |-> IF i \in X THEN NoRow ELSE rows[d][i]]]
      BY <2>1 DEF PurgeExpiredTrash
    <3> QED
      BY <3>1 DEF IndInv, TypeOK
  <2>2. CASE PruneVersions(d, p)
    <3>1. PICK keep \in KeepLast, young \in SUBSET {o.id : o \in log[d]} :
             rows' = [rows EXCEPT ![d] = [i \in Item |-> Pruned(rows[d][i], keep, young)]]
      BY <2>2 DEF PruneVersions
    <3>2. ASSUME NEW i \in Item PROVE Pruned(rows[d][i], keep, young) \in Row \cup {NoRow}
      <4>1. rows[d][i] \in Row \cup {NoRow}
        BY DEF IndInv, TypeOK
      <4> QED
        BY <4>1 DEF Row, Pruned
    <3> QED
      BY <3>1, <3>2 DEF IndInv, TypeOK
  <2> QED
    BY <2>1, <2>2 DEF ReclaimStep
<1>3. TypeOK'
  BY <1>1, <1>2 DEF IndInv, TypeOK
<1>4. ChannelAuthentic' /\ IngestsSound'
  BY <1>1 DEF IndInv, ChannelAuthentic, IngestsSound
<1> QED
  BY <1>1, <1>3, <1>4, LogUnchangedInv

\* Trust only grows.
LEMMA TrustInv ==
    ASSUME IndInv, NEW d \in Device, NEW e \in Device, TrustPeerDevice(d, e)
    PROVE  IndInv'
<1>1. /\ log' = log /\ rows' = rows /\ channel' = channel /\ pend' = pend
      /\ pinned' = [pinned EXCEPT ![d] = @ \cup {e}]
  BY DEF TrustPeerDevice
<1>2. TypeOK'
  BY <1>1 DEF IndInv, TypeOK
<1>3. \A f \in Device : pinned[f] \subseteq pinned'[f]
  BY <1>1 DEF IndInv, TypeOK
<1>4. ChannelAuthentic'
  BY <1>1 DEF IndInv, ChannelAuthentic
<1>5. IngestsSound'
  <2>1. ASSUME NEW f \in Device, NEW p \in Proc, pend[f][p] # Idle
        PROVE  /\ pend[f][p].base \subseteq log[f]
               /\ \A o \in pend[f][p].accepted :
                     /\ o \in log[o.dev]
                     /\ o.dev \in pinned'[f]
                     /\ Covered(log[f] \cup pend[f][p].accepted, o)
    BY <2>1, <1>3 DEF IndInv, IngestsSound
  <2> QED
    BY <2>1, <1>1 DEF IngestsSound
<1> QED
  BY <1>1, <1>2, <1>3, <1>4, <1>5, LogUnchangedInv

\* A push publishes what the device holds, which is authentic.
LEMMA PushInv ==
    ASSUME IndInv, NEW d \in Device, NEW p \in Proc, Push(d, p)
    PROVE  IndInv'
<1> DEFINE published(a) == [author |-> a, hi |-> HeadSeq(log[d], a), ops |-> OpsBy(log[d], a)]
<1>1. log' = log /\ rows' = rows /\ pinned' = pinned /\ pend' = pend
  BY DEF Push
<1>2. \A s \in channel' : s \in channel \/ \E a \in Device : s = published(a)
  BY DEF Push
<1>3. log[d] \in SUBSET Op /\ IsFiniteSet(log[d])
  BY DEF IndInv, TypeOK, LogsWellFormed
<1>4. ASSUME NEW a \in Device PROVE published(a) \in Segment
  <2>1. HeadSeq(log[d], a) \in Nat
    BY <1>3, HeadSeqProperty
  <2>2. OpsBy(log[d], a) \in SUBSET Op
    BY <1>3 DEF OpsBy
  <2> QED
    BY <2>1, <2>2 DEF Segment
<1>5. ASSUME NEW a \in Device, NEW o \in published(a).ops PROVE o \in log[o.dev]
  BY DEF IndInv, LogsAuthentic, OpsBy
<1> HIDE DEF published
<1>6. TypeOK'
  BY <1>1, <1>2, <1>4 DEF IndInv, TypeOK
<1>7. ChannelAuthentic'
  BY <1>1, <1>2, <1>5 DEF IndInv, ChannelAuthentic
<1>8. IngestsSound'
  BY <1>1 DEF IndInv, IngestsSound
<1> QED
  BY <1>1, <1>6, <1>7, <1>8, LogUnchangedInv

\* Damaged bytes no longer carry a good signature.
LEMMA DamageInv ==
    ASSUME IndInv, DamageSegment
    PROVE  IndInv'
<1>1. log' = log /\ rows' = rows /\ pinned' = pinned /\ pend' = pend
  BY DEF DamageSegment
<1>2. PICK s \in channel : \E o \in s.ops :
        \E bad \in {[o EXCEPT !.sig = FALSE],
                    [o EXCEPT !.sig = FALSE, !.id = <<o.dev, -o.seq>>]} :
           channel' = (channel \ {s}) \cup {[s EXCEPT !.ops = (@ \ {o}) \cup {bad}]}
  BY DEF DamageSegment
<1>3. PICK o \in s.ops :
        \E bad \in {[o EXCEPT !.sig = FALSE],
                    [o EXCEPT !.sig = FALSE, !.id = <<o.dev, -o.seq>>]} :
           channel' = (channel \ {s}) \cup {[s EXCEPT !.ops = (@ \ {o}) \cup {bad}]}
  BY <1>2
<1>4. PICK bad \in {[o EXCEPT !.sig = FALSE],
                     [o EXCEPT !.sig = FALSE, !.id = <<o.dev, -o.seq>>]} :
         channel' = (channel \ {s}) \cup {[s EXCEPT !.ops = (@ \ {o}) \cup {bad}]}
  BY <1>3
<1>5. s \in Segment /\ o \in Op
  BY DEF IndInv, TypeOK, Segment
<1>6. bad \in Op /\ ~bad.sig
  <2>1. <<o.dev, -o.seq>> \in OpId
    BY <1>5 DEF Op, OpId
  <2>2. [o EXCEPT !.sig = FALSE] \in Op /\ ~[o EXCEPT !.sig = FALSE].sig
    BY <1>5 DEF Op
  <2>3. /\ [o EXCEPT !.sig = FALSE, !.id = <<o.dev, -o.seq>>] \in Op
        /\ ~[o EXCEPT !.sig = FALSE, !.id = <<o.dev, -o.seq>>].sig
    BY <1>5, <2>1 DEF Op
  <2> QED
    BY <2>2, <2>3
<1> DEFINE t == [s EXCEPT !.ops = (@ \ {o}) \cup {bad}]
<1>7. t \in Segment /\ t.ops = (s.ops \ {o}) \cup {bad}
  BY <1>5, <1>6 DEF Segment
<1> HIDE DEF t
<1>8. channel' = (channel \ {s}) \cup {t}
  BY <1>4 DEF t
<1>9. TypeOK'
  BY <1>1, <1>7, <1>8 DEF IndInv, TypeOK
<1>10. ChannelAuthentic'
  BY <1>1, <1>6, <1>7, <1>8 DEF IndInv, ChannelAuthentic
<1>11. IngestsSound'
  BY <1>1 DEF IndInv, IngestsSound
<1> QED
  BY <1>1, <1>9, <1>10, <1>11, LogUnchangedInv

\* What verify_batch accepts: signed operations of pinned peers, each with
\* the chain below it held or accepted too.
LEMMA VerifiedSound ==
    ASSUME IndInv, NEW d \in Device, NEW batch \in SUBSET Op,
           \A o \in batch : o.sig => o \in log[o.dev],
           NEW acc \in VerifyBatch(d, batch)
    PROVE  /\ acc \in SUBSET Op
           /\ \A o \in acc : /\ o \in log[o.dev]
                             /\ o.dev \in pinned[d]
                             /\ Covered(log[d] \cup acc, o)
<1> DEFINE authors == pinned[d] \ {d}
           run(a) == AcceptedRuns(log[d], a, OpsBy(batch, a))
<1>1. PICK f \in [authors -> UNION {run(a) : a \in authors}] :
         /\ \A a \in authors : f[a] \in run(a)
         /\ acc = UNION {f[a] : a \in authors}
  BY Zenon DEF VerifyBatch
<1>2. authors \subseteq Device
  BY DEF IndInv, TypeOK
<1>3. log[d] \in SUBSET Op /\ IsFiniteSet(log[d])
  BY DEF IndInv, TypeOK, LogsWellFormed
<1>4. ASSUME NEW a \in authors, NEW o \in f[a]
      PROVE  o \in batch /\ o \in Op /\ o.dev = a /\ o \in log[a]
  <2>1. f[a] \in AcceptedRuns(log[d], a, OpsBy(batch, a))
    BY <1>1
  <2>2. f[a] \subseteq OpsBy(batch, a) /\ o.sig
    BY <2>1, AcceptedSigned
  <2> QED
    BY <2>2 DEF OpsBy
<1>5. ASSUME NEW a \in authors, NEW o \in f[a]
      PROVE  \A s \in 1 .. o.seq : \E q \in log[d] \cup f[a] : q.dev = a /\ q.seq = s
  <2>1. f[a] \in AcceptedRuns(log[d], a, OpsBy(batch, a))
    BY <1>1
  <2>2. f[a] \in SUBSET Op /\ \A q \in f[a] : q.dev = a
    BY <1>4
  <2>3. \A q \in f[a] : \E b \in Device : q \in log[b]
    BY <1>2, <1>4
  <2>4. IsFiniteSet(f[a])
    BY <2>3, AllOpsFinite
  <2>5. \A q \in OpsBy(log[d], a) : \A s \in 1 .. q.seq :
           \E r \in log[d] : r.dev = a /\ r.seq = s
    BY DEF IndInv, LogsGapless, Covered, OpsBy
  <2> QED
    BY <2>1, <2>2, <2>4, <2>5, <1>3, AcceptedGapless
<1>6. ASSUME NEW o \in acc
      PROVE  /\ o \in Op
             /\ o \in log[o.dev]
             /\ o.dev \in pinned[d]
             /\ Covered(log[d] \cup acc, o)
  <2>1. PICK a \in authors : o \in f[a]
    BY <1>1
  <2>2. o \in Op /\ o.dev = a /\ o \in log[a]
    BY <2>1, <1>4
  <2>3. f[a] \subseteq acc
    BY <1>1
  <2>4. Covered(log[d] \cup acc, o)
    BY <2>1, <2>2, <2>3, <1>5 DEF Covered
  <2> QED
    BY <2>2, <2>4
<1> QED
  BY <1>6

\* Reading the log and verifying leaves a sound unfinished ingest.
LEMMA BeginInv ==
    ASSUME IndInv, NEW d \in Device, NEW p \in Proc, NEW batch \in Batches(d),
           BeginIngest(d, p, batch)
    PROVE  IndInv'
<1>1. PICK acc \in VerifyBatch(d, batch) :
         pend' = [pend EXCEPT ![d][p] = [base |-> log[d], accepted |-> acc]]
  BY DEF BeginIngest
<1>2. log' = log /\ rows' = rows /\ pinned' = pinned /\ channel' = channel
  BY DEF BeginIngest
<1>3. \A o \in batch : \E s \in channel : o \in s.ops
  BY DEF Batches
<1>4. batch \in SUBSET Op /\ \A o \in batch : o.sig => o \in log[o.dev]
  BY <1>3 DEF IndInv, TypeOK, Segment, ChannelAuthentic
<1>5. /\ acc \in SUBSET Op
      /\ \A o \in acc : /\ o \in log[o.dev]
                        /\ o.dev \in pinned[d]
                        /\ Covered(log[d] \cup acc, o)
  BY <1>4, VerifiedSound
<1> DEFINE g == [base |-> log[d], accepted |-> acc]
<1>6. g \in Ingest /\ g.base = log[d] /\ g.accepted = acc
  BY <1>5 DEF IndInv, TypeOK, Ingest
<1> HIDE DEF g
<1>7. pend' = [pend EXCEPT ![d][p] = g]
  BY <1>1 DEF g
<1>8. TypeOK'
  BY <1>2, <1>6, <1>7 DEF IndInv, TypeOK
<1>9. \A e \in Device, r \in Proc :
         (pend'[e][r] = g /\ e = d) \/ pend'[e][r] = pend[e][r]
  BY <1>7 DEF IndInv, TypeOK
<1>10. IngestsSound'
  <2>1. ASSUME NEW e \in Device, NEW r \in Proc, pend'[e][r] # Idle
        PROVE  /\ pend'[e][r].base \subseteq log[e]
               /\ \A o \in pend'[e][r].accepted :
                     /\ o \in log[o.dev]
                     /\ o.dev \in pinned[e]
                     /\ Covered(log[e] \cup pend'[e][r].accepted, o)
    <3>1. CASE pend'[e][r] = g /\ e = d
      BY <3>1, <1>5, <1>6
    <3>2. CASE pend'[e][r] = pend[e][r]
      BY <2>1, <3>2 DEF IndInv, IngestsSound
    <3> QED
      BY <3>1, <3>2, <1>9
  <2> QED
    BY <2>1, <1>2 DEF IngestsSound
<1>11. ChannelAuthentic'
  BY <1>2 DEF IndInv, ChannelAuthentic
<1> QED
  BY <1>2, <1>8, <1>10, <1>11, LogUnchangedInv

\* A crash forgets the unfinished ingest.
LEMMA CrashInv ==
    ASSUME IndInv, NEW d \in Device, NEW p \in Proc, CrashIngest(d, p)
    PROVE  IndInv'
<1>1. /\ log' = log /\ rows' = rows /\ pinned' = pinned /\ channel' = channel
      /\ pend' = [pend EXCEPT ![d][p] = Idle]
  BY DEF CrashIngest
<1>2. TypeOK'
  BY <1>1 DEF IndInv, TypeOK
<1>3. \A e \in Device, r \in Proc : pend'[e][r] = Idle \/ pend'[e][r] = pend[e][r]
  BY <1>1 DEF IndInv, TypeOK
<1>4. IngestsSound'
  BY <1>1, <1>3 DEF IndInv, IngestsSound
<1>5. ChannelAuthentic'
  BY <1>1 DEF IndInv, ChannelAuthentic
<1> QED
  BY <1>1, <1>2, <1>4, <1>5, LogUnchangedInv

\* The apply records everything accepted: an id already there names the same
\* operation.
LEMMA FinishLog ==
    ASSUME IndInv, NEW d \in Device, NEW p \in Proc, FinishIngest(d, p)
    PROVE  /\ log'[d] = log[d] \cup pend[d][p].accepted
           /\ \A e \in Device : e # d => log'[e] = log[e]
<1> DEFINE g == pend[d][p]
<1>1. g \in Ingest /\ g # Idle
  BY DEF IndInv, TypeOK, FinishIngest
<1>2. \A o \in g.accepted : o \in Op /\ o.dev \in Device /\ o \in log[o.dev]
  BY <1>1 DEF IndInv, IngestsSound, Ingest, Op
<1>3. log' = [log EXCEPT ![d] =
                 @ \cup {o \in g.accepted : \A q \in log[d] : q.id # o.id}]
  BY DEF FinishIngest
<1> HIDE DEF g
<1>4. ASSUME NEW o \in g.accepted, NEW q \in log[d], q.id = o.id
      PROVE  o = q
  <2>1. o.id = <<o.dev, o.seq>> /\ q.id = <<q.dev, q.seq>>
    BY <1>2 DEF IndInv, LogsWellFormed
  <2> QED
    BY <2>1, <1>2, <1>4, SameSeqSameOp
<1>5. log'[d] = log[d] \cup {o \in g.accepted : \A q \in log[d] : q.id # o.id}
  BY <1>3 DEF IndInv, TypeOK
<1>6. \A o \in g.accepted : o \in log[d] \/ \A q \in log[d] : q.id # o.id
  BY <1>4
<1>7. log'[d] = log[d] \cup g.accepted
  BY <1>5, <1>6
<1> QED
  BY <1>3, <1>7 DEF g, IndInv, TypeOK

\* The apply: what was accepted joins the log, whatever happened to the log
\* since it was read, and the merge writes well-typed rows.
LEMMA FinishInv ==
    ASSUME IndInv, NEW d \in Device, NEW p \in Proc, FinishIngest(d, p)
    PROVE  IndInv'
<1> DEFINE g == pend[d][p]
           M == g.base \cup g.accepted
<1>1. g \in Ingest /\ g # Idle
  BY DEF IndInv, TypeOK, FinishIngest
<1>2. /\ g.base \subseteq log[d]
      /\ \A o \in g.accepted : /\ o \in log[o.dev]
                               /\ o.dev \in pinned[d]
                               /\ Covered(log[d] \cup g.accepted, o)
  BY <1>1 DEF IndInv, IngestsSound
<1>3. g.base \in SUBSET Op /\ g.accepted \in SUBSET Op
  BY <1>1 DEF Ingest
<1>4. /\ log' = [log EXCEPT ![d] =
                    @ \cup {o \in g.accepted : \A q \in log[d] : q.id # o.id}]
      /\ rows' = [rows EXCEPT ![d] =
                     [i \in Item |->
                        IF (\E o \in g.accepted : o.item = i) /\ MaterializeItem(M, i) # NoRow
                        THEN MaterializeItem(M, i)
                        ELSE rows[d][i]]]
      /\ pend' = [pend EXCEPT ![d][p] = Idle]
      /\ pinned' = pinned /\ channel' = channel
  BY Zenon DEF FinishIngest
<1> HIDE DEF g
<1>5. \A o \in g.accepted : o \in Op /\ o.dev \in Device
  BY <1>3 DEF Op
<1>7. log'[d] = log[d] \cup g.accepted /\ \A e \in Device : e # d => log'[e] = log[e]
  BY FinishLog DEF g
<1>8. \A e \in Device : log[e] \subseteq log'[e]
  BY <1>7
<1>9. ASSUME NEW e \in Device, NEW o \in log'[e]
      PROVE  o \in Op /\ o.dev \in Device /\ o \in log[o.dev]
  <2>1. CASE o \in log[e]
    BY <2>1 DEF IndInv, TypeOK, LogsAuthentic, Op
  <2>2. CASE o \in g.accepted
    BY <2>2, <1>2, <1>5
  <2> QED
    BY <2>1, <2>2, <1>7
<1>10. \A o \in M : o \in Op /\ o.dev \in Device /\ o \in log[o.dev]
  <2>1. M \subseteq log'[d]
    BY <1>2, <1>7
  <2> QED
    BY <2>1, <1>9
<1>11. TypeOK'
  <2>1. log' \in [Device -> SUBSET Op]
    BY <1>3, <1>4 DEF IndInv, TypeOK
  <2>2. IsFiniteSet(M)
    BY <1>10, AllOpsFinite
  <2>3. \A o, q \in M : o.dev = q.dev /\ o.seq = q.seq => o = q
    BY <1>10, SameSeqSameOp
  <2>4. M \in SUBSET Op
    BY <1>3
  <2>5. \A i \in Item : MaterializeItem(M, i) \in Row \cup {NoRow}
    BY <2>2, <2>3, <2>4, MaterializeItemType DEF Row, VersionRow
  <2> HIDE DEF M
  <2>6. rows' \in [Device -> [Item -> Row \cup {NoRow}]]
    BY <2>5, <1>4 DEF IndInv, TypeOK
  <2>7. pend' \in [Device -> [Proc -> Ingest \cup {Idle}]]
    BY <1>4 DEF IndInv, TypeOK
  <2> QED
    BY <2>1, <2>6, <2>7, <1>4 DEF IndInv, TypeOK
<1>12. LogsWellFormed'
  <2>1. \A o \in log'[d] : \E a \in Device : o \in log[a]
    BY <1>9
  <2>2. IsFiniteSet(log'[d])
    BY <2>1, AllOpsFinite
  <2>3. \A e \in Device : \A o \in log'[e] : o.seq >= 1 /\ o.id = <<o.dev, o.seq>>
    BY <1>9 DEF IndInv, LogsWellFormed
  <2> QED
    BY <2>2, <2>3, <1>7 DEF IndInv, LogsWellFormed
<1>13. LogsAuthentic'
  BY <1>8, <1>9 DEF LogsAuthentic
<1>14. OneOpPerSeq'
  <2>1. \A a \in Device : OpsBy(log'[a], a) \subseteq OpsBy(log[a], a)
    BY <1>9 DEF OpsBy
  <2> QED
    BY <2>1 DEF IndInv, OneOpPerSeq
<1>15. LogsGapless'
  <2>1. ASSUME NEW e \in Device, NEW o \in log'[e] PROVE Covered(log'[e], o)
    <3>1. CASE o \in log[e]
      BY <3>1, <1>8 DEF IndInv, LogsGapless, Covered
    <3>2. CASE e = d /\ o \in g.accepted
      BY <3>2, <1>2, <1>7
    <3> QED
      BY <3>1, <3>2, <1>7
  <2> QED
    BY <2>1 DEF LogsGapless
<1>16. LogsTrusted'
  BY <1>2, <1>4, <1>7 DEF IndInv, LogsTrusted
<1>17. ChannelAuthentic'
  <2>1. ASSUME NEW s \in channel, NEW o \in s.ops, o.sig PROVE o \in log'[o.dev]
    <3>1. o \in log[o.dev]
      BY <2>1 DEF IndInv, ChannelAuthentic
    <3>2. o.dev \in Device
      BY DEF IndInv, TypeOK, Segment, Op
    <3> QED
      BY <3>1, <3>2, <1>8
  <2> QED
    BY <2>1, <1>4 DEF ChannelAuthentic
<1>18. IngestsSound'
  <2>1. \A e \in Device, r \in Proc : pend'[e][r] = Idle \/ pend'[e][r] = pend[e][r]
    BY <1>4 DEF IndInv, TypeOK
  <2>2. ASSUME NEW e \in Device, NEW r \in Proc, pend[e][r] # Idle
        PROVE  /\ pend[e][r].base \subseteq log'[e]
               /\ \A o \in pend[e][r].accepted :
                     /\ o \in log'[o.dev]
                     /\ o.dev \in pinned[e]
                     /\ Covered(log'[e] \cup pend[e][r].accepted, o)
    <3>1. /\ pend[e][r].base \subseteq log[e]
          /\ \A o \in pend[e][r].accepted :
                /\ o \in log[o.dev]
                /\ o.dev \in pinned[e]
                /\ Covered(log[e] \cup pend[e][r].accepted, o)
      BY <2>2 DEF IndInv, IngestsSound
    <3>2. \A o \in pend[e][r].accepted : o.dev \in Device
      BY <2>2 DEF IndInv, TypeOK, Ingest, Op
    <3> QED
      BY <3>1, <3>2, <1>8 DEF Covered
  <2> QED
    BY <2>1, <2>2, <1>4 DEF IngestsSound
<1>19. ObservedSigned'
  <2>1. ASSUME NEW e \in Device, NEW a \in Device, NEW o \in log'[e], o.obs[a] >= 1
        PROVE  \E q \in OpsBy(log'[a], a) : q.seq = o.obs[a]
    <3>1. PICK q \in OpsBy(log[a], a) : q.seq = o.obs[a]
      BY <2>1, <1>9 DEF IndInv, ObservedSigned
    <3> QED
      BY <3>1, <1>8 DEF OpsBy
  <2> QED
    BY <2>1 DEF ObservedSigned
<1>20. LamportExtendsCausality'
  BY <1>9 DEF IndInv, LamportExtendsCausality
<1> QED
  BY <1>11, <1>12, <1>13, <1>14, <1>15, <1>16, <1>17, <1>18, <1>19, <1>20 DEF IndInv

\* A fresh vault, with whatever trust it starts from, satisfies the invariant.
LEMMA InitInv == Init => IndInv
<1> SUFFICES ASSUME Init PROVE IndInv
  OBVIOUS
<1>1. TypeOK
  BY DEF Init, TypeOK
<1>2. \A d \in Device : log[d] = {}
  BY DEF Init
<1>3. LogsWellFormed
  BY <1>2, FS_EmptySet DEF LogsWellFormed
<1>4. LogsAuthentic /\ LogsGapless /\ LogsTrusted
  BY <1>2 DEF LogsAuthentic, LogsGapless, LogsTrusted
<1>5. OneOpPerSeq /\ ObservedSigned /\ LamportExtendsCausality
  BY <1>2 DEF OneOpPerSeq, ObservedSigned, LamportExtendsCausality, OpsBy
<1>6. ChannelAuthentic /\ IngestsSound
  BY DEF Init, ChannelAuthentic, IngestsSound
<1> QED
  BY <1>1, <1>3, <1>4, <1>5, <1>6 DEF IndInv

\* Every action keeps it, and so does a step that changes nothing.
LEMMA NextInv == IndInv /\ [Next]_vars => IndInv'
<1> SUFFICES ASSUME IndInv, [Next]_vars PROVE IndInv'
  OBVIOUS
<1>1. ASSUME NEW d \in Device, NEW p \in Proc, ItemStep(d, p) PROVE IndInv'
  BY <1>1, ItemIsAuthor, AuthorInv
<1>2. ASSUME NEW d \in Device, NEW p \in Proc, ReclaimStep(d, p) PROVE IndInv'
  BY <1>2, ReclaimInv
<1>3. ASSUME NEW d \in Device, NEW p \in Proc, SyncStep(d, p) PROVE IndInv'
  BY <1>3, PushInv, BeginInv, FinishInv, CrashInv DEF SyncStep
<1>4. ASSUME NEW d \in Device, NEW e \in Device, TrustPeerDevice(d, e) PROVE IndInv'
  BY <1>4, TrustInv
<1>5. CASE DamageSegment
  BY <1>5, DamageInv
<1>6. CASE UNCHANGED vars
  <2>1. log' = log /\ rows' = rows /\ pinned' = pinned /\ channel' = channel /\ pend' = pend
    BY <1>6 DEF vars
  <2>2. TypeOK' /\ ChannelAuthentic' /\ IngestsSound'
    BY <2>1 DEF IndInv, TypeOK, ChannelAuthentic, IngestsSound
  <2> QED
    BY <2>1, <2>2, LogUnchangedInv
<1> QED
  BY <1>1, <1>2, <1>3, <1>4, <1>5, <1>6 DEF Next, DeviceStep

-----------------------------------------------------------------------------

\* The inductive invariant holds in every reachable state, for any number of
\* devices, items and processes, and whatever the bounds.
THEOREM Invariance == Spec => []IndInv
<1>1. Init => IndInv
  BY InitInv
<1>2. IndInv /\ [Next]_vars => IndInv'
  BY NextInv
<1> QED
  BY <1>1, <1>2, PTL DEF Spec

\* The ops, items, item_versions, tombstones and peer_devices tables keep
\* their types; in particular the merge always yields a row.
THEOREM TypeCorrect == Spec => []TypeOK
<1>1. IndInv => TypeOK
  BY DEF IndInv
<1> QED
  BY <1>1, Invariance, PTL

\* Lamport times extend the causality the observed heads record (author_op).
THEOREM LamportOrder == Spec => []LamportExtendsCausality
<1>1. IndInv => LamportExtendsCausality
  BY DEF IndInv
<1> QED
  BY <1>1, Invariance, PTL

\* A device holds of each author a gapless, verbatim prefix of the author's
\* chain, and only of authors it trusts (verify_device_run, ingest), also
\* when several processes ingest on one vault file at the same time.
THEOREM ChainsHeld == Spec => []HeldChains
<1>1. IndInv => HeldChains
  <2> SUFFICES ASSUME IndInv, NEW d \in Device, NEW a \in Device
               PROVE  /\ OpsBy(log[d], a) \subseteq log[a]
                      /\ \A o, q \in OpsBy(log[d], a) : o.seq = q.seq => o = q
                      /\ {o.seq : o \in OpsBy(log[d], a)} = 1 .. HeadSeq(log[d], a)
                      /\ OpsBy(log[d], a) # {} => a \in pinned[d] \cup {d}
    BY DEF HeldChains
  <2>1. OpsBy(log[d], a) \subseteq log[a]
    BY DEF IndInv, LogsAuthentic, OpsBy
  <2>2. \A o, q \in OpsBy(log[d], a) : o.seq = q.seq => o = q
    BY SameSeqSameOp DEF OpsBy
  <2>3. {o.seq : o \in OpsBy(log[d], a)} = 1 .. HeadSeq(log[d], a)
    <3>1. log[d] \in SUBSET Op /\ IsFiniteSet(log[d])
      BY DEF IndInv, TypeOK, LogsWellFormed
    <3>2. /\ HeadSeq(log[d], a) \in Nat
          /\ \A o \in OpsBy(log[d], a) : o.seq <= HeadSeq(log[d], a)
      BY <3>1, HeadSeqProperty
    <3>3. \A o \in OpsBy(log[d], a) : o.seq \in Nat /\ o.seq >= 1
      BY <3>1 DEF IndInv, LogsWellFormed, OpsBy, Op
    <3>4. \A s \in 1 .. HeadSeq(log[d], a) : \E q \in OpsBy(log[d], a) : q.seq = s
      BY HeldUpToHead DEF OpsBy
    <3> QED
      BY <3>2, <3>3, <3>4
  <2>4. OpsBy(log[d], a) # {} => a \in pinned[d] \cup {d}
    BY DEF IndInv, LogsTrusted, OpsBy
  <2> QED
    BY <2>1, <2>2, <2>3, <2>4
<1> QED
  BY <1>1, Invariance, PTL

-----------------------------------------------------------------------------
(* Replication implements ReplicatedOps.                                    *)

\* A head counts the author's operations only.
LEMMA HeadSeqDepends ==
    ASSUME NEW L, NEW M, NEW a, OpsBy(L, a) = OpsBy(M, a)
    PROVE  HeadSeq(L, a) = HeadSeq(M, a)
BY DEF HeadSeq

\* Each local write is one Author step of the abstract specification.
LEMMA AuthorHeads ==
    ASSUME IndInv, NEW d \in Device, NEW kind \in OpKind, NEW i \in Item,
           NEW row, Author(d, kind, i, row)
    PROVE  /\ HeadSeq(log'[d], d) = HeadSeq(log[d], d) + 1
           /\ \A e, a \in Device : <<e, a>> # <<d, d>> =>
                  HeadSeq(log'[e], a) = HeadSeq(log[e], a)
<1> DEFINE n == NextOp(log[d], d, kind, i)
<1>1. log[d] \in SUBSET Op /\ IsFiniteSet(log[d])
  BY DEF IndInv, TypeOK, LogsWellFormed
<1>2. n \in Op /\ n.dev = d /\ n.seq = HeadSeq(log[d], d) + 1
  BY <1>1, NextOpProperty
<1>3. log'[d] = log[d] \cup {n} /\ \A e \in Device : e # d => log'[e] = log[e]
  BY DEF Author, IndInv, TypeOK
<1> HIDE DEF n
<1>4. \A a \in Device : a # d => OpsBy(log'[d], a) = OpsBy(log[d], a)
  BY <1>2, <1>3 DEF OpsBy
<1>5. \A e, a \in Device : <<e, a>> # <<d, d>> => HeadSeq(log'[e], a) = HeadSeq(log[e], a)
  <2>1. ASSUME NEW e \in Device, NEW a \in Device, <<e, a>> # <<d, d>>
        PROVE  HeadSeq(log'[e], a) = HeadSeq(log[e], a)
    <3>1. OpsBy(log'[e], a) = OpsBy(log[e], a)
      BY <2>1, <1>3, <1>4
    <3> QED
      BY <3>1, HeadSeqDepends
  <2> QED
    BY <2>1
<1>6. log'[d] \in SUBSET Op /\ IsFiniteSet(log'[d])
  BY <1>1, <1>2, <1>3, FS_AddElement
<1>7. /\ HeadSeq(log'[d], d) \in Nat
      /\ \A o \in OpsBy(log'[d], d) : o.seq <= HeadSeq(log'[d], d)
      /\ HeadSeq(log'[d], d) # 0 =>
            \E o \in OpsBy(log'[d], d) : o.seq = HeadSeq(log'[d], d)
  BY <1>6, HeadSeqProperty
<1>8. /\ HeadSeq(log[d], d) \in Nat
      /\ \A o \in OpsBy(log[d], d) : o.seq <= HeadSeq(log[d], d)
  BY <1>1, HeadSeqProperty
<1>9. \A o \in OpsBy(log'[d], d) : o = n \/ o \in OpsBy(log[d], d)
  BY <1>3 DEF OpsBy
<1>10. n \in OpsBy(log'[d], d)
  BY <1>2, <1>3 DEF OpsBy
<1>11. HeadSeq(log'[d], d) = HeadSeq(log[d], d) + 1
  BY <1>2, <1>7, <1>8, <1>9, <1>10
<1> QED
  BY <1>5, <1>11

\* The apply of an ingest is one Learn step.
LEMMA FinishHeads ==
    ASSUME IndInv, IndInv', NEW d \in Device, NEW p \in Proc, FinishIngest(d, p)
    PROVE  /\ \A e \in Device \ {d} : log'[e] = log[e]
           /\ HeadSeq(log'[d], d) = HeadSeq(log[d], d)
           /\ \A a \in Device : /\ HeadSeq(log[d], a) <= HeadSeq(log'[d], a)
                                /\ HeadSeq(log'[d], a) <= HeadSeq(log[a], a)
<1>1. PICK X \in SUBSET pend[d][p].accepted : log' = [log EXCEPT ![d] = @ \cup X]
  BY DEF FinishIngest
<1>2. log'[d] = log[d] \cup X /\ \A e \in Device \ {d} : log'[e] = log[e]
  BY <1>1 DEF IndInv, TypeOK
<1>3. \A o \in X : o \in log[o.dev]
  BY <1>1 DEF FinishIngest, IndInv, IngestsSound
<1>4. \A o \in log[d] : o \in log[o.dev]
  BY DEF IndInv, LogsAuthentic
<1>5. \A a \in Device : /\ OpsBy(log[d], a) \subseteq OpsBy(log'[d], a)
                        /\ OpsBy(log'[d], a) \subseteq OpsBy(log[a], a)
  BY <1>2, <1>3, <1>4 DEF OpsBy
<1>6. OpsBy(log'[d], d) = OpsBy(log[d], d)
  BY <1>5
<1>7. HeadSeq(log'[d], d) = HeadSeq(log[d], d)
  BY <1>6, HeadSeqDepends
<1>8. \A e \in Device : /\ log[e] \in SUBSET Op /\ IsFiniteSet(log[e])
                        /\ log'[e] \in SUBSET Op /\ IsFiniteSet(log'[e])
  BY DEF IndInv, TypeOK, LogsWellFormed
<1>9. ASSUME NEW L \in SUBSET Op, IsFiniteSet(L), NEW M \in SUBSET Op, IsFiniteSet(M),
             NEW a, OpsBy(L, a) \subseteq OpsBy(M, a)
      PROVE  HeadSeq(L, a) <= HeadSeq(M, a)
  <2>1. /\ HeadSeq(L, a) \in Nat
        /\ HeadSeq(L, a) # 0 => \E o \in OpsBy(L, a) : o.seq = HeadSeq(L, a)
    BY <1>9, HeadSeqProperty
  <2>2. HeadSeq(M, a) \in Nat /\ \A o \in OpsBy(M, a) : o.seq <= HeadSeq(M, a)
    BY <1>9, HeadSeqProperty
  <2> QED
    BY <2>1, <2>2, <1>9
<1>10. ASSUME NEW a \in Device
       PROVE  /\ HeadSeq(log[d], a) <= HeadSeq(log'[d], a)
              /\ HeadSeq(log'[d], a) <= HeadSeq(log[a], a)
  BY <1>5, <1>8, <1>9
<1> QED
  BY <1>2, <1>7, <1>10

\* The heads of VaultSync behave as the specification of ReplicatedOps says:
\* chains grow by one operation at their author, and every other device
\* learns prefixes of what has been signed, which never shrink.
THEOREM Replication == Spec => ImplementsReplicatedOps
<1> DEFINE heads == [d \in Device |-> [a \in Device |-> HeadSeq(log[d], a)]]
<1>1. Init => Promise!Init
  <2> SUFFICES ASSUME Init PROVE heads = [d \in Device |-> [a \in Device |-> 0]]
    BY DEF Promise!Init
  <2>1. ASSUME NEW d \in Device, NEW a \in Device PROVE HeadSeq(log[d], a) = 0
    <3>1. log[d] \in SUBSET Op /\ IsFiniteSet(log[d]) /\ OpsBy(log[d], a) = {}
      BY FS_EmptySet DEF Init, OpsBy
    <3> QED
      BY <3>1, HeadSeqProperty
  <2> QED
    BY <2>1
<1>2. IndInv /\ IndInv' /\ [Next]_vars => [Promise!Next]_heads
  <2> SUFFICES ASSUME IndInv, IndInv', [Next]_vars
               PROVE  Promise!Next \/ heads' = heads
    OBVIOUS
  <2>1. CASE log' = log
    BY <2>1
  <2>2. ASSUME NEW d \in Device, NEW p \in Proc, ItemStep(d, p) PROVE Promise!Next
    <3>1. PICK kind \in OpKind, i \in Item, row \in Row : Author(d, kind, i, row)
      BY <2>2, ItemIsAuthor
    <3>2. /\ HeadSeq(log'[d], d) = HeadSeq(log[d], d) + 1
          /\ \A e, a \in Device : <<e, a>> # <<d, d>> =>
                 HeadSeq(log'[e], a) = HeadSeq(log[e], a)
      BY <3>1, AuthorHeads
    <3>3. heads' = [heads EXCEPT ![d][d] = @ + 1]
      BY <3>2
    <3>4. Promise!Author(d)
      BY <3>3 DEF Promise!Author
    <3> QED
      BY <3>4 DEF Promise!Next
  <2>3. ASSUME NEW d \in Device, NEW p \in Proc, FinishIngest(d, p) PROVE Promise!Next
    <3>1. /\ \A e \in Device \ {d} : log'[e] = log[e]
          /\ HeadSeq(log'[d], d) = HeadSeq(log[d], d)
          /\ \A a \in Device : /\ HeadSeq(log[d], a) <= HeadSeq(log'[d], a)
                               /\ HeadSeq(log'[d], a) <= HeadSeq(log[a], a)
      BY <2>3, FinishHeads
    <3>2. \A e, a \in Device : HeadSeq(log'[e], a) \in Nat
      <4>1. \A e \in Device : log'[e] \in SUBSET Op /\ IsFiniteSet(log'[e])
        BY DEF IndInv, TypeOK, LogsWellFormed
      <4> QED
        BY <4>1, HeadSeqProperty
    <3>3. Promise!Learn(d)
      BY <3>1, <3>2 DEF Promise!Learn
    <3> QED
      BY <3>3 DEF Promise!Next
  <2>4. ASSUME NEW d \in Device, NEW p \in Proc, SyncStep(d, p), ~FinishIngest(d, p)
        PROVE  log' = log
    BY <2>4 DEF SyncStep, Push, BeginIngest, CrashIngest
  <2>5. ASSUME NEW d \in Device, NEW p \in Proc, ReclaimStep(d, p) PROVE log' = log
    BY <2>5 DEF ReclaimStep, PurgeExpiredTrash, PruneVersions
  <2>6. ASSUME NEW d \in Device, NEW e \in Device, TrustPeerDevice(d, e) PROVE log' = log
    BY <2>6 DEF TrustPeerDevice
  <2>7. CASE DamageSegment
    BY <2>7, <2>1 DEF DamageSegment
  <2>8. CASE UNCHANGED vars
    BY <2>8, <2>1 DEF vars
  <2> QED
    BY <2>1, <2>2, <2>3, <2>4, <2>5, <2>6, <2>7, <2>8 DEF Next, DeviceStep
<1> QED
  BY <1>1, <1>2, Invariance, PTL DEF Spec, ImplementsReplicatedOps, Promise!Spec

-----------------------------------------------------------------------------
(* What the verifier is given.                                              *)

\* An operation signed over the head of a chain makes one chain with it.
LEMMA LinkAdded ==
    ASSUME NEW L \in SUBSET Op, IsFiniteSet(L), NEW a, NEW n \in Op,
           OneChain(a, OpsBy(L, a)), n.sig, n.seq = HeadSeq(L, a) + 1,
           n.prev = HeadHash(L, a), \A o \in L : o.lam < n.lam
    PROVE  OneChain(a, OpsBy(L, a) \cup {n}) /\ n.prev[2]
<1> DEFINE C == OpsBy(L, a)
           head == HeadSeq(L, a)
<1>1. head \in Nat /\ n.seq \in Nat /\ n.lam \in Nat
  BY HeadSeqProperty DEF Op
<1>2. (\A o \in C : o.seq <= head) /\ (head # 0 => \E o \in C : o.seq = head)
  BY HeadSeqProperty
<1>3. \A o \in C : o \in L /\ o.seq \in Nat /\ o.lam \in Nat /\ o.lam < n.lam
  BY DEF OpsBy, Op
<1>4. \A o, q \in C : /\ o.sig /\ o.seq >= 1
                      /\ o.seq = q.seq => o = q
                      /\ o.seq = 1 => o.prev = Genesis(a)
                      /\ o.seq = q.seq + 1 => o.prev = ChainHash(q) /\ o.lam >= q.lam
  BY DEF OneChain
<1>5. CASE C = {}
  <2>1. head = 0 /\ n.seq = 1
    BY <1>1, <1>2, <1>5
  <2>2. n.prev = Genesis(a)
    BY <1>5 DEF HeadHash
  <2>3. OneChain(a, {n})
    BY <2>1, <2>2 DEF OneChain
  <2> QED
    BY <2>2, <2>3, <1>5 DEF Genesis
<1>6. CASE C # {}
  <2>1. head # 0
    BY <1>1, <1>2, <1>3, <1>4, <1>6
  <2>2. PICK h : h = CHOOSE o \in OpsBy(L, a) : o.seq = HeadSeq(L, a)
    OBVIOUS
  <2>3. h \in C /\ h.seq = head
    BY <2>1, <2>2, <1>2
  <2>4. n.prev = ChainHash(h)
    BY <2>2, <1>6 DEF HeadHash
  <2>5. n.prev[2]
    BY <2>3, <2>4, <1>4 DEF ChainHash
  <2> HIDE DEF C, head
  <2>6. \A q \in C : q.seq < n.seq /\ (n.seq = q.seq + 1 => q = h)
    BY <2>3, <1>1, <1>2, <1>3, <1>4 DEF head
  <2>7. n.seq > 1
    BY <2>1, <1>1 DEF head
  <2>8. ASSUME NEW o \in C \cup {n}, NEW q \in C \cup {n}
        PROVE  /\ o.sig /\ o.seq >= 1
               /\ o.seq = q.seq => o = q
               /\ o.seq = 1 => o.prev = Genesis(a)
               /\ o.seq = q.seq + 1 => o.prev = ChainHash(q) /\ o.lam >= q.lam
    <3>1. CASE o \in C /\ q \in C
      BY <3>1, <1>4
    <3>2. CASE o \in C /\ q = n
      BY <3>2, <2>6, <1>1, <1>3, <1>4
    <3>3. CASE o = n /\ q \in C
      BY <3>3, <2>4, <2>6, <2>7, <1>1, <1>3
    <3>4. CASE o = n /\ q = n
      BY <3>4, <2>7, <1>1
    <3> QED
      BY <3>1, <3>2, <3>3, <3>4
  <2> QED
    BY <2>5, <2>8 DEF OneChain, C
<1> QED
  BY <1>5, <1>6

\* A local write lengthens its author's chain; everything else leaves what
\* authors have signed as it is.
LEMMA LinksStep ==
    ASSUME IndInv, ChainsLinked, [Next]_vars
    PROVE  ChainsLinked'
<1>1. \A e \in Device : log[e] \in SUBSET Op /\ IsFiniteSet(log[e])
  BY DEF IndInv, TypeOK, LogsWellFormed
<1>2. ASSUME \A a \in Device : OpsBy(log'[a], a) = OpsBy(log[a], a) PROVE ChainsLinked'
  BY <1>2 DEF ChainsLinked
<1>3. ASSUME log' = log PROVE ChainsLinked'
  BY <1>3, <1>2
<1>4. ASSUME NEW d \in Device, NEW p \in Proc, ItemStep(d, p) PROVE ChainsLinked'
  <2>1. PICK kind \in OpKind, i \in Item, row \in Row : Author(d, kind, i, row)
    BY <1>4, ItemIsAuthor
  <2>2. PICK n : n = NextOp(log[d], d, kind, i)
    OBVIOUS
  <2>3. /\ n \in Op /\ n.dev = d /\ n.sig /\ n.seq = HeadSeq(log[d], d) + 1
        /\ \A o \in log[d] : o.lam < n.lam
    BY <2>2, <1>1, NextOpProperty
  <2>4. n.prev = HeadHash(log[d], d)
    BY <2>2 DEF NextOp
  <2>5. log'[d] = log[d] \cup {n} /\ \A e \in Device : e # d => log'[e] = log[e]
    BY <2>1, <2>2 DEF Author, IndInv, TypeOK
  <2>6. OpsBy(log'[d], d) = OpsBy(log[d], d) \cup {n}
    BY <2>3, <2>5 DEF OpsBy
  <2>7. OneChain(d, OpsBy(log[d], d)) /\ \A o \in OpsBy(log[d], d) : o.prev[2]
    BY DEF ChainsLinked
  <2>8. OneChain(d, OpsBy(log[d], d) \cup {n}) /\ n.prev[2]
    BY <2>3, <2>4, <2>7, <1>1, LinkAdded
  <2> QED
    BY <2>5, <2>6, <2>7, <2>8 DEF ChainsLinked
<1>5. ASSUME NEW d \in Device, NEW p \in Proc, FinishIngest(d, p) PROVE ChainsLinked'
  <2>1. pend[d][p] # Idle
    BY <1>5 DEF FinishIngest
  <2>2. \A o \in pend[d][p].accepted : o \in log[o.dev]
    BY <2>1 DEF IndInv, IngestsSound
  <2>3. /\ log'[d] = log[d] \cup pend[d][p].accepted
        /\ \A e \in Device : e # d => log'[e] = log[e]
    BY <1>5, FinishLog
  <2>4. OpsBy(log'[d], d) = OpsBy(log[d], d)
    BY <2>2, <2>3 DEF OpsBy
  <2> QED
    BY <2>3, <2>4, <1>2
<1>6. ASSUME NEW d \in Device, NEW p \in Proc, SyncStep(d, p), ~FinishIngest(d, p)
      PROVE  log' = log
  BY <1>6 DEF SyncStep, Push, BeginIngest, CrashIngest
<1>7. ASSUME NEW d \in Device, NEW p \in Proc, ReclaimStep(d, p) PROVE log' = log
  BY <1>7 DEF ReclaimStep, PurgeExpiredTrash, PruneVersions
<1>8. ASSUME NEW d \in Device, NEW e \in Device, TrustPeerDevice(d, e) PROVE log' = log
  BY <1>8 DEF TrustPeerDevice
<1>9. CASE DamageSegment \/ UNCHANGED vars
  BY <1>9, <1>3 DEF DamageSegment, vars
<1> QED
  BY <1>3, <1>4, <1>5, <1>6, <1>7, <1>8, <1>9 DEF Next, DeviceStep

\* What a pull hands to verify_batch is what the walk of verify_device_run
\* assumes (VerifyLoop): ids of good signatures are unique, and every signed
\* link is over a good one.  A run without a damaged copy is part of one
\* chain with what is held, so by NoFalseAlarm honest devices never
\* quarantine each other, whatever they write, forward and receive.
THEOREM RunsAreGenuine == Spec => []RunsAsAssumed
<1>1. Init => ChainsLinked
  BY DEF Init, ChainsLinked, OneChain, OpsBy
<1>2. IndInv /\ ChainsLinked /\ [Next]_vars => ChainsLinked'
  BY LinksStep
<1>3. IndInv /\ ChainsLinked /\ HeldChains => RunsAsAssumed
  <2> SUFFICES ASSUME IndInv, ChainsLinked, HeldChains, NEW d \in Device, NEW a \in Device,
                      NEW batch \in Batches(d)
               PROVE  LET mine == OpsBy(log[d], a)
                          run == OpsBy(batch, a)
                      IN  /\ \A o \in mine : o.sig
                          /\ {o.seq : o \in mine} = 1 .. HeadSeq(mine, a)
                          /\ Genuine(mine \cup run)
                          /\ (\A o \in run : o.sig) => OneChain(a, mine \cup run)
    BY DEF RunsAsAssumed
  <2> DEFINE mine == OpsBy(log[d], a)
             run == OpsBy(batch, a)
             C == OpsBy(log[a], a)
  <2>1. mine \subseteq C
    BY DEF IndInv, LogsAuthentic, OpsBy
  <2>2. \A o \in run : o.sig => o \in C
    <3>1. \A o \in batch : \E s \in channel : o \in s.ops
      BY DEF Batches
    <3> QED
      BY <3>1 DEF IndInv, ChannelAuthentic, OpsBy
  <2>3. OneChain(a, C) /\ \A o \in C : o.prev[2]
    BY DEF ChainsLinked
  <2>4. \A o \in C : o.id = <<a, o.seq>>
    BY DEF IndInv, LogsWellFormed, OpsBy
  <2>5. \A o \in mine : o.sig
    BY <2>1, <2>3 DEF OneChain
  <2>6. {o.seq : o \in mine} = 1 .. HeadSeq(mine, a)
    <3>1. OpsBy(mine, a) = OpsBy(log[d], a)
      BY DEF OpsBy
    <3>2. HeadSeq(mine, a) = HeadSeq(log[d], a)
      BY <3>1, HeadSeqDepends
    <3> QED
      BY <3>2 DEF HeldChains
  <2> HIDE DEF mine, run, C
  <2>7. Genuine(mine \cup run)
    <3>1. \A o, q \in C : o.id = q.id => o = q
      <4>1. \A o, q \in C : o.seq = q.seq => o = q
        BY <2>3 DEF OneChain
      <4> QED
        BY <4>1, <2>4
    <3> QED
      BY <3>1, <2>1, <2>2, <2>3 DEF Genuine
  <2>8. ASSUME \A o \in run : o.sig PROVE OneChain(a, mine \cup run)
    <3>1. mine \cup run \subseteq C
      BY <2>1, <2>2, <2>8
    <3> QED
      BY <3>1, <2>3 DEF OneChain
  <2> QED
    BY <2>5, <2>6, <2>7, <2>8 DEF mine, run
<1> QED
  BY <1>1, <1>2, <1>3, Invariance, ChainsHeld, PTL DEF Spec

-----------------------------------------------------------------------------
(* Rows and the merge: a vault file with one process on it.                 *)

\* A row depends on the item's own operations only.
LEMMA OtherItemsAgree ==
    ASSUME NEW L, NEW X, NEW i, NEW row,
           \A o \in X : o.item # i
    PROVE  RowAgrees(row, L \cup X, i) <=> RowAgrees(row, L, i)
<1>1. Snapshots(L \cup X, i) = Snapshots(L, i) /\ Deletes(L \cup X, i) = Deletes(L, i)
  BY DEF Snapshots, Deletes
<1> QED
  BY <1>1 DEF RowAgrees

\* Appending a version row for a snapshot above all others, one that has
\* observed every delete, is what the merge would do (create_item,
\* update_item and restore_version against materialize_item).
LEMMA SnapshotRowAgrees ==
    ASSUME NEW L \in SUBSET Op, IsFiniteSet(L), NEW n \in Op, NEW i,
           n.item = i, n.kind \in SnapshotKind,
           \A o \in L : o.lam < n.lam /\ HappensBefore(o, n),
           NEW cur, NEW ver,
           cur = Cardinality(Snapshots(L, i)),
           ver \subseteq Versions(Snapshots(L, i)),
           [cur  |-> cur + 1,
            ver  |-> ver \cup {[version |-> cur + 1, op |-> n.id]},
            tomb |-> NoTomb] # NoRow
    PROVE  RowAgrees([cur  |-> cur + 1,
                      ver  |-> ver \cup {[version |-> cur + 1, op |-> n.id]},
                      tomb |-> NoTomb],
                     L \cup {n}, i)
<1> DEFINE S == Snapshots(L, i)
           T == Snapshots(L \cup {n}, i)
           D == Deletes(L \cup {n}, i)
           new == [version |-> cur + 1, op |-> n.id]
           row == [cur |-> cur + 1, ver |-> ver \cup {new}, tomb |-> NoTomb]
<1>1. S \in SUBSET L
  BY DEF Snapshots
<1>2. S \in SUBSET Op /\ IsFiniteSet(S)
  BY <1>1, FS_Subset
<1>3. T = S \cup {n}
  BY DEF Snapshots
<1>4. D \in SUBSET L
  BY DEF Deletes, SnapshotKind
<1>5. ResolveTombstone(T, D) = NoTomb
  <2>1. n \in T /\ \A x \in D : HappensBefore(x, n)
    BY <1>3, <1>4
  <2> HIDE DEF T, D
  <2> QED
    BY <2>1, ObservedDeletesCleared
<1>6. \A s \in S : s.lam < n.lam
  BY <1>1
<1>7. /\ Cardinality(T) = cur + 1
      /\ Versions(T) = Versions(S) \cup {new}
  <2> HIDE DEF S, T
  <2>1. /\ Cardinality(S \cup {n}) = Cardinality(S) + 1
        /\ Versions(S \cup {n}) =
              Versions(S) \cup {[version |-> Cardinality(S) + 1, op |-> n.id]}
    BY <1>2, <1>6, AppendRank
  <2>2. cur = Cardinality(S)
    BY DEF S
  <2> QED
    BY <2>1, <2>2, <1>3
<1>8. ver \cup {new} \subseteq Versions(T)
  BY <1>7
<1>9. new.version = cur + 1 /\ new \in ver \cup {new}
  OBVIOUS
<1>10. row # NoRow /\ row.cur = cur + 1 /\ row.ver = ver \cup {new} /\ row.tomb = NoTomb
  OBVIOUS
<1> HIDE DEF row, new, S, T, D
<1>11. RowAgrees(row, L \cup {n}, i)
  BY <1>5, <1>7, <1>8, <1>9, <1>10 DEF RowAgrees, T, D
<1> QED
  BY <1>11 DEF row, new

\* Setting the tombstone to a delete that has observed every operation held
\* is what the merge would do (delete_item against resolve_tombstone).
LEMMA DeletedRowAgrees ==
    ASSUME NEW L \in SUBSET Op, IsFiniteSet(L), NEW n \in Op, NEW i,
           n.item = i, n.kind = "delete",
           \A o \in L : o.lam < n.lam /\ HappensBefore(o, n) /\ ~HappensBefore(n, o),
           NEW row \in Row, row # NoRow, RowAgrees(row, L, i),
           [row EXCEPT !.tomb = n.id] # NoRow
    PROVE  RowAgrees([row EXCEPT !.tomb = n.id], L \cup {n}, i)
<1> DEFINE S == Snapshots(L, i)
           D == Deletes(L \cup {n}, i)
           new == [row EXCEPT !.tomb = n.id]
<1>1. S \in SUBSET L
  BY DEF Snapshots
<1>2. Snapshots(L \cup {n}, i) = S
  BY DEF Snapshots, SnapshotKind
<1>3. D \in SUBSET (L \cup {n}) /\ n \in D
  BY DEF Deletes
<1>4. \A x \in D \ {n} : Below(x, n)
  BY <1>3 DEF Below
<1>5. D \in SUBSET Op /\ \A s \in S : HappensBefore(s, n) /\ ~HappensBefore(n, s)
  BY <1>1, <1>3
<1>6. ResolveTombstone(S, D) = n.id
  <2> HIDE DEF S, D
  <2> QED
    BY <1>3, <1>4, <1>5, LatestDeleteWins
<1>7. /\ row.cur = Cardinality(S)
      /\ row.ver \subseteq Versions(S)
      /\ \E r \in row.ver : r.version = row.cur
  BY DEF RowAgrees
<1>8. new.cur = row.cur /\ new.ver = row.ver /\ new.tomb = n.id /\ new # NoRow
  BY DEF Row
<1> HIDE DEF S, D, new
<1>9. RowAgrees(new, L \cup {n}, i)
  BY <1>2, <1>6, <1>7, <1>8 DEF RowAgrees, D
<1> QED
  BY <1>9 DEF new

\* What the merge computes agrees with the log it is computed from.
LEMMA MergedRowAgrees ==
    ASSUME NEW L \in SUBSET Op, IsFiniteSet(L), NEW i,
           \A o, q \in L : o.dev = q.dev /\ o.seq = q.seq => o = q
    PROVE  /\ Snapshots(L, i) # {} => /\ MaterializeItem(L, i) # NoRow
                                      /\ MaterializeItem(L, i).ver = Versions(Snapshots(L, i))
                                      /\ RowAgrees(MaterializeItem(L, i), L, i)
           /\ Snapshots(L, i) = {} => MaterializeItem(L, i) = NoRow
<1> DEFINE S == Snapshots(L, i)
           tomb == ResolveTombstone(S, Deletes(L, i))
           m == [cur |-> Cardinality(S), ver |-> Versions(S), tomb |-> tomb]
<1>1. CASE S = {}
  BY <1>1 DEF MaterializeItem
<1>2. CASE S # {}
  <2>1. S \in SUBSET L
    BY DEF Snapshots
  <2>2. S \in SUBSET Op /\ IsFiniteSet(S)
    BY <2>1, FS_Subset
  <2>3. MaterializeItem(L, i) = m
    BY <1>2 DEF MaterializeItem
  <2>4. \A o, q \in S : o.dev = q.dev /\ o.seq = q.seq => o = q
    BY <2>1
  <2>5. PICK s \in S : Rank(S, s) = Cardinality(S)
    <3> HIDE DEF S
    <3> QED
      BY <1>2, <2>2, <2>4, TopRank
  <2>6. \E r \in m.ver : r.version = m.cur
    <3>1. [version |-> Rank(S, s), op |-> s.id] \in Versions(S)
      BY DEF Versions
    <3> QED
      BY <3>1, <2>5
  <2>7. m # NoRow
    <3>1. MaterializeItem(L, i) \in Row
      BY <1>2, MaterializeItemType DEF Row, VersionRow
    <3> QED
      BY <3>1, <2>3, RowAssumption
  <2> QED
    BY <1>2, <2>3, <2>6, <2>7 DEF RowAgrees
<1> QED
  BY <1>1, <1>2

\* The operation author_op signs has observed all the log holds, and nothing
\* the log holds has observed it.
LEMMA NewOpSeesAll ==
    ASSUME IndInv, NEW d \in Device, NEW kind \in OpKind, NEW i \in Item
    PROVE  \A o \in log[d] : /\ o.lam < NextOp(log[d], d, kind, i).lam
                             /\ HappensBefore(o, NextOp(log[d], d, kind, i))
                             /\ ~HappensBefore(NextOp(log[d], d, kind, i), o)
<1> DEFINE n == NextOp(log[d], d, kind, i)
           head == HeadSeq(log[d], d)
<1>1. log[d] \in SUBSET Op /\ IsFiniteSet(log[d])
  BY DEF IndInv, TypeOK, LogsWellFormed
<1>2. /\ n.dev = d /\ n.seq = head + 1
      /\ \A o \in log[d] : o.lam < n.lam
      /\ \A a \in Device : n.obs[a] = HeadSeq(log[d], a)
  BY <1>1, NextOpProperty
<1>3. \A a \in Device : /\ HeadSeq(log[d], a) \in Nat
                         /\ \A o \in OpsBy(log[d], a) : o.seq <= HeadSeq(log[d], a)
  BY <1>1, HeadSeqProperty
<1> HIDE DEF n
<1>4. ASSUME NEW o \in log[d]
      PROVE  HappensBefore(o, n) /\ ~HappensBefore(n, o)
  <2>1. o.dev \in Device /\ o.seq \in Nat /\ o.obs \in [Device -> Nat]
    BY <1>1 DEF Op
  <2>2. o.seq <= HeadSeq(log[d], o.dev)
    BY <2>1, <1>3 DEF OpsBy
  <2>3. CASE o.dev = d
    BY <2>1, <2>2, <2>3, <1>2, <1>3 DEF HappensBefore
  <2>4. CASE o.dev # d
    <3>1. HappensBefore(o, n)
      BY <2>1, <2>2, <2>4, <1>2, <1>3 DEF HappensBefore
    <3>2. ASSUME o.obs[d] >= n.seq PROVE FALSE
      <4>1. o.obs[d] \in Nat /\ head \in Nat /\ o.obs[d] >= 1
        BY <3>2, <2>1, <1>2, <1>3
      <4>2. PICK q \in OpsBy(log[d], d) : q.seq = o.obs[d]
        BY <4>1 DEF IndInv, ObservedSigned
      <4>3. q.seq <= head
        BY <4>2, <1>3
      <4> QED
        BY <4>1, <4>2, <4>3, <3>2, <1>2
    <3> QED
      BY <3>1, <3>2, <2>4, <1>2 DEF HappensBefore
  <2> QED
    BY <2>3, <2>4
<1>5. \A o \in log[d] : o.lam < n.lam /\ HappensBefore(o, n) /\ ~HappensBefore(n, o)
  BY <1>2, <1>4
<1> QED
  BY <1>5 DEF n

\* Every item operation writes the row the merge would: a fresh item's first
\* version, one more version, or a tombstone.  No version is dropped.
LEMMA ItemWritesMerge ==
    ASSUME IndInv, RowsAgree, NEW d \in Device, NEW p \in Proc, ItemStep(d, p)
    PROVE  /\ pend[d][p] = Idle
           /\ \E kind \in OpKind, i \in Item, row \in Row :
                /\ Author(d, kind, i, row)
                /\ RowAgrees(row, log[d] \cup {NextOp(log[d], d, kind, i)}, i)
                /\ rows[d][i] # NoRow => rows[d][i].ver \subseteq row.ver
<1>1. PICK i \in Item :
        \/ CreateItem(d, p, i)
        \/ UpdateItem(d, p, i)
        \/ DeleteItem(d, p, i)
        \/ \E r \in RowVersions(d, i) : RestoreVersion(d, p, i, r.version)
        \/ UntrashItem(d, p, i)
  BY DEF ItemStep
<1> DEFINE S == Snapshots(log[d], i)
           n(kind) == NextOp(log[d], d, kind, i)
           old == rows[d][i]
           grown(kind, cur, ver) == [cur  |-> cur + 1,
                                     ver  |-> ver \cup {NewVersion(d, kind, i, cur + 1)},
                                     tomb |-> NoTomb]
<1>2. log[d] \in SUBSET Op /\ IsFiniteSet(log[d])
  BY DEF IndInv, TypeOK, LogsWellFormed
<1>3. \A kind \in OpKind : /\ n(kind) \in Op /\ n(kind).item = i /\ n(kind).kind = kind
                           /\ n(kind).id \in OpId
  <2>1. \A kind \in OpKind : n(kind) \in Op /\ n(kind).item = i /\ n(kind).kind = kind
    BY <1>2, NextOpProperty
  <2> QED
    BY <2>1 DEF Op
<1>4. {"create", "update", "restore", "delete"} \subseteq OpKind /\ SnapshotKind \subseteq OpKind
  BY DEF OpKind, SnapshotKind
<1>5. RowAgrees(old, log[d], i)
  BY DEF RowsAgree
<1>6. old # NoRow => /\ old \in Row
                     /\ old.cur = Cardinality(S)
                     /\ old.ver \subseteq Versions(S)
  BY <1>5 DEF IndInv, TypeOK, RowAgrees
<1>7. ASSUME NEW kind \in SnapshotKind, NEW cur \in Nat, NEW ver \in SUBSET VersionRow,
             cur = Cardinality(S), ver \subseteq Versions(S)
      PROVE  /\ grown(kind, cur, ver) \in Row
             /\ RowAgrees(grown(kind, cur, ver), log[d] \cup {n(kind)}, i)
  <2>1. n(kind) \in Op /\ n(kind).item = i /\ n(kind).kind = kind /\ n(kind).id \in OpId
    BY <1>3, <1>4
  <2>2. NewVersion(d, kind, i, cur + 1) = [version |-> cur + 1, op |-> n(kind).id]
    BY DEF NewVersion
  <2>3. NewVersion(d, kind, i, cur + 1) \in VersionRow
    BY <2>1, <2>2 DEF VersionRow
  <2>4. grown(kind, cur, ver) \in Row
    BY <2>3 DEF Row
  <2>5. grown(kind, cur, ver) # NoRow
    BY <2>4, RowAssumption
  <2>6. \A o \in log[d] : o.lam < n(kind).lam /\ HappensBefore(o, n(kind))
    BY <1>4, NewOpSeesAll
  <2>7. PICK m : m = n(kind)
    OBVIOUS
  <2>8. PICK L : L = log[d]
    OBVIOUS
  <2> HIDE DEF n
  <2>9. RowAgrees([cur  |-> cur + 1,
                   ver  |-> ver \cup {[version |-> cur + 1, op |-> m.id]},
                   tomb |-> NoTomb],
                  L \cup {m}, i)
    BY <2>1, <2>2, <2>5, <2>6, <2>7, <2>8, <1>2, <1>7, SnapshotRowAgrees
  <2> QED
    BY <2>2, <2>4, <2>7, <2>8, <2>9
<1>8. CASE CreateItem(d, p, i)
  <2>1. S = {}
    BY <1>8 DEF CreateItem, Snapshots
  <2>2. Cardinality(S) = 0
    BY <2>1, FS_EmptySet
  <2>3. old = NoRow
    <3>1. Versions(S) = {}
      BY <2>1 DEF Versions
    <3> QED
      BY <3>1, <1>5 DEF RowAgrees
  <2>4. /\ grown("create", 0, {}) \in Row
        /\ RowAgrees(grown("create", 0, {}), log[d] \cup {n("create")}, i)
    <3>1. "create" \in SnapshotKind /\ {} \in SUBSET VersionRow /\ {} \subseteq Versions(S)
      BY DEF SnapshotKind
    <3> HIDE DEF grown, n, S
    <3> QED
      BY <3>1, <2>2, <1>7
  <2>5. grown("create", 0, {}) =
           [cur |-> 1, ver |-> {NewVersion(d, "create", i, 1)}, tomb |-> NoTomb]
    OBVIOUS
  <2>6. Author(d, "create", i, grown("create", 0, {})) /\ pend[d][p] = Idle
    BY <1>8, <2>5 DEF CreateItem
  <2> HIDE DEF grown, n
  <2> QED
    BY <2>3, <2>4, <2>6, <1>4 DEF n
<1>9. ASSUME NEW kind \in SnapshotKind, old # NoRow, pend[d][p] = Idle,
             Author(d, kind, i, grown(kind, old.cur, old.ver))
      PROVE  \E row \in Row :
                /\ Author(d, kind, i, row)
                /\ RowAgrees(row, log[d] \cup {NextOp(log[d], d, kind, i)}, i)
                /\ old.ver \subseteq row.ver
  <2>1. old.cur \in Nat /\ old.ver \in SUBSET VersionRow
    BY <1>6, <1>9 DEF Row
  <2>2. /\ grown(kind, old.cur, old.ver) \in Row
        /\ RowAgrees(grown(kind, old.cur, old.ver), log[d] \cup {n(kind)}, i)
    BY <2>1, <1>6, <1>7, <1>9
  <2>3. old.ver \subseteq grown(kind, old.cur, old.ver).ver
    OBVIOUS
  <2> HIDE DEF grown
  <2> QED
    BY <2>2, <2>3, <1>9
<1>10. CASE UpdateItem(d, p, i)
  <2>1. /\ old # NoRow /\ pend[d][p] = Idle
        /\ Author(d, "update", i, grown("update", old.cur, old.ver))
    BY <1>10 DEF UpdateItem
  <2>2. "update" \in SnapshotKind
    BY DEF SnapshotKind
  <2> HIDE DEF grown
  <2> QED
    BY <2>1, <2>2, <1>4, <1>9
<1>11. ASSUME NEW v, RestoreVersion(d, p, i, v)
       PROVE  /\ pend[d][p] = Idle
              /\ \E kind \in OpKind, row \in Row :
                    /\ Author(d, kind, i, row)
                    /\ RowAgrees(row, log[d] \cup {NextOp(log[d], d, kind, i)}, i)
                    /\ old # NoRow => old.ver \subseteq row.ver
  <2>1. /\ old # NoRow /\ pend[d][p] = Idle
        /\ Author(d, "restore", i, grown("restore", old.cur, old.ver))
    BY <1>11 DEF RestoreVersion
  <2>2. "restore" \in SnapshotKind
    BY DEF SnapshotKind
  <2> HIDE DEF grown
  <2> QED
    BY <2>1, <2>2, <1>4, <1>9
<1>12. CASE DeleteItem(d, p, i)
  <2> DEFINE new == [old EXCEPT !.tomb = n("delete").id]
  <2>1. /\ old # NoRow /\ pend[d][p] = Idle
        /\ Author(d, "delete", i, new)
    BY <1>12 DEF DeleteItem
  <2>2. new \in Row
    BY <2>1, <1>3, <1>4, <1>6 DEF Row
  <2>3. new # NoRow
    BY <2>2, RowAssumption
  <2>4. new.ver = old.ver
    BY <2>1, <1>6 DEF Row
  <2>5. \A o \in log[d] : /\ o.lam < n("delete").lam
                          /\ HappensBefore(o, n("delete"))
                          /\ ~HappensBefore(n("delete"), o)
    BY <1>4, NewOpSeesAll
  <2>6. PICK m : m = n("delete")
    OBVIOUS
  <2>7. PICK L : L = log[d]
    OBVIOUS
  <2>8. PICK r : r = old
    OBVIOUS
  <2>9. m \in Op /\ m.item = i /\ m.kind = "delete"
    BY <2>6, <1>3, <1>4
  <2>10. RowAgrees([r EXCEPT !.tomb = m.id], L \cup {m}, i)
    <3> HIDE DEF n, old
    <3> QED
      BY <2>1, <2>3, <2>5, <2>6, <2>7, <2>8, <2>9, <1>2, <1>5, <1>6, DeletedRowAgrees
  <2>11. RowAgrees(new, log[d] \cup {n("delete")}, i)
    BY <2>6, <2>7, <2>8, <2>10
  <2> HIDE DEF new
  <2> QED
    BY <2>1, <2>2, <2>4, <2>11, <1>4
<1> QED
  BY <1>1, <1>8, <1>10, <1>11, <1>12 DEF UntrashItem

\* A local write keeps every row in agreement, and finds no ingest of its
\* own process under way.
LEMMA AuthorRows ==
    ASSUME IndInv, RowsAgree, IngestsCurrent, OneProcess,
           NEW d \in Device, NEW p \in Proc, pend[d][p] = Idle,
           NEW kind \in OpKind, NEW i \in Item, NEW row \in Row,
           Author(d, kind, i, row),
           RowAgrees(row, log[d] \cup {NextOp(log[d], d, kind, i)}, i)
    PROVE  RowsAgree' /\ IngestsCurrent'
<1> DEFINE n == NextOp(log[d], d, kind, i)
<1>1. log[d] \in SUBSET Op /\ IsFiniteSet(log[d])
  BY DEF IndInv, TypeOK, LogsWellFormed
<1>2. n.item = i
  BY <1>1, NextOpProperty
<1>3. /\ log' = [log EXCEPT ![d] = @ \cup {n}]
      /\ rows' = [rows EXCEPT ![d][i] = row]
      /\ pend' = pend
  BY DEF Author
<1> HIDE DEF n
<1>4. log'[d] = log[d] \cup {n} /\ \A e \in Device : e # d => log'[e] = log[e]
  BY <1>3 DEF IndInv, TypeOK
<1>5. /\ rows'[d][i] = row
      /\ \A j \in Item : j # i => rows'[d][j] = rows[d][j]
      /\ \A e \in Device : e # d => rows'[e] = rows[e]
  BY <1>3 DEF IndInv, TypeOK
<1>6. ASSUME NEW e \in Device, NEW j \in Item
      PROVE  RowAgrees(rows'[e][j], log'[e], j)
  <2>1. RowAgrees(rows[e][j], log[e], j)
    BY DEF RowsAgree
  <2>2. CASE e # d
    BY <2>1, <2>2, <1>4, <1>5
  <2>3. CASE e = d /\ j = i
    BY <2>3, <1>4, <1>5 DEF n
  <2>4. CASE e = d /\ j # i
    <3>1. PICK L, r, m : L = log[d] /\ r = rows[d][j] /\ m = n
      OBVIOUS
    <3>2. \A o \in {m} : o.item # j
      BY <3>1, <2>4, <1>2
    <3>3. RowAgrees(r, L \cup {m}, j)
      BY <3>1, <3>2, <2>1, <2>4, OtherItemsAgree
    <3> QED
      BY <3>1, <3>3, <2>4, <1>4, <1>5
  <2> QED
    BY <2>2, <2>3, <2>4
<1>7. IngestsCurrent'
  <2>1. ASSUME NEW e \in Device, NEW q \in Proc, pend[e][q] # Idle
        PROVE  pend[e][q].base = log'[e]
    <3>1. e # d
      BY <2>1 DEF OneProcess
    <3> QED
      BY <3>1, <2>1, <1>4 DEF IngestsCurrent
  <2> QED
    BY <2>1, <1>3 DEF IngestsCurrent
<1> QED
  BY <1>6, <1>7 DEF RowsAgree

\* Purging removes only rows the merge calls deleted; pruning keeps the
\* version that is current.
LEMMA ReclaimRows ==
    ASSUME IndInv, RowsAgree, NEW d \in Device, NEW p \in Proc, ReclaimStep(d, p)
    PROVE  RowsAgree'
<1>1. log' = log
  BY DEF ReclaimStep, PurgeExpiredTrash, PruneVersions
<1>2. ASSUME NEW new, rows' = [rows EXCEPT ![d] = new],
             \A i \in Item : RowAgrees(new[i], log[d], i)
      PROVE  RowsAgree'
  <2>1. rows'[d] = new /\ \A e \in Device : e # d => rows'[e] = rows[e]
    BY <1>2 DEF IndInv, TypeOK
  <2> QED
    BY <2>1, <1>1, <1>2 DEF RowsAgree
<1>3. CASE PurgeExpiredTrash(d, p)
  <2>1. PICK X \in SUBSET {i \in Expiring : rows[d][i] # NoRow} :
          /\ \A i \in X : rows[d][i].tomb # NoTomb
          /\ rows' = [rows EXCEPT ![d] =
                        [i \in Item |-> IF i \in X THEN NoRow ELSE rows[d][i]]]
    BY <1>3 DEF PurgeExpiredTrash
  <2> DEFINE new == [i \in Item |-> IF i \in X THEN NoRow ELSE rows[d][i]]
  <2>2. ASSUME NEW i \in Item PROVE RowAgrees(new[i], log[d], i)
    <3>1. RowAgrees(rows[d][i], log[d], i)
      BY DEF RowsAgree
    <3>2. CASE i \notin X
      BY <3>1, <3>2
    <3>3. CASE i \in X
      <4>1. new[i] = NoRow /\ rows[d][i] # NoRow /\ rows[d][i].tomb # NoTomb
        BY <3>3, <2>1
      <4> QED
        BY <4>1, <3>1 DEF RowAgrees
    <3> QED
      BY <3>2, <3>3
  <2> HIDE DEF new
  <2>3. rows' = [rows EXCEPT ![d] = new]
    BY <2>1 DEF new
  <2> QED
    BY <2>2, <2>3, <1>2
<1>4. CASE PruneVersions(d, p)
  <2>1. PICK keep \in KeepLast, young \in SUBSET {o.id : o \in log[d]} :
           rows' = [rows EXCEPT ![d] = [i \in Item |-> Pruned(rows[d][i], keep, young)]]
    BY <1>4 DEF PruneVersions
  <2> DEFINE new == [i \in Item |-> Pruned(rows[d][i], keep, young)]
  <2>2. ASSUME NEW i \in Item PROVE RowAgrees(new[i], log[d], i)
    <3>1. RowAgrees(rows[d][i], log[d], i) /\ new[i] = Pruned(rows[d][i], keep, young)
      BY DEF RowsAgree
    <3>2. CASE rows[d][i] = NoRow
      BY <3>1, <3>2 DEF Pruned
    <3>3. CASE rows[d][i] # NoRow
      <4>1. PICK row \in Row : row = rows[d][i]
        BY <3>3 DEF IndInv, TypeOK
      <4> DEFINE kept == row.ver \ {r \in Prunable(row, keep) : r.op \notin young}
      <4>2. new[i] = [cur |-> row.cur, ver |-> kept, tomb |-> row.tomb]
        BY <3>1, <3>3, <4>1 DEF Pruned
      <4>3. kept \subseteq row.ver
        OBVIOUS
      <4>4. \A r \in row.ver : r.version = row.cur => r \in kept
        BY DEF Prunable
      <4>5. new[i] \in Row
        BY <4>2, <4>3 DEF Row
      <4>6. new[i] # NoRow
        BY <4>5, RowAssumption
      <4>7. new[i].cur = row.cur /\ new[i].ver = kept /\ new[i].tomb = row.tomb
        BY <4>2
      <4> HIDE DEF kept, new
      <4> QED
        BY <3>1, <3>3, <4>1, <4>3, <4>4, <4>6, <4>7 DEF RowAgrees
    <3> QED
      BY <3>2, <3>3
  <2> HIDE DEF new
  <2>3. rows' = [rows EXCEPT ![d] = new]
    BY <2>1 DEF new
  <2> QED
    BY <2>2, <2>3, <1>2
<1> QED
  BY <1>3, <1>4 DEF ReclaimStep

\* A foreign apply rewrites the rows of the items it touches with the merge
\* of the new log, which is the log the ingest merged, and loses no version.
LEMMA FinishRows ==
    ASSUME IndInv, IndInv', RowsAgree, IngestsCurrent, OneProcess,
           NEW d \in Device, NEW p \in Proc, FinishIngest(d, p)
    PROVE  /\ RowsAgree'
           /\ IngestsCurrent'
           /\ \A e \in Device : e # d => log'[e] = log[e]
           /\ \A i \in Item : rows[d][i] # NoRow =>
                 {r.op : r \in rows[d][i].ver} \subseteq {r.op : r \in rows'[d][i].ver}
<1> DEFINE g == pend[d][p]
<1>1. g # Idle /\ g.base = log[d]
  BY DEF FinishIngest, IngestsCurrent
<1>2. log'[d] = log[d] \cup g.accepted /\ \A e \in Device : e # d => log'[e] = log[e]
  BY FinishLog
<1>3. /\ rows' = [rows EXCEPT ![d] =
                     [i \in Item |->
                        IF /\ \E o \in g.accepted : o.item = i
                           /\ MaterializeItem(g.base \cup g.accepted, i) # NoRow
                        THEN MaterializeItem(g.base \cup g.accepted, i)
                        ELSE rows[d][i]]]
      /\ pend' = [pend EXCEPT ![d][p] = Idle]
  BY Zenon DEF FinishIngest
<1> HIDE DEF g
<1>4. PICK L, A, M : L = log[d] /\ A = g.accepted /\ M = L \cup A
  OBVIOUS
<1>5. log'[d] = M
  BY <1>2, <1>4
<1>6. M \in SUBSET Op /\ IsFiniteSet(M)
  BY <1>5 DEF IndInv, TypeOK, LogsWellFormed
<1>7. \A o, q \in M : o.dev = q.dev /\ o.seq = q.seq => o = q
  <2>1. \A o \in M : o \in log'[o.dev] /\ o.dev \in Device
    BY <1>5, <1>6 DEF IndInv, LogsAuthentic, Op
  <2> QED
    BY <2>1 DEF IndInv, OneOpPerSeq, OpsBy
<1>8. /\ \A e \in Device : e # d => rows'[e] = rows[e]
      /\ \A i \in Item : rows'[d][i] = IF /\ \E o \in A : o.item = i
                                          /\ MaterializeItem(M, i) # NoRow
                                       THEN MaterializeItem(M, i)
                                       ELSE rows[d][i]
  BY <1>1, <1>3, <1>4 DEF IndInv, TypeOK
<1>9. ASSUME NEW i \in Item
      PROVE  /\ RowAgrees(rows'[d][i], M, i)
             /\ rows[d][i] # NoRow =>
                  {r.op : r \in rows[d][i].ver} \subseteq {r.op : r \in rows'[d][i].ver}
  <2>1. PICK row : row = rows[d][i]
    OBVIOUS
  <2>2. RowAgrees(row, L, i)
    BY <2>1, <1>4 DEF RowsAgree
  <2>3. /\ Snapshots(M, i) # {} => /\ MaterializeItem(M, i) # NoRow
                                   /\ MaterializeItem(M, i).ver = Versions(Snapshots(M, i))
                                   /\ RowAgrees(MaterializeItem(M, i), M, i)
        /\ Snapshots(M, i) = {} => MaterializeItem(M, i) = NoRow
    BY <1>6, <1>7, MergedRowAgrees
  <2>4. Snapshots(L, i) \subseteq Snapshots(M, i)
    BY <1>4 DEF Snapshots
  <2>5. CASE \A o \in A : o.item # i
    <3>1. RowAgrees(row, M, i)
      BY <2>2, <2>5, <1>4, OtherItemsAgree
    <3>2. rows'[d][i] = rows[d][i]
      BY <2>5, <1>8
    <3> QED
      BY <3>1, <3>2, <2>1
  <2>6. CASE (\E o \in A : o.item = i) /\ Snapshots(M, i) = {}
    <3>1. Snapshots(L, i) = {} /\ Versions(Snapshots(L, i)) = {}
      BY <2>4, <2>6 DEF Versions
    <3>2. row = NoRow
      BY <2>2, <3>1 DEF RowAgrees
    <3>3. rows'[d][i] = NoRow
      BY <2>1, <2>3, <2>6, <3>2, <1>8
    <3> QED
      BY <3>2, <3>3, <2>1, <2>6 DEF RowAgrees
  <2>7. CASE (\E o \in A : o.item = i) /\ Snapshots(M, i) # {}
    <3>1. rows'[d][i] = MaterializeItem(M, i)
      BY <2>3, <2>7, <1>8
    <3>2. ASSUME row # NoRow
          PROVE  {r.op : r \in row.ver} \subseteq {r.op : r \in MaterializeItem(M, i).ver}
      <4>1. row.ver \subseteq Versions(Snapshots(L, i))
        BY <2>2, <3>2 DEF RowAgrees
      <4>2. \A r \in row.ver : \E s \in Snapshots(L, i) : r.op = s.id
        BY <4>1 DEF Versions
      <4>3. \A s \in Snapshots(M, i) : \E r \in Versions(Snapshots(M, i)) : r.op = s.id
        <5>1. \A s \in Snapshots(M, i) :
                 [version |-> Rank(Snapshots(M, i), s), op |-> s.id] \in Versions(Snapshots(M, i))
          BY DEF Versions
        <5> QED
          BY <5>1
      <4>4. MaterializeItem(M, i).ver = Versions(Snapshots(M, i))
        BY <2>3, <2>7
      <4>5. \A r \in row.ver : \E t \in MaterializeItem(M, i).ver : r.op = t.op
        BY <4>2, <4>3, <4>4, <2>4
      <4> QED
        BY <4>5
    <3> QED
      BY <3>1, <3>2, <2>1, <2>3, <2>7
  <2> QED
    BY <2>5, <2>6, <2>7
<1>10. RowsAgree'
  <2>1. ASSUME NEW e \in Device, NEW i \in Item
        PROVE  RowAgrees(rows'[e][i], log'[e], i)
    BY <1>2, <1>5, <1>8, <1>9 DEF RowsAgree
  <2> QED
    BY <2>1 DEF RowsAgree
<1>11. IngestsCurrent'
  <2>1. \A e \in Device, q \in Proc :
           pend'[e][q] # Idle => pend'[e][q] = pend[e][q] /\ ~(e = d /\ q = p)
    BY <1>3 DEF IndInv, TypeOK
  <2>2. ASSUME NEW e \in Device, NEW q \in Proc, pend'[e][q] # Idle
        PROVE  pend'[e][q].base = log'[e]
    <3>1. e # d
      BY <2>1, <2>2 DEF OneProcess
    <3> QED
      BY <3>1, <2>1, <2>2, <1>2 DEF IngestsCurrent
  <2> QED
    BY <2>2 DEF IngestsCurrent
<1> QED
  BY <1>2, <1>9, <1>10, <1>11

\* Two rows that agree with one log have one tombstone and one head.
LEMMA AgreeingRows ==
    ASSUME NEW L \in SUBSET Op, IsFiniteSet(L), NEW i,
           \A o, q \in L : o.dev = q.dev /\ o.seq = q.seq => o = q,
           NEW x, NEW y, x # NoRow, y # NoRow,
           RowAgrees(x, L, i), RowAgrees(y, L, i)
    PROVE  /\ x.tomb = y.tomb
           /\ \A v : v \in x.ver /\ v.version = x.cur <=> v \in y.ver /\ v.version = y.cur
<1> DEFINE S == Snapshots(L, i)
<1>1. S \in SUBSET L
  BY DEF Snapshots
<1>2. S \in SUBSET Op /\ IsFiniteSet(S)
  BY <1>1, FS_Subset
<1>3. \A o, q \in S : o.dev = q.dev /\ o.seq = q.seq => o = q
  BY <1>1
<1>4. /\ x.cur = Cardinality(S) /\ y.cur = Cardinality(S) /\ x.tomb = y.tomb
      /\ x.ver \subseteq Versions(S) /\ y.ver \subseteq Versions(S)
      /\ \E r \in x.ver : r.version = x.cur
      /\ \E r \in y.ver : r.version = y.cur
  BY DEF RowAgrees
<1> HIDE DEF S
<1>5. ASSUME NEW v \in Versions(S), NEW w \in Versions(S), v.version = w.version
      PROVE  v = w
  <2>1. PICK s \in S : v = [version |-> Rank(S, s), op |-> s.id]
    BY DEF Versions
  <2>2. PICK t \in S : w = [version |-> Rank(S, t), op |-> t.id]
    BY DEF Versions
  <2>3. Rank(S, s) = Rank(S, t)
    BY <2>1, <2>2, <1>5
  <2>4. s = t
    BY <2>3, <1>2, <1>3, RankInjective
  <2> QED
    BY <2>1, <2>2, <2>4
<1>6. PICK v \in x.ver : v.version = Cardinality(S)
  BY <1>4
<1>7. PICK w \in y.ver : w.version = Cardinality(S)
  BY <1>4
<1>8. v = w
  BY <1>4, <1>5, <1>6, <1>7
<1>9. \A u \in x.ver \cup y.ver : u.version = Cardinality(S) => u = v
  BY <1>4, <1>5, <1>6
<1> QED
  BY <1>4, <1>6, <1>7, <1>8, <1>9

\* Every step keeps the invariant of the rows, and one that adds operations
\* to a log loses no version.
LEMMA RowsStep ==
    ASSUME OneProcess, RowsInv, [Next]_vars
    PROVE  /\ RowsInv'
           /\ \A d \in Device : \A i \in Item :
                 log'[d] # log[d] /\ rows[d][i] # NoRow =>
                     {r.op : r \in rows[d][i].ver} \subseteq {r.op : r \in rows'[d][i].ver}
<1> DEFINE Lossless == \A d \in Device : \A i \in Item :
                 log'[d] # log[d] /\ rows[d][i] # NoRow =>
                     {r.op : r \in rows[d][i].ver} \subseteq {r.op : r \in rows'[d][i].ver}
<1>1. IndInv /\ IngestsCurrent /\ RowsAgree
  BY DEF RowsInv
<1>2. IndInv'
  BY <1>1, NextInv
<1>3. ASSUME NEW d \in Device, NEW p \in Proc, ItemStep(d, p)
      PROVE  RowsAgree' /\ IngestsCurrent' /\ Lossless
  <2>1. PICK kind \in OpKind, i \in Item, row \in Row :
                /\ pend[d][p] = Idle
                /\ Author(d, kind, i, row)
                /\ RowAgrees(row, log[d] \cup {NextOp(log[d], d, kind, i)}, i)
                /\ rows[d][i] # NoRow => rows[d][i].ver \subseteq row.ver
    BY <1>1, <1>3, ItemWritesMerge
  <2>2. RowsAgree' /\ IngestsCurrent'
    BY <2>1, <1>1, AuthorRows
  <2>3. /\ rows'[d][i] = row
        /\ \A j \in Item : j # i => rows'[d][j] = rows[d][j]
        /\ \A e \in Device : e # d => log'[e] = log[e]
    BY <2>1, <1>1 DEF Author, IndInv, TypeOK
  <2>4. Lossless
    BY <2>1, <2>3
  <2> QED
    BY <2>2, <2>4
<1>4. ASSUME NEW d \in Device, NEW p \in Proc, FinishIngest(d, p)
      PROVE  RowsAgree' /\ IngestsCurrent' /\ Lossless
  BY <1>1, <1>2, <1>4, FinishRows
<1>5. ASSUME log' = log, pend' = pend, RowsAgree'
      PROVE  RowsAgree' /\ IngestsCurrent' /\ Lossless
  BY <1>1, <1>5 DEF IngestsCurrent
<1>6. ASSUME NEW d \in Device, NEW p \in Proc, ReclaimStep(d, p)
      PROVE  RowsAgree' /\ IngestsCurrent' /\ Lossless
  <2>1. log' = log /\ pend' = pend
    BY <1>6 DEF ReclaimStep, PurgeExpiredTrash, PruneVersions
  <2> QED
    BY <2>1, <1>1, <1>5, <1>6, ReclaimRows
<1>7. ASSUME log' = log, rows' = rows
      PROVE  RowsAgree' /\ Lossless
  BY <1>1, <1>7 DEF RowsAgree
<1>8. ASSUME NEW d \in Device, NEW p \in Proc, SyncStep(d, p), ~FinishIngest(d, p)
      PROVE  RowsAgree' /\ IngestsCurrent' /\ Lossless
  <2>1. log' = log /\ rows' = rows
    BY <1>8 DEF SyncStep, Push, BeginIngest, CrashIngest
  <2>2. CASE Push(d, p)
    BY <2>1, <2>2, <1>5, <1>7 DEF Push
  <2>3. ASSUME NEW batch, BeginIngest(d, p, batch) PROVE IngestsCurrent'
    <3>1. PICK acc : pend' = [pend EXCEPT ![d][p] = [base |-> log[d], accepted |-> acc]]
      BY <2>3 DEF BeginIngest
    <3>2. ASSUME NEW e \in Device, NEW q \in Proc
          PROVE  pend'[e][q] = IF e = d /\ q = p
                               THEN [base |-> log[d], accepted |-> acc]
                               ELSE pend[e][q]
      BY <3>1, <1>1 DEF IndInv, TypeOK
    <3>3. ASSUME NEW e \in Device, NEW q \in Proc, pend'[e][q] # Idle
          PROVE  pend'[e][q].base = log[e]
      <4>1. CASE e = d /\ q = p
        BY <4>1, <3>2
      <4>2. CASE ~(e = d /\ q = p)
        BY <4>2, <3>2, <3>3, <1>1 DEF IngestsCurrent
      <4> QED
        BY <4>1, <4>2
    <3> QED
      BY <3>3, <2>1 DEF IngestsCurrent
  <2>4. CASE CrashIngest(d, p)
    <3>1. \A e \in Device, q \in Proc : pend'[e][q] = Idle \/ pend'[e][q] = pend[e][q]
      BY <2>4, <1>1 DEF CrashIngest, IndInv, TypeOK
    <3>2. IngestsCurrent'
      BY <3>1, <2>1, <1>1 DEF IngestsCurrent
    <3> QED
      BY <3>2, <2>1, <1>7
  <2> QED
    BY <2>1, <2>2, <2>3, <2>4, <1>7, <1>8 DEF SyncStep
<1>9. ASSUME NEW d \in Device, NEW e \in Device, TrustPeerDevice(d, e)
      PROVE  RowsAgree' /\ IngestsCurrent' /\ Lossless
  BY <1>5, <1>7, <1>9 DEF TrustPeerDevice
<1>10. ASSUME DamageSegment
       PROVE  RowsAgree' /\ IngestsCurrent' /\ Lossless
  BY <1>5, <1>7, <1>10 DEF DamageSegment
<1>11. ASSUME UNCHANGED vars
       PROVE  RowsAgree' /\ IngestsCurrent' /\ Lossless
  BY <1>5, <1>7, <1>11 DEF vars
<1> HIDE DEF Lossless
<1>12. RowsAgree' /\ IngestsCurrent' /\ Lossless
  BY <1>3, <1>4, <1>6, <1>8, <1>9, <1>10, <1>11 DEF Next, DeviceStep
<1> QED
  BY <1>2, <1>12 DEF RowsInv, Lossless

\* With one process on each vault file, ingests merge over the log they are
\* applied to and every row agrees with its log, for any devices and items.
THEOREM RowsInvariance ==
    ASSUME OneProcess
    PROVE  Spec => []RowsInv
<1>1. Init => RowsInv
  <2> SUFFICES ASSUME Init PROVE RowsInv
    OBVIOUS
  <2>1. IndInv
    BY InitInv
  <2>2. IngestsCurrent
    BY DEF Init, IngestsCurrent
  <2>3. RowsAgree
    <3>1. \A d \in Device : \A i \in Item : rows[d][i] = NoRow /\ Snapshots(log[d], i) = {}
      BY DEF Init, Snapshots
    <3> QED
      BY <3>1 DEF RowsAgree, RowAgrees
  <2> QED
    BY <2>1, <2>2, <2>3 DEF RowsInv
<1>2. RowsInv /\ [Next]_vars => RowsInv'
  BY RowsStep
<1> QED
  BY <1>1, <1>2, PTL DEF Spec

\* The rows a device shows are the merge of the log it holds, less what
\* pruning and purging removed: local writes that touch one row and foreign
\* applies that merge again cannot drift apart.
THEOREM RowsAreMerge ==
    ASSUME OneProcess
    PROVE  Spec => []RowsMatchLog
<1>1. RowsInv => RowsMatchLog
  <2> SUFFICES ASSUME RowsInv, NEW d \in Device, NEW i \in Item
               PROVE  \/ rows[d][i] = MaterializeItem(log[d], i)
                      \/ /\ MaterializeItem(log[d], i) # NoRow
                         /\ rows[d][i] = NoRow
                         /\ MaterializeItem(log[d], i).tomb # NoTomb
                      \/ /\ MaterializeItem(log[d], i) # NoRow
                         /\ rows[d][i] # NoRow
                         /\ rows[d][i].cur = MaterializeItem(log[d], i).cur
                         /\ rows[d][i].tomb = MaterializeItem(log[d], i).tomb
                         /\ rows[d][i].ver \subseteq MaterializeItem(log[d], i).ver
                         /\ \E r \in rows[d][i].ver : r.version = rows[d][i].cur
    BY DEF RowsMatchLog
  <2>1. IndInv /\ RowAgrees(rows[d][i], log[d], i)
    BY DEF RowsInv, RowsAgree
  <2>2. PICK L, row : L = log[d] /\ row = rows[d][i]
    OBVIOUS
  <2>3. L \in SUBSET Op /\ IsFiniteSet(L)
    BY <2>1, <2>2 DEF IndInv, TypeOK, LogsWellFormed
  <2>4. \A o, q \in L : o.dev = q.dev /\ o.seq = q.seq => o = q
    BY <2>1, <2>2, SameSeqSameOp
  <2> DEFINE m == MaterializeItem(L, i)
             S == Snapshots(L, i)
  <2>5. (S # {} => m # NoRow) /\ (S = {} => m = NoRow)
    BY <2>3, <2>4, MergedRowAgrees
  <2>6. RowAgrees(row, L, i)
    BY <2>1, <2>2
  <2>7. CASE S = {}
    <3>1. Versions(S) = {}
      BY <2>7 DEF Versions
    <3>2. row = NoRow
      BY <3>1, <2>6 DEF RowAgrees
    <3> QED
      BY <3>2, <2>2, <2>5, <2>7
  <2>8. CASE S # {}
    <3>1. /\ m.cur = Cardinality(S) /\ m.ver = Versions(S)
          /\ m.tomb = ResolveTombstone(S, Deletes(L, i))
      BY <2>8 DEF MaterializeItem
    <3> HIDE DEF m
    <3>2. \/ row = NoRow /\ m.tomb # NoTomb
          \/ /\ row # NoRow /\ row.cur = m.cur /\ row.tomb = m.tomb
             /\ row.ver \subseteq m.ver /\ \E r \in row.ver : r.version = row.cur
      BY <3>1, <2>6, <2>8 DEF RowAgrees
    <3> QED
      BY <3>2, <2>2, <2>5, <2>8 DEF m
  <2> QED
    BY <2>7, <2>8
<1> QED
  BY <1>1, RowsInvariance, PTL

\* Two devices that hold the same operations show the same head version and
\* the same trash for every item neither has purged, in whatever order the
\* operations reached them.
THEOREM Convergence ==
    ASSUME OneProcess
    PROVE  Spec => []Converged
<1>1. RowsInv => Converged
  <2> SUFFICES ASSUME RowsInv, NEW d \in Device, NEW e \in Device, log[d] = log[e],
                      NEW i \in Item, rows[d][i] # NoRow, rows[e][i] # NoRow
               PROVE  /\ rows[d][i].tomb = rows[e][i].tomb
                      /\ {v \in rows[d][i].ver : v.version = rows[d][i].cur}
                            = {v \in rows[e][i].ver : v.version = rows[e][i].cur}
    BY DEF Converged
  <2>1. IndInv /\ RowAgrees(rows[d][i], log[d], i) /\ RowAgrees(rows[e][i], log[d], i)
    BY DEF RowsInv, RowsAgree
  <2>2. PICK L, x, y : L = log[d] /\ x = rows[d][i] /\ y = rows[e][i]
    OBVIOUS
  <2>3. L \in SUBSET Op /\ IsFiniteSet(L)
    BY <2>1, <2>2 DEF IndInv, TypeOK, LogsWellFormed
  <2>4. \A o, q \in L : o.dev = q.dev /\ o.seq = q.seq => o = q
    BY <2>1, <2>2, SameSeqSameOp
  <2>5. x # NoRow /\ y # NoRow /\ RowAgrees(x, L, i) /\ RowAgrees(y, L, i)
    BY <2>1, <2>2
  <2>6. /\ x.tomb = y.tomb
        /\ \A v : v \in x.ver /\ v.version = x.cur <=> v \in y.ver /\ v.version = y.cur
    BY <2>3, <2>4, <2>5, AgreeingRows
  <2> QED
    BY <2>2, <2>6
<1> QED
  BY <1>1, RowsInvariance, PTL

\* No step that adds operations to a log loses a version of an item the
\* device still shows: the loser of a conflict stays in the history.
THEOREM HistoryKept ==
    ASSUME OneProcess
    PROVE  Spec => NothingDiscarded
<1>1. RowsInv /\ [Next]_vars =>
        [\A d \in Device : \A i \in Item :
            log'[d] # log[d] /\ rows[d][i] # NoRow =>
                {r.op : r \in rows[d][i].ver} \subseteq {r.op : r \in rows'[d][i].ver}]_vars
  BY RowsStep
<1> QED
  BY <1>1, RowsInvariance, PTL DEF Spec, NothingDiscarded

=============================================================================
