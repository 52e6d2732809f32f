---------------------------- MODULE MergeProofs ----------------------------
(***************************************************************************)
(* Lemmas about the operators of OpLog and VerifyChain, and about the      *)
(* merge: the canonical tombstone it picks exists, and what it computes    *)
(* are rows.                                                               *)
(***************************************************************************)
EXTENDS Merge, VerifyChain, FiniteSetTheorems, WellFoundedInduction, TLAPS

\* A non-empty set of naturals has a least element (used in place of
\* induction: no counterexample is the smallest one).
LEMMA LeastNat ==
    ASSUME NEW T \in SUBSET Nat, T # {}
    PROVE  \E n \in T : \A m \in T : n <= m
<1>1. \E x \in T : \A y \in T : ~(<<y, x>> \in OpToRel(<, Nat))
  <2>1. IsWellFoundedOn(OpToRel(<, Nat), Nat)
    BY NatLessThanWellFounded
  <2> QED
    BY <2>1, WFMin, Zenon
<1>2. PICK x \in T : \A y \in T : ~(<<y, x>> \in OpToRel(<, Nat))
  BY <1>1
<1>3. ASSUME NEW y \in T
      PROVE  x <= y
  <2>1. <<y, x>> \in {ss \in Nat \X Nat : ss[1] < ss[2]} <=> y < x
    OBVIOUS
  <2>2. ~(<<y, x>> \in {ss \in Nat \X Nat : ss[1] < ss[2]})
    BY <1>2, Zenon DEF OpToRel
  <2> QED
    BY <2>1, <2>2
<1> QED
  BY <1>3

\* A finite non-empty set of naturals has a greatest element.
LEMMA FiniteMax ==
    ASSUME NEW S \in SUBSET Nat, IsFiniteSet(S), S # {}
    PROVE  \E m \in S : \A x \in S : x <= m
<1> DEFINE HasMax(U) == \E m \in U : \A x \in U : x <= m
           Bad == {n \in Nat : \E U \in SUBSET Nat : /\ IsFiniteSet(U)
                                                     /\ U # {}
                                                     /\ Cardinality(U) = n
                                                     /\ ~HasMax(U)}
<1>1. ASSUME Bad # {} PROVE FALSE
  <2>1. PICK n \in Bad : \A k \in Bad : n <= k
    BY <1>1, LeastNat
  <2>2. PICK U \in SUBSET Nat : IsFiniteSet(U) /\ U # {} /\ Cardinality(U) = n /\ ~HasMax(U)
    BY <2>1
  <2>3. PICK x \in U : TRUE
    BY <2>2
  <2> DEFINE V == U \ {x}
  <2>4. IsFiniteSet(V) /\ Cardinality(V) = n - 1
    BY <2>2, <2>3, FS_RemoveElement
  <2>5. CASE V = {}
    <3>1. \A y \in U : y <= x
      BY <2>5, <2>3, <2>2
    <3> QED
      BY <3>1, <2>2, <2>3
  <2>6. CASE V # {}
    <3>1. Cardinality(V) \in Nat
      BY <2>4, FS_CardinalityType
    <3>2. n - 1 \notin Bad
      BY <2>1, <2>4, <3>1
    <3>3. HasMax(V)
      BY <3>1, <3>2, <2>4, <2>6, <2>2
    <3>4. PICK m \in V : \A y \in V : y <= m
      BY <3>3
    <3>5. CASE x <= m
      <4>1. \A y \in U : y <= m
        BY <3>4, <3>5
      <4> QED
        BY <4>1, <3>4, <2>2
    <3>6. CASE ~(x <= m)
      <4>1. \A y \in U : y <= x
        BY <3>4, <3>6, <2>2, <2>3
      <4> QED
        BY <4>1, <2>3, <2>2
    <3> QED
      BY <3>5, <3>6
  <2> QED
    BY <2>5, <2>6
<1>2. Cardinality(S) \in Nat
  BY FS_CardinalityType
<1> QED
  BY <1>1, <1>2

\* So Max of FiniteSetsExt is what its name says.
LEMMA MaxProperty ==
    ASSUME NEW S \in SUBSET Nat, IsFiniteSet(S), S # {}
    PROVE  Max(S) \in S /\ \A x \in S : x <= Max(S)
<1>1. PICK m \in S : \A x \in S : x <= m
  BY FiniteMax
<1>2. \A y \in S : m >= y
  BY <1>1
<1>3. Max(S) \in S /\ \A y \in S : Max(S) >= y
  BY <1>2 DEF Max
<1> QED
  BY <1>3

-----------------------------------------------------------------------------

\* The image of a finite set of operations under a numeric field is finite.
LEMMA FiniteSeqs ==
    ASSUME NEW S, IsFiniteSet(S)
    PROVE  IsFiniteSet({o.seq : o \in S}) /\ IsFiniteSet({o.lam : o \in S})
<1> DEFINE f == [o \in S |-> o.seq]
           g == [o \in S |-> o.lam]
<1>1. f \in Surjection(S, {o.seq : o \in S})
  BY Zenon DEF Surjection
<1>2. g \in Surjection(S, {o.lam : o \in S})
  BY Zenon DEF Surjection
<1>3. IsFiniteSet({o.seq : o \in S})
  BY <1>1, FS_Surjection, Zenon
<1>4. IsFiniteSet({o.lam : o \in S})
  BY <1>2, FS_Surjection, Zenon
<1> QED
  BY <1>3, <1>4

\* HeadSeq is the greatest seq of the author, 0 when there is none.
LEMMA HeadSeqProperty ==
    ASSUME NEW L \in SUBSET Op, IsFiniteSet(L), NEW a
    PROVE  /\ HeadSeq(L, a) \in Nat
           /\ \A o \in OpsBy(L, a) : o.seq <= HeadSeq(L, a)
           /\ HeadSeq(L, a) # 0 => \E o \in OpsBy(L, a) : o.seq = HeadSeq(L, a)
<1> DEFINE B == OpsBy(L, a)
           Q == {o.seq : o \in B}
<1>1. B \in SUBSET Op /\ B \in SUBSET L
  BY DEF OpsBy
<1>2. IsFiniteSet(B)
  BY <1>1, FS_Subset
<1>3. IsFiniteSet(Q)
  BY <1>2, FiniteSeqs
<1>4. IsFiniteSet(Q \cup {0})
  BY <1>3, FS_AddElement
<1>5. Q \cup {0} \in SUBSET Nat
  BY <1>1 DEF Op
<1>6. Max(Q \cup {0}) \in Q \cup {0} /\ \A x \in Q \cup {0} : x <= Max(Q \cup {0})
  BY <1>4, <1>5, MaxProperty
<1>7. HeadSeq(L, a) = Max(Q \cup {0})
  BY DEF HeadSeq
<1> QED
  BY <1>5, <1>6, <1>7

\* MaxLamport bounds the Lamport time of every operation of the log.
LEMMA MaxLamportProperty ==
    ASSUME NEW L \in SUBSET Op, IsFiniteSet(L)
    PROVE  MaxLamport(L) \in Nat /\ \A o \in L : o.lam <= MaxLamport(L)
<1> DEFINE Q == {o.lam : o \in L}
<1>1. IsFiniteSet(Q)
  BY FiniteSeqs
<1>2. IsFiniteSet(Q \cup {0})
  BY <1>1, FS_AddElement
<1>3. Q \cup {0} \in SUBSET Nat
  BY DEF Op
<1>4. Max(Q \cup {0}) \in Q \cup {0} /\ \A x \in Q \cup {0} : x <= Max(Q \cup {0})
  BY <1>2, <1>3, MaxProperty
<1> QED
  BY <1>3, <1>4 DEF MaxLamport

\* The operation author_op signs is an operation, one past the head, above
\* every Lamport time held, and observes every head.
LEMMA NextOpProperty ==
    ASSUME NEW L \in SUBSET Op, IsFiniteSet(L), NEW d \in Device,
           NEW kind \in OpKind, NEW i \in Item
    PROVE  LET n == NextOp(L, d, kind, i)
           IN  /\ n \in Op
               /\ n.dev = d
               /\ n.item = i
               /\ n.kind = kind
               /\ n.sig
               /\ n.seq = HeadSeq(L, d) + 1
               /\ n.id = <<d, n.seq>>
               /\ \A o \in L : o.lam < n.lam
               /\ \A a \in Device : n.obs[a] = HeadSeq(L, a)
<1>1. /\ HeadSeq(L, d) \in Nat
      /\ \A o \in OpsBy(L, d) : o.seq <= HeadSeq(L, d)
      /\ HeadSeq(L, d) # 0 => \E o \in OpsBy(L, d) : o.seq = HeadSeq(L, d)
  BY HeadSeqProperty
<1>2. MaxLamport(L) \in Nat /\ \A o \in L : o.lam <= MaxLamport(L)
  BY MaxLamportProperty
<1>3. \A a \in Device : HeadSeq(L, a) \in Nat
  BY HeadSeqProperty
<1>4. OpsBy(L, d) \in SUBSET Op
  BY DEF OpsBy
<1>5. HeadHash(L, d) \in Hash
  <2>1. CASE OpsBy(L, d) = {}
    <3>1. <<d, 0>> \in OpId
      BY DEF OpId
    <3> QED
      BY <2>1, <3>1 DEF HeadHash, Genesis, Hash
  <2>2. CASE OpsBy(L, d) # {}
    <3>1. \E o \in OpsBy(L, d) : o.seq = HeadSeq(L, d)
      BY <2>2, <1>1, <1>4 DEF Op
    <3> DEFINE h == CHOOSE o \in OpsBy(L, d) : o.seq = HeadSeq(L, d)
    <3>2. h \in Op
      BY <3>1, <1>4
    <3>3. HeadHash(L, d) = ChainHash(h)
      BY <2>2 DEF HeadHash
    <3>4. h.id \in OpId /\ h.sig \in BOOLEAN
      BY <3>2 DEF Op
    <3> QED
      BY <3>3, <3>4 DEF ChainHash, Hash
  <2> QED
    BY <2>1, <2>2
<1>6. \A o \in L : o.lam < MaxLamport(L) + 1
  BY <1>2 DEF Op
<1>7. <<d, HeadSeq(L, d) + 1>> \in OpId
  BY <1>1 DEF OpId
<1>8. ObservedHeads(L) \in [Device -> Nat]
  BY <1>3 DEF ObservedHeads
<1> QED
  BY <1>1, <1>2, <1>5, <1>6, <1>7, <1>8 DEF NextOp, Op, ObservedHeads

-----------------------------------------------------------------------------

\* verify_device_run accepts only operations it was given, and only signed
\* ones.
LEMMA AcceptedSigned ==
    ASSUME NEW L, NEW a, NEW run, NEW A \in AcceptedRuns(L, a, run)
    PROVE  A \subseteq run /\ \A o \in A : o.sig
<1>1. CASE Regressed(L, a, run)
  BY <1>1 DEF AcceptedRuns
<1>2. CASE ~Regressed(L, a, run)
  <2>1. A \in SUBSET run /\ Chained(L, a, A)
    BY <1>2 DEF AcceptedRuns
  <2> QED
    BY <2>1 DEF Chained, Extends
<1> QED
  BY <1>1, <1>2

\* What verify_device_run accepts leaves no gap behind it: every seq below an
\* accepted operation is held or accepted too.
LEMMA AcceptedGapless ==
    ASSUME NEW L \in SUBSET Op, IsFiniteSet(L),
           NEW a, NEW run, NEW A \in AcceptedRuns(L, a, run),
           A \in SUBSET Op, IsFiniteSet(A),
           \A o \in A : o.dev = a,
           \A o \in OpsBy(L, a) : \A s \in 1 .. o.seq :
               \E q \in L : q.dev = a /\ q.seq = s
    PROVE  \A o \in A : \A s \in 1 .. o.seq :
               \E q \in L \cup A : q.dev = a /\ q.seq = s
<1> DEFINE Good(o) == \A s \in 1 .. o.seq : \E q \in L \cup A : q.dev = a /\ q.seq = s
           Bad == {n \in Nat : \E o \in A : o.seq = n /\ ~Good(o)}
<1>1. CASE A = {}
  BY <1>1
<1>2. CASE A # {}
  <2>1. Chained(L, a, A)
    BY <1>2 DEF AcceptedRuns
  <2>2. ASSUME Bad # {} PROVE FALSE
    <3>1. PICK n \in Bad : \A k \in Bad : n <= k
      BY <2>2, LeastNat
    <3>2. PICK o \in A : o.seq = n /\ ~Good(o)
      BY <3>1
    <3> DEFINE before == L \cup {p \in A : p.seq < o.seq}
    <3>3. o.seq = HeadSeq(before, a) + 1
      BY <2>1, <3>2 DEF Chained
    <3>4. before \in SUBSET Op /\ {p \in A : p.seq < o.seq} \in SUBSET A
      OBVIOUS
    <3>5. IsFiniteSet({p \in A : p.seq < o.seq})
      BY <3>4, FS_Subset
    <3>6. IsFiniteSet(before)
      BY <3>5, FS_Union
    <3> HIDE DEF before
    <3>7. /\ HeadSeq(before, a) \in Nat
          /\ HeadSeq(before, a) # 0 =>
                \E q \in OpsBy(before, a) : q.seq = HeadSeq(before, a)
      BY <3>4, <3>6, HeadSeqProperty
    <3>8. CASE HeadSeq(before, a) = 0
      <4>1. \A s \in 1 .. o.seq : s = o.seq
        BY <3>3, <3>8
      <4> QED
        BY <4>1, <3>2
    <3>9. CASE HeadSeq(before, a) # 0
      <4>1. PICK q \in OpsBy(before, a) : q.seq = o.seq - 1
        BY <3>3, <3>7, <3>9
      <4>2. Good(q)
        <5>1. CASE q \in L
          BY <5>1, <4>1 DEF OpsBy
        <5>2. CASE q \in A
          <6>1. q.seq \in Nat /\ q.seq < n
            BY <4>1, <3>2, <3>3, <3>7, <3>9
          <6>2. q.seq \notin Bad
            BY <6>1, <3>1
          <6> QED
            BY <6>1, <6>2, <5>2
        <5> QED
          BY <5>1, <5>2, <4>1 DEF OpsBy, before
      <4>3. \A s \in 1 .. o.seq : s \in 1 .. q.seq \/ s = o.seq
        BY <4>1, <3>3, <3>7
      <4> QED
        BY <4>2, <4>3, <3>2
    <3> QED
      BY <3>8, <3>9
  <2> QED
    BY <2>2 DEF Op
<1> QED
  BY <1>1, <1>2

-----------------------------------------------------------------------------
(* The merge.                                                              *)

\* The total order has a greatest element in every finite non-empty set of
\* operations in which author and seq name an operation: the CHOOSE of
\* resolve_tombstone (.max_by(cmp_total)) is well defined.
LEMMA GreatestExists ==
    ASSUME NEW D \in SUBSET Op, IsFiniteSet(D), D # {},
           \A o, q \in D : o.dev = q.dev /\ o.seq = q.seq => o = q
    PROVE  \E x \in D : \A y \in D \ {x} : Below(y, x)
<1>0. \A o \in D : o.lam \in Nat /\ o.dev \in Nat /\ o.seq \in Nat
  BY DeviceAssumption DEF Op
<1>1. PICK x1 \in D : \A y \in D : y.lam <= x1.lam
  <2> DEFINE Q == {o.lam : o \in D}
  <2>1. IsFiniteSet(Q)
    BY FiniteSeqs
  <2>2. Q \in SUBSET Nat /\ Q # {}
    BY <1>0
  <2>3. PICK m \in Q : \A n \in Q : n <= m
    BY <2>1, <2>2, FiniteMax
  <2> QED
    BY <2>3
<1> DEFINE D1 == {o \in D : o.lam = x1.lam}
<1>2. PICK x2 \in D1 : \A y \in D1 : y.dev <= x2.dev
  <2> DEFINE Q == {o.dev : o \in D1}
             f == [o \in D1 |-> o.dev]
  <2>1. IsFiniteSet(D1)
    BY FS_Subset
  <2>2. f \in Surjection(D1, Q)
    BY Zenon DEF Surjection
  <2>3. IsFiniteSet(Q)
    BY <2>1, <2>2, FS_Surjection, Zenon
  <2>4. Q \in SUBSET Nat /\ Q # {}
    BY <1>0, <1>1
  <2>5. PICK m \in Q : \A n \in Q : n <= m
    BY <2>3, <2>4, FiniteMax
  <2> QED
    BY <2>5
<1> DEFINE D2 == {o \in D1 : o.dev = x2.dev}
<1>3. PICK x3 \in D2 : \A y \in D2 : y.seq <= x3.seq
  <2> DEFINE Q == {o.seq : o \in D2}
  <2>1. IsFiniteSet(D2)
    BY FS_Subset
  <2>2. IsFiniteSet(Q)
    BY <2>1, FiniteSeqs
  <2>3. Q \in SUBSET Nat /\ Q # {}
    BY <1>0, <1>2
  <2>4. PICK m \in Q : \A n \in Q : n <= m
    BY <2>2, <2>3, FiniteMax
  <2> QED
    BY <2>4
<1>4. ASSUME NEW y \in D \ {x3}
      PROVE  Below(y, x3)
  <2>1. y.lam <= x3.lam
    BY <1>1, <1>3
  <2>2. CASE y.lam = x3.lam
    <3>1. y \in D1 /\ y.dev <= x3.dev
      BY <2>2, <1>2, <1>3
    <3>2. CASE y.dev = x3.dev
      <4>1. y \in D2 /\ y.seq <= x3.seq
        BY <3>1, <3>2, <1>3
      <4>2. y.seq # x3.seq
        BY <3>2, <1>3
      <4> QED
        BY <2>2, <3>2, <4>1, <4>2, <1>0, <1>3 DEF Below
    <3> QED
      BY <2>2, <3>1, <3>2, <1>0, <1>3 DEF Below
  <2> QED
    BY <2>1, <2>2, <1>0, <1>3 DEF Below
<1> QED
  BY <1>3, <1>4

\* The merge of such a set of operations is a row, or no row when nothing
\* carries the item's content.
LEMMA MaterializeItemType ==
    ASSUME NEW L \in SUBSET Op, IsFiniteSet(L), NEW i,
           \A o, q \in L : o.dev = q.dev /\ o.seq = q.seq => o = q
    PROVE  \/ Snapshots(L, i) = {} /\ MaterializeItem(L, i) = NoRow
           \/ MaterializeItem(L, i) \in
                [cur : Nat, ver : SUBSET [version : Nat, op : OpId],
                 tomb : OpId \cup {NoTomb}]
<1> DEFINE S == Snapshots(L, i)
           D == Deletes(L, i)
<1>1. S \in SUBSET L /\ D \in SUBSET L
  BY DEF Snapshots, Deletes
<1>2. IsFiniteSet(S)
  BY <1>1, FS_Subset
<1>3. Cardinality(S) \in Nat
  BY <1>2, FS_CardinalityType
<1>4. Versions(S) \in SUBSET [version : Nat, op : OpId]
  <2>1. ASSUME NEW s \in S
        PROVE  [version |-> Rank(S, s), op |-> s.id] \in [version : Nat, op : OpId]
    <3>1. {t \in S : Below(t, s)} \in SUBSET S
      OBVIOUS
    <3>2. IsFiniteSet({t \in S : Below(t, s)})
      BY <1>2, <3>1, FS_Subset
    <3>3. Cardinality({t \in S : Below(t, s)}) \in Nat
      BY <3>2, FS_CardinalityType
    <3>4. s.id \in OpId
      BY <1>1 DEF Op
    <3> QED
      BY <3>3, <3>4 DEF Rank
  <2> QED
    BY <2>1 DEF Versions
<1>5. ResolveTombstone(S, D) \in OpId \cup {NoTomb}
  <2> DEFINE live == SurvivingDeletes(S, D)
             canonical == CHOOSE x \in live : \A y \in live \ {x} : Below(y, x)
  <2>1. live \in SUBSET L
    BY <1>1 DEF SurvivingDeletes
  <2>2. IsFiniteSet(live)
    BY <2>1, FS_Subset
  <2>3. ASSUME live # {} PROVE canonical \in Op
    <3>1. \E x \in live : \A y \in live \ {x} : Below(y, x)
      <4> HIDE DEF live
      <4> QED
        BY <2>1, <2>2, <2>3, GreatestExists
    <3> QED
      BY <3>1, <2>1
  <2>4. ASSUME live # {} PROVE canonical.id \in OpId
    BY <2>3, <2>4 DEF Op
  <2> QED
    BY <2>4 DEF ResolveTombstone
<1> QED
  BY <1>3, <1>4, <1>5 DEF MaterializeItem

-----------------------------------------------------------------------------
(* Positions in the total order.                                            *)

\* cmp_total is a strict total order on operations told apart by author and
\* seq.
LEMMA BelowIsOrder ==
    ASSUME NEW o \in Op, NEW q \in Op, NEW r \in Op
    PROVE  /\ ~Below(o, o)
           /\ ~(Below(o, q) /\ Below(q, o))
           /\ Below(o, q) /\ Below(q, r) => Below(o, r)
           /\ Below(o, q) \/ Below(q, o) \/ (o.dev = q.dev /\ o.seq = q.seq)
<1>1. /\ o.lam \in Nat /\ q.lam \in Nat /\ r.lam \in Nat
      /\ o.dev \in Nat /\ q.dev \in Nat /\ r.dev \in Nat
      /\ o.seq \in Nat /\ q.seq \in Nat /\ r.seq \in Nat
  BY DeviceAssumption DEF Op
<1> QED
  BY <1>1 DEF Below

\* No two snapshots of an item share a version number.
LEMMA RankInjective ==
    ASSUME NEW S \in SUBSET Op, IsFiniteSet(S),
           \A o, q \in S : o.dev = q.dev /\ o.seq = q.seq => o = q,
           NEW s \in S, NEW t \in S, Rank(S, s) = Rank(S, t)
    PROVE  s = t
<1>1. ASSUME NEW x \in S, NEW y \in S, Below(x, y)
      PROVE  Rank(S, x) < Rank(S, y)
  <2> DEFINE X == {u \in S : Below(u, x)}
             Y == {u \in S : Below(u, y)}
  <2>1. x \notin X /\ X \cup {x} \in SUBSET Y
    BY <1>1, BelowIsOrder
  <2>2. X \in SUBSET S /\ Y \in SUBSET S
    OBVIOUS
  <2>3. IsFiniteSet(X) /\ IsFiniteSet(Y)
    BY <2>2, FS_Subset
  <2>4. Rank(S, x) = Cardinality(X) + 1 /\ Rank(S, y) = Cardinality(Y) + 1
    BY DEF Rank
  <2> HIDE DEF X, Y
  <2>5. Cardinality(X \cup {x}) = Cardinality(X) + 1
    BY <2>1, <2>3, FS_AddElement
  <2>6. Cardinality(X \cup {x}) <= Cardinality(Y)
    BY <2>1, <2>3, FS_Subset
  <2>7. Cardinality(X) \in Nat /\ Cardinality(Y) \in Nat
    BY <2>3, FS_CardinalityType
  <2> QED
    BY <2>4, <2>5, <2>6, <2>7
<1>2. \A x \in S : Rank(S, x) \in Nat
  <2>1. ASSUME NEW x \in S PROVE Rank(S, x) \in Nat
    <3>1. {u \in S : Below(u, x)} \in SUBSET S
      OBVIOUS
    <3>2. IsFiniteSet({u \in S : Below(u, x)})
      BY <3>1, FS_Subset
    <3> QED
      BY <3>2, FS_CardinalityType DEF Rank
  <2> QED
    BY <2>1
<1>3. Below(s, t) \/ Below(t, s) \/ s = t
  BY BelowIsOrder
<1> QED
  BY <1>1, <1>2, <1>3

\* The greatest snapshot has the highest version number: the head exists.
LEMMA TopRank ==
    ASSUME NEW S \in SUBSET Op, IsFiniteSet(S), S # {},
           \A o, q \in S : o.dev = q.dev /\ o.seq = q.seq => o = q
    PROVE  \E s \in S : Rank(S, s) = Cardinality(S)
<1>1. PICK s \in S : \A y \in S \ {s} : Below(y, s)
  BY GreatestExists
<1>2. {t \in S : Below(t, s)} = S \ {s}
  BY <1>1, BelowIsOrder
<1>3. Cardinality(S \ {s}) = Cardinality(S) - 1
  BY FS_RemoveElement
<1>4. Cardinality(S) \in Nat
  BY FS_CardinalityType
<1>5. Rank(S, s) = Cardinality(S)
  BY <1>2, <1>3, <1>4 DEF Rank
<1> QED
  BY <1>5

\* A snapshot above all others is numbered one past them and renumbers none:
\* what lets a local write append a row instead of merging again.
LEMMA AppendRank ==
    ASSUME NEW S \in SUBSET Op, IsFiniteSet(S), NEW n \in Op,
           \A s \in S : s.lam < n.lam
    PROVE  /\ Cardinality(S \cup {n}) = Cardinality(S) + 1
           /\ Versions(S \cup {n}) =
                 Versions(S) \cup {[version |-> Cardinality(S) + 1, op |-> n.id]}
<1> DEFINE T == S \cup {n}
<1>1. n.lam \in Nat /\ \A s \in S : s.lam \in Nat /\ s \in Op
  BY DEF Op
<1>2. n \notin S
  BY <1>1
<1>3. \A s \in S : Below(s, n) /\ ~Below(n, s)
  BY <1>1 DEF Below
<1>4. ~Below(n, n)
  BY BelowIsOrder
<1>5. Cardinality(T) = Cardinality(S) + 1
  BY <1>2, FS_AddElement
<1>6. {t \in T : Below(t, n)} = S
  BY <1>3, <1>4
<1>7. Rank(T, n) = Cardinality(S) + 1
  BY <1>6 DEF Rank
<1>8. ASSUME NEW s \in S PROVE Rank(T, s) = Rank(S, s)
  <2>1. {t \in T : Below(t, s)} = {t \in S : Below(t, s)}
    BY <1>3
  <2> QED
    BY <2>1 DEF Rank
<1>9. Versions(T) = Versions(S) \cup {[version |-> Rank(T, n), op |-> n.id]}
  BY <1>8 DEF Versions
<1> QED
  BY <1>5, <1>7, <1>9

-----------------------------------------------------------------------------
(* Tombstones.                                                              *)

\* A snapshot that has observed every delete clears the tombstone.
LEMMA ObservedDeletesCleared ==
    ASSUME NEW S, NEW D, NEW s \in S, \A x \in D : HappensBefore(x, s)
    PROVE  ResolveTombstone(S, D) = NoTomb
<1>1. SurvivingDeletes(S, D) = {}
  BY DEF SurvivingDeletes
<1> QED
  BY <1>1 DEF ResolveTombstone

\* A delete that has observed every snapshot, that none has observed and
\* that is above all other deletes is the tombstone.
LEMMA LatestDeleteWins ==
    ASSUME NEW S, NEW D \in SUBSET Op, NEW n \in D,
           \A s \in S : HappensBefore(s, n) /\ ~HappensBefore(n, s),
           \A x \in D \ {n} : Below(x, n)
    PROVE  ResolveTombstone(S, D) = n.id
<1> DEFINE live == SurvivingDeletes(S, D)
           canonical == CHOOSE x \in live : \A y \in live \ {x} : Below(y, x)
<1>1. n \in live /\ live \in SUBSET D
  BY DEF SurvivingDeletes
<1>2. \A y \in live \ {n} : Below(y, n)
  BY <1>1
<1>3. canonical \in live /\ \A y \in live \ {canonical} : Below(y, canonical)
  <2> HIDE DEF live
  <2> QED
    BY <1>1, <1>2
<1>4. canonical = n
  <2> HIDE DEF live, canonical
  <2> QED
    BY <1>1, <1>2, <1>3, BelowIsOrder
<1>5. ResolveTombstone(S, D) =
        IF live # {} /\ \A s \in S : HappensBefore(s, canonical)
        THEN canonical.id ELSE NoTomb
  BY DEF ResolveTombstone
<1> QED
  BY <1>1, <1>4, <1>5

=============================================================================
