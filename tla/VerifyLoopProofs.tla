-------------------------- MODULE VerifyLoopProofs --------------------------
(***************************************************************************)
(* The walk of verify_device_run stops with a set of operations that       *)
(* VerifyChain!AcceptedRuns allows, for any log held and any run, and      *)
(* raises no alarm over intact copies of one chain.  What VaultSyncProofs  *)
(* proves of AcceptedRuns holds of the walk.                               *)
(***************************************************************************)
EXTENDS VerifyLoop, MergeProofs

-----------------------------------------------------------------------------
(* The inductive invariant.                                                 *)

\* The operations looked at so far, and what the vault will hold with those
\* accepted so far.
Looked == 1 .. pos - 1

Reached == held \cup ToSet(accepted)

LoopTypeOK ==
    /\ held \in HeldLogs
    /\ input \in Runs
    /\ pos \in 1 .. Len(input) + 1
    /\ expected \in Nat
    /\ accepted \in Seq(Op)

\* What has been accepted was looked at, is new and signed, and extends what
\* is held link by link.
AcceptedChain ==
    /\ \A o \in ToSet(accepted) : \E n \in Looked : o = input[n]
    /\ \A o \in ToSet(accepted) : o.sig /\ o.seq > HeadSeq(held, Signer)
    /\ Chained(held, Signer, ToSet(accepted))

\* Nothing was passed over: what was looked at is held, or is a copy of what
\* was accepted by then.
LookedAreKnown ==
    \A n \in Looked :
        \/ input[n].id \in KnownIds(held, Signer)
        \/ \E q \in ToSet(accepted) : q.id = input[n].id /\ q.seq <= input[n].seq

\* The rolling state is the head of what was reached, and the operation it
\* waits for was not passed over.
OnTrack ==
    /\ expected = HeadSeq(Reached, Signer) + 1
    /\ prevFull = HeadHash(Reached, Signer)
    /\ lastLam = HeadLamport(Reached, Signer)
    /\ \A n \in Looked : input[n].seq # expected

\* A damaged copy with a known id stood where the next operation should: the
\* cursor moved past it, onto a hash nothing was ever signed over.
Derailed ==
    /\ expected > HeadSeq(Reached, Signer) + 1
    /\ ~prevFull[2]
    /\ \E n \in Looked : input[n].seq = HeadSeq(Reached, Signer) + 1 /\ ~input[n].sig

LoopInv ==
    /\ LoopTypeOK
    /\ AcceptedChain
    /\ LookedAreKnown
    /\ OnTrack \/ Derailed
    /\ WalkIsAccepted

-----------------------------------------------------------------------------
(* Chains and heads.                                                        *)

\* An operation one past the head becomes the head.
LEMMA HeadMoves ==
    ASSUME NEW M \in SUBSET Op, IsFiniteSet(M), NEW a, NEW o \in Op,
           o.dev = a, o.seq = HeadSeq(M, a) + 1
    PROVE  /\ HeadSeq(M \cup {o}, a) = o.seq
           /\ HeadHash(M \cup {o}, a) = ChainHash(o)
           /\ HeadLamport(M \cup {o}, a) = o.lam
<1> DEFINE N == M \cup {o}
<1>1. HeadSeq(M, a) \in Nat /\ \A q \in OpsBy(M, a) : q.seq <= HeadSeq(M, a)
  BY HeadSeqProperty
<1>2. N \in SUBSET Op /\ IsFiniteSet(N)
  BY FS_AddElement
<1>3. o \in OpsBy(N, a) /\ \A q \in OpsBy(N, a) : q = o \/ q \in OpsBy(M, a)
  BY DEF OpsBy
<1>4. \A q \in OpsBy(M, a) : q.seq \in Nat
  BY DEF OpsBy, Op
<1> HIDE DEF N
<1>5. /\ HeadSeq(N, a) \in Nat
      /\ \A q \in OpsBy(N, a) : q.seq <= HeadSeq(N, a)
      /\ HeadSeq(N, a) # 0 => \E q \in OpsBy(N, a) : q.seq = HeadSeq(N, a)
  BY <1>2, HeadSeqProperty
<1>6. HeadSeq(N, a) = o.seq
  BY <1>1, <1>3, <1>4, <1>5
<1>7. \A q \in OpsBy(N, a) : q.seq = HeadSeq(N, a) => q = o
  BY <1>1, <1>3, <1>4, <1>6
<1>8. (CHOOSE q \in OpsBy(N, a) : q.seq = HeadSeq(N, a)) = o
  BY <1>3, <1>6, <1>7
<1>9. OpsBy(N, a) # {}
  BY <1>3
<1> QED
  BY <1>6, <1>8, <1>9 DEF HeadHash, HeadLamport, N

\* What is below the last operation, and below the others.
LEMMA BelowLast ==
    ASSUME NEW A, NEW o, o.seq \in Nat, \A p \in A : p.seq \in Nat /\ p.seq < o.seq
    PROVE  /\ {p \in A \cup {o} : p.seq < o.seq} = A
           /\ \A q \in A : {p \in A \cup {o} : p.seq < q.seq} = {p \in A : p.seq < q.seq}
<1>1. \A k \in Nat : ~(k < k) /\ \A m \in Nat : m < k => ~(k < m)
  OBVIOUS
<1> QED
  BY <1>1

\* An operation that extends the head of a chain lengthens the chain.
LEMMA ChainGrows ==
    ASSUME NEW L \in SUBSET Op, IsFiniteSet(L), NEW A \in SUBSET Op, IsFiniteSet(A),
           NEW a, \A p \in A : p.dev = a, Chained(L, a, A),
           NEW o \in Op, o.seq = HeadSeq(L \cup A, a) + 1,
           Extends(o, HeadHash(L \cup A, a), HeadLamport(L \cup A, a))
    PROVE  Chained(L, a, A \cup {o})
<1>1. L \cup A \in SUBSET Op /\ IsFiniteSet(L \cup A)
  BY FS_Union
<1>2. HeadSeq(L \cup A, a) \in Nat /\ \A q \in OpsBy(L \cup A, a) : q.seq <= HeadSeq(L \cup A, a)
  BY <1>1, HeadSeqProperty
<1>3. o.seq \in Nat /\ \A p \in A : p.seq \in Nat /\ p.seq < o.seq
  <2>1. PICK h \in Nat : h = HeadSeq(L \cup A, a)
    BY <1>2
  <2>2. \A p \in A : p \in OpsBy(L \cup A, a)
    BY DEF OpsBy
  <2>3. \A p \in A : p.seq \in Nat /\ p.seq <= h
    BY <2>1, <2>2, <1>2 DEF Op
  <2>4. o.seq = h + 1
    BY <2>1
  <2>5. PICK k \in Nat : k = o.seq /\ k = h + 1
    BY <2>4
  <2>6. \A p \in A : p.seq < k
    BY <2>3, <2>5
  <2> QED
    BY <2>3, <2>5, <2>6
<1>4. \A p, q \in A \cup {o} : p.seq = q.seq => p = q
  <2>1. \A p, q \in A : p.seq = q.seq => p = q
    BY DEF Chained
  <2> QED
    BY <2>1, <1>3
<1>5. {p \in A \cup {o} : p.seq < o.seq} = A
  BY <1>3, BelowLast
<1>6. \A q \in A : {p \in A \cup {o} : p.seq < q.seq} = {p \in A : p.seq < q.seq}
  BY <1>3, BelowLast, Zenon
<1>7. ASSUME NEW q \in A \cup {o}
      PROVE  LET before == L \cup {p \in A \cup {o} : p.seq < q.seq}
             IN  /\ q.seq = HeadSeq(before, a) + 1
                 /\ Extends(q, HeadHash(before, a), HeadLamport(before, a))
  <2>1. CASE q = o
    BY <2>1, <1>5
  <2>2. CASE q \in A
    <3>1. PICK before : before = L \cup {p \in A : p.seq < q.seq}
      OBVIOUS
    <3>2. /\ q.seq = HeadSeq(before, a) + 1
          /\ Extends(q, HeadHash(before, a), HeadLamport(before, a))
      BY <2>2, <3>1 DEF Chained
    <3>3. L \cup {p \in A \cup {o} : p.seq < q.seq} = before
      BY <2>2, <3>1, <1>6
    <3> QED
      BY <3>2, <3>3
  <2> QED
    BY <2>1, <2>2
<1> QED
  BY <1>4, <1>7 DEF Chained

\* The elements of an appended sequence.
LEMMA AppendedSet ==
    ASSUME NEW T, NEW s \in Seq(T), NEW x \in T
    PROVE  ToSet(Append(s, x)) = ToSet(s) \cup {x}
<1>1. Append(s, x) \in Seq(T) /\ DOMAIN Append(s, x) = 1 .. Len(s) + 1 /\ DOMAIN s = 1 .. Len(s)
  OBVIOUS
<1>2. Append(s, x)[Len(s) + 1] = x /\ \A n \in 1 .. Len(s) : Append(s, x)[n] = s[n]
  OBVIOUS
<1>3. Len(s) \in Nat
  OBVIOUS
<1> QED
  BY <1>1, <1>2, <1>3 DEF ToSet

-----------------------------------------------------------------------------
(* Consequences of the invariant in one state.                              *)

\* What the walk works on: operations of the author, finitely many.
LEMMA LoopFacts ==
    ASSUME LoopTypeOK, AcceptedChain
    PROVE  /\ held \in SUBSET Op /\ IsFiniteSet(held)
           /\ \A o \in held : o.dev = Signer /\ o.sig
           /\ ToSet(accepted) \in SUBSET Op /\ IsFiniteSet(ToSet(accepted))
           /\ \A o \in ToSet(accepted) : o.dev = Signer /\ o \in ToSet(input)
           /\ Reached \in SUBSET Op /\ IsFiniteSet(Reached)
           /\ input \in Seq(Op) /\ DOMAIN input = 1 .. Len(input) /\ Len(input) \in Nat
           /\ \A n \in 1 .. Len(input) : input[n] \in Op /\ input[n].dev = Signer
           /\ \A m, n \in 1 .. Len(input) : m < n => input[m].seq <= input[n].seq
           /\ Looked \subseteq 1 .. Len(input)
           /\ Genuine(held \cup ToSet(input))
<1>1. IsHeld(held) /\ IsRun(input) /\ Genuine(held \cup ToSet(input))
  BY RunsAssumption DEF LoopTypeOK
<1>2. input \in Seq(Op) /\ DOMAIN input = 1 .. Len(input) /\ Len(input) \in Nat
  BY <1>1 DEF IsRun
<1>3. Looked \subseteq 1 .. Len(input)
  BY <1>2 DEF Looked, LoopTypeOK
<1>4. accepted \in Seq(Op) /\ DOMAIN accepted = 1 .. Len(accepted) /\ Len(accepted) \in Nat
  BY DEF LoopTypeOK
<1>5. ToSet(accepted) \in SUBSET Op
  BY <1>4 DEF ToSet
<1>6. IsFiniteSet(ToSet(accepted))
  <2>1. accepted \in Surjection(1 .. Len(accepted), ToSet(accepted))
    <3>1. accepted \in [1 .. Len(accepted) -> ToSet(accepted)]
      BY <1>4 DEF ToSet
    <3>2. \A x \in ToSet(accepted) : \E n \in 1 .. Len(accepted) : accepted[n] = x
      BY <1>4 DEF ToSet
    <3> QED
      BY <3>1, <3>2 DEF Surjection
  <2>2. IsFiniteSet(1 .. Len(accepted))
    BY <1>4, FS_Interval
  <2> QED
    BY <2>1, <2>2, FS_Surjection, Zenon
<1>7. \A o \in ToSet(accepted) : o.dev = Signer /\ o \in ToSet(input)
  BY <1>1, <1>2, <1>3 DEF AcceptedChain, IsRun, ToSet
<1>8. held \in SUBSET Op /\ IsFiniteSet(held) /\ \A o \in held : o.dev = Signer /\ o.sig
  BY <1>1 DEF IsHeld
<1>9. Reached \in SUBSET Op /\ IsFiniteSet(Reached)
  BY <1>5, <1>6, <1>8, FS_Union DEF Reached
<1>10. \A n \in 1 .. Len(input) : input[n] \in Op /\ input[n].dev = Signer
  BY <1>1, <1>2 DEF IsRun
<1>11. \A m, n \in 1 .. Len(input) : m < n => input[m].seq <= input[n].seq
  BY <1>1, <1>2 DEF IsRun
<1> QED
  BY <1>1, <1>2, <1>3, <1>5, <1>6, <1>7, <1>8, <1>9, <1>10, <1>11

\* A signed operation with a known id is the one that is known, so it is at
\* or below the head: only a damaged copy can derail the walk.
LEMMA SeenSigned ==
    ASSUME LoopTypeOK, AcceptedChain, NEW n \in 1 .. Len(input), Seen(input[n]), input[n].sig
    PROVE  input[n] \in Reached /\ input[n].seq <= HeadSeq(Reached, Signer)
<1> DEFINE o == input[n]
<1>1. PICK q \in Reached : q.id = o.id
  BY DEF Seen, KnownIds, OpsBy, Reached, ToSet
<1>2. q.sig /\ q \in held \cup ToSet(input)
  BY LoopFacts DEF Reached, AcceptedChain
<1>3. o \in ToSet(input)
  BY LoopFacts DEF ToSet
<1>4. q = o
  BY <1>1, <1>2, <1>3, LoopFacts DEF Genuine
<1>5. \A r \in OpsBy(Reached, Signer) : r.seq <= HeadSeq(Reached, Signer)
  BY LoopFacts, HeadSeqProperty
<1> QED
  BY <1>1, <1>4, <1>5, LoopFacts DEF OpsBy

\* Wherever the declarative verifier may stop, what the walk has accepted is
\* one of its outcomes.
LEMMA StopAllowed ==
    ASSUME LoopTypeOK, AcceptedChain, LookedAreKnown,
           \/ Regressed(held, Signer, ToSet(input))
           \/ MayStop(held, Signer, ToSet(input), ToSet(accepted))
    PROVE  ToSet(accepted) \in AcceptedRuns(held, Signer, ToSet(input))
<1> DEFINE A == ToSet(accepted)
           R == ToSet(input)
           H == HeadSeq(held, Signer)
<1>1. H \in Nat
  BY LoopFacts, HeadSeqProperty
<1>2. \A o \in A : o \in Op /\ o.seq \in Nat /\ o.seq > H /\ \E m \in Looked : o = input[m]
  BY LoopFacts DEF AcceptedChain, Op
<1>3. \A p \in R : \E n \in 1 .. Len(input) : p = input[n]
  BY LoopFacts DEF ToSet
<1>4. \A n \in 1 .. Len(input) : input[n].seq \in Nat
  BY LoopFacts DEF Op
<1> HIDE DEF A, R
\* An operation below an accepted one was looked at, hence is known.
<1>5. ASSUME NEW p \in R, NEW o \in A, p.seq < o.seq
      PROVE  \/ p.id \in KnownIds(held, Signer)
             \/ \E q \in A : q.id = p.id /\ q.seq <= p.seq
  <2>1. PICK n \in 1 .. Len(input) : p = input[n]
    BY <1>3
  <2>2. PICK m \in Looked : o = input[m]
    BY <1>2
  <2>3. m \in 1 .. Len(input) /\ m \in Int /\ n \in Int
    BY LoopFacts
  <2>4. ~(m < n) /\ m # n
    BY <2>1, <2>2, <2>3, <1>4, <1>5, LoopFacts
  <2>5. n \in Looked
    BY <2>2, <2>3, <2>4, LoopFacts DEF Looked, LoopTypeOK
  <2> QED
    BY <2>1, <2>5 DEF LookedAreKnown, A
<1>6. ASSUME Regressed(held, Signer, R) PROVE A = {}
  <2>1. PICK p \in R : p.seq <= H /\ p.id \notin KnownIds(held, Signer)
    BY <1>6 DEF Regressed
  <2>2. p.seq \in Nat
    BY <1>3, <1>4
  <2>3. ASSUME NEW o \in A PROVE FALSE
    <3>1. p.seq < o.seq
      BY <2>1, <2>2, <1>1, <1>2
    <3>2. PICK q \in A : q.seq <= p.seq
      BY <3>1, <2>1, <1>5
    <3> QED
      BY <3>2, <2>1, <2>2, <1>1, <1>2
  <2> QED
    BY <2>3
<1>7. CASE Regressed(held, Signer, R)
  BY <1>6, <1>7 DEF AcceptedRuns, A, R
<1>8. CASE ~Regressed(held, Signer, R)
  <2>1. A \in SUBSET R
    BY LoopFacts DEF A, R
  <2>2. Chained(held, Signer, A)
    BY DEF AcceptedChain, A
  <2>3. ASSUME NEW o \in A, o.seq < HeadSeq(held \cup A, Signer)
        PROVE  ~Replayed(held, Signer, R, A, o)
    <3>1. held \cup A \in SUBSET Op /\ IsFiniteSet(held \cup A)
      BY LoopFacts DEF Reached, A
    <3>2. PICK top \in OpsBy(held \cup A, Signer) : top.seq = HeadSeq(held \cup A, Signer)
      BY <3>1, <2>3, <1>2, HeadSeqProperty
    <3>3. \A q \in OpsBy(held, Signer) : q.seq <= H
      BY LoopFacts, HeadSeqProperty
    <3>4. top \in A
      <4>1. top \in Op /\ top.seq \in Nat
        BY <3>1, <3>2 DEF OpsBy, Op
      <4>2. top \notin held
        BY <4>1, <3>2, <3>3, <2>3, <1>1, <1>2 DEF OpsBy
      <4> QED
        BY <4>2, <3>2 DEF OpsBy
    <3>5. ASSUME NEW p \in R, p.seq = o.seq
          PROVE  p.id \in KnownIds(held, Signer) \cup {q.id : q \in {r \in A : r.seq <= o.seq}}
      <4>1. p.seq < top.seq
        BY <3>2, <3>5, <2>3
      <4>2. \/ p.id \in KnownIds(held, Signer)
            \/ \E q \in A : q.id = p.id /\ q.seq <= p.seq
        BY <4>1, <3>4, <1>5
      <4> QED
        BY <4>2, <3>5
    <3> QED
      BY <3>5 DEF Replayed
  <2>4. MayStop(held, Signer, R, A)
    BY <1>8 DEF A, R
  <2>5. \A o \in A : o.seq > HeadSeq(held, Signer)
    BY <1>2
  <2> QED
    BY <2>1, <2>2, <2>3, <2>4, <2>5, <1>8 DEF AcceptedRuns, A, R
<1> QED
  BY <1>7, <1>8

\* A derailed walk stands before a damaged copy of the next operation.
LEMMA DerailedMayStop ==
    ASSUME LoopTypeOK, AcceptedChain, Derailed
    PROVE  MayStop(held, Signer, ToSet(input), ToSet(accepted))
<1>1. PICK n \in Looked : input[n].seq = HeadSeq(Reached, Signer) + 1 /\ ~input[n].sig
  BY DEF Derailed
<1>2. input[n] \in ToSet(input)
  BY LoopFacts DEF ToSet
<1> QED
  BY <1>1, <1>2 DEF MayStop, Extends, Reached

\* Every way the walk stops is one the declarative verifier allows.
LEMMA StoppedAllowed ==
    ASSUME LoopInv, outcome = "walking",
           \/ pos > Len(input)
           \/ Looking /\ ~Seen(input[pos]) /\ input[pos].seq # expected
           \/ Looking /\ input[pos].seq = expected /\ ~Extends(input[pos], prevFull, lastLam)
    PROVE  ToSet(accepted) \in AcceptedRuns(held, Signer, ToSet(input))
<1> DEFINE R == ToSet(input)
           A == ToSet(accepted)
           top == HeadSeq(Reached, Signer)
           next == {o \in R : o.seq = top + 1}
<1>1. LoopTypeOK /\ AcceptedChain /\ LookedAreKnown /\ (OnTrack \/ Derailed)
  BY DEF LoopInv
<1>2. CASE Derailed
  BY <1>1, <1>2, DerailedMayStop, StopAllowed
<1>3. CASE OnTrack
  <2>1. expected = top + 1 /\ top \in Nat /\ \A n \in Looked : input[n].seq # expected
    BY <1>1, <1>3, LoopFacts, HeadSeqProperty DEF OnTrack
  <2>2. \A n \in 1 .. Len(input) : input[n].seq \in Nat
    BY <1>1, LoopFacts DEF Op
  <2>3. pos \in Nat /\ Len(input) \in Nat
    BY <1>1, LoopFacts DEF LoopTypeOK
  <2>4. \A p \in R : \E n \in 1 .. Len(input) : p = input[n]
    BY <1>1, LoopFacts DEF ToSet
  <2>5. ASSUME NEW p \in next
        PROVE  \E n \in 1 .. Len(input) : p = input[n] /\ n >= pos /\ input[n].seq = expected
    <3>1. PICK n \in 1 .. Len(input) : p = input[n]
      BY <2>4
    <3>2. n \notin Looked
      BY <3>1, <2>1, <2>2
    <3> QED
      BY <3>1, <3>2, <2>1, <2>3 DEF Looked
  <2>6. ASSUME next = {} PROVE MayStop(held, Signer, R, A)
    BY <2>6 DEF MayStop, Reached
  <2> HIDE DEF R, A, top, next
  <2>7. CASE pos > Len(input)
    <3>1. next = {}
      BY <2>3, <2>5, <2>7
    <3> QED
      BY <3>1, <2>6, <1>1, StopAllowed DEF R, A
  <2>8. CASE Looking /\ ~Seen(input[pos]) /\ input[pos].seq > expected
    <3>1. pos \in 1 .. Len(input)
      BY <2>3, <2>8, <1>1 DEF Looking, LoopTypeOK
    <3>2. \A n \in 1 .. Len(input) : n >= pos => input[n].seq > expected
      <4>1. \A n \in 1 .. Len(input) : pos < n => input[pos].seq <= input[n].seq
        BY <3>1, <1>1, LoopFacts
      <4> QED
        BY <4>1, <3>1, <2>1, <2>2, <2>8
    <3>3. next = {}
      BY <3>2, <2>1, <2>2, <2>5
    <3> QED
      BY <3>3, <2>6, <1>1, StopAllowed DEF R, A
  <2>9. CASE Looking /\ input[pos].seq = expected /\ ~Extends(input[pos], prevFull, lastLam)
    <3>1. input[pos] \in ToSet(input)
      BY <2>3, <2>9, <1>1, LoopFacts DEF Looking, LoopTypeOK, ToSet
    <3>2. MayStop(held, Signer, ToSet(input), ToSet(accepted))
      BY <3>1, <2>9, <1>3 DEF MayStop, OnTrack, Reached
    <3> QED
      BY <3>2, <1>1, StopAllowed
  <2>10. CASE Looking /\ ~Seen(input[pos]) /\ input[pos].seq < expected
    <3> DEFINE o == input[pos]
               H == HeadSeq(held, Signer)
    <3>1. pos \in 1 .. Len(input)
      BY <2>3, <2>10, <1>1 DEF Looking, LoopTypeOK
    <3>2. o \in ToSet(input) /\ o.seq \in Nat
      BY <3>1, <2>2, <1>1, LoopFacts DEF ToSet
    <3>3. o.id \notin KnownIds(held, Signer) /\ \A q \in ToSet(accepted) : q.id # o.id
      BY <2>10 DEF Seen, ToSet
    <3>4. CASE o.seq <= H
      <4>1. Regressed(held, Signer, ToSet(input))
        BY <3>2, <3>3, <3>4 DEF Regressed
      <4> QED
        BY <4>1, <1>1, StopAllowed
    <3>5. CASE ~(o.seq <= H)
      <4>1. H \in Nat /\ \A q \in OpsBy(held, Signer) : q.seq <= H
        BY <1>1, LoopFacts, HeadSeqProperty
      <4>2. top # 0 => \E q \in OpsBy(Reached, Signer) : q.seq = top
        BY <1>1, LoopFacts, HeadSeqProperty DEF top
      <4>3. o.seq <= top /\ top > H /\ top # 0
        BY <3>2, <3>5, <4>1, <2>1, <2>10
      <4>4. PICK q \in OpsBy(Reached, Signer) : q.seq = top
        BY <4>2, <4>3
      <4>5. q \in ToSet(accepted)
        BY <4>1, <4>3, <4>4, <2>1 DEF OpsBy, Reached
      <4>6. PICK m \in Looked : q = input[m]
        BY <4>5, <1>1 DEF AcceptedChain
      <4>7. m \in 1 .. Len(input) /\ m < pos
        BY <2>3, <1>1, LoopFacts DEF Looked
      <4>8. q.seq <= o.seq
        BY <4>6, <4>7, <3>1, <1>1, LoopFacts
      <4>9. o.seq = q.seq
        BY <4>8, <4>4, <4>3, <3>2, <2>1
      <4>10. Replayed(held, Signer, ToSet(input), ToSet(accepted), q)
        BY <4>9, <3>2, <3>3 DEF Replayed
      <4>11. MayStop(held, Signer, ToSet(input), ToSet(accepted))
        BY <4>4, <4>5, <4>10 DEF MayStop, Reached, top
      <4> QED
        BY <4>11, <1>1, StopAllowed
    <3> QED
      BY <3>4, <3>5
  <2>11. Looking => input[pos].seq \in Nat
    BY <2>2, <2>3, <1>1 DEF Looking, LoopTypeOK
  <2> QED
    BY <2>1, <2>7, <2>8, <2>9, <2>10, <2>11
<1> QED
  BY <1>1, <1>2, <1>3

-----------------------------------------------------------------------------
(* One lemma per kind of step.                                              *)

\* A known id is skipped: nothing is accepted, and only a damaged copy moves
\* the cursor.
LEMMA SkipInv ==
    ASSUME LoopInv, SkipKnown
    PROVE  LoopInv' /\ (OnTrack /\ (input[pos].sig \/ input[pos].seq # expected) => OnTrack')
<1> DEFINE o == input[pos]
           top == HeadSeq(Reached, Signer)
<1>1. LoopTypeOK /\ AcceptedChain /\ LookedAreKnown /\ (OnTrack \/ Derailed)
  BY DEF LoopInv
<1>2. /\ outcome = "walking" /\ pos <= Len(input) /\ Seen(o) /\ pos' = pos + 1
      /\ held' = held /\ input' = input /\ accepted' = accepted /\ outcome' = outcome
  BY DEF SkipKnown, Looking
<1>3. pos \in 1 .. Len(input) /\ pos \in Nat /\ Len(input) \in Nat
  BY <1>1, <1>2, LoopFacts DEF LoopTypeOK
<1>4. o \in Op /\ o.seq \in Nat /\ o.sig \in BOOLEAN /\ top \in Nat /\ expected \in Nat
  BY <1>1, <1>3, LoopFacts, HeadSeqProperty DEF LoopTypeOK, Op
<1>5. IF o.seq = expected
      THEN expected' = expected + 1 /\ prevFull' = ChainHash(o)
      ELSE expected' = expected /\ prevFull' = prevFull /\ lastLam' = lastLam
  BY DEF SkipKnown, Advance
<1>6. Looked' = Looked \cup {pos} /\ Reached' = Reached
  BY <1>2, <1>3 DEF Looked, Reached
<1>7. LoopTypeOK'
  BY <1>1, <1>2, <1>3, <1>4, <1>5 DEF LoopTypeOK
<1>8. AcceptedChain'
  BY <1>1, <1>2, <1>6 DEF AcceptedChain
<1>9. LookedAreKnown'
  <2>1. \/ o.id \in KnownIds(held, Signer)
        \/ \E q \in ToSet(accepted) : q.id = o.id /\ q.seq <= o.seq
    <3>1. CASE o.id \in KnownIds(held, Signer)
      BY <3>1
    <3>2. ASSUME NEW k \in DOMAIN accepted, accepted[k].id = o.id
          PROVE  \E q \in ToSet(accepted) : q.id = o.id /\ q.seq <= o.seq
      <4>1. accepted[k] \in ToSet(accepted)
        BY DEF ToSet
      <4>2. PICK m \in Looked : accepted[k] = input[m]
        BY <4>1, <1>1 DEF AcceptedChain
      <4>3. m \in 1 .. Len(input) /\ m < pos
        BY <1>1, <1>3, LoopFacts DEF Looked
      <4>4. input[m].seq <= o.seq
        BY <4>3, <1>1, <1>3, LoopFacts
      <4> QED
        BY <4>1, <4>2, <4>4, <3>2
    <3> QED
      BY <3>1, <3>2, <1>2 DEF Seen
  <2> QED
    BY <2>1, <1>1, <1>2, <1>6 DEF LookedAreKnown
<1>10. o.sig => o.seq <= top
  BY <1>1, <1>2, <1>3, SeenSigned
<1>11. CASE Derailed
  <2>1. expected > top + 1 /\ ~prevFull[2]
        /\ \E n \in Looked : input[n].seq = top + 1 /\ ~input[n].sig
    BY <1>11 DEF Derailed
  <2>2. expected' > top + 1
    BY <2>1, <1>4, <1>5
  <2>3. ~prevFull'[2]
    <3>1. CASE o.seq = expected
      <4>1. ~o.sig
        BY <3>1, <2>1, <1>4, <1>10
      <4> QED
        BY <3>1, <4>1, <1>5 DEF ChainHash
    <3> QED
      BY <3>1, <2>1, <1>5
  <2>4. \E n \in Looked' : input[n].seq = top + 1 /\ ~input[n].sig
    BY <2>1, <1>6
  <2>5. Derailed'
    BY <2>2, <2>3, <2>4, <1>2, <1>6 DEF Derailed
  <2>6. ~OnTrack
    BY <2>1, <1>4 DEF OnTrack
  <2> QED
    BY <2>5, <2>6, <1>2, <1>7, <1>8, <1>9 DEF LoopInv, WalkIsAccepted
<1>12. CASE OnTrack
  <2>1. expected = top + 1 /\ \A n \in Looked : input[n].seq # expected
    BY <1>12 DEF OnTrack
  <2>2. CASE o.seq = expected
    <3>1. ~o.sig
      BY <2>1, <2>2, <1>4, <1>10
    <3>2. expected' > top + 1 /\ ~prevFull'[2]
      BY <3>1, <2>1, <2>2, <1>4, <1>5 DEF ChainHash
    <3>3. pos \in Looked' /\ o.seq = top + 1
      BY <2>1, <2>2, <1>6
    <3>4. Derailed'
      BY <3>1, <3>2, <3>3, <1>2, <1>6 DEF Derailed
    <3> QED
      BY <3>1, <3>4, <2>2, <1>2, <1>7, <1>8, <1>9 DEF LoopInv, WalkIsAccepted
  <2>3. CASE o.seq # expected
    <3>2. expected' = expected /\ prevFull' = prevFull /\ lastLam' = lastLam
      BY <2>3, <1>5
    <3>3. OnTrack'
      BY <3>2, <2>1, <2>3, <1>2, <1>6, <1>12 DEF OnTrack
    <3> QED
      BY <3>3, <1>2, <1>7, <1>8, <1>9 DEF LoopInv, WalkIsAccepted
  <2> QED
    BY <2>2, <2>3
<1> QED
  BY <1>1, <1>11, <1>12

\* An operation that extends the head of what was reached is the next link:
\* the chain grows by it, and it becomes the head.
LEMMA AcceptInv ==
    ASSUME LoopInv, Accept
    PROVE  LoopInv' /\ OnTrack'
<1> DEFINE o == input[pos]
           A == ToSet(accepted)
           top == HeadSeq(Reached, Signer)
<1>1. LoopTypeOK /\ AcceptedChain /\ LookedAreKnown /\ (OnTrack \/ Derailed)
  BY DEF LoopInv
<1>2. /\ outcome = "walking" /\ pos <= Len(input) /\ ~Seen(o) /\ pos' = pos + 1
      /\ o.seq = expected /\ Extends(o, prevFull, lastLam)
      /\ accepted' = Append(accepted, o)
      /\ expected' = expected + 1 /\ prevFull' = ChainHash(o) /\ lastLam' = o.lam
      /\ held' = held /\ input' = input /\ outcome' = outcome
  BY DEF Accept, Looking, Advance
<1>3. pos \in 1 .. Len(input) /\ pos \in Nat /\ Len(input) \in Nat
  BY <1>1, <1>2, LoopFacts DEF LoopTypeOK
<1>4. o \in Op /\ o.dev = Signer /\ o.seq \in Nat /\ top \in Nat /\ expected \in Nat
  BY <1>1, <1>3, LoopFacts, HeadSeqProperty DEF LoopTypeOK, Op
<1>5. OnTrack
  <2>1. o \in held \cup ToSet(input) /\ o.sig
    BY <1>1, <1>2, <1>3, LoopFacts DEF ToSet, Extends
  <2>2. prevFull[2]
    BY <2>1, <1>1, <1>2, LoopFacts DEF Genuine, Extends
  <2> QED
    BY <2>2, <1>1 DEF Derailed
<1>6. /\ o.seq = top + 1
      /\ Extends(o, HeadHash(Reached, Signer), HeadLamport(Reached, Signer))
  BY <1>2, <1>5 DEF OnTrack
<1>7. Looked' = Looked \cup {pos} /\ pos \notin Looked
  BY <1>2, <1>3 DEF Looked
<1>8. accepted \in Seq(Op)
  BY <1>1 DEF LoopTypeOK
<1>9. ToSet(accepted') = A \cup {o}
  BY <1>2, <1>4, <1>8, AppendedSet
<1>10. Reached' = Reached \cup {o}
  BY <1>2, <1>9 DEF Reached
<1>11. LoopTypeOK'
  <2>1. accepted' \in Seq(Op)
    BY <1>2, <1>4, <1>8
  <2> QED
    BY <2>1, <1>1, <1>2, <1>3, <1>4 DEF LoopTypeOK
<1>12. AcceptedChain'
  <2>1. \A p \in A \cup {o} : \E n \in Looked \cup {pos} : p = input[n]
    BY <1>1 DEF AcceptedChain
  <2>2. o.sig /\ o.seq > HeadSeq(held, Signer)
    <3>1. HeadSeq(held, Signer) \in Nat
          /\ (HeadSeq(held, Signer) # 0 => \E q \in OpsBy(held, Signer) : q.seq = HeadSeq(held, Signer))
      BY <1>1, LoopFacts, HeadSeqProperty
    <3>2. \A q \in OpsBy(held, Signer) : q.seq <= top
      BY <1>1, LoopFacts, HeadSeqProperty DEF OpsBy, Reached
    <3>3. HeadSeq(held, Signer) <= top
      BY <3>1, <3>2, <1>4
    <3> QED
      BY <3>1, <3>3, <1>2, <1>4, <1>6 DEF Extends
  <2>3. \A p \in A : p.sig /\ p.seq > HeadSeq(held, Signer)
    BY <1>1 DEF AcceptedChain
  <2>4. Chained(held, Signer, A \cup {o})
    <3>1. /\ held \in SUBSET Op /\ IsFiniteSet(held) /\ A \in SUBSET Op /\ IsFiniteSet(A)
          /\ \A p \in A : p.dev = Signer
      BY <1>1, LoopFacts
    <3>2. Chained(held, Signer, A) /\ Reached = held \cup A
      BY <1>1 DEF AcceptedChain, Reached
    <3> HIDE DEF A, o
    <3> QED
      BY <3>1, <3>2, <1>4, <1>6, ChainGrows
  <2> QED
    BY <2>1, <2>2, <2>3, <2>4, <1>2, <1>7, <1>9 DEF AcceptedChain
<1>13. LookedAreKnown'
  <2>1. o.seq <= o.seq
    BY <1>4
  <2> QED
    BY <2>1, <1>1, <1>2, <1>7, <1>9 DEF LookedAreKnown
<1>14. OnTrack'
  <2>1. /\ HeadSeq(Reached \cup {o}, Signer) = o.seq
        /\ HeadHash(Reached \cup {o}, Signer) = ChainHash(o)
        /\ HeadLamport(Reached \cup {o}, Signer) = o.lam
    <3>1. Reached \in SUBSET Op /\ IsFiniteSet(Reached)
      BY <1>1, LoopFacts
    <3> HIDE DEF o
    <3> QED
      BY <3>1, <1>4, <1>6, HeadMoves
  <2>2. \A n \in Looked \cup {pos} : input[n].seq \in Nat /\ input[n].seq <= o.seq
    <3>1. \A n \in Looked : n \in 1 .. Len(input) /\ n < pos
      BY <1>1, <1>3, LoopFacts DEF Looked
    <3>2. \A n \in Looked : input[n].seq \in Nat /\ input[n].seq <= o.seq
      BY <3>1, <1>1, <1>3, LoopFacts DEF Op
    <3> QED
      BY <3>2, <1>4
  <2>3. \A n \in Looked \cup {pos} : input[n].seq # o.seq + 1
    BY <2>2, <1>4
  <2> QED
    BY <2>1, <2>3, <1>2, <1>7, <1>10 DEF OnTrack
<1> QED
  BY <1>2, <1>11, <1>12, <1>13, <1>14 DEF LoopInv, WalkIsAccepted

\* Stopping changes the outcome alone.
LEMMA StopInv ==
    ASSUME LoopInv, Regression \/ Gap \/ Reject \/ Finish
    PROVE  LoopInv' /\ (OnTrack => OnTrack')
<1>1. UNCHANGED <<held, input, pos, expected, prevFull, lastLam, accepted>>
  BY DEF Regression, Gap, Reject, Finish, Stop
<1>2. LoopTypeOK /\ AcceptedChain /\ LookedAreKnown /\ (OnTrack \/ Derailed)
  BY DEF LoopInv
<1>3. ToSet(accepted) \in AcceptedRuns(held, Signer, ToSet(input))
  <2>1. Looking => pos \in 1 .. Len(input) /\ input[pos].seq \in Nat /\ expected \in Nat
    BY <1>2, LoopFacts DEF Looking, LoopTypeOK, Op
  <2>2. CASE Regression
    BY <2>1, <2>2, StoppedAllowed DEF Regression, Looking
  <2>3. CASE Gap
    BY <2>1, <2>3, StoppedAllowed DEF Gap, Looking
  <2>4. CASE Reject
    BY <2>4, StoppedAllowed DEF Reject, Looking
  <2>5. CASE Finish
    BY <2>5, StoppedAllowed DEF Finish
  <2> QED
    BY <2>2, <2>3, <2>4, <2>5
<1>4. Looked' = Looked /\ Reached' = Reached
  BY <1>1 DEF Looked, Reached
<1>5. LoopTypeOK' /\ AcceptedChain' /\ LookedAreKnown' /\ WalkIsAccepted'
  BY <1>1, <1>2, <1>3, <1>4 DEF LoopTypeOK, AcceptedChain, LookedAreKnown, WalkIsAccepted
<1>6. (OnTrack => OnTrack') /\ (Derailed => Derailed')
  BY <1>1, <1>4 DEF OnTrack, Derailed
<1> QED
  BY <1>2, <1>5, <1>6 DEF LoopInv

LEMMA StutterInv ==
    ASSUME LoopInv, UNCHANGED loopVars
    PROVE  LoopInv' /\ (OnTrack => OnTrack')
<1>1. UNCHANGED <<held, input, pos, expected, prevFull, lastLam, accepted, outcome>>
  BY DEF loopVars
<1>2. Looked' = Looked /\ Reached' = Reached
  BY <1>1 DEF Looked, Reached
<1>3. (OnTrack => OnTrack') /\ (Derailed => Derailed')
  BY <1>1, <1>2 DEF OnTrack, Derailed
<1> QED
  BY <1>1, <1>2, <1>3
  DEF LoopInv, LoopTypeOK, AcceptedChain, LookedAreKnown, WalkIsAccepted

LEMMA InitInv ==
    ASSUME LoopInit
    PROVE  LoopInv /\ OnTrack
<1>1. IsHeld(held) /\ IsRun(input)
  BY RunsAssumption DEF LoopInit
<1>2. ToSet(accepted) = {} /\ Looked = {}
  BY DEF LoopInit, ToSet, Looked
<1>3. Reached = held
  BY <1>2 DEF Reached
<1>4. HeadSeq(held, Signer) \in Nat
  BY <1>1, HeadSeqProperty DEF IsHeld
<1>5. LoopTypeOK
  BY <1>1, <1>4 DEF LoopInit, LoopTypeOK, IsRun
<1>6. OnTrack
  BY <1>2, <1>3 DEF LoopInit, OnTrack
<1>7. AcceptedChain /\ LookedAreKnown
  BY <1>2 DEF AcceptedChain, LookedAreKnown, Chained
<1> QED
  BY <1>5, <1>6, <1>7 DEF LoopInv, WalkIsAccepted, LoopInit

-----------------------------------------------------------------------------

\* The inductive invariant of the walk of verify_device_run.
THEOREM LoopInvariance == LoopSpec => []LoopInv
<1>1. LoopInit => LoopInv
  BY InitInv
<1>2. LoopInv /\ [LoopNext]_loopVars => LoopInv'
  BY SkipInv, AcceptInv, StopInv, StutterInv DEF LoopNext, Done
<1> QED
  BY <1>1, <1>2, PTL DEF LoopSpec

\* For every log held and every run received, verify_device_run stops with a
\* set of operations the declarative verifier allows: VaultSync may take its
\* walk as one step.
THEOREM WalkConforms == LoopSpec => []WalkIsAccepted
<1>1. LoopInv => WalkIsAccepted
  BY DEF LoopInv
<1> QED
  BY <1>1, LoopInvariance, PTL

-----------------------------------------------------------------------------
(* A run of intact copies.                                                  *)

\* The antecedent of HonestRunRaisesNoAlarm.
Honest ==
    /\ OneChain(Signer, held \cup ToSet(input))
    /\ {o.seq : o \in held} = 1 .. HeadSeq(held, Signer)

HonestInv == Honest => OnTrack /\ outcome \in {"walking", "Accepted", "Pending"}

\* On an honest run nothing at or below the head is new, and what stands next
\* extends the head: neither Regression nor Reject is possible.
LEMMA HonestMeets ==
    ASSUME LoopInv, Honest, OnTrack, Looking, ~Seen(input[pos])
    PROVE  /\ ~(input[pos].seq < expected)
           /\ input[pos].seq = expected => Extends(input[pos], prevFull, lastLam)
<1> DEFINE o == input[pos]
           C == held \cup ToSet(input)
           H == HeadSeq(held, Signer)
           top == HeadSeq(Reached, Signer)
<1>1. LoopTypeOK /\ AcceptedChain
  BY DEF LoopInv
<1>2. pos \in 1 .. Len(input) /\ pos \in Nat /\ Len(input) \in Nat
  BY <1>1, LoopFacts DEF LoopTypeOK, Looking
<1>3. o \in Op /\ o.seq \in Nat /\ o.lam \in Nat /\ o \in C
  BY <1>1, <1>2, LoopFacts DEF Op, ToSet
<1>4. Reached \subseteq C
  BY <1>1, LoopFacts DEF Reached
<1>5. \A q \in OpsBy(Reached, Signer) : q \in Reached /\ q \in C /\ q.seq <= top
  BY <1>1, <1>4, LoopFacts, HeadSeqProperty DEF OpsBy
<1>6. top \in Nat /\ (top # 0 => \E q \in OpsBy(Reached, Signer) : q.seq = top)
  BY <1>1, LoopFacts, HeadSeqProperty
<1>7. /\ expected = top + 1 /\ prevFull = HeadHash(Reached, Signer)
      /\ lastLam = HeadLamport(Reached, Signer)
  BY DEF OnTrack
<1>8. \A p, q \in C :
          /\ p.sig /\ p.seq >= 1
          /\ p.seq = q.seq => p = q
          /\ p.seq = 1 => p.prev = Genesis(Signer)
          /\ p.seq = q.seq + 1 => p.prev = ChainHash(q) /\ p.lam >= q.lam
  BY DEF Honest, OneChain
<1>9. o \notin Reached
  BY <1>1, LoopFacts DEF Seen, KnownIds, OpsBy, Reached, ToSet
<1>10. H \in Nat /\ \A q \in OpsBy(held, Signer) : q.seq <= H
  BY <1>1, LoopFacts, HeadSeqProperty
<1> HIDE DEF C, H, top
<1>11. ~(o.seq < expected)
  <2>1. SUFFICES ASSUME o.seq <= top PROVE FALSE
    BY <1>3, <1>6, <1>7
  <2>2. CASE o.seq <= H
    <3>1. o.seq \in 1 .. H
      BY <2>2, <1>3, <1>8, <1>10
    <3>2. PICK q \in held : q.seq = o.seq
      BY <3>1 DEF Honest, H
    <3> QED
      BY <3>2, <1>3, <1>8, <1>9 DEF C, Reached
  <2>3. CASE ~(o.seq <= H)
    <3>1. top > H /\ top # 0
      BY <2>1, <2>3, <1>3, <1>6, <1>10
    <3>2. PICK q \in OpsBy(Reached, Signer) : q.seq = top
      BY <3>1, <1>6
    <3>3. q \in ToSet(accepted)
      BY <3>1, <3>2, <1>6, <1>10 DEF OpsBy, Reached
    <3>4. PICK m \in Looked : q = input[m]
      BY <3>3, <1>1 DEF AcceptedChain
    <3>5. m \in 1 .. Len(input) /\ m < pos
      BY <1>1, <1>2, LoopFacts DEF Looked
    <3>6. q.seq <= o.seq
      BY <3>4, <3>5, <1>1, <1>2, LoopFacts
    <3>7. o.seq = q.seq
      BY <3>2, <3>6, <2>1, <1>3, <1>6
    <3> QED
      BY <3>2, <3>7, <1>3, <1>5, <1>8, <1>9
  <2> QED
    BY <2>2, <2>3
<1>12. ASSUME o.seq = expected PROVE Extends(o, prevFull, lastLam)
  <2>1. o.sig /\ o.seq = top + 1
    BY <1>3, <1>7, <1>8, <1>12
  <2>2. CASE OpsBy(Reached, Signer) = {}
    <3>1. top = 0
      BY <2>2, <1>6
    <3>2. o.seq = 1
      BY <3>1, <2>1
    <3>3. o.prev = Genesis(Signer)
      BY <3>2, <1>3, <1>8
    <3>4. HeadHash(Reached, Signer) = Genesis(Signer) /\ HeadLamport(Reached, Signer) = 0
      BY <2>2 DEF HeadHash, HeadLamport
    <3> QED
      BY <3>3, <3>4, <2>1, <1>3, <1>7 DEF Extends
  <2>3. CASE OpsBy(Reached, Signer) # {}
    <3>1. top # 0
      <4>1. PICK q \in OpsBy(Reached, Signer) : TRUE
        BY <2>3
      <4>2. q.seq >= 1 /\ q.seq <= top /\ q.seq \in Nat
        BY <1>1, <1>5, <1>8, LoopFacts DEF Op
      <4> QED
        BY <4>2, <1>6
    <3>2. PICK q : q = CHOOSE r \in OpsBy(Reached, Signer) : r.seq = HeadSeq(Reached, Signer)
      OBVIOUS
    <3>3. q \in OpsBy(Reached, Signer) /\ q.seq = top
      BY <3>1, <3>2, <1>6 DEF top
    <3>4. o.prev = ChainHash(q) /\ o.lam >= q.lam
      BY <3>3, <2>1, <1>3, <1>5, <1>8
    <3>5. HeadHash(Reached, Signer) = ChainHash(q) /\ HeadLamport(Reached, Signer) = q.lam
      BY <3>2, <2>3 DEF HeadHash, HeadLamport
    <3> QED
      BY <3>4, <3>5, <2>1, <1>7 DEF Extends
  <2> QED
    BY <2>2, <2>3
<1> QED
  BY <1>11, <1>12

\* For every log held without a gap and every run of intact copies of the
\* author's one chain, verify_device_run accepts or waits: it never
\* quarantines the author.
THEOREM NoFalseAlarm == LoopSpec => []HonestRunRaisesNoAlarm
<1>1. LoopInit => HonestInv
  BY InitInv DEF HonestInv, LoopInit
<1>2. LoopInv /\ HonestInv /\ [LoopNext]_loopVars => HonestInv'
  <2>1. SUFFICES ASSUME LoopInv, HonestInv, [LoopNext]_loopVars, Honest'
                 PROVE  OnTrack' /\ outcome' \in {"walking", "Accepted", "Pending"}
    BY DEF HonestInv
  <2>2. held' = held /\ input' = input
    BY <2>1 DEF LoopNext, SkipKnown, Regression, Gap, Reject, Accept, Finish, Done, Stop, loopVars
  <2>3. Honest
    BY <2>1, <2>2 DEF Honest
  <2>4. OnTrack /\ outcome \in {"walking", "Accepted", "Pending"}
    BY <2>1, <2>3 DEF HonestInv
  <2>5. CASE SkipKnown
    <3>1. Looking /\ outcome' = outcome
      BY <2>5 DEF SkipKnown
    <3>2. input[pos].sig
      <4>1. LoopTypeOK /\ AcceptedChain
        BY <2>1 DEF LoopInv
      <4>2. input[pos] \in ToSet(input)
        BY <3>1, <4>1, LoopFacts DEF Looking, LoopTypeOK, ToSet
      <4> QED
        BY <4>2, <2>3 DEF Honest, OneChain
    <3> QED
      BY <3>1, <3>2, <2>1, <2>4, <2>5, SkipInv
  <2>6. CASE Regression \/ Reject
    BY <2>1, <2>3, <2>4, <2>6, HonestMeets DEF Regression, Reject
  <2>7. CASE Gap \/ Finish
    BY <2>1, <2>4, <2>7, StopInv DEF Gap, Finish, Stop
  <2>8. CASE Accept
    BY <2>1, <2>4, <2>8, AcceptInv DEF Accept
  <2>9. CASE UNCHANGED loopVars
    BY <2>1, <2>4, <2>9, StutterInv DEF loopVars
  <2> QED
    BY <2>1, <2>5, <2>6, <2>7, <2>8, <2>9 DEF LoopNext, Done
<1>3. HonestInv => HonestRunRaisesNoAlarm
  BY DEF HonestInv, Honest, HonestRunRaisesNoAlarm
<1> QED
  BY <1>1, <1>2, <1>3, LoopInvariance, PTL DEF LoopSpec

=============================================================================
