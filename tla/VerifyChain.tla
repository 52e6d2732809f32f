---------------------------- MODULE VerifyChain ----------------------------
(***************************************************************************)
(* What crates/lp-sync/src/verify.rs accepts of one author's operations,   *)
(* stated without the loop.                                                *)
(*                                                                         *)
(* verify_device_run walks the author's operations in ascending seq; the   *)
(* copies of one seq come in the order the channel was read.  That order   *)
(* is not known, so the result is a set of possible outcomes: AcceptedRuns *)
(* holds every set of operations the walk may accept.  Module VerifyLoop   *)
(* has the walk itself and the check that the two agree.                   *)
(***************************************************************************)
EXTENDS OpLog

\* Mutant of Extends: the signature is not checked.
ExtendsUnsigned(o, hash, lam) == o.prev = hash /\ o.lam >= lam

\* The check of one operation against the head it must extend: signature,
\* then prev_hash, then Lamport monotonicity.
Extends(o, hash, lam) == o.sig /\ o.prev = hash /\ o.lam >= lam

\* known_op_ids of the author: a copy with such an id is skipped.
KnownIds(L, a) == {o.id : o \in OpsBy(L, a)}

\* A seq at or below what is already applied, with an id that is not known.
Regressed(L, a, run) ==
    \E o \in run : o.seq <= HeadSeq(L, a) /\ o.id \notin KnownIds(L, a)

\* Another operation at the seq of accepted operation o, and not a copy of
\* one that is held or was accepted before it.
Replayed(L, a, run, A, o) ==
    \E p \in run :
        /\ p.seq = o.seq
        /\ p.id \notin KnownIds(L, a) \cup {q.id : q \in {r \in A : r.seq <= o.seq}}

\* The walk stands behind the accepted operations A and goes no further:
\* the input ended or has a gap, or a copy at the next seq fails its check,
\* or the last accepted operation meets another one with its seq.
MayStop(L, a, run, A) ==
    LET M == L \cup A
        next == {o \in run : o.seq = HeadSeq(M, a) + 1}
    IN  \/ next = {}
        \/ \E o \in next : ~Extends(o, HeadHash(M, a), HeadLamport(M, a))
        \/ \E o \in A : o.seq = HeadSeq(M, a) /\ Replayed(L, a, run, A, o)

\* The operations of A extend the chain held in L one by one.
Chained(L, a, A) ==
    /\ \A o, p \in A : o.seq = p.seq => o = p
    /\ \A o \in A :
          LET before == L \cup {p \in A : p.seq < o.seq}
          IN  /\ o.seq = HeadSeq(before, a) + 1
              /\ Extends(o, HeadHash(before, a), HeadLamport(before, a))

\* The outcomes of verify_device_run: run is the part of the incoming batch
\* that author a signed or claims to have signed.
AcceptedRuns(L, a, run) ==
    IF Regressed(L, a, run)
    THEN {{}}
    ELSE {A \in SUBSET run :
            /\ \A o \in A : o.seq > HeadSeq(L, a)
            /\ Chained(L, a, A)
            /\ \A o \in A :
                  o.seq < HeadSeq(L \cup A, a) => ~Replayed(L, a, run, A, o)
            /\ MayStop(L, a, run, A)}

-----------------------------------------------------------------------------
(* What the verifier may be given.                                          *)

\* What a good signature vouches for: the id names the operation, and the
\* predecessor it was signed over was itself good.
Genuine(C) ==
    \A o \in C : o.sig =>
        /\ o.prev[2]
        /\ \A q \in C : q.sig /\ q.id = o.id => q = o

\* Intact copies of author a's one chain, links and all, some of them missing perhaps.
OneChain(a, C) ==
    \A o, q \in C :
        /\ o.sig /\ o.seq >= 1
        /\ o.seq = q.seq => o = q
        /\ o.seq = 1 => o.prev = Genesis(a)
        /\ o.seq = q.seq + 1 => o.prev = ChainHash(q) /\ o.lam >= q.lam

=============================================================================
