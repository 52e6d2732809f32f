------------------------------- MODULE OpLog -------------------------------
(***************************************************************************)
(* The signed operations of a vault and what the code derives from a set   *)
(* of them: crates/lp-vault/src/op.rs, and the SELECT MAX queries of       *)
(* author_op in crates/lp-vault/src/vault.rs.                              *)
(*                                                                         *)
(* A log is a SET of operations, which is what the ops table is: every     *)
(* reader of the code sorts what it reads.  An item payload is abstracted  *)
(* to the identity of the operation that carries it.  The chain hash is    *)
(* symbolic and injective: the hash of an operation is its identity        *)
(* together with whether its bytes are the signed ones.                    *)
(***************************************************************************)
EXTENDS Integers, FiniteSets, FiniteSetsExt

CONSTANTS
    Device,     \* device identifiers; their order is the byte order of the ids
    Item        \* item identifiers

ASSUME DeviceAssumption == Device \subseteq Nat /\ IsFiniteSet(Device)

-----------------------------------------------------------------------------
(* op.rs: the operations an item is made of, and the record on the wire.    *)

SnapshotKind == {"create", "update", "restore"}

OpKind == SnapshotKind \cup {"delete"}

\* An honest operation is <<author, seq>>; bytes damaged in the channel that
\* no longer carry that id get an id of their own, <<author, -seq>>.
OpId == Device \X Int

Hash == OpId \X BOOLEAN

Op == [id : OpId, dev : Device, seq : Nat, prev : Hash, lam : Nat,
       kind : OpKind, item : Item, obs : [Device -> Nat], sig : BOOLEAN]

Genesis(a) == <<<<a, 0>>, TRUE>>

ChainHash(o) == <<o.id, o.sig>>

-----------------------------------------------------------------------------
(* The queries the code runs over the ops table.                            *)

OpsBy(L, a) == {o \in L : o.dev = a}

\* COALESCE(MAX(seq), 0) of one author.
HeadSeq(L, a) == Max({o.seq : o \in OpsBy(L, a)} \cup {0})

\* COALESCE(MAX(lamport), 0) over every author.
MaxLamport(L) == Max({o.lam : o \in L} \cup {0})

\* The author's operation with the highest seq (none: the genesis hash).
HeadHash(L, a) ==
    IF OpsBy(L, a) = {}
    THEN Genesis(a)
    ELSE ChainHash(CHOOSE o \in OpsBy(L, a) : o.seq = HeadSeq(L, a))

HeadLamport(L, a) ==
    IF OpsBy(L, a) = {}
    THEN 0
    ELSE (CHOOSE o \in OpsBy(L, a) : o.seq = HeadSeq(L, a)).lam

\* read_observed_heads: the version vector stamped on the next operation.
ObservedHeads(L) == [a \in Device |-> HeadSeq(L, a)]

\* Mutant of NextOp: the clock ticks past the author's own operations only.
NextOpOwnClock(L, d, kind, i) ==
    [id   |-> <<d, HeadSeq(L, d) + 1>>, dev |-> d, seq |-> HeadSeq(L, d) + 1,
     prev |-> HeadHash(L, d), lam |-> HeadLamport(L, d) + 1, kind |-> kind,
     item |-> i, obs |-> ObservedHeads(L), sig |-> TRUE]

\* Mutant of NextOp: MAX(seq) without the WHERE device_id.
NextOpGlobalSeq(L, d, kind, i) ==
    LET seq == Max({o.seq : o \in L} \cup {0}) + 1
    IN  [id   |-> <<d, seq>>, dev |-> d, seq |-> seq,
         prev |-> HeadHash(L, d), lam |-> MaxLamport(L) + 1, kind |-> kind,
         item |-> i, obs |-> ObservedHeads(L), sig |-> TRUE]

\* The operation device d signs next over item i, given the log it holds.
NextOp(L, d, kind, i) ==
    [id   |-> <<d, HeadSeq(L, d) + 1>>,
     dev  |-> d,
     seq  |-> HeadSeq(L, d) + 1,
     prev |-> HeadHash(L, d),
     lam  |-> MaxLamport(L) + 1,
     kind |-> kind,
     item |-> i,
     obs  |-> ObservedHeads(L),
     sig  |-> TRUE]

=============================================================================
