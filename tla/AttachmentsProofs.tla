------------------------- MODULE AttachmentsProofs -------------------------
(***************************************************************************)
(* Proofs about Attachments, for any devices, any attachments, any prune   *)
(* settings and any number of operations and damaged blobs.                *)
(*                                                                         *)
(* What carries them is that an add under way has its attachment to itself *)
(* (AddsExclusive): its blob is on the device's disk, no operation held    *)
(* anywhere names it, and no other device adds it.  That is what makes the *)
(* commit add exactly one row, a delete never meet an add, and the removal *)
(* of a failed add's blob hit no row.                                      *)
(***************************************************************************)
EXTENDS Attachments, FiniteSetTheorems, TLAPS

\* Operations that name an attachment.
Names(o, a) == o.kind # "snapshot" /\ o.att = a

AddsExclusive ==
    \A d \in Replica : adding[d] # NoAdd =>
        /\ files[d][adding[d][1]] = "good"
        /\ \A e \in Replica : \A o \in oplog[e] : ~Names(o, adding[d][1])
        /\ \A e \in Replica \ {d} : adding[e] # NoAdd => adding[e][1] # adding[d][1]

Inv ==
    /\ AddsExclusive
    /\ AttachmentRowsMatchLog
    /\ OwnRowsHaveBlobs
    /\ NoTamperedBlobKept

\* What AttTypeOK leaves open of the tables: the devices that have one, that the
\* logs are finite and that versions count from 1.
Tables ==
    /\ DOMAIN keys = Replica
    /\ DOMAIN att = Replica
    /\ \A d \in Replica : IsFiniteSet(oplog[d]) /\ 0 \notin DOMAIN keys[d]

-----------------------------------------------------------------------------
(* Types.                                                                   *)

\* The version a device holds is a number.
LEMMA VersionIsNat ==
    ASSUME NEW L, IsFiniteSet(L)
    PROVE  CurrentVersion(L) \in Nat
<1>1. Snaps(L) \in SUBSET L
  BY DEF Snaps
<1>. QED
  BY <1>1, FS_Subset, FS_CardinalityType DEF CurrentVersion

\* What a device signs is an operation, and its log stays a finite set of them.
LEMMA Authored ==
    ASSUME AttTypeOK, Tables, NEW d \in Replica,
           NEW kind \in {"snapshot", "add", "remove"}, NEW a \in Att \cup {NoAdd},
           oplog' = [oplog EXCEPT ![d] = @ \cup {NewOp(d, kind, a)}]
    PROVE  /\ oplog' \in [Replica -> SUBSET AttOp]
           /\ \A e \in Replica : IsFiniteSet(oplog'[e])
<1> DEFINE own == {o \in oplog[d] : o.dev = d}
<1>1. Cardinality(own) \in Nat
  <2>1. IsFiniteSet(oplog[d]) /\ own \in SUBSET oplog[d]
    BY DEF Tables
  <2> HIDE DEF own
  <2>. QED
    BY <2>1, FS_Subset, FS_CardinalityType
<1>2. NewOp(d, kind, a) \in AttOp
  BY <1>1 DEF NewOp, AttOp
<1>3. IsFiniteSet(oplog[d] \cup {NewOp(d, kind, a)})
  BY FS_AddElement DEF Tables
<1>. QED
  BY <1>2, <1>3 DEF AttTypeOK, Tables

\* Every step keeps the types.
LEMMA TypeStep ==
    ASSUME AttTypeOK, Tables, [AttNext]_attVars
    PROVE  AttTypeOK' /\ Tables'
<1>1. ASSUME NEW d \in Replica, WriteVersion(d)
      PROVE  AttTypeOK' /\ Tables'
  <2>1. CurrentVersion(oplog[d]) \in Nat
    BY VersionIsNat DEF Tables
  <2>2. /\ oplog' \in [Replica -> SUBSET AttOp]
        /\ \A e \in Replica : IsFiniteSet(oplog'[e])
    BY <1>1, Authored DEF WriteVersion
  <2>. QED
    <3> DEFINE v == CurrentVersion(oplog[d]) + 1
    <3>1. /\ DOMAIN keys' = Replica
          /\ \A e \in Replica \ {d} : keys'[e] = keys[e]
          /\ keys'[d] = [w \in DOMAIN keys[d] \cup {v} |->
                            IF w = v THEN epoch[d] ELSE keys[d][w]]
      BY <1>1 DEF WriteVersion, Tables
    <3>2. \A e \in Replica :
             /\ DOMAIN keys'[e] \subseteq Nat
             /\ 0 \notin DOMAIN keys'[e]
             /\ \A w \in DOMAIN keys'[e] : keys'[e][w] \in 0 .. epoch[e]
      <4>1. v \in Nat \ {0} /\ epoch[d] \in Nat
        BY <2>1 DEF AttTypeOK
      <4> HIDE DEF v
      <4>2. ASSUME NEW e \in Replica, e # d
            PROVE  /\ DOMAIN keys'[e] \subseteq Nat
                   /\ 0 \notin DOMAIN keys'[e]
                   /\ \A w \in DOMAIN keys'[e] : keys'[e][w] \in 0 .. epoch[e]
        BY <3>1, <4>2 DEF AttTypeOK, Tables
      <4>3. /\ DOMAIN keys'[d] = DOMAIN keys[d] \cup {v}
            /\ \A w \in DOMAIN keys'[d] :
                  keys'[d][w] = IF w = v THEN epoch[d] ELSE keys[d][w]
        BY <3>1
      <4>. QED
        BY <4>1, <4>2, <4>3 DEF AttTypeOK, Tables
    <3>. QED
      BY <1>1, <2>2, <3>1, <3>2 DEF WriteVersion, AttTypeOK, Tables
<1>2. ASSUME NEW d \in Replica, PruneKeys(d)
      PROVE  AttTypeOK' /\ Tables'
  <2>0. PICK keep \in KeepOthers, young \in SUBSET DOMAIN keys[d] :
               keys' = [keys EXCEPT ![d] = KeepOnly(@, Kept(d, keep, young))]
    BY <1>2 DEF PruneKeys
  <2>1. PICK kept \in SUBSET DOMAIN keys[d] :
               keys' = [keys EXCEPT ![d] = KeepOnly(@, kept)]
    <3>1. Kept(d, keep, young) \in SUBSET DOMAIN keys[d]
      BY DEF Kept
    <3>. QED
      BY <2>0, <3>1
  <2>2. /\ DOMAIN keys' = Replica
        /\ \A e \in Replica \ {d} : keys'[e] = keys[e]
        /\ keys'[d] = [v \in kept |-> keys[d][v]]
    BY <2>1 DEF KeepOnly, Tables
  <2>3. \A e \in Replica :
           /\ DOMAIN keys'[e] \subseteq Nat
           /\ 0 \notin DOMAIN keys'[e]
           /\ \A v \in DOMAIN keys'[e] : keys'[e][v] \in 0 .. epoch[e]
    BY <2>2 DEF AttTypeOK, Tables
  <2>. QED
    BY <1>2, <2>2, <2>3 DEF PruneKeys, AttTypeOK, Tables
<1>3. ASSUME NEW d \in Replica, CommitAdd(d)
      PROVE  AttTypeOK' /\ Tables'
  <2>1. adding[d][1] \in Att /\ adding[d][2] \in Binding
    BY <1>3 DEF CommitAdd, AttTypeOK
  <2>2. /\ oplog' \in [Replica -> SUBSET AttOp]
        /\ \A e \in Replica : IsFiniteSet(oplog'[e])
    BY <1>3, <2>1, Authored DEF CommitAdd
  <2>. QED
    BY <1>3, <2>1, <2>2 DEF CommitAdd, AttTypeOK, Tables
<1>4. ASSUME NEW d \in Replica, AbortAdd(d)
      PROVE  AttTypeOK' /\ Tables'
  <2>1. adding[d][1] \in Att
    BY <1>4 DEF AbortAdd, AttTypeOK
  <2>. QED
    <3> DEFINE a == adding[d][1]
    <3>1. /\ files \in [Replica -> [Att -> {"absent", "good", "bad"}]]
          /\ files' = [files EXCEPT ![d][a] = "absent"] \/ UNCHANGED files
      BY <1>4 DEF AbortAdd, AttTypeOK
    <3>2. files' \in [Replica -> [Att -> {"absent", "good", "bad"}]]
      <4> HIDE DEF a
      <4>. QED
        BY <2>1, <3>1
    <3>. QED
      BY <1>4, <3>2 DEF AbortAdd, AttTypeOK, Tables
<1>5. ASSUME NEW d \in Replica, ShipBlobs(d)
      PROVE  AttTypeOK' /\ Tables'
  BY <1>5 DEF ShipBlobs, AttTypeOK, Tables
<1>6. ASSUME NEW d \in Replica, FetchBlobs(d)
      PROVE  AttTypeOK' /\ Tables'
  BY <1>6 DEF FetchBlobs, Stored, AttTypeOK, Tables
<1>7. ASSUME NEW d \in Replica, NEW a \in Att, BeginAdd(d, a)
      PROVE  AttTypeOK' /\ Tables'
  <2>1. [version |-> CurrentVersion(oplog[d]),
         key |-> keys[d][CurrentVersion(oplog[d])]] \in Binding
    BY <1>7 DEF BeginAdd, AttTypeOK, Tables, Binding
  <2>. QED
    BY <1>7, <2>1 DEF BeginAdd, AttTypeOK, Tables
<1>8. ASSUME NEW d \in Replica, NEW a \in Att, DeleteAttachment(d, a)
      PROVE  AttTypeOK' /\ Tables'
  <2>1. /\ oplog' \in [Replica -> SUBSET AttOp]
        /\ \A e \in Replica : IsFiniteSet(oplog'[e])
    BY <1>8, Authored DEF DeleteAttachment
  <2>. QED
    <3>0. att' = [att EXCEPT ![d] = KeepOnly(att[d], Att \ {a})]
      BY <1>8 DEF DeleteAttachment
    <3>1. /\ DOMAIN att' = Replica
          /\ \A e \in Replica \ {d} : att'[e] = att[e]
          /\ att'[d] = [b \in DOMAIN att[d] \cap (Att \ {a}) |-> att[d][b]]
      BY <3>0 DEF KeepOnly, Tables
    <3>2. \A e \in Replica : /\ DOMAIN att'[e] \subseteq Att
                             /\ \A b \in DOMAIN att'[e] : att'[e][b] \in Binding
      BY <3>1 DEF AttTypeOK
    <3>3. files' \in [Replica -> [Att -> {"absent", "good", "bad"}]]
      BY <1>8 DEF DeleteAttachment, AttTypeOK
    <3>. QED
      BY <1>8, <2>1, <3>1, <3>2, <3>3 DEF DeleteAttachment, AttTypeOK, Tables
<1>9. ASSUME NEW d \in Replica, NEW e \in Replica \ {d},
             NEW authors \in SUBSET (Replica \ {d}), ApplyOps(d, e, authors)
      PROVE  AttTypeOK' /\ Tables'
  <2> DEFINE L == oplog[d] \cup {o \in oplog[e] : o.dev \in authors}
             cur == CurrentVersion(L)
             fresh == epoch[d] + 1
             fails == cur = 0 /\ Surviving(L) # {}
  <2>1. IsFiniteSet(L)
    <3>1. IsFiniteSet({o \in oplog[e] : o.dev \in authors})
      BY FS_Subset DEF Tables
    <3>. QED
      BY <3>1, FS_Union DEF Tables
  <2>2. cur \in Nat /\ fresh \in Nat
    BY <2>1, VersionIsNat DEF AttTypeOK
  <2>3. L \in SUBSET AttOp
    BY DEF AttTypeOK
  <2>4. CASE fails
    BY <1>9, <2>4 DEF ApplyOps, AttTypeOK, Tables
  <2>5. CASE ~fails
    <3>1. /\ oplog' = [oplog EXCEPT ![d] = L]
          /\ epoch' = [epoch EXCEPT ![d] = fresh]
          /\ keys' = [keys EXCEPT ![d] = [v \in 1 .. cur |-> fresh]]
          /\ att' = [att EXCEPT ![d] =
                [a \in Surviving(L) |->
                    IF a \in DOMAIN att[d]
                    THEN att[d][a]
                    ELSE [version |-> cur, key |-> fresh]]]
          /\ failed' \in [Replica -> BOOLEAN]
          /\ UNCHANGED <<files, adding, shipped>>
      BY <1>9, <2>5 DEF ApplyOps, AttTypeOK
    <3>2. ASSUME NEW a \in Surviving(L), a \notin DOMAIN att[d]
          PROVE  [version |-> cur, key |-> fresh] \in Binding
      BY <2>2, <2>5, <3>2 DEF Binding
    <3>3. \A a \in Surviving(L) : a \in Att
      BY DEF Surviving
    <3>4. /\ DOMAIN att' = Replica
          /\ \A c \in Replica : /\ DOMAIN att'[c] \subseteq Att
                                /\ \A a \in DOMAIN att'[c] : att'[c][a] \in Binding
      <4> HIDE DEF L, cur, fresh
      <4>. QED
        BY <3>1, <3>2, <3>3 DEF AttTypeOK, Tables
    <3>5. /\ DOMAIN keys' = Replica
          /\ epoch' \in [Replica -> Nat]
          /\ \A c \in Replica :
                /\ DOMAIN keys'[c] \subseteq Nat
                /\ 0 \notin DOMAIN keys'[c]
                /\ \A v \in DOMAIN keys'[c] : keys'[c][v] \in 0 .. epoch'[c]
      <4> HIDE DEF L, cur, fresh
      <4>. QED
        BY <3>1, <2>2 DEF AttTypeOK, Tables
    <3>6. /\ oplog' \in [Replica -> SUBSET AttOp]
          /\ \A c \in Replica : IsFiniteSet(oplog'[c])
      <4> HIDE DEF L
      <4>. QED
        BY <3>1, <2>1, <2>3 DEF AttTypeOK, Tables
    <3>. QED
      BY <3>1, <3>4, <3>5, <3>6 DEF AttTypeOK, Tables
  <2>. QED
    BY <2>4, <2>5
<1>10. ASSUME NEW a \in Att, TamperBlob(a)
       PROVE  AttTypeOK' /\ Tables'
  BY <1>10 DEF TamperBlob, AttTypeOK, Tables
<1>11. CASE UNCHANGED attVars
  BY <1>11 DEF attVars, AttTypeOK, Tables
<1>. QED
  BY <1>1, <1>2, <1>3, <1>4, <1>5, <1>6, <1>7, <1>8, <1>9, <1>10, <1>11 DEF AttNext

\* The tables of an account have their types in every reachable state: a row
\* is bound to a version that exists and to a key of an epoch the device has
\* reached, whatever is pruned, ingested, aborted or tampered with.
THEOREM TypeCorrect == AttSpec => [](AttTypeOK /\ Tables)
<1>1. AttInit => AttTypeOK /\ Tables
  BY FS_EmptySet DEF AttInit, AttTypeOK, Tables, Empty
<1>2. AttTypeOK /\ Tables /\ [AttNext]_attVars => (AttTypeOK /\ Tables)'
  BY TypeStep
<1>. QED
  BY <1>1, <1>2, PTL DEF AttSpec

-----------------------------------------------------------------------------
(* The rows, the blobs and the operations.                                  *)

\* A new operation adds its attachment to the surviving ones when it is an add
\* and nothing removed it, takes it out when it is a remove, and is otherwise
\* without effect.
LEMMA SurvivingStep ==
    ASSUME NEW L, NEW op, NEW a \in Att
    PROVE  /\ op.kind = "snapshot" => Surviving(L \cup {op}) = Surviving(L)
           /\ op.kind = "remove" /\ op.att = a =>
                 Surviving(L \cup {op}) = Surviving(L) \ {a}
           /\ op.kind = "add" /\ op.att = a /\ (\A o \in L : ~Names(o, a)) =>
                 Surviving(L \cup {op}) = Surviving(L) \cup {a}
<1>1. CASE op.kind = "snapshot"
  BY <1>1 DEF Surviving
<1>2. CASE op.kind = "remove" /\ op.att = a
  BY <1>2 DEF Surviving
<1>3. CASE op.kind = "add" /\ op.att = a /\ \A o \in L : ~Names(o, a)
  BY <1>3 DEF Surviving, Names
<1>. QED
  BY <1>1, <1>2, <1>3

\* An attachment that survives is named by an operation.
LEMMA SurvivingNamed ==
    ASSUME NEW L, NEW a \in Surviving(L)
    PROVE  \E o \in L : Names(o, a)
BY DEF Surviving, Names

\* Every step keeps the invariant.
LEMMA InvStep ==
    ASSUME AttTypeOK, Tables, Inv, [AttNext]_attVars
    PROVE  Inv'
<1> USE DEF Inv
<1>1. ASSUME NEW d \in Replica, WriteVersion(d)
      PROVE  Inv'
  <2> DEFINE op == NewOp(d, "snapshot", NoAdd)
  <2>1. /\ op.kind = "snapshot"
        /\ \A e \in Replica : oplog'[e] = IF e = d THEN oplog[d] \cup {op} ELSE oplog[e]
        /\ UNCHANGED <<att, files, adding>>
    BY <1>1 DEF WriteVersion, AttTypeOK, NewOp
  <2>2. \A e \in Replica : Surviving(oplog'[e]) = Surviving(oplog[e])
    BY <2>1 DEF Surviving
  <2> HIDE DEF op
  <2>. QED
    BY <2>1, <2>2
    DEF AddsExclusive, Names, AttachmentRowsMatchLog, OwnRowsHaveBlobs, NoTamperedBlobKept
<1>2. ASSUME NEW d \in Replica, PruneKeys(d)
      PROVE  Inv'
  BY <1>2 DEF PruneKeys, AddsExclusive, AttachmentRowsMatchLog,
              OwnRowsHaveBlobs, NoTamperedBlobKept
<1>3. ASSUME NEW d \in Replica, CommitAdd(d)
      PROVE  Inv'
  <2> DEFINE a == adding[d][1]
             op == NewOp(d, "add", a)
  <2>1. /\ a \in Att /\ op.kind = "add" /\ op.att = a
        /\ \A e \in Replica : oplog'[e] = IF e = d THEN oplog[d] \cup {op} ELSE oplog[e]
        /\ \A e \in Replica : DOMAIN att'[e] = IF e = d THEN DOMAIN att[d] \cup {a}
                                                     ELSE DOMAIN att[e]
        /\ \A e \in Replica : adding'[e] = IF e = d THEN NoAdd ELSE adding[e]
        /\ UNCHANGED files
    BY <1>3 DEF CommitAdd, AttTypeOK, Tables, NewOp
  <2>2. /\ files[d][a] = "good"
        /\ \A e \in Replica : \A o \in oplog[e] : ~Names(o, a)
        /\ \A e \in Replica \ {d} : adding[e] # NoAdd => adding[e][1] # a
    BY <1>3 DEF CommitAdd, AddsExclusive
  <2> HIDE DEF a, op
  <2>3. Surviving(oplog'[d]) = Surviving(oplog[d]) \cup {a}
    <3>1. \A o \in oplog[d] : ~Names(o, a)
      BY <2>2
    <3>2. oplog'[d] = oplog[d] \cup {op}
      BY <2>1
    <3>. QED
      <4>1. a \in Att /\ op.kind = "add" /\ op.att = a
        BY <2>1
      <4>2. Surviving(oplog[d] \cup {op}) = Surviving(oplog[d]) \cup {a}
        BY <3>1, <4>1, SurvivingStep, Zenon
      <4>. QED
        BY <3>2, <4>2
  <2>4. AddsExclusive'
    BY <2>1, <2>2 DEF AddsExclusive, Names
  <2>5. AttachmentRowsMatchLog'
    BY <2>1, <2>3 DEF AttachmentRowsMatchLog
  <2>6. OwnRowsHaveBlobs'
    BY <2>1, <2>2 DEF OwnRowsHaveBlobs
  <2>. QED
    BY <2>1, <2>4, <2>5, <2>6 DEF NoTamperedBlobKept
<1>4. ASSUME NEW d \in Replica, AbortAdd(d)
      PROVE  Inv'
  <2> DEFINE a == adding[d][1]
  <2>1. /\ a \in Att
        /\ \A e \in Replica : adding'[e] = IF e = d THEN NoAdd ELSE adding[e]
        /\ \A e \in Replica, b \in Att :
              \/ files'[e][b] = files[e][b]
              \/ e = d /\ b = a /\ files'[e][b] = "absent"
        /\ UNCHANGED <<oplog, att>>
    <3>1. a \in Att /\ UNCHANGED <<oplog, att>>
      BY <1>4 DEF AbortAdd, AttTypeOK
    <3>2. /\ files \in [Replica -> [Att -> {"absent", "good", "bad"}]]
          /\ adding \in [Replica -> {NoAdd} \cup (Att \X Binding)]
          /\ adding' = [adding EXCEPT ![d] = NoAdd]
          /\ files' = [files EXCEPT ![d][a] = "absent"] \/ UNCHANGED files
      BY <1>4 DEF AbortAdd, AttTypeOK
    <3> HIDE DEF a
    <3>. QED
      BY <3>1, <3>2
  <2>2. \A e \in Replica : \A o \in oplog[e] : ~Names(o, a)
    BY <1>4 DEF AbortAdd, AddsExclusive
  <2>3. \A e \in Replica : adding[e] # NoAdd => adding[e][1] \in Att
    BY DEF AttTypeOK
  <2>4. \A e \in Replica : DOMAIN att[e] \subseteq Att
    BY DEF AttTypeOK
  <2> HIDE DEF a
  <2>5. AddsExclusive'
    BY <2>1, <2>3 DEF AddsExclusive
  <2>6. OwnRowsHaveBlobs'
    BY <2>1, <2>2, <2>4 DEF OwnRowsHaveBlobs, Names
  <2>7. NoTamperedBlobKept'
    BY <2>1 DEF NoTamperedBlobKept
  <2>. QED
    BY <2>1, <2>5, <2>6, <2>7 DEF AttachmentRowsMatchLog
<1>5. ASSUME NEW d \in Replica, ShipBlobs(d)
      PROVE  Inv'
  BY <1>5 DEF ShipBlobs, AddsExclusive, AttachmentRowsMatchLog,
              OwnRowsHaveBlobs, NoTamperedBlobKept
<1>6. ASSUME NEW d \in Replica, FetchBlobs(d)
      PROVE  Inv'
  <2>1. /\ \A e \in Replica, b \in Att :
              \/ files'[e][b] = files[e][b]
              \/ files[e][b] = "absent" /\ files'[e][b] \in {"absent", "good"}
        /\ UNCHANGED <<oplog, att, adding>>
    BY <1>6 DEF FetchBlobs, Stored, AttTypeOK
  <2>2. \A e \in Replica : adding[e] # NoAdd => adding[e][1] \in Att
    BY DEF AttTypeOK
  <2>3. \A e \in Replica : DOMAIN att[e] \subseteq Att
    BY DEF AttTypeOK
  <2>. QED
    BY <2>1, <2>2, <2>3
    DEF AddsExclusive, AttachmentRowsMatchLog, OwnRowsHaveBlobs, NoTamperedBlobKept
<1>7. ASSUME NEW d \in Replica, NEW a \in Att, BeginAdd(d, a)
      PROVE  Inv'
  <2> DEFINE bound == <<a, [version |-> CurrentVersion(oplog[d]),
                            key |-> keys[d][CurrentVersion(oplog[d])]]>>
  <2>1. /\ bound[1] = a
        /\ \A e \in Replica : adding'[e] = IF e = d THEN bound ELSE adding[e]
        /\ \A e \in Replica, b \in Att :
              files'[e][b] = IF e = d /\ b = a THEN "good" ELSE files[e][b]
        /\ \A e \in Replica : /\ files[e][a] = "absent"
                              /\ \A o \in oplog[e] : ~Names(o, a)
        /\ UNCHANGED <<oplog, att>>
    BY <1>7 DEF BeginAdd, AttTypeOK, Names
  <2>2. \A e \in Replica : adding[e] # NoAdd => adding[e][1] \in Att
    BY DEF AttTypeOK
  <2>3. \A e \in Replica : DOMAIN att[e] \subseteq Att
    BY DEF AttTypeOK
  <2>4. \A e \in Replica : adding[e] # NoAdd => adding[e][1] # a
    BY <2>1 DEF AddsExclusive
  <2> HIDE DEF bound
  <2>5. AddsExclusive'
    BY <2>1, <2>2, <2>4 DEF AddsExclusive
  <2>. QED
    BY <2>1, <2>3, <2>5
    DEF AttachmentRowsMatchLog, OwnRowsHaveBlobs, NoTamperedBlobKept
<1>8. ASSUME NEW d \in Replica, NEW a \in Att, DeleteAttachment(d, a)
      PROVE  Inv'
  <2> DEFINE op == NewOp(d, "remove", a)
  <2>1. /\ op.kind = "remove" /\ op.att = a
        /\ \A e \in Replica : oplog'[e] = IF e = d THEN oplog[d] \cup {op} ELSE oplog[e]
        /\ \A e \in Replica : DOMAIN att'[e] = IF e = d THEN DOMAIN att[d] \ {a}
                                                     ELSE DOMAIN att[e]
        /\ adding[d] = NoAdd
        /\ UNCHANGED adding
    BY <1>8 DEF DeleteAttachment, CanAuthor, KeepOnly, AttTypeOK, Tables, NewOp
  <2>2. \A e \in Replica, b \in Att :
           \/ files'[e][b] = files[e][b]
           \/ e = d /\ b = a /\ files'[e][b] = "absent"
    BY <1>8 DEF DeleteAttachment, AttTypeOK
  <2>3. \A e \in Replica : adding[e] # NoAdd => adding[e][1] \in Att \ {a}
    <3>1. PICK o \in oplog[d] : Names(o, a)
      BY <1>8, SurvivingNamed DEF DeleteAttachment, AttachmentRowsMatchLog
    <3>. QED
      BY <3>1 DEF AddsExclusive, AttTypeOK
  <2> HIDE DEF op
  <2>4. Surviving(oplog'[d]) = Surviving(oplog[d]) \ {a}
    <3>1. oplog'[d] = oplog[d] \cup {op}
      BY <2>1
    <3>. QED
      BY <2>1, <3>1, SurvivingStep
  <2>5. \A e \in Replica : DOMAIN att[e] \subseteq Att
    BY DEF AttTypeOK
  <2>6. AddsExclusive'
    BY <2>1, <2>2, <2>3 DEF AddsExclusive, Names
  <2>7. AttachmentRowsMatchLog'
    BY <2>1, <2>4 DEF AttachmentRowsMatchLog
  <2>8. OwnRowsHaveBlobs'
    BY <2>1, <2>2, <2>5 DEF OwnRowsHaveBlobs
  <2>9. NoTamperedBlobKept'
    BY <2>2 DEF NoTamperedBlobKept
  <2>. QED
    BY <2>6, <2>7, <2>8, <2>9
<1>9. ASSUME NEW d \in Replica, NEW e \in Replica \ {d},
             NEW authors \in SUBSET (Replica \ {d}), ApplyOps(d, e, authors)
      PROVE  Inv'
  <2> DEFINE L == oplog[d] \cup {o \in oplog[e] : o.dev \in authors}
             fails == CurrentVersion(L) = 0 /\ Surviving(L) # {}
  <2>1. CASE fails
    BY <1>9, <2>1 DEF ApplyOps, AddsExclusive, AttachmentRowsMatchLog,
                      OwnRowsHaveBlobs, NoTamperedBlobKept
  <2>2. CASE ~fails
    <3> DEFINE bound == [a \in Surviving(L) |->
                           IF a \in DOMAIN att[d]
                           THEN att[d][a]
                           ELSE [version |-> CurrentVersion(L), key |-> epoch[d] + 1]]
    <3>0. /\ oplog' = [oplog EXCEPT ![d] = L]
          /\ att' = [att EXCEPT ![d] = bound]
          /\ DOMAIN bound = Surviving(L)
          /\ UNCHANGED <<adding, files>>
      BY <1>9, <2>2 DEF ApplyOps
    <3>1. /\ \A c \in Replica : oplog'[c] = IF c = d THEN L ELSE oplog[c]
          /\ \A c \in Replica : DOMAIN att'[c] = IF c = d THEN Surviving(L)
                                                       ELSE DOMAIN att[c]
          /\ UNCHANGED <<adding, files>>
      <4> HIDE DEF L, bound
      <4>. QED
        BY <3>0 DEF AttTypeOK, Tables
    <3>2. \A o \in L : o \in oplog[d] \/ (o \in oplog[e] /\ o.dev # d)
      OBVIOUS
    <3>3. \A a \in Surviving(L) :
             (\E o \in L : o.dev = d /\ o.kind = "add" /\ o.att = a)
                => a \in Surviving(oplog[d])
      BY <3>2 DEF Surviving
    <3> HIDE DEF L
    <3>4. AddsExclusive'
      BY <3>1, <3>2 DEF AddsExclusive
    <3>5. AttachmentRowsMatchLog'
      BY <3>1 DEF AttachmentRowsMatchLog
    <3>6. OwnRowsHaveBlobs'
      BY <3>1, <3>2, <3>3 DEF OwnRowsHaveBlobs, AttachmentRowsMatchLog
    <3>. QED
      BY <3>1, <3>4, <3>5, <3>6 DEF NoTamperedBlobKept
  <2>. QED
    BY <2>1, <2>2
<1>10. ASSUME NEW a \in Att, TamperBlob(a)
       PROVE  Inv'
  BY <1>10 DEF TamperBlob, AddsExclusive, AttachmentRowsMatchLog,
               OwnRowsHaveBlobs, NoTamperedBlobKept
<1>11. CASE UNCHANGED attVars
  BY <1>11 DEF attVars, AddsExclusive, AttachmentRowsMatchLog,
               OwnRowsHaveBlobs, NoTamperedBlobKept
<1>. QED
  BY <1>1, <1>2, <1>3, <1>4, <1>5, <1>6, <1>7, <1>8, <1>9, <1>10, <1>11 DEF AttNext

\* The inductive invariant holds in every reachable state.
THEOREM Invariant == AttSpec => []Inv
<1>1. AttInit => Inv
  BY DEF AttInit, Inv, AddsExclusive, AttachmentRowsMatchLog, Surviving, Empty,
         OwnRowsHaveBlobs, NoTamperedBlobKept
<1>2. AttTypeOK /\ Tables /\ Inv /\ [AttNext]_attVars => Inv'
  BY InvStep
<1>. QED
  BY <1>1, <1>2, TypeCorrect, PTL DEF AttSpec

\* materialize_attachments and apply_foreign_ops keep their promise for any
\* devices and any order of arrival: a device has a row for exactly the
\* attachments its operations add and never remove, whether an ingest
\* succeeds or rolls back and wherever an add is interrupted.
THEOREM RowsFollowOperations == AttSpec => []AttachmentRowsMatchLog
BY Invariant, PTL DEF Inv

\* add_attachment's blob-first order: a row its own device wrote always has
\* its blob, through failed and killed adds and everybody's deletes.
THEOREM OwnRowsBacked == AttSpec => []OwnRowsHaveBlobs
BY Invariant, PTL DEF Inv

\* store_attachment_blob: no device ever keeps bytes that are not the
\* attachment's, however many blobs the channel damages.
THEOREM TamperedBlobsRefused == AttSpec => []NoTamperedBlobKept
BY Invariant, PTL DEF Inv

=============================================================================
