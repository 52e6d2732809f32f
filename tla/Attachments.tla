---------------------------- MODULE Attachments ----------------------------
(***************************************************************************)
(* The attachments of one item on several devices:                         *)
(* crates/lp-vault/src/attachment.rs, the attachment half of               *)
(* crates/lp-vault/src/foreign.rs and of crates/lp-sync/src/{merge,engine}.*)
(*                                                                         *)
(* An attachment's own key is wrapped under the ItemKey of one version of  *)
(* the item, and that ItemKey is itself a row of wrapped_keys.  A key is   *)
(* identified by its version and the epoch it was generated in: every      *)
(* foreign apply re-seals all versions under fresh keys, a new epoch.      *)
(*                                                                         *)
(* The item's current version is the number of its snapshot operations     *)
(* (VaultSync!RowsMatchLog); the operations of an author are held as       *)
(* prefixes (VaultSync!HeldChains), so an ingest takes over what another   *)
(* device holds of some authors.  Each attachment is sealed under a fresh  *)
(* key, so its ciphertext hash names it.                                   *)
(***************************************************************************)
EXTENDS Naturals, FiniteSets

CONSTANTS
    Replica,
    Att,            \* attachment ids
    Creator,        \* the device that creates the item
    KeepOthers,     \* values of prune's keep_last
    NoAdd,          \* no add_attachment under way
    MaxOps,         \* bound: operations each device authors
    MaxTamper       \* bound: blobs the channel damages

VARIABLES
    oplog,          \* oplog[d]: operations held about the item
    keys,           \* keys[d]: version -> epoch of its ItemKey (wrapped_keys)
    epoch,          \* epoch[d]: how often d has re-sealed the item
    att,            \* att[d]: attachment -> the version and key it is bound to
    files,          \* files[d]: ciphertext files in d's attachments directory
    adding,         \* adding[d]: an add between its blob and its transaction
    shipped,        \* blobs in the sync directory: "absent", "good" or "bad"
    failed          \* failed[d]: the last ingest ended in an error

attVars == <<oplog, keys, epoch, att, files, adding, shipped, failed>>

AttOp == [dev : Replica, seq : Nat, kind : {"snapshot", "add", "remove"},
          att : Att \cup {NoAdd}]

Binding == [version : Nat \ {0}, key : Nat]

AttTypeOK ==
    /\ oplog \in [Replica -> SUBSET AttOp]
    /\ \A d \in Replica :
          /\ DOMAIN keys[d] \subseteq Nat
          /\ \A v \in DOMAIN keys[d] : keys[d][v] \in 0 .. epoch[d]
          /\ DOMAIN att[d] \subseteq Att
          /\ \A a \in DOMAIN att[d] : att[d][a] \in Binding
    /\ epoch \in [Replica -> Nat]
    /\ files \in [Replica -> [Att -> {"absent", "good", "bad"}]]
    /\ adding \in [Replica -> {NoAdd} \cup (Att \X Binding)]
    /\ shipped \in [Att -> {"absent", "good", "bad"}]
    /\ failed \in [Replica -> BOOLEAN]

-----------------------------------------------------------------------------

Empty == [x \in {} |-> 0]

Snaps(L) == {o \in L : o.kind = "snapshot"}

CurrentVersion(L) == Cardinality(Snaps(L))

\* materialize_attachments: an id exists iff it was added and never removed.
Surviving(L) ==
    {a \in Att : /\ \E o \in L : o.kind = "add" /\ o.att = a
                 /\ \A o \in L : o.kind = "remove" => o.att # a}

KeepOnly(f, S) == [x \in DOMAIN f \cap S |-> f[x]]

NewOp(d, kind, a) ==
    [dev |-> d, seq |-> Cardinality({o \in oplog[d] : o.dev = d}) + 1,
     kind |-> kind, att |-> a]

CanAuthor(d) ==
    Cardinality({o \in oplog[d] : o.dev = d}) < MaxOps[d] /\ adding[d] = NoAdd

AttInit ==
    /\ oplog = [d \in Replica |-> {}]
    /\ keys = [d \in Replica |-> Empty]
    /\ epoch = [d \in Replica |-> 0]
    /\ att = [d \in Replica |-> Empty]
    /\ files = [d \in Replica |-> [a \in Att |-> "absent"]]
    /\ adding = [d \in Replica |-> NoAdd]
    /\ shipped = [a \in Att |-> "absent"]
    /\ failed = [d \in Replica |-> FALSE]

-----------------------------------------------------------------------------
(* Local operations.                                                        *)

\* create_item, update_item, restore_version: a new version, a fresh ItemKey.
WriteVersion(d) ==
    LET v == CurrentVersion(oplog[d]) + 1
    IN  /\ CanAuthor(d)
        /\ v = 1 => d = Creator
        /\ oplog' = [oplog EXCEPT ![d] = @ \cup {NewOp(d, "snapshot", NoAdd)}]
        /\ keys' = [keys EXCEPT ![d] =
                      [w \in DOMAIN @ \cup {v} |-> IF w = v THEN epoch[d] ELSE @[w]]]
        /\ UNCHANGED <<epoch, att, files, adding, shipped, failed>>

\* prune_versions keeps the current version's wrapped key, those of the newest
\* keep_last others, and young ones.
Kept(d, keep, young) ==
    LET cur == CurrentVersion(oplog[d])
    IN  {v \in DOMAIN keys[d] :
            \/ v = cur \/ v \in young
            \/ Cardinality({w \in DOMAIN keys[d] : w # cur /\ w > v}) < keep}

\* The other versions go, and their wrapped keys with them.
PruneKeys(d) ==
    \E keep \in KeepOthers, young \in SUBSET DOMAIN keys[d] :
        /\ adding[d] = NoAdd
        /\ keys' = [keys EXCEPT ![d] = KeepOnly(@, Kept(d, keep, young))]
        /\ UNCHANGED <<oplog, epoch, att, files, adding, shipped, failed>>

\* Mutant of BeginAdd: the blob is left for after the transaction.
BeginAddNoBlob(d, a) ==
    LET v == CurrentVersion(oplog[d])
    IN  /\ CanAuthor(d)
        /\ v \in DOMAIN keys[d]
        /\ \A e \in Replica : \A o \in oplog[e] : o.att # a
        /\ adding' = [adding EXCEPT ![d] = <<a, [version |-> v, key |-> keys[d][v]]>>]
        /\ UNCHANGED <<oplog, keys, epoch, att, files, shipped, failed>>

\* add_attachment, first half: bind to the current version's ItemKey and
\* write the blob.
BeginAdd(d, a) ==
    LET v == CurrentVersion(oplog[d])
    IN  /\ CanAuthor(d)
        /\ v \in DOMAIN keys[d]
        /\ \A e \in Replica : /\ \A o \in oplog[e] : o.att # a
                              /\ files[e][a] = "absent"
        /\ files' = [files EXCEPT ![d][a] = "good"]
        /\ adding' = [adding EXCEPT ![d] = <<a, [version |-> v, key |-> keys[d][v]]>>]
        /\ UNCHANGED <<oplog, keys, epoch, att, shipped, failed>>

\* Second half: the row and the AttachAdd operation in one transaction.
CommitAdd(d) ==
    /\ adding[d] # NoAdd
    /\ LET a == adding[d][1]
       IN  /\ att' = [att EXCEPT ![d] =
                        [b \in DOMAIN @ \cup {a} |->
                            IF b = a THEN adding[d][2] ELSE @[b]]]
           /\ oplog' = [oplog EXCEPT ![d] = @ \cup {NewOp(d, "add", a)}]
    /\ adding' = [adding EXCEPT ![d] = NoAdd]
    /\ UNCHANGED <<keys, epoch, files, shipped, failed>>

\* The transaction fails and the blob is removed again, or the process dies
\* and leaves it behind.
AbortAdd(d) ==
    /\ adding[d] # NoAdd
    /\ adding' = [adding EXCEPT ![d] = NoAdd]
    /\ \/ files' = [files EXCEPT ![d][adding[d][1]] = "absent"]
       \/ UNCHANGED files
    /\ UNCHANGED <<oplog, keys, epoch, att, shipped, failed>>

\* delete_attachment: row and AttachDelete in one transaction, then the
\* best-effort unlink.
DeleteAttachment(d, a) ==
    /\ CanAuthor(d)
    /\ a \in DOMAIN att[d]
    /\ att' = [att EXCEPT ![d] = KeepOnly(@, Att \ {a})]
    /\ oplog' = [oplog EXCEPT ![d] = @ \cup {NewOp(d, "remove", a)}]
    /\ \/ files' = [files EXCEPT ![d][a] = "absent"]
       \/ UNCHANGED files
    /\ UNCHANGED <<keys, epoch, adding, shipped, failed>>

-----------------------------------------------------------------------------
(* Synchronisation.                                                         *)

\* Mutant of ApplyOps: rows are added and never dropped.
ApplyOpsAdds(d, e, authors) ==
    LET L == oplog[d] \cup {o \in oplog[e] : o.dev \in authors}
        cur == CurrentVersion(L)
        fresh == epoch[d] + 1
    IN  /\ adding[d] = NoAdd
        /\ L # oplog[d]
        /\ oplog' = [oplog EXCEPT ![d] = L]
        /\ att' = [att EXCEPT ![d] =
                     [a \in Surviving(L) \cup DOMAIN @ |->
                        IF a \in DOMAIN @ THEN @[a] ELSE [version |-> cur, key |-> fresh]]]
        /\ epoch' = [epoch EXCEPT ![d] = fresh]
        /\ keys' = [keys EXCEPT ![d] = [v \in 1 .. cur |-> fresh]]
        /\ UNCHANGED <<files, adding, shipped, failed>>

\* apply_foreign_ops: re-seal every version under fresh ItemKeys, drop the
\* rows of removed attachments, bind the missing ones to the current version.
\* A row that is already there is left as it is.  With no version of the item
\* held, the lookup of the current version fails and the transaction rolls
\* back.
ApplyOps(d, e, authors) ==
    LET L == oplog[d] \cup {o \in oplog[e] : o.dev \in authors}
        cur == CurrentVersion(L)
        fresh == epoch[d] + 1
        bound == [a \in Surviving(L) |->
                    IF a \in DOMAIN att[d]
                    THEN att[d][a]
                    ELSE [version |-> cur, key |-> fresh]]
        fails == cur = 0 /\ Surviving(L) # {}
    IN  /\ adding[d] = NoAdd
        /\ L # oplog[d]
        /\ failed' = [failed EXCEPT ![d] = fails]
        /\ IF fails
           THEN UNCHANGED <<oplog, keys, epoch, att>>
           ELSE /\ oplog' = [oplog EXCEPT ![d] = L]
                /\ att' = [att EXCEPT ![d] = bound]
                /\ epoch' = [epoch EXCEPT ![d] = fresh]
                /\ keys' = [keys EXCEPT ![d] = [v \in 1 .. cur |-> fresh]]
        /\ UNCHANGED <<files, adding, shipped>>

\* push: every local blob the sync directory does not name yet.
ShipBlobs(d) ==
    /\ adding[d] = NoAdd
    /\ shipped' = [a \in Att |-> IF shipped[a] = "absent" THEN files[d][a] ELSE shipped[a]]
    /\ UNCHANGED <<oplog, keys, epoch, att, files, adding, failed>>

\* Mutant of Stored: the hash is not compared with the name.
StoredUnverified(content) == content

\* store_attachment_blob keeps the bytes only if they hash to their name.
Stored(content) == IF content = "good" THEN "good" ELSE "absent"

\* Mutant of FetchBlobs: only what hangs on the current version is fetched.
FetchCurrentBlobs(d) ==
    /\ adding[d] = NoAdd
    /\ files' = [files EXCEPT ![d] =
                   [a \in Att |-> IF /\ a \in DOMAIN att[d]
                                     /\ att[d][a].version = CurrentVersion(oplog[d])
                                     /\ @[a] = "absent"
                                  THEN Stored(shipped[a])
                                  ELSE @[a]]]
    /\ UNCHANGED <<oplog, keys, epoch, att, adding, shipped, failed>>

\* pull: the blobs rows refer to and the device does not have.
FetchBlobs(d) ==
    /\ adding[d] = NoAdd
    /\ files' = [files EXCEPT ![d] =
                   [a \in Att |-> IF a \in DOMAIN att[d] /\ @[a] = "absent"
                                  THEN Stored(shipped[a])
                                  ELSE @[a]]]
    /\ UNCHANGED <<oplog, keys, epoch, att, adding, shipped, failed>>

TamperBlob(a) ==
    /\ shipped[a] = "good"
    /\ Cardinality({b \in Att : shipped[b] = "bad"}) < MaxTamper
    /\ shipped' = [shipped EXCEPT ![a] = "bad"]
    /\ UNCHANGED <<oplog, keys, epoch, att, files, adding, failed>>

AttNext ==
    \/ \E d \in Replica : \/ WriteVersion(d) \/ PruneKeys(d)
                          \/ CommitAdd(d) \/ AbortAdd(d)
                          \/ ShipBlobs(d) \/ FetchBlobs(d)
    \/ \E d \in Replica, a \in Att : BeginAdd(d, a) \/ DeleteAttachment(d, a)
    \/ \E d \in Replica : \E e \in Replica \ {d} :
       \E authors \in SUBSET (Replica \ {d}) : ApplyOps(d, e, authors)
    \/ \E a \in Att : TamperBlob(a)

AttSpec == AttInit /\ [][AttNext]_attVars

\* Users keep syncing, and an add that was begun ends.
AttFairness ==
    \A d \in Replica :
        /\ WF_attVars(CommitAdd(d) \/ AbortAdd(d))
        /\ WF_attVars(ShipBlobs(d))
        /\ SF_attVars(FetchBlobs(d))
        /\ \A e \in Replica \ {d} : SF_attVars(ApplyOps(d, e, Replica \ {d}))

AttFairSpec == AttSpec /\ AttFairness

-----------------------------------------------------------------------------

\* The attachment rows of a device are those its operations say: added and
\* never removed, in whatever order the two arrive, and however an ingest
\* ends (materialize_attachments, apply_foreign_ops).
AttachmentRowsMatchLog ==
    \A d \in Replica : DOMAIN att[d] = Surviving(oplog[d])

\* A row its own device wrote is backed by its blob: the blob goes first, and
\* neither a failed or killed add, nor another device's delete, nor the
\* cleanup of a deleted sibling takes it away (attachment.rs:215).
OwnRowsHaveBlobs ==
    \A d \in Replica : \A a \in DOMAIN att[d] :
        (\E o \in oplog[d] : o.dev = d /\ o.kind = "add" /\ o.att = a)
            => files[d][a] = "good"

\* No device ever stores bytes that are not the attachment's, and so none
\* ships them on (store_attachment_blob, engine.rs pull).
NoTamperedBlobKept ==
    \A d \in Replica : \A a \in Att : files[d][a] # "bad"

\* An attachment that is not removed, and whose shipped blob nobody tampers
\* with, reaches every device, row and blob, in any order of the two
\* (engine.rs pull: "a later pull completes it").
EventuallyDelivered ==
    \A a \in Att :
        <>[](/\ \E d \in Replica : \E o \in oplog[d] : o.kind = "add" /\ o.att = a
             /\ shipped[a] # "bad"
             /\ \A d \in Replica : \A o \in oplog[d] :
                   o.kind = "remove" => o.att # a)
        => <>[](\A d \in Replica : a \in DOMAIN att[d] /\ files[d][a] = "good")

-----------------------------------------------------------------------------
(* Claims of the documentation that the code does not keep.                 *)

\* The key an attachment row is bound to is the one the read path loads.
AttachmentsReadable ==
    \A d \in Replica : \A a \in DOMAIN att[d] :
        LET b == att[d][a]
        IN  b.version \in DOMAIN keys[d] /\ keys[d][b.version] = b.key

\* The item of an attachment exists when the attachment is materialised.
IngestSucceeds == \A d \in Replica : ~failed[d]

=============================================================================
