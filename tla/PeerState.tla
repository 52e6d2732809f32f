----------------------------- MODULE PeerState -----------------------------
(***************************************************************************)
(* What two devices that meet directly (nearby sync, QR sync) know: which  *)
(* vaults they hold the key of, how far they have each author's chain, and *)
(* which attachment blobs are on disk. An author's operations are held     *)
(* without gaps (VaultSync!HeldChains), so a head per author says it all.  *)
(* The steps here are the calls both transports make on the unlocked       *)
(* session; Nearby and QrSync add the transports.                          *)
(***************************************************************************)
EXTENDS Naturals, Sequences, FiniteSets, SequencesExt

CONSTANTS
    Device,     \* device ids (ordered), also the authors of operations
    Vault,      \* vault ids (ordered)
    MaxSeq,     \* bound on an author's operations in a vault
    Editing,    \* the pairs <<device, vault>> a user edits meanwhile
    Locking,    \* devices whose vault may lock meanwhile
    MaxLocks,   \* bound on how often they lock
    Attached,   \* the operations <<author, seq>> that add an attachment
    Damaged     \* pairs <<device, blob>>: the file on that device has rotted

ASSUME PeerConstants ==
    /\ Device \subseteq Nat /\ Vault \subseteq Nat /\ MaxSeq \in Nat
    /\ Locking \subseteq Device /\ MaxLocks \in Nat
    /\ Editing \subseteq Device \X Vault
    /\ Attached \subseteq Device \X (1..MaxSeq)
    /\ Damaged \subseteq Device \X (Vault \X Device \X (1..MaxSeq))

VARIABLES
    unlocked,   \* the devices whose daemon holds a session
    pins,       \* pins[d]: the devices d has pinned (peer_devices)
    vaults,     \* vaults[d]: the vaults d holds the key of
    heads,      \* heads[d][v][o]: how many of o's operations on v are held by d
    blobs,      \* blobs[d]: attachment blobs <<vault, author, seq>> on d's disk
    asked,      \* history: <<vault, device>> a user asked to share
    locks       \* locks so far, for the bound

pvars == <<unlocked, pins, vaults, heads, blobs>>

Op == Device \X (1..MaxSeq)

Heads == [Device -> 0..MaxSeq]

(* vault_heads; a vault that is not held has no operations. *)
VaultHeads(d, v) == heads[d][v]

(* inventory: every vault held, with its heads. *)
Inventory(d) == [v \in vaults[d] |-> VaultHeads(d, v)]

\* Mutant of OpsToSend: only this device's own operations.
OpsToSendOwn(d, v, theirHeads, peer) ==
    {op \in Op : /\ op[2] <= heads[d][v][op[1]]
                 /\ op[1] = d
                 /\ op[2] > theirHeads[op[1]]}

(* ops_to_send: what the peer lacks by its heads, its own operations left  *)
(* out.                                                                    *)
OpsToSend(d, v, theirHeads, peer) ==
    {op \in Op : /\ op[2] <= heads[d][v][op[1]]
                 /\ op[1] # peer
                 /\ op[2] > theirHeads[op[1]]}

(* What ingest leaves for one author: the chain grows as far as the run    *)
(* has no gap, and not at all when the author is not pinned (external to   *)
(* these transports: VaultSync models ingest itself).                      *)
Ingested(d, v, ops) ==
    [o \in Device |->
        IF o \notin pins[d] THEN heads[d][v][o]
        ELSE Max({n \in heads[d][v][o]..MaxSeq :
                    \A k \in (heads[d][v][o] + 1)..n : <<o, k>> \in ops})]

(* referenced_attachment_hashes and, less what is on disk, blob_wants.     *)
ReferencedUpTo(h, v) ==
    {<<v, op[1], op[2]>> : op \in {p \in Attached : p[2] <= h[p[1]]}}

Referenced(d, v) == ReferencedUpTo(heads[d][v], v)

BlobWants(d, common) == (UNION {Referenced(d, v) : v \in common}) \ blobs[d]

(* store_attachment_blob re-hashes what it is given: bytes that have       *)
(* rotted on the sender's disk are not stored.                             *)
Verified(blob, sender) == <<sender, blob>> \notin Damaged

(* import_shared_vault_key through import_shares: a vault that is held     *)
(* already stays as it is; the sender must be pinned.                      *)
Adopted(d, sender, shares) ==
    vaults[d] \cup (IF sender \in pins[d] THEN shares ELSE {})

(***************************************************************************)
(* A user of the device at work next to a transfer: an edit (author_op),   *)
(* with its blob when it adds an attachment.                               *)
(***************************************************************************)
Write(d, v) ==
    /\ <<d, v>> \in Editing /\ d \in unlocked /\ v \in vaults[d]
    /\ heads[d][v][d] < MaxSeq
    /\ heads' = [heads EXCEPT ![d][v][d] = @ + 1]
    /\ blobs' = [blobs EXCEPT ![d] = @ \cup
                    {<<v, op[1], op[2]>> : op \in {p \in Attached :
                                        p = <<d, heads[d][v][d] + 1>>}}]
    /\ UNCHANGED <<unlocked, pins, vaults>>

(* The daemon drops and regains its session; a transport's own part of the *)
(* lock is added where the transport is modelled.                          *)
LockSession(d) ==
    /\ d \in unlocked \cap Locking /\ locks < MaxLocks
    /\ unlocked' = unlocked \ {d} /\ locks' = locks + 1
    /\ UNCHANGED <<pins, vaults, heads, blobs>>

UnlockSession(d) ==
    /\ d \notin unlocked
    /\ unlocked' = unlocked \cup {d}
    /\ UNCHANGED <<pins, vaults, heads, blobs, locks>>

PeerTypeOK ==
    /\ unlocked \subseteq Device
    /\ pins \in [Device -> SUBSET Device]
    /\ vaults \in [Device -> SUBSET Vault]
    /\ heads \in [Device -> [Vault -> Heads]]
    /\ blobs \in [Device -> SUBSET (Vault \X Device \X (1..MaxSeq))]

(* Whatever the devices hold when they meet. A device's own chain is never *)
(* taken from outside (verification skips this device), so pins leaves the *)
(* device itself out.                                                      *)
PeerInit ==
    /\ PeerTypeOK
    /\ \A d \in Device : d \notin pins[d]
    /\ asked = {} /\ locks = 0

(***************************************************************************)
(* A device comes to hold the key of a vault only when a user of the       *)
(* sending device asked for that vault to be shared with that very device, *)
(* whoever else connects to the window or films the stream.                *)
(***************************************************************************)
SharedOnlyAsAsked ==
    [][\A d \in Device : (vaults'[d] \ vaults[d]) \X {d} \subseteq asked]_<<pvars, asked>>
=============================================================================
