------------------------------- MODULE Account -------------------------------
(***************************************************************************)
(* The account store (lp-vault/src/account.rs) of one profile, used by     *)
(* several processes at once: the daemon and command-line invocations open *)
(* the same SQLite files and share no lock.  A SQL transaction is one      *)
(* action; statements outside a transaction are separate actions.  The     *)
(* audit append is a deferred transaction: it reads first, and its commit  *)
(* succeeds only if nothing was committed to the store in between.         *)
(*                                                                         *)
(* A vault file is the number of item mutations committed to it (the       *)
(* contents are the subject of OpLog and VaultSync); the item id of an     *)
(* audit record is the number of the mutation it is about.                 *)
(***************************************************************************)
EXTENDS AuditLog

CONSTANTS Proc,         \* processes working on the profile
          OwnVault,     \* ids this device may create vaults under
          SharedVault,  \* ids of vaults that peers share
          Peer,         \* devices that may be pinned
          Stranger,     \* a device that is never pinned
          Me,           \* this device
          Password,     \* passwords people type
          Base,         \* vault names
          MaxMutations, \* bound: mutations per vault
          MaxSalt,      \* bound: password changes
          MaxAudit,     \* bound: audit rows
          MaxCommands   \* bound: commands started, backup commands included

Vault == OwnVault \cup SharedVault

ASSUME AccountAssumption ==
  /\ Vault \subseteq Nat /\ Peer \subseteq Nat /\ {Stranger, Me} \subseteq Nat \ Peer /\ Stranger # Me
  /\ OwnVault \cap SharedVault = {} /\ Password # {} /\ Base # {}
  /\ MaxMutations \in Nat /\ MaxSalt \in Nat /\ MaxAudit \in Nat
  /\ MaxCommands \in Nat

\* nor a flag, nor the contents of the vaults directory
ASSUME NullAssumption == Null \notin BOOLEAN /\ Null \notin [Vault -> Nat \cup {Null}]

VARIABLES
  acct,       \* account.localpass: KDF salt, envelope, registry, peers, audit rows; NoStore: no file
  vaultFile,  \* the .vault files: mutations committed, Null: no file
  proc,       \* what each process is doing
  commands    \* commands started, for the bound

-----------------------------------------------------------------------------
(* Helpers.                                                                *)

\* what is there without a registry row, and without an account file
Unregistered == [name |-> Null, deleted |-> Null]
NoStore == [salt |-> Null, envelope |-> Null, reg |-> [v \in Vault |-> Unregistered],
            peers |-> {}, audit |-> <<>>]

\* an idle process: no session, nothing under way
Idle == [session |-> FALSE, pc |-> "idle", data |-> Null]

At(p, pc) == proc[p].pc = pc
Ready(p) == proc[p].session /\ At(p, "idle")

\* a process with nothing under way starts a command
Begin == commands < MaxCommands /\ commands' = commands + 1

Goto(p, pc, data) == proc' = [proc EXCEPT ![p].pc = pc, ![p].data = data]
Done(p) == Goto(p, "idle", Null)

\* kinds without data, about an item, a peer
Plain(label) == [label |-> label, data |-> <<>>]
ItemKind(label, v, n) ==
  [label |-> label, data |-> [c \in {"item_id", "vault_id"} |-> IF c = "item_id" THEN n ELSE v]]
ReadKind(v, n, field) ==
  [label |-> "item_secret_read",
   data |-> [c \in {"item_id", "vault_id", "field"} |->
               IF c = "item_id" THEN n ELSE IF c = "vault_id" THEN v ELSE field]]
PeerKind(d) == [label |-> "device_trust", data |-> [c \in {"peer_device_id"} |-> d]]
ShareKind(v, d) ==
  [label |-> "vault_share",
   data |-> [c \in {"vault_id", "peer_device_id"} |-> IF c = "vault_id" THEN v ELSE d]]
DenyKind(reason) == [label |-> "access_denied", data |-> [c \in {"deny_reason"} |-> reason]]

\* record_audit and its typed wrappers: the append starts, in its own transaction
RecordAudit(p, kind) == Goto(p, "audit", [kind |-> kind])

\* for_current_process: what a process that acts for itself declares
ThisProcess == [source |-> "cli", process |-> <<1>>, pid |-> 1]

\* the MasterUnlockKey is derived from the password and the stored salt; the
\* Secret Key does not change
Muk(password, salt) == <<password, salt>>

\* the vaults list_vaults returns, and their names
LiveVaults(a) == {v \in Vault : a.reg[v] # Unregistered /\ ~a.reg[v].deleted}
LiveNames(a) == {a.reg[v].name : v \in LiveVaults(a)}

\* open_vault: registered, not deleted, and the file is there
CanOpen(v) == acct # NoStore /\ v \in LiveVaults(acct) /\ vaultFile[v] # Null

\* disambiguate_vault_name: <<name, 0>> is the plain name, <<name, 1>> "name (shared)",
\* <<name, n>> "name (shared n)"; the first free one
DisambiguateVaultName(existing, base) ==
  <<base, CHOOSE n \in 0..Cardinality(existing) :
            /\ <<base, n>> \notin existing
            /\ \A m \in 0..(n - 1) : <<base, m>> \in existing>>

-----------------------------------------------------------------------------
(* The account.                                                            *)

NewAccount(password) ==
  [salt |-> 0, envelope |-> Muk(password, 0), reg |-> [v \in Vault |-> Unregistered],
   peers |-> {}, audit |-> <<>>]

\* AccountStore::create: refuses when there is a file; one transaction
Create(p) ==
  /\ Begin /\ proc[p] = Idle /\ acct = NoStore
  /\ \E w \in Password : acct' = NewAccount(w)
  /\ UNCHANGED <<vaultFile, proc>>

\* unlock_inner, first read: the KDF parameters
UnlockReadKdf(p) ==
  /\ Begin /\ proc[p] = Idle /\ acct # NoStore
  /\ \E w \in Password : Goto(p, "unlock", [muk |-> Muk(w, acct.salt)])
  /\ UNCHANGED <<acct, vaultFile>>

\* unlock_inner, second read: the envelope either opens or not; both are recorded
UnlockReadEnvelope(p) ==
  /\ At(p, "unlock") /\ acct # NoStore
  /\ LET ok == acct.envelope = proc[p].data.muk IN
     proc' = [proc EXCEPT ![p] =
                [session |-> ok, pc |-> "audit",
                 data |-> [kind |-> Plain(IF ok THEN "unlock_success" ELSE "unlock_failure")]]]
  /\ UNCHANGED <<acct, vaultFile, commands>>

\* Session::lock and Drop
Lock(p) ==
  /\ Begin /\ Ready(p)
  /\ proc' = [proc EXCEPT ![p] = Idle]
  /\ UNCHANGED <<acct, vaultFile>>

\* record_access_denied: a refused request is recorded without a session
RecordAccessDenied(p) ==
  /\ Begin /\ proc[p] = Idle /\ acct # NoStore
  /\ RecordAudit(p, DenyKind(1))
  /\ UNCHANGED <<acct, vaultFile>>

\* change_password: the stored parameters and envelope are read, and the old
\* password checked against them, before the transaction
ChangePasswordCheck(p) ==
  /\ Begin /\ Ready(p) /\ acct # NoStore /\ acct.salt < MaxSalt
  /\ \E old, new \in Password :
       /\ acct.envelope = Muk(old, acct.salt)
       /\ Goto(p, "rekey", [new |-> new])
  /\ UNCHANGED <<acct, vaultFile>>

\* a plausible slip: the envelope is rewritten, the salt kept
ChangePasswordCommitOld(p) ==
  /\ At(p, "rekey") /\ acct # NoStore
  /\ acct' = [acct EXCEPT !.envelope = Muk(proc[p].data.new, acct.salt + 1)]
  /\ Done(p)
  /\ UNCHANGED <<vaultFile, commands>>

\* change_password: fresh salt and new envelope in one transaction; no audit record
ChangePasswordCommit(p) ==
  /\ At(p, "rekey") /\ acct # NoStore
  /\ acct' = [acct EXCEPT !.salt = @ + 1, !.envelope = Muk(proc[p].data.new, acct.salt + 1)]
  /\ Done(p)
  /\ UNCHANGED <<vaultFile, commands>>

-----------------------------------------------------------------------------
(* Vaults.                                                                 *)

\* create_vault: the vault file is committed first, under a fresh id
CreateVaultFile(p) ==
  /\ Begin /\ Ready(p)
  /\ \E v \in OwnVault, base \in Base :
       /\ acct # NoStore /\ acct.reg[v] = Unregistered /\ vaultFile[v] = Null
       /\ vaultFile' = [vaultFile EXCEPT ![v] = 0]
       /\ Goto(p, "register", [vault |-> v, name |-> <<base, 0>>])
  /\ UNCHANGED acct

\* create_vault / register_shared_vault: the registry row; its key is the vault id,
\* so a row that appeared in between makes the INSERT fail
InsertRegistryRow(p) ==
  /\ At(p, "register") /\ acct # NoStore
  /\ LET v == proc[p].data.vault IN
     acct' = IF acct.reg[v] # Unregistered THEN acct
             ELSE [acct EXCEPT !.reg[v] = [name |-> proc[p].data.name, deleted |-> FALSE]]
  /\ Done(p)
  /\ UNCHANGED <<vaultFile, commands>>

\* soft_delete_vault: the file stays
SoftDeleteVault(p) ==
  /\ Begin /\ Ready(p) /\ acct # NoStore
  /\ \E v \in LiveVaults(acct) : acct' = [acct EXCEPT !.reg[v].deleted = TRUE]
  /\ UNCHANGED <<vaultFile, proc>>

\* a mutation of an item: committed to the vault file, then audited (record_mutation)
Mutate(p) ==
  /\ Begin /\ Ready(p)
  /\ \E v \in Vault :
       /\ CanOpen(v) /\ vaultFile[v] < MaxMutations
       /\ vaultFile' = [vaultFile EXCEPT ![v] = @ + 1]
       /\ RecordAudit(p, ItemKind("item_update", v, vaultFile[v] + 1))
  /\ UNCHANGED acct

\* record_secret_read: an item that is there is shown, one field or all of it
SecretRead(p) ==
  /\ Begin /\ Ready(p)
  /\ \E v \in Vault, field \in {Null, <<1>>} :
       /\ CanOpen(v) /\ vaultFile[v] > 0
       /\ RecordAudit(p, ReadKind(v, vaultFile[v], field))
  /\ UNCHANGED <<acct, vaultFile>>

-----------------------------------------------------------------------------
(* Trust and sharing.                                                      *)

\* trust_peer_device: the row is upserted, then audited
TrustPeerDevice(p) ==
  /\ Begin /\ Ready(p) /\ acct # NoStore
  /\ \E d \in Peer :
       /\ acct' = [acct EXCEPT !.peers = @ \cup {d}]
       /\ RecordAudit(p, PeerKind(d))
  /\ UNCHANGED vaultFile

\* share_vault_key_to_peer: the blob leaves through the channel; audited
ShareVaultKeyToPeer(p) ==
  /\ Begin /\ Ready(p) /\ acct # NoStore
  /\ \E v \in LiveVaults(acct), d \in acct.peers : RecordAudit(p, ShareKind(v, d))
  /\ UNCHANGED <<acct, vaultFile>>

\* share_signed_message / split_share_blob: a share names its sender and is signed
\* over the vault, the recipient and the sender
Shares == [sender : Peer \cup {Stranger, Me}, signed : Vault \X {Me, Stranger} \X Peer]

\* the sender is pinned (or this device) and signed for this vault and this recipient
GenuineShare(s, v) ==
  /\ s.sender \in acct.peers \cup {Me}
  /\ s.signed = <<v, Me, s.sender>>

\* import_shared_vault_key: anything but a genuine share is an error; the name is
\* chosen against the vaults listed now
ImportSharedVaultKey(p) ==
  /\ Begin /\ Ready(p) /\ acct # NoStore
  /\ \E v \in SharedVault, s \in Shares, base \in Base :
       /\ GenuineShare(s, v)
       /\ Goto(p, "adopt", [vault |-> v,
                            name |-> DisambiguateVaultName(LiveNames(acct), base)])
  /\ UNCHANGED <<acct, vaultFile>>

\* register_shared_vault: a registered vault, deleted or not, is left alone;
\* otherwise an empty file is created unless there is one
RegisterSharedVault(p) ==
  /\ At(p, "adopt") /\ acct # NoStore
  /\ LET v == proc[p].data.vault IN
     IF acct.reg[v] # Unregistered
       THEN Done(p) /\ UNCHANGED vaultFile
       ELSE /\ vaultFile' = [vaultFile EXCEPT ![v] = IF @ = Null THEN 0 ELSE @]
            /\ Goto(p, "register", proc[p].data)
  /\ UNCHANGED <<acct, commands>>

-----------------------------------------------------------------------------
(* The audit append.                                                       *)

\* append_audit_record: the transaction's reads
AuditRead(p) ==
  /\ At(p, "audit") /\ acct # NoStore /\ Len(acct.audit) < MaxAudit
  /\ Goto(p, "append", [kind |-> proc[p].data.kind, seen |-> acct])
  /\ UNCHANGED <<acct, vaultFile, commands>>

\* a plausible slip: the last record is read before the transaction starts
UnchangedNot(p) == TRUE

\* what the store held when the transaction read it is what it holds at the commit
Unchanged(p) == proc[p].data.seen = acct

\* append_audit_record: the row is committed
AuditCommit(p) ==
  /\ At(p, "append") /\ acct # NoStore /\ Unchanged(p)
  /\ acct' = [acct EXCEPT !.audit =
                Append(@, NextRow(proc[p].data.seen.audit, proc[p].data.kind, Null,
                                  CurrentOrigin(Null, ThisProcess)))]
  /\ Done(p)
  /\ UNCHANGED <<vaultFile, commands>>

\* the append fails (busy, disk full, no file): every caller ignores it
AuditFail(p) ==
  /\ At(p, "audit") \/ At(p, "append")
  /\ Done(p)
  /\ UNCHANGED <<acct, vaultFile, commands>>

\* the process dies, or its operation fails on a store that is not there
Crash(p) ==
  /\ ~At(p, "idle")
  /\ proc' = [proc EXCEPT ![p] = Idle]
  /\ UNCHANGED <<acct, vaultFile, commands>>

-----------------------------------------------------------------------------
AccountInit ==
  /\ acct = NoStore
  /\ vaultFile = [v \in Vault |-> Null]
  /\ proc = [p \in Proc |-> Idle]
  /\ commands = 0
=============================================================================
