------------------------------- MODULE Backup --------------------------------
(***************************************************************************)
(* Backup, rotation, verification and restore (lp-vault/src/backup.rs and  *)
(* its command line, lp-cli/src/commands/backup.rs) of the profile that    *)
(* Account models.  Creating a backup runs beside the other processes: the *)
(* account store and each vault are snapshotted one after the other, each  *)
(* consistently.  A full restore is refused while a daemon serves the      *)
(* profile; the model takes it to run alone.                               *)
(***************************************************************************)
EXTENDS Account

CONSTANTS MaxTime,      \* bound: backups taken (one per UTC second)
          Keep          \* backups kept by rotation; 0 keeps all

ASSUME BackupAssumption == MaxTime \in Nat /\ Keep \in Nat

VARIABLES
  backups,    \* backups/<timestamp>: its files and its manifest, Null: no directory
  aside,      \* backups/pre-restore-<ts>: the live files a restore moved away
  job,        \* the backup command under way, or Null
  pre         \* history: the live files when the restore under way began, or NoAside

bvars == <<backups, aside, job, pre>>
vars == <<acct, vaultFile, proc, backups, aside, job, pre, commands>>

Time == 1..MaxTime

NoFiles == [acct |-> NoStore, vaults |-> [v \in Vault |-> Null]]
NoAside == [acct |-> NoStore, vaults |-> Null]
Live == [acct |-> acct, vaults |-> vaultFile]

-----------------------------------------------------------------------------
(* Reading backups.                                                        *)

\* list: a directory is a backup if its manifest can be read
Listed == {t \in Time : backups[t] # Null /\ backups[t].manifest # Null}

\* verify, checks 1 and 2: every file of the manifest is there with its hash
FilesIntact(b) ==
  /\ b.manifest # Null
  /\ b.manifest.acct # NoStore => b.files.acct = b.manifest.acct
  /\ \A v \in Vault : b.manifest.vaults[v] # Null => b.files.vaults[v] = b.manifest.vaults[v]

\* verify_recoverable: the password unlocks the copy (unlock_quiet: nothing is
\* written to it) and every vault it lists opens
Recoverable(b, w) ==
  /\ b.files.acct # NoStore
  /\ b.files.acct.envelope = Muk(w, b.files.acct.salt)
  /\ \A v \in LiveVaults(b.files.acct) : b.files.vaults[v] # Null

\* prune_old: what rotation removes, given the backups that are listed
Prunable ==
  IF Keep = 0 THEN {}
  ELSE {t \in Listed : Cardinality({u \in Listed : u > t}) >= Keep}

-----------------------------------------------------------------------------
(* create                                                                  *)

Clear == job' = Null

\* create: a new directory named by the clock
CreateBackup ==
  /\ Begin /\ job = Null /\ pre = NoAside /\ acct # NoStore
  /\ \E t \in Time :
       /\ \A u \in Time : backups[u] # Null => u < t
       /\ \A u \in 1..(t - 1) : \E x \in u..(t - 1) : backups[x] # Null
       /\ backups' = [backups EXCEPT ![t] = [files |-> NoFiles, manifest |-> Null]]
       /\ job' = [op |-> "create", dir |-> t, step |-> "account", todo |-> {}]
  /\ UNCHANGED <<acct, vaultFile, proc, aside, pre>>

In(op, step) == job # Null /\ job.op = op /\ job.step = step

\* create_inner 1: the account store
SnapshotAccount ==
  /\ In("create", "account")
  /\ backups' = [backups EXCEPT ![job.dir].files.acct = acct]
  /\ job' = [job EXCEPT !.step = "list"]
  /\ UNCHANGED <<acct, vaultFile, proc, aside, pre>>

\* live_vault_ids: the vaults are listed from the live store
ListLiveVaults ==
  /\ In("create", "list")
  /\ job' = [job EXCEPT !.step = "vaults", !.todo = LiveVaults(acct)]
  /\ UNCHANGED <<acct, vaultFile, proc, backups, aside, pre>>

\* create_inner 2: one vault; a file that is not there is skipped
SnapshotVault ==
  /\ In("create", "vaults")
  /\ \E v \in job.todo :
       /\ backups' = [backups EXCEPT ![job.dir].files.vaults[v] = vaultFile[v]]
       /\ job' = [job EXCEPT !.todo = @ \ {v}]
  /\ UNCHANGED <<acct, vaultFile, proc, aside, pre>>

\* a plausible slip: the account store is copied after the vaults
WriteManifestAccountLast ==
  /\ In("create", "vaults") /\ job.todo = {}
  /\ LET files == [backups[job.dir].files EXCEPT !.acct = acct] IN
     backups' = [backups EXCEPT ![job.dir] = [files |-> files, manifest |-> files]]
  /\ job' = [job EXCEPT !.step = "prune"]
  /\ UNCHANGED <<acct, vaultFile, proc, aside, pre>>

\* create_inner 3: the manifest, last
WriteManifest ==
  /\ In("create", "vaults") /\ job.todo = {}
  /\ backups' = [backups EXCEPT ![job.dir].manifest = backups[job.dir].files]
  /\ job' = [job EXCEPT !.step = "prune"]
  /\ UNCHANGED <<acct, vaultFile, proc, aside, pre>>

\* prune_old, after a create that succeeded
PruneOld ==
  /\ In("create", "prune")
  /\ backups' = [t \in Time |-> IF t \in Prunable THEN Null ELSE backups[t]]
  /\ Clear
  /\ UNCHANGED <<acct, vaultFile, proc, aside, pre>>

\* create: any error before the manifest removes the partial directory
CreateBackupFails ==
  /\ job # Null /\ job.op = "create" /\ job.step # "prune"
  /\ backups' = [backups EXCEPT ![job.dir] = Null]
  /\ Clear
  /\ UNCHANGED <<acct, vaultFile, proc, aside, pre>>

-----------------------------------------------------------------------------
(* restore                                                                 *)

\* refuse_if_daemon_running: a full restore wants the profile to itself
NobodyOnProfile == \A p \in Proc : proc[p] = Idle

\* restore: a listed backup
RestoreBackup ==
  /\ Begin /\ job = Null /\ pre = NoAside /\ NobodyOnProfile
  /\ aside = NoAside
  /\ \E t \in Listed :
       job' = [op |-> "restore", dir |-> t, step |-> "move_account", todo |-> {}]
  /\ pre' = Live
  /\ UNCHANGED <<acct, vaultFile, proc, backups, aside>>

\* move_live_aside: the account store, then the whole vaults directory; an error
\* ends the command where it is
MoveAccountAside ==
  /\ In("restore", "move_account")
  /\ acct' = NoStore /\ aside' = [aside EXCEPT !.acct = acct]
  /\ job' = [job EXCEPT !.step = "move_vaults"]
  /\ UNCHANGED <<vaultFile, proc, backups, pre>>

MoveVaultsAside ==
  /\ In("restore", "move_vaults")
  /\ vaultFile' = NoFiles.vaults /\ aside' = [aside EXCEPT !.vaults = vaultFile]
  /\ job' = [job EXCEPT !.step = "install",
               !.todo = {v \in Vault : backups[job.dir].manifest.vaults[v] # Null}]
  /\ UNCHANGED <<acct, proc, backups, pre>>

MoveAsideFails ==
  /\ In("restore", "move_account") \/ In("restore", "move_vaults")
  /\ Clear /\ pre' = IF job.step = "move_account" THEN NoAside ELSE pre
  /\ UNCHANGED <<acct, vaultFile, proc, backups, aside>>

\* install_backup_files: the files in the manifest's order, the account first, each
\* staged and renamed into place.  A file that is gone from the backup fails it.
InstallAccount ==
  /\ In("restore", "install") /\ acct = NoStore /\ backups[job.dir].files.acct # NoStore
  /\ acct' = backups[job.dir].files.acct
  /\ UNCHANGED <<vaultFile, proc, backups, aside, job, pre>>

InstallVault ==
  /\ In("restore", "install") /\ acct # NoStore
  /\ \E v \in job.todo :
       /\ backups[job.dir].files.vaults[v] # Null
       /\ vaultFile' = [vaultFile EXCEPT ![v] = backups[job.dir].files.vaults[v]]
       /\ job' = [job EXCEPT !.todo = @ \ {v}]
  /\ UNCHANGED <<acct, proc, backups, aside, pre>>

RestoreSucceeds ==
  /\ In("restore", "install") /\ acct # NoStore /\ job.todo = {}
  /\ Clear /\ pre' = NoAside
  /\ UNCHANGED <<acct, vaultFile, proc, backups, aside>>

\* a plausible slip: the installed vault files are left in place by the roll-back
RollBackAccountOnly ==
  /\ In("restore", "install")
  /\ acct' = aside.acct
  /\ vaultFile' = [v \in Vault |-> IF vaultFile[v] # Null THEN vaultFile[v] ELSE aside.vaults[v]]
  /\ aside' = NoAside
  /\ Clear /\ pre' = NoAside
  /\ UNCHANGED <<proc, backups>>

\* restore: on an error, remove_live_files and move_aside_back
RollBack ==
  /\ In("restore", "install")
  /\ acct' = aside.acct /\ vaultFile' = aside.vaults
  /\ aside' = NoAside
  /\ Clear /\ pre' = NoAside
  /\ UNCHANGED <<proc, backups>>

\* the command dies: what it did so far stays
KillJob ==
  /\ job # Null
  /\ Clear
  /\ pre' = IF job.step = "move_account" THEN NoAside ELSE pre
  /\ UNCHANGED <<acct, vaultFile, proc, backups, aside>>

\* the command dies inside remove_dir_all of a pruned backup: any of its parts remain
KillPrune ==
  /\ In("create", "prune")
  /\ \E t \in Prunable, left \in BOOLEAN :
       backups' = [backups EXCEPT ![t].files = NoFiles, ![t].manifest = IF left THEN @ ELSE Null]
  /\ Clear
  /\ UNCHANGED <<acct, vaultFile, proc, aside, pre>>

\* after a restore that died or stopped halfway, the person moves the pre-restore
\* copies back
PutBack ==
  /\ job = Null /\ pre # NoAside
  /\ acct' = IF aside.acct # NoStore THEN aside.acct ELSE acct
  /\ vaultFile' = IF aside.vaults # Null THEN aside.vaults ELSE vaultFile
  /\ aside' = NoAside /\ pre' = NoAside
  /\ UNCHANGED <<proc, backups, job>>

\* the person deletes the pre-restore copies once the restore is verified
DiscardAside ==
  /\ job = Null /\ pre = NoAside /\ aside # NoAside
  /\ aside' = NoAside
  /\ UNCHANGED <<acct, vaultFile, proc, backups, job, pre>>

\* nobody works on the profile during a restore, or on what a broken one left
Settled == pre = NoAside

\* restore_single_item: an item of the same vault in a backup that the session's
\* password unlocks is created again in the live vault, and audited
RestoreSingleItem(p) ==
  /\ Settled /\ Begin /\ Ready(p)
  /\ \E t \in Listed, v \in Vault :
       /\ CanOpen(v) /\ vaultFile[v] < MaxMutations
       /\ backups[t].files.acct # NoStore /\ v \in LiveVaults(backups[t].files.acct)
       /\ backups[t].files.acct.envelope = Muk(acct.envelope[1], backups[t].files.acct.salt)
       /\ backups[t].files.vaults[v] \notin {Null, 0}
       /\ vaultFile' = [vaultFile EXCEPT ![v] = @ + 1]
       /\ RecordAudit(p, ItemKind("item_create", v, vaultFile[v] + 1))
  /\ UNCHANGED <<acct, backups, aside, job, pre>>

-----------------------------------------------------------------------------
Init == AccountInit /\ backups = [t \in Time |-> Null] /\ aside = NoAside /\ job = Null
        /\ pre = NoAside

Beside(Command) == Settled /\ Command /\ UNCHANGED bvars
Alone(Step) == Step /\ UNCHANGED commands

Next ==
  \/ \E p \in Proc :
       \/ Beside(Create(p)) \/ Beside(UnlockReadKdf(p)) \/ Beside(UnlockReadEnvelope(p))
       \/ Beside(Lock(p)) \/ Beside(RecordAccessDenied(p))
       \/ Beside(ChangePasswordCheck(p)) \/ Beside(ChangePasswordCommit(p))
       \/ Beside(CreateVaultFile(p)) \/ Beside(InsertRegistryRow(p))
       \/ Beside(SoftDeleteVault(p)) \/ Beside(Mutate(p)) \/ Beside(SecretRead(p))
       \/ Beside(TrustPeerDevice(p)) \/ Beside(ShareVaultKeyToPeer(p))
       \/ Beside(ImportSharedVaultKey(p)) \/ Beside(RegisterSharedVault(p))
       \/ Beside(AuditRead(p)) \/ Beside(AuditCommit(p)) \/ Beside(AuditFail(p))
       \/ Beside(Crash(p)) \/ RestoreSingleItem(p)
  \/ CreateBackup \/ Alone(SnapshotAccount) \/ Alone(ListLiveVaults)
  \/ Alone(SnapshotVault) \/ Alone(WriteManifest) \/ Alone(PruneOld)
  \/ Alone(CreateBackupFails) \/ RestoreBackup \/ Alone(MoveAccountAside)
  \/ Alone(MoveVaultsAside) \/ Alone(MoveAsideFails) \/ Alone(InstallAccount)
  \/ Alone(InstallVault) \/ Alone(RestoreSucceeds) \/ Alone(RollBack) \/ Alone(KillJob)
  \/ Alone(KillPrune) \/ Alone(PutBack) \/ Alone(DiscardAside)

Spec == Init /\ [][Next]_vars

-----------------------------------------------------------------------------
(* Properties.                                                             *)

\* kinds a record could be changed into: another label of the same shape, other data
ForgedKinds(kind) ==
  {Plain("unlock_success"), ReadKind(1, 1, Null), ReadKind(1, 1, <<1>>)}
  \cup {[kind EXCEPT !.data[c] = 7] : c \in DOMAIN kind.data \ {"field", "format"}}

ForgedOrigins == {Null, ThisProcess, [ThisProcess EXCEPT !.process = Null]}

\* the stores there are: the live one and those of complete backups
Stores ==
  {s \in {Live} \cup {backups[t].files : t \in Listed} : s.acct # NoStore}

\* verify_audit_chain accepts the log at all times: whatever processes append at
\* once, die in the middle of it, or come back to an older store
ChainHolds == \A s \in Stores : VerifyAuditChain(s.acct.audit)

\* once a record has a successor, changing its kind, its detail or its attribution is
\* noticed by verify_audit_chain: no two records have the same canonical bytes
TamperEvident ==
  [][acct # NoStore /\ acct' # NoStore /\ Len(acct'.audit) > Len(acct.audit) /\ acct.audit # <<>> =>
       LET i == Len(acct.audit)
           r == RecordFromRow(acct.audit[i])
       IN
       \A k \in ForgedKinds(r.kind), d \in {Null, <<1>>}, o \in ForgedOrigins :
         LET forged == RowOf([r EXCEPT !.kind = k, !.detail = d, !.origin = o])
         IN forged # acct'.audit[i] => ~VerifyAuditChain([acct'.audit EXCEPT ![i] = forged])]_vars

\* an audited mutation is in the vault, in the live profile and in every backup: the
\* record is written after the commit, and a backup copies the log before the vaults
AuditedIsStored ==
  Settled =>
    \A s \in Stores : \A i \in 1..Len(s.acct.audit) :
      LET c == s.acct.audit[i].cols IN
      c.item_id # Null /\ s.vaults[c.vault_id] # Null => c.item_id <= s.vaults[c.vault_id]

\* when its manifest is written, a backup unlocks with a password and has the file of
\* every vault its registry lists, except of vaults deleted while it was made (they are
\* live in the copied registry and not copied) and of vaults the profile has lost
BackupIsRecoverable ==
  [][\A t \in Time : t \in Listed' \ Listed =>
       LET b == backups'[t] IN
       /\ FilesIntact(b)
       /\ \E w \in Password :
            Recoverable([b EXCEPT !.files.acct.reg =
                           [v \in Vault |-> IF CanOpen(v) THEN @[v] ELSE Unregistered]], w)]_vars

\* a restore replaces the whole profile or none of it; while it runs, and after it
\* dies or stops halfway, the files it replaced are still there
RestoreIsAtomic ==
  [][pre # NoAside =>
       \/ /\ pre' = pre
          /\ pre.acct \in {acct', aside'.acct} /\ pre.vaults \in {vaultFile', aside'.vaults}
       \/ /\ pre' = NoAside
          /\ Live' = pre \/ (job # Null /\ Live' = backups[job.dir].manifest)]_vars
=============================================================================
