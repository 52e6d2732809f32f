------------------------------ MODULE Commands ------------------------------
(***************************************************************************)
(* The commands of localpass (crates/lp-cli/src/cli.rs, commands/) and     *)
(* what each one does, on its own session and through the daemon.          *)
(*                                                                         *)
(* A command is a sequence of steps.  On its own session a step looks,     *)
(* makes one change, appends an audit record of a read or of an export, or *)
(* gives a secret to whoever asked.  Through the daemon a step is one      *)
(* request, and whether the command gives the secret in the answer away.   *)
(* Arguments, items and output formats are abstracted away; an option that *)
(* changes the steps makes a command of its own.                           *)
(***************************************************************************)
EXTENDS Protocol, Sequences, TLC

Look == [act |-> "look", what |-> "nothing"]
Do(what) == [act |-> "do", what |-> what]
Log == [act |-> "log", what |-> "nothing"]
Tell == [act |-> "tell", what |-> "nothing"]

Ask(kind) == [kind |-> kind, wide |-> FALSE, mine |-> TRUE, reveal |-> FALSE, tells |-> FALSE]
AskWide(kind) == [Ask(kind) EXCEPT !.wide = TRUE]
AskAndTell(kind) == [Ask(kind) EXCEPT !.reveal = TRUE, !.tells = TRUE]

-----------------------------------------------------------------------------
(* What the engine does for a request of the command line.                  *)

\* The requests that change something, named alike for the direct route.
Changing ==
    ItemWriteKinds \cup {"UntrashItem", "SetPairingMode", "SetAgentFillMode",
                         "Unlock", "Lock", "Shutdown"}

EngineDoes(r) == IF r.kind \in Changing THEN <<r.kind>> ELSE <<>>

\* record_secret_read in the arms of handle: never for a masked item, nor for
\* the raw payload.
EngineLogs(r) ==
    \/ r.kind = "GetItem" /\ r.reveal
    \/ r.kind \in {"Totp", "ResolveField", "GetEnvSet"}

-----------------------------------------------------------------------------
(* item                                                                     *)

ItemCommands ==
    {"item add", "item get", "item get --reveal", "item list", "item edit", "item rm",
     "item rm --force", "item history", "item restore", "item trash list", "item untrash"}

ItemAdd == <<Do("CreateItem")>>
ItemAddProxied == <<Ask("CreateItem")>>
ItemGet(reveal) == IF reveal THEN <<Look, Log, Tell>> ELSE <<Look>>
ItemGetProxied(reveal) == IF reveal THEN <<AskAndTell("GetItem")>> ELSE <<Ask("GetItem")>>
ItemList == <<Look>>
ItemListProxied == <<Ask("ListItems")>>
ItemEdit == <<Look, Do("UpdateItem")>>
ItemEditProxied == <<Ask("GetRawPayload"), Ask("UpdateItem")>>

\* The confirmation between the two steps may say no: the second step fails.
ItemRm(force) == <<Look, Do("DeleteItem")>>

ItemRmProxied(force) == IF force THEN <<Ask("DeleteItem")>>
                    ELSE <<Ask("GetItem"), Ask("DeleteItem")>>

ItemHistory == <<Look>>
ItemHistoryProxied == <<Ask("History")>>
ItemRestore == <<Look, Do("RestoreVersion")>>
ItemRestoreProxied == <<Ask("RestoreVersion")>>
ItemTrashList == <<Look>>
ItemTrashListProxied == <<Ask("ListTrash")>>
ItemUntrash == <<Look, Do("UntrashItem")>>
ItemUntrashProxied == <<Ask("UntrashItem")>>

ItemDirect ==
    "item add" :> ItemAdd @@ "item get" :> ItemGet(FALSE) @@ "item get --reveal" :> ItemGet(TRUE)
    @@ "item list" :> ItemList @@ "item edit" :> ItemEdit @@ "item rm" :> ItemRm(FALSE)
    @@ "item rm --force" :> ItemRm(TRUE) @@ "item history" :> ItemHistory
    @@ "item restore" :> ItemRestore @@ "item trash list" :> ItemTrashList
    @@ "item untrash" :> ItemUntrash

ItemProxied ==
    "item add" :> ItemAddProxied @@ "item get" :> ItemGetProxied(FALSE)
    @@ "item get --reveal" :> ItemGetProxied(TRUE) @@ "item list" :> ItemListProxied
    @@ "item edit" :> ItemEditProxied @@ "item rm" :> ItemRmProxied(FALSE)
    @@ "item rm --force" :> ItemRmProxied(TRUE) @@ "item history" :> ItemHistoryProxied
    @@ "item restore" :> ItemRestoreProxied @@ "item trash list" :> ItemTrashListProxied
    @@ "item untrash" :> ItemUntrashProxied

-----------------------------------------------------------------------------
(* env, ssh, run                                                            *)

EnvCommands == {"env export", "env import", "env diff"}

\* load_entries takes no audit record on either route.
LoadEntries == <<Look>>
LoadEntriesProxied(tells) == <<[Ask("GetRawPayload") EXCEPT !.tells = tells]>>
EnvExport == LoadEntries \o <<Tell>>
EnvImport == <<Do("CreateItem")>>
EnvDiff == LoadEntries

EnvDirect ==
    "env export" :> EnvExport @@ "env import" :> EnvImport @@ "env diff" :> EnvDiff
EnvProxied ==
    "env export" :> LoadEntriesProxied(TRUE) @@ "env import" :> <<Ask("CreateItem")>>
    @@ "env diff" :> LoadEntriesProxied(FALSE)

SshCommands == {"ssh list", "ssh generate", "ssh public"}

SshListDirect == <<Look>>
\* One vault with one key: every vault and every key adds its own requests.
SshListProxied == <<Ask("ListVaults"), Ask("ListItems"), Ask("GetRawPayload")>>
SshDirect ==
    "ssh list" :> SshListDirect @@ "ssh generate" :> <<Do("CreateItem")>>
    @@ "ssh public" :> <<Look>>
SshProxied ==
    "ssh list" :> SshListProxied @@ "ssh generate" :> <<Ask("CreateItem")>>
    @@ "ssh public" :> <<Ask("GetRawPayload")>>

RunCommands == {"run"}

\* One env-set and one reference; the child that is spawned last gets both.
LoadEnvSet == <<Look, Log>>

\* mutant: the env-set read as its payload, which the engine does not record
LoadEnvSetProxiedRaw == <<[Ask("GetRawPayload") EXCEPT !.tells = TRUE]>>

LoadEnvSetProxied == <<Ask("GetEnvSet")>>
ResolveNamed == <<Look, Log>>
ResolveReferenceProxied == <<AskAndTell("ResolveField")>>
ComposeResolved == LoadEnvSet \o ResolveNamed
ComposeResolvedProxied == LoadEnvSetProxied \o ResolveReferenceProxied

RunDirect == "run" :> ComposeResolved \o <<Tell>>
RunProxied == "run" :> ComposeResolvedProxied

-----------------------------------------------------------------------------
(* totp, search, health, status, vault list                                 *)

TotpCommands == {"totp"}
ComputeDirect == <<Look, Log, Tell>>
ComputeProxied == <<AskAndTell("Totp")>>

Search == <<Look>>
SearchProxied == <<Ask("Search")>>
Health == <<Look>>
HealthProxied == <<Ask("PasswordHealth")>>
Status == <<Look>>
StatusProxied == <<Ask("Status")>>

VaultCommands ==
    {"vault list", "vault create", "vault stats", "vault prune", "vault share-to-device"}
VaultStats == <<Look>>
VaultPrune == <<Look, Do("Prune")>>
VaultShareToDevice == <<Look, Do("ShareVaultToDevice")>>

\* Only the listing goes through the daemon.
VaultDirect ==
    "vault list" :> <<Look>> @@ "vault create" :> <<Do("CreateVault")>>
    @@ "vault stats" :> VaultStats @@ "vault prune" :> VaultPrune
    @@ "vault share-to-device" :> VaultShareToDevice
VaultProxied == "vault list" :> <<Ask("ListVaults")>>

-----------------------------------------------------------------------------
(* Commands that open a session of their own whatever the daemon does.      *)

AttachCommands == {"attach add", "attach list", "attach get", "attach rm"}
AttachAdd == <<Look, Do("AddAttachment")>>
AttachList == <<Look>>
AttachGet == <<Look, Tell>>
AttachRm == <<Look, Do("DeleteAttachment")>>
AttachDirect ==
    "attach add" :> AttachAdd @@ "attach list" :> AttachList
    @@ "attach get" :> AttachGet @@ "attach rm" :> AttachRm

PasswordCommands == {"password change"}
PasswordChange == <<Do("ChangePassword")>>

ExportCommands == {"export age", "export csv", "export dotenv"}
\* write_owner_only, then record_export.
ExportAge == <<Look, Tell, Log>>
ExportPlaintext == <<Look, Tell, Log>>
ExportDotenv == <<Look, Tell, Log>>
ExportDirect ==
    "export age" :> ExportAge @@ "export csv" :> ExportPlaintext
    @@ "export dotenv" :> ExportDotenv

ImportCommands == {"import"}
\* One create_item per entry; an entry that fails is reported as skipped.
CreateAll == <<Do("Import")>>

KitCommands == {"kit"}
Kit == <<Look, Tell>>

DeviceCommands == {"device export-identity", "device trust"}
DeviceExportIdentity == <<Look>>
DeviceTrust == <<Look, Do("TrustDevice")>>
DeviceDirect ==
    "device export-identity" :> DeviceExportIdentity @@ "device trust" :> DeviceTrust

AuditCommands == {"audit", "audit --verify"}
AuditList == <<Look>>
AuditVerify == <<Look>>

SyncCommands ==
    {"sync setup", "sync push", "sync pull", "sync status", "sync nearby --listen",
     "sync nearby --connect", "sync adopt"}
SyncSetupDirect == <<Look, Do("SyncSetup")>>
SyncPush == <<Look, Do("SyncPush")>>
\* The alarms are reported, and the command fails, after the pull is done.
SyncPull == <<Look, Do("SyncPull"), Look>>
SyncStatus == <<Look>>
NearbyListenDirect == <<Look, Do("NearbyListenEnabled"), Do("Nearby"), Look>>
NearbyConnectDirect == <<Look, Do("Nearby"), Look>>
\* Every key is imported, then each adopted vault is pulled.
SyncAdopt == <<Do("SyncAdopt"), Do("SyncPull")>>
SyncDirect ==
    "sync setup" :> SyncSetupDirect @@ "sync push" :> SyncPush @@ "sync pull" :> SyncPull
    @@ "sync status" :> SyncStatus @@ "sync nearby --listen" :> NearbyListenDirect
    @@ "sync nearby --connect" :> NearbyConnectDirect @@ "sync adopt" :> SyncAdopt

QrCommands == {"sync qr have", "sync qr export", "sync qr import"}
QrHave == <<Look>>
QrExport == <<Look, Do("WriteBundle")>>
QrImport == <<Look, Do("QrImport"), Look>>
QrDirect ==
    "sync qr have" :> QrHave @@ "sync qr export" :> QrExport @@ "sync qr import" :> QrImport

-----------------------------------------------------------------------------
(* Commands that need no session: files, the daemon itself, this process.   *)

InitCommands == {"init"}
Initialize == <<Do("CreateAccount"), Do("CreateVault"), Do("StoreSecretKey"), Tell>>

BackupCommands ==
    {"backup create", "backup list", "backup verify", "backup verify --no-recover",
     "backup restore", "backup restore --item"}
BackupCreate == <<Do("Backup")>>
BackupList == <<Look>>
BackupVerify == <<Look>>
BackupRestore == <<Look, Do("RestoreBackup")>>
BackupRestoreItem == <<Look, Do("CreateItem")>>

\* The two that take the password ask for it themselves.
BackupWithPassword == {"backup verify", "backup restore --item"}

BackupDirect ==
    "backup create" :> BackupCreate @@ "backup list" :> BackupList
    @@ "backup verify" :> BackupVerify @@ "backup verify --no-recover" :> BackupVerify
    @@ "backup restore" :> BackupRestore @@ "backup restore --item" :> BackupRestoreItem

BrowserCommands == {"browser register", "browser unregister"}
BrowserRegister == <<Do("RegisterHost")>>
BrowserUnregister == <<Do("UnregisterHost")>>

Generate == <<Look>>

\* Pairing and agent fill live in the daemon: without it they print a note.
PairingCommands == {"pairing enable", "pairing disable", "pairing status"}
PairingSet(on) == <<IF on THEN AskWide("SetPairingMode") ELSE Ask("SetPairingMode")>>
PairingStatus == <<Ask("Status")>>

AgentFillCommands == {"agent-fill arm", "agent-fill disable", "agent-fill status"}
AgentFillArm == <<AskWide("SetAgentFillMode")>>
AgentFillDisable == <<Ask("SetAgentFillMode")>>
AgentFillStatus == <<Ask("Status")>>

DaemonOnlyProxied ==
    "pairing enable" :> PairingSet(TRUE) @@ "pairing disable" :> PairingSet(FALSE)
    @@ "pairing status" :> PairingStatus @@ "agent-fill arm" :> AgentFillArm
    @@ "agent-fill disable" :> AgentFillDisable @@ "agent-fill status" :> AgentFillStatus

DaemonCommands == {"daemon start", "daemon stop", "daemon status", "unlock", "lock"}
DaemonStop == <<Ask("Shutdown")>>
DaemonStatus == <<Ask("Status")>>
RunUnlock == <<Ask("Unlock")>>
RunLock == <<Ask("Lock")>>

DaemonProxied ==
    "daemon start" :> <<>> @@ "daemon stop" :> DaemonStop @@ "daemon status" :> DaemonStatus
    @@ "unlock" :> RunUnlock @@ "lock" :> RunLock

-----------------------------------------------------------------------------
(* The command line as a whole.                                             *)

Direct ==
    ItemDirect @@ EnvDirect @@ SshDirect @@ RunDirect @@ VaultDirect @@ AttachDirect
    @@ ExportDirect @@ DeviceDirect @@ SyncDirect @@ QrDirect @@ BackupDirect
    @@ "totp" :> ComputeDirect @@ "search" :> Search @@ "health" :> Health
    @@ "status" :> Status @@ "password change" :> PasswordChange @@ "import" :> CreateAll
    @@ "kit" :> Kit @@ "audit" :> AuditList @@ "audit --verify" :> AuditVerify
    @@ "init" :> Initialize @@ "generate" :> Generate
    @@ "browser register" :> BrowserRegister @@ "browser unregister" :> BrowserUnregister

Proxied ==
    ItemProxied @@ EnvProxied @@ SshProxied @@ RunProxied @@ VaultProxied
    @@ DaemonOnlyProxied @@ DaemonProxied
    @@ "totp" :> ComputeProxied @@ "search" :> SearchProxied @@ "health" :> HealthProxied
    @@ "status" :> StatusProxied

Command ==
    ItemCommands \cup EnvCommands \cup SshCommands \cup RunCommands \cup TotpCommands
    \cup VaultCommands \cup AttachCommands \cup PasswordCommands \cup ExportCommands
    \cup ImportCommands \cup KitCommands \cup DeviceCommands \cup AuditCommands
    \cup SyncCommands \cup QrCommands \cup InitCommands \cup BackupCommands
    \cup BrowserCommands \cup PairingCommands \cup AgentFillCommands \cup DaemonCommands
    \cup {"search", "health", "status", "generate"}

\* Every command the parser accepts has its steps, and nothing else has.
ASSUME CommandsAssumption == Command = DOMAIN Direct \cup DOMAIN Proxied

DaemonOnly == PairingCommands \cup AgentFillCommands

\* Commands that ask the daemon first and fall back on a session of their own.
Routed == (DOMAIN Proxied \cap DOMAIN Direct) \cup DaemonOnly

NeedsPassword ==
    (DOMAIN Direct \ (BackupCommands \cup BrowserCommands \cup {"generate"}))
    \cup BackupWithPassword

\* allowed_in_mcp_child
AllowedInMcpChild == {"status", "generate"}

-----------------------------------------------------------------------------
(* What a command is for, whatever route it takes: its changes in order,    *)
(* whether it gives a secret, whether that is recorded.                     *)

ChangesOf(c) ==
    IF c \in DOMAIN Direct
    THEN LET did == SelectSeq(Direct[c], LAMBDA s : s.act = "do")
         IN  [i \in DOMAIN did |-> did[i].what]
    ELSE LET made == SelectSeq(Proxied[c], LAMBDA r : EngineDoes(r) # <<>>)
         IN  [i \in DOMAIN made |-> made[i].kind]

TellsOf(c) == c \in DOMAIN Direct /\ Tell \in {Direct[c][i] : i \in DOMAIN Direct[c]}

LogsOf(c) ==
    IF c \in DOMAIN Direct THEN Len(SelectSeq(Direct[c], LAMBDA s : s.act = "log")) ELSE 0

=============================================================================
