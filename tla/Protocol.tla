------------------------------ MODULE Protocol ------------------------------
(***************************************************************************)
(* The daemon's requests (crates/lp-daemon/src/protocol.rs) and what the   *)
(* engine decides from a request alone: which profile it names, whether it *)
(* needs a person, whether it counts as use of the vault.                  *)
(*                                                                         *)
(* A request is its kind, the one argument those decisions read, and       *)
(* whether the profile it carries is the daemon's.  The argument wide is   *)
(* keep-alive of Status, on of the two mode switches, a non-empty share    *)
(* list of a nearby or QR transfer; other requests do not have it.         *)
(***************************************************************************)

SessionKinds == {"Ping", "Status", "Unlock", "CreateAccount", "Lock"}

VaultKinds == {"ListVaults", "CreateVault", "DeleteVault"}

ItemReadKinds ==
    {"ListItems", "PasswordHealth", "GetItem", "History", "Search", "Totp",
     "ResolveField", "GetRawPayload"}

ItemWriteKinds == {"CreateItem", "UpdateItem", "DeleteItem", "RestoreVersion"}

TrashKinds == {"ListTrash", "UntrashItem"}

BrowserKinds == {"MatchLogins", "FillLogin"}

PairingKinds == {"ExportIdentity", "ListPeers", "TrustDevice", "SetPairingMode"}

AgentFillKinds ==
    {"SetAgentFillMode", "ArmFillIntent", "TakeFillIntent",
     "ReportFillOutcome", "PollFillOutcome"}

SyncKinds ==
    {"SyncSetup", "SyncPush", "SyncPull", "SyncStatus", "ShareVaultToDevice",
     "SyncAdopt", "ListPendingDevices"}

NearbyKinds == {"NearbyListen", "NearbyConnect", "NearbyStatus", "NearbyStop"}

QrKinds == {"QrHaveCode", "QrExport", "QrImport"}

AttachmentKinds ==
    {"AddAttachment", "ListAttachments", "GetAttachment", "DeleteAttachment"}

InjectKinds == {"GetEnvSet", "AuditList"}

PresenceKinds == {"BeginAgentSession", "ConfirmPresence", "Shutdown"}

RequestKind ==
    SessionKinds \cup VaultKinds \cup ItemReadKinds \cup ItemWriteKinds
    \cup TrashKinds \cup BrowserKinds \cup PairingKinds \cup AgentFillKinds
    \cup SyncKinds \cup NearbyKinds \cup QrKinds \cup AttachmentKinds
    \cup InjectKinds \cup PresenceKinds

WideKinds == {"Status", "SetAgentFillMode", "SetPairingMode", "NearbyConnect", "QrExport"}

Request(kinds) ==
    {r \in [kind : kinds, wide : BOOLEAN, mine : BOOLEAN] : r.wide => r.kind \in WideKinds}

\* profile(): the three requests that name no profile are never the wrong one.
WrongProfile(r) == ~r.mine /\ r.kind \notin {"Ping", "Lock", "Shutdown"}

\* Consent when switched on, or when a vault key goes along.
PresenceWhenWide == {"SetAgentFillMode", "SetPairingMode", "NearbyConnect", "QrExport"}

\* Consent and change, whatever the argument.
PresenceAlways ==
    {"NearbyListen", "TrustDevice", "ShareVaultToDevice", "SyncSetup", "CreateVault",
     "DeleteVault", "CreateItem", "UpdateItem", "DeleteItem", "RestoreVersion",
     "UntrashItem", "AddAttachment", "DeleteAttachment"}

NeedsPresence(r) ==
    \/ r.wide /\ r.kind \in PresenceWhenWide
    \/ r.kind \in PresenceAlways

CountsAsActivity(r) ==
    /\ r.kind = "Status" => r.wide
    /\ r.kind \notin {"Ping", "TakeFillIntent", "PollFillOutcome", "NearbyStatus",
                      "BeginAgentSession"}

-----------------------------------------------------------------------------
(* Which requests each program sends.  What is missing from the command     *)
(* line (attachments, sync, device trust, backup, import and export) it     *)
(* does itself, on a session of its own, after asking for the password.     *)

\* item add, get, list, edit (read the payload, overlay, update), delete,
\* history, restore, trash and untrash.
CliItemSends ==
    {"CreateItem", "GetItem", "ListItems", "GetRawPayload", "UpdateItem",
     "DeleteItem", "History", "RestoreVersion", "ListTrash", "UntrashItem"}

CliEnvSends == {"CreateItem", "GetRawPayload"}

CliSshSends == {"CreateItem", "GetRawPayload", "ListItems", "ListVaults"}

CliRunSends == {"GetEnvSet", "ResolveField"}

CliDaemonSends == {"Ping", "Status", "Unlock", "Lock", "Shutdown"}

CliPairingSends == {"SetPairingMode", "Status"}

CliAgentFillSends == {"SetAgentFillMode", "Status"}

CliSends ==
    CliItemSends \cup CliEnvSends \cup CliSshSends \cup CliRunSends
    \cup CliDaemonSends \cup CliPairingSends \cup CliAgentFillSends
    \cup {"Search", "Totp", "PasswordHealth", "ConfirmPresence"}

\* The tools: list, read, one-time code, run with secrets, fill.
McpSends ==
    {"Status", "BeginAgentSession", "ListVaults", "ListItems", "GetItem", "Totp",
     "ArmFillIntent", "PollFillOutcome"} \cup CliRunSends

NativeHostSends ==
    {"Status", "MatchLogins", "FillLogin", "TakeFillIntent", "ReportFillOutcome"}

DesktopSessionSends ==
    {"Ping", "Status", "Unlock", "CreateAccount", "Lock", "ConfirmPresence", "Shutdown"}

DesktopReadSends ==
    {"ListVaults", "ListItems", "GetItem", "Search", "Totp", "PasswordHealth",
     "ListTrash", "AuditList", "GetRawPayload"}

DesktopWriteSends ==
    {"CreateVault", "DeleteVault", "CreateItem", "UpdateItem", "DeleteItem",
     "UntrashItem"}

DesktopDeviceSends ==
    {"ExportIdentity", "ListPeers", "TrustDevice", "SetPairingMode",
     "SetAgentFillMode", "ListPendingDevices"}

DesktopSyncSends ==
    {"SyncSetup", "SyncPush", "SyncPull", "SyncStatus", "ShareVaultToDevice", "SyncAdopt"}

DesktopSends ==
    DesktopSessionSends \cup DesktopReadSends \cup DesktopWriteSends
    \cup DesktopDeviceSends \cup DesktopSyncSends \cup NearbyKinds \cup QrKinds
    \cup AttachmentKinds

=============================================================================
