--------------------------- MODULE DaemonSession ---------------------------
(***************************************************************************)
(* The daemon and the programs that talk to it: one session held unlocked  *)
(* for everybody, an idle timer, and the human-presence check that applies *)
(* while an AI agent is connected.                                         *)
(*                                                                         *)
(*   daemon     crates/lp-daemon/src/{server,engine}.rs                    *)
(*   clients    the command line, the desktop application, the browser's   *)
(*              native host: a connection per command                      *)
(*   MCP        one server with two connections held open, the proxy its   *)
(*              tools use and the sentinel of mcp/presence.rs              *)
(*                                                                         *)
(* A request is handled under the state mutex, so it is one action.  Where *)
(* a client keeps its connection or its grant between requests, the other  *)
(* programs, the clock, the reaper and a daemon restart come in between.   *)
(*                                                                         *)
(* Deadlines are ticks left, ages ticks elapsed.  The vault is what a      *)
(* request can change of it: a revision, flipped by every change of items, *)
(* vaults or attachments, the pinned peers, the enrolment of its channel   *)
(* and the devices its key was shared to.  Audit records are in AuditLog,  *)
(* fills in AgentFill.                                                     *)
(***************************************************************************)
EXTENDS Integers, Sequences, FiniteSets, SequencesExt, Protocol

CONSTANTS
    Person,        \* client processes whose user knows the master password
    Program,       \* client processes nobody types a password into
    Surface,       \* Surface[c]: the program a client process is
    Proxy, Sentinel,  \* the MCP server's two connections
    Device,        \* devices that may be trusted
    Kind,          \* the kinds of request in play
    IdleTicks,     \* the auto-lock timeout
    GrantTicks,    \* PRESENCE_GRANT_SECS
    WindowTicks,   \* how long a pairing, agent-fill or listen window stays open
    MaxGrants,     \* MAX_PRESENCE_GRANTS
    MaxFailures,   \* MAX_PRESENCE_FAILURES
    Nobody

VARIABLES
    stage,          \* of the daemon at the endpoint: "up", "stopping", "down", or
                    \* "foreign", one that refuses the MCP server's registration
    account,        \* the profile: "none", "keyless" (no secret-key file), "ready"
    unlocked,       \* State.session is held
    idle,           \* ticks since State.last_activity
    agentSessions,  \* State.agent_sessions
    grants,         \* State.presence_grants
    failures,       \* State.presence_failures
    windows,        \* ticks left of the pairing, agent-fill and listen windows
    conn,           \* the MCP server's connections, as the daemon's workers see them
    held,           \* held[c]: client c holds the token of its last confirmation
    mcp,            \* the MCP server: "off", "proxy" or "direct"
    vault,          \* what requests can change of the vault and the trust store
    who,            \* who made this step's change, else Nobody (for the properties)
    proof           \* proof[c]: ticks since c gave the right password in this
                    \* unlock, at most GrantTicks (for the properties)

daemon == <<stage, account, unlocked, idle, agentSessions, grants, failures, windows>>
clients == <<conn, held, mcp>>
vars == <<daemon, clients, vault, who, proof>>

-----------------------------------------------------------------------------

Client == Person \cup Program

McpConn == {Proxy, Sentinel}

Key == {"real", "forged"}

ASSUME BoundsAssumption ==
    /\ IdleTicks \in Nat \ {0}
    /\ GrantTicks \in Nat \ {0}
    /\ WindowTicks \in Nat \ {0}
    /\ MaxGrants \in Nat \ {0}
    /\ MaxFailures \in Nat \ {0}

ASSUME ProcessAssumption ==
    /\ IsFiniteSet(McpConn)
    /\ Proxy # Sentinel
    /\ Person \cap Program = {}
    /\ McpConn \cap Client = {}
    /\ Nobody \notin Client \cup McpConn
    /\ Surface \in [Client -> {"cli", "desktop", "host"}]
    /\ Kind \subseteq RequestKind

Grant == [to : Client, left : 1..GrantTicks]

Windows == [pairing : 0..WindowTicks, fill : 0..WindowTicks, listen : 0..WindowTicks]

Vault == [rev : 0..1, peers : [Device -> Key \cup {"none"}],
          enrolled : BOOLEAN, shared : SUBSET Device]

TypeOK ==
    /\ stage \in {"up", "stopping", "down", "foreign"}
    /\ account \in {"none", "keyless", "ready"}
    /\ unlocked \in BOOLEAN
    /\ idle \in 0..IdleTicks
    /\ agentSessions \in Nat
    /\ grants \in Seq(Grant) /\ Len(grants) <= MaxGrants
    /\ failures \in 0..(MaxFailures - 1)
    /\ windows \in Windows
    /\ conn \in [McpConn -> {"closed", "open", "agent", "ending", "refused"}]
    /\ held \in [Client -> BOOLEAN]
    /\ mcp \in {"off", "proxy", "direct"}
    /\ vault \in Vault
    /\ who \in Client \cup McpConn \cup {Nobody}
    /\ proof \in [Client -> 0..GrantTicks]

NoWindows == [pairing |-> 0, fill |-> 0, listen |-> 0]

\* State::new: a fresh daemon is locked and remembers nothing.
FreshState ==
    /\ stage' = "up"
    /\ unlocked' = FALSE
    /\ idle' = 0
    /\ agentSessions' = 0
    /\ grants' = <<>>
    /\ failures' = 0
    /\ windows' = NoWindows

Init ==
    /\ stage = "down"
    /\ account \in {"none", "ready"}
    /\ unlocked = FALSE
    /\ idle = 0
    /\ agentSessions = 0
    /\ grants = <<>>
    /\ failures = 0
    /\ windows = NoWindows
    /\ conn = [c \in McpConn |-> "closed"]
    /\ held = [c \in Client |-> FALSE]
    /\ mcp = "off"
    /\ vault = [rev |-> 0, peers |-> [d \in Device |-> "none"],
                enrolled |-> FALSE, shared |-> {}]
    /\ who = Nobody
    /\ proof = [c \in Client |-> GrantTicks]

NoProof == [c \in Client |-> GrantTicks]

-----------------------------------------------------------------------------
(* What the engine does around every request.                               *)

Sends(c) ==
    CASE c \in McpConn -> McpSends
      [] Surface[c] = "cli" -> CliSends
      [] Surface[c] = "desktop" -> DesktopSends
      [] Surface[c] = "host" -> NativeHostSends

\* A foreign daemon belongs to another profile (or to an older build).  There is
\* one endpoint for each user, so while it has it nobody is served here.
Serving == stage \in {"up", "stopping"}

\* A client connects for its command; the MCP server's proxy is connected.
Asks(c, r) ==
    /\ Serving
    /\ r.kind \in Sends(c)
    /\ c \in McpConn => conn[c] = "agent"

\* presence_granted: the token this process attaches names a live grant.
Granted(c) == c \in Client /\ held[c] /\ \E i \in DOMAIN grants : grants[i].to = c

PresenceRefused(c, r) ==
    /\ NeedsPresence(r)
    /\ agentSessions > 0
    /\ unlocked
    /\ ~Granted(c)

Admitted(c, r) == Asks(c, r) /\ ~WrongProfile(r) /\ ~PresenceRefused(c, r)

\* The request was served: it resets the idle timer if it is an active one.
Touch(r) == idle' = IF CountsAsActivity(r) /\ unlocked THEN 0 ELSE idle

\* Mutant of ResetSession: the grants outlive the unlock they vouch for.
ResetSessionKeepGrants(opened) ==
    /\ unlocked' = opened
    /\ idle' = 0
    /\ failures' = 0
    /\ windows' = [windows EXCEPT !.fill = 0, !.listen = 0]
    /\ proof' = NoProof
    /\ UNCHANGED grants

\* State::lock, after which an unlock stores its new session.  Pairing mode is
\* left alone.  The idle timer is not read while locked and stays at zero.
ResetSession(opened) ==
    /\ unlocked' = opened
    /\ idle' = 0
    /\ grants' = <<>>
    /\ failures' = 0
    /\ windows' = [windows EXCEPT !.fill = 0, !.listen = 0]
    /\ proof' = NoProof

Locks == ResetSession(FALSE)

Unlocks == ResetSession(TRUE)

Unmarked == who' = Nobody

\* Mutant of Refuse: a refused request counts as use of the vault.
RefuseTouches(c, r) ==
    /\ Asks(c, r) /\ ~Admitted(c, r)
    /\ idle' = 0
    /\ Unmarked
    /\ UNCHANGED <<stage, account, unlocked, agentSessions, grants, failures,
                   windows, clients, vault, proof>>

\* WrongProfile or PresenceRequired: nothing changes, nothing is touched.
Refuse(c, r) ==
    /\ Asks(c, r) /\ ~Admitted(c, r)
    /\ Unmarked
    /\ UNCHANGED <<daemon, clients, vault, proof>>

\* with_session on a locked daemon.
Sessionless == SessionKinds \cup PresenceKinds \cup {"NearbyStop"}

NeedsSession(r) == r.kind \notin Sessionless

AnswerLocked(c, r) ==
    /\ Admitted(c, r) /\ NeedsSession(r) /\ ~unlocked
    /\ Unmarked
    /\ UNCHANGED <<daemon, clients, vault, proof>>

\* What every served request leaves alone.
ServedBy(c, r) ==
    /\ Admitted(c, r)
    /\ NeedsSession(r) => unlocked
    /\ Touch(r)
    /\ UNCHANGED <<stage, account, unlocked, agentSessions, grants, failures,
                   clients, proof>>

\* A read, a poll, or a change the vault refused with a usage error.
Answer(c, r) ==
    /\ ServedBy(c, r)
    /\ NeedsSession(r) \/ r.kind = "Status"
    /\ Unmarked
    /\ UNCHANGED <<windows, vault>>

-----------------------------------------------------------------------------
(* Requests that change the vault or open a window.                         *)

EditKinds ==
    ItemWriteKinds \cup {"UntrashItem", "CreateVault", "DeleteVault",
                         "AddAttachment", "DeleteAttachment"}

Edit(c, r) ==
    /\ r.kind \in EditKinds
    /\ ServedBy(c, r)
    /\ vault' = [vault EXCEPT !.rev = 1 - @]
    /\ who' = c
    /\ UNCHANGED windows

\* A pull, an adopt, a QR import or a nearby session applies what pinned
\* devices signed: the change is theirs, not the caller's.
IngestKinds == {"SyncPull", "SyncAdopt", "QrImport", "NearbyConnect"}

Ingest(c, r) ==
    /\ r.kind \in IngestKinds
    /\ ServedBy(c, r)
    /\ \E d \in Device : vault.peers[d] # "none"
    /\ vault' = [vault EXCEPT !.rev = 1 - @]
    /\ Unmarked
    /\ UNCHANGED windows

\* The person has compared the fingerprint with the device's own screen, so the
\* confirmed one is the real key's, whichever identity string was presented.  A
\* pinned key is never replaced.
TrustDevice(c, r, d, key) ==
    /\ r.kind = "TrustDevice"
    /\ ServedBy(c, r)
    /\ windows.pairing > 0
    /\ key = "real"
    /\ vault.peers[d] \in {"none", key}
    /\ vault' = [vault EXCEPT !.peers[d] = key]
    /\ who' = c
    /\ UNCHANGED windows

SyncSetup(c, r) ==
    /\ r.kind = "SyncSetup"
    /\ ServedBy(c, r)
    /\ vault' = [vault EXCEPT !.enrolled = TRUE]
    /\ who' = c
    /\ UNCHANGED windows

\* The vault key is sealed to a pinned device: through the enrolled channel, or
\* with the share list of a QR export or of a dialled nearby session.
ShareVaultKey(c, r, d) ==
    /\ \/ r.kind = "ShareVaultToDevice" /\ vault.enrolled
       \/ r.kind \in {"QrExport", "NearbyConnect"} /\ r.wide
    /\ ServedBy(c, r)
    /\ vault.peers[d] # "none"
    /\ vault' = [vault EXCEPT !.shared = @ \cup {d}]
    /\ who' = c
    /\ UNCHANGED windows

\* SetPairingMode and SetAgentFillMode: a fresh window, or none.
SetMode(c, r) ==
    /\ r.kind \in {"SetPairingMode", "SetAgentFillMode"}
    /\ ServedBy(c, r)
    /\ LET w == IF r.kind = "SetPairingMode" THEN "pairing" ELSE "fill"
       IN  windows' = [windows EXCEPT ![w] = IF r.wide THEN WindowTicks ELSE 0]
    /\ who' = IF r.wide THEN c ELSE Nobody
    /\ UNCHANGED vault

NearbyListen(c, r) ==
    /\ r.kind = "NearbyListen"
    /\ ServedBy(c, r)
    /\ windows.listen = 0
    /\ windows' = [windows EXCEPT !.listen = WindowTicks]
    /\ who' = c
    /\ UNCHANGED vault

NearbyStop(c, r) ==
    /\ r.kind = "NearbyStop"
    /\ ServedBy(c, r)
    /\ windows' = [windows EXCEPT !.listen = 0]
    /\ Unmarked
    /\ UNCHANGED vault

-----------------------------------------------------------------------------
(* The session itself.                                                      *)

\* The right password comes from a person; anybody can send a wrong one.
Password(c, right) == right => c \in Person

\* issue_presence_grant: the oldest live grant makes room.
IssueGrant(c) ==
    LET kept == IF Len(grants) >= MaxGrants THEN Tail(grants) ELSE grants
    IN  grants' = Append(kept, [to |-> c, left |-> GrantTicks])

\* A usage error given before any session is looked at.  It counts as activity.
UsageError(c, r) ==
    /\ Admitted(c, r)
    /\ Touch(r)
    /\ Unmarked
    /\ UNCHANGED <<stage, account, unlocked, agentSessions, grants, failures,
                   windows, clients, vault, proof>>

\* The right password: a grant, which the client keeps and attaches from now
\* on.  proof restarts with it.
ConfirmPresence(c, r) ==
    /\ r.kind = "ConfirmPresence" /\ Admitted(c, r)
    /\ unlocked /\ account = "ready"
    /\ Password(c, TRUE)
    /\ IssueGrant(c)
    /\ failures' = 0
    /\ held' = [held EXCEPT ![c] = TRUE]
    /\ proof' = [proof EXCEPT ![c] = 0]
    /\ Touch(r)
    /\ Unmarked
    /\ UNCHANGED <<stage, account, unlocked, agentSessions, windows, conn, mcp, vault>>

\* A wrong one: the last of MaxFailures in a row locks the vault.  It is an
\* authentication failure, so the idle timer runs on.
ConfirmPresenceWrong(c, r) ==
    /\ r.kind = "ConfirmPresence" /\ Admitted(c, r)
    /\ unlocked
    /\ IF failures + 1 >= MaxFailures
       THEN Locks
       ELSE failures' = failures + 1 /\ UNCHANGED <<unlocked, idle, grants, windows, proof>>
    /\ Unmarked
    /\ UNCHANGED <<stage, account, agentSessions, clients, vault>>

\* The secret-key file is unreadable or malformed, or the account store fails:
\* the password was not judged, so no failure is counted.
ConfirmPresenceUnchecked(c, r) ==
    /\ r.kind = "ConfirmPresence" /\ unlocked
    /\ UsageError(c, r)

Unlock(c, r) ==
    /\ r.kind = "Unlock" /\ Admitted(c, r)
    /\ account = "ready"
    /\ Password(c, TRUE)
    /\ Unlocks
    /\ Unmarked
    /\ UNCHANGED <<stage, account, agentSessions, clients, vault>>

\* A wrong password or secret key, an authentication failure: the idle timer
\* runs on.
UnlockWrong(c, r) ==
    /\ r.kind = "Unlock" /\ Admitted(c, r)
    /\ account # "none"
    /\ Unmarked
    /\ UNCHANGED <<daemon, clients, vault, proof>>

\* Nothing to try it with: the key in the request or in the file is malformed,
\* the file is missing or unreadable, there is no account, or its store fails.
UnlockUnusable(c, r) == r.kind = "Unlock" /\ UsageError(c, r)

\* Account, then secret-key file, then default vault; the second or the third
\* may fail, and only a complete account is unlocked.
CreateAccount(c, r) ==
    /\ r.kind = "CreateAccount" /\ Admitted(c, r)
    /\ account = "none"
    /\ \/ /\ account' \in {"keyless", "ready"}
          /\ Touch(r)
          /\ UNCHANGED <<unlocked, grants, failures, windows, proof>>
       \/ account' = "ready" /\ Unlocks
    /\ Unmarked
    /\ UNCHANGED <<stage, agentSessions, clients, vault>>

\* There is an account already, or the store could not be created.
CreateAccountRefused(c, r) == r.kind = "CreateAccount" /\ UsageError(c, r)

\* The desktop application also forgets its token.
Lock(c, r) ==
    /\ r.kind = "Lock" /\ Admitted(c, r)
    /\ Locks
    /\ held' = [held EXCEPT ![c] = @ /\ Surface[c] # "desktop"]
    /\ Unmarked
    /\ UNCHANGED <<stage, account, agentSessions, conn, mcp, vault>>

\* The daemon locks, answers, and stops; its workers serve on until it exits.
Shutdown(c, r) ==
    /\ r.kind = "Shutdown" /\ Admitted(c, r)
    /\ stage' = "stopping"
    /\ Locks
    /\ Unmarked
    /\ UNCHANGED <<account, agentSessions, clients, vault>>

\* The reaper; it ends with the accept loop.
MaybeAutolock ==
    /\ stage = "up"
    /\ unlocked
    /\ idle >= IdleTicks
    /\ Locks
    /\ Unmarked
    /\ UNCHANGED <<stage, account, agentSessions, clients, vault>>

-----------------------------------------------------------------------------
(* Processes come and go.                                                   *)

\* The process ends, after a Shutdown or by itself, and with it every
\* connection and everything State held in memory.
Exit ==
    /\ stage # "down"
    /\ stage' = "down"
    /\ agentSessions' = 0
    /\ Locks
    /\ conn' = [c \in McpConn |-> "closed"]
    /\ mcp' = IF conn[Proxy] = "open" THEN "off" ELSE mcp
    /\ Unmarked
    /\ UNCHANGED <<account, held, vault>>

\* ensure_started, ensure_running.
Spawn ==
    /\ stage = "down"
    /\ FreshState
    /\ Unmarked
    /\ UNCHANGED <<account, clients, vault, proof>>

\* The same for another profile, or a build that does not know the request.
SpawnForeign ==
    /\ stage = "down"
    /\ stage' = "foreign"
    /\ Unmarked
    /\ UNCHANGED <<account, unlocked, idle, agentSessions, grants, failures,
                   windows, clients, vault, proof>>

\* A client process ends and takes the token in its memory with it.
ClientExit(c) ==
    /\ held[c]
    /\ held' = [held EXCEPT ![c] = FALSE]
    /\ proof' = [proof EXCEPT ![c] = GrantTicks]
    /\ Unmarked
    /\ UNCHANGED <<daemon, conn, mcp, vault>>

\* A command that works on its own session, after its own master password.
DirectChange ==
    /\ account = "ready"
    /\ Person # {}
    /\ vault' = [vault EXCEPT !.rev = 1 - @]
    /\ Unmarked
    /\ UNCHANGED <<daemon, clients, proof>>

\* Backend::acquire: the keep-alive probe finds an unlocked daemon, so the
\* tools will use this connection.  (An older build that refuses to register it
\* makes acquire fail, and there is no MCP server.)
McpAcquireProxy ==
    /\ mcp = "off" /\ conn[Proxy] = "closed"
    /\ stage = "up" /\ unlocked
    /\ mcp' = "proxy"
    /\ conn' = [conn EXCEPT ![Proxy] = "open"]
    /\ idle' = 0
    /\ Unmarked
    /\ UNCHANGED <<stage, account, unlocked, agentSessions, grants, failures,
                   windows, held, vault, proof>>

\* No daemon, a locked one or a foreign one: a person unlocks for the MCP server
\* alone.
McpAcquireDirect ==
    /\ mcp = "off" /\ conn[Proxy] = "closed"
    /\ ~unlocked
    /\ account = "ready" /\ Person # {}
    /\ mcp' = "direct"
    /\ Unmarked
    /\ UNCHANGED <<daemon, conn, held, vault, proof>>

\* Mutant of BeginAgentSession: a repeat on the connection counts again.
BeginAgentSessionAgain(c) ==
    /\ Serving
    /\ conn[c] \in {"open", "agent"}
    /\ agentSessions < 5
    /\ agentSessions' = agentSessions + 1
    /\ conn' = [conn EXCEPT ![c] = "agent"]
    /\ Unmarked
    /\ UNCHANGED <<stage, account, unlocked, idle, grants, failures, windows,
                   held, mcp, vault, proof>>

\* Once per connection.
BeginAgentSession(c) ==
    /\ Serving
    /\ conn[c] \in {"open", "agent"}
    /\ agentSessions' = IF conn[c] = "agent" THEN agentSessions ELSE agentSessions + 1
    /\ conn' = [conn EXCEPT ![c] = "agent"]
    /\ Unmarked
    /\ UNCHANGED <<stage, account, unlocked, idle, grants, failures, windows,
                   held, mcp, vault, proof>>

\* Mutant of SentinelPoll: the thread is started for the proxy route only.
SentinelPollProxyOnly ==
    /\ mcp = "proxy" /\ conn[Proxy] # "open"
    /\ conn[Sentinel] = "closed"
    /\ stage \in {"up", "foreign"}
    /\ conn' = [conn EXCEPT ![Sentinel] = IF stage = "up" THEN "open" ELSE "refused"]
    /\ Unmarked
    /\ UNCHANGED <<daemon, held, mcp, vault, proof>>

\* spawn_sentinel: started after acquire; a ping on the held connection changes
\* nothing, and without one it connects anew to whatever daemon is there.  One
\* that refuses to register it is asked once: the connection is held all the
\* same, unregistered, until that daemon ends.
SentinelPoll ==
    /\ mcp = "direct" \/ (mcp = "proxy" /\ conn[Proxy] # "open")
    /\ conn[Sentinel] = "closed"
    /\ stage \in {"up", "foreign"}
    /\ conn' = [conn EXCEPT ![Sentinel] = IF stage = "up" THEN "open" ELSE "refused"]
    /\ Unmarked
    /\ UNCHANGED <<daemon, held, mcp, vault, proof>>

\* Standard input closes, or the process is killed.
McpExit ==
    /\ mcp # "off"
    /\ mcp' = "off"
    /\ conn' = [c \in McpConn |-> IF conn[c] = "agent" THEN "ending" ELSE
                                  IF conn[c] \in {"open", "refused"} THEN "closed" ELSE conn[c]]
    /\ Unmarked
    /\ UNCHANGED <<daemon, held, vault, proof>>

\* AgentSessionGuard::drop, on the worker that served the connection.
EndAgentSession(c) ==
    /\ conn[c] = "ending"
    /\ agentSessions' = IF agentSessions > 0 THEN agentSessions - 1 ELSE 0
    /\ conn' = [conn EXCEPT ![c] = "closed"]
    /\ Unmarked
    /\ UNCHANGED <<stage, account, unlocked, idle, grants, failures, windows,
                   held, mcp, vault, proof>>

Countdown(n) == IF n > 0 THEN n - 1 ELSE 0

\* A tick off every grant.  All have the same life, so the ones that lapse are
\* the oldest and retain drops a prefix.
Aged(gs) ==
    LET lapsed == Cardinality({i \in DOMAIN gs : gs[i].left = 1})
    IN  [i \in 1..(Len(gs) - lapsed) |-> [gs[i + lapsed] EXCEPT !.left = @ - 1]]

Tick ==
    /\ idle' = IF unlocked /\ idle < IdleTicks THEN idle + 1 ELSE idle
    /\ grants' = Aged(grants)
    /\ windows' = [pairing |-> Countdown(windows.pairing),
                   fill    |-> Countdown(windows.fill),
                   listen  |-> Countdown(windows.listen)]
    /\ proof' = [c \in Client |-> IF proof[c] < GrantTicks THEN proof[c] + 1 ELSE GrantTicks]
    /\ Unmarked
    /\ UNCHANGED <<stage, account, unlocked, agentSessions, failures, clients, vault>>

-----------------------------------------------------------------------------

Req == Request(Kind)

\* Requests that get nothing, or only look: they leave the idle timer alone.
Probe ==
    \E c \in Client, r \in Req :
        \/ Refuse(c, r)
        \/ AnswerLocked(c, r)
        \/ UnlockWrong(c, r)
        \/ ConfirmPresenceWrong(c, r)
        \/ Answer(c, r) /\ ~CountsAsActivity(r)

\* Requests that reach no session and get an error, but do reset it.
Fumble ==
    \E c \in Client, r \in Req :
        \/ UnlockUnusable(c, r)
        \/ CreateAccountRefused(c, r)
        \/ ConfirmPresenceUnchecked(c, r)

Request1 ==
    \E c \in Client, r \in Req :
        \/ Answer(c, r)
        \/ Edit(c, r)
        \/ Ingest(c, r)
        \/ SyncSetup(c, r)
        \/ SetMode(c, r)
        \/ NearbyListen(c, r)
        \/ NearbyStop(c, r)
        \/ ConfirmPresence(c, r)
        \/ Unlock(c, r)
        \/ CreateAccount(c, r)
        \/ Lock(c, r)
        \/ Shutdown(c, r)
        \/ \E d \in Device : ShareVaultKey(c, r, d)
        \/ \E d \in Device, key \in Key : TrustDevice(c, r, d, key)

McpStep ==
    \/ McpAcquireProxy
    \/ McpAcquireDirect
    \/ McpExit
    \/ \E r \in Req : Answer(Proxy, r) \/ AnswerLocked(Proxy, r)

Background ==
    \/ MaybeAutolock
    \/ SentinelPoll
    \/ \E c \in McpConn : BeginAgentSession(c)
    \/ \E c \in McpConn : EndAgentSession(c)
    \/ Tick

Next ==
    \/ Probe
    \/ Fumble
    \/ Request1
    \/ McpStep
    \/ Background
    \/ Exit
    \/ Spawn
    \/ SpawnForeign
    \/ DirectChange
    \/ \E c \in Client : ClientExit(c)

Spec == Init /\ [][Next]_vars

\* The reaper, the sentinel, the workers and time go on; a daemon told to stop
\* stops.
Fairness ==
    /\ WF_vars(MaybeAutolock)
    /\ WF_vars(SentinelPoll)
    /\ \A c \in McpConn : WF_vars(BeginAgentSession(c)) /\ WF_vars(EndAgentSession(c))
    /\ WF_vars(Tick)
    /\ WF_vars(stage = "stopping" /\ Exit)

-----------------------------------------------------------------------------

\* While an agent session is registered, whatever a request changes (items,
\* vaults, attachments, trust, enrolment, key shares) or opens (pairing, agent
\* fill, a listen window) was asked for by a process which itself gave the
\* right master password in this unlock, less than a grant's life ago: not by a
\* program without the password, and not on a grant from before a lock
\* (handle_with, presence_granted, State::lock).  The MCP server itself sends no
\* such request, so that the daemon refuses them on its connection even with a
\* grant is not what this shows.
PresenceEnforced ==
    [][who' # Nobody /\ agentSessions > 0
            => who' \in Client /\ proof[who'] < GrantTicks]_vars

\* The count the check depends on is the number of registered connections not
\* yet released, through repeats, kills and restarts: it neither leaks, which
\* would demand a password for ever, nor falls to zero under a live agent
\* (BeginAgentSession, AgentSessionGuard::drop).
AgentsCounted ==
    agentSessions = Cardinality({c \in McpConn : conn[c] \in {"agent", "ending"}})

\* An MCP server that goes on running is registered with every daemon of its
\* profile that stays up, whichever of the two started first, however often the
\* daemon is restarted, and although a daemon of another profile, met before,
\* refused the registration and the connection to it was held (spawn_sentinel).
SentinelRegisters ==
    mcp # "off" /\ stage = "up" ~> agentSessions > 0 \/ mcp = "off" \/ stage # "up"

=============================================================================
