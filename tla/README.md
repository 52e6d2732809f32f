# LocalPass in TLA+

LocalPass is a local-first password manager: each device keeps its vaults in SQLite
files, every change is an operation signed by the device and hash-chained per author,
and devices exchange operations through a dumb directory, a LAN link or QR codes. This
directory holds TLA+ models of that system, TLC runs on small instances, and TLAPS
proofs for all instances.

## 1. The system

| Component | State | Operations | Talks to |
|---|---|---|---|
| operation log (`lp-vault/op.rs`, `vault.rs author_op`) | `ops` table: author, seq, prev hash, Lamport time, observed heads, signature | append one operation inside the caller's transaction | every writer of the vault |
| items (`lp-vault/vault.rs`) | `items`, `item_versions`, `wrapped_keys`, `tombstones` | create, update, delete, restore, untrash, purge, prune; folders | log, index, audit |
| foreign apply (`lp-vault/foreign.rs`) | the same tables | record operations and rewrite touched items in one transaction | sync engine |
| attachments (`lp-vault/attachment.rs`) | `attachments` rows, blob files | add (blob, then row), delete (row, then blob), materialise, store | log, engine |
| merge (`lp-sync/merge.rs`) | none | rows as a function of a set of operations | ingest |
| verification (`lp-sync/verify.rs`) | none | accept, hold or quarantine an author's run | ingest |
| file channel (`lp-sync/engine.rs`, `shipping.rs`, `store.rs`, `wire.rs`) | segment files, blobs, key shares, advisory heads | push, pull, adopt, share | a directory somebody else replicates |
| account and trust (`lp-vault/account.rs`, `lp-sync/identity.rs`, `announce.rs`) | keys, `peer_devices`, vault registry, settings | create, unlock, change password, trust, share and import keys | everything |
| audit log (`lp-vault/audit.rs`, `account.rs`) | a hash chain per device | append (best effort), verify | items, daemon |
| search index (`lp-vault/index.rs`) | encrypted segments, generation counter | upsert, delete, split, merge, rebuild, query | items, foreign apply |
| backup (`lp-vault/backup.rs`) | snapshot directories | create, verify, restore with roll-back, prune | account, vault files |
| daemon (`lp-daemon/engine.rs`, `server.rs`) | session, activity clock, presence grants, pairing window, agent-fill window and intent | one request at a time under one mutex; auto-lock thread | CLI, desktop, browser, SSH agent |
| nearby sync (`lp-daemon/nearby.rs`, `lp-sync/nearby`) | listen window, running flag | listen, connect, exchange | daemon state, one mutex hold per step |
| QR sync (`lp-sync/qr`) | collected frames | encode, collect, ingest | ingest |
| command line (`lp-cli`) | the route it chose, its presence grant | every command, proxied to the daemon or on its own session; `sync` always opens the vault file itself | daemon or vault file |
| MCP server (`lp-cli/mcp`) | two daemon connections, a child process and its pipes | read tools, `run_with_secrets`, `fill_login` | daemon, child, agent |
| native host, extension, desktop | polling state, a redemption in progress, a pending QR bundle | requests | daemon |

What is hard: the CLI's `sync` is a second process on the vault file of a running daemon;
ingest reads, merges and applies in separate transactions; the channel delivers per
author, partially, in duplicate, out of order and damaged; local writes change single
rows while a foreign apply rewrites an item from the whole log, and both must agree;
blobs and their metadata travel apart; attachment keys hang on version keys that applies
replace and prune deletes; the index is sealed row by row under a generation that any
write moves; an audit record is written after, and elsewhere than, what it records; a
backup copies live files one by one and a restore moves them one by one; timers (auto-lock,
windows, grants) race requests; an agent that connects changes what everybody else may do;
a command learns once whether a daemon serves it and sends several requests after that;
two ends of a LAN session both have more to send than the wire holds; a camera misses,
repeats and mixes frames. The list, with lines, is under `hazards` in `PROJECT.json`.

What makes each part correct: of every author a device holds a genuine gapless prefix,
from trusted authors only; Lamport times extend observed causality; rows are the merge of
the log; equal logs mean equal heads and trash; no version is lost in a conflict; every
operation arrives in the end; attachment rows are those the log says, backed by their
blob and readable; a search answers what a scan of the items would; the audit chain
verifies unless it was tampered with, and records only what happened; a finished backup can be
restored, and an interrupted restore leaves the old files or the new ones; while an agent
is connected nothing changes without a person who just gave the password; polling never
holds the vault open; a command ends having done all of its work, or none that it does
not report; nothing secret reaches an agent; a session that reports success has delivered,
and shares keys only with the device the user named.

## 2. Modules

| Module | Models |
|---|---|
| `OpLog` | operations, hash chain, the `SELECT MAX` queries, `author_op`'s next operation |
| `VerifyChain` | what `verify_device_run` may accept of a run, as a set of outcomes |
| `VerifyLoop` | `verify_device_run` as the walk it is, compared with `VerifyChain` |
| `Merge` | total order, happens-before, version numbers, tombstone resolution |
| `VaultSync` | one vault on several devices: item operations, reclaim, trust, push, ingest, crash, damage |
| `VaultSyncInv` | the inductive invariant, in named parts |
| `ReplicatedOps` | the abstract specification: chains grow at their author, others learn prefixes |
| `Attachments` | attachments of one item on several devices, with keys and blobs |
| `SearchIndex` | tokens, query parsing and ranking, segments, manifest, generation, split, merge, repair and rebuild |
| `AuditLog` | kinds, row codec, canonical bytes and the walk of `verify_audit_chain` |
| `Account` | the account store under several processes: create, unlock, change password, vaults, trust, key shares, audit append |
| `Backup` | create, verify, rotate and restore, file by file, with a crash after any step |
| `Protocol` | the daemon's requests: profile, presence and activity of each, and which program sends which |
| `DaemonSession` | session, idle timer, presence grants and failures, agent sessions and the sentinel, pairing and nearby windows, restart |
| `AgentFill` | agent-triggered autofill: the MCP server's `fill_login` loop, the daemon's window, intent, lock and idle timer, the extension's redemption |
| `Commands`, `Cli` | every command of `localpass` as its steps on both routes; one invocation beside a daemon that changes between any two steps |
| `AgentTools` | the MCP tools, `run_with_secrets` with its child, pipes, timeout and redaction |
| `PeerState` | what devices that meet directly know, and the calls both transports make on it |
| `Nearby` | the LAN session: listen window, handshake budget, six rounds over a bounded stream |
| `QrSync` | have code, bundle, frames, decoder, import |
| `MCVaultSync`, `MCAttachments`, `MCAgentFill`, `MCSearchIndex` | bounds for TLC |
| `MCChannel`, `MCStorage`, `MCDaemon`, `MCExchange` | compositions for TLC, see section 3 |
| `MergeProofs`, `VaultSyncProofs`, `VerifyLoopProofs`, `AttachmentsProofs`, `BackupProofs`, `DaemonSessionProofs`, `AgentFillProofs`, `ExchangeProofs` | lemmas and theorems, section 4 |

`VaultSync` extends `Merge` and `VerifyChain`, which extend `OpLog`; it instantiates
`ReplicatedOps` with `have[d][a]` mapped to the highest seq of `a` that `d` holds. `Backup`
extends `Account`, which extends `AuditLog`: all three work on one profile. `Nearby` and
`QrSync` extend `PeerState`, which stands on a fact `VaultSync` has shown (`HeldChains`): an author's
chain has no gaps, so a head per author says what a device holds. `DaemonSession`,
`Commands`, `Cli` and `AgentTools` share `Protocol`. `map` in `PROJECT.json` gives the
source lines of every definition.

### How state and actions correspond to the code

* `log[d]` is the `ops` table, a set because every reader of the code sorts. `rows[d][i]`
  is the `items` row (`cur`), the `item_versions` rows (`ver`, each naming the operation
  it was written for) and the `tombstones` row (`tomb`). `pinned[d]` is `peer_devices`.
  `channel` is the set of segment files. `pend[d][p]` is the local state of an `ingest`
  that process `p` has begun: the log it read and the operations it accepted.
* A payload is the identity of the operation that carries it. Hash and signature are
  symbolic: the hash of an operation is its id and whether its bytes are the signed ones.
* A local write is one transaction in the code and one action here. `ingest` is two:
  `BeginIngest` (verify, read the log, merge) and `FinishIngest` (`apply_foreign_ops`),
  with `CrashIngest` between them. A process is busy in between; the daemon, which holds
  one mutex per request, is one process, the CLI is another. The two reads inside
  `BeginIngest` (chain tails for the verifier, then the whole log) are one step: with one
  process nothing can come between them.
* `UntrashItem` reads the current version and then calls `restore_version` in another
  transaction. A stale read restores an older version, which is `RestoreVersion` with that
  version as its target, a step of its own.
* `Batches(d)` are the sets of operations a pull may read: of each author the files up to
  some length have arrived. Copies of one operation in several files, and a damaged copy
  beside a good one, come from different files with the same author.
* `AcceptedRuns` is a set because the copies of one seq are walked in the order files were
  listed, which nothing fixes. `VerifyLoop` walks every order. The logs held and the runs
  received are its constants: `MCChannel` gives ten concrete operations (a chain of three, a
  fork, a Lamport time that runs backwards, damaged copies), the proofs take any.
* In `Attachments` a key is its version and the epoch it was generated in; every foreign
  apply re-seals all versions, hence a new epoch. `ApplyOps(d, e, authors)` takes over what
  device `e` holds of some authors: chains are delivered per author (`HeldChains`).
* In `AgentFill` every daemon request is one action, because the daemon handles it under
  its state mutex. `Serve` is what `handle_with` does around each: sweep a lapsed window
  first (`SweptWindow`, `SweptIntent`), then, if the request was active and served, reset
  the idle timer. The MCP server keeps its locals in `call[c]`, the extension in `armed` and
  `job`, whose stage says which await the redemption is in. `held` and `by` of an intent
  identify it for the properties and gate nothing. Deadlines are ticks left; `Tick` moves
  all clocks. `HostFails` is a rejected `hostRequest`, `WorkerStops` the browser ending the
  service worker; a take whose reply is lost is `TakeFillIntent(FALSE)`. A request that
  timed out is not served later than the next one: the native host answers in order.
  Left out: the presence check and the refusals of an arm (they change nothing here), a
  restart of the daemon (its clients' calls end with a transport error), auto-lock switched
  off, and which tab is filled.
* In `SearchIndex` every operation is one SQLite transaction, hence a function from a
  database to a database (written as the set of its outcomes, which has one member), and an
  action is one such function applied. Tokenisation,
  trigrams and hosts of a text are constants; query parsing, matching and ranking are operators. A
  sealed row opens iff it is undamaged and read under the generation it was sealed with.
  `DamageManifest`, `DamageSegment` and `RollBackSegment` are a row damaged, lost or put back
  from an earlier copy of the file.
* In `AuditLog` a record is spread over columns, encoded and hashed as the code does, on
  short sequences of small numbers; a hash is the sequence it was taken over.
* In `Account` a process is at a program point (`proc[p]`) between two statements that no
  transaction joins: between reading the KDF row and the envelope, between verifying the
  old password and writing the new envelope, between an item mutation and its record. The
  audit append is a deferred transaction: its commit fails if the store changed since its
  read. `Backup` adds one step per file copied, moved or removed.
* In `AgentFill` there is one extension (one browser). A second one could report late on an
  intent of the same item that the first one took: `record_fill_report` compares item ids
  only, and what keeps `OwnReport` with one extension is that it takes nothing while busy.
* In `DaemonSession` a request is one action (the daemon serves it under its mutex), and
  the accounting around it is `handle_with`'s: profile, sweep, presence, handler, activity.
  Between two requests of one client come everybody else's, the clock, the reaper and a
  restart. The vault is a revision, so that a change is visible without its content. The
  failures of `Unlock`, `CreateAccount` and `ConfirmPresence` are of two sorts, as in
  `response_counts_as_activity`: a wrong password or key (`UnlockWrong`,
  `ConfirmPresenceWrong`) leaves the idle timer alone, a usage error (`UnlockUnusable`,
  `CreateAccountRefused`, `ConfirmPresenceUnchecked`) resets it. The endpoint may be held by
  a daemon of another profile or an older build (`stage = "foreign"`): of it only that it
  refuses the MCP server's registration is modelled; the sentinel then holds an unregistered
  connection (`"refused"`) until that daemon ends. The MCP server sends no request that
  needs presence (`McpSends`), so the clause of `handle_with` that refuses its connection
  even with a grant is not exercised.
* `Commands` gives each command as two sequences: its steps on its own session and its
  requests. `Cli` runs them: probe, choice of route, request, refusal for presence,
  confirmation and resend, lost answer, error, kill. `served`, `agent` and `granted` change
  between any two steps.
* In `AgentTools` a value is a sequence of characters so that one can contain another. The
  two reader threads, the waiter with its timeout and the child are separate actions, and a
  pipe holds `PipeCapacity` chunks. The child may leave a process behind (`heir`) that keeps
  the pipes open. What it prints are the values of its environment, plain or encoded, and what a
  `localpass` command below it would print.
* In `Nearby` a job is a thread at a named round; `Step(j)` is its next local step, read or write;
  only local steps hold the mutex. A broken link and a read timeout are one action that
  ends a job. In `QrSync` a bundle is what it lists, and `K` distinct frames decode it.


## 3. Runs

| Run | Instance | States | Shows |
|---|---|---|---|
| `replicas` | 2 devices, 1 item, 2 + 2 operations, prune with keep 0 and 1, purge | 77 000 | Lamport order, rows match the log, replicas converge, no version is lost, everything arrives |
| `channel` | 2 devices without trust at first, 2 + 2 operations, 1 damaged file; runs of up to 4 copies over 10 operations, 4 held logs; 2 devices, 1 attachment, 3 + 2 operations, 1 tampered blob | 210 000 | the inductive invariant, genuine gapless trusted chains, refinement of `ReplicatedOps`; the walk and `AcceptedRuns` agree, honest runs raise no alarm; attachment rows match the log, own rows have blobs, no tampered bytes are kept, an attachment left alone arrives |
| `agent_fill` | 1 MCP server, 2 items, window 3, intent 2, grace 0, auto-lock 1, late reply 1 tick | 514 000 | consent bounds every take, reports go to their own intent, typed text is safe, calls end, the vault locks |
| `storage` | 3 items, 2 bodies, 7 queries, 3 generations, 1 damaged row; 2 processes, 2 vaults, 1 peer, 2 passwords, 6 commands, 2 backups, keep 1 | 261 000 | ranges tile, segments and manifest agree, a search is a scan; the chain verifies, records are true, tampering shows, a backup recovers, a restore is all or nothing |
| `daemon` | 1 desktop, 1 program, MCP server, 16 request kinds, 1 grant, 2 failures; all commands; 2 variables, 2 contents, pipes of 1 chunk, 2 writes | 160 000 | no change without presence while an agent is connected, agents are counted, probing does not stop the auto-lock, commands end as they say, no secret is told, tool calls end |
| `exchange` | 3 devices, 2 vaults, 2 operations per author, wire of 1 message, batch 1, flush at 2, 2 failed handshakes, 1 lock; 2 transfers of 2 + 1 frames | 152 000 | success means delivered on both transports, keys are shared as asked, both ends of every session stop |

`channel`, `storage`, `daemon` and `exchange` each hold two or three specifications whose
variables are disjoint or which share `PeerState`. A variable `part` (`transport`) chosen in
`Init` says which one moves; the others stay as they are, so a behaviour of the composition
is a behaviour of one of them. What each assumes of the other is stated in the other: the walk is the
step `VaultSync` takes of it; `Cli` and `AgentTools` take of the daemon what
`DaemonSession` lets it do, namely lock, exit, restart and demand presence at any time.

Bounds. Every property of `VaultSync` relates at most two devices and one item, except what
needs a third, for which `causality` has three devices. Two operations on each device allow
create, update, delete or restore against a concurrent edit, delete or restore, in every order,
with a pull, a prune and a purge between any two (3 + 2 operations without prune and purge, 66
000 states, show nothing else). Devices are numbers because their order breaks ties in the
total order, so they are not symmetric. One damaged file shows a bad copy before, after and
without a good one. Expiry (`Expiring`) and prune's age cutoff (`young`) are nondeterministic.
With three operations the creator of an item has one left after adding an attachment, for a
later version or a removal, and the other device may do both meanwhile. `MaxSeq`, `MaxDamage`,
`MaxOps`, `MaxTamper`, `MaxRun` are bounds of the instances, not of the code; the proofs do not
depend on their values.

In `agent_fill` a window is longer than an intent: an intent armed early expires first and
can be re-armed, one armed late is cut off by the window. The auto-lock can fall anywhere
in either. Two items distinguish a window that covers the intent from one
that does not. One MCP server suffices for what is checked: an intent it replaces by its own
re-arm stands for one replaced by another server (`ReportsOwn` is proved for any number).
With one server the loop's own deadline never decides, since the intent's expires first
whatever the grace; two servers (over 800 000 states with the smallest deadlines, not
finished) do not fit. The extension may read a status reply a tick late, so it goes on
polling after the window has lapsed.

In `storage` the segment thresholds are scaled down (one item per segment is the target, two
segments under the threshold merge), so three items go through every split and merge, with
item keys 1, 2 and 4 of 5 leaving a gap inside a range and one at its end. One damaged, lost or rolled-back row is met
by every operation. Two processes overlap in every pair of commands; with six commands a
password change, an unlock, a mutation with its record and a backup or restore fall into
one behaviour. Rotation keeps one of two backups.

In `daemon` the grant list has room for one, so a second confirmation drops the first; a grant outlives the
idle timeout (2 ticks against 1) and a failed confirmation happens twice, which is the limit. The request
kinds are one of each class that the gates tell apart. Of the values, one contains the other
and one is below the redaction length. A pipe that holds one chunk of a child that writes two makes
the child block unless both pipes are drained. In `exchange` the third device's operations
and its rotten attachment must be carried; a wire of one message makes both ends block if
they write before they read. It has one dial and one listen window, so what other sessions on
the same device do in between, and a window opened before the thread of the last one has
ended, are covered by the theorems alone; `SessionsSettle`, which is liveness, is checked for
this one session and not proved. The have codes in `QrSync` are ones a device has shown, and that
a sealed vault key opens on the named device only is taken as given.

Deadlock is checked, except in `storage` (commands and backups are bounded) and `exchange`
(all sessions end). Symmetry (`storage`) is over processes and passwords, which are compared
for equality only.

Fairness (`replicas`, the attachments of `channel`). Nothing in the code syncs on its own: a
user or a client must. The assumption is that every device keeps pushing (`WF`), now and then
pulls when the whole channel has arrived (`SF` of `PullAll`), and is not killed in every single
apply (`SF` of `FinishIngest`); an `add_attachment` that was begun ends. Writers may stop or
not. The channel may be slow but damages nothing (`DeviceStep` instead of `Next`): a damaged
file is never rewritten.

Fairness (`agent_fill`). Time passes; the reaper thread wakes at a fixed interval
(`MaybeAutolock`); an MCP server inside `fill_login` goes on with its loop. Nothing is
assumed of the extension or the person: the call must end although nobody answers it. `AutoLocks`
is about what follows once the last user has gone (`attended` in `MCAgentFill`): then only
status polls, a call in its loop, the extension and time go on, each for as long as it likes.

Fairness (`daemon`). The clock, the reaper thread, the sentinel's poll loop, the two steps of a
server thread around an agent connection and the exit of a stopping daemon: each is a loop or a
straight line in the code. No client is fair. The auto-lock is about what follows once the
users have gone: from then on (`company` in `MCDaemon`) there are only, in `daemon`, programs
that probe, whose requests are refused, answered as locked, fail to authenticate or only look,
or in `daemon_fumble`, programs that fumble, which also send requests that end in a usage error
without reaching a session. `ProbingNeverHoldsOpen` holds for the first; for the second see
`daemon_fumble`. `ToolsFairness` is for the server's own threads, for the child (it writes what
it will write, and exits unless it is `endless`) and for the timer of an endless child. A
process the child leaves behind with the pipes open need never end, and `CallsEnd` excepts it:
see the remarks.

Fairness (`exchange`). A job's thread takes its next step when it can, and a window that has
elapsed ends. The timeouts are *not* fair: `SessionsSettle` shows that sessions stop
without them.

### Where the code and its documents disagree

Six runs end in a violation; `findings` quotes the lines.

* `two_processes`: the apply of a CLI pull overwrites a write the daemon made after the
  pull read the log. Rows and log diverge until another operation on the item arrives.
* `causality`: observed heads are not transitively closed, so a delete that saw an update
  but not the create the update had seen does not win. `LaterDeleteWins` fails with two
  devices as well, in another way: `resolve_tombstone` tests only the greatest surviving
  delete, so a greater concurrent delete that did not see every version brings back an item
  whose other delete did see them all.
* `attachment_reseal`: after a foreign apply on the item its attachment rows refer to keys
  that are gone. With `KeepLast = {0}` the same property fails on a single device: prune
  deletes the key of the version an attachment was added under.
* `agent_fill_rearm`: an intent taken between the last poll and its deadline is reported as
  expired, so the call arms a second one while the extension redeems the first. The first
  redemption's report is then refused (the new intent is not taken), and the extension may
  go on to take the second. Without `overwrite` the filled field makes it refuse; with it
  the field is filled again.
* `attachment_orphan`: an attachment that arrives before its item fails the whole apply.
* `daemon_fumble`: `handle_with` and `response_counts_as_activity` say that a process which
  fails over and over cannot hold the vault open, and that a usage error counts because its
  caller was authenticated and reached a live session. `CreateAccount` where there is an
  account, `Unlock` without a usable Secret Key and `ConfirmPresence` whose check cannot be
  made answer a usage error to a caller who gave no password and reached no session, and
  reset the idle timer. The run shows it with `CreateAccount`, sent again and again.

Remarks: behaviour of the code met while modelling, part of the models or noted at their
definitions, and not checked by a run of its own.

* Index: a write seals the touched segments under a new generation and leaves the others at the old one,
  so they no longer open and are rebuilt at the next query; `docs/specs/search-index.md:130-140` describes an incremental update.
* Backup: a vault deleted between the snapshot of the account and the listing leaves a backup
  that lists a vault without a file. If `move_live_aside` fails midway, `restore` returns
  without rolling back, though the comment at `backup.rs:454-460` says it is rolled back. The check for a running
  daemon precedes the restore and is not repeated.
* Account: unlock reads the KDF row and the envelope in two statements; `change_password`
  verifies the old password before its transaction; a secret-key file that cannot be written
  leaves an account that cannot be unlocked.
* Daemon: the pairing window survives a lock; `Shutdown` needs no presence; SSH agent
  requests do not touch the idle timer; between the connect of an MCP proxy and the
  sentinel's next poll (1 s) no agent is counted, though `mcp/presence.rs:18-20` says there
  is no usable gap. A lock or stop is noticed by a LAN session at its next local step
  (`docs/specs/lan-transport.md:48,473`).
* Command line: `env export` gives values away without an audit record on both routes;
  `item get --field` is audited differently by route; proxied `item edit` and `rm` name the
  item by title in both requests; proxied `ssh list` skips what it cannot read when the
  daemon locks and exits 0, though `daemonctl.rs:19-21` says the output is identical; an
  answer that is lost leaves an executed request unreported; `export` writes its file
  before its record; `init` may fail halfway; `sync pull`, nearby and QR import may exit
  with an error (alarms) after having changed the vault.
* MCP: a proxied `list_items` fails as a whole if an item vanishes during it; a timeout
  kills the child and not its children, so a grandchild that holds the pipe holds the call;
  values that overlap without containing each other may leave a tail unredacted; on its own
  session the server drops key material only at the next call.
* Sync: `push` never replaces a tampered blob (`engine.rs:173`) and `sync_pull` does not pass on
  `attachments_tampered` (`sync.rs:246`). QR export says there is nothing to send when only
  blobs are missing; `qr_receive_finish` keeps the bundle when the vault is locked.

## 4. Proofs

`VaultSyncProofs` proves for every finite set of devices, any items and processes, any
trust at the start and any bounds:

* `Invariance`: `Spec => []IndInv`;
* `TypeCorrect`, `LamportOrder` (`LamportExtendsCausality`), `ChainsHeld` (`HeldChains`);
* `Replication`: `Spec => ImplementsReplicatedOps`.

Assumptions: `DeviceAssumption` (device ids are ordered and finitely many),
`BoundsAssumption` (types of the constants) and `RowAssumption` (the absence of a row is not
a row), all evaluated by the runs.

The argument. `LamportExtendsCausality` is not inductive: an operation that arrives by
ingest may carry any observed heads unless we know it is one its author signed, and a head
that counts `n` operations says nothing about them unless the chain has no gaps. So
`IndInv` adds that logs are authentic (`LogsAuthentic`) and gapless (`LogsGapless`), an
author signs one operation per seq (`OneOpPerSeq`), the channel's well-signed operations
were signed (`ChannelAuthentic`), what an operation has observed existed (`ObservedSigned`)
and, because an ingest is two steps, that what an unfinished ingest accepted still fits the
log however much it has grown (`IngestsSound`). The last part is what makes the theorems
hold for several processes on one vault file, where `RowsMatchLog` does not.

For a local write, `NextOpProperty` (in `MergeProofs`) says the new operation is one past
the head and above every Lamport time held; with `LogsGapless`, all it observes is held.
For an ingest, `AcceptedSigned` and `AcceptedGapless` derive what is needed from the
verifier's definition. `MergeProofs` shows that the `CHOOSE` of the canonical delete is well
defined, so materialised rows are rows; it also proves finiteness and the property of
`Max`, by a least-counterexample argument, since induction theorems with operator
parameters are out of the provers' reach.

**Rows.** Under the hypothesis `OneProcess` (one process works on each vault file) the same
module proves `RowsInvariance`, `RowsAreMerge` (`RowsMatchLog`), `Convergence` (`Converged`)
and `HistoryKept` (`NothingDiscarded`). The hypothesis is needed: `two_processes` shows
`RowsMatchLog` violated without it. It enters through `IngestsCurrent`: an unfinished ingest
merges over the log it will be applied to. `RowsAgree` says each row is absent or agrees with
the merge of its item's operations. A local write then has to be shown to do to one row what
merging the longer log would do: its operation is the last in the total order (from
`LamportExtendsCausality` and the new Lamport time), so its version number is the count of
snapshots (`AppendRank`); it has observed every delete held (`NewOpSeesAll`), so a restore
clears the tombstone (`ObservedDeletesCleared`) and a delete becomes the canonical one
(`LatestDeleteWins`). `Converged` and `RowsMatchLog` follow from `RowsAgree`, because two
ranks in one set of snapshots differ (`RankInjective`).

**Verification.** `VerifyLoopProofs` proves for every author, any set of logs held and any
set of runs sorted by seq: `WalkConforms` (`WalkIsAccepted`: the walk of
`verify_device_run` stops with a set that `AcceptedRuns` allows, so the step `VaultSync`
takes of it is right) and `NoFalseAlarm` (`HonestRunRaisesNoAlarm`). Its assumption
`RunsAssumption` says what is held was verified, a run is sorted and claims one author, and
what a good signature vouches for (`Genuine`): its id names one operation, and the hash it
was signed over is of a good one. The last part is not taken on trust either:
`RunsAreGenuine` in `VaultSyncProofs` proves it of every batch any pull of `VaultSync` may
read, and also that a run without a damaged copy is part of one chain (`ChainsLinked`), the
premise of `NoFalseAlarm`. So honest devices never quarantine each other.
The invariant of the walk: what has been accepted is a chain on top of what is held
(`AcceptedChain`), nothing looked at was passed over (`LookedAreKnown`), and the rolling
state is either the head of what was reached (`OnTrack`) or past it (`Derailed`). The
second case is real: a damaged copy whose id is known but whose seq is the next one is
skipped and moves `expected_seq` and `prev_full`. The walk then accepts nothing more, since
no operation was signed over a damaged one, and a damaged copy of the next operation is a
reason to stop that `AcceptedRuns` allows.

**Attachments.** `AttachmentsProofs` proves for any devices, attachments, prune settings and
numbers of operations: `TypeCorrect`, `RowsFollowOperations` (`AttachmentRowsMatchLog`),
`OwnRowsBacked` (`OwnRowsHaveBlobs`) and `TamperedBlobsRefused` (`NoTamperedBlobKept`).
They need `AddsExclusive`: an add that has written its blob and not its row is the only one
to know the attachment. Without it the clean-up of a failed add could hit a row, and the
commit could add a row for something already removed.

**Backup and restore.** `BackupProofs` proves for any processes, vaults, passwords, peers,
number of backups kept and bounds, over `Backup`'s `Spec`: `ProfileInvariance` (`[]ProfileInv`),
`ChainAlwaysHolds` (`ChainHolds`), `AuditedAlwaysStored` (`AuditedIsStored`),
`RestoresAtomic` (`RestoreIsAtomic`), `BackupsRecoverable` (`BackupIsRecoverable`) and
`TamperingNoticed` (`TamperEvident`). Assumptions: `AccountAssumption`,
`BackupAssumption`, `ValueAssumption`, `OriginAssumption` and `NullAssumption` (types of the
constants; the absence of a value is not a value). `ProfileInv` has five parts. `LiveInv`
says of the profile in place that its audit log verifies, its item records name registered
vaults and mutations those vaults have seen, and some password opens its envelope. `ProcInv`
says the same of the record a process is about to append, which is why commands of several
processes may interleave. `BackupsInv` is about the copies on disk. `CreateInv` is about a
backup under way, copied file by file beside working processes: the live profile only moves
forward (`Grows`: registered vaults stay, deleted ones stay deleted, mutations are not
undone), so it is at or past what was copied, and copying the account store before the
vaults leaves no record ahead of its vault. `RestoreInv` says where the files a restore
replaces are at each of its steps and after it died. The chain needs no induction over its
length: a hash is of one row, and `BytesDetermineRow` shows that the canonical bytes
determine the row, for every kind, detail and origin; so a row with a successor cannot be
exchanged without breaking the link.

**Daemon.** `DaemonSessionProofs` proves for any client processes, subset of the requests,
timeouts and limits (`BoundsAssumption`, `ProcessAssumption`): `Invariant` (types and the
invariant), `AgentsAlwaysCounted` (`AgentsCounted`) and `PresenceAlwaysEnforced`
(`PresenceEnforced`). The count needs `NoneWithoutDaemon` (without a daemon that serves the
profile there is no connection but a refused one). Presence needs `GrantsFresh` (a grant whose token a process still holds has no
more life left than the password it gave is young) and `GrantsInOrder` (the list is sorted by
expiry), which makes dropping the lapsed grants from the front drop all of them.

**Agent fill.** `AgentFillProofs` proves for any MCP servers and items and all positive deadlines
(`TicksAssumption`, `SentinelAssumption`): `TypeCorrect`, `Consent` (`IntentCovered`),
`TakesInsideWindow` (`TakenWhileArmed`), `ReportsOwn` (`OwnReport`) and `TypedIsKept`
(`NeverClobbers`). The invariant is
`TypeOK /\ IntentCovered /\ BusyHeld`. `TakenWhileArmed` follows from the sweep, which has
removed a lapsed window with its intent, and from `IntentCovered`. `OwnReport` needs
`BusyHeld`: while a redemption is running, a taken intent is the one it holds. The extension
takes nothing while busy, and a re-arm leaves an intent that is not taken, so the report
that comes late finds nothing to attach to.

**QR sync.** `ExchangeProofs` proves for any devices, vaults, streams and frames
(`PeerConstants`, `QrConstants`), over `QrSpec`: `QrInvariance`, `ImportsDeliver`
(`QrImportDelivers`) and `QrSharesAsAsked` (`SharedOnlyAsAsked`). An import is complete
although the code its bundle was made for is old, because heads only grow: a code claims no
more than its device has (`CodesHonest`), so a bundle holds what its device lacks, then and
later (`BundlesComplete`). A bundle's shares were asked for by name, and a bundle for nobody
in particular carries none.

**Nearby sync.** `ExchangeProofs` proves for any devices, jobs, vaults, options, batch,
buffer and queue sizes (`PeerConstants`, `NearbyConstants`), over `NearbySpec`:
`SharingInvariance`, `NearbySharesAsAsked` (`SharedOnlyAsAsked`), `DeliveryInvariance` and
`NearbyDelivers` (`SyncedIsDelivered`). Any number of sessions may run at once on one device,
beside edits, locks and stops, and any of them may break at any step.

`SharingInv` gives each message its type (`Msg`), says where in its rounds a job can be
(`Placed`), that an end past the handshake knows which device is at the other end
(`PeerKnown`), and that keys in an outbox, on the wire or just received were asked for, for
the device that is to read them (`OutShares`, `WireShares`, `GotGood`). The last part is where
a connection matters: a listener that fails a handshake serves another dial, and its old
partner may still be writing.

`DeliveryInv` follows an operation that one end still misses (`Misses`: its author is pinned
there and the head is below it). While the other end collects, it is in the reader's buffer,
on the wire, in the writer's outbox or in a vault the writer has yet to collect (`Covered`);
once the end marker is on the wire, it is before the marker (`OpsComplete`), and once the
marker was read, in the buffer (`BufComplete`). Two facts carry this through the reader's
ingests, which may happen at any operation: operations travel in the order of their chains
(`OutOrdered`, `Ordered`, `BufOrdered`), so an ingest of all that is buffered leaves no gap
(`IngestTakes`); and the inventory the reader works from is the one the writer sent
(`Listed`), so what another session brings meanwhile only makes it miss less. That an end
knows the *other* has what it listed (`PeerDelivered`) rests on the order of the rounds: a
peer asks for blobs only after its last ingest. `BlobsKnown` is about attachments: an end
lists what it lacks after its own last ingest, and drops a blob from the list only when it
is stored or found damaged. The lemmas are one per action, over a few that say what a step
leaves alone (`StillDelivering` for the end that moves, `PairReads` and `PairWaits` for the
two ends of a connection).

Only model-checked:

* all liveness (fairness and `ENABLED` are beyond TLAPS);
* everything that rests on a fold over its input, which needs induction over data: a search
  is a scan (`QueryIsScan`, `RangesTile`, `SegmentsAgree`, `GenerationSeals`: segments are
  built by folding over sorted items), redaction (`NothingSecretTold`);
* `CommandOutcome` of `Cli`: it is about the table of commands, which is finite and which the
  run covers in full, so a proof would add nothing.

`TypeOK` of a module with a proof is proved and in no run; the other modules state theirs as
documentation of the state.

## 5. Not modelled

Cryptography and byte encodings are symbolic, except the audit record, whose chain rests on
its encoding. Left out because they keep no state, or none that other components rely on:
password health, payload formats, origin matching, importers and
exporters, word lists, sockets, and user interfaces. The SSH agent reads the unlocked session under the
state mutex and leaves nothing behind. Not modelled yet: folders, enrolment, the
advisory manifest, segment files that do not decode, the announcement directory and
identity file, LAN discovery, the linear scan the index falls back to when a segment cannot
be decrypted, the extension's page heuristics, the Android storage bridge. `Attachments`
leaves out deletion of the owning item, two rows with one blob (a blob is sealed under a fresh key, so two adds never share one) and the size cap.
Two servers on one intent (`backend.rs:407`), the two reads of an ingest as two steps
(`engine.rs:377`) and the audit record of a lapsed window (`engine.rs:1828`) are hazards
without a property.

## 6. Plan

1. Channel store: undecodable and vanishing files, advisory heads; folders.
