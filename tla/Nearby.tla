------------------------------- MODULE Nearby -------------------------------
(***************************************************************************)
(* Nearby sync: a daemon listens for a few minutes, another dials it, both *)
(* prove who they are and run six rounds over one connection. Each end is  *)
(* a job on a thread of its own that takes the daemon's state mutex for    *)
(* one local step at a time and never while it reads or writes, so locks,  *)
(* edits and other jobs come in between.                                   *)
(*                                                                         *)
(* A connection is two bounded queues of messages. What Noise and TCP      *)
(* guarantee (secrecy, order, no duplicates) is taken as given; a broken   *)
(* link and a timeout are one action that ends a job.                      *)
(***************************************************************************)
EXTENDS PeerState

CONSTANTS
    Dialer,         \* connect jobs
    Listener,       \* listen jobs
    Owner,          \* Owner[j]: the device a job runs on
    Options,        \* Options[j]: the SessionOptions a user may give job j
    NoPeer,         \* options without expected_peer
    NoJob,
    Capacity,       \* messages the operating system buffers in one direction
    Batch,          \* operations in one OPS message (OPS_BATCH_BYTES)
    FlushAt,        \* operations buffered before an ingest (INGEST_BUFFER_BYTES)
    MaxFailedHandshakes

Job == Dialer \cup Listener

ASSUME NearbyConstants ==
    /\ IsFiniteSet(Device) /\ NoJob \notin Job /\ Dialer \cap Listener = {}
    /\ \A j \in Job : Owner[j] \in Device
    /\ \A j \in Job : Options[j] \subseteq
            [expected : Device \cup {NoPeer}, share : SUBSET Vault]
    /\ Capacity \in Nat \ {0} /\ Batch \in Nat \ {0} /\ FlushAt \in Nat \ {0}
    /\ MaxFailedHandshakes \in Nat \ {0}

VARIABLES
    job,        \* job[j]: where the thread is and what it has learnt
    wire,       \* wire[j]: messages on their way to j
    handle,     \* handle[d]: the listen job NearbyState knows of, or NoJob
    stop,       \* listen jobs whose stop flag is set
    elapsed     \* listen jobs whose window is over

nvars == <<job, wire, handle, stop, elapsed, asked, locks>>
vars == <<pvars, nvars>>

(***************************************************************************)
(* The program of an end: for each round its phases, round 0 being the     *)
(* handshake. The responder reads before it writes in every round.         *)
(***************************************************************************)
Role(j) == IF j \in Dialer THEN "initiator" ELSE "responder"

\* Mutant of Bulk: both ends write before they read.
BulkWriteFirst(role) == <<"send", "recv">>

(* The rounds of several messages. *)
Bulk(role) == IF role = "initiator" THEN <<"send", "recv">> ELSE <<"recv", "send">>

Phases(role, round) ==
    CASE round = 0 -> IF role = "initiator" THEN <<"send", "recv", "settle", "send">>
                      ELSE <<"recv", "prep", "send", "recv", "settle">>
      [] round \in {3, 5} -> Bulk(role)
      [] OTHER -> (IF role = "initiator" THEN <<"prep", "send", "recv">>
                   ELSE <<"prep", "recv", "send">>)
                  \o (IF round = 1 THEN <<"settle">> ELSE <<>>)

(* The message each round ends with. *)
Closing == <<"hello", "inventory", "ops_end", "blob_want", "blobs_end", "done">>

LastRound == 6

Message(kind, body) == [kind |-> kind, body |-> body]

(* A job before its first connection. *)
Fresh(opt) ==
    [at |-> "idle", opt |-> opt, link |-> NoJob, round |-> 0, step |-> 1,
     out |-> <<>>, todo |-> {}, peer |-> NoPeer, got |-> <<>>,
     mine |-> <<>>, theirs |-> <<>>, buf |-> {}, flush |-> "no", wants |-> {},
     tampered |-> {}, failures |-> 0, result |-> "none"]

NoOptions == [expected |-> NoPeer, share |-> {}]

Running(j) == job[j].at = "session"
Phase(j) == Phases(Role(j), job[j].round)[job[j].step]
In(j, phase) == Running(j) /\ Phase(j) = phase
Me(j) == Owner[j]
Connected(j) == job[j].link # NoJob /\ job[job[j].link].link = j
Common(j) == DOMAIN job[j].mine \cap DOMAIN job[j].theirs

(***************************************************************************)
(* How a job ends. A listener that fails in the handshake counts the       *)
(* failure and accepts again until MAX_FAILED_HANDSHAKES; any later        *)
(* failure, and every failure of a dial, ends the job.                     *)
(***************************************************************************)
Ended(j, why) == [job[j] EXCEPT !.at = "ended", !.link = NoJob, !.result = why]

Failed(j, why) ==
    IF j \in Listener /\ job[j].round = 0
    THEN IF job[j].failures + 1 >= MaxFailedHandshakes
         THEN Ended(j, "too_many_failures")
         ELSE [Fresh(job[j].opt) EXCEPT !.at = "accepting",
                                        !.failures = job[j].failures + 1]
    ELSE Ended(j, why)

Fail(j, why) ==
    /\ job' = [job EXCEPT ![j] = Failed(j, why)]
    /\ wire' = [wire EXCEPT ![j] = <<>>]

(* Go to the next phase, the next round, or be done. *)
Advanced(j, rec) ==
    IF rec.step < Len(Phases(Role(j), rec.round))
    THEN [rec EXCEPT !.step = @ + 1]
    ELSE IF rec.round < LastRound
    THEN [rec EXCEPT !.round = @ + 1, !.step = 1]
    ELSE [rec EXCEPT !.at = "ended", !.link = NoJob, !.result = "synced"]

(* SharedLocal::with_session: a local step needs the vault unlocked at the *)
(* moment it runs.                                                         *)
Locally(j) == Me(j) \in unlocked

VaultLocked(j) ==
    /\ Running(j) /\ ~Locally(j)
    /\ \/ Phase(j) = "settle"
       \/ Phase(j) = "prep" /\ job[j].round # LastRound
       \/ Phase(j) = "send" /\ job[j].out = <<>> /\ job[j].todo # {}
       \/ job[j].flush # "no" /\ job[j].buf # {}
       \/ In(j, "recv") /\ wire[j] # <<>> /\ Head(wire[j]).kind = "blob"
    /\ Fail(j, "locked")
    /\ UNCHANGED <<pvars, handle, stop, elapsed, asked, locks>>

(***************************************************************************)
(* The engine's requests: NearbyListen, NearbyStop, NearbyConnect, and the *)
(* lock, which closes the window too. Opening needs that no window is      *)
(* open: one that was stopped or is over does not count, although its      *)
(* thread may still be in a session.                                       *)
(***************************************************************************)
Listening(d) ==
    LET h == handle[d]
    IN  h # NoJob /\ job[h].at # "ended" /\ h \notin stop \cup elapsed

(* Sharing needs the device it is for. *)
Sharable(opt) == opt.share = {} \/ opt.expected # NoPeer

Ask(opt) == asked' = asked \cup (opt.share \X {opt.expected})

NearbyListen(j, opt) ==
    /\ j \in Listener /\ job[j].at = "idle"
    /\ Locally(j) /\ ~Listening(Me(j)) /\ Sharable(opt)
    /\ opt.share \subseteq vaults[Me(j)]
    /\ job' = [job EXCEPT ![j] = [Fresh(opt) EXCEPT !.at = "accepting"]]
    /\ handle' = [handle EXCEPT ![Me(j)] = j]
    /\ Ask(opt)
    /\ UNCHANGED <<pvars, wire, stop, elapsed, locks>>

StopListening(d) ==
    /\ stop' = stop \cup ({handle[d]} \ {NoJob})
    /\ handle' = [handle EXCEPT ![d] = NoJob]

NearbyStop(d) ==
    /\ d \in unlocked /\ handle[d] # NoJob
    /\ StopListening(d)
    /\ UNCHANGED <<pvars, job, wire, elapsed, asked, locks>>

Lock(d) ==
    /\ LockSession(d) /\ StopListening(d)
    /\ UNCHANGED <<job, wire, elapsed, asked>>

Unlock(d) ==
    /\ UnlockSession(d)
    /\ UNCHANGED <<job, wire, handle, stop, elapsed, asked>>

(* dial reaches a listener that is accepting. *)
NearbyConnect(i, l, opt) ==
    /\ i \in Dialer /\ job[i].at = "idle" /\ Locally(i) /\ Sharable(opt)
    /\ opt.share \subseteq vaults[Me(i)]
    /\ l \in Listener /\ job[l].at = "accepting"
    /\ job' = [job EXCEPT
            ![i] = [Fresh(opt) EXCEPT !.at = "session", !.link = l,
                                      !.out = <<Message("e", <<>>)>>],
            ![l] = [job[l] EXCEPT !.at = "session", !.link = i]]
    /\ Ask(opt)
    /\ UNCHANGED <<pvars, wire, handle, stop, elapsed, locks>>

(* The window's end is a matter of time; the thread looks at the clock and *)
(* at the stop flag between two connections only.                          *)
WindowElapses(l) ==
    /\ job[l].at \in {"accepting", "session"} /\ l \notin elapsed
    /\ elapsed' = elapsed \cup {l}
    /\ UNCHANGED <<pvars, job, wire, handle, stop, asked, locks>>

ServeEnds(l) ==
    /\ job[l].at = "accepting" /\ l \in stop \cup elapsed
    /\ job' = [job EXCEPT ![l] = Ended(l, IF l \in stop THEN "stopped" ELSE "expired")]
    /\ UNCHANGED <<pvars, wire, handle, stop, elapsed, asked, locks>>

-----------------------------------------------------------------------------
(***************************************************************************)
(* The handshake. A proof is signed for the role and the transcript of its *)
(* own connection, so it carries the job it was made for.                  *)
(***************************************************************************)
MakeProof(j) == [device |-> Me(j), role |-> Role(j), link |-> job[j].link]

\* Mutant of VerifyProof: any pinned device will do.
VerifyProofAnyPeer(j, proof) ==
    /\ proof.device # Me(j)
    /\ proof.device \in pins[Me(j)]
    /\ proof.role # Role(j) /\ proof.link = j

(* verify_proof: not this device itself, pinned, and the expected one. *)
VerifyProof(j, proof) ==
    /\ proof.device # Me(j)
    /\ proof.device \in pins[Me(j)]
    /\ job[j].opt.expected \in {NoPeer, proof.device}
    /\ proof.role # Role(j) /\ proof.link = j

SettleHandshake(j) ==
    /\ In(j, "settle") /\ job[j].round = 0 /\ Locally(j)
    /\ LET proof == job[j].got
           rec == [job[j] EXCEPT !.peer = proof.device, !.got = <<>>]
       IN  IF VerifyProof(j, proof)
           THEN /\ job' = [job EXCEPT ![j] = Advanced(j,
                        IF j \in Dialer
                        THEN [rec EXCEPT !.out = <<Message("proof", MakeProof(j))>>]
                        ELSE rec)]
                /\ UNCHANGED wire
           ELSE Fail(j, "refused")
    /\ UNCHANGED <<pvars, handle, stop, elapsed, asked, locks>>

-----------------------------------------------------------------------------
(***************************************************************************)
(* The exchange. What a single-message round sends is prepared in a local  *)
(* step before the round: the responder's proof, the shares, the inventory *)
(* (after the shares were imported), the blobs that ingest left missing.   *)
(***************************************************************************)
Prepared(j) ==
    CASE job[j].round = 0 -> Message("proof", MakeProof(j))
      [] job[j].round = 1 -> Message("hello", job[j].opt.share)
      [] job[j].round = 2 -> Message("inventory", Inventory(Me(j)))
      [] job[j].round = 4 -> Message("blob_want", BlobWants(Me(j), Common(j)))
      [] job[j].round = LastRound -> Message("done", <<>>)

Prep(j) ==
    /\ In(j, "prep") /\ (Locally(j) \/ job[j].round = LastRound)
    /\ LET m == Prepared(j)
       IN  job' = [job EXCEPT ![j] = Advanced(j,
                [job[j] EXCEPT !.out = <<m>>,
                               !.mine = IF m.kind = "inventory" THEN m.body ELSE @,
                               !.wants = IF m.kind = "blob_want" THEN m.body ELSE @])]
    /\ UNCHANGED <<pvars, wire, handle, stop, elapsed, asked, locks>>

(* send_ops collects one vault at a time, ascending, and cuts the          *)
(* operations into messages; send_blobs reads one wanted blob at a time    *)
(* and sends it if this device refers to it and has it. After the last one *)
(* comes the end marker.                                                   *)
Earlier(p, q) == p[1] < q[1] \/ (p[1] = q[1] /\ p[2] < q[2])

Batches(v, ops) ==
    LET rank(op) == Cardinality({q \in ops : Earlier(q, op)})
        n == (Cardinality(ops) + Batch - 1) \div Batch
    IN  [i \in 1..n |-> Message("ops", [vault |-> v, ops |->
            {op \in ops : rank(op) \div Batch = i - 1}])]

CollectOps(j) ==
    /\ In(j, "send") /\ job[j].round = 3 /\ job[j].out = <<>> /\ job[j].todo # {}
    /\ Locally(j)
    /\ LET v == Min(job[j].todo)
       IN  job' = [job EXCEPT ![j].todo = @ \ {v},
                ![j].out = Batches(v, OpsToSend(Me(j), v, job[j].theirs[v], job[j].peer))]
    /\ UNCHANGED <<pvars, wire, handle, stop, elapsed, asked, locks>>

CollectBlob(j) ==
    /\ In(j, "send") /\ job[j].round = 5 /\ job[j].out = <<>> /\ job[j].todo # {}
    /\ Locally(j)
    /\ LET b == CHOOSE x \in job[j].todo : TRUE
           sent == b \in Referenced(Me(j), b[1]) \cap blobs[Me(j)]
       IN  job' = [job EXCEPT ![j].todo = @ \ {b},
                ![j].out = IF sent THEN <<Message("blob", b)>> ELSE <<>>]
    /\ UNCHANGED <<pvars, wire, handle, stop, elapsed, asked, locks>>

CollectEnd(j) ==
    /\ In(j, "send") /\ job[j].round \in {3, 5} /\ job[j].out = <<>> /\ job[j].todo = {}
    /\ job' = [job EXCEPT ![j].out = <<Message(Closing[job[j].round], <<>>)>>]
    /\ UNCHANGED <<pvars, wire, handle, stop, elapsed, asked, locks>>

(* SecureChannel::send blocks while the buffers are full; once the other   *)
(* end is gone what is written is lost.                                    *)
Send(j) ==
    /\ In(j, "send") /\ job[j].out # <<>>
    /\ LET m == Head(job[j].out)
           rec == [job[j] EXCEPT !.out = Tail(@)]
           to == job[j].link
       IN  /\ Connected(j) => Len(wire[to]) < Capacity
           /\ wire' = IF Connected(j) THEN [wire EXCEPT ![to] = Append(@, m)] ELSE wire
           /\ job' = [job EXCEPT ![j] =
                        IF m.kind \in {"ops", "blob"} THEN rec ELSE Advanced(j, rec)]
    /\ UNCHANGED <<pvars, handle, stop, elapsed, asked, locks>>

(***************************************************************************)
(* SecureChannel::recv. Every message must be of the kind its place in the *)
(* round allows; anything else ends the session with a protocol error, and *)
(* so do operations of a vault that is not in both inventories and a blob  *)
(* that was not asked for.                                                 *)
(***************************************************************************)
Receiving(j) == In(j, "recv") /\ job[j].flush = "no" /\ wire[j] # <<>>

Arrived(j) == Head(wire[j])

Allowed(j, m) ==
    CASE job[j].round = 0 -> m.kind = IF job[j].step = 1 THEN "e" ELSE "proof"
      [] job[j].round = 3 -> \/ m.kind = "ops" /\ m.body.vault \in Common(j)
                             \/ m.kind = "ops_end"
      [] job[j].round = 5 -> \/ m.kind = "blob" /\ m.body \in job[j].wants
                             \/ m.kind = "blobs_end"
      [] OTHER -> m.kind = Closing[job[j].round]

(* One message of a single-message round, or of the handshake. *)
RecvMessage(j) ==
    /\ job[j].round \notin {3, 5}
    /\ LET m == Arrived(j)
           rec == [job[j] EXCEPT
                    !.got = IF m.kind \in {"hello", "proof"} THEN m.body ELSE <<>>,
                    !.theirs = IF m.kind = "inventory" THEN m.body ELSE @]
       IN  job' = [job EXCEPT ![j] = Advanced(j, [rec EXCEPT
                    !.todo = CASE m.kind = "inventory" ->
                                    DOMAIN rec.mine \cap DOMAIN rec.theirs
                               [] m.kind = "blob_want" ->
                                    {b \in m.body : b[1] \in Common(j)}
                               [] OTHER -> @])]
    /\ wire' = [wire EXCEPT ![j] = Tail(@)]
    /\ UNCHANGED <<pvars, handle, stop, elapsed, asked, locks>>

(* recv_ops buffers, and ingests when the buffer is full and at the end. *)
RecvOps(j) ==
    /\ job[j].round = 3
    /\ LET m == Arrived(j)
           buf == job[j].buf \cup
                    (IF m.kind = "ops" THEN {m.body.vault} \X m.body.ops ELSE {})
       IN  job' = [job EXCEPT ![j].buf = buf,
                ![j].flush = IF m.kind = "ops_end" THEN "end"
                             ELSE IF Cardinality(buf) >= FlushAt THEN "more" ELSE "no"]
    /\ wire' = [wire EXCEPT ![j] = Tail(@)]
    /\ UNCHANGED <<pvars, handle, stop, elapsed, asked, locks>>

(* flush: one vault at a time; with the buffer empty, read on or advance. *)
Flush(j) ==
    /\ In(j, "recv") /\ job[j].flush # "no"
    /\ \/ /\ job[j].buf # {} /\ Locally(j)
          /\ LET v == Min({p[1] : p \in job[j].buf})
                 ops == {p[2] : p \in {q \in job[j].buf : q[1] = v}}
             IN  /\ heads' = [heads EXCEPT ![Me(j)][v] = Ingested(Me(j), v, ops)]
                 /\ job' = [job EXCEPT ![j].buf = {p \in @ : p[1] # v}]
       \/ /\ job[j].buf = {}
          /\ LET rec == [job[j] EXCEPT !.flush = "no"]
             IN  job' = [job EXCEPT ![j] =
                            IF job[j].flush = "end" THEN Advanced(j, rec) ELSE rec]
          /\ UNCHANGED heads
    /\ UNCHANGED <<unlocked, pins, vaults, blobs, wire, handle, stop, elapsed, asked, locks>>

(* recv_blobs: a blob is stored if its bytes hash to its name. *)
RecvBlob(j) ==
    /\ job[j].round = 5 /\ Arrived(j).kind = "blob" /\ Locally(j)
    /\ LET b == Arrived(j).body
           good == Verified(b, job[j].peer)
       IN  /\ blobs' = [blobs EXCEPT ![Me(j)] = IF good THEN @ \cup {b} ELSE @]
           /\ job' = [job EXCEPT ![j].wants = @ \ {b},
                                 ![j].tampered = IF good THEN @ ELSE @ \cup {b}]
    /\ wire' = [wire EXCEPT ![j] = Tail(@)]
    /\ UNCHANGED <<unlocked, pins, vaults, heads, handle, stop, elapsed, asked, locks>>

RecvBlobsEnd(j) ==
    /\ job[j].round = 5 /\ Arrived(j).kind = "blobs_end"
    /\ job' = [job EXCEPT ![j] = Advanced(j, job[j])]
    /\ wire' = [wire EXCEPT ![j] = Tail(@)]
    /\ UNCHANGED <<pvars, handle, stop, elapsed, asked, locks>>

ProtocolError(j) ==
    /\ Fail(j, "protocol")
    /\ UNCHANGED <<pvars, handle, stop, elapsed, asked, locks>>

Recv(j) ==
    /\ Receiving(j)
    /\ IF Allowed(j, Arrived(j))
       THEN RecvMessage(j) \/ RecvOps(j) \/ RecvBlob(j) \/ RecvBlobsEnd(j)
       ELSE ProtocolError(j)

(* import_shares. *)
SettleShares(j) ==
    /\ In(j, "settle") /\ job[j].round = 1 /\ Locally(j)
    /\ vaults' = [vaults EXCEPT ![Me(j)] = Adopted(Me(j), job[j].peer, job[j].got)]
    /\ job' = [job EXCEPT ![j] = Advanced(j, [job[j] EXCEPT !.got = <<>>])]
    /\ UNCHANGED <<unlocked, pins, heads, blobs, wire, handle, stop, elapsed, asked, locks>>

(* The other end is gone and nothing is left to read. *)
PeerClosed(j) ==
    /\ In(j, "recv") /\ job[j].flush = "no" /\ wire[j] = <<>> /\ ~Connected(j)
    /\ Fail(j, IF job[j].round = 0 THEN "refused" ELSE "lost")
    /\ UNCHANGED <<pvars, handle, stop, elapsed, asked, locks>>

(* A broken link, or a deadline that passes while this end reads or writes. *)
LinkBreaks(j) ==
    /\ In(j, "send") \/ In(j, "recv")
    /\ Fail(j, "lost")
    /\ UNCHANGED <<pvars, handle, stop, elapsed, asked, locks>>
-----------------------------------------------------------------------------
NearbyInit ==
    /\ job = [j \in Job |-> Fresh(NoOptions)]
    /\ wire = [j \in Job |-> <<>>]
    /\ handle = [d \in Device |-> NoJob]
    /\ stop = {} /\ elapsed = {}

(* What the thread of a job does by itself. *)
Step(j) ==
    \/ SettleHandshake(j) \/ Prep(j)
    \/ CollectOps(j) \/ CollectBlob(j) \/ CollectEnd(j) \/ Send(j)
    \/ Recv(j) \/ Flush(j) \/ SettleShares(j)
    \/ VaultLocked(j) \/ PeerClosed(j)

NearbyWrite(d, v) == Write(d, v) /\ UNCHANGED nvars

NearbyNext ==
    \/ \E j \in Job : \E opt \in Options[j] :
            \/ NearbyListen(j, opt)
            \/ \E l \in Listener : NearbyConnect(j, l, opt)
    \/ \E d \in Device : NearbyStop(d) \/ Lock(d) \/ Unlock(d)
    \/ \E l \in Listener : WindowElapses(l) \/ ServeEnds(l)
    \/ \E j \in Job : Step(j) \/ LinkBreaks(j)
    \/ \E p \in Editing : NearbyWrite(p[1], p[2])

NearbySpec == PeerInit /\ NearbyInit /\ [][NearbyNext]_vars

(***************************************************************************)
(* Fairness: the threads run, and time passes. Nothing is assumed of the   *)
(* people, and no timeout: a link that works must be enough.               *)
(***************************************************************************)
NearbyFairness ==
    /\ \A j \in Job : WF_vars(Step(j))
    /\ \A l \in Listener : WF_vars(WindowElapses(l)) /\ WF_vars(ServeEnds(l))
-----------------------------------------------------------------------------
(***************************************************************************)
(* A session that one end reports as synced has delivered, in both         *)
(* directions, everything the two inventories listed for the vaults they   *)
(* have in common: each device holds the other's operations as far as it   *)
(* trusts their authors, and this end has every attachment they add or     *)
(* counts it as pending. This must hold although each end takes its        *)
(* inventory, its operations and its wants in local steps of their own,    *)
(* with edits, locks and other sessions in between.                        *)
(***************************************************************************)
SyncedIsDelivered ==
    \A j \in Job : job[j].result = "synced" =>
        LET d == Me(j)
            p == job[j].peer
        IN  \A v \in Common(j), o \in Device :
              /\ o \in pins[d] => heads[d][v][o] >= job[j].theirs[v][o]
              /\ o \in pins[p] => heads[p][v][o] >= job[j].mine[v][o]
              /\ \A b \in Referenced(d, v) :
                    (b[2] = o /\ o \in pins[d] /\ b[3] <= job[j].theirs[v][o])
                        => b \in blobs[d] \cup job[j].wants \cup job[j].tampered

(***************************************************************************)
(* No session hangs, although both directions have bounded buffers and no  *)
(* timeout is assumed; and between two devices that run this code it never *)
(* ends in a protocol error: it is synced, refused, locked out, or the     *)
(* link was lost.                                                          *)
(***************************************************************************)
SessionsSettle ==
    \A j \in Job : Running(j) ~>
        job[j].result \in {"synced", "refused", "locked", "lost",
                           "too_many_failures", "expired", "stopped"}
=============================================================================
