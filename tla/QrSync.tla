------------------------------- MODULE QrSync -------------------------------
(***************************************************************************)
(* QR sync: a device may show a still code of what it has, the other one   *)
(* exports a bundle and plays it as a stream of frames, and a camera picks *)
(* up some of them, repeatedly, out of order and mixed with the frames of  *)
(* another stream. K distinct frames of one transfer rebuild the bundle,   *)
(* which is imported in one request, later if the vault is locked.         *)
(*                                                                         *)
(* A transfer id stands for the bundle's hash. Frames that fail their      *)
(* checks change nothing and are left out; a scanned batch is one frame.   *)
(***************************************************************************)
EXTENDS PeerState

CONSTANTS
    QrSender,       \* devices that play streams
    QrReceiver,     \* devices that film them
    QrOptions,      \* the ExportOptions a user may choose, without the code
    NoDevice,       \* no peer named, no recipient known
    NoCode,
    K,              \* source symbols of a bundle
    MaxExtra,       \* MAX_EXTRA_SYMBOLS
    MaxForeign,     \* MAX_FOREIGN_FRAMES
    MaxBlobs,       \* attachments that fit a bundle (MAX_BUNDLE_BYTES, MAX_BLOBS)
    MaxCodes,       \* bound on codes shown
    MaxTransfers    \* bound on bundles exported

ASSUME QrConstants ==
    /\ QrSender \subseteq Device /\ QrReceiver \subseteq Device /\ NoDevice \notin Device
    /\ QrOptions \subseteq [peer : Device \cup {NoDevice}, picked : SUBSET Vault,
                            share : SUBSET Vault, attachments : BOOLEAN]
    /\ K \in Nat \ {0} /\ MaxExtra \in Nat /\ MaxForeign \in Nat \ {0}
    /\ MaxBlobs \in Nat /\ MaxCodes \in Nat /\ MaxTransfers \in Nat

VARIABLES
    codes,      \* "what I have" codes shown so far
    bundles,    \* exported bundles; the index is the transfer id
    playing,    \* playing[d]: the transfer d's screen plays (SEND), or 0
    recv,       \* recv[d]: the frame decoder (RECV)
    pending,    \* pending[d]: the rebuilt bundle not yet imported, or 0
    imported    \* history: which device imported which transfer, and what it held

qvars == <<codes, bundles, playing, recv, pending, imported, asked, locks>>

(* RaptorQ symbol ids: K source symbols and the repair symbols that may be *)
(* held on top.                                                            *)
Esi == 0..(K + MaxExtra - 1)

NoDecoder == [status |-> "off", transfer |-> 0, held |-> {}, foreign |-> 0]
NewDecoder == [NoDecoder EXCEPT !.status = "open"]

(* HaveCode::build for every vault held. *)
QrHaveCode(d) ==
    /\ d \in unlocked /\ Cardinality(codes) < MaxCodes
    /\ codes' = codes \cup {[device |-> d, heads |-> Inventory(d)]}
    /\ UNCHANGED <<pvars, bundles, playing, recv, pending, imported, asked, locks>>

\* Mutant of Exportable: the code may be another device's.
ExportableAnyCode(s, opt, have) ==
    /\ opt.peer \in pins[s] \cup {NoDevice}
    /\ opt.share # {} => opt.peer # NoDevice
    /\ opt.picked \cup opt.share \subseteq vaults[s]

(***************************************************************************)
(* bundle::export. The peer must be pinned, sharing needs a peer, the code *)
(* must be the peer's, and every vault named must be held.                 *)
(***************************************************************************)
Exportable(s, opt, have) ==
    /\ opt.peer \in pins[s] \cup {NoDevice}
    /\ opt.share # {} => opt.peer # NoDevice
    /\ (opt.peer # NoDevice /\ have # NoCode) => have.device = opt.peer
    /\ opt.picked \cup opt.share \subseteq vaults[s]

Recipient(opt, have) ==
    IF opt.peer # NoDevice THEN opt.peer
    ELSE IF have # NoCode THEN have.device ELSE NoDevice

(* The vaults that travel: all held ones when none is picked, of those the *)
(* ones the receiver's code lists, and every shared one in full.           *)
Travelling(s, opt, have) ==
    LET picked == IF opt.picked = {} THEN vaults[s] ELSE opt.picked
    IN  opt.share \cup
        {v \in picked : have = NoCode \/ v \in DOMAIN have.heads}

BasisHeads(opt, have, v) ==
    IF v \in opt.share \/ have = NoCode THEN [o \in Device |-> 0]
    ELSE have.heads[v]

(* Any choice of attachments that fits; which ones is a matter of size. *)
FittingBlobs(all) ==
    {b \in SUBSET all : Cardinality(b) = Min({MaxBlobs, Cardinality(all)})}

QrSendStart(s, opt, have) ==
    /\ s \in unlocked /\ Len(bundles) < MaxTransfers
    /\ Exportable(s, opt, have)
    /\ LET to == Recipient(opt, have)
           vs == Travelling(s, opt, have)
           ops == {p \in vs \X Op :
                        p[2] \in OpsToSend(s, p[1], BasisHeads(opt, have, p[1]), to)}
           all == IF opt.attachments
                  THEN (UNION {Referenced(s, v) : v \in vs}) \cap blobs[s] ELSE {}
       IN  /\ ops # {} \/ opt.share # {}
           /\ \E sent \in FittingBlobs(all) :
                bundles' = Append(bundles,
                    [sender |-> s, recipient |-> to, shares |-> opt.share,
                     ops |-> ops, blobs |-> sent,
                     listed |-> [v \in vs |-> heads[s][v]]])
           /\ asked' = asked \cup (opt.share \X {to})
    /\ playing' = [playing EXCEPT ![s] = Len(bundles) + 1]
    /\ UNCHANGED <<pvars, codes, recv, pending, imported, locks>>

QrSendStop(s) ==
    /\ playing[s] # 0
    /\ playing' = [playing EXCEPT ![s] = 0]
    /\ UNCHANGED <<pvars, codes, bundles, recv, pending, imported, asked, locks>>
-----------------------------------------------------------------------------
(***************************************************************************)
(* The receiver. The first valid frame fixes the transfer; frames of       *)
(* another one are dropped, and too many of them without progress end the  *)
(* transfer. Whether K symbols or a few more suffice is up to RaptorQ.     *)
(***************************************************************************)
QrReceiveStart(d) ==
    /\ recv[d].status \in {"off", "failed"}
    /\ recv' = [recv EXCEPT ![d] = NewDecoder]
    /\ pending' = [pending EXCEPT ![d] = 0]
    /\ UNCHANGED <<pvars, codes, bundles, playing, imported, asked, locks>>

(* FrameDecoder::push of symbol e of transfer t. *)
Push(dec, t, e) ==
    IF dec.transfer \notin {0, t}
    THEN [dec EXCEPT !.foreign = @ + 1,
                     !.status = IF dec.foreign + 1 >= MaxForeign THEN "failed" ELSE @]
    ELSE IF e \in dec.held THEN dec
    ELSE [dec EXCEPT !.transfer = t, !.held = @ \cup {e}, !.foreign = 0]

(* FrameDecoder::decode after a new symbol: complete, not yet, or given up. *)
Decodings(dec) ==
    LET n == Cardinality(dec.held)
    IN  {[dec EXCEPT !.status = st] : st \in
            (IF n >= K THEN {"complete"} ELSE {}) \cup
            (IF n >= K + MaxExtra THEN {"failed"} ELSE {"open"})}

QrReceiveFrames(d, t, e) ==
    /\ recv[d].status = "open" /\ \E s \in QrSender : playing[s] = t
    /\ LET dec == Push(recv[d], t, e)
       IN  /\ dec # recv[d]
           /\ IF dec.held = recv[d].held
              THEN recv' = [recv EXCEPT ![d] = dec]
              ELSE \E done \in Decodings(dec) : recv' = [recv EXCEPT ![d] = done]
    /\ UNCHANGED <<pvars, codes, bundles, playing, pending, imported, asked, locks>>

(* No new symbol for a minute, or half an hour in all. *)
TransferTimesOut(d) ==
    /\ recv[d].status = "open" /\ recv[d].transfer # 0
    /\ recv' = [recv EXCEPT ![d].status = "failed"]
    /\ UNCHANGED <<pvars, codes, bundles, playing, pending, imported, asked, locks>>

(***************************************************************************)
(* bundle::import: shares first, then the operations of every vault held   *)
(* (the ones just adopted included), then the attachments that are         *)
(* referenced and missing after that. A share opens only for the device it *)
(* is sealed to.                                                           *)
(***************************************************************************)
Import(d, b) ==
    LET now == IF b.recipient = d THEN Adopted(d, b.sender, b.shares) ELSE vaults[d]
        grown == [v \in Vault |-> IF v \in now
                    THEN Ingested(d, v, {p[2] : p \in {q \in b.ops : q[1] = v}})
                    ELSE heads[d][v]]
        wanted == (UNION {ReferencedUpTo(grown[v], v) : v \in now}) \ blobs[d]
    IN  /\ vaults' = [vaults EXCEPT ![d] = now]
        /\ heads' = [heads EXCEPT ![d] = grown]
        /\ blobs' = [blobs EXCEPT ![d] = @ \cup
                        {x \in b.blobs \cap wanted : Verified(x, b.sender)}]

(* qr_receive_finish takes the rebuilt bundle and asks the daemon to       *)
(* import it; what a locked vault refuses stays pending for another try.   *)
QrReceiveFinish(d) ==
    LET t == IF pending[d] # 0 THEN pending[d] ELSE recv[d].transfer
    IN  /\ pending[d] # 0 \/ recv[d].status = "complete"
        /\ recv' = [recv EXCEPT ![d] = IF pending[d] # 0 THEN @ ELSE NoDecoder]
        /\ IF d \in unlocked
           THEN /\ Import(d, bundles[t])
                /\ pending' = [pending EXCEPT ![d] = 0]
                /\ imported' = imported \cup
                        {[device |-> d, transfer |-> t, held |-> vaults'[d]]}
           ELSE /\ pending[d] = 0
                /\ pending' = [pending EXCEPT ![d] = t]
                /\ UNCHANGED <<vaults, heads, blobs, imported>>
        /\ UNCHANGED <<unlocked, pins, codes, bundles, playing, asked, locks>>

QrReceiveCancel(d) ==
    /\ recv[d].status # "off" \/ pending[d] # 0
    /\ recv' = [recv EXCEPT ![d] = NoDecoder]
    /\ pending' = [pending EXCEPT ![d] = 0]
    /\ UNCHANGED <<pvars, codes, bundles, playing, imported, asked, locks>>
-----------------------------------------------------------------------------
QrInit ==
    /\ codes = {} /\ bundles = <<>> /\ imported = {}
    /\ playing = [d \in Device |-> 0]
    /\ recv = [d \in Device |-> NoDecoder]
    /\ pending = [d \in Device |-> 0]

QrLock(d) ==
    /\ LockSession(d)
    /\ UNCHANGED <<codes, bundles, playing, recv, pending, imported, asked>>

QrUnlock(d) ==
    /\ UnlockSession(d)
    /\ UNCHANGED <<codes, bundles, playing, recv, pending, imported, asked>>

QrWrite(d, v) == Write(d, v) /\ UNCHANGED qvars

QrNext ==
    \/ \E d \in Device \ QrSender : QrHaveCode(d)
    \/ \E s \in QrSender :
            \/ \E opt \in QrOptions, have \in codes \cup {NoCode} : QrSendStart(s, opt, have)
            \/ QrSendStop(s)
    \/ \E d \in QrReceiver :
            \/ QrReceiveStart(d)
            \/ \E t \in 1..Len(bundles), e \in Esi : QrReceiveFrames(d, t, e)
            \/ TransferTimesOut(d) \/ QrReceiveFinish(d) \/ QrReceiveCancel(d)
    \/ \E d \in QrReceiver : QrLock(d) \/ QrUnlock(d)
    \/ \E p \in Editing : QrWrite(p[1], p[2])

(* A behaviour in which only QR sync is used. *)
QrSpec == PeerInit /\ QrInit /\ [][QrNext]_<<pvars, qvars>>

(* What bundle b promises device d, which held the vaults in held right    *)
(* after it imported b.                                                    *)
Delivered(d, b, held) ==
    /\ b.sender \in pins[d] => b.shares \subseteq held
    /\ \A v \in DOMAIN b.listed \cap held, o \in pins[d] :
            heads[d][v][o] >= b.listed[v][o]
    /\ \A x \in b.blobs :
            (x[1] \in held /\ x[2] \in pins[d] /\ Verified(x, b.sender)) => x \in blobs[d]

(***************************************************************************)
(* What a bundle that was built for a device promises is there once that   *)
(* device has imported it, however much later and whatever else happened   *)
(* in between: the vaults shared with it, every operation the sender held  *)
(* of a listed vault, as far as the authors are trusted, and the           *)
(* attachments that travelled. A bundle is built from a code that may be   *)
(* old, on a stream that may have been mixed with another.                 *)
(***************************************************************************)
QrImportDelivers ==
    \A i \in imported :
        LET b == bundles[i.transfer]
        IN  b.recipient \in {NoDevice, i.device} => Delivered(i.device, b, i.held)
=============================================================================
