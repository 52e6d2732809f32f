--------------------------- MODULE ExchangeProofs ---------------------------
(***************************************************************************)
(* Proofs about two devices that meet, for any number of devices, vaults,  *)
(* operations, jobs and frames.                                            *)
(*                                                                         *)
(* QR sync: what a device imports is complete, and a vault's key reaches   *)
(* only the device it was shared with. Nearby sync: the same of the keys,  *)
(* and a session that one end reports as synced has delivered everything   *)
(* in both directions.                                                     *)
(***************************************************************************)
EXTENDS Nearby, QrSync, SequenceTheorems, FiniteSetTheorems, WellFoundedInduction, TLAPS

Blob == Vault \X Device \X (1..MaxSeq)

(* Heads of some of the vaults. *)
Listing == UNION {[S -> Heads] : S \in SUBSET Vault}

Code == [device : Device, heads : Listing]

Bundle == [sender : Device, recipient : Device \cup {NoDevice}, shares : SUBSET Vault,
           ops : SUBSET (Vault \X Op), blobs : SUBSET Blob, listed : Listing]

Decoder == [status : {"off", "open", "failed", "complete"},
            transfer : 0..Len(bundles), held : SUBSET Esi, foreign : Nat]

QrTypeOK ==
    /\ PeerTypeOK
    /\ codes \subseteq Code
    /\ bundles \in Seq(Bundle)
    /\ recv \in [Device -> Decoder]
    /\ pending \in [Device -> 0..Len(bundles)]
    /\ imported \subseteq [device : Device, transfer : 1..Len(bundles), held : SUBSET Vault]

(* A decoder that is done knows which transfer it has. *)
CompleteIsKnown ==
    \A d \in Device : recv[d].status = "complete" => recv[d].transfer # 0

(* A code may be old, and then it lists less than its device holds: never  *)
(* more.                                                                   *)
Honest(c) ==
    \A v \in DOMAIN c.heads, o \in Device : c.heads[v][o] <= heads[c.device][v][o]

CodesHonest == \A c \in codes : Honest(c)

(* What a bundle leaves out of the vaults it lists, the device it is for   *)
(* holds already: the device named, or, with nobody named, any device.     *)
Complete(b) ==
    \A d \in Device : b.recipient \in {NoDevice, d} =>
        \A v \in DOMAIN b.listed, o \in Device \ {d}, k \in 1..MaxSeq :
            (heads[d][v][o] < k /\ k <= b.listed[v][o]) => <<v, <<o, k>>>> \in b.ops

(* The attachments that travel are ones the listed operations add. *)
BlobsListed(b) ==
    \A x \in b.blobs : /\ x[1] \in DOMAIN b.listed
                       /\ <<x[2], x[3]>> \in Attached
                       /\ x[3] <= b.listed[x[1]][x[2]]

(* Keys travel only to a device that is named and was asked for. *)
SharesAsked(b) ==
    /\ b.shares \X {b.recipient} \subseteq asked
    /\ b.recipient = NoDevice => b.shares = {}

BundlesComplete ==
    \A t \in 1..Len(bundles) :
        Complete(bundles[t]) /\ BlobsListed(bundles[t]) /\ SharesAsked(bundles[t])

NoneTrustsItself == \A d \in Device : d \notin pins[d]

QrInv ==
    /\ QrTypeOK
    /\ CompleteIsKnown
    /\ CodesHonest
    /\ BundlesComplete
    /\ NoneTrustsItself
    /\ QrImportDelivers

(* What every step leaves to the devices. *)
Grow ==
    /\ pins' = pins
    /\ \A d \in Device, v \in Vault, o \in Device : heads[d][v][o] <= heads'[d][v][o]
    /\ \A d \in Device : blobs[d] \subseteq blobs'[d]
    /\ asked \subseteq asked'
-----------------------------------------------------------------------------
\* A non-empty set of naturals below a bound has a greatest element, which is
\* what Max of FiniteSetsExt returns: seen from the bound it is the least one.
LEMMA MaxBelow ==
    ASSUME NEW n \in Nat, NEW S \in SUBSET (0..n), S # {}
    PROVE  Max(S) \in S /\ \A x \in S : x <= Max(S)
<1> DEFINE T == {k \in Nat : n - k \in S}
<1>1. T \in SUBSET Nat /\ T # {}
  <2>1. PICK x \in S : TRUE
    OBVIOUS
  <2>2. n - x \in Nat /\ n - (n - x) = x
    BY <2>1
  <2> QED
    BY <2>1, <2>2
<1>2. \E k \in T : \A y \in T : ~(<<y, k>> \in OpToRel(<, Nat))
  <2>1. IsWellFoundedOn(OpToRel(<, Nat), Nat)
    BY NatLessThanWellFounded
  <2> HIDE DEF T
  <2> QED
    BY <1>1, <2>1, WFMin, Zenon
<1>3. PICK k \in T : \A y \in T : ~(<<y, k>> \in OpToRel(<, Nat))
  BY <1>2
<1>4. \A y \in T : k <= y
  <2> TAKE y \in T
  <2>1. y \in Nat /\ k \in Nat
    OBVIOUS
  <2>2. <<y, k>> \in {ss \in Nat \X Nat : ss[1] < ss[2]} <=> y < k
    BY <2>1
  <2>3. ~(<<y, k>> \in {ss \in Nat \X Nat : ss[1] < ss[2]})
    BY <1>3, Zenon DEF OpToRel
  <2> QED
    BY <2>1, <2>2, <2>3
<1>5. \A x \in S : n - k >= x
  <2> TAKE x \in S
  <2>1. n - x \in T
    OBVIOUS
  <2> QED
    BY <2>1, <1>4
<1>6. Max(S) \in S /\ \A y \in S : Max(S) >= y
  BY <1>5, <1>3 DEF Max
<1> QED
  BY <1>6

\* What ingest leaves of a vault: heads that have not shrunk, and that have
\* grown to n for every pinned author whose operations up to n are there.
LEMMA IngestedHeads ==
    ASSUME PeerTypeOK, NEW d \in Device, NEW v \in Vault, NEW ops
    PROVE  /\ Ingested(d, v, ops) \in Heads
           /\ \A o \in Device : heads[d][v][o] <= Ingested(d, v, ops)[o]
           /\ \A o \in pins[d], n \in 0..MaxSeq :
                (\A k \in 1..MaxSeq : heads[d][v][o] < k /\ k <= n => <<o, k>> \in ops)
                    => n <= Ingested(d, v, ops)[o]
<1> DEFINE h(o) == heads[d][v][o]
           Run(o) == {n \in h(o)..MaxSeq : \A k \in (h(o) + 1)..n : <<o, k>> \in ops}
<1>1. MaxSeq \in Nat /\ pins[d] \subseteq Device
  BY PeerConstants DEF PeerTypeOK
<1>2. \A o \in Device : h(o) \in 0..MaxSeq
  BY DEF PeerTypeOK, Heads
<1>3. \A o \in Device : Max(Run(o)) \in Run(o) /\ \A x \in Run(o) : x <= Max(Run(o))
  <2> TAKE o \in Device
  <2>1. Run(o) \in SUBSET (0..MaxSeq)
    BY <1>1, <1>2
  <2>2. h(o) \in Run(o)
    BY <1>1, <1>2
  <2> HIDE DEF Run, h
  <2> QED
    BY <1>1, <2>1, <2>2, MaxBelow
<1>4. Ingested(d, v, ops) = [o \in Device |-> IF o \notin pins[d] THEN h(o) ELSE Max(Run(o))]
  BY DEF Ingested
<1>5. \A o \in Device : Max(Run(o)) \in 0..MaxSeq /\ h(o) <= Max(Run(o))
  <2> TAKE o \in Device
  <2> DEFINE m == Max(Run(o))
  <2>1. m \in h(o)..MaxSeq
    BY <1>3
  <2> HIDE DEF m, h
  <2>2. h(o) \in 0..MaxSeq
    BY <1>2
  <2>3. m \in 0..MaxSeq /\ h(o) <= m
    BY <1>1, <2>1, <2>2
  <2> QED
    BY <2>3 DEF m
<1>6. ASSUME NEW o \in pins[d], NEW n \in 0..MaxSeq,
             \A k \in 1..MaxSeq : h(o) < k /\ k <= n => <<o, k>> \in ops
      PROVE  n <= Max(Run(o))
  <2>1. o \in Device
    BY <1>1
  <2>2. CASE n <= h(o)
    <3>1. h(o) <= Max(Run(o)) /\ Max(Run(o)) \in 0..MaxSeq /\ h(o) \in 0..MaxSeq
      BY <2>1, <1>2, <1>5
    <3> HIDE DEF Run, h
    <3> QED
      BY <3>1, <2>2
  <2>3. CASE ~(n <= h(o))
    <3>1. n \in Run(o)
      BY <1>1, <1>2, <1>6, <2>1, <2>3
    <3> HIDE DEF Run, h
    <3> QED
      BY <3>1, <2>1, <1>3
  <2> QED
    BY <2>2, <2>3
<1> HIDE DEF Run, h
<1>7. Ingested(d, v, ops) \in Heads
  BY <1>2, <1>4, <1>5 DEF Heads
<1>8. \A o \in Device : h(o) <= Ingested(d, v, ops)[o]
  BY <1>2, <1>4, <1>5
<1>9. \A o \in pins[d] : Ingested(d, v, ops)[o] = Max(Run(o))
  BY <1>1, <1>4
<1> QED
  BY <1>6, <1>7, <1>8, <1>9 DEF h
-----------------------------------------------------------------------------
\* The fields of what the steps below read.
LEMMA Fields ==
    /\ \A b \in Bundle : /\ b.sender \in Device /\ b.recipient \in Device \cup {NoDevice}
                         /\ b.shares \subseteq Vault /\ b.ops \subseteq Vault \X Op
                         /\ b.blobs \subseteq Blob
                         /\ DOMAIN b.listed \subseteq Vault
                         /\ \A v \in DOMAIN b.listed : b.listed[v] \in Heads
    /\ \A c \in Code : /\ c.device \in Device /\ DOMAIN c.heads \subseteq Vault
                       /\ \A v \in DOMAIN c.heads : c.heads[v] \in Heads
  BY DEF Bundle, Code, Listing

LEMMA HeadsInt ==
    /\ PeerTypeOK => \A d \in Device, v \in Vault, o \in Device : heads[d][v][o] \in Int
    /\ PeerTypeOK' => \A d \in Device, v \in Vault, o \in Device : heads'[d][v][o] \in Int
    /\ \A h \in Heads, o \in Device : h[o] \in Int
<1>1. \A h \in Heads, o \in Device : h[o] \in Int
  BY PeerConstants DEF Heads
<1>2. /\ PeerTypeOK => \A d \in Device, v \in Vault : heads[d][v] \in Heads
      /\ PeerTypeOK' => \A d \in Device, v \in Vault : heads'[d][v] \in Heads
  BY DEF PeerTypeOK
<1> QED
  BY <1>1, <1>2

\* Nothing that held of a code, of a bundle or of an import is undone when
\* the devices learn more.
LEMMA HonestKept ==
    ASSUME PeerTypeOK, PeerTypeOK', Grow, NEW c \in Code, Honest(c)
    PROVE  Honest(c)'
<1> SUFFICES ASSUME NEW v \in DOMAIN c.heads, NEW o \in Device
             PROVE  c.heads[v][o] <= heads'[c.device][v][o]
  BY DEF Honest
<1>1. c.device \in Device /\ v \in Vault /\ c.heads[v] \in Heads
  BY Fields
<1>2. c.heads[v][o] <= heads[c.device][v][o] /\ heads[c.device][v][o] <= heads'[c.device][v][o]
  BY <1>1 DEF Honest, Grow
<1>3. c.heads[v][o] \in Int /\ heads[c.device][v][o] \in Int /\ heads'[c.device][v][o] \in Int
  BY <1>1, HeadsInt
<1> QED
  BY <1>2, <1>3

LEMMA BundleKept ==
    ASSUME PeerTypeOK, PeerTypeOK', Grow, NEW b \in Bundle,
           Complete(b), BlobsListed(b), SharesAsked(b)
    PROVE  Complete(b)' /\ BlobsListed(b)' /\ SharesAsked(b)'
<1>1. Complete(b)'
  <2> SUFFICES ASSUME NEW d \in Device, b.recipient \in {NoDevice, d},
                      NEW v \in DOMAIN b.listed, NEW o \in Device \ {d}, NEW k \in 1..MaxSeq,
                      heads'[d][v][o] < k, k <= b.listed[v][o]
               PROVE  <<v, <<o, k>>>> \in b.ops
    BY DEF Complete
  <2>1. v \in Vault
    BY Fields
  <2>2. heads[d][v][o] \in Int /\ heads'[d][v][o] \in Int /\ k \in Int
    BY <2>1, PeerConstants DEF PeerTypeOK, Heads
  <2>3. heads[d][v][o] < k
    BY <2>1, <2>2 DEF Grow
  <2> QED
    BY <2>3 DEF Complete
<1>2. BlobsListed(b)'
  BY DEF BlobsListed
<1>3. SharesAsked(b)'
  BY DEF SharesAsked, Grow
<1> QED
  BY <1>1, <1>2, <1>3

LEMMA DeliveredKept ==
    ASSUME PeerTypeOK, PeerTypeOK', Grow, NEW d \in Device, NEW b \in Bundle,
           NEW held \in SUBSET Vault, Delivered(d, b, held)
    PROVE  Delivered(d, b, held)'
<1>1. pins' = pins /\ pins[d] \subseteq Device /\ blobs[d] \subseteq blobs'[d]
  BY DEF Grow, PeerTypeOK
<1>2. ASSUME NEW v \in DOMAIN b.listed \cap held, NEW o \in pins[d]
      PROVE  heads'[d][v][o] >= b.listed[v][o]
  <2>1. v \in Vault /\ o \in Device /\ b.listed[v] \in Heads
    BY Fields, <1>1
  <2>2. heads[d][v][o] >= b.listed[v][o] /\ heads[d][v][o] <= heads'[d][v][o]
    BY <2>1 DEF Delivered, Grow
  <2>3. heads[d][v][o] \in Int /\ heads'[d][v][o] \in Int /\ b.listed[v][o] \in Int
    BY <2>1, PeerConstants DEF PeerTypeOK, Heads
  <2> QED
    BY <2>2, <2>3
<1> QED
  BY <1>1, <1>2 DEF Delivered, Verified

\* So the parts of the invariant survive a step that adds no code, no bundle
\* and no import.
LEMMA CodesKept ==
    ASSUME QrTypeOK, CodesHonest, PeerTypeOK', Grow, codes' = codes
    PROVE  CodesHonest'
  BY HonestKept DEF QrTypeOK, CodesHonest

LEMMA BundlesKept ==
    ASSUME QrTypeOK, BundlesComplete, PeerTypeOK', Grow, bundles' = bundles
    PROVE  BundlesComplete'
<1> SUFFICES ASSUME NEW t \in 1..Len(bundles)
             PROVE  (Complete(bundles[t]) /\ BlobsListed(bundles[t]) /\ SharesAsked(bundles[t]))'
  BY DEF BundlesComplete
<1>1. PICK b : b = bundles[t]
  OBVIOUS
<1>2. b \in Bundle /\ Complete(b) /\ BlobsListed(b) /\ SharesAsked(b)
  BY <1>1 DEF QrTypeOK, BundlesComplete
<1>3. Complete(b)' /\ BlobsListed(b)' /\ SharesAsked(b)'
  BY <1>2, BundleKept DEF QrTypeOK
<1>4. b = bundles'[t]
  BY <1>1
<1> QED
  BY <1>3, <1>4

LEMMA ImportsKept ==
    ASSUME QrTypeOK, QrImportDelivers, PeerTypeOK', Grow,
           \A t \in 1..Len(bundles) : bundles'[t] = bundles[t], imported' = imported
    PROVE  QrImportDelivers'
<1> SUFFICES ASSUME NEW i \in imported, bundles'[i.transfer].recipient \in {NoDevice, i.device}
             PROVE  Delivered(i.device, bundles[i.transfer], i.held)'
  BY DEF QrImportDelivers
<1>1. i.device \in Device /\ i.transfer \in 1..Len(bundles) /\ i.held \in SUBSET Vault
  BY DEF QrTypeOK
<1>2. PICK b : b = bundles[i.transfer]
  OBVIOUS
<1>3. b \in Bundle /\ b = bundles'[i.transfer]
  BY <1>1, <1>2 DEF QrTypeOK
<1>4. Delivered(i.device, b, i.held)
  BY <1>2, <1>3 DEF QrImportDelivers
<1>5. Delivered(i.device, b, i.held)'
  BY <1>1, <1>3, <1>4, DeliveredKept DEF QrTypeOK
<1> QED
  BY <1>3, <1>5

\* How the steps move the devices on.
LEMMA SameDevices ==
    ASSUME PeerTypeOK, UNCHANGED <<pins, vaults, heads, blobs>>,
           unlocked' \subseteq Device, asked \subseteq asked'
    PROVE  PeerTypeOK' /\ Grow
<1>1. PeerTypeOK'
  BY DEF PeerTypeOK
<1>2. \A d \in Device, v \in Vault, o \in Device : heads[d][v][o] <= heads[d][v][o]
  BY HeadsInt
<1> QED
  BY <1>1, <1>2 DEF Grow

LEMMA WriteGrows ==
    ASSUME PeerTypeOK, NEW d \in Device, NEW v \in Vault, Write(d, v), asked' = asked
    PROVE  PeerTypeOK' /\ Grow
<1> DEFINE n == heads[d][v][d] + 1
           new == {<<v, op[1], op[2]>> : op \in {p \in Attached : p = <<d, n>>}}
<1>1. heads[d][v] \in Heads /\ n \in 1..MaxSeq /\ MaxSeq \in Nat
  BY PeerConstants DEF PeerTypeOK, Write, Heads
<1>2. new \subseteq Vault \X Device \X (1..MaxSeq)
  BY <1>1
<1>3. /\ heads' = [heads EXCEPT ![d] = [heads[d] EXCEPT ![v] = [heads[d][v] EXCEPT ![d] = n]]]
      /\ blobs' = [blobs EXCEPT ![d] = blobs[d] \cup new]
      /\ UNCHANGED <<unlocked, pins, vaults>>
  BY DEF Write
<1> HIDE DEF new, n
<1>4. [heads[d][v] EXCEPT ![d] = n] \in Heads
  BY <1>1 DEF Heads
<1>5. heads' \in [Device -> [Vault -> Heads]]
  BY <1>3, <1>4 DEF PeerTypeOK
<1>6. PeerTypeOK'
  BY <1>2, <1>3, <1>5 DEF PeerTypeOK
<1>7. \A e \in Device, w \in Vault, o \in Device : heads[e][w][o] <= heads'[e][w][o]
  <2> TAKE e \in Device, w \in Vault, o \in Device
  <2>1. heads[e][w][o] \in Int /\ heads[d][v][d] \in Int /\ n = heads[d][v][d] + 1
    BY HeadsInt DEF n
  <2>2. heads'[e][w][o] = IF e = d /\ w = v /\ o = d THEN n ELSE heads[e][w][o]
    BY <1>3, <1>1 DEF PeerTypeOK, Heads
  <2> QED
    BY <2>1, <2>2
<1> QED
  BY <1>3, <1>6, <1>7 DEF Grow, PeerTypeOK

(* The heads and the vaults an import leaves on the importing device. *)
Now(d, b) == IF b.recipient = d THEN Adopted(d, b.sender, b.shares) ELSE vaults[d]

OpsOf(b, v) == {p[2] : p \in {q \in b.ops : q[1] = v}}

GrownHeads(d, b) ==
    [v \in Vault |-> IF v \in Now(d, b) THEN Ingested(d, v, OpsOf(b, v)) ELSE heads[d][v]]

LEMMA GrownProperty ==
    ASSUME PeerTypeOK, NEW d \in Device, NEW b \in Bundle
    PROVE  /\ GrownHeads(d, b) \in [Vault -> Heads]
           /\ \A v \in Vault, o \in Device : heads[d][v][o] <= GrownHeads(d, b)[v][o]
           /\ vaults[d] \subseteq Now(d, b) /\ Now(d, b) \subseteq Vault
<1>1. \A v \in Vault : Ingested(d, v, OpsOf(b, v)) \in Heads /\ heads[d][v] \in Heads
  BY IngestedHeads DEF PeerTypeOK
<1>2. \A v \in Vault, o \in Device : /\ heads[d][v][o] <= Ingested(d, v, OpsOf(b, v))[o]
                                     /\ heads[d][v][o] <= heads[d][v][o]
  BY IngestedHeads, HeadsInt
<1>3. GrownHeads(d, b) \in [Vault -> Heads]
  BY <1>1 DEF GrownHeads
<1>4. \A v \in Vault, o \in Device : heads[d][v][o] <= GrownHeads(d, b)[v][o]
  BY <1>2 DEF GrownHeads
<1>5. vaults[d] \subseteq Now(d, b) /\ Now(d, b) \subseteq Vault
  BY Fields DEF Now, Adopted, PeerTypeOK
<1> QED
  BY <1>3, <1>4, <1>5

LEMMA ImportGrows ==
    ASSUME PeerTypeOK, NEW d \in Device, NEW b \in Bundle, Import(d, b),
           UNCHANGED <<unlocked, pins, asked>>
    PROVE  /\ PeerTypeOK' /\ Grow
           /\ heads'[d] = GrownHeads(d, b) /\ vaults'[d] = Now(d, b)
           /\ \A x \in b.blobs, v \in Now(d, b) :
                x \in ReferencedUpTo(GrownHeads(d, b)[v], v) /\ Verified(x, b.sender)
                    => x \in blobs'[d]
<1> DEFINE wanted == (UNION {ReferencedUpTo(GrownHeads(d, b)[v], v) : v \in Now(d, b)}) \ blobs[d]
           kept == {x \in b.blobs \cap wanted : Verified(x, b.sender)}
<1>1. /\ vaults' = [vaults EXCEPT ![d] = Now(d, b)]
      /\ heads' = [heads EXCEPT ![d] = GrownHeads(d, b)]
      /\ blobs' = [blobs EXCEPT ![d] = blobs[d] \cup kept]
  BY DEF Import, Now, GrownHeads, OpsOf
<1>2. kept \subseteq Vault \X Device \X (1..MaxSeq)
  BY Fields DEF Blob
<1>3. \A x \in b.blobs, v \in Now(d, b) :
        x \in ReferencedUpTo(GrownHeads(d, b)[v], v) /\ Verified(x, b.sender)
            => x \in blobs[d] \cup kept
  <2> TAKE x \in b.blobs, v \in Now(d, b)
  <2> HAVE x \in ReferencedUpTo(GrownHeads(d, b)[v], v) /\ Verified(x, b.sender)
  <2>1. x \in blobs[d] \/ x \in wanted
    <3> DEFINE all == {ReferencedUpTo(GrownHeads(d, b)[w], w) : w \in Now(d, b)}
    <3>1. ReferencedUpTo(GrownHeads(d, b)[v], v) \in all
      OBVIOUS
    <3>2. x \in UNION all
      BY <3>1, Zenon
    <3> QED
      BY <3>2, Zenon
  <2> HIDE DEF wanted
  <2> QED
    BY <2>1
<1> HIDE DEF kept, wanted
<1>4. PeerTypeOK'
  BY <1>1, <1>2, GrownProperty DEF PeerTypeOK
<1>5. heads'[d] = GrownHeads(d, b) /\ vaults'[d] = Now(d, b) /\ blobs'[d] = blobs[d] \cup kept
  BY <1>1 DEF PeerTypeOK
<1>6. \A e \in Device, v \in Vault, o \in Device : heads[e][v][o] <= heads'[e][v][o]
  <2> TAKE e \in Device, v \in Vault, o \in Device
  <2>1. CASE e = d
    BY <2>1, <1>5, GrownProperty
  <2>2. CASE e # d
    <3>1. heads'[e] = heads[e]
      BY <1>1, <2>2 DEF PeerTypeOK
    <3> QED
      BY <3>1, HeadsInt
  <2> QED
    BY <2>1, <2>2
<1>7. Grow
  BY <1>1, <1>6 DEF Grow, PeerTypeOK
<1> QED
  BY <1>3, <1>4, <1>5, <1>7

\* The import of a complete bundle by a device it is for delivers it.
LEMMA ImportDelivers ==
    ASSUME PeerTypeOK, NoneTrustsItself, NEW d \in Device, NEW b \in Bundle, Import(d, b),
           UNCHANGED <<unlocked, pins, asked>>,
           Complete(b), BlobsListed(b), SharesAsked(b), b.recipient \in {NoDevice, d},
           NEW held, held = Now(d, b)
    PROVE  Delivered(d, b, held)'
<1>1. /\ heads'[d] = GrownHeads(d, b) /\ vaults'[d] = Now(d, b) /\ pins' = pins
      /\ \A x \in b.blobs, v \in Now(d, b) :
            x \in ReferencedUpTo(GrownHeads(d, b)[v], v) /\ Verified(x, b.sender)
                => x \in blobs'[d]
      /\ PeerTypeOK'
  BY ImportGrows
<1>2. pins[d] \subseteq Device /\ d \notin pins[d] /\ d # NoDevice
  BY QrConstants DEF PeerTypeOK, NoneTrustsItself
<1>3. b.sender \in pins[d] => b.shares \subseteq Now(d, b)
  BY <1>2 DEF SharesAsked, Now, Adopted
<1>4. ASSUME NEW v \in DOMAIN b.listed \cap Now(d, b), NEW o \in pins[d]
      PROVE  b.listed[v][o] <= GrownHeads(d, b)[v][o]
  <2>1. v \in Vault /\ o \in Device \ {d} /\ b.listed[v] \in Heads
    BY <1>2, Fields
  <2>2. b.listed[v][o] \in 0..MaxSeq
    BY <2>1 DEF Heads
  <2>3. ASSUME NEW k \in 1..MaxSeq, heads[d][v][o] < k, k <= b.listed[v][o]
        PROVE  <<o, k>> \in OpsOf(b, v)
    <3>1. <<v, <<o, k>>>> \in b.ops
      BY <2>1, <2>3 DEF Complete
    <3> QED
      BY <3>1 DEF OpsOf
  <2>4. b.listed[v][o] <= Ingested(d, v, OpsOf(b, v))[o]
    BY <2>1, <2>2, <2>3, IngestedHeads
  <2>5. GrownHeads(d, b)[v] = Ingested(d, v, OpsOf(b, v))
    BY <2>1 DEF GrownHeads
  <2> QED
    BY <2>4, <2>5
<1>5. ASSUME NEW x \in b.blobs, x[1] \in Now(d, b), x[2] \in pins[d], Verified(x, b.sender)
      PROVE  x \in blobs'[d]
  <2>1. x \in Vault \X Device \X (1..MaxSeq)
    BY Fields DEF Blob
  <2>2. x[1] \in DOMAIN b.listed /\ <<x[2], x[3]>> \in Attached /\ x[3] <= b.listed[x[1]][x[2]]
    BY DEF BlobsListed
  <2>3. b.listed[x[1]][x[2]] <= GrownHeads(d, b)[x[1]][x[2]]
    BY <1>4, <1>5, <2>2
  <2>4. x[3] <= GrownHeads(d, b)[x[1]][x[2]]
    <3>1. b.listed[x[1]] \in Heads /\ GrownHeads(d, b)[x[1]] \in Heads
      BY <2>1, <2>2, Fields, GrownProperty
    <3>2. b.listed[x[1]][x[2]] \in Int /\ GrownHeads(d, b)[x[1]][x[2]] \in Int /\ x[3] \in Int
      BY <2>1, <3>1, HeadsInt
    <3> QED
      BY <2>2, <2>3, <3>2
  <2>5. x = <<x[1], x[2], x[3]>>
    BY <2>1
  <2>6. x \in ReferencedUpTo(GrownHeads(d, b)[x[1]], x[1])
    <3> DEFINE op == <<x[2], x[3]>>
    <3>1. op \in {p \in Attached : p[2] <= GrownHeads(d, b)[x[1]][p[1]]}
      BY <2>2, <2>4
    <3>2. x = <<x[1], op[1], op[2]>>
      BY <2>5
    <3> HIDE DEF op
    <3> QED
      BY <3>1, <3>2 DEF ReferencedUpTo
  <2> QED
    BY <1>1, <1>5, <2>6
<1>6. \A v \in DOMAIN b.listed \cap Now(d, b), o \in pins[d] : heads'[d][v][o] >= b.listed[v][o]
  <2> TAKE v \in DOMAIN b.listed \cap Now(d, b), o \in pins[d]
  <2>1. v \in Vault /\ o \in Device /\ b.listed[v] \in Heads /\ GrownHeads(d, b)[v] \in Heads
    BY <1>2, Fields, GrownProperty
  <2>2. b.listed[v][o] \in Int /\ GrownHeads(d, b)[v][o] \in Int
    BY <2>1, HeadsInt
  <2> QED
    BY <1>1, <1>4, <2>2
<1> QED
  BY <1>1, <1>3, <1>5, <1>6 DEF Delivered, Verified

\* A bundle built from a code is complete for the device that showed the
\* code, however old the code is, and one built without a code for everyone.
LEMMA ExportComplete ==
    ASSUME QrTypeOK, CodesHonest, NEW s \in QrSender, NEW opt \in QrOptions,
           NEW have \in codes \cup {NoCode}, QrSendStart(s, opt, have)
    PROVE  \E b \in Bundle : /\ bundles' = Append(bundles, b)
                             /\ Complete(b) /\ BlobsListed(b) /\ SharesAsked(b)'
                             /\ asked \subseteq asked'
<1> DEFINE to == Recipient(opt, have)
           vs == Travelling(s, opt, have)
           ops == {p \in vs \X Op :
                        p[2] \in OpsToSend(s, p[1], BasisHeads(opt, have, p[1]), to)}
           all == IF opt.attachments
                  THEN (UNION {Referenced(s, v) : v \in vs}) \cap blobs[s] ELSE {}
           new(sent) == [sender |-> s, recipient |-> to, shares |-> opt.share,
                         ops |-> ops, blobs |-> sent, listed |-> [v \in vs |-> heads[s][v]]]
<1>1. /\ s \in Device /\ NoDevice \notin Device
      /\ opt.peer \in Device \cup {NoDevice} /\ opt.picked \subseteq Vault
      /\ opt.share \subseteq Vault
  BY QrConstants
<1>2. PICK sent \in SUBSET all : bundles' = Append(bundles, new(sent))
  BY DEF QrSendStart, FittingBlobs
<1>3. asked' = asked \cup (opt.share \X {to}) /\ Exportable(s, opt, have)
  BY DEF QrSendStart
<1>4. have # NoCode => have \in Code /\ Honest(have)
  BY DEF QrTypeOK, CodesHonest
<1>5. to \in Device \cup {NoDevice} /\ (to = NoDevice => opt.share = {})
  BY <1>1, <1>3, <1>4, Fields DEF Recipient, Exportable
<1>6. vs \subseteq Vault
  BY <1>1 DEF Travelling, QrTypeOK, PeerTypeOK
<1>7. \A v \in vs : heads[s][v] \in Heads
  BY <1>1, <1>6 DEF QrTypeOK, PeerTypeOK
<1>8. all \subseteq Blob
  BY <1>1 DEF QrTypeOK, PeerTypeOK, Blob
<1>9. [v \in vs |-> heads[s][v]] \in Listing
  BY <1>6, <1>7 DEF Listing
<1>10. ASSUME NEW d \in Device, to \in {NoDevice, d}, NEW v \in vs, NEW o \in Device \ {d},
              NEW k \in 1..MaxSeq, heads[d][v][o] < k, k <= heads[s][v][o]
       PROVE  <<v, <<o, k>>>> \in ops
  <2>1. <<o, k>> \in Op /\ k \in Int /\ 0 < k /\ o # to
    BY <1>1, <1>10, PeerConstants DEF Op
  <2>2. BasisHeads(opt, have, v)[o] < k
    <3>1. CASE v \in opt.share \/ have = NoCode
      BY <2>1, <3>1 DEF BasisHeads
    <3>2. CASE ~(v \in opt.share \/ have = NoCode)
      <4>1. v \in DOMAIN have.heads /\ have.device = d
        BY <1>1, <1>3, <1>4, <1>10, <3>2, Fields DEF Travelling, Recipient, Exportable
      <4>2. have.heads[v][o] <= heads[d][v][o]
        BY <1>4, <3>2, <4>1 DEF Honest
      <4>3. have.heads[v][o] \in Int /\ heads[d][v][o] \in Int
        BY <1>4, <1>6, <3>2, <4>1, HeadsInt, Fields DEF QrTypeOK
      <4> QED
        BY <1>10, <2>1, <3>2, <4>2, <4>3 DEF BasisHeads
    <3> QED
      BY <3>1, <3>2
  <2>3. BasisHeads(opt, have, v)[o] \in Int
    <3>1. CASE v \in opt.share \/ have = NoCode
      BY <3>1 DEF BasisHeads
    <3>2. CASE ~(v \in opt.share \/ have = NoCode)
      <4>1. v \in DOMAIN have.heads
        BY <3>2 DEF Travelling
      <4>2. have.heads[v] \in Heads
        BY <1>4, <3>2, <4>1, Fields
      <4> QED
        BY <3>2, <4>2, HeadsInt DEF BasisHeads
    <3> QED
      BY <3>1, <3>2
  <2>4. <<o, k>> \in OpsToSend(s, v, BasisHeads(opt, have, v), to)
    BY <1>10, <2>1, <2>2, <2>3 DEF OpsToSend
  <2> HIDE DEF vs, to
  <2> QED
    BY <2>1, <2>4
<1>11. ASSUME NEW x \in sent
       PROVE  x[1] \in vs /\ <<x[2], x[3]>> \in Attached /\ x[3] <= heads[s][x[1]][x[2]]
  <2>1. PICK v \in vs : x \in Referenced(s, v)
    BY <1>2
  <2>2. PICK op \in Attached : op[2] <= heads[s][v][op[1]] /\ x = <<v, op[1], op[2]>>
    BY <2>1 DEF Referenced, ReferencedUpTo
  <2>3. op = <<op[1], op[2]>>
    BY <2>2, PeerConstants
  <2> HIDE DEF vs
  <2> QED
    BY <2>1, <2>2, <2>3
<1> HIDE DEF to, vs, ops, all
<1>12. PICK b : b = new(sent)
  OBVIOUS
<1>13. /\ b.recipient = to /\ b.shares = opt.share /\ b.ops = ops /\ b.blobs = sent
       /\ b.listed = [v \in vs |-> heads[s][v]] /\ b.sender = s
  BY <1>12
<1>14. ops \subseteq Vault \X Op
  BY <1>6 DEF ops
<1>15. b \in Bundle
  BY <1>1, <1>2, <1>5, <1>8, <1>9, <1>12, <1>14 DEF Bundle
<1>16. Complete(b)
  BY <1>10, <1>13 DEF Complete
<1>17. BlobsListed(b)
  BY <1>11, <1>13 DEF BlobsListed
<1>18. SharesAsked(b)'
  BY <1>3, <1>5, <1>13 DEF SharesAsked, to
<1> QED
  BY <1>2, <1>3, <1>12, <1>15, <1>16, <1>17, <1>18

\* A step that leaves codes, bundles and imports alone keeps the invariant if
\* it keeps the types of the decoders.
LEMMA QuietStep ==
    ASSUME QrInv, PeerTypeOK', Grow, UNCHANGED <<codes, bundles, imported>>,
           recv' \in [Device -> Decoder], pending' \in [Device -> 0..Len(bundles)],
           CompleteIsKnown'
    PROVE  QrInv'
<1>1. QrTypeOK'
  BY DEF QrInv, QrTypeOK, Decoder
<1>2. CodesHonest' /\ BundlesComplete'
  BY CodesKept, BundlesKept DEF QrInv
<1>3. QrImportDelivers'
  BY ImportsKept DEF QrInv
<1>4. NoneTrustsItself'
  BY DEF QrInv, NoneTrustsItself, Grow
<1> QED
  BY <1>1, <1>2, <1>3, <1>4 DEF QrInv

\* FrameDecoder::push and decode stay within the frames of a known transfer.
LEMMA PushTypes ==
    ASSUME Len(bundles) \in Nat, NEW dec \in Decoder, NEW t \in 1..Len(bundles), NEW e \in Esi,
           dec.status = "open"
    PROVE  /\ Push(dec, t, e) \in Decoder
           /\ Push(dec, t, e).status # "complete"
           /\ Push(dec, t, e).held # dec.held => Push(dec, t, e).transfer = t
           /\ \A done \in Decodings(Push(dec, t, e)) :
                done \in Decoder /\ done.transfer = Push(dec, t, e).transfer
<1> DEFINE pd == Push(dec, t, e)
<1>1. /\ pd \in Decoder /\ pd.status # "complete"
      /\ pd.held # dec.held => pd.transfer = t
  <2>1. CASE dec.transfer \notin {0, t}
    <3>1. \E st \in {"failed", "open"} :
            pd = [dec EXCEPT !.foreign = dec.foreign + 1, !.status = st]
      <4>1. pd = [dec EXCEPT !.foreign = dec.foreign + 1,
                             !.status = IF dec.foreign + 1 >= MaxForeign THEN "failed" ELSE "open"]
        BY <2>1 DEF Push
      <4>2. (IF dec.foreign + 1 >= MaxForeign THEN "failed" ELSE "open") \in {"failed", "open"}
        OBVIOUS
      <4> HIDE DEF pd
      <4> QED
        BY <4>1, <4>2
    <3> HIDE DEF pd
    <3>2. PICK st \in {"failed", "open"} :
            pd = [dec EXCEPT !.foreign = dec.foreign + 1, !.status = st]
      BY <3>1
    <3>3. dec.foreign + 1 \in Nat
      BY DEF Decoder
    <3>4. pd.held = dec.held /\ pd.status = st
      BY <3>2 DEF Decoder
    <3>5. pd \in Decoder
      BY <3>2, <3>3 DEF Decoder
    <3> QED
      BY <3>4, <3>5
  <2>2. CASE dec.transfer \in {0, t} /\ e \in dec.held
    BY <2>2 DEF Push
  <2>3. CASE dec.transfer \in {0, t} /\ e \notin dec.held
    <3>1. pd = [dec EXCEPT !.transfer = t, !.held = dec.held \cup {e}, !.foreign = 0]
      BY <2>3 DEF Push
    <3>2. t \in 0..Len(bundles)
      OBVIOUS
    <3> HIDE DEF pd
    <3> QED
      BY <3>1, <3>2 DEF Decoder
  <2> QED
    BY <2>1, <2>2, <2>3
<1> HIDE DEF pd
<1>2. \A done \in Decodings(pd) : done \in Decoder /\ done.transfer = pd.transfer
  <2> TAKE done \in Decodings(pd)
  <2>1. PICK st \in {"complete", "failed", "open"} : done = [pd EXCEPT !.status = st]
    BY DEF Decodings
  <2> QED
    BY <1>1, <2>1 DEF Decoder
<1> QED
  BY <1>1, <1>2 DEF pd

\* Every step keeps the invariant.
LEMMA QrInvStep == QrInv /\ [QrNext]_<<pvars, qvars>> => QrInv'
<1> SUFFICES ASSUME QrInv, [QrNext]_<<pvars, qvars>>
             PROVE  QrInv'
  OBVIOUS
<1>a. QrTypeOK /\ PeerTypeOK /\ CompleteIsKnown
  BY DEF QrInv, QrTypeOK
<1>b. /\ recv \in [Device -> Decoder] /\ pending \in [Device -> 0..Len(bundles)]
      /\ bundles \in Seq(Bundle) /\ Len(bundles) \in Nat /\ unlocked \subseteq Device
  BY <1>a DEF QrTypeOK, PeerTypeOK
<1>c. NoDecoder \in Decoder /\ NewDecoder \in Decoder
  <2>1. 0 \in 0..Len(bundles)
    BY <1>b
  <2>2. NoDecoder \in Decoder
    BY <2>1 DEF NoDecoder, Decoder
  <2> QED
    BY <2>2 DEF NewDecoder, Decoder
<1>1. ASSUME NEW d \in Device, QrHaveCode(d)
      PROVE  QrInv'
  <2>1. PeerTypeOK' /\ Grow
    BY <1>1, <1>a, <1>b, SameDevices DEF QrHaveCode, pvars
  <2>2. PICK c : c = [device |-> d, heads |-> Inventory(d)]
    OBVIOUS
  <2>3. codes' = codes \cup {c}
    BY <1>1, <2>2 DEF QrHaveCode
  <2>4. vaults[d] \subseteq Vault /\ \A v \in vaults[d] : heads[d][v] \in Heads
    BY <1>a DEF PeerTypeOK
  <2>5. c \in Code /\ c.device = d /\ c.heads = [v \in vaults[d] |-> heads[d][v]]
    <3>1. Inventory(d) = [v \in vaults[d] |-> heads[d][v]]
      BY DEF Inventory, VaultHeads
    <3>2. Inventory(d) \in Listing
      BY <2>4, <3>1 DEF Listing
    <3> QED
      BY <2>2, <3>1, <3>2 DEF Code
  <2>6. Honest(c)'
    <3>1. \A v \in vaults[d], o \in Device : heads[d][v][o] <= heads[d][v][o]
      BY <1>a, <2>4, HeadsInt
    <3>2. heads' = heads
      BY <1>1 DEF QrHaveCode, pvars
    <3> QED
      BY <2>5, <3>1, <3>2 DEF Honest
  <2>7. CodesHonest'
    BY <1>a, <2>1, <2>3, <2>6, HonestKept DEF CodesHonest, QrInv, QrTypeOK
  <2>8. UNCHANGED <<bundles, recv, pending, imported>>
    BY <1>1 DEF QrHaveCode
  <2>9. QrTypeOK'
    BY <1>a, <2>1, <2>3, <2>5, <2>8 DEF QrTypeOK, Decoder
  <2>10. BundlesComplete' /\ QrImportDelivers'
    BY <2>1, <2>8, BundlesKept, ImportsKept DEF QrInv
  <2>11. CompleteIsKnown' /\ NoneTrustsItself'
    BY <2>1, <2>8 DEF QrInv, CompleteIsKnown, NoneTrustsItself, Grow
  <2> QED
    BY <2>7, <2>9, <2>10, <2>11 DEF QrInv
<1>2. ASSUME NEW s \in QrSender, NEW opt \in QrOptions, NEW have \in codes \cup {NoCode},
             QrSendStart(s, opt, have)
      PROVE  QrInv'
  <2>1. PICK b \in Bundle : /\ bundles' = Append(bundles, b)
                            /\ Complete(b) /\ BlobsListed(b) /\ SharesAsked(b)'
                            /\ asked \subseteq asked'
    BY <1>2, <1>a, ExportComplete DEF QrInv
  <2>2. UNCHANGED <<unlocked, pins, vaults, heads, blobs, codes, recv, pending, imported>>
    BY <1>2 DEF QrSendStart, pvars
  <2>3. PeerTypeOK' /\ Grow
    BY <1>a, <1>b, <2>1, <2>2, SameDevices
  <2>4. /\ Len(bundles') = Len(bundles) + 1 /\ bundles' \in Seq(Bundle)
        /\ \A t \in 1..Len(bundles) : bundles'[t] = bundles[t]
        /\ bundles'[Len(bundles) + 1] = b
    BY <1>b, <2>1
  <2>5. QrTypeOK'
    <3>1. 0..Len(bundles) \subseteq 0..Len(bundles') /\ 1..Len(bundles) \subseteq 1..Len(bundles')
      BY <1>b, <2>4
    <3>2. recv' \in [Device -> Decoder']
      BY <1>b, <2>2, <3>1 DEF Decoder
    <3>3. pending' \in [Device -> 0..Len(bundles')]
      BY <1>b, <2>2, <3>1
    <3>4. imported' \subseteq [device : Device, transfer : 1..Len(bundles'), held : SUBSET Vault]
      BY <1>a, <2>2, <3>1 DEF QrTypeOK
    <3>5. codes' \subseteq Code
      BY <1>a, <2>2 DEF QrTypeOK
    <3> QED
      BY <2>3, <2>4, <3>2, <3>3, <3>4, <3>5 DEF QrTypeOK
  <2>6. CodesHonest' /\ QrImportDelivers'
    BY <1>a, <2>2, <2>3, <2>4, CodesKept, ImportsKept DEF QrInv
  <2>7. BundlesComplete'
    <3> SUFFICES ASSUME NEW t \in 1..Len(bundles')
                 PROVE  (/\ Complete(bundles[t]) /\ BlobsListed(bundles[t])
                         /\ SharesAsked(bundles[t]))'
      BY DEF BundlesComplete
    <3>1. CASE t \in 1..Len(bundles)
      <4>1. PICK c : c = bundles[t]
        OBVIOUS
      <4>2. c \in Bundle /\ Complete(c) /\ BlobsListed(c) /\ SharesAsked(c) /\ c = bundles'[t]
        BY <1>b, <2>4, <3>1, <4>1 DEF QrInv, BundlesComplete
      <4>3. Complete(c)' /\ BlobsListed(c)' /\ SharesAsked(c)'
        BY <1>a, <2>3, <4>2, BundleKept
      <4> QED
        BY <4>2, <4>3
    <3>2. CASE t \notin 1..Len(bundles)
      <4>1. b = bundles'[t]
        BY <1>b, <2>4, <3>2
      <4>2. Complete(b)' /\ BlobsListed(b)'
        BY <2>1, <2>2 DEF Complete, BlobsListed
      <4> QED
        BY <2>1, <4>1, <4>2
    <3> QED
      BY <3>1, <3>2
  <2>8. CompleteIsKnown' /\ NoneTrustsItself'
    BY <2>2 DEF QrInv, CompleteIsKnown, NoneTrustsItself
  <2> QED
    BY <2>5, <2>6, <2>7, <2>8 DEF QrInv
<1>3. ASSUME NEW s \in QrSender, QrSendStop(s)
      PROVE  QrInv'
  <2>1. UNCHANGED <<unlocked, pins, vaults, heads, blobs, asked, codes, bundles, recv, pending,
                    imported>>
    BY <1>3 DEF QrSendStop, pvars
  <2>2. PeerTypeOK' /\ Grow
    BY <1>a, <1>b, <2>1, SameDevices
  <2> QED
    BY <1>a, <1>b, <2>1, <2>2, QuietStep DEF CompleteIsKnown
<1>4. ASSUME NEW d \in Device, QrReceiveStart(d) \/ TransferTimesOut(d) \/ QrReceiveCancel(d)
      PROVE  QrInv'
  <2>1. UNCHANGED <<unlocked, pins, vaults, heads, blobs, asked, codes, bundles, imported>>
    BY <1>4 DEF QrReceiveStart, TransferTimesOut, QrReceiveCancel, pvars
  <2>2. PeerTypeOK' /\ Grow
    BY <1>a, <1>b, <2>1, SameDevices
  <2>3. PICK dec \in Decoder : recv' = [recv EXCEPT ![d] = dec] /\ dec.status # "complete"
    <3>1. CASE QrReceiveStart(d)
      BY <1>c, <3>1 DEF QrReceiveStart, NewDecoder, NoDecoder
    <3>2. CASE TransferTimesOut(d)
      <4>1. recv[d] \in Decoder /\ recv' = [recv EXCEPT ![d] = [recv[d] EXCEPT !.status = "failed"]]
        BY <1>b, <3>2 DEF TransferTimesOut
      <4>2. [recv[d] EXCEPT !.status = "failed"] \in Decoder
        BY <4>1 DEF Decoder
      <4>3. [recv[d] EXCEPT !.status = "failed"].status = "failed"
        BY <4>1 DEF Decoder
      <4> QED
        BY <4>1, <4>2, <4>3
    <3>3. CASE QrReceiveCancel(d)
      BY <1>c, <3>3 DEF QrReceiveCancel, NoDecoder
    <3> QED
      BY <1>4, <3>1, <3>2, <3>3
  <2>4. recv' \in [Device -> Decoder] /\ CompleteIsKnown'
    BY <1>a, <1>b, <2>3 DEF CompleteIsKnown
  <2>5. pending' \in [Device -> 0..Len(bundles)]
    BY <1>4, <1>b DEF QrReceiveStart, TransferTimesOut, QrReceiveCancel
  <2> QED
    BY <2>1, <2>2, <2>4, <2>5, QuietStep
<1>5. ASSUME NEW d \in Device, NEW t \in 1..Len(bundles), NEW e \in Esi, QrReceiveFrames(d, t, e)
      PROVE  QrInv'
  <2>1. UNCHANGED <<unlocked, pins, vaults, heads, blobs, asked, codes, bundles, pending, imported>>
    BY <1>5 DEF QrReceiveFrames, pvars
  <2>2. PeerTypeOK' /\ Grow
    BY <1>a, <1>b, <2>1, SameDevices
  <2> DEFINE pd == Push(recv[d], t, e)
  <2>3. recv[d] \in Decoder /\ recv[d].status = "open"
    BY <1>5, <1>b DEF QrReceiveFrames
  <2>4. /\ pd \in Decoder /\ pd.status # "complete"
        /\ pd.held # recv[d].held => pd.transfer = t
        /\ \A done \in Decodings(pd) : done \in Decoder /\ done.transfer = pd.transfer
    BY <1>b, <2>3, PushTypes
  <2>5. IF pd.held = recv[d].held THEN recv' = [recv EXCEPT ![d] = pd]
        ELSE \E done \in Decodings(pd) : recv' = [recv EXCEPT ![d] = done]
    BY <1>5 DEF QrReceiveFrames
  <2> HIDE DEF pd
  <2>6. PICK dec \in Decoder : /\ recv' = [recv EXCEPT ![d] = dec]
                               /\ dec.status = "complete" => dec.transfer = t
    BY <2>4, <2>5
  <2>7. recv' \in [Device -> Decoder] /\ CompleteIsKnown'
    BY <1>a, <1>b, <2>6 DEF CompleteIsKnown
  <2> QED
    BY <1>b, <2>1, <2>2, <2>7, QuietStep
<1>6. ASSUME NEW d \in Device, QrReceiveFinish(d)
      PROVE  QrInv'
  <2> DEFINE t == IF pending[d] # 0 THEN pending[d] ELSE recv[d].transfer
  <2>1. t \in 1..Len(bundles)
    BY <1>6, <1>a, <1>b DEF QrReceiveFinish, CompleteIsKnown, Decoder
  <2>2. /\ recv' = [recv EXCEPT ![d] = IF pending[d] # 0 THEN recv[d] ELSE NoDecoder]
        /\ UNCHANGED <<unlocked, pins, asked, codes, bundles>>
    BY <1>6 DEF QrReceiveFinish
  <2>3. recv' \in [Device -> Decoder] /\ CompleteIsKnown'
    BY <1>a, <1>b, <1>c, <2>2 DEF CompleteIsKnown, NoDecoder
  <2>4. CASE d \in unlocked
    <3>1. PICK b : b = bundles[t]
      OBVIOUS
    <3>2. b \in Bundle /\ Complete(b) /\ BlobsListed(b) /\ SharesAsked(b)
      BY <1>b, <2>1, <3>1 DEF QrInv, BundlesComplete
    <3>3. Import(d, b) /\ pending' = [pending EXCEPT ![d] = 0]
      BY <1>6, <2>4, <3>1 DEF QrReceiveFinish
    <3>4. PeerTypeOK' /\ Grow /\ vaults'[d] = Now(d, b)
      BY <1>a, <2>2, <3>2, <3>3, ImportGrows
    <3>5. PICK i : i = [device |-> d, transfer |-> t, held |-> vaults'[d]]
      OBVIOUS
    <3>6. imported' = imported \cup {i}
      BY <1>6, <2>4, <3>5 DEF QrReceiveFinish
    <3>7. i.device = d /\ i.transfer = t /\ i.held = vaults'[d] /\ vaults'[d] \subseteq Vault
      BY <3>4, <3>5 DEF PeerTypeOK
    <3>8. QrTypeOK'
      <4>1. imported' \subseteq [device : Device, transfer : 1..Len(bundles), held : SUBSET Vault]
        BY <1>a, <2>1, <3>5, <3>6, <3>7 DEF QrTypeOK
      <4>2. pending' \in [Device -> 0..Len(bundles)]
        BY <1>b, <3>3
      <4> QED
        BY <1>a, <2>2, <2>3, <3>4, <4>1, <4>2 DEF QrTypeOK, Decoder
    <3>9. QrImportDelivers'
      <4> SUFFICES ASSUME NEW j \in imported',
                          bundles'[j.transfer].recipient \in {NoDevice, j.device}
                   PROVE  Delivered(j.device, bundles[j.transfer], j.held)'
        BY DEF QrImportDelivers
      <4>1. CASE j = i
        <5>1. b = bundles'[j.transfer] /\ j.device = d /\ j.held = Now(d, b)
          BY <2>2, <3>1, <3>4, <3>7, <4>1
        <5>2. PICK held : held = Now(d, b)
          OBVIOUS
        <5>3. Delivered(d, b, held)'
          BY <1>a, <2>2, <3>2, <3>3, <5>1, <5>2, ImportDelivers DEF QrInv
        <5> QED
          BY <5>1, <5>2, <5>3
      <4>2. CASE j \in imported
        <5>1. j.device \in Device /\ j.transfer \in 1..Len(bundles) /\ j.held \in SUBSET Vault
          BY <1>a, <4>2 DEF QrTypeOK
        <5>2. PICK c : c = bundles[j.transfer]
          OBVIOUS
        <5>3. c \in Bundle /\ c = bundles'[j.transfer]
          BY <1>b, <2>2, <5>1, <5>2
        <5>4. Delivered(j.device, c, j.held)
          BY <4>2, <5>2, <5>3 DEF QrInv, QrImportDelivers
        <5>5. Delivered(j.device, c, j.held)'
          BY <1>a, <3>4, <5>1, <5>3, <5>4, DeliveredKept
        <5> QED
          BY <5>3, <5>5
      <4> QED
        BY <3>6, <4>1, <4>2
    <3>10. CodesHonest' /\ BundlesComplete' /\ NoneTrustsItself'
      BY <1>a, <2>2, <3>4, CodesKept, BundlesKept DEF QrInv, NoneTrustsItself
    <3> QED
      BY <2>3, <3>8, <3>9, <3>10 DEF QrInv
  <2>5. CASE d \notin unlocked
    <3>1. UNCHANGED <<vaults, heads, blobs, imported>> /\ pending' = [pending EXCEPT ![d] = t]
      BY <1>6, <2>5 DEF QrReceiveFinish
    <3>2. PeerTypeOK' /\ Grow
      BY <1>a, <1>b, <2>2, <3>1, SameDevices
    <3>3. pending' \in [Device -> 0..Len(bundles)]
      BY <1>b, <2>1, <3>1
    <3> QED
      BY <2>2, <2>3, <3>1, <3>2, <3>3, QuietStep
  <2> QED
    BY <2>4, <2>5
<1>7. ASSUME NEW d \in Device, QrLock(d) \/ QrUnlock(d)
      PROVE  QrInv'
  <2>1. /\ UNCHANGED <<pins, vaults, heads, blobs, asked, codes, bundles, recv, pending, imported>>
        /\ unlocked' \subseteq Device
    BY <1>7, <1>b DEF QrLock, QrUnlock, LockSession, UnlockSession
  <2>2. PeerTypeOK' /\ Grow
    BY <1>a, <2>1, SameDevices
  <2> QED
    BY <1>a, <1>b, <2>1, <2>2, QuietStep DEF CompleteIsKnown
<1>8. ASSUME NEW d \in Device, NEW v \in Vault, QrWrite(d, v)
      PROVE  QrInv'
  <2>1. Write(d, v) /\ UNCHANGED <<asked, codes, bundles, recv, pending, imported>>
    BY <1>8 DEF QrWrite, qvars
  <2>2. PeerTypeOK' /\ Grow
    BY <1>a, <2>1, WriteGrows
  <2> QED
    BY <1>a, <1>b, <2>1, <2>2, QuietStep DEF CompleteIsKnown
<1>9. CASE UNCHANGED <<pvars, qvars>>
  <2>1. UNCHANGED <<unlocked, pins, vaults, heads, blobs, asked, codes, bundles, recv, pending,
                    imported>>
    BY <1>9 DEF pvars, qvars
  <2>2. PeerTypeOK' /\ Grow
    BY <1>a, <1>b, <2>1, SameDevices
  <2> QED
    BY <1>a, <1>b, <2>1, <2>2, QuietStep DEF CompleteIsKnown
<1>10. CASE QrNext
  <2>1. /\ QrSender \subseteq Device /\ QrReceiver \subseteq Device
        /\ \A p \in Editing : p[1] \in Device /\ p[2] \in Vault
    BY QrConstants, PeerConstants
  <2> QED
    BY <1>10, <2>1, <1>1, <1>2, <1>3, <1>4, <1>5, <1>6, <1>7, <1>8, Zenon DEF QrNext
<1> QED
  BY <1>9, <1>10

\* QR sync keeps the invariant.
THEOREM QrInvariance == QrSpec => []QrInv
<1>1. PeerInit /\ QrInit => QrInv
  <2> SUFFICES ASSUME PeerInit, QrInit
               PROVE  QrInv
    OBVIOUS
  <2>1. bundles = <<>> /\ Len(bundles) = 0 /\ codes = {} /\ imported = {}
    BY DEF QrInit
  <2>2. QrTypeOK
    BY <2>1 DEF PeerInit, QrInit, QrTypeOK, Decoder, NoDecoder
  <2>3. CompleteIsKnown
    BY DEF QrInit, CompleteIsKnown, NoDecoder
  <2>4. NoneTrustsItself
    BY DEF PeerInit, NoneTrustsItself
  <2>5. CodesHonest /\ BundlesComplete /\ QrImportDelivers
    BY <2>1 DEF CodesHonest, BundlesComplete, QrImportDelivers
  <2> QED
    BY <2>2, <2>3, <2>4, <2>5 DEF QrInv
<1> QED
  BY <1>1, QrInvStep, PTL DEF QrSpec

\* Whatever a device has imported was delivered in full: the codes it was
\* built from may be old and the streams mixed, and any number of edits,
\* locks and other transfers may come in between.
THEOREM ImportsDeliver == QrSpec => []QrImportDelivers
<1>1. QrInv => QrImportDelivers
  BY DEF QrInv
<1> QED
  BY <1>1, QrInvariance, PTL

\* Over QR codes, too, a vault's key reaches only the device a user asked to
\* share it with: another device that films the same stream adopts nothing.
THEOREM QrSharesAsAsked == QrSpec => SharedOnlyAsAsked
<1>1. ASSUME QrInv, [QrNext]_<<pvars, qvars>>
      PROVE  [\A d \in Device : (vaults'[d] \ vaults[d]) \X {d} \subseteq asked]_<<pvars, asked>>
  <2>1. CASE vaults' = vaults
    BY <2>1
  <2>2. ASSUME NEW d \in Device, QrReceiveFinish(d), vaults' # vaults
        PROVE  \A e \in Device : (vaults'[e] \ vaults[e]) \X {e} \subseteq asked
    <3> DEFINE t == IF pending[d] # 0 THEN pending[d] ELSE recv[d].transfer
    <3>1. t \in 1..Len(bundles)
      <4>1. /\ recv[d] \in Decoder /\ pending[d] \in 0..Len(bundles)
            /\ recv[d].status = "complete" => recv[d].transfer # 0
        BY <1>1 DEF QrInv, QrTypeOK, CompleteIsKnown
      <4> QED
        BY <2>2, <4>1 DEF QrReceiveFinish, Decoder
    <3>2. vaults' = [vaults EXCEPT ![d] = Now(d, bundles[t])]
      <4>1. Import(d, bundles[t])
        BY <2>2 DEF QrReceiveFinish
      <4> QED
        BY <4>1 DEF Import, Now
    <3>3. bundles[t].shares \X {bundles[t].recipient} \subseteq asked
      BY <1>1, <3>1 DEF QrInv, BundlesComplete, SharesAsked
    <3>4. (Now(d, bundles[t]) \ vaults[d]) \X {d} \subseteq asked
      BY <3>3 DEF Now, Adopted
    <3> HIDE DEF t
    <3> QED
      BY <1>1, <3>2, <3>4 DEF QrInv, QrTypeOK, PeerTypeOK
  <2>3. CASE vaults' # vaults
    <3>1. QrNext
      BY <1>1, <2>3 DEF pvars
    <3>2. QrReceiver \subseteq Device
      BY QrConstants
    <3>3. \E d \in QrReceiver : QrReceiveFinish(d)
      <4>1. /\ \A d : QrHaveCode(d) \/ QrSendStop(d) \/ QrReceiveStart(d) \/ TransferTimesOut(d)
                        \/ QrReceiveCancel(d) \/ QrLock(d) \/ QrUnlock(d) => vaults' = vaults
            /\ \A d, v : QrWrite(d, v) => vaults' = vaults
        BY DEF QrHaveCode, QrSendStop, QrReceiveStart, TransferTimesOut, QrReceiveCancel, QrLock,
           QrUnlock, LockSession, UnlockSession, QrWrite, Write, pvars
      <4>2. /\ \A s, opt, have : QrSendStart(s, opt, have) => vaults' = vaults
            /\ \A d, t, e : QrReceiveFrames(d, t, e) => vaults' = vaults
        BY DEF QrSendStart, QrReceiveFrames, pvars
      <4> QED
        BY <2>3, <3>1, <4>1, <4>2, Zenon DEF QrNext
    <3> QED
      BY <2>2, <2>3, <3>2, <3>3
  <2> QED
    BY <2>1, <2>3
<1> QED
  BY <1>1, QrInvariance, PTL DEF QrSpec, SharedOnlyAsAsked

-----------------------------------------------------------------------------
(***************************************************************************)
(* Nearby sync: what the records of a job and the messages are, how the    *)
(* steps of a round follow each other, and what each step changes.         *)
(***************************************************************************)

HandshakeProof == [device : Device, role : {"initiator", "responder"}, link : Job \cup {NoJob}]

(* What a message of a kind carries. *)
BodyType(kind) ==
    CASE kind = "proof" -> HandshakeProof
      [] kind = "hello" -> SUBSET Vault
      [] kind = "inventory" -> Listing
      [] kind = "ops" -> [vault : Vault, ops : SUBSET Op]
      [] kind = "blob" -> Blob
      [] kind = "blob_want" -> SUBSET Blob
      [] OTHER -> {<<>>}

Kind == {"e", "proof", "hello", "inventory", "ops", "ops_end", "blob_want", "blob",
         "blobs_end", "done"}

Msg == UNION {[kind : {k}, body : BodyType(k)] : k \in Kind}

SessionOptions == [expected : Device \cup {NoPeer}, share : SUBSET Vault]

Result == {"none", "synced", "refused", "locked", "lost", "protocol", "too_many_failures",
           "expired", "stopped"}

Place == {"idle", "accepting", "session", "ended"}
Link == Job \cup {NoJob}
RoundNo == 0..6
StepNo == 1..5
Outbox == Seq(Msg)
Todo == SUBSET (Vault \cup Blob)
PeerId == Device \cup {NoPeer}
Got == (SUBSET Vault) \cup HandshakeProof \cup {<<>>}
Buffer == SUBSET (Vault \X Op)
FlushMode == {"no", "more", "end"}
BlobSet == SUBSET Blob

JobRecord ==
    [at : Place, opt : SessionOptions, link : Link, round : RoundNo, step : StepNo,
     out : Outbox, todo : Todo, peer : PeerId, got : Got, mine : Listing, theirs : Listing,
     buf : Buffer, flush : FlushMode, wants : BlobSet, tampered : BlobSet,
     failures : Nat, result : Result]

NearbyTypeOK ==
    /\ PeerTypeOK
    /\ job \in [Job -> JobRecord]
    /\ wire \in [Job -> Seq(Msg)]

(* The steps of a round at which an end writes and reads. *)
SendStep(j, r) ==
    IF r \in {3, 5} THEN IF j \in Dialer THEN 1 ELSE 2
    ELSE IF j \in Dialer THEN 2 ELSE 3

RecvStep(j, r) ==
    IF r \in {3, 5} THEN IF j \in Dialer THEN 2 ELSE 1
    ELSE IF j \in Dialer THEN 3 ELSE 2

(* A job is past step s of round r: it has prepared, written or read the   *)
(* message of that round.                                                  *)
Past(j, r, s) == job[j].round > r \/ (job[j].round = r /\ job[j].step > s)

HasPrepared(j, r) == Past(j, r, 1)
HasSent(j, r) == Past(j, r, SendStep(j, r))
HasRecvd(j, r) == Past(j, r, RecvStep(j, r))

Steps(j, r) ==
    IF r = 0 THEN IF j \in Dialer THEN 4 ELSE 5
    ELSE IF r = 1 THEN 4 ELSE IF r \in {3, 5} THEN 2 ELSE 3
-----------------------------------------------------------------------------
LEMMA FourPhases ==
    ASSUME NEW S, NEW a \in S, NEW b \in S, NEW c \in S, NEW d \in S
    PROVE  <<a, b, c>> \o <<d>> = <<a, b, c, d>>
<1> DEFINE s == <<a, b, c>> \o <<d>>
           t == <<a, b, c, d>>
<1>1. <<a, b, c>> \in Seq(S) /\ <<d>> \in Seq(S) /\ t \in Seq(S)
      /\ Len(<<a, b, c>>) = 3 /\ Len(<<d>>) = 1 /\ Len(t) = 4
  OBVIOUS
<1>2. /\ s \in Seq(S) /\ Len(s) = 4
      /\ \A i \in 1..4 : s[i] = IF i <= 3 THEN <<a, b, c>>[i] ELSE <<d>>[i - 3]
  BY <1>1, ConcatProperties
<1>3. \A i \in 1..4 : s[i] = t[i]
  <2> TAKE i \in 1..4
  <2>1. s[1] = a /\ s[2] = b /\ s[3] = c /\ s[4] = d
    BY <1>2
  <2>2. i \in {1, 2, 3, 4}
    OBVIOUS
  <2> HIDE DEF s
  <2> QED
    BY <2>1, <2>2
<1> HIDE DEF s, t
<1>4. s = t
  BY <1>1, <1>2, <1>3, SeqEqual
<1> QED
  BY <1>4 DEF s, t

LEMMA PhaseTable ==
    ASSUME NEW j \in Job, NEW r \in 0..6
    PROVE  /\ Len(Phases(Role(j), r)) = Steps(j, r)
           /\ r = 0 /\ j \in Dialer => Phases(Role(j), r) = <<"send", "recv", "settle", "send">>
           /\ r = 0 /\ j \notin Dialer =>
                Phases(Role(j), r) = <<"recv", "prep", "send", "recv", "settle">>
           /\ r = 1 /\ j \in Dialer => Phases(Role(j), r) = <<"prep", "send", "recv", "settle">>
           /\ r = 1 /\ j \notin Dialer => Phases(Role(j), r) = <<"prep", "recv", "send", "settle">>
           /\ r \in {2, 4, 6} /\ j \in Dialer => Phases(Role(j), r) = <<"prep", "send", "recv">>
           /\ r \in {2, 4, 6} /\ j \notin Dialer => Phases(Role(j), r) = <<"prep", "recv", "send">>
           /\ r \in {3, 5} /\ j \in Dialer => Phases(Role(j), r) = <<"send", "recv">>
           /\ r \in {3, 5} /\ j \notin Dialer => Phases(Role(j), r) = <<"recv", "send">>
<1>1. CASE r = 0
  BY <1>1 DEF Phases, Role, Steps
<1>2. CASE r \in {3, 5}
  BY <1>2 DEF Phases, Role, Steps, Bulk
<1>3. CASE r = 1
  <2>1. /\ <<"prep", "send", "recv">> \o <<"settle">> = <<"prep", "send", "recv", "settle">>
        /\ <<"prep", "recv", "send">> \o <<"settle">> = <<"prep", "recv", "send", "settle">>
    <3> DEFINE S == {"prep", "send", "recv", "settle"}
    <3>1. "prep" \in S /\ "send" \in S /\ "recv" \in S /\ "settle" \in S
      OBVIOUS
    <3> HIDE DEF S
    <3> QED
      BY <3>1, FourPhases
  <2>2. Phases(Role(j), r) = (IF j \in Dialer THEN <<"prep", "send", "recv">>
                              ELSE <<"prep", "recv", "send">>) \o <<"settle">>
    BY <1>3 DEF Phases, Role
  <2> QED
    BY <1>3, <2>1, <2>2 DEF Steps
<1>4. CASE r \in {2, 4, 6}
  <2>1. /\ <<"prep", "send", "recv">> \o <<>> = <<"prep", "send", "recv">>
        /\ <<"prep", "recv", "send">> \o <<>> = <<"prep", "recv", "send">>
    <3> DEFINE S == {"prep", "send", "recv"}
    <3>1. "prep" \in S /\ "send" \in S /\ "recv" \in S
      OBVIOUS
    <3> HIDE DEF S
    <3>2. <<"prep", "send", "recv">> \in Seq(S) /\ <<"prep", "recv", "send">> \in Seq(S)
      BY <3>1
    <3> QED
      BY <3>2, ConcatEmptySeq
  <2>2. Phases(Role(j), r) = (IF j \in Dialer THEN <<"prep", "send", "recv">>
                              ELSE <<"prep", "recv", "send">>) \o <<>>
    <3>1. r # 0 /\ r \notin {3, 5} /\ r # 1
      BY <1>4
    <3>2. Phases(Role(j), r) = (IF Role(j) = "initiator" THEN <<"prep", "send", "recv">>
                                ELSE <<"prep", "recv", "send">>) \o <<>>
      BY <3>1, Zenon DEF Phases
    <3>3. Role(j) = "initiator" <=> j \in Dialer
      BY DEF Role
    <3> QED
      BY <3>2, <3>3, Zenon
  <2> QED
    BY <1>4, <2>1, <2>2 DEF Steps
<1> QED
  BY <1>1, <1>2, <1>3, <1>4

LEMMA PhaseSteps ==
    ASSUME NEW j \in Job, job[j] \in JobRecord, job[j].step <= Steps(j, job[j].round)
    PROVE  LET r == job[j].round
               s == job[j].step
               dials == j \in Dialer
           IN  /\ Phase(j) = "prep" <=> \/ r = 0 /\ ~dials /\ s = 2
                                        \/ r \in {1, 2, 4, 6} /\ s = 1
               /\ Phase(j) = "send" <=> \/ r = 0 /\ dials /\ s \in {1, 4}
                                        \/ r = 0 /\ ~dials /\ s = 3
                                        \/ r > 0 /\ s = SendStep(j, r)
               /\ Phase(j) = "recv" <=> \/ r = 0 /\ dials /\ s = 2
                                        \/ r = 0 /\ ~dials /\ s \in {1, 4}
                                        \/ r > 0 /\ s = RecvStep(j, r)
               /\ Phase(j) = "settle" <=> \/ r = 0 /\ s = (IF dials THEN 3 ELSE 5)
                                          \/ r = 1 /\ s = 4
<1> DEFINE r == job[j].round
           s == job[j].step
<1>1. r \in 0..6 /\ s \in 1..5 /\ s <= Steps(j, r) /\ Phase(j) = Phases(Role(j), r)[s]
  BY DEF JobRecord, RoundNo, StepNo, Phase
<1>2. CASE r = 0
  <2>1. CASE j \in Dialer
    <3>1. Phase(j) = <<"send", "recv", "settle", "send">>[s] /\ s \in {1, 2, 3, 4}
      BY <1>1, <1>2, <2>1, PhaseTable DEF Steps
    <3> QED
      BY <3>1, <1>2, <2>1
  <2>2. CASE j \notin Dialer
    <3>1. Phase(j) = <<"recv", "prep", "send", "recv", "settle">>[s] /\ s \in {1, 2, 3, 4, 5}
      BY <1>1, <1>2, <2>2, PhaseTable DEF Steps
    <3> QED
      BY <3>1, <1>2, <2>2
  <2> QED
    BY <2>1, <2>2
<1>3. CASE r = 1
  <2>1. Phase(j) = (IF j \in Dialer THEN <<"prep", "send", "recv", "settle">>
                    ELSE <<"prep", "recv", "send", "settle">>)[s] /\ s \in {1, 2, 3, 4}
    BY <1>1, <1>3, PhaseTable DEF Steps
  <2> QED
    BY <2>1, <1>3 DEF SendStep, RecvStep
<1>4. CASE r \in {2, 4, 6}
  <2>1. Phase(j) = (IF j \in Dialer THEN <<"prep", "send", "recv">>
                    ELSE <<"prep", "recv", "send">>)[s] /\ s \in {1, 2, 3}
    BY <1>1, <1>4, PhaseTable DEF Steps
  <2> QED
    BY <2>1, <1>4 DEF SendStep, RecvStep
<1>5. CASE r \in {3, 5}
  <2>1. Phase(j) = (IF j \in Dialer THEN <<"send", "recv">> ELSE <<"recv", "send">>)[s]
        /\ s \in {1, 2}
    BY <1>1, <1>5, PhaseTable DEF Steps
  <2> QED
    BY <2>1, <1>5 DEF SendStep, RecvStep
<1> QED
  BY <1>1, <1>2, <1>3, <1>4, <1>5

(* How a job's place changes: it goes on, or is done after the last round. *)
Stays(a) ==
    /\ job'[a].at = job[a].at /\ job'[a].link = job[a].link /\ job'[a].result = job[a].result
    /\ job'[a].round = job[a].round /\ job'[a].step = job[a].step

GoesOn(a) ==
    /\ job'[a].at = job[a].at /\ job'[a].link = job[a].link /\ job'[a].result = job[a].result
    /\ \/ /\ job[a].step < Steps(a, job[a].round)
          /\ job'[a].round = job[a].round /\ job'[a].step = job[a].step + 1
       \/ /\ job[a].step = Steps(a, job[a].round) /\ job[a].round < 6
          /\ job'[a].round = job[a].round + 1 /\ job'[a].step = 1

IsDone(a) ==
    /\ job'[a].at = "ended" /\ job'[a].link = NoJob /\ job'[a].result = "synced"
    /\ job[a].round = 6 /\ job'[a].round = 6
    /\ job[a].step = Steps(a, 6) /\ job'[a].step = job[a].step

Advances(a) == GoesOn(a) \/ IsDone(a)

(* job'[a] is rec, gone one step on. *)
Becomes(a, rec) ==
    /\ Advances(a) /\ job'[a].step <= Steps(a, job'[a].round)
    /\ job'[a].opt = rec.opt /\ job'[a].out = rec.out /\ job'[a].todo = rec.todo
    /\ job'[a].peer = rec.peer /\ job'[a].got = rec.got /\ job'[a].mine = rec.mine
    /\ job'[a].theirs = rec.theirs /\ job'[a].buf = rec.buf /\ job'[a].flush = rec.flush
    /\ job'[a].wants = rec.wants /\ job'[a].tampered = rec.tampered

OthersStay(a) == \A j \in Job \ {a} : job'[j] = job[j]

LEMMA Replaced ==
    ASSUME NEW a \in Job, job \in [Job -> JobRecord], NEW r \in JobRecord,
           job' = [job EXCEPT ![a] = r]
    PROVE  job' \in [Job -> JobRecord] /\ OthersStay(a) /\ job'[a] = r
BY DEF OthersStay

LEMMA AdvancedRecord ==
    ASSUME NEW a \in Job, job \in [Job -> JobRecord], NEW rec \in JobRecord,
           rec.at = job[a].at, rec.link = job[a].link, rec.result = job[a].result,
           rec.round = job[a].round, rec.step = job[a].step,
           job[a].step <= Steps(a, job[a].round),
           job' = [job EXCEPT ![a] = Advanced(a, rec)]
    PROVE  job' \in [Job -> JobRecord] /\ OthersStay(a) /\ Becomes(a, rec)
<1> DEFINE n == Steps(a, rec.round)
<1>1. rec.round \in 0..6 /\ rec.step \in 1..5 /\ rec.step <= n /\ n \in 1..5
  BY DEF JobRecord, RoundNo, StepNo, Steps
<1>2. Len(Phases(Role(a), rec.round)) = n
  BY <1>1, PhaseTable
<1>3. CASE rec.step < n
  <2> DEFINE r == [rec EXCEPT !.step = rec.step + 1]
  <2>1. Advanced(a, rec) = r
    BY <1>2, <1>3 DEF Advanced
  <2>2. rec.step + 1 \in StepNo
    BY <1>1, <1>3 DEF StepNo
  <2>3. r \in JobRecord
    BY <2>2 DEF JobRecord
  <2>4. job' \in [Job -> JobRecord] /\ OthersStay(a) /\ job'[a] = r
    BY <2>1, <2>3, Replaced
  <2>5. Advances(a) /\ r.step <= Steps(a, r.round)
    BY <1>1, <1>3, <2>4 DEF Advances, GoesOn, JobRecord
  <2> QED
    BY <2>4, <2>5 DEF Becomes, JobRecord
<1>4. CASE rec.step = n /\ rec.round < 6
  <2> DEFINE r == [rec EXCEPT !.round = rec.round + 1, !.step = 1]
  <2>1. Advanced(a, rec) = r
    BY <1>1, <1>2, <1>4 DEF Advanced, LastRound
  <2>2. rec.round + 1 \in RoundNo /\ 1 \in StepNo
    BY <1>1, <1>4 DEF RoundNo, StepNo
  <2>3. r \in JobRecord
    BY <2>2 DEF JobRecord
  <2>4. job' \in [Job -> JobRecord] /\ OthersStay(a) /\ job'[a] = r
    BY <2>1, <2>3, Replaced
  <2>5. r.round = rec.round + 1 /\ r.step = 1 /\ r.at = rec.at /\ r.link = rec.link
        /\ r.result = rec.result /\ 1 <= Steps(a, rec.round + 1)
    BY DEF JobRecord, Steps
  <2>6. Advances(a)
    BY <1>1, <1>4, <2>4, <2>5 DEF Advances, GoesOn
  <2> QED
    BY <2>4, <2>5, <2>6 DEF Becomes, JobRecord
<1>5. CASE rec.step = n /\ rec.round = 6
  <2> DEFINE r == [rec EXCEPT !.at = "ended", !.link = NoJob, !.result = "synced"]
  <2>1. Advanced(a, rec) = r
    BY <1>1, <1>2, <1>5 DEF Advanced, LastRound
  <2>2. "ended" \in Place /\ NoJob \in Link /\ "synced" \in Result
    BY DEF Place, Link, Result
  <2>3. r \in JobRecord
    BY <2>2 DEF JobRecord
  <2>4. job' \in [Job -> JobRecord] /\ OthersStay(a) /\ job'[a] = r
    BY <2>1, <2>3, Replaced
  <2>5. r.round = rec.round /\ r.step = rec.step /\ r.at = "ended" /\ r.link = NoJob
        /\ r.result = "synced"
    BY DEF JobRecord
  <2>6. Advances(a)
    BY <1>1, <1>5, <2>4, <2>5 DEF Advances, IsDone
  <2> QED
    BY <1>1, <2>4, <2>5, <2>6 DEF Becomes, JobRecord
<1> QED
  BY <1>1, <1>3, <1>4, <1>5

-----------------------------------------------------------------------------
LEMMA MsgFacts ==
    /\ \A m \in Msg : m.kind \in Kind /\ m.body \in BodyType(m.kind)
    /\ \A k \in Kind : \A b \in BodyType(k) : Message(k, b) \in Msg
<1>1. ASSUME NEW m \in Msg
      PROVE  m.kind \in Kind /\ m.body \in BodyType(m.kind)
  <2>1. PICK k \in Kind : m \in [kind : {k}, body : BodyType(k)]
    BY DEF Msg
  <2> QED
    BY <2>1
<1>2. ASSUME NEW k \in Kind, NEW b \in BodyType(k)
      PROVE  Message(k, b) \in Msg
  <2>1. Message(k, b) \in [kind : {k}, body : BodyType(k)]
    BY <1>2 DEF Message
  <2> QED
    BY <2>1 DEF Msg
<1> QED
  BY <1>1, <1>2

LEMMA Bodies ==
    /\ BodyType("proof") = HandshakeProof /\ BodyType("hello") = SUBSET Vault
    /\ BodyType("inventory") = Listing /\ BodyType("ops") = [vault : Vault, ops : SUBSET Op]
    /\ BodyType("blob") = Blob /\ BodyType("blob_want") = SUBSET Blob
    /\ BodyType("e") = {<<>>} /\ BodyType("ops_end") = {<<>>} /\ BodyType("blobs_end") = {<<>>}
    /\ BodyType("done") = {<<>>}
BY DEF BodyType
-----------------------------------------------------------------------------
InSession(j) == job[j].at = "session"

(* Where a job can be, and what one without a connection has. *)
Placed(j) ==
    /\ InSession(j) <=> job[j].link # NoJob
    /\ InSession(j) => job[j].link \in IF j \in Dialer THEN Listener ELSE Dialer
    /\ job[j].at \in {"idle", "accepting"} =>
          /\ job[j].round = 0 /\ job[j].step = 1 /\ wire[j] = <<>> /\ job[j].out = <<>>
          /\ job[j].todo = {} /\ job[j].buf = {} /\ job[j].flush = "no"
    /\ job[j].at = "accepting" => j \in Listener
    /\ job[j].step <= Steps(j, job[j].round)
    /\ job[j].result = "synced" => job[j].at = "ended" /\ job[j].round = 6

(* What a user gave a job to share was asked for, by name. *)
ShareAsked(j) ==
    Sharable(job[j].opt) /\ job[j].opt.share \X {job[j].opt.expected} \subseteq asked

(* An end that has verified the proof knows who is at the other end, and   *)
(* shares nothing that was meant for another.                              *)
Vouched(j) == job[j].round >= 1 \/ (j \in Dialer /\ job[j].step = 4)

PeerKnown(j) ==
    InSession(j) /\ Vouched(j) =>
        /\ job[j].peer = Me(job[j].link)
        /\ job[j].opt.share \X {job[j].peer} \subseteq asked

(* A message between two devices: a proof is the sender's, and keys are    *)
(* for the receiver.                                                       *)
MsgFrom(m, sender, receiver) ==
    /\ m.kind = "proof" => m.body.device = sender
    /\ m.kind = "hello" => m.body \X {receiver} \subseteq asked

OutShares(j) ==
    InSession(j) =>
        \A i \in 1..Len(job[j].out) : MsgFrom(job[j].out[i], Me(j), Me(job[j].link))

WireShares(j) ==
    InSession(j) =>
        \A i \in 1..Len(wire[j]) : MsgFrom(wire[j][i], Me(job[j].link), Me(j))

(* What was read and waits to be looked at. *)
GotGood(j) ==
    InSession(j) =>
        /\ job[j].round = 0 /\ job[j].step = (IF j \in Dialer THEN 3 ELSE 5) =>
                job[j].got \in HandshakeProof /\ job[j].got.device = Me(job[j].link)
        /\ job[j].round = 1 /\ job[j].step > RecvStep(j, 1) =>
                job[j].got \subseteq Vault /\ job[j].got \X {Me(j)} \subseteq asked

(* The vaults whose operations are still to be sent. *)
TodoGood(j) ==
    InSession(j) =>
        /\ ~HasRecvd(j, 2) => job[j].todo = {}
        /\ job[j].round = 2 /\ HasRecvd(j, 2) => job[j].todo = Common(j)
        /\ job[j].round = 3 => job[j].todo \subseteq Common(j)

(* Operations are buffered while they are read, and at no other time. *)
BufGood(j) ==
    InSession(j) =>
        /\ job[j].buf # {} \/ job[j].flush # "no" =>
                job[j].round = 3 /\ job[j].step = RecvStep(j, 3)
        /\ \A x \in job[j].buf : x[1] \in Common(j)

Sharing(j) ==
    /\ Placed(j) /\ ShareAsked(j) /\ PeerKnown(j)
    /\ OutShares(j) /\ WireShares(j) /\ GotGood(j)
    /\ TodoGood(j) /\ BufGood(j)

SharingInv == NearbyTypeOK /\ \A j \in Job : Sharing(j)

OtherWires(a) == \A j \in Job \ {a} : wire'[j] = wire[j]

LEMMA SharingKept ==
    ASSUME NEW j \in Job, Sharing(j), job'[j] = job[j], wire'[j] = wire[j], asked \subseteq asked'
    PROVE  Sharing(j)'
<1>1. Placed(j)'
  BY DEF Sharing, Placed, InSession
<1>2. ShareAsked(j)'
  BY DEF Sharing, ShareAsked
<1>3. PeerKnown(j)'
  BY DEF Sharing, PeerKnown, InSession, Vouched, Me
<1>4. OutShares(j)'
  BY DEF Sharing, OutShares, InSession, MsgFrom, Me
<1>5. WireShares(j)'
  BY DEF Sharing, WireShares, InSession, MsgFrom, Me
<1>6. GotGood(j)'
  BY DEF Sharing, GotGood, InSession, Me
<1>7. TodoGood(j)'
  BY DEF Sharing, TodoGood, InSession, Common, HasRecvd, Past
<1>8. BufGood(j)'
  BY DEF Sharing, BufGood, InSession, Common
<1> QED
  BY <1>1, <1>2, <1>3, <1>4, <1>5, <1>6, <1>7, <1>8 DEF Sharing

LEMMA SharingStep ==
    ASSUME SharingInv, NearbyTypeOK', NEW a \in Job, OthersStay(a), OtherWires(a),
           asked \subseteq asked', Sharing(a)'
    PROVE  SharingInv'
<1>1. ASSUME NEW j \in Job, j # a
      PROVE  Sharing(j)'
  BY <1>1, SharingKept DEF SharingInv, OthersStay, OtherWires
<1> QED
  BY <1>1 DEF SharingInv

(* A job that failed is not connected any more. *)
IsOut(a) ==
    /\ job'[a].link = NoJob /\ job'[a].at \in {"ended", "accepting"} /\ wire'[a] = <<>>
    /\ job'[a].result # "synced" /\ job'[a].opt = job[a].opt
    /\ job'[a].step <= Steps(a, job'[a].round)
    /\ job'[a].at = "accepting" =>
          /\ a \in Listener /\ job'[a].round = 0 /\ job'[a].step = 1 /\ job'[a].out = <<>>
          /\ job'[a].todo = {} /\ job'[a].buf = {} /\ job'[a].flush = "no"

LEMMA FreshRecord ==
    ASSUME NEW opt \in SessionOptions
    PROVE  Fresh(opt) \in JobRecord
<1>1. /\ "idle" \in Place /\ NoJob \in Link /\ 0 \in RoundNo /\ 1 \in StepNo /\ <<>> \in Outbox
      /\ {} \in Todo /\ NoPeer \in PeerId /\ <<>> \in Got /\ {} \in Buffer /\ "no" \in FlushMode
      /\ {} \in BlobSet /\ 0 \in Nat /\ "none" \in Result
  BY DEF Place, Link, RoundNo, StepNo, Outbox, Todo, PeerId, Got, Buffer, FlushMode, BlobSet, Result
<1>2. <<>> \in Listing
  <2>1. <<>> \in [{} -> Heads] /\ {} \in SUBSET Vault
    OBVIOUS
  <2> QED
    BY <2>1 DEF Listing
<1> QED
  BY <1>1, <1>2 DEF Fresh, JobRecord

LEMMA FailedRecord ==
    ASSUME NearbyTypeOK, NEW a \in Job, Placed(a), NEW why \in Result, why # "synced", Fail(a, why)
    PROVE  /\ job' \in [Job -> JobRecord] /\ wire' \in [Job -> Seq(Msg)]
           /\ OthersStay(a) /\ OtherWires(a) /\ IsOut(a)
<1>1. job[a] \in JobRecord /\ job \in [Job -> JobRecord] /\ wire \in [Job -> Seq(Msg)]
  BY DEF NearbyTypeOK
<1>2. "ended" \in Place /\ NoJob \in Link /\ "too_many_failures" \in Result
      /\ "accepting" \in Place
  BY DEF Place, Link, Result
<1>3. \A w \in Result : Ended(a, w) \in JobRecord
  BY <1>1, <1>2 DEF Ended, JobRecord
<1>4. wire' \in [Job -> Seq(Msg)] /\ OtherWires(a) /\ wire'[a] = <<>>
  BY <1>1 DEF Fail, OtherWires
<1>5. ASSUME NEW w \in Result, w # "synced", Failed(a, why) = Ended(a, w)
      PROVE  job' \in [Job -> JobRecord] /\ OthersStay(a) /\ IsOut(a)
  <2>1. job' = [job EXCEPT ![a] = Ended(a, w)]
    BY <1>5 DEF Fail
  <2>2. job' \in [Job -> JobRecord] /\ OthersStay(a) /\ job'[a] = Ended(a, w)
    BY <1>1, <1>3, <2>1, Replaced
  <2> QED
    BY <1>1, <1>4, <1>5, <2>2 DEF IsOut, Ended, JobRecord, Placed
<1>6. CASE a \in Listener /\ job[a].round = 0 /\ ~(job[a].failures + 1 >= MaxFailedHandshakes)
  <2> DEFINE r == [Fresh(job[a].opt) EXCEPT !.at = "accepting", !.failures = job[a].failures + 1]
  <2>1. job' = [job EXCEPT ![a] = r]
    BY <1>6 DEF Fail, Failed
  <2>2. r \in JobRecord
    <3>1. Fresh(job[a].opt) \in JobRecord /\ job[a].failures + 1 \in Nat
      BY <1>1, FreshRecord DEF JobRecord
    <3> QED
      BY <3>1, <1>2 DEF JobRecord
  <2>3. job' \in [Job -> JobRecord] /\ OthersStay(a) /\ job'[a] = r
    BY <1>1, <2>1, <2>2, Replaced
  <2>4. 1 <= Steps(a, 0)
    BY DEF Steps
  <2> QED
    BY <1>4, <1>6, <2>3, <2>4 DEF IsOut, Fresh
<1>7. CASE ~(a \in Listener /\ job[a].round = 0 /\ ~(job[a].failures + 1 >= MaxFailedHandshakes))
  <2>1. Failed(a, why) = Ended(a, why) \/ Failed(a, why) = Ended(a, "too_many_failures")
    BY <1>7 DEF Failed
  <2> QED
    BY <1>2, <1>4, <1>5, <2>1
<1> QED
  BY <1>4, <1>6, <1>7

LEMMA FailShares ==
    ASSUME SharingInv, NEW a \in Job, NEW why \in Result, why # "synced", Fail(a, why),
           UNCHANGED <<pvars, asked>>
    PROVE  SharingInv'
<1>1. /\ job' \in [Job -> JobRecord] /\ wire' \in [Job -> Seq(Msg)]
      /\ OthersStay(a) /\ OtherWires(a) /\ IsOut(a)
  BY FailedRecord DEF SharingInv, Sharing
<1>2. NearbyTypeOK'
  BY <1>1 DEF NearbyTypeOK, SharingInv, PeerTypeOK, pvars
<1>3. Sharing(a)'
  BY <1>1 DEF SharingInv, Sharing, Placed, ShareAsked, PeerKnown, OutShares, WireShares, GotGood,
              TodoGood, BufGood, InSession, IsOut
<1> QED
  BY <1>1, <1>2, <1>3, SharingStep

-----------------------------------------------------------------------------
KeepsPeer(a) == job'[a].opt = job[a].opt /\ job'[a].peer = job[a].peer
KeepsLists(a) == job'[a].mine = job[a].mine /\ job'[a].theirs = job[a].theirs
KeepsBuf(a) == job'[a].buf = job[a].buf /\ job'[a].flush = job[a].flush
KeepsBlobs(a) == job'[a].wants = job[a].wants /\ job'[a].tampered = job[a].tampered

(* The fields of a record. *)
LEMMA JobFields ==
    ASSUME NEW r \in JobRecord
    PROVE  /\ r.at \in Place /\ r.opt.share \subseteq Vault
           /\ r.opt.expected \in Device \cup {NoPeer}
           /\ r.link \in Job \cup {NoJob} /\ r.round \in 0..6 /\ r.step \in 1..5
           /\ r.out \in Seq(Msg) /\ r.todo \subseteq Vault \cup Blob
           /\ DOMAIN r.mine \subseteq Vault /\ DOMAIN r.theirs \subseteq Vault
           /\ \A v \in DOMAIN r.mine : r.mine[v] \in Heads
           /\ \A v \in DOMAIN r.theirs : r.theirs[v] \in Heads
           /\ r.buf \subseteq Vault \X Op /\ r.flush \in {"no", "more", "end"}
           /\ r.wants \subseteq Blob /\ r.tampered \subseteq Blob
<1>1. /\ r.at \in Place /\ r.opt \in SessionOptions /\ r.link \in Link /\ r.round \in RoundNo
      /\ r.step \in StepNo /\ r.out \in Outbox /\ r.todo \in Todo /\ r.mine \in Listing
      /\ r.theirs \in Listing /\ r.buf \in Buffer /\ r.flush \in FlushMode /\ r.wants \in BlobSet
      /\ r.tampered \in BlobSet
  BY DEF JobRecord
<1>2. \A l \in Listing : DOMAIN l \subseteq Vault /\ \A v \in DOMAIN l : l[v] \in Heads
  BY DEF Listing
<1>3. r.opt.share \subseteq Vault /\ r.opt.expected \in Device \cup {NoPeer}
  BY <1>1 DEF SessionOptions
<1> QED
  BY <1>1, <1>2, <1>3 DEF Link, RoundNo, StepNo, Outbox, Todo, Buffer, FlushMode, BlobSet

LEMMA OwnerIsDevice == \A j \in Job : Me(j) \in Device
BY NearbyConstants DEF Me

(* Every device is typed as it was. *)
LEMMA TypesKept ==
    ASSUME NearbyTypeOK, UNCHANGED pvars, job' \in [Job -> JobRecord], wire' \in [Job -> Seq(Msg)]
    PROVE  NearbyTypeOK'
BY DEF NearbyTypeOK, PeerTypeOK, pvars

LEMMA WantsAreBlobs ==
    ASSUME NearbyTypeOK, NEW a \in Job
    PROVE  BlobWants(Me(a), Common(a)) \subseteq Blob
<1>1. Common(a) \subseteq Vault
  BY JobFields DEF Common, NearbyTypeOK
<1>2. ASSUME NEW v \in Vault PROVE Referenced(Me(a), v) \subseteq Blob
  BY PeerConstants DEF Referenced, ReferencedUpTo, Blob
<1> QED
  BY <1>1, <1>2 DEF BlobWants

LEMMA PreparedIsMsg ==
    ASSUME NearbyTypeOK, NEW a \in Job, job[a].round \in {0, 1, 2, 4, 6}
    PROVE  /\ Prepared(a) \in Msg
           /\ Prepared(a).kind = CASE job[a].round = 0 -> "proof" [] job[a].round = 1 -> "hello"
                                   [] job[a].round = 2 -> "inventory"
                                   [] job[a].round = 4 -> "blob_want" [] job[a].round = 6 -> "done"
           /\ job[a].round = 0 => Prepared(a).body.device = Me(a)
           /\ job[a].round = 1 => Prepared(a).body = job[a].opt.share
           /\ job[a].round = 2 => Prepared(a).body = Inventory(Me(a))
           /\ job[a].round = 4 => Prepared(a).body = BlobWants(Me(a), Common(a))
<1>1. job[a] \in JobRecord /\ Me(a) \in Device
  BY OwnerIsDevice DEF NearbyTypeOK
<1>2. CASE job[a].round = 0
  <2>1. Prepared(a) = Message("proof", MakeProof(a))
    BY <1>2 DEF Prepared, LastRound
  <2>2. MakeProof(a) \in HandshakeProof
    BY <1>1, JobFields DEF MakeProof, HandshakeProof, Role
  <2>3. Message("proof", MakeProof(a)) \in Msg
    BY <2>2, MsgFacts, Bodies DEF Kind
  <2> QED
    BY <1>2, <2>1, <2>3 DEF Message, MakeProof
<1>3. CASE job[a].round = 1
  <2>1. Prepared(a) = Message("hello", job[a].opt.share)
    BY <1>3 DEF Prepared, LastRound
  <2>2. Message("hello", job[a].opt.share) \in Msg
    <3>1. job[a].opt.share \in SUBSET Vault
      BY <1>1, JobFields
    <3> QED
      BY <3>1, MsgFacts, Bodies DEF Kind
  <2> QED
    BY <1>3, <2>1, <2>2 DEF Message
<1>4. CASE job[a].round = 2
  <2>1. Prepared(a) = Message("inventory", Inventory(Me(a)))
    BY <1>4 DEF Prepared, LastRound
  <2>2. Inventory(Me(a)) \in Listing
    <3>1. vaults[Me(a)] \in SUBSET Vault /\ Inventory(Me(a)) \in [vaults[Me(a)] -> Heads]
      BY <1>1 DEF NearbyTypeOK, PeerTypeOK, Inventory, VaultHeads
    <3> QED
      BY <3>1 DEF Listing
  <2>3. Message("inventory", Inventory(Me(a))) \in Msg
    BY <2>2, MsgFacts, Bodies DEF Kind
  <2> QED
    BY <1>4, <2>1, <2>3 DEF Message
<1>5. CASE job[a].round = 4
  <2>1. Prepared(a) = Message("blob_want", BlobWants(Me(a), Common(a)))
    BY <1>5 DEF Prepared, LastRound
  <2>2. Message("blob_want", BlobWants(Me(a), Common(a))) \in Msg
    <3>1. BlobWants(Me(a), Common(a)) \in SUBSET Blob
      BY WantsAreBlobs
    <3> QED
      BY <3>1, MsgFacts, Bodies DEF Kind
  <2> QED
    BY <1>5, <2>1, <2>2 DEF Message
<1>6. CASE job[a].round = 6
  <2>1. Prepared(a) = Message("done", <<>>)
    BY <1>6 DEF Prepared, LastRound
  <2>2. Message("done", <<>>) \in Msg
    BY MsgFacts, Bodies DEF Kind
  <2> QED
    BY <1>6, <2>1, <2>2 DEF Message
<1> QED
  BY <1>2, <1>3, <1>4, <1>5, <1>6

(* What the actions do to the fields of a job. *)
LEMMA PrepFields ==
    ASSUME NearbyTypeOK, NEW a \in Job, Placed(a), Prep(a)
    PROVE  /\ NearbyTypeOK' /\ OthersStay(a) /\ wire' = wire /\ asked' = asked /\ UNCHANGED pvars
           /\ InSession(a) /\ Advances(a) /\ job'[a].step <= Steps(a, job'[a].round)
           /\ \/ job[a].round = 0 /\ a \notin Dialer /\ job[a].step = 2
              \/ job[a].round \in {1, 2, 4, 6} /\ job[a].step = 1
           /\ Prepared(a) \in Msg /\ job'[a].out = <<Prepared(a)>>
           /\ job'[a].mine = IF job[a].round = 2 THEN Prepared(a).body ELSE job[a].mine
           /\ job'[a].wants = IF job[a].round = 4 THEN Prepared(a).body ELSE job[a].wants
           /\ KeepsPeer(a) /\ KeepsBuf(a) /\ job'[a].theirs = job[a].theirs
           /\ job'[a].tampered = job[a].tampered /\ job'[a].todo = job[a].todo
           /\ job'[a].got = job[a].got
<1> DEFINE m == Prepared(a)
           rec == [job[a] EXCEPT !.out = <<m>>,
                                 !.mine = IF m.kind = "inventory" THEN m.body ELSE @,
                                 !.wants = IF m.kind = "blob_want" THEN m.body ELSE @]
<1>1. job \in [Job -> JobRecord] /\ job[a] \in JobRecord /\ wire \in [Job -> Seq(Msg)]
  BY DEF NearbyTypeOK
<1>2. InSession(a) /\ Phase(a) = "prep" /\ job[a].step <= Steps(a, job[a].round)
      /\ job' = [job EXCEPT ![a] = Advanced(a, rec)] /\ wire' = wire /\ asked' = asked
      /\ UNCHANGED pvars
  <2>1. InSession(a) /\ Phase(a) = "prep" /\ job[a].step <= Steps(a, job[a].round)
    BY DEF Prep, In, Running, InSession, Placed
  <2>2. job' = [job EXCEPT ![a] = Advanced(a, rec)]
    BY DEF Prep
  <2>3. wire' = wire /\ asked' = asked /\ UNCHANGED pvars
    BY DEF Prep
  <2> QED
    BY <2>1, <2>2, <2>3
<1>3. \/ job[a].round = 0 /\ a \notin Dialer /\ job[a].step = 2
      \/ job[a].round \in {1, 2, 4, 6} /\ job[a].step = 1
  BY <1>1, <1>2, PhaseSteps
<1>4. /\ m \in Msg /\ (m.kind = "inventory" <=> job[a].round = 2)
      /\ (m.kind = "blob_want" <=> job[a].round = 4)
      /\ m.body \in BodyType(m.kind)
  BY <1>3, PreparedIsMsg, MsgFacts
<1> HIDE DEF m
<1>5. /\ <<m>> \in Outbox
      /\ (IF m.kind = "inventory" THEN m.body ELSE job[a].mine) \in Listing
      /\ (IF m.kind = "blob_want" THEN m.body ELSE job[a].wants) \in BlobSet
  BY <1>1, <1>4, Bodies DEF Outbox, BlobSet, JobRecord
<1>6. rec \in JobRecord
  BY <1>1, <1>5 DEF JobRecord
<1>7. /\ rec.at = job[a].at /\ rec.link = job[a].link /\ rec.result = job[a].result
      /\ rec.round = job[a].round /\ rec.step = job[a].step
      /\ rec.opt = job[a].opt /\ rec.out = <<m>> /\ rec.todo = job[a].todo
      /\ rec.peer = job[a].peer /\ rec.got = job[a].got /\ rec.theirs = job[a].theirs
      /\ rec.buf = job[a].buf /\ rec.flush = job[a].flush /\ rec.tampered = job[a].tampered
      /\ rec.mine = IF m.kind = "inventory" THEN m.body ELSE job[a].mine
      /\ rec.wants = IF m.kind = "blob_want" THEN m.body ELSE job[a].wants
  BY <1>1 DEF JobRecord
<1> HIDE DEF rec
<1>8. job' \in [Job -> JobRecord] /\ OthersStay(a) /\ Becomes(a, rec)
  BY <1>1, <1>2, <1>6, <1>7, AdvancedRecord
<1>9. NearbyTypeOK'
  BY <1>1, <1>2, <1>8, TypesKept
<1> QED
  BY <1>2, <1>3, <1>4, <1>7, <1>8, <1>9 DEF Becomes, KeepsPeer, KeepsBuf, m

LEMMA Patched ==
    ASSUME NEW a \in Job, job \in [Job -> JobRecord], NEW rec \in JobRecord,
           rec.at = job[a].at, rec.link = job[a].link, rec.result = job[a].result,
           rec.round = job[a].round, rec.step = job[a].step, job' = [job EXCEPT ![a] = rec]
    PROVE  job' \in [Job -> JobRecord] /\ OthersStay(a) /\ job'[a] = rec /\ Stays(a)
BY Replaced DEF Stays

LEMMA LeastVault ==
    ASSUME NEW S \in SUBSET Nat, S # {}
    PROVE  Min(S) \in S
<1>1. \E k \in S : \A y \in S : ~(<<y, k>> \in OpToRel(<, Nat))
  <2>1. IsWellFoundedOn(OpToRel(<, Nat), Nat)
    BY NatLessThanWellFounded
  <2> QED
    BY <2>1, WFMin, Zenon
<1>2. PICK k \in S : \A y \in S : ~(<<y, k>> \in OpToRel(<, Nat))
  BY <1>1
<1>3. \A y \in S : k <= y
  <2> TAKE y \in S
  <2>1. y \in Nat /\ k \in Nat
    OBVIOUS
  <2>2. <<y, k>> \in {ss \in Nat \X Nat : ss[1] < ss[2]} <=> y < k
    BY <2>1
  <2>3. ~(<<y, k>> \in {ss \in Nat \X Nat : ss[1] < ss[2]})
    BY <1>2, Zenon DEF OpToRel
  <2> QED
    BY <2>1, <2>2, <2>3
<1> QED
  BY <1>3 DEF Min

LEMMA SettleFields ==
    ASSUME NearbyTypeOK, NEW a \in Job, Placed(a), SettleHandshake(a),
           job[a].got \in HandshakeProof, VerifyProof(a, job[a].got)
    PROVE  /\ NearbyTypeOK' /\ OthersStay(a) /\ wire' = wire /\ asked' = asked /\ UNCHANGED pvars
           /\ InSession(a) /\ Advances(a) /\ job'[a].step <= Steps(a, job'[a].round)
           /\ job[a].round = 0 /\ job[a].step = (IF a \in Dialer THEN 3 ELSE 5)
           /\ job'[a].out = IF a \in Dialer THEN <<Message("proof", MakeProof(a))>> ELSE job[a].out
           /\ Message("proof", MakeProof(a)) \in Msg
           /\ job'[a].opt = job[a].opt /\ job'[a].peer = job[a].got.device
           /\ KeepsLists(a) /\ KeepsBuf(a) /\ KeepsBlobs(a) /\ job'[a].todo = job[a].todo
<1> DEFINE out == IF a \in Dialer THEN <<Message("proof", MakeProof(a))>> ELSE job[a].out
           rec == [job[a] EXCEPT !.peer = job[a].got.device, !.got = <<>>, !.out = out]
           old == [job[a] EXCEPT !.peer = job[a].got.device, !.got = <<>>]
<1>1. job \in [Job -> JobRecord] /\ job[a] \in JobRecord /\ wire \in [Job -> Seq(Msg)]
  BY DEF NearbyTypeOK
<1>2. /\ InSession(a) /\ Phase(a) = "settle" /\ job[a].step <= Steps(a, job[a].round)
      /\ job[a].round = 0 /\ wire' = wire /\ asked' = asked /\ UNCHANGED pvars
  BY DEF SettleHandshake, In, Running, InSession, Placed
<1>3. job[a].step = (IF a \in Dialer THEN 3 ELSE 5)
  BY <1>1, <1>2, PhaseSteps
<1>4. job' = [job EXCEPT ![a] = Advanced(a,
                IF a \in Dialer THEN [old EXCEPT !.out = <<Message("proof", MakeProof(a))>>]
                ELSE old)]
  BY DEF SettleHandshake
<1>5. (IF a \in Dialer THEN [old EXCEPT !.out = <<Message("proof", MakeProof(a))>>] ELSE old) = rec
  BY <1>1 DEF JobRecord
<1>6. Message("proof", MakeProof(a)) \in Msg
  <2>1. MakeProof(a) \in HandshakeProof
    BY <1>1, JobFields, OwnerIsDevice DEF MakeProof, HandshakeProof, Role
  <2> QED
    BY <2>1, MsgFacts, Bodies DEF Kind
<1>7. rec \in JobRecord
  <2>1. out \in Outbox
    BY <1>1, <1>6 DEF Outbox, JobRecord
  <2>2. job[a].got.device \in PeerId /\ <<>> \in Got
    BY DEF PeerId, Got, HandshakeProof
  <2> HIDE DEF out
  <2> QED
    BY <1>1, <2>1, <2>2 DEF JobRecord
<1> HIDE DEF out
<1>8. /\ rec.at = job[a].at /\ rec.link = job[a].link /\ rec.result = job[a].result
      /\ rec.round = job[a].round /\ rec.step = job[a].step
      /\ rec.opt = job[a].opt /\ rec.out = out /\ rec.todo = job[a].todo
      /\ rec.peer = job[a].got.device /\ rec.mine = job[a].mine /\ rec.theirs = job[a].theirs
      /\ rec.buf = job[a].buf /\ rec.flush = job[a].flush /\ rec.tampered = job[a].tampered
      /\ rec.wants = job[a].wants
  BY <1>1 DEF JobRecord
<1>9. job' = [job EXCEPT ![a] = Advanced(a, rec)]
  BY <1>4, <1>5, Zenon
<1> HIDE DEF rec, old
<1>10. job' \in [Job -> JobRecord] /\ OthersStay(a) /\ Becomes(a, rec)
  BY <1>1, <1>2, <1>7, <1>8, <1>9, AdvancedRecord
<1>11. NearbyTypeOK'
  BY <1>1, <1>2, <1>10, TypesKept
<1> QED
  BY <1>2, <1>3, <1>6, <1>8, <1>10, <1>11
     DEF Becomes, KeepsLists, KeepsBuf, KeepsBlobs, out

LEMMA SettleSharesFields ==
    ASSUME NearbyTypeOK, NEW a \in Job, Placed(a), SettleShares(a), job[a].got \subseteq Vault
    PROVE  /\ NearbyTypeOK' /\ OthersStay(a) /\ wire' = wire /\ asked' = asked
           /\ UNCHANGED <<unlocked, pins, heads, blobs>>
           /\ vaults' = [vaults EXCEPT ![Me(a)] = Adopted(Me(a), job[a].peer, job[a].got)]
           /\ InSession(a) /\ Advances(a) /\ job'[a].step <= Steps(a, job'[a].round)
           /\ job[a].round = 1 /\ job[a].step = 4
           /\ KeepsPeer(a) /\ KeepsLists(a) /\ KeepsBuf(a) /\ KeepsBlobs(a)
           /\ job'[a].todo = job[a].todo /\ job'[a].out = job[a].out
<1> DEFINE rec == [job[a] EXCEPT !.got = <<>>]
<1>1. job \in [Job -> JobRecord] /\ job[a] \in JobRecord /\ wire \in [Job -> Seq(Msg)]
      /\ PeerTypeOK
  BY DEF NearbyTypeOK
<1>2. /\ InSession(a) /\ Phase(a) = "settle" /\ job[a].step <= Steps(a, job[a].round)
      /\ job[a].round = 1 /\ wire' = wire /\ asked' = asked
      /\ UNCHANGED <<unlocked, pins, heads, blobs>>
      /\ vaults' = [vaults EXCEPT ![Me(a)] = Adopted(Me(a), job[a].peer, job[a].got)]
      /\ job' = [job EXCEPT ![a] = Advanced(a, rec)]
  BY DEF SettleShares, In, Running, InSession, Placed
<1>3. job[a].step = 4
  BY <1>1, <1>2, PhaseSteps
<1>4. rec \in JobRecord
  <2>1. <<>> \in Got
    BY DEF Got
  <2> QED
    BY <1>1, <2>1 DEF JobRecord
<1>5. /\ rec.at = job[a].at /\ rec.link = job[a].link /\ rec.result = job[a].result
      /\ rec.round = job[a].round /\ rec.step = job[a].step
      /\ rec.opt = job[a].opt /\ rec.out = job[a].out /\ rec.todo = job[a].todo
      /\ rec.peer = job[a].peer /\ rec.mine = job[a].mine /\ rec.theirs = job[a].theirs
      /\ rec.buf = job[a].buf /\ rec.flush = job[a].flush /\ rec.tampered = job[a].tampered
      /\ rec.wants = job[a].wants
  BY <1>1 DEF JobRecord
<1> HIDE DEF rec
<1>6. job' \in [Job -> JobRecord] /\ OthersStay(a) /\ Becomes(a, rec)
  BY <1>1, <1>2, <1>4, <1>5, AdvancedRecord
<1>7. PeerTypeOK'
  <2>1. Adopted(Me(a), job[a].peer, job[a].got) \subseteq Vault
    BY <1>1, OwnerIsDevice DEF Adopted, PeerTypeOK
  <2> HIDE DEF Adopted
  <2> QED
    BY <1>1, <1>2, <2>1 DEF PeerTypeOK
<1>8. NearbyTypeOK'
  BY <1>1, <1>2, <1>6, <1>7 DEF NearbyTypeOK
<1> QED
  BY <1>2, <1>3, <1>5, <1>6, <1>8
     DEF Becomes, KeepsPeer, KeepsLists, KeepsBuf, KeepsBlobs

LEMMA SendFields ==
    ASSUME NearbyTypeOK, NEW a \in Job, Placed(a), Send(a)
    PROVE  LET m == Head(job[a].out)
               to == job[a].link
           IN  /\ NearbyTypeOK' /\ OthersStay(a) /\ asked' = asked /\ UNCHANGED pvars
               /\ InSession(a) /\ m \in Msg /\ job[a].out # <<>> /\ to \in Job
               /\ \/ job[a].round = 0 /\ a \in Dialer /\ job[a].step \in {1, 4}
                  \/ job[a].round = 0 /\ a \notin Dialer /\ job[a].step = 3
                  \/ job[a].round > 0 /\ job[a].step = SendStep(a, job[a].round)
               /\ IF Connected(a) THEN OtherWires(to) /\ wire'[to] = Append(wire[to], m)
                  ELSE wire' = wire
               /\ IF m.kind \in {"ops", "blob"} THEN Stays(a) ELSE Advances(a)
               /\ job'[a].step <= Steps(a, job'[a].round)
               /\ job'[a].out = Tail(job[a].out) /\ job'[a].got = job[a].got
               /\ KeepsPeer(a) /\ KeepsLists(a) /\ KeepsBuf(a) /\ KeepsBlobs(a)
               /\ job'[a].todo = job[a].todo
<1> DEFINE m == Head(job[a].out)
           rec == [job[a] EXCEPT !.out = Tail(job[a].out)]
           to == job[a].link
<1>1. job \in [Job -> JobRecord] /\ job[a] \in JobRecord /\ wire \in [Job -> Seq(Msg)]
  BY DEF NearbyTypeOK
<1>2. /\ InSession(a) /\ Phase(a) = "send" /\ job[a].step <= Steps(a, job[a].round)
      /\ job[a].out # <<>> /\ asked' = asked /\ UNCHANGED pvars
      /\ wire' = IF Connected(a) THEN [wire EXCEPT ![to] = Append(wire[to], m)] ELSE wire
      /\ job' = [job EXCEPT ![a] = IF m.kind \in {"ops", "blob"} THEN rec ELSE Advanced(a, rec)]
  BY DEF Send, In, Running, InSession, Placed
<1>3. \/ job[a].round = 0 /\ a \in Dialer /\ job[a].step \in {1, 4}
      \/ job[a].round = 0 /\ a \notin Dialer /\ job[a].step = 3
      \/ job[a].round > 0 /\ job[a].step = SendStep(a, job[a].round)
  BY <1>1, <1>2, PhaseSteps
<1>4. m \in Msg /\ Tail(job[a].out) \in Outbox
  <2>1. job[a].out \in Seq(Msg)
    BY <1>1, JobFields
  <2> QED
    BY <1>2, <2>1, HeadTailProperties DEF Outbox
<1>5. to \in Job
  BY <1>2 DEF Placed, Job
<1>6. rec \in JobRecord
  BY <1>1, <1>4 DEF JobRecord
<1>7. /\ rec.at = job[a].at /\ rec.link = job[a].link /\ rec.result = job[a].result
      /\ rec.round = job[a].round /\ rec.step = job[a].step /\ rec.got = job[a].got
      /\ rec.opt = job[a].opt /\ rec.out = Tail(job[a].out) /\ rec.todo = job[a].todo
      /\ rec.peer = job[a].peer /\ rec.mine = job[a].mine /\ rec.theirs = job[a].theirs
      /\ rec.buf = job[a].buf /\ rec.flush = job[a].flush /\ rec.tampered = job[a].tampered
      /\ rec.wants = job[a].wants
  BY <1>1 DEF JobRecord
<1>8. /\ wire' \in [Job -> Seq(Msg)]
      /\ IF Connected(a) THEN OtherWires(to) /\ wire'[to] = Append(wire[to], m)
         ELSE wire' = wire
  <2>1. CASE Connected(a)
    <3>1. wire[to] \in Seq(Msg) /\ wire' = [wire EXCEPT ![to] = Append(wire[to], m)]
      BY <1>1, <1>2, <1>5, <2>1
    <3>2. Append(wire[to], m) \in Seq(Msg)
      BY <1>4, <3>1, AppendProperties
    <3> HIDE DEF m, to
    <3> QED
      BY <1>1, <1>5, <2>1, <3>1, <3>2 DEF OtherWires
  <2>2. CASE ~Connected(a)
    BY <1>1, <1>2, <2>2
  <2> QED
    BY <2>1, <2>2
<1> HIDE DEF rec, m
<1>9. /\ job' \in [Job -> JobRecord] /\ OthersStay(a)
      /\ IF m.kind \in {"ops", "blob"} THEN Stays(a) ELSE Advances(a)
      /\ job'[a].step <= Steps(a, job'[a].round)
      /\ job'[a].out = rec.out /\ job'[a].got = rec.got /\ job'[a].todo = rec.todo
      /\ job'[a].opt = rec.opt /\ job'[a].peer = rec.peer /\ job'[a].mine = rec.mine
      /\ job'[a].theirs = rec.theirs /\ job'[a].buf = rec.buf /\ job'[a].flush = rec.flush
      /\ job'[a].wants = rec.wants /\ job'[a].tampered = rec.tampered
  <2>1. CASE m.kind \in {"ops", "blob"}
    <3>1. job' = [job EXCEPT ![a] = rec]
      BY <1>2, <2>1
    <3>2. job' \in [Job -> JobRecord] /\ OthersStay(a) /\ job'[a] = rec /\ Stays(a)
      BY <1>1, <1>6, <1>7, <3>1, Patched
    <3> QED
      BY <1>2, <1>7, <2>1, <3>2
  <2>2. CASE m.kind \notin {"ops", "blob"}
    <3>1. job' = [job EXCEPT ![a] = Advanced(a, rec)]
      BY <1>2, <2>2
    <3>2. job' \in [Job -> JobRecord] /\ OthersStay(a) /\ Becomes(a, rec)
      BY <1>1, <1>2, <1>6, <1>7, <3>1, AdvancedRecord
    <3> QED
      BY <2>2, <3>2 DEF Becomes
  <2> QED
    BY <2>1, <2>2
<1>10. NearbyTypeOK'
  BY <1>1, <1>2, <1>8, <1>9, TypesKept
<1> QED
  BY <1>2, <1>3, <1>4, <1>5, <1>7, <1>8, <1>9, <1>10
     DEF KeepsPeer, KeepsLists, KeepsBuf, KeepsBlobs, m

LEMMA OpsBody ==
    ASSUME NEW m \in Msg, m.kind = "ops"
    PROVE  m.body.vault \in Vault /\ m.body.ops \subseteq Op
<1>1. m.body \in BodyType("ops")
  BY MsgFacts
<1>2. m.body \in [vault : Vault, ops : SUBSET Op]
  BY <1>1 DEF BodyType
<1> QED
  BY <1>2

LEMMA CollectEndFields ==
    ASSUME NearbyTypeOK, NEW a \in Job, Placed(a), CollectEnd(a)
    PROVE  /\ NearbyTypeOK' /\ OthersStay(a) /\ wire' = wire /\ asked' = asked /\ UNCHANGED pvars
           /\ InSession(a) /\ Stays(a)
           /\ job[a].round \in {3, 5} /\ job[a].step = SendStep(a, job[a].round)
           /\ job[a].out = <<>> /\ job[a].todo = {}
           /\ Message(Closing[job[a].round], <<>>) \in Msg
           /\ job'[a].out = <<Message(Closing[job[a].round], <<>>)>>
           /\ KeepsPeer(a) /\ KeepsLists(a) /\ KeepsBuf(a) /\ KeepsBlobs(a)
           /\ job'[a].todo = job[a].todo /\ job'[a].got = job[a].got
<1> DEFINE m == Message(Closing[job[a].round], <<>>)
           rec == [job[a] EXCEPT !.out = <<m>>]
<1>1. job \in [Job -> JobRecord] /\ job[a] \in JobRecord /\ wire \in [Job -> Seq(Msg)]
  BY DEF NearbyTypeOK
<1>2. /\ InSession(a) /\ Phase(a) = "send" /\ job[a].step <= Steps(a, job[a].round)
      /\ job[a].round \in {3, 5} /\ job[a].out = <<>> /\ job[a].todo = {}
      /\ wire' = wire /\ asked' = asked /\ UNCHANGED pvars
      /\ job' = [job EXCEPT ![a].out = <<m>>]
  BY DEF CollectEnd, In, Running, InSession, Placed
<1>3. job[a].step = SendStep(a, job[a].round)
  BY <1>1, <1>2, PhaseSteps
<1>4. m \in Msg
  <2>1. Closing[3] = "ops_end" /\ Closing[5] = "blobs_end"
    BY DEF Closing
  <2>2. Message("ops_end", <<>>) \in Msg /\ Message("blobs_end", <<>>) \in Msg
    BY MsgFacts, Bodies DEF Kind
  <2> QED
    BY <1>2, <2>1, <2>2
<1> HIDE DEF m
<1>5. rec \in JobRecord
  <2>1. <<m>> \in Outbox
    BY <1>4 DEF Outbox
  <2> QED
    BY <1>1, <2>1 DEF JobRecord
<1>6. job' = [job EXCEPT ![a] = rec]
  BY <1>1, <1>2
<1>7. /\ rec.at = job[a].at /\ rec.link = job[a].link /\ rec.result = job[a].result
      /\ rec.round = job[a].round /\ rec.step = job[a].step /\ rec.got = job[a].got
      /\ rec.opt = job[a].opt /\ rec.out = <<m>> /\ rec.todo = job[a].todo
      /\ rec.peer = job[a].peer /\ rec.mine = job[a].mine /\ rec.theirs = job[a].theirs
      /\ rec.buf = job[a].buf /\ rec.flush = job[a].flush /\ rec.tampered = job[a].tampered
      /\ rec.wants = job[a].wants
  BY <1>1 DEF JobRecord
<1> HIDE DEF rec
<1>8. job' \in [Job -> JobRecord] /\ OthersStay(a) /\ job'[a] = rec /\ Stays(a)
  BY <1>1, <1>5, <1>6, <1>7, Patched
<1>9. NearbyTypeOK'
  BY <1>1, <1>2, <1>8, TypesKept
<1> QED
  BY <1>2, <1>3, <1>4, <1>7, <1>8, <1>9 DEF KeepsPeer, KeepsLists, KeepsBuf, KeepsBlobs, m

LEMMA CollectBlobFields ==
    ASSUME NearbyTypeOK, NEW a \in Job, Placed(a), CollectBlob(a)
    PROVE  /\ NearbyTypeOK' /\ OthersStay(a) /\ wire' = wire /\ asked' = asked /\ UNCHANGED pvars
           /\ InSession(a) /\ Stays(a)
           /\ job[a].round = 5 /\ job[a].step = SendStep(a, 5) /\ job[a].out = <<>>
           /\ \/ job'[a].out = <<>>
              \/ \E b \in Blob : Message("blob", b) \in Msg /\ job'[a].out = <<Message("blob", b)>>
           /\ KeepsPeer(a) /\ KeepsLists(a) /\ KeepsBuf(a) /\ KeepsBlobs(a)
           /\ job'[a].got = job[a].got
<1> DEFINE b == CHOOSE x \in job[a].todo : TRUE
           sent == b \in Referenced(Me(a), b[1]) \cap blobs[Me(a)]
           out == IF sent THEN <<Message("blob", b)>> ELSE <<>>
           rec == [job[a] EXCEPT !.todo = job[a].todo \ {b}, !.out = out]
<1>1. job \in [Job -> JobRecord] /\ job[a] \in JobRecord /\ wire \in [Job -> Seq(Msg)]
  BY DEF NearbyTypeOK
<1>2. /\ InSession(a) /\ Phase(a) = "send" /\ job[a].step <= Steps(a, job[a].round)
      /\ job[a].round = 5 /\ job[a].out = <<>>
      /\ wire' = wire /\ asked' = asked /\ UNCHANGED pvars
      /\ job' = [job EXCEPT ![a].todo = @ \ {b}, ![a].out = out]
  BY DEF CollectBlob, In, Running, InSession, Placed
<1>3. job[a].step = SendStep(a, 5)
  BY <1>1, <1>2, PhaseSteps
<1>4. sent => b \in Blob /\ Message("blob", b) \in Msg
  <2>1. blobs[Me(a)] \subseteq Blob
    BY OwnerIsDevice DEF NearbyTypeOK, PeerTypeOK, Blob
  <2> QED
    BY <2>1, MsgFacts, Bodies DEF Kind
<1> HIDE DEF b, sent
<1>5. rec \in JobRecord
  <2>1. out \in Outbox
    BY <1>4 DEF Outbox
  <2>2. job[a].todo \ {b} \in Todo
    BY <1>1, JobFields DEF Todo
  <2> HIDE DEF out
  <2> QED
    BY <1>1, <2>1, <2>2 DEF JobRecord
<1> HIDE DEF out
<1>6. job' = [job EXCEPT ![a] = rec]
  BY <1>1, <1>2 DEF JobRecord
<1>7. /\ rec.at = job[a].at /\ rec.link = job[a].link /\ rec.result = job[a].result
      /\ rec.round = job[a].round /\ rec.step = job[a].step /\ rec.got = job[a].got
      /\ rec.opt = job[a].opt /\ rec.out = out
      /\ rec.peer = job[a].peer /\ rec.mine = job[a].mine /\ rec.theirs = job[a].theirs
      /\ rec.buf = job[a].buf /\ rec.flush = job[a].flush /\ rec.tampered = job[a].tampered
      /\ rec.wants = job[a].wants
  BY <1>1 DEF JobRecord
<1> HIDE DEF rec
<1>8. job' \in [Job -> JobRecord] /\ OthersStay(a) /\ job'[a] = rec /\ Stays(a)
  BY <1>1, <1>5, <1>6, <1>7, Patched
<1>9. NearbyTypeOK'
  BY <1>1, <1>2, <1>8, TypesKept
<1>10. \/ rec.out = <<>>
       \/ \E x \in Blob : Message("blob", x) \in Msg /\ rec.out = <<Message("blob", x)>>
  BY <1>4, <1>7 DEF out
<1> QED
  BY <1>2, <1>3, <1>7, <1>8, <1>9, <1>10 DEF KeepsPeer, KeepsLists, KeepsBuf, KeepsBlobs

(* How send_ops cuts the operations of a vault into messages. *)
LEMMA Quotients ==
    ASSUME NEW b \in Nat \ {0}, NEW x \in Nat, NEW y \in Nat
    PROVE  /\ x \div b \in Nat
           /\ x <= y => x \div b <= y \div b
           /\ (x + b) \div b = x \div b + 1
OBVIOUS

LEMMA OpFinite == IsFiniteSet(Op)
<1>1. IsFiniteSet(Device) /\ IsFiniteSet(1..MaxSeq)
  BY NearbyConstants, PeerConstants, FS_Interval
<1> QED
  BY <1>1, FS_Product DEF Op

LEMMA NatConstants == Device \subseteq Nat /\ Vault \subseteq Nat /\ MaxSeq \in Nat
BY PeerConstants

LEMMA OpNats == \A p \in Op : p[1] \in Nat /\ p[2] \in Nat
<1> TAKE p \in Op
<1>1. p[1] \in Device /\ p[2] \in 1..MaxSeq
  BY DEF Op
<1>2. p[1] \in Nat
  BY <1>1, NatConstants, Zenon
<1>3. p[2] \in Nat
  <2>1. \A n \in 1..MaxSeq : n \in Nat
    BY NatConstants
  <2> QED
    BY <1>1, <2>1, Zenon
<1> QED
  BY <1>2, <1>3

LEMMA BatchesProperty ==
    ASSUME NEW v \in Vault, NEW ops \in SUBSET Op
    PROVE  LET q == Batches(v, ops)
           IN  /\ q \in Seq(Msg)
               /\ \A i \in 1..Len(q) : /\ q[i].kind = "ops" /\ q[i].body.vault = v
                                       /\ q[i].body.ops \subseteq ops
               /\ \A op \in ops : \E i \in 1..Len(q) : op \in q[i].body.ops
               /\ \A i \in 1..Len(q), x \in ops, y \in ops :
                    y \in q[i].body.ops /\ x[1] = y[1] /\ x[2] <= y[2] =>
                        \E n \in 1..i : x \in q[n].body.ops
<1> DEFINE rank(op) == Cardinality({q \in ops : Earlier(q, op)})
           c == Cardinality(ops)
           n == (c + Batch - 1) \div Batch
           q == Batches(v, ops)
           part(i) == {op \in ops : rank(op) \div Batch = i - 1}
<1>0. \A p \in Op : p[1] \in Nat /\ p[2] \in Nat
  BY OpNats
<1>1. IsFiniteSet(ops) /\ c \in Nat /\ Batch \in Nat \ {0}
  BY OpFinite, FS_Subset, FS_CardinalityType, NearbyConstants
<1>2. ASSUME NEW op \in ops
      PROVE  rank(op) \in Nat /\ rank(op) < c /\ rank(op) \div Batch \in Nat
  <2> DEFINE S == {x \in ops : Earlier(x, op)}
  <2>1. S \subseteq ops /\ op \notin S /\ S # ops
    <3>1. op[1] \in Nat /\ op[2] \in Nat
      BY <1>0
    <3>2. ~Earlier(op, op)
      BY <3>1 DEF Earlier
    <3> QED
      BY <3>2
  <2> HIDE DEF S
  <2>2. IsFiniteSet(S) /\ Cardinality(S) \in Nat /\ Cardinality(S) < c
    BY <1>1, <2>1, FS_Subset, FS_CardinalityType
  <2>3. rank(op) = Cardinality(S)
    BY DEF S
  <2> QED
    BY <1>1, <2>2, <2>3, Quotients
<1>3. n \in Nat
  <2>1. c + Batch - 1 \in Nat
    BY <1>1
  <2> QED
    BY <1>1, <2>1, Quotients
<1>4. q = [i \in 1..n |-> Message("ops", [vault |-> v, ops |-> part(i)])]
  BY DEF Batches
<1>5. ASSUME NEW i \in 1..n
      PROVE  Message("ops", [vault |-> v, ops |-> part(i)]) \in Msg
  <2>1. [vault |-> v, ops |-> part(i)] \in BodyType("ops")
    BY Bodies
  <2> QED
    BY <2>1, MsgFacts DEF Kind
<1>6. q \in Seq(Msg) /\ Len(q) = n
  <2> DEFINE m(i) == Message("ops", [vault |-> v, ops |-> part(i)])
  <2> HIDE DEF part, n, q
  <2>1. q = [i \in 1..n |-> m(i)] /\ \A i \in 1..n : m(i) \in Msg
    BY <1>4, <1>5
  <2> HIDE DEF m
  <2> QED
    BY <1>3, <2>1
<1>7. ASSUME NEW i \in 1..n
      PROVE  q[i].kind = "ops" /\ q[i].body.vault = v /\ q[i].body.ops = part(i)
  BY <1>4 DEF Message
<1> HIDE DEF q, n
<1>8. ASSUME NEW op \in ops
      PROVE  \E i \in 1..n : op \in part(i) /\ i = rank(op) \div Batch + 1
  <2> DEFINE r == rank(op)
             i == r \div Batch + 1
  <2>1. r \in Nat /\ r < c /\ r \div Batch \in Nat
    BY <1>2
  <2> HIDE DEF r
  <2>2. c - 1 \in Nat /\ r <= c - 1
    BY <1>1, <2>1
  <2>3. n = (c - 1) \div Batch + 1
    <3>1. c + Batch - 1 = (c - 1) + Batch
      BY <1>1
    <3> QED
      BY <1>1, <2>2, <3>1, Quotients DEF n
  <2>4. r \div Batch <= (c - 1) \div Batch /\ (c - 1) \div Batch \in Nat
    BY <1>1, <2>1, <2>2, Quotients
  <2>5. i \in 1..n /\ i - 1 = r \div Batch
    BY <1>3, <2>1, <2>3, <2>4
  <2>6. op \in part(i)
    BY <2>5 DEF r
  <2> QED
    BY <2>5, <2>6 DEF r
<1>9. ASSUME NEW i \in 1..n, NEW x \in ops, NEW y \in part(i), x[1] = y[1], x[2] <= y[2]
      PROVE  \E k \in 1..i : x \in part(k)
  <2>1. rank(x) <= rank(y)
    <3> DEFINE S == {p \in ops : Earlier(p, x)}
               T == {p \in ops : Earlier(p, y)}
    <3>1. S \subseteq T
      BY <1>0, <1>9 DEF Earlier
    <3>2. IsFiniteSet(T)
      BY <1>1, FS_Subset
    <3> QED
      BY <3>1, <3>2, FS_Subset
  <2>2. PICK k \in 1..n : x \in part(k) /\ k = rank(x) \div Batch + 1
    BY <1>8
  <2>3. rank(x) \in Nat /\ rank(y) \in Nat /\ rank(y) \div Batch = i - 1
    BY <1>2, <1>9
  <2> HIDE DEF rank
  <2>4. rank(x) \div Batch <= rank(y) \div Batch
    BY <1>1, <2>1, <2>3, Quotients
  <2>5. k \in 1..i
    BY <1>3, <2>2, <2>3, <2>4, <1>1, Quotients
  <2> QED
    BY <2>2, <2>5
<1> HIDE DEF part
<1>10. \A i \in 1..n : part(i) \subseteq ops
  BY DEF part
<1>11. \A op \in ops : \E i \in 1..n : op \in q[i].body.ops
  BY <1>7, <1>8
<1>12. \A i \in 1..n, x \in ops, y \in ops :
          y \in q[i].body.ops /\ x[1] = y[1] /\ x[2] <= y[2] => \E k \in 1..i : x \in q[k].body.ops
  <2> SUFFICES ASSUME NEW i \in 1..n, NEW x \in ops, NEW y \in ops,
                      y \in q[i].body.ops, x[1] = y[1], x[2] <= y[2]
               PROVE  \E k \in 1..i : x \in q[k].body.ops
    OBVIOUS
  <2>1. PICK k \in 1..i : x \in part(k)
    BY <1>7, <1>9
  <2>2. k \in 1..n
    BY <1>3
  <2> QED
    BY <1>7, <2>1, <2>2
<1> QED
  BY <1>6, <1>7, <1>10, <1>11, <1>12 DEF q

LEMMA CollectOpsFields ==
    ASSUME NearbyTypeOK, NEW a \in Job, Placed(a), CollectOps(a), job[a].todo \subseteq Vault
    PROVE  LET v == Min(job[a].todo)
               ops == OpsToSend(Me(a), v, job[a].theirs[v], job[a].peer)
           IN  /\ NearbyTypeOK' /\ OthersStay(a) /\ wire' = wire /\ asked' = asked
               /\ UNCHANGED pvars
               /\ InSession(a) /\ Stays(a)
               /\ job[a].round = 3 /\ job[a].step = SendStep(a, 3) /\ job[a].out = <<>>
               /\ v \in job[a].todo /\ v \in Vault /\ ops \subseteq Op
               /\ job'[a].out = Batches(v, ops) /\ job'[a].todo = job[a].todo \ {v}
               /\ KeepsPeer(a) /\ KeepsLists(a) /\ KeepsBuf(a) /\ KeepsBlobs(a)
               /\ job'[a].got = job[a].got
<1> DEFINE v == Min(job[a].todo)
           ops == OpsToSend(Me(a), v, job[a].theirs[v], job[a].peer)
           out == Batches(v, ops)
           rec == [job[a] EXCEPT !.todo = job[a].todo \ {v}, !.out = out]
<1>1. job \in [Job -> JobRecord] /\ job[a] \in JobRecord /\ wire \in [Job -> Seq(Msg)]
  BY DEF NearbyTypeOK
<1>2. /\ InSession(a) /\ Phase(a) = "send" /\ job[a].step <= Steps(a, job[a].round)
      /\ job[a].round = 3 /\ job[a].out = <<>> /\ job[a].todo # {}
      /\ wire' = wire /\ asked' = asked /\ UNCHANGED pvars
      /\ job' = [job EXCEPT ![a].todo = @ \ {v}, ![a].out = out]
  BY DEF CollectOps, In, Running, InSession, Placed
<1>3. job[a].step = SendStep(a, 3)
  BY <1>1, <1>2, PhaseSteps
<1>4. v \in job[a].todo /\ v \in Vault /\ ops \subseteq Op
  <2>1. v \in job[a].todo /\ v \in Vault
    BY <1>2, LeastVault, PeerConstants
  <2> QED
    BY <2>1 DEF OpsToSend
<1> HIDE DEF v, ops
<1>5. rec \in JobRecord
  <2>1. out \in Outbox
    BY <1>4, BatchesProperty DEF Outbox
  <2>2. job[a].todo \ {v} \in Todo
    BY <1>1, JobFields DEF Todo
  <2> HIDE DEF out
  <2> QED
    BY <1>1, <2>1, <2>2 DEF JobRecord
<1> HIDE DEF out
<1>6. job' = [job EXCEPT ![a] = rec]
  BY <1>1, <1>2 DEF JobRecord
<1>7. /\ rec.at = job[a].at /\ rec.link = job[a].link /\ rec.result = job[a].result
      /\ rec.round = job[a].round /\ rec.step = job[a].step /\ rec.got = job[a].got
      /\ rec.opt = job[a].opt /\ rec.out = out /\ rec.todo = job[a].todo \ {v}
      /\ rec.peer = job[a].peer /\ rec.mine = job[a].mine /\ rec.theirs = job[a].theirs
      /\ rec.buf = job[a].buf /\ rec.flush = job[a].flush /\ rec.tampered = job[a].tampered
      /\ rec.wants = job[a].wants
  BY <1>1 DEF JobRecord
<1> HIDE DEF rec
<1>8. job' \in [Job -> JobRecord] /\ OthersStay(a) /\ job'[a] = rec /\ Stays(a)
  BY <1>1, <1>5, <1>6, <1>7, Patched
<1>9. NearbyTypeOK'
  BY <1>1, <1>2, <1>8, TypesKept
<1> QED
  BY <1>2, <1>3, <1>4, <1>7, <1>8, <1>9 DEF KeepsPeer, KeepsLists, KeepsBuf, KeepsBlobs, out, v, ops

(* The message at the head of the wire. *)
LEMMA ArrivedFacts ==
    ASSUME NearbyTypeOK, NEW a \in Job, Placed(a), Receiving(a)
    PROVE  /\ Arrived(a) = Head(wire[a]) /\ Arrived(a) \in Msg /\ wire[a] # <<>> /\ InSession(a)
           /\ Tail(wire[a]) \in Seq(Msg) /\ job[a].flush = "no"
           /\ \/ job[a].round = 0 /\ a \in Dialer /\ job[a].step = 2
              \/ job[a].round = 0 /\ a \notin Dialer /\ job[a].step \in {1, 4}
              \/ job[a].round > 0 /\ job[a].step = RecvStep(a, job[a].round)
<1>1. job[a] \in JobRecord /\ wire[a] \in Seq(Msg)
  BY DEF NearbyTypeOK
<1>2. InSession(a) /\ Phase(a) = "recv" /\ job[a].step <= Steps(a, job[a].round)
      /\ wire[a] # <<>> /\ job[a].flush = "no"
  BY DEF Receiving, In, Running, InSession, Placed
<1>3. \/ job[a].round = 0 /\ a \in Dialer /\ job[a].step = 2
      \/ job[a].round = 0 /\ a \notin Dialer /\ job[a].step \in {1, 4}
      \/ job[a].round > 0 /\ job[a].step = RecvStep(a, job[a].round)
  BY <1>1, <1>2, PhaseSteps
<1>4. Head(wire[a]) \in Msg /\ Tail(wire[a]) \in Seq(Msg)
  BY <1>1, <1>2, HeadTailProperties
<1> QED
  BY <1>2, <1>3, <1>4 DEF Arrived

LEMMA RecvMessageFields ==
    ASSUME NearbyTypeOK, NEW a \in Job, Placed(a), Receiving(a), Allowed(a, Arrived(a)),
           RecvMessage(a)
    PROVE  LET m == Arrived(a)
           IN  /\ NearbyTypeOK' /\ OthersStay(a) /\ asked' = asked /\ UNCHANGED pvars
               /\ OtherWires(a) /\ wire'[a] = Tail(wire[a])
               /\ Advances(a) /\ job'[a].step <= Steps(a, job'[a].round)
               /\ job[a].round \in {0, 1, 2, 4, 6}
               /\ m.kind = CASE job[a].round = 0 -> IF job[a].step = 1 THEN "e" ELSE "proof"
                             [] job[a].round = 1 -> "hello" [] job[a].round = 2 -> "inventory"
                             [] job[a].round = 4 -> "blob_want" [] job[a].round = 6 -> "done"
               /\ job'[a].got = IF m.kind \in {"hello", "proof"} THEN m.body ELSE <<>>
               /\ job'[a].theirs = IF job[a].round = 2 THEN m.body ELSE job[a].theirs
               /\ job[a].round = 2 => job'[a].todo = DOMAIN job[a].mine \cap DOMAIN m.body
               /\ job[a].round \in {0, 1} => job'[a].todo = job[a].todo
               /\ KeepsPeer(a) /\ KeepsBuf(a) /\ KeepsBlobs(a)
               /\ job'[a].mine = job[a].mine /\ job'[a].out = job[a].out
<1> DEFINE m == Arrived(a)
           got == IF m.kind \in {"hello", "proof"} THEN m.body ELSE <<>>
           theirs == IF m.kind = "inventory" THEN m.body ELSE job[a].theirs
           old == [job[a] EXCEPT !.got = got, !.theirs = theirs]
           todo == CASE m.kind = "inventory" -> DOMAIN old.mine \cap DOMAIN old.theirs
                     [] m.kind = "blob_want" -> {b \in m.body : b[1] \in Common(a)}
                     [] OTHER -> job[a].todo
           rec == [job[a] EXCEPT !.got = got, !.theirs = theirs, !.todo = todo]
<1>1. job \in [Job -> JobRecord] /\ job[a] \in JobRecord /\ wire \in [Job -> Seq(Msg)]
  BY DEF NearbyTypeOK
<1>2. /\ m \in Msg /\ InSession(a) /\ Tail(wire[a]) \in Seq(Msg)
      /\ \/ job[a].round = 0 /\ a \in Dialer /\ job[a].step = 2
         \/ job[a].round = 0 /\ a \notin Dialer /\ job[a].step \in {1, 4}
         \/ job[a].round > 0 /\ job[a].step = RecvStep(a, job[a].round)
  BY ArrivedFacts
<1>3. job[a].round \in {0, 1, 2, 4, 6} /\ job[a].step <= Steps(a, job[a].round)
  BY <1>1, JobFields DEF RecvMessage, Placed
<1>4. m.kind = CASE job[a].round = 0 -> IF job[a].step = 1 THEN "e" ELSE "proof"
                 [] job[a].round = 1 -> "hello" [] job[a].round = 2 -> "inventory"
                 [] job[a].round = 4 -> "blob_want" [] job[a].round = 6 -> "done"
  <2>1. Closing[1] = "hello" /\ Closing[2] = "inventory" /\ Closing[4] = "blob_want"
        /\ Closing[6] = "done"
    BY DEF Closing
  <2> HIDE DEF m
  <2>2. Allowed(a, m)
    BY DEF m
  <2> QED
    BY <1>3, <2>1, <2>2 DEF Allowed
<1>5. /\ wire' = [wire EXCEPT ![a] = Tail(wire[a])] /\ asked' = asked /\ UNCHANGED pvars
      /\ job' = [job EXCEPT ![a] = Advanced(a, [old EXCEPT !.todo = todo])]
  <2>1. old.todo = job[a].todo
    BY <1>1 DEF JobRecord
  <2>2. job' = [job EXCEPT ![a] = Advanced(a, [old EXCEPT !.todo =
                  CASE m.kind = "inventory" -> DOMAIN old.mine \cap DOMAIN old.theirs
                    [] m.kind = "blob_want" -> {b \in m.body : b[1] \in Common(a)}
                    [] OTHER -> old.todo])]
    BY DEF RecvMessage
  <2> QED
    BY <2>1, <2>2 DEF RecvMessage
<1>6. m.body \in BodyType(m.kind)
  BY <1>2, MsgFacts
<1> HIDE DEF m
<1>7. got \in Got /\ theirs \in Listing
  BY <1>1, <1>6, Bodies DEF Got, JobRecord
<1>8. todo = CASE job[a].round = 2 -> DOMAIN job[a].mine \cap DOMAIN m.body
               [] job[a].round = 4 -> {b \in m.body : b[1] \in Common(a)}
               [] OTHER -> job[a].todo
  <2>1. old.mine = job[a].mine /\ old.theirs = theirs
    BY <1>1 DEF JobRecord
  <2> HIDE DEF old
  <2>2. CASE job[a].round = 2
    BY <1>4, <2>1, <2>2
  <2>3. CASE job[a].round = 4
    BY <1>4, <2>1, <2>3
  <2>4. CASE job[a].round \in {0, 1, 6}
    BY <1>4, <2>1, <2>4
  <2> QED
    BY <1>3, <2>2, <2>3, <2>4
<1>9. todo \in Todo
  <2>1. CASE job[a].round = 2
    <3>1. DOMAIN job[a].mine \subseteq Vault
      BY <1>1, JobFields
    <3> QED
      BY <1>8, <2>1, <3>1 DEF Todo
  <2>2. CASE job[a].round = 4
    <3>1. m.body \subseteq Blob
      BY <1>4, <1>6, <2>2, Bodies
    <3> QED
      BY <1>8, <2>2, <3>1 DEF Todo
  <2>3. CASE job[a].round \in {0, 1, 6}
    BY <1>1, <1>8, <2>3 DEF JobRecord
  <2> QED
    BY <1>3, <2>1, <2>2, <2>3
<1>10. [old EXCEPT !.todo = todo] = rec
  <2> HIDE DEF todo, got, theirs
  <2> QED
    BY <1>1 DEF JobRecord
<1> HIDE DEF todo, got, theirs
<1>11. rec \in JobRecord
  BY <1>1, <1>7, <1>9 DEF JobRecord
<1>12. /\ rec.at = job[a].at /\ rec.link = job[a].link /\ rec.result = job[a].result
       /\ rec.round = job[a].round /\ rec.step = job[a].step /\ rec.got = got
       /\ rec.opt = job[a].opt /\ rec.out = job[a].out /\ rec.todo = todo
       /\ rec.peer = job[a].peer /\ rec.mine = job[a].mine /\ rec.theirs = theirs
       /\ rec.buf = job[a].buf /\ rec.flush = job[a].flush /\ rec.tampered = job[a].tampered
       /\ rec.wants = job[a].wants
  BY <1>1 DEF JobRecord
<1>13. job' = [job EXCEPT ![a] = Advanced(a, rec)]
  BY <1>5, <1>10, Zenon
<1> HIDE DEF rec, old
<1>14. job' \in [Job -> JobRecord] /\ OthersStay(a) /\ Becomes(a, rec)
  BY <1>1, <1>3, <1>11, <1>12, <1>13, AdvancedRecord
<1>15. wire' \in [Job -> Seq(Msg)] /\ OtherWires(a) /\ wire'[a] = Tail(wire[a])
  BY <1>1, <1>2, <1>5 DEF OtherWires
<1>16. NearbyTypeOK'
  BY <1>1, <1>5, <1>14, <1>15, TypesKept
<1>17. theirs = (IF job[a].round = 2 THEN m.body ELSE job[a].theirs)
  BY <1>3, <1>4 DEF theirs
<1>18. /\ job[a].round = 2 => todo = DOMAIN job[a].mine \cap DOMAIN m.body
       /\ job[a].round \in {0, 1} => todo = job[a].todo
  BY <1>8
<1>19. /\ Advances(a) /\ job'[a].step <= Steps(a, job'[a].round)
       /\ job'[a].got = got /\ job'[a].theirs = theirs /\ job'[a].todo = todo
       /\ KeepsPeer(a) /\ KeepsBuf(a) /\ KeepsBlobs(a)
       /\ job'[a].mine = job[a].mine /\ job'[a].out = job[a].out
  BY <1>12, <1>14 DEF Becomes, KeepsPeer, KeepsBuf, KeepsBlobs
<1>20. m = Arrived(a) /\ got = IF m.kind \in {"hello", "proof"} THEN m.body ELSE <<>>
  BY DEF m, got
<1> QED
  BY <1>3, <1>4, <1>5, <1>14, <1>15, <1>16, <1>17, <1>18, <1>19, <1>20

LEMMA RecvOpsFields ==
    ASSUME NearbyTypeOK, NEW a \in Job, Placed(a), Receiving(a), Allowed(a, Arrived(a)),
           RecvOps(a)
    PROVE  LET m == Arrived(a)
           IN  /\ NearbyTypeOK' /\ OthersStay(a) /\ asked' = asked /\ UNCHANGED pvars
               /\ OtherWires(a) /\ wire'[a] = Tail(wire[a])
               /\ Stays(a) /\ job[a].round = 3 /\ job[a].step = RecvStep(a, 3)
               /\ \/ m.kind = "ops" /\ m.body.vault \in Common(a)
                  \/ m.kind = "ops_end"
               /\ job'[a].buf = job[a].buf \cup
                        (IF m.kind = "ops" THEN {m.body.vault} \X m.body.ops ELSE {})
               /\ job'[a].flush = "end" <=> m.kind = "ops_end"
               /\ KeepsPeer(a) /\ KeepsLists(a) /\ KeepsBlobs(a) /\ job'[a].got = job[a].got
               /\ job'[a].todo = job[a].todo /\ job'[a].out = job[a].out
<1> DEFINE m == Arrived(a)
           buf == job[a].buf \cup (IF m.kind = "ops" THEN {m.body.vault} \X m.body.ops ELSE {})
           flush == IF m.kind = "ops_end" THEN "end"
                    ELSE IF Cardinality(buf) >= FlushAt THEN "more" ELSE "no"
           rec == [job[a] EXCEPT !.buf = buf, !.flush = flush]
<1>1. job \in [Job -> JobRecord] /\ job[a] \in JobRecord /\ wire \in [Job -> Seq(Msg)]
  BY DEF NearbyTypeOK
<1>2. /\ m \in Msg /\ InSession(a) /\ Tail(wire[a]) \in Seq(Msg) /\ job[a].round = 3
      /\ job[a].step = RecvStep(a, 3)
  BY ArrivedFacts DEF RecvOps
<1>3. \/ m.kind = "ops" /\ m.body.vault \in Common(a)
      \/ m.kind = "ops_end"
  BY <1>2 DEF Allowed
<1>4. /\ wire' = [wire EXCEPT ![a] = Tail(wire[a])] /\ asked' = asked /\ UNCHANGED pvars
      /\ job' = [job EXCEPT ![a].buf = buf, ![a].flush = flush]
  BY DEF RecvOps
<1>5. m.body \in BodyType(m.kind)
  BY <1>2, MsgFacts
<1> HIDE DEF m
<1>6. buf \in Buffer
  <2>1. job[a].buf \subseteq Vault \X Op
    BY <1>1, JobFields
  <2>2. m.kind = "ops" => m.body.vault \in Vault /\ m.body.ops \subseteq Op
    BY <1>2, OpsBody
  <2> QED
    BY <2>1, <2>2 DEF Buffer
<1> HIDE DEF buf
<1>7. flush \in FlushMode /\ (flush = "end" <=> m.kind = "ops_end")
  <2>1. CASE m.kind = "ops_end"
    BY <2>1 DEF FlushMode
  <2>2. CASE m.kind # "ops_end"
    <3>1. flush = "more" \/ flush = "no"
      BY <2>2, Zenon
    <3> HIDE DEF flush
    <3> QED
      BY <2>2, <3>1 DEF FlushMode
  <2> QED
    BY <2>1, <2>2
<1> HIDE DEF flush
<1>8. rec \in JobRecord
  BY <1>1, <1>6, <1>7 DEF JobRecord
<1>9. job' = [job EXCEPT ![a] = rec]
  BY <1>1, <1>4 DEF JobRecord
<1>10. /\ rec.at = job[a].at /\ rec.link = job[a].link /\ rec.result = job[a].result
       /\ rec.round = job[a].round /\ rec.step = job[a].step /\ rec.got = job[a].got
       /\ rec.opt = job[a].opt /\ rec.out = job[a].out /\ rec.todo = job[a].todo
       /\ rec.peer = job[a].peer /\ rec.mine = job[a].mine /\ rec.theirs = job[a].theirs
       /\ rec.buf = buf /\ rec.flush = flush /\ rec.tampered = job[a].tampered
       /\ rec.wants = job[a].wants
  BY <1>1 DEF JobRecord
<1> HIDE DEF rec
<1>11. job' \in [Job -> JobRecord] /\ OthersStay(a) /\ job'[a] = rec /\ Stays(a)
  BY <1>1, <1>8, <1>9, <1>10, Patched
<1>12. wire' \in [Job -> Seq(Msg)] /\ OtherWires(a) /\ wire'[a] = Tail(wire[a])
  BY <1>1, <1>2, <1>4 DEF OtherWires
<1>13. NearbyTypeOK'
  BY <1>1, <1>4, <1>11, <1>12, TypesKept
<1> QED
  BY <1>2, <1>3, <1>4, <1>7, <1>10, <1>11, <1>12, <1>13
     DEF KeepsPeer, KeepsLists, KeepsBlobs, m, buf

LEMMA RecvBlobFields ==
    ASSUME NearbyTypeOK, NEW a \in Job, Placed(a), Receiving(a), RecvBlob(a)
    PROVE  LET b == Arrived(a).body
           IN  /\ NearbyTypeOK' /\ OthersStay(a) /\ asked' = asked
               /\ UNCHANGED <<unlocked, pins, vaults, heads>>
               /\ \A d \in Device : blobs[d] \subseteq blobs'[d]
               /\ OtherWires(a) /\ wire'[a] = Tail(wire[a]) /\ Arrived(a).kind = "blob"
               /\ Stays(a) /\ job[a].round = 5 /\ job[a].step = RecvStep(a, 5)
               /\ job'[a].wants = job[a].wants \ {b} /\ job[a].tampered \subseteq job'[a].tampered
               /\ b \in blobs'[Me(a)] \cup job'[a].tampered
               /\ KeepsPeer(a) /\ KeepsLists(a) /\ KeepsBuf(a) /\ job'[a].got = job[a].got
               /\ job'[a].todo = job[a].todo /\ job'[a].out = job[a].out
<1> DEFINE m == Arrived(a)
           b == m.body
           good == Verified(b, job[a].peer)
           tampered == IF good THEN job[a].tampered ELSE job[a].tampered \cup {b}
           rec == [job[a] EXCEPT !.wants = job[a].wants \ {b}, !.tampered = tampered]
<1>1. job \in [Job -> JobRecord] /\ job[a] \in JobRecord /\ wire \in [Job -> Seq(Msg)]
      /\ PeerTypeOK /\ Me(a) \in Device
  BY OwnerIsDevice DEF NearbyTypeOK
<1>2. /\ m \in Msg /\ InSession(a) /\ Tail(wire[a]) \in Seq(Msg) /\ job[a].round = 5
      /\ job[a].step = RecvStep(a, 5) /\ m.kind = "blob"
  BY ArrivedFacts DEF RecvBlob
<1>4. /\ wire' = [wire EXCEPT ![a] = Tail(wire[a])] /\ asked' = asked
      /\ UNCHANGED <<unlocked, pins, vaults, heads>>
      /\ job' = [job EXCEPT ![a].wants = @ \ {b}, ![a].tampered = tampered]
      /\ blobs' = [blobs EXCEPT ![Me(a)] = IF good THEN blobs[Me(a)] \cup {b} ELSE blobs[Me(a)]]
  BY DEF RecvBlob
<1>5. b \in Blob
  BY <1>2, MsgFacts, Bodies
<1> HIDE DEF b, good
<1>6. blobs \in [Device -> SUBSET Blob]
  BY <1>1 DEF PeerTypeOK, Blob
<1>7. /\ blobs' \in [Device -> SUBSET Blob] /\ \A d \in Device : blobs[d] \subseteq blobs'[d]
      /\ b \in blobs'[Me(a)] \cup tampered
  BY <1>1, <1>4, <1>5, <1>6
<1>8. PeerTypeOK'
  BY <1>1, <1>4, <1>7 DEF PeerTypeOK, Blob
<1>9. rec \in JobRecord
  <2>1. job[a].wants \ {b} \in BlobSet /\ tampered \in BlobSet
    BY <1>1, <1>5, JobFields DEF BlobSet
  <2> HIDE DEF tampered
  <2> QED
    BY <1>1, <2>1 DEF JobRecord
<1>10. job[a].tampered \subseteq tampered
  OBVIOUS
<1> HIDE DEF tampered
<1>11. job' = [job EXCEPT ![a] = rec]
  BY <1>1, <1>4 DEF JobRecord
<1>12. /\ rec.at = job[a].at /\ rec.link = job[a].link /\ rec.result = job[a].result
       /\ rec.round = job[a].round /\ rec.step = job[a].step /\ rec.got = job[a].got
       /\ rec.opt = job[a].opt /\ rec.out = job[a].out /\ rec.todo = job[a].todo
       /\ rec.peer = job[a].peer /\ rec.mine = job[a].mine /\ rec.theirs = job[a].theirs
       /\ rec.buf = job[a].buf /\ rec.flush = job[a].flush /\ rec.tampered = tampered
       /\ rec.wants = job[a].wants \ {b}
  BY <1>1 DEF JobRecord
<1> HIDE DEF rec
<1>13. job' \in [Job -> JobRecord] /\ OthersStay(a) /\ job'[a] = rec /\ Stays(a)
  BY <1>1, <1>9, <1>11, <1>12, Patched
<1>14. wire' \in [Job -> Seq(Msg)] /\ OtherWires(a) /\ wire'[a] = Tail(wire[a])
  BY <1>1, <1>2, <1>4 DEF OtherWires
<1>15. NearbyTypeOK'
  BY <1>8, <1>13, <1>14 DEF NearbyTypeOK
<1> QED
  BY <1>2, <1>4, <1>7, <1>10, <1>12, <1>13, <1>14, <1>15
     DEF KeepsPeer, KeepsLists, KeepsBuf, b

LEMMA RecvBlobsEndFields ==
    ASSUME NearbyTypeOK, NEW a \in Job, Placed(a), Receiving(a), RecvBlobsEnd(a)
    PROVE  /\ NearbyTypeOK' /\ OthersStay(a) /\ asked' = asked /\ UNCHANGED pvars
           /\ OtherWires(a) /\ wire'[a] = Tail(wire[a]) /\ Arrived(a).kind = "blobs_end"
           /\ Advances(a) /\ job'[a].step <= Steps(a, job'[a].round)
           /\ job[a].round = 5 /\ job[a].step = RecvStep(a, 5)
           /\ KeepsPeer(a) /\ KeepsLists(a) /\ KeepsBuf(a) /\ KeepsBlobs(a)
           /\ job'[a].got = job[a].got /\ job'[a].todo = job[a].todo /\ job'[a].out = job[a].out
<1>1. job \in [Job -> JobRecord] /\ job[a] \in JobRecord /\ wire \in [Job -> Seq(Msg)]
  BY DEF NearbyTypeOK
<1>2. /\ InSession(a) /\ Tail(wire[a]) \in Seq(Msg) /\ job[a].round = 5
      /\ job[a].step = RecvStep(a, 5) /\ Arrived(a).kind = "blobs_end"
      /\ job[a].step <= Steps(a, job[a].round)
  BY ArrivedFacts DEF RecvBlobsEnd, Placed
<1>3. /\ wire' = [wire EXCEPT ![a] = Tail(wire[a])] /\ asked' = asked /\ UNCHANGED pvars
      /\ job' = [job EXCEPT ![a] = Advanced(a, job[a])]
  BY DEF RecvBlobsEnd
<1>4. job' \in [Job -> JobRecord] /\ OthersStay(a) /\ Becomes(a, job[a])
  BY <1>1, <1>2, <1>3, AdvancedRecord
<1>5. wire' \in [Job -> Seq(Msg)] /\ OtherWires(a) /\ wire'[a] = Tail(wire[a])
  BY <1>1, <1>2, <1>3 DEF OtherWires
<1>6. NearbyTypeOK'
  BY <1>1, <1>3, <1>4, <1>5, TypesKept
<1> QED
  BY <1>2, <1>3, <1>4, <1>5, <1>6 DEF Becomes, KeepsPeer, KeepsLists, KeepsBuf, KeepsBlobs

LEMMA FlushIngestFields ==
    ASSUME NearbyTypeOK, NEW a \in Job, Placed(a), Flush(a), job[a].buf # {}
    PROVE  LET v == Min({p[1] : p \in job[a].buf})
               ops == {p[2] : p \in {q \in job[a].buf : q[1] = v}}
           IN  /\ NearbyTypeOK' /\ OthersStay(a) /\ wire' = wire /\ asked' = asked
               /\ UNCHANGED <<unlocked, pins, vaults, blobs>>
               /\ InSession(a) /\ Stays(a) /\ job[a].flush # "no"
               /\ v \in Vault
               /\ heads'[Me(a)][v] = Ingested(Me(a), v, ops)
               /\ \A d \in Device, w \in Vault, o \in Device : heads[d][w][o] <= heads'[d][w][o]
               /\ job'[a].buf = {p \in job[a].buf : p[1] # v} /\ job'[a].flush = job[a].flush
               /\ KeepsPeer(a) /\ KeepsLists(a) /\ KeepsBlobs(a) /\ job'[a].got = job[a].got
               /\ job'[a].todo = job[a].todo /\ job'[a].out = job[a].out
<1> DEFINE v == Min({p[1] : p \in job[a].buf})
           ops == {p[2] : p \in {q \in job[a].buf : q[1] = v}}
           buf == {p \in job[a].buf : p[1] # v}
           rec == [job[a] EXCEPT !.buf = buf]
<1>1. job \in [Job -> JobRecord] /\ job[a] \in JobRecord /\ wire \in [Job -> Seq(Msg)]
      /\ PeerTypeOK /\ Me(a) \in Device
  BY OwnerIsDevice DEF NearbyTypeOK
<1>2. /\ InSession(a) /\ job[a].flush # "no" /\ wire' = wire /\ asked' = asked
      /\ UNCHANGED <<unlocked, pins, vaults, blobs>>
      /\ heads' = [heads EXCEPT ![Me(a)][v] = Ingested(Me(a), v, ops)]
      /\ job' = [job EXCEPT ![a].buf = buf]
  BY DEF Flush, In, Running, InSession
<1>3. v \in Vault
  <2> DEFINE S == {p[1] : p \in job[a].buf}
  <2>1. job[a].buf \subseteq Vault \X Op
    BY <1>1, JobFields
  <2>2. S \subseteq Vault /\ S # {}
    BY <2>1
  <2> HIDE DEF S
  <2>3. Min(S) \in S
    BY <2>2, LeastVault, NatConstants
  <2> QED
    BY <2>2, <2>3 DEF S
<1> HIDE DEF v, ops
<1>4. /\ heads' \in [Device -> [Vault -> Heads]] /\ heads'[Me(a)][v] = Ingested(Me(a), v, ops)
      /\ \A d \in Device, w \in Vault, o \in Device : heads[d][w][o] <= heads'[d][w][o]
  <2>1. /\ Ingested(Me(a), v, ops) \in Heads
        /\ \A o \in Device : heads[Me(a)][v][o] <= Ingested(Me(a), v, ops)[o]
    BY <1>1, <1>3, IngestedHeads
  <2>2. heads \in [Device -> [Vault -> Heads]]
    BY <1>1 DEF PeerTypeOK
  <2>3. \A d \in Device, w \in Vault, o \in Device : heads[d][w][o] <= heads[d][w][o]
    BY <1>1, HeadsInt
  <2> DEFINE h == Ingested(Me(a), v, ops)
  <2> HIDE DEF h
  <2>4. /\ heads' \in [Device -> [Vault -> Heads]] /\ heads'[Me(a)][v] = h
        /\ \A d \in Device, w \in Vault :
              heads'[d][w] = IF d = Me(a) /\ w = v THEN h ELSE heads[d][w]
    BY <1>1, <1>2, <1>3, <2>1, <2>2 DEF h
  <2> QED
    BY <2>1, <2>3, <2>4 DEF h
<1>5. PeerTypeOK'
  BY <1>1, <1>2, <1>4 DEF PeerTypeOK
<1>6. rec \in JobRecord
  <2>1. buf \in Buffer
    BY <1>1, JobFields DEF Buffer
  <2> HIDE DEF buf
  <2> QED
    BY <1>1, <2>1 DEF JobRecord
<1> HIDE DEF buf
<1>7. job' = [job EXCEPT ![a] = rec]
  BY <1>1, <1>2
<1>8. /\ rec.at = job[a].at /\ rec.link = job[a].link /\ rec.result = job[a].result
      /\ rec.round = job[a].round /\ rec.step = job[a].step /\ rec.got = job[a].got
      /\ rec.opt = job[a].opt /\ rec.out = job[a].out /\ rec.todo = job[a].todo
      /\ rec.peer = job[a].peer /\ rec.mine = job[a].mine /\ rec.theirs = job[a].theirs
      /\ rec.buf = buf /\ rec.flush = job[a].flush /\ rec.tampered = job[a].tampered
      /\ rec.wants = job[a].wants
  BY <1>1 DEF JobRecord
<1> HIDE DEF rec
<1>9. job' \in [Job -> JobRecord] /\ OthersStay(a) /\ job'[a] = rec /\ Stays(a)
  BY <1>1, <1>6, <1>7, <1>8, Patched
<1>10. NearbyTypeOK'
  BY <1>1, <1>2, <1>5, <1>9 DEF NearbyTypeOK
<1> QED
  BY <1>2, <1>3, <1>4, <1>8, <1>9, <1>10 DEF KeepsPeer, KeepsLists, KeepsBlobs, buf, v, ops

LEMMA FlushDoneFields ==
    ASSUME NearbyTypeOK, NEW a \in Job, Placed(a), Flush(a), job[a].buf = {}
    PROVE  /\ NearbyTypeOK' /\ OthersStay(a) /\ wire' = wire /\ asked' = asked /\ UNCHANGED pvars
           /\ InSession(a) /\ job[a].flush # "no"
           /\ \/ job[a].round = 0 /\ a \in Dialer /\ job[a].step = 2
              \/ job[a].round = 0 /\ a \notin Dialer /\ job[a].step \in {1, 4}
              \/ job[a].round > 0 /\ job[a].step = RecvStep(a, job[a].round)
           /\ IF job[a].flush = "end" THEN Advances(a) ELSE Stays(a)
           /\ job'[a].step <= Steps(a, job'[a].round)
           /\ job'[a].buf = {} /\ job'[a].flush = "no"
           /\ KeepsPeer(a) /\ KeepsLists(a) /\ KeepsBlobs(a) /\ job'[a].got = job[a].got
           /\ job'[a].todo = job[a].todo /\ job'[a].out = job[a].out
<1> DEFINE rec == [job[a] EXCEPT !.flush = "no"]
<1>1. job \in [Job -> JobRecord] /\ job[a] \in JobRecord /\ wire \in [Job -> Seq(Msg)]
  BY DEF NearbyTypeOK
<1>2. /\ InSession(a) /\ job[a].flush # "no" /\ Phase(a) = "recv" /\ wire' = wire /\ asked' = asked
      /\ UNCHANGED pvars /\ job[a].step <= Steps(a, job[a].round)
      /\ job' = [job EXCEPT ![a] = IF job[a].flush = "end" THEN Advanced(a, rec) ELSE rec]
  BY DEF Flush, In, Running, InSession, pvars, Placed
<1>3. \/ job[a].round = 0 /\ a \in Dialer /\ job[a].step = 2
      \/ job[a].round = 0 /\ a \notin Dialer /\ job[a].step \in {1, 4}
      \/ job[a].round > 0 /\ job[a].step = RecvStep(a, job[a].round)
  BY <1>1, <1>2, PhaseSteps
<1>4. rec \in JobRecord
  <2>1. "no" \in FlushMode
    BY DEF FlushMode
  <2> QED
    BY <1>1, <2>1 DEF JobRecord
<1>5. /\ rec.at = job[a].at /\ rec.link = job[a].link /\ rec.result = job[a].result
      /\ rec.round = job[a].round /\ rec.step = job[a].step /\ rec.got = job[a].got
      /\ rec.opt = job[a].opt /\ rec.out = job[a].out /\ rec.todo = job[a].todo
      /\ rec.peer = job[a].peer /\ rec.mine = job[a].mine /\ rec.theirs = job[a].theirs
      /\ rec.buf = job[a].buf /\ rec.flush = "no" /\ rec.tampered = job[a].tampered
      /\ rec.wants = job[a].wants
  BY <1>1 DEF JobRecord
<1> HIDE DEF rec
<1>6. /\ job' \in [Job -> JobRecord] /\ OthersStay(a)
      /\ IF job[a].flush = "end" THEN Advances(a) ELSE Stays(a)
      /\ job'[a].step <= Steps(a, job'[a].round)
      /\ job'[a].out = rec.out /\ job'[a].got = rec.got /\ job'[a].todo = rec.todo
      /\ job'[a].opt = rec.opt /\ job'[a].peer = rec.peer /\ job'[a].mine = rec.mine
      /\ job'[a].theirs = rec.theirs /\ job'[a].buf = rec.buf /\ job'[a].flush = rec.flush
      /\ job'[a].wants = rec.wants /\ job'[a].tampered = rec.tampered
  <2>1. CASE job[a].flush # "end"
    <3>1. job' = [job EXCEPT ![a] = rec]
      BY <1>2, <2>1
    <3>2. job' \in [Job -> JobRecord] /\ OthersStay(a) /\ job'[a] = rec /\ Stays(a)
      BY <1>1, <1>4, <1>5, <3>1, Patched
    <3> QED
      BY <1>2, <1>5, <2>1, <3>2
  <2>2. CASE job[a].flush = "end"
    <3>1. job' = [job EXCEPT ![a] = Advanced(a, rec)]
      BY <1>2, <2>2
    <3>2. job' \in [Job -> JobRecord] /\ OthersStay(a) /\ Becomes(a, rec)
      BY <1>1, <1>2, <1>4, <1>5, <3>1, AdvancedRecord
    <3> QED
      BY <2>2, <3>2 DEF Becomes
  <2> QED
    BY <2>1, <2>2
<1>7. NearbyTypeOK'
  BY <1>1, <1>2, <1>6, TypesKept
<1> QED
  BY <1>2, <1>3, <1>5, <1>6, <1>7 DEF KeepsPeer, KeepsLists, KeepsBlobs

-----------------------------------------------------------------------------
(* How far a job that goes on has come. *)
LEMMA PastSteps ==
    ASSUME NearbyTypeOK, NEW a \in Job, Placed(a), NEW r \in 1..5
    PROVE  /\ Stays(a) => /\ HasPrepared(a, r)' <=> HasPrepared(a, r)
                          /\ HasSent(a, r)' <=> HasSent(a, r)
                          /\ HasRecvd(a, r)' <=> HasRecvd(a, r)
           /\ Advances(a) =>
                /\ HasPrepared(a, r)' <=> HasPrepared(a, r) \/ (job[a].round = r /\ job[a].step = 1)
                /\ HasSent(a, r)' <=>
                        HasSent(a, r) \/ (job[a].round = r /\ job[a].step = SendStep(a, r))
                /\ HasRecvd(a, r)' <=>
                        HasRecvd(a, r) \/ (job[a].round = r /\ job[a].step = RecvStep(a, r))
<1>1. job[a].round \in 0..6 /\ job[a].step \in 1..5 /\ job[a].step <= Steps(a, job[a].round)
  BY JobFields DEF NearbyTypeOK, Placed
<1>2. SendStep(a, r) \in 1..Steps(a, r) /\ RecvStep(a, r) \in 1..Steps(a, r) /\ Steps(a, r) \in 2..5
  BY DEF SendStep, RecvStep, Steps
<1>3. ASSUME Stays(a), NEW s \in 1..5
      PROVE  Past(a, r, s)' <=> Past(a, r, s)
  BY <1>3 DEF Stays, Past
<1>4. ASSUME Advances(a), NEW s \in 1..5, s <= Steps(a, r)
      PROVE  Past(a, r, s)' <=> Past(a, r, s) \/ (job[a].round = r /\ job[a].step = s)
  <2>1. CASE GoesOn(a)
    BY <1>1, <1>2, <1>4, <2>1 DEF GoesOn, Past
  <2>2. CASE IsDone(a)
    BY <1>1, <1>2, <1>4, <2>2 DEF IsDone, Past
  <2> QED
    BY <1>4, <2>1, <2>2 DEF Advances
<1>5. \A s \in 1..Steps(a, r) : s \in 1..5 /\ s <= Steps(a, r)
  BY <1>2
<1>6. 1 \in 1..Steps(a, r)
  BY <1>2
<1>7. SendStep(a, r)' = SendStep(a, r) /\ RecvStep(a, r)' = RecvStep(a, r)
  BY DEF SendStep, RecvStep
<1> DEFINE ss == SendStep(a, r)
           rs == RecvStep(a, r)
<1>8. ss \in 1..Steps(a, r) /\ rs \in 1..Steps(a, r)
  BY <1>2
<1> HIDE DEF ss, rs
<1>9. /\ HasSent(a, r) = Past(a, r, ss) /\ HasSent(a, r)' = Past(a, r, ss)'
      /\ HasRecvd(a, r) = Past(a, r, rs) /\ HasRecvd(a, r)' = Past(a, r, rs)'
      /\ HasPrepared(a, r) = Past(a, r, 1) /\ HasPrepared(a, r)' = Past(a, r, 1)'
  BY <1>7 DEF HasSent, HasRecvd, HasPrepared, Past, ss, rs
<1> QED
  BY <1>3, <1>4, <1>5, <1>6, <1>8, <1>9 DEF ss, rs

(* A step that only moves a job on. *)
LEMMA MovedOn ==
    ASSUME SharingInv, NearbyTypeOK', NEW a \in Job, InSession(a), Stays(a) \/ Advances(a),
           job'[a].step <= Steps(a, job'[a].round), KeepsPeer(a), asked \subseteq asked',
           job[a].round = 0 => job[a].step # (IF a \in Dialer THEN 3 ELSE 5)
    PROVE  /\ Placed(a)' /\ ShareAsked(a)' /\ PeerKnown(a)'
           /\ InSession(a)' => job'[a].link = job[a].link /\ (Stays(a) \/ GoesOn(a))
<1>1. Placed(a) /\ ShareAsked(a) /\ PeerKnown(a) /\ job[a].round \in 0..6 /\ job[a].step \in 1..5
  BY JobFields DEF SharingInv, Sharing, NearbyTypeOK
<1>2. InSession(a)' => job'[a].link = job[a].link /\ (Stays(a) \/ GoesOn(a))
  BY DEF Stays, Advances, GoesOn, IsDone, InSession
<1>3. Placed(a)'
  BY <1>1 DEF Placed, InSession, Stays, Advances, GoesOn, IsDone
<1>4. ShareAsked(a)'
  BY <1>1 DEF ShareAsked, KeepsPeer
<1>5. InSession(a)' /\ Vouched(a)' => Vouched(a)
  <2>1. CASE Stays(a)
    BY <2>1 DEF Stays, Vouched
  <2>2. CASE GoesOn(a)
    BY <1>1, <2>2 DEF GoesOn, Vouched, Steps, Job
  <2> QED
    BY <1>2, <2>1, <2>2
<1>6. PeerKnown(a)'
  BY <1>1, <1>2, <1>5 DEF PeerKnown, KeepsPeer, Me
<1> QED
  BY <1>2, <1>3, <1>4, <1>6

LEMMA TailFacts ==
    ASSUME NEW s \in Seq(Msg), s # <<>>
    PROVE  /\ Len(s) \in Nat \ {0} /\ Tail(s) \in Seq(Msg) /\ Len(Tail(s)) = Len(s) - 1
           /\ Head(s) = s[1] /\ 1 \in 1..Len(s) /\ Head(s) \in Msg
           /\ \A i \in 1..Len(Tail(s)) : Tail(s)[i] = s[i + 1] /\ i + 1 \in 1..Len(s)
<1>1. Len(s) \in Nat /\ Len(s) # 0
  BY EmptySeq, LenProperties
<1>2. Tail(s) \in Seq(Msg) /\ Len(Tail(s)) = Len(s) - 1 /\ Head(s) \in Msg
      /\ \A i \in 1..Len(Tail(s)) : Tail(s)[i] = s[i + 1]
  BY HeadTailProperties
<1>3. Head(s) = s[1]
  BY DEF Head
<1> QED
  BY <1>1, <1>2, <1>3

LEMMA AppendFacts ==
    ASSUME NEW s \in Seq(Msg), NEW m \in Msg
    PROVE  /\ Len(s) \in Nat /\ Append(s, m) \in Seq(Msg) /\ Len(Append(s, m)) = Len(s) + 1
           /\ Append(s, m)[Len(s) + 1] = m
           /\ \A i \in 1..Len(s) : Append(s, m)[i] = s[i] /\ i \in 1..Len(s) + 1
BY AppendProperties, LenProperties

LEMMA PrepShares ==
    ASSUME SharingInv, NEW a \in Job, Prep(a)
    PROVE  SharingInv'
<1>1. Placed(a) /\ NearbyTypeOK /\ Sharing(a)
  BY DEF SharingInv, Sharing
<1>2. /\ NearbyTypeOK' /\ OthersStay(a) /\ wire' = wire /\ asked' = asked
      /\ InSession(a) /\ Advances(a) /\ job'[a].step <= Steps(a, job'[a].round)
      /\ \/ job[a].round = 0 /\ a \notin Dialer /\ job[a].step = 2
         \/ job[a].round \in {1, 2, 4, 6} /\ job[a].step = 1
      /\ Prepared(a) \in Msg /\ job'[a].out = <<Prepared(a)>>
      /\ job'[a].mine = IF job[a].round = 2 THEN Prepared(a).body ELSE job[a].mine
      /\ KeepsPeer(a) /\ KeepsBuf(a) /\ job'[a].theirs = job[a].theirs
      /\ job'[a].todo = job[a].todo /\ job'[a].got = job[a].got
  BY <1>1, PrepFields
<1>3. /\ Placed(a)' /\ ShareAsked(a)' /\ PeerKnown(a)'
      /\ InSession(a)' => job'[a].link = job[a].link /\ (Stays(a) \/ GoesOn(a))
  BY <1>2, MovedOn
<1>4. OutShares(a)'
  <2> SUFFICES ASSUME InSession(a)'
               PROVE  MsgFrom(Prepared(a), Me(a), Me(job[a].link))
    BY <1>2, <1>3 DEF OutShares, Me, MsgFrom
  <2>1. job[a].round \in {0, 1, 2, 4, 6}
    BY <1>2
  <2>2. /\ Prepared(a).kind = "proof" => Prepared(a).body.device = Me(a)
        /\ Prepared(a).kind = "hello" => job[a].round = 1 /\ Prepared(a).body = job[a].opt.share
    BY <1>1, <2>1, PreparedIsMsg
  <2>3. job[a].round = 1 => job[a].opt.share \X {Me(job[a].link)} \subseteq asked
    BY <1>1, <1>2 DEF Sharing, PeerKnown, Vouched
  <2> QED
    BY <2>2, <2>3 DEF MsgFrom
<1>5. WireShares(a)'
  BY <1>1, <1>2, <1>3 DEF Sharing, WireShares, MsgFrom, Me
<1>6. GotGood(a)'
  <2> SUFFICES ASSUME InSession(a)' PROVE GotGood(a)'
    BY DEF GotGood
  <2>1. GoesOn(a)
    BY <1>2, <1>3 DEF Advances, IsDone, InSession
  <2> QED
    BY <1>1, <1>2, <1>3, <2>1 DEF Sharing, GotGood, GoesOn, RecvStep, Steps
<1>7. HasRecvd(a, 2)' <=> HasRecvd(a, 2)
  <2>1. RecvStep(a, 2) # 1
    BY DEF RecvStep
  <2> QED
    BY <1>1, <1>2, <2>1, PastSteps
<1>8. TodoGood(a)'
  <2> SUFFICES ASSUME InSession(a)' PROVE TodoGood(a)'
    BY DEF TodoGood
  <2>1. GoesOn(a)
    BY <1>2, <1>3 DEF Advances, IsDone, InSession
  <2>2. job'[a].round = job[a].round
    BY <1>2, <2>1 DEF GoesOn, Steps
  <2>3. job[a].round = 2 => ~HasRecvd(a, 2)
    BY <1>2 DEF HasRecvd, Past, RecvStep
  <2> QED
    BY <1>1, <1>2, <1>7, <2>2, <2>3 DEF Sharing, TodoGood, Common
<1>9. BufGood(a)'
  <2>1. job[a].buf = {} /\ job[a].flush = "no"
    BY <1>1, <1>2 DEF Sharing, BufGood
  <2> QED
    BY <1>2, <2>1 DEF BufGood, KeepsBuf
<1>10. Sharing(a)'
  BY <1>3, <1>4, <1>5, <1>6, <1>8, <1>9 DEF Sharing
<1>11. OtherWires(a)
  BY <1>2 DEF OtherWires
<1> QED
  BY <1>2, <1>10, <1>11, SharingStep

LEMMA HandshakeShares ==
    ASSUME SharingInv, NEW a \in Job, SettleHandshake(a)
    PROVE  SharingInv'
<1>1. Placed(a) /\ NearbyTypeOK /\ Sharing(a) /\ job[a] \in JobRecord
  BY DEF SharingInv, Sharing, NearbyTypeOK
<1>2. /\ InSession(a) /\ Phase(a) = "settle" /\ job[a].round = 0
      /\ job[a].step <= Steps(a, job[a].round) /\ UNCHANGED <<pvars, asked>>
  BY <1>1 DEF SettleHandshake, In, Running, InSession, Placed
<1>3. job[a].step = (IF a \in Dialer THEN 3 ELSE 5)
  BY <1>1, <1>2, PhaseSteps
<1>4. job[a].got \in HandshakeProof /\ job[a].got.device = Me(job[a].link)
  BY <1>1, <1>2, <1>3 DEF Sharing, GotGood
<1>5. CASE ~VerifyProof(a, job[a].got)
  <2>1. Fail(a, "refused")
    BY <1>5 DEF SettleHandshake
  <2>2. "refused" \in Result /\ "refused" # "synced"
    BY DEF Result
  <2> QED
    BY <1>2, <2>1, <2>2, FailShares
<1>6. CASE VerifyProof(a, job[a].got)
  <2>1. /\ NearbyTypeOK' /\ OthersStay(a) /\ wire' = wire /\ asked' = asked
        /\ InSession(a) /\ Advances(a) /\ job'[a].step <= Steps(a, job'[a].round)
        /\ job'[a].out = IF a \in Dialer THEN <<Message("proof", MakeProof(a))>> ELSE job[a].out
        /\ Message("proof", MakeProof(a)) \in Msg
        /\ job'[a].opt = job[a].opt /\ job'[a].peer = job[a].got.device
        /\ KeepsLists(a) /\ KeepsBuf(a) /\ job'[a].todo = job[a].todo
    BY <1>1, <1>4, <1>6, SettleFields
  <2>2. GoesOn(a) /\ InSession(a)' /\ job'[a].link = job[a].link
    BY <1>2, <2>1 DEF Advances, IsDone, GoesOn, InSession
  <2>3. Placed(a)'
    BY <1>1, <2>1, <2>2 DEF Placed, InSession, GoesOn
  <2>4. ShareAsked(a)'
    BY <1>1, <2>1 DEF Sharing, ShareAsked
  <2>5. PeerKnown(a)'
    <3>1. job[a].opt.share \X {job[a].got.device} \subseteq asked
      BY <1>1, <1>6 DEF Sharing, ShareAsked, Sharable, VerifyProof
    <3> QED
      BY <1>4, <2>1, <2>2, <3>1 DEF PeerKnown, Me
  <2>6. OutShares(a)'
    <3>1. Message("proof", MakeProof(a)).kind = "proof"
          /\ Message("proof", MakeProof(a)).body.device = Me(a)
      BY DEF Message, MakeProof
    <3>2. MsgFrom(Message("proof", MakeProof(a)), Me(a), Me(job[a].link))
      BY <3>1 DEF MsgFrom
    <3> QED
      BY <1>1, <1>2, <2>1, <2>2, <3>2 DEF Sharing, OutShares, MsgFrom, Me
  <2>7. WireShares(a)'
    BY <1>1, <1>2, <2>1, <2>2 DEF Sharing, WireShares, MsgFrom, Me
  <2>8. \/ job'[a].round = 0 /\ job'[a].step = 4 /\ a \in Dialer
        \/ job'[a].round = 1 /\ job'[a].step = 1
    <3>1. CASE a \in Dialer
      BY <1>2, <1>3, <2>2, <3>1 DEF GoesOn, Steps
    <3>2. CASE a \notin Dialer
      BY <1>2, <1>3, <2>2, <3>2 DEF GoesOn, Steps
    <3> QED
      BY <3>1, <3>2
  <2>9. GotGood(a)'
    BY <2>8 DEF GotGood, RecvStep
  <2>10. TodoGood(a)'
    <3>1. job[a].todo = {} /\ job'[a].round \in {0, 1}
      BY <1>1, <1>2, <2>8 DEF Sharing, TodoGood, HasRecvd, Past
    <3> QED
      BY <2>1, <3>1 DEF TodoGood
  <2>11. BufGood(a)'
    <3>1. job[a].buf = {} /\ job[a].flush = "no"
      BY <1>1, <1>2 DEF Sharing, BufGood
    <3> QED
      BY <2>1, <3>1 DEF BufGood, KeepsBuf
  <2>12. Sharing(a)'
    BY <2>3, <2>4, <2>5, <2>6, <2>7, <2>9, <2>10, <2>11 DEF Sharing
  <2>13. OtherWires(a)
    BY <2>1 DEF OtherWires
  <2> QED
    BY <2>1, <2>12, <2>13, SharingStep
<1> QED
  BY <1>5, <1>6

LEMMA ImportShares ==
    ASSUME SharingInv, NEW a \in Job, SettleShares(a)
    PROVE  /\ SharingInv'
           /\ \A d \in Device : (vaults'[d] \ vaults[d]) \X {d} \subseteq asked
<1>1. Placed(a) /\ NearbyTypeOK /\ Sharing(a) /\ job[a] \in JobRecord /\ Me(a) \in Device
  BY OwnerIsDevice DEF SharingInv, Sharing, NearbyTypeOK
<1>2. /\ InSession(a) /\ Phase(a) = "settle" /\ job[a].round = 1
      /\ job[a].step <= Steps(a, job[a].round)
  BY <1>1 DEF SettleShares, In, Running, InSession, Placed
<1>3. job[a].step = 4
  BY <1>1, <1>2, PhaseSteps
<1>4. job[a].got \subseteq Vault /\ job[a].got \X {Me(a)} \subseteq asked
  BY <1>1, <1>2, <1>3 DEF Sharing, GotGood, RecvStep
<1>5. /\ NearbyTypeOK' /\ OthersStay(a) /\ wire' = wire /\ asked' = asked
      /\ vaults' = [vaults EXCEPT ![Me(a)] = Adopted(Me(a), job[a].peer, job[a].got)]
      /\ Advances(a) /\ job'[a].step <= Steps(a, job'[a].round)
      /\ KeepsPeer(a) /\ KeepsLists(a) /\ KeepsBuf(a)
      /\ job'[a].todo = job[a].todo /\ job'[a].out = job[a].out
  BY <1>1, <1>4, SettleSharesFields
<1>6. /\ Placed(a)' /\ ShareAsked(a)' /\ PeerKnown(a)'
      /\ InSession(a)' => job'[a].link = job[a].link /\ (Stays(a) \/ GoesOn(a))
  BY <1>2, <1>5, MovedOn
<1>7. GoesOn(a) /\ job'[a].round = 2 /\ job'[a].step = 1
  BY <1>2, <1>3, <1>5 DEF Advances, GoesOn, IsDone, Steps
<1>8. OutShares(a)' /\ WireShares(a)'
  BY <1>1, <1>2, <1>5, <1>6 DEF Sharing, OutShares, WireShares, MsgFrom, Me
<1>9. GotGood(a)'
  BY <1>7 DEF GotGood
<1>10. TodoGood(a)'
  <2>1. job[a].todo = {}
    BY <1>1, <1>2 DEF Sharing, TodoGood, HasRecvd, Past
  <2>2. ~HasRecvd(a, 2)'
    BY <1>7 DEF HasRecvd, Past, RecvStep
  <2> QED
    BY <1>5, <1>7, <2>1, <2>2 DEF TodoGood
<1>11. BufGood(a)'
  <2>1. job[a].buf = {} /\ job[a].flush = "no"
    BY <1>1, <1>2 DEF Sharing, BufGood
  <2> QED
    BY <1>5, <2>1 DEF BufGood, KeepsBuf
<1>12. Sharing(a)'
  BY <1>6, <1>8, <1>9, <1>10, <1>11 DEF Sharing
<1>13. OtherWires(a)
  BY <1>5 DEF OtherWires
<1>14. SharingInv'
  BY <1>5, <1>12, <1>13, SharingStep
<1>15. ASSUME NEW d \in Device
       PROVE  (vaults'[d] \ vaults[d]) \X {d} \subseteq asked
  <2>1. vaults \in [Device -> SUBSET Vault]
    BY <1>1 DEF NearbyTypeOK, PeerTypeOK
  <2>2. CASE d = Me(a)
    <3>1. vaults'[d] \ vaults[d] \subseteq job[a].got
      BY <1>1, <1>5, <2>1, <2>2 DEF Adopted
    <3> QED
      BY <1>4, <2>2, <3>1
  <2>3. CASE d # Me(a)
    BY <1>1, <1>5, <2>1, <2>3
  <2> QED
    BY <2>2, <2>3
<1> QED
  BY <1>14, <1>15

(* A step of the rounds of several messages. *)
LEMMA BulkShares ==
    ASSUME SharingInv, NearbyTypeOK', NEW a \in Job, InSession(a), Stays(a) \/ Advances(a),
           job'[a].step <= Steps(a, job'[a].round), OthersStay(a),
           asked' = asked, KeepsPeer(a), KeepsLists(a), job[a].round \in {3, 5},
           OtherWires(a), WireShares(a)', OutShares(a)',
           job[a].round = 3 => job'[a].todo \subseteq job[a].todo, BufGood(a)'
    PROVE  SharingInv'
<1>1. Placed(a) /\ NearbyTypeOK /\ Sharing(a)
  BY DEF SharingInv, Sharing
<1>2. /\ Placed(a)' /\ ShareAsked(a)' /\ PeerKnown(a)'
      /\ InSession(a)' => Stays(a) \/ GoesOn(a)
  BY MovedOn
<1>3. InSession(a)' => job'[a].round \in 3..6 /\ (job'[a].round = 3 => job[a].round = 3)
  BY <1>2 DEF Stays, GoesOn
<1>4. GotGood(a)'
  BY <1>3 DEF GotGood
<1>5. TodoGood(a)'
  <2>1. InSession(a)' => HasRecvd(a, 2)'
    BY <1>3 DEF HasRecvd, Past
  <2> QED
    BY <1>1, <1>3, <2>1 DEF Sharing, TodoGood, KeepsLists, Common
<1>6. Sharing(a)'
  BY <1>2, <1>4, <1>5 DEF Sharing
<1> QED
  BY <1>6, SharingStep

LEMMA BufKept ==
    ASSUME NEW a \in Job, InSession(a), BufGood(a), Stays(a), KeepsBuf(a), KeepsLists(a)
    PROVE  BufGood(a)'
BY DEF BufGood, Stays, KeepsBuf, KeepsLists, Common, InSession

LEMMA CollectShares ==
    ASSUME SharingInv, NEW a \in Job, CollectOps(a) \/ CollectBlob(a) \/ CollectEnd(a)
    PROVE  SharingInv'
<1>1. Placed(a) /\ NearbyTypeOK /\ Sharing(a) /\ job[a] \in JobRecord
  BY DEF SharingInv, Sharing, NearbyTypeOK
<1>2. ASSUME NearbyTypeOK', OthersStay(a), wire' = wire, asked' = asked,
             InSession(a), Stays(a), job[a].round \in {3, 5}, KeepsPeer(a), KeepsLists(a),
             KeepsBuf(a),
             job'[a].got = job[a].got, job[a].round = 3 => job'[a].todo \subseteq job[a].todo,
             \A i \in 1..Len(job'[a].out) : job'[a].out[i].kind \notin {"proof", "hello"}
      PROVE  SharingInv'
  <2>1. OtherWires(a) /\ WireShares(a)'
    BY <1>1, <1>2 DEF OtherWires, Sharing, WireShares, MsgFrom, Me, Stays
  <2>2. OutShares(a)'
    BY <1>2 DEF OutShares, MsgFrom
  <2>3. BufGood(a)'
    BY <1>1, <1>2, BufKept DEF Sharing
  <2>4. job'[a].step <= Steps(a, job'[a].round)
    BY <1>1, <1>2 DEF Placed, Stays
  <2> QED
    BY <1>2, <2>1, <2>2, <2>3, <2>4, BulkShares
<1>3. CASE CollectEnd(a)
  <2>1. \A k \in {3, 5} : Message(Closing[k], <<>>).kind \in {"ops_end", "blobs_end"}
    BY DEF Closing, Message
  <2> HIDE DEF Closing, Message
  <2>2. /\ NearbyTypeOK' /\ OthersStay(a) /\ wire' = wire /\ asked' = asked
        /\ InSession(a) /\ Stays(a) /\ job[a].round \in {3, 5} /\ KeepsPeer(a) /\ KeepsLists(a)
        /\ KeepsBuf(a) /\ job'[a].got = job[a].got /\ job'[a].todo = job[a].todo
        /\ job'[a].out = <<Message(Closing[job[a].round], <<>>)>>
    BY <1>1, <1>3, CollectEndFields
  <2>3. \A i \in 1..Len(job'[a].out) : job'[a].out[i].kind \notin {"proof", "hello"}
    BY <2>1, <2>2
  <2> QED
    BY <1>2, <2>2, <2>3
<1>4. CASE CollectBlob(a)
  <2>1. /\ NearbyTypeOK' /\ OthersStay(a) /\ wire' = wire /\ asked' = asked
        /\ InSession(a) /\ Stays(a) /\ job[a].round = 5 /\ KeepsPeer(a) /\ KeepsLists(a)
        /\ KeepsBuf(a) /\ job'[a].got = job[a].got
        /\ \/ job'[a].out = <<>>
           \/ \E b \in Blob : job'[a].out = <<Message("blob", b)>>
    BY <1>1, <1>4, CollectBlobFields
  <2>2. \A i \in 1..Len(job'[a].out) : job'[a].out[i].kind \notin {"proof", "hello"}
    <3>1. CASE job'[a].out = <<>>
      BY <3>1
    <3>2. CASE job'[a].out # <<>>
      <4>1. PICK b \in Blob : job'[a].out = <<Message("blob", b)>>
        BY <2>1, <3>2
      <4>2. Message("blob", b).kind = "blob"
        BY DEF Message
      <4> HIDE DEF Message
      <4> QED
        BY <4>1, <4>2
    <3> QED
      BY <3>1, <3>2
  <2> QED
    BY <1>2, <2>1, <2>2
<1>5. CASE CollectOps(a)
  <2> DEFINE v == Min(job[a].todo)
             ops == OpsToSend(Me(a), v, job[a].theirs[v], job[a].peer)
  <2>1. job[a].todo \subseteq Vault
    <3>1. InSession(a) /\ job[a].round = 3
      BY <1>5 DEF CollectOps, In, Running, InSession
    <3>2. job[a].todo \subseteq Common(a) /\ Common(a) \subseteq Vault
      BY <1>1, <3>1, JobFields DEF Sharing, TodoGood, Common
    <3> QED
      BY <3>2
  <2>2. /\ NearbyTypeOK' /\ OthersStay(a) /\ wire' = wire /\ asked' = asked
        /\ InSession(a) /\ Stays(a) /\ job[a].round = 3 /\ KeepsPeer(a) /\ KeepsLists(a)
        /\ KeepsBuf(a) /\ job'[a].got = job[a].got
        /\ v \in Vault /\ ops \subseteq Op
        /\ job'[a].out = Batches(v, ops) /\ job'[a].todo = job[a].todo \ {v}
    BY <1>1, <1>5, <2>1, CollectOpsFields
  <2> HIDE DEF v, ops
  <2>3. \A i \in 1..Len(Batches(v, ops)) : Batches(v, ops)[i].kind = "ops"
    BY <2>2, BatchesProperty
  <2>4. \A i \in 1..Len(job'[a].out) : job'[a].out[i].kind \notin {"proof", "hello"}
    BY <2>2, <2>3
  <2> QED
    BY <1>2, <2>2, <2>4
<1> QED
  BY <1>3, <1>4, <1>5

LEMMA LinkOther ==
    ASSUME NEW a \in Job, Placed(a), InSession(a)
    PROVE  /\ job[a].link \in Job /\ job[a].link # a
           /\ job[a].link \in Dialer <=> a \notin Dialer
BY NearbyConstants DEF Placed, Job

LEMMA SendShares ==
    ASSUME SharingInv, NEW a \in Job, Send(a)
    PROVE  SharingInv'
<1> DEFINE m == Head(job[a].out)
           to == job[a].link
<1>1. Placed(a) /\ NearbyTypeOK /\ Sharing(a) /\ job[a] \in JobRecord /\ job[a].out \in Seq(Msg)
  BY JobFields DEF SharingInv, Sharing, NearbyTypeOK
<1>2. /\ NearbyTypeOK' /\ OthersStay(a) /\ asked' = asked
      /\ InSession(a) /\ m \in Msg /\ job[a].out # <<>>
      /\ \/ job[a].round = 0 /\ a \in Dialer /\ job[a].step \in {1, 4}
         \/ job[a].round = 0 /\ a \notin Dialer /\ job[a].step = 3
         \/ job[a].round > 0 /\ job[a].step = SendStep(a, job[a].round)
      /\ IF Connected(a) THEN OtherWires(to) /\ wire'[to] = Append(wire[to], m)
         ELSE wire' = wire
      /\ IF m.kind \in {"ops", "blob"} THEN Stays(a) ELSE Advances(a)
      /\ job'[a].step <= Steps(a, job'[a].round)
      /\ job'[a].out = Tail(job[a].out) /\ job'[a].got = job[a].got
      /\ KeepsPeer(a) /\ KeepsLists(a) /\ KeepsBuf(a) /\ job'[a].todo = job[a].todo
  BY <1>1, SendFields
<1>3. to \in Job /\ to # a
  BY <1>1, <1>2, LinkOther
<1>4. MsgFrom(m, Me(a), Me(to)) /\ \A i \in 1..Len(Tail(job[a].out)) :
                                    MsgFrom(Tail(job[a].out)[i], Me(a), Me(to))
  <2>1. \A i \in 1..Len(job[a].out) : MsgFrom(job[a].out[i], Me(a), Me(to))
    BY <1>1, <1>2 DEF Sharing, OutShares
  <2> QED
    BY <1>1, <1>2, <2>1, TailFacts
<1>5. Stays(a) \/ Advances(a)
  BY <1>2
<1> HIDE DEF m
<1>6. /\ Placed(a)' /\ ShareAsked(a)' /\ PeerKnown(a)'
      /\ InSession(a)' => job'[a].link = job[a].link /\ (Stays(a) \/ GoesOn(a))
  <2>1. job[a].round = 0 => job[a].step # (IF a \in Dialer THEN 3 ELSE 5)
    BY <1>2
  <2> QED
    BY <1>2, <1>5, <2>1, MovedOn
<1>7. OutShares(a)'
  BY <1>2, <1>4, <1>6 DEF OutShares, MsgFrom, Me
<1>8. WireShares(a)'
  <2>1. wire'[a] = wire[a]
    BY <1>2, <1>3 DEF OtherWires
  <2> QED
    BY <1>1, <1>2, <1>6, <2>1 DEF Sharing, WireShares, MsgFrom, Me
<1>9. job[a].round \in 0..6 /\ job[a].step \in 1..5
  BY <1>1, JobFields
<1>10. GotGood(a)'
  <2> SUFFICES ASSUME InSession(a)' PROVE GotGood(a)'
    BY DEF GotGood
  <2>1. CASE Stays(a)
    BY <1>1, <1>2, <2>1 DEF Sharing, GotGood, Stays, InSession, Me
  <2>2. CASE GoesOn(a)
    <3>1. job'[a].round # 0 \/ job'[a].step # (IF a \in Dialer THEN 3 ELSE 5)
      BY <1>2, <1>9, <2>2 DEF GoesOn, Steps
    <3>2. job'[a].round = 1 /\ job'[a].step > RecvStep(a, 1) =>
             job[a].round = 1 /\ job[a].step > RecvStep(a, 1)
      BY <1>2, <1>9, <2>2 DEF GoesOn, Steps, SendStep, RecvStep
    <3> QED
      BY <1>1, <1>2, <1>6, <3>1, <3>2 DEF Sharing, GotGood, Me, RecvStep
  <2> QED
    BY <1>6, <2>1, <2>2
<1>11. HasRecvd(a, 2)' <=> HasRecvd(a, 2)
  <2>1. RecvStep(a, 2) # SendStep(a, 2)
    BY DEF RecvStep, SendStep
  <2> QED
    BY <1>1, <1>2, <1>5, <2>1, PastSteps
<1>12. TodoGood(a)'
  <2> SUFFICES ASSUME InSession(a)' PROVE TodoGood(a)'
    BY DEF TodoGood
  <2>1. Common(a)' = Common(a)
    BY <1>2 DEF Common, KeepsLists
  <2>2. job'[a].round = 3 => job[a].round = 3 \/ (job[a].round = 2 /\ HasRecvd(a, 2))
    <3>1. CASE Stays(a)
      BY <3>1 DEF Stays
    <3>2. CASE GoesOn(a)
      BY <1>2, <1>9, <3>2 DEF GoesOn, Steps, SendStep, RecvStep, HasRecvd, Past
    <3> QED
      BY <1>6, <3>1, <3>2
  <2>3. job'[a].round = 2 /\ HasRecvd(a, 2) => job[a].round = 2
    <3>1. CASE Stays(a)
      BY <3>1 DEF Stays
    <3>2. CASE GoesOn(a)
      BY <1>9, <3>2 DEF GoesOn, HasRecvd, Past
    <3> QED
      BY <1>6, <3>1, <3>2
  <2> QED
    BY <1>1, <1>2, <1>11, <2>1, <2>2, <2>3 DEF Sharing, TodoGood
<1>13. BufGood(a)'
  <2>1. CASE Stays(a)
    BY <1>1, <1>2, <2>1, BufKept DEF Sharing
  <2>2. CASE ~Stays(a)
    <3>1. job[a].buf = {} /\ job[a].flush = "no"
      BY <1>1, <1>2 DEF Sharing, BufGood, SendStep, RecvStep
    <3> QED
      BY <1>2, <3>1 DEF BufGood, KeepsBuf
  <2> QED
    BY <2>1, <2>2
<1>14. Sharing(a)'
  BY <1>6, <1>7, <1>8, <1>10, <1>12, <1>13 DEF Sharing
<1>15. CASE ~Connected(a)
  <2>1. OtherWires(a)
    BY <1>2, <1>15 DEF OtherWires
  <2> QED
    BY <1>2, <1>14, <2>1, SharingStep
<1>16. CASE Connected(a)
  <2>0. PICK b \in Job : b = to
    BY <1>3
  <2>1. job'[b] = job[b] /\ job[b].link = a /\ b # a
    BY <1>2, <1>3, <1>16, <2>0 DEF OthersStay, Connected
  <2>2. Sharing(b) /\ wire[b] \in Seq(Msg)
    BY <1>1, <1>3, <2>0 DEF SharingInv, NearbyTypeOK
  <2>3. wire'[b] = Append(wire[b], m) /\ OtherWires(b)
    BY <1>2, <1>16, <2>0
  <2>4. WireShares(b)'
    <3> SUFFICES ASSUME InSession(b), NEW i \in 1..Len(Append(wire[b], m))
                 PROVE  MsgFrom(Append(wire[b], m)[i], Me(a), Me(b))
      BY <1>2, <2>1, <2>3 DEF WireShares, InSession, MsgFrom, Me
    <3>1. i \in 1..Len(wire[b]) \/ i = Len(wire[b]) + 1
      BY <1>2, <2>2, AppendFacts
    <3>2. \A k \in 1..Len(wire[b]) : MsgFrom(wire[b][k], Me(a), Me(b))
      BY <2>1, <2>2 DEF Sharing, WireShares
    <3> QED
      BY <1>2, <1>4, <2>0, <2>2, <3>1, <3>2, AppendFacts
  <2>5. Sharing(b)'
    <3>1. Placed(b)'
      <4>1. InSession(b)
        <5>1. a # NoJob
          BY NearbyConstants
        <5> QED
          BY <2>1, <2>2, <5>1 DEF Sharing, Placed
      <4> QED
        BY <2>1, <2>2, <4>1 DEF Sharing, Placed, InSession
    <3>2. ShareAsked(b)' /\ PeerKnown(b)' /\ OutShares(b)' /\ GotGood(b)'
      BY <1>2, <2>1, <2>2
         DEF Sharing, ShareAsked, PeerKnown, OutShares, GotGood, InSession, Vouched, MsgFrom, Me
    <3>3. TodoGood(b)' /\ BufGood(b)'
      BY <2>1, <2>2 DEF Sharing, TodoGood, BufGood, InSession, HasRecvd, Past, Common
    <3> QED
      BY <2>4, <3>1, <3>2, <3>3 DEF Sharing
  <2>6. ASSUME NEW j \in Job, j # a, j # b
        PROVE  Sharing(j)'
    <3>1. job'[j] = job[j] /\ wire'[j] = wire[j] /\ Sharing(j)
      BY <1>2, <2>3, <2>6 DEF OthersStay, OtherWires, SharingInv
    <3> QED
      BY <1>2, <3>1, SharingKept
  <2> QED
    BY <1>2, <1>14, <2>5, <2>6 DEF SharingInv
<1> QED
  BY <1>15, <1>16

LEMMA RecvMessageShares ==
    ASSUME SharingInv, NEW a \in Job, Receiving(a), Allowed(a, Arrived(a)), RecvMessage(a)
    PROVE  SharingInv'
<1> DEFINE m == Arrived(a)
<1>1. Placed(a) /\ NearbyTypeOK /\ Sharing(a) /\ job[a] \in JobRecord /\ wire[a] \in Seq(Msg)
  BY DEF SharingInv, Sharing, NearbyTypeOK
<1>2. /\ m = Head(wire[a]) /\ m \in Msg /\ wire[a] # <<>> /\ InSession(a)
      /\ \/ job[a].round = 0 /\ a \in Dialer /\ job[a].step = 2
         \/ job[a].round = 0 /\ a \notin Dialer /\ job[a].step \in {1, 4}
         \/ job[a].round > 0 /\ job[a].step = RecvStep(a, job[a].round)
  BY <1>1, ArrivedFacts
<1>3. /\ NearbyTypeOK' /\ OthersStay(a) /\ asked' = asked
      /\ OtherWires(a) /\ wire'[a] = Tail(wire[a])
      /\ Advances(a) /\ job'[a].step <= Steps(a, job'[a].round)
      /\ job[a].round \in {0, 1, 2, 4, 6}
      /\ m.kind = CASE job[a].round = 0 -> IF job[a].step = 1 THEN "e" ELSE "proof"
                    [] job[a].round = 1 -> "hello" [] job[a].round = 2 -> "inventory"
                    [] job[a].round = 4 -> "blob_want" [] job[a].round = 6 -> "done"
      /\ job'[a].got = IF m.kind \in {"hello", "proof"} THEN m.body ELSE <<>>
      /\ job'[a].theirs = IF job[a].round = 2 THEN m.body ELSE job[a].theirs
      /\ job[a].round = 2 => job'[a].todo = DOMAIN job[a].mine \cap DOMAIN m.body
      /\ job[a].round \in {0, 1} => job'[a].todo = job[a].todo
      /\ KeepsPeer(a) /\ KeepsBuf(a) /\ job'[a].mine = job[a].mine /\ job'[a].out = job[a].out
  BY <1>1, RecvMessageFields
<1>4. /\ MsgFrom(m, Me(job[a].link), Me(a))
      /\ \A i \in 1..Len(Tail(wire[a])) : MsgFrom(Tail(wire[a])[i], Me(job[a].link), Me(a))
  <2>1. \A i \in 1..Len(wire[a]) : MsgFrom(wire[a][i], Me(job[a].link), Me(a))
    BY <1>1, <1>2 DEF Sharing, WireShares
  <2> QED
    BY <1>1, <1>2, <2>1, TailFacts
<1>5. m.body \in BodyType(m.kind)
  BY <1>2, MsgFacts
<1> HIDE DEF m
<1>6. /\ Placed(a)' /\ ShareAsked(a)' /\ PeerKnown(a)'
      /\ InSession(a)' => job'[a].link = job[a].link /\ (Stays(a) \/ GoesOn(a))
  <2>1. job[a].round = 0 => job[a].step # (IF a \in Dialer THEN 3 ELSE 5)
    BY <1>2
  <2> QED
    BY <1>2, <1>3, <2>1, MovedOn
<1>7. OutShares(a)'
  BY <1>1, <1>2, <1>3, <1>6 DEF Sharing, OutShares, MsgFrom, Me
<1>8. WireShares(a)'
  BY <1>3, <1>4, <1>6 DEF WireShares, MsgFrom, Me
<1>9. job[a].round \in 0..6 /\ job[a].step \in 1..5
  BY <1>1, JobFields
<1>10. InSession(a)' => GoesOn(a)
  BY <1>3 DEF Advances, IsDone, InSession
<1>11. GotGood(a)'
  <2> SUFFICES ASSUME InSession(a)' PROVE GotGood(a)'
    BY DEF GotGood
  <2>1. job'[a].round = 0 /\ job'[a].step = (IF a \in Dialer THEN 3 ELSE 5) => m.kind = "proof"
    BY <1>2, <1>3, <1>9, <1>10 DEF GoesOn, Steps
  <2>2. job'[a].round = 1 /\ job'[a].step > RecvStep(a, 1) => m.kind = "hello"
    BY <1>2, <1>3, <1>9, <1>10 DEF GoesOn, Steps, RecvStep
  <2>3. m.kind = "proof" => m.body \in HandshakeProof /\ m.body.device = Me(job[a].link)
    BY <1>4, <1>5, Bodies DEF MsgFrom
  <2>4. m.kind = "hello" => m.body \subseteq Vault /\ m.body \X {Me(a)} \subseteq asked
    BY <1>4, <1>5, Bodies DEF MsgFrom
  <2> QED
    BY <1>3, <1>6, <2>1, <2>2, <2>3, <2>4 DEF GotGood, Me, RecvStep
<1>12. HasRecvd(a, 2)' <=> HasRecvd(a, 2) \/ (job[a].round = 2 /\ job[a].step = RecvStep(a, 2))
  BY <1>1, <1>3, PastSteps
<1>13. TodoGood(a)'
  <2> SUFFICES ASSUME InSession(a)' PROVE TodoGood(a)'
    BY DEF TodoGood
  <2>1. CASE job[a].round \in {0, 1}
    <3>1. ~HasRecvd(a, 2) /\ job[a].todo = {}
      BY <1>1, <1>2, <2>1 DEF Sharing, TodoGood, HasRecvd, Past
    <3>2. ~HasRecvd(a, 2)' /\ job'[a].round \in {0, 1, 2}
      BY <1>12, <2>1, <3>1, <1>10, <1>9 DEF GoesOn
    <3> QED
      BY <1>3, <2>1, <3>1, <3>2 DEF TodoGood
  <2>2. CASE job[a].round = 2
    <3>1. HasRecvd(a, 2)' /\ job'[a].todo = Common(a)'
      BY <1>2, <1>3, <1>12, <2>2 DEF Common
    <3> QED
      BY <3>1 DEF TodoGood
  <2>3. CASE job[a].round \in {4, 6}
    <3>1. HasRecvd(a, 2)' /\ job'[a].round \in {4, 5, 6}
      BY <1>9, <1>10, <1>12, <2>3 DEF GoesOn, HasRecvd, Past
    <3> QED
      BY <3>1 DEF TodoGood
  <2> QED
    BY <1>3, <2>1, <2>2, <2>3
<1>14. BufGood(a)'
  <2>1. job[a].buf = {} /\ job[a].flush = "no"
    BY <1>1, <1>2, <1>3 DEF Sharing, BufGood
  <2> QED
    BY <1>3, <2>1 DEF BufGood, KeepsBuf
<1>15. Sharing(a)'
  BY <1>6, <1>7, <1>8, <1>11, <1>13, <1>14 DEF Sharing
<1> QED
  BY <1>3, <1>15, SharingStep

LEMMA TailShares ==
    ASSUME SharingInv, NEW a \in Job, InSession(a), wire[a] # <<>>, wire'[a] = Tail(wire[a]),
           asked' = asked, job'[a].link = job[a].link \/ ~InSession(a)'
    PROVE  WireShares(a)'
<1>1. wire[a] \in Seq(Msg) /\ WireShares(a)
  BY DEF SharingInv, Sharing, NearbyTypeOK
<1>2. \A i \in 1..Len(Tail(wire[a])) : MsgFrom(Tail(wire[a])[i], Me(job[a].link), Me(a))
  BY <1>1, TailFacts DEF WireShares
<1> QED
  BY <1>2 DEF WireShares, MsgFrom, Me

LEMMA SameOut ==
    ASSUME SharingInv, NEW a \in Job, InSession(a), job'[a].out = job[a].out, asked' = asked,
           job'[a].link = job[a].link \/ ~InSession(a)'
    PROVE  OutShares(a)'
BY DEF SharingInv, Sharing, OutShares, MsgFrom, Me

LEMMA SameLink ==
    ASSUME NEW a \in Job, Stays(a) \/ Advances(a)
    PROVE  job'[a].link = job[a].link \/ ~InSession(a)'
BY DEF Stays, Advances, GoesOn, IsDone, InSession

LEMMA RecvBulkShares ==
    ASSUME SharingInv, NEW a \in Job, Receiving(a), Allowed(a, Arrived(a)),
           RecvOps(a) \/ RecvBlob(a) \/ RecvBlobsEnd(a)
    PROVE  SharingInv'
<1>1. Placed(a) /\ NearbyTypeOK /\ Sharing(a) /\ job[a] \in JobRecord
      /\ job[a].step <= Steps(a, job[a].round)
  BY DEF SharingInv, Sharing, NearbyTypeOK, Placed
<1>2. wire[a] # <<>> /\ InSession(a) /\ Arrived(a) \in Msg
  BY <1>1, ArrivedFacts
<1>3. CASE RecvOps(a)
  <2> DEFINE m == Arrived(a)
  <2>1. /\ NearbyTypeOK' /\ OthersStay(a) /\ asked' = asked
        /\ OtherWires(a) /\ wire'[a] = Tail(wire[a])
        /\ Stays(a) /\ job[a].round = 3 /\ job[a].step = RecvStep(a, 3)
        /\ \/ m.kind = "ops" /\ m.body.vault \in Common(a)
           \/ m.kind = "ops_end"
        /\ job'[a].buf = job[a].buf \cup
                 (IF m.kind = "ops" THEN {m.body.vault} \X m.body.ops ELSE {})
        /\ KeepsPeer(a) /\ KeepsLists(a) /\ job'[a].todo = job[a].todo
        /\ job'[a].out = job[a].out
    BY <1>1, <1>3, RecvOpsFields
  <2> HIDE DEF m
  <2>2. BufGood(a)'
    <3>1. \A x \in job'[a].buf : x[1] \in Common(a)
      BY <1>1, <1>2, <2>1 DEF Sharing, BufGood
    <3>2. Common(a)' = Common(a)
      BY <2>1 DEF KeepsLists, Common
    <3> QED
      BY <2>1, <3>1, <3>2 DEF BufGood, Stays, RecvStep
  <2>3. WireShares(a)' /\ OutShares(a)'
    BY <1>2, <2>1, TailShares, SameOut, SameLink
  <2>4. job'[a].step <= Steps(a, job'[a].round)
    BY <1>1, <2>1 DEF Stays
  <2> QED
    BY <1>2, <2>1, <2>2, <2>3, <2>4, BulkShares
<1>4. CASE RecvBlob(a)
  <2>1. /\ NearbyTypeOK' /\ OthersStay(a) /\ asked' = asked
        /\ OtherWires(a) /\ wire'[a] = Tail(wire[a])
        /\ Stays(a) /\ job[a].round = 5
        /\ KeepsPeer(a) /\ KeepsLists(a) /\ KeepsBuf(a) /\ job'[a].out = job[a].out
    BY <1>1, <1>4, RecvBlobFields
  <2>2. BufGood(a)'
    BY <1>1, <1>2, <2>1, BufKept DEF Sharing
  <2>3. WireShares(a)' /\ OutShares(a)'
    BY <1>2, <2>1, TailShares, SameOut, SameLink
  <2>4. job'[a].step <= Steps(a, job'[a].round)
    BY <1>1, <2>1 DEF Stays
  <2> QED
    BY <1>2, <2>1, <2>2, <2>3, <2>4, BulkShares
<1>5. CASE RecvBlobsEnd(a)
  <2>1. /\ NearbyTypeOK' /\ OthersStay(a) /\ asked' = asked
        /\ OtherWires(a) /\ wire'[a] = Tail(wire[a])
        /\ Advances(a) /\ job[a].round = 5 /\ job'[a].step <= Steps(a, job'[a].round)
        /\ KeepsPeer(a) /\ KeepsLists(a) /\ KeepsBuf(a) /\ job'[a].out = job[a].out
    BY <1>1, <1>5, RecvBlobsEndFields
  <2>2. BufGood(a)'
    <3>1. job[a].buf = {} /\ job[a].flush = "no"
      BY <1>1, <1>2, <2>1 DEF Sharing, BufGood
    <3> QED
      BY <2>1, <3>1 DEF BufGood, KeepsBuf
  <2>3. WireShares(a)' /\ OutShares(a)'
    BY <1>2, <2>1, TailShares, SameOut, SameLink
  <2> QED
    BY <1>2, <2>1, <2>2, <2>3, BulkShares
<1> QED
  BY <1>3, <1>4, <1>5

LEMMA FlushShares ==
    ASSUME SharingInv, NEW a \in Job, Flush(a)
    PROVE  SharingInv' /\ UNCHANGED vaults
<1>1. Placed(a) /\ NearbyTypeOK /\ Sharing(a) /\ job[a] \in JobRecord
      /\ job[a].step <= Steps(a, job[a].round)
  BY DEF SharingInv, Sharing, NearbyTypeOK, Placed
<1>2. InSession(a) /\ job[a].flush # "no" /\ UNCHANGED vaults
  BY DEF Flush, In, Running, InSession
<1>3. job[a].round = 3 /\ job[a].step = RecvStep(a, 3)
  BY <1>1, <1>2 DEF Sharing, BufGood
<1>4. CASE job[a].buf # {}
  <2> DEFINE v == Min({p[1] : p \in job[a].buf})
  <2>1. /\ NearbyTypeOK' /\ OthersStay(a) /\ wire' = wire /\ asked' = asked /\ Stays(a)
        /\ job'[a].buf = {p \in job[a].buf : p[1] # v} /\ job'[a].flush = job[a].flush
        /\ KeepsPeer(a) /\ KeepsLists(a)
        /\ job'[a].todo = job[a].todo /\ job'[a].out = job[a].out
    BY <1>1, <1>4, FlushIngestFields
  <2> HIDE DEF v
  <2>2. BufGood(a)'
    <3>1. \A x \in job'[a].buf : x[1] \in Common(a)
      BY <1>1, <1>2, <2>1 DEF Sharing, BufGood
    <3>2. Common(a)' = Common(a)
      BY <2>1 DEF KeepsLists, Common
    <3> QED
      BY <1>3, <2>1, <3>1, <3>2 DEF BufGood, Stays, RecvStep
  <2>3. OutShares(a)' /\ OtherWires(a)
    BY <1>2, <2>1, SameOut, SameLink DEF OtherWires
  <2>4. WireShares(a)'
    BY <1>1, <1>2, <2>1, SameLink DEF Sharing, WireShares, MsgFrom, Me
  <2>5. job'[a].step <= Steps(a, job'[a].round)
    BY <1>1, <2>1 DEF Stays
  <2> QED
    BY <1>2, <1>3, <2>1, <2>2, <2>3, <2>4, <2>5, BulkShares
<1>5. CASE job[a].buf = {}
  <2>1. /\ NearbyTypeOK' /\ OthersStay(a) /\ wire' = wire /\ asked' = asked
        /\ Stays(a) \/ Advances(a)
        /\ job'[a].step <= Steps(a, job'[a].round)
        /\ job'[a].buf = {} /\ job'[a].flush = "no"
        /\ KeepsPeer(a) /\ KeepsLists(a)
        /\ job'[a].todo = job[a].todo /\ job'[a].out = job[a].out
    BY <1>1, <1>5, FlushDoneFields
  <2>2. BufGood(a)'
    BY <2>1 DEF BufGood
  <2>3. OutShares(a)' /\ OtherWires(a)
    BY <1>2, <2>1, SameOut, SameLink DEF OtherWires
  <2>4. WireShares(a)'
    BY <1>1, <1>2, <2>1, SameLink DEF Sharing, WireShares, MsgFrom, Me
  <2> QED
    BY <1>2, <1>3, <2>1, <2>2, <2>3, <2>4, BulkShares
<1> QED
  BY <1>4, <1>5

LEMMA OptionsTyped ==
    ASSUME NEW j \in Job, NEW opt \in Options[j]
    PROVE  opt \in SessionOptions /\ opt.share \subseteq Vault
BY NearbyConstants DEF SessionOptions

LEMMA ListenFields ==
    ASSUME NearbyTypeOK, NEW a \in Job, NEW opt \in Options[a], Placed(a), NearbyListen(a, opt)
    PROVE  /\ NearbyTypeOK' /\ OthersStay(a) /\ wire' = wire /\ UNCHANGED pvars
           /\ wire[a] = <<>> /\ a \in Listener /\ Sharable(opt) /\ job[a].at = "idle"
           /\ asked' = asked \cup (opt.share \X {opt.expected})
           /\ job'[a] = [Fresh(opt) EXCEPT !.at = "accepting"]
<1> DEFINE r == [Fresh(opt) EXCEPT !.at = "accepting"]
<1>1. job \in [Job -> JobRecord] /\ wire \in [Job -> Seq(Msg)]
  BY DEF NearbyTypeOK
<1>2. r \in JobRecord
  <2>1. Fresh(opt) \in JobRecord /\ "accepting" \in Place
    BY OptionsTyped, FreshRecord DEF Place
  <2> QED
    BY <2>1 DEF JobRecord
<1>3. /\ job' = [job EXCEPT ![a] = r] /\ wire' = wire /\ UNCHANGED pvars
      /\ a \in Listener /\ Sharable(opt) /\ job[a].at = "idle"
      /\ asked' = asked \cup (opt.share \X {opt.expected})
  BY DEF NearbyListen, Ask
<1> HIDE DEF r
<1>4. job' \in [Job -> JobRecord] /\ OthersStay(a) /\ job'[a] = r
  BY <1>1, <1>2, <1>3, Replaced
<1>5. NearbyTypeOK'
  BY <1>1, <1>3, <1>4, TypesKept
<1> QED
  BY <1>3, <1>4, <1>5 DEF Placed, r

LEMMA ConnectFields ==
    ASSUME NearbyTypeOK, NEW i \in Job, NEW l \in Listener, NEW opt \in Options[i],
           Placed(i), Placed(l), NearbyConnect(i, l, opt)
    PROVE  /\ NearbyTypeOK' /\ wire' = wire /\ UNCHANGED pvars
           /\ i \in Dialer /\ l \in Job /\ i # l /\ Sharable(opt)
           /\ job[i].at = "idle" /\ job[l].at = "accepting"
           /\ asked' = asked \cup (opt.share \X {opt.expected})
           /\ \A j \in Job \ {i, l} : job'[j] = job[j]
           /\ job'[i] = [Fresh(opt) EXCEPT !.at = "session", !.link = l,
                                           !.out = <<Message("e", <<>>)>>]
           /\ job'[l] = [job[l] EXCEPT !.at = "session", !.link = i]
<1> DEFINE r == [Fresh(opt) EXCEPT !.at = "session", !.link = l, !.out = <<Message("e", <<>>)>>]
           s == [job[l] EXCEPT !.at = "session", !.link = i]
<1>1. job \in [Job -> JobRecord] /\ wire \in [Job -> Seq(Msg)] /\ l \in Job /\ job[l] \in JobRecord
  BY DEF NearbyTypeOK, Job
<1>2. "session" \in Place /\ l \in Link /\ i \in Link
  BY <1>1 DEF Place, Link
<1>3. r \in JobRecord
  <2>1. Fresh(opt) \in JobRecord
    BY OptionsTyped, FreshRecord
  <2>2. <<Message("e", <<>>)>> \in Outbox
    <3>1. Message("e", <<>>) \in Msg
      BY MsgFacts, Bodies DEF Kind
    <3> QED
      BY <3>1 DEF Outbox
  <2> QED
    BY <1>2, <2>1, <2>2 DEF JobRecord
<1>4. s \in JobRecord
  BY <1>1, <1>2 DEF JobRecord
<1>5. /\ job' = [job EXCEPT ![i] = r, ![l] = s] /\ wire' = wire /\ UNCHANGED pvars
      /\ i \in Dialer /\ Sharable(opt) /\ job[i].at = "idle" /\ job[l].at = "accepting"
      /\ asked' = asked \cup (opt.share \X {opt.expected})
  BY DEF NearbyConnect, Ask
<1> HIDE DEF r, s
<1>6. /\ job' \in [Job -> JobRecord] /\ job'[i] = r /\ job'[l] = s /\ i # l
      /\ \A j \in Job \ {i, l} : job'[j] = job[j]
  BY <1>1, <1>3, <1>4, <1>5, NearbyConstants
<1>7. NearbyTypeOK'
  BY <1>1, <1>5, <1>6, TypesKept
<1> QED
  BY <1>1, <1>5, <1>6, <1>7 DEF r, s

LEMMA ListenShares ==
    ASSUME SharingInv, NEW a \in Job, NEW opt \in Options[a], NearbyListen(a, opt)
    PROVE  SharingInv'
<1>1. Placed(a) /\ NearbyTypeOK
  BY DEF SharingInv, Sharing
<1>2. /\ NearbyTypeOK' /\ OthersStay(a) /\ wire' = wire
      /\ wire[a] = <<>> /\ a \in Listener /\ Sharable(opt)
      /\ asked' = asked \cup (opt.share \X {opt.expected})
      /\ job'[a] = [Fresh(opt) EXCEPT !.at = "accepting"]
  BY <1>1, ListenFields
<1>3. /\ job'[a].at = "accepting" /\ job'[a].opt = opt /\ job'[a].link = NoJob
      /\ job'[a].round = 0 /\ job'[a].step = 1 /\ job'[a].out = <<>> /\ job'[a].todo = {}
      /\ job'[a].buf = {} /\ job'[a].flush = "no" /\ job'[a].result = "none"
  BY <1>2 DEF Fresh
<1>4. Placed(a)'
  BY <1>2, <1>3 DEF Placed, InSession, Steps
<1>5. ShareAsked(a)'
  BY <1>2, <1>3 DEF ShareAsked, Sharable
<1>6. Sharing(a)'
  BY <1>3, <1>4, <1>5
     DEF Sharing, PeerKnown, OutShares, WireShares, GotGood, TodoGood, BufGood, InSession
<1>7. OtherWires(a) /\ asked \subseteq asked'
  BY <1>2 DEF OtherWires
<1> QED
  BY <1>2, <1>6, <1>7, SharingStep

LEMMA ConnectShares ==
    ASSUME SharingInv, NEW i \in Job, NEW l \in Listener, NEW opt \in Options[i],
           NearbyConnect(i, l, opt)
    PROVE  SharingInv'
<1>1. l \in Job /\ Placed(i) /\ Placed(l) /\ NearbyTypeOK /\ Sharing(l) /\ job[l] \in JobRecord
  BY DEF SharingInv, Sharing, Job, NearbyTypeOK
<1>2. /\ NearbyTypeOK' /\ wire' = wire
      /\ i \in Dialer /\ i # l /\ Sharable(opt) /\ job[i].at = "idle" /\ job[l].at = "accepting"
      /\ asked' = asked \cup (opt.share \X {opt.expected})
      /\ \A j \in Job \ {i, l} : job'[j] = job[j]
      /\ job'[i] = [Fresh(opt) EXCEPT !.at = "session", !.link = l,
                                      !.out = <<Message("e", <<>>)>>]
      /\ job'[l] = [job[l] EXCEPT !.at = "session", !.link = i]
  BY <1>1, ConnectFields
<1>3. /\ job'[i].at = "session" /\ job'[i].opt = opt /\ job'[i].link = l
      /\ job'[i].round = 0 /\ job'[i].step = 1 /\ job'[i].out = <<Message("e", <<>>)>>
      /\ job'[i].todo = {} /\ job'[i].buf = {} /\ job'[i].flush = "no" /\ job'[i].result = "none"
      /\ wire[i] = <<>>
  BY <1>1, <1>2 DEF Fresh, Placed
<1>4. /\ job'[l].at = "session" /\ job'[l].opt = job[l].opt /\ job'[l].link = i
      /\ job'[l].round = 0 /\ job'[l].step = 1 /\ job'[l].out = <<>> /\ job'[l].todo = {}
      /\ job'[l].buf = {} /\ job'[l].flush = "no" /\ job'[l].result # "synced"
      /\ wire[l] = <<>>
  BY <1>1, <1>2 DEF JobRecord, Placed
<1>5. i # NoJob /\ l # NoJob /\ l \notin Dialer
  BY <1>1, NearbyConstants
<1>6. Placed(i)' /\ Placed(l)'
  BY <1>2, <1>3, <1>4, <1>5 DEF Placed, InSession, Steps
<1>7. ShareAsked(i)' /\ ShareAsked(l)'
  BY <1>1, <1>2, <1>3, <1>4 DEF ShareAsked, Sharable, Sharing
<1>8. PeerKnown(i)' /\ PeerKnown(l)'
  BY <1>3, <1>4 DEF PeerKnown, Vouched
<1>9. OutShares(i)' /\ OutShares(l)'
  <2>1. Message("e", <<>>).kind = "e"
    BY DEF Message
  <2> HIDE DEF Message
  <2> QED
    BY <1>3, <1>4, <2>1 DEF OutShares, MsgFrom
<1>10. WireShares(i)' /\ WireShares(l)'
  BY <1>2, <1>3, <1>4 DEF WireShares
<1>11. GotGood(i)' /\ GotGood(l)'
  BY <1>3, <1>4 DEF GotGood
<1>12. TodoGood(i)' /\ TodoGood(l)'
  BY <1>3, <1>4 DEF TodoGood, HasRecvd, Past
<1>13. BufGood(i)' /\ BufGood(l)'
  BY <1>3, <1>4 DEF BufGood
<1>14. Sharing(i)' /\ Sharing(l)'
  BY <1>6, <1>7, <1>8, <1>9, <1>10, <1>11, <1>12, <1>13 DEF Sharing
<1>15. ASSUME NEW j \in Job \ {i, l}
       PROVE  Sharing(j)'
  <2>1. asked \subseteq asked' /\ job'[j] = job[j] /\ wire'[j] = wire[j] /\ Sharing(j)
    BY <1>2 DEF SharingInv
  <2> QED
    BY <2>1, SharingKept
<1> QED
  BY <1>2, <1>14, <1>15 DEF SharingInv

LEMMA ServeEndsFields ==
    ASSUME NearbyTypeOK, NEW a \in Job, Placed(a), ServeEnds(a)
    PROVE  /\ NearbyTypeOK' /\ OthersStay(a) /\ wire' = wire /\ asked' = asked /\ UNCHANGED pvars
           /\ IsOut(a)
<1>1. job \in [Job -> JobRecord] /\ wire \in [Job -> Seq(Msg)] /\ job[a] \in JobRecord
  BY DEF NearbyTypeOK
<1>2. PICK w \in Result : w # "synced" /\ job' = [job EXCEPT ![a] = Ended(a, w)]
  <2>1. "stopped" \in Result /\ "expired" \in Result
    BY DEF Result
  <2>2. job' = [job EXCEPT ![a] = Ended(a, IF a \in stop THEN "stopped" ELSE "expired")]
    BY DEF ServeEnds
  <2>3. CASE a \in stop
    BY <2>1, <2>2, <2>3
  <2>4. CASE a \notin stop
    BY <2>1, <2>2, <2>4
  <2> QED
    BY <2>3, <2>4
<1>3. Ended(a, w) \in JobRecord
  <2>1. "ended" \in Place /\ NoJob \in Link
    BY DEF Place, Link
  <2> QED
    BY <1>1, <2>1 DEF Ended, JobRecord
<1>4. job' \in [Job -> JobRecord] /\ OthersStay(a) /\ job'[a] = Ended(a, w)
  BY <1>1, <1>2, <1>3, Replaced
<1>5. wire' = wire /\ asked' = asked /\ UNCHANGED pvars /\ job[a].at = "accepting"
  BY DEF ServeEnds
<1>6. NearbyTypeOK'
  BY <1>1, <1>4, <1>5, TypesKept
<1>7. IsOut(a)
  BY <1>1, <1>2, <1>4, <1>5 DEF IsOut, Ended, JobRecord, Placed
<1> QED
  BY <1>4, <1>5, <1>6, <1>7

LEMMA OutSharing ==
    ASSUME SharingInv, NearbyTypeOK', NEW a \in Job, OthersStay(a), OtherWires(a), IsOut(a),
           asked' = asked
    PROVE  SharingInv'
<1>1. Sharing(a)'
  BY DEF SharingInv, Sharing, Placed, ShareAsked, PeerKnown, OutShares, WireShares, GotGood,
         TodoGood, BufGood, InSession, IsOut
<1> QED
  BY <1>1, SharingStep

LEMMA RecvShares ==
    ASSUME SharingInv, NEW a \in Job, Recv(a)
    PROVE  SharingInv' /\ UNCHANGED vaults
<1>1. Receiving(a)
  BY DEF Recv
<1>2. CASE ~Allowed(a, Arrived(a))
  <2>1. Fail(a, "protocol") /\ UNCHANGED <<pvars, asked>>
    BY <1>2 DEF Recv, ProtocolError
  <2>2. "protocol" \in Result /\ "protocol" # "synced"
    BY DEF Result
  <2> QED
    BY <2>1, <2>2, FailShares DEF pvars
<1>3. CASE Allowed(a, Arrived(a))
  <2>1. RecvMessage(a) \/ RecvOps(a) \/ RecvBlob(a) \/ RecvBlobsEnd(a)
    BY <1>3 DEF Recv
  <2>2. UNCHANGED vaults
    BY <2>1 DEF RecvMessage, RecvOps, RecvBlob, RecvBlobsEnd, pvars
  <2>3. SharingInv'
    BY <1>1, <1>3, <2>1, RecvMessageShares, RecvBulkShares
  <2> QED
    BY <2>2, <2>3
<1> QED
  BY <1>2, <1>3

LEMMA LostShares ==
    ASSUME SharingInv, NEW a \in Job, VaultLocked(a) \/ PeerClosed(a) \/ LinkBreaks(a)
    PROVE  SharingInv' /\ UNCHANGED vaults
<1>1. \E why \in {"locked", "refused", "lost"} : Fail(a, why)
  BY DEF VaultLocked, PeerClosed, LinkBreaks
<1>2. UNCHANGED <<pvars, asked>>
  BY DEF VaultLocked, PeerClosed, LinkBreaks
<1>3. \A why \in {"locked", "refused", "lost"} : why \in Result /\ why # "synced"
  BY DEF Result
<1> QED
  BY <1>1, <1>2, <1>3, FailShares DEF pvars

LEMMA QuietShares ==
    ASSUME SharingInv, PeerTypeOK', asked' = asked, job' = job, wire' = wire
    PROVE  SharingInv'
<1>1. NearbyTypeOK'
  BY DEF SharingInv, NearbyTypeOK
<1>2. ASSUME NEW j \in Job
      PROVE  Sharing(j)'
  <2>1. Sharing(j) /\ job'[j] = job[j] /\ wire'[j] = wire[j]
    BY DEF SharingInv
  <2> QED
    BY <2>1, SharingKept
<1> QED
  BY <1>1, <1>2 DEF SharingInv

LEMMA SharingInvStep ==
    ASSUME SharingInv, [NearbyNext]_vars
    PROVE  /\ SharingInv'
           /\ \A d \in Device : (vaults'[d] \ vaults[d]) \X {d} \subseteq asked
<1> DEFINE Goal == SharingInv' /\ \A d \in Device : (vaults'[d] \ vaults[d]) \X {d} \subseteq asked
<1>0. ASSUME SharingInv', UNCHANGED vaults
      PROVE  Goal
  BY <1>0
<1>a. PeerTypeOK
  BY DEF SharingInv, NearbyTypeOK
<1> SUFFICES Goal
  OBVIOUS
<1> HIDE DEF Goal
<1>1. ASSUME NEW j \in Job, NEW opt \in Options[j], NearbyListen(j, opt)
      PROVE  Goal
  <2>1. UNCHANGED vaults
    BY <1>1 DEF NearbyListen, pvars
  <2> QED
    BY <1>0, <1>1, <2>1, ListenShares
<1>2. ASSUME NEW j \in Job, NEW opt \in Options[j], NEW l \in Listener, NearbyConnect(j, l, opt)
      PROVE  Goal
  <2>1. UNCHANGED vaults
    BY <1>2 DEF NearbyConnect, pvars
  <2> QED
    BY <1>0, <1>2, <2>1, ConnectShares
<1>3. ASSUME NEW d \in Device, NearbyStop(d) \/ Lock(d) \/ Unlock(d)
      PROVE  Goal
  <2>1. UNCHANGED <<pins, vaults, heads, blobs>> /\ unlocked' \subseteq Device
        /\ asked' = asked /\ job' = job /\ wire' = wire
    BY <1>3, <1>a DEF NearbyStop, Lock, Unlock, LockSession, UnlockSession, pvars, PeerTypeOK
  <2>2. PeerTypeOK'
    BY <1>a, <2>1 DEF PeerTypeOK
  <2> QED
    BY <1>0, <2>1, <2>2, QuietShares
<1>4. ASSUME NEW l \in Listener, WindowElapses(l)
      PROVE  Goal
  <2>1. UNCHANGED pvars /\ asked' = asked /\ job' = job /\ wire' = wire
    BY <1>4 DEF WindowElapses
  <2>2. PeerTypeOK'
    BY <1>a, <2>1 DEF PeerTypeOK, pvars
  <2> QED
    BY <1>0, <2>1, <2>2, QuietShares DEF pvars
<1>5. ASSUME NEW l \in Listener, ServeEnds(l)
      PROVE  Goal
  <2>1. l \in Job
    BY DEF Job
  <2>2. /\ NearbyTypeOK' /\ OthersStay(l) /\ wire' = wire /\ asked' = asked /\ UNCHANGED pvars
        /\ IsOut(l)
    BY <1>5, <2>1, ServeEndsFields DEF SharingInv, Sharing
  <2>3. OtherWires(l)
    BY <2>2 DEF OtherWires
  <2> QED
    BY <1>0, <2>1, <2>2, <2>3, OutSharing DEF pvars
<1>6. ASSUME NEW j \in Job, SettleHandshake(j)
      PROVE  Goal
  <2>1. UNCHANGED vaults
    BY <1>6 DEF SettleHandshake, pvars
  <2> QED
    BY <1>0, <1>6, <2>1, HandshakeShares
<1>7. ASSUME NEW j \in Job, Prep(j)
      PROVE  Goal
  <2>1. UNCHANGED vaults
    BY <1>7 DEF Prep, pvars
  <2> QED
    BY <1>0, <1>7, <2>1, PrepShares
<1>8. ASSUME NEW j \in Job, CollectOps(j) \/ CollectBlob(j) \/ CollectEnd(j)
      PROVE  Goal
  <2>1. UNCHANGED vaults
    BY <1>8 DEF CollectOps, CollectBlob, CollectEnd, pvars
  <2> QED
    BY <1>0, <1>8, <2>1, CollectShares
<1>9. ASSUME NEW j \in Job, Send(j)
      PROVE  Goal
  <2>1. UNCHANGED vaults
    BY <1>9 DEF Send, pvars
  <2> QED
    BY <1>0, <1>9, <2>1, SendShares
<1>10. ASSUME NEW j \in Job, Recv(j)
       PROVE  Goal
  BY <1>0, <1>10, RecvShares
<1>11. ASSUME NEW j \in Job, Flush(j)
       PROVE  Goal
  BY <1>0, <1>11, FlushShares
<1>12. ASSUME NEW j \in Job, SettleShares(j)
       PROVE  Goal
  BY <1>12, ImportShares DEF Goal
<1>13. ASSUME NEW j \in Job, VaultLocked(j) \/ PeerClosed(j) \/ LinkBreaks(j)
       PROVE  Goal
  BY <1>0, <1>13, LostShares
<1>14. ASSUME NEW p \in Editing, NearbyWrite(p[1], p[2])
       PROVE  Goal
  <2>1. p[1] \in Device /\ p[2] \in Vault
    BY PeerConstants
  <2>2. Write(p[1], p[2]) /\ asked' = asked /\ job' = job /\ wire' = wire
    BY <1>14 DEF NearbyWrite, nvars
  <2>3. PeerTypeOK'
    BY <1>a, <2>1, <2>2, WriteGrows
  <2>4. UNCHANGED vaults
    BY <2>2 DEF Write
  <2> QED
    BY <1>0, <2>2, <2>3, <2>4, QuietShares
<1>15. CASE UNCHANGED vars
  <2>1. UNCHANGED pvars /\ asked' = asked /\ job' = job /\ wire' = wire
    BY <1>15 DEF vars, nvars
  <2>2. PeerTypeOK'
    BY <1>a, <2>1 DEF PeerTypeOK, pvars
  <2> QED
    BY <1>0, <2>1, <2>2, QuietShares DEF pvars
<1> QED
  BY <1>1, <1>2, <1>3, <1>4, <1>5, <1>6, <1>7, <1>8, <1>9, <1>10, <1>11, <1>12, <1>13, <1>14,
     <1>15 DEF NearbyNext, Step

LEMMA InitSharing == PeerInit /\ NearbyInit => SharingInv
<1> SUFFICES ASSUME PeerInit, NearbyInit
             PROVE  SharingInv
  OBVIOUS
<1>1. NoOptions \in SessionOptions /\ Sharable(NoOptions) /\ NoOptions.share = {}
  BY DEF NoOptions, SessionOptions, Sharable
<1>2. Fresh(NoOptions) \in JobRecord
  BY <1>1, FreshRecord
<1>3. /\ job \in [Job -> JobRecord] /\ wire \in [Job -> Seq(Msg)]
      /\ \A j \in Job : job[j] = Fresh(NoOptions) /\ wire[j] = <<>>
  BY <1>2 DEF NearbyInit
<1>4. ASSUME NEW j \in Job
      PROVE  Sharing(j)
  <2>1. /\ job[j].at = "idle" /\ job[j].opt = NoOptions /\ job[j].link = NoJob
        /\ job[j].round = 0 /\ job[j].step = 1 /\ job[j].out = <<>> /\ job[j].todo = {}
        /\ job[j].buf = {} /\ job[j].flush = "no" /\ job[j].result = "none" /\ wire[j] = <<>>
    BY <1>3 DEF Fresh
  <2>2. Placed(j)
    BY <2>1 DEF Placed, InSession, Steps
  <2>3. ShareAsked(j)
    BY <1>1, <2>1 DEF ShareAsked
  <2> QED
    BY <2>1, <2>2, <2>3
       DEF Sharing, PeerKnown, OutShares, WireShares, GotGood, TodoGood, BufGood, InSession
<1> QED
  BY <1>3, <1>4 DEF SharingInv, NearbyTypeOK, PeerInit

\* The sharing invariant holds in every state of nearby sync: who is at the other end of a
\* session is known once a proof was verified, and the keys in a hello are for that device.
THEOREM SharingInvariance == NearbySpec => []SharingInv
<1>1. SharingInv /\ [NearbyNext]_vars => SharingInv'
  BY SharingInvStep
<1> QED
  BY <1>1, InitSharing, PTL DEF NearbySpec

\* Over the LAN a vault's key reaches only the device a user asked to share it with, for
\* any number of devices, jobs and sessions, whoever dials or answers (import_shares,
\* verify_proof).
THEOREM NearbySharesAsAsked == NearbySpec => SharedOnlyAsAsked
<1>1. SharingInv /\ [NearbyNext]_vars =>
        [\A d \in Device : (vaults'[d] \ vaults[d]) \X {d} \subseteq asked]_<<pvars, asked>>
  BY SharingInvStep
<1> QED
  BY <1>1, SharingInvariance, PTL DEF NearbySpec, SharedOnlyAsAsked

-----------------------------------------------------------------------------
(***************************************************************************)
(* What a session has delivered. An operation a job still misses is in its *)
(* buffer, on the wire to it, in the other end's outbox, or in a vault the *)
(* other end has yet to collect.                                           *)
(***************************************************************************)
Active(j) == InSession(j) \/ job[j].result = "synced"

Misses(j, v, o, k) == o \in pins[Me(j)] /\ heads[Me(j)][v][o] < k

(* One of the first n messages of q carries operation op of vault v. *)
Carried(q, n, v, op) ==
    \E i \in 1..n : q[i].kind = "ops" /\ q[i].body.vault = v /\ op \in q[i].body.ops

Holds(j, n, v, op) == <<v, op>> \in job[j].buf \/ Carried(wire[j], n, v, op)

(* Where in its rounds a job has something to write. *)
Sending(j) ==
    \/ job[j].round = 0 /\ j \in Dialer /\ job[j].step \in {1, 4}
    \/ job[j].round = 0 /\ j \notin Dialer /\ job[j].step = 3
    \/ job[j].round \in {1, 2, 4, 6} /\ 1 < job[j].step /\ job[j].step <= SendStep(j, job[j].round)
    \/ job[j].round \in {3, 5} /\ job[j].step = SendStep(j, job[j].round)

OutGood(j) ==
    InSession(j) =>
        /\ job[j].out # <<>> => Sending(j)
        /\ \A i \in 1..Len(job[j].out) :
              LET m == job[j].out[i] IN
              /\ m.kind \notin {"ops", "blob"} => Len(job[j].out) = 1
              /\ m.kind = "inventory" => job[j].round = 2 /\ m.body = job[j].mine
              /\ m.kind = "ops_end" => job[j].round = 3 /\ job[j].todo = {}
              /\ m.kind = "blob_want" => job[j].round = 4

(* An inventory lists no more than its device has. *)
MineHeld(j) ==
    InSession(j) /\ HasPrepared(j, 2) =>
        \A v \in DOMAIN job[j].mine, o \in Device : job[j].mine[v][o] <= heads[Me(j)][v][o]

(* Operations travel in the order of their chains. *)
Ordered(j) ==
    InSession(j) =>
        \A i \in 1..Len(wire[j]) : wire[j][i].kind = "ops" =>
            \A op \in wire[j][i].body.ops, k \in 1..MaxSeq :
                k <= op[2] /\ Misses(j, wire[j][i].body.vault, op[1], k) =>
                    Holds(j, i, wire[j][i].body.vault, <<op[1], k>>)

BufOrdered(j) ==
    InSession(j) =>
        \A x \in job[j].buf, k \in 1..MaxSeq :
            k <= x[2][2] /\ Misses(j, x[1], x[2][1], k) =>
                <<x[1], <<x[2][1], k>>>> \in job[j].buf

(* Before the end marker comes all that is missing of the other's list. *)
OpsComplete(j) ==
    InSession(j) =>
        \A i \in 1..Len(wire[j]) : wire[j][i].kind = "ops_end" =>
            /\ HasRecvd(j, 2)
            /\ \A v \in Common(j), o \in Device, k \in 1..MaxSeq :
                  k <= job[j].theirs[v][o] /\ Misses(j, v, o, k) => Holds(j, i, v, <<o, k>>)

BufComplete(j) ==
    InSession(j) /\ job[j].flush = "end" =>
        \A v \in Common(j), o \in Device, k \in 1..MaxSeq :
            k <= job[j].theirs[v][o] /\ Misses(j, v, o, k) => <<v, <<o, k>>>> \in job[j].buf

OpsDelivered(j) ==
    Active(j) /\ HasRecvd(j, 3) =>
        \A v \in Common(j), o \in pins[Me(j)] : job[j].theirs[v][o] <= heads[Me(j)][v][o]

(* The other end has what this one listed: it says so by asking for blobs. *)
PeerHas(j) ==
    /\ job[j].peer \in Device
    /\ \A v \in Common(j), o \in pins[job[j].peer] :
          job[j].mine[v][o] <= heads[job[j].peer][v][o]

PeerDelivered(j) ==
    /\ Active(j) /\ HasRecvd(j, 4) => PeerHas(j)
    /\ InSession(j) => \A i \in 1..Len(wire[j]) :
          wire[j][i].kind = "blob_want" => HasRecvd(j, 2) /\ PeerHas(j)

BlobsKnown(j) ==
    Active(j) /\ HasPrepared(j, 4) =>
        \A v \in Common(j), op \in Attached :
            op[1] \in pins[Me(j)] /\ op[2] <= job[j].theirs[v][op[1]] =>
                <<v, op[1], op[2]>> \in blobs[Me(j)] \cup job[j].wants \cup job[j].tampered

Delivering(j) ==
    /\ OutGood(j) /\ MineHeld(j)
    /\ Ordered(j) /\ BufOrdered(j) /\ OpsComplete(j) /\ BufComplete(j)
    /\ OpsDelivered(j) /\ PeerDelivered(j) /\ BlobsKnown(j)

(* The two ends of a connection, j reading what p writes. *)
Listed(j, p) ==
    /\ \A i \in 1..Len(wire[j]) : wire[j][i].kind = "inventory" =>
          HasSent(p, 2) /\ wire[j][i].body = job[p].mine
    /\ HasRecvd(j, 2) => HasSent(p, 2) /\ job[j].theirs = job[p].mine

EndSeen(j, p) ==
    /\ \A i \in 1..Len(wire[j]) : wire[j][i].kind = "ops_end" => HasSent(p, 3)
    /\ job[j].flush = "end" \/ HasRecvd(j, 3) => HasSent(p, 3)

OutOrdered(j, p) ==
    \A i \in 1..Len(job[p].out) : job[p].out[i].kind = "ops" =>
        \A op \in job[p].out[i].body.ops, k \in 1..MaxSeq :
            k <= op[2] /\ Misses(j, job[p].out[i].body.vault, op[1], k) =>
                \/ Holds(j, Len(wire[j]), job[p].out[i].body.vault, <<op[1], k>>)
                \/ Carried(job[p].out, i, job[p].out[i].body.vault, <<op[1], k>>)

Covered(j, p) ==
    job[p].round = 3 /\ ~HasSent(p, 3) =>
        \A v \in Common(p), o \in Device, k \in 1..MaxSeq :
            k <= job[p].mine[v][o] /\ Misses(j, v, o, k) =>
                \/ Holds(j, Len(wire[j]), v, <<o, k>>)
                \/ Carried(job[p].out, Len(job[p].out), v, <<o, k>>)
                \/ v \in job[p].todo

Paired(j, p) == Listed(j, p) /\ EndSeen(j, p) /\ OutOrdered(j, p) /\ Covered(j, p)

DeliveryInv ==
    /\ SharingInv /\ NoneTrustsItself
    /\ \A j \in Job : Delivering(j)
    /\ \A j \in Job, p \in Job : job[j].link = p /\ job[p].link = j => Paired(j, p)
-----------------------------------------------------------------------------
(* A job that reads on has s messages less to read, and what it still      *)
(* misses of them it has buffered.                                         *)
Shifted(j, s) ==
    /\ Len(wire'[j]) = Len(wire[j]) - s
    /\ \A i \in 1..Len(wire'[j]) : wire'[j][i] = wire[j][i + s]
    /\ \A i \in 0..Len(wire'[j]), v \in Vault, o \in Device, k \in 1..MaxSeq :
          Misses(j, v, o, k)' /\ Holds(j, i + s, v, <<o, k>>) => Holds(j, i, v, <<o, k>>)'

(* What is behind a job that has come so far. *)
LEMMA RoundOrder ==
    ASSUME NearbyTypeOK, NEW j \in Job
    PROVE  /\ HasSent(j, 2) => HasPrepared(j, 2)
           /\ HasRecvd(j, 2) => HasPrepared(j, 2)
           /\ HasSent(j, 2) /\ j \notin Dialer => HasRecvd(j, 2)
           /\ HasRecvd(j, 3) => HasRecvd(j, 2) /\ HasSent(j, 2)
           /\ HasSent(j, 3) => HasRecvd(j, 2) /\ HasSent(j, 2)
           /\ HasSent(j, 3) /\ j \notin Dialer => HasRecvd(j, 3)
           /\ HasRecvd(j, 4) => HasRecvd(j, 3)
           /\ HasPrepared(j, 4) => HasRecvd(j, 3) /\ HasSent(j, 3)
           /\ job[j].round = 3 => HasRecvd(j, 2) /\ HasSent(j, 2)
           /\ job[j].round = 4 => HasRecvd(j, 3) /\ HasSent(j, 3)
           /\ job[j].round = 6 => HasRecvd(j, 4) /\ HasRecvd(j, 3) /\ HasPrepared(j, 4)
<1>1. job[j].round \in 0..6 /\ job[j].step \in 1..5
  BY JobFields DEF NearbyTypeOK
<1> QED
  BY <1>1 DEF HasSent, HasRecvd, HasPrepared, Past, SendStep, RecvStep

LEMMA MissesLess ==
    ASSUME NearbyTypeOK, NearbyTypeOK', Grow, NEW j \in Job, NEW v \in Vault, NEW o \in Device,
           NEW k \in 1..MaxSeq, Misses(j, v, o, k)'
    PROVE  Misses(j, v, o, k)
<1>1. Me(j) \in Device /\ Me(j)' = Me(j) /\ k \in Int
  BY OwnerIsDevice, NatConstants DEF Me
<1>2. heads[Me(j)][v][o] \in Int /\ heads'[Me(j)][v][o] \in Int
      /\ heads[Me(j)][v][o] <= heads'[Me(j)][v][o] /\ pins' = pins
  BY <1>1, HeadsInt DEF NearbyTypeOK, Grow
<1> QED
  BY <1>1, <1>2 DEF Misses

LEMMA Sequences ==
    ASSUME NearbyTypeOK, NEW j \in Job
    PROVE  /\ wire[j] \in Seq(Msg) /\ Len(wire[j]) \in Nat
           /\ \A i \in 1..Len(wire[j]) : wire[j][i] \in Msg
           /\ job[j].out \in Seq(Msg) /\ Len(job[j].out) \in Nat
           /\ \A i \in 1..Len(job[j].out) : job[j].out[i] \in Msg
<1>1. wire[j] \in Seq(Msg) /\ job[j].out \in Seq(Msg)
  BY JobFields DEF NearbyTypeOK
<1> QED
  BY <1>1, LenProperties, ElementOfSeq

LEMMA NextSequences ==
    ASSUME NearbyTypeOK', NEW j \in Job
    PROVE  /\ wire'[j] \in Seq(Msg) /\ Len(wire'[j]) \in Nat
           /\ \A i \in 1..Len(wire'[j]) : wire'[j][i] \in Msg
           /\ job'[j].out \in Seq(Msg) /\ Len(job'[j].out) \in Nat
           /\ \A i \in 1..Len(job'[j].out) : job'[j].out[i] \in Msg
<1>1. wire'[j] \in Seq(Msg) /\ job'[j].out \in Seq(Msg)
  BY JobFields DEF NearbyTypeOK
<1> QED
  BY <1>1, LenProperties, ElementOfSeq

LEMMA ShiftedSame ==
    ASSUME NearbyTypeOK, NEW j \in Job, wire'[j] = wire[j], job'[j].buf = job[j].buf
    PROVE  Shifted(j, 0)
<1>1. Len(wire[j]) \in Nat
  BY Sequences
<1>2. ASSUME NEW i \in 0..Len(wire[j]), NEW v, NEW op
      PROVE  Holds(j, i + 0, v, op) => Holds(j, i, v, op)'
  <2>1. i + 0 = i
    BY <1>1
  <2> QED
    BY <2>1 DEF Holds, Carried
<1>3. \A i \in 1..Len(wire[j]) : i + 0 = i
  BY <1>1
<1> QED
  BY <1>1, <1>2, <1>3 DEF Shifted

(* The operations an ops message carries. *)
LEMMA OpFields == \A op \in Op : op[1] \in Device /\ op[2] \in 1..MaxSeq /\ op = <<op[1], op[2]>>
BY DEF Op

LEMMA StillOrdered ==
    ASSUME NearbyTypeOK, NearbyTypeOK', Grow, NEW j \in Job, NEW s \in {0, 1}, Shifted(j, s),
           InSession(j)' => InSession(j), Ordered(j)
    PROVE  Ordered(j)'
<1> SUFFICES ASSUME InSession(j)', NEW i \in 1..Len(wire'[j]), wire'[j][i].kind = "ops",
                    NEW op \in wire'[j][i].body.ops, NEW k \in 1..MaxSeq, k <= op[2],
                    Misses(j, wire[j][i].body.vault, op[1], k)'
             PROVE  Holds(j, i, wire[j][i].body.vault, <<op[1], k>>)'
  BY DEF Ordered
<1>1. Len(wire[j]) \in Nat /\ Len(wire'[j]) \in Nat /\ Len(wire'[j]) = Len(wire[j]) - s
  BY Sequences, NextSequences DEF Shifted
<1>2. i + s \in 1..Len(wire[j]) /\ i \in 0..Len(wire'[j])
  BY <1>1
<1>3. PICK m \in Msg : m = wire[j][i + s]
  BY <1>2, Sequences
<1>4. wire'[j][i] = m /\ m.kind = "ops" /\ op \in m.body.ops
  BY <1>3 DEF Shifted
<1>5. m.body.vault \in Vault /\ op[1] \in Device
  BY <1>4, OpsBody, OpFields
<1>6. PICK v \in Vault : v = m.body.vault
  BY <1>5
<1>7. Misses(j, v, op[1], k)'
  BY <1>4, <1>6 DEF Misses
<1>8. Misses(j, v, op[1], k)
  BY <1>5, <1>7, MissesLess
<1>9. Holds(j, i + s, v, <<op[1], k>>)
  BY <1>2, <1>3, <1>4, <1>6, <1>8 DEF Ordered
<1>10. Holds(j, i, v, <<op[1], k>>)'
  BY <1>2, <1>5, <1>7, <1>9 DEF Shifted
<1> QED
  BY <1>4, <1>6, <1>10 DEF Holds

LEMMA ListHeads ==
    ASSUME NearbyTypeOK, NEW j \in Job
    PROVE  /\ Common(j) \subseteq Vault
           /\ \A v \in Common(j), o \in Device :
                /\ job[j].theirs[v][o] \in 0..MaxSeq /\ job[j].mine[v][o] \in 0..MaxSeq
           /\ \A v \in DOMAIN job[j].mine : v \in Vault /\ job[j].mine[v] \in Heads
<1>1. /\ DOMAIN job[j].mine \subseteq Vault /\ DOMAIN job[j].theirs \subseteq Vault
      /\ \A v \in DOMAIN job[j].mine : job[j].mine[v] \in Heads
      /\ \A v \in DOMAIN job[j].theirs : job[j].theirs[v] \in Heads
  BY JobFields DEF NearbyTypeOK
<1> QED
  BY <1>1 DEF Common, Heads

LEMMA StillComplete ==
    ASSUME NearbyTypeOK, NearbyTypeOK', Grow, NEW j \in Job, NEW s \in {0, 1}, Shifted(j, s),
           InSession(j)' => InSession(j), HasRecvd(j, 2) => HasRecvd(j, 2)' /\ KeepsLists(j),
           OpsComplete(j)
    PROVE  OpsComplete(j)'
<1> SUFFICES ASSUME InSession(j)', NEW i \in 1..Len(wire'[j]), wire'[j][i].kind = "ops_end"
             PROVE  /\ HasRecvd(j, 2)'
                    /\ \A v \in Common(j)', o \in Device, k \in 1..MaxSeq :
                          k <= job'[j].theirs[v][o] /\ Misses(j, v, o, k)' =>
                            Holds(j, i, v, <<o, k>>)'
  BY DEF OpsComplete
<1>1. Len(wire[j]) \in Nat /\ Len(wire'[j]) \in Nat /\ Len(wire'[j]) = Len(wire[j]) - s
  BY Sequences, NextSequences DEF Shifted
<1>2. i + s \in 1..Len(wire[j]) /\ i \in 0..Len(wire'[j]) /\ wire[j][i + s].kind = "ops_end"
  BY <1>1 DEF Shifted
<1>3. HasRecvd(j, 2) /\ HasRecvd(j, 2)' /\ KeepsLists(j)
  BY <1>2 DEF OpsComplete
<1>4. Common(j)' = Common(j) /\ job'[j].theirs = job[j].theirs /\ Common(j) \subseteq Vault
  BY <1>3, ListHeads DEF KeepsLists, Common
<1>5. ASSUME NEW v \in Common(j), NEW o \in Device, NEW k \in 1..MaxSeq, k <= job[j].theirs[v][o],
             Misses(j, v, o, k)'
      PROVE  Holds(j, i, v, <<o, k>>)'
  <2>1. v \in Vault
    BY <1>4
  <2>2. Misses(j, v, o, k)
    BY <2>1, <1>5, MissesLess
  <2>3. Holds(j, i + s, v, <<o, k>>)
    BY <1>2, <1>5, <2>2 DEF OpsComplete
  <2> QED
    BY <1>2, <1>5, <2>1, <2>3 DEF Shifted
<1> QED
  BY <1>3, <1>4, <1>5

LEMMA StillBuffered ==
    ASSUME NearbyTypeOK, NearbyTypeOK', Grow, NEW j \in Job, KeepsBuf(j),
           InSession(j)' => InSession(j), BufOrdered(j), BufComplete(j),
           job[j].flush = "end" => KeepsLists(j)
    PROVE  BufOrdered(j)' /\ BufComplete(j)'
<1>1. job[j].buf \subseteq Vault \X Op
  BY JobFields DEF NearbyTypeOK
<1>2. BufOrdered(j)'
  <2> SUFFICES ASSUME InSession(j)', NEW x \in job[j].buf, NEW k \in 1..MaxSeq, k <= x[2][2],
                      Misses(j, x[1], x[2][1], k)'
               PROVE  <<x[1], <<x[2][1], k>>>> \in job[j].buf
    BY DEF BufOrdered, KeepsBuf
  <2>1. x[1] \in Vault /\ x[2] \in Op
    BY <1>1
  <2>2. Misses(j, x[1], x[2][1], k)
    BY <2>1, MissesLess, OpFields
  <2> QED
    BY <2>2 DEF BufOrdered
<1>3. BufComplete(j)'
  <2> SUFFICES ASSUME InSession(j)', job[j].flush = "end", NEW v \in Common(j)', NEW o \in Device,
                      NEW k \in 1..MaxSeq, k <= job'[j].theirs[v][o], Misses(j, v, o, k)'
               PROVE  <<v, <<o, k>>>> \in job[j].buf
    BY DEF BufComplete, KeepsBuf
  <2>1. v \in Common(j) /\ job'[j].theirs = job[j].theirs /\ v \in Vault
    BY ListHeads DEF KeepsLists, Common
  <2>2. Misses(j, v, o, k)
    BY <2>1, MissesLess
  <2> QED
    BY <2>1, <2>2 DEF BufComplete
<1> QED
  BY <1>2, <1>3

LEMMA StillHeld ==
    ASSUME NearbyTypeOK, NearbyTypeOK', Grow, NEW j \in Job, InSession(j)' => InSession(j),
           HasPrepared(j, 2)' => HasPrepared(j, 2), job'[j].mine = job[j].mine, MineHeld(j)
    PROVE  MineHeld(j)'
<1> SUFFICES ASSUME InSession(j), HasPrepared(j, 2), NEW v \in DOMAIN job[j].mine, NEW o \in Device
             PROVE  job[j].mine[v][o] <= heads'[Me(j)][v][o]
  BY DEF MineHeld, Me
<1>1. v \in Vault /\ job[j].mine[v][o] \in Int /\ Me(j) \in Device
  BY ListHeads, HeadsInt, OwnerIsDevice
<1>2. job[j].mine[v][o] <= heads[Me(j)][v][o] /\ heads[Me(j)][v][o] <= heads'[Me(j)][v][o]
  BY <1>1 DEF MineHeld, Grow
<1> QED
  BY <1>1, <1>2, HeadsInt DEF NearbyTypeOK

LEMMA StillDelivered ==
    ASSUME NearbyTypeOK, NearbyTypeOK', Grow, NEW j \in Job, Active(j)' => Active(j),
           HasRecvd(j, 3)' => HasRecvd(j, 3) /\ KeepsLists(j), OpsDelivered(j)
    PROVE  OpsDelivered(j)'
<1> SUFFICES ASSUME Active(j), HasRecvd(j, 3), KeepsLists(j), NEW v \in Common(j)',
                    NEW o \in pins'[Me(j)]
             PROVE  job'[j].theirs[v][o] <= heads'[Me(j)][v][o]
  BY DEF OpsDelivered, Me
<1>1. Me(j) \in Device /\ v \in Common(j) /\ o \in pins[Me(j)] /\ job'[j].theirs = job[j].theirs
  BY OwnerIsDevice DEF KeepsLists, Common, Grow
<1>2. v \in Vault /\ o \in Device /\ job[j].theirs[v][o] \in Int
  BY <1>1, ListHeads DEF NearbyTypeOK, PeerTypeOK
<1>3. /\ job[j].theirs[v][o] <= heads[Me(j)][v][o] /\ heads[Me(j)][v][o] <= heads'[Me(j)][v][o]
  BY <1>1, <1>2 DEF OpsDelivered, Grow
<1> QED
  BY <1>1, <1>2, <1>3, HeadsInt DEF NearbyTypeOK

LEMMA PeerStillHas ==
    ASSUME NearbyTypeOK, NearbyTypeOK', Grow, NEW j \in Job, KeepsLists(j), KeepsPeer(j), PeerHas(j)
    PROVE  PeerHas(j)'
<1>1. PICK e \in Device : e = job[j].peer
  BY DEF PeerHas
<1>2. job'[j].peer = e /\ pins' = pins /\ Common(j)' = Common(j) /\ job'[j].mine = job[j].mine
  BY <1>1 DEF KeepsPeer, KeepsLists, Common, Grow
<1>3. ASSUME NEW v \in Common(j), NEW o \in pins[e]
      PROVE  job[j].mine[v][o] <= heads'[e][v][o]
  <2>1. v \in Vault /\ o \in Device /\ job[j].mine[v][o] \in Int
    BY <1>1, ListHeads DEF NearbyTypeOK, PeerTypeOK
  <2>2. job[j].mine[v][o] <= heads[e][v][o] /\ heads[e][v][o] <= heads'[e][v][o]
    BY <1>1, <1>3, <2>1 DEF PeerHas, Grow
  <2> QED
    BY <2>1, <2>2, HeadsInt DEF NearbyTypeOK
<1> QED
  BY <1>2, <1>3 DEF PeerHas

LEMMA StillPeerDelivered ==
    ASSUME NearbyTypeOK, NearbyTypeOK', Grow, NEW j \in Job, NEW s \in {0, 1}, Shifted(j, s),
           InSession(j)' => InSession(j), Active(j)' => Active(j),
           HasRecvd(j, 2) => HasRecvd(j, 2)' /\ KeepsLists(j) /\ KeepsPeer(j),
           HasRecvd(j, 4)' => HasRecvd(j, 4) \/ PeerHas(j)', PeerDelivered(j)
    PROVE  PeerDelivered(j)'
<1>1. HasRecvd(j, 2) /\ PeerHas(j) => PeerHas(j)'
  BY PeerStillHas
<1>2. Active(j)' /\ HasRecvd(j, 4)' => PeerHas(j)'
  BY <1>1, RoundOrder DEF PeerDelivered
<1>3. ASSUME InSession(j)', NEW i \in 1..Len(wire'[j]), wire'[j][i].kind = "blob_want"
      PROVE  HasRecvd(j, 2)' /\ PeerHas(j)'
  <2>1. Len(wire[j]) \in Nat /\ Len(wire'[j]) \in Nat /\ Len(wire'[j]) = Len(wire[j]) - s
    BY Sequences, NextSequences DEF Shifted
  <2>2. i + s \in 1..Len(wire[j]) /\ wire[j][i + s].kind = "blob_want"
    BY <1>3, <2>1 DEF Shifted
  <2> QED
    BY <1>1, <1>3, <2>2 DEF PeerDelivered
<1> QED
  BY <1>2, <1>3 DEF PeerDelivered

LEMMA StillKnown ==
    ASSUME NearbyTypeOK, NearbyTypeOK', Grow, NEW j \in Job, Active(j)' => Active(j),
           HasPrepared(j, 4)' => HasPrepared(j, 4) /\ KeepsLists(j),
           job[j].wants \cup job[j].tampered
                \subseteq job'[j].wants \cup job'[j].tampered \cup blobs'[Me(j)],
           BlobsKnown(j)
    PROVE  BlobsKnown(j)'
<1>1. Me(j) \in Device /\ Me(j)' = Me(j) /\ pins' = pins /\ blobs[Me(j)] \subseteq blobs'[Me(j)]
  BY OwnerIsDevice DEF Me, Grow
<1>2. CASE ~(Active(j)' /\ HasPrepared(j, 4)')
  BY <1>2 DEF BlobsKnown
<1>3. CASE Active(j)' /\ HasPrepared(j, 4)'
  <2>1. Active(j) /\ HasPrepared(j, 4) /\ KeepsLists(j)
    BY <1>3
  <2>2. Common(j)' = Common(j) /\ job'[j].theirs = job[j].theirs
    BY <2>1 DEF KeepsLists, Common
  <2> QED
    BY <1>1, <2>1, <2>2 DEF BlobsKnown
<1> QED
  BY <1>2, <1>3

(* A step of job j, or of another job, that teaches j nothing new. The     *)
(* parts of Delivering that a step does establish are left to its lemma.   *)
LEMMA StillDelivering ==
    ASSUME NearbyTypeOK, NearbyTypeOK', Grow, NEW j \in Job, Placed(j), Delivering(j),
           NEW s \in {0, 1}, Shifted(j, s), Stays(j) \/ Advances(j),
           InSession(j) \/ job'[j] = job[j],
           OutGood(j)',
           HasRecvd(j, 2) => KeepsLists(j) /\ KeepsPeer(j),
           MineHeld(j)'
             \/ (job'[j].mine = job[j].mine /\ (HasPrepared(j, 2)' => HasPrepared(j, 2))),
           (BufOrdered(j)' /\ BufComplete(j)') \/ KeepsBuf(j),
           job[j].flush = "end" => KeepsLists(j),
           OpsDelivered(j)' \/ (HasRecvd(j, 3)' => HasRecvd(j, 3)),
           HasRecvd(j, 4)' => HasRecvd(j, 4) \/ PeerHas(j)',
           \/ BlobsKnown(j)'
           \/ /\ HasPrepared(j, 4)' => HasPrepared(j, 4)
              /\ job[j].wants \cup job[j].tampered
                    \subseteq job'[j].wants \cup job'[j].tampered \cup blobs'[Me(j)]
    PROVE  Delivering(j)'
<1>1. InSession(j)' => InSession(j)
  BY DEF Stays, Advances, GoesOn, IsDone, InSession
<1>2. Active(j)' => Active(j)
  BY <1>1 DEF Active
<1>3. HasRecvd(j, 2) => HasRecvd(j, 2)'
  BY PastSteps
<1>4. /\ OutGood(j) /\ MineHeld(j)
      /\ Ordered(j) /\ BufOrdered(j) /\ OpsComplete(j) /\ BufComplete(j)
      /\ OpsDelivered(j) /\ PeerDelivered(j) /\ BlobsKnown(j)
  BY DEF Delivering
<1>5. Ordered(j)' /\ OpsComplete(j)'
  BY <1>1, <1>3, <1>4, StillOrdered, StillComplete
<1>6. MineHeld(j)'
  BY <1>1, <1>4, StillHeld
<1>7. BufOrdered(j)' /\ BufComplete(j)'
  BY <1>1, <1>4, StillBuffered
<1>8. OpsDelivered(j)'
  BY <1>2, <1>4, StillDelivered, RoundOrder
<1>9. PeerDelivered(j)'
  BY <1>1, <1>2, <1>3, <1>4, StillPeerDelivered
<1>10. BlobsKnown(j)'
  BY <1>2, <1>4, StillKnown, RoundOrder
<1> QED
  BY <1>5, <1>6, <1>7, <1>8, <1>9, <1>10 DEF Delivering

LEMMA UntouchedDelivers ==
    ASSUME NearbyTypeOK, NearbyTypeOK', Grow, NEW j \in Job, Placed(j), Delivering(j),
           job'[j] = job[j], wire'[j] = wire[j]
    PROVE  Delivering(j)'
<1>1. Stays(j) /\ Shifted(j, 0) /\ KeepsLists(j) /\ KeepsPeer(j) /\ KeepsBuf(j)
  BY ShiftedSame DEF Stays, KeepsLists, KeepsPeer, KeepsBuf
<1>2. OutGood(j)'
  BY DEF Delivering, OutGood, InSession, Sending, SendStep
<1>3. /\ HasPrepared(j, 2)' => HasPrepared(j, 2)
      /\ HasPrepared(j, 4)' => HasPrepared(j, 4)
      /\ HasRecvd(j, 3)' => HasRecvd(j, 3)
      /\ HasRecvd(j, 4)' => HasRecvd(j, 4)
  BY <1>1, PastSteps
<1> QED
  BY <1>1, <1>2, <1>3, StillDelivering

-----------------------------------------------------------------------------
(* The pair of ends, when the reading end moves. *)
LEMMA PairReads ==
    ASSUME NearbyTypeOK, NearbyTypeOK', Grow, NEW j \in Job, NEW p \in Job, Paired(j, p),
           NEW s \in {0, 1}, Shifted(j, s), job'[p] = job[p],
           HasRecvd(j, 2)' => \/ HasRecvd(j, 2) /\ job'[j].theirs = job[j].theirs
                              \/ HasSent(p, 2) /\ job'[j].theirs = job[p].mine,
           job'[j].flush = "end" \/ HasRecvd(j, 3)' =>
                job[j].flush = "end" \/ HasRecvd(j, 3) \/ HasSent(p, 3)
    PROVE  Paired(j, p)'
<1>1. Len(wire[j]) \in Nat /\ Len(wire'[j]) \in Nat /\ Len(wire'[j]) = Len(wire[j]) - s
  BY Sequences, NextSequences DEF Shifted
<1>2. \A i \in 1..Len(wire'[j]) : i + s \in 1..Len(wire[j]) /\ wire'[j][i] = wire[j][i + s]
  BY <1>1 DEF Shifted
<1>3. Len(wire'[j]) \in 0..Len(wire'[j]) /\ Len(wire'[j]) + s = Len(wire[j])
  BY <1>1
<1>4. /\ HasSent(p, 2)' <=> HasSent(p, 2)
      /\ HasSent(p, 3)' <=> HasSent(p, 3)
      /\ Common(p)' = Common(p)
  BY DEF HasSent, Past, SendStep, Common
<1>5. Listed(j, p)' /\ EndSeen(j, p)'
  BY <1>2, <1>4 DEF Paired, Listed, EndSeen
<1>6. ASSUME NEW v \in Vault, NEW o \in Device, NEW k \in 1..MaxSeq, Misses(j, v, o, k)'
      PROVE  /\ Misses(j, v, o, k)
             /\ Holds(j, Len(wire[j]), v, <<o, k>>) => Holds(j, Len(wire[j]), v, <<o, k>>)'
  <2>1. Misses(j, v, o, k)
    BY <1>6, MissesLess
  <2>2. PICK n \in 0..Len(wire'[j]) : n = Len(wire'[j]) /\ n + s = Len(wire[j])
    BY <1>3
  <2>3. Holds(j, n + s, v, <<o, k>>) => Holds(j, n, v, <<o, k>>)'
    BY <1>6, <2>2 DEF Shifted
  <2>4. Holds(j, Len(wire[j]), v, <<o, k>>)' <=> Holds(j, n, v, <<o, k>>)'
    BY <2>2 DEF Holds
  <2> QED
    BY <2>1, <2>2, <2>3, <2>4
<1>7. OutOrdered(j, p)'
  <2> SUFFICES ASSUME NEW i \in 1..Len(job[p].out), job[p].out[i].kind = "ops",
                      NEW op \in job[p].out[i].body.ops, NEW k \in 1..MaxSeq, k <= op[2],
                      Misses(j, job[p].out[i].body.vault, op[1], k)'
               PROVE  \/ Holds(j, Len(wire[j]), job[p].out[i].body.vault, <<op[1], k>>)'
                      \/ Carried(job[p].out, i, job[p].out[i].body.vault, <<op[1], k>>)
    BY DEF OutOrdered, Carried
  <2>1. job[p].out[i] \in Msg
    BY Sequences
  <2>2. PICK v \in Vault : v = job[p].out[i].body.vault
    BY <2>1, OpsBody
  <2>3. op[1] \in Device
    BY <2>1, OpsBody, OpFields
  <2>4. Misses(j, v, op[1], k)'
    BY <2>2 DEF Misses
  <2>5. \/ Holds(j, Len(wire[j]), v, <<op[1], k>>)
        \/ Carried(job[p].out, i, v, <<op[1], k>>)
    BY <1>6, <2>2, <2>3, <2>4 DEF Paired, OutOrdered
  <2>6. \/ Holds(j, Len(wire[j]), v, <<op[1], k>>)'
        \/ Carried(job[p].out, i, v, <<op[1], k>>)
    BY <1>6, <2>3, <2>4, <2>5
  <2> QED
    BY <2>2, <2>6 DEF Holds
<1>8. Covered(j, p)'
  <2> SUFFICES ASSUME job[p].round = 3, ~HasSent(p, 3), NEW v \in Common(p), NEW o \in Device,
                      NEW k \in 1..MaxSeq, k <= job[p].mine[v][o], Misses(j, v, o, k)'
               PROVE  \/ Holds(j, Len(wire[j]), v, <<o, k>>)'
                      \/ Carried(job[p].out, Len(job[p].out), v, <<o, k>>)
                      \/ v \in job[p].todo
    BY <1>4 DEF Covered, Carried
  <2>1. v \in Vault
    BY ListHeads
  <2> QED
    BY <2>1, <1>6 DEF Paired, Covered
<1> QED
  BY <1>5, <1>7, <1>8 DEF Paired

(* And when the writing end moves without writing. *)
LEMMA PairWaits ==
    ASSUME NearbyTypeOK, NearbyTypeOK', Grow, NEW j \in Job, NEW p \in Job, Paired(j, p), Placed(p),
           job'[j] = job[j], wire'[j] = wire[j], Stays(p) \/ Advances(p),
           HasSent(p, 2) => job'[p].mine = job[p].mine,
           \/ OutOrdered(j, p)'
           \/ job'[p].out = job[p].out
           \/ \A i \in 1..Len(job'[p].out) : job'[p].out[i].kind # "ops",
           \/ Covered(j, p)'
           \/ job'[p].round = 3 /\ ~HasSent(p, 3)' =>
                \/ job'[p].todo = Common(p)'
                \/ /\ job[p].round = 3 /\ ~HasSent(p, 3) /\ KeepsLists(p)
                   /\ job'[p].todo = job[p].todo
                   /\ job'[p].out = job[p].out \/ job[p].out = <<>>
    PROVE  Paired(j, p)'
<1>1. /\ HasSent(p, 2) => HasSent(p, 2)'
      /\ HasSent(p, 3) => HasSent(p, 3)'
  BY PastSteps
<1>2. /\ HasRecvd(j, 2)' <=> HasRecvd(j, 2)
      /\ HasRecvd(j, 3)' <=> HasRecvd(j, 3)
  BY DEF HasRecvd, Past, RecvStep
<1>3. Listed(j, p)' /\ EndSeen(j, p)'
  BY <1>1, <1>2 DEF Paired, Listed, EndSeen
<1>4. ASSUME NEW v, NEW op
      PROVE  Holds(j, Len(wire[j]), v, op)' <=> Holds(j, Len(wire[j]), v, op)
  BY DEF Holds
<1>5. OutOrdered(j, p)'
  <2>1. CASE job'[p].out = job[p].out
    <3> SUFFICES ASSUME NEW i \in 1..Len(job[p].out), job[p].out[i].kind = "ops",
                        NEW op \in job[p].out[i].body.ops, NEW k \in 1..MaxSeq, k <= op[2],
                        Misses(j, job[p].out[i].body.vault, op[1], k)'
                 PROVE  \/ Holds(j, Len(wire[j]), job[p].out[i].body.vault, <<op[1], k>>)'
                        \/ Carried(job[p].out, i, job[p].out[i].body.vault, <<op[1], k>>)'
      BY <2>1 DEF OutOrdered
    <3>1. job[p].out[i] \in Msg
      BY Sequences
    <3>2. PICK v \in Vault : v = job[p].out[i].body.vault
      BY <3>1, OpsBody
    <3>3. op[1] \in Device
      BY <3>1, OpsBody, OpFields
    <3>4. Misses(j, v, op[1], k)'
      BY <2>1, <3>2 DEF Misses
    <3>5. Misses(j, v, op[1], k)
      BY <3>3, <3>4, MissesLess
    <3>6. \/ Holds(j, Len(wire[j]), v, <<op[1], k>>)
          \/ Carried(job[p].out, i, v, <<op[1], k>>)
      BY <3>2, <3>5 DEF Paired, OutOrdered
    <3> QED
      BY <1>4, <2>1, <3>2, <3>6 DEF Holds, Carried
  <2>2. CASE \A i \in 1..Len(job'[p].out) : job'[p].out[i].kind # "ops"
    BY <2>2 DEF OutOrdered
  <2> QED
    BY <2>1, <2>2
<1>6. Covered(j, p)'
  <2>1. CASE ~(job'[p].round = 3 /\ ~HasSent(p, 3)')
    BY <2>1 DEF Covered
  <2>2. CASE job'[p].todo = Common(p)'
    BY <2>2 DEF Covered
  <2>3. CASE /\ job[p].round = 3 /\ ~HasSent(p, 3) /\ KeepsLists(p)
             /\ job'[p].todo = job[p].todo
             /\ job'[p].out = job[p].out \/ job[p].out = <<>>
    <3>1. Common(p)' = Common(p) /\ job'[p].mine = job[p].mine
      BY <2>3 DEF KeepsLists, Common
    <3> SUFFICES ASSUME NEW v \in Common(p), NEW o \in Device,
                        NEW k \in 1..MaxSeq, k <= job[p].mine[v][o], Misses(j, v, o, k)'
                 PROVE  \/ Holds(j, Len(wire[j]), v, <<o, k>>)'
                        \/ Carried(job[p].out, Len(job[p].out), v, <<o, k>>)'
                        \/ v \in job[p].todo
      BY <2>3, <3>1 DEF Covered
    <3>2. v \in Vault
      BY ListHeads
    <3>3. Misses(j, v, o, k)
      BY <3>2, MissesLess
    <3>4. \/ Holds(j, Len(wire[j]), v, <<o, k>>)
          \/ Carried(job[p].out, Len(job[p].out), v, <<o, k>>)
          \/ v \in job[p].todo
      BY <2>3, <3>3 DEF Paired, Covered
    <3>5. Carried(job[p].out, Len(job[p].out), v, <<o, k>>) => job'[p].out = job[p].out
      BY <2>3 DEF Carried
    <3> QED
      BY <1>4, <3>4, <3>5 DEF Carried
  <2> QED
    BY <2>1, <2>2, <2>3
<1> QED
  BY <1>3, <1>5, <1>6 DEF Paired

-----------------------------------------------------------------------------
LEMMA Parts ==
    ASSUME DeliveryInv, NEW j \in Job
    PROVE  /\ NearbyTypeOK /\ SharingInv /\ NoneTrustsItself
           /\ Sharing(j) /\ Placed(j) /\ PeerKnown(j) /\ WireShares(j) /\ TodoGood(j) /\ BufGood(j)
           /\ Delivering(j)
           /\ OutGood(j) /\ MineHeld(j) /\ Ordered(j) /\ BufOrdered(j) /\ OpsComplete(j)
           /\ BufComplete(j) /\ OpsDelivered(j) /\ PeerDelivered(j) /\ BlobsKnown(j)
           /\ \A p \in Job : job[j].link = p /\ job[p].link = j =>
                /\ Paired(j, p) /\ Paired(p, j)
                /\ p # j /\ InSession(j) /\ InSession(p) /\ (p \in Dialer <=> j \notin Dialer)
<1>1. /\ NearbyTypeOK /\ SharingInv /\ NoneTrustsItself /\ Sharing(j)
      /\ \A i \in Job : Delivering(i) /\ Placed(i)
      /\ \A i \in Job, p \in Job : job[i].link = p /\ job[p].link = i => Paired(i, p)
  BY DEF DeliveryInv, SharingInv, Sharing
<1>2. \A i \in Job : i # NoJob
  BY NearbyConstants
<1>3. ASSUME NEW p \in Job, job[j].link = p, job[p].link = j
      PROVE  p # j /\ InSession(j) /\ InSession(p) /\ (p \in Dialer <=> j \notin Dialer)
  <2>1. InSession(j) /\ InSession(p)
    BY <1>1, <1>2, <1>3 DEF Placed
  <2> QED
    BY <1>1, <1>3, <2>1, LinkOther
<1> QED
  BY <1>1, <1>3 DEF Sharing, Delivering

LEMMA DeliveryStep ==
    ASSUME DeliveryInv, SharingInv', Grow, NEW a \in Job, OthersStay(a), OtherWires(a),
           job'[a].link \in {job[a].link, NoJob}, Delivering(a)',
           \A p \in Job \ {a} : job[a].link = p /\ job[p].link = a /\ job'[a].link = p =>
                Paired(a, p)' /\ Paired(p, a)'
    PROVE  DeliveryInv'
<1>1. NearbyTypeOK /\ NearbyTypeOK' /\ NoneTrustsItself'
  BY DEF DeliveryInv, SharingInv, NoneTrustsItself, Grow
<1>2. ASSUME NEW j \in Job
      PROVE  Delivering(j)'
  <2>1. CASE j # a
    <3>1. Placed(j) /\ Delivering(j) /\ job'[j] = job[j] /\ wire'[j] = wire[j]
      BY <2>1, Parts DEF OthersStay, OtherWires
    <3> QED
      BY <1>1, <3>1, UntouchedDelivers
  <2> QED
    BY <2>1
<1>3. ASSUME NEW j \in Job, NEW p \in Job, job'[j].link = p, job'[p].link = j
      PROVE  Paired(j, p)'
  <2>1. \A i \in Job : i # NoJob
    BY NearbyConstants
  <2>2. job[j].link = p /\ job[p].link = j
    BY <1>3, <2>1 DEF OthersStay
  <2>3. p # j /\ Paired(j, p)
    BY <2>2, Parts
  <2>4. CASE j = a \/ p = a
    BY <1>3, <2>2, <2>3, <2>4
  <2>5. CASE j # a /\ p # a
    <3>1. job'[j] = job[j] /\ wire'[j] = wire[j] /\ job'[p] = job[p]
      BY <2>5 DEF OthersStay, OtherWires
    <3>2. Shifted(j, 0)
      BY <1>1, <3>1, ShiftedSame
    <3>3. HasRecvd(j, 2)' = HasRecvd(j, 2) /\ HasRecvd(j, 3)' = HasRecvd(j, 3)
      BY <3>1 DEF HasRecvd, Past, RecvStep
    <3> QED
      BY <1>1, <2>3, <3>1, <3>2, <3>3, PairReads
  <2> QED
    BY <2>4, <2>5
<1> QED
  BY <1>1, <1>2, <1>3 DEF DeliveryInv

(* A job that goes on: what its own lemma has to show.                     *)
LEMMA MoveDelivers ==
    ASSUME DeliveryInv, SharingInv', Grow, NEW a \in Job, OthersStay(a), OtherWires(a),
           InSession(a), Stays(a) \/ Advances(a), NEW s \in {0, 1}, Shifted(a, s), OutGood(a)',
           HasRecvd(a, 2) => KeepsLists(a) /\ KeepsPeer(a),
           MineHeld(a)'
             \/ (job'[a].mine = job[a].mine /\ (HasPrepared(a, 2)' => HasPrepared(a, 2))),
           (BufOrdered(a)' /\ BufComplete(a)') \/ KeepsBuf(a),
           job[a].flush = "end" => KeepsLists(a),
           OpsDelivered(a)' \/ (HasRecvd(a, 3)' => HasRecvd(a, 3)),
           HasRecvd(a, 4)' => HasRecvd(a, 4) \/ PeerHas(a)',
           \/ BlobsKnown(a)'
           \/ /\ HasPrepared(a, 4)' => HasPrepared(a, 4)
              /\ job[a].wants \cup job[a].tampered
                    \subseteq job'[a].wants \cup job'[a].tampered \cup blobs'[Me(a)],
           \A p \in Job \ {a} : job[a].link = p /\ job[p].link = a =>
             /\ HasRecvd(a, 2)' => \/ HasRecvd(a, 2) /\ job'[a].theirs = job[a].theirs
                                   \/ HasSent(p, 2) /\ job'[a].theirs = job[p].mine
             /\ job'[a].flush = "end" \/ HasRecvd(a, 3)' =>
                    job[a].flush = "end" \/ HasRecvd(a, 3) \/ HasSent(p, 3)
             /\ HasSent(a, 2) => job'[a].mine = job[a].mine
             /\ \/ OutOrdered(p, a)'
                \/ job'[a].out = job[a].out
                \/ \A i \in 1..Len(job'[a].out) : job'[a].out[i].kind # "ops"
             /\ \/ Covered(p, a)'
                \/ job'[a].round = 3 /\ ~HasSent(a, 3)' =>
                     \/ job'[a].todo = Common(a)'
                     \/ /\ job[a].round = 3 /\ ~HasSent(a, 3) /\ KeepsLists(a)
                        /\ job'[a].todo = job[a].todo
                        /\ job'[a].out = job[a].out \/ job[a].out = <<>>
    PROVE  DeliveryInv'
<1>1. NearbyTypeOK /\ NearbyTypeOK' /\ Placed(a) /\ Delivering(a)
  BY Parts DEF SharingInv
<1>2. Delivering(a)'
  BY <1>1, StillDelivering
<1>3. ASSUME NEW p \in Job \ {a}, job[a].link = p, job[p].link = a
      PROVE  Paired(a, p)' /\ Paired(p, a)'
  <2>1. Paired(a, p) /\ Paired(p, a) /\ Placed(p)
    BY <1>3, Parts
  <2>2. job'[p] = job[p] /\ wire'[p] = wire[p]
    BY DEF OthersStay, OtherWires
  <2>3. Paired(a, p)'
    BY <1>1, <1>3, <2>1, <2>2, PairReads
  <2>4. Paired(p, a)'
    BY <1>1, <1>3, <2>1, <2>2, PairWaits
  <2> QED
    BY <2>3, <2>4
<1>4. job'[a].link \in {job[a].link, NoJob}
  BY DEF Stays, Advances, GoesOn, IsDone
<1> QED
  BY <1>2, <1>3, <1>4, DeliveryStep

-----------------------------------------------------------------------------
LEMMA OutEmpty ==
    ASSUME NEW a \in Job, InSession(a), OutGood(a), ~Sending(a)
    PROVE  job[a].out = <<>>
BY DEF OutGood

LEMMA NothingOut ==
    ASSUME NEW a \in Job, job'[a].out = <<>>
    PROVE  OutGood(a)'
BY DEF OutGood

LEMMA OneOut ==
    ASSUME NEW a \in Job, NEW m, job'[a].out = <<m>>, InSession(a)' => Sending(a)',
           m.kind = "inventory" => job'[a].round = 2 /\ m.body = job'[a].mine,
           m.kind = "ops_end" => job'[a].round = 3 /\ job'[a].todo = {},
           m.kind = "blob_want" => job'[a].round = 4
    PROVE  OutGood(a)' /\ Len(job'[a].out) = 1 /\ job'[a].out[1] = m
BY DEF OutGood

LEMMA PrepDelivers ==
    ASSUME DeliveryInv, SharingInv', NEW a \in Job, Prep(a)
    PROVE  DeliveryInv'
<1> DEFINE m == Prepared(a)
<1>1. /\ NearbyTypeOK /\ Placed(a) /\ BufGood(a) /\ OpsDelivered(a) /\ BlobsKnown(a)
      /\ job[a].round \in 0..6 /\ job[a].step \in 1..5
  BY Parts, JobFields DEF NearbyTypeOK
<1>2. /\ NearbyTypeOK' /\ OthersStay(a) /\ wire' = wire /\ asked' = asked /\ UNCHANGED pvars
      /\ InSession(a) /\ Advances(a) /\ job'[a].step <= Steps(a, job'[a].round)
      /\ \/ job[a].round = 0 /\ a \notin Dialer /\ job[a].step = 2
         \/ job[a].round \in {1, 2, 4, 6} /\ job[a].step = 1
      /\ m \in Msg /\ job'[a].out = <<m>>
      /\ job'[a].mine = IF job[a].round = 2 THEN m.body ELSE job[a].mine
      /\ job'[a].wants = IF job[a].round = 4 THEN m.body ELSE job[a].wants
      /\ KeepsPeer(a) /\ KeepsBuf(a) /\ job'[a].theirs = job[a].theirs
      /\ job'[a].tampered = job[a].tampered /\ job'[a].todo = job[a].todo
  BY <1>1, PrepFields
<1>3. /\ m.kind = CASE job[a].round = 0 -> "proof" [] job[a].round = 1 -> "hello"
                    [] job[a].round = 2 -> "inventory"
                    [] job[a].round = 4 -> "blob_want" [] job[a].round = 6 -> "done"
      /\ job[a].round = 2 => m.body = Inventory(Me(a))
      /\ job[a].round = 4 => m.body = BlobWants(Me(a), Common(a))
  BY <1>1, <1>2, PreparedIsMsg
<1>4. OtherWires(a) /\ Grow /\ Shifted(a, 0)
  <2>1. \A d \in Device, v \in Vault, o \in Device : heads[d][v][o] <= heads[d][v][o]
    BY <1>1, HeadsInt DEF NearbyTypeOK
  <2> QED
    BY <1>1, <1>2, <2>1, ShiftedSame DEF OtherWires, Grow, pvars, KeepsBuf
<1>5. GoesOn(a) /\ job'[a].round = job[a].round /\ job'[a].step = job[a].step + 1
  BY <1>1, <1>2 DEF Advances, GoesOn, IsDone, Steps
<1> HIDE DEF m
<1>6. m.kind # "ops_end" /\ (m.kind = "inventory" => job[a].round = 2)
      /\ (m.kind = "blob_want" => job[a].round = 4) /\ m.kind # "ops"
  BY <1>2, <1>3
<1>7. OutGood(a)' /\ \A i \in 1..Len(job'[a].out) : job'[a].out[i].kind # "ops"
  <2>1. Sending(a)'
    BY <1>2, <1>5 DEF Sending, SendStep
  <2>2. OutGood(a)' /\ Len(job'[a].out) = 1 /\ job'[a].out[1] = m
    BY <1>2, <1>5, <1>6, <2>1, OneOut
  <2> QED
    BY <1>6, <2>2
<1>8. /\ HasRecvd(a, 2) => job[a].round # 2
      /\ HasSent(a, 2) => job[a].round # 2
      /\ ~HasRecvd(a, 3) => job[a].round # 4
  BY <1>1, <1>2 DEF HasRecvd, HasSent, Past, SendStep, RecvStep
<1>9. /\ HasPrepared(a, 2)' => HasPrepared(a, 2) \/ job[a].round = 2
      /\ HasPrepared(a, 4)' => HasPrepared(a, 4) \/ job[a].round = 4
      /\ HasRecvd(a, 2)' => HasRecvd(a, 2)
      /\ HasRecvd(a, 3)' => HasRecvd(a, 3)
      /\ HasRecvd(a, 4)' => HasRecvd(a, 4)
  BY <1>1, <1>2, PastSteps DEF RecvStep
<1>10. MineHeld(a)' \/ (job'[a].mine = job[a].mine /\ (HasPrepared(a, 2)' => HasPrepared(a, 2)))
  <2>1. CASE job[a].round # 2
    BY <1>2, <1>9, <2>1
  <2>2. CASE job[a].round = 2
    <3>1. job'[a].mine = [v \in vaults[Me(a)] |-> heads[Me(a)][v]] /\ heads' = heads
      BY <1>2, <1>3, <2>2 DEF Inventory, VaultHeads, pvars
    <3>2. vaults[Me(a)] \subseteq Vault
      BY <1>1, OwnerIsDevice DEF NearbyTypeOK, PeerTypeOK
    <3>3. \A v \in vaults[Me(a)], o \in Device : heads[Me(a)][v][o] <= heads[Me(a)][v][o]
      BY <1>1, <3>2, HeadsInt, OwnerIsDevice DEF NearbyTypeOK
    <3> QED
      BY <3>1, <3>3 DEF MineHeld, Me
  <2> QED
    BY <2>1, <2>2
<1>11. job[a].flush # "end"
  BY <1>1, <1>2 DEF BufGood
<1>12. \/ BlobsKnown(a)'
       \/ /\ HasPrepared(a, 4)' => HasPrepared(a, 4)
          /\ job[a].wants \cup job[a].tampered
                \subseteq job'[a].wants \cup job'[a].tampered \cup blobs'[Me(a)]
  <2>1. CASE job[a].round # 4
    BY <1>2, <1>9, <2>1
  <2>2. CASE job[a].round = 4
    <3>1. Common(a)' = Common(a) /\ job'[a].wants = BlobWants(Me(a), Common(a))
          /\ pins' = pins /\ blobs' = blobs
      BY <1>2, <1>3, <2>2 DEF Common, pvars
    <3>2. ASSUME NEW v \in Common(a), NEW op \in Attached, op[1] \in pins[Me(a)],
                 op[2] <= job[a].theirs[v][op[1]]
          PROVE  <<v, op[1], op[2]>> \in blobs[Me(a)] \cup job'[a].wants
      <4> op \in Op
        BY PeerConstants, Zenon DEF Op
      <4>1. /\ Me(a) \in Device /\ v \in Vault /\ op[1] \in Device /\ op[2] \in Int
            /\ job[a].theirs[v][op[1]] \in Int /\ heads[Me(a)][v][op[1]] \in Int
        BY <1>1, OwnerIsDevice, ListHeads, HeadsInt, OpFields DEF NearbyTypeOK
      <4>2. HasRecvd(a, 3) /\ Active(a)
        BY <1>2, <1>8, <2>2 DEF Active
      <4>3. job[a].theirs[v][op[1]] <= heads[Me(a)][v][op[1]]
        BY <1>1, <3>2, <4>2 DEF OpsDelivered
      <4>4. op[2] <= heads[Me(a)][v][op[1]]
        BY <3>2, <4>1, <4>3
      <4>5. <<v, op[1], op[2]>> \in Referenced(Me(a), v)
        BY <4>4 DEF Referenced, ReferencedUpTo
      <4> QED
        BY <3>1, <4>5 DEF BlobWants
    <3>3. BlobsKnown(a)'
      BY <1>2, <3>1, <3>2 DEF BlobsKnown, Me
    <3> QED
      BY <3>3
  <2> QED
    BY <2>1, <2>2
<1>13. HasRecvd(a, 2) => KeepsLists(a)
  BY <1>2, <1>8 DEF KeepsLists
<1>14. \A p \in Job \ {a} : job[a].link = p /\ job[p].link = a =>
         /\ HasRecvd(a, 2)' => \/ HasRecvd(a, 2) /\ job'[a].theirs = job[a].theirs
                               \/ HasSent(p, 2) /\ job'[a].theirs = job[p].mine
         /\ job'[a].flush = "end" \/ HasRecvd(a, 3)' =>
                job[a].flush = "end" \/ HasRecvd(a, 3) \/ HasSent(p, 3)
         /\ HasSent(a, 2) => job'[a].mine = job[a].mine
  BY <1>2, <1>8, <1>9 DEF KeepsBuf
<1>15. job'[a].round # 3
  BY <1>2, <1>5
<1> QED
  BY <1>2, <1>4, <1>7, <1>9, <1>10, <1>11, <1>12, <1>13, <1>14, <1>15, MoveDelivers

LEMMA SameHeads ==
    ASSUME NearbyTypeOK, UNCHANGED <<pins, heads, blobs, asked>>
    PROVE  Grow
<1>1. \A d \in Device, v \in Vault, o \in Device : heads[d][v][o] <= heads[d][v][o]
  BY HeadsInt DEF NearbyTypeOK
<1> QED
  BY <1>1 DEF Grow

(* Not yet at the inventories, or past them: a job that moves on as it is. *)
LEMMA PlainMove ==
    ASSUME DeliveryInv, SharingInv', NEW a \in Job, OthersStay(a), wire' = wire,
           UNCHANGED <<pins, heads, blobs, asked>>,
           InSession(a), Stays(a) \/ Advances(a), OutGood(a)', KeepsBuf(a), KeepsLists(a),
           KeepsBlobs(a),
           HasRecvd(a, 2) => KeepsPeer(a),
           job[a].round \in {0, 1} \/ Stays(a),
           \/ job'[a].out = job[a].out
           \/ \A i \in 1..Len(job'[a].out) : job'[a].out[i].kind # "ops",
           job'[a].round = 3 => /\ job'[a].todo = job[a].todo
                                /\ job'[a].out = job[a].out \/ job[a].out = <<>>
    PROVE  DeliveryInv'
<1>1. NearbyTypeOK /\ Placed(a) /\ job[a].round \in 0..6 /\ job[a].step \in 1..5
  BY Parts, JobFields DEF NearbyTypeOK
<1>2. Grow /\ Shifted(a, 0) /\ OtherWires(a)
  BY <1>1, SameHeads, ShiftedSame DEF OtherWires, KeepsBuf
<1>3. /\ HasPrepared(a, 2)' => HasPrepared(a, 2)
      /\ HasPrepared(a, 4)' => HasPrepared(a, 4)
      /\ HasRecvd(a, 2)' => HasRecvd(a, 2)
      /\ HasRecvd(a, 3)' => HasRecvd(a, 3)
      /\ HasRecvd(a, 4)' => HasRecvd(a, 4)
      /\ HasSent(a, 3) => HasSent(a, 3)'
  BY <1>1, PastSteps
<1>4. job'[a].round = 3 => job[a].round = 3
  BY <1>1 DEF Stays, Advances, GoesOn, IsDone
<1>5. job'[a].mine = job[a].mine /\ job'[a].theirs = job[a].theirs /\ job'[a].flush = job[a].flush
  BY DEF KeepsLists, KeepsBuf
<1>6. job[a].wants \cup job[a].tampered
                    \subseteq job'[a].wants \cup job'[a].tampered \cup blobs'[Me(a)]
  BY DEF KeepsBlobs
<1>7. job'[a].round = 3 /\ ~HasSent(a, 3)' =>
           /\ job[a].round = 3 /\ ~HasSent(a, 3) /\ KeepsLists(a)
           /\ job'[a].todo = job[a].todo
           /\ job'[a].out = job[a].out \/ job[a].out = <<>>
  BY <1>3, <1>4
<1> QED
  BY <1>2, <1>3, <1>5, <1>6, <1>7, MoveDelivers

LEMMA FailDelivers ==
    ASSUME DeliveryInv, SharingInv', UNCHANGED <<pins, heads, blobs, asked>>, NEW a \in Job,
           OthersStay(a), OtherWires(a), IsOut(a)
    PROVE  DeliveryInv'
<1>1. Grow
  BY Parts, SameHeads
<1>2. ~InSession(a)' /\ ~Active(a)' /\ job'[a].link = NoJob
  BY DEF IsOut, InSession, Active
<1>3. Delivering(a)'
  BY <1>2 DEF Delivering, OutGood, MineHeld, Ordered, BufOrdered, OpsComplete, BufComplete,
              OpsDelivered, PeerDelivered, BlobsKnown
<1>4. \A p \in Job : p # NoJob
  BY NearbyConstants
<1> QED
  BY <1>1, <1>2, <1>3, <1>4, DeliveryStep

LEMMA FailedDelivers ==
    ASSUME DeliveryInv, SharingInv', NEW a \in Job, NEW why \in Result, why # "synced",
           Fail(a, why),
           UNCHANGED <<pvars, asked>>
    PROVE  DeliveryInv'
<1>1. OthersStay(a) /\ OtherWires(a) /\ IsOut(a)
  BY Parts, FailedRecord
<1> QED
  BY <1>1, FailDelivers DEF pvars

LEMMA HandshakeDelivers ==
    ASSUME DeliveryInv, SharingInv', NEW a \in Job, SettleHandshake(a)
    PROVE  DeliveryInv'
<1>1. /\ NearbyTypeOK /\ Placed(a) /\ GotGood(a) /\ OutGood(a)
      /\ job[a].round \in 0..6 /\ job[a].step \in 1..5
  BY Parts, JobFields DEF NearbyTypeOK, Sharing
<1>2. CASE ~VerifyProof(a, job[a].got)
  <2>1. Fail(a, "refused") /\ UNCHANGED <<pvars, asked>>
    BY <1>2 DEF SettleHandshake
  <2>2. "refused" \in Result /\ "refused" # "synced"
    BY DEF Result
  <2> QED
    BY <2>1, <2>2, FailedDelivers
<1>3. CASE VerifyProof(a, job[a].got)
  <2>1. InSession(a) /\ job[a].round = 0 /\ job[a].step = (IF a \in Dialer THEN 3 ELSE 5)
    <3>1. In(a, "settle") /\ job[a].round = 0
      BY DEF SettleHandshake
    <3>2. job[a] \in JobRecord /\ job[a].step <= Steps(a, job[a].round)
      BY <1>1 DEF NearbyTypeOK, Placed
    <3> QED
      BY <3>1, <3>2, PhaseSteps DEF In, Running, InSession
  <2>2. job[a].got \in HandshakeProof
    BY <1>1, <2>1 DEF GotGood
  <2>3. /\ NearbyTypeOK' /\ OthersStay(a) /\ wire' = wire /\ asked' = asked /\ UNCHANGED pvars
        /\ InSession(a) /\ Advances(a)
        /\ job'[a].out = IF a \in Dialer THEN <<Message("proof", MakeProof(a))>> ELSE job[a].out
        /\ KeepsLists(a) /\ KeepsBuf(a) /\ KeepsBlobs(a) /\ job'[a].todo = job[a].todo
    BY <1>1, <1>3, <2>2, SettleFields
  <2>4. ~HasRecvd(a, 2) /\ job'[a].round # 3
    BY <2>1, <2>3 DEF HasRecvd, Past, Advances, GoesOn, IsDone, Steps
  <2>5. OutGood(a)' /\ (\/ job'[a].out = job[a].out
                        \/ \A i \in 1..Len(job'[a].out) : job'[a].out[i].kind # "ops")
    <3>1. CASE a \in Dialer
      <4> DEFINE m == Message("proof", MakeProof(a))
      <4>1. m.kind = "proof"
        BY DEF Message
      <4>2. Sending(a)'
        BY <2>1, <2>3, <3>1 DEF Advances, GoesOn, IsDone, Steps, Sending
      <4> HIDE DEF m
      <4>3. OutGood(a)' /\ Len(job'[a].out) = 1 /\ job'[a].out[1] = m
        BY <2>3, <3>1, <4>1, <4>2, OneOut DEF m
      <4> QED
        BY <4>1, <4>3
    <3>2. CASE a \notin Dialer
      <4>1. ~Sending(a)
        BY <2>1, <3>2 DEF Sending
      <4> QED
        BY <1>1, <2>1, <2>3, <3>2, <4>1, OutEmpty, NothingOut
    <3> QED
      BY <3>1, <3>2
  <2>6. UNCHANGED <<pins, heads, blobs, asked>>
    BY <2>3 DEF pvars
  <2> QED
    BY <2>1, <2>3, <2>4, <2>5, <2>6, PlainMove
<1> QED
  BY <1>2, <1>3

LEMMA ImportDeliversOn ==
    ASSUME DeliveryInv, SharingInv', NEW a \in Job, SettleShares(a)
    PROVE  DeliveryInv'
<1>1. /\ NearbyTypeOK /\ Placed(a) /\ GotGood(a) /\ OutGood(a)
      /\ job[a].round \in 0..6 /\ job[a].step \in 1..5
  BY Parts, JobFields DEF NearbyTypeOK, Sharing
<1>2. InSession(a) /\ job[a].round = 1 /\ job[a].step = 4
  <2>1. In(a, "settle") /\ job[a].round = 1
    BY DEF SettleShares
  <2>2. job[a] \in JobRecord /\ job[a].step <= Steps(a, job[a].round)
    BY <1>1 DEF NearbyTypeOK, Placed
  <2> QED
    BY <2>1, <2>2, PhaseSteps DEF In, Running, InSession
<1>3. job[a].got \subseteq Vault
  BY <1>1, <1>2 DEF GotGood, RecvStep
<1>4. /\ OthersStay(a) /\ wire' = wire /\ asked' = asked
      /\ UNCHANGED <<unlocked, pins, heads, blobs>>
      /\ InSession(a) /\ Advances(a)
      /\ KeepsPeer(a) /\ KeepsLists(a) /\ KeepsBuf(a) /\ KeepsBlobs(a)
      /\ job'[a].todo = job[a].todo /\ job'[a].out = job[a].out
  BY <1>1, <1>3, SettleSharesFields
<1>5. ~Sending(a)
  BY <1>2 DEF Sending, SendStep
<1>6. OutGood(a)'
  BY <1>1, <1>2, <1>4, <1>5, OutEmpty, NothingOut
<1> QED
  BY <1>2, <1>4, <1>6, PlainMove

LEMMA CollectEndDelivers ==
    ASSUME DeliveryInv, SharingInv', NEW a \in Job, CollectEnd(a)
    PROVE  DeliveryInv'
<1> DEFINE m == Message(Closing[job[a].round], <<>>)
<1>1. NearbyTypeOK /\ Placed(a)
  BY Parts
<1>2. /\ OthersStay(a) /\ wire' = wire /\ asked' = asked /\ UNCHANGED pvars
      /\ InSession(a) /\ Stays(a)
      /\ job[a].round \in {3, 5} /\ job[a].step = SendStep(a, job[a].round)
      /\ job[a].out = <<>> /\ job[a].todo = {}
      /\ job'[a].out = <<m>>
      /\ KeepsPeer(a) /\ KeepsLists(a) /\ KeepsBuf(a) /\ KeepsBlobs(a)
      /\ job'[a].todo = job[a].todo
  BY <1>1, CollectEndFields
<1>3. m.kind = (IF job[a].round = 3 THEN "ops_end" ELSE "blobs_end")
  BY <1>2 DEF Message, Closing
<1> HIDE DEF m
<1>4. Sending(a)'
  BY <1>2 DEF Sending, SendStep, Stays
<1>5. job'[a].round = job[a].round
  BY <1>2 DEF Stays
<1>6. OutGood(a)' /\ Len(job'[a].out) = 1 /\ job'[a].out[1] = m
  BY <1>2, <1>3, <1>4, <1>5, OneOut
<1>7. \A i \in 1..Len(job'[a].out) : job'[a].out[i].kind # "ops"
  BY <1>2, <1>3, <1>6
<1>8. UNCHANGED <<pins, heads, blobs, asked>>
  BY <1>2 DEF pvars
<1> QED
  BY <1>2, <1>6, <1>7, <1>8, PlainMove

LEMMA CollectBlobDelivers ==
    ASSUME DeliveryInv, SharingInv', NEW a \in Job, CollectBlob(a)
    PROVE  DeliveryInv'
<1>1. NearbyTypeOK /\ Placed(a)
  BY Parts
<1>2. /\ OthersStay(a) /\ wire' = wire /\ asked' = asked /\ UNCHANGED pvars
      /\ InSession(a) /\ Stays(a)
      /\ job[a].round = 5 /\ job[a].step = SendStep(a, 5) /\ job[a].out = <<>>
      /\ \/ job'[a].out = <<>>
         \/ \E b \in Blob : Message("blob", b) \in Msg /\ job'[a].out = <<Message("blob", b)>>
      /\ KeepsPeer(a) /\ KeepsLists(a) /\ KeepsBuf(a) /\ KeepsBlobs(a)
  BY <1>1, CollectBlobFields
<1>3. Sending(a)' /\ job'[a].round = 5
  BY <1>2 DEF Sending, SendStep, Stays
<1>4. OutGood(a)' /\ \A i \in 1..Len(job'[a].out) : job'[a].out[i].kind # "ops"
  <2>1. CASE job'[a].out = <<>>
    <3>1. Len(job'[a].out) = 0
      BY <2>1, LenProperties
    <3> QED
      BY <2>1, <3>1, NothingOut
  <2>2. ASSUME NEW b \in Blob, job'[a].out = <<Message("blob", b)>>
        PROVE  OutGood(a)' /\ \A i \in 1..Len(job'[a].out) : job'[a].out[i].kind # "ops"
    <3> DEFINE m == Message("blob", b)
    <3>1. m.kind = "blob"
      BY DEF Message
    <3> HIDE DEF m
    <3>2. OutGood(a)' /\ Len(job'[a].out) = 1 /\ job'[a].out[1] = m
      BY <1>3, <2>2, <3>1, OneOut DEF m
    <3> QED
      BY <3>1, <3>2
  <2> QED
    BY <1>2, <2>1, <2>2
<1>5. UNCHANGED <<pins, heads, blobs, asked>>
  BY <1>2 DEF pvars
<1> QED
  BY <1>2, <1>3, <1>4, <1>5, PlainMove

(* What send_ops collects for a vault is all that the other end misses.    *)
LEMMA CollectedAll ==
    ASSUME DeliveryInv, NEW a \in Job, NEW p \in Job, job[a].link = p, job[p].link = a,
           job[a].round = 3, NEW v \in Common(a), NEW o \in Device, NEW k \in 1..MaxSeq,
           Misses(p, v, o, k), k <= heads[Me(a)][v][o]
    PROVE  <<o, k>> \in OpsToSend(Me(a), v, job[a].theirs[v], job[a].peer)
<1>1. /\ NearbyTypeOK /\ Placed(a) /\ PeerKnown(a) /\ Paired(a, p) /\ InSession(a) /\ InSession(p)
      /\ MineHeld(p) /\ NoneTrustsItself
  BY Parts
<1>2. Me(p) \in Device /\ job[a].peer = Me(p)
  <2>1. Vouched(a)
    BY DEF Vouched
  <2> QED
    BY <1>1, <2>1, OwnerIsDevice DEF PeerKnown
<1>3. o # Me(p)
  BY <1>1, <1>2 DEF Misses, NoneTrustsItself
<1>4. job[a].theirs = job[p].mine /\ HasPrepared(p, 2)
  <2>1. HasRecvd(a, 2)
    BY <1>1, RoundOrder
  <2>2. HasSent(p, 2) /\ job[a].theirs = job[p].mine
    BY <1>1, <2>1 DEF Paired, Listed
  <2> QED
    BY <1>1, <2>2, RoundOrder
<1>5. v \in DOMAIN job[p].mine /\ v \in Vault
  BY <1>1, <1>4, ListHeads DEF Common
<1>6. job[p].mine[v][o] <= heads[Me(p)][v][o] /\ heads[Me(p)][v][o] < k
  BY <1>1, <1>4, <1>5 DEF MineHeld, Misses
<1>7. job[p].mine[v][o] \in Int /\ heads[Me(p)][v][o] \in Int /\ k \in Int
  <2>1. job[p].mine[v] \in Heads
    BY <1>1, <1>5, ListHeads
  <2>2. job[p].mine[v][o] \in Int
    BY <2>1, HeadsInt
  <2>3. heads[Me(p)][v][o] \in Int
    BY <1>1, <1>2, <1>5, HeadsInt DEF NearbyTypeOK
  <2> QED
    BY <2>2, <2>3, NatConstants
<1>8. job[a].theirs[v][o] < k
  BY <1>4, <1>6, <1>7
<1>9. job[a].theirs[v][o] \in Int
  BY <1>4, <1>7
<1> DEFINE t == job[a].theirs[v]
           h == heads[Me(a)][v]
           e == job[a].peer
<1>10. k <= h[o] /\ o # e /\ k > t[o]
  BY <1>2, <1>3, <1>7, <1>8, <1>9
<1> HIDE DEF t, e, h
<1>11. <<o, k>> \in Op
  BY DEF Op
<1>12. <<o, k>> \in {op \in Op : op[2] <= h[op[1]] /\ op[1] # e /\ op[2] > t[op[1]]}
  BY <1>10, <1>11
<1> QED
  BY <1>12 DEF OpsToSend, t, e, h

LEMMA CollectOpsDelivers ==
    ASSUME DeliveryInv, SharingInv', NEW a \in Job, CollectOps(a)
    PROVE  DeliveryInv'
<1> DEFINE w == Min(job[a].todo)
           ops == OpsToSend(Me(a), w, job[a].theirs[w], job[a].peer)
<1>1. NearbyTypeOK /\ NearbyTypeOK' /\ Placed(a) /\ TodoGood(a) /\ MineHeld(a)
  BY Parts DEF SharingInv
<1>2. job[a].round = 3 /\ InSession(a)
  BY DEF CollectOps, In, Running, InSession
<1>3. job[a].todo \subseteq Common(a) /\ Common(a) \subseteq Vault
  BY <1>1, <1>2, ListHeads DEF TodoGood
<1>4. /\ OthersStay(a) /\ wire' = wire /\ asked' = asked /\ UNCHANGED pvars
      /\ Stays(a) /\ job[a].step = SendStep(a, 3) /\ job[a].out = <<>>
      /\ w \in job[a].todo /\ w \in Vault /\ ops \subseteq Op
      /\ job'[a].out = Batches(w, ops) /\ job'[a].todo = job[a].todo \ {w}
      /\ KeepsPeer(a) /\ KeepsLists(a) /\ KeepsBuf(a) /\ KeepsBlobs(a)
  BY <1>1, <1>3, CollectOpsFields
<1> DEFINE q == Batches(w, ops)
<1> HIDE DEF w, ops
<1>14. PICK u \in Vault : u = w
  BY <1>4
<1>5. /\ q \in Seq(Msg) /\ Len(q) \in Nat
      /\ \A i \in 1..Len(q) : /\ q[i].kind = "ops" /\ q[i].body.vault = u
                              /\ q[i].body.ops \subseteq ops
      /\ \A op \in ops : \E i \in 1..Len(q) : op \in q[i].body.ops
      /\ \A i \in 1..Len(q), x \in ops, y \in ops :
           y \in q[i].body.ops /\ x[1] = y[1] /\ x[2] <= y[2] =>
               \E n \in 1..i : x \in q[n].body.ops
  <2>1. ops \in SUBSET Op
    BY <1>4
  <2>4. /\ q \in Seq(Msg)
        /\ \A i \in 1..Len(q) : /\ q[i].kind = "ops" /\ q[i].body.vault = w
                                /\ q[i].body.ops \subseteq ops
        /\ \A op \in ops : \E i \in 1..Len(q) : op \in q[i].body.ops
        /\ \A i \in 1..Len(q), x \in ops, y \in ops :
             y \in q[i].body.ops /\ x[1] = y[1] /\ x[2] <= y[2] =>
                 \E n \in 1..i : x \in q[n].body.ops
    BY <1>4, <2>1, BatchesProperty, Zenon
  <2>2. /\ q \in Seq(Msg)
        /\ \A i \in 1..Len(q) : /\ q[i].kind = "ops" /\ q[i].body.vault = u
                                /\ q[i].body.ops \subseteq ops
        /\ \A op \in ops : \E i \in 1..Len(q) : op \in q[i].body.ops
        /\ \A i \in 1..Len(q), x \in ops, y \in ops :
             y \in q[i].body.ops /\ x[1] = y[1] /\ x[2] <= y[2] =>
                 \E n \in 1..i : x \in q[n].body.ops
    <3> HIDE DEF q
    <3> QED
      BY <1>14, <2>4
  <2>3. Len(q) \in Nat
    BY <2>2, LenProperties
  <2> HIDE DEF q
  <2> QED
    BY <2>2, <2>3
<1>6. \A op \in ops : op[2] <= heads[Me(a)][u][op[1]]
  BY <1>14 DEF OpsToSend, ops
<1>7. \A p \in Job, o \in Device, k \in 1..MaxSeq :
        job[a].link = p /\ job[p].link = a /\ Misses(p, u, o, k) /\ k <= heads[Me(a)][u][o]
            => <<o, k>> \in ops
  BY <1>2, <1>3, <1>4, <1>14, CollectedAll DEF ops
<1>8. job'[a].out = q
  BY <1>4
<1> HIDE DEF q
<1>9. OutGood(a)'
  <2>1. Sending(a)'
    BY <1>2, <1>4 DEF Sending, SendStep, Stays
  <2> QED
    BY <1>5, <1>8, <2>1 DEF OutGood
<1>10. Grow /\ Shifted(a, 0) /\ OtherWires(a)
  BY <1>1, <1>4, SameHeads, ShiftedSame DEF OtherWires, KeepsBuf, pvars
<1>11. ASSUME NEW p \in Job \ {a}, job[a].link = p, job[p].link = a
       PROVE  OutOrdered(p, a)' /\ Covered(p, a)'
  <2>1. Paired(p, a)
    BY <1>11, Parts
  <2>2. wire'[p] = wire[p] /\ job'[p] = job[p]
    BY <1>4 DEF OthersStay
  <2>3. OutOrdered(p, a)'
    <3> SUFFICES ASSUME NEW i \in 1..Len(q), NEW op \in q[i].body.ops, NEW k \in 1..MaxSeq,
                        k <= op[2], Misses(p, job[a].out[i].body.vault, op[1], k)'
                 PROVE  Carried(job[a].out, i, job[a].out[i].body.vault, <<op[1], k>>)'
      BY <1>8 DEF OutOrdered
    <3>1. op \in ops /\ op \in Op /\ op[1] \in Device /\ op[2] \in 1..MaxSeq /\ op[2] \in Int
          /\ k \in Int
      BY <1>4, <1>5, OpFields, NatConstants
    <3>2. Misses(p, u, op[1], k)'
      BY <1>5, <1>8 DEF Misses
    <3>3. Misses(p, u, op[1], k)
      BY <1>1, <1>4, <1>10, <3>1, <3>2, MissesLess
    <3>4. heads[Me(a)][u][op[1]] \in Int /\ op[2] <= heads[Me(a)][u][op[1]]
      BY <1>1, <1>4, <1>6, <3>1, HeadsInt, OwnerIsDevice DEF NearbyTypeOK
    <3>5. <<op[1], k>> \in ops
      BY <1>7, <1>11, <3>1, <3>3, <3>4
    <3>6. \E n \in 1..i : <<op[1], k>> \in q[n].body.ops
      BY <1>5, <3>1, <3>5
    <3>7. \E n \in 1..i : q[n].kind = "ops" /\ q[n].body.vault = u /\ <<op[1], k>> \in q[n].body.ops
      BY <1>5, <3>6
    <3> QED
      BY <1>5, <1>8, <3>7 DEF Carried
  <2>4. Covered(p, a)'
    <3>1. Common(a)' = Common(a) /\ job'[a].mine = job[a].mine
      BY <1>4 DEF KeepsLists, Common
    <3> SUFFICES ASSUME ~HasSent(a, 3)', NEW v \in Common(a), NEW o \in Device,
                        NEW k \in 1..MaxSeq, k <= job[a].mine[v][o], Misses(p, v, o, k)'
                 PROVE  \/ Holds(p, Len(wire[p]), v, <<o, k>>)'
                        \/ Carried(job[a].out, Len(job[a].out), v, <<o, k>>)'
                        \/ v \in job'[a].todo
      BY <3>1 DEF Covered
    <3>2. Misses(p, v, o, k) /\ v \in Vault
      BY <1>1, <1>3, <1>10, MissesLess
    <3>3. ~HasSent(a, 3)
      BY <1>1, <1>4, PastSteps
    <3>4. Holds(p, Len(wire[p]), v, <<o, k>>) => Holds(p, Len(wire[p]), v, <<o, k>>)'
      BY <2>2 DEF Holds
    <3>5. ~Carried(job[a].out, Len(job[a].out), v, <<o, k>>)
      BY <1>4 DEF Carried
    <3>6. Holds(p, Len(wire[p]), v, <<o, k>>) \/ v \in job[a].todo
      BY <1>2, <2>1, <3>2, <3>3, <3>5 DEF Paired, Covered
    <3>7. CASE v # u
      BY <1>4, <1>14, <3>4, <3>6, <3>7
    <3>8. CASE v = u
      <4>1. HasPrepared(a, 2) /\ v \in DOMAIN job[a].mine
        BY <1>1, <1>2, RoundOrder DEF Common
      <4>2. job[a].mine[v][o] <= heads[Me(a)][v][o]
        BY <1>1, <1>2, <4>1 DEF MineHeld
      <4>3. job[a].mine[v][o] \in Int /\ heads[Me(a)][v][o] \in Int /\ k \in Int
        <5>1. job[a].mine[v] \in Heads
          BY <1>1, <4>1, ListHeads
        <5>2. heads[Me(a)][v][o] \in Int
          BY <1>1, <3>2, HeadsInt, OwnerIsDevice DEF NearbyTypeOK
        <5> QED
          BY <5>1, <5>2, HeadsInt, NatConstants
      <4>4. <<o, k>> \in ops
        BY <1>7, <1>11, <3>2, <3>8, <4>2, <4>3
      <4>5. \E n \in 1..Len(q) :
                q[n].kind = "ops" /\ q[n].body.vault = v /\ <<o, k>> \in q[n].body.ops
        BY <1>5, <3>8, <4>4
      <4> QED
        BY <1>8, <4>5 DEF Carried
    <3> QED
      BY <3>7, <3>8
  <2> QED
    BY <2>3, <2>4
<1>12. /\ HasPrepared(a, 2)' => HasPrepared(a, 2)
       /\ HasPrepared(a, 4)' => HasPrepared(a, 4)
       /\ HasRecvd(a, 2)' => HasRecvd(a, 2)
       /\ HasRecvd(a, 3)' => HasRecvd(a, 3)
       /\ HasRecvd(a, 4)' => HasRecvd(a, 4)
  BY <1>1, <1>4, PastSteps
<1>13. job'[a].mine = job[a].mine /\ job'[a].theirs = job[a].theirs /\ job'[a].flush = job[a].flush
       /\ job[a].wants \cup job[a].tampered
                    \subseteq job'[a].wants \cup job'[a].tampered \cup blobs'[Me(a)]
  BY <1>4 DEF KeepsLists, KeepsBuf, KeepsBlobs
<1> QED
  BY <1>2, <1>4, <1>9, <1>10, <1>11, <1>12, <1>13, MoveDelivers

-----------------------------------------------------------------------------
(* Reading a message: what it carries goes to the buffer.                  *)
LEMMA TailShift ==
    ASSUME NearbyTypeOK, NEW a \in Job, wire[a] # <<>>, wire'[a] = Tail(wire[a]),
           job[a].buf \subseteq job'[a].buf,
           Head(wire[a]).kind = "ops" =>
                {Head(wire[a]).body.vault} \X Head(wire[a]).body.ops \subseteq job'[a].buf
    PROVE  Shifted(a, 1) /\ 1 \in 1..Len(wire[a]) /\ wire[a][1] = Head(wire[a])
<1> DEFINE t == Tail(wire[a])
<1>1. wire[a] \in Seq(Msg)
  BY Sequences
<1>2. /\ Len(wire[a]) \in Nat \ {0} /\ Len(t) = Len(wire[a]) - 1
      /\ Head(wire[a]) = wire[a][1] /\ 1 \in 1..Len(wire[a])
      /\ \A i \in 1..Len(t) : t[i] = wire[a][i + 1] /\ i + 1 \in 1..Len(wire[a])
  BY <1>1, TailFacts
<1>3. wire'[a] = t
  OBVIOUS
<1> HIDE DEF t
<1>4. ASSUME NEW i \in 0..Len(t), NEW v \in Vault, NEW o \in Device, NEW k \in 1..MaxSeq,
             Holds(a, i + 1, v, <<o, k>>)
      PROVE  Holds(a, i, v, <<o, k>>)'
  <2>1. CASE <<v, <<o, k>>>> \in job[a].buf
    BY <2>1 DEF Holds
  <2>2. ASSUME NEW n \in 1..(i + 1), wire[a][n].kind = "ops", wire[a][n].body.vault = v,
               <<o, k>> \in wire[a][n].body.ops
        PROVE  Holds(a, i, v, <<o, k>>)'
    <3>1. CASE n = 1
      <4>1. <<v, <<o, k>>>> \in {Head(wire[a]).body.vault} \X Head(wire[a]).body.ops
        BY <1>2, <2>2, <3>1
      <4> QED
        BY <1>2, <2>2, <3>1, <4>1 DEF Holds
    <3>2. CASE n # 1
      <4>1. n - 1 \in 1..i /\ n - 1 \in 1..Len(t) /\ (n - 1) + 1 = n
        BY <1>2, <1>4, <2>2, <3>2
      <4>2. t[n - 1] = wire[a][n]
        BY <1>2, <4>1
      <4> QED
        BY <1>3, <2>2, <4>1, <4>2 DEF Holds, Carried
    <3> QED
      BY <3>1, <3>2
  <2> QED
    BY <1>4, <2>1, <2>2 DEF Holds, Carried
<1> QED
  BY <1>2, <1>3, <1>4 DEF Shifted

LEMMA RecvMessageDelivers ==
    ASSUME DeliveryInv, SharingInv', NEW a \in Job, Receiving(a), Allowed(a, Arrived(a)),
           RecvMessage(a)
    PROVE  DeliveryInv'
<1>1. /\ NearbyTypeOK /\ NearbyTypeOK' /\ Placed(a) /\ OutGood(a) /\ PeerDelivered(a)
      /\ job[a].round \in 0..6 /\ job[a].step \in 1..5
  BY Parts, JobFields DEF NearbyTypeOK, SharingInv
<1>2. /\ Arrived(a) = Head(wire[a]) /\ wire[a] # <<>> /\ InSession(a) /\ job[a].flush = "no"
      /\ Arrived(a) \in Msg
      /\ \/ job[a].round = 0 /\ a \in Dialer /\ job[a].step = 2
         \/ job[a].round = 0 /\ a \notin Dialer /\ job[a].step \in {1, 4}
         \/ job[a].round > 0 /\ job[a].step = RecvStep(a, job[a].round)
  BY <1>1, ArrivedFacts
<1>3. PICK m \in Msg : m = Arrived(a)
  BY <1>2
<1>4. /\ OthersStay(a) /\ asked' = asked /\ UNCHANGED pvars
      /\ OtherWires(a) /\ wire'[a] = Tail(wire[a])
      /\ Advances(a) /\ job[a].round \in {0, 1, 2, 4, 6}
      /\ m.kind = CASE job[a].round = 0 -> IF job[a].step = 1 THEN "e" ELSE "proof"
                    [] job[a].round = 1 -> "hello" [] job[a].round = 2 -> "inventory"
                    [] job[a].round = 4 -> "blob_want" [] job[a].round = 6 -> "done"
      /\ job'[a].theirs = IF job[a].round = 2 THEN m.body ELSE job[a].theirs
      /\ job[a].round = 2 => job'[a].todo = DOMAIN job[a].mine \cap DOMAIN m.body
      /\ KeepsPeer(a) /\ KeepsBuf(a) /\ KeepsBlobs(a)
      /\ job'[a].mine = job[a].mine /\ job'[a].out = job[a].out
  BY <1>1, <1>3, RecvMessageFields
<1>5. Grow
  BY <1>1, <1>4, SameHeads DEF pvars
<1>6. m.kind # "ops" /\ (job[a].round = 2 => m.kind = "inventory")
      /\ (job[a].round = 4 => m.kind = "blob_want")
  BY <1>4
<1>7. Shifted(a, 1) /\ 1 \in 1..Len(wire[a]) /\ wire[a][1] = m
  BY <1>1, <1>2, <1>3, <1>4, <1>6, TailShift DEF KeepsBuf
<1>8. OutGood(a)'
  <2>1. CASE ~Sending(a)
    BY <1>1, <1>2, <1>4, <2>1, OutEmpty, NothingOut
  <2>2. CASE Sending(a)
    <3>1. job[a].round \in {1, 2, 4, 6} /\ a \notin Dialer /\ job[a].step = 2
      BY <1>2, <1>4, <2>2 DEF Sending, SendStep, RecvStep
    <3>2. job'[a].round = job[a].round /\ job'[a].step = 3
      BY <1>4, <3>1 DEF Advances, GoesOn, IsDone, Steps
    <3>3. Sending(a)'
      BY <3>1, <3>2 DEF Sending, SendStep
    <3>4. \A i \in 1..Len(job[a].out) : job[a].out[i].kind # "ops_end"
      BY <1>1, <1>2, <3>1 DEF OutGood
    <3>5. job'[a].out = job[a].out /\ job'[a].mine = job[a].mine /\ job'[a].round = job[a].round
      BY <1>4, <3>2
    <3>6. ASSUME NEW i \in 1..Len(job[a].out)
          PROVE  LET x == job'[a].out[i] IN
                 /\ x.kind \notin {"ops", "blob"} => Len(job'[a].out) = 1
                 /\ x.kind = "inventory" => job'[a].round = 2 /\ x.body = job'[a].mine
                 /\ x.kind # "ops_end"
                 /\ x.kind = "blob_want" => job'[a].round = 4
      <4>1. /\ job[a].out[i].kind \notin {"ops", "blob"} => Len(job[a].out) = 1
            /\ job[a].out[i].kind = "inventory" =>
                    job[a].round = 2 /\ job[a].out[i].body = job[a].mine
            /\ job[a].out[i].kind = "blob_want" => job[a].round = 4
        BY <1>1, <1>2 DEF OutGood
      <4> QED
        BY <3>4, <3>5, <4>1
    <3> QED
      BY <3>3, <3>5, <3>6 DEF OutGood
  <2> QED
    BY <2>1, <2>2
<1>9. /\ HasPrepared(a, 2)' => HasPrepared(a, 2)
      /\ HasPrepared(a, 4)' => HasPrepared(a, 4)
      /\ HasRecvd(a, 2)' => HasRecvd(a, 2) \/ job[a].round = 2
      /\ HasRecvd(a, 3)' => HasRecvd(a, 3)
      /\ HasRecvd(a, 4)' => HasRecvd(a, 4) \/ job[a].round = 4
  <2>1. job[a].round # 3 /\ (job[a].round \in {2, 4} => job[a].step # 1)
    BY <1>2, <1>4 DEF RecvStep
  <2>2. Advances(a)
    BY <1>4
  <2>3. ASSUME NEW r \in {2, 3, 4}
        PROVE  /\ HasPrepared(a, r)' => HasPrepared(a, r) \/ (job[a].round = r /\ job[a].step = 1)
               /\ HasRecvd(a, r)' => HasRecvd(a, r) \/ job[a].round = r
    <3>1. r \in 1..5 /\ NearbyTypeOK /\ Placed(a)
      BY <1>1
    <3> QED
      BY <2>2, <3>1, PastSteps
  <2> QED
    BY <2>1, <2>3
<1>10. HasRecvd(a, 2) => KeepsLists(a)
  <2>1. HasRecvd(a, 2) => job[a].round # 2
    BY <1>1, <1>2 DEF HasRecvd, Past, RecvStep
  <2>2. job'[a].theirs = IF job[a].round = 2 THEN m.body ELSE job[a].theirs
    BY <1>4
  <2>3. job'[a].mine = job[a].mine
    BY <1>4
  <2> QED
    BY <2>1, <2>2, <2>3 DEF KeepsLists
<1>11. HasRecvd(a, 4)' => HasRecvd(a, 4) \/ PeerHas(a)'
  <2>1. CASE job[a].round # 4
    BY <1>9, <2>1
  <2>2. CASE job[a].round = 4
    <3>1. HasRecvd(a, 2) /\ PeerHas(a)
      BY <1>1, <1>2, <1>6, <1>7, <2>2 DEF PeerDelivered
    <3> QED
      BY <1>1, <1>4, <1>5, <1>10, <3>1, PeerStillHas
  <2> QED
    BY <2>1, <2>2
<1>12. ASSUME NEW p \in Job \ {a}, job[a].link = p, job[p].link = a
       PROVE  /\ HasRecvd(a, 2)' => \/ HasRecvd(a, 2) /\ job'[a].theirs = job[a].theirs
                                    \/ HasSent(p, 2) /\ job'[a].theirs = job[p].mine
              /\ job'[a].round = 3 => job'[a].todo = Common(a)'
  <2>1. Paired(a, p)
    BY <1>12, Parts
  <2>2. job[a].round = 2 => HasSent(p, 2) /\ job'[a].theirs = job[p].mine
    BY <1>4, <1>6, <1>7, <2>1 DEF Paired, Listed
  <2>3. HasRecvd(a, 2) => job'[a].theirs = job[a].theirs
    BY <1>10 DEF KeepsLists
  <2>4. job'[a].round = 3 => job[a].round = 2
    BY <1>4 DEF Advances, GoesOn, IsDone
  <2>5. job[a].round = 2 => job'[a].todo = Common(a)'
    BY <1>4 DEF Common
  <2> QED
    BY <1>9, <2>2, <2>3, <2>4, <2>5
<1>13. job'[a].flush = "no" /\ job[a].wants \cup job[a].tampered
                    \subseteq job'[a].wants \cup job'[a].tampered \cup blobs'[Me(a)]
  BY <1>2, <1>4 DEF KeepsBuf, KeepsBlobs
<1> QED
  BY <1>2, <1>4, <1>5, <1>7, <1>8, <1>9, <1>10, <1>11, <1>12, <1>13, MoveDelivers

LEMMA RecvOpsDelivers ==
    ASSUME DeliveryInv, SharingInv', NEW a \in Job, Receiving(a), Allowed(a, Arrived(a)), RecvOps(a)
    PROVE  DeliveryInv'
<1>1. /\ NearbyTypeOK /\ NearbyTypeOK' /\ Placed(a) /\ OutGood(a)
      /\ Ordered(a) /\ BufOrdered(a) /\ OpsComplete(a)
  BY Parts DEF SharingInv
<1>2. /\ Arrived(a) = Head(wire[a]) /\ wire[a] # <<>> /\ InSession(a) /\ job[a].flush = "no"
      /\ Arrived(a) \in Msg
  BY <1>1, ArrivedFacts
<1>3. PICK m \in Msg : m = Arrived(a)
  BY <1>2
<1> DEFINE new == IF m.kind = "ops" THEN {m.body.vault} \X m.body.ops ELSE {}
<1>4. /\ OthersStay(a) /\ asked' = asked /\ UNCHANGED pvars
      /\ OtherWires(a) /\ wire'[a] = Tail(wire[a])
      /\ Stays(a) /\ job[a].round = 3 /\ job[a].step = RecvStep(a, 3)
      /\ m.kind \in {"ops", "ops_end"}
      /\ job'[a].buf = job[a].buf \cup new
      /\ job'[a].flush = "end" <=> m.kind = "ops_end"
      /\ KeepsPeer(a) /\ KeepsLists(a) /\ KeepsBlobs(a)
      /\ job'[a].todo = job[a].todo /\ job'[a].out = job[a].out
  BY <1>1, <1>3, RecvOpsFields
<1>5. m.kind = "ops" => /\ {m.body.vault} \X m.body.ops = new
                        /\ m.body.vault \in Vault /\ m.body.ops \subseteq Op
  BY OpsBody
<1>6. m.kind # "ops" => new = {}
  OBVIOUS
<1> HIDE DEF new
<1>7. Grow
  BY <1>1, <1>4, SameHeads DEF pvars
<1>8. Shifted(a, 1) /\ 1 \in 1..Len(wire[a]) /\ wire[a][1] = m
  BY <1>1, <1>2, <1>3, <1>4, <1>5, TailShift
<1>9. OutGood(a)'
  <2>1. ~Sending(a)
    BY <1>4 DEF Sending, RecvStep, SendStep
  <2> QED
    BY <1>1, <1>2, <1>4, <2>1, OutEmpty, NothingOut
<1>10. /\ HasPrepared(a, 2)' => HasPrepared(a, 2)
       /\ HasPrepared(a, 4)' => HasPrepared(a, 4)
       /\ HasRecvd(a, 2)' => HasRecvd(a, 2)
       /\ HasRecvd(a, 3)' => HasRecvd(a, 3)
       /\ HasRecvd(a, 4)' => HasRecvd(a, 4)
       /\ HasSent(a, 3) => HasSent(a, 3)'
  BY <1>1, <1>4, PastSteps
<1>11. Me(a)' = Me(a) /\ pins' = pins /\ heads' = heads /\ InSession(a)
       /\ Common(a)' = Common(a) /\ job'[a].theirs = job[a].theirs
  BY <1>2, <1>4 DEF Me, pvars, Common, KeepsLists
<1>12. \A v, op : Holds(a, 1, v, op) => <<v, op>> \in job[a].buf
         \/ (m.kind = "ops" /\ <<v, op>> \in new)
  <2>1. \A n \in 1..1 : n = 1
    OBVIOUS
  <2> QED
    BY <1>5, <1>8, <2>1 DEF Holds, Carried
<1>13. BufOrdered(a)'
  <2> SUFFICES ASSUME NEW x \in job'[a].buf, NEW k \in 1..MaxSeq, k <= x[2][2],
                      Misses(a, x[1], x[2][1], k)
               PROVE  <<x[1], <<x[2][1], k>>>> \in job'[a].buf
    BY <1>11 DEF BufOrdered, Misses
  <2>1. CASE x \in job[a].buf
    BY <1>2, <1>1, <1>4, <2>1 DEF BufOrdered
  <2>2. CASE x \in new
    <3>1. m.kind = "ops"
      BY <1>6, <2>2
    <3>2. x[1] = m.body.vault /\ x[2] \in m.body.ops
      BY <1>5, <2>2, <3>1
    <3>3. Holds(a, 1, m.body.vault, <<x[2][1], k>>)
      BY <1>1, <1>2, <1>8, <3>1, <3>2 DEF Ordered
    <3> QED
      BY <1>4, <1>12, <3>2, <3>3
  <2> QED
    BY <1>4, <2>1, <2>2
<1>14. BufComplete(a)'
  <2> SUFFICES ASSUME m.kind = "ops_end", NEW v \in Common(a), NEW o \in Device,
                      NEW k \in 1..MaxSeq, k <= job[a].theirs[v][o], Misses(a, v, o, k)
               PROVE  <<v, <<o, k>>>> \in job'[a].buf
    BY <1>4, <1>11 DEF BufComplete, Misses
  <2>1. Holds(a, 1, v, <<o, k>>)
    BY <1>1, <1>2, <1>8 DEF OpsComplete
  <2> QED
    BY <1>4, <1>12, <2>1
<1>15. ASSUME NEW p \in Job \ {a}, job[a].link = p, job[p].link = a
       PROVE  job'[a].flush = "end" => HasSent(p, 3)
  <2>1. Paired(a, p)
    BY <1>15, Parts
  <2> QED
    BY <1>4, <1>8, <2>1 DEF Paired, EndSeen
<1>16. job'[a].mine = job[a].mine /\ job[a].flush = "no"
       /\ job[a].wants \cup job[a].tampered
                    \subseteq job'[a].wants \cup job'[a].tampered \cup blobs'[Me(a)]
  BY <1>2, <1>4 DEF KeepsLists, KeepsBlobs
<1>17. job'[a].round = 3 /\ ~HasSent(a, 3)' =>
           /\ job[a].round = 3 /\ ~HasSent(a, 3) /\ KeepsLists(a)
           /\ job'[a].todo = job[a].todo
           /\ job'[a].out = job[a].out \/ job[a].out = <<>>
  BY <1>4, <1>10
<1> QED
  BY <1>2, <1>4, <1>7, <1>8, <1>9, <1>10, <1>11, <1>13, <1>14, <1>15, <1>16, <1>17, MoveDelivers

LEMMA RecvBlobDelivers ==
    ASSUME DeliveryInv, SharingInv', NEW a \in Job, Receiving(a), RecvBlob(a) \/ RecvBlobsEnd(a)
    PROVE  DeliveryInv'
<1>1. /\ NearbyTypeOK /\ NearbyTypeOK' /\ Placed(a) /\ OutGood(a)
  BY Parts DEF SharingInv
<1>2. /\ Arrived(a) = Head(wire[a]) /\ wire[a] # <<>> /\ InSession(a) /\ job[a].flush = "no"
  BY <1>1, ArrivedFacts
<1>3. /\ OthersStay(a) /\ asked' = asked /\ UNCHANGED <<pins, heads>>
      /\ \A d \in Device : blobs[d] \subseteq blobs'[d]
      /\ OtherWires(a) /\ wire'[a] = Tail(wire[a]) /\ Arrived(a).kind # "ops"
      /\ Stays(a) \/ Advances(a)
      /\ job[a].round = 5 /\ job[a].step = RecvStep(a, 5)
      /\ job[a].wants \cup job[a].tampered
                    \subseteq job'[a].wants \cup job'[a].tampered \cup blobs'[Me(a)]
      /\ KeepsPeer(a) /\ KeepsLists(a) /\ KeepsBuf(a) /\ job'[a].out = job[a].out
  <2>1. CASE RecvBlob(a)
    <3> DEFINE b == Arrived(a).body
    <3>1. /\ OthersStay(a) /\ asked' = asked
          /\ UNCHANGED <<unlocked, pins, vaults, heads>>
          /\ \A d \in Device : blobs[d] \subseteq blobs'[d]
          /\ OtherWires(a) /\ wire'[a] = Tail(wire[a]) /\ Arrived(a).kind = "blob"
          /\ Stays(a) /\ job[a].round = 5 /\ job[a].step = RecvStep(a, 5)
          /\ job'[a].wants = job[a].wants \ {b} /\ job[a].tampered \subseteq job'[a].tampered
          /\ b \in blobs'[Me(a)] \cup job'[a].tampered
          /\ KeepsPeer(a) /\ KeepsLists(a) /\ KeepsBuf(a) /\ job'[a].out = job[a].out
      BY <1>1, <2>1, RecvBlobFields
    <3> HIDE DEF b
    <3> QED
      BY <3>1
  <2>2. CASE RecvBlobsEnd(a)
    <3>1. /\ OthersStay(a) /\ asked' = asked /\ UNCHANGED pvars
          /\ OtherWires(a) /\ wire'[a] = Tail(wire[a]) /\ Arrived(a).kind = "blobs_end"
          /\ Advances(a)
          /\ job[a].round = 5 /\ job[a].step = RecvStep(a, 5)
          /\ KeepsPeer(a) /\ KeepsLists(a) /\ KeepsBuf(a) /\ KeepsBlobs(a)
          /\ job'[a].out = job[a].out
      BY <1>1, <2>2, RecvBlobsEndFields
    <3> QED
      BY <3>1 DEF pvars, KeepsBlobs
  <2> QED
    BY <2>1, <2>2
<1>4. Grow
  <2>1. \A d \in Device, v \in Vault, o \in Device : heads[d][v][o] <= heads[d][v][o]
    BY <1>1, HeadsInt DEF NearbyTypeOK
  <2> QED
    BY <1>3, <2>1 DEF Grow
<1>5. Shifted(a, 1)
  BY <1>1, <1>2, <1>3, TailShift DEF KeepsBuf
<1>6. OutGood(a)'
  <2>1. ~Sending(a)
    BY <1>3 DEF Sending, RecvStep, SendStep
  <2> QED
    BY <1>1, <1>2, <1>3, <2>1, OutEmpty, NothingOut
<1>7. /\ HasPrepared(a, 2)' => HasPrepared(a, 2)
      /\ HasPrepared(a, 4)' => HasPrepared(a, 4)
      /\ HasRecvd(a, 2)' => HasRecvd(a, 2)
      /\ HasRecvd(a, 3)' => HasRecvd(a, 3)
      /\ HasRecvd(a, 4)' => HasRecvd(a, 4)
  BY <1>1, <1>3, PastSteps
<1>8. job'[a].mine = job[a].mine /\ job'[a].theirs = job[a].theirs /\ job'[a].flush = job[a].flush
  BY <1>3 DEF KeepsLists, KeepsBuf
<1>9. job'[a].round # 3
  BY <1>3 DEF Stays, Advances, GoesOn, IsDone
<1> QED
  BY <1>2, <1>3, <1>4, <1>5, <1>6, <1>7, <1>8, <1>9, MoveDelivers

(* An ingest takes in, of the vault it flushes, all that is still missing. *)
LEMMA IngestTakes ==
    ASSUME NearbyTypeOK, NEW a \in Job, InSession(a), BufOrdered(a), NEW v \in Vault,
           NEW ops, ops = {p[2] : p \in {q \in job[a].buf : q[1] = v}},
           heads'[Me(a)][v] = Ingested(Me(a), v, ops), pins' = pins,
           NEW o \in Device, NEW k \in 1..MaxSeq, <<v, <<o, k>>>> \in job[a].buf
    PROVE  ~Misses(a, v, o, k)'
<1>1. PICK d \in Device : d = Me(a)
  BY OwnerIsDevice
<1>2. Me(a)' = d
  BY <1>1 DEF Me
<1>3. SUFFICES ASSUME o \in pins[d]
               PROVE  ~(heads'[d][v][o] < k)
  BY <1>2 DEF Misses
<1>4. ASSUME NEW n \in 1..MaxSeq, heads[d][v][o] < n, n <= k
      PROVE  <<o, n>> \in ops
  <2> DEFINE x == <<v, <<o, k>>>>
  <2>1. x \in job[a].buf /\ x[1] = v /\ x[2][1] = o /\ x[2][2] = k
    OBVIOUS
  <2>2. Misses(a, v, o, n)
    BY <1>1, <1>3, <1>4 DEF Misses
  <2> HIDE DEF x
  <2>3. <<v, <<o, n>>>> \in job[a].buf
    BY <1>4, <2>1, <2>2 DEF BufOrdered
  <2> QED
    BY <2>3
<1>5. PeerTypeOK /\ k \in 0..MaxSeq
  BY NatConstants DEF NearbyTypeOK
<1>6. k <= Ingested(d, v, ops)[o] /\ Ingested(d, v, ops) \in Heads
  BY <1>3, <1>4, <1>5, IngestedHeads
<1>7. Ingested(d, v, ops)[o] \in Int /\ k \in Int
  BY <1>5, <1>6, HeadsInt, NatConstants
<1> QED
  BY <1>1, <1>6, <1>7

LEMMA FlushIngestDelivers ==
    ASSUME DeliveryInv, SharingInv', NEW a \in Job, Flush(a), job[a].buf # {}
    PROVE  DeliveryInv'
<1> DEFINE w == Min({p[1] : p \in job[a].buf})
           ops == {p[2] : p \in {q \in job[a].buf : q[1] = w}}
<1>1. /\ NearbyTypeOK /\ NearbyTypeOK' /\ Placed(a) /\ OutGood(a) /\ BufGood(a)
      /\ BufOrdered(a) /\ BufComplete(a)
      /\ job[a].buf \subseteq Vault \X Op
  BY Parts, JobFields DEF SharingInv, NearbyTypeOK
<1>2. /\ OthersStay(a) /\ wire' = wire /\ asked' = asked
      /\ UNCHANGED <<unlocked, pins, vaults, blobs>>
      /\ InSession(a) /\ Stays(a) /\ job[a].flush # "no"
      /\ w \in Vault
      /\ heads'[Me(a)][w] = Ingested(Me(a), w, ops)
      /\ \A d \in Device, v \in Vault, o \in Device : heads[d][v][o] <= heads'[d][v][o]
      /\ job'[a].buf = {p \in job[a].buf : p[1] # w} /\ job'[a].flush = job[a].flush
      /\ KeepsPeer(a) /\ KeepsLists(a) /\ KeepsBlobs(a)
      /\ job'[a].todo = job[a].todo /\ job'[a].out = job[a].out
  BY <1>1, FlushIngestFields
<1> HIDE DEF w
<1>3. PICK v \in Vault : v = w
  BY <1>2
<1>4. PICK taken : taken = ops
  OBVIOUS
<1>5. taken = {p[2] : p \in {q \in job[a].buf : q[1] = v}}
      /\ heads'[Me(a)][v] = Ingested(Me(a), v, taken)
  BY <1>2, <1>3, <1>4
<1> HIDE DEF ops
<1>6. ASSUME NEW x \in job[a].buf, NEW u \in Vault, NEW o \in Device, NEW k \in 1..MaxSeq,
             x = <<u, <<o, k>>>>, Misses(a, u, o, k)'
      PROVE  x \in job'[a].buf
  <2>1. CASE u # v
    <3>1. x[1] # w
      BY <1>3, <1>6, <2>1
    <3> QED
      BY <1>2, <3>1
  <2>2. CASE u = v
    <3>1. <<v, <<o, k>>>> \in job[a].buf
      BY <1>6, <2>2
    <3>2. ~Misses(a, v, o, k)'
      BY <1>1, <1>2, <1>5, <3>1, IngestTakes
    <3> QED
      BY <1>6, <2>2, <3>2
  <2> QED
    BY <2>1, <2>2
<1>7. Grow /\ OtherWires(a)
  <2>1. \A d \in Device : blobs[d] \subseteq blobs'[d]
    BY <1>2
  <2> QED
    BY <1>2, <2>1 DEF Grow, OtherWires
<1>8. Shifted(a, 0)
  <2>1. ASSUME NEW i \in 0..Len(wire[a]), NEW u \in Vault, NEW o \in Device, NEW k \in 1..MaxSeq,
               Misses(a, u, o, k)', Holds(a, i + 0, u, <<o, k>>)
        PROVE  Holds(a, i, u, <<o, k>>)'
    <3>1. i + 0 = i
      BY <1>1, Sequences
    <3>2. CASE <<u, <<o, k>>>> \in job[a].buf
      BY <1>6, <2>1, <3>2 DEF Holds
    <3>3. CASE Carried(wire[a], i, u, <<o, k>>)
      BY <1>2, <3>3 DEF Holds, Carried
    <3> QED
      BY <2>1, <3>1, <3>2, <3>3 DEF Holds
  <2>2. Len(wire[a]) \in Nat
    BY <1>1, Sequences
  <2>3. \A i \in 1..Len(wire[a]) : i + 0 = i
    BY <2>2
  <2> QED
    BY <1>2, <2>1, <2>2, <2>3 DEF Shifted
<1>9. job[a].round = 3 /\ job[a].step = RecvStep(a, 3)
  BY <1>1, <1>2 DEF BufGood
<1>10. OutGood(a)'
  <2>1. ~Sending(a)
    BY <1>9 DEF Sending, RecvStep, SendStep
  <2> QED
    BY <1>1, <1>2, <2>1, OutEmpty, NothingOut
<1>11. /\ HasPrepared(a, 2)' => HasPrepared(a, 2)
       /\ HasPrepared(a, 4)' => HasPrepared(a, 4)
       /\ HasRecvd(a, 2)' => HasRecvd(a, 2)
       /\ HasRecvd(a, 3)' => HasRecvd(a, 3)
       /\ HasRecvd(a, 4)' => HasRecvd(a, 4)
       /\ HasSent(a, 3) => HasSent(a, 3)'
  BY <1>1, <1>2, PastSteps
<1>12. BufOrdered(a)'
  <2> SUFFICES ASSUME NEW x \in job'[a].buf, NEW k \in 1..MaxSeq, k <= x[2][2],
                      Misses(a, x[1], x[2][1], k)'
               PROVE  <<x[1], <<x[2][1], k>>>> \in job'[a].buf
    BY DEF BufOrdered
  <2>1. x \in job[a].buf /\ x[1] \in Vault /\ x[2] \in Op
    BY <1>1, <1>2
  <2>2. x[2][1] \in Device
    BY <2>1, OpFields
  <2>3. Misses(a, x[1], x[2][1], k)
    BY <1>1, <1>7, <2>1, <2>2, MissesLess
  <2>4. <<x[1], <<x[2][1], k>>>> \in job[a].buf
    BY <1>1, <1>2, <2>1, <2>3 DEF BufOrdered
  <2> QED
    BY <1>6, <2>1, <2>2, <2>4
<1>13. BufComplete(a)'
  <2>1. Common(a)' = Common(a) /\ job'[a].theirs = job[a].theirs /\ Common(a) \subseteq Vault
    BY <1>1, <1>2, ListHeads DEF KeepsLists, Common
  <2> SUFFICES ASSUME job[a].flush = "end", NEW u \in Common(a), NEW o \in Device,
                      NEW k \in 1..MaxSeq, k <= job[a].theirs[u][o], Misses(a, u, o, k)'
               PROVE  <<u, <<o, k>>>> \in job'[a].buf
    BY <1>2, <2>1 DEF BufComplete
  <2>2. u \in Vault
    BY <2>1
  <2>3. Misses(a, u, o, k)
    BY <1>1, <1>7, <2>2, MissesLess
  <2>4. <<u, <<o, k>>>> \in job[a].buf
    BY <1>1, <1>2, <2>3 DEF BufComplete
  <2> QED
    BY <1>6, <2>2, <2>4
<1>14. job'[a].mine = job[a].mine /\ job'[a].theirs = job[a].theirs
       /\ job[a].wants \cup job[a].tampered
                    \subseteq job'[a].wants \cup job'[a].tampered \cup blobs'[Me(a)]
  BY <1>2 DEF KeepsLists, KeepsBlobs
<1>15. job'[a].round = 3 /\ ~HasSent(a, 3)' =>
           /\ job[a].round = 3 /\ ~HasSent(a, 3) /\ KeepsLists(a)
           /\ job'[a].todo = job[a].todo
           /\ job'[a].out = job[a].out \/ job[a].out = <<>>
  BY <1>2, <1>9, <1>11
<1> QED
  BY <1>2, <1>7, <1>8, <1>10, <1>11, <1>12, <1>13, <1>14, <1>15, MoveDelivers

LEMMA FlushDoneDelivers ==
    ASSUME DeliveryInv, SharingInv', NEW a \in Job, Flush(a), job[a].buf = {}
    PROVE  DeliveryInv'
<1>1. /\ NearbyTypeOK /\ NearbyTypeOK' /\ Placed(a) /\ OutGood(a) /\ BufGood(a)
      /\ BufComplete(a)
  BY Parts DEF SharingInv
<1>2. /\ OthersStay(a) /\ wire' = wire /\ asked' = asked /\ UNCHANGED pvars
      /\ InSession(a) /\ job[a].flush # "no"
      /\ IF job[a].flush = "end" THEN Advances(a) ELSE Stays(a)
      /\ job'[a].buf = {} /\ job'[a].flush = "no"
      /\ KeepsPeer(a) /\ KeepsLists(a) /\ KeepsBlobs(a)
      /\ job'[a].todo = job[a].todo /\ job'[a].out = job[a].out
  BY <1>1, FlushDoneFields
<1>3. job[a].round = 3 /\ job[a].step = RecvStep(a, 3)
  BY <1>1, <1>2 DEF BufGood
<1>4. Grow /\ OtherWires(a) /\ Shifted(a, 0)
  BY <1>1, <1>2, SameHeads, ShiftedSame DEF pvars, OtherWires
<1>5. OutGood(a)'
  <2>1. ~Sending(a)
    BY <1>3 DEF Sending, RecvStep, SendStep
  <2> QED
    BY <1>1, <1>2, <2>1, OutEmpty, NothingOut
<1>6. /\ HasPrepared(a, 2)' => HasPrepared(a, 2)
      /\ HasPrepared(a, 4)' => HasPrepared(a, 4)
      /\ HasRecvd(a, 2)' => HasRecvd(a, 2)
      /\ HasRecvd(a, 3)' => HasRecvd(a, 3) \/ job[a].flush = "end"
      /\ HasRecvd(a, 4)' => HasRecvd(a, 4)
      /\ HasSent(a, 3) => HasSent(a, 3)'
  BY <1>1, <1>2, <1>3, PastSteps
<1>7. OpsDelivered(a)' \/ (HasRecvd(a, 3)' => HasRecvd(a, 3))
  <2>1. CASE job[a].flush # "end"
    BY <1>6, <2>1
  <2>2. CASE job[a].flush = "end"
    <3>1. /\ Common(a)' = Common(a) /\ job'[a].theirs = job[a].theirs
          /\ Me(a)' = Me(a) /\ pins' = pins /\ heads' = heads
      BY <1>2 DEF KeepsLists, Common, Me, pvars
    <3>2. ASSUME NEW v \in Common(a), NEW o \in pins[Me(a)]
          PROVE  job[a].theirs[v][o] <= heads[Me(a)][v][o]
      <4>1. v \in Vault /\ o \in Device /\ Me(a) \in Device
        BY <1>1, ListHeads, OwnerIsDevice DEF NearbyTypeOK, PeerTypeOK
      <4>2. heads[Me(a)][v] \in Heads /\ job[a].theirs[v][o] \in 0..MaxSeq
        BY <1>1, <4>1, ListHeads DEF NearbyTypeOK, PeerTypeOK
      <4>3. heads[Me(a)][v][o] \in 0..MaxSeq
        BY <4>1, <4>2 DEF Heads
      <4> DEFINE k == job[a].theirs[v][o]
                 h == heads[Me(a)][v][o]
      <4>4. ASSUME h < k
            PROVE  FALSE
        <5>1. k \in 1..MaxSeq
          BY <4>2, <4>3, <4>4, NatConstants
        <5>2. PICK n \in 1..MaxSeq : n = k
          BY <5>1
        <5>3. Misses(a, v, o, n) /\ n <= job[a].theirs[v][o]
          BY <3>2, <4>4, <5>2, NatConstants DEF Misses
        <5>4. <<v, <<o, n>>>> \in job[a].buf
          BY <1>1, <1>2, <2>2, <4>1, <5>3 DEF BufComplete
        <5> QED
          BY <5>4
      <4> QED
        BY <4>2, <4>3, <4>4, NatConstants
    <3> QED
      BY <3>1, <3>2 DEF OpsDelivered
  <2> QED
    BY <2>1, <2>2
<1>8. BufOrdered(a)' /\ BufComplete(a)'
  BY <1>2 DEF BufOrdered, BufComplete
<1>9. job'[a].mine = job[a].mine /\ job'[a].theirs = job[a].theirs
      /\ job[a].wants \cup job[a].tampered
                    \subseteq job'[a].wants \cup job'[a].tampered \cup blobs'[Me(a)]
  BY <1>2 DEF KeepsLists, KeepsBlobs
<1>10. job'[a].round = 3 /\ ~HasSent(a, 3)' =>
           /\ job[a].round = 3 /\ ~HasSent(a, 3) /\ KeepsLists(a)
           /\ job'[a].todo = job[a].todo
           /\ job'[a].out = job[a].out \/ job[a].out = <<>>
  BY <1>2, <1>3, <1>6
<1>11. Stays(a) \/ Advances(a)
  BY <1>2
<1> QED
  BY <1>2, <1>4, <1>5, <1>6, <1>7, <1>8, <1>9, <1>10, <1>11, MoveDelivers

-----------------------------------------------------------------------------
(* What a message that is sent takes from the outbox it puts on the wire.  *)
LEMMA CarriedAppend ==
    ASSUME NEW w \in Seq(Msg), NEW m \in Msg, NEW i \in 0..Len(w), NEW v, NEW op
    PROVE  Carried(Append(w, m), i, v, op) <=> Carried(w, i, v, op)
<1>1. \A n \in 1..i : n \in 1..Len(w) /\ Append(w, m)[n] = w[n]
  BY AppendFacts
<1> QED
  BY <1>1 DEF Carried

LEMMA CarriedPass ==
    ASSUME NEW q \in Seq(Msg), q # <<>>, NEW w \in Seq(Msg), NEW i \in 0..Len(Tail(q)),
           NEW v, NEW op, Carried(w, Len(w), v, op) \/ Carried(q, i + 1, v, op)
    PROVE  Carried(Append(w, Head(q)), Len(w) + 1, v, op) \/ Carried(Tail(q), i, v, op)
<1> DEFINE m == Head(q)
           x == Append(w, m)
           t == Tail(q)
<1>1. /\ m \in Msg /\ m = q[1] /\ Len(q) \in Nat \ {0} /\ Len(t) = Len(q) - 1
      /\ \A n \in 1..Len(t) : t[n] = q[n + 1]
  BY TailFacts
<1>2. /\ Len(w) \in Nat /\ x[Len(w) + 1] = m
      /\ \A n \in 1..Len(w) : x[n] = w[n] /\ n \in 1..Len(w) + 1
  BY <1>1, AppendFacts
<1> HIDE DEF m, x, t
<1>3. CASE Carried(w, Len(w), v, op)
  <2>1. PICK n \in 1..Len(w) : w[n].kind = "ops" /\ w[n].body.vault = v /\ op \in w[n].body.ops
    BY <1>3 DEF Carried
  <2>2. Carried(x, Len(w) + 1, v, op)
    BY <1>2, <2>1 DEF Carried
  <2> QED
    BY <2>2 DEF x, m
<1>4. ASSUME NEW n \in 1..(i + 1), q[n].kind = "ops", q[n].body.vault = v, op \in q[n].body.ops
      PROVE  Carried(x, Len(w) + 1, v, op) \/ Carried(t, i, v, op)
  <2>1. CASE n = 1
    <3>1. Len(w) + 1 \in 1..(Len(w) + 1)
      BY <1>2
    <3>2. x[Len(w) + 1] = q[n]
      BY <1>1, <1>2, <2>1
    <3> QED
      BY <1>4, <3>1, <3>2 DEF Carried
  <2>2. CASE n # 1
    <3>1. i \in 0..Len(t)
      BY DEF t
    <3>2. n - 1 \in 1..i /\ n - 1 \in 1..Len(t) /\ (n - 1) + 1 = n
      BY <1>1, <2>2, <3>1
    <3>3. t[n - 1] = q[n]
      BY <1>1, <3>2
    <3> QED
      BY <1>4, <3>2, <3>3 DEF Carried
  <2> QED
    BY <2>1, <2>2
<1>5. CASE Carried(q, i + 1, v, op)
  BY <1>4, <1>5 DEF Carried, x, m, t
<1> QED
  BY <1>3, <1>5

LEMMA SentFacts ==
    ASSUME DeliveryInv, SharingInv', NEW a \in Job, Send(a)
    PROVE  LET m == Head(job[a].out) IN
           /\ OutGood(a)'
           /\ m.kind = "inventory" => job[a].round = 2 /\ m.body = job[a].mine /\ HasSent(a, 2)'
           /\ m.kind = "ops_end" => /\ job[a].round = 3 /\ job[a].todo = {} /\ Len(job[a].out) = 1
                                    /\ HasSent(a, 3)'
           /\ m.kind = "blob_want" => job[a].round = 4
           /\ job'[a].round = 3 /\ ~HasSent(a, 3)' =>
                job'[a].todo = Common(a)' \/ (job[a].round = 3 /\ ~HasSent(a, 3))
           /\ HasPrepared(a, 2)' => HasPrepared(a, 2)
           /\ HasPrepared(a, 4)' => HasPrepared(a, 4)
           /\ HasRecvd(a, 2)' => HasRecvd(a, 2)
           /\ HasRecvd(a, 3)' => HasRecvd(a, 3)
           /\ HasRecvd(a, 4)' => HasRecvd(a, 4)
           /\ HasSent(a, 2) => HasSent(a, 2)'
           /\ HasSent(a, 3) => HasSent(a, 3)'
<1>1. /\ NearbyTypeOK /\ Placed(a) /\ OutGood(a) /\ TodoGood(a)
      /\ job[a].round \in 0..6 /\ job[a].step \in 1..5 /\ job[a].out \in Seq(Msg)
  BY Parts, JobFields DEF NearbyTypeOK
<1>2. PICK m \in Msg : m = Head(job[a].out)
  BY <1>1, SendFields
<1>3. /\ InSession(a) /\ job[a].out # <<>>
      /\ \/ job[a].round = 0 /\ a \in Dialer /\ job[a].step \in {1, 4}
         \/ job[a].round = 0 /\ a \notin Dialer /\ job[a].step = 3
         \/ job[a].round > 0 /\ job[a].step = SendStep(a, job[a].round)
      /\ IF m.kind \in {"ops", "blob"} THEN Stays(a) ELSE Advances(a)
      /\ job'[a].out = Tail(job[a].out)
      /\ KeepsLists(a) /\ job'[a].todo = job[a].todo
  BY <1>1, <1>2, SendFields
<1> DEFINE q == job[a].out
           t == Tail(q)
<1>4. /\ Len(q) \in Nat \ {0} /\ t \in Seq(Msg) /\ Len(t) = Len(q) - 1
      /\ Head(q) = q[1] /\ 1 \in 1..Len(q)
      /\ \A i \in 1..Len(t) : t[i] = q[i + 1] /\ i + 1 \in 1..Len(q)
  BY <1>1, <1>3, TailFacts
<1>5. /\ m.kind \notin {"ops", "blob"} => Len(q) = 1
      /\ m.kind = "inventory" => job[a].round = 2 /\ m.body = job[a].mine
      /\ m.kind = "ops_end" => job[a].round = 3 /\ job[a].todo = {}
      /\ m.kind = "blob_want" => job[a].round = 4
  BY <1>1, <1>2, <1>3, <1>4 DEF OutGood
<1>6. \A i \in 1..Len(q) : Len(q) # 1 => q[i].kind \in {"ops", "blob"}
  BY <1>1, <1>3 DEF OutGood
<1>7. job'[a].out = t
  BY <1>3
<1> HIDE DEF q, t
<1>8. ASSUME NEW r \in {2, 3, 4}
      PROVE  /\ HasPrepared(a, r)' => HasPrepared(a, r) \/ (job[a].round = r /\ job[a].step = 1)
             /\ HasRecvd(a, r)' =>
                    HasRecvd(a, r) \/ (job[a].round = r /\ job[a].step = RecvStep(a, r))
             /\ HasSent(a, r) => HasSent(a, r)'
             /\ Advances(a) /\ job[a].round = r => HasSent(a, r)'
  <2>1. r \in 1..5 /\ NearbyTypeOK /\ Placed(a) /\ (Stays(a) \/ Advances(a))
    BY <1>1, <1>3
  <2>2. job[a].round = r => job[a].step = SendStep(a, r)
    BY <1>3
  <2> QED
    BY <2>1, <2>2, PastSteps
<1>9. job[a].round \in {2, 3, 4} => job[a].step # RecvStep(a, job[a].round)
  BY <1>3 DEF SendStep, RecvStep
<1>10. job[a].round \in {2, 4} => job[a].step # 1
  BY <1>3 DEF SendStep
<1>11. /\ HasPrepared(a, 2)' => HasPrepared(a, 2)
       /\ HasPrepared(a, 4)' => HasPrepared(a, 4)
       /\ HasRecvd(a, 2)' => HasRecvd(a, 2)
       /\ HasRecvd(a, 3)' => HasRecvd(a, 3)
       /\ HasRecvd(a, 4)' => HasRecvd(a, 4)
       /\ HasSent(a, 2) => HasSent(a, 2)'
       /\ HasSent(a, 3) => HasSent(a, 3)'
  BY <1>8, <1>9, <1>10
<1>12. OutGood(a)'
  <2>1. CASE m.kind \notin {"ops", "blob"}
    <3>1. Len(t) = 0
      BY <1>4, <1>5, <2>1
    <3>2. t = <<>>
      BY <1>4, <3>1, EmptySeq
    <3> QED
      BY <1>7, <3>2, NothingOut
  <2>2. CASE m.kind \in {"ops", "blob"}
    <3>1. Stays(a)
      BY <1>3, <2>2
    <3>2. Sending(a)
      BY <1>1, <1>3 DEF OutGood
    <3>3. Sending(a)'
      BY <3>1, <3>2 DEF Stays, Sending, SendStep
    <3>4. \A i \in 1..Len(t) : t[i].kind \in {"ops", "blob"}
      BY <1>4, <1>6
    <3> QED
      BY <1>7, <3>3, <3>4 DEF OutGood
  <2> QED
    BY <2>1, <2>2
<1>13. job'[a].round = 3 /\ ~HasSent(a, 3)' =>
            job'[a].todo = Common(a)' \/ (job[a].round = 3 /\ ~HasSent(a, 3))
  <2>1. CASE job[a].round = 3
    BY <1>11, <2>1
  <2>2. CASE job[a].round # 3 /\ job'[a].round = 3
    <3>1. job[a].round = 2 /\ job[a].step = Steps(a, 2)
      BY <1>1, <1>3, <2>2 DEF Stays, Advances, GoesOn, IsDone
    <3>2. HasRecvd(a, 2)
      BY <1>3, <3>1 DEF Steps, SendStep, RecvStep, HasRecvd, Past
    <3>3. job[a].todo = Common(a)
      BY <1>1, <1>3, <3>1, <3>2 DEF TodoGood
    <3>4. Common(a)' = Common(a)
      BY <1>3 DEF KeepsLists, Common
    <3> QED
      BY <1>3, <3>3, <3>4
  <2> QED
    BY <2>1, <2>2
<1>14. /\ m.kind = "inventory" => HasSent(a, 2)'
       /\ m.kind = "ops_end" => HasSent(a, 3)'
  BY <1>3, <1>5, <1>8
<1>15. m.kind = "ops_end" => Len(job[a].out) = 1
  BY <1>5 DEF q
<1> QED
  BY <1>2, <1>5, <1>11, <1>12, <1>13, <1>14, <1>15

(* A message on its way to the other end, which has not moved.             *)
LEMMA SentArrives ==
    ASSUME DeliveryInv, SharingInv', NEW a \in Job, Send(a), NEW b \in Job,
           job[a].link = b, job[b].link = a
    PROVE  Delivering(b)' /\ Paired(b, a)'
<1> DEFINE q == job[a].out
           w == wire[b]
           t == Tail(q)
<1>1. /\ NearbyTypeOK /\ NearbyTypeOK' /\ Placed(a) /\ Placed(b) /\ PeerKnown(a) /\ PeerKnown(b)
      /\ Delivering(b)
      /\ OutGood(b) /\ MineHeld(b) /\ Ordered(b) /\ BufOrdered(b) /\ OpsComplete(b)
      /\ BufComplete(b) /\ OpsDelivered(b) /\ PeerDelivered(b) /\ BlobsKnown(b)
      /\ OpsDelivered(a)
      /\ Paired(a, b) /\ Paired(b, a) /\ a # b /\ InSession(a) /\ InSession(b)
      /\ (b \in Dialer <=> a \notin Dialer)
      /\ q \in Seq(Msg) /\ w \in Seq(Msg)
  BY Parts, Sequences DEF SharingInv
<1>2. Connected(a)
  BY NearbyConstants DEF Connected
<1>3. PICK m \in Msg : m = Head(q)
  BY <1>1, SendFields
<1>4. /\ OthersStay(a) /\ asked' = asked /\ UNCHANGED pvars
      /\ q # <<>> /\ wire'[b] = Append(w, m)
      /\ job'[a].out = t /\ KeepsLists(a) /\ job'[a].todo = job[a].todo
  BY <1>1, <1>2, <1>3, SendFields
<1>5. job'[b] = job[b]
  BY <1>1, <1>4 DEF OthersStay
<1>6. /\ OutGood(a)'
      /\ m.kind = "inventory" => job[a].round = 2 /\ m.body = job[a].mine /\ HasSent(a, 2)'
      /\ m.kind = "ops_end" => job[a].round = 3 /\ job[a].todo = {} /\ Len(q) = 1 /\ HasSent(a, 3)'
      /\ m.kind = "blob_want" => job[a].round = 4
      /\ job'[a].round = 3 /\ ~HasSent(a, 3)' =>
           job'[a].todo = Common(a)' \/ (job[a].round = 3 /\ ~HasSent(a, 3))
      /\ HasSent(a, 2) => HasSent(a, 2)'
      /\ HasSent(a, 3) => HasSent(a, 3)'
  BY <1>3, SentFacts
<1>7. /\ Len(w) \in Nat /\ Len(wire'[b]) = Len(w) + 1 /\ wire'[b][Len(w) + 1] = m
      /\ \A i \in 1..Len(w) : wire'[b][i] = w[i]
  BY <1>1, <1>4, AppendFacts
<1>8. Grow
  BY <1>1, <1>4, SameHeads DEF pvars
<1>9. /\ Len(q) \in Nat \ {0} /\ Len(t) = Len(q) - 1 /\ m = q[1] /\ 1 \in 1..Len(q)
      /\ \A i \in 1..Len(t) : t[i] = q[i + 1] /\ i + 1 \in 1..Len(q)
  BY <1>1, <1>3, <1>4, TailFacts
<1>10. ASSUME NEW v, NEW op, NEW i \in 0..Len(t),
             Holds(b, Len(w), v, op) \/ Carried(q, i + 1, v, op)
       PROVE  Holds(b, Len(wire[b]), v, op)' \/ Carried(t, i, v, op)
  <2>1. CASE <<v, op>> \in job[b].buf
    BY <1>5, <2>1 DEF Holds
  <2>2. CASE Carried(w, Len(w), v, op) \/ Carried(q, i + 1, v, op)
    <3>1. Carried(Append(w, Head(q)), Len(w) + 1, v, op) \/ Carried(t, i, v, op)
      BY <1>1, <1>4, <2>2, CarriedPass
    <3>2. Carried(wire'[b], Len(wire'[b]), v, op) \/ Carried(t, i, v, op)
      BY <1>3, <1>4, <1>7, <3>1
    <3> QED
      BY <3>2 DEF Holds
  <2> QED
    BY <1>10, <2>1, <2>2 DEF Holds
<1>11. \A v, op : \A i \in 0..Len(w) : Holds(b, i, v, op) => Holds(b, i, v, op)'
  <2>1. ASSUME NEW i \in 0..Len(w), NEW v, NEW op, Holds(b, i, v, op)
        PROVE  Holds(b, i, v, op)'
    <3>1. CASE <<v, op>> \in job[b].buf
      BY <1>5, <3>1 DEF Holds
    <3>2. CASE Carried(w, i, v, op)
      <4>1. Carried(wire'[b], i, v, op)
        BY <1>1, <1>4, <3>2, CarriedAppend
      <4> QED
        BY <4>1 DEF Holds
    <3> QED
      BY <2>1, <3>1, <3>2 DEF Holds
  <2> QED
    BY <2>1
<1>12. ASSUME NEW i \in 1..Len(wire'[b])
       PROVE  \/ i \in 1..Len(w) /\ i \in 0..Len(w) /\ wire'[b][i] = w[i]
              \/ i = Len(w) + 1 /\ wire'[b][i] = m
  BY <1>7, <1>12
<1>13. heads' = heads /\ pins' = pins /\ blobs' = blobs /\ Me(b)' = Me(b) /\ Common(b)' = Common(b)
  BY <1>4, <1>5 DEF pvars, Me, Common
<1>14. \A v, o, k : Misses(b, v, o, k)' <=> Misses(b, v, o, k)
  BY <1>13 DEF Misses
<1>15. /\ HasRecvd(b, 2)' <=> HasRecvd(b, 2)
       /\ HasRecvd(b, 3)' <=> HasRecvd(b, 3)
  BY <1>5 DEF HasRecvd, Past, RecvStep
<1>16. job[a].round \in {3, 4} => HasRecvd(b, 2) /\ HasSent(a, 2) /\ HasRecvd(a, 2)
  <2>1. CASE job[a].round = 4
    <3>1. HasRecvd(a, 3) /\ HasSent(a, 3)
      BY <1>1, <2>1, RoundOrder
    <3>2. HasSent(b, 3)
      BY <1>1, <3>1 DEF Paired, EndSeen
    <3> QED
      BY <1>1, <3>1, <3>2, RoundOrder
  <2>2. CASE job[a].round = 3
    <3>1. HasRecvd(a, 2) /\ HasSent(a, 2)
      BY <1>1, <2>2, RoundOrder
    <3>2. HasSent(b, 2)
      BY <1>1, <3>1 DEF Paired, Listed
    <3>3. CASE a \in Dialer
      BY <1>1, <3>1, <3>2, <3>3, RoundOrder
    <3>4. CASE a \notin Dialer
      <4>1. job[a].step = SendStep(a, 3)
        BY <1>1, <2>2, SendFields
      <4>2. HasRecvd(a, 3)
        BY <2>2, <3>4, <4>1 DEF HasRecvd, Past, SendStep, RecvStep
      <4>3. HasSent(b, 3)
        BY <1>1, <4>2 DEF Paired, EndSeen
      <4> QED
        BY <1>1, <3>1, <4>3, RoundOrder
    <3> QED
      BY <3>3, <3>4
  <2> QED
    BY <2>1, <2>2
<1>17. \A v, op : Holds(b, Len(w), v, op) \/ Carried(q, 1, v, op) => Holds(b, Len(wire[b]), v, op)'
  <2>1. ASSUME NEW v, NEW op, Holds(b, Len(w), v, op) \/ Carried(q, 0 + 1, v, op)
        PROVE  Holds(b, Len(wire[b]), v, op)'
    <3>1. 0 \in 0..Len(t)
      BY <1>9
    <3>2. Holds(b, Len(wire[b]), v, op)' \/ Carried(t, 0, v, op)
      BY <1>10, <2>1, <3>1
    <3>3. ~Carried(t, 0, v, op)
      BY DEF Carried
    <3> QED
      BY <3>2, <3>3
  <2>2. 0 + 1 = 1
    OBVIOUS
  <2> QED
    BY <2>1, <2>2
<1> HIDE DEF q, w, t
<1>18. Ordered(b)'
  <2> SUFFICES ASSUME NEW i \in 1..Len(wire'[b]), wire'[b][i].kind = "ops",
                      NEW op \in wire'[b][i].body.ops, NEW k \in 1..MaxSeq, k <= op[2],
                      Misses(b, wire[b][i].body.vault, op[1], k)'
               PROVE  Holds(b, i, wire[b][i].body.vault, <<op[1], k>>)'
    BY DEF Ordered
  <2>1. PICK x \in Msg : x = wire'[b][i]
    BY <1>1, NextSequences
  <2>2. PICK v : v = x.body.vault
    OBVIOUS
  <2>3. Misses(b, v, op[1], k)
    BY <1>14, <2>1, <2>2 DEF Misses
  <2>4. CASE i \in 1..Len(w) /\ i \in 0..Len(w) /\ wire'[b][i] = w[i]
    <3>1. Holds(b, i, v, <<op[1], k>>)
      BY <1>1, <2>1, <2>2, <2>3, <2>4 DEF Ordered, w
    <3>2. Holds(b, i, v, <<op[1], k>>)'
      BY <1>11, <2>4, <3>1
    <3> QED
      BY <2>1, <2>2, <3>2 DEF Holds
  <2>5. CASE i = Len(w) + 1 /\ wire'[b][i] = m
    <3>1. m.kind = "ops" /\ op \in m.body.ops /\ v = m.body.vault
      BY <2>1, <2>2, <2>5
    <3>2. Holds(b, Len(w), v, <<op[1], k>>) \/ Carried(q, 1, v, <<op[1], k>>)
      BY <1>1, <1>9, <2>3, <3>1 DEF Paired, OutOrdered, q, w
    <3>3. Holds(b, Len(wire[b]), v, <<op[1], k>>)'
      BY <1>17, <3>2
    <3>4. Holds(b, i, v, <<op[1], k>>)'
      BY <1>7, <2>5, <3>3 DEF Holds
    <3> QED
      BY <2>1, <2>2, <3>4 DEF Holds
  <2> QED
    BY <1>12, <2>4, <2>5
<1>19. OpsComplete(b)'
  <2> SUFFICES ASSUME NEW i \in 1..Len(wire'[b]), wire'[b][i].kind = "ops_end"
               PROVE  /\ HasRecvd(b, 2)'
                      /\ \A v \in Common(b), o \in Device, k \in 1..MaxSeq :
                            k <= job[b].theirs[v][o] /\ Misses(b, v, o, k) =>
                              Holds(b, i, v, <<o, k>>)'
    BY <1>5, <1>13, <1>14 DEF OpsComplete
  <2>1. CASE i \in 1..Len(w) /\ i \in 0..Len(w) /\ wire'[b][i] = w[i]
    BY <1>1, <1>11, <1>15, <2>1 DEF OpsComplete, w
  <2>2. CASE i = Len(w) + 1 /\ wire'[b][i] = m
    <3>1. /\ job[a].round = 3 /\ job[a].todo = {} /\ Len(q) = 1 /\ HasRecvd(b, 2) /\ HasRecvd(a, 2)
          /\ m.kind = "ops_end"
      BY <1>6, <1>16, <2>2
    <3>2. ~HasSent(a, 3)
      <4>1. job[a].step = SendStep(a, 3)
        BY <1>1, <3>1, SendFields
      <4> QED
        BY <3>1, <4>1 DEF HasSent, Past, SendStep
    <3>3. job[b].theirs = job[a].mine /\ job[a].theirs = job[b].mine
      BY <1>1, <3>1 DEF Paired, Listed
    <3>4. Common(a) = Common(b)
      BY <3>3 DEF Common
    <3>5. ASSUME NEW v \in Common(b), NEW o \in Device, NEW k \in 1..MaxSeq,
                 k <= job[b].theirs[v][o], Misses(b, v, o, k)
          PROVE  Holds(b, i, v, <<o, k>>)'
      <4>1. \/ Holds(b, Len(w), v, <<o, k>>)
            \/ Carried(q, Len(q), v, <<o, k>>)
            \/ v \in job[a].todo
        BY <1>1, <3>1, <3>2, <3>3, <3>4, <3>5 DEF Paired, Covered, q, w
      <4>2. Holds(b, Len(wire[b]), v, <<o, k>>)'
        BY <1>17, <3>1, <4>1
      <4> QED
        BY <1>7, <2>2, <4>2 DEF Holds
    <3> QED
      BY <1>15, <3>1, <3>5
  <2> QED
    BY <1>12, <2>1, <2>2
<1>20. PeerDelivered(b)'
  <2>1. PeerHas(b) => PeerHas(b)'
    BY <1>1, <1>5, <1>8, PeerStillHas DEF KeepsLists, KeepsPeer
  <2>2. Active(b)' /\ HasRecvd(b, 4)' => PeerHas(b)'
    BY <1>1, <1>5, <2>1 DEF PeerDelivered, Active, InSession, HasRecvd, Past, RecvStep
  <2>3. ASSUME NEW i \in 1..Len(wire'[b]), wire'[b][i].kind = "blob_want"
        PROVE  HasRecvd(b, 2)' /\ PeerHas(b)'
    <3>1. CASE i \in 1..Len(w) /\ i \in 0..Len(w) /\ wire'[b][i] = w[i]
      BY <1>1, <1>15, <2>1, <2>3, <3>1 DEF PeerDelivered, w
    <3>2. CASE i = Len(w) + 1 /\ wire'[b][i] = m
      <4>1. job[a].round = 4 /\ HasRecvd(b, 2) /\ HasRecvd(a, 2) /\ HasRecvd(a, 3)
        BY <1>1, <1>6, <1>16, <2>3, <3>2, RoundOrder
      <4>2. job[b].theirs = job[a].mine /\ job[a].theirs = job[b].mine
        BY <1>1, <4>1 DEF Paired, Listed
      <4>3. Common(a) = Common(b)
        BY <4>2 DEF Common
      <4>4. job[b].peer = Me(a) /\ Me(a) \in Device
        <5>1. job[b].round >= 1
          <6>1. job[b] \in JobRecord
            BY <1>1 DEF NearbyTypeOK
          <6>2. job[b].round \in 0..6
            BY <6>1, JobFields
          <6> QED
            BY <4>1, <6>2 DEF HasRecvd, Past
        <5>2. Vouched(b)
          BY <5>1 DEF Vouched
        <5> QED
          BY <1>1, <5>2, OwnerIsDevice DEF PeerKnown
      <4>5. \A v \in Common(b), o \in pins[Me(a)] : job[b].mine[v][o] <= heads[Me(a)][v][o]
        BY <1>1, <4>1, <4>2, <4>3 DEF OpsDelivered, Active
      <4> QED
        BY <1>15, <2>1, <4>1, <4>4, <4>5 DEF PeerHas
    <3> QED
      BY <1>12, <3>1, <3>2
  <2> QED
    BY <2>2, <2>3 DEF PeerDelivered
<1>21. Delivering(b)'
  <2>1. OutGood(b)' /\ MineHeld(b)' /\ BufOrdered(b)' /\ BufComplete(b)'
    BY <1>1, <1>5, <1>13, <1>14
       DEF OutGood, MineHeld, BufOrdered, BufComplete, InSession, Sending, SendStep, HasPrepared,
           Past
  <2>2. OpsDelivered(b)' /\ BlobsKnown(b)'
    BY <1>1, <1>5, <1>13, <1>15 DEF OpsDelivered, BlobsKnown, Active, InSession, HasPrepared, Past
  <2> QED
    BY <1>18, <1>19, <1>20, <2>1, <2>2 DEF Delivering
<1>22. job'[a].mine = job[a].mine /\ Common(a)' = Common(a)
  BY <1>4 DEF KeepsLists, Common
<1>23. Listed(b, a)'
  <2>1. ASSUME NEW i \in 1..Len(wire'[b]), wire'[b][i].kind = "inventory"
        PROVE  HasSent(a, 2)' /\ wire'[b][i].body = job'[a].mine
    <3>1. CASE i \in 1..Len(w) /\ i \in 0..Len(w) /\ wire'[b][i] = w[i]
      BY <1>1, <1>6, <1>22, <2>1, <3>1 DEF Paired, Listed, w
    <3>2. CASE i = Len(w) + 1 /\ wire'[b][i] = m
      BY <1>6, <1>22, <2>1, <3>2
    <3> QED
      BY <1>12, <3>1, <3>2
  <2>2. HasRecvd(b, 2)' => HasSent(a, 2)' /\ job'[b].theirs = job'[a].mine
    BY <1>1, <1>5, <1>6, <1>15, <1>22 DEF Paired, Listed
  <2> QED
    BY <2>1, <2>2 DEF Listed
<1>24. EndSeen(b, a)'
  <2>1. ASSUME NEW i \in 1..Len(wire'[b]), wire'[b][i].kind = "ops_end"
        PROVE  HasSent(a, 3)'
    <3>1. CASE i \in 1..Len(w) /\ i \in 0..Len(w) /\ wire'[b][i] = w[i]
      BY <1>1, <1>6, <2>1, <3>1 DEF Paired, EndSeen, w
    <3>2. CASE i = Len(w) + 1 /\ wire'[b][i] = m
      BY <1>6, <2>1, <3>2
    <3> QED
      BY <1>12, <3>1, <3>2
  <2>2. job'[b].flush = "end" \/ HasRecvd(b, 3)' => HasSent(a, 3)'
    BY <1>1, <1>5, <1>6, <1>15 DEF Paired, EndSeen
  <2> QED
    BY <2>1, <2>2 DEF EndSeen
<1>25. OutOrdered(b, a)'
  <2> SUFFICES ASSUME NEW i \in 1..Len(t), NEW op \in t[i].body.ops, NEW k \in 1..MaxSeq,
                      t[i].kind = "ops", k <= op[2], Misses(b, job[a].out[i].body.vault, op[1], k)'
               PROVE  \/ Holds(b, Len(wire[b]), job[a].out[i].body.vault, <<op[1], k>>)'
                      \/ Carried(job[a].out, i, job[a].out[i].body.vault, <<op[1], k>>)'
    BY <1>4 DEF OutOrdered
  <2>1. PICK v : v = t[i].body.vault
    OBVIOUS
  <2>2. Misses(b, v, op[1], k)
    BY <1>4, <1>14, <2>1 DEF Misses
  <2>3. t[i] = q[i + 1] /\ i + 1 \in 1..Len(q) /\ i \in 0..Len(t)
    BY <1>9
  <2>4. Holds(b, Len(w), v, <<op[1], k>>) \/ Carried(q, i + 1, v, <<op[1], k>>)
    BY <1>1, <2>1, <2>2, <2>3 DEF Paired, OutOrdered, q, w
  <2>5. Holds(b, Len(wire[b]), v, <<op[1], k>>)' \/ Carried(t, i, v, <<op[1], k>>)
    BY <1>10, <2>3, <2>4
  <2> QED
    BY <1>4, <2>1, <2>5 DEF Holds, Carried
<1>26. Covered(b, a)'
  <2>1. CASE ~(job'[a].round = 3 /\ ~HasSent(a, 3)')
    BY <2>1 DEF Covered
  <2>2. CASE job'[a].todo = Common(a)'
    BY <2>2 DEF Covered
  <2>3. CASE job[a].round = 3 /\ ~HasSent(a, 3)
    <3> SUFFICES ASSUME NEW v \in Common(a), NEW o \in Device, NEW k \in 1..MaxSeq,
                        k <= job[a].mine[v][o], Misses(b, v, o, k)
                 PROVE  \/ Holds(b, Len(wire[b]), v, <<o, k>>)'
                        \/ Carried(t, Len(t), v, <<o, k>>)
                        \/ v \in job[a].todo
      BY <1>4, <1>14, <1>22 DEF Covered, Carried
    <3>1. \/ Holds(b, Len(w), v, <<o, k>>)
          \/ Carried(q, Len(q), v, <<o, k>>)
          \/ v \in job[a].todo
      BY <1>1, <2>3 DEF Paired, Covered, q, w
    <3>2. Len(t) \in 0..Len(t) /\ Len(t) + 1 = Len(q)
      BY <1>9
    <3>3. Carried(q, Len(t) + 1, v, <<o, k>>) <=> Carried(q, Len(q), v, <<o, k>>)
      BY <3>2
    <3> QED
      BY <1>10, <3>1, <3>2, <3>3
  <2> QED
    BY <1>6, <2>1, <2>2, <2>3
<1> QED
  BY <1>21, <1>23, <1>24, <1>25, <1>26 DEF Paired

LEMMA SendDelivers ==
    ASSUME DeliveryInv, SharingInv', NEW a \in Job, Send(a)
    PROVE  DeliveryInv'
<1>1. /\ NearbyTypeOK /\ NearbyTypeOK' /\ Placed(a) /\ Delivering(a)
  BY Parts DEF SharingInv
<1>2. PICK m \in Msg : m = Head(job[a].out)
  BY <1>1, SendFields
<1>3. /\ OthersStay(a) /\ asked' = asked /\ UNCHANGED pvars /\ InSession(a)
      /\ job[a].link \in Job
      /\ IF Connected(a)
         THEN OtherWires(job[a].link) /\ wire'[job[a].link] = Append(wire[job[a].link], m)
         ELSE wire' = wire
      /\ Stays(a) \/ Advances(a)
      /\ KeepsPeer(a) /\ KeepsLists(a) /\ KeepsBuf(a) /\ KeepsBlobs(a)
  BY <1>1, <1>2, SendFields
<1>4. /\ OutGood(a)'
      /\ HasPrepared(a, 2)' => HasPrepared(a, 2)
      /\ HasPrepared(a, 4)' => HasPrepared(a, 4)
      /\ HasRecvd(a, 2)' => HasRecvd(a, 2)
      /\ HasRecvd(a, 3)' => HasRecvd(a, 3)
      /\ HasRecvd(a, 4)' => HasRecvd(a, 4)
  BY SentFacts
<1>5. Grow
  BY <1>1, <1>3, SameHeads DEF pvars
<1>6. /\ job'[a].mine = job[a].mine /\ job'[a].theirs = job[a].theirs
      /\ job'[a].flush = job[a].flush /\ job'[a].buf = job[a].buf
  BY <1>3 DEF KeepsLists, KeepsBuf
<1>7. job[a].wants \cup job[a].tampered
            \subseteq job'[a].wants \cup job'[a].tampered \cup blobs'[Me(a)]
  BY <1>3 DEF KeepsBlobs
<1>8. CASE ~Connected(a)
  <2>1. \A p \in Job : p # NoJob
    BY NearbyConstants
  <2>2. \A p \in Job : ~(job[a].link = p /\ job[p].link = a)
    BY <1>8, <2>1 DEF Connected
  <2>3. OtherWires(a) /\ Shifted(a, 0)
    BY <1>1, <1>3, <1>6, <1>8, ShiftedSame DEF OtherWires
  <2> QED
    BY <1>3, <1>4, <1>5, <1>6, <1>7, <2>2, <2>3, MoveDelivers
<1>9. CASE Connected(a)
  <2>1. PICK b \in Job : b = job[a].link
    BY <1>3
  <2>2. job[b].link = a
    BY <1>9, <2>1 DEF Connected
  <2>3. OtherWires(b) /\ wire'[b] = Append(wire[b], m)
    BY <1>3, <1>9, <2>1
  <2>4. a # b
    BY <2>1, <2>2, Parts
  <2>5. wire'[a] = wire[a] /\ Shifted(a, 0)
    BY <1>1, <1>6, <2>3, <2>4, ShiftedSame DEF OtherWires
  <2>6. Delivering(a)'
    BY <1>1, <1>3, <1>4, <1>5, <1>6, <1>7, <2>5, StillDelivering
  <2>7. Delivering(b)' /\ Paired(b, a)'
    BY <2>1, <2>2, SentArrives
  <2>8. Paired(a, b)'
    <3>1. Paired(a, b) /\ job'[b] = job[b]
      BY <1>3, <2>1, <2>2, <2>4, Parts DEF OthersStay
    <3> QED
      BY <1>1, <1>4, <1>5, <1>6, <2>5, <3>1, PairReads
  <2>9. ASSUME NEW j \in Job
        PROVE  Delivering(j)'
    <3>1. CASE j # a /\ j # b
      <4>1. job'[j] = job[j] /\ wire'[j] = wire[j] /\ Placed(j) /\ Delivering(j)
        BY <1>3, <2>3, <3>1, Parts DEF OthersStay, OtherWires
      <4> QED
        BY <1>1, <1>5, <4>1, UntouchedDelivers
    <3> QED
      BY <2>6, <2>7, <3>1
  <2>10. ASSUME NEW j \in Job, NEW p \in Job, job'[j].link = p, job'[p].link = j
         PROVE  Paired(j, p)'
    <3>1. job[j].link = p /\ job[p].link = j
      <4>1. job'[a].link \in {job[a].link, NoJob} /\ \A x \in Job : x # NoJob
        BY <1>3, NearbyConstants DEF Stays, Advances, GoesOn, IsDone
      <4> QED
        BY <1>3, <2>10, <4>1 DEF OthersStay
    <3>2. CASE j = a
      BY <2>1, <2>8, <3>1, <3>2
    <3>3. CASE p = a
      BY <2>1, <2>7, <3>1, <3>3
    <3>4. CASE j # a /\ p # a
      <4>1. j # b
        BY <2>2, <3>1, <3>4
      <4>2. /\ job'[j] = job[j] /\ job'[p] = job[p] /\ wire'[j] = wire[j] /\ Paired(j, p)
        BY <1>3, <2>3, <3>1, <3>4, <4>1, Parts DEF OthersStay, OtherWires
      <4>3. Shifted(j, 0)
        BY <1>1, <4>2, ShiftedSame
      <4>4. HasRecvd(j, 2)' = HasRecvd(j, 2) /\ HasRecvd(j, 3)' = HasRecvd(j, 3)
        BY <4>2 DEF HasRecvd, Past, RecvStep
      <4> QED
        BY <1>1, <1>5, <4>2, <4>3, <4>4, PairReads
    <3> QED
      BY <3>2, <3>3, <3>4
  <2>11. SharingInv' /\ NoneTrustsItself'
    BY <1>3, Parts DEF NoneTrustsItself, pvars
  <2> QED
    BY <2>9, <2>10, <2>11 DEF DeliveryInv
<1> QED
  BY <1>8, <1>9

-----------------------------------------------------------------------------
(* What does not touch a job leaves the session as it is.                  *)
LEMMA QuietDelivers ==
    ASSUME DeliveryInv, SharingInv', Grow, job' = job, wire' = wire
    PROVE  DeliveryInv'
<1>1. NearbyTypeOK /\ NearbyTypeOK' /\ NoneTrustsItself'
  BY DEF DeliveryInv, SharingInv, NoneTrustsItself, Grow
<1>2. ASSUME NEW j \in Job
      PROVE  Delivering(j)'
  <2>1. Placed(j) /\ Delivering(j) /\ job'[j] = job[j] /\ wire'[j] = wire[j]
    BY Parts
  <2> QED
    BY <1>1, <2>1, UntouchedDelivers
<1>3. ASSUME NEW j \in Job, NEW p \in Job, job'[j].link = p, job'[p].link = j
      PROVE  Paired(j, p)'
  <2>1. Paired(j, p) /\ job'[j] = job[j] /\ job'[p] = job[p] /\ wire'[j] = wire[j]
    BY <1>3, Parts
  <2>2. Shifted(j, 0)
    BY <1>1, <2>1, ShiftedSame
  <2>3. HasRecvd(j, 2)' = HasRecvd(j, 2) /\ HasRecvd(j, 3)' = HasRecvd(j, 3)
    BY <2>1 DEF HasRecvd, Past, RecvStep
  <2> QED
    BY <1>1, <2>1, <2>2, <2>3, PairReads
<1> QED
  BY <1>1, <1>2, <1>3 DEF DeliveryInv

LEMMA ListenDelivers ==
    ASSUME DeliveryInv, SharingInv', NEW a \in Job, NEW opt \in Options[a], NearbyListen(a, opt)
    PROVE  DeliveryInv'
<1>1. Placed(a) /\ NearbyTypeOK
  BY Parts
<1>2. /\ OthersStay(a) /\ wire' = wire /\ UNCHANGED pvars
      /\ asked' = asked \cup (opt.share \X {opt.expected})
      /\ job'[a] = [Fresh(opt) EXCEPT !.at = "accepting"]
  BY <1>1, ListenFields
<1>3. job'[a].at = "accepting" /\ job'[a].link = NoJob /\ job'[a].result = "none"
  BY <1>2 DEF Fresh
<1>4. Grow
  BY <1>1, <1>2, SameDevices DEF pvars, NearbyTypeOK, PeerTypeOK
<1>5. ~InSession(a)' /\ ~Active(a)' /\ OtherWires(a)
  BY <1>2, <1>3 DEF InSession, Active, OtherWires
<1>6. Delivering(a)'
  BY <1>5 DEF Delivering, OutGood, MineHeld, Ordered, BufOrdered, OpsComplete, BufComplete,
              OpsDelivered, PeerDelivered, BlobsKnown
<1>7. \A p \in Job : p # NoJob
  BY NearbyConstants
<1> QED
  BY <1>2, <1>3, <1>4, <1>5, <1>6, <1>7, DeliveryStep

(* At the start of a session nothing is on its way. *)
LEMMA StartDelivers ==
    ASSUME NEW j \in Job, wire'[j] = <<>>, job'[j].round = 0, job'[j].step = 1,
           job'[j].result # "synced", job'[j].buf = {}, job'[j].flush = "no", OutGood(j)'
    PROVE  Delivering(j)'
<1>1. /\ ~HasPrepared(j, 2)' /\ ~HasPrepared(j, 4)' /\ ~HasRecvd(j, 3)' /\ ~HasRecvd(j, 4)'
  BY DEF HasPrepared, HasRecvd, Past
<1>2. 1..Len(wire'[j]) = {}
  OBVIOUS
<1> QED
  BY <1>1, <1>2 DEF Delivering, MineHeld, Ordered, BufOrdered, OpsComplete, BufComplete,
                    OpsDelivered, PeerDelivered, BlobsKnown

LEMMA StartPaired ==
    ASSUME NEW j \in Job, NEW p \in Job, wire'[j] = <<>>, job'[j].round = 0, job'[j].flush = "no",
           job'[p].round = 0, \A i \in 1..Len(job'[p].out) : job'[p].out[i].kind # "ops"
    PROVE  Paired(j, p)'
<1>1. ~HasRecvd(j, 2)' /\ ~HasRecvd(j, 3)'
  BY DEF HasRecvd, Past
<1>2. 1..Len(wire'[j]) = {}
  OBVIOUS
<1> QED
  BY <1>1, <1>2 DEF Paired, Listed, EndSeen, OutOrdered, Covered

LEMMA ConnectDelivers ==
    ASSUME DeliveryInv, SharingInv', NEW i \in Job, NEW l \in Listener, NEW opt \in Options[i],
           NearbyConnect(i, l, opt)
    PROVE  DeliveryInv'
<1>1. l \in Job /\ Placed(i) /\ Placed(l) /\ NearbyTypeOK /\ job[l] \in JobRecord
  BY Parts DEF Job, NearbyTypeOK
<1>2. /\ NearbyTypeOK' /\ wire' = wire /\ UNCHANGED pvars
      /\ i \in Dialer /\ i # l /\ job[i].at = "idle" /\ job[l].at = "accepting"
      /\ asked' = asked \cup (opt.share \X {opt.expected})
      /\ \A j \in Job \ {i, l} : job'[j] = job[j]
      /\ job'[i] = [Fresh(opt) EXCEPT !.at = "session", !.link = l,
                                      !.out = <<Message("e", <<>>)>>]
      /\ job'[l] = [job[l] EXCEPT !.at = "session", !.link = i]
  BY <1>1, ConnectFields
<1>3. /\ job'[i].at = "session" /\ job'[i].link = l
      /\ job'[i].round = 0 /\ job'[i].step = 1 /\ job'[i].out = <<Message("e", <<>>)>>
      /\ job'[i].buf = {} /\ job'[i].flush = "no" /\ job'[i].result = "none"
      /\ wire[i] = <<>>
  BY <1>1, <1>2 DEF Fresh, Placed
<1>4. /\ job'[l].at = "session" /\ job'[l].link = i
      /\ job'[l].round = 0 /\ job'[l].step = 1 /\ job'[l].out = <<>>
      /\ job'[l].buf = {} /\ job'[l].flush = "no" /\ job'[l].result # "synced"
      /\ wire[l] = <<>>
  BY <1>1, <1>2 DEF JobRecord, Placed
<1>5. Grow
  BY <1>1, <1>2, SameDevices DEF pvars, NearbyTypeOK, PeerTypeOK
<1>6. OutGood(i)' /\ \A n \in 1..Len(job'[i].out) : job'[i].out[n].kind # "ops"
  <2> DEFINE m == Message("e", <<>>)
  <2>1. m.kind = "e"
    BY DEF Message
  <2>2. Sending(i)'
    BY <1>2, <1>3 DEF Sending
  <2> HIDE DEF m
  <2>3. OutGood(i)' /\ Len(job'[i].out) = 1 /\ job'[i].out[1] = m
    BY <1>3, <2>1, <2>2, OneOut DEF m
  <2> QED
    BY <2>1, <2>3
<1>7. OutGood(l)' /\ \A n \in 1..Len(job'[l].out) : job'[l].out[n].kind # "ops"
  BY <1>1, <1>4, NothingOut
<1>8. Delivering(i)' /\ Delivering(l)'
  BY <1>1, <1>2, <1>3, <1>4, <1>6, <1>7, StartDelivers
<1>9. Paired(i, l)' /\ Paired(l, i)'
  <2>1. wire'[i] = <<>> /\ wire'[l] = <<>> /\ l \in Job
    BY <1>1, <1>2, <1>3, <1>4
  <2>2. Paired(i, l)'
    BY <1>3, <1>4, <1>7, <2>1, StartPaired
  <2>3. Paired(l, i)'
    BY <1>3, <1>4, <1>6, <2>1, StartPaired
  <2> QED
    BY <2>2, <2>3
<1>10. ASSUME NEW j \in Job
       PROVE  Delivering(j)'
  <2>1. CASE j \in Job \ {i, l}
    <3>1. Placed(j) /\ Delivering(j) /\ job'[j] = job[j] /\ wire'[j] = wire[j]
      BY <1>2, <2>1, Parts
    <3> QED
      BY <1>1, <1>2, <1>5, <3>1, UntouchedDelivers
  <2> QED
    BY <1>8, <2>1
<1>11. ASSUME NEW j \in Job, NEW p \in Job, job'[j].link = p, job'[p].link = j
       PROVE  Paired(j, p)'
  <2>1. CASE j = i \/ p = i
    BY <1>3, <1>9, <1>11, <2>1
  <2>2. CASE j = l \/ p = l
    BY <1>4, <1>9, <1>11, <2>2
  <2>3. CASE j \notin {i, l} /\ p \notin {i, l}
    <3>1. job'[j] = job[j] /\ job'[p] = job[p] /\ wire'[j] = wire[j]
      BY <1>2, <2>3
    <3>2. Paired(j, p)
      BY <1>11, <3>1, Parts
    <3>3. Shifted(j, 0)
      BY <1>1, <3>1, ShiftedSame
    <3>4. HasRecvd(j, 2)' = HasRecvd(j, 2) /\ HasRecvd(j, 3)' = HasRecvd(j, 3)
      BY <3>1 DEF HasRecvd, Past, RecvStep
    <3> QED
      BY <1>1, <1>2, <1>5, <3>1, <3>2, <3>3, <3>4, PairReads
  <2> QED
    BY <2>1, <2>2, <2>3
<1>12. NoneTrustsItself'
  BY <1>2 DEF DeliveryInv, NoneTrustsItself, pvars
<1> QED
  BY <1>10, <1>11, <1>12 DEF DeliveryInv

LEMMA RecvDelivers ==
    ASSUME DeliveryInv, SharingInv', NEW a \in Job, Recv(a)
    PROVE  DeliveryInv'
<1>1. Receiving(a)
  BY DEF Recv
<1>2. CASE ~Allowed(a, Arrived(a))
  <2>1. Fail(a, "protocol") /\ UNCHANGED <<pvars, asked>>
    BY <1>2 DEF Recv, ProtocolError
  <2>2. "protocol" \in Result /\ "protocol" # "synced"
    BY DEF Result
  <2> QED
    BY <2>1, <2>2, FailedDelivers
<1>3. CASE Allowed(a, Arrived(a))
  <2>1. RecvMessage(a) \/ RecvOps(a) \/ RecvBlob(a) \/ RecvBlobsEnd(a)
    BY <1>3 DEF Recv
  <2> QED
    BY <1>1, <1>3, <2>1, RecvMessageDelivers, RecvOpsDelivers, RecvBlobDelivers
<1> QED
  BY <1>2, <1>3

LEMMA LostDelivers ==
    ASSUME DeliveryInv, SharingInv', NEW a \in Job, VaultLocked(a) \/ PeerClosed(a) \/ LinkBreaks(a)
    PROVE  DeliveryInv'
<1>1. \E why \in {"locked", "refused", "lost"} : Fail(a, why)
  BY DEF VaultLocked, PeerClosed, LinkBreaks
<1>2. UNCHANGED <<pvars, asked>>
  BY DEF VaultLocked, PeerClosed, LinkBreaks
<1>3. \A why \in {"locked", "refused", "lost"} : why \in Result /\ why # "synced"
  BY DEF Result
<1> QED
  BY <1>1, <1>2, <1>3, FailedDelivers

LEMMA DeliveryInvStep == DeliveryInv /\ [NearbyNext]_vars => DeliveryInv'
<1> SUFFICES ASSUME DeliveryInv, [NearbyNext]_vars
             PROVE  DeliveryInv'
  OBVIOUS
<1>a. SharingInv'
  BY SharingInvStep DEF DeliveryInv
<1>b. PeerTypeOK
  BY DEF DeliveryInv, SharingInv, NearbyTypeOK
<1>1. ASSUME NEW j \in Job, NEW opt \in Options[j], NearbyListen(j, opt)
      PROVE  DeliveryInv'
  BY <1>1, <1>a, ListenDelivers
<1>2. ASSUME NEW j \in Job, NEW opt \in Options[j], NEW l \in Listener, NearbyConnect(j, l, opt)
      PROVE  DeliveryInv'
  BY <1>2, <1>a, ConnectDelivers
<1>3. ASSUME NEW d \in Device, NearbyStop(d) \/ Lock(d) \/ Unlock(d)
      PROVE  DeliveryInv'
  <2>1. UNCHANGED <<pins, vaults, heads, blobs>> /\ unlocked' \subseteq Device
        /\ asked' = asked /\ job' = job /\ wire' = wire
    BY <1>3, <1>b DEF NearbyStop, Lock, Unlock, LockSession, UnlockSession, pvars, PeerTypeOK
  <2> QED
    BY <1>a, <1>b, <2>1, SameDevices, QuietDelivers
<1>4. ASSUME NEW l \in Listener, WindowElapses(l)
      PROVE  DeliveryInv'
  <2>1. UNCHANGED <<pins, vaults, heads, blobs>> /\ unlocked' \subseteq Device
        /\ asked' = asked /\ job' = job /\ wire' = wire
    BY <1>4, <1>b DEF WindowElapses, pvars, PeerTypeOK
  <2> QED
    BY <1>a, <1>b, <2>1, SameDevices, QuietDelivers
<1>5. ASSUME NEW l \in Listener, ServeEnds(l)
      PROVE  DeliveryInv'
  <2>1. l \in Job
    BY DEF Job
  <2>2. /\ OthersStay(l) /\ wire' = wire /\ asked' = asked /\ UNCHANGED pvars
        /\ IsOut(l)
    BY <1>5, <2>1, ServeEndsFields, Parts
  <2>3. OtherWires(l)
    BY <2>2 DEF OtherWires
  <2> QED
    BY <1>a, <2>1, <2>2, <2>3, FailDelivers DEF pvars
<1>6. ASSUME NEW j \in Job, SettleHandshake(j)
      PROVE  DeliveryInv'
  BY <1>6, <1>a, HandshakeDelivers
<1>7. ASSUME NEW j \in Job, Prep(j)
      PROVE  DeliveryInv'
  BY <1>7, <1>a, PrepDelivers
<1>8. ASSUME NEW j \in Job, CollectOps(j) \/ CollectBlob(j) \/ CollectEnd(j)
      PROVE  DeliveryInv'
  BY <1>8, <1>a, CollectOpsDelivers, CollectBlobDelivers, CollectEndDelivers
<1>9. ASSUME NEW j \in Job, Send(j)
      PROVE  DeliveryInv'
  BY <1>9, <1>a, SendDelivers
<1>10. ASSUME NEW j \in Job, Recv(j)
       PROVE  DeliveryInv'
  BY <1>10, <1>a, RecvDelivers
<1>11. ASSUME NEW j \in Job, Flush(j)
       PROVE  DeliveryInv'
  BY <1>11, <1>a, FlushIngestDelivers, FlushDoneDelivers
<1>12. ASSUME NEW j \in Job, SettleShares(j)
       PROVE  DeliveryInv'
  BY <1>12, <1>a, ImportDeliversOn
<1>13. ASSUME NEW j \in Job, VaultLocked(j) \/ PeerClosed(j) \/ LinkBreaks(j)
       PROVE  DeliveryInv'
  BY <1>13, <1>a, LostDelivers
<1>14. ASSUME NEW p \in Editing, NearbyWrite(p[1], p[2])
       PROVE  DeliveryInv'
  <2>1. p[1] \in Device /\ p[2] \in Vault
    BY PeerConstants
  <2>2. Write(p[1], p[2]) /\ asked' = asked /\ job' = job /\ wire' = wire
    BY <1>14 DEF NearbyWrite, nvars
  <2>3. Grow
    BY <1>b, <2>1, <2>2, WriteGrows
  <2> QED
    BY <1>a, <2>2, <2>3, QuietDelivers
<1>15. CASE UNCHANGED vars
  <2>1. UNCHANGED <<pins, vaults, heads, blobs>> /\ unlocked' \subseteq Device
        /\ asked' = asked /\ job' = job /\ wire' = wire
    BY <1>15, <1>b DEF vars, nvars, pvars, PeerTypeOK
  <2> QED
    BY <1>a, <1>b, <2>1, SameDevices, QuietDelivers
<1> QED
  BY <1>1, <1>2, <1>3, <1>4, <1>5, <1>6, <1>7, <1>8, <1>9, <1>10, <1>11, <1>12, <1>13, <1>14,
     <1>15 DEF NearbyNext, Step

LEMMA InitDelivery == PeerInit /\ NearbyInit => DeliveryInv
<1> SUFFICES ASSUME PeerInit, NearbyInit
             PROVE  DeliveryInv
  OBVIOUS
<1>1. \A j \in Job : job[j] = Fresh(NoOptions) /\ wire[j] = <<>>
  BY DEF NearbyInit
<1>2. \A j \in Job : /\ job[j].at = "idle" /\ job[j].link = NoJob /\ job[j].result = "none"
                     /\ ~InSession(j) /\ ~Active(j)
  BY <1>1 DEF Fresh, InSession, Active
<1>3. \A j \in Job : Delivering(j)
  BY <1>2 DEF Delivering, OutGood, MineHeld, Ordered, BufOrdered, OpsComplete, BufComplete,
              OpsDelivered, PeerDelivered, BlobsKnown
<1>4. NoneTrustsItself
  BY DEF PeerInit, NoneTrustsItself
<1>5. \A j \in Job : j # NoJob
  BY NearbyConstants
<1> QED
  BY <1>2, <1>3, <1>4, <1>5, InitSharing DEF DeliveryInv

(* What the invariant says of a job that is synced. *)
LEMMA DeliveredAtEnd ==
    ASSUME DeliveryInv
    PROVE  SyncedIsDelivered
<1> SUFFICES ASSUME NEW j \in Job, job[j].result = "synced",
                    NEW v \in Common(j), NEW o \in Device
             PROVE  /\ o \in pins[Me(j)] => heads[Me(j)][v][o] >= job[j].theirs[v][o]
                    /\ o \in pins[job[j].peer] => heads[job[j].peer][v][o] >= job[j].mine[v][o]
                    /\ \A b \in Referenced(Me(j), v) :
                          (b[2] = o /\ o \in pins[Me(j)] /\ b[3] <= job[j].theirs[v][o])
                              => b \in blobs[Me(j)] \cup job[j].wants \cup job[j].tampered
  BY DEF SyncedIsDelivered
<1>1. NearbyTypeOK /\ Placed(j) /\ OpsDelivered(j) /\ PeerDelivered(j) /\ BlobsKnown(j)
  BY Parts
<1>2. Active(j) /\ job[j].round = 6
  BY <1>1 DEF Active, Placed
<1>3. HasRecvd(j, 3) /\ HasRecvd(j, 4) /\ HasPrepared(j, 4)
  BY <1>1, <1>2, RoundOrder
<1>4. v \in Vault /\ job[j].theirs[v] \in Heads /\ job[j].mine[v] \in Heads
  BY <1>1, JobFields DEF NearbyTypeOK, Common
<1>5. Me(j) \in Device /\ job[j].peer \in Device /\ MaxSeq \in Nat
  BY <1>1, <1>2, <1>3, OwnerIsDevice, NatConstants DEF PeerDelivered, PeerHas
<1>6. /\ heads[Me(j)][v][o] \in Int /\ heads[job[j].peer][v][o] \in Int
      /\ job[j].theirs[v][o] \in Int /\ job[j].mine[v][o] \in Int
  BY <1>1, <1>4, <1>5, HeadsInt DEF NearbyTypeOK, Heads
<1>7. o \in pins[Me(j)] => heads[Me(j)][v][o] >= job[j].theirs[v][o]
  BY <1>1, <1>2, <1>3, <1>6 DEF OpsDelivered
<1>8. o \in pins[job[j].peer] => heads[job[j].peer][v][o] >= job[j].mine[v][o]
  BY <1>1, <1>2, <1>3, <1>6 DEF PeerDelivered, PeerHas
<1>9. ASSUME NEW b \in Referenced(Me(j), v), b[2] = o, o \in pins[Me(j)],
             b[3] <= job[j].theirs[v][o]
      PROVE  b \in blobs[Me(j)] \cup job[j].wants \cup job[j].tampered
  <2>1. PICK op \in Attached : b = <<v, op[1], op[2]>>
    BY <1>9 DEF Referenced, ReferencedUpTo
  <2>2. op[1] = o /\ op[2] = b[3]
    BY <1>9, <2>1
  <2> QED
    BY <1>1, <1>2, <1>3, <1>9, <2>1, <2>2 DEF BlobsKnown
<1> QED
  BY <1>7, <1>8, <1>9

\* The delivery invariant holds in every state of nearby sync: whatever an end of a session
\* still misses of what the other listed is in its buffer, on the wire, in the other's outbox
\* or in a vault the other has yet to collect (run_session, send_ops, recv_ops).
THEOREM DeliveryInvariance == NearbySpec => []DeliveryInv
<1> QED
  BY DeliveryInvStep, InitDelivery, PTL DEF NearbySpec

\* A session that one end reports as synced has delivered everything both inventories listed
\* for the vaults in common, in both directions, and knows of every attachment it lacks: for
\* any number of devices, vaults, operations, batch and buffer sizes, with edits, locks and
\* other sessions in between (run_session, Flush::run, blob_wants).
THEOREM NearbyDelivers == NearbySpec => []SyncedIsDelivered
<1> QED
  BY DeliveredAtEnd, DeliveryInvariance, PTL
=============================================================================
