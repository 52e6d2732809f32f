----------------------------- MODULE MCExchange -----------------------------
(***************************************************************************)
(* Two devices that meet, and a third one whose operations one of them     *)
(* carries. A behaviour uses one of the two transports throughout: they    *)
(* share the operators of PeerState and no state of their own.             *)
(*                                                                         *)
(* Device 1 dials or films, device 2 listens or plays. Both hold vault 1,  *)
(* device 2 also vault 2, which it may be asked to share. Device 2's copy  *)
(* of device 3's attachment has rotted.                                    *)
(***************************************************************************)
EXTENDS Nearby, QrSync

CONSTANTS d1, l2    \* the dial of device 1, the window of device 2

VARIABLE transport

allVars == <<transport, pvars, asked, locks, nvars, qvars>>

MCOwner == [j \in {d1, l2} |-> IF j = d1 THEN 1 ELSE 2]

ShareWith(d) == [expected |-> d, share |-> {2}]

MCOptions == [j \in {d1, l2} |->
    IF j = d1 THEN {[expected |-> 2, share |-> {}]} ELSE {ShareWith(1), ShareWith(3)}]

Export(peer, share) ==
    [peer |-> peer, picked |-> {}, share |-> share, attachments |-> TRUE]

MCQrOptions == {Export(NoDevice, {}), Export(1, {2})}

MCEditing == {<<2, 1>>}

MCAttached == Device \X {1}

MCDamaged == {<<2, <<1, 3, 1>>>>}

HeadsOf(one, two, three) ==
    [o \in Device |-> IF o = 1 THEN one ELSE IF o = 2 THEN two ELSE three]

Init ==
    /\ transport \in {"nearby", "qr"}
    /\ unlocked = Device
    /\ \E trusted \in {{2}, {2, 3}} :
            /\ transport = "qr" => 3 \in trusted
            /\ pins = [d \in Device |-> IF d = 1 THEN trusted ELSE Device \ {d}]
    /\ vaults = [d \in Device |-> IF d = 2 THEN {1, 2} ELSE {1}]
    /\ heads = [d \in Device |-> [v \in Vault |->
            CASE d = 1 /\ v = 1 -> HeadsOf(1, 0, 0)
              [] d = 2 /\ v = 1 -> HeadsOf(0, 1, 1)
              [] d = 2 /\ v = 2 -> HeadsOf(0, 1, 0)
              [] d = 3 /\ v = 1 -> HeadsOf(0, 0, 1)
              [] OTHER -> HeadsOf(0, 0, 0)]]
    /\ blobs = [d \in Device |-> CASE d = 1 -> {<<1, 1, 1>>}
                                   [] d = 2 -> {<<1, 2, 1>>, <<1, 3, 1>>, <<2, 2, 1>>}
                                   [] d = 3 -> {<<1, 3, 1>>}]
    /\ asked = {} /\ locks = 0
    /\ PeerInit /\ NearbyInit /\ QrInit

MCNearbyNext == transport = "nearby" /\ NearbyNext /\ UNCHANGED <<transport, codes, bundles, playing, recv, pending, imported>>

MCQrNext == transport = "qr" /\ QrNext /\ UNCHANGED <<transport, job, wire, handle, stop, elapsed>>

Next == MCNearbyNext \/ MCQrNext

Spec == Init /\ [][Next]_allVars /\ NearbyFairness
=============================================================================
