------------------------ MODULE DaemonSessionProofs ------------------------
(***************************************************************************)
(* Proofs about DaemonSession, for any client processes, any subset of the *)
(* requests, any timeouts and any limits.                                  *)
(*                                                                         *)
(* The presence check rests on what the list of grants says about the      *)
(* past: a grant whose token its process still holds is at most as young   *)
(* as the last right password of that process in this unlock               *)
(* (GrantsFresh), and the list is in order of expiry (GrantsInOrder), so   *)
(* that dropping the lapsed ones drops exactly a prefix.  The count of     *)
(* agents rests on there being no connection but a refused one without a   *)
(* daemon that serves (NoneWithoutDaemon).                                 *)
(***************************************************************************)
EXTENDS DaemonSession, FiniteSetTheorems, TLAPS

GrantsFresh ==
    \A i \in DOMAIN grants :
        held[grants[i].to] => grants[i].left + proof[grants[i].to] <= GrantTicks

GrantsInOrder ==
    \A i, j \in DOMAIN grants : i <= j => grants[i].left <= grants[j].left

NoneWithoutDaemon ==
    Serving \/ \A c \in McpConn : conn[c] \in {"closed", "refused"}

Inv == GrantsFresh /\ GrantsInOrder /\ NoneWithoutDaemon /\ AgentsCounted

-----------------------------------------------------------------------------
(* Types.                                                                   *)

\* What requests make of the vault is a vault.
LEMMA VaultTypes ==
    ASSUME TypeOK
    PROVE  /\ [vault EXCEPT !.rev = 1 - @] \in Vault
           /\ [vault EXCEPT !.enrolled = TRUE] \in Vault
           /\ \A d \in Device : [vault EXCEPT !.shared = @ \cup {d}] \in Vault
           /\ \A d \in Device : [vault EXCEPT !.peers[d] = "real"] \in Vault
<1> USE DEF TypeOK, Vault, Key
<1>1. [vault EXCEPT !.rev = 1 - @] \in Vault
  OBVIOUS
<1>2. [vault EXCEPT !.enrolled = TRUE] \in Vault
  OBVIOUS
<1>3. \A d \in Device : [vault EXCEPT !.shared = @ \cup {d}] \in Vault
  OBVIOUS
<1>4. \A d \in Device : [vault EXCEPT !.peers[d] = "real"] \in Vault
  OBVIOUS
<1>. QED
  BY <1>1, <1>2, <1>3, <1>4

\* What requests, a lock and a restart make of the windows are windows.
LEMMA WindowTypes ==
    ASSUME TypeOK
    PROVE  /\ [windows EXCEPT !.fill = 0, !.listen = 0] \in Windows
           /\ [windows EXCEPT !.listen = 0] \in Windows
           /\ [windows EXCEPT !.listen = WindowTicks] \in Windows
           /\ NoWindows \in Windows
           /\ \A w \in {"pairing", "fill"}, n \in {0, WindowTicks} :
                 [windows EXCEPT ![w] = n] \in Windows
<1>0. windows \in Windows /\ 0 \in 0..WindowTicks /\ WindowTicks \in 0..WindowTicks
  BY BoundsAssumption DEF TypeOK
<1> USE <1>0 DEF Windows, NoWindows
<1>1. [windows EXCEPT !.fill = 0, !.listen = 0] \in Windows
  OBVIOUS
<1>2. [windows EXCEPT !.listen = 0] \in Windows
  OBVIOUS
<1>3. [windows EXCEPT !.listen = WindowTicks] \in Windows
  OBVIOUS
<1>4. NoWindows \in Windows
  OBVIOUS
<1>5. ASSUME NEW n \in {0, WindowTicks}
      PROVE  /\ [windows EXCEPT !["pairing"] = n] \in Windows
             /\ [windows EXCEPT !["fill"] = n] \in Windows
  OBVIOUS
<1>. QED
  BY <1>1, <1>2, <1>3, <1>4, <1>5

\* The types of the state that State::lock resets.
LEMMA ResetTypes ==
    ASSUME TypeOK, NEW opened \in BOOLEAN, ResetSession(opened)
    PROVE  /\ unlocked' \in BOOLEAN
           /\ idle' \in 0..IdleTicks
           /\ grants' \in Seq(Grant) /\ Len(grants') <= MaxGrants
           /\ failures' \in 0..(MaxFailures - 1)
           /\ windows' \in Windows
           /\ proof' \in [Client -> 0..GrantTicks]
BY WindowTypes, BoundsAssumption DEF ResetSession, NoProof

\* A served request may change windows and vault; the rest keeps its type.
LEMMA ServedTypes ==
    ASSUME TypeOK, NEW c, NEW r, ServedBy(c, r),
           windows' \in Windows, vault' \in Vault,
           who' \in Client \cup McpConn \cup {Nobody}
    PROVE  TypeOK'
<1>1. idle' \in 0..IdleTicks
  BY BoundsAssumption DEF ServedBy, Touch, TypeOK
<1>. QED
  BY <1>1 DEF ServedBy, TypeOK, clients

\* An interval from 1 is as large as its end.
LEMMA IntervalSize == \A m \in Nat : IsFiniteSet(1..m) /\ Cardinality(1..m) = m
BY FS_Interval

\* In an ordered list the lapsing grants are the first ones, so what is left
\* of it are live grants, a tick older.
LEMMA AgedGrants ==
    ASSUME TypeOK, GrantsInOrder
    PROVE  \E n \in 0..Len(grants) :
              /\ \A i \in 1..Len(grants) : grants[i].left = 1 <=> i <= n
              /\ Aged(grants) = [i \in 1..(Len(grants) - n) |->
                                    [grants[i + n] EXCEPT !.left = @ - 1]]
<1> DEFINE lapsing == {i \in DOMAIN grants : grants[i].left = 1}
           n == Cardinality(lapsing)
<1>1. /\ Len(grants) \in Nat
      /\ DOMAIN grants = 1..Len(grants)
      /\ \A i \in 1..Len(grants) : grants[i].left \in Nat \ {0}
  <2>1. grants \in Seq(Grant)
    BY DEF TypeOK
  <2>2. \A g \in Grant : g.left \in Nat \ {0}
    BY BoundsAssumption DEF Grant
  <2>. QED
    BY <2>1, <2>2
<1>2. lapsing \in SUBSET (1..Len(grants))
  BY <1>1
<1>3. /\ IsFiniteSet(1..Len(grants))
      /\ Cardinality(1..Len(grants)) = Len(grants)
  BY <1>1, IntervalSize
<1>4. IsFiniteSet(lapsing) /\ n \in Nat /\ n <= Len(grants)
  BY <1>2, <1>3, FS_Subset, FS_CardinalityType
<1>5. ASSUME NEW i \in lapsing
      PROVE  i <= n
  <2>1. 1..i \in SUBSET lapsing
    BY <1>1, <1>2 DEF GrantsInOrder
  <2>2. Cardinality(1..i) = i
    BY <1>1, <1>2, IntervalSize
  <2>. QED
    BY <1>4, <2>1, <2>2, FS_Subset
<1>6. lapsing = 1..n
  <2>1. lapsing \in SUBSET (1..n)
    BY <1>1, <1>2, <1>4, <1>5
  <2>2. IsFiniteSet(1..n) /\ Cardinality(1..n) = n
    BY <1>4, IntervalSize
  <2>. QED
    BY <2>1, <2>2, FS_Subset
<1>7. \A i \in 1..Len(grants) : grants[i].left = 1 <=> i <= n
  BY <1>1, <1>4, <1>6
<1>8. Aged(grants) = [i \in 1..(Len(grants) - n) |->
                         [grants[i + n] EXCEPT !.left = @ - 1]]
  BY DEF Aged
<1>9. n \in 0..Len(grants)
  BY <1>1, <1>4
<1> HIDE DEF n
<1>. QED
  BY <1>7, <1>8, <1>9

\* A confirmation's grant keeps the list typed and within its limit.
LEMMA IssueTypes ==
    ASSUME TypeOK, NEW c \in Client, IssueGrant(c)
    PROVE  grants' \in Seq(Grant) /\ Len(grants') <= MaxGrants
<1> DEFINE kept == IF Len(grants) >= MaxGrants THEN Tail(grants) ELSE grants
           new == [to |-> c, left |-> GrantTicks]
<1>1. grants \in Seq(Grant) /\ Len(grants) <= MaxGrants
  BY DEF TypeOK
<1>2. kept \in Seq(Grant) /\ Len(kept) < MaxGrants
  BY <1>1, BoundsAssumption
<1>3. new \in Grant
  BY BoundsAssumption DEF Grant
<1>4. grants' = Append(kept, new)
  BY DEF IssueGrant
<1> HIDE DEF kept, new
<1>. QED
  BY <1>2, <1>3, <1>4, BoundsAssumption

\* What a tick leaves of the grants is typed.
LEMMA AgedTypes ==
    ASSUME TypeOK, GrantsInOrder
    PROVE  Aged(grants) \in Seq(Grant) /\ Len(Aged(grants)) <= MaxGrants
<1>1. PICK n \in 0..Len(grants) :
             /\ \A i \in 1..Len(grants) : grants[i].left = 1 <=> i <= n
             /\ Aged(grants) = [i \in 1..(Len(grants) - n) |->
                                   [grants[i + n] EXCEPT !.left = @ - 1]]
  BY AgedGrants
<1>2. grants \in Seq(Grant) /\ Len(grants) \in Nat /\ Len(grants) <= MaxGrants
  BY DEF TypeOK
<1>3. Len(grants) - n \in Nat
  BY <1>2
<1>4. ASSUME NEW i \in 1..(Len(grants) - n)
      PROVE  [grants[i + n] EXCEPT !.left = @ - 1] \in Grant
  <2>1. i + n \in 1..Len(grants) /\ ~(i + n <= n)
    BY <1>2
  <2>2. grants[i + n] \in Grant /\ grants[i + n].left # 1
    BY <1>1, <1>2, <2>1
  <2>3. \A g \in Grant : g.left # 1 => [g EXCEPT !.left = @ - 1] \in Grant
    BY BoundsAssumption DEF Grant
  <2>. QED
    BY <2>2, <2>3
<1> DEFINE aged == [i \in 1..(Len(grants) - n) |-> [grants[i + n] EXCEPT !.left = @ - 1]]
<1>5. aged \in Seq(Grant) /\ Len(aged) = Len(grants) - n
  <2>1. aged \in [1..(Len(grants) - n) -> Grant]
    BY <1>4
  <2> HIDE DEF aged
  <2>. QED
    BY <1>3, <2>1
<1>. QED
  BY <1>1, <1>2, <1>5, BoundsAssumption

\* Every step keeps the types.
LEMMA TypeStep ==
    ASSUME TypeOK, GrantsInOrder, [Next]_vars
    PROVE  TypeOK'
<1> DEFINE Quiet == UNCHANGED <<daemon, clients, vault, proof>> /\ Unmarked
<1>1. ASSUME Quiet
      PROVE  TypeOK'
  BY <1>1 DEF TypeOK, daemon, clients, Unmarked
<1> HIDE DEF Quiet
<1>2. ASSUME NEW c \in Client \cup McpConn, NEW r,
             Answer(c, r) \/ AnswerLocked(c, r)
      PROVE  TypeOK'
  <2>1. CASE Answer(c, r)
    BY <2>1, ServedTypes DEF Answer, Unmarked, TypeOK
  <2>2. CASE AnswerLocked(c, r)
    BY <1>1, <2>2 DEF AnswerLocked, Quiet
  <2>. QED
    BY <1>2, <2>1, <2>2
<1>3. ASSUME NEW c \in Client, NEW r \in Req, Refuse(c, r) \/ UnlockWrong(c, r)
      PROVE  TypeOK'
  BY <1>1, <1>3 DEF Refuse, UnlockWrong, Quiet
<1>4. ASSUME NEW c \in Client, NEW r \in Req, ConfirmPresenceWrong(c, r)
      PROVE  TypeOK'
  <2>1. CASE Locks
    BY <1>4, <2>1, ResetTypes DEF ConfirmPresenceWrong, Locks, TypeOK, clients, Unmarked
  <2>2. CASE ~(failures + 1 >= MaxFailures)
    BY <1>4, <2>2, BoundsAssumption DEF ConfirmPresenceWrong, TypeOK, clients, Unmarked
  <2>. QED
    BY <1>4, <2>1, <2>2 DEF ConfirmPresenceWrong
<1>5. ASSUME NEW c \in Client, NEW r \in Req,
             \/ Edit(c, r) \/ Ingest(c, r) \/ SyncSetup(c, r)
             \/ \E d \in Device : ShareVaultKey(c, r, d)
             \/ \E d \in Device, key \in Key : TrustDevice(c, r, d, key)
      PROVE  TypeOK'
  <2>1. ServedBy(c, r) /\ windows' \in Windows
    BY <1>5 DEF Edit, Ingest, SyncSetup, ShareVaultKey, TrustDevice, TypeOK
  <2>2. vault' \in Vault
    BY <1>5, VaultTypes DEF Edit, Ingest, SyncSetup, ShareVaultKey, TrustDevice
  <2>3. who' \in Client \cup McpConn \cup {Nobody}
    BY <1>5 DEF Edit, Ingest, SyncSetup, ShareVaultKey, TrustDevice, Unmarked
  <2>. QED
    BY <2>1, <2>2, <2>3, ServedTypes
<1>6. ASSUME NEW c \in Client, NEW r \in Req,
             SetMode(c, r) \/ NearbyListen(c, r) \/ NearbyStop(c, r)
      PROVE  TypeOK'
  <2>1. ServedBy(c, r) /\ vault' \in Vault
    BY <1>6 DEF SetMode, NearbyListen, NearbyStop, TypeOK
  <2>2. windows' \in Windows
    BY <1>6, WindowTypes DEF SetMode, NearbyListen, NearbyStop
  <2>3. who' \in Client \cup McpConn \cup {Nobody}
    BY <1>6 DEF SetMode, NearbyListen, NearbyStop, Unmarked
  <2>. QED
    BY <2>1, <2>2, <2>3, ServedTypes
<1>7. ASSUME NEW c \in Client, NEW r \in Req, ConfirmPresence(c, r)
      PROVE  TypeOK'
  <2>1. idle' \in 0..IdleTicks /\ failures' \in 0..(MaxFailures - 1)
    BY <1>7, BoundsAssumption DEF ConfirmPresence, Touch, TypeOK
  <2>2. proof' \in [Client -> 0..GrantTicks] /\ held' \in [Client -> BOOLEAN]
    BY <1>7, BoundsAssumption DEF ConfirmPresence, TypeOK
  <2>3. grants' \in Seq(Grant) /\ Len(grants') <= MaxGrants
    BY <1>7, IssueTypes DEF ConfirmPresence
  <2>. QED
    BY <1>7, <2>1, <2>2, <2>3 DEF ConfirmPresence, TypeOK, Unmarked
<1>8. ASSUME NEW c \in Client, NEW r \in Req, Unlock(c, r)
      PROVE  TypeOK'
  BY <1>8, ResetTypes DEF Unlock, Unlocks, TypeOK, clients, Unmarked
<1>9. ASSUME NEW c \in Client, NEW r \in Req, CreateAccount(c, r)
      PROVE  TypeOK'
  <2>1. CASE Unlocks
    BY <1>9, <2>1, ResetTypes DEF CreateAccount, Unlocks, TypeOK, clients, Unmarked
  <2>2. CASE Touch(r) /\ UNCHANGED <<unlocked, grants, failures, windows, proof>>
    BY <1>9, <2>2, BoundsAssumption DEF CreateAccount, Touch, TypeOK, clients, Unmarked
  <2>. QED
    BY <1>9, <2>1, <2>2 DEF CreateAccount
<1>10. ASSUME NEW c \in Client, NEW r \in Req, Lock(c, r)
       PROVE  TypeOK'
  <2>1. held' \in [Client -> BOOLEAN]
    BY <1>10 DEF Lock, TypeOK
  <2>. QED
    BY <1>10, <2>1, ResetTypes DEF Lock, Locks, TypeOK, Unmarked
<1>11. ASSUME NEW c \in Client, NEW r \in Req, Shutdown(c, r)
       PROVE  TypeOK'
  BY <1>11, ResetTypes DEF Shutdown, Locks, TypeOK, clients, Unmarked
<1>12. CASE McpAcquireProxy
  BY <1>12, BoundsAssumption DEF McpAcquireProxy, TypeOK, Unmarked, McpConn
<1>13. CASE McpAcquireDirect
  BY <1>13 DEF McpAcquireDirect, TypeOK, daemon, Unmarked
<1>14. CASE McpExit
  BY <1>14 DEF McpExit, TypeOK, daemon, Unmarked
<1>15. CASE MaybeAutolock
  BY <1>15, ResetTypes DEF MaybeAutolock, Locks, TypeOK, clients, Unmarked
<1>16. CASE SentinelPoll
  BY <1>16 DEF SentinelPoll, TypeOK, daemon, Unmarked
<1>17. ASSUME NEW c \in McpConn, BeginAgentSession(c) \/ EndAgentSession(c)
       PROVE  TypeOK'
  BY <1>17 DEF BeginAgentSession, EndAgentSession, TypeOK, Unmarked
<1>18. CASE Tick
  <2>1. grants' \in Seq(Grant) /\ Len(grants') <= MaxGrants
    BY <1>18, AgedTypes DEF Tick
  <2>2. windows' \in Windows
    <3>1. \A m \in Nat : \A n \in 0..m : Countdown(n) \in 0..m
      BY DEF Countdown
    <3>. QED
      BY <1>18, <3>1, BoundsAssumption DEF Tick, Windows, TypeOK
  <2>3. proof' \in [Client -> 0..GrantTicks]
    BY <1>18, BoundsAssumption DEF Tick, TypeOK
  <2>4. idle' \in 0..IdleTicks
    BY <1>18, BoundsAssumption DEF Tick, TypeOK
  <2>. QED
    BY <1>18, <2>1, <2>2, <2>3, <2>4 DEF Tick, TypeOK, clients, Unmarked
<1>19. CASE Exit
  BY <1>19, ResetTypes DEF Exit, Locks, TypeOK, Unmarked
<1>20. CASE Spawn
  <2>1. grants' \in Seq(Grant) /\ Len(grants') <= MaxGrants
    BY <1>20, BoundsAssumption DEF Spawn, FreshState
  <2>2. windows' \in Windows
    BY <1>20, WindowTypes DEF Spawn, FreshState
  <2>3. idle' \in 0..IdleTicks /\ failures' \in 0..(MaxFailures - 1)
    BY <1>20, BoundsAssumption DEF Spawn, FreshState
  <2>. QED
    BY <1>20, <2>1, <2>2, <2>3
    DEF Spawn, FreshState, TypeOK, clients, Unmarked
<1>21. CASE DirectChange
  BY <1>21, VaultTypes DEF DirectChange, TypeOK, daemon, clients, Unmarked
<1>22. ASSUME NEW c \in Client, ClientExit(c)
       PROVE  TypeOK'
  BY <1>22, BoundsAssumption DEF ClientExit, TypeOK, daemon, Unmarked
<1>23. CASE UNCHANGED vars
  BY <1>23 DEF vars, daemon, clients, TypeOK
<1>24. CASE Probe
  BY <1>24, <1>2, <1>3, <1>4 DEF Probe
<1>25. ASSUME NEW c \in Client, NEW r \in Req, UsageError(c, r)
       PROVE  TypeOK'
  <2>1. idle' \in 0..IdleTicks
    BY <1>25, BoundsAssumption DEF UsageError, Touch, TypeOK
  <2>. QED
    BY <1>25, <2>1 DEF UsageError, TypeOK, clients, Unmarked
<1>26. CASE Fumble
  BY <1>25, <1>26 DEF Fumble, UnlockUnusable, CreateAccountRefused, ConfirmPresenceUnchecked
<1>27. CASE SpawnForeign
  BY <1>27 DEF SpawnForeign, TypeOK, clients, Unmarked
<1>28. CASE Request1
  BY <1>28, <1>2, <1>5, <1>6, <1>7, <1>8, <1>9, <1>10, <1>11 DEF Request1
<1>29. CASE McpStep
  BY <1>29, <1>2, <1>12, <1>13, <1>14 DEF McpStep, McpConn
<1>30. CASE Background
  BY <1>30, <1>15, <1>16, <1>17, <1>18 DEF Background
<1>. QED
  BY <1>19, <1>20, <1>21, <1>22, <1>23, <1>24, <1>26, <1>27, <1>28, <1>29,
     <1>30 DEF Next

-----------------------------------------------------------------------------
(* The grants.                                                              *)

\* The grants vouch for the same as before when they, the tokens held and the
\* times of the last password stay.
LEMMA GrantsKept ==
    ASSUME GrantsFresh, GrantsInOrder, UNCHANGED <<grants, held, proof>>
    PROVE  GrantsFresh' /\ GrantsInOrder'
BY DEF GrantsFresh, GrantsInOrder

\* After a lock, an unlock or a restart there is none.
LEMMA GrantsCleared ==
    ASSUME grants' = <<>>
    PROVE  GrantsFresh' /\ GrantsInOrder'
BY DEF GrantsFresh, GrantsInOrder

\* A confirmation adds the youngest grant, and its process has just given the
\* password.
LEMMA GrantIssued ==
    ASSUME TypeOK, GrantsFresh, GrantsInOrder, NEW c \in Client, IssueGrant(c),
           held' = [held EXCEPT ![c] = TRUE], proof' = [proof EXCEPT ![c] = 0]
    PROVE  GrantsFresh' /\ GrantsInOrder'
<1> DEFINE kept == IF Len(grants) >= MaxGrants THEN Tail(grants) ELSE grants
           new == [to |-> c, left |-> GrantTicks]
<1>1. /\ grants \in Seq(Grant)
      /\ \A i \in DOMAIN grants : grants[i].to \in Client /\ grants[i].left \in 1..GrantTicks
  <2>1. grants \in Seq(Grant)
    BY DEF TypeOK
  <2>2. \A g \in Grant : g.to \in Client /\ g.left \in 1..GrantTicks
    BY DEF Grant
  <2>. QED
    BY <2>1, <2>2
<1>2. Len(grants) \in Nat /\ GrantTicks \in Nat /\ (Len(grants) >= MaxGrants => grants # <<>>)
  BY <1>1, BoundsAssumption
<1>3. /\ kept \in Seq(Grant)
      /\ \E k \in {0, 1} : \A i \in 1..Len(kept) : i + k \in DOMAIN grants /\ kept[i] = grants[i + k]
  <2>1. CASE Len(grants) >= MaxGrants
    <3>1. /\ Tail(grants) \in Seq(Grant) /\ Len(Tail(grants)) = Len(grants) - 1
          /\ \A i \in 1..Len(Tail(grants)) : Tail(grants)[i] = grants[i + 1]
      BY <1>1, <1>2, <2>1
    <3>. QED
      BY <1>1, <1>2, <2>1, <3>1
  <2>2. CASE ~(Len(grants) >= MaxGrants)
    BY <1>1, <1>2, <2>2
  <2>. QED
    BY <2>1, <2>2
<1>4. new.to = c /\ new.left = GrantTicks /\ new \in Grant
  BY BoundsAssumption DEF Grant
<1>5. grants' = Append(kept, new)
  BY DEF IssueGrant
<1> HIDE DEF kept, new
<1>6. PICK k \in {0, 1} :
         \A i \in 1..Len(kept) : i + k \in DOMAIN grants /\ kept[i] = grants[i + k]
  BY <1>3
<1>7. /\ Len(kept) \in Nat
      /\ DOMAIN grants' = 1..(Len(kept) + 1)
      /\ \A i \in 1..Len(kept) : grants'[i] = kept[i]
      /\ grants'[Len(kept) + 1] = new
  BY <1>3, <1>4, <1>5
<1>8. \A i \in DOMAIN grants' : i = Len(kept) + 1 \/ i \in 1..Len(kept)
  BY <1>7
<1>9. ASSUME NEW i \in 1..Len(kept)
      PROVE  /\ grants'[i].to \in Client
             /\ grants'[i].left \in 1..GrantTicks
             /\ held[grants'[i].to] => grants'[i].left + proof[grants'[i].to] <= GrantTicks
  <2>1. i + k \in DOMAIN grants /\ grants'[i] = grants[i + k]
    BY <1>6, <1>7
  <2>2. held[grants[i + k].to] => grants[i + k].left + proof[grants[i + k].to] <= GrantTicks
    BY <2>1 DEF GrantsFresh
  <2>. QED
    BY <1>1, <2>1, <2>2
<1>10. \A e \in Client : /\ proof'[e] = IF e = c THEN 0 ELSE proof[e]
                         /\ held'[e] = IF e = c THEN TRUE ELSE held[e]
                         /\ proof[e] \in Nat
  BY DEF TypeOK
<1>11. proof'[c] = 0
  BY DEF TypeOK
<1>12. GrantsFresh'
  <2>1. ASSUME NEW i \in 1..Len(kept), held'[grants'[i].to]
        PROVE  grants'[i].left + proof'[grants'[i].to] <= GrantTicks
    <3>1. PICK to \in Client, left \in 1..GrantTicks :
             /\ to = grants'[i].to /\ left = grants'[i].left
             /\ held'[to]
             /\ held[to] => left + proof[to] <= GrantTicks
      BY <1>9, <2>1
    <3>2. left + proof'[to] <= GrantTicks
      <4>1. CASE to = c
        <5>1. left + 0 <= GrantTicks
          BY <1>2
        <5>. QED
          BY <1>11, <4>1, <5>1
      <4>2. CASE to # c
        BY <1>10, <3>1, <4>2
      <4>. QED
        BY <4>1, <4>2
    <3>. QED
      BY <3>1, <3>2
  <2>2. grants'[Len(kept) + 1].left + proof'[grants'[Len(kept) + 1].to] <= GrantTicks
    <3>1. new.left + proof'[new.to] <= GrantTicks
      <4>1. GrantTicks + 0 <= GrantTicks
        BY <1>2
      <4>. QED
        BY <1>4, <1>11, <4>1
    <3>. QED
      BY <1>7, <3>1
  <2>. QED
    BY <1>8, <2>1, <2>2 DEF GrantsFresh
<1>13. GrantsInOrder'
  <2>1. ASSUME NEW i \in 1..Len(kept), NEW j \in 1..Len(kept), i <= j
        PROVE  grants'[i].left <= grants'[j].left
    <3>1. i + k <= j + k
      BY <1>6, <2>1
    <3>. QED
      BY <1>6, <1>7, <3>1 DEF GrantsInOrder
  <2>2. ASSUME NEW i \in DOMAIN grants'
        PROVE  grants'[i].left <= grants'[Len(kept) + 1].left
    BY <1>2, <1>4, <1>7, <1>8, <1>9
  <2>3. ASSUME NEW j \in DOMAIN grants', NEW i \in DOMAIN grants', i <= j
        PROVE  grants'[i].left <= grants'[j].left
    <3>1. CASE j = Len(kept) + 1
      BY <2>2, <3>1
    <3>2. CASE j \in 1..Len(kept)
      <4>1. i \in 1..Len(kept)
        BY <1>7, <1>8, <2>3, <3>2
      <4>. QED
        BY <2>1, <2>3, <3>2, <4>1
    <3>. QED
      BY <1>8, <3>1, <3>2
  <2>. QED
    BY <2>3 DEF GrantsInOrder
<1>. QED
  BY <1>12, <1>13

\* A tick takes from a grant's life what it adds to the age of the password.
LEMMA GrantsAged ==
    ASSUME TypeOK, GrantsFresh, GrantsInOrder, Tick
    PROVE  GrantsFresh' /\ GrantsInOrder'
<1>1. PICK n \in 0..Len(grants) :
             /\ \A i \in 1..Len(grants) : grants[i].left = 1 <=> i <= n
             /\ Aged(grants) = [i \in 1..(Len(grants) - n) |->
                                   [grants[i + n] EXCEPT !.left = @ - 1]]
  BY AgedGrants
<1>2. /\ grants \in Seq(Grant) /\ Len(grants) \in Nat
      /\ DOMAIN grants = 1..Len(grants)
      /\ \A i \in 1..Len(grants) : grants[i] \in Grant
  BY DEF TypeOK
<1>3. \A g \in Grant : /\ g.to \in Client /\ g.left \in 1..GrantTicks
                       /\ [g EXCEPT !.left = @ - 1].left = g.left - 1
                       /\ [g EXCEPT !.left = @ - 1].to = g.to
  BY DEF Grant
<1>4. DOMAIN grants' = 1..(Len(grants) - n)
  BY <1>1 DEF Tick
<1>5. ASSUME NEW i \in 1..(Len(grants) - n)
      PROVE  /\ i + n \in 1..Len(grants)
             /\ grants'[i].to = grants[i + n].to
             /\ grants'[i].left = grants[i + n].left - 1
  <2>1. i + n \in 1..Len(grants)
    BY <1>2
  <2>2. grants'[i] = [grants[i + n] EXCEPT !.left = @ - 1]
    BY <1>1 DEF Tick
  <2>. QED
    BY <1>2, <1>3, <2>1, <2>2
<1>6. /\ GrantTicks \in Nat
      /\ \A c \in Client : proof[c] \in 0..GrantTicks
      /\ \A c \in Client : proof'[c] = IF proof[c] < GrantTicks THEN proof[c] + 1 ELSE GrantTicks
      /\ held' = held
  BY BoundsAssumption DEF Tick, TypeOK, clients
<1>7. GrantsFresh'
  <2>1. ASSUME NEW i \in 1..(Len(grants) - n), held[grants'[i].to]
        PROVE  grants'[i].left + proof'[grants'[i].to] <= GrantTicks
    <3> DEFINE g == grants[i + n]
    <3>1. /\ grants'[i].to = g.to /\ grants'[i].left = g.left - 1
          /\ g.to \in Client /\ g.left \in 1..GrantTicks
          /\ i + n \in DOMAIN grants
      BY <1>2, <1>3, <1>5
    <3>2. g.left + proof[g.to] <= GrantTicks
      BY <2>1, <3>1 DEF GrantsFresh
    <3> HIDE DEF g
    <3>. QED
      BY <1>6, <3>1, <3>2
  <2>. QED
    BY <1>4, <1>6, <2>1 DEF GrantsFresh
<1>8. GrantsInOrder'
  <2>1. ASSUME NEW i \in 1..(Len(grants) - n), NEW j \in 1..(Len(grants) - n), i <= j
        PROVE  grants'[i].left <= grants'[j].left
    <3>1. i + n <= j + n
      BY <1>2, <2>1
    <3>2. grants[i + n].left <= grants[j + n].left
      BY <1>2, <1>5, <3>1 DEF GrantsInOrder
    <3>3. grants[i + n].left \in Int /\ grants[j + n].left \in Int
      BY <1>2, <1>3, <1>5, BoundsAssumption
    <3>. QED
      BY <1>5, <3>2, <3>3
  <2>. QED
    BY <1>4, <2>1 DEF GrantsInOrder
<1>. QED
  BY <1>7, <1>8

-----------------------------------------------------------------------------
(* The registered agents.                                                   *)

\* The connections that count as an agent's.
Registered == {c \in McpConn : conn[c] \in {"agent", "ending"}}

\* They are finitely many, and the count of them is a number.
LEMMA RegisteredFinite == IsFiniteSet(Registered) /\ Cardinality(Registered) \in Nat
<1>1. Registered \in SUBSET McpConn
  BY DEF Registered
<1>. QED
  BY <1>1, ProcessAssumption, FS_Subset, FS_CardinalityType

\* Nothing about them changes in a step that leaves the connections and the
\* count alone and neither starts nor ends the daemon.
LEMMA AgentsKept ==
    ASSUME NoneWithoutDaemon, AgentsCounted, UNCHANGED <<agentSessions, conn>>,
           Serving => Serving'
    PROVE  NoneWithoutDaemon' /\ AgentsCounted'
BY DEF NoneWithoutDaemon, AgentsCounted

\* Nor in one that opens or closes connections that are not registered.
LEMMA SameRegistered ==
    ASSUME NoneWithoutDaemon, AgentsCounted, UNCHANGED <<stage, agentSessions>>,
           Registered' = Registered,
           Serving \/ \A c \in McpConn : conn'[c] \in {"closed", "refused"}
    PROVE  NoneWithoutDaemon' /\ AgentsCounted'
BY DEF NoneWithoutDaemon, Serving, AgentsCounted, Registered

\* Registering counts a connection that was not counted yet.
LEMMA AgentBegins ==
    ASSUME TypeOK, NoneWithoutDaemon, AgentsCounted, NEW c \in McpConn,
           BeginAgentSession(c)
    PROVE  NoneWithoutDaemon' /\ AgentsCounted'
<1>1. Registered' = Registered \cup {c} /\ UNCHANGED stage /\ Serving
  BY DEF BeginAgentSession, Registered, TypeOK
<1>2. c \in Registered <=> conn[c] = "agent"
  BY DEF BeginAgentSession, Registered
<1>3. Cardinality(Registered') =
         IF c \in Registered THEN Cardinality(Registered) ELSE Cardinality(Registered) + 1
  BY <1>1, RegisteredFinite, FS_AddElement
<1>4. agentSessions = Cardinality(Registered)
  BY DEF AgentsCounted, Registered
<1>5. agentSessions' = Cardinality(Registered')
  BY <1>2, <1>3, <1>4 DEF BeginAgentSession
<1>. QED
  BY <1>1, <1>5 DEF NoneWithoutDaemon, Serving, AgentsCounted, Registered

\* A released connection was counted, so the count is not zero and drops by one.
LEMMA AgentEnds ==
    ASSUME TypeOK, NoneWithoutDaemon, AgentsCounted, NEW c \in McpConn,
           EndAgentSession(c)
    PROVE  NoneWithoutDaemon' /\ AgentsCounted'
<1>1. /\ Registered' = Registered \ {c} /\ c \in Registered
      /\ UNCHANGED stage /\ Serving
  BY DEF EndAgentSession, Registered, TypeOK, NoneWithoutDaemon
<1>2. Cardinality(Registered') = Cardinality(Registered) - 1
  BY <1>1, RegisteredFinite, FS_RemoveElement
<1>3. Cardinality(Registered) \in Nat \ {0}
  BY <1>1, RegisteredFinite, FS_EmptySet
<1>4. agentSessions = Cardinality(Registered)
  BY DEF AgentsCounted, Registered
<1>5. agentSessions' = Cardinality(Registered')
  BY <1>2, <1>3, <1>4 DEF EndAgentSession
<1>. QED
  BY <1>1, <1>5 DEF NoneWithoutDaemon, Serving, AgentsCounted, Registered

\* With every connection closed or refused nobody is registered.
LEMMA NoAgents ==
    ASSUME \A c \in McpConn : conn'[c] \in {"closed", "refused"}, agentSessions' = 0
    PROVE  NoneWithoutDaemon' /\ AgentsCounted'
<1>1. Registered' = {}
  BY DEF Registered
<1>. QED
  BY <1>1, FS_EmptySet DEF NoneWithoutDaemon, AgentsCounted, Registered

-----------------------------------------------------------------------------
(* The invariant.                                                           *)

\* Every step keeps it.
LEMMA InvStep ==
    ASSUME TypeOK, Inv, [Next]_vars
    PROVE  Inv'
<1> USE DEF Inv, Serving
<1>1. ASSUME UNCHANGED <<stage, agentSessions, grants, conn, held, proof>>
      PROVE  Inv'
  BY <1>1, GrantsKept, AgentsKept
<1>2. ASSUME NEW opened \in BOOLEAN, ResetSession(opened), UNCHANGED <<agentSessions, conn>>,
             Serving => Serving'
      PROVE  Inv'
  BY <1>2, GrantsCleared, AgentsKept DEF ResetSession
<1>3. ASSUME NEW c, NEW r, ServedBy(c, r)
      PROVE  Inv'
  BY <1>1, <1>3 DEF ServedBy, clients
<1>4. CASE Probe
  <2>1. PICK c \in Client, r \in Req :
           \/ Refuse(c, r)
           \/ AnswerLocked(c, r)
           \/ UnlockWrong(c, r)
           \/ ConfirmPresenceWrong(c, r)
           \/ Answer(c, r)
    BY <1>4 DEF Probe
  <2>2. CASE Refuse(c, r) \/ AnswerLocked(c, r) \/ UnlockWrong(c, r)
    BY <1>1, <2>2 DEF Refuse, AnswerLocked, UnlockWrong, daemon, clients
  <2>3. CASE ConfirmPresenceWrong(c, r)
    BY <1>1, <1>2, <2>3 DEF ConfirmPresenceWrong, Locks, clients
  <2>4. CASE Answer(c, r)
    BY <1>3, <2>4 DEF Answer
  <2>. QED
    BY <2>1, <2>2, <2>3, <2>4
<1>5. CASE Request1
  <2>1. ASSUME NEW c \in Client, NEW r \in Req,
               \/ Answer(c, r) \/ Edit(c, r) \/ Ingest(c, r) \/ SyncSetup(c, r)
               \/ SetMode(c, r) \/ NearbyListen(c, r) \/ NearbyStop(c, r)
               \/ \E d \in Device : ShareVaultKey(c, r, d)
               \/ \E d \in Device, key \in Key : TrustDevice(c, r, d, key)
        PROVE  Inv'
    BY <1>3, <2>1 DEF Answer, Edit, Ingest, SyncSetup, SetMode, NearbyListen,
                      NearbyStop, ShareVaultKey, TrustDevice
  <2>2. ASSUME NEW c \in Client, NEW r \in Req, ConfirmPresence(c, r)
        PROVE  Inv'
    BY <2>2, GrantIssued, AgentsKept DEF ConfirmPresence
  <2>3. ASSUME NEW c \in Client, NEW r \in Req, Unlock(c, r)
        PROVE  Inv'
    BY <1>2, <2>3 DEF Unlock, Unlocks, clients
  <2>4. ASSUME NEW c \in Client, NEW r \in Req, CreateAccount(c, r)
        PROVE  Inv'
    BY <1>1, <1>2, <2>4 DEF CreateAccount, Unlocks, clients
  <2>5. ASSUME NEW c \in Client, NEW r \in Req, Lock(c, r)
        PROVE  Inv'
    BY <1>2, <2>5 DEF Lock, Locks
  <2>6. ASSUME NEW c \in Client, NEW r \in Req, Shutdown(c, r)
        PROVE  Inv'
    <3>1. Serving'
      BY <2>6 DEF Shutdown, Serving
    <3>. QED
      BY <1>2, <2>6, <3>1 DEF Shutdown, Locks, clients
  <2>. QED
    BY <1>5, <2>1, <2>2, <2>3, <2>4, <2>5, <2>6 DEF Request1
<1>6. CASE McpStep
  <2>1. CASE McpAcquireProxy
    <3>1. Registered' = Registered /\ Serving
      BY <2>1 DEF McpAcquireProxy, Registered, TypeOK, McpConn, Serving
    <3>. QED
      BY <2>1, <3>1, GrantsKept, SameRegistered DEF McpAcquireProxy
  <2>2. CASE McpAcquireDirect
    BY <1>1, <2>2 DEF McpAcquireDirect, daemon
  <2>3. CASE McpExit
    <3>1. Registered' = Registered
      BY <2>3 DEF McpExit, Registered, TypeOK
    <3>2. Serving \/ \A c \in McpConn : conn'[c] \in {"closed", "refused"}
      BY <2>3 DEF McpExit, NoneWithoutDaemon
    <3>. QED
      BY <2>3, <3>1, <3>2, GrantsKept, SameRegistered DEF McpExit, daemon
  <2>4. ASSUME NEW r \in Req, Answer(Proxy, r) \/ AnswerLocked(Proxy, r)
        PROVE  Inv'
    BY <1>1, <1>3, <2>4 DEF Answer, AnswerLocked, daemon, clients
  <2>. QED
    BY <1>6, <2>1, <2>2, <2>3, <2>4 DEF McpStep
<1>7. CASE Background
  <2>1. CASE MaybeAutolock
    BY <1>2, <2>1 DEF MaybeAutolock, Locks, clients
  <2>2. CASE SentinelPoll
    <3>1. Registered' = Registered
      BY <2>2 DEF SentinelPoll, Registered, TypeOK, McpConn
    <3>2. Serving \/ \A c \in McpConn : conn'[c] \in {"closed", "refused"}
      BY <2>2 DEF SentinelPoll, NoneWithoutDaemon, Serving, TypeOK
    <3>. QED
      BY <2>2, <3>1, <3>2, GrantsKept, SameRegistered DEF SentinelPoll, daemon
  <2>3. ASSUME NEW c \in McpConn, BeginAgentSession(c)
        PROVE  Inv'
    BY <2>3, GrantsKept, AgentBegins DEF BeginAgentSession
  <2>4. ASSUME NEW c \in McpConn, EndAgentSession(c)
        PROVE  Inv'
    BY <2>4, GrantsKept, AgentEnds DEF EndAgentSession
  <2>5. CASE Tick
    BY <2>5, GrantsAged, AgentsKept DEF Tick, clients
  <2>. QED
    BY <1>7, <2>1, <2>2, <2>3, <2>4, <2>5 DEF Background
<1>8. CASE Exit
  BY <1>8, GrantsCleared, NoAgents DEF Exit, Locks, ResetSession
<1>9. CASE Spawn
  <2>1. \A c \in McpConn : conn'[c] \in {"closed", "refused"}
    BY <1>9 DEF Spawn, clients, NoneWithoutDaemon, Serving
  <2>. QED
    BY <1>9, <2>1, GrantsCleared, NoAgents DEF Spawn, FreshState
<1>10. CASE DirectChange
  BY <1>1, <1>10 DEF DirectChange, daemon, clients
<1>11. ASSUME NEW c \in Client, NEW r \in Req, UsageError(c, r)
       PROVE  Inv'
  BY <1>1, <1>11 DEF UsageError, clients
<1>12. CASE Fumble
  BY <1>11, <1>12 DEF Fumble, UnlockUnusable, CreateAccountRefused, ConfirmPresenceUnchecked
<1>13. CASE SpawnForeign
  <2>1. Serving => Serving'
    BY <1>13 DEF SpawnForeign, Serving
  <2>. QED
    BY <1>13, <2>1, GrantsKept, AgentsKept DEF SpawnForeign, clients
<1>14. ASSUME NEW c \in Client, ClientExit(c)
       PROVE  Inv'
  <2>1. GrantsFresh'
    <3>1. /\ \A e \in Client : held'[e] => held[e] /\ e # c
          /\ \A e \in Client \ {c} : proof'[e] = proof[e]
          /\ grants' = grants
          /\ \A i \in DOMAIN grants : grants[i].to \in Client
      <4>1. grants \in Seq(Grant) /\ grants' = grants
        BY <1>14 DEF TypeOK, ClientExit, daemon
      <4>2. \A g \in Grant : g.to \in Client
        BY DEF Grant
      <4>3. /\ \A e \in Client : held'[e] => held[e] /\ e # c
            /\ \A e \in Client \ {c} : proof'[e] = proof[e]
        BY <1>14 DEF TypeOK, ClientExit
      <4>. QED
        BY <4>1, <4>2, <4>3
    <3>. QED
      BY <3>1 DEF GrantsFresh
  <2>2. GrantsInOrder'
    BY <1>14 DEF ClientExit, daemon, GrantsInOrder
  <2>. QED
    BY <1>14, <2>1, <2>2, AgentsKept DEF ClientExit, daemon
<1>15. CASE UNCHANGED vars
  BY <1>1, <1>15 DEF vars, daemon, clients
<1>. QED
  BY <1>4, <1>5, <1>6, <1>7, <1>8, <1>9, <1>10, <1>12, <1>13, <1>14,
     <1>15 DEF Next

\* It holds in every reachable state, and so do the types.
THEOREM Invariant == Spec => [](TypeOK /\ Inv)
<1>1. Init => TypeOK /\ Inv
  <2>1. ASSUME Init
        PROVE  TypeOK
    <3>1. grants \in Seq(Grant) /\ Len(grants) <= MaxGrants
      BY <2>1, BoundsAssumption DEF Init
    <3>2. vault \in Vault /\ windows \in Windows
      BY <2>1, BoundsAssumption DEF Init, Vault, Windows, NoWindows
    <3>3. /\ idle \in 0..IdleTicks /\ failures \in 0..(MaxFailures - 1)
          /\ proof \in [Client -> 0..GrantTicks]
      BY <2>1, BoundsAssumption DEF Init
    <3>. QED
      BY <2>1, <3>1, <3>2, <3>3 DEF Init, TypeOK
  <2>2. ASSUME Init
        PROVE  Inv
    <3>1. Registered = {} /\ agentSessions = 0
      BY <2>2 DEF Init, Registered
    <3>2. AgentsCounted
      BY <3>1, FS_EmptySet DEF AgentsCounted, Registered
    <3>. QED
      BY <2>2, <3>2 DEF Init, Inv, GrantsFresh, GrantsInOrder, NoneWithoutDaemon
  <2>. QED
    BY <2>1, <2>2
<1>2. TypeOK /\ Inv /\ [Next]_vars => (TypeOK /\ Inv)'
  BY TypeStep, InvStep DEF Inv
<1>. QED
  BY <1>1, <1>2, PTL DEF Spec

\* BeginAgentSession and AgentSessionGuard::drop keep the daemon's count equal
\* to the registered connections not yet released, for repeats, kills and
\* daemon restarts in any order.
THEOREM AgentsAlwaysCounted == Spec => []AgentsCounted
BY Invariant, PTL DEF Inv

-----------------------------------------------------------------------------
(* The presence check.                                                      *)

\* Whatever marks a step as a process's change is a served request of that
\* process which needs a person and an unlocked vault.
LEMMA ChangesNeedPresence ==
    ASSUME Next, who' # Nobody
    PROVE  \E c \in Client, r \in Req :
              /\ who' = c
              /\ Admitted(c, r) /\ NeedsPresence(r)
              /\ unlocked
<1> DEFINE Marked(c, r) == /\ who' = c
                          /\ Admitted(c, r) /\ NeedsPresence(r)
                          /\ unlocked
<1>1. ASSUME NEW c \in Client, NEW r \in Req, who' = c, ServedBy(c, r),
             \/ r.kind \in EditKinds \cup {"TrustDevice", "SyncSetup",
                                          "ShareVaultToDevice", "NearbyListen"}
             \/ /\ r.wide
                /\ r.kind \in {"QrExport", "NearbyConnect",
                               "SetPairingMode", "SetAgentFillMode"}
      PROVE  Marked(c, r)
  <2>1. NeedsPresence(r)
    BY <1>1 DEF NeedsPresence, PresenceAlways, PresenceWhenWide, EditKinds, ItemWriteKinds
  <2>2. NeedsSession(r)
    BY <1>1 DEF NeedsSession, Sessionless, SessionKinds, PresenceKinds, EditKinds,
                ItemWriteKinds
  <2>. QED
    BY <1>1, <2>1, <2>2 DEF ServedBy
<1>2. ASSUME NEW c \in Client, NEW r \in Req,
             \/ Edit(c, r) \/ SyncSetup(c, r) \/ SetMode(c, r) \/ NearbyListen(c, r)
             \/ \E d \in Device : ShareVaultKey(c, r, d)
             \/ \E d \in Device, key \in Key : TrustDevice(c, r, d, key)
      PROVE  Marked(c, r)
  <2> HIDE DEF Marked
  <2>. QED
    BY <1>1, <1>2 DEF Edit, SyncSetup, SetMode, NearbyListen, ShareVaultKey, TrustDevice
<1> HIDE DEF Marked
<1>3. ~Probe /\ ~Fumble
  BY DEF Probe, Refuse, AnswerLocked, UnlockWrong, ConfirmPresenceWrong, Answer, Fumble,
         UnlockUnusable, CreateAccountRefused, ConfirmPresenceUnchecked, UsageError, Unmarked
<1>4. ~McpStep
  BY DEF McpStep, McpAcquireProxy, McpAcquireDirect, McpExit, Answer, AnswerLocked, Unmarked
<1>5. ~Background
  BY DEF Background, MaybeAutolock, SentinelPoll, BeginAgentSession, EndAgentSession,
         Tick, Unmarked
<1>6. ~(Exit \/ Spawn \/ SpawnForeign \/ DirectChange \/ \E c \in Client : ClientExit(c))
  BY DEF Exit, Spawn, SpawnForeign, DirectChange, ClientExit, Unmarked
<1>7. ASSUME NEW c \in Client, NEW r \in Req
      PROVE  ~(\/ Answer(c, r) \/ Ingest(c, r) \/ NearbyStop(c, r) \/ ConfirmPresence(c, r)
               \/ Unlock(c, r) \/ CreateAccount(c, r) \/ Lock(c, r) \/ Shutdown(c, r))
  BY DEF Answer, Ingest, NearbyStop, ConfirmPresence, Unlock, CreateAccount, Lock,
         Shutdown, Unmarked
<1>8. Request1
  BY <1>3, <1>4, <1>5, <1>6 DEF Next
<1>9. \E c \in Client, r \in Req : Marked(c, r)
  BY <1>2, <1>7, <1>8 DEF Request1
<1>. QED
  BY <1>9 DEF Marked

\* A step's change under an agent session comes from a process whose password
\* is younger than a grant's life.
LEMMA PresenceStep ==
    ASSUME TypeOK, Inv, Next, who' # Nobody, agentSessions > 0
    PROVE  who' \in Client /\ proof[who'] < GrantTicks
<1>1. PICK c \in Client, r \in Req :
             /\ who' = c
             /\ Admitted(c, r) /\ NeedsPresence(r)
             /\ unlocked
  BY ChangesNeedPresence
<1>2. Granted(c)
  BY <1>1 DEF Admitted, PresenceRefused
<1>3. PICK i \in DOMAIN grants : held[c] /\ grants[i].to = c
  BY <1>2 DEF Granted
<1>4. grants[i].left + proof[c] <= GrantTicks
  BY <1>3 DEF Inv, GrantsFresh
<1>5. grants[i].left \in 1..GrantTicks /\ proof[c] \in 0..GrantTicks
  <2>1. grants \in Seq(Grant) /\ proof[c] \in 0..GrantTicks
    BY DEF TypeOK
  <2>2. \A g \in Grant : g.left \in 1..GrantTicks
    BY DEF Grant
  <2>. QED
    BY <2>1, <2>2
<1>6. proof[c] < GrantTicks
  BY <1>4, <1>5, BoundsAssumption
<1>. QED
  BY <1>1, <1>6

\* handle_with, presence_granted and State::lock together: while an agent
\* session is registered, every change of items, vaults, attachments, trust,
\* enrolment or key shares, and every window opened, was asked for by a process
\* that itself gave the master password in this unlock, less than a grant's
\* life ago, for any processes, requests, timeouts and limits.
THEOREM PresenceAlwaysEnforced == Spec => PresenceEnforced
<1>1. TypeOK /\ Inv /\ [Next]_vars
         => [who' # Nobody /\ agentSessions > 0
                => who' \in Client /\ proof[who'] < GrantTicks]_vars
  BY PresenceStep
<1>. QED
  BY <1>1, Invariant, PTL DEF Spec, PresenceEnforced

=============================================================================
