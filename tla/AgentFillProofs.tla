-------------------------- MODULE AgentFillProofs --------------------------
(***************************************************************************)
(* Proofs about AgentFill, for any number of MCP servers, any items and    *)
(* any deadlines.  One inductive invariant carries them: the types, the    *)
(* intent standing under its window (IntentCovered), and a busy extension  *)
(* holding the intent that is taken (BusyHeld).                            *)
(***************************************************************************)
EXTENDS AgentFill, TLAPS

\* While the extension redeems an intent, a taken pending intent is that one.
BusyHeld == job # NoJob /\ Taken => intent.held

Inv == TypeOK /\ IntentCovered /\ BusyHeld

DaemonTypeOK ==
    /\ unlocked \in BOOLEAN
    /\ idle \in 0..IdleTicks
    /\ window \in FillWindow \cup {NoWindow}
    /\ intent \in PendingFill \cup {NoIntent}

-----------------------------------------------------------------------------
(* Types.                                                                   *)

\* What the sweep leaves is a window or none, an intent or none.
LEMMA SweptTypes ==
    ASSUME TypeOK
    PROVE  /\ SweptWindow \in FillWindow \cup {NoWindow}
           /\ SweptIntent \in PendingFill \cup {NoIntent}
BY DEF TypeOK, SweptWindow, SweptIntent, Lapsed

\* A request that is served leaves the daemon's state well typed.
LEMMA ServeTypes ==
    ASSUME TypeOK,
           NEW win \in FillWindow \cup {NoWindow},
           NEW pending \in PendingFill \cup {NoIntent},
           NEW active \in BOOLEAN,
           Serve(win, pending, active)
    PROVE  DaemonTypeOK'
BY TicksAssumption DEF TypeOK, DaemonTypeOK, Serve

\* So does a request that only sweeps.
LEMMA SweepTypes ==
    ASSUME TypeOK, NEW active \in BOOLEAN,
           Serve(SweptWindow, SweptIntent, active)
    PROVE  DaemonTypeOK'
BY SweptTypes, ServeTypes

\* A fresh window and a fresh intent are well typed.
LEMMA FreshTypes ==
    /\ \A items \in SUBSET Item : OpenWindow(items) \in FillWindow
    /\ \A c \in Client, i \in Item, o \in BOOLEAN :
          NewIntent(c, i, o) \in PendingFill
BY TicksAssumption DEF OpenWindow, NewIntent, FillWindow, PendingFill

\* Moving a redemption on keeps its type.
LEMMA GotoTypes ==
    ASSUME TypeOK, job # NoJob,
           NEW stage \in {"probe", "fetch", "inject", "filled", "refused", "notify"},
           Goto(stage)
    PROVE  job' \in Redemption
BY DEF TypeOK, Goto, Redemption

\* What a poll makes of a call is a call or none.
LEMMA AfterPollTypes ==
    ASSUME NEW k \in FillCall, NEW status
    PROVE  AfterPoll(k, status) \in FillCall \cup {NoCall}
<1>1. Observed(k, status) \in FillCall
  BY DEF Observed, FillCall
<1>2. \A m \in FillCall : EndAttempt(m) \in FillCall \cup {NoCall}
  BY DEF EndAttempt, FillCall
<1>. QED
  BY <1>1, <1>2 DEF AfterPoll

\* Arming keeps the types.
LEMMA ArmTypes ==
    ASSUME TypeOK, NEW c \in Client, NEW i \in Item, NEW o \in BOOLEAN,
           NEW n \in 0..1, ArmFillIntent(c, i, o, n)
    PROVE  TypeOK'
<1>1. DaemonTypeOK'
  BY SweptTypes, FreshTypes, ServeTypes DEF ArmFillIntent
<1>2. [item |-> i, overwrite |-> o, attempt |-> n, sawTaken |-> FALSE,
       left |-> IntentTicks + GraceTicks, again |-> FALSE] \in FillCall
  BY TicksAssumption DEF FillCall
<1>3. call' \in [Client -> FillCall \cup {NoCall}]
  BY <1>2 DEF TypeOK, ArmFillIntent
<1>. QED
  BY <1>1, <1>3 DEF TypeOK, DaemonTypeOK, ArmFillIntent

\* A countdown stays within its bound.
LEMMA CountdownBounds == \A m \in Nat : \A n \in 0..m : Countdown(n) \in 0..m
BY DEF Countdown

\* Time passing keeps the types.
LEMMA TickTypes ==
    ASSUME TypeOK, Tick
    PROVE  TypeOK'
<1>1. window' \in FillWindow \cup {NoWindow}
  BY CountdownBounds, TicksAssumption DEF Tick, TypeOK, FillWindow
<1>2. intent' \in PendingFill \cup {NoIntent}
  BY CountdownBounds, TicksAssumption DEF Tick, TypeOK, PendingFill
<1>3. ASSUME NEW c \in Client, call[c] # NoCall
      PROVE  [call[c] EXCEPT !.left = Countdown(@)] \in FillCall
  BY CountdownBounds, <1>3, TicksAssumption DEF TypeOK, FillCall
<1>4. call' \in [Client -> FillCall \cup {NoCall}]
  BY <1>3 DEF Tick
<1>5. idle' \in 0..IdleTicks /\ armed' \in 0..(WindowTicks + ReplyTicks)
  BY CountdownBounds, TicksAssumption DEF Tick, TypeOK
<1>. QED
  BY <1>1, <1>2, <1>4, <1>5 DEF Tick, TypeOK

\* Every step keeps the types.
LEMMA TypeStep ==
    ASSUME TypeOK, [Next]_vars
    PROVE  TypeOK'
<1>1. CASE SessionStep
  <2>1. ASSUME NEW win \in FillWindow \cup {NoWindow}, SetAgentFillMode(win)
        PROVE  TypeOK'
    BY <2>1, ServeTypes
    DEF SetAgentFillMode, TypeOK, DaemonTypeOK, agents
  <2>2. CASE Unlock
    BY <2>2, TicksAssumption DEF Unlock, TypeOK, agents
  <2>3. CASE Lock
    <3>1. idle' \in 0..IdleTicks
      BY <2>3, TicksAssumption DEF Lock, DropSession
    <3>. QED
      BY <2>3, <3>1 DEF Lock, DropSession, TypeOK, agents
  <2>4. CASE MaybeAutolock
    <3>1. idle' \in 0..IdleTicks
      BY <2>4, TicksAssumption DEF MaybeAutolock, DropSession
    <3>. QED
      BY <2>4, <3>1 DEF MaybeAutolock, DropSession, TypeOK, agents
  <2>5. CASE ActiveRequest
    BY <2>5, SweepTypes DEF ActiveRequest, TypeOK, DaemonTypeOK, agents
  <2>6. CASE Status
    BY <2>6, SweepTypes DEF Status, TypeOK, DaemonTypeOK, agents
  <2>. QED
    BY <1>1, <2>1, <2>2, <2>3, <2>4, <2>5, <2>6, FreshTypes DEF SessionStep
<1>2. ASSUME NEW c \in Client, McpStep(c)
      PROVE  TypeOK'
  <2>1. CASE \E i \in Item, o \in BOOLEAN : FillLogin(c, i, o)
    BY <2>1, ArmTypes DEF FillLogin
  <2>2. CASE ReArm(c)
    BY <2>2, ArmTypes DEF ReArm, TypeOK, FillCall
  <2>3. CASE ReArmRefused(c)
    <3>1. DaemonTypeOK'
      BY <2>3, SweepTypes DEF ReArmRefused, TypeOK
    <3>. QED
      BY <2>3, <3>1 DEF ReArmRefused, TypeOK, DaemonTypeOK
  <2>4. CASE PollFillOutcome(c)
    <3>1. DaemonTypeOK'
      BY <2>4, SweepTypes DEF PollFillOutcome
    <3>2. call[c] \in FillCall
      BY <2>4 DEF PollFillOutcome, TypeOK
    <3>3. AfterPoll(call[c], FillStatus) \in FillCall \cup {NoCall}
      BY <3>2, AfterPollTypes
    <3>. QED
      BY <2>4, <3>1, <3>3 DEF PollFillOutcome, TypeOK, DaemonTypeOK
  <2>. QED
    BY <1>2, <2>1, <2>2, <2>3, <2>4 DEF McpStep
<1>3. CASE ExtensionStep
  <2>1. ASSUME NEW late \in 0..ReplyTicks, NoteStatus(late)
        PROVE  TypeOK'
    <3>1. DaemonTypeOK'
      BY <2>1, SweepTypes DEF NoteStatus
    <3>2. armed' \in 0..(WindowTicks + ReplyTicks)
      BY <2>1, SweptTypes, TicksAssumption DEF NoteStatus, FillWindow
    <3>. QED
      BY <2>1, <3>1, <3>2 DEF NoteStatus, TypeOK, DaemonTypeOK
  <2>2. CASE TakeNothing
    <3>1. DaemonTypeOK'
      BY <2>2, SweepTypes DEF TakeNothing
    <3>. QED
      BY <2>2, <3>1, TicksAssumption DEF TakeNothing, TypeOK, DaemonTypeOK
  <2>3. ASSUME NEW d \in BOOLEAN, TakeFillIntent(d)
        PROVE  TypeOK'
    <3>1. SweptIntent \in PendingFill
      BY <2>3, SweptTypes DEF TakeFillIntent, Takeable
    <3>2. [SweptIntent EXCEPT !.taken = TRUE, !.held = d] \in PendingFill
      BY <3>1 DEF PendingFill
    <3>3. DaemonTypeOK'
      BY <2>3, <3>2, SweptTypes, ServeTypes DEF TakeFillIntent
    <3>4. job' \in Redemption \cup {NoJob}
      BY <2>3, <3>1 DEF TakeFillIntent, Redemption, PendingFill
    <3>. QED
      BY <2>3, <3>3, <3>4 DEF TakeFillIntent, TypeOK, DaemonTypeOK
  <2>4. CASE Probe
    BY <2>4, GotoTypes DEF Probe, At, TypeOK
  <2>5. CASE FetchCredential
    <3>1. DaemonTypeOK'
      BY <2>5, SweepTypes DEF FetchCredential, TypeOK
    <3>2. job' \in Redemption
      BY <2>5, GotoTypes DEF FetchCredential, At
    <3>. QED
      BY <2>5, <3>1, <3>2 DEF FetchCredential, TypeOK, DaemonTypeOK
  <2>6. CASE InjectFill
    BY <2>6, GotoTypes DEF InjectFill, At, TypeOK
  <2>7. CASE InjectRefused
    BY <2>7, GotoTypes DEF InjectRefused, At, TypeOK
  <2>8. CASE ReportFillOutcome
    <3>1. job # NoJob /\ job.stage \in {"filled", "refused"}
      BY <2>8 DEF ReportFillOutcome, At
    <3>2. Credited(job.item) =>
             [SweptIntent EXCEPT !.report = job.stage] \in PendingFill
      BY <3>1, SweptTypes DEF Credited, PendingFill
    <3>3. DaemonTypeOK'
      BY <2>8, <3>2, SweptTypes, ServeTypes DEF ReportFillOutcome, TypeOK
    <3>4. job' \in Redemption
      BY <2>8, <3>1, GotoTypes DEF ReportFillOutcome
    <3>. QED
      BY <2>8, <3>3, <3>4 DEF ReportFillOutcome, TypeOK, DaemonTypeOK
  <2>9. CASE Notify
    <3>1. DaemonTypeOK'
      BY <2>9, SweepTypes DEF Notify, TypeOK
    <3>. QED
      BY <2>9, <3>1 DEF Notify, TypeOK, DaemonTypeOK
  <2>10. CASE HostFails
    <3>1. job' \in Redemption \cup {NoJob}
      BY <2>10, GotoTypes DEF HostFails, At
    <3>. QED
      BY <2>10, <3>1 DEF HostFails, TypeOK
  <2>11. CASE WorkerStops
    BY <2>11, TicksAssumption DEF WorkerStops, TypeOK
  <2>. QED
    BY <1>3, <2>1, <2>2, <2>3, <2>4, <2>5, <2>6, <2>7, <2>8, <2>9, <2>10, <2>11
    DEF ExtensionStep
<1>4. CASE UserTypes \/ PageCleared
  BY <1>4 DEF UserTypes, PageCleared, TypeOK
<1>5. CASE Tick
  BY <1>5, TickTypes
<1>6. CASE UNCHANGED vars
  BY <1>6 DEF vars, TypeOK
<1>. QED
  BY <1>1, <1>2, <1>3, <1>4, <1>5, <1>6 DEF Next

-----------------------------------------------------------------------------
(* The intent stands under its window.                                      *)

\* A request that leaves the swept window, and at most an intent for the same
\* item as the swept one, keeps the intent covered.
LEMMA ServeCovered ==
    ASSUME IntentCovered, NEW pending, NEW active,
           Serve(SweptWindow, pending, active),
           pending # NoIntent =>
               SweptIntent # NoIntent /\ pending.item = SweptIntent.item
    PROVE  IntentCovered'
BY DEF IntentCovered, Serve, SweptWindow, SweptIntent, Lapsed

\* So does arming, which asks for a window that covers the item.
LEMMA ArmCovered ==
    ASSUME NEW c \in Client, NEW i \in Item, NEW o, NEW n,
           ArmFillIntent(c, i, o, n)
    PROVE  IntentCovered'
BY DEF ArmFillIntent, Covers, Serve, NewIntent, IntentCovered

\* Every step keeps the intent under its window.
LEMMA CoveredStep ==
    ASSUME TypeOK, IntentCovered, [Next]_vars
    PROVE  IntentCovered'
<1>1. CASE SessionStep
  <2>1. ASSUME NEW win, SetAgentFillMode(win)
        PROVE  IntentCovered'
    BY <2>1 DEF SetAgentFillMode, Serve, IntentCovered
  <2>2. CASE Unlock \/ Lock \/ MaybeAutolock
    BY <2>2 DEF Unlock, Lock, MaybeAutolock, DropSession, IntentCovered
  <2>3. CASE ActiveRequest \/ Status
    BY <2>3, ServeCovered DEF ActiveRequest, Status
  <2>. QED
    BY <1>1, <2>1, <2>2, <2>3 DEF SessionStep
<1>2. ASSUME NEW c \in Client, McpStep(c)
      PROVE  IntentCovered'
  <2>1. CASE \E i \in Item, o \in BOOLEAN : FillLogin(c, i, o)
    BY <2>1, ArmCovered DEF FillLogin
  <2>2. CASE ReArm(c)
    BY <2>2, ArmCovered DEF ReArm, TypeOK, FillCall
  <2>3. CASE ReArmRefused(c) \/ PollFillOutcome(c)
    BY <2>3, ServeCovered DEF ReArmRefused, PollFillOutcome
  <2>. QED
    BY <1>2, <2>1, <2>2, <2>3 DEF McpStep
<1>3. CASE ExtensionStep
  <2>1. CASE (\E late \in 0..ReplyTicks : NoteStatus(late)) \/ TakeNothing \/ FetchCredential \/ Notify
    BY <2>1, ServeCovered DEF NoteStatus, TakeNothing, FetchCredential, Notify
  <2>2. ASSUME NEW d \in BOOLEAN, TakeFillIntent(d)
        PROVE  IntentCovered'
    <3>1. SweptIntent \in PendingFill
      BY <2>2, SweptTypes DEF TakeFillIntent, Takeable
    <3>2. [SweptIntent EXCEPT !.taken = TRUE, !.held = d].item = SweptIntent.item
      BY <3>1 DEF PendingFill
    <3>. QED
      BY <2>2, <3>1, <3>2, ServeCovered DEF TakeFillIntent, Takeable
  <2>3. CASE ReportFillOutcome
    <3>1. Credited(job.item) =>
             /\ SweptIntent # NoIntent
             /\ [SweptIntent EXCEPT !.report = job.stage].item = SweptIntent.item
      BY SweptTypes DEF Credited, PendingFill
    <3>. QED
      BY <2>3, <3>1, ServeCovered DEF ReportFillOutcome
  <2>4. CASE Probe \/ InjectFill \/ InjectRefused \/ HostFails \/ WorkerStops
    BY <2>4
    DEF Probe, InjectFill, InjectRefused, HostFails, WorkerStops, IntentCovered
  <2>. QED
    BY <1>3, <2>1, <2>2, <2>3, <2>4 DEF ExtensionStep
<1>4. CASE UserTypes \/ PageCleared
  BY <1>4 DEF UserTypes, PageCleared, IntentCovered
<1>5. CASE Tick
  <2>1. intent # NoIntent => intent'.item = intent.item
    BY <1>5 DEF Tick, TypeOK, PendingFill
  <2>2. window # NoWindow => window'.items = window.items
    BY <1>5 DEF Tick, TypeOK, FillWindow
  <2>3. window # NoWindow => window' \in FillWindow
    BY <1>5, CountdownBounds, TicksAssumption DEF Tick, TypeOK, FillWindow
  <2>. QED
    BY <1>5, <2>1, <2>2, <2>3, SentinelAssumption DEF Tick, IntentCovered
<1>6. CASE UNCHANGED vars
  BY <1>6 DEF vars, IntentCovered
<1>. QED
  BY <1>1, <1>2, <1>3, <1>4, <1>5, <1>6 DEF Next

-----------------------------------------------------------------------------
(* A busy extension holds the intent that is taken.                         *)

\* A step that leaves the intent alone or drops it, and starts no redemption,
\* keeps BusyHeld.
LEMMA KeepHeld ==
    ASSUME BusyHeld, intent' \in {intent, NoIntent}, job = NoJob => job' = NoJob
    PROVE  BusyHeld'
BY DEF BusyHeld, Taken

\* A request that leaves the swept intent leaves it alone or drops it.
LEMMA SweepKeeps ==
    ASSUME NEW win, NEW active, Serve(win, SweptIntent, active)
    PROVE  intent' \in {intent, NoIntent}
BY DEF Serve, SweptIntent

\* Every step keeps BusyHeld.
LEMMA HeldStep ==
    ASSUME TypeOK, BusyHeld, [Next]_vars
    PROVE  BusyHeld'
<1>1. CASE SessionStep
  <2>1. job' = job
    BY <1>1 DEF SessionStep, Unlock, Lock, MaybeAutolock, ActiveRequest, Status,
                SetAgentFillMode, agents
  <2>2. intent' \in {intent, NoIntent}
    <3>1. ASSUME NEW win, SetAgentFillMode(win)
          PROVE  intent' = NoIntent
      BY <3>1 DEF SetAgentFillMode, Serve
    <3>2. CASE ActiveRequest \/ Status
      BY <3>2, SweepKeeps DEF ActiveRequest, Status
    <3>3. CASE Unlock \/ Lock \/ MaybeAutolock
      BY <3>3 DEF Unlock, Lock, MaybeAutolock, DropSession
    <3>. QED
      BY <1>1, <3>1, <3>2, <3>3 DEF SessionStep
  <2>. QED
    BY <2>1, <2>2, KeepHeld
<1>2. ASSUME NEW c \in Client, McpStep(c)
      PROVE  BusyHeld'
  <2>1. ASSUME NEW i, NEW o, NEW n, ArmFillIntent(c, i, o, n)
        PROVE  BusyHeld'
    BY <2>1 DEF ArmFillIntent, Serve, NewIntent, BusyHeld, Taken
  <2>2. CASE ReArmRefused(c) \/ PollFillOutcome(c)
    BY <2>2, SweepKeeps, KeepHeld DEF ReArmRefused, PollFillOutcome
  <2>. QED
    BY <1>2, <2>1, <2>2 DEF McpStep, FillLogin, ReArm
<1>3. CASE ExtensionStep
  <2>1. CASE (\E late \in 0..ReplyTicks : NoteStatus(late)) \/ TakeNothing
    BY <2>1, SweepKeeps, KeepHeld DEF NoteStatus, TakeNothing
  <2>2. ASSUME NEW d \in BOOLEAN, TakeFillIntent(d)
        PROVE  BusyHeld'
    <3>1. SweptIntent \in PendingFill
      BY <2>2, SweptTypes DEF TakeFillIntent, Takeable
    <3>2. [SweptIntent EXCEPT !.taken = TRUE, !.held = d].held = d
      BY <3>1 DEF PendingFill
    <3>3. intent'.held = d
      BY <2>2, <3>2 DEF TakeFillIntent, Serve
    <3>4. CASE d
      BY <3>3, <3>4 DEF BusyHeld
    <3>5. CASE ~d
      BY <2>2, <3>5 DEF TakeFillIntent, BusyHeld
    <3>. QED
      BY <3>4, <3>5
  <2>3. CASE FetchCredential \/ Notify
    BY <2>3, SweepKeeps, KeepHeld DEF FetchCredential, Notify, At
  <2>4. CASE ReportFillOutcome
    <3>1. job # NoJob
      BY <2>4 DEF ReportFillOutcome, At
    <3>2. CASE Credited(job.item)
      <4>1. intent \in PendingFill /\ SweptIntent = intent /\ intent.taken
        BY <3>2, SweptTypes DEF Credited, SweptIntent
      <4>2. [SweptIntent EXCEPT !.report = job.stage].held = intent.held
        BY <4>1 DEF PendingFill
      <4>3. intent'.held = intent.held
        BY <2>4, <3>2, <4>2 DEF ReportFillOutcome, Serve
      <4>4. Taken /\ intent.held
        BY <3>1, <4>1, SentinelAssumption DEF BusyHeld, Taken
      <4>. QED
        BY <4>3, <4>4 DEF BusyHeld
    <3>3. CASE ~Credited(job.item)
      BY <2>4, <3>1, <3>3, SweepKeeps, KeepHeld DEF ReportFillOutcome
    <3>. QED
      BY <3>2, <3>3
  <2>5. CASE Probe \/ InjectFill \/ InjectRefused \/ HostFails \/ WorkerStops
    BY <2>5, KeepHeld DEF Probe, InjectFill, InjectRefused, HostFails, WorkerStops, At
  <2>. QED
    BY <1>3, <2>1, <2>2, <2>3, <2>4, <2>5 DEF ExtensionStep
<1>4. CASE UserTypes \/ PageCleared
  BY <1>4, KeepHeld DEF UserTypes, PageCleared
<1>5. CASE Tick
  <2>1. CASE intent = NoIntent
    BY <1>5, <2>1, KeepHeld DEF Tick
  <2>2. CASE intent # NoIntent
    <3>1. intent'.taken = intent.taken /\ intent'.held = intent.held
      BY <1>5, <2>2 DEF Tick, TypeOK, PendingFill
    <3>. QED
      BY <1>5, <2>2, <3>1 DEF Tick, BusyHeld, Taken
  <2>. QED
    BY <2>1, <2>2
<1>6. CASE UNCHANGED vars
  BY <1>6, KeepHeld DEF vars
<1>. QED
  BY <1>1, <1>2, <1>3, <1>4, <1>5, <1>6 DEF Next

-----------------------------------------------------------------------------
(* Theorems.                                                                *)

\* The inductive invariant holds in every behaviour.
THEOREM Invariance == Spec => []Inv
<1>1. Init => Inv
  <2>. SUFFICES ASSUME Init PROVE Inv
    OBVIOUS
  <2>1. idle \in 0..IdleTicks /\ armed \in 0..(WindowTicks + ReplyTicks)
    BY TicksAssumption DEF Init
  <2>2. unlocked \in BOOLEAN /\ page \in {"empty", "typed", "filled"}
    BY Zenon DEF Init
  <2>3. /\ window \in FillWindow \cup {NoWindow}
        /\ intent \in PendingFill \cup {NoIntent}
        /\ job \in Redemption \cup {NoJob}
        /\ call \in [Client -> FillCall \cup {NoCall}]
    BY Zenon DEF Init
  <2>4. IntentCovered /\ BusyHeld
    BY Zenon DEF Init, IntentCovered, BusyHeld, Taken
  <2>. QED
    BY <2>1, <2>2, <2>3, <2>4 DEF Inv, TypeOK
<1>2. Inv /\ [Next]_vars => Inv'
  BY TypeStep, CoveredStep, HeldStep DEF Inv
<1>. QED
  BY <1>1, <1>2, PTL DEF Spec

\* Every deadline, the window, the intent, the calls and the redemption keep
\* their types.
THEOREM TypeCorrect == Spec => []TypeOK
<1>1. Inv => TypeOK
  BY DEF Inv
<1>. QED
  BY <1>1, Invariance, PTL

\* Closing, re-opening, lapsing and locking take the intent with the window.
THEOREM Consent == Spec => []IntentCovered
<1>1. Inv => IntentCovered
  BY DEF Inv
<1>. QED
  BY <1>1, Invariance, PTL

\* No intent is handed out after its window lapsed, was closed or replaced, or
\* after it expired itself.
THEOREM TakesInsideWindow == Spec => TakenWhileArmed
<1>. DEFINE Armed == /\ unlocked
                     /\ window # NoWindow
                     /\ window.left > 0
                     /\ intent # NoIntent
                     /\ intent.left > 0
                     /\ intent.item \in window.items
<1>1. ASSUME Inv, [Next]_vars, ~Taken, Taken'
      PROVE  Armed
  <2>1. ASSUME intent' \in {intent, NoIntent}
        PROVE  FALSE
    BY <1>1, <2>1 DEF Taken
  <2>2. ASSUME NEW c, NEW i, NEW o, NEW n, ArmFillIntent(c, i, o, n)
        PROVE  FALSE
    BY <1>1, <2>2 DEF ArmFillIntent, Serve, NewIntent, Taken
  <2>3. ASSUME NEW d \in BOOLEAN, TakeFillIntent(d)
        PROVE  Armed
    <3>1. unlocked /\ ~Lapsed /\ intent # NoIntent /\ intent.left > 0
      BY <2>3 DEF TakeFillIntent, Takeable, SweptIntent
    <3>2. window # NoWindow /\ intent.item \in window.items
      BY <1>1, <3>1 DEF Inv, IntentCovered
    <3>3. window.left > 0
      BY <1>1, <3>1, <3>2, TicksAssumption DEF Inv, TypeOK, FillWindow, Lapsed
    <3>. QED
      BY <3>1, <3>2, <3>3
  <2>4. CASE SessionStep
    <3>1. ASSUME NEW win, SetAgentFillMode(win)
          PROVE  intent' = NoIntent
      BY <3>1 DEF SetAgentFillMode, Serve
    <3>2. CASE ActiveRequest \/ Status
      BY <2>1, <3>2, SweepKeeps DEF ActiveRequest, Status
    <3>3. CASE Unlock \/ Lock \/ MaybeAutolock
      BY <2>1, <3>3 DEF Unlock, Lock, MaybeAutolock, DropSession
    <3>. QED
      BY <2>1, <2>4, <3>1, <3>2, <3>3 DEF SessionStep
  <2>5. ASSUME NEW c \in Client, McpStep(c)
        PROVE  FALSE
    <3>1. CASE ReArmRefused(c) \/ PollFillOutcome(c)
      BY <2>1, <3>1, SweepKeeps DEF ReArmRefused, PollFillOutcome
    <3>. QED
      BY <2>2, <2>5, <3>1 DEF McpStep, FillLogin, ReArm
  <2>6. CASE ExtensionStep
    <3>1. CASE (\E late \in 0..ReplyTicks : NoteStatus(late)) \/ TakeNothing \/ FetchCredential \/ Notify
      BY <2>1, <3>1, SweepKeeps DEF NoteStatus, TakeNothing, FetchCredential, Notify
    <3>2. CASE ReportFillOutcome
      <4>1. CASE Credited(job.item)
        BY <1>1, <4>1 DEF Credited, SweptIntent, Taken
      <4>2. CASE ~Credited(job.item)
        BY <2>1, <3>2, <4>2, SweepKeeps DEF ReportFillOutcome
      <4>. QED
        BY <4>1, <4>2
    <3>3. CASE Probe \/ InjectFill \/ InjectRefused \/ HostFails \/ WorkerStops
      BY <2>1, <3>3 DEF Probe, InjectFill, InjectRefused, HostFails, WorkerStops
    <3>. QED
      BY <2>3, <2>6, <3>1, <3>2, <3>3 DEF ExtensionStep
  <2>7. CASE UserTypes \/ PageCleared
    BY <2>1, <2>7 DEF UserTypes, PageCleared
  <2>8. CASE Tick
    BY <1>1, <2>8 DEF Tick, Taken, Inv, TypeOK, PendingFill
  <2>9. CASE UNCHANGED vars
    BY <2>1, <2>9 DEF vars
  <2>. QED
    BY <1>1, <2>4, <2>5, <2>6, <2>7, <2>8, <2>9 DEF Next
<1>2. Inv /\ [Next]_vars => [~Taken /\ Taken' => Armed]_vars
  BY <1>1
<1>. QED
  BY <1>2, Invariance, PTL DEF Spec, TakenWhileArmed

\* A redemption's report lands on the intent it took, never on a successor
\* that names the same item.
THEOREM ReportsOwn == Spec => OwnReport
<1>1. ASSUME Inv, [Next]_vars, ~Reported, Reported'
      PROVE  intent.held
  <2>1. ASSUME intent' \in {intent, NoIntent}
        PROVE  FALSE
    BY <1>1, <2>1 DEF Reported
  <2>2. ASSUME NEW c, NEW i, NEW o, NEW n, ArmFillIntent(c, i, o, n)
        PROVE  FALSE
    BY <1>1, <2>2 DEF ArmFillIntent, Serve, NewIntent, Reported
  <2>3. ASSUME NEW d \in BOOLEAN, TakeFillIntent(d)
        PROVE  FALSE
    <3>1. /\ intent # NoIntent
          /\ intent' = [intent EXCEPT !.taken = TRUE, !.held = d]
      BY <2>3 DEF TakeFillIntent, Takeable, SweptIntent, Serve
    <3>2. intent'.report = intent.report
      BY <1>1, <3>1 DEF Inv, TypeOK, PendingFill
    <3>. QED
      BY <1>1, <3>1, <3>2 DEF Reported
  <2>4. ASSUME ReportFillOutcome, Credited(job.item)
        PROVE  intent.held
    <3>1. job # NoJob
      BY <2>4 DEF ReportFillOutcome, At
    <3>2. Taken
      BY <2>4 DEF Credited, SweptIntent, Taken
    <3>. QED
      BY <1>1, <3>1, <3>2 DEF Inv, BusyHeld
  <2>5. CASE SessionStep
    <3>1. ASSUME NEW win, SetAgentFillMode(win)
          PROVE  intent' = NoIntent
      BY <3>1 DEF SetAgentFillMode, Serve
    <3>2. CASE ActiveRequest \/ Status
      BY <2>1, <3>2, SweepKeeps DEF ActiveRequest, Status
    <3>3. CASE Unlock \/ Lock \/ MaybeAutolock
      BY <2>1, <3>3 DEF Unlock, Lock, MaybeAutolock, DropSession
    <3>. QED
      BY <2>1, <2>5, <3>1, <3>2, <3>3 DEF SessionStep
  <2>6. ASSUME NEW c \in Client, McpStep(c)
        PROVE  FALSE
    <3>1. CASE ReArmRefused(c) \/ PollFillOutcome(c)
      BY <2>1, <3>1, SweepKeeps DEF ReArmRefused, PollFillOutcome
    <3>. QED
      BY <2>2, <2>6, <3>1 DEF McpStep, FillLogin, ReArm
  <2>7. CASE ExtensionStep
    <3>1. CASE (\E late \in 0..ReplyTicks : NoteStatus(late)) \/ TakeNothing \/ FetchCredential \/ Notify
      BY <2>1, <3>1, SweepKeeps DEF NoteStatus, TakeNothing, FetchCredential, Notify
    <3>2. CASE ReportFillOutcome /\ ~Credited(job.item)
      BY <2>1, <3>2, SweepKeeps DEF ReportFillOutcome
    <3>3. CASE Probe \/ InjectFill \/ InjectRefused \/ HostFails \/ WorkerStops
      BY <2>1, <3>3 DEF Probe, InjectFill, InjectRefused, HostFails, WorkerStops
    <3>. QED
      BY <2>3, <2>4, <2>7, <3>1, <3>2, <3>3 DEF ExtensionStep
  <2>8. CASE UserTypes \/ PageCleared
    BY <2>1, <2>8 DEF UserTypes, PageCleared
  <2>9. CASE Tick
    BY <1>1, <2>9 DEF Tick, Reported, Inv, TypeOK, PendingFill
  <2>10. CASE UNCHANGED vars
    BY <2>1, <2>10 DEF vars
  <2>. QED
    BY <1>1, <2>5, <2>6, <2>7, <2>8, <2>9, <2>10 DEF Next
<1>2. Inv /\ [Next]_vars => [~Reported /\ Reported' => intent.held]_vars
  BY <1>1
<1>. QED
  BY <1>2, Invariance, PTL DEF Spec, OwnReport

\* Whatever the person types, between the probe and the fill too, is left
\* alone unless the redemption's call asked to overwrite it.
THEOREM TypedIsKept == Spec => NeverClobbers
<1>1. ASSUME [Next]_vars, page = "typed", page' = "filled"
      PROVE  job # NoJob /\ job.overwrite
  <2>1. page' # page
    BY <1>1
  <2>2. ~SessionStep
    BY <2>1 DEF SessionStep, Unlock, Lock, MaybeAutolock, ActiveRequest, Status,
       SetAgentFillMode, DropSession, Serve, agents
  <2>3. \A c \in Client : ~McpStep(c)
    BY <2>1 DEF McpStep, FillLogin, ReArm, ReArmRefused, PollFillOutcome, ArmFillIntent
  <2>4. ExtensionStep => InjectFill
    BY <2>1 DEF ExtensionStep, NoteStatus, TakeNothing, TakeFillIntent, Probe, FetchCredential,
       InjectRefused, ReportFillOutcome, Notify, HostFails, WorkerStops
  <2>5. ~UserTypes /\ ~PageCleared /\ ~Tick
    BY <1>1 DEF UserTypes, PageCleared, Tick
  <2>6. InjectFill
    BY <1>1, <2>1, <2>2, <2>3, <2>4, <2>5 DEF Next, vars
  <2>. QED
    BY <1>1, <2>6 DEF InjectFill, At, Fillable
<1>2. [Next]_vars => [page = "typed" /\ page' = "filled" => job # NoJob /\ job.overwrite]_vars
  BY <1>1
<1>. QED
  BY <1>2, PTL DEF Spec, NeverClobbers

=============================================================================
