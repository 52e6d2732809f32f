----------------------------- MODULE AgentFill -----------------------------
(***************************************************************************)
(* Agent-triggered autofill: three programs around one pending intent.     *)
(*                                                                         *)
(*   MCP server   crates/lp-cli/src/mcp/backend.rs   arms an intent, polls *)
(*   daemon       crates/lp-daemon/src/engine.rs     arm window and intent *)
(*   extension    apps/extension/agentfill.js        takes, fills, reports *)
(*                                                                         *)
(* The daemon handles a request under its state mutex, so a request is one *)
(* action; nothing waits inside it.  The MCP server and the extension keep *)
(* state between their requests, and that is where they interleave with    *)
(* each other, with the clock, and with the person who locks, unlocks and  *)
(* opens or closes the window.                                             *)
(*                                                                         *)
(* A deadline is the number of ticks left until it, an idle time the ticks *)
(* elapsed since; Tick moves all of them.  One request reads the clock     *)
(* once.  There is one extension: one browser, with one redemption at a    *)
(* time.  The presence check in front of SetAgentFillMode, the audit log   *)
(* and the origin match are not in this module: requests they refuse       *)
(* change nothing here.                                                    *)
(***************************************************************************)
EXTENDS Integers

CONSTANTS
    Client,       \* MCP servers, each with one fill_login call at a time
    Item,         \* login items that match the page's origin
    WindowTicks,  \* AGENT_FILL_WINDOW
    IntentTicks,  \* FILL_INTENT_TTL
    GraceTicks,   \* FILL_POLL_GRACE
    IdleTicks,    \* the auto-lock timeout
    ReplyTicks,   \* how late the extension may read a status reply
    NoWindow, NoIntent, NoCall, NoJob

VARIABLES
    unlocked,     \* State.session is held
    idle,         \* ticks since State.last_activity
    window,       \* State.agent_fill
    intent,       \* State.pending_fill
    call,         \* call[c]: the fill_login loop of MCP server c
    armed,        \* the extension's armedUntilMs, in ticks left; 0 disarmed
    job,          \* the redemption the extension is busy with
    page          \* the password field of the page

vars == <<unlocked, idle, window, intent, call, armed, job, page>>

agents == <<call, armed, job, page>>

-----------------------------------------------------------------------------

FillWindow == [left : 0..WindowTicks, items : SUBSET Item]

\* by and held identify the intent for the properties and gate nothing: who
\* armed it, and whether the reply to its take reached the extension.
PendingFill ==
    [item : Item, by : Client, overwrite : BOOLEAN, left : 0..IntentTicks,
     taken : BOOLEAN, held : BOOLEAN, report : {"none", "filled", "refused"}]

\* again: the attempt has ended and the one re-arm is due.
FillCall ==
    [item : Item, overwrite : BOOLEAN, attempt : 0..1, sawTaken : BOOLEAN,
     left : 0..(IntentTicks + GraceTicks), again : BOOLEAN]

\* A job at "filled" or "refused" is about to report that outcome.
Redemption ==
    [item : Item, overwrite : BOOLEAN,
     stage : {"probe", "fetch", "inject", "filled", "refused", "notify"}]

ASSUME TicksAssumption ==
    /\ WindowTicks \in Nat \ {0}
    /\ IntentTicks \in Nat \ {0}
    /\ GraceTicks \in Nat
    /\ IdleTicks \in Nat \ {0}
    /\ ReplyTicks \in Nat

ASSUME SentinelAssumption ==
    /\ NoWindow \notin FillWindow
    /\ NoIntent \notin PendingFill
    /\ NoCall \notin FillCall
    /\ NoJob \notin Redemption

TypeOK ==
    /\ unlocked \in BOOLEAN
    /\ idle \in 0..IdleTicks
    /\ window \in FillWindow \cup {NoWindow}
    /\ intent \in PendingFill \cup {NoIntent}
    /\ call \in [Client -> FillCall \cup {NoCall}]
    /\ armed \in 0..(WindowTicks + ReplyTicks)
    /\ job \in Redemption \cup {NoJob}
    /\ page \in {"empty", "typed", "filled"}

Init ==
    /\ unlocked = FALSE
    /\ idle = 0
    /\ window = NoWindow
    /\ intent = NoIntent
    /\ call = [c \in Client |-> NoCall]
    /\ armed = 0
    /\ job = NoJob
    /\ page = "empty"

-----------------------------------------------------------------------------
(* The daemon: what handle_with does around every request.                  *)

Lapsed == window # NoWindow /\ window.left = 0

\* sweep_agent_fill runs before a request is dispatched.
SweptWindow == IF Lapsed THEN NoWindow ELSE window

\* Mutant of SweptIntent: the sweep clears the window and forgets the intent.
SweptIntentKept == intent

SweptIntent == IF Lapsed THEN NoIntent ELSE intent

\* Answer a request: it leaves this window and intent behind, and resets the
\* idle timer if it was an active request that was served.
Serve(win, pending, active) ==
    /\ window' = win
    /\ intent' = pending
    /\ idle' = IF active THEN 0 ELSE idle
    /\ UNCHANGED unlocked

\* The idle timer is not read while locked; it stays at zero until the unlock,
\* which resets it.
DropSession ==
    /\ unlocked' = FALSE
    /\ window' = NoWindow
    /\ intent' = NoIntent
    /\ idle' = 0

\* A second unlock drops what the first one left.
Unlock ==
    /\ unlocked' = TRUE
    /\ window' = NoWindow
    /\ intent' = NoIntent
    /\ idle' = 0
    /\ UNCHANGED agents

Lock == DropSession /\ UNCHANGED agents

MaybeAutolock ==
    /\ unlocked
    /\ idle >= IdleTicks
    /\ DropSession
    /\ UNCHANGED agents

\* Mutant of SetAgentFillMode: a new scope keeps the intent of the old one.
SetAgentFillModeOnly(win) ==
    /\ unlocked
    /\ Serve(win, IF win = NoWindow THEN NoIntent ELSE SweptIntent, TRUE)
    /\ UNCHANGED agents

SetAgentFillMode(win) ==
    /\ unlocked
    /\ Serve(win, NoIntent, TRUE)
    /\ UNCHANGED agents

\* Any other request of a CLI, GUI or MCP client on the open vault.
ActiveRequest ==
    /\ unlocked
    /\ Serve(SweptWindow, SweptIntent, TRUE)
    /\ UNCHANGED agents

\* Mutant of Status: every status counts as activity.
StatusTouches == Serve(SweptWindow, SweptIntent, unlocked) /\ UNCHANGED agents

\* A plain Status, which a GUI keeps sending to watch the lock.
Status == Serve(SweptWindow, SweptIntent, FALSE) /\ UNCHANGED agents

OpenWindow(items) == [left |-> WindowTicks, items |-> items]

-----------------------------------------------------------------------------
(* The MCP server's fill_login: arm, then poll until it is answered.        *)

Covers(i) == SweptWindow # NoWindow /\ i \in SweptWindow.items

NewIntent(c, i, overwrite) ==
    [item |-> i, by |-> c, overwrite |-> overwrite, left |-> IntentTicks,
     taken |-> FALSE, held |-> FALSE, report |-> "none"]

\* handle_arm_fill_intent replaces whatever intent was pending.
ArmFillIntent(c, i, overwrite, attempt) ==
    /\ unlocked
    /\ Covers(i)
    /\ Serve(SweptWindow, NewIntent(c, i, overwrite), TRUE)
    /\ call' = [call EXCEPT ![c] =
                   [item |-> i, overwrite |-> overwrite, attempt |-> attempt,
                    sawTaken |-> FALSE, left |-> IntentTicks + GraceTicks,
                    again |-> FALSE]]
    /\ UNCHANGED <<armed, job, page>>

\* A first arm that is refused is an ActiveRequest and starts no call.
FillLogin(c, i, overwrite) ==
    /\ call[c] = NoCall
    /\ ArmFillIntent(c, i, overwrite, 0)

ReArm(c) ==
    /\ call[c] # NoCall
    /\ call[c].again
    /\ ArmFillIntent(c, call[c].item, call[c].overwrite, 1)

\* The window has closed, the vault has locked, or the item no longer resolves.
ReArmRefused(c) ==
    /\ call[c] # NoCall
    /\ call[c].again
    /\ Serve(SweptWindow, SweptIntent, unlocked)
    /\ call' = [call EXCEPT ![c] = NoCall]
    /\ UNCHANGED <<armed, job, page>>

\* What PollFillOutcome answers; a report outlives the intent's deadline.
IntentStatus(p) ==
    CASE p.report # "none"                  -> "reported"
      [] p.report = "none" /\ p.left = 0    -> "expired"
      [] p.report = "none" /\ p.left > 0    ->
            IF p.taken THEN "taken" ELSE "pending"

FillStatus ==
    CASE ~unlocked                            -> "locked"
      [] unlocked /\ SweptIntent = NoIntent   -> "none"
      [] unlocked /\ SweptIntent # NoIntent   -> IntentStatus(SweptIntent)

\* Mutant of EndAttempt: every attempt that was not taken is tried again.
EndAttemptRetry(k) ==
    IF ~k.sawTaken THEN [k EXCEPT !.again = TRUE] ELSE NoCall

\* The attempt ended without an answer: re-arm once, unless a take was seen.
EndAttempt(k) ==
    IF ~k.sawTaken /\ k.attempt = 0 THEN [k EXCEPT !.again = TRUE] ELSE NoCall

Observed(k, status) == [k EXCEPT !.sawTaken = @ \/ status = "taken"]

AfterPoll(k, status) ==
    CASE status \in {"locked", "reported"} -> NoCall
      [] status \in {"none", "expired"}    -> EndAttempt(k)
      [] OTHER -> IF k.left = 0 THEN EndAttempt(Observed(k, status))
                  ELSE Observed(k, status)

PollFillOutcome(c) ==
    /\ call[c] # NoCall
    /\ ~call[c].again
    /\ Serve(SweptWindow, SweptIntent, FALSE)
    /\ call' = [call EXCEPT ![c] = AfterPoll(call[c], FillStatus)]
    /\ UNCHANGED <<armed, job, page>>

-----------------------------------------------------------------------------
(* The extension: poll while armed, redeem one intent at a time.            *)

\* A status reply, from the heartbeat, the popup or the poll loop itself.  It
\* says how long the window had left; read late, the deadline computed from it
\* is later than the window's own.
NoteStatus(late) ==
    /\ Serve(SweptWindow, SweptIntent, FALSE)
    /\ armed' = IF unlocked /\ SweptWindow # NoWindow
                THEN SweptWindow.left + late ELSE 0
    /\ UNCHANGED <<call, job, page>>

Takeable ==
    /\ unlocked
    /\ SweptIntent # NoIntent
    /\ ~SweptIntent.taken
    /\ SweptIntent.left > 0

\* The daemon's take does not look at the window: the sweep has.
TakeFillIntent(delivered) ==
    /\ armed > 0
    /\ job = NoJob
    /\ Takeable
    /\ Serve(SweptWindow,
             [SweptIntent EXCEPT !.taken = TRUE, !.held = delivered], FALSE)
    /\ job' = IF delivered
              THEN [item |-> SweptIntent.item,
                    overwrite |-> SweptIntent.overwrite, stage |-> "probe"]
              ELSE NoJob
    /\ UNCHANGED <<call, armed, page>>

\* Nothing to take, or a locked daemon, which stops the polling.
TakeNothing ==
    /\ armed > 0
    /\ job = NoJob
    /\ ~Takeable
    /\ Serve(SweptWindow, SweptIntent, FALSE)
    /\ armed' = IF unlocked THEN armed ELSE 0
    /\ UNCHANGED <<call, job, page>>

At(stage) == job # NoJob /\ job.stage = stage

Goto(stage) == job' = [job EXCEPT !.stage = stage]

Fillable == job.overwrite \/ page = "empty"

\* Resolve the tab, check the page permission and the field, before anything
\* secret is asked for.
Probe ==
    /\ At("probe")
    /\ \/ Fillable /\ Goto("fetch")
       \/ Goto("refused")
    /\ UNCHANGED <<unlocked, idle, window, intent, call, armed, page>>

FetchCredential ==
    /\ At("fetch")
    /\ Serve(SweptWindow, SweptIntent, unlocked)
    /\ \/ unlocked /\ Goto("inject")
       \/ Goto("refused")
    /\ UNCHANGED <<call, armed, page>>

\* Mutant of InjectFill: the probe's answer is trusted.
InjectFillUnchecked ==
    /\ At("inject")
    /\ page' = "filled"
    /\ Goto("filled")
    /\ UNCHANGED <<unlocked, idle, window, intent, call, armed>>

\* The field is looked at again, in the page and in the step that fills it.
InjectFill ==
    /\ At("inject")
    /\ Fillable
    /\ page' = "filled"
    /\ Goto("filled")
    /\ UNCHANGED <<unlocked, idle, window, intent, call, armed>>

InjectRefused ==
    /\ At("inject")
    /\ Goto("refused")
    /\ UNCHANGED <<unlocked, idle, window, intent, call, armed, page>>

\* Mutant of Credited: a report is put on an intent nobody has taken.
CreditedUntaken(i) ==
    /\ unlocked
    /\ SweptIntent # NoIntent
    /\ SweptIntent.item = i

\* record_fill_report: which pending intent a report about item i is put on.
Credited(i) ==
    /\ unlocked
    /\ SweptIntent # NoIntent
    /\ SweptIntent.taken
    /\ SweptIntent.item = i

ReportFillOutcome ==
    /\ At("filled") \/ At("refused")
    /\ Serve(SweptWindow,
             IF Credited(job.item)
             THEN [SweptIntent EXCEPT !.report = job.stage] ELSE SweptIntent,
             unlocked)
    /\ Goto("notify")
    /\ UNCHANGED <<call, armed, page>>

\* notify looks the item's title up with one more request.
Notify ==
    /\ At("notify")
    /\ Serve(SweptWindow, SweptIntent, unlocked)
    /\ job' = NoJob
    /\ UNCHANGED <<call, armed, page>>

\* hostRequest rejects: the native host is gone or too slow.
HostFails ==
    /\ \/ At("fetch") /\ Goto("refused")
       \/ (At("filled") \/ At("refused")) /\ Goto("notify")
       \/ At("notify") /\ job' = NoJob
    /\ UNCHANGED <<unlocked, idle, window, intent, call, armed, page>>

\* The browser kills the service worker, or it gives up on the host.
WorkerStops ==
    /\ armed' = 0
    /\ job' = NoJob
    /\ UNCHANGED <<unlocked, idle, window, intent, call, page>>

-----------------------------------------------------------------------------
(* The person at the page, and time.                                        *)

UserTypes ==
    /\ page = "empty"
    /\ page' = "typed"
    /\ UNCHANGED <<unlocked, idle, window, intent, call, armed, job>>

PageCleared ==
    /\ page # "empty"
    /\ page' = "empty"
    /\ UNCHANGED <<unlocked, idle, window, intent, call, armed, job>>

Countdown(n) == IF n > 0 THEN n - 1 ELSE 0

Tick ==
    /\ idle' = IF unlocked /\ idle < IdleTicks THEN idle + 1 ELSE idle
    /\ window' = IF window = NoWindow THEN NoWindow
                 ELSE [window EXCEPT !.left = Countdown(@)]
    /\ intent' = IF intent = NoIntent THEN NoIntent
                 ELSE [intent EXCEPT !.left = Countdown(@)]
    /\ call' = [c \in Client |->
                   IF call[c] = NoCall THEN NoCall
                   ELSE [call[c] EXCEPT !.left = Countdown(@)]]
    /\ armed' = Countdown(armed)
    /\ UNCHANGED <<unlocked, job, page>>

-----------------------------------------------------------------------------

SessionStep ==
    \/ Unlock \/ Lock \/ MaybeAutolock \/ ActiveRequest \/ Status
    \/ SetAgentFillMode(NoWindow)
    \/ \E items \in (SUBSET Item) \ {{}} : SetAgentFillMode(OpenWindow(items))

McpStep(c) ==
    \/ \E i \in Item, overwrite \in BOOLEAN : FillLogin(c, i, overwrite)
    \/ ReArm(c) \/ ReArmRefused(c) \/ PollFillOutcome(c)

ExtensionStep ==
    \/ \E late \in 0..ReplyTicks : NoteStatus(late)
    \/ TakeNothing
    \/ \E delivered \in BOOLEAN : TakeFillIntent(delivered)
    \/ Probe \/ FetchCredential \/ InjectFill \/ InjectRefused
    \/ ReportFillOutcome \/ Notify \/ HostFails \/ WorkerStops

Next ==
    \/ SessionStep
    \/ \E c \in Client : McpStep(c)
    \/ ExtensionStep
    \/ UserTypes \/ PageCleared
    \/ Tick

Spec == Init /\ [][Next]_vars

\* Time passes, the reaper thread wakes, and an MCP server in its loop goes on
\* polling.  Nobody has to use the vault, and the extension may stop anywhere.
Fairness ==
    /\ WF_vars(Tick)
    /\ WF_vars(MaybeAutolock)
    /\ \A c \in Client :
          WF_vars(ReArm(c) \/ ReArmRefused(c) \/ PollFillOutcome(c))

FairSpec == Spec /\ Fairness

-----------------------------------------------------------------------------
(* Properties.                                                              *)

\* An intent is only ever pending on an open vault, for an item the person put
\* in the window it stands under: closing, re-opening, lapsing and locking all
\* take the intent with the window (State::lock, set_agent_fill_mode,
\* clear_agent_fill).
IntentCovered ==
    intent # NoIntent =>
        /\ unlocked
        /\ window # NoWindow
        /\ intent.item \in window.items

Taken == intent # NoIntent /\ intent.taken

\* An intent is handed out only while the window that covers it is open and
\* the intent itself has not expired, although take_fill_intent looks at
\* neither the window nor its items.
TakenWhileArmed ==
    [][~Taken /\ Taken' =>
          /\ unlocked
          /\ window # NoWindow
          /\ window.left > 0
          /\ intent # NoIntent
          /\ intent.left > 0
          /\ intent.item \in window.items]_vars

Reported == intent # NoIntent /\ intent.report # "none"

\* A report is put on the intent that the reporting redemption took, never on
\* a later intent for the same item, although record_fill_report only compares
\* item ids: an extension that is busy takes nothing else.
OwnReport == [][~Reported /\ Reported' => intent.held]_vars

\* What the person typed into the field is not overwritten unless the call
\* asked for it, even when they type between the probe and the fill.
NeverClobbers ==
    [][page = "typed" /\ page' = "filled" => job # NoJob /\ job.overwrite]_vars

\* Every fill_login call is answered: the loop re-arms at most once.
EventuallyAnswered == \A c \in Client : call[c] # NoCall ~> call[c] = NoCall

\* The comment on Backend::fill_login: "It never re-arms after a take".  Here
\* of a take whose reply the extension has, so that it may be filling.
ReArmsOnlyUntaken ==
    \A c \in Client :
        call[c] # NoCall /\ call[c].again =>
            ~(Taken /\ intent.held /\ intent.by = c)

=============================================================================
