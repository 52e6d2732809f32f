-------------------------------- MODULE Cli --------------------------------
(***************************************************************************)
(* One invocation of the command line after another, beside a daemon that  *)
(* starts, locks, unlocks and exits, and an agent that comes and goes, in  *)
(* between any two of its steps (daemonctl.rs, unlock.rs, commands/).      *)
(*                                                                         *)
(* An invocation decides on its route once, from one Status probe.  What   *)
(* the probe said may be stale at every later request.  Two invocations    *)
(* share nothing but the daemon, so one at a time shows what there is.     *)
(* The daemon's own rules are in DaemonSession; here it is what its        *)
(* answers depend on.                                                      *)
(***************************************************************************)
EXTENDS Commands, Naturals

VARIABLES
    served,   \* the daemon: "down", "locked" (or serving another profile), "unlocked"
    agent,    \* an agent is connected: changes need a person
    granted,  \* the daemon holds a live presence grant of this invocation
    run       \* the invocation

cliVars == <<served, agent, granted, run>>

Ended == {"ok", "failed", "killed"}

Stage == {"none", "asking", "confirming", "again", "session"} \cup Ended

CliTypeOK ==
    /\ served \in {"down", "locked", "unlocked"}
    /\ agent \in BOOLEAN
    /\ granted \in BOOLEAN
    /\ run.cmd \in Command
    /\ run.stage \in Stage

\* A process that has just been started: what it was given, what it has done.
Started(c, password, noDaemon) ==
    [cmd |-> c, password |-> password, noDaemon |-> noDaemon,
     stage |-> "session", left |-> <<>>,
     changed |-> <<>>,    \* the changes made, in order
     told |-> FALSE,      \* a secret was printed, written or given to a child
     recorded |-> 0,      \* audit records of its reads
     missed |-> FALSE,    \* an audit append failed: ignored everywhere (.ok())
     noted |-> FALSE,     \* it printed a note instead of doing anything
     lost |-> FALSE,      \* a request was carried out and its answer lost
     short |-> FALSE]     \* a listing left out what could not be read

\* No invocation under way.
NoRun == [Started("generate", FALSE, FALSE) EXCEPT !.stage = "none"]

CliInit ==
    /\ served = "down" /\ agent = FALSE /\ granted = FALSE
    /\ run = NoRun

Failed(r) == [r EXCEPT !.stage = "failed", !.left = <<>>]

Noted(r) == [r EXCEPT !.stage = "ok", !.noted = TRUE]

\* The next step, or a clean exit after the last.
Advanced(r) ==
    LET rest == Tail(r.left)
    IN  IF rest = <<>> THEN [r EXCEPT !.stage = "ok", !.left = rest]
        ELSE [r EXCEPT !.stage = IF r.stage = "session" THEN "session" ELSE "asking",
                       !.left = rest]

-----------------------------------------------------------------------------
(* The start: main, the child guard, the route.                             *)

\* acquire_password: the environment, stdin, a prompt on a terminal; a process
\* nobody talks to has none of them.
AcquirePassword(r) == r.password

\* unlock(): needs the password; a wrong one fails like none.
OpenSession(r, steps) ==
    IF r.cmd \in NeedsPassword /\ ~AcquirePassword(r) THEN Failed(r)
    ELSE [r EXCEPT !.left = steps]

ViaDaemon(r, steps) == [r EXCEPT !.stage = "asking", !.left = steps]

\* route_inner: the daemon only if it is unlocked for this profile.
RouteProxy(r) == ~r.noDaemon /\ served = "unlocked"

Dispatch(r) ==
    CASE r.cmd \in Routed /\ RouteProxy(r) -> ViaDaemon(r, Proxied[r.cmd])
      [] r.cmd \in DaemonOnly /\ ~RouteProxy(r) -> Noted(r)
      [] OTHER -> OpenSession(r, Direct[r.cmd])

\* run: inside a run_with_secrets child only the harmless commands run.
Launch(c, password, noDaemon, child) ==
    LET r == Started(c, password, noDaemon)
    IN  /\ run.stage = "none"
        /\ c \notin DaemonCommands
        /\ run' = IF child /\ c \notin AllowedInMcpChild THEN Failed(r) ELSE Dispatch(r)
        /\ granted' = FALSE
        /\ UNCHANGED <<served, agent>>

\* ensure_started
EnsureStarted == served' = IF served = "down" THEN "locked" ELSE served

\* daemon start, stop and status, unlock and lock: to the daemon or nowhere.
LaunchDaemonCommand(c, password) ==
    LET r == Started(c, password, FALSE)
    IN  /\ run.stage = "none"
        /\ c \in DaemonCommands
        /\ granted' = FALSE
        /\ UNCHANGED agent
        /\ \/ /\ c = "daemon start"
              /\ EnsureStarted
              /\ run' = Noted(r)
           \/ /\ c = "unlock"
              /\ EnsureStarted
              /\ run' = IF AcquirePassword(r) THEN ViaDaemon(r, Proxied[c]) ELSE Failed(r)
           \/ /\ c \in {"daemon stop", "daemon status", "lock"}
              /\ run' = IF served = "down" THEN Noted(r) ELSE ViaDaemon(r, Proxied[c])
              /\ UNCHANGED served

-----------------------------------------------------------------------------
(* Through the daemon: call, and the one resend after a confirmation.       *)

Sending == run.stage \in {"asking", "again"}

Current == Head(run.left)

HasSession(r) == r.kind \in SessionKinds \cup PresenceKinds \/ served = "unlocked"

\* The connection is gone with the daemon: the transport error ends the command;
\* for a shutdown it is what was asked for.
SendFails ==
    /\ Sending /\ served = "down"
    /\ run' = IF Current.kind = "Shutdown" THEN Noted(run) ELSE Failed(run)
    /\ UNCHANGED <<served, agent, granted>>

\* Locked since the probe. check_error turns it into a failure, except in the
\* loops of ssh list, which go on to the next vault or key.
SendLocked ==
    /\ Sending /\ served = "locked" /\ ~HasSession(Current)
    /\ run' = IF run.cmd = "ssh list" /\ Current.kind # "ListVaults"
              THEN [Advanced(run) EXCEPT !.short = TRUE] ELSE Failed(run)
    /\ UNCHANGED <<served, agent, granted>>

NeedsConfirming == agent /\ NeedsPresence(Current) /\ ~granted

\* PresenceRequired: ask once; on the resend it is an error like any other.
SendRefused ==
    /\ Sending /\ served # "down" /\ NeedsConfirming
    /\ HasSession(Current)
    /\ run' = IF run.stage = "asking" THEN [run EXCEPT !.stage = "confirming"] ELSE Failed(run)
    /\ UNCHANGED <<served, agent, granted>>

\* confirm_presence
Confirm ==
    /\ run.stage = "confirming"
    /\ \/ /\ AcquirePassword(run) /\ served = "unlocked"
          /\ granted' = TRUE
          /\ run' = [run EXCEPT !.stage = "again"]
       \/ /\ run' = Failed(run)
          /\ UNCHANGED granted
    /\ UNCHANGED <<served, agent>>

ServedAfter(kind) ==
    CASE kind = "Unlock" -> "unlocked"
      [] kind = "Lock" /\ served = "unlocked" -> "locked"
      [] kind = "Shutdown" -> "down"
      [] OTHER -> served

\* The engine carries the request out; hiccup: its audit append fails.
Handled(r, hiccup) ==
    [run EXCEPT !.changed = @ \o EngineDoes(r),
                !.recorded = IF EngineLogs(r) /\ ~hiccup THEN @ + 1 ELSE @,
                !.missed = @ \/ (EngineLogs(r) /\ hiccup)]

Serve(hiccup) ==
    LET r == Current
    IN  /\ Sending /\ served # "down" /\ HasSession(r) /\ ~NeedsConfirming
        /\ run' = Advanced([Handled(r, hiccup) EXCEPT !.told = @ \/ r.tells])
        /\ served' = ServedAfter(r.kind)
        /\ granted' = (granted /\ r.kind \notin {"Lock", "Shutdown"})
        /\ UNCHANGED agent

\* The daemon exits when the request is done and before the answer is out.  A
\* command does not send again: it cannot know.
ServeUnanswered(hiccup) ==
    LET r == Current
    IN  /\ Sending /\ served # "down" /\ HasSession(r) /\ ~NeedsConfirming
        /\ r.kind # "Shutdown"
        /\ run' = [Failed(Handled(r, hiccup)) EXCEPT !.lost = TRUE]
        /\ served' = "down" /\ agent' = FALSE /\ granted' = FALSE

\* No such item, an ambiguous title, a bad payload; or the person said no.
ServeError ==
    /\ Sending /\ served # "down"
    /\ Current.kind \notin {"Status", "Lock", "Shutdown"}
    /\ run' = Failed(run)
    /\ UNCHANGED <<served, agent, granted>>

-----------------------------------------------------------------------------
(* On a session of its own.                                                 *)

\* refuse_if_daemon_running, once, before the confirmation.
RestoreAllowed == run.noDaemon \/ served # "unlocked"

DirectStep(hiccup) ==
    LET s == Current
    IN  /\ run.stage = "session"
        /\ (run.cmd = "backup restore" /\ s.act = "look") => RestoreAllowed
        /\ run' = Advanced([run EXCEPT
                        !.changed = IF s.act = "do" THEN Append(@, s.what) ELSE @,
                        !.told = @ \/ s.act = "tell",
                        !.recorded = IF s.act = "log" /\ ~hiccup THEN @ + 1 ELSE @,
                        !.missed = @ \/ (s.act = "log" /\ hiccup)])
        /\ UNCHANGED <<served, agent, granted>>

\* A record that cannot be written fails nothing; anything else does.
DirectError ==
    /\ run.stage = "session" /\ Current.act # "log"
    /\ run' = Failed(run)
    /\ UNCHANGED <<served, agent, granted>>

Kill ==
    /\ run.stage \notin Ended \cup {"none"}
    /\ run' = [run EXCEPT !.stage = "killed", !.left = <<>>]
    /\ UNCHANGED <<served, agent, granted>>

\* Its exit status is read and the next command can be typed.
Reap ==
    /\ run.stage \in Ended
    /\ run' = NoRun
    /\ UNCHANGED <<served, agent, granted>>

-----------------------------------------------------------------------------
(* Meanwhile.                                                               *)

\* Another client, the idle timer or the reaper.
DaemonMoves ==
    /\ served' \in CASE served = "down" -> {"locked"}
                     [] served = "locked" -> {"unlocked", "down"}
                     [] served = "unlocked" -> {"locked", "down"}
    /\ granted' = (granted /\ served' = "unlocked")
    /\ agent' = (agent /\ served' # "down")
    /\ UNCHANGED run

AgentMoves ==
    /\ served # "down"
    /\ agent' = ~agent
    /\ UNCHANGED <<served, granted, run>>

GrantLapses ==
    /\ granted
    /\ granted' = FALSE
    /\ UNCHANGED <<served, agent, run>>

CliNext ==
    \/ \E c \in Command, password, noDaemon, child \in BOOLEAN :
            Launch(c, password, noDaemon, child)
    \/ \E c \in DaemonCommands, password \in BOOLEAN : LaunchDaemonCommand(c, password)
    \/ SendFails \/ SendLocked \/ SendRefused \/ Confirm
    \/ \E hiccup \in BOOLEAN : Serve(hiccup) \/ ServeUnanswered(hiccup) \/ DirectStep(hiccup)
    \/ ServeError \/ DirectError \/ Kill \/ Reap
    \/ DaemonMoves \/ AgentMoves \/ GrantLapses

-----------------------------------------------------------------------------

\* Commands whose changes are several, or are reported on after they are made.
Several ==
    {"init", "sync pull", "sync adopt", "sync nearby --listen", "sync nearby --connect",
     "sync qr import"}

\* What became of a command, whatever the daemon did between its probe and its
\* requests.  A clean exit: exactly the command's changes were made, once and in
\* order, by whichever route, it told what it is for, and its reads are in the
\* audit log as often as on the direct route.  A failure: no change was made,
\* unless the answer was lost or the command makes several; and none twice.  A
\* secret is told after its record is made (an export is recorded when written).
CommandOutcome ==
    LET r == run IN
    /\ r.stage = "ok" /\ ~r.noted =>
            /\ r.changed = ChangesOf(r.cmd)
            /\ r.told = TellsOf(r.cmd)
            /\ r.missed \/ r.recorded = LogsOf(r.cmd)
    /\ r.stage = "failed" =>
            r.changed = <<>> \/ r.lost \/ r.cmd \in Several
    /\ r.changed \in {SubSeq(ChangesOf(r.cmd), 1, n) : n \in 0..Len(ChangesOf(r.cmd))}
    /\ r.told /\ r.cmd \notin ExportCommands => r.missed \/ r.recorded = LogsOf(r.cmd)
    /\ r.noted => r.changed = <<>> /\ ~r.told

=============================================================================
