------------------------------ MODULE MCDaemon ------------------------------
(***************************************************************************)
(* Three views of the programs around the daemon; a behaviour shows one of *)
(* them throughout, the others stay in their initial state.                *)
(*                                                                         *)
(*   "session"  DaemonSession with the company the daemon has: users, or,  *)
(*              once they have gone, what runs by itself and programs that *)
(*              probe (their requests are refused, fail to authenticate or *)
(*              only look) or fumble (they also get usage errors without   *)
(*              reaching a session)                                        *)
(*   "cli"      Cli: one command after the other, every command            *)
(*   "tools"    AgentTools: the agent's calls and their children           *)
(***************************************************************************)
EXTENDS DaemonSession, Cli, AgentTools

CONSTANTS
    p1, k1,
    Company         \* what may be left when the users go: "probes", "fumbles"

MCSurface == (p1 :> "desktop") @@ (k1 :> "cli")

\* One env-set value inside the other, a third that the field is changed to,
\* and one too short to be redacted.
MCContent ==
    {[set |-> "A" :> <<1, 2, 3>> @@ "B" :> <<2, 3>>, field |-> <<4, 5>>],
     [set |-> "A" :> <<9>>, field |-> <<1, 2, 3>>]}

MCMaster == <<6, 7>>

\* Two programs that send everything the desktop application does.
MCDesktops == (p1 :> "desktop") @@ (k1 :> "desktop")

VARIABLES part, company

allVars == <<part, company, vars, cliVars, toolVars>>

Leave ==
    /\ company = "users"
    /\ company' \in Company
    /\ UNCHANGED vars

MCInit ==
    /\ part \in {"session", "cli", "tools"}
    /\ company = "users"
    /\ Init /\ CliInit /\ ToolsInit
    /\ part # "session" => account = "none"
    /\ part # "tools" => toolRoute = "proxy" /\ content = CHOOSE c \in Content : TRUE

SessionNext ==
    \/ company = "users" /\ Next /\ UNCHANGED company
    \/ company # "users" /\ (Probe \/ Background) /\ UNCHANGED company
    \/ company # "probes" /\ Fumble /\ UNCHANGED company
    \/ Leave

MCNext ==
    \/ part = "session" /\ SessionNext /\ UNCHANGED <<part, cliVars, toolVars>>
    \/ part = "cli" /\ CliNext /\ UNCHANGED <<part, company, vars, toolVars>>
    \/ part = "tools" /\ ToolsNext /\ UNCHANGED <<part, company, vars, cliVars>>

MCSpec == MCInit /\ [][MCNext]_allVars /\ Fairness /\ ToolsFairness

\* Requests that are refused, answered as locked, fail to authenticate or only
\* look never hold the vault open: when the last user has gone the vault locks
\* and stays locked, although programs go on asking for what the presence check
\* or the profile check refuses, go on guessing the password, and the agent's
\* sentinel stays connected (counts_as_activity, response_counts_as_activity,
\* maybe_autolock).  Usage errors are not among them: see FailingNeverHoldsOpen.
ProbingNeverHoldsOpen == company = "probes" ~> []~unlocked

\* The same of every request that fails without reaching a session, usage errors
\* included: a process that fails over and over cannot hold the vault open.  The
\* comments on response_counts_as_activity and in handle_with say so; the code
\* lets an Unlock without a usable key, a CreateAccount where there is an account
\* and a ConfirmPresence that cannot be checked reset the idle timer.
FailingNeverHoldsOpen == company = "fumbles" ~> []~unlocked

=============================================================================
