---------------------------- MODULE MCAgentFill ----------------------------
(***************************************************************************)
(* AgentFill with one bit more: whether anybody is still using the vault.  *)
(* While someone is, every step of AgentFill is possible; once they have   *)
(* gone, what remains is what runs by itself: the status polls, the loop   *)
(* of a fill_login call, the extension, and time.                          *)
(***************************************************************************)
EXTENDS AgentFill

VARIABLE attended

Alone ==
    \/ MaybeAutolock \/ Status
    \/ \E c \in Client : ReArm(c) \/ ReArmRefused(c) \/ PollFillOutcome(c)
    \/ ExtensionStep
    \/ PageCleared
    \/ Tick

Leave == attended /\ attended' = FALSE /\ UNCHANGED vars

MCInit == Init /\ attended = TRUE

MCNext ==
    \/ attended /\ Next /\ UNCHANGED attended
    \/ ~attended /\ Alone /\ UNCHANGED attended
    \/ Leave

MCSpec == MCInit /\ [][MCNext]_<<vars, attended>> /\ Fairness

\* Watching never holds the vault open: when the last user has gone, the vault
\* locks for good, however many status, take and outcome polls go on arriving
\* and whatever fill is in progress (counts_as_activity, maybe_autolock).
AutoLocks == ~attended ~> []~unlocked

=============================================================================
