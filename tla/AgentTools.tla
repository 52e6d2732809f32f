----------------------------- MODULE AgentTools -----------------------------
(***************************************************************************)
(* The MCP server's tools (crates/lp-cli/src/mcp/{tools,exec,redact,mask,  *)
(* backend}.rs): one call at a time; run_with_secrets composes variables,  *)
(* runs a child with them, drains its two pipes on two threads, and        *)
(* redacts what it wrote.  Meanwhile the vault is edited, the session goes *)
(* away, and the child and what it leaves behind go on by themselves.      *)
(*                                                                         *)
(* A value is a sequence of characters, so that values can contain each    *)
(* other.  Its encoded forms (JSON, percent, base64, UTF-16) are one form  *)
(* over an alphabet of its own.  Fills are in AgentFill.                   *)
(***************************************************************************)
EXTENDS Commands, Integers, FiniteSets, SequencesExt

CONSTANTS
    EnvVar,          \* names of variables an env-set may have
    Content,         \* what the vault may hold: an env-set, a referenced field
    Master,          \* the master password, in the server's own environment
    MinRedactLen,    \* MIN_REDACT_LEN
    PipeCapacity,    \* chunks a pipe holds before the writer blocks
    MaxWrites,       \* bound on the chunks a child writes
    Mappings         \* the sets of variables a call may map to the reference

Plain == 0          \* a character that is no secret
Redacted == -1      \* the marker [REDACTED:VAR]
Masked == -2        \* MASK

PASSWORD == "LOCALPASS_PASSWORD"
PATH == "PATH"

VARIABLES
    content,    \* of the vault: an item of Content
    usable,     \* the daemon is unlocked, or the in-process session is alive
    toolRoute,  \* "proxy" or "direct", for the life of the server
    call,       \* the tool call being handled
    child,      \* its child process
    pipe,       \* pipe[s]: chunks written to stream s and not yet drained
    drained,    \* drained[s]: what drain thread s has read
    ended,      \* ended[s]: drain thread s has seen the end of its pipe
    heir        \* a process the child started still holds the pipes open

toolVars == <<content, usable, toolRoute, call, child, pipe, drained, ended, heir>>
childVars == <<child, pipe, drained, ended, heir>>

Stream == {"stdout", "stderr"}

ASSUME ToolsAssumption ==
    /\ MinRedactLen \in Nat \ {0}
    /\ PipeCapacity \in Nat \ {0}
    /\ MaxWrites \in Nat
    /\ PATH \notin EnvVar /\ PASSWORD \notin EnvVar
    /\ \A c \in Content : DOMAIN c.set \subseteq EnvVar
    /\ Mappings \subseteq SUBSET EnvVar

NoCall == [tool |-> "none", stage |-> "idle", left |-> {}, injected |-> <<>>, answer |-> <<>>]

NoChild == [state |-> "none", env |-> <<>>, marked |-> FALSE, writes |-> 0, to |-> "stdout",
            endless |-> FALSE]

Empty == [s \in Stream |-> <<>>]

ToolsInit ==
    /\ content \in Content
    /\ usable = TRUE
    /\ toolRoute \in {"proxy", "direct"}
    /\ call = NoCall
    /\ child = NoChild
    /\ pipe = Empty /\ drained = Empty
    /\ ended = [s \in Stream |-> TRUE]
    /\ heir = FALSE

-----------------------------------------------------------------------------
(* redact.rs                                                                *)

IsRedactable(v) == Len(v) >= MinRedactLen

Encoded(v) == [i \in DOMAIN v |-> v[i] + 100]

\* Every form of a value that is looked for.
Variants(v) == {v, Encoded(v)}

OccursAt(form, text, i) ==
    i + Len(form) - 1 <= Len(text) /\ SubSeq(text, i, i + Len(form) - 1) = form

Occurs(form, text) == \E i \in DOMAIN text : OccursAt(form, text, i)

\* str::replace: from left to right, without overlap.
Scrub(text, form) ==
    LET from[i \in 1 .. Len(text) + Len(form)] ==
            IF i > Len(text) THEN <<>>
            ELSE IF OccursAt(form, text, i) THEN <<Redacted>> \o from[i + Len(form)]
            ELSE <<text[i]>> \o from[i + 1]
    IN  from[1]

Forms(injected) ==
    UNION {Variants(injected[i].value) : i \in {j \in DOMAIN injected : IsRedactable(injected[j].value)}}

\* mutant: shortest first
RedactionOrderShort(injected) ==
    SetToSortSeq(Forms(injected), LAMBDA v, w : Len(v) < Len(w))

\* Longest first, so that a value inside another one does not split it.
RedactionOrder(injected) ==
    SetToSortSeq(Forms(injected), LAMBDA v, w : Len(v) > Len(w))

Redact(text, injected) == FoldLeft(Scrub, text, RedactionOrder(injected))

ContainsSecret(text, injected) == \E v \in Forms(injected) : Occurs(v, text)

-----------------------------------------------------------------------------
(* The session behind the tools, and the tools that only read.              *)

\* A call still has something to ask the vault for.  What happens to the vault or
\* to the session at other times is seen only by the next request.
Asking == call.stage = "composing" /\ call.left # {}

\* Proxy: the daemon answers or says Locked.  Direct: the idle window is checked
\* at the next call; once it has lapsed the session is dropped for good.
SessionLapses ==
    /\ Asking /\ usable /\ usable' = FALSE
    /\ UNCHANGED <<content, toolRoute, call, childVars>>

DaemonUnlocked ==
    /\ call.stage = "answered" /\ ~usable /\ toolRoute = "proxy" /\ usable' = TRUE
    /\ UNCHANGED <<content, toolRoute, call, childVars>>

\* Another program edits the vault.
VaultEdited ==
    /\ Asking /\ content' \in Content \ {content}
    /\ UNCHANGED <<usable, toolRoute, call, childVars>>

Idle == call.stage \in {"idle", "answered"}

Answered(tool, text) == [NoCall EXCEPT !.tool = tool, !.stage = "answered", !.answer = text]

\* error_result: the message names what failed and carries no value.
ErrorResult(tool) == Answered(tool, <<Plain>>)

\* view_from_item has the values, view_from_wire what the daemon masked; both
\* pass item_view_masked.  A title, a secret field, a note.
FieldViews ==
    [i \in 1..3 |-> IF i = 1 THEN [secret |-> FALSE, value |-> <<Plain>>]
                    ELSE [secret |-> TRUE,
                          value |-> IF toolRoute = "proxy" /\ i = 2 THEN <<Masked>>
                                    ELSE content.field]]

ItemViewMasked(views) ==
    FlattenSeq([i \in DOMAIN views |-> IF views[i].secret THEN <<Masked>> ELSE views[i].value])

ReadingTools == {"list_vaults", "list_items", "get_item", "totp_code"}

ToolText(tool) ==
    CASE tool = "list_vaults" -> <<Plain>>
      [] tool \in {"list_items", "get_item"} -> ItemViewMasked(FieldViews)
      [] tool = "totp_code" -> <<Plain>>

CallReading(tool) ==
    /\ Idle
    /\ call' = IF usable THEN Answered(tool, ToolText(tool)) ELSE ErrorResult(tool)
    /\ UNCHANGED <<content, usable, toolRoute, childVars>>

\* A missing argument or an unknown tool.
CallRefused ==
    /\ Idle
    /\ call' = ErrorResult("other")
    /\ UNCHANGED <<content, usable, toolRoute, childVars>>

-----------------------------------------------------------------------------
(* run_with_secrets                                                         *)

\* OrderedEnv::set: a later layer replaces the value in place.
SetVar(env, name, value) ==
    IF \E i \in DOMAIN env : env[i].name = name
    THEN [i \in DOMAIN env |-> IF env[i].name = name
                               THEN [name |-> name, value |-> value] ELSE env[i]]
    ELSE Append(env, [name |-> name, value |-> value])

\* item: an env-set to inject; mapped: variables mapped to the reference.
CallRun(item, mapped) ==
    /\ Idle
    /\ call' = [NoCall EXCEPT !.tool = "run_with_secrets", !.stage = "composing",
                              !.left = (IF item THEN {"env-set"} ELSE {}) \cup mapped]
    /\ child' = NoChild /\ pipe' = Empty /\ drained' = Empty
    /\ ended' = [s \in Stream |-> TRUE]
    /\ heir' = FALSE
    /\ UNCHANGED <<content, usable, toolRoute>>

\* env_set_entries, in one request.
LoadSet ==
    /\ call.stage = "composing" /\ "env-set" \in call.left
    /\ call' = IF usable
               THEN [call EXCEPT !.left = @ \ {"env-set"},
                        !.injected = FoldSet(LAMBDA name, env : SetVar(env, name, content.set[name]),
                                             @, DOMAIN content.set)]
               ELSE ErrorResult(call.tool)
    /\ UNCHANGED <<content, usable, toolRoute, childVars>>

\* resolve_reference, one request per mapping, after the env-set.
Resolve(name) ==
    /\ call.stage = "composing" /\ "env-set" \notin call.left /\ name \in call.left
    /\ call' = IF usable
               THEN [call EXCEPT !.left = @ \ {name},
                        !.injected = SetVar(@, name, content.field)]
               ELSE ErrorResult(call.tool)
    /\ UNCHANGED <<content, usable, toolRoute, childVars>>

ServerEnv == <<[name |-> PATH, value |-> <<Plain>>], [name |-> PASSWORD, value |-> Master]>>

\* base_env(true): everything but the password.
InheritedEnv == SelectSeq(ServerEnv, LAMBDA e : e.name # PASSWORD)

ChildEnv(injected) ==
    FoldLeft(LAMBDA env, e : SetVar(env, e.name, e.value), InheritedEnv, injected)

\* A command that is empty, is LocalPass itself, does not start, or a timeout
\* out of range; checked when everything is composed.
SpawnRefused ==
    /\ call.stage = "composing" /\ call.left = {}
    /\ call' = ErrorResult(call.tool)
    /\ UNCHANGED <<content, usable, toolRoute, childVars>>

\* run_capture: two pipes, a drain thread on each.  An endless child has written
\* all it will: one that is timed out in the middle is the same to the server.
SpawnChild(to, endless) ==
    /\ call.stage = "composing" /\ call.left = {}
    /\ call' = [call EXCEPT !.stage = "waiting"]
    /\ child' = [NoChild EXCEPT !.state = "running", !.env = ChildEnv(call.injected),
                                !.marked = TRUE, !.to = to, !.endless = endless,
                                !.writes = IF endless THEN MaxWrites ELSE 0]
    /\ ended' = [s \in Stream |-> FALSE]
    /\ UNCHANGED <<content, usable, toolRoute, pipe, drained, heir>>

-----------------------------------------------------------------------------
(* The child.                                                               *)

\* A localpass command somewhere below the child: what it may print of the vault.
PrintedBy(c) ==
    IF usable /\ TellsOf(c) /\ (c \in AllowedInMcpChild \/ ~child.marked)
    THEN content.field ELSE <<Plain>>

Chunks ==
    UNION {Variants(child.env[i].value) : i \in DOMAIN child.env}
    \cup {PrintedBy(c) : c \in {"status", "item get --reveal"}}

\* The child blocks on the pipe it is writing to; then it turns to either one.
ChildWrites ==
    /\ child.state = "running" /\ child.writes < MaxWrites
    /\ Len(pipe[child.to]) < PipeCapacity
    /\ \E chunk \in Chunks : pipe' = [pipe EXCEPT ![child.to] = Append(@, chunk)]
    /\ \E next \in Stream : child' = [child EXCEPT !.writes = @ + 1, !.to = next]
    /\ UNCHANGED <<content, usable, toolRoute, call, drained, ended, heir>>

ChildForks ==
    /\ child.state = "running" /\ ~heir
    /\ heir' = TRUE
    /\ UNCHANGED <<content, usable, toolRoute, call, child, pipe, drained, ended>>

HeirEnds ==
    /\ heir /\ heir' = FALSE
    /\ UNCHANGED <<content, usable, toolRoute, call, child, pipe, drained, ended>>

ChildExits ==
    /\ child.state = "running" /\ ~child.endless
    /\ child.writes = MaxWrites
    /\ child' = [child EXCEPT !.state = "exited"]
    /\ UNCHANGED <<content, usable, toolRoute, call, pipe, drained, ended, heir>>

-----------------------------------------------------------------------------
(* The server while the child runs.                                         *)

\* mutant: standard error is read when standard output has ended
MayDrainInTurn(s) == ~ended[s] /\ (s = "stderr" => ended["stdout"])

\* One drain thread per pipe, each to the end of its own.
MayDrain(s) == ~ended[s]

Drain(s) ==
    /\ MayDrain(s)
    /\ IF pipe[s] # <<>>
       THEN /\ drained' = [drained EXCEPT ![s] = @ \o Head(pipe[s])]
            /\ pipe' = [pipe EXCEPT ![s] = Tail(@)]
            /\ UNCHANGED ended
       ELSE /\ child.state # "running" /\ ~heir
            /\ ended' = [ended EXCEPT ![s] = TRUE]
            /\ UNCHANGED <<drained, pipe>>
    /\ UNCHANGED <<content, usable, toolRoute, call, child, heir>>

\* try_wait sees the exit status; or the time is up and the child is killed.
\* What it started is not.
TryWait ==
    /\ call.stage = "waiting" /\ child.state = "exited"
    /\ call' = [call EXCEPT !.stage = "joining"]
    /\ UNCHANGED <<content, usable, toolRoute, childVars>>

\* The wait itself fails: the child is left to itself, its output unread.
WaitFails ==
    /\ call.stage = "waiting"
    /\ call' = ErrorResult(call.tool)
    /\ child' = NoChild /\ pipe' = Empty /\ drained' = Empty
    /\ ended' = [s \in Stream |-> TRUE]
    /\ UNCHANGED <<content, usable, toolRoute, heir>>

Timeout ==
    /\ call.stage = "waiting" /\ child.state = "running"
    /\ child' = [child EXCEPT !.state = "exited"]
    /\ call' = [call EXCEPT !.stage = "joining"]
    /\ UNCHANGED <<content, usable, toolRoute, pipe, drained, ended, heir>>

\* Both threads joined: run_capture returns what they read.
Join ==
    /\ call.stage = "joining" /\ \A s \in Stream : ended[s]
    /\ call' = [call EXCEPT !.stage = "captured"]
    /\ UNCHANGED <<content, usable, toolRoute, childVars>>

\* Redact with the values that were injected, look once more, answer.
AnswerRun ==
    LET out == Redact(drained["stdout"], call.injected)
        err == Redact(drained["stderr"], call.injected)
    IN  /\ call.stage = "captured"
        /\ call' = IF ContainsSecret(out, call.injected) \/ ContainsSecret(err, call.injected)
                   THEN ErrorResult(call.tool)
                   ELSE Answered(call.tool, out \o err)
        /\ child' = NoChild /\ drained' = Empty
        /\ UNCHANGED <<content, usable, toolRoute, pipe, ended, heir>>

-----------------------------------------------------------------------------

ToolsNext ==
    \/ SessionLapses \/ DaemonUnlocked \/ VaultEdited
    \/ \E tool \in ReadingTools : CallReading(tool)
    \/ CallRefused
    \/ \E item \in BOOLEAN, mapped \in Mappings : CallRun(item, mapped)
    \/ LoadSet \/ SpawnRefused
    \/ \E name \in EnvVar : Resolve(name)
    \/ \E to \in Stream, endless \in BOOLEAN : SpawnChild(to, endless)
    \/ \E s \in Stream : Drain(s)
    \/ ChildWrites \/ ChildForks \/ HeirEnds \/ ChildExits
    \/ TryWait \/ WaitFails \/ Timeout \/ Join \/ AnswerRun

\* The server and its threads go on; a child that is not endless writes what it
\* has to write and exits.  The timer is counted on for an endless child only.
ToolsFairness ==
    /\ WF_toolVars(LoadSet) /\ WF_toolVars(\E name \in EnvVar : Resolve(name))
    /\ WF_toolVars(SpawnRefused \/ \E to \in Stream, endless \in BOOLEAN : SpawnChild(to, endless))
    /\ \A s \in Stream : WF_toolVars(Drain(s))
    /\ WF_toolVars(ChildWrites) /\ WF_toolVars(ChildExits)
    /\ WF_toolVars(TryWait) /\ WF_toolVars(Join)
    /\ WF_toolVars(child.endless /\ Timeout)

-----------------------------------------------------------------------------

\* The characters of the values that are long enough to be redacted.
SecretChar ==
    UNION {Range(v) \cup Range(Encoded(v)) :
               v \in {w \in {Master} \cup UNION {{c.field} \cup Range(c.set) : c \in Content} :
                          IsRedactable(w)}}

\* No answer to the agent carries a character of a secret: not of a value that
\* contains another injected one or is contained in it, not in its encoded
\* form, not of a value edited since it was injected or overridden by a later
\* layer, not of an item, not of the master password the server itself was
\* started with, and not through any localpass command that is allowed below the
\* child (redact, base_env, item_view_masked, allowed_in_mcp_child).  The child
\* keeps the marker it is started with, which is what stops the other commands.
NothingSecretTold ==
    call.stage = "answered" => Range(call.answer) \cap SecretChar = {}

\* The call waits for somebody else: the vault, the child, the pipes.
Waiting == call.stage \in {"composing", "waiting", "joining"}

\* Every call comes to its answer: a child that fills both pipes is drained to
\* its end and reported without the timer's help, one that never ends is killed.
\* Only a process the child left behind, with the pipes open, can hold the answer
\* back (run_capture, drain, join).
CallsEnd == Waiting ~> (~Waiting \/ heir)

=============================================================================
