---------------------------- MODULE VerifyLoop -----------------------------
(***************************************************************************)
(* verify_device_run of crates/lp-sync/src/verify.rs as the walk it is,    *)
(* one state per operation looked at, compared at the end with             *)
(* VerifyChain!AcceptedRuns.                                               *)
(***************************************************************************)
EXTENDS VerifyChain, Sequences, SequencesExt

CONSTANTS
    Signer,      \* the author whose run is verified
    HeldLogs,    \* what a vault may already hold of it
    Runs         \* the runs that may come in

VARIABLES
    held,        \* operations of Signer the vault already has
    input,       \* the incoming operations of Signer, sorted by seq
    pos,         \* the next one to look at
    expected,    \* expected_seq
    prevFull,    \* prev_full
    lastLam,     \* last_lamport
    accepted,    \* report.accepted
    outcome      \* "walking", or the DeviceOutcome

loopVars == <<held, input, pos, expected, prevFull, lastLam, accepted, outcome>>

-----------------------------------------------------------------------------
(* Inputs.                                                                  *)

\* run.sort_by_key(seq) is stable: any order of the copies of one seq.
IsRun(r) ==
    /\ r \in Seq(Op)
    /\ \A n \in DOMAIN r : r[n].dev = Signer
    /\ \A m, n \in DOMAIN r : m < n => r[m].seq <= r[n].seq

\* The rows of the ops table have been verified.
IsHeld(L) == L \subseteq Op /\ IsFiniteSet(L) /\ \A o \in L : o.dev = Signer /\ o.sig

ASSUME RunsAssumption ==
    /\ Signer \in Device
    /\ \A L \in HeldLogs : IsHeld(L)
    /\ \A r \in Runs : IsRun(r)
    /\ \A L \in HeldLogs : \A r \in Runs : Genuine(L \cup ToSet(r))

-----------------------------------------------------------------------------
(* The walk.                                                                *)

LoopInit ==
    /\ held \in HeldLogs
    /\ input \in Runs
    /\ pos = 1
    /\ expected = HeadSeq(held, Signer) + 1
    /\ prevFull = HeadHash(held, Signer)
    /\ lastLam = HeadLamport(held, Signer)
    /\ accepted = <<>>
    /\ outcome = "walking"

Looking == outcome = "walking" /\ pos <= Len(input)

\* Mutant of Seen: what this batch accepted is forgotten.
SeenBefore(o) == o.id \in KnownIds(held, Signer)

\* known_op_ids, or accepted_op_ids of this batch.
Seen(o) ==
    \/ o.id \in KnownIds(held, Signer)
    \/ \E n \in DOMAIN accepted : accepted[n].id = o.id

Advance(o) ==
    /\ expected' = expected + 1
    /\ prevFull' = ChainHash(o)
    /\ lastLam' = o.lam

\* An operation already held or accepted: skipped, not verified again.
SkipKnown ==
    /\ Looking
    /\ LET o == input[pos]
       IN  /\ Seen(o)
           /\ IF o.seq = expected
              THEN Advance(o)
              ELSE UNCHANGED <<expected, prevFull, lastLam>>
    /\ pos' = pos + 1
    /\ UNCHANGED <<held, input, accepted, outcome>>

Stop(result) ==
    /\ outcome' = result
    /\ UNCHANGED <<held, input, pos, expected, prevFull, lastLam, accepted>>

\* Mutant of Regression: an old seq is skipped, not reported.
RegressionSkipped ==
    /\ Looking
    /\ ~Seen(input[pos])
    /\ input[pos].seq < expected
    /\ pos' = pos + 1
    /\ UNCHANGED <<held, input, expected, prevFull, lastLam, accepted, outcome>>

\* SeqRegression below the applied head, SeqReplay within this batch.
Regression ==
    /\ Looking
    /\ ~Seen(input[pos])
    /\ input[pos].seq < expected
    /\ Stop(IF input[pos].seq <= HeadSeq(held, Signer)
            THEN "SeqRegression" ELSE "SeqReplay")

Gap ==
    /\ Looking
    /\ ~Seen(input[pos])
    /\ input[pos].seq > expected
    /\ Stop("Pending")

Reject ==
    /\ Looking
    /\ LET o == input[pos]
       IN  /\ ~Seen(o)
           /\ o.seq = expected
           /\ ~Extends(o, prevFull, lastLam)
           /\ Stop(CASE ~o.sig -> "SignatureInvalid"
                     [] o.sig /\ o.prev # prevFull -> "ChainMismatch"
                     [] OTHER -> "LamportRegression")

Accept ==
    /\ Looking
    /\ LET o == input[pos]
       IN  /\ ~Seen(o)
           /\ o.seq = expected
           /\ Extends(o, prevFull, lastLam)
           /\ accepted' = Append(accepted, o)
           /\ Advance(o)
    /\ pos' = pos + 1
    /\ UNCHANGED <<held, input, outcome>>

Finish ==
    /\ outcome = "walking"
    /\ pos > Len(input)
    /\ Stop("Accepted")

Done == outcome # "walking" /\ UNCHANGED loopVars

LoopNext == SkipKnown \/ Regression \/ Gap \/ Reject \/ Accept \/ Finish \/ Done

LoopSpec == LoopInit /\ [][LoopNext]_loopVars

-----------------------------------------------------------------------------

\* The walk stops with a set of operations the declarative verifier allows
\* for this batch (verify_device_run against AcceptedRuns): it never accepts
\* past a gap, a fork, a damaged copy it met first, or a replayed seq.
WalkIsAccepted ==
    outcome # "walking" =>
        ToSet(accepted) \in AcceptedRuns(held, Signer, ToSet(input))

\* An alarm needs a reason: a run of intact copies of the author's one chain,
\* however overlapping and reordered across segments, never quarantines.
HonestRunRaisesNoAlarm ==
    OneChain(Signer, held \cup ToSet(input)) /\ {o.seq : o \in held} = 1 .. HeadSeq(held, Signer) =>
        outcome \in {"walking", "Accepted", "Pending"}

=============================================================================
