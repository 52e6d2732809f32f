----------------------------- MODULE MCChannel -----------------------------
(***************************************************************************)
(* What the channel delivers and what is made of it. A behaviour shows one *)
(* of three specifications throughout: VaultSync under a channel that      *)
(* delays, duplicates, forwards and damages; VerifyLoop, the verifier's    *)
(* walk over one author's run, which VaultSync takes as one step; or       *)
(* Attachments, whose rows and blobs go through the same directory.        *)
(***************************************************************************)
EXTENDS MCVaultSync, VerifyLoop, Attachments

CONSTANT MaxRun      \* bound: operations in one incoming run

\* Operations about an item with attachments each device may author.
Three_Two == <<3, 2>>

\* An operation of the walk's author, as it signs it over prev.
Signed(n, seq, prev, lam) ==
    [id |-> <<Signer, n>>, dev |-> Signer, seq |-> seq, prev |-> prev,
     lam |-> lam, kind |-> "update", item |-> CHOOSE i \in Item : TRUE,
     obs |-> [a \in Device |-> 0], sig |-> TRUE]

Op1 == Signed(1, 1, Genesis(Signer), 1)
Op2 == Signed(2, 2, ChainHash(Op1), 2)
Op3 == Signed(3, 3, ChainHash(Op2), 3)

\* A second operation 2 signed over operation 1 (a device restored from a
\* backup), and an operation whose Lamport time runs backwards.
Fork2 == Signed(12, 2, ChainHash(Op1), 2)
Slow3 == Signed(13, 3, ChainHash(Op2), 1)

\* Damaged copies: payload, id or seq changed, so the signature fails.
Damaged == {[Op1 EXCEPT !.sig = FALSE], [Op2 EXCEPT !.sig = FALSE],
            [Op1 EXCEPT !.sig = FALSE, !.id = <<Signer, -1>>],
            [Op1 EXCEPT !.sig = FALSE, !.seq = 2],
            [Op3 EXCEPT !.sig = FALSE, !.seq = 2]}

Copies == {Op1, Op2, Op3, Fork2, Slow3} \cup Damaged

ChainsHeldBefore == {{}, {Op1}, {Op1, Op2}, {Op1, Fork2}}

\* Any of the copies in any order that is ascending in seq.
SortedRuns == {r \in SeqOf(Copies, MaxRun) :
                  \A m, n \in DOMAIN r : m < n => r[m].seq <= r[n].seq}

VARIABLE part

allVars == <<part, vars, loopVars, attVars>>

MCInit ==
    /\ part \in {"channel", "walk", "attachments"}
    /\ Init /\ LoopInit /\ AttInit
    /\ part # "walk" => held = {} /\ input = <<>>

MCNext ==
    \/ part = "channel" /\ Next /\ UNCHANGED <<part, loopVars, attVars>>
    \/ part = "walk" /\ LoopNext /\ UNCHANGED <<part, vars, attVars>>
    \/ part = "attachments" /\ AttNext /\ UNCHANGED <<part, vars, loopVars>>

MCSpec == MCInit /\ [][MCNext]_allVars /\ AttFairness

=============================================================================
