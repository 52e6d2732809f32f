--------------------------- MODULE ReplicatedOps ---------------------------
(***************************************************************************)
(* What the vault's replication promises about its operations, with no     *)
(* channel, no verification and no rows: every author extends its own      *)
(* chain one operation at a time, and every device knows of each author a  *)
(* prefix that only grows and never runs ahead of the author.              *)
(***************************************************************************)
EXTENDS Naturals

CONSTANT Device

VARIABLE have       \* have[d][a]: how many of a's operations device d holds

Init == have = [d \in Device |-> [a \in Device |-> 0]]

Author(d) == have' = [have EXCEPT ![d][d] = @ + 1]

\* One device catches up, with any number of authors at once.
Learn(d) ==
    /\ have' \in [Device -> [Device -> Nat]]
    /\ \A e \in Device \ {d} : have'[e] = have[e]
    /\ have'[d][d] = have[d][d]
    /\ \A a \in Device : have[d][a] <= have'[d][a] /\ have'[d][a] <= have[a][a]

Next == \E d \in Device : Author(d) \/ Learn(d)

Spec == Init /\ [][Next]_have

=============================================================================
