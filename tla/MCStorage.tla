----------------------------- MODULE MCStorage -----------------------------
(***************************************************************************)
(* The files of a profile. A behaviour shows one of two views throughout:  *)
(*                                                                         *)
(*   "index"    SearchIndex: the item rows of one vault and their index    *)
(*   "profile"  Backup: the account store, its audit log, the vault files  *)
(*              and their backups. Two processes, one own and one shared   *)
(*              vault, one peer: every pair of commands overlaps, and      *)
(*              every backup step falls between any two of theirs.         *)
(*                                                                         *)
(* Processes are alike, and so are passwords.                              *)
(***************************************************************************)
EXTENDS MCSearchIndex, Backup

VARIABLE part

allVars == <<part, indexVars, vars>>

MCInit == part \in {"index", "profile"} /\ IndexInit /\ Init

MCNext ==
    \/ part = "index" /\ IndexNext /\ UNCHANGED <<part, vars>>
    \/ part = "profile" /\ Next /\ UNCHANGED <<part, indexVars>>

MCSpec == MCInit /\ [][MCNext]_allVars

Symmetry == Permutations(Proc) \cup Permutations(Password)

=============================================================================
