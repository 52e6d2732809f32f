---------------------------- MODULE MCVaultSync ----------------------------
(***************************************************************************)
(* Instances of VaultSync for TLC.                                         *)
(***************************************************************************)
EXTENDS VaultSyncInv

\* Who trusts whom at the start.
NoTrust == {}
FullTrust == Device \X Device

\* Operations each device may author.
Two_Two == <<2, 2>>
One_Each == <<1, 1, 1>>

=============================================================================
