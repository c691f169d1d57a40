------------------------------- MODULE MCSession -------------------------------
(***************************************************************************)
(* The two sides of the vault: how it is unlocked, asked and locked, and   *)
(* what it holds.  A behaviour runs one of them and leaves the other where *)
(* it starts; what they share is the key in memory, which either side may  *)
(* lose at any step.                                                       *)
(***************************************************************************)
EXTENDS Session, Vault

SessionInit == Init /\ VaultInit

SessionNext ==
    \/ Next /\ VaultInit /\ UNCHANGED vaultVars
    \/ VaultNext /\ Init /\ UNCHANGED vars

SessionSpec == SessionInit /\ [][SessionNext]_<<vars, vaultVars>> /\ Fairness
=============================================================================
