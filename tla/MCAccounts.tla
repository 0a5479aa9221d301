----------------------------- MODULE MCAccounts -----------------------------
(***************************************************************************)
(* Three devices with a limit of two, two sign-ins at once, one code.      *)
(***************************************************************************)
EXTENDS Accounts, TLC

Symmetry == Permutations(Devices) \cup Permutations(Request)
=============================================================================
