----------------------------- MODULE MCAccounts -----------------------------
(***************************************************************************)
(* Two clients are alike.                                                  *)
(***************************************************************************)
EXTENDS Accounts

Alike == Permutations(Clients)
=============================================================================
