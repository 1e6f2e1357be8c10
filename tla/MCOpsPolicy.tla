---------------------------- MODULE MCOpsPolicy ----------------------------
(***************************************************************************)
(* One parameter of each kind.                                             *)
(***************************************************************************)
EXTENDS OpsPolicy
=============================================================================
