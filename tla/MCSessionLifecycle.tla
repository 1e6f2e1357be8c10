-------------------------- MODULE MCSessionLifecycle --------------------------
(***************************************************************************)
(* SessionLifecycle for TLC: two sets of credentials to change between,    *)
(* and room for a loop, the poller of an earlier start and a second loop   *)
(* at once.                                                                *)
(***************************************************************************)
EXTENDS SessionLifecycle
=============================================================================
