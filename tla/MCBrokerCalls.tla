--------------------------- MODULE MCBrokerCalls ---------------------------
(***************************************************************************)
(* The poller reads while the loop sells.                                  *)
(***************************************************************************)
EXTENDS BrokerCalls
=============================================================================
