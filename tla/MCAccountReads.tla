--------------------------- MODULE MCAccountReads ---------------------------
(***************************************************************************)
(* Two coroutines, the poller and the trading loop, say, and a stock on the *)
(* first page of the balance.                                              *)
(***************************************************************************)
EXTENDS AccountReads
=============================================================================
