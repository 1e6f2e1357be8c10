---------------------------- MODULE MCTradeLedger ----------------------------
(***************************************************************************)
(* TradeLedger for TLC: a buy of a KR ticker whose price the caller cannot *)
(* tell, its sale, and a buy of a US one; a reseed beside the poller.  The *)
(* sale takes what was held and what is bought, so that it exceeds what a  *)
(* ledger lists that was seeded before the buy and has it entered last.    *)
(***************************************************************************)
EXTENDS TradeLedger

MCFillTicker == [bk |-> "kr", sk |-> "kr", bu |-> "us"]
MCFills == DOMAIN MCFillTicker
MCFillSide == [bk |-> "buy", sk |-> "sell", bu |-> "buy"]
MCFillQty == [bk |-> 1, sk |-> 3, bu |-> 2]
MCFillPrice == [bk |-> 0, sk |-> 2, bu |-> 3]
MCFillAvgCost == [bk |-> 1, sk |-> 1, bu |-> 1]
MCInitQty == [kr |-> 2, us |-> 0]
MCMarket == [kr |-> 1, us |-> 2]
=============================================================================
