---------------------------- MODULE MCOrderOverlap ----------------------------
(***************************************************************************)
(* One KR ticker that only the program trades and every read of which is   *)
(* right, and two orders for a share of it that may be in flight at once.  *)
(***************************************************************************)
EXTENDS OrderFlow, TLC

CONSTANTS k, buyA, buyB

MCTickers == {k}
MCOrders == {buyA, buyB}
MCNone == {}
MCOrderTicker == [o \in Orders |-> k]
MCOrderSide == [o \in Orders |-> "buy"]
MCOrderQty == [o \in Orders |-> 1]
MCInitHeld == [t \in Tickers |-> 0]
MCDay == <<"KR_TRADING", "OFF_HOURS", "US_TRADING">>
=============================================================================
