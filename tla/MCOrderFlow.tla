----------------------------- MODULE MCOrderFlow -----------------------------
(***************************************************************************)
(* A small account: k is a quiet KR ticker of which some is sold, u a US   *)
(* ticker that is not quiet and is bought, perhaps in parts.               *)
(***************************************************************************)
EXTENDS OrderFlow, TLC

CONSTANTS k, u, sellK, buyU

MCTickers == {k, u}
MCKRTickers == {k}
MCQuiet == {k}
MCOrders == {sellK, buyU}
MCOrderTicker == [o \in Orders |-> IF o = buyU THEN u ELSE k]
MCOrderSide == [o \in Orders |-> IF o = sellK THEN "sell" ELSE "buy"]
MCOrderQty == [o \in Orders |-> IF o = buyU THEN 2 ELSE 1]
MCInitHeld == k :> 2 @@ u :> 0
MCDay == <<"KR_TRADING", "KR_CLOSE_REVIEW", "US_TRADING">>
=============================================================================
