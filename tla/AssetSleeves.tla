----------------------------- MODULE AssetSleeves -----------------------------
(***************************************************************************)
(* infra/asset_sleeves.py: the asset-allocation track beside the stocks.   *)
(* A sleeve is a pool of ETF codes that follows the weight the macro report*)
(* recommends for its asset class.  Pure functions, as in the code.        *)
(*                                                                         *)
(* Amounts are in hundredths of a won where a percentage of a sum is meant,*)
(* so that percentages stay exact; prices are in whole won (those of US    *)
(* stocks converted at a constant rate).                                   *)
(***************************************************************************)
EXTENDS MarketSessions, Lists

CONSTANTS Tickers,   \* every code the program may meet
          KR,        \* those of the Korean market; the others are American
          Price,     \* won a share costs
          Sleeves,   \* keys of the sleeves
          Pool,      \* the pool of each sleeve, of both markets
          Enabled,   \* sleeves that are switched on
          UsAllowed, \* ALLOW_US_STOCKS
          TargetMax, Band, PerCycle,   \* percentages of the total
          Buffer     \* MIN_CASH_BUFFER, in percent

ASSUME SleeveAssumption ==
  /\ KR \subseteq Tickers /\ IsFiniteSet(Tickers) /\ IsFiniteSet(Sleeves)
  /\ Price \in [Tickers -> Nat \ {0}]
  /\ Pool \in [Sleeves -> SUBSET Tickers]
  /\ \A j, k \in Sleeves : j # k => Pool[j] \cap Pool[k] = {}
  /\ Enabled \subseteq Sleeves
  /\ UsAllowed \in BOOLEAN
  /\ TargetMax \in Nat /\ Band \in Nat /\ PerCycle \in Nat
  /\ Buffer \in Nat /\ Buffer >= 100

NoRec == -1          \* the report recommends no weight for the class
Shares == [Tickers -> Nat]
NoShares == [t \in Tickers |-> 0]

Tradable(t, s) == IF t \in KR THEN IsKRTradable(s) ELSE s = "US_TRADING"

Codes(keys) == UNION {Pool[k] : k \in keys}
AllCodes == Codes(Sleeves)
EnabledCodes == Codes(Enabled)
IsSleeve(t) == t \in AllCodes

\* sleeve_pool_for_session: what the sleeve may trade in session s.
PoolFor(k, s) ==
  {t \in Pool[k] : IF t \in KR THEN IsKRSession(s) ELSE s = "US_TRADING" /\ UsAllowed}

\* split_sleeve_holdings: the part of the holdings outside of a set of codes.
Without(h, codes) == [t \in Tickers |-> IF t \in codes THEN 0 ELSE h[t]]
Only(h, codes) == [t \in Tickers |-> IF t \in codes THEN h[t] ELSE 0]
Held(h) == {t \in Tickers : h[t] > 0}

Value(h) ==
  LET worth == [t \in Tickers |-> h[t] * Price[t]]
  IN MapThenSumSet(LAMBDA t : worth[t], Held(h))

----------------------------------------------------------------------------
(* size_sleeve_action, cap_sleeve_buy_notional.                            *)

\* What lacks to the target weight, in hundredths; negative when too much.
Gap(k, rec, h, total) == Min({rec, TargetMax}) * total - 100 * Value(Only(h, Pool[k]))

\* Of an unknown total every weight is taken to be zero.
SleeveAction(k, rec, h, total) ==
  LET gap == Gap(k, rec, h, total)
  IN IF rec = NoRec THEN "skip"
     ELSE IF total = 0 THEN IF Min({rec, TargetMax}) > Band THEN "buy" ELSE "hold"
     ELSE IF gap > Band * total THEN "buy"
     ELSE IF gap < - (Band * total) THEN "sell"
     ELSE "hold"

BuyBudget(k, rec, h, total, cash) ==
  Min({Gap(k, rec, h, total), total * PerCycle}
      \cup (IF cash > 0 THEN {(cash * 10000) \div Buffer} ELSE {}))

----------------------------------------------------------------------------
(* assemble_sleeve_orders.  "by" notes where an order comes from.          *)

Order(t, side, qty, by) == [t |-> t, side |-> side, qty |-> qty, by |-> by]

\* The part of the holding a directive sells on the sleeves' track.
SleeveSold(directive, held) ==
  CASE directive = "all"  -> held
    [] directive = "half" -> held \div 2
    [] OTHER              -> 0

\* The budget is divided by the picks, those without a quote included.
SleeveBuys(decisions, budget, quoted) ==
  LET picks == {t \in DOMAIN decisions : decisions[t] = "buy"}
      Qty(t) == budget \div (100 * Cardinality(picks) * Price[t])
  IN {Order(t, "buy", Qty(t), "sleeve") : t \in {p \in picks \cap quoted : Qty(p) >= 1}}

\* _build_sleeve_sell_orders: the sales of the sleeves' codes a set of final
\* directives asks for; a price is found at the latest in the holding itself.
SleeveSales(directives, h, codes) ==
  LET Qty(t) == SleeveSold(directives[t], h[t])
  IN SetToSeq({Order(t, "sell", Qty(t), "sleeve") :
                 t \in {d \in DOMAIN directives \cap codes : Qty(d) >= 1}})

\* Mutant: the frequency cap counts the purchases of the sleeves.
ExecListCapped(approved, cap, codes) ==
  LET buys  == {o \in ToSet(approved) : o.side = "buy"}
      first == SubSeq(Among(approved, buys), 1, Min({cap, Len(Among(approved, buys))}))
  IN Among(approved, ToSet(approved) \ buys) \o first

\* build_exec_list: every sale, every purchase of a sleeve, and as many of the
\* other purchases as the frequency cap lets through.
ExecList(approved, cap, codes) ==
  LET sells      == {o \in ToSet(approved) : o.side = "sell"}
      sleeveBuys == {o \in ToSet(approved) \ sells : o.t \in codes}
      stockBuys  == Among(approved, ToSet(approved) \ (sells \cup sleeveBuys))
  IN Among(approved, sells) \o Among(approved, sleeveBuys)
     \o SubSeq(stockBuys, 1, Min({cap, Len(stockBuys)}))
=============================================================================
