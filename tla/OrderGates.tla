------------------------------ MODULE OrderGates ------------------------------
(***************************************************************************)
(* How large an order is drafted and which drafts the risk officer lets    *)
(* through: the sizing of _build_orders and the deterministic checks of    *)
(* agents/guardrails.py.  Both read the account once, each with limits of  *)
(* its own; a draft above a limit of the gate is lost for the cycle.       *)
(***************************************************************************)
EXTENDS AssetSleeves

CONSTANTS PerOrderRatio, \* PER_ORDER_BUDGET_RATIO, in percent, as all ratios
          StockRatio,    \* CONSERVATIVE_STOCK_RATIO
          CycleRatio,    \* MAX_CYCLE_BUDGET_RATIO
          Overshoot,     \* PER_ORDER_BUDGET_OVERSHOOT
          MaxOrderQty,   \* MAX_ORDER_QTY, 0 for none
          HardMaxQty,    \* HARD_MAX_ORDER_QTY
          MaxTrades,     \* MAX_TRADES_PER_CYCLE
          Rebalances     \* ENABLE_SELL_REBALANCE

ASSUME GateAssumption ==
  /\ PerOrderRatio \in Nat /\ StockRatio \in Nat /\ CycleRatio \in Nat /\ Overshoot \in Nat
  /\ MaxOrderQty \in Nat /\ HardMaxQty \in Nat \ {0}
  /\ MaxTrades \in Nat
  /\ Rebalances \in BOOLEAN

\* The most an order may count, of purchases only.
QtyCeiling == IF MaxOrderQty > 0 THEN MaxOrderQty ELSE HardMaxQty

----------------------------------------------------------------------------
(* Before the analysis: affordable_within_cycle_budget.                    *)

WorthAnalysing(t, cash) ==
  \/ cash = 0 \/ CycleRatio = 0
  \/ Price[t] * 10000 <= cash * CycleRatio * Overshoot

----------------------------------------------------------------------------
(* Purchases: _affordable_buy_qty with the budgets _build_orders gives it. *)

\* An opening cycle may spend five times as much on an order.
PerOrder(cash, total, opened) ==
  Min({total * (IF opened THEN Min({100, 5 * PerOrderRatio}) ELSE PerOrderRatio), 100 * cash})

\* Mutant: the limit of a single stock is loosened at an opening, too.
StockCapLoose(total, opened) == total * (IF opened THEN 60 ELSE StockRatio)

StockCap(total, opened) == total * StockRatio

\* Of weight w, in percent, when n names share the cycle's budget.
BuyQty(t, cash, total, opened, n, w, spent) ==
  LET shares == {PerOrder(cash, total, opened) \div (100 * Price[t]),
                 (cash * CycleRatio * w) \div (10000 * n * Price[t]),
                 StockCap(total, opened) \div (100 * Price[t]),
                 Max({0, cash * CycleRatio - 100 * spent}) \div (100 * Price[t])}
  IN Min(shares \cup (IF MaxOrderQty > 0 THEN {MaxOrderQty} ELSE {}))

\* _affordable_one_share: a share is worth more than its budget, but the cash
\* covers it.
OneShare(t, cash) == cash > 0 /\ Price[t] * Buffer <= cash * 100

\* The draft for one target: sized, a single share, or none.
Draft(t, cash, total, opened, n, w, spent) ==
  LET qty == BuyQty(t, cash, total, opened, n, w, spent)
  IN IF qty >= 1 THEN <<Order(t, "buy", qty, "sized")>>
     ELSE IF OneShare(t, cash) THEN <<Order(t, "buy", 1, "share")>>
     ELSE <<>>

Cost(o) == o.qty * Price[o.t]

\* The targets one after the other; what the earlier ones cost is spent.  A
\* Korean stock already held is left out, and one without a price.
Purchases(targets, held, quoted, cash, total, opened, weight) ==
  LET n == Max({1, Cardinality(ToSet(targets) \ held)})
      Wanted(t) == /\ t \in quoted
                   /\ t \in KR => t \notin held /\ PerOrder(cash, total, opened) > 0
                   /\ t \notin KR => UsAllowed
      Next(acc, t) ==
        IF ~Wanted(t) THEN acc
        ELSE LET d == Draft(t, cash, total, opened, n, weight[t], acc.spent)
             IN [orders |-> acc.orders \o d,
                 spent  |-> acc.spent + (IF d = <<>> THEN 0 ELSE Cost(d[1]))]
      drafted[i \in 0..Len(targets)] ==
        IF i = 0 THEN [orders |-> <<>>, spent |-> 0] ELSE Next(drafted[i - 1], targets[i])
  IN drafted[Len(targets)].orders

----------------------------------------------------------------------------
(* Sales: _assemble_sell_orders.                                           *)

\* A holding's gain or loss, seen by the automatic rules: the profit to take or
\* the loss to stop is reached or not.
Moods == {"calm", "reached"}

\* Shares over the limit of a single stock, and one more.
Trim(t, held, total) ==
  LET over == held * Price[t] * 100 - total * StockRatio
  IN IF t \in KR /\ total > 0 /\ over > 0
     THEN Min({over \div (100 * Price[t]) + 1, held}) ELSE 0

\* A directive outweighs the automatic rules; half of one share is the share.
Sold(t, held, directives, mood, total) ==
  IF t \in DOMAIN directives
  THEN CASE directives[t] = "all"  -> held
         [] directives[t] = "half" -> Max({1, held \div 2})
         [] OTHER                  -> 0
  ELSE IF ~Rebalances THEN 0
  ELSE IF mood = "reached" THEN held
  ELSE Trim(t, held, total)

Sales(h, directives, moods, total) ==
  LET Qty(t) == Sold(t, h[t], directives, moods[t], total)
  IN SetToSeq({Order(t, "sell", Qty(t), "stock") : t \in {d \in Held(h) : Qty(d) >= 1}})

----------------------------------------------------------------------------
(* _check_single_order: one order against the account and what the cycle   *)
(* has spent on stocks so far.                                             *)

\* The checks that the sizing makes as well, by limits of the same names.
WithinLimits(o, cash, total, spent) ==
  /\ IsSleeve(o.t) \/ o.qty <= QtyCeiling
  /\ total > 0 => Cost(o) * 100 <= total * (IF IsSleeve(o.t) THEN TargetMax ELSE StockRatio)
  /\ cash > 0 => Cost(o) * Buffer <= cash * 100
  /\ ~IsSleeve(o.t) /\ cash > 0 => (spent + Cost(o)) * 100 <= cash * CycleRatio

\* The same for a draft of the sizing: within every limit of the gate, and within
\* the cash; within the buffer as well where a cycle's share of the cash leaves it.
AsSized(o, cash, total, spent) ==
  /\ o.qty <= QtyCeiling
  /\ total > 0 => Cost(o) * 100 <= total * StockRatio
  /\ cash > 0 => /\ Cost(o) <= cash
                 /\ (spent + Cost(o)) * 100 <= cash * CycleRatio
                 /\ CycleRatio * Buffer <= 10000 => Cost(o) * Buffer <= cash * 100

\* Mutant: what the cycle has spent is not looked at.
ApprovesAlone(o, bp, spent) ==
  /\ o.qty >= 1
  /\ o.side = "buy" =>
       /\ o.t \notin bp.unpriced /\ bp.ok
       /\ WithinLimits(o, bp.cash, bp.total, 0)

\* bp: the account as the draft saw it, with the codes no price is known of.
Approves(o, bp, spent) ==
  /\ o.qty >= 1
  /\ o.side = "buy" =>
       /\ o.t \notin bp.unpriced /\ bp.ok
       /\ WithinLimits(o, bp.cash, bp.total, spent)

\* A purchase of a sleeve has a budget of its own.
SpentAfter(o, spent) == IF o.side = "buy" /\ ~IsSleeve(o.t) THEN spent + Cost(o) ELSE spent
=============================================================================
