---------------------------- MODULE AnalysisCycle ----------------------------
(***************************************************************************)
(* One user's analysis cycle, _run_analysis_cycle of main_swarm.py: a      *)
(* sequence of stages, each awaited, that share their locals in "cyc".     *)
(* The clock runs on between the stages, so the market a stage decided for *)
(* may be another one, or none, when a later stage acts; the account is    *)
(* read several times and each read may fail on its own.                   *)
(*                                                                         *)
(* What the agents answer (picks, directives, vetoes) is any answer their  *)
(* parsers let through.  A local that no later stage reads is set back to  *)
(* its blank.  Orders that are accepted and fill later, and the ledger,    *)
(* are modules OrderFlow and TradeLedger.                                  *)
(***************************************************************************)
EXTENDS OrderGates

CONSTANTS Day,        \* the sessions the clock goes through, in their order
          Accounts,   \* holdings a run may start from, or have been read before
          Funds,      \* the cash then
          NxtListed,  \* Korean codes the extended market trades
          Ideas,      \* candidates the orchestrator or the news may name
          Weights,    \* percentages the macro report may recommend for a sleeve
          Tilts,      \* percentages the sizing may tilt a name's budget by
          PsblLimits, \* quantities the broker may name as orderable
          MaxCycles   \* bound of the model: cycles of a run

ASSUME CycleAssumption ==
  /\ Day \in Seq(SessionNames) /\ Day # <<>>
  /\ Accounts \subseteq Shares /\ Funds \in Nat
  /\ NxtListed \subseteq KR
  /\ Ideas \subseteq Seq(Tickers)
  /\ NoRec \in Weights /\ Weights \subseteq Nat \cup {NoRec}
  /\ Tilts \subseteq Nat /\ PsblLimits \subseteq Nat
  /\ MaxCycles \in Nat

VARIABLES hour,     \* place of the clock in the day
          shares, cash,  \* the account at the broker
          blocked,  \* codes learned not to trade in the extended market
          refusals, \* how often the extended market refused a code as unknown
          history,  \* codes with an open row in holdings_history
          stage, cyc,
          spent,    \* cycle_state["spent"] of validate_order_draft
          tried,    \* orders of the execution list dealt with, in their order
          sent,     \* history: worth of the purchases of stocks sent by this cycle
          cycles

vars == <<hour, shares, cash, blocked, refusals, history, stage, cyc, spent, tried, sent, cycles>>
market == <<hour, shares, cash, blocked, refusals, history>>

Now == Day[hour]
LiveSessions == {"KR_PRE_MARKET", "KR_TRADING", "KR_AFTER_MARKET", "US_TRADING"}

NoCash == [cash |-> 0, total |-> 0]
Blank ==
  [session |-> "OFF_HOURS", opened |-> FALSE, sellOnly |-> FALSE, skip |-> FALSE,
   holdings |-> NoShares, funds |-> NoCash, cands |-> <<>>,
   sleeveBuys |-> <<>>, proposals |-> <<>>, priced |-> {}, unpriced |-> {},
   targets |-> <<>>, directives |-> <<>>, stocks |-> NoShares, drafts |-> <<>>,
   bp |-> [cash |-> 0, total |-> 0, ok |-> FALSE, unpriced |-> {}],
   approved |-> <<>>, queue |-> <<>>]

Init ==
  /\ hour = 1 /\ shares \in Accounts /\ cash = Funds
  /\ blocked \in {{}, KR \ NxtListed}  \* what earlier cycles learned
  /\ refusals = [t \in Tickers |-> IF t \in blocked THEN 1 ELSE 0]
  /\ history = Held(shares)
  /\ stage = "idle" /\ cyc = Blank /\ spent = 0 /\ tried = <<>> /\ sent = 0 /\ cycles = 0

Total == cash + Value(shares)

\* Every order of a set of choices of distinct codes.
Orderings(S) == UNION {SetToSeqs(T) : T \in SUBSET S}
PartialMaps(S, V) == UNION {[D -> V] : D \in SUBSET S}

\* What is traded in the market of session s.
Market(s) == IF s = "US_TRADING" THEN Tickers \ KR ELSE IF IsKRSession(s) THEN KR ELSE {}

----------------------------------------------------------------------------
Clock == /\ hour < Len(Day) /\ hour' = hour + 1
         /\ UNCHANGED <<shares, cash, blocked, refusals, history, stage, cyc, spent, tried, sent, cycles>>

Moves(from, to) == stage = from /\ stage' = to
Keeps == UNCHANGED <<market, spent, tried, sent, cycles>>

CycleBegins(opened, news) ==
  /\ Moves("idle", "collect") /\ cycles < MaxCycles /\ Now \in LiveSessions
  /\ cyc' = [Blank EXCEPT !.session = Now, !.opened = opened, !.sellOnly = ~news /\ ~opened]
  /\ cycles' = cycles + 1 /\ spent' = 0 /\ tried' = <<>> /\ sent' = 0
  /\ UNCHANGED market

\* What kr_account_snapshot hands out (module AccountReads has its caches): the
\* account as it is; of a read that failed or was answered without a holding, the
\* list, or its first page, and the sums of an account before; and where none is
\* kept, nothing, or the first page of a read cut there.
Snap(list, money, total, ok) == [list |-> list, cash |-> money, total |-> total, ok |-> ok]
Pages(h) == {Only(h, page) : page \in SUBSET KR}

Whole == {Snap(Only(shares, KR), cash, Total, TRUE), Snap(NoShares, cash, Total, TRUE),
          Snap(NoShares, 0, 0, FALSE)}
Cut == {Snap(list, cash, Total, FALSE) : list \in Pages(shares)}
Before(h) == {Snap(list, money, Funds + Value(h), ok) :
                list \in Pages(h), money \in {cash, Funds}, ok \in BOOLEAN}

Snapshots == Whole \cup Cut \cup UNION {Before(h) : h \in Accounts}

\* _session_holdings: the American part is added in its session only, and is
\* empty when its read fails.
Readings(s) ==
  {[t \in Tickers |-> IF t \in KR THEN snap.list[t] ELSE us[t]] :
     snap \in Snapshots, us \in {NoShares} \cup (IF s = "US_TRADING" THEN {shares} ELSE {})}

Collect == /\ Moves("collect", "macro") /\ Keeps
           /\ \E h \in Readings(cyc.session) : cyc' = [cyc EXCEPT !.holdings = h]

\* The sums a snapshot may tell.
Sums == {[cash |-> snap.cash, total |-> snap.total] : snap \in Snapshots}

\* A report that leaves no room for stocks blocks purchases of a known total.
NewsMacro(sums, full) ==
  /\ Moves("macro", "select") /\ Keeps
  /\ cyc' = [cyc EXCEPT !.funds = sums, !.skip = cyc.sellOnly \/ (sums.total > 0 /\ full)]

----------------------------------------------------------------------------
(* PASS 1: candidates.                                                     *)

Resolved(codes) ==
  LET here == Market(cyc.session) \ (IF IsExtended(cyc.session) THEN blocked ELSE {})
      kept == Among(codes, here)
  IN SubSeq(kept, 1, Min({5, Len(kept)}))

\* Mutant: a cycle that is not to buy takes the names of the news.
SeededAnyway(codes, news) ==
  IF codes # <<>> THEN codes ELSE Among(news, Market(cyc.session))

\* seed_candidates_from_news looks at the session and at nothing else.
Seeded(codes, news) ==
  IF codes # <<>> \/ cyc.skip THEN codes
  ELSE Among(news, Market(cyc.session))

\* "screened" fall to screen_universe; the prefilter needs the cash known.
Select(picks, news, screened, known) ==
  /\ Moves("select", "quant") /\ Keeps
  /\ LET named == Seeded(IF cyc.skip THEN <<>> ELSE Resolved(picks), news)
         worth == {t \in Tickers \ screened : known => WorthAnalysing(t, cash)}
     IN cyc' = [cyc EXCEPT !.cands = Among(named, worth)]

\* A candidate without daily data is dropped, unless it is held.
Quant(noData) ==
  /\ Moves("quant", "sleeves") /\ Keeps
  /\ cyc' = [cyc EXCEPT !.cands =
               Among(@, (Tickers \ noData) \cup Held(cyc.holdings))]

----------------------------------------------------------------------------
(* The asset sleeves: purchases are final, sales are proposed.  "answer"   *)
(* gives, per sleeve, the weight the report recommends, the manager's      *)
(* decisions and the codes that could be quoted.                           *)

Answers == {a \in [rec : Weights, dec : PartialMaps(AllCodes, {"buy", "hold", "half", "all"}),
                   quoted : SUBSET AllCodes] : a.quoted \subseteq DOMAIN a.dec}

\* Held in both markets, as far as the other one can be read.
Spread == IF cyc.session = "US_TRADING" THEN {cyc.holdings}
          ELSE {cyc.holdings, [t \in Tickers |-> IF t \in KR THEN cyc.holdings[t] ELSE shares[t]]}

Active(k, a, h) ==
  LET pool == PoolFor(k, cyc.session)
  IN /\ pool # {} /\ DOMAIN a.dec \subseteq pool
     /\ \/ SleeveAction(k, a.rec, h, cyc.funds.total) = "buy"
        \/ Held(Only(cyc.holdings, pool)) # {}

Ordered(k, a, h) ==
  IF SleeveAction(k, a.rec, h, cyc.funds.total) # "buy" THEN {}
  ELSE SleeveBuys(a.dec, BuyBudget(k, a.rec, h, cyc.funds.total, cyc.funds.cash), a.quoted)

Proposed(a) == {t \in DOMAIN a.dec : a.dec[t] \in {"half", "all"}}

\* Those of "failed" have no quote or answer, and are passed over.
SleeveStage(answer, h, failed) ==
  /\ Moves("sleeves", "finalize") /\ Keeps
  /\ LET on   == {k \in Enabled \ failed : Active(k, answer[k], h)}
         need == UNION {DOMAIN answer[k].dec \cup Held(Only(cyc.holdings, PoolFor(k, cyc.session)))
                        : k \in on}
         ok   == UNION {answer[k].quoted : k \in on}
         all  == UNION {Proposed(answer[k]) : k \in on}
     IN cyc' = [cyc EXCEPT
          !.sleeveBuys = SetToSeq(UNION {Ordered(k, answer[k], h) : k \in on}),
          !.proposals  = [t \in all |-> answer[CHOOSE k \in on : t \in Pool[k]].dec[t]],
          !.priced = need \cap ok, !.unpriced = need \ ok, !.funds = NoCash]

----------------------------------------------------------------------------
(* PASS 2 and the post manager.                                            *)

Limit == IF cyc.opened THEN Min({8, Max({MaxTrades, 3 * MaxTrades})}) ELSE MaxTrades

Stocks == IF Enabled # {} THEN Without(cyc.holdings, EnabledCodes) ELSE cyc.holdings
Here == Held(Stocks) \cap Market(cyc.session)

\* The final directives: the post manager's, a hold for stocks of the other
\* market it said nothing of, and the sleeves' own where nobody overrules them.
\* Without a stock of this market the post manager is not asked.
Directives(said) ==
  LET heard == IF Here = {} THEN <<>> ELSE said
      away  == Held(Stocks) \ (Here \cup DOMAIN heard)
  IN heard @@ [t \in away |-> "hold"] @@ cyc.proposals

FinalizeSell(final, said) ==
  /\ Moves("finalize", "build") /\ Keeps
  /\ Len(final) <= Limit
  /\ cyc.sellOnly => final = <<>>
  /\ cyc' = [cyc EXCEPT !.targets = Among(final, Market(cyc.session)),
                        !.directives = Directives(said), !.stocks = Stocks,
                        !.cands = <<>>, !.proposals = <<>>]

----------------------------------------------------------------------------
(* The draft.                                                              *)

\* Mutant: the sleeves' holdings stay with the stocks.
ForSaleAll(snap) == cyc.holdings

\* "holdings or snap[...]": without a stock, all that the list of now shows.
ForSale(snap) == IF Held(cyc.stocks) # {} THEN cyc.stocks ELSE snap.list

\* _clamp_orders_to_max_qty, then _clamp_orders_to_psbl with the broker's limits.
Clamped(o, psbl) ==
  LET lim == psbl[o.t]
  IN IF o.side = "buy" THEN [o EXCEPT !.qty = Min({Min({@, QtyCeiling}), lim})]
     ELSE IF o.t \in KR /\ lim \in 1..o.qty THEN [o EXCEPT !.qty = lim]
     ELSE o

\* The market of the moment decides which of the stocks' orders stay.
StockDraft(snap, moods, quoted, tilt, psbl) ==
  LET h     == ForSale(snap)
      sells == IF Rebalances \/ cyc.directives # <<>>
               THEN Sales(h, cyc.directives, moods, snap.total) ELSE <<>>
      buys  == Purchases(SubSeq(cyc.targets, 1, Min({8, Len(cyc.targets)})), Held(h), quoted,
                         snap.cash, snap.total, cyc.opened, tilt)
      all   == sells \o buys
      open  == Among(all, {o \in ToSet(all) : Tradable(o.t, Now)})
      cut   == [i \in DOMAIN open |-> Clamped(open[i], psbl)]
  IN Among(cut, {o \in ToSet(cut) : o.side = "sell" \/ o.qty >= 1})

\* The orders of the sleeves join behind the session's filter and the clamps.  An
\* account that has sunk by the ratio of CONSERVATIVE_MDD buys nothing, like one
\* that could not be read.
BuildOrders(snap, sunk, moods, quoted, tilt, psbl) ==
  /\ Moves("build", "risk") /\ Keeps
  /\ LET silent == ToSet(cyc.targets) \ quoted
         no     == (silent \ cyc.priced) \cup cyc.unpriced
     IN cyc' = [cyc EXCEPT
          !.drafts = StockDraft(snap, moods, quoted, tilt, psbl) \o cyc.sleeveBuys
                     \o SleeveSales(cyc.directives, cyc.holdings, EnabledCodes),
          !.bp = [cash |-> snap.cash, total |-> snap.total, ok |-> snap.ok /\ ~sunk,
                  unpriced |-> no],
          !.sleeveBuys = <<>>, !.directives = <<>>, !.targets = <<>>,
          !.priced = {}, !.unpriced = {}]

----------------------------------------------------------------------------
(* The risk officer.                                                       *)

\* validate_order_draft, one order after the other.
Check ==
  /\ stage = "risk" /\ cyc.drafts # <<>>
  /\ LET o  == Head(cyc.drafts)
         ok == Approves(o, cyc.bp, spent)
     IN /\ cyc' = [cyc EXCEPT !.drafts = Tail(@), !.approved = IF ok THEN Append(@, o) ELSE @]
        /\ spent' = IF ok THEN SpentAfter(o, spent) ELSE spent
  /\ UNCHANGED <<market, stage, tried, sent, cycles>>

\* _dart_risk_review may take purchases back, sales never.
Review(vetoed) ==
  /\ Moves("risk", "execute") /\ cyc.drafts = <<>> /\ Keeps
  /\ LET kept == {o \in ToSet(cyc.approved) : o.side = "sell" \/ o.t \notin vetoed}
         left == Among(cyc.approved, kept)
         free == IF Enabled = {} THEN {} ELSE AllCodes
     IN cyc' = [cyc EXCEPT !.queue = ExecList(left, Limit, free), !.approved = left]

----------------------------------------------------------------------------
(* Execution, one order after the other.                                   *)

Unknown == -1

\* The quantity that is sent, or 0 when a sale is held back: sellable is that
\* of the cycle's reading.
SendQty(o, sellable) ==
  LET q == IF MaxOrderQty > 0 THEN Min({o.qty, MaxOrderQty}) ELSE o.qty
  IN IF o.side = "sell" /\ o.t \in KR /\ cyc.holdings[o.t] > 0 /\ sellable # Unknown
     THEN Min({q, sellable}) ELSE q

ToNxt(o) == o.t \in KR /\ IsExtended(Now)

\* Mutant: a sale is sent although the code is known not to trade there.
PassesToSell(o, quoted) == o.side = "sell" \/ (o.t \notin blocked /\ quoted)

\* _finalize_kr_order_for_session, in an extended session.
Passes(o, quoted) == o.t \notin blocked /\ quoted

Dealt(o) ==
  /\ tried' = Append(tried, o) /\ cyc' = [cyc EXCEPT !.queue = Tail(@)]
  /\ UNCHANGED <<hour, history, stage, spent, cycles>>

HoldBack(o, sellable, quoted) ==
  /\ SendQty(o, sellable) = 0 \/ (ToNxt(o) /\ ~Passes(o, quoted))
  /\ Dealt(o)
  /\ UNCHANGED <<shares, cash, blocked, refusals, sent>>

\* An order that goes to the broker, and what it adds to the cycle's purchases.
Sends(o, sellable, quoted) ==
  /\ SendQty(o, sellable) > 0
  /\ ToNxt(o) => Passes(o, quoted)
  /\ sent' = SpentAfter([o EXCEPT !.qty = SendQty(o, sellable)], sent)

\* An unlisted code is refused by the extended market, and learned.
NxtRefuses(o, sellable, quoted) ==
  /\ Sends(o, sellable, quoted) /\ ToNxt(o) /\ o.t \notin NxtListed
  /\ Dealt(o)
  /\ blocked' = blocked \cup {o.t} /\ refusals' = [refusals EXCEPT ![o.t] = @ + 1]
  /\ UNCHANGED <<shares, cash>>

\* Sent, and refused for another reason or accepted without a fill seen.
Sent(o, sellable, quoted) ==
  /\ Sends(o, sellable, quoted) /\ (ToNxt(o) => o.t \in NxtListed)
  /\ Dealt(o)
  /\ UNCHANGED <<shares, cash, blocked, refusals>>

\* A Korean order seen to fill two seconds later.
Fills(o, sellable, quoted) ==
  LET q == SendQty(o, sellable)
  IN /\ Sends(o, sellable, quoted) /\ o.t \in KR /\ Tradable(o.t, Now)
     /\ ToNxt(o) => o.t \in NxtListed
     /\ IF o.side = "buy" THEN cash >= q * Price[o.t] ELSE shares[o.t] >= q
     /\ shares' = [shares EXCEPT ![o.t] = IF o.side = "buy" THEN @ + q ELSE @ - q]
     /\ cash' = IF o.side = "buy" THEN cash - q * Price[o.t] ELSE cash + q * Price[o.t]
     /\ Dealt(o)
     /\ UNCHANGED <<blocked, refusals>>

Attempt ==
  /\ stage = "execute" /\ cyc.queue # <<>>
  /\ LET o == Head(cyc.queue)
     IN \E sellable \in {Unknown} \cup (0..cyc.holdings[o.t]), quoted \in BOOLEAN :
          \/ HoldBack(o, sellable, quoted)
          \/ NxtRefuses(o, sellable, quoted)
          \/ Sent(o, sellable, quoted)
          \/ Fills(o, sellable, quoted)

----------------------------------------------------------------------------
(* The report closes the rows of every code the cycle's holdings lack.     *)
Report ==
  /\ stage = "execute" /\ cyc.queue = <<>>
  /\ stage' = "idle" /\ cyc' = Blank /\ history' = Held(cyc.holdings)
  /\ UNCHANGED <<hour, shares, cash, blocked, refusals, spent, tried, sent, cycles>>

\* An exception in a stage; the row of the cycle is kept, nothing else.
CycleFails ==
  /\ stage # "idle" /\ stage' = "idle" /\ cyc' = Blank
  /\ UNCHANGED <<market, spent, tried, sent, cycles>>

----------------------------------------------------------------------------
Targeted == ToSet(cyc.targets)

\* The snapshots as far as the draft looks at them.
Seen == {[snap EXCEPT !.list = ForSale(snap)] : snap \in Snapshots}

Build ==
  \E snap \in Seen, sunk \in BOOLEAN, quoted \in SUBSET Targeted :
    \E moods \in [Held(ForSale(snap)) \ DOMAIN cyc.directives -> Moods],
       tilt \in [Targeted -> Tilts],
       psbl \in [Targeted \cup Held(ForSale(snap)) -> PsblLimits] :
      BuildOrders(snap, sunk, moods, quoted, tilt, psbl)

Next ==
  \/ Clock
  \/ \E opened, news \in BOOLEAN : CycleBegins(opened, news)
  \/ Collect
  \/ \E sums \in Sums, full \in BOOLEAN : NewsMacro(sums, full)
  \/ \E picks, news \in Ideas, known \in BOOLEAN :
       \E screened \in SUBSET (ToSet(picks) \cup ToSet(news)) : Select(picks, news, screened, known)
  \/ \E noData \in SUBSET ToSet(cyc.cands) : Quant(noData)
  \/ \E answer \in [Enabled -> Answers], h \in Spread, failed \in SUBSET Enabled :
       SleeveStage(answer, h, failed)
  \/ \E final \in Orderings(ToSet(cyc.cands)),
        said \in PartialMaps(Held(cyc.holdings), {"hold", "half", "all"}) :
       FinalizeSell(final, said)
  \/ Build
  \/ Check
  \/ \E vetoed \in SUBSET {o.t : o \in {p \in ToSet(cyc.approved) : p.side = "buy" /\ p.t \in KR}} :
       Review(vetoed)
  \/ Attempt
  \/ Report
  \/ CycleFails

Spec == Init /\ [][Next]_vars

----------------------------------------------------------------------------
(* Properties.                                                             *)

Stages == {"idle", "collect", "macro", "select", "quant", "sleeves", "finalize", "build",
           "risk", "execute"}
Orders == [t : Tickers, side : {"buy", "sell"}, qty : Nat,
           by : {"sized", "share", "sleeve", "stock"}]

\* Every order names a code and counts at least one share from the draft on,
\* for a sale the broker calls not orderable too, and the account never owes.
TypeOK ==
  /\ hour \in DOMAIN Day /\ shares \in Shares /\ cash \in Nat
  /\ blocked \subseteq KR /\ refusals \in [Tickers -> Nat] /\ history \subseteq Tickers
  /\ stage \in Stages /\ spent \in Nat /\ sent \in Nat /\ cycles \in 0..MaxCycles
  /\ cyc.drafts \in Seq(Orders) /\ cyc.approved \in Seq(Orders) /\ tried \in Seq(Orders)
  /\ \A o \in ToSet(cyc.drafts) \cup ToSet(cyc.queue) : o.qty >= 1

StockBuy(o) == o.side = "buy" /\ o.by \in {"sized", "share"}

\* The purchases of stocks that a cycle sends cost no more than its share of the
\* cash, whatever of the approved orders is taken back, brought forward, cut off,
\* clamped or sent on its way, and whatever single shares the draft let through
\* above their budget.
BudgetIsKept == cyc.bp.cash > 0 => sent * 100 <= cyc.bp.cash * CycleRatio

\* A stock's draft that was cut to its budget is not lost to a limit of the gate:
\* both compute the same limits, at an opening and behind other drafts as well.
\* The one limit the sizing does not know is the buffer the gate wants left of the
\* cash: a draft may want it where a cycle may spend more than the buffer leaves.
\* (A sleeve's code named as a candidate is sized as a stock, and then measured
\* by the sleeve's limit.)
SizingAgreesWithGate ==
  stage = "risk" /\ cyc.drafts # <<>> =>
    LET o == Head(cyc.drafts)
    IN o.by = "sized" /\ ~IsSleeve(o.t) => AsSized(o, cyc.bp.cash, cyc.bp.total, spent)

SoldOf(t, orders) ==
  LET qty == [i \in DOMAIN orders |-> orders[i].qty]
  IN MapThenSumSet(LAMBDA i : qty[i],
                   {i \in DOMAIN orders : orders[i].side = "sell" /\ orders[i].t = t})

\* The two tracks that sell, stocks and sleeves, do not both sell one holding,
\* as long as a stock is held at all.
OneTrackSells ==
  stage = "risk" /\ Held(cyc.stocks) # {} =>
    \A t \in Tickers : SoldOf(t, cyc.drafts) <= cyc.holdings[t]

\* When execution is through, every sale and every sleeve's purchase that was
\* approved has been dealt with, and no purchase came before a sale.
PlannedIsTried ==
  stage = "execute" /\ cyc.queue = <<>> =>
    /\ \A o \in ToSet(cyc.approved) :
         o.side = "sell" \/ (o.by = "sleeve") =>
           \E p \in ToSet(tried) : p.t = o.t /\ p.side = o.side /\ p.by = o.by
    /\ \A i, j \in DOMAIN tried : i < j /\ tried[j].side = "sell" => tried[i].side = "sell"

\* A cycle that has no news, or whose macro report leaves no room for stocks,
\* sends no purchase of a stock, by way of the news' own names neither.
SkippedCycleBuysNoStock ==
  cyc.skip => \A o \in ToSet(cyc.drafts) \cup ToSet(cyc.approved) \cup ToSet(cyc.queue) : ~StockBuy(o)

\* The extended market refuses a code as unknown once, and is not asked again.
NxtRefusesOnce == \A t \in Tickers : refusals[t] <= 1
=============================================================================
