----------------------------- MODULE TradeLedger -----------------------------
(***************************************************************************)
(* The ledger of one user: seeded once from what the broker reports, then  *)
(* moved by the program's own fills only.                                  *)
(*                                                                         *)
(* Each entry is one load, change and save without an await.  A seed is    *)
(* not: its holdings are read first, its dollar deposit later, the file is *)
(* written last, and in between fills execute, fills are entered, and      *)
(* another seed may run (the equity poller's and the reseed request's).    *)
(*                                                                         *)
(* The account is what the executed fills make of the initial one; a read  *)
(* of it is the set of fills it shows.  OrderFlow decides which fills are  *)
(* entered, and when; here any executed fill may be, at any time.          *)
(***************************************************************************)
EXTENDS Integers, FiniteSets, FiniteSetsExt

CONSTANTS Tickers,
          KRTickers,     \* priced in won, traded without a fee
          Fills,
          FillTicker,    \* \
          FillSide,      \*  } of each fill; a price of 0 is a price the
          FillQty,       \*  } caller could not tell
          FillPrice,     \* /
          FillAvgCost,   \* the caller's average cost of the position, or 0
          ByHand,        \* fills of the account's owner: never entered
          InitQty,
          Market,        \* the price a read of the account reports
          Seeders,
          Poller         \* the equity poller; the other seeders are requests

ASSUME LedgerAssumption ==
  /\ KRTickers \subseteq Tickers
  /\ IsFiniteSet(Fills)
  /\ ByHand \subseteq Fills
  /\ FillTicker \in [Fills -> Tickers]
  /\ FillSide \in [Fills -> {"buy", "sell"}]
  /\ FillQty \in [Fills -> Nat \ {0}]
  /\ FillPrice \in [Fills -> Nat]
  /\ FillAvgCost \in [Fills -> Nat]
  /\ InitQty \in [Tickers -> Nat]
  /\ Market \in [Tickers -> Nat \ {0}]
  /\ Poller \in Seeders

VARIABLES
  executed,   \* fills the exchange has executed
  entered,    \* fills apply_fill has been called for
  ledger,     \* ledger.json
  seeder,     \* of each seeder: where it is, the holdings it has read and, as
              \* history, the fills entered since that these do not show
  seed,       \* history: what the seed of the present file read
  late,       \* history: fills entered in the present file since it was saved
  missed      \* history: fills neither shown to that seed nor in the file since

vars == <<executed, entered, ledger, seeder, seed, late, missed>>

IsBuy(f) == FillSide[f] = "buy"
IsKR(t) == t \in KRTickers

----------------------------------------------------------------------------
(* The account after the fills S.  Money is counted in thousandths, so     *)
(* that the fee on dollars, 0.3%, is whole.                                *)

Fee(t, amount) == IF IsKR(t) THEN 0 ELSE 3 * amount

\* What a fill at price px moves in its currency.
CashFlow(f, px) ==
  LET amount == px * FillQty[f]
      fee == Fee(FillTicker[f], amount)
  IN IF IsBuy(f) THEN -(1000 * amount + fee) ELSE 1000 * amount - fee

AccountQty(t, S) ==
  InitQty[t]
    + MapThenSumSet(LAMBDA f : FillQty[f], {f \in S : FillTicker[f] = t /\ IsBuy(f)})
    - MapThenSumSet(LAMBDA f : FillQty[f], {f \in S : FillTicker[f] = t /\ ~IsBuy(f)})

\* The price the exchange took, where the caller could not tell it.
TruePrice(f) == IF FillPrice[f] > 0 THEN FillPrice[f] ELSE Market[FillTicker[f]]

TrueFlow == [f \in Fills |-> CashFlow(f, TruePrice(f))]

AccountCash(kr, S) ==
  MapThenSumSet(LAMBDA f : TrueFlow[f], {f \in S : IsKR(FillTicker[f]) = kr})

----------------------------------------------------------------------------
(* The file, without its audit trail.  A position of no shares is not      *)
(* listed.                                                                 *)

NoLedger == [seeded |-> FALSE, krw |-> 0, usd |-> 0,
             qty |-> [t \in Tickers |-> 0], last |-> [t \in Tickers |-> 0]]

NoSeed == [shares |-> {}, usdRead |-> {}, priced |-> {}, usdKnown |-> FALSE]

Listed(l, t) == l.qty[t] > 0

\* apply_fill's price: the caller's; or else a buy's average cost, a sale's
\* last price of the position, and for want of one its average cost.
EntryPrice(l, f) ==
  IF FillPrice[f] > 0 THEN FillPrice[f]
  ELSE IF ~IsBuy(f) /\ Listed(l, FillTicker[f]) THEN l.last[FillTicker[f]]
  ELSE FillAvgCost[f]

\* Mutant: a sale of shares that are not listed is still paid for.
DegradedByPrice(l, f) == EntryPrice(l, f) = 0

\* Not entered, only counted: no price, or a sale of what is not listed.
Degraded(l, f) ==
  EntryPrice(l, f) = 0 \/ (~IsBuy(f) /\ ~Listed(l, FillTicker[f]))

\* Mutant: a position that is sold out stays listed.
NewQtyStays(l, f) ==
  LET t == FillTicker[f]
  IN IF IsBuy(f) THEN l.qty[t] + FillQty[f]
     ELSE IF l.qty[t] > FillQty[f] THEN l.qty[t] - FillQty[f]
     ELSE l.qty[t]

NewQty(l, f) ==
  LET t == FillTicker[f]
  IN IF IsBuy(f) THEN l.qty[t] + FillQty[f]
     ELSE IF l.qty[t] > FillQty[f] THEN l.qty[t] - FillQty[f]
     ELSE 0

Apply(l, f) ==
  LET t == FillTicker[f]
      px == EntryPrice(l, f)
  IN IF ~l.seeded \/ Degraded(l, f) THEN l
     ELSE [l EXCEPT !.krw = IF IsKR(t) THEN @ + CashFlow(f, px) ELSE @,
                    !.usd = IF IsKR(t) THEN @ ELSE @ + CashFlow(f, px),
                    !.qty[t] = NewQty(l, f),
                    !.last[t] = IF NewQty(l, f) = 0 THEN 0 ELSE px]

\* What seed writes of holdings read when S had executed, less the positions
\* no price is known of, and of a dollar deposit (with what is not settled yet)
\* read when U had; the deposit counts as none when it cannot be read.
SeedOf(S, U, priced, usdKnown) ==
  [seeded |-> TRUE,
   krw |-> AccountCash(TRUE, S), usd |-> IF usdKnown THEN AccountCash(FALSE, U) ELSE 0,
   qty |-> [t \in Tickers |-> IF t \in priced THEN AccountQty(t, S) ELSE 0],
   last |-> [t \in Tickers |-> IF t \in priced /\ AccountQty(t, S) > 0 THEN Market[t] ELSE 0]]

Idle == [at |-> "idle", shares |-> {}, unseen |-> {}]

Init ==
  /\ executed = {}
  /\ entered = {}
  /\ ledger = NoLedger
  /\ seeder = [s \in Seeders |-> Idle]
  /\ seed = NoSeed
  /\ late = {}
  /\ missed = {}

----------------------------------------------------------------------------

history == <<seed, late, missed>>

\* The exchange.
Execute(f) ==
  /\ f \notin executed
  /\ IsBuy(f) \/ FillQty[f] <= AccountQty(FillTicker[f], executed)
  /\ executed' = executed \cup {f}
  /\ UNCHANGED <<entered, ledger, seeder, history>>

\* apply_fill is called; seeds that have read by now may not know the fill.
Called(f) ==
  /\ f \in executed \ (entered \cup ByHand)
  /\ entered' = entered \cup {f}
  /\ seeder' = [s \in Seeders |->
                  IF seeder[s].at \in {"read", "seeding"} /\ f \notin seeder[s].shares
                  THEN [seeder[s] EXCEPT !.unseen = @ \cup {f}] ELSE seeder[s]]
  /\ UNCHANGED executed

\* Without a seeded ledger the fill is skipped.
Enter(f) ==
  /\ Called(f)
  /\ ledger' = Apply(ledger, f)
  /\ late' = IF ledger.seeded THEN late \cup {f} ELSE late
  /\ UNCHANGED <<seed, missed>>

\* No file, or none that can be read.
Emptied == ledger' = NoLedger /\ seed' = NoSeed /\ late' = {} /\ missed' = {}

\* save swallows a write that fails: the file is as it was, or cut short.
EntryUnsaved(f) ==
  /\ ledger.seeded /\ Called(f)
  /\ \/ missed' = missed \cup {f} /\ UNCHANGED <<ledger, seed, late>>
     \/ Emptied

At(s, p) == seeder[s].at = p
Becomes(s, r) == seeder' = [seeder EXCEPT ![s] = r]

\* /api/ledger/reseed deletes the file before it asks the broker.
ReseedBegins(s) ==
  /\ s # Poller /\ At(s, "idle")
  /\ Emptied
  /\ Becomes(s, [Idle EXCEPT !.at = "asked"])
  /\ UNCHANGED <<executed, entered>>

\* portfolio_holdings: what a request goes on to seed with, ledger or not.
ReseedReads(s) ==
  /\ At(s, "asked")
  /\ Becomes(s, [at |-> "seeding", shares |-> executed, unseen |-> {}])
  /\ UNCHANGED <<executed, entered, ledger, history>>

\* The poller reads every time, and decides later whether to seed.
PollerReads ==
  /\ At(Poller, "idle")
  /\ Becomes(Poller, [at |-> "read", shares |-> executed, unseen |-> {}])
  /\ UNCHANGED <<executed, entered, ledger, history>>

\* ensure_value marks the positions it finds a price of, or seeds.
MarkedToMarket(Q) ==
  [ledger EXCEPT !.last = [t \in Tickers |-> IF t \in Q /\ Listed(ledger, t)
                                             THEN Market[t] ELSE @[t]]]

\* Mutant: a ledger that is gone is left to the operator.
PollerOnlyMarks ==
  /\ At(Poller, "read")
  /\ Becomes(Poller, Idle)
  /\ ledger' = IF ledger.seeded THEN MarkedToMarket(Tickers) ELSE ledger
  /\ UNCHANGED <<executed, entered, history>>

PollerValues ==
  /\ At(Poller, "read")
  /\ IF ledger.seeded
     THEN Becomes(Poller, Idle) /\ \E Q \in SUBSET Tickers : ledger' = MarkedToMarket(Q)
     ELSE Becomes(Poller, [seeder[Poller] EXCEPT !.at = "seeding"]) /\ UNCHANGED ledger
  /\ UNCHANGED <<executed, entered, history>>

\* The file is written anew: what was entered since the read is not in it,
\* neither what found no ledger nor what another seed's file had.
SeedSaves(s) ==
  /\ At(s, "seeding")
  /\ \E unpriced \in SUBSET {t \in Tickers : AccountQty(t, seeder[s].shares) > 0},
        usdKnown \in BOOLEAN :
       LET priced == Tickers \ unpriced
       IN /\ ledger' = SeedOf(seeder[s].shares, executed, priced, usdKnown)
          /\ seed' = [shares |-> seeder[s].shares, usdRead |-> executed,
                      priced |-> priced, usdKnown |-> usdKnown]
  /\ late' = {}
  /\ missed' = seeder[s].unseen
  /\ Becomes(s, Idle)
  /\ UNCHANGED <<executed, entered>>

\* The broker's answer is not usable, or there is none; or the seeder's own
\* write fails.
SeederFails(s) ==
  /\ seeder[s].at \in {"asked", "read", "seeding"}
  /\ Becomes(s, Idle)
  /\ \/ UNCHANGED <<ledger, history>>
     \/ ~At(s, "asked") /\ Emptied
  /\ UNCHANGED <<executed, entered>>

\* The process dies, perhaps while it writes.
Crash ==
  /\ seeder' = [s \in Seeders |-> Idle]
  /\ UNCHANGED <<ledger, history>> \/ Emptied
  /\ UNCHANGED <<executed, entered>>

Next == \/ \E f \in Fills : Execute(f) \/ Enter(f) \/ EntryUnsaved(f)
        \/ \E s \in Seeders : \/ ReseedBegins(s) \/ ReseedReads(s)
                              \/ SeedSaves(s) \/ SeederFails(s)
        \/ PollerReads \/ PollerValues \/ Crash

\* The poller asks again every five minutes of a market day, and is answered
\* again and again.
Fairness == /\ WF_vars(PollerReads) /\ SF_vars(PollerValues)
            /\ SF_vars(SeedSaves(Poller))

Spec == Init /\ [][Next]_vars /\ Fairness

----------------------------------------------------------------------------
(* Properties.                                                             *)

LedgerRecord == [seeded : BOOLEAN, krw : Int, usd : Int,
                 qty : [Tickers -> Nat], last : [Tickers -> Nat]]

SeedRecord == [shares : SUBSET Fills, usdRead : SUBSET Fills,
               priced : SUBSET Tickers, usdKnown : BOOLEAN]

SeederRecord == [at : {"idle", "asked", "read", "seeding"},
                 shares : SUBSET Fills, unseen : SUBSET Fills]

\* Every variable keeps its type; no position is ever negative.
TypeOK ==
  /\ executed \subseteq Fills
  /\ entered \subseteq Fills
  /\ ledger \in LedgerRecord
  /\ seeder \in [Seeders -> SeederRecord]
  /\ seed \in SeedRecord
  /\ late \subseteq Fills
  /\ missed \subseteq Fills

\* The fills of t that were entered since the seed were not turned down: a buy
\* had some price, and no more was sold than was listed.
LateOf(t) == {f \in late : FillTicker[f] = t}
Sold(t) == MapThenSumSet(LAMBDA f : FillQty[f], {f \in LateOf(t) : ~IsBuy(f)})

TakenIn(t) == /\ t \in seed.priced
              /\ \A f \in LateOf(t) : IsBuy(f) => FillPrice[f] > 0 \/ FillAvgCost[f] > 0
              /\ Sold(t) <= AccountQty(t, seed.shares)

\* No fill of t met the seed half-way: one that its read showed was not entered
\* after its save, one that it did not show was not entered before, and no
\* entry was lost in writing.
Apart(t, read) ==
  /\ LateOf(t) \cap read = {}
  /\ \A f \in missed \ read : FillTicker[f] # t

\* The seed and the fills since, each counted once: whatever seeds, marks and
\* failures there were, the positions are those of the account after what the
\* seed's read showed and every fill that was ever entered, and so is the money
\* of a currency in which the caller could tell each price.
CashIs(kr, cash, read) ==
  (\A t \in Tickers : IsKR(t) = kr => /\ TakenIn(t) /\ Apart(t, read)
                                     /\ \A f \in LateOf(t) : FillPrice[f] > 0)
    => cash = AccountCash(kr, read \cup entered)

BookIsTheAccount ==
  ledger.seeded =>
    /\ \A t \in Tickers : TakenIn(t) /\ Apart(t, seed.shares) =>
                            ledger.qty[t] = AccountQty(t, seed.shares \cup entered)
    /\ CashIs(TRUE, ledger.krw, seed.shares)
    /\ seed.usdKnown => CashIs(FALSE, ledger.usd, seed.usdRead)

\* A fill trades shares for money at its price: it does not make the book
\* worth more, unless it sells more than the book holds.
Worth(l, t, px) == (IF IsKR(t) THEN l.krw ELSE l.usd) + 1000 * l.qty[t] * px

EntryKeepsWorth ==
  [][\A f \in Fills :
       LET t == FillTicker[f]
           px == EntryPrice(ledger, f)
       IN (Enter(f) /\ (IsBuy(f) \/ ledger.qty[t] = 0 \/ FillQty[f] <= ledger.qty[t]))
            => Worth(ledger', t, px) <= Worth(ledger, t, px)]_vars

\* A ledger that was deleted or lost comes back.
LedgerComesBack == ~ledger.seeded ~> ledger.seeded
=============================================================================
