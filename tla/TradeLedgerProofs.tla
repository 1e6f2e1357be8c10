------------------------- MODULE TradeLedgerProofs --------------------------
(***************************************************************************)
(* What holds of the trading ledger for all fills, prices, positions and   *)
(* seeds: whoever seeds it, whenever, and whatever write fails, the book   *)
(* is the account after its seed's read and the fills entered; and no      *)
(* entry makes it worth more.                                              *)
(*                                                                         *)
(* The reads of a seed show an account no fill oversells (Sound).  Every   *)
(* fill that was ever entered is one the seed showed, one the file has     *)
(* taken since, or one that met the seed half-way (Accounted).             *)
(***************************************************************************)
EXTENDS TradeLedger, SumsAndLists, TLAPS

----------------------------------------------------------------------------
(* Quantities and money of a set of fills.                                 *)

BuysOf(t, S) == {f \in S : FillTicker[f] = t /\ IsBuy(f)}
SalesOf(t, S) == {f \in S : FillTicker[f] = t /\ ~IsBuy(f)}

LEMMA FillTypes ==
  ASSUME NEW f \in Fills
  PROVE  /\ FillTicker[f] \in Tickers /\ FillSide[f] \in {"buy", "sell"}
         /\ FillQty[f] \in Nat \ {0} /\ FillPrice[f] \in Nat /\ FillAvgCost[f] \in Nat
         /\ Market[FillTicker[f]] \in Nat \ {0} /\ InitQty[FillTicker[f]] \in Nat
BY LedgerAssumption

LEMMA CashFlowType ==
  ASSUME NEW f \in Fills, NEW px \in Nat
  PROVE  CashFlow(f, px) \in Int
<1> DEFINE amount == px * FillQty[f]
<1>1. amount \in Nat
  BY FillTypes
<1> HIDE DEF amount
<1>2. Fee(FillTicker[f], amount) \in Nat
  BY <1>1 DEF Fee
<1> QED
  BY <1>1, <1>2 DEF CashFlow, amount

LEMMA FlowTypes ==
  ASSUME NEW f \in Fills
  PROVE  TrueFlow[f] \in Int
<1>1. TruePrice(f) \in Nat
  BY FillTypes DEF TruePrice
<1> QED
  BY <1>1, CashFlowType DEF TrueFlow

LEMMA AccountIs ==
  ASSUME NEW S \in SUBSET Fills, NEW t \in Tickers
  PROVE  /\ AccountQty(t, S) = InitQty[t] + SumOf(FillQty, BuysOf(t, S))
                                 - SumOf(FillQty, SalesOf(t, S))
         /\ SumOf(FillQty, BuysOf(t, S)) \in Nat
         /\ SumOf(FillQty, SalesOf(t, S)) \in Nat
         /\ AccountQty(t, S) \in Int
<1>1. AccountQty(t, S) = InitQty[t] + SumOf(FillQty, BuysOf(t, S))
                           - SumOf(FillQty, SalesOf(t, S))
  BY DEF AccountQty, SumOf, BuysOf, SalesOf
<1>2. /\ BuysOf(t, S) \subseteq Fills /\ SalesOf(t, S) \subseteq Fills
      /\ IsFiniteSet(BuysOf(t, S)) /\ IsFiniteSet(SalesOf(t, S))
  BY LedgerAssumption, FS_Subset DEF BuysOf, SalesOf
<1>3. \A f \in Fills : FillQty[f] \in Nat
  BY FillTypes
<1>4. SumOf(FillQty, BuysOf(t, S)) \in Nat /\ SumOf(FillQty, SalesOf(t, S)) \in Nat
  BY <1>2, <1>3, SumNat
<1> QED
  BY <1>1, <1>4, LedgerAssumption

LEMMA CashType ==
  ASSUME NEW S \in SUBSET Fills, NEW kr
  PROVE  AccountCash(kr, S) \in Int
<1> DEFINE F == {f \in S : IsKR(FillTicker[f]) = kr}
<1>1. F \subseteq Fills /\ IsFiniteSet(F)
  BY LedgerAssumption, FS_Subset
<1>2. AccountCash(kr, S) = SumOf(TrueFlow, F)
  BY DEF AccountCash, SumOf
<1> QED
  BY <1>1, <1>2, FlowTypes, SumType

WonAt(S) == AccountCash(TRUE, S)
DollarsAt(S) == AccountCash(FALSE, S)

LEMMA CashTypes ==
  ASSUME NEW S \in SUBSET Fills
  PROVE  WonAt(S) \in Int /\ DollarsAt(S) \in Int
BY CashType, Zenon DEF WonAt, DollarsAt

\* One more fill moves the shares of its ticker, by its quantity.
LEMMA AccountMoves ==
  ASSUME NEW S \in SUBSET Fills, NEW f \in Fills, f \notin S, NEW t \in Tickers
  PROVE  /\ SumOf(FillQty, BuysOf(t, S \cup {f}))
              = SumOf(FillQty, BuysOf(t, S)) + (IF FillTicker[f] = t /\ IsBuy(f) THEN FillQty[f] ELSE 0)
         /\ SumOf(FillQty, SalesOf(t, S \cup {f}))
              = SumOf(FillQty, SalesOf(t, S)) + (IF FillTicker[f] = t /\ ~IsBuy(f) THEN FillQty[f] ELSE 0)
<1>1. /\ BuysOf(t, S) \subseteq Fills /\ SalesOf(t, S) \subseteq Fills
      /\ IsFiniteSet(BuysOf(t, S)) /\ IsFiniteSet(SalesOf(t, S))
      /\ f \notin BuysOf(t, S) /\ f \notin SalesOf(t, S)
  BY LedgerAssumption, FS_Subset DEF BuysOf, SalesOf
<1>2. \A g \in Fills : FillQty[g] \in Nat /\ FillQty[g] \in Int
  BY FillTypes
<1>3. SumOf(FillQty, BuysOf(t, S)) \in Nat /\ SumOf(FillQty, SalesOf(t, S)) \in Nat
  BY AccountIs
<1>4. SumOf(FillQty, BuysOf(t, S) \cup {f}) = FillQty[f] + SumOf(FillQty, BuysOf(t, S))
  BY <1>1, <1>2, SumAdd
<1>5. SumOf(FillQty, SalesOf(t, S) \cup {f}) = FillQty[f] + SumOf(FillQty, SalesOf(t, S))
  BY <1>1, <1>2, SumAdd
<1>6. BuysOf(t, S \cup {f}) = IF FillTicker[f] = t /\ IsBuy(f) THEN BuysOf(t, S) \cup {f}
                              ELSE BuysOf(t, S)
  BY DEF BuysOf
<1>7. SalesOf(t, S \cup {f}) = IF FillTicker[f] = t /\ ~IsBuy(f) THEN SalesOf(t, S) \cup {f}
                               ELSE SalesOf(t, S)
  BY DEF SalesOf
<1> QED
  BY <1>2, <1>3, <1>4, <1>5, <1>6, <1>7

----------------------------------------------------------------------------
(* An entry.                                                               *)

LEMMA EntryPriceType ==
  ASSUME NEW l \in LedgerRecord, NEW f \in Fills
  PROVE  EntryPrice(l, f) \in Nat
<1>1. l.last \in [Tickers -> Nat]
  BY DEF LedgerRecord
<1> QED
  BY <1>1, FillTypes DEF EntryPrice

LEMMA NewQtyType ==
  ASSUME NEW l \in LedgerRecord, NEW f \in Fills
  PROVE  NewQty(l, f) \in Nat
<1>1. l.qty \in [Tickers -> Nat]
  BY DEF LedgerRecord
<1> QED
  BY <1>1, FillTypes DEF NewQty

\* What apply_fill makes of the file, field by field.
LEMMA ApplyFields ==
  ASSUME NEW l \in LedgerRecord, NEW f \in Fills, l.seeded, ~Degraded(l, f)
  PROVE  LET t == FillTicker[f]
             px == EntryPrice(l, f)
             m == Apply(l, f)
         IN /\ m \in LedgerRecord
            /\ m.krw = IF IsKR(t) THEN l.krw + CashFlow(f, px) ELSE l.krw
            /\ m.usd = IF IsKR(t) THEN l.usd ELSE l.usd + CashFlow(f, px)
            /\ m.qty = [l.qty EXCEPT ![t] = NewQty(l, f)]
            /\ m.last = [l.last EXCEPT ![t] = IF NewQty(l, f) = 0 THEN 0 ELSE px]
            /\ m.seeded = l.seeded
<1> DEFINE t == FillTicker[f]
           px == EntryPrice(l, f)
           krw == IF IsKR(t) THEN l.krw + CashFlow(f, px) ELSE l.krw
           usd == IF IsKR(t) THEN l.usd ELSE l.usd + CashFlow(f, px)
           qty == [l.qty EXCEPT ![t] = NewQty(l, f)]
           last == [l.last EXCEPT ![t] = IF NewQty(l, f) = 0 THEN 0 ELSE px]
<1>1. /\ l.krw \in Int /\ l.usd \in Int /\ l.qty \in [Tickers -> Nat]
      /\ l.last \in [Tickers -> Nat]
  BY DEF LedgerRecord
<1>2. px \in Nat /\ NewQty(l, f) \in Nat /\ t \in Tickers /\ CashFlow(f, px) \in Int
  BY EntryPriceType, NewQtyType, FillTypes, CashFlowType
<1>3. /\ krw \in Int /\ usd \in Int /\ qty \in [Tickers -> Nat] /\ last \in [Tickers -> Nat]
  BY <1>1, <1>2
<1>4. Apply(l, f) = [l EXCEPT !.krw = krw, !.usd = usd, !.qty = qty, !.last = last]
  BY <1>1 DEF Apply, LedgerRecord
<1> HIDE DEF krw, usd, qty, last
<1>5. /\ Apply(l, f) \in LedgerRecord
      /\ Apply(l, f).krw = krw /\ Apply(l, f).usd = usd /\ Apply(l, f).qty = qty
      /\ Apply(l, f).last = last /\ Apply(l, f).seeded = l.seeded
  BY <1>3, <1>4 DEF LedgerRecord
<1> QED
  BY <1>5 DEF krw, usd, qty, last

LEMMA ApplyNothing ==
  ASSUME NEW l, NEW f, ~l.seeded \/ Degraded(l, f)
  PROVE  Apply(l, f) = l
BY DEF Apply

----------------------------------------------------------------------------
(* The account after a set of fills, of a ticker and of a currency.        *)

Sound(S) == \A t \in Tickers : AccountQty(t, S) >= 0
OfTicker(t, S) == {f \in S : FillTicker[f] = t}
OfCurrency(kr, S) == {f \in S : IsKR(FillTicker[f]) = kr}

LEMMA NothingIsSound == Sound({})
<1> SUFFICES ASSUME NEW t \in Tickers PROVE AccountQty(t, {}) >= 0
  BY DEF Sound
<1>1. BuysOf(t, {}) = {} /\ SalesOf(t, {}) = {}
  BY DEF BuysOf, SalesOf
<1>2. SumOf(FillQty, {}) = 0
  BY SumEmpty
<1>3. {} \in SUBSET Fills
  OBVIOUS
<1>4. AccountQty(t, {}) = InitQty[t] + SumOf(FillQty, BuysOf(t, {})) - SumOf(FillQty, SalesOf(t, {}))
  BY <1>3, AccountIs
<1>5. AccountQty(t, {}) = InitQty[t] + 0 - 0
  BY <1>1, <1>2, <1>4
<1>6. InitQty[t] \in Nat
  BY LedgerAssumption
<1> QED
  BY <1>5, <1>6

\* A position depends on the fills of its ticker only.
LEMMA SameFills ==
  ASSUME NEW S \in SUBSET Fills, NEW U \in SUBSET Fills, NEW t \in Tickers,
         OfTicker(t, S) = OfTicker(t, U)
  PROVE  AccountQty(t, S) = AccountQty(t, U)
<1>1. BuysOf(t, S) = BuysOf(t, U) /\ SalesOf(t, S) = SalesOf(t, U)
  BY DEF OfTicker, BuysOf, SalesOf
<1>2. /\ AccountQty(t, S) = InitQty[t] + SumOf(FillQty, BuysOf(t, S)) - SumOf(FillQty, SalesOf(t, S))
      /\ AccountQty(t, U) = InitQty[t] + SumOf(FillQty, BuysOf(t, U)) - SumOf(FillQty, SalesOf(t, U))
  BY AccountIs
<1> QED
  BY <1>1, <1>2

\* The money of a currency depends on the fills in it only.
LEMMA SameMoney ==
  ASSUME NEW S, NEW U, NEW kr, OfCurrency(kr, S) = OfCurrency(kr, U)
  PROVE  AccountCash(kr, S) = AccountCash(kr, U)
BY Zenon DEF AccountCash, OfCurrency

\* One more fill moves the position of its ticker and the money of its currency.
LEMMA OneMoreFill ==
  ASSUME NEW S \in SUBSET Fills, NEW f \in Fills, f \notin S, NEW t \in Tickers, FillTicker[f] = t
  PROVE  /\ AccountQty(t, S \cup {f}) = IF IsBuy(f) THEN AccountQty(t, S) + FillQty[f]
                                        ELSE AccountQty(t, S) - FillQty[f]
         /\ AccountCash(IsKR(t), S \cup {f}) = AccountCash(IsKR(t), S) + TrueFlow[f]
<1>1. S \cup {f} \in SUBSET Fills
  OBVIOUS
<1> DEFINE B == SumOf(FillQty, BuysOf(t, S))
           C == SumOf(FillQty, SalesOf(t, S))
           BB == SumOf(FillQty, BuysOf(t, S \cup {f}))
           CC == SumOf(FillQty, SalesOf(t, S \cup {f}))
<1>2. B \in Nat /\ C \in Nat /\ AccountQty(t, S) = InitQty[t] + B - C
  BY AccountIs
<1>3. AccountQty(t, S \cup {f}) = InitQty[t] + BB - CC
  BY <1>1, AccountIs
<1>4. /\ BB = B + (IF FillTicker[f] = t /\ IsBuy(f) THEN FillQty[f] ELSE 0)
      /\ CC = C + (IF FillTicker[f] = t /\ ~IsBuy(f) THEN FillQty[f] ELSE 0)
  BY AccountMoves
<1>5. InitQty[t] \in Nat /\ FillQty[f] \in Nat
  BY FillTypes
<1> HIDE DEF B, C, BB, CC
<1>6. AccountQty(t, S \cup {f}) = IF IsBuy(f) THEN AccountQty(t, S) + FillQty[f]
                                  ELSE AccountQty(t, S) - FillQty[f]
  BY <1>2, <1>3, <1>4, <1>5
<1> DEFINE F == OfCurrency(IsKR(t), S)
           kr == IsKR(t)
<1>7. F \subseteq Fills /\ IsFiniteSet(F) /\ f \notin F
  BY LedgerAssumption, FS_Subset DEF OfCurrency
<1>8. OfCurrency(kr, S \cup {f}) = F \cup {f}
  BY DEF OfCurrency
<1>9. AccountCash(kr, S) = SumOf(TrueFlow, F)
  BY DEF AccountCash, SumOf, OfCurrency
<1>10. AccountCash(kr, S \cup {f}) = SumOf(TrueFlow, F \cup {f})
  <2>1. AccountCash(kr, S \cup {f}) = SumOf(TrueFlow, OfCurrency(kr, S \cup {f}))
    BY DEF AccountCash, SumOf, OfCurrency
  <2> QED
    BY <1>8, <2>1
<1>11. (\A g \in F : TrueFlow[g] \in Int) /\ TrueFlow[f] \in Int
  BY <1>7, FlowTypes
<1> HIDE DEF F, kr
<1>12. SumOf(TrueFlow, F \cup {f}) = TrueFlow[f] + SumOf(TrueFlow, F)
  BY <1>7, <1>11, SumAdd
<1>13. SumOf(TrueFlow, F) \in Int
  BY <1>7, <1>11, SumType
<1>14. AccountCash(kr, S \cup {f}) = AccountCash(kr, S) + TrueFlow[f]
  BY <1>9, <1>11, <1>12, <1>13, <1>10
<1> QED
  BY <1>6, <1>14 DEF kr

----------------------------------------------------------------------------
(* The file l, seeded by the reads sd, after the entries L.                *)

SoldOf(t, L) == SumOf(FillQty, SalesOf(t, L))
HasPrice(f) == FillPrice[f] > 0 \/ FillAvgCost[f] > 0

Taken(sd, L, t) == /\ t \in sd.priced
                   /\ \A f \in OfTicker(t, L) : IsBuy(f) => HasPrice(f)
                   /\ SoldOf(t, L) <= AccountQty(t, sd.shares)

Once(t, L, read) == OfTicker(t, L) \cap read = {}

\* No position is below what the seed listed less what was sold since.
Floors(l, sd, L) ==
  \A t \in sd.priced : l.qty[t] >= AccountQty(t, sd.shares) - SoldOf(t, L)

SharesOf(l, sd, L) ==
  \A t \in Tickers : Taken(sd, L, t) /\ Once(t, L, sd.shares) =>
                       l.qty[t] = AccountQty(t, sd.shares \cup L)

AllTaken(kr, sd, L, read) ==
  \A t \in Tickers : IsKR(t) = kr => /\ Taken(sd, L, t) /\ Once(t, L, read)
                                     /\ \A f \in OfTicker(t, L) : FillPrice[f] > 0

CashOf(kr, cash, sd, L, read) ==
  AllTaken(kr, sd, L, read) => cash = AccountCash(kr, read \cup L)

Explained(l, sd, L) ==
  l.seeded => /\ Floors(l, sd, L) /\ SharesOf(l, sd, L)
              /\ CashOf(TRUE, l.krw, sd, L, sd.shares)
              /\ sd.usdKnown => CashOf(FALSE, l.usd, sd, L, sd.usdRead)

\* What is listed has a last price.
Priced(l) == \A t \in Tickers : l.qty[t] > 0 => l.last[t] > 0

LEMMA SeedRecordFields ==
  ASSUME NEW sd \in SeedRecord
  PROVE  /\ sd.shares \in SUBSET Fills /\ sd.usdRead \in SUBSET Fills
         /\ sd.priced \in SUBSET Tickers /\ sd.usdKnown \in BOOLEAN
BY DEF SeedRecord

LEMMA SoldNat ==
  ASSUME NEW L \in SUBSET Fills, NEW t \in Tickers PROVE SoldOf(t, L) \in Nat
BY AccountIs DEF SoldOf

LEMMA SoldMoves ==
  ASSUME NEW L \in SUBSET Fills, NEW f \in Fills, f \notin L, NEW t \in Tickers
  PROVE  SoldOf(t, L \cup {f}) = SoldOf(t, L) + (IF FillTicker[f] = t /\ ~IsBuy(f) THEN FillQty[f] ELSE 0)
BY AccountMoves DEF SoldOf

\* What is taken in with one more entry was so without it.
LEMMA TakenBefore ==
  ASSUME NEW sd \in SeedRecord, NEW L \in SUBSET Fills, NEW f \in Fills, f \notin L,
         NEW t \in Tickers, Taken(sd, L \cup {f}, t)
  PROVE  Taken(sd, L, t)
<1>1. OfTicker(t, L) \subseteq OfTicker(t, L \cup {f})
  BY DEF OfTicker
<1>2. SoldOf(t, L) <= SoldOf(t, L \cup {f})
  BY SoldMoves, SoldNat, FillTypes
<1>3. SoldOf(t, L) \in Nat /\ SoldOf(t, L \cup {f}) \in Nat
  <2>1. L \cup {f} \in SUBSET Fills
    OBVIOUS
  <2> QED
    BY <2>1, SoldNat
<1>4. AccountQty(t, sd.shares) \in Int
  BY SeedRecordFields, AccountIs
<1>5. SoldOf(t, L) <= AccountQty(t, sd.shares)
  BY <1>2, <1>3, <1>4 DEF Taken
<1> QED
  BY <1>1, <1>5 DEF Taken

\* An entry that is taken in is not turned down, and does not reach the floor.
LEMMA TakenIsListed ==
  ASSUME NEW l \in LedgerRecord, NEW sd \in SeedRecord, NEW L \in SUBSET Fills,
         NEW f \in Fills, f \notin L, Floors(l, sd, L), Priced(l),
         Taken(sd, L \cup {f}, FillTicker[f])
  PROVE  /\ ~Degraded(l, f)
         /\ IsBuy(f) \/ FillQty[f] <= l.qty[FillTicker[f]]
<1> DEFINE t == FillTicker[f]
           q == FillQty[f]
           A == AccountQty(t, sd.shares)
           n == l.qty[t]
<1>1. /\ t \in Tickers /\ q \in Nat \ {0} /\ n \in Nat /\ l.last[t] \in Nat
      /\ FillPrice[f] \in Nat /\ FillAvgCost[f] \in Nat
  BY FillTypes DEF LedgerRecord
<1>2. A \in Int
  BY <1>1, SeedRecordFields, AccountIs
<1>3. f \in OfTicker(t, L \cup {f})
  BY DEF OfTicker
<1>4. CASE IsBuy(f)
  <2>1. HasPrice(f)
    BY <1>3, <1>4 DEF Taken
  <2>2. EntryPrice(l, f) > 0
    BY <1>1, <1>4, <2>1 DEF EntryPrice, HasPrice
  <2> QED
    BY <1>1, <1>4, <2>2 DEF Degraded
<1>5. CASE ~IsBuy(f)
  <2>1. SoldOf(t, L \cup {f}) = SoldOf(t, L) + q /\ SoldOf(t, L) \in Nat
    BY <1>1, <1>5, SoldMoves, SoldNat
  <2>2. t \in sd.priced /\ SoldOf(t, L \cup {f}) <= A
    BY DEF Taken
  <2>3. n >= A - SoldOf(t, L)
    BY <2>2 DEF Floors
  <2> HIDE DEF A, n, q, t
  <2>4. q <= n
    BY <1>1, <1>2, <2>1, <2>2, <2>3
  <2>5. Listed(l, t)
    BY <1>1, <2>4 DEF Listed, n
  <2>6. l.last[t] > 0
    BY <1>1, <2>5 DEF Priced, Listed
  <2>7. EntryPrice(l, f) > 0
    BY <1>1, <1>5, <2>5, <2>6 DEF EntryPrice, t
  <2>8. ~Degraded(l, f)
    BY <2>5, <2>7 DEF Degraded, t
  <2> QED
    BY <2>4, <2>8 DEF q, n, t
<1> QED
  BY <1>4, <1>5

----------------------------------------------------------------------------
(* An entry keeps the file explained.                                      *)

LEMMA EntryPrices ==
  ASSUME NEW l \in LedgerRecord, NEW f \in Fills, Priced(l)
  PROVE  Priced(Apply(l, f))
<1>1. CASE ~l.seeded \/ Degraded(l, f)
  BY <1>1, ApplyNothing
<1>2. CASE l.seeded /\ ~Degraded(l, f)
  <2> DEFINE m == Apply(l, f)
             t == FillTicker[f]
             px == EntryPrice(l, f)
             n == NewQty(l, f)
  <2>1. /\ m.qty = [l.qty EXCEPT ![t] = n]
        /\ m.last = [l.last EXCEPT ![t] = IF n = 0 THEN 0 ELSE px]
    BY <1>2, ApplyFields, Zenon
  <2>2. l.qty \in [Tickers -> Nat] /\ l.last \in [Tickers -> Nat] /\ t \in Tickers
    BY FillTypes DEF LedgerRecord
  <2>3. px \in Nat /\ px # 0 /\ n \in Nat
    BY <1>2, EntryPriceType, NewQtyType DEF Degraded
  <2> HIDE DEF m, t, px, n
  <2>4. Priced(m)
    BY <2>1, <2>2, <2>3 DEF Priced
  <2> QED
    BY <2>4 DEF m
<1> QED
  BY <1>1, <1>2

LEMMA EntryFloors ==
  ASSUME NEW l \in LedgerRecord, NEW sd \in SeedRecord, NEW L \in SUBSET Fills,
         NEW f \in Fills, f \notin L, l.seeded, Floors(l, sd, L)
  PROVE  Floors(Apply(l, f), sd, L \cup {f})
<1> DEFINE m == Apply(l, f)
           t == FillTicker[f]
           q == FillQty[f]
<1> SUFFICES ASSUME NEW s \in sd.priced
             PROVE  m.qty[s] >= AccountQty(s, sd.shares) - SoldOf(s, L \cup {f})
  BY DEF Floors
<1> DEFINE A == AccountQty(s, sd.shares)
           C == SoldOf(s, L)
           CC == SoldOf(s, L \cup {f})
<1>1. s \in Tickers
  BY SeedRecordFields
<1>2. /\ A \in Int /\ C \in Nat /\ q \in Nat \ {0} /\ t \in Tickers
      /\ CC = C + (IF t = s /\ ~IsBuy(f) THEN q ELSE 0)
  BY <1>1, SeedRecordFields, AccountIs, SoldNat, SoldMoves, FillTypes
<1>3. l.qty[s] >= A - C /\ l.qty \in [Tickers -> Nat] /\ l.qty[s] \in Nat
  BY <1>1 DEF Floors, LedgerRecord
<1>4. CASE Degraded(l, f)
  <2>1. m = l
    BY <1>4, ApplyNothing
  <2> HIDE DEF m, A, C, CC, t, q
  <2>2. m.qty[s] >= A - CC
    BY <1>2, <1>3, <2>1
  <2> QED
    BY <2>2 DEF A, CC, m
<1>5. CASE ~Degraded(l, f)
  <2>1. m.qty = [l.qty EXCEPT ![t] = NewQty(l, f)]
    BY <1>5, ApplyFields
  <2>2. NewQty(l, f) = IF IsBuy(f) THEN l.qty[t] + q
                       ELSE IF l.qty[t] > q THEN l.qty[t] - q ELSE 0
    BY DEF NewQty
  <2>3. ~IsBuy(f) => l.qty[t] > 0
    BY <1>5 DEF Degraded, Listed
  <2>4. m.qty[s] = IF s = t THEN NewQty(l, f) ELSE l.qty[s]
    BY <1>1, <1>3, <2>1
  <2> HIDE DEF m, A, C, CC, t, q
  <2>5. ASSUME t # s PROVE m.qty[s] >= A - CC
    BY <1>2, <1>3, <2>4, <2>5
  <2>6. ASSUME t = s, IsBuy(f) PROVE m.qty[s] >= A - CC
    BY <1>2, <1>3, <2>2, <2>4, <2>6
  <2>7. ASSUME t = s, ~IsBuy(f) PROVE m.qty[s] >= A - CC
    <3>1. m.qty[s] = (IF l.qty[s] > q THEN l.qty[s] - q ELSE 0) /\ CC = C + q
      BY <1>2, <2>2, <2>4, <2>7
    <3> QED
      BY <1>2, <1>3, <3>1
  <2>8. m.qty[s] >= A - CC
    BY <2>5, <2>6, <2>7
  <2> QED
    BY <2>8 DEF A, CC, m
<1> QED
  BY <1>4, <1>5

LEMMA EntryShares ==
  ASSUME NEW l \in LedgerRecord, NEW sd \in SeedRecord, NEW L \in SUBSET Fills,
         NEW f \in Fills, f \notin L, l.seeded, Floors(l, sd, L), Priced(l),
         SharesOf(l, sd, L)
  PROVE  SharesOf(Apply(l, f), sd, L \cup {f})
<1> DEFINE m == Apply(l, f)
           t == FillTicker[f]
           q == FillQty[f]
           S == sd.shares \cup L
<1> SUFFICES ASSUME NEW s \in Tickers, Taken(sd, L \cup {f}, s), Once(s, L \cup {f}, sd.shares)
             PROVE  m.qty[s] = AccountQty(s, sd.shares \cup (L \cup {f}))
  BY DEF SharesOf
<1>1. /\ S \in SUBSET Fills /\ S \cup {f} \in SUBSET Fills /\ sd.shares \in SUBSET Fills
      /\ sd.shares \cup (L \cup {f}) = S \cup {f}
  BY SeedRecordFields
<1>2. Taken(sd, L, s)
  BY TakenBefore
<1>3. Once(s, L, sd.shares)
  BY DEF Once, OfTicker
<1>4. l.qty[s] = AccountQty(s, S)
  BY <1>2, <1>3 DEF SharesOf
<1>5. l.qty \in [Tickers -> Nat] /\ l.qty[s] \in Nat
  BY DEF LedgerRecord
<1>6. CASE s = t
  <2>1. ~Degraded(l, f) /\ (IsBuy(f) \/ q <= l.qty[t])
    BY <1>6, TakenIsListed
  <2>2. m.qty = [l.qty EXCEPT ![t] = NewQty(l, f)]
    BY <2>1, ApplyFields
  <2>3. f \notin S
    <3>1. f \in OfTicker(t, L \cup {f})
      BY DEF OfTicker
    <3> QED
      BY <1>6, <3>1 DEF Once
  <2>4. AccountQty(t, S \cup {f}) = IF IsBuy(f) THEN AccountQty(t, S) + q ELSE AccountQty(t, S) - q
    BY <1>1, <1>6, <2>3, OneMoreFill
  <2>5. NewQty(l, f) = IF IsBuy(f) THEN l.qty[t] + q
                       ELSE IF l.qty[t] > q THEN l.qty[t] - q ELSE 0
    BY DEF NewQty
  <2>6. q \in Nat \ {0} /\ m.qty[t] = NewQty(l, f)
    BY <1>5, <1>6, <2>2, FillTypes
  <2> HIDE DEF m, t, q, S
  <2> QED
    BY <1>1, <1>4, <1>5, <1>6, <2>1, <2>4, <2>5, <2>6
<1>7. CASE s # t
  <2>1. m.qty[s] = l.qty[s]
    <3>1. CASE Degraded(l, f)
      BY <3>1, ApplyNothing
    <3>2. CASE ~Degraded(l, f)
      <4>1. m.qty = [l.qty EXCEPT ![t] = NewQty(l, f)]
        BY <3>2, ApplyFields
      <4> QED
        BY <1>5, <1>7, <4>1
    <3> QED
      BY <3>1, <3>2
  <2>2. OfTicker(s, S \cup {f}) = OfTicker(s, S)
    BY <1>7 DEF OfTicker
  <2>3. AccountQty(s, S \cup {f}) = AccountQty(s, S)
    <3> HIDE DEF S
    <3> QED
      BY <1>1, <2>2, SameFills
  <2> QED
    BY <1>1, <1>4, <2>1, <2>3
<1> QED
  BY <1>6, <1>7

CashIn(l, kr) == IF kr THEN l.krw ELSE l.usd

LEMMA EntryCash ==
  ASSUME NEW l \in LedgerRecord, NEW sd \in SeedRecord, NEW L \in SUBSET Fills,
         NEW f \in Fills, f \notin L, l.seeded, Floors(l, sd, L), Priced(l),
         NEW kr \in BOOLEAN, NEW read \in SUBSET Fills, CashOf(kr, CashIn(l, kr), sd, L, read)
  PROVE  CashOf(kr, CashIn(Apply(l, f), kr), sd, L \cup {f}, read)
<1> DEFINE m == Apply(l, f)
           t == FillTicker[f]
           px == EntryPrice(l, f)
           S == read \cup L
<1> SUFFICES ASSUME AllTaken(kr, sd, L \cup {f}, read)
             PROVE  CashIn(m, kr) = AccountCash(kr, read \cup (L \cup {f}))
  BY DEF CashOf
<1>1. S \in SUBSET Fills /\ read \cup (L \cup {f}) = S \cup {f} /\ t \in Tickers /\ IsKR(t) \in BOOLEAN
  BY FillTypes DEF IsKR
<1>2. AllTaken(kr, sd, L, read)
  <2> SUFFICES ASSUME NEW s \in Tickers, IsKR(s) = kr
               PROVE  /\ Taken(sd, L, s) /\ Once(s, L, read)
                      /\ \A g \in OfTicker(s, L) : FillPrice[g] > 0
    BY DEF AllTaken
  <2>1. /\ Taken(sd, L \cup {f}, s) /\ Once(s, L \cup {f}, read)
        /\ \A g \in OfTicker(s, L \cup {f}) : FillPrice[g] > 0
    BY DEF AllTaken
  <2>2. Taken(sd, L, s)
    BY <2>1, TakenBefore
  <2>3. OfTicker(s, L) \subseteq OfTicker(s, L \cup {f})
    BY DEF OfTicker
  <2> QED
    BY <2>1, <2>2, <2>3 DEF Once
<1>3. CashIn(l, kr) = AccountCash(kr, S)
  BY <1>2 DEF CashOf
<1>4. CASE IsKR(t) = kr
  <2>1. /\ Taken(sd, L \cup {f}, t) /\ Once(t, L \cup {f}, read)
        /\ \A g \in OfTicker(t, L \cup {f}) : FillPrice[g] > 0
    BY <1>1, <1>4 DEF AllTaken
  <2>2. f \in OfTicker(t, L \cup {f})
    BY DEF OfTicker
  <2>3. f \notin S /\ FillPrice[f] > 0
    BY <2>1, <2>2 DEF Once
  <2>4. ~Degraded(l, f)
    BY <2>1, TakenIsListed
  <2>5. px = FillPrice[f] /\ CashFlow(f, px) = TrueFlow[f]
    BY <2>3 DEF EntryPrice, TrueFlow, TruePrice
  <2>6. CashIn(m, kr) = CashIn(l, kr) + CashFlow(f, px)
    <3>1. /\ m.krw = IF IsKR(t) THEN l.krw + CashFlow(f, px) ELSE l.krw
          /\ m.usd = IF IsKR(t) THEN l.usd ELSE l.usd + CashFlow(f, px)
      BY <2>4, ApplyFields
    <3> HIDE DEF m, px, t
    <3> QED
      BY <1>1, <1>4, <3>1 DEF CashIn
  <2>7. AccountCash(IsKR(t), S \cup {f}) = AccountCash(IsKR(t), S) + TrueFlow[f]
    BY <1>1, <2>3, OneMoreFill
  <2> HIDE DEF m, px, t, S
  <2> QED
    BY <1>1, <1>3, <1>4, <2>5, <2>6, <2>7
<1>5. CASE IsKR(t) # kr
  <2>1. CashIn(m, kr) = CashIn(l, kr)
    <3>1. CASE Degraded(l, f)
      BY <3>1, ApplyNothing
    <3>2. CASE ~Degraded(l, f)
      <4>1. /\ m.krw = IF IsKR(t) THEN l.krw + CashFlow(f, px) ELSE l.krw
            /\ m.usd = IF IsKR(t) THEN l.usd ELSE l.usd + CashFlow(f, px)
        BY <3>2, ApplyFields
      <4> HIDE DEF m, px, t
      <4> QED
        BY <1>1, <1>5, <4>1 DEF CashIn
    <3> QED
      BY <3>1, <3>2
  <2>2. OfCurrency(kr, S \cup {f}) = OfCurrency(kr, S)
    BY <1>5 DEF OfCurrency
  <2>3. AccountCash(kr, S \cup {f}) = AccountCash(kr, S)
    <3> HIDE DEF S
    <3> QED
      BY <2>2, SameMoney
  <2> QED
    BY <1>1, <1>3, <2>1, <2>3
<1> QED
  BY <1>4, <1>5

LEMMA EntryExplains ==
  ASSUME NEW l \in LedgerRecord, NEW sd \in SeedRecord, NEW L \in SUBSET Fills,
         NEW f \in Fills, f \notin L, l.seeded, Explained(l, sd, L), Priced(l)
  PROVE  Explained(Apply(l, f), sd, L \cup {f})
<1>1. /\ Floors(l, sd, L) /\ SharesOf(l, sd, L)
      /\ CashOf(TRUE, l.krw, sd, L, sd.shares)
      /\ sd.usdKnown => CashOf(FALSE, l.usd, sd, L, sd.usdRead)
  BY DEF Explained
<1>2. Floors(Apply(l, f), sd, L \cup {f}) /\ SharesOf(Apply(l, f), sd, L \cup {f})
  BY <1>1, EntryFloors, EntryShares
<1>3. sd.shares \in SUBSET Fills /\ sd.usdRead \in SUBSET Fills
  BY SeedRecordFields
<1>4. \A r : CashIn(r, TRUE) = r.krw /\ CashIn(r, FALSE) = r.usd
  BY DEF CashIn
<1>5. CashOf(TRUE, Apply(l, f).krw, sd, L \cup {f}, sd.shares)
  <2>1. CashOf(TRUE, CashIn(l, TRUE), sd, L, sd.shares)
    BY <1>1, <1>4, Zenon
  <2>2. CashOf(TRUE, CashIn(Apply(l, f), TRUE), sd, L \cup {f}, sd.shares)
    BY <1>1, <1>3, <2>1, EntryCash
  <2> QED
    BY <1>4, <2>2, Zenon
<1>6. ASSUME sd.usdKnown PROVE CashOf(FALSE, Apply(l, f).usd, sd, L \cup {f}, sd.usdRead)
  <2>1. CashOf(FALSE, CashIn(l, FALSE), sd, L, sd.usdRead)
    BY <1>1, <1>4, <1>6, Zenon
  <2>2. CashOf(FALSE, CashIn(Apply(l, f), FALSE), sd, L \cup {f}, sd.usdRead)
    BY <1>1, <1>3, <2>1, EntryCash
  <2> QED
    BY <1>4, <2>2, Zenon
<1> QED
  BY <1>2, <1>5, <1>6 DEF Explained

\* A seed writes what its reads showed.
LEMMA SeedExplains ==
  ASSUME NEW S \in SUBSET Fills, Sound(S), NEW U \in SUBSET Fills,
         NEW priced \in SUBSET Tickers, NEW usdKnown \in BOOLEAN
  PROVE  LET m == SeedOf(S, U, priced, usdKnown)
             sd == [shares |-> S, usdRead |-> U, priced |-> priced, usdKnown |-> usdKnown]
         IN m \in LedgerRecord /\ sd \in SeedRecord /\ Explained(m, sd, {}) /\ Priced(m)
<1> DEFINE krw == WonAt(S)
           cash == DollarsAt(U)
           usd == IF usdKnown THEN cash ELSE 0
           qty == [t \in Tickers |-> IF t \in priced THEN AccountQty(t, S) ELSE 0]
           last == [t \in Tickers |-> IF t \in priced /\ AccountQty(t, S) > 0 THEN Market[t] ELSE 0]
           m == SeedOf(S, U, priced, usdKnown)
           sd == [shares |-> S, usdRead |-> U, priced |-> priced, usdKnown |-> usdKnown]
<1>1. krw \in Int /\ cash \in Int
  BY CashTypes
<1>2. \A t \in Tickers : AccountQty(t, S) \in Nat /\ Market[t] \in Nat \ {0}
  BY AccountIs, LedgerAssumption DEF Sound
<1>3. qty \in [Tickers -> Nat] /\ last \in [Tickers -> Nat]
  BY <1>2
<1>4. m = [seeded |-> TRUE, krw |-> krw, usd |-> usd, qty |-> qty, last |-> last]
  BY Zenon DEF SeedOf, WonAt, DollarsAt
<1>5. \A t \in Tickers : /\ qty[t] = IF t \in priced THEN AccountQty(t, S) ELSE 0
                         /\ qty[t] > 0 => last[t] > 0
  BY <1>2
<1>6. usdKnown => usd = cash
  OBVIOUS
<1>7. /\ sd \in SeedRecord
      /\ sd.shares = S /\ sd.usdRead = U /\ sd.priced = priced /\ sd.usdKnown = usdKnown
  BY DEF SeedRecord
<1> HIDE DEF krw, cash, qty, last, m, sd
<1>8. usd \in Int
  BY <1>1
<1> HIDE DEF usd
<1>9. m \in LedgerRecord /\ m.krw = krw /\ m.usd = usd /\ m.qty = qty /\ m.last = last
  BY <1>1, <1>3, <1>4, <1>8 DEF LedgerRecord
<1>10. Priced(m)
  BY <1>5, <1>9 DEF Priced
<1>11. \A T : T \cup {} = T
  OBVIOUS
<1>12. Floors(m, sd, {})
  <2> SUFFICES ASSUME NEW t \in sd.priced PROVE m.qty[t] >= AccountQty(t, sd.shares) - SoldOf(t, {})
    BY DEF Floors
  <2>1. SalesOf(t, {}) = {}
    BY DEF SalesOf
  <2>2. SoldOf(t, {}) = 0
    BY <2>1, SumEmpty DEF SoldOf
  <2>3. t \in Tickers /\ t \in priced
    BY <1>7
  <2>4. m.qty[t] = AccountQty(t, S) /\ AccountQty(t, S) \in Nat
    BY <1>2, <1>5, <1>9, <2>3
  <2> QED
    BY <1>7, <2>2, <2>4
<1>13. SharesOf(m, sd, {})
  <2> SUFFICES ASSUME NEW t \in Tickers, t \in sd.priced
               PROVE  m.qty[t] = AccountQty(t, sd.shares \cup {})
    BY DEF SharesOf, Taken
  <2> QED
    BY <1>5, <1>7, <1>9, <1>11
<1>14. CashOf(TRUE, m.krw, sd, {}, sd.shares)
  <2>1. m.krw = AccountCash(TRUE, sd.shares \cup {})
    BY <1>7, <1>9, <1>11, Zenon DEF krw, WonAt
  <2> QED
    BY <2>1, Zenon DEF CashOf
<1>15. ASSUME sd.usdKnown PROVE CashOf(FALSE, m.usd, sd, {}, sd.usdRead)
  <2>0. usdKnown
    BY <1>7, <1>15
  <2>1. m.usd = AccountCash(FALSE, sd.usdRead \cup {})
    BY <1>6, <1>7, <1>9, <1>11, <2>0, Zenon DEF cash, DollarsAt
  <2> QED
    BY <2>1, Zenon DEF CashOf
<1>16. Explained(m, sd, {})
  BY <1>12, <1>13, <1>14, <1>15 DEF Explained
<1> QED
  BY <1>7, <1>9, <1>10, <1>16 DEF m, sd

----------------------------------------------------------------------------
(* Types, and where every entry went.                                      *)

HasRead(s) == seeder[s].at \in {"read", "seeding"}

\* A seeder's fills are those its read showed and those it missed since; the
\* file's are those its seed showed, those it took since and those it missed.
SeederKnows(s) ==
  /\ Sound(seeder[s].shares)
  /\ seeder[s].shares \subseteq executed /\ seeder[s].unseen \subseteq entered
  /\ HasRead(s) => entered \subseteq seeder[s].shares \cup seeder[s].unseen

Accounted ==
  ledger.seeded => /\ entered \subseteq (seed.shares \cup late) \cup missed
                   /\ seed.shares \subseteq seed.usdRead

LedgerInv == /\ TypeOK
             /\ Sound(executed) /\ entered \subseteq executed
             /\ \A s \in Seeders : SeederKnows(s)
             /\ late \subseteq entered /\ Accounted

LedgerIInv == LedgerInv /\ Explained(ledger, seed, late) /\ Priced(ledger)

LEMMA NoLedgerType ==
  /\ NoLedger \in LedgerRecord /\ NoLedger.seeded = FALSE /\ NoSeed \in SeedRecord
  /\ Priced(NoLedger)
BY DEF NoLedger, LedgerRecord, NoSeed, SeedRecord, Priced

LEMMA IdleType == /\ Idle \in SeederRecord /\ [Idle EXCEPT !.at = "asked"] \in SeederRecord
                  /\ Idle.shares = {} /\ Idle.unseen = {} /\ Idle.at = "idle"
                  /\ [Idle EXCEPT !.at = "asked"].shares = {}
                  /\ [Idle EXCEPT !.at = "asked"].unseen = {}
                  /\ [Idle EXCEPT !.at = "asked"].at = "asked"
BY DEF Idle, SeederRecord

LEMMA MarkedFields ==
  ASSUME ledger \in LedgerRecord, Priced(ledger), NEW Q
  PROVE  LET m == MarkedToMarket(Q)
         IN /\ m \in LedgerRecord /\ Priced(m)
            /\ m.seeded = ledger.seeded
            /\ m.krw = ledger.krw /\ m.usd = ledger.usd /\ m.qty = ledger.qty
<1> DEFINE last == [t \in Tickers |-> IF t \in Q /\ Listed(ledger, t) THEN Market[t]
                                      ELSE ledger.last[t]]
<1>1. ledger.last \in [Tickers -> Nat]
  BY DEF LedgerRecord
<1>2. last \in [Tickers -> Nat]
  BY <1>1, LedgerAssumption
<1>3. MarkedToMarket(Q) = [ledger EXCEPT !.last = last]
  BY DEF MarkedToMarket, LedgerRecord
<1>4. \A t \in Tickers : ledger.qty[t] > 0 => last[t] > 0
  BY LedgerAssumption DEF Priced
<1> HIDE DEF last
<1> QED
  BY <1>2, <1>3, <1>4 DEF LedgerRecord, Priced

\* The invariant says of the book what the property asks for.
LEMMA ExplainedIsProperty ==
  ASSUME LedgerIInv
  PROVE  BookIsTheAccount
<1>1. SUFFICES ASSUME ledger.seeded
               PROVE  /\ \A t \in Tickers : TakenIn(t) /\ Apart(t, seed.shares) =>
                            ledger.qty[t] = AccountQty(t, seed.shares \cup entered)
                      /\ CashIs(TRUE, ledger.krw, seed.shares)
                      /\ seed.usdKnown => CashIs(FALSE, ledger.usd, seed.usdRead)
  BY Zenon DEF BookIsTheAccount
<1>2. /\ SharesOf(ledger, seed, late) /\ CashOf(TRUE, ledger.krw, seed, late, seed.shares)
      /\ seed.usdKnown => CashOf(FALSE, ledger.usd, seed, late, seed.usdRead)
  BY <1>1 DEF LedgerIInv, Explained
<1>3. /\ seed \in SeedRecord /\ late \in SUBSET Fills /\ entered \in SUBSET Fills
      /\ missed \in SUBSET Fills /\ late \subseteq entered
      /\ entered \subseteq (seed.shares \cup late) \cup missed /\ seed.shares \subseteq seed.usdRead
  BY <1>1 DEF LedgerIInv, LedgerInv, TypeOK, Accounted
<1>4. seed.shares \in SUBSET Fills /\ seed.usdRead \in SUBSET Fills
  BY <1>3, SeedRecordFields
<1>5. \A t : LateOf(t) = OfTicker(t, late)
  BY DEF LateOf, OfTicker
<1>6. \A t \in Tickers : TakenIn(t) => Taken(seed, late, t)
  <2> SUFFICES ASSUME NEW t \in Tickers, TakenIn(t) PROVE Taken(seed, late, t)
    OBVIOUS
  <2>1. {f \in LateOf(t) : ~IsBuy(f)} = SalesOf(t, late)
    BY DEF LateOf, SalesOf
  <2>2. Sold(t) = SoldOf(t, late)
    BY <2>1, Zenon DEF Sold, SoldOf, SumOf
  <2> QED
    BY <1>5, <2>2 DEF TakenIn, Taken, HasPrice
<1>7. ASSUME NEW t \in Tickers, NEW read, Apart(t, read), seed.shares \subseteq read
      PROVE  Once(t, late, read) /\ OfTicker(t, read \cup entered) = OfTicker(t, read \cup late)
  BY <1>3, <1>5, <1>7 DEF Apart, Once, OfTicker
<1>8. ASSUME NEW t \in Tickers, TakenIn(t), Apart(t, seed.shares)
      PROVE  ledger.qty[t] = AccountQty(t, seed.shares \cup entered)
  <2>1. Once(t, late, seed.shares)
        /\ OfTicker(t, seed.shares \cup entered) = OfTicker(t, seed.shares \cup late)
    BY <1>7, <1>8
  <2>2. AccountQty(t, seed.shares \cup entered) = AccountQty(t, seed.shares \cup late)
    BY <1>3, <1>4, <2>1, SameFills
  <2> QED
    BY <1>2, <1>6, <1>8, <2>1, <2>2 DEF SharesOf
<1>9. ASSUME NEW kr \in BOOLEAN, NEW cash, NEW read \in SUBSET Fills, seed.shares \subseteq read,
             CashOf(kr, cash, seed, late, read)
      PROVE  CashIs(kr, cash, read)
  <2> SUFFICES ASSUME \A t \in Tickers : IsKR(t) = kr =>
                        /\ TakenIn(t) /\ Apart(t, read)
                        /\ \A f \in LateOf(t) : FillPrice[f] > 0
               PROVE  cash = AccountCash(kr, read \cup entered)
    BY DEF CashIs
  <2>1. AllTaken(kr, seed, late, read)
    BY <1>5, <1>6, <1>7, <1>9 DEF AllTaken
  <2>2. cash = AccountCash(kr, read \cup late)
    BY <1>9, <2>1 DEF CashOf
  <2>3. OfCurrency(kr, read \cup entered) = OfCurrency(kr, read \cup late)
    <3>1. ASSUME NEW f \in Fills, IsKR(FillTicker[f]) = kr
          PROVE  f \in read \cup entered <=> f \in read \cup late
      <4>1. FillTicker[f] \in Tickers
        BY FillTypes
      <4>2. OfTicker(FillTicker[f], read \cup entered) = OfTicker(FillTicker[f], read \cup late)
        BY <1>7, <1>9, <3>1, <4>1
      <4> QED
        BY <4>2 DEF OfTicker
    <3> QED
      BY <1>3, <3>1 DEF OfCurrency
  <2> QED
    BY <2>2, <2>3, SameMoney
<1>10. CashIs(TRUE, ledger.krw, seed.shares)
  BY <1>2, <1>4, <1>9
<1>11. seed.usdKnown => CashIs(FALSE, ledger.usd, seed.usdRead)
  BY <1>2, <1>3, <1>4, <1>9
<1> QED
  BY <1>8, <1>10, <1>11

----------------------------------------------------------------------------
(* The steps.                                                              *)

LEMMA LedgerInit == Init => LedgerIInv
<1> SUFFICES ASSUME Init PROVE LedgerIInv
  OBVIOUS
<1>1. seeder \in [Seeders -> SeederRecord] /\ \A s \in Seeders : seeder[s] = Idle
  BY IdleType DEF Init
<1>2. \A s \in Seeders : SeederKnows(s)
  BY <1>1, NothingIsSound, IdleType DEF SeederKnows, HasRead
<1>3. executed = {} /\ entered = {} /\ ledger = NoLedger /\ seed = NoSeed /\ late = {} /\ missed = {}
  BY DEF Init
<1>4. TypeOK
  BY <1>1, <1>3, NoLedgerType DEF TypeOK
<1>5. Sound(executed)
  BY <1>3, NothingIsSound
<1>6. Accounted /\ Explained(ledger, seed, late) /\ Priced(ledger)
  BY <1>3, NoLedgerType DEF Accounted, Explained
<1> QED
  BY <1>2, <1>3, <1>4, <1>5, <1>6 DEF LedgerIInv, LedgerInv

LEMMA ExecuteStep ==
  ASSUME LedgerIInv, NEW f \in Fills, Execute(f)
  PROVE  LedgerIInv'
<1>1. /\ executed \in SUBSET Fills /\ f \notin executed /\ executed' = executed \cup {f}
      /\ Sound(executed)
  BY DEF Execute, LedgerIInv, LedgerInv, TypeOK
<1>2. Sound(executed \cup {f})
  <2> SUFFICES ASSUME NEW t \in Tickers PROVE AccountQty(t, executed \cup {f}) >= 0
    BY DEF Sound
  <2>1. AccountQty(t, executed) \in Int /\ AccountQty(t, executed) >= 0
    BY <1>1, AccountIs DEF Sound
  <2>2. CASE FillTicker[f] = t
    <3>1. AccountQty(t, executed \cup {f}) = IF IsBuy(f) THEN AccountQty(t, executed) + FillQty[f]
                                             ELSE AccountQty(t, executed) - FillQty[f]
      BY <1>1, <2>2, OneMoreFill
    <3>2. IsBuy(f) \/ FillQty[f] <= AccountQty(t, executed)
      BY <2>2 DEF Execute
    <3>3. FillQty[f] \in Nat
      BY FillTypes
    <3> QED
      BY <2>1, <3>1, <3>2, <3>3
  <2>3. CASE FillTicker[f] # t
    <3>1. OfTicker(t, executed \cup {f}) = OfTicker(t, executed)
      BY <2>3 DEF OfTicker
    <3>2. AccountQty(t, executed \cup {f}) = AccountQty(t, executed)
      BY <1>1, <3>1, SameFills
    <3> QED
      BY <2>1, <3>2
  <2> QED
    BY <2>2, <2>3
<1>3. UNCHANGED <<seeder, ledger, entered, seed, late, missed>>
  BY DEF Execute, history
<1>4. TypeOK'
  BY <1>1, <1>3 DEF LedgerIInv, LedgerInv, TypeOK
<1>5. \A s \in Seeders : SeederKnows(s)'
  BY <1>1, <1>3 DEF LedgerIInv, LedgerInv, SeederKnows, HasRead
<1>6. Accounted' /\ Explained(ledger, seed, late)' /\ Priced(ledger)'
  BY <1>3 DEF LedgerIInv, LedgerInv, Accounted
<1>7. Sound(executed)' /\ (entered \subseteq executed)' /\ (late \subseteq entered)'
  BY <1>1, <1>2, <1>3 DEF LedgerIInv, LedgerInv
<1> QED
  BY <1>4, <1>5, <1>6, <1>7 DEF LedgerIInv, LedgerInv

\* The seeders under way learn that they do not know the fill.
LEMMA CalledKeeps ==
  ASSUME LedgerIInv, NEW f \in Fills, Called(f)
  PROVE  /\ seeder' \in [Seeders -> SeederRecord] /\ \A s \in Seeders : SeederKnows(s)'
         /\ entered' \subseteq Fills /\ entered' \subseteq executed' /\ executed' = executed
         /\ entered' = entered \cup {f} /\ f \notin entered
<1>1. /\ entered' = entered \cup {f} /\ f \notin entered /\ f \in executed
      /\ executed' = executed /\ entered \subseteq executed /\ executed \subseteq Fills
      /\ seeder \in [Seeders -> SeederRecord] /\ \A s \in Seeders : SeederKnows(s)
  BY DEF Called, LedgerIInv, LedgerInv, TypeOK
<1>2. ASSUME NEW s \in Seeders
      PROVE  /\ seeder'[s] \in SeederRecord
             /\ seeder'[s].at = seeder[s].at /\ seeder'[s].shares = seeder[s].shares
             /\ seeder'[s].unseen \subseteq seeder[s].unseen \cup {f}
             /\ seeder[s].unseen \subseteq seeder'[s].unseen
             /\ HasRead(s) => f \in seeder[s].shares \cup seeder'[s].unseen
  <2>1. seeder'[s] = IF HasRead(s) /\ f \notin seeder[s].shares
                     THEN [seeder[s] EXCEPT !.unseen = @ \cup {f}] ELSE seeder[s]
    BY DEF Called, HasRead
  <2>2. seeder[s] \in SeederRecord
    BY <1>1
  <2> QED
    BY <2>1, <2>2 DEF SeederRecord
<1>3. seeder' \in [Seeders -> SeederRecord]
  <2>1. seeder' = [s \in Seeders |-> seeder'[s]]
    BY DEF Called
  <2> QED
    BY <1>2, <2>1
<1>4. ASSUME NEW s \in Seeders PROVE SeederKnows(s)'
  <2>1. SeederKnows(s)
    BY <1>1
  <2>2. HasRead(s)' <=> HasRead(s)
    BY <1>2 DEF HasRead
  <2>3. Sound(seeder[s].shares)'
    BY <1>2, <2>1 DEF SeederKnows
  <2> QED
    BY <1>1, <1>2, <2>1, <2>2, <2>3 DEF SeederKnows
<1> QED
  BY <1>1, <1>3, <1>4

LEMMA EnterStep ==
  ASSUME LedgerIInv, NEW f \in Fills, Enter(f)
  PROVE  LedgerIInv'
<1>1. /\ seeder' \in [Seeders -> SeederRecord] /\ \A s \in Seeders : SeederKnows(s)'
      /\ entered' \subseteq Fills /\ entered' \subseteq executed' /\ executed' = executed
      /\ entered' = entered \cup {f} /\ f \notin entered
  BY CalledKeeps DEF Enter
<1>2. /\ ledger \in LedgerRecord /\ seed \in SeedRecord /\ late \in SUBSET Fills /\ missed \in SUBSET Fills
      /\ late \subseteq entered /\ Accounted /\ Explained(ledger, seed, late) /\ Priced(ledger)
      /\ Sound(executed) /\ executed \subseteq Fills
  BY DEF LedgerIInv, LedgerInv, TypeOK
<1>3. /\ ledger' = Apply(ledger, f) /\ UNCHANGED <<seed, missed>>
      /\ late' = IF ledger.seeded THEN late \cup {f} ELSE late
  BY DEF Enter
<1>4. CASE ledger.seeded
  <2>1. f \notin late
    BY <1>1, <1>2
  <2>2. Explained(ledger, seed, late)' /\ Priced(ledger)'
    <3>1. Explained(Apply(ledger, f), seed, late \cup {f})
      BY <1>2, <1>4, <2>1, EntryExplains
    <3>2. Priced(Apply(ledger, f))
      BY <1>2, EntryPrices
    <3> QED
      BY <1>3, <1>4, <3>1, <3>2
  <2>3. ledger' \in LedgerRecord /\ ledger'.seeded = ledger.seeded
    <3>1. CASE Degraded(ledger, f)
      BY <1>2, <1>3, <3>1, ApplyNothing
    <3>2. CASE ~Degraded(ledger, f)
      BY <1>2, <1>3, <1>4, <3>2, ApplyFields
    <3> QED
      BY <3>1, <3>2
  <2>4. Accounted'
    BY <1>1, <1>2, <1>3, <1>4 DEF Accounted
  <2>5. TypeOK' /\ Sound(executed)' /\ (late \subseteq entered)'
    BY <1>1, <1>2, <1>3, <1>4, <2>3 DEF TypeOK
  <2> QED
    BY <1>1, <2>2, <2>4, <2>5 DEF LedgerIInv, LedgerInv
<1>5. CASE ~ledger.seeded
  <2>1. ledger' = ledger /\ late' = late
    BY <1>3, <1>5, ApplyNothing
  <2>2. TypeOK' /\ Sound(executed)' /\ (late \subseteq entered)'
    BY <1>1, <1>2, <1>3, <2>1 DEF TypeOK
  <2>3. Accounted' /\ Explained(ledger, seed, late)' /\ Priced(ledger)'
    BY <1>2, <1>3, <1>5, <2>1 DEF Accounted, Explained
  <2> QED
    BY <1>1, <2>2, <2>3 DEF LedgerIInv, LedgerInv
<1> QED
  BY <1>4, <1>5

LEMMA EmptiedIs ==
  ASSUME Emptied
  PROVE  /\ ledger' \in LedgerRecord /\ seed' \in SeedRecord /\ late' = {} /\ missed' = {}
         /\ Accounted' /\ Explained(ledger, seed, late)' /\ Priced(ledger)'
BY NoLedgerType DEF Emptied, Accounted, Explained

LEMMA UnsavedStep ==
  ASSUME LedgerIInv, NEW f \in Fills, EntryUnsaved(f)
  PROVE  LedgerIInv'
<1>1. /\ seeder' \in [Seeders -> SeederRecord] /\ \A s \in Seeders : SeederKnows(s)'
      /\ entered' \subseteq Fills /\ entered' \subseteq executed' /\ executed' = executed
      /\ entered' = entered \cup {f}
  BY CalledKeeps DEF EntryUnsaved
<1>2. /\ ledger \in LedgerRecord /\ seed \in SeedRecord /\ late \in SUBSET Fills /\ missed \in SUBSET Fills
      /\ late \subseteq entered /\ Accounted /\ Explained(ledger, seed, late) /\ Priced(ledger)
      /\ Sound(executed) /\ executed \subseteq Fills
  BY DEF LedgerIInv, LedgerInv, TypeOK
<1>3. CASE missed' = missed \cup {f} /\ UNCHANGED <<ledger, seed, late>>
  <2>1. TypeOK' /\ Sound(executed)' /\ (late \subseteq entered)'
    BY <1>1, <1>2, <1>3 DEF TypeOK
  <2>2. Accounted' /\ Explained(ledger, seed, late)' /\ Priced(ledger)'
    BY <1>1, <1>2, <1>3 DEF Accounted
  <2> QED
    BY <1>1, <2>1, <2>2 DEF LedgerIInv, LedgerInv
<1>4. CASE Emptied
  <2>1. /\ ledger' \in LedgerRecord /\ seed' \in SeedRecord /\ late' = {} /\ missed' = {}
        /\ Accounted' /\ Explained(ledger, seed, late)' /\ Priced(ledger)'
    BY <1>4, EmptiedIs
  <2>2. TypeOK' /\ Sound(executed)' /\ (late \subseteq entered)'
    BY <1>1, <1>2, <2>1 DEF TypeOK
  <2> QED
    BY <1>1, <2>1, <2>2 DEF LedgerIInv, LedgerInv
<1> QED
  BY <1>3, <1>4 DEF EntryUnsaved

\* A step of a seeder that leaves the fills alone and an explained file behind.
LEMMA WriteFrame ==
  ASSUME LedgerIInv, UNCHANGED <<executed, entered>>,
         ledger' \in LedgerRecord, seed' \in SeedRecord, late' \subseteq entered, missed' \subseteq Fills,
         Accounted', Explained(ledger, seed, late)', Priced(ledger)',
         NEW s \in Seeders, NEW r \in SeederRecord, Becomes(s, r), Sound(r.shares),
         r.shares \subseteq executed, r.unseen \subseteq entered,
         r.at \in {"read", "seeding"} => entered \subseteq r.shares \cup r.unseen
  PROVE  LedgerIInv'
<1>1. /\ seeder \in [Seeders -> SeederRecord] /\ executed \subseteq Fills /\ entered \subseteq Fills
      /\ Sound(executed) /\ entered \subseteq executed /\ \A p \in Seeders : SeederKnows(p)
  BY DEF LedgerIInv, LedgerInv, TypeOK
<1>2. /\ seeder' \in [Seeders -> SeederRecord]
      /\ \A p \in Seeders : seeder'[p] = IF p = s THEN r ELSE seeder[p]
  BY <1>1 DEF Becomes
<1>3. ASSUME NEW p \in Seeders PROVE SeederKnows(p)'
  <2>1. CASE p = s
    <3>1. seeder'[p] = r
      BY <1>2, <2>1
    <3> QED
      BY <3>1 DEF SeederKnows, HasRead
  <2>2. CASE p # s
    <3>1. seeder'[p] = seeder[p] /\ SeederKnows(p)
      BY <1>1, <1>2, <2>2
    <3> QED
      BY <3>1 DEF SeederKnows, HasRead
  <2> QED
    BY <2>1, <2>2
<1>4. TypeOK'
  BY <1>1, <1>2 DEF TypeOK
<1>5. Sound(executed)' /\ (entered \subseteq executed)' /\ (late \subseteq entered)'
  BY <1>1
<1> QED
  BY <1>3, <1>4, <1>5 DEF LedgerIInv, LedgerInv

LEMMA SeederStep ==
  ASSUME LedgerIInv, NEW s \in Seeders,
         \/ ReseedBegins(s) \/ ReseedReads(s) \/ SeedSaves(s) \/ SeederFails(s)
         \/ s = Poller /\ (PollerReads \/ PollerValues)
  PROVE  LedgerIInv'
<1>0. /\ seeder[s] \in SeederRecord /\ SeederKnows(s) /\ ledger \in LedgerRecord /\ seed \in SeedRecord
      /\ Sound(executed) /\ executed \in SUBSET Fills /\ entered \subseteq executed
      /\ late \subseteq entered /\ missed \subseteq Fills
      /\ Accounted /\ Explained(ledger, seed, late) /\ Priced(ledger)
  BY DEF LedgerIInv, LedgerInv, TypeOK
<1>1. Idle \in SeederRecord /\ Sound(Idle.shares) /\ Idle.shares = {} /\ Idle.unseen = {}
      /\ Idle.at = "idle"
  BY IdleType, NothingIsSound
<1>2. ASSUME UNCHANGED <<ledger, history>>
      PROVE  /\ ledger' \in LedgerRecord /\ seed' \in SeedRecord /\ late' \subseteq entered
             /\ missed' \subseteq Fills
             /\ Explained(ledger, seed, late)' /\ Priced(ledger)'
  BY <1>0, <1>2 DEF history
<1>3. ASSUME UNCHANGED <<ledger, history, entered>> PROVE Accounted'
  BY <1>0, <1>3 DEF history, Accounted
<1>4. CASE ReseedBegins(s)
  <2> DEFINE r == [Idle EXCEPT !.at = "asked"]
  <2>1. r \in SeederRecord /\ Sound(r.shares) /\ r.shares = {} /\ r.unseen = {} /\ r.at = "asked"
    BY IdleType, NothingIsSound
  <2>2. Becomes(s, r) /\ UNCHANGED <<executed, entered>> /\ Emptied
    BY <1>4 DEF ReseedBegins
  <2> HIDE DEF r
  <2>3. /\ ledger' \in LedgerRecord /\ seed' \in SeedRecord /\ late' \subseteq entered
        /\ missed' \subseteq Fills
        /\ Accounted' /\ Explained(ledger, seed, late)' /\ Priced(ledger)'
    BY <2>2, EmptiedIs
  <2>4. r.shares \subseteq executed /\ r.unseen \subseteq entered
        /\ (r.at \in {"read", "seeding"} => entered \subseteq r.shares \cup r.unseen)
    BY <2>1
  <2> QED
    BY <2>1, <2>2, <2>3, <2>4, WriteFrame
<1>5. ASSUME NEW place \in {"read", "seeding"},
             Becomes(s, [at |-> place, shares |-> executed, unseen |-> {}]),
             UNCHANGED <<executed, entered, ledger, history>>
      PROVE  LedgerIInv'
  <2> DEFINE r == [at |-> place, shares |-> executed, unseen |-> {}]
  <2>1. r \in SeederRecord /\ r.shares = executed /\ r.unseen = {}
    BY <1>0 DEF SeederRecord
  <2>2. Becomes(s, r)
    BY <1>5
  <2> HIDE DEF r
  <2>3. /\ Sound(r.shares) /\ r.shares \subseteq executed /\ r.unseen \subseteq entered
        /\ (r.at \in {"read", "seeding"} => entered \subseteq r.shares \cup r.unseen)
    BY <1>0, <2>1
  <2>4. /\ ledger' \in LedgerRecord /\ seed' \in SeedRecord /\ late' \subseteq entered
        /\ missed' \subseteq Fills
        /\ Accounted' /\ Explained(ledger, seed, late)' /\ Priced(ledger)'
    BY <1>2, <1>3, <1>5
  <2> QED
    BY <1>5, <2>1, <2>2, <2>3, <2>4, WriteFrame
<1>6. CASE ReseedReads(s)
  BY <1>5, <1>6 DEF ReseedReads
<1>7. CASE s = Poller /\ PollerReads
  BY <1>5, <1>7 DEF PollerReads
<1>8. CASE SeederFails(s)
  <2>1. Becomes(s, Idle) /\ UNCHANGED <<executed, entered>>
    BY <1>8 DEF SeederFails
  <2>2. /\ ledger' \in LedgerRecord /\ seed' \in SeedRecord /\ late' \subseteq entered
        /\ missed' \subseteq Fills
        /\ Accounted' /\ Explained(ledger, seed, late)' /\ Priced(ledger)'
    <3>1. CASE UNCHANGED <<ledger, history>>
      BY <1>2, <1>3, <2>1, <3>1
    <3>2. CASE Emptied
      BY <3>2, EmptiedIs
    <3> QED
      BY <1>8, <3>1, <3>2 DEF SeederFails
  <2>3. /\ Idle.shares \subseteq executed /\ Idle.unseen \subseteq entered
        /\ (Idle.at \in {"read", "seeding"} => entered \subseteq Idle.shares \cup Idle.unseen)
    BY <1>1
  <2> QED
    BY <1>1, <2>1, <2>2, <2>3, WriteFrame
<1>9. CASE s = Poller /\ PollerValues
  <2>1. CASE ledger.seeded
    <3>1. PICK Q \in SUBSET Tickers : ledger' = MarkedToMarket(Q)
      BY <1>9, <2>1 DEF PollerValues
    <3>2. Becomes(s, Idle) /\ UNCHANGED <<executed, entered, seed, late, missed>>
      BY <1>9, <2>1 DEF PollerValues, history
    <3>3. /\ ledger' \in LedgerRecord /\ Priced(ledger')
          /\ ledger'.seeded = ledger.seeded
          /\ ledger'.krw = ledger.krw /\ ledger'.usd = ledger.usd /\ ledger'.qty = ledger.qty
      BY <1>0, <3>1, MarkedFields
    <3>4. Explained(ledger, seed, late)'
      <4>1. Explained(ledger', seed, late)
        BY <1>0, <3>3 DEF Explained, Floors, SharesOf
      <4> QED
        BY <3>2, <4>1
    <3>5. /\ Accounted' /\ Priced(ledger)' /\ seed' \in SeedRecord /\ late' \subseteq entered
          /\ missed' \subseteq Fills
      BY <1>0, <3>2, <3>3 DEF Accounted
    <3>6. /\ Idle.shares \subseteq executed /\ Idle.unseen \subseteq entered
          /\ (Idle.at \in {"read", "seeding"} => entered \subseteq Idle.shares \cup Idle.unseen)
      BY <1>1
    <3> QED
      BY <1>1, <3>2, <3>3, <3>4, <3>5, <3>6, WriteFrame
  <2>2. CASE ~ledger.seeded
    <3> DEFINE r == [seeder[s] EXCEPT !.at = "seeding"]
    <3>1. r \in SeederRecord /\ r.shares = seeder[s].shares /\ r.unseen = seeder[s].unseen
      BY <1>0 DEF SeederRecord
    <3>2. Becomes(s, r) /\ UNCHANGED <<executed, entered, ledger, history>> /\ HasRead(s)
      BY <1>9, <2>2 DEF PollerValues, At, HasRead
    <3> HIDE DEF r
    <3>3. /\ Sound(r.shares) /\ r.shares \subseteq executed /\ r.unseen \subseteq entered
          /\ (r.at \in {"read", "seeding"} => entered \subseteq r.shares \cup r.unseen)
      BY <1>0, <3>1, <3>2 DEF SeederKnows
    <3>4. /\ ledger' \in LedgerRecord /\ seed' \in SeedRecord /\ late' \subseteq entered
          /\ missed' \subseteq Fills
          /\ Accounted' /\ Explained(ledger, seed, late)' /\ Priced(ledger)'
      BY <1>2, <1>3, <3>2
    <3> QED
      BY <3>1, <3>2, <3>3, <3>4, WriteFrame
  <2> QED
    BY <2>1, <2>2
<1>10. CASE SeedSaves(s)
  <2> DEFINE S == seeder[s].shares
  <2>1. PICK unpriced \in SUBSET {t \in Tickers : AccountQty(t, S) > 0} :
          \E usdKnown \in BOOLEAN :
            LET priced == Tickers \ unpriced
            IN /\ ledger' = SeedOf(S, executed, priced, usdKnown)
               /\ seed' = [shares |-> S, usdRead |-> executed,
                           priced |-> priced, usdKnown |-> usdKnown]
    BY <1>10 DEF SeedSaves
  <2>2. PICK usdKnown \in BOOLEAN :
               /\ ledger' = SeedOf(S, executed, Tickers \ unpriced, usdKnown)
               /\ seed' = [shares |-> S, usdRead |-> executed,
                           priced |-> Tickers \ unpriced, usdKnown |-> usdKnown]
    BY <2>1
  <2>3. Becomes(s, Idle) /\ UNCHANGED <<executed, entered>> /\ late' = {} /\ missed' = seeder[s].unseen
        /\ HasRead(s)
    BY <1>10 DEF SeedSaves, At, HasRead
  <2>4. S \in SUBSET Fills /\ Sound(S) /\ Tickers \ unpriced \in SUBSET Tickers
    BY <1>0 DEF SeederKnows, SeederRecord
  <2> DEFINE priced == Tickers \ unpriced
             m == SeedOf(S, executed, priced, usdKnown)
             sd == [shares |-> S, usdRead |-> executed, priced |-> priced, usdKnown |-> usdKnown]
  <2>5. m \in LedgerRecord /\ sd \in SeedRecord /\ Explained(m, sd, {}) /\ Priced(m)
    <3> HIDE DEF S
    <3>1. priced \in SUBSET Tickers
      OBVIOUS
    <3> HIDE DEF priced
    <3> QED
      BY <1>0, <2>4, <3>1, SeedExplains
  <2>6. ledger' = m /\ seed' = sd /\ sd.shares = S /\ sd.usdRead = executed
    BY <2>2
  <2> HIDE DEF m, sd, S
  <2>7. /\ ledger' \in LedgerRecord /\ seed' \in SeedRecord
        /\ Explained(ledger, seed, late)' /\ Priced(ledger)'
    BY <2>3, <2>5, <2>6
  <2>8. late' \subseteq entered /\ missed' \subseteq Fills
    BY <1>0, <2>3 DEF SeederRecord
  <2>9. Accounted'
    <3>1. entered \subseteq S \cup seeder[s].unseen /\ S \subseteq executed
      BY <1>0, <2>3 DEF SeederKnows, S
    <3> QED
      BY <2>3, <2>6, <3>1 DEF Accounted
  <2>10. /\ Idle.shares \subseteq executed /\ Idle.unseen \subseteq entered
         /\ (Idle.at \in {"read", "seeding"} => entered \subseteq Idle.shares \cup Idle.unseen)
    BY <1>1
  <2> QED
    BY <1>1, <2>3, <2>7, <2>8, <2>9, <2>10, WriteFrame
<1> QED
  BY <1>4, <1>6, <1>7, <1>8, <1>9, <1>10

LEMMA CrashStep ==
  ASSUME LedgerIInv, Crash
  PROVE  LedgerIInv'
<1>1. /\ ledger \in LedgerRecord /\ seed \in SeedRecord /\ late \subseteq entered /\ missed \subseteq Fills
      /\ executed \subseteq Fills /\ entered \subseteq Fills /\ Sound(executed) /\ entered \subseteq executed
      /\ Accounted /\ Explained(ledger, seed, late) /\ Priced(ledger)
  BY DEF LedgerIInv, LedgerInv, TypeOK
<1>2. UNCHANGED <<executed, entered>> /\ seeder' = [s \in Seeders |-> Idle]
  BY DEF Crash
<1>3. /\ ledger' \in LedgerRecord /\ seed' \in SeedRecord /\ late' \subseteq entered
      /\ missed' \subseteq Fills
      /\ Accounted' /\ Explained(ledger, seed, late)' /\ Priced(ledger)'
  <2>1. CASE UNCHANGED <<ledger, history>>
    BY <1>1, <1>2, <2>1 DEF history, Accounted
  <2>2. CASE Emptied
    BY <2>2, EmptiedIs
  <2> QED
    BY <2>1, <2>2 DEF Crash
<1>4. seeder' \in [Seeders -> SeederRecord] /\ \A s \in Seeders : seeder'[s] = Idle
  BY <1>2, IdleType
<1>5. \A s \in Seeders : SeederKnows(s)'
  BY <1>4, IdleType, NothingIsSound DEF SeederKnows, HasRead
<1>6. TypeOK' /\ Sound(executed)' /\ (entered \subseteq executed)' /\ (late \subseteq entered)'
  BY <1>1, <1>2, <1>3, <1>4 DEF TypeOK
<1> QED
  BY <1>3, <1>5, <1>6 DEF LedgerIInv, LedgerInv

LEMMA LedgerStep ==
  ASSUME LedgerIInv, [Next]_vars
  PROVE  LedgerIInv'
<1>1. CASE UNCHANGED vars
  BY <1>1 DEF vars, LedgerIInv, LedgerInv, TypeOK, SeederKnows, HasRead, Accounted
<1>2. Poller \in Seeders
  BY LedgerAssumption
<1> QED
  BY <1>1, <1>2, ExecuteStep, EnterStep, UnsavedStep, SeederStep, CrashStep DEF Next

\* Every variable keeps its type: the account is never short, no position in the
\* ledger is negative, and every amount of money is a whole number.
THEOREM LedgerTypes == Spec => []TypeOK
<1>1. LedgerIInv => TypeOK
  BY DEF LedgerIInv, LedgerInv
<1> QED
  BY <1>1, LedgerInit, LedgerStep, PTL DEF Spec

\* The book is the account after its seed's read and every fill ever entered,
\* for the tickers none of whose fills met the seed half-way, whatever seeds
\* overlapped and whatever was marked, lost or not written in between.
THEOREM LedgerIsTheAccount == Spec => []BookIsTheAccount
<1>1. LedgerIInv => BookIsTheAccount
  BY ExplainedIsProperty
<1> QED
  BY <1>1, LedgerInit, LedgerStep, PTL DEF Spec

----------------------------------------------------------------------------
(* What an entry does to the book's worth.                                 *)

LEMMA Spread ==
  ASSUME NEW a \in Int, NEW b \in Int, NEW c \in Int
  PROVE  1000 * (a + b) * c = 1000 * a * c + 1000 * (c * b)
OBVIOUS

LEMMA EntryIsNoGain ==
  ASSUME NEW l \in LedgerRecord, NEW f \in Fills,
         IsBuy(f) \/ l.qty[FillTicker[f]] = 0 \/ FillQty[f] <= l.qty[FillTicker[f]]
  PROVE  Worth(Apply(l, f), FillTicker[f], EntryPrice(l, f))
           <= Worth(l, FillTicker[f], EntryPrice(l, f))
<1> DEFINE t == FillTicker[f]
           px == EntryPrice(l, f)
           q == FillQty[f]
           m == Apply(l, f)
<1>1. /\ l.krw \in Int /\ l.usd \in Int /\ l.qty \in [Tickers -> Nat]
      /\ t \in Tickers /\ q \in Nat \ {0} /\ px \in Nat /\ l.qty[t] \in Nat
  BY FillTypes, EntryPriceType DEF LedgerRecord
<1>2. CASE ~l.seeded \/ Degraded(l, f)
  <2>1. m = l
    BY <1>2, ApplyNothing
  <2>2. Worth(l, t, px) \in Int
    <3> HIDE DEF t, px, q, m
    <3>1. l.qty[t] * px \in Int /\ 1000 * l.qty[t] * px \in Int
      BY <1>1
    <3> QED
      BY <1>1, <3>1 DEF Worth
  <2> HIDE DEF t, px, q, m
  <2>3. Worth(m, t, px) <= Worth(l, t, px)
    BY <2>1, <2>2
  <2> QED
    BY <2>3 DEF t, px, m
<1>3. CASE l.seeded /\ ~Degraded(l, f)
  <2> DEFINE fee == Fee(t, px * q)
             cash == IF IsKR(t) THEN l.krw ELSE l.usd
             cashAfter == IF IsKR(t) THEN m.krw ELSE m.usd
             n == l.qty[t]
             nAfter == NewQty(l, f)
  <2>1. m.qty[t] = nAfter /\ cashAfter = cash + CashFlow(f, px)
    <3>1. /\ m.krw = IF IsKR(t) THEN l.krw + CashFlow(f, px) ELSE l.krw
          /\ m.usd = IF IsKR(t) THEN l.usd ELSE l.usd + CashFlow(f, px)
          /\ m.qty = [l.qty EXCEPT ![t] = nAfter]
      BY <1>3, ApplyFields
    <3> HIDE DEF m, t, px, nAfter
    <3>2. m.qty[t] = nAfter
      BY <1>1, <3>1
    <3>3. cashAfter = cash + CashFlow(f, px)
      BY <3>1
    <3> QED
      BY <3>2, <3>3
  <2>2. px * q \in Nat
    <3> HIDE DEF px, q
    <3> QED
      BY <1>1
  <2>3. fee \in Nat
    <3> DEFINE amount == px * q
    <3>1. amount \in Nat
      BY <2>2
    <3> HIDE DEF amount
    <3>2. Fee(t, amount) \in Nat
      BY <3>1 DEF Fee
    <3> QED
      BY <3>2 DEF amount
  <2>4. CashFlow(f, px) = IF IsBuy(f) THEN -(1000 * (px * q) + fee) ELSE 1000 * (px * q) - fee
    BY DEF CashFlow
  <2>5. nAfter = IF IsBuy(f) THEN n + q ELSE IF n > q THEN n - q ELSE 0
    BY DEF NewQty
  <2>6. IsBuy(f) \/ q <= n
    <3>1. IsBuy(f) \/ n > 0
      BY <1>3 DEF Degraded, Listed
    <3> QED
      BY <1>1, <3>1
  <2>7. cash \in Int /\ n \in Nat
    BY <1>1
  <2>8. /\ Worth(m, t, px) = cashAfter + 1000 * m.qty[t] * px
        /\ Worth(l, t, px) = cash + 1000 * n * px
    BY DEF Worth
  <2> HIDE DEF fee, cash, cashAfter, n, nAfter, t, px, q, m
  <2>9. Worth(m, t, px) <= Worth(l, t, px)
    <3>1. CASE IsBuy(f)
      <4>1. 1000 * (n + q) * px = 1000 * n * px + 1000 * (px * q)
        BY <1>1, <2>7, Spread
      <4>2. 1000 * n * px \in Int
        BY <1>1, <2>7
      <4>3. nAfter = n + q /\ CashFlow(f, px) = -(1000 * (px * q) + fee)
        BY <2>4, <2>5, <3>1
      <4>4. Worth(m, t, px) = (cash - (1000 * (px * q) + fee)) + (1000 * n * px + 1000 * (px * q))
        BY <2>1, <2>2, <2>3, <2>7, <2>8, <4>1, <4>3
      <4> DEFINE A == px * q
                 B == 1000 * n * px
      <4>5. A \in Nat /\ B \in Int /\ Worth(m, t, px) = (cash - (1000 * A + fee)) + (B + 1000 * A)
            /\ Worth(l, t, px) = cash + B
        BY <2>2, <2>8, <4>2, <4>4
      <4> HIDE DEF A, B
      <4> QED
        BY <2>3, <2>7, <4>5
    <3>2. CASE ~IsBuy(f)
      <4>1. nAfter = n - q
        BY <1>1, <2>5, <2>6, <2>7, <3>2
      <4>2. n - q \in Int /\ (n - q) + q = n
        BY <1>1, <2>7
      <4>3. 1000 * n * px = 1000 * (n - q) * px + 1000 * (px * q)
        BY <1>1, <4>2, Spread
      <4>4. 1000 * (n - q) * px \in Int
        BY <1>1, <4>2
      <4>5. CashFlow(f, px) = 1000 * (px * q) - fee
        BY <2>4, <3>2
      <4> DEFINE A == px * q
                 B == 1000 * (n - q) * px
      <4>6. A \in Nat /\ B \in Int /\ Worth(m, t, px) = (cash + (1000 * A - fee)) + B
            /\ Worth(l, t, px) = cash + (B + 1000 * A)
        BY <2>1, <2>2, <2>8, <4>1, <4>3, <4>4, <4>5
      <4> HIDE DEF A, B
      <4> QED
        BY <2>3, <2>7, <4>6
    <3> QED
      BY <3>1, <3>2
  <2> QED
    BY <2>9 DEF t, px, m
<1> QED
  BY <1>2, <1>3

\* No entry makes the book worth more at its own price, whatever fees, prices
\* and positions, unless it sells more than the book holds.
THEOREM EntriesKeepWorth == Spec => EntryKeepsWorth
<1> DEFINE Keeps(f) ==
             LET t == FillTicker[f]
                 px == EntryPrice(ledger, f)
             IN (Enter(f) /\ (IsBuy(f) \/ ledger.qty[t] = 0 \/ FillQty[f] <= ledger.qty[t]))
                  => Worth(ledger', t, px) <= Worth(ledger, t, px)
<1>1. LedgerIInv /\ [Next]_vars => [\A f \in Fills : Keeps(f)]_vars
  <2> SUFFICES ASSUME LedgerIInv, NEW f \in Fills, Enter(f),
                      \/ IsBuy(f) \/ ledger.qty[FillTicker[f]] = 0
                      \/ FillQty[f] <= ledger.qty[FillTicker[f]]
               PROVE  Worth(ledger', FillTicker[f], EntryPrice(ledger, f))
                        <= Worth(ledger, FillTicker[f], EntryPrice(ledger, f))
    BY Zenon
  <2>1. ledger \in LedgerRecord /\ ledger' = Apply(ledger, f)
    BY DEF Enter, LedgerIInv, LedgerInv, TypeOK
  <2> QED
    BY <2>1, EntryIsNoGain
<1> QED
  BY <1>1, LedgerInit, LedgerStep, PTL DEF Spec, EntryKeepsWorth
=============================================================================
