\* The ledger through seeds, reseeds, crashes and entries.
CONSTANTS
  Tickers = {"kr", "us"}
  KRTickers = {"kr"}
  Fills <- MCFills
  FillTicker <- MCFillTicker
  FillSide <- MCFillSide
  FillQty <- MCFillQty
  FillPrice <- MCFillPrice
  FillAvgCost <- MCFillAvgCost
  ByHand = {}
  InitQty <- MCInitQty
  Market <- MCMarket
  Seeders = {"poller", "reseed"}
  Poller = "poller"
SPECIFICATION Spec
 
PROPERTIES EntryKeepsWorth LedgerComesBack
