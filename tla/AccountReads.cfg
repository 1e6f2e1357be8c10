CONSTANTS
  Coroutines = {r1, r2}
  Pollers = {r1}
  Stocks = {a}
  Small = {}
  FirstPage = {a}
  MaxTrades = 1
  NoSnap = NoSnap
  NoPoint = NoPoint
SPECIFICATION ReadsSpec
INVARIANTS NoGhosts HoldingsStay CurveKeepsUs
CHECK_DEADLOCK FALSE
