\* Two orders for one ticker in flight at once.
SPECIFICATION Spec
CONSTANTS
  k = k
  buyA = buyA
  buyB = buyB
  Tickers <- MCTickers
  KRTickers <- MCTickers
  Private <- MCTickers
  Quiet <- MCNone
  Orders <- MCOrders
  OrderTicker <- MCOrderTicker
  OrderSide <- MCOrderSide
  OrderQty <- MCOrderQty
  InitHeld <- MCInitHeld
  MaxHeld = 0
  MaxAttempts = 2
  Day <- MCDay
INVARIANTS
  OnlyFillsAreCounted
