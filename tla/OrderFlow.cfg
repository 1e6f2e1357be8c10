\* The flow with a quiet KR ticker and a US one that is not.
SPECIFICATION Spec
CONSTANTS
  k = k
  u = u
  sellK = sellK
  buyU = buyU
  Tickers <- MCTickers
  KRTickers <- MCKRTickers
  Private <- MCQuiet
  Quiet <- MCQuiet
  Orders <- MCOrders
  OrderTicker <- MCOrderTicker
  OrderSide <- MCOrderSide
  OrderQty <- MCOrderQty
  InitHeld <- MCInitHeld
  MaxHeld = 1
  MaxAttempts = 2
  Day <- MCDay
INVARIANTS
  TypeOK
  QuietBookingsAreFills
  QuietLedgerExact
PROPERTIES
  SleepingFillIsBooked
  AcceptedIsDecided
  ImplementsFillBooking
