\* One coroutine that reads and one that sells, and three tokens to be granted.
CONSTANTS
  Readers = {r1}
  Sellers = {s1}
  RateRetries = 1
  MaxTokens = 3
  MaxStanding = 1
SPECIFICATION Spec
INVARIANTS OneOrderPerSell SellIsNotBlocked
PROPERTIES DeadTokenIsHealed
CHECK_DEADLOCK FALSE
