\* A weekday and its Saturday; two workers; one death of the server.
CONSTANTS
  Tactical = {tac}
  Structural = {str}
  Policy = {pol}
  MaxWorkers = 2
  MaxTicks = 1
  MaxKills = 1
SPECIFICATION Spec
INVARIANTS Licensed DeferredIsHandedOver WeeklyOnce
PROPERTIES OnlyOwnProposals
CHECK_DEADLOCK FALSE
