\* The two users' loops from 15:24 to 16:08, over the close in Seoul
\* and the opening of the session after it.
SPECIFICATION TriggerSpec
CONSTANTS
  admin = admin
  member = member
  Users <- Both
  Extended <- OnlyAdmin
  Step = 4
  Opens = 924
  Ends = 968
  Interval = 8
  MaxCycle = 8
  TradingDay <- Seoul
  Weekends <- PossibleWeekends
  MaxMishaps = 2
INVARIANTS
  HoursAreServed
PROPERTIES
  OncePerHour
  ClosesAreAlerted
CHECK_DEADLOCK FALSE
