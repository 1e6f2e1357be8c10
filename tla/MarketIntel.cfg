\* The administrator's loop and a member's over two hours and a half.
SPECIFICATION IntelSpec
CONSTANTS
  admin = admin
  member = member
  news = news
  Users <- MCUsers
  Admin = admin
  Sharers <- MCUsers
  Articles <- MCArticles
  HourLen = 2
  MacroTTL = 2
  Openings = {1}
  MaxCycle = 1
  Ends = 4
INVARIANTS
  NewsIsOfTheHour
  MacroIsRecent
  AbsenceIsOfThisCycle
CHECK_DEADLOCK FALSE
