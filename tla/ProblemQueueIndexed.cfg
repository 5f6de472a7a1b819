CONSTANTS
  Observer = {scan, poll}
  Admin = {a1, a2}
  MaxRow = 7
  MaxFlips = 2
  MaxRollbacks = 1
  Indexed = TRUE
  Advisory = FALSE
SPECIFICATION FairSpec
PROPERTIES
  StaleProblemsClear
  StandingConditionShows
