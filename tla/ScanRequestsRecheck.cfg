CONSTANTS
  Root = {r1}
  Scanner = {click}
  Sweeper = {run}
  Recheck = {recheck}
  MaxJob = 4
  MaxCancels = 1
  MaxRestarts = 1
SPECIFICATION FairSpec
CHECK_DEADLOCK FALSE
INVARIANTS
  LiveRowIsAttended
  RecheckIsHonest
PROPERTY
  RecheckEnds
