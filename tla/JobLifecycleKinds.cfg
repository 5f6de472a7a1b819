CONSTANTS
  Sweep = {scan}
  Single = {resolution}
  Search = {search}
  Cancellable = {scan, search}
  Request = {c1}
  MaxItems = 2
  MaxRestarts = 1
SPECIFICATION FairSpec
CHECK_DEADLOCK FALSE
INVARIANTS
  UncancellableRowHasWorker
  CancelStopsWithinOneItem
PROPERTIES
  ImplementsBoard
  CancelStopsHungWorker
  UncancellableJobEnds
