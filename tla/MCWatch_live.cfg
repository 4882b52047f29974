CONSTANTS
  c1 = c1
  c2 = c2
  g1 = g1
  g2 = g2
  w1 = w1
  Client = {c1, c2}
  Goroutine = {g1, g2}
  Watcher = {w1}
  NoThread = NoThread
  NoWatcher = NoWatcher
  MaxValue = 4
SPECIFICATION FairSpec
PROPERTY LatestDelivered
PROPERTY WaitReturns
CHECK_DEADLOCK FALSE
