CONSTANTS
  c1 = c1
  g1 = g1
  g2 = g2
  g3 = g3
  w1 = w1
  w2 = w2
  Client = {c1}
  Goroutine = {g1, g2, g3}
  Watcher = {w1, w2}
  NoThread = NoThread
  NoWatcher = NoWatcher
  MaxValue = 2
SPECIFICATION SchedSpec
PROPERTY ValueLockReleased
PROPERTY DeliveredUnlessBusy
CHECK_DEADLOCK FALSE
