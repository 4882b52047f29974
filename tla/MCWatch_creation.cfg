CONSTANTS
  c1 = c1
  c2 = c2
  g1 = g1
  g2 = g2
  g3 = g3
  w1 = w1
  w2 = w2
  Client = {c1, c2}
  Goroutine = {g1, g2, g3}
  Watcher = {w1, w2}
  NoThread = NoThread
  NoWatcher = NoWatcher
  MaxValue = 3
SPECIFICATION Spec
PROPERTY FirstCallSeesCreationValue
CHECK_DEADLOCK FALSE
