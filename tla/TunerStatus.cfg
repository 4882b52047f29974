CONSTANTS
  k1 = k1
  k2 = k2
  Session = {k1, k2}
  Slow = {k2}
  MaxValue = 3
  Buffer = 1
SPECIFICATION FairSpec
INVARIANT TypeOK
INVARIANT QuietAfterReturn
INVARIANT ShowsCurrent
PROPERTY StatusReachesClient
PROPERTY SessionEnds
CHECK_DEADLOCK FALSE
