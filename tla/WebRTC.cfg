CONSTANTS
  k1 = k1
  Session = {k1}
  MaxValue = 5
SPECIFICATION FairSpec
INVARIANT TypeOK
INVARIANT QuietAfterReturn
INVARIANT AnswerFitsOffer
INVARIANT InSync
PROPERTY TracksReachClient
PROPERTY SessionEnds
CHECK_DEADLOCK FALSE
