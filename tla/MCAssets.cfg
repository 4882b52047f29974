CONSTANTS
  Index = "index"
  Path <- MCPath
  Tree <- MCTree
  MaxTrouble = 3
SPECIFICATION FairSpec
INVARIANT GetsPage
INVARIANT NoListing
INVARIANT NothingLeft
PROPERTY Answered
