CONSTANTS
  c1 = c1
  c2 = c2
  t1 = t1
  t2 = t2
  Client = {c1, c2}
  File <- MCFile
  Numeral <- MCNumeral
  Decimal <- MCDecimal
  Limit = 1
  Name <- MCName
  NoName = ""
  Send <- MCSend
  Size <- MCSize
  Halt = Halt
  Stream = {t1, t2}
  NoStream = NoStream
  NoRequest = NoRequest
SPECIFICATION FairSpec
INVARIANT ParseIsExact
INVARIANT RoundTrip
INVARIANT ListedIsTunable
INVARIANT Conventions
INVARIANT ParametersArrive
INVARIANT CodeIsTrue
PROPERTY NothingHangs
CHECK_DEADLOCK FALSE
