CONSTANTS
  c1 = c1
  c2 = c2
  p1 = p1
  p2 = p2
  a = a
  b = b
  video = video
  audio = audio
  Client = {c1, c2}
  Pipeline = {p1, p2}
  Sink = {video}
  Channel = {a}
  Unknown = Unknown
  NoClient = NoClient
  NoChannel = NoChannel
  NoPipeline = NoPipeline
SPECIFICATION FairSpec
PROPERTY CallReturns
