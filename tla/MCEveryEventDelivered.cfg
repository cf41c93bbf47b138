\* Two rows of other topics fill the page; the third is of the session's own.
SPECIFICATION FairSpec
CONSTANTS
  s1 = s1
  h1 = h1
  h2 = h2
  p1 = p1
  p2 = p2
  None = None
  Publishers = {p1}
  Sessions = {s1}
  Handlers = {h1}
  Topics = {"mine", "other"}
  Subscription <- MCSubscription
  Limit = 1
  PageFactor = 2
  MaxKept = 3
  MaxEvents = 3
  MaxConnects = 1
  MaxInFlight = 1
PROPERTY EveryEventDelivered
