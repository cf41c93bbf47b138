\* The code's page of four limits; one handler, one client.
SPECIFICATION Spec
CONSTANTS
  s1 = s1
  h1 = h1
  h2 = h2
  p1 = p1
  p2 = p2
  None = None
  Publishers = {p1}
  Sessions = {s1}
  Handlers = {h1}
  Topics = {"mine", "other"}
  Subscription <- MCSubscription
  Limit = 1
  PageFactor = 4
  MaxKept = 1
  MaxEvents = 2
  MaxConnects = 1
  MaxInFlight = 1
INVARIANT ReconnectLosesNothing
