\* One session, whose old connection may still be served beside its new one; pages of
\* two rows trimmed to one.
SPECIFICATION Spec
SYMMETRY Symmetry
CONSTANTS
  s1 = s1
  h1 = h1
  h2 = h2
  p1 = p1
  p2 = p2
  None = None
  Publishers = {p1}
  Sessions = {s1}
  Handlers = {h1, h2}
  Topics = {"mine", "other"}
  Subscription <- MCSubscription
  Limit = 1
  PageFactor = 2
  MaxKept = 1
  MaxEvents = 2
  MaxConnects = 2
  MaxInFlight = 1
INVARIANTS
  TypeOK
  OnlyEmptyFirstReplySkips
  CursorsWereOffered
