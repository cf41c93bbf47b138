\* Liveness: two threads, one operation, no crash; every handler that has begun
\* runs on.  No symmetry: it is not sound for liveness.
SPECIFICATION FairSpec
CONSTANTS
  o1 = o1
  o2 = o2
  p1 = p1
  p2 = p2
  t1 = t1
  t2 = t2
  None = None
  Ops = {o1}
  Players = {p1}
  Threads = {t1, t2}
  Rates = {2}
  RequiredWorks = {3}
  InitialWork = 3
  MaxTime = 2
  MaxStarts = 2
  MaxStops = 1
  MaxRestarts = 0
  MaxFailures = 1
PROPERTIES
  AdvanceCompletes
  EveryBlockSettled
