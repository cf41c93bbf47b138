\* One operation, one thread, one crash: the shortest history that shows it.
SPECIFICATION Spec
CONSTANTS
  o1 = o1
  o2 = o2
  p1 = p1
  p2 = p2
  t1 = t1
  t2 = t2
  None = None
  Ops = {o1}
  Players = {p1}
  Threads = {t1}
  Rates = {2}
  RequiredWorks = {3}
  InitialWork = 3
  MaxTime = 2
  MaxStarts = 1
  MaxStops = 0
  MaxRestarts = 1
  MaxFailures = 0
INVARIANT
  RecoveryNeverInventsWork
