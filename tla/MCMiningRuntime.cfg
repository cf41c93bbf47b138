\* Two threads serve two operations of two players; a block needs three units and a
\* second of an operation yields two, so that ticks fill blocks exactly, overflow them
\* and carry work over.
SPECIFICATION Spec
SYMMETRY Symmetry
CONSTANTS
  o1 = o1
  o2 = o2
  p1 = p1
  p2 = p2
  t1 = t1
  t2 = t2
  None = None
  Ops = {o1, o2}
  Players = {p1, p2}
  Threads = {t1, t2}
  Rates = {2}
  RequiredWorks = {3}
  InitialWork = 3
  MaxTime = 2
  MaxStarts = 2
  MaxStops = 1
  MaxRestarts = 1
  MaxFailures = 1
INVARIANTS
  TypeOK
  WorkConserved
  CreditedOncePerLife
  AttributionBounded
  MemoryMatchesHistory
PROPERTIES
  ProgressMonotone
  SettlesBlocks
