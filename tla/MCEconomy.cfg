SPECIFICATION Spec
CONSTANTS
  alice = alice
  bob = bob
  carol = carol
  rig = rig
  rack = rack
  r1 = r1
  r2 = r2
  k1 = k1
  k2 = k2
  Players <- MCPlayers
  Items <- MCItems
  Upgrades = {rig, rack}
  Stocked = {rig}
  Restocking = {rig}
  Starter = starter
  Limit <- MCLimit
  Price <- MCPrice
  Unlocked <- MCUnlocked
  Startable <- MCStartable
  Listings = {l1}
  ListPrice = 20
  Quantities = {1}
  ListQuantities = {1}
  Requests = {r1, r2}
  Keys = {k1, k2}
  Income = 20
  MaxTries = 2
  MaxMinted = 60
  MaxElapsed = 1
  None = None
SYMMETRY Symmetry
INVARIANTS
  TypeOK
  NoOverdraft
  UnitsConserved
  SoldWithinSupply
PROPERTIES
  StartsOnce
  AtomicTrades
CHECK_DEADLOCK FALSE
