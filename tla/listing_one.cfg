SPECIFICATION Spec
CONSTANTS
  c1 = c1
  c2 = c2
  Clients = {c1}
  Entries = {1, 2, 3}
  Hidden = {1}
  Writable = {1, 2, 3}
  MayBeAbsent = {"overlay", "baseline"}
  PageSizes = {0, 1, 2, 8, 16}
  DefaultPage = 4
  IntRange = 16
  MaxFaults = 1
  MaxRestarts = 1
INVARIANTS
  TypeOK
  ListingIsComplete
  PagesStrictlyIncrease
  OverlayShadowsBaseline
  NoEmptyContinuation
PROPERTIES
  ImplementsMergedListing
  PagesMakeProgress
  ListingsEnd
CHECK_DEADLOCK FALSE
