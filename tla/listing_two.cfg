SPECIFICATION Spec
CONSTANTS
  c1 = c1
  c2 = c2
  Clients = {c1, c2}
  Entries = {1, 2}
  Hidden = {}
  Writable = {2}
  MayBeAbsent = {}
  PageSizes = {1}
  DefaultPage = 4
  IntRange = 16
  MaxFaults = 2
  MaxRestarts = 0
SYMMETRY ClientSymmetry
INVARIANTS
  ListingIsMergedView
PROPERTIES
  ImplementsMergedListing
CHECK_DEADLOCK FALSE
