SPECIFICATION Spec
CONSTANTS
  c1 = c1
  c2 = c2
  Clients = {c1, c2}
  Entries = {1, 2, 3}
  Hidden = {}
  Writable = {}
  MayBeAbsent = {}
  PageSizes = {1, 2}
  DefaultPage = 4
  IntRange = 16
  MaxFaults = 0
  MaxRestarts = 1
INVARIANTS
  EntriesAreNotSkipped
CHECK_DEADLOCK FALSE
