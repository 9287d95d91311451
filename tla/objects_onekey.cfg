SPECIFICATION Spec
CONSTANTS
  c1 = c1
  c2 = c2
  k1 = k1
  k2 = k2
  v1 = v1
  v2 = v2
  None = None
  Clients = {c1, c2}
  Keys = {k1}
  Values = {v1, v2}
  MaxAttempts = 2
  Requests <- OneKeyRequests
SYMMETRY ClientSymmetry
INVARIANTS
  TypeOK
  SettledKeysNeverFallBack
  CreateOnlyKeepsVisibleKeys
PROPERTIES
  ImplementsMergedStore
