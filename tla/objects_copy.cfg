SPECIFICATION Spec
CONSTANTS
  c1 = c1
  c2 = c2
  k1 = k1
  k2 = k2
  v1 = v1
  v2 = v2
  None = None
  Clients = {c1, c2}
  Keys = {k1, k2}
  Values = {v1}
  MaxAttempts = 1
  Requests <- CopyRequests
INVARIANTS
  SettledKeysNeverFallBack
PROPERTIES
  ImplementsMergedStore
  RequestsAreAnswered
