SPECIFICATION Spec
CONSTANTS
  c1 = c1
  c2 = c2
  a = a
  b = b
  None = None
  Clients = {c1, c2}
  Keys = {1}
  Bodies = {a, b}
  Ids = {1, 2}
  MaxPart = 2
  IntRange = 8
  MaxAttempts = 2
  MaxStrays = 1
  Requests <- SomeRequests
INVARIANTS
  TypeOK
  CompletedIsAsAsked
  ListingsAreComplete
PROPERTIES
  RequestsAreAnswered
