SPECIFICATION Spec
CONSTANTS
  empty = empty
  short = short
  long = long
  None = None
  Versions = {empty, short, long}
  SizeOf <- Sizes
  Asked <- AllHeaders
  Modes = {"ignore"}
  ErrHead = 2
  ErrDoc = 1
INVARIANTS
  DeclaredIsWritten
