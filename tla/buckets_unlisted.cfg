SPECIFICATION CallSpec
CONSTANTS
  Segments <- MCSegments
  Begins <- MCBegins
  Roots <- Gateway
  Buckets = {"b", "b2"}
  Keys <- MCKeys
  Foreign <- MCForeign
  Prefixes <- MCPrefixes
  Rank <- MCRank
  Calls <- MCCalls
  Clients = {"c1"}
INVARIANTS
  BucketListIsExact
