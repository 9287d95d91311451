SPECIFICATION CallSpec
CONSTANTS
  Segments <- MCSegments
  Begins <- MCBegins
  Roots <- Both
  Buckets = {"b", "b2"}
  Keys <- MCKeys
  Foreign <- MCForeign
  Prefixes <- MCPrefixes
  Rank <- MCRank
  Calls <- MCCalls
  Clients = {"c1"}
INVARIANTS
  CallTypeOK
  BucketListsAreWhole
  ProbesAreTrue
  KeysDoNotAlias
  ListingIsTheBuckets
  ProbeIsExact
  ListedBucketsExist
PROPERTIES
  BucketCallsAreAnswered
