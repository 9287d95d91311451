SPECIFICATION HttpSpec
CONSTANTS
  None = None
  Versions <- Bodies
  SizeOf <- Lengths
  Asked <- FewHeaders
  Modes = {"honour", "ignore"}
  ErrHead = 2
  ErrDoc = 1
  AccessKey = "key"
  SecretKey = "secret"
  MaxClockSkew = 1
  Now = 10
  Sent <- Uploads
INVARIANTS
  HttpTypeOK
  RoutedAsS3Does
  StoredIsAsSigned
  DecodedIsAPrefix
  LostUploadsAreNotStored
  IntactUploadsAreWhole
  TypeOK
  RangeIsWhatWasAsked
  BytesAreFromTheRange
  FailedReadsAreShort
PROPERTIES
  ImplementsRangedGet
