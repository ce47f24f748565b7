SPECIFICATION Spec
CONSTANTS
  Limit = 5
  MinReadChunk = 2
  TailSlack = 2
  StreamThreshold = 1
  StreamChunk = 1
  Lengths <- MCLengths
  MaxFields = 2
INVARIANTS
  NoSecretLeft
  ReadIsExact
  OneReading
