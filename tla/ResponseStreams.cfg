SPECIFICATION StreamsSpec
SYMMETRY Symmetry
CONSTANTS
  Alphabet <- MCAlphabet
  MaxChunk = 3
  FeedSlice = 2
  MaxLine = 2
  MaxEvent = 2
  MaxDataLines = 2
  MaxIndex = 1
  MaxPart = 0
  ItemIds = {a, b}
  a = a
  b = b
  NoId = NoId
  Items <- MCItems
  Responses <- MCResponses
  MaxEvents = 3
INVARIANTS
  DeliveryIgnoresChunks
  RetainedIsBounded
  IdentityHolds
  ReductionIsExact
  FinishIsFinal
CHECK_DEADLOCK FALSE
