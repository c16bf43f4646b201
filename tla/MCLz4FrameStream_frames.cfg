SPECIFICATION MCSpec
CONSTANTS
  KB64 = 2
  Squeezed <- MCSqueezed
  TMPBUFF = 5
  TMPOUT = 75
  Memory <- MCMemory
  SRC = 20
  DST = 35
  DICT = 65
  Dictionary <- MCDictionary
  Content <- MCContent
  Jobs <- MCJobs
  MaxFrames = 2
  Addresses <- MCAddresses
  Stream <- MCStream
  Sizes <- MCSizes
  Starts <- MCStarts
  Rooms <- MCRooms
  Dictionaries <- MCDictionaries
  Leftovers <- MCLeftovers
  Reset = "unsized"
INVARIANTS
  TypeOK
  StaysInside
  GoodFramesAreRead
  DamageIsFound
  NeverStalls
  HintsWithinFrame
  ReadsInOrder
PROPERTIES
  IsByteStream
CHECK_DEADLOCK FALSE
