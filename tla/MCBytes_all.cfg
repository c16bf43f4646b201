SPECIFICATION MCSpec
CONSTANTS
  W = 32
  Poly <- MCPoly
  Blocks <- MCBlocks
  Content <- MCContent
  Wrap = 50
  BYTE = 15
  ML_MASK = 3
  HALF = 6
  HASHSIZE = 16
  REG = 8
  FastLoop = TRUE
  Received <- MCReceived
  Rooms <- MCRooms
  Targets <- MCTargets
  Contexts <- MCContexts
  Held <- MCHeld
INVARIANTS
  TypeOK
  OneByteSeen
  ComputesCrc32OfPlain
  BuffersFit
  StreamIsOneShot
  Portable
  NothingOutside
PROPERTY
  Advances
CHECK_DEADLOCK FALSE
