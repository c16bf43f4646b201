SPECIFICATION Spec
CONSTANTS
  BYTE = 15
  ML_MASK = 3
  HALF = 6
  HASHSIZE = 16
  REG = 8
  SkipTrigger = 2
  FastLoop = TRUE
  KB4 = 20
  GB1 = 60
  MaxOffset = 100
  HKB4 = 16
  HGB1 = 60
  HGB2 = 90
  LZ4_OPT_NUM = 24
  Levels = {3, 9, 10, 12}
  Settings <- MCSettings
  Memory <- MCMemory
  SRC = 121
  SrcEnd = 181
  SRC2 = 191
  SAVE = 41
  RSAVE = 81
  DST = 221
  DstEnd = 300
  Dicts <- MCDicts
  Content <- MCContent
  Alone <- MCAlone
  Chunks <- MCChunks
  MaxChunk = 18
  Damages <- MCDamages
  Caps <- MCCaps
  MaxBlocks = 2
INVARIANT TypeOK RoundTrip Fits SearchStaysInside EndOfBlock DecodesTheFormat
CHECK_DEADLOCK FALSE
