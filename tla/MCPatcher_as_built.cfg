SPECIFICATION FairSpec
CONSTANTS
  a = a
  b = b
  aBal = aBal
  bBal = bBal
  u = u
  v = v
  w = w
  n = n
  crn = crn
  Chunk = {u, v, w, n, crn}
  TextMode <- MCTextMode
  Targets <- MCTargets
  Bak <- MCBak
  Archive <- FrameArchive
  Originals <- MCOriginals
  ReadBack = {"eof"}
  Faults = {}
  MaxRuns = 1
PROPERTY Delivers
CHECK_DEADLOCK FALSE
