SPECIFICATION Spec
CONSTANTS
  a = a
  b = b
  aBal = aBal
  bBal = bBal
  u = u
  v = v
  w = w
  n = n
  crn = crn
  Chunk = {u, v, w, n, crn}
  TextMode <- MCTextMode
  Targets <- MCTargets
  Bak <- MCBak
  Archive <- FrameArchive
  Originals <- MCOriginals
  ReadBack = {"content"}
  Faults = {"io"}
  MaxRuns = 1
INVARIANT Recoverable
CHECK_DEADLOCK FALSE
