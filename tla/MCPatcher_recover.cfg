SPECIFICATION FairSpec
CONSTANTS
  a = a
  b = b
  aBal = aBal
  bBal = bBal
  u = u
  v = v
  w = w
  n = n
  crn = crn
  Chunk = {u, v, w, n, crn}
  TextMode <- MCTextMode
  Targets <- MCTargets
  Bak <- MCBak
  Archive <- ReadableArchive
  Originals <- MCOriginals
  ReadBack = {"eof", "content"}
  Faults = {"kill", "foreign"}
  MaxRuns = 2
INVARIANT Recoverable
PROPERTY Terminates
CHECK_DEADLOCK FALSE
