SPECIFICATION Spec
CONSTANTS
  a = a
  b = b
  aBal = aBal
  bBal = bBal
  u = u
  v = v
  w = w
  n = n
  crn = crn
  Chunk = {u, v, w, n, crn}
  TextMode <- MCTextMode
  Targets <- MCTargets
  Bak <- MCBak
  Archive <- MixedArchive
  Originals <- MCOriginals
  ReadBack = {"eof", "content"}
  Faults = {"io", "kill", "foreign"}
  MaxRuns = 2
INVARIANTS
  TypeOK
  BackupIntact
  Accounted
PROPERTIES
  BackupReleased
  Replaces
CHECK_DEADLOCK FALSE
