SPECIFICATION Spec
CONSTANTS
  s1 = s1
  s2 = s2
  s3 = s3
  p = p
  q = q
  c1 = c1
  c2 = c2
  c2r = c2r
  huge = huge
  zero = zero
  x = x
  y = y
  Source <- MCSource
  UserPath <- MCUserPath
  Content = {c1, c2, c2r, huge, zero}
  Byte = {x, y}
  Junk = Junk
  Lz4 <- MCLz4
  TextMode <- MCTextMode
  Zeroed <- MCZeroed
  Jobs <- MCJobs
  MaxCalls = 1
  Faults = {"read", "short", "write", "memory"}
INVARIANTS
  TypeOK
  SlicesMatch
  WellFormed
  Faithful
PROPERTY Packs
CHECK_DEADLOCK FALSE
