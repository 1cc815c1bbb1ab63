SPECIFICATION Spec
CONSTANTS
  Procs = {p1}
  Inodes = {i1, i2, i3, i4, i5}
  Size = 2
  MaxCrashes = 2
  MaxFaults = 2
  None = None
INVARIANTS ReadyIsVerified
PROPERTIES CacheKept DownloadEnds
