CONSTANTS
  Views = {v1, v2, v3}
  Slots = {s1, s2}
  Buffers = {b1, b2, b3}
  MaxPending = 2
  None = None
SPECIFICATION RingSpec
INVARIANTS HopsFindTheirView StagingIsQuiet
