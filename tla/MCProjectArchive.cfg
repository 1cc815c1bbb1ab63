SPECIFICATION ArchiveSpec
CONSTANTS
  w1 = w1
  w2 = w2
  r1 = r1
  name1 = name1
  name2 = name2
  Writers <- MCWriters
  Readers <- MCReaders
  Paths <- MCPaths
  Crews <- MCCrews
  Types <- TwoTypes
  Payloads <- SmallPayloads
  Size <- SizeOf
  Inodes = {i1, i2, i3, i4, i5, i6, i7}
  MaxSaves = 3
  MaxFaults = 1
  None = None
INVARIANTS ReadersFindChunks OwnChunksReadable
PROPERTY SavePublishesObject
CHECK_DEADLOCK FALSE
