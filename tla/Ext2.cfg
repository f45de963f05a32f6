SPECIFICATION Spec
CONSTANTS
  BlocksCount = 13
  BlocksPerGroup = 8
  FirstData = 2
  GroupMeta = 1
  InodesPerGroup = 4
  StartInode = 3
  BlockSize = 2
  NDirect = 1
  Ptrs = 2
  CacheMax = 1
  ContigMin = 2
  ChunkMin = 3
  Names = {a, b}
  DirCap = 4
  Handles = {1}
  WriteSizes = {5}
  MaxSize = 10
  SeekTo = {0}
  SlowTarget = 2
  MaxIo = 4
  MaxOps = 4
SYMMETRY Symmetry
CONSTRAINT NothingLost
INVARIANTS
  
  NamesResolve
  ReadBack
  
