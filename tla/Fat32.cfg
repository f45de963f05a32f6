SPECIFICATION Spec
CONSTANTS
    LastCluster = 6
    Slots = 3
    ClusterSize = 2
    FileNames <- MCFileNames
    DirNames <- MCDirNames
    Buffers <- MCBuffers
    MaxCalls = 6
INVARIANTS
  
  NamesResolve
  
