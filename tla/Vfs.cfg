SPECIFICATION Spec
CONSTANTS
    Names <- MCNames
    Fss = {0, 1}
    Handles = {h1}
    Paths <- MCPaths
    Targets <- MCTargets
    MaxSymlinkDepth = 2
    MaxNest = 2
    InitDirs <- MCDirs
    MaxCalls = 4
INVARIANTS
  CacheCoherent
  DotDotGoesBack
  UnmountRestores
