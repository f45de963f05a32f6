SPECIFICATION Spec
CONSTANTS
  WordBits = 4
  FbSize = 2
  MaxTyped = 2
  MaxFiles = 2
  MaxCalls = 3
  InitPath <- MCInitPath
  Elf <- MCElf
  Order <- MCOrder
  PackedPaths <- MCPaths
  Platforms <- MCPlatforms

  
  
PROPERTIES
  InputReachesTty
