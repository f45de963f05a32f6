SPECIFICATION Spec
CONSTANTS
  Tasks = {1, 2}
  Channels = {"a"}
  Slots = 2
  Sizes = {1, 2}
  Urgencies = {3, 4}
  MaxBatch = 2
  MaxCalls = 4

  
PROPERTIES
  ReachesAudience
  
