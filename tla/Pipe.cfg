SPECIFICATION Spec
CONSTANTS
  MaxId = 3
  MaxTasks = 3
  Devices <- PipeWakers
  Users = 2
  Capacity = 2
  MaxBytes = 4
  MaxEnds = 2
INVARIANTS
  BytesInOrder
  
