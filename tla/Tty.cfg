SPECIFICATION FairSpec
CONSTANTS
  MaxId = 3
  MaxTasks = 3
  Devices <- TtyWakers
  Readers = 2
  MaxRead = 2
  MaxTyped = 4
INVARIANTS
  InOrderOnce
PROPERTIES
  LineIsRead
