SPECIFICATION FairSpec
CONSTANTS
  MaxId = 5
  MaxTasks = 3
  MaxSleep = 1
  Devices = {}
INVARIANTS
  QueueDiscipline
  BlockedIsWaiting
  NoLostExit
  SleepsUntilTimer
PROPERTIES
  KeepsExits
  NoStarvation
  WaitPidReturns
