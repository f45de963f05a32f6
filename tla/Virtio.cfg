SPECIFICATION Spec
CONSTANTS
    IndexBound = 14
    QueueSize <- MCQueueSize
    Heap <- MCHeap
    Requests <- MCRequests
    ReadValues = {2}
    MaxBatch = 2
    MaxQueued = 3
    MaxRequests = 8
    Packets = {"p", "q"}
    MaxPackets = 5
INVARIANTS
  AnswersAreTheDevices
  DeviceSeesLiveMemory
  DescriptorsAccounted
  DisplayShowsFramebuffer
PROPERTIES
  CallsReturn
