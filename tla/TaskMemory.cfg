\* Pages of two bytes, the mapping area from page 2 on, and a device frame above
\* those of the allocator.
SPECIFICATION Spec
CONSTANTS
    None = None
    PAGE_SIZE = 2
    MMAP_BASE = 4
    MAX_USER_ADDR = 8
    Task = {1, 2}
    Frame = {0, 1, 2, 3, 4, 5}
    DeviceFrame = 8
    UserPage = {1, 2, 3}
    Breaks = {1, 3, 5, 7}
    MaxPages = 2
    MaxCalls = 5
INVARIANTS
  OwnsWhatItMaps
  NoFreedFrameReachable
  SearchIsExact
PROPERTIES
  MapKeepsTheRest
