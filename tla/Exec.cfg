SPECIFICATION Spec
CONSTANTS
    PAGE_SIZE = 4
    MMAP_BASE = 40
    MAX_USER_ADDR = 64
    None = None
    Nil = Nil
    MAX_HANDLES = 2
    MAX_FDS = 2
    Images <- MCImages
    Visible <- MCVisible
    Prepared = {"scarlet", "xv6"}
    InitPath = "init"
    NumFrames = 18
    PIE_BASE = 16
    INTERP_BASE = 32
    PHDR_ADDR = 48
    STACK_END = 64
    STACK_PAGES = 2
    VMMAX = 64
    MAX_INTERPRETER_DEPTH = 5
    MaxCalls = 3
INVARIANTS
  ArgumentsReadBack
PROPERTIES
  ExecReplacesOrRestores
