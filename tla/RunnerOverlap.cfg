\* A second request right after the first one released the lock.
CONSTANTS
    t1 = t1
    Tools = {t1}
    Configured = {t1}
    Installed = {t1}
    r1 = r1
    r2 = r2
    Requests = {r1, r2}
    MAX_OUTPUT_LINES = 3
    MAX_OUTPUT_BYTES = 3
    StreamLimit = 3
    LineSizes = {1, 3}
    PipeCap = 1
    MaxPrint = 3
SPECIFICATION Spec
INVARIANT OneProcessPerTool
CHECK_DEADLOCK FALSE
