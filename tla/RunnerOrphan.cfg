\* The server may not signal the root-owned group (plain user with sudo).
CONSTANTS
    t1 = t1
    Tools = {t1}
    Configured = {t1}
    Installed = {t1}
    r1 = r1
    r2 = r2
    Requests = {r1}
    MAX_OUTPUT_LINES = 3
    MAX_OUTPUT_BYTES = 3
    StreamLimit = 3
    LineSizes = {1, 3}
    PipeCap = 1
    MaxPrint = 3
SPECIFICATION Spec
INVARIANT NoneLeftRunning
CHECK_DEADLOCK FALSE
