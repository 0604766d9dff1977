\* One request whose tool prints short, long and over-long lines past both
\* output limits, into a pipe that fills up.
CONSTANTS
    t1 = t1
    t2 = t2
    Tools = {t1, t2}
    Configured = {t1}
    Installed = {t1, t2}
    r1 = r1
    Requests = {r1}
    MAX_OUTPUT_LINES = 3
    MAX_OUTPUT_BYTES = 4
    StreamLimit = 3
    LineSizes = {1, 3, 4}
    PipeCap = 2
    MaxPrint = 5
SPECIFICATION FairSpec
INVARIANTS
    OutputAccounted
    OutputBounded
PROPERTIES
    RunEnds
    ProcessGone
CHECK_DEADLOCK FALSE
