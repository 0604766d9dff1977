\* Two requests for the same tool, or for two tools; one of the names asked
\* for is not installed.  Output is kept minimal: one short line.
CONSTANTS
    t1 = t1
    t2 = t2
    t3 = t3
    Tools = {t1, t2, t3}
    Configured = {t1, t2, t3}
    Installed = {t1, t2}
    r1 = r1
    r2 = r2
    Requests = {r1, r2}
    MAX_OUTPUT_LINES = 1
    MAX_OUTPUT_BYTES = 1
    StreamLimit = 1
    LineSizes = {1}
    PipeCap = 1
    MaxPrint = 1
SPECIFICATION Spec
SYMMETRY Symmetry
INVARIANTS
    TypeOK
    Exclusive
    GaugeExact
    NoOrphan
    RunsCountedOnce
PROPERTY ImplementsLedger
CHECK_DEADLOCK FALSE
