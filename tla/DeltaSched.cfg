\* disk_io_sched, whose stamps are keyed by the (PID, CPU) of the moment: two
\* block requests, issued and completed in either of two contexts.
CONSTANTS
    Tools <- SchedTool
    Owners = {"a", "b"}
    ProcessOf <- TwoProcesses
    Contexts = {c1, c2}
    KeyOrder <- OwnersThenProcesses
    BigKeys = {"b"}
    MaxStamps <- StampsOf
    MaxElements <- ElementsOf
    Unit = 2
    Word = 64
    Meets <- MeetsIn
    Underway <- UnderwayIn
    MaxCalls <- CallsOf
    MaxStarted <- StartedBy
    MaxDepth = 2
SPECIFICATION Spec
INVARIANT MeasuresOneOperation
