\* All tools that print differences: two or three threads of two processes (or block
\* requests), two or three operations, nested or not, with missed probes, a stamp map
\* and accumulators that are too small for two owners.
CONSTANTS
    Tools <- AllTools
    Owners = {"a", "b", "c"}
    ProcessOf <- TwoProcesses
    Contexts = {c1, c2}
    KeyOrder <- OwnersThenProcesses
    BigKeys = {"b", "q"}
    MaxStamps <- StampsOf
    MaxElements <- ElementsOf
    Unit = 2
    Word = 64
    Meets <- MeetsIn
    Underway <- UnderwayIn
    MaxCalls <- CallsOf
    MaxStarted <- StartedBy
    MaxDepth = 2
SPECIFICATION Spec
INVARIANTS
    TypeOK
    OwnDelay
    StampsReleased
    NoOvercount
    OnlyRemaindersLost
    CaughtUp
    TotalsMatchCounts
