\* All twenty loaders, passes of up to two lines, a pipe that fills up, any number
\* of signals at any moment.
CONSTANTS
    Loaders <- AllLoaders
    MaxPass = 2
    BufferCap = 5
    PipeCap = 2
    KillAfter = 2
SPECIFICATION FairSpec
INVARIANTS
    TypeOK
    ReleasedOnReturn
    SignalLosesNothing
    LossAtMostOnePass
    OneMorePass
    KilledOnlyIfStuck
PROPERTY SignalStops
CHECK_DEADLOCK FALSE
