\* All twenty loaders: does every one of them handle its signals?
CONSTANTS
    Loaders <- AllLoaders
    MaxPass = 2
    BufferCap = 5
    PipeCap = 2
    KillAfter = 2
SPECIFICATION Spec
INVARIANT GracefulExit
CHECK_DEADLOCK FALSE
