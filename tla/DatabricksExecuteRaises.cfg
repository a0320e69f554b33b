\* The same composite; the property follows the run from the moment the
\* operator executes, including an execute that raises.
CONSTANTS
    NStores = 2
    ChannelStores = {}
    MaxRetries = 2
    RemoveFailedStore = FALSE
    CallNames <- MCCallNames
    MaxCalls = 2
    None = None
    InTrackingRun = TRUE
    RaiseOnError = FALSE

SPECIFICATION FairSpec

PROPERTY ScriptRunAlwaysReported

\* The wrapped execution ends: once the wrapper is done, raised or failed
\* on entry and the store is idle, nothing more happens.
CHECK_DEADLOCK FALSE
