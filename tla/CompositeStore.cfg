\* Default configuration of the composite (raise_on_error=True,
\* remove_failed_store=False, MAX_RETRIES = 2) over three stores, the last
\* of them a channel store.
CONSTANTS
    NStores = 3
    ChannelStores = {3}
    MaxRetries = 2
    RaiseOnError = TRUE
    RemoveFailedStore = FALSE
    CallNames <- MCCallNames
    MaxCalls = 2
    None = None

SPECIFICATION FairSpec

INVARIANT TypeOK
INVARIANT StateCallsInSync
INVARIANT RemovedOnlyAfterBudget

PROPERTY CallsTerminate
