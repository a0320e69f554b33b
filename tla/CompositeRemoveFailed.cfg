\* remove_failed_store=True, raise_on_error=False: every store that
\* exhausts its budget is quarantined, and a TrackerPanicError is
\* swallowed like any other error.  Three retries for state calls.
CONSTANTS
    NStores = 2
    ChannelStores = {2}
    MaxRetries = 3
    RaiseOnError = FALSE
    RemoveFailedStore = TRUE
    CallNames <- MCCallNames
    MaxCalls = 3
    None = None

SPECIFICATION FairSpec

INVARIANT TypeOK
INVARIANT StateCallsInSync
INVARIANT RemovedOnlyAfterBudget

PROPERTY CallsTerminate
