\* Default configuration (raise_on_error=True, remove_failed_store=False):
\* does a store that exhausted its retries on a state call of a tracking
\* run always leave the list once the call is over?
CONSTANTS
    NStores = 2
    ChannelStores = {}
    MaxRetries = 2
    RaiseOnError = TRUE
    RemoveFailedStore = FALSE
    CallNames <- MCCallNames
    MaxCalls = 2
    None = None

SPECIFICATION Spec

INVARIANT QuarantineApplied
