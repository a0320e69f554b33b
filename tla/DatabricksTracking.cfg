\* Two backend stores, state calls retried twice, the wrapper inside a
\* tracking run so that the quarantine policy applies to its state report;
\* every operator json, every run outcome.  raise_on_error is set to False,
\* against the constructor's default True: under True a panicking report
\* ends the report before the later stores (composite_quarantine_panic), and
\* TerminalStateReported asks what the report reaches when no store panics
\* the caller out.
CONSTANTS
    NStores = 2
    ChannelStores = {}
    MaxRetries = 2
    RemoveFailedStore = FALSE
    CallNames <- MCCallNames
    MaxCalls = 2
    None = None
    InTrackingRun = TRUE
    RaiseOnError = FALSE

SPECIFICATION FairSpec

INVARIANT WrapperTypeOK

PROPERTY TerminalStateReported

\* The wrapped execution ends: once the wrapper is done, raised or failed
\* on entry and the store is idle, nothing more happens.
CHECK_DEADLOCK FALSE
