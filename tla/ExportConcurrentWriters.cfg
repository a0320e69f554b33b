\* Two sessions insert dag runs concurrently (the scheduler and a trigger
\* from the web server): ids are handed out in one order and committed in
\* another.
CONSTANTS
    MaxRuns = 3
    MaxLogs = 1
    InitRuns = 1
    InitLogs = 1
    SingleWriter = FALSE
    None = None

SPECIFICATION Spec

INVARIANT NoRunSkipped
