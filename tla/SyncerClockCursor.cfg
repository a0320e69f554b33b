\* The DataStage adapter: get_last_cursor is the source's present.  Does
\* the cursor still only pass data that was saved?
CONSTANTS
    MaxItems = 2
    BatchSize = 2
    CursorIsClock = TRUE
    MaxFaults = 0
    None = None

SPECIFICATION Spec

INVARIANT NoSkippedItems
