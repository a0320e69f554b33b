\* An adapter that meets spec 4.1 and derives its cursor from its fetches, three
\* items with two per page so that a chain has two pages, and two faults
\* so that a cycle can be cut after a save and cut again on the replay.
CONSTANTS
    MaxItems = 3
    BatchSize = 2
    CursorIsClock = FALSE
    MaxFaults = 2
    None = None

SPECIFICATION FairSpec

INVARIANT TypeOK
INVARIANT NoSkippedItems

PROPERTY CursorCatchesUp
PROPERTY RefinesCursorSync
