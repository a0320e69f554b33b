\* One session writes the database (scheduler only), committing each row
\* before it inserts the next; the monitor starts on a database that has
\* one dag run and one log row.
CONSTANTS
    MaxRuns = 3
    MaxLogs = 3
    InitRuns = 1
    InitLogs = 1
    SingleWriter = TRUE
    None = None

SPECIFICATION Spec

INVARIANT TypeOK
INVARIANT NoRunSkipped
INVARIANT NoLogSkipped
PROPERTY ExportRefinesCursorSync
