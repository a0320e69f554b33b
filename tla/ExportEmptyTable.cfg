\* The monitor starts on an Airflow without any dag run yet; one session
\* writes, committing each row before the next.
CONSTANTS
    MaxRuns = 2
    MaxLogs = 1
    InitRuns = 0
    InitLogs = 0
    SingleWriter = TRUE
    None = None

SPECIFICATION Spec

INVARIANT NoRunSkipped
