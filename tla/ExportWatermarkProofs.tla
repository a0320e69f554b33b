------------------------ MODULE ExportWatermarkProofs ------------------------
(***************************************************************************)
(* Proof that, with one session writing and a dag_run table that is not    *)
(* empty when the monitor starts, the dag run watermark of                 *)
(* get_new_dag_runs never passes a run it did not return.                  *)
(***************************************************************************)
EXTENDS ExportWatermark, WellFoundedInduction, TLAPS

\* With one writer the committed dag runs are always a prefix 1..k of the
\* ids: all of them, or all but the one being written.
RunsPrefix ==
    \/ runsDone = 1 .. runs
    \/ runs >= 2 /\ runsDone = 1 .. (runs - 1)

\* The inductive invariant behind NoRunSkipped.
RunInv ==
    /\ runs \in 1 .. MaxRuns
    /\ RunsPrefix
    /\ rpc \in {"idle", "logs", "runs", "respond"}
    /\ started \in BOOLEAN
    /\ seenRun = None \/ seenRun \in runsDone
    /\ ~started => seenRun = None
    /\ rpc # "idle" =>
           /\ started
           /\ maxRun \in runsDone
           /\ lsRun \in 1 .. maxRun
           /\ seenRun # None => lsRun = seenRun
           /\ seenRun = None => oldRuns = 1 .. maxRun /\ lsRun = maxRun
           /\ \A r \in runsDone \ oldRuns : r <= lsRun => r \in reported
    /\ seenRun = None /\ rpc = "idle" => ~started
    /\ rpc = "respond" => \A r \in 1 .. maxRun : r > lsRun => r \in result
    /\ NoRunSkipped

\* The committed log rows are a prefix of the ids, as the dag runs are.
LogsPrefix ==
    \/ logsDone = 1 .. logs
    \/ logs >= 2 /\ logsDone = 1 .. (logs - 1)

\* The inductive invariant behind NoLogSkipped: RunInv's argument for the
\* log watermark, and the log rows read are the ones whose dag runs the
\* response carries.
LogInv ==
    /\ logs \in 1 .. MaxLogs
    /\ LogsPrefix
    /\ logRun \in [LogIds -> RunIds \cup {None}]
    /\ logsSeen \subseteq logsDone
    /\ rpc \in {"idle", "logs", "runs", "respond"}
    /\ started \in BOOLEAN
    /\ seenLog = None \/ seenLog \in logsDone
    /\ ~started => seenLog = None
    /\ rpc # "idle" =>
           /\ started
           /\ maxLog \in logsDone
           /\ lsLog \in 1 .. maxLog
           /\ seenLog # None => lsLog = seenLog
           /\ seenLog = None => oldLogs = 1 .. maxLog /\ lsLog = maxLog
           /\ \A l \in logsDone \ oldLogs : l <= lsLog => l \in reportedLogs
    /\ seenLog = None /\ rpc = "idle" => ~started
    /\ rpc \in {"runs", "respond"} =>
           \A l \in 1 .. maxLog : l > lsLog => l \in logsSeen
    /\ rpc = "respond" => \A l \in logsSeen : logRun[l] \in result
    /\ NoLogSkipped

-----------------------------------------------------------------------------
USE MaxRunsAssumption, MaxLogsAssumption, InitRunsAssumption, NoneAssumption

\* The maximum of a non-empty prefix 1..k of the ids is k.
LEMMA MaxOfPrefix ==
    ASSUME NEW k \in Nat, k >= 1
    PROVE  MaxOf(1 .. k) = k
<1>1. \A x \in 1 .. k : x <= k
    OBVIOUS
<1>2. \E m \in 1 .. k : \A x \in 1 .. k : x <= m
    BY <1>1
<1>3. MaxOf(1 .. k) \in 1 .. k /\ \A x \in 1 .. k : x <= MaxOf(1 .. k)
    BY <1>2, Zenon DEF MaxOf
<1>4. QED
    BY <1>1, <1>3

\* find_max_dag_run_id on a committed prefix 1..k returns k.
LEMMA FindMaxOnPrefix ==
    ASSUME NEW k \in Nat, k >= 1, runsDone = 1 .. k
    PROVE  FindMaxDagRunId = k
<1>1. runsDone # {}
    OBVIOUS
<1>2. FindMaxDagRunId = MaxOf(runsDone)
    BY <1>1 DEF FindMaxDagRunId
<1>3. QED
    BY <1>2, MaxOfPrefix

\* The first request of a monitor finds runs committed.
LEMMA RunInvInit ==
    ASSUME InitRuns > 0
    PROVE  Init => RunInv
<1> SUFFICES ASSUME Init PROVE RunInv
    OBVIOUS
<1>1. /\ runs = InitRuns /\ runsDone = 1 .. InitRuns /\ rpc = "idle"
      /\ started = FALSE /\ seenRun = None /\ reported = {} /\ result = {}
    BY Zenon DEF Init
<1>2. runs \in 1 .. MaxRuns /\ RunsPrefix
    BY <1>1 DEF RunsPrefix
<1>3. reported \subseteq Nat /\ result \subseteq Nat /\ started \in BOOLEAN
    BY <1>1
<1>4. QED
    BY <1>1, <1>2, <1>3, Zenon DEF RunInv, NoRunSkipped

\* A step that leaves the dag run table, the request and the monitor alone.
LEMMA RunInvUnchanged ==
    ASSUME RunInv,
           UNCHANGED <<runs, runsDone, rpc, maxRun, lsRun, result, seenRun,
                       reported, started, oldRuns>>
    PROVE  RunInv'
BY DEF RunInv, RunsPrefix, NoRunSkipped

\* A committed prefix of the ids that is not empty.
LEMMA PrefixNonEmpty ==
    ASSUME runs \in 1 .. MaxRuns, RunsPrefix
    PROVE  \E k \in 1 .. runs : runsDone = 1 .. k
<1>1. CASE runsDone = 1 .. runs
    BY <1>1
<1>2. CASE runs >= 2 /\ runsDone = 1 .. (runs - 1)
    <2>1. runs - 1 \in 1 .. runs
        BY <1>2
    <2>2. QED
        BY <1>2, <2>1
<1>3. QED
    BY <1>1, <1>2 DEF RunsPrefix

\* find_max_dag_run_id on the committed prefix: a committed run, and every
\* committed run is at or below it.
LEMMA FindMaxCommitted ==
    ASSUME runs \in 1 .. MaxRuns, RunsPrefix
    PROVE  /\ FindMaxDagRunId \in runsDone
           /\ runsDone = 1 .. FindMaxDagRunId
<1>1. PICK k \in 1 .. runs : runsDone = 1 .. k
    BY PrefixNonEmpty
<1>2. FindMaxDagRunId = k
    BY <1>1, FindMaxOnPrefix
<1>3. QED
    BY <1>1, <1>2

\* Every step keeps RunInv when one session does all the writing.
LEMMA RunInvStep ==
    ASSUME SingleWriter
    PROVE  RunInv /\ [Next]_vars => RunInv'
<1> SUFFICES ASSUME RunInv, [Next]_vars PROVE RunInv'
    OBVIOUS
<1>1. CASE InsertRun
    <2>1. /\ runs' = runs + 1 /\ runs < MaxRuns /\ MayInsert
          /\ UNCHANGED <<runsDone, rpc, maxRun, lsRun, result, seenRun,
                         reported, started, oldRuns>>
        BY <1>1, Zenon DEF InsertRun, request, monitor, history
    <2>2. runsDone = 1 .. runs
        <3>1. Pending = {}
            BY <2>1, Zenon DEF MayInsert
        <3>2. 1 .. runs \subseteq runsDone
            BY <3>1 DEF Pending
        <3>3. QED
            BY <3>2 DEF RunInv, RunsPrefix
    <2>3. runs' \in 1 .. MaxRuns /\ RunsPrefix'
        BY <2>1, <2>2 DEF RunInv, RunsPrefix
    <2>4. QED
        BY <2>1, <2>3 DEF RunInv, NoRunSkipped
<1>2. ASSUME NEW r \in RunIds, CommitRun(r)
      PROVE  RunInv'
    <2>1. /\ runsDone' = runsDone \cup {r} /\ r \in 1 .. runs \ runsDone
          /\ UNCHANGED <<runs, rpc, maxRun, lsRun, result, seenRun,
                         reported, started, oldRuns>>
        BY <1>2, Zenon DEF CommitRun, request, monitor, history
    <2>2. runs >= 2 /\ runsDone = 1 .. (runs - 1) /\ r = runs
        BY <2>1 DEF RunInv, RunsPrefix
    <2>3. runsDone' = 1 .. runs
        BY <2>1, <2>2
    <2>4. RunsPrefix'
        BY <2>1, <2>3 DEF RunsPrefix
    <2>5. \A x \in runsDone : x < r
        BY <2>2 DEF RunInv
    <2>6. rpc # "idle" =>
              \A x \in runsDone' \ oldRuns' : x <= lsRun' => x \in reported'
        <3> SUFFICES ASSUME rpc # "idle", NEW x \in runsDone' \ oldRuns',
                            x <= lsRun'
                     PROVE  x \in reported'
            OBVIOUS
        <3>1. maxRun < r /\ lsRun \in 1 .. maxRun
            BY <2>5 DEF RunInv
        <3>2. x # r
            BY <2>1, <2>3, <3>1 DEF RunInv
        <3>3. QED
            BY <2>1, <3>2 DEF RunInv
    <2>7. NoRunSkipped'
        <3> SUFFICES ASSUME seenRun' # None, NEW x \in runsDone' \ oldRuns',
                            x <= seenRun'
                     PROVE  x \in reported'
            BY DEF NoRunSkipped
        <3>1. seenRun < r
            BY <2>1, <2>5 DEF RunInv
        <3>2. x # r
            BY <2>1, <2>3, <3>1 DEF RunInv
        <3>3. QED
            BY <2>1, <3>2 DEF RunInv, NoRunSkipped
    <2>8. QED
        BY <2>1, <2>4, <2>6, <2>7 DEF RunInv
<1>3. ASSUME NEW r \in RunIds, InsertLog(r)
      PROVE  RunInv'
    <2>1. UNCHANGED <<runs, runsDone, rpc, maxRun, lsRun, result, seenRun,
                      reported, started, oldRuns>>
        BY <1>3, Zenon DEF InsertLog, request, monitor, history
    <2>2. QED
        BY <2>1, RunInvUnchanged
<1>4. ASSUME NEW l \in LogIds, CommitLog(l)
      PROVE  RunInv'
    <2>1. UNCHANGED <<runs, runsDone, rpc, maxRun, lsRun, result, seenRun,
                      reported, started, oldRuns>>
        BY <1>4, Zenon DEF CommitLog, request, monitor, history
    <2>2. QED
        BY <2>1, RunInvUnchanged
<1>5. CASE GetLastSeenValues
    <2>1. /\ rpc = "idle" /\ seenRun = None
          /\ seenRun' = FindMaxDagRunId /\ started' = TRUE
          /\ oldRuns' = IF started THEN oldRuns ELSE runsDone
          /\ UNCHANGED <<runs, runsDone, rpc, maxRun, lsRun, result, reported>>
        BY <1>5, Zenon DEF GetLastSeenValues, db, request
    <2>2. ~started
        BY <2>1 DEF RunInv
    <2>3. oldRuns' = runsDone
        BY <2>1, <2>2
    <2>4. seenRun' \in runsDone
        BY <2>1, FindMaxCommitted DEF RunInv
    <2>5. seenRun' # None
        BY <2>4, FindMaxCommitted DEF RunInv
    <2>6. NoRunSkipped'
        BY <2>1, <2>3 DEF NoRunSkipped
    <2>7. QED
        BY <2>1, <2>4, <2>5, <2>6 DEF RunInv, RunsPrefix
<1>6. CASE ReadMax
    <2>1. /\ rpc = "idle" /\ rpc' = "logs"
          /\ maxRun' = FindMaxDagRunId
          /\ lsRun' = DefaultLastSeen(seenRun, FindMaxDagRunId)
          /\ started' = TRUE
          /\ oldRuns' = IF started THEN oldRuns ELSE runsDone
          /\ UNCHANGED <<runs, runsDone, result, seenRun, reported>>
        BY <1>6, Zenon DEF ReadMax, db, monitor
    <2>2. maxRun' \in runsDone /\ runsDone = 1 .. maxRun'
        BY <2>1, FindMaxCommitted DEF RunInv
    <2>3. CASE seenRun = None
        <3>1. ~started /\ oldRuns' = runsDone /\ lsRun' = maxRun'
            BY <2>1, <2>3 DEF RunInv, DefaultLastSeen
        <3>2. QED
            BY <2>1, <2>2, <2>3, <3>1 DEF RunInv, RunsPrefix, NoRunSkipped
    <2>4. CASE seenRun # None
        <3>1. started /\ oldRuns' = oldRuns /\ lsRun' = seenRun
            BY <2>1, <2>4 DEF RunInv, DefaultLastSeen
        <3>2. lsRun' \in 1 .. maxRun'
            BY <2>2, <2>4, <3>1 DEF RunInv
        <3>3. QED
            BY <2>1, <2>2, <2>4, <3>1, <3>2 DEF RunInv, RunsPrefix, NoRunSkipped
    <2>5. QED
        BY <2>3, <2>4
<1>7. CASE QueryLogs
    <2>1. /\ rpc = "logs" /\ rpc' = "runs"
          /\ UNCHANGED <<runs, runsDone, maxRun, lsRun, result, seenRun,
                         reported, started, oldRuns>>
        BY <1>7, Zenon DEF QueryLogs, db, monitor, history
    <2>2. QED
        BY <2>1 DEF RunInv, RunsPrefix, NoRunSkipped
<1>8. CASE QueryRuns
    <2>1. /\ rpc = "runs" /\ rpc' = "respond"
          /\ result' = FindNewDagRuns(lsRun, {logRun[l] : l \in logsSeen})
          /\ UNCHANGED <<runs, runsDone, maxRun, lsRun, seenRun,
                         reported, started, oldRuns>>
        BY <1>8, Zenon DEF QueryRuns, db, monitor, history
    <2>2. lsRun \in 1 .. maxRun /\ maxRun \in runsDone
        BY <2>1 DEF RunInv
    <2>3. 1 .. maxRun \subseteq runsDone
        <3>1. PICK k \in 1 .. runs : runsDone = 1 .. k
            BY PrefixNonEmpty DEF RunInv
        <3>2. QED
            BY <2>2, <3>1
    <2>4. \A x \in 1 .. maxRun : x > lsRun => x \in result'
        BY <2>1, <2>2, <2>3 DEF FindNewDagRuns, Above
    <2>5. QED
        BY <2>1, <2>4 DEF RunInv, RunsPrefix, NoRunSkipped
<1>9. CASE Respond
    <2>1. /\ rpc = "respond" /\ rpc' = "idle"
          /\ reported' = reported \cup result /\ seenRun' = maxRun
          /\ UNCHANGED <<runs, runsDone, maxRun, lsRun, result, started,
                         oldRuns>>
        BY <1>9, Zenon DEF Respond, db, request, history
    <2>2. maxRun \in runsDone /\ lsRun \in 1 .. maxRun /\ started
        BY <2>1 DEF RunInv
    <2>3. runsDone \subseteq Nat
        <3>1. PICK k \in 1 .. runs : runsDone = 1 .. k
            BY PrefixNonEmpty DEF RunInv
        <3>2. QED
            BY <3>1
    <2>4. seenRun' # None
        BY <2>1, <2>2, <2>3
    <2>5. NoRunSkipped'
        <3> SUFFICES ASSUME NEW x \in runsDone \ oldRuns, x <= maxRun
                     PROVE  x \in reported \cup result
            BY <2>1 DEF NoRunSkipped
        <3>1. CASE x <= lsRun
            BY <3>1, <2>1 DEF RunInv
        <3>2. CASE x > lsRun
            BY <3>2, <2>1, <2>2, <2>3 DEF RunInv
        <3>3. QED
            BY <3>1, <3>2, <2>2, <2>3
    <2>6. QED
        BY <2>1, <2>2, <2>4, <2>5 DEF RunInv, RunsPrefix
<1>10. CASE UNCHANGED vars
    <2>1. UNCHANGED <<runs, runsDone, rpc, maxRun, lsRun, result, seenRun,
                      reported, started, oldRuns>>
        BY <1>10, Zenon DEF vars, db, request, monitor, history
    <2>2. QED
        BY <2>1, RunInvUnchanged
<1>11. QED
    BY <1>1, <1>2, <1>3, <1>4, <1>5, <1>6, <1>7, <1>8, <1>9, <1>10 DEF Next

\* With one session writing and dag runs committed before the monitor
\* starts (the situation of spec section 3), the export plugin's dag run
\* watermark never passes a committed run that was not returned to the
\* monitor: NoRunSkipped holds in every reachable state.
THEOREM NoRunSkippedHolds ==
    ASSUME SingleWriter, InitRuns > 0
    PROVE  Spec => []NoRunSkipped
<1>1. Init => RunInv
    BY RunInvInit
<1>2. RunInv /\ [Next]_vars => RunInv'
    BY RunInvStep
<1>3. RunInv => NoRunSkipped
    BY DEF RunInv
<1>4. QED
    BY <1>1, <1>2, <1>3, PTL DEF Spec

-----------------------------------------------------------------------------
(* The log watermark. *)

\* A committed prefix of the log ids that is not empty.
LEMMA LogPrefixNonEmpty ==
    ASSUME logs \in 1 .. MaxLogs, LogsPrefix
    PROVE  \E k \in 1 .. logs : logsDone = 1 .. k
<1>1. CASE logsDone = 1 .. logs
    BY <1>1
<1>2. CASE logs >= 2 /\ logsDone = 1 .. (logs - 1)
    <2>1. logs - 1 \in 1 .. logs
        BY <1>2
    <2>2. QED
        BY <1>2, <2>1
<1>3. QED
    BY <1>1, <1>2 DEF LogsPrefix

\* find_max_log_run_id on the committed prefix: a committed row, and every
\* committed row is at or below it.
LEMMA FindMaxLogCommitted ==
    ASSUME logs \in 1 .. MaxLogs, LogsPrefix
    PROVE  /\ FindMaxLogId \in logsDone
           /\ logsDone = 1 .. FindMaxLogId
<1>1. PICK k \in 1 .. logs : logsDone = 1 .. k
    BY LogPrefixNonEmpty
<1>2. logsDone # {} /\ FindMaxLogId = MaxOf(logsDone)
    <2>1. k \in logsDone
        BY <1>1
    <2>2. QED
        BY <2>1, Zenon DEF FindMaxLogId
<1>3. MaxOf(logsDone) = k
    BY <1>1, MaxOfPrefix
<1>4. QED
    BY <1>1, <1>2, <1>3

\* The first request of a monitor finds log rows committed.
LEMMA LogInvInit ==
    ASSUME InitLogs > 0
    PROVE  Init => LogInv
<1> SUFFICES ASSUME Init PROVE LogInv
    OBVIOUS
<1>1. /\ logs = InitLogs /\ logsDone = 1 .. InitLogs /\ rpc = "idle"
      /\ logRun = [l \in LogIds |-> IF l <= InitLogs THEN 1 ELSE None]
      /\ started = FALSE /\ seenLog = None /\ logsSeen = {}
    BY Zenon DEF Init
<1>2. logs \in 1 .. MaxLogs /\ LogsPrefix
    BY <1>1, InitLogsAssumption DEF LogsPrefix
<1>3. logRun \in [LogIds -> RunIds \cup {None}]
    BY <1>1, InitLogsAssumption DEF RunIds
<1>4. QED
    BY <1>1, <1>2, <1>3, Zenon DEF LogInv, NoLogSkipped

\* A step that leaves the log table, the request and the monitor alone.
LEMMA LogInvUnchanged ==
    ASSUME LogInv,
           UNCHANGED <<logs, logsDone, logRun, rpc, maxLog, lsLog, logsSeen,
                       result, seenLog, reportedLogs, started, oldLogs>>
    PROVE  LogInv'
BY DEF LogInv, LogsPrefix, NoLogSkipped

\* Every step keeps LogInv when one session does all the writing.
LEMMA LogInvStep ==
    ASSUME SingleWriter
    PROVE  LogInv /\ [Next]_vars => LogInv'
<1> SUFFICES ASSUME LogInv, [Next]_vars PROVE LogInv'
    OBVIOUS
<1>1. CASE InsertRun
    <2>1. UNCHANGED <<logs, logsDone, logRun, rpc, maxLog, lsLog, logsSeen,
                      result, seenLog, reportedLogs, started, oldLogs>>
        BY <1>1, Zenon DEF InsertRun, request, monitor, history
    <2>2. QED
        BY <2>1, LogInvUnchanged
<1>2. ASSUME NEW r \in RunIds, CommitRun(r)
      PROVE  LogInv'
    <2>1. UNCHANGED <<logs, logsDone, logRun, rpc, maxLog, lsLog, logsSeen,
                      result, seenLog, reportedLogs, started, oldLogs>>
        BY <1>2, Zenon DEF CommitRun, request, monitor, history
    <2>2. QED
        BY <2>1, LogInvUnchanged
<1>3. ASSUME NEW r \in RunIds, InsertLog(r)
      PROVE  LogInv'
    <2>1. /\ logs < MaxLogs /\ MayInsert /\ logs' = logs + 1
          /\ logRun' = [logRun EXCEPT ![logs + 1] = r]
          /\ UNCHANGED <<logsDone, rpc, maxLog, lsLog, logsSeen, result,
                         seenLog, reportedLogs, started, oldLogs>>
        BY <1>3, Zenon DEF InsertLog, request, monitor, history
    <2>2. logsDone = 1 .. logs
        <3>1. Pending = {}
            BY <2>1, Zenon DEF MayInsert
        <3>2. 1 .. logs \subseteq logsDone
            BY <3>1 DEF Pending
        <3>3. QED
            BY <3>2 DEF LogInv, LogsPrefix
    <2>3. logs' \in 1 .. MaxLogs /\ LogsPrefix'
        BY <2>1, <2>2 DEF LogInv, LogsPrefix
    <2>4. logRun' \in [LogIds -> RunIds \cup {None}]
        BY <2>1 DEF LogInv, LogIds
    <2>5. \A l \in logsSeen : logRun'[l] = logRun[l]
        BY <2>1, <2>2 DEF LogInv, LogIds
    <2>6. QED
        BY <2>1, <2>3, <2>4, <2>5 DEF LogInv, NoLogSkipped
<1>4. ASSUME NEW l \in LogIds, CommitLog(l)
      PROVE  LogInv'
    <2>1. /\ logsDone' = logsDone \cup {l} /\ l \in 1 .. logs /\ l \notin logsDone
          /\ UNCHANGED <<logs, logRun, rpc, maxLog, lsLog, logsSeen, result,
                         seenLog, reportedLogs, started, oldLogs>>
        BY <1>4, Zenon DEF CommitLog, request, monitor, history
    <2>2. logs >= 2 /\ logsDone = 1 .. (logs - 1) /\ l = logs
        BY <2>1 DEF LogInv, LogsPrefix
    <2>3. logsDone' = 1 .. logs
        BY <2>1, <2>2
    <2>4. LogsPrefix'
        BY <2>1, <2>3 DEF LogsPrefix
    <2>5. \A x \in logsDone : x < l
        BY <2>2 DEF LogInv
    <2>6. rpc # "idle" =>
              \A x \in logsDone' \ oldLogs' : x <= lsLog' => x \in reportedLogs'
        <3> SUFFICES ASSUME rpc # "idle", NEW x \in logsDone' \ oldLogs',
                            x <= lsLog'
                     PROVE  x \in reportedLogs'
            OBVIOUS
        <3>1. maxLog < l /\ lsLog \in 1 .. maxLog
            BY <2>5 DEF LogInv
        <3>2. x # l
            BY <2>1, <2>3, <3>1 DEF LogInv
        <3>3. QED
            BY <2>1, <3>2 DEF LogInv
    <2>7. NoLogSkipped'
        <3> SUFFICES ASSUME seenLog' # None, NEW x \in logsDone' \ oldLogs',
                            x <= seenLog'
                     PROVE  x \in reportedLogs'
            BY DEF NoLogSkipped
        <3>1. seenLog < l
            BY <2>1, <2>5 DEF LogInv
        <3>2. x # l
            BY <2>1, <2>3, <3>1 DEF LogInv
        <3>3. QED
            BY <2>1, <3>2 DEF LogInv, NoLogSkipped
    <2>8. QED
        BY <2>1, <2>4, <2>6, <2>7 DEF LogInv
<1>5. CASE GetLastSeenValues
    <2>1. /\ rpc = "idle" /\ seenLog = None
          /\ seenLog' = FindMaxLogId /\ started' = TRUE
          /\ oldLogs' = IF started THEN oldLogs ELSE logsDone
          /\ UNCHANGED <<logs, logsDone, logRun, rpc, maxLog, lsLog, logsSeen,
                         result, reportedLogs>>
        BY <1>5, Zenon DEF GetLastSeenValues, db, request
    <2>2. ~started
        BY <2>1 DEF LogInv
    <2>3. oldLogs' = logsDone
        BY <2>1, <2>2
    <2>4. seenLog' \in logsDone
        BY <2>1, FindMaxLogCommitted DEF LogInv
    <2>5. seenLog' # None
        BY <2>4, FindMaxLogCommitted DEF LogInv
    <2>6. NoLogSkipped'
        BY <2>1, <2>3 DEF NoLogSkipped
    <2>7. QED
        BY <2>1, <2>4, <2>5, <2>6 DEF LogInv, LogsPrefix
<1>6. CASE ReadMax
    <2>1. /\ rpc = "idle" /\ rpc' = "logs"
          /\ maxLog' = FindMaxLogId
          /\ lsLog' = DefaultLastSeen(seenLog, FindMaxLogId)
          /\ started' = TRUE
          /\ oldLogs' = IF started THEN oldLogs ELSE logsDone
          /\ UNCHANGED <<logs, logsDone, logRun, logsSeen, result, seenLog,
                         reportedLogs>>
        BY <1>6, Zenon DEF ReadMax, db, monitor
    <2>2. maxLog' \in logsDone /\ logsDone = 1 .. maxLog'
        BY <2>1, FindMaxLogCommitted DEF LogInv
    <2>3. CASE seenLog = None
        <3>1. ~started /\ oldLogs' = logsDone /\ lsLog' = maxLog'
            BY <2>1, <2>3 DEF LogInv, DefaultLastSeen
        <3>2. QED
            BY <2>1, <2>2, <2>3, <3>1 DEF LogInv, LogsPrefix, NoLogSkipped
    <2>4. CASE seenLog # None
        <3>1. started /\ oldLogs' = oldLogs /\ lsLog' = seenLog
            BY <2>1, <2>4 DEF LogInv, DefaultLastSeen
        <3>2. lsLog' \in 1 .. maxLog'
            BY <2>2, <2>4, <3>1 DEF LogInv
        <3>3. QED
            BY <2>1, <2>2, <2>4, <3>1, <3>2 DEF LogInv, LogsPrefix, NoLogSkipped
    <2>5. QED
        BY <2>3, <2>4
<1>7. CASE QueryLogs
    <2>1. /\ rpc = "logs" /\ rpc' = "runs"
          /\ logsSeen' = Above(logsDone, lsLog)
          /\ UNCHANGED <<logs, logsDone, logRun, maxLog, lsLog, result,
                         seenLog, reportedLogs, started, oldLogs>>
        BY <1>7, Zenon DEF QueryLogs, db, monitor, history
    <2>2. lsLog \in 1 .. maxLog /\ maxLog \in logsDone
        BY <2>1 DEF LogInv
    <2>3. 1 .. maxLog \subseteq logsDone
        <3>1. PICK k \in 1 .. logs : logsDone = 1 .. k
            BY LogPrefixNonEmpty DEF LogInv
        <3>2. QED
            BY <2>2, <3>1
    <2>4. \A x \in 1 .. maxLog : x > lsLog => x \in logsSeen'
        BY <2>1, <2>2, <2>3 DEF Above
    <2>5. logsSeen' \subseteq logsDone
        BY <2>1 DEF Above
    <2>6. QED
        BY <2>1, <2>4, <2>5 DEF LogInv, LogsPrefix, NoLogSkipped
<1>8. CASE QueryRuns
    <2>1. /\ rpc = "runs" /\ rpc' = "respond"
          /\ result' = FindNewDagRuns(lsRun, {logRun[l] : l \in logsSeen})
          /\ UNCHANGED <<logs, logsDone, logRun, maxLog, lsLog, logsSeen,
                         seenLog, reportedLogs, started, oldLogs>>
        BY <1>8, Zenon DEF QueryRuns, db, monitor, history
    <2>2. \A l \in logsSeen : logRun'[l] \in result'
        BY <2>1 DEF FindNewDagRuns
    <2>3. QED
        BY <2>1, <2>2 DEF LogInv, LogsPrefix, NoLogSkipped
<1>9. CASE Respond
    <2>1. /\ rpc = "respond" /\ rpc' = "idle"
          /\ reportedLogs' =
                 reportedLogs \cup {l \in logsSeen : logRun[l] \in result}
          /\ seenLog' = maxLog
          /\ UNCHANGED <<logs, logsDone, logRun, maxLog, lsLog, logsSeen,
                         result, started, oldLogs>>
        BY <1>9, Zenon DEF Respond, db, request, history
    <2>2. maxLog \in logsDone /\ lsLog \in 1 .. maxLog /\ started
        BY <2>1 DEF LogInv
    <2>3. logsDone \subseteq Nat
        <3>1. PICK k \in 1 .. logs : logsDone = 1 .. k
            BY LogPrefixNonEmpty DEF LogInv
        <3>2. QED
            BY <3>1
    <2>4. seenLog' # None
        BY <2>1, <2>2, <2>3
    <2>5. logsSeen \subseteq reportedLogs'
        BY <2>1 DEF LogInv
    <2>6. NoLogSkipped'
        <3> SUFFICES ASSUME NEW x \in logsDone \ oldLogs, x <= maxLog
                     PROVE  x \in reportedLogs'
            BY <2>1 DEF NoLogSkipped
        <3>1. CASE x <= lsLog
            BY <3>1, <2>1 DEF LogInv
        <3>2. CASE x > lsLog
            BY <3>2, <2>1, <2>2, <2>3, <2>5 DEF LogInv
        <3>3. QED
            BY <3>1, <3>2, <2>2, <2>3
    <2>7. QED
        BY <2>1, <2>2, <2>4, <2>6 DEF LogInv, LogsPrefix
<1>10. CASE UNCHANGED vars
    <2>1. UNCHANGED <<logs, logsDone, logRun, rpc, maxLog, lsLog, logsSeen,
                      result, seenLog, reportedLogs, started, oldLogs>>
        BY <1>10, Zenon DEF vars, db, request, monitor, history
    <2>2. QED
        BY <2>1, LogInvUnchanged
<1>11. QED
    BY <1>1, <1>2, <1>3, <1>4, <1>5, <1>6, <1>7, <1>8, <1>9, <1>10 DEF Next

\* With one session writing and log rows committed before the monitor
\* starts, the log watermark never passes a committed log row whose dag
\* run was not returned as updated: NoLogSkipped holds in every reachable
\* state.
THEOREM NoLogSkippedHolds ==
    ASSUME SingleWriter, InitLogs > 0
    PROVE  Spec => []NoLogSkipped
<1>1. Init => LogInv
    BY LogInvInit
<1>2. LogInv /\ [Next]_vars => LogInv'
    BY LogInvStep
<1>3. LogInv => NoLogSkipped
    BY DEF LogInv
<1>4. QED
    BY <1>1, <1>2, <1>3, PTL DEF Spec

-----------------------------------------------------------------------------
(* The refinement of CursorSync. *)

\* What a response carries is committed, and so is the dag run of every
\* log row: a run the monitor is given is one the stream has produced.
CarriedCommitted ==
    /\ logs \in 0 .. MaxLogs
    /\ logRun \in [LogIds -> RunIds \cup {None}]
    /\ \A l \in 1 .. logs : logRun[l] \in runsDone
    /\ logsDone \subseteq 1 .. logs
    /\ logsSeen \subseteq logsDone
    /\ reported \subseteq runsDone
    /\ result \subseteq runsDone

LEMMA CarriedCommittedInit ==
    ASSUME InitRuns > 0
    PROVE  Init => CarriedCommitted
<1> SUFFICES ASSUME Init PROVE CarriedCommitted
    OBVIOUS
<1>1. /\ runsDone = 1 .. InitRuns /\ logs = InitLogs
      /\ logsDone = 1 .. InitLogs
      /\ logRun = [l \in LogIds |-> IF l <= InitLogs THEN 1 ELSE None]
      /\ logsSeen = {} /\ reported = {} /\ result = {}
    BY Zenon DEF Init
<1>2. QED
    BY <1>1, InitLogsAssumption DEF CarriedCommitted, LogIds, RunIds

\* Every step keeps CarriedCommitted: the committed runs only grow, and
\* each query reads committed rows.
LEMMA CarriedCommittedStep ==
    CarriedCommitted /\ [Next]_vars => CarriedCommitted'
<1> SUFFICES ASSUME CarriedCommitted, [Next]_vars PROVE CarriedCommitted'
    OBVIOUS
<1>1. CASE InsertRun \/ GetLastSeenValues \/ ReadMax
    <2>1. UNCHANGED <<logs, logRun, logsDone, logsSeen, reported, result>>
          /\ runsDone' = runsDone
        BY <1>1, Zenon DEF InsertRun, GetLastSeenValues, ReadMax, db, request,
                           monitor
    <2>2. QED
        BY <2>1 DEF CarriedCommitted
<1>2. ASSUME NEW r \in RunIds, CommitRun(r)
      PROVE  CarriedCommitted'
    <2>1. UNCHANGED <<logs, logRun, logsDone, logsSeen, reported, result>>
          /\ runsDone' = runsDone \cup {r}
        BY <1>2, Zenon DEF CommitRun, request, monitor
    <2>2. QED
        BY <2>1 DEF CarriedCommitted
<1>3. ASSUME NEW r \in RunIds, InsertLog(r)
      PROVE  CarriedCommitted'
    <2>1. /\ r \in runsDone /\ logs < MaxLogs /\ logs' = logs + 1
          /\ logRun' = [logRun EXCEPT ![logs + 1] = r]
          /\ UNCHANGED <<runsDone, logsDone, logsSeen, reported, result>>
        BY <1>3, Zenon DEF InsertLog, request, monitor
    <2>2. QED
        BY <2>1 DEF CarriedCommitted, LogIds, RunIds
<1>4. ASSUME NEW l \in LogIds, CommitLog(l)
      PROVE  CarriedCommitted'
    <2>1. /\ l \in 1 .. logs /\ logsDone' = logsDone \cup {l}
          /\ UNCHANGED <<runsDone, logs, logRun, logsSeen, reported, result>>
        BY <1>4, Zenon DEF CommitLog, request, monitor
    <2>2. QED
        BY <2>1 DEF CarriedCommitted
<1>5. CASE QueryLogs
    <2>1. /\ logsSeen' = Above(logsDone, lsLog)
          /\ UNCHANGED <<runsDone, logs, logRun, logsDone, reported, result>>
        BY <1>5, Zenon DEF QueryLogs, db, monitor
    <2>2. QED
        BY <2>1 DEF CarriedCommitted, Above
<1>6. CASE QueryRuns
    <2>1. /\ result' = FindNewDagRuns(lsRun, {logRun[l] : l \in logsSeen})
          /\ UNCHANGED <<runsDone, logs, logRun, logsDone, logsSeen, reported>>
        BY <1>6, Zenon DEF QueryRuns, db, monitor
    <2>2. {logRun[l] : l \in logsSeen} \subseteq runsDone
        BY DEF CarriedCommitted
    <2>3. QED
        BY <2>1, <2>2 DEF CarriedCommitted, FindNewDagRuns, Above
<1>7. CASE Respond
    <2>1. /\ reported' = reported \cup result
          /\ UNCHANGED <<runsDone, logs, logRun, logsDone, logsSeen, result>>
        BY <1>7, Zenon DEF Respond, db
    <2>2. QED
        BY <2>1 DEF CarriedCommitted
<1>8. CASE UNCHANGED vars
    BY <1>8 DEF vars, db, request, monitor, history, CarriedCommitted
<1>9. QED
    BY <1>1, <1>2, <1>3, <1>4, <1>5, <1>6, <1>7, <1>8 DEF Next

\* On a committed prefix 1..k, the gap-free stretch of the ids is 1..k.
LEMMA CommittedPrefixOf ==
    ASSUME NEW n \in Nat, NEW D, NEW k \in 0 .. n, D = 1 .. k
    PROVE  MaxOf({j \in 0 .. n : 1 .. j \subseteq D}) = k
<1> DEFINE S == {j \in 0 .. n : 1 .. j \subseteq D}
<1>1. \A j \in 0 .. n : 1 .. j \subseteq 1 .. k <=> j <= k
    <2> SUFFICES ASSUME NEW j \in 0 .. n
                 PROVE  1 .. j \subseteq 1 .. k <=> j <= k
        OBVIOUS
    <2>1. CASE j = 0
        BY <2>1
    <2>2. CASE j > 0
        <3>1. j \in 1 .. j
            BY <2>2
        <3>2. QED
            BY <3>1
    <2>3. QED
        BY <2>1, <2>2
<1>2. S = 0 .. k
    BY <1>1
<1>3. k \in S /\ \A x \in S : x <= k
    BY <1>2
<1>4. MaxOf(S) \in S /\ \A x \in S : x <= MaxOf(S)
    BY <1>3, Zenon DEF MaxOf
<1>5. QED
    BY <1>3, <1>4

\* The state of the abstract CursorSync.
absVars == <<CommittedPrefix, {}, seenRun, Delivered, {}>>

\* The invariant the refinement rests on.
RefInv == RunInv /\ CarriedCommitted

\* Under RunInv the stream the abstract sync sees is the committed prefix
\* whose top find_max_dag_run_id returns.
LEMMA PrefixIsMax ==
    ASSUME RunInv
    PROVE  /\ CommittedPrefix = FindMaxDagRunId
           /\ runsDone = 1 .. CommittedPrefix
<1>1. FindMaxDagRunId \in runsDone /\ runsDone = 1 .. FindMaxDagRunId
    BY FindMaxCommitted DEF RunInv
<1>2. FindMaxDagRunId \in 0 .. runs /\ runs \in Nat
    BY <1>1 DEF RunInv, RunsPrefix
<1>3. QED
    BY <1>1, <1>2, CommittedPrefixOf DEF CommittedPrefix

\* Each step of get_new_dag_runs and of the writers is a step of CursorSync
\* or leaves its state alone.
LEMMA StepRefines ==
    ASSUME SingleWriter, RefInv, RefInv', [Next]_vars
    PROVE  [CS!Next]_absVars
<1>1. CASE InsertRun
    <2>1. /\ runs' = runs + 1 /\ MayInsert
          /\ UNCHANGED <<runsDone, rpc, result, seenRun, reported>>
        BY <1>1, Zenon DEF InsertRun, request, monitor
    <2>2. runsDone = 1 .. runs /\ runs \in Nat
        <3>1. Pending = {}
            BY <2>1, Zenon DEF MayInsert
        <3>2. 1 .. runs \subseteq runsDone
            BY <3>1 DEF Pending
        <3>3. QED
            BY <3>2 DEF RefInv, RunInv, RunsPrefix
    <2>3. CommittedPrefix = runs /\ CommittedPrefix' = runs
        BY <2>1, <2>2, CommittedPrefixOf DEF CommittedPrefix
    <2>4. QED
        BY <2>1, <2>3 DEF absVars, Delivered
<1>2. ASSUME NEW r \in RunIds, CommitRun(r)
      PROVE  [CS!Next]_absVars
    <2>1. /\ runsDone' = runsDone \cup {r} /\ r \in 1 .. runs \ runsDone
          /\ UNCHANGED <<runs, rpc, result, seenRun, reported>>
        BY <1>2, Zenon DEF CommitRun, request, monitor
    <2>2. runs >= 2 /\ runsDone = 1 .. (runs - 1) /\ r = runs
          /\ runs \in 1 .. MaxRuns
        BY <2>1 DEF RefInv, RunInv, RunsPrefix
    <2>3. CommittedPrefix = runs - 1 /\ CommittedPrefix' = runs
        <3>1. runsDone' = 1 .. runs
            BY <2>1, <2>2
        <3>2. QED
            BY <2>1, <2>2, <3>1, CommittedPrefixOf DEF CommittedPrefix
    <2>4. CS!Produce
        BY <2>1, <2>2, <2>3 DEF CS!Produce, Delivered
    <2>5. QED
        BY <2>4 DEF CS!Next
<1>3. CASE GetLastSeenValues
    <2>1. /\ seenRun = None /\ seenRun' = FindMaxDagRunId
          /\ UNCHANGED <<runs, runsDone, rpc, result, reported>>
        BY <1>3, Zenon DEF GetLastSeenValues, db, request
    <2>2. CommittedPrefix = FindMaxDagRunId /\ CommittedPrefix' = CommittedPrefix
        BY <2>1, PrefixIsMax DEF RefInv, CommittedPrefix
    <2>3. CommittedPrefix \in Nat
        BY <2>2, FindMaxCommitted DEF RefInv, RunInv
    <2>4. CS!Bootstrap
        BY <2>1, <2>2, <2>3 DEF CS!Bootstrap, Delivered
    <2>5. QED
        BY <2>4 DEF CS!Next
<1>4. CASE QueryRuns
    <2>1. /\ rpc = "runs" /\ rpc' = "respond"
          /\ UNCHANGED <<runs, runsDone, seenRun, reported>>
        BY <1>4, Zenon DEF QueryRuns, db, monitor
    <2>2. /\ CommittedPrefix' = CommittedPrefix
          /\ runsDone = 1 .. CommittedPrefix
        BY <2>1, PrefixIsMax DEF RefInv, CommittedPrefix
    <2>3. result' \in SUBSET (1 .. CommittedPrefix)
        BY <2>1, <2>2 DEF RefInv, CarriedCommitted
    <2>4. /\ Delivered = reported
          /\ Delivered' = Delivered \cup result'
        BY <2>1 DEF Delivered
    <2>5. CS!Record
        <3>1. UNCHANGED <<CommittedPrefix, {}, seenRun>>
            BY <2>1, <2>2
        <3>2. /\ {} \in SUBSET {}
              /\ {} \subseteq Delivered \cup result'
              /\ {} = {} \cup {}
            OBVIOUS
        <3>3. QED
            BY <2>3, <2>4, <3>1, <3>2 DEF CS!Record
    <2>6. QED
        BY <2>5 DEF CS!Next
<1>5. CASE Respond
    <2>1. /\ rpc = "respond" /\ rpc' = "idle"
          /\ reported' = reported \cup result /\ seenRun' = maxRun
          /\ UNCHANGED <<runs, runsDone>>
        BY <1>5, Zenon DEF Respond, db
    <2>2. /\ CommittedPrefix' = CommittedPrefix
          /\ runsDone = 1 .. CommittedPrefix
        BY <2>1, PrefixIsMax DEF RefInv, CommittedPrefix
    <2>3. Delivered' = Delivered /\ Delivered = reported \cup result
        BY <2>1 DEF Delivered
    <2>4. maxRun \in 0 .. CommittedPrefix
        BY <2>1, <2>2 DEF RefInv, RunInv
    <2>5. CASE seenRun = None
        <3>1. CS!Bootstrap
            BY <2>1, <2>2, <2>3, <2>4, <2>5 DEF CS!Bootstrap
        <3>2. QED
            BY <3>1 DEF CS!Next
    <2>6. CASE seenRun # None
        <3>1. /\ lsRun = seenRun /\ lsRun \in 1 .. maxRun
              /\ \A x \in 1 .. maxRun : x > lsRun => x \in result
            BY <2>1, <2>6 DEF RefInv, RunInv
        <3>2. maxRun \in seenRun .. CommittedPrefix
            BY <2>4, <3>1
        <3>3. \A i \in CS!Items : seenRun < i /\ i <= maxRun => i \in Delivered
            BY <2>3, <3>1 DEF CS!Items
        <3>4. CS!MoveCursor
            BY <2>1, <2>2, <2>3, <2>6, <3>2, <3>3 DEF CS!MoveCursor
        <3>5. QED
            BY <3>4 DEF CS!Next
    <2>7. QED
        BY <2>5, <2>6
<1>6. CASE ReadMax \/ QueryLogs
    <2>1. /\ rpc \in {"idle", "logs"} /\ rpc' \in {"logs", "runs"}
          /\ UNCHANGED <<runs, runsDone, seenRun, reported>>
        BY <1>6, Zenon DEF ReadMax, QueryLogs, db, monitor
    <2>2. QED
        BY <2>1 DEF absVars, CommittedPrefix, Delivered
<1>7. CASE \/ \E r \in RunIds : InsertLog(r)
           \/ \E l \in LogIds : CommitLog(l)
           \/ UNCHANGED vars
    <2>1. UNCHANGED <<runs, runsDone, rpc, result, seenRun, reported>>
        BY <1>7, Zenon DEF InsertLog, CommitLog, vars, db, request, monitor
    <2>2. QED
        BY <2>1 DEF absVars, CommittedPrefix, Delivered
<1>8. QED
    BY <1>1, <1>2, <1>3, <1>4, <1>5, <1>6, <1>7 DEF Next

(* With one session writing and a dag_run table that is not empty when    *)
(* the monitor starts, get_new_dag_runs and the writers implement          *)
(* CursorSync under the mapping of ExportWatermark: the watermark only     *)
(* moves forward, to committed ids, over runs a response carried.          *)
THEOREM ExportRefinesCursorSyncHolds ==
    ASSUME SingleWriter, InitRuns > 0
    PROVE  Spec => ExportRefinesCursorSync
<1>1. Init => RefInv
    BY RunInvInit, CarriedCommittedInit DEF RefInv
<1>2. RefInv /\ [Next]_vars => RefInv'
    BY RunInvStep, CarriedCommittedStep DEF RefInv
<1>3. Init => CS!Init
    <2> SUFFICES ASSUME Init PROVE CS!Init
        OBVIOUS
    <2>1. /\ runs = InitRuns /\ runsDone = 1 .. InitRuns /\ rpc = "idle"
          /\ seenRun = None /\ reported = {}
        BY Zenon DEF Init
    <2>2. CommittedPrefix = InitRuns
        BY <2>1, CommittedPrefixOf DEF CommittedPrefix
    <2>3. QED
        BY <2>1, <2>2 DEF CS!Init, CS!Positions, Delivered
<1>4. RefInv /\ RefInv' /\ [Next]_vars => [CS!Next]_absVars
    BY StepRefines
<1>5. QED
    BY <1>1, <1>2, <1>3, <1>4, PTL
    DEF Spec, ExportRefinesCursorSync, CS!Spec, CS!vars, absVars

-----------------------------------------------------------------------------
(* Type correctness, for any number of writers. *)

\* A non-empty set of ids has a largest element, which MaxOf returns.
LEMMA MaxOfIds ==
    ASSUME NEW n \in Nat, NEW S \in SUBSET (1 .. n), S # {}
    PROVE  MaxOf(S) \in S /\ \A x \in S : x <= MaxOf(S)
<1> DEFINE D == {n - x : x \in S}
<1>1. D \subseteq Nat /\ D # {}
    <2>1. \A x \in S : n - x \in Nat
        OBVIOUS
    <2>2. PICK x0 \in S : TRUE
        OBVIOUS
    <2>3. n - x0 \in D
        BY DEF D
    <2>4. QED
        BY <2>1, <2>3 DEF D
<1>2. PICK d \in D : \A y \in D : ~(<<y, d>> \in OpToRel(<, Nat))
    BY <1>1, NatLessThanWellFounded, WFMin
<1>3. PICK m \in S : d = n - m
    BY <1>2 DEF D
<1>4. \A x \in S : x <= m
    <2> SUFFICES ASSUME NEW x \in S, x > m PROVE FALSE
        OBVIOUS
    <2>1. n - x \in D /\ n - x \in Nat /\ d \in Nat /\ n - x < d
        BY <1>3 DEF D
    <2>2. <<n - x, d>> \in OpToRel(<, Nat)
        BY <2>1 DEF OpToRel
    <2>3. QED
        BY <1>2, <2>1, <2>2
<1>5. \E k \in S : \A x \in S : x <= k
    BY <1>3, <1>4
<1>6. QED
    BY <1>5, Zenon DEF MaxOf

\* find_max_dag_run_id and find_max_log_run_id return an id or None.
LEMMA FindMaxType ==
    ASSUME runs \in 0 .. MaxRuns, runsDone \subseteq 1 .. runs,
           logs \in 0 .. MaxLogs, logsDone \subseteq 1 .. logs
    PROVE  FindMaxDagRunId \in RunIds \cup {None} /\ FindMaxLogId \in LogIds \cup {None}
<1>1. runsDone # {} => MaxOf(runsDone) \in runsDone
    <2>1. runs \in Nat /\ runsDone \in SUBSET (1 .. runs)
        OBVIOUS
    <2>2. QED
        BY <2>1, MaxOfIds
<1>2. logsDone # {} => MaxOf(logsDone) \in logsDone
    <2>1. logs \in Nat /\ logsDone \in SUBSET (1 .. logs)
        OBVIOUS
    <2>2. QED
        BY <2>1, MaxOfIds
<1>3. FindMaxDagRunId \in RunIds \cup {None}
    <2>1. CASE runsDone = {}
        BY <2>1 DEF FindMaxDagRunId
    <2>2. CASE runsDone # {}
        <3>0. runsDone \subseteq RunIds
            BY DEF RunIds
        <3>1. MaxOf(runsDone) \in RunIds
            BY <1>1, <2>2, <3>0, Zenon
        <3>2. QED
            BY <3>1, <2>2 DEF FindMaxDagRunId
    <2>3. QED
        BY <2>1, <2>2
<1>4. FindMaxLogId \in LogIds \cup {None}
    <2>1. CASE logsDone = {}
        BY <2>1 DEF FindMaxLogId
    <2>2. CASE logsDone # {}
        <3>0. logsDone \subseteq LogIds
            BY DEF LogIds
        <3>1. MaxOf(logsDone) \in LogIds
            BY <1>2, <2>2, <3>0, Zenon
        <3>2. QED
            BY <3>1, <2>2 DEF FindMaxLogId
    <2>3. QED
        BY <2>1, <2>2
<1>5. QED
    BY <1>3, <1>4

\* The inductive invariant of TypeOK: every log row inserted names a dag
\* run, and a request reads only inserted rows.
TInv ==
    /\ TypeOK
    /\ \A l \in 1 .. logs : logRun[l] \in RunIds
    /\ logsSeen \subseteq 1 .. logs
    /\ started \in BOOLEAN

LEMMA TInvInit == Init => TInv
<1> SUFFICES ASSUME Init PROVE TInv
    OBVIOUS
<1>1. InitLogs > 0 => 1 \in RunIds
    BY InitLogsAssumption DEF RunIds
<1>2. \A l \in LogIds : (IF l <= InitLogs THEN 1 ELSE None) \in RunIds \cup {None}
    BY <1>1, InitLogsAssumption DEF LogIds
<1>3. logRun \in [LogIds -> RunIds \cup {None}]
    BY <1>2 DEF Init
<1>4. \A l \in 1 .. logs : logRun[l] \in RunIds
    BY <1>1, InitLogsAssumption DEF Init, LogIds
<1>5. runs \in 0 .. MaxRuns /\ runsDone \subseteq 1 .. runs
      /\ logs \in 0 .. MaxLogs /\ logsDone \subseteq 1 .. logs
    BY InitLogsAssumption DEF Init
<1>6. TypeOK
    BY <1>3, <1>5, Zenon DEF Init, TypeOK
<1>7. QED
    BY <1>4, <1>6, Zenon DEF Init, TInv

LEMMA TInvStep == TInv /\ [Next]_vars => TInv'
<1> SUFFICES ASSUME TInv, [Next]_vars PROVE TInv'
    OBVIOUS
<1>0. FindMaxDagRunId \in RunIds \cup {None} /\ FindMaxLogId \in LogIds \cup {None}
    BY FindMaxType DEF TInv, TypeOK
<1>1. CASE InsertRun
    BY <1>1 DEF InsertRun, TInv, TypeOK, request, monitor, history
<1>2. ASSUME NEW r \in RunIds, CommitRun(r)
      PROVE  TInv'
    BY <1>2 DEF CommitRun, TInv, TypeOK, request, monitor, history
<1>3. ASSUME NEW r \in RunIds, InsertLog(r)
      PROVE  TInv'
    <2>1. r \in RunIds /\ logs + 1 \in LogIds
        BY <1>3 DEF InsertLog, TInv, TypeOK, RunIds, LogIds
    <2>2. QED
        BY <1>3, <2>1 DEF InsertLog, TInv, TypeOK, request, monitor, history
<1>4. ASSUME NEW l \in LogIds, CommitLog(l)
      PROVE  TInv'
    BY <1>4 DEF CommitLog, TInv, TypeOK, request, monitor, history
<1>5. CASE GetLastSeenValues
    BY <1>0, <1>5 DEF GetLastSeenValues, TInv, TypeOK, db, request
<1>6. CASE ReadMax
    BY <1>0, <1>6 DEF ReadMax, DefaultLastSeen, TInv, TypeOK, db, monitor
<1>7. CASE QueryLogs
    <2>1. logsSeen' \subseteq 1 .. logs
        BY <1>7 DEF QueryLogs, Above, TInv, TypeOK
    <2>2. QED
        BY <1>7, <2>1 DEF QueryLogs, Above, TInv, TypeOK, db, monitor, history, LogIds
<1>8. CASE QueryRuns
    <2>1. {logRun[l] : l \in logsSeen} \subseteq RunIds
        BY DEF TInv
    <2>2. Above(runsDone, lsRun) \subseteq RunIds
        <3> SUFFICES ASSUME NEW x \in Above(runsDone, lsRun) PROVE x \in RunIds
            OBVIOUS
        <3>1. x \in runsDone
            BY DEF Above
        <3>2. QED
            BY <3>1 DEF TInv, TypeOK, RunIds
    <2>3. result' \subseteq RunIds
        BY <1>8, <2>1, <2>2 DEF QueryRuns, FindNewDagRuns
    <2>4. QED
        BY <1>8, <2>3 DEF QueryRuns, FindNewDagRuns, Above, TInv, TypeOK, db, monitor,
                history, RunIds
<1>9. CASE Respond
    BY <1>9 DEF Respond, TInv, TypeOK, db, history, LogIds
<1>10. CASE UNCHANGED vars
    BY <1>10 DEF vars, TInv, TypeOK, db, request, monitor, history
<1>11. QED
    BY <1>1, <1>2, <1>3, <1>4, <1>5, <1>6, <1>7, <1>8, <1>9, <1>10 DEF Next

(* get_new_dag_runs and get_last_seen_values, with any number of sessions *)
(* writing: the watermarks the monitor keeps and the maxima a request    *)
(* reads are ids of the tables or None, and the dag runs a response      *)
(* carries are dag run ids, also for the runs of updated log rows.       *)
THEOREM TypeCorrect == Spec => []TypeOK
<1>1. TInv => TypeOK
    BY DEF TInv
<1>2. QED
    BY <1>1, TInvInit, TInvStep, PTL DEF Spec

=============================================================================
