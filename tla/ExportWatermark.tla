--------------------------- MODULE ExportWatermark ---------------------------
(***************************************************************************)
(* The last-seen watermarks of the Airflow export plugin (api_functions)  *)
(* against an Airflow database written by concurrent transactions.        *)
(*                                                                         *)
(* Two tables matter: dag_run and the task log, whose rows get increasing *)
(* ids when they are inserted and become visible when their transaction  *)
(* commits.  The monitor keeps two watermarks, the last seen dag run id   *)
(* and the last seen log id, and asks get_new_dag_runs for what lies      *)
(* above them; the response carries the maxima the request read, which    *)
(* become the monitor's new watermarks.  A request runs its queries one   *)
(* after the other, and transactions commit in between.                   *)
(*                                                                         *)
(* extra_dag_runs_ids, the runs the monitor still follows, only add runs  *)
(* to a response and are passed empty here.                               *)
(***************************************************************************)
EXTENDS Naturals, FiniteSets

CONSTANTS
    MaxRuns,       \* dag_run ids 1..MaxRuns
    MaxLogs,       \* log ids 1..MaxLogs
    InitRuns,      \* dag runs committed before the monitor starts
    InitLogs,      \* log rows committed before it starts (of dag run 1)
    SingleWriter,  \* one session writes, committing each row before the next
    None           \* Python None

ASSUME MaxRunsAssumption == MaxRuns \in Nat
ASSUME MaxLogsAssumption == MaxLogs \in Nat
ASSUME InitRunsAssumption == InitRuns \in 0 .. MaxRuns
ASSUME InitLogsAssumption ==
    InitLogs \in 0 .. MaxLogs /\ (InitLogs > 0 => InitRuns > 0)
ASSUME WriterAssumption == SingleWriter \in BOOLEAN
ASSUME NoneAssumption == None \notin Nat

RunIds == 1 .. MaxRuns
LogIds == 1 .. MaxLogs

VARIABLES
    runs,        \* database: dag_run ids inserted so far (1..runs)
    runsDone,    \* database: the committed dag_run ids
    logs,        \* database: log ids inserted so far (1..logs)
    logsDone,    \* database: the committed log ids
    logRun,      \* database: logRun[l] the dag run log row l belongs to
    rpc,         \* request: "idle", "logs", "runs", "respond"
    maxRun,      \* request: max_dag_run_id it read
    maxLog,      \* request: max_log_id it read
    lsRun,       \* request: last_seen_dag_run_id after the None default
    lsLog,       \* request: last_seen_log_id after the None default
    logsSeen,    \* request: the log rows find_all_logs_grouped_by_runs read
    result,      \* request: the dag runs find_new_dag_runs returned
    seenRun,     \* monitor: its last seen dag run id
    seenLog,     \* monitor: its last seen log id
    reported,    \* monitor: dag runs that came back in a response
    reportedLogs,\* monitor: log rows whose run came back as updated
    started,     \* history: the monitor has sent its first request
    oldRuns,     \* history: dag runs committed when it was sent
    oldLogs      \* history: log rows committed when it was sent

db == <<runs, runsDone, logs, logsDone, logRun>>
request == <<rpc, maxRun, maxLog, lsRun, lsLog, logsSeen, result>>
monitor == <<seenRun, seenLog, reported, reportedLogs>>
history == <<started, oldRuns, oldLogs>>
vars == <<db, request, monitor, history>>

TypeOK ==
    /\ runs \in 0 .. MaxRuns
    /\ runsDone \subseteq 1 .. runs
    /\ logs \in 0 .. MaxLogs
    /\ logsDone \subseteq 1 .. logs
    /\ logRun \in [LogIds -> RunIds \cup {None}]
    /\ rpc \in {"idle", "logs", "runs", "respond"}
    /\ maxRun \in RunIds \cup {None}
    /\ maxLog \in LogIds \cup {None}
    /\ lsRun \in RunIds \cup {None}
    /\ lsLog \in LogIds \cup {None}
    /\ logsSeen \subseteq LogIds
    /\ result \subseteq RunIds
    /\ seenRun \in RunIds \cup {None}
    /\ seenLog \in LogIds \cup {None}
    /\ reported \subseteq RunIds
    /\ reportedLogs \subseteq LogIds

-----------------------------------------------------------------------------
(* Airflow has run for a while; the monitor has no watermark yet. *)
Init ==
    /\ runs = InitRuns
    /\ runsDone = 1 .. InitRuns
    /\ logs = InitLogs
    /\ logsDone = 1 .. InitLogs
    /\ logRun = [l \in LogIds |-> IF l <= InitLogs THEN 1 ELSE None]
    /\ rpc = "idle"
    /\ maxRun = None
    /\ maxLog = None
    /\ lsRun = None
    /\ lsLog = None
    /\ logsSeen = {}
    /\ result = {}
    /\ seenRun = None
    /\ seenLog = None
    /\ reported = {}
    /\ reportedLogs = {}
    /\ started = FALSE
    /\ oldRuns = {}
    /\ oldLogs = {}

\* Rows inserted and not yet committed.
Pending == (1 .. runs \ runsDone) \cup {l \in 1 .. logs : l \notin logsDone}

\* A new session may insert while another holds uncommitted rows, unless
\* one session does all the writing.
MayInsert == ~SingleWriter \/ Pending = {}

(* A scheduler or web request inserts a dag run: the id is taken from the *)
(* sequence now, the row is visible only once the transaction commits.   *)
InsertRun ==
    /\ runs < MaxRuns
    /\ MayInsert
    /\ runs' = runs + 1
    /\ UNCHANGED <<runsDone, logs, logsDone, logRun, request, monitor, history>>

CommitRun(r) ==
    /\ r \in 1 .. runs \ runsDone
    /\ runsDone' = runsDone \cup {r}
    /\ UNCHANGED <<runs, logs, logsDone, logRun, request, monitor, history>>

(* A task instance of a committed dag run changes state: a log row. *)
InsertLog(r) ==
    /\ r \in runsDone
    /\ logs < MaxLogs
    /\ MayInsert
    /\ logs' = logs + 1
    /\ logRun' = [logRun EXCEPT ![logs + 1] = r]
    /\ UNCHANGED <<runs, runsDone, logsDone, request, monitor, history>>

CommitLog(l) ==
    /\ l \in 1 .. logs
    /\ l \notin logsDone
    /\ logsDone' = logsDone \cup {l}
    /\ UNCHANGED <<runs, runsDone, logs, logRun, request, monitor, history>>

-----------------------------------------------------------------------------
(* The queries of queries.py, as the request's session sees the tables:  *)
(* committed rows only.                                                   *)

MaxOf(S) == CHOOSE m \in S : \A x \in S : x <= m

\* A fault NoRunSkipped must catch: the maximum taken over the ids the
\* sequence handed out rather than over the committed rows.
MaxDagRunAllocated == IF runs = 0 THEN None ELSE runs

\* find_max_dag_run_id: SELECT max(id) FROM dag_run, None on an empty table.
FindMaxDagRunId == IF runsDone = {} THEN None ELSE MaxOf(runsDone)

\* find_max_log_run_id: SELECT max(id) FROM log, None on an empty table.
FindMaxLogId == IF logsDone = {} THEN None ELSE MaxOf(logsDone)

\* A fault TypeOK must catch: a missing watermark read as 0.
DefaultLastSeenZero(ls, max) == IF ls = None THEN 0 ELSE ls

\* if last_seen_... is None: last_seen_... = max_...
DefaultLastSeen(ls, max) == IF ls = None THEN max ELSE ls

\* The ids of S above a last seen id; None, which the request leaves
\* only when the table was empty, bounds nothing.
Above(S, ls) == {x \in S : ls = None \/ x > ls}

\* get_last_seen_values, used by a monitor to start from the present.
GetLastSeenValues ==
    /\ rpc = "idle"
    /\ seenRun = None
    /\ seenLog = None
    /\ seenRun' = FindMaxDagRunId
    /\ seenLog' = FindMaxLogId
    /\ started' = TRUE
    /\ oldRuns' = IF started THEN oldRuns ELSE runsDone
    /\ oldLogs' = IF started THEN oldLogs ELSE logsDone
    /\ UNCHANGED <<db, request, reported, reportedLogs>>

(* get_new_dag_runs, first statements: read both maxima and replace a     *)
(* None watermark by the maximum.                                         *)
ReadMax ==
    /\ rpc = "idle"
    /\ maxRun' = FindMaxDagRunId
    /\ maxLog' = FindMaxLogId
    /\ lsRun' = DefaultLastSeen(seenRun, FindMaxDagRunId)
    /\ lsLog' = DefaultLastSeen(seenLog, FindMaxLogId)
    /\ rpc' = "logs"
    /\ started' = TRUE
    /\ oldRuns' = IF started THEN oldRuns ELSE runsDone
    /\ oldLogs' = IF started THEN oldLogs ELSE logsDone
    /\ UNCHANGED <<db, logsSeen, result, monitor>>

(* find_all_logs_grouped_by_runs(last_seen_log_id): the log rows above    *)
(* the watermark, keyed by their dag run.                                 *)
QueryLogs ==
    /\ rpc = "logs"
    /\ logsSeen' = Above(logsDone, lsLog)
    /\ rpc' = "runs"
    /\ UNCHANGED <<db, maxRun, maxLog, lsRun, lsLog, result, monitor, history>>

\* A fault NoLogSkipped must catch: the runs of the updated log rows are
\* not asked for.
NewDagRunsOnlyAbove(ls, keys) == Above(runsDone, ls)

\* A fault ExportRefinesCursorSync must catch: the dag run query reads
\* rows other sessions have inserted and not yet committed.
FindNewDagRunsUncommitted(ls, keys) == Above(1 .. runs, ls) \cup keys

\* find_new_dag_runs(last_seen_dag_run_id, extra, logs_dict.keys()): the
\* committed runs above the watermark and the runs of the log rows read.
FindNewDagRuns(ls, keys) == Above(runsDone, ls) \cup keys

(* The dag runs query of get_new_dag_runs. *)
QueryRuns ==
    /\ rpc = "runs"
    /\ result' = FindNewDagRuns(lsRun, {logRun[l] : l \in logsSeen})
    /\ rpc' = "respond"
    /\ UNCHANGED <<db, maxRun, maxLog, lsRun, lsLog, logsSeen, monitor,
                   history>>

(* The response: one AirflowNewDagRun per run, flagged as updated when it *)
(* has log rows, and the maxima read first as the new watermarks, which   *)
(* the monitor keeps for its next request.                                *)
Respond ==
    /\ rpc = "respond"
    /\ reported' = reported \cup result
    /\ reportedLogs' = reportedLogs \cup {l \in logsSeen : logRun[l] \in result}
    /\ seenRun' = maxRun
    /\ seenLog' = maxLog
    /\ rpc' = "idle"
    /\ UNCHANGED <<db, maxRun, maxLog, lsRun, lsLog, logsSeen, result,
                   history>>

Next ==
    \/ InsertRun
    \/ \E r \in RunIds : CommitRun(r) \/ InsertLog(r)
    \/ \E l \in LogIds : CommitLog(l)
    \/ GetLastSeenValues
    \/ ReadMax
    \/ QueryLogs
    \/ QueryRuns
    \/ Respond

Spec == Init /\ [][Next]_vars

-----------------------------------------------------------------------------
(* Properties *)

(* The dag run watermark only passes runs the monitor was given: every    *)
(* dag run committed after the monitor started and at or below its last *)
(* seen id came back in a response (spec section 3: the cursor advances  *)
(* only over data that was delivered).                                    *)
NoRunSkipped ==
    seenRun # None =>
        \A r \in runsDone \ oldRuns : r <= seenRun => r \in reported

(* The same for the log watermark: every log row committed after the     *)
(* start and at or below the last seen log id was read by a request, so  *)
(* its dag run was reported as updated.                                   *)
NoLogSkipped ==
    seenLog # None =>
        \A l \in logsDone \ oldLogs : l <= seenLog => l \in reportedLogs

-----------------------------------------------------------------------------
(* The dag run watermark as an incremental sync (CursorSync): the stream  *)
(* is the dag_run ids, an item is produced when every id up to it is     *)
(* committed, the cursor is the monitor's last seen dag run id, and the  *)
(* service holds the runs reported to the monitor or in the response     *)
(* being sent.  Log rows and run states are left out of the mapping.      *)

\* The committed ids without a gap: 1..CommittedPrefix.
CommittedPrefix == MaxOf({k \in 0 .. runs : 1 .. k \subseteq runsDone})

\* The runs the monitor was given, the response under way included.
Delivered == reported \cup (IF rpc = "respond" THEN result ELSE {})

CS == INSTANCE CursorSync
          WITH MaxItems <- MaxRuns, produced <- CommittedPrefix,
               finished <- {}, cursor <- seenRun, saved <- Delivered,
               savedDone <- {}

(* get_new_dag_runs implements the promise of spec section 3: the dag run *)
(* watermark moves forward, only to committed ids, and only over runs a  *)
(* response carried to the monitor.                                        *)
ExportRefinesCursorSync == CS!Spec

=============================================================================
