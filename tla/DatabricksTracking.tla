-------------------------- MODULE DatabricksTracking --------------------------
(***************************************************************************)
(* track_databricks_submit_run_operator (dbnd_airflow/tracking/           *)
(* wrap_operators.py) around one execution of a DatabricksSubmitRunOperator,*)
(* composed with the CompositeTrackingStore it reports through.           *)
(*                                                                         *)
(* The context manager first rewrites the operator's json: on a new       *)
(* cluster it adds the tracking variables to spark_env_vars and, for a    *)
(* python task, the script name, from which the task run uids are derived;*)
(* for a jar task it adds the java agent to spark_conf.  Then the         *)
(* operator executes.  Afterwards, for an inline python script, it asks  *)
(* Databricks for the run state and page url and reports them through the *)
(* tracking store (save_external_links, set_task_run_state), each call    *)
(* wrapped in a try that logs and swallows the error.                     *)
(*                                                                         *)
(* The tracking store is CompositeStore, instantiated on the same         *)
(* variables: a report is an _invoke, which this module waits for.        *)
(***************************************************************************)
EXTENDS Naturals, FiniteSets

CONSTANTS
    NStores, ChannelStores, MaxRetries, RaiseOnError, RemoveFailedStore,
    CallNames, MaxCalls, None,
    InTrackingRun   \* in_tracking_run() while the operator is wrapped

ASSUME TrackingRunAssumption == InTrackingRun \in BOOLEAN

VARIABLES
    \* CompositeStore
    active, applied, calls, pc, name, inRun, idx, tryNum, failed, res,
    fails, ended,
    \* the operator and the wrapper
    config,      \* the keys of operator.json the wrapper looks at
    agentConf,   \* get_databricks_java_agent_conf() is not None
    clusterEnv,  \* what new_cluster.spark_env_vars received
    clusterConf, \* what new_cluster.spark_conf received
    scriptName,  \* script_name was set (an inline python script)
    wpc,         \* where the wrapper is
    runResult,   \* the Databricks run: "none", "success", "failed"
    sent         \* sent[c]: the task run state call c carried, or "links"

Store == INSTANCE CompositeStore

\* The bounds the composite declares, restated for the proofs of this module.
ASSUME BoundsAssumption == MaxCalls \in Nat /\ NStores \in Nat

\* The other assumptions of the composite, restated for the proofs.
ASSUME StoreAssumption ==
    /\ MaxRetries \in Nat \ {0}
    /\ RaiseOnError \in BOOLEAN /\ RemoveFailedStore \in BOOLEAN
    /\ ChannelStores \subseteq 1 .. NStores
    /\ CallNames \subseteq Store!CompositeMethods
    /\ None \notin Store!CompositeMethods

ASSUME CallsAssumption ==
    {"save_external_links", "set_task_run_state"} \subseteq CallNames

storeVars == <<active, applied, calls, pc, name, inRun, idx, tryNum, failed,
              res, fails, ended>>
wrapperVars == <<config, agentConf, clusterEnv, clusterConf, scriptName, wpc,
                 runResult, sent>>
vars == <<storeVars, wrapperVars>>

ConfigKeys == {"new_cluster", "spark_python_task", "spark_jar_task"}
EnvKeys == {"tracking_info", "databand_url", "script_name"}
Outcomes == {"none", "success", "failed"}

WrapperTypeOK ==
    /\ Store!TypeOK
    /\ config \subseteq ConfigKeys
    /\ agentConf \in BOOLEAN
    /\ clusterEnv \subseteq EnvKeys
    /\ clusterConf \subseteq {"java_agent"}
    /\ scriptName \in BOOLEAN
    /\ wpc \in {"enter", "jar", "running", "returned", "raised", "links",
                "await_links", "state", "await_state", "done", "name_error"}
    /\ runResult \in Outcomes
    /\ sent \in [Store!CallIds -> Outcomes \cup {"links"}]

-----------------------------------------------------------------------------
(* Any operator json, with or without a java agent configured. *)
Init ==
    /\ Store!Init
    /\ config \in SUBSET ConfigKeys
    /\ agentConf \in BOOLEAN
    /\ clusterEnv = {}
    /\ clusterConf = {}
    /\ scriptName = FALSE
    /\ wpc = "enter"
    /\ runResult = "none"
    /\ sent = [c \in Store!CallIds |-> "none"]

\* A report through the tracking store: _invoke(n) is entered with what
\* it carries recorded; the wrapper waits for it in state w.
Report(n, what, w) ==
    /\ Store!Invoke(n, InTrackingRun)
    /\ sent' = [sent EXCEPT ![calls + 1] = what]
    /\ wpc' = w

\* The tracking store is back from the report (returned or raised: the
\* _safe helpers log the error and go on).
Returned == pc = "idle"

(* "new_cluster" in config: tracking variables, and for a python task the *)
(* script name, go into spark_env_vars.                                  *)
PrepareCluster ==
    /\ wpc = "enter"
    /\ clusterEnv' =
           IF "new_cluster" \in config
           THEN {"tracking_info", "databand_url"}
                \cup (IF "spark_python_task" \in config THEN {"script_name"}
                                                       ELSE {})
           ELSE {}
    /\ scriptName' = ("new_cluster" \in config /\ "spark_python_task" \in config)
    /\ wpc' = "jar"
    /\ UNCHANGED <<storeVars, config, agentConf, clusterConf, runResult, sent>>

(* "spark_jar_task" in config: the java agent goes into the spark_conf of *)
(* `cluster`, a name bound only in the new_cluster branch above.          *)
PrepareJar ==
    /\ wpc = "jar"
    /\ "spark_jar_task" \in config
    /\ IF "new_cluster" \in config
       THEN /\ clusterConf' = IF agentConf THEN {"java_agent"} ELSE {}
            /\ wpc' = "running"
       ELSE /\ wpc' = "name_error"
            /\ UNCHANGED clusterConf
    /\ UNCHANGED <<storeVars, config, agentConf, clusterEnv, scriptName,
                   runResult, sent>>

NoJar ==
    /\ wpc = "jar"
    /\ "spark_jar_task" \notin config
    /\ wpc' = "running"
    /\ UNCHANGED <<storeVars, config, agentConf, clusterEnv, clusterConf,
                   scriptName, runResult, sent>>

(* yield: the operator submits the run and waits for it; execute returns *)
(* or raises (the operator raises on a run that did not succeed).  An    *)
(* exception is thrown into the generator at the yield and leaves it.    *)
Execute ==
    /\ wpc = "running"
    /\ \E r \in {"success", "failed"}, raises \in BOOLEAN :
           /\ runResult' = r
           /\ wpc' = IF raises THEN "raised" ELSE "returned"
    /\ UNCHANGED <<storeVars, config, agentConf, clusterEnv, clusterConf,
                   scriptName, sent>>

(* Without a script name nothing is reported. *)
NoScript ==
    /\ wpc = "returned"
    /\ ~scriptName
    /\ wpc' = "done"
    /\ UNCHANGED <<storeVars, config, agentConf, clusterEnv, clusterConf,
                   scriptName, runResult, sent>>

\* A fault TerminalStateReported must catch: the except branch only logs.
HookFailsSilently ==
    /\ wpc = "returned"
    /\ scriptName
    /\ wpc' = "done"
    /\ UNCHANGED <<storeVars, config, agentConf, clusterEnv, clusterConf,
                   scriptName, runResult, sent>>

(* get_run_state / get_run_page_url raise: the task run is set FAILED and *)
(* the wrapper returns.                                                   *)
HookFails ==
    /\ wpc = "returned"
    /\ scriptName
    /\ Report("set_task_run_state", "failed", "await_state")
    /\ UNCHANGED <<config, agentConf, clusterEnv, clusterConf, scriptName,
                   runResult>>

(* The run state and page url are read; the page url is saved. *)
HookAnswers ==
    /\ wpc = "returned"
    /\ scriptName
    /\ Report("save_external_links", "links", "await_links")
    /\ UNCHANGED <<config, agentConf, clusterEnv, clusterConf, scriptName,
                   runResult>>

LinksSaved ==
    /\ wpc = "await_links"
    /\ Returned
    /\ wpc' = "state"
    /\ UNCHANGED <<storeVars, config, agentConf, clusterEnv, clusterConf,
                   scriptName, runResult, sent>>

\* SUCCESS if state.is_successful else FAILED.
ReportedState == IF runResult = "success" THEN "success" ELSE "failed"

SetState ==
    /\ wpc = "state"
    /\ Report("set_task_run_state", ReportedState, "await_state")
    /\ UNCHANGED <<config, agentConf, clusterEnv, clusterConf, scriptName,
                   runResult>>

StateSet ==
    /\ wpc = "await_state"
    /\ Returned
    /\ wpc' = "done"
    /\ UNCHANGED <<storeVars, config, agentConf, clusterEnv, clusterConf,
                   scriptName, runResult, sent>>

WrapperStep ==
    \/ PrepareCluster \/ PrepareJar \/ NoJar \/ Execute \/ NoScript
    \/ HookFails \/ HookAnswers \/ LinksSaved \/ SetState \/ StateSet

StoreStep == Store!Dispatch /\ UNCHANGED wrapperVars

Next == WrapperStep \/ StoreStep

Spec == Init /\ [][Next]_vars

\* The wrapper runs in the Airflow worker's thread, the composite on the
\* same thread inside each report: both make progress.
FairSpec == Spec /\ WF_vars(WrapperStep) /\ WF_vars(StoreStep)

-----------------------------------------------------------------------------
(* Properties *)

\* The last task run state a backend store holds, if any.
StateCallsOf(s) ==
    {c \in applied[s] : sent[c] \in {"success", "failed"}}

HoldsTerminalState(s) == StateCallsOf(s) # {}

(* Once the operator returned from an inline python script, every store  *)
(* still in the list eventually holds a terminal state of the task run   *)
(* (a SIGTERM'd script may never have sent one itself).  This holds with *)
(* raise_on_error False only: with CompositeTrackingStore's default True *)
(* a TrackerPanicError of the report leaves _invoke before the later     *)
(* stores are tried (the composite_quarantine_panic run).                 *)
TerminalStateReported ==
    (wpc = "returned" /\ scriptName)
        ~> (wpc = "done" /\ \A s \in active : HoldsTerminalState(s))

(* The comment of the wrapper: the run is checked afterwards and its     *)
(* state set manually, whatever happened to the script, so once an       *)
(* inline python script runs, every store eventually holds its terminal  *)
(* state.                                                                 *)
ScriptRunAlwaysReported ==
    (wpc = "running" /\ scriptName)
        ~> (\A s \in active : HoldsTerminalState(s))

=============================================================================
