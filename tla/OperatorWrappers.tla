--------------------------- MODULE OperatorWrappers ---------------------------
(***************************************************************************)
(* The operator tracking wrappers of dbnd_airflow/tracking/                *)
(* wrap_operators.py: wrap_operator_with_tracking_info picks, by class     *)
(* name, the context manager that rewrites an operator's arguments so that *)
(* the Spark, EMR, Dataproc or ECS job it starts reports to the tracker,   *)
(* and the operator then executes inside it.                                *)
(*                                                                         *)
(* An operator is a record: the class names of its MRO and the arguments  *)
(* the wrappers read and write.  A dict is the set of its keys, a list of *)
(* steps or container overrides a function from positions, None the       *)
(* constant None.  The Databricks wrapper, which also reports after the   *)
(* run, is the module DatabricksTracking.                                  *)
(***************************************************************************)
EXTENDS Naturals, FiniteSets

CONSTANTS
    MaxSteps,   \* steps of an EMR operator, container overrides of an ECS one
    None        \* Python None

ASSUME MaxStepsAssumption == MaxSteps \in Nat \ {0}

Positions == 1 .. MaxSteps

\* The keys of build_dbnd_spark_envs(tracking_info): the tracking info as
\* spark.env fields, DBND__TRACKING, and the yarn appMasterEnv variables.
SparkEnvs == {"spark.env.tracking_info", "spark.env.DBND__TRACKING",
              "spark.yarn.appMasterEnv"}

\* The keys of dbnd_wrap_spark_environment() and of the java agent confs.
DbndEnvVars == {"DBND__TRACKING"}
AgentConf == {"spark.driver.extraJavaOptions"}

\* What args[0] of an EMR step is: a spark-submit command, another command,
\* or the list is empty.
ArgKinds == {"spark-submit", "command", "empty"}

VARIABLES
    op,     \* the operator and its arguments
    agent,  \* get_spark_submit_java_agent_conf() is not None
    wpc     \* "enter", "running" (inside the wrapper), "raised", "unwrapped"

vars == <<op, agent, wpc>>

-----------------------------------------------------------------------------
(* The operators of the Airflow providers, with every argument shape the  *)
(* wrappers tell apart.                                                    *)

Default ==
    [mro |-> {"BaseOperator"}, steps |-> [i \in Positions |-> "empty"],
     tracked |-> {}, props |-> None, job |-> None, conf |-> None,
     envVars |-> None, application |-> "app.py", jars |-> None,
     overrides |-> None]

\* An ECS operator whose overrides carry containerOverrides.
HasContainerOverrides(o) == o.overrides # None

Of(cls) == {"BaseOperator", cls}

EmrOperators ==
    {[Default EXCEPT !.mro = Of(c), !.steps = s] :
        c \in {"EmrAddStepsOperator", "EmrPySparkOperator"},
        s \in [Positions -> ArgKinds]}

DataprocOperators ==
    {[Default EXCEPT !.mro = Of(c), !.props = p] :
        c \in {"DataProcPySparkOperator", "DataprocSubmitPySparkJobOperator"},
        p \in {None, {}, {"spark.executor.memory"}}}
    \cup
    {[Default EXCEPT !.mro = Of("DataprocSubmitJobOperator"), !.job = j] :
        j \in {None, [pyspark_job |-> None], [pyspark_job |-> {}],
               [hive_job |-> None]}}

SparkSubmitOperators ==
    {[Default EXCEPT !.mro = Of("SparkSubmitOperator"), !.conf = cf,
                     !.envVars = ev, !.application = a, !.jars = j] :
        cf \in {None, {}}, ev \in {None, {}},
        a \in {"app.py", "app.jar"}, j \in {None, "", "lib.jar"}}

\* overrides: an empty dict, or containerOverrides, one override per
\* container, with or without an "environment" list.
EcsOperators ==
    {[Default EXCEPT !.mro = Of("ECSOperator"), !.overrides = o] :
        o \in {None} \cup [Positions -> {None, {}}]}

OtherOperators == {[Default EXCEPT !.mro = Of("PythonOperator")]}

Operators ==
    EmrOperators \cup DataprocOperators \cup SparkSubmitOperators
    \cup EcsOperators \cup OtherOperators

TypeOK ==
    /\ op.mro \subseteq {"BaseOperator", "PythonOperator", "EmrAddStepsOperator",
                         "EmrPySparkOperator", "DataProcPySparkOperator",
                         "DataprocSubmitPySparkJobOperator",
                         "DataprocSubmitJobOperator", "SparkSubmitOperator",
                         "ECSOperator"}
    /\ op.steps \in [Positions -> ArgKinds]
    /\ op.props \in {None} \cup SUBSET (SparkEnvs \cup {"spark.executor.memory"})
    /\ op.conf \in {None} \cup SUBSET (SparkEnvs \cup AgentConf)
    /\ op.envVars \in {None} \cup SUBSET DbndEnvVars
    /\ op.tracked \subseteq Positions
    /\ agent \in BOOLEAN
    /\ wpc \in {"enter", "running", "raised", "unwrapped"}

-----------------------------------------------------------------------------
(* _EXECUTE_TRACKING and wrap_operator_with_tracking_info: the first       *)
(* class name, in the table's order, found in the operator's MRO.          *)

ExecuteTracking ==
    <<"EmrAddStepsOperator", "EmrPySparkOperator", "DatabricksSubmitRunOperator",
      "DataProcPySparkOperator", "DataprocSubmitJobOperator",
      "DataprocSubmitPySparkJobOperator", "SparkSubmitOperator", "ECSOperator">>

\* A fault ProviderJobTracked must catch: the Airflow 2 pyspark operator
\* given the wrapper of DataprocSubmitJobOperator.
WrapperPySparkAsSubmitJob ==
    <<"emr", "emr", "databricks", "dataproc_pyspark", "dataproc_submit_job",
      "dataproc_submit_job", "spark_submit", "ecs">>

Wrapper ==
    <<"emr", "emr", "databricks", "dataproc_pyspark", "dataproc_submit_job",
      "dataproc_pyspark", "spark_submit", "ecs">>

\* is_instance_by_class_name(operator, class_name)
IsInstanceByClassName(o, cls) == cls \in o.mro

WrapperOf(o) ==
    LET hits == {i \in DOMAIN ExecuteTracking :
                    IsInstanceByClassName(o, ExecuteTracking[i])}
    IN  IF hits = {} THEN None
        ELSE Wrapper[CHOOSE i \in hits : \A j \in hits : i <= j]

\* None becomes a dict: "if operator.x is None: operator.x = dict()" and
\* dict.setdefault(key, {}).
AsDict(d) == IF d = None THEN {} ELSE d

(* track_emr_add_steps_operator: the steps whose args[0] runs spark-submit *)
(* get the dbnd context in their arguments.                                *)
TrackEmrAddSteps(o) ==
    [o EXCEPT !.tracked = @ \cup {i \in Positions : o.steps[i] = "spark-submit"}]

(* track_dataproc_pyspark_operator *)
TrackDataprocPySpark(o) == [o EXCEPT !.props = AsDict(@) \cup SparkEnvs]

(* track_dataproc_submit_job_operator: only a pyspark_job is touched. *)
TrackDataprocSubmitJob(o) ==
    IF o.job # None /\ "pyspark_job" \in DOMAIN o.job
    THEN [o EXCEPT !.job.pyspark_job = AsDict(@) \cup SparkEnvs]
    ELSE o

(* _has_java_application, "yes" or "no": application.endswith(".jar") or (_jars and     *)
(* _jars.ends_with(".jar")); str has no ends_with, so a non-empty _jars   *)
(* raises AttributeError unless the application already is a jar.         *)
HasJavaApplication(o) ==
    IF o.application = "app.jar" THEN "yes"
    ELSE IF o.jars \in {None, ""} THEN "no"
    ELSE "AttributeError"

\* A fault TypeOK must catch: the spark envs and the env vars swapped.
TrackSparkSubmitEnvsSwapped(o) ==
    [o EXCEPT !.conf = AsDict(@) \cup DbndEnvVars,
              !.envVars = AsDict(@) \cup SparkEnvs]

(* track_spark_submit_operator, up to _has_java_application. *)
TrackSparkSubmitEnvs(o) ==
    [o EXCEPT !.conf = AsDict(@) \cup SparkEnvs,
              !.envVars = AsDict(@) \cup DbndEnvVars]

(* track_ecs_operator: each container override gets the tracking info in  *)
(* its environment, and the list is written back.                          *)
TrackEcs(o) ==
    IF HasContainerOverrides(o)
    THEN [o EXCEPT !.overrides = [i \in Positions |-> AsDict(@[i]) \cup
                                                       {"tracking_info"}]]
    ELSE o

-----------------------------------------------------------------------------
(* Any operator; the java agent configured or not. *)
Init ==
    /\ op \in Operators
    /\ agent \in BOOLEAN
    /\ wpc = "enter"

(* wrap_operator_with_tracking_info finds no wrapper: it returns None and *)
(* the operator runs as it is.                                             *)
Unwrapped ==
    /\ wpc = "enter"
    /\ WrapperOf(op) = None
    /\ wpc' = "unwrapped"
    /\ UNCHANGED <<op, agent>>

\* The rewrite of each wrapper that only rewrites arguments.
Track(w, o) ==
    CASE w = "emr"                 -> TrackEmrAddSteps(o)
      [] w = "dataproc_pyspark"    -> TrackDataprocPySpark(o)
      [] w = "dataproc_submit_job" -> TrackDataprocSubmitJob(o)
      [] w = "ecs"                 -> TrackEcs(o)

\* Entering the context manager of such a wrapper.
Enter(w) ==
    /\ wpc = "enter"
    /\ WrapperOf(op) = w
    /\ op' = Track(w, op)
    /\ wpc' = "running"
    /\ UNCHANGED agent

(* track_spark_submit_operator: conf and env vars, then the java agent,   *)
(* or the AttributeError of _has_java_application with the conf and env   *)
(* vars already rewritten.                                                 *)
EnterSparkSubmit ==
    /\ wpc = "enter"
    /\ WrapperOf(op) = "spark_submit"
    /\ LET o == TrackSparkSubmitEnvs(op)
           java == HasJavaApplication(o)
       IN  IF java = "AttributeError"
           THEN /\ op' = o
                /\ wpc' = "raised"
           ELSE /\ op' = IF java = "yes" /\ agent
                         THEN [o EXCEPT !.conf = @ \cup AgentConf] ELSE o
                /\ wpc' = "running"
    /\ UNCHANGED agent

Next ==
    \/ Unwrapped
    \/ \E w \in {"emr", "dataproc_pyspark", "dataproc_submit_job", "ecs"} :
           Enter(w)
    \/ EnterSparkSubmit

Spec == Init /\ [][Next]_vars

-----------------------------------------------------------------------------
(* Properties *)

(* An operator of a provider class runs with the dbnd variables where its *)
(* job reads them: every spark-submit step of an EMR operator, the        *)
(* properties of a Dataproc pyspark job, the conf and environment of a    *)
(* spark-submit, the environment of every ECS container.  This is what   *)
(* the class table and the wrappers together must achieve.                *)
ProviderJobTracked ==
    wpc = "running" =>
        /\ IsInstanceByClassName(op, "EmrAddStepsOperator") =>
               \A i \in Positions : op.steps[i] = "spark-submit" => i \in op.tracked
        /\ (\/ IsInstanceByClassName(op, "DataProcPySparkOperator")
            \/ IsInstanceByClassName(op, "DataprocSubmitPySparkJobOperator"))
               => op.props # None /\ SparkEnvs \subseteq op.props
        /\ (/\ IsInstanceByClassName(op, "DataprocSubmitJobOperator")
            /\ op.job # None /\ "pyspark_job" \in DOMAIN op.job)
               => op.job.pyspark_job # None /\ SparkEnvs \subseteq op.job.pyspark_job
        /\ IsInstanceByClassName(op, "SparkSubmitOperator")
               => /\ op.conf # None /\ SparkEnvs \subseteq op.conf
                  /\ op.envVars # None /\ DbndEnvVars \subseteq op.envVars
        /\ IsInstanceByClassName(op, "ECSOperator") /\ HasContainerOverrides(op)
               => \A i \in Positions : "tracking_info" \in op.overrides[i]

=============================================================================
