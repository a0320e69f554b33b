----------------------- MODULE OperatorWrappersProofs -----------------------
(***************************************************************************)
(* Proof that the class table of wrap_operator_with_tracking_info and the  *)
(* argument rewrites of its wrappers give every provider operator the dbnd *)
(* variables where its job reads them, for any number of EMR steps and    *)
(* ECS containers.                                                        *)
(***************************************************************************)
EXTENDS OperatorWrappers, TLAPS

\* Every key a wrapper writes or an operator starts with.
Keys == SparkEnvs \cup DbndEnvVars \cup AgentConf
        \cup {"spark.executor.memory", "tracking_info"}

\* The wrappers of the table.
WrapperNames == {"emr", "databricks", "dataproc_pyspark", "dataproc_submit_job",
                 "spark_submit", "ecs"}

\* Python's None is no wrapper, no dict and no list of them.
NoneIsDistinct ==
    None \notin WrapperNames \cup (SUBSET Keys)
                \cup [pyspark_job : {None} \cup SUBSET Keys] \cup [hive_job : {None}]
                \cup [Positions -> {None} \cup SUBSET Keys]

USE MaxStepsAssumption

\* An operator whose only provider class is the k-th of _EXECUTE_TRACKING
\* gets the k-th wrapper.
LEMMA WrapperOfClass ==
    ASSUME NEW o, NEW k \in 1 .. 8,
           o.mro = {"BaseOperator", ExecuteTracking[k]}
    PROVE  WrapperOf(o) = Wrapper[k]
<1> DEFINE hits == {i \in DOMAIN ExecuteTracking :
                       IsInstanceByClassName(o, ExecuteTracking[i])}
<1>1. DOMAIN ExecuteTracking = 1 .. 8
    BY DEF ExecuteTracking
<1>2. \A i \in 1 .. 8 : ExecuteTracking[i] \in o.mro <=> i = k
    BY DEF ExecuteTracking
<1>3. hits = {k}
    BY <1>1, <1>2 DEF IsInstanceByClassName
<1>4. (CHOOSE i \in hits : \A j \in hits : i <= j) = k
    BY <1>3
<1>5. QED
    BY <1>3, <1>4 DEF WrapperOf

\* An operator of no provider class gets no wrapper.
LEMMA WrapperOfOther ==
    ASSUME NEW o, o.mro = {"BaseOperator", "PythonOperator"}
    PROVE  WrapperOf(o) = None
<1>1. \A i \in DOMAIN ExecuteTracking : ~IsInstanceByClassName(o, ExecuteTracking[i])
    BY DEF ExecuteTracking, IsInstanceByClassName
<1>2. QED
    BY <1>1 DEF WrapperOf

\* The inductive invariant: before the wrapper the operator is one the
\* providers define; after it, ProviderJobTracked.
WInv ==
    /\ wpc \in {"enter", "running", "raised", "unwrapped"}
    /\ wpc = "enter" => op \in Operators
    /\ ProviderJobTracked

\* Only the context manager the table picks can be entered.
LEMMA EnterPicked ==
    ASSUME NoneIsDistinct, wpc = "enter", Next,
           NEW w \in {"emr", "dataproc_pyspark", "dataproc_submit_job", "ecs"},
           WrapperOf(op) = w
    PROVE  op' = Track(w, op) /\ wpc' = "running" /\ agent' = agent
<1>1. w # None /\ w # "spark_submit"
    BY DEF NoneIsDistinct, WrapperNames
<1>2. ~Unwrapped /\ ~EnterSparkSubmit
    BY <1>1 DEF Unwrapped, EnterSparkSubmit
<1>3. PICK v \in {"emr", "dataproc_pyspark", "dataproc_submit_job", "ecs"} :
          Enter(v)
    BY <1>2 DEF Next
<1>4. v = w
    BY <1>3 DEF Enter
<1>5. QED
    BY <1>3, <1>4 DEF Enter

\* The operator the rewrite leaves is of the class it was.
LEMMA TrackKeepsMro ==
    ASSUME NEW o, NEW w \in {"emr", "dataproc_pyspark", "dataproc_submit_job", "ecs"}
    PROVE  Track(w, o).mro = o.mro
BY DEF Track, TrackEmrAddSteps, TrackDataprocPySpark, TrackDataprocSubmitJob,
       TrackEcs

(* The operators of each provider family, by the arguments they are built *)
(* from.                                                                    *)
MkEmr(c, s) == [Default EXCEPT !.mro = Of(c), !.steps = s]
MkPySpark(c, p) == [Default EXCEPT !.mro = Of(c), !.props = p]
MkSubmitJob(j) == [Default EXCEPT !.mro = Of("DataprocSubmitJobOperator"), !.job = j]
MkSparkSubmit(cf, ev, a, j) ==
    [Default EXCEPT !.mro = Of("SparkSubmitOperator"), !.conf = cf,
                    !.envVars = ev, !.application = a, !.jars = j]
MkEcs(o) == [Default EXCEPT !.mro = Of("ECSOperator"), !.overrides = o]
MkOther == [Default EXCEPT !.mro = Of("PythonOperator")]

EmrClasses == {"EmrAddStepsOperator", "EmrPySparkOperator"}
PySparkClasses == {"DataProcPySparkOperator", "DataprocSubmitPySparkJobOperator"}
PySparkProps == {None, {}, {"spark.executor.memory"}}
SubmitJobs == {None, [pyspark_job |-> None], [pyspark_job |-> {}], [hive_job |-> None]}
EcsOverrides == {None} \cup [Positions -> {None, {}}]
DictArgs == {None, {}}
Applications == {"app.py", "app.jar"}
JarsArgs == {None, "", "lib.jar"}

\* The families of Operators, each as the image of its constructor.
LEMMA EmrFamily ==
    EmrOperators = {MkEmr(c, s) : c \in EmrClasses, s \in [Positions -> ArgKinds]}
BY DEF EmrOperators, MkEmr, EmrClasses

LEMMA DataprocFamily ==
    DataprocOperators = {MkPySpark(c, p) : c \in PySparkClasses, p \in PySparkProps}
                        \cup {MkSubmitJob(j) : j \in SubmitJobs}
BY DEF DataprocOperators, MkPySpark, MkSubmitJob, PySparkClasses, PySparkProps,
       SubmitJobs

LEMMA SparkSubmitFamily ==
    SparkSubmitOperators =
        {MkSparkSubmit(cf, ev, a, j) : cf \in DictArgs, ev \in DictArgs,
                                       a \in Applications, j \in JarsArgs}
BY DEF SparkSubmitOperators, MkSparkSubmit, DictArgs, Applications, JarsArgs

LEMMA EcsFamily == EcsOperators = {MkEcs(o) : o \in EcsOverrides}
BY DEF EcsOperators, MkEcs, EcsOverrides

LEMMA OtherFamily == OtherOperators = {MkOther}
BY DEF OtherOperators, MkOther

\* track_emr_add_steps_operator marks every spark-submit step.
LEMMA EmrStep ==
    ASSUME NoneIsDistinct, wpc = "enter", Next, op \in EmrOperators
    PROVE  WInv'
<1>1. PICK c \in EmrClasses, s \in [Positions -> ArgKinds] : op = MkEmr(c, s)
    BY EmrFamily
<1>2. op.mro = {"BaseOperator", c}
    BY <1>1 DEF MkEmr, Of, Default
<1>3. WrapperOf(op) = "emr"
    <2>1. CASE c = "EmrAddStepsOperator"
        <3>1. op.mro = {"BaseOperator", ExecuteTracking[1]}
            BY <1>2, <2>1 DEF ExecuteTracking
        <3>2. QED
            BY <3>1, WrapperOfClass DEF Wrapper
    <2>2. CASE c = "EmrPySparkOperator"
        <3>1. op.mro = {"BaseOperator", ExecuteTracking[2]}
            BY <1>2, <2>2 DEF ExecuteTracking
        <3>2. QED
            BY <3>1, WrapperOfClass DEF Wrapper
    <2>3. QED
        BY <2>1, <2>2 DEF EmrClasses
<1>4. op' = TrackEmrAddSteps(op) /\ wpc' = "running" /\ agent' = agent
    BY <1>3, EnterPicked DEF Track
<1>5. /\ op'.mro = {"BaseOperator", c}
      /\ op'.tracked = op.tracked \cup {i \in Positions : op.steps[i] = "spark-submit"}
      /\ op'.steps = op.steps
    BY <1>1, <1>2, <1>4 DEF TrackEmrAddSteps, MkEmr, Default
<1>6. ProviderJobTracked'
    BY <1>4, <1>5 DEF ProviderJobTracked, IsInstanceByClassName, EmrClasses
<1>7. QED
    BY <1>4, <1>6 DEF WInv

\* track_dataproc_pyspark_operator gives the job's properties the spark envs,
\* under the Airflow 1 and the Airflow 2 class name alike.
LEMMA PySparkStep ==
    ASSUME NoneIsDistinct, wpc = "enter", Next,
           NEW c \in PySparkClasses, NEW p \in PySparkProps, op = MkPySpark(c, p)
    PROVE  WInv'
<1>1. op.mro = {"BaseOperator", c} /\ op.props = p /\ op.job = None
    BY DEF MkPySpark, Of, Default
<1>2. WrapperOf(op) = "dataproc_pyspark"
    <2>1. CASE c = "DataProcPySparkOperator"
        <3>1. op.mro = {"BaseOperator", ExecuteTracking[4]}
            BY <1>1, <2>1 DEF ExecuteTracking
        <3>2. QED
            BY <3>1, WrapperOfClass DEF Wrapper
    <2>2. CASE c = "DataprocSubmitPySparkJobOperator"
        <3>1. op.mro = {"BaseOperator", ExecuteTracking[6]}
            BY <1>1, <2>2 DEF ExecuteTracking
        <3>2. QED
            BY <3>1, WrapperOfClass DEF Wrapper
    <2>3. QED
        BY <2>1, <2>2 DEF PySparkClasses
<1>3. op' = TrackDataprocPySpark(op) /\ wpc' = "running" /\ agent' = agent
    BY <1>2, EnterPicked DEF Track
<1>4. /\ op'.mro = {"BaseOperator", c}
      /\ op'.props = AsDict(p) \cup SparkEnvs
    BY <1>1, <1>3 DEF TrackDataprocPySpark, MkPySpark, Default
<1>5. op'.props \in SUBSET Keys
    BY <1>4 DEF AsDict, PySparkProps, Keys
<1>6. op'.props # None
    BY <1>5 DEF NoneIsDistinct
<1>7. ProviderJobTracked'
    BY <1>3, <1>4, <1>6 DEF ProviderJobTracked, IsInstanceByClassName,
                            PySparkClasses
<1>8. QED
    BY <1>3, <1>7 DEF WInv

\* track_dataproc_submit_job_operator rewrites a pyspark_job and leaves a
\* missing job or a job of another kind alone.
LEMMA SubmitJobStep ==
    ASSUME NoneIsDistinct, wpc = "enter", Next,
           NEW j \in SubmitJobs, op = MkSubmitJob(j)
    PROVE  WInv'
<1>1. op.mro = {"BaseOperator", "DataprocSubmitJobOperator"} /\ op.job = j
    BY DEF MkSubmitJob, Of, Default
<1>2. WrapperOf(op) = "dataproc_submit_job"
    <2>1. op.mro = {"BaseOperator", ExecuteTracking[5]}
        BY <1>1 DEF ExecuteTracking
    <2>2. QED
        BY <2>1, WrapperOfClass DEF Wrapper
<1>3. op' = TrackDataprocSubmitJob(op) /\ wpc' = "running" /\ agent' = agent
    BY <1>2, EnterPicked DEF Track
<1>4. op'.mro = op.mro
    BY <1>3 DEF TrackDataprocSubmitJob
<1>5. op'.job # None /\ "pyspark_job" \in DOMAIN op'.job
        => op'.job.pyspark_job # None /\ SparkEnvs \subseteq op'.job.pyspark_job
    <2>1. CASE j = None
        BY <1>1, <1>3, <2>1 DEF TrackDataprocSubmitJob
    <2>2. CASE j = [hive_job |-> None]
        BY <1>1, <1>3, <2>2 DEF TrackDataprocSubmitJob
    <2>3. CASE j \in {[pyspark_job |-> None], [pyspark_job |-> {}]}
        <3>1. j # None
            BY <2>3 DEF NoneIsDistinct, Keys
        <3>2. op'.job = [pyspark_job |-> AsDict(j.pyspark_job) \cup SparkEnvs]
            BY <1>1, <1>3, <2>3, <3>1 DEF TrackDataprocSubmitJob
        <3>3. op'.job.pyspark_job \in SUBSET Keys
            BY <2>3, <3>2 DEF AsDict, Keys
        <3>4. QED
            BY <3>2, <3>3 DEF NoneIsDistinct
    <2>4. QED
        BY <2>1, <2>2, <2>3 DEF SubmitJobs
<1>6. ProviderJobTracked'
    BY <1>1, <1>3, <1>4, <1>5 DEF ProviderJobTracked, IsInstanceByClassName
<1>7. QED
    BY <1>3, <1>6 DEF WInv

\* track_spark_submit_operator gives the conf the spark envs, the env vars
\* the dbnd variables, and a java application its agent; when
\* _has_java_application raises, the operator does not run.
LEMMA SparkSubmitStep ==
    ASSUME NoneIsDistinct, wpc = "enter", Next,
           NEW cf \in DictArgs, NEW ev \in DictArgs,
           NEW a \in Applications, NEW j \in JarsArgs,
           op = MkSparkSubmit(cf, ev, a, j)
    PROVE  WInv'
<1> DEFINE envs == TrackSparkSubmitEnvs(op)
           java == HasJavaApplication(envs)
<1>1. /\ op.mro = {"BaseOperator", "SparkSubmitOperator"}
      /\ op.conf = cf /\ op.envVars = ev /\ op.application = a /\ op.jars = j
    BY DEF MkSparkSubmit, Of, Default
<1>2. WrapperOf(op) = "spark_submit"
    <2>1. op.mro = {"BaseOperator", ExecuteTracking[7]}
        BY <1>1 DEF ExecuteTracking
    <2>2. QED
        BY <2>1, WrapperOfClass DEF Wrapper
<1>3. EnterSparkSubmit
    <2>1. "spark_submit" # None
        BY DEF NoneIsDistinct, WrapperNames
    <2>2. ~Unwrapped
        BY <1>2, <2>1 DEF Unwrapped
    <2>3. \A w \in {"emr", "dataproc_pyspark", "dataproc_submit_job", "ecs"} :
              ~Enter(w)
        BY <1>2 DEF Enter
    <2>4. QED
        BY <2>2, <2>3 DEF Next
<1>4. /\ envs.mro = op.mro
      /\ envs.conf = AsDict(cf) \cup SparkEnvs
      /\ envs.envVars = AsDict(ev) \cup DbndEnvVars
      /\ envs.application = a /\ envs.jars = j
    BY <1>1 DEF envs, TrackSparkSubmitEnvs, MkSparkSubmit, Default
<1>5. envs.conf \in SUBSET Keys /\ envs.envVars \in SUBSET Keys
    BY <1>4 DEF AsDict, Keys, DictArgs
<1>6. agent' = agent
    BY <1>3 DEF EnterSparkSubmit
<1>7. CASE java = "AttributeError"
    <2>1. wpc' = "raised"
        BY <1>3, <1>7 DEF envs, java, EnterSparkSubmit
    <2>2. QED
        BY <2>1 DEF WInv, ProviderJobTracked
<1>8. CASE java # "AttributeError"
    <2>1. /\ op' = IF java = "yes" /\ agent
                   THEN [envs EXCEPT !.conf = @ \cup AgentConf] ELSE envs
          /\ wpc' = "running"
        BY <1>3, <1>8 DEF envs, java, EnterSparkSubmit
    <2>2. /\ op'.mro = op.mro /\ op'.envVars = envs.envVars
          /\ envs.conf \subseteq op'.conf /\ op'.conf \in SUBSET Keys
          /\ op'.application = a
          /\ (java = "yes" /\ agent) => AgentConf \subseteq op'.conf
        BY <1>4, <1>5, <2>1 DEF envs, Keys
    <2>4. op'.conf # None /\ op'.envVars # None
        BY <1>5, <2>2 DEF NoneIsDistinct
    <2>5. ProviderJobTracked'
        BY <1>1, <1>4, <2>1, <2>2, <2>4 DEF ProviderJobTracked,
                                             IsInstanceByClassName
    <2>6. QED
        BY <2>1, <2>5 DEF WInv
<1>9. QED
    BY <1>7, <1>8

\* track_ecs_operator puts the tracking info in the environment of every
\* container override, and leaves an operator without them alone.
LEMMA EcsStep ==
    ASSUME NoneIsDistinct, wpc = "enter", Next,
           NEW o \in EcsOverrides, op = MkEcs(o)
    PROVE  WInv'
<1>1. op.mro = {"BaseOperator", "ECSOperator"} /\ op.overrides = o
    BY DEF MkEcs, Of, Default
<1>2. WrapperOf(op) = "ecs"
    <2>1. op.mro = {"BaseOperator", ExecuteTracking[8]}
        BY <1>1 DEF ExecuteTracking
    <2>2. QED
        BY <2>1, WrapperOfClass DEF Wrapper
<1>3. op' = TrackEcs(op) /\ wpc' = "running" /\ agent' = agent
    BY <1>2, EnterPicked DEF Track
<1>4. op'.mro = op.mro
    BY <1>3 DEF TrackEcs
<1>5. HasContainerOverrides(op')
          => \A i \in Positions : "tracking_info" \in op'.overrides[i]
    <2>1. CASE o = None
        BY <1>1, <1>3, <2>1 DEF TrackEcs, HasContainerOverrides
    <2>2. CASE o \in [Positions -> {None, {}}]
        <3>1. o \in [Positions -> {None} \cup SUBSET Keys]
            BY <2>2
        <3>2. o # None
            BY <3>1 DEF NoneIsDistinct
        <3>3. op'.overrides = [i \in Positions |-> AsDict(o[i]) \cup {"tracking_info"}]
            BY <1>1, <1>3, <3>2 DEF TrackEcs, HasContainerOverrides
        <3>4. QED
            BY <3>3
    <2>3. QED
        BY <2>1, <2>2 DEF EcsOverrides
<1>6. ProviderJobTracked'
    BY <1>1, <1>3, <1>4, <1>5 DEF ProviderJobTracked, IsInstanceByClassName
<1>7. QED
    BY <1>3, <1>6 DEF WInv

\* An operator of no provider class is left unwrapped.
LEMMA OtherStep ==
    ASSUME NoneIsDistinct, wpc = "enter", Next, op = MkOther
    PROVE  WInv'
<1>1. WrapperOf(op) = None
    <2>1. op.mro = {"BaseOperator", "PythonOperator"}
        BY DEF MkOther, Of, Default
    <2>2. QED
        BY <2>1, WrapperOfOther
<1>2. None # "spark_submit"
      /\ \A w \in {"emr", "dataproc_pyspark", "dataproc_submit_job", "ecs"} : None # w
    BY DEF NoneIsDistinct, WrapperNames
<1>3. ~EnterSparkSubmit
      /\ \A w \in {"emr", "dataproc_pyspark", "dataproc_submit_job", "ecs"} : ~Enter(w)
    BY <1>1, <1>2 DEF EnterSparkSubmit, Enter
<1>4. wpc' = "unwrapped"
    BY <1>3 DEF Next, Unwrapped
<1>5. QED
    BY <1>4 DEF WInv, ProviderJobTracked

\* Every operator starts before its wrapper.
LEMMA WInvInit == Init => WInv
BY DEF Init, WInv, ProviderJobTracked

\* No step, whatever the operator, breaks WInv.
LEMMA WInvStep ==
    ASSUME NoneIsDistinct, WInv, [Next]_vars
    PROVE  WInv'
<1>1. CASE UNCHANGED vars
    BY <1>1 DEF vars, WInv, ProviderJobTracked,
                IsInstanceByClassName, HasContainerOverrides
<1>2. CASE Next
    <2>1. wpc = "enter"
        BY <1>2 DEF Next, Unwrapped, Enter, EnterSparkSubmit
    <2>2. op \in Operators
        BY <2>1 DEF WInv
    <2>3. CASE op \in EmrOperators
        BY <1>2, <2>1, <2>3, EmrStep
    <2>4. CASE op \in DataprocOperators
        <3>1. CASE \E c \in PySparkClasses, p \in PySparkProps : op = MkPySpark(c, p)
            BY <1>2, <2>1, <3>1, PySparkStep
        <3>2. CASE \E j \in SubmitJobs : op = MkSubmitJob(j)
            BY <1>2, <2>1, <3>2, SubmitJobStep
        <3>3. QED
            BY <2>4, <3>1, <3>2, DataprocFamily
    <2>5. CASE op \in SparkSubmitOperators
        <3>1. PICK cf \in DictArgs, ev \in DictArgs, a \in Applications,
                   j \in JarsArgs : op = MkSparkSubmit(cf, ev, a, j)
            BY <2>5, SparkSubmitFamily
        <3>2. QED
            BY <1>2, <2>1, <3>1, SparkSubmitStep
    <2>6. CASE op \in EcsOperators
        <3>1. PICK o \in EcsOverrides : op = MkEcs(o)
            BY <2>6, EcsFamily
        <3>2. QED
            BY <1>2, <2>1, <3>1, EcsStep
    <2>7. CASE op \in OtherOperators
        BY <1>2, <2>1, <2>7, OtherFamily, OtherStep
    <2>8. QED
        BY <2>2, <2>3, <2>4, <2>5, <2>6, <2>7 DEF Operators
<1>3. QED
    BY <1>1, <1>2

(* wrap_operator_with_tracking_info, for any number of EMR steps and ECS  *)
(* containers: an operator that runs inside its wrapper has the dbnd      *)
(* variables where its job reads them.                                     *)
THEOREM ProviderJobTrackedHolds ==
    ASSUME NoneIsDistinct
    PROVE  Spec => []ProviderJobTracked
<1>1. WInv => ProviderJobTracked
    BY DEF WInv
<1>2. QED
    BY <1>1, WInvInit, WInvStep, PTL DEF Spec

-----------------------------------------------------------------------------
(* Type correctness, for any number of EMR steps and ECS containers. *)

\* The classes of the operators and the shapes of their arguments.
MroNames == {"BaseOperator", "PythonOperator", "EmrAddStepsOperator",
             "EmrPySparkOperator", "DataProcPySparkOperator",
             "DataprocSubmitPySparkJobOperator", "DataprocSubmitJobOperator",
             "SparkSubmitOperator", "ECSOperator"}
PropsArgs == {None} \cup SUBSET (SparkEnvs \cup {"spark.executor.memory"})
Jobs == {None} \cup [pyspark_job : {None} \cup SUBSET SparkEnvs]
        \cup [hive_job : {None}]
ConfArgs == {None} \cup SUBSET (SparkEnvs \cup AgentConf)
EnvArgs == {None} \cup SUBSET DbndEnvVars
OverrideArgs == {None} \cup [Positions -> {None} \cup SUBSET {"tracking_info"}]

\* Every operator the wrappers may be handed or leave behind.
OpRecords ==
    [mro : SUBSET MroNames, steps : [Positions -> ArgKinds],
     tracked : SUBSET Positions, props : PropsArgs, job : Jobs,
     conf : ConfArgs, envVars : EnvArgs, application : Applications,
     jars : JarsArgs, overrides : OverrideArgs]

\* The inductive invariant of TypeOK.
RInv ==
    /\ op \in OpRecords
    /\ agent \in BOOLEAN
    /\ wpc \in {"enter", "running", "raised", "unwrapped"}

\* The fields of an operator record.
OpFields == {"mro", "steps", "tracked", "props", "job", "conf", "envVars",
             "application", "jars", "overrides"}

\* A record of well-shaped arguments is an operator of OpRecords.
LEMMA OpRecordIntro ==
    ASSUME NEW r, DOMAIN r = OpFields, r = [f \in DOMAIN r |-> r[f]],
           r.mro \in SUBSET MroNames, r.steps \in [Positions -> ArgKinds],
           r.tracked \in SUBSET Positions, r.props \in PropsArgs,
           r.job \in Jobs, r.conf \in ConfArgs, r.envVars \in EnvArgs,
           r.application \in Applications, r.jars \in JarsArgs,
           r.overrides \in OverrideArgs
    PROVE  r \in OpRecords
BY DEF OpRecords, OpFields

\* The operators of the providers are well-shaped records.
LEMMA OperatorsTyped == Operators \subseteq OpRecords
<1>0. /\ None \in PropsArgs /\ None \in Jobs /\ None \in ConfArgs
      /\ None \in EnvArgs /\ None \in OverrideArgs /\ None \in JarsArgs
      /\ "app.py" \in Applications
      /\ [i \in Positions |-> "empty"] \in [Positions -> ArgKinds]
      /\ {} \in SUBSET Positions
    BY DEF PropsArgs, Jobs, ConfArgs, EnvArgs, OverrideArgs, JarsArgs,
           Applications, ArgKinds
<1>1. ASSUME NEW c \in EmrClasses, NEW s \in [Positions -> ArgKinds]
      PROVE  MkEmr(c, s) \in OpRecords
    <2>0. MkEmr(c, s) = [f \in DOMAIN MkEmr(c, s) |-> MkEmr(c, s)[f]]
        BY DEF MkEmr, Default
    <2>1. /\ DOMAIN MkEmr(c, s) = OpFields
          /\ MkEmr(c, s).mro = Of(c)
          /\ MkEmr(c, s).steps = s
          /\ MkEmr(c, s).tracked = {}
          /\ MkEmr(c, s).props = None
          /\ MkEmr(c, s).job = None
          /\ MkEmr(c, s).conf = None
          /\ MkEmr(c, s).envVars = None
          /\ MkEmr(c, s).application = "app.py"
          /\ MkEmr(c, s).jars = None
          /\ MkEmr(c, s).overrides = None
        BY DEF MkEmr, Default, OpFields
    <2>2. Of(c) \in SUBSET MroNames
        BY DEF Of, EmrClasses, MroNames
    <2>3. QED
        BY <1>0, <2>0, <2>1, <2>2, OpRecordIntro
<1>2. ASSUME NEW c \in PySparkClasses, NEW p \in PySparkProps
      PROVE  MkPySpark(c, p) \in OpRecords
    <2>0. MkPySpark(c, p) = [f \in DOMAIN MkPySpark(c, p) |-> MkPySpark(c, p)[f]]
        BY DEF MkPySpark, Default
    <2>1. /\ DOMAIN MkPySpark(c, p) = OpFields
          /\ MkPySpark(c, p).mro = Of(c)
          /\ MkPySpark(c, p).steps = [i \in Positions |-> "empty"]
          /\ MkPySpark(c, p).tracked = {}
          /\ MkPySpark(c, p).props = p
          /\ MkPySpark(c, p).job = None
          /\ MkPySpark(c, p).conf = None
          /\ MkPySpark(c, p).envVars = None
          /\ MkPySpark(c, p).application = "app.py"
          /\ MkPySpark(c, p).jars = None
          /\ MkPySpark(c, p).overrides = None
        BY DEF MkPySpark, Default, OpFields
    <2>2. Of(c) \in SUBSET MroNames /\ p \in PropsArgs
        BY DEF Of, PySparkClasses, MroNames, PySparkProps, PropsArgs
    <2>3. QED
        BY <1>0, <2>0, <2>1, <2>2, OpRecordIntro
<1>3. ASSUME NEW j \in SubmitJobs
      PROVE  MkSubmitJob(j) \in OpRecords
    <2>0. MkSubmitJob(j) = [f \in DOMAIN MkSubmitJob(j) |-> MkSubmitJob(j)[f]]
        BY DEF MkSubmitJob, Default
    <2>1. /\ DOMAIN MkSubmitJob(j) = OpFields
          /\ MkSubmitJob(j).mro = Of("DataprocSubmitJobOperator")
          /\ MkSubmitJob(j).steps = [i \in Positions |-> "empty"]
          /\ MkSubmitJob(j).tracked = {}
          /\ MkSubmitJob(j).props = None
          /\ MkSubmitJob(j).job = j
          /\ MkSubmitJob(j).conf = None
          /\ MkSubmitJob(j).envVars = None
          /\ MkSubmitJob(j).application = "app.py"
          /\ MkSubmitJob(j).jars = None
          /\ MkSubmitJob(j).overrides = None
        BY DEF MkSubmitJob, Default, OpFields
    <2>2. Of("DataprocSubmitJobOperator") \in SUBSET MroNames /\ j \in Jobs
        BY DEF Of, MroNames, SubmitJobs, Jobs
    <2>3. QED
        BY <1>0, <2>0, <2>1, <2>2, OpRecordIntro
<1>4. ASSUME NEW cf \in DictArgs, NEW ev \in DictArgs, NEW a \in Applications,
             NEW j \in JarsArgs
      PROVE  MkSparkSubmit(cf, ev, a, j) \in OpRecords
    <2>0. MkSparkSubmit(cf, ev, a, j) = [f \in DOMAIN MkSparkSubmit(cf, ev, a, j) |-> MkSparkSubmit(cf, ev, a, j)[f]]
        BY DEF MkSparkSubmit, Default
    <2>1. /\ DOMAIN MkSparkSubmit(cf, ev, a, j) = OpFields
          /\ MkSparkSubmit(cf, ev, a, j).mro = Of("SparkSubmitOperator")
          /\ MkSparkSubmit(cf, ev, a, j).steps = [i \in Positions |-> "empty"]
          /\ MkSparkSubmit(cf, ev, a, j).tracked = {}
          /\ MkSparkSubmit(cf, ev, a, j).props = None
          /\ MkSparkSubmit(cf, ev, a, j).job = None
          /\ MkSparkSubmit(cf, ev, a, j).conf = cf
          /\ MkSparkSubmit(cf, ev, a, j).envVars = ev
          /\ MkSparkSubmit(cf, ev, a, j).application = a
          /\ MkSparkSubmit(cf, ev, a, j).jars = j
          /\ MkSparkSubmit(cf, ev, a, j).overrides = None
        BY DEF MkSparkSubmit, Default, OpFields
    <2>2. Of("SparkSubmitOperator") \in SUBSET MroNames
          /\ cf \in ConfArgs /\ ev \in EnvArgs
        BY DEF Of, MroNames, DictArgs, ConfArgs, EnvArgs
    <2>3. QED
        BY <1>0, <2>0, <2>1, <2>2, OpRecordIntro
<1>5. ASSUME NEW o \in EcsOverrides
      PROVE  MkEcs(o) \in OpRecords
    <2>0. MkEcs(o) = [f \in DOMAIN MkEcs(o) |-> MkEcs(o)[f]]
        BY DEF MkEcs, Default
    <2>1. /\ DOMAIN MkEcs(o) = OpFields
          /\ MkEcs(o).mro = Of("ECSOperator")
          /\ MkEcs(o).steps = [i \in Positions |-> "empty"]
          /\ MkEcs(o).tracked = {}
          /\ MkEcs(o).props = None
          /\ MkEcs(o).job = None
          /\ MkEcs(o).conf = None
          /\ MkEcs(o).envVars = None
          /\ MkEcs(o).application = "app.py"
          /\ MkEcs(o).jars = None
          /\ MkEcs(o).overrides = o
        BY DEF MkEcs, Default, OpFields
    <2>2. Of("ECSOperator") \in SUBSET MroNames /\ o \in OverrideArgs
        BY DEF Of, MroNames, EcsOverrides, OverrideArgs
    <2>3. QED
        BY <1>0, <2>0, <2>1, <2>2, OpRecordIntro
<1>6. MkOther \in OpRecords
    <2>0. MkOther = [f \in DOMAIN MkOther |-> MkOther[f]]
        BY DEF MkOther, Default
    <2>1. /\ DOMAIN MkOther = OpFields
          /\ MkOther.mro = Of("PythonOperator")
          /\ MkOther.steps = [i \in Positions |-> "empty"]
          /\ MkOther.tracked = {}
          /\ MkOther.props = None
          /\ MkOther.job = None
          /\ MkOther.conf = None
          /\ MkOther.envVars = None
          /\ MkOther.application = "app.py"
          /\ MkOther.jars = None
          /\ MkOther.overrides = None
        BY DEF MkOther, Default, OpFields
    <2>2. Of("PythonOperator") \in SUBSET MroNames
        BY DEF Of, MroNames
    <2>3. QED
        BY <1>0, <2>0, <2>1, <2>2, OpRecordIntro
<1>7. QED
    BY <1>1, <1>2, <1>3, <1>4, <1>5, <1>6, EmrFamily, DataprocFamily,
       SparkSubmitFamily, EcsFamily, OtherFamily DEF Operators

\* The fields of an operator of OpRecords, and their shapes.
LEMMA OpRecordElim ==
    ASSUME NEW o \in OpRecords
    PROVE  /\ DOMAIN o = OpFields
           /\ o.mro \in SUBSET MroNames /\ o.steps \in [Positions -> ArgKinds]
           /\ o.tracked \in SUBSET Positions /\ o.props \in PropsArgs
           /\ o.job \in Jobs /\ o.conf \in ConfArgs /\ o.envVars \in EnvArgs
           /\ o.application \in Applications /\ o.jars \in JarsArgs
           /\ o.overrides \in OverrideArgs
BY DEF OpRecords, OpFields

\* The shape of each argument of an operator.
FieldShape ==
    [mro |-> SUBSET MroNames, steps |-> [Positions -> ArgKinds],
     tracked |-> SUBSET Positions, props |-> PropsArgs, job |-> Jobs,
     conf |-> ConfArgs, envVars |-> EnvArgs, application |-> Applications,
     jars |-> JarsArgs, overrides |-> OverrideArgs]

\* An operator whose arguments are each kept or replaced by one of the
\* right shape is an operator of OpRecords.
LEMMA ExceptTyped ==
    ASSUME NEW o \in OpRecords, NEW r,
           r = [fl \in DOMAIN r |-> r[fl]], DOMAIN r = OpFields,
           \A fl \in OpFields : r[fl] = o[fl] \/ r[fl] \in FieldShape[fl]
    PROVE  r \in OpRecords
<1>1. /\ r.mro \in SUBSET MroNames /\ r.steps \in [Positions -> ArgKinds]
      /\ r.tracked \in SUBSET Positions /\ r.props \in PropsArgs
      /\ r.job \in Jobs /\ r.conf \in ConfArgs /\ r.envVars \in EnvArgs
      /\ r.application \in Applications /\ r.jars \in JarsArgs
      /\ r.overrides \in OverrideArgs
    BY OpRecordElim DEF OpFields, FieldShape
<1>2. QED
    BY <1>1, OpRecordIntro

\* track_emr_add_steps_operator marks positions of the steps list.
LEMMA TrackEmrTyped ==
    ASSUME NEW o \in OpRecords
    PROVE  TrackEmrAddSteps(o) \in OpRecords
<1> DEFINE nt == o.tracked \cup {i \in Positions : o.steps[i] = "spark-submit"}
           no == [o EXCEPT !.tracked = nt]
<1>1. /\ no = [fl \in DOMAIN no |-> no[fl]] /\ DOMAIN no = OpFields
      /\ \A fl \in OpFields : no[fl] = o[fl] \/ no[fl] \in FieldShape[fl]
    BY OpRecordElim DEF OpFields, FieldShape
<1>2. TrackEmrAddSteps(o) = no
    BY DEF TrackEmrAddSteps
<1>3. QED
    BY <1>1, <1>2, ExceptTyped

\* track_dataproc_pyspark_operator adds the spark envs to the properties.
LEMMA TrackPySparkTyped ==
    ASSUME NEW o \in OpRecords
    PROVE  TrackDataprocPySpark(o) \in OpRecords
<1> DEFINE np == AsDict(o.props) \cup SparkEnvs
           no == [o EXCEPT !.props = np]
<1>1. np \in PropsArgs
    BY OpRecordElim DEF AsDict, PropsArgs
<1>2. TrackDataprocPySpark(o) = no
    BY DEF TrackDataprocPySpark
<1> HIDE DEF np
<1>3. /\ no = [fl \in DOMAIN no |-> no[fl]] /\ DOMAIN no = OpFields
      /\ \A fl \in OpFields : no[fl] = o[fl] \/ no[fl] \in FieldShape[fl]
    BY <1>1, OpRecordElim DEF OpFields, FieldShape
<1>4. QED
    BY <1>2, <1>3, ExceptTyped

\* track_dataproc_submit_job_operator rewrites a pyspark_job only.
LEMMA TrackSubmitJobTyped ==
    ASSUME NEW o \in OpRecords
    PROVE  TrackDataprocSubmitJob(o) \in OpRecords
<1>1. CASE o.job # None /\ "pyspark_job" \in DOMAIN o.job
    <2> DEFINE nj == [o.job EXCEPT !.pyspark_job = AsDict(@) \cup SparkEnvs]
               no == [o EXCEPT !.job = nj]
    <2>1. o.job \in [pyspark_job : {None} \cup SUBSET SparkEnvs]
        BY <1>1, OpRecordElim DEF Jobs
    <2>2. nj \in Jobs
        BY <2>1 DEF AsDict, Jobs
    <2> HIDE DEF nj
    <2>3. /\ no = [fl \in DOMAIN no |-> no[fl]] /\ DOMAIN no = OpFields
          /\ \A fl \in OpFields : no[fl] = o[fl] \/ no[fl] \in FieldShape[fl]
        BY <2>2, OpRecordElim DEF OpFields, FieldShape
    <2>4. TrackDataprocSubmitJob(o) = no
        BY <1>1 DEF TrackDataprocSubmitJob, nj
    <2>5. QED
        BY <2>3, <2>4, ExceptTyped
<1>2. CASE ~(o.job # None /\ "pyspark_job" \in DOMAIN o.job)
    BY <1>2 DEF TrackDataprocSubmitJob
<1>3. QED
    BY <1>1, <1>2

\* track_ecs_operator adds the tracking info to every container override.
LEMMA TrackEcsTyped ==
    ASSUME NEW o \in OpRecords
    PROVE  TrackEcs(o) \in OpRecords
<1>1. CASE HasContainerOverrides(o)
    <2> DEFINE nov == [i \in Positions |->
                          AsDict(o.overrides[i]) \cup {"tracking_info"}]
               no == [o EXCEPT !.overrides = nov]
    <2>1. o.overrides \in [Positions -> {None} \cup SUBSET {"tracking_info"}]
        BY <1>1, OpRecordElim DEF HasContainerOverrides, OverrideArgs
    <2>2. nov \in OverrideArgs
        BY <2>1 DEF AsDict, OverrideArgs
    <2>3. /\ no = [fl \in DOMAIN no |-> no[fl]] /\ DOMAIN no = OpFields
          /\ \A fl \in OpFields : no[fl] = o[fl] \/ no[fl] \in FieldShape[fl]
        BY <2>2, OpRecordElim DEF OpFields, FieldShape
    <2>4. TrackEcs(o) = no
        BY <1>1 DEF TrackEcs
    <2>5. QED
        BY <2>3, <2>4, ExceptTyped
<1>2. CASE ~HasContainerOverrides(o)
    BY <1>2 DEF TrackEcs
<1>3. QED
    BY <1>1, <1>2

\* track_spark_submit_operator adds the spark envs to the conf and the dbnd
\* variables to the env vars, and then, for a java application with an
\* agent configured, the agent to the conf.
LEMMA TrackSparkSubmitTyped ==
    ASSUME NEW o \in OpRecords
    PROVE  /\ TrackSparkSubmitEnvs(o) \in OpRecords
           /\ [TrackSparkSubmitEnvs(o) EXCEPT !.conf = @ \cup AgentConf] \in OpRecords
<1> DEFINE nc == AsDict(o.conf) \cup SparkEnvs
           ne == AsDict(o.envVars) \cup DbndEnvVars
           nca == nc \cup AgentConf
           oc == [o EXCEPT !.conf = nc]
           no == [oc EXCEPT !.envVars = ne]
           na == [no EXCEPT !.conf = nca]
<1>0. /\ nc \in ConfArgs /\ ne \in EnvArgs /\ nca \in ConfArgs
      /\ TrackSparkSubmitEnvs(o) = no
      /\ [TrackSparkSubmitEnvs(o) EXCEPT !.conf = @ \cup AgentConf] = na
    BY OpRecordElim DEF AsDict, ConfArgs, EnvArgs, TrackSparkSubmitEnvs
<1> HIDE DEF nc, ne, nca
<1>1. /\ oc = [fl \in DOMAIN oc |-> oc[fl]] /\ DOMAIN oc = OpFields
      /\ \A fl \in OpFields : oc[fl] = o[fl] \/ oc[fl] \in FieldShape[fl]
    BY <1>0, OpRecordElim DEF OpFields, FieldShape
<1>2. oc \in OpRecords
    BY <1>1, ExceptTyped
<1> HIDE DEF oc
<1>3. /\ no = [fl \in DOMAIN no |-> no[fl]] /\ DOMAIN no = OpFields
      /\ \A fl \in OpFields : no[fl] = oc[fl] \/ no[fl] \in FieldShape[fl]
    BY <1>0, <1>1, <1>2, OpRecordElim DEF OpFields, FieldShape
<1>4. no \in OpRecords
    BY <1>2, <1>3, ExceptTyped
<1> HIDE DEF no
<1>5. /\ na = [fl \in DOMAIN na |-> na[fl]] /\ DOMAIN na = OpFields
      /\ \A fl \in OpFields : na[fl] = no[fl] \/ na[fl] \in FieldShape[fl]
    BY <1>0, <1>3, <1>4, OpRecordElim DEF OpFields, FieldShape
<1>6. na \in OpRecords
    BY <1>4, <1>5, ExceptTyped
<1>7. QED
    BY <1>0, <1>4, <1>6

\* The provider operators start well shaped.
LEMMA RInvInit == Init => RInv
BY OperatorsTyped DEF Init, RInv

\* Entering a wrapper leaves a well-shaped operator.
LEMMA RInvStep == RInv /\ [Next]_vars => RInv'
<1> SUFFICES ASSUME RInv, [Next]_vars PROVE RInv'
    OBVIOUS
<1>1. op \in OpRecords
    BY DEF RInv
<1>2. CASE Unwrapped
    BY <1>2 DEF Unwrapped, RInv
<1>3. ASSUME NEW w \in {"emr", "dataproc_pyspark", "dataproc_submit_job", "ecs"},
             Enter(w)
      PROVE  RInv'
    <2>1. Track(w, op) \in OpRecords
        BY <1>1, TrackEmrTyped, TrackPySparkTyped, TrackSubmitJobTyped,
           TrackEcsTyped DEF Track
    <2>2. QED
        BY <1>3, <2>1 DEF Enter, RInv
<1>4. CASE EnterSparkSubmit
    <2>1. \/ op' = TrackSparkSubmitEnvs(op)
          \/ op' = [TrackSparkSubmitEnvs(op) EXCEPT !.conf = @ \cup AgentConf]
        BY <1>4 DEF EnterSparkSubmit
    <2>2. op' \in OpRecords
        BY <1>1, <2>1, TrackSparkSubmitTyped
    <2>3. QED
        BY <1>4, <2>2 DEF EnterSparkSubmit, RInv
<1>5. CASE UNCHANGED vars
    BY <1>5 DEF vars, RInv
<1>6. QED
    BY <1>2, <1>3, <1>4, <1>5 DEF Next

(* wrap_operator_with_tracking_info and its wrappers, for any number of   *)
(* EMR steps and ECS containers: the rewritten arguments keep their       *)
(* shapes; the conf only gets spark envs and the java agent, the env vars *)
(* only dbnd variables, the tracked steps are steps of the list.          *)
THEOREM TypeCorrect == Spec => []TypeOK
<1>1. RInv => TypeOK
    <2> SUFFICES ASSUME RInv PROVE TypeOK
        OBVIOUS
    <2>1. op \in OpRecords
        BY DEF RInv
    <2>2. QED
        BY <2>1, OpRecordElim DEF RInv, TypeOK, MroNames, PropsArgs, ConfArgs,
                                  EnvArgs
<1>2. QED
    BY <1>1, RInvInit, RInvStep, PTL DEF Spec

=============================================================================
