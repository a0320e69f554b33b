----------------------- MODULE DatabricksTrackingProofs -----------------------
(***************************************************************************)
(* Proof that the Databricks wrapper, reporting through the composite     *)
(* tracking store, stays well typed for every number of stores, retry     *)
(* budget and flag setting of the composite.                              *)
(***************************************************************************)
EXTENDS DatabricksTracking, TLAPS

USE BoundsAssumption
    DEF Store!CallIds, Store!Stores

-----------------------------------------------------------------------------
(* Type correctness of the composition. *)

\* The proofs about the composite, on the variables it shares here.
SP == INSTANCE CompositeStoreProofs

\* The inductive invariant of WrapperTypeOK: the composite's own, with the
\* types of the wrapper.
TInv == SP!TypeInv /\ WrapperTypeOK

\* The composite seen through the two instances is one and the same.
LEMMA SameComposite ==
    /\ Store!Next <=> SP!Next
    /\ Store!Init <=> SP!Init
    /\ Store!vars = SP!vars
    /\ SP!TypeInv <=> Store!TypeOK /\ SP!LoopInv
BY DEF Store!Next, SP!Next, Store!Init, SP!Init, Store!Invoke, SP!Invoke, Store!Dispatch,
    SP!Dispatch, Store!SkipRemoved, SP!SkipRemoved, Store!CallHandler,
    SP!CallHandler, Store!AttemptSucceeds, SP!AttemptSucceeds,
    Store!FailedAttempt, SP!FailedAttempt, Store!AttemptFailsRetry,
    SP!AttemptFailsRetry, Store!AttemptFailsNext, SP!AttemptFailsNext,
    Store!AttemptFailsRaise, SP!AttemptFailsRaise, Store!Finish, SP!Finish,
    Store!DisableTrackingApi, SP!DisableTrackingApi, Store!Terminating,
    SP!Terminating, Store!Tries, SP!Tries, Store!QueueForRemoval,
    SP!QueueForRemoval, Store!IsStateCall, SP!IsStateCall, Store!StateCalls,
    SP!StateCalls, Store!frame, SP!frame, Store!FailureKinds,
    SP!FailureKinds, Store!Stores, SP!Stores, Store!CallIds, SP!CallIds,
    Store!NoResult, SP!NoResult, Store!EndedRecords, SP!EndedRecords,
    Store!vars, SP!vars, SP!TypeInv, SP!TypeOK, Store!TypeOK, SP!LoopInv

\* The assumptions of the composite hold of the constants.
LEMMA StoreAssumptions ==
    /\ None \notin SP!CompositeMethods
    /\ CallNames \subseteq SP!CompositeMethods
    /\ ChannelStores \subseteq SP!Stores
    /\ RaiseOnError \in BOOLEAN /\ RemoveFailedStore \in BOOLEAN
    /\ MaxCalls \in Nat /\ NStores \in Nat /\ MaxRetries \in Nat \ {0}
BY StoreAssumption, BoundsAssumption
DEF SP!CompositeMethods, Store!CompositeMethods, SP!Stores

\* A step of the composition is a step of the composite or leaves its
\* variables alone.
LEMMA StoreSteps == [Next]_vars => [Store!Next]_storeVars
<1> SUFFICES ASSUME [Next]_vars PROVE [Store!Next]_storeVars
    OBVIOUS
<1>1. CASE StoreStep
    BY <1>1 DEF StoreStep, Store!Next
<1>2. CASE HookFails \/ HookAnswers \/ SetState
    <2>1. \E n \in CallNames : Store!Invoke(n, InTrackingRun)
        BY <1>2, CallsAssumption DEF HookFails, HookAnswers, SetState, Report
    <2>2. QED
        BY <2>1, TrackingRunAssumption DEF Store!Next
<1>3. CASE PrepareCluster \/ PrepareJar \/ NoJar \/ Execute \/ NoScript
           \/ LinksSaved \/ StateSet \/ UNCHANGED vars
    BY <1>3 DEF PrepareCluster, PrepareJar, NoJar, Execute, NoScript,
                LinksSaved, StateSet, vars
<1>4. QED
    BY <1>1, <1>2, <1>3 DEF Next, WrapperStep

LEMMA StoreTypeStep == SP!TypeInv /\ [Next]_vars => SP!TypeInv'
<1> SUFFICES ASSUME SP!TypeInv, [Next]_vars PROVE SP!TypeInv'
    OBVIOUS
<1>1. [SP!Next]_(SP!vars)
    BY StoreSteps, SameComposite DEF Store!vars, SP!vars, storeVars
<1>2. QED
    BY <1>1, StoreAssumptions, SP!TypeInvStep

\* A report hands the composite a call id of its own.
LEMMA ReportType ==
    ASSUME TInv, NEW n, NEW what \in Outcomes \cup {"links"}, NEW w,
           Report(n, what, w)
    PROVE  /\ sent' \in [Store!CallIds -> Outcomes \cup {"links"}]
           /\ wpc' = w
<1>1. calls \in 0 .. MaxCalls /\ calls < MaxCalls
    BY DEF TInv, WrapperTypeOK, Store!TypeOK, Report, Store!Invoke
<1>2. QED
    BY <1>1 DEF TInv, WrapperTypeOK, Report, Store!CallIds

LEMMA TInvInit == Init => TInv
<1> SUFFICES ASSUME Init PROVE TInv
    OBVIOUS
<1>1. SP!TypeInv
    BY StoreAssumptions, SameComposite, SP!TypeInvInit DEF Init
<1>2. Store!TypeOK
    BY <1>1 DEF SP!TypeInv, SP!TypeOK, Store!TypeOK, SP!Stores, Store!Stores, SP!CallIds, Store!CallIds, SP!NoResult, Store!NoResult, SP!EndedRecords, Store!EndedRecords
<1>3. QED
    BY <1>1, <1>2 DEF Init, TInv, WrapperTypeOK, Outcomes, Store!CallIds

LEMMA TInvStep == TInv /\ [Next]_vars => TInv'
<1> SUFFICES ASSUME TInv, [Next]_vars PROVE TInv'
    OBVIOUS
<1>1. SP!TypeInv'
    BY StoreTypeStep DEF TInv
<1>2. Store!TypeOK'
    BY <1>1 DEF SP!TypeInv, SP!TypeOK, Store!TypeOK, SP!Stores, Store!Stores, SP!CallIds, Store!CallIds, SP!NoResult, Store!NoResult, SP!EndedRecords, Store!EndedRecords
<1> DEFINE Wrapper ==
        /\ config \subseteq ConfigKeys
        /\ agentConf \in BOOLEAN
        /\ clusterEnv \subseteq EnvKeys
        /\ clusterConf \subseteq {"java_agent"}
        /\ scriptName \in BOOLEAN
        /\ wpc \in {"enter", "jar", "running", "returned", "raised", "links",
                    "await_links", "state", "await_state", "done", "name_error"}
        /\ runResult \in Outcomes
        /\ sent \in [Store!CallIds -> Outcomes \cup {"links"}]
<1>3. Wrapper
    BY DEF TInv, WrapperTypeOK
<1>4. Wrapper'
    <2>1. CASE StoreStep \/ UNCHANGED vars
        BY <1>3, <2>1 DEF StoreStep, vars, wrapperVars
    <2>2. CASE PrepareCluster \/ PrepareJar \/ NoJar \/ Execute \/ NoScript
               \/ LinksSaved \/ StateSet
        BY <1>3, <2>2 DEF PrepareCluster, PrepareJar, NoJar, Execute, NoScript,
                          LinksSaved, StateSet, EnvKeys, Outcomes
    <2>3. CASE HookFails \/ HookAnswers \/ SetState
        <3>1. /\ sent' \in [Store!CallIds -> Outcomes \cup {"links"}]
              /\ wpc' \in {"await_state", "await_links"}
            BY <2>3, ReportType DEF HookFails, HookAnswers, SetState,
                                    ReportedState, Outcomes
        <3>2. QED
            BY <1>3, <2>3, <3>1 DEF HookFails, HookAnswers, SetState
    <2>4. QED
        BY <2>1, <2>2, <2>3 DEF Next, WrapperStep
<1>5. QED
    BY <1>1, <1>2, <1>4 DEF TInv, WrapperTypeOK

(* Type correctness of track_databricks_submit_run_operator and the      *)
(* CompositeTrackingStore it reports through, for every number of stores, *)
(* retries and calls: every report gets a call id of the composite and    *)
(* the json rewrites add only the tracking keys.                          *)
THEOREM WrapperTypeCorrect == Spec => []WrapperTypeOK
<1>1. TInv => WrapperTypeOK
    BY DEF TInv
<1>2. QED
    BY <1>1, TInvInit, TInvStep, PTL DEF Spec

=============================================================================
