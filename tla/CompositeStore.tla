--------------------------- MODULE CompositeStore ---------------------------
(***************************************************************************)
(* CompositeTrackingStore (dbnd/_core/tracking/backends/                   *)
(* tracking_store_composite.py): one logical tracking call is fanned out  *)
(* to every backend store of an ordered list.  Each store gets a retry    *)
(* budget (MaxRetries attempts for a state call, one otherwise); a store  *)
(* that exhausts its budget is queued for removal under the quarantine    *)
(* policy, and the queue is applied after the whole list was visited.  A  *)
(* TrackerPanicError on the last attempt aborts the call when             *)
(* raise_on_error is set.                                                  *)
(*                                                                         *)
(* Stores are identified by their position 1..NStores in the list given  *)
(* to the constructor.  The list only ever loses elements (remove() and   *)
(* the filter of disable_tracking_api both keep the order), so it is      *)
(* represented by the set `active` of positions still present, and the    *)
(* `for store in self._stores` loop by an index idx over the positions.   *)
(* The backend stores themselves are the environment: each attempt        *)
(* succeeds, fails, fails after the effect was applied (a timeout), or    *)
(* raises TrackerPanicError.                                               *)
(***************************************************************************)
EXTENDS Naturals, FiniteSets

CONSTANTS
    NStores,            \* number of stores handed to the constructor
    ChannelStores,      \* positions holding a TrackingStoreThroughChannel
    MaxRetries,         \* max_retires of the constructor
    RaiseOnError,       \* raise_on_error
    RemoveFailedStore,  \* remove_failed_store
    CallNames,          \* the handler names the callers use
    MaxCalls,           \* bound on the number of _invoke calls
    None                \* Python None

\* try_run_handler documents `tries` as a positive integer.
ASSUME MaxRetriesAssumption == MaxRetries \in Nat \ {0}
ASSUME NStoresAssumption == NStores \in Nat
ASSUME MaxCallsAssumption == MaxCalls \in Nat
ASSUME FlagsAssumption == RaiseOnError \in BOOLEAN /\ RemoveFailedStore \in BOOLEAN

Stores == 1 .. NStores
CallIds == 1 .. MaxCalls

ASSUME ChannelAssumption == ChannelStores \subseteq Stores

\* The handlers CompositeTrackingStore forwards through _invoke.
CompositeMethods ==
    { "init_scheduled_job", "init_run", "init_run_from_args", "set_run_state",
      "set_task_reused", "set_task_run_state", "set_task_run_states",
      "set_unfinished_tasks_state", "save_task_run_log", "save_external_links",
      "log_target", "log_targets", "log_histograms", "log_metrics",
      "log_artifact", "add_task_runs", "heartbeat", "save_airflow_task_infos",
      "update_task_run_attempts", "save_airflow_monitor_data" }

ASSUME CallNamesAssumption == CallNames \subseteq CompositeMethods
ASSUME NoneAssumption == None \notin CompositeMethods

\* res is a store's result or None; position 0 stands for None.
NoResult == 0

\* is_state_call: the calls that record a durable state transition.
StateCalls == {"init_run", "set_run_state", "set_task_run_state"}
IsStateCall(name) == name \in StateCalls

\* The ways one attempt of a handler can fail.
FailureKinds == {"error", "error_applied", "panic"}

VARIABLES
    active,    \* positions of self._stores still in the list
    applied,   \* applied[s]: the calls whose effect backend store s holds
    calls,     \* number of _invoke calls started; the current call's id
    pc,        \* "idle"; "loop" in the for loop of _invoke; "calling" while
               \* the handler of the store at idx runs
    name,      \* handler name of the current call
    inRun,     \* in_tracking_run() during the current call
    idx,       \* loop position in the store list
    tryNum,    \* try_num of try_run_handler for the store at idx
    failed,    \* failed_stores of the current call
    res,       \* res of the current call: the store whose result it holds
    fails,     \* fails[c][s]: failed attempts of store s in call c (history)
    ended      \* the calls that returned or raised, with their outcome

vars == <<active, applied, calls, pc, name, inRun, idx, tryNum, failed, res,
          fails, ended>>

EndedRecords ==
    [id: CallIds, name: CallNames, inRun: BOOLEAN,
     outcome: {"returned", "raised"}, res: Stores \cup {NoResult}]

TypeOK ==
    /\ active \subseteq Stores
    /\ applied \in [Stores -> SUBSET CallIds]
    /\ calls \in 0 .. MaxCalls
    /\ pc \in {"idle", "loop", "calling"}
    /\ name \in CallNames \cup {None}
    /\ inRun \in BOOLEAN
    /\ idx \in 1 .. NStores + 1
    /\ tryNum \in 1 .. MaxRetries
    /\ failed \subseteq Stores
    /\ res \in Stores \cup {NoResult}
    /\ fails \in [CallIds -> [Stores -> 0 .. MaxRetries]]
    /\ ended \subseteq EndedRecords

-----------------------------------------------------------------------------
(* The constructor: every configured store is in the list. *)
Init ==
    /\ active = Stores
    /\ applied = [s \in Stores |-> {}]
    /\ calls = 0
    /\ pc = "idle"
    /\ name = None
    /\ inRun = FALSE
    /\ idx = 1
    /\ tryNum = 1
    /\ failed = {}
    /\ res = NoResult
    /\ fails = [c \in CallIds |-> [s \in Stores |-> 0]]
    /\ ended = {}

(* Faults the properties below must catch: the state-call budget dropped *)
(* or one too large, the tracking-run clause of the quarantine policy dropped, the retry     *)
(* counter of try_run_handler never advanced, and the queued stores never  *)
(* removed.                                                                *)
TriesAlwaysOnce(n) == 1

TriesPlusOne(n) == IF IsStateCall(n) THEN MaxRetries + 1 ELSE 1
QueueOnlyIfConfigured(n, run) == RemoveFailedStore

\* tries = self._max_retries if is_state_call(name) else 1
Tries(n) == IF IsStateCall(n) THEN MaxRetries ELSE 1

\* The quarantine policy: the failed store is queued for removal.
QueueForRemoval(n, run) == RemoveFailedStore \/ (run /\ IsStateCall(n))

frame == <<name, inRun>>

(* _invoke(name, kwargs) is entered: res = None, failed_stores = []. *)
Invoke(n, run) ==
    /\ pc = "idle"
    /\ calls < MaxCalls
    /\ calls' = calls + 1
    /\ pc' = "loop"
    /\ name' = n
    /\ inRun' = run
    /\ idx' = 1
    /\ tryNum' = 1
    /\ failed' = {}
    /\ res' = NoResult
    /\ UNCHANGED <<active, applied, fails, ended>>

(* The for loop passes a position whose store is no longer in the list. *)
SkipRemoved ==
    /\ pc = "loop"
    /\ idx <= NStores
    /\ idx \notin active
    /\ idx' = idx + 1
    /\ UNCHANGED <<active, applied, calls, pc, frame, tryNum, failed, res,
                   fails, ended>>

(* try_run_handler calls handler(kwargs) on the store at idx. *)
CallHandler ==
    /\ pc = "loop"
    /\ idx \in active
    /\ pc' = "calling"
    /\ UNCHANGED <<active, applied, calls, frame, idx, tryNum, failed, res,
                   fails, ended>>

(* The handler returns: try_run_handler returns it and res takes it. *)
AttemptSucceeds ==
    /\ pc = "calling"
    /\ pc' = "loop"
    /\ applied' = [applied EXCEPT ![idx] = @ \cup {calls}]
    /\ res' = idx
    /\ idx' = idx + 1
    /\ tryNum' = 1
    /\ UNCHANGED <<active, calls, frame, failed, fails, ended>>

\* The effect on the backend store and the history of one failed attempt.
\* try_num never exceeds tries, so the history count stays within
\* MaxRetries; it saturates there only to keep the state space finite.
FailedAttempt(kind) ==
    /\ applied' = IF kind = "error_applied"
                  THEN [applied EXCEPT ![idx] = @ \cup {calls}]
                  ELSE applied
    /\ fails' = [fails EXCEPT ![calls][idx] = IF @ < MaxRetries THEN @ + 1
                                                                ELSE @]

AttemptFailsRetryNoIncrement(kind) ==
    /\ pc = "calling"
    /\ pc' = "loop"
    /\ tryNum # Tries(name)
    /\ FailedAttempt(kind)
    /\ UNCHANGED <<active, calls, frame, idx, tryNum, failed, res, ended>>

(* The handler raises before the last try: try_num += 1 and try again. *)
AttemptFailsRetry(kind) ==
    /\ pc = "calling"
    /\ pc' = "loop"
    /\ tryNum # Tries(name)
    /\ FailedAttempt(kind)
    /\ tryNum' = tryNum + 1
    /\ UNCHANGED <<active, calls, frame, idx, failed, res, ended>>

(* The last try raises and the error is swallowed: the store may be     *)
(* queued for removal and the loop goes on with the next store.         *)
AttemptFailsNext(kind) ==
    /\ pc = "calling"
    /\ pc' = "loop"
    /\ tryNum = Tries(name)
    /\ ~(kind = "panic" /\ RaiseOnError)
    /\ FailedAttempt(kind)
    /\ failed' = IF QueueForRemoval(name, inRun) THEN failed \cup {idx}
                                                ELSE failed
    /\ idx' = idx + 1
    /\ tryNum' = 1
    /\ UNCHANGED <<active, calls, frame, res, ended>>

(* The last try raises TrackerPanicError and raise_on_error is set: the *)
(* exception leaves _invoke before the removal block is reached.        *)
AttemptFailsRaise ==
    /\ pc = "calling"
    /\ tryNum = Tries(name)
    /\ RaiseOnError
    /\ FailedAttempt("panic")
    /\ failed' = IF QueueForRemoval(name, inRun) THEN failed \cup {idx}
                                                ELSE failed
    /\ pc' = "idle"
    /\ ended' = ended \cup {[id |-> calls, name |-> name, inRun |-> inRun,
                            outcome |-> "raised", res |-> NoResult]}
    /\ UNCHANGED <<active, calls, frame, idx, tryNum, res>>

FinishWithoutRemoval ==
    /\ pc = "loop"
    /\ idx = NStores + 1
    /\ pc' = "idle"
    /\ ended' = ended \cup {[id |-> calls, name |-> name, inRun |-> inRun,
                            outcome |-> "returned", res |-> res]}
    /\ UNCHANGED <<active, applied, calls, frame, idx, tryNum, failed, res,
                   fails>>

(* After the loop: every queued store is removed, and res is returned. *)
Finish ==
    /\ pc = "loop"
    /\ idx = NStores + 1
    /\ active' = active \ failed
    /\ pc' = "idle"
    /\ ended' = ended \cup {[id |-> calls, name |-> name, inRun |-> inRun,
                            outcome |-> "returned", res |-> res]}
    /\ UNCHANGED <<applied, calls, frame, idx, tryNum, failed, res, fails>>

(* disable_tracking_api: keep the stores that are not channel stores. *)
DisableTrackingApi ==
    /\ pc = "idle"
    /\ active' = active \ ChannelStores
    /\ UNCHANGED <<applied, calls, pc, frame, idx, tryNum, failed, res,
                   fails, ended>>

(* The bound on calls is reached: the model stops here. *)
Terminating ==
    /\ pc = "idle"
    /\ calls = MaxCalls
    /\ UNCHANGED vars

Dispatch ==
    \/ SkipRemoved
    \/ CallHandler
    \/ AttemptSucceeds
    \/ \E kind \in FailureKinds : AttemptFailsRetry(kind)
    \/ \E kind \in FailureKinds : AttemptFailsNext(kind)
    \/ AttemptFailsRaise
    \/ Finish

Next ==
    \/ \E n \in CallNames, run \in BOOLEAN : Invoke(n, run)
    \/ Dispatch
    \/ DisableTrackingApi
    \/ Terminating

Spec == Init /\ [][Next]_vars

\* The composite runs on the caller's thread and never blocks between the
\* steps of one call, so the dispatch steps are weakly fair; the outcome of
\* each attempt is left to the backend store.
FairSpec == Spec /\ WF_vars(Dispatch)

-----------------------------------------------------------------------------
(* Properties *)

(* Quarantine protects tracking runs: once a state call made inside a      *)
(* tracking run has returned, every store still in the list holds that    *)
(* state transition.  A store that missed it must have been removed.       *)
StateCallsInSync ==
    \A e \in ended :
        (e.outcome = "returned" /\ e.inRun /\ IsStateCall(e.name))
            => \A s \in active : e.id \in applied[s]

(* A store leaves the list only as a channel store dropped by             *)
(* disable_tracking_api, or after a call that returned in which it        *)
(* failed every attempt of its budget: max_retries for a state call, one  *)
(* for any other call.                                                     *)
RemovedOnlyAfterBudget ==
    \A s \in Stores \ active :
        \/ s \in ChannelStores
        \/ \E e \in ended :
               /\ e.outcome = "returned"
               /\ fails[e.id][s] = IF e.name \in StateCalls THEN MaxRetries ELSE 1

(* Every _invoke ends, returning or raising, however often the backend     *)
(* stores fail: the retry loop of try_run_handler is bounded.             *)
CallsTerminate == (pc # "idle") ~> (pc = "idle")

(* Spec 4.4: a store that exhausted its retries on a state call inside a  *)
(* tracking run is dropped from the list once that call is over.          *)
QuarantineApplied ==
    \A e \in ended :
        (e.inRun /\ IsStateCall(e.name))
            => \A s \in active : fails[e.id][s] < MaxRetries

=============================================================================
