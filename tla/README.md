# TLA+ models of the dbnd synchronisation core

This directory holds TLA+ specifications of the parts of dbnd that keep
tracking data in step with external systems, the TLC configurations that
model-check them, and TLAPS proofs of their main invariants. `spec.md` at the
repository root describes the design. The models are translated from the
code under `src/`. The one exception is the `GenericSyncer` cycle: its source
is not in the repository, so it is modelled from spec section 4.3 and from
the test doubles that exercise it.

## 1. The system

| Part | Source | What it does | State it changes |
|---|---|---|---|
| CompositeTrackingStore | `src/modules/dbnd/.../tracking_store_composite.py` | Fans every tracking call (`init_run`, `set_task_run_state`, `log_metrics`, ...) out to a list of backend stores. Each store gets a hot-retry budget: `max_retries` tries for a state call, one try for the rest. A store that exhausts its budget is queued for removal when `remove_failed_store` is set, or when the call is a state call made inside a tracking run. A `TrackerPanicError` re-raises when `raise_on_error` is set. | the store list; the backend stores |
| GenericSyncer.sync_once | spec 4.3, test `test_generic_syncer.py` | A monitor's poll cycle. It bootstraps the cursor, re-polls the active runs, fetches and saves the pages of new data, and only then writes the new cursor. | the tracking service's cursor, state and saved data |
| Adapter | spec 4.1 (the base class is not in the repository), `test_datastage_adapter.py` | Pages through the external source (`get_new_data`) and says where the next cycle starts (`get_last_cursor`). For an adapter that derives its cursor from its fetches, this is the position they reached. For the DataStage adapter it is the current time. | the adapter's position |
| TrackingService | `MockTrackingService` in `test_generic_syncer.py` | Persists the cursor and state, saves data, and lists the active runs. | cursor, state, saved data |
| IntegrationManagementService | test double | Reports metrics and errors. | none the core reads |
| Airflow export API | `src/plugins/dbnd-airflow-export/.../api_functions.py` | Serves new dag runs above a last-seen id watermark. `get_full_dag_runs` patches `DagModel.get_current` around a query. | the monitor's watermark |
| Operator wrappers | `src/modules/dbnd-airflow/.../wrap_operators.py` | Inject the tracking configuration into Spark, Databricks, EMR, Dataproc and ECS operators. After a Databricks run, they report its state through the tracking store. | operator configuration; task run state |
| Plugin registry | `src/modules/dbnd/.../dbnd_plugins.py` | Registers the pluggy plugins once, and checks whether a plugin is enabled. | the registered flag |
| CLI | `src/modules/dbnd/.../cli/main.py` | Entry point: parses the command line and saves and restores `sys.argv`. | none the core reads |
| AirflowAdapter | `airflow_adapter.py` | Stubs. | none |

How the parts interact: a monitor calls `sync_once` on a timer. The cycle reads from an Adapter and writes through a TrackingService. Tracking calls made by runs and by the operator wrappers go through a CompositeTrackingStore to every configured backend.

The behaviours that are hard to test are these:
- the retry and removal decisions across many calls and many stores;
- a `TrackerPanicError` that leaves `_invoke` half way;
- a save failure or a restart in the middle of a pagination chain;
- a cursor taken from a clock rather than from the data fetched;
- watermarks read while other transactions commit.

## 2. Modules

### CompositeStore.tla: `CompositeTrackingStore`

Constants:
- `NStores` backend stores, of which `ChannelStores` are `TrackingStoreThroughChannel` instances;
- `MaxRetries` (`max_retires`), `RaiseOnError` and `RemoveFailedStore` (the constructor's arguments);
- `CallNames`, the handler names the callers use;
- `MaxCalls`, the bound on the number of calls.

State:
- `active`: positions of `self._stores` still in the list;
- `applied[s]`: the calls backend `s` holds;
- `pc`, `idx`, `tryNum`, `failed`, `res`: the loop of `_invoke` and `try_run_handler`;
- `name`, `inRun`: the call's name and `in_tracking_run()`;
- `fails`, `ended`: history, that is, failed attempts per call and store, and the ended calls with their outcome.

Actions, one per step of the code:
- `Invoke(n, run)`: a handler method enters `_invoke`.
- `SkipRemoved`: the loop passes a store no longer in the list.
- `CallHandler`: `handler(**kwargs)` is called.
- `AttemptSucceeds`: the handler returns.
- `AttemptFailsRetry(kind)`: a failed try below the budget; `try_num += 1`.
- `AttemptFailsNext(kind)`: the last try failed and the error is swallowed; the store is queued if `QueueForRemoval`.
- `AttemptFailsRaise`: the last try raised `TrackerPanicError` with `raise_on_error`; the exception leaves `_invoke` before the removal block.
- `Finish`: the queued stores are removed and `res` is returned.
- `DisableTrackingApi`: the channel stores are dropped.

A failed attempt is `error` (nothing applied), `error_applied` (the backend applied the write, then the call raised: a timeout after commit) or `panic`.

### GenericSyncer.tla: the sync cycle with an Adapter and a TrackingService

`generic_syncer.py` and the `Adapter` base class are not in the repository. The cycle is modelled from spec 4.3 and the adapter from the contract of spec 4.1: `get_new_data(cursor, batch_size, next_page)` returns at most `batch_size` items after the cursor or the page token, and a token until the chain ends. The test's `MockAdapter` is not such an adapter, and is not what the model describes. It ignores the cursor and returns a two-page chain on every call, and it advances its counter on every first-page fetch (so the replay of `test_generic_syncer.py` lines 158-176 gets data 2, not data 1). The tracking service is translated from `MockTrackingService`.

Constants:
- the source produces `MaxItems` items;
- `BatchSize` is the page size;
- `CursorIsClock` chooses the DataStage-style `get_last_cursor` (the present, `ClockCursor`) over a cursor derived from the fetches (the position reached, `FetchCursor`);
- `MaxFaults` bounds the cycles that end by an exception or a restart.

State:
- the source: `produced` and `finished`;
- the service: `cursor`, `state`, `saved` and `savedDone`;
- the syncer: `pc`, `cur`, `page`, `reached`, `batch` and `batchDone`.

Actions:
- `InitCursor`: the bootstrap cycle, which writes `get_last_cursor()` with state "init" and returns.
- `Start`: the cycle reads `(cursor, state)`.
- `UpdateRuns`: `get_active_runs` and `get_update_data`, then save.
- `Fetch`: one `get_new_data` call.
- `Save`: `save_tracking_data`; a next_page loops back to `Fetch`.
- `Advance`: `update_last_cursor(get_last_cursor(), "update")`.
- `Abort`: any exception, or a restart, ends the cycle with nothing more persisted.
- `Produce` and `Complete(i)` are the external source.

### CursorSync.tla: what the sync promises

`CursorSync` is the abstract specification of spec section 3, with no pages, phases or adapter. It has the source (`produced`, `finished`) and the service (`cursor`, `saved`, `savedDone`). Its actions:
- `Bootstrap` sets the first cursor to any position the source has reached.
- `Record` saves data of produced items. It marks an item as finished only once the item has finished.
- `MoveCursor` moves the cursor forward, and only over saved items.

`GenericSyncer` instantiates it as `CS` on its own variables, which is the identity refinement mapping. `RefinesCursorSync == CS!Spec` is a property of the `syncer` run. Each save of a page, or of the update phase, is a `Record`. `Advance` is a `MoveCursor`. Every other step of the cycle is a stutter. With the clock-valued cursor the refinement fails at `Advance`, the same finding as `syncer_clock_cursor`.

The MC modules (`MCCompositeStore`, `MCGenericSyncer`, `MCExportWatermark`, `MCDatabricksTracking`, `MCOperatorWrappers`, `MCPluginRegistry`) give the model values.

### ExportWatermark.tla: `get_last_seen_values` and `get_new_dag_runs`

The Airflow export plugin serves a monitor the dag runs above two
watermarks, the last seen dag run id and the last seen log id. The module
puts the request against a database whose rows get their ids when they are
inserted and become visible when their transaction commits.

Constants: `MaxRuns` and `MaxLogs` bound the ids; `InitRuns` and `InitLogs`
rows are committed before the monitor starts; `SingleWriter` says whether
one session does all the writing, committing each row before the next.

State:
- the database: `runs` and `logs` (ids handed out), `runsDone` and `logsDone` (committed rows), `logRun` (the dag run of a log row);
- the request: `rpc`, the maxima it read (`maxRun`, `maxLog`), the watermarks after the None defaults (`lsRun`, `lsLog`), the log rows it read and the dag runs it found;
- the monitor: its watermarks `seenRun` and `seenLog`, and what came back in responses;
- history: which rows were already committed when the monitor started.

Actions:
- `InsertRun`, `CommitRun(r)`, `InsertLog(r)` and `CommitLog(l)` are the Airflow database;
- `GetLastSeenValues` is the monitor's bootstrap;
- `ReadMax` covers lines 39-46: both maxima, and a None watermark replaced by the maximum;
- `QueryLogs` is `find_all_logs_grouped_by_runs`;
- `QueryRuns` is `find_new_dag_runs`: the runs above the watermark, plus the runs of the log rows read;
- `Respond` is the response, whose maxima become the monitor's watermarks.

The queries live in `queries.py`, which is not in the repository. They are
modelled by their SQL meaning over the committed rows.

The export is a cursor sync too, with the dag run table as its source and the
monitor as its service. `ExportWatermark` instantiates `CursorSync` as `CS`
with a mapping that is not the identity:
- `produced <- CommittedPrefix`, the largest `k` with runs `1..k` all committed. A committed run above a gap is not yet produced, because no watermark can pass the gap safely;
- `cursor <- seenRun`, the monitor's dag run watermark;
- `saved <- Delivered`, the runs reported to the monitor plus, while a response is on its way, the runs in it;
- `finished` and `savedDone` map to `{}`, because the export has no run state.

`ExportRefinesCursorSync == CS!Spec` is a property of the `export_watermark` run. `CommitRun` of the next id is `Produce`. `QueryRuns` is a `Record` of the runs it found. `Respond` is `MoveCursor`, or the bootstrap on the first request. Every other step is a stutter. The mutant `FindNewDagRunsUncommitted`, whose dag run query reads rows other sessions inserted and have not committed, breaks it: a response then delivers a run that is not yet produced, which no `Record` allows. `NoRunSkipped` and `NoLogSkipped` do not catch that mutant, since they forbid missing rows, not extra ones.

### DatabricksTracking.tla: `track_databricks_submit_run_operator` with CompositeStore

The module instantiates `CompositeStore` on the same variables
(`Store == INSTANCE CompositeStore`). It adds the operator json (`config`),
what the wrapper wrote into the new cluster, whether a script name was set,
the wrapper's position `wpc`, the outcome of the Databricks run, and
`sent[c]`, what report `c` carried.

Actions:
- `PrepareCluster`: lines 107-127;
- `PrepareJar`: lines 128-132, reaching the unbound `cluster` when there is no `new_cluster`;
- `NoJar`;
- `Execute`: the yield, where execute returns or raises;
- `NoScript`;
- `HookFails` and `HookAnswers`: lines 146-158;
- `LinksSaved`, `SetState` and `StateSet`: the `_safe` helpers, which wait for the composite's `_invoke` to end;
- `StoreStep`: a step of the composite.

### OperatorWrappers.tla: `wrap_operator_with_tracking_info` and the argument wrappers

An operator is a record: the class names of its MRO, and the arguments the
wrappers read and write (EMR steps, Dataproc properties and job,
spark-submit conf, env vars, application and jars, ECS container overrides).
A dict is its set of keys, and None is a model value.

`WrapperOf` takes the first entry of `_EXECUTE_TRACKING` found in the MRO.
Each wrapper's entry into its context manager is one action:
- `Enter(w, Track)` for the EMR, Dataproc and ECS wrappers;
- `EnterSparkSubmit`, with `_has_java_application` and its `AttributeError`;
- `Unwrapped` for an operator no entry matches.

### PluginRegistry.tla: `dbnd_plugins.py`

A plugin is a model value, and a name is the pair of a plugin and its form
("dash", the distribution name, or "under", the module name). The
`PluginManager` is the set of names registered.

The configuration is chosen in `Init`: `is_no_plugins`,
`disable_pluggy_entrypoint_loading`, the user plugin list, and which entry
points fail to import.

Actions:
- `RegisterDbndPlugins`: the early returns, the flag, and the start of `load_setuptools_entrypoints`;
- `LoadEntryPoint(e)`: one turn of pluggy's loop. It skips a name already held. It raises ImportError from `ep.load()`. It raises ValueError from `pm.register(plugin, name=ep.name)` when the plugin object is held already under another name (`Held`), which happens when the user registered it by hand under its module name and its entry point name has a dash. Otherwise it registers. An exception leaves the loop, with the flag already set (`RaiseFromLoop`);
- `CheckPending`;
- `RegisterDbndUserPlugins`: the loop of `pm.register`, cut by pluggy's ValueError at the first plugin already held.

`is_plugin_enabled` calls itself once at most, with the dashes replaced by underscores, and the name it passes has no dash left. The model unfolds that recursion: `IsPluginEnabled` calls `IsPluginEnabledNoDash`, which is the same body without the retry branch. The module then declares no RECURSIVE operator, and the prover can reason about it.



## 3. Runs

| Run | Config | Properties | What it shows |
|---|---|---|---|
| composite_default | `CompositeStore.cfg` (3 stores, store 3 a channel store, `MaxRetries`=2, raise_on_error, 2 calls of `set_task_run_state`/`log_metrics`, in or out of a run) | TypeOK, StateCallsInSync, RemovedOnlyAfterBudget, CallsTerminate | The quarantine policy keeps tracking-run state calls in sync on every remaining store. A store leaves only after a full budget of failures, or as a channel store. Every call ends. |
| composite_remove_failed | `CompositeRemoveFailed.cfg` (2 stores, `MaxRetries`=3, remove_failed_store, panics swallowed, 3 calls) | same | The same under the other policy, with longer retry chains and three calls, so a store can fail one call and be removed by a later one. |
| composite_quarantine_panic | `CompositeQuarantinePanic.cfg` | QuarantineApplied (violated) | A `TrackerPanicError` on the last try skips the removal block: a store that failed every try of a tracking-run state call stays in the list. |
| syncer | `GenericSyncer.cfg` (3 items, pages of 2, a spec 4.1 adapter with a fetch-derived cursor, up to 2 aborted cycles) | TypeOK, NoSkippedItems, CursorCatchesUp, RefinesCursorSync | The cursor never passes an unsaved item, even across aborted cycles. Each pagination chain ends and the cursor keeps up with the source. The cycle implements `CursorSync`. |
| export_watermark | `ExportWatermark.cfg` (single writer, 3 dag runs, 3 log rows, one of each committed at the start) | TypeOK, NoRunSkipped, NoLogSkipped, ExportRefinesCursorSync | Neither watermark passes a row committed after the start that was not returned. The export implements `CursorSync` under the committed-prefix mapping. |
| export_concurrent_writers | `ExportConcurrentWriters.cfg` (two sessions insert) | NoRunSkipped (violated) | Run 3 commits before run 2. A request reads 3 as the maximum, and run 2, committed later, is below every later watermark. |
| export_empty_table | `ExportEmptyTable.cfg` (empty tables at the start) | NoRunSkipped (violated) | `get_last_seen_values` returns None. Run 1 commits, and the next request defaults the watermark to the maximum, which is 1, without returning run 1. |
| databricks_tracking | `DatabricksTracking.cfg` (2 stores, `MaxRetries`=2, inside a tracking run, `raise_on_error` False, every operator json and run outcome) | WrapperTypeOK, TerminalStateReported | Once the operator returns from an inline script, every store in the list ends up holding a terminal state. The run sets `raise_on_error` False, against the constructor's default True: under True, a `TrackerPanicError` of the state report leaves `_invoke` before the later stores and before the removal (the composite_quarantine_panic finding), and the property then fails for those stores. |
| databricks_execute_raises | `DatabricksExecuteRaises.cfg` | ScriptRunAlwaysReported (violated) | When execute raises, the exception leaves the generator at the bare `yield`. The manual report that the comment at lines 135-136 promises is never sent. |
| operator_wrappers | `OperatorWrappers.cfg` (two steps or containers, every class and argument shape) | TypeOK, ProviderJobTracked | Each provider operator runs with the dbnd variables where its job reads them. |
| plugin_registry | `PluginRegistry.cfg` (3 plugins, 2 entry points, every configuration and set of failing entry points, 5 user lists, among them the dashed entry point `a` registered by hand) | TypeOK, AllEntryPointsLoaded | A `register_dbnd_plugins` call that returned normally leaves every entry point registered, including one skipped because the user registered its name first. A user plugin held under its module name makes the call raise ValueError, and the run reaches that state. |
| syncer_clock_cursor | `SyncerClockCursor.cfg` (clock-valued cursor, no faults) | NoSkippedItems (violated) | An item produced between the last fetch and the `get_last_cursor()` call ends up behind the cursor unsaved. |

The properties:
- **StateCallsInSync**: after a tracking-run state call returns, every store in the list holds it.
- **RemovedOnlyAfterBudget**: a store is missing from the list only as a channel store, or after a returned call in which it failed `Tries(name)` attempts.
- **CallsTerminate**: a started `_invoke` returns or raises.
- **QuarantineApplied**: every store still in the list failed fewer than `max_retries` tries of every ended tracking-run state call.
- **NoSkippedItems**: every item between the bootstrap cursor and the persisted cursor is saved (spec section 3).
- **CursorCatchesUp**: every produced item is eventually behind the cursor.
- **RefinesCursorSync**: every behaviour of the cycle is, on the service's state, a behaviour of `CursorSync`.
- **ExportRefinesCursorSync**: every behaviour of the export, seen through the committed prefix, the watermark and the delivered runs, is a behaviour of `CursorSync`.
- **NoRunSkipped**, **NoLogSkipped**: every row committed after the monitor started and at or below its watermark was returned (spec section 3: a cursor advances only over delivered data).
- **TerminalStateReported**: once the operator returned from an inline script, every store still in the list eventually holds a terminal state.
- **ScriptRunAlwaysReported**: the same from the moment the script runs, whatever execute does. This is the comment at lines 135-136.
- **ProviderJobTracked**: for each provider class, the tracking keys are where that operator's job reads them.
- **AllEntryPointsLoaded**: after a `register_dbnd_plugins` call that returned normally (no ImportError, no ValueError), every entry point that imports is registered, and later calls return at the flag.

Every property of a passing run is broken by a mutant of the code it is about (`PROJECT.json`, "mutants"):
- the state-call budget made 1, or made `MaxRetries+1`;
- the tracking-run clause of the quarantine policy dropped;
- `try_num` never incremented;
- the queued stores never removed;
- a page starting one item late, or not clamped to the source;
- a `next_page` returned after the last page;
- a None watermark read as 0;
- the maximum taken over allocated rather than committed ids;
- the runs of the updated log rows not asked for;
- the except branch of the Databricks wrapper only logging;
- the spark envs and env vars swapped;
- the Airflow 2 pyspark operator mapped to the submit-job wrapper;
- every distribution name taken as dashed;
- the entry point loop ending after one entry;
- the dag run query reading uncommitted rows.

## Findings

- **Export, empty table** (`api_functions.py:42`): a monitor that bootstraps on an empty dag_run table keeps a None watermark. Its next request replaces it by the maximum at that time, so every run created in between is never returned.
- **Export, concurrent commits** (`api_functions.py:39`): the watermark is `max(id)` over committed rows. A run whose id was handed out earlier, but whose transaction commits later, is below it forever. With a single writer this cannot happen, and `export_watermark` shows that both watermarks are then sound.
- **Databricks, jar task without a new cluster** (`wrap_operators.py:129`): `cluster` is assigned only in the `new_cluster` branch, so the wrapper raises NameError. The databricks_tracking run reaches this state (`wpc = "name_error"`). No run asserts it away, because the property would only restate the missing assignment.
- **Databricks, execute raises** (`wrap_operators.py:133`): the post-run report is skipped exactly when the run failed, against the comment at lines 135-136.
- **spark-submit, `ends_with`** (`wrap_operators.py:237`): AttributeError for a non-jar application with jars. The operator_wrappers run reaches this state (`wpc = "raised"`).
- **Composite, panic before removal** (`tracking_store_composite.py:87`) and **DataStage clock cursor** (`test_datastage_adapter.py:46`): see the runs above.

### Bounds

Two calls over three stores are enough for every interleaving of the quarantine decisions:
- a store can fail the first call outside a run and stay, then fail the second inside a run and go;
- the channel store can be dropped between the calls.

Three calls over two stores with `MaxRetries`=3 cover retry chains longer than the default.

For the syncer, three items with pages of two give chains of one and two pages. Up to two faults let a chain be aborted at each of its steps and replayed.

For the export API, three dag runs and three log rows allow a row to be inserted, and to commit, before, between and after the statements of a request, across two requests. A single pending row at a time (`SingleWriter`) is what one scheduler session produces. Two sessions need only two pending runs to reorder commits.

For the Databricks wrapper, two stores with two tries each cover a failed report, a retried one and a quarantined one. The two report calls (`MaxCalls`=2) are all the wrapper makes.

For the operator wrappers, two steps or containers give a rewritten step next to one left alone. Every class of the table and every argument shape the code distinguishes is an initial state.

For the plugin registry, three plugins cover a dashed entry point, an undashed entry point that the user may register too, and a dashed plugin loaded only by hand. The five user lists are empty, c, c then b, c twice, and a. With a, the user holds the dashed entry point `a` under its module name, so a later `register_dbnd_plugins` raises ValueError. Three calls show the flag's early return.

All runs finish in well under a minute. The passing runs reach between 184 and 320 thousand distinct states.

### Fairness

- **Composite**: `_invoke` runs on the caller's thread without blocking between its steps, so the dispatch steps (`Dispatch`) are weakly fair. Whether an attempt succeeds is left unconstrained. `CallsTerminate` therefore holds even if every attempt fails, because the retry counter bounds each store.
- **Databricks wrapper**: the wrapper and the composite run on the Airflow worker's thread without blocking between their steps, so `WrapperStep` and `StoreStep` are weakly fair. The run outcome and whether execute raises are not constrained.
- **Export, operator wrappers, plugin registry**: only safety is checked, so there is no fairness.
- **Syncer**: the monitor's loop calls `sync_once` again and again (spec section 2), so `SyncerStep` is weakly fair. The source (`Produce`, `Complete`) and the faults (`Abort`, at most `MaxFaults`) are not fair.

## 4. Proofs

`CompositeStoreProofs.tla` proves, for every value of the constants allowed by the `ASSUME`s of `CompositeStore`, the following four theorems. The assumptions are: `MaxRetries` a positive natural, `NStores` and `MaxCalls` naturals, Boolean flags, `ChannelStores` a set of stores, and `CallNames` a set of handler names.

- **TypeCorrect**: `Spec => []TypeOK`. TypeOK alone is not inductive, because the record an ended call adds to `ended` needs the call's name to be a handler name. The proof strengthens it with `LoopInv`: while a call is under way, `calls` is its id, `name` is in `CallNames` and `tryNum` stays within `Tries(name)`; while a handler runs, its store is in the list.
- **StateCallsInSyncHolds**: `Spec => []StateCallsInSync`. The inductive invariant is `IInv == TypeInv /\ StateCallsInSync /\ SyncSoFar`. `SyncSoFar` says that, during a tracking-run state call, every store in the list that the loop has passed either holds the call or is queued in `failed_stores`. With it, `Finish` (which removes exactly the queued stores) re-establishes `StateCallsInSync` for the new call. Every other step only shrinks the list or adds calls to the stores. TLC checked `IInv` as an invariant of both passing composite runs before it was proved.
- **RemovedOnlyAfterBudgetHolds**: `Spec => []RemovedOnlyAfterBudget`. The inductive invariant `BInv == TypeInv /\ BudgetSoFar /\ RemovedOnlyAfterBudget` has three parts:
  - `EndedBefore`: every ended call is an earlier one while a call is under way, so the current call's failures never touch the witness of an earlier removal.
  - `NoFutureFails`: calls not started yet have no failures.
  - `CallFails`: during a call, the count of the store at `idx` is its failed tries so far (`tryNum - 1`) and the stores after it have none. So each store queued in `failed_stores` failed exactly `Tries(name)` tries, and `Finish` can produce the witness for every store it removes. Lemma `FailedAttemptCount` says a failed attempt adds one to exactly one count, which holds because `tryNum <= Tries(name) <= MaxRetries` keeps the count below the saturation of the history.

  TLC checked `BInv` on both passing composite configurations (319,614 and 264,814 states) before it was proved.

`ExportWatermarkProofs.tla` proves **NoRunSkippedHolds**: `Spec => []NoRunSkipped`, for every `MaxRuns`, `MaxLogs`, `InitLogs`, under two hypotheses. `SingleWriter` holds, and `InitRuns > 0`. These are exactly the conditions that the two export violation runs remove. The inductive invariant `RunInv` has four parts:
- `RunsPrefix`: with one writer, the committed runs are `1..runs` or `1..runs-1`. So `find_max_dag_run_id` returns the top of a prefix (lemmas `MaxOfPrefix`, `FindMaxOnPrefix`, `FindMaxCommitted`), and every run at or below the maximum is committed.
- The request's own state. While a request is under way, `maxRun` is committed and `lsRun` lies in `1..maxRun`. `lsRun` is the monitor's watermark, or the maximum itself on the first request, whose `oldRuns` is then `1..maxRun`. Every new run at or below `lsRun` was already reported.
- Once `find_new_dag_runs` has answered, every run in `(lsRun, maxRun]` is in its result. So `Respond`, which moves the watermark to `maxRun`, passes only reported runs.
- A committed run that appears later gets the next id, which is above every watermark (`CommitRun`).
TLC checked `RunInv` as an invariant under the constants of `ExportWatermark.cfg`, and with `MaxRuns = 4, InitRuns = 2`, before it was proved. 
It also proves **NoLogSkippedHolds**: `Spec => []NoLogSkipped`, under `SingleWriter` and `InitLogs > 0`. The invariant `LogInv` repeats the argument of `RunInv` for the log ids. It adds two facts:
- the rows a request read (`logsSeen`) are committed ones;
- once `find_new_dag_runs` has answered, the dag run of each row read is in the result. So `Respond` marks every row read as reported.

It proves **ExportRefinesCursorSyncHolds**: `Spec => ExportRefinesCursorSync`, under `SingleWriter` and `InitRuns > 0`. The invariant is `RefInv == RunInv /\ CarriedCommitted`. `CarriedCommitted` adds that the runs reported, and the runs in a request's result, are committed, and that every log row's dag run is committed. Lemma `CommittedPrefixOf` says that the committed prefix of `1..k` is `k`; with `RunsPrefix` it makes `CommittedPrefix` equal to `runs` or `runs - 1`. Lemma `StepRefines` then maps each step as in section 2. `Delivered` only grows, and `Respond` moves `seenRun` to a maximum whose runs are all in the result. So `MoveCursor`'s guard, that the runs passed are saved, is `RunInv`'s third part.

It proves **TypeCorrect**: `Spec => []TypeOK`, with no hypothesis on the writers, so any number of sessions may insert concurrently. `TypeOK` is not inductive alone. A request's result holds the dag runs of the log rows it read, and the table maps unwritten rows to None. The invariant `TInv` adds that every written log row points at a dag run id, that the rows a request read are written ones, and that `started` is Boolean. Lemma `MaxOfIds` says the maximum of a non-empty set of ids is one of them; it is proved by well-founded induction (`WFMin`) on the distance to the bound. Lemma `FindMaxType` applies it to `find_max_dag_run_id`.

The hypothesis `InitLogs > 0` is needed. With an empty log table at the start, TLC finds NoLogSkipped violated, as for dag runs in `export_empty_table`. `get_last_seen_values` returns None for the log id, and the first request defaults the watermark to the maximum it reads.

`GenericSyncerProofs.tla` proves the following for every `MaxItems`, `BatchSize` and `MaxFaults`, under the hypothesis `~CursorIsClock`. This is an adapter that meets the contract of spec 4.1 and whose `get_last_cursor` is the position its fetches reached. It is not the test's `MockAdapter` (section 2).
- **NoSkippedItemsHolds**: `Spec => []NoSkippedItems`.
- **RefinesCursorSyncHolds**: `Spec => RefinesCursorSync`. The initial state maps to `CS!Init`. Lemma `StepRefines` maps every step to a `CursorSync` step or a stutter, as listed in section 2.

It also proves **TypeCorrect**: `Spec => []TypeOK` for both kinds of cursor, the clock-valued one included. Here `TypeOK` is inductive alone. Lemma `PageTypes` bounds the page: start, end and next token are positions, and the items of a page are items.

`NoSkippedItemsHolds` and `RefinesCursorSyncHolds` rest on the inductive invariant `SInv`. It has three parts:
- `SyncTypes`: saved, finished and batch items are produced ones, `savedDone` lies within saved and finished items, and `reached <= produced`.
- `CycleInv`: a cycle under way started from the persisted cursor. The items from there up to `reached` are saved, or in the page being saved. `page`, when set, equals `reached`, so the next fetch starts where the last one ended (lemma `FetchPage`).
- Items between the bootstrap cursor and the persisted cursor are saved.

`Advance` then chains the two covered intervals. `NoSkippedItems` alone is not inductive, because it says nothing about the cycle in flight. TLC checked `SInv` as an invariant on three instances before it was proved: 3 items with pages of 2, 4 with pages of 3, and 4 with pages of 1, with up to 2 faults.

`DatabricksTrackingProofs.tla` proves, for every number of stores, retries and calls, the composite's flags and either answer of `in_tracking_run`, **WrapperTypeCorrect**: `Spec => []WrapperTypeOK`. The composite's own type proof is reused rather than repeated. `SP == INSTANCE CompositeStoreProofs` brings in `SP!TypeInvStep`. The prover does not identify `SP!Next` with `Store!Next` (two instances of one module), so lemma `SameComposite` shows they are equal by their definitions. An instanced theorem carries the instanced module's assumptions as hypotheses, so `DatabricksTracking` states them as `StoreAssumption`, which TLC evaluates on both Databricks runs. The inductive invariant is `TInv == SP!TypeInv /\ WrapperTypeOK`.

`OperatorWrappersProofs.tla` proves **ProviderJobTrackedHolds**: `Spec => []ProviderJobTracked`, for every `MaxSteps`. It takes one hypothesis, `NoneIsDistinct`: Python's None is no wrapper name, no dict of keys, no job record and no list of overrides. TLC's model value `None` satisfies it, but TLC cannot evaluate it, because it compares a model value with sets of sets. So it is a hypothesis of the theorem, not an `ASSUME`. The invariant `WInv` adds to the property that an operator before its wrapper is one of `Operators`. The step proof takes one lemma per provider family (`EmrStep`, `PySparkStep`, `SubmitJobStep`, `SparkSubmitStep`, `EcsStep`, `OtherStep`). Each one:
- picks the class and arguments (lemmas `EmrFamily` ... `OtherFamily` write each family as the image of a constructor);
- computes the wrapper from the class table (lemma `WrapperOfClass`: an operator whose only provider class is the k-th entry gets the k-th wrapper);
- shows that only that wrapper can be entered (`EnterPicked`);
- checks each conjunct after the rewrite.

It also proves **TypeCorrect**: `Spec => []TypeOK`. `TypeOK` says the operator is one of `Operators`, and that set holds only the operators before their wrapper. The inductive invariant `RInv` therefore uses a wider set, `OpRecords`. It is the record set of the ten fields (`mro`, `steps`, `tracked`, `props`, `job`, `conf`, `envVars`, `application`, `jars`, `overrides`), each field taken in the set of the values a wrapper can write. Lemma `OperatorsTyped` says `Operators \subseteq OpRecords`. Lemma `ExceptTyped` says that a rewrite leaving each field as it was or in its set stays in `OpRecords`. It is stated field by field with `FieldShape`, because SMT cannot encode a double EXCEPT on a record. One lemma per wrapper (`TrackEmrTyped` ... `TrackSparkSubmitTyped`) applies it. TLC checked `RInv` on `OperatorWrappers.cfg` before it was proved.

`PluginRegistryProofs.tla` proves two theorems for every set of plugins, entry points and user lists, and every bound on the calls:
- **TypeCorrect**: `Spec => []TypeOK`. Lemma `FirstClashBound` places the first clashing position of a user list in `1..Len + 1`, proved with `WFMin`. So the loop of `register_dbnd_user_plugins` registers module names of plugins only.
- **AllEntryPointsLoadedHolds**: `Spec => []AllEntryPointsLoaded`. The invariant `AInv == TypeOK /\ LoadingInv /\ AllEntryPointsLoaded` is needed, because the property says nothing about a registration in progress. `LoadingInv` adds that, while `load_setuptools_entrypoints` runs, the flag is set, loading is enabled, and every entry point the loop has passed is registered unless it raised. `CheckPending` then closes the loop with `toLoad = {}`. A turn that raises, ImportError or ValueError, records the exception against `register_dbnd_plugins` (`PluginsRaised`), which discharges the property for the rest of the process.

The proofs are hierarchical: one step per action and, under it, one per conjunct the action changes. SMT does the arithmetic and Zenon extracts the facts of `Init`.

Only TLC checks the following:
- the liveness properties (`CallsTerminate`, `CursorCatchesUp`, `TerminalStateReported`), because TLAPS does not reason about fairness and ENABLED;
- the syncer with the clock-valued cursor, where `NoSkippedItems` and the refinement fail, so only its type correctness is proved;
- the export watermarks with concurrent writers or empty tables, where they fail. The theorems about them carry `SingleWriter` and `InitRuns > 0` (or `InitLogs > 0`) as hypotheses.

Every invariant of a passing run has a theorem.

## 5. Not modelled, and why

- **IntegrationManagementService, metric reporting, `refresh_config`**: they report, and no property reads their effect.
- **`is_ready` and `close` of the composite**: they change no state.
- **Concurrent use of one composite** (`self._stores.remove` from two threads): spec section 5 restricts the composite to its owning thread.
- **CLI (`main.py`) and `AirflowAdapter`**: glue and stubs with no state machine. `main.py` builds click commands from `dbnd_bootstrap` and a command table that are not in the repository. Its hazard is listed in `PROJECT.json`: the error message of `dbnd_run_cmd_main` built from the restored argv.
- **`get_full_dag_runs`** and its patch of `DagModel.get_current`: the function only reads. The patch race needs the webserver's threads, and is listed as a hazard.
- **`register_dbnd_cli_commands`, `assert_plugin_enabled`**: they read the registry and change nothing.
- **`extra_dag_runs_ids`**: they only add runs to a response and are passed empty.
- **The values written by the wrappers** (tracking info, URLs, java options): they are abstracted to their keys.

## 6. Plan

1. **Done**: CompositeStore with its runs and mutants. The type invariant and StateCallsInSync are proved.
2. **Done**: GenericSyncer with a spec 4.1 adapter and the clock cursor.
3. **Done**: the export API watermark against committing transactions, with two findings.
4. **Done**: the Databricks wrapper composed with CompositeStore, and the other operator wrappers.
5. **Done**: the plugin registry.
6. **Done**: the abstract `CursorSync`, with GenericSyncer refining it for a fetch-derived cursor, model-checked and proved.
7. **Done**: the proofs of `NoRunSkipped` under a single writer and of `NoSkippedItems` for position-valued cursors. `NoLogSkipped` under a single writer is proved too. `RemovedOnlyAfterBudget` is proved as well.
8. **Done**: the export watermark shown to implement `CursorSync` under the committed-prefix mapping, model-checked and proved.
9. **Done**: every type invariant proved (export for any number of writers, the syncer for both cursors, the Databricks wrapper through the composite's lemmas, the operator wrappers). `AllEntryPointsLoaded` is proved too, with pluggy's ValueError on a plugin held under another name.
10. **Done**: the proof of `ProviderJobTracked` for every number of EMR steps and ECS containers.
