---------------------------- MODULE GenericSyncer ----------------------------
(***************************************************************************)
(* The incremental sync cycle of the monitors (GenericSyncer.sync_once)   *)
(* against an Adapter that reads an external source and a TrackingService *)
(* that keeps the cursor, the cursor state and the saved data.  Neither   *)
(* generic_syncer.py nor the Adapter base class is in this repository:    *)
(* the cycle is modelled from spec 4.3 and the adapter from the contract  *)
(* of spec 4.1, which every adapter must meet.                            *)
(*                                                                         *)
(* The external source is a change stream of items 1..MaxItems, produced  *)
(* one after the other; a produced item is a run that may later finish.  *)
(* A cursor is a position in that stream.  The adapter returns the items  *)
(* after the cursor it is given, page by page (at most BatchSize per      *)
(* page), the same pages whenever it is asked again (spec 4.1: replay     *)
(* must be safe), and tells through get_last_cursor where the next cycle  *)
(* must start: either the position its fetches reached (spec 4.3 d,       *)
(* "derived from the last fetch") or the present of the source (the       *)
(* DataStage adapter, whose get_last_cursor is the current time).         *)
(* The MockAdapter of test_generic_syncer.py is not such an adapter: it   *)
(* ignores the cursor and advances on every first-page fetch.             *)
(*                                                                         *)
(* One cycle: read (cursor, state); without a cursor, bootstrap it from   *)
(* get_last_cursor with state "init" and stop.  Otherwise refresh the     *)
(* active runs through get_update_data, then fetch and save the pages of  *)
(* new data, and only after the last page persist the new cursor with     *)
(* state "update".  Any exception (a save, a fetch) or a restart of the   *)
(* monitor ends the cycle with nothing more persisted.                     *)
(***************************************************************************)
EXTENDS Naturals, FiniteSets

CONSTANTS
    MaxItems,       \* number of items the source produces in a run
    BatchSize,      \* batch_size handed to get_new_data
    CursorIsClock,  \* get_last_cursor returns the source's present
    MaxFaults,      \* bound on the cycles ended by an exception or restart
    None            \* Python None

ASSUME MaxItemsAssumption == MaxItems \in Nat
ASSUME BatchSizeAssumption == BatchSize \in Nat \ {0}
ASSUME CursorKindAssumption == CursorIsClock \in BOOLEAN
ASSUME MaxFaultsAssumption == MaxFaults \in Nat
ASSUME NoneAssumption == None \notin Nat

Items == 1 .. MaxItems
Positions == 0 .. MaxItems

VARIABLES
    produced,    \* source: items 1..produced exist
    finished,    \* source: the runs that reached a terminal state
    cursor,      \* tracking service: last cursor (None before the first)
    state,       \* tracking service: cursor state, None, "init" or "update"
    saved,       \* tracking service: items whose data was saved
    savedDone,   \* tracking service: items saved with their terminal state
    pc,          \* syncer: "idle", "update", "fetch", "save", "advance"
    cur,         \* syncer: the cursor this cycle started from
    page,        \* syncer: next_page of the last fetch (None: no more)
    reached,     \* adapter: the last position its fetches returned
    batch,       \* syncer: the items of the page being saved
    batchDone,   \* syncer: those of them terminal when fetched
    faults,      \* cycles ended by an exception or a restart so far
    initCursor   \* history: the cursor written at bootstrap

source == <<produced, finished>>
service == <<cursor, state, saved, savedDone>>
syncer == <<pc, cur, page, reached, batch, batchDone>>
vars == <<source, service, syncer, faults, initCursor>>

TypeOK ==
    /\ produced \in Positions
    /\ finished \subseteq Items
    /\ cursor \in Positions \cup {None}
    /\ state \in {None, "init", "update"}
    /\ saved \subseteq Items
    /\ savedDone \subseteq saved
    /\ pc \in {"idle", "update", "fetch", "save", "advance"}
    /\ cur \in Positions
    /\ page \in Positions \cup {None}
    /\ reached \in Positions
    /\ batch \subseteq Items
    /\ batchDone \subseteq batch
    /\ faults \in 0 .. MaxFaults
    /\ initCursor \in Positions \cup {None}

-----------------------------------------------------------------------------
(* A fresh integration: nothing produced, no cursor persisted. *)
Init ==
    /\ produced = 0
    /\ finished = {}
    /\ cursor = None
    /\ state = None
    /\ saved = {}
    /\ savedDone = {}
    /\ pc = "idle"
    /\ cur = 0
    /\ page = None
    /\ reached = 0
    /\ batch = {}
    /\ batchDone = {}
    /\ faults = 0
    /\ initCursor = None

(* The source: a new run appears, or a produced run finishes. *)
Produce ==
    /\ produced < MaxItems
    /\ produced' = produced + 1
    /\ UNCHANGED <<finished, service, syncer, faults, initCursor>>

Complete(i) ==
    /\ i <= produced
    /\ i \notin finished
    /\ finished' = finished \cup {i}
    /\ UNCHANGED <<produced, service, syncer, faults, initCursor>>

(* Faults the properties below must catch: a continuation page that      *)
(* starts one item late, a page that runs past the end of the source, and *)
(* a next_page token returned after the last page.                         *)

\* get_last_cursor of the DataStage adapter: now, the source's present.
ClockCursor == produced

\* get_last_cursor of an adapter that derives it from its last fetch.
FetchCursor == reached

\* get_last_cursor of the adapter.
GetLastCursor == IF CursorIsClock THEN ClockCursor ELSE FetchCursor

\* get_active_runs (spec 4.2): the saved runs whose terminal state the
\* service does not hold yet.
ActiveRuns == saved \ savedDone

\* get_new_data(cursor, batch_size, next_page) as spec 4.1 requires it:
\* the items after the cursor, resumed at next_page, at most batch_size of
\* them, and the next_page token, the position the page ended at if more
\* follow.
PageStartSkipOne == IF page = None THEN cur ELSE page + 1

PageStart == IF page = None THEN cur ELSE page

PageEndNoClamp == PageStart + BatchSize

PageEnd == IF PageStart + BatchSize < produced THEN PageStart + BatchSize
                                                ELSE produced

NextPageAlways == IF PageEnd <= produced THEN PageEnd ELSE None

NextPage == IF PageEnd < produced THEN PageEnd ELSE None

\* A fault RefinesCursorSync must catch: every run of a page taken as
\* finished, its state not looked at.
PageFinishedUnfiltered == (PageStart + 1) .. PageEnd

\* The runs of the page that are in a terminal state when it is fetched.
PageFinished == ((PageStart + 1) .. PageEnd) \cap finished

(* sync_once with no cursor yet: get_last_cursor is persisted as "init". *)
InitCursor ==
    /\ pc = "idle"
    /\ cursor = None
    /\ cursor' = GetLastCursor
    /\ state' = "init"
    /\ initCursor' = GetLastCursor
    /\ UNCHANGED <<source, saved, savedDone, syncer, faults>>

(* sync_once with a cursor: the cycle starts from the persisted cursor. *)
Start ==
    /\ pc = "idle"
    /\ cursor # None
    /\ pc' = "update"
    /\ cur' = cursor
    /\ page' = None
    /\ reached' = cursor
    /\ UNCHANGED <<source, service, batch, batchDone, faults, initCursor>>

(* Update phase: get_update_data on the active runs and save the result; *)
(* with no active runs neither call is made.                              *)
UpdateRuns ==
    /\ pc = "update"
    /\ savedDone' = savedDone \cup (ActiveRuns \cap finished)
    /\ pc' = "fetch"
    /\ UNCHANGED <<source, cursor, state, saved, cur, page, reached, batch,
                   batchDone, faults, initCursor>>

(* One call of get_new_data. *)
Fetch ==
    /\ pc = "fetch"
    /\ batch' = (PageStart + 1) .. PageEnd
    /\ batchDone' = PageFinished
    /\ page' = NextPage
    /\ reached' = PageEnd
    /\ pc' = "save"
    /\ UNCHANGED <<source, service, cur, faults, initCursor>>

(* save_tracking_data of a non-empty page; then the next page, or the end *)
(* of the chain.                                                           *)
Save ==
    /\ pc = "save"
    /\ saved' = saved \cup batch
    /\ savedDone' = savedDone \cup batchDone
    /\ pc' = IF page = None THEN "advance" ELSE "fetch"
    /\ UNCHANGED <<source, cursor, state, cur, page, reached, batch,
                   batchDone, faults, initCursor>>

(* The chain is drained: update_last_cursor(get_last_cursor(), "update"). *)
Advance ==
    /\ pc = "advance"
    /\ cursor' = GetLastCursor
    /\ state' = "update"
    /\ pc' = "idle"
    /\ UNCHANGED <<source, saved, savedDone, cur, page, reached, batch,
                   batchDone, faults, initCursor>>

(* A call of the cycle raises (or the monitor restarts): the cycle ends   *)
(* and what it had not persisted yet is lost.                             *)
Abort ==
    /\ pc # "idle"
    /\ faults < MaxFaults
    /\ faults' = faults + 1
    /\ pc' = "idle"
    /\ UNCHANGED <<source, service, cur, page, reached, batch, batchDone,
                   initCursor>>

SyncerStep == InitCursor \/ Start \/ UpdateRuns \/ Fetch \/ Save \/ Advance

Next ==
    \/ Produce
    \/ \E i \in Items : Complete(i)
    \/ SyncerStep
    \/ Abort

Spec == Init /\ [][Next]_vars

\* sync_once is called again and again by the monitor's scheduling loop,
\* and a cycle runs its calls one after the other: the syncer's steps are
\* weakly fair.  The source and the faults are not.
FairSpec == Spec /\ WF_vars(SyncerStep)

-----------------------------------------------------------------------------
(* Properties *)

(* Spec section 3: the cursor only passes data that was saved.  Every    *)
(* item between the bootstrap cursor and the persisted cursor is saved.  *)
NoSkippedItems ==
    cursor # None => \A i \in Items : initCursor < i /\ i <= cursor => i \in saved

(* The cursor keeps up with the source: every item produced is           *)
(* eventually behind the persisted cursor, so each pagination chain ends  *)
(* and is followed by a cursor write.                                     *)
CursorCatchesUp ==
    \A i \in Items :
        (cursor # None /\ i <= produced) ~> (cursor # None /\ i <= cursor)

\* The promise of spec section 3, on the service's state and the source.
CS == INSTANCE CursorSync

(* GenericSyncer implements CursorSync: each save of a page or of the    *)
(* update phase records produced items (finished ones only once they     *)
(* finished), and each cursor write, the bootstrap aside, moves the       *)
(* cursor forward over items that were all saved; every other step of    *)
(* the cycle leaves the service alone.                                    *)
RefinesCursorSync == CS!Spec

=============================================================================
