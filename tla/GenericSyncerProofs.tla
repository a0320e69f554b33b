------------------------- MODULE GenericSyncerProofs -------------------------
(***************************************************************************)
(* Proofs about the sync cycle with an adapter that meets spec 4.1 and   *)
(* whose get_last_cursor returns the position its fetches reached: the    *)
(* persisted cursor never passes an unsaved item, and GenericSyncer       *)
(* implements CursorSync.                                                 *)
(***************************************************************************)
EXTENDS GenericSyncer, TLAPS

\* Every item in (a, b] is in S.
Covered(a, b, S) == \A i \in Items : a < i /\ i <= b => i \in S

\* The types the proofs need, with what the source and the pages bound.
SyncTypes ==
    /\ produced \in Positions
    /\ finished \subseteq 1 .. produced
    /\ cursor \in Positions \cup {None}
    /\ initCursor \in Positions \cup {None}
    /\ saved \subseteq 1 .. produced
    /\ savedDone \subseteq saved \cap finished
    /\ pc \in {"idle", "update", "fetch", "save", "advance"}
    /\ cur \in Positions
    /\ reached \in 0 .. produced
    /\ page \in Positions \cup {None}
    /\ batch \subseteq 1 .. produced
    /\ batchDone \subseteq batch \cap finished

\* Where a cycle under way stands: it started from the persisted cursor,
\* and the items from there to where its fetches reached are saved, or
\* in the page it is about to save.
CycleInv ==
    /\ pc # "idle" => cursor # None /\ cur = cursor /\ cur <= reached
    /\ pc \in {"update", "fetch"} =>
           /\ page = None => reached = cur
           /\ page # None => page = reached
           /\ Covered(cur, reached, saved)
    /\ pc = "save" =>
           /\ page # None => page = reached
           /\ Covered(cur, reached, saved \cup batch)
    /\ pc = "advance" => Covered(cur, reached, saved)

\* The inductive invariant behind NoSkippedItems and the refinement.
SInv ==
    /\ SyncTypes
    /\ CycleInv
    /\ cursor # None => initCursor \in Positions /\ cursor <= produced
    /\ cursor # None => Covered(initCursor, cursor, saved)

-----------------------------------------------------------------------------
USE MaxItemsAssumption, BatchSizeAssumption, NoneAssumption

\* The variables the tracking service's promise is about.
absVars == <<produced, finished, cursor, saved, savedDone>>

\* A fresh integration satisfies SInv.
LEMMA SInvInit == Init => SInv
<1> SUFFICES ASSUME Init PROVE SInv
    OBVIOUS
<1>1. /\ produced = 0 /\ finished = {} /\ cursor = None /\ state = None
      /\ saved = {} /\ savedDone = {} /\ pc = "idle" /\ cur = 0
      /\ page = None /\ reached = 0 /\ batch = {} /\ batchDone = {}
      /\ initCursor = None
    BY Zenon DEF Init
<1>2. QED
    BY <1>1 DEF SInv, SyncTypes, CycleInv, Positions

\* A step of the source or an abort leaves the cycle's invariant alone.
LEMMA SInvStutterSyncer ==
    ASSUME SInv,
           produced' \in produced .. MaxItems, finished' \subseteq 1 .. produced',
           finished \subseteq finished',
           UNCHANGED <<cursor, initCursor, saved, savedDone, cur, page,
                       reached, batch, batchDone>>,
           pc' \in {pc, "idle"}
    PROVE  SInv'
BY DEF SInv, SyncTypes, CycleInv, Covered, Positions

\* The page a fetch asks for starts where the cycle's fetches reached.
LEMMA FetchPage ==
    ASSUME SInv, pc = "fetch"
    PROVE  /\ PageStart = reached
           /\ PageEnd \in reached .. produced
           /\ NextPage \in {PageEnd, None}
<1>1. PageStart = reached
    BY DEF SInv, CycleInv, PageStart
<1>2. PageEnd \in reached .. produced
    BY <1>1 DEF SInv, SyncTypes, PageEnd, Positions
<1>3. QED
    BY <1>1, <1>2 DEF NextPage

\* Every step keeps SInv when the cursor is the position the fetches reached.
LEMMA SInvStep ==
    ASSUME ~CursorIsClock
    PROVE  SInv /\ [Next]_vars => SInv'
<1> SUFFICES ASSUME SInv, [Next]_vars PROVE SInv'
    OBVIOUS
<1>1. CASE Produce
    <2>1. /\ produced < MaxItems /\ produced' = produced + 1
          /\ UNCHANGED <<finished, cursor, initCursor, saved, savedDone, pc,
                         cur, page, reached, batch, batchDone>>
        BY <1>1, Zenon DEF Produce, service, syncer
    <2>2. QED
        BY <2>1, SInvStutterSyncer DEF SInv, SyncTypes, Positions
<1>2. ASSUME NEW i \in Items, Complete(i)
      PROVE  SInv'
    <2>1. /\ i <= produced /\ finished' = finished \cup {i}
          /\ UNCHANGED <<produced, cursor, initCursor, saved, savedDone, pc,
                         cur, page, reached, batch, batchDone>>
        BY <1>2, Zenon DEF Complete, service, syncer
    <2>2. QED
        BY <2>1, SInvStutterSyncer DEF SInv, SyncTypes, Positions, Items
<1>3. CASE Abort
    <2>1. /\ pc' = "idle"
          /\ UNCHANGED <<produced, finished, cursor, initCursor, saved,
                         savedDone, cur, page, reached, batch, batchDone>>
        BY <1>3, Zenon DEF Abort, source, service
    <2>2. QED
        BY <2>1, SInvStutterSyncer DEF SInv, SyncTypes, Positions
<1>4. CASE InitCursor
    <2>1. /\ pc = "idle" /\ cursor' = reached /\ initCursor' = reached
          /\ UNCHANGED <<produced, finished, saved, savedDone, pc, cur, page,
                         reached, batch, batchDone>>
        BY <1>4, Zenon DEF InitCursor, GetLastCursor, FetchCursor, source, syncer
    <2>2. SyncTypes'
        BY <2>1 DEF SInv, SyncTypes, Positions
    <2>3. CycleInv'
        BY <2>1 DEF CycleInv
    <2>4. cursor' <= produced' /\ Covered(initCursor, cursor, saved)'
        BY <2>1 DEF SInv, SyncTypes, Covered, Items
    <2>5. QED
        BY <2>1, <2>2, <2>3, <2>4 DEF SInv, SyncTypes, Positions
<1>5. CASE Start
    <2>1. /\ pc = "idle" /\ cursor # None /\ pc' = "update"
          /\ cur' = cursor /\ page' = None /\ reached' = cursor
          /\ UNCHANGED <<produced, finished, cursor, initCursor, saved,
                         savedDone, batch, batchDone>>
        BY <1>5, Zenon DEF Start, source, service
    <2>2. cursor \in 0 .. produced
        BY <2>1 DEF SInv, SyncTypes, Positions
    <2>3. SyncTypes'
        BY <2>1, <2>2 DEF SInv, SyncTypes, Positions
    <2>4. CycleInv'
        BY <2>1, <2>2 DEF CycleInv, Covered, Items
    <2>5. QED
        BY <2>1, <2>3, <2>4 DEF SInv, Covered
<1>6. CASE UpdateRuns
    <2>1. /\ pc = "update" /\ pc' = "fetch"
          /\ savedDone' = savedDone \cup (ActiveRuns \cap finished)
          /\ UNCHANGED <<produced, finished, cursor, initCursor, saved, cur,
                         page, reached, batch, batchDone>>
        BY <1>6, Zenon DEF UpdateRuns, source
    <2>2. QED
        BY <2>1 DEF SInv, SyncTypes, CycleInv, Covered, ActiveRuns
<1>7. CASE Fetch
    <2>1. /\ pc = "fetch" /\ pc' = "save"
          /\ batch' = (PageStart + 1) .. PageEnd
          /\ batchDone' = PageFinished
          /\ page' = NextPage /\ reached' = PageEnd
          /\ UNCHANGED <<produced, finished, cursor, initCursor, saved,
                         savedDone, cur>>
        BY <1>7, Zenon DEF Fetch, source, service
    <2>2. /\ PageStart = reached
          /\ PageEnd \in reached .. produced
          /\ NextPage \in {PageEnd, None}
        BY <2>1, FetchPage
    <2>3. Covered(cur, reached', saved \cup batch')
        <3>1. Covered(cur, reached, saved)
            BY <2>1 DEF SInv, CycleInv
        <3>2. reached \in Nat /\ PageEnd \in Nat
            BY <2>2 DEF SInv, SyncTypes, Positions
        <3>3. QED
            BY <2>1, <2>2, <3>1, <3>2 DEF Covered, Items
    <2>4. QED
        BY <2>1, <2>2, <2>3 DEF SInv, SyncTypes, CycleInv, Covered,
                                 Positions, PageFinished
<1>8. CASE Save
    <2>1. /\ pc = "save"
          /\ pc' = IF page = None THEN "advance" ELSE "fetch"
          /\ saved' = saved \cup batch /\ savedDone' = savedDone \cup batchDone
          /\ UNCHANGED <<produced, finished, cursor, initCursor, cur, page,
                         reached, batch, batchDone>>
        BY <1>8, Zenon DEF Save, source
    <2>2. QED
        BY <2>1 DEF SInv, SyncTypes, CycleInv, Covered
<1>9. CASE Advance
    <2>1. /\ pc = "advance" /\ pc' = "idle" /\ cursor' = reached
          /\ UNCHANGED <<produced, finished, initCursor, saved, savedDone,
                         cur, page, reached, batch, batchDone>>
        BY <1>9, Zenon DEF Advance, GetLastCursor, FetchCursor, source
    <2>2. Covered(initCursor, reached, saved)
        <3>1. /\ cursor # None /\ cur = cursor /\ initCursor \in Positions
              /\ cursor \in Positions
              /\ Covered(cursor, reached, saved)
              /\ Covered(initCursor, cursor, saved)
            BY <2>1 DEF SInv, SyncTypes, CycleInv
        <3>2. QED
            BY <3>1 DEF Covered, Positions, Items
    <2>3. QED
        BY <2>1, <2>2 DEF SInv, SyncTypes, CycleInv, Covered, Positions
<1>10. CASE UNCHANGED vars
    <2>1. UNCHANGED <<produced, finished, cursor, initCursor, saved,
                      savedDone, pc, cur, page, reached, batch, batchDone>>
        BY <1>10, Zenon DEF vars, source, service, syncer
    <2>2. QED
        BY <2>1 DEF SInv, SyncTypes, CycleInv, Covered
<1>11. QED
    BY <1>1, <1>2, <1>3, <1>4, <1>5, <1>6, <1>7, <1>8, <1>9, <1>10
    DEF Next, SyncerStep

\* With an adapter whose get_last_cursor returns the position its fetches
\* reached (spec 4.3 d), the persisted cursor never passes an item that
\* save_tracking_data was not given, however cycles are cut by exceptions
\* and restarts: NoSkippedItems holds in every reachable state.
THEOREM NoSkippedItemsHolds ==
    ASSUME ~CursorIsClock
    PROVE  Spec => []NoSkippedItems
<1>1. SInv => NoSkippedItems
    BY DEF SInv, Covered, NoSkippedItems
<1>2. QED
    BY <1>1, SInvInit, SInvStep, PTL DEF Spec

\* A step of the cycle seen on the service: a CursorSync step or a stutter.
LEMMA StepRefines ==
    ASSUME ~CursorIsClock, SInv, [Next]_vars
    PROVE  [CS!Next]_absVars
<1>1. CASE Produce
    BY <1>1 DEF Produce, service, CS!Next, CS!Produce
<1>2. ASSUME NEW i \in Items, Complete(i)
      PROVE  [CS!Next]_absVars
    <2>1. CS!Complete(i)
        BY <1>2 DEF Complete, service, CS!Complete
    <2>2. QED
        BY <2>1 DEF CS!Next, Items, CS!Items
<1>3. CASE InitCursor
    <2>1. /\ cursor = None /\ cursor' = reached /\ reached \in 0 .. produced
          /\ UNCHANGED <<produced, finished, saved, savedDone>>
        BY <1>3 DEF InitCursor, GetLastCursor, FetchCursor, source, SInv, SyncTypes
    <2>2. CS!Bootstrap
        BY <2>1 DEF CS!Bootstrap
    <2>3. QED
        BY <2>2 DEF CS!Next
<1>4. CASE UpdateRuns
    <2>1. /\ savedDone' = savedDone \cup (ActiveRuns \cap finished)
          /\ UNCHANGED <<produced, finished, cursor, saved>>
        BY <1>4 DEF UpdateRuns, source
    <2>2. CS!Record
        <3>1. /\ {} \in SUBSET (1 .. produced)
              /\ ActiveRuns \cap finished \in SUBSET finished
              /\ ActiveRuns \cap finished \subseteq saved \cup {}
              /\ saved' = saved \cup {}
            BY <2>1 DEF ActiveRuns
        <3>2. QED
            BY <2>1, <3>1 DEF CS!Record
    <2>3. QED
        BY <2>2 DEF CS!Next
<1>5. CASE Save
    <2>1. /\ saved' = saved \cup batch /\ savedDone' = savedDone \cup batchDone
          /\ UNCHANGED <<produced, finished, cursor>>
        BY <1>5 DEF Save, source
    <2>2. /\ batch \in SUBSET (1 .. produced)
          /\ batchDone \in SUBSET finished
          /\ batchDone \subseteq saved \cup batch
        BY DEF SInv, SyncTypes
    <2>3. CS!Record
        BY <2>1, <2>2 DEF CS!Record
    <2>4. QED
        BY <2>3 DEF CS!Next
<1>6. CASE Advance
    <2>1. /\ pc = "advance" /\ cursor' = reached
          /\ UNCHANGED <<produced, finished, saved, savedDone>>
        BY <1>6 DEF Advance, GetLastCursor, FetchCursor, source
    <2>2. /\ cursor # None /\ cursor \in Positions
          /\ reached \in cursor .. produced
          /\ Covered(cursor, reached, saved)
        BY <2>1 DEF SInv, SyncTypes, CycleInv, Positions
    <2>3. CS!MoveCursor
        BY <2>1, <2>2 DEF CS!MoveCursor, Covered, Items, CS!Items
    <2>4. QED
        BY <2>3 DEF CS!Next
<1>7. CASE Start \/ Fetch \/ Abort \/ UNCHANGED vars
    BY <1>7 DEF Start, Fetch, Abort, vars, source, service, absVars
<1>8. QED
    BY <1>1, <1>2, <1>3, <1>4, <1>5, <1>6, <1>7 DEF Next, SyncerStep

\* With a fetch-derived cursor, GenericSyncer implements CursorSync
\* (spec section 3): from the service's side, a sync cycle only records
\* data of produced items, records a run as finished only once it
\* finished, and moves the cursor forward over recorded items only.
THEOREM RefinesCursorSyncHolds ==
    ASSUME ~CursorIsClock
    PROVE  Spec => RefinesCursorSync
<1>1. Init => CS!Init
    BY MaxItemsAssumption DEF Init, CS!Init, CS!Positions
<1>2. SInv /\ [Next]_vars => [CS!Next]_absVars
    BY StepRefines
<1>3. QED
    BY <1>1, <1>2, SInvInit, SInvStep, PTL
    DEF Spec, RefinesCursorSync, CS!Spec, CS!vars, absVars

-----------------------------------------------------------------------------
(* Type correctness, for both kinds of cursor. *)

\* get_new_data returns a page of items of the source and a next_page token
\* that is a position or None, and get_last_cursor returns a position.
LEMMA PageTypes ==
    ASSUME TypeOK
    PROVE  /\ PageStart \in Positions
           /\ PageEnd \in Positions
           /\ NextPage \in Positions \cup {None}
           /\ (PageStart + 1) .. PageEnd \subseteq Items
           /\ GetLastCursor \in Positions
<1>1. PageStart \in Positions
    BY DEF TypeOK, PageStart
<1>2. PageEnd \in Positions
    BY <1>1 DEF TypeOK, PageEnd, Positions
<1>3. QED
    BY <1>1, <1>2, CursorKindAssumption
    DEF TypeOK, NextPage, GetLastCursor, ClockCursor, FetchCursor, Positions, Items

LEMMA TypeInit == Init => TypeOK
BY MaxFaultsAssumption DEF Init, TypeOK, Positions

LEMMA TypeStep == TypeOK /\ [Next]_vars => TypeOK'
<1> SUFFICES ASSUME TypeOK, [Next]_vars PROVE TypeOK'
    OBVIOUS
<1>0. PageStart \in Positions /\ PageEnd \in Positions
      /\ NextPage \in Positions \cup {None}
      /\ (PageStart + 1) .. PageEnd \subseteq Items
      /\ GetLastCursor \in Positions
    BY PageTypes
<1>1. CASE Produce
    BY <1>1 DEF Produce, TypeOK, service, syncer, Positions, Items
<1>2. ASSUME NEW i \in Items, Complete(i)
      PROVE  TypeOK'
    BY <1>2 DEF Complete, TypeOK, service, syncer
<1>3. CASE InitCursor
    BY <1>0, <1>3 DEF InitCursor, TypeOK, source, syncer
<1>4. CASE Start
    BY <1>4 DEF Start, TypeOK, source, service
<1>5. CASE UpdateRuns
    BY <1>5 DEF UpdateRuns, ActiveRuns, TypeOK, source
<1>6. CASE Fetch
    <2>1. PageFinished \subseteq (PageStart + 1) .. PageEnd
        BY DEF PageFinished
    <2>2. QED
        BY <1>0, <1>6, <2>1 DEF Fetch, TypeOK, source, service
<1>7. CASE Save
    BY <1>7 DEF Save, TypeOK, source
<1>8. CASE Advance
    BY <1>0, <1>8 DEF Advance, TypeOK, source
<1>9. CASE Abort
    BY <1>9, MaxFaultsAssumption DEF Abort, TypeOK, source, service
<1>10. CASE UNCHANGED vars
    BY <1>10 DEF vars, TypeOK, source, service, syncer
<1>11. QED
    BY <1>1, <1>2, <1>3, <1>4, <1>5, <1>6, <1>7, <1>8, <1>9, <1>10
    DEF Next, SyncerStep

(* Whichever cursor the adapter returns, its present or the position its *)
(* fetches reached, and however cycles are cut by exceptions: the cursor *)
(* persisted by update_last_cursor, the pages get_new_data returns and   *)
(* the next_page tokens stay positions of the source or None.            *)
THEOREM TypeCorrect == Spec => []TypeOK
BY TypeInit, TypeStep, PTL DEF Spec

=============================================================================
