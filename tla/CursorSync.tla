----------------------------- MODULE CursorSync -----------------------------
(***************************************************************************)
(* What the incremental sync of the monitors promises (spec section 3),   *)
(* with no pages, phases or adapter: the tracking service records data of *)
(* produced items, records a finished item as finished only once it has  *)
(* finished, and moves its cursor forward only over items it recorded.    *)
(* Once the cursor is set, nothing between the first cursor and the       *)
(* current one is missing from the service.  The source may already hold *)
(* items when the integration starts.                                     *)
(***************************************************************************)
EXTENDS Naturals

CONSTANTS MaxItems, None

Items == 1 .. MaxItems
Positions == 0 .. MaxItems

VARIABLES
    produced,   \* items 1..produced exist at the source
    finished,   \* the items that reached a terminal state
    cursor,     \* the service's cursor, None before the first
    saved,      \* the items whose data the service holds
    savedDone   \* the items it holds in their terminal state

vars == <<produced, finished, cursor, saved, savedDone>>

Init ==
    /\ produced \in Positions
    /\ finished = {}
    /\ cursor = None
    /\ saved = {}
    /\ savedDone = {}

Produce ==
    /\ produced < MaxItems
    /\ produced' = produced + 1
    /\ UNCHANGED <<finished, cursor, saved, savedDone>>

Complete(i) ==
    /\ i <= produced
    /\ i \notin finished
    /\ finished' = finished \cup {i}
    /\ UNCHANGED <<produced, cursor, saved, savedDone>>

\* The first cursor: any position the source has reached.
Bootstrap ==
    /\ cursor = None
    /\ \E c \in 0 .. produced : cursor' = c
    /\ UNCHANGED <<produced, finished, saved, savedDone>>

\* Data of produced items is recorded, finished ones possibly as finished.
Record ==
    /\ \E S \in SUBSET (1 .. produced), T \in SUBSET finished :
           /\ T \subseteq saved \cup S
           /\ saved' = saved \cup S
           /\ savedDone' = savedDone \cup T
    /\ UNCHANGED <<produced, finished, cursor>>

\* The cursor moves forward, and only over recorded items.
MoveCursor ==
    /\ cursor # None
    /\ \E c \in cursor .. produced :
           /\ \A i \in Items : cursor < i /\ i <= c => i \in saved
           /\ cursor' = c
    /\ UNCHANGED <<produced, finished, saved, savedDone>>

Next ==
    \/ Produce
    \/ \E i \in Items : Complete(i)
    \/ Bootstrap
    \/ Record
    \/ MoveCursor

Spec == Init /\ [][Next]_vars

=============================================================================
