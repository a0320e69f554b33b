------------------------ MODULE CompositeStoreProofs ------------------------
(***************************************************************************)
(* Proofs about CompositeStore for every number of stores, every retry    *)
(* budget and every setting of raise_on_error and remove_failed_store.   *)
(***************************************************************************)
EXTENDS CompositeStore, TLAPS

(* What the loop of _invoke keeps true while it runs: a call is under way, *)
(* its handler name is one of the callers' and its try counter is within *)
(* its budget, and the handler is only ever called on a store that is in *)
(* the list.                                                               *)
LoopInv ==
    /\ pc # "idle" => calls \in CallIds /\ name \in CallNames
                      /\ tryNum <= Tries(name)
    /\ pc = "calling" => idx \in active

TypeInv == TypeOK /\ LoopInv

(* While a state call of a tracking run is dispatched, every store the    *)
(* loop has passed and that is still in the list either holds the call or *)
(* is queued for removal.                                                  *)
SyncSoFar ==
    (pc # "idle" /\ inRun /\ IsStateCall(name))
        => \A s \in active : s < idx => s \in failed \/ calls \in applied[s]

IInv == TypeInv /\ StateCallsInSync /\ SyncSoFar

(* The failure history of a call only grows while the call runs: calls   *)
(* not started yet have no failures, an ended call is an earlier one     *)
(* while a call is under way, and during the call the count of the store *)
(* at idx is its failed tries so far, the stores after it have none and  *)
(* every queued store failed its whole budget.                            *)
EndedBefore ==
    \A e \in ended : e.id <= calls /\ (pc # "idle" => e.id < calls)

NoFutureFails == \A c \in CallIds : c > calls => \A s \in Stores : fails[c][s] = 0

CallFails ==
    pc # "idle" =>
        /\ \A s \in failed : s < idx /\ fails[calls][s] = Tries(name)
        /\ \A s \in Stores : s > idx => fails[calls][s] = 0
        /\ idx \in Stores => fails[calls][idx] = tryNum - 1
        /\ idx \notin active => tryNum = 1

BudgetSoFar == EndedBefore /\ NoFutureFails /\ CallFails

BInv == TypeInv /\ BudgetSoFar /\ RemovedOnlyAfterBudget

-----------------------------------------------------------------------------
USE MaxRetriesAssumption, NStoresAssumption, MaxCallsAssumption,
    FlagsAssumption, ChannelAssumption, NoneAssumption, CallNamesAssumption
    DEF Stores, CallIds, NoResult

\* The retry budget of try_run_handler is at least one try.
LEMMA TriesType == \A n \in CallNames : Tries(n) \in 1 .. MaxRetries
BY DEF Tries

\* The constructor starts in a well-typed state with no call under way.
LEMMA TypeInvInit == Init => TypeInv
<1> SUFFICES ASSUME Init PROVE TypeInv
    OBVIOUS
<1>1. /\ active = Stores /\ applied = [s \in Stores |-> {}] /\ calls = 0
      /\ pc = "idle" /\ name = None /\ inRun = FALSE /\ idx = 1
      /\ tryNum = 1 /\ failed = {} /\ res = NoResult
      /\ fails = [c \in CallIds |-> [s \in Stores |-> 0]] /\ ended = {}
    BY Zenon DEF Init
<1>2. /\ active \subseteq Stores /\ applied \in [Stores -> SUBSET CallIds]
      /\ calls \in 0 .. MaxCalls /\ idx \in 1 .. NStores + 1
      /\ tryNum \in 1 .. MaxRetries /\ failed \subseteq Stores
      /\ res \in Stores \cup {NoResult}
      /\ fails \in [CallIds -> [Stores -> 0 .. MaxRetries]]
      /\ ended \subseteq EndedRecords
    BY <1>1
<1>3. pc \in {"idle", "loop", "calling"} /\ name \in CallNames \cup {None}
      /\ inRun \in BOOLEAN
    BY <1>1, Zenon
<1>4. QED
    BY <1>1, <1>2, <1>3, Zenon DEF TypeInv, TypeOK, LoopInv

\* The record an ended call leaves in the history has the type of ended.
LEMMA EndedRecordType ==
    ASSUME TypeOK, LoopInv, pc # "idle",
           NEW out \in {"returned", "raised"}, NEW r \in Stores \cup {NoResult}
    PROVE  [id |-> calls, name |-> name, inRun |-> inRun, outcome |-> out,
            res |-> r] \in EndedRecords
BY DEF TypeOK, LoopInv, EndedRecords

\* The history count of a failed attempt stays within max_retries.
LEMMA FailedAttemptType ==
    ASSUME TypeOK, LoopInv, pc = "calling", NEW kind \in FailureKinds,
           FailedAttempt(kind)
    PROVE  /\ applied' \in [Stores -> SUBSET CallIds]
           /\ fails' \in [CallIds -> [Stores -> 0 .. MaxRetries]]
<1>1. idx \in Stores /\ calls \in CallIds
    BY DEF TypeOK, LoopInv
<1>2. applied' \in [Stores -> SUBSET CallIds]
    BY <1>1 DEF TypeOK, FailedAttempt
<1>3. fails' \in [CallIds -> [Stores -> 0 .. MaxRetries]]
    BY <1>1 DEF TypeOK, FailedAttempt
<1>4. QED
    BY <1>2, <1>3

\* Every step of the composite and its callers keeps the types and the
\* loop invariant of _invoke.
LEMMA TypeInvStep == TypeInv /\ [Next]_vars => TypeInv'
<1> SUFFICES ASSUME TypeInv, [Next]_vars PROVE TypeInv'
    OBVIOUS
<1> USE DEF TypeInv
<1>1. ASSUME NEW n \in CallNames, NEW run \in BOOLEAN, Invoke(n, run)
      PROVE TypeInv'
    <2>1. TypeOK'
        BY <1>1 DEF Invoke, TypeOK
    <2>2. LoopInv'
        BY <1>1, TriesType DEF Invoke, TypeOK, LoopInv
    <2>3. QED
        BY <2>1, <2>2
<1>2. CASE SkipRemoved
    <2>1. TypeOK'
        BY <1>2 DEF SkipRemoved, TypeOK, frame
    <2>2. LoopInv'
        BY <1>2 DEF SkipRemoved, TypeOK, LoopInv, frame
    <2>3. QED
        BY <2>1, <2>2
<1>3. CASE CallHandler
    <2>1. TypeOK'
        BY <1>3 DEF CallHandler, TypeOK, frame
    <2>2. LoopInv'
        BY <1>3 DEF CallHandler, TypeOK, LoopInv, frame
    <2>3. QED
        BY <2>1, <2>2
<1>4. CASE AttemptSucceeds
    <2>1. TypeOK'
        BY <1>4 DEF AttemptSucceeds, TypeOK, LoopInv, frame
    <2>2. LoopInv'
        BY <1>4, TriesType DEF AttemptSucceeds, TypeOK, LoopInv, frame
    <2>3. QED
        BY <2>1, <2>2
<1>5. ASSUME NEW kind \in FailureKinds, AttemptFailsRetry(kind)
      PROVE TypeInv'
    <2>1. applied' \in [Stores -> SUBSET CallIds]
          /\ fails' \in [CallIds -> [Stores -> 0 .. MaxRetries]]
        BY <1>5, FailedAttemptType DEF AttemptFailsRetry
    <2>2. tryNum' \in 1 .. MaxRetries /\ tryNum' <= Tries(name')
        BY <1>5, TriesType DEF AttemptFailsRetry, TypeOK, LoopInv, frame
    <2>3. TypeOK'
        BY <1>5, <2>1, <2>2 DEF AttemptFailsRetry, TypeOK, frame
    <2>4. LoopInv'
        BY <1>5, <2>2 DEF AttemptFailsRetry, TypeOK, LoopInv, frame
    <2>5. QED
        BY <2>3, <2>4
<1>6. ASSUME NEW kind \in FailureKinds, AttemptFailsNext(kind)
      PROVE TypeInv'
    <2>1. applied' \in [Stores -> SUBSET CallIds]
          /\ fails' \in [CallIds -> [Stores -> 0 .. MaxRetries]]
        BY <1>6, FailedAttemptType DEF AttemptFailsNext
    <2>2. failed' \subseteq Stores
        BY <1>6 DEF AttemptFailsNext, TypeOK, LoopInv
    <2>6. idx' \in 1 .. NStores + 1
        BY <1>6 DEF AttemptFailsNext, TypeOK, LoopInv
    <2>7. tryNum' \in 1 .. MaxRetries
        BY <1>6 DEF AttemptFailsNext
    <2>8. /\ active' \subseteq Stores /\ calls' \in 0 .. MaxCalls
          /\ pc' \in {"idle", "loop", "calling"}
          /\ name' \in CallNames \cup {None} /\ inRun' \in BOOLEAN
          /\ res' \in Stores \cup {NoResult} /\ ended' \subseteq EndedRecords
        BY <1>6 DEF AttemptFailsNext, TypeOK, frame
    <2>3. TypeOK'
        BY <2>1, <2>2, <2>6, <2>7, <2>8 DEF TypeOK
    <2>4. LoopInv'
        BY <1>6, TriesType DEF AttemptFailsNext, TypeOK, LoopInv, frame
    <2>5. QED
        BY <2>3, <2>4
<1>7. CASE AttemptFailsRaise
    <2>1. applied' \in [Stores -> SUBSET CallIds]
          /\ fails' \in [CallIds -> [Stores -> 0 .. MaxRetries]]
        BY <1>7, FailedAttemptType DEF AttemptFailsRaise, FailureKinds
    <2>2. failed' \subseteq Stores
        BY <1>7 DEF AttemptFailsRaise, TypeOK, LoopInv
    <2>3. ended' \subseteq EndedRecords
        BY <1>7, EndedRecordType DEF AttemptFailsRaise, TypeOK
    <2>4. TypeOK'
        BY <1>7, <2>1, <2>2, <2>3 DEF AttemptFailsRaise, TypeOK, frame
    <2>5. LoopInv'
        BY <1>7 DEF AttemptFailsRaise, LoopInv
    <2>6. QED
        BY <2>4, <2>5
<1>8. CASE Finish
    <2>1. ended' \subseteq EndedRecords
        BY <1>8, EndedRecordType DEF Finish, TypeOK
    <2>2. TypeOK'
        BY <1>8, <2>1 DEF Finish, TypeOK, frame
    <2>3. LoopInv'
        BY <1>8 DEF Finish, LoopInv
    <2>4. QED
        BY <2>2, <2>3
<1>9. CASE DisableTrackingApi
    <2>1. TypeOK'
        BY <1>9 DEF DisableTrackingApi, TypeOK, frame
    <2>2. LoopInv'
        BY <1>9 DEF DisableTrackingApi, LoopInv
    <2>3. QED
        BY <2>1, <2>2
<1>10. CASE Terminating \/ UNCHANGED vars
    BY <1>10 DEF Terminating, vars, TypeOK, LoopInv
<1>11. QED
    BY <1>1, <1>2, <1>3, <1>4, <1>5, <1>6, <1>7, <1>8, <1>9, <1>10
       DEF Next, Dispatch

(* Type correctness of the composite for every value of the constants. *)
THEOREM TypeCorrect == Spec => []TypeOK
<1>1. Init => TypeInv
    BY TypeInvInit
<1>2. TypeInv /\ [Next]_vars => TypeInv'
    BY TypeInvStep
<1>3. TypeInv => TypeOK
    BY DEF TypeInv
<1>4. QED
    BY <1>1, <1>2, <1>3, PTL DEF Spec

-----------------------------------------------------------------------------
(* Quarantine of tracking-run state calls. *)

\* A failed attempt never takes a call away from a backend store.
LEMMA FailedAttemptGrows ==
    ASSUME TypeOK, LoopInv, pc = "calling", NEW kind \in FailureKinds,
           FailedAttempt(kind)
    PROVE  /\ \A s \in Stores : applied[s] \subseteq applied'[s]
           /\ calls \in applied'[idx] \/ kind # "error_applied"
<1>1. idx \in Stores
    BY DEF TypeOK, LoopInv
<1>2. QED
    BY <1>1 DEF TypeOK, FailedAttempt

\* The constructor starts with an empty call history: IInv holds.
LEMMA IInvInit == Init => IInv
<1> SUFFICES ASSUME Init PROVE IInv
    OBVIOUS
<1>1. TypeInv
    BY TypeInvInit
<1>2. ended = {} /\ pc = "idle"
    BY Zenon DEF Init
<1>3. QED
    BY <1>1, <1>2 DEF IInv, StateCallsInSync, SyncSoFar

\* Every step keeps IInv: the loop of _invoke only passes a store of a
\* tracking-run state call after the store applied it or was queued, and
\* the queued stores are removed before the call returns.
LEMMA IInvStep == IInv /\ [Next]_vars => IInv'
<1> SUFFICES ASSUME IInv, [Next]_vars PROVE IInv'
    OBVIOUS
<1>0. TypeInv /\ TypeInv'
    BY TypeInvStep DEF IInv
<1> USE DEF IInv
<1>1. ASSUME NEW n \in CallNames, NEW run \in BOOLEAN, Invoke(n, run)
      PROVE IInv'
    <2>1. StateCallsInSync'
        BY <1>1 DEF Invoke, StateCallsInSync
    <2>2. SyncSoFar'
        BY <1>1, <1>0 DEF Invoke, SyncSoFar, TypeInv, TypeOK
    <2>3. QED
        BY <1>0, <2>1, <2>2
<1>2. CASE SkipRemoved
    <2>1. StateCallsInSync'
        BY <1>2 DEF SkipRemoved, StateCallsInSync
    <2>2. SyncSoFar'
        BY <1>2, <1>0 DEF SkipRemoved, SyncSoFar, TypeInv, TypeOK, frame
    <2>3. QED
        BY <1>0, <2>1, <2>2
<1>3. CASE CallHandler
    BY <1>3, <1>0 DEF CallHandler, StateCallsInSync, SyncSoFar, frame
<1>4. CASE AttemptSucceeds
    <2>1. idx \in Stores /\ calls \in CallIds
        BY <1>4, <1>0 DEF AttemptSucceeds, TypeInv, TypeOK, LoopInv
    <2>2. \A s \in Stores : applied[s] \subseteq applied'[s]
          /\ calls \in applied'[idx]
        BY <1>4, <2>1, <1>0 DEF AttemptSucceeds, TypeInv, TypeOK
    <2>3. StateCallsInSync'
        BY <1>4, <2>2, <1>0 DEF AttemptSucceeds, StateCallsInSync, TypeInv, TypeOK
    <2>4. SyncSoFar'
        BY <1>4, <2>1, <2>2, <1>0 DEF AttemptSucceeds, SyncSoFar, TypeInv,
                                      TypeOK, frame
    <2>5. QED
        BY <1>0, <2>3, <2>4
<1>5. ASSUME NEW kind \in FailureKinds, AttemptFailsRetry(kind)
      PROVE IInv'
    <2>1. \A s \in Stores : applied[s] \subseteq applied'[s]
        BY <1>5, <1>0, FailedAttemptGrows DEF AttemptFailsRetry, TypeInv
    <2>2. StateCallsInSync'
        BY <1>5, <2>1, <1>0 DEF AttemptFailsRetry, StateCallsInSync, TypeInv,
                                TypeOK
    <2>3. SyncSoFar'
        BY <1>5, <2>1, <1>0 DEF AttemptFailsRetry, SyncSoFar, TypeInv,
                                TypeOK, frame
    <2>4. QED
        BY <1>0, <2>2, <2>3
<1>6. ASSUME NEW kind \in FailureKinds, AttemptFailsNext(kind)
      PROVE IInv'
    <2>1. \A s \in Stores : applied[s] \subseteq applied'[s]
        BY <1>6, <1>0, FailedAttemptGrows DEF AttemptFailsNext, TypeInv
    <2>2. StateCallsInSync'
        BY <1>6, <2>1, <1>0 DEF AttemptFailsNext, StateCallsInSync, TypeInv,
                                TypeOK
    <2>3. inRun /\ IsStateCall(name) => idx \in failed'
        BY <1>6 DEF AttemptFailsNext, QueueForRemoval
    <2>4. SyncSoFar'
        <3> SUFFICES ASSUME inRun, IsStateCall(name), NEW s \in active,
                            s < idx + 1
                     PROVE  s \in failed' \/ calls \in applied'[s]
            BY <1>6 DEF AttemptFailsNext, SyncSoFar, frame
        <3>1. CASE s = idx
            BY <2>3, <3>1
        <3>2. CASE s # idx
            <4>1. s < idx
                BY <3>2, <1>0 DEF TypeInv, TypeOK
            <4>2. s \in failed \/ calls \in applied[s]
                BY <4>1, <1>6 DEF SyncSoFar, AttemptFailsNext
            <4>3. QED
                BY <4>2, <2>1, <1>0, <1>6 DEF AttemptFailsNext, TypeInv, TypeOK
        <3>3. QED
            BY <3>1, <3>2
    <2>5. QED
        BY <1>0, <2>2, <2>4
<1>7. CASE AttemptFailsRaise
    <2>1. \A s \in Stores : applied[s] \subseteq applied'[s]
        BY <1>7, <1>0, FailedAttemptGrows DEF AttemptFailsRaise, TypeInv,
                                              FailureKinds
    <2>2. StateCallsInSync'
        <3> SUFFICES ASSUME NEW e \in ended', e.outcome = "returned", e.inRun,
                            IsStateCall(e.name), NEW s \in active'
                     PROVE  e.id \in applied'[s]
            BY DEF StateCallsInSync
        <3>1. CASE e \in ended
            BY <3>1, <2>1, <1>7, <1>0 DEF StateCallsInSync, AttemptFailsRaise, TypeInv, TypeOK
        <3>2. CASE e \notin ended
            BY <3>2, <1>7 DEF AttemptFailsRaise
        <3>3. QED
            BY <3>1, <3>2
    <2>3. SyncSoFar'
        BY <1>7 DEF AttemptFailsRaise, SyncSoFar
    <2>4. QED
        BY <1>0, <2>2, <2>3
<1>8. CASE Finish
    <2>1. \A s \in active' : calls \in applied'[s]
          \/ ~(inRun /\ IsStateCall(name))
        BY <1>8, <1>0 DEF Finish, SyncSoFar, TypeInv, TypeOK, frame
    <2>2. StateCallsInSync'
        <3> SUFFICES ASSUME NEW e \in ended', e.outcome = "returned", e.inRun,
                            IsStateCall(e.name), NEW s \in active'
                     PROVE  e.id \in applied'[s]
            BY DEF StateCallsInSync
        <3>1. CASE e \in ended
            BY <3>1, <1>8 DEF StateCallsInSync, Finish
        <3>2. CASE e \notin ended
            BY <3>2, <1>8, <2>1 DEF Finish
        <3>3. QED
            BY <3>1, <3>2
    <2>3. SyncSoFar'
        BY <1>8 DEF Finish, SyncSoFar
    <2>4. QED
        BY <1>0, <2>2, <2>3
<1>9. CASE DisableTrackingApi
    BY <1>9, <1>0 DEF DisableTrackingApi, StateCallsInSync, SyncSoFar, frame
<1>10. CASE Terminating \/ UNCHANGED vars
    BY <1>10, <1>0 DEF Terminating, vars, StateCallsInSync, SyncSoFar
<1>11. QED
    BY <1>1, <1>2, <1>3, <1>4, <1>5, <1>6, <1>7, <1>8, <1>9, <1>10
       DEF Next, Dispatch

(* Quarantine protects tracking runs (StateCallsInSync) for every number *)
(* of stores and retries: once a state call of a tracking run has        *)
(* returned from _invoke, every store still in the list holds it.         *)
THEOREM StateCallsInSyncHolds == Spec => []StateCallsInSync
<1>1. Init => IInv
    BY IInvInit
<1>2. IInv /\ [Next]_vars => IInv'
    BY IInvStep
<1>3. IInv => StateCallsInSync
    BY DEF IInv
<1>4. QED
    BY <1>1, <1>2, <1>3, PTL DEF Spec

-----------------------------------------------------------------------------
(* Removal only after a whole retry budget. *)

\* A failed attempt adds one to the count of the store at idx in the
\* current call, and to no other count.
LEMMA FailedAttemptCount ==
    ASSUME TypeOK, LoopInv, BudgetSoFar, pc = "calling",
           NEW kind \in FailureKinds, FailedAttempt(kind)
    PROVE  /\ fails'[calls][idx] = tryNum
           /\ \A c \in CallIds, s \in Stores :
                  c # calls \/ s # idx => fails'[c][s] = fails[c][s]
<1>1. idx \in Stores /\ calls \in CallIds /\ tryNum \in 1 .. MaxRetries
      /\ tryNum <= Tries(name) /\ name \in CallNames
    BY DEF TypeOK, LoopInv
<1>2. fails[calls][idx] = tryNum - 1
    BY <1>1 DEF BudgetSoFar, CallFails
<1>3. fails[calls][idx] < MaxRetries
    BY <1>1, <1>2, TriesType
<1>4. fails' = [fails EXCEPT ![calls][idx] = fails[calls][idx] + 1]
    BY <1>3 DEF FailedAttempt
<1>5. fails'[calls][idx] = tryNum
    BY <1>1, <1>2, <1>4 DEF TypeOK
<1>6. \A c \in CallIds, s \in Stores :
          c # calls \/ s # idx => fails'[c][s] = fails[c][s]
    BY <1>1, <1>4 DEF TypeOK
<1>7. QED
    BY <1>5, <1>6

\* The constructor starts with no call and no failure: BInv holds.
LEMMA BInvInit == Init => BInv
<1> SUFFICES ASSUME Init PROVE BInv
    OBVIOUS
<1>1. TypeInv
    BY TypeInvInit
<1>2. /\ ended = {} /\ pc = "idle" /\ active = Stores
      /\ fails = [c \in CallIds |-> [s \in Stores |-> 0]]
    BY Zenon DEF Init
<1>3. QED
    BY <1>1, <1>2 DEF BInv, BudgetSoFar, EndedBefore, NoFutureFails,
                      CallFails, RemovedOnlyAfterBudget

\* A failed attempt of the current call leaves the counts of earlier and
\* later calls, and with them the witnesses of removed stores, alone.
LEMMA FailedAttemptKeepsOthers ==
    ASSUME TypeOK, LoopInv, BudgetSoFar, RemovedOnlyAfterBudget,
           pc = "calling", NEW kind \in FailureKinds, FailedAttempt(kind),
           UNCHANGED <<active, calls>>, ended \subseteq ended'
    PROVE  NoFutureFails' /\ RemovedOnlyAfterBudget'
<1>1. \A c \in CallIds, s \in Stores :
          c # calls \/ s # idx => fails'[c][s] = fails[c][s]
    BY FailedAttemptCount
<1>2. NoFutureFails'
    <2> SUFFICES ASSUME NEW c \in CallIds, c > calls', NEW s \in Stores
                 PROVE  fails'[c][s] = 0
        BY DEF NoFutureFails
    <2>1. calls' = calls
        OBVIOUS
    <2>2. c > calls /\ c # calls
        BY <2>1 DEF TypeOK
    <2>3. fails'[c][s] = fails[c][s]
        BY <1>1, <2>2
    <2>4. QED
        BY <2>2, <2>3 DEF BudgetSoFar, NoFutureFails
<1>3. RemovedOnlyAfterBudget'
    <2> SUFFICES ASSUME NEW s \in Stores \ active', s \notin ChannelStores
                 PROVE  \E e \in ended' :
                            /\ e.outcome = "returned"
                            /\ fails'[e.id][s] =
                                   IF e.name \in StateCalls THEN MaxRetries ELSE 1
        BY DEF RemovedOnlyAfterBudget
    <2>1. PICK e \in ended :
              /\ e.outcome = "returned"
              /\ fails[e.id][s] = IF e.name \in StateCalls THEN MaxRetries ELSE 1
        BY DEF RemovedOnlyAfterBudget
    <2>2. e.id \in CallIds /\ e.id < calls
        BY DEF TypeOK, EndedRecords, BudgetSoFar, EndedBefore
    <2>3. fails'[e.id][s] = fails[e.id][s]
        BY <1>1, <2>2
    <2>4. QED
        BY <2>1, <2>3
<1>4. QED
    BY <1>2, <1>3

\* Every step keeps BInv.
LEMMA BInvStep == BInv /\ [Next]_vars => BInv'
<1> SUFFICES ASSUME BInv, [Next]_vars PROVE BInv'
    OBVIOUS
<1>0. /\ TypeOK /\ LoopInv /\ TypeOK' /\ LoopInv'
      /\ EndedBefore /\ NoFutureFails /\ CallFails /\ BudgetSoFar
      /\ RemovedOnlyAfterBudget
    BY TypeInvStep DEF BInv, TypeInv, BudgetSoFar
<1> USE DEF BInv, BudgetSoFar, TypeInv
<1>1. ASSUME NEW n \in CallNames, NEW run \in BOOLEAN, Invoke(n, run)
      PROVE BInv'
    <2>1. /\ pc = "idle" /\ calls < MaxCalls /\ calls' = calls + 1
          /\ pc' = "loop" /\ name' = n /\ idx' = 1 /\ tryNum' = 1
          /\ failed' = {} /\ UNCHANGED <<active, fails, ended>>
        BY <1>1 DEF Invoke
    <2>2. \A s \in Stores : fails[calls + 1][s] = 0
        BY <1>0, <2>1 DEF NoFutureFails, TypeOK
    <2>3. EndedBefore'
        <3> SUFFICES ASSUME NEW e \in ended' PROVE e.id <= calls' /\ e.id < calls'
            BY DEF EndedBefore
        <3>1. e \in ended /\ e.id <= calls
            BY <1>0, <2>1 DEF EndedBefore
        <3>2. e.id \in CallIds
            BY <1>0, <3>1 DEF TypeOK, EndedRecords
        <3>3. QED
            BY <1>0, <2>1, <3>1, <3>2 DEF TypeOK
    <2>4. NoFutureFails'
        BY <1>0, <2>1 DEF NoFutureFails, TypeOK
    <2>5. CallFails'
        BY <2>1, <2>2 DEF CallFails
    <2>6. QED
        BY <1>0, <2>1, <2>3, <2>4, <2>5 DEF RemovedOnlyAfterBudget
<1>2. CASE SkipRemoved
    <2>1. /\ pc = "loop" /\ idx <= NStores /\ idx \notin active
          /\ idx' = idx + 1
          /\ UNCHANGED <<active, calls, pc, name, tryNum, failed, fails, ended>>
        BY <1>2 DEF SkipRemoved, frame
    <2>2. tryNum = 1 /\ idx \in Stores
        BY <1>0, <2>1 DEF CallFails, TypeOK
    <2>3. CallFails'
        BY <1>0, <2>1, <2>2 DEF CallFails, TypeOK
    <2>4. QED
        BY <1>0, <2>1, <2>3 DEF EndedBefore, NoFutureFails,
                                RemovedOnlyAfterBudget
<1>3. CASE CallHandler
    <2>1. /\ pc = "loop" /\ idx \in active /\ pc' = "calling"
          /\ UNCHANGED <<active, calls, name, idx, tryNum, failed, fails,
                         ended>>
        BY <1>3 DEF CallHandler, frame
    <2>2. QED
        BY <1>0, <2>1 DEF EndedBefore, NoFutureFails, CallFails,
                          RemovedOnlyAfterBudget
<1>4. CASE AttemptSucceeds
    <2>1. /\ pc = "calling" /\ pc' = "loop" /\ idx' = idx + 1 /\ tryNum' = 1
          /\ UNCHANGED <<active, calls, name, failed, fails, ended>>
        BY <1>4 DEF AttemptSucceeds, frame
    <2>2. idx \in Stores
        BY <1>0, <2>1 DEF LoopInv, TypeOK
    <2>3. CallFails'
        BY <1>0, <2>1, <2>2 DEF CallFails, TypeOK
    <2>4. QED
        BY <1>0, <2>1, <2>3 DEF EndedBefore, NoFutureFails,
                                RemovedOnlyAfterBudget
<1>5. ASSUME NEW kind \in FailureKinds, AttemptFailsRetry(kind)
      PROVE BInv'
    <2>1. /\ pc = "calling" /\ pc' = "loop" /\ FailedAttempt(kind)
          /\ tryNum' = tryNum + 1
          /\ UNCHANGED <<active, calls, name, idx, failed, ended>>
        BY <1>5 DEF AttemptFailsRetry, frame
    <2>2. /\ fails'[calls][idx] = tryNum
          /\ \A c \in CallIds, s \in Stores :
                 c # calls \/ s # idx => fails'[c][s] = fails[c][s]
        BY <1>0, <2>1, FailedAttemptCount
    <2>3. idx \in active /\ idx \in Stores /\ calls \in CallIds
        BY <1>0, <2>1 DEF LoopInv, TypeOK
    <2>4. EndedBefore'
        BY <1>0, <2>1 DEF EndedBefore
    <2>5. CallFails'
        <3>1. \A s \in failed' : s < idx' /\ fails'[calls'][s] = Tries(name')
            <4> SUFFICES ASSUME NEW s \in failed
                         PROVE  s < idx /\ fails'[calls][s] = Tries(name)
                BY <2>1
            <4>1. s \in Stores /\ s < idx /\ fails[calls][s] = Tries(name)
                BY <1>0, <2>1 DEF CallFails, TypeOK
            <4>2. QED
                BY <2>2, <2>3, <4>1
        <3>2. \A s \in Stores : s > idx' => fails'[calls'][s] = 0
            BY <1>0, <2>1, <2>2, <2>3 DEF CallFails, TypeOK
        <3>3. fails'[calls'][idx'] = tryNum' - 1
            BY <2>1, <2>2, <1>0 DEF TypeOK
        <3>4. QED
            BY <2>1, <2>3, <3>1, <3>2, <3>3 DEF CallFails
    <2>6. NoFutureFails' /\ RemovedOnlyAfterBudget'
        BY <1>0, <2>1, FailedAttemptKeepsOthers
    <2>7. QED
        BY <1>0, <2>4, <2>5, <2>6
<1>6. ASSUME NEW kind \in FailureKinds, AttemptFailsNext(kind)
      PROVE BInv'
    <2>1. /\ pc = "calling" /\ pc' = "loop" /\ FailedAttempt(kind)
          /\ tryNum = Tries(name)
          /\ failed' \in {failed, failed \cup {idx}}
          /\ idx' = idx + 1 /\ tryNum' = 1
          /\ UNCHANGED <<active, calls, name, ended>>
        BY <1>6 DEF AttemptFailsNext, frame
    <2>2. /\ fails'[calls][idx] = tryNum
          /\ \A c \in CallIds, s \in Stores :
                 c # calls \/ s # idx => fails'[c][s] = fails[c][s]
        BY <1>0, <2>1, FailedAttemptCount
    <2>3. idx \in Stores /\ calls \in CallIds /\ failed \subseteq Stores
        BY <1>0, <2>1 DEF LoopInv, TypeOK
    <2>4. \A s \in failed' : s < idx' /\ fails'[calls'][s] = Tries(name')
        <3> SUFFICES ASSUME NEW s \in failed'
                     PROVE  s < idx + 1 /\ fails'[calls][s] = Tries(name)
            BY <2>1
        <3>1. CASE s = idx
            BY <2>1, <2>2, <2>3, <3>1 DEF TypeOK
        <3>2. CASE s # idx
            <4>1. s \in failed
                BY <2>1, <3>2
            <4>2. s \in Stores /\ s < idx /\ fails[calls][s] = Tries(name)
                BY <1>0, <2>1, <4>1 DEF CallFails, TypeOK
            <4>3. QED
                BY <2>2, <2>3, <3>2, <4>2
        <3>3. QED
            BY <3>1, <3>2
    <2>5. \A s \in Stores : s > idx' => fails'[calls'][s] = 0
        BY <1>0, <2>1, <2>2, <2>3 DEF CallFails, TypeOK
    <2>6. idx' \in Stores => fails'[calls'][idx'] = tryNum' - 1
        <3> SUFFICES ASSUME idx + 1 \in Stores PROVE fails'[calls][idx + 1] = 0
            BY <2>1
        <3>1. fails[calls][idx + 1] = 0
            BY <1>0, <2>1, <2>3 DEF CallFails
        <3>2. QED
            BY <2>2, <2>3, <3>1
    <2>7. CallFails'
        BY <2>1, <2>4, <2>5, <2>6 DEF CallFails
    <2>8. EndedBefore'
        BY <1>0, <2>1 DEF EndedBefore
    <2>9. NoFutureFails' /\ RemovedOnlyAfterBudget'
        BY <1>0, <2>1, FailedAttemptKeepsOthers
    <2>10. QED
        BY <1>0, <2>7, <2>8, <2>9
<1>7. CASE AttemptFailsRaise
    <2>1. /\ pc = "calling" /\ pc' = "idle" /\ FailedAttempt("panic")
          /\ ended' = ended \cup {[id |-> calls, name |-> name, inRun |-> inRun,
                                   outcome |-> "raised", res |-> NoResult]}
          /\ UNCHANGED <<active, calls>>
        BY <1>7 DEF AttemptFailsRaise, frame
    <2>2. "panic" \in FailureKinds
        BY DEF FailureKinds
    <2>3. EndedBefore'
        BY <1>0, <2>1 DEF EndedBefore, TypeOK
    <2>4. CallFails'
        BY <2>1 DEF CallFails
    <2>5. NoFutureFails' /\ RemovedOnlyAfterBudget'
        BY <1>0, <2>1, <2>2, FailedAttemptKeepsOthers
    <2>6. QED
        BY <1>0, <2>3, <2>4, <2>5
<1>8. CASE Finish
    <2>1. /\ pc = "loop" /\ pc' = "idle" /\ active' = active \ failed
          /\ ended' = ended \cup {[id |-> calls, name |-> name, inRun |-> inRun,
                                   outcome |-> "returned", res |-> res]}
          /\ UNCHANGED <<calls, name, failed, fails>>
        BY <1>8 DEF Finish, frame
    <2>2. EndedBefore'
        BY <1>0, <2>1 DEF EndedBefore, TypeOK
    <2>3. NoFutureFails' /\ CallFails'
        BY <1>0, <2>1 DEF NoFutureFails, CallFails
    <2>4. RemovedOnlyAfterBudget'
        <3> SUFFICES ASSUME NEW s \in Stores \ active', s \notin ChannelStores
                     PROVE  \E e \in ended' :
                                /\ e.outcome = "returned"
                                /\ fails'[e.id][s] =
                                       IF e.name \in StateCalls THEN MaxRetries
                                                                ELSE 1
            BY DEF RemovedOnlyAfterBudget
        <3>1. CASE s \notin active
            BY <1>0, <2>1, <3>1 DEF RemovedOnlyAfterBudget
        <3>2. CASE s \in failed
            <4> DEFINE rec == [id |-> calls, name |-> name, inRun |-> inRun,
                               outcome |-> "returned", res |-> res]
            <4>1. fails[calls][s] = Tries(name)
                BY <1>0, <2>1, <3>2 DEF CallFails
            <4>2. rec \in ended' /\ rec.outcome = "returned"
                BY <2>1
            <4>3. fails'[rec.id][s] = IF rec.name \in StateCalls THEN MaxRetries
                                                                ELSE 1
                BY <2>1, <4>1 DEF Tries, IsStateCall
            <4>4. QED
                BY <4>2, <4>3
        <3>3. QED
            BY <2>1, <3>1, <3>2
    <2>5. QED
        BY <1>0, <2>2, <2>3, <2>4
<1>9. CASE DisableTrackingApi
    <2>1. /\ pc = "idle" /\ active' = active \ ChannelStores
          /\ UNCHANGED <<calls, pc, name, idx, tryNum, failed, fails, ended>>
        BY <1>9 DEF DisableTrackingApi, frame
    <2>2. QED
        BY <1>0, <2>1 DEF EndedBefore, NoFutureFails, CallFails,
                          RemovedOnlyAfterBudget
<1>10. CASE Terminating \/ UNCHANGED vars
    <2>1. UNCHANGED <<active, calls, pc, name, idx, tryNum, failed, fails,
                      ended>>
        BY <1>10 DEF Terminating, vars
    <2>2. QED
        BY <1>0, <2>1 DEF EndedBefore, NoFutureFails, CallFails,
                          RemovedOnlyAfterBudget
<1>11. QED
    BY <1>1, <1>2, <1>3, <1>4, <1>5, <1>6, <1>7, <1>8, <1>9, <1>10
       DEF Next, Dispatch

(* A backend store leaves the composite's list only as a channel store   *)
(* dropped by disable_tracking_api, or after a returned call in which it  *)
(* failed every try of its budget (max_retries for a state call, one for  *)
(* any other), for every number of stores, retry budget and flag setting. *)
THEOREM RemovedOnlyAfterBudgetHolds == Spec => []RemovedOnlyAfterBudget
<1>1. Init => BInv
    BY BInvInit
<1>2. BInv /\ [Next]_vars => BInv'
    BY BInvStep
<1>3. BInv => RemovedOnlyAfterBudget
    BY DEF BInv
<1>4. QED
    BY <1>1, <1>2, <1>3, PTL DEF Spec

=============================================================================
